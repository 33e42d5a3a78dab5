-------------------------- MODULE HttpServerProofs --------------------------
(***************************************************************************)
(* Proofs about HttpServer, for every finite set of workers and of         *)
(* descriptors, any connections, any length of fdPool and any cache of     *)
(* error pages: the safety properties its runs check, and that it          *)
(* implements Service.                                                     *)
(***************************************************************************)
EXTENDS HttpServer, FiniteSetTheorems, TLAPS

-----------------------------------------------------------------------------
(***************************************************************************)
(* The inductive invariant.                                                *)
(***************************************************************************)
QueuedAt(f) == \E i \in 1 .. Len(queue) : queue[i] = f
HeldAt(f)   == \E t \in Threads : held[t] = f

\* A descriptor in fdPool or in a thread's hands is there once, and is a
\* socket.
Owners ==
  /\ \A i, j \in 1 .. Len(queue) : queue[i] = queue[j] => i = j
  /\ \A t \in Threads : \A i \in 1 .. Len(queue) : held[t] # queue[i]
  /\ \A t, u \in Threads : held[t] = held[u] /\ held[t] # None => t = u
  /\ \A i \in 1 .. Len(queue) : sock[queue[i]] # None
  /\ \A t \in Threads : held[t] # None => sock[held[t]] # None

\* A socket is open and owned, and that of one accepted connection.
Sockets ==
  /\ \A f \in Fds : sock[f] # None => f \in open /\ (QueuedAt(f) \/ HeldAt(f))
  /\ \A f, g \in Fds : sock[f] = sock[g] /\ sock[f] # None => f = g
  /\ \A f \in Fds : sock[f] # None => phase[sock[f]] = "accepted"
  /\ \A c \in Conns : phase[c] = "accepted" => \E f \in Fds : sock[f] = c

\* The other descriptors of a worker are open, no sockets, nobody else's, and
\* there while a file is read or a program is run.
Files ==
  /\ \A w \in Workers : \A f \in aux[w] : f \in open /\ sock[f] = None
  /\ \A w, x \in Workers : \A f \in aux[w] : f \in aux[x] => w = x
  /\ \A w \in Workers : at[w] \notin {"read", "fork"} => aux[w] = {}
  /\ \A w \in Workers : at[w] = "read" => \E f \in Fds : aux[w] = {f}
  /\ \A w \in Workers : at[w] = "fork" => \E f, g \in Fds : aux[w] \subseteq {f, g}

\* What a worker has in its local variables.
Locals(w) ==
  /\ held[w] = None <=> at[w] = "pop"
  /\ at[w] \in {"pop", "fill"} => parsed[w] = "nothing"
  /\ at[w] \in {"pop", "fill", "handle", "read", "fork"} => status[w] = 200
  /\ at[w] \in {"handle", "read", "fork", "send"} =>
       parsed[w] \in Kinds /\ request[Conn(w)] = parsed[w]
  /\ at[w] = "read" => parsed[w] \in {"page", "unreadable"}
  /\ at[w] = "fork" => parsed[w] \in {"cgi", "cgiBadStatus"}
  /\ at[w] = "send" => parsed[w] # "cgiBadStatus" /\ status[w] = Answer[parsed[w]]
  /\ at[w] = "catch" => peer[Conn(w)] = "reset" \/ request[Conn(w)] = "unreadable"
Working == \A w \in Workers : Locals(w)

\* A connection with a reply is going to be closed next.
Replied ==
  \A c \in Conns : replies[c] # <<>> =>
    \E w \in Workers : at[w] = "close" /\ Conn(w) = c

\* At its end: the accepting thread holds nothing, and accept had a reason.
Ending ==
  /\ proc = "exited" => held[Main] = None /\ (Free = {} \/ \E c \in Conns : Aborted(c))
  /\ AbortHasReason

ServerInv ==
  /\ TypeOK
  /\ Owners
  /\ Sockets
  /\ Files
  /\ Working
  /\ Replied
  /\ Ending

-----------------------------------------------------------------------------
(***************************************************************************)
(* What a step leaves alone.                                               *)
(***************************************************************************)
LEMMA OwnersStay ==
  ASSUME Owners, UNCHANGED <<queue, held, sock>>
  PROVE  Owners'
BY DEF Owners

LEMMA SocketsStay ==
  ASSUME Sockets, UNCHANGED <<queue, held, sock, phase>>,
         \A f \in Fds : sock[f] # None /\ f \in open => f \in open'
  PROVE  Sockets'
BY DEF Sockets, QueuedAt, HeldAt

LEMMA FilesStay ==
  ASSUME TypeOK, Files, UNCHANGED <<open, sock, aux>>,
         \A x \in Workers : at'[x] \in {"read", "fork"} \/ at[x] \in {"read", "fork"} => at'[x] = at[x]
  PROVE  Files'
BY DEF Files

LEMMA WorkingStays ==
  ASSUME Working, UNCHANGED <<held, sock, request, peer>>,
         NEW w \in Workers, Locals(w)',
         \A x \in Workers : x # w =>
           at'[x] = at[x] /\ parsed'[x] = parsed[x] /\ status'[x] = status[x]
  PROVE  Working'
<1> SUFFICES ASSUME NEW x \in Workers PROVE Locals(x)'
  BY DEF Working
<1>1. CASE x = w
  BY <1>1
<1>2. CASE x # w
  BY <1>2 DEF Working, Locals, Conn
<1>3. QED
  BY <1>1, <1>2

LEMMA RepliedStays ==
  ASSUME Replied, UNCHANGED <<held, sock, replies>>,
         \A x \in Workers : at[x] = "close" => at'[x] = "close"
  PROVE  Replied'
BY DEF Replied, Conn

LEMMA NotOver == ASSUME proc' = "running" PROVE Ending'
BY DEF Ending, AbortHasReason

-----------------------------------------------------------------------------
(***************************************************************************)
(* Facts about the state.                                                  *)
(***************************************************************************)
Codes == {200, 403, 404, 500}

LEMMA TheConnection ==
  ASSUME TypeOK, Owners, Sockets, Working, NEW w \in Workers, at[w] # "pop"
  PROVE  /\ held[w] \in Fds /\ Conn(w) \in Conns
         /\ phase[Conn(w)] = "accepted"
         /\ \A x \in Workers : at[x] # "pop" /\ Conn(x) = Conn(w) => x = w
<1>1. \A x \in Workers : at[x] # "pop" => held[x] \in Fds /\ held[x] # None /\ Conn(x) # None
  BY DEF TypeOK, Owners, Working, Locals, Threads, Conn
<1>2. Conn(w) \in Conns /\ phase[Conn(w)] = "accepted"
  BY <1>1 DEF TypeOK, Sockets, Conn
<1>3. \A x \in Workers : at[x] # "pop" /\ Conn(x) = Conn(w) => held[x] = held[w]
  BY <1>1 DEF Sockets, Conn
<1>4. QED
  BY <1>1, <1>2, <1>3 DEF Owners, Threads

LEMMA NoReplyYet ==
  ASSUME TypeOK, Owners, Sockets, Working, Replied,
         NEW w \in Workers, at[w] \notin {"pop", "close"}
  PROVE  replies[Conn(w)] = <<>>
BY TheConnection DEF Replied

LEMMA AnswerIs ==
  /\ DOMAIN Answer = Kinds \ {"cgiBadStatus"}
  /\ \A k \in Kinds \ {"cgiBadStatus"} : Answer[k] \in Codes
  /\ Answer["missing"] = 404 /\ Answer["forbidden"] = 403 /\ Answer["unreadable"] = 500
  /\ Answer["page"] = 200 /\ Answer["head"] = 200 /\ Answer["cgi"] = 200
BY DEF Answer, Kinds, Codes

LEMMA HeadOfQueue ==
  ASSUME queue \in Seq(Fds), queue # <<>>
  PROVE  /\ Head(queue) = queue[1] /\ 1 \in 1 .. Len(queue) /\ Head(queue) \in Fds
         /\ Tail(queue) \in Seq(Fds)
         /\ \A i \in 1 .. Len(Tail(queue)) :
              i + 1 \in 1 .. Len(queue) /\ i + 1 # 1 /\ Tail(queue)[i] = queue[i + 1]
         /\ \A i \in 1 .. Len(queue) : i # 1 =>
              i - 1 \in 1 .. Len(Tail(queue)) /\ Tail(queue)[i - 1] = queue[i]
OBVIOUS

LEMMA EndOfQueue ==
  ASSUME queue \in Seq(Fds), NEW f \in Fds
  PROVE  /\ Append(queue, f) \in Seq(Fds) /\ Len(Append(queue, f)) = Len(queue) + 1
         /\ Append(queue, f)[Len(queue) + 1] = f
         /\ \A i \in 1 .. Len(queue) : Append(queue, f)[i] = queue[i] /\ i # Len(queue) + 1
         /\ \A i \in 1 .. Len(queue) + 1 : i \in 1 .. Len(queue) \/ i = Len(queue) + 1
OBVIOUS

\* The lowest n free descriptors are free, and two are not more than two.
LEMMA LowestAreFree ==
  ASSUME NEW n PROVE Lowest(n) \subseteq Fds /\ \A f \in Lowest(n) : f \notin open
BY DEF Lowest, Free

LEMMA TwoLowest ==
  ASSUME NEW h \in Fds
  PROVE  \E f, g \in Fds : Lowest(2) \subseteq {f, g}
<1> DEFINE Below(x) == {g \in Free : g < x}
<1>1. Lowest(2) \subseteq Fds /\ Fds \subseteq Nat
  BY LowestAreFree, ServerAssumption
<1>2. ASSUME NEW x \in Lowest(2), NEW y \in Lowest(2), NEW z \in Lowest(2),
             x # y, x < z, y < z
      PROVE  FALSE
  <2>1. x \in Free /\ y \in Free /\ Cardinality(Below(z)) < 2
    BY DEF Lowest
  <2>2. {x, y} \in SUBSET Below(z)
    BY <1>2, <2>1
  <2>3. IsFiniteSet(Below(z)) /\ Cardinality(Below(z)) \in Nat
    <3>1. Below(z) \in SUBSET Fds
      BY DEF Free
    <3>2. QED
      BY <3>1, ServerAssumption, FS_Subset, FS_CardinalityType
  <2>4. Cardinality({x, y}) = 2
    <3>1. IsFiniteSet({x}) /\ Cardinality({x}) = 1
      BY FS_Singleton
    <3>2. Cardinality({x} \cup {y}) = Cardinality({x}) + 1 /\ {x} \cup {y} = {x, y}
      BY <1>2, <3>1, FS_AddElement
    <3>3. QED
      BY <3>1, <3>2
  <2> HIDE DEF Below
  <2>5. Cardinality({x, y}) <= Cardinality(Below(z))
    BY <2>2, <2>3, FS_Subset
  <2>6. QED
    BY <2>1, <2>3, <2>4, <2>5
<1>3. \A x, y, z \in Lowest(2) : x = y \/ y = z \/ x = z
  <2>1. SUFFICES ASSUME NEW x \in Lowest(2), NEW y \in Lowest(2), NEW z \in Lowest(2),
                        x # y, y # z, x # z
                 PROVE  FALSE
    OBVIOUS
  <2>2. x \in Nat /\ y \in Nat /\ z \in Nat
    BY <1>1
  <2>3. (x < z /\ y < z) \/ (x < y /\ z < y) \/ (y < x /\ z < x)
    BY <2>1, <2>2
  <2>4. QED
    BY <1>2, <2>1, <2>3
<1>4. CASE Lowest(2) = {}
  BY <1>4
<1>5. CASE Lowest(2) # {}
  <2>1. PICK f \in Lowest(2) : TRUE
    BY <1>5
  <2>2. CASE \E g \in Lowest(2) : g # f
    BY <1>1, <1>3, <2>2
  <2>3. CASE \A g \in Lowest(2) : g = f
    BY <1>1, <2>3
  <2>4. QED
    BY <2>2, <2>3
<1>6. QED
  BY <1>4, <1>5

LEMMA AppendReply ==
  ASSUME NEW code \in Codes
  PROVE  Append(<<>>, code) = <<code>> /\ <<code>> # <<>> /\ <<code>> \in Seq(Codes)
OBVIOUS

-----------------------------------------------------------------------------
(***************************************************************************)
(* The initial states, the clients and the accepting thread.               *)
(***************************************************************************)
LEMMA InitServer == Init => ServerInv
<1> SUFFICES ASSUME Init PROVE ServerInv
  OBVIOUS
<1>1. /\ queue = <<>> /\ held = [t \in Threads |-> None]
      /\ Len(queue) = 0 /\ 1 .. Len(queue) = {} /\ queue \in Seq(Fds)
  BY DEF Init, FdPool!QueueInit, Threads
<1>2. <<>> \in Seq(Codes) /\ 200 \in Codes
  BY DEF Codes
<1>3. TypeOK
  BY <1>1, <1>2, ServerAssumption DEF Init, TypeOK, Stages, Codes
<1>4. Owners /\ Sockets /\ Files
  BY <1>1, ServerAssumption DEF Init, Owners, Sockets, Files
<1>5. Working
  BY <1>1 DEF Init, Working, Locals, Threads
<1>6. Replied /\ Ending
  BY DEF Init, Replied, Ending, AbortHasReason
<1>7. QED
  BY <1>3, <1>4, <1>5, <1>6 DEF ServerInv

LEMMA ConnectKeeps ==
  ASSUME ServerInv, NEW c \in Conns, Connect(c)
  PROVE  ServerInv'
<1> USE DEF ServerInv
<1>1. /\ UNCHANGED <<errorMsgCache, proc, queue, held, open, sock, request, peer, replies,
                     at, parsed, status, aux>>
      /\ phase[c] = "idle" /\ phase' = [phase EXCEPT ![c] = "pending"] /\ proc = "running"
  BY DEF Connect, Running, poolVars, workerVars
<1>2. TypeOK'
  BY <1>1 DEF TypeOK
<1>3. Owners'
  BY <1>1, OwnersStay
<1>4. Sockets'
  BY <1>1 DEF Sockets, TypeOK, QueuedAt, HeldAt
<1>5. Files' /\ Working' /\ Replied'
  BY <1>1 DEF Files, Working, Locals, Replied, Conn
<1>6. QED
  BY <1>1, <1>2, <1>3, <1>4, <1>5, NotOver

LEMMA ArriveKeeps ==
  ASSUME ServerInv, NEW c \in Conns, NEW r \in Requests, Arrive(c, r)
  PROVE  ServerInv'
<1> USE DEF ServerInv
<1>1. /\ UNCHANGED <<errorMsgCache, proc, queue, held, open, sock, phase, peer, replies,
                     at, parsed, status, aux>>
      /\ request[c] \in {"nothing", "part"} /\ request' = [request EXCEPT ![c] = r]
      /\ proc = "running"
  BY DEF Arrive, Running, poolVars, workerVars
<1>2. TypeOK'
  BY <1>1, ServerAssumption DEF TypeOK
<1>3. Owners' /\ Sockets'
  BY <1>1, OwnersStay, SocketsStay
<1>4. Files' /\ Replied'
  BY <1>1 DEF Files, Replied, Conn
<1>5. Working'
  <2>1. \A d \in Conns : request[d] \in Kinds => request'[d] = request[d]
    BY <1>1 DEF TypeOK, Kinds
  <2>2. SUFFICES ASSUME NEW w \in Workers PROVE Locals(w)'
    BY DEF Working
  <2>3. CASE at[w] = "pop"
    BY <1>1, <2>3 DEF Working, Locals
  <2>4. CASE at[w] # "pop"
    <3>1. Conn(w) \in Conns /\ Conn(w)' = Conn(w)
      BY <1>1, <2>4, TheConnection DEF Conn
    <3>2. "unreadable" \in Kinds
      BY DEF Kinds
    <3>3. QED
      BY <1>1, <2>1, <2>4, <3>1, <3>2 DEF Working, Locals
  <2>5. QED
    BY <2>3, <2>4
<1>6. QED
  BY <1>1, <1>2, <1>3, <1>4, <1>5, NotOver

LEMMA DisturbKeeps ==
  ASSUME ServerInv, NEW c \in Conns, NEW p \in {"stalled", "reset"}, Disturb(c, p)
  PROVE  ServerInv'
<1> USE DEF ServerInv
<1>1. /\ UNCHANGED <<errorMsgCache, proc, queue, held, open, sock, phase, request, replies,
                     at, parsed, status, aux>>
      /\ peer[c] # "reset" /\ peer' = [peer EXCEPT ![c] = p] /\ proc = "running"
  BY DEF Disturb, Running, poolVars, workerVars
<1>2. TypeOK'
  BY <1>1 DEF TypeOK
<1>3. Owners' /\ Sockets'
  BY <1>1, OwnersStay, SocketsStay
<1>4. Files' /\ Replied'
  BY <1>1 DEF Files, Replied, Conn
<1>5. Working'
  <2>1. \A d \in Conns : peer[d] = "reset" => peer'[d] = "reset"
    BY <1>1 DEF TypeOK
  <2>2. SUFFICES ASSUME NEW w \in Workers PROVE Locals(w)'
    BY DEF Working
  <2>3. CASE at[w] = "pop"
    BY <1>1, <2>3 DEF Working, Locals
  <2>4. CASE at[w] # "pop"
    <3>1. Conn(w) \in Conns /\ Conn(w)' = Conn(w)
      BY <1>1, <2>4, TheConnection DEF Conn
    <3>2. QED
      BY <1>1, <2>1, <2>4, <3>1 DEF Working, Locals
  <2>5. QED
    BY <2>3, <2>4
<1>6. QED
  BY <1>1, <1>2, <1>3, <1>4, <1>5, NotOver

\* The new descriptor is no one's yet: it was not open.
LEMMA AcceptKeeps ==
  ASSUME ServerInv, NEW c \in Conns, Accept(c)
  PROVE  ServerInv'
<1> USE DEF ServerInv
<1>1. PICK f \in Lowest(1) :
        /\ held[Main] = None /\ held' = [held EXCEPT ![Main] = f]
        /\ open' = open \cup {f} /\ sock' = [sock EXCEPT ![f] = c]
  BY DEF Accept, FdPool!Offer
<1>2. /\ UNCHANGED <<errorMsgCache, proc, queue, request, peer, replies, at, parsed, status, aux>>
      /\ phase[c] = "pending" /\ phase' = [phase EXCEPT ![c] = "accepted"] /\ proc = "running"
  BY DEF Accept, Running, workerVars, FdPool!Offer
<1>3. /\ f \in Fds /\ f \notin open /\ sock[f] = None
      /\ f # None /\ c # None /\ Main \notin Workers
  <2>1. f \in Fds /\ f \notin open
    BY <1>1, LowestAreFree
  <2>2. QED
    BY <2>1, ServerAssumption DEF Sockets
<1>4. TypeOK'
  BY <1>1, <1>2, <1>3 DEF TypeOK, Threads
<1>5. \A t \in Threads : held'[t] = IF t = Main THEN f ELSE held[t]
  BY <1>1 DEF TypeOK
<1>6. \A g \in Fds : sock'[g] = IF g = f THEN c ELSE sock[g]
  BY <1>1 DEF TypeOK
<1>7. \A i \in 1 .. Len(queue) : queue[i] \in Fds /\ queue[i] # f
  BY <1>3 DEF TypeOK, Owners
<1>8. \A t \in Threads : held[t] # f
  BY <1>3 DEF Owners
<1>9. Owners'
  BY <1>1, <1>2, <1>3, <1>5, <1>6, <1>7, <1>8 DEF Owners, TypeOK
<1>10. Sockets'
  <2>1. \A g \in Fds : sock[g] # c
    BY <1>2, <1>3 DEF Sockets
  <2>2. \A g \in Fds : QueuedAt(g) \/ HeldAt(g) => QueuedAt(g)' \/ HeldAt(g)'
    BY <1>1, <1>2, <1>3, <1>5, ServerAssumption DEF QueuedAt, HeldAt
  <2>3. HeldAt(f)'
    BY <1>5 DEF HeldAt, Threads
  <2>4. \A g \in Fds : sock'[g] # None => g \in open' /\ (QueuedAt(g)' \/ HeldAt(g)')
    BY <1>1, <1>6, <2>2, <2>3 DEF Sockets
  <2>5. \A g, h \in Fds : sock'[g] = sock'[h] /\ sock'[g] # None => g = h
    BY <1>6, <2>1 DEF Sockets
  <2>6. \A d \in Conns : phase'[d] = IF d = c THEN "accepted" ELSE phase[d]
    BY <1>2 DEF TypeOK
  <2>7. \A g \in Fds : sock'[g] # None => phase'[sock'[g]] = "accepted"
    <3>1. sock' \in [Fds -> Conns \cup {None}]
      BY <1>4 DEF TypeOK
    <3>2. QED
      BY <1>6, <2>6, <3>1 DEF Sockets
  <2>8. \A d \in Conns : phase'[d] = "accepted" => \E g \in Fds : sock'[g] = d
    <3>1. \A d \in Conns : d # c /\ phase[d] = "accepted" => \E g \in Fds : g # f /\ sock[g] = d
      BY <1>3, ServerAssumption DEF Sockets
    <3>2. QED
      BY <1>3, <1>6, <2>6, <3>1
  <2>9. QED
    BY <2>4, <2>5, <2>7, <2>8 DEF Sockets
<1>11. Files'
  BY <1>1, <1>2, <1>3, <1>6 DEF Files, TypeOK
<1>12. \A w \in Workers : held'[w] = held[w] /\ (held[w] # None => Conn(w)' = Conn(w))
  <2>1. \A w \in Workers : w \in Threads /\ w # Main
    BY <1>3 DEF Threads
  <2>2. \A w \in Workers : held'[w] = held[w] /\ held[w] # f /\ (held[w] # None => held[w] \in Fds)
    BY <1>5, <1>8, <2>1 DEF TypeOK
  <2>3. QED
    BY <1>6, <2>2 DEF Conn
<1>13. \A w \in Workers : held[w] = None <=> at[w] = "pop"
  BY DEF Working, Locals
<1>14. Working'
  BY <1>2, <1>12, <1>13 DEF Working, Locals
<1>15. Replied'
  BY <1>2, <1>12, <1>13 DEF Replied
<1>16. QED
  BY <1>2, <1>4, <1>9, <1>10, <1>11, <1>14, <1>15, NotOver

LEMMA AcceptFailsKeeps ==
  ASSUME ServerInv, AcceptFails
  PROVE  ServerInv'
<1> USE DEF ServerInv
<1>1. /\ UNCHANGED <<errorMsgCache, queue, held, open, sock, phase, request, peer, replies,
                     at, parsed, status, aux>>
      /\ proc' = "exited" /\ held[Main] = None /\ (Free = {} \/ \E c \in Conns : Aborted(c))
  BY DEF AcceptFails, poolVars, connVars, workerVars
<1>2. TypeOK'
  BY <1>1 DEF TypeOK
<1>3. Owners' /\ Sockets'
  BY <1>1, OwnersStay, SocketsStay
<1>4. Files' /\ Working' /\ Replied'
  BY <1>1 DEF Files, Working, Locals, Replied, Conn
<1>5. Ending'
  BY <1>1 DEF Ending, AbortHasReason, Free, Aborted
<1>6. QED
  BY <1>2, <1>3, <1>4, <1>5

\* What main holds moves to the end of the queue.
LEMMA PushKeeps ==
  ASSUME ServerInv, Push
  PROVE  ServerInv'
<1> USE DEF ServerInv
<1> DEFINE f == held[Main]
<1>1. /\ f # None /\ queue' = Append(queue, f) /\ held' = [held EXCEPT ![Main] = None]
      /\ UNCHANGED <<errorMsgCache, proc, open, sock, phase, request, peer, replies,
                     at, parsed, status, aux>>
      /\ proc = "running"
  BY DEF Push, FdPool!Enqueue, Running, connVars, workerVars
<1>2. f \in Fds /\ Main \in Threads
  BY <1>1 DEF TypeOK, Threads
<1>3. /\ queue' \in Seq(Fds) /\ Len(queue') = Len(queue) + 1 /\ queue'[Len(queue) + 1] = f
      /\ \A i \in 1 .. Len(queue) : queue'[i] = queue[i] /\ i # Len(queue) + 1
      /\ \A i \in 1 .. Len(queue') : i \in 1 .. Len(queue) \/ i = Len(queue) + 1
      /\ \A i \in 1 .. Len(queue) : i \in 1 .. Len(queue')
      /\ Len(queue) + 1 \in 1 .. Len(queue')
  BY <1>1, <1>2, EndOfQueue DEF TypeOK
<1>4. \A t \in Threads : held'[t] = IF t = Main THEN None ELSE held[t]
  BY <1>1 DEF TypeOK
<1>5. TypeOK'
  BY <1>1, <1>3 DEF TypeOK
<1>6. \A i \in 1 .. Len(queue) : queue[i] # f /\ queue[i] # None
  BY <1>2, ServerAssumption DEF Owners, TypeOK
<1> HIDE DEF f
<1>7. Owners'
  <2>1. \A i, j \in 1 .. Len(queue') : queue'[i] = queue'[j] => i = j
    BY <1>3, <1>6 DEF Owners
  <2>2. \A t \in Threads : \A i \in 1 .. Len(queue') : held'[t] # queue'[i]
    <3>1. \A t \in Threads : t # Main => held[t] # f
      BY <1>1, <1>2 DEF Owners, f
    <3>2. f # None
      BY <1>1
    <3>3. QED
      BY <1>3, <1>4, <1>6, <3>1, <3>2 DEF Owners
  <2>3. \A t, u \in Threads : held'[t] = held'[u] /\ held'[t] # None => t = u
    BY <1>4 DEF Owners
  <2>4. \A i \in 1 .. Len(queue') : sock'[queue'[i]] # None
    BY <1>1, <1>2, <1>3 DEF Owners, f
  <2>5. \A t \in Threads : held'[t] # None => sock'[held'[t]] # None
    BY <1>1, <1>4 DEF Owners
  <2>6. QED
    BY <2>1, <2>2, <2>3, <2>4, <2>5 DEF Owners
<1>8. Sockets'
  <2>1. \A g \in Fds : QueuedAt(g) => QueuedAt(g)'
    BY <1>3 DEF QueuedAt
  <2>2. \A g \in Fds : HeldAt(g) => HeldAt(g)' \/ QueuedAt(g)'
    BY <1>3, <1>4 DEF QueuedAt, HeldAt, f
  <2>3. QED
    BY <1>1, <2>1, <2>2 DEF Sockets
<1>9. \A w \in Workers : held'[w] = held[w] /\ Conn(w)' = Conn(w)
  BY <1>1, <1>4, ServerAssumption DEF Threads, Conn
<1>10. Files' /\ Working' /\ Replied'
  BY <1>1, <1>9 DEF Files, Working, Locals, Replied
<1>11. QED
  BY <1>1, <1>5, <1>7, <1>8, <1>10, NotOver

\* The head of the queue moves to the worker.
LEMMA PopKeeps ==
  ASSUME ServerInv, NEW w \in Workers, Pop(w)
  PROVE  ServerInv'
<1> USE DEF ServerInv
<1>1. /\ queue # <<>> /\ queue' = Tail(queue) /\ held[w] = None
      /\ held' = [held EXCEPT ![w] = Head(queue)]
      /\ at[w] = "pop" /\ at' = [at EXCEPT ![w] = "fill"]
      /\ UNCHANGED <<errorMsgCache, proc, open, sock, phase, request, peer, replies,
                     parsed, status, aux>>
      /\ proc = "running"
  BY DEF Pop, Goto, FdPool!Dequeue, Running, connVars
<1> DEFINE f == queue[1]
<1>2. /\ 1 \in 1 .. Len(queue) /\ f \in Fds /\ f # None /\ w \in Threads
      /\ queue' \in Seq(Fds)
      /\ \A i \in 1 .. Len(queue') :
           i + 1 \in 1 .. Len(queue) /\ i + 1 # 1 /\ queue'[i] = queue[i + 1]
      /\ \A i \in 1 .. Len(queue) : i # 1 =>
           i - 1 \in 1 .. Len(queue') /\ queue'[i - 1] = queue[i]
  BY <1>1, HeadOfQueue, ServerAssumption DEF TypeOK, Threads
<1>3. \A t \in Threads : held'[t] = IF t = w THEN f ELSE held[t]
  BY <1>1, HeadOfQueue DEF TypeOK
<1>4. \A x \in Workers : at'[x] = IF x = w THEN "fill" ELSE at[x]
  BY <1>1 DEF TypeOK
<1>5. TypeOK'
  BY <1>1, <1>2, HeadOfQueue DEF TypeOK, Stages
<1>6. \A t \in Threads : held[t] # f
  BY <1>2 DEF Owners
<1>7. \A i \in 1 .. Len(queue') : queue'[i] # f
  BY <1>2 DEF Owners
<1> HIDE DEF f
<1>8. Owners'
  <2>1. \A i, j \in 1 .. Len(queue') : queue'[i] = queue'[j] => i = j
    <3>1. \A i, j \in 1 .. Len(queue') : queue'[i] = queue'[j] => i + 1 = j + 1
      BY <1>2 DEF Owners
    <3>2. QED
      BY <1>2, <3>1
  <2>2. \A t \in Threads : \A i \in 1 .. Len(queue') : held'[t] # queue'[i]
    BY <1>2, <1>3, <1>7 DEF Owners
  <2>3. \A t, u \in Threads : held'[t] = held'[u] /\ held'[t] # None => t = u
    BY <1>3, <1>6 DEF Owners
  <2>4. \A i \in 1 .. Len(queue') : sock'[queue'[i]] # None
    BY <1>1, <1>2 DEF Owners
  <2>5. \A t \in Threads : held'[t] # None => sock'[held'[t]] # None
    BY <1>1, <1>2, <1>3 DEF Owners, f
  <2>6. QED
    BY <2>1, <2>2, <2>3, <2>4, <2>5 DEF Owners
<1>9. Sockets'
  <2>1. \A g \in Fds : QueuedAt(g) => HeldAt(g)' \/ QueuedAt(g)'
    BY <1>2, <1>3 DEF QueuedAt, HeldAt, f
  <2>2. \A g \in Fds : HeldAt(g) => HeldAt(g)' \/ g = None
    BY <1>1, <1>3 DEF HeldAt
  <2>3. QED
    BY <1>1, <2>1, <2>2, ServerAssumption DEF Sockets
<1>10. Files'
  BY <1>1, <1>4, FilesStay
<1>11. \A x \in Workers : x # w => held'[x] = held[x] /\ Conn(x)' = Conn(x)
  BY <1>1, <1>3 DEF Threads, Conn
<1>12. Working'
  <2>1. SUFFICES ASSUME NEW x \in Workers PROVE Locals(x)'
    BY DEF Working
  <2>2. CASE x = w
    BY <1>1, <1>2, <1>3, <1>4, <2>2 DEF Working, Locals
  <2>3. CASE x # w
    BY <1>1, <1>4, <1>11, <2>3 DEF Working, Locals
  <2>4. QED
    BY <2>2, <2>3
<1>13. Replied'
  BY <1>1, <1>4, <1>11 DEF Replied
<1>14. QED
  BY <1>1, <1>5, <1>8, <1>9, <1>10, <1>12, <1>13, NotOver

-----------------------------------------------------------------------------
(***************************************************************************)
(* The workers.  A step between pop and close keeps the connection; it may *)
(* open and close files, and send a reply on its way to close.             *)
(***************************************************************************)
LEMMA InPlace ==
  ASSUME ServerInv, NEW w \in Workers, at[w] \notin {"pop", "close"},
         NEW to \in Stages \ {"pop", "fill"}, at' = [at EXCEPT ![w] = to],
         UNCHANGED <<errorMsgCache, queue, held, sock, phase, request, peer>>,
         parsed' \in [Workers -> Kinds \cup {"nothing"}], status' \in [Workers -> Codes],
         \A x \in Workers : x # w => parsed'[x] = parsed[x] /\ status'[x] = status[x],
         aux' \in [Workers -> SUBSET Fds], open' \subseteq Fds,
         \A f \in Fds : sock[f] # None /\ f \in open => f \in open',
         \/ UNCHANGED replies
         \/ to = "close" /\ \E sent \in Codes : replies' = [replies EXCEPT ![Conn(w)] = <<sent>>],
         proc = "running", UNCHANGED proc, Files', Locals(w)'
  PROVE  ServerInv'
<1> USE DEF ServerInv
<1>1. /\ held[w] \in Fds /\ Conn(w) \in Conns
      /\ \A x \in Workers : at[x] # "pop" /\ Conn(x) = Conn(w) => x = w
  BY TheConnection
<1>2. \A x \in Workers : at'[x] = IF x = w THEN to ELSE at[x]
  BY DEF TypeOK
<1>3. \A x \in Workers : x # w =>
        at'[x] = at[x] /\ parsed'[x] = parsed[x] /\ status'[x] = status[x]
  BY <1>2
<1>4. replies' \in [Conns -> Seq(Codes)]
  <2>1. replies \in [Conns -> Seq(Codes)]
    BY DEF TypeOK, Codes
  <2>2. \A sent \in Codes : <<sent>> \in Seq(Codes)
    BY AppendReply
  <2>3. QED
    BY <1>1, <2>1, <2>2
<1>5. TypeOK'
  <2>1. at' \in [Workers -> Stages]
    BY DEF TypeOK
  <2>2. QED
    BY <1>4, <2>1 DEF TypeOK, Codes
<1>6. Owners' /\ Sockets'
  BY OwnersStay, SocketsStay
<1>7. Working'
  BY <1>3, WorkingStays
<1>8. Replied'
  <2>1. \A x \in Workers : at[x] = "close" => at'[x] = "close" /\ x # w
    BY <1>2
  <2>2. CASE UNCHANGED replies
    BY <2>1, <2>2, RepliedStays
  <2>3. CASE to = "close" /\ \E sent \in Codes : replies' = [replies EXCEPT ![Conn(w)] = <<sent>>]
    <3>1. \A c \in Conns : c # Conn(w) => replies'[c] = replies[c]
      BY <2>3 DEF TypeOK
    <3>2. at'[w] = "close" /\ \A x \in Workers : Conn(x)' = Conn(x)
      BY <1>2, <2>3 DEF Conn
    <3>3. QED
      BY <2>1, <3>1, <3>2 DEF Replied
  <2>4. QED
    BY <2>2, <2>3
<1>9. QED
  BY <1>5, <1>6, <1>7, <1>8, NotOver

\* A worker that has no files before or after the step.
LEMMA FilesUntouched ==
  ASSUME ServerInv, NEW w \in Workers, at[w] \notin {"read", "fork"},
         NEW to \in Stages \ {"read", "fork"}, at' = [at EXCEPT ![w] = to],
         UNCHANGED <<open, sock, aux>>
  PROVE  Files'
<1>1. \A x \in Workers : at'[x] = IF x = w THEN to ELSE at[x]
  BY DEF ServerInv, TypeOK
<1>2. QED
  BY <1>1, FilesStay DEF ServerInv

\* One that gets these files, or is done with the ones it had.
LEMMA FilesChange ==
  ASSUME ServerInv, NEW w \in Workers, UNCHANGED sock,
         \A x \in Workers : x # w => at'[x] = at[x] /\ aux'[x] = aux[x],
         \A f \in aux'[w] : f \in Fds /\ f \in open' /\ f \notin open,
         \A f \in open : f \in open' \/ f \in aux[w],
         at'[w] \notin {"read", "fork"} => aux'[w] = {},
         at'[w] = "read" => \E f \in Fds : aux'[w] = {f},
         at'[w] = "fork" => \E f, g \in Fds : aux'[w] \subseteq {f, g}
  PROVE  Files'
<1> USE DEF ServerInv
<1>1. \A x \in Workers : \A f \in aux'[x] : f \in open' /\ sock'[f] = None
  <2>1. \A x \in Workers : x # w => \A f \in aux[x] : f \in open' /\ sock[f] = None
    BY DEF Files
  <2>2. \A f \in aux'[w] : sock[f] = None
    BY DEF Sockets
  <2>3. QED
    BY <2>1, <2>2
<1>2. \A x, y \in Workers : \A f \in aux'[x] : f \in aux'[y] => x = y
  <2>1. \A x \in Workers : \A f \in aux[x] : f \in open
    BY DEF Files
  <2>2. \A x, y \in Workers : \A f \in aux[x] : f \in aux[y] => x = y
    BY DEF Files
  <2>3. QED
    BY <2>1, <2>2
<1>3. \A x \in Workers : at'[x] \notin {"read", "fork"} => aux'[x] = {}
  BY DEF Files
<1>4. \A x \in Workers : at'[x] = "read" => \E f \in Fds : aux'[x] = {f}
  BY DEF Files
<1>5. \A x \in Workers : at'[x] = "fork" => \E f, g \in Fds : aux'[x] \subseteq {f, g}
  BY DEF Files
<1>6. QED
  BY <1>1, <1>2, <1>3, <1>4, <1>5 DEF Files

LEMMA FillKeeps ==
  ASSUME ServerInv, NEW w \in Workers, Fill(w)
  PROVE  ServerInv'
<1> USE DEF ServerInv
<1> DEFINE c == Conn(w)
<1>1. /\ at[w] = "fill" /\ proc = "running" /\ UNCHANGED proc
      /\ UNCHANGED <<errorMsgCache, queue, held, open, sock, phase, request, peer, replies,
                     status, aux>>
  BY DEF Fill, Goto, Running, poolVars, connVars
<1>2. parsed[w] = "nothing" /\ status[w] = 200 /\ aux[w] = {} /\ held[w] # None
  BY <1>1 DEF Working, Locals, Files
<1>3. \/ /\ peer[c] = "reset" /\ at' = [at EXCEPT ![w] = "catch"] /\ UNCHANGED parsed
      \/ /\ at' = [at EXCEPT ![w] = "close"] /\ UNCHANGED parsed
      \/ /\ request[c] \in Kinds /\ at' = [at EXCEPT ![w] = "handle"]
         /\ parsed' = [parsed EXCEPT ![w] = request[c]]
  BY DEF Fill, Goto
<1>4. PICK to \in {"catch", "close", "handle"} :
        /\ at' = [at EXCEPT ![w] = to]
        /\ to = "catch" => peer[c] = "reset"
        /\ to = "handle" => request[c] \in Kinds /\ parsed' = [parsed EXCEPT ![w] = request[c]]
        /\ to # "handle" => UNCHANGED parsed
  BY <1>3
<1>5. PICK k \in Kinds \cup {"nothing"} : /\ parsed' = [parsed EXCEPT ![w] = k]
                                          /\ to = "handle" => k \in Kinds /\ k = request[c]
                                          /\ to # "handle" => k = "nothing"
  <2>1. CASE to = "handle"
    BY <1>4, <2>1
  <2>2. CASE to # "handle"
    <3>1. parsed' = [parsed EXCEPT ![w] = "nothing"]
      BY <1>2, <1>4, <2>2 DEF TypeOK
    <3>2. QED
      BY <2>2, <3>1
  <2>3. QED
    BY <2>1, <2>2
<1>6. at'[w] = to /\ parsed'[w] = k /\ Conn(w)' = c
  BY <1>1, <1>4, <1>5 DEF TypeOK, Conn
<1>7. Files'
  BY <1>1, <1>4, FilesUntouched DEF Stages
<1>8. Locals(w)'
  BY <1>1, <1>2, <1>4, <1>5, <1>6 DEF Locals
<1>9. /\ parsed' \in [Workers -> Kinds \cup {"nothing"}] /\ status' \in [Workers -> Codes]
      /\ \A x \in Workers : x # w => parsed'[x] = parsed[x] /\ status'[x] = status[x]
      /\ aux' \in [Workers -> SUBSET Fds]
  BY <1>1, <1>5 DEF TypeOK, Codes
<1>10. to \in Stages \ {"pop", "fill"} /\ at[w] \notin {"pop", "close"}
  BY <1>1 DEF Stages
<1>11. open' \subseteq Fds
  BY <1>1 DEF TypeOK
<1>12. QED
  BY <1>1, <1>4, <1>5, <1>7, <1>8, <1>9, <1>10, <1>11, InPlace

LEMMA ErrorPageKeeps ==
  ASSUME ServerInv, NEW w \in Workers, ErrorPage(w)
  PROVE  ServerInv'
<1> USE DEF ServerInv
<1> DEFINE k    == parsed[w]
           code == Answer[k]
           to   == IF code \in errorMsgCache THEN "send" ELSE "close"
<1>1. /\ at[w] = "handle" /\ proc = "running" /\ UNCHANGED proc
      /\ k \in {"missing", "forbidden"} /\ status' = [status EXCEPT ![w] = code]
      /\ at' = [at EXCEPT ![w] = to]
      /\ UNCHANGED <<errorMsgCache, queue, held, open, sock, phase, request, peer, replies,
                     parsed, aux>>
  BY DEF ErrorPage, Goto, Running, poolVars, connVars
<1>2. /\ request[Conn(w)] = k /\ k \in Kinds /\ aux[w] = {} /\ held[w] # None
      /\ code \in Codes /\ to \in {"send", "close"}
  BY <1>1, AnswerIs DEF Working, Locals, Files, Codes
<1>3. /\ parsed' \in [Workers -> Kinds \cup {"nothing"}] /\ status' \in [Workers -> Codes]
      /\ \A x \in Workers : x # w => parsed'[x] = parsed[x] /\ status'[x] = status[x]
      /\ aux' \in [Workers -> SUBSET Fds]
  BY <1>1, <1>2 DEF TypeOK, Codes
<1>4. at'[w] = to /\ status'[w] = code /\ parsed'[w] = k /\ Conn(w)' = Conn(w)
  BY <1>1, <1>2 DEF TypeOK, Conn
<1> HIDE DEF to, code
<1>5. Files'
  BY <1>1, <1>2, FilesUntouched DEF Stages
<1>6. Locals(w)'
  BY <1>1, <1>2, <1>4 DEF Locals, code
<1>7. to \in Stages \ {"pop", "fill"} /\ at[w] \notin {"pop", "close"} /\ open' \subseteq Fds
  BY <1>1, <1>2 DEF Stages, TypeOK
<1>8. QED
  BY <1>1, <1>2, <1>3, <1>5, <1>6, <1>7, InPlace

LEMMA HeadOnlyKeeps ==
  ASSUME ServerInv, NEW w \in Workers, HeadOnly(w)
  PROVE  ServerInv'
<1> USE DEF ServerInv
<1>1. /\ at[w] = "handle" /\ proc = "running" /\ UNCHANGED proc
      /\ parsed[w] = "head" /\ at' = [at EXCEPT ![w] = "send"]
      /\ UNCHANGED <<errorMsgCache, queue, held, open, sock, phase, request, peer, replies,
                     parsed, status, aux>>
  BY DEF HeadOnly, Goto, Running, poolVars, connVars
<1>2. /\ request[Conn(w)] = "head" /\ "head" \in Kinds /\ aux[w] = {} /\ held[w] # None
      /\ status[w] = 200 /\ Answer["head"] = 200
  BY <1>1, AnswerIs DEF Working, Locals, Files
<1>3. /\ parsed' \in [Workers -> Kinds \cup {"nothing"}] /\ status' \in [Workers -> Codes]
      /\ aux' \in [Workers -> SUBSET Fds]
  BY <1>1 DEF TypeOK, Codes
<1>4. at'[w] = "send" /\ Conn(w)' = Conn(w)
  BY <1>1 DEF TypeOK, Conn
<1>5. Files'
  BY <1>1, FilesUntouched DEF Stages
<1>6. Locals(w)'
  BY <1>1, <1>2, <1>4 DEF Locals
<1>7. "send" \in Stages \ {"pop", "fill"} /\ at[w] \notin {"pop", "close"} /\ open' \subseteq Fds
  BY <1>1 DEF Stages, TypeOK
<1>8. QED
  BY <1>1, <1>2, <1>3, <1>5, <1>6, <1>7, InPlace

LEMMA OpenFileKeeps ==
  ASSUME ServerInv, NEW w \in Workers, OpenFile(w)
  PROVE  ServerInv'
<1> USE DEF ServerInv
<1>1. /\ at[w] = "handle" /\ proc = "running" /\ UNCHANGED proc
      /\ parsed[w] \in {"page", "unreadable"}
      /\ UNCHANGED <<errorMsgCache, queue, held, sock, phase, request, peer, replies,
                     parsed, status>>
  BY DEF OpenFile, Goto, Running, poolVars, connVars
<1>2. /\ request[Conn(w)] = parsed[w] /\ parsed[w] \in Kinds /\ aux[w] = {} /\ held[w] # None
      /\ status[w] = 200 /\ Conn(w)' = Conn(w)
  BY <1>1 DEF Working, Locals, Files, Conn
<1>3. parsed' \in [Workers -> Kinds \cup {"nothing"}] /\ status' \in [Workers -> Codes]
  BY <1>1 DEF TypeOK, Codes
<1>4. CASE \E f \in Lowest(1) :
             /\ at' = [at EXCEPT ![w] = "read"] /\ open' = open \cup {f}
             /\ aux' = [aux EXCEPT ![w] = {f}]
  <2>1. PICK f \in Lowest(1) :
          /\ at' = [at EXCEPT ![w] = "read"] /\ open' = open \cup {f}
          /\ aux' = [aux EXCEPT ![w] = {f}]
    BY <1>4
  <2>2. f \in Fds /\ f \notin open
    BY LowestAreFree
  <2>3. /\ at'[w] = "read" /\ "read" \in Stages \ {"pop", "fill"}
        /\ open' \subseteq Fds /\ aux' \in [Workers -> SUBSET Fds]
    BY <2>1, <2>2 DEF TypeOK, Stages
  <2>4. Files'
    <3>1. aux'[w] = {f} /\ \A x \in Workers : x # w => at'[x] = at[x] /\ aux'[x] = aux[x]
      BY <2>1 DEF TypeOK
    <3>2. QED
      BY <1>1, <2>1, <2>2, <2>3, <3>1, FilesChange
  <2>5. Locals(w)'
    BY <1>1, <1>2, <2>3 DEF Locals
  <2>6. QED
    BY <1>1, <1>3, <2>1, <2>3, <2>4, <2>5, InPlace
<1>5. CASE at' = [at EXCEPT ![w] = "close"] /\ UNCHANGED <<open, aux>>
  <2>1. /\ at'[w] = "close" /\ "close" \in Stages \ {"pop", "fill"}
        /\ open' \subseteq Fds /\ aux' \in [Workers -> SUBSET Fds]
    BY <1>5 DEF TypeOK, Stages
  <2>2. Files'
    BY <1>1, <1>5, FilesUntouched DEF Stages
  <2>3. Locals(w)'
    BY <1>1, <1>2, <2>1 DEF Locals
  <2>4. QED
    BY <1>1, <1>3, <1>5, <2>1, <2>2, <2>3, InPlace
<1>6. QED
  BY <1>4, <1>5 DEF OpenFile, Goto

LEMMA ReadFileKeeps ==
  ASSUME ServerInv, NEW w \in Workers, ReadFile(w)
  PROVE  ServerInv'
<1> USE DEF ServerInv
<1>1. /\ at[w] = "read" /\ proc = "running" /\ UNCHANGED proc
      /\ UNCHANGED <<errorMsgCache, queue, held, sock, phase, request, peer, replies,
                     parsed, status>>
      /\ aux' = [aux EXCEPT ![w] = {}]
  BY DEF ReadFile, Goto, Running, poolVars, connVars
<1>2. /\ request[Conn(w)] = parsed[w] /\ parsed[w] \in Kinds /\ held[w] # None
      /\ status[w] = 200 /\ Conn(w)' = Conn(w) /\ Answer["page"] = 200
  BY <1>1, AnswerIs DEF Working, Locals, Conn
<1>3. /\ parsed' \in [Workers -> Kinds \cup {"nothing"}] /\ status' \in [Workers -> Codes]
      /\ aux' \in [Workers -> SUBSET Fds]
  BY <1>1 DEF TypeOK, Codes
<1>4. PICK to \in {"send", "catch"} :
        /\ at' = [at EXCEPT ![w] = to]
        /\ to = "send" => parsed[w] = "page" /\ open' = open \ aux[w]
        /\ to = "catch" => parsed[w] = "unreadable" /\ UNCHANGED open
  BY DEF ReadFile, Goto
<1>5. /\ at'[w] = to /\ to \in Stages \ {"pop", "fill"} /\ to \in Stages
      /\ open' \subseteq open /\ (\A f \in open : f \in open' \/ f \in aux[w])
  BY <1>4 DEF TypeOK, Stages
<1>6. open' \subseteq Fds /\ \A f \in Fds : sock[f] # None /\ f \in open => f \in open'
  BY <1>5 DEF TypeOK, Files
<1>7. Files'
  <2>1. aux'[w] = {} /\ \A x \in Workers : x # w => at'[x] = at[x] /\ aux'[x] = aux[x]
    BY <1>1, <1>4 DEF TypeOK
  <2>2. QED
    BY <1>1, <1>5, <2>1, FilesChange
<1>8. Locals(w)'
  BY <1>1, <1>2, <1>4, <1>5 DEF Locals
<1>9. QED
  BY <1>1, <1>3, <1>4, <1>5, <1>6, <1>7, <1>8, InPlace

LEMMA MakePipeKeeps ==
  ASSUME ServerInv, NEW w \in Workers, MakePipe(w)
  PROVE  ServerInv'
<1> USE DEF ServerInv
<1>1. /\ at[w] = "handle" /\ proc = "running" /\ UNCHANGED proc
      /\ parsed[w] \in {"cgi", "cgiBadStatus"}
      /\ UNCHANGED <<errorMsgCache, queue, held, sock, phase, request, peer, replies,
                     parsed, status>>
  BY DEF MakePipe, Goto, Running, poolVars, connVars
<1>2. /\ request[Conn(w)] = parsed[w] /\ parsed[w] \in Kinds /\ aux[w] = {} /\ held[w] # None
      /\ status[w] = 200 /\ Conn(w)' = Conn(w) /\ held[w] \in Fds
  BY <1>1, TheConnection DEF Working, Locals, Files, Conn
<1>3. parsed' \in [Workers -> Kinds \cup {"nothing"}] /\ status' \in [Workers -> Codes]
  BY <1>1 DEF TypeOK, Codes
<1>4. CASE /\ at' = [at EXCEPT ![w] = "fork"] /\ open' = open \cup Lowest(2)
           /\ aux' = [aux EXCEPT ![w] = Lowest(2)]
  <2>1. /\ Lowest(2) \in SUBSET Fds /\ (\A f \in Lowest(2) : f \notin open)
        /\ \E f, g \in Fds : Lowest(2) \subseteq {f, g}
    BY <1>2, LowestAreFree, TwoLowest
  <2>2. /\ at'[w] = "fork" /\ "fork" \in Stages \ {"pop", "fill"}
        /\ open' \subseteq Fds /\ aux' \in [Workers -> SUBSET Fds]
    BY <1>4, <2>1 DEF TypeOK, Stages
  <2>3. Files'
    <3>1. aux'[w] = Lowest(2) /\ \A x \in Workers : x # w => at'[x] = at[x] /\ aux'[x] = aux[x]
      BY <1>4 DEF TypeOK
    <3>2. QED
      BY <1>1, <1>4, <2>1, <2>2, <3>1, FilesChange
  <2>4. Locals(w)'
    BY <1>1, <1>2, <2>2 DEF Locals
  <2>5. QED
    BY <1>1, <1>3, <1>4, <2>2, <2>3, <2>4, InPlace
<1>5. CASE at' = [at EXCEPT ![w] = "close"] /\ UNCHANGED <<open, aux>>
  <2>1. /\ at'[w] = "close" /\ "close" \in Stages \ {"pop", "fill"}
        /\ open' \subseteq Fds /\ aux' \in [Workers -> SUBSET Fds]
    BY <1>5 DEF TypeOK, Stages
  <2>2. Files'
    BY <1>1, <1>5, FilesUntouched DEF Stages
  <2>3. Locals(w)'
    BY <1>1, <1>2, <2>1 DEF Locals
  <2>4. QED
    BY <1>1, <1>3, <1>5, <2>1, <2>2, <2>3, InPlace
<1>6. QED
  BY <1>4, <1>5 DEF MakePipe, Goto

LEMMA RunCgiKeeps ==
  ASSUME ServerInv, NEW w \in Workers, RunCgi(w)
  PROVE  ServerInv'
<1> USE DEF ServerInv
<1>1. /\ at[w] = "fork" /\ proc = "running" /\ UNCHANGED proc
      /\ UNCHANGED <<errorMsgCache, queue, held, sock, phase, request, peer, replies,
                     parsed, status>>
      /\ aux' = [aux EXCEPT ![w] = {}]
  BY DEF RunCgi, Goto, Running, poolVars, connVars
<1>2. /\ request[Conn(w)] = parsed[w] /\ parsed[w] \in {"cgi", "cgiBadStatus"}
      /\ parsed[w] \in Kinds /\ held[w] # None
      /\ status[w] = 200 /\ Conn(w)' = Conn(w) /\ Answer["cgi"] = 200
  BY <1>1, AnswerIs DEF Working, Locals, Conn
<1>3. /\ parsed' \in [Workers -> Kinds \cup {"nothing"}] /\ status' \in [Workers -> Codes]
      /\ aux' \in [Workers -> SUBSET Fds]
  BY <1>1 DEF TypeOK, Codes
<1>4. PICK to \in {"send", "close"} :
        /\ at' = [at EXCEPT ![w] = to]
        /\ to = "send" => parsed[w] = "cgi"
  BY DEF RunCgi, Goto
<1>5. /\ open' \subseteq open /\ \A f \in open : f \in open' \/ f \in aux[w]
  BY DEF RunCgi
<1>6. at'[w] = to /\ to \in Stages \ {"pop", "fill"} /\ to \in Stages
  BY <1>4 DEF TypeOK, Stages
<1>7. open' \subseteq Fds /\ \A f \in Fds : sock[f] # None /\ f \in open => f \in open'
  BY <1>5 DEF TypeOK, Files
<1>8. Files'
  <2>1. aux'[w] = {} /\ \A x \in Workers : x # w => at'[x] = at[x] /\ aux'[x] = aux[x]
    BY <1>1, <1>4 DEF TypeOK
  <2>2. QED
    BY <1>1, <1>4, <1>5, <1>6, <2>1, FilesChange
<1>9. Locals(w)'
  BY <1>1, <1>2, <1>4, <1>6 DEF Locals
<1>10. QED
  BY <1>1, <1>3, <1>4, <1>6, <1>7, <1>8, <1>9, InPlace

LEMMA SendKeeps ==
  ASSUME ServerInv, NEW w \in Workers, Send(w)
  PROVE  ServerInv'
<1> USE DEF ServerInv
<1>1. /\ at[w] = "send" /\ proc = "running" /\ UNCHANGED proc
      /\ UNCHANGED <<errorMsgCache, queue, held, open, sock, phase, request, peer,
                     parsed, status, aux>>
  BY DEF Send, Goto, Running, poolVars
<1>2. /\ held[w] # None /\ Conn(w)' = Conn(w) /\ Conn(w) \in Conns
      /\ replies[Conn(w)] = <<>> /\ status[w] \in Codes
  BY <1>1, TheConnection, NoReplyYet DEF Working, Locals, Conn, TypeOK, Codes
<1>3. /\ parsed' \in [Workers -> Kinds \cup {"nothing"}] /\ status' \in [Workers -> Codes]
      /\ aux' \in [Workers -> SUBSET Fds] /\ open' \subseteq Fds
  BY <1>1 DEF TypeOK, Codes
<1>4. at[w] \notin {"pop", "close", "read", "fork"}
  BY <1>1
<1>5. CASE replies' = [replies EXCEPT ![Conn(w)] = Append(@, status[w])] /\ at' = [at EXCEPT ![w] = "close"]
  <2>1. replies' = [replies EXCEPT ![Conn(w)] = <<status[w]>>] /\ <<status[w]>> # <<>>
    BY <1>2, <1>5, AppendReply
  <2>2. at'[w] = "close" /\ "close" \in Stages \ {"pop", "fill", "read", "fork"}
    BY <1>5 DEF TypeOK, Stages
  <2>3. Locals(w)'
    BY <1>1, <1>2, <2>2 DEF Locals
  <2>4. Files'
    BY <1>1, <1>4, <1>5, <2>2, FilesUntouched
  <2>5. \E sent \in Codes : replies' = [replies EXCEPT ![Conn(w)] = <<sent>>]
    BY <1>2, <2>1
  <2>6. QED
    BY <1>1, <1>3, <1>4, <1>5, <2>2, <2>3, <2>4, <2>5, InPlace
<1>6. CASE peer[Conn(w)] = "reset" /\ UNCHANGED replies /\ at' = [at EXCEPT ![w] = "catch"]
  <2>1. at'[w] = "catch" /\ "catch" \in Stages \ {"pop", "fill", "read", "fork"}
    BY <1>6 DEF TypeOK, Stages
  <2>2. Locals(w)'
    BY <1>1, <1>2, <1>6, <2>1 DEF Locals
  <2>3. Files'
    BY <1>1, <1>4, <1>6, <2>1, FilesUntouched
  <2>4. QED
    BY <1>1, <1>3, <1>4, <1>6, <2>1, <2>2, <2>3, InPlace
<1>7. QED
  BY <1>5, <1>6 DEF Send, Writen, WritenThrows, Goto

\* The reply of the handler; or the end of the process, which leaves the
\* socket of the connection that caused it.
LEMMA Catch500Keeps ==
  ASSUME ServerInv, NEW w \in Workers, Catch500(w)
  PROVE  ServerInv'
<1> USE DEF ServerInv
<1>1. /\ at[w] = "catch" /\ proc = "running" /\ status' = [status EXCEPT ![w] = 500]
      /\ UNCHANGED <<errorMsgCache, queue, held, open, sock, phase, request, peer,
                     parsed, aux>>
  BY DEF Catch500, Goto, Running, poolVars
<1>2. /\ held[w] # None /\ Conn(w)' = Conn(w) /\ Conn(w) \in Conns
      /\ phase[Conn(w)] = "accepted" /\ replies[Conn(w)] = <<>>
      /\ 500 \in Codes
  BY <1>1, TheConnection, NoReplyYet DEF Working, Locals, Conn, Codes
<1>3. /\ parsed' \in [Workers -> Kinds \cup {"nothing"}] /\ status' \in [Workers -> Codes]
      /\ \A x \in Workers : x # w => parsed'[x] = parsed[x] /\ status'[x] = status[x]
      /\ aux' \in [Workers -> SUBSET Fds] /\ open' \subseteq Fds
  BY <1>1, <1>2 DEF TypeOK, Codes
<1>4. at[w] \notin {"pop", "close", "read", "fork"}
  BY <1>1
<1>5. CASE /\ replies' = [replies EXCEPT ![Conn(w)] = Append(@, 500)]
           /\ at' = [at EXCEPT ![w] = "close"] /\ UNCHANGED proc
  <2>1. replies' = [replies EXCEPT ![Conn(w)] = <<500>>] /\ <<500>> # <<>>
    BY <1>2, <1>5, AppendReply
  <2>2. at'[w] = "close" /\ "close" \in Stages \ {"pop", "fill", "read", "fork"}
    BY <1>5 DEF TypeOK, Stages
  <2>3. Locals(w)'
    BY <1>1, <1>2, <2>2 DEF Locals
  <2>4. Files'
    BY <1>1, <1>4, <1>5, <2>2, FilesUntouched
  <2>5. \E sent \in Codes : replies' = [replies EXCEPT ![Conn(w)] = <<sent>>]
    BY <2>1 DEF Codes
  <2>6. QED
    BY <1>1, <1>3, <1>4, <1>5, <2>2, <2>3, <2>4, <2>5, InPlace
<1>6. CASE /\ proc' = "aborted" /\ UNCHANGED <<at, replies>>
           /\ 500 \notin errorMsgCache \/ peer[Conn(w)] = "reset"
  <2>1. TypeOK'
    BY <1>1, <1>3, <1>6 DEF TypeOK, Codes
  <2>2. Owners' /\ Sockets'
    BY <1>1, OwnersStay, SocketsStay
  <2>3. Files' /\ Replied'
    BY <1>1, <1>6 DEF Files, Replied, Conn
  <2>4. Locals(w)'
    BY <1>1, <1>2, <1>4, <1>6 DEF Working, Locals
  <2>5. Working'
    BY <1>1, <1>3, <1>6, <2>4, WorkingStays
  <2>6. Ending'
    BY <1>1, <1>2, <1>6 DEF Ending, AbortHasReason
  <2>7. QED
    BY <2>1, <2>2, <2>3, <2>5, <2>6
<1>7. QED
  BY <1>5, <1>6 DEF Catch500, Writen, WritenThrows, Goto

\* The connection and its descriptor go together, and no other thread has
\* either.
LEMMA CloseKeeps ==
  ASSUME ServerInv, NEW w \in Workers, Close(w)
  PROVE  ServerInv'
<1> USE DEF ServerInv
<1> DEFINE f == held[w]
           c == Conn(w)
<1>1. /\ at[w] = "close" /\ at' = [at EXCEPT ![w] = "pop"] /\ proc = "running"
      /\ held' = [held EXCEPT ![w] = None] /\ open' = open \ {f} /\ sock' = [sock EXCEPT ![f] = None]
      /\ phase' = [phase EXCEPT ![c] = "idle"] /\ request' = [request EXCEPT ![c] = "nothing"]
      /\ peer' = [peer EXCEPT ![c] = "here"] /\ replies' = [replies EXCEPT ![c] = <<>>]
      /\ parsed' = [parsed EXCEPT ![w] = "nothing"] /\ status' = [status EXCEPT ![w] = 200]
      /\ UNCHANGED <<errorMsgCache, proc, queue, aux>>
  BY DEF Close, FdPool!Release, Goto, Running
<1>2. /\ f \in Fds /\ c \in Conns /\ w \in Threads /\ f # None /\ c # None /\ sock[f] = c
      /\ \A x \in Workers : at[x] # "pop" /\ Conn(x) = c => x = w
  BY <1>1, TheConnection, ServerAssumption DEF Threads, Conn
<1>3. /\ \A x \in Workers : at'[x] = IF x = w THEN "pop" ELSE at[x]
      /\ \A x \in Workers : parsed'[x] = IF x = w THEN "nothing" ELSE parsed[x]
      /\ \A x \in Workers : status'[x] = IF x = w THEN 200 ELSE status[x]
      /\ \A t \in Threads : held'[t] = IF t = w THEN None ELSE held[t]
  BY <1>1 DEF TypeOK
<1>4. /\ \A g \in Fds : sock'[g] = IF g = f THEN None ELSE sock[g]
      /\ \A d \in Conns : phase'[d] = IF d = c THEN "idle" ELSE phase[d]
      /\ \A d \in Conns : request'[d] = IF d = c THEN "nothing" ELSE request[d]
      /\ \A d \in Conns : peer'[d] = IF d = c THEN "here" ELSE peer[d]
      /\ \A d \in Conns : replies'[d] = IF d = c THEN <<>> ELSE replies[d]
  BY <1>1 DEF TypeOK
<1>5. TypeOK'
  <2>1. replies' \in [Conns -> Seq(Codes)]
    <3>1. <<>> \in Seq(Codes) /\ replies \in [Conns -> Seq(Codes)]
      BY DEF TypeOK, Codes
    <3>2. QED
      BY <1>1, <3>1
  <2>2. /\ phase' \in [Conns -> {"idle", "pending", "accepted"}]
        /\ request' \in [Conns -> Kinds \cup {"nothing", "part"}]
        /\ peer' \in [Conns -> {"here", "stalled", "reset"}]
    BY <1>1 DEF TypeOK
  <2>3. /\ at' \in [Workers -> Stages] /\ parsed' \in [Workers -> Kinds \cup {"nothing"}]
        /\ status' \in [Workers -> Codes]
    BY <1>1 DEF TypeOK, Stages, Codes
  <2>4. /\ held' \in [Threads -> Fds \cup {None}] /\ sock' \in [Fds -> Conns \cup {None}]
        /\ open' \subseteq Fds
    BY <1>1 DEF TypeOK
  <2>5. QED
    BY <1>1, <2>1, <2>2, <2>3, <2>4 DEF TypeOK, Codes
<1>6. \A t \in Threads : t # w => held[t] # f
  BY <1>2 DEF Owners
<1>7. \A i \in 1 .. Len(queue) : queue[i] \in Fds /\ queue[i] # f
  BY <1>2 DEF Owners, TypeOK
<1>8. \A g \in Fds : g # f => sock[g] # c
  BY <1>2 DEF Sockets
<1>9. \A x \in Workers : x # w /\ at[x] # "pop" =>
        /\ held'[x] = held[x] /\ held[x] \in Fds /\ held[x] # f
        /\ Conn(x)' = Conn(x) /\ Conn(x) \in Conns /\ Conn(x) # c
  <2>1. \A x \in Workers : x \in Threads
    BY DEF Threads
  <2>2. \A x \in Workers : x # w /\ at[x] # "pop" => held[x] \in Fds /\ Conn(x) \in Conns /\ Conn(x) # c
    BY <1>2, TheConnection
  <2>3. \A x \in Workers : x # w /\ at[x] # "pop" => held'[x] = held[x] /\ held[x] # f
    BY <1>3, <1>6, <2>1
  <2>4. QED
    BY <1>4, <2>2, <2>3 DEF Conn
<1>10. Owners'
  <2>1. \A i \in 1 .. Len(queue) : sock'[queue[i]] # None
    BY <1>4, <1>7 DEF Owners
  <2>2. \A t \in Threads : held'[t] # None =>
          t # w /\ held'[t] = held[t] /\ held[t] \in Fds /\ held[t] # f
    BY <1>3, <1>6 DEF TypeOK
  <2>3. \A t \in Threads : held'[t] # None => sock'[held'[t]] # None
    BY <1>4, <2>2 DEF Owners
  <2>4. \A t \in Threads : \A i \in 1 .. Len(queue) : held'[t] # queue[i]
    BY <1>7, <2>2, ServerAssumption DEF Owners
  <2>5. \A t, u \in Threads : held'[t] = held'[u] /\ held'[t] # None => t = u
    BY <2>2 DEF Owners
  <2>6. QED
    BY <1>1, <2>1, <2>3, <2>4, <2>5 DEF Owners
<1>11. Sockets'
  <2>1. \A g \in Fds : g # f /\ (QueuedAt(g) \/ HeldAt(g)) => QueuedAt(g)' \/ HeldAt(g)'
    BY <1>1, <1>3 DEF QueuedAt, HeldAt
  <2>2. \A g \in Fds : sock'[g] # None => g \in open' /\ (QueuedAt(g)' \/ HeldAt(g)')
    BY <1>1, <1>4, <2>1 DEF Sockets
  <2>3. \A g, h \in Fds : sock'[g] = sock'[h] /\ sock'[g] # None => g = h
    BY <1>4 DEF Sockets
  <2>4. \A g \in Fds : sock'[g] # None => phase'[sock'[g]] = "accepted"
    <3>1. \A g \in Fds : g # f /\ sock[g] # None => sock[g] \in Conns /\ phase[sock[g]] = "accepted"
      BY DEF Sockets, TypeOK
    <3>2. QED
      BY <1>4, <1>8, <3>1
  <2>5. \A d \in Conns : phase'[d] = "accepted" => \E g \in Fds : sock'[g] = d
    BY <1>2, <1>4 DEF Sockets
  <2>6. QED
    BY <2>2, <2>3, <2>4, <2>5 DEF Sockets
<1>12. Files'
  <2>1. \A x \in Workers : \A g \in aux[x] : g \in Fds /\ g # f
    BY <1>2 DEF Files, TypeOK
  <2>2. at[w] \notin {"read", "fork"} /\ aux[w] = {}
    BY <1>1 DEF Files
  <2>3. \A x \in Workers : \A g \in aux[x] : g \in open' /\ sock'[g] = None
    BY <1>1, <1>4, <2>1 DEF Files
  <2>4. QED
    BY <1>1, <1>3, <2>2, <2>3 DEF Files
<1> HIDE DEF f, c
<1>13. Working'
  <2> SUFFICES ASSUME NEW x \in Workers PROVE Locals(x)'
    BY DEF Working
  <2>1. CASE x = w
    <3>1. at'[w] = "pop" /\ parsed'[w] = "nothing" /\ status'[w] = 200 /\ held'[w] = None
      BY <1>2, <1>3
    <3>2. QED
      BY <2>1, <3>1 DEF Locals
  <2>2. CASE x # w /\ at[x] = "pop"
    <3>1. at'[x] = "pop" /\ parsed'[x] = parsed[x] /\ status'[x] = status[x] /\ held'[x] = held[x]
      BY <1>3, <2>2 DEF Threads
    <3>2. QED
      BY <2>2, <3>1 DEF Working, Locals
  <2>3. CASE x # w /\ at[x] # "pop"
    <3>1. at'[x] = at[x] /\ parsed'[x] = parsed[x] /\ status'[x] = status[x] /\ held'[x] = held[x]
      BY <1>3, <1>9, <2>3
    <3>2. Conn(x)' = Conn(x) /\ request'[Conn(x)] = request[Conn(x)] /\ peer'[Conn(x)] = peer[Conn(x)]
      BY <1>4, <1>9, <2>3
    <3>3. QED
      BY <2>3, <3>1, <3>2 DEF Working, Locals
  <2>4. QED
    BY <2>1, <2>2, <2>3
<1>14. Replied'
  <2> SUFFICES ASSUME NEW d \in Conns, replies'[d] # <<>>
               PROVE  \E x \in Workers : at'[x] = "close" /\ Conn(x)' = d
    BY DEF Replied
  <2>1. d # c /\ replies[d] # <<>>
    BY <1>4
  <2>2. PICK x \in Workers : at[x] = "close" /\ Conn(x) = d
    BY <2>1 DEF Replied
  <2>3. x # w
    BY <2>1, <2>2 DEF c
  <2>4. QED
    BY <1>3, <1>9, <2>2, <2>3
<1>15. QED
  BY <1>1, <1>5, <1>10, <1>11, <1>12, <1>13, <1>14, NotOver

-----------------------------------------------------------------------------
(***************************************************************************)
(* The invariant holds.                                                    *)
(***************************************************************************)
LEMMA StepKeeps == ASSUME ServerInv, [Next]_vars PROVE ServerInv'
<1>1. CASE \E c \in Conns : ClientStep(c)
  BY <1>1, ConnectKeeps, ArriveKeeps, DisturbKeeps DEF ClientStep
<1>2. CASE MainStep
  BY <1>2, PushKeeps, AcceptFailsKeeps, AcceptKeeps DEF MainStep
<1>3. CASE \E w \in Workers : WorkerStep(w)
  <2>1. PICK w \in Workers : WorkerStep(w)
    BY <1>3
  <2>2. QED
    BY <2>1, PopKeeps, FillKeeps, ErrorPageKeeps, HeadOnlyKeeps, OpenFileKeeps, ReadFileKeeps,
       MakePipeKeeps, RunCgiKeeps, SendKeeps, Catch500Keeps, CloseKeeps DEF WorkerStep
<1>4. CASE UNCHANGED vars
  <2>1. UNCHANGED <<errorMsgCache, proc, queue, held, open, sock, phase, request, peer, replies,
                    at, parsed, status, aux>>
    BY <1>4 DEF vars
  <2>2. TypeOK' /\ Owners' /\ Sockets'
    BY <2>1, OwnersStay, SocketsStay DEF ServerInv, TypeOK
  <2>3. Files' /\ Working' /\ Replied'
    BY <2>1 DEF ServerInv, Files, Working, Locals, Replied, Conn
  <2>4. Ending'
    BY <2>1 DEF ServerInv, Ending, AbortHasReason, Free, Aborted
  <2>5. QED
    BY <2>2, <2>3, <2>4 DEF ServerInv
<1>5. QED
  BY <1>1, <1>2, <1>3, <1>4 DEF Next

\* All of it together is inductive.
THEOREM ServerInvHolds == Spec => []ServerInv
BY InitServer, StepKeeps, PTL DEF Spec

\* All that the process keeps has the types it was declared with: a worker is
\* always at one of the statements of httpThread, and every descriptor in use
\* is one of the table's.
THEOREM TypeCorrect == Spec => []TypeOK
BY ServerInvHolds, PTL DEF ServerInv

LEMMA OwnersAreOne == ASSUME ServerInv PROVE DescriptorsHaveOneOwner
<1> USE DEF ServerInv
<1> DEFINE Owned == Queued \cup UNION {HeldBy(t) : t \in Threads}
<1>1. \A t \in Threads : \A f \in HeldBy(t) : held[t] = f /\ f # None
  BY DEF HeldBy
<1>2. \A f \in Queued : \E i \in 1 .. Len(queue) : queue[i] = f
  BY DEF Queued
<1>3. \A t \in Threads : HeldBy(t) \cap Queued = {}
  BY <1>1, <1>2 DEF Owners
<1>4. \A t, u \in Threads : t # u => HeldBy(t) \cap HeldBy(u) = {}
  BY <1>1 DEF Owners
<1>5. \A f \in Owned : sock[f] # None
  BY <1>1, <1>2 DEF Owners
<1>6. \A w \in Workers : aux[w] \cap Owned = {}
  BY <1>5 DEF Files
<1>7. \A w, x \in Workers : w # x => aux[w] \cap aux[x] = {}
  BY DEF Files
<1>8. (\A w \in Workers : aux[w] \subseteq open) /\ \A f \in Fds : sock[f] # None => f \in open
  BY DEF Files, Sockets
<1>9. QED
  BY <1>3, <1>4, <1>5, <1>6, <1>7, <1>8 DEF DescriptorsHaveOneOwner, Owners, Sockets

\* No two threads, and no two connections, have the same descriptor at the
\* same time, however often the kernel hands out a number again: no worker
\* answers or closes the connection of another.
THEOREM OneOwner == Spec => []DescriptorsHaveOneOwner
BY ServerInvHolds, OwnersAreOne, PTL

LEMMA SocketsAreKept == ASSUME ServerInv PROVE NoSocketLost
<1> USE DEF ServerInv
<1>1. \A f \in Fds : QueuedAt(f) => f \in Queued
  BY DEF QueuedAt, Queued
<1>2. \A f \in Fds : HeldAt(f) => f \in UNION {HeldBy(t) : t \in Threads}
  BY ServerAssumption DEF HeldAt, HeldBy
<1>3. \A f \in Fds : sock[f] # None => f \in Queued \cup UNION {HeldBy(t) : t \in Threads}
  BY <1>1, <1>2 DEF Sockets
<1>4. \A c \in Conns : phase[c] = "accepted" <=> \E f \in Fds : sock[f] = c
  BY ServerAssumption DEF Sockets
<1>5. QED
  BY <1>3, <1>4 DEF NoSocketLost

\* The socket of an accepted connection is in fdPool or in a thread's hands
\* until it is closed: no path through the handlers and the catch clauses of
\* httpThread forgets one.
THEOREM SocketKept == Spec => []NoSocketLost
BY ServerInvHolds, SocketsAreKept, PTL

SilentStep ==
  \A w \in Workers :
    at[w] # "close" /\ at'[w] = "close" /\ replies'[Conn(w)] = <<>> =>
      CannotReply(w, request[Conn(w)])

\* Only its own steps move a worker.
LEMMA OthersStay ==
  ASSUME TypeOK, [Next]_vars, NEW w \in Workers, ~ WorkerStep(w)
  PROVE  at'[w] = at[w]
<1>1. ASSUME NEW v \in Workers, WorkerStep(v), v # w PROVE at'[w] = at[w]
  BY <1>1 DEF WorkerStep, Pop, Fill, ErrorPage, HeadOnly, OpenFile, ReadFile, MakePipe, RunCgi,
              Send, Catch500, Close, Goto, TypeOK
<1>2. ASSUME NEW c \in Conns, ClientStep(c) PROVE at'[w] = at[w]
  BY <1>2 DEF ClientStep, Connect, Arrive, Disturb, workerVars
<1>3. CASE MainStep
  BY <1>3 DEF MainStep, Push, AcceptFails, Accept, workerVars
<1>4. CASE UNCHANGED vars
  BY <1>4 DEF vars
<1>5. QED
  BY <1>1, <1>2, <1>3, <1>4 DEF Next

\* A worker that replies has a reply to show for it.
LEMMA WritenShows ==
  ASSUME ServerInv, NEW w \in Workers, at[w] \notin {"pop", "close"}, NEW code \in Codes,
         Writen(Conn(w), code)
  PROVE  replies'[Conn(w)] # <<>>
<1>1. Conn(w) \in Conns /\ replies[Conn(w)] = <<>>
  BY TheConnection, NoReplyYet DEF ServerInv
<1>2. replies' = [replies EXCEPT ![Conn(w)] = <<code>>] /\ <<code>> # <<>>
  BY <1>1, AppendReply DEF Writen
<1>3. QED
  BY <1>1, <1>2 DEF ServerInv, TypeOK

LEMMA SilentWorkerStep ==
  ASSUME ServerInv, NEW w \in Workers, WorkerStep(w),
         at[w] # "close", at'[w] = "close", replies'[Conn(w)] = <<>>
  PROVE  CannotReply(w, request[Conn(w)])
<1>1. /\ at[w] \in {"handle", "read", "fork"} => request[Conn(w)] = parsed[w]
      /\ at[w] = "send" => status[w] \in Codes
      /\ 500 \in Codes
      /\ at \in [Workers -> Stages] /\ aux \in [Workers -> SUBSET Fds]
  BY DEF ServerInv, TypeOK, Working, Locals, Codes
<1>2. CASE Fill(w)
  BY <1>1, <1>2 DEF Fill, Goto, CannotReply
<1>3. CASE ErrorPage(w)
  BY <1>1, <1>3 DEF ErrorPage, Goto, CannotReply
<1>4. CASE OpenFile(w)
  BY <1>1, <1>4 DEF OpenFile, Goto, CannotReply
<1>5. CASE MakePipe(w)
  BY <1>1, <1>5 DEF MakePipe, Goto, CannotReply
<1>6. CASE RunCgi(w)
  <2>1. at[w] = "fork" /\ request[Conn(w)] \in {"cgi", "cgiBadStatus"}
    BY <1>1, <1>6 DEF RunCgi, Goto, ServerInv, Working, Locals
  <2>2. CASE parsed[w] = "cgiBadStatus"
    BY <1>1, <2>1, <2>2 DEF CannotReply
  <2>3. CASE parsed[w] # "cgiBadStatus" /\ UNCHANGED open
    BY <1>1, <2>1, <2>3 DEF CannotReply, ServerInv, Files
  <2>4. QED
    BY <1>1, <1>6, <2>2, <2>3 DEF RunCgi, Goto
<1>7. CASE Send(w)
  BY <1>1, <1>7, WritenShows DEF Send, Goto
<1>8. CASE Catch500(w)
  BY <1>1, <1>8, WritenShows DEF Catch500, Goto
<1>9. CASE Pop(w) \/ HeadOnly(w) \/ ReadFile(w) \/ Close(w)
  BY <1>1, <1>9 DEF Pop, HeadOnly, ReadFile, Close, Goto
<1>10. QED
  BY <1>2, <1>3, <1>4, <1>5, <1>6, <1>7, <1>8, <1>9 DEF WorkerStep

\* Whenever httpThread goes on to close a connection it has not replied to, the
\* state of the cache or of the descriptor table, the failed Fork, or what the
\* client or the CGI program has sent, is the reason.
THEOREM SilentCloseReasoned == Spec => SilentCloseHasReason
<1>1. ASSUME ServerInv, [Next]_vars PROVE SilentStep
  <2> SUFFICES ASSUME NEW w \in Workers, at[w] # "close", at'[w] = "close", replies'[Conn(w)] = <<>>
               PROVE  CannotReply(w, request[Conn(w)])
    BY DEF SilentStep
  <2>1. WorkerStep(w)
    BY <1>1, OthersStay DEF ServerInv
  <2>2. QED
    BY <1>1, <2>1, SilentWorkerStep
<1>2. ServerInv /\ [Next]_vars => [SilentStep]_vars
  BY <1>1
<1>3. QED
  BY <1>2, ServerInvHolds, PTL DEF Spec, SilentCloseHasReason, SilentStep

-----------------------------------------------------------------------------
(***************************************************************************)
(* The end of the process: when no descriptor is free, all of them are     *)
(* leaked, queued, or in the hands of the workers.                         *)
(***************************************************************************)

\* A set has no more elements than the one whose elements are mapped to it.
LEMMA ImageIsSmaller ==
  ASSUME NEW S, IsFiniteSet(S), NEW f, NEW T, T \subseteq {f[x] : x \in S}
  PROVE  IsFiniteSet(T) /\ Cardinality(T) <= Cardinality(S) /\ Cardinality(T) \in Nat
<1> DEFINE g == [x \in S |-> f[x]]
           I == {f[x] : x \in S}
<1>1. g \in Surjection(S, I)
  BY DEF Surjection
<1>2. IsFiniteSet(I) /\ Cardinality(I) <= Cardinality(S)
  BY <1>1, FS_Surjection
<1>3. IsFiniteSet(T) /\ Cardinality(T) <= Cardinality(I)
  BY <1>2, FS_Subset
<1>4. Cardinality(S) \in Nat /\ Cardinality(I) \in Nat /\ Cardinality(T) \in Nat
  BY <1>2, <1>3, FS_CardinalityType
<1>5. QED
  BY <1>2, <1>3, <1>4

LEMMA UnionIsSmaller ==
  ASSUME NEW S, NEW T, IsFiniteSet(S), IsFiniteSet(T)
  PROVE  /\ IsFiniteSet(S \cup T) /\ Cardinality(S \cup T) <= Cardinality(S) + Cardinality(T)
         /\ Cardinality(S \cup T) \in Nat /\ Cardinality(S) \in Nat /\ Cardinality(T) \in Nat
<1>1. /\ IsFiniteSet(S \cup T)
      /\ Cardinality(S \cup T) = Cardinality(S) + Cardinality(T) - Cardinality(S \cap T)
  BY FS_Union
<1>2. IsFiniteSet(S \cap T)
  BY FS_Subset
<1>3. /\ Cardinality(S) \in Nat /\ Cardinality(T) \in Nat
      /\ Cardinality(S \cap T) \in Nat /\ Cardinality(S \cup T) \in Nat
  BY <1>1, <1>2, FS_CardinalityType
<1>4. QED
  BY <1>1, <1>3

WorkersAt(stages) == {w \in Workers : at[w] \in stages}

LEMMA OccupiedIs ==
  ASSUME NEW stages
  PROVE  /\ IsFiniteSet(WorkersAt(stages))
         /\ Occupied(stages) = Cardinality(WorkersAt(stages)) /\ Occupied(stages) \in Nat
<1>1. IsFiniteSet(WorkersAt(stages))
  BY ServerAssumption, FS_Subset DEF WorkersAt
<1>2. Cardinality(WorkersAt(stages)) \in Nat
  BY <1>1, FS_CardinalityType
<1>3. QED
  BY <1>1, <1>2 DEF Occupied, WorkersAt

LEMMA QueuedBound ==
  ASSUME ServerInv
  PROVE  IsFiniteSet(Queued) /\ Cardinality(Queued) <= Len(queue) /\ Cardinality(Queued) \in Nat
<1>1. Len(queue) \in Nat
  BY DEF ServerInv, TypeOK
<1>2. IsFiniteSet(1 .. Len(queue)) /\ Cardinality(1 .. Len(queue)) = Len(queue)
  <2>1. ASSUME NEW n \in Nat PROVE IsFiniteSet(1 .. n) /\ Cardinality(1 .. n) = n
    BY FS_Interval
  <2>2. QED
    BY <1>1, <2>1
<1>3. Queued \subseteq {queue[i] : i \in 1 .. Len(queue)}
  BY DEF Queued
<1>4. QED
  BY <1>2, <1>3, ImageIsSmaller

InHand == UNION {HeldBy(t) : t \in Threads}

LEMMA InHandBound ==
  ASSUME ServerInv, held[Main] = None
  PROVE  /\ IsFiniteSet(InHand) /\ Cardinality(InHand) \in Nat
         /\ Cardinality(InHand) <= Occupied(Stages \ {"pop"})
<1> DEFINE Busy == WorkersAt(Stages \ {"pop"})
<1>1. \A w \in Workers : held[w] # None => at[w] \in Stages \ {"pop"}
  BY DEF ServerInv, Working, Locals, TypeOK
<1>2. InHand \subseteq {held[w] : w \in Busy}
  BY <1>1 DEF InHand, HeldBy, Threads, WorkersAt
<1>3. IsFiniteSet(Busy) /\ Occupied(Stages \ {"pop"}) = Cardinality(Busy)
  BY OccupiedIs
<1>4. QED
  BY <1>2, <1>3, ImageIsSmaller

InLocals == UNION {aux[w] : w \in Workers}

LEMMA InLocalsBound ==
  ASSUME ServerInv
  PROVE  /\ IsFiniteSet(InLocals) /\ Cardinality(InLocals) \in Nat
         /\ Cardinality(InLocals) <= Occupied({"read"}) + 2 * Occupied({"fork"})
<1> DEFINE Reading == WorkersAt({"read"})
           Forking == WorkersAt({"fork"})
           file == [w \in Reading |-> CHOOSE f \in Fds : aux[w] = {f}]
           one  == [w \in Forking |-> CHOOSE f \in Fds : \E g \in Fds : aux[w] \subseteq {f, g}]
           two  == [w \in Forking |-> CHOOSE g \in Fds : aux[w] \subseteq {one[w], g}]
           Files1 == {file[w] : w \in Reading}
           Ends1  == {one[w] : w \in Forking}
           Ends2  == {two[w] : w \in Forking}
<1>1. \A w \in Reading : aux[w] = {file[w]}
  BY DEF ServerInv, Files, WorkersAt
<1>2. \A w \in Forking : \E g \in Fds : aux[w] \subseteq {one[w], g}
  BY DEF ServerInv, Files, WorkersAt
<1>3. \A w \in Forking : aux[w] \subseteq {one[w], two[w]}
  BY <1>2
<1>4. \A w \in Workers : aux[w] # {} => w \in Reading \/ w \in Forking
  BY DEF ServerInv, Files, WorkersAt
<1> HIDE DEF file, one, two
<1>5. InLocals \subseteq Files1 \cup (Ends1 \cup Ends2)
  BY <1>1, <1>3, <1>4 DEF InLocals
<1>6. /\ IsFiniteSet(Reading) /\ Occupied({"read"}) = Cardinality(Reading)
      /\ IsFiniteSet(Forking) /\ Occupied({"fork"}) = Cardinality(Forking)
  BY OccupiedIs
<1>7. /\ IsFiniteSet(Files1) /\ Cardinality(Files1) <= Occupied({"read"})
      /\ IsFiniteSet(Ends1) /\ Cardinality(Ends1) <= Occupied({"fork"})
      /\ IsFiniteSet(Ends2) /\ Cardinality(Ends2) <= Occupied({"fork"})
  <2>1. Files1 \subseteq Files1 /\ Ends1 \subseteq Ends1 /\ Ends2 \subseteq Ends2
    OBVIOUS
  <2> HIDE DEF Reading, Forking
  <2>2. QED
    BY <1>6, <2>1, ImageIsSmaller
<1> HIDE DEF Reading, Forking, Files1, Ends1, Ends2
<1>8. /\ IsFiniteSet(Ends1 \cup Ends2) /\ Cardinality(Ends1) \in Nat /\ Cardinality(Ends2) \in Nat
      /\ Cardinality(Ends1 \cup Ends2) <= Cardinality(Ends1) + Cardinality(Ends2)
  BY <1>7, UnionIsSmaller
<1> DEFINE All == Files1 \cup (Ends1 \cup Ends2)
<1>9. /\ IsFiniteSet(All) /\ Cardinality(All) <= Cardinality(Files1) + Cardinality(Ends1 \cup Ends2)
      /\ Cardinality(All) \in Nat /\ Cardinality(Files1) \in Nat /\ Cardinality(Ends1 \cup Ends2) \in Nat
  BY <1>7, <1>8, UnionIsSmaller
<1>10. IsFiniteSet(InLocals) /\ Cardinality(InLocals) <= Cardinality(All)
  BY <1>5, <1>9, FS_Subset
<1>11. Cardinality(InLocals) \in Nat
  BY <1>10, FS_CardinalityType
<1>12. Occupied({"read"}) \in Nat /\ Occupied({"fork"}) \in Nat
  BY OccupiedIs
<1> HIDE DEF All
<1>13. QED
  BY <1>7, <1>8, <1>9, <1>10, <1>11, <1>12

LEMMA LeakedIsTheRest == Leaked = open \ (Queued \cup InHand \cup InLocals)
BY DEF Leaked, InHand, InLocals

LEMMA CoveredByFour ==
  ASSUME NEW S, NEW A, NEW B, NEW C, NEW D,
         IsFiniteSet(A), IsFiniteSet(B), IsFiniteSet(C), IsFiniteSet(D),
         S \subseteq (A \cup B) \cup (C \cup D)
  PROVE  /\ Cardinality(S) <= Cardinality(A) + Cardinality(B) + Cardinality(C) + Cardinality(D)
         /\ Cardinality(S) \in Nat /\ Cardinality(A) \in Nat
<1> DEFINE X == A \cup B
           Y == C \cup D
<1>1. /\ IsFiniteSet(X) /\ Cardinality(X) <= Cardinality(A) + Cardinality(B)
      /\ Cardinality(X) \in Nat /\ Cardinality(A) \in Nat /\ Cardinality(B) \in Nat
  BY UnionIsSmaller
<1>2. /\ IsFiniteSet(Y) /\ Cardinality(Y) <= Cardinality(C) + Cardinality(D)
      /\ Cardinality(Y) \in Nat /\ Cardinality(C) \in Nat /\ Cardinality(D) \in Nat
  BY UnionIsSmaller
<1>3. S \in SUBSET (X \cup Y)
  OBVIOUS
<1> HIDE DEF X, Y
<1>4. /\ IsFiniteSet(X \cup Y) /\ Cardinality(X \cup Y) <= Cardinality(X) + Cardinality(Y)
      /\ Cardinality(X \cup Y) \in Nat
  BY <1>1, <1>2, UnionIsSmaller
<1>5. IsFiniteSet(S) /\ Cardinality(S) <= Cardinality(X \cup Y)
  BY <1>3, <1>4, FS_Subset
<1>6. Cardinality(S) \in Nat
  BY <1>5, FS_CardinalityType
<1>7. QED
  BY <1>1, <1>2, <1>4, <1>5, <1>6

LEMMA ExitIsReasoned == ASSUME ServerInv PROVE ExitNeedsFullTable
<1> DEFINE busy  == Occupied(Stages \ {"pop"})
           inUse == Occupied({"read"}) + 2 * Occupied({"fork"})
<1> SUFFICES ASSUME proc = "exited", ~ (\E c \in Conns : Aborted(c))
             PROVE  Cardinality(Leaked) + Len(queue) + busy + Occupied({"read"}) + 2 * Occupied({"fork"})
                    >= Cardinality(Fds)
  BY DEF ExitNeedsFullTable
<1>1. held[Main] = None /\ Free = {} /\ open \subseteq Fds
  BY DEF ServerInv, Ending, TypeOK
<1>2. Fds \subseteq (Leaked \cup Queued) \cup (InHand \cup InLocals)
  <2>1. \A f \in Fds : f \in open
    BY <1>1 DEF Free
  <2>2. \A f \in open : f \in Leaked \/ f \in Queued \/ f \in InHand \/ f \in InLocals
    BY LeakedIsTheRest
  <2>3. QED
    BY <2>1, <2>2
<1>3. IsFiniteSet(Leaked)
  <2>1. Leaked \in SUBSET Fds
    BY <1>1, LeakedIsTheRest
  <2>2. IsFiniteSet(Fds)
    BY ServerAssumption
  <2>3. QED
    BY <2>1, <2>2, FS_Subset
<1>4. IsFiniteSet(Queued) /\ Cardinality(Queued) <= Len(queue) /\ Cardinality(Queued) \in Nat
  BY QueuedBound
<1>5. IsFiniteSet(InHand) /\ Cardinality(InHand) <= busy /\ Cardinality(InHand) \in Nat
  BY <1>1, InHandBound
<1>6. IsFiniteSet(InLocals) /\ Cardinality(InLocals) <= inUse /\ Cardinality(InLocals) \in Nat
  BY InLocalsBound
<1>7. /\ Cardinality(Fds) <= Cardinality(Leaked) + Cardinality(Queued) + Cardinality(InHand)
                               + Cardinality(InLocals)
      /\ Cardinality(Fds) \in Nat /\ Cardinality(Leaked) \in Nat
  BY <1>2, <1>3, <1>4, <1>5, <1>6, CoveredByFour
<1>8. Len(queue) \in Nat
  BY DEF ServerInv, TypeOK
<1>9. busy \in Nat /\ Occupied({"read"}) \in Nat /\ Occupied({"fork"}) \in Nat
  BY OccupiedIs
<1> HIDE DEF busy
<1>10. Cardinality(Leaked) + Len(queue) + busy + inUse >= Cardinality(Fds)
  <2>1. inUse \in Nat
    BY <1>9
  <2> HIDE DEF inUse
  <2>2. QED
    BY <1>4, <1>5, <1>6, <1>7, <1>8, <1>9, <2>1
<1>11. QED
  BY <1>7, <1>8, <1>9, <1>10

(***************************************************************************)
(* A standstill: a worker that waits for an item shows that fdPool is      *)
(* empty and that nothing is being pushed, so whatever was accepted is in  *)
(* the hands of a worker that is blocked in its reply.                     *)
(***************************************************************************)
LEMMA StandstillIsReasoned == ASSUME ServerInv PROVE StandstillHasReason
<1> USE DEF ServerInv
<1> SUFFICES ASSUME Standstill, NEW v \in Workers, ~ (at[v] # "pop" /\ Conn(v) \in Stalled),
                    NEW c \in Conns, phase[c] # "idle"
             PROVE  c \in Stalled
  BY DEF StandstillHasReason
<1>1. MainWaits /\ \A w \in Workers : WorkerWaits(w)
  BY DEF Standstill
<1>2. queue = <<>>
  BY <1>1 DEF WorkerWaits
<1>3. Len(queue) # PoolLen
  BY <1>2, ServerAssumption
<1>4. held[Main] = None /\ phase[c] # "pending"
  BY <1>1, <1>3 DEF MainWaits
<1>5. phase[c] = "accepted"
  BY <1>4 DEF TypeOK
<1>6. PICK f \in Fds : sock[f] = c
  BY <1>5 DEF Sockets
<1>7. f # None /\ sock[f] # None
  BY <1>6, ServerAssumption
<1>8. ~ QueuedAt(f)
  BY <1>2 DEF QueuedAt
<1>9. PICK w \in Workers : held[w] = f
  <2>1. HeldAt(f)
    BY <1>7, <1>8 DEF Sockets
  <2>2. QED
    BY <2>1, <1>4, <1>7 DEF HeldAt, Threads
<1>10. at[w] # "pop" /\ Conn(w) = c
  BY <1>6, <1>7, <1>9 DEF Working, Locals, Conn
<1>11. QED
  BY <1>1, <1>10 DEF WorkerWaits

\* run returns only when the descriptors that were leaked, those in fdPool and
\* those of the requests in progress fill the table, or a client aborted its
\* connection before accept; std::terminate needs a connection reset while it
\* is served, or no page of status 500; and all threads wait only when nobody
\* is left to serve, or every worker's client has stopped reading.
THEOREM EndReasoned == Spec => []EndHasReason
<1>1. ServerInv => EndHasReason
  BY ExitIsReasoned, StandstillIsReasoned DEF EndHasReason, ServerInv, Ending
<1>2. QED
  BY <1>1, ServerInvHolds, PTL

(***************************************************************************)
(* How long a worker serves a connection.                                  *)
(***************************************************************************)
StepsToClose(w) ==
  CASE at[w] = "fill" -> 6
    [] at[w] = "handle" -> 5
    [] at[w] \in {"read", "fork"} -> 4
    [] at[w] = "send" -> 3
    [] at[w] = "catch" -> 2
    [] at[w] = "close" -> 1
    [] OTHER -> 0

\* A worker that has popped a descriptor comes nearer to its Close with each
\* step, or is the one that ends the process; no other thread moves it.
ServingStep ==
  /\ proc' = "running" =>
       \A w \in Workers : at[w] # "pop" /\ WorkerStep(w) => StepsToClose(w)' < StepsToClose(w)
  /\ \A w \in Workers : ~ WorkerStep(w) => StepsToClose(w)' = StepsToClose(w)

LEMMA WorkerNearer ==
  ASSUME TypeOK, NEW w \in Workers, at[w] # "pop", WorkerStep(w), proc' = "running"
  PROVE  StepsToClose(w)' < StepsToClose(w)
<1>1. PICK from \in Stages, to \in Stages :
        /\ Goto(w, from, to)
        /\ \/ from = "fill" /\ to \in {"handle", "catch", "close"}
           \/ from = "handle" /\ to \in {"read", "fork", "send", "close"}
           \/ from = "read" /\ to \in {"send", "catch"}
           \/ from = "fork" /\ to \in {"send", "close"}
           \/ from = "send" /\ to \in {"catch", "close"}
           \/ from = "catch" /\ to = "close"
           \/ from = "close" /\ to = "pop"
  <2>1. CASE Pop(w)
    BY <2>1 DEF Pop, Goto
  <2>2. CASE Fill(w)
    BY <2>2 DEF Fill, Stages
  <2>3. CASE ErrorPage(w) \/ HeadOnly(w)
    BY <2>3 DEF ErrorPage, HeadOnly, Stages
  <2>4. CASE OpenFile(w) \/ ReadFile(w)
    BY <2>4 DEF OpenFile, ReadFile, Stages
  <2>5. CASE MakePipe(w) \/ RunCgi(w)
    BY <2>5 DEF MakePipe, RunCgi, Stages
  <2>6. CASE Send(w)
    BY <2>6 DEF Send, Stages
  <2>7. CASE Catch500(w)
    BY <2>7 DEF Catch500, Stages
  <2>8. CASE Close(w)
    BY <2>8 DEF Close, Stages
  <2>9. QED
    BY <2>1, <2>2, <2>3, <2>4, <2>5, <2>6, <2>7, <2>8 DEF WorkerStep
<1>2. at[w] = from /\ at'[w] = to
  BY <1>1 DEF Goto, TypeOK
<1>3. QED
  BY <1>1, <1>2 DEF StepsToClose

\* A worker closes the connection it has popped after at most six statements,
\* whichever handlers and catch clauses they lead through, unless it ends the
\* process or waits for its client; with EndReasoned, what ClosedInTheEnd
\* needs besides fairness.
THEOREM ServingIsFinite == Spec => [][ServingStep]_vars
<1>1. ASSUME TypeOK, [Next]_vars PROVE [ServingStep]_vars
  BY <1>1, WorkerNearer, OthersStay DEF ServingStep, StepsToClose
<1>2. QED
  BY <1>1, TypeCorrect, PTL DEF Spec

(***************************************************************************)
(* The server and its pool.                                                *)
(***************************************************************************)
LEMMA StepUsesPool == ASSUME TypeOK, [Next]_vars PROVE [FdPool!QueueNext]_(FdPool!qvars)
<1> USE DEF FdPool!qvars, FdPool!QueueNext
<1>1. ASSUME NEW c \in Conns, ClientStep(c) PROVE UNCHANGED <<queue, held>>
  BY <1>1 DEF ClientStep, Connect, Arrive, Disturb, poolVars
<1>2. CASE MainStep
  <2>1. ASSUME NEW c \in Conns, Accept(c) PROVE \E f \in Fds : FdPool!Offer(Main, f)
    BY <2>1, LowestAreFree DEF Accept
  <2>2. CASE Push
    BY <2>2 DEF Push
  <2>3. CASE AcceptFails
    BY <2>3 DEF AcceptFails, poolVars
  <2>4. QED
    BY <1>2, <2>1, <2>2, <2>3 DEF MainStep
<1>3. ASSUME NEW w \in Workers, WorkerStep(w)
      PROVE  FdPool!Dequeue(w) \/ FdPool!Release(w) \/ UNCHANGED <<queue, held>>
  BY <1>3 DEF WorkerStep, Pop, Fill, ErrorPage, HeadOnly, OpenFile, ReadFile, MakePipe, RunCgi,
              Send, Catch500, Close, poolVars
<1>4. CASE UNCHANGED vars
  BY <1>4 DEF vars
<1>5. QED
  BY <1>1, <1>2, <1>3, <1>4 DEF Next

\* run and httpThread use fdPool as the pool's specification lets them: run
\* pushes one descriptor after the other, and each worker is done with the one
\* it popped before it pops again.  BoundedQueue, of which this is the
\* server's half, is what Pool implements (theorem PoolRefinesQueue).
THEOREM PoolIsUsedAsSpecified == Spec => FdPool!QueueSpec
<1>1. Init => FdPool!QueueInit
  BY DEF Init
<1>2. TypeOK /\ [Next]_vars => [FdPool!QueueNext]_(FdPool!qvars)
  BY StepUsesPool
<1>3. Spec => []TypeOK
  BY TypeCorrect
<1>4. QED
  BY <1>1, <1>2, <1>3, PTL DEF Spec, FdPool!QueueSpec

-----------------------------------------------------------------------------
(***************************************************************************)
(* Leaks: which steps leave a descriptor open that nothing refers to.      *)
(***************************************************************************)
Kept(f) == QueuedAt(f) \/ HeldAt(f) \/ \E w \in Workers : f \in aux[w]

LeakedMeans == \A f : f \in Leaked <=> f \in open /\ ~ Kept(f)

LEMMA LeakedIs == ServerInv => LeakedMeans
<1> SUFFICES ASSUME ServerInv PROVE LeakedMeans
  OBVIOUS
<1>1. \A f \in open : f \in Queued <=> QueuedAt(f)
  BY DEF Queued, QueuedAt
<1>2. \A f \in open : f \in InHand <=> HeldAt(f)
  BY ServerAssumption DEF ServerInv, TypeOK, InHand, HeldBy, HeldAt
<1>3. \A f \in open : f \in InLocals <=> \E w \in Workers : f \in aux[w]
  BY DEF InLocals
<1>4. QED
  BY <1>1, <1>2, <1>3, LeakedIsTheRest DEF LeakedMeans, Kept

LeakingStep ==
  \A f \in Leaked' \ Leaked :
    \E w \in Workers : f \in aux[w] /\ parsed[w] \in {"unreadable", "cgi", "cgiBadStatus"}

\* It is enough to look at what the step opens and at what it gives up.
LEMMA LeaksWhatItDrops ==
  ASSUME ServerInv, ServerInv',
         \A f \in open' : f \notin open => Kept(f)',
         \A f \in open' : Kept(f) =>
           \/ Kept(f)'
           \/ \E w \in Workers : f \in aux[w] /\ parsed[w] \in {"unreadable", "cgi", "cgiBadStatus"}
  PROVE  LeakingStep
<1>1. LeakedMeans
  BY LeakedIs
<1>2. ServerInv' => LeakedMeans'
  BY LeakedIs, PTL
<1>3. QED
  BY <1>1, <1>2 DEF LeakingStep, LeakedMeans

\* A worker that opens descriptors keeps them; nothing else changes hands.
LEMMA OpenedAreKept ==
  ASSUME ServerInv, ServerInv', NEW w \in Workers, UNCHANGED <<queue, held>>, aux[w] = {},
         \A f \in open' : f \in open \/ f \in aux'[w],
         \A x \in Workers : x # w => aux'[x] = aux[x]
  PROVE  LeakingStep
<1>1. \A f \in open' : f \notin open => Kept(f)'
  BY DEF Kept
<1>2. \A f : Kept(f) => Kept(f)'
  BY DEF Kept, QueuedAt, HeldAt
<1>3. QED
  BY <1>1, <1>2, LeaksWhatItDrops

\* A worker that gives its descriptors up leaks at most these.
LEMMA GivenUpMayLeak ==
  ASSUME ServerInv, ServerInv', NEW w \in Workers, UNCHANGED <<queue, held>>,
         open' \subseteq open, \A x \in Workers : x # w => aux'[x] = aux[x],
         parsed[w] \in {"unreadable", "cgi", "cgiBadStatus"} \/ \A f \in aux[w] : f \notin open'
  PROVE  LeakingStep
<1>1. \A f \in open' : Kept(f) => Kept(f)' \/ f \in aux[w]
  BY DEF Kept, QueuedAt, HeldAt
<1>2. QED
  BY <1>1, LeaksWhatItDrops

LEMMA NothingLeaks ==
  ASSUME ServerInv, ServerInv', UNCHANGED <<queue, held, open, aux>>
  PROVE  LeakingStep
<1>1. \A f : Kept(f) => Kept(f)'
  BY DEF Kept, QueuedAt, HeldAt
<1>2. QED
  BY <1>1, LeaksWhatItDrops

LEMMA MainLeaksNothing ==
  ASSUME ServerInv, ServerInv', MainStep
  PROVE  LeakingStep
<1>1. CASE AcceptFails
  BY <1>1, NothingLeaks DEF AcceptFails, poolVars, workerVars
<1>2. ASSUME NEW c \in Conns, Accept(c) PROVE LeakingStep
  <2>1. PICK f \in Lowest(1) :
          /\ held[Main] = None /\ held' = [held EXCEPT ![Main] = f]
          /\ open' = open \cup {f} /\ UNCHANGED <<queue, aux>>
    BY <1>2 DEF Accept, FdPool!Offer, workerVars
  <2>2. \A t \in Threads : held'[t] = IF t = Main THEN f ELSE held[t]
    BY <2>1 DEF ServerInv, TypeOK
  <2>3. \A g \in Fds : Kept(g) => Kept(g)'
    BY <2>1, <2>2, ServerAssumption DEF Kept, QueuedAt, HeldAt
  <2>4. HeldAt(f)' /\ open' \subseteq Fds
    <3>1. Main \in Threads /\ held'[Main] = f
      BY <2>2 DEF Threads
    <3>2. open' \subseteq Fds
      BY DEF ServerInv, TypeOK
    <3>3. QED
      BY <3>1, <3>2 DEF HeldAt
  <2>5. QED
    BY <2>1, <2>3, <2>4, LeaksWhatItDrops DEF Kept
<1>3. CASE Push
  <2>1. /\ queue' = Append(queue, held[Main]) /\ held' = [held EXCEPT ![Main] = None]
        /\ held[Main] # None /\ UNCHANGED <<open, aux>>
    BY <1>3 DEF Push, FdPool!Enqueue, workerVars
  <2>2. \A t \in Threads : held'[t] = IF t = Main THEN None ELSE held[t]
    BY <2>1 DEF ServerInv, TypeOK
  <2>3. /\ \A i \in 1 .. Len(queue) : i \in 1 .. Len(queue') /\ queue'[i] = queue[i]
        /\ Len(queue) + 1 \in 1 .. Len(queue') /\ queue'[Len(queue) + 1] = held[Main]
    <3>1. held[Main] \in Fds
      BY <2>1 DEF ServerInv, TypeOK, Threads
    <3>2. QED
      BY <2>1, <3>1, EndOfQueue DEF ServerInv, TypeOK
  <2>4. \A g : Kept(g) => Kept(g)'
    BY <2>1, <2>2, <2>3 DEF Kept, QueuedAt, HeldAt
  <2>5. QED
    BY <2>1, <2>4, LeaksWhatItDrops
<1>4. QED
  BY <1>1, <1>2, <1>3 DEF MainStep

LEMMA WorkerLeaks ==
  ASSUME ServerInv, ServerInv', NEW w \in Workers, WorkerStep(w)
  PROVE  LeakingStep
<1> DEFINE Others == \A x \in Workers : x # w => aux'[x] = aux[x]
<1>1. CASE Pop(w)
  <2>1. /\ queue # <<>> /\ queue' = Tail(queue) /\ held[w] = None
        /\ held' = [held EXCEPT ![w] = Head(queue)] /\ UNCHANGED <<open, aux>>
    BY <1>1 DEF Pop, FdPool!Dequeue
  <2>2. /\ \A t \in Threads : held'[t] = IF t = w THEN queue[1] ELSE held[t]
        /\ w \in Threads
    BY <2>1, HeadOfQueue DEF ServerInv, TypeOK, Threads
  <2>3. \A i \in 1 .. Len(queue) : i # 1 => i - 1 \in 1 .. Len(queue') /\ queue'[i - 1] = queue[i]
    BY <2>1, HeadOfQueue DEF ServerInv, TypeOK
  <2>4. \A g \in Fds : Kept(g) => Kept(g)'
    <3>1. \A g : QueuedAt(g) => QueuedAt(g)' \/ HeldAt(g)'
      BY <2>2, <2>3 DEF QueuedAt, HeldAt
    <3>2. \A g \in Fds : HeldAt(g) => HeldAt(g)'
      BY <2>1, <2>2, ServerAssumption DEF HeldAt
    <3>3. QED
      BY <2>1, <3>1, <3>2 DEF Kept
  <2>5. QED
    BY <2>1, <2>4, LeaksWhatItDrops DEF ServerInv, TypeOK
<1>2. CASE Fill(w) \/ ErrorPage(w) \/ HeadOnly(w) \/ Send(w) \/ Catch500(w)
  BY <1>2, NothingLeaks DEF Fill, ErrorPage, HeadOnly, Send, Catch500, poolVars
<1>3. CASE OpenFile(w)
  <2>1. aux[w] = {} /\ UNCHANGED <<queue, held>>
    BY <1>3 DEF OpenFile, Goto, ServerInv, Files, poolVars
  <2>2. CASE UNCHANGED <<open, aux>>
    BY <2>1, <2>2, NothingLeaks
  <2>3. CASE \E f \in Lowest(1) : open' = open \cup {f} /\ aux' = [aux EXCEPT ![w] = {f}]
    <3>1. (\A f \in open' : f \in open \/ f \in aux'[w]) /\ Others
      BY <2>3 DEF ServerInv, TypeOK
    <3>2. QED
      BY <2>1, <3>1, OpenedAreKept
  <2>4. QED
    BY <1>3, <2>2, <2>3 DEF OpenFile
<1>4. CASE MakePipe(w)
  <2>1. aux[w] = {} /\ UNCHANGED <<queue, held>>
    BY <1>4 DEF MakePipe, Goto, ServerInv, Files, poolVars
  <2>2. CASE UNCHANGED <<open, aux>>
    BY <2>1, <2>2, NothingLeaks
  <2>3. CASE open' = open \cup Lowest(2) /\ aux' = [aux EXCEPT ![w] = Lowest(2)]
    <3>1. (\A f \in open' : f \in open \/ f \in aux'[w]) /\ Others
      BY <2>3 DEF ServerInv, TypeOK
    <3>2. QED
      BY <2>1, <3>1, OpenedAreKept
  <2>4. QED
    BY <1>4, <2>2, <2>3 DEF MakePipe
<1>5. CASE ReadFile(w)
  <2>1. UNCHANGED <<queue, held>> /\ Others
    BY <1>5 DEF ReadFile, ServerInv, TypeOK, poolVars
  <2>2. /\ open' \subseteq open
        /\ parsed[w] = "unreadable" \/ \A f \in aux[w] : f \notin open'
    BY <1>5 DEF ReadFile
  <2>3. QED
    BY <2>1, <2>2, GivenUpMayLeak
<1>6. CASE RunCgi(w)
  <2>1. UNCHANGED <<queue, held>> /\ Others
    BY <1>6 DEF RunCgi, ServerInv, TypeOK, poolVars
  <2>2. open' \subseteq open /\ parsed[w] \in {"cgi", "cgiBadStatus"}
    BY <1>6 DEF RunCgi, Goto, ServerInv, Working, Locals
  <2>3. QED
    BY <2>1, <2>2, GivenUpMayLeak
<1>7. CASE Close(w)
  <2>1. held' = [held EXCEPT ![w] = None] /\ open' = open \ {held[w]} /\ UNCHANGED <<queue, aux>>
    BY <1>7 DEF Close, FdPool!Release
  <2>2. \A t \in Threads : t # w => held'[t] = held[t]
    BY <2>1 DEF ServerInv, TypeOK
  <2>3. \A g : Kept(g) => Kept(g)' \/ g = held[w]
    BY <2>1, <2>2 DEF Kept, QueuedAt, HeldAt
  <2>4. QED
    BY <2>1, <2>3, LeaksWhatItDrops
<1>8. QED
  BY <1>1, <1>2, <1>3, <1>4, <1>5, <1>6, <1>7 DEF WorkerStep

\* A descriptor is left open with nothing referring to it only by a worker
\* that runs a CGI program, or whose file cannot be read; every other path
\* through the server gives back, or hands on, what it took.
THEOREM OnlyTheseLeak == Spec => OnlyCgiAndUnreadableLeak
<1>1. ASSUME ServerInv, ServerInv', Next PROVE LeakingStep
  <2>1. CASE \E c \in Conns : ClientStep(c)
    BY <1>1, <2>1, NothingLeaks DEF ClientStep, Connect, Arrive, Disturb, poolVars, workerVars
  <2>2. QED
    BY <1>1, <2>1, MainLeaksNothing, WorkerLeaks DEF Next
<1>2. ServerInv /\ ServerInv' /\ [Next]_vars => [LeakingStep]_vars
  BY <1>1
<1>3. QED
  BY <1>2, ServerInvHolds, PTL DEF Spec, OnlyCgiAndUnreadableLeak, LeakingStep

-----------------------------------------------------------------------------
(***************************************************************************)
(* HttpServer implements Service, step by step.                            *)
(***************************************************************************)
LEMMA ServiceInit == Init => Promised!Init
BY DEF Init, Promised!Init, Running

ServiceStep == Promised!Next \/ UNCHANGED Promised!serviceVars

\* Most steps are not visible to the clients.
LEMMA OutOfSight ==
  ASSUME UNCHANGED <<proc, phase, request, replies>>
  PROVE  ServiceStep
BY DEF ServiceStep, Promised!serviceVars, Running

LEMMA ClientStepIsServiceStep ==
  ASSUME NEW c \in Conns, ClientStep(c)
  PROVE  ServiceStep
<1>1. CASE Connect(c)
  <2>1. Promised!Connect(c)
    BY <1>1 DEF Connect, Promised!Connect, Promised!Moves, Running
  <2>2. QED
    BY <2>1 DEF ServiceStep, Promised!Next
<1>2. ASSUME NEW r \in Requests, Arrive(c, r) PROVE ServiceStep
  <2>1. Promised!Ask(c, r)
    BY <1>2 DEF Arrive, Promised!Ask, Running
  <2>2. QED
    BY <2>1 DEF ServiceStep, Promised!Next
<1>3. ASSUME NEW p \in {"stalled", "reset"}, Disturb(c, p) PROVE ServiceStep
  BY <1>3, OutOfSight DEF Disturb
<1>4. QED
  BY <1>1, <1>2, <1>3 DEF ClientStep

LEMMA MainStepIsServiceStep ==
  ASSUME MainStep
  PROVE  ServiceStep
<1>1. CASE Push
  BY <1>1, OutOfSight DEF Push, connVars
<1>2. CASE AcceptFails
  <2>1. Promised!Stop
    BY <1>2 DEF AcceptFails, Promised!Stop, Running, connVars
  <2>2. QED
    BY <2>1 DEF ServiceStep, Promised!Next
<1>3. ASSUME NEW c \in Conns, Accept(c) PROVE ServiceStep
  <2>1. Promised!Accept(c)
    BY <1>3 DEF Accept, Promised!Accept, Promised!Moves, Running
  <2>2. QED
    BY <2>1 DEF ServiceStep, Promised!Next
<1>4. QED
  BY <1>1, <1>2, <1>3 DEF MainStep

\* A worker's reply is the first on its connection.
LEMMA FirstReply ==
  ASSUME ServerInv, NEW w \in Workers, at[w] \in {"send", "catch"}, proc = "running",
         request[Conn(w)] \in DOMAIN Answer,
         replies' = [replies EXCEPT ![Conn(w)] = Append(@, Answer[request[Conn(w)]])],
         UNCHANGED <<proc, phase, request>>
  PROVE  ServiceStep
<1> DEFINE c == Conn(w)
<1>1. /\ c \in Conns /\ phase[c] = "accepted" /\ replies[c] = <<>>
  BY TheConnection, NoReplyYet DEF ServerInv
<1>2. Append(<<>>, Answer[request[c]]) = <<Answer[request[c]]>>
  BY AppendReply, AnswerIs
<1>3. replies' = [replies EXCEPT ![c] = <<Answer[request[c]]>>]
  BY <1>1, <1>2
<1>4. Promised!Reply(c)
  BY <1>1, <1>3 DEF Promised!Reply, Running
<1> HIDE DEF c
<1>5. QED
  BY <1>1, <1>4 DEF ServiceStep, Promised!Next

LEMMA WorkerStepIsServiceStep ==
  ASSUME ServerInv, NEW w \in Workers, WorkerStep(w)
  PROVE  ServiceStep
<1>1. CASE \/ Pop(w) \/ Fill(w) \/ ErrorPage(w) \/ HeadOnly(w) \/ OpenFile(w)
           \/ ReadFile(w) \/ MakePipe(w) \/ RunCgi(w)
  <2>1. UNCHANGED <<proc, phase, request, replies>>
    BY <1>1 DEF Pop, Fill, ErrorPage, HeadOnly, OpenFile, ReadFile, MakePipe, RunCgi, connVars
  <2>2. QED
    BY <2>1, OutOfSight
<1>2. CASE Send(w)
  <2>1. at[w] = "send" /\ proc = "running" /\ UNCHANGED <<proc, phase, request>>
    BY <1>2 DEF Send, Goto, Running
  <2>2. /\ request[Conn(w)] \in DOMAIN Answer
        /\ status[w] = Answer[request[Conn(w)]]
    BY <2>1, AnswerIs DEF ServerInv, Working, Locals
  <2>3. CASE UNCHANGED replies
    BY <2>1, <2>3, OutOfSight
  <2>4. CASE replies' = [replies EXCEPT ![Conn(w)] = Append(@, status[w])]
    BY <2>1, <2>2, <2>4, FirstReply
  <2>5. QED
    BY <1>2, <2>3, <2>4 DEF Send, Writen, WritenThrows
<1>3. CASE Catch500(w)
  <2>1. at[w] = "catch" /\ proc = "running" /\ UNCHANGED <<phase, request>>
    BY <1>3 DEF Catch500, Goto, Running
  <2>2. CASE proc' = "aborted" /\ UNCHANGED replies
    <3>1. Promised!Stop
      BY <2>1, <2>2 DEF Promised!Stop, Running
    <3>2. QED
      BY <3>1 DEF ServiceStep, Promised!Next
  <2>3. CASE Writen(Conn(w), 500) /\ UNCHANGED proc
    <3>1. request[Conn(w)] = "unreadable"
      BY <2>1, <2>3 DEF ServerInv, Working, Locals, Writen
    <3>2. "unreadable" \in DOMAIN Answer /\ Answer["unreadable"] = 500
      BY AnswerIs DEF Kinds
    <3>3. Answer[request[Conn(w)]] = 500 /\ request[Conn(w)] \in DOMAIN Answer
      BY <3>1, <3>2
    <3>4. replies' = [replies EXCEPT ![Conn(w)] = Append(@, Answer[request[Conn(w)]])]
      BY <2>3, <3>3 DEF Writen
    <3>5. QED
      BY <2>1, <2>3, <3>3, <3>4, FirstReply
  <2>4. QED
    BY <1>3, <2>2, <2>3 DEF Catch500, WritenThrows
<1>4. CASE Close(w)
  <2>1. /\ at[w] = "close" /\ proc = "running" /\ UNCHANGED proc
        /\ phase' = [phase EXCEPT ![Conn(w)] = "idle"]
        /\ request' = [request EXCEPT ![Conn(w)] = "nothing"]
        /\ replies' = [replies EXCEPT ![Conn(w)] = <<>>]
    BY <1>4 DEF Close, Goto, Running
  <2>2. Conn(w) \in Conns /\ phase[Conn(w)] = "accepted"
    BY <2>1, TheConnection DEF ServerInv
  <2>3. Promised!Close(Conn(w))
    BY <2>1, <2>2 DEF Promised!Close, Promised!Moves, Running
  <2>4. QED
    BY <2>2, <2>3 DEF ServiceStep, Promised!Next
<1>5. QED
  BY <1>1, <1>2, <1>3, <1>4 DEF WorkerStep

LEMMA StepIsServiceStep == ASSUME ServerInv, [Next]_vars PROVE ServiceStep
<1>1. CASE UNCHANGED vars
  BY <1>1, OutOfSight DEF vars
<1>2. QED
  BY <1>1, ClientStepIsServiceStep, MainStepIsServiceStep, WorkerStepIsServiceStep DEF Next

\* The server keeps what Service promises its clients: on every connection at
\* most one reply, after the whole request, with the status code due to it,
\* and nothing of an earlier client of the same descriptor.
THEOREM ServerImplementsService == Spec => ImplementsService
<1>1. ServerInv /\ [Next]_vars => [Promised!Next]_Promised!serviceVars
  BY StepIsServiceStep DEF ServiceStep
<1>2. QED
  BY <1>1, ServiceInit, ServerInvHolds, PTL DEF Spec, ImplementsService, Promised!ServiceSpec

=============================================================================
