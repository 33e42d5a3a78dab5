---------------------------- MODULE ForkedProofs ----------------------------
(***************************************************************************)
(* Proofs about ForkedServer, for any finite set of workers, any set of    *)
(* connections and any length of fdPool.  It refines Cgi step by step, so  *)
(* what CgiProofs shows of Cgi holds of it too; and no two processes       *)
(* answer the same request, but for the one case that AnsweredOnce names.  *)
(***************************************************************************)
EXTENDS ForkedServer, CgiProofs, SequenceTheorems

-----------------------------------------------------------------------------
(***************************************************************************)
(* ForkedServer implements Cgi: clients and the answers of rogues are      *)
(* stuttering steps.                                                       *)
(***************************************************************************)
LEMMA StepIsCgiStep == ForkedNext => [Next]_vars
<1>1. ASSUME NEW c \in Conns, Client(c) PROVE UNCHANGED vars
  BY <1>1 DEF Client, Accept, Arrive, GiveUp
<1>2. ASSUME NEW w \in Workers, NEW c \in Conns, Begin(w, c) PROVE Next
  BY <1>2 DEF Begin, Next
<1>3. ASSUME NEW w \in Workers, NEW c \in Conns, Drop(w, c) \/ Page(w, c) PROVE UNCHANGED vars
  BY <1>3 DEF Drop, Page
<1>4. ASSUME NEW w \in Workers, Worker(w) PROVE Next
  BY <1>4 DEF Worker, ForkServer, ForkServerFails, Waits, Answer, Next, Serve
<1>5. ASSUME NEW w \in Workers, Child(w) PROVE Next
  BY <1>5 DEF Child, Runs, ProgramEnds, Next, Program
<1>6. ASSUME NEW w \in Workers, Rogue(w) PROVE [Next]_vars
  BY <1>6 DEF Rogue, RogueAnswers, RogueAborts, RoguePage, RogueDrops, Next
<1>7. QED
  BY <1>1, <1>2, <1>3, <1>4, <1>5, <1>6 DEF ForkedNext, Take

\* The processes of the forked server behave as those of Cgi do.
THEOREM ForkedIsCgi == ForkedSpec => Spec
<1>1. ForkedInit => Init
  BY DEF ForkedInit
<1>2. [ForkedNext]_forkedVars => [Next]_vars
  BY StepIsCgiStep DEF forkedVars
<1>3. QED
  BY <1>1, <1>2, PTL DEF ForkedSpec, Spec

-----------------------------------------------------------------------------
(***************************************************************************)
(* The inductive invariant.                                                *)
(***************************************************************************)

\* A connection the server holds is in fdPool or with one worker, once.
OneOwner ==
  /\ \A w \in Workers : conn[w] = None <=> pc[w] = "idle"
  /\ \A w \in Workers : conn[w] # None =>
       Server \in holders[conn[w]] /\ data[conn[w]] = "read"
  /\ \A v, w \in Workers : conn[v] = conn[w] /\ conn[v] # None => v = w
  /\ \A i \in 1 .. Len(fdPool) :
       Server \in holders[fdPool[i]] /\ \A w \in Workers : conn[w] # fdPool[i]
  /\ \A i, j \in 1 .. Len(fdPool) : fdPool[i] = fdPool[j] => i = j

\* Who may have answered a connection, and that of a worker in particular: its
\* rogue child, which has closed it then.
AnsweredSoFar ==
  /\ \A w \in Workers : prog[w] = "rogue" => ExecMayFail
  /\ \A c \in Conns : replies[c] # <<>> => data[c] \in {"read", "reset"}
  /\ \A c \in Conns : Len(replies[c]) > 1 =>
       \E w \in Workers : ExecMayFail /\ page500 /\ replies[c] = <<w, Server>>
  /\ \A w \in Workers : conn[w] # None /\ replies[conn[w]] # <<>> =>
       /\ replies[conn[w]] = <<w>>
       /\ ExecMayFail /\ page500
       /\ pc[w] \in Forked
       /\ w \notin holders[conn[w]]

ForkedInv == CgiInv /\ ForkedTypeOK /\ OneOwner /\ AnsweredSoFar

\* Appending to replies.
LEMMA AppendOne ==
  ASSUME NEW S, NEW p \in S
  PROVE  Append(<<>>, p) = <<p>> /\ Len(<<p>>) = 1 /\ <<p>> # <<>> /\ <<p>> \in Seq(S)
OBVIOUS

LEMMA AppendTwo ==
  ASSUME NEW S, NEW p \in S, NEW q \in S
  PROVE  Append(<<p>>, q) = <<p, q>> /\ <<p, q>> \in Seq(S) /\ <<p, q>> # <<>>
<1>1. <<p>> \in Seq(S) /\ Len(<<p>>) = 1 /\ <<p>>[1] = p
  OBVIOUS
<1>2. <<p, q>> \in Seq(S) /\ Len(<<p, q>>) = 2 /\ <<p, q>>[1] = p /\ <<p, q>>[2] = q
  OBVIOUS
<1>3. /\ Append(<<p>>, q) \in Seq(S) /\ Len(Append(<<p>>, q)) = 2
      /\ Append(<<p>>, q)[1] = p /\ Append(<<p>>, q)[2] = q
  BY <1>1
<1>4. \A i \in 1 .. 2 : Append(<<p>>, q)[i] = <<p, q>>[i]
  <2>1. \A i \in 1 .. 2 : i = 1 \/ i = 2
    OBVIOUS
  <2>2. QED
    BY <1>2, <1>3, <2>1
<1>5. Append(<<p>>, q) = <<p, q>>
  BY <1>2, <1>3, <1>4, SeqEqual
<1>6. QED
  BY <1>2, <1>5

LEMMA OneIsNotMore ==
  ASSUME NEW s, NEW p, Len(s) > 1
  PROVE  s # <<p>>
<1>1. Len(<<p>>) = 1
  OBVIOUS
<1>2. ASSUME s = <<p>> PROVE FALSE
  <2>1. Len(<<p>>) > 1
    BY <1>2
  <2>2. QED
    BY <1>1, <2>1
<1>3. QED
  BY <1>2

\* The head and the tail of fdPool.
LEMMA PoolHead ==
  ASSUME ForkedTypeOK, fdPool # <<>>
  PROVE  /\ Head(fdPool) = fdPool[1] /\ 1 \in 1 .. Len(fdPool)
         /\ Head(fdPool) \in Conns
         /\ Tail(fdPool) \in Seq(Conns) /\ Len(Tail(fdPool)) = Len(fdPool) - 1
         /\ Len(Tail(fdPool)) <= PoolLen
         /\ \A i \in 1 .. Len(Tail(fdPool)) :
              i + 1 \in 1 .. Len(fdPool) /\ Tail(fdPool)[i] = fdPool[i + 1]
BY ForkedAssumption DEF ForkedTypeOK

LEMMA InitForked == ForkedInit => ForkedInv
<1>1. SUFFICES ASSUME ForkedInit PROVE ForkedInv
  OBVIOUS
<1>2. CgiInv
  BY <1>1, InitInv DEF ForkedInit
<1>3. Len(<<>>) = 0 /\ \A S : <<>> \in Seq(S)
  OBVIOUS
<1>4. ForkedTypeOK
  BY <1>1, <1>2, <1>3, ForkedAssumption DEF ForkedInit, ForkedTypeOK, CgiInv
<1>5. OneOwner
  BY <1>1, <1>3 DEF ForkedInit, Init, OneOwner
<1>6. AnsweredSoFar
  BY <1>1, <1>3 DEF ForkedInit, Init, AnsweredSoFar
<1>7. QED
  BY <1>2, <1>4, <1>5, <1>6 DEF ForkedInv

-----------------------------------------------------------------------------
(***************************************************************************)
(* Clients.                                                                *)
(***************************************************************************)
LEMMA AcceptKeeps ==
  ASSUME ForkedInv, CgiInv', NEW c \in Conns, Accept(c)
  PROVE  ForkedInv'
<1> USE DEF ForkedInv
<1>1. \A w \in Workers : conn[w] # c
  BY ForkedAssumption DEF OneOwner, Accept, ForkedTypeOK
<1>2. \A i \in 1 .. Len(fdPool) : fdPool[i] # c
  BY DEF OneOwner, Accept
<1>3. /\ fdPool' \in Seq(Conns) /\ Len(fdPool') = Len(fdPool) + 1
      /\ \A i \in 1 .. Len(fdPool') : fdPool'[i] = IF i <= Len(fdPool) THEN fdPool[i] ELSE c
  BY DEF ForkedTypeOK, Accept
<1>4. Len(<<>>) = 0 /\ \A S : <<>> \in Seq(S)
  OBVIOUS
<1>5. ForkedTypeOK'
  BY <1>3, <1>4, ForkedAssumption DEF CgiInv, ForkedTypeOK, Accept
<1>6. OneOwner'
  BY <1>1, <1>2, <1>3, ForkedAssumption DEF OneOwner, ForkedTypeOK, Accept, vars
<1>7. AnsweredSoFar'
  BY <1>1, <1>4, ForkedAssumption DEF AnsweredSoFar, ForkedTypeOK, Accept, vars
<1>8. QED
  BY <1>5, <1>6, <1>7

LEMMA ArriveKeeps ==
  ASSUME ForkedInv, CgiInv', NEW c \in Conns, Arrive(c)
  PROVE  ForkedInv'
<1> USE DEF ForkedInv
<1>1. ForkedTypeOK'
  BY DEF CgiInv, ForkedTypeOK, Arrive
<1>2. OneOwner'
  BY ForkedAssumption DEF OneOwner, ForkedTypeOK, Arrive, vars
<1>3. AnsweredSoFar'
  BY ForkedAssumption DEF AnsweredSoFar, ForkedTypeOK, Arrive, vars
<1>4. QED
  BY <1>1, <1>2, <1>3

LEMMA GiveUpKeeps ==
  ASSUME ForkedInv, CgiInv', NEW c \in Conns, GiveUp(c)
  PROVE  ForkedInv'
<1> USE DEF ForkedInv
<1>1. ForkedTypeOK'
  BY DEF CgiInv, ForkedTypeOK, GiveUp
<1>2. OneOwner'
  BY ForkedAssumption DEF OneOwner, ForkedTypeOK, GiveUp, vars
<1>3. AnsweredSoFar'
  BY ForkedAssumption DEF AnsweredSoFar, ForkedTypeOK, GiveUp, vars
<1>4. QED
  BY <1>1, <1>2, <1>3

-----------------------------------------------------------------------------
(***************************************************************************)
(* The workers of the server.                                              *)
(***************************************************************************)

\* A worker that has taken the head of fdPool and closed it.
LEMMA DropKeeps ==
  ASSUME ForkedInv, CgiInv', NEW w \in Workers, NEW c \in Conns, Drop(w, c)
  PROVE  ForkedInv'
<1> USE DEF ForkedInv
<1>1. /\ fdPool # <<>> /\ c = fdPool[1] /\ fdPool' = Tail(fdPool)
      /\ \A x \in Workers : conn[x] # c
  BY PoolHead DEF Drop, Pops, OneOwner
<1>2. ForkedTypeOK'
  <2>1. fdPool' \in Seq(Conns) /\ Len(fdPool') <= PoolLen
    BY <1>1, PoolHead
  <2>2. QED
    BY <2>1 DEF CgiInv, ForkedTypeOK, Drop, CloseBy
<1>3. OneOwner'
  <2>1. /\ UNCHANGED <<conn, data, pc>>
        /\ \A x \in Conns : x # c => holders'[x] = holders[x]
    BY DEF ForkedTypeOK, Drop, CloseBy, vars
  <2>2. /\ \A x \in Workers : conn'[x] = None <=> pc'[x] = "idle"
        /\ \A v, x \in Workers : conn'[v] = conn'[x] /\ conn'[v] # None => v = x
    BY <2>1 DEF OneOwner
  <2>3. \A x \in Workers : conn'[x] # None =>
          Server \in holders'[conn'[x]] /\ data'[conn'[x]] = "read"
    BY <1>1, <2>1 DEF OneOwner, ForkedTypeOK
  <2>4. \A i \in 1 .. Len(fdPool') :
          /\ i + 1 \in 1 .. Len(fdPool) /\ i + 1 # 1 /\ fdPool'[i] = fdPool[i + 1]
          /\ fdPool'[i] # c /\ fdPool'[i] \in Conns
    BY <1>1, PoolHead DEF OneOwner, ForkedTypeOK
  <2>5. \A i \in 1 .. Len(fdPool') :
          Server \in holders'[fdPool'[i]] /\ \A x \in Workers : conn'[x] # fdPool'[i]
    BY <2>1, <2>4 DEF OneOwner
  <2>6. \A i, j \in 1 .. Len(fdPool') : fdPool'[i] = fdPool'[j] => i = j
    BY <2>4 DEF OneOwner
  <2>7. QED
    BY <2>2, <2>3, <2>5, <2>6 DEF OneOwner
<1>4. AnsweredSoFar'
  BY <1>1, ForkedAssumption DEF AnsweredSoFar, ForkedTypeOK, Drop, CloseBy, vars
<1>5. QED
  BY <1>2, <1>3, <1>4

LEMMA PageKeeps ==
  ASSUME ForkedInv, CgiInv', NEW w \in Workers, NEW c \in Conns, Page(w, c)
  PROVE  ForkedInv'
<1> USE DEF ForkedInv
<1>1. /\ fdPool # <<>> /\ c = fdPool[1] /\ fdPool' = Tail(fdPool)
      /\ \A x \in Workers : conn[x] # c
  BY PoolHead DEF Page, Pops, OneOwner
<1>2. replies[c] = <<>> /\ replies' = [replies EXCEPT ![c] = <<Server>>]
  BY AppendOne DEF AnsweredSoFar, Page, Reads, Answers
<1>3. <<Server>> \in Seq(Workers \cup {Server}) /\ Len(<<Server>>) = 1
  BY AppendOne
<1>4. ForkedTypeOK'
  <2>1. fdPool' \in Seq(Conns) /\ Len(fdPool') <= PoolLen
    BY <1>1, PoolHead
  <2>2. replies' \in [Conns -> Seq(Workers \cup {Server})]
    BY <1>2, <1>3 DEF ForkedTypeOK
  <2>3. QED
    BY <2>1, <2>2 DEF CgiInv, ForkedTypeOK, Page, Reads, CloseBy
<1>5. OneOwner'
  BY <1>1, PoolHead, ForkedAssumption, SMTT(60) DEF OneOwner, ForkedTypeOK, Page, Reads, CloseBy, vars
<1>6. AnsweredSoFar'
  BY <1>1, <1>2, <1>3, ForkedAssumption, SMTT(60)
     DEF AnsweredSoFar, ForkedTypeOK, Page, Reads, CloseBy, vars
<1>7. QED
  BY <1>4, <1>5, <1>6

LEMMA BeginKeeps ==
  ASSUME ForkedInv, CgiInv', NEW w \in Workers, NEW c \in Conns, Begin(w, c)
  PROVE  ForkedInv'
<1> USE DEF ForkedInv
<1>1. /\ fdPool # <<>> /\ c = fdPool[1] /\ fdPool' = Tail(fdPool)
      /\ \A x \in Workers : conn[x] # c
  BY PoolHead DEF Begin, Pops, OneOwner
<1>2. pc[w] = "idle" /\ pc' = [pc EXCEPT ![w] = "fork"] /\ UNCHANGED prog
  BY DEF Begin, Request, MakePipe, Goto
<1>3. pc \in [Workers -> {"idle", "fork", "close", "wait", "read", "reply"}]
  BY DEF CgiInv, TypeOK
<1>4. ForkedTypeOK'
  <2>1. fdPool' \in Seq(Conns) /\ Len(fdPool') <= PoolLen
    BY <1>1, PoolHead
  <2>2. QED
    BY <2>1 DEF CgiInv, ForkedTypeOK, Begin, Reads
<1>5. OneOwner'
  <2>1. /\ conn' = [conn EXCEPT ![w] = c] /\ data' = [data EXCEPT ![c] = "read"]
        /\ UNCHANGED holders /\ conn[w] = None /\ Server \in holders[c]
    BY <1>1, <1>2, PoolHead DEF Begin, Reads, OneOwner
  <2>2. \A x \in Workers : conn'[x] = IF x = w THEN c ELSE conn[x]
    BY <2>1 DEF ForkedTypeOK
  <2>3. \A x \in Workers : conn'[x] = None <=> pc'[x] = "idle"
    BY <1>2, <1>3, <2>2, ForkedAssumption DEF OneOwner
  <2>4. \A x \in Workers : conn'[x] # None =>
          Server \in holders'[conn'[x]] /\ data'[conn'[x]] = "read"
    BY <1>1, <2>1, <2>2 DEF OneOwner, ForkedTypeOK
  <2>5. \A v, x \in Workers : conn'[v] = conn'[x] /\ conn'[v] # None => v = x
    BY <1>1, <2>2 DEF OneOwner
  <2>6. \A i \in 1 .. Len(fdPool') :
          /\ i + 1 \in 1 .. Len(fdPool) /\ i + 1 # 1 /\ fdPool'[i] = fdPool[i + 1]
          /\ fdPool'[i] # c
    BY <1>1, PoolHead DEF OneOwner
  <2>7. \A i \in 1 .. Len(fdPool') :
          Server \in holders'[fdPool'[i]] /\ \A x \in Workers : conn'[x] # fdPool'[i]
    BY <2>1, <2>2, <2>6 DEF OneOwner
  <2>8. \A i, j \in 1 .. Len(fdPool') : fdPool'[i] = fdPool'[j] => i = j
    BY <2>6, SMTT(60) DEF OneOwner
  <2>9. QED
    BY <2>3, <2>4, <2>5, <2>7, <2>8 DEF OneOwner
<1>6. AnsweredSoFar'
  <2>1. /\ conn' = [conn EXCEPT ![w] = c] /\ data' = [data EXCEPT ![c] = "read"]
        /\ UNCHANGED <<holders, replies, page500, prog>>
        /\ replies[c] = <<>>
    BY <1>2 DEF Begin, Reads, AnsweredSoFar
  <2>2. \A x \in Workers : conn'[x] # None /\ replies[conn'[x]] # <<>> =>
          x # w /\ conn'[x] = conn[x] /\ pc'[x] = pc[x]
    BY <1>2, <1>3, <2>1 DEF ForkedTypeOK
  <2>3. \A x \in Conns : data'[x] = IF x = c THEN "read" ELSE data[x]
    BY <2>1 DEF ForkedTypeOK
  <2>4. QED
    BY <2>1, <2>2, <2>3 DEF AnsweredSoFar
<1>7. QED
  BY <1>4, <1>5, <1>6

LEMMA ForkServerKeeps ==
  ASSUME ForkedInv, CgiInv', NEW w \in Workers, ForkServer(w)
  PROVE  ForkedInv'
<1> USE DEF ForkedInv
<1>1. /\ pc[w] = "fork" /\ pc' = [pc EXCEPT ![w] = "close"]
      /\ prog' = [prog EXCEPT ![w] = "forked"]
  BY DEF ForkServer, Fork, Goto
<1>2. /\ pc \in [Workers -> {"idle", "fork", "close", "wait", "read", "reply"}]
      /\ prog \in [Workers -> Alive \cup {"none", "exited"}]
  BY DEF CgiInv, TypeOK
<1>3. ForkedTypeOK'
  <2>1. fdPool \in Seq(Conns) /\ <<>> \in Seq(Conns)
    BY DEF ForkedTypeOK
  <2>2. copy' \in [Workers -> Seq(Conns)]
    BY <2>1 DEF ForkedTypeOK, ForkServer
  <2>3. holders' \in [Conns -> SUBSET (Workers \cup {Server})]
    BY DEF ForkedTypeOK, ForkServer
  <2>4. QED
    BY <2>2, <2>3 DEF CgiInv, ForkedTypeOK, ForkServer
<1>4. OneOwner'
  BY <1>1, <1>2, ForkedAssumption DEF OneOwner, ForkedTypeOK, ForkServer
<1>5. AnsweredSoFar'
  BY <1>1, <1>2, ForkedAssumption DEF AnsweredSoFar, ForkedTypeOK, ForkServer, Forked
<1>6. QED
  BY <1>3, <1>4, <1>5

LEMMA ForkServerFailsKeeps ==
  ASSUME ForkedInv, CgiInv', NEW w \in Workers, ForkServerFails(w)
  PROVE  ForkedInv'
<1> USE DEF ForkedInv
<1>1. pc[w] = "fork" /\ pc' = [pc EXCEPT ![w] = "idle"] /\ UNCHANGED prog
  BY DEF ForkServerFails, ForkFails, Goto
<1>2. pc \in [Workers -> {"idle", "fork", "close", "wait", "read", "reply"}]
  BY DEF CgiInv, TypeOK
<1>3. conn[w] # None /\ conn[w] \in Conns
  BY <1>1, ForkedAssumption DEF OneOwner, ForkedTypeOK
<1>4. ForkedTypeOK'
  BY <1>3 DEF CgiInv, ForkedTypeOK, ForkServerFails, CloseBy
<1>5. OneOwner'
  BY <1>1, <1>2, <1>3, ForkedAssumption DEF OneOwner, ForkedTypeOK, ForkServerFails, CloseBy
<1>6. AnsweredSoFar'
  BY <1>1, <1>2, <1>3, ForkedAssumption
     DEF AnsweredSoFar, ForkedTypeOK, ForkServerFails, CloseBy, Forked
<1>7. QED
  BY <1>4, <1>5, <1>6

LEMMA WaitsKeeps ==
  ASSUME ForkedInv, CgiInv', NEW w \in Workers, Waits(w)
  PROVE  ForkedInv'
<1> USE DEF ForkedInv
<1>1. /\ pc[w] \in Forked
      /\ \E to \in Forked : pc' = [pc EXCEPT ![w] = to]
      /\ UNCHANGED prog
  <2>1. pc \in [Workers -> {"idle", "fork", "close", "wait", "read", "reply"}]
    BY DEF CgiInv, TypeOK
  <2>2. QED
    BY <2>1 DEF Waits, CloseWriteEnd, Wait, Read, ReadEof, Goto, Forked
<1>2. pc \in [Workers -> {"idle", "fork", "close", "wait", "read", "reply"}]
  BY DEF CgiInv, TypeOK
<1>3. ForkedTypeOK'
  BY DEF CgiInv, ForkedTypeOK, Waits, clientVars
<1>4. OneOwner'
  BY <1>1, <1>2 DEF OneOwner, ForkedTypeOK, Waits, clientVars, Forked
<1>5. AnsweredSoFar'
  BY <1>1, <1>2 DEF AnsweredSoFar, ForkedTypeOK, Waits, clientVars
<1>6. QED
  BY <1>3, <1>4, <1>5

\* The second answer, if there is one, is the server's, after its rogue's.
LEMMA AnswerKeeps ==
  ASSUME ForkedInv, CgiInv', NEW w \in Workers, Answer(w)
  PROVE  ForkedInv'
<1> USE DEF ForkedInv
<1> DEFINE c == conn[w]
<1>1. pc[w] = "reply" /\ pc' = [pc EXCEPT ![w] = "idle"] /\ UNCHANGED prog
  BY DEF Answer, Reply, Goto
<1>2. pc \in [Workers -> {"idle", "fork", "close", "wait", "read", "reply"}]
  BY DEF CgiInv, TypeOK
<1>3. c # None /\ c \in Conns
  BY <1>1, ForkedAssumption DEF OneOwner, ForkedTypeOK
<1>4. data[c] = "read" /\ \A x \in Workers : conn[x] = c => x = w
  BY <1>3 DEF OneOwner
<1>5. \/ replies' = [replies EXCEPT ![c] = <<Server>>]
      \/ ExecMayFail /\ page500 /\ replies' = [replies EXCEPT ![c] = <<w, Server>>]
  <2>1. replies' = [replies EXCEPT ![c] = Append(replies[c], Server)]
    BY DEF Answer, Answers
  <2>2. CASE replies[c] = <<>>
    BY <2>1, <2>2, AppendOne
  <2>3. CASE replies[c] # <<>>
    <3>1. replies[c] = <<w>> /\ ExecMayFail /\ page500
      BY <1>3, <2>3 DEF AnsweredSoFar
    <3>2. Append(<<w>>, Server) = <<w, Server>>
      <4>1. w \in Workers \cup {Server} /\ Server \in Workers \cup {Server}
        OBVIOUS
      <4>2. QED
        BY <4>1, AppendTwo
    <3>3. QED
      BY <2>1, <3>1, <3>2
  <2>4. QED
    BY <2>2, <2>3
<1>6. /\ <<Server>> \in Seq(Workers \cup {Server}) /\ Len(<<Server>>) = 1
      /\ <<w, Server>> \in Seq(Workers \cup {Server})
  BY AppendOne, AppendTwo
<1>7. ForkedTypeOK'
  BY <1>3, <1>5, <1>6 DEF CgiInv, ForkedTypeOK, Answer, CloseBy
<1>8. OneOwner'
  BY <1>1, <1>2, <1>3, ForkedAssumption DEF OneOwner, ForkedTypeOK, Answer, CloseBy
<1>9. AnsweredSoFar'
  <2>1. conn' = [conn EXCEPT ![w] = None] /\ UNCHANGED <<page500, data>>
    BY DEF Answer
  <2>2. \A d \in Conns : d # c => replies'[d] = replies[d]
    BY <1>3, <1>5 DEF ForkedTypeOK
  <2>3. \/ replies'[c] = <<Server>>
        \/ ExecMayFail /\ page500 /\ replies'[c] = <<w, Server>>
    BY <1>3, <1>5 DEF ForkedTypeOK
  <2>4. \A d \in Conns : replies'[d] # <<>> => data'[d] \in {"read", "reset"}
    BY <1>4, <2>1, <2>2 DEF AnsweredSoFar
  <2>5. ASSUME NEW d \in Conns, Len(replies'[d]) > 1
        PROVE  \E x \in Workers : ExecMayFail /\ page500' /\ replies'[d] = <<x, Server>>
    <3>1. CASE d = c
      <4>1. replies'[c] # <<Server>>
        <5>1. Len(replies'[c]) > 1
          BY <2>5, <3>1
        <5>2. QED
          BY <5>1, OneIsNotMore
      <4>2. ExecMayFail /\ page500 /\ replies'[c] = <<w, Server>>
        BY <2>3, <4>1
      <4>3. ExecMayFail /\ page500' /\ replies'[d] = <<w, Server>>
        BY <2>1, <3>1, <4>2
      <4>4. QED
        BY <4>3
    <3>2. CASE d # c
      BY <2>1, <2>2, <2>5, <3>2 DEF AnsweredSoFar
    <3>3. QED
      BY <3>1, <3>2
  <2>6. \A x \in Workers : x # w => conn'[x] = conn[x] /\ conn[x] # c /\ pc'[x] = pc[x]
    BY <1>1, <1>2, <1>4, <2>1 DEF ForkedTypeOK
  <2>7. conn'[w] = None /\ \A x \in Workers : conn[x] # None => conn[x] \in Conns
    BY <2>1 DEF ForkedTypeOK
  <2>8. ASSUME NEW x \in Workers, conn'[x] # None, replies'[conn'[x]] # <<>>
        PROVE  /\ replies'[conn'[x]] = <<x>>
               /\ ExecMayFail /\ page500' /\ pc'[x] \in Forked
               /\ x \notin holders'[conn'[x]]
    <3>1. x # w /\ conn'[x] = conn[x] /\ conn[x] # c /\ conn[x] \in Conns /\ pc'[x] = pc[x]
      BY <2>6, <2>7, <2>8
    <3>2. replies'[conn[x]] = replies[conn[x]]
      BY <2>2, <3>1
    <3>3. holders'[conn[x]] = holders[conn[x]]
      BY <1>3, <3>1 DEF Answer, CloseBy, ForkedTypeOK
    <3>4. conn[x] # None /\ replies[conn[x]] # <<>>
      BY <2>8, <3>1, <3>2
    <3>5. QED
      BY <2>1, <3>1, <3>2, <3>3, <3>4 DEF AnsweredSoFar
  <2>9. QED
    BY <1>1, <2>4, <2>5, <2>8 DEF AnsweredSoFar
<1>10. QED
  BY <1>7, <1>8, <1>9

-----------------------------------------------------------------------------
(***************************************************************************)
(* The children.                                                           *)
(***************************************************************************)
LEMMA RunsKeeps ==
  ASSUME ForkedInv, CgiInv', NEW w \in Workers, Runs(w)
  PROVE  ForkedInv'
<1> USE DEF ForkedInv
<1>1. /\ UNCHANGED pc
      /\ \/ UNCHANGED prog
         \/ prog' = [prog EXCEPT ![w] = "running"]
         \/ ExecMayFail /\ prog' = [prog EXCEPT ![w] = "rogue"]
  BY DEF Runs, Exec, ExecFails, Write, Become
<1>2. prog \in [Workers -> Alive \cup {"none", "exited"}]
  BY DEF CgiInv, TypeOK
<1>3. ForkedTypeOK'
  <2>1. <<>> \in Seq(Conns)
    OBVIOUS
  <2>2. QED
    BY <2>1 DEF CgiInv, ForkedTypeOK, Runs
<1>4. OneOwner'
  BY <1>1 DEF OneOwner, ForkedTypeOK, Runs
<1>5. AnsweredSoFar'
  BY <1>1, <1>2 DEF AnsweredSoFar, ForkedTypeOK, Runs
<1>6. QED
  BY <1>3, <1>4, <1>5

LEMMA ProgramEndsKeeps ==
  ASSUME ForkedInv, CgiInv', NEW w \in Workers, ProgramEnds(w)
  PROVE  ForkedInv'
<1> USE DEF ForkedInv
<1>1. UNCHANGED pc /\ prog' = [prog EXCEPT ![w] = "exited"] /\ w # Server
  BY CgiAssumption DEF ProgramEnds, Exit, Become
<1>2. prog \in [Workers -> Alive \cup {"none", "exited"}]
  BY DEF CgiInv, TypeOK
<1>3. ForkedTypeOK'
  BY DEF CgiInv, ForkedTypeOK, ProgramEnds, EndOf
<1>4. OneOwner'
  BY <1>1, ForkedAssumption DEF OneOwner, ForkedTypeOK, ProgramEnds, EndOf
<1>5. AnsweredSoFar'
  BY <1>1, <1>2, ForkedAssumption DEF AnsweredSoFar, ForkedTypeOK, ProgramEnds, EndOf
<1>6. QED
  BY <1>3, <1>4, <1>5

\* The worker of a rogue is still at work on the request.
LEMMA RogueAnswersKeeps ==
  ASSUME ForkedInv, CgiInv', NEW w \in Workers, RogueAnswers(w)
  PROVE  ForkedInv'
<1> USE DEF ForkedInv
<1> DEFINE c == conn[w]
<1>1. prog[w] = "rogue" /\ w \in holders[c] /\ w # Server
  BY CgiAssumption DEF RogueAnswers, Unanswered
<1>2. pc[w] \in Forked
  BY <1>1 DEF CgiInv, TypeOK, ChildOfRequest, Alive, Forked
<1>3. c # None /\ c \in Conns
  BY <1>2, ForkedAssumption DEF OneOwner, ForkedTypeOK, Forked
<1>4. replies[c] = <<>> /\ data[c] = "read" /\ ExecMayFail /\ page500
  BY <1>1, <1>3 DEF AnsweredSoFar, OneOwner, RogueAnswers
<1>5. replies' = [replies EXCEPT ![c] = <<w>>]
  BY <1>4, AppendOne DEF RogueAnswers, Answers
<1>6. <<w>> \in Seq(Workers \cup {Server}) /\ Len(<<w>>) = 1
  BY AppendOne
<1>7. \A x \in Workers : conn[x] = c => x = w
  BY <1>3 DEF OneOwner
<1>8. ForkedTypeOK'
  BY <1>3, <1>5, <1>6 DEF CgiInv, ForkedTypeOK, RogueAnswers, CloseBy
<1>9. OneOwner'
  BY <1>1, <1>3, ForkedAssumption DEF OneOwner, ForkedTypeOK, RogueAnswers, CloseBy, vars
<1>10. AnsweredSoFar'
  BY <1>1, <1>2, <1>3, <1>4, <1>5, <1>6, <1>7, ForkedAssumption
     DEF AnsweredSoFar, ForkedTypeOK, RogueAnswers, CloseBy, vars
<1>11. QED
  BY <1>8, <1>9, <1>10

\* What a rogue takes from its copy of fdPool.
LEMMA CopyHead ==
  ASSUME ForkedInv, NEW w \in Workers, NEW c \in Conns, RoguePops(w, c)
  PROVE  /\ copy' \in [Workers -> Seq(Conns)]
         /\ w # Server
<1>1. copy[w] \in Seq(Conns) /\ copy[w] # <<>>
  BY DEF ForkedInv, ForkedTypeOK, RoguePops
<1>2. Tail(copy[w]) \in Seq(Conns)
  BY <1>1
<1>3. QED
  BY <1>2, CgiAssumption DEF ForkedInv, ForkedTypeOK, RoguePops

LEMMA RoguePageKeeps ==
  ASSUME ForkedInv, CgiInv', NEW w \in Workers, NEW c \in Conns, RoguePage(w, c)
  PROVE  ForkedInv'
<1> USE DEF ForkedInv
<1>1. copy' \in [Workers -> Seq(Conns)] /\ w # Server
  BY CopyHead DEF RoguePage
<1>2. data[c] = "there" /\ replies[c] = <<>> /\ \A x \in Workers : conn[x] # c
  BY ForkedAssumption DEF RoguePage, Reads, AnsweredSoFar, OneOwner
<1>3. replies' = [replies EXCEPT ![c] = <<w>>]
  BY <1>2, AppendOne DEF RoguePage, Answers
<1>4. <<w>> \in Seq(Workers \cup {Server}) /\ Len(<<w>>) = 1
  BY AppendOne
<1>5. ForkedTypeOK'
  BY <1>1, <1>3, <1>4 DEF CgiInv, ForkedTypeOK, RoguePage, Reads, CloseBy
<1>6. OneOwner'
  BY <1>1, <1>2, ForkedAssumption DEF OneOwner, ForkedTypeOK, RoguePage, Reads, CloseBy, vars
<1>7. AnsweredSoFar'
  BY <1>2, <1>3, <1>4, ForkedAssumption
     DEF AnsweredSoFar, ForkedTypeOK, RoguePage, Reads, CloseBy, vars
<1>8. QED
  BY <1>5, <1>6, <1>7

LEMMA RogueDropsKeeps ==
  ASSUME ForkedInv, CgiInv', NEW w \in Workers, NEW c \in Conns, RogueDrops(w, c)
  PROVE  ForkedInv'
<1> USE DEF ForkedInv
<1>1. copy' \in [Workers -> Seq(Conns)] /\ w # Server
  BY CopyHead DEF RogueDrops
<1>2. ForkedTypeOK'
  BY <1>1 DEF CgiInv, ForkedTypeOK, RogueDrops, CloseBy
<1>3. OneOwner'
  BY <1>1, ForkedAssumption DEF OneOwner, ForkedTypeOK, RogueDrops, CloseBy, vars
<1>4. AnsweredSoFar'
  BY ForkedAssumption DEF AnsweredSoFar, ForkedTypeOK, RogueDrops, CloseBy, vars
<1>5. QED
  BY <1>2, <1>3, <1>4

LEMMA RogueAbortsKeeps ==
  ASSUME ForkedInv, CgiInv', NEW w \in Workers, RogueAborts(w)
  PROVE  ForkedInv'
<1> USE DEF ForkedInv
<1>1. copy' \in [Workers -> Seq(Conns)]
  BY CopyHead DEF RogueAborts, ForkedTypeOK
<1>2. UNCHANGED pc /\ prog' = [prog EXCEPT ![w] = "exited"] /\ w # Server
  BY CgiAssumption DEF RogueAborts, RogueDies, Become
<1>3. prog \in [Workers -> Alive \cup {"none", "exited"}]
  BY DEF CgiInv, TypeOK
<1>4. ForkedTypeOK'
  BY <1>1 DEF CgiInv, ForkedTypeOK, RogueAborts, EndOf
<1>5. OneOwner'
  BY <1>2, ForkedAssumption DEF OneOwner, ForkedTypeOK, RogueAborts, EndOf
<1>6. AnsweredSoFar'
  BY <1>2, <1>3, ForkedAssumption DEF AnsweredSoFar, ForkedTypeOK, RogueAborts, EndOf
<1>7. QED
  BY <1>4, <1>5, <1>6

-----------------------------------------------------------------------------
LEMMA ForkedNextKeeps == ForkedInv /\ [ForkedNext]_forkedVars => ForkedInv'
<1>1. ASSUME ForkedInv, UNCHANGED forkedVars PROVE ForkedInv'
  <2>1. CgiInv'
    BY <1>1, StutterKeeps DEF ForkedInv, forkedVars
  <2>2. ForkedTypeOK' /\ OneOwner' /\ AnsweredSoFar'
    BY <1>1, <2>1 DEF ForkedInv, CgiInv, ForkedTypeOK, OneOwner, AnsweredSoFar,
                      forkedVars, clientVars, vars
  <2>3. QED
    BY <2>1, <2>2 DEF ForkedInv
<1>2. ASSUME ForkedInv, ForkedNext PROVE ForkedInv'
  <2>1. CgiInv'
    BY <1>2, StepIsCgiStep, NextKeeps DEF ForkedInv
  <2>2. ASSUME NEW c \in Conns, Client(c) PROVE ForkedInv'
    BY <1>2, <2>1, <2>2, AcceptKeeps, ArriveKeeps, GiveUpKeeps DEF Client
  <2>3. ASSUME NEW w \in Workers, Worker(w) PROVE ForkedInv'
    BY <1>2, <2>1, <2>3, ForkServerKeeps, ForkServerFailsKeeps, WaitsKeeps, AnswerKeeps DEF Worker
  <2>4. ASSUME NEW w \in Workers, Take(w) PROVE ForkedInv'
    BY <1>2, <2>1, <2>4, DropKeeps, PageKeeps, BeginKeeps DEF Take
  <2>5. ASSUME NEW w \in Workers, Child(w) PROVE ForkedInv'
    BY <1>2, <2>1, <2>5, RunsKeeps, ProgramEndsKeeps DEF Child
  <2>6. ASSUME NEW w \in Workers, Rogue(w) PROVE ForkedInv'
    BY <1>2, <2>1, <2>6, RogueAnswersKeeps, RogueAbortsKeeps, RoguePageKeeps, RogueDropsKeeps DEF Rogue
  <2>7. QED
    BY <1>2, <2>2, <2>3, <2>4, <2>5, <2>6 DEF ForkedNext
<1>3. QED
  BY <1>1, <1>2

\* The invariant of the server with its rogues holds in every state.
THEOREM ForkedInvHolds == ForkedSpec => []ForkedInv
<1>1. QED
  BY InitForked, ForkedNextKeeps, PTL DEF ForkedSpec

-----------------------------------------------------------------------------
(***************************************************************************)
(* The theorems.                                                           *)
(***************************************************************************)

\* The type invariant.
THEOREM ForkedTypeCorrect == ForkedSpec => []ForkedTypeOK
<1>1. ForkedInv => ForkedTypeOK
  BY DEF ForkedInv
<1>2. QED
  BY <1>1, ForkedInvHolds, PTL

\* No request is answered twice, by two workers or by two processes, unless a
\* rogue has answered its worker's request and died (httpThread's handler of
\* runtime_error in the child, then sendData in the parent).
THEOREM OneAnswer == ForkedSpec => []AnsweredOnce
<1>1. ForkedInv => AnsweredOnce
  BY DEF ForkedInv, AnsweredSoFar, AnsweredOnce
<1>2. QED
  BY <1>1, ForkedInvHolds, PTL

\* What Cgi guarantees holds with the clients and the rogues of ForkedServer:
\* a child for each Wait, all of the output, and in one read if in time.
THEOREM ForkedKeepsCgi == ForkedSpec => [](ReapBalance /\ OutputComplete /\ OneReadIfInTime)
<1>1. QED
  BY ForkedIsCgi, ChildForEachWait, NoOutputMissed, InTimeReadOnce, PTL

-----------------------------------------------------------------------------
(***************************************************************************)
(* Who keeps a connection open.                                            *)
(***************************************************************************)
Served(c) == (\E i \in 1 .. Len(fdPool) : fdPool[i] = c) \/ \E w \in Workers : conn[w] = c

HoldersServe ==
  \A c \in Conns :
    /\ \A w \in Workers : w \in holders[c] => prog[w] \in Alive
    /\ Server \in holders[c] => Served(c)

LEMMA InitServes == ForkedInit => HoldersServe
BY DEF ForkedInit, HoldersServe

\* A step that closes connections, if anything, and starts or ends no child.
LEMMA HoldersDrop ==
  ASSUME ForkedInv, HoldersServe, UNCHANGED prog,
         \A c \in Conns : holders'[c] \subseteq holders[c],
         \A c \in Conns : Server \in holders'[c] => (Served(c) => Served(c)')
  PROVE  HoldersServe'
BY DEF HoldersServe

LEMMA ClientServes ==
  ASSUME ForkedInv, HoldersServe, NEW c \in Conns, Client(c)
  PROVE  HoldersServe'
<1>1. CASE Arrive(c) \/ GiveUp(c)
  BY <1>1, HoldersDrop DEF Client, Arrive, GiveUp, Served, vars
<1>2. CASE Accept(c)
  <2>1. /\ fdPool \in Seq(Conns) /\ fdPool' = Append(fdPool, c) /\ UNCHANGED <<prog, conn>>
        /\ holders' = [holders EXCEPT ![c] = {Server}]
        /\ holders \in [Conns -> SUBSET (Workers \cup {Server})]
    BY <1>2 DEF Accept, vars, ForkedInv, ForkedTypeOK
  <2>2. \A d \in Conns : Served(d) => Served(d)'
    BY <2>1 DEF Served
  <2>3. Served(c)'
    <3>1. Len(fdPool') \in 1 .. Len(fdPool') /\ fdPool'[Len(fdPool')] = c
      BY <2>1
    <3>2. QED
      BY <3>1 DEF Served
  <2>4. QED
    BY <2>1, <2>2, <2>3, CgiAssumption DEF HoldersServe
<1>3. QED
  BY <1>1, <1>2 DEF Client

\* The head of fdPool is popped.
LEMMA PopServes ==
  ASSUME ForkedInv, NEW w \in Workers, NEW c \in Conns, Pops(w, c)
  PROVE  \A d \in Conns : d # c /\ (\E i \in 1 .. Len(fdPool) : fdPool[i] = d) =>
           \E i \in 1 .. Len(fdPool') : fdPool'[i] = d
<1>1. fdPool \in Seq(Conns) /\ fdPool # <<>> /\ c = fdPool[1] /\ fdPool' = Tail(fdPool)
  BY DEF Pops, ForkedInv, ForkedTypeOK
<1>2. \A i \in 1 .. Len(fdPool) : i # 1 =>
        i - 1 \in 1 .. Len(fdPool') /\ fdPool'[i - 1] = fdPool[i]
  BY <1>1
<1>3. QED
  BY <1>1, <1>2

LEMMA TakeServes ==
  ASSUME ForkedInv, HoldersServe, NEW w \in Workers, NEW c \in Conns,
         Drop(w, c) \/ Page(w, c) \/ Begin(w, c)
  PROVE  HoldersServe'
<1>0. Pops(w, c) /\ UNCHANGED prog /\ holders \in [Conns -> SUBSET (Workers \cup {Server})]
  BY DEF Drop, Page, Begin, Request, MakePipe, vars, ForkedInv, ForkedTypeOK
<1>1. CASE Drop(w, c) \/ Page(w, c)
  <2>1. UNCHANGED conn /\ holders' = [holders EXCEPT ![c] = @ \ {Server}]
    BY <1>1 DEF Drop, Page, CloseBy
  <2>2. \A d \in Conns : d # c => (Served(d) => Served(d)')
    BY <1>0, <2>1, PopServes DEF Served
  <2>3. QED
    BY <1>0, <2>1, <2>2, HoldersDrop
<1>2. CASE Begin(w, c)
  <2>1. UNCHANGED holders /\ conn' = [conn EXCEPT ![w] = c]
    BY <1>2 DEF Begin
  <2>2. conn[w] = None /\ conn \in [Workers -> Conns \cup {None}]
    BY <1>0 DEF Pops, ForkedInv, OneOwner, ForkedTypeOK
  <2>3. \A d \in Conns : Served(d) => Served(d)'
    BY <1>0, <2>1, <2>2, PopServes, ForkedAssumption DEF Served
  <2>4. QED
    BY <1>0, <2>1, <2>3, HoldersDrop
<1>3. QED
  BY <1>1, <1>2

LEMMA WorkerServes ==
  ASSUME ForkedInv, HoldersServe, NEW w \in Workers, Worker(w)
  PROVE  HoldersServe'
<1>0. /\ holders \in [Conns -> SUBSET (Workers \cup {Server})]
      /\ conn \in [Workers -> Conns \cup {None}]
      /\ prog \in [Workers -> Alive \cup {"none", "exited"}]
  BY DEF ForkedInv, ForkedTypeOK, CgiInv, TypeOK
<1>1. CASE Waits(w)
  <2>1. UNCHANGED <<prog, fdPool, conn, holders>>
    BY <1>1 DEF Waits, CloseWriteEnd, Wait, Read, ReadEof, clientVars
  <2>2. QED
    BY <2>1, HoldersDrop DEF Served
<1>2. CASE ForkServerFails(w) \/ Answer(w)
  <2>1. /\ UNCHANGED <<prog, fdPool>>
        /\ holders' = [holders EXCEPT ![conn[w]] = @ \ {Server}]
        /\ conn' = [conn EXCEPT ![w] = None]
    BY <1>2 DEF ForkServerFails, ForkFails, Answer, Reply, CloseBy
  <2>2. \A d \in Conns : Server \in holders'[d] => d # conn[w]
    BY <1>0, <2>1
  <2>3. \A d \in Conns : d # conn[w] => (Served(d) => Served(d)')
    BY <1>0, <2>1 DEF Served
  <2>4. QED
    BY <1>0, <2>1, <2>2, <2>3, HoldersDrop
<1>3. CASE ForkServer(w)
  <2>1. /\ prog' = [prog EXCEPT ![w] = "forked"] /\ UNCHANGED <<fdPool, conn>>
        /\ \A c \in Conns : holders'[c] \subseteq holders[c] \cup {w}
    BY <1>0, <1>3 DEF ForkServer, Fork
  <2>2. \A v \in Workers : prog[v] \in Alive \/ v = w => prog'[v] \in Alive
    BY <1>0, <2>1 DEF Alive
  <2>3. QED
    BY <2>1, <2>2, CgiAssumption DEF HoldersServe, Served
<1>4. QED
  BY <1>1, <1>2, <1>3 DEF Worker

LEMMA ChildServes ==
  ASSUME ForkedInv, HoldersServe, NEW w \in Workers, Child(w) \/ Rogue(w)
  PROVE  HoldersServe'
<1>0. /\ holders \in [Conns -> SUBSET (Workers \cup {Server})]
      /\ prog \in [Workers -> Alive \cup {"none", "exited"}]
  BY DEF ForkedInv, ForkedTypeOK, CgiInv, TypeOK
<1>1. UNCHANGED <<fdPool, conn>>
  BY DEF Child, Runs, ProgramEnds, Rogue, RogueAnswers, RogueAborts, RoguePage, RogueDrops
<1>2. CASE Runs(w)
  <2>1. \A v \in Workers : prog[v] \in Alive => prog'[v] \in Alive
    BY <1>0, <1>2 DEF Runs, Exec, ExecFails, Write, Become, Alive
  <2>2. QED
    BY <1>1, <1>2, <2>1 DEF Runs, HoldersServe, Served
<1>3. CASE ProgramEnds(w) \/ RogueAborts(w)
  <2>1. /\ holders' = [c \in Conns |-> holders[c] \ {w}]
        /\ prog' = [prog EXCEPT ![w] = "exited"]
    BY <1>3 DEF ProgramEnds, Exit, RogueAborts, RogueDies, Become, EndOf
  <2>2. QED
    BY <1>0, <1>1, <2>1 DEF HoldersServe, Served
<1>4. CASE RogueAnswers(w) \/ \E c \in Conns : RoguePage(w, c) \/ RogueDrops(w, c)
  <2>1. UNCHANGED prog /\ \A c \in Conns : holders'[c] \subseteq holders[c]
    BY <1>0, <1>4 DEF RogueAnswers, RoguePage, RogueDrops, CloseBy, vars
  <2>2. QED
    BY <1>1, <2>1, HoldersDrop DEF Served
<1>5. QED
  BY <1>2, <1>3, <1>4 DEF Child, Rogue

\* A connection that is open waits in fdPool or is served by a worker, or its
\* client waits for a child that lives: no process that is gone, and no worker
\* that is done with it, keeps a client from seeing its end.  (The part of
\* ClientsSeeTheEnd that needs no fairness.)
THEOREM OpenHasReason ==
  ForkedSpec => [](\A c \in Conns : holders[c] # {} =>
                     Served(c) \/ \E w \in holders[c] \cap Workers : prog[w] \in Alive)
<1>1. ForkedInv /\ HoldersServe /\ [ForkedNext]_forkedVars => HoldersServe'
  <2>1. ASSUME ForkedInv, HoldersServe, UNCHANGED forkedVars PROVE HoldersServe'
    BY <2>1, HoldersDrop DEF forkedVars, vars, clientVars, Served
  <2>2. QED
    BY <2>1, ClientServes, TakeServes, WorkerServes, ChildServes DEF ForkedNext, Take
<1>2. ForkedInv /\ HoldersServe =>
        \A c \in Conns : holders[c] # {} =>
          Served(c) \/ \E w \in holders[c] \cap Workers : prog[w] \in Alive
  <2> SUFFICES ASSUME ForkedInv, HoldersServe, NEW c \in Conns, holders[c] # {}
               PROVE  Served(c) \/ \E w \in holders[c] \cap Workers : prog[w] \in Alive
    OBVIOUS
  <2>1. holders \in [Conns -> SUBSET (Workers \cup {Server})]
    BY DEF ForkedInv, ForkedTypeOK
  <2>2. PICK p \in holders[c] : TRUE
    OBVIOUS
  <2>3. CASE p = Server
    BY <2>2, <2>3 DEF HoldersServe
  <2>4. CASE p \in Workers
    BY <2>2, <2>4 DEF HoldersServe
  <2>5. QED
    BY <2>1, <2>2, <2>3, <2>4
<1>3. QED
  BY <1>1, <1>2, InitServes, ForkedInvHolds, PTL DEF ForkedSpec

\* As long as no exec fails and every program's output fits the pipe, the
\* workers and programs of the server with its clients never stand still.
THEOREM ForkedNeverStandsStill ==
  ASSUME ~ ExecMayFail, MaxOut <= Cap
  PROVE  ForkedSpec => []~ Standstill
<1>1. Spec => []~ Standstill
  BY OutputsThatFitAreServed
<1>2. QED
  BY <1>1, ForkedIsCgi, PTL

=============================================================================
