----------------------------- MODULE HttpServer -----------------------------
(***************************************************************************)
(* HttpServer of src/HttpServer.cpp: one thread accepts connections and    *)
(* pushes their descriptors into fdPool; threadNum detached threads pop a  *)
(* descriptor, read the request, build the response, send it and close.    *)
(*                                                                         *)
(* The request pool is BoundedQueue (module Pool shows that the semaphores *)
(* provide it).  The process has one table of file descriptors, shared by  *)
(* the sockets, the files being served and the pipes to CGI programs: a    *)
(* descriptor is a member of Fds and is open when it is in "open".  The    *)
(* descriptors held for good (standard streams, log files, the listening   *)
(* socket) are not members of Fds.                                         *)
(*                                                                         *)
(* A request is abstracted to what its handling does; see Kinds.  A client *)
(* sends at most one request per connection, may stop reading ("stalled":  *)
(* the server's write blocks) and may reset the connection.  A client that *)
(* closed its end, but whose reset has not arrived yet, looks to the       *)
(* server like one that is still there.                                    *)
(*                                                                         *)
(* CGI programs are assumed to be executable and to terminate here.        *)
(***************************************************************************)
EXTENDS Naturals, FiniteSets, Sequences

CONSTANTS
  Workers,      \* the threads running httpThread
  Main,         \* the thread running run
  Conns,        \* connections; one that is over may be reused for a new client
  Fds,          \* the file descriptors the process may still open
  PoolLen,      \* length of fdPool
  Caches,       \* the sets of status codes whose page may be found at start
  Requests,     \* what the clients send, see Kinds; "part" is no whole request
  None

\* What handling a well-formed request comes to:
\*   page          GET of a file the server may read
\*   head          HEAD of such a file: it is not opened
\*   missing       the file does not exist
\*   forbidden     the file may not be read, or the CGI program not executed
\*   unreadable    the file opens but read fails (index.html is a directory)
\*   cgi           a CGI program, with output getRespForCgiBuf accepts or
\*                 reports as malformed
\*   cgiBadStatus  a CGI program that sends a Status absent from codeNameMap
Kinds == {"page", "head", "missing", "forbidden", "unreadable", "cgi", "cgiBadStatus"}

ASSUME ServerAssumption ==
  /\ IsFiniteSet(Workers) /\ Main \notin Workers
  /\ IsFiniteSet(Fds) /\ Fds \subseteq Nat /\ None \notin Fds
  /\ None \notin Conns
  /\ PoolLen \in Nat \ {0}
  /\ Caches \subseteq SUBSET {403, 404, 500}
  /\ Requests \subseteq Kinds \cup {"part"}

VARIABLES
  errorMsgCache,  \* the status codes whose page updateErrorMsgCache found
  proc,     \* "running", "exited" (run returned) or "aborted" (std::terminate)
  queue,    \* fdPool
  held,     \* the descriptor each thread is pushing or popped
  open,     \* the descriptors in use
  sock,     \* the connection each descriptor is the socket of, or None
  phase,    \* connection: "idle", "pending" in the backlog, or "accepted"
  request,  \* connection: what the client has sent
  peer,     \* connection: "here", "stalled" or "reset"
  replies,  \* connection: the status codes of the replies sent, in order
  at,       \* the statement each worker executes next
  parsed,   \* the worker's local HttpRequest
  status,   \* status code of the worker's local HttpResponse
  aux       \* other descriptors in local variables of the worker

connVars   == <<phase, request, peer, replies>>
poolVars   == <<queue, held>>
workerVars == <<at, parsed, status, aux>>
vars == <<errorMsgCache, proc, queue, held, open, sock, phase, request, peer, replies, at, parsed, status, aux>>

\* The request pool.
FdPool == INSTANCE BoundedQueue
            WITH Producers <- {Main}, Consumers <- Workers,
                 Items <- Fds, Capacity <- PoolLen

\* The status code baseHandle or the runtime_error handler of httpThread
\* gives to each (a CGI program chooses its own; 200 stands for it).
Answer ==
  [k \in Kinds \ {"cgiBadStatus"} |->
     CASE k = "missing"    -> 404
       [] k = "forbidden"  -> 403
       [] k = "unreadable" -> 500
       [] OTHER            -> 200]

Conn(w) == sock[held[w]]
Free    == Fds \ open

\* The kernel hands out the lowest free descriptors.
Lowest(n) == {f \in Free : Cardinality({g \in Free : g < f}) < n}

Running == proc = "running"

Goto(w, from, to) == Running /\ at[w] = from /\ at' = [at EXCEPT ![w] = to]

Init ==
  /\ errorMsgCache \in Caches
  /\ proc = "running"
  /\ FdPool!QueueInit
  /\ open = {}
  /\ sock = [f \in Fds |-> None]
  /\ phase = [c \in Conns |-> "idle"]
  /\ request = [c \in Conns |-> "nothing"]
  /\ peer = [c \in Conns |-> "here"]
  /\ replies = [c \in Conns |-> <<>>]
  /\ at = [w \in Workers |-> "pop"]
  /\ parsed = [w \in Workers |-> "nothing"]
  /\ status = [w \in Workers |-> 200]
  /\ aux = [w \in Workers |-> {}]

-----------------------------------------------------------------------------
(***************************************************************************)
(* The clients.                                                            *)
(***************************************************************************)
Connect(c) ==
  /\ Running
  /\ phase[c] = "idle"
  /\ phase' = [phase EXCEPT ![c] = "pending"]
  /\ UNCHANGED <<errorMsgCache, proc, poolVars, open, sock, request, peer, replies, workerVars>>

\* What the server reads has come to be r.  It is a request of kind r when the
\* parser takes it for one, and "part" when the parser refuses it: a part of a
\* request, or pieces that readn laid over each other (modules RioReadn and
\* Messages say when the parser takes which).
Arrive(c, r) ==
  /\ Running
  /\ phase[c] # "idle"
  /\ peer[c] # "reset"
  /\ request[c] \in {"nothing", "part"} \ {r}
  /\ request' = [request EXCEPT ![c] = r]
  /\ UNCHANGED <<errorMsgCache, proc, poolVars, open, sock, phase, peer, replies, workerVars>>

\* A client that resets its connection in the backlog may make accept fail.
Disturb(c, p) ==
  /\ Running
  /\ phase[c] = "accepted" \/ (phase[c] = "pending" /\ p = "reset")
  /\ \/ peer[c] = "here" /\ p \in {"stalled", "reset"}
     \/ peer[c] = "stalled" /\ p = "reset"
  /\ peer' = [peer EXCEPT ![c] = p]
  /\ UNCHANGED <<errorMsgCache, proc, poolVars, open, sock, phase, request, replies, workerVars>>

-----------------------------------------------------------------------------
(***************************************************************************)
(* run: accept, set the receive timeout, push.  Accept throws when the     *)
(* descriptor table is full, and for a connection that was aborted in the  *)
(* backlog where the kernel says so (ECONNABORTED; others hand it out);    *)
(* run then returns, and with it main.                                     *)
(***************************************************************************)
Accept(c) ==
  /\ Running
  /\ phase[c] = "pending"
  /\ \E f \in Lowest(1) :
       /\ FdPool!Offer(Main, f)
       /\ open' = open \cup {f}
       /\ sock' = [sock EXCEPT ![f] = c]
  /\ phase' = [phase EXCEPT ![c] = "accepted"]
  /\ UNCHANGED <<errorMsgCache, proc, request, peer, replies, workerVars>>

Aborted(c) == phase[c] = "pending" /\ peer[c] = "reset"

AcceptFails ==
  /\ Running
  /\ held[Main] = None
  /\ Free = {} \/ \E c \in Conns : Aborted(c)
  /\ proc' = "exited"
  /\ UNCHANGED <<errorMsgCache, poolVars, open, sock, connVars, workerVars>>

Push ==
  /\ Running
  /\ FdPool!Enqueue(Main)
  /\ UNCHANGED <<errorMsgCache, proc, open, sock, connVars, workerVars>>

-----------------------------------------------------------------------------
(***************************************************************************)
(* httpThread.                                                             *)
(***************************************************************************)

\* fdPool.pop()
Pop(w) ==
  /\ Goto(w, "pop", "fill")
  /\ FdPool!Dequeue(w)
  /\ UNCHANGED <<errorMsgCache, proc, open, sock, connVars, parsed, status, aux>>

\* Mutation: an incomplete request is handled.
FillUnchecked(w) ==
  /\ at[w] = "fill"
  /\ peer[Conn(w)] # "reset"
  /\ Goto(w, "fill", "handle")
  /\ parsed' = [parsed EXCEPT ![w] = request[Conn(w)]]
  /\ UNCHANGED <<errorMsgCache, proc, poolVars, open, sock, connVars, status, aux>>

\* Mutation: a malformed request is dropped with "continue", past the Close.
FillContinues(w) ==
  /\ at[w] = "fill"
  /\ \/ /\ request[Conn(w)] \in Kinds
        /\ Goto(w, "fill", "handle")
        /\ parsed' = [parsed EXCEPT ![w] = request[Conn(w)]]
        /\ UNCHANGED poolVars
     \/ /\ request[Conn(w)] \notin Kinds
        /\ Goto(w, "fill", "pop")
        /\ FdPool!Release(w)
        /\ UNCHANGED parsed
  /\ UNCHANGED <<errorMsgCache, proc, open, sock, connVars, status, aux>>

\* Mutation: the thread ends with the exception.
FillEndsThread(w) ==
  /\ at[w] = "fill"
  /\ peer[Conn(w)] # "reset"
  /\ parsed' = [parsed EXCEPT ![w] = request[Conn(w)]]
  /\ Goto(w, "fill", IF request[Conn(w)] \in Kinds THEN "handle" ELSE "ended")
  /\ UNCHANGED <<errorMsgCache, proc, poolVars, open, sock, connVars, status, aux>>

\* request.fillData(fd) throws runtime_error when the peer reset the
\* connection, and invalid_argument when no request has arrived by the receive
\* timeout.
Fill(w) ==
  /\ at[w] = "fill"
  /\ LET c == Conn(w) IN
       \/ /\ peer[c] = "reset"
          /\ Goto(w, "fill", "catch")
          /\ UNCHANGED parsed
       \/ /\ peer[c] # "reset"
          /\ request[c] \notin Kinds
          /\ Goto(w, "fill", "close")
          /\ UNCHANGED parsed
       \/ /\ peer[c] # "reset"
          /\ request[c] \in Kinds
          /\ Goto(w, "fill", "handle")
          /\ parsed' = [parsed EXCEPT ![w] = request[c]]
  /\ UNCHANGED <<errorMsgCache, proc, poolVars, open, sock, connVars, status, aux>>

\* 404 and 403: errorMsgCache.at throws out_of_range for a page that was not
\* cached.
ErrorPage(w) ==
  /\ parsed[w] \in {"missing", "forbidden"}
  /\ status' = [status EXCEPT ![w] = Answer[parsed[w]]]
  /\ \/ Answer[parsed[w]] \in errorMsgCache /\ Goto(w, "handle", "send")
     \/ Answer[parsed[w]] \notin errorMsgCache /\ Goto(w, "handle", "close")
  /\ UNCHANGED <<errorMsgCache, proc, poolVars, open, sock, connVars, parsed, aux>>

HeadOnly(w) ==
  /\ parsed[w] = "head"
  /\ Goto(w, "handle", "send")
  /\ UNCHANGED <<errorMsgCache, proc, poolVars, open, sock, connVars, parsed, status, aux>>

\* Mutation: no handler catches cFunctionError.
OpenFileUncaught(w) ==
  /\ parsed[w] \in {"page", "unreadable"}
  /\ \/ \E f \in Lowest(1) :
          /\ Goto(w, "handle", "read")
          /\ open' = open \cup {f}
          /\ aux' = [aux EXCEPT ![w] = {f}]
          /\ UNCHANGED proc
     \/ Free = {} /\ Running /\ at[w] = "handle" /\ proc' = "aborted" /\ UNCHANGED <<at, open, aux>>
  /\ UNCHANGED <<errorMsgCache, poolVars, sock, connVars, parsed, status>>

\* Open throws cFunctionError when the descriptor table is full.
OpenFile(w) ==
  /\ parsed[w] \in {"page", "unreadable"}
  /\ \/ \E f \in Lowest(1) :
          /\ Goto(w, "handle", "read")
          /\ open' = open \cup {f}
          /\ aux' = [aux EXCEPT ![w] = {f}]
     \/ Free = {} /\ Goto(w, "handle", "close") /\ UNCHANGED <<open, aux>>
  /\ UNCHANGED <<errorMsgCache, proc, poolVars, sock, connVars, parsed, status>>

\* Mutation: the file is not closed.
ReadFileNoClose(w) ==
  /\ aux' = [aux EXCEPT ![w] = {}]
  /\ \/ parsed[w] = "page" /\ Goto(w, "read", "send")
     \/ parsed[w] = "unreadable" /\ Goto(w, "read", "catch")
  /\ UNCHANGED <<errorMsgCache, proc, poolVars, open, sock, connVars, parsed, status>>

\* Read the file and close it.  readn throws runtime_error past the Close.
ReadFile(w) ==
  /\ aux' = [aux EXCEPT ![w] = {}]
  /\ \/ /\ parsed[w] = "page"
        /\ Goto(w, "read", "send")
        /\ open' = open \ aux[w]
     \/ /\ parsed[w] = "unreadable"
        /\ Goto(w, "read", "catch")
        /\ UNCHANGED open
  /\ UNCHANGED <<errorMsgCache, proc, poolVars, sock, connVars, parsed, status>>

\* Pipe throws cFunctionError when there are not two descriptors left.
MakePipe(w) ==
  /\ parsed[w] \in {"cgi", "cgiBadStatus"}
  /\ \/ /\ Cardinality(Free) >= 2
        /\ Goto(w, "handle", "fork")
        /\ open' = open \cup Lowest(2)
        /\ aux' = [aux EXCEPT ![w] = Lowest(2)]
     \/ Cardinality(Free) < 2 /\ Goto(w, "handle", "close") /\ UNCHANGED <<open, aux>>
  /\ UNCHANGED <<errorMsgCache, proc, poolVars, sock, connVars, parsed, status>>

\* Fork, close the write end, wait, read the output.  The read end is never
\* closed; when Fork throws cFunctionError neither end is.
RunCgi(w) ==
  /\ aux' = [aux EXCEPT ![w] = {}]
  /\ \/ \E writeEnd \in aux[w] :
          /\ open' = open \ {writeEnd}
          /\ \/ parsed[w] = "cgi" /\ Goto(w, "fork", "send")
             \/ parsed[w] = "cgiBadStatus" /\ Goto(w, "fork", "close")
     \/ Goto(w, "fork", "close") /\ UNCHANGED open
  /\ UNCHANGED <<errorMsgCache, proc, poolVars, sock, connVars, parsed, status>>

\* Mutation: sendData fails with EAGAIN after a part of the reply, as with a
\* send timeout on the socket.
SendTimesOut(w) ==
  /\ at[w] = "send"
  /\ LET c == Conn(w) IN
       /\ \/ peer[c] = "here" /\ Goto(w, "send", "close")
          \/ Goto(w, "send", "catch")
       /\ replies' = [replies EXCEPT ![c] = Append(@, status[w])]
  /\ UNCHANGED <<errorMsgCache, proc, poolVars, open, sock, phase, request, peer, parsed, status, aux>>

\* Mutation: a failure of sendData is ignored.
SendIgnoresError(w) ==
  /\ at[w] = "send"
  /\ LET c == Conn(w) IN
       /\ peer[c] \in {"here", "reset"}
       /\ Goto(w, "send", "close")
       /\ replies' = IF peer[c] = "here"
                        THEN [replies EXCEPT ![c] = Append(@, status[w])] ELSE replies
  /\ UNCHANGED <<errorMsgCache, proc, poolVars, open, sock, phase, request, peer, parsed, status, aux>>

\* writen goes on until everything is written; it throws runtime_error when
\* the peer has reset the connection, and blocks while the peer does not read.
Writen(c, code) == peer[c] = "here" /\ replies' = [replies EXCEPT ![c] = Append(@, code)]
WritenThrows(c) == peer[c] = "reset" /\ UNCHANGED replies

\* response.sendData(fd)
Send(w) ==
  /\ at[w] = "send"
  /\ \/ Writen(Conn(w), status[w]) /\ Goto(w, "send", "close")
     \/ WritenThrows(Conn(w)) /\ Goto(w, "send", "catch")
  /\ UNCHANGED <<errorMsgCache, proc, poolVars, open, sock, phase, request, peer, parsed, status, aux>>

\* Mutation: the handler sends the response without setting its status.
CatchKeepsStatus(w) ==
  /\ at[w] = "catch"
  /\ peer[Conn(w)] = "here"
  /\ Goto(w, "catch", "close")
  /\ replies' = [replies EXCEPT ![Conn(w)] = Append(@, status[w])]
  /\ UNCHANGED <<errorMsgCache, proc, poolVars, open, sock, phase, request, peer, parsed, status, aux>>

\* Mutation: the handler closes the descriptor, which is closed again later.
CatchCloses(w) ==
  /\ at[w] = "catch"
  /\ peer[Conn(w)] = "here"
  /\ Goto(w, "catch", "close")
  /\ replies' = [replies EXCEPT ![Conn(w)] = Append(@, 500)]
  /\ open' = open \ {held[w]}
  /\ UNCHANGED <<errorMsgCache, proc, poolVars, sock, phase, request, peer, parsed, status, aux>>

\* The handler of runtime_error: answer 500.  What it throws itself, no
\* handler of httpThread catches: std::terminate ends the process.
Catch500(w) ==
  /\ at[w] = "catch"
  /\ status' = [status EXCEPT ![w] = 500]
  /\ \/ /\ 500 \in errorMsgCache
        /\ Writen(Conn(w), 500)
        /\ Goto(w, "catch", "close")
        /\ UNCHANGED proc
     \/ /\ Running
        /\ \/ 500 \notin errorMsgCache /\ UNCHANGED replies
           \/ WritenThrows(Conn(w))
        /\ proc' = "aborted"
        /\ UNCHANGED at
  /\ UNCHANGED <<errorMsgCache, poolVars, open, sock, phase, request, peer, parsed, aux>>

\* Close(fd), and the end of the loop body: the locals go out of scope, the
\* next turn has fresh ones.  The connection is over.
Close(w) ==
  /\ Goto(w, "close", "pop")
  /\ FdPool!Release(w)
  /\ open' = open \ {held[w]}
  /\ sock' = [sock EXCEPT ![held[w]] = None]
  /\ phase' = [phase EXCEPT ![Conn(w)] = "idle"]
  /\ request' = [request EXCEPT ![Conn(w)] = "nothing"]
  /\ peer' = [peer EXCEPT ![Conn(w)] = "here"]
  /\ replies' = [replies EXCEPT ![Conn(w)] = <<>>]
  /\ parsed' = [parsed EXCEPT ![w] = "nothing"]
  /\ status' = [status EXCEPT ![w] = 200]
  /\ UNCHANGED <<errorMsgCache, proc, aux>>

-----------------------------------------------------------------------------
ClientStep(c) ==
  \/ Connect(c)
  \/ \E r \in Requests : Arrive(c, r)
  \/ \E p \in {"stalled", "reset"} : Disturb(c, p)

MainStep == Push \/ AcceptFails \/ \E c \in Conns : Accept(c)

WorkerStep(w) ==
  \/ Pop(w) \/ Fill(w)
  \/ ErrorPage(w) \/ HeadOnly(w) \/ OpenFile(w) \/ ReadFile(w) \/ MakePipe(w) \/ RunCgi(w)
  \/ Send(w) \/ Catch500(w) \/ Close(w)

Next ==
  \/ \E c \in Conns : ClientStep(c)
  \/ MainStep
  \/ \E w \in Workers : WorkerStep(w)

Spec == Init /\ [][Next]_vars

(***************************************************************************)
(* The scheduler lets every thread that can run take a step.  Nothing is   *)
(* assumed of the clients: they need not send, nor read.                   *)
(***************************************************************************)
Fairness ==
  /\ WF_vars(MainStep)
  /\ \A w \in Workers : WF_vars(WorkerStep(w))

-----------------------------------------------------------------------------
(***************************************************************************)
(* Properties                                                              *)
(***************************************************************************)
Stages == {"pop", "fill", "handle", "read", "fork", "send", "catch", "close"}

Threads == {Main} \cup Workers

\* The type invariant.
TypeOK ==
  /\ errorMsgCache \in Caches
  /\ proc \in {"running", "exited", "aborted"}
  /\ queue \in Seq(Fds)
  /\ held \in [Threads -> Fds \cup {None}]
  /\ open \subseteq Fds
  /\ sock \in [Fds -> Conns \cup {None}]
  /\ phase \in [Conns -> {"idle", "pending", "accepted"}]
  /\ request \in [Conns -> Kinds \cup {"nothing", "part"}]
  /\ peer \in [Conns -> {"here", "stalled", "reset"}]
  /\ replies \in [Conns -> Seq({200, 403, 404, 500})]
  /\ at \in [Workers -> Stages]
  /\ parsed \in [Workers -> Kinds \cup {"nothing"}]
  /\ status \in [Workers -> {200, 403, 404, 500}]
  /\ aux \in [Workers -> SUBSET Fds]

Queued == {queue[i] : i \in 1 .. Len(queue)}
HeldBy(t) == IF held[t] = None THEN {} ELSE {held[t]}

\* No descriptor has two owners: it is once in the queue, or in one thread's
\* hands, and never both; what a thread owns is open; a connection has one
\* descriptor.  So no thread serves or closes another one's connection, even
\* though the kernel reuses numbers as soon as they are closed.
DescriptorsHaveOneOwner ==
  /\ \A i, j \in 1 .. Len(queue) : queue[i] = queue[j] => i = j
  /\ \A t \in Threads : HeldBy(t) \cap Queued = {}
  /\ \A t, u \in Threads : t # u => HeldBy(t) \cap HeldBy(u) = {}
  /\ \A w \in Workers : aux[w] \cap (Queued \cup UNION {HeldBy(t) : t \in Threads}) = {}
  /\ \A w, x \in Workers : w # x => aux[w] \cap aux[x] = {}
  /\ \A f \in Queued \cup UNION {HeldBy(t) : t \in Threads} : sock[f] # None
  /\ \A w \in Workers : aux[w] \subseteq open
  /\ \A f \in Fds : sock[f] # None => f \in open
  /\ \A f, g \in Fds : sock[f] = sock[g] /\ sock[f] # None => f = g

\* No socket is lost: the socket of an accepted connection is queued or in a
\* thread's hands, on every path through the handlers and the catch clauses.
NoSocketLost ==
  /\ \A c \in Conns : phase[c] = "accepted" <=> \E f \in Fds : sock[f] = c
  /\ \A f \in Fds : sock[f] # None => f \in Queued \cup UNION {HeldBy(t) : t \in Threads}

\* The server implements Service: threads that work at once, a pool that
\* passes descriptors whose numbers are used again at once, and handlers that
\* send a second time after a first attempt failed never give a connection two
\* replies, or another's, or one left over from what was thrown away.
Promised == INSTANCE Service WITH up <- Running
ImplementsService == Promised!ServiceSpec

\* Why a worker is going to close without having replied to a request r.
CannotReply(w, r) ==
  \/ r \notin Kinds
  \/ r \in {"missing", "forbidden"} /\ Answer[r] \notin errorMsgCache
  \/ r \in {"page", "unreadable"} /\ at[w] = "handle" /\ Free = {}
  \/ r \in {"cgi", "cgiBadStatus"} /\ at[w] = "handle" /\ Cardinality(Free) < 2
  \/ r = "cgi" /\ at[w] = "fork" /\ aux[w] \subseteq open'
  \/ r = "cgiBadStatus" /\ at[w] = "fork"

\* A worker goes on to close a connection it has not replied to only when what
\* the client has sent is no whole request; when the page of the status is not
\* cached; when the file needs a descriptor, or the program two, and the table
\* has no more; when Fork has failed, which leaves both ends of the pipe open;
\* or when the status of the program's output is unknown.
SilentCloseHasReason ==
  [][\A w \in Workers :
       at[w] # "close" /\ at'[w] = "close" /\ replies'[Conn(w)] = <<>> =>
         CannotReply(w, request[Conn(w)])]_vars

\* Descriptors that are open although nothing refers to them any more.
Leaked ==
  open \ (Queued \cup (UNION {HeldBy(t) : t \in Threads}) \cup (UNION {aux[w] : w \in Workers}))

\* Only a CGI request, or a file that cannot be read, leaks a descriptor.
OnlyCgiAndUnreadableLeak ==
  [][\A f \in Leaked' \ Leaked :
       \E w \in Workers : f \in aux[w] /\ parsed[w] \in {"unreadable", "cgi", "cgiBadStatus"}]_vars

Occupied(stages) == Cardinality({w \in Workers : at[w] \in stages})

\* The server stops accepting only when what was leaked, the connections in
\* the pool and the requests in progress fill the descriptor table: one
\* descriptor for each connection, one more while a file is read, two more
\* for a CGI program; or when a client has aborted a connection it did not
\* accept yet.
ExitNeedsFullTable ==
  proc = "exited" /\ ~ (\E c \in Conns : Aborted(c)) =>
    Cardinality(Leaked) + Len(queue)
      + Occupied(Stages \ {"pop"}) + Occupied({"read"}) + 2 * Occupied({"fork"}) >= Cardinality(Fds)

\* The process dies of an exception only when a client resets its connection
\* while it is served, or when the page of status 500 is missing.
AbortHasReason ==
  proc = "aborted" =>
    500 \notin errorMsgCache \/ \E c \in Conns : phase[c] = "accepted" /\ peer[c] = "reset"

Stalled == {c \in Conns : phase[c] = "accepted" /\ peer[c] = "stalled"}

\* What run and httpThread block in: accept, push, pop, and the write to a
\* client that does not read.
MainWaits ==
  \/ held[Main] = None /\ Free # {} /\ \A c \in Conns : phase[c] # "pending"
  \/ held[Main] # None /\ Len(queue) = PoolLen

WorkerWaits(w) ==
  \/ at[w] = "pop" /\ queue = <<>>
  \/ at[w] = "send" /\ Conn(w) \in Stalled
  \/ at[w] = "catch" /\ Conn(w) \in Stalled /\ 500 \in errorMsgCache

Standstill == Running /\ MainWaits /\ \A w \in Workers : WorkerWaits(w)

\* All threads wait only when each of them serves a client that has stalled,
\* or when every connection that reached the server was served or is stalled.
StandstillHasReason ==
  Standstill =>
    \/ \A w \in Workers : at[w] # "pop" /\ Conn(w) \in Stalled
    \/ \A c \in Conns : phase[c] = "idle" \/ c \in Stalled

\* The server does not end, and does not stop, but for these reasons.
EndHasReason == ExitNeedsFullTable /\ AbortHasReason /\ StandstillHasReason

\* "The peer closes the connection and the remaining bytes may not be
\* received" (src/HttpServer.cpp:11): that should be all it costs.
PeerCannotStopServer == proc # "aborted"

Down == ~ Running

\* A connection the server has accepted is closed again, unless its own client
\* stalls or the process ends.
ClosedInTheEnd(c) ==
  phase[c] = "accepted" ~> (phase[c] = "idle" \/ peer[c] = "stalled" \/ Down)

=============================================================================
