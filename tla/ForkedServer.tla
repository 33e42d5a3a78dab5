---------------------------- MODULE ForkedServer ----------------------------
(***************************************************************************)
(* The server of Cgi with its clients, across the processes it forks       *)
(* (src/HttpServer.cpp).  No descriptor is close-on-exec, so a child holds *)
(* every connection that is open at its fork; the client sees the end of   *)
(* its connection when the last holder has closed it.                      *)
(*                                                                         *)
(* A child whose exec failed, a rogue, has copies of fdPool and of the     *)
(* connections in it.  The exception takes it into the runtime_error       *)
(* handler, which answers 500 to the request that is still its parent's    *)
(* too; then it serves its copy of fdPool, in competition with the parent: *)
(* a request is read once.  Nobody pushes into the copy, so the rogue ends *)
(* up blocked in pop, unless an exception in a handler ends it before.     *)
(*                                                                         *)
(* Reading a request and answering it with a page are one step here; a     *)
(* rogue is asked for pages only.  A client resets its connection only     *)
(* after the server proper has closed it: what a reset does to the server  *)
(* itself is in HttpServer.                                                *)
(***************************************************************************)
EXTENDS Cgi, Sequences

CONSTANTS
  Conns,     \* connections; one that is over may be reused for a new client
  PoolLen,   \* length of fdPool
  None

ASSUME ForkedAssumption == PoolLen \in Nat \ {0} /\ None \notin Conns

VARIABLES
  page500,  \* is the page of status 500 in errorMsgCache?
  fdPool,   \* the server's fdPool
  conn,     \* the connection each worker runs a program for
  holders,  \* the processes that hold a connection open
  data,     \* connection: "none" sent, "there" to read, "read", or "reset"
  replies,  \* connection: the processes that have answered, in order
  copy      \* the fdPool of each child

clientVars == <<fdPool, conn, holders, data, replies, copy>>
forkedVars == <<vars, page500, clientVars>>

ForkedInit ==
  /\ Init
  /\ page500 \in BOOLEAN
  /\ fdPool = <<>>
  /\ conn = [w \in Workers |-> None]
  /\ holders = [c \in Conns |-> {}]
  /\ data = [c \in Conns |-> "none"]
  /\ replies = [c \in Conns |-> <<>>]
  /\ copy = [w \in Workers |-> <<>>]

\* Close of the connection by one process, and of all it holds by its end.
CloseBy(p, c) == holders' = [holders EXCEPT ![c] = @ \ {p}]
EndOf(p) == holders' = [c \in Conns |-> holders[c] \ {p}]

Answers(p, c) == replies' = [replies EXCEPT ![c] = Append(@, p)]
Reads(c) == data[c] = "there" /\ data' = [data EXCEPT ![c] = "read"]

-----------------------------------------------------------------------------
(***************************************************************************)
(* Clients, and the thread that accepts them.                              *)
(***************************************************************************)
Accept(c) ==
  /\ holders[c] = {}
  /\ Len(fdPool) < PoolLen
  /\ fdPool' = Append(fdPool, c)
  /\ holders' = [holders EXCEPT ![c] = {Server}]
  /\ data' = [data EXCEPT ![c] = "none"]
  /\ replies' = [replies EXCEPT ![c] = <<>>]
  /\ UNCHANGED <<vars, page500, conn, copy>>

Arrive(c) ==
  /\ holders[c] # {} /\ data[c] = "none"
  /\ data' = [data EXCEPT ![c] = "there"]
  /\ UNCHANGED <<vars, page500, fdPool, conn, holders, replies, copy>>

\* A client tired of waiting for the end of its connection resets it.
GiveUp(c) ==
  /\ holders[c] # {} /\ Server \notin holders[c]
  /\ data' = [data EXCEPT ![c] = "reset"]
  /\ UNCHANGED <<vars, page500, fdPool, conn, holders, replies, copy>>

-----------------------------------------------------------------------------
(***************************************************************************)
(* The workers of the server.                                              *)
(***************************************************************************)

\* fdPool.pop() gives a worker this connection.
Pops(w, c) ==
  /\ pc[w] = "idle"
  /\ fdPool # <<>>
  /\ c = Head(fdPool)
  /\ fdPool' = Tail(fdPool)

\* No request by the receive timeout: closed without an answer.
Drop(w, c) ==
  /\ Pops(w, c)
  /\ data[c] # "there"
  /\ CloseBy(Server, c)
  /\ UNCHANGED <<vars, page500, conn, data, replies, copy>>

Page(w, c) ==
  /\ Pops(w, c)
  /\ Reads(c)
  /\ Answers(Server, c)
  /\ CloseBy(Server, c)
  /\ UNCHANGED <<vars, page500, conn, copy>>

Begin(w, c) ==
  /\ Pops(w, c)
  /\ Reads(c)
  /\ conn' = [conn EXCEPT ![w] = c]
  /\ Request(w)
  /\ UNCHANGED <<page500, holders, replies, copy>>

\* The child gets the connections, and fdPool as it is; unless another thread
\* is within push or pop, whose mutex nobody in the child will ever release.
ForkServer(w) ==
  /\ Fork(w)
  /\ holders' = [c \in Conns |->
                   IF Server \in holders[c] THEN holders[c] \cup {w} ELSE holders[c]]
  /\ \E pool \in {fdPool, <<>>} : copy' = [copy EXCEPT ![w] = pool]
  /\ UNCHANGED <<page500, fdPool, conn, data, replies>>

\* cFunctionError: the connection is closed without an answer.
ForkServerFails(w) ==
  /\ ForkFails(w)
  /\ CloseBy(Server, conn[w])
  /\ conn' = [conn EXCEPT ![w] = None]
  /\ UNCHANGED <<page500, fdPool, data, replies, copy>>

\* The steps between the fork and the answer.
Waits(w) ==
  /\ CloseWriteEnd(w) \/ Wait(w) \/ Read(w) \/ ReadEof(w)
  /\ UNCHANGED <<page500, clientVars>>

\* sendData, whatever the program wrote (nothing at all is malformed: 500),
\* and Close.
Answer(w) ==
  /\ Reply(w)
  /\ Answers(Server, conn[w])
  /\ CloseBy(Server, conn[w])
  /\ conn' = [conn EXCEPT ![w] = None]
  /\ UNCHANGED <<page500, fdPool, data, copy>>

-----------------------------------------------------------------------------
(***************************************************************************)
(* The children.                                                           *)
(***************************************************************************)
Runs(w) ==
  /\ \/ Exec(w) /\ copy' = [copy EXCEPT ![w] = <<>>]
     \/ (ExecFails(w) \/ Write(w)) /\ UNCHANGED copy
  /\ UNCHANGED <<page500, fdPool, conn, holders, data, replies>>

ProgramEnds(w) ==
  /\ Exit(w)
  /\ EndOf(w)
  /\ UNCHANGED <<page500, fdPool, conn, data, replies, copy>>

\* The rogue has not yet answered the request of its own worker.
Unanswered(w) == prog[w] = "rogue" /\ w \in holders[conn[w]]

\* The handler of runtime_error.
RogueAnswers(w) ==
  /\ Unanswered(w) /\ page500
  /\ Answers(w, conn[w])
  /\ CloseBy(w, conn[w])
  /\ UNCHANGED <<vars, page500, fdPool, conn, data, copy>>

RoguePops(w, c) ==
  /\ prog[w] = "rogue" /\ ~ Unanswered(w)
  /\ copy[w] # <<>>
  /\ c = Head(copy[w])
  /\ copy' = [copy EXCEPT ![w] = Tail(@)]

\* Mutation: the rogue does not notice that the request was read by another.
RogueRepeats(w, c) ==
  /\ RoguePops(w, c)
  /\ data[c] \in {"there", "read"}
  /\ data' = [data EXCEPT ![c] = "read"]
  /\ Answers(w, c)
  /\ CloseBy(w, c)
  /\ UNCHANGED <<vars, page500, fdPool, conn>>

RoguePage(w, c) ==
  /\ RoguePops(w, c)
  /\ Reads(c)
  /\ Answers(w, c)
  /\ CloseBy(w, c)
  /\ UNCHANGED <<vars, page500, fdPool, conn>>

\* Nothing is sent, or the server has read it.
RogueDrops(w, c) ==
  /\ RoguePops(w, c)
  /\ data[c] \in {"none", "read"}
  /\ CloseBy(w, c)
  /\ UNCHANGED <<vars, page500, fdPool, conn, data, replies>>

\* The page of status 500 is missing, or the client has reset the connection:
\* the handler throws.
RogueAborts(w) ==
  /\ \/ Unanswered(w) /\ ~ page500 /\ UNCHANGED copy
     \/ \E c \in Conns : RoguePops(w, c) /\ data[c] = "reset"
  /\ RogueDies(w)
  /\ EndOf(w)
  /\ UNCHANGED <<page500, fdPool, conn, data, replies>>

-----------------------------------------------------------------------------
Client(c) == Accept(c) \/ Arrive(c) \/ GiveUp(c)
Worker(w) == ForkServer(w) \/ ForkServerFails(w) \/ Waits(w) \/ Answer(w)
Take(w) == \E c \in Conns : Drop(w, c) \/ Page(w, c) \/ Begin(w, c)
Child(w) == Runs(w) \/ ProgramEnds(w)
Rogue(w) ==
  RogueAnswers(w) \/ RogueAborts(w) \/ \E c \in Conns : RoguePage(w, c) \/ RogueDrops(w, c)

ForkedNext ==
  \/ \E c \in Conns : Client(c)
  \/ \E w \in Workers : Worker(w) \/ Take(w) \/ Child(w) \/ Rogue(w)

ForkedSpec == ForkedInit /\ [][ForkedNext]_forkedVars

\* Threads that can run are scheduled, in every process, and programs end.
ForkedFairSpec ==
  /\ ForkedSpec
  /\ \A w \in Workers :
       WF_forkedVars(Worker(w)) /\ WF_forkedVars(Child(w)) /\ WF_forkedVars(Rogue(w))

-----------------------------------------------------------------------------
(***************************************************************************)
(* Properties                                                              *)
(***************************************************************************)

\* The type invariant, that of Cgi included.
ForkedTypeOK ==
  /\ TypeOK
  /\ page500 \in BOOLEAN
  /\ fdPool \in Seq(Conns) /\ Len(fdPool) <= PoolLen
  /\ conn \in [Workers -> Conns \cup {None}]
  /\ holders \in [Conns -> SUBSET (Workers \cup {Server})]
  /\ data \in [Conns -> {"none", "there", "read", "reset"}]
  /\ replies \in [Conns -> Seq(Workers \cup {Server})]
  /\ copy \in [Workers -> Seq(Conns)]

\* Only requests that were read are answered, and by one process, although
\* server and rogues serve the same connections.  The one exception: a rogue
\* answers its worker's request and dies later on; the worker then takes the
\* end of its pipe for the output of the program and answers once more.
AnsweredOnce ==
  \A c \in Conns :
    /\ replies[c] # <<>> => data[c] \in {"read", "reset"}
    /\ Len(replies[c]) > 1 =>
         \E w \in Workers : ExecMayFail /\ page500 /\ replies[c] = <<w, Server>>

Fits == \A w \in Workers : size[w] <= Cap /\ prog[w] # "rogue"

\* When every output fits into a pipe and no exec fails, requests come to
\* their end, although workers take each other's children and hold each
\* other's pipes open; and so do connections: what the server has closed its
\* last child closes too.  A client of a program, who learns the length of
\* the answer only from its end, depends on that.
ClientsSeeTheEnd ==
  []Fits =>
    /\ SomeRequestEnds
    /\ \A c \in Conns : Server \notin holders[c] ~> holders[c] = {}

=============================================================================
