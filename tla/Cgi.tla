-------------------------------- MODULE Cgi --------------------------------
(***************************************************************************)
(* The dynamic branch of HttpServer::baseHandle (src/HttpServer.cpp), with *)
(* its processes: each worker thread makes a pipe, forks a child that      *)
(* executes the CGI program, closes its own write end, waits for a child   *)
(* and reads the pipe to the end of file.                                  *)
(*                                                                         *)
(* The workers share one process, and that shows twice.  A child inherits  *)
(* every descriptor open at the fork, among them the write ends of other   *)
(* workers' pipes; and Wait(nullptr) returns when any child of the process *)
(* has ended, not only the caller's.                                       *)
(*                                                                         *)
(* A child is named after the worker that forked it.  Output is counted in *)
(* units; Cap units fill a pipe, and one read can take all of them         *)
(* (PAGE_SIZE_AVE is above the capacity of a pipe).  A program ends when   *)
(* it has written all its output; it is not killed.                        *)
(***************************************************************************)
EXTENDS Naturals, FiniteSets

CONSTANTS
  Workers,      \* the threads running httpThread
  Cap,          \* capacity of a pipe
  MaxOut,       \* bound on the output of a program
  ExecMayFail,  \* may execle fail for a file access() found executable?
  Server        \* the server process, as a holder of descriptors

ASSUME CgiAssumption ==
  /\ IsFiniteSet(Workers)
  /\ Cap \in Nat \ {0}
  /\ MaxOut \in Nat
  /\ ExecMayFail \in BOOLEAN
  /\ Server \notin Workers

VARIABLES
  pc,        \* what each worker executes next
  prog,      \* the child of each worker's latest request
  zombies,   \* how many children have ended and were not waited for
  size,      \* units the program writes
  produced,  \* units it has written
  pipe,      \* units in the pipe of each worker's request
  got,       \* units the worker has read
  reads,     \* successful reads of the worker's call of readn
  inTime,    \* had the worker's own program ended when Wait returned?
  writers    \* processes that hold the pipe's write end

vars == <<pc, prog, zombies, size, produced, pipe, got, reads, inTime, writers>>

Alive == {"forked", "running", "rogue"}

Goto(w, from, to) == pc[w] = from /\ pc' = [pc EXCEPT ![w] = to]
Become(w, from, to) == prog[w] = from /\ prog' = [prog EXCEPT ![w] = to]

Init ==
  /\ pc = [w \in Workers |-> "idle"]
  /\ prog = [w \in Workers |-> "none"]
  /\ zombies = 0
  /\ size = [w \in Workers |-> 0]
  /\ produced = [w \in Workers |-> 0]
  /\ pipe = [w \in Workers |-> 0]
  /\ got = [w \in Workers |-> 0]
  /\ reads = [w \in Workers |-> 0]
  /\ inTime = [w \in Workers |-> FALSE]
  /\ writers = [w \in Workers |-> {}]

-----------------------------------------------------------------------------
(***************************************************************************)
(* The worker.                                                             *)
(***************************************************************************)

\* Mutation: the second request goes on where the first one stopped counting.
MakePipeKeepsCount(w, n) ==
  /\ Goto(w, "idle", "fork")
  /\ size' = [size EXCEPT ![w] = n]
  /\ produced' = [produced EXCEPT ![w] = 0]
  /\ pipe' = [pipe EXCEPT ![w] = 0]
  /\ reads' = [reads EXCEPT ![w] = 0]
  /\ writers' = [writers EXCEPT ![w] = {Server}]
  /\ UNCHANGED <<prog, zombies, got, inTime>>

\* Pipe(fileds), for a program that is going to write n units.
MakePipe(w, n) ==
  /\ Goto(w, "idle", "fork")
  /\ size' = [size EXCEPT ![w] = n]
  /\ produced' = [produced EXCEPT ![w] = 0]
  /\ pipe' = [pipe EXCEPT ![w] = 0]
  /\ got' = [got EXCEPT ![w] = 0]
  /\ reads' = [reads EXCEPT ![w] = 0]
  /\ writers' = [writers EXCEPT ![w] = {Server}]
  /\ UNCHANGED <<prog, zombies, inTime>>

\* Mutation: the result of fork is not checked.
ForkUnchecked(w) ==
  /\ Goto(w, "fork", "close")
  /\ UNCHANGED <<prog, zombies, size, produced, pipe, got, reads, inTime, writers>>

\* Fork(): the child holds what the server holds.
Fork(w) ==
  /\ Goto(w, "fork", "close")
  /\ prog' = [prog EXCEPT ![w] = "forked"]
  /\ writers' = [x \in Workers |->
                   IF Server \in writers[x] THEN writers[x] \cup {w} ELSE writers[x]]
  /\ UNCHANGED <<zombies, size, produced, pipe, got, reads, inTime>>

\* Fork throws cFunctionError: the request is over, nobody waits.
ForkFails(w) ==
  /\ Goto(w, "fork", "idle")
  /\ UNCHANGED <<prog, zombies, size, produced, pipe, got, reads, inTime, writers>>

\* Mutation: the worker keeps its write end.
KeepWriteEnd(w) ==
  /\ Goto(w, "close", "wait")
  /\ UNCHANGED <<prog, zombies, size, produced, pipe, got, reads, inTime, writers>>

\* Close(fileds[1])
CloseWriteEnd(w) ==
  /\ Goto(w, "close", "wait")
  /\ writers' = [writers EXCEPT ![w] = @ \ {Server}]
  /\ UNCHANGED <<prog, zombies, size, produced, pipe, got, reads, inTime>>

\* Wait(nullptr): any child will do.  It would throw if there were none.
Wait(w) ==
  /\ Goto(w, "wait", "read")
  /\ zombies > 0
  /\ zombies' = zombies - 1
  /\ inTime' = [inTime EXCEPT ![w] = prog[w] = "exited"]
  /\ UNCHANGED <<prog, size, produced, pipe, got, reads, writers>>

\* Mutation: the buffer is smaller than a pipe.
ReadUnit(w) ==
  /\ pc[w] = "read"
  /\ pipe[w] > 0
  /\ pipe' = [pipe EXCEPT ![w] = @ - 1]
  /\ got' = [got EXCEPT ![w] = @ + 1]
  /\ reads' = [reads EXCEPT ![w] = @ + 1]
  /\ UNCHANGED <<pc, prog, zombies, size, produced, inTime, writers>>

\* readn: a read takes what is in the pipe, the end of file ends it.
Read(w) ==
  /\ pc[w] = "read"
  /\ pipe[w] > 0
  /\ pipe' = [pipe EXCEPT ![w] = 0]
  /\ got' = [got EXCEPT ![w] = @ + pipe[w]]
  /\ reads' = [reads EXCEPT ![w] = @ + 1]
  /\ UNCHANGED <<pc, prog, zombies, size, produced, inTime, writers>>

\* Mutation: an empty pipe is taken for the end of the output.
ReadUntilEmpty(w) ==
  /\ Goto(w, "read", "reply")
  /\ pipe[w] = 0
  /\ UNCHANGED <<prog, zombies, size, produced, pipe, got, reads, inTime, writers>>

ReadEof(w) ==
  /\ Goto(w, "read", "reply")
  /\ pipe[w] = 0
  /\ writers[w] = {}
  /\ UNCHANGED <<prog, zombies, size, produced, pipe, got, reads, inTime, writers>>

\* getRespForCgiBuf and the return to httpThread.
Reply(w) ==
  /\ Goto(w, "reply", "idle")
  /\ UNCHANGED <<prog, zombies, size, produced, pipe, got, reads, inTime, writers>>

-----------------------------------------------------------------------------
(***************************************************************************)
(* The child.                                                              *)
(***************************************************************************)

\* Dup2 of the write end to the standard output, and execle.
Exec(w) ==
  /\ Become(w, "forked", "running")
  /\ UNCHANGED <<pc, zombies, size, produced, pipe, got, reads, inTime, writers>>

\* execle fails: the exception takes the child into the handlers of
\* httpThread, where it goes on as a worker of its own.  Its standard output
\* is still the pipe, and no program is going to write to it.
ExecFails(w) ==
  /\ ExecMayFail
  /\ Become(w, "forked", "rogue")
  /\ size' = [size EXCEPT ![w] = 0]
  /\ UNCHANGED <<pc, zombies, produced, pipe, got, reads, inTime, writers>>

\* What such a child throws in a handler itself ends it (std::terminate);
\* module ForkedServer says when.
RogueDies(w) ==
  /\ Become(w, "rogue", "exited")
  /\ zombies' = zombies + 1
  /\ writers' = [x \in Workers |-> writers[x] \ {w}]
  /\ UNCHANGED <<pc, size, produced, pipe, got, reads, inTime>>

\* The program writes; a full pipe blocks it.
Write(w) ==
  /\ prog[w] = "running"
  /\ produced[w] < size[w]
  /\ pipe[w] < Cap
  /\ produced' = [produced EXCEPT ![w] = @ + 1]
  /\ pipe' = [pipe EXCEPT ![w] = @ + 1]
  /\ UNCHANGED <<pc, prog, zombies, size, got, reads, inTime, writers>>

\* The program ends, which closes all it holds.
Exit(w) ==
  /\ Become(w, "running", "exited")
  /\ produced[w] = size[w]
  /\ zombies' = zombies + 1
  /\ writers' = [x \in Workers |-> writers[x] \ {w}]
  /\ UNCHANGED <<pc, size, produced, pipe, got, reads, inTime>>

-----------------------------------------------------------------------------
Request(w) == \E n \in 0 .. MaxOut : MakePipe(w, n)
Serve(w) ==
  Fork(w) \/ ForkFails(w) \/ CloseWriteEnd(w) \/ Wait(w) \/ Read(w) \/ ReadEof(w) \/ Reply(w)
Program(w) == Exec(w) \/ ExecFails(w) \/ Write(w) \/ Exit(w)

Next == \E w \in Workers : Request(w) \/ Serve(w) \/ Program(w) \/ RogueDies(w)

Spec == Init /\ [][Next]_vars

\* Threads and programs that can run are scheduled, and programs end.
\* Wait is weakly fair only: the kernel may let another thread have each
\* child that ends.
FairSpec ==
  Spec /\ \A w \in Workers : WF_vars(Serve(w)) /\ WF_vars(Program(w))

-----------------------------------------------------------------------------
(***************************************************************************)
(* Properties                                                              *)
(***************************************************************************)

\* The type invariant.
TypeOK ==
  /\ pc \in [Workers -> {"idle", "fork", "close", "wait", "read", "reply"}]
  /\ prog \in [Workers -> Alive \cup {"none", "exited"}]
  /\ zombies \in Nat
  /\ size \in [Workers -> 0 .. MaxOut]
  /\ produced \in [Workers -> 0 .. MaxOut]
  /\ pipe \in [Workers -> 0 .. Cap]
  /\ got \in [Workers -> 0 .. MaxOut]
  /\ reads \in [Workers -> 0 .. MaxOut]
  /\ inTime \in [Workers -> BOOLEAN]
  /\ writers \in [Workers -> SUBSET (Workers \cup {Server})]

Children == {w \in Workers : prog[w] \in Alive}
Waiting  == {w \in Workers : pc[w] \in {"close", "wait"}}

\* There is one child to wait for, running or ended, for each worker that has
\* forked and not yet waited.  So Wait never throws for want of a child, and
\* no ended child stays unreaped when all workers are done, even though
\* workers take each other's.
ReapBalance == zombies + Cardinality(Children) = Cardinality(Waiting)

\* A worker that reaches the end of file has all the output of its own
\* program, whichever child its Wait returned for.
OutputComplete == \A w \in Workers : pc[w] = "reply" => got[w] = size[w]

\* readn (see RioReadn) puts output together correctly only when it comes in
\* one read: that is so when the worker's own program had ended before Wait
\* returned.  It may not be so after a Wait that returned for another child.
OneReadIfInTime ==
  \A w \in Workers : pc[w] \in {"read", "reply"} /\ inTime[w] => reads[w] <= 1

Busy  == {w \in Workers : pc[w] # "idle"}
Stuck == Busy # {} /\ \A w \in Workers : ~ ENABLED Serve(w) /\ ~ ENABLED Program(w)

\* The same by what a worker and its child are blocked in.
Blocked(w) ==
  \/ pc[w] = "idle"
  \/ pc[w] = "wait" /\ zombies = 0
  \/ pc[w] = "read" /\ pipe[w] = 0 /\ writers[w] # {}

Halted(w) ==
  \/ prog[w] \in {"none", "exited", "rogue"}
  \/ prog[w] = "running" /\ produced[w] < size[w] /\ pipe[w] = Cap

Standstill == Busy # {} /\ \A w \in Workers : Blocked(w) /\ Halted(w)

\* Workers whose program has filled its pipe before a Wait returned for them.
Jammed == {w \in Workers : pc[w] = "wait" /\ prog[w] = "running" /\ size[w] > Cap /\ pipe[w] = Cap}

\* Nothing moves any more only if an exec failed, or some program has written
\* more than its pipe holds while its worker waits.  The other workers wait
\* for a child too (theirs was taken for another), or for the end of a pipe
\* whose write end such a program has inherited.
StandstillHasReason ==
  Standstill =>
    \/ \E w \in Workers : prog[w] = "rogue"
    \/ /\ Jammed # {}
       /\ \A w \in Busy : pc[w] = "wait" \/ (pc[w] = "read" /\ writers[w] \cap Jammed # {})

\* The workers and their programs stop for no other reason.
StuckHasReason == (Stuck <=> Standstill) /\ StandstillHasReason

\* "Mind the deadlock, therefore exec at once" (src/HttpServer.cpp:104): while
\* workers are serving CGI requests, one of them comes to answer its own.
SomeRequestEnds ==
  (\E w \in Workers : pc[w] \in {"close", "wait", "read"}) ~> (\E w \in Workers : pc[w] = "reply")

=============================================================================
