----------------------------- MODULE CgiProofs -----------------------------
(***************************************************************************)
(* Proofs about Cgi, for any finite set of workers, any capacity of the    *)
(* pipes and any bound on the output.                                      *)
(***************************************************************************)
EXTENDS Cgi, FiniteSetTheorems, TLAPS

Stages == {"idle", "fork", "close", "wait", "read", "reply"}
Forked == {"close", "wait", "read", "reply"}

-----------------------------------------------------------------------------
(***************************************************************************)
(* The inductive invariant.                                                *)
(***************************************************************************)

\* What is written is in the pipe or has been read.
Conserved ==
  \A w \in Workers :
    /\ produced[w] = pipe[w] + got[w]
    /\ produced[w] <= size[w]
    /\ reads[w] <= got[w]

\* A worker between its fork and its reply has a child, any other has none.
\* A child that lives holds the write end of its worker's pipe.
ChildOfRequest ==
  \A w \in Workers :
    /\ pc[w] \in {"idle", "fork"} => prog[w] \notin Alive
    /\ pc[w] \in Forked => prog[w] \in Alive \cup {"exited"}
    /\ pc[w] = "fork" => Server \in writers[w] /\ produced[w] = 0
    /\ prog[w] \in Alive => w \in writers[w]
    /\ pc[w] \in Forked /\ prog[w] = "exited" => produced[w] = size[w]
    /\ prog[w] = "forked" => produced[w] = 0
    /\ prog[w] = "rogue" => produced[w] = 0 /\ size[w] = 0
    /\ pc[w] = "reply" => prog[w] = "exited" /\ pipe[w] = 0

\* Reading begins after Wait, and ends with one read when the program had
\* ended before.
ReadsAfterWait ==
  \A w \in Workers :
    /\ pc[w] \in {"fork", "close", "wait"} => reads[w] = 0
    /\ pc[w] \in {"read", "reply"} /\ inTime[w] =>
         prog[w] = "exited" /\ (reads[w] = 0 \/ (reads[w] = 1 /\ pipe[w] = 0))

\* Who holds a write end is a child that lives, or the server until it closes
\* it; a request whose fork failed leaves it open.
HoldersLive ==
  \A w \in Workers :
    /\ writers[w] \subseteq Children \cup {Server}
    /\ Server \in writers[w] => pc[w] \in {"idle", "fork", "close"}

CgiInv ==
  /\ TypeOK
  /\ Conserved
  /\ ChildOfRequest
  /\ ReadsAfterWait
  /\ ReapBalance

-----------------------------------------------------------------------------
(***************************************************************************)
(* Counting.                                                               *)
(***************************************************************************)
LEMMA CountsFinite ==
  /\ IsFiniteSet(Children) /\ Cardinality(Children) \in Nat
  /\ IsFiniteSet(Waiting) /\ Cardinality(Waiting) \in Nat
<1>1. IsFiniteSet(Workers) /\ Children \subseteq Workers /\ Waiting \subseteq Workers
  BY CgiAssumption DEF Children, Waiting
<1>2. QED
  BY <1>1, FS_Subset, FS_CardinalityType

\* Nothing to count when a step changes neither membership.
LEMMA BalanceKept ==
  ASSUME ReapBalance, Children' = Children, Waiting' = Waiting, zombies' = zombies
  PROVE  ReapBalance'
BY DEF ReapBalance

-----------------------------------------------------------------------------
(***************************************************************************)
(* Each action keeps the invariant.                                        *)
(***************************************************************************)
LEMMA MakePipeKeeps ==
  ASSUME CgiInv, NEW w \in Workers, NEW n \in 0 .. MaxOut, MakePipe(w, n)
  PROVE  CgiInv'
<1>1. TypeOK'
  BY CgiAssumption DEF CgiInv, TypeOK, Conserved, Alive, MakePipe, Goto
<1>2. Conserved'
  BY CgiAssumption DEF CgiInv, TypeOK, Conserved, ChildOfRequest, ReadsAfterWait, MakePipe, Goto
<1>3. ChildOfRequest'
  BY CgiAssumption DEF CgiInv, TypeOK, Conserved, ChildOfRequest, Alive, Forked, MakePipe, Goto
<1>4. ReadsAfterWait'
  BY CgiAssumption DEF CgiInv, TypeOK, Conserved, ChildOfRequest, ReadsAfterWait, Alive, Forked, MakePipe, Goto
<1>5. Children' = Children /\ Waiting' = Waiting /\ zombies' = zombies
  BY DEF CgiInv, TypeOK, ChildOfRequest, Children, Waiting, Alive, MakePipe, Goto
<1>6. QED
  BY <1>1, <1>2, <1>3, <1>4, <1>5, BalanceKept DEF CgiInv

LEMMA ForkKeeps ==
  ASSUME CgiInv, NEW w \in Workers, Fork(w)
  PROVE  CgiInv'
<1>1. TypeOK'
  BY CgiAssumption DEF CgiInv, TypeOK, Conserved, Alive, Fork, Goto
<1>2. Conserved'
  BY CgiAssumption DEF CgiInv, TypeOK, Conserved, ChildOfRequest, ReadsAfterWait, Fork, Goto
<1>3. ChildOfRequest'
  BY CgiAssumption DEF CgiInv, TypeOK, Conserved, ChildOfRequest, Alive, Forked, Fork, Goto
<1>4. ReadsAfterWait'
  BY CgiAssumption DEF CgiInv, TypeOK, Conserved, ChildOfRequest, ReadsAfterWait, Alive, Forked, Fork, Goto
<1>5. Children' = Children \cup {w} /\ w \notin Children
  BY DEF CgiInv, TypeOK, ChildOfRequest, Children, Alive, Fork, Goto
<1>6. Waiting' = Waiting \cup {w} /\ w \notin Waiting
  BY DEF CgiInv, TypeOK, Waiting, Fork, Goto
<1>7. /\ Cardinality(Children') = Cardinality(Children) + 1
      /\ Cardinality(Waiting') = Cardinality(Waiting) + 1
  BY <1>5, <1>6, CountsFinite, FS_AddElement
<1>8. ReapBalance'
  BY <1>7, CountsFinite DEF CgiInv, TypeOK, ReapBalance, Fork
<1>9. QED
  BY <1>1, <1>2, <1>3, <1>4, <1>8 DEF CgiInv

LEMMA ForkFailsKeeps ==
  ASSUME CgiInv, NEW w \in Workers, ForkFails(w)
  PROVE  CgiInv'
<1>1. TypeOK'
  BY CgiAssumption DEF CgiInv, TypeOK, Conserved, Alive, ForkFails, Goto
<1>2. Conserved'
  BY CgiAssumption DEF CgiInv, TypeOK, Conserved, ChildOfRequest, ReadsAfterWait, ForkFails, Goto
<1>3. ChildOfRequest'
  BY CgiAssumption DEF CgiInv, TypeOK, Conserved, ChildOfRequest, Alive, Forked, ForkFails, Goto
<1>4. ReadsAfterWait'
  BY CgiAssumption DEF CgiInv, TypeOK, Conserved, ChildOfRequest, ReadsAfterWait, Alive, Forked, ForkFails, Goto
<1>5. Children' = Children /\ Waiting' = Waiting /\ zombies' = zombies
  BY DEF CgiInv, TypeOK, ChildOfRequest, Children, Waiting, Alive, ForkFails, Goto
<1>6. QED
  BY <1>1, <1>2, <1>3, <1>4, <1>5, BalanceKept DEF CgiInv

LEMMA CloseWriteEndKeeps ==
  ASSUME CgiInv, NEW w \in Workers, CloseWriteEnd(w)
  PROVE  CgiInv'
<1>1. TypeOK'
  BY CgiAssumption DEF CgiInv, TypeOK, Conserved, Alive, CloseWriteEnd, Goto
<1>2. Conserved'
  BY CgiAssumption DEF CgiInv, TypeOK, Conserved, ChildOfRequest, ReadsAfterWait, CloseWriteEnd, Goto
<1>3. ChildOfRequest'
  BY CgiAssumption DEF CgiInv, TypeOK, Conserved, ChildOfRequest, Alive, Forked, CloseWriteEnd, Goto
<1>4. ReadsAfterWait'
  BY CgiAssumption DEF CgiInv, TypeOK, Conserved, ChildOfRequest, ReadsAfterWait, Alive, Forked, CloseWriteEnd, Goto
<1>5. Children' = Children /\ Waiting' = Waiting /\ zombies' = zombies
  BY DEF CgiInv, TypeOK, ChildOfRequest, Children, Waiting, Alive, CloseWriteEnd, Goto
<1>6. QED
  BY <1>1, <1>2, <1>3, <1>4, <1>5, BalanceKept DEF CgiInv

LEMMA WaitKeeps ==
  ASSUME CgiInv, NEW w \in Workers, Wait(w)
  PROVE  CgiInv'
<1>1. TypeOK'
  BY CgiAssumption DEF CgiInv, TypeOK, Conserved, Alive, Wait, Goto
<1>2. Conserved'
  BY CgiAssumption DEF CgiInv, TypeOK, Conserved, ChildOfRequest, ReadsAfterWait, Wait, Goto
<1>3. ChildOfRequest'
  BY CgiAssumption DEF CgiInv, TypeOK, Conserved, ChildOfRequest, Alive, Forked, Wait, Goto
<1>4. ReadsAfterWait'
  BY CgiAssumption DEF CgiInv, TypeOK, Conserved, ChildOfRequest, ReadsAfterWait, Alive, Forked, Wait, Goto
<1>5. Children' = Children
  BY DEF Children, Wait
<1>6. Waiting' = Waiting \ {w} /\ w \in Waiting
  BY DEF CgiInv, TypeOK, Waiting, Wait, Goto
<1>7. Cardinality(Waiting') = Cardinality(Waiting) - 1
  BY <1>6, CountsFinite, FS_RemoveElement
<1>8. ReapBalance'
  BY <1>5, <1>7, CountsFinite DEF CgiInv, TypeOK, ReapBalance, Wait
<1>9. QED
  BY <1>1, <1>2, <1>3, <1>4, <1>8 DEF CgiInv

LEMMA ReadKeeps ==
  ASSUME CgiInv, NEW w \in Workers, Read(w)
  PROVE  CgiInv'
<1>1. TypeOK'
  BY CgiAssumption DEF CgiInv, TypeOK, Conserved, Alive, Read
<1>2. Conserved'
  BY CgiAssumption DEF CgiInv, TypeOK, Conserved, ChildOfRequest, ReadsAfterWait, Read
<1>3. ChildOfRequest'
  BY CgiAssumption DEF CgiInv, TypeOK, Conserved, ChildOfRequest, Alive, Forked, Read
<1>4. ReadsAfterWait'
  BY CgiAssumption DEF CgiInv, TypeOK, Conserved, ChildOfRequest, ReadsAfterWait, Alive, Forked, Read
<1>5. Children' = Children /\ Waiting' = Waiting /\ zombies' = zombies
  BY DEF CgiInv, TypeOK, ChildOfRequest, Children, Waiting, Alive, Read
<1>6. QED
  BY <1>1, <1>2, <1>3, <1>4, <1>5, BalanceKept DEF CgiInv

LEMMA ReadEofKeeps ==
  ASSUME CgiInv, NEW w \in Workers, ReadEof(w)
  PROVE  CgiInv'
<1>1. TypeOK'
  BY CgiAssumption DEF CgiInv, TypeOK, Conserved, Alive, ReadEof, Goto
<1>2. Conserved'
  BY CgiAssumption DEF CgiInv, TypeOK, Conserved, ChildOfRequest, ReadsAfterWait, ReadEof, Goto
<1>3. ChildOfRequest'
  BY CgiAssumption DEF CgiInv, TypeOK, Conserved, ChildOfRequest, Alive, Forked, ReadEof, Goto
<1>4. ReadsAfterWait'
  BY CgiAssumption DEF CgiInv, TypeOK, Conserved, ChildOfRequest, ReadsAfterWait, Alive, Forked, ReadEof, Goto
<1>5. Children' = Children /\ Waiting' = Waiting /\ zombies' = zombies
  BY DEF CgiInv, TypeOK, ChildOfRequest, Children, Waiting, Alive, ReadEof, Goto
<1>6. QED
  BY <1>1, <1>2, <1>3, <1>4, <1>5, BalanceKept DEF CgiInv

LEMMA ReplyKeeps ==
  ASSUME CgiInv, NEW w \in Workers, Reply(w)
  PROVE  CgiInv'
<1>1. TypeOK'
  BY CgiAssumption DEF CgiInv, TypeOK, Conserved, Alive, Reply, Goto
<1>2. Conserved'
  BY CgiAssumption DEF CgiInv, TypeOK, Conserved, ChildOfRequest, ReadsAfterWait, Reply, Goto
<1>3. ChildOfRequest'
  BY CgiAssumption DEF CgiInv, TypeOK, Conserved, ChildOfRequest, Alive, Forked, Reply, Goto
<1>4. ReadsAfterWait'
  BY CgiAssumption DEF CgiInv, TypeOK, Conserved, ChildOfRequest, ReadsAfterWait, Alive, Forked, Reply, Goto
<1>5. Children' = Children /\ Waiting' = Waiting /\ zombies' = zombies
  BY DEF CgiInv, TypeOK, ChildOfRequest, Children, Waiting, Alive, Reply, Goto
<1>6. QED
  BY <1>1, <1>2, <1>3, <1>4, <1>5, BalanceKept DEF CgiInv

LEMMA ExecKeeps ==
  ASSUME CgiInv, NEW w \in Workers, Exec(w)
  PROVE  CgiInv'
<1>1. TypeOK'
  BY CgiAssumption DEF CgiInv, TypeOK, Conserved, Alive, Exec, Become
<1>2. Conserved'
  BY CgiAssumption DEF CgiInv, TypeOK, Conserved, ChildOfRequest, ReadsAfterWait, Exec, Become
<1>3. ChildOfRequest'
  BY CgiAssumption DEF CgiInv, TypeOK, Conserved, ChildOfRequest, Alive, Forked, Exec, Become
<1>4. ReadsAfterWait'
  BY CgiAssumption DEF CgiInv, TypeOK, Conserved, ChildOfRequest, ReadsAfterWait, Alive, Forked, Exec, Become
<1>5. Children' = Children /\ Waiting' = Waiting /\ zombies' = zombies
  BY DEF CgiInv, TypeOK, ChildOfRequest, Children, Waiting, Alive, Exec, Become
<1>6. QED
  BY <1>1, <1>2, <1>3, <1>4, <1>5, BalanceKept DEF CgiInv

LEMMA ExecFailsKeeps ==
  ASSUME CgiInv, NEW w \in Workers, ExecFails(w)
  PROVE  CgiInv'
<1>1. TypeOK'
  BY CgiAssumption DEF CgiInv, TypeOK, Conserved, Alive, ExecFails, Become
<1>2. Conserved'
  BY CgiAssumption DEF CgiInv, TypeOK, Conserved, ChildOfRequest, ReadsAfterWait, ExecFails, Become
<1>3. ChildOfRequest'
  BY CgiAssumption DEF CgiInv, TypeOK, Conserved, ChildOfRequest, Alive, Forked, ExecFails, Become
<1>4. ReadsAfterWait'
  BY CgiAssumption DEF CgiInv, TypeOK, Conserved, ChildOfRequest, ReadsAfterWait, Alive, Forked, ExecFails, Become
<1>5. Children' = Children /\ Waiting' = Waiting /\ zombies' = zombies
  BY DEF CgiInv, TypeOK, ChildOfRequest, Children, Waiting, Alive, ExecFails, Become
<1>6. QED
  BY <1>1, <1>2, <1>3, <1>4, <1>5, BalanceKept DEF CgiInv

LEMMA WriteKeeps ==
  ASSUME CgiInv, NEW w \in Workers, Write(w)
  PROVE  CgiInv'
<1>1. TypeOK'
  BY CgiAssumption DEF CgiInv, TypeOK, Conserved, Alive, Write
<1>2. Conserved'
  BY CgiAssumption DEF CgiInv, TypeOK, Conserved, ChildOfRequest, ReadsAfterWait, Write
<1>3. ChildOfRequest'
  BY CgiAssumption DEF CgiInv, TypeOK, Conserved, ChildOfRequest, Alive, Forked, Write
<1>4. ReadsAfterWait'
  BY CgiAssumption DEF CgiInv, TypeOK, Conserved, ChildOfRequest, ReadsAfterWait, Alive, Forked, Write
<1>5. Children' = Children /\ Waiting' = Waiting /\ zombies' = zombies
  BY DEF CgiInv, TypeOK, ChildOfRequest, Children, Waiting, Alive, Write
<1>6. QED
  BY <1>1, <1>2, <1>3, <1>4, <1>5, BalanceKept DEF CgiInv

LEMMA ExitKeeps ==
  ASSUME CgiInv, NEW w \in Workers, Exit(w)
  PROVE  CgiInv'
<1>1. TypeOK'
  BY CgiAssumption DEF CgiInv, TypeOK, Conserved, Alive, Exit, Become
<1>2. Conserved'
  BY CgiAssumption DEF CgiInv, TypeOK, Conserved, ChildOfRequest, ReadsAfterWait, Exit, Become
<1>3. ChildOfRequest'
  BY CgiAssumption DEF CgiInv, TypeOK, Conserved, ChildOfRequest, Alive, Forked, Exit, Become
<1>4. ReadsAfterWait'
  BY CgiAssumption DEF CgiInv, TypeOK, Conserved, ChildOfRequest, ReadsAfterWait, Alive, Forked, Exit, Become
<1>5. Waiting' = Waiting
  BY DEF Waiting, Exit
<1>6. Children' = Children \ {w} /\ w \in Children
  BY DEF CgiInv, TypeOK, Children, Alive, Exit, Become
<1>7. Cardinality(Children') = Cardinality(Children) - 1
  BY <1>6, CountsFinite, FS_RemoveElement
<1>8. ReapBalance'
  BY <1>5, <1>7, CountsFinite DEF CgiInv, TypeOK, ReapBalance, Exit
<1>9. QED
  BY <1>1, <1>2, <1>3, <1>4, <1>8 DEF CgiInv

LEMMA RogueDiesKeeps ==
  ASSUME CgiInv, NEW w \in Workers, RogueDies(w)
  PROVE  CgiInv'
<1>1. TypeOK'
  BY CgiAssumption DEF CgiInv, TypeOK, Conserved, Alive, RogueDies, Become
<1>2. Conserved'
  BY CgiAssumption DEF CgiInv, TypeOK, Conserved, ChildOfRequest, ReadsAfterWait, RogueDies, Become
<1>3. ChildOfRequest'
  BY CgiAssumption DEF CgiInv, TypeOK, Conserved, ChildOfRequest, Alive, Forked, RogueDies, Become
<1>4. ReadsAfterWait'
  BY CgiAssumption DEF CgiInv, TypeOK, Conserved, ChildOfRequest, ReadsAfterWait, Alive, Forked, RogueDies, Become
<1>5. Waiting' = Waiting
  BY DEF Waiting, RogueDies
<1>6. Children' = Children \ {w} /\ w \in Children
  BY DEF CgiInv, TypeOK, Children, Alive, RogueDies, Become
<1>7. Cardinality(Children') = Cardinality(Children) - 1
  BY <1>6, CountsFinite, FS_RemoveElement
<1>8. ReapBalance'
  BY <1>5, <1>7, CountsFinite DEF CgiInv, TypeOK, ReapBalance, RogueDies
<1>9. QED
  BY <1>1, <1>2, <1>3, <1>4, <1>8 DEF CgiInv

LEMMA InitInv == Init => CgiInv
<1>1. SUFFICES ASSUME Init PROVE CgiInv
  OBVIOUS
<1>2. Children = {} /\ Waiting = {}
  BY <1>1 DEF Init, Children, Waiting, Alive
<1>3. ReapBalance
  BY <1>1, <1>2, FS_EmptySet DEF ReapBalance, Init
<1>4. TypeOK /\ Conserved /\ ChildOfRequest /\ ReadsAfterWait
  BY <1>1, CgiAssumption DEF Init, TypeOK, Conserved, ChildOfRequest, ReadsAfterWait, Alive, Forked
<1>5. QED
  BY <1>3, <1>4 DEF CgiInv

LEMMA StutterKeeps == CgiInv /\ UNCHANGED vars => CgiInv'
BY DEF CgiInv, TypeOK, Conserved, ChildOfRequest, ReadsAfterWait, ReapBalance, Children, Waiting, vars

LEMMA NextKeeps == CgiInv /\ [Next]_vars => CgiInv'
<1>1. SUFFICES ASSUME CgiInv, Next PROVE CgiInv'
  BY StutterKeeps
<1>2. PICK w \in Workers : Request(w) \/ Serve(w) \/ Program(w) \/ RogueDies(w)
  BY <1>1 DEF Next
<1>3. CASE Request(w)
  BY <1>1, <1>3, MakePipeKeeps DEF Request
<1>4. CASE Serve(w)
  BY <1>1, <1>4, ForkKeeps, ForkFailsKeeps, CloseWriteEndKeeps, WaitKeeps, ReadKeeps, ReadEofKeeps, ReplyKeeps DEF Serve
<1>5. CASE Program(w)
  BY <1>1, <1>5, ExecKeeps, ExecFailsKeeps, WriteKeeps, ExitKeeps DEF Program
<1>6. CASE RogueDies(w)
  BY <1>1, <1>6, RogueDiesKeeps
<1>7. QED
  BY <1>2, <1>3, <1>4, <1>5, <1>6

\* The invariant holds in every state.
THEOREM InvHolds == Spec => []CgiInv
<1>1. QED
  BY InitInv, NextKeeps, PTL DEF Spec

\* A step keeps the write ends in living hands, with the invariant.
LEMMA HoldersKeep == CgiInv /\ HoldersLive /\ [Next]_vars => HoldersLive'
<1> SUFFICES ASSUME CgiInv, HoldersLive, [Next]_vars PROVE HoldersLive'
  OBVIOUS
<1> USE CgiAssumption DEF CgiInv, TypeOK, HoldersLive, Children, Alive, Goto, Become
<1>1. ASSUME NEW w \in Workers, NEW n \in 0 .. MaxOut, MakePipe(w, n) PROVE HoldersLive'
  BY <1>1 DEF MakePipe
<1>2. ASSUME NEW w \in Workers, Fork(w) PROVE HoldersLive'
  BY <1>2 DEF Fork
<1>3. ASSUME NEW w \in Workers, ForkFails(w) PROVE HoldersLive'
  BY <1>3 DEF ForkFails
<1>4. ASSUME NEW w \in Workers, CloseWriteEnd(w) PROVE HoldersLive'
  BY <1>4 DEF CloseWriteEnd
<1>5. ASSUME NEW w \in Workers, Wait(w) \/ Read(w) \/ ReadEof(w) \/ Reply(w) PROVE HoldersLive'
  BY <1>5 DEF Wait, Read, ReadEof, Reply
<1>6. ASSUME NEW w \in Workers, Exec(w) \/ ExecFails(w) \/ Write(w) PROVE HoldersLive'
  BY <1>6 DEF Exec, ExecFails, Write
<1>7. ASSUME NEW w \in Workers, Exit(w) \/ RogueDies(w) PROVE HoldersLive'
  BY <1>7 DEF Exit, RogueDies
<1>8. CASE UNCHANGED vars
  BY <1>8 DEF vars
<1>9. QED
  BY <1>1, <1>2, <1>3, <1>4, <1>5, <1>6, <1>7, <1>8 DEF Next, Request, Serve, Program

\* A write end is never left in the hands of a child that has ended.
THEOREM HoldersHold == Spec => []HoldersLive
<1>1. Init => HoldersLive
  BY DEF Init, HoldersLive
<1>2. QED
  BY <1>1, InvHolds, HoldersKeep, PTL DEF Spec

-----------------------------------------------------------------------------
(***************************************************************************)
(* The theorems.                                                           *)
(***************************************************************************)

\* The type invariant.
THEOREM TypeCorrect == Spec => []TypeOK
<1>1. CgiInv => TypeOK
  BY DEF CgiInv
<1>2. QED
  BY <1>1, InvHolds, PTL

\* A worker in Wait(nullptr) has a child to wait for, whichever children the
\* other workers have taken.
THEOREM ChildForEachWait == Spec => []ReapBalance
<1>1. CgiInv => ReapBalance
  BY DEF CgiInv
<1>2. QED
  BY <1>1, InvHolds, PTL

\* The loop in baseHandle does not stop before the end of the program's output.
THEOREM NoOutputMissed == Spec => []OutputComplete
<1>1. ASSUME CgiInv, NEW w \in Workers, pc[w] = "reply"
      PROVE  got[w] = size[w]
  <2>1. prog[w] = "exited" /\ pipe[w] = 0 /\ produced[w] = size[w] /\ produced[w] = pipe[w] + got[w]
    BY <1>1 DEF CgiInv, ChildOfRequest, Conserved, Forked
  <2>2. got[w] \in Nat
    BY <1>1, CgiAssumption DEF CgiInv, TypeOK
  <2>3. QED
    BY <2>1, <2>2
<1>2. CgiInv => OutputComplete
  BY <1>1 DEF OutputComplete
<1>3. QED
  BY <1>2, InvHolds, PTL

\* One read takes the output of a program that had ended before Wait returned.
THEOREM InTimeReadOnce == Spec => []OneReadIfInTime
<1>1. CgiInv => OneReadIfInTime
  BY DEF CgiInv, ReadsAfterWait, OneReadIfInTime
<1>2. QED
  BY <1>1, InvHolds, PTL

\* At a standstill without rogues a program that runs is jammed: only its worker
\* reads its pipe, and waits.
LEMMA RunningIsJammed ==
  ASSUME CgiInv, Standstill, NEW w \in Workers, prog[w] = "running"
  PROVE  w \in Jammed
<1>1. produced[w] < size[w] /\ pipe[w] = Cap /\ Blocked(w)
  BY DEF Standstill, Halted
<1>2. pc[w] = "wait"
  <2>1. pipe[w] # 0 /\ pc[w] # "idle"
    BY <1>1, CgiAssumption DEF CgiInv, ChildOfRequest, Alive
  <2>2. QED
    BY <1>1, <2>1 DEF Blocked
<1>3. size[w] > Cap
  <2>1. produced[w] = pipe[w] + got[w]
    BY DEF CgiInv, Conserved
  <2>2. got[w] \in Nat /\ size[w] \in Nat /\ produced[w] \in Nat /\ Cap \in Nat
    BY CgiAssumption DEF CgiInv, TypeOK
  <2>3. QED
    BY <1>1, <2>1, <2>2
<1>4. QED
  BY <1>1, <1>2, <1>3 DEF Jammed

\* Nobody waits while no child runs and none has ended.
LEMMA NobodyWaits ==
  ASSUME CgiInv, Children = {}, NEW w \in Workers, zombies = 0
  PROVE  pc[w] # "wait"
<1>1. Cardinality(Children) = 0
  BY FS_EmptySet
<1>2. Cardinality(Waiting) = 0
  BY <1>1, CountsFinite DEF CgiInv, ReapBalance
<1>3. Waiting = {}
  BY <1>2, CountsFinite, FS_EmptySet
<1>4. QED
  BY <1>3 DEF Waiting

\* However many workers there are, whatever they inherit from each other and
\* whichever children their Wait returns for: if nothing moves, an exec failed
\* or a program has jammed its pipe, and the rest wait for it.  (Jammed is the
\* deadlock of the comment at HttpServer.cpp:104.)
THEOREM StandstillExplained == Spec => []StandstillHasReason
<1>1. CgiInv /\ HoldersLive => StandstillHasReason
  <2> SUFFICES ASSUME CgiInv, HoldersLive, Standstill, \A w \in Workers : prog[w] # "rogue"
               PROVE  /\ Jammed # {}
                      /\ \A w \in Busy : pc[w] = "wait" \/ (pc[w] = "read" /\ writers[w] \cap Jammed # {})
    BY DEF StandstillHasReason
  <2>1. Children \subseteq Jammed
    BY RunningIsJammed DEF Standstill, Halted, Children, Alive
  <2>2. ASSUME NEW w \in Busy PROVE pc[w] = "wait" \/ (pc[w] = "read" /\ writers[w] \cap Jammed # {})
    <3>1. w \in Workers /\ (pc[w] = "wait" \/ (pc[w] = "read" /\ writers[w] # {}))
      BY DEF Busy, Standstill, Blocked
    <3>2. pc[w] = "read" => writers[w] \subseteq Children
      BY <3>1 DEF HoldersLive
    <3>3. QED
      BY <2>1, <3>1, <3>2
  <2>3. Jammed # {}
    <3> SUFFICES ASSUME Jammed = {} PROVE FALSE
      OBVIOUS
    <3>1. PICK w \in Busy : TRUE
      BY DEF Standstill
    <3>2. w \in Workers /\ pc[w] = "wait" /\ Children = {}
      BY <2>1, <2>2 DEF Busy
    <3>3. zombies = 0
      BY <3>2 DEF Standstill, Blocked
    <3>4. QED
      BY <3>2, <3>3, NobodyWaits
  <2>4. QED
    BY <2>2, <2>3
<1>2. QED
  BY <1>1, InvHolds, HoldersHold, PTL

-----------------------------------------------------------------------------
(***************************************************************************)
(* When it cannot happen: no exec fails and every output fits the pipe.    *)
(***************************************************************************)
NoRogue == \A w \in Workers : prog[w] # "rogue"

LEMMA NobodyTurnsRogue ==
  ASSUME ~ ExecMayFail, TypeOK, NoRogue, [Next]_vars
  PROVE  NoRogue'
<1> USE DEF NoRogue, Become, TypeOK
<1>1. ASSUME NEW w \in Workers, NEW to, to # "rogue", prog' = [prog EXCEPT ![w] = to]
      PROVE  NoRogue'
  BY <1>1
<1>2. ASSUME NEW w \in Workers, Serve(w)
      PROVE  prog' = prog \/ prog' = [prog EXCEPT ![w] = "forked"]
  BY <1>2 DEF Serve, Fork, ForkFails, CloseWriteEnd, Wait, Read, ReadEof, Reply
<1>3. ASSUME NEW w \in Workers, Program(w)
      PROVE  prog' = prog \/ prog' = [prog EXCEPT ![w] = "running"]
                          \/ prog' = [prog EXCEPT ![w] = "exited"]
  BY <1>3 DEF Program, Exec, ExecFails, Write, Exit
<1>4. ASSUME NEW w \in Workers, Request(w) PROVE prog' = prog
  BY <1>4 DEF Request, MakePipe
<1>5. ASSUME NEW w \in Workers, RogueDies(w) PROVE FALSE
  BY <1>5 DEF RogueDies
<1>6. CASE prog' = prog
  BY <1>6
<1>7. CASE UNCHANGED vars
  BY <1>6, <1>7 DEF vars
<1>8. QED
  BY <1>1, <1>2, <1>3, <1>4, <1>5, <1>6, <1>7 DEF Next

\* The other side of the deadlock: as long as no exec fails and every program
\* writes no more than a pipe holds, workers that serve CGI requests never come
\* to a standstill, whichever child each Wait returns for and whatever the
\* children inherit.
THEOREM OutputsThatFitAreServed ==
  ASSUME ~ ExecMayFail, MaxOut <= Cap
  PROVE  Spec => []~ Standstill
<1>1. Init => NoRogue
  BY DEF Init, NoRogue
<1>2. TypeOK /\ NoRogue /\ [Next]_vars => NoRogue'
  BY NobodyTurnsRogue
<1>3. TypeOK /\ NoRogue /\ StandstillHasReason => ~ Standstill
  <2> SUFFICES ASSUME TypeOK, NoRogue, NEW w \in Jammed PROVE FALSE
    BY DEF StandstillHasReason, NoRogue
  <2>1. size[w] \in 0 .. MaxOut /\ size[w] > Cap
    BY DEF Jammed, TypeOK
  <2>2. QED
    BY <2>1, CgiAssumption
<1>4. QED
  BY <1>1, <1>2, <1>3, TypeCorrect, StandstillExplained, PTL DEF Spec

-----------------------------------------------------------------------------
(***************************************************************************)
(* How long a request can last: the steps left to its worker and to its    *)
(* child.                                                                  *)
(***************************************************************************)
StepsOf(w) ==
  CASE pc[w] = "fork" -> 9
    [] pc[w] = "close" -> 4
    [] pc[w] = "wait" -> 3
    [] pc[w] = "read" -> 2
    [] pc[w] = "reply" -> 1
    [] OTHER -> 0

StepsOfChild(w) ==
  CASE prog[w] = "forked" -> 3
    [] prog[w] = "running" -> 2
    [] prog[w] = "rogue" -> 1
    [] OTHER -> 0

StepsLeft(w) == StepsOf(w) + StepsOfChild(w) + (size[w] - produced[w]) + (size[w] - got[w])

LEMMA StepsAre ==
  ASSUME CgiInv, NEW w \in Workers
  PROVE  /\ StepsOf(w) \in 0 .. 9 /\ StepsOfChild(w) \in 0 .. 3
         /\ size[w] \in 0 .. MaxOut /\ produced[w] \in 0 .. size[w] /\ got[w] \in 0 .. size[w]
         /\ MaxOut \in Nat
<1>1. StepsOf(w) \in 0 .. 9 /\ StepsOfChild(w) \in 0 .. 3
  BY DEF StepsOf, StepsOfChild
<1>2. size[w] \in 0 .. MaxOut /\ produced[w] \in 0 .. MaxOut /\ got[w] \in 0 .. MaxOut
  BY DEF CgiInv, TypeOK
<1>3. MaxOut \in Nat /\ Cap \in Nat
  BY CgiAssumption
<1>4. pipe[w] \in 0 .. Cap /\ produced[w] = pipe[w] + got[w] /\ produced[w] <= size[w]
  BY DEF CgiInv, Conserved, TypeOK
<1>5. QED
  BY <1>1, <1>2, <1>3, <1>4

LEMMA FinitelyMany ==
  ASSUME CgiInv, NEW w \in Workers
  PROVE  StepsLeft(w) \in 0 .. 2 * MaxOut + 12
BY StepsAre DEF StepsLeft

StepsInRange ==
  \A w \in Workers :
    /\ StepsOf(w) \in 0 .. 9 /\ StepsOfChild(w) \in 0 .. 3
    /\ size[w] \in 0 .. MaxOut /\ produced[w] \in 0 .. size[w] /\ got[w] \in 0 .. size[w]

LEMMA NextStepsAre == CgiInv' => StepsInRange'
<1>1. CgiInv => StepsInRange
  BY StepsAre DEF StepsInRange
<1>2. QED
  BY <1>1, PTL

LEMMA LessTogether ==
  ASSUME NEW a \in Int, NEW b \in Int, NEW c \in Int, NEW d \in Int,
         NEW b2 \in Int, NEW c2 \in Int, NEW d2 \in Int,
         b2 < b, c2 <= c, d2 <= d
  PROVE  a + b2 + c2 + d2 < a + b + c + d
OBVIOUS

LEMMA ServeNearer ==
  ASSUME CgiInv, CgiInv', NEW w \in Workers, Serve(w)
  PROVE  StepsLeft(w)' < StepsLeft(w)
<1>0. /\ StepsOf(w) \in 0 .. 9 /\ StepsOfChild(w) \in 0 .. 3
      /\ StepsOf(w)' \in 0 .. 9 /\ StepsOfChild(w)' \in 0 .. 3
      /\ size[w] \in Nat /\ produced[w] \in Nat /\ got[w] \in Nat /\ pipe[w] \in Nat
  BY StepsAre, NextStepsAre, CgiAssumption DEF StepsInRange, CgiInv, TypeOK
<1>1. pc \in [Workers -> Stages] /\ prog \in [Workers -> Alive \cup {"none", "exited"}]
      /\ got \in [Workers -> 0 .. MaxOut]
  BY DEF CgiInv, TypeOK, Stages
<1>2. CASE Fork(w)
  <2>1. /\ pc[w] = "fork" /\ pc'[w] = "close" /\ prog'[w] = "forked"
        /\ UNCHANGED <<size, produced, got>>
    BY <1>1, <1>2 DEF Fork, Goto
  <2>2. StepsOf(w) = 9 /\ StepsOf(w)' = 4 /\ StepsOfChild(w)' = 3
    BY <2>1 DEF StepsOf, StepsOfChild
  <2>3. QED
    BY <1>0, <2>1, <2>2 DEF StepsLeft
<1>3. CASE ForkFails(w) \/ CloseWriteEnd(w) \/ Wait(w) \/ ReadEof(w) \/ Reply(w)
  <2>1. /\ UNCHANGED <<prog, size, produced, got>>
        /\ \/ pc[w] = "fork" /\ pc'[w] = "idle"
           \/ pc[w] = "close" /\ pc'[w] = "wait"
           \/ pc[w] = "wait" /\ pc'[w] = "read"
           \/ pc[w] = "read" /\ pc'[w] = "reply"
           \/ pc[w] = "reply" /\ pc'[w] = "idle"
    BY <1>1, <1>3 DEF ForkFails, CloseWriteEnd, Wait, ReadEof, Reply, Goto
  <2>2. StepsOf(w)' < StepsOf(w)
    BY <2>1 DEF StepsOf
  <2>3. StepsOfChild(w)' = StepsOfChild(w)
    BY <2>1 DEF StepsOfChild
  <2>4. QED
    BY <1>0, <2>1, <2>2, <2>3 DEF StepsLeft
<1>4. CASE Read(w)
  <2>1. /\ UNCHANGED <<pc, prog, size, produced>> /\ pipe[w] > 0
        /\ got'[w] = got[w] + pipe[w]
    BY <1>1, <1>4 DEF Read
  <2>2. StepsOf(w)' = StepsOf(w) /\ StepsOfChild(w)' = StepsOfChild(w)
    BY <2>1 DEF StepsOf, StepsOfChild
  <2>3. QED
    BY <1>0, <2>1, <2>2 DEF StepsLeft
<1>5. QED
  BY <1>2, <1>3, <1>4 DEF Serve

LEMMA ProgramNearer ==
  ASSUME CgiInv, CgiInv', NEW w \in Workers, Program(w) \/ RogueDies(w)
  PROVE  StepsLeft(w)' < StepsLeft(w)
<1>0. /\ StepsOf(w) \in 0 .. 9 /\ StepsOfChild(w) \in 0 .. 3
      /\ StepsOf(w)' \in 0 .. 9 /\ StepsOfChild(w)' \in 0 .. 3
      /\ size[w] \in Nat /\ produced[w] \in 0 .. size[w] /\ got[w] \in 0 .. size[w]
      /\ size'[w] \in Nat /\ produced'[w] \in 0 .. size'[w] /\ got'[w] \in 0 .. size'[w]
  BY StepsAre, NextStepsAre, CgiAssumption DEF StepsInRange
<1>1. /\ prog \in [Workers -> Alive \cup {"none", "exited"}]
      /\ size \in [Workers -> 0 .. MaxOut] /\ produced \in [Workers -> 0 .. MaxOut]
  BY DEF CgiInv, TypeOK
<1>2. CASE Write(w)
  <2>1. UNCHANGED <<pc, prog, size, got>> /\ produced'[w] = produced[w] + 1
    BY <1>1, <1>2 DEF Write
  <2>2. StepsOf(w)' = StepsOf(w) /\ StepsOfChild(w)' = StepsOfChild(w)
    BY <2>1 DEF StepsOf, StepsOfChild
  <2>3. QED
    BY <1>0, <2>1, <2>2 DEF StepsLeft
<1>3. CASE Exec(w) \/ ExecFails(w) \/ Exit(w) \/ RogueDies(w)
  <2>1. /\ UNCHANGED <<pc, produced, got>>
        /\ size'[w] = size[w] \/ size'[w] = 0
        /\ \/ prog[w] = "forked" /\ prog'[w] = "running"
           \/ prog[w] = "forked" /\ prog'[w] = "rogue"
           \/ prog[w] = "running" /\ prog'[w] = "exited"
           \/ prog[w] = "rogue" /\ prog'[w] = "exited"
    BY <1>1, <1>3 DEF Exec, ExecFails, Exit, RogueDies, Become
  <2>2. StepsOf(w)' = StepsOf(w)
    BY <2>1 DEF StepsOf
  <2>3. StepsOfChild(w)' < StepsOfChild(w)
    BY <2>1 DEF StepsOfChild
  <2>4. produced'[w] = produced[w] /\ got'[w] = got[w] /\ size'[w] <= size[w]
    BY <1>0, <2>1
  <2>5. /\ size'[w] - produced'[w] <= size[w] - produced[w]
        /\ size'[w] - got'[w] <= size[w] - got[w]
    BY <1>0, <2>4
  <2>6. /\ StepsOf(w) \in Int /\ StepsOfChild(w) \in Int /\ StepsOfChild(w)' \in Int
        /\ size[w] - produced[w] \in Int /\ size'[w] - produced'[w] \in Int
        /\ size[w] - got[w] \in Int /\ size'[w] - got'[w] \in Int
    BY <1>0
  <2>7. StepsOf(w) + StepsOfChild(w)' + (size'[w] - produced'[w]) + (size'[w] - got'[w])
          < StepsOf(w) + StepsOfChild(w) + (size[w] - produced[w]) + (size[w] - got[w])
    BY <2>3, <2>5, <2>6, LessTogether
  <2>8. QED
    BY <2>2, <2>7 DEF StepsLeft
<1>4. QED
  BY <1>2, <1>3 DEF Program

\* What other workers and their programs do takes nothing from a request and
\* adds nothing to it.
LEMMA OthersAside ==
  ASSUME CgiInv, NEW v \in Workers, NEW w \in Workers, v # w,
         Request(v) \/ Serve(v) \/ Program(v) \/ RogueDies(v)
  PROVE  StepsLeft(w)' = StepsLeft(w)
<1>1. /\ pc'[w] = pc[w] /\ prog'[w] = prog[w] /\ size'[w] = size[w]
      /\ produced'[w] = produced[w] /\ got'[w] = got[w]
  <2>1. CASE Request(v)
    BY <2>1 DEF Request, MakePipe, Goto, CgiInv, TypeOK
  <2>2. CASE Serve(v)
    BY <2>2 DEF Serve, Fork, ForkFails, CloseWriteEnd, Wait, Read, ReadEof, Reply, Goto,
                CgiInv, TypeOK
  <2>3. CASE Program(v) \/ RogueDies(v)
    BY <2>3 DEF Program, Exec, ExecFails, Write, Exit, RogueDies, Become, CgiInv, TypeOK
  <2>4. QED
    BY <2>1, <2>2, <2>3
<1>2. QED
  BY <1>1 DEF StepsLeft, StepsOf, StepsOfChild

RequestShortens ==
  \A w \in Workers :
    /\ Serve(w) \/ Program(w) \/ RogueDies(w) => StepsLeft(w)' < StepsLeft(w)
    /\ StepsLeft(w)' > StepsLeft(w) => Request(w)

\* A CGI request is over after at most 2 * MaxOut + 12 steps of its worker and
\* its program, in any interleaving with the others': each brings it nearer to
\* its end, and only its worker's next request adds any.  So requests fail to
\* end only by waiting, as StandstillExplained says.
THEOREM RequestIsFinite ==
  Spec => /\ [](\A w \in Workers : StepsLeft(w) \in 0 .. 2 * MaxOut + 12)
          /\ [][RequestShortens]_vars
<1>1. CgiInv => \A w \in Workers : StepsLeft(w) \in 0 .. 2 * MaxOut + 12
  BY FinitelyMany
<1>2. ASSUME CgiInv, CgiInv', [Next]_vars PROVE [RequestShortens]_vars
  <2> SUFFICES ASSUME Next, NEW w \in Workers
               PROVE  /\ Serve(w) \/ Program(w) \/ RogueDies(w) => StepsLeft(w)' < StepsLeft(w)
                      /\ StepsLeft(w)' > StepsLeft(w) => Request(w)
    BY <1>2 DEF RequestShortens
  <2>1. Serve(w) \/ Program(w) \/ RogueDies(w) => StepsLeft(w)' < StepsLeft(w)
    BY <1>2, ServeNearer, ProgramNearer
  <2>2. StepsLeft(w) \in Int /\ StepsLeft(w)' \in Int
    <3>1. StepsLeft(w) \in Int
      BY <1>2, FinitelyMany, CgiAssumption
    <3>2. /\ StepsOf(w)' \in Int /\ StepsOfChild(w)' \in Int
          /\ size'[w] \in Int /\ produced'[w] \in Int /\ got'[w] \in Int
      BY <1>2, NextStepsAre, CgiAssumption DEF StepsInRange
    <3>3. StepsLeft(w)' \in Int
      BY <3>2 DEF StepsLeft
    <3>4. QED
      BY <3>1, <3>3
  <2>3. StepsLeft(w)' > StepsLeft(w) => Request(w)
    BY <1>2, <2>1, <2>2, OthersAside DEF Next
  <2>4. QED
    BY <2>1, <2>3
<1>3. QED
  BY <1>1, <1>2, InvHolds, PTL DEF Spec

=============================================================================
