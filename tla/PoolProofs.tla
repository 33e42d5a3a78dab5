----------------------------- MODULE PoolProofs -----------------------------
(***************************************************************************)
(* Proofs about Pool, for any finite sets of threads, any items and any    *)
(* buffer length: its invariants, and that it implements BoundedQueue.     *)
(***************************************************************************)
EXTENDS Pool, FiniteSetTheorems, SequenceTheorems, TLAPS

\* Every semaphore action is read as the change of the semaphore.
USE DEF P, V

Ends == PushStages \cup PopStages

-----------------------------------------------------------------------------
(***************************************************************************)
(* Arithmetic of the circular buffer.                                      *)
(***************************************************************************)
LEMMA ModSum ==
  ASSUME NEW n \in Nat \ {0}, NEW f \in 0 .. n - 1, NEW k \in 0 .. n
  PROVE  (f + k) % n = IF f + k < n THEN f + k ELSE f + k - n
OBVIOUS

LEMMA NextIndex ==
  ASSUME NEW n \in Nat \ {0}, NEW f \in 0 .. n - 1
  PROVE  (f + 1) % n = IF f + 1 < n THEN f + 1 ELSE f + 1 - n
<1>1. 1 \in 0 .. n
  OBVIOUS
<1>2. QED
  BY <1>1, ModSum

LEMMA SlotValue ==
  ASSUME TypeOK, NEW k \in 0 .. BufLen
  PROVE  /\ Slot(k) = IF front + k < BufLen THEN front + k ELSE front + k - BufLen
         /\ Slot(k) \in Index
<1>1. /\ BufLen \in Nat \ {0}  /\ front \in 0 .. BufLen - 1
  BY PoolAssumption DEF TypeOK, Index
<1>2. (front + k) % BufLen = IF front + k < BufLen THEN front + k ELSE front + k - BufLen
  BY <1>1, ModSum
<1>3. QED
  BY <1>1, <1>2 DEF Slot, Index

-----------------------------------------------------------------------------
(***************************************************************************)
(* Counting the threads at a set of stages, when one thread moves.         *)
(***************************************************************************)
LEMMA AtFinite ==
  ASSUME NEW T, IsFiniteSet(T), NEW L
  PROVE  IsFiniteSet(At(T, L)) /\ Cardinality(At(T, L)) \in Nat
BY FS_Subset, FS_CardinalityType DEF At

LEMMA CountMoves ==
  ASSUME NEW T, IsFiniteSet(T), T \subseteq Threads, NEW L,
         pc \in [Threads -> Ends],
         NEW t \in Threads, NEW from, NEW to, Goto(t, from, to)
  PROVE  Cardinality(At(T, L)') =
           Cardinality(At(T, L))
             - (IF t \in T /\ from \in L THEN 1 ELSE 0)
             + (IF t \in T /\ to \in L THEN 1 ELSE 0)
<1>0. IsFiniteSet(At(T, L)) /\ Cardinality(At(T, L)) \in Nat
  BY AtFinite
<1>1. pc[t] = from /\ \A u \in Threads : pc'[u] = IF u = t THEN to ELSE pc[u]
  BY DEF Goto
<1>2. CASE t \in T /\ to \in L
  <2>1. At(T, L)' = At(T, L) \cup {t}
    BY <1>1, <1>2 DEF At
  <2>2. t \in At(T, L) <=> from \in L
    BY <1>1, <1>2 DEF At
  <2>3. Cardinality(At(T, L) \cup {t}) =
          IF t \in At(T, L) THEN Cardinality(At(T, L)) ELSE Cardinality(At(T, L)) + 1
    BY <1>0, FS_AddElement
  <2>4. QED
    BY <1>0, <1>2, <2>1, <2>2, <2>3
<1>3. CASE t \in T /\ to \notin L
  <2>1. At(T, L)' = At(T, L) \ {t}
    BY <1>1, <1>3 DEF At
  <2>2. t \in At(T, L) <=> from \in L
    BY <1>1, <1>3 DEF At
  <2>3. Cardinality(At(T, L) \ {t}) =
          IF t \in At(T, L) THEN Cardinality(At(T, L)) - 1 ELSE Cardinality(At(T, L))
    BY <1>0, FS_RemoveElement
  <2>4. QED
    BY <1>0, <1>3, <2>1, <2>2, <2>3
<1>4. CASE t \notin T
  <2>1. At(T, L)' = At(T, L)
    BY <1>1, <1>4 DEF At
  <2>2. QED
    BY <1>0, <1>4, <2>1
<1>5. QED
  BY <1>2, <1>3, <1>4

StoringStages == {"P_mutex", "store", "advance"}
StoredStages  == {"V_mutex", "V_items"}
LoadingStages == {"P_mutex", "load", "advance"}
LoadedStages  == {"V_mutex", "V_slots"}

LEMMA PushCounts ==
  ASSUME TypeOK, NEW p \in Producers, NEW from, NEW to, Goto(p, from, to)
  PROVE  /\ Cardinality(Storing)' = Cardinality(Storing)
              - (IF from \in StoringStages THEN 1 ELSE 0) + (IF to \in StoringStages THEN 1 ELSE 0)
         /\ Cardinality(Stored)' = Cardinality(Stored)
              - (IF from \in StoredStages THEN 1 ELSE 0) + (IF to \in StoredStages THEN 1 ELSE 0)
         /\ Cardinality(Loading)' = Cardinality(Loading)
         /\ Cardinality(Loaded)' = Cardinality(Loaded)
<1>1. /\ IsFiniteSet(Producers) /\ Producers \subseteq Threads
      /\ IsFiniteSet(Consumers) /\ Consumers \subseteq Threads
      /\ p \in Threads /\ p \notin Consumers
      /\ pc \in [Threads -> Ends]
  BY PoolAssumption DEF Threads, TypeOK, Ends
<1>2. \A L : Cardinality(At(Producers, L)') = Cardinality(At(Producers, L))
        - (IF from \in L THEN 1 ELSE 0) + (IF to \in L THEN 1 ELSE 0)
  BY <1>1, CountMoves
<1>3. \A L : At(Consumers, L)' = At(Consumers, L)
  BY <1>1 DEF At, Goto
<1>4. QED
  BY <1>2, <1>3 DEF Storing, Stored, Loading, Loaded, StoringStages, StoredStages

LEMMA PopCounts ==
  ASSUME TypeOK, NEW c \in Consumers, NEW from, NEW to, Goto(c, from, to)
  PROVE  /\ Cardinality(Loading)' = Cardinality(Loading)
              - (IF from \in LoadingStages THEN 1 ELSE 0) + (IF to \in LoadingStages THEN 1 ELSE 0)
         /\ Cardinality(Loaded)' = Cardinality(Loaded)
              - (IF from \in LoadedStages THEN 1 ELSE 0) + (IF to \in LoadedStages THEN 1 ELSE 0)
         /\ Cardinality(Storing)' = Cardinality(Storing)
         /\ Cardinality(Stored)' = Cardinality(Stored)
<1>1. /\ IsFiniteSet(Producers) /\ Producers \subseteq Threads
      /\ IsFiniteSet(Consumers) /\ Consumers \subseteq Threads
      /\ c \in Threads /\ c \notin Producers
      /\ pc \in [Threads -> Ends]
  BY PoolAssumption DEF Threads, TypeOK, Ends
<1>2. \A L : Cardinality(At(Consumers, L)') = Cardinality(At(Consumers, L))
        - (IF from \in L THEN 1 ELSE 0) + (IF to \in L THEN 1 ELSE 0)
  BY <1>1, CountMoves
<1>3. \A L : At(Producers, L)' = At(Producers, L)
  BY <1>1 DEF At, Goto
<1>4. QED
  BY <1>2, <1>3 DEF Storing, Stored, Loading, Loaded, LoadingStages, LoadedStages

\* The permits bound the number of items: a thread that took a slot finds
\* room, a thread that took an item finds one.
LEMMA SizeBounds ==
  ASSUME TypeOK, slots + Cardinality(Storing) + Size + Cardinality(Loaded) = BufLen
  PROVE  /\ Cardinality(Storing) \in Nat /\ Cardinality(Stored) \in Nat
         /\ Cardinality(Loading) \in Nat /\ Cardinality(Loaded) \in Nat
         /\ Size \in 0 .. BufLen
         /\ \A p \in Producers : pc[p] \in StoringStages => Size < BufLen
         /\ \A c \in Consumers : pc[c] \in LoadingStages => Size > 0
<1>1. /\ IsFiniteSet(Storing) /\ Cardinality(Storing) \in Nat
      /\ IsFiniteSet(Stored)  /\ Cardinality(Stored) \in Nat
      /\ IsFiniteSet(Loading) /\ Cardinality(Loading) \in Nat
      /\ IsFiniteSet(Loaded)  /\ Cardinality(Loaded) \in Nat
  BY PoolAssumption, AtFinite DEF Storing, Stored, Loading, Loaded
<1>2. BufLen \in Nat /\ slots \in Nat /\ items \in Nat
  BY PoolAssumption DEF TypeOK
<1>3. Size \in 0 .. BufLen
  BY <1>1, <1>2 DEF Size
<1>4. ASSUME NEW p \in Producers, pc[p] \in StoringStages
      PROVE  Size < BufLen
  <2>1. Storing # {}
    BY <1>4 DEF Storing, At, StoringStages
  <2>2. Cardinality(Storing) # 0
    BY <1>1, <2>1, FS_EmptySet
  <2>3. QED
    BY <1>1, <1>2, <1>3, <2>2
<1>5. ASSUME NEW c \in Consumers, pc[c] \in LoadingStages
      PROVE  Size > 0
  <2>1. Loading # {}
    BY <1>5 DEF Loading, At, LoadingStages
  <2>2. Cardinality(Loading) # 0
    BY <1>1, <2>1, FS_EmptySet
  <2>3. Size = items + Cardinality(Stored) + Cardinality(Loading)
    BY DEF Size
  <2>4. QED
    BY <1>1, <1>2, <1>3, <2>2, <2>3
<1>6. QED
  BY <1>1, <1>3, <1>4, <1>5

-----------------------------------------------------------------------------
(***************************************************************************)
(* Type correctness and mutual exclusion.                                  *)
(***************************************************************************)

\* TypeOK needs no strengthening: semaphores are only decremented when
\* positive, indices are reduced modulo BufLen.
LEMMA TypeStep == TypeOK /\ [Next]_vars => TypeOK'
<1> SUFFICES ASSUME TypeOK, [Next]_vars
             PROVE  TypeOK'
  OBVIOUS
<1> USE PoolAssumption DEF TypeOK, Threads, PushStages, PopStages, Index, Goto
<1>1. ASSUME NEW p \in Producers, PushStep(p) \/ \E v \in Items : CallPush(p, v)
      PROVE  TypeOK'
  <2>1. CASE \E v \in Items : CallPush(p, v)
    BY <2>1 DEF CallPush
  <2>2. CASE PushPSlots(p)
    BY <2>2 DEF PushPSlots
  <2>3. CASE PushPMutex(p)
    BY <2>3 DEF PushPMutex
  <2>4. CASE PushStore(p)
    BY <2>4 DEF PushStore
  <2>5. CASE PushAdvance(p)
    BY <2>5 DEF PushAdvance
  <2>6. CASE PushVMutex(p)
    BY <2>6 DEF PushVMutex
  <2>7. CASE PushVItems(p)
    BY <2>7 DEF PushVItems
  <2>8. QED
    BY <1>1, <2>1, <2>2, <2>3, <2>4, <2>5, <2>6, <2>7 DEF PushStep
<1>2. ASSUME NEW c \in Consumers, PopStep(c)
      PROVE  TypeOK'
  <2>1. CASE CallPop(c)
    BY <2>1 DEF CallPop
  <2>2. CASE PopPItems(c)
    BY <2>2 DEF PopPItems
  <2>3. CASE PopPMutex(c)
    BY <2>3 DEF PopPMutex
  <2>4. CASE PopLoad(c)
    BY <2>4 DEF PopLoad
  <2>5. CASE PopAdvance(c)
    BY <2>5 DEF PopAdvance
  <2>6. CASE PopVMutex(c)
    BY <2>6 DEF PopVMutex
  <2>7. CASE PopVSlots(c)
    BY <2>7 DEF PopVSlots
  <2>8. QED
    BY <1>2, <2>1, <2>2, <2>3, <2>4, <2>5, <2>6, <2>7 DEF PopStep
<1>3. CASE UNCHANGED vars
  BY <1>3 DEF vars
<1>4. QED
  BY <1>1, <1>2, <1>3 DEF Next

LEMMA InitType == Init => TypeOK
BY PoolAssumption DEF Init, TypeOK, Threads, PushStages, PopStages, Index

\* The indices stay inside the buffer and no semaphore goes negative, for any
\* number of threads and any buffer length.
THEOREM TypeCorrect == Spec => []TypeOK
BY InitType, TypeStep, PTL DEF Spec

\* Only P_mutex lets a thread into the critical section, and only V_mutex
\* lets it out.
LEMMA MutexStep == TypeOK /\ MutualExclusion /\ [Next]_vars => MutualExclusion'
<1> SUFFICES ASSUME TypeOK, MutualExclusion, [Next]_vars
             PROVE  MutualExclusion'
  OBVIOUS
<1>1. /\ pc \in [Threads -> Ends] /\ mutex \in Nat
      /\ \A p \in Producers : p \in Threads
      /\ \A c \in Consumers : c \in Threads
  BY DEF TypeOK, Ends, Threads
<1>2. ASSUME NEW t \in Threads, NEW from, NEW to, Goto(t, from, to), UNCHANGED mutex,
             from \in {"store", "load", "advance", "V_mutex"}
               <=> to \in {"store", "load", "advance", "V_mutex"}
      PROVE  MutualExclusion'
  <2>1. \A u \in Threads : InCritical(u)' <=> InCritical(u)
    BY <1>1, <1>2 DEF InCritical, Goto
  <2>2. QED
    BY <1>2, <2>1 DEF MutualExclusion
<1>3. ASSUME NEW t \in Threads, NEW to, Goto(t, "P_mutex", to), to \in {"store", "load"},
             mutex > 0, mutex' = mutex - 1
      PROVE  MutualExclusion'
  <2>1. ~ \E u \in Threads : InCritical(u)
    BY <1>3 DEF MutualExclusion
  <2>2. \A u \in Threads : InCritical(u)' <=> u = t
    BY <1>1, <1>3, <2>1 DEF InCritical, Goto
  <2>3. mutex' = 0
    BY <1>3, <2>1 DEF MutualExclusion
  <2>4. QED
    BY <2>2, <2>3, <1>3 DEF MutualExclusion
<1>4. ASSUME NEW t \in Threads, NEW to, Goto(t, "V_mutex", to), to \in {"V_items", "V_slots"},
             mutex' = mutex + 1
      PROVE  MutualExclusion'
  <2>1. \A u \in Threads : InCritical(u) <=> u = t
    BY <1>4 DEF MutualExclusion, InCritical, Goto
  <2>2. \A u \in Threads : ~ InCritical(u)'
    BY <1>1, <1>4, <2>1 DEF InCritical, Goto
  <2>3. mutex' = 1
    BY <1>4, <2>1 DEF MutualExclusion
  <2>4. QED
    BY <2>2, <2>3 DEF MutualExclusion
<1>5. ASSUME NEW p \in Producers, PushStep(p) \/ \E v \in Items : CallPush(p, v)
      PROVE  MutualExclusion'
  <2>1. CASE \E v \in Items : CallPush(p, v)
    BY <1>1, <2>1, <1>2 DEF CallPush
  <2>2. CASE PushPSlots(p)
    BY <1>1, <2>2, <1>2 DEF PushPSlots
  <2>3. CASE PushPMutex(p)
    BY <1>1, <2>3, <1>3 DEF PushPMutex
  <2>4. CASE PushStore(p)
    BY <1>1, <2>4, <1>2 DEF PushStore
  <2>5. CASE PushAdvance(p)
    BY <1>1, <2>5, <1>2 DEF PushAdvance
  <2>6. CASE PushVMutex(p)
    BY <1>1, <2>6, <1>4 DEF PushVMutex
  <2>7. CASE PushVItems(p)
    BY <1>1, <2>7, <1>2 DEF PushVItems
  <2>8. QED
    BY <1>5, <2>1, <2>2, <2>3, <2>4, <2>5, <2>6, <2>7 DEF PushStep
<1>6. ASSUME NEW c \in Consumers, PopStep(c)
      PROVE  MutualExclusion'
  <2>1. CASE CallPop(c)
    BY <1>1, <2>1, <1>2 DEF CallPop
  <2>2. CASE PopPItems(c)
    BY <1>1, <2>2, <1>2 DEF PopPItems
  <2>3. CASE PopPMutex(c)
    BY <1>1, <2>3, <1>3 DEF PopPMutex
  <2>4. CASE PopLoad(c)
    BY <1>1, <2>4, <1>2 DEF PopLoad
  <2>5. CASE PopAdvance(c)
    BY <1>1, <2>5, <1>2 DEF PopAdvance
  <2>6. CASE PopVMutex(c)
    BY <1>1, <2>6, <1>4 DEF PopVMutex
  <2>7. CASE PopVSlots(c)
    BY <1>1, <2>7, <1>2 DEF PopVSlots
  <2>8. QED
    BY <1>6, <2>1, <2>2, <2>3, <2>4, <2>5, <2>6, <2>7 DEF PopStep
<1>7. CASE UNCHANGED vars
  BY <1>7 DEF vars, MutualExclusion, InCritical
<1>8. QED
  BY <1>5, <1>6, <1>7 DEF Next

LEMMA InitMutex == Init => MutualExclusion
BY DEF Init, MutualExclusion, InCritical

\* At most one thread is between P(&sp.mutex) and V(&sp.mutex).
THEOREM MutexHeld == Spec => []MutualExclusion
BY InitType, TypeStep, InitMutex, MutexStep, PTL DEF Spec

-----------------------------------------------------------------------------
(***************************************************************************)
(* Conservation of permits.                                                *)
(***************************************************************************)
PermitSum == slots + Cardinality(Storing) + Size + Cardinality(Loaded)

LEMMA CountTypes ==
  ASSUME TypeOK
  PROVE  /\ Cardinality(Storing) \in Nat /\ Cardinality(Stored) \in Nat
         /\ Cardinality(Loading) \in Nat /\ Cardinality(Loaded) \in Nat
         /\ slots \in Nat /\ items \in Nat /\ Size \in Nat
BY PoolAssumption, AtFinite DEF Storing, Stored, Loading, Loaded, TypeOK, Size

\* A step of push other than PushAdvance moves a permit without changing the
\* number of items.
LEMMA PushKeepsSize ==
  ASSUME TypeOK, NEW p \in Producers,
         PushStep(p) \/ \E v \in Items : CallPush(p, v), ~ PushAdvance(p)
  PROVE  /\ Size' = Size /\ PermitSum' = PermitSum
         /\ front' = front /\ rear' = rear
<1> USE DEF StoringStages, StoredStages, Size, PermitSum
<1>1. CASE \E v \in Items : CallPush(p, v)
  <2>1. Goto(p, "idle", "P_slots")
    BY <1>1 DEF CallPush
  <2>2. QED
    BY <1>1, <2>1, PushCounts, CountTypes DEF CallPush
<1>2. CASE PushPSlots(p)
  <2>1. Goto(p, "P_slots", "P_mutex")
    BY <1>2 DEF PushPSlots
  <2>2. QED
    BY <1>2, <2>1, PushCounts, CountTypes DEF PushPSlots
<1>3. CASE PushPMutex(p)
  <2>1. Goto(p, "P_mutex", "store")
    BY <1>3 DEF PushPMutex
  <2>2. QED
    BY <1>3, <2>1, PushCounts, CountTypes DEF PushPMutex
<1>4. CASE PushStore(p)
  <2>1. Goto(p, "store", "advance")
    BY <1>4 DEF PushStore
  <2>2. QED
    BY <1>4, <2>1, PushCounts, CountTypes DEF PushStore
<1>5. CASE PushVMutex(p)
  <2>1. Goto(p, "V_mutex", "V_items")
    BY <1>5 DEF PushVMutex
  <2>2. QED
    BY <1>5, <2>1, PushCounts, CountTypes DEF PushVMutex
<1>6. CASE PushVItems(p)
  <2>1. Goto(p, "V_items", "idle")
    BY <1>6 DEF PushVItems
  <2>2. QED
    BY <1>6, <2>1, PushCounts, CountTypes DEF PushVItems
<1>7. QED
  BY <1>1, <1>2, <1>3, <1>4, <1>5, <1>6 DEF PushStep

LEMMA PopKeepsSize ==
  ASSUME TypeOK, NEW c \in Consumers, PopStep(c), ~ PopAdvance(c)
  PROVE  /\ Size' = Size /\ PermitSum' = PermitSum
         /\ front' = front /\ rear' = rear
<1> USE DEF LoadingStages, LoadedStages, Size, PermitSum
<1>1. CASE CallPop(c)
  <2>1. Goto(c, "idle", "P_items")
    BY <1>1 DEF CallPop
  <2>2. QED
    BY <1>1, <2>1, PopCounts, CountTypes DEF CallPop
<1>2. CASE PopPItems(c)
  <2>1. Goto(c, "P_items", "P_mutex")
    BY <1>2 DEF PopPItems
  <2>2. QED
    BY <1>2, <2>1, PopCounts, CountTypes DEF PopPItems
<1>3. CASE PopPMutex(c)
  <2>1. Goto(c, "P_mutex", "load")
    BY <1>3 DEF PopPMutex
  <2>2. QED
    BY <1>3, <2>1, PopCounts, CountTypes DEF PopPMutex
<1>4. CASE PopLoad(c)
  <2>1. Goto(c, "load", "advance")
    BY <1>4 DEF PopLoad
  <2>2. QED
    BY <1>4, <2>1, PopCounts, CountTypes DEF PopLoad
<1>5. CASE PopVMutex(c)
  <2>1. Goto(c, "V_mutex", "V_slots")
    BY <1>5 DEF PopVMutex
  <2>2. QED
    BY <1>5, <2>1, PopCounts, CountTypes DEF PopVMutex
<1>6. CASE PopVSlots(c)
  <2>1. Goto(c, "V_slots", "idle")
    BY <1>6 DEF PopVSlots
  <2>2. QED
    BY <1>6, <2>1, PopCounts, CountTypes DEF PopVSlots
<1>7. QED
  BY <1>1, <1>2, <1>3, <1>4, <1>5, <1>6 DEF PopStep

LEMMA PushAdvanceSize ==
  ASSUME TypeOK, NEW p \in Producers, PushAdvance(p)
  PROVE  Size' = Size + 1 /\ PermitSum' = PermitSum /\ front' = front
<1>1. Goto(p, "advance", "V_mutex")
  BY DEF PushAdvance
<1>2. QED
  BY <1>1, PushCounts, CountTypes
     DEF PushAdvance, StoringStages, StoredStages, Size, PermitSum

LEMMA PopAdvanceSize ==
  ASSUME TypeOK, NEW c \in Consumers, PopAdvance(c)
  PROVE  Size' = Size - 1 /\ PermitSum' = PermitSum /\ rear' = rear
<1>1. Goto(c, "advance", "V_mutex")
  BY DEF PopAdvance
<1>2. QED
  BY <1>1, PopCounts, CountTypes
     DEF PopAdvance, LoadingStages, LoadedStages, Size, PermitSum

LEMMA PermitStep == TypeOK /\ PermitsConserved /\ [Next]_vars => PermitsConserved'
<1> SUFFICES ASSUME TypeOK, PermitsConserved, [Next]_vars
             PROVE  PermitsConserved'
  OBVIOUS
<1>0. TypeOK'
  BY TypeStep
<1>1. /\ PermitSum = BufLen /\ rear = Slot(Size)
      /\ BufLen \in Nat \ {0} /\ front \in 0 .. BufLen - 1 /\ rear \in 0 .. BufLen - 1
  BY PoolAssumption DEF PermitsConserved, PermitSum, TypeOK, Index
<1>2. /\ Size \in 0 .. BufLen
      /\ \A p \in Producers : pc[p] \in StoringStages => Size < BufLen
      /\ \A c \in Consumers : pc[c] \in LoadingStages => Size > 0
  BY <1>1, SizeBounds DEF PermitSum
<1>3. rear = IF front + Size < BufLen THEN front + Size ELSE front + Size - BufLen
  BY <1>1, <1>2, SlotValue
<1>4. ASSUME Size' = Size, PermitSum' = PermitSum, front' = front, rear' = rear
      PROVE  PermitsConserved'
  BY <1>1, <1>4 DEF PermitsConserved, PermitSum, Slot
<1>5. ASSUME NEW p \in Producers, PushAdvance(p)
      PROVE  PermitsConserved'
  <2>1. Size' = Size + 1 /\ PermitSum' = PermitSum /\ front' = front
    BY <1>5, PushAdvanceSize
  <2>2. Size < BufLen
    BY <1>2, <1>5 DEF PushAdvance, Goto, StoringStages
  <2>3. Slot(Size)' = (front + (Size + 1)) % BufLen /\ Size + 1 \in 0 .. BufLen
    BY <1>1, <1>2, <2>1, <2>2 DEF Slot
  <2>4. (front + (Size + 1)) % BufLen
          = IF front + (Size + 1) < BufLen THEN front + (Size + 1)
            ELSE front + (Size + 1) - BufLen
    BY <1>1, <2>3, ModSum
  <2>5. rear' = (rear + 1) % BufLen
    BY <1>5 DEF PushAdvance
  <2>6. (rear + 1) % BufLen = IF rear + 1 < BufLen THEN rear + 1 ELSE rear + 1 - BufLen
    BY <1>1, NextIndex
  <2>7. rear' = Slot(Size)'
    BY <1>1, <1>2, <1>3, <2>2, <2>3, <2>4, <2>5, <2>6
  <2>8. QED
    BY <1>1, <2>1, <2>7 DEF PermitsConserved, PermitSum
<1>6. ASSUME NEW c \in Consumers, PopAdvance(c)
      PROVE  PermitsConserved'
  <2>1. Size' = Size - 1 /\ PermitSum' = PermitSum /\ rear' = rear
    BY <1>6, PopAdvanceSize
  <2>2. Size > 0
    BY <1>2, <1>6 DEF PopAdvance, Goto, LoadingStages
  <2>3. front' = (front + 1) % BufLen
    BY <1>6 DEF PopAdvance
  <2>4. (front + 1) % BufLen = IF front + 1 < BufLen THEN front + 1 ELSE front + 1 - BufLen
    BY <1>1, NextIndex
  <2>5. front' \in 0 .. BufLen - 1 /\ Size - 1 \in 0 .. BufLen
    BY <1>1, <1>2, <2>2, <2>3, <2>4
  <2>6. Slot(Size)' = (front' + (Size - 1)) % BufLen
    BY <2>1 DEF Slot
  <2>7. (front' + (Size - 1)) % BufLen
          = IF front' + (Size - 1) < BufLen THEN front' + (Size - 1)
            ELSE front' + (Size - 1) - BufLen
    BY <1>1, <2>5, ModSum
  <2>8. rear' = Slot(Size)'
    BY <1>1, <1>2, <1>3, <2>1, <2>2, <2>3, <2>4, <2>6, <2>7
  <2>9. QED
    BY <1>1, <2>1, <2>8 DEF PermitsConserved, PermitSum
<1>7. CASE UNCHANGED vars
  BY <1>7, <1>4 DEF vars, PermitSum, Size, Storing, Stored, Loading, Loaded, At
<1>8. QED
  BY <1>4, <1>5, <1>6, <1>7, PushKeepsSize, PopKeepsSize DEF Next

LEMMA InitPermits == Init => PermitsConserved
<1> SUFFICES ASSUME Init PROVE PermitsConserved
  OBVIOUS
<1>1. Storing = {} /\ Stored = {} /\ Loading = {} /\ Loaded = {}
  BY DEF Init, Storing, Stored, Loading, Loaded, At, Threads
<1>2. Size = 0
  BY <1>1, FS_EmptySet DEF Init, Size
<1>3. Slot(0) = 0
  BY PoolAssumption, InitType, SlotValue DEF Init
<1>4. QED
  BY <1>1, <1>2, <1>3, FS_EmptySet, PoolAssumption DEF Init, PermitsConserved

\* Every place of the buffer is free, reserved, full or being given back; the
\* distance from front to rear is the number of items.
THEOREM PermitsAccounted == Spec => []PermitsConserved
BY InitType, TypeStep, InitPermits, PermitStep, PTL DEF Spec

-----------------------------------------------------------------------------
(***************************************************************************)
(* No item is overwritten, and items travel unchanged.                     *)
(***************************************************************************)
PoolInv == TypeOK /\ MutualExclusion /\ PermitsConserved /\ ItemsIntact

\* The facts about the indices every step below needs.
LEMMA Indices ==
  ASSUME TypeOK, PermitsConserved
  PROVE  /\ BufLen \in Nat \ {0} /\ front \in 0 .. BufLen - 1 /\ rear \in 0 .. BufLen - 1
         /\ Size \in 0 .. BufLen
         /\ \A p \in Producers : pc[p] \in StoringStages => Size < BufLen
         /\ \A c \in Consumers : pc[c] \in LoadingStages => Size > 0
         /\ rear = Slot(Size) /\ front = Slot(0)
         /\ \A k \in 0 .. BufLen : Slot(k) \in Index /\
              Slot(k) = IF front + k < BufLen THEN front + k ELSE front + k - BufLen
<1>1. BufLen \in Nat \ {0} /\ front \in 0 .. BufLen - 1 /\ rear \in 0 .. BufLen - 1
  BY PoolAssumption DEF TypeOK, Index
<1>2. \A k \in 0 .. BufLen : Slot(k) \in Index /\
        Slot(k) = IF front + k < BufLen THEN front + k ELSE front + k - BufLen
  BY SlotValue
<1>3. front = Slot(0)
  BY <1>1, <1>2
<1>4. QED
  BY <1>1, <1>2, <1>3, SizeBounds DEF PermitsConserved

LEMMA RearIsFree ==
  ASSUME TypeOK, PermitsConserved, Size < BufLen
  PROVE  \A k \in 0 .. Size - 1 : rear # Slot(k)
<1> SUFFICES ASSUME NEW k \in 0 .. Size - 1 PROVE rear # Slot(k)
  OBVIOUS
<1>1. k \in 0 .. BufLen /\ k < Size /\ Size \in 0 .. BufLen
  BY Indices
<1>2. /\ Slot(k) = IF front + k < BufLen THEN front + k ELSE front + k - BufLen
      /\ Slot(Size) = IF front + Size < BufLen THEN front + Size ELSE front + Size - BufLen
  BY <1>1, Indices
<1>3. QED
  BY <1>1, <1>2, Indices

LEMMA SlotShift ==
  ASSUME TypeOK, PermitsConserved, NEW c \in Consumers, PopAdvance(c)
  PROVE  /\ Size' = Size - 1 /\ Size > 0
         /\ \A k \in 0 .. Size - 2 : Slot(k)' = Slot(k + 1)
<1>1. Size' = Size - 1
  BY PopAdvanceSize
<1>2. Size > 0
  BY Indices DEF PopAdvance, Goto, LoadingStages
<1>3. /\ BufLen \in Nat \ {0} /\ front \in 0 .. BufLen - 1 /\ Size \in 0 .. BufLen
      /\ front' = (front + 1) % BufLen
  BY Indices DEF PopAdvance
<1>4. front' = IF front + 1 < BufLen THEN front + 1 ELSE front + 1 - BufLen
  BY <1>3, NextIndex
<1>5. ASSUME NEW k \in 0 .. Size - 2
      PROVE  Slot(k)' = Slot(k + 1)
  <2>1. front' \in 0 .. BufLen - 1 /\ k \in 0 .. BufLen /\ k + 1 \in 0 .. BufLen
        /\ k + 1 < BufLen
    BY <1>3, <1>4
  <2>2. Slot(k)' = (front' + k) % BufLen
    BY DEF Slot
  <2>3. (front' + k) % BufLen
          = IF front' + k < BufLen THEN front' + k ELSE front' + k - BufLen
    BY <1>3, <2>1, ModSum
  <2>4. Slot(k + 1) = IF front + (k + 1) < BufLen THEN front + (k + 1)
                      ELSE front + (k + 1) - BufLen
    BY <2>1, Indices
  <2>5. QED
    BY <1>3, <1>4, <2>1, <2>2, <2>3, <2>4
<1>6. QED
  BY <1>1, <1>2, <1>5

LEMMA ItemsStep == PoolInv /\ [Next]_vars => ItemsIntact'
<1> SUFFICES ASSUME PoolInv, [Next]_vars
             PROVE  ItemsIntact'
  OBVIOUS
<1>0. /\ TypeOK /\ MutualExclusion /\ PermitsConserved /\ ItemsIntact
      /\ pc \in [Threads -> Ends] /\ item \in [Threads -> Items \cup {None}]
      /\ buf \in [Index -> Items \cup {None}] /\ rear \in Index /\ front \in Index
      /\ \A p \in Producers : p \in Threads /\ p \notin Consumers
      /\ \A c \in Consumers : c \in Threads /\ c \notin Producers
  BY PoolAssumption DEF PoolInv, TypeOK, Ends, Threads
\* A step of a producer that is not the store or the advance.
<1>1. ASSUME NEW p \in Producers, PushStep(p) \/ \E v \in Items : CallPush(p, v),
             ~ PushStore(p), ~ PushAdvance(p)
      PROVE  ItemsIntact'
  <2>1. UNCHANGED <<buf, front, rear>> /\ Size' = Size /\ (\A k : Slot(k)' = Slot(k))
    BY <1>0, <1>1, PushKeepsSize
       DEF PushStep, CallPush, PushPSlots, PushPMutex, PushVMutex, PushVItems, Slot
  <2>2. /\ \A t \in Threads : t # p => pc'[t] = pc[t] /\ item'[t] = item[t]
        /\ pc'[p] # "advance"
        /\ item'[p] \in Items
    BY <1>0, <1>1
       DEF PushStep, CallPush, PushPSlots, PushPMutex, PushVMutex, PushVItems, Goto, ItemsIntact
  <2>3. QED
    BY <1>0, <2>1, <2>2 DEF ItemsIntact
<1>2. ASSUME NEW p \in Producers, PushStore(p)
      PROVE  ItemsIntact'
  <2>1. /\ UNCHANGED <<front, rear, item>> /\ buf' = [buf EXCEPT ![rear] = item[p]]
        /\ Goto(p, "store", "advance")
    BY <1>2 DEF PushStore
  <2>2. Size' = Size /\ (\A k : Slot(k)' = Slot(k))
    BY <1>0, <1>2, <2>1, PushKeepsSize DEF PushStep, PushAdvance, Slot, Goto
  <2>3. item[p] \in Items
    BY <1>0, <2>1 DEF Goto, ItemsIntact
  <2>4. \A t \in Threads : t # p => pc[t] # "advance" /\ pc'[t] = pc[t]
    BY <1>0, <2>1 DEF Goto, MutualExclusion, InCritical
  <2>5. /\ \A k \in 0 .. Size - 1 : buf'[Slot(k)] \in Items
        /\ buf'[rear] = item[p]
    <3>1. \A k \in 0 .. Size - 1 : k \in 0 .. BufLen
      BY <1>0, Indices
    <3>2. \A k \in 0 .. Size - 1 : Slot(k) \in Index
      BY <1>0, <3>1, Indices
    <3>3. QED
      BY <1>0, <2>1, <2>3, <3>2 DEF ItemsIntact
  <2>6. pc'[p] = "advance" /\ pc[p] = "store"
    BY <1>0, <2>1 DEF Goto
  <2>7. QED
    BY <1>0, <2>1, <2>2, <2>3, <2>4, <2>5, <2>6 DEF ItemsIntact
<1>3. ASSUME NEW p \in Producers, PushAdvance(p)
      PROVE  ItemsIntact'
  <2>1. UNCHANGED <<front, buf, item>> /\ Goto(p, "advance", "V_mutex")
    BY <1>3 DEF PushAdvance
  <2>2. Size' = Size + 1 /\ (\A k : Slot(k)' = Slot(k)) /\ Size \in Nat
    BY <1>0, <1>3, <2>1, PushAdvanceSize, CountTypes DEF Slot
  <2>3. buf[Slot(Size)] \in Items
    BY <1>0, <2>1, Indices DEF Goto, ItemsIntact
  <2>4. \A t \in Threads : t # p => pc[t] # "advance" /\ pc'[t] = pc[t]
    BY <1>0, <2>1 DEF Goto, MutualExclusion, InCritical
  <2>5. pc'[p] = "V_mutex" /\ pc[p] = "advance"
    BY <1>0, <2>1 DEF Goto
  <2>6. \A k \in 0 .. Size : buf[Slot(k)] \in Items
    BY <1>0, <2>2, <2>3 DEF ItemsIntact
  <2>7. QED
    BY <1>0, <2>1, <2>2, <2>4, <2>5, <2>6 DEF ItemsIntact
\* A step of a consumer that is not the advance.
<1>4. ASSUME NEW c \in Consumers, PopStep(c), ~ PopAdvance(c)
      PROVE  ItemsIntact'
  <2>1. UNCHANGED <<buf, front, rear>> /\ Size' = Size /\ (\A k : Slot(k)' = Slot(k))
    BY <1>0, <1>4, PopKeepsSize
       DEF PopStep, CallPop, PopPItems, PopPMutex, PopLoad, PopVMutex, PopVSlots, Slot
  <2>2. /\ \A t \in Threads : t # c => pc'[t] = pc[t] /\ item'[t] = item[t]
        /\ pc'[c] = "advance" => item'[c] = buf[front]
        /\ pc'[c] \in {"V_mutex", "V_slots"} => item'[c] \in Items
        /\ pc'[c] \in {"P_items", "P_mutex", "load"} => item'[c] = None
    BY <1>0, <1>4
       DEF PopStep, CallPop, PopPItems, PopPMutex, PopLoad, PopVMutex, PopVSlots,
           Goto, ItemsIntact
  <2>3. QED
    BY <1>0, <2>1, <2>2 DEF ItemsIntact
<1>5. ASSUME NEW c \in Consumers, PopAdvance(c)
      PROVE  ItemsIntact'
  <2>1. UNCHANGED <<rear, buf, item>> /\ Goto(c, "advance", "V_mutex")
    BY <1>5 DEF PopAdvance
  <2>2. /\ Size' = Size - 1 /\ Size > 0 /\ Size \in Nat
        /\ \A k \in 0 .. Size - 2 : Slot(k)' = Slot(k + 1)
    BY <1>0, <1>5, SlotShift, CountTypes
  <2>3. \A k \in 0 .. Size - 2 : buf[Slot(k)'] \in Items
    BY <1>0, <2>2 DEF ItemsIntact
  <2>4. item[c] \in Items
    BY <1>0, <2>1, <2>2, Indices DEF Goto, ItemsIntact
  <2>5. \A t \in Threads : t # c => pc[t] # "advance" /\ pc'[t] = pc[t]
    BY <1>0, <2>1 DEF Goto, MutualExclusion, InCritical
  <2>6. pc'[c] = "V_mutex"
    BY <1>0, <2>1 DEF Goto
  <2>7. QED
    BY <1>0, <2>1, <2>2, <2>3, <2>4, <2>5, <2>6 DEF ItemsIntact
<1>6. CASE UNCHANGED vars
  <2>1. Size' = Size /\ (\A k : Slot(k)' = Slot(k))
    BY <1>6 DEF vars, Size, Stored, Loading, At, Slot
  <2>2. QED
    BY <1>0, <1>6, <2>1 DEF vars, ItemsIntact
<1>7. QED
  BY <1>1, <1>2, <1>3, <1>4, <1>5, <1>6 DEF Next

LEMMA InitItems == Init => ItemsIntact
<1> SUFFICES ASSUME Init PROVE ItemsIntact
  OBVIOUS
<1>1. Stored = {} /\ Loading = {}
  BY DEF Init, Stored, Loading, At, Threads
<1>2. Size = 0
  BY <1>1, FS_EmptySet DEF Init, Size
<1>3. QED
  BY <1>2 DEF Init, ItemsIntact, Threads

LEMMA PoolInvStep == PoolInv /\ [Next]_vars => PoolInv'
BY TypeStep, MutexStep, PermitStep, ItemsStep DEF PoolInv

LEMMA PoolInvariant == Spec => []PoolInv
<1>1. Init => PoolInv
  BY InitType, InitMutex, InitPermits, InitItems DEF PoolInv
<1>2. QED
  BY <1>1, PoolInvStep, PTL DEF Spec

\* What pop returns is what push was given.
THEOREM ItemsUnchanged == Spec => []ItemsIntact
BY PoolInvariant, PTL DEF PoolInv

\* push never stores over an item nobody popped; pop never loads a place
\* nobody filled.
THEOREM NothingOverwritten == Spec => []NoOverwriteNoUnderflow
<1>1. PoolInv => NoOverwriteNoUnderflow
  <2> SUFFICES ASSUME PoolInv PROVE NoOverwriteNoUnderflow
    OBVIOUS
  <2>0. TypeOK /\ PermitsConserved /\ ItemsIntact
    BY DEF PoolInv
  <2>1. ASSUME NEW p \in Producers, pc[p] = "store"
        PROVE  Size < BufLen /\ \A k \in 0 .. Size - 1 : rear # Slot(k)
    BY <2>0, <2>1, Indices, RearIsFree DEF StoringStages
  <2>2. ASSUME NEW c \in Consumers, pc[c] = "load"
        PROVE  Size > 0 /\ buf[front] \in Items
    <3>1. Size > 0 /\ Size \in Nat /\ front = Slot(0)
      BY <2>0, <2>2, Indices, CountTypes DEF LoadingStages
    <3>2. QED
      BY <2>0, <3>1 DEF ItemsIntact
  <2>3. QED
    BY <2>1, <2>2 DEF NoOverwriteNoUnderflow
<1>2. QED
  BY <1>1, PoolInvariant, PTL

-----------------------------------------------------------------------------
(***************************************************************************)
(* Pool implements BoundedQueue: push takes effect when it advances rear,  *)
(* pop when it advances front; a consumer releases its item when it calls  *)
(* pop again; every other step is a stuttering step of the queue.          *)
(***************************************************************************)

(***************************************************************************)
(* The contents of the queue, and how the steps of Pool change them.       *)
(***************************************************************************)
QueueShape ==
  /\ AbsQueue \in Seq(Items) /\ Len(AbsQueue) = Size /\ Size \in 0 .. BufLen
  /\ \A i \in 1 .. Size : AbsQueue[i] = buf[Slot(i - 1)]

LEMMA AbsQueueIsSeq == PoolInv => QueueShape
<1> SUFFICES ASSUME PoolInv PROVE QueueShape
  OBVIOUS
<1>1. Size \in 0 .. BufLen /\ Size \in Nat
  BY Indices, PoolAssumption DEF PoolInv
<1>2. \A i \in 1 .. Size : buf[Slot(i - 1)] \in Items
  <2> SUFFICES ASSUME NEW i \in 1 .. Size PROVE buf[Slot(i - 1)] \in Items
    OBVIOUS
  <2>1. i - 1 \in 0 .. Size - 1
    BY <1>1
  <2>2. QED
    BY <2>1 DEF PoolInv, ItemsIntact
<1>3. AbsQueue \in [1 .. Size -> Items]
  BY <1>2 DEF AbsQueue
<1>4. QED
  BY <1>1, <1>3, SeqDef, LenProperties DEF AbsQueue, QueueShape

LEMMA NextAbsQueueIsSeq == PoolInv' => QueueShape'
BY AbsQueueIsSeq, PTL

\* Two steps of PoolInv, one after the other, keep the same contents if they
\* agree on every place between front and rear.
LEMMA SameQueue ==
  ASSUME PoolInv, Size' = Size,
         \A i \in 1 .. Size : buf'[Slot(i - 1)'] = buf[Slot(i - 1)]
  PROVE  AbsQueue' = AbsQueue
BY DEF AbsQueue

LEMMA QueueAppends ==
  ASSUME PoolInv, PoolInv', NEW p \in Producers, PushAdvance(p)
  PROVE  /\ AbsQueue' = Append(AbsQueue, item[p])
         /\ Len(AbsQueue) < BufLen
<1>0. /\ TypeOK /\ PermitsConserved /\ ItemsIntact /\ pc[p] = "advance"
      /\ UNCHANGED <<buf, front, item>>
  BY DEF PoolInv, PushAdvance, Goto
<1>1. Size' = Size + 1 /\ (\A k : Slot(k)' = Slot(k))
  BY <1>0, PushAdvanceSize DEF Slot
<1>2. Size < BufLen /\ rear = Slot(Size)
  BY <1>0, Indices DEF StoringStages
<1>3. buf[Slot(Size)] = item[p] /\ item[p] \in Items
  BY <1>0, <1>2 DEF ItemsIntact
<1>4. /\ AbsQueue \in Seq(Items) /\ Len(AbsQueue) = Size /\ Size \in Nat
      /\ \A i \in 1 .. Size : AbsQueue[i] = buf[Slot(i - 1)]
  BY AbsQueueIsSeq DEF QueueShape
<1>5. /\ AbsQueue' \in Seq(Items) /\ Len(AbsQueue') = Size + 1
      /\ \A i \in 1 .. Size + 1 : AbsQueue'[i] = buf[Slot(i - 1)]
  BY <1>0, <1>1, NextAbsQueueIsSeq DEF QueueShape
<1>6. /\ Append(AbsQueue, item[p]) \in Seq(Items)
      /\ Len(Append(AbsQueue, item[p])) = Size + 1
      /\ \A i \in 1 .. Size : Append(AbsQueue, item[p])[i] = AbsQueue[i]
      /\ Append(AbsQueue, item[p])[Size + 1] = item[p]
  BY <1>3, <1>4, AppendProperties
<1>7. (Size + 1) - 1 = Size
  BY <1>4
<1>8. \A i \in 1 .. Size + 1 : AbsQueue'[i] = Append(AbsQueue, item[p])[i]
  <2> SUFFICES ASSUME NEW i \in 1 .. Size + 1
               PROVE  AbsQueue'[i] = Append(AbsQueue, item[p])[i]
    OBVIOUS
  <2>1. CASE i \in 1 .. Size
    BY <2>1, <1>4, <1>5, <1>6
  <2>2. CASE i = Size + 1
    BY <2>2, <1>3, <1>5, <1>6, <1>7
  <2>3. QED
    BY <1>4, <2>1, <2>2
<1>9. QED
  BY <1>2, <1>4, <1>5, <1>6, <1>8, SeqEqual

LEMMA QueueLosesHead ==
  ASSUME PoolInv, PoolInv', NEW c \in Consumers, PopAdvance(c)
  PROVE  /\ AbsQueue # <<>> /\ Head(AbsQueue) = item[c]
         /\ AbsQueue' = Tail(AbsQueue)
<1>0. /\ TypeOK /\ PermitsConserved /\ ItemsIntact /\ pc[c] = "advance"
      /\ UNCHANGED <<buf, item>>
  BY DEF PoolInv, PopAdvance, Goto
<1>1. /\ Size' = Size - 1 /\ Size > 0
      /\ \A k \in 0 .. Size - 2 : Slot(k)' = Slot(k + 1)
  BY <1>0, SlotShift
<1>2. item[c] = buf[Slot(0)]
  BY <1>0, Indices DEF ItemsIntact
<1>3. /\ AbsQueue \in Seq(Items) /\ Len(AbsQueue) = Size /\ Size \in Nat
      /\ \A i \in 1 .. Size : AbsQueue[i] = buf[Slot(i - 1)]
  BY AbsQueueIsSeq DEF QueueShape
<1>4. /\ AbsQueue' \in Seq(Items) /\ Len(AbsQueue') = Size - 1
      /\ \A i \in 1 .. Size - 1 : AbsQueue'[i] = buf[Slot(i - 1)']
  BY <1>0, <1>1, NextAbsQueueIsSeq DEF QueueShape
<1>5. AbsQueue # <<>> /\ Head(AbsQueue) = AbsQueue[1]
  BY <1>1, <1>3, EmptySeq, HeadTailProperties
<1>6. /\ Tail(AbsQueue) \in Seq(Items) /\ Len(Tail(AbsQueue)) = Size - 1
      /\ \A i \in 1 .. Size - 1 : Tail(AbsQueue)[i] = AbsQueue[i + 1]
  BY <1>3, <1>5, HeadTailProperties
<1>7. \A i \in 1 .. Size - 1 : AbsQueue'[i] = Tail(AbsQueue)[i]
  <2> SUFFICES ASSUME NEW i \in 1 .. Size - 1
               PROVE  AbsQueue'[i] = Tail(AbsQueue)[i]
    OBVIOUS
  <2>1. i - 1 \in 0 .. Size - 2 /\ (i - 1) + 1 = i /\ i + 1 \in 1 .. Size /\ (i + 1) - 1 = i
    BY <1>3
  <2>2. AbsQueue'[i] = buf[Slot(i)]
    BY <1>1, <1>4, <2>1
  <2>3. Tail(AbsQueue)[i] = buf[Slot(i)]
    BY <1>3, <1>6, <2>1
  <2>4. QED
    BY <2>2, <2>3
<1>8. Head(AbsQueue) = item[c]
  <2>1. 1 \in 1 .. Size /\ 1 - 1 = 0
    BY <1>1, <1>3
  <2>2. QED
    BY <1>2, <1>3, <1>5, <2>1
<1>9. QED
  BY <1>3, <1>4, <1>5, <1>6, <1>7, <1>8, SeqEqual

(***************************************************************************)
(* What the threads hold.                                                  *)
(***************************************************************************)
PushHolds == {"P_slots", "P_mutex", "store", "advance"}
PopHolds  == {"V_mutex", "V_slots", "idle"}

LEMMA HeldValue ==
  ASSUME TypeOK
  PROVE  /\ AbsHeld = [t \in Threads |-> AbsHeld[t]]
         /\ \A p \in Producers : p \in Threads /\
              AbsHeld[p] = IF pc[p] \in PushHolds THEN item[p] ELSE None
         /\ \A c \in Consumers : c \in Threads /\
              AbsHeld[c] = IF pc[c] \in PopHolds THEN item[c] ELSE None
BY PoolAssumption DEF AbsHeld, Threads, PushHolds, PopHolds

LEMMA NextHeldValue ==
  TypeOK' =>
    /\ AbsHeld' = [t \in Threads |-> AbsHeld'[t]]
    /\ \A p \in Producers : p \in Threads /\
         AbsHeld'[p] = IF pc'[p] \in PushHolds THEN item'[p] ELSE None
    /\ \A c \in Consumers : c \in Threads /\
         AbsHeld'[c] = IF pc'[c] \in PopHolds THEN item'[c] ELSE None
BY PoolAssumption DEF AbsHeld, Threads, PushHolds, PopHolds

\* A step of thread t leaves what the others hold alone.
LEMMA HeldMoves ==
  ASSUME TypeOK, TypeOK', NEW t \in Threads,
         \A u \in Threads : u # t => pc'[u] = pc[u] /\ item'[u] = item[u]
  PROVE  AbsHeld' = [AbsHeld EXCEPT ![t] = AbsHeld'[t]]
<1>1. /\ AbsHeld = [u \in Threads |-> AbsHeld[u]]
      /\ AbsHeld' = [u \in Threads |-> AbsHeld'[u]]
  BY HeldValue, NextHeldValue
<1>2. \A u \in Threads : u # t => AbsHeld'[u] = AbsHeld[u]
  BY HeldValue, NextHeldValue DEF Threads
<1>3. QED
  BY <1>1, <1>2

(***************************************************************************)
(* The refinement.                                                         *)
(***************************************************************************)
LEMMA InitRefines == Init => Abs!QueueInit
<1> SUFFICES ASSUME Init PROVE Abs!QueueInit
  OBVIOUS
<1>1. Stored = {} /\ Loading = {}
  BY DEF Init, Stored, Loading, At, Threads
<1>2. Size = 0
  BY <1>1, FS_EmptySet DEF Init, Size
<1>3. AbsQueue = <<>>
  <2>1. PoolInv
    BY InitType, InitMutex, InitPermits, InitItems DEF PoolInv
  <2>2. AbsQueue \in Seq(Items) /\ Len(AbsQueue) = 0
    BY <1>2, <2>1, AbsQueueIsSeq DEF QueueShape
  <2>3. QED
    BY <2>2, EmptySeq
<1>4. AbsHeld = [t \in Producers \cup Consumers |-> None]
  BY DEF Init, AbsHeld, Threads
<1>5. QED
  BY <1>3, <1>4 DEF Abs!QueueInit

LEMMA StepRefines ==
  PoolInv /\ PoolInv' /\ [Next]_vars => [Abs!QueueNext]_(Abs!qvars)
<1> SUFFICES ASSUME PoolInv, PoolInv', [Next]_vars
             PROVE  [Abs!QueueNext]_(Abs!qvars)
  OBVIOUS
<1>0. /\ TypeOK /\ TypeOK' /\ PermitsConserved /\ ItemsIntact
      /\ pc \in [Threads -> Ends] /\ item \in [Threads -> Items \cup {None}]
      /\ buf \in [Index -> Items \cup {None}] /\ rear \in Index
      /\ \A p \in Producers : p \in Threads /\ p \notin Consumers
      /\ \A c \in Consumers : c \in Threads /\ c \notin Producers
      /\ None \notin Items
  BY PoolAssumption DEF PoolInv, TypeOK, Ends, Threads
<1>1. ASSUME NEW p \in Producers, NEW v \in Items, CallPush(p, v)
      PROVE  Abs!Offer(p, v)
  <2>1. /\ UNCHANGED <<buf, front, rear>> /\ pc[p] = "idle" /\ pc'[p] = "P_slots"
        /\ item'[p] = v
        /\ \A u \in Threads : u # p => pc'[u] = pc[u] /\ item'[u] = item[u]
    BY <1>0, <1>1 DEF CallPush, Goto
  <2>2. Size' = Size /\ (\A k : Slot(k)' = Slot(k))
    BY <1>0, <1>1, <2>1, PushKeepsSize DEF PushStep, PushAdvance, Slot, Goto
  <2>3. UNCHANGED AbsQueue
    BY <2>1, <2>2, SameQueue
  <2>4. AbsHeld[p] = None /\ AbsHeld'[p] = v
    BY <1>0, <2>1, HeldValue, NextHeldValue DEF PushHolds
  <2>5. AbsHeld' = [AbsHeld EXCEPT ![p] = v]
    BY <1>0, <2>1, <2>4, HeldMoves
  <2>6. QED
    BY <2>3, <2>4, <2>5 DEF Abs!Offer
<1>2. ASSUME NEW p \in Producers, PushStep(p), ~ PushAdvance(p)
      PROVE  UNCHANGED <<AbsQueue, AbsHeld>>
  <2>1. /\ UNCHANGED <<front, rear, item>>
        /\ \A u \in Threads : u # p => pc'[u] = pc[u]
        /\ (pc[p] \in PushHolds) = (pc'[p] \in PushHolds)
        /\ UNCHANGED buf \/ (pc[p] = "store" /\ buf' = [buf EXCEPT ![rear] = item[p]])
    BY <1>0, <1>2
       DEF PushStep, PushPSlots, PushPMutex, PushStore, PushVMutex, PushVItems, Goto, PushHolds
  <2>2. Size' = Size /\ (\A k : Slot(k)' = Slot(k))
    BY <1>0, <1>2, <2>1, PushKeepsSize DEF Slot
  <2>3. \A i \in 1 .. Size : buf'[Slot(i - 1)] = buf[Slot(i - 1)]
    <3> SUFFICES ASSUME NEW i \in 1 .. Size
                 PROVE  buf'[Slot(i - 1)] = buf[Slot(i - 1)]
      OBVIOUS
    <3>1. CASE UNCHANGED buf
      BY <3>1
    <3>2. CASE pc[p] = "store" /\ buf' = [buf EXCEPT ![rear] = item[p]]
      <4>1. Size < BufLen /\ Size \in 0 .. BufLen
        BY <1>0, <3>2, Indices DEF StoringStages
      <4>2. i - 1 \in 0 .. Size - 1 /\ i - 1 \in 0 .. BufLen
        BY <1>0, <4>1, Indices
      <4>3. rear # Slot(i - 1) /\ Slot(i - 1) \in Index
        BY <1>0, <4>1, <4>2, RearIsFree, Indices
      <4>4. QED
        BY <1>0, <3>2, <4>3
    <3>3. QED
      BY <2>1, <3>1, <3>2
  <2>4. UNCHANGED AbsQueue
    BY <2>2, <2>3, SameQueue
  <2>5. AbsHeld'[p] = AbsHeld[p]
    BY <1>0, <2>1, HeldValue, NextHeldValue
  <2>6. AbsHeld' = [AbsHeld EXCEPT ![p] = AbsHeld[p]]
    BY <1>0, <2>1, <2>5, HeldMoves
  <2>7. UNCHANGED AbsHeld
    BY <1>0, <2>6, HeldValue
  <2>8. QED
    BY <2>4, <2>7
<1>3. ASSUME NEW p \in Producers, PushAdvance(p)
      PROVE  Abs!Enqueue(p)
  <2>1. /\ pc[p] = "advance" /\ pc'[p] = "V_mutex" /\ UNCHANGED item
        /\ \A u \in Threads : u # p => pc'[u] = pc[u]
    BY <1>0, <1>3 DEF PushAdvance, Goto
  <2>2. AbsHeld[p] = item[p] /\ AbsHeld'[p] = None /\ item[p] # None
    BY <1>0, <2>1, HeldValue, NextHeldValue DEF PushHolds, ItemsIntact
  <2>3. AbsHeld' = [AbsHeld EXCEPT ![p] = None]
    BY <1>0, <2>1, <2>2, HeldMoves
  <2>4. QED
    BY <1>3, <2>2, <2>3, QueueAppends DEF Abs!Enqueue
<1>4. ASSUME NEW c \in Consumers, CallPop(c)
      PROVE  Abs!Release(c) \/ UNCHANGED <<AbsQueue, AbsHeld>>
  <2>1. /\ UNCHANGED <<buf, front, rear>> /\ pc[c] = "idle" /\ pc'[c] = "P_items"
        /\ \A u \in Threads : u # c => pc'[u] = pc[u] /\ item'[u] = item[u]
    BY <1>0, <1>4 DEF CallPop, Goto
  <2>2. Size' = Size /\ (\A k : Slot(k)' = Slot(k))
    BY <1>0, <1>4, <2>1, PopKeepsSize DEF PopStep, PopAdvance, Slot, Goto
  <2>3. UNCHANGED AbsQueue
    BY <2>1, <2>2, SameQueue
  <2>4. AbsHeld'[c] = None
    BY <1>0, <2>1, NextHeldValue DEF PopHolds
  <2>5. AbsHeld' = [AbsHeld EXCEPT ![c] = None]
    BY <1>0, <2>1, <2>4, HeldMoves
  <2>6. CASE AbsHeld[c] = None
    <3>1. UNCHANGED AbsHeld
      BY <1>0, <2>5, <2>6, HeldValue
    <3>2. QED
      BY <2>3, <3>1
  <2>7. CASE AbsHeld[c] # None
    BY <2>3, <2>5, <2>7 DEF Abs!Release
  <2>8. QED
    BY <2>6, <2>7
<1>5. ASSUME NEW c \in Consumers, PopStep(c), ~ CallPop(c), ~ PopAdvance(c)
      PROVE  UNCHANGED <<AbsQueue, AbsHeld>>
  <2>1. /\ UNCHANGED <<buf, front, rear>>
        /\ \A u \in Threads : u # c => pc'[u] = pc[u] /\ item'[u] = item[u]
        /\ \/ pc[c] \notin PopHolds /\ pc'[c] \notin PopHolds
           \/ pc[c] \in PopHolds /\ pc'[c] \in PopHolds /\ item'[c] = item[c]
    BY <1>0, <1>5
       DEF PopStep, PopPItems, PopPMutex, PopLoad, PopVMutex, PopVSlots, Goto, PopHolds
  <2>2. Size' = Size /\ (\A k : Slot(k)' = Slot(k))
    BY <1>0, <1>5, <2>1, PopKeepsSize DEF Slot
  <2>3. UNCHANGED AbsQueue
    BY <2>1, <2>2, SameQueue
  <2>4. AbsHeld'[c] = AbsHeld[c]
    BY <1>0, <2>1, HeldValue, NextHeldValue
  <2>5. AbsHeld' = [AbsHeld EXCEPT ![c] = AbsHeld[c]]
    BY <1>0, <2>1, <2>4, HeldMoves
  <2>6. UNCHANGED AbsHeld
    BY <1>0, <2>5, HeldValue
  <2>7. QED
    BY <2>3, <2>6
<1>6. ASSUME NEW c \in Consumers, PopAdvance(c)
      PROVE  Abs!Dequeue(c)
  <2>1. /\ pc[c] = "advance" /\ pc'[c] = "V_mutex" /\ UNCHANGED item
        /\ \A u \in Threads : u # c => pc'[u] = pc[u]
    BY <1>0, <1>6 DEF PopAdvance, Goto
  <2>2. AbsHeld[c] = None /\ AbsHeld'[c] = item[c]
    BY <1>0, <2>1, HeldValue, NextHeldValue DEF PopHolds
  <2>3. AbsHeld' = [AbsHeld EXCEPT ![c] = item[c]]
    BY <1>0, <2>1, <2>2, HeldMoves
  <2>4. QED
    BY <1>6, <2>2, <2>3, QueueLosesHead DEF Abs!Dequeue
<1>7. CASE UNCHANGED vars
  BY <1>7 DEF vars, AbsQueue, AbsHeld, Size, Stored, Loading, At, Slot, Abs!qvars
<1>8. QED
  BY <1>1, <1>2, <1>3, <1>4, <1>5, <1>6, <1>7 DEF Next, Abs!QueueNext, Abs!qvars

\* The pool is a bounded first-in first-out queue: no item is lost,
\* duplicated or reordered, however push and pop interleave.
THEOREM PoolRefinesQueue == Spec => ImplementsBoundedQueue
<1>1. Spec => []PoolInv
  BY PoolInvariant
<1>2. QED
  BY <1>1, InitRefines, StepRefines, PTL DEF Spec, ImplementsBoundedQueue, Abs!QueueSpec

-----------------------------------------------------------------------------
(***************************************************************************)
(* Deadlock freedom.                                                       *)
(***************************************************************************)

\* Whoever waits for the mutex waits for a thread that can move: if none can,
\* nobody is past the first semaphore of its call.
LEMMA RestingThreads ==
  ASSUME PoolInv, \A t \in Threads : Waits(t) \/ Outside(t)
  PROVE  /\ \A p \in Producers : Outside(p) \/ (pc[p] = "P_slots" /\ slots = 0)
         /\ \A c \in Consumers : pc[c] = "P_items" /\ items = 0
<1>1. /\ \A p \in Producers : p \in Threads /\ p \notin Consumers /\ pc[p] \in PushStages
      /\ \A c \in Consumers : c \in Threads /\ c \notin Producers /\ pc[c] \in PopStages
  BY PoolAssumption DEF PoolInv, TypeOK, Threads
<1>2. \A t \in Threads : ~ InCritical(t)
  BY DEF Waits, Outside, InCritical
<1>3. mutex = 1
  BY <1>2 DEF PoolInv, MutualExclusion
<1>4. QED
  BY <1>1, <1>3 DEF Waits, Outside, PushStages, PopStages

LEMMA RestIsEmpty == PoolInv => OnlyEmptyPoolRests
<1> SUFFICES ASSUME PoolInv, Consumers # {}, \A t \in Threads : Waits(t) \/ Outside(t)
             PROVE  /\ Size = 0 /\ slots = BufLen
                    /\ \A c \in Consumers : pc[c] = "P_items"
                    /\ \A p \in Producers : Outside(p)
  BY DEF OnlyEmptyPoolRests
<1>1. /\ \A p \in Producers : Outside(p) \/ (pc[p] = "P_slots" /\ slots = 0)
      /\ \A c \in Consumers : pc[c] = "P_items" /\ items = 0
  BY RestingThreads
<1>2. Storing = {} /\ Stored = {} /\ Loading = {} /\ Loaded = {}
  BY <1>1 DEF Outside, Storing, Stored, Loading, Loaded, At
<1>3. items = 0
  BY <1>1
<1>4. Cardinality({}) = 0
  BY FS_EmptySet
<1>5. Size = 0
  BY <1>2, <1>3, <1>4 DEF Size
<1>6. slots \in Nat /\ BufLen \in Nat \ {0}
  BY PoolAssumption DEF PoolInv, TypeOK
<1>7. slots = BufLen
  <2>1. slots + Cardinality(Storing) + Size + Cardinality(Loaded) = BufLen
    BY DEF PoolInv, PermitsConserved
  <2>2. slots + 0 + 0 + 0 = BufLen
    BY <1>2, <1>4, <1>5, <2>1
  <2>3. QED
    BY <1>6, <2>2
<1>8. QED
  BY <1>1, <1>5, <1>6, <1>7

\* The three semaphores never deadlock, and no item or free place is left
\* behind without a wakeup: with any number of threads, and any length of the
\* buffer, the pool comes to rest only when it is empty and everybody who is
\* inside it is a consumer waiting for the next push.
THEOREM NoDeadlock == Spec => []OnlyEmptyPoolRests
BY PoolInvariant, RestIsEmpty, PTL

=============================================================================
