-------------------------------- MODULE Pool --------------------------------
(***************************************************************************)
(* Pool<K> of src/Pool.hpp: a circular buffer guarded by three POSIX       *)
(* semaphores.  "slots" counts free places, "items" counts available       *)
(* items, "mutex" protects the buffer and its two indices.                 *)
(*                                                                         *)
(* Every semaphore operation and every statement that touches the shared   *)
(* buffer is a step of its own, so the threads interleave wherever the     *)
(* machine lets them.  pc[t] names the statement thread t executes next.   *)
(*                                                                         *)
(* push and pop never fail here: P and V throw only when sem_wait or       *)
(* sem_post fail, which they do for an invalid semaphore or for a signal   *)
(* handler installed without SA_RESTART; the server installs only its      *)
(* SIGPIPE handler, with SA_RESTART (src/wrapper.cpp:87).                  *)
(***************************************************************************)
EXTENDS Naturals, FiniteSets, Sequences

CONSTANTS
  Producers,  \* threads that call push
  Consumers,  \* threads that call pop
  Items,      \* the values of type K
  BufLen,     \* constructor argument
  None        \* an uninitialised K

ASSUME PoolAssumption ==
  /\ IsFiniteSet(Producers)
  /\ IsFiniteSet(Consumers)
  /\ Producers \cap Consumers = {}
  /\ BufLen \in Nat \ {0}
  /\ None \notin Items

VARIABLES
  buf,        \* sp.buf
  front,      \* sp.front: index of the oldest item
  rear,       \* sp.rear: index of the place the next item goes to
  mutex,      \* value of sp.mutex
  slots,      \* value of sp.slots
  items,      \* value of sp.items
  pc,         \* the statement each thread executes next
  item        \* the argument of push, the local variable of pop

vars == <<buf, front, rear, mutex, slots, items, pc, item>>

Threads == Producers \cup Consumers
Index   == 0 .. BufLen - 1

PushStages == {"idle", "P_slots", "P_mutex", "store", "advance", "V_mutex", "V_items"}
PopStages  == {"idle", "P_items", "P_mutex", "load", "advance", "V_mutex", "V_slots"}

Goto(t, from, to) == pc[t] = from /\ pc' = [pc EXCEPT ![t] = to]

-----------------------------------------------------------------------------
(***************************************************************************)
(* The constructor: calloc'ed buffer, both indices 0, every place free.    *)
(***************************************************************************)
Init ==
  /\ buf = [i \in Index |-> None]
  /\ front = 0
  /\ rear = 0
  /\ mutex = 1
  /\ slots = BufLen
  /\ items = 0
  /\ pc = [t \in Threads |-> "idle"]
  /\ item = [t \in Threads |-> None]

\* sem_wait and sem_post; wrapper.cpp throws what they never report here.
P(sem) == sem > 0 /\ sem' = sem - 1
V(sem) == sem' = sem + 1

(***************************************************************************)
(* push(v): P(slots); P(mutex); store; advance rear; V(mutex); V(items).   *)
(***************************************************************************)
CallPush(p, v) ==
  /\ Goto(p, "idle", "P_slots")
  /\ item' = [item EXCEPT ![p] = v]
  /\ UNCHANGED <<buf, front, rear, mutex, slots, items>>

\* Mutation: push goes on when no slot is free.
PushPSlotsNoWait(p) ==
  /\ Goto(p, "P_slots", "P_mutex")
  /\ slots' = IF slots > 0 THEN slots - 1 ELSE 0
  /\ UNCHANGED <<buf, front, rear, mutex, items, item>>

PushPSlots(p) ==
  /\ Goto(p, "P_slots", "P_mutex")
  /\ P(slots)
  /\ UNCHANGED <<buf, front, rear, mutex, items, item>>

\* Mutation: push enters without waiting for the mutex.
PushPMutexNoWait(p) ==
  /\ Goto(p, "P_mutex", "store")
  /\ mutex' = IF mutex > 0 THEN mutex - 1 ELSE 0
  /\ UNCHANGED <<buf, front, rear, slots, items, item>>

PushPMutex(p) ==
  /\ Goto(p, "P_mutex", "store")
  /\ P(mutex)
  /\ UNCHANGED <<buf, front, rear, slots, items, item>>

PushStore(p) ==
  /\ Goto(p, "store", "advance")
  /\ buf' = [buf EXCEPT ![rear] = item[p]]
  /\ UNCHANGED <<front, rear, mutex, slots, items, item>>

\* Mutation: the index does not wrap.
PushAdvanceNoWrap(p) ==
  /\ Goto(p, "advance", "V_mutex")
  /\ rear' = rear + 1
  /\ UNCHANGED <<buf, front, mutex, slots, items, item>>

PushAdvance(p) ==
  /\ Goto(p, "advance", "V_mutex")
  /\ rear' = (rear + 1) % BufLen
  /\ UNCHANGED <<buf, front, mutex, slots, items, item>>

PushVMutex(p) ==
  /\ Goto(p, "V_mutex", "V_items")
  /\ V(mutex)
  /\ UNCHANGED <<buf, front, rear, slots, items, item>>

\* Mutation: V(items) is forgotten.
PushNoVItems(p) ==
  /\ Goto(p, "V_items", "idle")
  /\ UNCHANGED <<buf, front, rear, mutex, slots, items, item>>

PushVItems(p) ==
  /\ Goto(p, "V_items", "idle")
  /\ V(items)
  /\ UNCHANGED <<buf, front, rear, mutex, slots, item>>

(***************************************************************************)
(* pop(): P(items); P(mutex); load; advance front; V(mutex); V(slots).     *)
(* The consumer keeps what pop returned until it calls pop again, whose    *)
(* local item is uninitialised.                                            *)
(***************************************************************************)
CallPop(c) ==
  /\ Goto(c, "idle", "P_items")
  /\ item' = [item EXCEPT ![c] = None]
  /\ UNCHANGED <<buf, front, rear, mutex, slots, items>>

PopPItems(c) ==
  /\ Goto(c, "P_items", "P_mutex")
  /\ P(items)
  /\ UNCHANGED <<buf, front, rear, mutex, slots, item>>

PopPMutex(c) ==
  /\ Goto(c, "P_mutex", "load")
  /\ P(mutex)
  /\ UNCHANGED <<buf, front, rear, slots, items, item>>

\* Mutation: the newest item is taken, not the oldest.
PopLoadNewest(c) ==
  /\ Goto(c, "load", "advance")
  /\ item' = [item EXCEPT ![c] = buf[(rear + BufLen - 1) % BufLen]]
  /\ UNCHANGED <<buf, front, rear, mutex, slots, items>>

PopLoad(c) ==
  /\ Goto(c, "load", "advance")
  /\ item' = [item EXCEPT ![c] = buf[front]]
  /\ UNCHANGED <<buf, front, rear, mutex, slots, items>>

PopAdvance(c) ==
  /\ Goto(c, "advance", "V_mutex")
  /\ front' = (front + 1) % BufLen
  /\ UNCHANGED <<buf, rear, mutex, slots, items, item>>

PopVMutex(c) ==
  /\ Goto(c, "V_mutex", "V_slots")
  /\ V(mutex)
  /\ UNCHANGED <<buf, front, rear, slots, items, item>>

\* Mutation: V(slots) is forgotten.
PopNoVSlots(c) ==
  /\ Goto(c, "V_slots", "idle")
  /\ UNCHANGED <<buf, front, rear, mutex, slots, items, item>>

PopVSlots(c) ==
  /\ Goto(c, "V_slots", "idle")
  /\ V(slots)
  /\ UNCHANGED <<buf, front, rear, mutex, items, item>>

-----------------------------------------------------------------------------
PushStep(p) ==
  \/ PushPSlots(p) \/ PushPMutex(p) \/ PushStore(p)
  \/ PushAdvance(p) \/ PushVMutex(p) \/ PushVItems(p)

PopStep(c) ==
  \/ CallPop(c) \/ PopPItems(c) \/ PopPMutex(c) \/ PopLoad(c)
  \/ PopAdvance(c) \/ PopVMutex(c) \/ PopVSlots(c)

Next ==
  \/ \E p \in Producers : PushStep(p) \/ \E v \in Items : CallPush(p, v)
  \/ \E c \in Consumers : PopStep(c)

Spec == Init /\ [][Next]_vars

(***************************************************************************)
(* A thread inside push or pop that can run is eventually scheduled, and a *)
(* consumer calls pop again (httpThread is an infinite loop around it).    *)
(* Nobody has to call push.  The fairness is weak: sem_wait does not queue *)
(* its waiters, so one thread may lose every race for the mutex.           *)
(***************************************************************************)
Fairness ==
  /\ \A p \in Producers : WF_vars(PushStep(p))
  /\ \A c \in Consumers : WF_vars(PopStep(c))

FairSpec == Spec /\ Fairness

-----------------------------------------------------------------------------
(***************************************************************************)
(* The number of items between front and rear.  The indices alone cannot   *)
(* tell an empty buffer from a full one ("judged by the semaphores",       *)
(* src/Pool.hpp:11); the permits and the threads' stages can.              *)
(***************************************************************************)
At(T, L) == {t \in T : pc[t] \in L}

Storing   == At(Producers, {"P_mutex", "store", "advance"})  \* took a slot
Stored    == At(Producers, {"V_mutex", "V_items"})           \* owe V(items)
Loading   == At(Consumers, {"P_mutex", "load", "advance"})   \* took an item
Loaded    == At(Consumers, {"V_mutex", "V_slots"})           \* owe V(slots)

Size == items + Cardinality(Stored) + Cardinality(Loading)

Slot(k) == (front + k) % BufLen

\* The refinement mapping to BoundedQueue: the contents, oldest first, and
\* what each thread holds.  An item is in the queue from PushAdvance to
\* PopAdvance.
AbsQueue == [i \in 1 .. Size |-> buf[Slot(i - 1)]]

AbsHeld ==
  [t \in Threads |->
     IF \/ t \in Producers /\ pc[t] \in {"P_slots", "P_mutex", "store", "advance"}
        \/ t \in Consumers /\ pc[t] \in {"V_mutex", "V_slots", "idle"}
     THEN item[t] ELSE None]

Abs == INSTANCE BoundedQueue
         WITH Capacity <- BufLen, queue <- AbsQueue, held <- AbsHeld

-----------------------------------------------------------------------------
(***************************************************************************)
(* Properties                                                              *)
(***************************************************************************)

\* The type invariant: in particular the indices stay inside the buffer and
\* no semaphore goes negative.
TypeOK ==
  /\ buf \in [Index -> Items \cup {None}]
  /\ front \in Index
  /\ rear \in Index
  /\ mutex \in Nat
  /\ slots \in Nat
  /\ items \in Nat
  /\ pc \in [Threads -> PushStages \cup PopStages]
  /\ \A p \in Producers : pc[p] \in PushStages
  /\ \A c \in Consumers : pc[c] \in PopStages
  /\ item \in [Threads -> Items \cup {None}]

InCritical(t) == pc[t] \in {"store", "load", "advance", "V_mutex"}

\* At most one thread is between P(&sp.mutex) and V(&sp.mutex), and the mutex
\* is taken while one is: buf, front and rear are never accessed by two
\* threads at a time.
MutualExclusion ==
  /\ \A t, u \in Threads : InCritical(t) /\ InCritical(u) => t = u
  /\ mutex = (IF \E t \in Threads : InCritical(t) THEN 0 ELSE 1)

\* Every place of the buffer is accounted for: free, taken by a push in
\* progress, holding an item, or about to be given back by a pop.  No permit
\* is lost or invented however pushes and pops interleave.
PermitsConserved ==
  /\ slots + Cardinality(Storing) + Size + Cardinality(Loaded) = BufLen
  /\ rear = Slot(Size)

\* push never stores over an item nobody popped, and pop never loads from an
\* empty buffer.
NoOverwriteNoUnderflow ==
  /\ \A p \in Producers : pc[p] = "store" =>
       Size < BufLen /\ \A k \in 0 .. Size - 1 : rear # Slot(k)
  /\ \A c \in Consumers : pc[c] = "load" => Size > 0 /\ buf[front] \in Items

\* An item stays the same from the call of push to the return of pop: what is
\* stored is what the producer gave, what is loaded is what front held, and
\* every place between front and rear holds a pushed item.
ItemsIntact ==
  /\ \A k \in 0 .. Size - 1 : buf[Slot(k)] \in Items
  /\ \A p \in Producers :
       /\ pc[p] # "idle" => item[p] \in Items
       /\ pc[p] = "advance" => buf[rear] = item[p]
  /\ \A c \in Consumers :
       /\ pc[c] = "advance" => item[c] = buf[front]
       /\ pc[c] \in {"V_mutex", "V_slots"} => item[c] \in Items
       /\ pc[c] \in {"P_items", "P_mutex", "load"} => item[c] = None

\* The pool is a bounded first-in first-out queue: no item is lost,
\* duplicated or reordered by the circular buffer.
ImplementsBoundedQueue == Abs!QueueSpec

\* t waits in a sem_wait that cannot return now.
Waits(t) ==
  \/ pc[t] = "P_slots" /\ slots = 0
  \/ pc[t] = "P_items" /\ items = 0
  \/ pc[t] = "P_mutex" /\ mutex = 0

Outside(t) == t \in Producers /\ pc[t] = "idle"

\* No deadlock among the three semaphores, and no wakeup lost: if nobody can
\* move until push is called again, then the pool is empty with all its places
\* free, each consumer waits for an item and no producer is inside push.
OnlyEmptyPoolRests ==
  Consumers # {} /\ (\A t \in Threads : Waits(t) \/ Outside(t)) =>
    /\ Size = 0 /\ slots = BufLen
    /\ \A c \in Consumers : pc[c] = "P_items"
    /\ \A p \in Producers : Outside(p)

\* While the pool holds an item some consumer takes the oldest one.
HeadIsTaken ==
  \A f \in Index : (front = f /\ Size > 0) ~> (front # f)

\* While some producer is inside push, an item gets in: a full pool blocks
\* push only until a consumer frees a place.
PushGetsThrough ==
  \A r \in Index :
    (rear = r /\ \E p \in Producers : pc[p] \in {"P_slots", "P_mutex", "store", "advance"})
      ~> (rear # r)

\* No lost V strands an item, or blocks push for ever.
Progress == HeadIsTaken /\ PushGetsThrough

=============================================================================
