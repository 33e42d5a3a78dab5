---------------------------- MODULE BoundedQueue ----------------------------
(***************************************************************************)
(* What a Pool<K> promises its callers (src/Pool.hpp): a first-in          *)
(* first-out queue of at most Capacity items.  A producer that called push *)
(* holds its item until the queue takes it; a consumer holds the item pop  *)
(* gave it until it calls pop again.  Each operation takes effect in one   *)
(* step; how the semaphores bring that about is module Pool.               *)
(*                                                                         *)
(* HttpServer uses this module as its request pool, and Pool implements    *)
(* it.                                                                     *)
(***************************************************************************)
EXTENDS Naturals, Sequences

CONSTANTS
  Producers,  \* threads that call push
  Consumers,  \* threads that call pop
  Items,      \* what is queued (file descriptors, in the server)
  Capacity,   \* the bufLen the pool was constructed with
  None        \* "holds no item"

VARIABLES
  queue,      \* the items pushed and not yet popped, oldest first
  held        \* the item each thread is pushing, or was given by pop

qvars == <<queue, held>>

QueueInit ==
  /\ queue = <<>>
  /\ held = [t \in Producers \cup Consumers |-> None]

\* A producer enters push(v).
Offer(p, v) ==
  /\ held[p] = None
  /\ held' = [held EXCEPT ![p] = v]
  /\ UNCHANGED queue

\* The queue takes the item of a producer: only while there is a free slot.
Enqueue(p) ==
  /\ held[p] # None
  /\ Len(queue) < Capacity
  /\ queue' = Append(queue, held[p])
  /\ held' = [held EXCEPT ![p] = None]

\* A consumer is given the oldest item.
Dequeue(c) ==
  /\ held[c] = None
  /\ queue # <<>>
  /\ held' = [held EXCEPT ![c] = Head(queue)]
  /\ queue' = Tail(queue)

\* A consumer is done with its item.
Release(c) ==
  /\ held[c] # None
  /\ held' = [held EXCEPT ![c] = None]
  /\ UNCHANGED queue

QueueNext ==
  \/ \E p \in Producers : Enqueue(p) \/ \E v \in Items : Offer(p, v)
  \/ \E c \in Consumers : Dequeue(c) \/ Release(c)

QueueSpec == QueueInit /\ [][QueueNext]_qvars

=============================================================================
