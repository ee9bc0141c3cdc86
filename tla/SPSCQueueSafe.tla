--------------------------- MODULE SPSCQueueSafe ---------------------------
(***************************************************************************)
(* SPSCQueueSafe (utils/spscqueue_safe.hpp): a bounded queue of rigtorp    *)
(* whose calls are put under a CSpinLock.  A queue is a record of its      *)
(* items and the holder of its lock.  pop() never waits inside the lock,   *)
(* so that it is one step; push() takes the lock and then waits, with the  *)
(* lock, until the queue has room, so that it is two.                      *)
(***************************************************************************)
EXTENDS Naturals, Sequences

CONSTANTS Capacity,     \* capacity of a queue (clientpool.cpp:59)
          Users         \* the threads that push

ASSUME CapacityAssumption == Capacity \in Nat \ {0}

Nobody == "nobody"

ASSUME UserAssumption == Nobody \notin Users

EmptyQueue == [items |-> << >>, lock |-> Nobody]

Queue(Item) == [items : Seq(Item), lock : Users \cup {Nobody}]

(* What one thread may do next on a queue.                                   *)
CanLock(queue) == queue.lock = Nobody

CanPush(queue) == Len(queue.items) < Capacity

TakenBy(queue, u) == [queue EXCEPT !.lock = u]

Pushed(queue, x) == [items |-> Append(queue.items, x), lock |-> Nobody]

\* Mutant: front() without pop().
PoppedNot(queue) == queue

Popped(queue) == [queue EXCEPT !.items = Tail(@)]
=============================================================================
