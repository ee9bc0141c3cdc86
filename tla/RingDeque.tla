----------------------------- MODULE RingDeque -----------------------------
(***************************************************************************)
(* A ring buffer under any sequence of calls of its public operations, and *)
(* its correctness: it implements the bounded deque.                       *)
(***************************************************************************)
EXTENDS RingBuf

CONSTANT Filler        \* what the allocator left in the array

ASSUME FillerAssumption == Filler \in Elem

VARIABLE rb

RingInit == rb = NewRing(Filler)

push_back(e)  == rb' = PushBack(rb, e)
push_front(e) == rb' = PushFront(rb, e)
pop_front     == rb' = PopFront(rb)
pop_back      == rb' = PopBack(rb)
clear         == rb' = Clear(rb)

RingNext == \/ \E e \in Elem : push_back(e) \/ push_front(e)
            \/ pop_front \/ pop_back \/ clear

RingSpec == RingInit /\ [][RingNext]_rb

-----------------------------------------------------------------------------
(* The buffer is a record of the right shape: every index stays inside the  *)
(* array and the size inside the capacity.                                  *)
RingTyped == rb \in Ring

(* The redundant indices agree whatever the mix of operations at both ends  *)
(* (ring_offset_, next_ and size_ are updated by four different helpers,    *)
(* cringbuf.hpp:404-432).                                                   *)
IndicesAligned == Aligned(rb)

(* Construction happens before the element it replaces is destroyed          *)
(* (cringbuf.hpp:758-764, :795-800): the slot next_ that emplace_back writes *)
(* and the slot before ring_offset_ that emplace_front writes hold no live   *)
(* element.                                                                  *)
LiveSlots == {RingWrap(rb.offset + i) : i \in 0 .. rb.size - 1}
SpareSlotIsFree == /\ rb.next \notin LiveSlots
                   /\ Decrement(rb.offset) \notin LiveSlots

(* What the operations rely on between calls, in any mix at both ends        *)
(* (cringbuf.hpp:404-432, :758-808).                                         *)
RingOK == RingTyped /\ IndicesAligned /\ SpareSlotIsFree

(* The refinement: read from the front, the buffer is the bounded deque, and *)
(* each operation is its namesake: a push that changed nothing, or the other *)
(* end, would still be some step of the deque (emplace_back and              *)
(* emplace_front, cringbuf.hpp:758-771, :795-808, are mirror images).        *)
Deque == INSTANCE BoundedDeque WITH deque <- Contents(rb)
ImplementsDeque ==
    /\ Deque!Init
    /\ [][/\ \A e \in Elem : /\ push_back(e) => Deque!PushBack(e)
                             /\ push_front(e) => Deque!PushFront(e)
          /\ pop_front => Deque!PopFront
          /\ pop_back => Deque!PopBack
          /\ clear => Deque!Clear]_rb

=============================================================================
