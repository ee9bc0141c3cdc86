---------------------------- MODULE BoundedDeque ----------------------------
(***************************************************************************)
(* What baudvine::RingBuf promises: a deque of at most Capacity elements   *)
(* in which a push at one end of a full deque drops the element at the     *)
(* other end ("popping the front if necessary", cringbuf.hpp:770, :745).   *)
(***************************************************************************)
EXTENDS Integers, Sequences

CONSTANTS Capacity, Elem

VARIABLE deque

Init == deque = <<>>

(* Drop one element if there is no room for another one. *)
WithoutFirst(s) == IF Len(s) = Capacity THEN Tail(s) ELSE s
WithoutLast(s)  == IF Len(s) = Capacity THEN SubSeq(s, 1, Len(s) - 1) ELSE s

PushBack(e)  == deque' = IF Capacity = 0 THEN <<>> ELSE Append(WithoutFirst(deque), e)
PushFront(e) == deque' = IF Capacity = 0 THEN <<>> ELSE <<e>> \o WithoutLast(deque)
PopFront     == deque' = IF deque = <<>> THEN <<>> ELSE Tail(deque)
PopBack      == deque' = IF deque = <<>> THEN <<>> ELSE SubSeq(deque, 1, Len(deque) - 1)
Clear        == deque' = <<>>

Next == \/ \E e \in Elem : PushBack(e) \/ PushFront(e)
        \/ PopFront \/ PopBack \/ Clear

Spec == Init /\ [][Next]_deque
=============================================================================
