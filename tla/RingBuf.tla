------------------------------ MODULE RingBuf ------------------------------
(***************************************************************************)
(* The ring buffer of utils/cringbuf.hpp (baudvine::RingBuf), the storage  *)
(* of the rate limiter.  The backing array has Capacity + 1 slots, so that *)
(* an element is always constructed in a free slot before the element it   *)
(* replaces is destroyed.                                                  *)
(*                                                                         *)
(* A buffer is a record: data is the array data_, next and offset are      *)
(* next_ and ring_offset_, size is size_.  Iterators, erase and the copy   *)
(* operations are not modelled: nothing in the library instantiates them.  *)
(***************************************************************************)
EXTENDS Integers, Sequences

CONSTANTS Capacity,     \* capacity_
          Elem          \* what the slots hold

ASSUME CapacityAssumption == Capacity \in Nat

Slot == 0 .. Capacity   \* the Capacity + 1 slots of data_

Ring == [data : [Slot -> Elem], next : Slot, offset : Slot, size : 0 .. Capacity]

(* The array comes from the allocator, uninitialised: any contents will do. *)
NewRing(filler) == [data |-> [s \in Slot |-> filler], next |-> 0, offset |-> 0, size |-> 0]

Decrement(index) == IF index > 0 THEN index - 1 ELSE Capacity

\* Mutant: `<=' for `<', the index leaves the array.
IncrementLate(index) == IF index <= Capacity THEN index + 1 ELSE 0
Increment(index) == IF index < Capacity THEN index + 1 ELSE 0

\* Mutant: wraps as if the array had Capacity slots.
RingWrapShort(index) == IF index <= Capacity THEN index ELSE index - Capacity
RingWrap(index) == IF index <= Capacity THEN index ELSE index - Capacity - 1

(* operator[], and at() and front() where they do not throw. *)
At(r, index) == r.data[RingWrap(r.offset + index)]

Front(r) == At(r, 0)
Back(r)  == At(r, r.size - 1)

ShrinkFront(r) == [r EXCEPT !.offset = Increment(@), !.size = @ - 1]
\* Mutant: pop_back() forgets to move next_.
ShrinkBackSizeOnly(r) == [r EXCEPT !.size = @ - 1]
ShrinkBack(r)  == [r EXCEPT !.next = Decrement(@), !.size = @ - 1]
GrowFront(r)   == [r EXCEPT !.offset = Decrement(@), !.size = @ + 1]
GrowBack(r)    == [r EXCEPT !.next = Increment(@), !.size = @ + 1]

PopFront(r) == IF r.size = 0 THEN r ELSE ShrinkFront(r)
PopBack(r)  == IF r.size = 0 THEN r ELSE ShrinkBack(r)

\* Mutant: a full buffer drops nothing.
PushBackNoDrop(r, e) == GrowBack([r EXCEPT !.data[r.next] = e])

(* emplace_back: construct in the free slot, drop the front if full, grow. *)
PushBack(r, e) ==
    LET built == [r EXCEPT !.data[r.next] = e]
    IN  IF Capacity = 0 THEN r
        ELSE GrowBack(IF r.size = Capacity THEN PopFront(built) ELSE built)

\* Mutant: a full buffer drops its front, as emplace_back does.
PushFrontDropsFront(r, e) ==
    LET built == [r EXCEPT !.data[Decrement(r.offset)] = e]
    IN  GrowFront(IF r.size = Capacity THEN PopFront(built) ELSE built)

(* emplace_front: the mirror image. *)
PushFront(r, e) ==
    LET built == [r EXCEPT !.data[Decrement(r.offset)] = e]
    IN  IF Capacity = 0 THEN r
        ELSE GrowFront(IF r.size = Capacity THEN PopBack(built) ELSE built)

(* clear() pops the front until the buffer is empty. *)
Clear(r) == [r EXCEPT !.offset = RingWrap(r.offset + r.size), !.size = 0]

-----------------------------------------------------------------------------
(* next_ lies size_ slots after ring_offset_: the three indices agree.      *)
Aligned(r) == r.next = RingWrap(r.offset + r.size)

(* The sequence a buffer stands for, front first. *)
Contents(r) == [i \in 1 .. r.size |-> At(r, i - 1)]
=============================================================================
