------------------------- MODULE RateLimiterProofs -------------------------
(***************************************************************************)
(* First the ring buffer, for every capacity and every type of elements:   *)
(* it is the bounded deque, its indices agree between calls, and each call *)
(* does to the contents what its namesake does to a sequence.  Then the    *)
(* rate limiter that records in it keeps its promise, for any number of    *)
(* threads, any positive maxCount, any window and any order in which stale *)
(* stamps are recorded.                                                    *)
(***************************************************************************)
EXTENDS RateLimiter, SequenceTheorems, FiniteSetTheorems, TLAPS

USE CapacityAssumption, FillerAssumption

(* Index arithmetic stays inside the array (Increment, Decrement, RingWrap,  *)
(* cringbuf.hpp:145-149, :385-391).                                          *)
LEMMA IndexInSlot ==
    /\ \A s \in Slot : Increment(s) \in Slot /\ Decrement(s) \in Slot
    /\ \A s \in Slot, n \in 0 .. Capacity : RingWrap(s + n) \in Slot
BY DEF Slot, Increment, Decrement, RingWrap

(* Moving the start forward, or going one slot further, is the same thing.   *)
LEMMA WrapStep ==
    ASSUME NEW s \in Slot, NEW n \in 0 .. Capacity
    PROVE  /\ RingWrap(Increment(s) + n) = RingWrap(s + (n + 1)) \/ n = Capacity
           /\ Increment(RingWrap(s + n)) = RingWrap(s + (n + 1))
<1>1. s \in Int /\ n \in Int /\ 0 <= s /\ s <= Capacity /\ 0 <= n /\ n <= Capacity
  BY DEF Slot
<1>2. CASE s < Capacity
  BY <1>1, <1>2 DEF RingWrap, Increment
<1>3. CASE s = Capacity
  BY <1>1, <1>3 DEF RingWrap, Increment
<1> QED BY <1>1, <1>2, <1>3

(* A live element is found where operator[] looks for it, and the slot that  *)
(* emplace_back() constructs in is not one of the live ones.                 *)
LEMMA NextIsFree ==
    ASSUME NEW r \in Ring, Aligned(r), NEW i \in 0 .. r.size - 1
    PROVE  RingWrap(r.offset + i) # r.next
BY DEF Ring, Slot, Aligned, RingWrap

(* What the helpers of cringbuf.hpp:404-432 do to the record, field by field. *)
LEMMA Fields ==
    ASSUME NEW r \in Ring, NEW e \in Elem
    PROVE  /\ r = [data |-> r.data, next |-> r.next, offset |-> r.offset, size |-> r.size]
           /\ [r EXCEPT !.data[r.next] = e]
                 = [data |-> [r.data EXCEPT ![r.next] = e],
                    next |-> r.next, offset |-> r.offset, size |-> r.size]
BY DEF Ring

(* emplace_back() as one assignment to each field. *)
LEMMA PushBackFields ==
    ASSUME NEW r \in Ring, NEW e \in Elem, Capacity > 0
    PROVE  PushBack(r, e)
             = [data   |-> [r.data EXCEPT ![r.next] = e],
                next   |-> Increment(r.next),
                offset |-> IF r.size = Capacity THEN Increment(r.offset) ELSE r.offset,
                size   |-> IF r.size = Capacity THEN Capacity ELSE r.size + 1]
<1> DEFINE b == [data |-> [r.data EXCEPT ![r.next] = e],
                 next |-> r.next, offset |-> r.offset, size |-> r.size]
<1>1. [r EXCEPT !.data[r.next] = e] = b
  BY Fields
<1>2. PushBack(r, e) = GrowBack(IF r.size = Capacity THEN PopFront(b) ELSE b)
  BY <1>1 DEF PushBack
<1>3. CASE r.size = Capacity
  <2>1. PopFront(b) = [data |-> b.data, next |-> r.next,
                       offset |-> Increment(r.offset), size |-> Capacity - 1]
    <3>1. /\ b.size = Capacity /\ b.offset = r.offset /\ b.next = r.next
          /\ b = [data |-> b.data, next |-> r.next, offset |-> r.offset, size |-> Capacity]
      BY <1>3
    <3> HIDE DEF b
    <3>2. PopFront(b) = ShrinkFront(b)
      BY <3>1 DEF PopFront
    <3>3. ShrinkFront(b) = [[b EXCEPT !.offset = Increment(r.offset)] EXCEPT !.size = Capacity - 1]
      BY <3>1 DEF ShrinkFront
    <3>4. [b EXCEPT !.offset = Increment(r.offset)]
            = [data |-> b.data, next |-> r.next, offset |-> Increment(r.offset), size |-> Capacity]
      BY <3>1
    <3> QED BY <3>2, <3>3, <3>4
  <2> HIDE DEF b
  <2>2. PushBack(r, e) = GrowBack([data |-> b.data, next |-> r.next,
                       offset |-> Increment(r.offset), size |-> Capacity - 1])
    BY <1>2, <1>3, <2>1
  <2>3. PushBack(r, e) = [data |-> b.data, next |-> Increment(r.next),
                       offset |-> Increment(r.offset), size |-> (Capacity - 1) + 1]
    BY <2>2 DEF GrowBack
  <2>4. (Capacity - 1) + 1 = Capacity
    OBVIOUS
  <2> QED BY <2>3, <2>4, <1>3 DEF b
<1>4. CASE r.size # Capacity
  BY <1>2, <1>4 DEF GrowBack
<1> QED BY <1>3, <1>4

(* emplace_back() into a full buffer drops the front: the new element is     *)
(* last and every other element moves one place forward.                     *)
LEMMA PushBackFull ==
    ASSUME NEW r \in Ring, Aligned(r), NEW e \in Elem, Capacity > 0, r.size = Capacity
    PROVE  LET q == PushBack(r, e)
           IN  /\ q \in Ring
               /\ Aligned(q)
               /\ q.size = Capacity
               /\ At(q, Capacity - 1) = e
               /\ \A i \in 0 .. Capacity - 2 : At(q, i) = At(r, i + 1)
<1> DEFINE q == PushBack(r, e)
<1>1. /\ q.data = [r.data EXCEPT ![r.next] = e]
      /\ q.next = Increment(r.next)
      /\ q.offset = Increment(r.offset)
      /\ q.size = Capacity
      /\ q = [data |-> q.data, next |-> q.next, offset |-> q.offset, size |-> q.size]
  BY PushBackFields
<1> HIDE DEF q
<1>2. r.next \in Slot /\ r.offset \in Slot /\ r.data \in [Slot -> Elem]
  BY DEF Ring
<1>3. q \in Ring
  <2>1. q.next \in Slot /\ q.offset \in Slot
    BY <1>1, <1>2, IndexInSlot
  <2>2. q.data \in [Slot -> Elem]
    BY <1>1, <1>2
  <2>3. q.size \in 0 .. Capacity
    BY <1>1
  <2> QED BY <1>1, <2>1, <2>2, <2>3 DEF Ring
<1>4. Aligned(q)
  <2>1. q.next = RingWrap(r.offset + (Capacity + 1))
    BY <1>1, <1>2, WrapStep DEF Aligned
  <2>2. q.next = r.offset
    BY <2>1, <1>2 DEF RingWrap, Slot
  <2>3. RingWrap(Increment(r.offset) + Capacity) = r.offset
    BY <1>2 DEF RingWrap, Slot, Increment
  <2> QED BY <2>2, <2>3, <1>1 DEF Aligned
<1>5. At(q, Capacity - 1) = e
  <2>1. RingWrap(q.offset + (Capacity - 1)) = r.next
    BY <1>1, <1>2 DEF Aligned, RingWrap, Increment, Slot
  <2> QED BY <2>1, <1>1, <1>2 DEF At
<1>6. \A i \in 0 .. Capacity - 2 : At(q, i) = At(r, i + 1)
  <2> SUFFICES ASSUME NEW i \in 0 .. Capacity - 2
               PROVE  At(q, i) = At(r, i + 1)
    OBVIOUS
  <2>1. RingWrap(q.offset + i) = RingWrap(r.offset + (i + 1))
    BY <1>1, <1>2, WrapStep
  <2>2. RingWrap(r.offset + (i + 1)) # r.next
    BY <1>2 DEF Aligned, RingWrap, Slot
  <2>3. RingWrap(r.offset + (i + 1)) \in Slot
    BY <1>2, IndexInSlot
  <2> QED BY <2>1, <2>2, <2>3, <1>1, <1>2 DEF At
<1> QED BY <1>1, <1>3, <1>4, <1>5, <1>6 DEF q

(* emplace_back() with room left: the new element is last and the others do  *)
(* not move.                                                                 *)
LEMMA PushBackRoom ==
    ASSUME NEW r \in Ring, Aligned(r), NEW e \in Elem, r.size < Capacity
    PROVE  LET q == PushBack(r, e)
           IN  /\ q \in Ring
               /\ Aligned(q)
               /\ q.size = r.size + 1
               /\ At(q, r.size) = e
               /\ \A i \in 0 .. r.size - 1 : At(q, i) = At(r, i)
<1> DEFINE q == PushBack(r, e)
<1>1. /\ q.data = [r.data EXCEPT ![r.next] = e]
      /\ q.next = Increment(r.next)
      /\ q.offset = r.offset
      /\ q.size = r.size + 1
      /\ q = [data |-> q.data, next |-> q.next, offset |-> q.offset, size |-> q.size]
  <2>1. r.size # Capacity /\ Capacity > 0
    BY DEF Ring
  <2> QED BY <2>1, PushBackFields
<1> HIDE DEF q
<1>2. /\ r.next \in Slot /\ r.offset \in Slot /\ r.data \in [Slot -> Elem]
      /\ r.size \in 0 .. Capacity
  BY DEF Ring
<1>3. q \in Ring
  <2>1. q.next \in Slot /\ q.offset \in Slot
    BY <1>1, <1>2, IndexInSlot
  <2>2. q.data \in [Slot -> Elem]
    BY <1>1, <1>2
  <2>3. q.size \in 0 .. Capacity
    BY <1>1, <1>2
  <2> QED BY <1>1, <2>1, <2>2, <2>3 DEF Ring
<1>4. Aligned(q)
  BY <1>1, <1>2, WrapStep DEF Aligned
<1>5. At(q, r.size) = e
  BY <1>1, <1>2 DEF At, Aligned
<1>6. \A i \in 0 .. r.size - 1 : At(q, i) = At(r, i)
  <2> SUFFICES ASSUME NEW i \in 0 .. r.size - 1
               PROVE  At(q, i) = At(r, i)
    OBVIOUS
  <2>1. RingWrap(r.offset + i) # r.next /\ RingWrap(r.offset + i) \in Slot
    BY <1>2, NextIsFree, IndexInSlot
  <2> QED BY <2>1, <1>1, <1>2 DEF At
<1> QED BY <1>1, <1>3, <1>4, <1>5, <1>6 DEF q
(* Moving the start back and looking one place further finds the same slot;  *)
(* moving the end back undoes the last slot.                                 *)
LEMMA WrapBack ==
    ASSUME NEW s \in Slot, NEW n \in 0 .. Capacity
    PROVE  /\ RingWrap(Decrement(s) + (n + 1)) = RingWrap(s + n)
           /\ n > 0 => Decrement(RingWrap(s + n)) = RingWrap(s + (n - 1))
<1>1. s \in Int /\ n \in Int /\ 0 <= s /\ s <= Capacity /\ 0 <= n /\ n <= Capacity
  BY DEF Slot
<1>2. CASE s = 0
  BY <1>1, <1>2 DEF RingWrap, Decrement
<1>3. CASE s > 0
  BY <1>1, <1>3 DEF RingWrap, Decrement
<1> QED BY <1>1, <1>2, <1>3

(* What a buffer stands for: a sequence of its size, read with operator[].   *)
LEMMA ContentsRead ==
    ASSUME NEW r \in Ring
    PROVE  /\ Contents(r) \in Seq(Elem)
           /\ Len(Contents(r)) = r.size
           /\ \A i \in 1 .. r.size : Contents(r)[i] = At(r, i - 1)
           /\ \A i \in 0 .. r.size - 1 : At(r, i) \in Elem
<1>1. r.size \in Nat /\ r.offset \in Slot /\ r.data \in [Slot -> Elem] /\ r.size <= Capacity
  BY DEF Ring
<1>2. \A i \in 0 .. r.size - 1 : At(r, i) \in Elem
  BY <1>1, IndexInSlot DEF At
<1>3. Contents(r) \in [1 .. r.size -> Elem]
  <2>1. \A i \in 1 .. r.size : i - 1 \in 0 .. r.size - 1
    BY <1>1
  <2> QED BY <1>2, <2>1 DEF Contents
<1> QED BY <1>1, <1>2, <1>3 DEF Contents

-----------------------------------------------------------------------------
(* pop_front(): the other elements move one place forward.                   *)
LEMMA PopFrontEffect ==
    ASSUME NEW r \in Ring, Aligned(r), r.size > 0
    PROVE  LET q == PopFront(r)
           IN  /\ q \in Ring /\ Aligned(q)
               /\ q.size = r.size - 1
               /\ \A i \in 0 .. r.size - 2 : At(q, i) = At(r, i + 1)
<1> DEFINE q == PopFront(r)
<1>1. q = [data |-> r.data, next |-> r.next, offset |-> Increment(r.offset), size |-> r.size - 1]
  <2>1. r = [data |-> r.data, next |-> r.next, offset |-> r.offset, size |-> r.size]
    BY DEF Ring
  <2>2. q = ShrinkFront(r)
    BY DEF PopFront, Ring
  <2> QED BY <2>1, <2>2 DEF ShrinkFront
<1> HIDE DEF q
<1>2. /\ r.next \in Slot /\ r.offset \in Slot /\ r.data \in [Slot -> Elem]
      /\ r.size \in 0 .. Capacity
  BY DEF Ring
<1>3. q \in Ring
  <2>1. q.offset \in Slot /\ q.size \in 0 .. Capacity
    BY <1>1, <1>2, IndexInSlot
  <2> QED BY <1>1, <1>2, <2>1 DEF Ring
<1>4. \A n \in 0 .. r.size - 1 : RingWrap(q.offset + n) = RingWrap(r.offset + (n + 1))
  BY <1>1, <1>2, WrapStep
<1>5. Aligned(q)
  BY <1>1, <1>2, <1>4 DEF Aligned
<1>6. \A i \in 0 .. r.size - 2 : At(q, i) = At(r, i + 1)
  BY <1>1, <1>2, <1>4 DEF At
<1> QED BY <1>1, <1>3, <1>5, <1>6 DEF q

(* pop_back(): the other elements stay.                                      *)
LEMMA PopBackEffect ==
    ASSUME NEW r \in Ring, Aligned(r), r.size > 0
    PROVE  LET q == PopBack(r)
           IN  /\ q \in Ring /\ Aligned(q)
               /\ q.size = r.size - 1
               /\ \A i \in 0 .. r.size - 2 : At(q, i) = At(r, i)
<1> DEFINE q == PopBack(r)
<1>1. q = [data |-> r.data, next |-> Decrement(r.next), offset |-> r.offset, size |-> r.size - 1]
  <2>1. r = [data |-> r.data, next |-> r.next, offset |-> r.offset, size |-> r.size]
    BY DEF Ring
  <2>2. q = ShrinkBack(r)
    BY DEF PopBack, Ring
  <2> QED BY <2>1, <2>2 DEF ShrinkBack
<1> HIDE DEF q
<1>2. /\ r.next \in Slot /\ r.offset \in Slot /\ r.data \in [Slot -> Elem]
      /\ r.size \in 0 .. Capacity
  BY DEF Ring
<1>3. q \in Ring
  <2>1. q.next \in Slot /\ q.size \in 0 .. Capacity
    BY <1>1, <1>2, IndexInSlot
  <2> QED BY <1>1, <1>2, <2>1 DEF Ring
<1>4. Aligned(q)
  BY <1>1, <1>2, WrapBack DEF Aligned
<1>5. \A i \in 0 .. r.size - 2 : At(q, i) = At(r, i)
  BY <1>1 DEF At
<1> QED BY <1>1, <1>3, <1>4, <1>5 DEF q

(* emplace_front() as one assignment to each field.                          *)
LEMMA PushFrontFields ==
    ASSUME NEW r \in Ring, NEW e \in Elem, Capacity > 0
    PROVE  PushFront(r, e)
             = [data   |-> [r.data EXCEPT ![Decrement(r.offset)] = e],
                next   |-> IF r.size = Capacity THEN Decrement(r.next) ELSE r.next,
                offset |-> Decrement(r.offset),
                size   |-> IF r.size = Capacity THEN Capacity ELSE r.size + 1]
<1> DEFINE b == [data |-> [r.data EXCEPT ![Decrement(r.offset)] = e],
                 next |-> r.next, offset |-> r.offset, size |-> r.size]
<1>1. [r EXCEPT !.data[Decrement(r.offset)] = e] = b
  BY DEF Ring
<1>2. PushFront(r, e) = GrowFront(IF r.size = Capacity THEN PopBack(b) ELSE b)
  BY <1>1 DEF PushFront
<1>3. CASE r.size = Capacity
  <2>1. /\ b.size = Capacity /\ b.offset = r.offset /\ b.next = r.next
        /\ b = [data |-> b.data, next |-> r.next, offset |-> r.offset, size |-> Capacity]
    BY <1>3
  <2> HIDE DEF b
  <2>2. PopBack(b) = ShrinkBack(b)
    BY <2>1 DEF PopBack
  <2>3. ShrinkBack(b) = [data |-> b.data, next |-> Decrement(r.next),
                         offset |-> r.offset, size |-> Capacity - 1]
    <3>1. ShrinkBack(b) = [[b EXCEPT !.next = Decrement(r.next)] EXCEPT !.size = Capacity - 1]
      BY <2>1 DEF ShrinkBack
    <3>2. [b EXCEPT !.next = Decrement(r.next)]
            = [data |-> b.data, next |-> Decrement(r.next), offset |-> r.offset, size |-> Capacity]
      BY <2>1
    <3>3. ShrinkBack(b)
            = [[data |-> b.data, next |-> Decrement(r.next), offset |-> r.offset, size |-> Capacity]
                  EXCEPT !.size = Capacity - 1]
      BY <3>1, <3>2
    <3> QED BY <3>3
  <2>5. PushFront(r, e) = GrowFront([data |-> b.data, next |-> Decrement(r.next),
                                     offset |-> r.offset, size |-> Capacity - 1])
    BY <1>2, <1>3, <2>2, <2>3
  <2>6. PushFront(r, e) = [data |-> b.data, next |-> Decrement(r.next),
                           offset |-> Decrement(r.offset), size |-> (Capacity - 1) + 1]
    BY <2>5 DEF GrowFront
  <2>4. (Capacity - 1) + 1 = Capacity
    OBVIOUS
  <2> QED BY <2>4, <2>6, <1>3 DEF b
<1>4. CASE r.size # Capacity
  BY <1>2, <1>4 DEF GrowFront
<1> QED BY <1>3, <1>4

(* emplace_front(): the new element is first, the others move one place      *)
(* back, and a full buffer drops its last one.                               *)
LEMMA PushFrontEffect ==
    ASSUME NEW r \in Ring, Aligned(r), NEW e \in Elem, Capacity > 0
    PROVE  LET q == PushFront(r, e)
           IN  /\ q \in Ring /\ Aligned(q)
               /\ q.size = IF r.size = Capacity THEN Capacity ELSE r.size + 1
               /\ At(q, 0) = e
               /\ \A i \in 1 .. q.size - 1 : At(q, i) = At(r, i - 1)
<1> DEFINE q == PushFront(r, e)
<1>1. /\ q.data = [r.data EXCEPT ![Decrement(r.offset)] = e]
      /\ q.next = IF r.size = Capacity THEN Decrement(r.next) ELSE r.next
      /\ q.offset = Decrement(r.offset)
      /\ q.size = IF r.size = Capacity THEN Capacity ELSE r.size + 1
      /\ q = [data |-> q.data, next |-> q.next, offset |-> q.offset, size |-> q.size]
  BY PushFrontFields
<1> HIDE DEF q
<1>2. /\ r.next \in Slot /\ r.offset \in Slot /\ r.data \in [Slot -> Elem]
      /\ r.size \in 0 .. Capacity
  BY DEF Ring
<1>3. q.size \in 1 .. Capacity /\ q.size - 1 <= r.size
  BY <1>1, <1>2
<1>4. q \in Ring
  <2>1. q.next \in Slot /\ q.offset \in Slot
    BY <1>1, <1>2, IndexInSlot
  <2>2. q.data \in [Slot -> Elem]
    BY <1>1, <1>2
  <2> QED BY <1>1, <1>3, <2>1, <2>2 DEF Ring
<1>5. Aligned(q)
  <2>1. CASE r.size = Capacity
    <3>1. q.next = RingWrap(r.offset + (Capacity - 1))
      BY <1>1, <1>2, <2>1, WrapBack DEF Aligned
    <3>2. RingWrap(Decrement(r.offset) + ((Capacity - 1) + 1)) = RingWrap(r.offset + (Capacity - 1))
      BY <1>2, WrapBack
    <3> QED BY <3>1, <3>2, <1>1, <2>1 DEF Aligned
  <2>2. CASE r.size # Capacity
    BY <1>1, <1>2, <2>2, WrapBack DEF Aligned
  <2> QED BY <2>1, <2>2
<1>6. At(q, 0) = e
  <2>1. Decrement(r.offset) \in Slot
    BY <1>2, IndexInSlot
  <2>2. RingWrap(q.offset + 0) = Decrement(r.offset)
    BY <1>1, <2>1 DEF RingWrap, Slot
  <2> QED BY <1>1, <1>2, <2>1, <2>2 DEF At
<1>7. \A i \in 1 .. q.size - 1 : At(q, i) = At(r, i - 1)
  <2> SUFFICES ASSUME NEW i \in 1 .. q.size - 1
               PROVE  At(q, i) = At(r, i - 1)
    OBVIOUS
  <2>1. i - 1 \in 0 .. Capacity - 1 /\ (i - 1) + 1 = i
    BY <1>3
  <2>2. RingWrap(q.offset + i) = RingWrap(r.offset + (i - 1))
    BY <1>1, <1>2, <2>1, WrapBack
  <2>3. RingWrap(r.offset + (i - 1)) # Decrement(r.offset)
    BY <1>2, <2>1 DEF RingWrap, Decrement, Slot
  <2>4. RingWrap(r.offset + (i - 1)) \in Slot
    BY <1>2, <2>1, IndexInSlot
  <2> QED BY <1>1, <1>2, <2>2, <2>3, <2>4 DEF At
<1> QED BY <1>1, <1>4, <1>5, <1>6, <1>7 DEF q

(* clear() leaves an empty buffer whose indices agree.                       *)
LEMMA ClearEffect ==
    ASSUME NEW r \in Ring, Aligned(r)
    PROVE  LET q == Clear(r) IN q \in Ring /\ Aligned(q) /\ q.size = 0
<1> DEFINE q == Clear(r)
<1>1. /\ r.next \in Slot /\ r.offset \in Slot /\ r.data \in [Slot -> Elem]
      /\ r.size \in 0 .. Capacity
  BY DEF Ring
<1>2. q = [data |-> r.data, next |-> r.next, offset |-> RingWrap(r.offset + r.size), size |-> 0]
  <2>1. r = [data |-> r.data, next |-> r.next, offset |-> r.offset, size |-> r.size]
    BY DEF Ring
  <2>2. [r EXCEPT !.offset = RingWrap(r.offset + r.size)]
          = [data |-> r.data, next |-> r.next, offset |-> RingWrap(r.offset + r.size), size |-> r.size]
    BY <2>1
  <2>3. q = [[r EXCEPT !.offset = RingWrap(r.offset + r.size)] EXCEPT !.size = 0]
    BY DEF Clear
  <2> QED BY <2>2, <2>3
<1>3. RingWrap(r.offset + r.size) \in Slot
  BY <1>1, IndexInSlot
<1>4. q \in Ring
  BY <1>1, <1>2, <1>3 DEF Ring
<1>5. Aligned(q)
  <2>1. \A s \in Slot : RingWrap(s + 0) = s
    BY DEF RingWrap, Slot
  <2> QED BY <1>2, <1>3, <2>1 DEF Aligned
<1> QED BY <1>2, <1>4, <1>5

(* A buffer of capacity 0, and what was popped of an empty one, stay.        *)
LEMMA NothingToDo ==
    ASSUME NEW r \in Ring
    PROVE  /\ Capacity = 0 => \A e \in Elem : PushBack(r, e) = r /\ PushFront(r, e) = r
           /\ r.size = 0 => PopFront(r) = r /\ PopBack(r) = r
           /\ r.size = 0 <=> Contents(r) = << >>
<1>1. Contents(r) \in Seq(Elem) /\ Len(Contents(r)) = r.size
  BY ContentsRead
<1>2. r.size = 0 <=> Contents(r) = << >>
  BY <1>1, EmptySeq
<1> QED BY <1>2 DEF PushBack, PushFront, PopFront, PopBack
-----------------------------------------------------------------------------
(* Each call does to the contents what the deque's does to a sequence.       *)
LEMMA SubSeqStart ==
    ASSUME NEW S, NEW s, NEW n \in Nat, \A i \in 1 .. n : s[i] \in S
    PROVE  /\ SubSeq(s, 1, n) \in Seq(S) /\ Len(SubSeq(s, 1, n)) = n
           /\ \A i \in 1 .. n : SubSeq(s, 1, n)[i] = s[i]
<1> DEFINE t == SubSeq(s, 1, n)
<1>1. /\ t \in Seq(S) /\ Len(t) = IF 1 <= n THEN n - 1 + 1 ELSE 0
      /\ \A i \in 1 .. n - 1 + 1 : t[i] = s[1 + i - 1]
  BY SubSeqProperties
<1> HIDE DEF t
<1>2. Len(t) = n /\ \A i \in 1 .. n : t[i] = s[i]
  BY <1>1
<1> QED BY <1>1, <1>2 DEF t

LEMMA PopsContents ==
    ASSUME NEW r \in Ring, Aligned(r), r.size > 0
    PROVE  /\ Contents(PopFront(r)) = Tail(Contents(r))
           /\ Contents(PopBack(r)) = SubSeq(Contents(r), 1, Len(Contents(r)) - 1)
<1> DEFINE c == Contents(r)
<1>1. /\ c \in Seq(Elem) /\ Len(c) = r.size /\ c # << >>
      /\ \A i \in 1 .. r.size : c[i] = At(r, i - 1)
  BY ContentsRead, NothingToDo
<1>2. r.size \in Nat
  BY DEF Ring
<1> HIDE DEF c
<1>3. Contents(PopFront(r)) = Tail(c)
  <2> DEFINE q == PopFront(r)
             d == Contents(q)
  <2>1. q \in Ring /\ q.size = r.size - 1 /\ \A i \in 0 .. r.size - 2 : At(q, i) = At(r, i + 1)
    BY PopFrontEffect
  <2> HIDE DEF q
  <2>2. d \in Seq(Elem) /\ Len(d) = r.size - 1 /\ \A i \in 1 .. r.size - 1 : d[i] = At(q, i - 1)
    BY <2>1, ContentsRead
  <2> HIDE DEF d
  <2>3. Tail(c) \in Seq(Elem) /\ Len(Tail(c)) = r.size - 1 /\ \A i \in 1 .. r.size - 1 : Tail(c)[i] = c[i + 1]
    BY <1>1, HeadTailProperties
  <2>4. \A i \in 1 .. r.size - 1 : d[i] = Tail(c)[i]
    <3> SUFFICES ASSUME NEW i \in 1 .. r.size - 1
                 PROVE  d[i] = Tail(c)[i]
      OBVIOUS
    <3>1. i - 1 \in 0 .. r.size - 2 /\ i + 1 \in 1 .. r.size /\ (i - 1) + 1 = i /\ (i + 1) - 1 = i
      BY <1>2
    <3> QED BY <3>1, <2>1, <2>2, <2>3, <1>1
  <2>5. d = Tail(c)
    BY <2>2, <2>3, <2>4, SeqEqual
  <2> QED BY <2>5 DEF d, q
<1>4. Contents(PopBack(r)) = SubSeq(c, 1, Len(c) - 1)
  <2> DEFINE q == PopBack(r)
             d == Contents(q)
             t == SubSeq(c, 1, r.size - 1)
  <2>1. q \in Ring /\ q.size = r.size - 1 /\ \A i \in 0 .. r.size - 2 : At(q, i) = At(r, i)
    BY PopBackEffect
  <2> HIDE DEF q
  <2>2. d \in Seq(Elem) /\ Len(d) = r.size - 1 /\ \A i \in 1 .. r.size - 1 : d[i] = At(q, i - 1)
    BY <2>1, ContentsRead
  <2> HIDE DEF d
  <2>3. \A i \in 1 .. r.size - 1 : c[i] \in Elem
    BY <1>1, <1>2, ElementOfSeq
  <2>4. t \in Seq(Elem) /\ Len(t) = r.size - 1 /\ \A i \in 1 .. r.size - 1 : t[i] = c[i]
    <3>1. r.size - 1 \in Nat
      BY <1>2
    <3> QED BY <3>1, <2>3, SubSeqStart
  <2> HIDE DEF t
  <2>5. \A i \in 1 .. r.size - 1 : d[i] = t[i]
    <3> SUFFICES ASSUME NEW i \in 1 .. r.size - 1
                 PROVE  d[i] = t[i]
      OBVIOUS
    <3>1. i - 1 \in 0 .. r.size - 2 /\ i \in 1 .. r.size
      BY <1>2
    <3> QED BY <3>1, <2>1, <2>2, <2>4, <1>1
  <2>6. d = t
    BY <2>2, <2>4, <2>5, SeqEqual
  <2> QED BY <2>6, <1>1 DEF d, q, t
<1> QED BY <1>3, <1>4 DEF c

(* After emplace_back() the contents are those of before, without the first  *)
(* one if the buffer was full, and the new element.                          *)
LEMMA PushBackContents ==
    ASSUME NEW r \in Ring, Aligned(r), NEW e \in Elem, Capacity > 0
    PROVE  /\ PushBack(r, e) \in Ring /\ Aligned(PushBack(r, e))
           /\ Contents(PushBack(r, e))
                = Append(IF Len(Contents(r)) = Capacity THEN Tail(Contents(r)) ELSE Contents(r), e)
<1> DEFINE c == Contents(r)
           q == PushBack(r, e)
           d == Contents(q)
           s == IF Len(c) = Capacity THEN Tail(c) ELSE c
<1>1. /\ c \in Seq(Elem) /\ Len(c) = r.size
      /\ \A i \in 1 .. r.size : c[i] = At(r, i - 1)
      /\ r.size > 0 => c # << >>
      /\ r.size \in 0 .. Capacity
  BY ContentsRead, NothingToDo DEF Ring
<1> HIDE DEF c
<1>2. CASE r.size = Capacity
  <2>1. /\ q \in Ring /\ Aligned(q) /\ q.size = Capacity /\ At(q, Capacity - 1) = e
        /\ \A i \in 0 .. Capacity - 2 : At(q, i) = At(r, i + 1)
    BY <1>2, PushBackFull
  <2> HIDE DEF q
  <2>2. d \in Seq(Elem) /\ Len(d) = Capacity /\ \A i \in 1 .. Capacity : d[i] = At(q, i - 1)
    BY <2>1, ContentsRead
  <2> HIDE DEF d
  <2>3. s \in Seq(Elem) /\ Len(s) = Capacity - 1 /\ \A i \in 1 .. Capacity - 1 : s[i] = c[i + 1]
    BY <1>1, <1>2, HeadTailProperties
  <2> HIDE DEF s
  <2>4. /\ Append(s, e) \in Seq(Elem) /\ Len(Append(s, e)) = Capacity
        /\ \A i \in 1 .. Capacity - 1 : Append(s, e)[i] = s[i]
        /\ Append(s, e)[Capacity] = e
    BY <2>3, AppendProperties
  <2>5. ASSUME NEW i \in 1 .. Capacity PROVE d[i] = Append(s, e)[i]
    <3>1. CASE i = Capacity
      BY <3>1, <2>1, <2>2, <2>4
    <3>2. CASE i # Capacity
      <4>1. /\ i \in 1 .. Capacity - 1 /\ i - 1 \in 0 .. Capacity - 2 /\ i + 1 \in 1 .. Capacity
            /\ (i - 1) + 1 = i /\ (i + 1) - 1 = i
        BY <3>2
      <4> QED BY <4>1, <2>1, <2>2, <2>3, <2>4, <1>1, <1>2
    <3> QED BY <3>1, <3>2
  <2>6. d = Append(s, e)
    BY <2>2, <2>4, <2>5, SeqEqual
  <2> QED BY <2>1, <2>6 DEF d, q, s, c
<1>3. CASE r.size # Capacity
  <2>1. /\ q \in Ring /\ Aligned(q) /\ q.size = r.size + 1 /\ At(q, r.size) = e
        /\ \A i \in 0 .. r.size - 1 : At(q, i) = At(r, i)
    BY <1>1, <1>3, PushBackRoom
  <2> HIDE DEF q
  <2>2. d \in Seq(Elem) /\ Len(d) = r.size + 1 /\ \A i \in 1 .. r.size + 1 : d[i] = At(q, i - 1)
    BY <2>1, ContentsRead
  <2> HIDE DEF d
  <2>3. s = c
    BY <1>1, <1>3
  <2>4. /\ Append(s, e) \in Seq(Elem) /\ Len(Append(s, e)) = r.size + 1
        /\ \A i \in 1 .. r.size : Append(s, e)[i] = c[i]
        /\ Append(s, e)[r.size + 1] = e
    BY <2>3, <1>1, AppendProperties
  <2> HIDE DEF s
  <2>5. ASSUME NEW i \in 1 .. r.size + 1 PROVE d[i] = Append(s, e)[i]
    <3>1. CASE i = r.size + 1
      <4>1. i - 1 = r.size
        BY <3>1, <1>1
      <4> QED BY <3>1, <4>1, <2>1, <2>2, <2>4
    <3>2. CASE i # r.size + 1
      <4>1. i \in 1 .. r.size /\ i - 1 \in 0 .. r.size - 1
        BY <3>2, <1>1
      <4> QED BY <4>1, <2>1, <2>2, <2>4, <1>1
    <3> QED BY <3>1, <3>2
  <2>6. d = Append(s, e)
    BY <2>2, <2>4, <2>5, SeqEqual
  <2> QED BY <2>1, <2>6 DEF d, q, s, c
<1> QED BY <1>2, <1>3

(* emplace_front(), its mirror image.                                        *)
LEMMA PushFrontContents ==
    ASSUME NEW r \in Ring, Aligned(r), NEW e \in Elem, Capacity > 0
    PROVE  /\ PushFront(r, e) \in Ring /\ Aligned(PushFront(r, e))
           /\ Contents(PushFront(r, e))
                = <<e>> \o IF Len(Contents(r)) = Capacity
                           THEN SubSeq(Contents(r), 1, Len(Contents(r)) - 1) ELSE Contents(r)
<1> DEFINE c == Contents(r)
           q == PushFront(r, e)
           d == Contents(q)
           n == q.size
           s == IF Len(c) = Capacity THEN SubSeq(c, 1, Len(c) - 1) ELSE c
<1>1. /\ c \in Seq(Elem) /\ Len(c) = r.size
      /\ \A i \in 1 .. r.size : c[i] = At(r, i - 1)
      /\ r.size \in 0 .. Capacity
  BY ContentsRead DEF Ring
<1> HIDE DEF c
<1>2. /\ q \in Ring /\ Aligned(q)
      /\ n = IF r.size = Capacity THEN Capacity ELSE r.size + 1
      /\ At(q, 0) = e
      /\ \A i \in 1 .. n - 1 : At(q, i) = At(r, i - 1)
  BY PushFrontEffect
<1> HIDE DEF q
<1>3. d \in Seq(Elem) /\ Len(d) = n /\ \A i \in 1 .. n : d[i] = At(q, i - 1)
  BY <1>2, ContentsRead
<1>4. n \in 1 .. Capacity /\ n - 1 <= r.size
  BY <1>1, <1>2
<1> HIDE DEF d, n
<1>5. s \in Seq(Elem) /\ Len(s) = n - 1 /\ \A i \in 1 .. n - 1 : s[i] = c[i]
  <2>1. CASE r.size = Capacity
    <3>1. \A i \in 1 .. Capacity - 1 : c[i] \in Elem
      BY <1>1, <2>1, ElementOfSeq
    <3> DEFINE t == SubSeq(c, 1, Capacity - 1)
    <3>2. /\ t \in Seq(Elem)
          /\ Len(t) = IF 1 <= Capacity - 1 THEN (Capacity - 1) - 1 + 1 ELSE 0
          /\ \A i \in 1 .. (Capacity - 1) - 1 + 1 : t[i] = c[1 + i - 1]
      BY <3>1, SubSeqProperties
    <3>3. s = t /\ n = Capacity
      BY <1>1, <1>2, <2>1
    <3> HIDE DEF s, t
    <3>4. (Capacity - 1) - 1 + 1 = n - 1 /\ \A i \in 1 .. n - 1 : 1 + i - 1 = i
      BY <3>3
    <3>5. Len(t) = n - 1
      BY <3>2, <3>3
    <3> QED BY <3>2, <3>3, <3>4, <3>5
  <2>2. CASE r.size # Capacity
    BY <1>1, <1>2, <2>2
  <2> QED BY <2>1, <2>2
<1> HIDE DEF s
<1>6. /\ <<e>> \in Seq(Elem) /\ Len(<<e>>) = 1 /\ <<e>>[1] = e
  OBVIOUS
<1> DEFINE f == <<e>>
<1>7. f \in Seq(Elem) /\ Len(f) = 1 /\ f[1] = e
  BY <1>6
<1> HIDE DEF f
<1>8. /\ f \o s \in Seq(Elem) /\ Len(f \o s) = n
      /\ \A i \in 1 .. n : (f \o s)[i] = IF i <= 1 THEN f[i] ELSE s[i - 1]
  <2>1. /\ f \o s \in Seq(Elem) /\ Len(f \o s) = Len(f) + Len(s)
        /\ \A i \in 1 .. Len(f) + Len(s) :
             (f \o s)[i] = IF i <= Len(f) THEN f[i] ELSE s[i - Len(f)]
    BY <1>5, <1>7, ConcatProperties
  <2>2. Len(f) = 1 /\ Len(f) + Len(s) = n
    BY <1>4, <1>5, <1>7
  <2> QED BY <2>1, <2>2
<1>9. ASSUME NEW i \in 1 .. n PROVE d[i] = (f \o s)[i]
  <2>1. CASE i = 1
    BY <2>1, <1>2, <1>3, <1>7, <1>8, SMTT(30)
  <2>2. CASE i # 1
    <3>1. i - 1 \in 1 .. n - 1 /\ i - 1 \in 1 .. r.size /\ ~(i <= 1)
      BY <2>2, <1>1, <1>4
    <3> QED BY <3>1, <1>1, <1>2, <1>3, <1>5, <1>8
  <2> QED BY <2>1, <2>2
<1>10. d = f \o s
  BY <1>3, <1>8, <1>9, SeqEqual
<1> QED BY <1>2, <1>10 DEF d, q, s, c, f

(* So each call keeps the shape and the indices, and is the deque's call of  *)
(* its name.                                                                 *)
CallsAgree ==
    /\ \A e \in Elem : /\ push_back(e) => Deque!PushBack(e)
                       /\ push_front(e) => Deque!PushFront(e)
    /\ pop_front => Deque!PopFront
    /\ pop_back => Deque!PopBack
    /\ clear => Deque!Clear

LEMMA CallRefines ==
    ASSUME rb \in Ring, Aligned(rb)
    PROVE  CallsAgree
<1>1. ASSUME NEW e \in Elem, push_back(e) PROVE Deque!PushBack(e)
  <2>1. CASE Capacity = 0
    <3>1. rb' = rb /\ rb.size = 0
      BY <1>1, <2>1, NothingToDo DEF push_back, Ring
    <3> QED BY <2>1, <3>1, NothingToDo DEF Deque!PushBack
  <2>2. CASE Capacity # 0
    BY <1>1, <2>2, PushBackContents DEF push_back, Deque!PushBack, Deque!WithoutFirst
  <2> QED BY <2>1, <2>2
<1>2. ASSUME NEW e \in Elem, push_front(e) PROVE Deque!PushFront(e)
  <2>1. CASE Capacity = 0
    <3>1. rb' = rb /\ rb.size = 0
      BY <1>2, <2>1, NothingToDo DEF push_front, Ring
    <3> QED BY <2>1, <3>1, NothingToDo DEF Deque!PushFront
  <2>2. CASE Capacity # 0
    BY <1>2, <2>2, PushFrontContents DEF push_front, Deque!PushFront, Deque!WithoutLast
  <2> QED BY <2>1, <2>2
<1>3. pop_front => Deque!PopFront
  <2>1. CASE rb.size = 0
    BY <2>1, NothingToDo DEF pop_front, Deque!PopFront
  <2>2. CASE rb.size # 0
    BY <2>2, NothingToDo, PopsContents DEF pop_front, Deque!PopFront, Ring
  <2> QED BY <2>1, <2>2
<1>4. pop_back => Deque!PopBack
  <2>1. CASE rb.size = 0
    BY <2>1, NothingToDo DEF pop_back, Deque!PopBack
  <2>2. CASE rb.size # 0
    BY <2>2, NothingToDo, PopsContents DEF pop_back, Deque!PopBack, Ring
  <2> QED BY <2>1, <2>2
<1>5. clear => Deque!Clear
  BY ClearEffect, NothingToDo DEF clear, Deque!Clear
<1> QED BY <1>1, <1>2, <1>3, <1>4, <1>5 DEF CallsAgree

(* The slots that the two kinds of push write hold no live element.          *)
LEMMA SpareFromAligned ==
    ASSUME rb \in Ring, Aligned(rb)
    PROVE  SpareSlotIsFree
<1> SUFFICES ASSUME NEW i \in 0 .. rb.size - 1
             PROVE  RingWrap(rb.offset + i) # rb.next /\ RingWrap(rb.offset + i) # Decrement(rb.offset)
  BY DEF SpareSlotIsFree, LiveSlots
<1>1. rb.offset \in Slot /\ rb.size \in 0 .. Capacity
  BY DEF Ring
<1>2. RingWrap(rb.offset + i) # Decrement(rb.offset)
  BY <1>1 DEF RingWrap, Decrement, Slot
<1> QED BY <1>2, NextIsFree

RingIInv == RingTyped /\ IndicesAligned

LEMMA RingStarts == RingInit => RingIInv /\ Deque!Init
<1> SUFFICES ASSUME RingInit PROVE RingIInv /\ Deque!Init
  OBVIOUS
<1>1. rb \in Ring /\ Aligned(rb) /\ rb.size = 0
  BY DEF RingInit, NewRing, Ring, Slot, Aligned, RingWrap
<1> QED BY <1>1, NothingToDo DEF RingIInv, RingTyped, IndicesAligned, Deque!Init

LEMMA RingSteps ==
    ASSUME RingIInv, [RingNext]_rb
    PROVE  RingIInv'
<1> USE DEF RingIInv, RingTyped, IndicesAligned
<1>1. ASSUME NEW e \in Elem, push_back(e) PROVE RingIInv'
  <2>1. CASE Capacity = 0
    BY <1>1, <2>1, NothingToDo DEF push_back
  <2>2. CASE Capacity # 0
    BY <1>1, <2>2, PushBackContents DEF push_back
  <2> QED BY <2>1, <2>2
<1>2. ASSUME NEW e \in Elem, push_front(e) PROVE RingIInv'
  <2>1. CASE Capacity = 0
    BY <1>2, <2>1, NothingToDo DEF push_front
  <2>2. CASE Capacity # 0
    <3>1. Capacity > 0 /\ rb \in Ring /\ Aligned(rb)
      BY <2>2
    <3>2. PushFront(rb, e) \in Ring /\ Aligned(PushFront(rb, e))
      BY <3>1, PushFrontEffect
    <3> QED BY <1>2, <3>2 DEF push_front
  <2> QED BY <2>1, <2>2
<1>3. CASE pop_front
  BY <1>3, PopFrontEffect, NothingToDo DEF pop_front, Ring
<1>4. CASE pop_back
  BY <1>4, PopBackEffect, NothingToDo DEF pop_back, Ring
<1>5. CASE clear
  BY <1>5, ClearEffect DEF clear
<1>6. CASE UNCHANGED rb
  BY <1>6
<1> QED BY <1>1, <1>2, <1>3, <1>4, <1>5, <1>6 DEF RingNext

LEMMA RingInvariance == RingSpec => []RingIInv
<1>1. RingInit => RingIInv
  BY RingStarts
<1>2. RingIInv /\ [RingNext]_rb => RingIInv'
  BY RingSteps
<1> QED BY <1>1, <1>2, PTL DEF RingSpec

-----------------------------------------------------------------------------
(* Between calls every index is inside the array, the write position is      *)
(* where the last element ends, and the slots that the next push writes are  *)
(* free, for every capacity and whatever was called (cringbuf.hpp:404-432,   *)
(* :758-808).                                                                *)
THEOREM RingStaysOK == RingSpec => []RingOK
<1>1. RingIInv => RingOK
  BY SpareFromAligned DEF RingIInv, RingOK, RingTyped, IndicesAligned
<1> QED BY <1>1, RingInvariance, PTL

(* The ring buffer implements the bounded deque: it is empty at first, and   *)
(* every call is the deque's call of its name on the contents, also those    *)
(* that fill the buffer, drop an element or find it empty.                   *)
THEOREM RefinesDeque == RingSpec => ImplementsDeque
<1>1. RingIInv => CallsAgree
  BY CallRefines DEF RingIInv, RingTyped, IndicesAligned
<1>2. RingInit => Deque!Init
  BY RingStarts
<1> QED BY <1>1, <1>2, RingInvariance, PTL DEF RingSpec, ImplementsDeque, CallsAgree

-----------------------------------------------------------------------------
(* The rate limiter.                                                         *)
USE TimeAssumption

(* Everything that was read or recorded is a stamp later than the window is  *)
(* long, hence never the 0 that stands for "no stamp".                       *)
StampsLateEnough ==
    /\ \A t \in Threads : pc[t] # "idle" => now[t] >= Start
    /\ \A k \in 1 .. Len(history) : history[k].stamp >= Start

(* What Pass() established is still true when Record() relies on it: nobody  *)
(* else touches the buffer in between.                                       *)
PassStillHolds == \A t \in Threads : pc[t] = "recording" => ~OverLimit(t)

IInv == /\ TypeOK
        /\ MutualExclusion
        /\ Aligned(rb)
        /\ KeepsTheLastStamps
        /\ StampsLateEnough
        /\ PassStillHolds
        /\ SpacedStamps

-----------------------------------------------------------------------------
LEMMA StampIsNat ==
    ASSUME NEW h \in Seq(Request), NEW k \in 1 .. Len(h)
    PROVE  h[k].stamp \in Nat
<1>1. h[k] \in Request
  OBVIOUS
<1> QED BY <1>1 DEF Request

(* Recording needs the history and the buffer only; the remaining conjuncts  *)
(* are disturbed by one action each.                                         *)
LEMMA RecordKeepsStamps ==
    ASSUME Capacity > 0, IInv, NEW t \in Threads, Record(t)
    PROVE  (rb \in Ring /\ Aligned(rb) /\ KeepsTheLastStamps /\ SpacedStamps)'
<1> DEFINE n == Len(history)
           e == [stamp |-> now[t], at |-> clock]
<1>1. /\ history \in Seq(Request) /\ n \in Nat
      /\ rb \in Ring /\ Aligned(rb) /\ now[t] \in Nat /\ clock \in Nat
      /\ e \in Request
  BY DEF IInv, TypeOK, Request
<1>2. /\ rb' = PushBack(rb, now[t]) /\ history' = Append(history, e)
  BY DEF Record, push_back
<1>3. /\ Len(history') = n + 1
      /\ \A k \in 1 .. n : history'[k] = history[k]
      /\ history'[n + 1].stamp = now[t]
  BY <1>1, <1>2
<1>n. n = Len(history)
  OBVIOUS
<1> HIDE DEF n, e
<1>4. /\ rb.size = Kept
      /\ \A i \in 0 .. Kept - 1 : At(rb, i) = history[n - Kept + 1 + i].stamp
  BY <1>n DEF IInv, KeepsTheLastStamps
<1>5. CASE n < Capacity
  <2>1. rb.size = n /\ Kept = n /\ Kept' = n + 1
    BY <1>1, <1>3, <1>4, <1>5, <1>n DEF Kept, maxCount
  <2>2. /\ rb' \in Ring /\ Aligned(rb') /\ rb'.size = n + 1 /\ At(rb', n) = now[t]
        /\ \A i \in 0 .. n - 1 : At(rb', i) = At(rb, i)
    BY <1>1, <1>2, <1>5, <2>1, PushBackRoom
  <2>3. KeepsTheLastStamps'
    <3> SUFFICES ASSUME NEW i \in 0 .. n
                 PROVE  At(rb', i) = history'[1 + i].stamp
      <4>1. /\ 0 .. Kept' - 1 = 0 .. n
            /\ \A i \in 0 .. n : Len(history') - Kept' + 1 + i = 1 + i
        BY <1>1, <1>3, <2>1
      <4> QED BY <4>1, <2>1, <2>2 DEF KeepsTheLastStamps
    <3>1. CASE i = n
      BY <3>1, <1>3, <2>2, <1>1
    <3>2. CASE i # n
      <4>1. i \in 0 .. n - 1 /\ n - n + 1 + i = 1 + i /\ 1 + i \in 1 .. n
        BY <3>2, <1>1
      <4>2. At(rb, i) = history[1 + i].stamp
        BY <4>1, <1>4, <2>1
      <4> QED BY <4>1, <4>2, <1>3, <2>2
    <3> QED BY <3>1, <3>2
  <2>4. SpacedStamps'
    BY <1>1, <1>3, <1>5, <1>n DEF SpacedStamps, maxCount
  <2> QED BY <2>2, <2>3, <2>4
<1>6. CASE n >= Capacity
  <2>1. rb.size = Capacity /\ Kept = Capacity /\ Kept' = Capacity
    BY <1>1, <1>3, <1>4, <1>6, <1>n DEF Kept, maxCount
  <2>2. /\ rb' \in Ring /\ Aligned(rb') /\ rb'.size = Capacity
        /\ At(rb', Capacity - 1) = now[t]
        /\ \A i \in 0 .. Capacity - 2 : At(rb', i) = At(rb, i + 1)
    BY <1>1, <1>2, <2>1, PushBackFull, ZenonT(60)
  <2>3. KeepsTheLastStamps'
    <3> SUFFICES ASSUME NEW i \in 0 .. Capacity - 1
                 PROVE  At(rb', i) = history'[n + 1 - Capacity + 1 + i].stamp
      <4>1. 0 .. Kept' - 1 = 0 .. Capacity - 1 /\ Len(history') - Kept' = n + 1 - Capacity
        BY <1>1, <1>3, <2>1
      <4> QED BY <4>1, <2>1, <2>2 DEF KeepsTheLastStamps
    <3>1. CASE i = Capacity - 1
      BY <3>1, <1>3, <2>2, <1>1
    <3>2. CASE i # Capacity - 1
      <4>1. i + 1 \in 0 .. Kept - 1 /\ n - Capacity + 1 + (i + 1) \in 1 .. n
        BY <3>2, <2>1, <1>1, <1>6
      <4>2. At(rb, i + 1) = history[n - Capacity + 1 + (i + 1)].stamp
        BY <4>1, <1>4, <2>1
      <4>3. n - Capacity + 1 + (i + 1) = n + 1 - Capacity + 1 + i
        BY <1>1
      <4> QED BY <3>2, <4>1, <4>2, <4>3, <1>3, <2>2
    <3> QED BY <3>1, <3>2
  <2>4. now[t] > history[n - Capacity + 1].stamp + windowSize
    <3>1. ~OverLimit(t)
      BY DEF IInv, PassStillHolds, Record
    <3>2. At(rb, 0) = history[n - Capacity + 1].stamp
      BY <1>1, <1>4, <2>1
    <3>3. history[n - Capacity + 1].stamp \in Nat /\ history[n - Capacity + 1].stamp >= Start
      <4>1. n - Capacity + 1 \in 1 .. n
        BY <1>1, <1>6
      <4>2. history[n - Capacity + 1].stamp \in Nat
        BY <4>1, <1>n, StampIsNat DEF IInv, TypeOK
      <4> QED BY <4>1, <4>2, <1>n DEF IInv, StampsLateEnough
    <3>4. OldestStamp = history[n - Capacity + 1].stamp
      BY <2>1, <3>2 DEF OldestStamp, Front
    <3> DEFINE f == history[n - Capacity + 1].stamp
    <3>5. f \in Nat /\ f # 0 /\ OldestStamp = f
      BY <3>3, <3>4
    <3> HIDE DEF f
    <3>6. ~(now[t] - windowSize <= f)
      BY <3>1, <3>5, <2>1 DEF OverLimit, windowStart, maxCount
    <3>7. now[t] > f + windowSize
      BY <3>5, <3>6, <1>1
    <3> QED BY <3>7 DEF f
  <2>5. SpacedStamps'
    <3> SUFFICES ASSUME NEW k \in 1 .. n + 1 - Capacity
                 PROVE  history'[k + Capacity].stamp > history'[k].stamp + windowSize
      <4>1. 1 .. Len(history') - Capacity = 1 .. n + 1 - Capacity
        BY <1>1, <1>3
      <4> QED BY <4>1 DEF SpacedStamps, maxCount
    <3>1. CASE k = n + 1 - Capacity
      BY <3>1, <2>4, <1>1, <1>3, <1>6
    <3>2. CASE k # n + 1 - Capacity
      <4>1. history[k + Capacity].stamp > history[k].stamp + windowSize
        BY <3>2, <1>1, <1>n DEF IInv, SpacedStamps, maxCount
      <4> QED BY <3>2, <4>1, <1>1, <1>3
    <3> QED BY <3>1, <3>2
  <2> QED BY <2>2, <2>3, <2>5
<1> QED BY <1>1, <1>5, <1>6

LEMMA RecordKeepsLocal ==
    ASSUME Capacity > 0, IInv, NEW t \in Threads, Record(t)
    PROVE  IInv'
<1>1. (rb \in Ring /\ Aligned(rb) /\ KeepsTheLastStamps /\ SpacedStamps)'
  BY RecordKeepsStamps
<1>2. TypeOK'
  <2>1. history' \in Seq(Request)
    <3>1. [stamp |-> now[t], at |-> clock] \in Request
      BY DEF IInv, TypeOK, Request
    <3> QED BY <3>1 DEF IInv, TypeOK, Record
  <2> QED BY <1>1, <2>1 DEF IInv, TypeOK, Record, Unlock
<1>3. MutualExclusion'
  BY DEF IInv, TypeOK, MutualExclusion, InCriticalSection, Record, Unlock
<1>4. StampsLateEnough'
  <2>1. now[t] \in Nat /\ now[t] >= Start
    BY DEF IInv, TypeOK, StampsLateEnough, Record
  <2>2. \A k \in 1 .. Len(history') : history'[k].stamp >= Start
    <3>1. [stamp |-> now[t], at |-> clock].stamp = now[t]
      OBVIOUS
    <3> QED BY <2>1, <3>1 DEF IInv, TypeOK, StampsLateEnough, Record
  <2> QED BY <2>2 DEF IInv, TypeOK, StampsLateEnough, Record
<1>5. PassStillHolds'
  BY DEF IInv, TypeOK, PassStillHolds, MutualExclusion, InCriticalSection, Record
<1> QED BY <1>1, <1>2, <1>3, <1>4, <1>5 DEF IInv

LEMMA Inductive ==
    ASSUME Capacity > 0, IInv, [Next]_vars
    PROVE  IInv'
<1>1. CASE Tick
  BY <1>1 DEF IInv, TypeOK, MutualExclusion, KeepsTheLastStamps, Kept, StampsLateEnough,
              PassStillHolds, SpacedStamps, InCriticalSection, OverLimit, OldestStamp,
              windowStart, Tick
<1>2. ASSUME NEW t \in Threads, ReadClock(t) PROVE IInv'
  BY <1>2 DEF IInv, TypeOK, MutualExclusion, KeepsTheLastStamps, Kept, StampsLateEnough,
              PassStillHolds, SpacedStamps, InCriticalSection, OverLimit, OldestStamp,
              windowStart, ReadClock
<1>3. ASSUME NEW t \in Threads, Lock(t) PROVE IInv'
  BY <1>3 DEF IInv, TypeOK, MutualExclusion, KeepsTheLastStamps, Kept, StampsLateEnough,
              PassStillHolds, SpacedStamps, InCriticalSection, OverLimit, OldestStamp,
              windowStart, Lock, LockFree
<1>4. ASSUME NEW t \in Threads, Reject(t) PROVE IInv'
  BY <1>4 DEF IInv, TypeOK, MutualExclusion, KeepsTheLastStamps, Kept, StampsLateEnough,
              PassStillHolds, SpacedStamps, InCriticalSection, OverLimit, OldestStamp,
              windowStart, Reject, Unlock
<1>5. ASSUME NEW t \in Threads, Pass(t) PROVE IInv'
  BY <1>5 DEF IInv, TypeOK, MutualExclusion, KeepsTheLastStamps, Kept, StampsLateEnough,
              PassStillHolds, SpacedStamps, InCriticalSection, OverLimit, OldestStamp,
              windowStart, Pass
<1>6. ASSUME NEW t \in Threads, Record(t) PROVE IInv'
  BY <1>6, RecordKeepsLocal
<1>7. CASE UNCHANGED vars
  BY <1>7 DEF IInv, TypeOK, MutualExclusion, KeepsTheLastStamps, Kept, StampsLateEnough,
              PassStillHolds, SpacedStamps, InCriticalSection, OverLimit, OldestStamp,
              windowStart, vars
<1> QED BY <1>1, <1>2, <1>3, <1>4, <1>5, <1>6, <1>7 DEF Next

LEMMA Initially == Init => IInv
<1> SUFFICES ASSUME Init PROVE IInv
  OBVIOUS
<1>1. rb \in Ring /\ Aligned(rb)
  BY RingStarts DEF Init, RingIInv, RingTyped, IndicesAligned
<1>2. TypeOK
  <2>1. history \in Seq(Request)
    BY DEF Init
  <2>2. pc \in [Threads -> {"idle", "locking", "deciding", "recording"}]
    BY DEF Init
  <2>3. now \in [Threads -> Nat]
    BY DEF Init
  <2>4. clock \in Nat /\ clock >= Start
    BY DEF Init
  <2>5. locked \in BOOLEAN
    BY DEF Init
  <2> QED BY <1>1, <2>1, <2>2, <2>3, <2>4, <2>5 DEF TypeOK
<1>3. rb.size = 0 /\ Len(history) = 0 /\ Kept = 0
  BY DEF Init, RingInit, NewRing, Kept, maxCount
<1>4. KeepsTheLastStamps /\ SpacedStamps
  BY <1>3 DEF KeepsTheLastStamps, SpacedStamps, maxCount
<1>5. MutualExclusion /\ StampsLateEnough /\ PassStillHolds
  BY <1>3 DEF Init, MutualExclusion, InCriticalSection, StampsLateEnough, PassStillHolds
<1> QED BY <1>1, <1>2, <1>4, <1>5 DEF IInv

(* IInv holds in every reachable state of a limiter with a positive maxCount. *)
LEMMA Invariance == ASSUME Capacity > 0 PROVE Spec => []IInv
<1>1. Init => IInv
  BY Initially
<1>2. IInv /\ [Next]_vars => IInv'
  BY Inductive
<1> QED BY <1>1, <1>2, PTL DEF Spec

-----------------------------------------------------------------------------
(* The state keeps its shape: in particular no index ever leaves the array.  *)
THEOREM TypeCorrect == ASSUME Capacity > 0 PROVE Spec => []TypeOK
BY Invariance, PTL DEF IInv

(* Between lock() and unlock() there is at most one thread.                  *)
THEOREM LockExcludes == ASSUME Capacity > 0 PROVE Spec => []MutualExclusion
BY Invariance, PTL DEF IInv

(* The buffer holds the stamps of exactly the last maxCount requests.        *)
THEOREM BufferIsRecent == ASSUME Capacity > 0 PROVE Spec => []KeepsTheLastStamps
BY Invariance, PTL DEF IInv

(* A request and the one maxCount later carry stamps more than a window apart. *)
THEOREM LimitHolds == ASSUME Capacity > 0 PROVE Spec => []SpacedStamps
BY Invariance, PTL DEF IInv
-----------------------------------------------------------------------------
(* The count of stamps in a window needs more than SpacedStamps: stamps that *)
(* are any multiple of maxCount apart are spaced.  The requests are dealt    *)
(* into maxCount rows, each request going to the row of the one maxCount     *)
(* before it; along a row the stamps are more than a window apart.           *)
Rows(row) ==
    /\ row \in [1 .. Len(history) -> 0 .. maxCount - 1]
    /\ \A k \in 1 .. Len(history) : k <= maxCount => row[k] = k - 1
    /\ \A i, j \in 1 .. Len(history) : i < j /\ row[i] = row[j] =>
          /\ i + maxCount <= j
          /\ history[j].stamp > history[i].stamp + windowSize
RowsAreSpaced == \E row : Rows(row)

LEMMA RecordExtendsRow ==
    ASSUME Capacity > 0, IInv, IInv', RowsAreSpaced, NEW t \in Threads, Record(t)
    PROVE  RowsAreSpaced'
<1> DEFINE n == Len(history)
<1>1. PICK row : Rows(row)
  BY DEF RowsAreSpaced
<1>2. /\ history \in Seq(Request) /\ n \in Nat /\ history' \in Seq(Request)
      /\ Len(history') = n + 1
      /\ \A k \in 1 .. n : history'[k] = history[k]
  <2>1. history' = Append(history, [stamp |-> now[t], at |-> clock])
    BY DEF Record
  <2> QED BY <2>1 DEF IInv, TypeOK
<1>3. \A k \in 1 .. n : history[k].stamp \in Nat
  BY <1>2, StampIsNat
<1>4. history'[n + 1].stamp \in Nat
  BY <1>2, StampIsNat
<1>5. \A k \in 1 .. n + 1 - maxCount :
          history'[k + maxCount].stamp > history'[k].stamp + windowSize
  <2>1. SpacedStamps'
    BY DEF IInv
  <2>2. \A k \in 1 .. Len(history') - maxCount :
            history'[k + maxCount].stamp > history'[k].stamp + windowSize
    BY <2>1 DEF SpacedStamps, maxCount
  <2>3. Len(history') = n + 1
    BY <1>2
  <2> HIDE DEF n
  <2>4. 1 .. Len(history') - maxCount = 1 .. n + 1 - maxCount
    BY <1>2, <2>3 DEF maxCount
  <2> QED BY <2>2, <2>4
<1>6. /\ row \in [1 .. n -> 0 .. maxCount - 1]
      /\ \A k \in 1 .. n : k <= maxCount => row[k] = k - 1
      /\ \A i, j \in 1 .. n : i < j /\ row[i] = row[j] =>
            i + maxCount <= j /\ history[j].stamp > history[i].stamp + windowSize
  BY <1>1 DEF Rows
<1> DEFINE last == IF n + 1 <= maxCount THEN n ELSE row[n + 1 - maxCount]
           longer == [k \in 1 .. n + 1 |-> IF k = n + 1 THEN last ELSE row[k]]
<1> HIDE DEF n
<1>7. maxCount \in Nat /\ maxCount > 0 /\ windowSize \in Nat
  BY DEF maxCount
<1>8. last \in 0 .. maxCount - 1
  BY <1>2, <1>6, <1>7
<1>9. longer \in [1 .. n + 1 -> 0 .. maxCount - 1]
  BY <1>2, <1>6, <1>8
<1>10. longer[n + 1] = last /\ \A k \in 1 .. n : longer[k] = row[k]
  BY <1>2
<1>11. \A k \in 1 .. n + 1 : k <= maxCount => longer[k] = k - 1
  BY <1>2, <1>6, <1>10
<1> HIDE DEF longer, last
<1>12. ASSUME NEW i \in 1 .. n + 1, NEW j \in 1 .. n + 1, i < j, longer[i] = longer[j]
       PROVE  i + maxCount <= j /\ history'[j].stamp > history'[i].stamp + windowSize
  <2>1. i \in 1 .. n
    BY <1>2, <1>12
  <2>2. CASE j # n + 1
    <3>1. j \in 1 .. n
      BY <2>2, <1>2
    <3> QED BY <2>1, <3>1, <1>2, <1>6, <1>10, <1>12
  <2>3. CASE j = n + 1 /\ n + 1 <= maxCount
    <3>1. last = n /\ row[i] = i - 1
      BY <2>1, <2>3, <1>2, <1>6, <1>7 DEF last
    <3> QED BY <2>1, <2>3, <3>1, <1>2, <1>10, <1>12
  <2>4. CASE j = n + 1 /\ n + 1 > maxCount
    <3> DEFINE b == n + 1 - maxCount
    <3>1. b \in 1 .. n /\ b + maxCount = n + 1 /\ b \in 1 .. n + 1 - maxCount
      BY <2>4, <1>2, <1>7
    <3>2. row[i] = row[b]
      BY <2>1, <2>4, <1>2, <1>7, <1>10, <1>12 DEF last
    <3>3. history'[n + 1].stamp > history[b].stamp + windowSize
      BY <3>1, <1>2, <1>5
    <3> HIDE DEF b
    <3>4. ~(b < i)
      <4>1. b < i => b + maxCount <= i
        BY <3>1, <3>2, <2>1, <1>6
      <4> QED BY <4>1, <3>1, <2>1, <1>2, <1>7
    <3>5. CASE i = b
      BY <3>5, <3>1, <3>3, <2>4, <2>1, <1>2
    <3>6. CASE i < b
      <4>1. i + maxCount <= b /\ history[b].stamp > history[i].stamp + windowSize
        BY <3>6, <3>1, <3>2, <2>1, <1>6
      <4>2. i + maxCount <= n + 1
        BY <4>1, <3>1, <2>1, <1>2, <1>7
      <4>3. history'[n + 1].stamp > history[i].stamp + windowSize
        BY <4>1, <3>1, <3>3, <2>1, <1>3, <1>4, <1>7
      <4> QED BY <4>2, <4>3, <2>4, <2>1, <1>2
    <3>7. i < b \/ i = b \/ b < i
      BY <2>1, <3>1
    <3> QED BY <3>4, <3>5, <3>6, <3>7
  <2> QED BY <2>2, <2>3, <2>4, <1>2, <1>7
<1>13. PICK rows : rows = longer
  OBVIOUS
<1>14. Rows(rows)'
  BY <1>2, <1>9, <1>11, <1>12, <1>13 DEF Rows, maxCount
<1> QED BY <1>14 DEF RowsAreSpaced

LEMMA RowsInvariant == ASSUME Capacity > 0 PROVE Spec => []RowsAreSpaced
<1>1. Init => RowsAreSpaced
  <2> SUFFICES ASSUME Init PROVE Rows([k \in 1 .. 0 |-> 0])
    BY DEF RowsAreSpaced
  <2>1. Len(history) = 0
    BY DEF Init
  <2> QED BY <2>1 DEF Rows
<1>2. IInv /\ IInv' /\ RowsAreSpaced /\ [Next]_vars => RowsAreSpaced'
  <2> SUFFICES ASSUME IInv, IInv', RowsAreSpaced, [Next]_vars PROVE RowsAreSpaced'
    OBVIOUS
  <2>1. ASSUME NEW t \in Threads, Record(t) PROVE RowsAreSpaced'
    BY <2>1, RecordExtendsRow
  <2>2. CASE history' = history
    BY <2>2 DEF RowsAreSpaced, Rows
  <2>3. history' = history \/ \E t \in Threads : Record(t)
    BY DEF Next, Tick, ReadClock, Lock, Reject, Pass, vars
  <2> QED BY <2>1, <2>2, <2>3
<1> QED BY <1>1, <1>2, Invariance, PTL DEF Spec

(* Two stamps of one row are never in one window: a window has at most one   *)
(* stamp of each of the maxCount rows.                                       *)
LEMMA OneOfEachRow ==
    ASSUME Capacity > 0, IInv, RowsAreSpaced
    PROVE  WindowNeverOverfull
<1> SUFFICES ASSUME NEW k \in 1 .. Len(history)
             PROVE  Cardinality(StampsIn(history[k].stamp, history[k].stamp + windowSize))
                      <= maxCount
  BY DEF WindowNeverOverfull
<1> DEFINE a == history[k].stamp
           S == StampsIn(a, a + windowSize)
<1>1. PICK row : Rows(row)
  BY DEF RowsAreSpaced
<1>2. /\ S \subseteq 1 .. Len(history)
      /\ \A i \in S : a <= history[i].stamp /\ history[i].stamp <= a + windowSize
                     /\ history[i].stamp \in Int
  BY DEF StampsIn
<1>3. Len(history) \in Nat /\ a \in Nat
  <2>1. history \in Seq(Request)
    BY DEF IInv, TypeOK
  <2> QED BY <2>1, StampIsNat
<1> HIDE DEF a, S
<1> DEFINE f == [i \in S |-> row[i]]
<1>4. f \in [S -> 0 .. maxCount - 1]
  BY <1>1, <1>2 DEF Rows
<1>5. ASSUME NEW i \in S, NEW j \in S, f[i] = f[j] PROVE i = j
  <2>1. i \in 1 .. Len(history) /\ j \in 1 .. Len(history) /\ row[i] = row[j]
    BY <1>2, <1>5
  <2>2. ASSUME NEW x \in S, NEW y \in S, x \in 1 .. Len(history), y \in 1 .. Len(history),
               row[x] = row[y]
        PROVE  ~(x < y)
    <3>1. x < y => history[y].stamp > history[x].stamp + windowSize
      BY <1>1, <2>2 DEF Rows
    <3>2. /\ history[x].stamp \in Int /\ history[y].stamp \in Int
          /\ a <= history[x].stamp /\ history[y].stamp <= a + windowSize
      BY <1>2
    <3> QED BY <3>1, <3>2, <1>3
  <2>3. ~(i < j) /\ ~(j < i)
    BY <2>1, <2>2
  <2> QED BY <2>1, <2>3, <1>3
<1>6. f \in Injection(S, 0 .. maxCount - 1)
  BY <1>4, <1>5 DEF Injection, IsInjective
<1>7. IsFiniteSet(0 .. maxCount - 1) /\ Cardinality(0 .. maxCount - 1) = maxCount
  BY FS_Interval DEF maxCount
<1>8. Cardinality(S) <= maxCount
  BY <1>6, <1>7, FS_Injection
<1> QED BY <1>8 DEF S, a

(* No window of the limiter's length holds more than maxCount stamps of      *)
(* allowed requests, however late and out of order they are recorded.        *)
THEOREM WindowHolds == ASSUME Capacity > 0 PROVE Spec => []WindowNeverOverfull
BY Invariance, RowsInvariant, OneOfEachRow, PTL
=============================================================================
