----------------------------- MODULE BufferQueue -----------------------------
(* The queue of buffers between two scripts (libthread.cpp): a lock-free ring *)
(* of pointers and lengths.  One script sends copies, which the queue makes   *)
(* and frees, or lends its own blocks; one queue is used in one way.          *)
EXTENDS Heap, Sequences

CONSTANTS
    Texts,          \* what is sent
    Capacity        \* of the ring, 16384 in the code

VARIABLES
    heap,
    way,            \* "data", "reference", or "none" without a queue
    queue,          \* the pointers in the ring
    taken,          \* the pointer that the consumer has popped and not read yet
    output          \* what it read last

QueueInit == way = "none" /\ queue = << >> /\ taken = NULL /\ output \in Texts

lockfree_queue_new(how) ==
    /\ way = "none" /\ way' = how
    /\ UNCHANGED <<heap, queue, taken, output>>
\* What is still in the ring would be lost.
lockfree_queue_free ==
    /\ way # "none" /\ queue = << >> /\ taken = NULL
    /\ way' = "none"
    /\ UNCHANGED <<heap, queue, taken, output>>

IsFull == Len(queue) >= Capacity

\* Mutant: the pointer of the script goes into the ring.
push_uncopied ==
    /\ way = "data" /\ ~IsFull
    /\ queue' = Append(queue, Source)
    /\ UNCHANGED <<heap, way, taken, output>>
\* lockfree_queue_push_data(): a copy of the script's memory, which is deleted
\* at once if the ring is full.
push_data ==
    LET buffer == NewBlock(heap)
        copied == Stored(heap, buffer, heap[Source].what)
    IN  /\ way = "data" /\ Room(heap)
        /\ queue' = IF IsFull THEN queue ELSE Append(queue, buffer)
        /\ heap' = IF IsFull THEN Without(copied, buffer) ELSE copied
        /\ UNCHANGED <<way, taken, output>>

\* lockfree_queue_push() of a block of the sender, who keeps its hands off it
\* from now on.
push ==
    LET block == NewBlock(heap)
    IN  /\ way = "reference" /\ Room(heap) /\ ~IsFull
        /\ heap' = Stored(heap, block, heap[Source].what)
        /\ queue' = Append(queue, block)
        /\ UNCHANGED <<way, taken, output>>

\* Mutant: the ring hands out what was pushed last.
pop_last ==
    /\ queue # << >> /\ taken = NULL
    /\ taken' = queue[Len(queue)] /\ queue' = SubSeq(queue, 1, Len(queue) - 1)
    /\ UNCHANGED <<heap, way, output>>
\* queue->pop(), in lockfree_queue_pop() and lockfree_queue_pop_data().
pop ==
    /\ queue # << >> /\ taken = NULL
    /\ taken' = Head(queue) /\ queue' = Tail(queue)
    /\ UNCHANGED <<heap, way, output>>
\* ... which copies the data out and deletes the buffer.  After
\* lockfree_queue_pop() the consumer does.
copy_out ==
    /\ taken # NULL
    /\ output' = heap[taken].what.text
    /\ heap' = Without(heap, taken)
    /\ taken' = NULL
    /\ UNCHANGED <<way, queue>>

\* The sender uses its memory for the next message.
refill(text) ==
    /\ heap[Source].what # Text(text)
    /\ heap' = [heap EXCEPT ![Source].what = Text(text)]
    /\ UNCHANGED <<way, queue, taken, output>>

QueueNext ==
    \/ \E how \in {"data", "reference"} : lockfree_queue_new(how)
    \/ lockfree_queue_free
    \/ push_data \/ push \/ pop \/ copy_out
    \/ \E text \in Texts : refill(text)

\* The buffers under way, the one that was popped first.
Buffers == (IF taken = NULL THEN << >> ELSE <<taken>>) \o queue
============================================================================
