-------------------------------- MODULE Heap --------------------------------
(* The memory that scripts and the library hand to each other.  The library   *)
(* knows it by pointers only; a block that is freed may be handed out again.  *)
EXTENDS Naturals, FiniteSets

CONSTANT MaxBlocks       \* a bound on the blocks that a program has at a time

ASSUME BlocksAssumption == MaxBlocks \in Nat

NULL == 0
Blocks == 1 .. MaxBlocks
Source == MaxBlocks + 1        \* memory of a script, which it never frees
Freed == [live |-> FALSE, what |-> << >>]
Text(t) == [text |-> t]        \* a string as the content of a block
NewHeap(blocks, t) == [b \in blocks \cup {Source} |-> IF b = Source THEN [live |-> TRUE, what |-> Text(t)] ELSE Freed]

FreeBlocks(heap) == {b \in DOMAIN heap : ~heap[b].live}
Room(heap) == FreeBlocks(heap) # {}
NewBlock(heap) == CHOOSE b \in FreeBlocks(heap) : \A c \in FreeBlocks(heap) : b <= c
Stored(heap, b, what) == [heap EXCEPT ![b] = [live |-> TRUE, what |-> what]]
Without(heap, b) == IF b = NULL THEN heap ELSE [heap EXCEPT ![b] = Freed]
============================================================================
