------------------------------ MODULE SkipList ------------------------------
(***************************************************************************)
(* The skip list of skiplist/skiplist.hpp that holds one side of an order  *)
(* book, with the calls of libskiplist.cpp and a client that walks the     *)
(* list with begin() and next() while it is being changed.                 *)
(*                                                                         *)
(* A node is named by its key; Header and Footer are the two sentinels.    *)
(* forward[n] is the array of node n: it has nodeLevel + 1 entries and     *)
(* exists as long as the node does.  The footer's own array is never       *)
(* initialised, so it has no entry in forward; nor is the last entry of    *)
(* the header's, which is NoNode.  The pseudo-random height of a new node  *)
(* is any value getRandomLevel() can return.                               *)
(***************************************************************************)
EXTENDS Integers, FiniteSets, Sequences

CONSTANTS Keys,         \* the prices used in calls
          Values,       \* the quantities
          MaxPrice,     \* the footer's key of an ascending list
          MAX_LEVEL,    \* size of the update array; heights are below it
          Wild,         \* what memory nobody has initialised holds for pointers
          Header, Footer, NoNode

ASSUME SentinelAssumption ==
    /\ Keys \subseteq Nat /\ MaxPrice \in Nat
    /\ Header \notin Int /\ Footer \notin Int /\ NoNode \notin Int
    /\ Header # Footer /\ Header # NoNode /\ Footer # NoNode
ASSUME LevelAssumption == MAX_LEVEL \in Nat /\ MAX_LEVEL >= 2

(* Prices past the footer run off the end of the list: the callers' duty.    *)
ASSUME KeyAssumption == \A k \in Keys : k <= MaxPrice

VARIABLES
    isForward,          \* ascending (asks) or descending (bids)
    forward, value,     \* the nodes; the footer has a value, too
    level, nodeCount,   \* the list's own fields
    reply,              \* the last call and its result
    broken,             \* the footer has been deleted
    cursor,             \* the node the client's iteration stands on
    visited,            \* the keys it has been given, in order
    stable              \* the keys that have been listed ever since begin()

list == <<isForward, forward, value, level, nodeCount, broken>>
client == <<cursor, visited, stable>>
vars == <<list, reply, client>>

(* seq_skiplist_new(): 999999.999999999999 ends the asks, 0 the bids. *)
footerKey == IF isForward THEN MaxPrice ELSE 0

Live == DOMAIN value \ {Footer}
KeyOf(n) == IF n = Footer THEN footerKey ELSE n
Ahead(a, b) == IF isForward THEN a < b ELSE a > b
nodeLevel(n) == Cardinality(DOMAIN forward[n]) - 1

Init ==
    /\ isForward \in BOOLEAN
    /\ forward = [n \in {Header} |->
                    [i \in 0 .. MAX_LEVEL |-> IF i < MAX_LEVEL THEN Footer ELSE NoNode]]
    /\ value = [n \in {Footer} |-> 0]
    /\ level = 0
    /\ nodeCount = 0
    /\ reply = [op |-> "new"]
    /\ broken = FALSE
    /\ cursor = NoNode /\ visited = <<>> /\ stable = {}

-----------------------------------------------------------------------------
\* Mutant: remove() forgets to count.
CountedUp(d) == nodeCount' = IF d > 0 THEN nodeCount + d ELSE nodeCount
Counted(d) == nodeCount' = nodeCount + d

(* The loop that search(), insert() and remove() share: on every level, from *)
(* the top one down, go forward while the next key is ahead of the given one. *)
MovesOn(next, key) == Ahead(KeyOf(next), key)

OnLevel(i) == {n \in DOMAIN forward : i \in DOMAIN forward[n]}

Onwards(key, i) ==
    LET go[n \in OnLevel(i)] ==
            IF MovesOn(forward[n][i], key) THEN go[forward[n][i]] ELSE n
    IN  go

Walk(key) ==
    LET stop[i \in 0 .. level] ==
            Onwards(key, i)[IF i = level THEN Header ELSE stop[i + 1]]
    IN  stop

(* node->forward[0] at the end of the loop, and whether its key is the key.  *)
Candidate(key) == forward[Walk(key)[0]][0]
Found(key) == KeyOf(Candidate(key)) = key

(* search() finds a node or none; its caller gets 0 for none, which is a      *)
(* quantity like any other.                                                  *)
Lookup(key) == IF Found(key) THEN Candidate(key) ELSE NoNode
search(key) ==
    /\ reply' = [op |-> "search", key |-> key,
                 value |-> IF Lookup(key) = NoNode THEN 0 ELSE value[Lookup(key)]]
    /\ UNCHANGED <<list, client>>

(* A key that is there already: overwrite its value, or return false.        *)
\* Mutant: overwrites whether asked to or not.
NewValueAlways(key, v, updateIfExists) == [value EXCEPT ![Candidate(key)] = v]
NewValue(key, v, updateIfExists) ==
    IF updateIfExists THEN [value EXCEPT ![Candidate(key)] = v] ELSE value

insertExisting(key, v, updateIfExists) ==
    /\ Found(key)
    /\ value' = NewValue(key, v, updateIfExists)
    /\ reply' = [op |-> "insert", key |-> key, ok |-> updateIfExists]
    /\ UNCHANGED <<isForward, forward, level, nodeCount, broken, client>>

(* getRandomLevel(): Uniform(MAX_LEVEL), with 0 turned into 1. *)
RandomLevels == {IF l = 0 THEN 1 ELSE l : l \in 0 .. MAX_LEVEL - 1}

(* A node may be at most one level higher than the list. *)
Height(l) == IF l > level THEN level + 1 ELSE l

\* Mutant: only the level 0 predecessor is recorded.
UpdateBottom(key) == [i \in 0 .. level + 1 |-> IF i = 0 THEN Walk(key)[0] ELSE Header]

(* update[i]: where the loop stopped, and header on the level that is new. *)
Update(key) == [i \in 0 .. level + 1 |-> IF i <= level THEN Walk(key)[i] ELSE Header]

(* Link the node on levels 0 to h behind the nodes of update. *)
Linked(key, h) ==
    LET update == Update(key)
    IN  [n \in DOMAIN forward \cup {key} |->
            IF n = key THEN [i \in 0 .. h |-> forward[update[i]][i]]
            ELSE [i \in DOMAIN forward[n] |->
                    IF i <= h /\ update[i] = n THEN key ELSE forward[n][i]]]

insertNew(key, v) ==
    /\ ~Found(key)
    /\ \E l \in RandomLevels :
          /\ level' = IF l > level THEN Height(l) ELSE level
          /\ forward' = Linked(key, Height(l))
    /\ value' = [k \in DOMAIN value \cup {key} |-> IF k = key THEN v ELSE value[k]]
    /\ Counted(1)
    /\ reply' = [op |-> "insert", key |-> key, ok |-> TRUE]
    /\ UNCHANGED <<isForward, broken, client>>

\* Mutant: unlinks on level 0 only.
UnlinkedBottom(node) ==
    [n \in DOMAIN forward \ {node} |->
        [i \in DOMAIN forward[n] |->
            IF i = 0 /\ Walk(node)[0] = n THEN forward[node][0] ELSE forward[n][i]]]

(* Unlink on the levels, from 0 up, on which update[i] points at the node.   *)
Unlinked(node) ==
    LET stop == Walk(node)
        linkedUpTo == {i \in 0 .. level : \A j \in 0 .. i : forward[stop[j]][j] = node}
    IN  [n \in DOMAIN forward \ {node} |->
            [i \in DOMAIN forward[n] |->
                IF i \in linkedUpTo /\ stop[i] = n THEN forward[node][i] ELSE forward[n][i]]]

(* The same loop when the node is the footer, which the last nodes of all     *)
(* levels point at: they are given what its array holds, whose one entry is   *)
(* not initialised and whose others lie outside of it.                       *)
UnlinkedFooter(key, array) ==
    [n \in DOMAIN forward |->
        [i \in DOMAIN forward[n] |->
            IF i \in DOMAIN array /\ Walk(key)[i] = n THEN array[i] ELSE forward[n][i]]]

\* Mutant: `if' for `while'.
ShrunkOnce(fwd) == IF level > 0 /\ fwd[Header][level] = Footer THEN level - 1 ELSE level

(* The level drops while its list is empty, but not below 0. *)
Shrunk(fwd) ==
    LET inUse == {i \in 1 .. level : fwd[Header][i] # Footer}
    IN  IF inUse = {} THEN 0 ELSE CHOOSE i \in inUse : \A j \in inUse : j <= i

remove(key) ==
    /\ Found(key) /\ Candidate(key) # Footer
    /\ forward' = Unlinked(key)
    /\ level' = Shrunk(forward')
    /\ value' = [k \in DOMAIN value \ {key} |-> value[k]]
    /\ Counted(-1)
    /\ reply' = [op |-> "remove", key |-> key, ok |-> TRUE, value |-> value[key]]
    /\ stable' = stable \ {key}
    /\ UNCHANGED <<isForward, broken, cursor, visited>>

removeMissing(key) ==
    /\ ~Found(key)
    /\ reply' = [op |-> "remove", key |-> key, ok |-> FALSE, value |-> 0]
    /\ UNCHANGED <<list, client>>

(* The footer is taken for a node with its key: what its array happens to     *)
(* hold is written into the list, the footer is deleted and the counter, a    *)
(* size_t that size() returns as an int, is lowered.  The list is broken:     *)
(* nothing that follows is defined any more.                                 *)
removeFooter(key) ==
    /\ Found(key) /\ Candidate(key) = Footer
    /\ \E array \in [0 .. level -> Wild] : forward' = UnlinkedFooter(key, array)
    /\ level' = Shrunk(forward')
    /\ value' = [k \in DOMAIN value \ {Footer} |-> value[k]]
    /\ Counted(-1)
    /\ broken' = TRUE
    /\ reply' = [op |-> "remove", key |-> key, ok |-> TRUE, value |-> value[Footer]]
    /\ UNCHANGED <<isForward, client>>

(* Follow level 0 from the header, at most n nodes. *)
TopN(n) ==
    LET from[left \in 0 .. n] ==
            [m \in DOMAIN forward |->
                IF forward[m][0] = Footer \/ left = 0 THEN <<>>
                ELSE <<<<forward[m][0], value[forward[m][0]]>>>> \o from[left - 1][forward[m][0]]]
    IN  from[n][Header]

topN(n) ==
    /\ reply' = [op |-> "topN", levels |-> TopN(n)]
    /\ UNCHANGED <<list, client>>

(* freeList(): the nodes in the order in which the list would delete them.    *)
Deleted ==
    LET from[m \in DOMAIN forward \cup {Footer}] == IF m = Footer THEN <<m>> ELSE <<m>> \o from[forward[m][0]]
    IN  from[Header]

-----------------------------------------------------------------------------
(* The client's iteration.  It gives up a node that has been removed: using  *)
(* it would be a use after free.                                             *)
\* Mutant: follows the node's topmost pointer.
StepTop(n) ==
    LET to == forward[n][IF n = Header THEN 0 ELSE nodeLevel(n)]
    IN  IF to = Footer THEN NoNode ELSE to
Step(n) == IF forward[n][0] = Footer THEN NoNode ELSE forward[n][0]

begin ==
    /\ cursor = NoNode
    /\ cursor' = Step(Header)
    /\ visited' = IF Step(Header) = NoNode THEN <<>> ELSE <<Step(Header)>>
    /\ stable' = Live
    /\ UNCHANGED <<list, reply>>

next ==
    /\ cursor \in Live
    /\ cursor' = Step(cursor)
    /\ visited' = IF Step(cursor) = NoNode THEN visited ELSE Append(visited, Step(cursor))
    /\ UNCHANGED <<list, reply, stable>>

abandon ==
    /\ cursor \notin Live \cup {NoNode}
    /\ cursor' = NoNode /\ visited' = <<>> /\ stable' = {}
    /\ UNCHANGED <<list, reply>>

Next ==
    /\ ~broken
    /\ \/ \E key \in Keys : \/ search(key) \/ remove(key) \/ removeMissing(key)
                            \/ removeFooter(key)
                            \/ \E v \in Values :
                                  \/ insertNew(key, v)
                                  \/ \E u \in BOOLEAN : insertExisting(key, v, u)
       \/ \E n \in 0 .. Cardinality(Keys) : topN(n)
       \/ begin \/ next \/ abandon

Spec == Init /\ [][Next]_vars

-----------------------------------------------------------------------------
TypeOK ==
    /\ Live \subseteq Keys /\ \A n \in DOMAIN value : value[n] \in Values \cup {0}
    /\ DOMAIN forward = Live \cup {Header}
    /\ \A n \in DOMAIN forward : \A i \in DOMAIN forward[n] \ {MAX_LEVEL} :
          forward[n][i] \in Live \cup {Footer}
    /\ level \in 0 .. MAX_LEVEL - 1
    /\ broken \in BOOLEAN /\ isForward \in BOOLEAN
    /\ cursor \in Keys \cup {NoNode}
    /\ visited \in Seq(Keys) /\ stable \subseteq Keys

(* Every level is the sorted list of exactly the nodes that reach it: each    *)
(* pointer skips nothing and points at nothing lower, on all levels, however  *)
(* insertions of random height and removals are mixed (skiplist.hpp:199-204,  *)
(* :303-308).                                                                *)
Reaches(n, i) == n # Footer /\ i \in DOMAIN forward[n]
Before(a, b) == a = Header \/ b = Footer \/ Ahead(a, b)
LevelsSorted ==
    \A n \in Live \cup {Header} : \A i \in DOMAIN forward[n] \ {MAX_LEVEL} :
        LET to == forward[n][i]
        IN  /\ to = Footer \/ (Reaches(to, i) /\ Before(n, to))
            /\ \A m \in Live \ {n, to} :
                  ~(Reaches(m, i) /\ Before(n, m) /\ Before(m, to))

(* level is the height of the highest node, so search() starts neither above  *)
(* nor below the topmost list; the stack array update[MAX_LEVEL] of insert()  *)
(* and remove() (skiplist.hpp:164, :286) is never indexed outside.            *)
LevelIsHighest ==
    /\ \A n \in Live : nodeLevel(n) <= level
    /\ level > 0 => \E n \in Live : nodeLevel(n) = level
    /\ level < MAX_LEVEL

(* The counter agrees with the nodes on level 0 (it is a size_t: one          *)
(* decrement too many makes it huge).                                         *)
CountsNodes == nodeCount = Cardinality(Live)

(* What freeing the list deletes: each node once.                            *)
FreesEachOnce ==
    /\ {Deleted[i] : i \in DOMAIN Deleted} = Live \cup {Header, Footer}
    /\ Len(Deleted) = Cardinality(Live) + 2

(* What every operation relies on when it starts (skiplist.hpp:164-204,      *)
(* :286-330): the linked lists, their number and the counter agree, and       *)
(* freeing the list deletes each node once (skiplist.hpp:133-142).  It holds  *)
(* until remove() is called with the footer's own key, which breaks the list. *)
ListOK == broken \/ (TypeOK /\ LevelsSorted /\ LevelIsHighest /\ CountsNodes /\ FreesEachOnce)

(* An iteration that ran to its end has met every key that was listed from    *)
(* begin() on, and has met its keys best price first and none twice, although *)
(* the list was changed meanwhile (skiplist.hpp:52-67).                       *)
IterationSound ==
    /\ \A i, j \in 1 .. Len(visited) : i < j => Ahead(visited[i], visited[j])
    /\ \A k \in stable : \/ \E i \in 1 .. Len(visited) : visited[i] = k
                         \/ cursor \in Keys /\ Ahead(cursor, k)

(* "如果结点不存在就返回false" (skiplist.hpp:297): removing a key that no node   *)
(* has returns false.  The footer's key is no node's of the book's, but its   *)
(* removal returns true.                                                     *)
RemoveMissingFails ==
    [][reply'.op = "remove" /\ reply' # reply =>
           (reply'.ok => reply'.key \in Live)]_vars

(* The list is the order book: every reply of insert, remove, search and      *)
(* topN is the one the map gives, until remove() is called with the footer's  *)
(* key, after which nothing is promised.  The other calls with that key do    *)
(* not answer as the map would, but leave the listed prices alone.            *)
Book == INSTANCE OrderBook WITH book <- [k \in Live |-> value[k]]
AboutFooter(r) == "key" \in DOMAIN r /\ r.key = footerKey
ImplementsOrderBook ==
    /\ Book!Init
    /\ [][\/ AboutFooter(reply') /\ reply'.op = "remove"
          \/ AboutFooter(reply') /\ UNCHANGED [k \in Live |-> value[k]]
          \/ ~AboutFooter(reply') /\ (Book!Next \/ UNCHANGED Book!vars)]_vars
=============================================================================
