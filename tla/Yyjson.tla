------------------------------ MODULE Yyjson ------------------------------
(* The part of the yyjson library that the bindings rest on: mutable values *)
(* and the circular lists that hold the members of a container.             *)
(* A heap is a sequence of values; a pointer is an index, 0 is NULL.  The   *)
(* members of an array are linked by next; those of an object are its keys  *)
(* and values in turn.  A container points at its last member, for an       *)
(* object at its last key, and that one's successor is the first.           *)
EXTENDS Naturals, Sequences, FiniteSets, SequencesExt

NULL == 0

\* A string points at memory of its document (a copy, which nobody changes) or
\* at the memory of the caller that was passed in.
Copied(text) == [own |-> TRUE, at |-> text]
Borrowed(buf) == [own |-> FALSE, at |-> buf]
Text(s, buffer) == IF s.own THEN s.at ELSE buffer[s.at]

Leaf(d, kind, data) == [doc |-> d, kind |-> kind, data |-> data, next |-> NULL, last |-> NULL, len |-> 0]
Str(d, s) == Leaf(d, "str", s)
Container(d, kind) == Leaf(d, kind, NULL)
IsContainer(v) == v.kind \in {"arr", "obj"}

\* The members of a container in order, keys included.
Width(v) == IF v.kind = "obj" THEN 2 * v.len ELSE v.len
Members(H, c) ==
    LET At[i \in 1 .. Width(H[c])] ==
            IF i > 1 THEN H[At[i - 1]].next
            ELSE IF H[c].kind = "obj" THEN H[H[H[c].last].next].next ELSE H[H[c].last].next
    IN  At \o << >>
KeyAt(H, o, i) == Members(H, o)[2 * i - 1]
ValueAt(H, o, i) == Members(H, o)[2 * i]

\* unsafe_yyjson_mut_obj_add: the pair becomes the last one.
ObjAdd(H, o, key, val) ==
    IF H[o].len = 0
    THEN [H EXCEPT ![val].next = key, ![key].next = val, ![o].last = key, ![o].len = 1]
    ELSE LET prevVal == H[H[o].last].next
             firstKey == H[prevVal].next
         IN  [H EXCEPT ![prevVal].next = key, ![val].next = firstKey, ![key].next = val,
                       ![o].last = key, ![o].len = @ + 1]

\* yyjson_mut_obj_iter: cur is the key returned last, pre the one before it.
IterInit(H, o) == [obj |-> o, idx |-> 0, max |-> H[o].len, cur |-> H[o].last, pre |-> NULL]
HasNext(it) == it.idx < it.max
IterNext(H, it) ==
    [it EXCEPT !.pre = it.cur, !.cur = H[H[it.cur].next].next, !.idx = @ + 1]
IterRemove(H, it) ==
    LET next == H[H[it.cur].next].next
        last == IF it.idx = it.max THEN it.pre ELSE H[it.obj].last
        cut == [H EXCEPT ![it.obj].last = last, ![it.obj].len = it.max - 1]
    IN  [heap |-> [cut EXCEPT ![cut[it.pre].next].next = next],
         iter |-> [it EXCEPT !.idx = @ - 1, !.max = @ - 1, !.cur = it.pre]]

\* yyjson_mut_arr_with_*: a new array of leaves, linked in a circle.
ArrayOf(H, d, leaves) ==
    LET New(i) == Len(H) + i
        last == IF leaves = << >> THEN NULL ELSE New(1 + Len(leaves))
    IN  <<[Container(d, "arr") EXCEPT !.last = last, !.len = Len(leaves)]>>
            \o [i \in DOMAIN leaves |-> [leaves[i] EXCEPT !.next = New(1 + (i % Len(leaves)) + 1)]]

\* Everything a value holds, itself included.
Subtree(H, v) ==
    LET Below(S) == UNION {Range(Members(H, c)) : c \in {n \in S : IsContainer(H[n])}}
        depth == Cardinality({n \in DOMAIN H : H[n].len > 0})
        Level[i \in 0 .. depth] == IF i = 0 THEN {v} ELSE Below(Level[i - 1])
    IN  UNION {Level[i] : i \in 0 .. depth}

\* yyjson_mut_val_mut_copy: a deep copy that document d owns, its strings copied too.
CopyOf(H, buffer, v, d) ==
    LET old == Subtree(H, v)
        Rank(n) == Cardinality({m \in old : m <= n})
        Moved(p) == IF p \in old THEN Len(H) + Rank(p) ELSE NULL
        Copy(n) == [n EXCEPT !.doc = d, !.next = Moved(n.next), !.last = IF n.len = 0 THEN NULL ELSE Moved(n.last),
                             !.data = IF n.kind = "str" THEN Copied(Text(n.data, buffer)) ELSE n.data]
    IN  [heap |-> H \o [i \in 1 .. Cardinality(old) |-> Copy(H[CHOOSE n \in old : Rank(n) = i])],
         root |-> Moved(v)]
============================================================================
