------------------------------ MODULE JsonMut ------------------------------
(* The bindings of mutable JSON documents (libyyjson.cpp): documents own    *)
(* values and copies of strings until they are freed; the caller holds      *)
(* pointers to values and keeps the strings that are passed without a copy. *)
EXTENDS Naturals, Sequences, FiniteSets, Yyjson

CONSTANTS
    Docs,          \* the documents, created in any order and at most once
    Authored,      \* those the caller builds values in; the others get copies only
    Buffers,       \* strings in the caller's memory
    ValueBuffers,  \* those passed as values; all are passed as keys
    Texts,         \* what such a string can hold
    StartText,     \* what each holds at first
    Scalars,       \* kinds of numbers, booleans and null
    Numbers,       \* types of C arrays of numbers
    MaxVals,       \* values that are allocated altogether, but for an object with three pairs
                   \* that is made first
    MaxLoose,      \* values the caller holds at a time that are in no container
    MaxSpoils      \* how often the caller changes a string or memory runs out

ASSUME DocsAssumption == Authored \subseteq Docs
ASSUME ValsAssumption == MaxVals \in Nat
ASSUME BuffersAssumption == ValueBuffers \subseteq Buffers /\ StartText \in [Buffers -> Texts]

VARIABLES
    vals,      \* the heap: every value allocated
    docs,      \* state and root value of each document
    loose,     \* the values the caller holds that are in no container
    buffer,    \* what the caller's strings hold
    spoils     \* how often that or a failed allocation happened

vars == <<vals, docs, loose, buffer, spoils>>

Live(d) == docs[d].state = "live"
Room(n) == Len(vals) + n <= MaxVals
Objects == {o \in DOMAIN vals : vals[o].kind = "obj" /\ Live(vals[o].doc)}
Containers == {c \in DOMAIN vals : IsContainer(vals[c]) /\ Live(vals[c].doc)}
New(i) == Len(vals) + i
Lost(d) == Leaf(d, "lost", NULL)     \* memory that nobody has a pointer to
Spoils == spoils < MaxSpoils /\ spoils' = spoils + 1

Init ==
    /\ vals = << >> /\ loose = {} /\ spoils = 0
    /\ docs = [d \in Docs |-> [state |-> "none", root |-> NULL]]
    /\ buffer = StartText

mut_doc_new(d) ==
    /\ docs[d].state = "none"
    /\ docs' = [docs EXCEPT ![d].state = "live"]
    /\ UNCHANGED <<vals, loose, buffer, spoils>>

\* All values of the document are gone, and the copies of strings with them.
mut_doc_free(d) ==
    /\ Live(d)
    /\ docs' = [docs EXCEPT ![d] = [state |-> "freed", root |-> NULL]]
    /\ vals' = [n \in DOMAIN vals |-> IF vals[n].doc = d THEN Lost(d) ELSE vals[n]]
    /\ loose' = {n \in loose : vals[n].doc # d}
    /\ UNCHANGED <<buffer, spoils>>

mut_doc_set_root(d, root) ==
    /\ Live(d)
    /\ root \in {NULL} \cup {v \in loose : vals[v].doc = d}
    /\ docs' = [docs EXCEPT ![d].root = root]
    /\ UNCHANGED <<vals, loose, buffer, spoils>>

\* mut_arr() and mut_obj().
mut_container(d, kind) ==
    /\ Live(d) /\ Room(1)
    /\ vals' = Append(vals, Container(d, kind))
    /\ loose' = loose \cup {New(1)}
    /\ UNCHANGED <<docs, buffer, spoils>>

arr_with(d, leaves) ==
    /\ Live(d) /\ Room(1 + Len(leaves))
    /\ vals' = vals \o ArrayOf(vals, d, leaves)
    /\ loose' = loose \cup {New(1)}
    /\ UNCHANGED <<docs, buffer, spoils>>
\* Booleans and numbers of 64 bits; narrow ones are widened.
Signed == {"sint8", "sint16", "sint32", "sint64"}
Unsigned == {"uint8", "uint16", "uint32", "uint64"}
Floats == {"float", "double"}
KindOf(type) == CASE type \in Signed -> "sint" [] type \in Unsigned -> "uint" [] type \in Floats -> "real" [] OTHER -> type
arr_with_scalars(d, types) == arr_with(d, [i \in DOMAIN types |-> Leaf(d, KindOf(types[i]), NULL)])
arr_with_str(d, bufs) == arr_with(d, [i \in DOMAIN bufs |-> Str(d, Borrowed(bufs[i]))])
arr_with_strcpy(d, bufs) == arr_with(d, [i \in DOMAIN bufs |-> Str(d, Copied(buffer[bufs[i]]))])

\* An object with the given keys and strings, none of which is copied.
obj_with_str(d, keys, bufs) ==
    LET pairs == [i \in 1 .. 2 * Len(keys) |->
                      Str(d, Borrowed(IF i % 2 = 1 THEN keys[(i + 1) \div 2] ELSE bufs[i \div 2]))]
        object == Append(vals, Container(d, "obj")) \o pairs
        Linked[i \in 0 .. Len(keys)] ==
            IF i = 0 THEN object ELSE LET H == Linked[i - 1] IN ObjAdd(H, New(1), New(2 * i), New(2 * i + 1))
    IN  /\ Live(d)
        /\ vals' = Linked[Len(keys)]
        /\ loose' = loose \cup {New(1)}
        /\ UNCHANGED <<docs, buffer, spoils>>

\* yyjson_mut_obj_add_func: the pair is allocated at once, the key not copied.
AddPair(o, k, val) ==
    LET d == vals[o].doc
    IN  /\ Room(2)
        /\ vals' = ObjAdd(vals \o <<Str(d, Borrowed(k)), val>>, o, New(1), New(2))
        /\ UNCHANGED <<docs, loose, buffer, spoils>>
add_scalar(o, k, kind) == AddPair(o, k, Leaf(vals[o].doc, kind, NULL))
add_str(o, k, b) == AddPair(o, k, Str(vals[o].doc, Borrowed(b)))
add_strcpy(o, k, b) == AddPair(o, k, Str(vals[o].doc, Copied(buffer[b])))

\* The copy of the string cannot be allocated: the pair is lost but not added.
add_strcpy_fails(o) ==
    LET d == vals[o].doc
    IN  /\ Room(2)
        /\ Spoils
        /\ vals' = vals \o <<Lost(d), Lost(d)>>
        /\ UNCHANGED <<docs, loose, buffer>>

\* add_arr() and add_obj(): an empty container is added to an object and
\* returned; to an array it is not added, but both values are allocated.
add_container(o, k, kind) ==
    LET d == vals[o].doc
        isObject == vals[o].kind = "obj"
    IN  /\ Room(2)
        /\ vals' = IF isObject
                   THEN ObjAdd(vals \o <<Str(d, Borrowed(k)), Container(d, kind)>>, o, New(1), New(2))
                   ELSE vals \o <<Lost(d), Lost(d)>>
        /\ UNCHANGED <<docs, loose, buffer, spoils>>

\* A value of the caller is added; the one allocated beside the key stays unused.
MayAdd(o, v) ==
    /\ v \in loose /\ vals[v].doc = vals[o].doc
    /\ docs[vals[v].doc].root # v
    /\ o \notin Subtree(vals, v)
add_val(o, k, v) ==
    LET d == vals[o].doc
    IN  /\ Room(2) /\ MayAdd(o, v)
        /\ vals' = ObjAdd(vals \o <<Str(d, Borrowed(k)), Lost(d)>>, o, New(1), v)
        /\ loose' = loose \ {v}
        /\ UNCHANGED <<docs, buffer, spoils>>

\* Mutant: the walk stops at the first key of that name.
RemoveTurnOnce(w, text) ==
    LET it == IterNext(w.heap, w.iter)
        key == w.heap[it.cur]
        cut == IterRemove(w.heap, it)
    IN  IF Text(key.data, buffer) = text /\ w.removed = NULL
        THEN [heap |-> cut.heap, iter |-> cut.iter, removed |-> key.next]
        ELSE [w EXCEPT !.iter = it]
\* Mutant: the value of the last key of that name is handed out.
RemoveTurnLast(w, text) ==
    LET it == IterNext(w.heap, w.iter)
        key == w.heap[it.cur]
        cut == IterRemove(w.heap, it)
    IN  IF Text(key.data, buffer) = text
        THEN [heap |-> cut.heap, iter |-> cut.iter, removed |-> key.next]
        ELSE [w EXCEPT !.iter = it]
\* Mutant: the walk goes on with the iterator as it was before the removal.
RemoveTurnStale(w, text) ==
    LET it == IterNext(w.heap, w.iter)
        key == w.heap[it.cur]
    IN  IF Text(key.data, buffer) = text
        THEN [heap |-> IterRemove(w.heap, it).heap, iter |-> it, removed |-> IF w.removed = NULL THEN key.next ELSE w.removed]
        ELSE [w EXCEPT !.iter = it]
\* The walk of remove_strn(): one turn for each key the object had.
RemoveTurn(w, text) ==
    LET it == IterNext(w.heap, w.iter)
        key == w.heap[it.cur]
        cut == IterRemove(w.heap, it)
    IN  IF Text(key.data, buffer) = text
        THEN [heap |-> cut.heap, iter |-> cut.iter, removed |-> IF w.removed = NULL THEN key.next ELSE w.removed]
        ELSE [w EXCEPT !.iter = it]
RemoveWalk(o, text) ==
    LET W[i \in 0 .. vals[o].len] ==
            IF i = 0 THEN [heap |-> vals, iter |-> IterInit(vals, o), removed |-> NULL]
            ELSE LET w == W[i - 1] IN IF HasNext(w.iter) THEN RemoveTurn(w, text) ELSE w
    IN  W[vals[o].len]
\* What is cut out stays allocated, but only the first value is handed out.
Forgotten(heap, o, kept) ==
    LET gone == Range(Members(vals, o)) \ (Range(Members(heap, o)) \cup {kept})
        lost == UNION {Subtree(vals, n) : n \in gone}
    IN  [n \in DOMAIN heap |-> IF n \in lost THEN Lost(heap[n].doc)
                              ELSE IF n = kept THEN [heap[n] EXCEPT !.next = NULL] ELSE heap[n]]
remove_str(o, text) ==
    LET w == RemoveWalk(o, text)
    IN  /\ vals' = Forgotten(w.heap, o, w.removed)
        /\ loose' = IF w.removed = NULL THEN loose ELSE loose \cup {w.removed}
        /\ UNCHANGED <<docs, buffer, spoils>>

\* obj_getn(): the value of the first key of that name.
obj_get(o, text) ==
    LET hits == {i \in 1 .. vals[o].len : Text(vals[KeyAt(vals, o, i)].data, buffer) = text}
    IN  IF hits = {} THEN NULL ELSE ValueAt(vals, o, CHOOSE i \in hits : \A j \in hits : i <= j)

\* rename_keyn(): every key of that name points at one copy of the new one.
Renamed(o, text, new) ==
    LET W[i \in 0 .. vals[o].len] ==
            IF i = 0 THEN [heap |-> vals, iter |-> IterInit(vals, o)]
            ELSE LET w == W[i - 1]
                     it == IterNext(w.heap, w.iter)
                     hit == Text(w.heap[it.cur].data, buffer) = text
                 IN  [heap |-> IF hit THEN [w.heap EXCEPT ![it.cur].data = Copied(new)] ELSE w.heap, iter |-> it]
    IN  W[vals[o].len].heap
rename_key(o, text, new) ==
    /\ vals' = Renamed(o, text, new)
    /\ UNCHANGED <<docs, loose, buffer, spoils>>

\* Mutant: only the value itself is copied, not what it holds.
mut_val_flat_copy(d, v) ==
    /\ Live(d) /\ Room(1)
    /\ vals' = Append(vals, Leaf(d, vals[v].kind, vals[v].data))
    /\ loose' = loose \cup {New(1)}
    /\ UNCHANGED <<docs, buffer, spoils>>
\* Mutant: the copy points at the strings of the value it was made of.
mut_val_shared_strings(d, v) ==
    LET copy == CopyOf(vals, buffer, v, d)
        old == SetToSortSeq(Subtree(vals, v), LAMBDA m, n : m < n)
    IN  /\ Live(d) /\ Len(copy.heap) <= MaxVals
        /\ vals' = vals \o [i \in DOMAIN old |-> [copy.heap[New(i)] EXCEPT !.data = vals[old[i]].data]]
        /\ loose' = loose \cup {copy.root}
        /\ UNCHANGED <<docs, buffer, spoils>>
\* mut_val_mut_copy(): a value of any document is copied into document d.
mut_val_mut_copy(d, v) ==
    LET copy == CopyOf(vals, buffer, v, d)
    IN  /\ Live(d) /\ Len(copy.heap) <= MaxVals
        /\ vals' = copy.heap
        /\ loose' = loose \cup {copy.root}
        /\ UNCHANGED <<docs, buffer, spoils>>

\* Mutant: the new document gets the root itself.
mut_doc_share(from, d) ==
    /\ Live(from) /\ docs[from].root # NULL
    /\ docs[d].state = "none"
    /\ docs' = [docs EXCEPT ![d] = [state |-> "live", root |-> docs[from].root]]
    /\ UNCHANGED <<vals, loose, buffer, spoils>>
\* mut_doc_mut_copy(): the new document d has a copy of the root of another.
mut_doc_mut_copy(from, d) ==
    LET copy == CopyOf(vals, buffer, docs[from].root, d)
    IN  /\ Live(from) /\ docs[from].root # NULL
        /\ docs[d].state = "none" /\ Len(copy.heap) <= MaxVals
        /\ vals' = copy.heap
        /\ docs' = [docs EXCEPT ![d] = [state |-> "live", root |-> copy.root]]
        /\ loose' = loose \cup {copy.root}
        /\ UNCHANGED <<buffer, spoils>>

\* mut_write_opts(): what is written for a value; nothing without a root.
Written(v) ==
    LET W[n \in Nat] ==
            IF IsContainer(vals[n])
            THEN <<vals[n].kind, [i \in 1 .. Width(vals[n]) |-> W[Members(vals, n)[i]]]>>
            ELSE <<vals[n].kind, IF vals[n].kind = "str" THEN Text(vals[n].data, buffer) ELSE vals[n].data>>
    IN  W[v]
mut_write(d) == IF docs[d].root = NULL THEN << >> ELSE Written(docs[d].root)

\* The caller uses the memory of a string for another one.
OverwriteBuffer(b, text) ==
    /\ buffer[b] # text
    /\ Spoils
    /\ buffer' = [buffer EXCEPT ![b] = text]
    /\ UNCHANGED <<vals, docs, loose>>

HandsFree == Cardinality(loose) < MaxLoose
Create(d) ==
    \/ \E kind \in {"arr", "obj"} : mut_container(d, kind)
    \/ \E type \in Numbers : arr_with_scalars(d, <<type>>)
    \/ \E b \in ValueBuffers : arr_with_str(d, <<b>>) \/ arr_with_strcpy(d, <<b, b>>)
    \/ \E keys \in [1 .. 3 -> Buffers] : vals = << >> /\ obj_with_str(d, keys, keys)
AddTo(o, k) ==
    \/ \E kind \in Scalars : add_scalar(o, k, kind)
    \/ \E b \in ValueBuffers \ {k} : add_str(o, k, b) \/ add_strcpy(o, k, b)
    \/ add_strcpy_fails(o)
    \/ \E v \in loose : add_val(o, k, v)
Change(o) ==
    \/ \E t \in Texts : remove_str(o, t)
    \/ \E t \in Texts : \E new \in Texts \ {t} : rename_key(o, t, new)

Next ==
    \/ \E d \in Docs : mut_doc_new(d) \/ mut_doc_free(d)
    \/ \E d \in Authored : HandsFree /\ Create(d)
    \/ \E d \in Docs, v \in loose \cup {NULL} : mut_doc_set_root(d, v)
    \/ \E o \in Objects : Change(o) \/ \E k \in Buffers : vals[o].doc \in Authored /\ AddTo(o, k)
    \/ \E c \in Containers, k \in Buffers : vals[c].doc \in Authored /\ add_container(c, k, "obj")
    \/ \E d \in Docs \ Authored, v \in loose \cup Containers : mut_val_mut_copy(d, v)
    \/ \E from \in Docs, d \in Docs \ Authored : mut_doc_mut_copy(from, d)
    \/ \E b \in Buffers, t \in Texts : OverwriteBuffer(b, t)

Spec == Init /\ [][Next]_vars
-----------------------------------------------------------------------------
\* The list of every container that is in use is a circle of its members and no
\* others: they are distinct, of its document, in no second container, and the
\* values the caller holds free are in none (unsafe_yyjson_mut_obj_add() and the
\* removal while walking, libyyjson.cpp:607-772).
WellLinked ==
    \A c \in Containers :
        LET in == Members(vals, c)
        IN  /\ \A i \in DOMAIN in :
                  /\ vals[in[i]].doc = vals[c].doc
                  /\ vals[in[i]].next = in[(i % Len(in)) + 1]
                  /\ vals[c].kind = "obj" /\ i % 2 = 1 => vals[in[i]].kind = "str"
            /\ IsInjective(in)
            /\ Range(in) \cap loose = {}
            /\ \A e \in Containers \ {c} : Range(in) \cap Range(Members(vals, e)) = {}

\* The heap shows the tree of documents: additions at the end, removal and
\* renaming of all members of a name, the first one removed back in the hands
\* of the caller, and nothing after a call that failed (libyyjson.cpp:607-806).
Item(n) == IF IsContainer(vals[n]) THEN <<"refers to", n>> ELSE <<vals[n].kind, vals[n].data>>
Pairs(c) ==
    LET members == Members(vals, c)
        isObject == vals[c].kind = "obj"
    IN  [i \in 1 .. vals[c].len |-> IF isObject THEN <<vals[members[2 * i - 1]].data, Item(members[2 * i])>>
                                    ELSE <<Copied(""), Item(members[i])>>]
Tree == INSTANCE JsonTree WITH
    Plain <- {<<kind, NULL>> : kind \in Scalars},
    kids <- [c \in Containers |-> Pairs(c)] @@ << >>,
    held <- {Item(n) : n \in loose}
ImplementsTree == Tree!TreeSpec

\* One call changes what is written for one document at most, and writing to
\* the caller's memory changes none that holds copies only: deep copies share
\* neither values nor strings with their source (libyyjson.cpp:513-582).
HoldsCopies(d) ==
    docs[d].root # NULL =>
        \A n \in Subtree(vals, docs[d].root) : vals[n].kind = "str" => vals[n].data.own
Changes(d) == Live(d) /\ Live(d)' /\ mut_write(d)' # mut_write(d)
OthersUntouched ==
    [][LET changed == {d \in Docs : Changes(d)}
       IN  IF buffer' = buffer THEN Cardinality(changed) <= 1
           ELSE \A d \in changed : ~HoldsCopies(d)]_vars

\* A copy reads as what it was made of, and whatever the caller writes into the
\* memory of its strings afterwards, every value of a document that got copies
\* only reads as before (libyyjson.cpp:533-540, 551-560).
CopiesAreEqual ==
    [][/\ \A d \in Docs, v \in loose \cup Containers :
             mut_val_mut_copy(d, v) =>
                 \E copy \in loose' : Written(copy)' = Written(v) /\ copy > Len(vals)
       /\ buffer' # buffer =>
             \A v \in loose \cup Containers : vals[v].doc \notin Authored => Written(v)' = Written(v)]_vars

\* A removal hands out the value that was found under the name before, and
\* leaves none to find, however often the name occurred (libyyjson.cpp:749-772).
RemovesWhatIsFound ==
    [][\A o \in Objects, t \in Texts :
          remove_str(o, t) =>
              /\ obj_get(o, t) = NULL => loose' = loose
              /\ obj_get(o, t) # NULL => loose' \ loose = {obj_get(o, t)}
              /\ obj_get(o, t)' = NULL]_vars
============================================================================
