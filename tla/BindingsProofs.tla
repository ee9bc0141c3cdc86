--------------------------- MODULE BindingsProofs ---------------------------
(***************************************************************************)
(* Every block of memory that passes between scripts and the library has   *)
(* one holder, pointers that a script was given hold, requests carry what  *)
(* their script asked for, and the queue is a channel: for any number of   *)
(* scripts, calls, blocks, buffers, keys and handles.                      *)
(***************************************************************************)
EXTENDS Bindings, FiniteSetTheorems, SequenceTheorems, WellFoundedInduction, TLAPS

USE BlocksAssumption, BoundsAssumption, ProgramsAssumption

(* Who may hold a block, and the blocks that each holds: the arguments and   *)
(* results that calls have yet to free, the results that scripts kept, those *)
(* that were left to nobody, the buffers of the queue, the strings of the    *)
(* cache, the maps of headers, the handles that send a request and those in  *)
(* the pool.                                                                 *)
Holders == {"argument", "result", "kept", "leaked", "queue", "cache", "headers", "request", "idle"}

(* Pointers lie in a function, where they differ unless they are null, or in *)
(* a sequence, where they differ.                                            *)
Block == Blocks \cup {NULL}
Pointers(f) == {f[x] : x \in DOMAIN f} \ {NULL}
Distinct(f) == \A x, y \in DOMAIN f : x # y => f[x] # f[y] \/ f[x] = NULL
Items(q) == {q[i] : i \in 1 .. Len(q)}
OnceIn(q) == \A i, j \in 1 .. Len(q) : q[i] = q[j] => i = j

ArgumentOf == [c \in Calls |-> jobs[c].arg]
OwnedResult(job) ==
    IF job.kind # "async_call_with_cb" \/ job.pc = "entered" THEN job.result ELSE NULL
ResultOf == [c \in Calls |-> OwnedResult(jobs[c])]
CurlOf == [s \in Scripts |-> calls[s].curl]

HeldBy(h) ==
    CASE h = "argument" -> Pointers(ArgumentOf) [] h = "result" -> Pointers(ResultOf)
      [] h = "kept" -> kept [] h = "leaked" -> leaked [] h = "queue" -> Items(Q!Buffers) [] h = "cache" -> Pointers(cache)
      [] h = "headers" -> Pointers(maps) [] h = "request" -> Pointers(CurlOf)
      [] h = "idle" -> Items(idle)

(* A block is allocated exactly when somebody holds it, and nobody else does. *)
Live(b) == b \in DOMAIN heap /\ heap[b].live
HeldOnce ==
    \A b \in Blocks :
        /\ Live(b) <=> \E h \in Holders : b \in HeldBy(h)
        /\ \A g, h \in Holders : b \in HeldBy(g) /\ b \in HeldBy(h) => g = h

(* What each holder relies on besides: it does not hold a block twice, and   *)
(* the contents are of the kind that it reads.                               *)
IsText(b) == \E t \in Texts : heap[b].what = Text(t)

MemoryOK(h) ==
    /\ DOMAIN h \subseteq Blocks \cup {Source}
    /\ Source \in DOMAIN h /\ h[Source].live
    /\ \A b \in DOMAIN h : /\ h[b] = [live |-> h[b].live, what |-> h[b].what]
                           /\ h[b].live \in BOOLEAN
HeapShape == MemoryOK(heap) /\ IsText(Source)

Job == [kind : Kinds \cup {"none"}, waiter : Scripts \cup {NULL}, arg : Block,
        result : Block, pc : {"none", "queued", "entered", "returned"}]
JobOK(job) == /\ job.pc = "none" => job.arg = NULL
              /\ job.pc \in {"none", "queued"} => job.result = NULL

PoolShape ==
    /\ jobs \in [Calls -> Job] /\ kept \subseteq Blocks /\ leaked \subseteq Blocks
    /\ \A c \in Calls : JobOK(jobs[c])
    /\ Distinct(ArgumentOf) /\ Distinct(ResultOf)

QueueShape ==
    /\ queue \in Seq(Blocks) /\ taken \in Block /\ output \in Texts
    /\ OnceIn(Q!Buffers)
    /\ \A b \in Items(Q!Buffers) : IsText(b)

CacheShape ==
    /\ nextKey \in 0 .. MaxKeys /\ cache \in [0 .. MaxKeys - 1 -> Block]
    /\ mine \in [Scripts -> 0 .. MaxKeys] /\ held \in [Scripts -> [at : Block, text : Texts \cup {"none"}]]
    /\ \A s \in Scripts : mine[s] # C!NoKey => mine[s] < nextKey
    /\ \A s, t \in Scripts : s # t => mine[s] # mine[t] \/ mine[s] = C!NoKey
    /\ Distinct(cache)
    /\ \A b \in Pointers(cache) : IsText(b)
    /\ \A s \in Scripts : held[s].at # NULL =>
          /\ mine[s] # C!NoKey /\ cache[mine[s]] = held[s].at
          /\ heap[held[s].at].what = Text(held[s].text)

(* The headers of a set that are sent: one without a text is not.            *)
Sent(headers) == {h \in headers : h[2] # ""}
InMap(map) == {<<n, map[n]>> : n \in DOMAIN map}

Call == [pc : {"none", "waits", "answered"}, curl : Block, verb : Verbs \cup {"GET", "test"},
         debug : BOOLEAN, body : BodyLengths \cup {0}]
MapOK(s) == maps[s] # NULL => Sent(InMap(heap[maps[s]].what)) = Sent(wanted[s])
CurlOK(s) ==
    calls[s].pc = "waits" =>
        /\ calls[s].curl # NULL
        /\ Sent(heap[calls[s].curl].what.headers) = Sent(wanted[s] \cup R!Added(calls[s].verb))
        /\ heap[calls[s].curl].what.container = IF calls[s].debug THEN s ELSE NULL

RequestShape ==
    /\ idle \in Seq(Blocks) /\ maps \in [Scripts -> Block] /\ calls \in [Scripts -> Call]
    /\ wanted \in [Scripts -> SUBSET (Names \X Values)]
    /\ answer \in [Scripts -> 0 .. ResLength]
    /\ \A s \in Scripts : calls[s].pc # "waits" => calls[s].curl = NULL
    /\ OnceIn(idle) /\ Distinct(maps) /\ Distinct(CurlOf)
    /\ \A s \in Scripts : MapOK(s) /\ CurlOK(s)

IInv == HeapShape /\ HeldOnce /\ PoolShape /\ QueueShape /\ CacheShape /\ RequestShape

-----------------------------------------------------------------------------
(* The heap: the block that is taken is free, and one block changes.         *)
LEMMA Smallest ==
    ASSUME NEW S \in SUBSET Nat, S # {}
    PROVE  \E b \in S : \A c \in S : b <= c
<1> DEFINE Below == OpToRel(<, Nat)
<1>1. IsWellFoundedOn(Below, Nat)
  BY NatLessThanWellFounded
<1>2. PICK x \in S : \A y \in S : ~ (<<y, x>> \in Below)
  BY <1>1, WFMin
<1>3. \A y \in S : ~ (y < x)
  BY <1>2 DEF OpToRel
<1> QED BY <1>3

LEMMA BlockNumbers ==
    /\ NULL \notin Blocks /\ Source \notin Blocks /\ Source # NULL
    /\ Blocks \subseteq Nat /\ Source \in Nat
BY DEF NULL, Blocks, Source

LEMMA NewBlockIsFree ==
    ASSUME NEW h, MemoryOK(h), Room(h)
    PROVE  NewBlock(h) \in Blocks /\ NewBlock(h) \in DOMAIN h /\ ~h[NewBlock(h)].live
<1>1. FreeBlocks(h) \subseteq Nat /\ FreeBlocks(h) # {}
  BY BlockNumbers DEF MemoryOK, Room, FreeBlocks
<1>2. \E b \in FreeBlocks(h) : \A c \in FreeBlocks(h) : b <= c
  BY <1>1, Smallest
<1>3. NewBlock(h) \in FreeBlocks(h)
  BY <1>2 DEF NewBlock
<1> QED BY <1>3, BlockNumbers DEF FreeBlocks, MemoryOK

LEMMA StoredMemory ==
    ASSUME NEW h, MemoryOK(h), NEW b \in DOMAIN h, NEW w
    PROVE  /\ MemoryOK(Stored(h, b, w)) /\ DOMAIN Stored(h, b, w) = DOMAIN h
           /\ Stored(h, b, w)[b] = [live |-> TRUE, what |-> w]
           /\ \A c \in DOMAIN h : c # b => Stored(h, b, w)[c] = h[c]
BY DEF MemoryOK, Stored

LEMMA WithoutMemory ==
    ASSUME NEW h, MemoryOK(h), NEW b \in Block, b # NULL => b \in DOMAIN h
    PROVE  /\ MemoryOK(Without(h, b)) /\ DOMAIN Without(h, b) = DOMAIN h
           /\ b # NULL => ~Without(h, b)[b].live
           /\ \A c \in DOMAIN h : c # b => Without(h, b)[c] = h[c]
<1>1. CASE b = NULL
  BY <1>1, BlockNumbers DEF Without, MemoryOK
<1>2. CASE b # NULL
  <2>1. Without(h, b) = [h EXCEPT ![b] = Freed] /\ b # Source /\ b \in DOMAIN h
    BY <1>2, BlockNumbers DEF Without, Block
  <2>2. Freed = [live |-> Freed.live, what |-> Freed.what] /\ Freed.live = FALSE
    BY DEF Freed
  <2> QED BY <1>2, <2>1, <2>2 DEF MemoryOK
<1> QED BY <1>1, <1>2

LEMMA WrittenMemory ==
    ASSUME NEW h, MemoryOK(h), NEW b \in DOMAIN h, NEW w
    PROVE  LET g == [h EXCEPT ![b].what = w]
           IN  /\ MemoryOK(g) /\ DOMAIN g = DOMAIN h
               /\ g[b] = [live |-> h[b].live, what |-> w]
               /\ \A c \in DOMAIN h : c # b => g[c] = h[c]
<1> DEFINE g == [h EXCEPT ![b].what = w]
<1>1. DOMAIN g = DOMAIN h /\ \A c \in DOMAIN h : c # b => g[c] = h[c]
  OBVIOUS
<1>2. g[b] = [live |-> h[b].live, what |-> w]
  <2>1. h[b] = [live |-> h[b].live, what |-> h[b].what]
    BY DEF MemoryOK
  <2>2. g[b] = [h[b] EXCEPT !.what = w]
    OBVIOUS
  <2> QED BY <2>1, <2>2
<1> HIDE DEF g
<1>3. g[b].live = h[b].live /\ g[b].what = w
  BY <1>2
<1>4. MemoryOK(g)
  BY <1>1, <1>2, <1>3 DEF MemoryOK
<1> QED BY <1>1, <1>2, <1>4 DEF g

-----------------------------------------------------------------------------
(* What is held.                                                             *)
LEMMA HeldByCases ==
    /\ HeldBy("argument") = Pointers(ArgumentOf) /\ HeldBy("result") = Pointers(ResultOf)
    /\ HeldBy("kept") = kept /\ HeldBy("leaked") = leaked /\ HeldBy("queue") = Items(Q!Buffers)
    /\ HeldBy("cache") = Pointers(cache) /\ HeldBy("headers") = Pointers(maps)
    /\ HeldBy("request") = Pointers(CurlOf) /\ HeldBy("idle") = Items(idle)
BY DEF HeldBy

LEMMA HeldByCasesNext ==
    /\ HeldBy("argument")' = Pointers(ArgumentOf') /\ HeldBy("result")' = Pointers(ResultOf')
    /\ HeldBy("kept")' = kept' /\ HeldBy("leaked")' = leaked' /\ HeldBy("queue")' = Items(Q!Buffers')
    /\ HeldBy("cache")' = Pointers(cache') /\ HeldBy("headers")' = Pointers(maps')
    /\ HeldBy("request")' = Pointers(CurlOf') /\ HeldBy("idle")' = Items(idle')
BY DEF HeldBy, Pointers, Items

(* One pointer is set.                                                       *)
LEMMA Repointed ==
    ASSUME NEW D, NEW f \in [D -> Block], NEW g \in [D -> Block], NEW d \in D, NEW p,
           Distinct(f), p = NULL \/ p = f[d] \/ p \notin Pointers(f),
           g[d] = p, \A x \in D : x # d => g[x] = f[x]
    PROVE  /\ Distinct(g)
           /\ Pointers(g) = (Pointers(f) \ {f[d]}) \cup ({p} \ {NULL})
           /\ f[d] = NULL \/ f[d] \in Pointers(f)
<1>1. DOMAIN f = D /\ DOMAIN g = D /\ g[d] = p /\ \A x \in D : x # d => g[x] = f[x]
  OBVIOUS
<1>2. \A x \in D : f[x] = NULL \/ f[x] \in Pointers(f)
  BY <1>1 DEF Pointers
<1>3. \A x, y \in D : x # y => f[x] # f[y] \/ f[x] = NULL
  BY <1>1 DEF Distinct
<1>4. \A x, y \in D : x # y => g[x] # g[y] \/ g[x] = NULL
  <2> SUFFICES ASSUME NEW x \in D, NEW y \in D, x # y, g[x] = g[y] PROVE g[x] = NULL
    OBVIOUS
  <2>1. CASE x # d /\ y # d
    BY <1>1, <1>3, <2>1
  <2>2. CASE x = d
    BY <1>1, <1>2, <1>3, <2>2
  <2>3. CASE y = d
    BY <1>1, <1>2, <1>3, <2>3
  <2> QED BY <2>1, <2>2, <2>3
<1>5. ASSUME NEW q PROVE q \in Pointers(g) <=> q \in (Pointers(f) \ {f[d]}) \cup ({p} \ {NULL})
  <2>1. q \in Pointers(g) <=> q # NULL /\ \E x \in D : g[x] = q
    BY <1>1 DEF Pointers
  <2>2. q \in Pointers(f) <=> q # NULL /\ \E x \in D : f[x] = q
    BY <1>1 DEF Pointers
  <2> QED BY <1>1, <1>3, <2>1, <2>2
<1>6. Pointers(g) = (Pointers(f) \ {f[d]}) \cup ({p} \ {NULL})
  BY <1>5
<1>7. Distinct(g)
  BY <1>1, <1>4 DEF Distinct
<1> QED BY <1>2, <1>6, <1>7

(* A pointer is added at the end, or the first or the last one is taken.     *)
LEMMA Appended ==
    ASSUME NEW q \in Seq(Blocks), OnceIn(q), NEW b \in Blocks, b \notin Items(q)
    PROVE  OnceIn(Append(q, b)) /\ Items(Append(q, b)) = Items(q) \cup {b}
<1>1. PICK t : t = Append(q, b)
  OBVIOUS
<1>2. /\ Len(t) = Len(q) + 1 /\ t[Len(q) + 1] = b /\ Len(q) \in Nat
      /\ \A i \in 1 .. Len(q) : t[i] = q[i]
  BY <1>1, AppendProperties
<1>3. \A i \in 1 .. Len(t) : i = Len(q) + 1 \/ i \in 1 .. Len(q)
  BY <1>2
<1>4. Len(q) + 1 \in 1 .. Len(t) /\ \A i \in 1 .. Len(q) : i \in 1 .. Len(t)
  BY <1>2
<1>5. \A i, j \in 1 .. Len(t) : t[i] = t[j] => i = j
  BY <1>2, <1>3 DEF OnceIn, Items
<1>6. Items(t) = Items(q) \cup {b}
  BY <1>2, <1>3, <1>4 DEF Items
<1> QED BY <1>1, <1>5, <1>6 DEF OnceIn

LEMMA FirstTaken ==
    ASSUME NEW q \in Seq(Blocks), OnceIn(q), q # << >>
    PROVE  /\ Head(q) \in Items(q) /\ Tail(q) \in Seq(Blocks)
           /\ OnceIn(Tail(q)) /\ Items(Tail(q)) = Items(q) \ {Head(q)}
<1>1. PICK t : t = Tail(q)
  OBVIOUS
<1>2. /\ t \in Seq(Blocks) /\ Len(q) \in Nat /\ Len(q) >= 1 /\ Len(t) = Len(q) - 1
      /\ Head(q) = q[1] /\ \A i \in 1 .. Len(t) : t[i] = q[i + 1]
  BY <1>1, HeadTailProperties, EmptySeq
<1>3. \A i \in 1 .. Len(q) : i = 1 \/ (i - 1 \in 1 .. Len(t) /\ (i - 1) + 1 = i)
  BY <1>2
<1>4. 1 \in 1 .. Len(q) /\ \A i \in 1 .. Len(t) : i + 1 \in 1 .. Len(q) /\ i + 1 # 1
  BY <1>2
<1>5. \A i, j \in 1 .. Len(q) : q[i] = q[j] => i = j
  BY DEF OnceIn
<1>6. ASSUME NEW i \in 1 .. Len(t), NEW j \in 1 .. Len(t), t[i] = t[j] PROVE i = j
  <2>1. i + 1 = j + 1
    BY <1>2, <1>4, <1>5, <1>6
  <2> QED BY <2>1
<1>7. \A b : b \in Items(t) <=> b \in Items(q) /\ b # q[1]
  <2>1. \A b : b \in Items(q) <=> \E i \in 1 .. Len(q) : q[i] = b
    BY DEF Items
  <2>2. \A b : b \in Items(t) <=> \E i \in 1 .. Len(t) : t[i] = b
    BY DEF Items
  <2>3. \A i \in 1 .. Len(q) : i # 1 => t[i - 1] = q[i] /\ q[i] # q[1]
    BY <1>2, <1>3, <1>4, <1>5
  <2>4. \A i \in 1 .. Len(t) : t[i] # q[1]
    BY <1>2, <1>4, <1>5
  <2> QED BY <1>2, <1>3, <1>4, <2>1, <2>2, <2>3, <2>4
<1>8. Items(t) = Items(q) \ {Head(q)}
  BY <1>2, <1>7
<1> QED BY <1>1, <1>2, <1>4, <1>6, <1>8 DEF OnceIn, Items

LEMMA LastTaken ==
    ASSUME NEW q \in Seq(Blocks), OnceIn(q), q # << >>
    PROVE  LET t == SubSeq(q, 1, Len(q) - 1)
           IN  /\ q[Len(q)] \in Items(q) /\ t \in Seq(Blocks)
               /\ OnceIn(t) /\ Items(t) = Items(q) \ {q[Len(q)]}
<1>1. PICK t : t = SubSeq(q, 1, Len(q) - 1)
  OBVIOUS
<1>2. PICK n : n = Len(q)
  OBVIOUS
<1>3. /\ n \in Nat /\ n >= 1 /\ Len(t) = n - 1 /\ t \in Seq(Blocks)
      /\ \A i \in 1 .. n - 1 : t[i] = q[i]
  <2>1. n \in Nat /\ n >= 1
    BY <1>2, EmptySeq
  <2>2. 1 \in 1 .. n + 1 /\ n - 1 \in (1 - 1) .. n
    BY <2>1
  <2>3. /\ SubSeq(q, 1, n - 1) \in Seq(Blocks) /\ Len(SubSeq(q, 1, n - 1)) = n - 1
        /\ \A i \in 1 .. n - 1 : SubSeq(q, 1, n - 1)[i] = q[i]
    BY <1>2, <2>1, <2>2, SubSeqProperties
  <2> QED BY <1>1, <1>2, <2>1, <2>3
<1>4. \A i \in 1 .. n : i = n \/ i \in 1 .. n - 1
  BY <1>3
<1>5. n \in 1 .. n /\ \A i \in 1 .. n - 1 : i \in 1 .. n /\ i # n
  BY <1>3
<1>6. \A i, j \in 1 .. n : q[i] = q[j] => i = j
  BY <1>2 DEF OnceIn
<1>7. \A b : b \in Items(t) <=> b \in Items(q) /\ b # q[n]
  <2>1. \A b : b \in Items(q) <=> \E i \in 1 .. n : q[i] = b
    BY <1>2 DEF Items
  <2>2. \A b : b \in Items(t) <=> \E i \in 1 .. n - 1 : t[i] = b
    BY <1>3 DEF Items
  <2> QED BY <1>3, <1>4, <1>5, <1>6, <2>1, <2>2
<1>8. OnceIn(t)
  BY <1>3, <1>5, <1>6 DEF OnceIn
<1>9. Items(t) = Items(q) \ {q[n]} /\ q[n] \in Items(q)
  BY <1>2, <1>5, <1>7 DEF Items
<1> QED BY <1>1, <1>2, <1>3, <1>8, <1>9

LEMMA BuffersTyped ==
    ASSUME queue \in Seq(Blocks), taken \in Block
    PROVE  /\ Q!Buffers \in Seq(Blocks) /\ Len(Q!Buffers) \in Nat
           /\ taken = NULL => Q!Buffers = queue
           /\ taken # NULL => Q!Buffers = <<taken>> \o queue
<1>1. Q!NULL = NULL
  BY DEF Q!NULL, NULL
<1>2. CASE taken = NULL
  <2>1. << >> \o queue = queue
    BY ConcatEmptySeq
  <2> QED BY <1>1, <1>2, <2>1 DEF Q!Buffers
<1>3. CASE taken # NULL
  <2>1. <<taken>> \in Seq(Blocks)
    BY <1>3 DEF Block
  <2>2. <<taken>> \o queue \in Seq(Blocks)
    BY <2>1, ConcatProperties
  <2> QED BY <1>1, <1>3, <2>2 DEF Q!Buffers
<1> QED BY <1>2, <1>3

LEMMA HeldAreBlocks ==
    ASSUME IInv, NEW h \in Holders
    PROVE  HeldBy(h) \subseteq Blocks
<1>1. /\ Pointers(ArgumentOf) \subseteq Blocks /\ Pointers(ResultOf) \subseteq Blocks
      /\ kept \subseteq Blocks /\ leaked \subseteq Blocks
  BY DEF IInv, PoolShape, Pointers, ArgumentOf, ResultOf, OwnedResult, Job, Block
<1>2. Items(Q!Buffers) \subseteq Blocks
  <2>1. Q!Buffers \in Seq(Blocks)
    BY BuffersTyped DEF IInv, QueueShape
  <2> QED BY <2>1 DEF Items
<1>3. Pointers(cache) \subseteq Blocks
  BY DEF IInv, CacheShape, Pointers, Block
<1>4. Pointers(maps) \subseteq Blocks /\ Pointers(CurlOf) \subseteq Blocks /\ Items(idle) \subseteq Blocks
  BY DEF IInv, RequestShape, Call, Pointers, CurlOf, Items, Block
<1> QED BY <1>1, <1>2, <1>3, <1>4, HeldByCases DEF Holders

LEMMA HeldIsLive ==
    ASSUME IInv, NEW h \in Holders, NEW b \in HeldBy(h)
    PROVE  b \in Blocks /\ b \in DOMAIN heap /\ heap[b].live
BY HeldAreBlocks DEF IInv, HeldOnce, Live

(* A step of some holders: it changes only blocks that are free or theirs.   *)
Theirs(G, b) == ~Live(b) \/ \E g \in G : b \in HeldBy(g)

Settles(G) ==
    /\ \A h \in Holders \ G : HeldBy(h)' = HeldBy(h)
    /\ \A b \in Blocks : ~Theirs(G, b) =>
          /\ Live(b)' <=> Live(b)
          /\ \A g \in G : b \notin HeldBy(g)'
    /\ \A b \in Blocks : Theirs(G, b) =>
          /\ Live(b)' <=> \E g \in G : b \in HeldBy(g)'
          /\ \A g, h \in G : b \in HeldBy(g)' /\ b \in HeldBy(h)' => g = h

LEMMA Settled ==
    ASSUME HeldOnce, NEW G \in SUBSET Holders, Settles(G)
    PROVE  HeldOnce'
<1> SUFFICES ASSUME NEW b \in Blocks
             PROVE  /\ Live(b)' <=> \E h \in Holders : b \in HeldBy(h)'
                    /\ \A g, h \in Holders : b \in HeldBy(g)' /\ b \in HeldBy(h)' => g = h
  BY DEF HeldOnce
<1>1. CASE ~Theirs(G, b)
  <2>1. \A h \in Holders : b \in HeldBy(h)' <=> b \in HeldBy(h)
    BY <1>1 DEF Settles, Theirs
  <2> QED BY <1>1, <2>1 DEF HeldOnce, Settles
<1>2. CASE Theirs(G, b)
  <2>1. \A h \in Holders \ G : b \notin HeldBy(h)'
    BY <1>2 DEF HeldOnce, Settles, Theirs
  <2> QED BY <1>2, <2>1 DEF Settles
<1> QED BY <1>1, <1>2

(* The others find their blocks as they were.                                *)
Spares(G) == \A h \in Holders \ G : \A b \in HeldBy(h) : heap'[b] = heap[b]

LEMMA Spared ==
    ASSUME IInv, NEW G \in SUBSET Holders,
           \A b \in DOMAIN heap : b \in Blocks /\ ~Theirs(G, b) => heap'[b] = heap[b]
    PROVE  Spares(G)
<1> SUFFICES ASSUME NEW h \in Holders \ G, NEW b \in HeldBy(h)
             PROVE  heap'[b] = heap[b]
  BY DEF Spares
<1>1. b \in Blocks /\ b \in DOMAIN heap /\ heap[b].live
  BY HeldIsLive
<1>2. ~Theirs(G, b)
  BY <1>1 DEF Theirs, Live, IInv, HeldOnce
<1> QED BY <1>1, <1>2

-----------------------------------------------------------------------------
(* One holder gets a new block, frees one, or hands one to another.          *)
LEMMA Allocated ==
    ASSUME IInv, NEW h \in Holders, NEW w, Room(heap),
           heap' = Stored(heap, NewBlock(heap), w),
           HeldBy(h)' = HeldBy(h) \cup {NewBlock(heap)},
           \A g \in Holders \ {h} : HeldBy(g)' = HeldBy(g)
    PROVE  HeldOnce' /\ Spares({h}) /\ MemoryOK(heap') /\ heap'[Source] = heap[Source]
<1>1. PICK n : n = NewBlock(heap)
  OBVIOUS
<1>2. n \in Blocks /\ n \in DOMAIN heap /\ ~heap[n].live /\ MemoryOK(heap) /\ Source \in DOMAIN heap
  BY <1>1, NewBlockIsFree DEF IInv, HeapShape, MemoryOK
<1>3. /\ MemoryOK(heap') /\ DOMAIN heap' = DOMAIN heap /\ heap'[n].live
      /\ \A c \in DOMAIN heap : c # n => heap'[c] = heap[c]
  <2>1. heap' = Stored(heap, n, w)
    BY <1>1
  <2>2. /\ MemoryOK(heap') /\ DOMAIN heap' = DOMAIN heap /\ heap'[n] = [live |-> TRUE, what |-> w]
        /\ \A c \in DOMAIN heap : c # n => heap'[c] = heap[c]
    BY <1>2, <2>1, StoredMemory
  <2> QED BY <2>2
<1>4. \A b \in Blocks : Live(b)' <=> Live(b) \/ b = n
  BY <1>2, <1>3 DEF Live
<1>5. \A b \in Blocks : b \in HeldBy(h)' <=> b \in HeldBy(h) \/ b = n
  BY <1>1
<1>6. \A b \in Blocks : b \in HeldBy(h) => Live(b)
  BY DEF IInv, HeldOnce
<1>7. Settles({h})
  BY <1>2, <1>4, <1>5, <1>6 DEF Settles, Theirs, Live
<1>8. Spares({h})
  <2>1. ~Live(n)
    BY <1>2 DEF Live
  <2> QED BY <1>3, <2>1, Spared DEF Theirs
<1> QED BY <1>2, <1>3, <1>7, <1>8, Settled, BlockNumbers DEF IInv

LEMMA Released ==
    ASSUME IInv, NEW h \in Holders, NEW b \in HeldBy(h),
           heap' = Without(heap, b),
           HeldBy(h)' = HeldBy(h) \ {b},
           \A g \in Holders \ {h} : HeldBy(g)' = HeldBy(g)
    PROVE  HeldOnce' /\ Spares({h}) /\ MemoryOK(heap') /\ heap'[Source] = heap[Source]
<1>2. b \in Blocks /\ b \in DOMAIN heap /\ heap[b].live /\ MemoryOK(heap) /\ Source \in DOMAIN heap
  BY HeldIsLive DEF IInv, HeapShape, MemoryOK
<1>3. /\ MemoryOK(heap') /\ DOMAIN heap' = DOMAIN heap /\ ~heap'[b].live
      /\ \A c \in DOMAIN heap : c # b => heap'[c] = heap[c]
  BY <1>2, WithoutMemory, BlockNumbers DEF Block
<1>4. \A c \in Blocks : Live(c)' <=> Live(c) /\ c # b
  BY <1>2, <1>3 DEF Live
<1>5. \A c \in Blocks : c \in HeldBy(h)' <=> c \in HeldBy(h) /\ c # b
  OBVIOUS
<1>6. \A c \in Blocks : c \in HeldBy(h) => Live(c)
  BY DEF IInv, HeldOnce
<1>7. Settles({h})
  BY <1>4, <1>5, <1>6 DEF Settles, Theirs
<1>8. Spares({h})
  BY <1>3, Spared DEF Theirs
<1> QED BY <1>2, <1>3, <1>7, <1>8, Settled, BlockNumbers DEF IInv

LEMMA HandedOver ==
    ASSUME IInv, NEW g \in Holders, NEW h \in Holders, g # h, NEW b \in HeldBy(g),
           \A c \in Blocks : Live(c)' <=> Live(c),
           HeldBy(g)' = HeldBy(g) \ {b}, HeldBy(h)' = HeldBy(h) \cup {b},
           \A k \in Holders \ {g, h} : HeldBy(k)' = HeldBy(k)
    PROVE  HeldOnce'
<1>1. \A c \in Blocks : /\ c \in HeldBy(g) => Live(c) /\ c \notin HeldBy(h)
                        /\ c \in HeldBy(h) => Live(c)
  BY DEF IInv, HeldOnce
<1>2. \A c \in Blocks : /\ c \in HeldBy(g)' <=> c \in HeldBy(g) /\ c # b
                        /\ c \in HeldBy(h)' <=> c \in HeldBy(h) \/ c = b
  OBVIOUS
<1>3. Settles({g, h})
  BY <1>1, <1>2 DEF Settles, Theirs
<1> QED BY <1>3, Settled DEF IInv

(* One block is written to by its holder.                                    *)
LEMMA Written ==
    ASSUME IInv, NEW h \in Holders, NEW b \in HeldBy(h),
           DOMAIN heap' = DOMAIN heap, heap'[b].live = heap[b].live,
           \A c \in DOMAIN heap : c # b => heap'[c] = heap[c],
           \A g \in Holders : HeldBy(g)' = HeldBy(g)
    PROVE  HeldOnce' /\ Spares({h}) /\ heap'[Source] = heap[Source]
<1>1. b \in Blocks /\ b \in DOMAIN heap /\ heap[b].live /\ Source \in DOMAIN heap
  BY HeldIsLive DEF IInv, HeapShape, MemoryOK
<1>3. \A c \in Blocks : Live(c)' <=> Live(c)
  BY <1>1 DEF Live
<1>4. HeldOnce'
  BY <1>3 DEF IInv, HeldOnce
<1>5. Spares({h})
  BY Spared DEF Theirs
<1> QED BY <1>1, <1>4, <1>5, BlockNumbers

(* What the queue does to the channel that it is: a message is added, or the *)
(* first is taken, or neither.                                               *)
Sends == \E b \in Blocks, t \in Texts :
    /\ Q!Buffers' = Append(Q!Buffers, b) /\ heap'[b].what = Text(t) /\ output' = output
    /\ \A c \in Items(Q!Buffers) : heap'[c].what = heap[c].what
Receives ==
    /\ Q!Buffers # << >> /\ Q!Buffers' = Tail(Q!Buffers)
    /\ output' = heap[Head(Q!Buffers)].what.text
    /\ \A c \in Items(Tail(Q!Buffers)) : heap'[c].what = heap[c].what
Stutters ==
    /\ Q!Buffers' = Q!Buffers /\ output' = output
    /\ \A c \in Items(Q!Buffers) : heap'[c].what = heap[c].what

-----------------------------------------------------------------------------
(* A component whose variables stay, and whose blocks are spared, finds what *)
(* it relies on.                                                             *)
PoolHolders == {"argument", "result", "kept", "leaked"}
RequestHolders == {"headers", "request", "idle"}

LEMMA PoolKept ==
    ASSUME IInv, UNCHANGED poolVars
    PROVE  PoolShape' /\ \A h \in PoolHolders : HeldBy(h)' = HeldBy(h)
<1>1. ArgumentOf' = ArgumentOf /\ ResultOf' = ResultOf /\ kept' = kept /\ leaked' = leaked
  BY DEF poolVars, ArgumentOf, ResultOf
<1>2. \A h \in PoolHolders : HeldBy(h)' = HeldBy(h)
  BY <1>1, HeldByCases, HeldByCasesNext DEF PoolHolders
<1>3. PoolShape'
  BY <1>1 DEF IInv, PoolShape, poolVars
<1> QED BY <1>2, <1>3

LEMMA QueueKept ==
    ASSUME IInv, UNCHANGED queueVars, \A b \in HeldBy("queue") : heap'[b] = heap[b]
    PROVE  QueueShape' /\ HeldBy("queue")' = HeldBy("queue") /\ Stutters
<1>1. Q!Buffers' = Q!Buffers
  BY DEF queueVars, Q!Buffers
<1>2. \A b \in Items(Q!Buffers) : heap'[b] = heap[b]
  BY HeldByCases
<1>3. \A b \in Items(Q!Buffers) : IsText(b)'
  BY <1>2 DEF IInv, QueueShape, IsText
<1>4. QueueShape'
  BY <1>1, <1>3 DEF IInv, QueueShape, queueVars
<1>5. Stutters
  BY <1>1, <1>2 DEF Stutters, queueVars
<1> QED BY <1>1, <1>4, <1>5, HeldByCases, HeldByCasesNext

LEMMA CacheKept ==
    ASSUME IInv, UNCHANGED cacheVars, \A b \in HeldBy("cache") : heap'[b] = heap[b]
    PROVE  CacheShape' /\ HeldBy("cache")' = HeldBy("cache")
<1>1. \A b \in Pointers(cache) : IsText(b)'
  BY HeldByCases DEF IInv, CacheShape, IsText
<1>2. \A s \in Scripts : held[s].at # NULL => held[s].at \in Pointers(cache)
  <2> SUFFICES ASSUME NEW s \in Scripts, held[s].at # NULL PROVE held[s].at \in Pointers(cache)
    OBVIOUS
  <2>1. mine[s] \in 0 .. MaxKeys /\ mine[s] # MaxKeys /\ cache[mine[s]] = held[s].at
    BY DEF IInv, CacheShape, C!NoKey
  <2>2. mine[s] \in DOMAIN cache
    BY <2>1 DEF IInv, CacheShape
  <2> QED BY <2>1, <2>2 DEF Pointers
<1>3. CacheShape'
  BY <1>1, <1>2, HeldByCases DEF IInv, CacheShape, cacheVars, C!NoKey
<1> QED BY <1>3, HeldByCases, HeldByCasesNext DEF cacheVars

LEMMA RequestsKept ==
    ASSUME IInv, UNCHANGED requestVars, \A h \in RequestHolders : \A b \in HeldBy(h) : heap'[b] = heap[b]
    PROVE  RequestShape' /\ \A h \in RequestHolders : HeldBy(h)' = HeldBy(h)
<1>1. CurlOf' = CurlOf /\ maps' = maps /\ idle' = idle
  BY DEF requestVars, CurlOf
<1>2. \A s \in Scripts : maps[s] # NULL => heap'[maps[s]] = heap[maps[s]]
  <2>1. \A s \in Scripts : maps[s] # NULL => maps[s] \in Pointers(maps)
    BY DEF IInv, RequestShape, Pointers
  <2> QED BY <2>1, HeldByCases DEF RequestHolders
<1>3. \A s \in Scripts : calls[s].curl # NULL => heap'[calls[s].curl] = heap[calls[s].curl]
  <2>1. \A s \in Scripts : calls[s].curl # NULL => calls[s].curl \in Pointers(CurlOf)
    BY DEF CurlOf, Pointers
  <2> QED BY <2>1, HeldByCases DEF RequestHolders
<1>4. RequestShape'
  <2>1. idle' = idle /\ maps' = maps /\ calls' = calls /\ answer' = answer /\ wanted' = wanted
    BY DEF requestVars
  <2>2. \A s \in Scripts : MapOK(s)'
    BY <1>2, <2>1 DEF IInv, RequestShape, MapOK
  <2>3. \A s \in Scripts : CurlOK(s)'
    BY <1>3, <2>1 DEF IInv, RequestShape, CurlOK
  <2> QED BY <1>1, <2>1, <2>2, <2>3 DEF IInv, RequestShape
<1> QED BY <1>1, <1>4, HeldByCases, HeldByCasesNext DEF RequestHolders

(* So that a step of one component has to be looked at there only.           *)
LEMMA OnlyPool ==
    ASSUME IInv, UNCHANGED <<queueVars, cacheVars, requestVars>>,
           HeldOnce', Spares(PoolHolders), MemoryOK(heap'), heap'[Source] = heap[Source], PoolShape'
    PROVE  IInv' /\ Stutters
<1>1. \A h \in {"queue", "cache", "headers", "request", "idle"} :
          \A b \in HeldBy(h) : heap'[b] = heap[b]
  BY DEF Spares, Holders, PoolHolders
<1>2. QueueShape' /\ CacheShape' /\ RequestShape' /\ Stutters
  BY <1>1, QueueKept, CacheKept, RequestsKept DEF RequestHolders
<1>3. HeapShape'
  BY DEF IInv, HeapShape, IsText
<1> QED BY <1>2, <1>3 DEF IInv

LEMMA OnlyQueue ==
    ASSUME IInv, UNCHANGED <<poolVars, cacheVars, requestVars>>,
           HeldOnce', Spares({"queue"}), MemoryOK(heap'), IsText(Source)', QueueShape'
    PROVE  IInv'
<1>1. \A h \in {"cache", "headers", "request", "idle"} :
          \A b \in HeldBy(h) : heap'[b] = heap[b]
  BY DEF Spares, Holders
<1>2. PoolShape' /\ CacheShape' /\ RequestShape'
  BY <1>1, PoolKept, CacheKept, RequestsKept DEF RequestHolders
<1>3. HeapShape'
  BY DEF IInv, HeapShape
<1> QED BY <1>2, <1>3 DEF IInv

LEMMA OnlyCache ==
    ASSUME IInv, UNCHANGED <<poolVars, queueVars, requestVars>>,
           HeldOnce', Spares({"cache"}), MemoryOK(heap'), heap'[Source] = heap[Source], CacheShape'
    PROVE  IInv' /\ Stutters
<1>1. \A h \in {"queue", "headers", "request", "idle"} :
          \A b \in HeldBy(h) : heap'[b] = heap[b]
  BY DEF Spares, Holders
<1>2. PoolShape' /\ QueueShape' /\ RequestShape' /\ Stutters
  BY <1>1, PoolKept, QueueKept, RequestsKept DEF RequestHolders
<1>3. HeapShape'
  BY DEF IInv, HeapShape, IsText
<1> QED BY <1>2, <1>3 DEF IInv

LEMMA OnlyRequests ==
    ASSUME IInv, UNCHANGED <<poolVars, queueVars, cacheVars>>,
           HeldOnce', Spares(RequestHolders), MemoryOK(heap'), heap'[Source] = heap[Source], RequestShape'
    PROVE  IInv' /\ Stutters
<1>1. \A h \in {"queue", "cache"} : \A b \in HeldBy(h) : heap'[b] = heap[b]
  BY DEF Spares, Holders, RequestHolders
<1>2. PoolShape' /\ QueueShape' /\ CacheShape' /\ Stutters
  BY <1>1, PoolKept, QueueKept, CacheKept
<1>3. HeapShape'
  BY DEF IInv, HeapShape, IsText
<1> QED BY <1>2, <1>3 DEF IInv

(* A step that leaves the memory and all holders as they are.                *)
LEMMA NothingHeld ==
    ASSUME IInv, heap' = heap, \A h \in Holders : HeldBy(h)' = HeldBy(h)
    PROVE  HeldOnce' /\ MemoryOK(heap') /\ heap'[Source] = heap[Source] /\ \A G : Spares(G)
<1>1. HeldOnce'
  BY DEF IInv, HeldOnce, Live
<1> QED BY <1>1 DEF IInv, HeapShape, Spares

-----------------------------------------------------------------------------
(* The pool.  One job changes.                                               *)
LEMMA JobSet ==
    ASSUME IInv, NEW c \in Calls, NEW j \in Job, JobOK(j), jobs' = [jobs EXCEPT ![c] = j],
           kept' \subseteq Blocks, leaked' \subseteq Blocks,
           j.arg \in {NULL, jobs[c].arg} \/ j.arg \notin HeldBy("argument"),
           OwnedResult(j) \in {NULL, OwnedResult(jobs[c])} \/ OwnedResult(j) \notin HeldBy("result")
    PROVE  /\ PoolShape'
           /\ HeldBy("argument")' = (HeldBy("argument") \ {jobs[c].arg}) \cup ({j.arg} \ {NULL})
           /\ HeldBy("result")' = (HeldBy("result") \ {OwnedResult(jobs[c])})
                                     \cup ({OwnedResult(j)} \ {NULL})
           /\ HeldBy("kept")' = kept' /\ HeldBy("leaked")' = leaked'
<1>1. /\ jobs \in [Calls -> Job] /\ jobs' \in [Calls -> Job]
      /\ \A d \in Calls : jobs'[d] = IF d = c THEN j ELSE jobs[d]
  BY DEF IInv, PoolShape
<1>2. \A d \in Job : d.arg \in Block /\ OwnedResult(d) \in Block
  BY DEF Job, OwnedResult, Block
<1>3. ArgumentOf \in [Calls -> Block] /\ ResultOf \in [Calls -> Block]
  BY <1>1, <1>2 DEF ArgumentOf, ResultOf
<1>4. /\ ArgumentOf' = [ArgumentOf EXCEPT ![c] = j.arg]
      /\ ResultOf' = [ResultOf EXCEPT ![c] = OwnedResult(j)]
  <2>1. \A d \in Calls : /\ jobs'[d].arg = (IF d = c THEN j.arg ELSE jobs[d].arg)
                         /\ OwnedResult(jobs'[d]) = (IF d = c THEN OwnedResult(j) ELSE OwnedResult(jobs[d]))
    BY <1>1
  <2> QED BY <2>1 DEF ArgumentOf, ResultOf
<1>5. ArgumentOf[c] = jobs[c].arg /\ ResultOf[c] = OwnedResult(jobs[c])
  BY DEF ArgumentOf, ResultOf
<1>6. Distinct(ArgumentOf) /\ Distinct(ResultOf)
  BY DEF IInv, PoolShape
<1>7. /\ Distinct(ArgumentOf')
      /\ Pointers(ArgumentOf') = (Pointers(ArgumentOf) \ {jobs[c].arg}) \cup ({j.arg} \ {NULL})
  <2>1. PICK g : g = ArgumentOf'
    OBVIOUS
  <2>2. PICK p : p = j.arg
    OBVIOUS
  <2>3. p \in Block /\ (p = NULL \/ p = ArgumentOf[c] \/ p \notin Pointers(ArgumentOf))
    BY <1>2, <1>5, <2>2, HeldByCases
  <2>4. /\ ArgumentOf \in [Calls -> Block] /\ g \in [Calls -> Block]
        /\ g[c] = p /\ \A x \in Calls : x # c => g[x] = ArgumentOf[x]
    BY <1>3, <1>4, <2>1, <2>2, <2>3
  <2>5. /\ Distinct(g)
        /\ Pointers(g) = (Pointers(ArgumentOf) \ {ArgumentOf[c]}) \cup ({p} \ {NULL})
    BY <1>3, <1>6, <2>3, <2>4, Repointed
  <2> QED BY <1>5, <2>1, <2>2, <2>5
<1>8. /\ Distinct(ResultOf')
      /\ Pointers(ResultOf') = (Pointers(ResultOf) \ {OwnedResult(jobs[c])})
                                  \cup ({OwnedResult(j)} \ {NULL})
  <2>1. PICK g : g = ResultOf'
    OBVIOUS
  <2>2. PICK p : p = OwnedResult(j)
    OBVIOUS
  <2>3. p \in Block /\ (p = NULL \/ p = ResultOf[c] \/ p \notin Pointers(ResultOf))
    BY <1>2, <1>5, <2>2, HeldByCases
  <2>4. /\ ResultOf \in [Calls -> Block] /\ g \in [Calls -> Block]
        /\ g[c] = p /\ \A x \in Calls : x # c => g[x] = ResultOf[x]
    BY <1>3, <1>4, <2>1, <2>2, <2>3
  <2>5. /\ Distinct(g)
        /\ Pointers(g) = (Pointers(ResultOf) \ {ResultOf[c]}) \cup ({p} \ {NULL})
    BY <1>3, <1>6, <2>3, <2>4, Repointed
  <2> QED BY <1>5, <2>1, <2>2, <2>5
<1>9. \A d \in Calls : JobOK(jobs'[d])
  BY <1>1 DEF IInv, PoolShape
<1>10. PoolShape'
  BY <1>1, <1>7, <1>8, <1>9 DEF PoolShape, Distinct
<1> QED BY <1>7, <1>8, <1>10, HeldByCases, HeldByCasesNext

LEMMA PoolOthers ==
    ASSUME IInv, UNCHANGED <<queueVars, cacheVars, requestVars>>
    PROVE  \A h \in Holders \ PoolHolders : HeldBy(h)' = HeldBy(h)
<1>1. /\ Q!Buffers' = Q!Buffers /\ cache' = cache /\ maps' = maps /\ CurlOf' = CurlOf /\ idle' = idle
  BY DEF queueVars, cacheVars, requestVars, Q!Buffers, CurlOf
<1> QED BY <1>1, HeldByCases, HeldByCasesNext DEF Holders, PoolHolders

LEMMA LeakedStay == leaked' = leaked => HeldBy("leaked")' = HeldBy("leaked")
BY HeldByCases, HeldByCasesNext

(* Sparing all but one holder is sparing all but its component.              *)
LEMMA SparesMore == \A G, H : G \subseteq H /\ Spares(G) => Spares(H)
BY DEF Spares

LEMMA JobParts ==
    ASSUME IInv, NEW c \in Calls
    PROVE  /\ jobs[c] \in Job /\ JobOK(jobs[c])
           /\ jobs[c].arg = NULL \/ jobs[c].arg \in HeldBy("argument")
           /\ OwnedResult(jobs[c]) = NULL \/ OwnedResult(jobs[c]) \in HeldBy("result")
<1>1. jobs[c] \in Job /\ JobOK(jobs[c])
  BY DEF IInv, PoolShape
<1>2. jobs[c].arg = ArgumentOf[c] /\ OwnedResult(jobs[c]) = ResultOf[c]
  BY DEF ArgumentOf, ResultOf
<1>3. c \in DOMAIN ArgumentOf /\ c \in DOMAIN ResultOf
  BY DEF ArgumentOf, ResultOf
<1> QED BY <1>1, <1>2, <1>3, HeldByCases DEF Pointers

LEMMA NewJob ==
    ASSUME NEW k, NEW a, NEW w
    PROVE  [NoJob EXCEPT !.kind = k, !.arg = a, !.pc = "queued", !.waiter = w]
             = [kind |-> k, waiter |-> w, arg |-> a, result |-> NULL, pc |-> "queued"]
<1>1. [NoJob EXCEPT !.kind = k]
        = [kind |-> k, waiter |-> NULL, arg |-> NULL, result |-> NULL, pc |-> "none"]
  BY DEF NoJob
<1>2. [[kind |-> k, waiter |-> NULL, arg |-> NULL, result |-> NULL, pc |-> "none"] EXCEPT !.arg = a]
        = [kind |-> k, waiter |-> NULL, arg |-> a, result |-> NULL, pc |-> "none"]
  OBVIOUS
<1>3. [[kind |-> k, waiter |-> NULL, arg |-> a, result |-> NULL, pc |-> "none"] EXCEPT !.pc = "queued"]
        = [kind |-> k, waiter |-> NULL, arg |-> a, result |-> NULL, pc |-> "queued"]
  OBVIOUS
<1>4. [[kind |-> k, waiter |-> NULL, arg |-> a, result |-> NULL, pc |-> "queued"] EXCEPT !.waiter = w]
        = [kind |-> k, waiter |-> w, arg |-> a, result |-> NULL, pc |-> "queued"]
  OBVIOUS
<1>5. [NoJob EXCEPT !.kind = k, !.arg = a, !.pc = "queued", !.waiter = w]
        = [[[[NoJob EXCEPT !.kind = k] EXCEPT !.arg = a] EXCEPT !.pc = "queued"] EXCEPT !.waiter = w]
  BY DEF NoJob
<1> QED BY <1>1, <1>2, <1>3, <1>4, <1>5

LEMMA Submits ==
    ASSUME IInv, UNCHANGED <<queueVars, cacheVars, requestVars>>,
           NEW s \in Scripts, NEW c \in Calls, NEW kind \in Kinds, NEW value \in Args,
           submit(s, c, kind, value)
    PROVE  IInv' /\ Stutters
<1> DEFINE j == [NoJob EXCEPT !.kind = kind, !.arg = NewBlock(heap), !.pc = "queued",
                    !.waiter = IF kind \in {"call", "call_with_cb"} THEN s ELSE NULL]
           w == set(Empty, "in", value.type, value.value)
<1>1. /\ jobs[c].pc = "none" /\ Room(heap)
      /\ heap' = Stored(heap, NewBlock(heap), w)
      /\ jobs' = [jobs EXCEPT ![c] = j] /\ kept' = kept /\ leaked' = leaked
  BY DEF submit
<1>2. NewBlock(heap) \in Blocks /\ ~Live(NewBlock(heap))
  BY <1>1, NewBlockIsFree DEF IInv, HeapShape, Live
<1>3. j = [kind |-> kind, waiter |-> IF kind \in {"call", "call_with_cb"} THEN s ELSE NULL,
           arg |-> NewBlock(heap), result |-> NULL, pc |-> "queued"]
  BY NewJob
<1> HIDE DEF j, w
<1>4. j \in Job /\ JobOK(j) /\ j.arg = NewBlock(heap) /\ OwnedResult(j) = NULL
  BY <1>2, <1>3 DEF Job, JobOK, OwnedResult, Block
<1>5. jobs[c].arg = NULL /\ OwnedResult(jobs[c]) = NULL
  BY <1>1, JobParts DEF JobOK, OwnedResult
<1>6. \A h \in Holders : NewBlock(heap) \notin HeldBy(h) /\ NULL \notin HeldBy(h)
  BY <1>2, HeldAreBlocks, BlockNumbers DEF IInv, HeldOnce
<1>7. /\ PoolShape' /\ HeldBy("kept")' = HeldBy("kept") /\ HeldBy("result")' = HeldBy("result")
      /\ HeldBy("argument")' = HeldBy("argument") \cup {NewBlock(heap)}
  <2>1. kept' \subseteq Blocks /\ leaked' \subseteq Blocks
    BY <1>1 DEF IInv, PoolShape
  <2>2. /\ PoolShape' /\ HeldBy("kept")' = kept
        /\ HeldBy("argument")' = (HeldBy("argument") \ {NULL}) \cup ({NewBlock(heap)} \ {NULL})
        /\ HeldBy("result")' = (HeldBy("result") \ {NULL}) \cup ({NULL} \ {NULL})
    <3>1. "argument" \in Holders /\ "result" \in Holders
      BY DEF Holders
    <3>2. PICK job : job = j
      OBVIOUS
    <3>3. job \in Job /\ JobOK(job) /\ jobs' = [jobs EXCEPT ![c] = job]
      BY <1>1, <1>4, <3>2
    <3>4. /\ job.arg \in {NULL, jobs[c].arg} \/ job.arg \notin HeldBy("argument")
          /\ OwnedResult(job) \in {NULL, OwnedResult(jobs[c])}
      BY <1>4, <1>6, <3>1, <3>2
    <3>5. /\ PoolShape' /\ HeldBy("kept")' = kept'
          /\ HeldBy("argument")' = (HeldBy("argument") \ {jobs[c].arg}) \cup ({job.arg} \ {NULL})
          /\ HeldBy("result")' = (HeldBy("result") \ {OwnedResult(jobs[c])})
                                     \cup ({OwnedResult(job)} \ {NULL})
      BY <2>1, <3>3, <3>4, JobSet
    <3> QED BY <1>1, <1>4, <1>5, <3>2, <3>5
  <2> QED BY <1>2, <1>6, <2>2, HeldByCases, BlockNumbers, ZenonT(60) DEF Holders
<1>8. \A g \in Holders \ {"argument"} : HeldBy(g)' = HeldBy(g)
  BY <1>1, <1>7, PoolOthers, LeakedStay DEF PoolHolders
<1>9. HeldOnce' /\ Spares({"argument"}) /\ MemoryOK(heap') /\ heap'[Source] = heap[Source]
  BY <1>1, <1>7, <1>8, Allocated DEF Holders
<1> QED BY <1>7, <1>9, OnlyPool, SparesMore DEF PoolHolders

(* What a call looks like after its next step.                               *)
LEMMA JobFields ==
    ASSUME IInv, NEW c \in Calls, NEW r
    PROVE  /\ [jobs EXCEPT ![c].pc = "entered", ![c].result = r]
                = [jobs EXCEPT ![c] = [kind |-> jobs[c].kind, waiter |-> jobs[c].waiter, arg |-> jobs[c].arg,
                                       result |-> r, pc |-> "entered"]]
           /\ \A p : [jobs EXCEPT ![c].pc = p]
                = [jobs EXCEPT ![c] = [kind |-> jobs[c].kind, waiter |-> jobs[c].waiter, arg |-> jobs[c].arg,
                                       result |-> jobs[c].result, pc |-> p]]
<1>1. jobs \in [Calls -> Job]
  BY DEF IInv, PoolShape
<1>2. PICK k, w, a, o, q : jobs[c] = [kind |-> k, waiter |-> w, arg |-> a, result |-> o, pc |-> q]
  BY <1>1 DEF Job
<1>3. jobs[c].kind = k /\ jobs[c].waiter = w /\ jobs[c].arg = a /\ jobs[c].result = o
  BY <1>2
<1>4. \A p : [[kind |-> k, waiter |-> w, arg |-> a, result |-> o, pc |-> q] EXCEPT !.pc = p]
          = [kind |-> k, waiter |-> w, arg |-> a, result |-> o, pc |-> p]
  OBVIOUS
<1>5. [[kind |-> k, waiter |-> w, arg |-> a, result |-> o, pc |-> "entered"] EXCEPT !.result = r]
          = [kind |-> k, waiter |-> w, arg |-> a, result |-> r, pc |-> "entered"]
  OBVIOUS
<1>6. \A p : [jobs EXCEPT ![c].pc = p] = [jobs EXCEPT ![c] = [jobs[c] EXCEPT !.pc = p]]
  BY <1>1
<1>7. [jobs EXCEPT ![c].pc = "entered", ![c].result = r]
        = [jobs EXCEPT ![c] = [[jobs[c] EXCEPT !.pc = "entered"] EXCEPT !.result = r]]
  BY <1>1
<1>8. ASSUME NEW p
      PROVE  [jobs EXCEPT ![c].pc = p]
               = [jobs EXCEPT ![c] = [kind |-> k, waiter |-> w, arg |-> a, result |-> o, pc |-> p]]
  BY <1>2, <1>4, <1>6
<1>9. [jobs EXCEPT ![c].pc = "entered", ![c].result = r]
        = [jobs EXCEPT ![c] = [kind |-> k, waiter |-> w, arg |-> a, result |-> r, pc |-> "entered"]]
  <2>1. [jobs[c] EXCEPT !.pc = "entered"] = [kind |-> k, waiter |-> w, arg |-> a, result |-> o, pc |-> "entered"]
    BY <1>2, <1>4
  <2>2. [[jobs[c] EXCEPT !.pc = "entered"] EXCEPT !.result = r]
          = [kind |-> k, waiter |-> w, arg |-> a, result |-> r, pc |-> "entered"]
    BY <2>1, <1>5
  <2> QED BY <2>2, <1>7
<1> QED BY <1>3, <1>8, <1>9

LEMMA Enters ==
    ASSUME IInv, UNCHANGED <<queueVars, cacheVars, requestVars>>,
           NEW c \in Calls, NEW type \in Asked, enter(c, type)
    PROVE  IInv' /\ Stutters
<1> DEFINE w == set(Empty, "out", type, Answer(heap[jobs[c].arg].what, type))
<1>1. PICK n : n = NewBlock(heap)
  OBVIOUS
<1>2. PICK j : j = [kind |-> jobs[c].kind, waiter |-> jobs[c].waiter, arg |-> jobs[c].arg,
                    result |-> n, pc |-> "entered"]
  OBVIOUS
<1>3. /\ jobs[c].pc = "queued" /\ Room(heap) /\ kept' = kept /\ leaked' = leaked
      /\ heap' = Stored(heap, NewBlock(heap), w)
      /\ jobs' = [jobs EXCEPT ![c] = j]
  BY <1>1, <1>2, JobFields, ZenonT(60) DEF enter, Starts
<1> HIDE DEF w
<1>4. n \in Blocks /\ ~Live(n)
  BY <1>1, <1>3, NewBlockIsFree DEF IInv, HeapShape, Live
<1>5. /\ j \in Job /\ JobOK(j) /\ j.arg = jobs[c].arg /\ OwnedResult(j) = n
      /\ OwnedResult(jobs[c]) = NULL
  <2>1. jobs[c] \in Job /\ JobOK(jobs[c])
    BY JobParts
  <2>2. jobs[c].result = NULL
    BY <1>3, <2>1 DEF JobOK
  <2> QED BY <1>2, <1>3, <1>4, <2>1, <2>2 DEF Job, JobOK, OwnedResult, Block
<1>6. \A h \in Holders : n \notin HeldBy(h) /\ NULL \notin HeldBy(h)
  BY <1>4, HeldAreBlocks, BlockNumbers DEF IInv, HeldOnce
<1>7. /\ PoolShape' /\ HeldBy("kept")' = HeldBy("kept") /\ HeldBy("argument")' = HeldBy("argument")
      /\ HeldBy("result")' = HeldBy("result") \cup {NewBlock(heap)}
  <2>1. kept' \subseteq Blocks /\ leaked' \subseteq Blocks
    BY <1>3 DEF IInv, PoolShape
  <2>2. OwnedResult(j) \notin HeldBy("result") /\ NULL \notin HeldBy("result")
    BY <1>5, <1>6 DEF Holders
  <2>3. /\ PoolShape' /\ HeldBy("kept")' = kept'
        /\ HeldBy("argument")' = (HeldBy("argument") \ {jobs[c].arg}) \cup ({jobs[c].arg} \ {NULL})
        /\ HeldBy("result")' = (HeldBy("result") \ {NULL}) \cup ({n} \ {NULL})
    <3>1. /\ j.arg \in {NULL, jobs[c].arg}
          /\ OwnedResult(j) \in {NULL, OwnedResult(jobs[c])} \/ OwnedResult(j) \notin HeldBy("result")
      BY <1>5, <2>2
    <3>2. /\ PoolShape' /\ HeldBy("kept")' = kept'
          /\ HeldBy("argument")' = (HeldBy("argument") \ {jobs[c].arg}) \cup ({j.arg} \ {NULL})
          /\ HeldBy("result")' = (HeldBy("result") \ {OwnedResult(jobs[c])}) \cup ({OwnedResult(j)} \ {NULL})
      BY <1>3, <1>5, <2>1, <3>1, JobSet
    <3> QED BY <1>5, <3>2
  <2>4. jobs[c].arg = NULL \/ jobs[c].arg \in HeldBy("argument")
    BY JobParts
  <2>5. NULL \notin HeldBy("argument") /\ n # NULL
    BY <1>4, <1>6, BlockNumbers DEF Holders
  <2> QED BY <1>1, <1>3, <2>2, <2>3, <2>4, <2>5, HeldByCases
<1>8. \A g \in Holders \ {"result"} : HeldBy(g)' = HeldBy(g)
  BY <1>3, <1>7, PoolOthers, LeakedStay DEF PoolHolders
<1>9. HeldOnce' /\ Spares({"result"}) /\ MemoryOK(heap') /\ heap'[Source] = heap[Source]
  BY <1>3, <1>7, <1>8, Allocated DEF Holders
<1> QED BY <1>7, <1>9, OnlyPool, SparesMore DEF PoolHolders

LEMMA EntersNull ==
    ASSUME IInv, UNCHANGED <<queueVars, cacheVars, requestVars>>, NEW c \in Calls, enter_nullptr(c)
    PROVE  IInv' /\ Stutters
<1>1. PICK j : j = [kind |-> jobs[c].kind, waiter |-> jobs[c].waiter, arg |-> jobs[c].arg,
                    result |-> jobs[c].result, pc |-> "entered"]
  OBVIOUS
<1>2. /\ jobs[c].pc = "queued" /\ kept' = kept /\ leaked' = leaked /\ heap' = heap
      /\ jobs' = [jobs EXCEPT ![c] = j]
  BY <1>1, JobFields DEF enter_nullptr, Starts
<1>3. /\ j \in Job /\ JobOK(j) /\ j.arg = jobs[c].arg /\ OwnedResult(j) = NULL
      /\ OwnedResult(jobs[c]) = NULL
  <2>1. jobs[c] \in Job /\ JobOK(jobs[c])
    BY JobParts
  <2>2. jobs[c].result = NULL
    BY <1>2, <2>1 DEF JobOK
  <2> QED BY <1>1, <1>2, <2>1, <2>2 DEF Job, JobOK, OwnedResult
<1>4. PoolShape' /\ \A h \in PoolHolders : HeldBy(h)' = HeldBy(h)
  <2>1. kept' \subseteq Blocks /\ leaked' \subseteq Blocks /\ HeldBy("kept") = kept
    BY <1>2, HeldByCases DEF IInv, PoolShape
  <2>2. /\ PoolShape' /\ HeldBy("kept")' = kept'
        /\ HeldBy("argument")' = (HeldBy("argument") \ {jobs[c].arg}) \cup ({jobs[c].arg} \ {NULL})
        /\ HeldBy("result")' = (HeldBy("result") \ {NULL}) \cup ({NULL} \ {NULL})
    BY <1>2, <1>3, <2>1, JobSet, ZenonT(60)
  <2>3. jobs[c].arg = NULL \/ jobs[c].arg \in HeldBy("argument")
    BY JobParts
  <2>4. NULL \notin HeldBy("argument") /\ NULL \notin HeldBy("result")
    BY HeldByCases DEF Pointers
  <2>5. HeldBy("argument")' = HeldBy("argument") /\ HeldBy("result")' = HeldBy("result")
    BY <2>2, <2>3, <2>4
  <2> QED BY <1>2, <2>1, <2>2, <2>5, LeakedStay DEF PoolHolders
<1>5. HeldOnce' /\ Spares(PoolHolders) /\ MemoryOK(heap') /\ heap'[Source] = heap[Source]
  BY <1>2, <1>4, PoolOthers, NothingHeld
<1> QED BY <1>4, <1>5, OnlyPool

LEMMA CallsBack ==
    ASSUME IInv, UNCHANGED <<queueVars, cacheVars, requestVars>>,
           NEW c \in Calls, NEW cb \in BOOLEAN, callback(c, cb)
    PROVE  IInv' /\ Stutters
<1>1. PICK r : r = jobs[c].result
  OBVIOUS
<1>2. PICK j : j = [kind |-> jobs[c].kind, waiter |-> jobs[c].waiter, arg |-> jobs[c].arg,
                    result |-> r, pc |-> "returned"]
  OBVIOUS
<1>3. /\ jobs[c].pc = "entered" /\ heap' = heap /\ jobs' = [jobs EXCEPT ![c] = j]
      /\ kept' = IF cb /\ jobs[c].kind = "async_call_with_cb" THEN kept \cup ({r} \ {NULL}) ELSE kept
      /\ leaked' = IF ~cb /\ jobs[c].kind = "async_call_with_cb" THEN leaked \cup ({r} \ {NULL}) ELSE leaked
  BY <1>1, <1>2, JobFields DEF callback
<1>4. /\ j \in Job /\ JobOK(j) /\ j.arg = jobs[c].arg /\ OwnedResult(jobs[c]) = r /\ r \in Block
      /\ OwnedResult(j) = IF jobs[c].kind = "async_call_with_cb" THEN NULL ELSE r
  <2>1. jobs[c] \in Job
    BY JobParts
  <2> QED BY <1>1, <1>2, <1>3, <2>1 DEF Job, JobOK, OwnedResult
<1>5. NULL \notin HeldBy("argument") /\ NULL \notin HeldBy("result") /\ HeldBy("kept") = kept /\ HeldBy("leaked") = leaked
  BY HeldByCases DEF Pointers
<1>6. /\ PoolShape' /\ HeldBy("kept")' = kept' /\ HeldBy("leaked")' = leaked'
      /\ HeldBy("argument")' = HeldBy("argument")
      /\ HeldBy("result")' = (HeldBy("result") \ {r}) \cup ({OwnedResult(j)} \ {NULL})
  <2>1. kept' \subseteq Blocks /\ leaked' \subseteq Blocks
    BY <1>3, <1>4 DEF IInv, PoolShape, Block
  <2>2. /\ j.arg \in {NULL, jobs[c].arg}
        /\ OwnedResult(j) \in {NULL, OwnedResult(jobs[c])}
    BY <1>4
  <2>3. /\ PoolShape' /\ HeldBy("kept")' = kept' /\ HeldBy("leaked")' = leaked'
        /\ HeldBy("argument")' = (HeldBy("argument") \ {jobs[c].arg}) \cup ({j.arg} \ {NULL})
        /\ HeldBy("result")' = (HeldBy("result") \ {OwnedResult(jobs[c])}) \cup ({OwnedResult(j)} \ {NULL})
    BY <1>3, <1>4, <2>1, <2>2, JobSet
  <2>4. jobs[c].arg = NULL \/ jobs[c].arg \in HeldBy("argument")
    BY JobParts
  <2>5. HeldBy("argument")' = HeldBy("argument")
    BY <1>4, <1>5, <2>3, <2>4
  <2> QED BY <1>4, <2>3, <2>5
<1>7. r = NULL \/ r \in HeldBy("result")
  BY <1>4, JobParts
<1>8. MemoryOK(heap') /\ heap'[Source] = heap[Source] /\ Spares(PoolHolders)
  BY <1>3 DEF IInv, HeapShape, Spares
<1>9. HeldOnce'
  <2>1. CASE jobs[c].kind = "async_call_with_cb" /\ r # NULL
    <3>1. PICK new : new = IF cb THEN "kept" ELSE "leaked"
      OBVIOUS
    <3>2. /\ new \in {"kept", "leaked"}
          /\ HeldBy("result")' = HeldBy("result") \ {r}
          /\ HeldBy(new)' = HeldBy(new) \cup {r}
          /\ \A k \in {"kept", "leaked"} \ {new} : HeldBy(k)' = HeldBy(k)
      BY <1>3, <1>4, <1>5, <1>6, <2>1, <3>1
    <3>3. \A k \in Holders \ {"result", new} : HeldBy(k)' = HeldBy(k)
      BY <1>6, <3>2, PoolOthers DEF PoolHolders
    <3>4. \A b \in Blocks : Live(b)' <=> Live(b)
      BY <1>3 DEF Live
    <3> QED BY <1>7, <2>1, <3>2, <3>3, <3>4, HandedOver DEF Holders
  <2>2. CASE ~(jobs[c].kind = "async_call_with_cb" /\ r # NULL)
    <3>1. /\ HeldBy("result")' = HeldBy("result")
          /\ HeldBy("kept")' = HeldBy("kept") /\ HeldBy("leaked")' = HeldBy("leaked")
      BY <1>3, <1>4, <1>5, <1>6, <1>7, <2>2
    <3>2. \A k \in Holders : HeldBy(k)' = HeldBy(k)
      BY <1>6, <3>1, PoolOthers DEF PoolHolders
    <3> QED BY <1>3, <3>2, NothingHeld
  <2> QED BY <2>1, <2>2
<1> QED BY <1>6, <1>8, <1>9, OnlyPool

(* A call ends: its argument is freed, and its result if it has it still.    *)
LEMMA Finishes ==
    ASSUME IInv, UNCHANGED <<queueVars, cacheVars, requestVars>>, NEW c \in Calls, finish(c)
    PROVE  IInv' /\ Stutters
<1>1. PICK a : a = jobs[c].arg
  OBVIOUS
<1>2. PICK r : r = OwnedResult(jobs[c])
  OBVIOUS
<1>3. /\ jobs[c].pc = "returned" /\ kept' = kept /\ leaked' = leaked /\ jobs' = [jobs EXCEPT ![c] = NoJob]
      /\ heap' = Without(Without(heap, a), r)
  BY <1>1, <1>2 DEF finish, FreesResult, OwnedResult, Without
<1>4. /\ a = NULL \/ a \in HeldBy("argument")
      /\ r = NULL \/ r \in HeldBy("result")
  BY <1>1, <1>2, JobParts
<1>5. NoJob \in Job /\ JobOK(NoJob) /\ NoJob.arg = NULL /\ OwnedResult(NoJob) = NULL
  BY DEF NoJob, Job, JobOK, OwnedResult, Block
<1>6. NULL \notin HeldBy("argument") /\ NULL \notin HeldBy("result") /\ HeldBy("kept") = kept
  BY HeldByCases DEF Pointers
<1>7. /\ PoolShape' /\ HeldBy("kept")' = HeldBy("kept")
      /\ HeldBy("argument")' = HeldBy("argument") \ {a}
      /\ HeldBy("result")' = HeldBy("result") \ {r}
  <2>1. kept' \subseteq Blocks /\ leaked' \subseteq Blocks
    BY <1>3 DEF IInv, PoolShape
  <2>2. PICK job : job = NoJob
    OBVIOUS
  <2>3. /\ job \in Job /\ JobOK(job) /\ jobs' = [jobs EXCEPT ![c] = job]
        /\ job.arg \in {NULL, jobs[c].arg}
        /\ OwnedResult(job) \in {NULL, OwnedResult(jobs[c])}
    BY <1>3, <1>5, <2>2
  <2>4. /\ PoolShape' /\ HeldBy("kept")' = kept'
        /\ HeldBy("argument")' = (HeldBy("argument") \ {jobs[c].arg}) \cup ({job.arg} \ {NULL})
        /\ HeldBy("result")' = (HeldBy("result") \ {OwnedResult(jobs[c])}) \cup ({OwnedResult(job)} \ {NULL})
    BY <2>1, <2>3, JobSet
  <2>5. job.arg = NULL /\ OwnedResult(job) = NULL
    BY <1>5, <2>2
  <2> QED BY <1>1, <1>2, <1>3, <1>6, <2>4, <2>5
<1>8. /\ MemoryOK(heap) /\ Source \in DOMAIN heap
      /\ a \in Block /\ (a # NULL => a \in DOMAIN heap)
      /\ r \in Block /\ (r # NULL => r \in DOMAIN heap)
  BY <1>4, HeldIsLive DEF IInv, HeapShape, MemoryOK, Block, Holders
<1>9. PICK g : g = Without(heap, a)
  OBVIOUS
<1>10. /\ MemoryOK(g) /\ DOMAIN g = DOMAIN heap /\ (a # NULL => ~g[a].live)
       /\ \A b \in DOMAIN heap : b # a => g[b] = heap[b]
  BY <1>8, <1>9, WithoutMemory
<1>11. /\ MemoryOK(heap') /\ DOMAIN heap' = DOMAIN heap /\ (r # NULL => ~heap'[r].live)
       /\ \A b \in DOMAIN heap : b # r => heap'[b] = g[b]
  <2>1. heap' = Without(g, r)
    BY <1>3, <1>9
  <2>2. r # NULL => r \in DOMAIN g
    BY <1>8, <1>10
  <2> QED BY <1>8, <1>10, <2>1, <2>2, WithoutMemory
<1>12. a = NULL \/ a # r
  BY <1>4, HeldIsLive DEF IInv, HeldOnce, Holders
<1>13. \A b \in Blocks : Live(b)' <=> Live(b) /\ b # a /\ b # r
  <2>1. NULL \notin Blocks
    BY BlockNumbers
  <2> QED BY <1>8, <1>10, <1>11, <1>12, <2>1 DEF Live
<1>14. Settles({"argument", "result"})
  <2>1. \A h \in Holders \ {"argument", "result"} : HeldBy(h)' = HeldBy(h)
    BY <1>3, <1>7, PoolOthers, LeakedStay DEF PoolHolders
  <2>2. \A b \in Blocks :
            /\ b \in HeldBy("argument")' <=> b \in HeldBy("argument") /\ b # a
            /\ b \in HeldBy("result")' <=> b \in HeldBy("result") /\ b # r
            /\ b \in HeldBy("argument") => Live(b) /\ b \notin HeldBy("result")
            /\ b \in HeldBy("result") => Live(b)
    BY <1>7 DEF IInv, HeldOnce, Holders
  <2>3. NULL \notin Blocks
    BY BlockNumbers
  <2> QED BY <1>4, <1>13, <2>1, <2>2, <2>3 DEF Settles, Theirs
<1>15. HeldOnce'
  BY <1>14, Settled DEF Holders, IInv
<1>16. Spares(PoolHolders)
  <2>1. \A b \in DOMAIN heap : b \in Blocks /\ ~Theirs({"argument", "result"}, b) => heap'[b] = heap[b]
    BY <1>4, <1>10, <1>11, BlockNumbers DEF Theirs
  <2>2. {"argument", "result"} \in SUBSET Holders
    BY DEF Holders
  <2>3. Spares({"argument", "result"})
    BY <2>1, <2>2, Spared
  <2> QED BY <2>3, SparesMore DEF PoolHolders
<1>17. heap'[Source] = heap[Source]
  BY <1>8, <1>10, <1>11, BlockNumbers DEF Block
<1> QED BY <1>7, <1>11, <1>15, <1>16, <1>17, OnlyPool

LEMMA FreesKept ==
    ASSUME IInv, UNCHANGED <<queueVars, cacheVars, requestVars>>, NEW b \in kept, far_free(b)
    PROVE  IInv' /\ Stutters
<1>1. heap' = Without(heap, b) /\ kept' = kept \ {b} /\ jobs' = jobs /\ leaked' = leaked
  BY DEF far_free
<1>2. /\ HeldBy("argument")' = HeldBy("argument") /\ HeldBy("result")' = HeldBy("result")
      /\ HeldBy("kept") = kept /\ HeldBy("kept")' = kept'
  BY <1>1, HeldByCases, HeldByCasesNext DEF ArgumentOf, ResultOf
<1>3. \A g \in Holders \ {"kept"} : HeldBy(g)' = HeldBy(g)
  BY <1>1, <1>2, PoolOthers, LeakedStay DEF PoolHolders
<1>4. HeldOnce' /\ Spares({"kept"}) /\ MemoryOK(heap') /\ heap'[Source] = heap[Source]
  BY <1>1, <1>2, <1>3, Released DEF Holders
<1>5. PoolShape'
  BY <1>1 DEF IInv, PoolShape, ArgumentOf, ResultOf
<1> QED BY <1>4, <1>5, OnlyPool, SparesMore DEF PoolHolders

LEMMA PoolSwitched ==
    ASSUME IInv, UNCHANGED <<queueVars, cacheVars, requestVars>>, UNCHANGED <<heap, jobs, kept, leaked>>
    PROVE  IInv' /\ Stutters
<1>1. /\ HeldBy("argument")' = HeldBy("argument") /\ HeldBy("result")' = HeldBy("result")
      /\ HeldBy("kept")' = HeldBy("kept")
  BY HeldByCases, HeldByCasesNext DEF ArgumentOf, ResultOf
<1>2. \A h \in Holders : HeldBy(h)' = HeldBy(h)
  BY <1>1, PoolOthers, LeakedStay DEF PoolHolders
<1>3. PoolShape'
  BY DEF IInv, PoolShape, ArgumentOf, ResultOf
<1> QED BY <1>2, <1>3, NothingHeld, OnlyPool

LEMMA PoolSteps ==
    ASSUME IInv, UNCHANGED <<queueVars, cacheVars, requestVars>>, PoolNext(Blocked)
    PROVE  IInv' /\ Stutters
<1>1. CASE workpool_new \/ workpool_free
  BY <1>1, PoolSwitched DEF workpool_new, workpool_free
<1>2. CASE \E s \in Scripts, c \in Calls, kind \in Kinds, value \in Args : submit(s, c, kind, value)
  BY <1>2, Submits
<1>3. CASE \E c \in Calls : Work(c)
  BY <1>3, Enters, EntersNull, CallsBack, Finishes DEF Work
<1>4. CASE \E b \in kept : far_free(b)
  BY <1>4, FreesKept
<1> QED BY <1>1, <1>2, <1>3, <1>4 DEF PoolNext

-----------------------------------------------------------------------------
(* The queue.  The ring, with the pointer that was popped in front.          *)
UnderWay(t, q) == (IF t = NULL THEN << >> ELSE <<t>>) \o q

LEMMA QueueHeap ==
    /\ Q!NULL = NULL /\ Q!Source = Source
    /\ \A h : Q!Room(h) <=> Room(h)
    /\ \A h : Q!NewBlock(h) = NewBlock(h)
    /\ \A h, b, w : Q!Stored(h, b, w) = Stored(h, b, w)
    /\ \A h, b : Q!Without(h, b) = Without(h, b)
    /\ \A t : Q!Text(t) = Text(t)
    /\ Q!Buffers = UnderWay(taken, queue)
    /\ Q!Buffers' = UnderWay(taken', queue')
BY DEF Q!NULL, NULL, Q!Source, Source, Q!Room, Room, Q!FreeBlocks, FreeBlocks, Q!NewBlock, NewBlock,
       Q!Stored, Stored, Q!Without, Without, Q!Freed, Freed, Q!Text, Text, Q!Buffers, UnderWay

LEMMA UnderWayIs ==
    ASSUME NEW t \in Block, NEW q \in Seq(Blocks)
    PROVE  /\ UnderWay(t, q) \in Seq(Blocks)
           /\ t = NULL => UnderWay(t, q) = q
           /\ \A b \in Blocks : UnderWay(t, Append(q, b)) = Append(UnderWay(t, q), b)
           /\ t = NULL /\ q # << >> => /\ Head(q) \in Blocks /\ Tail(q) \in Seq(Blocks)
                                       /\ UnderWay(Head(q), Tail(q)) = q
           /\ t # NULL => /\ UnderWay(t, q) # << >> /\ Head(UnderWay(t, q)) = t
                          /\ Tail(UnderWay(t, q)) = q
<1>1. PICK p : p = IF t = NULL THEN << >> ELSE <<t>>
  OBVIOUS
<1>2. p \in Seq(Blocks) /\ UnderWay(t, q) = p \o q
  BY <1>1 DEF Block, UnderWay
<1>3. p \o q \in Seq(Blocks) /\ << >> \o q = q
  BY <1>2, ConcatProperties, ConcatEmptySeq
<1>4. ASSUME NEW b \in Blocks PROVE p \o Append(q, b) = Append(p \o q, b)
  <2>1. <<b>> \in Seq(Blocks) /\ Append(q, b) = q \o <<b>> /\ Append(p \o q, b) = (p \o q) \o <<b>>
    BY <1>3, AppendIsConcat
  <2> QED BY <1>2, <2>1, ConcatAssociative
<1>5. ASSUME NEW b \in Blocks, NEW r \in Seq(Blocks)
      PROVE  /\ <<b>> \o r \in Seq(Blocks) /\ <<b>> \o r # << >> /\ Len(<<b>> \o r) = Len(r) + 1
             /\ (<<b>> \o r)[1] = b /\ \A i \in 1 .. Len(r) : (<<b>> \o r)[i + 1] = r[i]
  <2>1. <<b>> \in Seq(Blocks) /\ Len(<<b>>) = 1 /\ <<b>>[1] = b /\ Len(r) \in Nat
    OBVIOUS
  <2>2. /\ <<b>> \o r \in Seq(Blocks) /\ Len(<<b>> \o r) = 1 + Len(r)
        /\ \A i \in 1 .. 1 + Len(r) : (<<b>> \o r)[i] = IF i <= 1 THEN <<b>>[i] ELSE r[i - 1]
    BY <2>1, ConcatProperties
  <2>3. <<b>> \o r # << >>
    BY <2>1, <2>2, EmptySeq
  <2>4. \A i \in 1 .. Len(r) : i + 1 \in 1 .. 1 + Len(r) /\ ~(i + 1 <= 1) /\ (i + 1) - 1 = i
    BY <2>1
  <2>5. 1 \in 1 .. 1 + Len(r)
    BY <2>1
  <2> QED BY <2>1, <2>2, <2>3, <2>4, <2>5
<1>6. ASSUME q # << >>, t = NULL
      PROVE  Head(q) \in Blocks /\ Tail(q) \in Seq(Blocks) /\ UnderWay(Head(q), Tail(q)) = q
  <2>1. PICK b, r : b = Head(q) /\ r = Tail(q)
    OBVIOUS
  <2>2. /\ b \in Blocks /\ r \in Seq(Blocks) /\ Len(r) = Len(q) - 1 /\ Len(q) \in Nat
        /\ b = q[1] /\ \A i \in 1 .. Len(r) : r[i] = q[i + 1]
    BY <1>6, <2>1, HeadTailProperties
  <2>3. /\ <<b>> \o r \in Seq(Blocks) /\ Len(<<b>> \o r) = Len(q)
        /\ (<<b>> \o r)[1] = b /\ \A i \in 1 .. Len(r) : (<<b>> \o r)[i + 1] = r[i]
    BY <1>5, <2>2
  <2>4. \A i \in 1 .. Len(q) : i = 1 \/ (i - 1 \in 1 .. Len(r) /\ (i - 1) + 1 = i)
    BY <2>2
  <2>5. \A i \in 1 .. Len(q) : (<<b>> \o r)[i] = q[i]
    BY <2>2, <2>3, <2>4
  <2>6. <<b>> \o r = q
    BY <2>3, <2>5, SeqEqual
  <2>7. b # NULL
    BY <2>2, BlockNumbers
  <2> QED BY <2>1, <2>2, <2>6, <2>7 DEF UnderWay
<1>7. ASSUME t # NULL
      PROVE  UnderWay(t, q) # << >> /\ Head(UnderWay(t, q)) = t /\ Tail(UnderWay(t, q)) = q
  <2>1. t \in Blocks /\ UnderWay(t, q) = <<t>> \o q
    BY <1>7 DEF Block, UnderWay
  <2>2. PICK u : u = <<t>> \o q
    OBVIOUS
  <2>3. /\ u \in Seq(Blocks) /\ u # << >> /\ Len(u) = Len(q) + 1
        /\ u[1] = t /\ \A i \in 1 .. Len(q) : u[i + 1] = q[i]
    BY <1>5, <2>1, <2>2
  <2>4. /\ Head(u) = u[1] /\ Tail(u) \in Seq(Blocks) /\ Len(Tail(u)) = Len(q) /\ Len(q) \in Nat
        /\ \A i \in 1 .. Len(q) : Tail(u)[i] = u[i + 1]
    BY <2>3, HeadTailProperties
  <2>5. Tail(u) = q
    BY <2>3, <2>4, SeqEqual
  <2> QED BY <2>1, <2>2, <2>3, <2>4, <2>5
<1>8. \A b \in Blocks : UnderWay(t, Append(q, b)) = Append(UnderWay(t, q), b)
  <2>1. \A b : UnderWay(t, Append(q, b)) = p \o Append(q, b)
    BY <1>1 DEF UnderWay
  <2> QED BY <1>2, <1>4, <2>1
<1>9. t = NULL => UnderWay(t, q) = q
  BY <1>1, <1>2, <1>3
<1> QED BY <1>2, <1>3, <1>6, <1>7, <1>8, <1>9

LEMMA QueueOthers ==
    ASSUME IInv, UNCHANGED <<poolVars, cacheVars, requestVars>>
    PROVE  \A h \in Holders \ {"queue"} : HeldBy(h)' = HeldBy(h)
<1>1. /\ ArgumentOf' = ArgumentOf /\ ResultOf' = ResultOf /\ kept' = kept /\ leaked' = leaked
      /\ cache' = cache /\ maps' = maps /\ CurlOf' = CurlOf /\ idle' = idle
  BY DEF poolVars, cacheVars, requestVars, ArgumentOf, ResultOf, CurlOf
<1> QED BY <1>1, HeldByCases, HeldByCasesNext DEF Holders

LEMMA QueueFacts ==
    ASSUME IInv
    PROVE  /\ queue \in Seq(Blocks) /\ taken \in Block /\ output \in Texts
           /\ Q!Buffers \in Seq(Blocks) /\ OnceIn(Q!Buffers)
           /\ \A b \in Items(Q!Buffers) : IsText(b)
           /\ HeldBy("queue") = Items(Q!Buffers) /\ HeldBy("queue")' = Items(Q!Buffers')
BY BuffersTyped, HeldByCases, HeldByCasesNext DEF IInv, QueueShape

(* Both ways of sending: a new block with what the script has in its memory. *)
LEMMA Pushes ==
    ASSUME IInv, UNCHANGED <<poolVars, cacheVars, requestVars>>, Room(heap),
           heap' = Stored(heap, NewBlock(heap), heap[Source].what),
           queue' = Append(queue, NewBlock(heap)), UNCHANGED <<taken, output>>
    PROVE  IInv' /\ Sends
<1>1. PICK n : n = NewBlock(heap)
  OBVIOUS
<1>2. n \in Blocks /\ n \in DOMAIN heap /\ ~heap[n].live
  BY <1>1, NewBlockIsFree DEF IInv, HeapShape
<1>3. PICK t \in Texts : heap[Source].what = Text(t)
  BY DEF IInv, HeapShape, IsText
<1>4. n \notin HeldBy("queue")
  BY <1>2, HeldIsLive DEF Holders
<1>5. Q!Buffers' = Append(Q!Buffers, n) /\ queue' \in Seq(Blocks)
  <2>1. UnderWay(taken, Append(queue, n)) = Append(UnderWay(taken, queue), n)
    <3>1. queue \in Seq(Blocks) /\ taken \in Block
      BY QueueFacts
    <3> QED BY <1>2, <3>1, UnderWayIs
  <2> QED BY <1>1, <1>2, <2>1, QueueHeap, QueueFacts, AppendProperties
<1>6. OnceIn(Q!Buffers') /\ HeldBy("queue")' = HeldBy("queue") \cup {n}
  BY <1>2, <1>4, <1>5, QueueFacts, Appended
<1>7. \A g \in Holders \ {"queue"} : HeldBy(g)' = HeldBy(g)
  BY QueueOthers
<1>8. HeldOnce' /\ Spares({"queue"}) /\ MemoryOK(heap') /\ heap'[Source] = heap[Source]
  BY <1>1, <1>6, <1>7, Allocated DEF Holders
<1>9. heap'[n].what = Text(t) /\ \A c \in DOMAIN heap : c # n => heap'[c] = heap[c]
  <2>1. heap' = Stored(heap, n, Text(t))
    BY <1>1, <1>3
  <2>2. heap'[n] = [live |-> TRUE, what |-> Text(t)] /\ \A c \in DOMAIN heap : c # n => heap'[c] = heap[c]
    BY <1>2, <2>1, StoredMemory DEF IInv, HeapShape
  <2> QED BY <2>2
<1>10. \A c \in Items(Q!Buffers) : heap'[c] = heap[c]
  BY <1>4, <1>9, HeldIsLive, QueueFacts DEF Holders
<1>11. QueueShape'
  <2>1. \A b \in Items(Q!Buffers') : IsText(b)'
    <3>1. Items(Q!Buffers') = Items(Q!Buffers) \cup {n}
      BY <1>6, QueueFacts
    <3> QED BY <3>1, <1>9, <1>10, QueueFacts DEF IsText
  <2> QED BY <1>5, <1>6, <2>1, QueueFacts DEF QueueShape
<1>12. IsText(Source)'
  BY <1>3, <1>8 DEF IsText
<1> QED BY <1>2, <1>5, <1>8, <1>9, <1>10, <1>11, <1>12, OnlyQueue DEF Sends

LEMMA PushesData ==
    ASSUME IInv, UNCHANGED <<poolVars, cacheVars, requestVars>>, Q!push_data
    PROVE  IInv' /\ (Sends \/ Stutters)
<1>1. PICK n : n = NewBlock(heap)
  OBVIOUS
<1>2. PICK g : g = Stored(heap, n, heap[Source].what)
  OBVIOUS
<1>3. /\ Room(heap) /\ UNCHANGED <<taken, output>>
      /\ queue' = IF Q!IsFull THEN queue ELSE Append(queue, n)
      /\ heap' = IF Q!IsFull THEN Without(g, n) ELSE g
  BY <1>1, <1>2, QueueHeap DEF Q!push_data
<1>4. CASE ~Q!IsFull
  <2>1. /\ heap' = Stored(heap, NewBlock(heap), heap[Source].what)
        /\ queue' = Append(queue, NewBlock(heap))
    BY <1>1, <1>2, <1>3, <1>4
  <2> QED BY <1>3, <2>1, Pushes
<1>5. CASE Q!IsFull
  <2>1. n \in Blocks /\ n \in DOMAIN heap /\ ~heap[n].live /\ MemoryOK(heap) /\ Source \in DOMAIN heap
    BY <1>1, <1>3, NewBlockIsFree DEF IInv, HeapShape, MemoryOK
  <2>2. MemoryOK(g) /\ DOMAIN g = DOMAIN heap /\ \A c \in DOMAIN heap : c # n => g[c] = heap[c]
    <3>1. PICK w : w = heap[Source].what
      OBVIOUS
    <3>2. g = Stored(heap, n, w)
      BY <1>2, <3>1
    <3>3. /\ MemoryOK(g) /\ DOMAIN g = DOMAIN heap /\ g[n] = [live |-> TRUE, what |-> w]
          /\ \A c \in DOMAIN heap : c # n => g[c] = heap[c]
      BY <2>1, <3>2, StoredMemory
    <3> QED BY <3>3
  <2>3. /\ MemoryOK(heap') /\ DOMAIN heap' = DOMAIN heap /\ ~heap'[n].live
        /\ \A c \in DOMAIN heap : c # n => heap'[c] = heap[c]
    <3>1. heap' = Without(g, n) /\ n # NULL /\ n \in Block
      BY <1>3, <1>5, <2>1, BlockNumbers DEF Block
    <3> QED BY <2>1, <2>2, <3>1, WithoutMemory
  <2>4. Q!Buffers' = Q!Buffers /\ queue' = queue /\ taken' = taken /\ output' = output
    BY <1>3, <1>5 DEF Q!Buffers
  <2>5. \A h \in Holders : HeldBy(h)' = HeldBy(h)
    BY <2>4, QueueOthers, QueueFacts
  <2>6. \A b \in Blocks : Live(b)' <=> Live(b)
    BY <2>1, <2>3 DEF Live
  <2>7. HeldOnce'
    BY <2>5, <2>6 DEF IInv, HeldOnce
  <2>8. Spares({})
    BY <2>1, <2>3, Spared DEF Theirs, Live
  <2>9. \A c \in Items(Q!Buffers) : heap'[c] = heap[c]
    BY <2>8, QueueFacts DEF Spares, Holders
  <2>10. QueueShape'
    BY <2>4, <2>9, QueueFacts DEF QueueShape, IsText
  <2>11. heap'[Source] = heap[Source]
    BY <2>1, <2>3, BlockNumbers
  <2>12. IsText(Source)'
    BY <2>11 DEF IInv, HeapShape, IsText
  <2> QED BY <2>3, <2>4, <2>7, <2>8, <2>9, <2>10, <2>12, OnlyQueue, SparesMore DEF Stutters
<1> QED BY <1>4, <1>5

LEMMA QueueStays ==
    ASSUME IInv, UNCHANGED <<poolVars, cacheVars, requestVars>>,
           UNCHANGED <<heap, output>>, Q!Buffers' = Q!Buffers, queue' \in Seq(Blocks), taken' \in Block
    PROVE  IInv' /\ Stutters
<1>1. \A h \in Holders : HeldBy(h)' = HeldBy(h)
  BY QueueOthers, QueueFacts
<1>2. HeldOnce' /\ MemoryOK(heap') /\ heap'[Source] = heap[Source] /\ Spares({"queue"})
  BY <1>1, NothingHeld
<1>3. QueueShape'
  BY QueueFacts DEF QueueShape, IsText
<1>4. IsText(Source)'
  BY DEF IInv, HeapShape, IsText
<1> QED BY <1>2, <1>3, <1>4, OnlyQueue DEF Stutters

LEMMA Pops ==
    ASSUME IInv, UNCHANGED <<poolVars, cacheVars, requestVars>>, Q!pop
    PROVE  IInv' /\ Stutters
<1>1. /\ queue # << >> /\ taken = NULL /\ UNCHANGED <<heap, output>>
      /\ taken' = Head(queue) /\ queue' = Tail(queue)
  BY QueueHeap DEF Q!pop
<1>2. /\ Head(queue) \in Blocks /\ Tail(queue) \in Seq(Blocks)
      /\ UnderWay(Head(queue), Tail(queue)) = UnderWay(taken, queue)
  BY <1>1, QueueFacts, UnderWayIs
<1>3. Q!Buffers' = Q!Buffers /\ queue' \in Seq(Blocks) /\ taken' \in Block
  BY <1>1, <1>2, QueueHeap DEF Block
<1> QED BY <1>1, <1>3, QueueStays

LEMMA CopiesOut ==
    ASSUME IInv, UNCHANGED <<poolVars, cacheVars, requestVars>>, Q!copy_out
    PROVE  IInv' /\ Receives
<1>1. /\ taken # NULL /\ output' = heap[taken].what.text /\ heap' = Without(heap, taken)
      /\ taken' = NULL /\ queue' = queue
  BY QueueHeap DEF Q!copy_out
<1>2. /\ Q!Buffers # << >> /\ Head(Q!Buffers) = taken /\ Tail(Q!Buffers) = queue
  BY <1>1, QueueHeap, QueueFacts, UnderWayIs
<1>3. Q!Buffers' = queue
  <2>1. NULL \in Block
    BY DEF Block
  <2> QED BY <1>1, <2>1, QueueHeap, QueueFacts, UnderWayIs
<1>4. /\ taken \in Items(Q!Buffers) /\ OnceIn(queue) /\ Items(queue) = Items(Q!Buffers) \ {taken}
  BY <1>2, QueueFacts, FirstTaken
<1>5. /\ HeldBy("queue")' = HeldBy("queue") \ {taken} /\ taken \in HeldBy("queue")
  BY <1>3, <1>4, QueueFacts
<1>6. HeldOnce' /\ Spares({"queue"}) /\ MemoryOK(heap') /\ heap'[Source] = heap[Source]
  BY <1>1, <1>5, QueueOthers, Released DEF Holders
<1>7. \A c \in Items(queue) : heap'[c] = heap[c]
  <2>1. MemoryOK(heap) /\ taken \in Block /\ taken \in DOMAIN heap
    BY <1>5, HeldIsLive DEF IInv, HeapShape, Block, Holders
  <2>2. \A c \in DOMAIN heap : c # taken => heap'[c] = heap[c]
    BY <1>1, <2>1, WithoutMemory
  <2>3. \A c \in Items(queue) : c # taken /\ c \in DOMAIN heap
    BY <1>4, HeldIsLive, QueueFacts DEF Holders
  <2> QED BY <2>2, <2>3
<1>8. output' \in Texts
  <2>1. PICK t \in Texts : heap[taken].what = Text(t)
    BY <1>4, QueueFacts DEF IsText
  <2> QED BY <1>1, <2>1 DEF Text
<1>9. QueueShape'
  <2>1. \A b \in Items(Q!Buffers') : IsText(b)'
    BY <1>3, <1>4, <1>7, QueueFacts DEF IsText
  <2> QED BY <1>1, <1>3, <1>4, <1>8, <2>1, QueueFacts DEF QueueShape, Block
<1>10. IsText(Source)'
  BY <1>6 DEF IInv, HeapShape, IsText
<1> QED BY <1>1, <1>2, <1>3, <1>6, <1>7, <1>9, <1>10, OnlyQueue DEF Receives

LEMMA Refills ==
    ASSUME IInv, UNCHANGED <<poolVars, cacheVars, requestVars>>, NEW t \in Texts, Q!refill(t)
    PROVE  IInv' /\ Stutters
<1>1. heap' = [heap EXCEPT ![Source].what = Text(t)] /\ UNCHANGED <<queue, taken, output>>
  BY QueueHeap DEF Q!refill
<1>2. MemoryOK(heap) /\ Source \in DOMAIN heap
  BY DEF IInv, HeapShape, MemoryOK
<1>3. /\ MemoryOK(heap') /\ DOMAIN heap' = DOMAIN heap
      /\ heap'[Source] = [live |-> heap[Source].live, what |-> Text(t)]
      /\ \A c \in DOMAIN heap : c # Source => heap'[c] = heap[c]
  BY <1>1, <1>2, WrittenMemory
<1>4. \A b \in Blocks : Live(b)' <=> Live(b)
  BY <1>3, BlockNumbers DEF Live
<1>5. Q!Buffers' = Q!Buffers /\ \A h \in Holders : HeldBy(h)' = HeldBy(h)
  <2>1. Q!Buffers' = Q!Buffers
    BY <1>1 DEF Q!Buffers
  <2> QED BY <2>1, QueueOthers, QueueFacts
<1>6. HeldOnce'
  BY <1>4, <1>5 DEF IInv, HeldOnce
<1>7. Spares({})
  BY <1>3, Spared, BlockNumbers
<1>8. \A c \in Items(Q!Buffers) : heap'[c] = heap[c]
  BY <1>7, QueueFacts DEF Spares, Holders
<1>9. QueueShape'
  BY <1>1, <1>5, <1>8, QueueFacts DEF QueueShape, IsText
<1>10. IsText(Source)'
  <2>1. heap'[Source].what = Text(t)
    BY <1>3
  <2> QED BY <2>1 DEF IsText
<1> QED BY <1>1, <1>3, <1>5, <1>6, <1>7, <1>8, <1>9, <1>10, OnlyQueue, SparesMore DEF Stutters

LEMMA QueueSteps ==
    ASSUME IInv, UNCHANGED <<poolVars, cacheVars, requestVars>>, Q!QueueNext
    PROVE  IInv' /\ (Sends \/ Receives \/ Stutters)
<1>1. CASE (\E how \in {"data", "reference"} : Q!lockfree_queue_new(how)) \/ Q!lockfree_queue_free
  <2>1. UNCHANGED <<heap, queue, taken, output>>
    BY <1>1 DEF Q!lockfree_queue_new, Q!lockfree_queue_free
  <2>2. Q!Buffers' = Q!Buffers
    BY <2>1 DEF Q!Buffers
  <2> QED BY <2>1, <2>2, QueueStays, QueueFacts
<1>2. CASE Q!push_data
  BY <1>2, PushesData
<1>3. CASE Q!push
  <2>1. /\ Room(heap) /\ heap' = Stored(heap, NewBlock(heap), heap[Source].what)
        /\ queue' = Append(queue, NewBlock(heap)) /\ UNCHANGED <<taken, output>>
    BY <1>3, QueueHeap DEF Q!push
  <2> QED BY <2>1, Pushes
<1>4. CASE Q!pop
  BY <1>4, Pops
<1>5. CASE Q!copy_out
  BY <1>5, CopiesOut
<1>6. CASE \E t \in Texts : Q!refill(t)
  BY <1>6, Refills
<1> QED BY <1>1, <1>2, <1>3, <1>4, <1>5, <1>6 DEF Q!QueueNext

-----------------------------------------------------------------------------
(* The cache.  A key belongs to one script, and so does what lies under it.  *)
LEMMA CacheHeap ==
    /\ C!NULL = NULL /\ C!NoKey = MaxKeys
    /\ \A h : C!Room(h) <=> Room(h)
    /\ \A h : C!NewBlock(h) = NewBlock(h)
    /\ \A h, b, w : C!Stored(h, b, w) = Stored(h, b, w)
    /\ \A h, b : C!Without(h, b) = Without(h, b)
    /\ \A t : C!Text(t) = Text(t)
    /\ C!Nothing = [at |-> NULL, text |-> "none"]
BY DEF C!NULL, NULL, C!NoKey, C!Room, Room, C!FreeBlocks, FreeBlocks, C!NewBlock, NewBlock,
       C!Stored, Stored, C!Without, Without, C!Freed, Freed, C!Text, Text, C!Nothing

LEMMA CacheOthers ==
    ASSUME IInv, UNCHANGED <<poolVars, queueVars, requestVars>>
    PROVE  \A h \in Holders \ {"cache"} : HeldBy(h)' = HeldBy(h)
<1>1. /\ ArgumentOf' = ArgumentOf /\ ResultOf' = ResultOf /\ kept' = kept /\ leaked' = leaked
      /\ Q!Buffers' = Q!Buffers /\ maps' = maps /\ CurlOf' = CurlOf /\ idle' = idle
  BY DEF poolVars, queueVars, requestVars, ArgumentOf, ResultOf, CurlOf, Q!Buffers
<1> QED BY <1>1, HeldByCases, HeldByCasesNext DEF Holders

LEMMA CacheFacts ==
    ASSUME IInv
    PROVE  /\ nextKey \in 0 .. MaxKeys /\ cache \in [0 .. MaxKeys - 1 -> Block]
           /\ mine \in [Scripts -> 0 .. MaxKeys]
           /\ held \in [Scripts -> [at : Block, text : Texts \cup {"none"}]]
           /\ \A s \in Scripts : mine[s] # MaxKeys => mine[s] \in 0 .. MaxKeys - 1 /\ mine[s] < nextKey
           /\ \A s, t \in Scripts : s # t => mine[s] # mine[t] \/ mine[s] = MaxKeys
           /\ Distinct(cache)
           /\ \A b \in Pointers(cache) : IsText(b)
           /\ \A s \in Scripts : held[s].at # NULL =>
                 /\ mine[s] \in 0 .. MaxKeys - 1 /\ cache[mine[s]] = held[s].at
                 /\ held[s].at \in Pointers(cache)
                 /\ heap[held[s].at].what = Text(held[s].text)
           /\ HeldBy("cache") = Pointers(cache) /\ HeldBy("cache")' = Pointers(cache')
<1>1. /\ nextKey \in 0 .. MaxKeys /\ cache \in [0 .. MaxKeys - 1 -> Block]
      /\ mine \in [Scripts -> 0 .. MaxKeys]
      /\ held \in [Scripts -> [at : Block, text : Texts \cup {"none"}]]
      /\ \A s \in Scripts : mine[s] # MaxKeys => mine[s] < nextKey
      /\ \A s, t \in Scripts : s # t => mine[s] # mine[t] \/ mine[s] = MaxKeys
      /\ Distinct(cache)
      /\ \A b \in Pointers(cache) : IsText(b)
      /\ \A s \in Scripts : held[s].at # NULL =>
            /\ mine[s] # MaxKeys /\ cache[mine[s]] = held[s].at
            /\ heap[held[s].at].what = Text(held[s].text)
  BY CacheHeap DEF IInv, CacheShape
<1>2. \A s \in Scripts : mine[s] # MaxKeys => mine[s] \in 0 .. MaxKeys - 1
  BY <1>1
<1>3. \A k \in 0 .. MaxKeys - 1 : cache[k] # NULL => cache[k] \in Pointers(cache)
  BY <1>1 DEF Pointers
<1> QED BY <1>1, <1>2, <1>3, HeldByCases, HeldByCasesNext

LEMMA TakesKey ==
    ASSUME IInv, UNCHANGED <<poolVars, queueVars, requestVars>>, NEW s \in Scripts, C!get_next_cache_key(s)
    PROVE  IInv' /\ Stutters
<1>1. /\ mine[s] = MaxKeys /\ nextKey < MaxKeys /\ nextKey' = nextKey + 1
      /\ mine' = [mine EXCEPT ![s] = nextKey] /\ UNCHANGED <<heap, cache, held>>
  BY CacheHeap DEF C!get_next_cache_key
<1>2. \A h \in Holders : HeldBy(h)' = HeldBy(h)
  BY <1>1, CacheOthers, CacheFacts
<1>3. HeldOnce' /\ MemoryOK(heap') /\ heap'[Source] = heap[Source] /\ Spares({"cache"})
  BY <1>1, <1>2, NothingHeld
<1>4. nextKey \in 0 .. MaxKeys - 1 /\ nextKey' \in 0 .. MaxKeys /\ nextKey < nextKey' /\ nextKey # MaxKeys
  BY <1>1, CacheFacts
<1>5. /\ mine' \in [Scripts -> 0 .. MaxKeys]
      /\ mine'[s] = nextKey /\ \A t \in Scripts : t # s => mine'[t] = mine[t]
  BY <1>1, <1>4, CacheFacts
<1>6. \A t \in Scripts : mine[t] # MaxKeys => mine[t] # nextKey /\ mine[t] < nextKey'
  BY <1>1, <1>4, CacheFacts
<1>7. \A t \in Scripts : mine'[t] # MaxKeys => mine'[t] < nextKey'
  BY <1>4, <1>5, <1>6
<1>8. \A t, u \in Scripts : t # u => mine'[t] # mine'[u] \/ mine'[t] = MaxKeys
  BY <1>4, <1>5, <1>6, CacheFacts
<1>9. \A t \in Scripts : held[t].at # NULL => t # s
  BY <1>1, CacheFacts
<1>10. CacheShape'
  BY <1>1, <1>4, <1>5, <1>7, <1>8, <1>9, CacheFacts, CacheHeap DEF CacheShape, IsText, C!NoKey
<1> QED BY <1>3, <1>10, OnlyCache

LEMMA LooksUp ==
    ASSUME IInv, UNCHANGED <<poolVars, queueVars, requestVars>>, NEW s \in Scripts, C!get_string_in_cache(s)
    PROVE  IInv' /\ Stutters
<1>1. PICK at : at = cache[mine[s]]
  OBVIOUS
<1>2. PICK h : h = IF at = NULL THEN [at |-> NULL, text |-> "none"] ELSE [at |-> at, text |-> heap[at].what.text]
  OBVIOUS
<1>3. /\ mine[s] # MaxKeys /\ held' = [held EXCEPT ![s] = h] /\ UNCHANGED <<heap, nextKey, cache, mine>>
  BY <1>1, <1>2, CacheHeap DEF C!get_string_in_cache
<1>4. /\ mine[s] \in 0 .. MaxKeys - 1 /\ at \in Block
      /\ at # NULL => \E t \in Texts : heap[at].what = Text(t)
  <2>1. mine[s] \in 0 .. MaxKeys - 1
    BY <1>3, CacheFacts
  <2>2. at # NULL => at \in Pointers(cache)
    BY <1>1, <2>1, CacheFacts DEF Pointers
  <2> QED BY <1>1, <2>1, <2>2, CacheFacts DEF IsText
<1>5. /\ h \in [at : Block, text : Texts \cup {"none"}] /\ h.at = at
      /\ at # NULL => heap[at].what = Text(h.text)
  <2>1. CASE at = NULL
    BY <1>2, <2>1 DEF Block
  <2>2. CASE at # NULL
    <3>1. PICK t \in Texts : heap[at].what = Text(t)
      BY <1>4, <2>2
    <3>2. h = [at |-> at, text |-> t]
      BY <1>2, <2>2, <3>1 DEF Text
    <3> QED BY <1>4, <3>1, <3>2
  <2> QED BY <2>1, <2>2
<1>6. \A g \in Holders : HeldBy(g)' = HeldBy(g)
  BY <1>3, CacheOthers, CacheFacts
<1>7. HeldOnce' /\ MemoryOK(heap') /\ heap'[Source] = heap[Source] /\ Spares({"cache"})
  BY <1>3, <1>6, NothingHeld
<1>8. /\ held' \in [Scripts -> [at : Block, text : Texts \cup {"none"}]]
      /\ held'[s] = h /\ \A t \in Scripts : t # s => held'[t] = held[t]
  BY <1>3, <1>5, CacheFacts
<1>9. \A t \in Scripts : held'[t].at # NULL =>
          /\ mine[t] # MaxKeys /\ cache[mine[t]] = held'[t].at
          /\ heap[held'[t].at].what = Text(held'[t].text)
  <2> TAKE t \in Scripts
  <2>1. CASE t = s
    BY <1>1, <1>3, <1>5, <1>8, <2>1
  <2>2. CASE t # s
    <3>1. mine[t] \in 0 .. MaxKeys - 1 => mine[t] # MaxKeys
      OBVIOUS
    <3> QED BY <1>8, <2>2, <3>1, CacheFacts
  <2> QED BY <2>1, <2>2
<1>10. CacheShape'
  BY <1>3, <1>8, <1>9, CacheFacts, CacheHeap DEF CacheShape, IsText, C!NoKey
<1> QED BY <1>7, <1>10, OnlyCache

(* The string under a key is deleted, and maybe there is another one now,    *)
(* which may lie where the first one was.                                    *)
LEMMA Restrung ==
    ASSUME IInv, UNCHANGED <<poolVars, queueVars, requestVars>>, UNCHANGED <<nextKey, mine>>,
           NEW s \in Scripts, mine[s] # MaxKeys,
           NEW new \in Block, new = NULL \/ new = cache[mine[s]] \/ ~Live(new),
           NEW h \in [at : Block, text : Texts \cup {"none"}], h.at = new,
           new # NULL => heap'[new].live /\ heap'[new].what = Text(h.text) /\ h.text \in Texts,
           cache' = [cache EXCEPT ![mine[s]] = new], held' = [held EXCEPT ![s] = h],
           MemoryOK(heap'), DOMAIN heap' = DOMAIN heap, new # NULL => new \in DOMAIN heap,
           cache[mine[s]] # new => cache[mine[s]] = NULL \/ ~heap'[cache[mine[s]]].live,
           \A b \in DOMAIN heap : b # new /\ b # cache[mine[s]] => heap'[b] = heap[b]
    PROVE  IInv' /\ Stutters
<1>1. PICK old : old = cache[mine[s]]
  OBVIOUS
<1>2. PICK key : key = mine[s]
  OBVIOUS
<1>3. /\ key \in 0 .. MaxKeys - 1 /\ old = cache[key] /\ old \in Block
      /\ cache \in [0 .. MaxKeys - 1 -> Block] /\ Distinct(cache)
      /\ cache' \in [0 .. MaxKeys - 1 -> Block] /\ cache'[key] = new
      /\ \A k \in 0 .. MaxKeys - 1 : k # key => cache'[k] = cache[k]
  BY <1>1, <1>2, CacheFacts
<1>4. \A b \in Pointers(cache) : b \in Blocks /\ b \in DOMAIN heap /\ heap[b].live /\ Live(b)
  BY HeldIsLive, CacheFacts DEF Holders, Live
<1>5. new = NULL \/ new = cache[key] \/ new \notin Pointers(cache)
  BY <1>1, <1>2, <1>4
<1>6. /\ Distinct(cache') /\ Pointers(cache') = (Pointers(cache) \ {old}) \cup ({new} \ {NULL})
      /\ old = NULL \/ old \in Pointers(cache)
  <2>1. PICK g : g = cache'
    OBVIOUS
  <2>2. /\ g \in [0 .. MaxKeys - 1 -> Block] /\ g[key] = new
        /\ \A k \in 0 .. MaxKeys - 1 : k # key => g[k] = cache[k]
    BY <1>3, <2>1
  <2>3. /\ Distinct(g) /\ Pointers(g) = (Pointers(cache) \ {cache[key]}) \cup ({new} \ {NULL})
        /\ cache[key] = NULL \/ cache[key] \in Pointers(cache)
    BY <1>3, <1>5, <2>2, Repointed, SMTT(30)
  <2> QED BY <1>3, <2>1, <2>3
<1>7. \A b \in Blocks : /\ b \in HeldBy("cache")' <=> (b \in HeldBy("cache") /\ b # old) \/ b = new
                        /\ b \in HeldBy("cache") => Live(b)
                        /\ NULL # b
  <2>1. HeldBy("cache") = Pointers(cache) /\ HeldBy("cache")' = Pointers(cache')
    BY CacheFacts
  <2>2. \A b \in Blocks : b # NULL
    BY BlockNumbers
  <2>3. \A b \in Blocks : b \in HeldBy("cache") => Live(b)
    BY <1>4, <2>1
  <2>4. \A b \in Blocks : b \in Pointers(cache') <=> (b \in Pointers(cache) /\ b # old) \/ b = new
    BY <1>6, <2>2
  <2> QED BY <2>1, <2>2, <2>3, <2>4, ZenonT(60)
<1>8. \A b \in Blocks : Live(b)' <=> (Live(b) /\ b # old) \/ b = new
  <2> TAKE b \in Blocks
  <2>1. CASE b = new
    <3>1. b \in DOMAIN heap' /\ heap'[b].live
      BY <1>7, <2>1
    <3> QED BY <2>1, <3>1 DEF Live
  <2>2. CASE b # new /\ b = old
    BY <1>1, <1>7, <2>2 DEF Live
  <2>3. CASE b # new /\ b # old
    <3>1. b \in DOMAIN heap => heap'[b] = heap[b]
      BY <1>1, <2>3
    <3> QED BY <2>3, <3>1 DEF Live
  <2> QED BY <2>1, <2>2, <2>3
<1>9. old = NULL \/ old \in HeldBy("cache")
  BY <1>6, CacheFacts
<1>10. new = NULL \/ new = old \/ ~Live(new)
  BY <1>1
<1>11. HeldOnce'
  <2>1. Settles({"cache"})
    BY <1>7, <1>8, <1>9, <1>10, CacheOthers DEF Settles, Theirs
  <2> QED BY <2>1, Settled DEF IInv, Holders
<1>12. Spares({"cache"})
  <2>1. \A b \in DOMAIN heap : b \in Blocks /\ ~Theirs({"cache"}, b) => heap'[b] = heap[b]
    BY <1>1, <1>7, <1>9, <1>10 DEF Theirs
  <2> QED BY <2>1, Spared DEF Holders
<1>13. heap'[Source] = heap[Source]
  <2>1. Source # new /\ Source # old /\ Source \in DOMAIN heap
    BY <1>3, BlockNumbers DEF Block, IInv, HeapShape, MemoryOK
  <2> QED BY <1>1, <2>1
<1>14. /\ held' \in [Scripts -> [at : Block, text : Texts \cup {"none"}]]
       /\ held'[s] = h /\ \A t \in Scripts : t # s => held'[t] = held[t]
  BY CacheFacts
<1>15. \A b \in Pointers(cache) : b # old => heap'[b] = heap[b] /\ b # new
  <2>1. \A b \in Pointers(cache) : b # old => b # new
    BY <1>4, <1>7, <1>10
  <2> QED BY <1>1, <1>4, <2>1
<1>16. \A b \in Pointers(cache') : \E t \in Texts : heap'[b].what = Text(t)
  <2> TAKE b \in Pointers(cache')
  <2>1. CASE b = new
    <3>1. b # NULL
      BY DEF Pointers
    <3> QED BY <2>1, <3>1
  <2>2. CASE b # new
    <3>1. b \in Pointers(cache) /\ heap'[b] = heap[b]
      BY <1>6, <1>15, <2>2
    <3> QED BY <3>1, CacheFacts DEF IsText
  <2> QED BY <2>1, <2>2
<1>17. \A t \in Scripts : held'[t].at # NULL =>
          /\ mine[t] # MaxKeys /\ cache'[mine[t]] = held'[t].at
          /\ heap'[held'[t].at].what = Text(held'[t].text)
  <2> SUFFICES ASSUME NEW t \in Scripts, held'[t].at # NULL
               PROVE  /\ mine[t] # MaxKeys /\ cache'[mine[t]] = held'[t].at
                      /\ heap'[held'[t].at].what = Text(held'[t].text)
    OBVIOUS
  <2>1. CASE t = s
    BY <1>2, <1>3, <1>14, <2>1
  <2>2. CASE t # s
    <3>1. held'[t] = held[t]
      BY <1>14, <2>2
    <3>2. /\ mine[t] \in 0 .. MaxKeys - 1 /\ cache[mine[t]] = held[t].at
          /\ held[t].at \in Pointers(cache) /\ heap[held[t].at].what = Text(held[t].text)
      BY <3>1, CacheFacts
    <3>3. mine[t] # key /\ mine[t] # MaxKeys
      BY <1>2, <2>2, <3>2, CacheFacts
    <3>4. held[t].at # old
      <4>1. key \in DOMAIN cache /\ mine[t] \in DOMAIN cache
        BY <1>3, <3>2
      <4> QED BY <1>3, <3>1, <3>2, <3>3, <4>1 DEF Distinct
    <3> QED BY <1>3, <1>15, <3>1, <3>2, <3>3, <3>4
  <2> QED BY <2>1, <2>2
<1>18. CacheShape'
  <2>1. \A b \in Pointers(cache') : IsText(b)'
    BY <1>16 DEF IsText
  <2>2. /\ nextKey' \in 0 .. MaxKeys /\ mine' \in [Scripts -> 0 .. MaxKeys]
        /\ \A t \in Scripts : mine'[t] # MaxKeys => mine'[t] < nextKey'
        /\ \A t, u \in Scripts : t # u => mine'[t] # mine'[u] \/ mine'[t] = MaxKeys
    BY CacheFacts
  <2>3. mine' = mine /\ C!NoKey = MaxKeys /\ C!NoKey' = MaxKeys
    BY DEF C!NoKey
  <2>4. Distinct(cache)' /\ \A b \in Pointers(cache)' : IsText(b)'
    BY <1>6, <2>1 DEF Distinct, Pointers
  <2>5. /\ nextKey' \in 0 .. MaxKeys /\ cache' \in [0 .. MaxKeys - 1 -> Block]
        /\ mine' \in [Scripts -> 0 .. MaxKeys]
        /\ held' \in [Scripts -> [at : Block, text : Texts \cup {"none"}]]
    BY <1>3, <1>14, <2>2
  <2>6. /\ \A t \in Scripts : mine'[t] # C!NoKey' => mine'[t] < nextKey'
        /\ \A t, u \in Scripts : t # u => mine'[t] # mine'[u] \/ mine'[t] = C!NoKey'
    BY <2>2, <2>3
  <2>7. \A t \in Scripts : held'[t].at # NULL =>
          /\ mine'[t] # C!NoKey' /\ cache'[mine'[t]] = held'[t].at
          /\ heap'[held'[t].at].what = Text(held'[t].text)
    BY <1>17, <2>3
  <2> QED BY <2>4, <2>5, <2>6, <2>7 DEF CacheShape
<1> QED BY <1>11, <1>12, <1>13, <1>18, OnlyCache

LEMMA SetsString ==
    ASSUME IInv, UNCHANGED <<poolVars, queueVars, requestVars>>,
           NEW s \in Scripts, NEW text \in Texts, C!set_string_in_cache(s, text)
    PROVE  IInv' /\ Stutters
<1>1. PICK old : old = cache[mine[s]]
  OBVIOUS
<1>2. PICK freed : freed = Without(heap, old)
  OBVIOUS
<1>3. PICK new : new = NewBlock(freed)
  OBVIOUS
<1>4. PICK h : h = [at |-> new, text |-> text]
  OBVIOUS
<1>5. /\ mine[s] # MaxKeys /\ Room(freed) /\ heap' = Stored(freed, new, Text(text))
      /\ cache' = [cache EXCEPT ![mine[s]] = new] /\ held' = [held EXCEPT ![s] = h]
      /\ UNCHANGED <<nextKey, mine>>
  BY <1>1, <1>2, <1>3, <1>4, CacheHeap DEF C!set_string_in_cache
<1>6. /\ old \in Block /\ MemoryOK(heap) /\ (old # NULL => old \in DOMAIN heap)
  <2>1. mine[s] \in 0 .. MaxKeys - 1
    BY <1>5, CacheFacts
  <2>2. old \in Block /\ (old # NULL => old \in Pointers(cache))
    BY <1>1, <2>1, CacheFacts DEF Pointers
  <2> QED BY <2>2, HeldIsLive, CacheFacts DEF Holders, IInv, HeapShape
<1>7. /\ MemoryOK(freed) /\ DOMAIN freed = DOMAIN heap /\ (old # NULL => ~freed[old].live)
      /\ \A b \in DOMAIN heap : b # old => freed[b] = heap[b]
  BY <1>2, <1>6, WithoutMemory
<1>8. new \in Blocks /\ new \in DOMAIN heap /\ ~freed[new].live
  BY <1>3, <1>5, <1>7, NewBlockIsFree
<1>9. new # NULL /\ new \in Block /\ (new = old \/ ~Live(new))
  BY <1>7, <1>8, BlockNumbers DEF Block, Live
<1>10. /\ MemoryOK(heap') /\ DOMAIN heap' = DOMAIN heap
       /\ heap'[new] = [live |-> TRUE, what |-> Text(text)]
       /\ \A b \in DOMAIN heap : b # new => heap'[b] = freed[b]
  <2>1. PICK w : w = Text(text)
    OBVIOUS
  <2>2. heap' = Stored(freed, new, w) /\ new \in DOMAIN freed
    BY <1>5, <1>7, <1>8, <2>1
  <2>3. /\ MemoryOK(heap') /\ DOMAIN heap' = DOMAIN freed
        /\ heap'[new] = [live |-> TRUE, what |-> w]
        /\ \A b \in DOMAIN freed : b # new => heap'[b] = freed[b]
    BY <1>7, <2>2, StoredMemory
  <2> QED BY <1>7, <2>1, <2>3
<1>11. heap'[new].live /\ heap'[new].what = Text(text)
  BY <1>10
<1>12. h \in [at : Block, text : Texts \cup {"none"}] /\ h.at = new /\ h.text = text
  BY <1>4, <1>9
<1>13. old # new => old = NULL \/ ~heap'[old].live
  BY <1>6, <1>7, <1>10
<1>14. \A b \in DOMAIN heap : b # new /\ b # old => heap'[b] = heap[b]
  BY <1>7, <1>10
<1>15. heap'[new].live /\ heap'[new].what = Text(h.text) /\ h.text \in Texts
  BY <1>11, <1>12
<1>16. cache[mine[s]] = old
  BY <1>1
<1> QED BY <1>5, <1>8, <1>9, <1>10, <1>12, <1>13, <1>14, <1>15, <1>16, Restrung, ZenonT(60)

LEMMA FreesString ==
    ASSUME IInv, UNCHANGED <<poolVars, queueVars, requestVars>>, NEW s \in Scripts, C!free_string_in_cache(s)
    PROVE  IInv' /\ Stutters
<1>1. PICK old : old = cache[mine[s]]
  OBVIOUS
<1>2. PICK h : h = [at |-> NULL, text |-> "none"]
  OBVIOUS
<1>3. PICK new : new = NULL
  OBVIOUS
<1>4. /\ mine[s] # MaxKeys /\ heap' = Without(heap, old)
      /\ cache' = [cache EXCEPT ![mine[s]] = new] /\ held' = [held EXCEPT ![s] = h]
      /\ UNCHANGED <<nextKey, mine>>
  BY <1>1, <1>2, <1>3, CacheHeap DEF C!free_string_in_cache
<1>5. /\ old \in Block /\ MemoryOK(heap) /\ (old # NULL => old \in DOMAIN heap)
  <2>1. mine[s] \in 0 .. MaxKeys - 1
    BY <1>4, CacheFacts
  <2>2. old \in Block /\ (old # NULL => old \in Pointers(cache))
    BY <1>1, <2>1, CacheFacts DEF Pointers
  <2> QED BY <2>2, HeldIsLive, CacheFacts DEF Holders, IInv, HeapShape
<1>6. /\ MemoryOK(heap') /\ DOMAIN heap' = DOMAIN heap /\ (old # NULL => ~heap'[old].live)
      /\ \A b \in DOMAIN heap : b # old => heap'[b] = heap[b]
  BY <1>4, <1>5, WithoutMemory
<1>7. h \in [at : Block, text : Texts \cup {"none"}] /\ h.at = new /\ new = NULL /\ new \in Block
  BY <1>2, <1>3 DEF Block
<1> QED BY <1>1, <1>4, <1>6, <1>7, Restrung

LEMMA CacheSteps ==
    ASSUME IInv, UNCHANGED <<poolVars, queueVars, requestVars>>, C!CacheNext(Blocked)
    PROVE  IInv' /\ Stutters
<1>1. PICK s \in Scripts : \/ C!get_next_cache_key(s) \/ C!get_string_in_cache(s) \/ C!free_string_in_cache(s)
                           \/ \E text \in Texts : C!set_string_in_cache(s, text)
  BY DEF C!CacheNext
<1> QED BY <1>1, TakesKey, LooksUp, FreesString, SetsString

-----------------------------------------------------------------------------
(* The requests.  The map and the handle of a script are its own.            *)
LEMMA RequestHeap ==
    /\ R!NULL = NULL
    /\ \A h : R!Room(h) <=> Room(h)
    /\ \A h : R!NewBlock(h) = NewBlock(h)
    /\ \A h, b, w : R!Stored(h, b, w) = Stored(h, b, w)
    /\ \A h, b : R!Without(h, b) = Without(h, b)
BY DEF R!NULL, NULL, R!Room, Room, R!FreeBlocks, FreeBlocks, R!NewBlock, NewBlock,
       R!Stored, Stored, R!Without, Without, R!Freed, Freed

LEMMA RequestOthers ==
    ASSUME IInv, UNCHANGED <<poolVars, queueVars, cacheVars>>
    PROVE  \A h \in Holders \ RequestHolders : HeldBy(h)' = HeldBy(h)
<1>1. /\ ArgumentOf' = ArgumentOf /\ ResultOf' = ResultOf /\ kept' = kept /\ leaked' = leaked
      /\ Q!Buffers' = Q!Buffers /\ cache' = cache
  BY DEF poolVars, queueVars, cacheVars, ArgumentOf, ResultOf, Q!Buffers
<1> QED BY <1>1, HeldByCases, HeldByCasesNext DEF Holders, RequestHolders

LEMMA RequestFacts ==
    ASSUME IInv
    PROVE  /\ idle \in Seq(Blocks) /\ maps \in [Scripts -> Block] /\ calls \in [Scripts -> Call]
           /\ CurlOf \in [Scripts -> Block]
           /\ wanted \in [Scripts -> SUBSET (Names \X Values)]
           /\ answer \in [Scripts -> 0 .. ResLength]
           /\ \A s \in Scripts : calls[s].pc # "waits" => calls[s].curl = NULL
           /\ OnceIn(idle) /\ Distinct(maps) /\ Distinct(CurlOf)
           /\ \A s \in Scripts : MapOK(s) /\ CurlOK(s)
           /\ \A s \in Scripts : /\ maps[s] # NULL => maps[s] \in HeldBy("headers")
                                 /\ calls[s].curl # NULL => calls[s].curl \in HeldBy("request")
           /\ HeldBy("headers") = Pointers(maps) /\ HeldBy("headers")' = Pointers(maps')
           /\ HeldBy("request") = Pointers(CurlOf) /\ HeldBy("request")' = Pointers(CurlOf')
           /\ HeldBy("idle") = Items(idle) /\ HeldBy("idle")' = Items(idle')
<1>1. /\ idle \in Seq(Blocks) /\ maps \in [Scripts -> Block] /\ calls \in [Scripts -> Call]
      /\ wanted \in [Scripts -> SUBSET (Names \X Values)]
      /\ answer \in [Scripts -> 0 .. ResLength]
      /\ \A s \in Scripts : calls[s].pc # "waits" => calls[s].curl = NULL
      /\ OnceIn(idle) /\ Distinct(maps) /\ Distinct(CurlOf)
      /\ \A s \in Scripts : MapOK(s) /\ CurlOK(s)
  BY DEF IInv, RequestShape
<1>2. CurlOf \in [Scripts -> Block]
  BY <1>1 DEF CurlOf, Call
<1>3. \A s \in Scripts : /\ maps[s] # NULL => maps[s] \in Pointers(maps)
                         /\ calls[s].curl # NULL => calls[s].curl \in Pointers(CurlOf)
  BY <1>1 DEF Pointers, CurlOf
<1> QED BY <1>1, <1>2, <1>3, HeldByCases, HeldByCasesNext

(* A script that keeps its map and its handle, with what is in them.         *)
LEMMA ScriptKept ==
    ASSUME IInv, NEW t \in Scripts, maps'[t] = maps[t], wanted'[t] = wanted[t], calls'[t] = calls[t],
           maps[t] # NULL => heap'[maps[t]] = heap[maps[t]],
           calls[t].curl # NULL => heap'[calls[t].curl] = heap[calls[t].curl]
    PROVE  MapOK(t)' /\ CurlOK(t)'
<1>1. MapOK(t) /\ CurlOK(t)
  BY RequestFacts
<1>2. MapOK(t)'
  BY <1>1 DEF MapOK
<1>3. CurlOK(t)'
  BY <1>1 DEF CurlOK
<1> QED BY <1>2, <1>3

LEMMA MapSet ==
    ASSUME IInv, NEW s \in Scripts, NEW p \in Block, p = NULL \/ p \notin HeldBy("headers"),
           maps' = [maps EXCEPT ![s] = p]
    PROVE  /\ maps' \in [Scripts -> Block] /\ Distinct(maps')
           /\ maps'[s] = p /\ \A t \in Scripts : t # s => maps'[t] = maps[t]
           /\ HeldBy("headers")' = (HeldBy("headers") \ {maps[s]}) \cup ({p} \ {NULL})
<1>1. PICK g : g = maps'
  OBVIOUS
<1>2. /\ maps \in [Scripts -> Block] /\ Distinct(maps) /\ g \in [Scripts -> Block]
      /\ g[s] = p /\ \A t \in Scripts : t # s => g[t] = maps[t]
  BY <1>1, RequestFacts
<1>3. p = NULL \/ p = maps[s] \/ p \notin Pointers(maps)
  BY RequestFacts
<1>4. Distinct(g) /\ Pointers(g) = (Pointers(maps) \ {maps[s]}) \cup ({p} \ {NULL})
  BY <1>2, <1>3, Repointed
<1> QED BY <1>1, <1>2, <1>4, RequestFacts

LEMMA CallSet ==
    ASSUME IInv, NEW s \in Scripts, NEW call \in Call,
           call.curl = NULL \/ call.curl = calls[s].curl \/ call.curl \notin HeldBy("request"),
           calls' = [calls EXCEPT ![s] = call]
    PROVE  /\ calls' \in [Scripts -> Call] /\ Distinct(CurlOf')
           /\ calls'[s] = call /\ \A t \in Scripts : t # s => calls'[t] = calls[t]
           /\ HeldBy("request")' = (HeldBy("request") \ {calls[s].curl}) \cup ({call.curl} \ {NULL})
<1>1. PICK g : g = CurlOf'
  OBVIOUS
<1>2. PICK p : p = call.curl
  OBVIOUS
<1>3. /\ calls' \in [Scripts -> Call] /\ calls'[s] = call
      /\ \A t \in Scripts : t # s => calls'[t] = calls[t]
  BY RequestFacts
<1>4. /\ CurlOf \in [Scripts -> Block] /\ Distinct(CurlOf) /\ CurlOf[s] = calls[s].curl /\ p \in Block
  BY <1>2, RequestFacts DEF CurlOf, Call
<1>5. /\ g \in [Scripts -> Block] /\ g[s] = p /\ \A t \in Scripts : t # s => g[t] = CurlOf[t]
  BY <1>1, <1>2, <1>3 DEF CurlOf, Call
<1>6. p = NULL \/ p = CurlOf[s] \/ p \notin Pointers(CurlOf)
  BY <1>2, <1>4, RequestFacts
<1>7. Distinct(g) /\ Pointers(g) = (Pointers(CurlOf) \ {CurlOf[s]}) \cup ({p} \ {NULL})
  BY <1>4, <1>5, <1>6, Repointed
<1> QED BY <1>1, <1>2, <1>3, <1>4, <1>7, RequestFacts

LEMMA ShapeNext ==
    ASSUME idle' \in Seq(Blocks), maps' \in [Scripts -> Block], calls' \in [Scripts -> Call],
           wanted' \in [Scripts -> SUBSET (Names \X Values)], answer' \in [Scripts -> 0 .. ResLength],
           \A s \in Scripts : calls'[s].pc # "waits" => calls'[s].curl = NULL,
           OnceIn(idle'), Distinct(maps'), Distinct(CurlOf'),
           \A s \in Scripts : MapOK(s)' /\ CurlOK(s)'
    PROVE  RequestShape'
<1>1. OnceIn(idle)' /\ Distinct(maps)' /\ Distinct(CurlOf)'
  BY DEF OnceIn, Distinct
<1> QED BY <1>1 DEF RequestShape

(* A step that touches what is in a map and in a handle of one script only.  *)
LEMMA OthersKept ==
    ASSUME IInv, NEW s \in Scripts, NEW b,
           \A h \in {"headers", "request"} : \A c \in HeldBy(h) : c # b => heap'[c] = heap[c],
           \A t \in Scripts : t # s => /\ maps'[t] = maps[t] /\ wanted'[t] = wanted[t] /\ calls'[t] = calls[t]
                                       /\ maps[t] # NULL => maps[t] # b
                                       /\ calls[t].curl # NULL => calls[t].curl # b
    PROVE  \A t \in Scripts : t # s => MapOK(t)' /\ CurlOK(t)'
<1> SUFFICES ASSUME NEW t \in Scripts, t # s PROVE MapOK(t)' /\ CurlOK(t)'
  OBVIOUS
<1>1. /\ maps[t] # NULL => heap'[maps[t]] = heap[maps[t]]
      /\ calls[t].curl # NULL => heap'[calls[t].curl] = heap[calls[t].curl]
  BY RequestFacts
<1> QED BY <1>1, ScriptKept

LEMMA HeadersMade ==
    ASSUME IInv, UNCHANGED <<poolVars, queueVars, cacheVars>>,
           NEW s \in Scripts, calls[s].pc = "none", R!ssmap_new(s)
    PROVE  IInv' /\ Stutters
<1>1. PICK n : n = NewBlock(heap)
  OBVIOUS
<1>2. PICK w : w = << >>
  OBVIOUS
<1>3. /\ maps[s] = NULL /\ Room(heap) /\ heap' = Stored(heap, n, w)
      /\ maps' = [maps EXCEPT ![s] = n] /\ wanted' = [wanted EXCEPT ![s] = {}]
      /\ UNCHANGED <<idle, calls, answer>>
  BY <1>1, <1>2, RequestHeap DEF R!ssmap_new, R!NoHeaders
<1>4. n \in Blocks /\ n \in DOMAIN heap /\ ~heap[n].live /\ MemoryOK(heap) /\ n \in Block /\ n # NULL
  BY <1>1, <1>3, NewBlockIsFree, BlockNumbers DEF IInv, HeapShape, Block
<1>5. \A h \in Holders : n \notin HeldBy(h) /\ NULL \notin HeldBy(h)
  BY <1>4, HeldIsLive, BlockNumbers
<1>6. /\ maps' \in [Scripts -> Block] /\ Distinct(maps')
      /\ maps'[s] = n /\ \A t \in Scripts : t # s => maps'[t] = maps[t]
      /\ HeldBy("headers")' = HeldBy("headers") \cup {n}
  <2>1. n \notin HeldBy("headers") /\ NULL \notin HeldBy("headers")
    BY <1>5 DEF Holders
  <2>2. /\ maps' \in [Scripts -> Block] /\ Distinct(maps')
        /\ maps'[s] = n /\ \A t \in Scripts : t # s => maps'[t] = maps[t]
        /\ HeldBy("headers")' = (HeldBy("headers") \ {maps[s]}) \cup ({n} \ {NULL})
    BY <1>3, <1>4, <2>1, MapSet
  <2> QED BY <1>3, <1>4, <2>1, <2>2
<1>7. CurlOf' = CurlOf /\ HeldBy("request")' = HeldBy("request") /\ HeldBy("idle")' = HeldBy("idle")
  <2>1. CurlOf' = CurlOf
    BY <1>3 DEF CurlOf
  <2> QED BY <1>3, <2>1, RequestFacts
<1>8. \A g \in Holders \ {"headers"} : HeldBy(g)' = HeldBy(g)
  BY <1>7, RequestOthers DEF RequestHolders
<1>9. HeldOnce' /\ Spares({"headers"}) /\ MemoryOK(heap') /\ heap'[Source] = heap[Source]
  BY <1>1, <1>3, <1>6, <1>8, Allocated DEF Holders
<1>10. heap'[n] = [live |-> TRUE, what |-> w] /\ \A c \in DOMAIN heap : c # n => heap'[c] = heap[c]
  BY <1>3, <1>4, StoredMemory
<1>11. /\ wanted' \in [Scripts -> SUBSET (Names \X Values)]
       /\ wanted'[s] = {} /\ \A t \in Scripts : t # s => wanted'[t] = wanted[t]
  BY <1>3, RequestFacts
<1>12. \A t \in Scripts : MapOK(t)' /\ CurlOK(t)'
  <2>1. \A h \in {"headers", "request"} : \A c \in HeldBy(h) : c # n => heap'[c] = heap[c]
    BY <1>10, HeldIsLive DEF Holders
  <2>2. \A t \in Scripts : /\ maps[t] # NULL => maps[t] # n
                           /\ calls[t].curl # NULL => calls[t].curl # n
    BY <1>5, RequestFacts DEF Holders
  <2>3. \A t \in Scripts : t # s => MapOK(t)' /\ CurlOK(t)'
    BY <1>3, <1>6, <1>11, <2>1, <2>2, OthersKept
  <2>4. MapOK(s)'
    <3>1. heap'[maps'[s]].what = << >>
      BY <1>2, <1>6, <1>10
    <3>2. InMap(<< >>) = {}
      BY DEF InMap
    <3> QED BY <1>11, <3>1, <3>2 DEF MapOK
  <2>5. CurlOK(s)'
    BY <1>3 DEF CurlOK
  <2> QED BY <2>3, <2>4, <2>5
<1>13. RequestShape'
  BY <1>3, <1>6, <1>7, <1>11, <1>12, RequestFacts, ShapeNext
<1> QED BY <1>9, <1>13, OnlyRequests, SparesMore DEF RequestHolders

LEMMA HeadersFreed ==
    ASSUME IInv, UNCHANGED <<poolVars, queueVars, cacheVars>>,
           NEW s \in Scripts, calls[s].pc = "none", R!ssmap_free(s)
    PROVE  IInv' /\ Stutters
<1>1. PICK b : b = maps[s]
  OBVIOUS
<1>2. PICK p : p = NULL
  OBVIOUS
<1>3. /\ b # NULL /\ heap' = Without(heap, b) /\ maps' = [maps EXCEPT ![s] = p]
      /\ UNCHANGED <<idle, calls, answer, wanted>>
  BY <1>1, <1>2, RequestHeap DEF R!ssmap_free
<1>4. b \in HeldBy("headers") /\ p \in Block
  BY <1>1, <1>2, <1>3, RequestFacts DEF Block
<1>5. MemoryOK(heap) /\ b \in Block /\ b \in DOMAIN heap
  BY <1>4, HeldIsLive DEF IInv, HeapShape, Block, Holders
<1>6. /\ maps' \in [Scripts -> Block] /\ Distinct(maps')
      /\ maps'[s] = p /\ \A t \in Scripts : t # s => maps'[t] = maps[t]
      /\ HeldBy("headers")' = HeldBy("headers") \ {b}
  <2>1. /\ maps' \in [Scripts -> Block] /\ Distinct(maps')
        /\ maps'[s] = p /\ \A t \in Scripts : t # s => maps'[t] = maps[t]
        /\ HeldBy("headers")' = (HeldBy("headers") \ {maps[s]}) \cup ({p} \ {NULL})
    BY <1>2, <1>3, <1>4, MapSet
  <2> QED BY <1>1, <1>2, <2>1
<1>7. CurlOf' = CurlOf /\ HeldBy("request")' = HeldBy("request") /\ HeldBy("idle")' = HeldBy("idle")
  <2>1. CurlOf' = CurlOf
    BY <1>3 DEF CurlOf
  <2> QED BY <1>3, <2>1, RequestFacts
<1>8. \A g \in Holders \ {"headers"} : HeldBy(g)' = HeldBy(g)
  BY <1>7, RequestOthers DEF RequestHolders
<1>9. HeldOnce' /\ Spares({"headers"}) /\ MemoryOK(heap') /\ heap'[Source] = heap[Source]
  BY <1>3, <1>4, <1>6, <1>8, Released DEF Holders
<1>10. \A c \in DOMAIN heap : c # b => heap'[c] = heap[c]
  BY <1>3, <1>5, WithoutMemory
<1>11. \A t \in Scripts : MapOK(t)' /\ CurlOK(t)'
  <2>1. \A h \in {"headers", "request"} : \A c \in HeldBy(h) : c # b => heap'[c] = heap[c]
    BY <1>10, HeldIsLive DEF Holders
  <2>2. \A t \in Scripts : t # s => (maps[t] # NULL => maps[t] # b)
    BY <1>1, RequestFacts DEF Distinct
  <2>3. \A t \in Scripts : calls[t].curl # NULL => calls[t].curl # b
    BY <1>4, <1>5, HeldIsLive, RequestFacts DEF IInv, HeldOnce, Holders
  <2>4. \A t \in Scripts : t # s => MapOK(t)' /\ CurlOK(t)'
    BY <1>3, <1>6, <2>1, <2>2, <2>3, OthersKept
  <2>5. MapOK(s)' /\ CurlOK(s)'
    BY <1>2, <1>3, <1>6 DEF MapOK, CurlOK
  <2> QED BY <2>4, <2>5
<1>12. RequestShape'
  BY <1>3, <1>6, <1>7, <1>11, RequestFacts, ShapeNext
<1> QED BY <1>9, <1>12, OnlyRequests, SparesMore DEF RequestHolders

(* A header is set, or a name is read that is not there yet.                 *)
LEMMA EntryIs ==
    ASSUME NEW map, NEW n, NEW t
    PROVE  InMap(R!Entry(map, n, t)) = {h \in InMap(map) : h[1] # n} \cup {<<n, t>>}
<1>1. PICK e : e = R!Entry(map, n, t)
  OBVIOUS
<1>2. /\ DOMAIN e = DOMAIN map \cup {n} /\ e[n] = t
      /\ \A m \in DOMAIN map : m # n => e[m] = map[m]
  BY <1>1 DEF R!Entry
<1>3. ASSUME NEW h PROVE h \in InMap(e) <=> h \in {g \in InMap(map) : g[1] # n} \cup {<<n, t>>}
  <2>1. h \in InMap(e) <=> \E m \in DOMAIN map \cup {n} : h = <<m, e[m]>>
    BY <1>2 DEF InMap
  <2>2. h \in InMap(map) <=> \E m \in DOMAIN map : h = <<m, map[m]>>
    BY DEF InMap
  <2> QED BY <1>2, <2>1, <2>2
<1> QED BY <1>1, <1>3

LEMMA ReadIs ==
    ASSUME NEW map, NEW n
    PROVE  Sent(InMap(R!Read(map, n))) = Sent(InMap(map))
<1>1. CASE n \in DOMAIN map
  BY <1>1 DEF R!Read
<1>2. CASE n \notin DOMAIN map
  <2>1. InMap(R!Read(map, n)) = {h \in InMap(map) : h[1] # n} \cup {<<n, "">>}
    BY <1>2, EntryIs DEF R!Read
  <2>2. \A h \in InMap(map) : h[1] # n
    BY <1>2 DEF InMap
  <2>3. \A h : h \in InMap(R!Read(map, n)) <=> h \in InMap(map) \/ h = <<n, "">>
    BY <2>1, <2>2
  <2>4. <<n, "">>[2] = ""
    OBVIOUS
  <2> QED BY <2>3, <2>4 DEF Sent
<1> QED BY <1>1, <1>2

LEMMA MapWritten ==
    ASSUME IInv, UNCHANGED <<poolVars, queueVars, cacheVars>>, UNCHANGED <<idle, maps, calls, answer>>,
           NEW s \in Scripts, calls[s].pc = "none", maps[s] # NULL,
           NEW w, heap' = [heap EXCEPT ![maps[s]].what = w],
           wanted' \in [Scripts -> SUBSET (Names \X Values)],
           \A t \in Scripts : t # s => wanted'[t] = wanted[t],
           Sent(InMap(w)) = Sent(wanted'[s])
    PROVE  IInv' /\ Stutters
<1>1. PICK b : b = maps[s]
  OBVIOUS
<1>2. b \in HeldBy("headers") /\ "headers" \in Holders /\ heap' = [heap EXCEPT ![b].what = w]
  BY <1>1, RequestFacts DEF Holders
<1>3. CurlOf' = CurlOf /\ \A g \in RequestHolders : HeldBy(g)' = HeldBy(g)
  <2>1. CurlOf' = CurlOf
    BY DEF CurlOf
  <2> QED BY <2>1, RequestFacts DEF RequestHolders
<1>4. \A g \in Holders : HeldBy(g)' = HeldBy(g)
  BY <1>3, RequestOthers
<1>5. /\ HeldOnce' /\ Spares({"headers"}) /\ MemoryOK(heap') /\ heap'[Source] = heap[Source]
      /\ heap'[b].what = w /\ \A c \in DOMAIN heap : c # b => heap'[c] = heap[c]
  <2>1. b \in DOMAIN heap /\ MemoryOK(heap)
    BY <1>2, HeldIsLive DEF IInv, HeapShape
  <2>2. /\ MemoryOK(heap') /\ DOMAIN heap' = DOMAIN heap /\ heap'[b] = [live |-> heap[b].live, what |-> w]
        /\ \A c \in DOMAIN heap : c # b => heap'[c] = heap[c]
    <3>1. heap[b] = [live |-> heap[b].live, what |-> heap[b].what]
      BY <2>1 DEF MemoryOK
    <3>2. heap'[b] = [heap[b] EXCEPT !.what = w]
      BY <1>2, <2>1
    <3>3. heap'[b] = [live |-> heap[b].live, what |-> w]
      BY <3>1, <3>2
    <3>4. DOMAIN heap' = DOMAIN heap /\ \A c \in DOMAIN heap : c # b => heap'[c] = heap[c]
      BY <1>2, <2>1
    <3>5. heap'[b].live = heap[b].live /\ heap'[b].what = w
      BY <3>3
    <3>6. MemoryOK(heap')
      BY <2>1, <3>3, <3>4, <3>5 DEF MemoryOK
    <3> QED BY <3>3, <3>4, <3>6
  <2>3. heap'[b].live = heap[b].live /\ heap'[b].what = w
    BY <2>2
  <2>4. HeldOnce' /\ Spares({"headers"}) /\ heap'[Source] = heap[Source]
    BY <1>2, <1>4, <2>2, <2>3, Written
  <2> QED BY <2>2, <2>3, <2>4
<1>6. \A t \in Scripts : MapOK(t)' /\ CurlOK(t)'
  <2>1. \A h \in {"headers", "request"} : \A c \in HeldBy(h) : c # b => heap'[c] = heap[c]
    BY <1>5, HeldIsLive DEF Holders
  <2>2. \A t \in Scripts : t # s => (maps[t] # NULL => maps[t] # b)
    BY <1>1, RequestFacts DEF Distinct
  <2>3. \A t \in Scripts : calls[t].curl # NULL => calls[t].curl # b
    BY <1>2, HeldIsLive, RequestFacts DEF IInv, HeldOnce, Holders
  <2>4. \A t \in Scripts : t # s => MapOK(t)' /\ CurlOK(t)'
    BY <2>1, <2>2, <2>3, OthersKept
  <2>5. MapOK(s)' /\ CurlOK(s)'
    BY <1>1, <1>5 DEF MapOK, CurlOK
  <2> QED BY <2>4, <2>5
<1>7. RequestShape'
  BY <1>3, <1>6, RequestFacts, ShapeNext
<1> QED BY <1>5, <1>7, OnlyRequests, SparesMore DEF RequestHolders

LEMMA HeaderSet ==
    ASSUME IInv, UNCHANGED <<poolVars, queueVars, cacheVars>>,
           NEW s \in Scripts, calls[s].pc = "none",
           NEW n \in Names, NEW t \in Values, R!ssmap_set(s, n, t)
    PROVE  IInv' /\ Stutters
<1>1. PICK map : map = heap[maps[s]].what
  OBVIOUS
<1>2. PICK w : w = R!Entry(map, n, t)
  OBVIOUS
<1>3. PICK v : v = {h \in wanted[s] : h[1] # n} \cup {<<n, t>>}
  OBVIOUS
<1>4. maps[s] # NULL /\ UNCHANGED <<idle, maps, calls, answer>>
  BY RequestHeap DEF R!ssmap_set
<1>5. maps[s] \in DOMAIN heap
  BY <1>4, HeldIsLive, RequestFacts DEF Holders
<1>6. heap' = [heap EXCEPT ![maps[s]].what = w]
  BY <1>1, <1>2, <1>5 DEF R!ssmap_set
<1>7. /\ v \in SUBSET (Names \X Values)
      /\ wanted' = [wanted EXCEPT ![s] = v]
  BY <1>3, RequestFacts DEF R!ssmap_set
<1>8. /\ wanted' \in [Scripts -> SUBSET (Names \X Values)]
      /\ wanted'[s] = v /\ \A u \in Scripts : u # s => wanted'[u] = wanted[u]
  BY <1>7, RequestFacts
<1>9. Sent(InMap(map)) = Sent(wanted[s])
  BY <1>1, <1>4, RequestFacts DEF MapOK
<1>10. InMap(w) = {h \in InMap(map) : h[1] # n} \cup {<<n, t>>}
  BY <1>2, EntryIs
<1>11. Sent(InMap(w)) = Sent(v)
  <2>1. PICK m : m = InMap(map)
    OBVIOUS
  <2>2. \A h : h \in m /\ h[2] # "" <=> h \in wanted[s] /\ h[2] # ""
    BY <1>9, <2>1 DEF Sent
  <2>3. \A h : h \in InMap(w) <=> (h \in m /\ h[1] # n) \/ h = <<n, t>>
    BY <1>10, <2>1
  <2>4. \A h : h \in v <=> (h \in wanted[s] /\ h[1] # n) \/ h = <<n, t>>
    BY <1>3
  <2> QED BY <2>2, <2>3, <2>4 DEF Sent
<1> QED BY <1>4, <1>6, <1>8, <1>11, MapWritten

LEMMA HeaderRead ==
    ASSUME IInv, UNCHANGED <<poolVars, queueVars, cacheVars>>,
           NEW s \in Scripts, calls[s].pc = "none", NEW n \in Names, R!ssmap_get(s, n)
    PROVE  IInv' /\ Stutters
<1>1. PICK map : map = heap[maps[s]].what
  OBVIOUS
<1>2. PICK w : w = R!Read(map, n)
  OBVIOUS
<1>3. maps[s] # NULL /\ UNCHANGED <<idle, maps, calls, answer, wanted>>
  BY RequestHeap DEF R!ssmap_get
<1>4. maps[s] \in DOMAIN heap
  BY <1>3, HeldIsLive, RequestFacts DEF Holders
<1>5. heap' = [heap EXCEPT ![maps[s]].what = w]
  BY <1>1, <1>2, <1>4 DEF R!ssmap_get
<1>6. Sent(InMap(w)) = Sent(wanted'[s])
  <2>1. Sent(InMap(map)) = Sent(wanted[s])
    BY <1>1, <1>3, RequestFacts DEF MapOK
  <2> QED BY <1>2, <1>3, <2>1, ReadIs
<1> QED BY <1>3, <1>5, <1>6, MapWritten, RequestFacts

(* A handle is taken, from the pool or a new one, and gets what the map has. *)
LEMMA Prepared ==
    ASSUME IInv, NEW s \in Scripts, maps[s] # NULL, NEW verb
    PROVE  Sent(InMap(heap[maps[s]].what) \cup R!Added(verb)) = Sent(wanted[s] \cup R!Added(verb))
<1>1. Sent(InMap(heap[maps[s]].what)) = Sent(wanted[s])
  BY RequestFacts DEF MapOK
<1>2. PICK m : m = InMap(heap[maps[s]].what)
  OBVIOUS
<1>3. PICK v : v = wanted[s]
  OBVIOUS
<1>4. PICK a : a = R!Added(verb)
  OBVIOUS
<1>5. Sent(m \cup a) = Sent(v \cup a)
  <2>1. \A h : h \in Sent(m) <=> h \in Sent(v)
    BY <1>1, <1>2, <1>3
  <2> QED BY <2>1 DEF Sent
<1> QED BY <1>2, <1>3, <1>4, <1>5

LEMMA Starting ==
    ASSUME IInv, NEW s \in Scripts, calls[s].pc = "none", maps[s] # NULL,
           NEW b \in Blocks, b \notin HeldBy("headers"), b \notin HeldBy("request"),
           NEW call \in Call, call.pc = "waits", call.curl = b,
           calls' = [calls EXCEPT ![s] = call], CurlOK(s)',
           \A c \in DOMAIN heap : c # b => heap'[c] = heap[c],
           UNCHANGED <<maps, answer, wanted>>, idle' \in Seq(Blocks), OnceIn(idle')
    PROVE  RequestShape' /\ HeldBy("headers")' = HeldBy("headers")
           /\ HeldBy("request")' = HeldBy("request") \cup {b}
<1>1. b # NULL /\ calls[s].curl = NULL /\ NULL \notin HeldBy("request")
  BY BlockNumbers, RequestFacts DEF Pointers
<1>2. /\ calls' \in [Scripts -> Call] /\ Distinct(CurlOf')
      /\ calls'[s] = call /\ \A t \in Scripts : t # s => calls'[t] = calls[t]
      /\ HeldBy("request")' = (HeldBy("request") \ {calls[s].curl}) \cup ({call.curl} \ {NULL})
  BY <1>1, CallSet
<1>3. HeldBy("headers")' = HeldBy("headers") /\ HeldBy("request")' = HeldBy("request") \cup {b}
  BY <1>1, <1>2, RequestFacts
<1>4. \A h \in {"headers", "request"} : \A c \in HeldBy(h) : c # b => heap'[c] = heap[c]
  BY HeldIsLive DEF Holders
<1>5. \A t \in Scripts : t # s => MapOK(t)' /\ CurlOK(t)'
  <2> SUFFICES ASSUME NEW t \in Scripts, t # s PROVE MapOK(t)' /\ CurlOK(t)'
    OBVIOUS
  <2>1. /\ maps[t] # NULL => heap'[maps[t]] = heap[maps[t]]
        /\ calls[t].curl # NULL => heap'[calls[t].curl] = heap[calls[t].curl]
    BY <1>4, RequestFacts
  <2>2. maps'[t] = maps[t] /\ wanted'[t] = wanted[t] /\ calls'[t] = calls[t]
    BY <1>2
  <2> QED BY <2>1, <2>2, ScriptKept
<1>6. MapOK(s)'
  <2>1. heap'[maps[s]] = heap[maps[s]]
    BY <1>4, RequestFacts
  <2>2. MapOK(s)
    BY RequestFacts
  <2> QED BY <2>1, <2>2 DEF MapOK
<1>8. \A t \in Scripts : calls'[t].pc # "waits" => calls'[t].curl = NULL
  BY <1>1, <1>2, RequestFacts
<1>9. RequestShape'
  BY <1>2, <1>5, <1>6, <1>8, RequestFacts, ShapeNext
<1> QED BY <1>3, <1>9

LEMMA CallMade ==
    ASSUME NEW b, NEW verb, NEW debug
    PROVE  [R!NoCall EXCEPT !.pc = "waits", !.curl = b, !.verb = verb, !.debug = debug]
             = [pc |-> "waits", curl |-> b, verb |-> verb, debug |-> debug, body |-> 0]
<1>1. PICK f : f = FALSE
  OBVIOUS
<1>2. R!NoCall = [pc |-> "none", curl |-> NULL, verb |-> "GET", debug |-> f, body |-> 0]
  BY <1>1, RequestHeap DEF R!NoCall
<1>3. [R!NoCall EXCEPT !.pc = "waits"]
        = [pc |-> "waits", curl |-> NULL, verb |-> "GET", debug |-> f, body |-> 0]
  BY <1>2
<1>4. [[pc |-> "waits", curl |-> NULL, verb |-> "GET", debug |-> f, body |-> 0] EXCEPT !.curl = b]
        = [pc |-> "waits", curl |-> b, verb |-> "GET", debug |-> f, body |-> 0]
  OBVIOUS
<1>5. [[pc |-> "waits", curl |-> b, verb |-> "GET", debug |-> f, body |-> 0] EXCEPT !.verb = verb]
        = [pc |-> "waits", curl |-> b, verb |-> verb, debug |-> f, body |-> 0]
  OBVIOUS
<1>6. [[pc |-> "waits", curl |-> b, verb |-> verb, debug |-> f, body |-> 0] EXCEPT !.debug = debug]
        = [pc |-> "waits", curl |-> b, verb |-> verb, debug |-> debug, body |-> 0]
  OBVIOUS
<1>7. [R!NoCall EXCEPT !.pc = "waits", !.curl = b, !.verb = verb, !.debug = debug]
        = [[[[R!NoCall EXCEPT !.pc = "waits"] EXCEPT !.curl = b] EXCEPT !.verb = verb] EXCEPT !.debug = debug]
  BY <1>2
<1> QED BY <1>3, <1>4, <1>5, <1>6, <1>7

LEMMA RequestStarts ==
    ASSUME IInv, UNCHANGED <<poolVars, queueVars, cacheVars>>, NEW s \in Scripts, calls[s].pc = "none",
           NEW verb \in Verbs \cup {"test"}, NEW debug \in BOOLEAN, R!send(s, verb, debug)
    PROVE  IInv' /\ Stutters
<1>1. PICK b : b = IF idle = << >> THEN NewBlock(heap) ELSE idle[Len(idle)]
  OBVIOUS
<1>2. PICK w : w = [headers |-> InMap(heap[maps[s]].what) \cup R!Added(verb),
                    container |-> IF debug THEN s ELSE NULL]
  OBVIOUS
<1>3. PICK call : call = [pc |-> "waits", curl |-> b, verb |-> verb, debug |-> debug, body |-> 0]
  OBVIOUS
<1>4. /\ maps[s] # NULL /\ (idle = << >> => Room(heap))
      /\ idle' = IF idle = << >> THEN idle ELSE SubSeq(idle, 1, Len(idle) - 1)
      /\ UNCHANGED <<maps, answer, wanted>>
  BY RequestHeap DEF R!send, R!Front
<1>5. heap' = Stored(heap, b, w)
  <2>1. (IF idle = << >> THEN R!NewBlock(heap) ELSE R!Last(idle)) = b
    BY <1>1, RequestHeap DEF R!Last
  <2>2. \A old : R!get_cURL(old).headers = {} /\ R!get_cURL(old).container = NULL
    BY RequestHeap DEF R!get_cURL
  <2>3. \A old : [headers |-> R!get_cURL(old).headers \cup InMap(heap[maps[s]].what) \cup R!Added(verb),
                  container |-> IF debug THEN s ELSE R!get_cURL(old).container] = w
    BY <1>2, <2>2
  <2>4. \E old : heap' = R!Stored(heap, b,
                           [headers |-> R!get_cURL(old).headers \cup InMap(heap[maps[s]].what) \cup R!Added(verb),
                            container |-> IF debug THEN s ELSE R!get_cURL(old).container])
    BY <2>1 DEF R!send, InMap
  <2> QED BY <2>3, <2>4, RequestHeap
<1>6. calls' = [calls EXCEPT ![s] = call]
  <2>1. (IF idle = << >> THEN R!NewBlock(heap) ELSE R!Last(idle)) = b
    BY <1>1, RequestHeap DEF R!Last
  <2>2. calls' = [calls EXCEPT ![s] = [R!NoCall EXCEPT !.pc = "waits", !.curl = b, !.verb = verb, !.debug = debug]]
    BY <2>1 DEF R!send
  <2> QED BY <1>3, <2>2, CallMade
<1>7. b \in Blocks /\ b \in DOMAIN heap /\ MemoryOK(heap)
      /\ b \notin HeldBy("headers") /\ b \notin HeldBy("request")
      /\ idle' \in Seq(Blocks) /\ OnceIn(idle')
  <2>1. CASE idle = << >>
    <3>1. b \in Blocks /\ b \in DOMAIN heap /\ ~heap[b].live /\ MemoryOK(heap)
      BY <1>1, <1>4, <2>1, NewBlockIsFree DEF IInv, HeapShape
    <3> QED BY <1>4, <2>1, <3>1, HeldIsLive, RequestFacts DEF Holders
  <2>2. CASE idle # << >>
    <3>1. b \in HeldBy("idle") /\ idle' \in Seq(Blocks) /\ OnceIn(idle')
      BY <1>1, <1>4, <2>2, RequestFacts, LastTaken
    <3>2. b \in Blocks /\ b \in DOMAIN heap /\ MemoryOK(heap)
      BY <3>1, HeldIsLive DEF Holders, IInv, HeapShape
    <3> QED BY <3>1, <3>2 DEF IInv, HeldOnce, Holders
  <2> QED BY <2>1, <2>2
<1>8. /\ MemoryOK(heap') /\ DOMAIN heap' = DOMAIN heap /\ heap'[b] = [live |-> TRUE, what |-> w]
      /\ \A c \in DOMAIN heap : c # b => heap'[c] = heap[c]
  BY <1>5, <1>7, StoredMemory
<1>9. /\ heap'[b].live
      /\ heap'[b].what.headers = InMap(heap[maps[s]].what) \cup R!Added(verb)
      /\ heap'[b].what.container = (IF debug THEN s ELSE NULL)
  BY <1>2, <1>8
<1>10. /\ RequestShape' /\ HeldBy("headers")' = HeldBy("headers")
       /\ HeldBy("request")' = HeldBy("request") \cup {b}
  <2>1. /\ call \in Call /\ call.pc = "waits" /\ call.curl = b /\ call.verb = verb /\ call.debug = debug
    BY <1>3, <1>7 DEF Call, Block
  <2>2. calls'[s] = call
    BY <1>6, RequestFacts
  <2>3. Sent(heap'[b].what.headers) = Sent(wanted[s] \cup R!Added(verb))
    BY <1>4, <1>9, Prepared
  <2>4. b # NULL
    BY <1>7, BlockNumbers
  <2>5. CurlOK(s)'
    BY <1>4, <1>9, <2>1, <2>2, <2>3, <2>4 DEF CurlOK
  <2> QED BY <1>4, <1>6, <1>7, <1>8, <2>1, <2>5, Starting
<1>11. HeldOnce' /\ Spares(RequestHolders) /\ heap'[Source] = heap[Source]
  <2>1. CASE idle = << >>
    <3>1. HeldBy("idle")' = HeldBy("idle")
      BY <1>4, <2>1, RequestFacts
    <3>2. \A g \in Holders \ {"request"} : HeldBy(g)' = HeldBy(g)
      BY <1>10, <3>1, RequestOthers DEF RequestHolders
    <3>3. HeldOnce' /\ Spares({"request"}) /\ heap'[Source] = heap[Source]
      <4>1. /\ heap' = Stored(heap, NewBlock(heap), w) /\ Room(heap) /\ "request" \in Holders
            /\ HeldBy("request")' = HeldBy("request") \cup {NewBlock(heap)}
        BY <1>1, <1>4, <1>5, <1>10, <2>1 DEF Holders
      <4> QED BY <3>2, <4>1, Allocated
    <3> QED BY <3>3, SparesMore DEF RequestHolders
  <2>2. CASE idle # << >>
    <3>1. b \in HeldBy("idle") /\ HeldBy("idle")' = HeldBy("idle") \ {b}
      BY <1>1, <1>4, <2>2, RequestFacts, LastTaken
    <3>2. \A g \in Holders \ {"idle", "request"} : HeldBy(g)' = HeldBy(g)
      BY <1>10, RequestOthers DEF RequestHolders
    <3>3. heap[b].live
      BY <3>1, HeldIsLive DEF Holders
    <3>4. \A c \in Blocks : Live(c)' <=> Live(c)
      BY <1>7, <1>8, <1>9, <3>3 DEF Live
    <3>5. HeldOnce'
      BY <1>10, <3>1, <3>2, <3>4, HandedOver DEF Holders
    <3>6. Spares({"idle"})
      BY <1>8, <3>1, Spared DEF Theirs, Holders
    <3>7. heap'[Source] = heap[Source]
      BY <1>7, <1>8, BlockNumbers DEF MemoryOK
    <3> QED BY <3>5, <3>6, <3>7, SparesMore DEF RequestHolders
  <2> QED BY <2>1, <2>2
<1> QED BY <1>8, <1>10, <1>11, OnlyRequests

(* A call that is over has no handle; another one may have it by now.        *)
LEMMA Ending ==
    ASSUME IInv, NEW s \in Scripts, NEW call \in Call, call.pc # "waits", call.curl = NULL,
           calls' = [calls EXCEPT ![s] = call], UNCHANGED <<maps, wanted>>,
           answer' \in [Scripts -> 0 .. ResLength], idle' \in Seq(Blocks), OnceIn(idle'),
           \A h \in {"headers", "request"} : \A c \in HeldBy(h) : c # calls[s].curl => heap'[c] = heap[c]
    PROVE  RequestShape' /\ HeldBy("headers")' = HeldBy("headers")
           /\ HeldBy("request")' = HeldBy("request") \ {calls[s].curl}
<1>1. /\ calls' \in [Scripts -> Call] /\ Distinct(CurlOf')
      /\ calls'[s] = call /\ \A t \in Scripts : t # s => calls'[t] = calls[t]
      /\ HeldBy("request")' = (HeldBy("request") \ {calls[s].curl}) \cup ({call.curl} \ {NULL})
  BY CallSet
<1>2. HeldBy("headers")' = HeldBy("headers") /\ HeldBy("request")' = HeldBy("request") \ {calls[s].curl}
  BY <1>1, RequestFacts
<1>3. \A t \in Scripts : MapOK(t)' /\ CurlOK(t)'
  <2> SUFFICES ASSUME NEW t \in Scripts PROVE MapOK(t)' /\ CurlOK(t)'
    OBVIOUS
  <2>1. maps[t] # NULL => heap'[maps[t]] = heap[maps[t]]
    <3> SUFFICES ASSUME maps[t] # NULL PROVE heap'[maps[t]] = heap[maps[t]]
      OBVIOUS
    <3>1. maps[t] \in HeldBy("headers") /\ maps[t] \in Blocks
      BY RequestFacts, HeldIsLive DEF Holders
    <3>2. calls[s].curl = NULL \/ calls[s].curl \in HeldBy("request")
      BY RequestFacts
    <3>3. maps[t] # calls[s].curl
      BY <3>1, <3>2 DEF IInv, HeldOnce, Holders
    <3> QED BY <3>1, <3>3
  <2>2. CASE t = s
    <3>1. CurlOK(s)'
      BY <1>1 DEF CurlOK
    <3>2. MapOK(s)'
      <4>1. MapOK(s)
        BY RequestFacts
      <4> QED BY <2>1, <2>2, <4>1 DEF MapOK
    <3> QED BY <2>2, <3>1, <3>2
  <2>3. CASE t # s
    <3>1. calls[t].curl # NULL => heap'[calls[t].curl] = heap[calls[t].curl]
      <4> SUFFICES ASSUME calls[t].curl # NULL PROVE heap'[calls[t].curl] = heap[calls[t].curl]
        OBVIOUS
      <4>1. calls[t].curl \in HeldBy("request")
        BY RequestFacts
      <4>2. CurlOf[t] # CurlOf[s] \/ CurlOf[t] = NULL
        BY <2>3, RequestFacts DEF Distinct
      <4>3. calls[t].curl # calls[s].curl
        BY <4>2 DEF CurlOf
      <4> QED BY <4>1, <4>3
    <3>2. maps'[t] = maps[t] /\ wanted'[t] = wanted[t] /\ calls'[t] = calls[t]
      BY <1>1, <2>3
    <3> QED BY <2>1, <3>1, <3>2, ScriptKept
  <2> QED BY <2>2, <2>3
<1>4. \A t \in Scripts : calls'[t].pc # "waits" => calls'[t].curl = NULL
  BY <1>1, RequestFacts
<1>5. RequestShape'
  BY <1>1, <1>3, <1>4, RequestFacts, ShapeNext
<1> QED BY <1>2, <1>5

LEMMA CallAnswered ==
    ASSUME IInv, NEW s \in Scripts, NEW body \in BodyLengths
    PROVE  \E call \in Call :
               /\ call.pc = "answered" /\ call.curl = NULL
               /\ [calls EXCEPT ![s].pc = "answered", ![s].curl = NULL, ![s].body = body]
                    = [calls EXCEPT ![s] = call]
<1>1. calls \in [Scripts -> Call] /\ calls[s] \in Call
  BY RequestFacts
<1>2. PICK p, c, v, d, y : calls[s] = [pc |-> p, curl |-> c, verb |-> v, debug |-> d, body |-> y]
  BY <1>1 DEF Call
<1>3. PICK call : call = [pc |-> "answered", curl |-> NULL, verb |-> v, debug |-> d, body |-> body]
  OBVIOUS
<1>4. calls[s].verb = v /\ calls[s].debug = d
  BY <1>2
<1>5. call \in Call /\ call.pc = "answered" /\ call.curl = NULL
  BY <1>1, <1>3, <1>4 DEF Call, Block
<1>6. [calls[s] EXCEPT !.pc = "answered"] = [pc |-> "answered", curl |-> c, verb |-> v, debug |-> d, body |-> y]
  BY <1>2
<1>7. [[pc |-> "answered", curl |-> c, verb |-> v, debug |-> d, body |-> y] EXCEPT !.curl = NULL]
        = [pc |-> "answered", curl |-> NULL, verb |-> v, debug |-> d, body |-> y]
  OBVIOUS
<1>8. [[pc |-> "answered", curl |-> NULL, verb |-> v, debug |-> d, body |-> y] EXCEPT !.body = body]
        = [pc |-> "answered", curl |-> NULL, verb |-> v, debug |-> d, body |-> body]
  OBVIOUS
<1>9. [[[calls[s] EXCEPT !.pc = "answered"] EXCEPT !.curl = NULL] EXCEPT !.body = body] = call
  BY <1>3, <1>6, <1>7, <1>8
<1>10. [calls EXCEPT ![s].pc = "answered", ![s].curl = NULL, ![s].body = body]
         = [calls EXCEPT ![s] = [[[calls[s] EXCEPT !.pc = "answered"] EXCEPT !.curl = NULL] EXCEPT !.body = body]]
  BY <1>1
<1> QED BY <1>5, <1>9, <1>10

LEMMA RequestAnswered ==
    ASSUME IInv, UNCHANGED <<poolVars, queueVars, cacheVars>>,
           NEW s \in Scripts, NEW body \in BodyLengths, R!answered(s, body)
    PROVE  IInv' /\ Stutters
<1>1. PICK b : b = calls[s].curl
  OBVIOUS
<1>2. /\ calls[s].pc = "waits" /\ R!release_cURL(b) /\ UNCHANGED <<maps, answer, wanted>>
      /\ calls' = [calls EXCEPT ![s].pc = "answered", ![s].curl = NULL, ![s].body = body]
  BY <1>1, RequestHeap DEF R!answered
<1>3. PICK call \in Call : call.pc = "answered" /\ call.curl = NULL /\ calls' = [calls EXCEPT ![s] = call]
  <2>1. PICK call \in Call :
           /\ call.pc = "answered" /\ call.curl = NULL
           /\ [calls EXCEPT ![s].pc = "answered", ![s].curl = NULL, ![s].body = body]
                = [calls EXCEPT ![s] = call]
    BY CallAnswered, ZenonT(60)
  <2> QED BY <1>2, <2>1
<1>4. b \in HeldBy("request") /\ b # NULL
  <2>1. CurlOK(s)
    BY RequestFacts
  <2> QED BY <1>1, <1>2, <2>1, RequestFacts DEF CurlOK
<1>5. b \in Blocks /\ b \in DOMAIN heap /\ MemoryOK(heap) /\ b \in Block
  BY <1>4, HeldIsLive DEF Holders, IInv, HeapShape, Block
<1>6. b \notin HeldBy("idle")
  BY <1>4, <1>5 DEF IInv, HeldOnce, Holders
<1>7. CASE Len(idle) < PoolSize
  <2>1. idle' = Append(idle, b) /\ heap' = heap
    BY <1>2, <1>7 DEF R!release_cURL
  <2>2. idle' \in Seq(Blocks) /\ OnceIn(idle') /\ HeldBy("idle")' = HeldBy("idle") \cup {b}
    <3>1. Append(idle, b) \in Seq(Blocks)
      BY <1>5, RequestFacts, AppendProperties
    <3> QED BY <1>5, <1>6, <2>1, <3>1, RequestFacts, Appended
  <2>3. /\ RequestShape' /\ HeldBy("headers")' = HeldBy("headers")
        /\ HeldBy("request")' = HeldBy("request") \ {b}
    BY <1>1, <1>2, <1>3, <2>1, <2>2, RequestFacts, Ending
  <2>4. \A g \in Holders \ {"request", "idle"} : HeldBy(g)' = HeldBy(g)
    BY <2>3, RequestOthers DEF RequestHolders
  <2>5. \A c \in Blocks : Live(c)' <=> Live(c)
    BY <2>1 DEF Live
  <2>6. HeldOnce'
    BY <1>4, <2>2, <2>3, <2>4, <2>5, HandedOver DEF Holders
  <2>7. Spares(RequestHolders) /\ MemoryOK(heap') /\ heap'[Source] = heap[Source]
    BY <1>5, <2>1 DEF Spares
  <2> QED BY <2>3, <2>6, <2>7, OnlyRequests
<1>8. CASE ~(Len(idle) < PoolSize)
  <2>1. idle' = idle /\ heap' = Without(heap, b)
    BY <1>2, <1>8, RequestHeap DEF R!release_cURL
  <2>2. \A c \in DOMAIN heap : c # b => heap'[c] = heap[c]
    BY <1>5, <2>1, WithoutMemory
  <2>3. \A h \in {"headers", "request"} : \A c \in HeldBy(h) : c # b => heap'[c] = heap[c]
    BY <2>2, HeldIsLive DEF Holders
  <2>4. idle' \in Seq(Blocks) /\ OnceIn(idle') /\ HeldBy("idle")' = HeldBy("idle")
    BY <2>1, RequestFacts
  <2>5. /\ RequestShape' /\ HeldBy("headers")' = HeldBy("headers")
        /\ HeldBy("request")' = HeldBy("request") \ {b}
    <3>1. \A h \in {"headers", "request"} : \A c \in HeldBy(h) : c # calls[s].curl => heap'[c] = heap[c]
      BY <1>1, <2>3
    <3>2. call.pc # "waits" /\ answer' \in [Scripts -> 0 .. ResLength]
      BY <1>2, <1>3, RequestFacts
    <3> QED BY <1>1, <1>2, <1>3, <2>4, <3>1, <3>2, Ending
  <2>6. \A g \in Holders \ {"request"} : HeldBy(g)' = HeldBy(g)
    BY <2>4, <2>5, RequestOthers DEF RequestHolders
  <2>7. HeldOnce' /\ Spares({"request"}) /\ MemoryOK(heap') /\ heap'[Source] = heap[Source]
    BY <1>4, <2>1, <2>5, <2>6, Released DEF Holders
  <2> QED BY <2>5, <2>7, OnlyRequests, SparesMore DEF RequestHolders
<1> QED BY <1>7, <1>8

LEMMA RequestReturns ==
    ASSUME IInv, UNCHANGED <<poolVars, queueVars, cacheVars>>, NEW s \in Scripts, R!do_request(s)
    PROVE  IInv' /\ Stutters
<1>1. PICK call : call = R!NoCall
  OBVIOUS
<1>2. PICK n : n = IF calls[s].body < ResLength THEN calls[s].body ELSE ResLength
  OBVIOUS
<1>3. /\ calls[s].pc = "answered" /\ calls' = [calls EXCEPT ![s] = call]
      /\ answer' = answer \/ answer' = [answer EXCEPT ![s] = n]
      /\ UNCHANGED <<heap, idle, maps, wanted>>
  BY <1>1, <1>2 DEF R!do_request
<1>4. calls[s].curl = NULL /\ n \in 0 .. ResLength
  <2>1. calls[s] \in Call /\ calls[s].curl = NULL
    BY <1>3, RequestFacts
  <2>2. BodyLengths \cup {0} \subseteq Nat /\ ResLength \in Nat
    BY BoundsAssumption
  <2>3. calls[s].body \in BodyLengths \cup {0}
    BY <2>1 DEF Call
  <2>4. PICK y : y = calls[s].body
    OBVIOUS
  <2>5. y \in Nat /\ n = IF y < ResLength THEN y ELSE ResLength
    BY <1>2, <2>2, <2>3, <2>4
  <2>6. n \in 0 .. ResLength
    BY <2>2, <2>5
  <2> QED BY <2>1, <2>6
<1>5. call \in Call /\ call.pc = "none" /\ call.curl = NULL
  BY <1>1, RequestHeap DEF R!NoCall, Call, Block
<1>6. answer' \in [Scripts -> 0 .. ResLength]
  BY <1>3, <1>4, RequestFacts
<1>7. /\ RequestShape' /\ HeldBy("headers")' = HeldBy("headers")
      /\ HeldBy("request")' = HeldBy("request") \ {calls[s].curl}
  BY <1>3, <1>5, <1>6, RequestFacts, Ending
<1>8. \A g \in Holders : HeldBy(g)' = HeldBy(g)
  <2>1. NULL \notin HeldBy("request")
    BY RequestFacts DEF Pointers
  <2>2. HeldBy("idle")' = HeldBy("idle") /\ HeldBy("request")' = HeldBy("request")
    BY <1>3, <1>4, <1>7, <2>1, RequestFacts
  <2> QED BY <1>7, <2>2, RequestOthers DEF RequestHolders
<1>9. HeldOnce' /\ MemoryOK(heap') /\ heap'[Source] = heap[Source] /\ Spares(RequestHolders)
  BY <1>3, <1>8, NothingHeld
<1> QED BY <1>7, <1>9, OnlyRequests

LEMMA Shrinks ==
    ASSUME IInv, UNCHANGED <<poolVars, queueVars, cacheVars>>, R!autoscale
    PROVE  IInv' /\ Stutters
<1>1. PICK b : b = Head(idle)
  OBVIOUS
<1>2. /\ idle # << >> /\ heap' = Without(heap, b) /\ idle' = Tail(idle)
      /\ UNCHANGED <<maps, calls, answer, wanted>>
  BY <1>1, RequestHeap DEF R!autoscale
<1>3. /\ b \in HeldBy("idle") /\ idle' \in Seq(Blocks) /\ OnceIn(idle')
      /\ HeldBy("idle")' = HeldBy("idle") \ {b}
  BY <1>1, <1>2, RequestFacts, FirstTaken
<1>4. CurlOf' = CurlOf /\ HeldBy("headers")' = HeldBy("headers") /\ HeldBy("request")' = HeldBy("request")
  <2>1. CurlOf' = CurlOf
    BY <1>2 DEF CurlOf
  <2> QED BY <1>2, <2>1, RequestFacts
<1>5. \A g \in Holders \ {"idle"} : HeldBy(g)' = HeldBy(g)
  BY <1>4, RequestOthers DEF RequestHolders
<1>6. HeldOnce' /\ Spares({"idle"}) /\ MemoryOK(heap') /\ heap'[Source] = heap[Source]
  BY <1>2, <1>3, <1>5, Released DEF Holders
<1>7. \A t \in Scripts : MapOK(t)' /\ CurlOK(t)'
  <2>1. \A h \in {"headers", "request"} : \A c \in HeldBy(h) : heap'[c] = heap[c]
    BY <1>6 DEF Spares, Holders
  <2> QED BY <1>2, <2>1, RequestFacts, ScriptKept
<1>8. RequestShape'
  BY <1>2, <1>3, <1>4, <1>7, RequestFacts, ShapeNext
<1> QED BY <1>6, <1>8, OnlyRequests, SparesMore DEF RequestHolders

LEMMA RequestSteps ==
    ASSUME IInv, UNCHANGED <<poolVars, queueVars, cacheVars>>, R!RequestsNext(Blocked)
    PROVE  IInv' /\ Stutters
<1>1. CASE \E s \in Scripts :
              /\ ~Blocked(s)
              /\ \/ R!ssmap_new(s) \/ R!ssmap_free(s)
                 \/ \E name \in Names : R!ssmap_get(s, name) \/ \E text \in Values : R!ssmap_set(s, name, text)
                 \/ R!doRequestTest(s)
                 \/ \E verb \in Verbs, debug \in BOOLEAN : R!doRequest(s, verb, debug)
  <2>1. PICK s \in Scripts :
              /\ ~Blocked(s)
              /\ \/ R!ssmap_new(s) \/ R!ssmap_free(s)
                 \/ \E name \in Names : R!ssmap_get(s, name) \/ \E text \in Values : R!ssmap_set(s, name, text)
                 \/ R!doRequestTest(s)
                 \/ \E verb \in Verbs, debug \in BOOLEAN : R!doRequest(s, verb, debug)
    BY <1>1
  <2>2. calls[s].pc = "none"
    BY <2>1 DEF Blocked, R!Asks
  <2>3. CASE \/ R!doRequestTest(s)
             \/ \E verb \in Verbs, debug \in BOOLEAN : R!doRequest(s, verb, debug)
    BY <2>2, <2>3, RequestStarts DEF R!doRequest, R!doRequestTest
  <2> QED BY <2>1, <2>2, <2>3, HeadersMade, HeadersFreed, HeaderRead, HeaderSet
<1>2. CASE \E s \in Scripts : R!do_request(s) \/ \E body \in BodyLengths : R!answered(s, body)
  BY <1>2, RequestReturns, RequestAnswered
<1>3. CASE R!autoscale
  BY <1>3, Shrinks
<1> QED BY <1>1, <1>2, <1>3 DEF R!RequestsNext

-----------------------------------------------------------------------------
(* Nobody holds anything at first, and every step keeps the invariant.       *)
LEMMA Initially == Init => IInv
<1> SUFFICES ASSUME Init PROVE IInv
  OBVIOUS
<1>1. PICK p \in Programs, t \in Texts : heap = NewHeap(p.blocks, t)
  BY DEF Init
<1>2. p.blocks \subseteq Blocks
  BY ProgramsAssumption
<1>3. /\ DOMAIN heap = p.blocks \cup {Source}
      /\ heap[Source] = [live |-> TRUE, what |-> Text(t)]
      /\ \A b \in p.blocks : heap[b] = [live |-> FALSE, what |-> << >>]
  BY <1>1, <1>2, BlockNumbers DEF NewHeap, Freed
<1>4. /\ heap[Source].live /\ heap[Source].what = Text(t)
      /\ \A b \in p.blocks : ~heap[b].live /\ heap[b].live \in BOOLEAN /\ heap[b] = [live |-> heap[b].live, what |-> heap[b].what]
  <2>1. heap[Source].live /\ heap[Source].what = Text(t)
    BY <1>3
  <2>2. ASSUME NEW b \in p.blocks
        PROVE  ~heap[b].live /\ heap[b].live \in BOOLEAN /\ heap[b] = [live |-> heap[b].live, what |-> heap[b].what]
    <3>1. heap[b] = [live |-> FALSE, what |-> << >>]
      BY <1>3
    <3>2. heap[b].live = FALSE /\ heap[b].what = << >>
      BY <3>1
    <3> QED BY <3>1, <3>2
  <2> QED BY <2>1, <2>2
<1>5. HeapShape
  <2>1. heap[Source] = [live |-> heap[Source].live, what |-> heap[Source].what] /\ heap[Source].live \in BOOLEAN
    BY <1>3
  <2> QED BY <1>2, <1>3, <1>4, <2>1 DEF HeapShape, MemoryOK, IsText
<1>6. \A b \in Blocks : ~Live(b)
  BY <1>3, <1>4, BlockNumbers DEF Live
<1>7. /\ jobs = [c \in Calls |-> NoJob] /\ kept = {} /\ leaked = {}
      /\ queue = << >> /\ taken = NULL /\ output \in Texts
      /\ nextKey = 0 /\ cache = [k \in 0 .. MaxKeys - 1 |-> NULL]
      /\ mine = [s \in Scripts |-> MaxKeys] /\ held = [s \in Scripts |-> [at |-> NULL, text |-> "none"]]
      /\ idle = << >> /\ maps = [s \in Scripts |-> NULL] /\ calls = [s \in Scripts |-> R!NoCall]
      /\ answer = [s \in Scripts |-> 0] /\ wanted = [s \in Scripts |-> {}]
  BY QueueHeap, CacheHeap, RequestHeap
     DEF Init, PoolInit, Q!QueueInit, C!CacheInit, R!RequestsInit
<1>8. NoJob \in Job /\ JobOK(NoJob) /\ NoJob.arg = NULL /\ OwnedResult(NoJob) = NULL
  BY DEF NoJob, Job, JobOK, OwnedResult, Block
<1>9. \A D : /\ Distinct([x \in D |-> NULL]) /\ Pointers([x \in D |-> NULL]) = {}
  BY DEF Distinct, Pointers
<1>10. ArgumentOf = [c \in Calls |-> NULL] /\ ResultOf = [c \in Calls |-> NULL]
  BY <1>7, <1>8 DEF ArgumentOf, ResultOf
<1>11. PoolShape
  BY <1>7, <1>8, <1>9, <1>10 DEF PoolShape
<1>12. << >> \in Seq(Blocks) /\ Items(<< >>) = {} /\ OnceIn(<< >>)
  BY DEF Items, OnceIn
<1>13. NULL \in Block
  BY DEF Block
<1>14. Q!Buffers = << >>
  BY <1>7, <1>12, <1>13, BuffersTyped
<1>15. QueueShape
  BY <1>7, <1>12, <1>13, <1>14 DEF QueueShape
<1>16. CacheShape
  <2>1. nextKey \in 0 .. MaxKeys /\ MaxKeys \in 0 .. MaxKeys
    BY <1>7
  <2>2. [at |-> NULL, text |-> "none"] \in [at : Block, text : Texts \cup {"none"}]
    BY <1>13
  <2>3. \A s \in Scripts : held[s].at = NULL /\ mine[s] = C!NoKey
    BY <1>7, CacheHeap
  <2>4. Distinct(cache) /\ Pointers(cache) = {}
    BY <1>7, <1>9
  <2> QED BY <1>7, <1>13, <2>1, <2>2, <2>3, <2>4 DEF CacheShape
<1>17. R!NoCall \in Call /\ R!NoCall.pc = "none" /\ R!NoCall.curl = NULL
  BY <1>13, RequestHeap DEF R!NoCall, Call
<1>18. CurlOf = [s \in Scripts |-> NULL]
  BY <1>7, <1>17 DEF CurlOf
<1>19. RequestShape
  <2>1. \A s \in Scripts : MapOK(s) /\ CurlOK(s)
    BY <1>7, <1>17 DEF MapOK, CurlOK
  <2>2. 0 \in 0 .. ResLength
    OBVIOUS
  <2>3. \A s \in Scripts : calls[s].curl = NULL
    BY <1>7, <1>17
  <2>4. Distinct(maps) /\ Distinct(CurlOf)
    BY <1>7, <1>9, <1>18
  <2> QED BY <1>7, <1>12, <1>13, <1>17, <2>1, <2>2, <2>3, <2>4 DEF RequestShape
<1>20. \A h \in Holders : HeldBy(h) = {}
  BY <1>7, <1>9, <1>10, <1>12, <1>14, <1>18, HeldByCases DEF Holders
<1>21. HeldOnce
  BY <1>6, <1>20 DEF HeldOnce
<1> QED BY <1>5, <1>11, <1>15, <1>16, <1>19, <1>21 DEF IInv

LEMMA AllStay == IInv /\ UNCHANGED vars => IInv' /\ Stutters
<1> SUFFICES ASSUME IInv, UNCHANGED vars PROVE IInv' /\ Stutters
  OBVIOUS
<1>1. UNCHANGED <<heap, queueVars, cacheVars, requestVars, poolVars>>
  BY DEF vars, queueVars, cacheVars, requestVars, poolVars
<1>2. IInv'
  BY <1>1, PoolSwitched DEF poolVars
<1>3. Stutters
  BY <1>1 DEF Stutters, queueVars, Q!Buffers
<1> QED BY <1>2, <1>3

LEMMA StepsKeep == IInv /\ [Next]_vars => IInv'
<1> SUFFICES ASSUME IInv, [Next]_vars PROVE IInv'
  OBVIOUS
<1>1. CASE PoolNext(Blocked) /\ UNCHANGED <<queueVars, cacheVars, requestVars>>
  BY <1>1, PoolSteps
<1>2. CASE Q!QueueNext /\ UNCHANGED <<poolVars, cacheVars, requestVars>>
  BY <1>2, QueueSteps
<1>3. CASE C!CacheNext(Blocked) /\ UNCHANGED <<poolVars, queueVars, requestVars>>
  BY <1>3, CacheSteps
<1>4. CASE R!RequestsNext(Blocked) /\ UNCHANGED <<poolVars, queueVars, cacheVars>>
  BY <1>4, RequestSteps
<1>5. CASE UNCHANGED vars
  BY <1>5, AllStay
<1> QED BY <1>1, <1>2, <1>3, <1>4, <1>5 DEF Next

THEOREM Invariance == Spec => []IInv
<1> QED BY Initially, StepsKeep, PTL DEF Spec

-----------------------------------------------------------------------------
(* Where a block lies: nowhere if it is not held, in one place otherwise.    *)
LEMMA OnePlace ==
    ASSUME NEW f, Distinct(f), NEW b \in Blocks
    PROVE  IF b \in Pointers(f) THEN \E x \in DOMAIN f : f[x] = b /\ \A y \in DOMAIN f : f[y] = b => y = x
           ELSE \A x \in DOMAIN f : f[x] # b
<1>1. b # NULL
  BY BlockNumbers
<1>2. CASE b \notin Pointers(f)
  BY <1>1, <1>2 DEF Pointers
<1>3. CASE b \in Pointers(f)
  <2>1. PICK x \in DOMAIN f : f[x] = b
    BY <1>3 DEF Pointers
  <2>2. \A y \in DOMAIN f : f[y] = b => y = x
    BY <1>1, <2>1 DEF Distinct
  <2> QED BY <1>3, <2>1, <2>2
<1> QED BY <1>2, <1>3

LEMMA OneIndex ==
    ASSUME NEW q \in Seq(Blocks), OnceIn(q), NEW b
    PROVE  IF b \in Items(q) THEN \E i \in DOMAIN q : q[i] = b /\ \A j \in DOMAIN q : q[j] = b => j = i
           ELSE \A i \in DOMAIN q : q[i] # b
<1>1. DOMAIN q = 1 .. Len(q)
  OBVIOUS
<1>2. CASE b \notin Items(q)
  BY <1>1, <1>2 DEF Items
<1>3. CASE b \in Items(q)
  <2>1. PICK i \in DOMAIN q : q[i] = b
    BY <1>1, <1>3 DEF Items
  <2>2. \A j \in DOMAIN q : q[j] = b => j = i
    BY <1>1, <2>1 DEF OnceIn
  <2> QED BY <1>3, <2>1, <2>2
<1> QED BY <1>2, <1>3

(* The places where a call, a script, ... is the owner.                      *)
JobPlaces(b) == {x \in Calls : Owns(jobs[x], b)}
KeptPlaces(b) == {b} \cap kept
QueuePlaces(b) == {j \in DOMAIN Q!Buffers : Q!Buffers[j] = b}
CachePlaces(b) == {x \in DOMAIN cache : cache[x] = b}
MapPlaces(b) == {x \in Scripts : maps[x] = b}
CurlPlaces(b) == {x \in Scripts : calls[x].curl = b}
IdlePlaces(b) == {j \in DOMAIN idle : idle[j] = b}

Tagged(tag, S) == {<<tag, x>> : x \in S}

LEMMA OwnersAre ==
    ASSUME NEW b
    PROVE  Owners(b) = Tagged("job", JobPlaces(b)) \cup (IF KeptPlaces(b) = {} THEN {} ELSE {<<"kept", 0>>})
                          \cup Tagged("queue", QueuePlaces(b)) \cup Tagged("cache", CachePlaces(b))
                          \cup Tagged("headers", MapPlaces(b)) \cup Tagged("request", CurlPlaces(b))
                          \cup Tagged("idle", IdlePlaces(b))
<1>1. {<<"kept", 0>> : x \in {b} \cap kept} = IF KeptPlaces(b) = {} THEN {} ELSE {<<"kept", 0>>}
  BY DEF KeptPlaces
<1> QED BY <1>1 DEF Owners, Tagged, JobPlaces, QueuePlaces, CachePlaces, MapPlaces, CurlPlaces, IdlePlaces

LEMMA TaggedOne == /\ \A tag : Tagged(tag, {}) = {}
                   /\ \A tag, x : Tagged(tag, {x}) = {<<tag, x>>}
BY DEF Tagged

LEMMA JobPlace ==
    ASSUME IInv, NEW b \in Blocks
    PROVE  /\ b \notin HeldBy("argument") /\ b \notin HeldBy("result") => JobPlaces(b) = {}
           /\ b \in HeldBy("argument") \/ b \in HeldBy("result") => \E c : JobPlaces(b) = {c}
<1>1. /\ DOMAIN ArgumentOf = Calls /\ DOMAIN ResultOf = Calls
      /\ Distinct(ArgumentOf) /\ Distinct(ResultOf)
  BY DEF IInv, PoolShape, ArgumentOf, ResultOf
<1>2. PICK A : A = {c \in Calls : ArgumentOf[c] = b}
  OBVIOUS
<1>3. PICK R0 : R0 = {c \in Calls : ResultOf[c] = b}
  OBVIOUS
<1>4. JobPlaces(b) = A \cup R0
  <2>1. b # NULL
    BY BlockNumbers
  <2>2. \A c \in Calls : Owns(jobs[c], b) <=> jobs[c].arg = b \/ OwnedResult(jobs[c]) = b
    BY <2>1 DEF Owns, OwnedResult
  <2>3. \A c \in Calls : ArgumentOf[c] = jobs[c].arg /\ ResultOf[c] = OwnedResult(jobs[c])
    BY DEF ArgumentOf, ResultOf
  <2> QED BY <1>2, <1>3, <2>2, <2>3 DEF JobPlaces
<1>5. /\ b \notin HeldBy("argument") => A = {}
      /\ b \in HeldBy("argument") => \E c : A = {c}
  <2>1. IF b \in Pointers(ArgumentOf)
        THEN \E x \in DOMAIN ArgumentOf : ArgumentOf[x] = b /\ \A y \in DOMAIN ArgumentOf : ArgumentOf[y] = b => y = x
        ELSE \A x \in DOMAIN ArgumentOf : ArgumentOf[x] # b
    BY <1>1, OnePlace
  <2>2. b \notin HeldBy("argument") => A = {}
    BY <1>1, <1>2, <2>1, HeldByCases
  <2>3. ASSUME b \in HeldBy("argument") PROVE \E c : A = {c}
    <3>1. PICK x \in DOMAIN ArgumentOf : ArgumentOf[x] = b /\ \A y \in DOMAIN ArgumentOf : ArgumentOf[y] = b => y = x
      BY <2>1, <2>3, HeldByCases
    <3>2. A = {x}
      BY <1>1, <1>2, <3>1
    <3> QED BY <3>2
  <2> QED BY <2>2, <2>3
<1>6. /\ b \notin HeldBy("result") => R0 = {}
      /\ b \in HeldBy("result") => \E c : R0 = {c}
  <2>1. IF b \in Pointers(ResultOf)
        THEN \E x \in DOMAIN ResultOf : ResultOf[x] = b /\ \A y \in DOMAIN ResultOf : ResultOf[y] = b => y = x
        ELSE \A x \in DOMAIN ResultOf : ResultOf[x] # b
    BY <1>1, OnePlace
  <2>2. b \notin HeldBy("result") => R0 = {}
    BY <1>1, <1>3, <2>1, HeldByCases
  <2>3. ASSUME b \in HeldBy("result") PROVE \E c : R0 = {c}
    <3>1. PICK x \in DOMAIN ResultOf : ResultOf[x] = b /\ \A y \in DOMAIN ResultOf : ResultOf[y] = b => y = x
      BY <2>1, <2>3, HeldByCases
    <3>2. R0 = {x}
      BY <1>1, <1>3, <3>1
    <3> QED BY <3>2
  <2> QED BY <2>2, <2>3
<1>7. ~(b \in HeldBy("argument") /\ b \in HeldBy("result"))
  BY DEF IInv, HeldOnce, Holders
<1> QED BY <1>4, <1>5, <1>6, <1>7

LEMMA OtherPlaces ==
    ASSUME IInv, NEW b \in Blocks
    PROVE  /\ KeptPlaces(b) = IF b \in HeldBy("kept") THEN {b} ELSE {}
           /\ IF b \in HeldBy("queue") THEN \E x : QueuePlaces(b) = {x} ELSE QueuePlaces(b) = {}
           /\ IF b \in HeldBy("cache") THEN \E x : CachePlaces(b) = {x} ELSE CachePlaces(b) = {}
           /\ IF b \in HeldBy("headers") THEN \E x : MapPlaces(b) = {x} ELSE MapPlaces(b) = {}
           /\ IF b \in HeldBy("request") THEN \E x : CurlPlaces(b) = {x} ELSE CurlPlaces(b) = {}
           /\ IF b \in HeldBy("idle") THEN \E x : IdlePlaces(b) = {x} ELSE IdlePlaces(b) = {}
<1>1. KeptPlaces(b) = IF b \in HeldBy("kept") THEN {b} ELSE {}
  BY HeldByCases DEF KeptPlaces
<1>2. IF b \in HeldBy("queue") THEN \E x : QueuePlaces(b) = {x} ELSE QueuePlaces(b) = {}
  <2>1. PICK q : q = Q!Buffers
    OBVIOUS
  <2>2. q \in Seq(Blocks) /\ OnceIn(q) /\ HeldBy("queue") = Items(q)
    BY <2>1, QueueFacts
  <2>3. \A x : x \in QueuePlaces(b) <=> x \in DOMAIN q /\ q[x] = b
    BY <2>1 DEF QueuePlaces
  <2>4. IF b \in Items(q) THEN \E x \in DOMAIN q : q[x] = b /\ \A y \in DOMAIN q : q[y] = b => y = x
        ELSE \A x \in DOMAIN q : q[x] # b
    BY <2>2, OneIndex
  <2>5. CASE b \notin HeldBy("queue")
    BY <2>3, <2>2, <2>4, <2>5
  <2>6. CASE b \in HeldBy("queue")
    <3>1. PICK x \in DOMAIN q : q[x] = b /\ \A y \in DOMAIN q : q[y] = b => y = x
      BY <2>2, <2>4, <2>6
    <3>2. QueuePlaces(b) = {x}
      BY <2>3, <3>1
    <3> QED BY <2>6, <3>2
  <2> QED BY <2>5, <2>6
<1>3. IF b \in HeldBy("cache") THEN \E x : CachePlaces(b) = {x} ELSE CachePlaces(b) = {}
  <2>1. \A x : x \in CachePlaces(b) <=> x \in DOMAIN cache /\ cache[x] = b
    BY DEF CachePlaces
  <2>2. Distinct(cache) /\ HeldBy("cache") = Pointers(cache)
    BY CacheFacts
  <2>4. IF b \in Pointers(cache) THEN \E x \in DOMAIN cache : cache[x] = b /\ \A y \in DOMAIN cache : cache[y] = b => y = x
        ELSE \A x \in DOMAIN cache : cache[x] # b
    BY <2>2, OnePlace
  <2>5. CASE b \notin HeldBy("cache")
    BY <2>1, <2>2, <2>4, <2>5
  <2>6. CASE b \in HeldBy("cache")
    <3>1. PICK x \in DOMAIN cache : cache[x] = b /\ \A y \in DOMAIN cache : cache[y] = b => y = x
      BY <2>2, <2>4, <2>6
    <3>2. CachePlaces(b) = {x}
      BY <2>1, <3>1
    <3> QED BY <2>6, <3>2
  <2> QED BY <2>5, <2>6
<1>4. IF b \in HeldBy("headers") THEN \E x : MapPlaces(b) = {x} ELSE MapPlaces(b) = {}
  <2>1. \A x : x \in MapPlaces(b) <=> x \in DOMAIN maps /\ maps[x] = b
    BY RequestFacts DEF MapPlaces
  <2>2. Distinct(maps) /\ HeldBy("headers") = Pointers(maps)
    BY RequestFacts
  <2>4. IF b \in Pointers(maps) THEN \E x \in DOMAIN maps : maps[x] = b /\ \A y \in DOMAIN maps : maps[y] = b => y = x
        ELSE \A x \in DOMAIN maps : maps[x] # b
    BY <2>2, OnePlace
  <2>5. CASE b \notin HeldBy("headers")
    BY <2>1, <2>2, <2>4, <2>5
  <2>6. CASE b \in HeldBy("headers")
    <3>1. PICK x \in DOMAIN maps : maps[x] = b /\ \A y \in DOMAIN maps : maps[y] = b => y = x
      BY <2>2, <2>4, <2>6
    <3>2. MapPlaces(b) = {x}
      BY <2>1, <3>1
    <3> QED BY <2>6, <3>2
  <2> QED BY <2>5, <2>6
<1>5. IF b \in HeldBy("request") THEN \E x : CurlPlaces(b) = {x} ELSE CurlPlaces(b) = {}
  <2>1. \A x : x \in CurlPlaces(b) <=> x \in DOMAIN CurlOf /\ CurlOf[x] = b
    BY DEF CurlPlaces, CurlOf
  <2>2. Distinct(CurlOf) /\ HeldBy("request") = Pointers(CurlOf)
    BY RequestFacts
  <2>4. IF b \in Pointers(CurlOf) THEN \E x \in DOMAIN CurlOf : CurlOf[x] = b /\ \A y \in DOMAIN CurlOf : CurlOf[y] = b => y = x
        ELSE \A x \in DOMAIN CurlOf : CurlOf[x] # b
    BY <2>2, OnePlace
  <2>5. CASE b \notin HeldBy("request")
    BY <2>1, <2>2, <2>4, <2>5
  <2>6. CASE b \in HeldBy("request")
    <3>1. PICK x \in DOMAIN CurlOf : CurlOf[x] = b /\ \A y \in DOMAIN CurlOf : CurlOf[y] = b => y = x
      BY <2>2, <2>4, <2>6
    <3>2. CurlPlaces(b) = {x}
      BY <2>1, <3>1
    <3> QED BY <2>6, <3>2
  <2> QED BY <2>5, <2>6
<1>6. IF b \in HeldBy("idle") THEN \E x : IdlePlaces(b) = {x} ELSE IdlePlaces(b) = {}
  <2>1. \A x : x \in IdlePlaces(b) <=> x \in DOMAIN idle /\ idle[x] = b
    BY DEF IdlePlaces
  <2>2. idle \in Seq(Blocks) /\ OnceIn(idle) /\ HeldBy("idle") = Items(idle)
    BY RequestFacts
  <2>4. IF b \in Items(idle) THEN \E x \in DOMAIN idle : idle[x] = b /\ \A y \in DOMAIN idle : idle[y] = b => y = x
        ELSE \A x \in DOMAIN idle : idle[x] # b
    BY <2>2, OneIndex
  <2>5. CASE b \notin HeldBy("idle")
    BY <2>1, <2>2, <2>4, <2>5
  <2>6. CASE b \in HeldBy("idle")
    <3>1. PICK x \in DOMAIN idle : idle[x] = b /\ \A y \in DOMAIN idle : idle[y] = b => y = x
      BY <2>2, <2>4, <2>6
    <3>2. IdlePlaces(b) = {x}
      BY <2>1, <3>1
    <3> QED BY <2>6, <3>2
  <2> QED BY <2>5, <2>6
<1> QED BY <1>1, <1>2, <1>3, <1>4, <1>5, <1>6

LEMMA OneOwner == IInv => OwnedOnce
<1> SUFFICES ASSUME IInv, NEW b \in Blocks \cap DOMAIN heap
             PROVE  Cardinality(Owners(b)) = IF heap[b].live /\ b \notin leaked THEN 1 ELSE 0
  <2>1. IInv => \A b \in leaked : heap[b].live
    BY HeldIsLive, HeldByCases DEF Holders
  <2> QED BY <2>1 DEF OwnedOnce
<1>1. CASE ~(heap[b].live /\ b \notin leaked)
  <2>1. \A h \in Holders \ {"leaked"} : b \notin HeldBy(h)
    BY <1>1, HeldByCases DEF IInv, HeldOnce, Live, Holders
  <2>2. /\ JobPlaces(b) = {} /\ KeptPlaces(b) = {} /\ QueuePlaces(b) = {} /\ CachePlaces(b) = {}
        /\ MapPlaces(b) = {} /\ CurlPlaces(b) = {} /\ IdlePlaces(b) = {}
    BY <2>1, JobPlace, OtherPlaces DEF Holders
  <2>3. Owners(b) = {}
    BY <2>2, OwnersAre, TaggedOne
  <2> QED BY <1>1, <2>3, FS_EmptySet
<1>2. CASE heap[b].live /\ b \notin leaked
  <2>1. PICK h \in Holders \ {"leaked"} : b \in HeldBy(h)
    BY <1>2, HeldByCases DEF IInv, HeldOnce, Live
  <2>2. \A g \in Holders : g # h => b \notin HeldBy(g)
    BY <2>1 DEF IInv, HeldOnce
  <2>3. \E x : Owners(b) = {x}
    <3>1. CASE h \in {"argument", "result"}
      <4>1. /\ KeptPlaces(b) = {} /\ QueuePlaces(b) = {} /\ CachePlaces(b) = {}
            /\ MapPlaces(b) = {} /\ CurlPlaces(b) = {} /\ IdlePlaces(b) = {}
        BY <2>2, <3>1, OtherPlaces DEF Holders
      <4>2. PICK x : JobPlaces(b) = {x}
        BY <2>1, <3>1, JobPlace
      <4>3. Owners(b) = {<<"job", x>>}
        BY <4>1, <4>2, OwnersAre, TaggedOne
      <4> QED BY <4>3
    <3>2. CASE h \notin {"argument", "result"}
      <4>1. JobPlaces(b) = {}
        BY <2>2, <3>2, JobPlace DEF Holders
      <4>2. CASE h = "kept"
        <5>1. /\ KeptPlaces(b) # {} /\ QueuePlaces(b) = {} /\ CachePlaces(b) = {}
              /\ MapPlaces(b) = {} /\ CurlPlaces(b) = {} /\ IdlePlaces(b) = {}
          BY <2>1, <2>2, <4>2, OtherPlaces DEF Holders
        <5>2. Owners(b) = {<<"kept", 0>>}
          BY <4>1, <5>1, OwnersAre, TaggedOne
        <5> QED BY <5>2
      <4>3. CASE h = "queue"
        <5>1. /\ KeptPlaces(b) = {} /\ CachePlaces(b) = {}
              /\ MapPlaces(b) = {} /\ CurlPlaces(b) = {} /\ IdlePlaces(b) = {}
          BY <2>2, <4>3, OtherPlaces DEF Holders
        <5>2. PICK x : QueuePlaces(b) = {x}
          BY <2>1, <4>3, OtherPlaces
        <5>3. Owners(b) = {<<"queue", x>>}
          BY <4>1, <5>1, <5>2, OwnersAre, TaggedOne
        <5> QED BY <5>3
      <4>4. CASE h = "cache"
        <5>1. /\ KeptPlaces(b) = {} /\ QueuePlaces(b) = {}
              /\ MapPlaces(b) = {} /\ CurlPlaces(b) = {} /\ IdlePlaces(b) = {}
          BY <2>2, <4>4, OtherPlaces DEF Holders
        <5>2. PICK x : CachePlaces(b) = {x}
          BY <2>1, <4>4, OtherPlaces
        <5>3. Owners(b) = {<<"cache", x>>}
          BY <4>1, <5>1, <5>2, OwnersAre, TaggedOne
        <5> QED BY <5>3
      <4>5. CASE h = "headers"
        <5>1. /\ KeptPlaces(b) = {} /\ QueuePlaces(b) = {} /\ CachePlaces(b) = {}
              /\ CurlPlaces(b) = {} /\ IdlePlaces(b) = {}
          BY <2>2, <4>5, OtherPlaces DEF Holders
        <5>2. PICK x : MapPlaces(b) = {x}
          BY <2>1, <4>5, OtherPlaces
        <5>3. Owners(b) = {<<"headers", x>>}
          BY <4>1, <5>1, <5>2, OwnersAre, TaggedOne
        <5> QED BY <5>3
      <4>6. CASE h = "request"
        <5>1. /\ KeptPlaces(b) = {} /\ QueuePlaces(b) = {} /\ CachePlaces(b) = {}
              /\ MapPlaces(b) = {} /\ IdlePlaces(b) = {}
          BY <2>2, <4>6, OtherPlaces DEF Holders
        <5>2. PICK x : CurlPlaces(b) = {x}
          BY <2>1, <4>6, OtherPlaces
        <5>3. Owners(b) = {<<"request", x>>}
          BY <4>1, <5>1, <5>2, OwnersAre, TaggedOne
        <5> QED BY <5>3
      <4>7. CASE h = "idle"
        <5>1. /\ KeptPlaces(b) = {} /\ QueuePlaces(b) = {} /\ CachePlaces(b) = {}
              /\ MapPlaces(b) = {} /\ CurlPlaces(b) = {}
          BY <2>2, <4>7, OtherPlaces DEF Holders
        <5>2. PICK x : IdlePlaces(b) = {x}
          BY <2>1, <4>7, OtherPlaces
        <5>3. Owners(b) = {<<"idle", x>>}
          BY <4>1, <5>1, <5>2, OwnersAre, TaggedOne
        <5> QED BY <5>3
      <4> QED BY <3>2, <4>2, <4>3, <4>4, <4>5, <4>6, <4>7 DEF Holders
    <3> QED BY <3>1, <3>2
  <2> QED BY <1>2, <2>3, FS_Singleton
<1> QED BY <1>1, <1>2

LEMMA HeldStrings == IInv => PointersHold
<1> SUFFICES ASSUME IInv, NEW s \in Scripts, held[s].at # NULL
             PROVE  heap[held[s].at] = [live |-> TRUE, what |-> Text(held[s].text)]
  BY DEF PointersHold
<1>1. PICK b : b = held[s].at
  OBVIOUS
<1>2. b \in HeldBy("cache") /\ heap[b].what = Text(held[s].text)
  BY <1>1, CacheFacts
<1>3. b \in DOMAIN heap /\ heap[b].live /\ MemoryOK(heap)
  BY <1>2, HeldIsLive DEF Holders, IInv, HeapShape
<1>4. heap[b] = [live |-> heap[b].live, what |-> heap[b].what] /\ heap[b].live = TRUE
  BY <1>3 DEF MemoryOK
<1> QED BY <1>1, <1>2, <1>4

LEMMA Requested == IInv => OwnRequest
<1> SUFFICES ASSUME IInv PROVE OwnRequest
  OBVIOUS
<1>1. \A s \in Scripts : CurlOK(s) /\ answer[s] \in 0 .. ResLength
  BY RequestFacts
<1>2. \A s \in Scripts : answer[s] <= ResLength
  BY <1>1
<1> QED BY <1>1, <1>2 DEF OwnRequest, CurlOK, Sent

(* Every block that is allocated has one owner, who has yet to free it, but  *)
(* for the results that async_call_with_cb() drops without a callback: for   *)
(* any number of scripts, calls, keys and handles, nothing else that passes  *)
(* between scripts and the library is lost, and nothing is freed twice       *)
(* (libthread.cpp:107-157, 496-540, libmisc.cpp:391-429).                    *)
THEOREM EveryBlockIsOwned == Spec => []OwnedOnce
<1> QED BY Invariance, OneOwner, PTL

(* A pointer into the cache holds until its script sets or frees the string, *)
(* whatever the others do (libmisc.cpp:383-388).                             *)
THEOREM PointersStay == Spec => []PointersHold
<1> QED BY Invariance, HeldStrings, PTL

(* A request goes out with the headers that its script set, and with those   *)
(* of its verb, and with nothing that the handle carried before              *)
(* (cclient.cpp:41-49, 66-84, 228-241).                                      *)
THEOREM RequestsAreOwn == Spec => []OwnRequest
<1> QED BY Invariance, Requested, PTL

-----------------------------------------------------------------------------
(* The queue is a channel: the texts in the blocks under way.                *)
TextsOf(h, q) == [i \in DOMAIN q |-> h[q[i]].what.text]
Sending == TextsOf(heap, Q!Buffers)

LEMMA TextsAre ==
    ASSUME NEW h, NEW q \in Seq(Blocks), \A b \in Items(q) : \E t \in Texts : h[b].what = Text(t)
    PROVE  /\ TextsOf(h, q) \in Seq(Texts) /\ Len(TextsOf(h, q)) = Len(q)
           /\ \A i \in 1 .. Len(q) : TextsOf(h, q)[i] = h[q[i]].what.text
<1>1. PICK n : n = Len(q)
  OBVIOUS
<1>2. n \in Nat /\ DOMAIN q = 1 .. n
  BY <1>1
<1>3. \A i \in 1 .. n : h[q[i]].what.text \in Texts
  <2> SUFFICES ASSUME NEW i \in 1 .. n PROVE h[q[i]].what.text \in Texts
    OBVIOUS
  <2>1. PICK t \in Texts : h[q[i]].what = Text(t)
    BY <1>1 DEF Items
  <2>2. Text(t).text = t
    BY DEF Text
  <2> QED BY <2>1, <2>2
<1>4. PICK f : f = TextsOf(h, q)
  OBVIOUS
<1>5. f \in [1 .. n -> Texts] /\ \A i \in 1 .. n : f[i] = h[q[i]].what.text
  BY <1>2, <1>3, <1>4 DEF TextsOf
<1>6. f \in Seq(Texts)
  BY <1>2, <1>5, SeqDef
<1>7. Len(f) = n
  BY <1>2, <1>5, <1>6, LenProperties
<1> QED BY <1>1, <1>4, <1>5, <1>6, <1>7

LEMMA SendingFacts ==
    ASSUME IInv
    PROVE  /\ Q!Buffers \in Seq(Blocks)
           /\ \A b \in Items(Q!Buffers) : \E t \in Texts : heap[b].what = Text(t)
           /\ Sending \in Seq(Texts) /\ Len(Sending) = Len(Q!Buffers)
           /\ \A i \in 1 .. Len(Q!Buffers) : Sending[i] = heap[Q!Buffers[i]].what.text
<1>1. PICK q : q = Q!Buffers
  OBVIOUS
<1>2. q \in Seq(Blocks) /\ \A b \in Items(q) : \E t \in Texts : heap[b].what = Text(t)
  BY <1>1, QueueFacts DEF IsText
<1>3. /\ TextsOf(heap, q) \in Seq(Texts) /\ Len(TextsOf(heap, q)) = Len(q)
      /\ \A i \in 1 .. Len(q) : TextsOf(heap, q)[i] = heap[q[i]].what.text
  <2>1. PICK h : h = heap
    OBVIOUS
  <2> QED BY <1>2, <2>1, TextsAre
<1> QED BY <1>1, <1>2, <1>3 DEF Sending

LEMMA SendingNext ==
    ASSUME IInv'
    PROVE  /\ Q!Buffers' \in Seq(Blocks)
           /\ Sending' \in Seq(Texts) /\ Len(Sending') = Len(Q!Buffers')
           /\ \A i \in 1 .. Len(Q!Buffers') : Sending'[i] = heap'[Q!Buffers'[i]].what.text
<1>1. PICK q : q = Q!Buffers'
  OBVIOUS
<1>2. PICK h : h = heap'
  OBVIOUS
<1>3. q \in Seq(Blocks)
  <2>1. queue' \in Seq(Blocks) /\ taken' \in Block
    BY DEF IInv, QueueShape
  <2> QED BY <1>1, <2>1, QueueHeap, UnderWayIs
<1>4. \A b \in Items(q) : \E t \in Texts : h[b].what = Text(t)
  <2>1. \A b \in Items(Q!Buffers') : IsText(b)'
    BY DEF IInv, QueueShape, Items
  <2> QED BY <1>1, <1>2, <2>1 DEF IsText
<1>5. /\ TextsOf(h, q) \in Seq(Texts) /\ Len(TextsOf(h, q)) = Len(q)
      /\ \A i \in 1 .. Len(q) : TextsOf(h, q)[i] = h[q[i]].what.text
  BY <1>3, <1>4, TextsAre
<1>6. Sending' = TextsOf(h, q)
  BY <1>1, <1>2 DEF Sending, TextsOf
<1> QED BY <1>1, <1>2, <1>3, <1>5, <1>6

LEMMA Accepts ==
    ASSUME IInv, IInv', Sends
    PROVE  \E t \in Texts : Sending' = Append(Sending, t) /\ output' = output
<1>1. PICK b \in Blocks, t \in Texts :
          /\ Q!Buffers' = Append(Q!Buffers, b) /\ heap'[b].what = Text(t) /\ output' = output
          /\ \A c \in Items(Q!Buffers) : heap'[c].what = heap[c].what
  BY DEF Sends
<1>2. PICK n : n = Len(Q!Buffers)
  OBVIOUS
<1>3. /\ n \in Nat /\ Len(Q!Buffers') = n + 1 /\ Q!Buffers'[n + 1] = b
      /\ \A i \in 1 .. n : Q!Buffers'[i] = Q!Buffers[i]
  BY <1>1, <1>2, SendingFacts, AppendProperties
<1>4. /\ Append(Sending, t) \in Seq(Texts) /\ Len(Append(Sending, t)) = n + 1
      /\ Append(Sending, t)[n + 1] = t /\ \A i \in 1 .. n : Append(Sending, t)[i] = Sending[i]
  BY <1>2, SendingFacts, AppendProperties
<1>5. \A i \in 1 .. n : heap'[Q!Buffers[i]].what = heap[Q!Buffers[i]].what
  BY <1>1, <1>2 DEF Items
<1>6. \A i \in 1 .. n + 1 : Sending'[i] = Append(Sending, t)[i]
  <2> SUFFICES ASSUME NEW i \in 1 .. n + 1 PROVE Sending'[i] = Append(Sending, t)[i]
    OBVIOUS
  <2>1. Sending'[i] = heap'[Q!Buffers'[i]].what.text
    BY <1>3, SendingNext
  <2>2. CASE i = n + 1
    <3>1. Sending'[i] = Text(t).text
      BY <1>1, <1>3, <2>1, <2>2
    <3> QED BY <1>4, <2>2, <3>1 DEF Text
  <2>3. CASE i \in 1 .. n
    <3>1. Sending'[i] = heap[Q!Buffers[i]].what.text
      BY <1>3, <1>5, <2>1, <2>3
    <3> QED BY <1>2, <1>4, <2>3, <3>1, SendingFacts
  <2>4. i = n + 1 \/ i \in 1 .. n
    BY <1>3
  <2> QED BY <2>2, <2>3, <2>4
<1>7. Sending' = Append(Sending, t)
  BY <1>3, <1>4, <1>6, SendingNext, SeqEqual
<1> QED BY <1>1, <1>7

LEMMA Delivers ==
    ASSUME IInv, IInv', Receives
    PROVE  Sending # << >> /\ output' = Head(Sending) /\ Sending' = Tail(Sending)
<1>1. /\ Q!Buffers # << >> /\ Q!Buffers' = Tail(Q!Buffers)
      /\ output' = heap[Head(Q!Buffers)].what.text
      /\ \A c \in Items(Tail(Q!Buffers)) : heap'[c].what = heap[c].what
  BY DEF Receives
<1>2. PICK n : n = Len(Q!Buffers) - 1
  OBVIOUS
<1>3. /\ n \in Nat /\ Len(Q!Buffers) = n + 1 /\ Head(Q!Buffers) = Q!Buffers[1] /\ Len(Q!Buffers') = n
      /\ \A i \in 1 .. n : Q!Buffers'[i] = Q!Buffers[i + 1]
  <2>1. Len(Q!Buffers) \in Nat \ {0}
    BY <1>1, SendingFacts, EmptySeq
  <2> QED BY <1>1, <1>2, <2>1, SendingFacts, HeadTailProperties
<1>4. Sending # << >>
  BY <1>3, SendingFacts
<1>5. /\ Tail(Sending) \in Seq(Texts) /\ Len(Tail(Sending)) = n /\ Head(Sending) = Sending[1]
      /\ \A i \in 1 .. n : Tail(Sending)[i] = Sending[i + 1]
  BY <1>3, <1>4, SendingFacts, HeadTailProperties
<1>6. output' = Head(Sending)
  <2>1. 1 \in 1 .. n + 1
    BY <1>3
  <2> QED BY <1>1, <1>3, <1>5, <2>1, SendingFacts
<1>7. \A i \in 1 .. n : Sending'[i] = Tail(Sending)[i]
  <2> SUFFICES ASSUME NEW i \in 1 .. n PROVE Sending'[i] = Tail(Sending)[i]
    OBVIOUS
  <2>1. Sending'[i] = heap'[Q!Buffers'[i]].what.text
    BY <1>3, SendingNext
  <2>2. heap'[Q!Buffers'[i]].what = heap[Q!Buffers'[i]].what
    BY <1>1, <1>3 DEF Items
  <2>3. i + 1 \in 1 .. n + 1
    BY <1>3
  <2>4. Sending[i + 1] = heap[Q!Buffers[i + 1]].what.text
    BY <1>3, <2>3, SendingFacts
  <2> QED BY <1>3, <1>5, <2>1, <2>2, <2>4
<1>8. Sending' = Tail(Sending)
  BY <1>3, <1>5, <1>7, SendingNext, SeqEqual
<1> QED BY <1>4, <1>6, <1>8

LEMMA SameTexts ==
    ASSUME IInv, IInv', Stutters
    PROVE  Sending' = Sending /\ output' = output
<1>1. /\ Q!Buffers' = Q!Buffers /\ output' = output
      /\ \A c \in Items(Q!Buffers) : heap'[c].what = heap[c].what
  BY DEF Stutters
<1>2. \A i \in 1 .. Len(Q!Buffers) : Sending'[i] = Sending[i]
  <2> SUFFICES ASSUME NEW i \in 1 .. Len(Q!Buffers) PROVE Sending'[i] = Sending[i]
    OBVIOUS
  <2>1. Sending'[i] = heap'[Q!Buffers[i]].what.text
    BY <1>1, SendingNext
  <2>2. Sending[i] = heap[Q!Buffers[i]].what.text
    BY SendingFacts
  <2>3. heap'[Q!Buffers[i]].what = heap[Q!Buffers[i]].what
    BY <1>1 DEF Items
  <2> QED BY <2>1, <2>2, <2>3
<1>3. Sending' = Sending
  BY <1>1, <1>2, SendingFacts, SendingNext, SeqEqual
<1> QED BY <1>1, <1>3

LEMMA ChannelSteps ==
    ASSUME IInv, [Next]_vars
    PROVE  Sends \/ Receives \/ Stutters
<1>1. CASE PoolNext(Blocked) /\ UNCHANGED <<queueVars, cacheVars, requestVars>>
  BY <1>1, PoolSteps
<1>2. CASE Q!QueueNext /\ UNCHANGED <<poolVars, cacheVars, requestVars>>
  BY <1>2, QueueSteps
<1>3. CASE C!CacheNext(Blocked) /\ UNCHANGED <<poolVars, queueVars, requestVars>>
  BY <1>3, CacheSteps
<1>4. CASE R!RequestsNext(Blocked) /\ UNCHANGED <<poolVars, queueVars, cacheVars>>
  BY <1>4, RequestSteps
<1>5. CASE UNCHANGED vars
  BY <1>5, AllStay
<1> QED BY <1>1, <1>2, <1>3, <1>4, <1>5 DEF Next

(* A queue of copies is a channel: what was accepted arrives once, in the    *)
(* order of sending and as it was when it was sent, whatever the sender does *)
(* with its memory and whoever else allocates and frees                      *)
(* (libthread.cpp:502-540).                                                  *)
THEOREM QueueIsChannel == Spec => ImplementsChannel
<1>1. Init => Messages!Init
  <2> SUFFICES ASSUME Init PROVE Messages!Init
    OBVIOUS
  <2>1. IInv
    BY Initially
  <2>2. Q!Buffers = << >> /\ output \in Texts
    <3>1. queue = << >> /\ taken = NULL /\ output \in Texts
      BY QueueHeap DEF Init, Q!QueueInit
    <3> QED BY <2>1, <3>1, QueueFacts, BuffersTyped
  <2>3. Len(Sending) = 0 /\ Sending \in Seq(Texts)
    BY <2>1, <2>2, SendingFacts
  <2>4. Sending = << >>
    BY <2>3
  <2> QED BY <2>2, <2>4 DEF Messages!Init, Sending, TextsOf
<1>2. IInv /\ IInv' /\ [Next]_vars => [Messages!Next]_<<Sending, output>>
  <2> SUFFICES ASSUME IInv, IInv', [Next]_vars PROVE [Messages!Next]_<<Sending, output>>
    OBVIOUS
  <2>1. CASE Sends
    <3>1. PICK t \in Texts : Sending' = Append(Sending, t) /\ output' = output
      BY <2>1, Accepts, SMTT(30)
    <3>2. Messages!Send(t)
      BY <3>1 DEF Messages!Send, Sending, TextsOf
    <3> QED BY <3>2 DEF Messages!Next
  <2>2. CASE Receives
    <3>1. Sending # << >> /\ output' = Head(Sending) /\ Sending' = Tail(Sending)
      BY <2>2, Delivers
    <3>2. Messages!Receive
      BY <3>1 DEF Messages!Receive, Sending, TextsOf
    <3> QED BY <3>2 DEF Messages!Next
  <2>3. CASE Stutters
    BY <2>3, SameTexts
  <2> QED BY <2>1, <2>2, <2>3, ChannelSteps
<1>3. IInv /\ IInv' /\ [Next]_vars =>
        [Messages!Next]_<<[i \in DOMAIN Q!Buffers |-> heap[Q!Buffers[i]].what.text], output>>
  BY <1>2 DEF Sending, TextsOf
<1> QED BY <1>1, <1>3, Invariance, PTL DEF Spec, ImplementsChannel, Messages!Spec
=============================================================================
