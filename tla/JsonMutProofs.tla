--------------------------- MODULE JsonMutProofs ---------------------------
(***************************************************************************)
(* For any number of documents and values and any strings, the lists of    *)
(* the mutable JSON documents stay linked: each container's is a circle of *)
(* its own members, which belong to its document and to no other list.     *)
(* And a removal finds the value that a lookup found before, and leaves    *)
(* none to find.                                                           *)
(***************************************************************************)
EXTENDS JsonMut, Integers, FiniteSetTheorems, SequenceTheorems, WellFoundedInduction, TLAPS

(* A heap of values. *)
IsValue(v) ==
    /\ v = [doc |-> v.doc, kind |-> v.kind, data |-> v.data,
            next |-> v.next, last |-> v.last, len |-> v.len]
    /\ v.len \in Nat
IsHeap(H) ==
    /\ Len(H) \in Nat /\ H = [n \in 1 .. Len(H) |-> H[n]]
    /\ \A n \in 1 .. Len(H) : IsValue(H[n])

(* s are the members of container c: distinct, each linked to the next one   *)
(* and the last one to the first; the container points at the last member,   *)
(* or the last key.                                                          *)
After(i, n) == IF i = n THEN 1 ELSE i + 1
LastAt(v, n) == IF v.kind = "obj" THEN n - 1 ELSE n
Circle(H, c, s) ==
    /\ s \in Seq(1 .. Len(H)) /\ Len(s) = Width(H[c])
    /\ \A i, j \in 1 .. Len(s) : s[i] = s[j] => i = j
    /\ \A i \in 1 .. Len(s) : H[s[i]].next = s[After(i, Len(s))]
    /\ Len(s) > 0 => H[c].last = s[LastAt(H[c], Len(s))]

(* s is the list of container c: its members are of its document, the keys   *)
(* of an object are strings, and by the ranks r none holds the container.    *)
List(H, c, s, r) ==
    /\ IsContainer(H[c]) /\ Circle(H, c, s)
    /\ \A i \in 1 .. Len(s) :
          /\ H[s[i]].doc = H[c].doc
          /\ H[c].kind = "obj" /\ i % 2 = 1 => H[s[i]].kind = "str"
          /\ r[s[i]] < r[c]

(* The containers C have the lists L, and no value is in two of them.        *)
Apart(s, t) == \A i \in 1 .. Len(s), j \in 1 .. Len(t) : s[i] # t[j]
Links(H, C, L, r) ==
    /\ IsHeap(H) /\ C \subseteq 1 .. Len(H) /\ r \in [1 .. Len(H) -> Int]
    /\ \A c \in C : List(H, c, L[c], r)
    /\ \A c, e \in C : c # e => Apart(L[c], L[e])

(* What a step must leave alone for the containers D to keep their lists.    *)
Undisturbed(H, G, D, L, r) ==
    \A c \in D :
        /\ G[c].kind = H[c].kind /\ G[c].doc = H[c].doc
        /\ G[c].len = H[c].len /\ G[c].last = H[c].last
        /\ \A i \in 1 .. Len(L[c]) :
              LET m == L[c][i]
              IN  /\ G[m].kind = H[m].kind /\ G[m].doc = H[m].doc
                  /\ G[m].next = H[m].next /\ r[m] < r[c]

-----------------------------------------------------------------------------
(* A set of naturals with a member has a least one.                         *)
LEMMA Smallest ==
    ASSUME NEW R \in SUBSET Nat, R # {}
    PROVE  \E n \in R : \A c \in R : n <= c
<1>1. PICK n \in R : \A m \in Nat : (<<m, n>> \in OpToRel(<, Nat)) => m \notin R
  BY WFMin, NatLessThanWellFounded
<1>2. \A m \in R : ~(m < n)
  BY <1>1 DEF OpToRel
<1> QED BY <1>2

(* An object has two values for each of its pairs, an array one for each of *)
(* its elements.                                                            *)
LEMMA WidthFacts ==
    ASSUME NEW v, v.len \in Nat
    PROVE  /\ Width(v) \in Nat /\ Width(v) = 0 <=> v.len = 0
           /\ v.kind = "obj" => Width(v) = 2 * v.len
           /\ v.kind # "obj" => Width(v) = v.len
BY DEF Width

(* A circle of members is what following the pointers finds.                 *)
LEMMA MembersAre ==
    ASSUME NEW H, IsHeap(H), NEW c \in 1 .. Len(H), NEW s, Circle(H, c, s)
    PROVE  Members(H, c) = s
<1> DEFINE n == Width(H[c])
           First == IF H[c].kind = "obj" THEN H[H[H[c].last].next].next ELSE H[H[c].last].next
           At[i \in 1 .. n] == IF i > 1 THEN H[At[i - 1]].next ELSE First
<1>1. /\ s \in Seq(1 .. Len(H)) /\ Len(s) = n /\ n \in Nat
      /\ \A i \in 1 .. n : H[s[i]].next = s[After(i, n)]
      /\ n > 0 => H[c].last = s[LastAt(H[c], n)]
  BY WidthFacts DEF Circle, IsHeap, IsValue
<1>2. n > 0 => First = s[1]
  <2> SUFFICES ASSUME n > 0 PROVE First = s[1]
    OBVIOUS
  <2>1. CASE H[c].kind = "obj"
    <3>1. n >= 2
      BY <2>1, WidthFacts DEF IsHeap, IsValue
    <3>2. n - 1 \in 1 .. n /\ n \in 1 .. n /\ After(n - 1, n) = n /\ After(n, n) = 1
      BY <3>1, <1>1 DEF After
    <3>3. H[c].last = s[n - 1]
      BY <1>1, <2>1 DEF LastAt
    <3> HIDE DEF n
    <3>4. H[s[n - 1]].next = s[n] /\ H[s[n]].next = s[1]
      BY <1>1, <3>2
    <3> QED BY <2>1, <3>3, <3>4
  <2>2. CASE H[c].kind # "obj"
    <3>1. n \in 1 .. n /\ After(n, n) = 1
      BY <1>1 DEF After
    <3>2. H[c].last = s[n]
      BY <1>1, <2>2 DEF LastAt
    <3> HIDE DEF n
    <3>3. H[s[n]].next = s[1]
      BY <1>1, <3>1
    <3> QED BY <2>2, <3>2, <3>3
  <2> QED BY <2>1, <2>2
<1>3. \A i \in 1 .. n : s[i] = IF i > 1 THEN H[s[i - 1]].next ELSE First
  <2> SUFFICES ASSUME NEW i \in 1 .. n PROVE s[i] = IF i > 1 THEN H[s[i - 1]].next ELSE First
    OBVIOUS
  <2> HIDE DEF n, First
  <2>1. CASE i > 1
    <3>1. i - 1 \in 1 .. n /\ After(i - 1, n) = i
      BY <1>1, <2>1, SMTT(30) DEF After
    <3> QED BY <1>1, <2>1, <3>1
  <2>2. CASE ~(i > 1)
    BY <1>1, <1>2, <2>2
  <2> QED BY <2>1, <2>2
<1> HIDE DEF First
<1>4. s = [i \in 1 .. n |-> IF i > 1 THEN H[s[i - 1]].next ELSE First]
  <2>1. s = [i \in 1 .. n |-> s[i]]
    BY <1>1
  <2> QED BY <2>1, <1>3
<1>5. At = [i \in 1 .. n |-> IF i > 1 THEN H[At[i - 1]].next ELSE First]
  BY <1>4
<1>6. Members(H, c) = At \o << >>
  BY DEF Members, First
<1> HIDE DEF At, n
<1>7. \A i \in 1 .. n : At[i] = s[i]
  <2> SUFFICES ASSUME NEW i0 \in 1 .. n, At[i0] # s[i0] PROVE FALSE
    OBVIOUS
  <2> DEFINE R == {i \in 1 .. n : At[i] # s[i]}
  <2>1. R \in SUBSET Nat /\ R # {}
    BY <1>1
  <2>2. PICK i \in R : \A j \in R : i <= j
    BY <2>1, Smallest
  <2>3. i \in 1 .. n /\ At[i] # s[i]
    OBVIOUS
  <2>4. At[i] = IF i > 1 THEN H[At[i - 1]].next ELSE First
    BY <1>5, <2>3
  <2>5. CASE i > 1
    <3>1. i - 1 \in 1 .. n /\ i - 1 < i
      BY <1>1, <2>3, <2>5
    <3>2. i - 1 \notin R
      BY <2>2, <3>1, <1>1, <2>1
    <3> QED BY <3>1, <3>2, <2>3, <2>4, <2>5, <1>3
  <2>6. CASE ~(i > 1)
    BY <2>3, <2>4, <2>6, <1>3
  <2> QED BY <2>5, <2>6
<1>8. At = s
  <2>1. At = [i \in 1 .. n |-> At[i]]
    BY <1>5
  <2>2. s = [i \in 1 .. n |-> s[i]]
    BY <1>1
  <2> QED BY <2>1, <2>2, <1>7
<1> QED BY <1>1, <1>6, <1>8, ConcatEmptySeq

(* Lists that a step leaves alone.                                           *)
LEMMA Frame ==
    ASSUME NEW H, NEW C, NEW L, NEW q, Links(H, C, L, q),
           NEW G, IsHeap(G), Len(H) <= Len(G), NEW r \in [1 .. Len(G) -> Int],
           NEW D, D \subseteq C, Undisturbed(H, G, D, L, r)
    PROVE  Links(G, D, L, r)
<1>1. Len(H) \in Nat /\ Len(G) \in Nat
  BY DEF Links, IsHeap
<1>2. D \subseteq 1 .. Len(G)
  BY <1>1 DEF Links
<1>3. ASSUME NEW c \in D PROVE List(G, c, L[c], r)
  <2> DEFINE s == L[c]
  <2>1. List(H, c, s, q)
    BY DEF Links
  <2>2. s \in Seq(1 .. Len(H)) /\ Len(s) \in Nat /\ \A i \in 1 .. Len(s) : s[i] \in 1 .. Len(H)
    BY <2>1 DEF List, Circle
  <2>3. s \in Seq(1 .. Len(G))
    BY <2>2, <1>1
  <2>4. Width(G[c]) = Width(H[c]) /\ LastAt(G[c], Len(s)) = LastAt(H[c], Len(s)) /\ IsContainer(G[c])
    BY <2>1 DEF Undisturbed, Width, LastAt, IsContainer, List
  <2>5. Circle(G, c, s)
    <3>1. ASSUME NEW i \in 1 .. Len(s) PROVE G[s[i]].next = s[After(i, Len(s))]
      <4>1. G[s[i]].next = H[s[i]].next
        BY DEF Undisturbed
      <4>2. H[s[i]].next = s[After(i, Len(s))]
        BY <2>1 DEF List, Circle
      <4> QED BY <4>1, <4>2
    <3>2. G[c].last = H[c].last
      BY DEF Undisturbed
    <3> HIDE DEF s
    <3> QED BY <2>1, <2>3, <2>4, <3>1, <3>2 DEF Circle, List
  <2>6. ASSUME NEW i \in 1 .. Len(s)
        PROVE  /\ G[s[i]].doc = G[c].doc
               /\ G[c].kind = "obj" /\ i % 2 = 1 => G[s[i]].kind = "str"
               /\ r[s[i]] < r[c]
    <3>1. /\ G[s[i]].doc = H[s[i]].doc /\ G[s[i]].kind = H[s[i]].kind /\ r[s[i]] < r[c]
          /\ G[c].doc = H[c].doc /\ G[c].kind = H[c].kind
      BY DEF Undisturbed
    <3> HIDE DEF s
    <3> QED BY <3>1, <2>1 DEF List
  <2> QED BY <2>4, <2>5, <2>6 DEF List
<1> QED BY <1>2, <1>3 DEF Links

(* One more list.                                                            *)
With(D, L, c, s) == [x \in D \cup {c} |-> IF x = c THEN s ELSE L[x]]

(* One more list, apart from all others, may be added.                      *)
LEMMA OneMore ==
    ASSUME NEW H, NEW D, NEW L, NEW r, Links(H, D, L, r),
           NEW c \in 1 .. Len(H), NEW s, List(H, c, s, r),
           c \notin D, \A e \in D : Apart(s, L[e])
    PROVE  Links(H, D \cup {c}, With(D, L, c, s), r)
<1> DEFINE C == D \cup {c}
           M == With(D, L, c, s)
<1>1. M[c] = s /\ \A e \in D : M[e] = L[e]
  BY DEF With
<1>2. \A e \in C : List(H, e, M[e], r)
  BY <1>1 DEF Links
<1>3. \A e \in D : Apart(L[e], s)
  BY DEF Apart
<1>4. ASSUME NEW e \in C, NEW f \in C, e # f PROVE Apart(M[e], M[f])
  BY <1>1, <1>3, <1>4 DEF Links
<1> QED BY <1>2, <1>4 DEF Links

(* The lists of two sets of containers.                                      *)
Joined(C, L, D, M) == [x \in C \cup D |-> IF x \in C THEN L[x] ELSE M[x]]

(* So may any lists that are apart from those there are.                    *)
LEMMA Join ==
    ASSUME NEW H, NEW C, NEW L, NEW r, Links(H, C, L, r),
           NEW D, NEW M, Links(H, D, M, r),
           C \cap D = {}, \A c \in C, d \in D : Apart(L[c], M[d])
    PROVE  Links(H, C \cup D, Joined(C, L, D, M), r)
<1> DEFINE E == C \cup D
           J == Joined(C, L, D, M)
<1>1. (\A c \in C : J[c] = L[c]) /\ (\A d \in D : J[d] = M[d])
  BY DEF Joined
<1>2. \A e \in E : List(H, e, J[e], r)
  BY <1>1 DEF Links
<1>3. \A c \in C, d \in D : Apart(M[d], L[c])
  BY DEF Apart
<1>4. ASSUME NEW e \in E, NEW f \in E, e # f PROVE Apart(J[e], J[f])
  <2>1. CASE e \in C
    <3>1. CASE f \in C
      BY <1>1, <1>4, <2>1, <3>1 DEF Links
    <3>2. CASE f \in D
      BY <1>1, <2>1, <3>2
    <3> QED BY <3>1, <3>2
  <2>2. CASE e \in D
    <3>1. CASE f \in C
      BY <1>1, <1>3, <2>2, <3>1
    <3>2. CASE f \in D
      BY <1>1, <1>4, <2>2, <3>2 DEF Links
    <3> QED BY <3>1, <3>2
  <2> QED BY <2>1, <2>2
<1> QED BY <1>2, <1>4 DEF Links

(* An empty container has the empty list.                                    *)
LEMMA EmptyList ==
    ASSUME NEW H, NEW c, IsContainer(H[c]), H[c].len = 0, NEW r
    PROVE  List(H, c, << >>, r)
<1>1. Width(H[c]) = 0
  BY DEF Width
<1> QED BY <1>1 DEF List, Circle

(* The values T that v holds: closed under the lists, of no greater rank,    *)
(* and all but v are members of containers among them.                       *)
Boxes(H) == {n \in 1 .. Len(H) : IsContainer(H[n])}
Member(L, c, n) == \E i \in 1 .. Len(L[c]) : n = L[c][i]
Holds(H, L, r, T, v) ==
    /\ T \subseteq 1 .. Len(H) /\ v \in T
    /\ \A c \in T \cap Boxes(H) : \A i \in 1 .. Len(L[c]) : L[c][i] \in T
    /\ \A n \in T : r[n] <= r[v]
    /\ \A n \in T \ {v} : \E c \in T \cap Boxes(H) : Member(L, c, n)

(* The depth is enough: on the way down from v to a value of level i there   *)
(* are i containers that are not empty, all above the value.                 *)
LEMMA SubtreeHolds ==
    ASSUME NEW H, NEW L, NEW r, Links(H, Boxes(H), L, r), NEW v \in 1 .. Len(H)
    PROVE  Holds(H, L, r, Subtree(H, v), v)
<1> DEFINE Below(S) == UNION {Range(Members(H, c)) : c \in {n \in S : IsContainer(H[n])}}
           depth == Cardinality({n \in DOMAIN H : H[n].len > 0})
           Level[i \in 0 .. depth] == IF i = 0 THEN {v} ELSE Below(Level[i - 1])
           Filled == {n \in DOMAIN H : H[n].len > 0}
           Above(n) == {m \in Filled : r[m] > r[n]}
<1>1. /\ Len(H) \in Nat /\ DOMAIN H = 1 .. Len(H) /\ r \in [1 .. Len(H) -> Int]
      /\ \A n \in 1 .. Len(H) : H[n].len \in Nat
  BY DEF Links, IsHeap, IsValue
<1>2. IsFiniteSet(Filled) /\ depth \in Nat
  <2>1. IsFiniteSet(1 .. Len(H)) /\ Filled \in SUBSET (1 .. Len(H))
    BY <1>1, FS_Interval
  <2> QED BY <2>1, FS_Subset, FS_CardinalityType
<1>3. Subtree(H, v) = UNION {Level[i] : i \in 0 .. depth}
  BY DEF Subtree
<1>4. ASSUME NEW S \in SUBSET (1 .. Len(H)), NEW n
      PROVE  n \in Below(S) <=> \E c \in S \cap Boxes(H) : Member(L, c, n)
  <2>1. ASSUME NEW c \in S \cap Boxes(H) PROVE n \in Range(Members(H, c)) <=> Member(L, c, n)
    <3>1. Members(H, c) = L[c]
      BY MembersAre DEF Links, List, Boxes
    <3>2. L[c] \in Seq(1 .. Len(H))
      BY DEF Links, List, Circle
    <3>3. DOMAIN L[c] = 1 .. Len(L[c])
      BY <3>2
    <3> QED BY <3>1, <3>3 DEF Range, Member
  <2>2. S \cap Boxes(H) = {m \in S : IsContainer(H[m])}
    BY DEF Boxes
  <2> QED BY <2>1, <2>2
<1>5. \A c \in Boxes(H) : \A i \in 1 .. Len(L[c]) :
          L[c][i] \in 1 .. Len(H) /\ r[L[c][i]] < r[c] /\ c \in Filled
  <2> SUFFICES ASSUME NEW c \in Boxes(H), NEW i \in 1 .. Len(L[c])
               PROVE  L[c][i] \in 1 .. Len(H) /\ r[L[c][i]] < r[c] /\ c \in Filled
    OBVIOUS
  <2>1. List(H, c, L[c], r) /\ c \in 1 .. Len(H)
    BY DEF Links, Boxes
  <2>2. L[c] \in Seq(1 .. Len(H)) /\ Len(L[c]) = Width(H[c])
    BY <2>1 DEF List, Circle
  <2>3. H[c].len > 0
    BY <2>1, <2>2, <1>1, WidthFacts
  <2> QED BY <2>1, <2>2, <2>3, <1>1 DEF List
<1> HIDE DEF Below
<1>6. Level = [i \in 0 .. depth |-> IF i = 0 THEN {v} ELSE Below(Level[i - 1])]
  <2> HIDE DEF depth
  <2> DEFINE Is(f, k) == f = [i \in 0 .. k |-> IF i = 0 THEN {v} ELSE Below(f[i - 1])]
             R == {k \in 0 .. depth : ~\E f : Is(f, k)}
  <2> HIDE DEF Is
  <2>1. R = {}
    <3> SUFFICES ASSUME R # {} PROVE FALSE
      OBVIOUS
    <3>1. R \in SUBSET Nat
      BY <1>2
    <3>2. PICK k \in R : \A j \in R : k <= j
      BY <3>1, Smallest
    <3>3. k # 0
      <4>1. Is([i \in 0 .. 0 |-> {v}], 0)
        BY DEF Is
      <4> QED BY <4>1
    <3>4. k \in Nat /\ k - 1 \in 0 .. depth /\ k - 1 \notin R
      BY <3>1, <3>2, <3>3, <1>2
    <3>5. PICK g : Is(g, k - 1)
      BY <3>4
    <3> DEFINE p == [i \in 0 .. k |-> IF i < k THEN g[i] ELSE Below(g[k - 1])]
    <3>6. ASSUME NEW i \in 0 .. k PROVE p[i] = IF i = 0 THEN {v} ELSE Below(p[i - 1])
      <4>1. CASE i = 0
        <5>1. 0 \in 0 .. (k - 1) /\ p[i] = g[0]
          BY <4>1, <3>3, <3>4
        <5> QED BY <5>1, <4>1, <3>5 DEF Is
      <4>2. CASE i # 0 /\ i < k
        <5>1. i \in 0 .. (k - 1) /\ p[i] = g[i] /\ p[i - 1] = g[i - 1]
          BY <4>2, <3>4
        <5>2. g[i] = Below(g[i - 1])
          BY <4>2, <5>1, <3>5 DEF Is
        <5> QED BY <4>2, <5>1, <5>2
      <4>3. CASE i = k
        <5>1. p[i] = Below(g[k - 1]) /\ p[i - 1] = g[k - 1]
          BY <4>3, <3>3, <3>4
        <5> QED BY <4>3, <3>3, <5>1
      <4> QED BY <4>1, <4>2, <4>3, <3>4
    <3>7. Is(p, k)
      BY <3>6 DEF Is
    <3> QED BY <3>7
  <2>2. \E f : Is(f, depth)
    <3>1. depth \in 0 .. depth
      BY <1>2
    <3> HIDE DEF R
    <3>2. depth \notin R
      BY <2>1
    <3> QED BY <3>1, <3>2 DEF R
  <2> QED BY <2>2 DEF Is
<1>7. Level[0] = {v} /\ \A i \in 1 .. depth : Level[i] = Below(Level[i - 1])
  <2>1. 0 \in 0 .. depth /\ \A i \in 1 .. depth : i \in 0 .. depth /\ i # 0
    BY <1>2
  <2> HIDE DEF Level, depth
  <2> QED BY <1>6, <2>1
<1> HIDE DEF Level
<1>8. ASSUME NEW n \in 1 .. Len(H), NEW c \in Filled, r[n] < r[c]
      PROVE  /\ Cardinality(Above(c)) \in Nat
             /\ Cardinality(Above(n)) >= Cardinality(Above(c)) + 1
  <2>1. IsFiniteSet(Above(c)) /\ IsFiniteSet(Above(n)) /\ c \notin Above(c)
    <3>1. Above(c) \in SUBSET Filled /\ Above(n) \in SUBSET Filled /\ c \notin Above(c)
      BY <1>1
    <3> QED BY <3>1, <1>2, FS_Subset
  <2>2. Above(c) \cup {c} \in SUBSET Above(n)
    BY <1>1, <1>8, SMTT(30)
  <2>3. IsFiniteSet(Above(c) \cup {c}) /\ Cardinality(Above(c) \cup {c}) = Cardinality(Above(c)) + 1
    BY <2>1, FS_AddElement
  <2> HIDE DEF Above
  <2> QED BY <2>1, <2>2, <2>3, FS_Subset, FS_CardinalityType
<1> DEFINE Fine(i) == /\ Level[i] \in SUBSET (1 .. Len(H))
                      /\ \A n \in Level[i] : r[n] <= r[v] /\ Cardinality(Above(n)) >= i
<1>9. \A i \in 0 .. depth : Fine(i)
  <2> SUFFICES ASSUME NEW i0 \in 0 .. depth, ~Fine(i0) PROVE FALSE
    OBVIOUS
  <2> DEFINE R == {i \in 0 .. depth : ~Fine(i)}
  <2> HIDE DEF depth, Fine
  <2>1. R \in SUBSET Nat /\ R # {}
    BY <1>2
  <2>2. PICK i \in R : \A j \in R : i <= j
    BY <2>1, Smallest
  <2>3. i \in 0 .. depth /\ ~Fine(i)
    OBVIOUS
  <2>4. CASE i = 0
    <3>1. IsFiniteSet(Above(v))
      BY <1>2, FS_Subset
    <3>2. Cardinality(Above(v)) >= 0
      BY <3>1, FS_CardinalityType
    <3> HIDE DEF Above
    <3> QED BY <2>3, <2>4, <3>2, <1>7, <1>1 DEF Fine
  <2>5. CASE i # 0
    <3>1. i \in 1 .. depth /\ i - 1 \in 0 .. depth /\ i - 1 < i
      BY <2>3, <2>5, <1>2
    <3>2. Fine(i - 1)
      BY <3>1, <2>2, <2>1
    <3>3. ASSUME NEW n \in Level[i]
          PROVE  n \in 1 .. Len(H) /\ r[n] <= r[v] /\ Cardinality(Above(n)) >= i
      <4>1. PICK c \in Level[i - 1] \cap Boxes(H) : Member(L, c, n)
        BY <3>1, <3>2, <1>4, <1>7 DEF Fine
      <4>2. n \in 1 .. Len(H) /\ r[n] < r[c] /\ c \in Filled /\ c \in 1 .. Len(H)
        BY <4>1, <1>5 DEF Member, Boxes
      <4>3. r[c] <= r[v] /\ Cardinality(Above(c)) >= i - 1
        BY <3>2, <4>1 DEF Fine
      <4>4. Cardinality(Above(c)) \in Nat /\ Cardinality(Above(n)) >= Cardinality(Above(c)) + 1
        BY <4>2, <1>8
      <4>5. r[n] \in Int /\ r[c] \in Int /\ r[v] \in Int
        BY <4>2, <1>1
      <4>6. IsFiniteSet(Above(n))
        BY <1>2, FS_Subset
      <4>7. Cardinality(Above(n)) \in Nat
        BY <4>6, FS_CardinalityType
      <4> HIDE DEF Above
      <4> QED BY <4>2, <4>3, <4>4, <4>5, <4>7, <3>1, SMTT(30)
    <3>4. Fine(i)
      BY <3>3 DEF Fine
    <3> QED BY <3>4, <2>3
  <2> QED BY <2>4, <2>5
<1>10. ASSUME NEW i \in 0 .. depth, NEW c \in Level[i] \cap Boxes(H), NEW j \in 1 .. Len(L[c])
       PROVE  i + 1 \in 1 .. depth /\ L[c][j] \in Level[i + 1]
  <2>1. c \in Filled /\ c \in 1 .. Len(H)
    BY <1>5 DEF Boxes
  <2>2. Cardinality(Above(c)) >= i
    BY <1>9
  <2>3. Above(c) \in SUBSET Filled /\ c \notin Above(c)
    BY <2>1, <1>1
  <2>4. Cardinality(Above(c)) <= depth /\ (Cardinality(Above(c)) = depth => Above(c) = Filled)
    BY <2>3, <1>2, FS_Subset
  <2>5. IsFiniteSet(Above(c))
    BY <2>3, <1>2, FS_Subset
  <2>6. Cardinality(Above(c)) \in Nat /\ Cardinality(Above(c)) # depth
    BY <2>1, <2>3, <2>4, <2>5, FS_CardinalityType
  <2> HIDE DEF Above, depth, Filled
  <2>7. i + 1 \in 1 .. depth /\ (i + 1) - 1 = i
    BY <2>2, <2>4, <2>6, <1>2
  <2>8. Level[i + 1] = Below(Level[i])
    BY <2>7, <1>7
  <2>9. Level[i] \in SUBSET (1 .. Len(H))
    BY <1>9
  <2>10. Member(L, c, L[c][j])
    BY DEF Member
  <2> QED BY <2>7, <2>8, <2>9, <2>10, <1>4
<1> DEFINE T == UNION {Level[i] : i \in 0 .. depth}
<1> HIDE DEF depth
<1>11. T \subseteq 1 .. Len(H) /\ v \in T /\ \A n \in T : r[n] <= r[v]
  <2>1. 0 \in 0 .. depth /\ v \in Level[0]
    BY <1>2, <1>7
  <2>2. ASSUME NEW i \in 0 .. depth PROVE Level[i] \subseteq 1 .. Len(H) /\ \A n \in Level[i] : r[n] <= r[v]
    BY <1>9
  <2> QED BY <2>1, <2>2
<1>12. ASSUME NEW c \in T \cap Boxes(H), NEW j \in 1 .. Len(L[c]) PROVE L[c][j] \in T
  <2>1. PICK i \in 0 .. depth : c \in Level[i]
    OBVIOUS
  <2>2. i + 1 \in 1 .. depth /\ L[c][j] \in Level[i + 1]
    BY <2>1, <1>10
  <2>3. i + 1 \in 0 .. depth
    BY <2>2, <1>2
  <2> QED BY <2>2, <2>3
<1>13. ASSUME NEW n \in T \ {v} PROVE \E c \in T \cap Boxes(H) : Member(L, c, n)
  <2>1. PICK i \in 0 .. depth : n \in Level[i]
    OBVIOUS
  <2>2. i \in 1 .. depth /\ i - 1 \in 0 .. depth
    BY <2>1, <1>7, <1>2
  <2>3. Level[i] = Below(Level[i - 1]) /\ Level[i - 1] \in SUBSET (1 .. Len(H))
    BY <2>2, <1>7, <1>9
  <2>4. PICK c \in Level[i - 1] \cap Boxes(H) : Member(L, c, n)
    BY <2>1, <2>3, <1>4
  <2> QED BY <2>2, <2>4
<1> HIDE DEF T
<1>14. Subtree(H, v) = T
  BY <1>3 DEF T
<1> QED BY <1>11, <1>12, <1>13, <1>14 DEF Holds

-----------------------------------------------------------------------------
(* Heaps that grow.                                                          *)
Concat(H, T, G) ==
    /\ IsHeap(G) /\ Len(G) = Len(H) + Len(T)
    /\ \A n \in 1 .. Len(H) : G[n] = H[n]
    /\ \A i \in 1 .. Len(T) : G[Len(H) + i] = T[i]

(* Allocating values at the end of the heap leaves the others where they    *)
(* are.                                                                     *)
LEMMA HeapConcat ==
    ASSUME NEW H, IsHeap(H), NEW T, IsHeap(T)
    PROVE  Concat(H, T, H \o T)
<1> DEFINE S == {H[n] : n \in 1 .. Len(H)} \cup {T[n] : n \in 1 .. Len(T)}
<1>1. Len(H) \in Nat /\ Len(T) \in Nat
  BY DEF IsHeap
<1>2. H \in Seq(S) /\ T \in Seq(S)
  <2>1. H = [n \in 1 .. Len(H) |-> H[n]] /\ T = [n \in 1 .. Len(T) |-> T[n]]
    BY DEF IsHeap
  <2>2. H \in [1 .. Len(H) -> S] /\ T \in [1 .. Len(T) -> S]
    BY <2>1
  <2> HIDE DEF S
  <2> QED BY <1>1, <2>2
<1>3. \A v \in S : IsValue(v)
  BY DEF IsHeap
<1> HIDE DEF S
<1>4. H \o T \in Seq(S) /\ Len(H \o T) = Len(H) + Len(T)
  BY <1>2, ConcatProperties
<1>5. H \o T = [n \in 1 .. Len(H \o T) |-> (H \o T)[n]] /\ \A n \in 1 .. Len(H \o T) : (H \o T)[n] \in S
  <2>1. PICK G : G = H \o T
    OBVIOUS
  <2>2. G \in Seq(S)
    BY <1>4, <2>1
  <2>3. G = [n \in 1 .. Len(G) |-> G[n]] /\ \A n \in 1 .. Len(G) : G[n] \in S
    BY <2>2
  <2> QED BY <2>1, <2>3
<1>6. ASSUME NEW n \in 1 .. Len(H) PROVE (H \o T)[n] = H[n]
  <2>1. n \in 1 .. Len(H) + Len(T) /\ n <= Len(H)
    BY <1>1
  <2> QED BY <1>2, <2>1, ConcatProperties
<1>7. ASSUME NEW i \in 1 .. Len(T) PROVE (H \o T)[Len(H) + i] = T[i]
  <2>1. Len(H) + i \in 1 .. Len(H) + Len(T) /\ ~(Len(H) + i <= Len(H)) /\ (Len(H) + i) - Len(H) = i
    BY <1>1
  <2> QED BY <1>2, <2>1, ConcatProperties
<1> QED BY <1>1, <1>3, <1>4, <1>5, <1>6, <1>7 DEF IsHeap, Concat

(* One field of one value is set.                                            *)
NextSet(H, n, p, G) == G = [H EXCEPT ![n].next = p]
LastSet(H, n, p, G) == G = [H EXCEPT ![n].last = p]
LenSet(H, n, p, G) == G = [H EXCEPT ![n].len = p]
Same(H, G) ==
    /\ IsHeap(G) /\ Len(G) = Len(H)
    /\ \A k \in 1 .. Len(H) : G[k].kind = H[k].kind /\ G[k].doc = H[k].doc

(* What setting the three pointers of a value changes, and that it changes  *)
(* nothing else: next,                                                      *)
LEMMA SetNext ==
    ASSUME NEW H, IsHeap(H), NEW n \in 1 .. Len(H), NEW p, NEW G, NextSet(H, n, p, G)
    PROVE  /\ Same(H, G)
           /\ \A k \in 1 .. Len(H) :
                 /\ G[k].last = H[k].last /\ G[k].len = H[k].len /\ G[k].data = H[k].data
                 /\ G[k].next = IF k = n THEN p ELSE H[k].next
<1>1. G = [k \in 1 .. Len(H) |-> G[k]] /\ G[n] = [H[n] EXCEPT !.next = p]
      /\ \A k \in 1 .. Len(H) : k # n => G[k] = H[k]
  BY DEF IsHeap, NextSet
<1>2. Len(G) = Len(H) /\ Len(H) \in Nat
  BY <1>1 DEF IsHeap
<1>3. IsValue(H[n])
  BY DEF IsHeap
<1>4. /\ IsValue(G[n]) /\ G[n].kind = H[n].kind /\ G[n].doc = H[n].doc
      /\ G[n].data = H[n].data /\ G[n].last = H[n].last /\ G[n].len = H[n].len /\ G[n].next = p
  BY <1>1, <1>3 DEF IsValue
<1>5. \A k \in 1 .. Len(H) : IsValue(G[k])
  BY <1>1, <1>4 DEF IsHeap
<1> QED BY <1>1, <1>2, <1>4, <1>5 DEF IsHeap, Same

(* last,                                                                    *)
LEMMA SetLast ==
    ASSUME NEW H, IsHeap(H), NEW n \in 1 .. Len(H), NEW p, NEW G, LastSet(H, n, p, G)
    PROVE  /\ Same(H, G)
           /\ \A k \in 1 .. Len(H) :
                 /\ G[k].next = H[k].next /\ G[k].len = H[k].len /\ G[k].data = H[k].data
                 /\ G[k].last = IF k = n THEN p ELSE H[k].last
<1>1. G = [k \in 1 .. Len(H) |-> G[k]] /\ G[n] = [H[n] EXCEPT !.last = p]
      /\ \A k \in 1 .. Len(H) : k # n => G[k] = H[k]
  BY DEF IsHeap, LastSet
<1>2. Len(G) = Len(H) /\ Len(H) \in Nat
  BY <1>1 DEF IsHeap
<1>3. IsValue(H[n])
  BY DEF IsHeap
<1>4. /\ IsValue(G[n]) /\ G[n].kind = H[n].kind /\ G[n].doc = H[n].doc
      /\ G[n].data = H[n].data /\ G[n].next = H[n].next /\ G[n].len = H[n].len /\ G[n].last = p
  BY <1>1, <1>3 DEF IsValue
<1>5. \A k \in 1 .. Len(H) : IsValue(G[k])
  BY <1>1, <1>4 DEF IsHeap
<1> QED BY <1>1, <1>2, <1>4, <1>5 DEF IsHeap, Same

(* and len.                                                                 *)
LEMMA SetLen ==
    ASSUME NEW H, IsHeap(H), NEW n \in 1 .. Len(H), NEW p \in Nat, NEW G, LenSet(H, n, p, G)
    PROVE  /\ Same(H, G)
           /\ \A k \in 1 .. Len(H) :
                 /\ G[k].next = H[k].next /\ G[k].last = H[k].last /\ G[k].data = H[k].data
                 /\ G[k].len = IF k = n THEN p ELSE H[k].len
<1>1. G = [k \in 1 .. Len(H) |-> G[k]] /\ G[n] = [H[n] EXCEPT !.len = p]
      /\ \A k \in 1 .. Len(H) : k # n => G[k] = H[k]
  BY DEF IsHeap, LenSet
<1>2. Len(G) = Len(H) /\ Len(H) \in Nat
  BY <1>1 DEF IsHeap
<1>3. IsValue(H[n])
  BY DEF IsHeap
<1>4. /\ IsValue(G[n]) /\ G[n].kind = H[n].kind /\ G[n].doc = H[n].doc
      /\ G[n].data = H[n].data /\ G[n].next = H[n].next /\ G[n].last = H[n].last /\ G[n].len = p
  BY <1>1, <1>3 DEF IsValue
<1>5. \A k \in 1 .. Len(H) : IsValue(G[k])
  BY <1>1, <1>4 DEF IsHeap
<1> QED BY <1>1, <1>2, <1>4, <1>5 DEF IsHeap, Same

(* The adding of a pair, value by value.                                     *)
Linked(H, o, key, val, s, G) ==
    /\ Same(H, G)
    /\ \A n \in 1 .. Len(H) :
          /\ G[n].len = IF n = o THEN H[n].len + 1 ELSE H[n].len
          /\ G[n].last = IF n = o THEN key ELSE H[n].last
          /\ G[n].next = IF n = key THEN val
                         ELSE IF n = val THEN IF Len(s) = 0 THEN key ELSE s[1]
                         ELSE IF Len(s) > 0 /\ n = s[Len(s)] THEN key
                         ELSE H[n].next

(* unsafe_yyjson_mut_obj_add() links the key behind the last value and the  *)
(* value before the first key; this is the heap it leaves.                  *)
LEMMA ObjAddLinks ==
    ASSUME NEW H, IsHeap(H), NEW o \in 1 .. Len(H), NEW key \in 1 .. Len(H), NEW val \in 1 .. Len(H),
           o # key, o # val, key # val, H[o].kind = "obj",
           NEW s, Circle(H, o, s), \A i \in 1 .. Len(s) : s[i] \notin {o, key, val}
    PROVE  Linked(H, o, key, val, s, ObjAdd(H, o, key, val))
<1> DEFINE A == ObjAdd(H, o, key, val)
<1>1. Len(H) \in Nat /\ \A n \in 1 .. Len(H) : IsValue(H[n])
  BY DEF IsHeap
<1>2. Len(s) = 2 * H[o].len /\ H[o].len \in Nat /\ s \in Seq(1 .. Len(H))
  BY <1>1, WidthFacts DEF Circle, IsValue
<1>4. CASE H[o].len = 0
  <2>1. PICK G1 : NextSet(H, val, key, G1)
    BY DEF NextSet
  <2>2. PICK G2 : NextSet(G1, key, val, G2)
    BY DEF NextSet
  <2>3. PICK G3 : LastSet(G2, o, key, G3)
    BY DEF LastSet
  <2>4. PICK G4 : LenSet(G3, o, 1, G4)
    BY DEF LenSet
  <2>5. /\ Same(H, G1)
        /\ \A k \in 1 .. Len(H) :
              /\ G1[k].last = H[k].last /\ G1[k].len = H[k].len
              /\ G1[k].next = IF k = val THEN key ELSE H[k].next
    BY <2>1, SetNext DEF Same
  <2>6. /\ Same(G1, G2)
        /\ \A k \in 1 .. Len(G1) :
              /\ G2[k].last = G1[k].last /\ G2[k].len = G1[k].len
              /\ G2[k].next = IF k = key THEN val ELSE G1[k].next
    BY <2>2, <2>5, SetNext DEF Same
  <2>7. /\ Same(G2, G3)
        /\ \A k \in 1 .. Len(G2) :
              /\ G3[k].next = G2[k].next /\ G3[k].len = G2[k].len
              /\ G3[k].last = IF k = o THEN key ELSE G2[k].last
    BY <2>3, <2>5, <2>6, SetLast DEF Same
  <2>8. /\ Same(G3, G4)
        /\ \A k \in 1 .. Len(G3) :
              /\ G4[k].next = G3[k].next /\ G4[k].last = G3[k].last
              /\ G4[k].len = IF k = o THEN 1 ELSE G3[k].len
    BY <2>4, <2>5, <2>6, <2>7, SetLen DEF Same
  <2>9. A = G4
    BY <1>4, <2>1, <2>2, <2>3, <2>4 DEF ObjAdd, NextSet, LastSet, LenSet
  <2>10. Len(s) = 0 /\ H[o].len + 1 = 1
    BY <1>2, <1>4
  <2>11. IsHeap(G1) /\ IsHeap(G2) /\ IsHeap(G3) /\ Len(G1) = Len(H) /\ Len(G2) = Len(H) /\ Len(G3) = Len(H)
    BY <2>5, <2>6, <2>7 DEF Same
  <2>12. Same(H, G4)
    BY <2>5, <2>6, <2>7, <2>8, <2>11 DEF Same
  <2>13. ASSUME NEW n \in 1 .. Len(H)
         PROVE  /\ G4[n].len = IF n = o THEN H[n].len + 1 ELSE H[n].len
                /\ G4[n].last = IF n = o THEN key ELSE H[n].last
                /\ G4[n].next = IF n = key THEN val ELSE IF n = val THEN key ELSE H[n].next
    BY <2>5, <2>6, <2>7, <2>8, <2>10, <2>11
  <2> HIDE DEF A
  <2>14. Linked(H, o, key, val, s, G4)
    BY <2>10, <2>12, <2>13 DEF Linked
  <2> QED BY <2>9, <2>14 DEF A
<1>5. CASE H[o].len # 0
  <2> DEFINE m == Len(s)
  <2>1. m >= 2 /\ m - 1 \in 1 .. m /\ m \in 1 .. m /\ 1 \in 1 .. m
        /\ After(m - 1, m) = m /\ After(m, m) = 1
    <3>1. m \in Nat /\ m >= 2
      BY <1>2, <1>5
    <3> HIDE DEF m
    <3> QED BY <3>1 DEF After
  <2>2. H[o].last = s[m - 1]
    BY <2>1 DEF Circle, LastAt
  <2>3. H[s[m - 1]].next = s[m] /\ H[s[m]].next = s[1]
    BY <2>1 DEF Circle
  <2>4. PICK pv : pv = s[m]
    OBVIOUS
  <2>5. PICK fk : fk = s[1]
    OBVIOUS
  <2>6. pv \in 1 .. Len(H) /\ pv \notin {o, key, val}
    <3>1. s[m] \in 1 .. Len(H)
      <4>1. \A i \in 1 .. Len(s) : s[i] \in 1 .. Len(H)
        BY <1>2, SMTT(30)
      <4> QED BY <2>1, <4>1
    <3> QED BY <2>1, <2>4, <3>1
  <2>7. PICK l \in Nat : l = H[o].len + 1
    BY <1>2
  <2>8. PICK G0 : NextSet(H, pv, key, G0)
    BY DEF NextSet
  <2>9. PICK G1 : NextSet(G0, val, fk, G1)
    BY DEF NextSet
  <2>10. PICK G2 : NextSet(G1, key, val, G2)
    BY DEF NextSet
  <2>11. PICK G3 : LastSet(G2, o, key, G3)
    BY DEF LastSet
  <2>12. PICK G4 : LenSet(G3, o, l, G4)
    BY DEF LenSet
  <2>13. /\ Same(H, G0)
        /\ \A k \in 1 .. Len(H) :
              /\ G0[k].last = H[k].last /\ G0[k].len = H[k].len
              /\ G0[k].next = IF k = pv THEN key ELSE H[k].next
    BY <2>6, <2>8, SetNext DEF Same
  <2>14. /\ Same(G0, G1)
        /\ \A k \in 1 .. Len(G0) :
              /\ G1[k].last = G0[k].last /\ G1[k].len = G0[k].len
              /\ G1[k].next = IF k = val THEN fk ELSE G0[k].next
    BY <2>9, <2>13, SetNext DEF Same
  <2>15. /\ Same(G1, G2)
        /\ \A k \in 1 .. Len(G1) :
              /\ G2[k].last = G1[k].last /\ G2[k].len = G1[k].len
              /\ G2[k].next = IF k = key THEN val ELSE G1[k].next
    BY <2>10, <2>13, <2>14, SetNext DEF Same
  <2>16. /\ Same(G2, G3)
        /\ \A k \in 1 .. Len(G2) :
              /\ G3[k].next = G2[k].next /\ G3[k].len = G2[k].len
              /\ G3[k].last = IF k = o THEN key ELSE G2[k].last
    BY <2>11, <2>13, <2>14, <2>15, SetLast DEF Same
  <2>17. G3[o].len = H[o].len
    BY <1>1, <2>13, <2>14, <2>15, <2>16 DEF Same
  <2>18. G4 = [G3 EXCEPT ![o].len = @ + 1]
    BY <2>7, <2>12, <2>17 DEF LenSet
  <2>19. /\ Same(G3, G4)
        /\ \A k \in 1 .. Len(G3) :
              /\ G4[k].next = G3[k].next /\ G4[k].last = G3[k].last
              /\ G4[k].len = IF k = o THEN l ELSE G3[k].len
    BY <2>12, <2>13, <2>14, <2>15, <2>16, SetLen, SMTT(30) DEF Same
  <2>20. A = G4
    <3>1. A = [H EXCEPT ![pv].next = key, ![val].next = fk, ![key].next = val, ![o].last = key, ![o].len = @ + 1]
      BY <1>5, <2>2, <2>3, <2>4, <2>5 DEF ObjAdd
    <3> HIDE DEF A
    <3> QED BY <3>1, <2>8, <2>9, <2>10, <2>11, <2>18, ZenonT(40) DEF NextSet, LastSet
  <2>21. /\ IsHeap(G0) /\ IsHeap(G1) /\ IsHeap(G2) /\ IsHeap(G3)
         /\ Len(G0) = Len(H) /\ Len(G1) = Len(H) /\ Len(G2) = Len(H) /\ Len(G3) = Len(H)
    BY <2>13, <2>14, <2>15, <2>16 DEF Same
  <2>22. Same(H, G4)
    BY <2>13, <2>14, <2>15, <2>16, <2>19, <2>21 DEF Same
  <2>23. ASSUME NEW n \in 1 .. Len(H)
         PROVE  /\ G4[n].len = IF n = o THEN H[n].len + 1 ELSE H[n].len
                /\ G4[n].last = IF n = o THEN key ELSE H[n].last
                /\ G4[n].next = IF n = key THEN val ELSE IF n = val THEN fk
                                ELSE IF n = pv THEN key ELSE H[n].next
    BY <2>6, <2>7, <2>13, <2>14, <2>15, <2>16, <2>19, <2>21
  <2> HIDE DEF A
  <2>24. Linked(H, o, key, val, s, G4)
    <3>1. Len(s) > 0 /\ Len(s) # 0
      BY <2>1
    <3> HIDE DEF m
    <3>2. s[Len(s)] = pv
      BY <2>4 DEF m
    <3> QED BY <2>5, <2>22, <2>23, <3>1, <3>2 DEF Linked
  <2> QED BY <2>20, <2>24 DEF A
<1> QED BY <1>4, <1>5

(* A pair that is in no list is added to object o.                           *)
Unlisted(C, L, n) == \A c \in C : \A i \in 1 .. Len(L[c]) : L[c][i] # n
AddTwo(s, key, val) == s \o <<key, val>>

(* So an object keeps its list, with the pair at the end, if neither value  *)
(* was in a list and none of them holds the object.                         *)
LEMMA AddMember ==
    ASSUME NEW H, NEW C, NEW L, NEW r, Links(H, C, L, r), NEW o \in C, H[o].kind = "obj",
           NEW key \in 1 .. Len(H), NEW val \in 1 .. Len(H), key # val,
           H[key].doc = H[o].doc, H[val].doc = H[o].doc, H[key].kind = "str",
           r[key] < r[o], r[val] < r[o], Unlisted(C, L, key), Unlisted(C, L, val)
    PROVE  /\ Same(H, ObjAdd(H, o, key, val))
           /\ Links(ObjAdd(H, o, key, val), C, With(C \ {o}, L, o, AddTwo(L[o], key, val)), r)
<1> DEFINE s == L[o]
           t == AddTwo(s, key, val)
           n == Len(s)
<1>1. PICK G : G = ObjAdd(H, o, key, val)
  OBVIOUS
<1>2. /\ IsHeap(H) /\ o \in 1 .. Len(H) /\ List(H, o, s, r) /\ Len(H) \in Nat /\ r \in [1 .. Len(H) -> Int]
  BY DEF Links, IsHeap
<1>3. s \in Seq(1 .. Len(H)) /\ n \in Nat /\ \A i \in 1 .. n : s[i] \in 1 .. Len(H)
  <2>1. s \in Seq(1 .. Len(H))
    BY <1>2 DEF List, Circle
  <2> QED BY <2>1
<1>4. \A i \in 1 .. n : s[i] \notin {o, key, val}
  <2>1. \A i \in 1 .. n : r[s[i]] < r[o]
    BY <1>2 DEF List
  <2>2. \A i \in 1 .. n : s[i] # key /\ s[i] # val
    BY DEF Unlisted
  <2>3. ~(r[o] < r[o])
    BY <1>2
  <2> QED BY <2>1, <2>2, <2>3
<1>5. o # key /\ o # val
  BY <1>2
<1>6. Linked(H, o, key, val, s, G)
  BY <1>1, <1>2, <1>4, <1>5, ObjAddLinks DEF List
<1>7. Same(H, G) /\ IsHeap(G) /\ Len(G) = Len(H)
  BY <1>6 DEF Linked, Same
<1>8. Links(G, C \ {o}, L, r)
  <2>1. ASSUME NEW c \in C \ {o}
        PROVE  /\ c \in 1 .. Len(H) /\ List(H, c, L[c], r) /\ Apart(L[c], s)
               /\ \A i \in 1 .. Len(L[c]) : L[c][i] \in 1 .. Len(H)
    <3>1. c \in 1 .. Len(H) /\ List(H, c, L[c], r) /\ Apart(L[c], s)
      BY DEF Links
    <3>2. L[c] \in Seq(1 .. Len(H))
      BY <3>1 DEF List, Circle
    <3> QED BY <3>1, <3>2
  <2>2. ASSUME NEW c \in C \ {o}, NEW i \in 1 .. Len(L[c])
        PROVE  LET m == L[c][i]
               IN  /\ G[m].kind = H[m].kind /\ G[m].doc = H[m].doc
                   /\ G[m].next = H[m].next /\ r[m] < r[c]
    <3>1. PICK m : m = L[c][i]
      OBVIOUS
    <3>2. m \in 1 .. Len(H) /\ r[m] < r[c]
      BY <2>1, <3>1 DEF List
    <3>3. m # key /\ m # val
      BY <3>1 DEF Unlisted
    <3>4. n > 0 => m # s[n]
      <4>1. n > 0 => n \in 1 .. Len(s)
        BY <1>3
      <4> QED BY <2>1, <3>1, <4>1 DEF Apart
    <3>5. G[m].kind = H[m].kind /\ G[m].doc = H[m].doc
      BY <3>2, <1>7 DEF Same
    <3>6. G[m].next = H[m].next
      BY <3>2, <3>3, <3>4, <1>6 DEF Linked
    <3> QED BY <3>1, <3>2, <3>5, <3>6
  <2>3. ASSUME NEW c \in C \ {o}
        PROVE  /\ G[c].kind = H[c].kind /\ G[c].doc = H[c].doc
               /\ G[c].len = H[c].len /\ G[c].last = H[c].last
    <3>1. c \in 1 .. Len(H) /\ c # o
      BY <2>1
    <3> QED BY <3>1, <1>6, <1>7 DEF Same, Linked
  <2>4. Undisturbed(H, G, C \ {o}, L, r)
    BY <2>2, <2>3 DEF Undisturbed
  <2>5. Len(H) <= Len(G) /\ r \in [1 .. Len(G) -> Int] /\ C \ {o} \subseteq C
    BY <1>2, <1>7
  <2> QED BY <2>4, <2>5, <1>7, Frame
<1>9. /\ t \in Seq(1 .. Len(H)) /\ Len(t) = n + 2 /\ t[n + 1] = key /\ t[n + 2] = val
      /\ \A i \in 1 .. n : t[i] = s[i]
  <2>1. <<key, val>> \in Seq(1 .. Len(H)) /\ Len(<<key, val>>) = 2
    OBVIOUS
  <2>2. \A i \in 1 .. n + 2 : t[i] = IF i <= n THEN s[i] ELSE <<key, val>>[i - n]
    BY <1>3, <2>1, ConcatProperties DEF AddTwo
  <2>3. t \in Seq(1 .. Len(H)) /\ Len(t) = n + 2
    BY <1>3, <2>1, ConcatProperties DEF AddTwo
  <2>4. /\ n + 1 \in 1 .. n + 2 /\ ~(n + 1 <= n) /\ (n + 1) - n = 1
        /\ n + 2 \in 1 .. n + 2 /\ ~(n + 2 <= n) /\ (n + 2) - n = 2
        /\ \A i \in 1 .. n : i \in 1 .. n + 2 /\ i <= n
    BY <1>3
  <2>5. PICK w : w = <<key, val>>
    OBVIOUS
  <2>6. w[1] = key /\ w[2] = val
    BY <2>5
  <2>7. \A i \in 1 .. n + 2 : t[i] = IF i <= n THEN s[i] ELSE w[i - n]
    BY <2>2, <2>5
  <2> HIDE DEF t, n, s
  <2>8. t[n + 1] = key /\ t[n + 2] = val
    BY <2>4, <2>6, <2>7
  <2>9. \A i \in 1 .. n : t[i] = s[i]
    BY <2>4, <2>7
  <2> QED BY <2>3, <2>8, <2>9
<1> HIDE DEF t
<1>10. n = 2 * H[o].len /\ H[o].len \in Nat
  BY <1>2, WidthFacts DEF List, Circle, IsHeap, IsValue
<1>11. ASSUME NEW i \in 1 .. n + 2
       PROVE  \/ i \in 1 .. n /\ t[i] = s[i]
              \/ i = n + 1 /\ t[i] = key
              \/ i = n + 2 /\ t[i] = val
  <2>1. n \in Nat
    BY <1>3
  <2> HIDE DEF n, s
  <2>2. i \in 1 .. n \/ i = n + 1 \/ i = n + 2
    BY <2>1
  <2> QED BY <2>2, <1>9
<1>12. Circle(G, o, t)
  <2>1. Width(G[o]) = n + 2
    <3>1. G[o].kind = "obj" /\ G[o].len = H[o].len + 1
      BY <1>2, <1>6, <1>7 DEF Linked, Same
    <3> QED BY <3>1, <1>10 DEF Width
  <2>2. ASSUME NEW i \in 1 .. n + 2, NEW j \in 1 .. n + 2, t[i] = t[j] PROVE i = j
    <3>1. \A k, l \in 1 .. n : s[k] = s[l] => k = l
      BY <1>2 DEF List, Circle
    <3> HIDE DEF n, s
    <3> QED BY <2>2, <3>1, <1>4, <1>11
  <2>3. ASSUME NEW i \in 1 .. n + 2 PROVE G[t[i]].next = t[After(i, n + 2)]
    <3>1. CASE i \in 1 .. n /\ i # n
      <4>1. After(i, n + 2) = i + 1 /\ After(i, n) = i + 1 /\ i + 1 \in 1 .. n /\ i \in 1 .. n /\ n \in 1 .. n
        BY <3>1, <1>3 DEF After
      <4>2. H[s[i]].next = s[i + 1]
        BY <4>1, <1>2 DEF List, Circle
      <4>3. s[i] # s[n]
        BY <3>1, <4>1, <1>2 DEF List, Circle
      <4>4. G[s[i]].next = H[s[i]].next
        BY <3>1, <4>3, <1>3, <1>4, <1>6 DEF Linked
      <4> HIDE DEF n, s
      <4> QED BY <4>1, <4>2, <4>4, <1>9
    <3>2. CASE i = n
      <4>1. After(i, n + 2) = n + 1 /\ n > 0 /\ n \in 1 .. n
        BY <3>2, <1>3 DEF After
      <4>2. G[s[n]].next = key
        BY <4>1, <1>3, <1>4, <1>6 DEF Linked
      <4> HIDE DEF n, s
      <4> QED BY <3>2, <4>1, <4>2, <1>9
    <3>3. CASE i = n + 1
      <4>1. After(i, n + 2) = n + 2
        BY <3>3, <1>3 DEF After
      <4>2. G[key].next = val
        BY <1>6 DEF Linked
      <4> HIDE DEF n, s
      <4> QED BY <3>3, <4>1, <4>2, <1>9
    <3>4. CASE i = n + 2
      <4>1. After(i, n + 2) = 1
        BY <3>4, <1>3 DEF After
      <4>2. G[val].next = IF n = 0 THEN key ELSE s[1]
        BY <1>6 DEF Linked
      <4>3. n # 0 => 1 \in 1 .. n
        BY <1>3
      <4> HIDE DEF n, s
      <4>4. t[1] = IF n = 0 THEN key ELSE s[1]
        BY <4>3, <1>9
      <4> QED BY <3>4, <4>1, <4>2, <4>4, <1>9
    <3> QED BY <3>1, <3>2, <3>3, <3>4, <1>3, SMTT(30)
  <2>4. G[o].last = t[LastAt(G[o], n + 2)]
    <3>1. G[o].kind = "obj" /\ G[o].last = key
      BY <1>2, <1>6, <1>7 DEF Linked, Same
    <3>2. (n + 2) - 1 = n + 1
      BY <1>3
    <3> HIDE DEF n
    <3> QED BY <3>1, <3>2, <1>9 DEF LastAt
  <2> HIDE DEF n, s
  <2> QED BY <2>1, <2>2, <2>3, <2>4, <1>7, <1>9 DEF Circle
<1>13. List(G, o, t, r)
  <2>1. IsContainer(G[o])
    BY <1>2, <1>7 DEF List, IsContainer, Same
  <2>2. ASSUME NEW i \in 1 .. n + 2
        PROVE  /\ G[t[i]].doc = G[o].doc
               /\ G[o].kind = "obj" /\ i % 2 = 1 => G[t[i]].kind = "str"
               /\ r[t[i]] < r[o]
    <3>1. G[o].doc = H[o].doc
      BY <1>2, <1>7 DEF Same
    <3>2. t[i] \in 1 .. Len(H) => G[t[i]].doc = H[t[i]].doc /\ G[t[i]].kind = H[t[i]].kind
      BY <1>7 DEF Same
    <3>3. CASE i \in 1 .. n /\ t[i] = s[i]
      BY <3>1, <3>2, <3>3, <1>2, <1>3 DEF List
    <3>4. CASE i = n + 1 /\ t[i] = key
      BY <3>1, <3>2, <3>4
    <3>5. CASE i = n + 2 /\ t[i] = val
      <4>1. i % 2 # 1
        BY <3>5, <1>10
      <4> QED BY <3>1, <3>2, <3>5, <4>1
    <3> QED BY <3>3, <3>4, <3>5, <1>11
  <2> HIDE DEF n, s
  <2> QED BY <2>1, <2>2, <1>9, <1>12 DEF List
<1>14. ASSUME NEW e \in C \ {o} PROVE Apart(t, L[e])
  <2>1. Apart(s, L[e])
    BY DEF Links
  <2>2. ASSUME NEW i \in 1 .. Len(t), NEW j \in 1 .. Len(L[e]) PROVE t[i] # L[e][j]
    <3>1. L[e][j] # key /\ L[e][j] # val
      BY DEF Unlisted
    <3>2. \A k \in 1 .. n : s[k] # L[e][j]
      BY <2>1 DEF Apart
    <3>3. i \in 1 .. n + 2
      BY <1>9
    <3> HIDE DEF n, s
    <3> QED BY <3>1, <3>2, <3>3, <1>11
  <2> QED BY <2>2 DEF Apart
<1>15. Links(G, (C \ {o}) \cup {o}, With(C \ {o}, L, o, t), r)
  BY <1>2, <1>7, <1>8, <1>13, <1>14, OneMore
<1>16. (C \ {o}) \cup {o} = C
  OBVIOUS
<1> QED BY <1>1, <1>7, <1>15, <1>16 DEF t

-----------------------------------------------------------------------------
(* The inductive invariant: only containers of live documents are left; the  *)
(* caller holds allocated values, the roots among them, which are in no list *)
(* of a container; and the lists of all containers are circles, without one  *)
(* that holds itself.                                                        *)
Documents == [state : {"none", "live", "freed"}, root : Nat]
Typed(V, D, F) ==
    /\ D \in [Docs -> Documents]
    /\ \A n \in 1 .. Len(V) : V[n].doc \in Docs
    /\ \A c \in Boxes(V) : D[V[c].doc].state = "live"
    /\ F \subseteq 1 .. Len(V)
    /\ \A d \in Docs : D[d].root # NULL => D[d].root \in F /\ V[D[d].root].doc = d
Sound(V, F) ==
    \E L, r : Links(V, Boxes(V), L, r) /\ \A v \in F : Unlisted(Boxes(V), L, v)
IInv == Typed(vals, docs, loose) /\ Sound(vals, loose)

(* Every value of a list is a value of the heap.                             *)
LEMMA InHeap ==
    ASSUME NEW H, NEW C, NEW L, NEW r, Links(H, C, L, r), NEW c \in C
    PROVE  /\ c \in 1 .. Len(H) /\ List(H, c, L[c], r) /\ L[c] \in Seq(1 .. Len(H))
           /\ \A i \in 1 .. Len(L[c]) : L[c][i] \in 1 .. Len(H)
<1>1. c \in 1 .. Len(H) /\ List(H, c, L[c], r)
  BY DEF Links
<1>2. L[c] \in Seq(1 .. Len(H))
  BY <1>1 DEF List, Circle
<1> QED BY <1>1, <1>2

(* New values T, with the empty containers D among them.                     *)
Fresh(H, T, D) ==
    /\ D \subseteq (Len(H) + 1) .. (Len(H) + Len(T))
    /\ \A c \in D : IsContainer((H \o T)[c]) /\ (H \o T)[c].len = 0
Ranks(H, T, r, q) ==
    q \in [1 .. Len(H) + Len(T) -> Int] /\ \A n \in 1 .. Len(H) : q[n] = r[n]
Grown(C, L, D) == Joined(C, L, D, [x \in D |-> << >>])
Kept(H, C, L, E, M) ==
    /\ \A c \in C : M[c] = L[c]
    /\ \A n : Unlisted(C, L, n) => Unlisted(E, M, n)
    /\ \A n : n \notin 1 .. Len(H) => Unlisted(E, M, n)

(* New values bring empty lists and disturb none.                           *)
LEMMA Grow ==
    ASSUME NEW H, NEW C, NEW L, NEW r, Links(H, C, L, r),
           NEW T, IsHeap(T), NEW q, Ranks(H, T, r, q), NEW D, Fresh(H, T, D)
    PROVE  /\ Links(H \o T, C \cup D, Grown(C, L, D), q)
           /\ Kept(H, C, L, C \cup D, Grown(C, L, D))
<1> DEFINE E == [x \in D |-> << >>]
           M == Grown(C, L, D)
<1>1. PICK G : G = H \o T
  OBVIOUS
<1>2. IsHeap(H) /\ Len(H) \in Nat /\ Len(T) \in Nat /\ C \subseteq 1 .. Len(H)
  BY DEF Links, IsHeap
<1>3. IsHeap(G) /\ Len(G) = Len(H) + Len(T) /\ \A n \in 1 .. Len(H) : G[n] = H[n]
  <2>1. Concat(H, T, H \o T)
    BY <1>2, HeapConcat
  <2> QED BY <1>1, <2>1 DEF Concat
<1>4. Len(H) <= Len(G) /\ q \in [1 .. Len(G) -> Int]
  BY <1>2, <1>3 DEF Ranks
<1>5. Undisturbed(H, G, C, L, q)
  <2>1. ASSUME NEW c \in C, NEW i \in 1 .. Len(L[c])
        PROVE  LET m == L[c][i]
               IN  /\ G[m].kind = H[m].kind /\ G[m].doc = H[m].doc
                   /\ G[m].next = H[m].next /\ q[m] < q[c]
    <3>1. L[c][i] \in 1 .. Len(H) /\ r[L[c][i]] < r[c] /\ c \in 1 .. Len(H)
      BY InHeap DEF List
    <3> QED BY <3>1, <1>3 DEF Ranks
  <2>2. \A c \in C : G[c] = H[c]
    BY <1>2, <1>3
  <2> QED BY <2>1, <2>2 DEF Undisturbed
<1>6. Links(G, C, L, q)
  BY <1>3, <1>4, <1>5, Frame
<1>7. Links(G, D, E, q)
  <2>1. D \subseteq 1 .. Len(G)
    BY <1>2, <1>3 DEF Fresh
  <2>2. ASSUME NEW c \in D PROVE List(G, c, E[c], q)
    BY <1>1, EmptyList DEF Fresh
  <2>3. \A c, e \in D : c # e => Apart(E[c], E[e])
    BY DEF Apart
  <2> QED BY <2>1, <2>2, <2>3, <1>3, <1>4 DEF Links
<1>8. C \cap D = {}
  BY <1>2 DEF Fresh
<1>9. \A c \in C, d \in D : Apart(L[c], E[d])
  BY DEF Apart
<1>10. Links(G, C \cup D, M, q)
  <2> HIDE DEF E
  <2>1. Links(G, C \cup D, Joined(C, L, D, E), q)
    BY <1>6, <1>7, <1>8, <1>9, Join
  <2> QED BY <2>1 DEF Grown, E
<1>11. (\A c \in C : M[c] = L[c]) /\ \A d \in D : M[d] = << >> \/ d \in C
  BY DEF Grown, Joined
<1>12. ASSUME NEW n, Unlisted(C, L, n) PROVE Unlisted(C \cup D, M, n)
  <2> HIDE DEF M
  <2> QED BY <1>8, <1>11, <1>12 DEF Unlisted
<1>13. ASSUME NEW n, n \notin 1 .. Len(H) PROVE Unlisted(C, L, n)
  BY <1>13, InHeap DEF Unlisted
<1>14. Kept(H, C, L, C \cup D, M)
  <2> HIDE DEF M
  <2> QED BY <1>11, <1>12, <1>13 DEF Kept
<1> QED BY <1>1, <1>10, <1>14

(* A value that was in no list and is not of the pair is in no list after   *)
(* the pair was added.                                                      *)
LEMMA AddTwoUnlisted ==
    ASSUME NEW H, NEW C, NEW L, NEW r, Links(H, C, L, r), NEW o \in C,
           NEW key \in 1 .. Len(H), NEW val \in 1 .. Len(H),
           NEW n, n # key, n # val, Unlisted(C, L, n)
    PROVE  Unlisted(C, With(C \ {o}, L, o, AddTwo(L[o], key, val)), n)
<1> DEFINE s == L[o]
           t == AddTwo(s, key, val)
           M == With(C \ {o}, L, o, t)
<1>1. s \in Seq(1 .. Len(H)) /\ <<key, val>> \in Seq(1 .. Len(H)) /\ Len(<<key, val>>) = 2
  BY InHeap
<1>2. Len(t) = Len(s) + 2 /\ \A i \in 1 .. Len(s) + 2 : t[i] = IF i <= Len(s) THEN s[i] ELSE <<key, val>>[i - Len(s)]
  BY <1>1, ConcatProperties DEF AddTwo
<1>3. \A i \in 1 .. Len(t) : t[i] # n
  <2> SUFFICES ASSUME NEW i \in 1 .. Len(s) + 2 PROVE t[i] # n
    BY <1>2
  <2>1. Len(s) \in Nat
    BY <1>1
  <2>2. CASE i <= Len(s)
    <3>1. i \in 1 .. Len(s)
      BY <2>1, <2>2
    <3> QED BY <2>2, <3>1, <1>2 DEF Unlisted
  <2>3. CASE ~(i <= Len(s))
    <3>1. i - Len(s) \in {1, 2}
      BY <2>1, <2>3
    <3>2. \A j \in {1, 2} : <<key, val>>[j] # n
      OBVIOUS
    <3>3. t[i] = <<key, val>>[i - Len(s)]
      BY <2>3, <1>2
    <3> QED BY <3>1, <3>2, <3>3
  <2> QED BY <2>2, <2>3
<1>4. M[o] = t /\ \A c \in C \ {o} : M[c] = L[c]
  BY DEF With
<1> HIDE DEF M, t
<1> QED BY <1>3, <1>4 DEF Unlisted, M, t

(* The heap W has the values of V, of the same documents, and new ones of d. *)
Extends(V, W, d) ==
    /\ IsHeap(W) /\ Len(V) <= Len(W)
    /\ \A n \in 1 .. Len(V) : W[n].doc = V[n].doc /\ (IsContainer(W[n]) => IsContainer(V[n]))
    /\ \A n \in (Len(V) + 1) .. Len(W) : W[n].doc = d

(* The types after a step that allocates values in one live document.       *)
LEMMA TypedStep ==
    ASSUME NEW V, IsHeap(V), NEW D, NEW F, Typed(V, D, F),
           NEW d \in Docs, D[d].state = "live", NEW W, Extends(V, W, d),
           NEW G \in SUBSET (1 .. Len(W)), \A e \in Docs : D[e].root # NULL => D[e].root \in G
    PROVE  Typed(W, D, G)
<1>1. Len(V) \in Nat /\ Len(W) \in Nat
  BY DEF IsHeap, Extends
<1>2. ASSUME NEW n \in 1 .. Len(W)
      PROVE  \/ n \in 1 .. Len(V) /\ W[n].doc = V[n].doc /\ (IsContainer(W[n]) => n \in Boxes(V))
             \/ W[n].doc = d
  <2>1. n \in 1 .. Len(V) \/ n \in (Len(V) + 1) .. Len(W)
    BY <1>1
  <2> QED BY <2>1 DEF Extends, Boxes
<1>3. \A n \in 1 .. Len(W) : W[n].doc \in Docs
  BY <1>2 DEF Typed
<1>4. \A c \in Boxes(W) : D[W[c].doc].state = "live"
  BY <1>2 DEF Typed, Boxes
<1>5. \A e \in Docs : D[e].root # NULL => W[D[e].root].doc = e
  BY DEF Typed, Extends
<1> QED BY <1>3, <1>4, <1>5 DEF Typed

(* What allocation returns are values of the document: one,                 *)
LEMMA LeafIsValue ==
    ASSUME NEW d, NEW kind, NEW data
    PROVE  /\ IsValue(Leaf(d, kind, data)) /\ Leaf(d, kind, data).doc = d
           /\ Leaf(d, kind, data).kind = kind /\ Leaf(d, kind, data).len = 0
BY DEF Leaf, IsValue

(* a heap of one,                                                           *)
LEMMA OneValue ==
    ASSUME NEW v, IsValue(v)
    PROVE  IsHeap(<<v>>) /\ Len(<<v>>) = 1 /\ <<v>>[1] = v
BY DEF IsHeap

(* a heap of two.                                                           *)
LEMMA TwoValues ==
    ASSUME NEW v, IsValue(v), NEW w, IsValue(w)
    PROVE  IsHeap(<<v, w>>) /\ Len(<<v, w>>) = 2 /\ <<v, w>>[1] = v /\ <<v, w>>[2] = w
<1>1. PICK T : T = <<v, w>>
  OBVIOUS
<1>2. Len(T) = 2 /\ T[1] = v /\ T[2] = w
  BY <1>1
<1>3. T = [n \in 1 .. 2 |-> T[n]]
  BY <1>1
<1>4. \A n \in 1 .. 2 : IsValue(T[n])
  BY <1>2
<1> QED BY <1>1, <1>2, <1>3, <1>4 DEF IsHeap

(* A step that keeps kinds keeps the containers.                            *)
LEMMA BoxesSame ==
    ASSUME NEW H, IsHeap(H), NEW G, Same(H, G)
    PROVE  Boxes(G) = Boxes(H)
BY DEF Boxes, Same, IsContainer

(* A new key and a new value, perhaps an empty container, are added.         *)
LEMMA AddNew ==
    ASSUME NEW V, NEW F, IsHeap(V), F \subseteq 1 .. Len(V), Sound(V, F),
           NEW o \in Boxes(V), V[o].kind = "obj",
           NEW k, IsValue(k), k.kind = "str", k.doc = V[o].doc,
           NEW v, IsValue(v), v.doc = V[o].doc, v.len = 0,
           NEW W, W = ObjAdd(V \o <<k, v>>, o, Len(V) + 1, Len(V) + 2)
    PROVE  Sound(W, F) /\ Extends(V, W, V[o].doc)
<1> DEFINE T == <<k, v>>
           N == Len(V)
<1>1. PICK L, r : Links(V, Boxes(V), L, r) /\ \A n \in F : Unlisted(Boxes(V), L, n)
  BY DEF Sound
<1> DEFINE H == V \o T
<1>3. IsHeap(T) /\ Len(T) = 2 /\ T[1] = k /\ T[2] = v
  BY TwoValues
<1> HIDE DEF T
<1>4. N \in Nat /\ o \in 1 .. N /\ r \in [1 .. N -> Int]
  BY <1>1 DEF IsHeap, Boxes, Links
<1>5. IsHeap(H) /\ Len(H) = N + 2 /\ (\A n \in 1 .. N : H[n] = V[n]) /\ H[N + 1] = k /\ H[N + 2] = v
  <2>1. IsHeap(H) /\ Len(H) = N + Len(T) /\ (\A n \in 1 .. N : H[n] = V[n]) /\ \A i \in 1 .. Len(T) : H[N + i] = T[i]
    <3>1. Concat(V, T, H)
      BY <1>3, HeapConcat
    <3> HIDE DEF H
    <3> QED BY <3>1 DEF Concat
  <2>2. 1 \in 1 .. Len(T) /\ 2 \in 1 .. Len(T)
    BY <1>3
  <2> HIDE DEF H
  <2> QED BY <2>1, <2>2, <1>3
<1> HIDE DEF H
<1> DEFINE q == [n \in 1 .. N + 2 |-> IF n \in 1 .. N THEN r[n] ELSE r[o] - 1]
           D == Boxes(H) \ Boxes(V)
<1>6. Ranks(V, T, r, q)
  <2>1. r[o] \in Int /\ r[o] - 1 \in Int
    BY <1>4
  <2>2. \A n \in 1 .. N + 2 : n \in 1 .. N => r[n] \in Int
    BY <1>4
  <2>3. \A n \in 1 .. N : n \in 1 .. N + 2
    BY <1>4
  <2>4. q \in [1 .. N + 2 -> Int] /\ \A n \in 1 .. N : q[n] = r[n]
    BY <2>1, <2>2, <2>3
  <2> QED BY <2>4, <1>3 DEF Ranks
<1>7. Fresh(V, T, D)
  <2>1. ASSUME NEW c \in D PROVE c = N + 2 /\ IsContainer(H[c])
    <3>1. c \in 1 .. N + 2 /\ IsContainer(H[c]) /\ c \notin Boxes(V)
      BY <1>5 DEF Boxes
    <3>2. c \notin 1 .. N
      BY <3>1, <1>5 DEF Boxes
    <3>3. c # N + 1
      BY <3>1, <1>5 DEF IsContainer
    <3>4. N + 1 \in Nat /\ N + 2 \in Nat /\ (c \in 1 .. N + 2 => c \in 1 .. N \/ c = N + 1 \/ c = N + 2)
      BY <1>4, SMTT(30)
    <3> QED BY <3>1, <3>2, <3>3, <3>4
  <2>2. N + 2 \in (N + 1) .. (N + Len(T))
    BY <1>3, <1>4
  <2> HIDE DEF D
  <2>3. D \subseteq (N + 1) .. (N + Len(T))
    BY <2>1, <2>2
  <2>4. \A c \in D : IsContainer((V \o T)[c]) /\ (V \o T)[c].len = 0
    BY <2>1, <1>5 DEF H
  <2> QED BY <2>3, <2>4 DEF Fresh
<1> DEFINE C == Boxes(H)
           M == Grown(Boxes(V), L, D)
<1>8. Boxes(V) \cup D = C
  <2>1. \A c \in Boxes(V) : c \in C
    BY <1>4, <1>5 DEF Boxes
  <2> QED BY <2>1
<1> HIDE DEF D, q
<1>9. /\ Links(H, C, M, q) /\ (\A c \in Boxes(V) : M[c] = L[c])
      /\ \A n : Unlisted(Boxes(V), L, n) => Unlisted(C, M, n)
      /\ \A n : n \notin 1 .. N => Unlisted(C, M, n)
  <2>1. Links(V \o T, Boxes(V) \cup D, M, q) /\ Kept(V, Boxes(V), L, Boxes(V) \cup D, M)
    BY <1>1, <1>3, <1>6, <1>7, Grow
  <2> HIDE DEF M, C
  <2> QED BY <2>1, <1>8 DEF H, Kept
<1> DEFINE key == N + 1
           val == N + 2
<1> HIDE DEF M
<1>10. /\ o \in C /\ H[o].kind = "obj" /\ H[o].doc = V[o].doc
       /\ key \in 1 .. Len(H) /\ val \in 1 .. Len(H) /\ key # val
       /\ H[key].doc = H[o].doc /\ H[val].doc = H[o].doc /\ H[key].kind = "str"
  BY <1>4, <1>5, <1>8
<1>11. q[key] < q[o] /\ q[val] < q[o]
  <2>1. key \in 1 .. N + 2 /\ key \notin 1 .. N /\ val \in 1 .. N + 2 /\ val \notin 1 .. N /\ o \in 1 .. N + 2
    BY <1>4
  <2>2. r[o] \in Int /\ r[o] - 1 < r[o]
    BY <1>4
  <2>3. q[key] = r[o] - 1 /\ q[val] = r[o] - 1 /\ q[o] = r[o]
    BY <2>1, <1>4 DEF q
  <2> QED BY <2>2, <2>3
<1>12. Unlisted(C, M, key) /\ Unlisted(C, M, val)
  <2>1. key \notin 1 .. N /\ val \notin 1 .. N
    BY <1>4
  <2> QED BY <2>1, <1>9
<1> DEFINE K == With(C \ {o}, M, o, AddTwo(M[o], key, val))
<1>13. W = ObjAdd(H, o, key, val)
  BY DEF T, H
<1> HIDE DEF key, val, C
<1>14. Same(H, W) /\ Links(W, C, K, q)
  <2>1. Same(H, ObjAdd(H, o, key, val)) /\ Links(ObjAdd(H, o, key, val), C, K, q)
    BY <1>9, <1>10, <1>11, <1>12, AddMember
  <2> QED BY <2>1, <1>13
<1>15. C = Boxes(W)
  BY <1>14, <1>5, BoxesSame DEF C
<1>16. ASSUME NEW n \in F PROVE Unlisted(C, K, n)
  <2>1. Unlisted(C, M, n)
    BY <1>1, <1>9
  <2>2. n # key /\ n # val
    BY <1>4 DEF key, val
  <2> QED BY <2>1, <2>2, <1>9, <1>10, AddTwoUnlisted
<1> HIDE DEF K
<1>17. Sound(W, F)
  BY <1>14, <1>15, <1>16 DEF Sound
<1>18. Extends(V, W, V[o].doc)
  <2>1. IsHeap(W) /\ Len(W) = N + 2 /\ N <= Len(W)
    BY <1>4, <1>5, <1>14 DEF Same
  <2>2. \A n \in 1 .. N : W[n].doc = V[n].doc /\ (IsContainer(W[n]) => IsContainer(V[n]))
    <3>1. \A n \in 1 .. N : n \in 1 .. Len(H)
      BY <1>4, <1>5
    <3>2. \A n \in 1 .. N : W[n].doc = H[n].doc /\ W[n].kind = H[n].kind
      BY <3>1, <1>14 DEF Same
    <3>3. \A n \in 1 .. N : H[n] = V[n]
      BY <1>5
    <3> HIDE DEF N
    <3> QED BY <3>2, <3>3 DEF IsContainer
  <2>3. ASSUME NEW n \in (N + 1) .. Len(W) PROVE W[n].doc = V[o].doc
    <3>1. n = key \/ n = val
      BY <2>1, <1>4 DEF key, val
    <3> QED BY <3>1, <1>10, <1>14 DEF Same
  <2> QED BY <2>1, <2>2, <2>3 DEF Extends
<1> QED BY <1>17, <1>18

-----------------------------------------------------------------------------
(* The steps.                                                                *)
LEMMA InvFacts ==
    ASSUME IInv
    PROVE  /\ IsHeap(vals) /\ Len(vals) \in Nat /\ DOMAIN vals = 1 .. Len(vals)
           /\ Containers = Boxes(vals) /\ docs \in [Docs -> Documents]
           /\ loose \in SUBSET (1 .. Len(vals))
           /\ \A n \in 1 .. Len(vals) : vals[n].doc \in Docs
           /\ \A o \in Objects : o \in Boxes(vals) /\ vals[o].kind = "obj" /\ Live(vals[o].doc)
<1>1. IsHeap(vals)
  BY DEF IInv, Sound, Links
<1>2. DOMAIN vals = 1 .. Len(vals) /\ Len(vals) \in Nat
  BY <1>1 DEF IsHeap
<1>3. Containers = Boxes(vals)
  BY <1>2 DEF Containers, Boxes, IInv, Typed, Live
<1>4. \A o \in Objects : o \in Boxes(vals) /\ vals[o].kind = "obj" /\ Live(vals[o].doc)
  BY <1>2 DEF Objects, Boxes, IsContainer
<1> QED BY <1>1, <1>2, <1>3, <1>4 DEF IInv, Typed

(* At first there are no values.                                            *)
LEMMA InitInv == Init => IInv
<1> SUFFICES ASSUME Init PROVE IInv
  OBVIOUS
<1>1. Len(vals) = 0 /\ IsHeap(vals)
  BY DEF Init, IsHeap
<1>2. Boxes(vals) = {}
  BY <1>1 DEF Boxes
<1>3. Typed(vals, docs, loose)
  <2>1. docs \in [Docs -> Documents] /\ \A d \in Docs : docs[d].root = NULL
    BY DEF Init, Documents, NULL
  <2>2. loose = {}
    BY DEF Init
  <2> QED BY <1>1, <1>2, <2>1, <2>2 DEF Typed
<1>4. Sound(vals, loose)
  <2>1. loose = {}
    BY DEF Init
  <2>2. Links(vals, {}, << >>, [n \in 1 .. Len(vals) |-> 0])
    BY <1>1 DEF Links
  <2>3. Links(vals, Boxes(vals), << >>, [n \in 1 .. Len(vals) |-> 0])
    BY <2>2, <1>2
  <2> QED BY <2>1, <2>3 DEF Sound
<1> QED BY <1>3, <1>4 DEF IInv

(* A new document has none, either.                                         *)
LEMMA StepNew ==
    ASSUME IInv, NEW d \in Docs, mut_doc_new(d)
    PROVE  IInv'
<1>1. docs' = [docs EXCEPT ![d].state = "live"] /\ vals' = vals /\ loose' = loose
  BY DEF mut_doc_new
<1>2. docs \in [Docs -> Documents]
  BY InvFacts
<1>3. /\ docs' \in [Docs -> Documents] /\ \A e \in Docs : docs'[e].root = docs[e].root
      /\ \A e \in Docs : docs[e].state = "live" => docs'[e].state = "live"
  BY <1>1, <1>2 DEF Documents
<1>4. Typed(vals, docs', loose)
  BY <1>3 DEF IInv, Typed, Boxes
<1> QED BY <1>1, <1>4 DEF IInv

(* A freed document takes all its containers and loose values with it; the  *)
(* lists of the others are apart from them.                                 *)
LEMMA StepFree ==
    ASSUME IInv, NEW d \in Docs, mut_doc_free(d)
    PROVE  IInv'
<1>1. /\ docs' = [docs EXCEPT ![d] = [state |-> "freed", root |-> NULL]]
      /\ vals' = [n \in DOMAIN vals |-> IF vals[n].doc = d THEN Lost(d) ELSE vals[n]]
      /\ loose' = {n \in loose : vals[n].doc # d}
  BY DEF mut_doc_free
<1>2. IsHeap(vals) /\ Len(vals) \in Nat /\ DOMAIN vals = 1 .. Len(vals) /\ docs \in [Docs -> Documents]
  BY InvFacts
<1>3. PICK W : W = [n \in 1 .. Len(vals) |-> IF vals[n].doc = d THEN Lost(d) ELSE vals[n]]
  OBVIOUS
<1>4. vals' = W
  BY <1>1, <1>2, <1>3
<1>5. IsValue(Lost(d)) /\ Lost(d).doc = d /\ ~IsContainer(Lost(d))
  BY LeafIsValue DEF Lost, IsContainer
<1>6. /\ IsHeap(W) /\ Len(W) = Len(vals)
      /\ \A n \in 1 .. Len(vals) : W[n] = IF vals[n].doc = d THEN Lost(d) ELSE vals[n]
  <2>1. \A n \in 1 .. Len(vals) : W[n] = IF vals[n].doc = d THEN Lost(d) ELSE vals[n]
    BY <1>3
  <2>2. Len(W) = Len(vals) /\ W = [n \in 1 .. Len(vals) |-> W[n]]
    BY <1>2, <1>3
  <2>3. \A n \in 1 .. Len(vals) : IsValue(W[n])
    BY <2>1, <1>2, <1>5 DEF IsHeap
  <2> QED BY <2>1, <2>2, <2>3, <1>2 DEF IsHeap
<1>7. /\ Boxes(W) \subseteq Boxes(vals) /\ \A c \in Boxes(W) : W[c] = vals[c] /\ vals[c].doc # d
      /\ \A n \in 1 .. Len(vals) : W[n].doc = vals[n].doc
  BY <1>5, <1>6 DEF Boxes
<1>8. Typed(W, docs', loose')
  <2>1. /\ docs' \in [Docs -> Documents] /\ docs'[d].root = NULL
        /\ \A e \in Docs : e # d => docs'[e] = docs[e]
    BY <1>1, <1>2 DEF Documents, NULL
  <2>2. \A c \in Boxes(W) : docs'[W[c].doc].state = "live"
    BY <1>7, <2>1 DEF IInv, Typed, Boxes
  <2>3. ASSUME NEW e \in Docs, docs'[e].root # NULL
        PROVE  docs'[e].root \in loose' /\ W[docs'[e].root].doc = e
    <3>1. e # d /\ docs'[e] = docs[e]
      BY <2>1, <2>3
    <3>2. docs[e].root \in loose /\ vals[docs[e].root].doc = e /\ docs[e].root \in 1 .. Len(vals)
      BY <2>3, <3>1 DEF IInv, Typed
    <3> QED BY <3>1, <3>2, <1>1, <1>7
  <2>4. loose' \subseteq 1 .. Len(W) /\ \A n \in 1 .. Len(W) : W[n].doc \in Docs
    BY <1>1, <1>6, <1>7 DEF IInv, Typed
  <2> QED BY <2>1, <2>2, <2>3, <2>4 DEF Typed
<1>9. Sound(W, loose')
  <2>1. PICK L, r : Links(vals, Boxes(vals), L, r) /\ \A n \in loose : Unlisted(Boxes(vals), L, n)
    BY DEF IInv, Sound
  <2>2. ASSUME NEW c \in Boxes(W), NEW i \in 1 .. Len(L[c])
        PROVE  W[L[c][i]] = vals[L[c][i]] /\ r[L[c][i]] < r[c]
    <3>1. List(vals, c, L[c], r) /\ L[c][i] \in 1 .. Len(vals) /\ vals[c].doc # d
      BY <2>1, <1>7, InHeap
    <3>2. vals[L[c][i]].doc = vals[c].doc /\ r[L[c][i]] < r[c]
      BY <3>1 DEF List
    <3> QED BY <3>1, <3>2, <1>6
  <2>3. Undisturbed(vals, W, Boxes(W), L, r)
    BY <2>2, <1>7 DEF Undisturbed
  <2>4. r \in [1 .. Len(W) -> Int] /\ Len(vals) <= Len(W)
    BY <2>1, <1>2, <1>6 DEF Links
  <2>5. Links(W, Boxes(W), L, r)
    BY <2>1, <2>3, <2>4, <1>6, <1>7, Frame
  <2>6. \A n \in loose' : Unlisted(Boxes(W), L, n)
    BY <2>1, <1>1, <1>7 DEF Unlisted
  <2> QED BY <2>5, <2>6 DEF Sound
<1> QED BY <1>4, <1>8, <1>9 DEF IInv

(* The root is one of the loose values, and stays it.                       *)
LEMMA StepRoot ==
    ASSUME IInv, NEW d \in Docs, NEW v, mut_doc_set_root(d, v)
    PROVE  IInv'
<1>1. /\ docs' = [docs EXCEPT ![d].root = v] /\ vals' = vals /\ loose' = loose
      /\ v \in {NULL} \cup {n \in loose : vals[n].doc = d}
  BY DEF mut_doc_set_root
<1>2. docs \in [Docs -> Documents] /\ loose \in SUBSET (1 .. Len(vals))
  BY InvFacts
<1>3. v \in Nat
  BY <1>1, <1>2 DEF NULL
<1>4. /\ docs' \in [Docs -> Documents] /\ docs'[d].root = v /\ \A e \in Docs : docs'[e].state = docs[e].state
      /\ \A e \in Docs : e # d => docs'[e] = docs[e]
  BY <1>1, <1>2, <1>3 DEF Documents
<1>5. ASSUME NEW e \in Docs, docs'[e].root # NULL
      PROVE  docs'[e].root \in loose /\ vals[docs'[e].root].doc = e
  <2>1. CASE e = d
    BY <2>1, <1>1, <1>4, <1>5
  <2>2. CASE e # d
    BY <2>2, <1>4, <1>5 DEF IInv, Typed
  <2> QED BY <2>1, <2>2
<1>6. Typed(vals, docs', loose)
  BY <1>4, <1>5 DEF IInv, Typed, Boxes
<1> QED BY <1>1, <1>6 DEF IInv

(* A new container is empty and in no list.                                  *)
LEMMA StepContainer ==
    ASSUME IInv, NEW d \in Docs, NEW kind \in {"arr", "obj"}, mut_container(d, kind)
    PROVE  IInv'
<1> DEFINE x == Container(d, kind)
           T == <<x>>
           N == Len(vals)
           W == vals \o T
<1>1. /\ Live(d) /\ docs' = docs /\ vals' = Append(vals, x) /\ loose' = loose \cup {N + 1}
  BY DEF mut_container, New
<1>2. IsHeap(vals) /\ N \in Nat /\ loose \in SUBSET (1 .. N)
  BY InvFacts
<1>3. IsValue(x) /\ x.doc = d /\ x.len = 0 /\ IsContainer(x)
  BY LeafIsValue DEF Container, IsContainer
<1> HIDE DEF x
<1>4. IsHeap(T) /\ Len(T) = 1 /\ T[1] = x
  BY <1>3, OneValue
<1>5. vals' = W
  BY <1>1, <1>2 DEF IsHeap
<1> HIDE DEF T
<1>6. Concat(vals, T, W)
  BY <1>2, <1>4, HeapConcat
<1> HIDE DEF W
<1>7. IsHeap(W) /\ Len(W) = N + 1 /\ (\A n \in 1 .. N : W[n] = vals[n]) /\ W[N + 1] = x
  BY <1>4, <1>6 DEF Concat
<1>8. Boxes(W) = Boxes(vals) \cup {N + 1}
  <2>1. \A n \in 1 .. N + 1 : n \in 1 .. N \/ n = N + 1
    BY <1>2
  <2>2. N + 1 \in 1 .. N + 1 /\ \A n \in 1 .. N : n \in 1 .. N + 1
    BY <1>2
  <2> HIDE DEF N
  <2>3. \A n \in 1 .. N + 1 : IsContainer(W[n]) <=> (n \in 1 .. N /\ IsContainer(vals[n])) \/ n = N + 1
    BY <2>1, <1>3, <1>7
  <2> QED BY <2>2, <2>3, <1>7 DEF Boxes, N
<1>9. PICK L, r : Links(vals, Boxes(vals), L, r) /\ \A n \in loose : Unlisted(Boxes(vals), L, n)
  BY DEF IInv, Sound
<1> DEFINE q == [n \in 1 .. N + 1 |-> IF n \in 1 .. N THEN r[n] ELSE 0]
           M == Grown(Boxes(vals), L, {N + 1})
<1>10. Ranks(vals, T, r, q)
  <2>1. r \in [1 .. N -> Int]
    BY <1>9 DEF Links
  <2>2. \A n \in 1 .. N : n \in 1 .. N + 1
    BY <1>2
  <2>3. q \in [1 .. N + 1 -> Int] /\ \A n \in 1 .. N : q[n] = r[n]
    BY <2>1, <2>2
  <2> QED BY <2>3, <1>4 DEF Ranks
<1>11. Fresh(vals, T, {N + 1})
  <2>1. N + 1 \in (N + 1) .. (N + Len(T))
    BY <1>2, <1>4
  <2>2. IsContainer(W[N + 1]) /\ W[N + 1].len = 0
    BY <1>3, <1>7
  <2> QED BY <2>1, <2>2 DEF Fresh, W
<1> HIDE DEF q, M
<1>12. Links(W, Boxes(W), M, q) /\ Kept(vals, Boxes(vals), L, Boxes(W), M)
  <2>1. Links(vals \o T, Boxes(vals) \cup {N + 1}, M, q) /\ Kept(vals, Boxes(vals), L, Boxes(vals) \cup {N + 1}, M)
    BY <1>4, <1>9, <1>10, <1>11, Grow DEF M
  <2> QED BY <2>1, <1>8 DEF W
<1>13. Sound(W, loose')
  <2>1. N + 1 \notin 1 .. N
    BY <1>2
  <2>2. \A n \in loose' : Unlisted(Boxes(W), M, n)
    BY <2>1, <1>1, <1>9, <1>12 DEF Kept
  <2> QED BY <2>2, <1>12 DEF Sound
<1>14. Typed(W, docs, loose')
  <2>1. Extends(vals, W, d)
    <3>1. N <= Len(W) /\ \A n \in (N + 1) .. Len(W) : n = N + 1
      BY <1>2, <1>7
    <3> QED BY <3>1, <1>3, <1>7 DEF Extends
  <2>2. loose' \in SUBSET (1 .. Len(W))
    <3>1. N + 1 \in 1 .. N + 1 /\ \A n \in 1 .. N : n \in 1 .. N + 1
      BY <1>2
    <3> QED BY <3>1, <1>1, <1>2, <1>7
  <2>3. \A e \in Docs : docs[e].root # NULL => docs[e].root \in loose'
    BY <1>1 DEF IInv, Typed
  <2>4. docs[d].state = "live"
    BY <1>1 DEF Live
  <2> QED BY <2>1, <2>2, <2>3, <2>4, <1>2, TypedStep DEF IInv
<1> QED BY <1>1, <1>5, <1>13, <1>14 DEF IInv

(* A new pair is added to an object.                                         *)
LEMMA StepAddNew ==
    ASSUME IInv, NEW o \in Objects,
           NEW k, IsValue(k), k.kind = "str", k.doc = vals[o].doc,
           NEW v, IsValue(v), v.doc = vals[o].doc, v.len = 0,
           vals' = ObjAdd(vals \o <<k, v>>, o, Len(vals) + 1, Len(vals) + 2),
           docs' = docs, loose' = loose
    PROVE  IInv'
<1> DEFINE W == ObjAdd(vals \o <<k, v>>, o, Len(vals) + 1, Len(vals) + 2)
<1>1. /\ IsHeap(vals) /\ loose \subseteq 1 .. Len(vals) /\ o \in Boxes(vals) /\ vals[o].kind = "obj"
      /\ Live(vals[o].doc) /\ vals[o].doc \in Docs /\ Len(vals) \in Nat
  BY InvFacts DEF Boxes
<1>2. Sound(W, loose) /\ Extends(vals, W, vals[o].doc)
  <2>1. Sound(vals, loose)
    BY DEF IInv
  <2> QED BY <1>1, <2>1, AddNew
<1> HIDE DEF W
<1>3. Typed(W, docs, loose)
  <2>1. loose \in SUBSET (1 .. Len(W))
    <3>1. Len(W) \in Nat /\ Len(vals) <= Len(W)
      BY <1>2 DEF Extends, IsHeap
    <3> QED BY <3>1, <1>1
  <2>2. \A e \in Docs : docs[e].root # NULL => docs[e].root \in loose
    BY DEF IInv, Typed
  <2>3. docs[vals[o].doc].state = "live"
    BY <1>1 DEF Live
  <2> QED BY <1>1, <1>2, <2>1, <2>2, <2>3, TypedStep DEF IInv
<1>4. vals' = W
  BY DEF W
<1> QED BY <1>2, <1>3, <1>4 DEF IInv

(* Adding a key and a new plain value (AddPair): neither is in a list.      *)
LEMMA StepPair ==
    ASSUME IInv, NEW o \in Objects, NEW k, NEW v, IsValue(v), v.doc = vals[o].doc, v.len = 0,
           AddPair(o, k, v)
    PROVE  IInv'
<1> DEFINE key == Str(vals[o].doc, Borrowed(k))
<1>1. IsValue(key) /\ key.kind = "str" /\ key.doc = vals[o].doc
  BY LeafIsValue DEF Str
<1>2. /\ vals' = ObjAdd(vals \o <<key, v>>, o, Len(vals) + 1, Len(vals) + 2)
      /\ docs' = docs /\ loose' = loose
  BY DEF AddPair, New
<1> HIDE DEF key
<1> QED BY <1>1, <1>2, StepAddNew

(* Two values that nobody has a pointer to.                                  *)
LEMMA StepLost ==
    ASSUME IInv, NEW d \in Docs, Live(d),
           vals' = vals \o <<Lost(d), Lost(d)>>, docs' = docs, loose' = loose
    PROVE  IInv'
<1> DEFINE x == Lost(d)
           T == <<x, x>>
           N == Len(vals)
           W == vals \o T
<1>1. IsHeap(vals) /\ N \in Nat /\ loose \in SUBSET (1 .. N)
  BY InvFacts
<1>2. IsValue(x) /\ x.doc = d /\ ~IsContainer(x)
  BY LeafIsValue DEF Lost, IsContainer
<1>3. vals' = W
  OBVIOUS
<1> HIDE DEF x
<1>4. IsHeap(T) /\ Len(T) = 2 /\ T[1] = x /\ T[2] = x
  BY <1>2, TwoValues
<1> HIDE DEF T
<1>5. Concat(vals, T, W)
  BY <1>1, <1>4, HeapConcat
<1> HIDE DEF W
<1>6. IsHeap(W) /\ Len(W) = N + 2 /\ (\A n \in 1 .. N : W[n] = vals[n]) /\ W[N + 1] = x /\ W[N + 2] = x
  <2>1. 1 \in 1 .. Len(T) /\ 2 \in 1 .. Len(T)
    BY <1>4
  <2> QED BY <2>1, <1>4, <1>5 DEF Concat
<1>7. \A n \in (N + 1) .. (N + 2) : W[n] = x
  <2>1. \A n \in (N + 1) .. (N + 2) : n = N + 1 \/ n = N + 2
    BY <1>1
  <2> QED BY <2>1, <1>6
<1>8. \A n \in 1 .. N + 2 : n \in 1 .. N \/ n \in (N + 1) .. (N + 2)
  BY <1>1
<1>9. Boxes(W) = Boxes(vals)
  <2>1. \A n \in 1 .. N : n \in 1 .. N + 2
    BY <1>1
  <2> QED BY <2>1, <1>2, <1>6, <1>7, <1>8 DEF Boxes
<1>10. PICK L, r : Links(vals, Boxes(vals), L, r) /\ \A n \in loose : Unlisted(Boxes(vals), L, n)
  BY DEF IInv, Sound
<1> DEFINE q == [n \in 1 .. N + 2 |-> IF n \in 1 .. N THEN r[n] ELSE 0]
           M == Grown(Boxes(vals), L, {})
<1>11. Ranks(vals, T, r, q)
  <2>1. r \in [1 .. N -> Int]
    BY <1>10 DEF Links
  <2>2. \A n \in 1 .. N : n \in 1 .. N + 2
    BY <1>1
  <2>3. q \in [1 .. N + 2 -> Int] /\ \A n \in 1 .. N : q[n] = r[n]
    BY <2>1, <2>2
  <2> QED BY <2>3, <1>4 DEF Ranks
<1>12. Fresh(vals, T, {})
  BY DEF Fresh
<1> HIDE DEF q, M
<1>13. Links(W, Boxes(W), M, q) /\ Kept(vals, Boxes(vals), L, Boxes(W), M)
  <2>1. Links(vals \o T, Boxes(vals) \cup {}, M, q) /\ Kept(vals, Boxes(vals), L, Boxes(vals) \cup {}, M)
    BY <1>4, <1>10, <1>11, <1>12, Grow DEF M
  <2>2. Boxes(vals) \cup {} = Boxes(W)
    BY <1>9
  <2> QED BY <2>1, <2>2 DEF W
<1>14. Sound(W, loose)
  BY <1>10, <1>13 DEF Kept, Sound
<1>15. Typed(W, docs, loose)
  <2>1. Extends(vals, W, d)
    <3>1. N <= Len(W) /\ \A n \in (N + 1) .. Len(W) : W[n] = x
      BY <1>1, <1>6, <1>7
    <3> QED BY <3>1, <1>2, <1>6 DEF Extends
  <2>2. loose \in SUBSET (1 .. Len(W))
    <3>1. \A n \in 1 .. N : n \in 1 .. N + 2
      BY <1>1
    <3> QED BY <3>1, <1>1, <1>6
  <2>3. \A e \in Docs : docs[e].root # NULL => docs[e].root \in loose
    BY DEF IInv, Typed
  <2>4. docs[d].state = "live"
    BY DEF Live
  <2> QED BY <2>1, <2>2, <2>3, <2>4, <1>1, TypedStep DEF IInv
<1> QED BY <1>3, <1>14, <1>15 DEF IInv

(* Adding a new container under a key: it is one more container, with an    *)
(* empty list.                                                              *)
LEMMA StepAddContainer ==
    ASSUME IInv, NEW c \in Containers, NEW k, add_container(c, k, "obj")
    PROVE  IInv'
<1> DEFINE d == vals[c].doc
           key == Str(d, Borrowed(k))
           val == Container(d, "obj")
<1>1. c \in Boxes(vals) /\ d \in Docs /\ Live(d) /\ DOMAIN vals = 1 .. Len(vals)
  BY InvFacts DEF Containers, Boxes
<1>2. /\ vals' = IF vals[c].kind = "obj" THEN ObjAdd(vals \o <<key, val>>, c, Len(vals) + 1, Len(vals) + 2)
                 ELSE vals \o <<Lost(d), Lost(d)>>
      /\ docs' = docs /\ loose' = loose
  BY DEF add_container, New
<1>3. IsValue(key) /\ key.kind = "str" /\ key.doc = d
  BY LeafIsValue DEF Str
<1>4. IsValue(val) /\ val.doc = d /\ val.len = 0
  BY LeafIsValue DEF Container
<1> HIDE DEF key, val
<1>5. CASE vals[c].kind = "obj"
  <2>1. c \in Objects
    BY <1>1, <1>5 DEF Objects, Boxes
  <2> QED BY <2>1, <1>2, <1>3, <1>4, <1>5, StepAddNew
<1>6. CASE vals[c].kind # "obj"
  BY <1>1, <1>2, <1>6, StepLost
<1> QED BY <1>5, <1>6

(* The member after the last is the first.                                  *)
LEMMA ModAfter ==
    ASSUME NEW n \in Nat, NEW i \in 1 .. n
    PROVE  (i % n) + 1 = After(i, n)
<1>1. CASE i = n
  <2>1. n > 0
    BY <1>1
  <2>2. n % n = 0
    BY <2>1
  <2> QED BY <1>1, <2>2 DEF After
<1>2. CASE i # n
  <2>1. i \in 0 .. n - 1
    BY <1>2
  <2>2. i % n = i
    BY <2>1
  <2> QED BY <1>2, <2>2 DEF After
<1> QED BY <1>1, <1>2

(* A new array is a circle of its leaves.                                    *)
LEMMA StepArr ==
    ASSUME IInv, NEW d \in Docs, NEW leaves, IsHeap(leaves),
           \A i \in 1 .. Len(leaves) : leaves[i].doc = d /\ leaves[i].len = 0,
           arr_with(d, leaves)
    PROVE  IInv'
<1> DEFINE n == Len(leaves)
           N == Len(vals)
           a == [Container(d, "arr") EXCEPT !.last = IF leaves = << >> THEN NULL ELSE N + 1 + n, !.len = n]
           linked == [i \in 1 .. n |-> [leaves[i] EXCEPT !.next = N + 1 + (i % n) + 1]]
           T == <<a>> \o linked
           W == vals \o T
<1>1. /\ IsHeap(vals) /\ N \in Nat /\ loose \in SUBSET (1 .. N) /\ n \in Nat
      /\ DOMAIN leaves = 1 .. n /\ \A i \in 1 .. n : IsValue(leaves[i])
  BY InvFacts DEF IsHeap
<1>2. ASSUME NEW i \in 1 .. n PROVE N + 1 + (i % n) + 1 = N + 1 + After(i, n)
  <2>1. (i % n) + 1 = After(i, n)
    BY <1>1, ModAfter
  <2>2. i % n \in Nat
    BY <1>1
  <2> QED BY <1>1, <2>1, <2>2
<1>3. Live(d) /\ docs' = docs /\ vals' = W /\ loose' = loose \cup {N + 1}
  <2>1. ArrayOf(vals, d, leaves) =
          <<[Container(d, "arr") EXCEPT !.last = IF leaves = << >> THEN NULL ELSE N + (1 + n), !.len = n]>>
              \o [i \in 1 .. n |-> [leaves[i] EXCEPT !.next = N + (1 + (i % n) + 1)]]
    BY <1>1 DEF ArrayOf
  <2>2. N + (1 + n) = N + 1 + n
    BY <1>1
  <2>3. \A i \in 1 .. n : N + (1 + (i % n) + 1) = N + 1 + (i % n) + 1
    <3>1. \A i \in 1 .. n : i % n \in Nat
      BY <1>1
    <3> QED BY <1>1, <3>1
  <2>4. ArrayOf(vals, d, leaves) = T
    BY <2>1, <2>2, <2>3
  <2> HIDE DEF T
  <2> QED BY <2>4 DEF arr_with, New
<1>4. IsValue(a) /\ a.doc = d /\ a.kind = "arr" /\ a.len = n /\ (n > 0 => a.last = N + 1 + n)
  <2>1. Container(d, "arr") = [doc |-> d, kind |-> "arr", data |-> NULL, next |-> NULL, last |-> NULL, len |-> 0]
    BY DEF Container, Leaf
  <2>2. n > 0 => leaves # << >>
    BY <1>1
  <2>3. /\ IsValue(a) /\ a.doc = d /\ a.kind = "arr" /\ a.len = n
        /\ a.last = IF leaves = << >> THEN NULL ELSE N + 1 + n
    <3>1. PICK p : p = IF leaves = << >> THEN NULL ELSE N + 1 + n
      OBVIOUS
    <3>2. a = [Container(d, "arr") EXCEPT !.last = p, !.len = n]
      BY <3>1
    <3> HIDE DEF a
    <3>3. a = [doc |-> d, kind |-> "arr", data |-> NULL, next |-> NULL, last |-> p, len |-> n]
      <4>1. PICK b : b = [Container(d, "arr") EXCEPT !.last = p]
        OBVIOUS
      <4>2. a = [b EXCEPT !.len = n]
        BY <3>2, <4>1
      <4>3. b = [doc |-> d, kind |-> "arr", data |-> NULL, next |-> NULL, last |-> p, len |-> 0]
        BY <2>1, <4>1
      <4> QED BY <4>2, <4>3
    <3> QED BY <1>1, <3>1, <3>3 DEF IsValue
  <2> HIDE DEF a
  <2> QED BY <2>2, <2>3
<1> HIDE DEF a
<1>5. ASSUME NEW i \in 1 .. n
      PROVE  /\ IsValue(linked[i]) /\ linked[i].doc = d /\ linked[i].kind = leaves[i].kind
             /\ linked[i].len = 0 /\ linked[i].next = N + 1 + After(i, n)
  <2>1. linked[i] = [leaves[i] EXCEPT !.next = N + 1 + After(i, n)]
    BY <1>2
  <2>2. IsValue(leaves[i]) /\ leaves[i].doc = d /\ leaves[i].len = 0
    BY <1>1
  <2> HIDE DEF linked
  <2> QED BY <2>1, <2>2 DEF IsValue
<1>6. IsHeap(linked) /\ Len(linked) = n
  <2>1. Len(linked) = n /\ linked = [i \in 1 .. n |-> linked[i]]
    BY <1>1
  <2> HIDE DEF linked
  <2> QED BY <2>1, <1>1, <1>5 DEF IsHeap
<1> HIDE DEF linked
<1>7. IsHeap(<<a>>) /\ Len(<<a>>) = 1 /\ <<a>>[1] = a
  BY <1>4, OneValue
<1>8. Concat(<<a>>, linked, T)
  BY <1>6, <1>7, HeapConcat
<1> HIDE DEF T
<1>9. IsHeap(T) /\ Len(T) = n + 1 /\ T[1] = a /\ \A i \in 1 .. n : T[1 + i] = linked[i]
  <2>1. Len(T) = 1 + n /\ IsHeap(T) /\ \A i \in 1 .. n : T[1 + i] = linked[i]
    BY <1>6, <1>7, <1>8 DEF Concat
  <2>2. 1 \in 1 .. Len(<<a>>)
    BY <1>7
  <2>3. T[1] = a
    BY <2>2, <1>7, <1>8 DEF Concat
  <2> QED BY <2>1, <2>3, <1>1
<1>10. Concat(vals, T, W)
  BY <1>1, <1>9, HeapConcat
<1> HIDE DEF W
<1>11. /\ IsHeap(W) /\ Len(W) = N + (n + 1) /\ (\A m \in 1 .. N : W[m] = vals[m])
       /\ W[N + 1] = a /\ \A i \in 1 .. n : W[N + 1 + i] = linked[i]
  <2>1. 1 \in 1 .. Len(T) /\ \A i \in 1 .. n : 1 + i \in 1 .. Len(T) /\ N + (1 + i) = N + 1 + i
    BY <1>1, <1>9
  <2>2. \A i \in 1 .. Len(T) : W[N + i] = T[i]
    BY <1>10 DEF Concat
  <2>3. IsHeap(W) /\ Len(W) = N + Len(T) /\ \A m \in 1 .. N : W[m] = vals[m]
    BY <1>10 DEF Concat
  <2> HIDE DEF N, n
  <2> QED BY <2>1, <2>2, <2>3, <1>9
<1>12. ASSUME NEW m \in 1 .. Len(W)
       PROVE  m \in 1 .. N \/ m = N + 1 \/ (m - (N + 1) \in 1 .. n /\ m = N + 1 + (m - (N + 1)))
  <2>1. m \in 1 .. N + (n + 1)
    BY <1>11
  <2> HIDE DEF n, N
  <2> QED BY <2>1, <1>1
<1>13. PICK L, r : Links(vals, Boxes(vals), L, r) /\ \A m \in loose : Unlisted(Boxes(vals), L, m)
  BY DEF IInv, Sound
<1> DEFINE q == [m \in 1 .. N + (n + 1) |-> IF m \in 1 .. N THEN r[m] ELSE IF m = N + 1 THEN 0 ELSE 0 - 1]
           D == Boxes(W) \ (Boxes(vals) \cup {N + 1})
           E == Boxes(vals) \cup D
           M == Grown(Boxes(vals), L, D)
<1>14. q \in [1 .. N + (n + 1) -> Int] /\ (\A m \in 1 .. N : q[m] = r[m])
       /\ q[N + 1] = 0 /\ \A i \in 1 .. n : q[N + 1 + i] = 0 - 1
  <2>1. r \in [1 .. N -> Int]
    BY <1>13 DEF Links
  <2>2. /\ \A m \in 1 .. N : m \in 1 .. N + (n + 1)
        /\ N + 1 \in 1 .. N + (n + 1) /\ N + 1 \notin 1 .. N
        /\ \A i \in 1 .. n : N + 1 + i \in 1 .. N + (n + 1) /\ N + 1 + i \notin 1 .. N /\ N + 1 + i # N + 1
    BY <1>1
  <2> HIDE DEF n, N
  <2> QED BY <2>1, <2>2
<1> HIDE DEF q
<1>15. Ranks(vals, T, r, q)
  BY <1>9, <1>14 DEF Ranks
<1>16. ASSUME NEW c \in D PROVE c \in (N + 1) .. (N + Len(T)) /\ IsContainer(W[c]) /\ W[c].len = 0
  <2>1. c \in 1 .. Len(W) /\ IsContainer(W[c]) /\ c \notin Boxes(vals) /\ c # N + 1
    BY DEF Boxes
  <2>2. c \notin 1 .. N
    BY <2>1, <1>11 DEF Boxes
  <2>3. c - (N + 1) \in 1 .. n /\ c = N + 1 + (c - (N + 1))
    BY <2>1, <2>2, <1>12
  <2>4. W[c] = linked[c - (N + 1)]
    BY <2>3, <1>11
  <2>5. W[c].len = 0
    BY <2>3, <2>4, <1>5
  <2>6. c \in (N + 1) .. (N + Len(T))
    BY <2>3, <1>1, <1>9
  <2> QED BY <2>1, <2>5, <2>6
<1>17. Fresh(vals, T, D)
  <2> HIDE DEF D
  <2> QED BY <1>16 DEF Fresh, W
<1> HIDE DEF D, M
<1>18. Links(W, E, M, q) /\ Kept(vals, Boxes(vals), L, E, M)
  BY <1>9, <1>13, <1>15, <1>17, Grow DEF M, W
<1>19. Boxes(W) = E \cup {N + 1} /\ N + 1 \notin E /\ N + 1 \in 1 .. Len(W)
  <2>1. N + 1 \in 1 .. Len(W) /\ N + 1 \notin 1 .. N /\ \A m \in 1 .. N : m \in 1 .. Len(W)
    BY <1>1, <1>11
  <2>2. IsContainer(W[N + 1])
    BY <1>4, <1>11 DEF IsContainer
  <2>3. \A m \in Boxes(vals) : m \in Boxes(W) /\ m # N + 1
    BY <2>1, <1>11 DEF Boxes
  <2>4. N + 1 \in Boxes(W)
    BY <2>1, <2>2 DEF Boxes
  <2> QED BY <2>1, <2>3, <2>4 DEF D
<1> DEFINE s == [i \in 1 .. n |-> N + 1 + i]
<1>20. s \in Seq(1 .. Len(W)) /\ Len(s) = n /\ \A i \in 1 .. n : s[i] = N + 1 + i
  <2>1. \A i \in 1 .. n : N + 1 + i \in 1 .. N + (n + 1)
    BY <1>1
  <2>2. s \in [1 .. n -> 1 .. Len(W)]
    BY <2>1, <1>11
  <2> QED BY <2>2, <1>1
<1> HIDE DEF s
<1>21. Circle(W, N + 1, s)
  <2>1. Width(W[N + 1]) = n
    BY <1>4, <1>11 DEF Width
  <2>2. ASSUME NEW i \in 1 .. n, NEW j \in 1 .. n, s[i] = s[j] PROVE i = j
    <3>1. N + 1 + i = N + 1 + j
      BY <2>2, <1>20
    <3> QED BY <3>1, <1>1
  <2>3. ASSUME NEW i \in 1 .. n PROVE W[s[i]].next = s[After(i, n)]
    <3>1. After(i, n) \in 1 .. n
      BY <1>1 DEF After
    <3>2. W[s[i]].next = N + 1 + After(i, n)
      BY <1>5, <1>11, <1>20
    <3> QED BY <3>1, <3>2, <1>20
  <2>4. n > 0 => W[N + 1].last = s[LastAt(W[N + 1], n)]
    <3>1. n > 0 => n \in 1 .. n
      BY <1>1
    <3> QED BY <3>1, <1>4, <1>11, <1>20 DEF LastAt
  <2> HIDE DEF n
  <2> QED BY <2>1, <2>2, <2>3, <2>4, <1>20 DEF Circle
<1>22. List(W, N + 1, s, q)
  <2>1. IsContainer(W[N + 1]) /\ W[N + 1].kind # "obj"
    BY <1>4, <1>11 DEF IsContainer
  <2>2. ASSUME NEW i \in 1 .. n PROVE W[s[i]].doc = W[N + 1].doc /\ q[s[i]] < q[N + 1]
    <3>1. s[i] = N + 1 + i
      BY <1>20
    <3>2. W[s[i]].doc = d /\ W[N + 1].doc = d
      BY <3>1, <1>4, <1>5, <1>11
    <3>3. q[s[i]] = 0 - 1 /\ q[N + 1] = 0
      BY <3>1, <1>14
    <3> QED BY <3>2, <3>3
  <2> QED BY <2>1, <2>2, <1>20, <1>21 DEF List
<1>23. \A m : m \notin 1 .. N => Unlisted(E, M, m)
  BY <1>18 DEF Kept
<1>24. ASSUME NEW e \in E PROVE Apart(s, M[e])
  <2>1. ASSUME NEW i \in 1 .. n PROVE \A j \in 1 .. Len(M[e]) : s[i] # M[e][j]
    <3>1. s[i] \notin 1 .. N
      BY <1>1, <1>20
    <3> QED BY <3>1, <1>23 DEF Unlisted
  <2> QED BY <2>1, <1>20 DEF Apart
<1>25. Links(W, Boxes(W), With(E, M, N + 1, s), q)
  <2>1. Links(W, E \cup {N + 1}, With(E, M, N + 1, s), q)
    <3> DEFINE c == N + 1
    <3>1. Links(W, E, M, q) /\ c \in 1 .. Len(W) /\ List(W, c, s, q) /\ c \notin E
      BY <1>18, <1>19, <1>22
    <3> HIDE DEF E, c
    <3>2. Links(W, E \cup {c}, With(E, M, c, s), q)
      BY <3>1, <1>24, OneMore
    <3> QED BY <3>2 DEF c
  <2> HIDE DEF E, N
  <2> QED BY <2>1, <1>19
<1>26. ASSUME NEW m \in loose' PROVE Unlisted(Boxes(W), With(E, M, N + 1, s), m)
  <2>1. Unlisted(E, M, m)
    <3>1. CASE m \in loose
      <4>1. Unlisted(Boxes(vals), L, m)
        BY <3>1, <1>13
      <4> QED BY <4>1, <1>18 DEF Kept
    <3>2. CASE m = N + 1
      <4>1. m \notin 1 .. N
        BY <3>2, <1>1
      <4> QED BY <4>1, <1>23
    <3> QED BY <3>1, <3>2, <1>3
  <2>2. \A i \in 1 .. n : s[i] # m
    BY <1>1, <1>3, <1>20
  <2>3. /\ With(E, M, N + 1, s)[N + 1] = s
        /\ \A e \in E : With(E, M, N + 1, s)[e] = M[e]
    BY <1>19 DEF With
  <2> HIDE DEF E, N
  <2> QED BY <2>1, <2>2, <2>3, <1>19, <1>20 DEF Unlisted
<1>27. Sound(W, loose')
  BY <1>25, <1>26 DEF Sound
<1>28. Typed(W, docs, loose')
  <2>1. Extends(vals, W, d)
    <3>1. N <= Len(W)
      BY <1>1, <1>11
    <3>2. ASSUME NEW m \in (N + 1) .. Len(W) PROVE W[m].doc = d
      <4>1. m = N + 1 \/ (m - (N + 1) \in 1 .. n /\ m = N + 1 + (m - (N + 1)))
        BY <1>1, <1>11
      <4> QED BY <4>1, <1>4, <1>5, <1>11
    <3> QED BY <3>1, <3>2, <1>11 DEF Extends
  <2>2. loose' \in SUBSET (1 .. Len(W))
    <3>1. N + 1 \in 1 .. Len(W) /\ \A m \in 1 .. N : m \in 1 .. Len(W)
      BY <1>1, <1>11
    <3> QED BY <3>1, <1>1, <1>3
  <2>3. \A e \in Docs : docs[e].root # NULL => docs[e].root \in loose'
    BY <1>3 DEF IInv, Typed
  <2>4. docs[d].state = "live"
    BY <1>3 DEF Live
  <2> QED BY <2>1, <2>2, <2>3, <2>4, <1>1, TypedStep DEF IInv
<1> QED BY <1>3, <1>27, <1>28 DEF IInv

(* A value that does not hold o, and all it holds, can be ranked below o.    *)
LEMMA Sink ==
    ASSUME NEW H, NEW L, NEW r, Links(H, Boxes(H), L, r),
           NEW v \in 1 .. Len(H), NEW o \in 1 .. Len(H), o \notin Subtree(H, v)
    PROVE  \E q : Links(H, Boxes(H), L, q) /\ q[v] < q[o]
<1> DEFINE B == Subtree(H, v)
           K == IF r[v] >= r[o] THEN r[v] - r[o] + 1 ELSE 0
           q == [n \in 1 .. Len(H) |-> IF n \in B THEN r[n] - K ELSE r[n]]
<1>1. Holds(H, L, r, B, v)
  BY SubtreeHolds
<1> HIDE DEF B
<1>2. IsHeap(H) /\ r \in [1 .. Len(H) -> Int] /\ Len(H) \in Nat
  BY DEF Links, IsHeap
<1>3. K \in Nat /\ r[v] - K < r[o] /\ r[o] \in Int /\ r[v] \in Int
  <2>1. r[v] \in Int /\ r[o] \in Int
    BY <1>2
  <2> QED BY <2>1
<1> HIDE DEF K
<1>4. q \in [1 .. Len(H) -> Int] /\ \A n \in 1 .. Len(H) : q[n] = IF n \in B THEN r[n] - K ELSE r[n]
  <2>1. \A n \in 1 .. Len(H) : r[n] \in Int /\ r[n] - K \in Int
    BY <1>2, <1>3
  <2> QED BY <2>1
<1>5. q[v] < q[o]
  <2>1. v \in B /\ o \notin B
    BY <1>1 DEF Holds, B
  <2> HIDE DEF q
  <2> QED BY <2>1, <1>3, <1>4
<1> HIDE DEF q
<1>6. ASSUME NEW c \in Boxes(H), NEW i \in 1 .. Len(L[c]) PROVE q[L[c][i]] < q[c]
  <2>1. L[c][i] \in 1 .. Len(H) /\ c \in 1 .. Len(H) /\ r[L[c][i]] < r[c]
    BY InHeap DEF List
  <2>2. c \in B => L[c][i] \in B
    BY <1>1 DEF Holds
  <2>3. r[L[c][i]] \in Int /\ r[c] \in Int
    BY <2>1, <1>2
  <2>4. q[L[c][i]] = (IF L[c][i] \in B THEN r[L[c][i]] - K ELSE r[L[c][i]]) /\ q[c] = IF c \in B THEN r[c] - K ELSE r[c]
    BY <2>1, <1>4
  <2> QED BY <2>1, <2>2, <2>3, <2>4, <1>3, SMTT(30)
<1>7. Undisturbed(H, H, Boxes(H), L, q)
  BY <1>6 DEF Undisturbed
<1>8. Links(H, Boxes(H), L, q)
  <2>1. Len(H) <= Len(H) /\ Boxes(H) \subseteq Boxes(H)
    BY <1>2
  <2> QED BY <2>1, <1>2, <1>4, <1>7, Frame
<1> QED BY <1>5, <1>8

(* A value of the caller becomes a member.                                   *)
LEMMA StepAddVal ==
    ASSUME IInv, NEW o \in Objects, NEW k, NEW v, add_val(o, k, v)
    PROVE  IInv'
<1> DEFINE d == vals[o].doc
           x == Str(d, Borrowed(k))
           y == Lost(d)
           T == <<x, y>>
           N == Len(vals)
           H == vals \o T
           key == N + 1
           W == ObjAdd(H, o, key, v)
<1>1. /\ IsHeap(vals) /\ N \in Nat /\ loose \in SUBSET (1 .. N) /\ o \in Boxes(vals) /\ o \in 1 .. N
      /\ vals[o].kind = "obj" /\ Live(d) /\ d \in Docs
  BY InvFacts DEF Boxes
<1>2. /\ v \in loose /\ vals[v].doc = d /\ docs[d].root # v /\ o \notin Subtree(vals, v)
      /\ vals' = W /\ docs' = docs /\ loose' = loose \ {v}
  BY DEF add_val, MayAdd, New
<1>3. IsValue(x) /\ IsValue(y) /\ x.kind = "str" /\ x.doc = d /\ y.doc = d /\ ~IsContainer(x) /\ ~IsContainer(y)
  BY LeafIsValue DEF Str, Lost, IsContainer
<1> HIDE DEF x, y
<1>4. IsHeap(T) /\ Len(T) = 2 /\ T[1] = x /\ T[2] = y
  BY <1>3, TwoValues
<1> HIDE DEF T
<1>5. Concat(vals, T, H)
  BY <1>1, <1>4, HeapConcat
<1> HIDE DEF H
<1>6. IsHeap(H) /\ Len(H) = N + 2 /\ (\A n \in 1 .. N : H[n] = vals[n]) /\ H[key] = x /\ H[N + 2] = y
  <2>1. 1 \in 1 .. Len(T) /\ 2 \in 1 .. Len(T)
    BY <1>4
  <2> QED BY <2>1, <1>4, <1>5 DEF Concat
<1>7. \A n \in 1 .. N + 2 : n \in 1 .. N \/ n = N + 1 \/ n = N + 2
  BY <1>1
<1>8. N + 1 \in 1 .. N + 2 /\ N + 2 \in 1 .. N + 2 /\ N + 1 \notin 1 .. N /\ N + 2 \notin 1 .. N /\ \A n \in 1 .. N : n \in 1 .. N + 2
  BY <1>1
<1>9. Boxes(H) = Boxes(vals)
  <2> HIDE DEF N
  <2>1. \A n \in 1 .. N + 2 : IsContainer(H[n]) <=> n \in 1 .. N /\ IsContainer(vals[n])
    BY <1>3, <1>6, <1>7, <1>8 DEF key
  <2> QED BY <2>1, <1>6, <1>8 DEF Boxes, N
<1>10. PICK L, p : Links(vals, Boxes(vals), L, p) /\ \A n \in loose : Unlisted(Boxes(vals), L, n)
  BY DEF IInv, Sound
<1>11. PICK r : Links(vals, Boxes(vals), L, r) /\ r[v] < r[o]
  <2>1. v \in 1 .. Len(vals)
    BY <1>1, <1>2
  <2> QED BY <2>1, <1>1, <1>2, <1>10, Sink
<1> DEFINE q == [n \in 1 .. N + 2 |-> IF n \in 1 .. N THEN r[n] ELSE r[o] - 1]
           C == Boxes(H)
           M == Grown(Boxes(vals), L, {})
<1>12. Ranks(vals, T, r, q) /\ q[key] = r[o] - 1 /\ r[o] \in Int
  <2>1. r \in [1 .. N -> Int]
    BY <1>11 DEF Links
  <2>2. r[o] \in Int /\ r[o] - 1 \in Int
    BY <2>1, <1>1
  <2> HIDE DEF N
  <2>3. q \in [1 .. N + 2 -> Int] /\ (\A n \in 1 .. N : q[n] = r[n]) /\ q[N + 1] = r[o] - 1
    BY <2>1, <2>2, <1>8
  <2> QED BY <2>2, <2>3, <1>4 DEF Ranks, N
<1> HIDE DEF q, M
<1>13. Links(H, C, M, q) /\ Kept(vals, Boxes(vals), L, C, M)
  <2>1. Fresh(vals, T, {})
    BY DEF Fresh
  <2>2. Links(vals \o T, Boxes(vals) \cup {}, M, q) /\ Kept(vals, Boxes(vals), L, Boxes(vals) \cup {}, M)
    BY <2>1, <1>4, <1>11, <1>12, Grow DEF M
  <2>3. Boxes(vals) \cup {} = C
    BY <1>9
  <2> HIDE DEF C
  <2> QED BY <2>2, <2>3 DEF H
<1>14. /\ o \in C /\ H[o].kind = "obj" /\ H[o].doc = d
       /\ key \in 1 .. Len(H) /\ v \in 1 .. Len(H) /\ key # v
       /\ H[key].doc = d /\ H[v].doc = d /\ H[key].kind = "str"
  <2>1. v \in 1 .. N
    BY <1>1, <1>2
  <2> QED BY <2>1, <1>1, <1>2, <1>3, <1>6, <1>8, <1>9
<1>15. q[key] < q[o] /\ q[v] < q[o]
  <2>1. q[o] = r[o] /\ q[v] = r[v]
    BY <1>1, <1>2, <1>12 DEF Ranks
  <2> QED BY <2>1, <1>11, <1>12
<1>16. Unlisted(C, M, key) /\ Unlisted(C, M, v)
  <2>1. key \notin 1 .. N
    BY <1>8
  <2> QED BY <2>1, <1>2, <1>10, <1>13 DEF Kept
<1> DEFINE J == With(C \ {o}, M, o, AddTwo(M[o], key, v))
<1> HIDE DEF C, key
<1>17. Same(H, W) /\ Links(W, C, J, q)
  BY <1>13, <1>14, <1>15, <1>16, AddMember
<1> HIDE DEF W
<1>18. C = Boxes(W)
  BY <1>6, <1>17, BoxesSame DEF C
<1>19. ASSUME NEW n \in loose' PROVE Unlisted(C, J, n)
  <2>1. n \in loose /\ n # v
    BY <1>2
  <2>2. Unlisted(C, M, n)
    BY <2>1, <1>10, <1>13 DEF Kept
  <2>3. n # key
    BY <2>1, <1>1, <1>8 DEF key
  <2> QED BY <2>1, <2>2, <2>3, <1>13, <1>14, AddTwoUnlisted
<1> HIDE DEF J
<1>20. Sound(W, loose')
  BY <1>17, <1>18, <1>19 DEF Sound
<1>21. Typed(W, docs, loose')
  <2>1. IsHeap(W) /\ Len(W) = N + 2 /\ N <= Len(W)
    BY <1>1, <1>6, <1>17 DEF Same
  <2>2. Extends(vals, W, d)
    <3>1. ASSUME NEW n \in 1 .. N PROVE W[n].doc = vals[n].doc /\ (IsContainer(W[n]) => IsContainer(vals[n]))
      <4>1. n \in 1 .. Len(H) /\ H[n] = vals[n]
        BY <1>6, <1>8
      <4>2. W[n].doc = H[n].doc /\ W[n].kind = H[n].kind
        BY <4>1, <1>17 DEF Same
      <4> QED BY <4>1, <4>2 DEF IsContainer
    <3>2. ASSUME NEW n \in (N + 1) .. Len(W) PROVE W[n].doc = d
      <4>1. n \in 1 .. Len(H) /\ (n = N + 1 \/ n = N + 2)
        BY <2>1, <1>1, <1>6
      <4>2. W[n].doc = H[n].doc
        BY <4>1, <1>17 DEF Same
      <4> QED BY <4>1, <4>2, <1>3, <1>6 DEF key
    <3> QED BY <2>1, <3>1, <3>2 DEF Extends
  <2>3. loose' \in SUBSET (1 .. Len(W))
    BY <2>1, <1>1, <1>2, <1>8
  <2>4. ASSUME NEW e \in Docs, docs[e].root # NULL PROVE docs[e].root \in loose'
    <3>1. docs[e].root \in loose /\ vals[docs[e].root].doc = e
      BY <2>4 DEF IInv, Typed
    <3> QED BY <3>1, <1>2
  <2>5. docs[d].state = "live"
    BY <1>1 DEF Live
  <2> QED BY <2>2, <2>3, <2>4, <2>5, <1>1, TypedStep DEF IInv
<1> QED BY <1>2, <1>20, <1>21 DEF IInv

(* The making of an object with three pairs in an empty heap: the strings P  *)
(* are not yet added to it.                                                  *)
Stage(H, d, M, q, P) ==
    /\ IsHeap(H) /\ Len(H) = 7 /\ Boxes(H) = {1} /\ H[1].kind = "obj"
    /\ \A n \in 1 .. 7 : H[n].doc = d
    /\ \A n \in 2 .. 7 : H[n].kind = "str" /\ q[n] = 0 - 1
    /\ Links(H, {1}, M, q) /\ q[1] = 0
    /\ \A n \in P : Unlisted({1}, M, n)

(* One more pair is added to the object that obj_with_str() builds.         *)
LEMMA StageAdd ==
    ASSUME NEW H, NEW d, NEW M, NEW q, NEW P, Stage(H, d, M, q, P),
           NEW a \in 2 .. 7, NEW b \in 2 .. 7, a # b, a \in P, b \in P,
           NEW R, R \subseteq P \ {a, b}
    PROVE  \E J : Stage(ObjAdd(H, 1, a, b), d, J, q, R)
<1> DEFINE C == {1}
           W == ObjAdd(H, 1, a, b)
           J == With(C \ {1}, M, 1, AddTwo(M[1], a, b))
<1>1. /\ IsHeap(H) /\ Len(H) = 7 /\ Boxes(H) = {1} /\ H[1].kind = "obj"
      /\ Links(H, C, M, q) /\ a \in 1 .. 7 /\ b \in 1 .. 7
      /\ Unlisted(C, M, a) /\ Unlisted(C, M, b)
  BY DEF Stage
<1>2. H[a].doc = H[1].doc /\ H[b].doc = H[1].doc /\ H[a].kind = "str" /\ q[a] < q[1] /\ q[b] < q[1]
  BY <1>1 DEF Stage
<1>3. Same(H, W) /\ Links(W, C, J, q)
  <2>1. 1 \in C
    OBVIOUS
  <2> HIDE DEF C
  <2> QED BY <1>1, <1>2, <2>1, AddMember
<1>4. \A n \in R : Unlisted(C, J, n)
  <2>1. ASSUME NEW n \in R PROVE Unlisted(C, J, n)
    <3>1. Unlisted(C, M, n) /\ n # a /\ n # b /\ 1 \in C /\ a \in 1 .. Len(H) /\ b \in 1 .. Len(H)
      BY <1>1 DEF Stage
    <3> HIDE DEF C
    <3> QED BY <3>1, <1>1, AddTwoUnlisted
  <2> QED BY <2>1
<1> HIDE DEF J, W
<1>5. IsHeap(W) /\ Len(W) = 7 /\ Boxes(W) = {1}
  BY <1>1, <1>3, BoxesSame DEF Same
<1>6. /\ W[1].kind = "obj" /\ \A n \in 1 .. 7 : W[n].doc = d
      /\ \A n \in 2 .. 7 : W[n].kind = "str" /\ q[n] = 0 - 1
  BY <1>1, <1>3 DEF Same, Stage
<1>7. Stage(W, d, J, q, R)
  BY <1>3, <1>4, <1>5, <1>6 DEF Stage
<1> QED BY <1>7 DEF W

(* The object is built in three stages, and each pair uses up two of the    *)
(* six values allocated for it.                                             *)
LEMMA StepObj ==
    ASSUME IInv, vals = << >>, NEW d \in Docs, NEW keys, Len(keys) = 3, NEW bufs, obj_with_str(d, keys, bufs)
    PROVE  IInv'
<1> DEFINE x == Container(d, "obj")
           Data(i) == Borrowed(IF i % 2 = 1 THEN keys[(i + 1) \div 2] ELSE bufs[i \div 2])
           pairs == [i \in 1 .. 6 |-> Str(d, Data(i))]
           H0 == <<x>> \o pairs
           H1 == ObjAdd(H0, 1, 2, 3)
           H2 == ObjAdd(H1, 1, 4, 5)
           H3 == ObjAdd(H2, 1, 6, 7)
           object == Append(vals, x) \o [i \in 1 .. 2 * Len(keys) |-> Str(d, Data(i))]
           Linking[i \in 0 .. Len(keys)] ==
               IF i = 0 THEN object
               ELSE LET H == Linking[i - 1] IN ObjAdd(H, New(1), New(2 * i), New(2 * i + 1))
<1>1. Live(d) /\ docs' = docs /\ vals' = Linking[Len(keys)] /\ loose' = loose \cup {New(1)}
  BY DEF obj_with_str
<1>2. Len(vals) = 0 /\ loose = {} /\ Append(vals, x) = <<x>>
  <2>1. Len(vals) = 0
    OBVIOUS
  <2>2. loose \in SUBSET (1 .. Len(vals))
    BY InvFacts
  <2> QED BY <2>1, <2>2
<1>3. object = H0
  <2>1. 2 * Len(keys) = 6
    OBVIOUS
  <2> QED BY <2>1, <1>2
<1> HIDE DEF object, H0, Data, x
<1>4. vals' = H3 /\ loose' = {1}
  <2>1. New(1) = 1 /\ \A i \in 1 .. 3 : New(2 * i) = 2 * i /\ New(2 * i + 1) = 2 * i + 1
    BY <1>2 DEF New
  <2> DEFINE f == [i \in 0 .. 3 |-> IF i = 0 THEN H0 ELSE IF i = 1 THEN H1 ELSE IF i = 2 THEN H2 ELSE H3]
  <2>2. f[0] = H0 /\ f[1] = H1 /\ f[2] = H2 /\ f[3] = H3
    OBVIOUS
  <2> HIDE DEF f
  <2>3. \A i \in 1 .. 3 : f[i] = ObjAdd(f[i - 1], 1, 2 * i, 2 * i + 1)
    <3>1. f[1] = ObjAdd(f[0], 1, 2, 3) /\ f[2] = ObjAdd(f[1], 1, 4, 5) /\ f[3] = ObjAdd(f[2], 1, 6, 7)
      BY <2>2
    <3>2. \A i \in 1 .. 3 : i = 1 \/ i = 2 \/ i = 3
      OBVIOUS
    <3> QED BY <3>1, <3>2
  <2>4. f = [i \in 0 .. 3 |-> IF i = 0 THEN object ELSE ObjAdd(f[i - 1], New(1), New(2 * i), New(2 * i + 1))]
    <3>1. f = [i \in 0 .. 3 |-> f[i]]
      BY DEF f
    <3>2. ASSUME NEW i \in 0 .. 3
          PROVE  f[i] = IF i = 0 THEN object ELSE ObjAdd(f[i - 1], New(1), New(2 * i), New(2 * i + 1))
      <4>1. CASE i = 0
        BY <4>1, <2>2, <1>3
      <4>2. CASE i # 0
        <5>1. i \in 1 .. 3
          BY <4>2
        <5> QED BY <4>2, <5>1, <2>1, <2>3
      <4> QED BY <4>1, <4>2
    <3> QED BY <3>1, <3>2
  <2>5. Linking = [i \in 0 .. 3 |-> IF i = 0 THEN object ELSE ObjAdd(Linking[i - 1], New(1), New(2 * i), New(2 * i + 1))]
    BY <2>4
  <2> HIDE DEF Linking
  <2>6. Linking[0] = f[0]
    BY <2>5, <2>2, <1>3
  <2>7. \A i \in 1 .. 3 : Linking[i] = ObjAdd(Linking[i - 1], 1, 2 * i, 2 * i + 1)
    <3>1. \A i \in 1 .. 3 : i \in 0 .. 3 /\ i # 0
      OBVIOUS
    <3> QED BY <3>1, <2>1, <2>5
  <2>8. Linking[1] = f[1]
    BY <2>6, <2>3, <2>7
  <2>9. Linking[2] = f[2]
    BY <2>8, <2>3, <2>7
  <2>10. Linking[3] = f[3]
    BY <2>9, <2>3, <2>7
  <2> HIDE DEF H3
  <2> QED BY <2>1, <2>2, <2>10, <1>1, <1>2
<1> HIDE DEF Linking
<1>5. IsValue(x) /\ x.doc = d /\ x.kind = "obj" /\ x.len = 0 /\ IsContainer(x)
  BY LeafIsValue DEF Container, IsContainer, x
<1>6. IsHeap(pairs) /\ Len(pairs) = 6 /\ \A i \in 1 .. 6 : pairs[i].doc = d /\ pairs[i].kind = "str"
  <2>1. \A i \in 1 .. 6 : pairs[i] = Str(d, Data(i))
    OBVIOUS
  <2>2. Len(pairs) = 6 /\ pairs = [i \in 1 .. 6 |-> pairs[i]]
    OBVIOUS
  <2> HIDE DEF pairs
  <2>3. \A i \in 1 .. 6 : IsValue(pairs[i]) /\ pairs[i].doc = d /\ pairs[i].kind = "str"
    BY <2>1, LeafIsValue DEF Str
  <2> QED BY <2>2, <2>3 DEF IsHeap
<1> HIDE DEF pairs
<1>7. IsHeap(<<x>>) /\ Len(<<x>>) = 1 /\ <<x>>[1] = x
  BY <1>5, OneValue
<1>8. Concat(<<x>>, pairs, H0)
  BY <1>6, <1>7, HeapConcat DEF H0
<1>9. /\ IsHeap(H0) /\ Len(H0) = 7 /\ H0[1] = x
      /\ \A n \in 2 .. 7 : H0[n].doc = d /\ H0[n].kind = "str"
  <2>1. IsHeap(H0) /\ Len(H0) = 7 /\ \A i \in 1 .. 6 : H0[1 + i] = pairs[i]
    BY <1>6, <1>7, <1>8 DEF Concat
  <2>2. 1 \in 1 .. Len(<<x>>)
    BY <1>7
  <2>3. H0[1] = x
    BY <2>2, <1>7, <1>8 DEF Concat
  <2>4. ASSUME NEW n \in 2 .. 7 PROVE H0[n].doc = d /\ H0[n].kind = "str"
    <3>1. n - 1 \in 1 .. 6 /\ n = 1 + (n - 1)
      OBVIOUS
    <3> QED BY <3>1, <2>1, <1>6
  <2> QED BY <2>1, <2>3, <2>4
<1> DEFINE q == [n \in 1 .. 7 |-> IF n = 1 THEN 0 ELSE 0 - 1]
           M == With({}, << >>, 1, << >>)
           R(H) == \E J : Stage(H, d, J, q, {1})
<1>10. q \in [1 .. 7 -> Int] /\ q[1] = 0 /\ \A n \in 2 .. 7 : q[n] = 0 - 1
  OBVIOUS
<1> HIDE DEF q
<1>11. Links(H0, {1}, M, q)
  <2>1. Links(H0, {}, << >>, q)
    BY <1>9, <1>10 DEF Links
  <2>2. List(H0, 1, << >>, q)
    BY <1>5, <1>9, EmptyList
  <2>3. 1 \in 1 .. Len(H0)
    BY <1>9
  <2>4. Links(H0, {} \cup {1}, With({}, << >>, 1, << >>), q)
    BY <2>1, <2>2, <2>3, OneMore
  <2>5. {} \cup {1} = {1}
    OBVIOUS
  <2> QED BY <2>4, <2>5
<1>12. Stage(H0, d, M, q, 1 .. 7)
  <2>1. M[1] = << >>
    BY DEF With
  <2> HIDE DEF M
  <2>2. \A n \in 1 .. 7 : Unlisted({1}, M, n)
    BY <2>1 DEF Unlisted
  <2>3. Boxes(H0) = {1}
    <3>1. \A n \in 1 .. 7 : IsContainer(H0[n]) <=> n = 1
      <4>1. \A n \in 1 .. 7 : n = 1 \/ n \in 2 .. 7
        OBVIOUS
      <4>2. IsContainer(H0[1])
        BY <1>5, <1>9
      <4>3. \A n \in 2 .. 7 : ~IsContainer(H0[n]) /\ n # 1
        BY <1>9 DEF IsContainer
      <4> QED BY <4>1, <4>2, <4>3
    <3>2. 1 \in 1 .. 7
      OBVIOUS
    <3> QED BY <3>1, <3>2, <1>9 DEF Boxes
  <2>4. \A n \in 1 .. 7 : H0[n].doc = d
    <3>1. \A n \in 1 .. 7 : n = 1 \/ n \in 2 .. 7
      OBVIOUS
    <3> QED BY <3>1, <1>5, <1>9
  <2> QED BY <2>2, <2>3, <2>4, <1>5, <1>9, <1>10, <1>11 DEF Stage
<1> HIDE DEF M
<1>13. PICK M1 : Stage(H1, d, M1, q, {1, 4, 5, 6, 7})
  <2> DEFINE P == 1 .. 7
             R1 == {1, 4, 5, 6, 7}
  <2>1. 2 \in 2 .. 7 /\ 3 \in 2 .. 7 /\ 2 \in P /\ 3 \in P /\ R1 \subseteq P \ {2, 3}
    OBVIOUS
  <2>2. Stage(H0, d, M, q, P)
    BY <1>12
  <2> HIDE DEF P, R1
  <2>3. \E J : Stage(ObjAdd(H0, 1, 2, 3), d, J, q, R1)
    BY <2>1, <2>2, StageAdd
  <2> QED BY <2>3 DEF R1
<1> HIDE DEF H1
<1>14. PICK M2 : Stage(H2, d, M2, q, {1, 6, 7})
  <2>1. 4 \in 2 .. 7 /\ 5 \in 2 .. 7 /\ {1, 6, 7} \subseteq {1, 4, 5, 6, 7} \ {4, 5}
    OBVIOUS
  <2> QED BY <2>1, <1>13, StageAdd, SMTT(30)
<1> HIDE DEF H2
<1>15. PICK M3 : Stage(H3, d, M3, q, {1})
  <2>1. 6 \in 2 .. 7 /\ 7 \in 2 .. 7 /\ {1} \subseteq {1, 6, 7} \ {6, 7}
    OBVIOUS
  <2> QED BY <2>1, <1>14, StageAdd, SMTT(30)
<1> HIDE DEF H3
<1>16. Sound(H3, {1})
  <2>1. Links(H3, Boxes(H3), M3, q) /\ \A n \in {1} : Unlisted(Boxes(H3), M3, n)
    BY <1>15 DEF Stage
  <2> QED BY <2>1 DEF Sound
<1>17. Typed(H3, docs, {1})
  <2>1. docs \in [Docs -> Documents]
    BY InvFacts
  <2>2. \A e \in Docs : docs[e].root = NULL
    BY <1>2 DEF IInv, Typed
  <2>3. /\ \A n \in 1 .. Len(H3) : H3[n].doc \in Docs
        /\ \A c \in Boxes(H3) : docs[H3[c].doc].state = "live"
        /\ {1} \subseteq 1 .. Len(H3)
    <3>1. Len(H3) = 7 /\ (\A n \in 1 .. 7 : H3[n].doc = d) /\ Boxes(H3) = {1}
      BY <1>15 DEF Stage
    <3>2. 1 \in 1 .. 7
      OBVIOUS
    <3> QED BY <3>1, <3>2, <1>1 DEF Live
  <2> QED BY <2>1, <2>2, <2>3 DEF Typed
<1> QED BY <1>1, <1>4, <1>16, <1>17 DEF IInv

(* Renaming changes nothing but what keys point at.                          *)
DataSet(H, n, x, G) == G = [H EXCEPT ![n].data = x]
Relabelled(H, G) ==
    /\ Same(H, G)
    /\ \A k \in 1 .. Len(H) : G[k].next = H[k].next /\ G[k].last = H[k].last /\ G[k].len = H[k].len

(* Writing a value's data touches no list.                                  *)
LEMMA SetData ==
    ASSUME NEW H, IsHeap(H), NEW n, NEW x, NEW G, DataSet(H, n, x, G)
    PROVE  Relabelled(H, G)
<1>1. H = [k \in 1 .. Len(H) |-> H[k]] /\ Len(H) \in Nat
  BY DEF IsHeap
<1>2. CASE n \in 1 .. Len(H)
  <2>1. G = [k \in 1 .. Len(H) |-> G[k]] /\ G[n] = [H[n] EXCEPT !.data = x]
        /\ \A k \in 1 .. Len(H) : k # n => G[k] = H[k]
    BY <1>1, <1>2 DEF DataSet
  <2>2. Len(G) = Len(H)
    BY <1>1, <2>1
  <2>3. IsValue(H[n])
    BY <1>2 DEF IsHeap
  <2>4. /\ IsValue(G[n]) /\ G[n].kind = H[n].kind /\ G[n].doc = H[n].doc
        /\ G[n].next = H[n].next /\ G[n].last = H[n].last /\ G[n].len = H[n].len
    BY <2>1, <2>3 DEF IsValue
  <2>5. \A k \in 1 .. Len(H) : IsValue(G[k])
    BY <2>1, <2>4 DEF IsHeap
  <2> QED BY <1>1, <2>1, <2>2, <2>4, <2>5 DEF IsHeap, Same, Relabelled
<1>3. CASE n \notin 1 .. Len(H)
  <2>1. G = H
    BY <1>1, <1>3 DEF DataSet
  <2> QED BY <2>1 DEF Same, Relabelled
<1> QED BY <1>2, <1>3

(* The walk that renames a key writes data only.                            *)
LEMMA RenamedIs ==
    ASSUME NEW o, vals[o].len \in Nat, IsHeap(vals), NEW text, NEW new
    PROVE  Relabelled(vals, Renamed(o, text, new))
<1> DEFINE N == vals[o].len
           base == [heap |-> vals, iter |-> IterInit(vals, o)]
           Turn(w) ==
               LET it == IterNext(w.heap, w.iter)
                   hit == Text(w.heap[it.cur].data, buffer) = text
               IN  [heap |-> IF hit THEN [w.heap EXCEPT ![it.cur].data = Copied(new)] ELSE w.heap, iter |-> it]
           W[i \in 0 .. N] == IF i = 0 THEN base ELSE Turn(W[i - 1])
           Is(f, k) == f = [i \in 0 .. k |-> IF i = 0 THEN base ELSE Turn(f[i - 1])]
<1>1. Renamed(o, text, new) = W[N].heap
  BY DEF Renamed
<1>2. ASSUME NEW w, IsHeap(w.heap), Relabelled(vals, w.heap) PROVE Relabelled(vals, Turn(w).heap)
  <2>1. PICK c : c = IterNext(w.heap, w.iter).cur
    OBVIOUS
  <2>2. \/ Turn(w).heap = w.heap
        \/ Turn(w).heap = [w.heap EXCEPT ![c].data = Copied(new)]
    BY <2>1
  <2>3. CASE Turn(w).heap = w.heap
    BY <2>3, <1>2
  <2>4. CASE Turn(w).heap = [w.heap EXCEPT ![c].data = Copied(new)]
    <3>1. DataSet(w.heap, c, Copied(new), Turn(w).heap)
      BY <2>4 DEF DataSet
    <3> HIDE DEF Turn
    <3>2. Relabelled(w.heap, Turn(w).heap)
      BY <3>1, <1>2, SetData
    <3> QED BY <3>2, <1>2 DEF Relabelled, Same
  <2> QED BY <2>2, <2>3, <2>4
<1>3. base.heap = vals
  OBVIOUS
<1> HIDE DEF base, Turn, Is
<1>4. N \in Nat
  OBVIOUS
<1> HIDE DEF N
<1> DEFINE R == {k \in 0 .. N : ~\E f : Is(f, k)}
<1>5. R = {}
  <2> SUFFICES ASSUME R # {} PROVE FALSE
    OBVIOUS
  <2>1. R \in SUBSET Nat
    BY <1>4
  <2>2. PICK k \in R : \A j \in R : k <= j
    BY <2>1, Smallest
  <2>3. k # 0
    <3>1. Is([i \in 0 .. 0 |-> base], 0)
      BY DEF Is
    <3> QED BY <3>1
  <2>4. k \in Nat /\ k - 1 \in 0 .. N /\ k - 1 \notin R
    BY <2>1, <2>2, <2>3, <1>4
  <2>5. PICK g : Is(g, k - 1)
    BY <2>4
  <2> DEFINE p == [i \in 0 .. k |-> IF i < k THEN g[i] ELSE Turn(g[k - 1])]
  <2>6. ASSUME NEW i \in 0 .. k PROVE p[i] = IF i = 0 THEN base ELSE Turn(p[i - 1])
    <3>1. CASE i = 0
      <4>1. 0 \in 0 .. (k - 1) /\ p[i] = g[0]
        BY <3>1, <2>3, <2>4
      <4> QED BY <4>1, <3>1, <2>5 DEF Is
    <3>2. CASE i # 0 /\ i < k
      <4>1. i \in 0 .. (k - 1) /\ p[i] = g[i] /\ p[i - 1] = g[i - 1]
        BY <3>2, <2>4
      <4>2. g[i] = Turn(g[i - 1])
        BY <3>2, <4>1, <2>5 DEF Is
      <4> QED BY <3>2, <4>1, <4>2
    <3>3. CASE i = k
      <4>1. p[i] = Turn(g[k - 1]) /\ p[i - 1] = g[k - 1]
        BY <3>3, <2>3, <2>4
      <4> QED BY <3>3, <2>3, <4>1
    <3> QED BY <3>1, <3>2, <3>3, <2>4
  <2>7. Is(p, k)
    BY <2>6 DEF Is
  <2> QED BY <2>7
<1>6. \E f : Is(f, N)
  BY <1>5, <1>4
<1>7. W = [i \in 0 .. N |-> IF i = 0 THEN base ELSE Turn(W[i - 1])]
  BY <1>6 DEF Is
<1> HIDE DEF W
<1>8. W[0] = base /\ \A i \in 1 .. N : W[i] = Turn(W[i - 1])
  <2>1. 0 \in 0 .. N /\ \A i \in 1 .. N : i \in 0 .. N /\ i # 0
    BY <1>4
  <2> QED BY <1>7, <2>1
<1> DEFINE Fine(i) == Relabelled(vals, W[i].heap)
<1>9. \A i \in 0 .. N : Fine(i)
  <2> SUFFICES ASSUME NEW i0 \in 0 .. N, ~Fine(i0) PROVE FALSE
    OBVIOUS
  <2> DEFINE S == {i \in 0 .. N : ~Fine(i)}
  <2> HIDE DEF Fine
  <2>1. S \in SUBSET Nat /\ S # {}
    BY <1>4
  <2>2. PICK i \in S : \A j \in S : i <= j
    BY <2>1, Smallest
  <2>3. i \in 0 .. N /\ ~Fine(i)
    OBVIOUS
  <2>4. i # 0
    BY <2>3, <1>3, <1>8 DEF Fine, Relabelled, Same
  <2>5. i \in 1 .. N /\ i - 1 \in 0 .. N /\ i - 1 < i
    BY <2>3, <2>4, <1>4
  <2>6. Fine(i - 1)
    BY <2>1, <2>2, <2>5
  <2>7. IsHeap(W[i - 1].heap)
    BY <2>6 DEF Fine, Relabelled, Same
  <2>8. Fine(i)
    BY <2>5, <2>6, <2>7, <1>2, <1>8 DEF Fine
  <2> QED BY <2>3, <2>8
<1> QED BY <1>1, <1>4, <1>9

(* So renaming keeps all lists.                                             *)
LEMMA StepRename ==
    ASSUME IInv, NEW o \in Objects, NEW text, NEW new, rename_key(o, text, new)
    PROVE  IInv'
<1>1. PICK W : W = Renamed(o, text, new)
  OBVIOUS
<1>2. vals' = W /\ docs' = docs /\ loose' = loose
  BY <1>1 DEF rename_key
<1>3. /\ IsHeap(vals) /\ Len(vals) \in Nat /\ o \in 1 .. Len(vals)
  BY InvFacts DEF Boxes
<1>4. Relabelled(vals, W)
  <2>1. vals[o].len \in Nat
    BY <1>3 DEF IsHeap, IsValue
  <2> QED BY <1>1, <1>3, <2>1, RenamedIs
<1>5. IsHeap(W) /\ Len(W) = Len(vals) /\ Boxes(W) = Boxes(vals)
  BY <1>3, <1>4, BoxesSame DEF Relabelled, Same
<1>6. PICK L, r : Links(vals, Boxes(vals), L, r) /\ \A n \in loose : Unlisted(Boxes(vals), L, n)
  BY DEF IInv, Sound
<1>7. Undisturbed(vals, W, Boxes(vals), L, r)
  <2>1. ASSUME NEW c \in Boxes(vals), NEW i \in 1 .. Len(L[c])
        PROVE  L[c][i] \in 1 .. Len(vals) /\ r[L[c][i]] < r[c]
    BY <1>6, InHeap DEF List
  <2>2. ASSUME NEW c \in Boxes(vals)
        PROVE  c \in 1 .. Len(vals)
    BY DEF Boxes
  <2> QED BY <2>1, <2>2, <1>4 DEF Relabelled, Same, Undisturbed
<1>8. Links(W, Boxes(vals), L, r)
  <2>1. Len(vals) <= Len(W) /\ r \in [1 .. Len(W) -> Int] /\ Boxes(vals) \subseteq Boxes(vals)
    BY <1>3, <1>5, <1>6 DEF Links
  <2> QED BY <2>1, <1>5, <1>6, <1>7, Frame
<1>9. Sound(W, loose)
  BY <1>5, <1>6, <1>8 DEF Sound
<1>10. Typed(W, docs, loose)
  <2>1. \A n \in 1 .. Len(vals) : W[n].doc = vals[n].doc
    BY <1>4 DEF Relabelled, Same
  <2> QED BY <2>1, <1>5 DEF IInv, Typed, Boxes
<1> QED BY <1>2, <1>9, <1>10 DEF IInv

-----------------------------------------------------------------------------
(* The removal while walking.  What is left of the list s of object o is t:  *)
(* keys and values of s, linked as ever, and nothing else has changed.       *)
Cut(V, H, o, s, t) ==
    /\ Same(V, H) /\ H[o].kind = "obj" /\ Circle(H, o, t)
    /\ \A n \in 1 .. Len(V) : n # o => H[n].len = V[n].len /\ H[n].last = V[n].last
    /\ \A n \in 1 .. Len(V) : (\A j \in 1 .. Len(s) : s[j] # n) => H[n].next = V[n].next
    /\ \A i \in 1 .. Len(t) : \E j \in 1 .. Len(s) : t[i] = s[j] /\ i % 2 = j % 2

(* The iterator is at the key it returned last, at first at the last key;    *)
(* the value that was removed is in the list no more.                        *)
IsWalk(w) ==
    /\ w = [heap |-> w.heap, iter |-> w.iter, removed |-> w.removed]
    /\ w.iter = [obj |-> w.iter.obj, idx |-> w.iter.idx, max |-> w.iter.max, cur |-> w.iter.cur, pre |-> w.iter.pre]
KeyBefore(i, m) == IF i = 0 THEN 2 * m - 1 ELSE 2 * i - 1
Walking(V, o, s, w, t) ==
    /\ IsWalk(w) /\ Cut(V, w.heap, o, s, t)
    /\ w.iter.obj = o /\ w.iter.max = w.heap[o].len /\ w.iter.idx \in 0 .. w.iter.max
    /\ w.iter.max > 0 => w.iter.cur = t[KeyBefore(w.iter.idx, w.iter.max)]
    /\ w.removed # NULL => /\ \E j \in 1 .. Len(s) : w.removed = s[j]
                           /\ \A i \in 1 .. Len(t) : t[i] # w.removed

(* After e turns: the pairs behind the iterator are those of s behind the    *)
(* first e, no key of that text is left before it, and what was removed      *)
(* first is the value of the first such key.                                 *)
Hit(V, s, i, text) == Text(V[s[2 * i - 1]].data, buffer) = text
First(V, s, i, text) == Hit(V, s, i, text) /\ \A j \in 1 .. i - 1 : ~Hit(V, s, j, text)
Finding(V, s, w, t, text, e) ==
    /\ \A n \in 1 .. Len(V) : w.heap[n].data = V[n].data
    /\ Len(s) = 2 * (e + w.iter.max - w.iter.idx)
    /\ \A i \in (2 * w.iter.idx + 1) .. (2 * w.iter.max) : t[i] = s[i - 2 * w.iter.idx + 2 * e]
    /\ \A i \in 1 .. w.iter.idx : ~Hit(V, t, i, text)
    /\ w.removed = NULL => \A i \in 1 .. e : ~Hit(V, s, i, text)
    /\ w.removed # NULL => \E i \in 1 .. e : First(V, s, i, text) /\ w.removed = s[2 * i]

(* Without pair k + 1 of the m pairs.                                        *)
Without(t, k, m) == [i \in 1 .. 2 * m - 2 |-> IF i <= 2 * k THEN t[i] ELSE t[i + 2]]
PairCut(H, o, last, pv, next, G) ==
    /\ Same(H, G) /\ G[o].len = H[o].len - 1 /\ G[o].last = last
    /\ \A n \in 1 .. Len(H) : n # o => G[n].len = H[n].len /\ G[n].last = H[n].last
    /\ \A n \in 1 .. Len(H) : n # pv => G[n].next = H[n].next
    /\ pv \in 1 .. Len(H) => G[pv].next = next

(* Cutting a pair out of a circle by the pointer before it leaves a circle, *)
(* also if the pair was the first or the last.                              *)
LEMMA CircleWithout ==
    ASSUME NEW H, NEW o \in 1 .. Len(H), NEW t, Circle(H, o, t),
           NEW m \in Nat, NEW k \in Nat, k < m, H[o].kind = "obj", H[o].len = m,
           NEW last, last = IF k + 1 = m THEN t[KeyBefore(k, m)] ELSE H[o].last,
           NEW pv, pv = t[KeyBefore(k, m) + 1], NEW next, next = t[After(2 * k + 2, 2 * m)],
           NEW G, PairCut(H, o, last, pv, next, G)
    PROVE  Circle(G, o, Without(t, k, m))
<1>0. /\ Same(H, G) /\ G[o].len = m - 1 /\ G[o].last = last
      /\ \A n \in 1 .. Len(H) : n # pv => G[n].next = H[n].next
      /\ pv \in 1 .. Len(H) => G[pv].next = next
  BY DEF PairCut
<1> DEFINE u == Without(t, k, m)
<1>1. /\ t \in Seq(1 .. Len(H)) /\ Len(t) = 2 * m
      /\ \A i \in 1 .. 2 * m : t[i] \in 1 .. Len(H)
      /\ \A i, j \in 1 .. 2 * m : t[i] = t[j] => i = j
      /\ \A i \in 1 .. 2 * m : H[t[i]].next = t[After(i, 2 * m)]
      /\ H[o].last = t[2 * m - 1]
  <2>1. t \in Seq(1 .. Len(H)) /\ Len(t) = 2 * m
    BY DEF Circle, Width
  <2>2. Len(t) > 0 => H[o].last = t[Len(t) - 1]
    BY DEF Circle, LastAt
  <2>3. Len(t) > 0
    BY <2>1
  <2>4. \A i \in 1 .. Len(t) : t[i] \in 1 .. Len(H)
    BY <2>1, SMTT(30)
  <2> QED BY <2>1, <2>2, <2>3, <2>4 DEF Circle
<1>2. \A i \in 1 .. 2 * m - 2 : u[i] = IF i <= 2 * k THEN t[i] ELSE t[i + 2]
  BY DEF Without
<1>3. u \in Seq(1 .. Len(H)) /\ Len(u) = 2 * m - 2
  <2>1. \A i \in 1 .. 2 * m - 2 : i \in 1 .. 2 * m /\ i + 2 \in 1 .. 2 * m
    OBVIOUS
  <2>2. u \in [1 .. 2 * m - 2 -> 1 .. Len(H)]
    BY <1>1, <2>1 DEF Without
  <2>3. PICK n \in Nat : n = 2 * m - 2
    OBVIOUS
  <2>4. u \in [1 .. n -> 1 .. Len(H)]
    BY <2>2, <2>3
  <2> HIDE DEF u
  <2>5. PICK S : S = 1 .. Len(H)
    OBVIOUS
  <2>6. u \in [1 .. n -> S]
    BY <2>4, <2>5
  <2>7. u \in Seq(S)
    BY <2>6
  <2>8. Len(u) = n
    BY <2>6
  <2> QED BY <2>3, <2>5, <2>7, <2>8
<1> HIDE DEF u
<1>4. Len(G) = Len(H) /\ G[o].kind = "obj"
  BY <1>0 DEF Same
<1>5. Width(G[o]) = 2 * m - 2
  BY <1>0, <1>4 DEF Width
<1>6. ASSUME NEW i \in 1 .. 2 * m - 2, NEW j \in 1 .. 2 * m - 2, u[i] = u[j] PROVE i = j
  <2>1. i \in 1 .. 2 * m /\ i + 2 \in 1 .. 2 * m /\ j \in 1 .. 2 * m /\ j + 2 \in 1 .. 2 * m
    OBVIOUS
  <2>2. PICK x \in 1 .. 2 * m : x = IF i <= 2 * k THEN i ELSE i + 2
    BY <2>1
  <2>3. PICK y \in 1 .. 2 * m : y = IF j <= 2 * k THEN j ELSE j + 2
    BY <2>1
  <2>4. u[i] = t[x] /\ u[j] = t[y]
    BY <1>2, <2>2, <2>3
  <2>5. \A a, b \in 1 .. 2 * m : t[a] = t[b] => a = b
    BY <1>1
  <2>6. t[x] = t[y]
    BY <1>6, <2>4
  <2>7. x = y
    BY <2>5, <2>6
  <2> QED BY <2>2, <2>3, <2>7
<1>7. ASSUME NEW i \in 1 .. 2 * m, pv # t[i] PROVE G[t[i]].next = t[After(i, 2 * m)]
  BY <1>0, <1>1, <1>7
<1>8. G[pv].next = t[After(2 * k + 2, 2 * m)]
  <2>1. KeyBefore(k, m) + 1 \in 1 .. 2 * m
    BY DEF KeyBefore
  <2>2. pv \in 1 .. Len(H)
    BY <2>1, <1>1
  <2> QED BY <2>2, <1>0
<1>9. ASSUME NEW i \in 1 .. 2 * m - 2 PROVE G[u[i]].next = u[After(i, 2 * m - 2)]
  <2>1. CASE i < 2 * k
    <3>1. /\ i \in 1 .. 2 * m /\ i <= 2 * k /\ i + 1 <= 2 * k /\ i + 1 \in 1 .. 2 * m - 2 /\ After(i, 2 * m) = i + 1
          /\ After(i, 2 * m - 2) = i + 1 /\ KeyBefore(k, m) + 1 \in 1 .. 2 * m /\ KeyBefore(k, m) + 1 # i
      BY <2>1, SMTT(30) DEF After, KeyBefore
    <3>2. pv # t[i]
      BY <3>1, <1>0, <1>1
    <3> QED BY <3>1, <3>2, <1>2, <1>7
  <2>2. CASE i = 2 * k
    <3>1. KeyBefore(k, m) + 1 = i /\ i <= 2 * k
      BY <2>2 DEF KeyBefore
    <3>2. u[i] = pv
      BY <3>1, <1>0, <1>2
    <3>3. CASE k + 1 = m
      <4>1. After(2 * k + 2, 2 * m) = 1 /\ After(i, 2 * m - 2) = 1 /\ 1 \in 1 .. 2 * m - 2 /\ 1 <= 2 * k
        BY <2>2, <3>3 DEF After
      <4> QED BY <3>2, <4>1, <1>2, <1>8
    <3>4. CASE k + 1 # m
      <4>1. /\ After(2 * k + 2, 2 * m) = 2 * k + 3 /\ After(i, 2 * m - 2) = 2 * k + 1
            /\ 2 * k + 1 \in 1 .. 2 * m - 2 /\ ~(2 * k + 1 <= 2 * k) /\ (2 * k + 1) + 2 = 2 * k + 3
        <5>1. 2 * k + 2 # 2 * m /\ 2 * k # 2 * m - 2 /\ k + 1 < m
          BY <3>4
        <5>2. After(2 * k + 2, 2 * m) = (2 * k + 2) + 1 /\ After(i, 2 * m - 2) = 2 * k + 1
          BY <2>2, <5>1 DEF After
        <5> QED BY <5>1, <5>2
      <4>2. u[2 * k + 1] = t[2 * k + 3]
        BY <4>1, <1>2
      <4> QED BY <3>2, <4>1, <4>2, <1>8
    <3> QED BY <3>3, <3>4
  <2>3. CASE i > 2 * k
    <3>1. ~(i <= 2 * k) /\ i + 2 \in 1 .. 2 * m /\ u[i] = t[i + 2]
      BY <2>3, <1>2
    <3>2. CASE i = 2 * m - 2
      <4>1. After(i, 2 * m - 2) = 1 /\ i + 2 = 2 * m /\ After(i + 2, 2 * m) = 1 /\ 1 \in 1 .. 2 * m - 2
        BY <3>2 DEF After
      <4>2. CASE k = 0
        <5>1. /\ KeyBefore(k, m) + 1 = i + 2 /\ After(2 * k + 2, 2 * m) = 3 /\ ~(1 <= 2 * k) /\ 1 + 2 = 3
          BY <3>2, <4>2 DEF KeyBefore, After
        <5>2. u[1] = t[3]
          BY <4>1, <5>1, <1>2
        <5> QED BY <3>1, <4>1, <5>1, <5>2, <1>0, <1>8
      <4>3. CASE k # 0
        <5>1. KeyBefore(k, m) + 1 \in 1 .. 2 * m /\ KeyBefore(k, m) + 1 # i + 2 /\ 1 <= 2 * k
          BY <3>2, <4>3 DEF KeyBefore
        <5>2. pv # t[i + 2]
          BY <3>1, <5>1, <1>0, <1>1
        <5>3. u[1] = t[1]
          BY <4>1, <5>1, <1>2
        <5> QED BY <3>1, <4>1, <5>2, <5>3, <1>7
      <4> QED BY <4>2, <4>3
    <3>3. CASE i # 2 * m - 2
      <4>1. /\ After(i, 2 * m - 2) = i + 1 /\ After(i + 2, 2 * m) = i + 3 /\ i + 1 \in 1 .. 2 * m - 2
            /\ ~(i + 1 <= 2 * k) /\ (i + 1) + 2 = i + 3
            /\ KeyBefore(k, m) + 1 \in 1 .. 2 * m /\ KeyBefore(k, m) + 1 # i + 2
        <5>1. After(i, 2 * m - 2) = i + 1 /\ i + 2 # 2 * m /\ i + 1 \in 1 .. 2 * m - 2 /\ ~(i + 1 <= 2 * k)
          BY <2>3, <3>3, SMTT(30) DEF After
        <5>2. After(i + 2, 2 * m) = (i + 2) + 1 /\ (i + 2) + 1 = i + 3
          BY <5>1 DEF After
        <5>3. KeyBefore(k, m) + 1 = IF k = 0 THEN 2 * m ELSE 2 * k
          BY DEF KeyBefore
        <5>4. KeyBefore(k, m) + 1 \in 1 .. 2 * m /\ KeyBefore(k, m) + 1 # i + 2
          BY <5>1, <5>3, <2>3
        <5> QED BY <5>1, <5>2, <5>4
      <4>2. pv # t[i + 2]
        BY <3>1, <4>1, <1>0, <1>1
      <4>3. u[i + 1] = t[i + 3]
        BY <4>1, <1>2
      <4> QED BY <3>1, <4>1, <4>2, <4>3, <1>7
    <3> QED BY <3>2, <3>3
  <2> QED BY <2>1, <2>2, <2>3
<1>10. 2 * m - 2 > 0 => G[o].last = u[2 * m - 3]
  <2> SUFFICES ASSUME 2 * m - 2 > 0 PROVE G[o].last = u[2 * m - 3]
    OBVIOUS
  <2>1. 2 * m - 3 \in 1 .. 2 * m - 2
    OBVIOUS
  <2>2. CASE k + 1 = m
    <3>1. KeyBefore(k, m) = 2 * m - 3 /\ 2 * m - 3 <= 2 * k
      BY <2>2 DEF KeyBefore
    <3> QED BY <2>1, <2>2, <3>1, <1>2, <1>0
  <2>3. CASE k + 1 # m
    <3>1. ~(2 * m - 3 <= 2 * k) /\ (2 * m - 3) + 2 = 2 * m - 1
      BY <2>3
    <3>2. u[2 * m - 3] = t[2 * m - 1]
      BY <2>1, <3>1, <1>2
    <3> QED BY <2>3, <3>2, <1>1, <1>0
  <2> QED BY <2>2, <2>3
<1>11. LastAt(G[o], 2 * m - 2) = 2 * m - 3
  BY <1>4 DEF LastAt
<1> QED BY <1>3, <1>4, <1>5, <1>6, <1>9, <1>10, <1>11 DEF Circle, u

(* The iterator goes on to the next key, or back to the one before.           *)
Iter(o, i, m, c, p) == [obj |-> o, idx |-> i, max |-> m, cur |-> c, pre |-> p]
Back(v) == [v EXCEPT !.idx = @ - 1, !.max = @ - 1, !.cur = v.pre]

(* What the iterator holds after a turn that keeps the pair,                *)
LEMMA NextTurn ==
    ASSUME NEW H, NEW o, NEW i \in Nat, NEW m, NEW c, NEW p, NEW v,
           v = Iter(o, i, m, c, p)
    PROVE  IterNext(H, v) = Iter(o, i + 1, m, H[H[c].next].next, c)
<1>1. v.cur = c /\ v.idx = i /\ v = [obj |-> o, idx |-> i, max |-> m, cur |-> c, pre |-> p]
  BY DEF Iter
<1>2. PICK n : n = H[H[c].next].next
  OBVIOUS
<1>3. IterNext(H, v) = [v EXCEPT !.pre = c, !.cur = n, !.idx = i + 1]
  BY <1>1, <1>2 DEF IterNext
<1>4. PICK j : j = i + 1
  OBVIOUS
<1>5. [v EXCEPT !.pre = c, !.cur = n, !.idx = j] = [obj |-> o, idx |-> j, max |-> m, cur |-> n, pre |-> c]
  <2>1. PICK x : x = [v EXCEPT !.pre = c]
    OBVIOUS
  <2>2. x = [obj |-> o, idx |-> i, max |-> m, cur |-> c, pre |-> c]
    BY <2>1, <1>1
  <2>3. PICK y : y = [x EXCEPT !.cur = n]
    OBVIOUS
  <2>4. y = [obj |-> o, idx |-> i, max |-> m, cur |-> n, pre |-> c]
    BY <2>2, <2>3
  <2>5. [y EXCEPT !.idx = j] = [obj |-> o, idx |-> j, max |-> m, cur |-> n, pre |-> c]
    BY <2>4
  <2> QED BY <2>1, <2>3, <2>5
<1> QED BY <1>2, <1>3, <1>4, <1>5 DEF Iter

(* and after removing it.                                                   *)
LEMMA TurnBack ==
    ASSUME NEW o, NEW i \in Nat, NEW m \in Nat, NEW c, NEW p, NEW v,
           v = Iter(o, i, m, c, p)
    PROVE  Back(v) = Iter(o, i - 1, m - 1, p, p)
<1>1. v.idx = i /\ v.max = m /\ v.pre = p /\ v = [obj |-> o, idx |-> i, max |-> m, cur |-> c, pre |-> p]
  BY DEF Iter
<1>2. PICK j : j = i - 1
  OBVIOUS
<1>3. PICK l : l = m - 1
  OBVIOUS
<1>4. [v EXCEPT !.idx = @ - 1, !.max = @ - 1, !.cur = v.pre] = [v EXCEPT !.idx = j, !.max = l, !.cur = p]
  BY <1>1, <1>2, <1>3
<1>5. [v EXCEPT !.idx = j, !.max = l, !.cur = p] = [obj |-> o, idx |-> j, max |-> l, cur |-> p, pre |-> p]
  <2>1. PICK x : x = [v EXCEPT !.idx = j]
    OBVIOUS
  <2>2. x = [obj |-> o, idx |-> j, max |-> m, cur |-> c, pre |-> p]
    BY <2>1, <1>1
  <2>3. PICK y : y = [x EXCEPT !.max = l]
    OBVIOUS
  <2>4. y = [obj |-> o, idx |-> j, max |-> l, cur |-> c, pre |-> p]
    BY <2>2, <2>3
  <2>5. [y EXCEPT !.cur = p] = [obj |-> o, idx |-> j, max |-> l, cur |-> p, pre |-> p]
    BY <2>4
  <2> QED BY <2>1, <2>3, <2>5
<1> QED BY <1>2, <1>3, <1>4, <1>5 DEF Iter, Back

(* A turn keeps the pair or cuts it out.                                     *)
Turned(w, t, x, u, text) ==
    LET k == w.iter.idx
        m == w.iter.max
    IN  /\ \A n \in 1 .. Len(w.heap) : x.heap[n].data = w.heap[n].data
        /\ \/ /\ ~Hit(w.heap, t, k + 1, text)
              /\ x.iter.idx = k + 1 /\ x.iter.max = m /\ x.removed = w.removed /\ u = t
           \/ /\ Hit(w.heap, t, k + 1, text)
              /\ x.iter.idx = k /\ x.iter.max = m - 1 /\ u = Without(t, k, m)
              /\ x.removed = IF w.removed = NULL THEN t[2 * k + 2] ELSE w.removed

(* One turn of the walk leaves a circle of keys and values of s.             *)
LEMMA TurnKeeps ==
    ASSUME NEW V, IsHeap(V), NEW o \in 1 .. Len(V),
           NEW s, s \in Seq(1 .. Len(V)), \A j \in 1 .. Len(s) : s[j] # o,
           NEW w, NEW t, Walking(V, o, s, w, t), HasNext(w.iter), NEW text
    PROVE  \E u : Walking(V, o, s, RemoveTurn(w, text), u) /\ Turned(w, t, RemoveTurn(w, text), u, text)
<1> DEFINE H == w.heap
           k == w.iter.idx
           m == w.iter.max
           a == KeyBefore(k, m)
           it == IterNext(w.heap, w.iter)
<1>1. /\ IsWalk(w) /\ Cut(V, H, o, s, t) /\ w.iter.obj = o /\ m = H[o].len /\ k \in 0 .. m
      /\ m > 0 => w.iter.cur = t[a]
      /\ w.removed # NULL => (\E j \in 1 .. Len(s) : w.removed = s[j]) /\ \A i \in 1 .. Len(t) : t[i] # w.removed
  BY DEF Walking
<1>2. IsHeap(H) /\ Len(H) = Len(V) /\ H[o].kind = "obj" /\ Circle(H, o, t) /\ o \in 1 .. Len(H)
  BY <1>1 DEF Cut, Same
<1>3. m \in Nat /\ k \in Nat /\ k < m /\ m > 0
  <2>1. m \in Nat
    BY <1>1, <1>2 DEF IsHeap, IsValue
  <2>2. k < m
    BY DEF HasNext
  <2> QED BY <2>1, <2>2, <1>1
<1>4. w.iter.cur = t[a]
  BY <1>1, <1>3
<1>5. /\ Len(t) = 2 * m /\ \A i \in 1 .. 2 * m : t[i] \in 1 .. Len(H)
      /\ \A i, j \in 1 .. 2 * m : t[i] = t[j] => i = j
      /\ \A i \in 1 .. 2 * m : H[t[i]].next = t[After(i, 2 * m)]
  <2>1. t \in Seq(1 .. Len(H)) /\ Len(t) = 2 * m
    BY <1>1, <1>2 DEF Circle, Width
  <2>2. \A i \in 1 .. Len(t) : t[i] \in 1 .. Len(H)
    BY <2>1, SMTT(30)
  <2> QED BY <2>1, <2>2, <1>2 DEF Circle
<1>6. /\ w = [heap |-> w.heap, iter |-> w.iter, removed |-> w.removed]
      /\ w.iter = [obj |-> o, idx |-> k, max |-> m, cur |-> t[a], pre |-> w.iter.pre]
  BY <1>1, <1>4 DEF IsWalk
<1>7. it = [obj |-> o, idx |-> k + 1, max |-> m, cur |-> H[H[t[a]].next].next, pre |-> t[a]]
  <2>1. PICK v : v = w.iter
    OBVIOUS
  <2>2. v = [obj |-> o, idx |-> v.idx, max |-> v.max, cur |-> t[a], pre |-> v.pre]
    BY <2>1, <1>6
  <2>3. v.idx \in Nat
    BY <2>1, <1>3
  <2> HIDE DEF a, H, k, m, it
  <2>4. IterNext(H, v) = [obj |-> o, idx |-> v.idx + 1, max |-> v.max, cur |-> H[H[t[a]].next].next, pre |-> t[a]]
    <3>1. PICK c : c = t[a]
      OBVIOUS
    <3>2. v = Iter(o, v.idx, v.max, c, v.pre)
      BY <3>1, <2>2 DEF Iter
    <3>3. IterNext(H, v) = Iter(o, v.idx + 1, v.max, H[H[c].next].next, c)
      BY <3>2, <2>3, NextTurn
    <3> QED BY <3>1, <3>3 DEF Iter
  <2>5. it = IterNext(H, v) /\ k = v.idx /\ m = v.max
    BY <2>1 DEF H, it, k, m
  <2> QED BY <2>4, <2>5
<1> HIDE DEF H, k, m, it
<1>8. /\ a \in 1 .. 2 * m /\ a + 1 \in 1 .. 2 * m /\ After(a, 2 * m) = a + 1 /\ After(a + 1, 2 * m) = 2 * k + 1
      /\ 2 * k + 1 \in 1 .. 2 * m /\ 2 * k + 2 \in 1 .. 2 * m /\ After(2 * k + 1, 2 * m) = 2 * k + 2
  <2>1. CASE k = 0
    BY <2>1, <1>3 DEF KeyBefore, After
  <2>2. CASE k # 0
    <3>1. 2 * k < 2 * m /\ k >= 1
      BY <2>2, <1>3
    <3> QED BY <2>2, <3>1, <1>3 DEF KeyBefore, After
  <2> QED BY <2>1, <2>2
<1> HIDE DEF a
<1>9. H[t[a]].next = t[a + 1] /\ H[t[a + 1]].next = t[2 * k + 1] /\ H[t[2 * k + 1]].next = t[2 * k + 2]
      /\ H[t[2 * k + 2]].next = t[After(2 * k + 2, 2 * m)]
  BY <1>5, <1>8
<1>10. it = [obj |-> o, idx |-> k + 1, max |-> m, cur |-> t[2 * k + 1], pre |-> t[a]]
  BY <1>7, <1>9
<1>11. CASE Text(H[it.cur].data, buffer) # text
  <2>1. PICK x : x = [w EXCEPT !.iter = it]
    OBVIOUS
  <2>2. RemoveTurn(w, text) = x
    BY <2>1, <1>11 DEF RemoveTurn, it, H
  <2>3. x = [heap |-> H, iter |-> it, removed |-> w.removed]
    BY <2>1, <1>6 DEF H
  <2>4. x.heap = H /\ x.iter = it /\ x.removed = w.removed
    BY <2>3
  <2>5. it.obj = o /\ it.idx = k + 1 /\ it.max = m /\ it.cur = t[2 * k + 1]
    BY <1>10
  <2>6. IsWalk(x)
    <3>1. x = [heap |-> x.heap, iter |-> x.iter, removed |-> x.removed]
      BY <2>3
    <3>2. it = [obj |-> it.obj, idx |-> it.idx, max |-> it.max, cur |-> it.cur, pre |-> it.pre]
      BY <1>10
    <3> QED BY <3>1, <3>2, <2>4 DEF IsWalk
  <2>7. it.idx \in 0 .. it.max /\ KeyBefore(it.idx, it.max) = 2 * k + 1
    BY <2>5, <1>3 DEF KeyBefore
  <2>8. Walking(V, o, s, x, t)
    BY <2>4, <2>5, <2>6, <2>7, <1>1 DEF Walking
  <2>9. Turned(w, t, x, t, text)
    <3>1. 2 * (k + 1) - 1 = 2 * k + 1
      BY <1>3
    <3>2. ~Hit(H, t, k + 1, text)
      BY <1>11, <2>5, <3>1 DEF Hit
    <3> QED BY <3>2, <2>4, <2>5 DEF Turned, H, k, m
  <2> QED BY <2>2, <2>8, <2>9
<1>12. CASE Text(H[it.cur].data, buffer) = text
  <2> DEFINE last == IF k + 1 = m THEN t[a] ELSE H[o].last
             next == t[After(2 * k + 2, 2 * m)]
             u == Without(t, k, m)
             cut == IterRemove(H, it)
  <2>1. PICK G1 : LastSet(H, o, last, G1)
    BY DEF LastSet
  <2>2. PICK G2 : LenSet(G1, o, m - 1, G2)
    BY DEF LenSet
  <2>3. PICK G : NextSet(G2, t[a + 1], next, G)
    BY DEF NextSet
  <2>4. PICK y : y = [obj |-> o, idx |-> k, max |-> m - 1, cur |-> t[a], pre |-> t[a]]
    OBVIOUS
  <2>5. /\ Same(H, G1)
        /\ \A n \in 1 .. Len(H) :
              /\ G1[n].next = H[n].next /\ G1[n].len = H[n].len /\ G1[n].data = H[n].data
              /\ G1[n].last = IF n = o THEN last ELSE H[n].last
    <3>1. o \in 1 .. Len(H) /\ IsHeap(H)
      BY <1>2
    <3> HIDE DEF last
    <3> QED BY <2>1, <3>1, SetLast
  <2>6. /\ Same(G1, G2)
        /\ \A n \in 1 .. Len(G1) :
              /\ G2[n].next = G1[n].next /\ G2[n].last = G1[n].last /\ G2[n].data = G1[n].data
              /\ G2[n].len = IF n = o THEN m - 1 ELSE G1[n].len
    <3>1. m - 1 \in Nat
      BY <1>3
    <3> QED BY <2>2, <2>5, <3>1, <1>2, SetLen DEF Same
  <2>7. /\ Same(G2, G)
        /\ \A n \in 1 .. Len(G2) :
              /\ G[n].last = G2[n].last /\ G[n].len = G2[n].len /\ G[n].data = G2[n].data
              /\ G[n].next = IF n = t[a + 1] THEN next ELSE G2[n].next
    <3>1. t[a + 1] \in 1 .. Len(G2)
      BY <1>5, <1>8, <2>5, <2>6 DEF Same
    <3> QED BY <2>3, <2>5, <2>6, <3>1, SetNext DEF Same
  <2>8. G2[t[a]].next = t[a + 1]
    BY <1>5, <1>8, <1>9, <2>5, <2>6, SMTT(30) DEF Same
  <2>9. cut = [heap |-> G, iter |-> y]
    <3>1. it.cur = t[2 * k + 1] /\ it.pre = t[a] /\ it.obj = o /\ it.idx = k + 1 /\ it.max = m
      BY <1>10
    <3>2. H[H[it.cur].next].next = next
      BY <3>1, <1>9
    <3>3. (IF it.idx = it.max THEN it.pre ELSE H[it.obj].last) = last
      BY <3>1
    <3>4. [H EXCEPT ![it.obj].last = last, ![it.obj].len = it.max - 1] = G2
      BY <3>1, <2>1, <2>2 DEF LastSet, LenSet
    <3>5. [G2 EXCEPT ![G2[it.pre].next].next = next] = G
      BY <3>1, <2>3, <2>8 DEF NextSet
    <3>6. [it EXCEPT !.idx = @ - 1, !.max = @ - 1, !.cur = it.pre] = y
      <4>1. (k + 1) - 1 = k /\ k + 1 \in Nat
        BY <1>3
      <4>2. [it EXCEPT !.idx = @ - 1, !.max = @ - 1, !.cur = it.pre]
              = [obj |-> o, idx |-> (k + 1) - 1, max |-> m - 1, cur |-> t[a], pre |-> t[a]]
        <5>1. m \in Nat /\ (k + 1) \in Nat
          BY <4>1, <1>3
        <5>2. PICK e : e = it
          OBVIOUS
        <5>3. PICK f \in Nat : f = k + 1
          BY <5>1
        <5>4. PICK b : b = t[2 * k + 1]
          OBVIOUS
        <5>5. PICK g : g = t[a]
          OBVIOUS
        <5>6. e = Iter(o, f, m, b, g)
          BY <5>2, <5>3, <5>4, <5>5, <1>10 DEF Iter
        <5>7. Back(e) = Iter(o, f - 1, m - 1, g, g)
          BY <5>1, <5>6, TurnBack
        <5> QED BY <5>2, <5>3, <5>5, <5>7 DEF Iter, Back
      <4> QED BY <4>1, <4>2, <2>4
    <3> HIDE DEF last, next
    <3> QED BY <3>2, <3>3, <3>4, <3>5, <3>6 DEF IterRemove
  <2>10. PICK x : x = [heap |-> G, iter |-> y, removed |-> IF w.removed = NULL THEN t[2 * k + 2] ELSE w.removed]
    OBVIOUS
  <2>11. RemoveTurn(w, text) = x
    <3>1. cut.heap = G /\ cut.iter = y
      BY <2>9
    <3>2. H[it.cur].next = t[2 * k + 2]
      BY <1>9, <1>10
    <3>3. RemoveTurn(w, text) = [heap |-> cut.heap, iter |-> cut.iter, removed |-> IF w.removed = NULL THEN H[it.cur].next ELSE w.removed]
      BY <1>12 DEF RemoveTurn, it, H
    <3> HIDE DEF cut
    <3> QED BY <2>10, <3>1, <3>2, <3>3
  <2>12. PairCut(H, o, last, t[a + 1], next, G)
    <3>1. Same(H, G) /\ Len(G1) = Len(H) /\ Len(G2) = Len(H)
      BY <2>5, <2>6, <2>7 DEF Same
    <3>2. ASSUME NEW n \in 1 .. Len(H)
          PROVE  /\ G[n].len = IF n = o THEN m - 1 ELSE H[n].len
                 /\ G[n].last = IF n = o THEN last ELSE H[n].last
                 /\ G[n].next = IF n = t[a + 1] THEN next ELSE H[n].next
      BY <3>1, <2>5, <2>6, <2>7
    <3>3. H[o].len = m /\ m - 1 = H[o].len - 1
      BY <1>1 DEF m, H
    <3> HIDE DEF last, next
    <3> QED BY <3>1, <3>2, <3>3, <1>2 DEF PairCut
  <2>13. Circle(G, o, u)
    <3>1. H[o].len = m
      BY <1>1 DEF m, H
    <3>2. PICK l : l = last
      OBVIOUS
    <3>3. PICK nx : nx = next
      OBVIOUS
    <3>4. PICK pv : pv = t[a + 1]
      OBVIOUS
    <3>5. l = (IF k + 1 = m THEN t[KeyBefore(k, m)] ELSE H[o].last) /\ pv = t[KeyBefore(k, m) + 1]
          /\ nx = t[After(2 * k + 2, 2 * m)]
      BY <3>2, <3>3, <3>4 DEF a
    <3> HIDE DEF u, last, next
    <3>6. PairCut(H, o, l, pv, nx, G)
      BY <2>12, <3>2, <3>3, <3>4
    <3> QED BY <3>1, <3>5, <3>6, <1>2, <1>3, CircleWithout DEF u
  <2>14. /\ Len(u) = 2 * m - 2
         /\ \A i \in 1 .. 2 * m - 2 : \E x1 \in 1 .. 2 * m : u[i] = t[x1] /\ x1 % 2 = i % 2 /\ x1 # 2 * k + 1 /\ x1 # 2 * k + 2
    <3>1. G[o].kind = "obj" /\ G[o].len = m - 1
      <4>1. H[o].len = m
        BY <1>1 DEF m, H
      <4> QED BY <4>1, <2>12, <1>2 DEF PairCut, Same
    <3>2. Len(u) = 2 * (m - 1)
      BY <2>13, <3>1 DEF Circle, Width
    <3>3. ASSUME NEW i \in 1 .. 2 * m - 2
          PROVE  \E x1 \in 1 .. 2 * m : u[i] = t[x1] /\ x1 % 2 = i % 2 /\ x1 # 2 * k + 1 /\ x1 # 2 * k + 2
      <4>1. u[i] = IF i <= 2 * k THEN t[i] ELSE t[i + 2]
        BY DEF Without
      <4>2. i \in 1 .. 2 * m /\ i + 2 \in 1 .. 2 * m /\ (i + 2) % 2 = i % 2
            /\ (i <= 2 * k => i # 2 * k + 1 /\ i # 2 * k + 2)
            /\ (~(i <= 2 * k) => i + 2 # 2 * k + 1 /\ i + 2 # 2 * k + 2)
        BY <1>3
      <4> HIDE DEF u
      <4> QED BY <4>1, <4>2
    <3>4. Len(u) = 2 * m - 2
      BY <3>2, <1>3
    <3> QED BY <3>3, <3>4
  <2> HIDE DEF u
  <2>15. /\ \A i \in 1 .. Len(u) : \E j \in 1 .. Len(s) : u[i] = s[j] /\ i % 2 = j % 2
         /\ \A i \in 1 .. 2 * m : \E j \in 1 .. Len(s) : t[i] = s[j] /\ i % 2 = j % 2
    <3>1. \A i \in 1 .. 2 * m : \E j \in 1 .. Len(s) : t[i] = s[j] /\ i % 2 = j % 2
      BY <1>1, <1>5 DEF Cut
    <3> QED BY <3>1, <2>14, SMTT(30)
  <2>16. Cut(V, G, o, s, u)
    <3>1. Same(V, G) /\ G[o].kind = "obj"
      BY <2>12, <1>1, <1>2 DEF Cut, Same, PairCut
    <3>2. \A n \in 1 .. Len(V) : n # o => G[n].len = V[n].len /\ G[n].last = V[n].last
      BY <2>12, <1>1, <1>2 DEF Cut, PairCut
    <3>3. ASSUME NEW n \in 1 .. Len(V), \A j \in 1 .. Len(s) : s[j] # n PROVE G[n].next = V[n].next
      <4>1. n # t[a + 1]
        BY <3>3, <2>15, <1>8, SMTT(30)
      <4>2. G[n].next = H[n].next
        BY <4>1, <2>12, <1>2 DEF PairCut
      <4>3. H[n].next = V[n].next
        BY <3>3, <1>1 DEF Cut
      <4> QED BY <4>2, <4>3
    <3> QED BY <3>1, <3>2, <3>3, <2>13, <2>15 DEF Cut
  <2>17. x.heap = G /\ x.iter = y /\ x.removed = IF w.removed = NULL THEN t[2 * k + 2] ELSE w.removed
    BY <2>10
  <2>18. y.obj = o /\ y.idx = k /\ y.max = m - 1 /\ y.cur = t[a]
    BY <2>4
  <2>19. IsWalk(x)
    <3>1. x = [heap |-> x.heap, iter |-> x.iter, removed |-> x.removed]
      BY <2>10
    <3>2. y = [obj |-> y.obj, idx |-> y.idx, max |-> y.max, cur |-> y.cur, pre |-> y.pre]
      BY <2>4
    <3> QED BY <3>1, <3>2, <2>17 DEF IsWalk
  <2>20. y.max = G[o].len /\ y.idx \in 0 .. y.max
    <3>1. G[o].len = m - 1
      BY <2>12, <1>1 DEF PairCut, m, H
    <3> QED BY <3>1, <2>18, <1>3
  <2>21. y.max > 0 => y.cur = u[KeyBefore(y.idx, y.max)]
    <3> SUFFICES ASSUME m - 1 > 0 PROVE t[a] = u[KeyBefore(k, m - 1)]
      BY <2>18
    <3>1. \A i \in 1 .. 2 * m - 2 : u[i] = IF i <= 2 * k THEN t[i] ELSE t[i + 2]
      BY DEF u, Without
    <3>2. CASE k = 0
      <4>1. KeyBefore(k, m - 1) = 2 * m - 3 /\ 2 * m - 3 \in 1 .. 2 * m - 2 /\ ~(2 * m - 3 <= 2 * k)
            /\ (2 * m - 3) + 2 = 2 * m - 1 /\ a = 2 * m - 1
        BY <3>2, <1>3 DEF KeyBefore, a
      <4> QED BY <3>1, <4>1
    <3>3. CASE k # 0
      <4>1. KeyBefore(k, m - 1) = 2 * k - 1 /\ 2 * k - 1 \in 1 .. 2 * m - 2 /\ 2 * k - 1 <= 2 * k /\ a = 2 * k - 1
        BY <3>3, <1>3 DEF KeyBefore, a
      <4> QED BY <3>1, <4>1
    <3> QED BY <3>2, <3>3
  <2>22. (\E j \in 1 .. Len(s) : x.removed = s[j]) /\ \A i \in 1 .. Len(u) : u[i] # x.removed
    <3>1. CASE w.removed = NULL
      <4>1. ASSUME NEW i \in 1 .. Len(u) PROVE u[i] # t[2 * k + 2]
        <5>1. PICK x1 \in 1 .. 2 * m : u[i] = t[x1] /\ x1 # 2 * k + 2
          BY <2>14
        <5> QED BY <5>1, <1>5, <1>8
      <4>2. \E j \in 1 .. Len(s) : t[2 * k + 2] = s[j]
        BY <2>15, <1>8
      <4> QED BY <3>1, <4>1, <4>2, <2>17
    <3>2. CASE w.removed # NULL
      <4>1. (\E j \in 1 .. Len(s) : w.removed = s[j]) /\ \A i \in 1 .. 2 * m : t[i] # w.removed
        BY <3>2, <1>1, <1>5
      <4>2. \A i \in 1 .. Len(u) : u[i] # w.removed
        BY <4>1, <2>14, SMTT(30)
      <4> QED BY <3>2, <4>1, <4>2, <2>17
    <3> QED BY <3>1, <3>2
  <2>23. Walking(V, o, s, x, u)
    BY <2>16, <2>17, <2>18, <2>19, <2>20, <2>21, <2>22 DEF Walking
  <2>24. \A n \in 1 .. Len(H) : G[n].data = H[n].data
    <3>1. Len(G1) = Len(H) /\ Len(G2) = Len(H)
      BY <2>5, <2>6 DEF Same
    <3> QED BY <3>1, <2>5, <2>6, <2>7
  <2>25. Turned(w, t, x, u, text)
    <3>1. 2 * (k + 1) - 1 = 2 * k + 1 /\ it.cur = t[2 * k + 1]
      BY <1>3, <1>10
    <3>2. Hit(H, t, k + 1, text)
      BY <1>12, <3>1 DEF Hit
    <3> QED BY <3>2, <2>17, <2>18, <2>24 DEF Turned, H, k, m, u
  <2> QED BY <2>11, <2>23, <2>25
<1> QED BY <1>11, <1>12

(* So each turn finds the next key of that text.                             *)
LEMMA TurnFinds ==
    ASSUME NEW V, IsHeap(V), NEW o \in 1 .. Len(V), NEW s, s \in Seq(1 .. Len(V)),
           NEW w, NEW t, Walking(V, o, s, w, t), NEW text, NEW e \in Nat, Finding(V, s, w, t, text, e),
           HasNext(w.iter), NEW x, NEW u, Turned(w, t, x, u, text)
    PROVE  Finding(V, s, x, u, text, e + 1)
<1> DEFINE k == w.iter.idx
           m == w.iter.max
<1>1. /\ m \in Nat /\ k \in Nat /\ k < m /\ Len(w.heap) = Len(V) /\ Len(V) \in Nat
      /\ Len(t) = 2 * m /\ t \in Seq(1 .. Len(V))
  <2>1. /\ Same(V, w.heap) /\ w.heap[o].kind = "obj" /\ Circle(w.heap, o, t) /\ m = w.heap[o].len /\ k \in 0 .. m
    BY DEF Walking, Cut
  <2>2. m \in Nat /\ Len(w.heap) = Len(V) /\ Len(V) \in Nat
    BY <2>1 DEF Same, IsHeap, IsValue
  <2>3. k \in Nat /\ k < m
    BY <2>1, <2>2 DEF HasNext
  <2> QED BY <2>1, <2>2, <2>3 DEF Circle, Width
<1>2. /\ \A n \in 1 .. Len(V) : w.heap[n].data = V[n].data
      /\ Len(s) = 2 * (e + m - k)
      /\ \A i \in (2 * k + 1) .. (2 * m) : t[i] = s[i - 2 * k + 2 * e]
      /\ \A i \in 1 .. k : ~Hit(V, t, i, text)
      /\ w.removed = NULL => \A i \in 1 .. e : ~Hit(V, s, i, text)
      /\ w.removed # NULL => \E i \in 1 .. e : First(V, s, i, text) /\ w.removed = s[2 * i]
  BY DEF Finding
<1>3. /\ \A n \in 1 .. Len(V) : x.heap[n].data = V[n].data
      /\ \/ /\ ~Hit(w.heap, t, k + 1, text)
            /\ x.iter.idx = k + 1 /\ x.iter.max = m /\ x.removed = w.removed /\ u = t
         \/ /\ Hit(w.heap, t, k + 1, text)
            /\ x.iter.idx = k /\ x.iter.max = m - 1 /\ u = Without(t, k, m)
            /\ x.removed = IF w.removed = NULL THEN t[2 * k + 2] ELSE w.removed
  BY <1>1, <1>2 DEF Turned
<1> HIDE DEF k, m
<1>4. /\ 2 * (k + 1) - 1 = 2 * k + 1 /\ 2 * k + 1 \in (2 * k + 1) .. (2 * m) /\ 2 * k + 2 \in (2 * k + 1) .. (2 * m)
      /\ (2 * k + 1) - 2 * k + 2 * e = 2 * e + 1 /\ (2 * k + 2) - 2 * k + 2 * e = 2 * e + 2
      /\ 2 * (e + 1) - 1 = 2 * e + 1 /\ 2 * (e + 1) = 2 * e + 2
  BY <1>1
<1>5. t[2 * k + 1] = s[2 * e + 1] /\ t[2 * k + 2] = s[2 * e + 2]
  <2>1. \A i \in (2 * k + 1) .. (2 * m) : t[i] = s[i - 2 * k + 2 * e]
    BY <1>2
  <2>2. ASSUME NEW i \in (2 * k + 1) .. (2 * m), NEW j, j = i - 2 * k + 2 * e PROVE t[i] = s[j]
    BY <2>1, <2>2
  <2>3. t[2 * k + 1] = s[2 * e + 1]
    BY <2>2, <1>4
  <2>4. t[2 * k + 2] = s[2 * e + 2]
    BY <2>2, <1>4
  <2> QED BY <2>3, <2>4
<1>6. t[2 * k + 1] \in 1 .. Len(V) /\ t[2 * k + 2] \in 1 .. Len(V)
  <2>1. \A i \in 1 .. Len(t) : t[i] \in 1 .. Len(V)
    <3>1. t \in Seq(1 .. Len(V))
      BY <1>1
    <3> QED BY <3>1, SMTT(30)
  <2>2. 2 * k + 1 \in 1 .. Len(t) /\ 2 * k + 2 \in 1 .. Len(t)
    BY <1>1
  <2> QED BY <2>1, <2>2
<1>7. Hit(w.heap, t, k + 1, text) <=> Hit(V, s, e + 1, text)
  <2>1. w.heap[t[2 * k + 1]].data = V[s[2 * e + 1]].data
    BY <1>2, <1>5, <1>6
  <2> QED BY <2>1, <1>4 DEF Hit
<1>8. Hit(V, t, k + 1, text) <=> Hit(V, s, e + 1, text)
  BY <1>4, <1>5 DEF Hit
<1>9. \A i \in 1 .. (e + 1) : i \in 1 .. e \/ i = e + 1
  OBVIOUS
<1>10. CASE /\ ~Hit(w.heap, t, k + 1, text)
            /\ x.iter.idx = k + 1 /\ x.iter.max = m /\ x.removed = w.removed /\ u = t
  <2>1. Len(s) = 2 * ((e + 1) + m - (k + 1))
    <3>1. Len(s) = 2 * (e + m - k)
      BY <1>2
    <3> QED BY <3>1, <1>1
  <2>2. ASSUME NEW i \in (2 * (k + 1) + 1) .. (2 * m) PROVE u[i] = s[i - 2 * (k + 1) + 2 * (e + 1)]
    <3>1. i \in (2 * k + 1) .. (2 * m) /\ i - 2 * (k + 1) + 2 * (e + 1) = i - 2 * k + 2 * e
      BY <1>1
    <3> QED BY <3>1, <1>2, <1>10
  <2>3. ASSUME NEW i \in 1 .. (k + 1) PROVE ~Hit(V, u, i, text)
    <3>1. i \in 1 .. k \/ i = k + 1
      BY <1>1
    <3> QED BY <3>1, <1>2, <1>7, <1>8, <1>10
  <2>4. x.removed = NULL => \A i \in 1 .. (e + 1) : ~Hit(V, s, i, text)
    BY <1>2, <1>7, <1>9, <1>10
  <2>5. x.removed # NULL => \E i \in 1 .. (e + 1) : First(V, s, i, text) /\ x.removed = s[2 * i]
    <3>1. \A i \in 1 .. e : i \in 1 .. (e + 1)
      OBVIOUS
    <3> QED BY <3>1, <1>2, <1>10
  <2> QED BY <2>1, <2>2, <2>3, <2>4, <2>5, <1>3, <1>10 DEF Finding
<1>11. CASE /\ Hit(w.heap, t, k + 1, text)
            /\ x.iter.idx = k /\ x.iter.max = m - 1 /\ u = Without(t, k, m)
            /\ x.removed = IF w.removed = NULL THEN t[2 * k + 2] ELSE w.removed
  <2>1. Len(s) = 2 * ((e + 1) + (m - 1) - k)
    <3>1. Len(s) = 2 * (e + m - k)
      BY <1>2
    <3> QED BY <3>1, <1>1
  <2>2. ASSUME NEW i \in (2 * k + 1) .. (2 * (m - 1)) PROVE u[i] = s[i - 2 * k + 2 * (e + 1)]
    <3>1. /\ i \in 1 .. (2 * m - 2) /\ ~(i <= 2 * k) /\ i + 2 \in (2 * k + 1) .. (2 * m)
          /\ (i + 2) - 2 * k + 2 * e = i - 2 * k + 2 * (e + 1)
      BY <1>1
    <3>2. u[i] = t[i + 2]
      BY <3>1, <1>11 DEF Without
    <3> QED BY <3>1, <3>2, <1>2
  <2>3. ASSUME NEW i \in 1 .. k PROVE ~Hit(V, u, i, text)
    <3>1. 2 * i - 1 \in 1 .. (2 * m - 2) /\ 2 * i - 1 <= 2 * k
      BY <1>1
    <3>2. u[2 * i - 1] = t[2 * i - 1]
      BY <3>1, <1>11 DEF Without
    <3>3. ~Hit(V, t, i, text)
      BY <1>2
    <3> QED BY <3>2, <3>3 DEF Hit
  <2>4. x.removed # NULL
    BY <1>6, <1>11 DEF NULL
  <2>5. \E i \in 1 .. (e + 1) : First(V, s, i, text) /\ x.removed = s[2 * i]
    <3>1. CASE w.removed = NULL
      <4>1. e + 1 \in 1 .. (e + 1) /\ (e + 1) - 1 = e
        OBVIOUS
      <4>2. First(V, s, e + 1, text)
        BY <3>1, <4>1, <1>2, <1>7, <1>11 DEF First
      <4>3. x.removed = s[2 * (e + 1)]
        BY <3>1, <1>4, <1>5, <1>11
      <4> QED BY <4>1, <4>2, <4>3
    <3>2. CASE w.removed # NULL
      <4>1. \A i \in 1 .. e : i \in 1 .. (e + 1)
        OBVIOUS
      <4> QED BY <3>2, <4>1, <1>2, <1>11
    <3> QED BY <3>1, <3>2
  <2> QED BY <2>1, <2>2, <2>3, <2>4, <2>5, <1>3, <1>11 DEF Finding
<1> QED BY <1>3, <1>10, <1>11

(* The whole walk.                                                           *)
LEMMA WalkIs ==
    ASSUME IsHeap(vals), NEW o \in 1 .. Len(vals), vals[o].kind = "obj",
           NEW s, Circle(vals, o, s), \A j \in 1 .. Len(s) : s[j] # o, NEW text
    PROVE  \E t : /\ Walking(vals, o, s, RemoveWalk(o, text), t)
                 /\ Finding(vals, s, RemoveWalk(o, text), t, text, vals[o].len)
<1> DEFINE N == vals[o].len
           base == [heap |-> vals, iter |-> IterInit(vals, o), removed |-> NULL]
           Turn(w) == IF HasNext(w.iter) THEN RemoveTurn(w, text) ELSE w
           W[i \in 0 .. N] == IF i = 0 THEN base ELSE Turn(W[i - 1])
           Is(f, k) == f = [i \in 0 .. k |-> IF i = 0 THEN base ELSE Turn(f[i - 1])]
           Fine(w, i) == \E t : Walking(vals, o, s, w, t) /\ Finding(vals, s, w, t, text, i)
<1>1. RemoveWalk(o, text) = W[N]
  BY DEF RemoveWalk
<1>2. s \in Seq(1 .. Len(vals)) /\ N \in Nat
  BY DEF Circle, IsHeap, IsValue
<1>3. N \in Nat
  BY <1>2
<1>4. ASSUME NEW w, NEW i \in Nat, i < N, Fine(w, i) PROVE Fine(Turn(w), i + 1)
  <2>1. PICK t : Walking(vals, o, s, w, t) /\ Finding(vals, s, w, t, text, i)
    BY <1>4
  <2>2. HasNext(w.iter)
    <3>1. w.iter.idx \in 0 .. w.iter.max /\ w.iter.max \in Nat
      <4>1. w.iter.max = w.heap[o].len /\ w.iter.idx \in 0 .. w.iter.max /\ IsHeap(w.heap) /\ Len(w.heap) = Len(vals)
        BY <2>1 DEF Walking, Cut, Same
      <4> QED BY <4>1 DEF IsHeap, IsValue
    <3>2. Len(s) = 2 * (i + w.iter.max - w.iter.idx)
      BY <2>1 DEF Finding
    <3>3. Len(s) = 2 * N
      BY DEF Circle, Width
    <3> HIDE DEF N
    <3>4. w.iter.idx < w.iter.max
      BY <3>1, <3>2, <3>3, <1>3, <1>4
    <3> QED BY <3>4 DEF HasNext
  <2>3. PICK x : x = RemoveTurn(w, text)
    OBVIOUS
  <2>4. PICK u : Walking(vals, o, s, x, u) /\ Turned(w, t, x, u, text)
    BY <2>1, <2>2, <2>3, <1>2, TurnKeeps
  <2>5. Finding(vals, s, x, u, text, i + 1)
    BY <2>1, <2>2, <2>4, <1>2, TurnFinds
  <2> QED BY <2>2, <2>3, <2>4, <2>5
<1>5. Fine(base, 0)
  <2>1. PICK b : b = base
    OBVIOUS
  <2>2. PICK it : it = IterInit(vals, o)
    OBVIOUS
  <2>3. b = [heap |-> vals, iter |-> it, removed |-> NULL]
    BY <2>1, <2>2
  <2>4. b.heap = vals /\ b.iter = it /\ b.removed = NULL
    BY <2>3
  <2>5. it = [obj |-> o, idx |-> 0, max |-> N, cur |-> vals[o].last, pre |-> NULL]
    BY <2>2 DEF IterInit
  <2>6. it.obj = o /\ it.idx = 0 /\ it.max = N /\ it.cur = vals[o].last
    BY <2>5
  <2>7. IsWalk(b)
    <3>1. b = [heap |-> b.heap, iter |-> b.iter, removed |-> b.removed]
      BY <2>3
    <3>2. it = [obj |-> it.obj, idx |-> it.idx, max |-> it.max, cur |-> it.cur, pre |-> it.pre]
      BY <2>5
    <3> QED BY <3>1, <3>2, <2>4 DEF IsWalk
  <2>8. Cut(vals, vals, o, s, s)
    <3>1. Same(vals, vals)
      BY DEF Same
    <3>2. \A i \in 1 .. Len(s) : \E j \in 1 .. Len(s) : s[i] = s[j] /\ i % 2 = j % 2
      OBVIOUS
    <3> QED BY <3>1, <3>2 DEF Cut
  <2>9. N > 0 => vals[o].last = s[KeyBefore(0, N)]
    <3> SUFFICES ASSUME N > 0 PROVE vals[o].last = s[KeyBefore(0, N)]
      OBVIOUS
    <3>1. Len(s) = 2 * N
      BY DEF Circle, Width
    <3>2. Len(s) > 0 /\ Len(s) - 1 = KeyBefore(0, N)
      BY <3>1, <1>2 DEF KeyBefore
    <3>3. vals[o].last = s[LastAt(vals[o], Len(s))]
      BY <3>2 DEF Circle
    <3> QED BY <3>2, <3>3 DEF LastAt
  <2>10. it.idx \in 0 .. it.max
    BY <2>6, <1>2
  <2>11. Walking(vals, o, s, b, s)
    <3> HIDE DEF N
    <3>1. it.max > 0 => it.cur = s[KeyBefore(it.idx, it.max)]
      BY <2>6, <2>9
    <3>2. it.max = vals[o].len
      BY <2>6 DEF N
    <3> QED BY <2>4, <2>6, <2>7, <2>8, <2>10, <3>1, <3>2 DEF Walking
  <2>12. Finding(vals, s, b, s, text, 0)
    <3>1. Len(s) = 2 * N
      BY DEF Circle, Width
    <3> HIDE DEF N
    <3>2. Len(s) = 2 * (0 + it.max - it.idx) /\ \A i \in (2 * it.idx + 1) .. (2 * it.max) : i - 2 * it.idx + 2 * 0 = i
      BY <3>1, <2>6, <1>3
    <3>3. (1 .. 0) = {} /\ it.idx = 0
      BY <2>6
    <3> QED BY <2>4, <3>2, <3>3 DEF Finding
  <2> QED BY <2>1, <2>11, <2>12
<1> HIDE DEF base, Turn, Is, N, Fine
<1> DEFINE R == {k \in 0 .. N : ~\E f : Is(f, k)}
<1>6. R = {}
  <2> SUFFICES ASSUME R # {} PROVE FALSE
    OBVIOUS
  <2>1. R \in SUBSET Nat
    BY <1>3
  <2>2. PICK k \in R : \A j \in R : k <= j
    BY <2>1, Smallest
  <2>3. k # 0
    <3>1. Is([i \in 0 .. 0 |-> base], 0)
      BY DEF Is
    <3> QED BY <3>1
  <2>4. k \in Nat /\ k - 1 \in 0 .. N /\ k - 1 \notin R
    BY <2>1, <2>2, <2>3, <1>3
  <2>5. PICK g : Is(g, k - 1)
    BY <2>4
  <2> DEFINE p == [i \in 0 .. k |-> IF i < k THEN g[i] ELSE Turn(g[k - 1])]
  <2>6. ASSUME NEW i \in 0 .. k PROVE p[i] = IF i = 0 THEN base ELSE Turn(p[i - 1])
    <3>1. CASE i = 0
      <4>1. 0 \in 0 .. (k - 1) /\ p[i] = g[0]
        BY <3>1, <2>3, <2>4
      <4> QED BY <4>1, <3>1, <2>5 DEF Is
    <3>2. CASE i # 0 /\ i < k
      <4>1. i \in 0 .. (k - 1) /\ p[i] = g[i] /\ p[i - 1] = g[i - 1]
        BY <3>2, <2>4
      <4>2. g[i] = Turn(g[i - 1])
        BY <3>2, <4>1, <2>5 DEF Is
      <4> QED BY <3>2, <4>1, <4>2
    <3>3. CASE i = k
      <4>1. p[i] = Turn(g[k - 1]) /\ p[i - 1] = g[k - 1]
        BY <3>3, <2>3, <2>4
      <4> QED BY <3>3, <2>3, <4>1
    <3> QED BY <3>1, <3>2, <3>3, <2>4
  <2>7. Is(p, k)
    BY <2>6 DEF Is
  <2> QED BY <2>7
<1>7. \E f : Is(f, N)
  <2>1. N \in 0 .. N
    BY <1>3
  <2> HIDE DEF R
  <2>2. N \notin R
    BY <1>6
  <2> QED BY <2>1, <2>2 DEF R
<1>8. W = [i \in 0 .. N |-> IF i = 0 THEN base ELSE Turn(W[i - 1])]
  BY <1>7 DEF Is
<1> HIDE DEF W
<1>9. W[0] = base /\ \A i \in 1 .. N : W[i] = Turn(W[i - 1])
  <2>1. 0 \in 0 .. N /\ \A i \in 1 .. N : i \in 0 .. N /\ i # 0
    BY <1>3
  <2> QED BY <1>8, <2>1
<1>10. \A i \in 0 .. N : Fine(W[i], i)
  <2> SUFFICES ASSUME NEW i0 \in 0 .. N, ~Fine(W[i0], i0) PROVE FALSE
    OBVIOUS
  <2> DEFINE S == {i \in 0 .. N : ~Fine(W[i], i)}
  <2>1. S \in SUBSET Nat /\ S # {}
    BY <1>3
  <2>2. PICK i \in S : \A j \in S : i <= j
    BY <2>1, Smallest
  <2>3. i \in 0 .. N /\ ~Fine(W[i], i)
    OBVIOUS
  <2>4. i # 0
    BY <2>3, <1>5, <1>9
  <2>5. i \in 1 .. N /\ i - 1 \in 0 .. N /\ i - 1 < i /\ i - 1 \in Nat /\ i - 1 < N /\ (i - 1) + 1 = i
    BY <2>3, <2>4, <1>3
  <2>6. Fine(W[i - 1], i - 1)
    BY <2>1, <2>2, <2>5
  <2>7. Fine(Turn(W[i - 1]), i)
    BY <2>5, <2>6, <1>4
  <2> QED BY <2>3, <2>5, <2>7, <1>9
<1>11. Fine(W[N], N)
  BY <1>3, <1>10
<1> QED BY <1>1, <1>11 DEF Fine, N

(* A removal: the list s of o becomes t, as the walk found.                  *)
Removed(o, text) ==
    \E s, w, t :
        /\ w = RemoveWalk(o, text) /\ Circle(vals, o, s) /\ Finding(vals, s, w, t, text, vals[o].len)
        /\ \A j \in 1 .. Len(s) : s[j] \in 1 .. Len(vals) /\ s[j] \notin loose
        /\ w.iter.max = vals'[o].len /\ w.iter.idx \in 0 .. w.iter.max
        /\ Len(vals') = Len(vals) /\ vals'[o].kind = "obj" /\ Circle(vals', o, t)
        /\ \A i \in 1 .. Len(t) : vals'[t[i]].data = vals[t[i]].data

(* What the removed pairs hold is in no list that is left.                   *)
LEMMA StepRemove ==
    ASSUME IInv, NEW o \in Objects, NEW text, remove_str(o, text)
    PROVE  IInv' /\ Removed(o, text)
<1> DEFINE V == vals
           N == Len(vals)
<1>1. /\ IsHeap(V) /\ N \in Nat /\ o \in 1 .. N /\ o \in Boxes(V) /\ V[o].kind = "obj"
      /\ DOMAIN V = 1 .. N /\ loose \in SUBSET (1 .. N)
  BY InvFacts DEF Boxes
<1>2. PICK L, r : Links(V, Boxes(V), L, r) /\ \A n \in loose : Unlisted(Boxes(V), L, n)
  BY DEF IInv, Sound
<1> DEFINE s == L[o]
<1>3. /\ List(V, o, s, r) /\ Circle(V, o, s) /\ s \in Seq(1 .. N)
      /\ \A j \in 1 .. Len(s) : s[j] \in 1 .. N /\ r[s[j]] < r[o]
  BY <1>1, <1>2, InHeap DEF List
<1>4. r \in [1 .. N -> Int]
  BY <1>2 DEF Links
<1>5. \A j \in 1 .. Len(s) : s[j] # o
  BY <1>1, <1>3, <1>4
<1>6. PICK w : w = RemoveWalk(o, text)
  OBVIOUS
<1>7. PICK t : Walking(V, o, s, w, t) /\ Finding(V, s, w, t, text, V[o].len)
  BY <1>1, <1>3, <1>5, <1>6, WalkIs
<1>8. PICK H : H = w.heap
  OBVIOUS
<1>9. PICK kept : kept = w.removed
  OBVIOUS
<1>10. /\ vals' = Forgotten(H, o, kept) /\ docs' = docs
       /\ loose' = IF kept = NULL THEN loose ELSE loose \cup {kept}
  BY <1>6, <1>8, <1>9 DEF remove_str
<1>11. /\ Same(V, H) /\ H[o].kind = "obj" /\ Circle(H, o, t)
       /\ \A n \in 1 .. N : n # o => H[n].len = V[n].len /\ H[n].last = V[n].last
       /\ \A n \in 1 .. N : (\A j \in 1 .. Len(s) : s[j] # n) => H[n].next = V[n].next
       /\ \A i \in 1 .. Len(t) : \E j \in 1 .. Len(s) : t[i] = s[j] /\ i % 2 = j % 2
  BY <1>7, <1>8 DEF Walking, Cut
<1>12. IsHeap(H) /\ Len(H) = N /\ DOMAIN H = 1 .. N
  BY <1>11 DEF Same, IsHeap
<1>13. kept # NULL => (\E j \in 1 .. Len(s) : kept = s[j]) /\ \A i \in 1 .. Len(t) : t[i] # kept
  BY <1>7, <1>9 DEF Walking
<1>14. kept = NULL => kept \notin 1 .. N
  BY <1>1 DEF NULL
<1>15. t \in Seq(1 .. N) /\ Len(t) \in Nat
  BY <1>11, <1>12 DEF Circle
<1>16. Members(V, o) = s /\ Members(H, o) = t
  BY <1>1, <1>3, <1>11, <1>12, MembersAre
<1> DEFINE gone == Range(Members(V, o)) \ (Range(Members(H, o)) \cup {kept})
           lost == UNION {Subtree(V, n) : n \in gone}
           W == Forgotten(H, o, kept)
<1>17. ASSUME NEW n \in gone
       PROVE  (\E j \in 1 .. Len(s) : n = s[j]) /\ (\A i \in 1 .. Len(t) : t[i] # n)
  <2>1. DOMAIN s = 1 .. Len(s) /\ DOMAIN t = 1 .. Len(t)
    BY <1>3, <1>15
  <2>2. n \in Range(s) /\ n \notin Range(t)
    BY <1>16
  <2> HIDE DEF s
  <2> QED BY <2>1, <2>2 DEF Range
<1> HIDE DEF gone
<1>18. ASSUME NEW n \in gone PROVE Holds(V, L, r, Subtree(V, n), n) /\ r[n] < r[o]
  <2>1. n \in 1 .. N /\ r[n] < r[o]
    BY <1>3, <1>17
  <2> QED BY <2>1, <1>2, SubtreeHolds
<1>19. ASSUME NEW x \in lost
       PROVE  /\ x \in 1 .. N /\ r[x] < r[o]
              /\ x \in gone \/ \E c \in lost \cap Boxes(V) : Member(L, c, x)
  <2>1. PICK n \in gone : x \in Subtree(V, n)
    OBVIOUS
  <2>2. Holds(V, L, r, Subtree(V, n), n) /\ r[n] < r[o]
    BY <1>18
  <2>3. x \in 1 .. N /\ r[x] <= r[n] /\ n \in 1 .. N
    BY <2>1, <2>2 DEF Holds
  <2>4. r[x] < r[o]
    BY <2>2, <2>3, <1>1, <1>4
  <2>5. x = n \/ \E c \in Subtree(V, n) \cap Boxes(V) : Member(L, c, x)
    BY <2>1, <2>2 DEF Holds
  <2> QED BY <2>3, <2>4, <2>5
<1>20. o \notin lost
  BY <1>1, <1>4, <1>19
<1> HIDE DEF lost
<1>21. ASSUME NEW c \in Boxes(V), c \notin lost, NEW i \in 1 .. Len(L[c]), L[c][i] \in lost
       PROVE  c = o /\ L[c][i] \in gone
  <2>1. ASSUME NEW e \in lost \cap Boxes(V), Member(L, e, L[c][i]) PROVE FALSE
    <3>1. Apart(L[c], L[e])
      BY <1>21, <2>1, <1>2 DEF Links
    <3> QED BY <2>1, <3>1 DEF Member, Apart
  <2>2. L[c][i] \in gone
    BY <2>1, <1>19, <1>21
  <2>3. PICK j \in 1 .. Len(s) : L[c][i] = s[j]
    BY <2>2, <1>17
  <2>4. c = o
    BY <2>3, <1>1, <1>2 DEF Links, Apart
  <2> QED BY <2>2, <2>4
<1>22. ASSUME NEW i \in 1 .. Len(t) PROVE t[i] \notin lost /\ t[i] # kept /\ t[i] \in 1 .. N
  <2>1. PICK j \in 1 .. Len(s) : t[i] = s[j]
    BY <1>11
  <2>2. t[i] \notin gone
    BY <1>17
  <2>3. t[i] \notin lost
    BY <2>1, <2>2, <1>1, <1>20, <1>21
  <2>4. t[i] \in 1 .. N
    BY <1>15
  <2> QED BY <2>3, <2>4, <1>13, <1>14
<1>23. W = [n \in 1 .. N |-> IF n \in lost THEN Lost(H[n].doc)
                             ELSE IF n = kept THEN [H[n] EXCEPT !.next = NULL] ELSE H[n]]
  BY <1>12 DEF Forgotten, lost, gone
<1> HIDE DEF W
<1>24. ASSUME NEW n \in 1 .. N
       PROVE  /\ IsValue(W[n]) /\ W[n].doc = V[n].doc
              /\ n \in lost => W[n].kind = "lost"
              /\ n \notin lost => /\ W[n].kind = V[n].kind /\ W[n].len = H[n].len /\ W[n].last = H[n].last
                                  /\ n # kept => W[n].next = H[n].next
  <2>1. IsValue(H[n]) /\ H[n].doc = V[n].doc /\ H[n].kind = V[n].kind
    BY <1>11, <1>12 DEF IsHeap, Same
  <2>2. CASE n \in lost
    <3>1. W[n] = Lost(H[n].doc)
      BY <2>2, <1>23
    <3> QED BY <2>1, <2>2, <3>1, LeafIsValue DEF Lost
  <2>3. CASE n \notin lost /\ n = kept
    <3>1. PICK h : h = H[n]
      OBVIOUS
    <3>2. W[n] = [h EXCEPT !.next = NULL]
      BY <2>3, <3>1, <1>23
    <3>3. /\ IsValue(W[n]) /\ W[n].doc = h.doc /\ W[n].kind = h.kind
          /\ W[n].len = h.len /\ W[n].last = h.last
      BY <3>1, <3>2, <2>1 DEF IsValue
    <3> QED BY <3>1, <3>3, <2>1, <2>3
  <2>4. CASE n \notin lost /\ n # kept
    <3>1. W[n] = H[n]
      BY <2>4, <1>23
    <3> QED BY <2>1, <2>4, <3>1
  <2> QED BY <2>2, <2>3, <2>4
<1>25. IsHeap(W) /\ Len(W) = N
  <2>1. W = [n \in 1 .. N |-> W[n]]
    BY <1>23
  <2>2. Len(W) = N
    BY <2>1, <1>1
  <2> QED BY <2>1, <2>2, <1>1, <1>24 DEF IsHeap
<1>26. Boxes(W) = Boxes(V) \ lost
  BY <1>24, <1>25 DEF Boxes, IsContainer
<1> DEFINE D == Boxes(W) \ {o}
<1>27. ASSUME NEW c \in D, NEW i \in 1 .. Len(L[c])
       PROVE  /\ L[c][i] \in 1 .. N /\ L[c][i] \notin lost /\ L[c][i] # kept
              /\ \A j \in 1 .. Len(s) : s[j] # L[c][i]
  <2>1. c \in Boxes(V) /\ c \notin lost /\ c # o
    BY <1>26
  <2>2. L[c][i] \in 1 .. N /\ L[c][i] \notin lost
    BY <2>1, <1>2, <1>21, InHeap
  <2>3. \A j \in 1 .. Len(s) : s[j] # L[c][i]
    BY <2>1, <1>1, <1>2 DEF Links, Apart
  <2> QED BY <2>2, <2>3, <1>13, <1>14
<1>28. Undisturbed(V, W, D, L, r)
  <2>1. ASSUME NEW c \in D
        PROVE  W[c].kind = V[c].kind /\ W[c].doc = V[c].doc /\ W[c].len = V[c].len /\ W[c].last = V[c].last
    <3>1. c \in 1 .. N /\ c \notin lost /\ c # o
      BY <1>26 DEF Boxes
    <3> QED BY <3>1, <1>11, <1>24
  <2>2. ASSUME NEW c \in D, NEW i \in 1 .. Len(L[c])
        PROVE  /\ W[L[c][i]].kind = V[L[c][i]].kind /\ W[L[c][i]].doc = V[L[c][i]].doc
               /\ W[L[c][i]].next = V[L[c][i]].next /\ r[L[c][i]] < r[c]
    <3>1. r[L[c][i]] < r[c]
      BY <1>2, <1>26, InHeap DEF List
    <3>2. PICK m : m = L[c][i]
      OBVIOUS
    <3>3. m \in 1 .. N /\ m \notin lost /\ m # kept /\ \A j \in 1 .. Len(s) : s[j] # m
      BY <3>2, <1>27
    <3>4. W[m].kind = V[m].kind /\ W[m].doc = V[m].doc /\ W[m].next = V[m].next
      BY <3>3, <1>11, <1>24
    <3> QED BY <3>1, <3>2, <3>4
  <2> QED BY <2>1, <2>2 DEF Undisturbed
<1>29. Links(W, D, L, r)
  <2>1. D \subseteq Boxes(V) /\ Len(V) <= Len(W) /\ r \in [1 .. Len(W) -> Int]
    BY <1>1, <1>4, <1>25, <1>26
  <2> HIDE DEF D
  <2> QED BY <2>1, <1>2, <1>25, <1>28, Frame
<1>30. List(W, o, t, r)
  <2>1. /\ W[o].kind = "obj" /\ W[o].doc = V[o].doc /\ W[o].len = H[o].len /\ W[o].last = H[o].last
    BY <1>1, <1>20, <1>24
  <2>2. Width(W[o]) = Width(H[o]) /\ LastAt(W[o], Len(t)) = LastAt(H[o], Len(t))
    BY <2>1, <1>11 DEF Width, LastAt
  <2>3. ASSUME NEW i \in 1 .. Len(t) PROVE W[t[i]].next = t[After(i, Len(t))]
    BY <1>11, <1>22, <1>24 DEF Circle
  <2>4. Circle(W, o, t)
    BY <2>1, <2>2, <2>3, <1>11, <1>12, <1>25 DEF Circle
  <2>5. ASSUME NEW i \in 1 .. Len(t)
        PROVE  /\ W[t[i]].doc = W[o].doc
               /\ W[o].kind = "obj" /\ i % 2 = 1 => W[t[i]].kind = "str"
               /\ r[t[i]] < r[o]
    <3>1. PICK j \in 1 .. Len(s) : t[i] = s[j] /\ i % 2 = j % 2
      BY <1>11
    <3>2. V[s[j]].doc = V[o].doc /\ (j % 2 = 1 => V[s[j]].kind = "str") /\ r[s[j]] < r[o]
      BY <1>1, <1>3 DEF List
    <3>3. W[t[i]].doc = V[t[i]].doc /\ W[t[i]].kind = V[t[i]].kind
      BY <1>22, <1>24
    <3> HIDE DEF s
    <3> QED BY <3>1, <3>2, <3>3, <2>1
  <2> QED BY <2>1, <2>4, <2>5 DEF List, IsContainer
<1> DEFINE M == With(D, L, o, t)
<1>31. \A e \in D : Apart(t, L[e])
  <2>1. ASSUME NEW e \in D, NEW i \in 1 .. Len(t), NEW j \in 1 .. Len(L[e]) PROVE t[i] # L[e][j]
    BY <1>11, <1>27
  <2> QED BY <2>1 DEF Apart
<1>32. Links(W, Boxes(W), M, r)
  <2>1. o \in Boxes(W) /\ o \in 1 .. Len(W) /\ o \notin D /\ D \cup {o} = Boxes(W)
    BY <1>1, <1>20, <1>25, <1>26
  <2> HIDE DEF D, M
  <2>2. Links(W, D \cup {o}, With(D, L, o, t), r)
    BY <2>1, <1>29, <1>30, <1>31, OneMore
  <2> QED BY <2>1, <2>2 DEF M
<1>33. M[o] = t /\ \A e \in D : M[e] = L[e]
  BY DEF With
<1>34. \A e \in Boxes(W) : e = o \/ (e \in D /\ e \in Boxes(V))
  BY <1>26
<1> HIDE DEF M, D
<1>35. ASSUME NEW n \in loose PROVE Unlisted(Boxes(W), M, n)
  <2>1. Unlisted(Boxes(V), L, n)
    BY <1>2
  <2>2. \A i \in 1 .. Len(t) : t[i] # n
    BY <2>1, <1>1, <1>11 DEF Unlisted
  <2> QED BY <2>1, <2>2, <1>33, <1>34 DEF Unlisted
<1>36. ASSUME kept # NULL PROVE Unlisted(Boxes(W), M, kept) /\ kept \in 1 .. N
  <2>1. \A e \in D : \A i \in 1 .. Len(L[e]) : L[e][i] # kept
    BY <1>27
  <2>2. \A i \in 1 .. Len(t) : t[i] # kept
    BY <1>13, <1>36
  <2>3. kept \in 1 .. N
    BY <1>3, <1>13, <1>36
  <2> QED BY <2>1, <2>2, <2>3, <1>33, <1>34 DEF Unlisted
<1>37. vals' = W
  BY <1>10 DEF W
<1> DEFINE F == IF kept = NULL THEN loose ELSE loose \cup {kept}
<1>38. F \subseteq 1 .. N /\ loose \subseteq F /\ \A n \in F : Unlisted(Boxes(W), M, n)
  BY <1>1, <1>35, <1>36
<1> HIDE DEF F
<1>39. Sound(W, F)
  BY <1>32, <1>38 DEF Sound
<1>40. Typed(W, docs, F)
  <2>1. \A n \in 1 .. N : W[n].doc = V[n].doc
    BY <1>24
  <2>2. Boxes(W) \subseteq Boxes(V) /\ Boxes(V) \subseteq 1 .. N
    BY <1>26 DEF Boxes
  <2> QED BY <2>1, <2>2, <1>1, <1>25, <1>38 DEF IInv, Typed
<1>41. IInv'
  BY <1>10, <1>37, <1>39, <1>40 DEF IInv, F
<1>42. Removed(o, text)
  <2>1. ASSUME NEW i \in 1 .. Len(t) PROVE W[t[i]].data = V[t[i]].data
    <3>1. W[t[i]] = H[t[i]]
      BY <1>22, <1>23
    <3>2. H[t[i]].data = V[t[i]].data
      BY <1>7, <1>8, <1>22 DEF Finding
    <3> QED BY <3>1, <3>2
  <2>2. \A j \in 1 .. Len(s) : s[j] \in 1 .. N /\ s[j] \notin loose
    BY <1>1, <1>2, <1>3 DEF Unlisted
  <2>3. w.iter.max = W[o].len /\ w.iter.idx \in 0 .. w.iter.max
    BY <1>1, <1>7, <1>8, <1>20, <1>24 DEF Walking
  <2>4. W[o].kind = "obj" /\ Circle(W, o, t)
    BY <1>1, <1>20, <1>24, <1>30 DEF List
  <2> HIDE DEF s
  <2> QED BY <2>1, <2>2, <2>3, <2>4, <1>3, <1>6, <1>7, <1>25, <1>37 DEF Removed
<1> QED BY <1>41, <1>42

-----------------------------------------------------------------------------
(* Deep copies.  The values S of a finite set of numbers are counted off.    *)
Numbering(S, K, rank, at) ==
    /\ K \in Nat /\ rank \in [S -> 1 .. K] /\ at \in [1 .. K -> S]
    /\ (\A n \in S : at[rank[n]] = n) /\ (\A i \in 1 .. K : rank[at[i]] = i)
RankIn(S, n) == Cardinality({m \in S : m <= n})
Ranked(S) == [n \in S |-> RankIn(S, n)]
Nth(S) == [i \in 1 .. Cardinality(S) |-> CHOOSE n \in S : RankIn(S, n) = i]

(* The members of a finite set of places can be numbered in their order.    *)
LEMMA RankIs ==
    ASSUME NEW N \in Nat, NEW S \in SUBSET (1 .. N)
    PROVE  Numbering(S, Cardinality(S), Ranked(S), Nth(S))
<1> DEFINE K == Cardinality(S)
           rank == [n \in S |-> RankIn(S, n)]
           at == [i \in 1 .. K |-> CHOOSE n \in S : RankIn(S, n) = i]
           Upto(n) == {m \in S : m <= n}
<1>1. IsFiniteSet(S) /\ K \in Nat
  <2>1. IsFiniteSet(1 .. N)
    BY FS_Interval
  <2> QED BY <2>1, FS_Subset, FS_CardinalityType
<1>2. ASSUME NEW n \in S PROVE IsFiniteSet(Upto(n)) /\ Cardinality(Upto(n)) \in 1 .. K
  <2>1. Upto(n) \in SUBSET S /\ n \in Upto(n)
    OBVIOUS
  <2> HIDE DEF Upto
  <2>2. IsFiniteSet(Upto(n)) /\ Cardinality(Upto(n)) <= K
    BY <2>1, <1>1, FS_Subset
  <2>3. Cardinality(Upto(n)) \in Nat /\ Cardinality(Upto(n)) # 0
    BY <2>1, <2>2, FS_CardinalityType, FS_EmptySet
  <2> QED BY <2>2, <2>3, <1>1
<1>3. ASSUME NEW a \in S, NEW b \in S, a < b PROVE Cardinality(Upto(a)) # Cardinality(Upto(b))
  <2>1. \A m \in S : m \in Nat
    OBVIOUS
  <2>2. Upto(a) \in SUBSET Upto(b) /\ b \in Upto(b) /\ b \notin Upto(a)
    <3>1. a \in Nat /\ b \in Nat /\ ~(b <= a) /\ b <= b
      BY <2>1, <1>3
    <3>2. \A m \in S : m <= a => m <= b
      BY <2>1, <3>1, <1>3
    <3> QED BY <3>1, <3>2
  <2> HIDE DEF Upto
  <2> QED BY <2>2, <1>2, FS_Subset
<1>4. \A n \in S : RankIn(S, n) = Cardinality(Upto(n))
  BY DEF RankIn
<1> HIDE DEF Upto
<1>5. rank \in [S -> 1 .. K] /\ \A n \in S : rank[n] = RankIn(S, n)
  BY <1>2, <1>4
<1>6. \A a, b \in S : rank[a] = rank[b] => a = b
  <2> SUFFICES ASSUME NEW a \in S, NEW b \in S, rank[a] = rank[b] PROVE a = b
    OBVIOUS
  <2>1. Cardinality(Upto(a)) = Cardinality(Upto(b))
    BY <1>4, <1>5
  <2>2. ~(a < b) /\ ~(b < a)
    BY <2>1, <1>3
  <2> QED BY <2>2
<1> HIDE DEF rank
<1>7. rank \in Injection(S, 1 .. K)
  BY <1>5, <1>6 DEF Injection, IsInjective
<1>8. Cardinality(1 .. K) = K /\ IsFiniteSet(1 .. K)
  BY <1>1, FS_Interval
<1>9. rank \in Surjection(S, 1 .. K)
  BY <1>7, <1>8, FS_Injection
<1>10. \A i \in 1 .. K : \E n \in S : RankIn(S, n) = i
  BY <1>5, <1>9 DEF Surjection
<1>11. \A i \in 1 .. K : at[i] \in S /\ RankIn(S, at[i]) = i
  BY <1>10
<1> HIDE DEF at
<1>12. at \in [1 .. K -> S]
  BY <1>11 DEF at
<1>13. \A i \in 1 .. K : rank[at[i]] = i
  BY <1>5, <1>11
<1>14. \A n \in S : at[rank[n]] = n
  <2> SUFFICES ASSUME NEW n \in S PROVE at[rank[n]] = n
    OBVIOUS
  <2>1. rank[n] \in 1 .. K
    BY <1>5
  <2>2. at[rank[n]] \in S /\ rank[at[rank[n]]] = rank[n]
    BY <2>1, <1>11, <1>13
  <2> QED BY <2>2, <1>6
<1> HIDE DEF K
<1>15. Numbering(S, K, rank, at)
  BY <1>1, <1>5, <1>12, <1>13, <1>14 DEF Numbering
<1> QED BY <1>15 DEF K, rank, at, Ranked, Nth

(* The heap W is V with copies of the values S behind it, for document d.    *)
Moved(N, S, rank, p) == IF p \in S THEN N + rank[p] ELSE NULL
Copies(V, S, K, rank, at, d, W) ==
    /\ Numbering(S, K, rank, at) /\ IsHeap(W) /\ Len(W) = Len(V) + K
    /\ \A n \in 1 .. Len(V) : W[n] = V[n]
    /\ \A i \in 1 .. K :
          /\ W[Len(V) + i].kind = V[at[i]].kind /\ W[Len(V) + i].len = V[at[i]].len /\ W[Len(V) + i].doc = d
          /\ W[Len(V) + i].next = Moved(Len(V), S, rank, V[at[i]].next)
          /\ V[at[i]].len # 0 => W[Len(V) + i].last = Moved(Len(V), S, rank, V[at[i]].last)

(* The deep copy of a value is the heap with its subtree appended, each     *)
(* place moved to its rank.                                                 *)
LEMMA CopyIs ==
    ASSUME NEW V, IsHeap(V), NEW v, Subtree(V, v) \subseteq 1 .. Len(V), v \in Subtree(V, v), NEW d, NEW strings
    PROVE  \E K, rank, at :
              /\ Copies(V, Subtree(V, v), K, rank, at, d, CopyOf(V, strings, v, d).heap)
              /\ CopyOf(V, strings, v, d).root = Len(V) + rank[v]
<1> DEFINE S == Subtree(V, v)
           N == Len(V)
           K == Cardinality(S)
           rank == [n \in S |-> RankIn(S, n)]
           at == [i \in 1 .. K |-> CHOOSE n \in S : RankIn(S, n) = i]
           Copy(n) == [n EXCEPT !.doc = d,
                                !.next = IF n.next \in S THEN N + RankIn(S, n.next) ELSE NULL,
                                !.last = IF n.len = 0 THEN NULL ELSE IF n.last \in S THEN N + RankIn(S, n.last) ELSE NULL,
                                !.data = IF n.kind = "str" THEN Copied(Text(n.data, strings)) ELSE n.data]
           T == [i \in 1 .. K |-> Copy(V[CHOOSE n \in S : RankIn(S, n) = i])]
<1>1. CopyOf(V, strings, v, d) = [heap |-> V \o T, root |-> IF v \in S THEN N + RankIn(S, v) ELSE NULL]
  BY DEF CopyOf, RankIn
<1>2. N \in Nat
  BY DEF IsHeap
<1> HIDE DEF S
<1>3. Numbering(S, K, rank, at)
  <2>1. S \in SUBSET (1 .. N)
    BY DEF S
  <2>2. Numbering(S, Cardinality(S), Ranked(S), Nth(S))
    BY <2>1, <1>2, RankIs
  <2> QED BY <2>2 DEF Ranked, Nth
<1> HIDE DEF Copy
<1>4. T = [i \in 1 .. K |-> Copy(V[at[i]])]
  OBVIOUS
<1>5. \A n \in S : rank[n] = RankIn(S, n)
  OBVIOUS
<1> HIDE DEF K, rank, at, T
<1>6. K \in Nat /\ \A i \in 1 .. K : at[i] \in S /\ at[i] \in 1 .. N
  BY <1>3 DEF Numbering, S
<1>7. ASSUME NEW n, IsValue(n)
      PROVE  /\ IsValue(Copy(n)) /\ Copy(n).kind = n.kind /\ Copy(n).len = n.len /\ Copy(n).doc = d
             /\ Copy(n).next = Moved(N, S, rank, n.next)
             /\ n.len # 0 => Copy(n).last = Moved(N, S, rank, n.last)
  <2>1. PICK next : next = IF n.next \in S THEN N + RankIn(S, n.next) ELSE NULL
    OBVIOUS
  <2>2. PICK last : last = IF n.len = 0 THEN NULL ELSE IF n.last \in S THEN N + RankIn(S, n.last) ELSE NULL
    OBVIOUS
  <2>3. PICK data : data = IF n.kind = "str" THEN Copied(Text(n.data, strings)) ELSE n.data
    OBVIOUS
  <2>4. Copy(n) = [n EXCEPT !.doc = d, !.next = next, !.last = last, !.data = data]
    BY <2>1, <2>2, <2>3 DEF Copy
  <2>5. PICK a : a = [n EXCEPT !.doc = d]
    OBVIOUS
  <2>6. a = [doc |-> d, kind |-> n.kind, data |-> n.data, next |-> n.next, last |-> n.last, len |-> n.len]
    BY <2>5, <1>7 DEF IsValue
  <2>7. PICK b : b = [a EXCEPT !.next = next]
    OBVIOUS
  <2>8. b = [doc |-> d, kind |-> n.kind, data |-> n.data, next |-> next, last |-> n.last, len |-> n.len]
    BY <2>6, <2>7
  <2>9. PICK c : c = [b EXCEPT !.last = last]
    OBVIOUS
  <2>10. c = [doc |-> d, kind |-> n.kind, data |-> n.data, next |-> next, last |-> last, len |-> n.len]
    BY <2>8, <2>9
  <2>11. PICK e : e = [c EXCEPT !.data = data]
    OBVIOUS
  <2>12. e = [doc |-> d, kind |-> n.kind, data |-> data, next |-> next, last |-> last, len |-> n.len]
    BY <2>10, <2>11
  <2>13. Copy(n) = e
    BY <2>4, <2>5, <2>7, <2>9, <2>11
  <2>14. e.kind = n.kind /\ e.len = n.len /\ e.doc = d /\ e.next = next /\ e.last = last
    BY <2>12
  <2>15. IsValue(e)
    <3>1. e = [doc |-> e.doc, kind |-> e.kind, data |-> e.data, next |-> e.next, last |-> e.last, len |-> e.len]
      BY <2>12
    <3>2. e.len \in Nat
      BY <2>14, <1>7 DEF IsValue
    <3> QED BY <3>1, <3>2 DEF IsValue
  <2>16. next = Moved(N, S, rank, n.next)
    BY <2>1, <1>5 DEF Moved
  <2>17. n.len # 0 => last = Moved(N, S, rank, n.last)
    BY <2>2, <1>5 DEF Moved
  <2> QED BY <2>13, <2>14, <2>15, <2>16, <2>17
<1>8. \A i \in 1 .. K : T[i] = Copy(V[at[i]]) /\ IsValue(V[at[i]])
  BY <1>4, <1>6 DEF IsHeap
<1>9. IsHeap(T) /\ Len(T) = K
  <2>1. T = [i \in 1 .. K |-> T[i]]
    BY <1>4
  <2>2. Len(T) = K
    BY <2>1, <1>6
  <2>3. \A i \in 1 .. K : IsValue(T[i])
    BY <1>7, <1>8
  <2> QED BY <2>1, <2>2, <2>3, <1>6 DEF IsHeap
<1>10. PICK W : W = V \o T
  OBVIOUS
<1>11. Concat(V, T, W)
  BY <1>9, <1>10, HeapConcat
<1>12. Copies(V, S, K, rank, at, d, W)
  <2>1. \A i \in 1 .. K : W[N + i] = Copy(V[at[i]])
    BY <1>8, <1>9, <1>11 DEF Concat
  <2>2. ASSUME NEW i \in 1 .. K
        PROVE  /\ W[N + i].kind = V[at[i]].kind /\ W[N + i].len = V[at[i]].len /\ W[N + i].doc = d
               /\ W[N + i].next = Moved(N, S, rank, V[at[i]].next)
               /\ V[at[i]].len # 0 => W[N + i].last = Moved(N, S, rank, V[at[i]].last)
    BY <2>1, <1>7, <1>8
  <2> QED BY <2>2, <1>3, <1>9, <1>11 DEF Copies, Concat
<1>13. CopyOf(V, strings, v, d).heap = W /\ CopyOf(V, strings, v, d).root = N + rank[v]
  <2>1. v \in S
    BY DEF S
  <2> QED BY <2>1, <1>1, <1>5, <1>10
<1> QED BY <1>12, <1>13 DEF S

(* The copy is linked as what it is made of, and its root is in no list:     *)
(* what is below the original is of a lower rank.                            *)
CopyFits(V, F, d, copy) ==
    /\ Sound(copy.heap, F \cup {copy.root}) /\ Extends(V, copy.heap, d)
    /\ copy.root \in (Len(V) + 1) .. Len(copy.heap)

(* A copy keeps all lists and adds those of the subtree, moved; its root is *)
(* in none of them, since members have lower ranks.                         *)
LEMMA CopyKeeps ==
    ASSUME NEW V, NEW F, F \subseteq 1 .. Len(V), Sound(V, F), NEW v \in 1 .. Len(V), NEW d, NEW strings
    PROVE  CopyFits(V, F, d, CopyOf(V, strings, v, d))
<1> DEFINE N == Len(V)
           S == Subtree(V, v)
<1>1. PICK L, r : Links(V, Boxes(V), L, r) /\ \A n \in F : Unlisted(Boxes(V), L, n)
  BY DEF Sound
<1>2. IsHeap(V) /\ N \in Nat /\ r \in [1 .. N -> Int]
  BY <1>1 DEF Links, IsHeap
<1>3. Holds(V, L, r, S, v)
  BY <1>1, SubtreeHolds
<1>4. PICK copy : copy = CopyOf(V, strings, v, d)
  OBVIOUS
<1>5. PICK K, rank, at : Copies(V, S, K, rank, at, d, copy.heap) /\ copy.root = N + rank[v]
  <2>1. S \subseteq 1 .. Len(V) /\ v \in S
    BY <1>3 DEF Holds
  <2> QED BY <2>1, <1>2, <1>4, CopyIs
<1>6. PICK W : W = copy.heap
  OBVIOUS
<1>7. Numbering(S, K, rank, at) /\ IsHeap(W) /\ Len(W) = N + K /\ \A n \in 1 .. N : W[n] = V[n]
  BY <1>5, <1>6 DEF Copies
<1> HIDE DEF S
<1>8. /\ K \in Nat /\ S \subseteq 1 .. N /\ v \in S /\ \A i \in 1 .. K : at[i] \in S
      /\ \A p \in S : rank[p] \in 1 .. K /\ at[rank[p]] = p
  BY <1>3, <1>7 DEF Numbering, Holds
<1> DEFINE To(p) == N + rank[p]
<1>9. ASSUME NEW p \in S
      PROVE  /\ To(p) \in (N + 1) .. (N + K) /\ To(p) - N = rank[p] /\ at[To(p) - N] = p
             /\ To(p) \in 1 .. N + K /\ To(p) \notin 1 .. N
  <2>1. rank[p] \in 1 .. K /\ at[rank[p]] = p
    BY <1>8
  <2>2. To(p) - N = rank[p]
    BY <2>1, <1>2, <1>8
  <2> QED BY <2>1, <2>2, <1>2, <1>8
<1>10. ASSUME NEW p \in S
       PROVE  /\ W[To(p)].kind = V[p].kind /\ W[To(p)].len = V[p].len /\ W[To(p)].doc = d
              /\ W[To(p)].next = Moved(N, S, rank, V[p].next)
              /\ V[p].len # 0 => W[To(p)].last = Moved(N, S, rank, V[p].last)
  <2>1. rank[p] \in 1 .. K /\ at[rank[p]] = p
    BY <1>8
  <2> QED BY <2>1, <1>5, <1>6 DEF Copies
<1>11. \A p, e \in S : To(p) = To(e) => p = e
  BY <1>9
<1> DEFINE C == Boxes(V)
           D == {n \in (N + 1) .. (N + K) : IsContainer(W[n])}
           M == [x \in D |-> [i \in 1 .. Len(L[at[x - N]]) |-> To(L[at[x - N]][i])]]
           q == [n \in 1 .. N + K |-> IF n \in 1 .. N THEN r[n] ELSE r[at[n - N]]]
<1>12. /\ \A n \in 1 .. N : q[n] = r[n] /\ n \in 1 .. N + K
       /\ q \in [1 .. N + K -> Int] /\ \A p \in S : q[To(p)] = r[p]
  <2>1. \A n \in 1 .. N : n \in 1 .. N + K
    BY <1>2, <1>8
  <2>2. ASSUME NEW n \in 1 .. N + K, n \notin 1 .. N PROVE at[n - N] \in 1 .. N
    <3>1. n - N \in 1 .. K
      BY <2>2, <1>2, <1>8
    <3> QED BY <3>1, <1>8
  <2>3. \A p \in S : q[To(p)] = r[p]
    <3> HIDE DEF To
    <3> QED BY <1>9
  <2> HIDE DEF To
  <2>4. \A n \in 1 .. N + K : q[n] \in Int
    BY <2>2, <1>2
  <2> QED BY <2>1, <2>3, <2>4
<1> HIDE DEF To, q
<1>13. ASSUME NEW x \in D
       PROVE  \E e \in S \cap C :
                 /\ x = To(e) /\ Len(M[x]) = Len(L[e]) /\ M[x] \in Seq(1 .. N + K) /\ List(V, e, L[e], r)
                 /\ \A i \in 1 .. Len(L[e]) : L[e][i] \in S /\ M[x][i] = To(L[e][i])
  <2>1. x - N \in 1 .. K
    BY <1>2, <1>8
  <2>2. PICK e : e = at[x - N]
    OBVIOUS
  <2>3. e \in S /\ rank[e] = x - N
    BY <2>1, <2>2, <1>7, <1>8 DEF Numbering
  <2>4. x = To(e)
    BY <2>3, <1>2 DEF To
  <2>5. e \in C
    BY <2>3, <2>4, <1>8, <1>10 DEF Boxes, IsContainer
  <2>6. List(V, e, L[e], r) /\ Len(L[e]) \in Nat
    BY <2>5, <1>1, InHeap
  <2>7. \A i \in 1 .. Len(L[e]) : L[e][i] \in S
    BY <2>3, <2>5, <1>3 DEF Holds
  <2>8. M[x] = [i \in 1 .. Len(L[e]) |-> To(L[e][i])]
    BY <2>2
  <2> HIDE DEF M
  <2>9. PICK m \in Nat : m = Len(L[e])
    BY <2>6
  <2>10. PICK R : R = 1 .. N + K
    OBVIOUS
  <2>11. \A i \in 1 .. m : To(L[e][i]) \in R
    BY <2>7, <2>9, <2>10, <1>9
  <2>12. M[x] \in [1 .. m -> R]
    BY <2>8, <2>9, <2>11
  <2>13. M[x] \in Seq(R) /\ Len(M[x]) = m
    BY <2>12
  <2>14. \A i \in 1 .. Len(L[e]) : M[x][i] = To(L[e][i])
    BY <2>8
  <2> QED BY <2>3, <2>4, <2>5, <2>6, <2>7, <2>9, <2>10, <2>13, <2>14
<1> HIDE DEF M
<1>14. ASSUME NEW x \in D PROVE List(W, x, M[x], q)
  <2>1. PICK e \in S \cap C :
           /\ x = To(e) /\ Len(M[x]) = Len(L[e]) /\ M[x] \in Seq(1 .. N + K) /\ List(V, e, L[e], r)
           /\ \A i \in 1 .. Len(L[e]) : L[e][i] \in S /\ M[x][i] = To(L[e][i])
    BY <1>13
  <2> DEFINE s == L[e]
             m == M[x]
             n == Len(s)
  <2>2. /\ s \in Seq(1 .. N) /\ n \in Nat /\ n = Width(V[e])
        /\ \A i, j \in 1 .. n : s[i] = s[j] => i = j
        /\ \A i \in 1 .. n : V[s[i]].next = s[After(i, n)]
        /\ n > 0 => V[e].last = s[LastAt(V[e], n)]
    BY <2>1 DEF List, Circle
  <2>3. /\ W[x].kind = V[e].kind /\ W[x].len = V[e].len /\ W[x].doc = d
        /\ V[e].len # 0 => W[x].last = Moved(N, S, rank, V[e].last)
    BY <2>1, <1>10
  <2>4. Width(W[x]) = Width(V[e]) /\ LastAt(W[x], n) = LastAt(V[e], n)
    BY <2>3 DEF Width, LastAt
  <2>5. V[e].len \in Nat
    BY <1>2 DEF Boxes, IsHeap, IsValue
  <2> HIDE DEF s, m, n
  <2>6. Len(m) = n /\ \A i \in 1 .. n : s[i] \in S /\ m[i] = To(s[i])
    BY <2>1 DEF s, m, n
  <2>7. ASSUME NEW p \in S PROVE Moved(N, S, rank, p) = To(p)
    BY DEF Moved, To
  <2>8. ASSUME NEW i \in 1 .. n PROVE W[m[i]].next = m[After(i, n)]
    <3>1. After(i, n) \in 1 .. n
      BY <2>2 DEF After
    <3>2. W[m[i]].next = Moved(N, S, rank, V[s[i]].next)
      BY <2>6, <1>10
    <3>3. V[s[i]].next = s[After(i, n)]
      BY <2>2
    <3>4. s[After(i, n)] \in S /\ m[After(i, n)] = To(s[After(i, n)])
      BY <3>1, <2>6
    <3> QED BY <3>2, <3>3, <3>4, <2>7
  <2>9. n > 0 => W[x].last = m[LastAt(W[x], n)]
    <3> SUFFICES ASSUME n > 0 PROVE W[x].last = m[LastAt(W[x], n)]
      OBVIOUS
    <3>1. V[e].len # 0 /\ LastAt(V[e], n) \in 1 .. n
      <4>1. CASE V[e].kind = "obj"
        <5>1. n = 2 * V[e].len
          BY <4>1, <2>2, <2>5, WidthFacts
        <5>2. V[e].len # 0 /\ n - 1 \in 1 .. n
          BY <5>1, <2>5
        <5> QED BY <4>1, <5>2 DEF LastAt
      <4>2. CASE V[e].kind # "obj"
        <5>1. n = V[e].len
          BY <4>2, <2>2, <2>5, WidthFacts
        <5>2. V[e].len # 0 /\ n \in 1 .. n
          BY <5>1, <2>5
        <5> QED BY <4>2, <5>2 DEF LastAt
      <4> QED BY <4>1, <4>2
    <3>2. W[x].last = Moved(N, S, rank, s[LastAt(V[e], n)])
      BY <3>1, <2>2, <2>3
    <3> QED BY <3>1, <3>2, <2>4, <2>6, <2>7
  <2>10. \A i, j \in 1 .. n : m[i] = m[j] => i = j
    BY <2>2, <2>6, <1>11
  <2>11. Circle(W, x, m)
    <3>1. m \in Seq(1 .. Len(W))
      BY <2>1, <1>7 DEF m
    <3> QED BY <3>1, <2>2, <2>4, <2>6, <2>8, <2>9, <2>10 DEF Circle
  <2>12. ASSUME NEW i \in 1 .. n
         PROVE  /\ W[m[i]].doc = W[x].doc /\ q[m[i]] < q[x]
                /\ W[x].kind = "obj" /\ i % 2 = 1 => W[m[i]].kind = "str"
    <3>1. W[m[i]].doc = d /\ W[m[i]].kind = V[s[i]].kind
      BY <2>6, <1>10
    <3>2. r[s[i]] < r[e] /\ (V[e].kind = "obj" /\ i % 2 = 1 => V[s[i]].kind = "str")
      BY <2>1 DEF List, s, n
    <3>3. q[m[i]] = r[s[i]] /\ q[x] = r[e]
      BY <2>1, <2>6, <1>12
    <3> QED BY <3>1, <3>2, <3>3, <2>3
  <2> QED BY <2>6, <2>11, <2>12 DEF List, m
<1>15. \A x \in D, y \in D : x # y => Apart(M[x], M[y])
  <2> SUFFICES ASSUME NEW x \in D, NEW y \in D, x # y, NEW i \in 1 .. Len(M[x]), NEW j \in 1 .. Len(M[y]),
                      M[x][i] = M[y][j]
               PROVE  FALSE
    BY DEF Apart
  <2>1. PICK e \in S \cap C : x = To(e) /\ Len(M[x]) = Len(L[e])
                              /\ \A k \in 1 .. Len(L[e]) : L[e][k] \in S /\ M[x][k] = To(L[e][k])
    BY <1>13
  <2>2. PICK f \in S \cap C : y = To(f) /\ Len(M[y]) = Len(L[f])
                              /\ \A k \in 1 .. Len(L[f]) : L[f][k] \in S /\ M[y][k] = To(L[f][k])
    BY <1>13
  <2>3. L[e][i] = L[f][j] /\ e # f
    BY <2>1, <2>2, <1>11, SMTT(30)
  <2>4. Apart(L[e], L[f])
    BY <2>3, <1>1 DEF Links
  <2> QED BY <2>1, <2>2, <2>3, <2>4 DEF Apart
<1>16. Links(W, D, M, q)
  <2>1. D \subseteq 1 .. Len(W)
    BY <1>2, <1>7, <1>8
  <2> HIDE DEF D
  <2> QED BY <2>1, <1>7, <1>12, <1>14, <1>15 DEF Links
<1>17. Links(W, C, L, q)
  <2>1. ASSUME NEW c \in C, NEW i \in 1 .. Len(L[c]) PROVE L[c][i] \in 1 .. N /\ c \in 1 .. N /\ r[L[c][i]] < r[c]
    BY <1>1, InHeap DEF List
  <2>2. \A c \in C : c \in 1 .. N
    BY DEF Boxes
  <2>3. Undisturbed(V, W, C, L, q)
    <3> HIDE DEF C
    <3> QED BY <2>1, <2>2, <1>7, <1>12 DEF Undisturbed
  <2>4. Len(V) <= Len(W) /\ q \in [1 .. Len(W) -> Int]
    BY <1>2, <1>7, <1>8, <1>12
  <2> QED BY <2>3, <2>4, <1>1, <1>7, Frame
<1>18. ASSUME NEW c \in C, NEW i \in 1 .. Len(L[c]) PROVE L[c][i] \in 1 .. N
  BY <1>1, InHeap
<1>19. ASSUME NEW x \in D, NEW i \in 1 .. Len(M[x]) PROVE M[x][i] \notin 1 .. N
  <2>1. PICK e \in S \cap C : Len(M[x]) = Len(L[e]) /\ \A k \in 1 .. Len(L[e]) : L[e][k] \in S /\ M[x][k] = To(L[e][k])
    BY <1>13
  <2> QED BY <2>1, <1>9
<1> DEFINE J == Joined(C, L, D, M)
<1>20. C \cap D = {} /\ C \cup D = Boxes(W)
  <2>1. \A n \in 1 .. N + K : n \in 1 .. N \/ n \in (N + 1) .. (N + K)
    BY <1>2, <1>8
  <2>2. \A n \in (N + 1) .. (N + K) : n \notin 1 .. N /\ n \in 1 .. N + K
    BY <1>2, <1>8
  <2>3. \A n \in 1 .. N : n \in 1 .. N + K
    BY <1>12
  <2> HIDE DEF N
  <2> QED BY <2>1, <2>2, <2>3, <1>7 DEF Boxes, N
<1> HIDE DEF D
<1>21. Links(W, Boxes(W), J, q)
  <2>1. \A c \in C, x \in D : Apart(L[c], M[x])
    BY <1>18, <1>19 DEF Apart
  <2> HIDE DEF C, J
  <2>2. Links(W, C \cup D, Joined(C, L, D, M), q)
    BY <2>1, <1>16, <1>17, <1>20, Join
  <2> QED BY <2>2, <1>20 DEF J
<1>22. (\A c \in C : J[c] = L[c]) /\ \A x \in D : J[x] = M[x]
  BY <1>20 DEF Joined
<1> HIDE DEF J
<1>23. ASSUME NEW n \in F PROVE Unlisted(Boxes(W), J, n)
  <2>1. n \in 1 .. N /\ Unlisted(C, L, n)
    BY <1>1
  <2> HIDE DEF C
  <2> QED BY <2>1, <1>19, <1>20, <1>22 DEF Unlisted
<1>24. Unlisted(Boxes(W), J, To(v))
  <2>1. To(v) \notin 1 .. N
    BY <1>8, <1>9
  <2>2. ASSUME NEW x \in D, NEW i \in 1 .. Len(M[x]) PROVE M[x][i] # To(v)
    <3>1. PICK e \in S \cap C :
             /\ Len(M[x]) = Len(L[e]) /\ List(V, e, L[e], r)
             /\ \A k \in 1 .. Len(L[e]) : L[e][k] \in S /\ M[x][k] = To(L[e][k])
      BY <1>13
    <3>2. r[L[e][i]] < r[e] /\ L[e][i] \in S
      BY <3>1 DEF List
    <3>3. r[e] <= r[v]
      BY <1>3 DEF Holds
    <3>4. r[L[e][i]] \in Int /\ r[e] \in Int /\ r[v] \in Int
      BY <3>2, <1>2, <1>8
    <3>5. L[e][i] # v
      BY <3>2, <3>3, <3>4
    <3> QED BY <3>1, <3>2, <3>5, <1>8, <1>11
  <2> HIDE DEF C
  <2> QED BY <2>1, <2>2, <1>18, <1>20, <1>22 DEF Unlisted
<1>25. copy.root = To(v)
  BY <1>5 DEF To
<1>26. Sound(W, F \cup {To(v)})
  <2>1. \A n \in F \cup {To(v)} : Unlisted(Boxes(W), J, n)
    BY <1>23, <1>24
  <2> QED BY <2>1, <1>21 DEF Sound
<1>27. Extends(V, W, d)
  <2>1. Len(V) <= Len(W) /\ \A n \in 1 .. Len(V) : W[n] = V[n]
    BY <1>2, <1>7, <1>8
  <2>2. ASSUME NEW n \in (N + 1) .. (N + K) PROVE W[n].doc = d
    <3>1. n - N \in 1 .. K
      BY <1>2, <1>8
    <3>2. at[n - N] \in S /\ rank[at[n - N]] = n - N
      BY <3>1, <1>7, <1>8 DEF Numbering
    <3>3. To(at[n - N]) = n
      BY <3>2, <1>2 DEF To
    <3> QED BY <3>2, <3>3, <1>10
  <2> QED BY <2>1, <2>2, <1>7 DEF Extends
<1>28. To(v) \in (Len(V) + 1) .. Len(W)
  BY <1>7, <1>8, <1>9
<1> QED BY <1>4, <1>6, <1>25, <1>26, <1>27, <1>28 DEF CopyFits

(* Copying a value, and a whole document.                                   *)
LEMMA StepValCopy ==
    ASSUME IInv, NEW d \in Docs, NEW v \in loose \cup Containers, mut_val_mut_copy(d, v)
    PROVE  IInv'
<1>1. PICK copy : copy = CopyOf(vals, buffer, v, d)
  OBVIOUS
<1>2. PICK W : W = copy.heap
  OBVIOUS
<1>3. PICK F : F = loose \cup {copy.root}
  OBVIOUS
<1>4. Live(d) /\ vals' = W /\ docs' = docs /\ loose' = F
  BY <1>1, <1>2, <1>3 DEF mut_val_mut_copy
<1>5. IsHeap(vals) /\ Len(vals) \in Nat /\ loose \in SUBSET (1 .. Len(vals)) /\ v \in 1 .. Len(vals)
  BY InvFacts DEF Boxes
<1>6. CopyFits(vals, loose, d, copy)
  <2>1. Sound(vals, loose) /\ loose \subseteq 1 .. Len(vals)
    BY <1>5 DEF IInv
  <2> QED BY <2>1, <1>1, <1>5, CopyKeeps
<1>7. Sound(W, F) /\ Extends(vals, W, d) /\ copy.root \in (Len(vals) + 1) .. Len(W)
  BY <1>2, <1>3, <1>6 DEF CopyFits
<1>8. F \in SUBSET (1 .. Len(W))
  <2>1. Len(W) \in Nat /\ Len(vals) <= Len(W)
    BY <1>7 DEF Extends, IsHeap
  <2>2. \A n \in 1 .. Len(vals) : n \in 1 .. Len(W)
    BY <2>1, <1>5
  <2>3. copy.root \in 1 .. Len(W)
    BY <2>1, <1>5, <1>7
  <2> QED BY <2>2, <2>3, <1>3, <1>5
<1>9. Typed(W, docs, F)
  <2>1. \A e \in Docs : docs[e].root # NULL => docs[e].root \in F
    BY <1>3 DEF IInv, Typed
  <2>2. docs[d].state = "live" /\ Typed(vals, docs, loose)
    BY <1>4 DEF Live, IInv
  <2> QED BY <2>1, <2>2, <1>5, <1>7, <1>8, TypedStep
<1> QED BY <1>4, <1>7, <1>9 DEF IInv

(* The copy's root becomes the root of the new document.                    *)
LEMMA StepDocCopy ==
    ASSUME IInv, NEW from \in Docs, NEW d \in Docs, mut_doc_mut_copy(from, d)
    PROVE  IInv'
<1> DEFINE v == docs[from].root
<1>1. PICK copy : copy = CopyOf(vals, buffer, v, d)
  OBVIOUS
<1>2. PICK W : W = copy.heap
  OBVIOUS
<1>3. PICK F : F = loose \cup {copy.root}
  OBVIOUS
<1>4. /\ v # NULL /\ docs[d].state = "none" /\ vals' = W /\ loose' = F
      /\ docs' = [docs EXCEPT ![d] = [state |-> "live", root |-> copy.root]]
  BY <1>1, <1>2, <1>3 DEF mut_doc_mut_copy
<1>5. /\ IsHeap(vals) /\ Len(vals) \in Nat /\ loose \in SUBSET (1 .. Len(vals))
      /\ docs \in [Docs -> Documents] /\ Typed(vals, docs, loose)
  BY InvFacts DEF IInv
<1>6. v \in 1 .. Len(vals)
  BY <1>4, <1>5 DEF Typed
<1> HIDE DEF v
<1>7. CopyFits(vals, loose, d, copy)
  <2>1. Sound(vals, loose) /\ loose \subseteq 1 .. Len(vals)
    BY <1>5 DEF IInv
  <2> QED BY <2>1, <1>1, <1>6, CopyKeeps
<1>8. Sound(W, F) /\ Extends(vals, W, d) /\ copy.root \in (Len(vals) + 1) .. Len(W)
  BY <1>2, <1>3, <1>7 DEF CopyFits
<1>9. Len(W) \in Nat /\ Len(vals) <= Len(W)
  BY <1>8 DEF Extends, IsHeap
<1>10. /\ F \subseteq 1 .. Len(W) /\ copy.root \in 1 .. Len(W) /\ W[copy.root].doc = d /\ copy.root \in Nat
  <2>1. \A n \in 1 .. Len(vals) : n \in 1 .. Len(W)
    BY <1>5, <1>9
  <2>2. copy.root \in 1 .. Len(W) /\ copy.root \in Nat
    BY <1>5, <1>8, <1>9
  <2>3. W[copy.root].doc = d
    BY <1>8 DEF Extends
  <2> QED BY <2>1, <2>2, <2>3, <1>3, <1>5
<1> DEFINE E == [docs EXCEPT ![d] = [state |-> "live", root |-> copy.root]]
<1>11. E \in [Docs -> Documents] /\ E[d].state = "live" /\ E[d].root = copy.root
       /\ \A e \in Docs : e # d => E[e] = docs[e]
  <2>1. [state |-> "live", root |-> copy.root] \in Documents
    BY <1>10 DEF Documents
  <2> QED BY <2>1, <1>5
<1>12. ASSUME NEW n \in 1 .. Len(W)
       PROVE  \/ n \in 1 .. Len(vals) /\ W[n].doc = vals[n].doc /\ (IsContainer(W[n]) => n \in Boxes(vals))
              \/ W[n].doc = d
  <2>1. n \in 1 .. Len(vals) \/ n \in (Len(vals) + 1) .. Len(W)
    BY <1>5, <1>9
  <2> QED BY <2>1, <1>8 DEF Extends, Boxes
<1> HIDE DEF E
<1>13. Typed(W, E, F)
  <2>1. \A n \in 1 .. Len(W) : W[n].doc \in Docs
    BY <1>5, <1>12 DEF Typed
  <2>2. ASSUME NEW c \in Boxes(W) PROVE E[W[c].doc].state = "live"
    <3>1. c \in 1 .. Len(W) /\ IsContainer(W[c])
      BY DEF Boxes
    <3>2. CASE W[c].doc = d
      BY <3>2, <1>11
    <3>3. CASE W[c].doc # d
      <4>1. c \in Boxes(vals) /\ W[c].doc = vals[c].doc
        BY <3>1, <3>3, <1>12
      <4>2. docs[W[c].doc].state = "live"
        BY <4>1, <1>5 DEF Typed
      <4> QED BY <2>1, <3>1, <3>3, <4>2, <1>11
    <3> QED BY <3>2, <3>3
  <2>3. ASSUME NEW e \in Docs, E[e].root # NULL PROVE E[e].root \in F /\ W[E[e].root].doc = e
    <3>1. CASE e = d
      BY <3>1, <1>3, <1>10, <1>11
    <3>2. CASE e # d
      <4>1. E[e] = docs[e]
        BY <3>2, <1>11
      <4>2. docs[e].root \in loose /\ vals[docs[e].root].doc = e
        BY <4>1, <2>3, <1>5 DEF Typed
      <4>3. docs[e].root \in 1 .. Len(vals)
        BY <4>2, <1>5
      <4>4. W[docs[e].root].doc = e
        BY <4>2, <4>3, <1>8 DEF Extends
      <4> QED BY <4>1, <4>2, <4>4, <1>3
    <3> QED BY <3>1, <3>2
  <2> QED BY <2>1, <2>2, <2>3, <1>10, <1>11 DEF Typed
<1> QED BY <1>4, <1>8, <1>13 DEF IInv, E

(* An array of new values.                                                   *)
LEMMA LeavesAre ==
    ASSUME NEW n \in Nat, NEW f, f = [i \in 1 .. n |-> f[i]], \A i \in 1 .. n : IsValue(f[i])
    PROVE  IsHeap(f) /\ Len(f) = n
<1>1. Len(f) = n
  OBVIOUS
<1> QED BY <1>1 DEF IsHeap

(* Each of the ways to make a value.                                        *)
LEMMA StepCreate ==
    ASSUME IInv, NEW d \in Docs, Create(d)
    PROVE  IInv'
<1>1. ASSUME NEW kind \in {"arr", "obj"}, mut_container(d, kind) PROVE IInv'
  BY <1>1, StepContainer
<1>2. ASSUME NEW type \in Numbers, arr_with_scalars(d, <<type>>) PROVE IInv'
  <2> DEFINE f == [i \in DOMAIN <<type>> |-> Leaf(d, KindOf(<<type>>[i]), NULL)]
  <2>1. DOMAIN <<type>> = 1 .. 1
    OBVIOUS
  <2>2. f = [i \in 1 .. 1 |-> f[i]] /\ \A i \in 1 .. 1 : IsValue(f[i]) /\ f[i].doc = d /\ f[i].len = 0
    BY <2>1, LeafIsValue
  <2>3. arr_with(d, f)
    BY <1>2 DEF arr_with_scalars
  <2> HIDE DEF f
  <2>4. IsHeap(f) /\ Len(f) = 1
    BY <2>2, LeavesAre
  <2> QED BY <2>2, <2>3, <2>4, StepArr
<1>3. ASSUME NEW b \in ValueBuffers, arr_with_str(d, <<b>>) PROVE IInv'
  <2> DEFINE f == [i \in DOMAIN <<b>> |-> Str(d, Borrowed(<<b>>[i]))]
  <2>1. DOMAIN <<b>> = 1 .. 1
    OBVIOUS
  <2>2. f = [i \in 1 .. 1 |-> f[i]] /\ \A i \in 1 .. 1 : IsValue(f[i]) /\ f[i].doc = d /\ f[i].len = 0
    BY <2>1, LeafIsValue DEF Str
  <2>3. arr_with(d, f)
    BY <1>3 DEF arr_with_str
  <2> HIDE DEF f
  <2>4. IsHeap(f) /\ Len(f) = 1
    BY <2>2, LeavesAre
  <2> QED BY <2>2, <2>3, <2>4, StepArr
<1>4. ASSUME NEW b \in ValueBuffers, arr_with_strcpy(d, <<b, b>>) PROVE IInv'
  <2> DEFINE f == [i \in DOMAIN <<b, b>> |-> Str(d, Copied(buffer[<<b, b>>[i]]))]
  <2>1. DOMAIN <<b, b>> = 1 .. 2
    OBVIOUS
  <2>2. f = [i \in 1 .. 2 |-> f[i]] /\ \A i \in 1 .. 2 : IsValue(f[i]) /\ f[i].doc = d /\ f[i].len = 0
    BY <2>1, LeafIsValue DEF Str
  <2>3. arr_with(d, f)
    BY <1>4 DEF arr_with_strcpy
  <2> HIDE DEF f
  <2>4. IsHeap(f) /\ Len(f) = 2
    BY <2>2, LeavesAre
  <2> QED BY <2>2, <2>3, <2>4, StepArr
<1>5. ASSUME NEW keys \in [1 .. 3 -> Buffers], vals = << >>, obj_with_str(d, keys, keys) PROVE IInv'
  <2>1. Len(keys) = 3
    OBVIOUS
  <2> QED BY <2>1, <1>5, StepObj
<1> QED BY <1>1, <1>2, <1>3, <1>4, <1>5 DEF Create

(* Each of the ways to add to an object.                                    *)
LEMMA StepAddTo ==
    ASSUME IInv, NEW o \in Objects, NEW k \in Buffers, AddTo(o, k)
    PROVE  IInv'
<1>1. ASSUME NEW kind \in Scalars, add_scalar(o, k, kind) PROVE IInv'
  <2> DEFINE v == Leaf(vals[o].doc, kind, NULL)
  <2>1. IsValue(v) /\ v.doc = vals[o].doc /\ v.len = 0
    BY LeafIsValue
  <2>2. AddPair(o, k, v)
    BY <1>1 DEF add_scalar
  <2> HIDE DEF v
  <2> QED BY <2>1, <2>2, StepPair
<1>2. ASSUME NEW b \in ValueBuffers, add_str(o, k, b) PROVE IInv'
  <2> DEFINE v == Str(vals[o].doc, Borrowed(b))
  <2>1. IsValue(v) /\ v.doc = vals[o].doc /\ v.len = 0
    BY LeafIsValue DEF Str
  <2>2. AddPair(o, k, v)
    BY <1>2 DEF add_str
  <2> HIDE DEF v
  <2> QED BY <2>1, <2>2, StepPair
<1>3. ASSUME NEW b \in ValueBuffers, add_strcpy(o, k, b) PROVE IInv'
  <2> DEFINE v == Str(vals[o].doc, Copied(buffer[b]))
  <2>1. IsValue(v) /\ v.doc = vals[o].doc /\ v.len = 0
    BY LeafIsValue DEF Str
  <2>2. AddPair(o, k, v)
    BY <1>3 DEF add_strcpy
  <2> HIDE DEF v
  <2> QED BY <2>1, <2>2, StepPair
<1>4. ASSUME add_strcpy_fails(o) PROVE IInv'
  <2>1. PICK d : d = vals[o].doc
    OBVIOUS
  <2>2. d \in Docs /\ Live(d)
    BY <2>1, InvFacts DEF Boxes
  <2>3. vals' = vals \o <<Lost(d), Lost(d)>> /\ docs' = docs /\ loose' = loose
    BY <2>1, <1>4 DEF add_strcpy_fails
  <2> QED BY <2>2, <2>3, StepLost
<1>5. ASSUME NEW v \in loose, add_val(o, k, v) PROVE IInv'
  BY <1>5, StepAddVal
<1> QED BY <1>1, <1>2, <1>3, <1>4, <1>5 DEF AddTo

(* Every step keeps the invariant.                                          *)
LEMMA NextInv == IInv /\ [Next]_vars => IInv'
<1> SUFFICES ASSUME IInv, [Next]_vars PROVE IInv'
  OBVIOUS
<1>1. ASSUME NEW d \in Docs, mut_doc_new(d) PROVE IInv'
  BY <1>1, StepNew
<1>2. ASSUME NEW d \in Docs, mut_doc_free(d) PROVE IInv'
  BY <1>2, StepFree
<1>3. ASSUME NEW d \in Authored, Create(d) PROVE IInv'
  BY <1>3, DocsAssumption, StepCreate
<1>4. ASSUME NEW d \in Docs, NEW v, mut_doc_set_root(d, v) PROVE IInv'
  BY <1>4, StepRoot
<1>5. ASSUME NEW o \in Objects, Change(o) PROVE IInv'
  <2>1. ASSUME NEW t \in Texts, remove_str(o, t) PROVE IInv'
    BY <2>1, StepRemove
  <2>2. ASSUME NEW t \in Texts, NEW new \in Texts \ {t}, rename_key(o, t, new) PROVE IInv'
    BY <2>2, StepRename
  <2> QED BY <2>1, <2>2, <1>5 DEF Change
<1>6. ASSUME NEW o \in Objects, NEW k \in Buffers, AddTo(o, k) PROVE IInv'
  BY <1>6, StepAddTo
<1>7. ASSUME NEW c \in Containers, NEW k \in Buffers, add_container(c, k, "obj") PROVE IInv'
  BY <1>7, StepAddContainer
<1>8. ASSUME NEW d \in Docs \ Authored, NEW v \in loose \cup Containers, mut_val_mut_copy(d, v) PROVE IInv'
  BY <1>8, StepValCopy
<1>9. ASSUME NEW from \in Docs, NEW d \in Docs \ Authored, mut_doc_mut_copy(from, d) PROVE IInv'
  BY <1>9, StepDocCopy
<1>10. ASSUME NEW b \in Buffers, NEW t \in Texts, OverwriteBuffer(b, t) PROVE IInv'
  BY <1>10 DEF OverwriteBuffer, IInv
<1>11. CASE UNCHANGED vars
  BY <1>11 DEF vars, IInv
<1> QED BY <1>1, <1>2, <1>3, <1>4, <1>5, <1>6, <1>7, <1>8, <1>9, <1>10, <1>11 DEF Next

(* The invariant's lists are those that following the pointers finds.       *)
LEMMA InvLinks == IInv => WellLinked
<1> SUFFICES ASSUME IInv PROVE WellLinked
  OBVIOUS
<1>1. IsHeap(vals) /\ Containers = Boxes(vals) /\ loose \in SUBSET (1 .. Len(vals))
  BY InvFacts
<1>2. PICK L, r : Links(vals, Boxes(vals), L, r) /\ \A n \in loose : Unlisted(Boxes(vals), L, n)
  BY DEF IInv, Sound
<1>3. ASSUME NEW c \in Containers
      PROVE  /\ Members(vals, c) = L[c] /\ List(vals, c, L[c], r)
             /\ L[c] \in Seq(1 .. Len(vals)) /\ Len(L[c]) \in Nat /\ DOMAIN L[c] = 1 .. Len(L[c])
  <2>1. c \in 1 .. Len(vals) /\ List(vals, c, L[c], r) /\ L[c] \in Seq(1 .. Len(vals))
    BY <1>1, <1>2, InHeap
  <2>2. Members(vals, c) = L[c]
    BY <2>1, <1>1, MembersAre DEF List
  <2> QED BY <2>1, <2>2
<1>4. ASSUME NEW c \in Containers
      PROVE  LET in == Members(vals, c)
             IN  /\ \A i \in DOMAIN in :
                       /\ vals[in[i]].doc = vals[c].doc
                       /\ vals[in[i]].next = in[(i % Len(in)) + 1]
                       /\ vals[c].kind = "obj" /\ i % 2 = 1 => vals[in[i]].kind = "str"
                 /\ IsInjective(in)
                 /\ Range(in) \cap loose = {}
                 /\ \A e \in Containers \ {c} : Range(in) \cap Range(Members(vals, e)) = {}
  <2> DEFINE s == L[c]
  <2>1. Members(vals, c) = s /\ List(vals, c, s, r) /\ Len(s) \in Nat /\ DOMAIN s = 1 .. Len(s)
    BY <1>3
  <2>2. Range(s) \cap loose = {}
    BY <2>1, <1>1, <1>2 DEF Range, Unlisted
  <2>3. ASSUME NEW e \in Containers \ {c} PROVE Range(s) \cap Range(Members(vals, e)) = {}
    <3>1. Members(vals, e) = L[e] /\ DOMAIN L[e] = 1 .. Len(L[e])
      BY <1>3
    <3>2. Apart(s, L[e])
      BY <1>1, <1>2 DEF Links
    <3> HIDE DEF s
    <3> QED BY <2>1, <3>1, <3>2 DEF Range, Apart
  <2> HIDE DEF s
  <2>4. IsInjective(s)
    BY <2>1 DEF List, Circle, IsInjective
  <2>5. ASSUME NEW i \in DOMAIN s
        PROVE  /\ vals[s[i]].doc = vals[c].doc
               /\ vals[s[i]].next = s[(i % Len(s)) + 1]
               /\ vals[c].kind = "obj" /\ i % 2 = 1 => vals[s[i]].kind = "str"
    <3>1. (i % Len(s)) + 1 = After(i, Len(s))
      BY <2>1, ModAfter
    <3>2. vals[s[i]].next = s[After(i, Len(s))]
      BY <2>1 DEF List, Circle
    <3> QED BY <3>1, <3>2, <2>1 DEF List
  <2> QED BY <2>1, <2>2, <2>3, <2>4, <2>5
<1> QED BY <1>4 DEF WellLinked

(* The list of every container that is in use is a circle of its members and *)
(* no others, whatever is added, removed, renamed and copied, in any number  *)
(* of documents (unsafe_yyjson_mut_obj_add() and the removal while walking,  *)
(* libyyjson.cpp:607-772).                                                   *)
THEOREM ListsStayLinked == Spec => []WellLinked
<1> QED BY InitInv, NextInv, InvLinks, PTL DEF Spec

-----------------------------------------------------------------------------
(* What a lookup finds in the list s of an object.                           *)
LEMMA GetIs ==
    ASSUME IsHeap(vals), NEW o \in 1 .. Len(vals), vals[o].kind = "obj", NEW s, Circle(vals, o, s), NEW text
    PROVE  /\ (\A i \in 1 .. vals[o].len : ~Hit(vals, s, i, text)) => obj_get(o, text) = NULL
           /\ \A i \in 1 .. vals[o].len : First(vals, s, i, text) => obj_get(o, text) = s[2 * i]
<1> DEFINE N == vals[o].len
           hits == {i \in 1 .. N : Text(vals[KeyAt(vals, o, i)].data, buffer) = text}
<1>1. N \in Nat
  BY DEF IsHeap, IsValue
<1>2. obj_get(o, text) = IF hits = {} THEN NULL ELSE ValueAt(vals, o, CHOOSE i \in hits : \A j \in hits : i <= j)
  BY DEF obj_get
<1>3. Members(vals, o) = s
  BY MembersAre
<1>4. hits = {i \in 1 .. N : Hit(vals, s, i, text)}
  BY <1>3 DEF KeyAt, Hit
<1> HIDE DEF hits, N
<1>5. ASSUME \A i \in 1 .. N : ~Hit(vals, s, i, text) PROVE obj_get(o, text) = NULL
  BY <1>2, <1>4, <1>5
<1>6. ASSUME NEW i \in 1 .. N, First(vals, s, i, text) PROVE obj_get(o, text) = s[2 * i]
  <2>1. i \in hits
    BY <1>4, <1>6 DEF First
  <2>2. ASSUME NEW j \in hits PROVE i <= j
    <3>1. j \in 1 .. N /\ Hit(vals, s, j, text)
      BY <1>4
    <3>2. j \notin 1 .. i - 1
      BY <3>1, <1>6 DEF First
    <3> QED BY <3>1, <3>2, <1>1
  <2>3. \A j \in hits : j \in Nat
    BY <1>4
  <2>4. \A c \in hits : (\A j \in hits : c <= j) => c = i
    BY <2>1, <2>2, <2>3
  <2>5. (CHOOSE c \in hits : \A j \in hits : c <= j) = i
    BY <2>1, <2>2, <2>4
  <2> QED BY <2>1, <2>5, <1>2, <1>3 DEF ValueAt
<1> QED BY <1>5, <1>6 DEF N

(* What a removal hands out and leaves.                                      *)
LEMMA RemovalFinds ==
    ASSUME IInv, NEW o \in Objects, NEW t \in Texts, remove_str(o, t)
    PROVE  /\ obj_get(o, t) = NULL => loose' = loose
           /\ obj_get(o, t) # NULL => loose' \ loose = {obj_get(o, t)}
           /\ obj_get(o, t)' = NULL
<1> DEFINE N == vals[o].len
<1>1. IsHeap(vals) /\ o \in 1 .. Len(vals) /\ vals[o].kind = "obj"
  BY InvFacts DEF Boxes
<1>2. IInv' /\ Removed(o, t)
  BY StepRemove
<1>3. PICK s, w, u :
        /\ w = RemoveWalk(o, t) /\ Circle(vals, o, s) /\ Finding(vals, s, w, u, t, N)
        /\ \A j \in 1 .. Len(s) : s[j] \in 1 .. Len(vals) /\ s[j] \notin loose
        /\ w.iter.max = vals'[o].len /\ w.iter.idx \in 0 .. w.iter.max
        /\ Len(vals') = Len(vals) /\ vals'[o].kind = "obj" /\ Circle(vals', o, u)
        /\ \A i \in 1 .. Len(u) : vals'[u[i]].data = vals[u[i]].data
  BY <1>2 DEF Removed
<1>4. IsHeap(vals')
  BY <1>2 DEF IInv, Sound, Links
<1>5. N \in Nat /\ vals'[o].len \in Nat /\ Len(s) = 2 * N /\ Len(u) = 2 * vals'[o].len
  BY <1>1, <1>3, <1>4 DEF IsHeap, IsValue, Circle, Width
<1>6. /\ loose' = IF w.removed = NULL THEN loose ELSE loose \cup {w.removed}
      /\ buffer' = buffer
  BY <1>3 DEF remove_str
<1>7. /\ Len(s) = 2 * (N + w.iter.max - w.iter.idx)
      /\ \A i \in 1 .. w.iter.idx : ~Hit(vals, u, i, t)
      /\ w.removed = NULL => \A i \in 1 .. N : ~Hit(vals, s, i, t)
      /\ w.removed # NULL => \E i \in 1 .. N : First(vals, s, i, t) /\ w.removed = s[2 * i]
  BY <1>3 DEF Finding
<1>8. /\ (\A i \in 1 .. N : ~Hit(vals, s, i, t)) => obj_get(o, t) = NULL
      /\ \A i \in 1 .. N : First(vals, s, i, t) => obj_get(o, t) = s[2 * i]
  BY <1>1, <1>3, GetIs
<1>9. /\ obj_get(o, t) = NULL => loose' = loose
      /\ obj_get(o, t) # NULL => loose' \ loose = {obj_get(o, t)}
  <2>1. CASE w.removed = NULL
    BY <2>1, <1>6, <1>7, <1>8
  <2>2. CASE w.removed # NULL
    <3>1. PICK i \in 1 .. N : First(vals, s, i, t) /\ w.removed = s[2 * i]
      BY <2>2, <1>7
    <3>2. 2 * i \in 1 .. Len(s)
      BY <1>5
    <3>3. obj_get(o, t) = w.removed /\ w.removed \notin loose
      BY <3>1, <3>2, <1>3, <1>8
    <3> QED BY <2>2, <3>3, <1>6
  <2> QED BY <2>1, <2>2
<1>10. obj_get(o, t)' = NULL
  <2>1. w.iter.idx = vals'[o].len
    <3>1. w.iter.max \in Nat /\ w.iter.idx \in 0 .. w.iter.max
      BY <1>3, <1>5
    <3>2. 2 * N = 2 * (N + w.iter.max - w.iter.idx)
      BY <1>5, <1>7
    <3> HIDE DEF N
    <3>3. w.iter.idx = w.iter.max
      BY <3>1, <3>2, <1>5
    <3> QED BY <3>3, <1>3
  <2>2. ASSUME NEW i \in 1 .. vals'[o].len PROVE Text(vals'[u[2 * i - 1]].data, buffer') # t
    <3>1. 2 * i - 1 \in 1 .. Len(u)
      BY <1>5
    <3>2. ~Hit(vals, u, i, t)
      BY <2>1, <1>7
    <3>3. vals'[u[2 * i - 1]].data = vals[u[2 * i - 1]].data
      BY <3>1, <1>3
    <3> QED BY <3>2, <3>3, <1>6 DEF Hit
  <2>3. Members(vals', o) = u
    BY <1>1, <1>3, <1>4, MembersAre
  <2>4. \A i \in 1 .. vals'[o].len : Text(vals'[KeyAt(vals', o, i)].data, buffer') # t
    BY <2>2, <2>3 DEF KeyAt
  <2> QED BY <2>4 DEF obj_get
<1> QED BY <1>9, <1>10

(* A removal hands out the value that was found under the name before, and   *)
(* leaves none to find, however often the name occurred and wherever in the  *)
(* list (libyyjson.cpp:749-772).                                             *)
THEOREM RemovalsFind == Spec => RemovesWhatIsFound
<1>1. ASSUME IInv
      PROVE  \A o \in Objects, t \in Texts :
                 remove_str(o, t) =>
                     /\ obj_get(o, t) = NULL => loose' = loose
                     /\ obj_get(o, t) # NULL => loose' \ loose = {obj_get(o, t)}
                     /\ obj_get(o, t)' = NULL
  BY <1>1, RemovalFinds
<1> QED BY <1>1, InitInv, NextInv, PTL DEF Spec, RemovesWhatIsFound
=============================================================================
