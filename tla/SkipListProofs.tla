--------------------------- MODULE SkipListProofs ---------------------------
(***************************************************************************)
(* The skip list keeps all its levels sorted and complete, can be iterated *)
(* while it changes, and answers as the order book does: for any set of    *)
(* prices, any height of the update array and any heights of the nodes.    *)
(*                                                                         *)
(* Every level is a chain along which a rank falls: the distance from the  *)
(* footer's key.  The recursive functions of the model are functions that  *)
(* satisfy their equation: that there is one is shown by exhibiting it, and *)
(* what it yields by descent along the chain.                              *)
(***************************************************************************)
EXTENDS SkipList, FiniteSetTheorems, SequenceTheorems, WellFoundedInduction, TLAPS

USE SentinelAssumption, LevelAssumption, KeyAssumption

-----------------------------------------------------------------------------
(* Chains: succ leads from each node of on to the one of the next lower rank, *)
(* and from the last to the footer.                                          *)
Ranked(on, rank) ==
    /\ rank[Footer] = 0
    /\ \A n \in on : rank[n] \in Nat /\ rank[n] > 0
    /\ \A m, n \in on : rank[m] = rank[n] => m = n

Chain(on, succ, rank) ==
    /\ Ranked(on, rank)
    /\ \A n \in on : succ[n] \in on \cup {Footer} /\ rank[succ[n]] < rank[n]
    /\ \A m, n \in on : ~(rank[succ[n]] < rank[m] /\ rank[m] < rank[n])

LEMMA Smallest ==
    ASSUME NEW S \in SUBSET Nat, S # {}
    PROVE  \E b \in S : \A c \in S : b <= c
<1> DEFINE Below == OpToRel(<, Nat)
<1>1. IsWellFoundedOn(Below, Nat)
  BY NatLessThanWellFounded
<1>2. PICK x \in S : \A y \in S : ~ (<<y, x>> \in Below)
  BY <1>1, WFMin
<1>3. \A y \in S : ~ (y < x)
  BY <1>2 DEF OpToRel
<1> QED BY <1>3

(* What holds at the footer, and at a node if it holds at the next one, holds *)
(* along the whole chain.                                                    *)
LEMMA AlongChain ==
    ASSUME NEW on, NEW succ, NEW rank, Chain(on, succ, rank),
           NEW S, Footer \in S, \A n \in on : succ[n] \in S => n \in S
    PROVE  on \subseteq S
<1> SUFFICES ASSUME NEW n0 \in on, n0 \notin S PROVE FALSE
  OBVIOUS
<1> DEFINE R == {rank[n] : n \in {m \in on : m \notin S}}
<1>1. R \in SUBSET Nat /\ R # {}
  BY DEF Chain, Ranked
<1>2. PICK b \in R : \A c \in R : b <= c
  BY <1>1, Smallest
<1>3. PICK n \in on : n \notin S /\ rank[n] = b
  BY <1>2
<1>4. succ[n] \in on /\ succ[n] \notin S /\ rank[succ[n]] < rank[n]
  BY <1>3 DEF Chain
<1>5. rank[succ[n]] \in Nat /\ rank[n] \in Nat
  BY <1>4 DEF Chain, Ranked
<1>6. rank[succ[n]] \in R
  BY <1>4
<1> HIDE DEF R
<1>7. b <= rank[succ[n]]
  BY <1>2, <1>6
<1> QED BY <1>3, <1>4, <1>5, <1>7

(* Before the node that is to be at rank d there is exactly one node.        *)
LEMMA OneBefore ==
    ASSUME NEW on, NEW succ, NEW rank, Chain(on, succ, rank), NEW d \in Nat,
           NEW a \in on, rank[a] > d, ~(rank[succ[a]] > d),
           NEW b \in on, rank[b] > d, ~(rank[succ[b]] > d)
    PROVE  a = b
<1>1. /\ rank[a] \in Nat /\ rank[b] \in Nat
      /\ rank[succ[a]] \in Nat /\ rank[succ[b]] \in Nat
      /\ ~(rank[succ[a]] < rank[b] /\ rank[b] < rank[a])
      /\ ~(rank[succ[b]] < rank[a] /\ rank[a] < rank[b])
      /\ (rank[a] = rank[b] => a = b)
  BY DEF Chain, Ranked
<1> QED BY <1>1

LEMMA SomeBefore ==
    ASSUME NEW on, NEW succ, NEW rank, Chain(on, succ, rank), NEW d \in Nat,
           NEW top \in on, rank[top] > d
    PROVE  \E p \in on : rank[p] > d /\ ~(rank[succ[p]] > d)
<1> DEFINE S == {n \in on : rank[n] > d => \E p \in on : rank[p] > d /\ ~(rank[succ[p]] > d)}
                \cup {Footer}
<1>1. ASSUME NEW n \in on, succ[n] \in S PROVE n \in S
  <2>1. CASE ~(rank[succ[n]] > d)
    BY <2>1
  <2>2. CASE rank[succ[n]] > d
    <3>1. succ[n] # Footer
      BY <2>2 DEF Chain, Ranked
    <3> QED BY <2>2, <3>1, <1>1
  <2> QED BY <2>1, <2>2
<1>2. on \subseteq S
  <2>1. Footer \in S /\ \A n \in on : succ[n] \in S => n \in S
    BY <1>1
  <2> HIDE DEF S
  <2> QED BY <2>1, AlongChain
<1>3. top \in on /\ top # Footer
  BY DEF Chain, Ranked
<1> QED BY <1>2, <1>3

(* A node of lower rank is the next one or lies behind it.                   *)
LEMMA BehindNext ==
    ASSUME NEW on, NEW succ, NEW rank, Chain(on, succ, rank),
           NEW n \in on, NEW m \in on, rank[m] < rank[n]
    PROVE  succ[n] \in on /\ (m = succ[n] \/ rank[m] < rank[succ[n]])
<1>1. rank[m] \in Nat /\ rank[m] > 0 /\ rank[n] \in Nat /\ rank[Footer] = 0
      /\ ~(rank[succ[n]] < rank[m]) /\ succ[n] \in on \cup {Footer}
  BY DEF Chain, Ranked
<1>2. succ[n] \in on
  BY <1>1
<1>3. rank[succ[n]] \in Nat /\ (rank[m] = rank[succ[n]] => m = succ[n])
  BY <1>2 DEF Chain, Ranked
<1> QED BY <1>1, <1>2, <1>3

(* A new node between p and the next one, and the chain without a node.      *)
LEMMA ChainWith ==
    ASSUME NEW on, NEW succ, NEW rank, Chain(on, succ, rank),
           NEW k, k \notin on, rank[k] \in Nat, rank[k] > 0,
           NEW p \in on, rank[p] > rank[k], ~(rank[succ[p]] > rank[k]),
           \A n \in on : rank[n] # rank[k],
           NEW new, new[k] = succ[p], new[p] = k, \A n \in on : n # p => new[n] = succ[n]
    PROVE  Chain(on \cup {k}, new, rank)
<1>1. Ranked(on \cup {k}, rank)
  BY DEF Chain, Ranked
<1>2. /\ succ[p] \in on \cup {Footer} /\ rank[succ[p]] \in Nat /\ rank[succ[p]] < rank[k]
  <2>1. succ[p] \in on \cup {Footer} /\ rank[succ[p]] \in Nat
    BY DEF Chain, Ranked
  <2>2. rank[succ[p]] # rank[k]
    BY <2>1 DEF Chain, Ranked
  <2> QED BY <2>1, <2>2
<1>3. \A n \in on \cup {k} : new[n] \in (on \cup {k}) \cup {Footer} /\ rank[new[n]] < rank[n]
  BY <1>2 DEF Chain
<1>4. ASSUME NEW m \in on \cup {k}, NEW n \in on \cup {k},
             rank[new[n]] < rank[m], rank[m] < rank[n]
      PROVE  FALSE
  <2>1. CASE n = k
    <3>1. m \in on /\ rank[m] \in Nat /\ rank[p] \in Nat
      BY <2>1, <1>4 DEF Chain, Ranked
    <3>2. rank[succ[p]] < rank[m] /\ rank[m] < rank[p]
      BY <2>1, <3>1, <1>2, <1>4
    <3> QED BY <3>1, <3>2 DEF Chain
  <2>2. CASE n = p
    <3>1. n # k /\ m # k /\ m \in on
      BY <2>2, <1>4
    <3>2. rank[m] \in Nat /\ rank[succ[p]] < rank[m] /\ rank[m] < rank[p]
      BY <2>2, <3>1, <1>2, <1>4 DEF Chain, Ranked
    <3> QED BY <3>1, <3>2 DEF Chain
  <2>3. CASE n # k /\ n # p
    <3>1. n \in on /\ new[n] = succ[n]
      BY <2>3
    <3>2. m = k
      BY <3>1, <1>4 DEF Chain
    <3>3. rank[n] > rank[k] /\ ~(rank[succ[n]] > rank[k])
      BY <3>1, <3>2, <1>4 DEF Chain, Ranked
    <3> QED BY <2>3, <3>1, <3>3, OneBefore
  <2> QED BY <2>1, <2>2, <2>3
<1> QED BY <1>1, <1>3, <1>4 DEF Chain

LEMMA ChainWithout ==
    ASSUME NEW on, NEW succ, NEW rank, Chain(on, succ, rank), NEW k \in on,
           NEW new, \A n \in on \ {k} : new[n] = IF succ[n] = k THEN succ[k] ELSE succ[n]
    PROVE  Chain(on \ {k}, new, rank)
<1>1. Ranked(on \ {k}, rank)
  BY DEF Chain, Ranked
<1>2. /\ succ[k] \in (on \ {k}) \cup {Footer} /\ rank[succ[k]] < rank[k]
      /\ rank[k] \in Nat /\ rank[succ[k]] \in Nat
  BY DEF Chain, Ranked
<1>3. ASSUME NEW n \in on \ {k}
      PROVE  new[n] \in (on \ {k}) \cup {Footer} /\ rank[new[n]] < rank[n]
  BY <1>2 DEF Chain, Ranked
<1>4. ASSUME NEW m \in on \ {k}, NEW n \in on \ {k},
             rank[new[n]] < rank[m], rank[m] < rank[n]
      PROVE  FALSE
  <2>1. CASE succ[n] # k
    BY <2>1, <1>4 DEF Chain
  <2>2. CASE succ[n] = k
    <3>1. rank[m] # rank[k] /\ rank[m] \in Nat /\ rank[n] \in Nat
      BY DEF Chain, Ranked
    <3>2. rank[succ[k]] < rank[m]
      BY <2>2, <1>4
    <3>3. ~(rank[k] < rank[m]) /\ ~(rank[m] < rank[k])
      BY <2>2, <3>2, <1>4 DEF Chain
    <3> QED BY <3>1, <3>3, <1>2
  <2> QED BY <2>1, <2>2
<1> QED BY <1>1, <1>3, <1>4 DEF Chain

-----------------------------------------------------------------------------
(* The inductive invariant.  Besides the parts of ListOK and what the client *)
(* has seen: the footer's key is nobody else's, and a node's array begins at *)
(* level 0 and fits between the header's.  Of a broken list, one whose footer *)
(* has been removed, only what the client has seen is known.                 *)
Shape ==
    /\ Footer \in DOMAIN value
    /\ footerKey \notin Live
    /\ IsFiniteSet(Live)
    /\ DOMAIN forward[Header] = 0 .. MAX_LEVEL
    /\ \A n \in Live : \E h \in 1 .. MAX_LEVEL - 1 : DOMAIN forward[n] = 0 .. h

ListInv == TypeOK /\ Shape /\ LevelsSorted /\ LevelIsHighest /\ CountsNodes

Seen == {visited[i] : i \in 1 .. Len(visited)}
ClientInv ==
    /\ stable \subseteq Live
    /\ cursor # NoNode => Len(visited) > 0 /\ visited[Len(visited)] = cursor
    /\ IterationSound

IInv == (broken \/ ListInv) /\ ClientInv

-----------------------------------------------------------------------------
(* The rank of a node, and of a key: how far it lies before the footer.      *)
Ranks == [n \in Keys \cup {Header, Footer} |->
             CASE n = Header -> MaxPrice + 1
               [] n = Footer -> 0
               [] OTHER -> IF isForward THEN MaxPrice - n ELSE n]

Succ(i) == [n \in OnLevel(i) |-> forward[n][i]]
Levels == 0 .. MAX_LEVEL - 1
Chains == \A i \in Levels : Chain(OnLevel(i), Succ(i), Ranks)

LEMMA KeyFacts ==
    ASSUME NEW key \in Keys
    PROVE  /\ key \in Nat /\ key <= MaxPrice
           /\ key # Header /\ key # Footer /\ key # NoNode
OBVIOUS

LEMMA RankFacts ==
    ASSUME isForward \in BOOLEAN
    PROVE  /\ Ranks[Header] = MaxPrice + 1 /\ Ranks[Footer] = 0
           /\ \A k \in Keys : /\ Ranks[k] \in Nat /\ Ranks[k] <= MaxPrice
                              /\ k # footerKey => Ranks[k] > 0
                              /\ k = footerKey => Ranks[k] = 0
           /\ \A a, b \in Keys : /\ Ranks[a] = Ranks[b] => a = b
                                 /\ Ahead(a, b) <=> Ranks[a] > Ranks[b]
           /\ \A k \in Keys : ~Ahead(footerKey, k)
<1>1. /\ Ranks[Header] = MaxPrice + 1 /\ Ranks[Footer] = 0
  BY DEF Ranks
<1>2. ASSUME NEW k \in Keys
      PROVE  Ranks[k] = IF isForward THEN MaxPrice - k ELSE k
  BY KeyFacts DEF Ranks
<1>3. ASSUME NEW k \in Keys
      PROVE  /\ Ranks[k] \in Nat /\ Ranks[k] <= MaxPrice
             /\ k # footerKey => Ranks[k] > 0
             /\ k = footerKey => Ranks[k] = 0
             /\ ~Ahead(footerKey, k)
  BY <1>2, KeyFacts DEF footerKey, Ahead
<1>4. ASSUME NEW a \in Keys, NEW b \in Keys
      PROVE  /\ Ranks[a] = Ranks[b] => a = b
             /\ Ahead(a, b) <=> Ranks[a] > Ranks[b]
  BY <1>2, KeyFacts DEF Ahead
<1> QED BY <1>1, <1>3, <1>4

LEMMA NodeFacts ==
    ASSUME TypeOK, Shape
    PROVE  /\ isForward \in BOOLEAN
           /\ \A n \in Live : /\ n \in Keys /\ n \in Nat /\ n # footerKey
                              /\ n # Header /\ n # Footer /\ n # NoNode
                              /\ Ranks[n] \in Nat /\ Ranks[n] > 0 /\ Ranks[n] <= MaxPrice
           /\ DOMAIN forward = Live \cup {Header}
           /\ DOMAIN value = Live \cup {Footer}
           /\ Header \notin Live /\ Footer \notin Live
           /\ Ranks[Header] = MaxPrice + 1 /\ Ranks[Footer] = 0
           /\ MaxPrice \in Nat
           /\ \A i \in Levels : OnLevel(i) \subseteq Live \cup {Header}
                                /\ Header \in OnLevel(i)
           /\ OnLevel(0) = Live \cup {Header}
           /\ 0 \in Levels /\ 0 .. level \subseteq Levels
<1>1. isForward \in BOOLEAN /\ Live \subseteq Keys /\ DOMAIN forward = Live \cup {Header}
      /\ level \in Levels
  BY DEF TypeOK, Levels
<1>2. DOMAIN value = Live \cup {Footer} /\ Footer \notin Live
  BY DEF Shape, Live
<1>3. Header \notin Live
  BY <1>1, KeyFacts
<1>4. \A n \in Live : /\ n \in Keys /\ n \in Nat /\ n # footerKey
                      /\ n # Header /\ n # Footer /\ n # NoNode
  BY <1>1, KeyFacts DEF Shape
<1>5. \A n \in Live : Ranks[n] \in Nat /\ Ranks[n] > 0 /\ Ranks[n] <= MaxPrice
  BY <1>1, <1>4, RankFacts
<1>6. \A i \in Levels : OnLevel(i) \subseteq Live \cup {Header} /\ Header \in OnLevel(i)
  BY <1>1 DEF OnLevel, Shape, Levels
<1>7. OnLevel(0) = Live \cup {Header}
  <2>1. \A n \in Live : 0 \in DOMAIN forward[n]
    BY DEF Shape
  <2>2. 0 \in DOMAIN forward[Header]
    BY DEF Shape
  <2> QED BY <2>1, <2>2, <1>1 DEF OnLevel
<1>8. 0 \in Levels /\ 0 .. level \subseteq Levels
  BY <1>1 DEF Levels
<1> QED BY <1>1, <1>2, <1>3, <1>4, <1>5, <1>6, <1>7, <1>8, RankFacts

LEMMA Orders ==
    ASSUME TypeOK, Shape
    PROVE  /\ \A n \in Live \cup {Footer}, k \in Keys : MovesOn(n, k) <=> Ranks[n] > Ranks[k]
           /\ \A a \in Live \cup {Header}, b \in Live \cup {Footer} :
                 Before(a, b) <=> Ranks[a] > Ranks[b]
           /\ \A a, b \in Live \cup {Header, Footer} : Ranks[a] = Ranks[b] => a = b
<1>1. ASSUME NEW n \in Live \cup {Footer}, NEW k \in Keys
      PROVE  MovesOn(n, k) <=> Ranks[n] > Ranks[k]
  <2>1. CASE n = Footer
    BY <2>1, NodeFacts, RankFacts DEF MovesOn, KeyOf
  <2>2. CASE n # Footer
    BY <2>2, NodeFacts, RankFacts DEF MovesOn, KeyOf
  <2> QED BY <2>1, <2>2
<1>2. ASSUME NEW a \in Live \cup {Header}, NEW b \in Live \cup {Footer}
      PROVE  Before(a, b) <=> Ranks[a] > Ranks[b]
  <2>1. CASE a = Header
    <3>1. Ranks[b] \in Nat /\ Ranks[b] <= MaxPrice
      BY NodeFacts
    <3> QED BY <2>1, <3>1, NodeFacts DEF Before
  <2>2. CASE a # Header /\ b = Footer
    BY <2>2, NodeFacts DEF Before
  <2>3. CASE a # Header /\ b # Footer
    BY <2>3, NodeFacts, RankFacts DEF Before
  <2> QED BY <2>1, <2>2, <2>3
<1>3. ASSUME NEW a \in Live \cup {Header, Footer}, NEW b \in Live \cup {Header, Footer},
             Ranks[a] = Ranks[b]
      PROVE  a = b
  BY <1>3, NodeFacts, RankFacts
<1> QED BY <1>1, <1>2, <1>3

(* Every level is sorted and complete exactly if it is a chain.              *)
LEMMA SortedIsChains == TypeOK /\ Shape => (LevelsSorted <=> Chains)
<1> SUFFICES ASSUME TypeOK, Shape PROVE LevelsSorted <=> Chains
  OBVIOUS
<1>1. \A i \in Levels : \A n \in OnLevel(i) :
          n \in Live \cup {Header} /\ i \in DOMAIN forward[n] \ {MAX_LEVEL}
          /\ forward[n][i] \in Live \cup {Footer}
          /\ Succ(i)[n] = forward[n][i]
  BY NodeFacts DEF OnLevel, Levels, TypeOK, Succ
<1>2. ASSUME NEW n \in Live \cup {Header}, NEW i \in DOMAIN forward[n] \ {MAX_LEVEL}
      PROVE  i \in Levels /\ n \in OnLevel(i)
  <2>1. CASE n = Header
    BY <2>1, <1>2, NodeFacts DEF Shape, OnLevel, Levels
  <2>2. CASE n \in Live
    BY <2>2, <1>2, NodeFacts DEF Shape, OnLevel, Levels
  <2> QED BY <2>1, <2>2
<1>3. \A m \in Live, i \in Levels : Reaches(m, i) <=> m \in OnLevel(i)
  BY NodeFacts DEF Reaches, OnLevel
<1>4. ASSUME NEW i \in Levels PROVE Ranked(OnLevel(i), Ranks)
  <2>1. \A n \in Live \cup {Header} : Ranks[n] \in Nat /\ Ranks[n] > 0
    BY NodeFacts
  <2> QED BY <2>1, NodeFacts, Orders DEF Ranked
<1>5. ASSUME LevelsSorted, NEW i \in Levels PROVE Chain(OnLevel(i), Succ(i), Ranks)
  <2>1. ASSUME NEW n \in OnLevel(i)
        PROVE  /\ Succ(i)[n] \in OnLevel(i) \cup {Footer} /\ Ranks[Succ(i)[n]] < Ranks[n]
               /\ \A m \in OnLevel(i) : ~(Ranks[Succ(i)[n]] < Ranks[m] /\ Ranks[m] < Ranks[n])
    <3> DEFINE to == forward[n][i]
    <3>1. /\ to = Footer \/ (Reaches(to, i) /\ Before(n, to))
          /\ \A m \in Live \ {n, to} : ~(Reaches(m, i) /\ Before(n, m) /\ Before(m, to))
      BY <1>1, <1>5 DEF LevelsSorted
    <3>2. to \in Live \cup {Footer} /\ n \in Live \cup {Header} /\ Succ(i)[n] = to
      BY <1>1
    <3> HIDE DEF to
    <3>3. to \in OnLevel(i) \cup {Footer}
      BY <3>1, <3>2, <1>3
    <3>4. Before(n, to)
      BY <3>1 DEF Before
    <3>5. Ranks[to] < Ranks[n]
      BY <3>2, <3>4, Orders, NodeFacts
    <3>6. ASSUME NEW m \in OnLevel(i), Ranks[to] < Ranks[m], Ranks[m] < Ranks[n]
          PROVE  FALSE
      <4>0. Ranks[m] \in Nat /\ Ranks[n] \in Nat /\ Ranks[to] \in Nat
        BY <3>2, NodeFacts
      <4>1. m # n /\ m # to
        BY <4>0, <3>6
      <4>2. Ranks[n] <= MaxPrice + 1
        BY <3>2, NodeFacts
      <4>3. m \in Live
        BY <4>0, <4>2, <3>6, NodeFacts
      <4>4. Before(n, m) /\ Before(m, to)
        BY <4>0, <4>3, <3>2, <3>6, Orders
      <4> QED BY <4>1, <4>3, <4>4, <3>1, <1>3
    <3> QED BY <3>2, <3>3, <3>5, <3>6
  <2> QED BY <2>1, <1>4 DEF Chain
<1>6. ASSUME Chains PROVE LevelsSorted
  <2> SUFFICES ASSUME NEW n \in Live \cup {Header}, NEW i \in DOMAIN forward[n] \ {MAX_LEVEL}
               PROVE  LET to == forward[n][i]
                      IN  /\ to = Footer \/ (Reaches(to, i) /\ Before(n, to))
                          /\ \A m \in Live \ {n, to} :
                                ~(Reaches(m, i) /\ Before(n, m) /\ Before(m, to))
    BY DEF LevelsSorted
  <2> DEFINE to == forward[n][i]
  <2>1. i \in Levels /\ n \in OnLevel(i)
    BY <1>2
  <2>2. Chain(OnLevel(i), Succ(i), Ranks) /\ Succ(i)[n] = to /\ to \in Live \cup {Footer}
    BY <2>1, <1>1, <1>6 DEF Chains
  <2> HIDE DEF to
  <2>3. /\ to \in OnLevel(i) \cup {Footer} /\ Ranks[to] < Ranks[n]
        /\ \A m \in OnLevel(i) : ~(Ranks[to] < Ranks[m] /\ Ranks[m] < Ranks[n])
    BY <2>1, <2>2 DEF Chain
  <2>4. to = Footer \/ (Reaches(to, i) /\ Before(n, to))
    BY <2>1, <2>2, <2>3, <1>3, Orders, NodeFacts
  <2>5. ASSUME NEW m \in Live \ {n, to}, Reaches(m, i), Before(n, m), Before(m, to)
        PROVE  FALSE
    <3>1. m \in OnLevel(i)
      BY <2>1, <2>5, <1>3
    <3>2. Ranks[n] > Ranks[m] /\ Ranks[m] > Ranks[to]
      BY <2>2, <2>5, Orders
    <3>3. Ranks[m] \in Nat /\ Ranks[n] \in Nat /\ Ranks[to] \in Nat
      BY <2>2, NodeFacts
    <3> QED BY <2>3, <3>1, <3>2, <3>3
  <2> QED BY <2>4, <2>5 DEF to
<1> QED BY <1>5, <1>6 DEF Chains

-----------------------------------------------------------------------------
(* The walk: on every level it stops at the one node before the key's place. *)
Stops(p, i, key) ==
    /\ p \in OnLevel(i)
    /\ Ranks[p] > Ranks[key]
    /\ ~(Ranks[forward[p][i]] > Ranks[key])

LEMMA LinkFacts ==
    ASSUME TypeOK, Shape, Chains, NEW i \in Levels, NEW n \in OnLevel(i)
    PROVE  /\ Succ(i)[n] = forward[n][i]
           /\ forward[n][i] \in OnLevel(i) \cup {Footer}
           /\ forward[n][i] \in Live \cup {Footer}
           /\ Ranks[forward[n][i]] < Ranks[n]
           /\ Ranks[forward[n][i]] \in Nat
<1>1. Succ(i)[n] = forward[n][i]
  BY DEF Succ
<1>2. Chain(OnLevel(i), Succ(i), Ranks)
  BY DEF Chains
<1>3. forward[n][i] \in OnLevel(i) \cup {Footer} /\ Ranks[forward[n][i]] < Ranks[n]
  BY <1>1, <1>2 DEF Chain
<1>4. forward[n][i] # Header
  <2>1. Ranks[n] <= MaxPrice + 1 /\ Ranks[n] \in Nat /\ Ranks[Header] = MaxPrice + 1
    BY NodeFacts
  <2> QED BY <1>3, <2>1
<1>5. forward[n][i] \in Live \cup {Footer}
  BY <1>3, <1>4, NodeFacts
<1> QED BY <1>1, <1>3, <1>5, NodeFacts

LEMMA OneStop ==
    ASSUME TypeOK, Shape, Chains, NEW key \in Keys, NEW i \in Levels,
           NEW p, Stops(p, i, key), NEW q, Stops(q, i, key)
    PROVE  p = q
<1>1. Chain(OnLevel(i), Succ(i), Ranks) /\ Ranks[key] \in Nat
  BY NodeFacts, RankFacts DEF Chains
<1>2. /\ p \in OnLevel(i) /\ Ranks[p] > Ranks[key] /\ ~(Ranks[Succ(i)[p]] > Ranks[key])
      /\ q \in OnLevel(i) /\ Ranks[q] > Ranks[key] /\ ~(Ranks[Succ(i)[q]] > Ranks[key])
  BY LinkFacts DEF Stops
<1> QED BY <1>1, <1>2, OneBefore

LEMMA SomeStop ==
    ASSUME TypeOK, Shape, Chains, NEW key \in Keys, NEW i \in Levels
    PROVE  \E p : Stops(p, i, key)
<1>1. Chain(OnLevel(i), Succ(i), Ranks) /\ Ranks[key] \in Nat /\ Header \in OnLevel(i)
  BY NodeFacts, RankFacts DEF Chains
<1>2. Ranks[Header] > Ranks[key]
  BY NodeFacts, RankFacts
<1>3. PICK p \in OnLevel(i) : Ranks[p] > Ranks[key] /\ ~(Ranks[Succ(i)[p]] > Ranks[key])
  BY <1>1, <1>2, SomeBefore
<1> QED BY <1>3, LinkFacts DEF Stops

LEMMA OnwardsStops ==
    ASSUME TypeOK, Shape, Chains, NEW key \in Keys, NEW i \in Levels,
           NEW from \in OnLevel(i), Ranks[from] > Ranks[key]
    PROVE  Stops(Onwards(key, i)[from], i, key)
<1>1. PICK p : Stops(p, i, key)
  BY SomeStop
<1>2. ASSUME NEW n \in OnLevel(i)
      PROVE  /\ MovesOn(forward[n][i], key) <=> Ranks[forward[n][i]] > Ranks[key]
             /\ MovesOn(forward[n][i], key) => forward[n][i] \in OnLevel(i)
  <2>1. forward[n][i] \in Live \cup {Footer} /\ forward[n][i] \in OnLevel(i) \cup {Footer}
    BY LinkFacts
  <2>2. MovesOn(forward[n][i], key) <=> Ranks[forward[n][i]] > Ranks[key]
    BY <2>1, Orders
  <2>3. Ranks[Footer] = 0 /\ Ranks[key] \in Nat
    BY NodeFacts, RankFacts
  <2> QED BY <2>1, <2>2, <2>3
<1> DEFINE f == [n \in OnLevel(i) |-> IF MovesOn(forward[n][i], key) THEN p ELSE n]
           go == Onwards(key, i)
<1>3. ASSUME NEW n \in OnLevel(i), MovesOn(forward[n][i], key)
      PROVE  f[forward[n][i]] = p
  <2>1. forward[n][i] \in OnLevel(i) /\ Ranks[forward[n][i]] > Ranks[key]
    BY <1>2, <1>3
  <2>2. CASE MovesOn(forward[forward[n][i]][i], key)
    BY <2>1, <2>2
  <2>3. CASE ~MovesOn(forward[forward[n][i]][i], key)
    <3>1. Stops(forward[n][i], i, key)
      BY <2>1, <2>3, <1>2 DEF Stops
    <3>2. forward[n][i] = p
      BY <3>1, <1>1, OneStop
    <3> QED BY <3>2, <2>1, <2>3
  <2> QED BY <2>2, <2>3
<1>4. f = [n \in OnLevel(i) |-> IF MovesOn(forward[n][i], key) THEN f[forward[n][i]] ELSE n]
  BY <1>3
<1> HIDE DEF f
<1>5. go = [n \in OnLevel(i) |-> IF MovesOn(forward[n][i], key) THEN go[forward[n][i]] ELSE n]
  BY <1>4 DEF Onwards
<1> HIDE DEF go
<1> DEFINE S == {n \in OnLevel(i) : Ranks[n] > Ranks[key] => Stops(go[n], i, key)} \cup {Footer}
<1>6. ASSUME NEW n \in OnLevel(i), Succ(i)[n] \in S PROVE n \in S
  <2>1. CASE MovesOn(forward[n][i], key)
    <3>1. /\ forward[n][i] \in OnLevel(i) /\ forward[n][i] # Footer
          /\ Ranks[forward[n][i]] > Ranks[key] /\ Succ(i)[n] = forward[n][i]
      BY <2>1, <1>2, LinkFacts, NodeFacts
    <3>2. Stops(go[forward[n][i]], i, key)
      BY <3>1, <1>6
    <3>3. go[n] = go[forward[n][i]]
      BY <1>5, <2>1
    <3> QED BY <3>2, <3>3
  <2>2. CASE ~MovesOn(forward[n][i], key)
    <3>1. go[n] = n
      BY <1>5, <2>2
    <3> QED BY <3>1, <2>2, <1>2 DEF Stops
  <2> QED BY <2>1, <2>2
<1>7. OnLevel(i) \subseteq S
  <2>1. Footer \in S /\ \A n \in OnLevel(i) : Succ(i)[n] \in S => n \in S
    BY <1>6
  <2>2. Chain(OnLevel(i), Succ(i), Ranks)
    BY DEF Chains
  <2> HIDE DEF S
  <2> QED BY <2>1, <2>2, AlongChain
<1>8. from # Footer
  BY NodeFacts
<1>9. Stops(go[from], i, key)
  BY <1>7, <1>8
<1> QED BY <1>9 DEF go

LEMMA Lower ==
    ASSUME TypeOK, Shape, NEW i \in 0 .. level, i # level
    PROVE  i + 1 \in 0 .. level /\ OnLevel(i + 1) \subseteq OnLevel(i)
<1>1. level \in Levels /\ i + 1 \in 0 .. level /\ i + 1 \in Levels /\ i \in Levels
  BY DEF TypeOK, Levels
<1>2. ASSUME NEW n \in OnLevel(i + 1) PROVE n \in OnLevel(i)
  <2>1. CASE n = Header
    BY <1>1, <2>1, NodeFacts
  <2>2. CASE n \in Live
    <3>1. PICK h \in 1 .. MAX_LEVEL - 1 : DOMAIN forward[n] = 0 .. h
      BY <2>2 DEF Shape
    <3>2. n \in DOMAIN forward /\ i + 1 \in 0 .. h
      BY <3>1, <1>2 DEF OnLevel
    <3> QED BY <3>1, <3>2 DEF OnLevel
  <2> QED BY <2>1, <2>2, <1>1, NodeFacts
<1> QED BY <1>1, <1>2

LEMMA WalkStops ==
    ASSUME TypeOK, Shape, Chains, NEW key \in Keys
    PROVE  \A i \in 0 .. level : Stops(Walk(key)[i], i, key)
<1> DEFINE Place(i) == CHOOSE p : Stops(p, i, key)
           f == [i \in 0 .. level |-> Place(i)]
           w == Walk(key)
           Start(g, i) == IF i = level THEN Header ELSE g[i + 1]
<1>0. 0 .. level \subseteq Levels /\ level \in Nat
  BY NodeFacts DEF TypeOK
<1>1. \A i \in 0 .. level : Stops(Place(i), i, key)
  BY <1>0, SomeStop
<1>2. ASSUME NEW g, NEW i \in 0 .. level, i # level => Stops(g[i + 1], i + 1, key)
      PROVE  Stops(Onwards(key, i)[Start(g, i)], i, key)
  <2>1. i \in Levels
    BY <1>0
  <2>2. CASE i = level
    <3>1. Header \in OnLevel(i) /\ Ranks[Header] > Ranks[key]
      BY <2>1, NodeFacts, RankFacts
    <3> QED BY <3>1, <2>1, <2>2, OnwardsStops
  <2>3. CASE i # level
    <3>1. g[i + 1] \in OnLevel(i + 1) /\ Ranks[g[i + 1]] > Ranks[key]
      BY <2>3, <1>2 DEF Stops
    <3>2. g[i + 1] \in OnLevel(i)
      BY <3>1, <2>3, Lower
    <3> QED BY <3>1, <3>2, <2>1, <2>3, OnwardsStops
  <2> QED BY <2>2, <2>3
<1> HIDE DEF Place
<1>3. ASSUME NEW i \in 0 .. level PROVE f[i] = Onwards(key, i)[Start(f, i)]
  <2>1. i # level => i + 1 \in 0 .. level
    BY <1>0
  <2>2. i # level => Stops(f[i + 1], i + 1, key)
    BY <2>1, <1>1
  <2> HIDE DEF f, Start
  <2>3. Stops(Onwards(key, i)[Start(f, i)], i, key)
    BY <2>2, <1>2
  <2>4. Stops(f[i], i, key)
    BY <1>1 DEF f
  <2> QED BY <2>3, <2>4, <1>0, OneStop
<1>4. f = [i \in 0 .. level |-> Onwards(key, i)[IF i = level THEN Header ELSE f[i + 1]]]
  <2>1. f = [i \in 0 .. level |-> f[i]]
    BY SMTT(30)
  <2> QED BY <2>1, <1>3
<1> HIDE DEF f
<1>5. w = [i \in 0 .. level |-> Onwards(key, i)[IF i = level THEN Header ELSE w[i + 1]]]
  BY <1>4 DEF Walk
<1> HIDE DEF w
<1> SUFFICES ASSUME NEW i0 \in 0 .. level, ~Stops(w[i0], i0, key) PROVE FALSE
  BY DEF w
<1> DEFINE R == {level - i : i \in {j \in 0 .. level : ~Stops(w[j], j, key)}}
<1>6. R \in SUBSET Nat /\ R # {}
  BY <1>0
<1>7. PICK b \in R : \A c \in R : b <= c
  BY <1>6, Smallest
<1>8. PICK i \in 0 .. level : ~Stops(w[i], i, key) /\ b = level - i
  BY <1>7
<1>9. i # level => Stops(w[i + 1], i + 1, key)
  <2> SUFFICES ASSUME i # level, ~Stops(w[i + 1], i + 1, key) PROVE FALSE
    OBVIOUS
  <2>1. i + 1 \in 0 .. level
    BY <1>0
  <2>2. level - (i + 1) \in R
    BY <2>1
  <2> HIDE DEF R
  <2>3. b <= level - (i + 1)
    BY <2>2, <1>7
  <2> QED BY <2>3, <1>0, <1>8
<1>10. Stops(Onwards(key, i)[Start(w, i)], i, key)
  BY <1>2, <1>9
<1>11. w[i] = Onwards(key, i)[Start(w, i)]
  BY <1>5
<1> QED BY <1>8, <1>10, <1>11

(* Found: the candidate is the node with the key, or the footer.             *)
LEMMA FoundIs ==
    ASSUME TypeOK, Shape, Chains, NEW key \in Keys
    PROVE  /\ Candidate(key) \in Live \cup {Footer}
           /\ key \in Live => Candidate(key) = key
           /\ key = footerKey => Candidate(key) = Footer
           /\ Found(key) <=> key \in Live \/ key = footerKey
<1> DEFINE p == Walk(key)[0]
           c == Candidate(key)
<1>1. Stops(p, 0, key) /\ 0 \in Levels
  <2>1. 0 \in 0 .. level
    BY DEF TypeOK
  <2> QED BY <2>1, WalkStops, NodeFacts
<1>2. c = forward[p][0]
  BY DEF Candidate
<1> HIDE DEF p, c
<1>3. /\ p \in OnLevel(0) /\ c \in Live \cup {Footer} /\ Succ(0)[p] = c
      /\ Ranks[c] \in Nat /\ ~(Ranks[c] > Ranks[key]) /\ Ranks[p] > Ranks[key]
      /\ Ranks[key] \in Nat
  BY <1>1, <1>2, LinkFacts, NodeFacts, RankFacts DEF Stops
<1>4. key \in Live => c = key
  <2> SUFFICES ASSUME key \in Live PROVE c = key
    OBVIOUS
  <2>1. key \in OnLevel(0) /\ Chain(OnLevel(0), Succ(0), Ranks)
    BY <1>1, NodeFacts DEF Chains
  <2>2. key = c \/ Ranks[key] < Ranks[c]
    BY <2>1, <1>3, BehindNext
  <2> QED BY <2>2, <1>3
<1>5. key = footerKey => c = Footer
  <2> SUFFICES ASSUME key = footerKey, c \in Live PROVE FALSE
    BY <1>3
  <2>1. Ranks[key] = 0 /\ Ranks[c] > 0
    BY NodeFacts, RankFacts
  <2> QED BY <2>1, <1>3
<1>6. Found(key) <=> key \in Live \/ key = footerKey
  <2>1. CASE c = Footer
    <3>1. KeyOf(c) = footerKey
      BY <2>1 DEF KeyOf
    <3> QED BY <3>1, <2>1, <1>4, NodeFacts DEF Found, c
  <2>2. CASE c \in Live
    <3>1. KeyOf(c) = c
      BY <2>2, NodeFacts DEF KeyOf
    <3> QED BY <3>1, <2>2, <1>4, <1>5, NodeFacts DEF Found, c
  <2> QED BY <2>1, <2>2, <1>3
<1> QED BY <1>3, <1>4, <1>5, <1>6 DEF c

-----------------------------------------------------------------------------
(* The steps.  Most of them leave the nodes and their links alone.           *)
LEMMA SameNodes ==
    ASSUME ListInv, DOMAIN value' = DOMAIN value, UNCHANGED <<isForward, forward, level, nodeCount>>
    PROVE  /\ Live' = Live /\ Shape' /\ LevelsSorted' /\ LevelIsHighest' /\ CountsNodes'
<1>1. Live' = Live /\ footerKey' = footerKey
  BY DEF Live, footerKey
<1>2. Shape'
  BY <1>1 DEF ListInv, Shape
<1>3. LevelsSorted'
  BY <1>1 DEF ListInv, LevelsSorted, Reaches, Before, Ahead
<1>4. LevelIsHighest'
  BY <1>1 DEF ListInv, LevelIsHighest, nodeLevel
<1>5. CountsNodes'
  BY <1>1 DEF ListInv, CountsNodes
<1> QED BY <1>1, <1>2, <1>3, <1>4, <1>5

LEMMA HeightIs ==
    ASSUME NEW h \in Nat
    PROVE  Cardinality(0 .. h) - 1 = h
BY FS_Interval

LEMMA HeightFacts ==
    ASSUME TypeOK, Shape, NEW n \in Live
    PROVE  /\ nodeLevel(n) \in 1 .. MAX_LEVEL - 1
           /\ DOMAIN forward[n] = 0 .. nodeLevel(n)
           /\ \A i \in Levels : n \in OnLevel(i) <=> i <= nodeLevel(n)
<1>1. PICK h \in 1 .. MAX_LEVEL - 1 : DOMAIN forward[n] = 0 .. h
  BY DEF Shape
<1>2. nodeLevel(n) = h
  BY <1>1, HeightIs DEF nodeLevel
<1>3. n \in DOMAIN forward
  BY NodeFacts
<1> QED BY <1>1, <1>2, <1>3 DEF OnLevel, Levels

LEMMA AboveIsEmpty ==
    ASSUME TypeOK, Shape, Chains, LevelIsHighest, NEW i \in Levels, i > level
    PROVE  OnLevel(i) = {Header} /\ forward[Header][i] = Footer
<1>1. ASSUME NEW n \in Live PROVE n \notin OnLevel(i)
  BY HeightFacts DEF LevelIsHighest, TypeOK, Levels
<1>2. OnLevel(i) = {Header}
  BY <1>1, NodeFacts
<1> QED BY <1>1, <1>2, LinkFacts

LEMMA RanksStay ==
    ASSUME UNCHANGED isForward
    PROVE  Ranks' = Ranks /\ footerKey' = footerKey
BY DEF Ranks, footerKey

LEMMA InsertLinks ==
    ASSUME ListInv, Chains, NEW key \in Keys, NEW v \in Values, insertNew(key, v)
    PROVE  /\ key \notin Live /\ key # footerKey
           /\ \E h \in 1 .. MAX_LEVEL - 1 :
                 /\ h <= level + 1
                 /\ level' = IF h > level THEN h ELSE level
                 /\ \A i \in 0 .. h : Stops(Update(key)[i], i, key)
                 /\ DOMAIN forward' = Live \cup {Header, key}
                 /\ forward'[key] = [i \in 0 .. h |-> forward[Update(key)[i]][i]]
                 /\ \A n \in Live \cup {Header} :
                       forward'[n] = [i \in DOMAIN forward[n] |->
                                         IF i <= h /\ Update(key)[i] = n THEN key
                                         ELSE forward[n][i]]
<1>1. TypeOK /\ Shape /\ level \in Nat /\ level < MAX_LEVEL /\ LevelIsHighest
  BY DEF ListInv, TypeOK
<1>2. key \notin Live /\ key # footerKey
  BY <1>1, FoundIs DEF insertNew
<1>3. PICK l \in RandomLevels : /\ level' = IF l > level THEN Height(l) ELSE level
                                /\ forward' = Linked(key, Height(l))
  BY DEF insertNew
<1> DEFINE h == Height(l)
<1>4. l \in 1 .. MAX_LEVEL - 1
  BY <1>3 DEF RandomLevels
<1>5. h \in 1 .. MAX_LEVEL - 1 /\ h <= level + 1 /\ level' = IF h > level THEN h ELSE level
  BY <1>1, <1>3, <1>4 DEF Height
<1>6. ASSUME NEW i \in 0 .. h PROVE Stops(Update(key)[i], i, key)
  <2>1. CASE i <= level
    <3>1. i \in 0 .. level /\ i \in 0 .. level + 1
      BY <2>1, <1>1, <1>5
    <3>2. Update(key)[i] = Walk(key)[i]
      BY <2>1, <3>1 DEF Update
    <3> QED BY <3>1, <3>2, <1>1, WalkStops
  <2>2. CASE i > level
    <3>1. i \in Levels /\ i \in 0 .. level + 1 /\ ~(i <= level)
      BY <2>2, <1>1, <1>5 DEF Levels
    <3>2. Update(key)[i] = Header
      BY <3>1 DEF Update
    <3>3. Header \in OnLevel(i) /\ forward[Header][i] = Footer
      BY <2>2, <3>1, <1>1, AboveIsEmpty, NodeFacts
    <3>4. Ranks[Header] > Ranks[key] /\ ~(Ranks[Footer] > Ranks[key])
      BY <1>1, NodeFacts, RankFacts
    <3> QED BY <3>2, <3>3, <3>4 DEF Stops
  <2> QED BY <2>1, <2>2, <1>1, <1>5
<1>7. DOMAIN forward = Live \cup {Header} /\ key # Header
  BY <1>1, NodeFacts, KeyFacts
<1> HIDE DEF h
<1>8. forward' = Linked(key, h)
  BY <1>3 DEF h
<1>9. DOMAIN forward' = Live \cup {Header, key}
  BY <1>7, <1>8 DEF Linked
<1>10. forward'[key] = [i \in 0 .. h |-> forward[Update(key)[i]][i]]
  BY <1>8 DEF Linked
<1>11. ASSUME NEW n \in Live \cup {Header}
       PROVE  forward'[n] = [i \in DOMAIN forward[n] |->
                                IF i <= h /\ Update(key)[i] = n THEN key ELSE forward[n][i]]
  <2>1. n \in DOMAIN forward /\ n # key
    BY <1>2, <1>7
  <2> QED BY <2>1, <1>8 DEF Linked
<1> QED BY <1>2, <1>5, <1>6, <1>9, <1>10, <1>11

LEMMA InsertKeepsList ==
    ASSUME ListInv, NEW key \in Keys, NEW v \in Values, insertNew(key, v)
    PROVE  ListInv' /\ Live' = Live \cup {key}
<1>1. TypeOK /\ Shape /\ LevelIsHighest /\ CountsNodes /\ Chains
  BY SortedIsChains DEF ListInv
<1>2. /\ key \notin Live /\ key # footerKey /\ key # Header /\ key # Footer
      /\ DOMAIN forward = Live \cup {Header}
      /\ level \in Nat /\ level < MAX_LEVEL
  <2>1. key \notin Live /\ key # footerKey
    BY <1>1, InsertLinks
  <2>2. level \in Nat /\ level < MAX_LEVEL
    BY <1>1 DEF TypeOK
  <2> QED BY <1>1, <2>1, <2>2, KeyFacts, NodeFacts
<1>3. PICK h \in 1 .. MAX_LEVEL - 1 :
                 /\ h <= level + 1
                 /\ level' = IF h > level THEN h ELSE level
                 /\ \A i \in 0 .. h : Stops(Update(key)[i], i, key)
                 /\ DOMAIN forward' = Live \cup {Header, key}
                 /\ forward'[key] = [i \in 0 .. h |-> forward[Update(key)[i]][i]]
                 /\ \A n \in Live \cup {Header} :
                       forward'[n] = [i \in DOMAIN forward[n] |->
                                         IF i <= h /\ Update(key)[i] = n THEN key
                                         ELSE forward[n][i]]
  BY <1>1, InsertLinks
<1>4. PICK update : update = Update(key)
  OBVIOUS
<1>5. /\ \A i \in 0 .. h : Stops(update[i], i, key)
      /\ DOMAIN forward'[key] = 0 .. h
      /\ \A i \in 0 .. h : forward'[key][i] = forward[update[i]][i]
      /\ \A n \in Live \cup {Header} :
            /\ DOMAIN forward'[n] = DOMAIN forward[n]
            /\ \A i \in DOMAIN forward[n] :
                  forward'[n][i] = IF i <= h /\ update[i] = n THEN key ELSE forward[n][i]
  <2>1. forward'[key] = [i \in 0 .. h |-> forward[update[i]][i]]
    BY <1>3, <1>4
  <2>2. ASSUME NEW n \in Live \cup {Header}
        PROVE  /\ DOMAIN forward'[n] = DOMAIN forward[n]
               /\ \A i \in DOMAIN forward[n] :
                     forward'[n][i] = IF i <= h /\ update[i] = n THEN key ELSE forward[n][i]
    <3>1. forward'[n] = [i \in DOMAIN forward[n] |->
                            IF i <= h /\ update[i] = n THEN key ELSE forward[n][i]]
      BY <1>3, <1>4
    <3> QED BY <3>1
  <2>3. \A i \in 0 .. h : Stops(update[i], i, key)
    BY <1>3, <1>4
  <2>4. DOMAIN forward'[key] = 0 .. h /\ \A i \in 0 .. h : forward'[key][i] = forward[update[i]][i]
    BY <2>1
  <2> QED BY <2>2, <2>3, <2>4
<1>6. /\ value' = [k \in DOMAIN value \cup {key} |-> IF k = key THEN v ELSE value[k]]
      /\ nodeCount' = nodeCount + 1
      /\ UNCHANGED <<isForward, broken, cursor, visited, stable>>
  BY DEF insertNew, Counted, client
<1>7. Live' = Live \cup {key} /\ DOMAIN value' = DOMAIN value \cup {key}
  BY <1>2, <1>6 DEF Live
<1>8. ASSUME NEW i \in 0 .. h
      PROVE  i \in Levels /\ forward[update[i]][i] \in Live \cup {Footer}
  <2>1. i \in Levels /\ update[i] \in OnLevel(i)
    BY <1>5 DEF Stops, Levels
  <2> QED BY <2>1, <1>1, LinkFacts
<1>9. TypeOK'
  <2>1. Live' \subseteq Keys /\ \A n \in DOMAIN value' : value'[n] \in Values \cup {0}
    BY <1>1, <1>6, <1>7 DEF TypeOK
  <2>2. DOMAIN forward' = Live' \cup {Header}
    BY <1>3, <1>7
  <2>3. \A n \in DOMAIN forward' : \A i \in DOMAIN forward'[n] \ {MAX_LEVEL} :
            forward'[n][i] \in Live' \cup {Footer}
    <3> SUFFICES ASSUME NEW n \in Live \cup {Header, key}, NEW i \in DOMAIN forward'[n] \ {MAX_LEVEL}
                 PROVE  forward'[n][i] \in Live \cup {key, Footer}
      BY <1>3, <1>7
    <3>1. CASE n = key
      BY <3>1, <1>5, <1>8
    <3>2. CASE n # key
      <4>1. n \in DOMAIN forward /\ n \in Live \cup {Header}
        BY <3>2, <1>2
      <4>2. DOMAIN forward'[n] = DOMAIN forward[n]
            /\ (forward'[n][i] = key \/ forward'[n][i] = forward[n][i])
        BY <4>1, <1>5
      <4>3. i \in DOMAIN forward[n] \ {MAX_LEVEL}
        BY <4>2
      <4>4. forward[n][i] \in Live \cup {Footer}
        BY <4>1, <4>3, <1>1 DEF TypeOK
      <4> QED BY <4>2, <4>4
    <3> QED BY <3>1, <3>2
  <2>4. level' \in 0 .. MAX_LEVEL - 1
    BY <1>2, <1>3
  <2>5. /\ broken' \in BOOLEAN /\ isForward' \in BOOLEAN
        /\ cursor' \in Keys \cup {NoNode}
        /\ visited' \in Seq(Keys) /\ stable' \subseteq Keys
    BY <1>1, <1>6 DEF TypeOK
  <2> QED BY <2>1, <2>2, <2>3, <2>4, <2>5 DEF TypeOK
<1>10. Ranks' = Ranks /\ footerKey' = footerKey
  BY <1>6, RanksStay
<1>11. Shape'
  <2>1. Footer \in DOMAIN value' /\ footerKey' \notin Live'
    BY <1>1, <1>2, <1>7, <1>10 DEF Shape
  <2>2. IsFiniteSet(Live')
    BY <1>1, <1>7, FS_AddElement DEF Shape
  <2>3. DOMAIN forward'[Header] = 0 .. MAX_LEVEL
    BY <1>1, <1>5 DEF Shape
  <2>4. \A n \in Live' : \E g \in 1 .. MAX_LEVEL - 1 : DOMAIN forward'[n] = 0 .. g
    BY <1>1, <1>5, <1>7 DEF Shape
  <2> QED BY <2>1, <2>2, <2>3, <2>4 DEF Shape
<1>12. ASSUME NEW i \in Levels PROVE Chain(OnLevel(i)', Succ(i)', Ranks)
  <2>1. PICK on : on = OnLevel(i)
    OBVIOUS
  <2>2. PICK new : new = Succ(i)'
    OBVIOUS
  <2>3. Chain(on, Succ(i), Ranks) /\ on \subseteq Live \cup {Header}
    BY <1>1, <2>1, NodeFacts DEF Chains
  <2>4. OnLevel(i)' = IF i <= h THEN on \cup {key} ELSE on
    <3>1. OnLevel(i)' = {n \in DOMAIN forward' : i \in DOMAIN forward'[n]}
      BY DEF OnLevel
    <3>2. \A n \in Live \cup {Header} : n \in OnLevel(i)' <=> n \in on
      BY <2>1, <3>1, <1>2, <1>3, <1>5 DEF OnLevel
    <3>3. key \in OnLevel(i)' <=> i <= h
      BY <3>1, <1>3, <1>5 DEF Levels
    <3>4. OnLevel(i)' \subseteq Live \cup {Header, key}
      BY <3>1, <1>3
    <3> QED BY <3>2, <3>3, <3>4, <2>3, <1>2
  <2>5. new = [n \in OnLevel(i)' |-> forward'[n][i]]
    BY <2>2 DEF Succ
  <2>6. ASSUME NEW n \in on
        PROVE  /\ n \in Live \cup {Header} /\ i \in DOMAIN forward[n]
               /\ Succ(i)[n] = forward[n][i]
               /\ new[n] = IF i <= h /\ update[i] = n THEN key ELSE forward[n][i]
    <3>1. n \in Live \cup {Header} /\ i \in DOMAIN forward[n] /\ n \in OnLevel(i)'
      BY <2>1, <2>3, <2>4 DEF OnLevel
    <3>2. new[n] = forward'[n][i]
      BY <3>1, <2>5
    <3> QED BY <3>1, <3>2, <2>1, <1>5 DEF Succ
  <2>7. CASE i <= h
    <3>1. Stops(update[i], i, key) /\ i \in 0 .. h
      BY <2>7, <1>5 DEF Levels
    <3>2. PICK p : p = update[i]
      OBVIOUS
    <3>3. p \in on /\ Ranks[p] > Ranks[key] /\ ~(Ranks[Succ(i)[p]] > Ranks[key])
      BY <3>1, <3>2, <2>1, <2>6 DEF Stops
    <3>4. key \notin on /\ Ranks[key] \in Nat /\ Ranks[key] > 0
      BY <1>1, <1>2, <2>3, NodeFacts, RankFacts
    <3>5. \A n \in on : Ranks[n] # Ranks[key]
      <4> SUFFICES ASSUME NEW n \in on PROVE Ranks[n] # Ranks[key]
        OBVIOUS
      <4>1. CASE n = Header
        BY <4>1, <1>1, NodeFacts, RankFacts
      <4>2. CASE n \in Live
        BY <4>2, <1>1, <1>2, NodeFacts, RankFacts
      <4> QED BY <4>1, <4>2, <2>3
    <3>6. new[key] = Succ(i)[p]
      <4>1. key \in OnLevel(i)'
        BY <2>4, <2>7
      <4> QED BY <4>1, <3>1, <3>2, <3>3, <2>5, <2>6, <1>5
    <3>7. new[p] = key
      BY <3>2, <3>3, <2>6, <2>7
    <3>8. \A n \in on : n # p => new[n] = Succ(i)[n]
      BY <3>2, <2>6
    <3>9. Chain(on \cup {key}, new, Ranks)
      BY <2>3, <3>3, <3>4, <3>5, <3>6, <3>7, <3>8, ChainWith
    <3> QED BY <3>9, <2>2, <2>4, <2>7
  <2>8. CASE ~(i <= h)
    <3>1. \A n \in on : new[n] = Succ(i)[n]
      BY <2>6, <2>8
    <3>2. Chain(on, new, Ranks)
      BY <2>3, <3>1 DEF Chain
    <3> QED BY <3>2, <2>2, <2>4, <2>8
  <2> QED BY <2>7, <2>8
<1>13. LevelsSorted'
  <2>1. Chains'
    BY <1>10, <1>12 DEF Chains, Chain, Ranked
  <2>2. (TypeOK /\ Shape => (LevelsSorted <=> Chains))'
    BY SortedIsChains, PTL
  <2> QED BY <2>1, <2>2, <1>9, <1>11
<1>14. LevelIsHighest'
  <2>1. nodeLevel(key)' = h /\ \A n \in Live : nodeLevel(n)' = nodeLevel(n)
    BY <1>5, HeightIs DEF nodeLevel
  <2>2. ASSUME NEW n \in Live PROVE nodeLevel(n) \in Nat /\ nodeLevel(n) <= level
    BY <1>1, HeightFacts DEF LevelIsHighest
  <2>3. level > 0 => \E n \in Live : nodeLevel(n) = level
    BY <1>1 DEF LevelIsHighest
  <2>4. \A n \in Live' : nodeLevel(n)' <= level'
    BY <2>1, <2>2, <1>2, <1>3, <1>7
  <2>5. \E n \in Live' : nodeLevel(n)' = level'
    <3>1. CASE h > level
      BY <3>1, <2>1, <1>3, <1>7
    <3>2. CASE ~(h > level)
      BY <3>2, <2>1, <2>3, <1>2, <1>3, <1>7
    <3> QED BY <3>1, <3>2
  <2> QED BY <2>4, <2>5, <1>2, <1>3 DEF LevelIsHighest
<1>15. CountsNodes'
  BY <1>1, <1>2, <1>6, <1>7, FS_AddElement DEF CountsNodes, Shape
<1> QED BY <1>7, <1>9, <1>11, <1>13, <1>14, <1>15 DEF ListInv

(* On the levels a listed node reaches, the walk to its key stops before it. *)
LEMMA StopBefore ==
    ASSUME TypeOK, Shape, Chains, NEW i \in Levels, NEW key \in Live, key \in OnLevel(i),
           NEW p, Stops(p, i, key)
    PROVE  forward[p][i] = key
<1>1. /\ Chain(OnLevel(i), Succ(i), Ranks) /\ p \in OnLevel(i) /\ Ranks[key] < Ranks[p]
      /\ ~(Ranks[forward[p][i]] > Ranks[key])
  BY DEF Chains, Stops
<1>2. Succ(i)[p] = forward[p][i] /\ Ranks[forward[p][i]] \in Nat /\ Ranks[key] \in Nat
  BY <1>1, LinkFacts, NodeFacts
<1>3. key = Succ(i)[p] \/ Ranks[key] < Ranks[Succ(i)[p]]
  BY <1>1, BehindNext
<1> QED BY <1>1, <1>2, <1>3

LEMMA RemoveLinks ==
    ASSUME ListInv, Chains, NEW key \in Keys, remove(key)
    PROVE  /\ key \in Live
           /\ DOMAIN forward' = (Live \cup {Header}) \ {key}
           /\ \A n \in (Live \cup {Header}) \ {key} :
                 /\ DOMAIN forward'[n] = DOMAIN forward[n]
                 /\ \A i \in DOMAIN forward[n] \ {MAX_LEVEL} :
                       forward'[n][i] = IF forward[n][i] = key THEN forward[key][i]
                                        ELSE forward[n][i]
<1>1. TypeOK /\ Shape /\ LevelIsHighest
  BY DEF ListInv
<1>2. key \in Live
  BY <1>1, FoundIs DEF remove
<1>3. DOMAIN forward = Live \cup {Header} /\ level \in Nat /\ 0 .. level \subseteq Levels
  BY <1>1, NodeFacts DEF TypeOK
<1>4. PICK stop : stop = Walk(key)
  OBVIOUS
<1> DEFINE linkedUpTo == {i \in 0 .. level : \A j \in 0 .. i : forward[stop[j]][j] = key}
<1>5. forward' = [n \in DOMAIN forward \ {key} |->
                    [i \in DOMAIN forward[n] |->
                        IF i \in linkedUpTo /\ stop[i] = n THEN forward[key][i] ELSE forward[n][i]]]
  BY <1>4 DEF remove, Unlinked
<1>6. \A i \in 0 .. level : Stops(stop[i], i, key)
  BY <1>1, <1>4, WalkStops
<1>7. ASSUME NEW n \in (Live \cup {Header}) \ {key}, NEW i \in DOMAIN forward[n] \ {MAX_LEVEL}
      PROVE  (i \in linkedUpTo /\ stop[i] = n) <=> forward[n][i] = key
  <2>1. ASSUME i \in linkedUpTo, stop[i] = n PROVE forward[n][i] = key
    <3>1. i \in 0 .. i
      BY <2>1, <1>3
    <3> QED BY <2>1, <3>1
  <2>2. ASSUME forward[n][i] = key PROVE i \in linkedUpTo /\ stop[i] = n
    <3>1. i \in Levels /\ n \in OnLevel(i)
      <4>1. CASE n = Header
        BY <4>1, <1>1, <1>3, <1>7 DEF Shape, OnLevel, Levels
      <4>2. CASE n \in Live
        BY <4>2, <1>1, <1>3, <1>7 DEF Shape, OnLevel, Levels
      <4> QED BY <4>1, <4>2
    <3>2. key \in OnLevel(i) /\ Ranks[key] < Ranks[n] /\ Ranks[key] \in Nat
      BY <3>1, <2>2, <1>1, <1>2, LinkFacts, NodeFacts
    <3>3. Stops(n, i, key)
      BY <3>1, <3>2, <2>2 DEF Stops
    <3>4. nodeLevel(key) \in Nat /\ i <= nodeLevel(key) /\ nodeLevel(key) <= level
      BY <3>1, <3>2, <1>1, <1>2, HeightFacts DEF LevelIsHighest
    <3>5. i \in 0 .. level
      BY <3>1, <3>4, <1>3 DEF Levels
    <3>6. stop[i] = n
      BY <3>1, <3>3, <3>5, <1>1, <1>2, <1>6, OneStop
    <3>7. ASSUME NEW j \in 0 .. i PROVE forward[stop[j]][j] = key
      <4>1. j \in 0 .. level /\ j \in Levels /\ j <= nodeLevel(key)
        BY <3>1, <3>4, <3>5, <1>3 DEF Levels
      <4>2. key \in OnLevel(j)
        BY <4>1, <1>1, <1>2, HeightFacts
      <4> QED BY <4>1, <4>2, <1>1, <1>2, <1>6, StopBefore
    <3> QED BY <3>5, <3>6, <3>7
  <2> QED BY <2>1, <2>2
<1> HIDE DEF linkedUpTo
<1>8. DOMAIN forward' = (Live \cup {Header}) \ {key}
  BY <1>3, <1>5
<1>9. ASSUME NEW n \in (Live \cup {Header}) \ {key}
      PROVE  /\ DOMAIN forward'[n] = DOMAIN forward[n]
             /\ \A i \in DOMAIN forward[n] \ {MAX_LEVEL} :
                   forward'[n][i] = IF forward[n][i] = key THEN forward[key][i]
                                    ELSE forward[n][i]
  <2>1. forward'[n] = [i \in DOMAIN forward[n] |->
                          IF i \in linkedUpTo /\ stop[i] = n THEN forward[key][i]
                          ELSE forward[n][i]]
    BY <1>3, <1>5
  <2> QED BY <2>1, <1>7
<1> QED BY <1>2, <1>8, <1>9

LEMMA RemoveKeepsList ==
    ASSUME ListInv, NEW key \in Keys, remove(key)
    PROVE  ListInv' /\ Live' = Live \ {key} /\ key \in Live
<1>1. TypeOK /\ Shape /\ LevelIsHighest /\ CountsNodes /\ Chains
  BY SortedIsChains DEF ListInv
<1>2. /\ key \in Live
      /\ DOMAIN forward' = (Live \cup {Header}) \ {key}
      /\ \A n \in (Live \cup {Header}) \ {key} :
            /\ DOMAIN forward'[n] = DOMAIN forward[n]
            /\ \A i \in DOMAIN forward[n] \ {MAX_LEVEL} :
                  forward'[n][i] = IF forward[n][i] = key THEN forward[key][i]
                                   ELSE forward[n][i]
  BY <1>1, RemoveLinks
<1>3. /\ key # Header /\ key # Footer /\ DOMAIN forward = Live \cup {Header}
      /\ level \in Nat /\ level < MAX_LEVEL
  <2>1. level \in Nat /\ level < MAX_LEVEL
    BY <1>1 DEF TypeOK
  <2> QED BY <1>1, <1>2, <2>1, NodeFacts
<1>4. /\ value' = [k \in DOMAIN value \ {key} |-> value[k]]
      /\ nodeCount' = nodeCount + (-1)
      /\ level' = Shrunk(forward')
      /\ stable' = stable \ {key}
      /\ UNCHANGED <<isForward, broken, cursor, visited>>
  BY DEF remove, Counted
<1>5. Live' = Live \ {key} /\ DOMAIN value' = DOMAIN value \ {key}
  BY <1>3, <1>4 DEF Live
<1>6. Ranks' = Ranks /\ footerKey' = footerKey
  BY <1>4, RanksStay
<1>7. Shape'
  <2>1. Footer \in DOMAIN value' /\ footerKey' \notin Live'
    BY <1>1, <1>3, <1>5, <1>6 DEF Shape
  <2>2. IsFiniteSet(Live')
    BY <1>1, <1>5, FS_RemoveElement DEF Shape
  <2>3. DOMAIN forward'[Header] = 0 .. MAX_LEVEL
    BY <1>1, <1>2, <1>3 DEF Shape
  <2>4. \A n \in Live' : \E g \in 1 .. MAX_LEVEL - 1 : DOMAIN forward'[n] = 0 .. g
    BY <1>1, <1>2, <1>5 DEF Shape
  <2> QED BY <2>1, <2>2, <2>3, <2>4 DEF Shape
<1>8. ASSUME NEW i \in Levels
      PROVE  /\ Chain(OnLevel(i)', Succ(i)', Ranks)
             /\ OnLevel(i)' = OnLevel(i) \ {key}
             /\ \A n \in OnLevel(i)' : Succ(i)'[n] = forward'[n][i]
  <2>1. PICK on : on = OnLevel(i)
    OBVIOUS
  <2>2. PICK new : new = Succ(i)'
    OBVIOUS
  <2>3. Chain(on, Succ(i), Ranks) /\ on \subseteq Live \cup {Header}
    BY <1>1, <2>1, NodeFacts DEF Chains
  <2>4. OnLevel(i)' = on \ {key}
    BY <2>1, <1>2, <1>3 DEF OnLevel
  <2>5. new = [n \in OnLevel(i)' |-> forward'[n][i]]
    BY <2>2 DEF Succ
  <2>6. ASSUME NEW n \in on
        PROVE  /\ n \in Live \cup {Header} /\ i \in DOMAIN forward[n] \ {MAX_LEVEL}
               /\ Succ(i)[n] = forward[n][i] /\ forward[n][i] \in on \cup {Footer}
    BY <2>1, <2>3, <1>1, LinkFacts DEF OnLevel, Levels
  <2>7. ASSUME NEW n \in on \ {key}
        PROVE  new[n] = IF Succ(i)[n] = key THEN forward[key][i] ELSE Succ(i)[n]
    <3>1. new[n] = forward'[n][i]
      BY <2>4, <2>5
    <3>2. n \in (Live \cup {Header}) \ {key} /\ i \in DOMAIN forward[n] \ {MAX_LEVEL}
          /\ Succ(i)[n] = forward[n][i]
      BY <2>6
    <3>3. forward'[n][i] = IF forward[n][i] = key THEN forward[key][i] ELSE forward[n][i]
      BY <3>2, <1>2
    <3> QED BY <3>1, <3>2, <3>3
  <2>8. CASE key \in on
    <3>1. Succ(i)[key] = forward[key][i]
      BY <2>6, <2>8
    <3>2. Chain(on \ {key}, new, Ranks)
      BY <2>3, <2>7, <2>8, <3>1, ChainWithout
    <3> QED BY <3>2, <2>1, <2>2, <2>4, <2>5
  <2>9. CASE key \notin on
    <3>1. \A n \in on : new[n] = Succ(i)[n]
      BY <2>6, <2>7, <2>9, <1>3
    <3>2. Chain(on, new, Ranks) /\ on \ {key} = on
      BY <2>3, <2>9, <3>1 DEF Chain
    <3> QED BY <3>2, <2>1, <2>2, <2>4, <2>5
  <2> QED BY <2>8, <2>9
<1>9. ASSUME NEW n \in Live'
      PROVE  /\ nodeLevel(n)' = nodeLevel(n) /\ nodeLevel(n) \in 1 .. level
             /\ \A i \in Levels : n \in OnLevel(i)' <=> i <= nodeLevel(n)
  <2>1. n \in Live /\ n # key
    BY <1>5
  <2>2. nodeLevel(n)' = nodeLevel(n)
    BY <2>1, <1>2 DEF nodeLevel
  <2>3. nodeLevel(n) \in 1 .. level
    BY <2>1, <1>1, <1>3, HeightFacts DEF LevelIsHighest
  <2>4. \A i \in Levels : n \in OnLevel(i)' <=> n \in OnLevel(i)
    BY <2>1, <1>8
  <2> QED BY <2>1, <2>2, <2>3, <2>4, <1>1, HeightFacts
<1>10. ASSUME NEW i \in Levels
       PROVE  Header \in OnLevel(i)'
              /\ (forward'[Header][i] # Footer => forward'[Header][i] \in Live' /\ forward'[Header][i] \in OnLevel(i)')
  <2>1. Header \in OnLevel(i)'
    BY <1>1, <1>3, <1>8, NodeFacts
  <2>2. /\ Succ(i)'[Header] = forward'[Header][i]
        /\ Succ(i)'[Header] \in OnLevel(i)' \cup {Footer}
        /\ Ranks[Succ(i)'[Header]] < Ranks[Header]
    BY <2>1, <1>8 DEF Chain
  <2>3. forward'[Header][i] # Header
    BY <2>2, <1>1, NodeFacts
  <2>4. OnLevel(i)' \subseteq Live' \cup {Header}
    BY <1>1, <1>5, <1>8, NodeFacts
  <2> QED BY <2>1, <2>2, <2>3, <2>4
<1> DEFINE inUse == {i \in 1 .. level : forward'[Header][i] # Footer}
<1>11. ASSUME NEW n \in Live' PROVE nodeLevel(n) \in inUse
  <2>1. nodeLevel(n) \in 1 .. level /\ nodeLevel(n) \in Levels
    BY <1>3, <1>9 DEF Levels
  <2>0. PICK i : i = nodeLevel(n)
    OBVIOUS
  <2>2. n \in OnLevel(i)' /\ Header \in OnLevel(i)' /\ Ranks[n] < Ranks[Header]
    <3>1. i <= nodeLevel(n) /\ i \in Levels
      BY <2>0, <2>1
    <3>2. n \in Live
      BY <1>5
    <3> QED BY <3>1, <3>2, <1>1, <1>9, <1>10, NodeFacts
  <2>3. Chain(OnLevel(i)', Succ(i)', Ranks) /\ Succ(i)'[Header] = forward'[Header][i]
    BY <2>0, <2>1, <2>2, <1>8
  <2>4. Succ(i)'[Header] \in OnLevel(i)'
    BY <2>2, <2>3, BehindNext
  <2>5. Footer \notin OnLevel(i)'
    BY <2>0, <2>1, <1>1, <1>8, NodeFacts
  <2> QED BY <2>0, <2>1, <2>3, <2>4, <2>5
<1>12. level' = IF inUse = {} THEN 0 ELSE CHOOSE i \in inUse : \A j \in inUse : j <= i
  BY <1>4 DEF Shrunk
<1>13. inUse # {} => level' \in inUse /\ \A j \in inUse : j <= level'
  <2> SUFFICES ASSUME inUse # {} PROVE \E i \in inUse : \A j \in inUse : j <= i
    BY <1>12
  <2> DEFINE R == {level - i : i \in inUse}
  <2>1. R \in SUBSET Nat /\ R # {}
    BY <1>3
  <2>2. PICK b \in R : \A c \in R : b <= c
    BY <2>1, Smallest
  <2>3. PICK i \in inUse : b = level - i
    BY <2>2
  <2>4. ASSUME NEW j \in inUse PROVE j <= i
    <3>1. level - j \in R
      OBVIOUS
    <3>2. b <= level - j
      BY <3>1, <2>2
    <3> QED BY <3>2, <2>3, <1>3
  <2> QED BY <2>4
<1>14. level' \in 0 .. level
  BY <1>3, <1>12, <1>13
<1>15. LevelIsHighest'
  <2>1. \A n \in Live' : nodeLevel(n)' <= level'
    BY <1>9, <1>11, <1>13
  <2>2. ASSUME level' > 0 PROVE \E n \in Live' : nodeLevel(n)' = level'
    <3>1. level' \in inUse /\ level' \in Levels
      BY SMTT(30), <2>2, <1>3, <1>12, <1>13, <1>14 DEF Levels
    <3>2. PICK i : i = level'
      OBVIOUS
    <3>3. PICK n : n = forward'[Header][i]
      OBVIOUS
    <3>4. n \in Live' /\ n \in OnLevel(i)'
      BY <3>1, <3>2, <3>3, <1>10
    <3>5. i <= nodeLevel(n) /\ nodeLevel(n)' = nodeLevel(n) /\ nodeLevel(n) \in Nat
      BY <3>1, <3>2, <3>4, <1>9
    <3>6. nodeLevel(n)' <= i
      BY <3>2, <3>4, <2>1
    <3> QED BY <3>1, <3>2, <3>4, <3>5, <3>6, <1>3
  <2>3. level' < MAX_LEVEL
    BY <1>3, <1>14
  <2> QED BY <2>1, <2>2, <2>3 DEF LevelIsHighest
<1>16. TypeOK'
  <2>1. Live' \subseteq Keys /\ \A n \in DOMAIN value' : value'[n] \in Values \cup {0}
    BY <1>1, <1>4, <1>5 DEF TypeOK
  <2>2. DOMAIN forward' = Live' \cup {Header}
    BY <1>2, <1>3, <1>5
  <2>3. ASSUME NEW n \in DOMAIN forward', NEW i \in DOMAIN forward'[n] \ {MAX_LEVEL}
        PROVE  forward'[n][i] \in Live' \cup {Footer}
    <3>1. n \in (Live \cup {Header}) \ {key} /\ i \in DOMAIN forward[n] \ {MAX_LEVEL}
      BY <2>3, <1>2
    <3>2. i \in Levels /\ n \in OnLevel(i)
      <4>1. CASE n = Header
        BY <4>1, <3>1, <1>1, <1>3 DEF Shape, OnLevel, Levels
      <4>2. CASE n \in Live
        BY <4>2, <3>1, <1>1, <1>3 DEF Shape, OnLevel, Levels
      <4> QED BY <4>1, <4>2, <3>1
    <3>3. forward[n][i] \in Live \cup {Footer} /\ forward[n][i] \in OnLevel(i) \cup {Footer}
      BY <3>2, <1>1, LinkFacts
    <3>4. CASE forward[n][i] # key
      BY <3>1, <3>3, <3>4, <1>2, <1>5
    <3>5. CASE forward[n][i] = key
      <4>1. key \in OnLevel(i)
        BY <3>3, <3>5, <1>3
      <4>2. /\ forward[key][i] \in Live \cup {Footer} /\ Ranks[forward[key][i]] < Ranks[key]
            /\ Ranks[key] \in Nat
        BY <3>2, <4>1, <1>1, <1>2, LinkFacts, NodeFacts
      <4>3. forward[key][i] # key
        BY <4>2
      <4> QED BY <3>1, <3>5, <4>2, <4>3, <1>2, <1>5
    <3> QED BY <3>4, <3>5
  <2>4. level' \in 0 .. MAX_LEVEL - 1
    BY <1>3, <1>14
  <2>5. /\ broken' \in BOOLEAN /\ isForward' \in BOOLEAN
        /\ cursor' \in Keys \cup {NoNode}
        /\ visited' \in Seq(Keys) /\ stable' \subseteq Keys
    BY <1>1, <1>4 DEF TypeOK
  <2> QED BY <2>1, <2>2, <2>3, <2>4, <2>5 DEF TypeOK
<1>17. LevelsSorted'
  <2>1. Chains'
    BY <1>6, <1>8 DEF Chains, Chain, Ranked
  <2>2. (TypeOK /\ Shape => (LevelsSorted <=> Chains))'
    BY SortedIsChains, PTL
  <2> QED BY <2>1, <2>2, <1>7, <1>16
<1>18. CountsNodes'
  <2>1. Cardinality(Live') = Cardinality(Live) - 1 /\ Cardinality(Live) \in Nat
    BY <1>1, <1>2, <1>5, FS_RemoveElement, FS_CardinalityType DEF Shape
  <2> QED BY <2>1, <1>1, <1>4 DEF CountsNodes
<1> QED BY <1>2, <1>5, <1>7, <1>15, <1>16, <1>17, <1>18 DEF ListInv

-----------------------------------------------------------------------------
(* The client: Step() leads to the first of the keys behind the cursor.      *)
LEMMA StepIs ==
    ASSUME TypeOK, Shape, Chains, NEW n \in Live \cup {Header}
    PROVE  /\ Step(n) = NoNode => \A k \in Live : ~Before(n, k)
           /\ Step(n) # NoNode => /\ Step(n) \in Live /\ Before(n, Step(n))
                                  /\ \A k \in Live : Before(n, k) =>
                                        k = Step(n) \/ Ahead(Step(n), k)
<1> DEFINE to == forward[n][0]
<1>1. /\ n \in OnLevel(0) /\ OnLevel(0) = Live \cup {Header} /\ 0 \in Levels
      /\ Chain(OnLevel(0), Succ(0), Ranks)
  BY NodeFacts DEF Chains
<1>2. to \in Live \cup {Footer} /\ Ranks[to] < Ranks[n] /\ Succ(0)[n] = to
  BY <1>1, LinkFacts
<1>3. Step(n) = IF to = Footer THEN NoNode ELSE to
  BY DEF Step
<1> HIDE DEF to
<1>4. ASSUME NEW k \in Live, Before(n, k)
      PROVE  to \in Live /\ (k = to \/ Ahead(to, k))
  <2>1. k \in OnLevel(0) /\ Ranks[k] < Ranks[n]
    BY <1>1, <1>4, Orders
  <2>2. to \in OnLevel(0) /\ (k = to \/ Ranks[k] < Ranks[to])
    BY <1>1, <1>2, <2>1, BehindNext
  <2>3. to \in Live
    BY <1>1, <1>2, <2>2, NodeFacts
  <2> QED BY <2>2, <2>3, NodeFacts, RankFacts
<1>5. to \in Live => to # NoNode /\ to # Footer /\ Before(n, to)
  BY <1>2, NodeFacts, Orders
<1>6. NoNode # Footer /\ Footer \notin Live
  BY NodeFacts
<1> QED BY <1>2, <1>3, <1>4, <1>5, <1>6

LEMMA AheadOrder ==
    ASSUME isForward \in BOOLEAN, NEW a \in Keys, NEW b \in Keys, NEW c \in Keys,
           Ahead(a, b), Ahead(b, c)
    PROVE  Ahead(a, c)
BY KeyFacts DEF Ahead

LEMMA ClientStays ==
    ASSUME TypeOK, ClientInv, UNCHANGED <<isForward, cursor, visited>>,
           stable' \subseteq stable, stable' \subseteq Live'
    PROVE  ClientInv'
BY DEF ClientInv, IterationSound, Ahead

LEMMA BeginSees ==
    ASSUME ListInv, Chains, begin
    PROVE  ClientInv' /\ TypeOK'
<1>1. TypeOK /\ Shape
  BY DEF ListInv
<1>2. /\ cursor' = Step(Header)
      /\ visited' = IF Step(Header) = NoNode THEN <<>> ELSE <<Step(Header)>>
      /\ stable' = Live /\ Live' = Live
      /\ UNCHANGED <<isForward, forward, value, level, nodeCount, broken>>
  BY DEF begin, list, Live
<1>3. \A k \in Live : Before(Header, k)
  BY DEF Before
<1>4. /\ Step(Header) = NoNode => Live = {}
      /\ Step(Header) # NoNode => /\ Step(Header) \in Live
                                  /\ \A k \in Live : k = Step(Header) \/ Ahead(Step(Header), k)
  BY <1>1, <1>3, StepIs
<1>5. Live \subseteq Keys /\ isForward \in BOOLEAN
  BY <1>1 DEF TypeOK
<1>6. PICK n : n = Step(Header)
  OBVIOUS
<1>7. CASE n = NoNode
  <2>1. cursor' = NoNode /\ visited' = <<>> /\ stable' = {}
    BY <1>2, <1>4, <1>6, <1>7
  <2>2. TypeOK'
    BY <2>1, <1>1, <1>2 DEF TypeOK
  <2>3. Len(visited') = 0
    BY <2>1
  <2> QED BY <2>1, <2>2, <2>3 DEF ClientInv, IterationSound
<1>8. CASE n # NoNode
  <2>1. cursor' = n /\ visited' = <<n>> /\ stable' = Live /\ n \in Live
        /\ \A k \in Live : k = n \/ Ahead(n, k)
    BY <1>2, <1>4, <1>6, <1>8
  <2>2. TypeOK'
    <3>1. visited' \in Seq(Keys) /\ cursor' \in Keys \cup {NoNode} /\ stable' \subseteq Keys
      BY <2>1, <1>5
    <3> QED BY <3>1, <1>1, <1>2 DEF TypeOK
  <2>3. Len(visited') = 1 /\ visited'[1] = n
    BY <2>1
  <2>4. ASSUME NEW k \in stable'
        PROVE  \/ \E i \in 1 .. Len(visited') : visited'[i] = k
               \/ Ahead(n, k)
    <3>1. 1 \in 1 .. Len(visited')
      BY <2>3
    <3> QED BY <2>1, <2>3, <3>1
  <2>5. \A i, j \in 1 .. Len(visited') : ~(i < j)
    BY <2>3
  <2>6. n \in Keys
    BY <2>1, <1>5
  <2>7. IterationSound'
    BY <2>1, <2>4, <2>5, <2>6, <1>2 DEF IterationSound, Ahead
  <2> QED BY <2>1, <2>2, <2>3, <2>7, <1>2 DEF ClientInv
<1> QED BY <1>7, <1>8

LEMMA NextSees ==
    ASSUME ListInv, Chains, ClientInv, next
    PROVE  ClientInv' /\ TypeOK'
<1>1. TypeOK /\ Shape
  BY DEF ListInv
<1>2. /\ cursor \in Live /\ cursor' = Step(cursor)
      /\ visited' = IF Step(cursor) = NoNode THEN visited ELSE Append(visited, Step(cursor))
      /\ stable' = stable /\ Live' = Live
      /\ UNCHANGED <<isForward, forward, value, level, nodeCount, broken>>
  BY DEF next, list, Live
<1>3. /\ cursor \in Keys /\ cursor # Header /\ cursor # NoNode /\ isForward \in BOOLEAN
      /\ Live \subseteq Keys /\ visited \in Seq(Keys) /\ stable \subseteq Live
      /\ Len(visited) \in Nat /\ Len(visited) > 0 /\ visited[Len(visited)] = cursor
      /\ \A i \in 1 .. Len(visited) : visited[i] \in Keys
  <2>1. cursor \in Keys /\ cursor # Header /\ cursor # NoNode
    BY <1>1, <1>2, NodeFacts
  <2>2. visited \in Seq(Keys) /\ isForward \in BOOLEAN /\ Live \subseteq Keys
    BY <1>1 DEF TypeOK
  <2> QED BY <2>1, <2>2 DEF ClientInv
<1>4. \A k \in Live : Before(cursor, k) <=> Ahead(cursor, k)
  BY <1>1, <1>3, NodeFacts DEF Before
<1>5. PICK n : n = Step(cursor)
  OBVIOUS
<1>6. /\ n = NoNode => \A k \in Live : ~Ahead(cursor, k)
      /\ n # NoNode => /\ n \in Live /\ Ahead(cursor, n)
                       /\ \A k \in Live : Ahead(cursor, k) => k = n \/ Ahead(n, k)
  BY <1>1, <1>2, <1>4, <1>5, StepIs
<1>7. /\ \A i, j \in 1 .. Len(visited) : i < j => Ahead(visited[i], visited[j])
      /\ \A k \in stable : \/ \E i \in 1 .. Len(visited) : visited[i] = k
                           \/ Ahead(cursor, k)
  BY DEF ClientInv, IterationSound
<1>8. CASE n = NoNode
  <2>1. cursor' = NoNode /\ visited' = visited
    BY <1>2, <1>5, <1>8
  <2>2. TypeOK'
    BY <2>1, <1>1, <1>2 DEF TypeOK
  <2>3. \A k \in stable : \E i \in 1 .. Len(visited) : visited[i] = k
    BY <1>3, <1>6, <1>7, <1>8
  <2> QED BY <2>1, <2>2, <2>3, <1>2, <1>3, <1>7 DEF ClientInv, IterationSound, Ahead
<1>9. CASE n # NoNode
  <2>1. cursor' = n /\ visited' = Append(visited, n) /\ n \in Live /\ n \in Keys
    BY <1>2, <1>3, <1>5, <1>6, <1>9
  <2>2. /\ visited' \in Seq(Keys) /\ Len(visited') = Len(visited) + 1
        /\ visited'[Len(visited) + 1] = n
        /\ \A i \in 1 .. Len(visited) : visited'[i] = visited[i]
    BY <2>1, <1>3
  <2>3. TypeOK'
    BY <2>1, <2>2, <1>1, <1>2 DEF TypeOK
  <2>4. ASSUME NEW i \in 1 .. Len(visited) PROVE Ahead(visited[i], n)
    <3>1. Ahead(cursor, n)
      BY <1>6, <1>9
    <3>2. CASE i = Len(visited)
      BY <3>1, <3>2, <1>3
    <3>3. CASE i # Len(visited)
      <4>1. Ahead(visited[i], cursor)
        BY <3>3, <1>3, <1>7
      <4> QED BY <3>1, <4>1, <2>1, <1>3, AheadOrder
    <3> QED BY <3>2, <3>3
  <2>5. ASSUME NEW i \in 1 .. Len(visited'), NEW j \in 1 .. Len(visited'), i < j
        PROVE  Ahead(visited'[i], visited'[j])
    <3>1. i \in 1 .. Len(visited) /\ visited'[i] = visited[i]
      BY <2>2, <2>5, <1>3
    <3>2. CASE j = Len(visited) + 1
      BY <3>1, <3>2, <2>2, <2>4
    <3>3. CASE j # Len(visited) + 1
      <4>1. j \in 1 .. Len(visited) /\ visited'[j] = visited[j]
        BY <3>3, <2>2, <1>3
      <4> QED BY <3>1, <4>1, <2>5, <1>7
    <3> QED BY <3>2, <3>3
  <2>6. ASSUME NEW k \in stable
        PROVE  \/ \E i \in 1 .. Len(visited') : visited'[i] = k
               \/ Ahead(n, k)
    <3>1. CASE \E i \in 1 .. Len(visited) : visited[i] = k
      <4>1. PICK i \in 1 .. Len(visited) : visited[i] = k
        BY <3>1
      <4>2. i \in 1 .. Len(visited') /\ visited'[i] = k
        BY <4>1, <2>2, <1>3
      <4> QED BY <4>2
    <3>2. CASE Ahead(cursor, k)
      <4>1. k = n \/ Ahead(n, k)
        BY <3>2, <1>3, <1>6, <1>9
      <4>2. Len(visited) + 1 \in 1 .. Len(visited')
        BY <2>2, <1>3
      <4> QED BY <4>1, <4>2, <2>2
    <3> QED BY <3>1, <3>2, <1>7
  <2>7. cursor' # NoNode /\ cursor' \in Keys /\ Len(visited') > 0 /\ visited'[Len(visited')] = cursor'
    BY <2>1, <2>2, <1>3, <1>9
  <2>8. IterationSound'
    BY <2>1, <2>5, <2>6, <1>2 DEF IterationSound, Ahead
  <2> QED BY <2>3, <2>7, <2>8, <1>2, <1>3 DEF ClientInv
<1> QED BY <1>8, <1>9

-----------------------------------------------------------------------------
LEMMA Initially == Init => IInv
<1> SUFFICES ASSUME Init PROVE IInv
  OBVIOUS
<1>1. /\ isForward \in BOOLEAN /\ DOMAIN forward = {Header} /\ DOMAIN value = {Footer}
      /\ DOMAIN forward[Header] = 0 .. MAX_LEVEL
      /\ \A i \in 0 .. MAX_LEVEL - 1 : forward[Header][i] = Footer
      /\ value[Footer] = 0 /\ level = 0 /\ nodeCount = 0 /\ broken = FALSE
      /\ cursor = NoNode /\ visited = <<>> /\ stable = {}
  <2>1. forward[Header] = [i \in 0 .. MAX_LEVEL |-> IF i < MAX_LEVEL THEN Footer ELSE NoNode]
        /\ DOMAIN forward = {Header}
    BY DEF Init
  <2>2. DOMAIN value = {Footer} /\ value[Footer] = 0
    BY DEF Init
  <2> QED BY <2>1, <2>2 DEF Init
<1>2. Live = {}
  BY <1>1 DEF Live
<1>3. TypeOK
  <2>1. \A n \in DOMAIN forward : \A i \in DOMAIN forward[n] \ {MAX_LEVEL} :
            forward[n][i] \in Live \cup {Footer}
    BY <1>1
  <2>2. visited \in Seq(Keys) /\ level \in 0 .. MAX_LEVEL - 1
    BY <1>1
  <2> QED BY <1>1, <1>2, <2>1, <2>2 DEF TypeOK
<1>4. Shape
  BY <1>1, <1>2, FS_EmptySet DEF Shape
<1>5. LevelsSorted
  BY <1>1, <1>2 DEF LevelsSorted
<1>6. LevelIsHighest
  BY <1>1, <1>2 DEF LevelIsHighest
<1>7. CountsNodes
  BY <1>1, <1>2, FS_EmptySet DEF CountsNodes
<1>8. ClientInv
  BY <1>1 DEF ClientInv, IterationSound
<1> QED BY <1>3, <1>4, <1>5, <1>6, <1>7, <1>8 DEF IInv, ListInv

LEMMA NodesStay ==
    ASSUME ListInv, ClientInv, UNCHANGED <<isForward, forward, level, nodeCount, client>>,
           DOMAIN value' = DOMAIN value, broken' \in BOOLEAN,
           \A n \in DOMAIN value : value'[n] \in Values \cup {0}
    PROVE  IInv'
<1>1. /\ Live' = Live /\ Shape' /\ LevelsSorted' /\ LevelIsHighest' /\ CountsNodes'
  BY SameNodes
<1>2. TypeOK'
  BY <1>1 DEF ListInv, TypeOK, client
<1>3. ClientInv'
  BY <1>1, ClientStays DEF ListInv, ClientInv, client
<1> QED BY <1>1, <1>2, <1>3 DEF IInv, ListInv

(* A list that is broken: the client's view stays what it was.                *)
LEMMA ViewStays ==
    ASSUME ClientInv, broken', UNCHANGED <<isForward, client>>, Live' = Live
    PROVE  IInv'
<1>1. ClientInv'
  BY DEF ClientInv, IterationSound, Ahead, client
<1> QED BY <1>1 DEF IInv

LEMMA Inductive == IInv /\ [Next]_vars => IInv'
<1>a. CASE IInv /\ UNCHANGED vars /\ broken
  <2>1. broken' /\ UNCHANGED <<isForward, client>> /\ Live' = Live
    BY <1>a DEF vars, list, Live
  <2> QED BY <1>a, <2>1, ViewStays DEF IInv
<1>b. IInv /\ Next => ~broken
  BY DEF Next
<1> SUFFICES ASSUME IInv, [Next]_vars, ~broken PROVE IInv'
  BY <1>a, <1>b
<1>1. ListInv /\ ClientInv /\ TypeOK /\ Shape /\ Chains
  BY SortedIsChains DEF IInv, ListInv
<1>2. broken \in BOOLEAN /\ \A n \in DOMAIN value : value[n] \in Values \cup {0}
  BY <1>1 DEF TypeOK
<1>3. ASSUME NEW key \in Keys, search(key) PROVE IInv'
  BY <1>1, <1>2, <1>3, NodesStay DEF search, list
<1>4. ASSUME NEW key \in Keys, removeMissing(key) PROVE IInv'
  BY <1>1, <1>2, <1>4, NodesStay DEF removeMissing, list
<1>5. ASSUME NEW key \in Keys, removeFooter(key) PROVE IInv'
  <2>1. broken' = TRUE /\ UNCHANGED <<isForward, client>>
        /\ value' = [k \in DOMAIN value \ {Footer} |-> value[k]]
    BY <1>5 DEF removeFooter
  <2>2. Live' = Live
    BY <2>1 DEF Live
  <2> QED BY <1>1, <2>1, <2>2, ViewStays
<1>6. ASSUME NEW key \in Keys, NEW v \in Values, NEW u \in BOOLEAN, insertExisting(key, v, u)
      PROVE  IInv'
  <2>1. DOMAIN value' = DOMAIN value /\ \A n \in DOMAIN value : value'[n] \in Values \cup {0}
    <3>1. value' = NewValue(key, v, u)
      BY <1>6 DEF insertExisting
    <3> QED BY <1>2, <3>1 DEF NewValue
  <2>2. UNCHANGED <<isForward, forward, level, nodeCount, broken, client>>
    BY <1>6 DEF insertExisting
  <2> QED BY <1>1, <1>2, <2>1, <2>2, NodesStay
<1>7. ASSUME NEW key \in Keys, NEW v \in Values, insertNew(key, v) PROVE IInv'
  <2>1. ListInv' /\ Live' = Live \cup {key}
    BY <1>1, <1>7, InsertKeepsList
  <2>2. UNCHANGED <<isForward, cursor, visited, stable>>
    BY <1>7 DEF insertNew, client
  <2>3. ClientInv'
    BY <1>1, <2>1, <2>2, ClientStays DEF ClientInv
  <2> QED BY <2>1, <2>3 DEF IInv
<1>8. ASSUME NEW key \in Keys, remove(key) PROVE IInv'
  <2>1. ListInv' /\ Live' = Live \ {key}
    BY <1>1, <1>8, RemoveKeepsList
  <2>2. UNCHANGED <<isForward, cursor, visited>> /\ stable' = stable \ {key}
    BY <1>8 DEF remove
  <2>3. stable' \subseteq stable /\ stable' \subseteq Live'
    BY <1>1, <2>1, <2>2 DEF ClientInv
  <2>4. ClientInv'
    BY <1>1, <2>2, <2>3, ClientStays
  <2> QED BY <2>1, <2>4 DEF IInv
<1>9. ASSUME NEW n \in 0 .. Cardinality(Keys), topN(n) PROVE IInv'
  BY <1>1, <1>2, <1>9, NodesStay DEF topN, list
<1>10. ASSUME begin \/ next \/ abandon, TypeOK', ClientInv' PROVE IInv'
  <2>1. UNCHANGED <<isForward, forward, value, level, nodeCount>>
    BY <1>10 DEF begin, next, abandon, list
  <2> QED BY <1>1, <1>10, <2>1, SameNodes DEF IInv, ListInv
<1>11. CASE begin
  BY <1>1, <1>10, <1>11, BeginSees
<1>12. CASE next
  BY <1>1, <1>10, <1>12, NextSees
<1>13. CASE abandon
  <2>1. cursor' = NoNode /\ visited' = <<>> /\ stable' = {} /\ Live' = Live
        /\ UNCHANGED <<isForward, forward, value, level, nodeCount, broken>>
    BY <1>13 DEF abandon, list, Live
  <2>2. TypeOK'
    <3>1. visited' \in Seq(Keys)
      BY <2>1
    <3> QED BY <2>1, <3>1, <1>1 DEF TypeOK
  <2>3. ClientInv'
    BY <2>1 DEF ClientInv, IterationSound
  <2> QED BY <2>2, <2>3, <1>10, <1>13
<1>14. CASE UNCHANGED vars
  BY <1>1, <1>2, <1>14, NodesStay DEF vars, list
<1> QED
  BY <1>3, <1>4, <1>5, <1>6, <1>7, <1>8, <1>9, <1>11, <1>12, <1>13, <1>14 DEF Next

LEMMA Invariance == Spec => []IInv
<1>1. Init => IInv
  BY Initially
<1>2. IInv /\ [Next]_vars => IInv'
  BY Inductive
<1> QED BY <1>1, <1>2, PTL DEF Spec

(* A client that walks the list while it changes misses no key that stayed    *)
(* and meets none twice (skiplist.hpp:52-67).                                *)
THEOREM IterationIsSound == Spec => []IterationSound
BY Invariance, PTL DEF IInv, ClientInv

-----------------------------------------------------------------------------
(* What freeing the list deletes, from each node on.                         *)
Nodes == DOMAIN forward \cup {Footer}
Rest(n) == {m \in Nodes : Ranks[m] <= Ranks[n]}

Frees(f, T) == f = [m \in T |-> IF m = Footer THEN <<m>> ELSE <<m>> \o f[forward[m][0]]]
Freed == CHOOSE f : f = [m \in Nodes |-> IF m = Footer THEN <<m>> ELSE <<m>> \o f[forward[m][0]]]

(* s lists the nodes from n on, each once and in order.                      *)
Lists(s, n) ==
    /\ s \in Seq(Nodes) /\ Len(s) > 0 /\ s[1] = n
    /\ {s[i] : i \in 1 .. Len(s)} = Rest(n)
    /\ \A i, j \in 1 .. Len(s) : i < j => Ranks[s[i]] > Ranks[s[j]]
    /\ IsFiniteSet(Rest(n)) /\ Cardinality(Rest(n)) = Len(s)

LEMMA RestFacts ==
    ASSUME TypeOK, Shape, Chains
    PROVE  /\ Nodes = Live \cup {Header, Footer}
           /\ Rest(Footer) = {Footer} /\ Rest(Header) = Nodes
           /\ \A n \in Nodes : /\ n \in Rest(n) /\ Footer \in Rest(n) /\ Ranks[n] \in Nat
                               /\ n # Footer => /\ forward[n][0] \in Nodes
                                                /\ n \notin Rest(forward[n][0])
                                                /\ Rest(n) = Rest(forward[n][0]) \cup {n}
                                                /\ Ranks[forward[n][0]] < Ranks[n]
<1>1. Nodes = Live \cup {Header, Footer}
  BY NodeFacts DEF Nodes
<1>2. \A n \in Nodes : Ranks[n] \in Nat /\ Ranks[n] <= Ranks[Header] /\ Ranks[Footer] <= Ranks[n]
  BY <1>1, NodeFacts
<1>3. Rest(Footer) = {Footer}
  <2>1. \A m \in Nodes : Ranks[m] <= Ranks[Footer] => m = Footer
    BY <1>1, NodeFacts
  <2> QED BY <1>1, <1>2, <2>1 DEF Rest
<1>4. Rest(Header) = Nodes
  BY <1>2 DEF Rest
<1>5. ASSUME NEW n \in Nodes
      PROVE  n \in Rest(n) /\ Footer \in Rest(n) /\ Ranks[n] \in Nat
  BY <1>1, <1>2 DEF Rest
<1>6. ASSUME NEW n \in Nodes, n # Footer
      PROVE  /\ forward[n][0] \in Nodes
             /\ n \notin Rest(forward[n][0])
             /\ Rest(n) = Rest(forward[n][0]) \cup {n}
             /\ Ranks[forward[n][0]] < Ranks[n]
  <2>1. n \in OnLevel(0) /\ 0 \in Levels /\ Chain(OnLevel(0), Succ(0), Ranks)
        /\ OnLevel(0) = Live \cup {Header}
    BY <1>1, <1>6, NodeFacts DEF Chains
  <2>2. PICK to : to = forward[n][0]
    OBVIOUS
  <2>3. to \in Nodes /\ Ranks[to] < Ranks[n] /\ Ranks[to] \in Nat /\ Succ(0)[n] = to
    BY <1>1, <2>1, <2>2, LinkFacts
  <2>4. n \notin Rest(to)
    BY <2>3, <1>2 DEF Rest
  <2>5. ASSUME NEW m \in Nodes, Ranks[m] <= Ranks[n], m # n PROVE Ranks[m] <= Ranks[to]
    <3>1. CASE m = Footer
      BY <3>1, <2>3, <1>2
    <3>2. CASE m # Footer
      <4>1. m \in OnLevel(0)
        BY <3>2, <1>1, <2>1
      <4>2. Ranks[m] # Ranks[n]
        BY <2>5, <1>1, Orders
      <4>3. Ranks[m] < Ranks[n]
        BY <4>2, <2>5, <1>2
      <4>4. m = to \/ Ranks[m] < Ranks[to]
        BY <4>1, <4>3, <2>1, <2>3, BehindNext
      <4> QED BY <4>4, <1>2, <2>3
    <3> QED BY <3>1, <3>2
  <2>6. Rest(n) = Rest(to) \cup {n}
    <3>1. ASSUME NEW m \in Nodes, Ranks[m] <= Ranks[to] PROVE Ranks[m] <= Ranks[n]
      BY <3>1, <2>3, <1>2
    <3>2. Ranks[n] <= Ranks[n]
      BY <1>2
    <3> QED BY <3>1, <3>2, <2>5 DEF Rest
  <2> QED BY <2>2, <2>3, <2>4, <2>6
<1> QED BY <1>1, <1>3, <1>4, <1>5, <1>6

(* Descent along level 0: what holds at the footer and, if it holds at the    *)
(* next node, at a node, holds at all nodes.                                 *)
LEMMA AlongList ==
    ASSUME TypeOK, Shape, Chains, NEW S, Footer \in S,
           \A n \in Nodes \ {Footer} : forward[n][0] \in S => n \in S
    PROVE  Nodes \subseteq S
<1>1. /\ Chain(OnLevel(0), Succ(0), Ranks) /\ 0 \in Levels
      /\ OnLevel(0) = Live \cup {Header} /\ Nodes = Live \cup {Header, Footer}
      /\ Footer \notin OnLevel(0)
  BY NodeFacts, RestFacts DEF Chains
<1>2. \A n \in OnLevel(0) : Succ(0)[n] \in S => n \in S
  BY <1>1, LinkFacts
<1>3. OnLevel(0) \subseteq S
  BY <1>1, <1>2, AlongChain
<1> QED BY <1>1, <1>3

LEMMA SomeFrees ==
    ASSUME TypeOK, Shape, Chains
    PROVE  \E f : Frees(f, Nodes)
<1> DEFINE S == {n \in Nodes : \E f : Frees(f, Rest(n))}
<1>1. Footer \in S
  <2>1. Frees([m \in {Footer} |-> <<m>>], {Footer})
    BY DEF Frees
  <2> QED BY <2>1, RestFacts DEF Nodes
<1>2. ASSUME NEW n \in Nodes \ {Footer}, forward[n][0] \in S PROVE n \in S
  <2>1. PICK g : Frees(g, Rest(forward[n][0]))
    BY <1>2
  <2>2. PICK to : to = forward[n][0]
    OBVIOUS
  <2>3. /\ to \in Nodes /\ n \notin Rest(to) /\ Rest(n) = Rest(to) \cup {n} /\ n # Footer
        /\ to \in Rest(to)
    BY <2>2, RestFacts
  <2>4. \A m \in Rest(to) : g[m] = IF m = Footer THEN <<m>> ELSE <<m>> \o g[forward[m][0]]
    <3>1. g = [m \in Rest(to) |-> IF m = Footer THEN <<m>> ELSE <<m>> \o g[forward[m][0]]]
      BY <2>1, <2>2 DEF Frees
    <3> QED BY <3>1
  <2>5. \A m \in Rest(to) : m # Footer => forward[m][0] \in Rest(to)
    <3> SUFFICES ASSUME NEW m \in Rest(to), m # Footer PROVE forward[m][0] \in Rest(to)
      OBVIOUS
    <3>1. m \in Nodes /\ Ranks[m] <= Ranks[to]
      BY DEF Rest
    <3>2. forward[m][0] \in Nodes /\ Ranks[forward[m][0]] < Ranks[m]
      BY <3>1, RestFacts
    <3>3. Ranks[m] \in Nat /\ Ranks[to] \in Nat /\ Ranks[forward[m][0]] \in Nat
      BY <3>1, <3>2, <2>3, RestFacts
    <3> QED BY <3>1, <3>2, <3>3 DEF Rest
  <2> DEFINE f == [m \in Rest(n) |-> IF m = n THEN <<n>> \o g[to] ELSE g[m]]
  <2>6. ASSUME NEW m \in Rest(n)
        PROVE  f[m] = IF m = Footer THEN <<m>> ELSE <<m>> \o f[forward[m][0]]
    <3>1. CASE m = n
      <4>1. f[to] = g[to]
        BY <2>3
      <4> QED BY <3>1, <4>1, <2>2, <2>3
    <3>2. CASE m # n
      <4>1. m \in Rest(to) /\ f[m] = g[m]
        BY <3>2, <2>3
      <4>2. m # Footer => f[forward[m][0]] = g[forward[m][0]]
        BY <4>1, <2>3, <2>5
      <4> QED BY <4>1, <4>2, <2>4
    <3> QED BY SMTT(30), <3>1, <3>2
  <2>7. Frees(f, Rest(n))
    BY <2>6 DEF Frees
  <2> QED BY <2>7
<1> HIDE DEF S
<1>3. Nodes \subseteq S
  BY <1>1, <1>2, AlongList
<1>4. Header \in S
  BY <1>3, RestFacts
<1> QED BY <1>4, RestFacts DEF S

LEMMA FreedLists ==
    ASSUME TypeOK, Shape, Chains
    PROVE  /\ \A n \in Nodes : Lists(Freed[n], n)
           /\ \A n \in Nodes : Freed[n] = IF n = Footer THEN <<n>> ELSE <<n>> \o Freed[forward[n][0]]
<1>1. Frees(Freed, Nodes)
  BY SomeFrees DEF Frees, Freed
<1>2. \A n \in Nodes : Freed[n] = IF n = Footer THEN <<n>> ELSE <<n>> \o Freed[forward[n][0]]
  <2>1. PICK f : f = Freed
    OBVIOUS
  <2>2. f = [m \in Nodes |-> IF m = Footer THEN <<m>> ELSE <<m>> \o f[forward[m][0]]]
    BY <1>1, <2>1 DEF Frees
  <2>3. \A n \in Nodes : f[n] = IF n = Footer THEN <<n>> ELSE <<n>> \o f[forward[n][0]]
    BY <2>2
  <2> QED BY <2>1, <2>3
<1> DEFINE S == {n \in Nodes : Lists(Freed[n], n)}
<1>3. Footer \in S
  <2>1. Freed[Footer] = <<Footer>> /\ Footer \in Nodes /\ Rest(Footer) = {Footer}
    BY <1>2, RestFacts DEF Nodes
  <2>2. IsFiniteSet({Footer}) /\ Cardinality({Footer}) = 1
    BY FS_Singleton
  <2> DEFINE s == Freed[Footer]
  <2>3. s \in Seq(Nodes) /\ Len(s) = 1 /\ s[1] = Footer
    BY <2>1
  <2> HIDE DEF s
  <2>4. {s[i] : i \in 1 .. Len(s)} = {Footer}
    BY <2>3
  <2>5. \A i, j \in 1 .. Len(s) : ~(i < j)
    BY <2>3
  <2>6. Lists(s, Footer)
    BY <2>1, <2>2, <2>3, <2>4, <2>5 DEF Lists
  <2> QED BY <2>1, <2>6 DEF s
<1>4. ASSUME NEW n \in Nodes \ {Footer}, forward[n][0] \in S PROVE n \in S
  <2>1. PICK to : to = forward[n][0]
    OBVIOUS
  <2>2. PICK t : t = Freed[to]
    OBVIOUS
  <2>3. PICK s : s = Freed[n]
    OBVIOUS
  <2>4. /\ to \in Nodes /\ n \notin Rest(to) /\ Rest(n) = Rest(to) \cup {n}
        /\ Ranks[to] < Ranks[n] /\ Ranks[n] \in Nat
    BY <2>1, RestFacts
  <2>5. /\ t \in Seq(Nodes) /\ Len(t) > 0 /\ t[1] = to
        /\ {t[i] : i \in 1 .. Len(t)} = Rest(to)
        /\ \A i, j \in 1 .. Len(t) : i < j => Ranks[t[i]] > Ranks[t[j]]
        /\ IsFiniteSet(Rest(to)) /\ Cardinality(Rest(to)) = Len(t)
    BY <1>4, <2>1, <2>2 DEF Lists
  <2>6. s = <<n>> \o t
    BY <1>2, <2>1, <2>2, <2>3
  <2>7. /\ s \in Seq(Nodes) /\ Len(s) = Len(t) + 1 /\ Len(t) \in Nat /\ s[1] = n
        /\ \A i \in 1 .. Len(t) : s[i + 1] = t[i]
    BY <2>5, <2>6
  <2>8. {s[i] : i \in 1 .. Len(s)} = Rest(n)
    <3>1. ASSUME NEW i \in 1 .. Len(s) PROVE s[i] \in Rest(n)
      <4>1. CASE i = 1
        BY <4>1, <2>4, <2>7
      <4>2. CASE i # 1
        <5>1. i - 1 \in 1 .. Len(t) /\ (i - 1) + 1 = i
          BY <4>2, <2>7
        <5>2. s[i] = t[i - 1]
          BY <5>1, <2>7
        <5> QED BY <5>1, <5>2, <2>4, <2>5
      <4> QED BY <4>1, <4>2
    <3>2. ASSUME NEW m \in Rest(n) PROVE \E i \in 1 .. Len(s) : s[i] = m
      <4>1. CASE m = n
        <5>1. 1 \in 1 .. Len(s)
          BY <2>7
        <5> QED BY <4>1, <5>1, <2>7
      <4>2. CASE m # n
        <5>1. m \in {t[i] : i \in 1 .. Len(t)}
          BY <4>2, <2>4, <2>5
        <5>2. PICK i \in 1 .. Len(t) : t[i] = m
          BY <5>1
        <5>3. i + 1 \in 1 .. Len(s) /\ s[i + 1] = m
          BY <5>2, <2>7
        <5> QED BY <5>3
      <4> QED BY <4>1, <4>2
    <3> QED BY <3>1, <3>2
  <2>9. ASSUME NEW i \in 1 .. Len(s), NEW j \in 1 .. Len(s), i < j
        PROVE  Ranks[s[i]] > Ranks[s[j]]
    <3>1. j - 1 \in 1 .. Len(t) /\ (j - 1) + 1 = j
      BY <2>7, <2>9
    <3>2. s[j] = t[j - 1] /\ t[j - 1] \in Rest(to)
      BY <3>1, <2>5, <2>7
    <3>3. CASE i = 1
      <4>1. Ranks[s[j]] <= Ranks[to] /\ Ranks[s[j]] \in Nat /\ Ranks[to] \in Nat
        BY <3>2, <2>4, RestFacts DEF Rest
      <4> QED BY <3>3, <4>1, <2>4, <2>7
    <3>4. CASE i # 1
      <4>1. i - 1 \in 1 .. Len(t) /\ (i - 1) + 1 = i /\ i - 1 < j - 1
        BY <3>4, <2>7, <2>9
      <4>2. s[i] = t[i - 1]
        BY <4>1, <2>7
      <4> QED BY <3>1, <3>2, <4>1, <4>2, <2>5
    <3> QED BY <3>3, <3>4
  <2>10. IsFiniteSet(Rest(n)) /\ Cardinality(Rest(n)) = Len(t) + 1
    BY <2>4, <2>5, FS_AddElement
  <2>11. Lists(s, n)
    BY <2>7, <2>8, <2>9, <2>10 DEF Lists
  <2> QED BY <2>3, <2>11
<1> HIDE DEF S
<1>5. Nodes \subseteq S
  BY <1>3, <1>4, AlongList
<1>6. \A n \in Nodes : Lists(Freed[n], n)
  BY <1>5 DEF S
<1> QED BY Zenon, <1>2, <1>6

LEMMA FreesAll == IInv => ListOK
<1> SUFFICES ASSUME IInv, ~broken PROVE ListOK
  BY DEF ListOK
<1>1. TypeOK /\ Shape /\ LevelsSorted /\ LevelIsHighest /\ CountsNodes /\ Chains
  BY SortedIsChains DEF IInv, ListInv
<1>2. Deleted = Freed[Header]
  BY DEF Deleted, Freed, Nodes
<1>3. Lists(Deleted, Header) /\ Rest(Header) = Live \cup {Header, Footer}
  BY <1>1, <1>2, FreedLists, RestFacts
<1>4. DOMAIN Deleted = 1 .. Len(Deleted)
  BY <1>3 DEF Lists
<1>5. {Deleted[i] : i \in DOMAIN Deleted} = Live \cup {Header, Footer}
  BY <1>3, <1>4 DEF Lists
<1>6. Cardinality(Live \cup {Header, Footer}) = Cardinality(Live) + 2
  <2>1. IsFiniteSet(Live) /\ Header \notin Live /\ Footer \notin Live \cup {Header}
    BY <1>1, NodeFacts DEF Shape
  <2>2. IsFiniteSet(Live \cup {Header}) /\ Cardinality(Live \cup {Header}) = Cardinality(Live) + 1
    BY <2>1, FS_AddElement
  <2>3. Cardinality((Live \cup {Header}) \cup {Footer}) = Cardinality(Live) + 1 + 1
    BY <2>1, <2>2, FS_AddElement
  <2>4. (Live \cup {Header}) \cup {Footer} = Live \cup {Header, Footer} /\ Cardinality(Live) \in Nat
    BY <2>1, FS_CardinalityType
  <2> QED BY <2>3, <2>4
<1>7. FreesEachOnce
  BY <1>3, <1>5, <1>6 DEF FreesEachOnce, Lists
<1> QED BY <1>1, <1>7 DEF ListOK

(* Between two calls every level is the sorted list of exactly the nodes that *)
(* reach it, level and nodeCount agree with it, and freeing the list deletes  *)
(* each node once (skiplist.hpp:133-142, :199-204, :303-308), as long as      *)
(* remove() has not been called with the footer's key, which breaks the list. *)
THEOREM ListStaysOK == Spec => []ListOK
BY Invariance, FreesAll, PTL

-----------------------------------------------------------------------------
(* topN() reads off the first nodes of what freeing the list would delete.   *)
Least(a, b) == IF a < b THEN a ELSE b
Quote(m) == <<m, value[m]>>
Top(m, left) == [j \in 1 .. Least(left, Len(Freed[m]) - 2) |-> Quote(Freed[m][j + 1])]

LEMMA FreedEnds ==
    ASSUME TypeOK, Shape, Chains, NEW m \in Nodes
    PROVE  /\ Len(Freed[m]) \in Nat /\ Len(Freed[m]) >= 1 /\ Freed[m][1] = m
           /\ \A j \in 1 .. Len(Freed[m]) : Freed[m][j] \in Nodes
           /\ m = Footer => Len(Freed[m]) = 1
           /\ m # Footer => /\ forward[m][0] \in Nodes
                            /\ Len(Freed[m]) = 1 + Len(Freed[forward[m][0]])
                            /\ Len(Freed[m]) >= 2
                            /\ \A j \in 1 .. Len(Freed[forward[m][0]]) :
                                  Freed[m][j + 1] = Freed[forward[m][0]][j]
<1>1. /\ Freed[m] \in Seq(Nodes) /\ Len(Freed[m]) > 0 /\ Freed[m][1] = m
      /\ Freed[m] = IF m = Footer THEN <<m>> ELSE <<m>> \o Freed[forward[m][0]]
  BY FreedLists DEF Lists
<1>2. CASE m = Footer
  BY <1>1, <1>2
<1>3. CASE m # Footer
  <2>1. PICK t : t = Freed[forward[m][0]]
    OBVIOUS
  <2>2. forward[m][0] \in Nodes
    BY <1>3, RestFacts
  <2>3. t \in Seq(Nodes) /\ Len(t) > 0
    BY <2>1, <2>2, FreedLists DEF Lists
  <2>4. Freed[m] = <<m>> \o t
    BY <1>1, <1>3, <2>1
  <2>5. /\ Len(Freed[m]) = 1 + Len(t) /\ Len(t) \in Nat
        /\ \A j \in 1 .. Len(t) : Freed[m][j + 1] = t[j]
    BY <2>3, <2>4
  <2> QED BY <1>1, <1>3, <2>1, <2>2, <2>3, <2>5
<1> QED BY <1>2, <1>3

LEMMA TopStep ==
    ASSUME TypeOK, Shape, Chains, NEW m \in DOMAIN forward, NEW left \in Nat
    PROVE  Top(m, left) = IF forward[m][0] = Footer \/ left = 0 THEN <<>>
                          ELSE <<Quote(forward[m][0])>> \o Top(forward[m][0], left - 1)
<1>1. PICK to : to = forward[m][0]
  OBVIOUS
<1>2. PICK s : s = Freed[m]
  OBVIOUS
<1>3. PICK t : t = Freed[to]
  OBVIOUS
<1>4. m \in Nodes /\ m # Footer /\ to \in Nodes
  BY <1>1, NodeFacts, RestFacts DEF Nodes
<1>5. /\ Len(s) \in Nat /\ Len(t) \in Nat /\ Len(t) >= 1 /\ Len(s) = 1 + Len(t)
      /\ t[1] = to /\ \A j \in 1 .. Len(t) : t[j] \in Nodes /\ s[j + 1] = t[j]
      /\ to = Footer => Len(t) = 1
      /\ to # Footer => Len(t) >= 2
  BY <1>1, <1>2, <1>3, <1>4, FreedEnds
<1>6. Top(m, left) = [j \in 1 .. Least(left, Len(s) - 2) |-> Quote(s[j + 1])]
  BY <1>2 DEF Top
<1>7. Top(to, left - 1) = [j \in 1 .. Least(left - 1, Len(t) - 2) |-> Quote(t[j + 1])]
  BY <1>3 DEF Top
<1>8. CASE to = Footer \/ left = 0
  <2>1. Least(left, Len(s) - 2) = 0
    BY <1>5, <1>8 DEF Least
  <2> QED BY <1>1, <1>6, <1>8, <2>1
<1>9. CASE ~(to = Footer \/ left = 0)
  <2>1. PICK k : k = Least(left, Len(s) - 2)
    OBVIOUS
  <2>2. k \in Nat /\ k >= 1 /\ k <= Len(t) - 1 /\ Least(left - 1, Len(t) - 2) = k - 1
    BY <1>5, <1>9, <2>1 DEF Least
  <2> DEFINE Q == {Quote(x) : x \in Nodes}
             a == [j \in 1 .. k |-> Quote(s[j + 1])]
             b == [j \in 1 .. k - 1 |-> Quote(t[j + 1])]
  <2>3. ASSUME NEW j \in 1 .. k PROVE s[j + 1] = t[j] /\ t[j] \in Nodes
    BY <2>2, <1>5
  <2>4. ASSUME NEW j \in 1 .. k - 1 PROVE t[j + 1] \in Nodes
    BY <2>2, <1>5
  <2>5. a \in Seq(Q) /\ Len(a) = k
    <3>1. a \in [1 .. k -> Q]
      BY <2>3
    <3> QED BY SMTT(30), <3>1, <2>2
  <2>6. b \in Seq(Q) /\ Len(b) = k - 1
    <3>1. b \in [1 .. k - 1 -> Q]
      BY <2>4
    <3> QED BY SMTT(30), <3>1, <2>2
  <2>7. \A j \in 1 .. k : a[j] = Quote(t[j])
    BY <2>3
  <2>8. \A j \in 1 .. k - 1 : b[j] = Quote(t[j + 1])
    OBVIOUS
  <2>9. Quote(to) \in Q
    BY <1>4
  <2>10. Top(m, left) = a /\ Top(to, left - 1) = b
    BY <1>6, <1>7, <2>1, <2>2
  <2> HIDE DEF a, b, Q
  <2> DEFINE c == <<Quote(to)>> \o b
  <2>11. /\ c \in Seq(Q) /\ Len(c) = k /\ c[1] = Quote(to)
         /\ \A j \in 2 .. k : c[j] = b[j - 1]
    BY <2>2, <2>6, <2>9
  <2>12. \A j \in 1 .. k : a[j] = c[j]
    <3> SUFFICES ASSUME NEW j \in 1 .. k PROVE a[j] = c[j]
      OBVIOUS
    <3>1. CASE j = 1
      BY <3>1, <2>7, <2>11, <1>5
    <3>2. CASE j # 1
      <4>1. j \in 2 .. k /\ j - 1 \in 1 .. k - 1 /\ (j - 1) + 1 = j
        BY <3>2, <2>2
      <4> HIDE DEF c
      <4>2. b[j - 1] = Quote(t[j])
        BY <4>1, <2>8
      <4> QED BY <4>1, <4>2, <2>7, <2>11
    <3> QED BY <3>1, <3>2
  <2> HIDE DEF c
  <2>13. a = c
    BY <2>5, <2>11, <2>12, SeqEqual
  <2> QED BY <2>10, <2>13, <1>1, <1>9 DEF c
<1> QED BY <1>8, <1>9

LEMMA TopNIs ==
    ASSUME TypeOK, Shape, Chains, NEW n \in Nat
    PROVE  TopN(n) = Top(Header, n)
<1> DEFINE Step1(g, m, left) == IF forward[m][0] = Footer \/ left = 0 THEN <<>>
                                ELSE <<<<forward[m][0], value[forward[m][0]]>>>>
                                        \o g[left - 1][forward[m][0]]
           f == [left \in 0 .. n |-> [m \in DOMAIN forward |-> Top(m, left)]]
           from == CHOOSE g : g = [left \in 0 .. n |-> [m \in DOMAIN forward |->
                      IF forward[m][0] = Footer \/ left = 0 THEN <<>>
                      ELSE <<<<forward[m][0], value[forward[m][0]]>>>>
                              \o g[left - 1][forward[m][0]]]]
<1>1. TopN(n) = from[n][Header]
  BY DEF TopN
<1>2. \A m \in DOMAIN forward : forward[m][0] # Footer => forward[m][0] \in DOMAIN forward
  BY RestFacts, NodeFacts DEF Nodes
<1>3. ASSUME NEW left \in 0 .. n, NEW m \in DOMAIN forward
      PROVE  Top(m, left) = Step1(f, m, left)
  <2>1. CASE forward[m][0] = Footer \/ left = 0
    <3>1. left \in Nat
      OBVIOUS
    <3> HIDE DEF f
    <3>2. Top(m, left) = <<>>
      BY <2>1, <3>1, TopStep
    <3> QED BY <2>1, <3>2
  <2>2. CASE ~(forward[m][0] = Footer \/ left = 0)
    <3>1. left - 1 \in 0 .. n /\ forward[m][0] \in DOMAIN forward /\ left \in Nat
      BY <2>2, <1>2
    <3>2. f[left - 1][forward[m][0]] = Top(forward[m][0], left - 1)
      BY <3>1
    <3> HIDE DEF f
    <3>3. Top(m, left) = <<Quote(forward[m][0])>> \o Top(forward[m][0], left - 1)
      BY <2>2, <3>1, TopStep
    <3> QED BY <2>2, <3>2, <3>3 DEF Quote
  <2> QED BY <2>1, <2>2
<1>4. f = [left \in 0 .. n |-> [m \in DOMAIN forward |-> Step1(f, m, left)]]
  BY <1>3
<1> HIDE DEF f
<1>5. from = [left \in 0 .. n |-> [m \in DOMAIN forward |-> Step1(from, m, left)]]
  BY <1>4
<1>6. ASSUME NEW left \in 0 .. n, NEW m \in DOMAIN forward
      PROVE  from[left][m] = Step1(from, m, left)
  <2> HIDE DEF from, Step1
  <2>1. from[left] = [k \in DOMAIN forward |-> Step1(from, k, left)]
    BY <1>5
  <2> QED BY <2>1
<1> HIDE DEF from
<1> SUFFICES ASSUME NEW l0 \in 0 .. n, NEW m0 \in DOMAIN forward, from[l0][m0] # Top(m0, l0)
             PROVE  FALSE
  BY <1>1, NodeFacts
<1> DEFINE R == {left \in 0 .. n : \E m \in DOMAIN forward : from[left][m] # Top(m, left)}
<1>7. R \in SUBSET Nat /\ R # {}
  OBVIOUS
<1>8. PICK left \in R : \A c \in R : left <= c
  BY <1>7, Smallest
<1>9. PICK m \in DOMAIN forward : from[left][m] # Top(m, left) /\ left \in 0 .. n
  BY <1>8
<1>10. CASE forward[m][0] = Footer \/ left = 0
  <2>1. left \in Nat
    BY <1>9
  <2>2. Top(m, left) = <<>>
    BY <1>10, <2>1, TopStep
  <2>3. from[left][m] = <<>>
    BY <1>6, <1>9, <1>10
  <2> QED BY <2>2, <2>3, <1>9
<1>11. CASE ~(forward[m][0] = Footer \/ left = 0)
  <2>1. left \in Nat /\ left - 1 \in 0 .. n /\ forward[m][0] \in DOMAIN forward
    BY <1>2, <1>9, <1>11
  <2>2. left - 1 \notin R
    BY <2>1, <1>8
  <2>3. from[left - 1][forward[m][0]] = Top(forward[m][0], left - 1)
    BY <2>1, <2>2
  <2>4. Top(m, left) = <<Quote(forward[m][0])>> \o Top(forward[m][0], left - 1)
    BY <2>1, <1>11, TopStep
  <2>5. from[left][m] = <<Quote(forward[m][0])>> \o from[left - 1][forward[m][0]]
    BY <1>6, <1>9, <1>11 DEF Quote
  <2> QED BY <2>3, <2>4, <2>5, <1>9
<1> QED BY <1>10, <1>11

-----------------------------------------------------------------------------
(* There is one way to sort a set by rank.                                   *)
Falling(a, n, rank) == \A i, j \in 1 .. n : i < j => rank[a[i]] > rank[a[j]]
Graded(S, rank) == \A x \in S : rank[x] \in Nat
Sizes(n, S) == IsFiniteSet(S) /\ n = Cardinality(S)
Sorts(a, S, n, rank) == a \in [1 .. n -> S] /\ Falling(a, n, rank)

LEMMA FallingIsOnto ==
    ASSUME NEW S, NEW n, Sizes(n, S), NEW rank, Graded(S, rank),
           NEW a, Sorts(a, S, n, rank)
    PROVE  \A x \in S : \E i \in 1 .. n : a[i] = x
<1>0. IsFiniteSet(S) /\ n = Cardinality(S)
  BY DEF Sizes
<1>1. n \in Nat
  BY <1>0, FS_CardinalityType
<1>2. IsFiniteSet(1 .. n) /\ Cardinality(1 .. n) = Cardinality(S)
  BY <1>0, <1>1, FS_Interval
<1>3. a \in [1 .. n -> S] /\ Falling(a, n, rank)
  BY DEF Sorts
<1>4. ASSUME NEW i \in 1 .. n, NEW j \in 1 .. n, a[i] = a[j] PROVE i = j
  <2>1. rank[a[i]] \in Nat /\ rank[a[i]] = rank[a[j]]
    BY <1>3, <1>4 DEF Graded
  <2>2. ~(i < j) /\ ~(j < i)
    BY <2>1, <1>3 DEF Falling
  <2> QED BY <2>2, <1>1
<1>5. a \in Injection(1 .. n, S)
  BY <1>3, <1>4 DEF Injection, IsInjective
<1>6. a \in Surjection(1 .. n, S)
  BY <1>0, <1>2, <1>5, FS_Injection
<1> QED BY <1>6 DEF Surjection

LEMMA FallingOnce ==
    ASSUME NEW S, NEW n, Sizes(n, S), NEW rank, Graded(S, rank),
           NEW a, Sorts(a, S, n, rank), NEW b, Sorts(b, S, n, rank)
    PROVE  a = b
<1>1. n \in Nat
  BY FS_CardinalityType DEF Sizes
<1>2. \A x \in S : \E i \in 1 .. n : a[i] = x
  BY FallingIsOnto
<1>3. \A x \in S : \E i \in 1 .. n : b[i] = x
  BY FallingIsOnto
<1>0. /\ a \in [1 .. n -> S] /\ b \in [1 .. n -> S]
      /\ Falling(a, n, rank) /\ Falling(b, n, rank)
  BY DEF Sorts
<1>11. a = [i \in 1 .. n |-> a[i]] /\ b = [i \in 1 .. n |-> b[i]]
  BY Zenon, <1>0
<1>12. (\A i \in 1 .. n : a[i] = b[i]) => a = b
  BY Zenon, <1>11
<1> SUFFICES ASSUME NEW i0 \in 1 .. n, a[i0] # b[i0] PROVE FALSE
  BY <1>12
<1> DEFINE R == {i \in 1 .. n : a[i] # b[i]}
<1>4. R \in SUBSET Nat /\ R # {}
  BY <1>1, <1>3
<1>5. PICK i \in R : \A c \in R : i <= c
  BY <1>4, Smallest
<1>6. /\ n \in Nat /\ i \in 1 .. n /\ a[i] # b[i] /\ a[i] \in S /\ b[i] \in S
      /\ \A j \in 1 .. n : j < i => a[j] = b[j]
  <2>1. \A j \in 1 .. n : j < i => j \notin R
    BY <1>1, <1>3, <1>4, <1>5
  <2> QED BY <2>1, <1>0, <1>1, <1>5
<1>7. ASSUME NEW c, NEW d, c \in [1 .. n -> S], d \in [1 .. n -> S],
             Falling(c, n, rank), Falling(d, n, rank),
             c[i] # d[i], \A j \in 1 .. n : j < i => c[j] = d[j],
             \A x \in S : \E j \in 1 .. n : d[j] = x
      PROVE  rank[c[i]] < rank[d[i]]
  <2>1. PICK j \in 1 .. n : d[j] = c[i]
    BY <1>6, <1>7
  <2>2. rank[c[i]] \in Nat /\ rank[d[i]] \in Nat
    BY <1>6, <1>7 DEF Graded
  <2>3. j # i
    BY <2>1, <1>7
  <2>4. ~(j < i)
    <3> SUFFICES ASSUME j < i PROVE FALSE
      OBVIOUS
    <3>1. c[j] = c[i] /\ rank[c[j]] > rank[c[i]]
      BY <2>1, <1>6, <1>7 DEF Falling
    <3> QED BY <3>1, <2>2
  <2>5. i < j
    BY <2>1, <2>3, <2>4, <1>6
  <2> QED BY <2>1, <2>2, <2>5, <1>6, <1>7 DEF Falling
<1>8. rank[a[i]] < rank[b[i]]
  BY <1>0, <1>2, <1>3, <1>6, <1>7
<1>9. rank[b[i]] < rank[a[i]]
  BY <1>0, <1>2, <1>3, <1>6, <1>7
<1>10. rank[a[i]] \in Nat /\ rank[b[i]] \in Nat
  BY <1>6 DEF Graded
<1> QED BY <1>8, <1>9, <1>10

-----------------------------------------------------------------------------
(* The book: its prices, best first, are the nodes between the sentinels.    *)
LEMMA SameCardinality ==
    ASSUME NEW S
    PROVE  Book!Cardinality(S) = Cardinality(S)
BY DEF Cardinality, Book!Cardinality

LEMMA ListedIs ==
    ASSUME TypeOK, Shape, Chains
    PROVE  /\ Len(Book!Listed) = Cardinality(Live) /\ Cardinality(Live) \in Nat
           /\ Len(Freed[Header]) - 2 = Cardinality(Live)
           /\ \A i \in 1 .. Cardinality(Live) : /\ Book!Listed[i] = Freed[Header][i + 1]
                                                /\ Freed[Header][i + 1] \in Live
<1>1. PICK n : n = Cardinality(Live)
  OBVIOUS
<1>2. PICK s : s = Freed[Header]
  OBVIOUS
<1>3. IsFiniteSet(Live) /\ n \in Nat
  BY <1>1, FS_CardinalityType DEF Shape
<1>4. /\ Nodes = Live \cup {Header, Footer} /\ Header \in Nodes /\ Rest(Header) = Nodes
  BY RestFacts
<1>5. /\ s \in Seq(Nodes) /\ Len(s) > 0 /\ s[1] = Header
      /\ \A i, j \in 1 .. Len(s) : i < j => Ranks[s[i]] > Ranks[s[j]]
      /\ Cardinality(Nodes) = Len(s)
  BY <1>2, <1>4, FreedLists DEF Lists
<1>6. Len(s) = n + 2
  <2>1. Header \notin Live /\ Footer \notin Live \cup {Header}
    BY NodeFacts
  <2>2. IsFiniteSet(Live \cup {Header}) /\ Cardinality(Live \cup {Header}) = n + 1
    BY <2>1, <1>1, <1>3, FS_AddElement
  <2>3. Cardinality((Live \cup {Header}) \cup {Footer}) = n + 1 + 1
    BY <2>1, <2>2, FS_AddElement
  <2>4. (Live \cup {Header}) \cup {Footer} = Nodes
    BY <1>4
  <2>5. Cardinality(Nodes) = n + 1 + 1
    BY <2>3, <2>4
  <2> QED BY <2>5, <1>3, <1>5
<1>7. \A i \in 1 .. n + 2 : s[i] \in Nodes /\ Ranks[s[i]] \in Nat
  <2>1. \A i \in 1 .. n + 2 : s[i] \in Nodes
    BY <1>5, <1>6
  <2> QED BY <2>1, RestFacts
<1>8. ASSUME NEW i \in 1 .. n PROVE s[i + 1] \in Live
  <2>1. i + 1 \in 1 .. n + 2 /\ 1 \in 1 .. n + 2 /\ n + 2 \in 1 .. n + 2 /\ 1 < i + 1 /\ i + 1 < n + 2
    BY <1>3
  <2>2. Ranks[s[1]] > Ranks[s[i + 1]] /\ Ranks[s[i + 1]] > Ranks[s[n + 2]]
    BY <2>1, <1>5, <1>6
  <2>3. Ranks[s[1]] \in Nat /\ Ranks[s[i + 1]] \in Nat /\ Ranks[s[n + 2]] \in Nat /\ s[i + 1] \in Nodes
    BY <2>1, <1>7
  <2>4. s[i + 1] # Header /\ s[i + 1] # Footer
    BY <2>2, <2>3, <1>5, NodeFacts
  <2> QED BY <2>3, <2>4, <1>4
<1> DEFINE e == [i \in 1 .. n |-> s[i + 1]]
<1>9. e \in [1 .. n -> Live] /\ Falling(e, n, Ranks)
  <2>1. e \in [1 .. n -> Live]
    BY <1>8
  <2>2. ASSUME NEW i \in 1 .. n, NEW j \in 1 .. n, i < j
        PROVE  Ranks[e[i]] > Ranks[e[j]]
    <3>1. i + 1 \in 1 .. n + 2 /\ j + 1 \in 1 .. n + 2 /\ i + 1 < j + 1
      BY <2>2, <1>3
    <3>2. Ranks[s[i + 1]] > Ranks[s[j + 1]]
      BY <3>1, <1>5, <1>6
    <3> QED BY <3>2
  <2> QED BY <2>1, <2>2 DEF Falling
<1>10. \A x, y \in Live : Book!Ahead(x, y) <=> Ranks[x] > Ranks[y]
  BY NodeFacts, RankFacts DEF Book!Ahead, Ahead
<1> HIDE DEF e
<1>11. \A i, j \in DOMAIN e : i < j => Book!Ahead(e[i], e[j])
  BY <1>9, <1>10 DEF Falling
<1> DEFINE listed == Book!Listed
<1>12. listed = CHOOSE prices \in [1 .. n -> Live] :
                    \A i, j \in DOMAIN prices : i < j => Book!Ahead(prices[i], prices[j])
  <2>1. DOMAIN [k \in Live |-> value[k]] = Live
    OBVIOUS
  <2>2. Book!Cardinality(Live) = n
    BY <1>1, SameCardinality
  <2> QED BY <2>1, <2>2 DEF Book!Listed
<1> HIDE DEF listed
<1>13. listed \in [1 .. n -> Live]
       /\ \A i, j \in DOMAIN listed : i < j => Book!Ahead(listed[i], listed[j])
  BY <1>9, <1>11, <1>12
<1>14. Falling(listed, n, Ranks)
  BY <1>10, <1>13 DEF Falling
<1>15. listed = e
  <2>1. Graded(Live, Ranks)
    BY NodeFacts DEF Graded
  <2> QED BY <2>1, <1>1, <1>3, <1>9, <1>13, <1>14, FallingOnce DEF Sizes, Sorts
<1>16. Len(listed) = n
  BY <1>3, <1>13
<1>17. \A i \in 1 .. n : listed[i] = s[i + 1]
  BY <1>15 DEF e
<1> QED BY <1>1, <1>2, <1>3, <1>6, <1>8, <1>16, <1>17 DEF listed

LEMMA TopIsBest ==
    ASSUME TypeOK, Shape, Chains, NEW n \in Nat
    PROVE  TopN(n) = [i \in 1 .. (IF n < Len(Book!Listed) THEN n ELSE Len(Book!Listed)) |->
                         <<Book!Listed[i], [k \in Live |-> value[k]][Book!Listed[i]]>>]
<1>1. PICK c : c = Cardinality(Live)
  OBVIOUS
<1>2. PICK listed : listed = Book!Listed
  OBVIOUS
<1>3. /\ Len(listed) = c /\ c \in Nat /\ Len(Freed[Header]) - 2 = c
      /\ \A i \in 1 .. c : listed[i] = Freed[Header][i + 1] /\ listed[i] \in Live
  BY <1>1, <1>2, ListedIs
<1>4. PICK k : k = Least(n, c)
  OBVIOUS
<1>5. k = (IF n < Len(listed) THEN n ELSE Len(listed)) /\ k \in Nat /\ k <= c
  BY <1>3, <1>4 DEF Least
<1>6. TopN(n) = [i \in 1 .. k |-> Quote(Freed[Header][i + 1])]
  BY <1>3, <1>4, TopNIs DEF Top
<1>7. \A i \in 1 .. k : Quote(Freed[Header][i + 1])
                          = <<listed[i], [q \in Live |-> value[q]][listed[i]]>>
  BY <1>3, <1>5 DEF Quote
<1> QED BY <1>2, <1>5, <1>6, <1>7
-----------------------------------------------------------------------------
(* The list implements the order book, call by call.                         *)
Map == [k \in Live |-> value[k]]
BookStep == \/ AboutFooter(reply') /\ reply'.op = "remove"
            \/ AboutFooter(reply') /\ UNCHANGED Map
            \/ ~AboutFooter(reply') /\ (Book!Next \/ UNCHANGED Book!vars)

LEMMA BookStarts == Init => Book!Init
<1> SUFFICES ASSUME Init PROVE Book!Init
  OBVIOUS
<1>1. DOMAIN value = {Footer} /\ Live = {}
  BY DEF Init, Live
<1> QED BY <1>1 DEF Init, Book!Init

LEMMA SameMap ==
    ASSUME value' = value
    PROVE  Map' = Map
BY DEF Map, Live

LEMMA SearchStep ==
    ASSUME TypeOK, Shape, Chains, NEW key \in Keys, search(key)
    PROVE  BookStep
<1>1. Map' = Map /\ isForward' = isForward
  BY SameMap DEF search, list
<1>2. reply' = [op |-> "search", key |-> key,
                value |-> IF Lookup(key) = NoNode THEN 0 ELSE value[Lookup(key)]]
  BY DEF search
<1>3. CASE key = footerKey
  BY <1>1, <1>2, <1>3 DEF BookStep, AboutFooter
<1>4. CASE key # footerKey
  <2>1. PICK v : v = IF Lookup(key) = NoNode THEN 0 ELSE value[Lookup(key)]
    OBVIOUS
  <2>2. v = IF key \in Live THEN Map[key] ELSE 0
    <3>1. Found(key) <=> key \in Live
      BY <1>4, FoundIs
    <3>2. key \in Live => Candidate(key) = key /\ key # NoNode
      BY FoundIs, KeyFacts, NodeFacts
    <3> QED BY <2>1, <3>1, <3>2 DEF Lookup, Map
  <2>3. Book!Get(key)
    BY <1>1, <1>2, <2>1, <2>2 DEF Book!Get, Map
  <2>4. Book!Next
    BY <1>1, <2>3 DEF Book!Next
  <2>5. ~AboutFooter(reply')
    BY <1>2, <1>4 DEF AboutFooter
  <2> QED BY <2>4, <2>5 DEF BookStep
<1> QED BY <1>3, <1>4

(* The book with one price set. *)
With(key, v) == [x \in Live \cup {key} |-> IF x = key THEN v ELSE Map[x]]

LEMMA PutStep ==
    ASSUME NEW key \in Keys, NEW v \in Values, NEW u \in BOOLEAN, NEW ok \in BOOLEAN,
           isForward' = isForward, key # footerKey,
           reply' = [op |-> "insert", key |-> key, ok |-> ok],
           ok <=> key \notin Live \/ u,
           Map' = IF ok THEN With(key, v) ELSE Map
    PROVE  BookStep
<1>1. ~AboutFooter(reply')
  BY DEF AboutFooter
<1>2. DOMAIN Map = Live
  BY DEF Map
<1>3. (key \notin Live \/ u) = ok
  OBVIOUS
<1>4. Book!Put(key, v, u)
  BY <1>2, <1>3 DEF Book!Put, With, Map
<1>5. Book!Next
  BY <1>4 DEF Book!Next
<1> QED BY <1>1, <1>5 DEF BookStep

LEMMA OverwriteStep ==
    ASSUME TypeOK, Shape, Chains, NEW key \in Keys, NEW v \in Values, NEW u \in BOOLEAN,
           insertExisting(key, v, u)
    PROVE  BookStep
<1>1. isForward' = isForward /\ reply' = [op |-> "insert", key |-> key, ok |-> u]
  BY DEF insertExisting
<1>2. Found(key) /\ value' = IF u THEN [value EXCEPT ![Candidate(key)] = v] ELSE value
  BY DEF insertExisting, NewValue
<1>3. DOMAIN value' = DOMAIN value /\ Live' = Live
  BY <1>2 DEF Live
<1>4. CASE key = footerKey
  <2>1. Candidate(key) = Footer /\ Footer \notin Live
    BY <1>4, FoundIs, NodeFacts
  <2>2. \A k \in Live : value'[k] = value[k]
    BY <1>2, <2>1
  <2>3. Map' = Map
    BY <1>3, <2>2 DEF Map
  <2> QED BY <1>1, <1>4, <2>3 DEF BookStep, AboutFooter
<1>5. CASE key # footerKey
  <2>1. key \in Live /\ Candidate(key) = key /\ Live \subseteq DOMAIN value
    BY <1>2, <1>5, FoundIs, NodeFacts
  <2>2. CASE u
    <3>1. \A k \in Live : value'[k] = IF k = key THEN v ELSE value[k]
      BY <1>2, <2>1, <2>2
    <3>2. Map' = With(key, v)
      BY <1>3, <2>1, <3>1 DEF Map, With
    <3> QED BY <1>1, <1>5, <2>1, <2>2, <3>2, PutStep
  <2>3. CASE ~u
    <3>1. Map' = Map
      BY <1>2, <2>3, SameMap
    <3> QED BY <1>1, <1>5, <2>1, <2>3, <3>1, PutStep
  <2> QED BY <2>2, <2>3
<1> QED BY <1>4, <1>5

LEMMA EnterStep ==
    ASSUME TypeOK, Shape, Chains, NEW key \in Keys, NEW v \in Values, insertNew(key, v)
    PROVE  BookStep
<1>1. isForward' = isForward /\ reply' = [op |-> "insert", key |-> key, ok |-> TRUE]
  BY DEF insertNew
<1>2. ~Found(key) /\ value' = [k \in DOMAIN value \cup {key} |-> IF k = key THEN v ELSE value[k]]
  BY DEF insertNew
<1>3. key \notin Live /\ key # footerKey /\ key # Footer
  BY <1>2, FoundIs, KeyFacts
<1>4. Live' = Live \cup {key} /\ Live \subseteq DOMAIN value
  BY <1>2, <1>3 DEF Live
<1>5. \A k \in Live' : value'[k] = IF k = key THEN v ELSE Map[k]
  BY <1>2, <1>4 DEF Map
<1>6. Map' = With(key, v)
  BY <1>4, <1>5 DEF Map, With
<1> QED BY <1>1, <1>3, <1>6, PutStep

LEMMA TakeStep ==
    ASSUME NEW key \in Keys, NEW ok \in BOOLEAN,
           isForward' = isForward, key # footerKey,
           ok <=> key \in Live,
           reply' = [op |-> "remove", key |-> key, ok |-> ok,
                     value |-> IF ok THEN Map[key] ELSE 0],
           Map' = [x \in Live \ {key} |-> Map[x]]
    PROVE  BookStep
<1>1. ~AboutFooter(reply')
  BY DEF AboutFooter
<1>2. DOMAIN Map = Live
  BY DEF Map
<1>3. (key \in Live) = ok
  OBVIOUS
<1>4. Book!Take(key)
  BY <1>2, <1>3 DEF Book!Take, Map
<1>5. Book!Next
  BY <1>4 DEF Book!Next
<1> QED BY <1>1, <1>5 DEF BookStep

LEMMA RemoveStep ==
    ASSUME TypeOK, Shape, Chains, NEW key \in Keys, remove(key)
    PROVE  BookStep
<1>1. /\ isForward' = isForward
      /\ reply' = [op |-> "remove", key |-> key, ok |-> TRUE, value |-> value[key]]
  BY DEF remove
<1>2. /\ Found(key) /\ Candidate(key) # Footer
      /\ value' = [k \in DOMAIN value \ {key} |-> value[k]]
  BY DEF remove
<1>3. key \in Live /\ key # footerKey /\ value[key] = Map[key]
  BY <1>2, FoundIs DEF Map
<1>4. Live' = Live \ {key}
  BY <1>2 DEF Live
<1>5. \A k \in Live' : value'[k] = Map[k]
  BY <1>2, <1>4 DEF Map, Live
<1>6. Map' = [x \in Live \ {key} |-> Map[x]]
  BY <1>4, <1>5 DEF Map
<1> QED BY <1>1, <1>3, <1>6, TakeStep

LEMMA MissStep ==
    ASSUME TypeOK, Shape, Chains, NEW key \in Keys, removeMissing(key)
    PROVE  BookStep
<1>1. /\ isForward' = isForward /\ Map' = Map
      /\ reply' = [op |-> "remove", key |-> key, ok |-> FALSE, value |-> 0]
  BY SameMap DEF removeMissing, list
<1>2. key \notin Live /\ key # footerKey
  BY FoundIs DEF removeMissing
<1>3. Map' = [x \in Live \ {key} |-> Map[x]]
  <2>1. Live \ {key} = Live
    BY <1>2
  <2>2. Map = [x \in Live |-> Map[x]]
    BY DEF Map
  <2> QED BY <1>1, <2>1, <2>2
<1>4. PICK ok \in BOOLEAN : ok = FALSE
  OBVIOUS
<1>5. reply' = [op |-> "remove", key |-> key, ok |-> ok, value |-> IF ok THEN Map[key] ELSE 0]
  BY <1>1, <1>4
<1> QED BY <1>1, <1>2, <1>3, <1>4, <1>5, TakeStep

LEMMA FooterStep ==
    ASSUME TypeOK, Shape, Chains, NEW key \in Keys, removeFooter(key)
    PROVE  BookStep
<1>1. /\ Found(key) /\ Candidate(key) = Footer /\ isForward' = isForward
      /\ reply' = [op |-> "remove", key |-> key, ok |-> TRUE, value |-> value[Footer]]
  BY DEF removeFooter
<1>2. key = footerKey
  BY <1>1, FoundIs, KeyFacts
<1> QED BY <1>1, <1>2 DEF BookStep, AboutFooter, footerKey

LEMMA TopStays ==
    ASSUME TypeOK, Shape, Chains, NEW n \in 0 .. Cardinality(Keys), topN(n)
    PROVE  BookStep
<1>1. /\ isForward' = isForward /\ Map' = Map
      /\ reply' = [op |-> "topN", levels |-> TopN(n)]
  BY SameMap DEF topN, list
<1>2. ~AboutFooter(reply')
  BY <1>1 DEF AboutFooter
<1>3. TopN(n) = [i \in 1 .. (IF n < Len(Book!Listed) THEN n ELSE Len(Book!Listed)) |->
                    <<Book!Listed[i], [k \in Live |-> value[k]][Book!Listed[i]]>>]
  BY TopIsBest
<1>4. Book!Best(n)
  BY <1>1, <1>3 DEF Book!Best, Map
<1>5. n \in 0 .. Book!Cardinality(Keys)
  BY SameCardinality
<1>6. Book!Next
  BY <1>1, <1>4, <1>5 DEF Book!Next
<1> QED BY <1>2, <1>6 DEF BookStep

LEMMA BookKept == IInv /\ [Next]_vars => (BookStep \/ UNCHANGED vars)
<1> SUFFICES ASSUME IInv, Next, ~broken PROVE BookStep
  BY DEF Next
<1>1. TypeOK /\ Shape /\ Chains
  BY SortedIsChains DEF IInv, ListInv
<1>2. CASE \E key \in Keys : \/ search(key) \/ remove(key) \/ removeMissing(key)
                             \/ removeFooter(key)
  BY <1>1, <1>2, SearchStep, RemoveStep, MissStep, FooterStep
<1>3. CASE \E key \in Keys, v \in Values :
              insertNew(key, v) \/ \E u \in BOOLEAN : insertExisting(key, v, u)
  BY <1>1, <1>3, EnterStep, OverwriteStep
<1>4. CASE \E n \in 0 .. Cardinality(Keys) : topN(n)
  BY <1>1, <1>4, TopStays
<1>5. CASE begin \/ next \/ abandon
  <2>1. value' = value /\ isForward' = isForward /\ reply' = reply
    BY <1>5 DEF begin, next, abandon, list
  <2>2. Map' = Map
    BY <2>1, SameMap
  <2> QED BY <2>1, <2>2 DEF BookStep, Book!vars, Map
<1> QED BY <1>2, <1>3, <1>4, <1>5 DEF Next

(* The skip list is the order book: every reply is the map's, until remove()  *)
(* is called with the footer's own key, which breaks the list; the other      *)
(* calls with that key leave the listed prices alone (skiplist.hpp:144, :162, *)
(* :285).                                                                    *)
THEOREM RefinesOrderBook == Spec => ImplementsOrderBook
<1>1. Init => Book!Init
  BY BookStarts
<1>2. IInv /\ [Next]_vars =>
          [\/ AboutFooter(reply') /\ reply'.op = "remove"
           \/ AboutFooter(reply') /\ UNCHANGED [k \in Live |-> value[k]]
           \/ ~AboutFooter(reply') /\ (Book!Next \/ UNCHANGED Book!vars)]_vars
  BY BookKept DEF BookStep, Map
<1> QED BY <1>1, <1>2, Invariance, PTL DEF Spec, ImplementsOrderBook
=============================================================================
