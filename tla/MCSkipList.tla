----------------------------- MODULE MCSkipList -----------------------------
(* An order book whose prices come as texts: the keys of its calls are what  *)
(* the fixed point numbers, here with two decimals, make of them; and whose  *)
(* nodes are as high as the pseudo-random numbers make them.                *)
EXTENDS SkipList, Fixed12, Random

Number(int, frac) == [neg |-> FALSE, int |-> int, point |-> TRUE, frac |-> frac]

\* The price that ends the asks, and those of the calls: a cent, two cents in
\* two ways, and the last price with digits that are rounded.
TheOnly(S) == CHOOSE x \in S : S = {x}
LastPrice == TheOnly(Parsed(Number(<<0>>, <<0, 3>>)))
Prices == {Number(<<0>>, <<0, 1>>), Number(<<0>>, <<0, 2>>), Number(<<0, 0>>, <<0, 1, 5, 9>>), Number(<<0>>, <<0, 3, 4>>)}
ASSUME PricesAssumption == MaxPrice = LastPrice /\ Keys = {TheOnly(Parsed(text)) : text \in Prices}

\* The lines of the dump: prices and quantities as texts, best price first.
dumpAllNodes ==
    LET listed == TopN(Cardinality(Keys))
    IN  [i \in DOMAIN listed |-> [key |-> toString(listed[i][1]), value |-> toString(listed[i][2])]]

\* Numbers are read, printed and computed with as NumbersExact and ClassExact say,
\* and whoever reads the dump of a book gets that book, in its order, from texts
\* that fit into the buffer they are printed to (fixed12.cpp:24-28, :104-225,
\* fixed12.hpp:31-120, skiplist.hpp:213-233).
PricesExact ==
    /\ NumbersExact /\ ClassExact
    /\ ~broken =>
          /\ Len(dumpAllNodes) = Cardinality(Live) /\ \A n \in Live : Fits(n) /\ Fits(value[n])
          /\ \A i \in DOMAIN dumpAllNodes : \E n \in Live :
                /\ newSV(dumpAllNodes[i].key) = {n} /\ newSV(dumpAllNodes[i].value) = {value[n]}
                /\ \A j \in 1 .. i - 1 : \E m \in Live : Ahead(m, n) /\ newSV(dumpAllNodes[j].key) = {m}

getRandomLevel(seed) ==
    LET drawn == Uniform(seed, MAX_LEVEL) IN IF drawn = 0 THEN 1 ELSE drawn
\* Heights that are free choices in RandomLevels are those that some seed gives,
\* and from any seed the generator comes to all of them.  None is 0: the array
\* of forward pointers is made only for a node that is higher, and all that walk
\* the list read its first entry (skiplist.hpp:122-131, :327-333, random.h:14-49).
HeightsDrawn ==
    /\ SeedsCycle /\ RandomLevels = {getRandomLevel(seed) : seed \in 1 .. M - 1}
    /\ \A n \in Live : nodeLevel(n) \in RandomLevels \ {0}

Fractions == SeqOf({0, 4, 5, 9}, 4)
Texts == [neg : BOOLEAN, int : {<<0>>, <<7>>, <<1, 0>>}, point : {TRUE}, frac : Fractions]
=============================================================================
