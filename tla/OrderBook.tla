----------------------------- MODULE OrderBook -----------------------------
(***************************************************************************)
(* What the skip list promises its callers (libskiplist.cpp): one side of  *)
(* an order book, a map from prices to quantities that is read best price  *)
(* first.  isForward: the best price is the lowest one (the asks), else    *)
(* the highest one (the bids).                                             *)
(***************************************************************************)
EXTENDS Integers, FiniteSets, Sequences

CONSTANTS Keys, Values

VARIABLES isForward,
          book,     \* the map: a function whose domain is the listed prices
          reply     \* the last call and what it returned

vars == <<isForward, book, reply>>

(* Price a is listed before price b. *)
Ahead(a, b) == IF isForward THEN a < b ELSE a > b

(* The listed prices, best first. *)
Listed == CHOOSE prices \in [1 .. Cardinality(DOMAIN book) -> DOMAIN book] :
              \A i, j \in DOMAIN prices : i < j => Ahead(prices[i], prices[j])

Init == /\ isForward \in BOOLEAN
        /\ book = [k \in {} |-> 0]
        /\ reply = [op |-> "new"]

(* A listed price is overwritten only if the caller asks for it. *)
Put(k, v, updateIfExists) ==
    LET accepted == k \notin DOMAIN book \/ updateIfExists
    IN  /\ book' = IF accepted
                     THEN [x \in DOMAIN book \cup {k} |-> IF x = k THEN v ELSE book[x]]
                     ELSE book
        /\ reply' = [op |-> "insert", key |-> k, ok |-> accepted]

Take(k) ==
    LET found == k \in DOMAIN book
    IN  /\ book' = [x \in DOMAIN book \ {k} |-> book[x]]
        /\ reply' = [op |-> "remove", key |-> k, ok |-> found,
                     value |-> IF found THEN book[k] ELSE 0]

Get(k) ==
    /\ reply' = [op |-> "search", key |-> k,
                 value |-> IF k \in DOMAIN book THEN book[k] ELSE 0]
    /\ UNCHANGED book

Best(n) ==
    /\ reply' = [op |-> "topN",
                 levels |-> [i \in 1 .. (IF n < Len(Listed) THEN n ELSE Len(Listed)) |->
                               <<Listed[i], book[Listed[i]]>>]]
    /\ UNCHANGED book

Next == /\ UNCHANGED isForward
        /\ \/ \E k \in Keys, v \in Values, u \in BOOLEAN : Put(k, v, u)
           \/ \E k \in Keys : Take(k) \/ Get(k)
           \/ \E n \in 0 .. Cardinality(Keys) : Best(n)

Spec == Init /\ [][Next]_vars
=============================================================================
