------------------------------- MODULE Random -------------------------------
(* The pseudo-random numbers that the heights of nodes are drawn from         *)
(* (skiplist/random.h): every seed is the one before times a factor, modulo a *)
(* prime M that is one less than a power of two.                              *)
EXTENDS Integers

CONSTANTS SEED_BITS,    \* 31 in the code
          FACTOR        \* A, 16807 in the code

ASSUME SeedAssumption == SEED_BITS \in Nat /\ SEED_BITS >= 2 /\ FACTOR \in 1 .. 2 ^ SEED_BITS - 2

M == 2 ^ SEED_BITS - 1

\* The two seeds that would stay as they are become 1.
Seeded(s) == LET seed == s % (M + 1) IN IF seed \in {0, M} THEN 1 ELSE seed

\* The product modulo M, by a shift and a mask.
\* Mutant: a sum that is M or more is left as it is.
UnreducedSeed(seed) == LET product == seed * FACTOR IN product \div (M + 1) + (product % (M + 1))
NextSeed(seed) ==
    LET product == seed * FACTOR
        sum == product \div (M + 1) + (product % (M + 1))
    IN  IF sum > M THEN sum - M ELSE sum

\* What is drawn; the seed that it leaves is NextSeed(seed).
Uniform(seed, n) == NextSeed(seed) % n
OneIn(seed, n) == NextSeed(seed) % n = 0
Skewed(seed, max_log) == Uniform(NextSeed(seed), 2 ^ Uniform(seed, max_log + 1))

\* The seeds that follow one: every product modulo M is what the comment says,
\* none is 0 or M, and all numbers in between come up before the first one
\* returns (random.h:28-32, :37-39).
Following(s) == LET at[k \in 0 .. M - 2] == IF k = 0 THEN s ELSE NextSeed(at[k - 1]) IN at
SeedsCycle ==
    /\ \A seed \in 1 .. M - 1 : NextSeed(seed) = (seed * FACTOR) % M
    /\ LET seeds == Following(1) IN {seeds[k] : k \in DOMAIN seeds} = 1 .. M - 1
    /\ \A s \in 0 .. 2 * M + 1 : Seeded(s) \in 1 .. M - 1
    /\ \A seed \in 1 .. M - 1, max_log \in 0 .. SEED_BITS - 1 : Skewed(seed, max_log) < 2 ^ max_log
=============================================================================
