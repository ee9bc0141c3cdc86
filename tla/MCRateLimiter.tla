--------------------------- MODULE MCRateLimiter ---------------------------
(* Instances of RateLimiter for TLC: stamps are naturals, threads are        *)
(* interchangeable.                                                          *)
EXTENDS RateLimiter, TLC

CONSTANTS t1, t2, t3

Stamps == Nat
TwoThreads == {t1, t2}
ThreeThreads == {t1, t2, t3}
=============================================================================
