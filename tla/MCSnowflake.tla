---------------------------- MODULE MCSnowflake ----------------------------
(* Two threads on one host and one on another.  The addresses are in         *)
(* different networks and give the worker ids 1 and 2: a run of the model    *)
(* needs worker ids below WorkerSize, as 1024 <= 2^13 ensures in the code.   *)
EXTENDS Snowflake, TLC

CONSTANTS h1, h2, t1, t2, t3

TwoHosts == {h1, h2}
ThreeThreads == {t1, t2, t3}
TwoAndOne == (t1 :> h1) @@ (t2 :> h1) @@ (t3 :> h2)
MCAddress == (h1 :> <<0, 0, 1>>) @@ (h2 :> <<0, 0, 2>>)
=============================================================================
