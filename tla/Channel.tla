------------------------------ MODULE Channel ------------------------------
(* What a queue of buffers promises its two ends: every message that was     *)
(* accepted arrives once, in the order of sending, as it was when it was     *)
(* sent.                                                                     *)
EXTENDS Sequences

CONSTANT Messages

VARIABLES under_way, received

Init == under_way = << >> /\ received \in Messages
Send(m) == under_way' = Append(under_way, m) /\ UNCHANGED received
Receive ==
    /\ under_way # << >>
    /\ received' = Head(under_way) /\ under_way' = Tail(under_way)

Next == (\E m \in Messages : Send(m)) \/ Receive
Spec == Init /\ [][Next]_<<under_way, received>>
============================================================================
