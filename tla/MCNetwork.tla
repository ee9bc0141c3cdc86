----------------------------- MODULE MCNetwork -----------------------------
(* Two programs: one is about who runs the handlers of an io_context, the     *)
(* other about a watch dog, whose handlers are run.                          *)
EXTENDS AsioIOC, WatchDog

VARIABLE program
allVars == <<vars, dogVars, program>>

NetworkInit == Init /\ DogInit /\ program \in {"io_context", "watch dog"}
NetworkNext ==
    /\ UNCHANGED program
    /\ \/ program = "io_context" /\ Next /\ UNCHANGED dogVars
       \/ program = "watch dog" /\ DogNext /\ UNCHANGED vars

\* The fairness of AsioIOC and of WatchDog, each for its program.
NetworkSpec ==
    /\ NetworkInit /\ [][NetworkNext]_allVars
    /\ \A r \in Runners : WF_allVars(program = "io_context" /\ Proceeds(r) /\ UNCHANGED <<dogVars, program>>)
    /\ WF_allVars(program = "watch dog" /\ Tick /\ UNCHANGED <<vars, program>>)
    /\ WF_allVars(program = "watch dog" /\ Expires /\ UNCHANGED <<vars, program>>)
    /\ WF_allVars(program = "watch dog" /\ Callback /\ UNCHANGED <<vars, program>>)
=============================================================================
