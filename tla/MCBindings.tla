----------------------------- MODULE MCBindings -----------------------------
(* One argument, a string, which an entry may ask for as an integer.         *)
(* Which script, which place for a call and which text is which does not     *)
(* matter.  A third program makes cURL clients from URLs, which have no part  *)
(* in the heap.                                                              *)
EXTENDS Bindings, Url

ThreePrograms ==
    {[parts |-> {"pool", "queue", "cache"}, blocks |-> 1 .. 3],
     [parts |-> {"requests"}, blocks |-> 1 .. 4],
     [parts |-> {"URLs"}, blocks |-> {1}]}

OneString == {[type |-> "string", value |-> "s"]}

AllInit == Init /\ IF "URLs" \in parts THEN UrlInit ELSE url = << >> /\ pieces = 0
AllNext ==
    \/ Next /\ UNCHANGED urlVars
    \/ "URLs" \in parts /\ UrlNext /\ UNCHANGED vars
AllSpec == AllInit /\ [][AllNext]_<<vars, urlVars>>

Symmetry == Permutations(Scripts) \cup Permutations(Calls) \cup Permutations(Texts)
============================================================================
