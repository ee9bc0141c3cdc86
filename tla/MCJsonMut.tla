----------------------------- MODULE MCJsonMut -----------------------------
(* Two documents and two strings of the caller, which hold different texts. *)
EXTENDS JsonMut

Strings == {"k1", "k2"}
Start == [b \in Strings |-> IF b = "k1" THEN "a" ELSE "b"]
============================================================================
