--------------------------- MODULE FuncArgResult ---------------------------
(* The maps that carry arguments and results of calls across threads         *)
(* (libfar.cpp): each key has a value of one of four types, and a getter of   *)
(* another type finds nothing.                                               *)
EXTENDS TLC

Types == {"int64", "double", "bool", "string"}
Empty == << >>

\* A key that is set again takes the type of the new value.
set(data, key, type, value) == (key :> [type |-> type, value |-> value]) @@ data

\* get_int64(), get_double() and get_bool() return a default for what they do
\* not find; get_string() a null pointer, which seq_far_get_string() follows.
Has(data, key, type) == key \in DOMAIN data /\ data[key].type = type
Default(type) == IF type = "bool" THEN FALSE ELSE 0
get(data, key, type) == IF Has(data, key, type) THEN data[key].value ELSE Default(type)
get_string(data, key) == data[key].value
============================================================================
