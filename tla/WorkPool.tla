------------------------------ MODULE WorkPool ------------------------------
(* Calls on a pool of photon vCPUs (libthread.cpp): a script hands a function *)
(* and a map of arguments to the pool; the entry runs on a vCPU and returns a *)
(* map of results or a null pointer.  Four kinds of calls differ in who       *)
(* waits, who sees the result and who frees it.                              *)
EXTENDS Heap, FuncArgResult

CONSTANTS
    Scripts,       \* the coroutines that call
    Args,          \* what they pass, [type, value]
    Asked,         \* the types an entry may ask for
    Calls,         \* places for calls that are under way
    Vcpus          \* how many calls run at a time

ASSUME AskedAssumption == Asked \subseteq Types

VARIABLES
    heap,
    pool,          \* is there a pool?
    jobs,          \* the call in each place
    kept,          \* results that were left to the scripts
    leaked         \* results that were left to nobody
poolVars == <<pool, jobs, kept, leaked>>

Kinds == {"async_call", "async_call_with_cb", "call", "call_with_cb"}
NoJob == [kind |-> "none", waiter |-> NULL, arg |-> NULL, result |-> NULL, pc |-> "none"]

PoolInit == pool = FALSE /\ jobs = [c \in Calls |-> NoJob] /\ kept = {} /\ leaked = {}

Idle == \A c \in Calls : jobs[c].pc = "none"
Running == {c \in Calls : jobs[c].pc \notin {"none", "queued"}}
Waits(s) == \E c \in Calls : jobs[c].waiter = s

workpool_new ==
    /\ ~pool /\ pool' = TRUE
    /\ UNCHANGED <<heap, jobs, kept, leaked>>
workpool_free ==
    /\ pool /\ Idle
    /\ pool' = FALSE
    /\ UNCHANGED <<heap, jobs, kept, leaked>>

\* far_new(), far_set_string() and the call: the map is the job's from now on,
\* and the caller of a synchronous call waits.
submit(s, c, kind, value) ==
    LET arg == NewBlock(heap)
    IN  /\ pool /\ jobs[c].pc = "none" /\ ~Waits(s) /\ Room(heap)
        /\ heap' = Stored(heap, arg, set(Empty, "in", value.type, value.value))
        /\ jobs' = [jobs EXCEPT ![c] = [NoJob EXCEPT !.kind = kind, !.arg = arg, !.pc = "queued",
                                           !.waiter = IF kind \in {"call", "call_with_cb"} THEN s ELSE NULL]]
        /\ UNCHANGED <<pool, kept, leaked>>

\* entry(arg): the entry asks for the argument by its type, or by another one
\* and gets a default; a string it only asks for if it is there.
Starts(c) == jobs[c].pc = "queued" /\ Cardinality(Running) < Vcpus
Answer(arg, type) == IF type = "string" THEN get_string(arg, "in") ELSE get(arg, "in", type)
enter(c, type) ==
    LET result == NewBlock(heap)
        arg == heap[jobs[c].arg].what
    IN  /\ Starts(c) /\ Room(heap)
        /\ type = "string" => Has(arg, "in", type)
        /\ heap' = Stored(heap, result, set(Empty, "out", type, Answer(arg, type)))
        /\ jobs' = [jobs EXCEPT ![c].pc = "entered", ![c].result = result]
        /\ UNCHANGED <<pool, kept, leaked>>
enter_nullptr(c) ==
    /\ Starts(c)
    /\ jobs' = [jobs EXCEPT ![c].pc = "entered"]
    /\ UNCHANGED <<heap, pool, kept, leaked>>

\* The result of the one kind of calls is left to the callback.
\* Mutant: it is freed like the others.
FreesAll(job) == TRUE
FreesResult(job) == job.kind # "async_call_with_cb"

\* cb(result), if the caller passed a callback (cb): it keeps a result that is
\* left to it.  Without one, nobody has a pointer to such a result any more.
callback(c, cb) ==
    LET job == jobs[c]
        left == IF job.kind = "async_call_with_cb" THEN {job.result} \ {NULL} ELSE {}
    IN  /\ job.pc = "entered"
        /\ jobs' = [jobs EXCEPT ![c].pc = "returned"]
        /\ kept' = IF cb THEN kept \cup left ELSE kept
        /\ leaked' = IF cb THEN leaked ELSE leaked \cup left
        /\ UNCHANGED <<heap, pool>>

\* free_far(arg), free_far(result), and the end of the call.
finish(c) ==
    LET job == jobs[c]
        freed == Without(heap, job.arg)
    IN  /\ job.pc = "returned"
        /\ heap' = IF FreesResult(job) THEN Without(freed, job.result) ELSE freed
        /\ jobs' = [jobs EXCEPT ![c] = NoJob]
        /\ UNCHANGED <<pool, kept, leaked>>

\* seq_far_free() of a result that was kept.
far_free(b) ==
    /\ b \in kept
    /\ heap' = Without(heap, b)
    /\ kept' = kept \ {b}
    /\ UNCHANGED <<pool, jobs, leaked>>

Work(c) == (\E type \in Asked : enter(c, type)) \/ enter_nullptr(c) \/ finish(c)
           \/ \E cb \in BOOLEAN : callback(c, cb)
PoolNext(Blocked(_)) ==
    \/ workpool_new \/ workpool_free
    \/ \E s \in Scripts, c \in Calls, kind \in Kinds, value \in Args : ~Blocked(s) /\ submit(s, c, kind, value)
    \/ \E c \in Calls : Work(c)
    \/ \E b \in kept : far_free(b)

\* The blocks that a call still has to free.
Owns(job, b) ==
    \/ job.arg = b
    \/ job.result = b /\ (job.kind # "async_call_with_cb" \/ job.pc = "entered")
============================================================================
