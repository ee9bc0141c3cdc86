------------------------------ MODULE CClient ------------------------------
(* Requests over cURL (cclient.cpp): coroutines take a handle from a pool,   *)
(* prepare it for their request, wait for the answer and put it back as it   *)
(* is.  The headers come in a map that the script made (libmisc.cpp).        *)
(* doRequestTest() has no binding; it is here as its callers in C++ may use   *)
(* it next to the scripts, of the same pool.                                 *)
EXTENDS Heap, Sequences, SequencesExt

CONSTANTS
    Scripts,
    Names, Values,    \* headers that scripts set
    Verbs,
    PoolSize,         \* handles that the pool keeps, 10 in the code
    BodyLengths,      \* of answers
    ResLength         \* of the memory for an answer

VARIABLES
    heap,
    idle,         \* the handles in the pool
    maps,         \* the map of each script, or NULL
    calls,        \* the request of each script
    answer,       \* how much of the last answer it was given
    wanted        \* the headers it asked for since it made its map

NoCall == [pc |-> "none", curl |-> NULL, verb |-> "GET", debug |-> FALSE, body |-> 0]
NoHeaders == << >>

RequestsInit ==
    /\ idle = << >>
    /\ maps = [s \in Scripts |-> NULL]
    /\ calls = [s \in Scripts |-> NoCall]
    /\ answer = [s \in Scripts |-> 0]
    /\ wanted = [s \in Scripts |-> {}]

Asks(s) == calls[s].pc # "none"

ssmap_new(s) ==
    /\ maps[s] = NULL /\ Room(heap)
    /\ heap' = Stored(heap, NewBlock(heap), NoHeaders)
    /\ maps' = [maps EXCEPT ![s] = NewBlock(heap)]
    /\ wanted' = [wanted EXCEPT ![s] = {}]
    /\ UNCHANGED <<idle, calls, answer>>
ssmap_free(s) ==
    /\ maps[s] # NULL
    /\ heap' = Without(heap, maps[s])
    /\ maps' = [maps EXCEPT ![s] = NULL]
    /\ UNCHANGED <<idle, calls, answer, wanted>>

Entry(map, name, text) == [n \in DOMAIN map \cup {name} |-> IF n = name THEN text ELSE map[n]]
ssmap_set(s, name, text) ==
    /\ maps[s] # NULL
    /\ heap' = [heap EXCEPT ![maps[s]].what = Entry(@, name, text)]
    /\ wanted' = [wanted EXCEPT ![s] = {h \in @ : h[1] # name} \cup {<<name, text>>}]
    /\ UNCHANGED <<idle, maps, calls, answer>>
\* A name that is missing does not throw: operator[] adds it.
\* Mutant: what is read is emptied.
Emptied(map, name) == Entry(map, name, "")
Read(map, name) == IF name \in DOMAIN map THEN map ELSE Entry(map, name, "")
ssmap_get(s, name) ==
    /\ maps[s] # NULL
    /\ heap' = [heap EXCEPT ![maps[s]].what = Read(@, name)]
    /\ UNCHANGED <<idle, maps, calls, answer, wanted>>

\* Mutant: the handle is used as it was left.
get_cURL_as_left(old) == old
\* reset() and clear_header().
get_cURL(old) == [headers |-> {}, container |-> NULL]

\* Bodies are sent at once and with their length, but for those of
\* doRequestTest(), whose verb does not matter here: "test" stands for it.
Added(verb) ==
    CASE verb \in {"POST", "PUT"} -> {<<"Expect", "">>, <<"Transfer-Encoding", "">>, <<"Content-Length", "n">>}
      [] verb = "test" -> {<<"Host", "h">>, <<"User-Agent", "xt/1.0.1">>}
      [] OTHER -> {}

\* A request up to the wait: the answer's headers go to a local of the call if
\* they are asked for.
send(s, verb, debug) ==
    LET curl == IF idle = << >> THEN NewBlock(heap) ELSE Last(idle)
        old == IF idle = << >> THEN [headers |-> {}, container |-> NULL] ELSE heap[curl].what
        fresh == get_cURL(old)
        map == heap[maps[s]].what
    IN  /\ maps[s] # NULL
        /\ idle # << >> \/ Room(heap)
        /\ idle' = IF idle = << >> THEN idle ELSE Front(idle)
        /\ heap' = Stored(heap, curl,
                          [headers |-> fresh.headers \cup {<<n, map[n]>> : n \in DOMAIN map} \cup Added(verb),
                           container |-> IF debug THEN s ELSE fresh.container])
        /\ calls' = [calls EXCEPT ![s] = [NoCall EXCEPT !.pc = "waits", !.curl = curl, !.verb = verb, !.debug = debug]]
        /\ UNCHANGED <<maps, answer, wanted>>
doRequest(s, verb, debug) == send(s, verb, debug)
doRequestTest(s) == send(s, "test", TRUE)

\* Mutant: a full pool deletes the handle and keeps it.
release_cURL_kept(curl) ==
    /\ idle' = Append(idle, curl)
    /\ heap' = IF Len(idle) < PoolSize THEN heap ELSE Without(heap, curl)
\* The handle goes back whatever the outcome, into the pool or, if that is full, away.
release_cURL(curl) ==
    IF Len(idle) < PoolSize THEN idle' = Append(idle, curl) /\ UNCHANGED heap
    ELSE heap' = Without(heap, curl) /\ UNCHANGED idle

\* The server has answered, or five seconds are over; body is what has come.
answered(s, body) ==
    /\ calls[s].pc = "waits"
    /\ release_cURL(calls[s].curl)
    /\ calls' = [calls EXCEPT ![s].pc = "answered", ![s].curl = NULL, ![s].body = body]
    /\ UNCHANGED <<maps, answer, wanted>>

\* An answer that is too long is cut off; doRequestTest() returns it in a string
\* of its own.
do_request(s) ==
    /\ calls[s].pc = "answered"
    /\ IF calls[s].verb = "test" THEN UNCHANGED answer
       ELSE answer' = [answer EXCEPT ![s] = IF calls[s].body < ResLength THEN calls[s].body ELSE ResLength]
    /\ calls' = [calls EXCEPT ![s] = NoCall]
    /\ UNCHANGED <<heap, idle, maps, wanted>>

\* The pool gets rid of handles that were not needed for a while.
autoscale ==
    /\ idle # << >>
    /\ heap' = Without(heap, Head(idle))
    /\ idle' = Tail(idle)
    /\ UNCHANGED <<maps, calls, answer, wanted>>

RequestsNext(Blocked(_)) ==
    \/ \E s \in Scripts :
          /\ ~Blocked(s)
          /\ \/ ssmap_new(s) \/ ssmap_free(s)
             \/ \E name \in Names : ssmap_get(s, name) \/ \E text \in Values : ssmap_set(s, name, text)
             \/ doRequestTest(s)
             \/ \E verb \in Verbs, debug \in BOOLEAN : doRequest(s, verb, debug)
    \/ \E s \in Scripts : do_request(s) \/ \E body \in BodyLengths : answered(s, body)
    \/ autoscale
============================================================================
