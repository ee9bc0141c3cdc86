------------------------------ MODULE Bindings ------------------------------
(* The memory that passes between scripts and the library: maps of calls on   *)
(* the pool, buffers of the queue, strings of the cache, headers and handles   *)
(* of requests come from one heap.                                            *)
EXTENDS WorkPool, Sequences

CONSTANTS Texts, Capacity, MaxKeys, Names, Values, Verbs, PoolSize, BodyLengths, ResLength,
    Programs         \* the parts that the scripts of a program use, and the blocks it has

ASSUME BoundsAssumption ==
    /\ Capacity \in Nat \ {0} /\ MaxKeys \in Nat /\ PoolSize \in Nat
    /\ BodyLengths \subseteq Nat /\ ResLength \in Nat
ASSUME ProgramsAssumption == \A p \in Programs : p.blocks \subseteq Blocks

VARIABLES parts, way, queue, taken, output, nextKey, cache, mine, held, idle, maps, calls, answer, wanted

Q == INSTANCE BufferQueue
C == INSTANCE StringCache
R == INSTANCE CClient

queueVars == <<way, queue, taken, output>>
cacheVars == <<nextKey, cache, mine, held>>
requestVars == <<idle, maps, calls, answer, wanted>>
vars == <<parts, heap, pool, jobs, kept, leaked, way, queue, taken, output, nextKey, cache, mine, held,
          idle, maps, calls, answer, wanted>>

Init ==
    /\ PoolInit /\ Q!QueueInit /\ C!CacheInit /\ R!RequestsInit
    /\ \E p \in Programs :
          /\ parts = p.parts
          /\ heap \in {NewHeap(p.blocks, text) : text \in Texts}

\* A script that waits for a call or an answer does nothing else.
Blocked(s) == Waits(s) \/ R!Asks(s)
Next ==
    /\ UNCHANGED parts
    /\ \/ "pool" \in parts /\ PoolNext(Blocked) /\ UNCHANGED <<queueVars, cacheVars, requestVars>>
       \/ "queue" \in parts /\ Q!QueueNext /\ UNCHANGED <<poolVars, cacheVars, requestVars>>
       \/ "cache" \in parts /\ C!CacheNext(Blocked) /\ UNCHANGED <<poolVars, queueVars, requestVars>>
       \/ "requests" \in parts /\ R!RequestsNext(Blocked) /\ UNCHANGED <<poolVars, queueVars, cacheVars>>

Spec == Init /\ [][Next]_vars
-----------------------------------------------------------------------------
\* Every block that is allocated has one owner, who has yet to free it: a call,
\* the script that kept a result, the queue, its consumer or the cache.  The one
\* exception are the results of async_call_with_cb() that found no callback: they
\* stay allocated with no owner.  A block that two own would be freed twice, any
\* other that none owns is lost (libthread.cpp:119-165, 485-539, libmisc.cpp:380-418).
Owners(b) ==
    {<<"job", c>> : c \in {x \in Calls : Owns(jobs[x], b)}}
        \cup {<<"kept", 0>> : x \in {b} \cap kept}
        \cup {<<"queue", i>> : i \in {j \in DOMAIN Q!Buffers : Q!Buffers[j] = b}}
        \cup {<<"cache", k>> : k \in {x \in DOMAIN cache : cache[x] = b}}
        \cup {<<"headers", s>> : s \in {x \in Scripts : maps[x] = b}}
        \cup {<<"request", s>> : s \in {x \in Scripts : calls[x].curl = b}}
        \cup {<<"idle", i>> : i \in {j \in DOMAIN idle : idle[j] = b}}
OwnedOnce ==
    /\ \A b \in Blocks \cap DOMAIN heap : Cardinality(Owners(b)) = IF heap[b].live /\ b \notin leaked THEN 1 ELSE 0
    /\ \A b \in leaked : heap[b].live

\* What a script was given a pointer to stays there until the script itself sets
\* or frees the string: nobody else gets its key (libmisc.cpp:383-388).
PointersHold == \A s \in Scripts : held[s].at # NULL => heap[held[s].at] = [live |-> TRUE, what |-> Text(held[s].text)]

\* A handle that sends a request carries the headers of this request only, none
\* that was left by the one before, and writes the headers of the answer into a
\* local of this call or nowhere; what the script gets of the answer fits its
\* memory (cclient.cpp:41-49, 66-84, 140-154, 228-241).
OwnRequest == \A s \in Scripts :
    /\ calls[s].pc = "waits" =>
          LET curl == heap[calls[s].curl].what
          IN  /\ {h \in curl.headers : h[2] # ""} = {h \in wanted[s] \cup R!Added(calls[s].verb) : h[2] # ""}
              /\ curl.container = IF calls[s].debug THEN s ELSE NULL
    /\ answer[s] <= ResLength

\* A queue of copies is a channel: what the sender does to its memory later
\* does not reach the receiver (libthread.cpp:502-540).
Messages == INSTANCE Channel WITH
    Messages <- Texts, under_way <- [i \in DOMAIN Q!Buffers |-> heap[Q!Buffers[i]].what.text], received <- output
ImplementsChannel == Messages!Spec
============================================================================
