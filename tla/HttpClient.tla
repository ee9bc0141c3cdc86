----------------------------- MODULE HttpClient -----------------------------
(* One HTTPS client (httpx/httpclient.hpp): a photon thread calls it, the     *)
(* network thread runs the handlers of its asynchronous operations, and the   *)
(* caller waits for a handler on a condition variable, without a lock and for *)
(* a limited time.  Time passes in units of five seconds.                     *)
EXTENDS Naturals

VARIABLES
    connected,     \* the flag that isConnected() returns
    stream,        \* what the connection really is: "none", "tcp", "tls" or "lost"
    pc,            \* where the calling thread is
    request,       \* does performRequest() go on when connect() returns?
    connectOp,     \* async_connect(): "none", "pending", or how it ended
    readOp,        \* async_read(), likewise
    timer,         \* what is left of expires_after()
    wait,          \* what is left of wait_no_lock()
    notified,      \* has the waiting thread been notified?
    readFailed     \* readResult.first

ops == <<connectOp, readOp>>
clock == <<timer, wait, notified>>
vars == <<connected, stream, pc, request, ops, clock, readFailed>>

connectTimeout == 1
\* Mutant: the five seconds that the comment in the source gives.
connectWaitShort == 1
connectWait == 2
readWait == 1

Ended == {"ok", "failed"}

Init ==
    /\ connected = FALSE /\ stream = "none"
    /\ pc = "idle" /\ request = FALSE
    /\ connectOp = "none" /\ readOp = "none" /\ readFailed = FALSE
    /\ timer = 0 /\ wait = 0 /\ notified = FALSE

Return == pc' = "idle" /\ request' = FALSE

\* Mutant: the flag keeps what it was.
connect_keeping(then) ==
    /\ pc = "idle" /\ (then => ~connected)
    /\ timer' = connectTimeout
    /\ pc' = "resolving" /\ request' = then
    /\ UNCHANGED <<connected, stream, ops, wait, notified, readFailed>>
\* connect() until the name is resolved; performRequest() on a client that is
\* not connected calls it, too.
connect(then) ==
    /\ pc = "idle" /\ (then => ~connected)
    /\ connected' = FALSE
    /\ timer' = connectTimeout
    /\ pc' = "resolving" /\ request' = then
    /\ UNCHANGED <<stream, ops, wait, notified, readFailed>>
\* The name of the host cannot be set: connect() returns false.
connect_without_name ==
    /\ pc = "idle"
    /\ connected' = FALSE
    /\ UNCHANGED <<stream, pc, request, ops, clock, readFailed>>
\* resolve() throws.
resolve_fails ==
    /\ pc = "resolving"
    /\ Return
    /\ UNCHANGED <<connected, stream, ops, clock, readFailed>>
\* The socket is closed first, which ends a read that is still under way.
async_connect ==
    /\ pc = "resolving"
    /\ stream' = "none" /\ connectOp' = "pending"
    /\ readOp' = IF readOp = "pending" THEN "failed" ELSE readOp
    /\ pc' = "connecting"
    /\ UNCHANGED <<connected, request, clock, readFailed>>

\* wait_no_lock(): what was notified before is lost.
WaitFor(from, to, limit) ==
    /\ pc = from /\ pc' = to
    /\ wait' = limit /\ notified' = FALSE
    /\ UNCHANGED <<connected, stream, request, ops, timer, readFailed>>
wait_connected == WaitFor("connecting", "awaiting", connectWait)

\* Mutant: the wait has no limit.
WokenByNotice == notified
Woken == notified \/ wait = 0
\* The wait is over: connect() looks at the flag alone.
connect_waited ==
    /\ pc = "awaiting" /\ Woken
    /\ IF connected THEN pc' = "handshaking" /\ UNCHANGED request ELSE Return
    /\ UNCHANGED <<connected, stream, ops, clock, readFailed>>
\* handshake() blocks; if it fails connect() returns false with the flag set.
handshake(ok) ==
    /\ pc = "handshaking"
    /\ ok => stream = "tcp"
    /\ IF ok THEN stream' = "tls" /\ connected' = TRUE ELSE UNCHANGED <<stream, connected>>
    /\ IF ok /\ request THEN pc' = "requesting" /\ request' = FALSE ELSE Return
    /\ UNCHANGED <<ops, clock, readFailed>>

\* connect_v0(), which does all that without the network thread.
connect_v0(reached) ==
    /\ pc = "idle"
    /\ connected' = (reached = "tls") /\ stream' = reached
    /\ readOp' = IF readOp = "pending" THEN "failed" ELSE readOp
    /\ timer' = connectTimeout
    /\ UNCHANGED <<pc, request, connectOp, wait, notified, readFailed>>

\* The handler of async_connect().
connect_handler ==
    /\ connectOp \in Ended
    /\ connected' = (connectOp = "ok")
    /\ notified' = (notified \/ pc = "awaiting")
    /\ connectOp' = "none"
    /\ UNCHANGED <<stream, pc, request, readOp, timer, wait, readFailed>>

\* performRequest() on a connected client: it writes, and reads the answer.
performRequest ==
    /\ pc = "idle" /\ connected
    /\ pc' = "requesting"
    /\ UNCHANGED <<connected, stream, request, ops, clock, readFailed>>
request_answered ==
    /\ pc = "requesting" /\ stream = "tls"
    /\ pc' = "idle"
    /\ UNCHANGED <<connected, stream, request, ops, clock, readFailed>>
request_fails ==
    /\ pc = "requesting"
    /\ connected' = FALSE
    /\ pc' = "idle"
    /\ UNCHANGED <<stream, request, ops, clock, readFailed>>

\* performRequestAsync(), which does not look at the flag: the write fails, or a
\* read is started (one at a time is all that the stream allows).
async_write_fails ==
    /\ pc = "idle"
    /\ connected' = FALSE
    /\ UNCHANGED <<stream, pc, request, ops, clock, readFailed>>
async_read ==
    /\ pc = "idle" /\ stream = "tls" /\ readOp = "none"
    /\ readOp' = "pending" /\ readFailed' = FALSE
    /\ pc' = "readStarted"
    /\ UNCHANGED <<connected, stream, request, connectOp, clock>>
wait_read == WaitFor("readStarted", "reading", readWait)
\* readCallback; the frame it writes to may be gone.
readCallback ==
    /\ readOp \in Ended
    /\ readFailed' = IF pc \in {"readStarted", "reading"} THEN readOp = "failed" ELSE readFailed
    /\ notified' = (notified \/ pc = "reading")
    /\ readOp' = "none"
    /\ UNCHANGED <<connected, stream, pc, request, connectOp, timer, wait>>
\* An error is thrown, else the response is returned, read or not: neither
\* changes the flag.
read_waited ==
    /\ pc = "reading" /\ Woken
    /\ pc' = "idle"
    /\ UNCHANGED <<connected, stream, request, ops, clock, readFailed>>

disconnect ==
    /\ pc = "idle"
    /\ connected' = FALSE
    /\ stream' = IF stream = "none" THEN "none" ELSE "lost"
    /\ UNCHANGED <<pc, request, ops, clock, readFailed>>
\* ~HttpClient(), with the stream: what is under way is aborted.
destroy ==
    /\ pc = "idle" /\ pc' = "gone"
    /\ connected' = FALSE /\ stream' = "none"
    /\ readOp' = IF readOp = "pending" THEN "failed" ELSE readOp
    /\ connectOp' = IF connectOp = "pending" THEN "failed" ELSE connectOp
    /\ UNCHANGED <<request, clock, readFailed>>

-----------------------------------------------------------------------------
\* The network: an operation ends, or its timer does; a connection gets lost.
connect_ends(result) ==
    /\ connectOp = "pending"
    /\ connectOp' = result
    /\ stream' = IF result = "ok" THEN "tcp" ELSE "none"
    /\ UNCHANGED <<connected, pc, request, readOp, clock, readFailed>>
read_ends(result) ==
    /\ readOp = "pending"
    /\ result = "ok" => stream = "tls"
    /\ readOp' = result
    /\ stream' = IF result = "ok" THEN stream ELSE "lost"
    /\ UNCHANGED <<connected, pc, request, connectOp, clock, readFailed>>
timer_expires == timer = 0 /\ connect_ends("failed")
stream_lost ==
    /\ stream \in {"tcp", "tls"}
    /\ stream' = "lost"
    /\ UNCHANGED <<connected, pc, request, ops, clock, readFailed>>

\* Time passes when nothing is due: the network thread runs what is ready, the
\* calling thread goes on when it is woken.
Due ==
    \/ connectOp \in Ended \/ readOp \in Ended
    \/ timer = 0 /\ connectOp = "pending"
    \/ pc \in {"awaiting", "reading"} /\ (notified \/ wait = 0)
    \/ pc \in {"connecting", "readStarted"}
Less(n) == IF n = 0 THEN 0 ELSE n - 1
Tick ==
    /\ ~Due
    /\ timer' = Less(timer) /\ wait' = Less(wait)
    /\ UNCHANGED <<connected, stream, pc, request, ops, notified, readFailed>>

Handlers == connect_handler \/ readCallback
Waiting == wait_connected \/ connect_waited \/ wait_read \/ read_waited
Calls ==
    \/ \E then \in BOOLEAN : connect(then)
    \/ connect_without_name \/ resolve_fails \/ async_connect
    \/ \E ok \in BOOLEAN : handshake(ok)
    \/ \E reached \in {"none", "tcp", "tls"} : connect_v0(reached)
    \/ performRequest \/ request_answered \/ request_fails
    \/ async_write_fails \/ async_read
    \/ disconnect \/ destroy
Network ==
    \/ \E result \in Ended : connect_ends(result) \/ read_ends(result)
    \/ timer_expires \/ stream_lost

Next == Calls \/ Waiting \/ Handlers \/ Network \/ Tick

\* The threads go on and time passes.  A call that blocks in the handshake, a
\* write or a read need not return, the network need not answer.
Fairness ==
    /\ WF_vars(Waiting) /\ WF_vars(Handlers)
    /\ WF_vars(timer_expires) /\ WF_vars(Tick)
Spec == Init /\ [][Next]_vars
FairSpec == Spec /\ Fairness
-----------------------------------------------------------------------------
\* No handler of async_connect() is left when connect() has returned: it would
\* write to the frame of that call, or to a client that was deleted.  That needs
\* the timer to be shorter than the wait (httpclient.hpp:58, 195).
ConnectHandlerInTime ==
    connectOp # "none" => pc \in {"connecting", "awaiting"}

\* The flag never claims a connection that is not there: neither of an earlier
\* connect() nor of one that failed or is under way (httpclient.hpp:61, 147, 187).
\* A connection that was made may have been lost since.
FlagIsEarned == connected => stream # "none"

\* The wait for a handler ends although the handler may have notified before the
\* wait began, and although it may never run (httpclient.hpp:195, 335).
WaitsEnd ==
    pc \in {"connecting", "awaiting", "readStarted", "reading"}
        ~> pc \in {"idle", "handshaking"}
============================================================================
