----------------------------- MODULE WebSocket -----------------------------
(***************************************************************************)
(* The reconnecting web socket client of httpx/websocket.cpp: the chain    *)
(* resolve - connect - TLS handshake - web socket handshake - read, the    *)
(* reconnect and heartbeat timers, and the calls of its user.  Handlers    *)
(* run one at a time on the io_context thread (libnet.cpp:81-86); a call   *)
(* of the user falls between two handlers.                                 *)
(*                                                                         *)
(* Every OnResolve() makes a new stream, which is numbered here, and       *)
(* thereby destroys the one before; the operations that were outstanding   *)
(* on the old stream complete with operation_aborted.  async_close() on an *)
(* open stream begins the closing handshake; on any other it completes at  *)
(* once with an error, sends nothing and leaves the establishment alone.   *)
(* Write() changes no member of the class and is left out, and so is the   *)
(* contents of messages.                                                   *)
(***************************************************************************)
EXTENDS Naturals, FiniteSets, AsioTimer

CONSTANTS MaxConnects,      \* bound: calls of Connect() by the user
          MaxDisconnects,   \* bound: calls of Disconnect() by the user
          MaxFailures,      \* bound: operations that fail
          MaxStreams,       \* bound: streams ever made
          MaxDue            \* bound: queued handlers of one timer

ASSUME BoundsAssumption ==
    /\ MaxConnects \in Nat /\ MaxDisconnects \in Nat /\ MaxFailures \in Nat
    /\ MaxStreams \in Nat /\ MaxDue \in Nat

NoStream == 0
Stream == 1 .. MaxStreams

VARIABLES
    stream,         \* _websocket
    status,         \* of the current stream: "fresh", "open", "closing" or "closed"
    resolving,      \* outstanding async_resolve()
    establishing,   \* per stream: the outstanding operation of the chain
    reads, closes,  \* per stream: outstanding async_read(), async_close()
    reconnect,      \* _reconnect
    reconnectCount, \* _reconnectCount
    delay,          \* the duration the reconnect timer was last set to
    reconnectTimer, heartbeatTimer,
    refused,        \* the server has closed with code 4014
    wanted,         \* the user's last call was Connect()
    connects, disconnects, failures     \* for the bounds

ops == <<stream, status, resolving, establishing, reads, closes>>
retry == <<reconnect, reconnectCount, delay>>
timers == <<reconnectTimer, heartbeatTimer>>
user == <<wanted, connects, disconnects>>
vars == <<ops, retry, timers, refused, user, failures>>

Init ==
    /\ stream = NoStream /\ status = "closed" /\ resolving = 0
    /\ establishing = [s \in Stream |-> "none"]
    /\ reads = [s \in Stream |-> 0] /\ closes = [s \in Stream |-> 0]
    /\ reconnect = FALSE /\ reconnectCount = 0 /\ delay = 0
    /\ reconnectTimer = Idle /\ heartbeatTimer = Idle
    /\ refused = FALSE /\ wanted = FALSE
    /\ connects = 0 /\ disconnects = 0 /\ failures = 0

-----------------------------------------------------------------------------
(* Connect() *)
StartResolving == resolving' = resolving + 1

(* async_close() on a stream of that status *)
Closing(now) ==
    /\ closes' = IF stream = NoStream THEN closes ELSE [closes EXCEPT ![stream] = @ + 1]
    /\ status' = IF now = "open" THEN "closing" ELSE now

(* Mutant: the flag is not stored. *)
DisconnectUnflagged(flag, now) ==
    /\ reconnect' = FALSE
    /\ Closing(now)

(* Disconnect(flag), called by the user and by the handlers. *)
Disconnect(flag, now) ==
    /\ reconnect' = flag
    /\ Closing(now)

Fail == failures < MaxFailures /\ failures' = failures + 1

(* The user's calls. *)
UserConnect ==
    /\ connects < MaxConnects
    /\ connects' = connects + 1
    /\ wanted' = TRUE
    /\ StartResolving
    /\ UNCHANGED <<stream, status, establishing, reads, closes, retry, timers, refused,
                   disconnects, failures>>

UserDisconnect ==
    /\ disconnects < MaxDisconnects
    /\ disconnects' = disconnects + 1
    /\ wanted' = FALSE
    /\ Disconnect(FALSE, status)
    /\ UNCHANGED <<stream, resolving, establishing, reads, reconnectCount, delay,
                   timers, refused, connects, failures>>

-----------------------------------------------------------------------------
(* OnResolve() with an error; with no stream yet, Disconnect() only stores   *)
(* the flag, and a stream that is open is closed.                            *)
ResolveFails ==
    /\ resolving > 0
    /\ Fail
    /\ resolving' = resolving - 1
    /\ Disconnect(TRUE, status)
    /\ UNCHANGED <<stream, establishing, reads, reconnectCount, delay, timers, refused,
                   user>>

(* OnResolve(): a new stream, whose connect is started. *)
OnResolve ==
    /\ resolving > 0
    /\ stream < MaxStreams
    /\ resolving' = resolving - 1
    /\ stream' = stream + 1
    /\ status' = "fresh"
    /\ establishing' = [establishing EXCEPT ![stream + 1] = "connect"]
    /\ UNCHANGED <<reads, closes, retry, timers, refused, user, failures>>

(* SSL_set_tlsext_host_name() fails: OnSslHandshake() is called with its error. *)
SniFails ==
    /\ resolving > 0
    /\ stream < MaxStreams
    /\ Fail
    /\ resolving' = resolving - 1
    /\ stream' = stream + 1
    /\ status' = "fresh"
    /\ reconnect' = TRUE
    /\ closes' = [closes EXCEPT ![stream + 1] = @ + 1]
    /\ UNCHANGED <<establishing, reads, reconnectCount, delay, timers, refused, user>>

(* The chain: OnConnect() and OnSslHandshake() without an error. *)
Following == [connect |-> "ssl", ssl |-> "handshake"]

OnEstablishStep ==
    /\ stream # NoStream
    /\ establishing[stream] \in {"connect", "ssl"}
    /\ establishing' = [establishing EXCEPT ![stream] = Following[@]]
    /\ UNCHANGED <<stream, status, resolving, reads, closes, retry, timers, refused, user,
                   failures>>

(* Mutants: Read() is called twice; the heartbeat is not started. *)
OnHandshakeReadsTwice ==
    /\ stream # NoStream
    /\ establishing[stream] = "handshake"
    /\ establishing' = [establishing EXCEPT ![stream] = "none"]
    /\ status' = "open"
    /\ reconnectCount' = 0
    /\ reads' = [reads EXCEPT ![stream] = @ + 2]
    /\ heartbeatTimer' = Arm(heartbeatTimer)
    /\ UNCHANGED <<stream, resolving, closes, reconnect, delay, reconnectTimer, refused, user,
                   failures>>

OnHandshakeSilent ==
    /\ stream # NoStream
    /\ establishing[stream] = "handshake"
    /\ establishing' = [establishing EXCEPT ![stream] = "none"]
    /\ status' = "open"
    /\ reconnectCount' = 0
    /\ reads' = [reads EXCEPT ![stream] = @ + 1]
    /\ UNCHANGED <<stream, resolving, closes, reconnect, delay, timers, refused, user,
                   failures>>

(* ... and OnHandshake(): the connection is open, a read is started, and the *)
(* first heartbeat is sent, which sets the heartbeat timer.                  *)
OnHandshake ==
    /\ stream # NoStream
    /\ establishing[stream] = "handshake"
    /\ establishing' = [establishing EXCEPT ![stream] = "none"]
    /\ status' = "open"
    /\ reconnectCount' = 0
    /\ reads' = [reads EXCEPT ![stream] = @ + 1]
    /\ heartbeatTimer' = Arm(heartbeatTimer)
    /\ UNCHANGED <<stream, resolving, closes, reconnect, delay, reconnectTimer, refused, user,
                   failures>>

(* OnConnect(), OnSslHandshake() or OnHandshake() with an error: an operation *)
(* of the current stream failed, or one of an old stream was aborted.         *)
EstablishFails(s) ==
    /\ establishing[s] # "none"
    /\ IF s = stream THEN Fail ELSE UNCHANGED failures
    /\ establishing' = [establishing EXCEPT ![s] = "none"]
    /\ Disconnect(TRUE, status)
    /\ UNCHANGED <<stream, resolving, reads, reconnectCount, delay, timers, refused, user>>

-----------------------------------------------------------------------------
(* OnClose(): the heartbeat timer is cancelled, and the reconnect timer set  *)
(* if _reconnect says so by now, whatever the error code.  Of the closes of  *)
(* a stream that is closing one is the closing handshake, whose end (by the  *)
(* peer's answer or its timeout) closes the stream; the others have failed.  *)
Delay == IF 5 * reconnectCount < 60 THEN 5 * reconnectCount ELSE 60

StopHeartbeat == heartbeatTimer' = Cancel(heartbeatTimer)

ClosedBy(s) ==
    IF s = stream /\ status = "closing"
    THEN {"closed"} \cup (IF closes[s] > 1 THEN {"closing"} ELSE {})
    ELSE {status}

OnClose(s) ==
    /\ closes[s] > 0
    /\ closes' = [closes EXCEPT ![s] = @ - 1]
    /\ status' \in ClosedBy(s)
    /\ StopHeartbeat
    /\ IF reconnect
         THEN /\ reconnectTimer' = Arm(reconnectTimer)
              /\ delay' = Delay
         ELSE UNCHANGED <<reconnectTimer, delay>>
    /\ UNCHANGED <<stream, resolving, establishing, reads, reconnect, reconnectCount, refused,
                   user, failures>>

ReconnectTimerExpires ==
    /\ reconnectTimer.armed /\ reconnectTimer.due < MaxDue
    /\ reconnectTimer' = Expire(reconnectTimer)
    /\ UNCHANGED <<ops, retry, heartbeatTimer, refused, user, failures>>

OnReconnect ==
    /\ reconnectTimer.due > 0
    /\ reconnectTimer' = Run(reconnectTimer)
    /\ reconnectCount' = reconnectCount + 1
    /\ StartResolving
    /\ UNCHANGED <<stream, status, establishing, reads, closes, reconnect, delay,
                   heartbeatTimer, refused, user, failures>>

-----------------------------------------------------------------------------
(* OnRead() with a message calls back and starts the next read, so that the  *)
(* state is the same as before; that step is left out.                       *)

Readable == stream # NoStream /\ reads[stream] > 0 /\ status \in {"open", "closing"}

(* Mutant: the reconnect is also started at once. *)
ReadFailsReconnects ==
    /\ Readable
    /\ IF status = "closing" THEN UNCHANGED failures ELSE Fail
    /\ reads' = [reads EXCEPT ![stream] = @ - 1]
    /\ Disconnect(TRUE, "closed")
    /\ StartResolving
    /\ UNCHANGED <<stream, establishing, reconnectCount, delay, timers, refused, user>>

(* OnRead() with an error: the peer or the network ended the connection, or  *)
(* the pending read met the peer's answer to our closing handshake.  Either  *)
(* way the stream is closed by the time of Disconnect().                     *)
ReadFails ==
    /\ Readable
    /\ IF status = "closing" THEN UNCHANGED failures ELSE Fail
    /\ reads' = [reads EXCEPT ![stream] = @ - 1]
    /\ Disconnect(TRUE, "closed")
    /\ UNCHANGED <<stream, resolving, establishing, reconnectCount, delay, timers, refused,
                   user>>

(* OnRead() after a close with code 4014: no reconnect. *)
ReadRefused ==
    /\ Readable
    /\ Fail
    /\ reads' = [reads EXCEPT ![stream] = @ - 1]
    /\ status' = "closed"
    /\ refused' = TRUE
    /\ UNCHANGED <<stream, resolving, establishing, closes, retry, timers, user>>

(* OnRead() with operation_aborted: the stream was closed or is gone. *)
ReadAborted(s) ==
    /\ reads[s] > 0
    /\ s # stream \/ status = "closed"
    /\ reads' = [reads EXCEPT ![s] = @ - 1]
    /\ UNCHANGED <<stream, status, resolving, establishing, closes, retry, timers, refused,
                   user, failures>>

HeartbeatTimerExpires ==
    /\ heartbeatTimer.armed /\ heartbeatTimer.due < MaxDue
    /\ heartbeatTimer' = Expire(heartbeatTimer)
    /\ UNCHANGED <<ops, retry, reconnectTimer, refused, user, failures>>

(* The callback is called and the timer is set again. *)
DoHeartbeat ==
    /\ heartbeatTimer.due > 0
    /\ heartbeatTimer' = Arm(Run(heartbeatTimer))
    /\ UNCHANGED <<ops, retry, reconnectTimer, refused, user, failures>>

-----------------------------------------------------------------------------
Establish == \/ OnResolve \/ OnEstablishStep \/ OnHandshake
             \/ ReconnectTimerExpires \/ OnReconnect
             \/ \E s \in Stream : OnClose(s)

Next == \/ UserConnect \/ UserDisconnect
        \/ Establish
        \/ ResolveFails \/ SniFails
        \/ ReadFails \/ ReadRefused
        \/ \E s \in Stream : EstablishFails(s) \/ ReadAborted(s)
        \/ HeartbeatTimerExpires \/ DoHeartbeat

(* The io_context thread runs what is due; every operation that is started   *)
(* completes.                                                                *)
Fairness == WF_vars(Establish)

Spec == Init /\ [][Next]_vars
FairSpec == Spec /\ Fairness

-----------------------------------------------------------------------------
TypeOK ==
    /\ stream \in {NoStream} \cup Stream
    /\ status \in {"fresh", "open", "closing", "closed"}
    /\ resolving \in Nat
    /\ establishing \in [Stream -> {"none", "connect", "ssl", "handshake"}]
    /\ reads \in [Stream -> 0 .. 1] /\ closes \in [Stream -> Nat]
    /\ reconnect \in BOOLEAN /\ reconnectCount \in Nat /\ delay \in 0 .. 60
    /\ reconnectTimer \in [armed : BOOLEAN, due : 0 .. MaxDue]
    /\ heartbeatTimer \in [armed : BOOLEAN, due : 0 .. MaxDue]
    /\ refused \in BOOLEAN /\ wanted \in BOOLEAN

(* What keeps a connection going: an outstanding operation of the current    *)
(* stream, a resolve, or the wait for the next attempt.                      *)
Pending(flag) == IF flag THEN 1 ELSE 0

(* The user called Connect() once and has not interfered since. *)
LeftAlone == connects = 1 /\ disconnects = 0

Carriers == LET s == stream IN
    resolving + Pending(reconnectTimer.armed) + reconnectTimer.due
        + IF s = NoStream THEN 0
          ELSE Pending(establishing[s] # "none") + reads[s] + closes[s]

(* A client that is connected once and left alone carries its connection     *)
(* along one single chain through all failures: there are never two attempts *)
(* at a time, which would destroy each other's stream, and from the first    *)
(* stream on the chain never breaks, but when the server refused the client. *)
(* An old stream leaves nothing behind.                                      *)
SingleChain ==
    LeftAlone =>
        /\ Carriers <= 1
        /\ (stream # NoStream /\ ~refused) => Carriers = 1
        /\ \A s \in Stream \ {stream} :
              establishing[s] = "none" /\ reads[s] = 0 /\ closes[s] = 0

(* The chain, on states of the right shape. *)
ChainOK == TypeOK /\ SingleChain

(* Whatever the user's calls, a stream always has its one read pending from  *)
(* the time it is open until it is closed, so that nothing it sends is       *)
(* missed and its end is noticed, be it by the answer to a Disconnect().     *)
OpenIsRead == status \in {"open", "closing"} => reads[stream] = 1

(* While such a client is open its heartbeat goes on, although every         *)
(* OnClose() of an earlier stream cancels the one timer all streams share.   *)
HeartbeatLives ==
    (LeftAlone /\ stream # NoStream /\ status = "open") =>
        heartbeatTimer.armed \/ heartbeatTimer.due > 0

(* A client that got as far as its first stream is open again after every    *)
(* failure, or has been refused (OnClose() and OnReconnect() retry for ever; *)
(* failures are finitely many here).                                         *)
Recovers ==
    (stream # NoStream /\ LeftAlone) ~> (status = "open" \/ refused \/ ~LeftAlone)

(* "connection was closed, do nothing" (websocket.cpp:251): after the user's  *)
(* Disconnect(), which clears _reconnect, the client does not reconnect.     *)
(* Refuted even without any failure, by a Disconnect() of an open connection: *)
(* the pending read meets the peer's answer to our close, takes it for a      *)
(* lost connection (:254-256), and its Disconnect(true) sets _reconnect       *)
(* again.                                                                    *)
DisconnectFinal == [][OnReconnect => wanted]_vars
=============================================================================
