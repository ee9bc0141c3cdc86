-------------------------- MODULE HttpClientProofs --------------------------
(***************************************************************************)
(* connect() never leaves a handler behind, and the flag never claims a    *)
(* connection that is not there, however the calling thread, the network   *)
(* thread, the network and time interleave.                                *)
(***************************************************************************)
EXTENDS HttpClient, TLAPS

Outcome == {"none", "pending"} \cup Ended

TypeOK ==
    /\ connected \in BOOLEAN /\ stream \in {"none", "tcp", "tls", "lost"}
    /\ pc \in {"idle", "resolving", "connecting", "awaiting", "handshaking",
               "requesting", "readStarted", "reading", "gone"}
    /\ request \in BOOLEAN
    /\ connectOp \in Outcome /\ readOp \in Outcome
    /\ timer \in 0 .. connectTimeout /\ wait \in 0 .. connectWait
    /\ notified \in BOOLEAN /\ readFailed \in BOOLEAN

(* Why the wait cannot end first: as long as the connection is being made or *)
(* its handler has not run, nobody has notified, and the timer, which makes  *)
(* the handler due, ends before the wait.                                    *)
TimerBeatsWait ==
    pc = "awaiting" /\ connectOp # "none" => ~notified /\ timer < wait

(* Why a stream can be dropped: the flag was cleared before the socket is    *)
(* closed, and nothing sets it until the handler runs; that finds the stream *)
(* there if it was told so.                                                  *)
FlagIsClear == pc = "resolving" \/ connectOp = "pending" => ~connected
SuccessHasStream == connectOp = "ok" => stream # "none"

IInv == /\ TypeOK
        /\ ConnectHandlerInTime /\ TimerBeatsWait
        /\ FlagIsEarned /\ FlagIsClear /\ SuccessHasStream

USE DEF Ended, Outcome, connectTimeout, connectWait, readWait

LEMMA Initially == Init => IInv
<1> SUFFICES ASSUME Init PROVE IInv
  OBVIOUS
<1>1. /\ connected \in BOOLEAN /\ request \in BOOLEAN
      /\ notified \in BOOLEAN /\ readFailed \in BOOLEAN
  BY DEF Init
<1>2. timer \in 0 .. 1 /\ wait \in 0 .. 2
  BY DEF Init
<1>3. TypeOK
  BY <1>1, <1>2 DEF Init, TypeOK
<1>4. ConnectHandlerInTime /\ TimerBeatsWait /\ FlagIsEarned /\ FlagIsClear /\ SuccessHasStream
  BY DEF Init, ConnectHandlerInTime, TimerBeatsWait, FlagIsEarned, FlagIsClear, SuccessHasStream
<1> QED BY <1>3, <1>4 DEF IInv

LEMMA TypeStep == TypeOK /\ [Next]_vars => TypeOK'
<1> SUFFICES ASSUME TypeOK, [Next]_vars PROVE TypeOK'
  OBVIOUS
<1> USE DEF TypeOK, ops, clock, Return
<1>1. CASE Calls
  <2>1. ASSUME NEW then \in BOOLEAN, connect(then) PROVE TypeOK'
    <3>1. connected' \in BOOLEAN /\ request' \in BOOLEAN
      BY <2>1 DEF connect
    <3>2. timer' \in 0 .. connectTimeout
      BY <2>1 DEF connect
    <3> QED BY <2>1, <3>1, <3>2 DEF connect
  <2>2. ASSUME NEW ok \in BOOLEAN, handshake(ok) PROVE TypeOK'
    BY <2>2 DEF handshake
  <2>3. ASSUME NEW reached \in {"none", "tcp", "tls"}, connect_v0(reached) PROVE TypeOK'
    <3>1. connected' \in BOOLEAN
      BY <2>3 DEF connect_v0
    <3> QED BY <2>3, <3>1 DEF connect_v0
  <2>4. CASE connect_without_name \/ resolve_fails \/ async_connect
    BY <2>4 DEF connect_without_name, resolve_fails, async_connect
  <2>5. CASE performRequest \/ request_answered \/ request_fails
    BY <2>5 DEF performRequest, request_answered, request_fails
  <2>6. CASE async_write_fails \/ async_read
    BY <2>6 DEF async_write_fails, async_read
  <2>7. CASE disconnect \/ destroy
    BY <2>7 DEF disconnect, destroy
  <2> QED BY <1>1, <2>1, <2>2, <2>3, <2>4, <2>5, <2>6, <2>7 DEF Calls
<1>2. CASE Waiting
  <2>1. CASE wait_connected
    <3>1. wait' \in 0 .. connectWait
      BY <2>1 DEF wait_connected, WaitFor
    <3>2. notified' \in BOOLEAN
      BY <2>1 DEF wait_connected, WaitFor
    <3> QED BY <2>1, <3>1, <3>2 DEF wait_connected, WaitFor
  <2>2. CASE connect_waited
    BY <2>2 DEF connect_waited
  <2>3. CASE wait_read
    <3>1. wait' \in 0 .. connectWait
      BY <2>3 DEF wait_read, WaitFor
    <3>2. notified' \in BOOLEAN
      BY <2>3 DEF wait_read, WaitFor
    <3> QED BY <2>3, <3>1, <3>2 DEF wait_read, WaitFor
  <2>4. CASE read_waited
    BY <2>4 DEF read_waited
  <2> QED BY <1>2, <2>1, <2>2, <2>3, <2>4 DEF Waiting
<1>3. CASE Handlers
  BY <1>3 DEF Handlers, connect_handler, readCallback
<1>4. CASE Network
  BY <1>4 DEF Network, connect_ends, read_ends, timer_expires, stream_lost
<1>5. CASE Tick
  BY <1>5 DEF Tick, Less
<1>6. CASE UNCHANGED vars
  BY <1>6 DEF vars
<1> QED BY <1>1, <1>2, <1>3, <1>4, <1>5, <1>6 DEF Next

(* The handler's race: only the start of the wait, the passing of time and   *)
(* the end of the wait matter.                                               *)
LEMMA HandlerStep ==
    ASSUME IInv, [Next]_vars
    PROVE  ConnectHandlerInTime' /\ TimerBeatsWait'
<1> USE DEF IInv, TypeOK, ConnectHandlerInTime, TimerBeatsWait, ops, clock, Return
<1>1. CASE Calls
  BY <1>1 DEF Calls, connect, connect_without_name, resolve_fails, async_connect, handshake,
              connect_v0, performRequest, request_answered, request_fails, async_write_fails,
              async_read, disconnect, destroy
<1>2. CASE Waiting
  <2>1. CASE wait_connected
    BY <2>1 DEF wait_connected, WaitFor
  <2>2. CASE connect_waited
    BY <2>2 DEF connect_waited, Woken
  <2>3. CASE wait_read \/ read_waited
    BY <2>3 DEF wait_read, read_waited, WaitFor
  <2> QED BY <1>2, <2>1, <2>2, <2>3 DEF Waiting
<1>3. CASE Handlers
  BY <1>3 DEF Handlers, connect_handler, readCallback
<1>4. CASE Network
  BY <1>4 DEF Network, connect_ends, read_ends, timer_expires, stream_lost
<1>5. CASE Tick
  BY <1>5 DEF Tick, Less, Due
<1>6. CASE UNCHANGED vars
  BY <1>6 DEF vars
<1> QED BY <1>1, <1>2, <1>3, <1>4, <1>5, <1>6 DEF Next

(* The flag and the stream.                                                  *)
LEMMA FlagStep ==
    ASSUME IInv, [Next]_vars
    PROVE  FlagIsEarned' /\ FlagIsClear' /\ SuccessHasStream'
<1> USE DEF IInv, TypeOK, ConnectHandlerInTime, FlagIsEarned, FlagIsClear, SuccessHasStream,
            ops, clock, Return
<1>1. CASE Calls
  BY <1>1 DEF Calls, connect, connect_without_name, resolve_fails, async_connect, handshake,
              connect_v0, performRequest, request_answered, request_fails, async_write_fails,
              async_read, disconnect, destroy
<1>2. CASE Waiting
  BY <1>2 DEF Waiting, wait_connected, connect_waited, wait_read, read_waited, WaitFor
<1>3. CASE Handlers
  BY <1>3 DEF Handlers, connect_handler, readCallback
<1>4. CASE Network
  BY <1>4 DEF Network, connect_ends, read_ends, timer_expires, stream_lost
<1>5. CASE Tick
  BY <1>5 DEF Tick
<1>6. CASE UNCHANGED vars
  BY <1>6 DEF vars
<1> QED BY <1>1, <1>2, <1>3, <1>4, <1>5, <1>6 DEF Next

LEMMA Invariance == Spec => []IInv
<1>1. IInv /\ [Next]_vars => IInv'
  BY TypeStep, HandlerStep, FlagStep DEF IInv
<1> QED BY <1>1, Initially, PTL DEF Spec

-----------------------------------------------------------------------------
(* When connect() has returned, or goes on to the handshake, the handler of  *)
(* its async_connect() has run: it never writes to a frame that is gone      *)
(* (httpclient.hpp:58, 195).                                                 *)
THEOREM HandlerIsInTime == Spec => []ConnectHandlerInTime
BY Invariance, PTL DEF IInv

(* isConnected() is true only of a client whose stream was connected, also   *)
(* while an earlier read ends or another connect() is under way.             *)
THEOREM FlagIsTrue == Spec => []FlagIsEarned
BY Invariance, PTL DEF IInv
=============================================================================
