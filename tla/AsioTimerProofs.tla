-------------------------- MODULE AsioTimerProofs --------------------------
(***************************************************************************)
(* The two users of AsioTimer in httpx, for any number of queued handlers. *)
(* Web socket: a client that is left alone carries its connection along    *)
(* one single chain, its heartbeat goes on, and an open stream is always   *)
(* read, for any number of failures and streams.  Watch dog: there are at  *)
(* most as many callbacks as calls that ask for one.                       *)
(***************************************************************************)
EXTENDS WebSocket, WatchDog, TLAPS

USE BoundsAssumption

Timers(n) == [armed : BOOLEAN, due : 0 .. n]
Timer == Timers(MaxDue)

(* Streams that OnResolve() has yet to make have nothing outstanding.        *)
UnmadeIsIdle ==
    \A s \in Stream : s > stream =>
        establishing[s] = "none" /\ reads[s] = 0 /\ closes[s] = 0

(* What the status says about the operations of the current stream.          *)
StatusTells ==
    /\ stream = NoStream => status = "closed"
    /\ stream # NoStream =>
          /\ establishing[stream] # "none" => status = "fresh"
          /\ status = "fresh" => reads[stream] = 0
          /\ status \in {"open", "closing"} => reads[stream] = 1

(* Before the first call there is nothing; a close that is under way was     *)
(* asked for with the flag, as long as the user has not disconnected.        *)
BeforeFirstCall ==
    connects = 0 /\ disconnects = 0 =>
        /\ stream = NoStream /\ resolving = 0
        /\ ~reconnectTimer.armed /\ reconnectTimer.due = 0
CloseReconnects ==
    disconnects = 0 => \A s \in Stream : closes[s] > 0 => reconnect

Shape == /\ TypeOK /\ connects \in Nat /\ disconnects \in Nat
         /\ UnmadeIsIdle /\ StatusTells /\ BeforeFirstCall /\ CloseReconnects

(* The read of a client left alone ends before or with its stream, so that   *)
(* none is left to be aborted.                                               *)
NoReadLeft ==
    LeftAlone /\ stream # NoStream /\ status = "closed" => reads[stream] = 0

IInv == Shape /\ SingleChain /\ NoReadLeft /\ HeartbeatLives

-----------------------------------------------------------------------------
(* For any bound on the handlers queued. *)
LEMMA TimerSteps ==
    ASSUME NEW n \in Nat, NEW t \in Timers(n)
    PROVE  /\ Arm(t) \in Timers(n) /\ Arm(t).armed /\ Arm(t).due = t.due
           /\ Cancel(t) \in Timers(n) /\ ~Cancel(t).armed /\ Cancel(t).due = t.due
           /\ t.due < n => Expire(t) \in Timers(n)
           /\ ~Expire(t).armed /\ Expire(t).due = t.due + 1
           /\ t.due > 0 => Run(t) \in Timers(n)
           /\ Run(t).armed = t.armed /\ Run(t).due = t.due - 1
           /\ t.due \in 0 .. n /\ t.armed \in BOOLEAN
<1>1. t.armed \in BOOLEAN /\ t.due \in 0 .. n
  BY DEF Timers
<1>2. Arm(t) \in Timers(n) /\ Arm(t).armed /\ Arm(t).due = t.due
  BY DEF Timers, Arm
<1>3. Cancel(t) \in Timers(n) /\ ~Cancel(t).armed /\ Cancel(t).due = t.due
  BY DEF Timers, Cancel
<1>4. Expire(t) = [armed |-> FALSE, due |-> t.due + 1]
  BY DEF Expire
<1>5. ~Expire(t).armed /\ Expire(t).due = t.due + 1 /\ (t.due < n => Expire(t) \in Timers(n))
  BY <1>1, <1>4 DEF Timers
<1>6. Run(t).armed = t.armed /\ Run(t).due = t.due - 1
  BY DEF Timers, Run
<1>7. t.due > 0 => Run(t) \in Timers(n)
  BY <1>1 DEF Timers, Run
<1> QED BY <1>1, <1>2, <1>3, <1>5, <1>6, <1>7

LEMMA TimerOperations ==
    ASSUME NEW t \in Timer
    PROVE  /\ Arm(t) \in Timer /\ Arm(t).armed /\ Arm(t).due = t.due
           /\ Cancel(t) \in Timer /\ ~Cancel(t).armed /\ Cancel(t).due = t.due
           /\ t.due < MaxDue => Expire(t) \in Timer
           /\ ~Expire(t).armed /\ Expire(t).due = t.due + 1
           /\ t.due > 0 => Run(t) \in Timer
           /\ Run(t).armed = t.armed /\ Run(t).due = t.due - 1
           /\ t.due \in 0 .. MaxDue /\ t.armed \in BOOLEAN
BY TimerSteps DEF Timer

LEMMA IdleTimer == Idle \in Timer /\ ~Idle.armed /\ Idle.due = 0
BY DEF Idle, Timer, Timers

LEMMA DelayInRange == ASSUME reconnectCount \in Nat PROVE Delay \in 0 .. 60
BY DEF Delay

LEMMA Initially == Init => IInv
<1> SUFFICES ASSUME Init PROVE IInv
  OBVIOUS
<1>1. /\ stream = 0 /\ status = "closed" /\ resolving = 0 /\ connects = 0 /\ disconnects = 0
      /\ \A s \in Stream : establishing[s] = "none" /\ reads[s] = 0 /\ closes[s] = 0
  BY DEF Init, NoStream
<1>2. TypeOK
  <2>1. /\ establishing \in [Stream -> {"none", "connect", "ssl", "handshake"}]
        /\ reads \in [Stream -> 0 .. 1] /\ closes \in [Stream -> Nat]
    BY DEF Init
  <2>2. reconnect \in BOOLEAN /\ refused \in BOOLEAN /\ wanted \in BOOLEAN
    BY DEF Init
  <2>3. reconnectCount \in Nat /\ delay \in 0 .. 60
    BY DEF Init
  <2>4. reconnectTimer \in Timer /\ heartbeatTimer \in Timer
    BY IdleTimer DEF Init
  <2> QED BY <1>1, <2>1, <2>2, <2>3, <2>4 DEF TypeOK, Timer, Timers, NoStream
<1>3. reconnectTimer = Idle
  BY DEF Init
<1>4. Shape
  BY <1>1, <1>2, <1>3, IdleTimer DEF Shape, UnmadeIsIdle, StatusTells, BeforeFirstCall, CloseReconnects, NoStream
<1>5. SingleChain /\ NoReadLeft /\ HeartbeatLives
  BY <1>1 DEF SingleChain, NoReadLeft, HeartbeatLives, LeftAlone
<1> QED BY <1>4, <1>5 DEF IInv

-----------------------------------------------------------------------------
(* The type invariant, in the words of the proofs.                           *)
LEMMA StreamNumbers == {NoStream} \cup Stream = 0 .. MaxStreams
BY DEF NoStream, Stream

LEMMA Typed ==
    TypeOK <=> /\ stream \in 0 .. MaxStreams
               /\ status \in {"fresh", "open", "closing", "closed"}
               /\ resolving \in Nat
               /\ establishing \in [Stream -> {"none", "connect", "ssl", "handshake"}]
               /\ reads \in [Stream -> 0 .. 1] /\ closes \in [Stream -> Nat]
               /\ reconnect \in BOOLEAN /\ reconnectCount \in Nat /\ delay \in 0 .. 60
               /\ reconnectTimer \in Timer /\ heartbeatTimer \in Timer
               /\ refused \in BOOLEAN /\ wanted \in BOOLEAN
BY StreamNumbers DEF TypeOK, Timer, Timers

LEMMA StreamIsMade ==
    ASSUME TypeOK
    PROVE  /\ stream # NoStream => stream \in Stream
           /\ stream < MaxStreams => stream + 1 \in Stream /\ stream + 1 # NoStream
           /\ Stream \subseteq Nat /\ stream \in Nat
BY Typed DEF Stream, NoStream

(* Disconnect(TRUE) as every handler uses it.                                *)
LEMMA DisconnectStep ==
    ASSUME TypeOK, NEW flag \in BOOLEAN, NEW now, Disconnect(flag, now)
    PROVE  /\ reconnect' = flag
           /\ status' = IF now = "open" THEN "closing" ELSE now
           /\ closes' \in [Stream -> Nat]
           /\ stream = NoStream => closes' = closes
           /\ stream # NoStream => closes'[stream] = closes[stream] + 1
           /\ \A s \in Stream \ {stream} : closes'[s] = closes[s]
BY Typed, StreamIsMade DEF Disconnect, Closing

LEMMA TypeStep == Shape /\ [Next]_vars => TypeOK'
<1> SUFFICES ASSUME Shape, [Next]_vars PROVE TypeOK'
  OBVIOUS
<1> DEFINE TypedNow ==
        /\ stream \in 0 .. MaxStreams
        /\ status \in {"fresh", "open", "closing", "closed"}
        /\ resolving \in Nat
        /\ establishing \in [Stream -> {"none", "connect", "ssl", "handshake"}]
        /\ reads \in [Stream -> 0 .. 1] /\ closes \in [Stream -> Nat]
        /\ reconnect \in BOOLEAN /\ reconnectCount \in Nat /\ delay \in 0 .. 60
        /\ reconnectTimer \in Timer /\ heartbeatTimer \in Timer
        /\ refused \in BOOLEAN /\ wanted \in BOOLEAN
<1>t. TypeOK /\ TypedNow
  BY Typed DEF Shape
<1>s. /\ stream # NoStream => stream \in Stream
      /\ stream < MaxStreams => stream + 1 \in Stream /\ stream + 1 # NoStream
  BY <1>t, StreamIsMade
<1> SUFFICES TypedNow'
  BY StreamNumbers DEF TypeOK, Timer, Timers
<1> USE DEF ops, retry, timers, user, Fail
<1>1. CASE UserConnect
  BY <1>1, <1>t DEF UserConnect, StartResolving
<1>2. CASE UserDisconnect
  <2>1. /\ closes' \in [Stream -> Nat] /\ reconnect' \in BOOLEAN
        /\ status' \in {"fresh", "open", "closing", "closed"}
    BY <1>2, <1>t, DisconnectStep DEF UserDisconnect
  <2> QED BY <2>1, <1>2, <1>t DEF UserDisconnect
<1>3. CASE OnResolve
  BY <1>3, <1>t, <1>s DEF OnResolve
<1>4. CASE OnEstablishStep
  <2>1. Following[establishing[stream]] \in {"ssl", "handshake"}
    BY <1>4 DEF OnEstablishStep, Following
  <2> QED BY <2>1, <1>4, <1>t, <1>s DEF OnEstablishStep
<1>5. CASE OnHandshake
  <2>1. heartbeatTimer' \in Timer
    BY <1>5, <1>t, TimerOperations DEF OnHandshake
  <2>2. reads[stream] = 0
    BY <1>5, <1>t, <1>s DEF OnHandshake, Shape, StatusTells
  <2>3. reads' \in [Stream -> 0 .. 1]
    BY <2>2, <1>5, <1>t, <1>s DEF OnHandshake
  <2>4. establishing' \in [Stream -> {"none", "connect", "ssl", "handshake"}]
    BY <1>5, <1>t, <1>s DEF OnHandshake
  <2> QED BY <2>1, <2>3, <2>4, <1>5, <1>t DEF OnHandshake
<1>6. CASE ReconnectTimerExpires
  BY <1>6, <1>t, TimerOperations DEF ReconnectTimerExpires
<1>7. CASE OnReconnect
  BY <1>7, <1>t, TimerOperations DEF OnReconnect, StartResolving
<1>8. ASSUME NEW s \in Stream, OnClose(s) PROVE TypedNow'
  <2>1. heartbeatTimer' \in Timer /\ reconnectTimer' \in Timer /\ delay' \in 0 .. 60
    BY <1>8, <1>t, TimerOperations, DelayInRange DEF OnClose, StopHeartbeat
  <2>2. closes' \in [Stream -> Nat]
    BY <1>8, <1>t DEF OnClose
  <2>3. status' \in {"fresh", "open", "closing", "closed"}
    BY <1>8, <1>t DEF OnClose, ClosedBy
  <2> QED BY <2>1, <2>2, <2>3, <1>8, <1>t DEF OnClose
<1>9. CASE ResolveFails
  <2>1. /\ closes' \in [Stream -> Nat] /\ reconnect' \in BOOLEAN
        /\ status' \in {"fresh", "open", "closing", "closed"}
    BY <1>9, <1>t, DisconnectStep DEF ResolveFails
  <2> QED BY <2>1, <1>9, <1>t DEF ResolveFails
<1>10. CASE SniFails
  BY <1>10, <1>t, <1>s DEF SniFails
<1>11. CASE ReadFails
  <2>1. closes' \in [Stream -> Nat] /\ reconnect' \in BOOLEAN /\ status' = "closed"
    BY <1>11, <1>t, DisconnectStep DEF ReadFails
  <2>2. reads' \in [Stream -> 0 .. 1]
    BY <1>11, <1>t, <1>s DEF ReadFails, Readable
  <2> QED BY <2>1, <2>2, <1>11, <1>t DEF ReadFails
<1>12. CASE ReadRefused
  BY <1>12, <1>t, <1>s DEF ReadRefused, Readable
<1>13. ASSUME NEW s \in Stream, EstablishFails(s) PROVE TypedNow'
  <2>1. /\ closes' \in [Stream -> Nat] /\ reconnect' \in BOOLEAN
        /\ status' \in {"fresh", "open", "closing", "closed"}
    BY <1>13, <1>t, DisconnectStep DEF EstablishFails
  <2> QED BY <2>1, <1>13, <1>t DEF EstablishFails
<1>14. ASSUME NEW s \in Stream, ReadAborted(s) PROVE TypedNow'
  BY <1>14, <1>t DEF ReadAborted
<1>15. CASE HeartbeatTimerExpires
  BY <1>15, <1>t, TimerOperations DEF HeartbeatTimerExpires
<1>16. CASE DoHeartbeat
  <2>1. Arm(Run(heartbeatTimer)) \in Timer
    BY <1>16, <1>t, TimerOperations DEF DoHeartbeat
  <2> QED BY <2>1, <1>16, <1>t DEF DoHeartbeat
<1>17. CASE UNCHANGED vars
  BY <1>17, <1>t DEF vars
<1> QED BY <1>1, <1>2, <1>3, <1>4, <1>5, <1>6, <1>7, <1>8, <1>9, <1>10, <1>11, <1>12, <1>13,
           <1>14, <1>15, <1>16, <1>17 DEF Next, Establish

(* The facts about the state that the remaining steps rest on.               *)
ShapeFacts ==
    /\ TypeOK
    /\ stream \in 0 .. MaxStreams /\ resolving \in Nat
    /\ establishing \in [Stream -> {"none", "connect", "ssl", "handshake"}]
    /\ reads \in [Stream -> 0 .. 1] /\ closes \in [Stream -> Nat]
    /\ reconnect \in BOOLEAN /\ reconnectTimer \in Timer /\ heartbeatTimer \in Timer
    /\ connects \in Nat /\ disconnects \in Nat
    /\ stream # NoStream => stream \in Stream
    /\ stream < MaxStreams => stream + 1 \in Stream /\ stream + 1 # NoStream
    /\ Stream \subseteq Nat

LEMMA FactsOfShape == Shape => ShapeFacts
BY Typed, StreamIsMade DEF Shape, ShapeFacts

LEMMA UnmadeStep == ASSUME Shape, [Next]_vars PROVE UnmadeIsIdle'
<1>t. ShapeFacts /\ UnmadeIsIdle /\ StatusTells
  BY FactsOfShape DEF Shape
<1> USE DEF ops, UnmadeIsIdle, ShapeFacts, NoStream
<1>1. CASE UserConnect \/ UserDisconnect \/ ResolveFails \/ OnReconnect
  <2>1. \A s \in Stream \ {stream} : closes'[s] = closes[s]
    BY <1>1, <1>t, DisconnectStep DEF UserConnect, UserDisconnect, ResolveFails, OnReconnect
  <2>2. stream' = stream /\ establishing' = establishing /\ reads' = reads
    BY <1>1 DEF UserConnect, UserDisconnect, ResolveFails, OnReconnect
  <2>3. \A s \in Stream : s > stream => s \in Stream \ {stream}
    BY <1>t
  <2> QED BY <2>1, <2>2, <2>3, <1>t
<1>2. CASE OnResolve
  BY <1>2, <1>t DEF OnResolve
<1>3. CASE SniFails
  BY <1>3, <1>t DEF SniFails
<1>4. CASE OnEstablishStep \/ OnHandshake
  BY <1>4, <1>t DEF OnEstablishStep, OnHandshake
<1>5. CASE ReadFails
  <2>1. \A s \in Stream \ {stream} : closes'[s] = closes[s]
    BY <1>5, <1>t, DisconnectStep DEF ReadFails
  <2> QED BY <2>1, <1>5, <1>t DEF ReadFails, Readable
<1>6. CASE ReadRefused
  BY <1>6, <1>t DEF ReadRefused, Readable
<1>7. ASSUME NEW s \in Stream, OnClose(s) PROVE UnmadeIsIdle'
  BY <1>7, <1>t DEF OnClose
<1>8. ASSUME NEW s \in Stream, EstablishFails(s) PROVE UnmadeIsIdle'
  <2>1. \A z \in Stream \ {stream} : closes'[z] = closes[z]
    BY <1>8, <1>t, DisconnectStep DEF EstablishFails
  <2> QED BY <2>1, <1>8, <1>t DEF EstablishFails
<1>9. ASSUME NEW s \in Stream, ReadAborted(s) PROVE UnmadeIsIdle'
  BY <1>9, <1>t DEF ReadAborted
<1>10. CASE UNCHANGED ops
  BY <1>10, <1>t
<1> QED BY <1>1, <1>2, <1>3, <1>4, <1>5, <1>6, <1>7, <1>8, <1>9, <1>10
        DEF Next, Establish, ReconnectTimerExpires, HeartbeatTimerExpires, DoHeartbeat, vars

LEMMA StatusStep == ASSUME Shape, [Next]_vars PROVE StatusTells'
<1>t. ShapeFacts /\ UnmadeIsIdle /\ StatusTells
  BY FactsOfShape DEF Shape
<1> USE DEF ops, StatusTells, ShapeFacts, NoStream
<1>1. CASE UserConnect \/ UserDisconnect \/ ResolveFails \/ OnReconnect
  BY <1>1, <1>t DEF UserConnect, UserDisconnect, ResolveFails, OnReconnect, Disconnect, Closing
<1>2. CASE OnResolve
  BY <1>2, <1>t DEF OnResolve, UnmadeIsIdle
<1>3. CASE SniFails
  BY <1>3, <1>t DEF SniFails, UnmadeIsIdle
<1>4. CASE OnEstablishStep
  BY <1>4, <1>t DEF OnEstablishStep, Following
<1>5. CASE OnHandshake
  BY <1>5, <1>t DEF OnHandshake
<1>6. CASE ReadFails \/ ReadRefused
  <2>1. stream # NoStream /\ stream' = stream /\ establishing' = establishing /\ status' = "closed"
    BY <1>6 DEF ReadFails, ReadRefused, Readable, Disconnect, Closing
  <2>2. status \in {"open", "closing"}
    BY <1>6 DEF ReadFails, ReadRefused, Readable
  <2> QED BY <2>1, <2>2, <1>t
<1>7. ASSUME NEW s \in Stream, OnClose(s) PROVE StatusTells'
  <2>1. UNCHANGED <<stream, establishing, reads>>
    BY <1>7 DEF OnClose
  <2>2. status' = status \/ (status = "closing" /\ s = stream /\ status' \in {"closing", "closed"})
    BY <1>7 DEF OnClose, ClosedBy
  <2> QED BY <2>1, <2>2, <1>t
<1>8. ASSUME NEW s \in Stream, EstablishFails(s) PROVE StatusTells'
  BY <1>8, <1>t DEF EstablishFails, Disconnect, Closing
<1>9. ASSUME NEW s \in Stream, ReadAborted(s) PROVE StatusTells'
  BY <1>9, <1>t DEF ReadAborted
<1>10. CASE UNCHANGED ops
  BY <1>10, <1>t
<1> QED BY <1>1, <1>2, <1>3, <1>4, <1>5, <1>6, <1>7, <1>8, <1>9, <1>10
        DEF Next, Establish, ReconnectTimerExpires, HeartbeatTimerExpires, DoHeartbeat, vars

LEMMA FirstCallStep == ASSUME Shape, [Next]_vars PROVE BeforeFirstCall'
<1>t. ShapeFacts /\ BeforeFirstCall /\ UnmadeIsIdle /\ StatusTells
  BY FactsOfShape DEF Shape
<1> USE DEF BeforeFirstCall, ShapeFacts, ops, retry, timers, user
<1>1. CASE UserConnect
  <2>1. connects' # 0
    BY <1>1, <1>t DEF UserConnect
  <2> QED BY <2>1
<1>2. CASE UserDisconnect
  <2>1. disconnects' # 0
    BY <1>2, <1>t DEF UserDisconnect
  <2> QED BY <2>1
<1>3. CASE ~UserConnect /\ ~UserDisconnect
  <2>1. connects' = connects /\ disconnects' = disconnects
    BY <1>3 DEF Next, Establish, OnResolve, OnEstablishStep, OnHandshake, ReconnectTimerExpires,
                OnReconnect, OnClose, ResolveFails, SniFails, ReadFails, ReadRefused,
                EstablishFails, ReadAborted, HeartbeatTimerExpires, DoHeartbeat, vars
  <2> SUFFICES ASSUME connects = 0, disconnects = 0
               PROVE  UNCHANGED <<stream, resolving, reconnectTimer>>
    BY <2>1, <1>t
  <2>2. /\ stream = NoStream /\ resolving = 0
        /\ ~reconnectTimer.armed /\ reconnectTimer.due = 0
        /\ \A s \in Stream : establishing[s] = "none" /\ reads[s] = 0 /\ closes[s] = 0
    BY <1>t DEF UnmadeIsIdle, NoStream, Stream
  <2>3. ~OnResolve /\ ~OnReconnect /\ ~ReconnectTimerExpires /\ ~ResolveFails /\ ~SniFails
    BY <2>2 DEF OnResolve, OnReconnect, ReconnectTimerExpires, ResolveFails, SniFails
  <2>4. \A s \in Stream : ~OnClose(s)
    BY <2>2 DEF OnClose
  <2> QED BY <1>3, <2>3, <2>4
          DEF Next, Establish, OnEstablishStep, OnHandshake, ReadFails, ReadRefused,
              EstablishFails, ReadAborted, HeartbeatTimerExpires, DoHeartbeat, vars
<1> QED BY <1>1, <1>2, <1>3

LEMMA CloseStep == ASSUME Shape, [Next]_vars PROVE CloseReconnects'
<1>t. ShapeFacts /\ CloseReconnects
  BY FactsOfShape DEF Shape
<1> USE DEF CloseReconnects, ShapeFacts, ops, retry, timers, user
<1>1. CASE UserDisconnect
  <2>1. disconnects' # 0
    BY <1>1, <1>t DEF UserDisconnect
  <2> QED BY <2>1
<1>2. CASE reconnect'
  BY <1>2
<1>3. ASSUME NEW s \in Stream, OnClose(s) PROVE CloseReconnects'
  <2>1. \A z \in Stream : closes'[z] > 0 => closes[z] > 0
    BY <1>3, <1>t DEF OnClose
  <2> QED BY <2>1, <1>3, <1>t DEF OnClose
<1>4. CASE UNCHANGED <<closes, reconnect, disconnects>>
  BY <1>4, <1>t
<1>5. ResolveFails \/ SniFails \/ ReadFails \/ (\E s \in Stream : EstablishFails(s)) => reconnect'
  BY DEF ResolveFails, SniFails, ReadFails, EstablishFails, Disconnect
<1> QED BY <1>1, <1>2, <1>3, <1>4, <1>5
        DEF Next, Establish, UserConnect, OnResolve, OnEstablishStep, OnHandshake,
            ReconnectTimerExpires, OnReconnect, ReadRefused, ReadAborted,
            HeartbeatTimerExpires, DoHeartbeat, vars

LEMMA ShapeStep == ASSUME Shape, [Next]_vars PROVE Shape'
<1>1. connects \in Nat /\ disconnects \in Nat
  BY DEF Shape
<1>2. /\ connects' = connects \/ connects' = connects + 1
      /\ disconnects' = disconnects \/ disconnects' = disconnects + 1
  BY DEF Next, Establish, UserConnect, UserDisconnect, OnResolve, OnEstablishStep,
         OnHandshake, ReconnectTimerExpires, OnReconnect, OnClose, ResolveFails, SniFails,
         ReadFails, ReadRefused, EstablishFails, ReadAborted, HeartbeatTimerExpires,
         DoHeartbeat, vars, user
<1>3. connects' \in Nat /\ disconnects' \in Nat
  BY <1>1, <1>2
<1> QED BY <1>3, TypeStep, UnmadeStep, StatusStep, FirstCallStep, CloseStep DEF Shape

-----------------------------------------------------------------------------
(* A client left alone has at most one carrier: where one is, there is no    *)
(* other.                                                                    *)
NothingWaits == resolving = 0 /\ ~reconnectTimer.armed /\ reconnectTimer.due = 0
NothingRuns ==
    stream # NoStream =>
        establishing[stream] = "none" /\ reads[stream] = 0 /\ closes[stream] = 0

LEMMA OnlyOne ==
    ASSUME ShapeFacts, LeftAlone, SingleChain
    PROVE  /\ resolving > 0 =>
                resolving = 1 /\ ~reconnectTimer.armed /\ reconnectTimer.due = 0 /\ NothingRuns
           /\ reconnectTimer.armed => resolving = 0 /\ reconnectTimer.due = 0 /\ NothingRuns
           /\ reconnectTimer.due > 0 =>
                reconnectTimer.due = 1 /\ resolving = 0 /\ ~reconnectTimer.armed /\ NothingRuns
           /\ stream # NoStream =>
                /\ establishing[stream] # "none" =>
                     reads[stream] = 0 /\ closes[stream] = 0 /\ NothingWaits
                /\ reads[stream] > 0 =>
                     /\ reads[stream] = 1 /\ establishing[stream] = "none"
                     /\ closes[stream] = 0 /\ NothingWaits
                /\ closes[stream] > 0 =>
                     /\ closes[stream] = 1 /\ establishing[stream] = "none"
                     /\ reads[stream] = 0 /\ NothingWaits
           /\ \A s \in Stream :
                establishing[s] # "none" \/ reads[s] > 0 \/ closes[s] > 0 =>
                    s = stream /\ stream # NoStream
<1>t. /\ resolving \in Nat /\ reconnectTimer.due \in Nat
      /\ stream # NoStream => reads[stream] \in Nat /\ closes[stream] \in Nat
  <2>1. reconnectTimer.due \in 0 .. MaxDue
    BY TimerOperations DEF ShapeFacts
  <2> QED BY <2>1 DEF ShapeFacts
<1> DEFINE a == Pending(reconnectTimer.armed)
           e == Pending(establishing[stream] # "none")
<1>p. /\ a \in Nat /\ e \in Nat
      /\ a = 0 <=> ~reconnectTimer.armed
      /\ e = 0 <=> establishing[stream] = "none"
  BY DEF Pending
<1>1. Carriers = resolving + a + reconnectTimer.due
                   + IF stream = NoStream THEN 0 ELSE e + reads[stream] + closes[stream]
  BY DEF Carriers
<1>2. Carriers <= 1
  BY DEF SingleChain
<1>3. \A s \in Stream \ {stream} : establishing[s] = "none" /\ reads[s] = 0 /\ closes[s] = 0
  BY DEF SingleChain
<1>4. NoStream \notin Stream
  BY DEF NoStream, Stream
<1> HIDE DEF a, e
<1>5. CASE stream = NoStream
  <2>1. resolving + a + reconnectTimer.due <= 1
    BY <1>1, <1>2, <1>5, <1>t, <1>p
  <2>2. /\ resolving > 0 => resolving = 1 /\ a = 0 /\ reconnectTimer.due = 0
        /\ a # 0 => resolving = 0 /\ reconnectTimer.due = 0
        /\ reconnectTimer.due > 0 => reconnectTimer.due = 1 /\ resolving = 0 /\ a = 0
    BY <2>1, <1>t, <1>p
  <2> QED BY <2>2, <1>p, <1>3, <1>4, <1>5 DEF NothingRuns
<1>6. CASE stream # NoStream
  <2> DEFINE x == reads[stream]
             y == closes[stream]
             d == reconnectTimer.due
  <2>0. x \in Nat /\ y \in Nat /\ d \in Nat
    BY <1>t, <1>6
  <2>1. resolving + a + d + (e + x + y) <= 1
    BY <1>1, <1>2, <1>6
  <2> HIDE DEF x, y, d
  <2>2. /\ resolving > 0 => resolving = 1 /\ a = 0 /\ d = 0 /\ e = 0 /\ x = 0 /\ y = 0
        /\ a # 0 => resolving = 0 /\ d = 0 /\ e = 0 /\ x = 0 /\ y = 0
        /\ d > 0 => d = 1 /\ resolving = 0 /\ a = 0 /\ e = 0 /\ x = 0 /\ y = 0
    BY <2>0, <2>1, <1>t, <1>p
  <2>3. /\ e # 0 => x = 0 /\ y = 0 /\ resolving = 0 /\ a = 0 /\ d = 0
        /\ x > 0 => x = 1 /\ e = 0 /\ y = 0 /\ resolving = 0 /\ a = 0 /\ d = 0
        /\ y > 0 => y = 1 /\ e = 0 /\ x = 0 /\ resolving = 0 /\ a = 0 /\ d = 0
    BY <2>0, <2>1, <1>t, <1>p
  <2>4. \A s \in Stream : (establishing[s] # "none" \/ reads[s] > 0 \/ closes[s] > 0) => s = stream
    BY <1>3
  <2> QED BY <2>2, <2>3, <2>4, <1>p, <1>6 DEF NothingRuns, NothingWaits, x, y, d
<1> QED BY <1>5, <1>6

LEMMA FactsOfShapeNext == Shape' => ShapeFacts'
BY FactsOfShape, PTL

(* What is outstanding, by what it is carried.                                *)
Running(op, rd, cl) ==
    /\ stream # NoStream
    /\ establishing[stream] = op /\ reads[stream] = rd /\ closes[stream] = cl
CarriedBy(carrier) ==
    \/ carrier = "resolve" /\ resolving = 1 /\ ~reconnectTimer.armed /\ reconnectTimer.due = 0
                           /\ NothingRuns
    \/ carrier = "delay" /\ resolving = 0 /\ reconnectTimer.armed /\ reconnectTimer.due = 0
                         /\ NothingRuns
    \/ carrier = "retry" /\ resolving = 0 /\ ~reconnectTimer.armed /\ reconnectTimer.due = 1
                         /\ NothingRuns
    \/ carrier = "chain" /\ NothingWaits /\ \E op \in {"connect", "ssl", "handshake"} : Running(op, 0, 0)
    \/ carrier = "read" /\ NothingWaits /\ Running("none", 1, 0)
    \/ carrier = "close" /\ NothingWaits /\ Running("none", 0, 1)
    \/ carrier = "nothing" /\ NothingWaits /\ NothingRuns
Carrier == {"resolve", "delay", "retry", "chain", "read", "close", "nothing"}

CountTells == \A c \in Carrier : CarriedBy(c) => Carriers = IF c = "nothing" THEN 0 ELSE 1

LEMMA CarriedCount == ShapeFacts => CountTells
<1> SUFFICES ASSUME ShapeFacts, NEW c \in Carrier, CarriedBy(c)
             PROVE  Carriers = IF c = "nothing" THEN 0 ELSE 1
  BY DEF CountTells
<1> USE DEF NothingWaits, NothingRuns
<1> DEFINE a == Pending(reconnectTimer.armed)
           d == reconnectTimer.due
           e == Pending(establishing[stream] # "none")
           x == reads[stream]
           y == closes[stream]
<1>p. /\ ~reconnectTimer.armed => a = 0
      /\ reconnectTimer.armed => a = 1
      /\ establishing[stream] = "none" => e = 0
      /\ establishing[stream] # "none" => e = 1
  BY DEF Pending
<1>1. CASE stream = NoStream
  <2>1. Carriers = resolving + a + d + 0
    BY <1>1 DEF Carriers
  <2>2. \/ c = "resolve" /\ resolving = 1 /\ a = 0 /\ d = 0
        \/ c = "delay" /\ resolving = 0 /\ a = 1 /\ d = 0
        \/ c = "retry" /\ resolving = 0 /\ a = 0 /\ d = 1
        \/ c = "nothing" /\ resolving = 0 /\ a = 0 /\ d = 0
    BY <1>1, <1>p DEF CarriedBy, Running, Carrier
  <2> HIDE DEF a, d
  <2> QED BY <2>1, <2>2
<1>2. CASE stream # NoStream
  <2>1. Carriers = resolving + a + d + (e + x + y)
    BY <1>2 DEF Carriers
  <2>2. \/ c = "resolve" /\ resolving = 1 /\ a = 0 /\ d = 0 /\ e = 0 /\ x = 0 /\ y = 0
        \/ c = "delay" /\ resolving = 0 /\ a = 1 /\ d = 0 /\ e = 0 /\ x = 0 /\ y = 0
        \/ c = "retry" /\ resolving = 0 /\ a = 0 /\ d = 1 /\ e = 0 /\ x = 0 /\ y = 0
        \/ c = "chain" /\ resolving = 0 /\ a = 0 /\ d = 0 /\ e = 1 /\ x = 0 /\ y = 0
        \/ c = "read" /\ resolving = 0 /\ a = 0 /\ d = 0 /\ e = 0 /\ x = 1 /\ y = 0
        \/ c = "close" /\ resolving = 0 /\ a = 0 /\ d = 0 /\ e = 0 /\ x = 0 /\ y = 1
        \/ c = "nothing" /\ resolving = 0 /\ a = 0 /\ d = 0 /\ e = 0 /\ x = 0 /\ y = 0
    BY <1>2, <1>p DEF CarriedBy, Running, Carrier
  <2> HIDE DEF a, d, e, x, y
  <2> QED BY <2>1, <2>2
<1> QED BY <1>1, <1>2

LEMMA CarriedCountNext == ShapeFacts' => CountTells'
BY CarriedCount, PTL

-----------------------------------------------------------------------------
(* Every handler takes one carrier and leaves the next.                      *)
OthersIdle ==
    \A s \in Stream \ {stream} : establishing[s] = "none" /\ reads[s] = 0 /\ closes[s] = 0
Carried == \E c \in Carrier : CarriedBy(c) /\ (c = "nothing" => refused \/ stream = NoStream)
Alive == status = "open" => heartbeatTimer.armed \/ heartbeatTimer.due > 0
ReadIsOver == stream # NoStream /\ status = "closed" => reads[stream] = 0
Linked == OthersIdle /\ Carried /\ ReadIsOver /\ Alive

LEMMA ChainIsCarried ==
    ASSUME ShapeFacts, LeftAlone, SingleChain
    PROVE  Carried
<1>t. /\ resolving \in Nat /\ reconnectTimer.due \in Nat
      /\ stream # NoStream => reads[stream] \in Nat /\ closes[stream] \in Nat
      /\ stream # NoStream => establishing[stream] \in {"none", "connect", "ssl", "handshake"}
  <2>1. reconnectTimer.due \in 0 .. MaxDue
    BY TimerOperations DEF ShapeFacts
  <2> QED BY <2>1 DEF ShapeFacts
<1> USE DEF CarriedBy, Carrier, Running
<1>1. resolving > 0 => CarriedBy("resolve")
  BY OnlyOne
<1>2. reconnectTimer.armed => CarriedBy("delay")
  BY OnlyOne
<1>3. reconnectTimer.due > 0 => CarriedBy("retry")
  BY OnlyOne
<1>4. stream # NoStream /\ establishing[stream] # "none" => CarriedBy("chain")
  BY <1>t, OnlyOne
<1>5. stream # NoStream /\ reads[stream] > 0 => CarriedBy("read")
  BY OnlyOne
<1>6. stream # NoStream /\ closes[stream] > 0 => CarriedBy("close")
  BY OnlyOne
<1>7. CASE NothingWaits /\ NothingRuns
  <2>1. CarriedBy("nothing")
    BY <1>7
  <2>2. Carriers = 0
    BY <2>1, CarriedCount DEF CountTells
  <2>3. refused \/ stream = NoStream
    BY <2>2 DEF SingleChain
  <2> QED BY <2>1, <2>3 DEF Carried
<1>8. CASE ~(NothingWaits /\ NothingRuns)
  <2>1. \/ resolving > 0 \/ reconnectTimer.armed \/ reconnectTimer.due > 0
        \/ /\ stream # NoStream
           /\ establishing[stream] # "none" \/ reads[stream] > 0 \/ closes[stream] > 0
    BY <1>8, <1>t DEF NothingWaits, NothingRuns
  <2> QED BY <2>1, <1>1, <1>2, <1>3, <1>4, <1>5, <1>6 DEF Carried
<1> QED BY <1>7, <1>8

LEMMA FirstCallLinks ==
    ASSUME IInv, UserConnect, LeftAlone'
    PROVE  Linked'
<1>1. connects = 0 /\ disconnects = 0
  BY DEF UserConnect, LeftAlone, IInv, Shape
<1>2. /\ stream = NoStream /\ resolving = 0 /\ status = "closed"
      /\ ~reconnectTimer.armed /\ reconnectTimer.due = 0
      /\ \A s \in Stream : establishing[s] = "none" /\ reads[s] = 0 /\ closes[s] = 0
  BY <1>1 DEF IInv, Shape, BeforeFirstCall, StatusTells, UnmadeIsIdle, NoStream, Stream
<1>3. /\ UNCHANGED <<stream, status, establishing, reads, closes, reconnectTimer>>
      /\ resolving' = 1
  BY <1>2 DEF UserConnect, StartResolving, timers
<1>4. CarriedBy("resolve")'
  BY <1>2, <1>3 DEF CarriedBy, NothingRuns
<1> QED BY <1>2, <1>3, <1>4 DEF Linked, OthersIdle, Carried, Carrier, ReadIsOver, Alive

LEMMA HandlerLinks ==
    ASSUME IInv, LeftAlone, Next, ~UserConnect, ~UserDisconnect
    PROVE  Linked'
<1>t. ShapeFacts /\ SingleChain /\ Shape
  BY FactsOfShape DEF IInv
<1>f. /\ stream \in Nat /\ NoStream \notin Stream /\ Stream \subseteq Nat
      /\ stream # NoStream => stream \in Stream
      /\ stream < MaxStreams => stream + 1 \in Stream /\ stream + 1 # NoStream
                                /\ stream + 1 # stream
      /\ establishing \in [Stream -> {"none", "connect", "ssl", "handshake"}]
      /\ reads \in [Stream -> 0 .. 1] /\ closes \in [Stream -> Nat]
      /\ reconnectTimer \in Timer /\ heartbeatTimer \in Timer /\ resolving \in Nat
  BY <1>t DEF ShapeFacts, NoStream, Stream
<1>o. /\ OthersIdle
      /\ stream < MaxStreams =>
            establishing[stream + 1] = "none" /\ reads[stream + 1] = 0 /\ closes[stream + 1] = 0
  <2>1. OthersIdle
    BY <1>t DEF SingleChain, OthersIdle
  <2> QED BY <2>1, <1>f DEF OthersIdle
<1>w. (stream = NoStream => status = "closed") /\ ReadIsOver /\ Alive
  <2>1. Alive
    BY <1>t DEF IInv, HeartbeatLives, Alive, Shape, StatusTells, NoStream
  <2> QED BY <2>1, <1>t DEF IInv, Shape, StatusTells, NoReadLeft, ReadIsOver
<1>r. \A s \in Stream : closes[s] > 0 => reconnect
  BY <1>t DEF Shape, CloseReconnects, LeftAlone
<1> USE DEF Linked, Carrier, NothingWaits, NothingRuns, Running, ops, retry, timers, user
<1>1. CASE OnResolve
  <2>1. NothingRuns /\ resolving = 1 /\ ~reconnectTimer.armed /\ reconnectTimer.due = 0
    BY <1>1, <1>t, OnlyOne DEF OnResolve
  <2>2. /\ stream' = stream + 1 /\ stream' \in Stream /\ status' = "fresh" /\ resolving' = 0
        /\ establishing' = [establishing EXCEPT ![stream + 1] = "connect"]
        /\ UNCHANGED <<reads, closes, reconnectTimer>>
    BY <1>1, <1>f, <2>1 DEF OnResolve
  <2>3. /\ establishing'[stream'] = "connect" /\ reads'[stream'] = 0 /\ closes'[stream'] = 0
        /\ stream' # NoStream
    BY <1>1, <2>2, <1>f, <1>o DEF OnResolve
  <2>4. CarriedBy("chain")'
    BY <2>1, <2>2, <2>3 DEF CarriedBy
  <2>5. OthersIdle'
    <3> SUFFICES ASSUME NEW s \in Stream, s # stream'
                 PROVE  establishing'[s] = "none" /\ reads'[s] = 0 /\ closes'[s] = 0
      BY DEF OthersIdle
    <3>1. establishing'[s] = establishing[s]
      BY <2>2, <1>f
    <3>2. CASE s = stream
      BY <3>1, <3>2, <2>1, <2>2, <1>f
    <3>3. CASE s # stream
      BY <3>1, <3>3, <2>2, <1>o DEF OthersIdle
    <3> QED BY <3>2, <3>3
  <2> QED BY <2>2, <2>4, <2>5 DEF Carried, ReadIsOver, Alive
<1>2. CASE OnEstablishStep
  <2>1. /\ stream # NoStream /\ NothingWaits /\ reads[stream] = 0 /\ closes[stream] = 0
    BY <1>2, <1>t, OnlyOne DEF OnEstablishStep
  <2>2. /\ establishing'[stream] \in {"ssl", "handshake"}
        /\ \A s \in Stream \ {stream} : establishing'[s] = establishing[s]
    BY <1>2, <1>f, <2>1 DEF OnEstablishStep, Following
  <2>3. UNCHANGED <<stream, status, resolving, reads, closes, reconnectTimer, heartbeatTimer>>
    BY <1>2 DEF OnEstablishStep
  <2>4. CarriedBy("chain")'
    BY <2>1, <2>2, <2>3 DEF CarriedBy
  <2> QED BY <2>2, <2>3, <2>4, <1>o, <1>w DEF Carried, ReadIsOver, Alive, OthersIdle
<1>3. CASE OnHandshake
  <2>1. /\ stream # NoStream /\ NothingWaits /\ reads[stream] = 0 /\ closes[stream] = 0
    BY <1>3, <1>t, OnlyOne DEF OnHandshake
  <2>2. /\ establishing'[stream] = "none" /\ reads'[stream] = 1
        /\ \A s \in Stream \ {stream} : establishing'[s] = establishing[s] /\ reads'[s] = reads[s]
    BY <1>3, <1>f, <2>1 DEF OnHandshake
  <2>3. UNCHANGED <<stream, resolving, closes, reconnectTimer>> /\ status' = "open"
    BY <1>3 DEF OnHandshake
  <2>4. heartbeatTimer'.armed
    BY <1>3, <1>f, TimerOperations DEF OnHandshake
  <2>5. CarriedBy("read")'
    BY <2>1, <2>2, <2>3 DEF CarriedBy
  <2> QED BY <2>2, <2>3, <2>4, <2>5, <1>o DEF Carried, ReadIsOver, Alive, OthersIdle
<1>4. CASE ReconnectTimerExpires
  <2>1. NothingRuns /\ resolving = 0 /\ reconnectTimer.due = 0
    BY <1>4, <1>t, OnlyOne DEF ReconnectTimerExpires
  <2>2. UNCHANGED <<stream, status, resolving, establishing, reads, closes, heartbeatTimer>>
    BY <1>4 DEF ReconnectTimerExpires
  <2>3. ~reconnectTimer'.armed /\ reconnectTimer'.due = 1
    BY <1>4, <2>1, <1>f, TimerOperations DEF ReconnectTimerExpires
  <2>4. CarriedBy("retry")'
    BY <2>1, <2>2, <2>3 DEF CarriedBy
  <2> QED BY <2>2, <2>4, <1>o, <1>w DEF Carried, ReadIsOver, Alive, OthersIdle
<1>5. CASE OnReconnect
  <2>1. NothingRuns /\ resolving = 0 /\ reconnectTimer.due = 1 /\ ~reconnectTimer.armed
    BY <1>5, <1>t, OnlyOne DEF OnReconnect
  <2>2. UNCHANGED <<stream, status, establishing, reads, closes, heartbeatTimer>>
    BY <1>5 DEF OnReconnect
  <2>3. ~reconnectTimer'.armed /\ reconnectTimer'.due = 0 /\ resolving' = 1
    BY <1>5, <2>1, <1>f, TimerOperations DEF OnReconnect, StartResolving
  <2>4. CarriedBy("resolve")'
    BY <2>1, <2>2, <2>3 DEF CarriedBy
  <2> QED BY <2>2, <2>4, <1>o, <1>w DEF Carried, ReadIsOver, Alive, OthersIdle
<1>6. ASSUME NEW s \in Stream, OnClose(s) PROVE Linked'
  <2>1. s = stream /\ stream # NoStream
    BY <1>6, <1>t, OnlyOne DEF OnClose
  <2>2. /\ closes[stream] = 1 /\ establishing[stream] = "none" /\ reads[stream] = 0
        /\ NothingWaits /\ reconnect
    BY <1>6, <2>1, <1>r, <1>t, OnlyOne DEF OnClose
  <2>3. status # "open" /\ status # "closing"
    BY <2>1, <2>2, <1>t DEF Shape, StatusTells
  <2>4. /\ closes'[stream] = 0 /\ \A z \in Stream \ {stream} : closes'[z] = closes[z]
    BY <1>6, <2>1, <2>2, <1>f DEF OnClose
  <2>5. UNCHANGED <<stream, status, resolving, establishing, reads>>
    BY <1>6, <2>3 DEF OnClose, ClosedBy
  <2>6. reconnectTimer'.armed /\ reconnectTimer'.due = 0
    BY <1>6, <2>2, <1>f, TimerOperations DEF OnClose
  <2>7. CarriedBy("delay")'
    BY <2>2, <2>4, <2>5, <2>6 DEF CarriedBy
  <2> QED BY <2>3, <2>4, <2>5, <2>7, <1>o, <1>w DEF Carried, ReadIsOver, Alive, OthersIdle
<1>7. CASE ResolveFails
  <2>1. NothingRuns /\ resolving = 1 /\ ~reconnectTimer.armed /\ reconnectTimer.due = 0
    BY <1>7, <1>t, OnlyOne DEF ResolveFails
  <2>a. status # "open"
    BY <2>1, <1>t, <1>w DEF Shape, StatusTells
  <2>2. /\ UNCHANGED <<stream, status, establishing, reads, reconnectTimer, heartbeatTimer>>
        /\ resolving' = 0
    BY <1>7, <2>1, <2>a DEF ResolveFails, Disconnect, Closing
  <2>3. /\ stream = NoStream => closes' = closes
        /\ stream # NoStream => closes'[stream] = closes[stream] + 1
        /\ \A z \in Stream \ {stream} : closes'[z] = closes[z]
    BY <1>7, <1>t, DisconnectStep DEF ResolveFails, ShapeFacts
  <2>4. IF stream = NoStream THEN CarriedBy("nothing")' ELSE CarriedBy("close")'
    BY <2>1, <2>2, <2>3 DEF CarriedBy
  <2> QED BY <2>2, <2>3, <2>4, <1>o, <1>w DEF Carried, ReadIsOver, Alive, OthersIdle
<1>8. CASE SniFails
  <2>1. NothingRuns /\ resolving = 1 /\ ~reconnectTimer.armed /\ reconnectTimer.due = 0
    BY <1>8, <1>t, OnlyOne DEF SniFails
  <2>2. /\ stream' = stream + 1 /\ stream' \in Stream /\ status' = "fresh" /\ resolving' = 0
        /\ closes' = [closes EXCEPT ![stream + 1] = @ + 1]
        /\ UNCHANGED <<establishing, reads, reconnectTimer>>
    BY <1>8, <1>f, <2>1 DEF SniFails
  <2>3. /\ establishing'[stream'] = "none" /\ reads'[stream'] = 0 /\ closes'[stream'] = 1
        /\ stream' # NoStream
    BY <1>8, <2>2, <1>f, <1>o DEF SniFails
  <2>4. CarriedBy("close")'
    BY <2>1, <2>2, <2>3 DEF CarriedBy
  <2>5. OthersIdle'
    <3> SUFFICES ASSUME NEW s \in Stream, s # stream'
                 PROVE  establishing'[s] = "none" /\ reads'[s] = 0 /\ closes'[s] = 0
      BY DEF OthersIdle
    <3>1. closes'[s] = closes[s]
      BY <2>2, <1>f
    <3>2. CASE s = stream
      BY <3>1, <3>2, <2>1, <2>2, <1>f
    <3>3. CASE s # stream
      BY <3>1, <3>3, <2>2, <1>o DEF OthersIdle
    <3> QED BY <3>2, <3>3
  <2> QED BY <2>2, <2>4, <2>5 DEF Carried, ReadIsOver, Alive
<1>9. CASE ReadFails
  <2>1. /\ stream # NoStream /\ reads[stream] = 1 /\ establishing[stream] = "none"
        /\ closes[stream] = 0 /\ NothingWaits
    BY <1>9, <1>t, OnlyOne DEF ReadFails, Readable
  <2>2. /\ UNCHANGED <<stream, resolving, establishing, reconnectTimer, heartbeatTimer>>
        /\ status' = "closed"
    BY <1>9 DEF ReadFails, Disconnect, Closing
  <2>3. /\ closes'[stream] = 1
        /\ \A z \in Stream \ {stream} : closes'[z] = closes[z]
    <3>1. Disconnect(TRUE, "closed") /\ TypeOK
      BY <1>9, <1>t DEF ReadFails, ShapeFacts
    <3>2. closes'[stream] = closes[stream] + 1
      BY <3>1, <2>1, DisconnectStep
    <3>3. closes'[stream] = 1
      BY <3>2, <2>1
    <3> QED BY <3>1, <3>3, DisconnectStep
  <2>4. reads'[stream] = 0 /\ \A z \in Stream \ {stream} : reads'[z] = reads[z]
    BY <1>9, <2>1, <1>f DEF ReadFails
  <2>5. CarriedBy("close")'
    BY <2>1, <2>2, <2>3, <2>4 DEF CarriedBy
  <2> QED BY <2>2, <2>3, <2>4, <2>5, <1>o DEF Carried, ReadIsOver, Alive, OthersIdle
<1>10. CASE ReadRefused
  <2>1. /\ stream # NoStream /\ reads[stream] = 1 /\ establishing[stream] = "none"
        /\ closes[stream] = 0 /\ NothingWaits
    BY <1>10, <1>t, OnlyOne DEF ReadRefused, Readable
  <2>2. /\ UNCHANGED <<stream, resolving, establishing, closes, reconnectTimer>>
        /\ status' = "closed" /\ refused'
    BY <1>10 DEF ReadRefused
  <2>3. reads'[stream] = 0 /\ \A z \in Stream \ {stream} : reads'[z] = reads[z]
    BY <1>10, <2>1, <1>f DEF ReadRefused
  <2>4. CarriedBy("nothing")'
    BY <2>1, <2>2, <2>3 DEF CarriedBy
  <2> QED BY <2>2, <2>3, <2>4, <1>o DEF Carried, ReadIsOver, Alive, OthersIdle
<1>11. ASSUME NEW s \in Stream, EstablishFails(s) PROVE Linked'
  <2>1. s = stream /\ stream # NoStream /\ reads[stream] = 0 /\ closes[stream] = 0 /\ NothingWaits
    BY <1>11, <1>t, OnlyOne DEF EstablishFails
  <2>a. status # "open"
    BY <2>1, <1>t DEF Shape, StatusTells
  <2>2. UNCHANGED <<stream, status, resolving, reads, reconnectTimer, heartbeatTimer>>
    BY <1>11, <2>a DEF EstablishFails, Disconnect, Closing
  <2>3. /\ closes'[stream] = 1
        /\ \A z \in Stream \ {stream} : closes'[z] = closes[z]
    <3>1. Disconnect(TRUE, status) /\ TypeOK
      BY <1>11, <1>t DEF EstablishFails, ShapeFacts
    <3>2. closes'[stream] = closes[stream] + 1
      BY <3>1, <2>1, DisconnectStep
    <3>3. closes'[stream] = 1
      BY <3>2, <2>1
    <3> QED BY <3>1, <3>3, DisconnectStep
  <2>4. /\ establishing'[stream] = "none"
        /\ \A z \in Stream \ {stream} : establishing'[z] = establishing[z]
    BY <1>11, <2>1, <1>f DEF EstablishFails
  <2>5. CarriedBy("close")'
    BY <2>1, <2>2, <2>3, <2>4 DEF CarriedBy
  <2> QED BY <2>2, <2>3, <2>4, <2>5, <1>o, <1>w DEF Carried, ReadIsOver, Alive, OthersIdle
<1>12. \A s \in Stream : ~ReadAborted(s)
  <2> SUFFICES ASSUME NEW s \in Stream, ReadAborted(s) PROVE FALSE
    OBVIOUS
  <2>1. s = stream /\ stream # NoStream
    BY <1>t, OnlyOne DEF ReadAborted
  <2> QED BY <2>1, <1>w DEF ReadAborted, ReadIsOver
<1>13. CASE HeartbeatTimerExpires \/ DoHeartbeat
  <2>1. UNCHANGED <<stream, status, resolving, establishing, reads, closes, reconnectTimer, refused>>
    BY <1>13 DEF HeartbeatTimerExpires, DoHeartbeat
  <2>2. heartbeatTimer'.armed \/ heartbeatTimer'.due > 0
    <3>1. CASE HeartbeatTimerExpires
      BY <3>1, <1>f, TimerOperations DEF HeartbeatTimerExpires
    <3>2. CASE DoHeartbeat
      BY <3>2, <1>f, TimerOperations DEF DoHeartbeat
    <3> QED BY <1>13, <3>1, <3>2
  <2>3. Carried
    BY <1>t, ChainIsCarried
  <2> QED BY <2>1, <2>2, <2>3, <1>o, <1>w DEF Carried, CarriedBy, ReadIsOver, Alive, OthersIdle
<1> QED BY <1>1, <1>2, <1>3, <1>4, <1>5, <1>6, <1>7, <1>8, <1>9, <1>10, <1>11, <1>12, <1>13
        DEF Next, Establish

LEMMA ChainStep ==
    ASSUME IInv, [Next]_vars
    PROVE  SingleChain' /\ NoReadLeft' /\ HeartbeatLives'
<1>1. CASE UNCHANGED vars
  <2>1. UNCHANGED <<ops, reconnectTimer, heartbeatTimer, refused, connects, disconnects>>
    BY <1>1 DEF vars, timers, user
  <2> QED BY <2>1 DEF ops, IInv, SingleChain, NoReadLeft, HeartbeatLives, LeftAlone, Carriers
<1>2. CASE Next /\ LeftAlone'
  <2>1. ShapeFacts' /\ Shape'
    BY ShapeStep, FactsOfShapeNext DEF IInv
  <2>2. Linked'
    <3>1. ~UserDisconnect
      <4>1. disconnects \in Nat
        BY DEF IInv, Shape
      <4>2. disconnects' = 0
        BY <1>2 DEF LeftAlone
      <4>3. disconnects' # disconnects + 1
        BY <4>1, <4>2
      <4> QED BY <4>3 DEF UserDisconnect
    <3>2. CASE UserConnect
      BY <3>2, <1>2, FirstCallLinks
    <3>3. CASE ~UserConnect
      <4>1. connects' = connects /\ disconnects' = disconnects
        BY <1>2, <3>1, <3>3
           DEF Next, Establish, OnResolve, OnEstablishStep, OnHandshake, ReconnectTimerExpires,
               OnReconnect, OnClose, ResolveFails, SniFails, ReadFails, ReadRefused,
               EstablishFails, ReadAborted, HeartbeatTimerExpires, DoHeartbeat, user
      <4>2. LeftAlone
        BY <4>1, <1>2 DEF LeftAlone
      <4> QED BY <4>2, <1>2, <3>1, <3>3, HandlerLinks
    <3> QED BY <3>2, <3>3
  <2>3. PICK c \in Carrier : CarriedBy(c)' /\ (c = "nothing" => refused' \/ stream' = NoStream)
    BY <2>2 DEF Linked, Carried
  <2>4. Carriers' = IF c = "nothing" THEN 0 ELSE 1
    BY <2>1, <2>3, CarriedCountNext DEF CountTells
  <2>5. SingleChain'
    BY <2>2, <2>3, <2>4 DEF SingleChain, Linked, OthersIdle
  <2>6. NoReadLeft' /\ HeartbeatLives'
    BY <2>2 DEF NoReadLeft, HeartbeatLives, Linked, ReadIsOver, Alive
  <2> QED BY <2>5, <2>6
<1>3. CASE ~LeftAlone'
  BY <1>3 DEF SingleChain, NoReadLeft, HeartbeatLives
<1> QED BY <1>1, <1>2, <1>3

LEMMA Invariance == Spec => []IInv
<1>1. IInv /\ [Next]_vars => IInv'
  BY ShapeStep, ChainStep DEF IInv
<1> QED BY <1>1, Initially, PTL DEF Spec

-----------------------------------------------------------------------------
(* A client that is connected once and left alone carries its connection     *)
(* along one single chain through all failures (websocket.cpp:95-260).       *)
THEOREM ChainHolds == Spec => []ChainOK
<1>1. IInv => ChainOK
  BY DEF IInv, Shape, ChainOK
<1> QED BY <1>1, Invariance, PTL

(* A stream has exactly one read pending from the time it is open until it   *)
(* is closed, whatever the user calls.                                       *)
THEOREM OpenStreamIsRead == Spec => []OpenIsRead
<1>1. IInv => OpenIsRead
  BY DEF IInv, Shape, StatusTells, OpenIsRead
<1> QED BY <1>1, Invariance, PTL

(* The heartbeat of an open client that was left alone goes on, although     *)
(* each OnClose() cancels the timer that all its streams share.              *)
THEOREM HeartbeatGoesOn == Spec => []HeartbeatLives
BY Invariance, PTL DEF IInv

-----------------------------------------------------------------------------
(* The watch dog.                                                            *)
USE TimeoutAssumption

Armed(t) == IF t.armed THEN 1 ELSE 0
Owed == callbacks + timer.due + Armed(timer)

LEMMA TimerFacts ==
    ASSUME DogTypeOK
    PROVE  /\ timer \in Timers(MaxCalls)
           /\ timer.armed \in BOOLEAN /\ timer.due \in Nat /\ Armed(timer) \in {0, 1}
           /\ callbacks \in Nat /\ enables \in 0 .. MaxCalls /\ disables \in Nat
           /\ Cancel(timer) \in Timers(MaxCalls)
           /\ Armed(Cancel(timer)) = 0 /\ Cancel(timer).due = timer.due
           /\ Arm(Cancel(timer)) \in Timers(MaxCalls)
           /\ Armed(Arm(Cancel(timer))) = 1 /\ Arm(Cancel(timer)).due = timer.due
           /\ Armed(Run(timer)) = Armed(timer) /\ Run(timer).due = timer.due - 1
           /\ timer.due > 0 => Run(timer) \in Timers(MaxCalls)
           /\ Armed(Expire(timer)) = 0 /\ Expire(timer).due = timer.due + 1
           /\ timer.due < MaxCalls => Expire(timer) \in Timers(MaxCalls)
<1>1. timer \in Timers(MaxCalls) /\ timer.due \in 0 .. MaxCalls /\ timer.armed \in BOOLEAN
  BY DEF DogTypeOK, Timers
<1>2. /\ Cancel(timer) \in Timers(MaxCalls)
      /\ ~Cancel(timer).armed /\ Cancel(timer).due = timer.due
  BY <1>1, TimerSteps
<1>3. /\ Arm(Cancel(timer)) \in Timers(MaxCalls)
      /\ Arm(Cancel(timer)).armed /\ Arm(Cancel(timer)).due = timer.due
  BY <1>2, TimerSteps
<1>4. /\ Run(timer).armed = timer.armed /\ Run(timer).due = timer.due - 1
      /\ timer.due > 0 => Run(timer) \in Timers(MaxCalls)
      /\ ~Expire(timer).armed /\ Expire(timer).due = timer.due + 1
      /\ timer.due < MaxCalls => Expire(timer) \in Timers(MaxCalls)
  BY <1>1, TimerSteps
<1>5. timer.due \in Nat /\ Armed(timer) \in {0, 1}
  BY <1>1 DEF Armed
<1>6. callbacks \in Nat /\ enables \in 0 .. MaxCalls /\ disables \in Nat
  BY DEF DogTypeOK
<1>7. /\ Armed(Cancel(timer)) = 0 /\ Armed(Arm(Cancel(timer))) = 1
      /\ Armed(Run(timer)) = Armed(timer) /\ Armed(Expire(timer)) = 0
  BY <1>2, <1>3, <1>4 DEF Armed
<1> QED BY <1>1, <1>2, <1>3, <1>4, <1>5, <1>6, <1>7

(* A call pays for the wait it starts, whatever it cancels. *)
LEMMA StartPays ==
    ASSUME OneCallbackEach, MoreCalls,
           NEW t \in Timeouts \cup {0}, clock + t <= LastTick, Start(t)
    PROVE  OneCallbackEach'
<1>1. DogTypeOK /\ Owed <= enables
  BY DEF OneCallbackEach, Owed, Armed
<1>2. /\ timer' \in Timers(MaxCalls) /\ Armed(timer') = 1 /\ timer'.due = timer.due
      /\ enables' = enables + 1 /\ callbacks' = callbacks
  BY <1>1, TimerFacts DEF Start
<1>3. Owed' <= enables'
  BY <1>1, <1>2, TimerFacts DEF Owed
<1>4. enables' \in 0 .. MaxCalls
  BY <1>1, <1>2, TimerFacts DEF MoreCalls
<1>5. clock + t \in 0 .. LastTick
  BY <1>1 DEF DogTypeOK
<1>6. DogTypeOK'
  BY <1>1, <1>2, <1>4, <1>5 DEF Start, DogTypeOK, Timers
<1> QED BY <1>3, <1>6 DEF OneCallbackEach, Owed, Armed

LEMMA DogInductive == OneCallbackEach /\ [DogNext]_dogVars => OneCallbackEach'
<1> SUFFICES ASSUME OneCallbackEach, [DogNext]_dogVars
             PROVE  OneCallbackEach'
  OBVIOUS
<1>1. DogTypeOK /\ Owed <= enables
  BY DEF OneCallbackEach, Owed, Armed
<1>2. timeout \in Timeouts \cup {0}
  BY <1>1 DEF DogTypeOK
<1>3. CASE Tick
  <2>1. Owed' = Owed /\ enables' = enables
    BY <1>3 DEF Tick, Owed, Armed
  <2>2. DogTypeOK'
    BY <1>1, <1>3 DEF Tick, DogTypeOK
  <2> QED BY <1>1, <2>1, <2>2 DEF OneCallbackEach, Owed, Armed
<1>4. CASE Enable
  BY <1>4, StartPays DEF Enable
<1>5. CASE Reset
  BY <1>2, <1>5, StartPays DEF Reset
<1>6. CASE Disable
  <2>1. /\ timer' \in Timers(MaxCalls) /\ Armed(timer') = 0 /\ timer'.due = timer.due
        /\ enables' = enables /\ callbacks' = callbacks
    BY <1>1, <1>6, TimerFacts DEF Disable
  <2>2. Owed' <= enables'
    BY <1>1, <2>1, TimerFacts DEF Owed
  <2>3. disables' \in 0 .. MaxCalls
    BY <1>1, <1>6, TimerFacts DEF Disable, MoreCalls
  <2>4. DogTypeOK'
    BY <1>1, <1>6, <2>1, <2>3 DEF Disable, DogTypeOK, Timers
  <2> QED BY <2>2, <2>4 DEF OneCallbackEach, Owed, Armed
<1>7. CASE Expires
  <2>1. /\ Armed(timer) = 1 /\ Armed(timer') = 0 /\ timer'.due = timer.due + 1
        /\ enables' = enables /\ callbacks' = callbacks
    BY <1>1, <1>7, TimerFacts DEF Expires, Armed
  <2>2. Owed' <= enables' /\ timer.due < MaxCalls
    BY <1>1, <2>1, TimerFacts DEF Owed
  <2>3. timer' \in Timers(MaxCalls)
    BY <1>1, <1>7, <2>2, TimerFacts DEF Expires
  <2>4. DogTypeOK'
    BY <1>1, <1>7, <2>3 DEF Expires, DogTypeOK, Timers
  <2> QED BY <2>2, <2>4 DEF OneCallbackEach, Owed, Armed
<1>8. CASE Callback
  <2>1. /\ Armed(timer') = Armed(timer) /\ timer'.due = timer.due - 1 /\ timer.due > 0
        /\ timer' \in Timers(MaxCalls)
        /\ enables' = enables /\ callbacks' = callbacks + 1
    BY <1>1, <1>8, TimerFacts DEF Callback
  <2>2. Owed' <= enables' /\ callbacks + 1 \in 0 .. MaxCalls
    BY <1>1, <2>1, TimerFacts DEF Owed
  <2>3. DogTypeOK'
    BY <1>1, <1>8, <2>1, <2>2 DEF Callback, DogTypeOK, Timers
  <2> QED BY <2>2, <2>3 DEF OneCallbackEach, Owed, Armed
<1>9. CASE UNCHANGED dogVars
  <2>1. Owed' = Owed /\ enables' = enables
    BY <1>9 DEF dogVars, Owed, Armed
  <2>2. DogTypeOK'
    BY <1>1, <1>9 DEF dogVars, DogTypeOK
  <2> QED BY <1>1, <2>1, <2>2 DEF OneCallbackEach, Owed, Armed
<1> QED BY <1>3, <1>4, <1>5, <1>6, <1>7, <1>8, <1>9 DEF DogNext

(* However the owner's calls and the handlers interleave, each Enable() or    *)
(* Reset() makes at most one callback (watchdog.cpp:12-27).                  *)
THEOREM CallsBackOnce == DogSpec => []OneCallbackEach
<1>1. DogInit => OneCallbackEach
  <2> SUFFICES ASSUME DogInit PROVE OneCallbackEach
    OBVIOUS
  <2>1. timer \in Timers(MaxCalls) /\ ~timer.armed /\ timer.due = 0
    BY DEF DogInit, Idle, Timers
  <2>2. DogTypeOK
    <3>1. /\ clock \in 0 .. LastTick /\ timeout \in Timeouts \cup {0} /\ deadline \in 0 .. LastTick
          /\ enables \in 0 .. MaxCalls /\ disables \in 0 .. MaxCalls
          /\ callbacks \in 0 .. MaxCalls
      BY DEF DogInit
    <3>2. watching \in BOOLEAN
      BY DEF DogInit
    <3> QED BY <2>1, <3>1, <3>2 DEF DogTypeOK, Timers
  <2> QED BY <2>1, <2>2 DEF DogInit, OneCallbackEach
<1>2. OneCallbackEach /\ [DogNext]_dogVars => OneCallbackEach'
  BY DogInductive
<1> QED BY <1>1, <1>2, PTL DEF DogSpec
=============================================================================
