------------------------------ MODULE WatchDog ------------------------------
(***************************************************************************)
(* The watch dog of httpx/watchdog.cpp: a timer that calls back unless its *)
(* owner disables or resets it in time.  Time is counted in seconds; the   *)
(* io_context thread may run a handler any time after it was queued, and   *)
(* the owner's calls fall between two handlers.                            *)
(***************************************************************************)
EXTENDS Naturals, AsioTimer

CONSTANTS Timeouts,     \* the timeouts Enable() is called with
          MaxCalls,     \* bound: calls of Enable(), Reset() and Disable()
          LastTick      \* bound: time

ASSUME TimeoutAssumption == /\ Timeouts \subseteq Nat \ {0}
                            /\ MaxCalls \in Nat /\ LastTick \in Nat

VARIABLES
    clock,
    timeout,        \* timeout_
    timer,          \* timer_: the wait and the handlers queued
    deadline,       \* expiry time of the outstanding wait
    watching,       \* Enable() or Reset() was called last, and no callback since
    enables,        \* calls of Enable() and Reset()
    disables,       \* calls of Disable()
    callbacks       \* calls of callback_

dogVars == <<clock, timeout, timer, deadline, watching, enables, disables, callbacks>>

DogInit ==
    /\ clock = 0 /\ timeout = 0
    /\ timer = Idle /\ deadline = 0
    /\ watching = FALSE /\ enables = 0 /\ disables = 0 /\ callbacks = 0

MoreCalls == enables + disables < MaxCalls

Tick == /\ clock < LastTick
        /\ clock' = clock + 1
        /\ UNCHANGED <<timeout, timer, deadline, watching, enables, disables, callbacks>>

(* Enable(t): a wait that is outstanding is cancelled, and a new one set.    *)
(* Mutant: the new wait is not started.                                      *)
StartUnarmed(t) ==
    /\ timeout' = t
    /\ deadline' = clock + t
    /\ timer' = Cancel(timer)
    /\ watching' = TRUE
    /\ enables' = enables + 1
    /\ UNCHANGED <<clock, disables, callbacks>>

Start(t) ==
    /\ timeout' = t
    /\ deadline' = clock + t
    /\ timer' = Arm(Cancel(timer))
    /\ watching' = TRUE
    /\ enables' = enables + 1
    /\ UNCHANGED <<clock, disables, callbacks>>

Enable == /\ MoreCalls
          /\ \E t \in Timeouts : clock + t <= LastTick /\ Start(t)

(* Before the first Enable() the timeout is 0. *)
Reset == MoreCalls /\ clock + timeout <= LastTick /\ Start(timeout)

Disable == /\ MoreCalls
           /\ timer' = Cancel(timer)
           /\ watching' = FALSE
           /\ disables' = disables + 1
           /\ UNCHANGED <<clock, timeout, deadline, enables, callbacks>>

(* The wait of the handler is over. *)
Expires == /\ timer.armed /\ clock >= deadline
           /\ timer' = Expire(timer)
           /\ UNCHANGED <<clock, timeout, deadline, watching, enables, disables, callbacks>>

(* The handler.  Mutant: it waits again. *)
CallbackRearms == /\ timer.due > 0
                  /\ timer' = Arm(Run(timer))
                  /\ callbacks' = callbacks + 1
                  /\ watching' = FALSE
                  /\ UNCHANGED <<clock, timeout, deadline, enables, disables>>

Callback == /\ timer.due > 0
            /\ timer' = Run(timer)
            /\ callbacks' = callbacks + 1
            /\ watching' = FALSE
            /\ UNCHANGED <<clock, timeout, deadline, enables, disables>>

DogNext == Tick \/ Enable \/ Reset \/ Disable \/ Expires \/ Callback

(* Time passes and the io_context thread runs. *)
DogFairness == WF_dogVars(Tick) /\ WF_dogVars(Expires) /\ WF_dogVars(Callback)

DogSpec == DogInit /\ [][DogNext]_dogVars
FairDogSpec == DogSpec /\ DogFairness

-----------------------------------------------------------------------------
DogTypeOK ==
    /\ clock \in 0 .. LastTick
    /\ timeout \in Timeouts \cup {0}
    /\ timer \in [armed : BOOLEAN, due : 0 .. MaxCalls]
    /\ deadline \in 0 .. LastTick
    /\ watching \in BOOLEAN
    /\ enables \in 0 .. MaxCalls /\ disables \in 0 .. MaxCalls
    /\ callbacks \in 0 .. MaxCalls

(* However the calls and the handlers interleave, each Enable() or Reset()   *)
(* makes at most one callback: what was called, what is queued and what may  *)
(* still expire are together no more than the calls.                         *)
OneCallbackEach ==
    /\ DogTypeOK
    /\ callbacks + timer.due + (IF timer.armed THEN 1 ELSE 0) <= enables

(* A watch dog that is on and left alone calls back: neither a cancelled     *)
(* wait nor a handler of an earlier Enable() makes it miss.                  *)
Barks == watching ~> ~watching
=============================================================================
