---------------------------- MODULE RateLimiter ----------------------------
(***************************************************************************)
(* The sliding-window rate limiter of utils/c_rate_limiter.hpp, called by  *)
(* several threads at once.  allowAndRecordRequest() reads the clock, then *)
(* takes the spin lock, compares the oldest kept stamp with the window and *)
(* either returns false or records the stamp it read and returns true.     *)
(* The clock is read BEFORE the lock is taken (line 32 and line 36): stamps *)
(* can be recorded late and out of order.                                  *)
(*                                                                         *)
(* rb, the buffer of the stamps of the last requests allowed, is that of   *)
(* module RingDeque; maxCount is its capacity.  The clock is nowTsc(), in  *)
(* nanoseconds since the epoch; TLC uses small numbers for it.             *)
(***************************************************************************)
EXTENDS RingDeque, FiniteSets

CONSTANTS Threads,      \* the threads that share the limiter
          windowSize,   \* the length of the window
          Start,        \* the clock when the limiter is constructed
          LastTick,     \* bound: the clock stops here
          MaxRequests   \* bound: requests recorded and requests under way

(* now - windowSize is computed in uint64_t; since the epoch lies further    *)
(* back than any window it does not wrap.                                   *)
ASSUME TimeAssumption == /\ Elem = Nat
                         /\ windowSize \in Nat
                         /\ Start \in Nat
                         /\ Start > windowSize

maxCount == Capacity

VARIABLES
    clock,      \* what nowTsc() returns
    locked,     \* lock_flag of the spin lock
    pc,         \* where each thread is in allowAndRecordRequest()
    now,        \* each thread's local now
    history     \* every request allowed: its stamp, and the clock when it was

vars == <<clock, rb, locked, pc, now, history>>

Init ==
    /\ clock = Start
    /\ RingInit
    /\ locked = FALSE
    /\ pc = [t \in Threads |-> "idle"]
    /\ now = [t \in Threads |-> 0]
    /\ history = <<>>

Tick ==
    /\ clock < LastTick
    /\ clock' = clock + 1
    /\ UNCHANGED <<rb, locked, pc, now, history>>

(* A request arrives: the thread reads the clock, without the lock. *)
ReadClock(t) ==
    /\ pc[t] = "idle"
    /\ Len(history) + Cardinality({u \in Threads : pc[u] # "idle"}) < MaxRequests
    /\ now' = [now EXCEPT ![t] = clock]
    /\ pc' = [pc EXCEPT ![t] = "locking"]
    /\ UNCHANGED <<clock, rb, locked, history>>

(* CSpinLock: exchange() on lock_flag succeeds for the thread that finds it false. *)
\* Mutant: lock() does not look at what exchange() returned.
LockUntested == TRUE
LockFree == ~locked

\* Mutant: the early return without unlock().
UnlockForgotten == locked' = locked
Unlock == locked' = FALSE

Lock(t) ==
    /\ pc[t] = "locking"
    /\ LockFree
    /\ locked' = TRUE
    /\ pc' = [pc EXCEPT ![t] = "deciding"]
    /\ UNCHANGED <<clock, rb, now, history>>

(* f: the oldest stamp kept, 0 when there is none. *)
OldestStamp == IF rb.size > 0 THEN Front(rb) ELSE 0

windowStart(t) == now[t] - windowSize

\* Mutant: a stamp on the edge of the window is not counted.
OverLimitStrict(t) ==
    OldestStamp # 0 /\ windowStart(t) < OldestStamp /\ rb.size >= maxCount
\* Mutant: `>' for `>='.
OverLimitLate(t) ==
    OldestStamp # 0 /\ windowStart(t) <= OldestStamp /\ rb.size > maxCount
OverLimit(t) ==
    /\ OldestStamp # 0
    /\ windowStart(t) <= OldestStamp
    /\ rb.size >= maxCount

(* The window is full: unlock and return false. *)
Reject(t) ==
    /\ pc[t] = "deciding"
    /\ OverLimit(t)
    /\ Unlock
    /\ pc' = [pc EXCEPT ![t] = "idle"]
    /\ UNCHANGED <<clock, rb, now, history>>

(* The test passed; the stamp is recorded in a later step of the thread. *)
Pass(t) ==
    /\ pc[t] = "deciding"
    /\ ~OverLimit(t)
    /\ pc' = [pc EXCEPT ![t] = "recording"]
    /\ UNCHANGED <<clock, rb, locked, now, history>>

(* push_back(now), unlock, return true. *)
Record(t) ==
    /\ pc[t] = "recording"
    /\ push_back(now[t])
    /\ history' = Append(history, [stamp |-> now[t], at |-> clock])
    /\ Unlock
    /\ pc' = [pc EXCEPT ![t] = "idle"]
    /\ UNCHANGED <<clock, now>>

Next == \/ Tick
        \/ \E t \in Threads : \/ ReadClock(t) \/ Lock(t)
                              \/ Reject(t) \/ Pass(t) \/ Record(t)

(* A thread in the call keeps running; none is obliged to make a request.   *)
Fairness == \A t \in Threads : WF_vars(Lock(t) \/ Reject(t) \/ Pass(t) \/ Record(t))

Spec == Init /\ [][Next]_vars
FairSpec == Spec /\ Fairness

-----------------------------------------------------------------------------
Request == [stamp : Nat, at : Nat]

TypeOK ==
    /\ clock \in Nat /\ clock >= Start
    /\ rb \in Ring
    /\ locked \in BOOLEAN
    /\ pc \in [Threads -> {"idle", "locking", "deciding", "recording"}]
    /\ now \in [Threads -> Nat]
    /\ history \in Seq(Request)

InCriticalSection(t) == pc[t] \in {"deciding", "recording"}

(* The lock is held by exactly one thread, the one between lock() and        *)
(* unlock() (c_rate_limiter.hpp:36-58).                                      *)
MutualExclusion ==
    /\ \A t, u \in Threads : InCriticalSection(t) /\ InCriticalSection(u) => t = u
    /\ locked <=> \E t \in Threads : InCriticalSection(t)

(* The ring buffer holds the stamps of the last maxCount requests allowed,   *)
(* in the order in which they were recorded.                                 *)
Kept == IF Len(history) < maxCount THEN Len(history) ELSE maxCount
KeepsTheLastStamps ==
    /\ rb.size = Kept
    /\ \A i \in 0 .. Kept - 1 : At(rb, i) = history[Len(history) - Kept + 1 + i].stamp

(* The limiter's guarantee, whatever the order in which stamps are recorded: *)
(* a request and the one maxCount requests after it have stamps more than a  *)
(* window apart, so no window of that length holds more than maxCount stamps *)
(* ("最大请求数", the maximum number of requests, c_rate_limiter.hpp:18-23).   *)
SpacedStamps ==
    \A k \in 1 .. Len(history) - maxCount :
        history[k + maxCount].stamp > history[k].stamp + windowSize

(* The same guarantee, counted: at most maxCount stamps in any closed window. *)
StampsIn(a, b) == {k \in 1 .. Len(history) : history[k].stamp \in a .. b}
WindowNeverOverfull ==
    \A k \in 1 .. Len(history) :
        Cardinality(StampsIn(history[k].stamp, history[k].stamp + windowSize)) <= maxCount

(* The guarantee a caller of the limiter expects: at most maxCount requests   *)
(* are let through in any window of real time.  A stamp can be older than the *)
(* moment its request is allowed, because it is read before lock().           *)
AllowedIn(a, b) == {k \in 1 .. Len(history) : history[k].at \in a .. b}
AllowedNeverOverfull ==
    \A k \in 1 .. Len(history) :
        Cardinality(AllowedIn(history[k].at, history[k].at + windowSize)) <= maxCount

(* A thread that takes the spin lock always gives it back: every path of      *)
(* allowAndRecordRequest() after line 36 reaches an unlock().                 *)
LockIsReleased == locked ~> ~locked
=============================================================================
