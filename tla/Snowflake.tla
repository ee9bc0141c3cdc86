----------------------------- MODULE Snowflake -----------------------------
(***************************************************************************)
(* The id generator of utils/snowflake.cpp: one generator per process      *)
(* (here: per host), shared by the threads of the process under a mutex,   *)
(* fed by the host's own wall clock, which may be set back.                *)
(*                                                                         *)
(* An id packs three fields: milliseconds since kStartStmp, the worker id  *)
(* derived from the host's address, and a sequence number within the       *)
(* millisecond.  The field widths are constants; in the code they are 13   *)
(* and 12 bits.  `|' of disjoint fields is addition.                       *)
(***************************************************************************)
EXTENDS Integers, Sequences

CONSTANTS Hosts, Threads,
          hostOf,         \* the host a thread runs on
          address,        \* the first three octets of a host's IPv4 address
          WorkerSize,     \* 2^kWorkerBit
          SequenceSize,   \* 2^kSequenceBit
          HighBit,        \* 2^60: with bit 63, the bits of kFirstBitRevert
          LastTick,       \* bound: the latest time of a clock
          MaxIds,         \* bound: ids issued and under way on one host
          MaxBacks        \* bound: times a clock is set back

ASSUME HostAssumption == hostOf \in [Threads -> Hosts]
ASSUME AddressAssumption == address \in [Hosts -> [1 .. 3 -> 0 .. 255]]
ASSUME WidthAssumption == /\ WorkerSize \in Nat \ {0}
                          /\ SequenceSize \in Nat \ {0}
                          /\ HighBit \in Nat \ {0}

(* ipToWorkerId: the decimal digits of the first three octets, read as one   *)
(* number, modulo 1024.                                                      *)
TenToTheDigits(n) == IF n < 10 THEN 10 ELSE IF n < 100 THEN 100 ELSE 1000
AppendDecimal(m, n) == m * TenToTheDigits(n) + n
ipToWorkerId(ip) == AppendDecimal(AppendDecimal(ip[1], ip[2]), ip[3]) % 1024

workerId == [h \in Hosts |-> ipToWorkerId(address[h])]

VARIABLES
    clock,          \* wall clock of each host, milliseconds since kStartStmp
    backs,          \* how often it was set back
    mutex,          \* mutex_ of each host's generator
    lastTimestamp,
    sequence,
    pc, timestamp,  \* each thread's place in getId() and local timestamp
    issued          \* ids returned on each host, in order

vars == <<clock, backs, mutex, lastTimestamp, sequence, pc, timestamp, issued>>

Init ==
    /\ clock \in [Hosts -> 0 .. 1]
    /\ backs = [h \in Hosts |-> 0]
    /\ mutex = [h \in Hosts |-> FALSE]
    /\ lastTimestamp = [h \in Hosts |-> -1]
    /\ sequence = [h \in Hosts |-> 0]
    /\ pc = [t \in Threads |-> "idle"]
    /\ timestamp = [t \in Threads |-> 0]
    /\ issued = [h \in Hosts |-> <<>>]

-----------------------------------------------------------------------------
Tick(h) ==
    /\ clock[h] < LastTick
    /\ clock' = [clock EXCEPT ![h] = @ + 1]
    /\ UNCHANGED <<backs, mutex, lastTimestamp, sequence, pc, timestamp, issued>>

SetBack(h) ==
    /\ backs[h] < MaxBacks
    /\ clock[h] > 0
    /\ clock' = [clock EXCEPT ![h] = @ - 1]
    /\ backs' = [backs EXCEPT ![h] = @ + 1]
    /\ UNCHANGED <<mutex, lastTimestamp, sequence, pc, timestamp, issued>>

\* Mutant: no lock_guard.
MutexIgnored(h) == TRUE
MutexFree(h) == ~mutex[h]

(* std::lock_guard; the clock is read under the lock. *)
Lock(t) ==
    LET h == hostOf[t] IN
    /\ pc[t] = "idle"
    /\ MutexFree(h)
    /\ Len(issued[h]) < MaxIds
    /\ mutex' = [mutex EXCEPT ![h] = TRUE]
    /\ pc' = [pc EXCEPT ![t] = "reading"]
    /\ UNCHANGED <<clock, backs, lastTimestamp, sequence, timestamp, issued>>

ReadClock(t) ==
    /\ pc[t] = "reading"
    /\ timestamp' = [timestamp EXCEPT ![t] = clock[hostOf[t]]]
    /\ pc' = [pc EXCEPT ![t] = "issuing"]
    /\ UNCHANGED <<clock, backs, mutex, lastTimestamp, sequence, issued>>

\* Mutant: the worker id is not shifted to its field.
PackUnshifted(time, worker, seq) == time * WorkerSize * SequenceSize + worker + seq
Pack(time, worker, seq) == (time * WorkerSize + worker) * SequenceSize + seq

(* kFirstBitRevert & id: of the bits of an id only bit 60 can survive.       *)
Mask(id) == HighBit * ((id \div HighBit) % 2)

(* The end of getIdByTs() and of getId(): remember the time, unlock, return. *)
Return(t, time, seq, masked) ==
    LET h  == hostOf[t]
        id == Pack(time, workerId[h], seq)
    IN  /\ lastTimestamp' = [lastTimestamp EXCEPT ![h] = time]
        /\ sequence' = [sequence EXCEPT ![h] = seq]
        /\ issued' = [issued EXCEPT ![h] =
                        Append(@, [id |-> IF masked THEN Mask(id) ELSE id,
                                   plain |-> id, masked |-> masked])]
        /\ mutex' = [mutex EXCEPT ![h] = FALSE]
        /\ pc' = [pc EXCEPT ![t] = "idle"]
        /\ UNCHANGED <<clock, backs, timestamp>>

\* Mutant: no `& kMaxSequence'.
NextSequenceUnmasked(h) == sequence[h] + 1
NextSequence(h) == (sequence[h] + 1) % SequenceSize

SameMillisecond(t) ==
    LET h == hostOf[t] IN
    /\ pc[t] = "issuing"
    /\ timestamp[t] = lastTimestamp[h]
    /\ NextSequence(h) # 0
    /\ Return(t, timestamp[t], NextSequence(h), FALSE)

NewMillisecond(t) ==
    /\ pc[t] = "issuing"
    /\ timestamp[t] > lastTimestamp[hostOf[t]]
    /\ Return(t, timestamp[t], 0, FALSE)

(* The clock is behind the last id: loge("Clock back"), masked result.       *)
ClockBack(t) ==
    /\ pc[t] = "issuing"
    /\ timestamp[t] < lastTimestamp[hostOf[t]]
    /\ Return(t, timestamp[t], 0, TRUE)

(* The sequence is used up: sequence_ is 0 and nextTimestamp() busy-waits.   *)
Overflow(t) ==
    LET h == hostOf[t] IN
    /\ pc[t] = "issuing"
    /\ timestamp[t] = lastTimestamp[h]
    /\ NextSequence(h) = 0
    /\ sequence' = [sequence EXCEPT ![h] = 0]
    /\ pc' = [pc EXCEPT ![t] = "spinning"]
    /\ UNCHANGED <<clock, backs, mutex, lastTimestamp, timestamp, issued>>

\* Mutants: the loop ends in the same millisecond, or one too late.
SpinOverSame(h) == clock[h] >= lastTimestamp[h]
SpinOverLate(h) == clock[h] > lastTimestamp[h] + 1
SpinOver(h) == clock[h] > lastTimestamp[h]

NextTimestamp(t) ==
    LET h == hostOf[t] IN
    /\ pc[t] = "spinning"
    /\ SpinOver(h)
    /\ Return(t, clock[h], 0, FALSE)

UnderLock(t) == \/ ReadClock(t) \/ SameMillisecond(t) \/ NewMillisecond(t)
                \/ ClockBack(t) \/ Overflow(t) \/ NextTimestamp(t)

Next == \/ \E h \in Hosts : Tick(h) \/ SetBack(h)
        \/ \E t \in Threads : Lock(t) \/ UnderLock(t)

(* Time passes, and a thread that is inside getId() keeps running.           *)
Fairness == /\ \A h \in Hosts : WF_vars(Tick(h))
            /\ \A t \in Threads : WF_vars(UnderLock(t))

Spec == Init /\ [][Next]_vars
FairSpec == Spec /\ Fairness

-----------------------------------------------------------------------------
Issued == [id : Int, plain : Int, masked : BOOLEAN]

TypeOK ==
    /\ clock \in [Hosts -> Nat]
    /\ backs \in [Hosts -> Nat]
    /\ mutex \in [Hosts -> BOOLEAN]
    /\ lastTimestamp \in [Hosts -> Nat \cup {-1}]
    /\ sequence \in [Hosts -> 0 .. SequenceSize - 1]
    /\ pc \in [Threads -> {"idle", "reading", "issuing", "spinning"}]
    /\ timestamp \in [Threads -> Nat]
    /\ issued \in [Hosts -> Seq(Issued)]

(* The generator's fields are only touched by the one thread of the host     *)
(* that holds mutex_ (snowflake.cpp:57).                                     *)
OneAtATime ==
    \A t, u \in Threads :
        /\ pc[t] # "idle" => mutex[hostOf[t]]
        /\ pc[t] # "idle" /\ pc[u] # "idle" /\ hostOf[t] = hostOf[u] => t = u

(* On a host whose clock was never set back, every id is greater than the    *)
(* ids before it: none is ever issued twice, whichever threads asked, also   *)
(* when the sequence of a millisecond runs out (snowflake.cpp:70-85).        *)
IdsIncrease ==
    \A h \in Hosts : backs[h] = 0 =>
        \A i \in 1 .. Len(issued[h]) : \A j \in 1 .. i - 1 :
            issued[h][j].id < issued[h][i].id

(* Whatever the clocks do, two hosts with different worker ids never issue   *)
(* the same unmasked id: the sequence never spills into the worker field and *)
(* the worker id never spills into the time.                                 *)
HostsDisjoint ==
    \A g, h \in Hosts : workerId[g] # workerId[h] =>
        \A i \in 1 .. Len(issued[g]), j \in 1 .. Len(issued[h]) :
            issued[g][i].plain # issued[h][j].plain

(* An id issued while the clock is behind is not the id a working clock      *)
(* gives: its first bit is reverted (snowflake.hpp:53, "revert the first     *)
(* bit").  The first bit is the sign bit, worth FirstBit below all others.   *)
FirstBit == 8 * HighBit
ClockBackRevertsFirstBit ==
    \A h \in Hosts : \A i \in 1 .. Len(issued[h]) :
        issued[h][i].masked => issued[h][i].id = issued[h][i].plain - FirstBit

(* A thread that has used up the sequence waits for the next millisecond and *)
(* then returns (snowflake.cpp:93-100), even if the clock is set back a      *)
(* bounded number of times meanwhile.                                        *)
SpinEnds ==
    \A t \in Threads :
        (pc[t] = "spinning" /\ lastTimestamp[hostOf[t]] < LastTick) ~> pc[t] = "idle"
=============================================================================
