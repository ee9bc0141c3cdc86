-------------------------- MODULE SnowflakeProofs --------------------------
(***************************************************************************)
(* On a host whose clock is never set back the ids increase strictly, and  *)
(* hosts with different worker ids never issue the same id, for any number *)
(* of hosts and threads and any field widths the worker ids fit in.        *)
(***************************************************************************)
EXTENDS Snowflake, TLAPS

USE HostAssumption, WidthAssumption

(* Multiplication by a positive factor keeps the order of integers.          *)
LEMMA TimesMonotone ==
    ASSUME NEW a \in Int, NEW b \in Int, NEW k \in Nat \ {0}, a < b
    PROVE  a * k + k <= b * k
<1>1. PICK d \in Nat : b = a + 1 + d
  <2>1. b - a - 1 \in Nat /\ b = a + 1 + (b - a - 1)
    OBVIOUS
  <2> QED BY <2>1
<1>2. b * k = a * k + k + d * k
  BY <1>1
<1>3. d * k \in Nat
  OBVIOUS
<1> QED BY <1>2, <1>3

(* Ids compare first by time and then by sequence (snowflake.cpp:83-84): the *)
(* sequence does not reach into the field above it.                          *)
LEMMA PackOrder ==
    ASSUME NEW w \in Int, NEW a \in Int, NEW b \in Int,
           NEW r \in 0 .. SequenceSize - 1, NEW s \in 0 .. SequenceSize - 1,
           a < b \/ (a = b /\ r < s)
    PROVE  Pack(a, w, r) < Pack(b, w, s)
<1>1. CASE a = b /\ r < s
  BY <1>1 DEF Pack
<1>2. CASE a < b
  <2> DEFINE x == a * WorkerSize + w
             y == b * WorkerSize + w
  <2>1. x \in Int /\ y \in Int /\ x < y
    BY <1>2, TimesMonotone
  <2> HIDE DEF x, y
  <2>2. x * SequenceSize + SequenceSize <= y * SequenceSize
    BY <2>1, TimesMonotone
  <2>3. x * SequenceSize \in Int /\ y * SequenceSize \in Int
    BY <2>1
  <2>4. x * SequenceSize + r < y * SequenceSize + s
    BY <2>2, <2>3
  <2> QED BY <2>4 DEF Pack, x, y
<1> QED BY <1>1, <1>2

LEMMA PackInt ==
    ASSUME NEW w \in Int, NEW a \in Int, NEW r \in Int
    PROVE  Pack(a, w, r) \in Int
BY SMTT(30) DEF Pack

(* A worker id is one of 0 .. 1023 (snowflake.cpp:44-45).                    *)
LEMMA WorkerIdRange == \A h \in Hosts : workerId[h] \in 0 .. 1023
<1> SUFFICES ASSUME NEW h \in Hosts PROVE ipToWorkerId(address[h]) \in 0 .. 1023
  BY ZenonT(60) DEF workerId
<1>1. /\ address[h][1] \in Nat /\ address[h][2] \in Nat /\ address[h][3] \in Nat
  <2>1. address[h] \in [1 .. 3 -> 0 .. 255]
    BY AddressAssumption
  <2>2. \A i \in 1 .. 3 : address[h][i] \in 0 .. 255
    BY <2>1
  <2> QED BY <2>2, SMTT(30)
<1>2. \A m, n \in Nat : AppendDecimal(m, n) \in Nat
  BY DEF AppendDecimal, TenToTheDigits
<1>3. AppendDecimal(AppendDecimal(address[h][1], address[h][2]), address[h][3]) \in Nat
  BY <1>1, <1>2
<1>4. \A n \in Nat : n % 1024 \in 0 .. 1023
  OBVIOUS
<1> QED BY <1>3, <1>4 DEF ipToWorkerId

-----------------------------------------------------------------------------
(* The clock of a host that was never set back is ahead of everything read   *)
(* from it.                                                                  *)
ClockAhead ==
    \A h \in Hosts : backs[h] = 0 =>
        /\ lastTimestamp[h] <= clock[h]
        /\ \A t \in Threads : hostOf[t] = h /\ pc[t] = "issuing" =>
               lastTimestamp[h] <= timestamp[t] /\ timestamp[t] <= clock[h]

(* Every id issued so far is at most the id the generator's fields stand     *)
(* for; while nextTimestamp() waits, sequence_ has been reset, and the last  *)
(* id of the millisecond is the bound.                                       *)
Spinning(h) == \E t \in Threads : hostOf[t] = h /\ pc[t] = "spinning"
Ceiling(h) == Pack(lastTimestamp[h], workerId[h],
                   IF Spinning(h) THEN SequenceSize - 1 ELSE sequence[h])
BelowCeiling ==
    \A h \in Hosts : backs[h] = 0 =>
        \A i \in 1 .. Len(issued[h]) : issued[h][i].id <= Ceiling(h)

IInv == TypeOK /\ OneAtATime /\ ClockAhead /\ BelowCeiling /\ IdsIncrease

LEMMA IssuedIsInt ==
    ASSUME NEW s \in Seq(Issued), NEW i \in 1 .. Len(s)
    PROVE  s[i].id \in Int
<1>1. s[i] \in Issued
  OBVIOUS
<1> QED BY <1>1 DEF Issued

LEMMA HostTyped ==
    ASSUME TypeOK, NEW h \in Hosts
    PROVE  /\ lastTimestamp[h] \in Int /\ clock[h] \in Nat
           /\ sequence[h] \in 0 .. SequenceSize - 1
           /\ workerId[h] \in Int
<1>1. lastTimestamp[h] \in Nat \cup {-1}
  BY DEF TypeOK
<1>2. \A x \in Nat \cup {-1} : x \in Int
  OBVIOUS
<1>3. lastTimestamp[h] \in Int
  BY <1>1, <1>2
<1>4. clock[h] \in Nat /\ sequence[h] \in 0 .. SequenceSize - 1
  BY DEF TypeOK
<1>5. \A n \in 0 .. 1023 : n \in Int
  OBVIOUS
<1>6. workerId[h] \in Int
  BY <1>5, WorkerIdRange, ZenonT(60)
<1> QED BY <1>3, <1>4, <1>6

(* An id of a later millisecond is above the ceiling.                        *)
LEMMA LaterIsAbove ==
    ASSUME TypeOK, NEW h \in Hosts, NEW time \in Nat, lastTimestamp[h] < time
    PROVE  Ceiling(h) < Pack(time, workerId[h], 0)
<1> DEFINE s == IF Spinning(h) THEN SequenceSize - 1 ELSE sequence[h]
<1>1. s \in 0 .. SequenceSize - 1 /\ 0 \in 0 .. SequenceSize - 1
  BY HostTyped
<1> HIDE DEF s
<1>2. Pack(lastTimestamp[h], workerId[h], s) < Pack(time, workerId[h], 0)
  BY <1>1, HostTyped, PackOrder
<1> QED BY <1>2 DEF Ceiling, s

(* A step that returns an id above the ceiling keeps the order; the new id   *)
(* becomes the ceiling.                                                      *)
LEMMA ReturnKeepsOrder ==
    ASSUME IInv, NEW t \in Threads, pc[t] # "idle",
           NEW time \in Nat, NEW seq \in 0 .. SequenceSize - 1, NEW masked \in BOOLEAN,
           Return(t, time, seq, masked),
           backs[hostOf[t]] = 0 =>
               /\ ~masked
               /\ time <= clock[hostOf[t]]
               /\ Ceiling(hostOf[t]) < Pack(time, workerId[hostOf[t]], seq)
    PROVE  IInv'
<1> DEFINE h == hostOf[t]
           id == Pack(time, workerId[h], seq)
           e  == [id |-> IF masked THEN Mask(id) ELSE id, plain |-> id, masked |-> masked]
<1>1. h \in Hosts /\ workerId[h] \in Int
  <2>1. h \in Hosts
    OBVIOUS
  <2> HIDE DEF h
  <2>2. \A n \in 0 .. 1023 : n \in Int
    OBVIOUS
  <2> QED BY <2>1, <2>2, WorkerIdRange, ZenonT(60)
<1>2. id \in Int /\ e \in Issued /\ (~masked => e.id = id)
  <2>1. id \in Int
    <3>1. time \in Int /\ seq \in Int
      OBVIOUS
    <3> HIDE DEF h, e
    <3>2. Pack(time, workerId[h], seq) \in Int
      BY <3>1, <1>1, PackInt
    <3> QED BY <3>2
  <2>2. Mask(id) \in Int
    <3> HIDE DEF id
    <3>1. id \div HighBit \in Int
      BY <2>1
    <3>2. (id \div HighBit) % 2 \in Int
      BY <3>1
    <3> QED BY <3>2 DEF Mask
  <2> HIDE DEF id
  <2> QED BY <2>1, <2>2 DEF Issued
<1>3. /\ lastTimestamp' = [lastTimestamp EXCEPT ![h] = time]
      /\ sequence' = [sequence EXCEPT ![h] = seq]
      /\ issued' = [issued EXCEPT ![h] = Append(@, e)]
      /\ mutex' = [mutex EXCEPT ![h] = FALSE]
      /\ pc' = [pc EXCEPT ![t] = "idle"]
      /\ UNCHANGED <<clock, backs, timestamp>>
  BY DEF Return
<1>4. /\ clock \in [Hosts -> Nat] /\ backs \in [Hosts -> Nat]
      /\ mutex \in [Hosts -> BOOLEAN]
      /\ lastTimestamp \in [Hosts -> Nat \cup {-1}]
      /\ sequence \in [Hosts -> 0 .. SequenceSize - 1]
      /\ pc \in [Threads -> {"idle", "reading", "issuing", "spinning"}]
      /\ timestamp \in [Threads -> Nat]
      /\ issued \in [Hosts -> Seq(Issued)]
  BY DEF IInv, TypeOK
<1>5. \A u \in Threads : hostOf[u] = h => pc'[u] = "idle"
  BY <1>3, <1>4 DEF IInv, OneAtATime
<1>n. /\ issued[h] \in Seq(Issued) /\ Len(issued[h]) \in Nat
      /\ issued'[h] = Append(issued[h], e)
      /\ \A g \in Hosts \ {h} : issued'[g] = issued[g]
  BY <1>1, <1>3, <1>4
<1>6. TypeOK'
  <2>1. issued' \in [Hosts -> Seq(Issued)]
    BY <1>1, <1>2, <1>3, <1>4, <1>n
  <2>2. pc' \in [Threads -> {"idle", "reading", "issuing", "spinning"}]
    BY <1>3, <1>4
  <2>3. mutex' \in [Hosts -> BOOLEAN]
    BY <1>1, <1>3, <1>4
  <2>4. lastTimestamp' \in [Hosts -> Nat \cup {-1}]
    BY <1>1, <1>3, <1>4
  <2>5. sequence' \in [Hosts -> 0 .. SequenceSize - 1]
    BY <1>1, <1>3, <1>4
  <2> QED BY <2>1, <2>2, <2>3, <2>4, <2>5, <1>3, <1>4 DEF TypeOK
<1>7. OneAtATime'
  BY <1>1, <1>3, <1>4, <1>5 DEF IInv, OneAtATime
<1>8. ClockAhead'
  BY <1>1, <1>3, <1>4, <1>5 DEF IInv, ClockAhead
<1>9. \A g \in Hosts : backs[g] = 0 /\ g = h =>
         /\ Ceiling(g)' = id
         /\ \A i \in 1 .. Len(issued[g]) : issued[g][i].id < id
  <2> SUFFICES ASSUME backs[h] = 0
               PROVE  /\ Ceiling(h)' = id
                      /\ \A i \in 1 .. Len(issued[h]) : issued[h][i].id < id
    OBVIOUS
  <2>1. ~Spinning(h)'
    BY <1>5 DEF Spinning
  <2>2. Ceiling(h)' = id
    BY <2>1, <1>1, <1>3, <1>4 DEF Ceiling
  <2>3. Ceiling(h) \in Int
    <3>1. (IF Spinning(h) THEN SequenceSize - 1 ELSE sequence[h]) \in Int
      BY <1>1, <1>4
    <3>2. lastTimestamp[h] \in Int
      BY <1>1, <1>4
    <3> QED BY <3>1, <3>2, <1>1, PackInt DEF Ceiling
  <2>4. Ceiling(h) < id
    OBVIOUS
  <2> HIDE DEF id
  <2>5. \A i \in 1 .. Len(issued[h]) : issued[h][i].id <= Ceiling(h) /\ issued[h][i].id \in Int
    BY <1>1, <1>n, IssuedIsInt DEF IInv, BelowCeiling
  <2> QED BY <2>2, <2>3, <2>4, <2>5, <1>2
<1> HIDE DEF id, e
<1>10. ASSUME NEW g \in Hosts, backs[g] = 0, g = h
       PROVE  /\ \A i \in 1 .. Len(issued[g]) + 1 : issued'[g][i].id <= Ceiling(g)'
              /\ \A i \in 1 .. Len(issued[g]) + 1 : \A j \in 1 .. i - 1 :
                     issued'[g][j].id < issued'[g][i].id
  <2>1. /\ Ceiling(g)' = id
        /\ \A i \in 1 .. Len(issued[g]) : issued[g][i].id < id
    BY <1>9, <1>10
  <2>2. /\ \A i \in 1 .. Len(issued[g]) : issued'[g][i] = issued[g][i]
        /\ issued'[g][Len(issued[g]) + 1].id = id
    BY <1>2, <1>n, <1>10, SMTT(30) DEF h, e
  <2>3. \A i \in 1 .. Len(issued[g]) : issued[g][i].id \in Int
    BY <1>n, <1>10, IssuedIsInt
  <2>4. \A i \in 1 .. Len(issued[g]) : \A j \in 1 .. i - 1 :
           issued[g][j].id < issued[g][i].id
    BY <1>10 DEF IInv, IdsIncrease
  <2>5. ASSUME NEW i \in 1 .. Len(issued[g]) + 1
        PROVE  /\ issued'[g][i].id <= Ceiling(g)'
               /\ \A j \in 1 .. i - 1 : issued'[g][j].id < issued'[g][i].id
    <3>1. Len(issued[g]) \in Nat
      BY <1>n, <1>10
    <3>2. CASE i = Len(issued[g]) + 1
      BY <3>1, <3>2, <2>1, <2>2, <2>3, <1>2
    <3>3. CASE i \in 1 .. Len(issued[g])
      <4>1. issued'[g][i].id = issued[g][i].id /\ issued[g][i].id < id
        BY <3>3, <2>1, <2>2
      <4>2. issued'[g][i].id <= Ceiling(g)'
        BY <4>1, <3>3, <2>1, <2>3, <1>2
      <4>3. ASSUME NEW j \in 1 .. i - 1
            PROVE  issued'[g][j].id < issued'[g][i].id
        <5>1. j \in 1 .. Len(issued[g])
          BY <3>1, <3>3
        <5> QED BY <5>1, <4>1, <3>3, <2>2, <2>4
      <4> QED BY <4>2, <4>3
    <3> QED BY <3>1, <3>2, <3>3
  <2> QED BY <2>5
<1>11. \A g \in Hosts \ {h} : Ceiling(g)' = Ceiling(g)
  BY <1>1, <1>3, <1>4, SMTT(30) DEF Ceiling, Spinning
<1>12. BelowCeiling' /\ IdsIncrease'
  <2> SUFFICES ASSUME NEW g \in Hosts, backs[g] = 0
               PROVE  /\ \A i \in 1 .. Len(issued'[g]) : issued'[g][i].id <= Ceiling(g)'
                      /\ \A i \in 1 .. Len(issued'[g]) : \A j \in 1 .. i - 1 :
                             issued'[g][j].id < issued'[g][i].id
    BY <1>3 DEF BelowCeiling, IdsIncrease
  <2>1. CASE g = h
    <3>1. Len(issued'[g]) = Len(issued[g]) + 1
      BY <2>1, <1>1, <1>2, <1>n
    <3> QED BY <2>1, <3>1, <1>10
  <2>2. CASE g # h
    BY <2>2, <1>11, <1>n DEF IInv, BelowCeiling, IdsIncrease
  <2> QED BY <2>1, <2>2
<1> QED BY <1>6, <1>7, <1>8, <1>12 DEF IInv

(* A step that leaves the generator and the ids alone keeps the order, if it *)
(* keeps the rest.                                                           *)
LEMMA SameCeiling ==
    ASSUME IInv, UNCHANGED <<lastTimestamp, sequence, issued>>,
           \A h \in Hosts : backs'[h] = 0 => backs[h] = 0 /\ (Spinning(h) <=> Spinning(h)')
    PROVE  BelowCeiling' /\ IdsIncrease'
<1>1. \A h \in Hosts : backs'[h] = 0 => Ceiling(h)' = Ceiling(h)
  BY DEF Ceiling
<1> QED BY <1>1 DEF IInv, BelowCeiling, IdsIncrease

LEMMA Inductive ==
    ASSUME IInv, [Next]_vars
    PROVE  IInv'
<1>1. ASSUME NEW h \in Hosts, Tick(h) PROVE IInv'
  <2>1. TypeOK' /\ OneAtATime'
    BY <1>1 DEF IInv, TypeOK, OneAtATime, Tick
  <2>2. ClockAhead'
    <3>1. \A g \in Hosts : clock[g] \in Nat /\ clock'[g] \in Nat /\ clock[g] <= clock'[g]
      BY <1>1 DEF IInv, TypeOK, Tick
    <3>2. \A g \in Hosts : lastTimestamp[g] \in Int
      BY HostTyped DEF IInv
    <3>3. \A t \in Threads : timestamp[t] \in Nat /\ hostOf[t] \in Hosts
      BY DEF IInv, TypeOK
    <3> QED BY <1>1, <3>1, <3>2, <3>3 DEF IInv, ClockAhead, Tick
  <2>3. BelowCeiling' /\ IdsIncrease'
    BY <1>1, SameCeiling DEF Tick, Spinning
  <2> QED BY <2>1, <2>2, <2>3 DEF IInv
<1>2. ASSUME NEW h \in Hosts, SetBack(h) PROVE IInv'
  <2>1. TypeOK' /\ OneAtATime'
    BY <1>2 DEF IInv, TypeOK, OneAtATime, SetBack
  <2>2. backs'[h] # 0 /\ \A g \in Hosts \ {h} : backs'[g] = backs[g] /\ clock'[g] = clock[g]
    BY <1>2 DEF IInv, TypeOK, SetBack
  <2>3. ClockAhead'
    BY <1>2, <2>2 DEF IInv, TypeOK, ClockAhead, SetBack
  <2>4. BelowCeiling' /\ IdsIncrease'
    BY <1>2, <2>2, SameCeiling DEF SetBack, Spinning
  <2> QED BY <2>1, <2>3, <2>4 DEF IInv
<1>3. ASSUME NEW t \in Threads, Lock(t) PROVE IInv'
  <2>1. TypeOK'
    BY <1>3 DEF IInv, TypeOK, Lock
  <2>2. OneAtATime'
    BY <1>3 DEF IInv, TypeOK, OneAtATime, Lock, MutexFree
  <2>3. ClockAhead'
    BY <1>3 DEF IInv, TypeOK, ClockAhead, Lock
  <2>4. BelowCeiling' /\ IdsIncrease'
    BY <1>3, SameCeiling DEF IInv, TypeOK, Lock, Spinning
  <2> QED BY <2>1, <2>2, <2>3, <2>4 DEF IInv
<1>4. ASSUME NEW t \in Threads, ReadClock(t) PROVE IInv'
  <2>1. TypeOK'
    BY <1>4 DEF IInv, TypeOK, ReadClock
  <2>2. OneAtATime'
    BY <1>4, SMTT(30) DEF IInv, TypeOK, OneAtATime, ReadClock
  <2>3. ClockAhead'
    BY <1>4 DEF IInv, TypeOK, ClockAhead, ReadClock
  <2>4. BelowCeiling' /\ IdsIncrease'
    BY <1>4, SameCeiling DEF IInv, TypeOK, ReadClock, Spinning
  <2> QED BY <2>1, <2>2, <2>3, <2>4 DEF IInv
<1>5. ASSUME NEW t \in Threads, SameMillisecond(t) PROVE IInv'
  <2> DEFINE h == hostOf[t]
  <2>1. /\ pc[t] = "issuing" /\ timestamp[t] = lastTimestamp[h] /\ NextSequence(h) # 0
        /\ Return(t, timestamp[t], NextSequence(h), FALSE)
        /\ timestamp[t] \in Nat /\ h \in Hosts
        /\ sequence[h] \in 0 .. SequenceSize - 1
    BY <1>5 DEF SameMillisecond, IInv, TypeOK
  <2>2. NextSequence(h) = sequence[h] + 1 /\ NextSequence(h) \in 0 .. SequenceSize - 1
    BY <2>1 DEF NextSequence
  <2>3. ~Spinning(h)
    BY <2>1 DEF Spinning, IInv, OneAtATime
  <2>4. Ceiling(h) = Pack(timestamp[t], workerId[h], sequence[h])
    BY <2>1, <2>3 DEF Ceiling
  <2>5. Ceiling(h) < Pack(timestamp[t], workerId[h], NextSequence(h))
    <3>1. workerId[h] \in Int /\ timestamp[t] \in Int /\ sequence[h] < NextSequence(h)
      BY <2>1, <2>2, HostTyped DEF IInv
    <3> QED BY <3>1, <2>1, <2>2, <2>4, PackOrder
  <2>6. backs[h] = 0 => timestamp[t] <= clock[h]
    BY <2>1 DEF IInv, ClockAhead
  <2> QED BY <2>1, <2>2, <2>5, <2>6, ReturnKeepsOrder
<1>6. ASSUME NEW t \in Threads, NewMillisecond(t) PROVE IInv'
  <2> DEFINE h == hostOf[t]
  <2>1. /\ pc[t] = "issuing" /\ timestamp[t] > lastTimestamp[h]
        /\ Return(t, timestamp[t], 0, FALSE)
        /\ timestamp[t] \in Nat /\ h \in Hosts
    BY <1>6 DEF NewMillisecond, IInv, TypeOK
  <2>2. Ceiling(h) < Pack(timestamp[t], workerId[h], 0)
    BY <2>1, LaterIsAbove DEF IInv
  <2>3. backs[h] = 0 => timestamp[t] <= clock[h]
    BY <2>1 DEF IInv, ClockAhead
  <2>4. 0 \in 0 .. SequenceSize - 1
    OBVIOUS
  <2> QED BY <2>1, <2>2, <2>3, <2>4, ReturnKeepsOrder
<1>7. ASSUME NEW t \in Threads, ClockBack(t) PROVE IInv'
  <2> DEFINE h == hostOf[t]
  <2>1. /\ pc[t] = "issuing" /\ timestamp[t] < lastTimestamp[h]
        /\ Return(t, timestamp[t], 0, TRUE)
        /\ timestamp[t] \in Nat /\ h \in Hosts
    BY <1>7 DEF ClockBack, IInv, TypeOK
  <2>2. backs[h] # 0
    BY <2>1, HostTyped DEF IInv, ClockAhead
  <2>3. 0 \in 0 .. SequenceSize - 1
    OBVIOUS
  <2> QED BY <2>1, <2>2, <2>3, ReturnKeepsOrder
<1>8. ASSUME NEW t \in Threads, Overflow(t) PROVE IInv'
  <2> DEFINE h == hostOf[t]
  <2>1. /\ pc[t] = "issuing" /\ NextSequence(h) = 0 /\ h \in Hosts
        /\ sequence[h] \in 0 .. SequenceSize - 1
        /\ sequence' = [sequence EXCEPT ![h] = 0]
        /\ pc' = [pc EXCEPT ![t] = "spinning"]
        /\ UNCHANGED <<clock, backs, mutex, lastTimestamp, timestamp, issued>>
    BY <1>8 DEF Overflow, IInv, TypeOK
  <2>2. TypeOK'
    BY <2>1 DEF IInv, TypeOK
  <2>3. OneAtATime'
    BY <2>1, SMTT(30) DEF IInv, TypeOK, OneAtATime
  <2>4. ClockAhead'
    BY <2>1 DEF IInv, TypeOK, ClockAhead
  <2>5. sequence[h] = SequenceSize - 1
    BY <2>1 DEF NextSequence
  <2>6. Spinning(h)' /\ ~Spinning(h)
    BY <2>1 DEF IInv, TypeOK, Spinning, OneAtATime
  <2>7. Ceiling(h)' = Ceiling(h)
    BY <2>1, <2>5, <2>6 DEF Ceiling
  <2>8. \A g \in Hosts \ {h} : Ceiling(g)' = Ceiling(g)
    BY <2>1 DEF IInv, TypeOK, Ceiling, Spinning
  <2>9. BelowCeiling' /\ IdsIncrease'
    BY <2>1, <2>7, <2>8 DEF IInv, BelowCeiling, IdsIncrease
  <2> QED BY <2>2, <2>3, <2>4, <2>9 DEF IInv
<1>9. ASSUME NEW t \in Threads, NextTimestamp(t) PROVE IInv'
  <2> DEFINE h == hostOf[t]
  <2>1. /\ pc[t] = "spinning" /\ clock[h] > lastTimestamp[h]
        /\ Return(t, clock[h], 0, FALSE)
        /\ clock[h] \in Nat /\ h \in Hosts
    BY <1>9 DEF NextTimestamp, SpinOver, IInv, TypeOK
  <2>2. Ceiling(h) < Pack(clock[h], workerId[h], 0)
    BY <2>1, LaterIsAbove DEF IInv
  <2>3. 0 \in 0 .. SequenceSize - 1 /\ clock[h] <= clock[h]
    BY <2>1
  <2>4. pc[t] # "idle"
    BY <2>1
  <2> QED BY <2>1, <2>2, <2>3, <2>4, ReturnKeepsOrder
<1>10. CASE UNCHANGED vars
  <2>1. TypeOK' /\ OneAtATime' /\ ClockAhead'
    BY <1>10 DEF IInv, TypeOK, OneAtATime, ClockAhead, vars
  <2>2. BelowCeiling' /\ IdsIncrease'
    BY <1>10, SameCeiling DEF Spinning, vars
  <2> QED BY <2>1, <2>2 DEF IInv
<1> QED BY <1>1, <1>2, <1>3, <1>4, <1>5, <1>6, <1>7, <1>8, <1>9, <1>10 DEF Next, UnderLock

LEMMA Initially == Init => IInv
<1> SUFFICES ASSUME Init PROVE IInv
  OBVIOUS
<1>1. \A h \in Hosts : issued[h] = <<>>
  BY DEF Init
<1>2. /\ clock \in [Hosts -> Nat]
      /\ lastTimestamp \in [Hosts -> Nat \cup {-1}]
  <2>1. \A n \in 0 .. 1 : n \in Nat
    OBVIOUS
  <2> QED BY <2>1 DEF Init
<1>3. TypeOK
  <2>1. issued \in [Hosts -> Seq(Issued)]
    BY DEF Init
  <2>2. sequence \in [Hosts -> 0 .. SequenceSize - 1]
    BY DEF Init
  <2>3. mutex \in [Hosts -> BOOLEAN]
    BY DEF Init
  <2>4. backs \in [Hosts -> Nat] /\ timestamp \in [Threads -> Nat]
    BY DEF Init
  <2>5. pc \in [Threads -> {"idle", "reading", "issuing", "spinning"}]
    BY DEF Init
  <2> QED BY <1>2, <2>1, <2>2, <2>3, <2>4, <2>5 DEF TypeOK
<1>4. OneAtATime /\ ClockAhead
  <2>1. \A h \in Hosts : clock[h] \in Nat /\ lastTimestamp[h] = -1
    BY <1>2 DEF Init
  <2> QED BY <2>1 DEF Init, OneAtATime, ClockAhead
<1>5. BelowCeiling /\ IdsIncrease
  BY <1>1 DEF BelowCeiling, IdsIncrease
<1> QED BY <1>3, <1>4, <1>5 DEF IInv

LEMMA Invariance == Spec => []IInv
<1>1. Init => IInv
  BY Initially
<1>2. IInv /\ [Next]_vars => IInv'
  BY Inductive
<1> QED BY <1>1, <1>2, PTL DEF Spec

-----------------------------------------------------------------------------
(* The generator's state keeps its shape: the sequence stays inside its      *)
(* field, timestamps never become negative (snowflake.hpp:36-47).            *)
THEOREM TypeCorrect == Spec => []TypeOK
BY Invariance, PTL DEF IInv

(* At most one thread of a host is inside getId().                           *)
THEOREM MutexExcludes == Spec => []OneAtATime
BY Invariance, PTL DEF IInv

(* Ids are strictly increasing on every host whose clock never went back.    *)
THEOREM IdsAreIncreasing == Spec => []IdsIncrease
BY Invariance, PTL DEF IInv
-----------------------------------------------------------------------------
(* What HostsDisjoint rests on: every id was put together from the three     *)
(* fields of its host, each inside its width.                                *)
PlainIsPacked ==
    \A h \in Hosts : \A i \in 1 .. Len(issued[h]) :
        \E time \in Nat, seq \in 0 .. SequenceSize - 1 :
            issued[h][i].plain = Pack(time, workerId[h], seq)

LEMMA ReturnPacks ==
    ASSUME IInv, PlainIsPacked, NEW t \in Threads,
           NEW time \in Nat, NEW seq \in 0 .. SequenceSize - 1, NEW masked \in BOOLEAN,
           Return(t, time, seq, masked)
    PROVE  PlainIsPacked'
<1> DEFINE h == hostOf[t]
           id == Pack(time, workerId[h], seq)
           e  == [id |-> IF masked THEN Mask(id) ELSE id, plain |-> id, masked |-> masked]
<1>1. issued' = [issued EXCEPT ![h] = Append(@, e)]
  BY DEF Return
<1>2. issued \in [Hosts -> Seq(Issued)] /\ h \in Hosts
  BY DEF IInv, TypeOK
<1>3. e.plain = id
  OBVIOUS
<1> HIDE DEF id, e
<1> SUFFICES ASSUME NEW g \in Hosts, NEW i \in 1 .. Len(issued'[g])
             PROVE  \E time_1 \in Nat, seq_1 \in 0 .. SequenceSize - 1 :
                        issued'[g][i].plain = Pack(time_1, workerId[g], seq_1)
  BY DEF PlainIsPacked
<1>4. CASE i \in 1 .. Len(issued[g])
  <2>1. issued'[g][i] = issued[g][i]
    BY <1>1, <1>2, <1>4
  <2> QED BY <1>4, <2>1 DEF PlainIsPacked
<1>5. CASE i \notin 1 .. Len(issued[g])
  <2>1. g = h /\ issued'[g][i] = e
    BY <1>1, <1>2, <1>5
  <2> QED BY <2>1, <1>3 DEF id
<1> QED BY <1>4, <1>5

LEMMA PackedInvariance == Spec => []PlainIsPacked
<1>1. Init => PlainIsPacked
  <2> SUFFICES ASSUME Init PROVE \A h \in Hosts : Len(issued[h]) = 0
    BY DEF PlainIsPacked
  <2> QED BY DEF Init
<1>2. IInv /\ PlainIsPacked /\ [Next]_vars => PlainIsPacked'
  <2> SUFFICES ASSUME IInv, PlainIsPacked, [Next]_vars PROVE PlainIsPacked'
    OBVIOUS
  <2>1. CASE issued' = issued
    BY <2>1 DEF PlainIsPacked
  <2>2. ASSUME NEW t \in Threads,
               SameMillisecond(t) \/ NewMillisecond(t) \/ ClockBack(t) \/ NextTimestamp(t)
        PROVE  PlainIsPacked'
    <3>1. /\ hostOf[t] \in Hosts /\ timestamp[t] \in Nat
          /\ clock[hostOf[t]] \in Nat
          /\ sequence[hostOf[t]] \in 0 .. SequenceSize - 1
      BY DEF IInv, TypeOK
    <3>2. NextSequence(hostOf[t]) \in 0 .. SequenceSize - 1 /\ 0 \in 0 .. SequenceSize - 1
      BY <3>1 DEF NextSequence
    <3>3. \/ Return(t, timestamp[t], NextSequence(hostOf[t]), FALSE)
          \/ Return(t, timestamp[t], 0, FALSE)
          \/ Return(t, timestamp[t], 0, TRUE)
          \/ Return(t, clock[hostOf[t]], 0, FALSE)
      BY <2>2 DEF SameMillisecond, NewMillisecond, ClockBack, NextTimestamp
    <3> QED BY <3>1, <3>2, <3>3, ReturnPacks
  <2>3. \/ issued' = issued
        \/ \E t \in Threads : SameMillisecond(t) \/ NewMillisecond(t)
                              \/ ClockBack(t) \/ NextTimestamp(t)
    BY DEF Next, UnderLock, Tick, SetBack, Lock, ReadClock, Overflow, vars
  <2> QED BY <2>1, <2>2, <2>3
<1> QED BY <1>1, <1>2, Invariance, PTL DEF Spec

(* The worker field of an id can be read back, if worker ids fit in it.      *)
LEMMA PackSeparates ==
    ASSUME NEW v \in 0 .. WorkerSize - 1, NEW w \in 0 .. WorkerSize - 1,
           NEW a \in Nat, NEW b \in Nat,
           NEW r \in 0 .. SequenceSize - 1, NEW s \in 0 .. SequenceSize - 1,
           Pack(a, v, r) = Pack(b, w, s)
    PROVE  v = w
<1>1. ASSUME NEW k \in Nat \ {0}, NEW x \in Int, NEW y \in Int,
             NEW m \in 0 .. k - 1, NEW n \in 0 .. k - 1,
             x * k + m = y * k + n
      PROVE  x = y /\ m = n
  <2>1. x * k \in Int /\ y * k \in Int
    OBVIOUS
  <2>2. ~(x < y)
    <3>1. x < y => x * k + k <= y * k
      BY TimesMonotone
    <3> QED BY <3>1, <2>1, <1>1
  <2>3. ~(y < x)
    <3>1. y < x => y * k + k <= x * k
      BY TimesMonotone
    <3> QED BY <3>1, <2>1, <1>1
  <2>4. x = y
    BY <2>2, <2>3
  <2>5. m = n
    BY <2>1, <2>4, <1>1
  <2> QED BY <2>4, <2>5
<1> DEFINE x == a * WorkerSize + v
           y == b * WorkerSize + w
<1>2. x \in Int /\ y \in Int
  OBVIOUS
<1>3. x * SequenceSize + r = y * SequenceSize + s
  BY DEF Pack
<1> HIDE DEF x, y
<1>4. x = y
  BY <1>1, <1>2, <1>3
<1>5. a * WorkerSize + v = b * WorkerSize + w
  BY <1>4 DEF x, y
<1> QED BY <1>1, <1>5

(* Two hosts with different worker ids never issue the same unmasked id,     *)
(* whatever their clocks do, if the worker ids fit in their field; they do,  *)
(* being below 1024 in a field of 13 bits (snowflake.cpp:44, snowflake.hpp:  *)
(* 42).                                                                      *)
THEOREM HostsNeverCollide ==
    ASSUME \A h \in Hosts : workerId[h] < WorkerSize
    PROVE  Spec => []HostsDisjoint
<1>1. PlainIsPacked => HostsDisjoint
  <2> SUFFICES ASSUME PlainIsPacked, NEW g \in Hosts, NEW h \in Hosts,
                      NEW i \in 1 .. Len(issued[g]), NEW j \in 1 .. Len(issued[h]),
                      issued[g][i].plain = issued[h][j].plain
               PROVE  workerId[g] = workerId[h]
    BY DEF HostsDisjoint
  <2>1. PICK a \in Nat, r \in 0 .. SequenceSize - 1 :
            issued[g][i].plain = Pack(a, workerId[g], r)
    BY DEF PlainIsPacked
  <2>2. PICK b \in Nat, s \in 0 .. SequenceSize - 1 :
            issued[h][j].plain = Pack(b, workerId[h], s)
    BY DEF PlainIsPacked
  <2>3. \A n \in 0 .. 1023 : n < WorkerSize => n \in 0 .. WorkerSize - 1
    OBVIOUS
  <2> DEFINE v == workerId[g]
             w == workerId[h]
  <2>4. v \in 0 .. 1023 /\ w \in 0 .. 1023 /\ v < WorkerSize /\ w < WorkerSize
    BY WorkerIdRange
  <2>5. Pack(a, v, r) = Pack(b, w, s)
    BY <2>1, <2>2
  <2> HIDE DEF v, w
  <2>6. v \in 0 .. WorkerSize - 1 /\ w \in 0 .. WorkerSize - 1
    BY <2>3, <2>4
  <2>7. v = w
    BY <2>5, <2>6, PackSeparates
  <2> QED BY <2>7 DEF v, w
<1> QED BY <1>1, PackedInvariance, PTL
=============================================================================
