------------------------ MODULE HttpClientPoolProofs ------------------------
(***************************************************************************)
(* The pool never loses a client nor hands one out twice, for any number   *)
(* of users, any capacity of its queues and any number of clients.         *)
(***************************************************************************)
EXTENDS HttpClientPool, FiniteSetTheorems, SequenceTheorems, TLAPS

USE CapacityAssumption, UserAssumption, PoolAssumption

(* A queue that no client is in twice.                                       *)
OnceIn(queue) ==
    \A i, j \in 1 .. Len(queue.items) : queue.items[i] = queue.items[j] => i = j

Busy == {"connecting", "using", "pooling", "closing"}
Out == {"using", "pooling", "closing"}
UsersAt(places) == {u \in Users : pc[u] \in places}

(* Where the clients are: a user has a client exactly while it is busy, and  *)
(* a client is with one user, or in one queue at one position, or deleted or *)
(* dropped.                                                                  *)
Places ==
    /\ \A u \in Users : client[u] = NoClient <=> pc[u] = "idle"
    /\ \A u, v \in Users : client[u] = client[v] /\ client[u] # NoClient => u = v
    /\ OnceIn(pool) /\ OnceIn(closedPool)
    /\ \A u \in Users : client[u] # NoClient =>
          /\ client[u] \notin Items(pool) /\ client[u] \notin Items(closedPool)
          /\ client[u] \notin deleted /\ client[u] \notin failed
    /\ \A c \in Items(pool) : c \notin Items(closedPool) /\ c \notin deleted /\ c \notin failed
    /\ \A c \in Items(closedPool) : c \notin deleted /\ c \notin failed
    /\ 1 .. made = Held \cup Items(pool) \cup Items(closedPool) \cup deleted \cup failed

(* What release() read of the flag is true until the push is done, for       *)
(* nobody but the user has its client.                                       *)
Flags ==
    /\ \A u \in Users : /\ pc[u] = "pooling" => isConnected(client[u])
                        /\ pc[u] = "closing" => ~isConnected(client[u])
    /\ SortedByFlag

(* The same, counted.                                                        *)
NBusy == Cardinality(UsersAt(Busy))
NOut == Cardinality(UsersAt(Out))
NConnecting == Cardinality(UsersAt({"connecting"}))
NPooled == Len(pool.items)
NClosed == Len(closedPool.items)
NDeleted == Cardinality(deleted)
NFailed == Cardinality(failed)

Counts ==
    /\ made = NBusy + NPooled + NClosed + NDeleted + NFailed
    /\ trackingCount = NOut - (made - NFailed - NConnecting)
    /\ NPooled + NBusy <= Cardinality(Users)

IInv == TypeOK /\ Places /\ Flags /\ Counts

-----------------------------------------------------------------------------
(* The two ends of a queue.                                                  *)
LEMMA QueueTyped ==
    ASSUME NEW q \in Queue(Client)
    PROVE  /\ q.items \in Seq(Client) /\ q.lock \in Users \cup {Nobody}
           /\ Len(q.items) \in Nat /\ Items(q) \subseteq Client
BY DEF Queue, Items

LEMMA PoppedQueue ==
    ASSUME NEW q \in Queue(Client), q.items # << >>, OnceIn(q)
    PROVE  /\ Popped(q) \in Queue(Client)
           /\ Len(Popped(q).items) = Len(q.items) - 1
           /\ Head(q.items) \in Client
           /\ Items(q) = Items(Popped(q)) \cup {Head(q.items)}
           /\ Head(q.items) \notin Items(Popped(q))
           /\ OnceIn(Popped(q))
<1> DEFINE s == q.items
           t == Tail(s)
<1>1. s \in Seq(Client) /\ s # << >> /\ Len(s) \in Nat /\ Len(s) > 0
  BY QueueTyped, EmptySeq
<1>2. Popped(q) \in Queue(Client) /\ Popped(q).items = t
  BY <1>1, HeadTailProperties DEF Popped, Queue
<1>3. /\ Head(s) = s[1] /\ Head(s) \in Client /\ Len(t) = Len(s) - 1
      /\ \A i \in 1 .. Len(t) : t[i] = s[i + 1]
  BY <1>1, HeadTailProperties
<1>4. \A i, j \in 1 .. Len(s) : s[i] = s[j] => i = j
  BY DEF OnceIn
<1> HIDE DEF s, t
<1>5. Items(q) = {s[i] : i \in 1 .. Len(s)} /\ Items(Popped(q)) = {t[i] : i \in 1 .. Len(t)}
  BY <1>2 DEF Items, s
<1>6. \A i \in 1 .. Len(s) : i = 1 \/ (i - 1 \in 1 .. Len(t) /\ (i - 1) + 1 = i)
  BY <1>1, <1>3
<1>7. \A i \in 1 .. Len(t) : i + 1 \in 1 .. Len(s) /\ i + 1 # 1
  BY <1>1, <1>3
<1>8. 1 \in 1 .. Len(s)
  BY <1>1
<1>9. Items(q) = Items(Popped(q)) \cup {Head(s)}
  <2>1. \A i \in 1 .. Len(s) : s[i] = s[1] \/ \E j \in 1 .. Len(t) : s[i] = t[j]
    BY <1>3, <1>6
  <2> QED BY <2>1, <1>3, <1>5, <1>7, <1>8
<1>10. Head(s) \notin Items(Popped(q))
  BY <1>3, <1>4, <1>5, <1>7, <1>8
<1>11. OnceIn(Popped(q))
  <2> SUFFICES ASSUME NEW i \in 1 .. Len(t), NEW j \in 1 .. Len(t), t[i] = t[j] PROVE i = j
    BY <1>2 DEF OnceIn
  <2>1. i + 1 = j + 1
    BY <1>3, <1>4, <1>7
  <2> QED BY <2>1
<1> QED BY <1>2, <1>3, <1>9, <1>10, <1>11 DEF s

LEMMA PushedQueue ==
    ASSUME NEW q \in Queue(Client), NEW x \in Client, OnceIn(q), x \notin Items(q)
    PROVE  /\ Pushed(q, x) \in Queue(Client)
           /\ Len(Pushed(q, x).items) = Len(q.items) + 1
           /\ Items(Pushed(q, x)) = Items(q) \cup {x}
           /\ OnceIn(Pushed(q, x))
<1> DEFINE s == q.items
           t == Append(s, x)
<1>1. s \in Seq(Client) /\ Len(s) \in Nat
  BY QueueTyped
<1>2. /\ t \in Seq(Client) /\ Len(t) = Len(s) + 1 /\ t[Len(s) + 1] = x
      /\ \A i \in 1 .. Len(s) : t[i] = s[i]
  BY <1>1, AppendProperties
<1>3. Pushed(q, x) \in Queue(Client) /\ Pushed(q, x).items = t
  BY <1>2 DEF Pushed, Queue
<1>4. \A i, j \in 1 .. Len(s) : s[i] = s[j] => i = j
  BY DEF OnceIn
<1>5. Items(q) = {s[i] : i \in 1 .. Len(s)} /\ Items(Pushed(q, x)) = {t[i] : i \in 1 .. Len(t)}
  BY <1>3 DEF Items
<1> HIDE DEF s, t
<1>6. \A i \in 1 .. Len(t) : i = Len(s) + 1 \/ i \in 1 .. Len(s)
  BY <1>1, <1>2
<1>7. Len(s) + 1 \in 1 .. Len(t) /\ \A i \in 1 .. Len(s) : i \in 1 .. Len(t)
  BY <1>1, <1>2
<1>8. Items(Pushed(q, x)) = Items(q) \cup {x}
  BY <1>2, <1>5, <1>6, <1>7
<1>9. OnceIn(Pushed(q, x))
  <2> SUFFICES ASSUME NEW i \in 1 .. Len(t), NEW j \in 1 .. Len(t), t[i] = t[j] PROVE i = j
    BY <1>3 DEF OnceIn
  <2>1. \A k \in 1 .. Len(s) : s[k] # x
    BY <1>5
  <2> QED BY <2>1, <1>2, <1>4, <1>6
<1> QED BY <1>2, <1>3, <1>8, <1>9 DEF s

LEMMA TakenQueue ==
    ASSUME NEW q \in Queue(Client), NEW u \in Users
    PROVE  TakenBy(q, u) \in Queue(Client) /\ TakenBy(q, u).items = q.items
BY DEF TakenBy, Queue

-----------------------------------------------------------------------------
LEMMA Initially == Init => IInv
<1> SUFFICES ASSUME Init PROVE IInv
  OBVIOUS
<1>1. /\ pool = EmptyQueue /\ closedPool = EmptyQueue /\ trackingCount = 0 /\ made = 0
      /\ failed = {} /\ deleted = {}
      /\ \A c \in Client : status[c] = "down"
      /\ \A u \in Users : pc[u] = "idle" /\ client[u] = NoClient
  BY DEF Init
<1>2. EmptyQueue \in Queue(Client) /\ Len(EmptyQueue.items) = 0 /\ Items(EmptyQueue) = {}
  <2>1. EmptyQueue.items = << >> /\ << >> \in Seq(Client) /\ Len(<< >>) = 0
    BY EmptySeq DEF EmptyQueue
  <2> QED BY <2>1 DEF EmptyQueue, Queue, Items
<1>3. Held = {} /\ 1 .. made = {}
  BY <1>1 DEF Held
<1>4. TypeOK
  <2>1. /\ status \in [Client -> connectOutcomes]
        /\ pc \in [Users -> {"idle", "connecting", "using", "pooling", "closing"}]
        /\ client \in [Users -> Client \cup {NoClient}]
    BY DEF Init, connectOutcomes
  <2> QED BY <1>1, <1>2, <2>1 DEF TypeOK
<1>5. Places
  <2>1. OnceIn(EmptyQueue)
    BY <1>2 DEF OnceIn
  <2> QED BY <1>1, <1>2, <1>3, <2>1 DEF Places
<1>6. Flags
  BY <1>1, <1>2 DEF Flags, SortedByFlag
<1>7. Counts
  <2>1. UsersAt(Busy) = {} /\ UsersAt(Out) = {} /\ UsersAt({"connecting"}) = {}
    BY <1>1 DEF UsersAt, Busy, Out
  <2>2. Cardinality(Users) \in Nat
    BY FS_CardinalityType
  <2>3. Cardinality({}) = 0
    BY FS_EmptySet
  <2>4. Len(pool.items) = 0 /\ Len(closedPool.items) = 0
    BY <1>1, <1>2
  <2>5. Cardinality(failed) = 0 /\ Cardinality(deleted) = 0
    BY <1>1, <2>3
  <2>6. /\ Cardinality(UsersAt(Busy)) = 0 /\ Cardinality(UsersAt(Out)) = 0
        /\ Cardinality(UsersAt({"connecting"})) = 0
    BY <2>1, <2>3
  <2>7. made = 0 /\ trackingCount = 0
    BY <1>1
  <2> QED BY <2>2, <2>4, <2>5, <2>6, <2>7
          DEF Counts, NBusy, NOut, NConnecting, NPooled, NClosed, NDeleted, NFailed
<1> QED BY <1>4, <1>5, <1>6, <1>7 DEF IInv

-----------------------------------------------------------------------------
(* The invariant goes from one state to the next, first the types.           *)
LEMMA TypeStep == ASSUME IInv, [Next]_vars PROVE TypeOK'
<1> USE DEF TypeOK, queues
<1>0. /\ TypeOK /\ Places
      /\ \A u \in Users : pc[u] # "idle" => client[u] \in Client
  BY DEF IInv, Places
<1>1. ASSUME NEW u \in Users, AcquirePooled(u) PROVE TypeOK'
  <2>1. /\ Popped(pool) \in Queue(Client) /\ Len(Popped(pool).items) <= Capacity
        /\ Head(pool.items) \in Client
    <3>1. /\ Popped(pool) \in Queue(Client) /\ Head(pool.items) \in Client
          /\ Len(Popped(pool).items) = Len(pool.items) - 1
      BY <1>0, <1>1, PoppedQueue DEF AcquirePooled, Places
    <3>2. Len(pool.items) \in Nat /\ Len(pool.items) <= Capacity
      BY <1>0, QueueTyped
    <3> QED BY <3>1, <3>2
  <2> QED BY <1>0, <1>1, <2>1 DEF AcquirePooled
<1>2. ASSUME NEW u \in Users, AcquireNew(u) PROVE TypeOK'
  <2>1. made + 1 \in 0 .. MaxClients /\ made + 1 \in Client
    BY <1>0, <1>2 DEF AcquireNew, Client
  <2> QED BY <1>0, <1>2, <2>1 DEF AcquireNew
<1>3. ASSUME NEW u \in Users, Connected(u) PROVE TypeOK'
  BY <1>0, <1>3 DEF Connected
<1>4. ASSUME NEW u \in Users, RequestFails(u) \/ AsyncReadFails(u) \/ Reconnect(u) PROVE TypeOK'
  BY <1>0, <1>4 DEF RequestFails, AsyncReadFails, Reconnect, connectOutcomes
<1>5. ASSUME NEW u \in Users, Release(u) PROVE TypeOK'
  <2>1. /\ TakenBy(pool, u) \in Queue(Client) /\ TakenBy(pool, u).items = pool.items
        /\ TakenBy(closedPool, u) \in Queue(Client)
        /\ TakenBy(closedPool, u).items = closedPool.items
    BY <1>0, TakenQueue
  <2> QED BY <1>0, <1>5, <2>1 DEF Release, ReleaseOpen, ReleaseClosed
<1>6. ASSUME NEW u \in Users, PushOpen(u) PROVE TypeOK'
  <2>1. Pushed(pool, client[u]) \in Queue(Client) /\ Len(Pushed(pool, client[u]).items) <= Capacity
    <3>1. /\ Pushed(pool, client[u]) \in Queue(Client)
          /\ Len(Pushed(pool, client[u]).items) = Len(pool.items) + 1
      BY <1>0, <1>6, PushedQueue DEF PushOpen, Places
    <3>2. Len(pool.items) \in Nat /\ Len(pool.items) < Capacity
      BY <1>0, <1>6, QueueTyped DEF PushOpen, CanPush
    <3> QED BY <3>1, <3>2
  <2> QED BY <1>0, <1>6, <2>1 DEF PushOpen, Released
<1>7. ASSUME NEW u \in Users, PushClosed(u) PROVE TypeOK'
  <2>1. /\ Pushed(closedPool, client[u]) \in Queue(Client)
        /\ Len(Pushed(closedPool, client[u]).items) <= Capacity
    <3>1. /\ Pushed(closedPool, client[u]) \in Queue(Client)
          /\ Len(Pushed(closedPool, client[u]).items) = Len(closedPool.items) + 1
      BY <1>0, <1>7, PushedQueue DEF PushClosed, Places
    <3>2. Len(closedPool.items) \in Nat /\ Len(closedPool.items) < Capacity
      BY <1>0, <1>7, QueueTyped DEF PushClosed, CanPush
    <3> QED BY <3>1, <3>2
  <2> QED BY <1>0, <1>7, <2>1 DEF PushClosed, Released
<1>8. ASSUME Collect PROVE TypeOK'
  <2>1. /\ Popped(closedPool) \in Queue(Client) /\ Len(Popped(closedPool).items) <= Capacity
        /\ Head(closedPool.items) \in Client
    <3>1. /\ Popped(closedPool) \in Queue(Client) /\ Head(closedPool.items) \in Client
          /\ Len(Popped(closedPool).items) = Len(closedPool.items) - 1
      BY <1>0, <1>8, PoppedQueue DEF Collect, Places
    <3>2. Len(closedPool.items) \in Nat /\ Len(closedPool.items) <= Capacity
      BY <1>0, QueueTyped
    <3> QED BY <3>1, <3>2
  <2> QED BY <1>0, <1>8, <2>1 DEF Collect
<1>9. CASE UNCHANGED vars
  BY <1>0, <1>9 DEF vars
<1> QED BY <1>1, <1>2, <1>3, <1>4, <1>5, <1>6, <1>7, <1>8, <1>9 DEF Next, Push

(* The two queues in a step that pops or pushes.                             *)
LEMMA PoolPopped ==
    ASSUME TypeOK, Places, pool.items # << >>, pool' = Popped(pool)
    PROVE  /\ Items(pool) = Items(pool)' \cup {Head(pool.items)}
           /\ Head(pool.items) \notin Items(pool)' /\ Head(pool.items) \in Client
           /\ OnceIn(pool)' /\ Len(pool.items)' = Len(pool.items) - 1
<1>1. pool \in Queue(Client) /\ OnceIn(pool)
  BY DEF TypeOK, Places
<1>2. /\ Len(Popped(pool).items) = Len(pool.items) - 1
      /\ Head(pool.items) \in Client
      /\ Items(pool) = Items(Popped(pool)) \cup {Head(pool.items)}
      /\ Head(pool.items) \notin Items(Popped(pool))
      /\ OnceIn(Popped(pool))
  BY <1>1, PoppedQueue
<1>3. /\ Items(pool)' = Items(Popped(pool)) /\ Len(pool.items)' = Len(Popped(pool).items)
      /\ OnceIn(pool)' <=> OnceIn(Popped(pool))
  BY DEF Items, OnceIn
<1> QED BY <1>2, <1>3

LEMMA ClosedPoolPopped ==
    ASSUME TypeOK, Places, closedPool.items # << >>, closedPool' = Popped(closedPool)
    PROVE  /\ Items(closedPool) = Items(closedPool)' \cup {Head(closedPool.items)}
           /\ Head(closedPool.items) \notin Items(closedPool)' /\ Head(closedPool.items) \in Client
           /\ OnceIn(closedPool)' /\ Len(closedPool.items)' = Len(closedPool.items) - 1
<1>1. closedPool \in Queue(Client) /\ OnceIn(closedPool)
  BY DEF TypeOK, Places
<1>2. /\ Len(Popped(closedPool).items) = Len(closedPool.items) - 1
      /\ Head(closedPool.items) \in Client
      /\ Items(closedPool) = Items(Popped(closedPool)) \cup {Head(closedPool.items)}
      /\ Head(closedPool.items) \notin Items(Popped(closedPool))
      /\ OnceIn(Popped(closedPool))
  BY <1>1, PoppedQueue
<1>3. /\ Items(closedPool)' = Items(Popped(closedPool)) /\ Len(closedPool.items)' = Len(Popped(closedPool).items)
      /\ OnceIn(closedPool)' <=> OnceIn(Popped(closedPool))
  BY DEF Items, OnceIn
<1> QED BY <1>2, <1>3

LEMMA PoolPushed ==
    ASSUME TypeOK, Places, NEW u \in Users, client[u] # NoClient, pool' = Pushed(pool, client[u])
    PROVE  /\ Items(pool)' = Items(pool) \cup {client[u]}
           /\ OnceIn(pool)' /\ Len(pool.items)' = Len(pool.items) + 1
<1>1. pool \in Queue(Client) /\ OnceIn(pool) /\ client[u] \in Client /\ client[u] \notin Items(pool)
  BY DEF TypeOK, Places
<1>2. /\ Len(Pushed(pool, client[u]).items) = Len(pool.items) + 1
      /\ Items(Pushed(pool, client[u])) = Items(pool) \cup {client[u]}
      /\ OnceIn(Pushed(pool, client[u]))
  BY <1>1, PushedQueue
<1>3. /\ Items(pool)' = Items(Pushed(pool, client[u]))
      /\ Len(pool.items)' = Len(Pushed(pool, client[u]).items)
      /\ OnceIn(pool)' <=> OnceIn(Pushed(pool, client[u]))
  BY DEF Items, OnceIn
<1> QED BY <1>2, <1>3

LEMMA ClosedPoolPushed ==
    ASSUME TypeOK, Places, NEW u \in Users, client[u] # NoClient, closedPool' = Pushed(closedPool, client[u])
    PROVE  /\ Items(closedPool)' = Items(closedPool) \cup {client[u]}
           /\ OnceIn(closedPool)' /\ Len(closedPool.items)' = Len(closedPool.items) + 1
<1>1. closedPool \in Queue(Client) /\ OnceIn(closedPool) /\ client[u] \in Client /\ client[u] \notin Items(closedPool)
  BY DEF TypeOK, Places
<1>2. /\ Len(Pushed(closedPool, client[u]).items) = Len(closedPool.items) + 1
      /\ Items(Pushed(closedPool, client[u])) = Items(closedPool) \cup {client[u]}
      /\ OnceIn(Pushed(closedPool, client[u]))
  BY <1>1, PushedQueue
<1>3. /\ Items(closedPool)' = Items(Pushed(closedPool, client[u]))
      /\ Len(closedPool.items)' = Len(Pushed(closedPool, client[u]).items)
      /\ OnceIn(closedPool)' <=> OnceIn(Pushed(closedPool, client[u]))
  BY DEF Items, OnceIn
<1> QED BY <1>2, <1>3

(* Whom the clients are with, when one user gets one or gives it away.       *)
LEMMA HeldMoved ==
    ASSUME TypeOK, Places, NEW u \in Users, NEW c \in Client \cup {NoClient},
           client' = [client EXCEPT ![u] = c]
    PROVE  /\ client[u] = NoClient /\ c # NoClient => Held' = Held \cup {c}
           /\ client[u] # NoClient /\ c = NoClient => Held' = Held \ {client[u]}
           /\ client[u] # NoClient => client[u] \in Held
           /\ \A x \in Held : \E v \in Users : client[v] = x /\ x # NoClient
<1>1. client'[u] = c /\ \A v \in Users : v # u => client'[v] = client[v]
  BY DEF TypeOK
<1>2. \A v \in Users : client[v] = client[u] /\ client[u] # NoClient => v = u
  BY DEF Places
<1>3. /\ \A x : x \in Held <=> x # NoClient /\ \E v \in Users : client[v] = x
      /\ \A x : x \in Held' <=> x # NoClient /\ \E v \in Users : client'[v] = x
  BY DEF Held
<1>4. client[u] = NoClient /\ c # NoClient => Held' = Held \cup {c}
  <2>1. ASSUME client[u] = NoClient, c # NoClient, NEW x PROVE x \in Held' <=> x \in Held \cup {c}
    BY <1>1, <1>3, <2>1
  <2> QED BY <2>1
<1>5. client[u] # NoClient /\ c = NoClient => Held' = Held \ {client[u]}
  <2>1. ASSUME client[u] # NoClient, c = NoClient, NEW x
        PROVE  x \in Held' <=> x \in Held \ {client[u]}
    BY <1>1, <1>2, <1>3, <2>1
  <2> QED BY <2>1
<1> QED BY <1>3, <1>4, <1>5

LEMMA PlacesStep == ASSUME IInv, [Next]_vars PROVE Places'
<1> USE DEF Places, queues
<1>0. /\ TypeOK /\ Places
      /\ \A u \in Users : pc[u] # "idle" => client[u] \in Client
      /\ Client = 1 .. MaxClients /\ NoClient = 0
      /\ Items(pool) \subseteq Client /\ Items(closedPool) \subseteq Client
  BY QueueTyped DEF IInv, TypeOK, NoClient, Client
<1>1. ASSUME NEW u \in Users, AcquirePooled(u) PROVE Places'
  <2>1. PICK c : c = Head(pool.items)
    OBVIOUS
  <2>2. /\ Items(pool) = Items(pool)' \cup {c} /\ c \notin Items(pool)' /\ OnceIn(pool)'
        /\ c \in Client
    BY <1>0, <1>1, <2>1, PoolPopped DEF AcquirePooled
  <2>3. /\ client' = [client EXCEPT ![u] = c] /\ pc' = [pc EXCEPT ![u] = "using"]
        /\ client[u] = NoClient /\ c # NoClient
        /\ closedPool' = closedPool /\ made' = made /\ deleted' = deleted /\ failed' = failed
    BY <1>0, <1>1, <2>1, <2>2 DEF AcquirePooled
  <2>4. Held' = Held \cup {c}
    BY <1>0, <2>2, <2>3, HeldMoved
  <2>5. \A v \in Users : client'[v] = (IF v = u THEN c ELSE client[v])
                        /\ pc'[v] = (IF v = u THEN "using" ELSE pc[v])
    BY <1>0, <2>3 DEF TypeOK
  <2>6. Items(closedPool)' = Items(closedPool) /\ OnceIn(closedPool)'
    BY <1>0, <2>3 DEF Items, OnceIn
  <2> QED BY <1>0, <2>2, <2>3, <2>4, <2>5, <2>6
<1>2. ASSUME NEW u \in Users, AcquireNew(u) PROVE Places'
  <2>1. PICK c : c = made + 1
    OBVIOUS
  <2>2. c \in Client /\ c \notin 1 .. made /\ 1 .. (made + 1) = (1 .. made) \cup {c} /\ c # NoClient
    BY <1>0, <1>2, <2>1 DEF AcquireNew, TypeOK
  <2>3. /\ client' = [client EXCEPT ![u] = c] /\ pc' = [pc EXCEPT ![u] = "connecting"]
        /\ client[u] = NoClient /\ pool' = pool
        /\ closedPool' = closedPool /\ made' = made + 1 /\ deleted' = deleted /\ failed' = failed
    BY <1>0, <1>2, <2>1 DEF AcquireNew
  <2>4. Held' = Held \cup {c} /\ \A v \in Users : client[v] # NoClient => client[v] \in Held
    BY <1>0, <2>2, <2>3, HeldMoved DEF Held
  <2>5. \A v \in Users : client'[v] = (IF v = u THEN c ELSE client[v])
                        /\ pc'[v] = (IF v = u THEN "connecting" ELSE pc[v])
    BY <1>0, <2>3 DEF TypeOK
  <2>6. /\ Items(closedPool)' = Items(closedPool) /\ OnceIn(closedPool)'
        /\ Items(pool)' = Items(pool) /\ OnceIn(pool)'
    BY <1>0, <2>3 DEF Items, OnceIn
  <2>7. /\ c \notin Items(pool) /\ c \notin Items(closedPool) /\ c \notin deleted
        /\ c \notin failed /\ c \notin Held
    BY <1>0, <2>2
  <2>8. (1 .. made)' = (1 .. made) \cup {c}
    BY <2>2, <2>3
  <2> QED BY <1>0, <2>2, <2>3, <2>4, <2>5, <2>6, <2>7, <2>8
<1>3. ASSUME NEW u \in Users, Connected(u) PROVE Places'
  <2>1. /\ pool' = pool /\ closedPool' = closedPool /\ made' = made /\ deleted' = deleted
        /\ pc[u] = "connecting" /\ client[u] # NoClient
        /\ Items(closedPool)' = Items(closedPool) /\ OnceIn(closedPool)'
        /\ Items(pool)' = Items(pool) /\ OnceIn(pool)'
    BY <1>0, <1>3 DEF Connected, Items, OnceIn
  <2>2. CASE pc' = [pc EXCEPT ![u] = "using"] /\ client' = client /\ failed' = failed
    <3>1. \A v \in Users : pc'[v] = "idle" <=> pc[v] = "idle"
      BY <1>0, <2>1, <2>2 DEF TypeOK
    <3>2. Held' = Held
      BY <2>2 DEF Held
    <3> QED BY <1>0, <2>1, <2>2, <3>1, <3>2
  <2>3. CASE /\ pc' = [pc EXCEPT ![u] = "idle"] /\ client' = [client EXCEPT ![u] = NoClient]
             /\ failed' = failed \cup {client[u]}
    <3>1. Held' = Held \ {client[u]} /\ client[u] \in Held
      BY <1>0, <2>1, <2>3, HeldMoved
    <3>2. \A v \in Users : client'[v] = (IF v = u THEN NoClient ELSE client[v])
                          /\ pc'[v] = (IF v = u THEN "idle" ELSE pc[v])
      BY <1>0, <2>3 DEF TypeOK
    <3> QED BY <1>0, <2>1, <2>3, <3>1, <3>2
  <2> QED BY <1>3, <2>2, <2>3 DEF Connected
<1>4. ASSUME NEW u \in Users, RequestFails(u) \/ AsyncReadFails(u) \/ Reconnect(u) PROVE Places'
  <2>1. UNCHANGED <<pool, closedPool, made, failed, deleted, pc, client>>
    BY <1>4 DEF RequestFails, AsyncReadFails, Reconnect
  <2> QED BY <1>0, <2>1 DEF Items, OnceIn, Held
<1>5. ASSUME NEW u \in Users, Release(u) PROVE Places'
  <2>1. /\ UNCHANGED <<made, failed, deleted, client>>
        /\ pool'.items = pool.items /\ closedPool'.items = closedPool.items
    BY <1>0, <1>5, TakenQueue DEF Release, ReleaseOpen, ReleaseClosed, TypeOK
  <2>2. \A v \in Users : pc'[v] = "idle" <=> pc[v] = "idle"
    BY <1>0, <1>5 DEF Release, ReleaseOpen, ReleaseClosed, TypeOK
  <2>3. /\ Items(closedPool)' = Items(closedPool) /\ OnceIn(closedPool)'
        /\ Items(pool)' = Items(pool) /\ OnceIn(pool)' /\ Held' = Held
    BY <1>0, <2>1 DEF Items, OnceIn, Held
  <2> QED BY <1>0, <2>1, <2>2, <2>3
<1>6. ASSUME NEW u \in Users, PushOpen(u) PROVE Places'
  <2>1. PICK c : c = client[u]
    OBVIOUS
  <2>2. c \in Client /\ c # NoClient
    BY <1>0, <1>6, <2>1 DEF PushOpen
  <2>3. Items(pool)' = Items(pool) \cup {c} /\ OnceIn(pool)'
    BY <1>0, <1>6, <2>1, <2>2, PoolPushed DEF PushOpen
  <2>4. /\ client' = [client EXCEPT ![u] = NoClient] /\ pc' = [pc EXCEPT ![u] = "idle"]
        /\ UNCHANGED <<closedPool, made, failed, deleted>>
    BY <1>6 DEF PushOpen, Released
  <2>5. Held' = Held \ {c} /\ c \in Held
    BY <1>0, <2>1, <2>2, <2>4, HeldMoved
  <2>6. \A v \in Users : client'[v] = (IF v = u THEN NoClient ELSE client[v])
                        /\ pc'[v] = (IF v = u THEN "idle" ELSE pc[v])
    BY <1>0, <2>4 DEF TypeOK
  <2>7. Items(closedPool)' = Items(closedPool) /\ OnceIn(closedPool)'
    BY <1>0, <2>4 DEF Items, OnceIn
  <2> QED BY <1>0, <2>1, <2>2, <2>3, <2>4, <2>5, <2>6, <2>7
<1>7. ASSUME NEW u \in Users, PushClosed(u) PROVE Places'
  <2>1. PICK c : c = client[u]
    OBVIOUS
  <2>2. c \in Client /\ c # NoClient
    BY <1>0, <1>7, <2>1 DEF PushClosed
  <2>3. Items(closedPool)' = Items(closedPool) \cup {c} /\ OnceIn(closedPool)'
    BY <1>0, <1>7, <2>1, <2>2, ClosedPoolPushed DEF PushClosed
  <2>4. /\ client' = [client EXCEPT ![u] = NoClient] /\ pc' = [pc EXCEPT ![u] = "idle"]
        /\ UNCHANGED <<pool, made, failed, deleted>>
    BY <1>7 DEF PushClosed, Released
  <2>5. Held' = Held \ {c} /\ c \in Held
    BY <1>0, <2>1, <2>2, <2>4, HeldMoved
  <2>6. \A v \in Users : client'[v] = (IF v = u THEN NoClient ELSE client[v])
                        /\ pc'[v] = (IF v = u THEN "idle" ELSE pc[v])
    BY <1>0, <2>4 DEF TypeOK
  <2>7. Items(pool)' = Items(pool) /\ OnceIn(pool)'
    BY <1>0, <2>4 DEF Items, OnceIn
  <2> QED BY <1>0, <2>1, <2>2, <2>3, <2>4, <2>5, <2>6, <2>7
<1>8. ASSUME Collect PROVE Places'
  <2>1. PICK c : c = Head(closedPool.items)
    OBVIOUS
  <2>2. /\ Items(closedPool) = Items(closedPool)' \cup {c} /\ c \notin Items(closedPool)'
        /\ OnceIn(closedPool)'
    BY <1>0, <1>8, <2>1, ClosedPoolPopped DEF Collect
  <2>3. /\ deleted' = deleted \cup {c}
        /\ UNCHANGED <<pool, made, failed, pc, client>>
    BY <1>8, <2>1 DEF Collect
  <2>4. Items(pool)' = Items(pool) /\ OnceIn(pool)' /\ Held' = Held
    BY <1>0, <2>3 DEF Items, OnceIn, Held
  <2> QED BY <1>0, <2>2, <2>3, <2>4
<1>9. CASE UNCHANGED vars
  BY <1>0, <1>9 DEF vars, Items, OnceIn, Held
<1> QED BY <1>1, <1>2, <1>3, <1>4, <1>5, <1>6, <1>7, <1>8, <1>9 DEF IInv, Next, Push

LEMMA FlagsStep == ASSUME IInv, [Next]_vars PROVE Flags'
<1> USE DEF Flags, SortedByFlag, queues
<1>0. /\ TypeOK /\ Places /\ Flags
      /\ \A u \in Users : pc[u] # "idle" => client[u] \in Client
      /\ NoClient \notin Client
      /\ Items(pool) \subseteq Client /\ Items(closedPool) \subseteq Client
  BY QueueTyped DEF IInv, TypeOK, Places, NoClient, Client
(* Steps of a user that is idle or keeps its client out of the queues.       *)
<1>1. ASSUME NEW u \in Users, AcquirePooled(u) PROVE Flags'
  <2>1. UNCHANGED <<closedPool, status, deleted>>
    BY <1>1 DEF AcquirePooled
  <2>2. \A v \in Users : pc'[v] \in {"pooling", "closing"} =>
                            pc'[v] = pc[v] /\ client'[v] = client[v]
    BY <1>0, <1>1 DEF AcquirePooled, TypeOK
  <2>3. Items(pool)' \subseteq Items(pool)
    BY <1>0, <1>1, PoolPopped DEF AcquirePooled
  <2>4. Items(closedPool)' = Items(closedPool)
    BY <2>1 DEF Items
  <2> QED BY <1>0, <2>1, <2>2, <2>3, <2>4 DEF isConnected
<1>2. ASSUME NEW u \in Users, AcquireNew(u) PROVE Flags'
  <2>1. UNCHANGED <<pool, closedPool, status, deleted>>
    BY <1>2 DEF AcquireNew
  <2>2. \A v \in Users : pc'[v] \in {"pooling", "closing"} =>
                            pc'[v] = pc[v] /\ client'[v] = client[v]
    BY <1>0, <1>2 DEF AcquireNew, TypeOK
  <2> QED BY <1>0, <2>1, <2>2 DEF isConnected, Items
<1>3. ASSUME NEW u \in Users,
             Connected(u) \/ RequestFails(u) \/ AsyncReadFails(u) \/ Reconnect(u)
      PROVE  Flags'
  <2>1. UNCHANGED <<pool, closedPool, deleted>> /\ pc[u] \in {"connecting", "using"}
    BY <1>3 DEF Connected, RequestFails, AsyncReadFails, Reconnect
  <2>2. \A v \in Users : pc'[v] \in {"pooling", "closing"} =>
                            v # u /\ pc'[v] = pc[v] /\ client'[v] = client[v]
    BY <1>0, <1>3 DEF Connected, RequestFails, AsyncReadFails, Reconnect, TypeOK
  <2>3. \A x \in Client : x # client[u] => status'[x] = status[x]
    BY <1>0, <1>3 DEF Connected, RequestFails, AsyncReadFails, Reconnect, TypeOK
  <2>4. /\ client[u] \notin Items(pool) /\ client[u] \notin Items(closedPool)
        /\ client[u] \notin deleted /\ deleted \subseteq Client
        /\ \A v \in Users : v # u => client[v] # client[u]
    BY <1>0, <2>1 DEF Places, TypeOK
  <2>5. Items(pool)' = Items(pool) /\ Items(closedPool)' = Items(closedPool)
    BY <2>1 DEF Items
  <2> QED BY <1>0, <2>1, <2>2, <2>3, <2>4, <2>5 DEF isConnected
<1>4. ASSUME NEW u \in Users, Release(u) PROVE Flags'
  <2>1. /\ UNCHANGED <<status, deleted, client>>
        /\ Items(pool)' = Items(pool) /\ Items(closedPool)' = Items(closedPool)
    BY <1>0, <1>4, TakenQueue DEF Release, ReleaseOpen, ReleaseClosed, TypeOK, Items
  <2>2. /\ \A v \in Users : v # u => pc'[v] = pc[v]
        /\ pc'[u] \in {"pooling", "closing"}
        /\ pc'[u] = "pooling" <=> isConnected(client[u])
    BY <1>0, <1>4 DEF Release, ReleaseOpen, ReleaseClosed, TypeOK
  <2> QED BY <1>0, <2>1, <2>2 DEF isConnected
<1>5. ASSUME NEW u \in Users, Push(u) PROVE Flags'
  <2>1. /\ UNCHANGED <<status, deleted>>
        /\ \A v \in Users : pc'[v] # "idle" => pc'[v] = pc[v] /\ client'[v] = client[v]
    BY <1>0, <1>5 DEF Push, PushOpen, PushClosed, Released, TypeOK
  <2>2. CASE PushOpen(u)
    <3>1. Items(pool)' = Items(pool) \cup {client[u]}
      BY <1>0, <2>2, PoolPushed DEF PushOpen
    <3>2. Items(closedPool)' = Items(closedPool)
      BY <2>2 DEF PushOpen, Items
    <3> QED BY <1>0, <2>1, <2>2, <3>1, <3>2 DEF PushOpen, isConnected
  <2>3. CASE PushClosed(u)
    <3>1. Items(closedPool)' = Items(closedPool) \cup {client[u]}
      BY <1>0, <2>3, ClosedPoolPushed DEF PushClosed
    <3>2. Items(pool)' = Items(pool)
      BY <2>3 DEF PushClosed, Items
    <3> QED BY <1>0, <2>1, <2>3, <3>1, <3>2 DEF PushClosed, isConnected
  <2> QED BY <1>5, <2>2, <2>3 DEF Push
<1>6. ASSUME Collect PROVE Flags'
  <2>1. /\ UNCHANGED <<pool, status, pc, client>>
        /\ Items(closedPool)' \cup deleted' = Items(closedPool) \cup deleted
    BY <1>0, <1>6, ClosedPoolPopped DEF Collect
  <2> QED BY <1>0, <2>1 DEF isConnected, Items
<1>7. CASE UNCHANGED vars
  BY <1>0, <1>7 DEF vars, isConnected, Items
<1> QED BY <1>1, <1>2, <1>3, <1>4, <1>5, <1>6, <1>7 DEF IInv, Next

-----------------------------------------------------------------------------
(* The counts: what one step does to the number of users at some places, and *)
(* that the sets of clients are finite.                                      *)
LEMMA UserMoved ==
    ASSUME TypeOK, NEW u \in Users, NEW x, NEW S, pc' = [pc EXCEPT ![u] = x]
    PROVE  /\ (pc[u] \in S <=> x \in S) => Cardinality(UsersAt(S))' = Cardinality(UsersAt(S))
           /\ pc[u] \notin S /\ x \in S => Cardinality(UsersAt(S))' = Cardinality(UsersAt(S)) + 1
           /\ pc[u] \in S /\ x \notin S => Cardinality(UsersAt(S))' = Cardinality(UsersAt(S)) - 1
           /\ Cardinality(UsersAt(S))' <= Cardinality(Users)
<1> DEFINE before == UsersAt(S)
<1>1. PICK after : after = UsersAt(S)'
  OBVIOUS
<1>2. pc'[u] = x /\ \A v \in Users \ {u} : pc'[v] = pc[v]
  BY DEF TypeOK
<1>3. before \subseteq Users /\ after \subseteq Users
  BY <1>1 DEF UsersAt
<1>4. \A v \in Users : (v \in before <=> pc[v] \in S) /\ (v \in after <=> pc'[v] \in S)
  BY <1>1 DEF UsersAt
<1> HIDE DEF before
<1>5. /\ (pc[u] \in S <=> x \in S) => after = before
      /\ pc[u] \notin S /\ x \in S => after = before \cup {u} /\ u \notin before
      /\ pc[u] \in S /\ x \notin S => after = before \ {u} /\ u \in before
  BY <1>2, <1>3, <1>4
<1>6. /\ IsFiniteSet(before) /\ IsFiniteSet(after)
      /\ Cardinality(after) <= Cardinality(Users)
  BY <1>3, FS_Subset
<1>7. Cardinality(before) \in Nat /\ Cardinality(after) \in Nat
  BY <1>6, FS_CardinalityType
<1>8. pc[u] \notin S /\ x \in S => Cardinality(after) = Cardinality(before) + 1
  BY <1>5, <1>6, FS_AddElement
<1>9. pc[u] \in S /\ x \notin S => Cardinality(after) = Cardinality(before) - 1
  BY <1>5, <1>6, FS_RemoveElement
<1> QED BY <1>1, <1>5, <1>6, <1>7, <1>8, <1>9 DEF before

(* The three counts of users.                                                *)
LEMMA UserCounted ==
    ASSUME TypeOK, NEW u \in Users, pc' = [pc EXCEPT ![u] = pc'[u]]
    PROVE  /\ (pc[u] \in Busy <=> pc'[u] \in Busy) => NBusy' = NBusy
           /\ pc[u] \notin Busy /\ pc'[u] \in Busy => NBusy' = NBusy + 1
           /\ pc[u] \in Busy /\ pc'[u] \notin Busy => NBusy' = NBusy - 1
           /\ NBusy' <= Cardinality(Users)
           /\ (pc[u] \in Out <=> pc'[u] \in Out) => NOut' = NOut
           /\ pc[u] \notin Out /\ pc'[u] \in Out => NOut' = NOut + 1
           /\ pc[u] \in Out /\ pc'[u] \notin Out => NOut' = NOut - 1
           /\ (pc[u] = "connecting" <=> pc'[u] = "connecting") => NConnecting' = NConnecting
           /\ pc[u] # "connecting" /\ pc'[u] = "connecting" => NConnecting' = NConnecting + 1
           /\ pc[u] = "connecting" /\ pc'[u] # "connecting" => NConnecting' = NConnecting - 1
<1>0. PICK x : x = pc'[u]
  OBVIOUS
<1>1. PICK S : S = {"connecting"}
  OBVIOUS
<1>2. /\ (pc[u] \in S <=> x \in S) => Cardinality(UsersAt(S))' = Cardinality(UsersAt(S))
      /\ pc[u] \notin S /\ x \in S => Cardinality(UsersAt(S))' = Cardinality(UsersAt(S)) + 1
      /\ pc[u] \in S /\ x \notin S => Cardinality(UsersAt(S))' = Cardinality(UsersAt(S)) - 1
  BY <1>0, UserMoved
<1>3. NConnecting = Cardinality(UsersAt(S)) /\ NConnecting' = Cardinality(UsersAt(S))'
  BY <1>1 DEF NConnecting
<1>4. /\ (pc[u] \in Busy <=> x \in Busy) => NBusy' = NBusy
      /\ pc[u] \notin Busy /\ x \in Busy => NBusy' = NBusy + 1
      /\ pc[u] \in Busy /\ x \notin Busy => NBusy' = NBusy - 1
      /\ NBusy' <= Cardinality(Users)
  BY <1>0, UserMoved DEF NBusy
<1>5. /\ (pc[u] \in Out <=> x \in Out) => NOut' = NOut
      /\ pc[u] \notin Out /\ x \in Out => NOut' = NOut + 1
      /\ pc[u] \in Out /\ x \notin Out => NOut' = NOut - 1
  BY <1>0, UserMoved DEF NOut
<1> QED BY <1>0, <1>1, <1>2, <1>3, <1>4, <1>5

LEMMA ClientsAreFinite ==
    ASSUME TypeOK
    PROVE  /\ IsFiniteSet(deleted) /\ Cardinality(deleted) \in Nat
           /\ IsFiniteSet(failed) /\ Cardinality(failed) \in Nat
           /\ \A S : Cardinality(UsersAt(S)) \in Nat
           /\ Cardinality(Users) \in Nat
<1>1. IsFiniteSet(Client)
  BY FS_Interval DEF Client
<1>2. IsFiniteSet(deleted) /\ IsFiniteSet(failed)
  BY <1>1, FS_Subset DEF TypeOK
<1>3. \A S : IsFiniteSet(UsersAt(S))
  BY FS_Subset DEF UsersAt
<1> QED BY <1>2, <1>3, FS_CardinalityType

LEMMA CountsStep == ASSUME IInv, [Next]_vars PROVE Counts'
<1> USE DEF queues
<1>0. /\ TypeOK /\ Places
      /\ \A u \in Users : pc[u] # "idle" => client[u] \in Client /\ client[u] # NoClient
      /\ NDeleted \in Nat /\ NFailed \in Nat /\ NPooled \in Nat /\ NClosed \in Nat
      /\ NBusy \in Nat /\ NOut \in Nat /\ NConnecting \in Nat /\ Cardinality(Users) \in Nat
      /\ made \in Nat /\ trackingCount \in Int
  BY ClientsAreFinite, QueueTyped
     DEF IInv, TypeOK, Places, Client, NoClient, NDeleted, NFailed, NBusy, NOut, NConnecting,
         NPooled, NClosed
<1>00. Counts
  BY DEF IInv
<1>1. ASSUME NEW u \in Users, AcquirePooled(u) PROVE Counts'
  <2>1. /\ pc[u] = "idle" /\ pc' = [pc EXCEPT ![u] = "using"]
        /\ trackingCount' = trackingCount + 1
        /\ UNCHANGED <<closedPool, made, deleted, failed>>
    BY <1>1 DEF AcquirePooled
  <2>2. NBusy' = NBusy + 1 /\ NOut' = NOut + 1 /\ NConnecting' = NConnecting
    BY <1>0, <2>1, UserCounted DEF Busy, Out, TypeOK
  <2>3. NPooled' = NPooled - 1
    BY <1>0, <1>1, PoolPopped DEF AcquirePooled, NPooled
  <2>4. UNCHANGED <<NClosed, NDeleted, NFailed>>
    BY <2>1 DEF NClosed, NDeleted, NFailed
  <2> QED BY <1>0, <1>00, <2>1, <2>2, <2>3, <2>4 DEF Counts
<1>2. ASSUME NEW u \in Users, AcquireNew(u) PROVE Counts'
  <2>1. /\ pc[u] = "idle" /\ pc' = [pc EXCEPT ![u] = "connecting"]
        /\ made' = made + 1
        /\ UNCHANGED <<pool, closedPool, trackingCount, deleted, failed>>
    BY <1>2 DEF AcquireNew
  <2>2. /\ NBusy' = NBusy + 1
        /\ NBusy' <= Cardinality(Users)
        /\ NOut' = NOut
        /\ NConnecting' = NConnecting + 1
    BY <1>0, <2>1, UserCounted DEF Busy, Out, TypeOK
  <2>3. NPooled = 0
    BY <1>2 DEF AcquireNew, MustCreate, NPooled
  <2>4. UNCHANGED <<NPooled, NClosed, NDeleted, NFailed>>
    BY <2>1 DEF NPooled, NClosed, NDeleted, NFailed
  <2> QED BY <1>0, <1>00, <2>1, <2>2, <2>3, <2>4 DEF Counts
<1>3. ASSUME NEW u \in Users, Connected(u) PROVE Counts'
  <2>1. /\ pc[u] = "connecting"
        /\ UNCHANGED <<pool, closedPool, trackingCount, made, deleted>>
    BY <1>3 DEF Connected
  <2>4. UNCHANGED <<NPooled, NClosed, NDeleted>>
    BY <2>1 DEF NPooled, NClosed, NDeleted
  <2>2. CASE pc' = [pc EXCEPT ![u] = "using"] /\ failed' = failed
    <3>1. NBusy' = NBusy /\ NOut' = NOut + 1 /\ NConnecting' = NConnecting - 1
      BY <1>0, <2>1, <2>2, UserCounted DEF Busy, Out, TypeOK
    <3>2. NFailed' = NFailed
      BY <2>2 DEF NFailed
    <3> QED BY <1>0, <1>00, <2>1, <2>4, <3>1, <3>2 DEF Counts
  <2>3. CASE pc' = [pc EXCEPT ![u] = "idle"] /\ failed' = failed \cup {client[u]}
    <3>1. NBusy' = NBusy - 1 /\ NOut' = NOut /\ NConnecting' = NConnecting - 1
      BY <1>0, <2>1, <2>3, UserCounted DEF Busy, Out, TypeOK
    <3>2. NFailed' = NFailed + 1
      <4>1. client[u] \notin failed /\ IsFiniteSet(failed)
        BY <1>0, <2>1, ClientsAreFinite DEF Places
      <4> QED BY <2>3, <4>1, FS_AddElement DEF NFailed
    <3> QED BY <1>0, <1>00, <2>1, <2>4, <3>1, <3>2 DEF Counts
  <2> QED BY <1>3, <2>2, <2>3 DEF Connected
<1>4. ASSUME NEW u \in Users, RequestFails(u) \/ AsyncReadFails(u) \/ Reconnect(u) PROVE Counts'
  <2>1. UNCHANGED <<pool, closedPool, trackingCount, made, failed, deleted, pc>>
    BY <1>4 DEF RequestFails, AsyncReadFails, Reconnect
  <2> QED BY <1>00, <2>1 
       DEF Counts, UsersAt, NBusy, NOut, NConnecting, NPooled, NClosed, NDeleted, NFailed
<1>5. ASSUME NEW u \in Users, Release(u) PROVE Counts'
  <2>1. /\ UNCHANGED <<trackingCount, made, failed, deleted>>
        /\ pc[u] = "using"
        /\ pc' = [pc EXCEPT ![u] = "pooling"] \/ pc' = [pc EXCEPT ![u] = "closing"]
    BY <1>5 DEF Release, ReleaseOpen, ReleaseClosed
  <2>2. NPooled' = NPooled /\ NClosed' = NClosed
    BY <1>0, <1>5, TakenQueue 
       DEF Release, ReleaseOpen, ReleaseClosed, TypeOK, NPooled, NClosed
  <2>3. NBusy' = NBusy /\ NOut' = NOut /\ NConnecting' = NConnecting
    BY <1>0, <2>1, UserCounted DEF Busy, Out, TypeOK
  <2>4. UNCHANGED <<NDeleted, NFailed>>
    BY <2>1 DEF NDeleted, NFailed
  <2> QED BY <1>0, <1>00, <2>1, <2>2, <2>3, <2>4 DEF Counts
<1>6. ASSUME NEW u \in Users, Push(u) PROVE Counts'
  <2>1. /\ pc[u] \in {"pooling", "closing"} /\ pc' = [pc EXCEPT ![u] = "idle"]
        /\ trackingCount' = trackingCount - 1
        /\ UNCHANGED <<made, failed, deleted>>
    BY <1>6 DEF Push, PushOpen, PushClosed, Released
  <2>2. NBusy' = NBusy - 1 /\ NOut' = NOut - 1 /\ NConnecting' = NConnecting
    BY <1>0, <2>1, UserCounted DEF Busy, Out, TypeOK
  <2>3. \/ NPooled' = NPooled + 1 /\ NClosed' = NClosed
        \/ NPooled' = NPooled /\ NClosed' = NClosed + 1
    BY <1>0, <1>6, <2>1, PoolPushed, ClosedPoolPushed
       DEF Push, PushOpen, PushClosed, NPooled, NClosed
  <2>4. UNCHANGED <<NDeleted, NFailed>>
    BY <2>1 DEF NDeleted, NFailed
  <2> QED BY <1>0, <1>00, <2>1, <2>2, <2>3, <2>4 DEF Counts
<1>7. ASSUME Collect PROVE Counts'
  <2>1. /\ deleted' = deleted \cup {Head(closedPool.items)}
        /\ UNCHANGED <<pool, trackingCount, made, failed, pc>>
    BY <1>7 DEF Collect
  <2>2. NClosed' = NClosed - 1 /\ Head(closedPool.items) \notin deleted
    BY <1>0, <1>7, ClosedPoolPopped DEF Collect, Places, NClosed
  <2>3. NDeleted' = NDeleted + 1
    BY <1>0, <2>1, <2>2, ClientsAreFinite, FS_AddElement DEF NDeleted
  <2>4. UNCHANGED <<NPooled, NFailed, NBusy, NOut, NConnecting>>
    BY <2>1 DEF UsersAt, NPooled, NFailed, NBusy, NOut, NConnecting
  <2> QED BY <1>0, <1>00, <2>1, <2>2, <2>3, <2>4 DEF Counts
<1>8. CASE UNCHANGED vars
  BY <1>00, <1>8
     DEF vars, Counts, UsersAt, NBusy, NOut, NConnecting, NPooled, NClosed, NDeleted, NFailed
<1> QED BY <1>1, <1>2, <1>3, <1>4, <1>5, <1>6, <1>7, <1>8 DEF Next

LEMMA ImpliesPoolOK == IInv => PoolOK
<1> SUFFICES ASSUME IInv PROVE PoolOK
  OBVIOUS
<1>1. TypeOK /\ SortedByFlag /\ Places /\ Counts
  BY DEF IInv, Flags
<1>2. UsersAt(Busy) = {u \in Users : client[u] # NoClient}
  <2>1. \A u \in Users : pc[u] \in Busy <=> client[u] # NoClient
    BY <1>1 DEF Places, TypeOK, Busy
  <2> QED BY <2>1 DEF UsersAt
<1>3. OnePlace
  BY <1>1, <1>2 DEF Places, Counts, OnePlace, NBusy, NPooled, NClosed, NDeleted, NFailed
<1>4. TrackingLacksMade
  BY <1>1 DEF Counts, TrackingLacksMade, UsersAt, Out, NOut, NConnecting, NFailed
<1>5. Cardinality(Held) <= Cardinality(UsersAt(Busy)) /\ Cardinality(Held) \in Nat
  <2> DEFINE f == [u \in UsersAt(Busy) |-> client[u]]
  <2>1. f \in Surjection(UsersAt(Busy), Held)
    BY <1>2 DEF Surjection, Held
  <2>2. IsFiniteSet(UsersAt(Busy))
    BY FS_Subset DEF UsersAt
  <2> QED BY <2>1, <2>2, FS_Surjection, FS_CardinalityType
<1>6. NoMoreThanUsers
  <2>1. /\ Cardinality(UsersAt(Busy)) \in Nat /\ Cardinality(Users) \in Nat
        /\ Len(pool.items) \in Nat
    BY <1>1, ClientsAreFinite, QueueTyped DEF TypeOK
  <2> QED BY <1>1, <1>5, <2>1 DEF Counts, NoMoreThanUsers, NBusy, NPooled
<1> QED BY <1>1, <1>3, <1>4, <1>6 DEF PoolOK

(* No client is handed out twice, lost or used after it was deleted; no more *)
(* clients are open than there are users, and trackingCount lacks exactly    *)
(* the clients that were made; a queue's clients are those their flag says   *)
(* (clientpool.cpp:76-129), for any users, capacity and number of clients.   *)
THEOREM NoClientIsLost == Spec => []PoolOK
<1>1. Init => IInv
  BY Initially
<1>2. IInv /\ [Next]_vars => IInv'
  BY TypeStep, PlacesStep, FlagsStep, CountsStep DEF IInv
<1>3. IInv => PoolOK
  BY ImpliesPoolOK
<1> QED BY <1>1, <1>2, <1>3, PTL DEF Spec
=============================================================================
