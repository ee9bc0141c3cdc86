-------------------------- MODULE HttpClientPool --------------------------
(***************************************************************************)
(* The pool of HTTPS clients of httpx/clientpool.cpp: its users, each of   *)
(* which acquires a client, makes requests on it and releases it again,    *)
(* and the collector, a photon thread that deletes one closed client each  *)
(* time it wakes.  Both meet at two SPSCQueueSafe, pool_ and closedPool_.  *)
(*                                                                         *)
(* Clients are numbered in the order they are made.  Of an HttpClient the  *)
(* module keeps whether its `connected' flag is set and whether its TLS    *)
(* stream really works: "up" is both, "down" neither, and "broken" is a    *)
(* client whose flag is set although the stream does not work.             *)
(***************************************************************************)
EXTENDS Integers, Sequences, FiniteSets, SPSCQueueSafe

CONSTANTS MaxClients    \* bound: clients ever made

(* There are finitely many threads.                                          *)
ASSUME PoolAssumption == IsFiniteSet(Users) /\ MaxClients \in Nat

NoClient == 0
Client == 1 .. MaxClients

VARIABLES
    pool, closedPool,   \* pool_, closedPool_
    trackingCount,
    made,               \* number of clients made
    status,             \* "up", "down" or "broken"
    failed,             \* clients acquire() dropped as their connect() failed
    deleted,
    pc,                 \* per user
    client              \* per user: the client it has

vars == <<pool, closedPool, trackingCount, made, status, failed, deleted, pc, client>>
queues == <<pool, closedPool>>

Init ==
    /\ pool = EmptyQueue /\ closedPool = EmptyQueue
    /\ trackingCount = 0 /\ made = 0
    /\ status = [c \in Client |-> "down"]
    /\ failed = {} /\ deleted = {}
    /\ pc = [u \in Users |-> "idle"]
    /\ client = [u \in Users |-> NoClient]

-----------------------------------------------------------------------------
(* isConnected() is the flag, whatever the state of the stream. *)
isConnected(c) == status[c] # "down"

(* connect() leaves the flag clear if the TCP connection fails, but sets it  *)
(* before the TLS handshake and keeps it if that fails.                      *)
connectOutcomes == {"up", "down", "broken"}

-----------------------------------------------------------------------------
(* acquire().  Mutant: a pooled client is passed over. *)
MustCreateAlways == TRUE

MustCreate == pool.items = << >>

AcquirePooled(u) ==
    /\ pc[u] = "idle" /\ CanLock(pool) /\ pool.items # << >>
    /\ pool' = Popped(pool)
    /\ client' = [client EXCEPT ![u] = Head(pool.items)]
    /\ pc' = [pc EXCEPT ![u] = "using"]
    /\ trackingCount' = trackingCount + 1
    /\ UNCHANGED <<closedPool, made, status, failed, deleted>>

AcquireNew(u) ==
    /\ pc[u] = "idle" /\ CanLock(pool) /\ MustCreate
    /\ made < MaxClients
    /\ made' = made + 1
    /\ client' = [client EXCEPT ![u] = made + 1]
    /\ pc' = [pc EXCEPT ![u] = "connecting"]
    /\ UNCHANGED <<queues, trackingCount, status, failed, deleted>>

(* ... connect() returns: a client that failed is dropped, not deleted. *)
Connected(u) ==
    /\ pc[u] = "connecting"
    /\ \E outcome \in connectOutcomes :
         /\ status' = [status EXCEPT ![client[u]] = outcome]
         /\ IF outcome = "up"
              THEN /\ pc' = [pc EXCEPT ![u] = "using"]
                   /\ UNCHANGED <<client, failed>>
              ELSE /\ pc' = [pc EXCEPT ![u] = "idle"]
                   /\ client' = [client EXCEPT ![u] = NoClient]
                   /\ failed' = failed \cup {client[u]}
    /\ UNCHANGED <<queues, trackingCount, made, deleted>>

-----------------------------------------------------------------------------
(* performRequest() that fails to write or read; a success changes nothing. *)
RequestFails(u) ==
    /\ pc[u] = "using" /\ isConnected(client[u])
    /\ status' = [status EXCEPT ![client[u]] = "down"]
    /\ UNCHANGED <<queues, trackingCount, made, failed, deleted, pc, client>>

(* performRequestAsync() that fails to read does not clear the flag. *)
AsyncReadFails(u) ==
    /\ pc[u] = "using" /\ isConnected(client[u])
    /\ status' = [status EXCEPT ![client[u]] = "broken"]
    /\ UNCHANGED <<queues, trackingCount, made, failed, deleted, pc, client>>

(* performRequest() on a client that is not connected connects it again. *)
Reconnect(u) ==
    /\ pc[u] = "using" /\ ~isConnected(client[u])
    /\ \E outcome \in connectOutcomes :
         status' = [status EXCEPT ![client[u]] = outcome]
    /\ UNCHANGED <<queues, trackingCount, made, failed, deleted, pc, client>>

-----------------------------------------------------------------------------
(* release(): the client is pushed to the queue its flag tells.  Mutant: any *)
(* client may go back to the pool. *)
ReleaseOpenUnchecked(u) ==
    /\ pc[u] = "using"
    /\ CanLock(pool)
    /\ pool' = TakenBy(pool, u)
    /\ pc' = [pc EXCEPT ![u] = "pooling"]
    /\ UNCHANGED <<closedPool, trackingCount, made, status, failed, deleted, client>>

ReleaseOpen(u) ==
    /\ pc[u] = "using" /\ isConnected(client[u])
    /\ CanLock(pool)
    /\ pool' = TakenBy(pool, u)
    /\ pc' = [pc EXCEPT ![u] = "pooling"]
    /\ UNCHANGED <<closedPool, trackingCount, made, status, failed, deleted, client>>

(* Mutant: the client that acquire() did not get is released, too. *)
ReleaseClosedNull(u) ==
    /\ pc[u] \in {"idle", "using"}
    /\ pc[u] = "using" => ~isConnected(client[u])
    /\ CanLock(closedPool)
    /\ closedPool' = TakenBy(closedPool, u)
    /\ pc' = [pc EXCEPT ![u] = "closing"]
    /\ UNCHANGED <<pool, trackingCount, made, status, failed, deleted, client>>

ReleaseClosed(u) ==
    /\ pc[u] = "using" /\ ~isConnected(client[u])
    /\ CanLock(closedPool)
    /\ closedPool' = TakenBy(closedPool, u)
    /\ pc' = [pc EXCEPT ![u] = "closing"]
    /\ UNCHANGED <<pool, trackingCount, made, status, failed, deleted, client>>

(* Mutant: only a pooled client is counted off. *)
ReleasedUncounted(u) ==
    /\ client' = [client EXCEPT ![u] = NoClient]
    /\ pc' = [pc EXCEPT ![u] = "idle"]
    /\ trackingCount' = IF pc[u] = "pooling" THEN trackingCount - 1 ELSE trackingCount
    /\ UNCHANGED <<made, status, failed, deleted>>

Released(u) ==
    /\ client' = [client EXCEPT ![u] = NoClient]
    /\ pc' = [pc EXCEPT ![u] = "idle"]
    /\ trackingCount' = trackingCount - 1
    /\ UNCHANGED <<made, status, failed, deleted>>

PushOpen(u) ==
    /\ pc[u] = "pooling" /\ CanPush(pool)
    /\ pool' = Pushed(pool, client[u])
    /\ Released(u)
    /\ UNCHANGED closedPool

PushClosed(u) ==
    /\ pc[u] = "closing" /\ CanPush(closedPool)
    /\ closedPool' = Pushed(closedPool, client[u])
    /\ Released(u)
    /\ UNCHANGED pool

(* collect(): one client each time it wakes. *)
Collect ==
    /\ CanLock(closedPool) /\ closedPool.items # << >>
    /\ closedPool' = Popped(closedPool)
    /\ deleted' = deleted \cup {Head(closedPool.items)}
    /\ UNCHANGED <<pool, trackingCount, made, status, failed, pc, client>>

-----------------------------------------------------------------------------
Release(u) == ReleaseOpen(u) \/ ReleaseClosed(u)
Push(u) == PushOpen(u) \/ PushClosed(u)

Next == \/ \E u \in Users :
             \/ AcquirePooled(u) \/ AcquireNew(u) \/ Connected(u)
             \/ RequestFails(u) \/ AsyncReadFails(u) \/ Reconnect(u)
             \/ Release(u) \/ Push(u)
        \/ Collect

(* Threads and the collector go on, connect() returns; that a user releases  *)
(* what it has is not asked.  A spinning thread may lose the lock to others  *)
(* for ever, hence nothing is strongly fair.                                 *)
Fairness == /\ \A u \in Users : WF_vars(Push(u)) /\ WF_vars(Connected(u))
            /\ WF_vars(Collect)

Spec == Init /\ [][Next]_vars
FairSpec == Spec /\ Fairness

-----------------------------------------------------------------------------
TypeOK ==
    /\ pool \in Queue(Client) /\ closedPool \in Queue(Client)
    /\ Len(pool.items) <= Capacity /\ Len(closedPool.items) <= Capacity
    /\ trackingCount \in Int /\ made \in 0 .. MaxClients
    /\ status \in [Client -> connectOutcomes]
    /\ failed \subseteq Client /\ deleted \subseteq Client
    /\ pc \in [Users -> {"idle", "connecting", "using", "pooling", "closing"}]
    /\ client \in [Users -> Client \cup {NoClient}]

-----------------------------------------------------------------------------
Held == {client[u] : u \in Users} \ {NoClient}
Items(queue) == {queue.items[i] : i \in 1 .. Len(queue.items)}

(* Every client ever made is in exactly one place: with one user, in one of  *)
(* the queues at one position, deleted, or dropped by acquire() when its     *)
(* connect() failed.  No two users ever share a client, none is used after   *)
(* it was deleted, and the dropped ones are all that leaks.                  *)
OnePlace ==
    /\ 1 .. made = Held \cup Items(pool) \cup Items(closedPool) \cup deleted \cup failed
    /\ made = Cardinality({u \in Users : client[u] # NoClient}) + Len(pool.items)
                 + Len(closedPool.items) + Cardinality(deleted)
                 + Cardinality(failed)

(* trackingCount does not count the clients that are out: it lacks every     *)
(* client that acquire() made and connected.                                 *)
TrackingLacksMade ==
    LET out == {u \in Users : pc[u] \in {"using", "pooling", "closing"}}
        connecting == {u \in Users : pc[u] = "connecting"}
    IN  trackingCount = Cardinality(out)
                          - (made - Cardinality(failed) - Cardinality(connecting))

(* acquire() makes a client only when none is pooled, so that there are      *)
(* never more open clients, pooled or out, than users; this alone keeps the  *)
(* pool from filling up, for maxSize (clientpool.cpp:34) is not read.        *)
NoMoreThanUsers ==
    Len(pool.items) + Cardinality(Held) <= Cardinality(Users)

(* With no more users than places in the pool a release of an open client    *)
(* returns (Capacity >= Cardinality(Users) in the run).                      *)
OpenReleaseReturns == \A u \in Users : (pc[u] = "pooling") ~> (pc[u] = "idle")

(* The same for a closed client ("release the connection", clientpool.cpp:   *)
(* 119).  Refuted: the collector takes one client each three seconds; as     *)
(* soon as closedPool_ is full push() waits for it inside the lock that its  *)
(* pop() needs.                                                              *)
ClosedReleaseReturns == \A u \in Users : (pc[u] = "closing") ~> (pc[u] = "idle")

(* A client in the pool has its flag set, one in closedPool_ has not: what   *)
(* release() read is still true, since nobody touches a queued client.       *)
SortedByFlag ==
    /\ \A c \in Items(pool) : isConnected(c)
    /\ \A c \in Items(closedPool) \cup deleted : ~isConnected(c)

(* No client is handed out twice, lost or used after it was deleted, and the *)
(* queues, the counter and the clients' flags fit together in every          *)
(* interleaving of users and collector (clientpool.cpp:76-129).              *)
PoolOK == TypeOK /\ OnePlace /\ TrackingLacksMade /\ NoMoreThanUsers /\ SortedByFlag
=============================================================================
