------------------------------ MODULE AsioIOC ------------------------------
(* Who runs the handlers of asynchronous operations (asio_ioc.cpp, the first  *)
(* part of libnet.cpp): there is one io_context, and a thread, a coroutine of *)
(* the work pool or a script calls its run(), poll() or poll_one().  An       *)
(* operation is begun, becomes ready, and waits for one of them.              *)
EXTENDS Integers, Sequences, FiniteSets

CONSTANTS
    Ops,           \* bound: operations that are ever begun
    Threads, Coroutines,     \* what seq_init_net() may start
    Scripts,       \* those that call run(), poll() or poll_one() themselves
    NoOp

ASSUME RunnersAssumption == IsFiniteSet(Ops) /\ NoOp \notin Ops

Runners == Threads \cup Coroutines \cup Scripts

VARIABLES
    work_pool,     \* whether there is a work pool
    stopped,       \* the io_context is stopped
    asked,         \* by a call of seq_asio_stop()
    ops,           \* how far each operation is
    ready,         \* the handlers that wait, in order
    calls,         \* the call of the io_context that each runner is in
    runs           \* the handler that it runs

vars == <<work_pool, stopped, asked, ops, ready, calls, runs>>

Init ==
    /\ work_pool = FALSE /\ stopped = FALSE /\ asked = FALSE
    /\ ops = [o \in Ops |-> "new"] /\ ready = << >>
    /\ calls = [r \in Runners |-> "none"]
    /\ runs = [r \in Runners |-> NoOp]

-----------------------------------------------------------------------------
\* Mutant: nothing keeps the io_context at work.
no_work == 0
\* work_, which counts as an operation that never ends.
work_ == 1
\* An io_context that has no work stops by itself, and nothing restarts it.
StopsIdle(now) ==
    stopped' = (stopped \/ work_ + Cardinality({o \in Ops : now[o] \in {"begun", "ready", "runs"}}) = 0)

Enter(r, call) ==
    /\ calls' = [calls EXCEPT ![r] = call]
    /\ StopsIdle(ops)
    /\ UNCHANGED <<work_pool, asked, ops, ready, runs>>

\* A script begins an operation, or a handler does.
Begin(o) ==
    /\ ops[o] = "new"
    /\ ops' = [ops EXCEPT ![o] = "begun"]
    /\ UNCHANGED <<work_pool, stopped, asked, ready, calls, runs>>
Complete(o) ==
    /\ ops[o] = "begun"
    /\ ops' = [ops EXCEPT ![o] = "ready"]
    /\ ready' = Append(ready, o)
    /\ UNCHANGED <<work_pool, stopped, asked, calls, runs>>

Take(r) ==
    /\ calls[r] \in {"run", "poll", "poll_one"} /\ runs[r] = NoOp
    /\ ~stopped /\ ready # << >>
    /\ runs' = [runs EXCEPT ![r] = Head(ready)]
    /\ ready' = Tail(ready)
    /\ ops' = [ops EXCEPT ![Head(ready)] = "runs"]
    /\ UNCHANGED <<work_pool, stopped, asked, calls>>

\* The thread ends after run(), the coroutine polls again after a yield.
\* Mutant: the coroutine polls once.
ReturnedOnce(r) == IF r \in Scripts THEN "none" ELSE "ended"
Returned(r) == IF r \in Scripts THEN "none" ELSE IF r \in Coroutines THEN "yields" ELSE "ended"

Finish(r) ==
    /\ runs[r] # NoOp
    /\ runs' = [runs EXCEPT ![r] = NoOp]
    /\ ops' = [ops EXCEPT ![runs[r]] = "done"]
    /\ StopsIdle(ops')
    /\ calls' = IF calls[r] = "poll_one" THEN [calls EXCEPT ![r] = Returned(r)] ELSE calls
    /\ UNCHANGED <<work_pool, asked, ready>>

\* run() waits for handlers, poll() and poll_one() do not.
Leave(r) ==
    /\ calls[r] \in {"run", "poll", "poll_one"} /\ runs[r] = NoOp
    /\ stopped \/ (calls[r] # "run" /\ ready = << >>)
    /\ calls' = [calls EXCEPT ![r] = Returned(r)]
    /\ UNCHANGED <<work_pool, stopped, asked, ops, ready, runs>>

-----------------------------------------------------------------------------
seq_init_photon_work_pool ==
    /\ ~work_pool /\ work_pool' = TRUE
    /\ UNCHANGED <<stopped, asked, ops, ready, calls, runs>>

\* seq_init_net(STD_THREAD) starts a thread, which calls run().
thread_net_run(r) == r \in Threads /\ calls[r] = "none" /\ Enter(r, "run")
\* seq_init_net(PHOTON) starts a coroutine; without a work pool it only says so.
seq_init_net(r) == r \in Coroutines /\ calls[r] = "none" /\ work_pool /\ Enter(r, "poll")
coro_net_run(r) == r \in Coroutines /\ calls[r] = "yields" /\ Enter(r, "poll")

seq_asio_run(r) == r \in Scripts /\ calls[r] = "none" /\ Enter(r, "run")
seq_asio_poll(r) == r \in Scripts /\ calls[r] = "none" /\ Enter(r, "poll")
seq_asio_poll_one(r) == r \in Scripts /\ calls[r] = "none" /\ Enter(r, "poll_one")

\* Mutant: it is noted, but the io_context goes on.
stop_later == UNCHANGED stopped
stop == stopped' = TRUE
seq_asio_stop ==
    /\ ~asked /\ asked' = TRUE
    /\ stop
    /\ UNCHANGED <<work_pool, ops, ready, calls, runs>>

Proceeds(r) == Take(r) \/ Finish(r) \/ Leave(r) \/ coro_net_run(r)
Next ==
    \/ \E o \in Ops : Begin(o) \/ Complete(o)
    \/ \E r \in Runners :
          \/ Proceeds(r)
          \/ thread_net_run(r) \/ seq_init_net(r)
          \/ seq_asio_run(r) \/ seq_asio_poll(r) \/ seq_asio_poll_one(r)
    \/ seq_init_photon_work_pool \/ seq_asio_stop

\* A thread that runs goes on, and the vcpus of the pool give every coroutine a
\* turn; handlers return.
Spec == Init /\ [][Next]_vars /\ \A r \in Runners : WF_vars(Proceeds(r))
-----------------------------------------------------------------------------
Started == \E r \in Threads \cup Coroutines : calls[r] # "none"
HandlersRun == \A o \in Ops : ops[o] = "ready" /\ Started ~> ops[o] = "done" \/ asked
StopEndsRun == \A r \in Runners : asked /\ calls[r] = "run" ~> calls[r] # "run"
\* Once a thread or a coroutine has been started, every handler that becomes ready
\* is run, however long the io_context had nothing to do before and whoever else
\* polls it, until a script stops it for good; whoever is in run() then leaves
\* it, even if operations are never completed (asio_ioc.cpp:12, libnet.cpp:24-30,
\* :72-104).
RunsUntilStopped == HandlersRun /\ StopEndsRun
=============================================================================
