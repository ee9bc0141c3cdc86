----------------------------- MODULE AsioTimer -----------------------------
(***************************************************************************)
(* A Boost.Asio timer as its users in httpx see it.  A wait that is        *)
(* outstanding either expires, and its handler is queued for the           *)
(* io_context, or is cancelled.  What matters: a handler that is queued    *)
(* already can no longer be cancelled, neither by cancel() nor by          *)
(* expires_from_now(), and runs without an error code.                     *)
(*                                                                         *)
(* armed: a wait is outstanding; due: handlers queued.  The handler of a   *)
(* cancelled wait gets operation_aborted; all users then return at once,   *)
(* so that it is left out.                                                 *)
(***************************************************************************)
EXTENDS Naturals

Idle == [armed |-> FALSE, due |-> 0]

(* expires_from_now() and async_wait() *)
Arm(timer) == [timer EXCEPT !.armed = TRUE]

(* cancel() *)
Cancel(timer) == [timer EXCEPT !.armed = FALSE]

(* the wait is over *)
Expire(timer) == [armed |-> FALSE, due |-> timer.due + 1]

(* the io_context runs a queued handler *)
Run(timer) == [timer EXCEPT !.due = @ - 1]
=============================================================================
