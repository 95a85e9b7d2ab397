---------------------------- MODULE MCSupervisor ----------------------------
(***************************************************************************)
(* Model checking of Supervisor.                                           *)
(***************************************************************************)
EXTENDS Supervisor

(* "retries": -1, the default, and a limit. *)
MCRetryLimits == {-1, 4}
=============================================================================
