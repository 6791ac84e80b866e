---------------------------- MODULE MCSupervisor ----------------------------
(* A small instance of the supervisor for TLC. *)
EXTENDS Supervisor
=============================================================================
