---------------------------- MODULE MCSupervisor ----------------------------
(* Supervisor with two routers and two overlapping reconfigurations. *)
EXTENDS Supervisor

CONSTANTS old, new, p1, p2
=============================================================================
