------------------------------ MODULE MCDaemon ------------------------------
(* Daemon on a small instance. *)
EXTENDS Daemon

CONSTANTS p1, p2, c1, c2
=============================================================================
