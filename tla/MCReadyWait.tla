---------------------------- MODULE MCReadyWait ----------------------------
(* ReadyWait on a small instance. *)
EXTENDS ReadyWait
=============================================================================
