---------------------------- MODULE MCEngineHost ----------------------------
(* EngineHost on a small instance. *)
EXTENDS EngineHost
=============================================================================
