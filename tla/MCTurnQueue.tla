---------------------------- MODULE MCTurnQueue -----------------------------
(***************************************************************************)
(* TurnQueue on a small instance.                                          *)
(***************************************************************************)
EXTENDS TurnQueue
=============================================================================
