----------------------------- MODULE MCDownloads -----------------------------
(* One entry, which is added with two files or with another one. *)
EXTENDS Downloads, TLC
CONSTANTS d, d1, d2, d3
ListsOfEach == d :> {<<d1, d2>>, <<d3>>}
=============================================================================
