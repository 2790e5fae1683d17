---------------------------- MODULE MCRouterHook ----------------------------
(* Instances of RouterHook for TLC; each .cfg picks one. *)
EXTENDS RouterHook
TwoSlots == {"top", "tail"}
\* The chains of weight nodes: none, one node, and one more behind it.
Moving == {{}, {0}, {0, 1}}
Still == {{0}}
\* All routers on the host, or all but the second.
AllOrMost == {Layer, Layer \ {1}}
All == {Layer}
=============================================================================
