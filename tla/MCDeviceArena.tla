--------------------------- MODULE MCDeviceArena ---------------------------
(* Instances of DeviceArena: four layers, two slots, one loader.  Layer 1  *)
(* has no experts, layers 0 and 3 share a slot of the experts, layers 1    *)
(* and 3 one of the other weights; the ends of layers 1 and 2 may go       *)
(* unreported; one read may fail.  In the other instance layer 2 has no    *)
(* experts either, and weights of its own.                                 *)
EXTENDS DeviceArena

CONSTANT w1

Loaders == {w1}
ThreeWithExperts == {0, 2, 3}
OddHasOne == [l \in 0..3 |-> l % 2]
End12 == {1, 2}
FirstAndLast == {0, 3}
OnlyTwo == [l \in 0..3 |-> IF l = 2 THEN 1 ELSE 0]
End1 == {1}
OneRead == {[dense |-> FALSE, k |-> 1, p |-> 0, e |-> 0]}
=============================================================================
