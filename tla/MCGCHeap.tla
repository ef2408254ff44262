------------------------------ MODULE MCGCHeap ------------------------------
(* Constants of GCHeap for TLC. *)
EXTENDS GCHeap, TLC

CONSTANTS b1, b2, b3, s1, s2, lit

MCSlotKind == [s \in Slot |-> IF s = s2 THEN "wedge" ELSE "ptr"]
MCOneField == <<"ptr">>
MCTwoFields == <<"ptr", "wedge">>
MCBlockSize == [t \in Types |-> IF t = "node" THEN 2 ELSE 1]
BlockSymmetry == Permutations(Addr)
=============================================================================
