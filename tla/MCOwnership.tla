---------------------------- MODULE MCOwnership ----------------------------
(* Names of Ownership's variables for TLC; the two of a kind are alike. *)
EXTENDS Ownership, TLC

CONSTANTS x, y, a, b

NameSymmetry == Permutations(Rows) \cup Permutations(Accs)
=============================================================================
