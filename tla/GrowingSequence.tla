-------------------------- MODULE GrowingSequence --------------------------
(***************************************************************************)
(* What tablets, ivec and dvec promise the program that uses them: a       *)
(* sequence that grows at its end, whose elements are replaced in place,   *)
(* and that is emptied as a whole.  Allocation, growth, chunks and         *)
(* collections do not exist here.  The steps relate seq and seq', so that  *)
(* TLC need not enumerate the values.                                      *)
(***************************************************************************)
EXTENDS Naturals, Sequences

VARIABLE seq

Init == seq = << >>

Push ==
  /\ Len(seq') = Len(seq) + 1
  /\ \A i \in DOMAIN seq : seq'[i] = seq[i]

Replace ==
  /\ Len(seq') = Len(seq)
  /\ \E i \in DOMAIN seq : \A j \in DOMAIN seq \ {i} : seq'[j] = seq[j]

Clear == seq' = << >>

Next == Push \/ Replace \/ Clear

Spec == Init /\ [][Next]_seq
=============================================================================
