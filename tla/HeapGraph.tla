----------------------------- MODULE HeapGraph -----------------------------
(***************************************************************************)
(* Reachability over a points-to function: to[b] is the set of blocks the  *)
(* contents of block b lead to.  Written as the intersection of the closed *)
(* sets, which is what mark_ptr's recursion (src/runtime/tuppu_gc.c)       *)
(* computes and what a proof can use without induction.                    *)
(***************************************************************************)

Closed(S, to) == \A b \in S : to[b] \subseteq S

\* The blocks reached from the set T, those of T included.
ReachFrom(T, to) ==
  {b \in DOMAIN to :
     \A S \in SUBSET DOMAIN to : T \subseteq S /\ Closed(S, to) => b \in S}
=============================================================================
