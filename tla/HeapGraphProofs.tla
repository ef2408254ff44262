-------------------------- MODULE HeapGraphProofs --------------------------
(***************************************************************************)
(* Facts about reachability that the proofs about the collector use.       *)
(***************************************************************************)
EXTENDS HeapGraph, TLAPS

\* The reached set holds what it starts from.
LEMMA ReachContains ==
  ASSUME NEW to, NEW T, T \subseteq DOMAIN to
  PROVE  T \subseteq ReachFrom(T, to)
BY DEF ReachFrom

\* The reached set is closed: mark_ptr's recursion cannot leave it.
LEMMA ReachClosed ==
  ASSUME NEW to, NEW T,
         \A b \in DOMAIN to : to[b] \subseteq DOMAIN to
  PROVE  Closed(ReachFrom(T, to), to)
BY DEF ReachFrom, Closed

\* The reached set is the least closed one: what mark_ptr's recursion leaves
\* marked covers it as soon as it is closed.
LEMMA ReachLeast ==
  ASSUME NEW to, NEW T, NEW S \in SUBSET DOMAIN to,
         T \subseteq S, Closed(S, to)
  PROVE  ReachFrom(T, to) \subseteq S
BY DEF ReachFrom

\* Reached blocks are blocks.
LEMMA ReachWithin ==
  ASSUME NEW to, NEW T
  PROVE  ReachFrom(T, to) \subseteq DOMAIN to
BY DEF ReachFrom
=============================================================================
