---------------------------- MODULE ManagedHeap ----------------------------
(***************************************************************************)
(* What src/runtime/tuppu_gc.c promises the code that calls it, with no    *)
(* mark bits, list, threshold or traversal:                                *)
(*   - a block the registered roots reach is never reclaimed;              *)
(*   - a granted block is one nobody holds, and leads nowhere;             *)
(*   - nothing moves and no contents change while the runtime is busy;     *)
(*   - an explicit collection leaves exactly the reachable blocks.         *)
(***************************************************************************)
EXTENDS HeapGraph

CONSTANTS Addr, NULL

VARIABLES
  allocated,   \* blocks the runtime has handed out and not reclaimed
  to,          \* blocks each block's contents lead to
  roots,       \* blocks the registered roots hold
  ret,         \* the last granted block, held in a register
  status,      \* "run", "busy" (inside the runtime), "exit" or "abort"
  request      \* what the runtime is busy with: a block type or "none"

vars == <<allocated, to, roots, ret, status, request>>

Reachable == ReachFrom(roots \cup ({ret} \cap Addr), to)

Init ==
  /\ allocated = {} /\ roots = {}
  /\ to = [b \in Addr |-> {}]
  /\ ret = NULL /\ status = "run" /\ request = "none"

\* The program rearranges what it can reach and comes by nothing else.
Mutate ==
  /\ status = "run" /\ status' = "run"
  /\ Reachable' \subseteq Reachable
  /\ UNCHANGED <<allocated, request>>

\* An allocation or a collection is asked for; the register dies.
Ask ==
  /\ status = "run" /\ status' = "busy" /\ ret' = NULL
  /\ UNCHANGED <<allocated, to, roots>>

\* The contents of a reclaimed block are gone with it.
Reclaim ==
  /\ status = "busy"
  /\ allocated' = Reachable
  /\ to' = [b \in Addr |-> IF b \in Reachable THEN to[b] ELSE {}]
  /\ UNCHANGED <<roots, ret, status, request>>

Grant(b) ==
  /\ status = "busy" /\ request # "none"
  /\ allocated' = allocated \cup {b}
  /\ to' = [to EXCEPT ![b] = {}]
  /\ ret' = b /\ status' = "run" /\ request' = "none"
  /\ UNCHANGED roots

Collected ==
  /\ status = "busy" /\ request = "none" /\ allocated = Reachable
  /\ status' = "run"
  /\ UNCHANGED <<allocated, to, roots, ret, request>>

Stop ==
  /\ status' \in {"exit", "abort"}
  /\ status \in {"run", "busy"}
  /\ UNCHANGED <<allocated, to, roots, ret, request>>

Next ==
  \/ Mutate \/ Ask \/ Reclaim \/ Collected \/ Stop
  \/ \E b \in Addr \ allocated : Grant(b)

Spec == Init /\ [][Next]_vars
=============================================================================
