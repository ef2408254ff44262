------------------------------- MODULE GCHeap -------------------------------
(***************************************************************************)
(* The garbage collector every Tuppu binary links: the mark-sweep          *)
(* allocator, the shadow stack of roots and the llvm_gc_root_chain walk of *)
(* src/runtime/tuppu_gc.c.                                                 *)
(*                                                                         *)
(* A block is an address calloc may return.  Its contents are abstracted   *)
(* to the pointers its type descriptor leads the collector to: a "bytes"   *)
(* block has none (type = NULL), a "node" block has one per entry of       *)
(* FieldKind.  A pointer is traced either as the start of a block          *)
(* (mark_ptr) or as an interior pointer, a wedge (mark_wedge); which one   *)
(* is a property of the place that holds it, so a pointer into block b is  *)
(* the value b in both cases.  Foreign holds the pointers that do not lead *)
(* into a block: string literals, malloc'd buffers.                        *)
(*                                                                         *)
(* The collection itself is modelled step by step, as the C code runs it:  *)
(* one action per root looked at, per field traced, per list node swept.   *)
(* The program is the environment.  It loads and stores only pointers it   *)
(* can still reach from its registered roots, or the result of the last    *)
(* allocation, which is in a register until it is stored.                  *)
(*                                                                         *)
(* A definition marked "faulty" is no part of the model: it is the next    *)
(* one with a bug in it, and the property that finds the bug is listed     *)
(* with it in PROJECT.json.                                                *)
(***************************************************************************)
EXTENDS HeapGraph, Integers, Sequences, FiniteSets, FiniteSetsExt, Functions

CONSTANTS
  Addr,           \* addresses of blocks
  Slot,           \* stack slots (allocas) a program registers as roots
  NULL,           \* the null pointer, also an empty root cell
  Foreign,        \* pointers that are not into a GC block
  SlotKind,       \* how a root's descriptor traces the slot
  FieldKind,      \* how a node's descriptor traces each pointer field
  BlockSize,      \* bytes a block of each type takes, header included
  SHADOW_MAX,     \* capacity of the shadow array
  NumRoots,       \* root cells of one llvm StackEntry (map->num_roots)
  MaxEntries,     \* bound: StackEntries open at once
  InitThreshold,  \* initial gc_threshold
  Stress          \* gc_stress

Kinds == {"ptr", "wedge"}
Types == {"bytes", "node"}
Fields == DOMAIN FieldKind

ASSUME NotBlocks == NULL \notin Addr /\ Foreign \cap Addr = {}
ASSUME NotSlot == NULL \notin Slot
ASSUME KindsAssumption ==
  /\ SlotKind \in [Slot -> Kinds]
  /\ FieldKind \in Seq(Kinds)
ASSUME SizesAssumption == BlockSize \in [Types -> Nat \ {0}]
ASSUME BoundsAssumption ==
  /\ SHADOW_MAX \in Nat /\ NumRoots \in Nat \ {0} /\ MaxEntries \in Nat
  /\ InitThreshold \in Nat \ {0} /\ Stress \in BOOLEAN

VARIABLES
  type, field,       \* contents of each block
  mark,              \* hdr->mark
  live_list,         \* headers in list order; while sweeping, those before cur
  rest,              \* while sweeping, the headers from cur on
  live_bytes, gc_threshold,
  shadow,            \* shadow[0 .. shadow_top)
  chain,             \* llvm_gc_root_chain, newest StackEntry first
  slot,              \* the pointer each stack slot holds
  ret,               \* result of the last allocation, not stored yet
  phase,             \* what the runtime is doing
  request,           \* type the pending allocation asked for, or "none"
  shadow_i, entry_i, root_i,  \* loop cursors of mark_all
  stack,             \* activations of mark_ptr, innermost last
  scan               \* fields each activation has traced

heapVars == <<type, field, live_list, rest, live_bytes, gc_threshold>>
rootVars == <<shadow, chain, slot>>
markVars == <<mark, shadow_i, entry_i, root_i, stack, scan>>
vars == <<heapVars, rootVars, markVars, ret, phase, request>>

Live == Range(live_list) \cup Range(rest)

-----------------------------------------------------------------------------
(* What the roots reach. *)

EmptyEntry == [i \in 1..NumRoots |-> NULL]
ChainSlots == {chain[e][i] : e \in DOMAIN chain, i \in 1..NumRoots} \ {NULL}
RootSlots == Range(shadow) \cup ChainSlots
RootTargets == {slot[s] : s \in RootSlots} \cap Addr

\* The blocks a block's descriptor leads to; a "bytes" block has none.
Targets(b) == IF type[b] = "node" THEN {field[b][f] : f \in Fields} \cap Addr
                                  ELSE {}
Graph == [b \in Addr |-> Targets(b)]

Reachable == ReachFrom(RootTargets \cup ({ret} \cap Addr), Graph)

\* Pointers the program can hold without breaking its side of the contract.
Held == Reachable \cup {NULL} \cup Foreign

-----------------------------------------------------------------------------
Init ==
  /\ type = [b \in Addr |-> "bytes"]
  /\ field = [b \in Addr |-> [f \in Fields |-> NULL]]
  /\ mark = [b \in Addr |-> FALSE]
  /\ live_list = << >> /\ rest = << >>
  /\ live_bytes = 0 /\ gc_threshold = InitThreshold
  /\ shadow = << >> /\ chain = << >>
  /\ slot = [s \in Slot |-> NULL]
  /\ ret = NULL /\ phase = "run" /\ request = "none"
  /\ shadow_i = 1 /\ entry_i = 1 /\ root_i = 1
  /\ stack = << >> /\ scan = [b \in Addr |-> 0]

-----------------------------------------------------------------------------
(* The program: roots, stores, exit. *)

\* Storing the fresh block makes it reachable: the register is dead after.
Consume(p) == ret' = IF p = ret THEN NULL ELSE ret

\* The compiler stores into the slot and registers it.
PushRoot(s, p) ==
  /\ phase = "run" /\ Len(shadow) < SHADOW_MAX
  /\ shadow' = Append(shadow, s)
  /\ slot' = [slot EXCEPT ![s] = p]
  /\ Consume(p)
  /\ UNCHANGED <<heapVars, markVars, chain, phase, request>>

Abort ==
  /\ phase' = "abort"
  /\ UNCHANGED <<heapVars, rootVars, markVars, ret, request>>

PushOverflow == phase = "run" /\ Len(shadow) >= SHADOW_MAX /\ Abort

PopRoots(n) ==
  /\ phase = "run" /\ n <= Len(shadow)
  /\ shadow' = SubSeq(shadow, 1, Len(shadow) - n)
  /\ UNCHANGED <<heapVars, markVars, chain, slot, ret, phase, request>>

PopUnderflow(n) == phase = "run" /\ n > Len(shadow) /\ Abort

\* Prologue and epilogue LLVM's strategy emits for a gc "shadow-stack" fn.
EnterFn ==
  /\ phase = "run" /\ Len(chain) < MaxEntries
  /\ chain' = <<EmptyEntry>> \o chain
  /\ UNCHANGED <<heapVars, markVars, shadow, slot, ret, phase, request>>

LeaveFn ==
  /\ phase = "run" /\ chain # << >>
  /\ chain' = Tail(chain)
  /\ UNCHANGED <<heapVars, markVars, shadow, slot, ret, phase, request>>

SetRoot(i, s, p) ==
  /\ phase = "run" /\ chain # << >>
  /\ chain' = [chain EXCEPT ![1] = [@ EXCEPT ![i] = s]]
  /\ slot' = [slot EXCEPT ![s] = p]
  /\ Consume(p)
  /\ UNCHANGED <<heapVars, markVars, shadow, phase, request>>

ClearRoot(i) ==
  /\ phase = "run" /\ chain # << >>
  /\ chain' = [chain EXCEPT ![1] = [@ EXCEPT ![i] = NULL]]
  /\ UNCHANGED <<heapVars, markVars, shadow, slot, ret, phase, request>>

StoreSlot(s, p) ==
  /\ phase = "run" /\ s \in RootSlots
  /\ slot' = [slot EXCEPT ![s] = p]
  /\ Consume(p)
  /\ UNCHANGED <<heapVars, markVars, shadow, chain, phase, request>>

StoreField(b, f, p) ==
  /\ phase = "run" /\ type[b] = "node"
  /\ field' = [field EXCEPT ![b] = [@ EXCEPT ![f] = p]]
  /\ Consume(p)
  /\ UNCHANGED <<type, live_list, rest, live_bytes, gc_threshold, rootVars,
                 markVars, phase, request>>

\* gc_fini: an exit with roots still registered aborts.
Exit ==
  /\ phase = "run"
  /\ phase' = IF shadow # << >> \/ chain # << >> THEN "abort" ELSE "exit"
  /\ UNCHANGED <<heapVars, rootVars, markVars, ret, request>>

-----------------------------------------------------------------------------
(* Allocation and collection. *)

BeginCollect(t) == phase' = "mark" /\ request' = t

\* __tuppu_gc_collect called directly.
Collect ==
  /\ phase = "run"
  /\ BeginCollect("none")
  /\ ret' = NULL
  /\ UNCHANGED <<heapVars, rootVars, markVars>>

NeedsCollectLate == Stress \/ live_bytes > gc_threshold   \* faulty
NeedsCollect == Stress \/ live_bytes >= gc_threshold

\* raw_alloc: maybe_collect first, the block itself afterwards.
Alloc(t) ==
  /\ phase = "run"
  /\ IF NeedsCollect THEN BeginCollect(t)
                     ELSE phase' = "alloc" /\ request' = t
  /\ ret' = NULL
  /\ UNCHANGED <<heapVars, rootVars, markVars>>

\* mark_ptr and mark_wedge: a magic header precedes every block start;
\* a wedge is looked up in live_list.
FindsBlockNoWedge(kind, p) == kind = "ptr" /\ p \in Addr   \* faulty
FindsBlock(kind, p) ==
  \/ kind = "ptr" /\ p \in Addr
  \/ kind = "wedge" /\ p \in Range(live_list)

MarkPtrAgain(kind, p, activations) ==   \* faulty
  IF FindsBlock(kind, p)
    THEN /\ mark' = [mark EXCEPT ![p] = TRUE]
         /\ stack' = Append(activations, p)
    ELSE mark' = mark /\ stack' = activations

MarkPtr(kind, p, activations) ==
  IF FindsBlock(kind, p) /\ ~mark[p]
    THEN /\ mark' = [mark EXCEPT ![p] = TRUE]
         /\ stack' = Append(activations, p)
    ELSE mark' = mark /\ stack' = activations

MarkShadowRoot ==
  /\ phase = "mark" /\ stack = << >> /\ shadow_i <= Len(shadow)
  /\ LET s == shadow[shadow_i] IN MarkPtr(SlotKind[s], slot[s], stack)
  /\ shadow_i' = shadow_i + 1
  /\ UNCHANGED <<heapVars, rootVars, entry_i, root_i, scan, ret, phase, request>>

\* The last cell of the entry; null cells before it are skipped over.
LastCellNull == root_i = NumRoots \/ chain[entry_i][root_i] = NULL   \* faulty
LastCell == root_i = NumRoots

MarkChainRoot ==
  /\ phase = "mark" /\ stack = << >>
  /\ shadow_i > Len(shadow) /\ entry_i <= Len(chain)
  /\ LET s == chain[entry_i][root_i] IN
       IF s = NULL THEN UNCHANGED <<mark, stack>>
                   ELSE MarkPtr(SlotKind[s], slot[s], stack)
  /\ IF LastCell
       THEN root_i' = 1 /\ entry_i' = entry_i + 1
       ELSE root_i' = root_i + 1 /\ entry_i' = entry_i
  /\ UNCHANGED <<heapVars, rootVars, shadow_i, scan, ret, phase, request>>

\* Descriptor entries trace_struct has still to visit.
PendingShort(b) == type[b] = "node" /\ scan[b] + 2 \in Fields   \* faulty
Pending(b) == type[b] = "node" /\ scan[b] + 1 \in Fields

\* trace_struct of the innermost activation, one descriptor entry at a time.
TraceField ==
  /\ phase = "mark" /\ stack # << >>
  /\ LET b == stack[Len(stack)]
         f == scan[b] + 1
     IN  /\ Pending(b)
         /\ MarkPtr(FieldKind[f], field[b][f], stack)
         /\ scan' = [scan EXCEPT ![b] = f]
  /\ UNCHANGED <<heapVars, rootVars, shadow_i, entry_i, root_i, ret, phase, request>>

TraceReturn ==
  /\ phase = "mark" /\ stack # << >>
  /\ LET b == stack[Len(stack)]
     IN  /\ ~Pending(b)
         /\ stack' = SubSeq(stack, 1, Len(stack) - 1)
         /\ scan' = [scan EXCEPT ![b] = 0]
  /\ UNCHANGED <<heapVars, rootVars, mark, shadow_i, entry_i, root_i, ret, phase, request>>

RootsDoneEarly == shadow_i >= Len(shadow) /\ entry_i > Len(chain)   \* faulty
RootsDone == shadow_i > Len(shadow) /\ entry_i > Len(chain)

SweepStart ==
  /\ phase = "mark" /\ stack = << >> /\ RootsDone
  /\ phase' = "sweep"
  /\ live_list' = << >> /\ rest' = live_list
  /\ shadow_i' = 1 /\ entry_i' = 1 /\ root_i' = 1   \* locals of mark_all
  /\ UNCHANGED <<type, field, live_bytes, gc_threshold, rootVars, mark, stack,
                 scan, ret, request>>

\* The cursor moves past a header kept as well as past one unlinked.
Advance == Tail(rest)

ClearMarkNot(b) == mark   \* faulty
ClearMark(b) == [mark EXCEPT ![b] = FALSE]

SweepKeep ==
  /\ phase = "sweep" /\ rest # << >> /\ mark[Head(rest)]
  /\ mark' = ClearMark(Head(rest))
  /\ live_list' = Append(live_list, Head(rest))
  /\ rest' = Advance
  /\ UNCHANGED <<type, field, live_bytes, gc_threshold, rootVars, shadow_i,
                 entry_i, root_i, stack, scan, ret, phase, request>>

BytesLessNot(b) == live_bytes   \* faulty
BytesLess(b) == live_bytes - BlockSize[type[b]]

\* A freed block holds nothing any more.
SweepFree ==
  /\ phase = "sweep" /\ rest # << >> /\ ~mark[Head(rest)]
  /\ rest' = Advance
  /\ live_bytes' = BytesLess(Head(rest))
  /\ type' = [type EXCEPT ![Head(rest)] = "bytes"]
  /\ field' = [field EXCEPT ![Head(rest)] = [f \in Fields |-> NULL]]
  /\ UNCHANGED <<live_list, gc_threshold, rootVars, markVars, ret, phase, request>>

CallerAlloc == "alloc"   \* faulty
Caller == IF request = "none" THEN "run" ELSE "alloc"

\* Back to the caller; maybe_collect also raises the threshold.
SweepDone ==
  /\ phase = "sweep" /\ rest = << >>
  /\ phase' = Caller
  /\ gc_threshold' = IF request # "none" /\ live_bytes * 2 > gc_threshold
                       THEN live_bytes * 2 ELSE gc_threshold
  /\ UNCHANGED <<type, field, live_list, rest, live_bytes, rootVars, markVars, ret, request>>

\* The zeroed block goes to the head of live_list.
Calloc(b) ==
  /\ phase = "alloc"
  /\ type' = [type EXCEPT ![b] = request]
  /\ field' = [field EXCEPT ![b] = [f \in Fields |-> NULL]]
  /\ mark' = [mark EXCEPT ![b] = FALSE]
  /\ live_list' = <<b>> \o live_list
  /\ live_bytes' = live_bytes + BlockSize[request]
  /\ ret' = b /\ phase' = "run" /\ request' = "none"
  /\ UNCHANGED <<rest, gc_threshold, rootVars, shadow_i, entry_i, root_i, stack, scan>>

OutOfMemoryRetried == phase = "alloc" /\ Live = Addr /\ UNCHANGED vars   \* faulty
OutOfMemory == phase = "alloc" /\ Live = Addr /\ Abort

-----------------------------------------------------------------------------
Program ==
  \/ \E s \in Slot, p \in Held : PushRoot(s, p) \/ StoreSlot(s, p)
  \/ \E n \in 1..Len(shadow) : PopRoots(n)
  \/ PopUnderflow(Len(shadow) + 1)
  \/ PushOverflow
  \/ EnterFn
  \/ LeaveFn
  \/ \E i \in 1..NumRoots, s \in Slot, p \in Held : SetRoot(i, s, p)
  \/ \E i \in 1..NumRoots : ClearRoot(i)
  \/ \E b \in Reachable, f \in Fields, p \in Held : StoreField(b, f, p)
  \/ \E t \in Types : Alloc(t)
  \/ Collect
  \/ Exit

Collector ==
  \/ MarkShadowRoot
  \/ MarkChainRoot
  \/ TraceField
  \/ TraceReturn
  \/ SweepStart
  \/ SweepKeep
  \/ SweepFree
  \/ SweepDone
  \/ \E b \in Addr \ Live : Calloc(b)
  \/ OutOfMemory

Next == Program \/ Collector

\* The runtime is a sequence of calls: once begun, a collection runs on.
Spec == Init /\ [][Next]_vars /\ WF_vars(Collector)

-----------------------------------------------------------------------------
(* Properties. *)

\* Every variable has the shape of the C state it stands for.
TypeOK ==
  /\ type \in [Addr -> Types]
  /\ field \in [Addr -> [Fields -> Addr \cup {NULL} \cup Foreign]]
  /\ mark \in [Addr -> BOOLEAN]
  /\ live_list \in Seq(Addr) /\ rest \in Seq(Addr)
  /\ live_bytes \in Int /\ gc_threshold \in Int
  /\ shadow \in Seq(Slot)
  /\ chain \in Seq([1..NumRoots -> Slot \cup {NULL}])
  /\ slot \in [Slot -> Addr \cup {NULL} \cup Foreign]
  /\ ret \in Addr \cup {NULL}
  /\ phase \in {"run", "mark", "sweep", "alloc", "exit", "abort"}
  /\ request \in Types \cup {"none"}
  /\ phase = "alloc" => request \in Types
  /\ shadow_i \in Nat \ {0} /\ entry_i \in Nat \ {0} /\ root_i \in 1..NumRoots
  /\ stack \in Seq(Addr)
  /\ scan \in [Addr -> 0..Len(FieldKind)]

\* Whatever the registered roots reach is still in live_list, at every point of
\* a collection too: sweep frees no block mark_all should have found.
NoDangling == Reachable \subseteq Live

\* The live list holds a header once, so sweep's walk ends and frees a block at
\* most once, and live_bytes is the total of the listed sizes: the trigger of
\* maybe_collect cannot drift.
ListSound == IsInjective(live_list \o rest)
Sizes == [b \in Addr |-> BlockSize[type[b]]]
BytesExact == live_bytes = MapThenSumSet(LAMBDA b : Sizes[b], Live)

\* Between collections no header carries a mark: a stale one would make the next
\* mark_ptr return early and leave what hangs off that block to the sweep.
MarksAtRest ==
  phase \notin {"mark", "sweep"} => \A b \in Live : ~mark[b]

\* Once swept, the heap is exactly what the roots reach: cycles and blocks that
\* died during the program's last stretch do not float to the next collection.
CollectsAllGarbage ==
  phase = "sweep" /\ rest = << >> => Live = Reachable

\* The heap never outgrows the threshold by more than the block being added.
HeapBounded ==
  \E t \in Types : live_bytes < gc_threshold + BlockSize[t]

\* mark_ptr's C recursion holds a block at most once, cycles or not, so its
\* depth never exceeds the number of live blocks.
RecursionBounded ==
  /\ Len(stack) <= Cardinality(Live)
  /\ IsInjective(stack)

\* A collection or an allocation the program asked for returns or aborts.
RuntimeReturns ==
  phase \in {"mark", "sweep", "alloc"} ~> phase \in {"run", "abort"}

-----------------------------------------------------------------------------
(* The inductive invariant behind NoDangling, CollectsAllGarbage,          *)
(* ListSound and MarksAtRest.                                              *)

Marked == {b \in Addr : mark[b]}

\* Each phase cleans up after itself.
PhaseInv ==
  /\ phase # "sweep" => rest = << >>
  /\ phase # "mark" => /\ stack = << >>
                       /\ shadow_i = 1 /\ entry_i = 1 /\ root_i = 1
  /\ phase \in {"mark", "sweep", "alloc"} => ret = NULL
  /\ phase \notin {"mark", "sweep"} => Marked = {}
  /\ \A b \in Addr : b \notin Range(stack) => scan[b] = 0

ListInv ==
  /\ IsInjective(live_list) /\ IsInjective(rest)
  /\ Range(live_list) \cap Range(rest) = {}

\* Marking: nothing marked is garbage; what a finished activation or a
\* passed cursor saw is marked.
MarkInv ==
  phase = "mark" =>
    /\ Marked \subseteq Reachable
    /\ Range(stack) \subseteq Marked
    /\ \A b \in Marked, f \in Fields :
         /\ type[b] = "node" /\ field[b][f] \in Addr
         /\ b \notin Range(stack) \/ f <= scan[b]
         => mark[field[b][f]]
    /\ \A i \in DOMAIN shadow :
         i < shadow_i /\ slot[shadow[i]] \in Addr => mark[slot[shadow[i]]]
    /\ \A e \in DOMAIN chain, i \in 1..NumRoots :
         /\ e < entry_i \/ (e = entry_i /\ i < root_i)
         /\ chain[e][i] # NULL /\ slot[chain[e][i]] \in Addr
         => mark[slot[chain[e][i]]]

\* Sweeping: what is kept or marked is exactly what is reachable.
SweepInv ==
  phase = "sweep" =>
    /\ Marked \subseteq Range(rest)
    /\ Range(live_list) \cup Marked = Reachable

IInv == PhaseInv /\ ListInv /\ NoDangling /\ MarkInv /\ SweepInv

-----------------------------------------------------------------------------
\* The step-by-step collector is the runtime the compiler relies on.  A sweep
\* in progress has already reclaimed every unmarked block.
Allocated ==
  Range(live_list) \cup (IF phase = "sweep" THEN {b \in Range(rest) : mark[b]} ELSE {})
Managed == INSTANCE ManagedHeap WITH
  allocated <- Allocated,
  to <- [b \in Addr |-> IF b \in Allocated THEN Targets(b) ELSE {}],
  roots <- RootTargets,
  status <- IF phase \in {"mark", "sweep", "alloc"} THEN "busy" ELSE phase

ImplementsManagedHeap == Managed!Spec
=============================================================================
