---------------------------- MODULE GCHeapProofs ----------------------------
(***************************************************************************)
(* The collector of GCHeap never frees what the roots reach, frees the     *)
(* rest, and leaves a sound list and no mark behind, for every number of   *)
(* blocks, slots, roots and fields.                                        *)
(***************************************************************************)
EXTENDS GCHeap, HeapGraphProofs, DataLemmas

USE NotBlocks, NotSlot

\* A block's size is an integer.
LEMMA SizeIsInt == \A t \in Types : BlockSize[t] \in Int
BY SizesAssumption

\* Every step keeps every variable in its type.
LEMMA TypeStep == TypeOK /\ [Next]_vars => TypeOK'
<1> SUFFICES ASSUME TypeOK, [Next]_vars PROVE TypeOK'
  OBVIOUS
<1> USE KindsAssumption, SizesAssumption, BoundsAssumption
        DEF TypeOK, Types, Kinds, Fields
<1> Held \subseteq Addr \cup {NULL} \cup Foreign
  BY ReachWithin DEF Held, Reachable, Graph
<1>a. chain \in Seq([1..NumRoots -> Slot \cup {NULL}])
  OBVIOUS
<1>b. mark \in [Addr -> BOOLEAN] /\ stack \in Seq(Addr)
  OBVIOUS
<1>c. ASSUME chain # << >>
      PROVE  chain[1] \in [1..NumRoots -> Slot \cup {NULL}] /\ 1 \in 1..Len(chain)
  <2> HIDE DEF TypeOK
  <2>1. QED BY <1>a, <1>c
<1>1. CASE UNCHANGED vars
  BY <1>1 DEF vars, heapVars, rootVars, markVars
<1>2. ASSUME NEW s \in Slot, NEW p \in Held, PushRoot(s, p) PROVE TypeOK'
  BY <1>2, RangeAppend DEF PushRoot, Consume, heapVars, markVars
<1>3. ASSUME NEW s \in Slot, NEW p \in Held, StoreSlot(s, p) PROVE TypeOK'
  BY <1>3 DEF StoreSlot, Consume, heapVars, markVars
<1>4. ASSUME NEW n \in 1..Len(shadow), PopRoots(n) PROVE TypeOK'
  BY <1>4, RangeFront DEF PopRoots, heapVars, markVars
<1>5. CASE Abort
  BY <1>5 DEF Abort, heapVars, rootVars, markVars
<1>6. CASE EnterFn
  <2>1. EmptyEntry \in [1..NumRoots -> Slot \cup {NULL}]
    BY DEF EmptyEntry
  <2>2. chain' \in Seq([1..NumRoots -> Slot \cup {NULL}])
    BY <1>6, <2>1, RangePrepend DEF EnterFn
  <2>3. QED BY <1>6, <2>2 DEF EnterFn, heapVars, markVars
<1>7. CASE LeaveFn
  <2>1. chain' \in Seq([1..NumRoots -> Slot \cup {NULL}])
    BY <1>7, RangeHeadTail DEF LeaveFn
  <2>2. QED BY <1>7, <2>1 DEF LeaveFn, heapVars, markVars
<1>8. ASSUME NEW i \in 1..NumRoots, NEW s \in Slot, NEW p \in Held, SetRoot(i, s, p)
      PROVE  TypeOK'
  <2>1. chain[1] \in [1..NumRoots -> Slot \cup {NULL}] /\ 1 \in 1..Len(chain)
    BY <1>8, <1>c DEF SetRoot
  <2> DEFINE entry == [chain[1] EXCEPT ![i] = s]
  <2>2. entry \in [1..NumRoots -> Slot \cup {NULL}]
    BY <2>1
  <2>3. chain' = [chain EXCEPT ![1] = entry]
    BY <1>8 DEF SetRoot
  <2>4. chain' \in Seq([1..NumRoots -> Slot \cup {NULL}])
    BY <1>a, <2>1, <2>2, <2>3, ExceptSeq
  <2>5. QED BY <1>8, <2>4 DEF SetRoot, Consume, heapVars, markVars
<1>9. ASSUME NEW i \in 1..NumRoots, ClearRoot(i) PROVE TypeOK'
  <2>1. chain[1] \in [1..NumRoots -> Slot \cup {NULL}] /\ 1 \in 1..Len(chain)
    BY <1>9, <1>c DEF ClearRoot
  <2> DEFINE entry == [chain[1] EXCEPT ![i] = NULL]
  <2>2. entry \in [1..NumRoots -> Slot \cup {NULL}]
    BY <2>1
  <2>3. chain' = [chain EXCEPT ![1] = entry]
    BY <1>9 DEF ClearRoot
  <2>4. chain' \in Seq([1..NumRoots -> Slot \cup {NULL}])
    BY <1>a, <2>1, <2>2, <2>3, ExceptSeq
  <2>5. QED BY <1>9, <2>4 DEF ClearRoot, heapVars, markVars
<1>10. ASSUME NEW b \in Reachable, NEW f \in Fields, NEW p \in Held, StoreField(b, f, p)
       PROVE  TypeOK'
  BY <1>10 DEF StoreField, Consume, rootVars, markVars
<1>11. ASSUME NEW t \in Types, Alloc(t) PROVE TypeOK'
  BY <1>11 DEF Alloc, BeginCollect, heapVars, rootVars, markVars
<1>12. CASE Collect
  BY <1>12 DEF Collect, BeginCollect, heapVars, rootVars, markVars
<1>13. CASE Exit
  BY <1>13 DEF Exit, heapVars, rootVars, markVars
<1>14. ASSUME NEW kind, NEW p, MarkPtr(kind, p, stack), kind \in Kinds
       PROVE  mark' \in [Addr -> BOOLEAN] /\ stack' \in Seq(Addr)
  <2>1. FindsBlock(kind, p) => p \in Addr
    BY <1>14, RangeType DEF FindsBlock
  <2> HIDE DEF TypeOK
  <2>2. CASE FindsBlock(kind, p) /\ ~mark[p]
    <3>1. mark' = [mark EXCEPT ![p] = TRUE] /\ stack' = Append(stack, p)
      BY <1>14, <2>2 DEF MarkPtr
    <3>2. p \in Addr
      BY <2>1, <2>2
    <3>3. Append(stack, p) \in Seq(Addr)
      BY <1>b, <3>2
    <3>4. QED BY <1>b, <3>1, <3>2, <3>3
  <2>3. CASE ~(FindsBlock(kind, p) /\ ~mark[p])
    BY <1>14, <1>b, <2>3 DEF MarkPtr
  <2>4. QED BY <2>2, <2>3
<1>15. CASE MarkShadowRoot
  <2>1. shadow[shadow_i] \in Slot
    BY <1>15 DEF MarkShadowRoot
  <2>2. mark' \in [Addr -> BOOLEAN] /\ stack' \in Seq(Addr)
    BY <1>15, <2>1, <1>14 DEF MarkShadowRoot
  <2>3. QED BY <1>15, <2>2 DEF MarkShadowRoot, heapVars, rootVars
<1>16. CASE MarkChainRoot
  <2> DEFINE s == chain[entry_i][root_i]
  <2>1. chain[entry_i] \in [1..NumRoots -> Slot \cup {NULL}]
    BY <1>16 DEF MarkChainRoot
  <2>2. s \in Slot \cup {NULL}
    BY <2>1
  <2>3. mark' \in [Addr -> BOOLEAN] /\ stack' \in Seq(Addr)
    BY <1>16, <2>2, <1>14 DEF MarkChainRoot
  <2>4. root_i' \in 1..NumRoots /\ entry_i' \in Nat \ {0}
    <3>1. root_i \in 1..NumRoots /\ NumRoots \in Nat /\ entry_i \in Nat \ {0}
      OBVIOUS
    <3>2. \/ root_i # NumRoots /\ root_i' = root_i + 1 /\ entry_i' = entry_i
          \/ root_i' = 1 /\ entry_i' = entry_i + 1
      BY <1>16 DEF MarkChainRoot, LastCell
    <3>3. QED BY <3>1, <3>2
  <2>5. QED BY <1>16, <2>3, <2>4 DEF MarkChainRoot, heapVars, rootVars
<1>17. CASE TraceField
  <2> DEFINE b == stack[Len(stack)]
             f == scan[b] + 1
  <2>1. b \in Addr
    BY <1>17 DEF TraceField, Pending
  <2>2. f \in Fields /\ f \in 0..Len(FieldKind) /\ FieldKind[f] \in Kinds
    BY <1>17, <2>1 DEF TraceField, Pending
  <2>3. MarkPtr(FieldKind[f], field[b][f], stack)
    BY <1>17 DEF TraceField, Pending
  <2>4. mark' \in [Addr -> BOOLEAN] /\ stack' \in Seq(Addr)
    BY <2>2, <2>3, <1>14
  <2>5. scan' \in [Addr -> 0..Len(FieldKind)]
    BY <1>17, <2>1, <2>2 DEF TraceField, Pending
  <2>6. QED BY <1>17, <2>4, <2>5 DEF TraceField, Pending, heapVars, rootVars
<1>18. CASE TraceReturn
  BY <1>18, RangeDropLast DEF TraceReturn, Pending, heapVars, rootVars
<1>19. CASE SweepStart
  BY <1>19 DEF SweepStart, rootVars
<1>20. CASE SweepKeep
  BY <1>20, RangeHeadTail, RangeAppend DEF SweepKeep, Advance, ClearMark, rootVars
<1>21. CASE SweepFree
  <2>1. Head(rest) \in Addr /\ rest' \in Seq(Addr)
    BY <1>21, RangeHeadTail DEF SweepFree, Advance
  <2>2. BlockSize[type[Head(rest)]] \in Int
    BY <2>1, SizeIsInt
  <2>3. live_bytes' \in Int
    BY <1>21, <2>2 DEF SweepFree, BytesLess
  <2>4. /\ type' \in [Addr -> Types]
        /\ field' \in [Addr -> [Fields -> Addr \cup {NULL} \cup Foreign]]
    BY <1>21, <2>1 DEF SweepFree
  <2>5. phase' = "sweep" /\ request' = request
    BY <1>21 DEF SweepFree
  <2>6. UNCHANGED <<live_list, gc_threshold, rootVars, markVars, ret>>
    BY <1>21 DEF SweepFree
  <2>7. QED
    <3> HIDE DEF Fields, Types, Kinds
    <3>1. QED BY <2>1, <2>3, <2>4, <2>5, <2>6 DEF rootVars, markVars
<1>22. CASE SweepDone
  BY <1>22 DEF SweepDone, Caller, rootVars, markVars
<1>23. ASSUME NEW b \in Addr \ Live, Calloc(b) PROVE TypeOK'
  <2>1. request \in Types /\ BlockSize[request] \in Int
    BY <1>23, SizeIsInt DEF Calloc
  <2>2. live_list' \in Seq(Addr)
    BY <1>23, RangePrepend DEF Calloc
  <2>3. type' \in [Addr -> Types] /\ mark' \in [Addr -> BOOLEAN]
    BY <1>23, <2>1 DEF Calloc
  <2>4. field' \in [Addr -> [Fields -> Addr \cup {NULL} \cup Foreign]]
    BY <1>23 DEF Calloc
  <2>5. live_bytes' \in Int /\ ret' \in Addr
    BY <1>23, <2>1 DEF Calloc
  <2>6. /\ phase' = "run" /\ request' = "none"
        /\ UNCHANGED <<rest, gc_threshold, shadow, chain, slot, shadow_i, entry_i,
                       root_i, stack, scan>>
    BY <1>23 DEF Calloc, rootVars
  <2>7. QED
    <3> HIDE DEF Fields, Types, Kinds
    <3>1. QED BY <2>2, <2>3, <2>4, <2>5, <2>6
<1>24. QED
  BY <1>1, <1>2, <1>3, <1>4, <1>5, <1>6, <1>7, <1>8, <1>9, <1>10, <1>11, <1>12,
     <1>13, <1>15, <1>16, <1>17, <1>18, <1>19, <1>20, <1>21, <1>22, <1>23
     DEF Next, Program, Collector, PushOverflow, PopUnderflow, OutOfMemory

\* Every variable keeps the shape of the C state it stands for.
THEOREM TypeCorrect == Spec => []TypeOK
<1>1. Init => TypeOK
  BY KindsAssumption, SizesAssumption, BoundsAssumption
     DEF Init, TypeOK, Types, Fields
<1>2. QED
  BY <1>1, TypeStep, PTL DEF Spec

-----------------------------------------------------------------------------
(* Reachability as the program and the collector see it. *)

\* What a block's pointer fields refer to are blocks.
LEMMA TargetsType ==
  ASSUME TypeOK
  PROVE  \A b \in Addr : Targets(b) \subseteq Addr
BY DEF Targets

\* Reachable is a set of blocks, holds what the roots and the return value
\* refer to, and is closed under the fields of its blocks.
LEMMA ReachFacts ==
  ASSUME TypeOK
  PROVE  /\ Reachable \subseteq Addr
         /\ RootTargets \subseteq Reachable
         /\ ret \in Addr => ret \in Reachable
         /\ \A b \in Reachable : Targets(b) \subseteq Reachable
<1> DEFINE T == RootTargets \cup ({ret} \cap Addr)
<1>1. DOMAIN Graph = Addr /\ \A b \in Addr : Graph[b] = Targets(b)
  BY DEF Graph
<1>2. T \subseteq DOMAIN Graph
  BY <1>1 DEF RootTargets
<1>3. T \subseteq Reachable
  BY <1>2, ReachContains DEF Reachable
<1>4. Reachable \subseteq Addr
  BY <1>1, ReachWithin DEF Reachable
<1>5. Closed(Reachable, Graph)
  BY <1>1, TargetsType, ReachClosed DEF Reachable
<1>6. QED
  BY <1>1, <1>3, <1>4, <1>5 DEF Closed

\* A closed set that holds the roots holds all that is reachable.
LEMMA ReachBound ==
  ASSUME NEW M \in SUBSET Addr,
         RootTargets \cup ({ret} \cap Addr) \subseteq M,
         \A b \in M : Targets(b) \subseteq M
  PROVE  Reachable \subseteq M
<1>1. DOMAIN Graph = Addr /\ \A b \in Addr : Graph[b] = Targets(b)
  BY DEF Graph
<1>2. Closed(M, Graph)
  BY <1>1 DEF Closed
<1>3. QED
  BY <1>1, <1>2, ReachLeast DEF Reachable

\* After a step too, whatever set holds the roots and is closed bounds it.
LEMMA ReachBoundNext ==
  ASSUME NEW M \in SUBSET Addr,
         RootTargets' \cup ({ret'} \cap Addr) \subseteq M,
         \A b \in M : Targets(b)' \subseteq M
  PROVE  Reachable' \subseteq M
<1>1. DOMAIN Graph' = Addr /\ \A b \in Addr : Graph'[b] = Targets(b)'
  BY DEF Graph
<1>2. Closed(M, Graph')
  BY <1>1 DEF Closed
<1>3. Reachable' = ReachFrom(RootTargets' \cup ({ret'} \cap Addr), Graph')
  BY DEF Reachable
<1>4. QED
  BY <1>1, <1>2, <1>3, ReachLeast

\* A step that leaves the graph and the roots alone leaves it alone.
LEMMA ReachSame ==
  ASSUME UNCHANGED <<type, field, rootVars, ret>>
  PROVE  Reachable' = Reachable
BY DEF Reachable, Graph, Targets, RootTargets, RootSlots, ChainSlots, rootVars

\* A store into a slot of something held adds nothing to the roots' reach.
LEMMA StoreRoots ==
  ASSUME TypeOK, NEW s \in Slot, NEW p \in Held,
         slot' = [slot EXCEPT ![s] = p],
         RootSlots \subseteq Slot, RootSlots' \subseteq RootSlots \cup {s}
  PROVE  RootTargets' \subseteq Reachable
<1>1. ASSUME NEW x \in RootSlots', slot'[x] \in Addr
      PROVE  slot'[x] \in Reachable
  <2>1. CASE x = s
    <3>1. slot'[x] = p
      BY <2>1 DEF TypeOK
    <3>2. QED BY <3>1, <1>1, NotBlocks DEF Held
  <2>2. CASE x # s
    <3>1. x \in RootSlots /\ slot'[x] = slot[x]
      BY <1>1, <2>2 DEF TypeOK
    <3>2. slot[x] \in RootTargets
      BY <3>1, <1>1 DEF RootTargets
    <3>3. QED BY <3>1, <3>2, ReachFacts
  <2>3. QED BY <2>1, <2>2
<1>2. QED
  BY <1>1 DEF RootTargets

\* The registered roots are slots of the program.
LEMMA RootSlotsType == TypeOK => RootSlots \subseteq Slot
<1> SUFFICES ASSUME TypeOK PROVE RootSlots \subseteq Slot
  OBVIOUS
<1>1. Range(shadow) \subseteq Slot
  BY RangeType DEF TypeOK
<1>2. ASSUME NEW e \in DOMAIN chain, NEW i \in 1..NumRoots
      PROVE  chain[e][i] \in Slot \cup {NULL}
  <2>1. chain[e] \in [1..NumRoots -> Slot \cup {NULL}]
    <3>1. chain \in Seq([1..NumRoots -> Slot \cup {NULL}])
      BY DEF TypeOK
    <3>2. QED BY <3>1
  <2>2. QED BY <2>1
<1>3. QED
  BY <1>1, <1>2 DEF RootSlots, ChainSlots

\* What is kept of a return value was reachable.
LEMMA ConsumeReach ==
  ASSUME TypeOK, NEW p, Consume(p)
  PROVE  {ret'} \cap Addr \subseteq Reachable
BY ReachFacts DEF Consume, TypeOK

-----------------------------------------------------------------------------
(* Steps of the program. *)

\* A step outside the collector that adds nothing to what is reachable.
LEMMA MutatorStep ==
  ASSUME IInv, phase = "run", phase' = "run",
         Reachable' \subseteq Reachable,
         UNCHANGED <<live_list, rest, markVars>>
  PROVE  IInv'
BY DEF IInv, PhaseInv, ListInv, NoDangling, MarkInv, SweepInv, Marked, Live, markVars

\* Rooting or storing something held makes nothing more reachable.
LEMMA ProgramStoreStep ==
  ASSUME TypeOK, IInv, NEW s \in Slot, NEW p \in Held,
         PushRoot(s, p) \/ StoreSlot(s, p)
         \/ \E i \in 1..NumRoots : SetRoot(i, s, p)
  PROVE  Reachable' \subseteq Reachable /\ IInv'
<1>1. RootSlots' \subseteq RootSlots \cup {s}
  <2>1. CASE PushRoot(s, p)
    <3>1. Range(shadow') = Range(shadow) \cup {s}
      BY <2>1, RangeAppend DEF PushRoot, TypeOK
    <3>2. ChainSlots' = ChainSlots
      BY <2>1 DEF PushRoot, ChainSlots
    <3>3. QED BY <3>1, <3>2 DEF RootSlots
  <2>2. CASE StoreSlot(s, p)
    BY <2>2 DEF StoreSlot, RootSlots, ChainSlots
  <2>3. ASSUME NEW i \in 1..NumRoots, SetRoot(i, s, p)
        PROVE  RootSlots' \subseteq RootSlots \cup {s}
    <3>1. DOMAIN chain' = DOMAIN chain
      BY <2>3 DEF SetRoot
    <3>2. ASSUME NEW e \in DOMAIN chain, NEW j \in 1..NumRoots
          PROVE  chain'[e][j] \in {chain[e][j], s}
      BY <2>3 DEF SetRoot
    <3>3. ChainSlots' \subseteq ChainSlots \cup {s}
      BY <3>1, <3>2 DEF ChainSlots
    <3>4. QED BY <2>3, <3>3 DEF SetRoot, RootSlots
  <2>4. QED BY <2>1, <2>2, <2>3
<1>2. slot' = [slot EXCEPT ![s] = p] /\ Consume(p)
  BY DEF PushRoot, StoreSlot, SetRoot
<1>3. /\ phase = "run" /\ phase' = "run"
      /\ UNCHANGED <<type, field, live_list, rest, markVars>>
  BY DEF PushRoot, StoreSlot, SetRoot, heapVars
<1>4. RootTargets' \subseteq Reachable
  BY <1>1, <1>2, StoreRoots, RootSlotsType
<1>5. \A b \in Reachable : Targets(b)' \subseteq Reachable
  BY <1>3, ReachFacts DEF Targets
<1>6. Reachable' \subseteq Reachable
  BY <1>2, <1>4, <1>5, ReachFacts, ReachBoundNext, ConsumeReach
<1>7. QED
  BY <1>3, <1>6, MutatorStep

\* Nor does dropping roots.
LEMMA DropRootStep ==
  ASSUME TypeOK, IInv,
         \/ \E n \in 1..Len(shadow) : PopRoots(n)
         \/ EnterFn \/ LeaveFn
         \/ \E i \in 1..NumRoots : ClearRoot(i)
  PROVE  Reachable' \subseteq Reachable /\ IInv'
<1>1. RootSlots' \subseteq RootSlots
  <2>1. ASSUME NEW n \in 1..Len(shadow), PopRoots(n)
        PROVE  RootSlots' \subseteq RootSlots
    <3>1. Range(shadow') \subseteq Range(shadow)
      <4>1. shadow \in Seq(Slot)
        BY DEF TypeOK
      <4>2. Len(shadow) - n \in 0..Len(shadow)
        BY <2>1, <4>1 DEF PopRoots
      <4>3. QED BY <2>1, <4>1, <4>2, RangeFront DEF PopRoots
    <3>2. QED BY <2>1, <3>1 DEF PopRoots, RootSlots, ChainSlots
  <2>2. CASE EnterFn
    <3>1. chain \in Seq([1..NumRoots -> Slot \cup {NULL}])
      BY DEF TypeOK
    <3>2. Range(chain') = {EmptyEntry} \cup Range(chain)
      <4>1. EmptyEntry \in [1..NumRoots -> Slot \cup {NULL}]
        BY DEF EmptyEntry
      <4>2. QED BY <2>2, <3>1, <4>1, RangePrepend DEF EnterFn
    <3>3. ASSUME NEW e \in DOMAIN chain', NEW i \in 1..NumRoots, chain'[e][i] # NULL
          PROVE  chain'[e][i] \in ChainSlots
      <4>1. chain'[e] \in {EmptyEntry} \cup Range(chain)
        BY <3>2 DEF Range
      <4>2. chain'[e] # EmptyEntry
        BY <3>3 DEF EmptyEntry
      <4>3. PICK d \in DOMAIN chain : chain[d] = chain'[e]
        BY <4>1, <4>2 DEF Range
      <4>4. QED BY <3>3, <4>3 DEF ChainSlots
    <3>4. ChainSlots' \subseteq ChainSlots
      BY <3>3 DEF ChainSlots
    <3>5. QED BY <2>2, <3>4 DEF EnterFn, RootSlots
  <2>3. CASE LeaveFn
    <3>1. chain \in Seq([1..NumRoots -> Slot \cup {NULL}]) /\ chain # << >>
      BY <2>3 DEF TypeOK, LeaveFn
    <3>2. \A e \in DOMAIN Tail(chain) : e + 1 \in DOMAIN chain /\ Tail(chain)[e] = chain[e + 1]
      BY <3>1
    <3>3. ChainSlots' \subseteq ChainSlots
      BY <2>3, <3>2 DEF LeaveFn, ChainSlots
    <3>4. QED BY <2>3, <3>3 DEF LeaveFn, RootSlots
  <2>4. ASSUME NEW i \in 1..NumRoots, ClearRoot(i)
        PROVE  RootSlots' \subseteq RootSlots
    <3>1. DOMAIN chain' = DOMAIN chain
      BY <2>4 DEF ClearRoot
    <3>2. ASSUME NEW e \in DOMAIN chain, NEW j \in 1..NumRoots
          PROVE  chain'[e][j] \in {chain[e][j], NULL}
      BY <2>4 DEF ClearRoot
    <3>3. ChainSlots' \subseteq ChainSlots
      BY <3>1, <3>2 DEF ChainSlots
    <3>4. QED BY <2>4, <3>3 DEF ClearRoot, RootSlots
  <2>5. QED BY <2>1, <2>2, <2>3, <2>4
<1>2. /\ phase = "run" /\ phase' = "run"
      /\ UNCHANGED <<type, field, live_list, rest, markVars, slot, ret>>
  BY DEF PopRoots, EnterFn, LeaveFn, ClearRoot, heapVars
<1>3. RootTargets' \subseteq RootTargets
  BY <1>1, <1>2 DEF RootTargets
<1>4. \A b \in Reachable : Targets(b)' \subseteq Reachable
  BY <1>2, ReachFacts DEF Targets
<1>5. Reachable' \subseteq Reachable
  BY <1>2, <1>3, <1>4, ReachFacts, ReachBoundNext
<1>6. QED
  BY <1>2, <1>5, MutatorStep

\* Nor does storing something held into a field of a reachable block.
LEMMA StoreFieldStep ==
  ASSUME TypeOK, IInv, NEW b \in Reachable, NEW f \in Fields, NEW p \in Held,
         StoreField(b, f, p)
  PROVE  Reachable' \subseteq Reachable /\ IInv'
<1>1. /\ phase = "run" /\ phase' = "run" /\ Consume(p)
      /\ field' = [field EXCEPT ![b] = [@ EXCEPT ![f] = p]]
      /\ UNCHANGED <<type, shadow, chain, slot, live_list, rest, markVars>>
  BY DEF StoreField, rootVars
<1>2. RootTargets' = RootTargets
  BY <1>1 DEF RootTargets, RootSlots, ChainSlots
<1>3. ASSUME NEW c \in Reachable
      PROVE  Targets(c)' \subseteq Reachable
  <2>1. ASSUME NEW g \in Fields, type[c] = "node", field'[c][g] \in Addr
        PROVE  field'[c][g] \in Reachable
    <3>1. field'[c][g] = p \/ field'[c][g] = field[c][g]
      BY <1>1, ReachFacts DEF TypeOK
    <3>2. CASE field'[c][g] = p
      BY <2>1, <3>2, NotBlocks DEF Held
    <3>3. CASE field'[c][g] = field[c][g]
      BY <2>1, <3>3, ReachFacts DEF Targets
    <3>4. QED BY <3>1, <3>2, <3>3
  <2>2. QED BY <1>1, <2>1 DEF Targets
<1>4. Reachable' \subseteq Reachable
  BY <1>1, <1>2, <1>3, ReachFacts, ReachBoundNext, ConsumeReach
<1>5. QED
  BY <1>1, <1>4, MutatorStep

-----------------------------------------------------------------------------
(* Steps into and out of the runtime. *)

\* Giving up touches nothing but the phase.
LEMMA AbortStep ==
  ASSUME TypeOK, IInv,
         \/ phase = "run" /\ (Abort \/ Exit)
         \/ phase = "alloc" /\ Abort
  PROVE  IInv'
<1>1. /\ phase' \in {"exit", "abort"} /\ phase \in {"run", "alloc"}
      /\ UNCHANGED <<heapVars, rootVars, markVars, ret>>
  BY DEF Abort, Exit
<1>2. Reachable' = Reachable
  BY <1>1, ReachSame DEF heapVars
<1>3. QED
  BY <1>1, <1>2 DEF IInv, PhaseInv, ListInv, NoDangling, MarkInv, SweepInv,
                    Marked, Live, heapVars, markVars

\* Entering the runtime drops the register and starts the cursors at 1.
LEMMA EnterRuntimeStep ==
  ASSUME TypeOK, IInv, Collect \/ \E t \in Types : Alloc(t)
  PROVE  IInv'
<1>1. /\ phase = "run" /\ phase' \in {"mark", "alloc"} /\ ret' = NULL
      /\ UNCHANGED <<type, field, live_list, rest, shadow, chain, slot, markVars>>
  BY DEF Collect, Alloc, BeginCollect, heapVars, rootVars
<1>2. RootTargets' = RootTargets
  BY <1>1 DEF RootTargets, RootSlots, ChainSlots
<1>3. \A b \in Reachable : Targets(b)' \subseteq Reachable
  BY <1>1, ReachFacts DEF Targets
<1>4. Reachable' \subseteq Reachable
  BY <1>1, <1>2, <1>3, ReachFacts, ReachBoundNext, NotBlocks
<1>5. /\ NoDangling' /\ ListInv' /\ SweepInv'
  BY <1>1, <1>4 DEF IInv, NoDangling, Live, ListInv, SweepInv
<1>6. PhaseInv'
  BY <1>1 DEF IInv, PhaseInv, Marked, markVars
<1>7. MarkInv'
  <2>1. /\ Marked' = {} /\ stack' = << >>
        /\ shadow_i' = 1 /\ entry_i' = 1 /\ root_i' = 1
    BY <1>1 DEF IInv, PhaseInv, Marked, markVars
  <2>2. \A b \in Addr : ~mark'[b]
    BY <2>1 DEF Marked
  <2>3. \A i \in DOMAIN shadow' : ~(i < 1)
    BY <1>1 DEF TypeOK
  <2>4. \A e \in DOMAIN chain', i \in 1..NumRoots : ~(e < 1) /\ ~(e = 1 /\ i < 1)
    <3>1. DOMAIN chain' \subseteq Nat \ {0}
      <4>1. chain \in Seq([1..NumRoots -> Slot \cup {NULL}])
        BY DEF TypeOK
      <4>2. QED BY <1>1, <4>1
    <3>2. QED BY <3>1
  <2>5. Range(stack') = {}
    BY <2>1, RangeEmpty
  <2>6. \A b \in Marked', f \in Fields : FALSE
    BY <2>1
  <2>7. QED
    BY <2>1, <2>3, <2>4, <2>5, <2>6 DEF MarkInv
<1>8. QED
  BY <1>5, <1>6, <1>7 DEF IInv

-----------------------------------------------------------------------------
(* Steps of mark_all. *)

\* What one call of mark_ptr or mark_wedge does: a block it is led to is marked
\* afterwards, and only that one is new.
LEMMA MarkPtrStep ==
  ASSUME TypeOK, NoDangling, rest = << >>,
         NEW kind \in Kinds, NEW p, p \in Addr => p \in Reachable,
         MarkPtr(kind, p, stack)
  PROVE  /\ mark' \in [Addr -> BOOLEAN]
         /\ Marked \subseteq Marked' /\ Marked' \subseteq Marked \cup ({p} \cap Addr)
         /\ p \in Addr => mark'[p]
         /\ Range(stack') = Range(stack) \cup (Marked' \ Marked)
         /\ stack' \in Seq(Addr)
<1>1. mark \in [Addr -> BOOLEAN] /\ stack \in Seq(Addr) /\ live_list \in Seq(Addr)
  BY DEF TypeOK
<1>2. p \in Addr => FindsBlock(kind, p)
  <2>1. Range(rest) = {}
    BY RangeEmpty
  <2>2. QED BY <2>1 DEF FindsBlock, Kinds, NoDangling, Live
<1>3. FindsBlock(kind, p) => p \in Addr
  BY <1>1, RangeType DEF FindsBlock
<1>4. CASE p \in Addr /\ ~mark[p]
  <2>1. mark' = [mark EXCEPT ![p] = TRUE] /\ stack' = Append(stack, p)
    BY <1>2, <1>4 DEF MarkPtr
  <2>2. stack' \in Seq(Addr) /\ Range(stack') = Range(stack) \cup {p}
    BY <1>1, <1>4, <2>1, RangeAppend
  <2>3. \A b \in Addr : mark'[b] <=> (mark[b] \/ b = p)
    BY <1>1, <1>4, <2>1
  <2>4. Marked' = Marked \cup {p} /\ p \notin Marked
    BY <1>4, <2>3 DEF Marked
  <2>5. mark' \in [Addr -> BOOLEAN] /\ mark'[p]
    BY <1>1, <1>4, <2>1
  <2>6. QED BY <1>4, <2>2, <2>4, <2>5
<1>5. CASE ~(p \in Addr /\ ~mark[p])
  <2>1. mark' = mark /\ stack' = stack
    BY <1>3, <1>5 DEF MarkPtr
  <2>2. Marked' = Marked
    BY <2>1 DEF Marked
  <2>3. QED BY <1>1, <1>5, <2>1, <2>2
<1>6. QED
  BY <1>4, <1>5

\* A root looked at: its target is marked before the cursor passes it.
LEMMA MarkRootStep ==
  ASSUME TypeOK, IInv, MarkShadowRoot \/ MarkChainRoot
  PROVE  IInv'
<1> USE DEF IInv
<1>1. /\ phase = "mark" /\ phase' = "mark" /\ stack = << >> /\ rest = << >>
      /\ UNCHANGED <<type, field, live_list, rest, shadow, chain, slot, scan, ret>>
  BY DEF MarkShadowRoot, MarkChainRoot, heapVars, rootVars, PhaseInv
<1>2. Reachable' = Reachable
  BY <1>1, ReachSame DEF rootVars
<1> DEFINE FieldsMarked ==
             \A b \in Marked, f \in Fields :
               type[b] = "node" /\ field[b][f] \in Addr
               /\ (b \notin Range(stack) \/ f <= scan[b])
               => mark[field[b][f]]
           ShadowMarked ==
             \A i \in DOMAIN shadow :
               i < shadow_i /\ slot[shadow[i]] \in Addr => mark[slot[shadow[i]]]
           ChainMarked ==
             \A e \in DOMAIN chain, i \in 1..NumRoots :
               (e < entry_i \/ (e = entry_i /\ i < root_i))
               /\ chain[e][i] # NULL /\ slot[chain[e][i]] \in Addr
               => mark[slot[chain[e][i]]]
\* What a step that marks (at most) a root's target leaves true.
<1>3. ASSUME NEW p, p \in Addr => p \in Reachable,
             \/ \E kind \in Kinds : MarkPtr(kind, p, stack)
             \/ p = NULL /\ UNCHANGED <<mark, stack>>
      PROVE  /\ mark' \in [Addr -> BOOLEAN] /\ stack' \in Seq(Addr)
             /\ Marked \subseteq Marked' /\ Marked' \subseteq Reachable
             /\ \A b \in Addr : mark[b] => mark'[b]
             /\ p \in Addr => mark'[p]
             /\ Range(stack') = Marked' \ Marked
  <2>1. Marked \subseteq Reachable /\ Range(stack) = {}
    BY <1>1, RangeEmpty DEF MarkInv
  <2>2. CASE \E kind \in Kinds : MarkPtr(kind, p, stack)
    <3>1. /\ mark' \in [Addr -> BOOLEAN] /\ stack' \in Seq(Addr)
          /\ Marked \subseteq Marked' /\ Marked' \subseteq Marked \cup ({p} \cap Addr)
          /\ p \in Addr => mark'[p]
          /\ Range(stack') = Range(stack) \cup (Marked' \ Marked)
      BY <1>1, <1>3, <2>2, MarkPtrStep
    <3>2. \A b \in Addr : mark[b] => mark'[b]
      BY <3>1 DEF Marked
    <3>3. QED BY <1>3, <2>1, <3>1, <3>2
  <2>3. CASE p = NULL /\ UNCHANGED <<mark, stack>>
    BY <2>1, <2>3, NotBlocks DEF Marked, TypeOK
  <2>4. QED BY <1>3, <2>2, <2>3
\* The invariant follows once the cursors' own parts are known.
<1>4. ASSUME NEW p, p \in Addr => p \in Reachable,
             \/ \E kind \in Kinds : MarkPtr(kind, p, stack)
             \/ p = NULL /\ UNCHANGED <<mark, stack>>,
             ShadowMarked', ChainMarked'
      PROVE  IInv'
  <2>1. FieldsMarked'
    <3>1. ASSUME NEW b \in Marked', NEW f \in Fields, type[b] = "node",
                 field[b][f] \in Addr, b \notin Range(stack') \/ f <= scan[b]
          PROVE  mark'[field[b][f]]
      <4>1. b \in Addr /\ f \in Nat \ {0}
        BY KindsAssumption DEF Marked, Fields
      <4>2. CASE b \in Marked
        <5>1. b \notin Range(stack)
          BY <1>1, RangeEmpty
        <5>2. mark[field[b][f]]
          BY <1>1, <3>1, <4>2, <5>1 DEF MarkInv
        <5>3. QED BY <1>3, <1>4, <3>1, <5>2
      <4>3. CASE b \notin Marked
        <5>1. b \in Range(stack') /\ b \notin Range(stack)
          BY <1>1, <1>3, <1>4, <4>3, RangeEmpty
        <5>2. scan[b] = 0
          BY <4>1, <5>1 DEF PhaseInv
        <5>3. QED BY <3>1, <4>1, <5>1, <5>2
      <4>4. QED BY <4>2, <4>3
    <3>2. QED BY <1>1, <3>1
  <2>2. Marked' \subseteq Reachable' /\ Range(stack') \subseteq Marked'
    BY <1>2, <1>3, <1>4
  <2>3. MarkInv'
    BY <1>4, <2>1, <2>2 DEF MarkInv
  <2>4. \A b \in Addr : scan'[b] = 0
    BY <1>1, RangeEmpty DEF PhaseInv
  <2>5. PhaseInv'
    BY <1>1, <2>4 DEF PhaseInv
  <2>6. QED
    BY <1>1, <1>2, <2>3, <2>5 DEF ListInv, NoDangling, Live, SweepInv
<1>5. \A s \in RootSlots : slot[s] \in Addr => slot[s] \in Reachable
  BY ReachFacts DEF RootTargets
<1>6. CASE MarkShadowRoot
  <2> DEFINE s == shadow[shadow_i]
  <2>1. shadow \in Seq(Slot) /\ shadow_i \in Nat \ {0} /\ shadow_i <= Len(shadow)
    BY <1>6 DEF MarkShadowRoot, TypeOK
  <2>2. s \in Slot /\ s \in RootSlots /\ SlotKind[s] \in Kinds
    BY <2>1, KindsAssumption DEF RootSlots, Range
  <2>3. MarkPtr(SlotKind[s], slot[s], stack) /\ shadow_i' = shadow_i + 1
        /\ UNCHANGED <<entry_i, root_i>>
    BY <1>6 DEF MarkShadowRoot
  <2>4. slot[s] \in Addr => slot[s] \in Reachable
    BY <1>5, <2>2
  <2>5. (slot[s] \in Addr => mark'[slot[s]]) /\ \A b \in Addr : mark[b] => mark'[b]
    BY <1>3, <2>2, <2>3, <2>4
  <2>6. ShadowMarked /\ ChainMarked
    BY <1>1 DEF MarkInv
  <2>7. ShadowMarked'
    <3>1. ASSUME NEW i \in DOMAIN shadow, i < shadow_i + 1, slot[shadow[i]] \in Addr
          PROVE  mark'[slot[shadow[i]]]
      <4>1. i < shadow_i \/ i = shadow_i
        BY <2>1, <3>1
      <4>2. CASE i < shadow_i
        BY <2>5, <2>6, <3>1, <4>2
      <4>3. CASE i = shadow_i
        BY <2>5, <3>1, <4>3
      <4>4. QED BY <4>1, <4>2, <4>3
    <3>2. QED BY <1>1, <2>3, <3>1
  <2>8. ChainMarked'
    BY <1>1, <2>3, <2>5, <2>6
  <2>9. QED BY <1>4, <2>2, <2>3, <2>4, <2>7, <2>8
<1>7. CASE MarkChainRoot
  <2> DEFINE s == chain[entry_i][root_i]
             p == IF s = NULL THEN NULL ELSE slot[s]
  <2>1. /\ chain \in Seq([1..NumRoots -> Slot \cup {NULL}])
        /\ entry_i \in Nat \ {0} /\ entry_i <= Len(chain) /\ root_i \in 1..NumRoots
    BY <1>7 DEF MarkChainRoot, TypeOK
  <2>2. entry_i \in DOMAIN chain /\ s \in Slot \cup {NULL}
    <3>1. entry_i \in DOMAIN chain
      BY <2>1
    <3>2. chain[entry_i] \in [1..NumRoots -> Slot \cup {NULL}]
      BY <2>1, <3>1
    <3>3. QED BY <2>1, <3>1, <3>2
  <2>3. s # NULL => s \in RootSlots /\ SlotKind[s] \in Kinds
    BY <2>1, <2>2, KindsAssumption DEF RootSlots, ChainSlots
  <2>4. \/ \E kind \in Kinds : MarkPtr(kind, p, stack)
        \/ p = NULL /\ UNCHANGED <<mark, stack>>
    <3>1. CASE s = NULL
      BY <1>7, <3>1 DEF MarkChainRoot
    <3>2. CASE s # NULL
      BY <1>7, <2>3, <3>2 DEF MarkChainRoot
    <3>3. QED BY <3>1, <3>2
  <2>5. p \in Addr => p \in Reachable
    BY <1>5, <2>3, NotBlocks
  <2>6. (p \in Addr => mark'[p]) /\ \A b \in Addr : mark[b] => mark'[b]
    BY <1>3, <2>4, <2>5
  <2>7. ShadowMarked /\ ChainMarked
    BY <1>1 DEF MarkInv
  <2>8. shadow_i' = shadow_i
        /\ \/ root_i # NumRoots /\ root_i' = root_i + 1 /\ entry_i' = entry_i
           \/ root_i = NumRoots /\ root_i' = 1 /\ entry_i' = entry_i + 1
    BY <1>7 DEF MarkChainRoot, LastCell
  <2>9. ASSUME NEW e \in DOMAIN chain, NEW i \in 1..NumRoots,
               e < entry_i' \/ (e = entry_i' /\ i < root_i')
        PROVE  e < entry_i \/ (e = entry_i /\ i < root_i) \/ (e = entry_i /\ i = root_i)
    <3>1. e \in Nat /\ i \in Nat /\ NumRoots \in Nat /\ i <= NumRoots /\ i >= 1
      BY <2>1, BoundsAssumption
    <3>2. entry_i \in Nat /\ root_i \in Nat /\ root_i <= NumRoots
      BY <2>1, <3>1
    <3>3. QED BY <2>8, <2>9, <3>1, <3>2
  <2>10. ChainMarked'
    <3>1. ASSUME NEW e \in DOMAIN chain, NEW i \in 1..NumRoots,
                 e < entry_i' \/ (e = entry_i' /\ i < root_i'),
                 chain[e][i] # NULL, slot[chain[e][i]] \in Addr
          PROVE  mark'[slot[chain[e][i]]]
      <4>1. CASE e < entry_i \/ (e = entry_i /\ i < root_i)
        BY <2>6, <2>7, <3>1, <4>1
      <4>2. CASE e = entry_i /\ i = root_i
        BY <2>6, <3>1, <4>2
      <4>3. QED BY <2>9, <3>1, <4>1, <4>2
    <3>2. QED BY <1>1, <3>1
  <2>11. ShadowMarked'
    BY <1>1, <2>6, <2>7, <2>8
  <2>12. QED BY <1>4, <2>4, <2>5, <2>10, <2>11
<1>8. QED
  BY <1>6, <1>7

\* One field of the innermost activation traced.
LEMMA TraceFieldStep ==
  ASSUME TypeOK, IInv, TraceField
  PROVE  IInv'
<1> USE DEF IInv
<1> DEFINE b == stack[Len(stack)]
           f == scan[b] + 1
           p == field[b][f]
<1>1. /\ phase = "mark" /\ phase' = "mark" /\ stack # << >> /\ rest = << >>
      /\ UNCHANGED <<type, field, live_list, rest, shadow, chain, slot, ret,
                     shadow_i, entry_i, root_i>>
      /\ type[b] = "node" /\ f \in Fields
      /\ MarkPtr(FieldKind[f], p, stack) /\ scan' = [scan EXCEPT ![b] = f]
  BY DEF TraceField, Pending, heapVars, rootVars, PhaseInv
<1>2. Reachable' = Reachable
  BY <1>1, ReachSame DEF rootVars
<1>3. b \in Addr /\ b \in Range(stack) /\ Range(stack) \subseteq Addr
  <2>1. stack \in Seq(Addr)
    BY DEF TypeOK
  <2>2. QED BY <1>1, <2>1, RangeDropLast, RangeType
<1>4. b \in Marked /\ b \in Reachable
  BY <1>1, <1>3 DEF MarkInv
<1>5. p \in Addr => p \in Reachable
  BY <1>1, <1>4, ReachFacts DEF Targets
<1>6. FieldKind[f] \in Kinds
  BY <1>1, KindsAssumption DEF Fields
<1>7. /\ mark' \in [Addr -> BOOLEAN] /\ stack' \in Seq(Addr)
      /\ Marked \subseteq Marked' /\ Marked' \subseteq Marked \cup ({p} \cap Addr)
      /\ p \in Addr => mark'[p]
      /\ Range(stack') = Range(stack) \cup (Marked' \ Marked)
  BY <1>1, <1>5, <1>6, MarkPtrStep
<1>8. \A c \in Addr : mark[c] => mark'[c]
  BY <1>7 DEF Marked
<1>9. /\ scan' \in [Addr -> Nat] /\ scan \in [Addr -> Nat]
      /\ scan'[b] = f /\ \A c \in Addr : c # b => scan'[c] = scan[c]
  BY <1>1, <1>3, KindsAssumption DEF TypeOK, Fields
<1>10. ASSUME NEW c \in Marked', NEW g \in Fields, type[c] = "node",
              field[c][g] \in Addr, c \notin Range(stack') \/ g <= scan'[c]
       PROVE  mark'[field[c][g]]
  <2>1. c \in Addr /\ g \in Nat \ {0}
    BY KindsAssumption DEF Marked, Fields
  <2>2. CASE c \notin Marked
    <3>1. c \in Range(stack') /\ c # b
      BY <1>4, <1>7, <2>2
    <3>2. scan[c] = 0
      <4>1. c \notin Range(stack)
        BY <1>1, <2>2 DEF MarkInv
      <4>2. QED BY <2>1, <4>1 DEF PhaseInv
    <3>3. QED BY <1>9, <1>10, <2>1, <3>1, <3>2
  <2>3. CASE c \in Marked /\ c # b
    <3>1. c \notin Range(stack) \/ g <= scan[c]
      BY <1>7, <1>9, <1>10, <2>1, <2>3
    <3>2. mark[field[c][g]]
      BY <1>1, <1>10, <2>3, <3>1 DEF MarkInv
    <3>3. QED BY <1>8, <1>10, <3>2
  <2>4. CASE c = b
    <3>1. g <= f
      BY <1>3, <1>7, <1>9, <1>10, <2>4
    <3>2. CASE g = f
      BY <1>7, <1>10, <2>4, <3>2
    <3>3. CASE g # f
      <4>1. g <= scan[b]
        BY <1>3, <1>9, <2>1, <3>1, <3>3
      <4>2. mark[field[c][g]]
        BY <1>1, <1>4, <1>10, <2>4, <4>1 DEF MarkInv
      <4>3. QED BY <1>8, <1>10, <4>2
    <3>4. QED BY <3>2, <3>3
  <2>5. QED BY <2>2, <2>3, <2>4
<1>11. MarkInv'
  <2>1. Marked' \subseteq Reachable' /\ Range(stack') \subseteq Marked'
    BY <1>1, <1>2, <1>5, <1>7 DEF MarkInv
  <2>2. /\ \A i \in DOMAIN shadow :
             i < shadow_i /\ slot[shadow[i]] \in Addr => mark'[slot[shadow[i]]]
        /\ \A e \in DOMAIN chain, i \in 1..NumRoots :
             (e < entry_i \/ (e = entry_i /\ i < root_i))
             /\ chain[e][i] # NULL /\ slot[chain[e][i]] \in Addr
             => mark'[slot[chain[e][i]]]
    BY <1>1, <1>8 DEF MarkInv
  <2>3. QED BY <1>1, <1>10, <2>1, <2>2 DEF MarkInv
<1>12. PhaseInv'
  <2>1. \A c \in Addr : c \notin Range(stack') => scan'[c] = 0
    BY <1>3, <1>7, <1>9 DEF PhaseInv
  <2>2. QED BY <1>1, <2>1 DEF PhaseInv
<1>13. QED
  BY <1>1, <1>2, <1>11, <1>12 DEF ListInv, NoDangling, Live, SweepInv

\* An activation returns only when all its block's fields are traced.
LEMMA TraceReturnStep ==
  ASSUME TypeOK, IInv, TraceReturn
  PROVE  IInv'
<1> USE DEF IInv
<1> DEFINE b == stack[Len(stack)]
<1>1. /\ phase = "mark" /\ phase' = "mark" /\ stack # << >>
      /\ UNCHANGED <<type, field, live_list, rest, shadow, chain, slot, ret, mark,
                     shadow_i, entry_i, root_i>>
      /\ type[b] = "node" => scan[b] + 1 \notin Fields
      /\ stack' = SubSeq(stack, 1, Len(stack) - 1) /\ scan' = [scan EXCEPT ![b] = 0]
  BY DEF TraceReturn, Pending, heapVars, rootVars
<1>2. Reachable' = Reachable /\ Marked' = Marked
  BY <1>1, ReachSame DEF rootVars, Marked
<1>3. /\ b \in Addr /\ b \in Range(stack)
      /\ Range(stack') \subseteq Range(stack) /\ Range(stack) \subseteq Range(stack') \cup {b}
  <2>1. stack \in Seq(Addr)
    BY DEF TypeOK
  <2>2. QED BY <1>1, <2>1, RangeDropLast, RangeType
<1>4. /\ scan \in [Addr -> 0..Len(FieldKind)] /\ scan'[b] = 0
      /\ \A c \in Addr : c # b => scan'[c] = scan[c]
  BY <1>1, <1>3 DEF TypeOK
<1>5. \A g \in Fields : g \in 1..Len(FieldKind) /\ Len(FieldKind) \in Nat
  BY KindsAssumption DEF Fields
<1>6. type[b] = "node" => \A g \in Fields : g <= scan[b]
  <2>1. Fields = 1..Len(FieldKind) /\ Len(FieldKind) \in Nat /\ scan[b] \in 0..Len(FieldKind)
    BY <1>3, <1>4, KindsAssumption DEF Fields
  <2>2. scan[b] + 1 \notin Fields => scan[b] = Len(FieldKind)
    BY <2>1
  <2>3. QED BY <1>1, <2>1, <2>2
<1>7. ASSUME NEW c \in Marked, NEW g \in Fields, type[c] = "node",
             field[c][g] \in Addr, c \notin Range(stack') \/ g <= scan'[c]
      PROVE  mark[field[c][g]]
  <2>1. CASE c = b
    BY <1>1, <1>6, <1>7, <2>1 DEF MarkInv
  <2>2. CASE c # b
    <3>1. c \in Addr
      BY DEF Marked
    <3>2. c \notin Range(stack) \/ g <= scan[c]
      BY <1>3, <1>4, <1>7, <2>2, <3>1
    <3>3. QED BY <1>1, <1>7, <3>2 DEF MarkInv
  <2>3. QED BY <2>1, <2>2
<1>8. MarkInv'
  <2>1. Range(stack') \subseteq Marked
    BY <1>1, <1>3 DEF MarkInv
  <2>2. /\ Marked \subseteq Reachable
        /\ \A i \in DOMAIN shadow :
             i < shadow_i /\ slot[shadow[i]] \in Addr => mark[slot[shadow[i]]]
        /\ \A e \in DOMAIN chain, i \in 1..NumRoots :
             (e < entry_i \/ (e = entry_i /\ i < root_i))
             /\ chain[e][i] # NULL /\ slot[chain[e][i]] \in Addr
             => mark[slot[chain[e][i]]]
    BY <1>1 DEF MarkInv
  <2>3. QED BY <1>1, <1>2, <1>7, <2>1, <2>2 DEF MarkInv
<1>9. PhaseInv'
  <2>1. \A c \in Addr : c \notin Range(stack') => scan'[c] = 0
    BY <1>3, <1>4 DEF PhaseInv
  <2>2. QED BY <1>1, <2>1 DEF PhaseInv
<1>10. QED
  BY <1>1, <1>2, <1>8, <1>9 DEF ListInv, NoDangling, Live, SweepInv

-----------------------------------------------------------------------------
(* Steps of sweep, and the block itself. *)

\* All roots passed and no activation left: the marked blocks are closed and
\* hold the roots, so they are exactly the reachable ones.
LEMMA SweepStartStep ==
  ASSUME TypeOK, IInv, SweepStart
  PROVE  IInv'
<1> USE DEF IInv
<1>1. /\ phase = "mark" /\ phase' = "sweep" /\ stack = << >> /\ rest = << >> /\ ret = NULL
      /\ shadow_i > Len(shadow) /\ entry_i > Len(chain)
      /\ live_list' = << >> /\ rest' = live_list
      /\ shadow_i' = 1 /\ entry_i' = 1 /\ root_i' = 1
      /\ UNCHANGED <<type, field, shadow, chain, slot, ret, mark, stack, scan>>
  BY DEF SweepStart, RootsDone, rootVars, PhaseInv
<1>2. Reachable' = Reachable /\ Marked' = Marked
  BY <1>1, ReachSame DEF rootVars, Marked
<1>3. Range(<< >>) = {}
  BY RangeEmpty
<1>4. ASSUME NEW b \in Marked
      PROVE  Targets(b) \subseteq Marked
  BY <1>1, <1>3 DEF MarkInv, Targets, Marked
<1>5. RootTargets \subseteq Marked
  <2>1. ASSUME NEW s \in Range(shadow), slot[s] \in Addr PROVE mark[slot[s]]
    <3>1. PICK i \in DOMAIN shadow : shadow[i] = s
      BY DEF Range
    <3>2. i < shadow_i
      <4>1. shadow \in Seq(Slot) /\ shadow_i \in Nat
        BY DEF TypeOK
      <4>2. QED BY <1>1, <4>1
    <3>3. QED BY <1>1, <2>1, <3>1, <3>2 DEF MarkInv
  <2>2. ASSUME NEW s \in ChainSlots, slot[s] \in Addr PROVE mark[slot[s]]
    <3>1. PICK e \in DOMAIN chain, i \in 1..NumRoots : chain[e][i] = s /\ s # NULL
      BY DEF ChainSlots
    <3>2. e < entry_i
      <4>1. chain \in Seq([1..NumRoots -> Slot \cup {NULL}]) /\ entry_i \in Nat
        BY DEF TypeOK
      <4>2. QED BY <1>1, <4>1
    <3>3. QED BY <1>1, <2>2, <3>1, <3>2 DEF MarkInv
  <2>3. QED BY <2>1, <2>2 DEF RootTargets, RootSlots, Marked
<1>6. Reachable \subseteq Marked
  BY <1>1, <1>4, <1>5, NotBlocks, ReachBound DEF Marked
<1>7. Marked = Reachable
  BY <1>1, <1>6 DEF MarkInv
<1>8. Live = Range(live_list) /\ Live' = Range(live_list)
  BY <1>1, <1>3 DEF Live
<1>9. SweepInv'
  BY <1>1, <1>2, <1>3, <1>7, <1>8 DEF SweepInv, NoDangling
<1>10. ListInv'
  BY <1>1, <1>3 DEF ListInv, IsInjective
<1>11. QED
  BY <1>1, <1>2, <1>8, <1>9, <1>10 DEF PhaseInv, NoDangling, MarkInv

\* The header at the cursor, in terms of the sets of headers.
LEMMA SweepHead ==
  ASSUME TypeOK, ListInv, rest # << >>
  PROVE  /\ Head(rest) \in Addr
         /\ Range(rest) = {Head(rest)} \cup Range(Tail(rest))
         /\ Head(rest) \notin Range(Tail(rest)) /\ Head(rest) \notin Range(live_list)
         /\ IsInjective(Tail(rest))
<1>1. rest \in Seq(Addr) /\ IsInjective(rest) /\ Range(live_list) \cap Range(rest) = {}
  BY DEF TypeOK, ListInv
<1>2. QED
  BY <1>1, RangeHeadTail, InjectiveTail

\* A sweep keeps a marked block, and unmarks it.
LEMMA SweepKeepStep ==
  ASSUME TypeOK, IInv, SweepKeep
  PROVE  IInv'
<1> USE DEF IInv
<1> DEFINE h == Head(rest)
<1>1. /\ phase = "sweep" /\ phase' = "sweep" /\ rest # << >> /\ mark[h]
      /\ mark' = [mark EXCEPT ![h] = FALSE]
      /\ live_list' = Append(live_list, h) /\ rest' = Tail(rest)
      /\ UNCHANGED <<type, field, shadow, chain, slot, ret, shadow_i, entry_i, root_i,
                     stack, scan>>
  BY DEF SweepKeep, Advance, ClearMark, rootVars
<1>2. Reachable' = Reachable
  BY <1>1, ReachSame DEF rootVars
<1>3. /\ h \in Addr /\ Range(rest) = {h} \cup Range(rest')
      /\ h \notin Range(rest') /\ h \notin Range(live_list) /\ IsInjective(rest')
  BY <1>1, SweepHead
<1>4. Range(live_list') = Range(live_list) \cup {h} /\ IsInjective(live_list')
  <2>1. live_list \in Seq(Addr) /\ IsInjective(live_list)
    BY DEF TypeOK, ListInv
  <2>2. QED BY <1>1, <1>3, <2>1, RangeAppend, InjectiveAppend
<1>5. Marked' = Marked \ {h} /\ h \in Marked
  <2>1. mark \in [Addr -> BOOLEAN]
    BY DEF TypeOK
  <2>2. \A b \in Addr : mark'[b] <=> (mark[b] /\ b # h)
    BY <1>1, <1>3, <2>1
  <2>3. QED BY <1>1, <1>3, <2>2 DEF Marked
<1>6. SweepInv' /\ ListInv' /\ NoDangling'
  BY <1>1, <1>2, <1>3, <1>4, <1>5 DEF SweepInv, ListInv, NoDangling, Live
<1>7. QED
  BY <1>1, <1>6 DEF PhaseInv, MarkInv

\* A freed header is in no one's reach: scrubbing it changes no reach.
LEMMA SweepFreeStep ==
  ASSUME TypeOK, IInv, SweepFree
  PROVE  IInv'
<1> USE DEF IInv
<1> DEFINE h == Head(rest)
<1>1. /\ phase = "sweep" /\ phase' = "sweep" /\ rest # << >> /\ ~mark[h]
      /\ rest' = Tail(rest)
      /\ type' = [type EXCEPT ![h] = "bytes"]
      /\ field' = [field EXCEPT ![h] = [f \in Fields |-> NULL]]
      /\ UNCHANGED <<live_list, shadow, chain, slot, ret, mark, shadow_i, entry_i, root_i,
                     stack, scan>>
  BY DEF SweepFree, Advance, rootVars, markVars
<1>2. /\ h \in Addr /\ Range(rest) = {h} \cup Range(rest')
      /\ h \notin Range(rest') /\ h \notin Range(live_list) /\ IsInjective(rest')
  BY <1>1, SweepHead
<1>3. h \notin Marked /\ h \notin Reachable
  BY <1>1, <1>2 DEF Marked, SweepInv
<1>4. \A c \in Addr : c # h => Targets(c)' = Targets(c)
  BY <1>1, <1>2 DEF Targets, TypeOK
<1>5. RootTargets' = RootTargets
  BY <1>1 DEF RootTargets, RootSlots, ChainSlots
<1>6. Reachable \subseteq Addr /\ Reachable' \subseteq Reachable
  <2>1. \A b \in Reachable : Targets(b)' \subseteq Reachable
    BY <1>3, <1>4, ReachFacts
  <2>2. QED BY <1>1, <1>5, <2>1, ReachFacts, ReachBoundNext
<1>7. Reachable \subseteq Reachable'
  <2>1. /\ Reachable' \subseteq Addr /\ RootTargets' \subseteq Reachable'
        /\ ret' \in Addr => ret' \in Reachable'
        /\ \A b \in Reachable' : Targets(b)' \subseteq Reachable'
    <3> DEFINE T == RootTargets' \cup ({ret'} \cap Addr)
    <3>1. DOMAIN Graph' = Addr /\ \A b \in Addr : Graph'[b] = Targets(b)'
      BY DEF Graph
    <3>2. Reachable' = ReachFrom(T, Graph')
      BY DEF Reachable
    <3>3. T \subseteq Reachable' /\ Reachable' \subseteq Addr
      BY <3>1, <3>2, ReachContains, ReachWithin DEF RootTargets
    <3>4. Closed(Reachable', Graph')
      <4>1. \A b \in DOMAIN Graph' : Graph'[b] \subseteq DOMAIN Graph'
        BY <3>1 DEF Targets
      <4>2. QED BY <3>2, <4>1, ReachClosed
    <3>5. QED BY <3>1, <3>3, <3>4 DEF Closed
  <2>2. \A b \in Reachable' : Targets(b) \subseteq Reachable'
    BY <1>3, <1>4, <1>6, <2>1
  <2>3. QED BY <1>1, <1>5, <2>1, <2>2, ReachBound
<1>8. Marked' = Marked
  BY <1>1 DEF Marked
<1>9. SweepInv' /\ ListInv' /\ NoDangling'
  BY <1>1, <1>2, <1>3, <1>6, <1>7, <1>8 DEF SweepInv, ListInv, NoDangling, Live
<1>10. QED
  BY <1>1, <1>8, <1>9 DEF PhaseInv, MarkInv

\* The end of a sweep, with nothing unreachable left.
LEMMA SweepDoneStep ==
  ASSUME TypeOK, IInv, SweepDone
  PROVE  IInv'
<1> USE DEF IInv
<1>1. /\ phase = "sweep" /\ phase' \in {"run", "alloc"} /\ rest = << >>
      /\ UNCHANGED <<type, field, live_list, rest, rootVars, markVars, ret>>
  BY DEF SweepDone, Caller
<1>2. Reachable' = Reachable /\ Marked' = Marked
  BY <1>1, ReachSame DEF Marked, markVars
<1>3. Marked = {}
  BY <1>1, RangeEmpty DEF SweepInv
<1>4. QED
  BY <1>1, <1>2, <1>3 DEF PhaseInv, ListInv, NoDangling, Live, MarkInv, SweepInv, markVars

\* A new block is reachable by the pointer that is returned.
LEMMA CallocStep ==
  ASSUME TypeOK, IInv, NEW b \in Addr \ Live, Calloc(b)
  PROVE  IInv'
<1> USE DEF IInv
<1>1. /\ phase = "alloc" /\ phase' = "run" /\ rest = << >> /\ ret' = b
      /\ field' = [field EXCEPT ![b] = [f \in Fields |-> NULL]]
      /\ type' = [type EXCEPT ![b] = request]
      /\ mark' = [mark EXCEPT ![b] = FALSE]
      /\ live_list' = <<b>> \o live_list
      /\ UNCHANGED <<rest, shadow, chain, slot, shadow_i, entry_i, root_i, stack, scan>>
  BY DEF Calloc, rootVars, PhaseInv
<1>2. b \notin Range(live_list)
  BY DEF Live
<1>3. Range(live_list') = {b} \cup Range(live_list) /\ IsInjective(live_list')
  <2>1. live_list \in Seq(Addr) /\ IsInjective(live_list)
    BY DEF TypeOK, ListInv
  <2>2. QED BY <1>1, <1>2, <2>1, RangePrepend, InjectivePrepend
<1>4. Targets(b)' = {}
  BY <1>1, NotBlocks DEF Targets, TypeOK
<1>5. \A c \in Addr : c # b => Targets(c)' = Targets(c)
  BY <1>1 DEF Targets, TypeOK
<1>6. RootTargets' = RootTargets
  BY <1>1 DEF RootTargets, RootSlots, ChainSlots
<1>7. Reachable' \subseteq Reachable \cup {b}
  <2>1. \A c \in Reachable \cup {b} : Targets(c)' \subseteq Reachable \cup {b}
    BY <1>4, <1>5, ReachFacts
  <2>2. QED BY <1>1, <1>6, <2>1, ReachFacts, ReachBoundNext
<1>8. Marked' = {}
  BY <1>1 DEF PhaseInv, Marked, TypeOK
<1>9. ListInv' /\ NoDangling'
  BY <1>1, <1>3, <1>7, RangeEmpty DEF ListInv, NoDangling, Live
<1>10. QED
  BY <1>1, <1>8, <1>9 DEF PhaseInv, MarkInv, SweepInv

-----------------------------------------------------------------------------
(* The invariant, and what follows from it. *)

\* The invariant holds of an empty heap.
LEMMA InvInit == Init => IInv
<1> SUFFICES ASSUME Init PROVE IInv
  OBVIOUS
<1>1. RootTargets = {} /\ ret \notin Addr
  BY NotBlocks, RangeEmpty DEF Init, RootTargets, RootSlots, ChainSlots
<1>2. Reachable = {}
  BY <1>1, ReachBound
<1>3. QED
  BY <1>2, RangeEmpty DEF Init, IInv, PhaseInv, ListInv, NoDangling, MarkInv,
     SweepInv, Marked, IsInjective

\* Every step of the program and of the collector keeps it.
LEMMA InvStep == TypeOK /\ IInv /\ [Next]_vars => IInv'
<1> SUFFICES ASSUME TypeOK, IInv, [Next]_vars PROVE IInv'
  OBVIOUS
<1>1. CASE UNCHANGED vars
  <2>1. UNCHANGED <<type, field, live_list, rest, shadow, chain, slot, ret, mark, phase,
                    shadow_i, entry_i, root_i, stack, scan>>
    BY <1>1 DEF vars, heapVars, rootVars, markVars
  <2>2. Reachable' = Reachable /\ Marked' = Marked
    BY <2>1, ReachSame DEF rootVars, Marked
  <2>3. QED
    BY <2>1, <2>2 DEF IInv, PhaseInv, ListInv, NoDangling, Live, MarkInv, SweepInv
<1>2. CASE Program
  <2>1. CASE \E s \in Slot, p \in Held : PushRoot(s, p) \/ StoreSlot(s, p)
    BY <2>1, ProgramStoreStep
  <2>2. CASE \E i \in 1..NumRoots, s \in Slot, p \in Held : SetRoot(i, s, p)
    BY <2>2, ProgramStoreStep
  <2>3. CASE \/ \E n \in 1..Len(shadow) : PopRoots(n)
             \/ EnterFn \/ LeaveFn \/ \E i \in 1..NumRoots : ClearRoot(i)
    BY <2>3, DropRootStep
  <2>4. CASE PopUnderflow(Len(shadow) + 1) \/ PushOverflow \/ Exit
    BY <2>4, AbortStep DEF PopUnderflow, PushOverflow, Exit
  <2>5. CASE \E b \in Reachable, f \in Fields, p \in Held : StoreField(b, f, p)
    BY <2>5, StoreFieldStep
  <2>6. CASE Collect \/ \E t \in Types : Alloc(t)
    BY <2>6, EnterRuntimeStep
  <2>7. QED
    BY <1>2, <2>1, <2>2, <2>3, <2>4, <2>5, <2>6 DEF Program
<1>3. CASE Collector
  BY <1>3, MarkRootStep, TraceFieldStep, TraceReturnStep, SweepStartStep,
     SweepKeepStep, SweepFreeStep, SweepDoneStep, CallocStep, AbortStep
     DEF Collector, OutOfMemory
<1>4. QED
  BY <1>1, <1>2, <1>3 DEF Next

\* The cursors, the marks and the two lists agree at every step of a collection.
THEOREM InvCorrect == Spec => []IInv
<1>1. QED
  BY InvInit, InvStep, TypeCorrect, PTL DEF Spec

\* The collector never frees a block the registered roots still reach.
THEOREM NeverDangling == Spec => []NoDangling
<1>1. IInv => NoDangling
  BY DEF IInv
<1>2. QED
  BY <1>1, InvCorrect, PTL

\* A finished sweep leaves exactly what the roots reach.
THEOREM GarbageCollected == Spec => []CollectsAllGarbage
<1>1. IInv => CollectsAllGarbage
  BY RangeEmpty DEF IInv, SweepInv, CollectsAllGarbage, Live
<1>2. QED
  BY <1>1, InvCorrect, PTL

\* No mark survives the collection that set it.
THEOREM NoStaleMark == Spec => []MarksAtRest
<1>1. TypeOK /\ IInv => MarksAtRest
  BY RangeType DEF TypeOK, IInv, PhaseInv, Marked, MarksAtRest, Live
<1>2. QED
  BY <1>1, InvCorrect, TypeCorrect, PTL

\* No header is listed twice: a sweep frees a block at most once.
THEOREM ListedOnce == Spec => []ListSound
<1>1. TypeOK /\ IInv => ListSound
  BY InjectiveConcat DEF TypeOK, IInv, ListInv, ListSound
<1>2. QED
  BY <1>1, InvCorrect, TypeCorrect, PTL
=============================================================================
