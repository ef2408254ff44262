-------------------------- MODULE GCServiceProofs --------------------------
(***************************************************************************)
(* What the collector of GCHeap owes the program that calls it, for every  *)
(* number of blocks, slots, roots and fields: its recursion is as deep as  *)
(* the heap is large at most, its byte account is exact, the heap stays    *)
(* below the threshold, and it is the runtime ManagedHeap describes.       *)
(* They rest on the invariant proved in GCHeapProofs.                      *)
(***************************************************************************)
EXTENDS GCHeapProofs

-----------------------------------------------------------------------------
(* The depth of mark_ptr's recursion. *)

\* A sequence has finitely many elements.
LEMMA RangeFinite ==
  ASSUME NEW S, NEW s \in Seq(S)
  PROVE  IsFiniteSet(Range(s))
<1>1. s \in Surjection(1..Len(s), Range(s))
  BY DEF Surjection, Range
<1>2. IsFiniteSet(1..Len(s))
  BY FS_Interval
<1>3. QED BY <1>1, <1>2, FS_Surjection

\* The listed blocks are finitely many.
LEMMA LiveFinite == TypeOK => IsFiniteSet(Live) /\ Live \subseteq Addr
<1> SUFFICES ASSUME TypeOK PROVE IsFiniteSet(Live) /\ Live \subseteq Addr
  OBVIOUS
<1>1. live_list \in Seq(Addr) /\ rest \in Seq(Addr)
  BY DEF TypeOK
<1>2. IsFiniteSet(Range(live_list)) /\ IsFiniteSet(Range(rest))
  BY <1>1, RangeFinite
<1>3. IsFiniteSet(Range(live_list) \cup Range(rest))
  BY <1>2, FS_Union
<1>4. Range(live_list) \subseteq Addr /\ Range(rest) \subseteq Addr
  BY <1>1, RangeType
<1>5. QED BY <1>3, <1>4 DEF Live

\* mark_ptr returns at once on a marked block, and the blocks of the running
\* activations are marked: none is entered twice.
LEMMA StackStep ==
  ASSUME TypeOK, IInv, IsInjective(stack), [Next]_vars
  PROVE  IsInjective(stack')
<1>1. stack \in Seq(Addr)
  BY DEF TypeOK
<1>2. ASSUME NEW kind, NEW p, MarkPtr(kind, p, stack), phase = "mark"
      PROVE  IsInjective(stack')
  <2>1. CASE FindsBlock(kind, p) /\ ~mark[p]
    <3>1. p \in Addr
      <4>1. live_list \in Seq(Addr)
        BY DEF TypeOK
      <4>2. QED BY <2>1, <4>1, RangeType DEF FindsBlock
    <3>2. p \notin Range(stack)
      BY <1>2, <2>1 DEF IInv, MarkInv, Marked
    <3>3. stack' = Append(stack, p)
      BY <1>2, <2>1 DEF MarkPtr
    <3>4. QED BY <1>1, <3>1, <3>2, <3>3, InjectiveAppend
  <2>2. CASE ~(FindsBlock(kind, p) /\ ~mark[p])
    BY <1>2, <2>2 DEF MarkPtr
  <2>3. QED BY <2>1, <2>2
<1>3. CASE MarkShadowRoot
  BY <1>2, <1>3 DEF MarkShadowRoot
<1>4. CASE MarkChainRoot
  <2>1. CASE UNCHANGED stack
    BY <2>1
  <2>2. CASE \E kind, p : MarkPtr(kind, p, stack)
    BY <1>2, <1>4, <2>2 DEF MarkChainRoot
  <2>3. QED BY <1>4, <2>1, <2>2 DEF MarkChainRoot
<1>5. CASE TraceField
  BY <1>2, <1>5 DEF TraceField
<1>6. CASE TraceReturn
  <2>1. stack # << >> /\ stack' = SubSeq(stack, 1, Len(stack) - 1)
    BY <1>6 DEF TraceReturn
  <2>2. DOMAIN stack' \subseteq DOMAIN stack /\ \A i \in DOMAIN stack' : stack'[i] = stack[i]
    BY <1>1, <2>1
  <2>3. QED BY <2>2 DEF IsInjective
<1>7. CASE UNCHANGED stack
  BY <1>7
<1>8. QED
  <2>1. Next => \/ UNCHANGED stack
                \/ MarkShadowRoot \/ MarkChainRoot \/ TraceField \/ TraceReturn
    BY DEF Next, Program, Collector, PushRoot, StoreSlot, PopRoots, PopUnderflow, PushOverflow,
       EnterFn, LeaveFn, SetRoot, ClearRoot, StoreField, Alloc, Collect, Exit, Abort,
       SweepStart, SweepKeep, SweepFree, SweepDone, Calloc, OutOfMemory, markVars
  <2>2. UNCHANGED vars => UNCHANGED stack
    BY DEF vars, markVars
  <2>3. QED BY <1>3, <1>4, <1>5, <1>6, <1>7, <2>1, <2>2

\* mark_ptr's recursion ends: an activation holds a live block no other one
\* holds, so however the heap is linked there are at most as many activations
\* as live blocks.
THEOREM RecursionFits == Spec => []RecursionBounded
<1>1. Init => IsInjective(stack)
  BY DEF Init, IsInjective
<1>2. TypeOK /\ IInv /\ IsInjective(stack) /\ [Next]_vars => IsInjective(stack)'
  BY StackStep
<1>3. TypeOK /\ IInv /\ IsInjective(stack) => RecursionBounded
  <2> SUFFICES ASSUME TypeOK, IInv, IsInjective(stack) PROVE RecursionBounded
    OBVIOUS
  <2>1. Range(stack) \subseteq Live
    BY RangeEmpty DEF IInv, PhaseInv, MarkInv, NoDangling
  <2>2. stack \in Seq(Live)
    <3>1. stack \in Seq(Addr)
      BY DEF TypeOK
    <3>2. \A i \in 1..Len(stack) : stack[i] \in Live
      BY <2>1, <3>1 DEF Range
    <3>3. QED BY <3>1, <3>2
  <2>3. QED BY <2>2, LiveFinite, InjectiveFits DEF RecursionBounded
<1>4. QED
  BY <1>1, <1>2, <1>3, InvCorrect, TypeCorrect, PTL DEF Spec

-----------------------------------------------------------------------------
(* live_bytes and the threshold. *)

\* The account as a sum the lemmas of DataLemmas speak of.
LEMMA Account == BytesExact <=> live_bytes = Total(Sizes, Live)
BY DEF BytesExact, Total

\* The same of the next state.
LEMMA AccountNext == BytesExact' <=> live_bytes' = Total(Sizes', Live')
<1>1. (BytesExact <=> live_bytes = Total(Sizes, Live))'
  BY Account, PTL
<1>2. QED BY <1>1

\* What a block takes is a positive number of bytes.
LEMMA SizesType == TypeOK => \A b \in Addr : Sizes[b] = BlockSize[type[b]] /\ Sizes[b] \in Nat \ {0}
BY SizesAssumption DEF TypeOK, Sizes

\* A block is added or taken off together with its size.
LEMMA AccountOneMore ==
  ASSUME NEW v, NEW w, NEW S, NEW R, NEW b \in S, IsFiniteSet(S), R = S \ {b},
         \A x \in S : v[x] \in Int, \A x \in R : w[x] = v[x]
  PROVE  Total(v, S) = v[b] + Total(w, R)
<1>1. Total(v, S) = v[b] + Total(v, R)
  BY TotalSplit
<1>2. IsFiniteSet(R)
  BY FS_RemoveElement
<1>3. Total(w, R) = Total(v, R)
  BY <1>2, TotalSame
<1>4. QED BY <1>1, <1>3

\* Every step keeps live_bytes the sum of the live blocks' sizes.
LEMMA BytesStep ==
  ASSUME TypeOK, TypeOK', IInv, BytesExact, [Next]_vars
  PROVE  BytesExact'
<1>1. CASE UNCHANGED <<live_bytes, type>> /\ Live' = Live
  <2>1. Sizes' = Sizes
    BY <1>1 DEF Sizes
  <2>2. QED BY <1>1, <2>1, Account, AccountNext
<1>2. CASE SweepKeep
  <2>1. /\ rest # << >> /\ rest' = Tail(rest) /\ live_list' = Append(live_list, Head(rest))
        /\ UNCHANGED <<live_bytes, type>>
    BY <1>2 DEF SweepKeep, Advance
  <2>2. rest \in Seq(Addr) /\ live_list \in Seq(Addr)
    BY DEF TypeOK
  <2>3. Live' = Live
    BY <2>1, <2>2, RangeHeadTail, RangeAppend DEF Live
  <2>4. QED BY <1>1, <2>1, <2>3
<1>3. CASE SweepFree
  <2> DEFINE h == Head(rest)
  <2>1. /\ rest # << >> /\ rest' = Tail(rest) /\ live_list' = live_list
        /\ live_bytes' = live_bytes - BlockSize[type[h]]
        /\ type' = [type EXCEPT ![h] = "bytes"]
    BY <1>3 DEF SweepFree, Advance, BytesLess
  <2>2. /\ h \in Addr /\ Range(rest) = {h} \cup Range(rest')
        /\ h \notin Range(rest') /\ h \notin Range(live_list)
    BY <2>1, SweepHead DEF IInv
  <2>3. h \in Live /\ Live' = Live \ {h}
    BY <2>1, <2>2 DEF Live
  <2>4. /\ IsFiniteSet(Live) /\ Live \subseteq Addr
        /\ \A x \in Live : Sizes[x] \in Int
    BY LiveFinite, SizesType
  <2>5. \A x \in Live' : Sizes'[x] = Sizes[x]
    BY <2>1, <2>3, <2>4 DEF Sizes, TypeOK
  <2>6. PICK t : t = Total(Sizes', Live')
    OBVIOUS
  <2>7. Total(Sizes, Live) = Sizes[h] + Total(Sizes', Live')
    <3> HIDE DEF h
    <3>1. QED BY <2>3, <2>4, <2>5, AccountOneMore
  <2>8. t \in Int
    <3>1. IsFiniteSet(Live') /\ \A x \in Live' : Sizes'[x] \in Nat
      BY <2>3, <2>4, <2>5, FS_RemoveElement, SizesType
    <3>2. QED BY <2>6, <3>1, TotalNat
  <2>9. live_bytes = Sizes[h] + t /\ Sizes[h] \in Int /\ live_bytes' = live_bytes - Sizes[h]
    BY <2>1, <2>2, <2>6, <2>7, Account, SizesType
  <2>10. live_bytes' = t
    BY <2>8, <2>9
  <2>11. QED BY <2>6, <2>10, AccountNext
<1>4. ASSUME NEW b \in Addr \ Live, Calloc(b) PROVE BytesExact'
  <2>1. /\ request \in Types /\ rest' = rest /\ live_list' = <<b>> \o live_list
        /\ live_bytes' = live_bytes + BlockSize[request]
        /\ type' = [type EXCEPT ![b] = request]
    BY <1>4 DEF Calloc, TypeOK
  <2>2. Live' = Live \cup {b}
    <3>1. live_list \in Seq(Addr)
      BY DEF TypeOK
    <3>2. QED BY <2>1, <3>1, RangePrepend DEF Live
  <2>3. b \in Live' /\ Live = Live' \ {b}
    BY <2>2
  <2>4. /\ IsFiniteSet(Live) /\ Live \subseteq Addr
        /\ \A x \in Live : Sizes[x] \in Nat
    BY LiveFinite, SizesType
  <2>5. /\ \A x \in Live : Sizes[x] = Sizes'[x]
        /\ Sizes'[b] = BlockSize[request] /\ Sizes'[b] \in Int
    BY <2>1, <2>4, SizeIsInt DEF Sizes, TypeOK
  <2>6. /\ IsFiniteSet(Live')
        /\ \A x \in Live' : Sizes'[x] \in Int
    BY <2>2, <2>4, <2>5, FS_AddElement
  <2>7. Total(Sizes', Live') = Sizes'[b] + Total(Sizes, Live)
    BY <2>3, <2>5, <2>6, AccountOneMore
  <2>8. live_bytes = Total(Sizes, Live) /\ live_bytes \in Int
    BY Account DEF TypeOK
  <2>9. live_bytes' = Total(Sizes', Live')
    BY <2>1, <2>5, <2>7, <2>8
  <2>10. QED BY <2>9, AccountNext
<1>5. CASE SweepStart
  <2>1. rest = << >> /\ rest' = live_list /\ live_list' = << >> /\ UNCHANGED <<live_bytes, type>>
    BY <1>5 DEF SweepStart, IInv, PhaseInv
  <2>2. Live' = Live
    BY <2>1 DEF Live
  <2>3. QED BY <1>1, <2>1, <2>2
<1>6. QED
  <2>1. Next => \/ UNCHANGED <<live_bytes, type, live_list, rest>>
                \/ SweepStart \/ SweepKeep \/ SweepFree \/ \E b \in Addr \ Live : Calloc(b)
    BY DEF Next, Program, Collector, PushRoot, StoreSlot, PopRoots, PopUnderflow, PushOverflow,
       EnterFn, LeaveFn, SetRoot, ClearRoot, StoreField, Alloc, Collect, Exit, Abort,
       MarkShadowRoot, MarkChainRoot, TraceField, TraceReturn, SweepDone, OutOfMemory, heapVars
  <2>2. UNCHANGED vars => UNCHANGED <<live_bytes, type, live_list, rest>>
    BY DEF vars, heapVars
  <2>3. UNCHANGED <<live_bytes, type, live_list, rest>> => BytesExact'
    BY <1>1 DEF Live
  <2>4. QED BY <1>2, <1>3, <1>4, <1>5, <2>1, <2>2, <2>3

\* live_bytes is the total of the listed blocks' sizes after every step: each
\* block is added once and taken off once, with the size it was added with.
THEOREM AccountExact == Spec => []BytesExact
<1>1. Init => BytesExact
  <2> SUFFICES ASSUME Init PROVE BytesExact
    OBVIOUS
  <2>1. Live = {} /\ live_bytes = 0
    BY RangeEmpty DEF Init, Live
  <2>2. QED BY <2>1, Account, TotalEmpty
<1>2. TypeOK /\ TypeOK' /\ IInv /\ BytesExact /\ [Next]_vars => BytesExact'
  BY BytesStep
<1>3. QED
  BY <1>1, <1>2, InvCorrect, TypeCorrect, PTL DEF Spec

\* The account never goes below zero.
LEMMA BytesNatural == TypeOK /\ BytesExact => live_bytes \in Nat
<1> SUFFICES ASSUME TypeOK, BytesExact PROVE live_bytes \in Nat
  OBVIOUS
<1>1. IsFiniteSet(Live) /\ \A x \in Live : Sizes[x] \in Nat
  BY LiveFinite, SizesType
<1>2. Total(Sizes, Live) \in Nat
  BY <1>1, TotalNat
<1>3. QED BY <1>2, Account

\* Behind HeapBounded: an allocation that has come past maybe_collect finds the
\* heap below the threshold, which a collection may have raised to twice it.
ThresholdInv ==
  /\ gc_threshold > 0
  /\ phase = "alloc" => live_bytes < gc_threshold
  /\ HeapBounded

\* Every step keeps the threshold above what the heap may hold.
LEMMA ThresholdStep ==
  ASSUME TypeOK, live_bytes \in Nat, ThresholdInv, [Next]_vars
  PROVE  ThresholdInv'
<1>a. live_bytes \in Nat /\ gc_threshold \in Int /\ \A t \in Types : BlockSize[t] \in Nat \ {0}
  BY SizesAssumption DEF TypeOK
<1>1. CASE UNCHANGED <<live_bytes, gc_threshold>> /\ (phase' = "alloc" => phase = "alloc")
  BY <1>1 DEF ThresholdInv, HeapBounded
<1>2. ASSUME NEW t \in Types, Alloc(t) PROVE ThresholdInv'
  <2>1. /\ UNCHANGED <<live_bytes, gc_threshold>>
        /\ phase' = "alloc" => ~(live_bytes >= gc_threshold)
    BY <1>2 DEF Alloc, NeedsCollect, BeginCollect, heapVars
  <2>2. QED BY <1>a, <2>1 DEF ThresholdInv, HeapBounded
<1>3. CASE SweepFree
  <2>1. /\ live_bytes' = live_bytes - BlockSize[type[Head(rest)]]
        /\ gc_threshold' = gc_threshold /\ phase' = "sweep"
    BY <1>3 DEF SweepFree, BytesLess
  <2>2. BlockSize[type[Head(rest)]] \in Nat
    <3>1. rest \in Seq(Addr) /\ rest # << >> /\ type \in [Addr -> Types]
      BY <1>3 DEF SweepFree, TypeOK
    <3>2. Head(rest) \in Addr
      BY <3>1
    <3>3. QED BY <1>a, <3>1, <3>2
  <2>3. PICK t \in Types : live_bytes < gc_threshold + BlockSize[t]
    BY DEF ThresholdInv, HeapBounded
  <2>4. live_bytes' < gc_threshold' + BlockSize[t]
    BY <1>a, <2>1, <2>2, <2>3
  <2>5. QED BY <2>1, <2>4 DEF ThresholdInv, HeapBounded
<1>4. CASE SweepDone
  <2>1. /\ live_bytes' = live_bytes
        /\ phase' = "alloc" => request # "none"
        /\ gc_threshold' = IF request # "none" /\ live_bytes * 2 > gc_threshold
                             THEN live_bytes * 2 ELSE gc_threshold
    BY <1>4 DEF SweepDone, Caller
  <2>2. PICK t \in Types : live_bytes < gc_threshold + BlockSize[t]
    BY DEF ThresholdInv, HeapBounded
  <2>3. gc_threshold' >= gc_threshold /\ gc_threshold' \in Int
    BY <1>a, <2>1
  <2>4. live_bytes' < gc_threshold' + BlockSize[t] /\ gc_threshold' > 0
    BY <1>a, <2>1, <2>2, <2>3 DEF ThresholdInv
  <2>5. phase' = "alloc" => live_bytes' < gc_threshold'
    BY <1>a, <2>1, <2>3 DEF ThresholdInv
  <2>6. QED BY <2>4, <2>5 DEF ThresholdInv, HeapBounded
<1>5. ASSUME NEW b \in Addr \ Live, Calloc(b) PROVE ThresholdInv'
  <2>1. /\ phase = "alloc" /\ phase' = "run" /\ gc_threshold' = gc_threshold
        /\ live_bytes' = live_bytes + BlockSize[request] /\ request \in Types
    BY <1>5 DEF Calloc, TypeOK
  <2>2. live_bytes' < gc_threshold' + BlockSize[request]
    BY <1>a, <2>1 DEF ThresholdInv
  <2>3. QED BY <2>1, <2>2 DEF ThresholdInv, HeapBounded
<1>6. QED
  <2>1. Next => \/ UNCHANGED <<live_bytes, gc_threshold>> /\ (phase' = "alloc" => phase = "alloc")
                \/ \E t \in Types : Alloc(t)
                \/ SweepFree \/ SweepDone \/ \E b \in Addr \ Live : Calloc(b)
    BY DEF Next, Program, Collector, PushRoot, StoreSlot, PopRoots, PopUnderflow, PushOverflow,
       EnterFn, LeaveFn, SetRoot, ClearRoot, StoreField, Collect, BeginCollect, Exit, Abort,
       MarkShadowRoot, MarkChainRoot, TraceField, TraceReturn, SweepStart, SweepKeep,
       OutOfMemory, heapVars
  <2>2. UNCHANGED vars => UNCHANGED <<live_bytes, gc_threshold, phase>>
    BY DEF vars, heapVars
  <2>3. QED BY <1>1, <1>2, <1>3, <1>4, <1>5, <2>1, <2>2

\* The heap never outgrows the threshold by more than the block being added.
THEOREM HeapStaysBounded == Spec => []HeapBounded
<1>1. Init => ThresholdInv
  BY SizesAssumption, BoundsAssumption DEF Init, ThresholdInv, HeapBounded, Types
<1>2. TypeOK /\ BytesExact /\ ThresholdInv /\ [Next]_vars => ThresholdInv'
  BY BytesNatural, ThresholdStep
<1>3. ThresholdInv => HeapBounded
  BY DEF ThresholdInv
<1>4. QED
  BY <1>1, <1>2, <1>3, AccountExact, TypeCorrect, PTL DEF Spec

-----------------------------------------------------------------------------
(* The runtime ManagedHeap describes. *)

\* The blocks handed out, phase by phase.
LEMMA AllocatedIs ==
  ASSUME TypeOK, IInv
  PROVE  /\ phase # "sweep" => Allocated = Live
         /\ (phase = "sweep" => Allocated = Reachable)
         /\ Reachable \subseteq Allocated /\ Allocated \subseteq Addr
<1>1. phase # "sweep" => Allocated = Live
  BY RangeEmpty DEF IInv, PhaseInv, Allocated, Live
<1>2. phase = "sweep" => Allocated = Reachable
  <2>1. rest \in Seq(Addr)
    BY DEF TypeOK
  <2>2. {b \in Range(rest) : mark[b]} = {b \in Addr : mark[b] /\ b \in Range(rest)}
    BY <2>1, RangeType
  <2>3. QED BY <2>2 DEF Allocated, IInv, SweepInv, Marked
<1>3. QED
  BY <1>1, <1>2, ReachFacts, LiveFinite DEF IInv, NoDangling

\* The abstract graph: a block not handed out leads nowhere.
Kept == [b \in Addr |-> IF b \in Allocated THEN Targets(b) ELSE {}]

\* Scrubbing what nobody reaches changes nothing for those who do.
LEMMA ReachManaged == TypeOK /\ IInv => Managed!Reachable = Reachable
<1> SUFFICES ASSUME TypeOK, IInv PROVE Managed!Reachable = Reachable
  OBVIOUS
<1> DEFINE T == RootTargets \cup ({ret} \cap Addr)
           M == ReachFrom(T, Kept)
<1>1. Managed!Reachable = M
  BY DEF Managed!Reachable, Managed!ReachFrom, Managed!Closed, ReachFrom, Closed, Kept
<1>2. /\ DOMAIN Kept = Addr
      /\ \A b \in Addr : Kept[b] \subseteq Targets(b) /\ Kept[b] \subseteq Addr
      /\ \A b \in Reachable : Kept[b] = Targets(b)
  BY AllocatedIs, TargetsType DEF Kept
<1>3. T \subseteq Addr /\ T \subseteq Reachable /\ Reachable \subseteq Addr
  BY ReachFacts DEF RootTargets
<1>4. M \subseteq Reachable
  <2>1. Closed(Reachable, Kept)
    BY <1>2, <1>3, ReachFacts DEF Closed
  <2>2. QED BY <1>2, <1>3, <2>1, ReachLeast
<1>5. Reachable \subseteq M
  <2>1. T \subseteq M /\ M \subseteq Addr /\ Closed(M, Kept)
    BY <1>2, <1>3, ReachContains, ReachClosed, ReachWithin
  <2>2. \A b \in M : Targets(b) \subseteq M
    BY <1>2, <1>4, <2>1 DEF Closed
  <2>3. QED BY <2>1, <2>2, ReachBound
<1>6. QED BY <1>1, <1>4, <1>5

\* The same of the next state.
LEMMA ReachManagedNext == TypeOK' /\ IInv' => Managed!Reachable' = Reachable'
<1>1. (TypeOK /\ IInv => Managed!Reachable = Reachable)'
  BY ReachManaged, PTL
<1>2. QED BY <1>1

\* The same of the next state.
LEMMA AllocatedNext ==
  TypeOK' /\ IInv' => /\ (phase' # "sweep" => Allocated' = Live')
                     /\ (phase' = "sweep" => Allocated' = Reachable')
<1>1. TypeOK /\ IInv => /\ (phase # "sweep" => Allocated = Live)
                       /\ (phase = "sweep" => Allocated = Reachable)
  BY AllocatedIs
<1>2. (TypeOK /\ IInv => /\ (phase # "sweep" => Allocated = Live)
                        /\ (phase = "sweep" => Allocated = Reachable))'
  BY <1>1, PTL
<1>3. QED BY <1>2

\* The program outside the runtime rearranges what it can reach.
LEMMA ProgramMutates ==
  ASSUME TypeOK, IInv, TypeOK', IInv',
         \/ \E s \in Slot, p \in Held : PushRoot(s, p) \/ StoreSlot(s, p)
         \/ \E n \in 1..Len(shadow) : PopRoots(n)
         \/ EnterFn \/ LeaveFn
         \/ \E i \in 1..NumRoots, s \in Slot, p \in Held : SetRoot(i, s, p)
         \/ \E i \in 1..NumRoots : ClearRoot(i)
         \/ \E b \in Reachable, f \in Fields, p \in Held : StoreField(b, f, p)
  PROVE  Managed!Mutate
<1>1. Reachable' \subseteq Reachable
  BY ProgramStoreStep, DropRootStep, StoreFieldStep
<1>2. phase = "run" /\ phase' = "run" /\ UNCHANGED <<live_list, rest, request>>
  BY DEF PushRoot, StoreSlot, PopRoots, EnterFn, LeaveFn, SetRoot, ClearRoot, StoreField, heapVars
<1>3. Allocated' = Allocated
  BY <1>2 DEF Allocated
<1>4. QED
  BY <1>1, <1>2, <1>3, ReachManaged, ReachManagedNext DEF Managed!Mutate

\* Freeing a header takes none from the blocks the program has been granted.
LEMMA SweepFreeAllocates ==
  ASSUME TypeOK, IInv, SweepFree
  PROVE  Allocated' = Allocated
<1>1. /\ phase = "sweep" /\ phase' = "sweep" /\ rest # << >> /\ ~mark[Head(rest)]
      /\ rest' = Tail(rest) /\ UNCHANGED <<live_list, mark>>
  BY DEF SweepFree, Advance, markVars
<1>2. Range(rest) = {Head(rest)} \cup Range(rest')
  BY <1>1, SweepHead DEF IInv
<1>3. QED BY <1>1, <1>2 DEF Allocated

\* Marking, and a sweep's walk, change nothing the program could notice.
LEMMA CollectorStutters ==
  ASSUME TypeOK, IInv, TypeOK', IInv',
         \/ MarkShadowRoot \/ MarkChainRoot \/ TraceField \/ TraceReturn
         \/ SweepKeep \/ SweepFree
         \/ SweepDone /\ request # "none"
  PROVE  UNCHANGED Managed!vars
<1>1. /\ phase \in {"mark", "sweep"} /\ phase' \in {"mark", "sweep", "alloc"}
      /\ UNCHANGED <<rootVars, ret, request>>
  BY DEF MarkShadowRoot, MarkChainRoot, TraceField, TraceReturn, SweepKeep, SweepFree,
     SweepDone, Caller
<1>2. RootTargets' = RootTargets
  BY <1>1 DEF RootTargets, RootSlots, ChainSlots, rootVars
<1>3. /\ Allocated' = Allocated
      /\ \A b \in Allocated : Targets(b)' = Targets(b)
  <2>1. CASE MarkShadowRoot \/ MarkChainRoot \/ TraceField \/ TraceReturn
    <3>1. phase = "mark" /\ phase' = "mark" /\ UNCHANGED <<type, field, live_list>>
      BY <2>1 DEF MarkShadowRoot, MarkChainRoot, TraceField, TraceReturn, heapVars
    <3>2. QED BY <3>1 DEF Allocated, Targets
  <2>2. CASE SweepKeep \/ SweepFree
    <3>1. phase = "sweep" /\ phase' = "sweep" /\ Allocated = Reachable
      BY <2>2, AllocatedIs DEF SweepKeep, SweepFree
    <3>2. Allocated' = Reachable'
      BY <3>1, AllocatedNext
    <3>3. CASE SweepKeep
      <4>1. UNCHANGED <<type, field>>
        BY <3>3 DEF SweepKeep
      <4>2. Reachable' = Reachable
        BY <1>1, <4>1, ReachSame
      <4>3. QED BY <3>1, <3>2, <4>1, <4>2 DEF Targets
    <3>4. CASE SweepFree
      <4> DEFINE h == Head(rest)
      <4>1. /\ rest # << >> /\ ~mark[h]
            /\ type' = [type EXCEPT ![h] = "bytes"]
            /\ field' = [field EXCEPT ![h] = [f \in Fields |-> NULL]]
        BY <3>4 DEF SweepFree
      <4>2. h \in Addr /\ h \notin Range(live_list)
        BY <4>1, SweepHead DEF IInv
      <4>3. h \notin Reachable
        BY <3>1, <4>1, <4>2 DEF IInv, SweepInv, Marked
      <4>4. \A b \in Addr : b # h => Targets(b)' = Targets(b)
        BY <4>1, <4>2 DEF Targets, TypeOK
      <4>5. Allocated' = Allocated
        BY <3>1, <3>4, SweepFreeAllocates
      <4>6. QED BY <3>1, <4>3, <4>4, <4>5, ReachFacts
    <3>5. QED BY <2>2, <3>3, <3>4
  <2>3. CASE SweepDone
    BY <2>3, RangeEmpty DEF SweepDone, Caller, Allocated, Targets
  <2>4. QED BY <2>1, <2>2, <2>3
<1>4. QED
  BY <1>1, <1>2, <1>3 DEF Managed!vars

\* From the first header swept, what is handed out is what is reachable.
LEMMA SweepReclaims ==
  ASSUME TypeOK, IInv, TypeOK', IInv', SweepStart
  PROVE  Managed!Reclaim
<1>1. /\ phase = "mark" /\ phase' = "sweep"
      /\ UNCHANGED <<type, field, rootVars, ret, request>>
  BY DEF SweepStart
<1>2. Reachable' = Reachable /\ RootTargets' = RootTargets
  BY <1>1, ReachSame DEF RootTargets, RootSlots, ChainSlots, rootVars
<1>3. Allocated' = Reachable
  BY <1>1, <1>2, AllocatedNext
<1>4. \A b \in Addr : Targets(b)' = Targets(b)
  BY <1>1 DEF Targets
<1>5. Reachable \subseteq Allocated
  BY AllocatedIs
<1>6. QED
  BY <1>1, <1>2, <1>3, <1>4, <1>5, ReachManaged DEF Managed!Reclaim

\* A call of calloc is the abstract heap's grant of an unallocated block.
LEMMA CallocGrants ==
  ASSUME TypeOK, IInv, TypeOK', IInv', NEW b \in Addr \ Live, Calloc(b)
  PROVE  b \in Addr \ Allocated /\ Managed!Grant(b)
<1>1. /\ phase = "alloc" /\ phase' = "run" /\ request \in Types /\ request' = "none"
      /\ ret' = b /\ live_list' = <<b>> \o live_list
      /\ type' = [type EXCEPT ![b] = request]
      /\ field' = [field EXCEPT ![b] = [f \in Fields |-> NULL]]
      /\ UNCHANGED rootVars
  BY DEF Calloc, TypeOK
<1>2. Allocated = Range(live_list) /\ Allocated' = Range(live_list')
  BY <1>1 DEF Allocated
<1>3. Range(live_list') = {b} \cup Range(live_list)
  BY <1>1, RangePrepend DEF TypeOK
<1>4. Targets(b)' = {}
  BY <1>1, NotBlocks DEF Targets, TypeOK
<1>5. \A c \in Addr : c # b => Targets(c)' = Targets(c)
  BY <1>1 DEF Targets, TypeOK
<1>6. RootTargets' = RootTargets
  BY <1>1 DEF RootTargets, RootSlots, ChainSlots, rootVars
<1>7. b \notin Allocated
  BY <1>2 DEF Live
<1>8. request # "none"
  BY <1>1 DEF Types
<1>9. [c \in Addr |-> IF c \in Allocated' THEN Targets(c)' ELSE {}]
        = [[c \in Addr |-> IF c \in Allocated THEN Targets(c) ELSE {}] EXCEPT ![b] = {}]
  BY <1>2, <1>3, <1>4, <1>5
<1>10. QED
  BY <1>1, <1>2, <1>3, <1>6, <1>7, <1>8, <1>9 DEF Managed!Grant

\* Every step is one of the abstract runtime's, or one it does not see.
LEMMA ManagedStep ==
  ASSUME TypeOK, IInv, TypeOK', IInv', [Next]_vars
  PROVE  Managed!Next \/ UNCHANGED Managed!vars
<1>1. CASE UNCHANGED vars
  <2>1. UNCHANGED <<type, field, mark, live_list, rest, shadow, chain, slot, ret, phase, request>>
    BY <1>1 DEF vars, heapVars, rootVars, markVars
  <2>2. QED
    BY <2>1 DEF Managed!vars, Allocated, Targets, RootTargets, RootSlots, ChainSlots
<1>2. CASE \/ \E s \in Slot, p \in Held : PushRoot(s, p) \/ StoreSlot(s, p)
           \/ \E n \in 1..Len(shadow) : PopRoots(n)
           \/ EnterFn \/ LeaveFn
           \/ \E i \in 1..NumRoots, s \in Slot, p \in Held : SetRoot(i, s, p)
           \/ \E i \in 1..NumRoots : ClearRoot(i)
           \/ \E b \in Reachable, f \in Fields, p \in Held : StoreField(b, f, p)
  BY <1>2, ProgramMutates DEF Managed!Next
<1>3. CASE Collect \/ \E t \in Types : Alloc(t)
  <2>1. /\ phase = "run" /\ phase' \in {"mark", "alloc"} /\ ret' = NULL
        /\ UNCHANGED <<heapVars, rootVars>>
    BY <1>3 DEF Collect, Alloc, BeginCollect
  <2>2. Allocated' = Allocated /\ RootTargets' = RootTargets
        /\ \A b \in Addr : Targets(b)' = Targets(b)
    BY <2>1 DEF Allocated, RootTargets, RootSlots, ChainSlots, Targets, heapVars, rootVars
  <2>3. QED BY <2>1, <2>2 DEF Managed!Next, Managed!Ask
<1>4. CASE \/ PopUnderflow(Len(shadow) + 1) \/ PushOverflow \/ Exit \/ OutOfMemory
  <2>1. /\ phase \in {"run", "alloc"} /\ phase' \in {"exit", "abort"}
        /\ UNCHANGED <<heapVars, rootVars, ret, request>>
    BY <1>4 DEF PopUnderflow, PushOverflow, Exit, OutOfMemory, Abort
  <2>2. Allocated' = Allocated /\ RootTargets' = RootTargets
        /\ \A b \in Addr : Targets(b)' = Targets(b)
    BY <2>1 DEF Allocated, RootTargets, RootSlots, ChainSlots, Targets, heapVars, rootVars
  <2>3. QED BY <2>1, <2>2 DEF Managed!Next, Managed!Stop
<1>5. CASE SweepDone /\ request = "none"
  <2>1. /\ phase = "sweep" /\ phase' = "run" /\ rest = << >>
        /\ UNCHANGED <<type, field, live_list, rest, rootVars, ret, request>>
    BY <1>5 DEF SweepDone, Caller
  <2>2. Allocated = Reachable /\ Reachable' = Reachable /\ RootTargets' = RootTargets
    BY <2>1, AllocatedIs, ReachSame DEF RootTargets, RootSlots, ChainSlots, rootVars
  <2>3. Allocated' = Allocated
    BY <2>1, RangeEmpty DEF Allocated
  <2>4. \A b \in Addr : Targets(b)' = Targets(b)
    BY <2>1 DEF Targets
  <2>5. QED
    BY <1>5, <2>1, <2>2, <2>3, <2>4, ReachManaged DEF Managed!Next, Managed!Collected
<1>6. CASE \/ MarkShadowRoot \/ MarkChainRoot \/ TraceField \/ TraceReturn
           \/ SweepKeep \/ SweepFree
           \/ SweepDone /\ request # "none"
  BY <1>6, CollectorStutters
<1>7. CASE SweepStart
  BY <1>7, SweepReclaims DEF Managed!Next
<1>8. CASE \E b \in Addr \ Live : Calloc(b)
  BY <1>8, CallocGrants DEF Managed!Next
<1>9. QED
  BY <1>1, <1>2, <1>3, <1>4, <1>5, <1>6, <1>7, <1>8 DEF Next, Program, Collector

\* The mark-sweep collector is the runtime the compiler's code relies on: it
\* reclaims only what the roots do not reach, moves nothing, and grants blocks
\* nobody holds.
THEOREM CollectorRefines == Spec => ImplementsManagedHeap
<1>1. Init => Managed!Init
  <2> SUFFICES ASSUME Init PROVE Managed!Init
    OBVIOUS
  <2>1. Allocated = {} /\ RootTargets = {}
    BY RangeEmpty DEF Init, Allocated, RootTargets, RootSlots, ChainSlots
  <2>2. QED BY <2>1 DEF Managed!Init, Init
<1>2. TypeOK /\ IInv /\ TypeOK' /\ IInv' /\ [Next]_vars => [Managed!Next]_(Managed!vars)
  BY ManagedStep
<1>3. QED
  BY <1>1, <1>2, InvCorrect, TypeCorrect, PTL DEF Spec, ImplementsManagedHeap, Managed!Spec
=============================================================================
