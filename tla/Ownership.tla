------------------------------ MODULE Ownership ------------------------------
(***************************************************************************)
(* Who owns a heap value: the cleanup entries codegen keeps per frame      *)
(* (_cleanup_frames in src/src/tuppu/codegen), the transfers and clones at *)
(* every place a value can be stored, and the release calls emitted at     *)
(* scope exit, reassignment, `release` and early return.                   *)
(*                                                                         *)
(* Under the collector a release frees nothing, but it still destroys: it  *)
(* walks a tablets' chunks, releases each element in place (an inner       *)
(* tablets is zeroed, a seal loses its tag) and zeroes the header it was   *)
(* given.  Copies of that header then lead to destroyed elements.  The     *)
(* model has the smallest types that show it: a row is a tablets, and an   *)
(* acc a tablets of rows.  The elements of a row are `deep` if a release   *)
(* destroys them (seals, structs of them, tablets whose release helper has *)
(* been built by then) and flat if it does not (scalars, str).  An object  *)
(* is the chunk chain of a row or an acc; a header is the object it leads  *)
(* to, None when it is zero.                                               *)
(*                                                                         *)
(* The program is any straight-line function body with nested blocks, so   *)
(* generating a statement and running it is one step.  DeepShapes and      *)
(* FlatShapes are the forms of source code a run includes for rows of each *)
(* kind, besides literals, moves and borrows:                              *)
(*   "fresh"  a call that returns a row: initialiser, stored value, tail;  *)
(*   "yield"  `yield x`, an early return with a local row;                 *)
(*   "respend"  a move of x, which has no cleanup entry of its own any     *)
(*            more, where an x that it shadows still has one.              *)
(* A definition marked "faulty" is the next one with a bug in it.          *)
(***************************************************************************)
EXTENDS Naturals, Sequences, SequencesExt, FiniteSets

CONSTANTS
  Rows, Accs,  \* names of the function's mut variables, by type
  DeepShapes, FlatShapes,
  MaxObjects,  \* bound: objects made in a run
  MaxSlots,    \* bound: allocas holding headers
  MaxFrames    \* bound: cleanup frames open at once

ASSUME NamesAssumption == Rows \cap Accs = {} /\ ".rvalue.root" \notin Rows \cup Accs
ASSUME ShapesAssumption == DeepShapes \cup FlatShapes \subseteq {"fresh", "yield", "respend"}
ASSUME BoundsAssumption == MaxObjects \in Nat /\ MaxSlots \in Nat /\ MaxFrames \in Nat

VARIABLES
  deep,     \* releasing a row destroys its elements
  frames,   \* _cleanup_frames: entries [slot, name], outermost frame first
  scope,    \* the names bound in each open scope and their allocas, outermost first
  slots,    \* allocas made so far
  heap,     \* the run-time state: see Heap
  running,  \* the function has not returned
  out       \* the header it has returned

vars == <<deep, frames, scope, slots, heap, running, out>>

Names == Rows \cup Accs
None == 0
Objects == 1..MaxObjects
Headers == Objects \cup {None}
Slots == 1..MaxSlots
NoNames == [n \in {} |-> None]

\* hdr: the header in each alloca.  held: the rows whose headers an acc's
\* chunks store, and accs the accs among the objects.  destroyed: the objects whose elements a release has
\* destroyed, again: those released twice.  made: objects made so far.
Heap == [hdr : [Slots -> Headers], held : [Objects -> SUBSET Objects],
         accs : SUBSET Objects, destroyed : SUBSET Objects, again : SUBSET Objects, made : 0..MaxObjects]

Init ==
  /\ deep \in BOOLEAN
  /\ frames = << << >>, << >> >>   \* the parameters' frame and the body's
  /\ scope = <<NoNames, NoNames>> /\ slots = 0
  /\ heap = [hdr |-> [s \in Slots |-> None], held |-> [o \in Objects |-> {}],
             accs |-> {}, destroyed |-> {}, again |-> {}, made |-> 0]
  /\ running = TRUE /\ out = None

-----------------------------------------------------------------------------
(* What emitted code does to the heap. *)

\* Release the headers H: walk the elements, destroying each.
Destroy(h, H) ==
  LET walked == (H \ {None}) \cup UNION {h.held[o] : o \in H \ {None}}
      hit == IF deep THEN walked ELSE walked \cap h.accs
  IN  [h EXCEPT !.destroyed = @ \cup hit,
                !.again = @ \cup (h.destroyed \cap hit),
                !.held = [o \in Objects |-> IF o \in H THEN {} ELSE @[o]]]

\* The release helpers also zero the header they are given.
ReleaseSlotsKept(h, S) == Destroy(h, {h.hdr[s] : s \in S})   \* faulty
ReleaseSlots(h, S) ==
  [Destroy(h, {h.hdr[s] : s \in S}) EXCEPT
     !.hdr = [s \in Slots |-> IF s \in S THEN None ELSE @[s]]]

Zeroed(h, s) == [h EXCEPT !.hdr[s] = None]
Loaded(h, s, o) == [h EXCEPT !.hdr[s] = o]

\* A new chunk chain; a clone of destroyed elements is as lost as they are.
Fresh(h) == h.made + 1
Made(h) == [h EXCEPT !.made = @ + 1]
Cloned(h, o) ==
  IF o \in h.destroyed THEN [Made(h) EXCEPT !.destroyed = @ \cup {Fresh(h)}] ELSE Made(h)

-----------------------------------------------------------------------------
(* The compiler's bookkeeping. *)

Shapes == IF deep THEN DeepShapes ELSE FlatShapes

\* _lookup: a name is that of its innermost binding.
BindingFrame(n) == SelectLastInSeq(scope, LAMBDA names : n \in DOMAIN names)
SlotOf(n) == scope[BindingFrame(n)][n]
HeaderOf(n) == heap.hdr[SlotOf(n)]
Bound == UNION {DOMAIN scope[i] : i \in DOMAIN scope}
Elements(a) == IF HeaderOf(a) = None THEN {} ELSE heap.held[HeaderOf(a)]

Entry(s, n) == [slot |-> s, name |-> n]
Registered(fs, e) == [fs EXCEPT ![Len(fs)] = Append(@, e)]
SlotsIn(frame) == {e.slot : e \in ToSet(frame)}
AllSlots == UNION {SlotsIn(frames[i]) : i \in DOMAIN frames}

HasEntry(frame, n) == \E e \in ToSet(frame) : e.name = n
WithoutEntry(frame, n) == RemoveAt(frame, SelectInSeq(frame, LAMBDA e : e.name = n))

\* The innermost frame with an entry of that name, 0 if there is none.
OwningFrameOutermost(n) ==   \* faulty
  SelectInSeq(frames, LAMBDA frame : HasEntry(frame, n))
OwningFrame(n) ==
  SelectLastInSeq(frames, LAMBDA frame : HasEntry(frame, n))
Owned(n) == OwningFrame(n) # 0
EntryOf(n) ==
  LET frame == frames[OwningFrame(n)]
  IN  frame[SelectInSeq(frame, LAMBDA e : e.name = n)]
Respends(n) == Owned(n) /\ ~HasEntry(frames[BindingFrame(n)], n)
Dropped(n) == [frames EXCEPT ![OwningFrame(n)] = WithoutEntry(@, n)]

-----------------------------------------------------------------------------
(* Sources of a stored row, and the three-way split at every sink.         *)
(* A source is evaluated first: `fs`, `h` and `o` are the frames, the heap *)
(* and the header after that; `slot` is the alloca to zero when the sink   *)
(* has taken the value.                                                    *)

NoSlot == 0
Source(fs, h, o, slot, used) == [fs |-> fs, h |-> h, o |-> o, slot |-> slot, used |-> used]

Room(k) == heap.made + k <= MaxObjects

BorrowedAliased(h, o) == Source(frames, h, o, NoSlot, 0)   \* faulty
Borrowed(h, o) ==
  IF o = None THEN Source(frames, h, None, NoSlot, 0)
              ELSE Source(frames, Cloned(h, o), Fresh(h), NoSlot, 0)

\* _transfer_cleanup_into_container: a name with an entry moves, any other is
\* cloned.  The alloca to zero is that of the entry.
FromName(n, h) ==
  IF Owned(n) THEN Source(Dropped(n), h, HeaderOf(n), EntryOf(n).slot, 0)
              ELSE Borrowed(h, HeaderOf(n))

\* Call: the chokepoint spills the result and registers an entry for it; the
\* sink takes the value as it is.
FromCall(h) ==
  Source(Registered(frames, Entry(slots + 1, ".rvalue.root")),
         Loaded(Made(h), slots + 1, Fresh(h)), Fresh(h), NoSlot, 1)

\* The sources other than `except`, evaluated on the heap h.
Sources(except, h) ==
  {FromName(n, h) : n \in {m \in (Bound \cap Rows) \ {except} :
                           "respend" \in Shapes \/ ~Respends(m)}}
  \cup (UNION {{Borrowed(h, o) : o \in Elements(a) \ {except}} : a \in Bound \cap Accs})
  \cup (IF "fresh" \in Shapes /\ slots < MaxSlots THEN {FromCall(h)} ELSE {})

\* _zero_transferred_slot, after the sink has the value.
NotSettled(src) == src.h   \* faulty
Settled(src) == IF src.slot = NoSlot THEN src.h ELSE Zeroed(src.h, src.slot)

-----------------------------------------------------------------------------
(* Statements. *)

\* A name may shadow another, but is bound once in a scope.
MayBind(n) == running /\ n \notin DOMAIN Last(scope)
Bind(n, s) ==
  scope' = [scope EXCEPT ![Len(scope)] =
              [m \in DOMAIN @ \cup {n} |-> IF m = n THEN s ELSE @[m]]]

\* mut n = tablets[N]T { ... }: the literal's slot is the variable's.
BindLiteral(n) ==
  /\ MayBind(n) /\ Room(1) /\ slots < MaxSlots
  /\ heap' = [Loaded(Made(heap), slots + 1, Fresh(heap)) EXCEPT
                !.accs = IF n \in Accs THEN @ \cup {Fresh(heap)} ELSE @]
  /\ frames' = Registered(frames, Entry(slots + 1, n))
  /\ slots' = slots + 1 /\ Bind(n, slots + 1)
  /\ UNCHANGED <<deep, running, out>>

\* mut n = f(): the spilled result and the variable both get an entry.
BindCall(n) ==
  /\ MayBind(n) /\ n \in Rows /\ "fresh" \in Shapes
  /\ Room(1) /\ slots + 1 < MaxSlots
  /\ LET src == FromCall(heap)
     IN  /\ heap' = Loaded(src.h, slots + 2, src.o)
         /\ frames' = Registered(src.fs, Entry(slots + 2, n))
  /\ slots' = slots + 2 /\ Bind(n, slots + 2)
  /\ UNCHANGED <<deep, running, out>>

\* a.push(src); the first push into a zero header makes the chunk chain.
Push(a) ==
  /\ running /\ a \in Bound \cap Accs /\ Room(2)
  /\ \E src \in Sources(None, heap) :
       LET h == Settled(src)
           into == IF HeaderOf(a) = None THEN Fresh(h) ELSE HeaderOf(a)
           chain == IF HeaderOf(a) = None THEN Loaded(Made(h), SlotOf(a), into) ELSE h
       IN  /\ heap' = [chain EXCEPT !.held[into] = @ \cup ({src.o} \ {None}),
                                    !.accs = @ \cup {into}]
           /\ frames' = src.fs /\ slots' = slots + src.used
  /\ UNCHANGED <<deep, scope, running, out>>

\* x = src: the old value is released once the new one is loaded, then the
\* new one is transferred or cloned into the slot.
ReleasedOld(h, s) == ReleaseSlots(h, {s})
Assign(x) ==
  /\ running /\ x \in Bound \cap Rows /\ Room(1)
  /\ \E src \in Sources(x, ReleasedOld(heap, SlotOf(x))) :
       /\ heap' = Loaded(Settled(src), SlotOf(x), src.o)
       /\ frames' = src.fs /\ slots' = slots + src.used
  /\ UNCHANGED <<deep, scope, running, out>>

\* a[i] = src, where a[i] is the row o.
AssignElement(a, o) ==
  /\ running /\ Room(1)
  /\ \E src \in Sources(o, Destroy(heap, {o})) :
       /\ heap' = [Settled(src) EXCEPT
                     !.held[HeaderOf(a)] = (@ \ {o}) \cup ({src.o} \ {None})]
       /\ frames' = src.fs /\ slots' = slots + src.used
  /\ UNCHANGED <<deep, scope, running, out>>

\* release n: the variable's header, and the innermost entry of that name.
ReleaseStmt(n) ==
  /\ running /\ n \in Bound
  /\ heap' = ReleaseSlots(heap, {SlotOf(n)})
  /\ frames' = IF Owned(n) THEN Dropped(n) ELSE frames
  /\ UNCHANGED <<deep, scope, slots, running, out>>

OpenBlock ==
  /\ running /\ Len(frames) < MaxFrames
  /\ frames' = Append(frames, << >>) /\ scope' = Append(scope, NoNames)
  /\ UNCHANGED <<deep, slots, heap, running, out>>

\* A block without a value: _emit_frame_cleanups, and its names are gone.
LeftOpen(names) == names   \* faulty
Left(names) == Front(names)
CloseBlock ==
  /\ running /\ Len(frames) > 2
  /\ heap' = ReleaseSlots(heap, SlotsIn(Last(frames)))
  /\ frames' = Front(frames) /\ scope' = Left(scope)
  /\ UNCHANGED <<deep, slots, running, out>>

-----------------------------------------------------------------------------
(* Leaving the function. *)

Return(h, o) ==
  running' = FALSE /\ heap' = h /\ out' = o /\ UNCHANGED <<deep, frames, scope, slots>>

\* A body ending in n: _transfer_ownership_out drops the entry of n if the
\* innermost frame has it; the body's own spill slot is transferred too.
KeptOut(n) == SlotsIn(Last(frames))   \* faulty
TransferredOut(n) ==
  IF HasEntry(Last(frames), n) THEN SlotsIn(WithoutEntry(Last(frames), n))
                               ELSE SlotsIn(Last(frames))
TailName(n) ==
  /\ running /\ Len(frames) = 2 /\ n \in Bound
  /\ Return(ReleaseSlots(heap, TransferredOut(n)), HeaderOf(n))

\* A body ending in a[i]: the row is cloned before the frame's releases.
TailElement(o) ==
  /\ running /\ Len(frames) = 2 /\ Room(1)
  /\ LET src == Borrowed(heap, o)
     IN Return(ReleaseSlots(src.h, SlotsIn(Last(frames))), src.o)

\* A body ending in a call: its spilled result is an entry of the body's frame.
TailCall ==
  /\ running /\ "fresh" \in Shapes /\ Len(frames) = 2
  /\ Room(1) /\ slots < MaxSlots
  /\ LET src == FromCall(heap)
     IN Return(ReleaseSlots(src.h, SlotsIn(Last(src.fs))), src.o)

\* yield n: every open frame's releases run, with no transfer before.
YieldName(n) ==
  /\ running /\ "yield" \in Shapes /\ n \in Rows \cap Bound
  /\ Return(ReleaseSlots(heap, AllSlots), HeaderOf(n))

\* A yield or a body end that returns no row.
YieldNothing ==
  /\ running
  /\ Return(ReleaseSlots(heap, AllSlots), None)

-----------------------------------------------------------------------------
Next ==
  \/ \E n \in Names : BindLiteral(n) \/ BindCall(n) \/ ReleaseStmt(n)
  \/ \E a \in Accs : Push(a)
  \/ \E x \in Rows : Assign(x)
  \/ \E a \in Bound \cap Accs : \E o \in Elements(a) : AssignElement(a, o) \/ TailElement(o)
  \/ OpenBlock \/ CloseBlock \/ YieldNothing \/ TailCall
  \/ \E n \in Names : TailName(n) \/ YieldName(n)

Spec == Init /\ [][Next]_vars

-----------------------------------------------------------------------------
(* Properties. *)

\* Bookkeeping and heap have their shapes, every entry names a live alloca.
TypeOK ==
  /\ frames \in Seq(Seq([slot : 1..slots, name : Names \cup {".rvalue.root"}]))
  /\ scope \in Seq(UNION {[D -> 1..slots] : D \in SUBSET Names}) /\ Len(scope) = Len(frames)
  /\ slots \in 0..MaxSlots /\ heap \in Heap
  /\ running \in BOOLEAN /\ out \in Headers

\* What a variable holds, shadowed or not, directly or through its elements, has
\* not been destroyed by the release of something else.
SinksIntact ==
  running => \A i \in DOMAIN scope : \A n \in DOMAIN scope[i] :
    LET o == heap.hdr[scope[i][n]]
    IN  o # None => ({o} \cup heap.held[o]) \cap heap.destroyed = {}

\* What the function returns is whole: no release on the way out reached it.
EscapedIntact == out \in Objects => out \notin heap.destroyed

\* "Every cleanup-bearing value ends up in exactly one of these storage sinks"
\* (tests/test_ownership.py): at most one alloca or chunk holds a header whose
\* release would destroy the value.
Holders(o) ==
  {<<"slot", s>> : s \in {t \in Slots : heap.hdr[t] = o}}
  \cup {<<"chunk", c>> : c \in {d \in Objects : o \in heap.held[d]}}
OneSink == running /\ deep => \A o \in Objects : Cardinality(Holders(o)) <= 1

\* No object is released a second time.
ReleasedOnce == heap.again = {}

\* No statement touches a variable that an inner one of its name shadows: "cleanup
\* eviction should also target the inner frame's entry" (expr.py 360-363).
ShadowedKept ==
  [][running' => \A i \in DOMAIN scope : \A n \in DOMAIN scope[i] :
       i < BindingFrame(n) => heap'.hdr[scope[i][n]] = heap.hdr[scope[i][n]]]_vars
=============================================================================
