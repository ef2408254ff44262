----------------------------- MODULE Containers -----------------------------
(***************************************************************************)
(* The growable containers of src/src/tuppu/codegen/{tablets,ivec,dvec}.py *)
(* as their generated helpers leave them in the collected heap, one step   *)
(* per allocation and per group of stores between two allocations, and the *)
(* statements of stmt.py that use them: push, indexing, assignment through *)
(* an lvalue, `for`, release, and the clone of a tablets.                  *)
(*                                                                         *)
(*   tablets  a chain of chunks of N slots, appended at the tail;          *)
(*   ivec     the same chain, and a buffer of slot addresses that doubles; *)
(*   dvec     one buffer of elements that doubles.                         *)
(*                                                                         *)
(* Elements are strings on the heap, so that a collection (GCHeap, here    *)
(* one step) shows what is rooted and traced; a string's text is the       *)
(* address it was first made at, which its clones keep.  The container `c` *)
(* is a variable, `d` the one its clone is built in; each behaviour is     *)
(* about one kind.  A definition marked "faulty" is the next one with a    *)
(* bug.                                                                    *)
(***************************************************************************)
EXTENDS Integers, Sequences, SequencesExt, FiniteSets

CONSTANTS
  Kinds,       \* the kinds of container a run covers
  Addr,        \* heap addresses: 1..k, the lowest free one is handed out
  N,           \* slots of a chunk (tablets[N]T, IVEC_CHUNK_K)
  INITIAL_CAP, \* capacity after the first growth
  MaxLen,      \* bound: elements of c
  CopyFrom,    \* bound: indices of elements pushed again
  GrowInside,  \* kinds that a push in the right-hand side of c[i] = value may grow
  MaxOpen,     \* bound, by kind: handles, loops, assignments and clones open at once
  MaxBlocks    \* bound, by kind: blocks allocated in a behaviour

ASSUME KindsAssumption == Kinds \subseteq {"tablets", "ivec", "dvec"}
ASSUME SizesAssumption ==
  {N, INITIAL_CAP} \subseteq Nat \ {0} /\ MaxLen \in Nat /\ Addr \subseteq Nat \ {0}
  /\ CopyFrom \subseteq Int
  /\ {MaxOpen, MaxBlocks} \subseteq [Kinds -> Nat]
ASSUME AddrAssumption ==   \* an address is left for every block allowed
  IsFiniteSet(Addr) /\ \A k \in Kinds : MaxBlocks[k] <= Cardinality(Addr)

VARIABLES
  kind,   \* the kind of c
  heap,   \* address -> block
  hdr,    \* headers: c, and d while a clone exists
  x,      \* a variable that owns a string, or NULL
  spill,  \* the statement's .rvalue.root slots
  wedge,  \* a variable that holds a handle
  view,   \* the for loop in progress: its copy of the header
  lval,   \* the address an assignment stores to once its right side is done
  push,   \* the push in progress
  clone   \* the clone in progress

vars == <<kind, heap, hdr, x, spill, wedge, view, lval, push, clone>>
statement == <<wedge, view, lval>>

NULL == 0
NoSlot == <<NULL, 0>>
EmptyHeader == [head |-> NULL, tail |-> NULL, buf |-> NULL, len |-> 0, cap |-> 0]
FreeBlock == [is |-> "free", items |-> << >>, used |-> 0, next |-> NULL, text |-> NULL]
Idle == [pc |-> "idle", to |-> "c", val |-> NULL, moved |-> FALSE, slot |-> NoSlot]
NoClone == [pc |-> "idle", cur |-> NULL, i |-> 0, made |-> FALSE]
NoLval == [on |-> FALSE, slot |-> NoSlot, i |-> 0, moved |-> FALSE, gone |-> FALSE]
NoView == [on |-> FALSE, h |-> EmptyHeader, i |-> 0, grown |-> FALSE, gone |-> FALSE]
NoWedge == [slot |-> NoSlot, i |-> 0, gone |-> FALSE]

Init ==
  /\ kind \in Kinds
  /\ heap = [a \in Addr |-> FreeBlock]
  /\ hdr = [c |-> EmptyHeader, d |-> EmptyHeader]
  /\ x = NULL /\ spill = {} /\ wedge = NoWedge /\ view = NoView
  /\ lval = NoLval /\ push = Idle /\ clone = NoClone

-----------------------------------------------------------------------------
(* Blocks and what a descriptor finds in them. *)

Swept == [FreeBlock EXCEPT !.is = "swept"]
String(t) == [FreeBlock EXCEPT !.is = "string", !.text = t]
Chunk == [FreeBlock EXCEPT !.is = "chunk", !.items = [k \in 1..N |-> NULL]]

\* An ivec's buffer holds slot addresses and is allocated as leaf bytes; a
\* dvec's holds the elements and has a trace function.
Buffer(cap) ==
  IF kind = "ivec"
  THEN [FreeBlock EXCEPT !.is = "bytes", !.items = [k \in 1..cap |-> NoSlot]]
  ELSE [FreeBlock EXCEPT !.is = "buffer", !.items = [k \in 1..cap |-> NULL]]

\* The buffer trace function covers all cap slots, the chunk descriptor all N.
Traced(a) ==
  IF heap[a].is \in {"chunk", "buffer"} THEN ToSet(heap[a].items) \cup {heap[a].next} ELSE {}

\* _type_ptr_offsets of the three headers.
HeaderPtrs(h) ==
  CASE kind = "tablets" -> {h.head, h.tail}
    [] kind = "ivec" -> {h.buf, h.head, h.tail}
    [] kind = "dvec" -> {h.buf}

\* What registered slots hold.  The address in lval and the arguments of a
\* helper are in registers.
SpilledNone == {}   \* faulty
Spilled == spill

Roots ==
  HeaderPtrs(hdr.c) \cup HeaderPtrs(hdr.d) \cup HeaderPtrs(view.h)
    \cup {x, wedge.slot[1]} \cup Spilled

\* A chain has at most MaxLen chunks, and an element lies one step further.
Depth == MaxLen + 1

Reached ==
  LET spread[n \in 0..Depth] ==
        IF n = 0 THEN Roots \ {NULL}
        ELSE LET r == spread[n-1] IN r \cup ((UNION {Traced(a) : a \in r}) \ {NULL})
  IN  spread[Depth]

\* Every allocation collects first, as under gc_stress: what survives that
\* survives fewer collections.  Addresses are not used twice, so that a block
\* swept too early shows.
Unused == {a \in Addr : heap[a].is = "free"}
CanAllocate == Cardinality(Addr \ Unused) < MaxBlocks[kind]
Fresh == Min(Unused)
Collected ==
  LET kept == Reached \cup Unused IN [a \in Addr |-> IF a \in kept THEN heap[a] ELSE Swept]

Allocated(b) == CanAllocate /\ heap' = [Collected EXCEPT ![Fresh] = b]

-----------------------------------------------------------------------------
(* Addresses of elements. *)

ItemAt(s) == heap[s[1]].items[s[2]]

\* get and get_addr: tablets walk the chain, ivec goes through its buffer,
\* dvec multiplies.  Index 0 is the first element.
WalkOff(h, i) ==   \* faulty
  LET walk[n \in 0..i] ==
        IF n = 0 THEN [at |-> h.head, left |-> i]
        ELSE LET p == walk[n-1]
             IN  IF p.left > N THEN [at |-> heap[p.at].next, left |-> p.left - N] ELSE p
  IN  <<walk[i].at, walk[i].left + 1>>
Walk(h, i) ==
  LET walk[n \in 0..i] ==
        IF n = 0 THEN [at |-> h.head, left |-> i]
        ELSE LET p == walk[n-1]
             IN  IF p.left >= N THEN [at |-> heap[p.at].next, left |-> p.left - N] ELSE p
  IN  <<walk[i].at, walk[i].left + 1>>

BufferedSlot(h, i) == heap[h.buf].items[i + 1]
InlineSlot(h, i) == <<h.buf, i + 1>>

SlotAt(h, i) ==
  CASE kind = "tablets" -> Walk(h, i)
    [] kind = "ivec" -> BufferedSlot(h, i)
    [] kind = "dvec" -> InlineSlot(h, i)

InBounds(h, i) == i >= 0 /\ i < h.len

Indices(h) == 0..(h.len - 1)
Indexed == -1..(MaxLen + 1)   \* the values of index expressions

-----------------------------------------------------------------------------
(* push: the helper's steps.  push.to names the header it works on. *)

Header == hdr[push.to]
Stored(h) == hdr' = [hdr EXCEPT ![push.to] = h]
Goto(pc) == push' = [push EXCEPT !.pc = pc]

TailFull(h) == h.tail = NULL \/ heap[h.tail].used = N

\* Where the helper goes after the buffer is large enough.
AfterGrow(h) == IF kind # "dvec" /\ TailFull(h) THEN "chunk" ELSE "insert"

Entry(h) == IF kind # "tablets" /\ h.len = h.cap THEN "grow" ELSE AfterGrow(h)

\* An argument in `val`, its slot rooted by the chokepoint; then the call.
Call(to, val, moved) ==
  push' = [pc |-> Entry(hdr[to]), to |-> to, val |-> val, moved |-> moved, slot |-> NoSlot]

\* _emit_ivec_grow and _emit_dvec_grow: allocate, copy the old capacity, repoint.
NewCapSame(h) == IF h.cap = 0 THEN INITIAL_CAP ELSE h.cap   \* faulty
NewCap(h) == IF h.cap = 0 THEN INITIAL_CAP ELSE 2 * h.cap

CopiedShort(h, cap) ==   \* faulty
  [Buffer(cap) EXCEPT !.items = [k \in 1..cap |-> IF k < h.cap THEN heap[h.buf].items[k] ELSE @[k]]]
Copied(h, cap) ==
  [Buffer(cap) EXCEPT !.items = [k \in 1..cap |-> IF k <= h.cap THEN heap[h.buf].items[k] ELSE @[k]]]

Grow ==
  /\ push.pc = "grow"
  /\ Allocated(Copied(Header, NewCap(Header)))
  /\ Stored([Header EXCEPT !.buf = Fresh, !.cap = NewCap(Header)])
  /\ Goto(AfterGrow(Header))
  /\ lval' = [lval EXCEPT !.moved = lval.on /\ (@ \/ kind = "dvec")]
  /\ view' = [view EXCEPT !.grown = view.on /\ (@ \/ kind = "dvec")]
  /\ UNCHANGED <<kind, x, spill, wedge, clone>>

\* A chunk is linked behind the old tail, or becomes head and tail.
NewChunk ==
  /\ push.pc = "chunk"
  /\ LET old == Header.tail IN
     IF old = NULL
     THEN /\ Allocated(Chunk)
          /\ Stored([Header EXCEPT !.head = Fresh, !.tail = Fresh])
     ELSE /\ CanAllocate /\ heap' = [Collected EXCEPT ![Fresh] = Chunk, ![old].next = Fresh]
          /\ Stored([Header EXCEPT !.tail = Fresh])
  /\ Goto("insert")
  /\ UNCHANGED <<kind, x, spill, statement, clone>>

InsertIntoHead(h) == <<h.head, heap[h.tail].used + 1>>   \* faulty
InsertInto(h) == <<h.tail, heap[h.tail].used + 1>>

Inserted(s) ==
  /\ push' = [push EXCEPT !.pc = "return", !.slot = s]
  /\ Stored([Header EXCEPT !.len = @ + 1])
  /\ UNCHANGED <<kind, x, spill, statement, clone>>

\* tablets and ivec fill the tail chunk; ivec mirrors the slot in its buffer.
InsertChunked ==
  /\ push.pc = "insert" /\ kind # "dvec"
  /\ LET s == InsertInto(Header)
         filled == [heap EXCEPT ![s[1]].items[s[2]] = push.val, ![s[1]].used = @ + 1]
     IN  /\ heap' = IF kind = "ivec" THEN [filled EXCEPT ![Header.buf].items[Header.len + 1] = s] ELSE filled
         /\ Inserted(s)

\* dvec stores at buf + len * sizeof(T).
InsertInline ==
  /\ push.pc = "insert" /\ kind = "dvec"
  /\ heap' = [heap EXCEPT ![Header.buf].items[Header.len + 1] = push.val]
  /\ Inserted(<<Header.buf, Header.len + 1>>)

-----------------------------------------------------------------------------
(* Statements of the program. *)

Running == push.pc = "idle" /\ clone.pc = "idle"

MayOpen ==
  Cardinality({f \in 1..4 : <<wedge # NoWedge, view.on, lval.on, clone # NoClone>>[f]}) < MaxOpen[kind]

\* A string is made into the variable x.
NewString ==
  /\ Running /\ x = NULL
  /\ Allocated(String(Fresh)) /\ x' = Fresh
  /\ UNCHANGED <<kind, hdr, spill, statement, push, clone>>

\* A push under an open assignment grows the buffer only of a kind in GrowInside.
MayPush ==
  /\ Running /\ hdr.c.len < MaxLen
  /\ lval.on /\ Entry(hdr.c) = "grow" => kind \in GrowInside

\* c.push(x): the Ident's value is spilled; tablets zero x after the push,
\* ivec and dvec before it.
PushMoved ==
  /\ MayPush /\ x # NULL
  /\ spill' = {x} /\ Call("c", x, TRUE)
  /\ x' = IF kind = "tablets" THEN x ELSE NULL
  /\ UNCHANGED <<kind, heap, hdr, statement, clone>>

\* c.push(c[i]): the element is a borrow and cloned.
PushCopy(i) ==
  /\ MayPush /\ InBounds(hdr.c, i)
  /\ LET e == ItemAt(SlotAt(hdr.c, i)) IN
     /\ Allocated(String(heap[e].text))
     /\ spill' = {e, Fresh}
  /\ Call("c", Fresh, FALSE)
  /\ UNCHANGED <<kind, hdr, x, statement, clone>>

\* The push returns; the program may keep the handle.  dvec returns none.
Return(keep) ==
  /\ push.pc = "return" /\ push.to = "c"
  /\ x' = IF push.moved /\ kind = "tablets" THEN NULL ELSE x
  /\ spill' = {} /\ push' = Idle
  /\ keep => kind # "dvec" /\ (wedge # NoWedge \/ MayOpen)
  /\ wedge' = IF keep THEN [slot |-> push.slot, i |-> hdr.c.len - 1, gone |-> FALSE] ELSE wedge
  /\ UNCHANGED <<kind, heap, hdr, view, lval, clone>>

\* The handle's scope ends.
Forget ==
  /\ Running /\ wedge # NoWedge /\ wedge' = NoWedge
  /\ UNCHANGED <<kind, heap, hdr, x, spill, view, lval, push, clone>>

\* c[i] = value: the address first, then the right-hand side, which may run
\* statements of its own, then the store.
Resolve(i) ==
  /\ Running /\ ~lval.on /\ MayOpen /\ InBounds(hdr.c, i)
  /\ lval' = [on |-> TRUE, slot |-> SlotAt(hdr.c, i), i |-> i, moved |-> FALSE, gone |-> FALSE]
  /\ UNCHANGED <<kind, heap, hdr, x, spill, wedge, view, push, clone>>

\* An address that moved under the store may be anything by now: only the
\* case that its block is still as it was leaves a state to go on from.
Store ==
  /\ Running /\ lval.on /\ x # NULL
  /\ heap[lval.slot[1]].is \in {"chunk", "buffer"} /\ lval.slot[2] \in DOMAIN heap[lval.slot[1]].items
  /\ heap' = [heap EXCEPT ![lval.slot[1]].items[lval.slot[2]] = x]
  /\ x' = NULL /\ lval' = NoLval
  /\ UNCHANGED <<kind, hdr, spill, wedge, view, push, clone>>

\* for e in c: the header is copied, its length read once.
ForBegin ==
  /\ Running /\ ~view.on /\ MayOpen
  /\ view' = [NoView EXCEPT !.on = TRUE, !.h = hdr.c]
  /\ UNCHANGED <<kind, heap, hdr, x, spill, wedge, lval, push, clone>>

ForNext ==
  /\ Running /\ view.on /\ view.i < view.h.len
  /\ view' = [view EXCEPT !.i = @ + 1]
  /\ UNCHANGED <<kind, heap, hdr, x, spill, wedge, lval, push, clone>>

ForEnd ==
  /\ Running /\ view.on /\ view.i = view.h.len
  /\ view' = NoView
  /\ UNCHANGED <<kind, heap, hdr, x, spill, wedge, lval, push, clone>>

\* release c, or the end of its scope and a new one: for strings the walk
\* frees nothing, and the header is zeroed.  ivec and dvec just end.
Release ==
  /\ Running
  /\ hdr' = [hdr EXCEPT !.c = EmptyHeader]
  /\ lval' = [lval EXCEPT !.moved = lval.on, !.gone = lval.on]
  /\ view' = [view EXCEPT !.gone = view.on]
  /\ wedge' = [wedge EXCEPT !.gone = wedge # NoWedge]
  /\ UNCHANGED <<kind, heap, x, spill, push, clone>>

-----------------------------------------------------------------------------
(* d = copy c for tablets: __tuppu_tbls_clone, chunk by chunk, each element  *)
(* cloned, spilled, pushed.                                                  *)

CloneBegin ==
  /\ Running /\ kind = "tablets" /\ clone = NoClone /\ MayOpen
  /\ hdr' = [hdr EXCEPT !.d = EmptyHeader]
  /\ clone' = [pc |-> "element", cur |-> hdr.c.head, i |-> 0, made |-> FALSE]
  /\ UNCHANGED <<kind, heap, x, spill, statement, push>>

CloneElementShared ==   \* faulty
  /\ clone.pc = "element" /\ push.pc = "idle" /\ clone.cur # NULL
  /\ clone.i < heap[clone.cur].used
  /\ spill' = {} /\ Call("d", heap[clone.cur].items[clone.i + 1], FALSE)
  /\ UNCHANGED <<kind, heap, hdr, x, statement, clone>>
CloneElement ==
  /\ clone.pc = "element" /\ push.pc = "idle" /\ clone.cur # NULL
  /\ clone.i < heap[clone.cur].used
  /\ LET e == heap[clone.cur].items[clone.i + 1]
     IN  Allocated(String(heap[e].text))
  /\ spill' = {Fresh} /\ Call("d", Fresh, FALSE)
  /\ UNCHANGED <<kind, hdr, x, statement, clone>>

CloneReturn ==
  /\ push.pc = "return" /\ push.to = "d"
  /\ clone' = [clone EXCEPT !.i = @ + 1]
  /\ spill' = {} /\ push' = Idle
  /\ UNCHANGED <<kind, heap, hdr, x, statement>>

CloneAdvance ==
  /\ clone.pc = "element" /\ push.pc = "idle" /\ clone.cur # NULL
  /\ clone.i = heap[clone.cur].used
  /\ clone' = [clone EXCEPT !.cur = heap[clone.cur].next, !.i = 0]
  /\ UNCHANGED <<kind, heap, hdr, x, spill, statement, push>>

CloneEnd ==
  /\ clone.pc = "element" /\ push.pc = "idle" /\ clone.cur = NULL
  /\ clone' = [NoClone EXCEPT !.made = TRUE]
  /\ UNCHANGED <<kind, heap, hdr, x, spill, statement, push>>

\* The clone's scope ends.
CloneDrop ==
  /\ Running /\ clone.made
  /\ hdr' = [hdr EXCEPT !.d = EmptyHeader] /\ clone' = NoClone
  /\ UNCHANGED <<kind, heap, x, spill, statement, push>>

-----------------------------------------------------------------------------
Next ==
  \/ Grow \/ NewChunk \/ InsertChunked \/ InsertInline \/ NewString \/ PushMoved
  \/ \E i \in Indexed : Resolve(i)
  \/ \E i \in CopyFrom : PushCopy(i)
  \/ \E keep \in BOOLEAN : Return(keep)
  \/ Store \/ ForBegin \/ ForNext \/ ForEnd \/ Release \/ Forget
  \/ CloneBegin \/ CloneElement \/ CloneReturn \/ CloneAdvance \/ CloneEnd \/ CloneDrop

Spec == Init /\ [][Next]_vars

-----------------------------------------------------------------------------
(* Properties. *)

Elements(h) == [i \in 1..h.len |-> ItemAt(SlotAt(h, i - 1))]
Texts(h) == [i \in 1..h.len |-> heap[Elements(h)[i]].text]

\* The slots in the order they were filled: the chain's used slots, or the
\* first len of the buffer.
Chain(h) ==
  LET chain[n \in 0..MaxLen] ==
        IF n = 0 THEN IF h.head = NULL THEN << >> ELSE <<h.head>>
        ELSE LET p == chain[n-1]
             IN  IF p = << >> \/ heap[Last(p)].next = NULL THEN p ELSE Append(p, heap[Last(p)].next)
  IN  chain[MaxLen]

Filled(h) ==
  IF kind = "dvec" THEN [k \in 1..h.len |-> <<h.buf, k>>]
  ELSE LET chain == Chain(h)
       IN  FlattenSeq([n \in 1..Len(chain) |-> [k \in 1..heap[chain[n]].used |-> <<chain[n], k>>]])

TypeOK ==
  /\ kind \in Kinds
  /\ \A a \in Addr : heap[a].is \in {"free", "swept", "string", "chunk", "bytes", "buffer"}
  /\ \A n \in {"c", "d"} : hdr[n].len \in 0..MaxLen /\ (kind # "tablets" => hdr[n].len <= hdr[n].cap)
  /\ x \in Addr \cup {NULL} /\ spill \subseteq Addr
  /\ push.pc \in {"idle", "grow", "chunk", "insert", "return"}
  /\ clone.pc \in {"idle", "element"}

Alive(a) == heap[a].is \notin {"free", "swept"}

\* Nothing the program can still use has been swept: headers, the loop's copy,
\* elements, the value a push holds in a register while it allocates, and the
\* chunk a handle points into after its container is gone (tablets.py 228-318,
\* ivec.py 162-327, dvec.py 178-288).
NothingSwept ==
  /\ \A h \in {hdr.c, hdr.d, view.h} :
       /\ \A p \in HeaderPtrs(h) \ {NULL} : Alive(p)
       /\ \A i \in Indices(h) : Alive(ItemAt(SlotAt(h, i)))
  /\ push.pc # "idle" => Alive(push.val)
  /\ wedge.slot # NoSlot => Alive(wedge.slot[1]) /\ Alive(ItemAt(wedge.slot))

\* Index i leads to the i-th slot filled, at and across chunk boundaries and
\* whatever the buffer has been through: get, get_addr and push agree.
IndexFollowsPush ==
  push.pc = "idle" =>
    \A h \in {hdr.c, hdr.d} :
      LET filled == Filled(h)
      IN  Len(filled) = h.len /\ \A i \in Indices(h) : SlotAt(h, i) = filled[i + 1]

\* What a for loop reads is what the container holds now, pushes and
\* assignments in its body included, unless a dvec has grown or the container
\* is gone since the loop began (stmt.py 112-180).
LoopSeesContainer ==
  view.on /\ ~view.gone /\ ~view.grown =>
    \A i \in Indices(view.h) : InBounds(hdr.c, i) /\ SlotAt(view.h, i) = SlotAt(hdr.c, i)

\* An address in use stays the address of its element, through every growth: a
\* handle as long as its container lives (ivec.py 162-176), and the target of
\* an assignment while its right-hand side runs, unless that releases the
\* container (stmt.py 1294-1300, dvec.py 315-321).
AddressesStable ==
  /\ wedge.slot # NoSlot /\ ~wedge.gone =>
       InBounds(hdr.c, wedge.i) /\ SlotAt(hdr.c, wedge.i) = wedge.slot
  /\ lval.on /\ ~lval.gone =>
       InBounds(hdr.c, lval.i) /\ SlotAt(hdr.c, lval.i) = lval.slot

\* A clone has the contents its source has when it is finished, and shares no
\* slot and no element with it then or later (tablets.py 522-650).
CloneIsACopy ==
  [][/\ clone'.made => ToSet(Filled(hdr.d)') \cap ToSet(Filled(hdr.c)') = {}
     /\ clone'.made => ToSet(Elements(hdr.d)') \cap ToSet(Elements(hdr.c)') = {}
     /\ CloneEnd => Texts(hdr.d) = Texts(hdr.c)]_vars

\* Whatever happens inside, the program sees a sequence: pushes append, stores
\* replace, nothing else changes it.
Sequence == INSTANCE GrowingSequence WITH seq <- Elements(hdr.c)
ImplementsSequence == Sequence!Spec
=============================================================================
