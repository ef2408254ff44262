------------------------------- MODULE Values -------------------------------
(***************************************************************************)
(* What the collector is told about a value: the descriptors and trace     *)
(* functions that src/src/tuppu/codegen/__init__.py builds for a type, the *)
(* release and clone functions of stmt.py, and the slots a binding, its    *)
(* initialiser and a chunk give a value.                                   *)
(*                                                                         *)
(* A type is a leaf, a struct of types or a seal of variants.  A place is  *)
(* memory: a function from byte offsets to the words stored there, zero    *)
(* elsewhere.  Each heap pointer of the value leads to a block of its own, *)
(* named by where it was first stored, and a collection leaves the blocks  *)
(* that the registered places mark.  Every allocation collects.            *)
(*                                                                         *)
(* Homes, AssignedTypes and ReleasedVariants say which programs a run      *)
(* covers: the properties fail in some, which Values_*.cfg show one by one.*)
(* A definition marked "faulty" is the next one with a bug.                *)
(***************************************************************************)
EXTENDS Integers, Sequences, SequencesExt, FiniteSets, Functions

CONSTANTS
  Homes,            \* the types a run covers, each with a place
  AssignedTypes,    \* those whose variables are assigned to, part by part
  ReleasedVariants, \* the variants a seal may have when it is released
  Variants,         \* choices of a variant, by depth of nesting
  N                 \* slots of a chunk

ASSUME NAssumption == N \in Nat \ {0}
ASSUME ReleasedAssumption == ReleasedVariants \subseteq Nat

VARIABLES
  ty,     \* the type of the value
  place,  \* where the value lives: a variable's "slot" or a "chunk"
  phase,  \* what has been done with it
  parts,  \* what was stored there first
  v,      \* the place
  spill,  \* its initialiser's .rvalue.root slot
  set,    \* offsets assigned since
  w,      \* the clone in progress, or done
  todo,   \* what is left to clone
  swept   \* blocks the collector has freed

vars == <<ty, place, phase, parts, v, spill, set, w, todo, swept>>

Heap == {"str", "tbl", "iv", "dv"}   \* LLVM structs with pointers to block starts
Holding == Heap \cup {"wedge"}
IsStruct(T) == T.k = "struct"
IsSeal(T) == T.k = "seal"

Zero == <<"zero">>
Number == <<"number">>
Word(mem, o) == IF o \in DOMAIN mem THEN mem[o] ELSE Zero
Blank == [o \in {} |-> Zero]
With(mem, more) == [o \in DOMAIN mem \cup DOMAIN more |-> IF o \in DOMAIN more THEN more[o] ELSE mem[o]]

-----------------------------------------------------------------------------
(* Layout: _size_of and _align_of of seals.py.  A seal is a tag byte and an  *)
(* array of i64 as wide as its widest variant.                               *)

LeafSize == [str |-> 24, tbl |-> 24, iv |-> 40, dv |-> 24, int |-> 8, bool |-> 1, wedge |-> 8]
Payload == 8

RECURSIVE AlignOf(_), SizeOf(_)

AlignOf(T) ==
  CASE IsSeal(T) -> 8
    [] IsStruct(T) -> LET all == {AlignOf(T.fields[i]) : i \in DOMAIN T.fields}
                      IN  CHOOSE a \in all : \A b \in all : b <= a
    [] OTHER -> IF T.k = "bool" THEN 1 ELSE 8

Padded(n, a) == ((n + a - 1) \div a) * a

\* Where each field starts, and after them the end.
Starts(fields) ==
  LET at[i \in 1..Len(fields) + 1] ==
        LET free == IF i = 1 THEN 0 ELSE at[i-1] + SizeOf(fields[i-1])
        IN  IF i > Len(fields) THEN free ELSE Padded(free, AlignOf(fields[i]))
  IN  at
End(fields) == Starts(fields)[Len(fields) + 1]

SizeOfFirst(T) ==   \* faulty
  IF IsSeal(T) THEN Payload + Padded(End(T.variants[1]), 8)
  ELSE IF IsStruct(T) THEN Padded(End(T.fields), AlignOf(T)) ELSE LeafSize[T.k]
SizeOf(T) ==
  CASE IsStruct(T) -> Padded(End(T.fields), AlignOf(T))
    [] IsSeal(T) -> LET ends == {End(T.variants[i]) : i \in DOMAIN T.variants}
                    IN  Payload + Padded(CHOOSE a \in ends : \A b \in ends : b <= a, 8)
    [] OTHER -> LeafSize[T.k]

\* LLVM lays the value out by the same rule, but by alignments of its own.
TrueStarts(fields) ==
  LET at[i \in 1..Len(fields)] ==
        IF i = 1 THEN 0 ELSE Padded(at[i-1] + SizeOf(fields[i-1]), AlignOf(fields[i]))
  IN  at

-----------------------------------------------------------------------------
(* Predicates on types. *)

RECURSIVE NeedsCleanup(_), StructContainsSeal(_), ContainsWedge(_), PtrOffsets(_)

\* _struct_needs_cleanup, _seal_needs_cleanup: ivec and dvec do not count.
NeedsCleanup(T) ==
  \/ T.k \in {"str", "tbl"}
  \/ IsStruct(T) /\ \E i \in DOMAIN T.fields : NeedsCleanup(T.fields[i])
  \/ IsSeal(T) /\ \E i \in DOMAIN T.variants : \E j \in DOMAIN T.variants[i] : NeedsCleanup(T.variants[i][j])

\* Only seals that need cleanup count.
StructContainsSeal(T) ==
  \/ IsSeal(T) /\ NeedsCleanup(T)
  \/ IsStruct(T) /\ \E i \in DOMAIN T.fields : StructContainsSeal(T.fields[i])

ContainsWedgeNever(T) == FALSE   \* faulty
ContainsWedge(T) ==
  \/ IsStruct(T) /\ \E i \in DOMAIN T.fields : T.fields[i].k = "wedge" \/ ContainsWedge(T.fields[i])
  \/ IsSeal(T) /\ \E i \in DOMAIN T.variants : \E j \in DOMAIN T.variants[i] :
                    T.variants[i][j].k = "wedge" \/ ContainsWedge(T.variants[i][j])

\* Offsets of pointers to block starts that need no tag to be found.
PtrOffsets(T) ==
  CASE T.k \in {"str", "dv"} -> {0}
    [] T.k = "iv" -> {0, 24, 32}
    [] T.k = "tbl" -> {0, 8}
    [] IsStruct(T) -> UNION {{Starts(T.fields)[i] + o : o \in PtrOffsets(T.fields[i])} : i \in DOMAIN T.fields}
    [] OTHER -> {}

\* _type_desc_key: whether a slot of the type has a descriptor.
HasDesc(T) ==
  \/ T.k \in Heap
  \/ T.k = "wedge"   \* the shared wedge descriptor, for bindings
  \/ (IsStruct(T) \/ IsSeal(T)) /\ (NeedsCleanup(T) \/ ContainsWedge(T))

-----------------------------------------------------------------------------
(* Tracing: the offsets whose words are passed to mark_ptr ("start") and to  *)
(* mark_wedge ("inside").                                                    *)

Flat(T, base) == {<<base + o, "start">> : o \in PtrOffsets(T)}
WedgeAsStart(base) == {<<base, "start">>}   \* faulty
WedgeMarks(base) == {<<base, "inside">>}

RECURSIVE Marks(_, _, _), SealMarks(_, _, _), StructMarks(_, _, _)

\* A released or zeroed place has tag 0; a cleared slot has one no variant has.
Tag(mem, o) == IF Word(mem, o) = Zero THEN 0 ELSE Word(mem, o)[2]
EmptyTag == 255   \* GC_SEAL_EMPTY_TAG

SealMarks(T, mem, base) ==
  LET i == Tag(mem, base) + 1
  IN  IF i \notin DOMAIN T.variants THEN {}
      ELSE UNION {Marks(T.variants[i][j], mem, base + Payload + Starts(T.variants[i])[j]) :
                    j \in DOMAIN T.variants[i]}

StructMarks(T, mem, base) ==
  UNION {Marks(T.fields[i], mem, base + Starts(T.fields)[i]) : i \in DOMAIN T.fields}

\* _emit_trace_mark_calls: a part of something with a trace function.
Marks(T, mem, base) ==
  CASE T.k = "wedge" -> WedgeMarks(base)
    [] IsSeal(T) -> IF NeedsCleanup(T) THEN SealMarks(T, mem, base) ELSE {}
    [] IsStruct(T) /\ (StructContainsSeal(T) \/ ContainsWedge(T)) -> StructMarks(T, mem, base)
    [] OTHER -> Flat(T, base)

\* _get_type_desc, of a whole slot.
SlotMarks(T, mem) ==
  CASE ~HasDesc(T) -> {}
    [] T.k = "wedge" -> WedgeMarks(0)
    [] IsSeal(T) -> SealMarks(T, mem, 0)
    [] IsStruct(T) /\ (StructContainsSeal(T) \/ ContainsWedge(T)) -> StructMarks(T, mem, 0)
    [] OTHER -> Flat(T, 0)

\* _get_chunk_type_desc: N elements, `used`, `next`.
Next8(T) == Padded(N * SizeOf(T), 8) + 8
ChunkMarks(T, mem) ==
  {<<Next8(T), "start">>} \cup
  UNION {IF T.k = "wedge" \/ StructContainsSeal(T) \/ ContainsWedge(T)
         THEN Marks(T, mem, i * SizeOf(T))
         ELSE Flat(T, i * SizeOf(T)) : i \in 0..N-1}

\* _maybe_register_cleanup, and _register_wedge_root for a wedge.
BindingRooted(T) == T.k \in Holding \/ NeedsCleanup(T)

Base == IF place = "chunk" THEN (N - 1) * SizeOf(ty) ELSE 0

\* The reads of a collection: <<place, offset, how>>.
Reads(mem, marks) == {<<Word(mem, m[1]), m[2]>> : m \in marks}
RootReads ==
  IF place = "chunk" THEN Reads(v, ChunkMarks(ty, v))
  ELSE Reads(spill, SlotMarks(ty, spill)) \cup IF BindingRooted(ty) THEN Reads(v, SlotMarks(ty, v)) ELSE {}

\* The clone functions push their dst before the first field.
CloneUnrooted == FALSE   \* faulty
CloneRooted == TRUE
CloneReads == IF phase \in {"cloning", "cloned"} /\ CloneRooted THEN Reads(w, SlotMarks(ty, w)) ELSE {}

\* mark_ptr takes the start of a block, mark_wedge any address in one.
Marked(reads) == {r[1][2] : r \in {q \in reads : q[1][1] = q[2] \/ q[1][1] = "start"}}

Blocks(mem) == {mem[o][2] : o \in {p \in DOMAIN mem : mem[p][1] \in {"start", "inside"}}}
Collected == swept \cup ((Blocks(v) \cup Blocks(spill) \cup Blocks(w)) \ Marked(RootReads \cup CloneReads))

-----------------------------------------------------------------------------
(* Values. *)

Leaves(k) ==
  CASE k = "str" -> [o \in {0, 8, 16} |-> IF o = 0 THEN "start" ELSE "number"]
    [] k = "tbl" -> [o \in {0, 8, 16} |-> IF o = 16 THEN "number" ELSE "start"]
    [] k = "iv" -> [o \in {0, 8, 16, 24, 32} |-> IF o \in {8, 16} THEN "number" ELSE "start"]
    [] k = "dv" -> [o \in {0, 8, 16} |-> IF o = 0 THEN "start" ELSE "number"]
    [] k = "wedge" -> [o \in {0} |-> "inside"]
    [] OTHER -> [o \in {0} |-> "number"]

\* A leaf of blocks named by `who` and their place; head and tail share one.
NewLeaf(k, who, base) ==
  [o \in {base + p : p \in DOMAIN Leaves(k)} |->
     LET is == Leaves(k)[o - base]
     IN  IF is = "number" THEN Number ELSE <<is, <<who, IF k = "tbl" THEN base ELSE o>> >>]



\* The parts of a value as LLVM lays them out: tags and leaves in order, each
\* with the fact that it lies in a seal, below the top, that owns nothing.
RECURSIVE Parts(_, _, _, _, _)
Parts(T, pick, base, depth, hid) ==
  LET hidden == hid \/ (depth > 0 /\ IsSeal(T) /\ ~NeedsCleanup(T))
      all(fields, start) ==
        FlattenSeq([i \in DOMAIN fields |->
          Parts(fields[i], pick, start + TrueStarts(fields)[i], depth + 1, hidden)])
  IN  CASE IsStruct(T) -> all(T.fields, base)
        [] IsSeal(T) -> <<[at |-> base, k |-> "tag", tag |-> pick[depth], hidden |-> hidden]>>
                        \o all(T.variants[pick[depth] + 1], base + Payload)
        [] OTHER -> <<[at |-> base, k |-> T.k, tag |-> 0, hidden |-> hidden]>>

Stored(p, who) ==
  IF p.k = "tag" THEN [o \in {p.at} |-> <<"tag", p.tag>>] ELSE NewLeaf(p.k, who, p.at)

Value(ps, who) == FoldLeft(LAMBDA mem, p : With(mem, Stored(p, who)), Blank, ps)

\* The words of one part.
Words(mem, p) == [o \in DOMAIN Stored(p, "v") |-> Word(mem, o)]

-----------------------------------------------------------------------------
(* What is done with a value. *)

Init ==
  /\ \E h \in Homes : ty = h[1] /\ place = h[2]
  /\ phase = "zero" /\ parts = << >> /\ set = {} /\ todo = << >> /\ swept = {}
  /\ v = Blank /\ spill = Blank /\ w = Blank

\* An initialiser's value: spilled by _force_root_cleanup_value, then stored
\* in the variable, or pushed into a chunk that is linked to another.
Make(pick) ==
  /\ phase = "zero"
  /\ LET depth == IF place = "chunk" THEN 1 ELSE 0
         ps == Parts(ty, pick, Base, depth, FALSE)
     IN  /\ parts' = ps
         /\ v' = IF place = "slot" THEN Value(ps, "v")
                 ELSE With(Value(ps, "v"), [o \in {Next8(ty)} |-> <<"start", <<"v", o>> >>])
         /\ spill' = IF place = "slot" /\ HasDesc(ty) THEN Value(ps, "v") ELSE Blank
  /\ phase' = "live"
  /\ UNCHANGED <<ty, place, set, w, todo, swept>>

\* v.f = x in an inner block: the new leaf is in v alone once the block ends.
Assign(p) ==
  /\ phase = "live" /\ p.k \in Holding /\ p.at \notin set
  /\ place = "slot" => ty \in AssignedTypes
  /\ v' = With(v, Stored(p, "n"))
  /\ set' = set \cup {p.at}
  /\ UNCHANGED <<ty, place, phase, parts, spill, w, todo, swept>>

\* Some allocation, anywhere else.
Collect ==
  /\ phase \in {"live", "cloned", "released"} /\ swept' = Collected
  /\ UNCHANGED <<ty, place, phase, parts, v, spill, set, w, todo>>

\* A clone's dst starts as zero for a struct, and for a seal as a copy of src.
\* The dsts of nested clones are rooted in turn; one place stands for them all.
CloneBegin ==
  /\ phase = "live" /\ NeedsCleanup(ty)
  /\ w' = IF IsSeal(ty) THEN [o \in {q - Base : q \in DOMAIN v \ {Next8(ty)}} |-> v[o + Base]] ELSE Blank
  /\ todo' = parts /\ phase' = "cloning"
  /\ UNCHANGED <<ty, place, parts, v, spill, set, swept>>

\* str and tablets are allocated anew, everything else is copied.
Cloned(p) == p.k \in {"str", "tbl"}
ClonePart ==
  /\ phase = "cloning" /\ todo # << >>
  /\ LET p == Head(todo)
         to == [p EXCEPT !.at = @ - Base]
     IN  /\ w' = IF Cloned(p) THEN With(w, Stored(to, "w"))
                 ELSE With(w, [o \in DOMAIN Stored(to, "w") |-> Word(v, o + Base)])
         /\ swept' = IF Cloned(p) THEN Collected ELSE swept
  /\ todo' = Tail(todo)
  /\ UNCHANGED <<ty, place, phase, parts, v, spill, set>>

CloneEnd ==
  /\ phase = "cloning" /\ todo = << >> /\ phase' = "cloned"
  /\ UNCHANGED <<ty, place, parts, v, spill, set, w, todo, swept>>

\* A release zeroes the headers of tablets and the tags of seals, whatever the
\* variant, and leaves all else.
Releases(p) == (p.k = "tbl") \/ (p.k = "tag" /\ ~p.hidden)
Release ==
  /\ phase = "live" /\ NeedsCleanup(ty)
  /\ \A i \in DOMAIN parts : parts[i].k = "tag" => parts[i].tag \in ReleasedVariants
  /\ v' = [o \in DOMAIN v |->
             IF \E i \in DOMAIN parts : Releases(parts[i]) /\ o \in DOMAIN Stored(parts[i], "v") THEN Zero ELSE v[o]]
  /\ phase' = "released"
  /\ UNCHANGED <<ty, place, parts, spill, set, w, todo, swept>>

\* _emit_slot_clear: the llvm mode's pop.
Clear ==
  /\ phase = "live" /\ place = "slot" /\ HasDesc(ty)
  /\ LET empty(mem) == IF IsSeal(ty) THEN With(mem, [o \in {0} |-> <<"tag", EmptyTag>>]) ELSE Blank
     IN  v' = empty(v) /\ spill' = empty(spill)
  /\ phase' = "cleared"
  /\ UNCHANGED <<ty, place, parts, set, w, todo, swept>>

Next ==
  \/ \E pick \in Variants : Make(pick)
  \/ \E i \in DOMAIN parts : Assign(parts[i])
  \/ Collect \/ CloneBegin \/ ClonePart \/ CloneEnd \/ Release \/ Clear

Spec == Init /\ [][Next]_vars

-----------------------------------------------------------------------------
(* Properties. *)

TypeOK ==
  /\ <<ty, place>> \in Homes
  /\ phase \in {"zero", "live", "cloning", "cloned", "released", "cleared"}
  /\ DOMAIN spill \subseteq 0..SizeOf(ty) - 1 /\ DOMAIN w \subseteq 0..SizeOf(ty) - 1
  /\ DOMAIN v \subseteq 0..Next8(ty)

\* Every block a value holds is marked through its place, whatever nests in
\* what, in a variable and in a chunk, before and after assignments to its
\* parts: the collector "needs to mark through" them "to keep the pointed-into
\* chunk alive" (__init__.py 372-375), wedges as well as owned parts.
Held(p) == {word[2] : word \in {q \in Range(Words(v, p)) : q[1] \in {"start", "inside"}}}
HeldIsMarked ==
  phase = "live" => \A i \in DOMAIN parts : Held(parts[i]) \subseteq Marked(RootReads)

\* The collector is handed pointers only, by mark_ptr the starts of blocks and
\* by mark_wedge addresses inside: a number read as a pointer would be
\* dereferenced.  It holds of half-built clones and of what has been released
\* and is still rooted (stmt.py 1059-1063); a cleared slot is empty
\* (__init__.py 1148-1190).
ReadsArePointers ==
  /\ \A r \in RootReads \cup CloneReads : r[1] = Zero \/ r[1][1] = r[2]
  /\ phase = "cleared" => Marked(RootReads) = {}

\* A clone keeps the blocks made for it through the collections of the later
\* ones, has the variants of its source, and shares with it exactly its ivec,
\* dvec and wedge parts (stmt.py 887-979, 1068-1185).
ClonesWhole ==
  /\ phase \in {"cloning", "cloned"} => {b \in Blocks(w) : b[1] = "w"} \cap swept = {}
  /\ phase = "cloned" =>
       \A i \in DOMAIN parts :
         LET p == parts[i]  to == [p EXCEPT !.at = @ - Base] IN
         (p.k # "bool" /\ p.k # "int") =>
           ([o \in DOMAIN Words(w, to) |-> Words(w, to)[o]] =
            [o \in DOMAIN Words(w, to) |-> Words(v, p)[o + Base]]) <=> p.k \notin {"str", "tbl"}
=============================================================================
