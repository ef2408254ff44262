-------------------------- MODULE OwnershipProofs ---------------------------
(***************************************************************************)
(* The invariants of Ownership, for every number of names, objects, slots  *)
(* and open frames, names shadowing others or not: TypeCorrect, then what  *)
(* releases may reach.                                                     *)
(*                                                                         *)
(* The argument has two halves.  On the heap (Well), an object whose       *)
(* release would destroy something (Crit) has one holder, an alloca or a   *)
(* chunk, and none once it has been destroyed: so what a release walks was *)
(* whole, and nothing else shows it afterwards.  In the bookkeeping (Filed *)
(* and Apart), every entry of a frame is that of a name bound in the scope *)
(* of that very frame, with that binding's own slot, at most one per name, *)
(* and no two bindings share a slot.  So the innermost entry of a name is  *)
(* that of its innermost binding whenever that binding has one (OwnSlot):  *)
(* a transfer takes the variable's own entry, not that of a variable it    *)
(* shadows, and a body's tail name is not among the slots its frame        *)
(* releases.  Each statement evaluates a source to one of four outcomes    *)
(* (Drawn: nothing, a copy, a move, a call's result), and in each the      *)
(* value given is free to be stored (Free).                                *)
(*                                                                         *)
(* Two forms of source code are outside the theorems for rows whose        *)
(* release destroys (Plain), and each has a configuration that violates a  *)
(* property.  A call's result keeps a second header in its spill slot      *)
(* ("fresh", Ownership_fresh.cfg).  A variable whose own entry is gone,    *)
(* moved where one it shadows still has an entry, takes that entry and is  *)
(* not zeroed ("respend", Ownership_respend.cfg).  EscapedIntact also      *)
(* needs that no deep row is returned by `yield` (Ownership_yield.cfg).    *)
(***************************************************************************)
EXTENDS Ownership, DataLemmas, TLAPS

-----------------------------------------------------------------------------
(* Lists of entries.                                                       *)

EntryNames == Names \cup {".rvalue.root"}
Entries(k) == [slot : 1..k, name : EntryNames]
FrameLists(k) == Seq(Seq(Entries(k)))
Scopes(k) == Seq(UNION {[D -> 1..k] : D \in SUBSET Names})

\* A list without its j-th element: its elements, those after j one place back.
LEMMA RemovedIs ==
  ASSUME NEW T, NEW q \in Seq(T), NEW j \in 1..Len(q)
  PROVE  /\ RemoveAt(q, j) \in Seq(T)
         /\ Len(RemoveAt(q, j)) = Len(q) - 1
         /\ \A i \in 1..(Len(q) - 1) :
              RemoveAt(q, j)[i] = IF i < j THEN q[i] ELSE q[i + 1]
<1>1. /\ SubSeq(q, 1, j - 1) \in Seq(T) /\ Len(SubSeq(q, 1, j - 1)) = j - 1
      /\ SubSeq(q, j + 1, Len(q)) \in Seq(T) /\ Len(SubSeq(q, j + 1, Len(q))) = Len(q) - j
  OBVIOUS
<1>2. /\ \A i \in 1..(j - 1) : SubSeq(q, 1, j - 1)[i] = q[i]
      /\ \A i \in 1..(Len(q) - j) : SubSeq(q, j + 1, Len(q))[i] = q[j + i]
  OBVIOUS
<1>3. ASSUME NEW a \in Seq(T), NEW b \in Seq(T), Len(a) = j - 1, Len(b) = Len(q) - j,
             \A i \in 1..(j - 1) : a[i] = q[i], \A i \in 1..(Len(q) - j) : b[i] = q[j + i]
      PROVE  /\ a \o b \in Seq(T) /\ Len(a \o b) = Len(q) - 1
             /\ \A i \in 1..(Len(q) - 1) : (a \o b)[i] = IF i < j THEN q[i] ELSE q[i + 1]
  <2>1. a \o b \in Seq(T) /\ Len(a \o b) = Len(q) - 1
    <3>1. a \o b \in Seq(T) /\ Len(a \o b) = Len(a) + Len(b)
      BY ConcatProperties
    <3>2. Len(q) \in Nat
      OBVIOUS
    <3>3. QED BY <1>3, <3>1, <3>2
  <2>2. ASSUME NEW i \in 1..(Len(q) - 1)
        PROVE  (a \o b)[i] = IF i < j THEN q[i] ELSE q[i + 1]
    <3>1. CASE i < j
      BY <1>3, <3>1
    <3>2. CASE ~(i < j)
      <4>1. (a \o b)[i] = b[i - (j - 1)] /\ i - (j - 1) \in 1..(Len(q) - j)
        BY <1>3, <3>2
      <4>2. j + (i - (j - 1)) = i + 1
        OBVIOUS
      <4>3. QED BY <1>3, <3>2, <4>1, <4>2
    <3>3. QED BY <3>1, <3>2
  <2>3. QED BY <2>1, <2>2
<1>4. QED BY <1>1, <1>2, <1>3 DEF RemoveAt

\* The entry that goes is one of that name.
LEMMA WithoutEntryIs ==
  ASSUME NEW k, NEW f \in Seq(Entries(k)), NEW n, HasEntry(f, n)
  PROVE  \E j \in 1..Len(f) : f[j].name = n /\ WithoutEntry(f, n) = RemoveAt(f, j)
<1> DEFINE I == {i \in 1..Len(f) : f[i].name = n}
<1>1. PICK i \in 1..Len(f) : f[i].name = n
  BY DEF HasEntry, ToSet
<1>2. PICK j \in I : \A l \in I : j <= l
  <2>1. I \subseteq Nat /\ I # {}
    BY <1>1
  <2>2. QED BY <2>1, LeastNat
<1>3. Min(I) \in I
  BY <1>2 DEF Min
<1>4. SelectInSeq(f, LAMBDA e : e.name = n) = Min(I)
  BY <1>1 DEF SelectInSeq
<1>5. WithoutEntry(f, n) = RemoveAt(f, Min(I))
  BY <1>4 DEF WithoutEntry
<1>6. QED BY <1>3, <1>5

\* Entries of fewer slots are entries of more.
LEMMA Wider ==
  ASSUME NEW S, NEW T, S \subseteq T, NEW q \in Seq(S) PROVE q \in Seq(T)
OBVIOUS

\* A list without its last element.
LEMMA FrontIs ==
  ASSUME NEW T, NEW q \in Seq(T), NEW l \in Nat, l = Len(q), l > 0
  PROVE  /\ Front(q) \in Seq(T) /\ Len(Front(q)) = l - 1
         /\ \A i \in 1..(l - 1) : Front(q)[i] = q[i]
<1>1. SubSeq(q, 1, l - 1) \in Seq(T) /\ Len(SubSeq(q, 1, l - 1)) = l - 1
  OBVIOUS
<1>2. \A i \in 1..(l - 1) : SubSeq(q, 1, l - 1)[i] = q[i]
  OBVIOUS
<1>3. Front(q) = SubSeq(q, 1, l - 1)
  BY DEF Front
<1>4. QED BY <1>1, <1>2, <1>3

\* A list with one element more.
LEMMA AppendIs ==
  ASSUME NEW T, NEW q \in Seq(T), NEW l \in Nat, l = Len(q), NEW x \in T
  PROVE  /\ Append(q, x) \in Seq(T) /\ Len(Append(q, x)) = l + 1
         /\ Append(q, x)[l + 1] = x /\ \A i \in 1..l : Append(q, x)[i] = q[i]
OBVIOUS

\* So are frames.
LEMMA WiderFrames ==
  ASSUME NEW k \in Nat, NEW m \in Nat, k <= m, NEW fs \in FrameLists(k) PROVE fs \in FrameLists(m)
<1>1. Entries(k) \subseteq Entries(m)
  BY DEF Entries
<1>2. fs \in Seq(Seq(Entries(k))) /\ Seq(Entries(k)) \subseteq Seq(Entries(m))
  BY <1>1, Wider DEF FrameLists
<1>3. QED BY <1>2, Wider DEF FrameLists

\* A list of entries with one more at its end.
LEMMA RegisteredIs ==
  ASSUME NEW k \in Nat, NEW m \in Nat, k <= m, NEW fs \in FrameLists(k), Len(fs) >= 2,
         NEW s \in 1..m, NEW n \in EntryNames
  PROVE  /\ Registered(fs, Entry(s, n)) \in FrameLists(m)
         /\ Len(Registered(fs, Entry(s, n))) = Len(fs)
         /\ \A i \in 1..Len(fs) : i # Len(fs) => Registered(fs, Entry(s, n))[i] = fs[i]
         /\ Registered(fs, Entry(s, n))[Len(fs)] = Append(fs[Len(fs)], Entry(s, n))
<1>1. Entries(k) \subseteq Entries(m) /\ Entry(s, n) \in Entries(m)
  BY DEF Entries, Entry
<1>2. \A i \in 1..Len(fs) : fs[i] \in Seq(Entries(m))
  <2>1. \A i \in 1..Len(fs) : fs[i] \in Seq(Entries(k))
    BY DEF FrameLists
  <2>2. QED BY <1>1, <2>1, Wider
<1>3. Append(fs[Len(fs)], Entry(s, n)) \in Seq(Entries(m))
  <2>1. Len(fs) \in 1..Len(fs)
    BY DEF FrameLists
  <2>2. fs[Len(fs)] \in Seq(Entries(m))
    BY <1>2, <2>1
  <2>3. QED BY <1>1, <2>2
<1>4. PICK r \in Seq(Entries(m)) : r = Append(fs[Len(fs)], Entry(s, n))
  BY <1>3
<1>5. Registered(fs, Entry(s, n)) = [fs EXCEPT ![Len(fs)] = r]
  BY <1>4 DEF Registered
<1>6. PICK l \in Nat : l = Len(fs) /\ DOMAIN fs = 1..l /\ l \in 1..l
  BY DEF FrameLists
<1>7. /\ [fs EXCEPT ![l] = r] \in Seq(Seq(Entries(m)))
      /\ Len([fs EXCEPT ![l] = r]) = l
  <2>1. fs \in Seq(Seq(Entries(m)))
    <3>1. fs \in Seq(Seq(Entries(k))) /\ Seq(Entries(k)) \subseteq Seq(Entries(m))
      BY <1>1, Wider DEF FrameLists
    <3>2. QED BY <3>1, Wider
  <2>2. QED BY <1>4, <1>6, <2>1
<1>8. [fs EXCEPT ![l] = r][l] = r /\ \A i \in 1..l : i # l => [fs EXCEPT ![l] = r][i] = fs[i]
  BY <1>6
<1>9. QED BY <1>4, <1>5, <1>6, <1>7, <1>8 DEF FrameLists

\* A set of indices has a greatest one.
LEMMA GreatestIs ==
  ASSUME NEW c \in Nat, NEW I \in SUBSET (1..c), I # {}
  PROVE  Max(I) \in I /\ \A j \in I : j <= Max(I)
<1> DEFINE D == {c - j : j \in I}
<1>1. D \subseteq Nat /\ D # {}
  <2>1. \A j \in I : j \in Nat /\ c - j \in Nat
    OBVIOUS
  <2>2. PICK j \in I : TRUE
    OBVIOUS
  <2>3. QED BY <2>1, <2>2
<1>2. PICK d \in D : \A e \in D : d <= e
  BY <1>1, LeastNat
<1>3. PICK j \in I : d = c - j
  BY <1>2
<1>4. \A l \in I : c - j <= c - l
  BY <1>2, <1>3
<1>5. \A l \in I : j >= l
  BY <1>4
<1>6. Max(I) \in I /\ \A l \in I : Max(I) >= l
  BY <1>5 DEF Max
<1>7. QED BY <1>6

\* The innermost frame of that name is one of the frames.
LEMMA OwningFrameIs ==
  ASSUME NEW k, frames \in FrameLists(k), NEW n, Owned(n)
  PROVE  /\ OwningFrame(n) \in 1..Len(frames) /\ HasEntry(frames[OwningFrame(n)], n)
         /\ \A i \in 1..Len(frames) : HasEntry(frames[i], n) => i <= OwningFrame(n)
<1> DEFINE I == {i \in 1..Len(frames) : HasEntry(frames[i], n)}
<1>1. I # {} /\ OwningFrame(n) = Max(I)
  BY DEF Owned, OwningFrame, SelectLastInSeq
<1>2. Len(frames) \in Nat /\ I \in SUBSET (1..Len(frames))
  BY DEF FrameLists
<1>3. Max(I) \in I /\ \A i \in I : i <= Max(I)
  BY <1>1, <1>2, GreatestIs
<1>4. QED BY <1>1, <1>3

\* Its entry of that name.
LEMMA EntryIs ==
  ASSUME NEW k, frames \in FrameLists(k), NEW n, Owned(n)
  PROVE  \E j \in 1..Len(frames[OwningFrame(n)]) :
           /\ EntryOf(n) = frames[OwningFrame(n)][j] /\ EntryOf(n).name = n
           /\ EntryOf(n) \in Entries(k)
<1>1. PICK f \in Seq(Entries(k)) : f = frames[OwningFrame(n)] /\ HasEntry(f, n)
  BY OwningFrameIs DEF FrameLists
<1> DEFINE I == {i \in 1..Len(f) : f[i].name = n}
<1>2. PICK i \in 1..Len(f) : f[i].name = n
  BY <1>1 DEF HasEntry, ToSet
<1>3. PICK j \in I : \A l \in I : j <= l
  <2>1. I \subseteq Nat /\ I # {}
    BY <1>2
  <2>2. QED BY <2>1, LeastNat
<1>4. Min(I) \in I
  BY <1>3 DEF Min
<1>5. SelectInSeq(f, LAMBDA e : e.name = n) = Min(I)
  BY <1>2 DEF SelectInSeq
<1>6. EntryOf(n) = f[Min(I)]
  BY <1>1, <1>5 DEF EntryOf
<1>7. PICK i1 \in 1..Len(f) : i1 = Min(I) /\ f[i1].name = n
  BY <1>4
<1>8. f[i1] \in Entries(k)
  OBVIOUS
<1>9. QED BY <1>1, <1>6, <1>7, <1>8

\* The innermost binding of a name is in one of the scopes.
LEMMA BindingFrameIs ==
  ASSUME NEW k, scope \in Scopes(k), NEW n \in Bound
  PROVE  /\ BindingFrame(n) \in 1..Len(scope) /\ n \in DOMAIN scope[BindingFrame(n)]
         /\ \A i \in 1..Len(scope) : n \in DOMAIN scope[i] => i <= BindingFrame(n)
<1> DEFINE I == {i \in 1..Len(scope) : n \in DOMAIN scope[i]}
<1>1. Len(scope) \in Nat /\ DOMAIN scope = 1..Len(scope) /\ I \in SUBSET (1..Len(scope))
  BY DEF Scopes
<1>2. I # {}
  BY <1>1 DEF Bound
<1>3. BindingFrame(n) = Max(I)
  BY <1>2 DEF BindingFrame, SelectLastInSeq
<1>4. Max(I) \in I /\ \A i \in I : i <= Max(I)
  BY <1>1, <1>2, GreatestIs
<1>5. QED BY <1>3, <1>4

\* A scope binds names to allocas.
LEMMA ScopesAre ==
  ASSUME NEW k, NEW sc \in Scopes(k)
  PROVE  /\ Len(sc) \in Nat /\ DOMAIN sc = 1..Len(sc)
         /\ \A i \in 1..Len(sc) : DOMAIN sc[i] \subseteq Names /\ \A n \in DOMAIN sc[i] : sc[i][n] \in 1..k
<1>1. Len(sc) \in Nat /\ DOMAIN sc = 1..Len(sc)
  BY DEF Scopes
<1>2. ASSUME NEW i \in 1..Len(sc)
      PROVE  DOMAIN sc[i] \subseteq Names /\ \A n \in DOMAIN sc[i] : sc[i][n] \in 1..k
  <2>1. sc[i] \in UNION {[D -> 1..k] : D \in SUBSET Names}
    BY DEF Scopes
  <2>2. PICK D \in SUBSET Names : sc[i] \in [D -> 1..k]
    BY <2>1
  <2>3. QED BY <2>2
<1>3. QED BY <1>1, <1>2

\* Scopes over fewer allocas are scopes over more.
LEMMA WiderScopes ==
  ASSUME NEW k \in Nat, NEW m \in Nat, k <= m, NEW sc \in Scopes(k) PROVE sc \in Scopes(m)
<1>1. UNION {[D -> 1..k] : D \in SUBSET Names} \subseteq UNION {[D -> 1..m] : D \in SUBSET Names}
  <2>1. ASSUME NEW D \in SUBSET Names, NEW f \in [D -> 1..k] PROVE f \in [D -> 1..m]
    OBVIOUS
  <2>2. QED BY <2>1
<1>2. QED BY <1>1, Wider DEF Scopes

\* A list that loses the entry of a name.
LEMMA DroppedIs ==
  ASSUME NEW k \in Nat, frames \in FrameLists(k), NEW n, Owned(n)
  PROVE  /\ Dropped(n) \in FrameLists(k) /\ Len(Dropped(n)) = Len(frames)
         /\ \E w \in 1..Len(frames) : \E j \in 1..Len(frames[w]) :
              /\ Dropped(n)[w] = RemoveAt(frames[w], j)
              /\ \A i \in 1..Len(frames) : i # w => Dropped(n)[i] = frames[i]
<1>1. PICK w \in 1..Len(frames) : w = OwningFrame(n) /\ HasEntry(frames[w], n)
  BY OwningFrameIs
<1>2. frames[w] \in Seq(Entries(k))
  BY <1>1 DEF FrameLists
<1>3. PICK j \in 1..Len(frames[w]) : WithoutEntry(frames[w], n) = RemoveAt(frames[w], j)
  BY <1>1, <1>2, WithoutEntryIs
<1>4. PICK r \in Seq(Entries(k)) : r = RemoveAt(frames[w], j)
  BY <1>2, <1>3, RemovedIs
<1>5. Dropped(n) = [frames EXCEPT ![w] = r]
  BY <1>1, <1>3, <1>4 DEF Dropped
<1>6. /\ Dropped(n) \in FrameLists(k) /\ Len(Dropped(n)) = Len(frames)
      /\ Dropped(n)[w] = r /\ \A i \in 1..Len(frames) : i # w => Dropped(n)[i] = frames[i]
  BY <1>4, <1>5 DEF FrameLists
<1>7. QED BY <1>4, <1>6

\* The slots of a list of entries are allocas.
LEMMA SlotsInIs ==
  ASSUME NEW k, NEW f \in Seq(Entries(k))
  PROVE  SlotsIn(f) \subseteq 1..k
<1>1. \A i \in DOMAIN f : f[i].slot \in 1..k
  <2>1. \A i \in DOMAIN f : f[i] \in Entries(k)
    OBVIOUS
  <2>2. QED BY <2>1 DEF Entries
<1>2. QED BY <1>1 DEF SlotsIn, ToSet

\* So are those of all frames.
LEMMA AllSlotsIs ==
  ASSUME NEW k, frames \in FrameLists(k)
  PROVE  AllSlots \subseteq 1..k
<1>1. \A i \in DOMAIN frames : frames[i] \in Seq(Entries(k))
  BY DEF FrameLists
<1>2. \A i \in DOMAIN frames : SlotsIn(frames[i]) \subseteq 1..k
  BY <1>1, SlotsInIs
<1>3. QED BY <1>2 DEF AllSlots

-----------------------------------------------------------------------------
(* What emitted code does to the heap, field by field.                     *)

Walked(h, H) == (H \ {None}) \cup UNION {h.held[o] : o \in H \ {None}}
Hit(h, H) == IF deep THEN Walked(h, H) ELSE Walked(h, H) \cap h.accs
HeadersIn(h, S) == {h.hdr[s] : s \in S}

\* None is the header of no object.
LEMMA NoneIsNoObject == None \notin Objects /\ None \in Headers /\ Objects \subseteq Headers
BY DEF None, Objects, Headers

\* A release empties what it walked and keeps the rest.
LEMMA DestroyIs ==
  ASSUME NEW h \in Heap, NEW H \in SUBSET Headers
  PROVE  /\ Destroy(h, H) \in Heap /\ Hit(h, H) \in SUBSET Objects
         /\ Destroy(h, H).hdr = h.hdr /\ Destroy(h, H).accs = h.accs
         /\ Destroy(h, H).made = h.made
         /\ Destroy(h, H).destroyed = h.destroyed \cup Hit(h, H)
         /\ Destroy(h, H).again = h.again \cup (h.destroyed \cap Hit(h, H))
         /\ Destroy(h, H).held = [o \in Objects |-> IF o \in H THEN {} ELSE h.held[o]]
<1>1. Walked(h, H) \in SUBSET Objects
  BY DEF Walked, Heap, Headers
<1>2. Hit(h, H) \in SUBSET Objects
  BY <1>1 DEF Hit
<1>3. [o \in Objects |-> IF o \in H THEN {} ELSE h.held[o]] \in [Objects -> SUBSET Objects]
  BY DEF Heap
<1>4. Destroy(h, H) =
        [h EXCEPT !.destroyed = h.destroyed \cup Hit(h, H),
                  !.again = h.again \cup (h.destroyed \cap Hit(h, H)),
                  !.held = [o \in Objects |-> IF o \in H THEN {} ELSE h.held[o]]]
  BY DEF Destroy, Hit, Walked
<1>5. PICK hit \in SUBSET Objects, held \in [Objects -> SUBSET Objects] :
        hit = Hit(h, H) /\ held = [o \in Objects |-> IF o \in H THEN {} ELSE h.held[o]]
  BY <1>2, <1>3
<1>6. QED BY <1>4, <1>5 DEF Heap

\* It zeroes the headers it was given.
LEMMA ReleaseIs ==
  ASSUME NEW h \in Heap, NEW S \in SUBSET Slots
  PROVE  /\ ReleaseSlots(h, S) \in Heap /\ HeadersIn(h, S) \in SUBSET Headers
         /\ ReleaseSlots(h, S).hdr = [s \in Slots |-> IF s \in S THEN None ELSE h.hdr[s]]
         /\ ReleaseSlots(h, S).accs = h.accs /\ ReleaseSlots(h, S).made = h.made
         /\ ReleaseSlots(h, S).destroyed = h.destroyed \cup Hit(h, HeadersIn(h, S))
         /\ ReleaseSlots(h, S).again = h.again \cup (h.destroyed \cap Hit(h, HeadersIn(h, S)))
         /\ ReleaseSlots(h, S).held =
              [o \in Objects |-> IF o \in HeadersIn(h, S) THEN {} ELSE h.held[o]]
<1>1. HeadersIn(h, S) \in SUBSET Headers
  BY DEF HeadersIn, Heap
<1>2. PICK g \in Heap : g = Destroy(h, HeadersIn(h, S))
  BY <1>1, DestroyIs
<1>3. ReleaseSlots(h, S) = [g EXCEPT !.hdr = [s \in Slots |-> IF s \in S THEN None ELSE g.hdr[s]]]
  BY <1>2 DEF ReleaseSlots, HeadersIn
<1>4. PICK hdr \in [Slots -> Headers] : hdr = [s \in Slots |-> IF s \in S THEN None ELSE g.hdr[s]]
  BY NoneIsNoObject DEF Heap
<1>5. ReleaseSlots(h, S) \in Heap /\ ReleaseSlots(h, S) = [g EXCEPT !.hdr = hdr]
  BY <1>3, <1>4 DEF Heap
<1>6. /\ ReleaseSlots(h, S).hdr = hdr /\ ReleaseSlots(h, S).accs = g.accs
      /\ ReleaseSlots(h, S).made = g.made /\ ReleaseSlots(h, S).destroyed = g.destroyed
      /\ ReleaseSlots(h, S).again = g.again /\ ReleaseSlots(h, S).held = g.held
  BY <1>5 DEF Heap
<1>7. g.hdr = h.hdr
  BY <1>1, <1>2, DestroyIs
<1>8. QED BY <1>1, <1>2, <1>4, <1>5, <1>6, <1>7, DestroyIs

\* A store into an alloca.
LEMMA LoadedIs ==
  ASSUME NEW h \in Heap, NEW s \in Slots, NEW o \in Headers
  PROVE  /\ Loaded(h, s, o) \in Heap
         /\ Loaded(h, s, o).hdr[s] = o
         /\ \A t \in Slots : t # s => Loaded(h, s, o).hdr[t] = h.hdr[t]
         /\ Loaded(h, s, o).held = h.held /\ Loaded(h, s, o).accs = h.accs
         /\ Loaded(h, s, o).destroyed = h.destroyed /\ Loaded(h, s, o).again = h.again
         /\ Loaded(h, s, o).made = h.made
BY DEF Loaded, Heap

\* Zeroing an alloca is such a store.
LEMMA ZeroedIs == \A h, s : Zeroed(h, s) = Loaded(h, s, None)
BY DEF Zeroed, Loaded

\* A new chunk chain is an object nothing holds yet.
LEMMA MadeIs ==
  ASSUME NEW h \in Heap, h.made < MaxObjects
  PROVE  /\ Made(h) \in Heap /\ Fresh(h) \in Objects /\ Fresh(h) \in Headers
         /\ Made(h).made = Fresh(h) /\ Fresh(h) = h.made + 1
         /\ Made(h).hdr = h.hdr /\ Made(h).held = h.held /\ Made(h).accs = h.accs
         /\ Made(h).destroyed = h.destroyed /\ Made(h).again = h.again
<1>1. h.made \in Nat /\ h.made + 1 \in 0..MaxObjects /\ h.made + 1 \in 1..MaxObjects
  BY BoundsAssumption DEF Heap
<1>2. PICK m \in 0..MaxObjects : m = h.made + 1
  BY <1>1
<1>3. Made(h) = [h EXCEPT !.made = m]
  BY <1>2 DEF Made
<1>4. QED BY <1>1, <1>2, <1>3, NoneIsNoObject DEF Heap, Fresh, Objects

\* So is a clone.
LEMMA ClonedIs ==
  ASSUME NEW h \in Heap, h.made < MaxObjects, NEW o
  PROVE  /\ Cloned(h, o) \in Heap
         /\ Cloned(h, o).made = Fresh(h)
         /\ Cloned(h, o).hdr = h.hdr /\ Cloned(h, o).held = h.held
         /\ Cloned(h, o).accs = h.accs /\ Cloned(h, o).again = h.again
         /\ Cloned(h, o).destroyed = h.destroyed \cup (IF o \in h.destroyed THEN {Fresh(h)} ELSE {})
<1>1. PICK g \in Heap : g = Made(h)
  BY MadeIs
<1>2. CASE o \in h.destroyed
  <2>1. Cloned(h, o) = [g EXCEPT !.destroyed = g.destroyed \cup {Fresh(h)}]
    BY <1>1, <1>2 DEF Cloned
  <2>2. PICK d \in SUBSET Objects : d = g.destroyed \cup {Fresh(h)}
    BY <1>1, MadeIs DEF Heap
  <2>3. [g EXCEPT !.destroyed = d] \in Heap
    BY <2>2 DEF Heap
  <2>4. /\ [g EXCEPT !.destroyed = d].made = g.made /\ [g EXCEPT !.destroyed = d].hdr = g.hdr
        /\ [g EXCEPT !.destroyed = d].held = g.held /\ [g EXCEPT !.destroyed = d].accs = g.accs
        /\ [g EXCEPT !.destroyed = d].again = g.again /\ [g EXCEPT !.destroyed = d].destroyed = d
    BY <2>2 DEF Heap
  <2>5. d = h.destroyed \cup {Fresh(h)}
    BY <1>1, <2>2, MadeIs
  <2>6. QED BY <1>1, <1>2, <2>1, <2>2, <2>3, <2>4, <2>5, MadeIs
<1>3. CASE o \notin h.destroyed
  <2>1. Cloned(h, o) = g
    BY <1>1, <1>3 DEF Cloned
  <2>2. QED BY <1>1, <1>3, <2>1, MadeIs
<1>4. QED BY <1>2, <1>3

-----------------------------------------------------------------------------
(* The three-way split, as one of four outcomes: the value o a source      *)
(* gives, the heap g once it is settled, the frames fs and the slots used. *)

Nothing(h, g, o, fs, u) == g = h /\ o = None /\ fs = frames /\ u = 0
Copies(q, h, g, o, fs, u) ==
  q # None /\ g = Cloned(h, q) /\ o = Fresh(h) /\ fs = frames /\ u = 0
Moves(n, h, g, o, fs, u) ==
  /\ Owned(n) /\ ("respend" \in Shapes \/ ~Respends(n))
  /\ g = Zeroed(h, EntryOf(n).slot) /\ o = HeaderOf(n) /\ fs = Dropped(n) /\ u = 0
Calls(h, g, o, fs, u) ==
  /\ "fresh" \in Shapes /\ slots < MaxSlots
  /\ g = Loaded(Made(h), slots + 1, Fresh(h)) /\ o = Fresh(h)
  /\ fs = Registered(frames, Entry(slots + 1, ".rvalue.root")) /\ u = 1

\* The headers a source other than `except` can show.
Shown(except) ==
  {HeaderOf(n) : n \in (Bound \cap Rows) \ {except}}
  \cup UNION {Elements(a) \ {except} : a \in Bound \cap Accs}

Drawn(except, h, g, o, fs, u) ==
  \/ Nothing(h, g, o, fs, u)
  \/ \E q \in Shown(except) : Copies(q, h, g, o, fs, u)
  \/ \E n \in (Bound \cap Rows) \ {except} : Moves(n, h, g, o, fs, u)
  \/ Calls(h, g, o, fs, u)

\* A borrowed value is cloned, unless there is none.
LEMMA BorrowedIs ==
  ASSUME NEW h, NEW q
  PROVE  LET src == Borrowed(h, q)
         IN  \/ q = None /\ Nothing(h, Settled(src), src.o, src.fs, src.used)
             \/ Copies(q, h, Settled(src), src.o, src.fs, src.used)
<1>1. CASE q = None
  BY <1>1 DEF Borrowed, Source, Settled, Nothing
<1>2. CASE q # None
  BY <1>2 DEF Borrowed, Source, Settled, Copies
<1>3. QED BY <1>1, <1>2

-----------------------------------------------------------------------------
(* Types.                                                                  *)

TypeInv == deep \in BOOLEAN /\ Len(frames) >= 2 /\ TypeOK

\* The parts of TypeInv that a step uses.
LEMMA Typed ==
  ASSUME TypeInv
  PROVE  /\ frames \in FrameLists(slots) /\ slots \in Nat /\ slots <= MaxSlots
         /\ heap \in Heap /\ heap.made \in Nat
         /\ Len(frames) \in Nat /\ Len(frames) >= 2
         /\ scope \in Scopes(slots) /\ Len(scope) = Len(frames)
         /\ Bound \subseteq Names
         /\ \A i \in 1..Len(scope) :
              /\ DOMAIN scope[i] \subseteq Bound
              /\ \A n \in DOMAIN scope[i] : scope[i][n] \in 1..slots /\ scope[i][n] \in Slots
         /\ \A n \in Bound : /\ SlotOf(n) \in 1..slots /\ SlotOf(n) \in Slots
                             /\ SlotOf(n) # NoSlot /\ HeaderOf(n) \in Headers
                             /\ BindingFrame(n) \in 1..Len(scope)
                             /\ n \in DOMAIN scope[BindingFrame(n)]
                             /\ SlotOf(n) = scope[BindingFrame(n)][n]
         /\ \A a \in Bound : Elements(a) \subseteq Objects
<1>1. /\ frames \in FrameLists(slots) /\ slots \in 0..MaxSlots /\ heap \in Heap
      /\ Len(frames) >= 2 /\ scope \in Scopes(slots) /\ Len(scope) = Len(frames)
  BY DEF TypeInv, TypeOK, FrameLists, Entries, EntryNames, Scopes
<1>2. heap.hdr \in [Slots -> Headers] /\ heap.held \in [Objects -> SUBSET Objects] /\ heap.made \in Nat
  BY <1>1, BoundsAssumption DEF Heap
<1>3. slots \in Nat /\ slots <= MaxSlots /\ 1..slots \subseteq Slots /\ Len(frames) \in Nat
  BY <1>1, BoundsAssumption DEF Slots, FrameLists
<1>4. /\ DOMAIN scope = 1..Len(scope)
      /\ \A i \in 1..Len(scope) : DOMAIN scope[i] \subseteq Names /\ \A n \in DOMAIN scope[i] : scope[i][n] \in 1..slots
  BY <1>1, ScopesAre
<1>5. Bound \subseteq Names /\ \A i \in 1..Len(scope) : DOMAIN scope[i] \subseteq Bound
  BY <1>4 DEF Bound
<1>6. \A n \in Bound : /\ BindingFrame(n) \in 1..Len(scope) /\ n \in DOMAIN scope[BindingFrame(n)]
                      /\ SlotOf(n) = scope[BindingFrame(n)][n]
  BY <1>1, BindingFrameIs DEF SlotOf
<1>7. \A n \in Bound : SlotOf(n) \in 1..slots
  BY <1>4, <1>6
<1>8. \A n \in Bound : SlotOf(n) \in Slots /\ SlotOf(n) # NoSlot /\ HeaderOf(n) \in Headers
  BY <1>2, <1>3, <1>7 DEF HeaderOf, NoSlot
<1>9. \A a \in Bound : Elements(a) \subseteq Objects
  <2>1. ASSUME NEW a \in Bound PROVE Elements(a) \subseteq Objects
    <3>1. HeaderOf(a) # None => HeaderOf(a) \in Objects
      BY <1>8 DEF Headers
    <3>2. QED BY <1>2, <3>1 DEF Elements
  <2>2. QED BY <2>1
<1>10. \A i \in 1..Len(scope) : \A n \in DOMAIN scope[i] : scope[i][n] \in 1..slots /\ scope[i][n] \in Slots
  BY <1>3, <1>4
<1>11. QED BY <1>1, <1>2, <1>3, <1>5, <1>6, <1>7, <1>8, <1>9, <1>10

\* An entry's slot is an alloca.
LEMMA OwnedSlot ==
  ASSUME TypeInv, NEW n, Owned(n)
  PROVE  EntryOf(n).slot \in 1..slots /\ EntryOf(n).slot \in Slots /\ EntryOf(n).slot # NoSlot
<1>1. EntryOf(n) \in Entries(slots)
  BY Typed, EntryIs
<1>2. EntryOf(n).slot \in 1..slots
  BY <1>1 DEF Entries
<1>3. QED BY <1>2, Typed, BoundsAssumption DEF Slots, NoSlot

\* Every source has one of the four outcomes.
LEMMA SourceDrawn ==
  ASSUME TypeInv, NEW except, NEW h, NEW src \in Sources(except, h)
  PROVE  Drawn(except, h, Settled(src), src.o, src.fs, src.used)
<1> DEFINE N == {m \in (Bound \cap Rows) \ {except} : "respend" \in Shapes \/ ~Respends(m)}
<1>1. CASE \E n \in N : src = FromName(n, h)
  <2>1. PICK n \in (Bound \cap Rows) \ {except} :
          src = FromName(n, h) /\ ("respend" \in Shapes \/ ~Respends(n))
    BY <1>1
  <2>2. CASE Owned(n)
    <3>1. Moves(n, h, Settled(src), src.o, src.fs, src.used)
      BY <2>1, <2>2, OwnedSlot DEF FromName, Source, Settled, Moves
    <3>2. QED BY <3>1 DEF Drawn
  <2>3. CASE ~Owned(n)
    <3>1. src = Borrowed(h, HeaderOf(n)) /\ HeaderOf(n) \in Shown(except)
      BY <2>1, <2>3 DEF FromName, Shown
    <3>2. QED BY <3>1, BorrowedIs DEF Drawn
  <2>4. QED BY <2>2, <2>3
<1>2. CASE \E a \in Bound \cap Accs : \E q \in Elements(a) \ {except} : src = Borrowed(h, q)
  <2>1. PICK a \in Bound \cap Accs : \E q \in Elements(a) \ {except} : src = Borrowed(h, q)
    BY <1>2
  <2>2. PICK q \in Elements(a) \ {except} : src = Borrowed(h, q)
    BY <2>1
  <2>3. q \in Shown(except)
    BY DEF Shown
  <2>4. QED BY <2>2, <2>3, BorrowedIs DEF Drawn
<1>3. CASE "fresh" \in Shapes /\ slots < MaxSlots /\ src = FromCall(h)
  <2>1. Calls(h, Settled(src), src.o, src.fs, src.used)
    BY <1>3 DEF FromCall, Source, Settled, Calls
  <2>2. QED BY <2>1 DEF Drawn
<1> DEFINE A == {FromName(n, h) : n \in N}
           B == UNION {{Borrowed(h, q) : q \in Elements(a) \ {except}} : a \in Bound \cap Accs}
           C == IF "fresh" \in Shapes /\ slots < MaxSlots THEN {FromCall(h)} ELSE {}
<1>4. src \in A \cup B \cup C
  BY DEF Sources
<1>5. CASE src \in A
  BY <1>1, <1>5
<1>6. CASE src \in B
  <2>1. \E a \in Bound \cap Accs : src \in {Borrowed(h, q) : q \in Elements(a) \ {except}}
    BY <1>6
  <2>2. QED BY <1>2, <2>1
<1>7. CASE src \in C
  BY <1>3, <1>7
<1> HIDE DEF A, B, C, N
<1>8. QED BY <1>4, <1>5, <1>6, <1>7

\* What a source leaves has its type, and room for one more object is enough.
LEMMA DrawnType ==
  ASSUME TypeInv, NEW h \in Heap, h.made = heap.made, Room(1),
         NEW except, NEW g, NEW o, NEW fs, NEW u, Drawn(except, h, g, o, fs, u)
  PROVE  /\ g \in Heap /\ g.made \in {heap.made, heap.made + 1} /\ g.accs = h.accs
         /\ g.held = h.held /\ o \in Headers
         /\ slots + u \in 0..MaxSlots /\ slots <= slots + u
         /\ fs \in FrameLists(slots + u) /\ Len(fs) = Len(frames)
<1>1. /\ h.made < MaxObjects /\ heap.made \in Nat
  BY Typed, BoundsAssumption DEF Room
<1>2. CASE Nothing(h, g, o, fs, u)
  <2>1. slots + 0 = slots /\ slots \in 0..MaxSlots
    BY Typed, BoundsAssumption
  <2>2. QED BY <1>1, <1>2, <2>1, Typed, NoneIsNoObject DEF Nothing
<1>3. CASE \E q \in Shown(except) : Copies(q, h, g, o, fs, u)
  <2>1. slots + 0 = slots /\ slots \in 0..MaxSlots
    BY Typed, BoundsAssumption
  <2>2. PICK q : Copies(q, h, g, o, fs, u)
    BY <1>3
  <2>3. QED BY <1>1, <2>1, <2>2, Typed, MadeIs, ClonedIs DEF Copies
<1>4. CASE \E n \in (Bound \cap Rows) \ {except} : Moves(n, h, g, o, fs, u)
  <2>1. slots + 0 = slots /\ slots \in 0..MaxSlots
    BY Typed, BoundsAssumption
  <2>2. PICK n \in Bound : Moves(n, h, g, o, fs, u)
    BY <1>4
  <2>3. fs \in FrameLists(slots) /\ Len(fs) = Len(frames)
    BY <2>2, Typed, DroppedIs DEF Moves
  <2>4. g \in Heap /\ g.made = h.made /\ g.accs = h.accs /\ g.held = h.held
    BY <2>2, OwnedSlot, ZeroedIs, LoadedIs, NoneIsNoObject DEF Moves
  <2>5. QED BY <1>1, <2>1, <2>2, <2>3, <2>4, Typed DEF Moves
<1>5. CASE Calls(h, g, o, fs, u)
  <2>1. slots + 1 \in 0..MaxSlots /\ slots + 1 \in Slots /\ slots + 1 \in 1..(slots + 1)
        /\ slots <= slots + 1 /\ slots + 1 \in Nat
    BY <1>5, Typed, BoundsAssumption DEF Calls, Slots
  <2>2. PICK f \in Heap : f = Made(h)
    BY <1>1, MadeIs
  <2>3. Fresh(h) \in Headers /\ f.made = Fresh(h) /\ Fresh(h) = h.made + 1
        /\ f.accs = h.accs /\ f.held = h.held
    BY <1>1, <2>2, MadeIs
  <2>4. g \in Heap /\ g.made = f.made /\ g.accs = f.accs /\ g.held = f.held
    BY <1>5, <2>1, <2>2, <2>3, LoadedIs DEF Calls
  <2>5. fs \in FrameLists(slots + 1) /\ Len(fs) = Len(frames)
    BY <1>5, <2>1, Typed, RegisteredIs DEF Calls, EntryNames
  <2>6. QED BY <1>5, <2>1, <2>3, <2>4, <2>5 DEF Calls
<1>6. QED BY <1>2, <1>3, <1>4, <1>5 DEF Drawn

\* TypeInv of the next state, from the values the step gives the variables.
LEMMA TypeNext ==
  ASSUME deep' \in BOOLEAN, Len(frames') >= 2, frames' \in FrameLists(slots'),
         slots' \in 0..MaxSlots, heap' \in Heap,
         scope' \in Scopes(slots'), Len(scope') = Len(frames'),
         running' \in BOOLEAN, out' \in Headers
  PROVE  TypeInv'
BY DEF TypeInv, TypeOK, FrameLists, Entries, EntryNames, Scopes

\* The names stay bound when no frame opens or closes.
LEMMA ScopeKept ==
  ASSUME TypeInv, scope' = scope, slots' \in Nat, slots <= slots', Len(frames') = Len(frames)
  PROVE  scope' \in Scopes(slots') /\ Len(scope') = Len(frames')
BY Typed, WiderScopes

\* A statement that takes one source: what it stores decides the heap only.
LEMMA SourceType ==
  ASSUME TypeInv, NEW h \in Heap, h.made = heap.made, Room(1), NEW except,
         NEW src \in Sources(except, h),
         heap' \in Heap, frames' = src.fs, slots' = slots + src.used,
         UNCHANGED <<deep, scope, running, out>>
  PROVE  TypeInv'
<1>1. PICK g, o, fs, u : Drawn(except, h, g, o, fs, u) /\ fs = src.fs /\ u = src.used
  BY Typed, SourceDrawn
<1>2. /\ slots' \in 0..MaxSlots /\ slots <= slots' /\ frames' \in FrameLists(slots')
      /\ Len(frames') = Len(frames)
  BY <1>1, DrawnType
<1>3. slots' \in Nat /\ Len(frames') >= 2
  BY <1>2, Typed
<1>4. scope' \in Scopes(slots') /\ Len(scope') = Len(frames')
  BY <1>2, <1>3, ScopeKept
<1>5. deep' \in BOOLEAN /\ running' \in BOOLEAN /\ out' \in Headers
  BY DEF TypeInv, TypeOK
<1>6. QED BY <1>2, <1>3, <1>4, <1>5, TypeNext

\* A row's header in an acc's chunks, in another's place.
Placed(h, c, o, new) == [h EXCEPT !.held[c] = (@ \ {o}) \cup ({new} \ {None})]
\* An element of an acc replaced by another, or by nothing.
LEMMA PlacedIs ==
  ASSUME NEW h \in Heap, NEW c \in Objects, NEW o, NEW new \in Headers
  PROVE  /\ Placed(h, c, o, new) \in Heap
         /\ Placed(h, c, o, new).held[c] = (h.held[c] \ {o}) \cup ({new} \ {None})
         /\ \A d \in Objects : d # c => Placed(h, c, o, new).held[d] = h.held[d]
         /\ Placed(h, c, o, new).hdr = h.hdr /\ Placed(h, c, o, new).accs = h.accs
         /\ Placed(h, c, o, new).destroyed = h.destroyed
         /\ Placed(h, c, o, new).again = h.again /\ Placed(h, c, o, new).made = h.made
<1>1. PICK X \in SUBSET Objects : X = (h.held[c] \ {o}) \cup ({new} \ {None})
  BY DEF Heap, Headers
<1>2. Placed(h, c, o, new) = [h EXCEPT !.held[c] = X]
  BY <1>1 DEF Placed
<1>3. QED BY <1>1, <1>2 DEF Heap

\* An object known to be an acc.
Known(h, c) == [h EXCEPT !.accs = @ \cup {c}]
\* A chunk chain noted as an acc's.
LEMMA KnownIs ==
  ASSUME NEW h \in Heap, NEW c \in Objects
  PROVE  /\ Known(h, c) \in Heap /\ Known(h, c).accs = h.accs \cup {c}
         /\ Known(h, c).hdr = h.hdr /\ Known(h, c).held = h.held
         /\ Known(h, c).destroyed = h.destroyed
         /\ Known(h, c).again = h.again /\ Known(h, c).made = h.made
<1>1. PICK X \in SUBSET Objects : X = h.accs \cup {c}
  BY DEF Heap
<1>2. Known(h, c) = [h EXCEPT !.accs = X]
  BY <1>1 DEF Known
<1>3. QED BY <1>1, <1>2 DEF Heap

\* A binding, in the innermost scope.
LEMMA BindIs ==
  ASSUME TypeInv, NEW n \in Names, NEW s \in Nat, slots < s, Bind(n, s)
  PROVE  /\ scope' \in Scopes(s) /\ Len(scope') = Len(frames) /\ Len(frames) \in 1..Len(frames)
         /\ \A i \in 1..Len(frames) : i # Len(frames) => scope'[i] = scope[i]
         /\ DOMAIN scope'[Len(frames)] = DOMAIN scope[Len(frames)] \cup {n}
         /\ scope'[Len(frames)][n] = s
         /\ \A m \in DOMAIN scope[Len(frames)] : m # n => scope'[Len(frames)][m] = scope[Len(frames)][m]
<1>1. PICK l \in Nat : l = Len(scope) /\ l = Len(frames) /\ DOMAIN scope = 1..l /\ l \in 1..l
  BY Typed DEF Scopes
<1>2. PICK f : f = scope[l]
  OBVIOUS
<1>3. DOMAIN f \subseteq Names /\ \A m \in DOMAIN f : f[m] \in 1..s
  <2>1. 1..slots \subseteq 1..s
    BY Typed
  <2>2. QED BY <1>1, <1>2, <2>1, Typed
<1>4. PICK g : g = [m \in DOMAIN f \cup {n} |-> IF m = n THEN s ELSE f[m]]
  OBVIOUS
<1>5. g \in [DOMAIN f \cup {n} -> 1..s]
  <2>1. s \in 1..s
    BY Typed
  <2>2. QED BY <1>3, <1>4, <2>1
<1>6. g \in UNION {[D -> 1..s] : D \in SUBSET Names}
  BY <1>3, <1>5
<1>7. scope' = [scope EXCEPT ![l] = g]
  BY <1>1, <1>2, <1>4 DEF Bind
<1>8. scope \in Scopes(s)
  BY Typed, WiderScopes
<1>9. [scope EXCEPT ![l] = g] \in Scopes(s) /\ Len([scope EXCEPT ![l] = g]) = l
  <2> DEFINE T == UNION {[D -> 1..s] : D \in SUBSET Names}
  <2>1. scope \in Seq(T) /\ g \in T
    BY <1>6, <1>8 DEF Scopes
  <2> HIDE DEF T
  <2>2. [scope EXCEPT ![l] = g] \in Seq(T) /\ Len([scope EXCEPT ![l] = g]) = l
    BY <1>1, <2>1
  <2>3. QED BY <2>2 DEF T, Scopes
<1>10. [scope EXCEPT ![l] = g][l] = g /\ \A i \in 1..l : i # l => [scope EXCEPT ![l] = g][i] = scope[i]
  BY <1>1
<1>11. QED BY <1>1, <1>2, <1>4, <1>7, <1>9, <1>10

\* It keeps the types.
LEMMA BindType ==
  ASSUME TypeInv, NEW n \in Names, NEW s, slots < s, s <= MaxSlots, s \in Nat, Bind(n, s),
         heap' \in Heap, slots' = s, NEW fs \in FrameLists(s), Len(fs) = Len(frames),
         frames' = Registered(fs, Entry(s, n)), UNCHANGED <<deep, running, out>>
  PROVE  TypeInv'
<1>1. Len(frames) \in Nat /\ Len(frames) >= 2 /\ s \in 1..s /\ s <= s /\ n \in EntryNames
  BY Typed DEF EntryNames
<1>2. frames' \in FrameLists(slots') /\ Len(frames') = Len(frames)
  BY <1>1, RegisteredIs
<1>3. scope' \in Scopes(slots') /\ Len(scope') = Len(frames')
  BY <1>2, BindIs
<1>4. deep' \in BOOLEAN /\ running' \in BOOLEAN /\ out' \in Headers /\ slots' \in 0..MaxSlots
  BY <1>1 DEF TypeInv, TypeOK
<1>5. QED BY <1>1, <1>2, <1>3, <1>4, TypeNext

\* A step that leaves the entries' slots alone.
LEMMA RunType ==
  ASSUME TypeInv, heap' \in Heap, frames' \in FrameLists(slots), Len(frames') = Len(frames),
         out' \in Headers, running' \in BOOLEAN, UNCHANGED <<deep, scope, slots>>
  PROVE  TypeInv'
<1>1. slots' \in Nat /\ slots <= slots' /\ Len(frames') >= 2 /\ slots' \in 0..MaxSlots
  BY Typed
<1>2. scope' \in Scopes(slots') /\ Len(scope') = Len(frames')
  BY <1>1, ScopeKept
<1>3. deep' \in BOOLEAN
  BY DEF TypeInv
<1>4. QED BY <1>1, <1>2, <1>3, TypeNext

\* Every statement and every way out keeps the types.
LEMMA BindLiteralType == \A n \in Names : TypeInv /\ BindLiteral(n) => TypeInv'
<1> SUFFICES ASSUME NEW n \in Names, TypeInv, BindLiteral(n) PROVE TypeInv'
  OBVIOUS
<1>1. /\ slots + 1 \in Nat /\ slots < slots + 1 /\ slots + 1 <= MaxSlots /\ slots + 1 \in Slots
      /\ slots <= slots + 1
  BY Typed, BoundsAssumption DEF BindLiteral, Slots
<1>2. heap.made < MaxObjects
  BY Typed, BoundsAssumption DEF BindLiteral, Room
<1>3. PICK h \in Heap : h = Made(heap)
  BY <1>2, Typed, MadeIs
<1>4. Fresh(heap) \in Objects /\ Fresh(heap) \in Headers
  BY <1>2, Typed, MadeIs
<1>5. PICK g \in Heap : g = Loaded(h, slots + 1, Fresh(heap))
  BY <1>1, <1>4, LoadedIs
<1>6. heap' \in Heap
  <2>1. heap' = [g EXCEPT !.accs = IF n \in Accs THEN @ \cup {Fresh(heap)} ELSE @]
    BY <1>3, <1>5 DEF BindLiteral
  <2>2. CASE n \in Accs
    BY <1>4, <2>1, <2>2, KnownIs DEF Known
  <2>3. CASE n \notin Accs
    BY <2>1, <2>3 DEF Heap
  <2>4. QED BY <2>2, <2>3
<1>7. frames \in FrameLists(slots + 1)
  BY <1>1, Typed, WiderFrames
<1>8. /\ frames' = Registered(frames, Entry(slots + 1, n)) /\ slots' = slots + 1
      /\ Bind(n, slots + 1) /\ UNCHANGED <<deep, running, out>>
  BY DEF BindLiteral
<1>9. QED BY <1>1, <1>6, <1>7, <1>8, BindType

\* mut n = f(): two allocas, two entries.
LEMMA BindCallType == \A n \in Names : TypeInv /\ BindCall(n) => TypeInv'
<1> SUFFICES ASSUME NEW n \in Names, TypeInv, BindCall(n) PROVE TypeInv'
  OBVIOUS
<1>1. /\ slots + 1 \in Nat /\ slots + 2 \in Nat /\ slots < slots + 2 /\ slots + 2 <= MaxSlots
      /\ slots + 2 \in Slots /\ slots + 1 \in Slots /\ slots <= slots + 2
      /\ slots + 1 \in 1..(slots + 2)
  BY Typed, BoundsAssumption DEF BindCall, Slots
<1>2. heap.made < MaxObjects
  BY Typed, BoundsAssumption DEF BindCall, Room
<1>3. PICK h \in Heap : h = Made(heap)
  BY <1>2, Typed, MadeIs
<1>4. Fresh(heap) \in Objects /\ Fresh(heap) \in Headers
  BY <1>2, Typed, MadeIs
<1>5. PICK g \in Heap : g = Loaded(h, slots + 1, Fresh(heap))
  BY <1>1, <1>4, LoadedIs
<1>6. heap' = Loaded(g, slots + 2, Fresh(heap))
  BY <1>3, <1>5 DEF BindCall, FromCall, Source
<1>7. heap' \in Heap
  BY <1>1, <1>4, <1>6, LoadedIs
<1>8. PICK fs : fs = Registered(frames, Entry(slots + 1, ".rvalue.root"))
  OBVIOUS
<1>9. fs \in FrameLists(slots + 2) /\ Len(fs) = Len(frames)
  BY <1>1, <1>8, Typed, RegisteredIs DEF EntryNames
<1>10. /\ frames' = Registered(fs, Entry(slots + 2, n)) /\ slots' = slots + 2
       /\ Bind(n, slots + 2) /\ UNCHANGED <<deep, running, out>>
  BY <1>8 DEF BindCall, FromCall, Source
<1>11. QED BY <1>1, <1>7, <1>9, <1>10, BindType

\* a.push(src): at most two objects are made.
LEMMA PushType == \A a \in Accs : TypeInv /\ Push(a) => TypeInv'
<1> SUFFICES ASSUME NEW a \in Accs, TypeInv, Push(a) PROVE TypeInv'
  OBVIOUS
<1>1. PICK src \in Sources(None, heap) :
        LET h == Settled(src)
            into == IF HeaderOf(a) = None THEN Fresh(h) ELSE HeaderOf(a)
            chain == IF HeaderOf(a) = None THEN Loaded(Made(h), SlotOf(a), into) ELSE h
        IN  /\ heap' = [chain EXCEPT !.held[into] = @ \cup ({src.o} \ {None}),
                                     !.accs = @ \cup {into}]
            /\ frames' = src.fs /\ slots' = slots + src.used
  BY DEF Push
<1>2. Room(1) /\ heap.made + 1 < MaxObjects /\ heap.made < MaxObjects /\ a \in Bound
      /\ UNCHANGED <<deep, scope, running, out>>
  BY Typed, BoundsAssumption DEF Push, Room
<1>3. PICK h, o : h = Settled(src) /\ o = src.o
  OBVIOUS
<1>4. h \in Heap /\ o \in Headers /\ h.made < MaxObjects
  <2>1. Drawn(None, heap, h, o, src.fs, src.used)
    BY <1>3, Typed, SourceDrawn
  <2>2. h \in Heap /\ o \in Headers /\ h.made \in {heap.made, heap.made + 1}
    BY <1>2, <2>1, Typed, DrawnType
  <2>3. QED BY <1>2, <2>2
<1>5. PICK into, chain :
        /\ into = IF HeaderOf(a) = None THEN Fresh(h) ELSE HeaderOf(a)
        /\ chain = IF HeaderOf(a) = None THEN Loaded(Made(h), SlotOf(a), into) ELSE h
  OBVIOUS
<1>6. into \in Objects /\ chain \in Heap
  <2>1. CASE HeaderOf(a) = None
    <3>1. PICK g \in Heap : g = Made(h)
      BY <1>4, MadeIs
    <3>2. into \in Objects /\ into \in Headers
      BY <1>4, <1>5, <2>1, MadeIs
    <3>3. chain = Loaded(g, SlotOf(a), into)
      BY <1>5, <2>1, <3>1
    <3>4. QED BY <1>2, <3>2, <3>3, Typed, LoadedIs
  <2>2. CASE HeaderOf(a) # None
    BY <1>2, <1>4, <1>5, <2>2, Typed DEF Headers
  <2>3. QED BY <2>1, <2>2
<1>7. heap' = [chain EXCEPT !.held[into] = @ \cup ({o} \ {None}), !.accs = @ \cup {into}]
  BY <1>1, <1>3, <1>5
<1>8. heap' \in Heap
  <2>1. {o} \ {None} \in SUBSET Objects
    BY <1>4 DEF Headers
  <2>2. PICK X \in SUBSET Objects : X = chain.held[into] \cup ({o} \ {None})
    BY <1>6, <2>1 DEF Heap
  <2>3. PICK Y \in SUBSET Objects : Y = chain.accs \cup {into}
    BY <1>6 DEF Heap
  <2>4. heap' = [chain EXCEPT !.held[into] = X, !.accs = Y]
    BY <1>7, <2>2, <2>3
  <2>5. QED BY <1>6, <2>2, <2>3, <2>4 DEF Heap
<1>9. frames' = src.fs /\ slots' = slots + src.used
  BY <1>1
<1>10. QED BY <1>2, <1>8, <1>9, Typed, SourceType

\* x = src.
LEMMA AssignType == \A x \in Rows : TypeInv /\ Assign(x) => TypeInv'
<1> SUFFICES ASSUME NEW x \in Rows, TypeInv, Assign(x) PROVE TypeInv'
  OBVIOUS
<1>1. Room(1) /\ x \in Bound /\ UNCHANGED <<deep, scope, running, out>>
  BY DEF Assign
<1>2. {SlotOf(x)} \in SUBSET Slots
  BY <1>1, Typed
<1>3. PICK h \in Heap : h = ReleasedOld(heap, SlotOf(x)) /\ h.made = heap.made
  <2>1. ReleaseSlots(heap, {SlotOf(x)}) \in Heap
        /\ ReleaseSlots(heap, {SlotOf(x)}).made = heap.made
    BY <1>2, Typed, ReleaseIs
  <2>2. QED BY <2>1 DEF ReleasedOld
<1>4. PICK src \in Sources(x, h) :
        /\ heap' = Loaded(Settled(src), SlotOf(x), src.o)
        /\ frames' = src.fs /\ slots' = slots + src.used
  BY <1>3 DEF Assign
<1>5. Settled(src) \in Heap /\ src.o \in Headers
  <2>1. Drawn(x, h, Settled(src), src.o, src.fs, src.used)
    BY Typed, SourceDrawn
  <2>2. QED BY <1>1, <1>3, <2>1, DrawnType
<1>6. heap' \in Heap
  BY <1>1, <1>4, <1>5, Typed, LoadedIs
<1>7. QED BY <1>1, <1>3, <1>4, <1>6, SourceType

\* a[i] = src.
LEMMA AssignElementType ==
  ASSUME NEW a \in Bound \cap Accs, NEW o \in Elements(a), TypeInv, AssignElement(a, o)
  PROVE  TypeInv'
<1>1. Room(1) /\ UNCHANGED <<deep, scope, running, out>>
  BY DEF AssignElement
<1>2. o \in Objects /\ HeaderOf(a) \in Objects /\ {o} \in SUBSET Headers
  BY Typed, NoneIsNoObject DEF Elements, Headers
<1>3. PICK h \in Heap : h = Destroy(heap, {o}) /\ h.made = heap.made
  <2>1. Destroy(heap, {o}) \in Heap /\ Destroy(heap, {o}).made = heap.made
    BY <1>2, Typed, DestroyIs
  <2>2. QED BY <2>1
<1>4. PICK src \in Sources(o, h) :
        /\ heap' = [Settled(src) EXCEPT
                      !.held[HeaderOf(a)] = (@ \ {o}) \cup ({src.o} \ {None})]
        /\ frames' = src.fs /\ slots' = slots + src.used
  BY <1>3 DEF AssignElement
<1>5. Settled(src) \in Heap /\ src.o \in Headers
  <2>1. Drawn(o, h, Settled(src), src.o, src.fs, src.used)
    BY Typed, SourceDrawn
  <2>2. QED BY <1>1, <1>3, <2>1, DrawnType
<1>6. heap' = Placed(Settled(src), HeaderOf(a), o, src.o)
  BY <1>4 DEF Placed
<1>7. heap' \in Heap
  BY <1>2, <1>5, <1>6, PlacedIs
<1>8. QED BY <1>1, <1>3, <1>4, <1>7, SourceType

\* release n.
LEMMA ReleaseStmtType == \A n \in Names : TypeInv /\ ReleaseStmt(n) => TypeInv'
<1> SUFFICES ASSUME NEW n \in Names, TypeInv, ReleaseStmt(n) PROVE TypeInv'
  OBVIOUS
<1>1. n \in Bound /\ heap' = ReleaseSlots(heap, {SlotOf(n)})
      /\ frames' = (IF Owned(n) THEN Dropped(n) ELSE frames)
      /\ UNCHANGED <<deep, scope, slots, running, out>>
  BY DEF ReleaseStmt
<1>2. heap' \in Heap
  <2>1. {SlotOf(n)} \in SUBSET Slots
    BY <1>1, Typed
  <2>2. QED BY <1>1, <2>1, Typed, ReleaseIs
<1>3. frames' \in FrameLists(slots) /\ Len(frames') = Len(frames)
  <2>1. CASE Owned(n)
    BY <1>1, <2>1, Typed, DroppedIs
  <2>2. CASE ~Owned(n)
    BY <1>1, <2>2, Typed
  <2>3. QED BY <2>1, <2>2
<1>4. out' \in Headers /\ running' \in BOOLEAN
  BY <1>1 DEF TypeInv, TypeOK
<1>5. QED BY <1>1, <1>2, <1>3, <1>4, RunType

\* An empty frame opened, with an empty scope.
LEMMA OpenBlockType == TypeInv /\ OpenBlock => TypeInv'
<1> SUFFICES ASSUME TypeInv, OpenBlock PROVE TypeInv'
  OBVIOUS
<1>1. /\ frames' = Append(frames, << >>) /\ scope' = Append(scope, NoNames)
      /\ UNCHANGED <<deep, slots, heap, running, out>>
  BY DEF OpenBlock
<1>2. frames' \in FrameLists(slots) /\ Len(frames') = Len(frames) + 1
  <2>1. << >> \in Seq(Entries(slots))
    OBVIOUS
  <2>2. QED BY <1>1, <2>1, Typed DEF FrameLists
<1>3. scope' \in Scopes(slots) /\ Len(scope') = Len(scope) + 1
  <2> DEFINE T == UNION {[D -> 1..slots] : D \in SUBSET Names}
  <2>1. NoNames \in T
    <3>1. NoNames \in [{} -> 1..slots]
      BY DEF NoNames
    <3>2. QED BY <3>1
  <2>2. scope \in Seq(T)
    BY Typed DEF Scopes
  <2> HIDE DEF T
  <2>3. Append(scope, NoNames) \in Seq(T) /\ Len(Append(scope, NoNames)) = Len(scope) + 1
    BY <2>1, <2>2
  <2>4. QED BY <1>1, <2>3 DEF T, Scopes
<1>4. deep' \in BOOLEAN /\ out' \in Headers /\ running' \in BOOLEAN /\ heap' \in Heap /\ slots' \in 0..MaxSlots
  BY <1>1 DEF TypeInv, TypeOK
<1>5. Len(scope') = Len(frames') /\ Len(frames') >= 2
  BY <1>2, <1>3, Typed
<1>6. QED BY <1>1, <1>2, <1>3, <1>4, <1>5, TypeNext

\* What the innermost frame lists.
LEMMA LastIs ==
  ASSUME TypeInv
  PROVE  /\ Last(frames) = frames[Len(frames)] /\ Last(frames) \in Seq(Entries(slots))
         /\ SlotsIn(Last(frames)) \in SUBSET Slots /\ AllSlots \in SUBSET Slots
<1>1. Last(frames) = frames[Len(frames)] /\ frames[Len(frames)] \in Seq(Entries(slots))
  BY Typed DEF FrameLists, Last
<1>2. 1..slots \subseteq Slots
  BY Typed, BoundsAssumption DEF Slots
<1>3. QED BY <1>1, <1>2, Typed, SlotsInIs, AllSlotsIs

\* A frame closed, with the names bound in it.
LEMMA CloseBlockType == TypeInv /\ CloseBlock => TypeInv'
<1> SUFFICES ASSUME TypeInv, CloseBlock PROVE TypeInv'
  OBVIOUS
<1>1. Len(frames) > 2 /\ heap' = ReleaseSlots(heap, SlotsIn(Last(frames)))
      /\ scope' = Front(scope) /\ frames' = Front(frames)
      /\ UNCHANGED <<deep, slots, running, out>>
  BY DEF CloseBlock, Left
<1>2. heap' \in Heap
  BY <1>1, Typed, LastIs, ReleaseIs
<1>3. PICK m \in Nat : m = Len(frames) /\ m = Len(scope)
  BY Typed
<1>4. frames' \in FrameLists(slots) /\ Len(frames') = m - 1 /\ m - 1 >= 2
  <2> DEFINE T == Seq(Entries(slots))
  <2>1. frames \in Seq(T)
    BY Typed DEF FrameLists
  <2> HIDE DEF T
  <2>2. m \in Nat /\ m = Len(frames) /\ m > 0 /\ m - 1 >= 2
    BY <1>1, <1>3
  <2>3. Front(frames) \in Seq(T) /\ Len(Front(frames)) = m - 1
    BY <2>1, <2>2, FrontIs
  <2>4. QED BY <1>1, <2>2, <2>3 DEF T, FrameLists
<1>5. scope' \in Scopes(slots) /\ Len(scope') = m - 1
  <2> DEFINE T == UNION {[D -> 1..slots] : D \in SUBSET Names}
  <2>1. scope \in Seq(T)
    BY Typed DEF Scopes
  <2> HIDE DEF T
  <2>2. Front(scope) \in Seq(T) /\ Len(Front(scope)) = m - 1
    BY <1>1, <1>3, <2>1, FrontIs
  <2>3. QED BY <1>1, <2>2 DEF T, Scopes
<1>6. deep' \in BOOLEAN /\ running' \in BOOLEAN /\ out' \in Headers /\ slots' \in 0..MaxSlots
  BY <1>1 DEF TypeInv, TypeOK
<1>7. QED BY <1>1, <1>2, <1>4, <1>5, <1>6, TypeNext

\* Leaving the function.
LEMMA ReturnType ==
  ASSUME TypeInv, NEW h \in Heap, NEW o \in Headers, Return(h, o)
  PROVE  TypeInv'
<1>1. heap' \in Heap /\ out' \in Headers /\ running' \in BOOLEAN /\ UNCHANGED <<deep, frames, scope, slots>>
  BY DEF Return
<1>2. QED BY <1>1, Typed, RunType

\* A body ending in a name.
LEMMA TailNameType == \A n \in Names : TypeInv /\ TailName(n) => TypeInv'
<1> SUFFICES ASSUME NEW n \in Names, TypeInv, TailName(n) PROVE TypeInv'
  OBVIOUS
<1>1. n \in Bound /\ Return(ReleaseSlots(heap, TransferredOut(n)), HeaderOf(n))
  BY DEF TailName
<1>2. TransferredOut(n) \in SUBSET Slots
  <2>1. CASE HasEntry(Last(frames), n)
    <3>1. PICK j \in 1..Len(Last(frames)) : WithoutEntry(Last(frames), n) = RemoveAt(Last(frames), j)
      BY <2>1, LastIs, WithoutEntryIs
    <3>2. WithoutEntry(Last(frames), n) \in Seq(Entries(slots))
      BY <3>1, LastIs, RemovedIs
    <3>3. SlotsIn(WithoutEntry(Last(frames), n)) \subseteq 1..slots /\ 1..slots \subseteq Slots
      BY <3>2, SlotsInIs, Typed, BoundsAssumption DEF Slots
    <3>4. QED BY <2>1, <3>3 DEF TransferredOut
  <2>2. CASE ~HasEntry(Last(frames), n)
    BY <2>2, LastIs DEF TransferredOut
  <2>3. QED BY <2>1, <2>2
<1>3. ReleaseSlots(heap, TransferredOut(n)) \in Heap
  BY <1>2, Typed, ReleaseIs
<1>4. QED BY <1>1, <1>3, Typed, ReturnType

\* A body ending in an element.
LEMMA TailElementType ==
  ASSUME NEW a \in Bound \cap Accs, NEW o \in Elements(a), TypeInv, TailElement(o)
  PROVE  TypeInv'
<1>1. Room(1) /\ Return(ReleaseSlots(Borrowed(heap, o).h, SlotsIn(Last(frames))), Borrowed(heap, o).o)
  BY DEF TailElement
<1>2. heap.made < MaxObjects
  BY <1>1, Typed, BoundsAssumption DEF Room
<1>3. Borrowed(heap, o).h \in Heap /\ Borrowed(heap, o).o \in Headers
  <2>1. CASE o = None
    BY <2>1, Typed, NoneIsNoObject DEF Borrowed, Source
  <2>2. CASE o # None
    BY <1>2, <2>2, Typed, MadeIs, ClonedIs DEF Borrowed, Source
  <2>3. QED BY <2>1, <2>2
<1>4. ReleaseSlots(Borrowed(heap, o).h, SlotsIn(Last(frames))) \in Heap
  BY <1>3, LastIs, ReleaseIs
<1>5. QED BY <1>1, <1>3, <1>4, ReturnType

\* A body ending in a call.
LEMMA TailCallType == TypeInv /\ TailCall => TypeInv'
<1> SUFFICES ASSUME TypeInv, TailCall PROVE TypeInv'
  OBVIOUS
<1>1. /\ Room(1) /\ slots < MaxSlots /\ "fresh" \in Shapes
      /\ Return(ReleaseSlots(FromCall(heap).h, SlotsIn(Last(FromCall(heap).fs))), FromCall(heap).o)
  BY DEF TailCall
<1>2. PICK h, o, fs : h = FromCall(heap).h /\ o = FromCall(heap).o /\ fs = FromCall(heap).fs
  OBVIOUS
<1>3. Calls(heap, h, o, fs, 1)
  BY <1>1, <1>2 DEF FromCall, Source, Calls
<1>4. Drawn(None, heap, h, o, fs, 1)
  BY <1>3 DEF Drawn
<1>5. h \in Heap /\ o \in Headers /\ fs \in FrameLists(slots + 1) /\ Len(fs) = Len(frames)
      /\ slots + 1 \in 0..MaxSlots
  BY <1>1, <1>4, Typed, DrawnType
<1>6. SlotsIn(Last(fs)) \in SUBSET Slots
  <2>1. Last(fs) \in Seq(Entries(slots + 1))
    BY <1>5, Typed DEF FrameLists, Last
  <2>2. 1..(slots + 1) \subseteq Slots
    BY <1>5, BoundsAssumption DEF Slots
  <2>3. QED BY <2>1, <2>2, SlotsInIs
<1>7. ReleaseSlots(h, SlotsIn(Last(fs))) \in Heap
  BY <1>5, <1>6, ReleaseIs
<1>8. QED BY <1>1, <1>2, <1>5, <1>7, ReturnType

\* An early return, of a row or of nothing.
LEMMA YieldType ==
  ASSUME TypeInv, NEW o \in Headers, Return(ReleaseSlots(heap, AllSlots), o)
  PROVE  TypeInv'
<1>1. ReleaseSlots(heap, AllSlots) \in Heap
  BY Typed, LastIs, ReleaseIs
<1>2. QED BY <1>1, ReturnType

\* A step of any kind.
LEMMA TypeStep == TypeInv /\ [Next]_vars => TypeInv'
<1> SUFFICES ASSUME TypeInv, [Next]_vars PROVE TypeInv'
  OBVIOUS
<1>1. CASE \E n \in Names : BindLiteral(n) \/ BindCall(n) \/ ReleaseStmt(n)
  BY <1>1, BindLiteralType, BindCallType, ReleaseStmtType
<1>2. CASE \E a \in Accs : Push(a)
  BY <1>2, PushType
<1>3. CASE \E x \in Rows : Assign(x)
  BY <1>3, AssignType
<1>4. CASE \E a \in Bound \cap Accs : \E o \in Elements(a) : AssignElement(a, o) \/ TailElement(o)
  <2>1. PICK a \in Bound \cap Accs : \E o \in Elements(a) : AssignElement(a, o) \/ TailElement(o)
    BY <1>4
  <2>2. PICK o \in Elements(a) : AssignElement(a, o) \/ TailElement(o)
    BY <2>1
  <2>3. QED BY <2>2, AssignElementType, TailElementType
<1>5. CASE OpenBlock \/ CloseBlock \/ TailCall
  BY <1>5, OpenBlockType, CloseBlockType, TailCallType
<1>6. CASE YieldNothing
  BY <1>6, YieldType, NoneIsNoObject DEF YieldNothing
<1>7. CASE \E n \in Names : TailName(n) \/ YieldName(n)
  <2>1. PICK n \in Names : TailName(n) \/ YieldName(n)
    BY <1>7
  <2>2. CASE YieldName(n)
    BY <2>2, Typed, YieldType DEF YieldName
  <2>3. QED BY <2>1, <2>2, TailNameType
<1>8. CASE UNCHANGED vars
  BY <1>8 DEF vars, TypeInv, TypeOK, Bound
<1>9. QED BY <1>1, <1>2, <1>3, <1>4, <1>5, <1>6, <1>7, <1>8 DEF Next

\* The types at the start.
LEMMA TypeInit == Init => TypeInv
<1> SUFFICES ASSUME Init PROVE TypeInv
  OBVIOUS
<1>1. /\ deep \in BOOLEAN /\ frames = << << >>, << >> >>
      /\ scope = <<NoNames, NoNames>> /\ slots = 0
      /\ heap = [hdr |-> [s \in Slots |-> None], held |-> [o \in Objects |-> {}],
                 accs |-> {}, destroyed |-> {}, again |-> {}, made |-> 0]
      /\ running = TRUE /\ out = None
  BY DEF Init
<1>2. heap \in Heap
  <2>1. 0 \in 0..MaxObjects
    BY BoundsAssumption
  <2>2. QED BY <1>1, <2>1, NoneIsNoObject DEF Heap
<1>3. Len(frames) >= 2 /\ frames \in Seq(Seq([slot : 1..slots, name : Names \cup {".rvalue.root"}]))
  BY <1>1
<1>4. slots \in 0..MaxSlots /\ running \in BOOLEAN /\ out \in Headers
  BY <1>1, NoneIsNoObject, BoundsAssumption
<1>5. scope \in Seq(UNION {[D -> 1..slots] : D \in SUBSET Names}) /\ Len(scope) = Len(frames)
  <2> DEFINE T == UNION {[D -> 1..slots] : D \in SUBSET Names}
  <2>1. NoNames \in T
    <3>1. NoNames \in [{} -> 1..slots]
      BY DEF NoNames
    <3>2. QED BY <3>1
  <2> HIDE DEF T
  <2>2. <<NoNames, NoNames>> \in Seq(T) /\ Len(<<NoNames, NoNames>>) = 2
    BY <2>1
  <2>3. QED BY <1>1, <2>2 DEF T
<1>6. QED BY <1>1, <1>2, <1>3, <1>4, <1>5 DEF TypeInv, TypeOK

\* Bookkeeping and heap keep their shapes: an entry's slot is an alloca made, a
\* name in scope lies in a frame that is open, an object is one that was made.
THEOREM TypeCorrect == Spec => []TypeOK
<1>1. TypeInv => TypeOK
  BY DEF TypeInv
<1>2. QED BY <1>1, TypeInit, TypeStep, PTL DEF Spec

-----------------------------------------------------------------------------
(* The discipline of the heap.                                             *)

\* What a release of the header of o would destroy, o itself included.
Crit(h) == IF deep THEN Objects ELSE h.accs
Loose(h, o) == (\A s \in Slots : h.hdr[s] # o) /\ (\A c \in Objects : o \notin h.held[c])
Single(h, o) ==
  /\ \A s, t \in Slots : h.hdr[s] = o /\ h.hdr[t] = o => s = t
  /\ \A s \in Slots, c \in Objects : h.hdr[s] = o => o \notin h.held[c]
  /\ \A c, d \in Objects : o \in h.held[c] /\ o \in h.held[d] => c = d

\* Every object a release would destroy has one holder, none once destroyed;
\* chunks hold rows only; an address not given out yet is nowhere.
Well(h) ==
  /\ h \in Heap
  /\ \A o \in Objects : o \in Crit(h) => Single(h, o)
  /\ \A o \in h.destroyed : o \in Crit(h) /\ Loose(h, o)
  /\ h.again = {}
  /\ \A c \in Objects : \A o \in h.held[c] : c \in h.accs /\ o \notin h.accs
  /\ \A o \in Objects : h.made < o => Loose(h, o) /\ o \notin h.accs /\ o \notin h.destroyed

\* A row's header that may be stored.
Free(h, o) ==
  o \in Objects => o <= h.made /\ o \notin h.destroyed /\ o \notin h.accs /\ (o \in Crit(h) => Loose(h, o))

\* The heap after a step is as good as the value the step gives it.
LEMMA WellNext == ASSUME NEW h, Well(h), heap' = h, deep' = deep PROVE Well(heap)'
BY DEF Well, Crit, Single, Loose

\* Fewer holders, and destroyed objects that have none.
LEMMA WellShrunk ==
  ASSUME NEW h, Well(h), NEW g \in Heap, g.accs = h.accs, g.made = h.made,
         NEW X \in SUBSET Objects, g.destroyed = h.destroyed \cup X, g.again = {},
         \A s \in Slots : g.hdr[s] = h.hdr[s] \/ g.hdr[s] = None,
         \A c \in Objects : g.held[c] \subseteq h.held[c],
         \A o \in X : o \in Crit(h) /\ Loose(g, o) /\ o <= h.made
  PROVE  Well(g) /\ \A o \in Objects : Loose(h, o) => Loose(g, o)
<1>1. \A o \in Objects : o # None
  BY NoneIsNoObject
<1>2. \A o \in Objects : Loose(h, o) => Loose(g, o)
  BY <1>1 DEF Loose
<1>3. Crit(g) = Crit(h)
  BY DEF Crit
<1>4. \A o \in Objects : Single(h, o) => Single(g, o)
  BY <1>1 DEF Single
<1>5. \A o \in Objects : o \in Crit(g) => Single(g, o)
  BY <1>3, <1>4 DEF Well
<1>6. \A o \in g.destroyed : o \in Crit(g) /\ Loose(g, o)
  <2>1. h.destroyed \subseteq Objects
    BY DEF Well, Heap
  <2>2. QED BY <1>2, <1>3, <2>1 DEF Well
<1>7. \A c \in Objects : \A o \in g.held[c] : c \in g.accs /\ o \notin g.accs
  BY DEF Well
<1>8. \A o \in Objects : g.made < o => Loose(g, o) /\ o \notin g.accs /\ o \notin g.destroyed
  <2>1. \A o \in Objects : h.made < o => ~(o <= h.made)
    BY BoundsAssumption DEF Objects, Heap, Well
  <2>2. QED BY <1>2, <2>1 DEF Well
<1>9. QED BY <1>2, <1>5, <1>6, <1>7, <1>8 DEF Well

\* An object that is held has been made.
LEMMA HeldMade ==
  ASSUME NEW h, Well(h), NEW o \in Objects, ~Loose(h, o)
  PROVE  o <= h.made
<1>1. ~(h.made < o)
  BY DEF Well
<1>2. h.made \in Int /\ o \in Int
  BY BoundsAssumption DEF Well, Heap, Objects
<1>3. QED BY <1>1, <1>2

\* What a release of slots walks had a holder, hence was whole.
LEMMA HitHeld ==
  ASSUME NEW h, Well(h), NEW H \in SUBSET Headers,
         \A o \in H : o \in Objects => ~Loose(h, o),
         NEW x \in Hit(h, H)
  PROVE  x \in Objects /\ x \in Crit(h) /\ ~Loose(h, x) /\ x \notin h.destroyed
         /\ (x \in H \/ \E c \in H : c \in Objects /\ x \in h.held[c])
<1>1. h \in Heap
  BY DEF Well
<1>2. x \in Objects
  BY <1>1, DestroyIs
<1>3. x \in Walked(h, H) /\ (~deep => x \in h.accs)
  BY DEF Hit
<1>4. H \ {None} \subseteq Objects
  BY DEF Headers
<1>5. x \in H \/ \E c \in H : c \in Objects /\ x \in h.held[c]
  BY <1>3, <1>4 DEF Walked
<1>6. ~Loose(h, x)
  BY <1>2, <1>5 DEF Loose
<1>7. x \in Crit(h)
  BY <1>2, <1>3 DEF Crit
<1>8. x \notin h.destroyed
  BY <1>6 DEF Well
<1>9. QED BY <1>2, <1>5, <1>6, <1>7, <1>8

\* A release of slots destroys what nothing else shows.
LEMMA WellReleased ==
  ASSUME NEW h, Well(h), NEW S \in SUBSET Slots
  PROVE  /\ Well(ReleaseSlots(h, S))
         /\ \A o \in Objects : Loose(h, o) => Loose(ReleaseSlots(h, S), o)
<1>1. h \in Heap /\ h.hdr \in [Slots -> Headers]
  BY DEF Well, Heap
<1>2. PICK g, H : g = ReleaseSlots(h, S) /\ H = HeadersIn(h, S)
  OBVIOUS
<1>3. /\ g \in Heap /\ H \in SUBSET Headers
      /\ g.hdr = [s \in Slots |-> IF s \in S THEN None ELSE h.hdr[s]]
      /\ g.accs = h.accs /\ g.made = h.made
      /\ g.destroyed = h.destroyed \cup Hit(h, H)
      /\ g.again = h.again \cup (h.destroyed \cap Hit(h, H))
      /\ g.held = [o \in Objects |-> IF o \in H THEN {} ELSE h.held[o]]
  BY <1>1, <1>2, ReleaseIs
<1>4. \A o \in H : \E s \in S : h.hdr[s] = o
  BY <1>2 DEF HeadersIn
<1>5. \A s \in S : h.hdr[s] \in H
  BY <1>2 DEF HeadersIn
<1>6. \A o \in H : o \in Objects => ~Loose(h, o)
  BY <1>4 DEF Loose
<1>7. Hit(h, H) \in SUBSET Objects
  BY <1>1, <1>3, DestroyIs
<1>8. g.again = {}
  <2>1. h.destroyed \cap Hit(h, H) = {}
    BY <1>6, <1>3, HitHeld
  <2>2. QED BY <1>3, <2>1 DEF Well
<1>9. ASSUME NEW o \in Hit(h, H) PROVE o \in Crit(h) /\ Loose(g, o) /\ o <= h.made
  <2>1. /\ o \in Objects /\ o \in Crit(h) /\ ~Loose(h, o)
        /\ (o \in H \/ \E c \in H : c \in Objects /\ o \in h.held[c])
    BY <1>6, <1>3, HitHeld
  <2>2. o # None /\ Single(h, o) /\ o <= h.made
    BY <2>1, NoneIsNoObject, HeldMade DEF Well
  <2>3. CASE o \in H
    <3>1. PICK s \in S : h.hdr[s] = o
      BY <1>4, <2>3
    <3>2. \A t \in Slots : h.hdr[t] = o => t \in S
      BY <2>2, <3>1 DEF Single
    <3>3. \A c \in Objects : o \notin h.held[c]
      BY <2>2, <3>1 DEF Single
    <3>4. \A t \in Slots : g.hdr[t] # o
      BY <1>3, <2>2, <3>2
    <3>5. \A c \in Objects : o \notin g.held[c]
      BY <1>3, <3>3
    <3>6. QED BY <2>1, <2>2, <3>4, <3>5 DEF Loose
  <2>4. CASE \E c \in H : c \in Objects /\ o \in h.held[c]
    <3>1. PICK c \in H : c \in Objects /\ o \in h.held[c]
      BY <2>4
    <3>2. \A t \in Slots : h.hdr[t] # o
      BY <2>2, <3>1 DEF Single
    <3>3. \A d \in Objects : o \in h.held[d] => d = c
      BY <2>2, <3>1 DEF Single
    <3>4. \A t \in Slots : g.hdr[t] # o
      BY <1>3, <2>2, <3>2
    <3>5. \A d \in Objects : o \notin g.held[d]
      BY <1>3, <3>1, <3>3
    <3>6. QED BY <2>1, <2>2, <3>4, <3>5 DEF Loose
  <2>5. QED BY <2>1, <2>3, <2>4
<1>10. /\ \A s \in Slots : g.hdr[s] = h.hdr[s] \/ g.hdr[s] = None
      /\ \A c \in Objects : g.held[c] \subseteq h.held[c]
  BY <1>3
<1>11. QED BY <1>2, <1>3, <1>7, <1>8, <1>9, <1>10, WellShrunk

\* A free header may be stored in an alloca, over whatever is there.
LEMMA WellLoaded ==
  ASSUME NEW h, Well(h), NEW s \in Slots, NEW o \in Headers, Free(h, o)
  PROVE  /\ Well(Loaded(h, s, o))
         /\ \A x \in Objects : x # o /\ Loose(h, x) => Loose(Loaded(h, s, o), x)
<1>1. h \in Heap /\ h.made \in Int /\ \A x \in Objects : x \in Int
  BY BoundsAssumption DEF Well, Heap, Objects
<1>2. PICK g : g = Loaded(h, s, o)
  OBVIOUS
<1>3. /\ g \in Heap /\ g.hdr[s] = o /\ \A t \in Slots : t # s => g.hdr[t] = h.hdr[t]
      /\ g.held = h.held /\ g.accs = h.accs /\ g.destroyed = h.destroyed
      /\ g.again = h.again /\ g.made = h.made
  BY <1>1, <1>2, LoadedIs
<1>4. \A x \in Objects : x # o /\ Loose(h, x) => Loose(g, x)
  BY <1>3 DEF Loose
<1>5. Crit(g) = Crit(h)
  BY <1>3 DEF Crit
<1>6. ASSUME NEW x \in Objects, x \in Crit(g) PROVE Single(g, x)
  <2>1. Single(h, x)
    BY <1>5, <1>6 DEF Well
  <2>2. CASE x = o
    <3>1. Loose(h, x)
      BY <1>5, <1>6, <2>2 DEF Free
    <3>2. QED BY <1>3, <2>2, <3>1 DEF Loose, Single
  <2>3. CASE x # o
    BY <1>3, <2>1, <2>3 DEF Single
  <2>4. QED BY <2>2, <2>3
<1>7. \A x \in g.destroyed : x \in Crit(g) /\ Loose(g, x)
  <2>1. ASSUME NEW x \in g.destroyed PROVE x \in Crit(g) /\ Loose(g, x)
    <3>1. x \in Objects /\ x \in h.destroyed
      BY <1>3 DEF Heap
    <3>2. x # o
      BY <3>1 DEF Free
    <3>3. QED BY <1>4, <1>5, <3>1, <3>2 DEF Well
  <2>2. QED BY <2>1
<1>8. \A c \in Objects : \A x \in g.held[c] : c \in g.accs /\ x \notin g.accs
  BY <1>3 DEF Well
<1>9. ASSUME NEW x \in Objects, g.made < x
      PROVE  Loose(g, x) /\ x \notin g.accs /\ x \notin g.destroyed
  <2>1. x # o
    BY <1>1, <1>3, <1>9 DEF Free
  <2>2. QED BY <1>3, <1>4, <1>9, <2>1 DEF Well
<1>10. g.again = {}
  BY <1>3 DEF Well
<1>11. Well(g)
  BY <1>3, <1>6, <1>7, <1>8, <1>9, <1>10 DEF Well
<1>12. QED BY <1>2, <1>4, <1>11

\* A new chunk chain is free.
LEMMA WellMade ==
  ASSUME NEW h, Well(h), h.made < MaxObjects
  PROVE  /\ Well(Made(h)) /\ Free(Made(h), Fresh(h)) /\ Loose(Made(h), Fresh(h))
         /\ \A x : Free(h, x) => Free(Made(h), x)
         /\ \A x : Loose(h, x) => Loose(Made(h), x)
<1>1. h \in Heap /\ h.made \in Int /\ \A x \in Objects : x \in Int
  BY BoundsAssumption DEF Well, Heap, Objects
<1>2. PICK g, f : g = Made(h) /\ f = Fresh(h)
  OBVIOUS
<1>3. /\ g \in Heap /\ f \in Objects /\ g.made = f /\ f = h.made + 1
      /\ g.hdr = h.hdr /\ g.held = h.held /\ g.accs = h.accs
      /\ g.destroyed = h.destroyed /\ g.again = h.again
  BY <1>1, <1>2, MadeIs
<1>4. Crit(g) = Crit(h) /\ (\A x : Loose(g, x) <=> Loose(h, x)) /\ (\A x : Single(g, x) <=> Single(h, x))
  BY <1>3 DEF Crit, Loose, Single
<1>5. h.made < f /\ f <= g.made /\ \A x \in Objects : (g.made < x => h.made < x) /\ (x <= h.made => x <= g.made)
  BY <1>1, <1>3
<1>6. Well(g)
  BY <1>3, <1>4, <1>5 DEF Well
<1>7. Loose(g, f) /\ f \notin g.accs /\ f \notin g.destroyed
  BY <1>3, <1>4, <1>5 DEF Well
<1>8. \A x : Free(h, x) => Free(g, x)
  BY <1>3, <1>4, <1>5 DEF Free
<1>9. Free(g, f)
  BY <1>5, <1>7 DEF Free
<1>10. QED BY <1>2, <1>4, <1>6, <1>7, <1>8, <1>9

\* A free header may be stored in an acc's chunks, in another's place.
LEMMA WellPlaced ==
  ASSUME NEW h, Well(h), NEW c \in Objects, c \in h.accs, NEW o, NEW new \in Headers, Free(h, new)
  PROVE  Well(Placed(h, c, o, new))
<1>1. h \in Heap /\ h.made \in Int /\ \A x \in Objects : x \in Int
  BY BoundsAssumption DEF Well, Heap, Objects
<1>2. PICK g : g = Placed(h, c, o, new)
  OBVIOUS
<1>3. /\ g \in Heap /\ g.held[c] = (h.held[c] \ {o}) \cup ({new} \ {None})
      /\ \A d \in Objects : d # c => g.held[d] = h.held[d]
      /\ g.hdr = h.hdr /\ g.accs = h.accs /\ g.destroyed = h.destroyed
      /\ g.again = h.again /\ g.made = h.made
  BY <1>1, <1>2, PlacedIs
<1>4. \A d \in Objects, x \in Objects : x # new /\ x \in g.held[d] => x \in h.held[d]
  BY <1>3
<1>5. \A d \in Objects : new \in g.held[d] => new \in h.held[d] \/ (d = c /\ new \in Objects)
  <2>1. new # None => new \in Objects
    BY DEF Headers
  <2>2. QED BY <1>3, <2>1
<1>6. \A x \in Objects : x # new /\ Loose(h, x) => Loose(g, x)
  BY <1>3, <1>4 DEF Loose
<1>7. Crit(g) = Crit(h)
  BY <1>3 DEF Crit
<1>8. ASSUME NEW x \in Objects, x \in Crit(g) PROVE Single(g, x)
  <2>1. Single(h, x)
    BY <1>7, <1>8 DEF Well
  <2>2. CASE x = new
    <3>1. Loose(h, x)
      BY <1>7, <1>8, <2>2 DEF Free
    <3>2. \A d \in Objects : x \in g.held[d] => d = c
      BY <1>5, <2>2, <3>1 DEF Loose
    <3>3. QED BY <1>3, <3>1, <3>2 DEF Loose, Single
  <2>3. CASE x # new
    BY <1>3, <1>4, <2>1, <2>3 DEF Single
  <2>4. QED BY <2>2, <2>3
<1>9. \A x \in g.destroyed : x \in Crit(g) /\ Loose(g, x)
  <2>1. ASSUME NEW x \in g.destroyed PROVE x \in Crit(g) /\ Loose(g, x)
    <3>1. x \in Objects /\ x \in h.destroyed
      BY <1>3 DEF Heap
    <3>2. x # new
      BY <3>1 DEF Free
    <3>3. QED BY <1>6, <1>7, <3>1, <3>2 DEF Well
  <2>2. QED BY <2>1
<1>10. ASSUME NEW d \in Objects, NEW x \in g.held[d] PROVE d \in g.accs /\ x \notin g.accs
  <2>1. x \in Objects
    BY <1>3 DEF Heap
  <2>2. CASE x = new /\ x \notin h.held[d]
    BY <1>3, <1>5, <2>1, <2>2 DEF Free
  <2>3. CASE x \in h.held[d]
    BY <1>3, <2>3 DEF Well
  <2>4. QED BY <1>4, <2>1, <2>2, <2>3
<1>11. ASSUME NEW x \in Objects, g.made < x
       PROVE  Loose(g, x) /\ x \notin g.accs /\ x \notin g.destroyed
  <2>1. x # new
    BY <1>1, <1>3, <1>11 DEF Free
  <2>2. QED BY <1>3, <1>6, <1>11, <2>1 DEF Well
<1>12. g.again = {}
  BY <1>3 DEF Well
<1>13. Well(g)
  BY <1>3, <1>8, <1>9, <1>10, <1>11, <1>12 DEF Well
<1>14. QED BY <1>2, <1>13

\* An object that no chunk holds may become an acc.
LEMMA WellKnown ==
  ASSUME NEW h, Well(h), NEW c \in Objects, c <= h.made, Single(h, c),
         \A d \in Objects : c \notin h.held[d]
  PROVE  Well(Known(h, c))
<1>1. h \in Heap /\ h.made \in Int /\ \A x \in Objects : x \in Int
  BY BoundsAssumption DEF Well, Heap, Objects
<1>2. PICK g : g = Known(h, c)
  OBVIOUS
<1>3. /\ g \in Heap /\ g.accs = h.accs \cup {c} /\ g.hdr = h.hdr /\ g.held = h.held
      /\ g.destroyed = h.destroyed /\ g.again = h.again /\ g.made = h.made
  BY <1>1, <1>2, KnownIs
<1>4. \A x \in Objects : (Loose(g, x) <=> Loose(h, x)) /\ (Single(g, x) <=> Single(h, x))
  BY <1>3 DEF Loose, Single
<1>5. \A x \in Objects : (x \in Crit(g) => x \in Crit(h) \/ x = c) /\ (x \in Crit(h) => x \in Crit(g))
  BY <1>3 DEF Crit
<1>6. \A x \in Objects : x \in Crit(g) => Single(g, x)
  BY <1>4, <1>5 DEF Well
<1>7. \A x \in g.destroyed : x \in Crit(g) /\ Loose(g, x)
  <2>1. h.destroyed \subseteq Objects
    BY <1>1 DEF Heap
  <2>2. QED BY <1>3, <1>4, <1>5, <2>1 DEF Well
<1>8. \A d \in Objects : \A x \in g.held[d] : d \in g.accs /\ x \notin g.accs
  BY <1>3 DEF Well
<1>9. \A x \in Objects : g.made < x => x # c /\ Loose(g, x) /\ x \notin g.accs /\ x \notin g.destroyed
  BY <1>1, <1>3, <1>4 DEF Well
<1>10. g.again = {}
  BY <1>3 DEF Well
<1>11. Well(g)
  BY <1>3, <1>6, <1>7, <1>8, <1>9, <1>10 DEF Well
<1>12. QED BY <1>2, <1>11

-----------------------------------------------------------------------------
(* The discipline of the entries.                                          *)

\* An entry of the i-th frame is that of a name bound in the i-th scope, or of a
\* spill slot no name has.
Files(e, i, sc) ==
  \/ e.name \in DOMAIN sc[i] /\ sc[i][e.name] = e.slot
  \/ e.name = ".rvalue.root" /\ \A k \in 1..Len(sc) : \A n \in DOMAIN sc[k] : sc[k][n] # e.slot
Once(f) == \A j, k \in 1..Len(f) : f[j].name = f[k].name /\ f[j].name \in Names => j = k
Filed(fs, sc) ==
  \A i \in 1..Len(fs) : (\A j \in 1..Len(fs[i]) : Files(fs[i][j], i, sc)) /\ Once(fs[i])
Apart(sc) ==
  \A i, k \in 1..Len(sc) : \A n \in DOMAIN sc[i], m \in DOMAIN sc[k] :
    sc[i][n] = sc[k][m] => i = k /\ n = m

\* One more entry.
LEMMA FiledMore ==
  ASSUME NEW k, NEW fs \in FrameLists(k), Len(fs) >= 2, NEW sc, Filed(fs, sc),
         NEW r, Len(r) = Len(fs), NEW e \in Entries(k),
         \A i \in 1..Len(fs) : i # Len(fs) => r[i] = fs[i],
         r[Len(fs)] = Append(fs[Len(fs)], e),
         Files(e, Len(fs), sc),
         e.name \in Names => \A j \in 1..Len(fs[Len(fs)]) : fs[Len(fs)][j].name # e.name
  PROVE  Filed(r, sc)
<1>1. PICK l \in Nat, f \in Seq(Entries(k)) : l = Len(fs) /\ l \in 1..l /\ f = fs[l]
  <2>1. Len(fs) \in Nat /\ Len(fs) \in 1..Len(fs) /\ fs[Len(fs)] \in Seq(Entries(k))
    BY DEF FrameLists
  <2>2. QED BY <2>1
<1>2. PICK g : g = Append(f, e) /\ r[l] = g
  BY <1>1
<1>3. PICK q \in Nat : q = Len(f)
  BY <1>1
<1>4. Len(g) = q + 1 /\ g[q + 1] = e /\ (\A j \in 1..q : g[j] = f[j])
      /\ (\A j \in 1..(q + 1) : j \in 1..q \/ j = q + 1)
  BY <1>1, <1>3, <1>2
<1>5. (\A j \in 1..q : Files(f[j], l, sc)) /\ Once(f)
  BY <1>1, <1>3 DEF Filed
<1>6. \A j \in 1..Len(g) : Files(g[j], l, sc)
  BY <1>1, <1>4, <1>5
<1>7. Once(g)
  <2>1. ASSUME NEW i \in 1..Len(g), NEW j \in 1..Len(g), g[i].name = g[j].name, g[i].name \in Names
        PROVE  i = j
    <3>1. \A x \in 1..q : e.name \in Names => f[x].name # e.name
      BY <1>1, <1>3
    <3>2. CASE i \in 1..q /\ j \in 1..q
      BY <1>3, <1>4, <1>5, <2>1, <3>2 DEF Once
    <3>3. CASE i = q + 1 /\ j \in 1..q
      BY <1>4, <2>1, <3>1, <3>3
    <3>4. CASE j = q + 1 /\ i \in 1..q
      BY <1>4, <2>1, <3>1, <3>4
    <3>5. QED BY <1>4, <3>2, <3>3, <3>4
  <2>2. QED BY <2>1 DEF Once
<1>8. ASSUME NEW i \in 1..Len(r)
      PROVE  (\A j \in 1..Len(r[i]) : Files(r[i][j], i, sc)) /\ Once(r[i])
  <2>1. CASE i = l
    BY <1>1, <1>6, <1>7, <1>2, <2>1
  <2>2. CASE i # l
    BY <1>1, <2>2 DEF Filed
  <2>3. QED BY <2>1, <2>2
<1>9. QED BY <1>8 DEF Filed

\* One entry less.
LEMMA FiledLess ==
  ASSUME NEW k, NEW fs \in FrameLists(k), NEW sc, Filed(fs, sc),
         NEW r, Len(r) = Len(fs), NEW w \in 1..Len(fs), NEW j \in 1..Len(fs[w]),
         r[w] = RemoveAt(fs[w], j), \A i \in 1..Len(fs) : i # w => r[i] = fs[i]
  PROVE  Filed(r, sc)
<1>1. PICK f \in Seq(Entries(k)) : f = fs[w]
  BY DEF FrameLists
<1>2. PICK q \in Nat : q = Len(f) /\ j \in 1..q
  BY <1>1
<1>3. PICK g \in Seq(Entries(k)) : g = RemoveAt(f, j)
  BY <1>1, RemovedIs
<1>4. Len(g) = q - 1 /\ \A i \in 1..(q - 1) : g[i] = IF i < j THEN f[i] ELSE f[i + 1]
  BY <1>1, <1>2, <1>3, RemovedIs
<1>5. (\A i \in 1..q : Files(f[i], w, sc)) /\ Once(f)
  BY <1>1, <1>2 DEF Filed
<1>6. \A i \in 1..(q - 1) : i \in 1..q /\ i + 1 \in 1..q
  BY <1>2
<1>7. \A i \in 1..Len(g) : Files(g[i], w, sc)
  BY <1>4, <1>5, <1>6
<1>8. Once(g)
  <2>1. ASSUME NEW a \in 1..(q - 1), NEW b \in 1..(q - 1), g[a].name = g[b].name, g[a].name \in Names
        PROVE  a = b
    <3>1. PICK x \in 1..q : x = (IF a < j THEN a ELSE a + 1) /\ g[a] = f[x]
      BY <1>4, <1>6
    <3>2. PICK y \in 1..q : y = (IF b < j THEN b ELSE b + 1) /\ g[b] = f[y]
      BY <1>4, <1>6
    <3>3. x = y
      BY <1>2, <1>5, <2>1, <3>1, <3>2 DEF Once
    <3>4. QED BY <1>2, <3>1, <3>2, <3>3
  <2>2. QED BY <1>4, <2>1 DEF Once
<1>9. ASSUME NEW i \in 1..Len(r)
      PROVE  (\A m \in 1..Len(r[i]) : Files(r[i][m], i, sc)) /\ Once(r[i])
  <2>1. CASE i = w
    BY <1>1, <1>3, <1>7, <1>8, <2>1
  <2>2. CASE i # w
    BY <2>2 DEF Filed
  <2>3. QED BY <2>1, <2>2
<1>10. QED BY <1>9 DEF Filed

\* The frames after a source was evaluated.
LEMMA DrawnFiled ==
  ASSUME TypeInv, Filed(frames, scope),
         NEW except, NEW h, NEW g, NEW o, NEW fs, NEW u, Drawn(except, h, g, o, fs, u)
  PROVE  Filed(fs, scope)
<1>1. CASE fs = frames
  BY <1>1
<1>2. CASE \E n : Owned(n) /\ fs = Dropped(n)
  <2>1. PICK n : Owned(n) /\ fs = Dropped(n)
    BY <1>2
  <2>2. Len(fs) = Len(frames) /\ \E w \in 1..Len(frames) : \E j \in 1..Len(frames[w]) :
          fs[w] = RemoveAt(frames[w], j) /\ \A i \in 1..Len(frames) : i # w => fs[i] = frames[i]
    BY <2>1, Typed, DroppedIs
  <2>3. PICK w \in 1..Len(frames) : \E j \in 1..Len(frames[w]) :
          fs[w] = RemoveAt(frames[w], j) /\ \A i \in 1..Len(frames) : i # w => fs[i] = frames[i]
    BY <2>2
  <2>4. QED BY <2>2, <2>3, Typed, FiledLess
<1>3. CASE fs = Registered(frames, Entry(slots + 1, ".rvalue.root"))
  <2>1. /\ slots + 1 \in Nat /\ slots <= slots + 1 /\ slots + 1 \in 1..(slots + 1)
        /\ ".rvalue.root" \in EntryNames
    BY Typed DEF EntryNames
  <2>2. /\ Len(fs) = Len(frames)
        /\ \A i \in 1..Len(frames) : i # Len(frames) => fs[i] = frames[i]
        /\ fs[Len(frames)] = Append(frames[Len(frames)], Entry(slots + 1, ".rvalue.root"))
    BY <1>3, <2>1, Typed, RegisteredIs
  <2>3. PICK e : e = Entry(slots + 1, ".rvalue.root")
    OBVIOUS
  <2>4. e \in Entries(slots + 1) /\ e.name = ".rvalue.root" /\ e.slot = slots + 1
    BY <2>1, <2>3 DEF Entries, Entry
  <2>5. \A k \in 1..Len(scope) : \A n \in DOMAIN scope[k] : scope[k][n] # e.slot
    <3>1. \A s \in 1..slots : s # slots + 1
      BY Typed
    <3>2. QED BY <2>4, <3>1, Typed
  <2>6. Files(e, Len(frames), scope) /\ e.name \notin Names
    BY <2>4, <2>5, NamesAssumption DEF Files, Names
  <2>7. frames \in FrameLists(slots + 1)
    BY Typed, WiderFrames
  <2>8. QED BY <2>2, <2>3, <2>4, <2>6, <2>7, Typed, FiledMore
<1>4. QED BY <1>1, <1>2, <1>3 DEF Drawn, Nothing, Copies, Moves, Calls

\* A name bound in the innermost scope to an alloca of its own.
LEMMA FiledBound ==
  ASSUME TypeInv, NEW n \in Names, n \notin DOMAIN scope[Len(frames)],
         NEW s \in Nat, slots < s, Bind(n, s),
         NEW k \in Nat, k < s, NEW fs \in FrameLists(k), Len(fs) = Len(frames),
         Filed(fs, scope), Apart(scope)
  PROVE  Filed(Registered(fs, Entry(s, n)), scope') /\ Apart(scope')
<1>0. PICK sc : sc = scope'
  OBVIOUS
<1>1. PICK l \in Nat : sc = scope' /\ l = Len(frames)
  BY <1>0, Typed
<1>2. /\ Len(sc) = l /\ Len(scope) = l /\ l \in 1..l /\ Len(fs) = l /\ l >= 2
      /\ \A i \in 1..l : i # l => sc[i] = scope[i]
      /\ DOMAIN sc[l] = DOMAIN scope[l] \cup {n} /\ sc[l][n] = s
      /\ \A m \in DOMAIN scope[l] : m # n => sc[l][m] = scope[l][m]
  BY <1>1, BindIs, Typed
<1>3. n \notin DOMAIN scope[l]
  BY <1>1
<1>4. \A i \in 1..l : \A m \in DOMAIN sc[i] :
        (i = l /\ m = n /\ sc[i][m] = s) \/ (m \in DOMAIN scope[i] /\ sc[i][m] = scope[i][m])
  BY <1>2, <1>3
<1>5. \A i \in 1..l : \A m \in DOMAIN scope[i] : scope[i][m] # s
  <2>1. \A t \in 1..slots : t # s
    BY Typed
  <2>2. QED BY <1>2, <2>1, Typed
<1>6. Apart(sc)
  <2>1. ASSUME NEW i \in 1..l, NEW j \in 1..l, NEW a \in DOMAIN sc[i], NEW b \in DOMAIN sc[j],
               sc[i][a] = sc[j][b]
        PROVE  i = j /\ a = b
    <3>1. CASE i = l /\ a = n /\ sc[i][a] = s
      BY <1>4, <1>5, <2>1, <3>1
    <3>2. CASE a \in DOMAIN scope[i] /\ sc[i][a] = scope[i][a]
      <4>1. b \in DOMAIN scope[j] /\ sc[j][b] = scope[j][b]
        BY <1>4, <1>5, <2>1, <3>2
      <4>2. i \in 1..Len(scope) /\ j \in 1..Len(scope) /\ scope[i][a] = scope[j][b]
        BY <1>2, <2>1, <3>2, <4>1
      <4>3. Apart(scope)
        BY <1>2
      <4>4. QED BY <3>2, <4>1, <4>2, <4>3 DEF Apart
    <3>3. QED BY <1>4, <3>1, <3>2
  <2>2. QED BY <1>2, <2>1 DEF Apart
<1>7. \A i \in 1..Len(fs) : fs[i] \in Seq(Entries(k))
  BY DEF FrameLists
<1>8. \A i \in 1..Len(fs) : \A j \in 1..Len(fs[i]) : fs[i][j].slot # s
  <2>1. ASSUME NEW i \in 1..Len(fs), NEW j \in 1..Len(fs[i])
        PROVE  fs[i][j].slot # s
    <3>1. fs[i][j] \in Entries(k)
      BY <1>7
    <3>2. fs[i][j].slot \in 1..k
      BY <3>1 DEF Entries
    <3>3. QED BY <3>2
  <2>2. QED BY <2>1
<1>9. Filed(fs, sc)
  <2>1. ASSUME NEW i \in 1..Len(fs), NEW j \in 1..Len(fs[i])
        PROVE  Files(fs[i][j], i, sc)
    <3>1. PICK e : e = fs[i][j]
      OBVIOUS
    <3>2. Files(e, i, scope) /\ e.slot # s
      BY <1>8, <3>1 DEF Filed
    <3>3. CASE e.name \in DOMAIN scope[i] /\ scope[i][e.name] = e.slot
      <4>1. e.name \in DOMAIN sc[i] /\ sc[i][e.name] = scope[i][e.name]
        BY <1>2, <1>3, <3>3
      <4>2. QED BY <3>1, <3>3, <4>1 DEF Files
    <3>4. CASE e.name = ".rvalue.root" /\ \A q \in 1..Len(scope) : \A m \in DOMAIN scope[q] : scope[q][m] # e.slot
      <4>1. \A q \in 1..Len(sc) : \A m \in DOMAIN sc[q] : sc[q][m] # e.slot
        BY <1>2, <1>4, <3>2, <3>4
      <4>2. QED BY <3>1, <3>4, <4>1 DEF Files
    <3>5. QED BY <3>2, <3>3, <3>4 DEF Files
  <2>2. QED BY <2>1 DEF Filed
<1>10. \A j \in 1..Len(fs[Len(fs)]) : fs[Len(fs)][j].name # n
  <2>1. ASSUME NEW j \in 1..Len(fs[l]) PROVE fs[l][j].name # n
    <3>1. Files(fs[l][j], l, scope)
      BY <1>2 DEF Filed
    <3>2. QED BY <1>3, <3>1, NamesAssumption DEF Files, Names
  <2>2. QED BY <1>2, <2>1
<1>11. PICK e : e = Entry(s, n)
  OBVIOUS
<1>12. s \in 1..s /\ n \in EntryNames /\ k <= s /\ Len(fs) >= 2
  BY <1>2, Typed DEF EntryNames
<1>13. e \in Entries(s) /\ e.name = n /\ e.slot = s
  BY <1>11, <1>12 DEF Entry, Entries
<1>14. Files(e, l, sc)
  BY <1>2, <1>13 DEF Files
<1>15. fs \in FrameLists(s)
  BY <1>12, WiderFrames
<1>16. /\ Len(Registered(fs, Entry(s, n))) = Len(fs)
       /\ \A i \in 1..Len(fs) : i # Len(fs) => Registered(fs, Entry(s, n))[i] = fs[i]
       /\ Registered(fs, Entry(s, n))[Len(fs)] = Append(fs[Len(fs)], Entry(s, n))
  BY <1>12, RegisteredIs
<1>17. PICK r : r = Registered(fs, e)
  OBVIOUS
<1>18. /\ Len(r) = Len(fs) /\ \A i \in 1..Len(fs) : i # Len(fs) => r[i] = fs[i]
       /\ r[Len(fs)] = Append(fs[Len(fs)], e)
  BY <1>11, <1>16, <1>17
<1>19. Filed(r, sc)
  <2>1. Files(e, Len(fs), sc) /\ e.name \in EntryNames
    BY <1>2, <1>12, <1>13, <1>14
  <2>2. \A j \in 1..Len(fs[Len(fs)]) : fs[Len(fs)][j].name # e.name
    BY <1>10, <1>13
  <2>3. QED BY <1>9, <1>12, <1>13, <1>15, <1>18, <2>1, <2>2, FiledMore
<1>20. QED BY <1>1, <1>6, <1>11, <1>17, <1>19

\* The slot of a name's innermost entry is that of a binding of the name, the
\* innermost one unless the move respends.
LEMMA OwnSlot ==
  ASSUME TypeInv, Filed(frames, scope), NEW n \in Bound, Owned(n)
  PROVE  /\ \E w \in 1..Len(scope) : n \in DOMAIN scope[w] /\ EntryOf(n).slot = scope[w][n]
         /\ ~Respends(n) => EntryOf(n).slot = SlotOf(n)
<1>1. PICK w : w = OwningFrame(n)
  OBVIOUS
<1>2. /\ w \in 1..Len(frames) /\ HasEntry(frames[w], n) /\ w \in 1..Len(scope)
      /\ \A i \in 1..Len(frames) : HasEntry(frames[i], n) => i <= w
  BY <1>1, Typed, OwningFrameIs
<1>3. PICK j \in 1..Len(frames[w]) : EntryOf(n) = frames[w][j] /\ EntryOf(n).name = n
  BY <1>1, Typed, EntryIs
<1>4. Files(EntryOf(n), w, scope)
  BY <1>2, <1>3 DEF Filed
<1>5. n # ".rvalue.root"
  BY Typed, NamesAssumption DEF Names
<1>6. n \in DOMAIN scope[w] /\ scope[w][n] = EntryOf(n).slot
  BY <1>3, <1>4, <1>5 DEF Files
<1>7. ASSUME ~Respends(n) PROVE EntryOf(n).slot = SlotOf(n)
  <2>1. PICK b \in 1..Len(scope) : b = BindingFrame(n) /\ SlotOf(n) = scope[b][n]
                                 /\ \A i \in 1..Len(scope) : n \in DOMAIN scope[i] => i <= b
    BY Typed, BindingFrameIs
  <2>2. HasEntry(frames[b], n)
    BY <1>7, <2>1 DEF Respends
  <2>3. b <= w /\ w <= b /\ b \in Int /\ w \in Int
    BY <1>2, <1>6, <2>1, <2>2, Typed
  <2>4. QED BY <1>6, <2>1, <2>3
<1>8. QED BY <1>2, <1>6, <1>7

-----------------------------------------------------------------------------
(* The inductive invariant.                                                *)

\* A row's name shows no acc, an acc's name an acc or nothing.
KindsIn(sc, h) ==
  \A i \in 1..Len(sc) : \A n \in DOMAIN sc[i] :
    /\ n \in Rows => h.hdr[sc[i][n]] \notin h.accs
    /\ n \in Accs => h.hdr[sc[i][n]] = None \/ h.hdr[sc[i][n]] \in h.accs

\* Calls make no rows whose release destroys: their spill slot would be a
\* second owner.  Nor is such a row moved through another variable's entry: its
\* own slot would keep the header.
Plain == deep => "fresh" \notin DeepShapes /\ "respend" \notin DeepShapes

Discipline == Well(heap) /\ KindsIn(scope, heap) /\ Filed(frames, scope) /\ Apart(scope)
Parted == heap.again = {} /\ (DeepShapes = {} => EscapedIntact)

IInv == Plain => (running => Discipline /\ out = None) /\ (~running => Parted)

\* What a source may show has a holder on the heap it is evaluated on.
ShownHeld(except, h) ==
  /\ \A q \in Shown(except) : q \in Objects => ~Loose(h, q)
  /\ \A n \in Bound \cap Rows : n # except => h.hdr[SlotOf(n)] = HeaderOf(n)

\* What a source gives is free once the source is settled.
LEMMA DrawnWell ==
  ASSUME TypeInv, Plain, Apart(scope), Filed(frames, scope),
         NEW h, Well(h), KindsIn(scope, h), h.made = heap.made, Room(1),
         NEW except, ShownHeld(except, h),
         NEW g, NEW o, NEW fs, NEW u, Drawn(except, h, g, o, fs, u)
  PROVE  /\ Well(g) /\ Free(g, o) /\ KindsIn(scope, g)
         /\ \A a \in Bound \cap Accs : g.hdr[SlotOf(a)] = h.hdr[SlotOf(a)]
<1>1. h \in Heap /\ h.made < MaxObjects
  BY Typed, BoundsAssumption DEF Well, Room
<1>2. CASE Nothing(h, g, o, fs, u)
  <2>1. g = h /\ o \notin Objects
    BY <1>2, NoneIsNoObject DEF Nothing
  <2>2. QED BY <2>1 DEF Free
<1>3. CASE \E q \in Shown(except) : Copies(q, h, g, o, fs, u)
  <2>1. PICK q \in Shown(except) : Copies(q, h, g, o, fs, u)
    BY <1>3
  <2>2. q \in Headers
    <3>1. CASE q \in {HeaderOf(n) : n \in (Bound \cap Rows) \ {except}}
      BY <3>1, Typed
    <3>2. CASE q \in UNION {Elements(a) \ {except} : a \in Bound \cap Accs}
      BY <3>2, Typed, NoneIsNoObject
    <3>3. QED BY <3>1, <3>2 DEF Shown
  <2>3. q \in Objects
    BY <2>1, <2>2 DEF Copies, Headers
  <2>4. q \notin h.destroyed
    BY <2>3 DEF ShownHeld, Well
  <2>5. g = Made(h) /\ o = Fresh(h)
    BY <2>1, <2>4 DEF Copies, Cloned
  <2>6. g.hdr = h.hdr /\ g.accs = h.accs
    BY <1>1, <2>5, MadeIs
  <2>7. QED BY <1>1, <2>5, <2>6, WellMade DEF KindsIn
<1>4. CASE \E n \in (Bound \cap Rows) \ {except} : Moves(n, h, g, o, fs, u)
  <2>1. PICK n \in (Bound \cap Rows) \ {except} : Moves(n, h, g, o, fs, u)
    BY <1>4
  <2>2. PICK s \in Slots : s = EntryOf(n).slot /\ g = Loaded(h, s, None)
    BY <2>1, OwnedSlot, ZeroedIs DEF Moves
  <2>3. SlotOf(n) \in Slots /\ h.hdr[SlotOf(n)] = o /\ (deep => s = SlotOf(n))
    <3>1. deep => ~Respends(n)
      BY <2>1 DEF Moves, Shapes, Plain
    <3>2. QED BY <2>1, <2>2, <3>1, Typed, OwnSlot DEF Moves, ShownHeld
  <2>4. Well(g)
    <3>1. Free(h, None)
      BY NoneIsNoObject DEF Free
    <3>2. QED BY <2>2, <3>1, WellLoaded, NoneIsNoObject
  <2>5. /\ g.hdr[s] = None /\ \A t \in Slots : t # s => g.hdr[t] = h.hdr[t]
        /\ g.held = h.held /\ g.accs = h.accs /\ g.destroyed = h.destroyed /\ g.made = h.made
    BY <1>1, <2>2, LoadedIs, NoneIsNoObject
  <2>6. o \notin h.accs
    <3>1. PICK b \in 1..Len(scope) : n \in DOMAIN scope[b] /\ SlotOf(n) = scope[b][n]
      BY <2>1, Typed
    <3>2. QED BY <2>1, <2>3, <3>1 DEF KindsIn
  <2>7. ASSUME o \in Objects PROVE o <= g.made /\ o \notin g.destroyed /\ o \notin g.accs /\ (o \in Crit(g) => Loose(g, o))
    <3>1. ~Loose(h, o) /\ o # None
      BY <2>3, <2>7, NoneIsNoObject DEF Loose
    <3>2. o <= h.made
      BY <2>7, <3>1, HeldMade
    <3>3. o \notin h.destroyed
      BY <3>1 DEF Well
    <3>4. Crit(g) = Crit(h)
      BY <2>5 DEF Crit
    <3>5. o \in Crit(h) => Loose(g, o)
      <4>1. SUFFICES ASSUME o \in Crit(h) PROVE Loose(g, o)
        OBVIOUS
      <4>2. Single(h, o) /\ s = SlotOf(n)
        BY <2>3, <2>6, <2>7, <4>1 DEF Well, Crit
      <4>3. QED BY <2>3, <2>5, <3>1, <4>2 DEF Single, Loose
    <3>6. QED BY <2>5, <2>6, <3>2, <3>3, <3>4, <3>5
  <2>8. Free(g, o)
    BY <2>7 DEF Free
  <2>9. PICK w \in 1..Len(scope) : n \in DOMAIN scope[w] /\ s = scope[w][n]
    BY <2>1, <2>2, OwnSlot DEF Moves
  <2>10. n \notin Accs /\ None \notin h.accs
    BY <1>1, <2>1, NamesAssumption, NoneIsNoObject DEF Heap
  <2>11. \A a \in Bound \cap Accs : g.hdr[SlotOf(a)] = h.hdr[SlotOf(a)]
    <3>1. ASSUME NEW a \in Bound \cap Accs PROVE SlotOf(a) \in Slots /\ SlotOf(a) # s
      <4>1. PICK b \in 1..Len(scope) : a \in DOMAIN scope[b] /\ SlotOf(a) = scope[b][a]
        BY Typed
      <4>2. a # n
        BY <2>10
      <4>3. QED BY <2>9, <4>1, <4>2, Typed DEF Apart
    <3>2. QED BY <2>5, <3>1
  <2>12. KindsIn(scope, g)
    <3>1. \A i \in 1..Len(scope) : \A m \in DOMAIN scope[i] :
            g.hdr[scope[i][m]] = None \/ g.hdr[scope[i][m]] = h.hdr[scope[i][m]]
      BY <2>5, Typed
    <3>2. QED BY <2>5, <2>10, <3>1 DEF KindsIn
  <2>13. QED BY <2>4, <2>8, <2>11, <2>12
<1>5. CASE Calls(h, g, o, fs, u)
  <2>1. ~deep
    BY <1>5 DEF Calls, Shapes, Plain
  <2>2. slots + 1 \in Slots /\ \A n \in Bound : SlotOf(n) \in Slots /\ SlotOf(n) # slots + 1
    <3>1. slots + 1 \in Slots /\ \A s \in 1..slots : s # slots + 1
      BY <1>5, Typed, BoundsAssumption DEF Calls, Slots
    <3>2. QED BY <3>1, Typed
  <2>3. PICK m : m = Made(h) /\ o = Fresh(h) /\ g = Loaded(m, slots + 1, o)
    BY <1>5 DEF Calls
  <2>4. m \in Heap /\ o \in Objects /\ o \in Headers /\ m.hdr = h.hdr /\ m.accs = h.accs
    BY <1>1, <2>3, MadeIs
  <2>5. Well(m) /\ Free(m, o)
    BY <1>1, <2>3, WellMade
  <2>6. Well(g)
    BY <2>2, <2>3, <2>4, <2>5, WellLoaded
  <2>7. /\ \A t \in Slots : t # slots + 1 => g.hdr[t] = m.hdr[t]
        /\ g.accs = m.accs /\ g.destroyed = m.destroyed /\ g.made = m.made
    BY <2>2, <2>3, <2>4, LoadedIs
  <2>8. o \notin Crit(g)
    BY <2>1, <2>4, <2>5, <2>7 DEF Free, Crit
  <2>9. Free(g, o)
    BY <2>4, <2>5, <2>7, <2>8 DEF Free
  <2>10. \A n \in Bound : g.hdr[SlotOf(n)] = h.hdr[SlotOf(n)]
    BY <2>2, <2>4, <2>7
  <2>11. KindsIn(scope, g)
    <3>1. \A s \in 1..slots : s # slots + 1
      BY Typed
    <3>2. \A i \in 1..Len(scope) : \A n \in DOMAIN scope[i] : g.hdr[scope[i][n]] = h.hdr[scope[i][n]]
      BY <2>4, <2>7, <3>1, Typed
    <3>3. QED BY <2>4, <2>7, <3>2 DEF KindsIn
  <2>12. QED BY <2>6, <2>9, <2>10, <2>11
<1>6. QED BY <1>2, <1>3, <1>4, <1>5 DEF Drawn

\* A place that was an element's is empty while the source is evaluated.
LEMMA DrawnAround ==
  ASSUME TypeInv, NEW h \in Heap, h.made = heap.made, Room(1), NEW c \in Objects, NEW x,
         NEW except, NEW g, NEW o, NEW fs, NEW u, Drawn(except, h, g, o, fs, u)
  PROVE  Drawn(except, Placed(h, c, x, None), Placed(g, c, x, None), o, fs, u)
<1>1. h.made < MaxObjects
  BY Typed, BoundsAssumption DEF Room
<1>2. PICK K \in [Objects -> SUBSET Objects] : K = [h.held EXCEPT ![c] = (@ \ {x}) \cup ({None} \ {None})]
  BY DEF Heap
<1>3. ASSUME NEW f \in Heap, f.held = h.held PROVE Placed(f, c, x, None) = [f EXCEPT !.held = K]
  BY <1>2, <1>3 DEF Heap, Placed
<1>4. PICK e : e = [h EXCEPT !.held = K]
  OBVIOUS
<1>5. /\ e \in Heap /\ e.made = h.made /\ e.destroyed = h.destroyed /\ e.held = K /\ e.hdr = h.hdr
      /\ Fresh(e) = Fresh(h)
  BY <1>4 DEF Heap, Fresh
<1>6. ASSUME NEW s, NEW q, NEW f \in Heap
      PROVE  Loaded([f EXCEPT !.held = K], s, q) = [Loaded(f, s, q) EXCEPT !.held = K]
  BY <1>6 DEF Loaded, Heap
<1>7. Made(e) = [Made(h) EXCEPT !.held = K]
  BY <1>4 DEF Made, Heap
<1>8. ASSUME NEW q PROVE Cloned(e, q) = [Cloned(h, q) EXCEPT !.held = K]
  <2>1. CASE q \in h.destroyed
    <3>1. PICK d \in SUBSET Objects, m \in Heap : m = Made(h) /\ d = m.destroyed \cup {Fresh(h)}
      BY <1>1, MadeIs DEF Heap
    <3>2. Cloned(h, q) = [m EXCEPT !.destroyed = d]
      BY <2>1, <3>1 DEF Cloned
    <3>3. [m EXCEPT !.held = K].destroyed \cup {Fresh(h)} = d
      BY <3>1 DEF Heap
    <3>4. Cloned(e, q) = [[m EXCEPT !.held = K] EXCEPT !.destroyed = d]
      BY <1>5, <1>7, <2>1, <3>1, <3>3 DEF Cloned
    <3>5. QED BY <3>1, <3>2, <3>4 DEF Heap
  <2>2. CASE q \notin h.destroyed
    BY <1>5, <1>7, <2>2 DEF Cloned
  <2>3. QED BY <2>1, <2>2
<1>9. g \in Heap /\ g.held = h.held
  BY DrawnType
<1>10. Placed(h, c, x, None) = e /\ Placed(g, c, x, None) = [g EXCEPT !.held = K]
  BY <1>3, <1>4, <1>9
<1>11. PICK v : v = [g EXCEPT !.held = K]
  OBVIOUS
<1>12. Drawn(except, e, v, o, fs, u)
  <2>1. CASE Nothing(h, g, o, fs, u)
    BY <1>4, <1>11, <2>1 DEF Nothing, Drawn
  <2>2. CASE \E q \in Shown(except) : Copies(q, h, g, o, fs, u)
    <3>1. PICK q \in Shown(except) : Copies(q, h, g, o, fs, u)
      BY <2>2
    <3>2. Copies(q, e, v, o, fs, u)
      BY <1>5, <1>8, <1>11, <3>1 DEF Copies
    <3>3. QED BY <3>2 DEF Drawn
  <2>3. CASE \E n \in (Bound \cap Rows) \ {except} : Moves(n, h, g, o, fs, u)
    <3>1. PICK n \in (Bound \cap Rows) \ {except} : Moves(n, h, g, o, fs, u)
      BY <2>3
    <3>2. Moves(n, e, v, o, fs, u)
      BY <1>4, <1>6, <1>11, <3>1, ZeroedIs DEF Moves
    <3>3. QED BY <3>2 DEF Drawn
  <2>4. CASE Calls(h, g, o, fs, u)
    <3>1. Made(h) \in Heap
      BY <1>1, MadeIs
    <3>2. v = Loaded(Made(e), slots + 1, Fresh(e))
      BY <1>5, <1>6, <1>7, <1>11, <2>4, <3>1 DEF Calls
    <3>3. Calls(e, v, o, fs, u)
      BY <1>5, <2>4, <3>2 DEF Calls
    <3>4. QED BY <3>3 DEF Drawn
  <2>5. QED BY <2>1, <2>2, <2>3, <2>4 DEF Drawn
<1>13. QED BY <1>10, <1>11, <1>12

\* The parts of Discipline.
LEMMA Held ==
  ASSUME TypeInv, Discipline
  PROVE  /\ Well(heap) /\ KindsIn(scope, heap) /\ Filed(frames, scope) /\ Apart(scope)
         /\ \A n \in Bound : HeaderOf(n) = heap.hdr[SlotOf(n)] /\ SlotOf(n) \in Slots
         /\ \A n \in Bound \cap Rows : HeaderOf(n) \notin heap.accs
         /\ \A a \in Bound \cap Accs : HeaderOf(a) = None \/ HeaderOf(a) \in heap.accs
         /\ \A n, m \in Bound : SlotOf(n) = SlotOf(m) => n = m
         /\ None \notin heap.accs /\ heap.accs \subseteq Objects
<1>1. Well(heap) /\ KindsIn(scope, heap) /\ Filed(frames, scope) /\ Apart(scope)
  BY DEF Discipline
<1>2. \A n \in Bound : HeaderOf(n) = heap.hdr[SlotOf(n)] /\ SlotOf(n) \in Slots
  BY Typed DEF HeaderOf
<1>3. \A n \in Bound \cap Rows : HeaderOf(n) \notin heap.accs
  BY <1>1, <1>2, Typed DEF KindsIn
<1>4. \A a \in Bound \cap Accs : HeaderOf(a) = None \/ HeaderOf(a) \in heap.accs
  BY <1>1, <1>2, Typed DEF KindsIn
<1>5. \A n, m \in Bound : SlotOf(n) = SlotOf(m) => n = m
  BY <1>1, Typed DEF Apart
<1>6. heap.accs \subseteq Objects
  BY Typed DEF Heap
<1>7. QED BY <1>1, <1>2, <1>3, <1>4, <1>5, <1>6, NoneIsNoObject

\* What names and accs in scope show is held, on any heap that keeps it.
LEMMA HeldShown ==
  ASSUME TypeInv, Discipline, NEW except, NEW h,
         \A n \in Bound \cap Rows : n # except => h.hdr[SlotOf(n)] = HeaderOf(n),
         \A c \in heap.accs : \A q \in heap.held[c] : q # except => q \in h.held[c]
  PROVE  ShownHeld(except, h)
<1>1. ASSUME NEW q \in Shown(except), q \in Objects PROVE ~Loose(h, q)
  <2>1. CASE q \in {HeaderOf(n) : n \in (Bound \cap Rows) \ {except}}
    <3>1. PICK n \in (Bound \cap Rows) \ {except} : q = HeaderOf(n)
      BY <2>1
    <3>2. h.hdr[SlotOf(n)] = q /\ SlotOf(n) \in Slots
      BY <3>1, Held
    <3>3. QED BY <3>2 DEF Loose
  <2>2. CASE q \in UNION {Elements(a) \ {except} : a \in Bound \cap Accs}
    <3>1. PICK a \in Bound \cap Accs : q \in Elements(a) /\ q # except
      BY <2>2
    <3>2. HeaderOf(a) # None /\ q \in heap.held[HeaderOf(a)]
      BY <3>1 DEF Elements
    <3>3. HeaderOf(a) \in heap.accs /\ HeaderOf(a) \in Objects
      BY <3>1, <3>2, Held
    <3>4. q \in h.held[HeaderOf(a)]
      BY <3>1, <3>2, <3>3
    <3>5. QED BY <3>3, <3>4 DEF Loose
  <2>3. QED BY <2>1, <2>2 DEF Shown
<1>2. QED BY <1>1 DEF ShownHeld

\* Discipline of the next state.
LEMMA DisciplineNext ==
  ASSUME NEW h, Well(h), NEW sc, KindsIn(sc, h), NEW fs, Filed(fs, sc), Apart(sc),
         heap' = h, scope' = sc, frames' = fs, deep' = deep
  PROVE  Discipline'
<1>1. Well(heap)'
  BY WellNext
<1>2. KindsIn(scope, heap)' /\ Filed(frames, scope)' /\ Apart(scope)'
  BY DEF KindsIn, Filed, Files, Once, Apart
<1>3. QED BY <1>1, <1>2 DEF Discipline

\* A binding's new chunk chain has the new alloca as its one holder.
LEMMA NewObject ==
  ASSUME NEW h, Well(h), h.made < MaxObjects, NEW s \in Slots
  PROVE  LET f == Fresh(h)
             g == Loaded(Made(h), s, f)
         IN  /\ f \in Objects /\ f \in Headers /\ f \notin h.accs /\ Loose(h, f)
             /\ Well(g) /\ Single(g, f) /\ f <= g.made
             /\ \A c \in Objects : f \notin g.held[c]
             /\ g.hdr[s] = f /\ \A t \in Slots : t # s => g.hdr[t] = h.hdr[t]
             /\ g.accs = h.accs
<1>1. h \in Heap /\ h.made \in Int
  BY BoundsAssumption DEF Well, Heap
<1>2. PICK m, f : m = Made(h) /\ f = Fresh(h)
  OBVIOUS
<1>3. /\ m \in Heap /\ f \in Objects /\ f \in Headers /\ f = h.made + 1 /\ m.made = f
      /\ m.hdr = h.hdr /\ m.held = h.held /\ m.accs = h.accs
  BY <1>1, <1>2, MadeIs
<1>4. Well(m) /\ Free(m, f) /\ Loose(m, f)
  BY <1>1, <1>2, WellMade
<1>5. PICK g : g = Loaded(m, s, f)
  OBVIOUS
<1>6. /\ g \in Heap /\ g.hdr[s] = f /\ \A t \in Slots : t # s => g.hdr[t] = m.hdr[t]
      /\ g.held = m.held /\ g.accs = m.accs /\ g.made = m.made
  BY <1>3, <1>5, LoadedIs
<1>7. Well(g)
  BY <1>3, <1>4, <1>5, WellLoaded
<1>8. Loose(h, f) /\ f \notin h.accs
  BY <1>1, <1>3 DEF Well
<1>9. \A c \in Objects : f \notin g.held[c]
  BY <1>4, <1>6 DEF Loose
<1>10. Single(g, f)
  BY <1>4, <1>6 DEF Single, Loose
<1>11. f <= g.made
  BY <1>1, <1>3, <1>6
<1>12. QED BY <1>2, <1>3, <1>5, <1>6, <1>7, <1>8, <1>9, <1>10, <1>11

\* Binding to a literal.
LEMMA BindLiteralKept ==
  ASSUME TypeInv, Discipline, NEW n \in Names, BindLiteral(n)
  PROVE  Discipline'
<1>1. /\ n \notin DOMAIN scope[Len(frames)] /\ slots + 1 \in Nat /\ slots < slots + 1
      /\ slots + 1 \in Slots /\ slots \in Nat /\ heap.made < MaxObjects
      /\ frames' = Registered(frames, Entry(slots + 1, n)) /\ Bind(n, slots + 1) /\ deep' = deep
  BY Typed, BoundsAssumption DEF BindLiteral, MayBind, Last, Slots, Room
<1>2. Filed(frames', scope') /\ Apart(scope')
  BY <1>1, Typed, Held, FiledBound
<1>3. PICK f, g : f = Fresh(heap) /\ g = Loaded(Made(heap), slots + 1, f)
  OBVIOUS
<1>4. /\ f \in Objects /\ f \notin heap.accs /\ Loose(heap, f)
      /\ Well(g) /\ Single(g, f) /\ f <= g.made
      /\ \A c \in Objects : f \notin g.held[c]
      /\ g.hdr[slots + 1] = f /\ \A t \in Slots : t # slots + 1 => g.hdr[t] = heap.hdr[t]
      /\ g.accs = heap.accs
  BY <1>1, <1>3, Held, NewObject
<1>5. g \in Heap
  BY <1>4 DEF Well
<1>6. PICK sc : sc = scope'
  OBVIOUS
<1>7. /\ Len(sc) = Len(scope)
      /\ \A i \in 1..Len(sc) : \A m \in DOMAIN sc[i] :
           (m = n /\ sc[i][m] = slots + 1) \/ (m \in DOMAIN scope[i] /\ sc[i][m] = scope[i][m])
  BY <1>1, <1>6, BindIs, Typed
<1>8. \A i \in 1..Len(scope) : \A m \in DOMAIN scope[i] :
        g.hdr[scope[i][m]] = heap.hdr[scope[i][m]] /\ heap.hdr[scope[i][m]] # f
  <2>1. \A t \in 1..slots : t # slots + 1
    BY Typed
  <2>2. \A i \in 1..Len(scope) : \A m \in DOMAIN scope[i] :
          scope[i][m] \in Slots /\ scope[i][m] # slots + 1
    BY <2>1, Typed
  <2>3. QED BY <1>4, <2>2 DEF Loose
<1>9. CASE n \in Accs
  <2>1. heap' = Known(g, f)
    BY <1>3, <1>9 DEF BindLiteral, Known
  <2>2. Well(Known(g, f))
    BY <1>4, WellKnown
  <2>3. PICK q : q = Known(g, f) /\ q.hdr = g.hdr /\ q.accs = heap.accs \cup {f}
    BY <1>4, <1>5, KnownIs
  <2>4. n \notin Rows
    BY <1>9, NamesAssumption
  <2>5. KindsIn(sc, q)
    <3>1. ASSUME NEW i \in 1..Len(sc), NEW m \in DOMAIN sc[i]
          PROVE  /\ m \in Rows => q.hdr[sc[i][m]] \notin q.accs
                 /\ m \in Accs => q.hdr[sc[i][m]] = None \/ q.hdr[sc[i][m]] \in q.accs
      <4>1. CASE m = n /\ sc[i][m] = slots + 1
        BY <1>4, <2>3, <2>4, <4>1
      <4>2. CASE m \in DOMAIN scope[i] /\ sc[i][m] = scope[i][m]
        BY <1>7, <1>8, <2>3, <4>2, Held DEF KindsIn
      <4>3. QED BY <1>7, <4>1, <4>2
    <3>2. QED BY <3>1 DEF KindsIn
  <2>6. QED BY <1>1, <1>2, <1>6, <2>1, <2>2, <2>3, <2>5, DisciplineNext
<1>10. CASE n \notin Accs
  <2>1. heap' = g
    BY <1>3, <1>5, <1>10 DEF BindLiteral, Heap
  <2>2. KindsIn(sc, g)
    <3>1. ASSUME NEW i \in 1..Len(sc), NEW m \in DOMAIN sc[i]
          PROVE  /\ m \in Rows => g.hdr[sc[i][m]] \notin g.accs
                 /\ m \in Accs => g.hdr[sc[i][m]] = None \/ g.hdr[sc[i][m]] \in g.accs
      <4>1. CASE m = n /\ sc[i][m] = slots + 1
        BY <1>4, <1>10, <4>1
      <4>2. CASE m \in DOMAIN scope[i] /\ sc[i][m] = scope[i][m]
        BY <1>4, <1>7, <1>8, <4>2, Held DEF KindsIn
      <4>3. QED BY <1>7, <4>1, <4>2
    <3>2. QED BY <3>1 DEF KindsIn
  <2>3. QED BY <1>1, <1>2, <1>4, <1>6, <2>1, <2>2, DisciplineNext
<1>11. QED BY <1>9, <1>10

\* Binding to a call, where rows do not own their elements.
LEMMA BindCallKept ==
  ASSUME TypeInv, Plain, Discipline, NEW n \in Names, BindCall(n)
  PROVE  Discipline'
<1>1. /\ n \in Rows /\ n \notin DOMAIN scope[Len(frames)] /\ slots + 1 \in Nat /\ slots + 2 \in Nat
      /\ slots < slots + 2 /\ slots + 1 < slots + 2 /\ slots <= slots + 1
      /\ slots + 1 \in Slots /\ slots + 2 \in Slots /\ slots + 1 \in 1..(slots + 1)
      /\ slots \in Nat /\ heap.made < MaxObjects /\ Room(1) /\ slots < MaxSlots
      /\ "fresh" \in Shapes /\ Bind(n, slots + 2) /\ deep' = deep
  BY Typed, BoundsAssumption DEF BindCall, MayBind, Last, Slots, Room
<1>2. PICK h, o, fs : h = FromCall(heap).h /\ o = FromCall(heap).o /\ fs = FromCall(heap).fs
  OBVIOUS
<1>3. Calls(heap, h, o, fs, 1)
  BY <1>1, <1>2 DEF FromCall, Source, Calls
<1>4. Drawn(None, heap, h, o, fs, 1)
  BY <1>3 DEF Drawn
<1>5. h \in Heap /\ o \in Headers /\ fs \in FrameLists(slots + 1) /\ Len(fs) = Len(frames)
      /\ h.accs = heap.accs
  BY <1>1, <1>4, Typed, DrawnType
<1>6. ShownHeld(None, heap)
  BY Held, HeldShown
<1>7. Well(h) /\ Free(h, o) /\ KindsIn(scope, h)
  BY <1>1, <1>4, <1>6, Held, DrawnWell
<1>8. Filed(fs, scope)
  BY <1>4, Held, DrawnFiled
<1>9. heap' = Loaded(h, slots + 2, o) /\ frames' = Registered(fs, Entry(slots + 2, n))
  BY <1>2 DEF BindCall
<1>10. Filed(frames', scope') /\ Apart(scope')
  BY <1>1, <1>5, <1>8, <1>9, Held, FiledBound
<1>11. PICK g : g = Loaded(h, slots + 2, o)
  OBVIOUS
<1>12. /\ g.hdr[slots + 2] = o /\ \A t \in Slots : t # slots + 2 => g.hdr[t] = h.hdr[t]
       /\ g.accs = h.accs
  BY <1>1, <1>5, <1>11, LoadedIs
<1>13. Well(g)
  BY <1>1, <1>5, <1>7, <1>11, WellLoaded
<1>14. PICK sc : sc = scope'
  OBVIOUS
<1>15. /\ Len(sc) = Len(scope)
       /\ \A i \in 1..Len(sc) : \A m \in DOMAIN sc[i] :
            (m = n /\ sc[i][m] = slots + 2) \/ (m \in DOMAIN scope[i] /\ sc[i][m] = scope[i][m])
  BY <1>1, <1>14, BindIs, Typed
<1>16. \A i \in 1..Len(scope) : \A m \in DOMAIN scope[i] : g.hdr[scope[i][m]] = h.hdr[scope[i][m]]
  <2>1. \A t \in 1..slots : t # slots + 2
    BY Typed
  <2>2. QED BY <1>12, <2>1, Typed
<1>17. n \notin Accs /\ o \notin g.accs
  <2>1. g.accs \subseteq Objects
    BY <1>5, <1>12 DEF Heap
  <2>2. QED BY <1>1, <1>7, <1>12, <2>1, NamesAssumption DEF Free
<1>18. KindsIn(sc, g)
  <2>1. ASSUME NEW i \in 1..Len(sc), NEW m \in DOMAIN sc[i]
        PROVE  /\ m \in Rows => g.hdr[sc[i][m]] \notin g.accs
               /\ m \in Accs => g.hdr[sc[i][m]] = None \/ g.hdr[sc[i][m]] \in g.accs
    <3>1. CASE m = n /\ sc[i][m] = slots + 2
      BY <1>12, <1>17, <3>1
    <3>2. CASE m \in DOMAIN scope[i] /\ sc[i][m] = scope[i][m]
      BY <1>7, <1>12, <1>15, <1>16, <3>2 DEF KindsIn
    <3>3. QED BY <1>15, <3>1, <3>2
  <2>2. QED BY <2>1 DEF KindsIn
<1>19. QED BY <1>1, <1>9, <1>10, <1>11, <1>13, <1>14, <1>18, DisciplineNext

\* Pushing a free header, also when the push makes the chunk chain.
LEMMA PushInto ==
  ASSUME NEW h, Well(h), NEW c \in Objects, c <= h.made, Single(h, c),
         \A d \in Objects : c \notin h.held[d],
         NEW o \in Headers, Free(h, o), o # c
  PROVE  Well([h EXCEPT !.held[c] = @ \cup ({o} \ {None}), !.accs = @ \cup {c}])
<1>1. h \in Heap
  BY DEF Well
<1>2. PICK k : k = Known(h, c)
  OBVIOUS
<1>3. /\ k \in Heap /\ k.accs = h.accs \cup {c} /\ k.hdr = h.hdr /\ k.held = h.held
      /\ k.destroyed = h.destroyed /\ k.made = h.made
  BY <1>1, <1>2, KnownIs
<1>4. Well(k)
  BY <1>2, WellKnown
<1>5. Free(k, o)
  <2>1. Loose(h, o) => Loose(k, o)
    BY <1>3 DEF Loose
  <2>2. o \in Crit(k) => o \in Crit(h)
    BY <1>3 DEF Crit
  <2>3. QED BY <1>3, <2>1, <2>2 DEF Free
<1>6. Well(Placed(k, c, None, o))
  BY <1>3, <1>4, <1>5, WellPlaced
<1>7. Placed(k, c, None, o) = [h EXCEPT !.held[c] = @ \cup ({o} \ {None}), !.accs = @ \cup {c}]
  <2>1. h.held[c] \ {None} = h.held[c]
    BY <1>1, NoneIsNoObject DEF Heap
  <2>2. PICK X, Y : X = h.held[c] \cup ({o} \ {None}) /\ Y = h.accs \cup {c}
    OBVIOUS
  <2>3. k = [h EXCEPT !.accs = Y]
    BY <1>2, <2>2 DEF Known
  <2>4. Placed(k, c, None, o) = [k EXCEPT !.held[c] = X]
    BY <1>3, <2>1, <2>2 DEF Placed
  <2>5. [h EXCEPT !.held[c] = @ \cup ({o} \ {None}), !.accs = @ \cup {c}]
          = [h EXCEPT !.held[c] = X, !.accs = Y]
    BY <2>2
  <2>6. QED BY <1>1, <2>3, <2>4, <2>5 DEF Heap
<1>8. QED BY <1>6, <1>7

\* a.push(src).
LEMMA PushKept ==
  ASSUME TypeInv, Plain, Discipline, NEW a \in Accs, Push(a)
  PROVE  Discipline'
<1>1. PICK src \in Sources(None, heap) :
        LET h == Settled(src)
            into == IF HeaderOf(a) = None THEN Fresh(h) ELSE HeaderOf(a)
            chain == IF HeaderOf(a) = None THEN Loaded(Made(h), SlotOf(a), into) ELSE h
        IN  /\ heap' = [chain EXCEPT !.held[into] = @ \cup ({src.o} \ {None}),
                                     !.accs = @ \cup {into}]
            /\ frames' = src.fs
  BY DEF Push
<1>2. Room(1) /\ heap.made + 1 < MaxObjects /\ a \in Bound /\ a \in Bound \cap Accs
      /\ deep' = deep /\ scope' = scope
  BY Typed, BoundsAssumption DEF Push, Room
<1>3. PICK h, o, fs : h = Settled(src) /\ o = src.o /\ fs = src.fs
  OBVIOUS
<1>4. Drawn(None, heap, h, o, fs, src.used)
  BY <1>3, Typed, SourceDrawn
<1>5. h \in Heap /\ o \in Headers /\ h.made < MaxObjects /\ h.accs = heap.accs
  <2>1. h \in Heap /\ o \in Headers /\ h.made \in {heap.made, heap.made + 1} /\ h.accs = heap.accs
    BY <1>2, <1>4, Typed, DrawnType
  <2>2. heap.made < MaxObjects
    BY <1>2, Typed, BoundsAssumption
  <2>3. QED BY <1>2, <2>1, <2>2
<1>6. ShownHeld(None, heap)
  BY Held, HeldShown
<1>7. /\ Well(h) /\ Free(h, o) /\ KindsIn(scope, h)
      /\ h.hdr[SlotOf(a)] = HeaderOf(a)
  BY <1>2, <1>4, <1>6, Held, DrawnWell
<1>8. Filed(fs, scope)
  BY <1>4, Held, DrawnFiled
<1>9. PICK into, chain :
        /\ into = IF HeaderOf(a) = None THEN Fresh(h) ELSE HeaderOf(a)
        /\ chain = IF HeaderOf(a) = None THEN Loaded(Made(h), SlotOf(a), into) ELSE h
  OBVIOUS
<1>10. /\ SlotOf(a) \in Slots
       /\ \A i \in 1..Len(scope) : \A n \in DOMAIN scope[i] :
            scope[i][n] \in Slots /\ (n \in Rows => scope[i][n] # SlotOf(a))
  <2>1. PICK b \in 1..Len(scope) : a \in DOMAIN scope[b] /\ SlotOf(a) = scope[b][a]
    BY <1>2, Typed
  <2>2. a \notin Rows
    BY NamesAssumption
  <2>3. QED BY <1>2, <2>1, <2>2, Held, Typed DEF Apart
<1>11. /\ Well(chain) /\ into \in Objects /\ into <= chain.made /\ Single(chain, into)
       /\ (\A d \in Objects : into \notin chain.held[d]) /\ Free(chain, o) /\ o # into
       /\ chain.accs = heap.accs /\ chain.hdr[SlotOf(a)] = into
       /\ \A t \in Slots : t # SlotOf(a) => chain.hdr[t] = h.hdr[t]
       /\ \A i \in 1..Len(scope) : \A n \in DOMAIN scope[i] : n \in Rows => h.hdr[scope[i][n]] # into
  <2>1. CASE HeaderOf(a) = None
    <3>1. PICK m : m = Made(h)
      OBVIOUS
    <3>2. into = Fresh(h) /\ chain = Loaded(m, SlotOf(a), into)
      BY <1>9, <2>1, <3>1
    <3>3. /\ into \in Objects /\ into \in Headers /\ Loose(h, into)
          /\ Well(chain) /\ Single(chain, into) /\ into <= chain.made
          /\ \A c \in Objects : into \notin chain.held[c]
          /\ chain.hdr[SlotOf(a)] = into
          /\ \A t \in Slots : t # SlotOf(a) => chain.hdr[t] = h.hdr[t]
          /\ chain.accs = h.accs
      BY <1>5, <1>7, <1>10, <3>1, <3>2, NewObject
    <3>4. m \in Heap /\ m.made = into /\ into = h.made + 1 /\ m.accs = h.accs /\ m.destroyed = h.destroyed
      BY <1>5, <3>1, <3>2, MadeIs
    <3>5. Well(m) /\ Free(m, into) /\ Loose(m, into) /\ Free(m, o)
      BY <1>5, <1>7, <3>1, <3>2, WellMade
    <3>6. o # into
      <4>1. o \in Objects => o <= h.made
        BY <1>7 DEF Free
      <4>2. h.made \in Int
        BY <1>5, BoundsAssumption DEF Heap
      <4>3. QED BY <3>3, <3>4, <4>1, <4>2
    <3>7. Free(chain, o)
      <4>1. /\ \A x \in Objects : x # into /\ Loose(m, x) => Loose(chain, x)
            /\ chain.accs = m.accs /\ chain.destroyed = m.destroyed /\ chain.made = m.made
        BY <1>10, <3>2, <3>3, <3>4, <3>5, WellLoaded, LoadedIs
      <4>2. Crit(chain) = Crit(m)
        BY <4>1 DEF Crit
      <4>3. QED BY <3>5, <3>6, <4>1, <4>2 DEF Free
    <3>8. \A i \in 1..Len(scope) : \A n \in DOMAIN scope[i] : h.hdr[scope[i][n]] # into
      BY <1>10, <3>3 DEF Loose
    <3>9. QED BY <1>5, <3>3, <3>6, <3>7, <3>8
  <2>2. CASE HeaderOf(a) # None
    <3>1. into = HeaderOf(a) /\ chain = h
      BY <1>9, <2>2
    <3>2. into \in h.accs /\ into \in Objects
      BY <1>2, <1>5, <2>2, <3>1, Held
    <3>3. Single(h, into)
      BY <1>7, <3>2 DEF Well, Crit
    <3>4. ~Loose(h, into)
      BY <1>7, <1>10, <3>1 DEF Loose
    <3>5. into <= h.made
      BY <1>7, <3>2, <3>4, HeldMade
    <3>6. \A d \in Objects : into \notin h.held[d]
      BY <1>7, <3>2 DEF Well
    <3>7. o # into
      BY <1>7, <3>2 DEF Free
    <3>8. \A i \in 1..Len(scope) : \A n \in DOMAIN scope[i] : n \in Rows => h.hdr[scope[i][n]] # into
      BY <1>7, <3>2 DEF KindsIn
    <3>9. QED BY <1>5, <1>7, <3>1, <3>2, <3>3, <3>5, <3>6, <3>7, <3>8
  <2>3. QED BY <2>1, <2>2
<1>12. PICK g : g = [chain EXCEPT !.held[into] = @ \cup ({o} \ {None}), !.accs = @ \cup {into}]
  OBVIOUS
<1>13. heap' = g /\ frames' = fs
  BY <1>1, <1>3, <1>9, <1>12
<1>14. Well(g)
  BY <1>5, <1>11, <1>12, PushInto
<1>15. g.hdr = chain.hdr /\ g.accs = chain.accs \cup {into}
  <2>1. chain \in Heap
    BY <1>11 DEF Well
  <2>2. QED BY <1>12, <2>1 DEF Heap
<1>16. KindsIn(scope, g)
  <2>1. ASSUME NEW i \in 1..Len(scope), NEW n \in DOMAIN scope[i], n \in Rows
        PROVE  g.hdr[scope[i][n]] \notin g.accs
    <3>1. h.hdr[scope[i][n]] \notin heap.accs /\ h.hdr[scope[i][n]] # into
      BY <1>5, <1>7, <1>11, <2>1 DEF KindsIn
    <3>2. g.hdr[scope[i][n]] = h.hdr[scope[i][n]]
      BY <1>10, <1>11, <1>15, <2>1
    <3>3. QED BY <1>11, <1>15, <3>1, <3>2
  <2>2. ASSUME NEW i \in 1..Len(scope), NEW n \in DOMAIN scope[i], n \in Accs
        PROVE  g.hdr[scope[i][n]] = None \/ g.hdr[scope[i][n]] \in g.accs
    <3>1. CASE scope[i][n] = SlotOf(a)
      BY <1>11, <1>15, <3>1
    <3>2. CASE scope[i][n] # SlotOf(a)
      <4>1. h.hdr[scope[i][n]] = None \/ h.hdr[scope[i][n]] \in heap.accs
        BY <1>5, <1>7, <2>2 DEF KindsIn
      <4>2. QED BY <1>10, <1>11, <1>15, <3>2, <4>1
    <3>3. QED BY <3>1, <3>2
  <2>3. QED BY <2>1, <2>2 DEF KindsIn
<1>17. QED BY <1>2, <1>8, <1>13, <1>14, <1>16, Held, DisciplineNext

\* A release of slots zeroes names, and nothing else about them changes.
LEMMA ReleasedKinds ==
  ASSUME NEW h \in Heap, NEW S \in SUBSET Slots, NEW sc, KindsIn(sc, h),
         \A i \in 1..Len(sc) : \A n \in DOMAIN sc[i] : sc[i][n] \in Slots
  PROVE  /\ KindsIn(sc, ReleaseSlots(h, S))
         /\ \A s \in Slots \ S : ReleaseSlots(h, S).hdr[s] = h.hdr[s]
<1>1. PICK g : g = ReleaseSlots(h, S)
  OBVIOUS
<1>2. g.hdr = [s \in Slots |-> IF s \in S THEN None ELSE h.hdr[s]] /\ g.accs = h.accs
  BY <1>1, ReleaseIs
<1>3. None \notin h.accs
  BY NoneIsNoObject DEF Heap
<1>4. \A i \in 1..Len(sc) : \A n \in DOMAIN sc[i] : g.hdr[sc[i][n]] = None \/ g.hdr[sc[i][n]] = h.hdr[sc[i][n]]
  BY <1>2
<1>5. KindsIn(sc, g)
  BY <1>2, <1>3, <1>4 DEF KindsIn
<1>6. QED BY <1>1, <1>2, <1>5

\* x = src.
LEMMA AssignKept ==
  ASSUME TypeInv, Plain, Discipline, NEW x \in Rows, Assign(x)
  PROVE  Discipline'
<1>1. Room(1) /\ x \in Bound /\ x \in Bound \cap Rows /\ deep' = deep /\ scope' = scope
  BY DEF Assign
<1>2. PICK S : S = {SlotOf(x)}
  OBVIOUS
<1>3. S \in SUBSET Slots /\ SlotOf(x) \in Slots /\ \A n \in Bound : n # x => SlotOf(n) \in Slots \ S
  BY <1>1, <1>2, Held
<1>4. PICK h : h = ReleaseSlots(heap, S)
  OBVIOUS
<1>5. /\ h \in Heap /\ h.made = heap.made /\ h.accs = heap.accs
      /\ h.held = [o \in Objects |-> IF o \in HeadersIn(heap, S) THEN {} ELSE heap.held[o]]
  BY <1>3, <1>4, Typed, ReleaseIs
<1>6. Well(h)
  BY <1>3, <1>4, Held, WellReleased
<1>7. KindsIn(scope, h) /\ \A s \in Slots \ S : h.hdr[s] = heap.hdr[s]
  BY <1>3, <1>4, Typed, Held, ReleasedKinds
<1>8. ShownHeld(x, h)
  <2>1. \A n \in Bound \cap Rows : n # x => h.hdr[SlotOf(n)] = HeaderOf(n)
    BY <1>3, <1>7, Held
  <2>2. \A c \in HeadersIn(heap, S) : c \notin heap.accs
    BY <1>1, <1>2, Held DEF HeadersIn
  <2>3. \A c \in heap.accs : h.held[c] = heap.held[c]
    BY <1>5, <2>2, Held
  <2>4. QED BY <2>1, <2>3, HeldShown
<1>9. PICK src \in Sources(x, h) :
        heap' = Loaded(Settled(src), SlotOf(x), src.o) /\ frames' = src.fs
  BY <1>2, <1>4 DEF Assign, ReleasedOld
<1>10. PICK g, o, fs : g = Settled(src) /\ o = src.o /\ fs = src.fs
  OBVIOUS
<1>11. Drawn(x, h, g, o, fs, src.used)
  BY <1>10, Typed, SourceDrawn
<1>12. g \in Heap /\ o \in Headers
  BY <1>1, <1>5, <1>11, DrawnType
<1>13. Well(g) /\ Free(g, o) /\ KindsIn(scope, g)
  BY <1>1, <1>5, <1>6, <1>7, <1>8, <1>11, Held, DrawnWell
<1>14. Filed(fs, scope)
  BY <1>11, Held, DrawnFiled
<1>15. PICK e : e = Loaded(g, SlotOf(x), o)
  OBVIOUS
<1>16. Well(e)
  BY <1>3, <1>12, <1>13, <1>15, WellLoaded
<1>17. KindsIn(scope, e)
  <2>1. /\ e.hdr[SlotOf(x)] = o /\ \A t \in Slots : t # SlotOf(x) => e.hdr[t] = g.hdr[t]
        /\ e.accs = g.accs
    BY <1>3, <1>12, <1>15, LoadedIs
  <2>2. o \notin e.accs
    <3>1. g.accs \subseteq Objects
      BY <1>12 DEF Heap
    <3>2. QED BY <1>13, <2>1, <3>1 DEF Free
  <2>3. x \notin Accs
    BY NamesAssumption
  <2>4. PICK b \in 1..Len(scope) : x \in DOMAIN scope[b] /\ SlotOf(x) = scope[b][x]
    BY <1>1, Typed
  <2>5. \A i \in 1..Len(scope) : \A n \in DOMAIN scope[i] :
          scope[i][n] \in Slots /\ (n # x => scope[i][n] # SlotOf(x))
    BY <2>4, Held, Typed DEF Apart
  <2>6. ASSUME NEW i \in 1..Len(scope), NEW n \in DOMAIN scope[i]
        PROVE  /\ n \in Rows => e.hdr[scope[i][n]] \notin e.accs
               /\ n \in Accs => e.hdr[scope[i][n]] = None \/ e.hdr[scope[i][n]] \in e.accs
    <3>1. CASE scope[i][n] = SlotOf(x)
      BY <2>1, <2>2, <2>3, <2>5, <3>1
    <3>2. CASE scope[i][n] # SlotOf(x)
      <4>1. e.hdr[scope[i][n]] = g.hdr[scope[i][n]]
        BY <2>1, <2>5, <3>2
      <4>2. QED BY <1>13, <2>1, <4>1 DEF KindsIn
    <3>3. QED BY <3>1, <3>2
  <2>7. QED BY <2>6 DEF KindsIn
<1>18. heap' = e /\ frames' = fs
  BY <1>9, <1>10, <1>15
<1>19. QED BY <1>1, <1>14, <1>16, <1>17, <1>18, Held, DisciplineNext

\* a[i] = src.
LEMMA AssignElementKept ==
  ASSUME TypeInv, Plain, Discipline,
         NEW a \in Bound \cap Accs, NEW o \in Elements(a), AssignElement(a, o)
  PROVE  Discipline'
<1>1. Room(1) /\ deep' = deep /\ scope' = scope
  BY DEF AssignElement
<1>2. PICK c : c = HeaderOf(a)
  OBVIOUS
<1>3. c \in heap.accs /\ c \in Objects /\ o \in heap.held[c] /\ o \in Objects
  BY <1>2, Typed, Held DEF Elements
<1>4. Well(heap) /\ o \notin heap.accs /\ heap.held[o] = {} /\ o # c
  BY <1>3, Held DEF Well
<1>5. PICK H : H = {o}
  OBVIOUS
<1>6. H \in SUBSET Headers
  BY <1>3, <1>5, NoneIsNoObject
<1>7. PICK d : d = Destroy(heap, H)
  OBVIOUS
<1>8. /\ d \in Heap /\ d.hdr = heap.hdr /\ d.accs = heap.accs /\ d.made = heap.made
      /\ d.destroyed = heap.destroyed \cup Hit(heap, H)
      /\ d.again = heap.again \cup (heap.destroyed \cap Hit(heap, H))
      /\ d.held = [x \in Objects |-> IF x \in H THEN {} ELSE heap.held[x]]
      /\ Hit(heap, H) \in SUBSET Objects
  BY <1>6, <1>7, Typed, DestroyIs
<1>9. PICK h : h = Placed(d, c, o, None)
  OBVIOUS
<1>10. /\ h \in Heap /\ h.held[c] = d.held[c] \ {o} /\ \A x \in Objects : x # c => h.held[x] = d.held[x]
       /\ h.hdr = heap.hdr /\ h.accs = heap.accs /\ h.made = heap.made
       /\ h.destroyed = d.destroyed /\ h.again = d.again
  <2>1. /\ h \in Heap /\ h.held[c] = (d.held[c] \ {o}) \cup ({None} \ {None})
        /\ \A x \in Objects : x # c => h.held[x] = d.held[x]
        /\ h.hdr = d.hdr /\ h.accs = d.accs /\ h.made = d.made
        /\ h.destroyed = d.destroyed /\ h.again = d.again
    <3>1. d \in Heap /\ c \in Objects /\ o \in Headers /\ None \in Headers
      BY <1>3, <1>8 DEF Headers
    <3>2. PICK no : no = None
      OBVIOUS
    <3>3. QED BY <1>9, <3>1, <3>2, PlacedIs
  <2>2. QED BY <1>8, <2>1
<1>11. /\ \A x \in Objects : h.held[x] \subseteq heap.held[x] /\ heap.held[x] \ {o} \subseteq h.held[x]
       /\ o \notin h.held[c]
  BY <1>3, <1>4, <1>5, <1>8, <1>10
<1>12. \A x \in Hit(heap, H) : x = o /\ o \in Crit(heap) /\ o \notin heap.destroyed /\ o <= heap.made
  <2>1. ~Loose(heap, o)
    BY <1>3 DEF Loose
  <2>2. ASSUME NEW x \in Hit(heap, H)
        PROVE  x = o /\ o \in Crit(heap) /\ o \notin heap.destroyed /\ o <= heap.made
    <3>1. /\ x \in Objects /\ x \in Crit(heap) /\ ~Loose(heap, x) /\ x \notin heap.destroyed
          /\ (x \in H \/ \E y \in H : y \in Objects /\ x \in heap.held[y])
      BY <1>4, <1>5, <1>6, <2>1, HitHeld
    <3>2. x = o
      BY <1>4, <1>5, <3>1
    <3>3. QED BY <1>3, <1>4, <2>1, <3>1, <3>2, HeldMade
  <2>3. QED BY <2>2
<1>13. o \in Crit(heap) => Loose(h, o)
  <2>1. SUFFICES ASSUME Single(heap, o) PROVE Loose(h, o)
    BY <1>3, <1>4 DEF Well
  <2>2. QED BY <1>3, <1>10, <1>11, <2>1 DEF Single, Loose
<1>14. Well(h)
  <2>1. h.again = {}
    <3>1. heap.destroyed \cap Hit(heap, H) = {}
      BY <1>12
    <3>2. QED BY <1>4, <1>8, <1>10, <3>1 DEF Well
  <2>2. \A s \in Slots : h.hdr[s] = heap.hdr[s] \/ h.hdr[s] = None
    BY <1>10
  <2>3. \A x \in Hit(heap, H) : x \in Crit(heap) /\ Loose(h, x) /\ x <= heap.made
    BY <1>12, <1>13
  <2>4. h.destroyed = heap.destroyed \cup Hit(heap, H)
    BY <1>8, <1>10
  <2>5. QED BY <1>4, <1>8, <1>10, <1>11, <2>1, <2>2, <2>3, <2>4, WellShrunk
<1>15. KindsIn(scope, h)
  BY <1>10, Held DEF KindsIn
<1>16. ShownHeld(o, h)
  <2>1. \A n \in Bound \cap Rows : n # o => h.hdr[SlotOf(n)] = HeaderOf(n)
    BY <1>10, Held
  <2>2. \A y \in heap.accs : \A q \in heap.held[y] : q # o => q \in h.held[y]
    BY <1>11, Held
  <2>3. QED BY <2>1, <2>2, HeldShown
<1>17. PICK src \in Sources(o, d) :
         /\ heap' = [Settled(src) EXCEPT !.held[c] = (@ \ {o}) \cup ({src.o} \ {None})]
         /\ frames' = src.fs
  BY <1>2, <1>5, <1>7 DEF AssignElement
<1>18. PICK g, new, fs : g = Settled(src) /\ new = src.o /\ fs = src.fs
  OBVIOUS
<1>19. Drawn(o, d, g, new, fs, src.used)
  BY <1>18, Typed, SourceDrawn
<1>20. g \in Heap /\ new \in Headers
  BY <1>1, <1>8, <1>19, DrawnType
<1>21. PICK e : e = Placed(g, c, o, None)
  OBVIOUS
<1>22. Drawn(o, h, e, new, fs, src.used)
  BY <1>1, <1>3, <1>8, <1>9, <1>19, <1>21, DrawnAround
<1>23. Well(e) /\ Free(e, new) /\ KindsIn(scope, e)
  BY <1>1, <1>10, <1>14, <1>15, <1>16, <1>22, Held, DrawnWell
<1>24. e.accs = h.accs
  BY <1>1, <1>10, <1>22, DrawnType
<1>25. Filed(fs, scope)
  BY <1>19, Held, DrawnFiled
<1>26. PICK r : r = Placed(e, c, o, new)
  OBVIOUS
<1>27. Well(r)
  BY <1>3, <1>10, <1>20, <1>23, <1>24, <1>26, WellPlaced
<1>28. r = Placed(g, c, o, new)
  <2>1. PICK X, Y : X = (g.held[c] \ {o}) \cup ({None} \ {None}) /\ Y = (g.held[c] \ {o}) \cup ({new} \ {None})
    OBVIOUS
  <2>2. (X \ {o}) \cup ({new} \ {None}) = Y
    BY <2>1
  <2>3. e = [g EXCEPT !.held[c] = X] /\ e.held[c] = X
    BY <1>3, <1>20, <1>21, <2>1 DEF Placed, Heap
  <2>4. r = [e EXCEPT !.held[c] = Y]
    BY <1>26, <2>2, <2>3 DEF Placed
  <2>5. Placed(g, c, o, new) = [g EXCEPT !.held[c] = Y]
    BY <2>1 DEF Placed
  <2>6. QED BY <1>20, <2>3, <2>4, <2>5 DEF Heap
<1>29. heap' = r /\ frames' = fs
  BY <1>17, <1>18, <1>28 DEF Placed
<1>30. KindsIn(scope, r)
  <2>1. r.hdr = e.hdr /\ r.accs = e.accs
    BY <1>3, <1>20, <1>23, <1>26, PlacedIs DEF Well
  <2>2. QED BY <1>23, <2>1 DEF KindsIn
<1>31. QED BY <1>1, <1>25, <1>27, <1>29, <1>30, Held, DisciplineNext

\* release n.
LEMMA ReleaseStmtKept ==
  ASSUME TypeInv, Discipline, NEW n \in Names, ReleaseStmt(n)
  PROVE  Discipline'
<1>1. /\ n \in Bound /\ frames' = (IF Owned(n) THEN Dropped(n) ELSE frames)
      /\ deep' = deep /\ scope' = scope
  BY DEF ReleaseStmt
<1>2. PICK S, h : S = {SlotOf(n)} /\ h = ReleaseSlots(heap, S)
  OBVIOUS
<1>3. S \in SUBSET Slots /\ heap' = h
  BY <1>1, <1>2, Held DEF ReleaseStmt
<1>4. Well(h)
  BY <1>2, <1>3, Held, WellReleased
<1>5. KindsIn(scope, h)
  BY <1>2, <1>3, Typed, Held, ReleasedKinds
<1>6. Filed(frames', scope)
  <2>1. CASE Owned(n)
    <3>1. frames' = Dropped(n)
      BY <1>1, <2>1
    <3>2. Len(Dropped(n)) = Len(frames) /\ \E w \in 1..Len(frames) : \E j \in 1..Len(frames[w]) :
            /\ Dropped(n)[w] = RemoveAt(frames[w], j)
            /\ \A i \in 1..Len(frames) : i # w => Dropped(n)[i] = frames[i]
      BY <2>1, Typed, DroppedIs
    <3>3. PICK w \in 1..Len(frames) : \E j \in 1..Len(frames[w]) :
            /\ Dropped(n)[w] = RemoveAt(frames[w], j)
            /\ \A i \in 1..Len(frames) : i # w => Dropped(n)[i] = frames[i]
      BY <3>2
    <3>4. QED BY <3>1, <3>2, <3>3, Typed, Held, FiledLess
  <2>2. CASE ~Owned(n)
    BY <1>1, <2>2, Held
  <2>3. QED BY <2>1, <2>2
<1>7. QED BY <1>1, <1>3, <1>4, <1>5, <1>6, Held, DisciplineNext

\* Opening a block.
LEMMA OpenBlockKept ==
  ASSUME TypeInv, Discipline, OpenBlock
  PROVE  Discipline'
<1>1. /\ frames' = Append(frames, << >>) /\ scope' = Append(scope, NoNames)
      /\ heap' = heap /\ deep' = deep
  BY DEF OpenBlock
<1>2. PICK l \in Nat : l = Len(frames) /\ l = Len(scope)
  BY Typed
<1>3. PICK fs, sc : fs = frames' /\ sc = scope'
  OBVIOUS
<1>4. /\ Len(fs) = l + 1 /\ fs[l + 1] = << >> /\ \A i \in 1..l : fs[i] = frames[i]
      /\ \A i \in 1..(l + 1) : i \in 1..l \/ i = l + 1
  <2> DEFINE T == Seq(Entries(slots))
  <2>1. frames \in Seq(T) /\ << >> \in T
    BY Typed DEF FrameLists
  <2> HIDE DEF T
  <2>2. PICK x \in T : x = << >>
    BY <2>1
  <2>3. l \in Nat /\ l = Len(frames)
    BY <1>2
  <2>4. /\ Len(Append(frames, x)) = l + 1 /\ Append(frames, x)[l + 1] = x
        /\ \A i \in 1..l : Append(frames, x)[i] = frames[i]
    BY <2>1, <2>3, AppendIs
  <2>5. /\ Len(Append(frames, << >>)) = l + 1 /\ Append(frames, << >>)[l + 1] = << >>
        /\ \A i \in 1..l : Append(frames, << >>)[i] = frames[i]
    BY <2>2, <2>4
  <2>6. \A i \in 1..(l + 1) : i \in 1..l \/ i = l + 1
    OBVIOUS
  <2>7. QED BY <1>1, <1>3, <2>5, <2>6
<1>5. Len(sc) = l + 1 /\ sc[l + 1] = NoNames /\ \A i \in 1..l : sc[i] = scope[i]
  <2> DEFINE T == UNION {[D -> 1..slots] : D \in SUBSET Names}
  <2>1. scope \in Seq(T) /\ NoNames \in T
    <3>1. NoNames \in [{} -> 1..slots]
      BY DEF NoNames
    <3>2. QED BY <3>1, Typed DEF Scopes
  <2> HIDE DEF T
  <2>2. QED BY <1>1, <1>2, <1>3, <2>1, AppendIs
<1>6. DOMAIN NoNames = {}
  BY DEF NoNames
<1>7. \A i \in 1..Len(sc) : \A n \in DOMAIN sc[i] : i \in 1..l /\ n \in DOMAIN scope[i] /\ sc[i][n] = scope[i][n]
  BY <1>4, <1>5, <1>6
<1>8. KindsIn(sc, heap) /\ Apart(sc)
  BY <1>2, <1>7, Held DEF KindsIn, Apart
<1>9. Filed(fs, sc)
  <2>1. ASSUME NEW i \in 1..Len(fs)
        PROVE  (\A j \in 1..Len(fs[i]) : Files(fs[i][j], i, sc)) /\ Once(fs[i])
    <3>1. CASE i \in 1..l
      <4>1. fs[i] = frames[i] /\ sc[i] = scope[i]
        BY <1>4, <1>5, <3>1
      <4>2. (\A j \in 1..Len(fs[i]) : Files(fs[i][j], i, scope)) /\ Once(fs[i])
        BY <1>2, <3>1, <4>1, Held DEF Filed
      <4>3. ASSUME NEW e, Files(e, i, scope) PROVE Files(e, i, sc)
        BY <1>2, <1>7, <4>1, <4>3 DEF Files
      <4>4. QED BY <4>2, <4>3
    <3>2. CASE i = l + 1
      <4>1. fs[i] = << >> /\ 1..Len(<< >>) = {}
        BY <1>4, <3>2
      <4>2. QED BY <4>1 DEF Once
    <3>3. QED BY <1>4, <3>1, <3>2
  <2>2. QED BY <2>1 DEF Filed
<1>10. QED BY <1>1, <1>3, <1>8, <1>9, Held, DisciplineNext

\* The end of a block.
LEMMA CloseBlockKept ==
  ASSUME TypeInv, Discipline, CloseBlock
  PROVE  Discipline'
<1>1. /\ Len(frames) > 2 /\ heap' = ReleaseSlots(heap, SlotsIn(Last(frames)))
      /\ scope' = Front(scope) /\ frames' = Front(frames) /\ deep' = deep
  BY DEF CloseBlock, Left
<1>2. PICK S, h : S = SlotsIn(Last(frames)) /\ h = ReleaseSlots(heap, S)
  OBVIOUS
<1>3. S \in SUBSET Slots /\ heap' = h
  BY <1>1, <1>2, LastIs
<1>4. Well(h)
  BY <1>2, <1>3, Held, WellReleased
<1>5. KindsIn(scope, h)
  BY <1>2, <1>3, Typed, Held, ReleasedKinds
<1>6. PICK sc : sc = scope'
  OBVIOUS
<1>7. PICK l \in Nat : l = Len(frames) /\ l = Len(scope) /\ l > 2
  BY <1>1, Typed
<1>8. Len(sc) = l - 1 /\ \A i \in 1..(l - 1) : sc[i] = scope[i] /\ i \in 1..l /\ i < l
  <2> DEFINE T == UNION {[D -> 1..slots] : D \in SUBSET Names}
  <2>1. scope \in Seq(T)
    BY Typed DEF Scopes
  <2> HIDE DEF T
  <2>2. Len(Front(scope)) = l - 1 /\ \A i \in 1..(l - 1) : Front(scope)[i] = scope[i]
    <3>1. l = Len(scope) /\ l > 0
      BY <1>7
    <3>2. QED BY <2>1, <3>1, FrontIs
  <2>3. \A i \in 1..(l - 1) : i \in 1..l /\ i < l
    OBVIOUS
  <2>4. sc = Front(scope)
    BY <1>1, <1>6
  <2>5. QED BY <2>2, <2>3, <2>4
<1>9. KindsIn(sc, h) /\ Apart(sc)
  <2>1. \A i \in 1..Len(sc) : i \in 1..Len(scope) /\ sc[i] = scope[i]
    BY <1>7, <1>8
  <2>2. Apart(scope)
    BY Held
  <2>3. KindsIn(sc, h)
    BY <1>5, <2>1 DEF KindsIn
  <2>4. Apart(sc)
    BY <2>1, <2>2 DEF Apart
  <2>5. QED BY <2>3, <2>4
<1>10. PICK fs : fs = Front(frames)
  OBVIOUS
<1>11. Len(fs) = l - 1 /\ \A i \in 1..(l - 1) : fs[i] = frames[i]
  <2> DEFINE T == Seq(Entries(slots))
  <2>1. frames \in Seq(T)
    BY Typed DEF FrameLists
  <2> HIDE DEF T
  <2>2. l \in Nat /\ l = Len(frames) /\ l > 0
    BY <1>7
  <2>3. Len(Front(frames)) = l - 1 /\ \A i \in 1..(l - 1) : Front(frames)[i] = frames[i]
    BY <2>1, <2>2, FrontIs
  <2>4. QED BY <1>10, <2>3
<1>12. Filed(fs, sc)
  <2>1. ASSUME NEW i \in 1..Len(fs)
        PROVE  (\A j \in 1..Len(fs[i]) : Files(fs[i][j], i, sc)) /\ Once(fs[i])
    <3>1. fs[i] = frames[i] /\ sc[i] = scope[i] /\ i \in 1..Len(frames)
      BY <1>7, <1>8, <1>11
    <3>2. (\A j \in 1..Len(fs[i]) : Files(fs[i][j], i, scope)) /\ Once(fs[i])
      BY <3>1, Held DEF Filed
    <3>3. ASSUME NEW e, Files(e, i, scope) PROVE Files(e, i, sc)
      <4>1. \A k \in 1..Len(sc) : k \in 1..Len(scope) /\ sc[k] = scope[k]
        BY <1>7, <1>8
      <4>2. QED BY <3>1, <3>3, <4>1 DEF Files
    <3>4. QED BY <3>2, <3>3
  <2>2. QED BY <2>1 DEF Filed
<1>13. QED BY <1>1, <1>3, <1>4, <1>6, <1>9, <1>10, <1>12, DisciplineNext

-----------------------------------------------------------------------------
(* Leaving the function.                                                   *)

\* A release never reaches a value that is free to be stored.
LEMMA FreeSpared ==
  ASSUME NEW h, Well(h), NEW S \in SUBSET Slots, NEW o \in Objects, Free(h, o)
  PROVE  o \notin ReleaseSlots(h, S).destroyed
<1>1. h \in Heap
  BY DEF Well
<1>2. PICK H : H = HeadersIn(h, S)
  OBVIOUS
<1>3. H \in SUBSET Headers /\ ReleaseSlots(h, S).destroyed = h.destroyed \cup Hit(h, H)
  BY <1>1, <1>2, ReleaseIs
<1>4. \A q \in H : q \in Objects => ~Loose(h, q)
  BY <1>2 DEF HeadersIn, Loose
<1>5. o \notin Hit(h, H)
  <2>1. ASSUME o \in Hit(h, H) PROVE FALSE
    <3>1. o \in Crit(h) /\ ~Loose(h, o)
      BY <1>3, <1>4, <2>1, HitHeld
    <3>2. QED BY <3>1 DEF Free
  <2>2. QED BY <2>1
<1>6. QED BY <1>3, <1>5 DEF Free

\* Nor the value of an alloca that is not among those released.
LEMMA SlotSpared ==
  ASSUME NEW h, Well(h), NEW S \in SUBSET Slots, NEW s \in Slots \ S, h.hdr[s] \in Objects
  PROVE  h.hdr[s] \notin ReleaseSlots(h, S).destroyed
<1>1. h \in Heap
  BY DEF Well
<1>2. PICK H, o : H = HeadersIn(h, S) /\ o = h.hdr[s]
  OBVIOUS
<1>3. H \in SUBSET Headers /\ ReleaseSlots(h, S).destroyed = h.destroyed \cup Hit(h, H)
  BY <1>1, <1>2, ReleaseIs
<1>4. \A q \in H : \E t \in S : h.hdr[t] = q
  BY <1>2 DEF HeadersIn
<1>5. \A q \in H : q \in Objects => ~Loose(h, q)
  BY <1>4 DEF Loose
<1>6. o \in Objects /\ o \notin h.destroyed
  BY <1>2 DEF Well, Loose
<1>7. o \notin Hit(h, H)
  <2>1. ASSUME o \in Hit(h, H) PROVE FALSE
    <3>1. o \in Crit(h) /\ (o \in H \/ \E c \in H : c \in Objects /\ o \in h.held[c])
      BY <1>3, <1>5, <2>1, HitHeld
    <3>2. Single(h, o)
      BY <1>6, <3>1 DEF Well
    <3>3. o \notin H
      BY <1>2, <1>4, <3>2 DEF Single
    <3>4. \A c \in Objects : o \notin h.held[c]
      BY <1>2, <3>2 DEF Single
    <3>5. QED BY <3>1, <3>3, <3>4
  <2>2. QED BY <2>1
<1>8. QED BY <1>2, <1>3, <1>6, <1>7

\* The invariant once the function has returned.
LEMMA Returned ==
  ASSUME NEW h, Well(h), NEW o, DeepShapes = {} => (o \in Objects => o \notin h.destroyed),
         Return(h, o)
  PROVE  IInv'
BY DEF Return, IInv, Parted, EscapedIntact, Well

\* The slot of a body's last name is not among those its frame releases.
LEMMA TransferredIs ==
  ASSUME TypeInv, Discipline, Len(frames) = 2, NEW n \in Bound
  PROVE  TransferredOut(n) \in SUBSET Slots /\ SlotOf(n) \in Slots \ TransferredOut(n)
<1>1. PICK f \in Seq(Entries(slots)) : f = Last(frames) /\ f = frames[2]
  BY LastIs
<1>2. /\ \A j \in 1..Len(f) : Files(f[j], 2, scope)
      /\ Once(f)
  BY <1>1, Held DEF Filed
<1>3. \A j \in 1..Len(f) : f[j].slot = SlotOf(n) => f[j].name = n
  <2>1. ASSUME NEW j \in 1..Len(f), f[j].slot = SlotOf(n) PROVE f[j].name = n
    <3>1. Files(f[j], 2, scope)
      BY <1>2
    <3>2. PICK b \in 1..Len(scope) : n \in DOMAIN scope[b] /\ SlotOf(n) = scope[b][n]
      BY Typed
    <3>3. Apart(scope) /\ 2 \in 1..Len(scope)
      <4>1. Len(scope) = 2
        BY Typed
      <4>2. QED BY <4>1, Held
    <3>4. PICK e : e = f[j]
      OBVIOUS
    <3>5. e.name \in DOMAIN scope[2] /\ scope[2][e.name] = scope[b][n]
      BY <2>1, <3>1, <3>2, <3>4 DEF Files
    <3>6. QED BY <3>2, <3>3, <3>4, <3>5 DEF Apart
  <2>2. QED BY <2>1
<1>4. n \in Names /\ SlotOf(n) \in Slots /\ 1..slots \subseteq Slots
  BY Typed, BoundsAssumption DEF Slots
<1>5. CASE ~HasEntry(f, n)
  <2>1. TransferredOut(n) = SlotsIn(f) /\ SlotsIn(f) \subseteq Slots
    BY <1>1, <1>5, LastIs DEF TransferredOut
  <2>2. SlotOf(n) \notin SlotsIn(f)
    BY <1>3, <1>5 DEF SlotsIn, HasEntry, ToSet
  <2>3. QED BY <1>4, <2>1, <2>2
<1>6. CASE HasEntry(f, n)
  <2>1. PICK j \in 1..Len(f) : f[j].name = n /\ WithoutEntry(f, n) = RemoveAt(f, j)
    BY <1>6, WithoutEntryIs
  <2>2. PICK r \in Seq(Entries(slots)) : r = RemoveAt(f, j)
    BY RemovedIs
  <2>3. PICK l \in Nat : l = Len(f)
    OBVIOUS
  <2>4. /\ r \in Seq(Entries(slots)) /\ Len(r) = l - 1
        /\ \A i \in 1..(l - 1) : r[i] = IF i < j THEN f[i] ELSE f[i + 1]
    BY <2>2, <2>3, RemovedIs
  <2>5. SlotsIn(r) \subseteq Slots
    BY <1>4, <2>4, SlotsInIs
  <2>6. \A i \in 1..l : f[i].slot = SlotOf(n) => i = j
    BY <1>2, <1>3, <1>4, <2>1, <2>3 DEF Once
  <2>7. \A i \in 1..(l - 1) : r[i].slot # SlotOf(n)
    <3>1. ASSUME NEW i \in 1..(l - 1) PROVE r[i].slot # SlotOf(n)
      <4>1. CASE i < j
        BY <2>3, <2>4, <2>6, <4>1
      <4>2. CASE ~(i < j)
        <5>1. r[i] = f[i + 1] /\ i + 1 \in 1..l /\ i + 1 # j
          BY <2>3, <2>4, <4>2
        <5>2. QED BY <2>6, <5>1
      <4>3. QED BY <4>1, <4>2
    <3>2. QED BY <3>1
  <2>8. DOMAIN r = 1..(l - 1)
    BY <2>4
  <2>9. SlotOf(n) \notin SlotsIn(r)
    BY <2>7, <2>8 DEF SlotsIn, ToSet
  <2>10. TransferredOut(n) = SlotsIn(r)
    BY <1>1, <1>6, <2>1, <2>2 DEF TransferredOut
  <2>11. QED BY <1>4, <2>5, <2>9, <2>10
<1>7. QED BY <1>5, <1>6

\* A body ending in a name.
LEMMA TailNameKept ==
  ASSUME TypeInv, Discipline, NEW n \in Names, TailName(n)
  PROVE  IInv'
<1>1. n \in Bound /\ Len(frames) = 2 /\ Return(ReleaseSlots(heap, TransferredOut(n)), HeaderOf(n))
  BY DEF TailName
<1>2. PICK S, s : S = TransferredOut(n) /\ s = SlotOf(n)
  OBVIOUS
<1>3. S \in SUBSET Slots /\ s \in Slots \ S /\ HeaderOf(n) = heap.hdr[s] /\ Well(heap)
  BY <1>1, <1>2, TransferredIs, Held
<1>4. Well(ReleaseSlots(heap, S))
  BY <1>3, WellReleased
<1>5. HeaderOf(n) \in Objects => HeaderOf(n) \notin ReleaseSlots(heap, S).destroyed
  BY <1>3, SlotSpared
<1>6. QED BY <1>1, <1>2, <1>4, <1>5, Returned

\* A body ending in a row that was evaluated and settled as for any sink.
LEMMA ReturnDrawn ==
  ASSUME TypeInv, Plain, Discipline, Room(1), NEW S \in SUBSET Slots,
         NEW h, NEW o, NEW fs, NEW u, Drawn(None, heap, h, o, fs, u),
         Return(ReleaseSlots(h, S), o)
  PROVE  IInv'
<1>1. ShownHeld(None, heap)
  BY HeldShown, Held
<1>2. Well(h) /\ Free(h, o)
  BY <1>1, Held, DrawnWell
<1>3. Well(ReleaseSlots(h, S))
  BY <1>2, WellReleased
<1>4. o \in Objects => o \notin ReleaseSlots(h, S).destroyed
  BY <1>2, FreeSpared
<1>5. QED BY <1>3, <1>4, Returned

\* A body ending in an element of an acc.
LEMMA TailElementKept ==
  ASSUME TypeInv, Plain, Discipline, NEW a \in Bound \cap Accs, NEW o \in Elements(a),
         TailElement(o)
  PROVE  IInv'
<1>1. Room(1) /\ Return(ReleaseSlots(Borrowed(heap, o).h, SlotsIn(Last(frames))), Borrowed(heap, o).o)
  BY DEF TailElement
<1>2. o # None
  BY Typed, NoneIsNoObject
<1>3. Borrowed(heap, o).h = Cloned(heap, o) /\ Borrowed(heap, o).o = Fresh(heap)
  BY <1>2 DEF Borrowed, Source
<1>4. PICK h, new, S : h = Cloned(heap, o) /\ new = Fresh(heap) /\ S = SlotsIn(Last(frames))
  OBVIOUS
<1>5. Copies(o, heap, h, new, frames, 0)
  BY <1>2, <1>4 DEF Copies
<1>6. o \in Shown(None)
  BY <1>2 DEF Shown
<1>7. Drawn(None, heap, h, new, frames, 0)
  BY <1>5, <1>6 DEF Drawn
<1>8. S \in SUBSET Slots /\ Return(ReleaseSlots(h, S), new)
  BY <1>1, <1>3, <1>4, LastIs
<1>9. QED BY <1>1, <1>7, <1>8, ReturnDrawn

\* A body ending in a call.
LEMMA TailCallKept ==
  ASSUME TypeInv, Plain, Discipline, TailCall
  PROVE  IInv'
<1>1. /\ Room(1) /\ slots < MaxSlots /\ "fresh" \in Shapes
      /\ Return(ReleaseSlots(FromCall(heap).h, SlotsIn(Last(FromCall(heap).fs))), FromCall(heap).o)
  BY DEF TailCall
<1>2. PICK h, o, fs : h = FromCall(heap).h /\ o = FromCall(heap).o /\ fs = FromCall(heap).fs
  OBVIOUS
<1>3. Calls(heap, h, o, fs, 1)
  BY <1>1, <1>2 DEF FromCall, Source, Calls
<1>4. Drawn(None, heap, h, o, fs, 1)
  BY <1>3 DEF Drawn
<1>5. fs \in FrameLists(slots + 1) /\ Len(fs) = Len(frames) /\ slots + 1 \in 0..MaxSlots
  BY <1>1, <1>4, Typed, DrawnType
<1>6. PICK S : S = SlotsIn(Last(fs))
  OBVIOUS
<1>7. S \in SUBSET Slots
  <2>1. Last(fs) \in Seq(Entries(slots + 1))
    BY <1>5, Typed DEF FrameLists, Last
  <2>2. 1..(slots + 1) \subseteq Slots
    BY <1>5, BoundsAssumption DEF Slots
  <2>3. QED BY <1>6, <2>1, <2>2, SlotsInIs
<1>8. Return(ReleaseSlots(h, S), o)
  BY <1>1, <1>2, <1>6
<1>9. QED BY <1>1, <1>4, <1>7, <1>8, ReturnDrawn

\* An early return of a row: where releases spare elements it is whole.
LEMMA YieldNameKept ==
  ASSUME TypeInv, Discipline, NEW n \in Names, YieldName(n)
  PROVE  IInv'
<1>1. "yield" \in Shapes /\ n \in Bound \cap Rows /\ Return(ReleaseSlots(heap, AllSlots), HeaderOf(n))
  BY DEF YieldName
<1>2. PICK g, o, S : g = ReleaseSlots(heap, S) /\ o = HeaderOf(n) /\ S = AllSlots
  OBVIOUS
<1>3. S \in SUBSET Slots
  BY <1>2, LastIs
<1>4. Well(g) /\ g.accs = heap.accs
  BY <1>2, <1>3, Held, WellReleased, Typed, ReleaseIs
<1>5. ASSUME DeepShapes = {} PROVE o \notin g.destroyed
  <2>1. ~deep
    BY <1>1, <1>5 DEF Shapes
  <2>2. o \notin g.accs
    BY <1>1, <1>2, <1>4, Held
  <2>3. QED BY <1>4, <2>1, <2>2 DEF Well, Crit
<1>6. QED BY <1>1, <1>2, <1>4, <1>5, Returned

\* A return of nothing.
LEMMA YieldNothingKept ==
  ASSUME TypeInv, Discipline, YieldNothing
  PROVE  IInv'
<1>1. Return(ReleaseSlots(heap, AllSlots), None)
  BY DEF YieldNothing
<1>2. PICK S : S = AllSlots
  OBVIOUS
<1>3. Well(ReleaseSlots(heap, S))
  BY <1>2, LastIs, Held, WellReleased
<1>4. QED BY <1>1, <1>2, <1>3, NoneIsNoObject, Returned

-----------------------------------------------------------------------------
(* The theorems.                                                           *)

\* Nothing is held, bound or listed at the start.
LEMMA InvInit == Init => IInv
<1> SUFFICES ASSUME Init PROVE IInv
  OBVIOUS
<1>1. /\ frames = << << >>, << >> >> /\ scope = <<NoNames, NoNames>> /\ running = TRUE /\ out = None
      /\ heap = [hdr |-> [s \in Slots |-> None], held |-> [o \in Objects |-> {}],
                 accs |-> {}, destroyed |-> {}, again |-> {}, made |-> 0]
  BY DEF Init
<1>2. heap \in Heap
  BY TypeInit DEF TypeInv, TypeOK
<1>3. \A o \in Objects : Loose(heap, o) /\ Single(heap, o)
  BY <1>1, NoneIsNoObject DEF Loose, Single
<1>4. Well(heap)
  BY <1>1, <1>2, <1>3 DEF Well
<1>5. KindsIn(scope, heap) /\ Apart(scope)
  <2>1. \A i \in 1..Len(scope) : DOMAIN scope[i] = {}
    BY <1>1 DEF NoNames
  <2>2. QED BY <2>1 DEF KindsIn, Apart
<1>6. Filed(frames, scope)
  <2>1. \A i \in 1..Len(frames) : frames[i] = << >>
    BY <1>1
  <2>2. \A j \in 1..Len(<< >>) : FALSE
    OBVIOUS
  <2>3. QED BY <2>1, <2>2 DEF Filed, Once
<1>7. QED BY <1>1, <1>4, <1>5, <1>6 DEF IInv, Discipline

\* The invariant of a step that does not leave the function.
LEMMA RunsOn ==
  ASSUME running, out = None, running' = running, out' = out, deep' = deep, Discipline'
  PROVE  IInv'
BY DEF IInv

\* Every action keeps it.
LEMMA InvStep == TypeInv /\ IInv /\ [Next]_vars => IInv'
<1> SUFFICES ASSUME TypeInv, IInv, [Next]_vars PROVE IInv'
  OBVIOUS
<1>1. deep' = deep
  BY DEF Next, vars, BindLiteral, BindCall, ReleaseStmt, Push, Assign, AssignElement, TailElement,
         OpenBlock, CloseBlock, YieldNothing, TailCall, TailName, YieldName, Return
<1>2. CASE ~Plain
  BY <1>1, <1>2 DEF IInv, Plain
<1>3. CASE UNCHANGED vars
  <2>1. heap' = heap /\ scope' = scope /\ frames' = frames /\ deep' = deep /\ running' = running /\ out' = out
    BY <1>3 DEF vars
  <2>2. Discipline => Discipline'
    BY <2>1, DisciplineNext DEF Discipline
  <2>3. Parted => Parted'
    BY <2>1 DEF Parted, EscapedIntact
  <2>4. Plain' = Plain
    BY <2>1 DEF Plain
  <2>5. QED BY <2>1, <2>2, <2>3, <2>4 DEF IInv
<1>4. CASE Plain /\ Next
  <2>1. running
    BY <1>4 DEF Next, MayBind, BindLiteral, BindCall, ReleaseStmt, Push, Assign, AssignElement, TailElement,
                OpenBlock, CloseBlock, YieldNothing, TailCall, TailName, YieldName
  <2>2. Discipline /\ out = None
    BY <1>4, <2>1 DEF IInv
  <2>3. ASSUME running' = running, out' = out, Discipline' PROVE IInv'
    BY <1>1, <1>4, <2>1, <2>2, <2>3, RunsOn
  <2>4. CASE \E n \in Names : BindLiteral(n) \/ BindCall(n) \/ ReleaseStmt(n)
    <3>1. PICK n \in Names : BindLiteral(n) \/ BindCall(n) \/ ReleaseStmt(n)
      BY <2>4
    <3>2. running' = running /\ out' = out
      BY <3>1 DEF BindLiteral, BindCall, ReleaseStmt
    <3>3. Discipline'
      BY <1>4, <2>2, <3>1, BindLiteralKept, BindCallKept, ReleaseStmtKept
    <3>4. QED BY <2>3, <3>2, <3>3
  <2>5. CASE \E a \in Accs : Push(a)
    <3>1. PICK a \in Accs : Push(a)
      BY <2>5
    <3>2. running' = running /\ out' = out
      BY <3>1 DEF Push
    <3>3. Discipline'
      BY <1>4, <2>2, <3>1, PushKept
    <3>4. QED BY <2>3, <3>2, <3>3
  <2>6. CASE \E x \in Rows : Assign(x)
    <3>1. PICK x \in Rows : Assign(x)
      BY <2>6
    <3>2. running' = running /\ out' = out
      BY <3>1 DEF Assign
    <3>3. Discipline'
      BY <1>4, <2>2, <3>1, AssignKept
    <3>4. QED BY <2>3, <3>2, <3>3
  <2>7. CASE \E a \in Bound \cap Accs : \E o \in Elements(a) : AssignElement(a, o) \/ TailElement(o)
    <3>1. PICK a \in Bound \cap Accs : \E o \in Elements(a) : AssignElement(a, o) \/ TailElement(o)
      BY <2>7
    <3>2. PICK o \in Elements(a) : AssignElement(a, o) \/ TailElement(o)
      BY <3>1
    <3>3. CASE AssignElement(a, o)
      <4>1. running' = running /\ out' = out
        BY <3>3 DEF AssignElement
      <4>2. Discipline'
        BY <1>4, <2>2, <3>3, AssignElementKept
      <4>3. QED BY <2>3, <4>1, <4>2
    <3>4. CASE TailElement(o)
      BY <1>4, <2>2, <3>4, TailElementKept
    <3>5. QED BY <3>2, <3>3, <3>4
  <2>8. CASE OpenBlock \/ CloseBlock
    <3>1. running' = running /\ out' = out
      BY <2>8 DEF OpenBlock, CloseBlock
    <3>2. Discipline'
      BY <2>2, <2>8, OpenBlockKept, CloseBlockKept
    <3>3. QED BY <2>3, <3>1, <3>2
  <2>9. CASE YieldNothing \/ TailCall
    BY <1>4, <2>2, <2>9, YieldNothingKept, TailCallKept
  <2>10. CASE \E n \in Names : TailName(n) \/ YieldName(n)
    BY <2>2, <2>10, TailNameKept, YieldNameKept
  <2>11. QED BY <1>4, <2>4, <2>5, <2>6, <2>7, <2>8, <2>9, <2>10 DEF Next
<1>5. QED BY <1>2, <1>3, <1>4

\* With names that may shadow one another: while no call makes rows whose release
\* destroys and none is moved through the entry of a shadowed variable, an object
\* that a release would destroy has one holder; every entry of a frame is that of
\* a name bound in it, so what is released at its end is held nowhere else.
THEOREM InvCorrect == Spec => [](TypeInv /\ IInv)
<1>1. Init => TypeInv /\ IInv
  BY TypeInit, InvInit
<1>2. (TypeInv /\ IInv) /\ [Next]_vars => (TypeInv /\ IInv)'
  BY TypeStep, InvStep
<1>3. QED BY <1>1, <1>2, PTL DEF Spec

\* What a variable holds, shadowed or not, has not been destroyed by another's release.
THEOREM SinksIntactCorrect ==
  ASSUME "fresh" \notin DeepShapes, "respend" \notin DeepShapes PROVE Spec => []SinksIntact
<1>1. ASSUME TypeInv, IInv, running,
             NEW i \in DOMAIN scope, NEW n \in DOMAIN scope[i], heap.hdr[scope[i][n]] # None,
             NEW q \in {heap.hdr[scope[i][n]]} \cup heap.held[heap.hdr[scope[i][n]]]
      PROVE  q \notin heap.destroyed
  <2>1. Well(heap) /\ scope[i][n] \in Slots
    <3>1. Well(heap)
      BY <1>1, Held DEF IInv, Plain
    <3>2. i \in 1..Len(scope)
      BY <1>1, Typed, ScopesAre
    <3>3. QED BY <1>1, <3>1, <3>2, Typed
  <2>2. heap.hdr[scope[i][n]] \in Objects
    BY <1>1, <2>1, Typed DEF Heap, Headers
  <2>3. ~Loose(heap, q)
    BY <1>1, <2>1, <2>2 DEF Loose
  <2>4. QED BY <2>1, <2>3 DEF Well
<1>2. TypeInv /\ IInv => SinksIntact
  BY <1>1 DEF SinksIntact
<1>3. QED BY <1>2, InvCorrect, PTL

\* A set without two elements.
LEMMA AtMostOne ==
  ASSUME NEW S, \A p, q \in S : p = q
  PROVE  Cardinality(S) <= 1
<1>1. CASE S = {}
  <2>1. Cardinality(S) = 0
    BY <1>1, FS_EmptySet
  <2>2. QED BY <2>1
<1>2. CASE S # {}
  <2>1. PICK p : S = {p}
    BY <1>2
  <2>2. Cardinality(S) = 1
    BY <2>1, FS_Singleton
  <2>3. QED BY <2>2
<1>3. QED BY <1>1, <1>2

\* Every value whose release destroys it ends up in one sink.
THEOREM OneSinkCorrect ==
  ASSUME "fresh" \notin DeepShapes, "respend" \notin DeepShapes PROVE Spec => []OneSink
<1>1. ASSUME TypeInv, IInv, running, deep, NEW o \in Objects
      PROVE  Cardinality(Holders(o)) <= 1
  <2>1. Single(heap, o)
    BY <1>1, Held DEF IInv, Plain, Well, Crit
  <2>2. ASSUME NEW p \in Holders(o), NEW q \in Holders(o) PROVE p = q
    <3>1. CASE \E s \in Slots : heap.hdr[s] = o
      <4>1. PICK s \in Slots : heap.hdr[s] = o
        BY <3>1
      <4>2. \A r \in Holders(o) : r = <<"slot", s>>
        BY <2>1, <4>1 DEF Holders, Single
      <4>3. QED BY <4>2
    <3>2. CASE ~\E s \in Slots : heap.hdr[s] = o
      <4>1. PICK c \in Objects : o \in heap.held[c] /\ p = <<"chunk", c>>
        BY <3>2 DEF Holders
      <4>2. PICK d \in Objects : o \in heap.held[d] /\ q = <<"chunk", d>>
        BY <3>2 DEF Holders
      <4>3. QED BY <2>1, <4>1, <4>2 DEF Single
    <3>3. QED BY <3>1, <3>2
  <2>3. QED BY <2>2, AtMostOne
<1>2. TypeInv /\ IInv => OneSink
  BY <1>1 DEF OneSink
<1>3. QED BY <1>2, InvCorrect, PTL

\* No object is released twice, on any path through the function.
THEOREM ReleasedOnceCorrect ==
  ASSUME "fresh" \notin DeepShapes, "respend" \notin DeepShapes PROVE Spec => []ReleasedOnce
<1>1. ASSUME TypeInv, IInv PROVE ReleasedOnce
  <2>1. CASE running
    BY <1>1, <2>1, Held DEF IInv, Plain, Well, ReleasedOnce
  <2>2. CASE ~running
    BY <1>1, <2>2 DEF IInv, Plain, Parted, ReleasedOnce
  <2>3. QED BY <2>1, <2>2
<1>2. TypeInv /\ IInv => ReleasedOnce
  BY <1>1
<1>3. QED BY <1>2, InvCorrect, PTL

\* What the function returns is whole.
THEOREM EscapedIntactCorrect ==
  ASSUME DeepShapes = {} PROVE Spec => []EscapedIntact
<1>1. ASSUME TypeInv, IInv PROVE EscapedIntact
  <2>1. Plain
    BY DEF Plain
  <2>2. CASE running
    BY <1>1, <2>1, <2>2, NoneIsNoObject DEF IInv, EscapedIntact
  <2>3. CASE ~running
    BY <1>1, <2>1, <2>3 DEF IInv, Parted
  <2>4. QED BY <2>2, <2>3
<1>2. TypeInv /\ IInv => EscapedIntact
  BY <1>1
<1>3. QED BY <1>2, InvCorrect, PTL
=============================================================================
