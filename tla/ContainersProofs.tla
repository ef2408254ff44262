-------------------------- MODULE ContainersProofs --------------------------
(***************************************************************************)
(* The invariants of Containers, for every number of blocks, elements,     *)
(* uses open at once, slots of a chunk and first capacity.                 *)
(***************************************************************************)
EXTENDS Containers, DataLemmas

\* What the assumptions say of the numbers.
LEMMA Numbers ==
  /\ N \in Nat \ {0} /\ INITIAL_CAP \in Nat \ {0} /\ MaxLen \in Nat
  /\ Addr \subseteq Nat \ {0} /\ NULL = 0 /\ NULL \notin Addr /\ Depth \in Nat /\ Depth = MaxLen + 1
BY SizesAssumption DEF NULL, Depth

-----------------------------------------------------------------------------
(* The first index of the i-th chunk of a chain.                           *)

First(i) == (i - 1) * N

\* It goes by N.
LEMMA FirstGoes ==
  /\ First(1) = 0
  /\ \A i \in Nat \ {0} : First(i) \in Nat /\ First(i + 1) = First(i) + N /\ First(i) + N \in Nat
<1>1. N \in Nat
  BY Numbers
<1>2. ASSUME NEW i \in Nat \ {0} PROVE First(i) \in Nat /\ First(i + 1) = First(i) + N
  <2>1. PICK m \in Nat : i = m + 1
    <3>1. i - 1 \in Nat /\ i = (i - 1) + 1
      OBVIOUS
    <3>2. QED BY <3>1
  <2>2. m * N \in Nat /\ (m + 1) * N = m * N + N
    BY <1>1
  <2>3. i - 1 = m /\ (i + 1) - 1 = m + 1
    BY <2>1
  <2>4. QED BY <2>2, <2>3 DEF First
<1>3. First(1) = 0
  BY <1>1 DEF First
<1>4. QED BY <1>1, <1>2, <1>3

\* A chunk begins where another one ends, or later.
LEMMA FirstGrows ==
  \A j \in Nat \ {0} : j - 1 <= First(j) /\ \A i \in Nat \ {0} : i < j => First(i) + N <= First(j)
<1> DEFINE T == {m \in Nat : m <= First(m + 1)
                   /\ \A i \in Nat \ {0} : i < m + 1 => First(i) + N <= First(m + 1)}
<1>1. 0 \in T
  <2>1. \A i \in Nat \ {0} : ~(i < 1)
    OBVIOUS
  <2>2. QED BY <2>1, FirstGoes
<1>2. ASSUME NEW m \in Nat, m \in T PROVE m + 1 \in T
  <2>3. First((m + 1) + 1) = First(m + 1) + N /\ First(m + 1) \in Nat
    BY FirstGoes
  <2>4. m <= First(m + 1) /\ \A i \in Nat \ {0} : i < m + 1 => First(i) + N <= First(m + 1)
    BY <1>2
  <2>5. ASSUME NEW i \in Nat \ {0}, i < (m + 1) + 1 PROVE First(i) + N <= First((m + 1) + 1)
    <3>1. First(i) \in Nat /\ N \in Nat
      BY Numbers, FirstGoes
    <3>2. CASE i = m + 1
      BY <2>3, <3>1, <3>2
    <3>3. CASE i # m + 1
      <4>1. i < m + 1
        BY <2>5, <3>3
      <4>2. First(i) + N <= First(m + 1)
        BY <2>4, <4>1
      <4>3. QED BY <2>3, <3>1, <4>2
    <3>4. QED BY <3>2, <3>3
  <2>6. m + 1 <= First((m + 1) + 1)
    BY <2>3, <2>4, Numbers
  <2>7. QED BY <2>5, <2>6
<1> HIDE DEF T
<1>3. Nat \subseteq T
  BY <1>1, <1>2, SetInduction
<1>4. ASSUME NEW j \in Nat \ {0}
      PROVE  j - 1 <= First(j) /\ \A i \in Nat \ {0} : i < j => First(i) + N <= First(j)
  <2>1. PICK m \in Nat : j = m + 1
    <3>1. j - 1 \in Nat /\ j = (j - 1) + 1
      OBVIOUS
    <3>2. QED BY <3>1
  <2>2. m \in T
    BY <1>3
  <2>3. (m + 1) - 1 = m
    OBVIOUS
  <2>4. QED BY <2>1, <2>2, <2>3 DEF T
<1>5. QED BY <1>4

\* Index k lies in the i-th chunk, which is the Place(k)-th.
In(i, k) == First(i) <= k /\ k < First(i) + N
Place(k) == CHOOSE i \in 1..(k + 1) : In(i, k)

\* An index lies in one chunk at most.
LEMMA InOne ==
  ASSUME NEW k \in Nat, NEW i \in Nat \ {0}, NEW j \in Nat \ {0}, In(i, k), In(j, k)
  PROVE  i = j
<1>1. First(i) \in Nat /\ First(j) \in Nat /\ N \in Nat
  BY Numbers, FirstGoes
<1>2. (i < j => First(i) + N <= First(j)) /\ (j < i => First(j) + N <= First(i))
  BY FirstGrows
<1>3. QED BY <1>1, <1>2 DEF In

\* Every index lies in one.
LEMMA InSome ==
  ASSUME NEW k \in Nat
  PROVE  \E i \in 1..(k + 1) : In(i, k)
<1> DEFINE T == {m \in Nat : \E i \in 1..(m + 1) : In(i, m)}
<1>1. 0 \in T
  <2>1. In(1, 0)
    BY FirstGoes, Numbers DEF In
  <2>2. QED BY <2>1
<1>2. ASSUME NEW m \in Nat, m \in T PROVE m + 1 \in T
  <2>1. PICK i \in 1..(m + 1) : In(i, m)
    BY <1>2
  <2>2. i \in Nat \ {0} /\ i \in 1..((m + 1) + 1) /\ i + 1 \in 1..((m + 1) + 1)
    OBVIOUS
  <2>3. First(i + 1) = First(i) + N /\ First(i) \in Nat /\ N \in Nat \ {0}
    BY <2>2, FirstGoes, Numbers
  <2>4. CASE m + 1 < First(i) + N
    <3>1. In(i, m + 1)
      BY <2>1, <2>3, <2>4 DEF In
    <3>2. QED BY <2>2, <3>1
  <2>5. CASE ~(m + 1 < First(i) + N)
    <3>1. In(i + 1, m + 1)
      BY <2>1, <2>3, <2>5 DEF In
    <3>2. QED BY <2>2, <3>1
  <2>6. QED BY <2>4, <2>5
<1> HIDE DEF T
<1>3. k \in T
  BY <1>1, <1>2, SetInduction
<1>4. QED BY <1>3 DEF T

\* So Place finds it.
LEMMA PlaceIs ==
  ASSUME NEW k \in Nat
  PROVE  /\ Place(k) \in 1..(k + 1) /\ Place(k) \in Nat \ {0} /\ In(Place(k), k)
         /\ \A i \in Nat \ {0} : In(i, k) => Place(k) = i
<1>1. Place(k) \in 1..(k + 1) /\ In(Place(k), k)
  BY InSome DEF Place
<1>2. Place(k) \in Nat \ {0}
  BY <1>1
<1>3. QED BY <1>1, <1>2, InOne

-----------------------------------------------------------------------------
(* The invariant.  Its parts take the state they are about as arguments, so  *)
(* that a step can be followed from one heap to the next.  A chain, ch, is   *)
(* the sequence of a container's chunks, from its head to its tail.          *)

Sorts == {"free", "swept", "string", "chunk", "bytes", "buffer"}

\* Every block has its fields.
Shape(hp) ==
  /\ hp = [a \in Addr |-> hp[a]]
  /\ \A a \in Addr :
       /\ hp[a].is \in Sorts
       /\ hp[a] = [is |-> hp[a].is, items |-> hp[a].items, used |-> hp[a].used,
                   next |-> hp[a].next, text |-> hp[a].text]

Live(hp, a) == a \in Addr /\ hp[a].is \notin {"free", "swept"}
IsString(hp, a) == a \in Addr /\ hp[a].is = "string"
Item(hp, s) == s = NULL \/ IsString(hp, s)

\* A chunk's used slots, and no slot after them is the container's, hold strings.
ChunkOK(hp, a) ==
  /\ a \in Addr /\ hp[a].is = "chunk"
  /\ DOMAIN hp[a].items = 1..N /\ hp[a].used \in 0..N
  /\ \A k \in 1..N : Item(hp, hp[a].items[k])
  /\ \A k \in 1..N : k <= hp[a].used => IsString(hp, hp[a].items[k])

\* A chain is full but for its last chunk.
Linked(kd, hp, ch) ==
  /\ ch \in Seq(Addr) /\ IsInjective(ch) /\ Len(ch) <= MaxLen
  /\ kd = "dvec" => ch = << >>
  /\ \A i \in 1..Len(ch) : ChunkOK(hp, ch[i])
  /\ \A i \in 1..Len(ch) : i < Len(ch) => hp[ch[i]].next = ch[i + 1] /\ hp[ch[i]].used = N
  /\ ch # << >> => hp[ch[Len(ch)]].next = NULL

Disjoint(ch1, ch2) == Range(ch1) \cap Range(ch2) = {}

\* The slots filled, and the k-th of them.
Count(hp, ch) == IF ch = << >> THEN 0 ELSE First(Len(ch)) + hp[ch[Len(ch)]].used
SlotOf(ch, k) == <<ch[Place(k)], (k - First(Place(k))) + 1>>

IsHeader(h) ==
  /\ h = [head |-> h.head, tail |-> h.tail, buf |-> h.buf, len |-> h.len, cap |-> h.cap]
  /\ {h.head, h.tail, h.buf} \subseteq Addr \cup {NULL}
  /\ h.len \in 0..MaxLen /\ h.cap \in Nat

\* The buffer of a header: of slot addresses, or of elements.
BytesOK(hp, h, ch) ==
  /\ h.len <= h.cap /\ (h.buf = NULL <=> h.cap = 0)
  /\ h.buf # NULL => hp[h.buf].is = "bytes" /\ DOMAIN hp[h.buf].items = 1..h.cap
  /\ \A k \in 1..h.cap : k <= h.len => hp[h.buf].items[k] = SlotOf(ch, k - 1)
BufferOK(hp, h) ==
  /\ h.len <= h.cap /\ (h.buf = NULL <=> h.cap = 0)
  /\ h.buf # NULL => hp[h.buf].is = "buffer" /\ DOMAIN hp[h.buf].items = 1..h.cap
  /\ \A k \in 1..h.cap : Item(hp, hp[h.buf].items[k])
  /\ \A k \in 1..h.cap : k <= h.len => IsString(hp, hp[h.buf].items[k])

\* What a header, or a copy of it, reaches of a chain.
Leads(kd, hp, h, ch) ==
  /\ IsHeader(h)
  /\ kd # "dvec" => h.len <= Count(hp, ch)
  /\ kd # "dvec" /\ h.len > 0 => h.head = ch[1]
  /\ kd = "ivec" => BytesOK(hp, h, ch)
  /\ kd = "dvec" => BufferOK(hp, h)

\* A container's own header.
Owns(kd, hp, h, ch) ==
  /\ Linked(kd, hp, ch) /\ Leads(kd, hp, h, ch)
  /\ kd # "dvec" => h.len = Count(hp, ch)
  /\ ch = << >> => h.head = NULL /\ h.tail = NULL
  /\ ch # << >> => h.head = ch[1] /\ h.tail = ch[Len(ch)]

\* The loop's copy: of the container's header while it lives, of one of its
\* own that shares nothing with it afterwards.
Ptrs(kd, h) ==
  CASE kd = "tablets" -> {h.head, h.tail}
    [] kd = "ivec" -> {h.buf, h.head, h.tail}
    [] kd = "dvec" -> {h.buf}
ViewOK(kd, hp, v, h, cc, cd, vc) ==
  /\ v = [on |-> v.on, h |-> v.h, i |-> v.i, grown |-> v.grown, gone |-> v.gone]
  /\ v.on \in BOOLEAN /\ v.grown \in BOOLEAN /\ v.gone \in BOOLEAN
  /\ v.on = FALSE => v.h = EmptyHeader /\ v.grown = FALSE /\ v.gone = FALSE
  /\ Linked(kd, hp, vc) /\ Leads(kd, hp, v.h, vc) /\ Disjoint(vc, cd)
  /\ \A a \in Ptrs(kd, v.h) : a = NULL \/ Live(hp, a)
  /\ v.gone = FALSE => vc = cc /\ v.h.len <= h.len
  /\ v.on = TRUE /\ v.gone = FALSE /\ v.grown = FALSE /\ kd = "dvec" => v.h.buf = h.buf
  /\ v.gone = TRUE => /\ Disjoint(vc, cc) /\ (vc # << >> => v.h.head = vc[1])
                      /\ v.h.buf = NULL \/ v.h.buf # h.buf

\* A handle's chunk lives, and while its container does it is one of its slots.
WedgeOK(kd, hp, w, h, cc) ==
  /\ w = [slot |-> w.slot, i |-> w.i, gone |-> w.gone]
  /\ w # NoWedge =>
       /\ kd # "dvec" /\ w.gone \in BOOLEAN /\ w.i \in Nat
       /\ ChunkOK(hp, w.slot[1]) /\ w.slot[2] \in 1..N /\ w.slot[2] <= hp[w.slot[1]].used
       /\ w.gone = FALSE => w.i < h.len /\ w.slot = SlotOf(cc, w.i)

\* The address of an assignment that has moved is none of the container's.
LvalOK(kd, hp, l, h, cc, cd) ==
  /\ l = [on |-> l.on, slot |-> l.slot, i |-> l.i, moved |-> l.moved, gone |-> l.gone]
  /\ l.on \in BOOLEAN /\ l.moved \in BOOLEAN
  /\ l.on = TRUE =>
       /\ l.slot[1] \in Addr /\ hp[l.slot[1]].is # "free" /\ l.slot[1] \notin Range(cd)
       /\ l.moved = FALSE =>
            /\ l.i \in Nat /\ l.i < h.len
            /\ kd = "dvec" => l.slot = <<h.buf, l.i + 1>>
            /\ kd # "dvec" => l.slot = SlotOf(cc, l.i)
       /\ l.moved = TRUE => l.slot[1] \notin Range(cc) /\ l.slot[1] # h.buf

\* The values a statement holds.
Rooted(hp, s, sp) == Item(hp, s) /\ \A a \in sp : IsString(hp, a)

\* Where a push has got to, in a container of header h.
Pushing(kd, hp, p, h, ch) ==
  /\ p.pc # "return" => h.len < MaxLen
  /\ p.pc = "grow" => kd # "tablets" /\ h.len = h.cap
  /\ p.pc = "chunk" => kd # "dvec" /\ (h.tail = NULL \/ hp[h.tail].used = N)
  /\ p.pc = "insert" /\ kd # "dvec" => h.tail # NULL /\ hp[h.tail].used # N
  /\ p.pc \in {"chunk", "insert"} /\ kd # "tablets" => h.len < h.cap
  /\ p.pc = "return" => h.len > 0
  /\ p.pc = "return" /\ kd # "dvec" => p.slot = SlotOf(ch, h.len - 1)
PushOK(kd, hp, sp, p, q, hs, cc, cd) ==
  /\ p = [pc |-> p.pc, to |-> p.to, val |-> p.val, moved |-> p.moved, slot |-> p.slot]
  /\ p.pc \in {"idle", "grow", "chunk", "insert", "return"} /\ p.moved \in BOOLEAN
  /\ p.pc # "idle" =>
       /\ p.val \in sp
       /\ q.pc = "idle" => p.to = "c" /\ Pushing(kd, hp, p, hs.c, cc)
       /\ q.pc # "idle" => p.to = "d" /\ Pushing(kd, hp, p, hs.d, cd)

\* The clone in progress has the elements before the one at its cursor, in
\* the j-th chunk, or all of them.
Before(hp, cc, j) == IF j = Len(cc) + 1 THEN Count(hp, cc) ELSE First(j)
Cursor(hp, q, p, hd, cc, j) ==
  /\ j = Len(cc) + 1 => q.cur = NULL /\ q.i = 0 /\ p.pc = "idle"
  /\ j # Len(cc) + 1 => /\ q.cur = cc[j] /\ q.i <= hp[cc[j]].used
                        /\ p.pc # "idle" => q.i < hp[cc[j]].used
  /\ p.pc # "return" => hd.len = Before(hp, cc, j) + q.i
  /\ p.pc = "return" => hd.len = Before(hp, cc, j) + q.i + 1
CloneOK(kd, hp, q, p, hd, cc) ==
  /\ q = [pc |-> q.pc, cur |-> q.cur, i |-> q.i, made |-> q.made]
  /\ q.pc \in {"idle", "element"} /\ q.made \in BOOLEAN /\ q.i \in Nat
  /\ q.pc = "element" => /\ kd = "tablets" /\ q.made = FALSE
                         /\ \E j \in 1..(Len(cc) + 1) : Cursor(hp, q, p, hd, cc, j)

Inv(kd, hp, hs, s, sp, w, v, l, p, q, cc, cd, vc) ==
  /\ kd \in Kinds /\ Shape(hp) /\ hs = [c |-> hs.c, d |-> hs.d]
  /\ Owns(kd, hp, hs.c, cc) /\ Owns(kd, hp, hs.d, cd) /\ Disjoint(cc, cd)
  /\ kd # "tablets" => hs.d = EmptyHeader
  /\ ViewOK(kd, hp, v, hs.c, cc, cd, vc)
  /\ WedgeOK(kd, hp, w, hs.c, cc)
  /\ LvalOK(kd, hp, l, hs.c, cc, cd)
  /\ Rooted(hp, s, sp)
  /\ PushOK(kd, hp, sp, p, q, hs, cc, cd)
  /\ CloneOK(kd, hp, q, p, hs.d, cc)

InvWith(cc, cd, vc) == Inv(kind, heap, hdr, x, spill, wedge, view, lval, push, clone, cc, cd, vc)
IInv == \E cc, cd, vc \in Seq(Addr) : InvWith(cc, cd, vc)

-----------------------------------------------------------------------------
(* Slots of a chain.                                                        *)

\* The k-th slot filled is a used one of one of the chain's chunks.
LEMMA SlotFilled ==
  ASSUME NEW kd, NEW hp, NEW ch, NEW k \in Nat, Linked(kd, hp, ch), k < Count(hp, ch)
  PROVE  /\ Place(k) \in 1..Len(ch) /\ Place(k) \in Nat \ {0} /\ ch[Place(k)] \in Addr
         /\ k - First(Place(k)) \in 0..(N - 1)
         /\ (k - First(Place(k))) + 1 \in 1..N
         /\ (k - First(Place(k))) + 1 <= hp[ch[Place(k)]].used
         /\ ChunkOK(hp, ch[Place(k)])
         /\ SlotOf(ch, k)[1] = ch[Place(k)]
         /\ SlotOf(ch, k)[2] = (k - First(Place(k))) + 1
         /\ IsString(hp, hp[SlotOf(ch, k)[1]].items[SlotOf(ch, k)[2]])
<1> DEFINE n == Len(ch)
           p == Place(k)
<1>1. ch \in Seq(Addr) /\ n \in Nat /\ ch # << >>
  BY DEF Linked, Count
<1>2. n > 0 /\ n \in Nat \ {0}
  BY <1>1
<1>3. p \in Nat \ {0} /\ First(p) \in Nat /\ First(p) <= k /\ k < First(p) + N
  BY PlaceIs, FirstGoes DEF In
<1>4. ChunkOK(hp, ch[n]) /\ hp[ch[n]].used \in 0..N
  BY <1>2 DEF Linked, ChunkOK
<1>5. First(n) \in Nat /\ k < First(n) + hp[ch[n]].used /\ N \in Nat
  BY <1>1, <1>2, FirstGoes, Numbers DEF Count
<1>6. p <= n
  <2>1. SUFFICES ASSUME n < p PROVE FALSE
    BY <1>2, <1>3
  <2>2. First(n) + N <= First(p)
    BY <1>2, <1>3, <2>1, FirstGrows
  <2>3. QED BY <1>3, <1>4, <1>5, <2>2
<1>7. p \in 1..n /\ ChunkOK(hp, ch[p])
  BY <1>3, <1>6, <1>2 DEF Linked
<1>8. k - First(p) \in 0..(N - 1) /\ (k - First(p)) + 1 \in 1..N
  BY <1>3, <1>5
<1>9. (k - First(p)) + 1 <= hp[ch[p]].used
  <2>1. CASE p = n
    BY <2>1, <1>5, <1>4, <1>3
  <2>2. CASE p # n
    <3>1. p < n
      BY <2>2, <1>6, <1>2, <1>3
    <3>2. hp[ch[p]].used = N
      BY <1>7, <3>1 DEF Linked
    <3>3. QED BY <3>2, <1>8
  <2>3. QED BY <2>1, <2>2
<1>10. ch[p] \in Addr
  BY <1>7 DEF ChunkOK
<1>11. SlotOf(ch, k)[1] = ch[p] /\ SlotOf(ch, k)[2] = (k - First(p)) + 1
  BY DEF SlotOf
<1>12. IsString(hp, hp[ch[p]].items[(k - First(p)) + 1])
  BY <1>7, <1>8, <1>9 DEF ChunkOK
<1> HIDE DEF p
<1>13. QED BY <1>3, <1>7, <1>8, <1>9, <1>10, <1>11, <1>12 DEF p

\* The slot after the last one filled is in the last chunk, if that has one left.
LEMMA SlotNext ==
  ASSUME NEW kd, NEW hp, NEW ch, Linked(kd, hp, ch), ch # << >>, hp[ch[Len(ch)]].used # N
  PROVE  /\ Count(hp, ch) \in Nat
         /\ SlotOf(ch, Count(hp, ch)) = <<ch[Len(ch)], hp[ch[Len(ch)]].used + 1>>
<1> DEFINE n == Len(ch)
<1>1. n \in Nat \ {0} /\ ch \in Seq(Addr)
  BY DEF Linked
<1>2. hp[ch[n]].used \in 0..N /\ hp[ch[n]].used < N /\ N \in Nat
  BY <1>1, Numbers DEF Linked, ChunkOK
<1>3. PICK u \in Nat : u = hp[ch[n]].used /\ u < N
  BY <1>2
<1>4. Count(hp, ch) = First(n) + u /\ First(n) \in Nat
  BY <1>1, <1>3, FirstGoes DEF Count
<1>5. PICK k \in Nat : k = First(n) + u
  BY <1>4
<1>6. In(n, k)
  BY <1>4, <1>5, <1>3, Numbers DEF In
<1>7. Place(k) = n
  BY <1>6, <1>1, PlaceIs
<1>8. SlotOf(ch, k) = <<ch[n], (k - First(n)) + 1>>
  BY <1>7 DEF SlotOf
<1>9. (k - First(n)) + 1 = u + 1
  BY <1>4, <1>5
<1>10. QED BY <1>8, <1>9, <1>4, <1>5, <1>3

\* Slots filled stay where they are when a chunk is appended.
LEMMA SlotStays ==
  ASSUME NEW kd, NEW hp, NEW ch, NEW k \in Nat, NEW n \in Addr, Linked(kd, hp, ch), k < Count(hp, ch)
  PROVE  SlotOf(Append(ch, n), k) = SlotOf(ch, k)
<1>1. Place(k) \in 1..Len(ch) /\ ch \in Seq(Addr)
  BY SlotFilled DEF Linked
<1>2. Append(ch, n)[Place(k)] = ch[Place(k)]
  BY <1>1
<1>3. QED BY <1>2 DEF SlotOf

\* The count is a natural, and the sum of the chunks before the last and its own.
LEMMA CountIs ==
  ASSUME NEW kd, NEW hp, NEW ch, Linked(kd, hp, ch)
  PROVE  /\ Count(hp, ch) \in Nat
         /\ Len(ch) \in Nat
         /\ ch # << >> => /\ Len(ch) \in Nat \ {0} /\ Len(ch) \in 1..Len(ch)
                          /\ First(Len(ch)) \in Nat /\ hp[ch[Len(ch)]].used \in 0..N
                          /\ Count(hp, ch) = First(Len(ch)) + hp[ch[Len(ch)]].used
         /\ ch = << >> => Count(hp, ch) = 0 /\ Len(ch) = 0
<1>1. ch \in Seq(Addr)
  BY DEF Linked
<1>2. CASE ch = << >>
  BY <1>2 DEF Count
<1>3. CASE ch # << >>
  <2>1. Len(ch) \in Nat \ {0} /\ Len(ch) \in 1..Len(ch)
    BY <1>1, <1>3
  <2>2. hp[ch[Len(ch)]].used \in 0..N
    BY <2>1 DEF Linked, ChunkOK
  <2>3. First(Len(ch)) \in Nat
    BY <2>1, FirstGoes
  <2>4. QED BY <1>3, <2>1, <2>2, <2>3, Numbers DEF Count
<1>4. QED BY <1>2, <1>3

-----------------------------------------------------------------------------
(* From one heap to the next.                                               *)

\* A chain whose chunks are linked and filled as before.
LEMMA LinkedSame ==
  ASSUME NEW kd, NEW hp, NEW hp2, NEW ch, Linked(kd, hp, ch),
         \A i \in 1..Len(ch) : /\ ChunkOK(hp2, ch[i])
                               /\ hp2[ch[i]].next = hp[ch[i]].next /\ hp2[ch[i]].used = hp[ch[i]].used
  PROVE  Linked(kd, hp2, ch) /\ Count(hp2, ch) = Count(hp, ch)
<1>1. ch \in Seq(Addr) /\ (ch # << >> => Len(ch) \in 1..Len(ch))
  BY DEF Linked
<1>2. Count(hp2, ch) = Count(hp, ch)
  BY <1>1 DEF Count
<1>3. Linked(kd, hp2, ch)
  BY <1>1 DEF Linked
<1>4. QED BY <1>2, <1>3

\* A header whose chain and buffer are as before.
LEMMA LeadsSame ==
  ASSUME NEW kd, NEW hp, NEW hp2, NEW h, NEW ch, Leads(kd, hp, h, ch),
         Count(hp2, ch) = Count(hp, ch),
         kd = "ivec" => BytesOK(hp2, h, ch), kd = "dvec" => BufferOK(hp2, h)
  PROVE  Leads(kd, hp2, h, ch)
BY DEF Leads

\* An empty header leads any chain.
LEMMA EmptyLeads ==
  ASSUME NEW kd, NEW hp, NEW ch, Linked(kd, hp, ch)
  PROVE  Leads(kd, hp, EmptyHeader, ch)
<1>1. IsHeader(EmptyHeader)
  BY Numbers DEF IsHeader, EmptyHeader
<1>2. EmptyHeader.len = 0 /\ EmptyHeader.cap = 0 /\ EmptyHeader.buf = NULL
  BY DEF EmptyHeader
<1>3. Count(hp, ch) \in Nat
  BY CountIs
<1>4. BytesOK(hp, EmptyHeader, ch) /\ BufferOK(hp, EmptyHeader)
  BY <1>2 DEF BytesOK, BufferOK
<1>5. QED BY <1>1, <1>2, <1>3, <1>4 DEF Leads

\* It owns none.
LEMMA EmptyOwns ==
  ASSUME NEW kd, NEW hp
  PROVE  Owns(kd, hp, EmptyHeader, << >>) /\ Linked(kd, hp, << >>) /\ Range(<< >>) = {}
<1>1. Linked(kd, hp, << >>)
  BY Numbers DEF Linked, IsInjective
<1>2. Leads(kd, hp, EmptyHeader, << >>)
  BY <1>1, EmptyLeads
<1>3. Count(hp, << >>) = 0
  BY DEF Count
<1>4. Range(<< >>) = {}
  BY RangeEmpty
<1>5. QED BY <1>1, <1>2, <1>3, <1>4 DEF Owns, EmptyHeader

-----------------------------------------------------------------------------
(* What the stores do to a heap.                                            *)

WithItem(hp, a, k, v) == [hp EXCEPT ![a].items[k] = v]
WithSlot(hp, a, k, v) == [hp EXCEPT ![a].items[k] = v, ![a].used = @ + 1]
WithNext(hp, a, n) == [hp EXCEPT ![a].next = n]

\* An item is stored into a block.
LEMMA ItemStored ==
  ASSUME NEW hp, NEW hp2, NEW a \in Addr, NEW k, NEW v, Shape(hp), k \in DOMAIN hp[a].items,
         hp2 = WithItem(hp, a, k, v)
  PROVE  /\ Shape(hp2)
         /\ \A b \in Addr : /\ hp2[b].is = hp[b].is /\ hp2[b].used = hp[b].used
                            /\ hp2[b].next = hp[b].next /\ hp2[b].text = hp[b].text
                            /\ DOMAIN hp2[b].items = DOMAIN hp[b].items
         /\ \A b \in Addr : b # a => hp2[b] = hp[b]
         /\ hp2[a].items[k] = v
         /\ \A j \in DOMAIN hp[a].items : j # k => hp2[a].items[j] = hp[a].items[j]
<1>1. /\ hp = [b \in Addr |-> hp[b]]
      /\ \A b \in Addr : hp[b] = [is |-> hp[b].is, items |-> hp[b].items, used |-> hp[b].used,
                                  next |-> hp[b].next, text |-> hp[b].text]
  BY DEF Shape
<1>2. \A b \in Addr : b # a => hp2[b] = hp[b]
  BY <1>1 DEF WithItem
<1>3. hp2[a] = [hp[a] EXCEPT !.items[k] = v]
  BY <1>1 DEF WithItem
<1>4. hp2[a] = [is |-> hp[a].is, items |-> [hp[a].items EXCEPT ![k] = v], used |-> hp[a].used,
                next |-> hp[a].next, text |-> hp[a].text]
  BY <1>1, <1>3
<1>5. hp2 = [b \in Addr |-> hp2[b]]
  BY <1>1 DEF WithItem
<1>6. Shape(hp2)
  BY <1>2, <1>4, <1>5 DEF Shape
<1>7. QED BY <1>2, <1>4, <1>6

\* A slot of a chunk is filled.
LEMMA SlotStored ==
  ASSUME NEW hp, NEW hp2, NEW a \in Addr, NEW k, NEW v, Shape(hp), k \in DOMAIN hp[a].items,
         hp2 = WithSlot(hp, a, k, v)
  PROVE  /\ Shape(hp2)
         /\ \A b \in Addr : /\ hp2[b].is = hp[b].is
                            /\ hp2[b].next = hp[b].next /\ hp2[b].text = hp[b].text
                            /\ DOMAIN hp2[b].items = DOMAIN hp[b].items
         /\ \A b \in Addr : b # a => hp2[b] = hp[b]
         /\ hp2[a].items[k] = v /\ hp2[a].used = hp[a].used + 1
         /\ \A j \in DOMAIN hp[a].items : j # k => hp2[a].items[j] = hp[a].items[j]
<1>1. /\ hp = [b \in Addr |-> hp[b]]
      /\ \A b \in Addr : hp[b] = [is |-> hp[b].is, items |-> hp[b].items, used |-> hp[b].used,
                                  next |-> hp[b].next, text |-> hp[b].text]
  BY DEF Shape
<1>2. \A b \in Addr : b # a => hp2[b] = hp[b]
  BY <1>1 DEF WithSlot
<1>3. hp2[a] = [[hp[a] EXCEPT !.items[k] = v] EXCEPT !.used = @ + 1]
  BY <1>1 DEF WithSlot
<1>4. hp2[a] = [is |-> hp[a].is, items |-> [hp[a].items EXCEPT ![k] = v], used |-> hp[a].used + 1,
                next |-> hp[a].next, text |-> hp[a].text]
  <2>1. PICK r : r = [hp[a] EXCEPT !.items[k] = v]
    OBVIOUS
  <2>2. r = [is |-> hp[a].is, items |-> [hp[a].items EXCEPT ![k] = v], used |-> hp[a].used,
             next |-> hp[a].next, text |-> hp[a].text]
    BY <1>1, <2>1
  <2>3. hp2[a] = [r EXCEPT !.used = @ + 1]
    BY <1>3, <2>1, Zenon
  <2>4. QED BY <2>2, <2>3
<1>5. hp2 = [b \in Addr |-> hp2[b]]
  BY <1>1 DEF WithSlot
<1>6. Shape(hp2)
  BY <1>2, <1>4, <1>5 DEF Shape
<1>7. QED BY <1>2, <1>4, <1>6

\* A chunk is linked to the next.
LEMMA LinkStored ==
  ASSUME NEW hp, NEW hp2, NEW a \in Addr, NEW n, Shape(hp), hp2 = WithNext(hp, a, n)
  PROVE  /\ Shape(hp2)
         /\ \A b \in Addr : /\ hp2[b].is = hp[b].is /\ hp2[b].used = hp[b].used
                            /\ hp2[b].items = hp[b].items /\ hp2[b].text = hp[b].text
         /\ \A b \in Addr : b # a => hp2[b] = hp[b]
         /\ hp2[a].next = n
<1>1. /\ hp = [b \in Addr |-> hp[b]]
      /\ \A b \in Addr : hp[b] = [is |-> hp[b].is, items |-> hp[b].items, used |-> hp[b].used,
                                  next |-> hp[b].next, text |-> hp[b].text]
  BY DEF Shape
<1>2. \A b \in Addr : b # a => hp2[b] = hp[b]
  BY <1>1 DEF WithNext
<1>3. hp2[a] = [hp[a] EXCEPT !.next = n]
  BY <1>1 DEF WithNext
<1>4. hp2[a] = [is |-> hp[a].is, items |-> hp[a].items, used |-> hp[a].used,
                next |-> n, text |-> hp[a].text]
  BY <1>1, <1>3
<1>5. hp2 = [b \in Addr |-> hp2[b]]
  BY <1>1 DEF WithNext
<1>6. Shape(hp2)
  BY <1>2, <1>4, <1>5 DEF Shape
<1>7. QED BY <1>2, <1>4, <1>6

\* Strings stay, and chunks stay chunks with no fewer slots used.
Better(hp, hp2) ==
  /\ Shape(hp2)
  /\ \A a \in Addr : hp2[a].is = hp[a].is
  /\ \A a \in Addr : ChunkOK(hp, a) => ChunkOK(hp2, a) /\ hp[a].used <= hp2[a].used

\* A string stored as an item makes a heap better.
LEMMA ItemBetter ==
  ASSUME NEW hp, NEW hp2, NEW a \in Addr, NEW k, NEW v, Shape(hp), k \in DOMAIN hp[a].items,
         hp2 = WithItem(hp, a, k, v), hp[a].is # "chunk" \/ IsString(hp, v)
  PROVE  Better(hp, hp2)
<1>1. /\ Shape(hp2)
      /\ \A b \in Addr : /\ hp2[b].is = hp[b].is /\ hp2[b].used = hp[b].used
                         /\ DOMAIN hp2[b].items = DOMAIN hp[b].items
      /\ \A b \in Addr : b # a => hp2[b] = hp[b]
      /\ hp2[a].items[k] = v
      /\ \A j \in DOMAIN hp[a].items : j # k => hp2[a].items[j] = hp[a].items[j]
  BY ItemStored
<1>2. \A s : (IsString(hp, s) => IsString(hp2, s)) /\ (Item(hp, s) => Item(hp2, s))
  BY <1>1 DEF IsString, Item
<1>3. ASSUME NEW b \in Addr, ChunkOK(hp, b) PROVE ChunkOK(hp2, b) /\ hp[b].used <= hp2[b].used
  <2>1. hp[b].used \in 0..N /\ hp2[b].used = hp[b].used /\ hp2[b].is = "chunk" /\ N \in Nat
    BY <1>1, <1>3, Numbers DEF ChunkOK
  <2>2. DOMAIN hp2[b].items = 1..N
    BY <1>1, <1>3 DEF ChunkOK
  <2>3. ASSUME NEW j \in 1..N
        PROVE  /\ Item(hp2, hp2[b].items[j])
               /\ j <= hp2[b].used => IsString(hp2, hp2[b].items[j])
    <3>1. Item(hp, hp[b].items[j]) /\ (j <= hp[b].used => IsString(hp, hp[b].items[j]))
      BY <1>3 DEF ChunkOK
    <3>2. CASE b = a /\ j = k
      <4>1. hp2[b].items[j] = v /\ IsString(hp, v)
        BY <1>1, <3>2, <1>3 DEF ChunkOK
      <4>2. IsString(hp2, v)
        BY <4>1, <1>2
      <4>3. QED BY <4>1, <4>2 DEF Item
    <3>3. CASE ~(b = a /\ j = k)
      <4>1. hp2[b].items[j] = hp[b].items[j]
        <5>1. CASE b # a
          BY <5>1, <1>1
        <5>2. CASE b = a
          BY <5>2, <3>3, <1>1, <1>3 DEF ChunkOK
        <5>3. QED BY <5>1, <5>2
      <4>2. QED BY <4>1, <3>1, <2>1, <1>2
    <3>4. QED BY <3>2, <3>3
  <2>4. QED BY <2>1, <2>2, <2>3 DEF ChunkOK
<1>4. QED BY <1>1, <1>3 DEF Better

\* So does a string stored into a slot that is filled with it.
LEMMA SlotBetter ==
  ASSUME NEW hp, NEW hp2, NEW a \in Addr, NEW k \in Nat, NEW v, Shape(hp), ChunkOK(hp, a),
         hp[a].used # N, hp[a].used < k, k <= hp[a].used + 1, IsString(hp, v),
         hp2 = WithSlot(hp, a, k, v)
  PROVE  Better(hp, hp2)
<1>a. a \in Addr /\ hp[a].used \in Nat /\ hp[a].used < N /\ N \in Nat /\ DOMAIN hp[a].items = 1..N
  BY Numbers DEF ChunkOK
<1>b. k \in DOMAIN hp[a].items
  BY <1>a
<1>1. /\ Shape(hp2)
      /\ \A b \in Addr : /\ hp2[b].is = hp[b].is
                         /\ hp2[b].next = hp[b].next /\ hp2[b].text = hp[b].text
                         /\ DOMAIN hp2[b].items = DOMAIN hp[b].items
      /\ \A b \in Addr : b # a => hp2[b] = hp[b]
      /\ hp2[a].items[k] = v /\ hp2[a].used = hp[a].used + 1
      /\ \A j \in DOMAIN hp[a].items : j # k => hp2[a].items[j] = hp[a].items[j]
  BY SlotStored, <1>b
<1>2. \A s : (IsString(hp, s) => IsString(hp2, s)) /\ (Item(hp, s) => Item(hp2, s))
  BY <1>1 DEF IsString, Item
<1>3. ASSUME NEW b \in Addr, ChunkOK(hp, b) PROVE ChunkOK(hp2, b) /\ hp[b].used <= hp2[b].used
  <2>1. CASE b # a
    <3>1. hp2[b] = hp[b] /\ hp[b].used \in Nat
      BY <2>1, <1>1, <1>3, Numbers DEF ChunkOK
    <3>2. ChunkOK(hp2, b)
      BY <3>1, <1>2, <1>3 DEF ChunkOK
    <3>3. QED BY <3>1, <3>2
  <2>2. CASE b = a
    <3>1. DOMAIN hp2[a].items = 1..N /\ hp2[a].used \in 0..N /\ hp2[a].is = "chunk"
      BY <1>1, <1>a DEF ChunkOK
    <3>2. ASSUME NEW j \in 1..N
          PROVE  /\ Item(hp2, hp2[a].items[j])
                 /\ j <= hp2[a].used => IsString(hp2, hp2[a].items[j])
      <4>1. CASE j = k
        <5>1. hp2[a].items[j] = v /\ IsString(hp2, v)
          BY <4>1, <1>1, <1>2
        <5>2. QED BY <5>1 DEF Item
      <4>2. CASE j # k
        <5>1. hp2[a].items[j] = hp[a].items[j]
          BY <4>2, <1>1, <1>a
        <5>2. Item(hp, hp[a].items[j]) /\ (j <= hp[a].used => IsString(hp, hp[a].items[j]))
          BY DEF ChunkOK
        <5>3. j <= hp2[a].used => j <= hp[a].used
          BY <4>2, <1>1, <1>a
        <5>4. QED BY <5>1, <5>2, <5>3, <1>2
      <4>3. QED BY <4>1, <4>2
    <3>3. ChunkOK(hp2, a)
      BY <3>1, <3>2, <1>a DEF ChunkOK
    <3>4. QED BY <3>3, <2>2, <1>1, <1>a
  <2>3. QED BY <2>1, <2>2
<1>4. QED BY <1>1, <1>3 DEF Better

\* So does a link.
LEMMA LinkBetter ==
  ASSUME NEW hp, NEW hp2, NEW a \in Addr, NEW n, Shape(hp), hp2 = WithNext(hp, a, n)
  PROVE  Better(hp, hp2)
<1>1. /\ Shape(hp2)
      /\ \A b \in Addr : /\ hp2[b].is = hp[b].is /\ hp2[b].used = hp[b].used
                         /\ hp2[b].items = hp[b].items
  BY LinkStored
<1>2. \A s : (IsString(hp, s) => IsString(hp2, s)) /\ (Item(hp, s) => Item(hp2, s))
  BY <1>1 DEF IsString, Item
<1>3. ASSUME NEW b \in Addr, ChunkOK(hp, b) PROVE ChunkOK(hp2, b) /\ hp[b].used <= hp2[b].used
  BY <1>1, <1>2, <1>3, Numbers DEF ChunkOK
<1>4. QED BY <1>1, <1>3 DEF Better

\* One store after another.
LEMMA BetterTwice ==
  ASSUME NEW hp, NEW hp1, NEW hp2, Better(hp, hp1), Better(hp1, hp2)
  PROVE  Better(hp, hp2)
<1>1. Shape(hp2) /\ \A a \in Addr : hp2[a].is = hp[a].is
  BY DEF Better
<1>2. ASSUME NEW a \in Addr, ChunkOK(hp, a) PROVE ChunkOK(hp2, a) /\ hp[a].used <= hp2[a].used
  <2>1. ChunkOK(hp1, a) /\ ChunkOK(hp2, a) /\ hp[a].used <= hp1[a].used /\ hp1[a].used <= hp2[a].used
    BY <1>2 DEF Better
  <2>2. hp[a].used \in Nat /\ hp1[a].used \in Nat /\ hp2[a].used \in Nat
    BY <1>2, <2>1, Numbers DEF ChunkOK
  <2>3. QED BY <2>1, <2>2
<1>3. QED BY <1>1, <1>2 DEF Better

\* What a better heap keeps.
LEMMA BetterKeeps ==
  ASSUME NEW hp, NEW hp2, Better(hp, hp2)
  PROVE  /\ \A s : (IsString(hp, s) => IsString(hp2, s)) /\ (Item(hp, s) => Item(hp2, s))
         /\ \A s : Live(hp, s) => Live(hp2, s)
         /\ \A s, sp : Rooted(hp, s, sp) => Rooted(hp2, s, sp)
         /\ \A kd, w, h, cc : WedgeOK(kd, hp, w, h, cc) => WedgeOK(kd, hp2, w, h, cc)
         /\ \A kd, l, h, cc, cd : LvalOK(kd, hp, l, h, cc, cd) => LvalOK(kd, hp2, l, h, cc, cd)
<1>1. \A a \in Addr : hp2[a].is = hp[a].is
  BY DEF Better
<1>2. \A s : (IsString(hp, s) => IsString(hp2, s)) /\ (Item(hp, s) => Item(hp2, s))
  BY <1>1 DEF IsString, Item
<1>3. \A s : Live(hp, s) => Live(hp2, s)
  BY <1>1 DEF Live
<1>4. \A s, sp : Rooted(hp, s, sp) => Rooted(hp2, s, sp)
  BY <1>2 DEF Rooted
<1>5. ASSUME NEW kd, NEW w, NEW h, NEW cc, WedgeOK(kd, hp, w, h, cc)
      PROVE  WedgeOK(kd, hp2, w, h, cc)
  <2>1. CASE w = NoWedge
    BY <2>1, <1>5 DEF WedgeOK
  <2>2. CASE w # NoWedge
    <3>1. ChunkOK(hp, w.slot[1]) /\ w.slot[2] \in 1..N /\ w.slot[2] <= hp[w.slot[1]].used
      BY <2>2, <1>5 DEF WedgeOK
    <3>2. w.slot[1] \in Addr /\ hp[w.slot[1]].used \in 0..N
      BY <3>1 DEF ChunkOK
    <3>3. ChunkOK(hp2, w.slot[1]) /\ hp[w.slot[1]].used <= hp2[w.slot[1]].used
      BY <3>1, <3>2 DEF Better
    <3>4. hp2[w.slot[1]].used \in 0..N /\ N \in Nat
      BY <3>3, Numbers DEF ChunkOK
    <3>5. w.slot[2] <= hp2[w.slot[1]].used
      BY <3>1, <3>2, <3>3, <3>4
    <3>6. QED BY <1>5, <2>2, <3>1, <3>3, <3>5 DEF WedgeOK
  <2>3. QED BY <2>1, <2>2
<1>6. ASSUME NEW kd, NEW l, NEW h, NEW cc, NEW cd, LvalOK(kd, hp, l, h, cc, cd)
      PROVE  LvalOK(kd, hp2, l, h, cc, cd)
  BY <1>1, <1>6 DEF LvalOK
<1>7. QED BY <1>2, <1>3, <1>4, <1>5, <1>6

\* Chains that do not hold the block stored to stay.
LEMMA LinkedElsewhere ==
  ASSUME NEW kd, NEW hp, NEW hp2, NEW ch, NEW a, Better(hp, hp2), Linked(kd, hp, ch),
         \A b \in Addr : b # a => hp2[b] = hp[b], a \notin Range(ch)
  PROVE  Linked(kd, hp2, ch) /\ Count(hp2, ch) = Count(hp, ch)
<1>1. ASSUME NEW i \in 1..Len(ch)
      PROVE  /\ ChunkOK(hp2, ch[i])
             /\ hp2[ch[i]].next = hp[ch[i]].next /\ hp2[ch[i]].used = hp[ch[i]].used
  <2>1. ChunkOK(hp, ch[i]) /\ ch \in Seq(Addr)
    BY DEF Linked
  <2>2. ch[i] \in Addr /\ ch[i] # a
    BY <2>1 DEF ChunkOK, Range
  <2>3. ChunkOK(hp2, ch[i])
    BY <2>1, <2>2 DEF Better
  <2>4. QED BY <2>2, <2>3
<1>2. QED BY <1>1, LinkedSame

\* Every chain stays when an item is stored.
LEMMA LinkedStored ==
  ASSUME NEW kd, NEW hp, NEW hp2, NEW ch, NEW a \in Addr, NEW k, NEW v, Shape(hp),
         k \in DOMAIN hp[a].items, hp2 = WithItem(hp, a, k, v),
         hp[a].is # "chunk" \/ IsString(hp, v), Linked(kd, hp, ch)
  PROVE  Linked(kd, hp2, ch) /\ Count(hp2, ch) = Count(hp, ch)
<1>1. Better(hp, hp2)
  BY ItemBetter
<1>2. \A b \in Addr : hp2[b].next = hp[b].next /\ hp2[b].used = hp[b].used
  BY ItemStored
<1>3. ASSUME NEW i \in 1..Len(ch)
      PROVE  /\ ChunkOK(hp2, ch[i])
             /\ hp2[ch[i]].next = hp[ch[i]].next /\ hp2[ch[i]].used = hp[ch[i]].used
  <2>1. ChunkOK(hp, ch[i]) /\ ch[i] \in Addr
    BY DEF Linked, ChunkOK
  <2>2. ChunkOK(hp2, ch[i])
    BY <1>1, <2>1 DEF Better
  <2>3. QED BY <1>2, <2>1, <2>2
<1>4. QED BY <1>3, LinkedSame

EndsIn(ch, a) == ch # << >> /\ a = ch[Len(ch)]

\* The last chunk takes one more.
LEMMA LinkedFilled ==
  ASSUME NEW kd, NEW hp, NEW hp2, NEW ch, NEW a \in Addr, NEW k \in Nat, NEW v, Shape(hp),
         Linked(kd, hp, ch), EndsIn(ch, a),
         hp[a].used # N, hp[a].used < k, k <= hp[a].used + 1, IsString(hp, v),
         hp2 = WithSlot(hp, a, k, v)
  PROVE  Linked(kd, hp2, ch) /\ Count(hp2, ch) = Count(hp, ch) + 1
<1> DEFINE n == Len(ch)
<1>0. ch # << >> /\ a = ch[Len(ch)]
  BY DEF EndsIn
<1>1. n \in Nat \ {0} /\ n \in 1..n /\ ch \in Seq(Addr) /\ IsInjective(ch)
  BY <1>0, CountIs DEF Linked
<1>2. ChunkOK(hp, a)
  BY <1>0, <1>1 DEF Linked
<1>3. Better(hp, hp2)
  BY <1>2, SlotBetter
<1>4. k \in DOMAIN hp[a].items
  BY <1>2, Numbers DEF ChunkOK
<1>5. /\ \A b \in Addr : hp2[b].next = hp[b].next
      /\ \A b \in Addr : b # a => hp2[b] = hp[b]
      /\ hp2[a].used = hp[a].used + 1
  BY <1>4, SlotStored
<1>6. \A i \in 1..n : ch[i] \in Addr /\ ChunkOK(hp, ch[i])
  BY DEF Linked, ChunkOK
<1>7. \A i \in 1..n : ChunkOK(hp2, ch[i]) /\ hp2[ch[i]].next = hp[ch[i]].next
  BY <1>3, <1>5, <1>6 DEF Better
<1>8. ASSUME NEW i \in 1..n, i < n PROVE hp2[ch[i]].used = hp[ch[i]].used
  <2>1. DOMAIN ch = 1..n
    BY <1>1
  <2>2. ch[i] # a
    BY <1>0, <1>1, <1>8, <2>1 DEF IsInjective
  <2>3. QED BY <2>2, <1>5, <1>6
<1>9. Linked(kd, hp2, ch)
  BY <1>0, <1>1, <1>7, <1>8 DEF Linked
<1>10. hp[a].used \in Nat /\ First(n) \in Nat
  <2>1. hp[a].used \in 0..N /\ N \in Nat
    BY <1>2, Numbers DEF ChunkOK
  <2>2. First(n) \in Nat
    BY <1>1, FirstGoes
  <2>3. QED BY <2>1, <2>2
<1>11. Count(hp2, ch) = Count(hp, ch) + 1
  <2>1. Count(hp2, ch) = First(n) + hp2[a].used /\ Count(hp, ch) = First(n) + hp[a].used
    BY <1>0 DEF Count
  <2>2. QED BY <1>5, <1>10, <2>1
<1>12. QED BY <1>9, <1>11

\* A full chain, or an empty one, takes one more chunk.
LEMMA LinkedAppended ==
  ASSUME NEW kd, NEW hp, NEW hp2, NEW ch, NEW n \in Addr, Linked(kd, hp, ch), kd # "dvec",
         Count(hp, ch) < MaxLen, n \notin Range(ch),
         ChunkOK(hp2, n), hp2[n].used = 0, hp2[n].next = NULL,
         \A i \in 1..Len(ch) : ChunkOK(hp2, ch[i]) /\ hp2[ch[i]].used = hp[ch[i]].used,
         \A i \in 1..Len(ch) : i < Len(ch) => hp2[ch[i]].next = hp[ch[i]].next,
         ch # << >> => hp2[ch[Len(ch)]].next = n /\ hp[ch[Len(ch)]].used = N
  PROVE  Linked(kd, hp2, Append(ch, n)) /\ Count(hp2, Append(ch, n)) = Count(hp, ch)
<1> DEFINE m == Len(ch)
           c2 == Append(ch, n)
<1>1. ch \in Seq(Addr) /\ m \in Nat /\ IsInjective(ch) /\ m <= MaxLen
  BY DEF Linked
<1>2. c2 \in Seq(Addr) /\ Len(c2) = m + 1 /\ c2[m + 1] = n /\ \A i \in 1..m : c2[i] = ch[i]
  BY <1>1
<1>3. IsInjective(c2)
  BY <1>1, InjectiveAppend
<1>4. First(m + 1) = Count(hp, ch) /\ First(m + 1) \in Nat /\ m <= First(m + 1)
  <2>1. CASE ch = << >>
    BY <2>1, FirstGoes DEF Count
  <2>2. CASE ch # << >>
    <3>1. m \in Nat \ {0} /\ hp[ch[m]].used = N /\ Count(hp, ch) = First(m) + hp[ch[m]].used
      BY <2>2, CountIs
    <3>2. First(m + 1) = First(m) + N
      BY <3>1, FirstGoes
    <3>3. PICK j \in Nat \ {0} : j = m + 1
      BY <3>1
    <3>4. j - 1 <= First(j) /\ First(j) \in Nat
      BY FirstGrows, FirstGoes
    <3>5. QED BY <3>1, <3>2, <3>3, <3>4
  <2>3. QED BY <2>1, <2>2
<1>5. m + 1 <= MaxLen
  BY <1>1, <1>4, Numbers
<1>6. ASSUME NEW i \in 1..(m + 1)
      PROVE  /\ ChunkOK(hp2, c2[i])
             /\ i < m + 1 => hp2[c2[i]].next = c2[i + 1] /\ hp2[c2[i]].used = N
  <2>1. CASE i = m + 1
    BY <2>1, <1>1, <1>2
  <2>2. CASE i # m + 1
    <3>1. i \in 1..m /\ c2[i] = ch[i] /\ i + 1 \in 1..(m + 1)
      BY <2>2, <1>1, <1>2
    <3>2. ChunkOK(hp2, ch[i]) /\ hp2[ch[i]].used = hp[ch[i]].used
      BY <3>1
    <3>3. CASE i = m
      <4>1. ch # << >>
        BY <3>1, <1>1
      <4>2. hp2[ch[m]].next = n /\ hp[ch[m]].used = N
        BY <4>1
      <4>3. QED BY <3>1, <3>2, <3>3, <4>2, <1>2
    <3>4. CASE i # m
      <4>1. i < m /\ i + 1 \in 1..m
        BY <3>1, <3>4, <1>1
      <4>2. hp[ch[i]].next = ch[i + 1] /\ hp[ch[i]].used = N
        BY <4>1, <3>1 DEF Linked
      <4>3. hp2[ch[i]].next = hp[ch[i]].next
        BY <4>1, <3>1
      <4>4. c2[i + 1] = ch[i + 1]
        BY <4>1, <1>2
      <4>5. QED BY <3>1, <3>2, <4>2, <4>3, <4>4
    <3>5. QED BY <3>3, <3>4
  <2>3. QED BY <2>1, <2>2
<1>7. c2 # << >> /\ c2[Len(c2)] = n
  BY <1>2, <1>1
<1>8. Count(hp2, c2) = Count(hp, ch)
  <2>1. Count(hp2, c2) = First(m + 1) + 0
    BY <1>7, <1>2 DEF Count
  <2>2. QED BY <2>1, <1>4
<1> HIDE DEF c2
<1>9. Linked(kd, hp2, c2)
  BY <1>2, <1>3, <1>5, <1>6, <1>7 DEF Linked
<1>10. QED BY <1>8, <1>9 DEF c2

\* A header whose buffer is another block than the one stored to.
LEMMA LeadsElsewhere ==
  ASSUME NEW kd, NEW hp, NEW hp2, NEW h, NEW ch, NEW a, Better(hp, hp2), Leads(kd, hp, h, ch),
         \A b \in Addr : b # a => hp2[b] = hp[b], hp[a].is = "chunk",
         Count(hp, ch) \in Nat, Count(hp2, ch) \in Nat, Count(hp, ch) <= Count(hp2, ch)
  PROVE  Leads(kd, hp2, h, ch)
<1>1. IsHeader(h) /\ h.buf \in Addr \cup {NULL} /\ h.len \in Nat
  BY Numbers DEF Leads, IsHeader
<1>2. \A s : (IsString(hp, s) => IsString(hp2, s)) /\ (Item(hp, s) => Item(hp2, s))
  BY BetterKeeps
<1>3. h.cap \in Nat
  BY DEF Leads, IsHeader
<1>4. ASSUME kd = "ivec" PROVE BytesOK(hp2, h, ch)
  <2>1. BytesOK(hp, h, ch)
    BY <1>4 DEF Leads
  <2>2. CASE h.buf = NULL
    BY <2>1, <2>2 DEF BytesOK
  <2>3. CASE h.buf # NULL
    <3>1. h.buf # a /\ hp2[h.buf] = hp[h.buf]
      BY <1>1, <2>1, <2>3 DEF BytesOK
    <3>2. QED BY <2>1, <3>1 DEF BytesOK
  <2>4. QED BY <2>2, <2>3
<1>5. ASSUME kd = "dvec" PROVE BufferOK(hp2, h)
  <2>1. BufferOK(hp, h)
    BY <1>5 DEF Leads
  <2>2. CASE h.buf = NULL
    <3>1. \A j \in 1..h.cap : FALSE
      BY <2>1, <2>2 DEF BufferOK
    <3>2. QED BY <2>1, <2>2, <3>1 DEF BufferOK
  <2>3. CASE h.buf # NULL
    <3>1. h.buf # a /\ hp2[h.buf] = hp[h.buf]
      BY <1>1, <2>1, <2>3 DEF BufferOK
    <3>2. QED BY <2>1, <3>1, <1>2 DEF BufferOK
  <2>4. QED BY <2>2, <2>3
<1>6. kd # "dvec" => h.len <= Count(hp2, ch)
  BY <1>1 DEF Leads
<1>7. QED BY <1>1, <1>4, <1>5, <1>6 DEF Leads

\* Every header leads what it did when a string is stored as an item.
LEMMA LeadsStored ==
  ASSUME NEW kd, NEW hp, NEW hp2, NEW h, NEW ch, NEW a \in Addr, NEW k, NEW v, Shape(hp),
         k \in DOMAIN hp[a].items, hp2 = WithItem(hp, a, k, v),
         hp[a].is \in {"chunk", "buffer"}, IsString(hp, v),
         Linked(kd, hp, ch), Leads(kd, hp, h, ch)
  PROVE  Leads(kd, hp2, h, ch)
<1>1. IsHeader(h) /\ h.buf \in Addr \cup {NULL} /\ h.cap \in Nat
  BY DEF Leads, IsHeader
<1>2. Better(hp, hp2)
  BY ItemBetter
<1>3. \A s : (IsString(hp, s) => IsString(hp2, s)) /\ (Item(hp, s) => Item(hp2, s))
  BY <1>2, BetterKeeps
<1>4. Linked(kd, hp2, ch) /\ Count(hp2, ch) = Count(hp, ch)
  <2>1. hp[a].is # "chunk" \/ IsString(hp, v)
    OBVIOUS
  <2>2. \A i \in 1..Len(ch) : ChunkOK(hp, ch[i]) /\ ch[i] \in Addr
    BY DEF Linked, ChunkOK
  <2>3. \A b \in Addr : hp2[b].next = hp[b].next /\ hp2[b].used = hp[b].used
    BY ItemStored
  <2>4. \A i \in 1..Len(ch) : ChunkOK(hp2, ch[i])
    BY <1>2, <2>2 DEF Better
  <2>5. QED BY <2>2, <2>3, <2>4, LinkedSame
<1>5. /\ \A b \in Addr : /\ hp2[b].is = hp[b].is
                         /\ DOMAIN hp2[b].items = DOMAIN hp[b].items
      /\ \A b \in Addr : b # a => hp2[b] = hp[b]
      /\ hp2[a].items[k] = v
      /\ \A j \in DOMAIN hp[a].items : j # k => hp2[a].items[j] = hp[a].items[j]
  BY ItemStored
<1>6. ASSUME kd = "ivec" PROVE BytesOK(hp2, h, ch)
  <2>1. BytesOK(hp, h, ch)
    BY <1>6 DEF Leads
  <2>2. CASE h.buf = NULL
    BY <2>1, <2>2 DEF BytesOK
  <2>3. CASE h.buf # NULL
    <3>1. h.buf # a /\ hp2[h.buf] = hp[h.buf]
      BY <1>1, <1>5, <2>1, <2>3 DEF BytesOK
    <3>2. QED BY <2>1, <3>1 DEF BytesOK
  <2>4. QED BY <2>2, <2>3
<1>7. ASSUME kd = "dvec" PROVE BufferOK(hp2, h)
  <2>1. BufferOK(hp, h)
    BY <1>7 DEF Leads
  <2>2. CASE h.buf = NULL
    <3>1. \A j \in 1..h.cap : FALSE
      BY <2>1, <2>2 DEF BufferOK
    <3>2. QED BY <2>1, <2>2, <3>1 DEF BufferOK
  <2>3. CASE h.buf # NULL
    <3>1. hp2[h.buf].is = "buffer" /\ DOMAIN hp2[h.buf].items = 1..h.cap /\ h.buf \in Addr
      BY <1>1, <1>5, <2>1, <2>3 DEF BufferOK
    <3>2. ASSUME NEW j \in 1..h.cap
          PROVE  /\ Item(hp2, hp2[h.buf].items[j])
                 /\ j <= h.len => IsString(hp2, hp2[h.buf].items[j])
      <4>1. Item(hp, hp[h.buf].items[j]) /\ (j <= h.len => IsString(hp, hp[h.buf].items[j]))
        BY <2>1 DEF BufferOK
      <4>2. CASE h.buf = a /\ j = k
        <5>1. IsString(hp2, hp2[h.buf].items[j])
          BY <4>2, <1>5, <1>3
        <5>2. QED BY <5>1 DEF Item
      <4>3. CASE ~(h.buf = a /\ j = k)
        <5>1. hp2[h.buf].items[j] = hp[h.buf].items[j]
          <6>1. CASE h.buf # a
            BY <6>1, <3>1, <1>5
          <6>2. CASE h.buf = a
            BY <6>2, <4>3, <1>5, <2>1, <2>3 DEF BufferOK
          <6>3. QED BY <6>1, <6>2
        <5>2. QED BY <5>1, <4>1, <1>3
      <4>4. QED BY <4>2, <4>3
    <3>3. QED BY <2>1, <3>1, <3>2 DEF BufferOK
  <2>4. QED BY <2>2, <2>3
<1>8. QED BY <1>4, <1>6, <1>7, LeadsSame

\* So it does when an ivec's buffer takes the address of one more slot, after
\* the header's own or in another buffer.
LEMMA LeadsMirrored ==
  ASSUME NEW hp, NEW hp2, NEW h, NEW ch, NEW a \in Addr, NEW k \in Nat, NEW v, Shape(hp),
         k \in DOMAIN hp[a].items, hp2 = WithItem(hp, a, k, v), hp[a].is = "bytes",
         Linked("ivec", hp, ch), Leads("ivec", hp, h, ch), h.buf # a \/ h.len < k
  PROVE  Leads("ivec", hp2, h, ch)
<1>1. IsHeader(h) /\ h.buf \in Addr \cup {NULL} /\ h.cap \in Nat /\ h.len \in Nat
  BY Numbers DEF Leads, IsHeader
<1>2. Linked("ivec", hp2, ch) /\ Count(hp2, ch) = Count(hp, ch)
  <2>1. hp[a].is # "chunk" \/ IsString(hp, v)
    OBVIOUS
  <2>2. QED BY <2>1, LinkedStored
<1>3. /\ Shape(hp2)
      /\ \A b \in Addr : /\ hp2[b].is = hp[b].is /\ hp2[b].used = hp[b].used
                         /\ hp2[b].next = hp[b].next /\ hp2[b].text = hp[b].text
                         /\ DOMAIN hp2[b].items = DOMAIN hp[b].items
      /\ \A b \in Addr : b # a => hp2[b] = hp[b]
      /\ \A j \in DOMAIN hp[a].items : j # k => hp2[a].items[j] = hp[a].items[j]
  BY ItemStored
<1>4. BytesOK(hp, h, ch)
  BY DEF Leads
<1>5. CASE h.buf = NULL
  <2>1. \A j \in 1..h.cap : FALSE
    BY <1>4, <1>5 DEF BytesOK
  <2>2. BytesOK(hp2, h, ch)
    BY <1>4, <1>5, <2>1 DEF BytesOK
  <2>3. QED BY <2>2, <1>2, LeadsSame
<1>6. CASE h.buf # NULL
  <2>1. hp2[h.buf].is = "bytes" /\ DOMAIN hp2[h.buf].items = 1..h.cap /\ DOMAIN hp[h.buf].items = 1..h.cap
        /\ h.buf \in Addr
    BY <1>1, <1>3, <1>4, <1>6 DEF BytesOK
  <2>2. ASSUME NEW j \in 1..h.cap, j <= h.len
        PROVE  hp2[h.buf].items[j] = hp[h.buf].items[j]
    <3>1. CASE h.buf # a
      BY <3>1, <2>1, <1>3
    <3>2. CASE h.buf = a
      <4>1. j # k
        BY <3>2, <2>2, <1>1
      <4>2. QED BY <4>1, <3>2, <2>1, <1>3
    <3>3. QED BY <3>1, <3>2
  <2>3. BytesOK(hp2, h, ch)
    BY <1>4, <2>1, <2>2 DEF BytesOK
  <2>4. QED BY <2>3, <1>2, LeadsSame
<1>7. QED BY <1>5, <1>6

\* A header leads the chain with one more chunk.
LEMMA LeadsAppended ==
  ASSUME NEW kd, NEW hp, NEW h, NEW ch, NEW n \in Addr, Linked(kd, hp, ch), Leads(kd, hp, h, ch),
         Count(hp, Append(ch, n)) = Count(hp, ch)
  PROVE  Leads(kd, hp, h, Append(ch, n))
<1>1. IsHeader(h) /\ h.len \in Nat /\ h.cap \in Nat
  BY Numbers DEF Leads, IsHeader
<1>2. ch \in Seq(Addr) /\ Count(hp, ch) \in Nat
  BY CountIs DEF Linked
<1>3. kd # "dvec" /\ h.len > 0 => h.head = Append(ch, n)[1]
  <2>1. SUFFICES ASSUME kd # "dvec", h.len > 0 PROVE h.head = Append(ch, n)[1]
    OBVIOUS
  <2>2. h.len <= Count(hp, ch) /\ h.head = ch[1]
    BY <2>1 DEF Leads
  <2>3. ch # << >>
    BY <1>1, <2>1, <2>2 DEF Count
  <2>4. Append(ch, n)[1] = ch[1]
    BY <1>2, <2>3
  <2>5. QED BY <2>2, <2>4
<1>4. ASSUME kd = "ivec" PROVE BytesOK(hp, h, Append(ch, n))
  <2>1. BytesOK(hp, h, ch) /\ h.len <= Count(hp, ch)
    BY <1>4 DEF Leads
  <2>2. ASSUME NEW k \in 1..h.cap, k <= h.len PROVE SlotOf(Append(ch, n), k - 1) = SlotOf(ch, k - 1)
    <3>1. PICK j \in Nat : j = k - 1
      OBVIOUS
    <3>2. j < Count(hp, ch)
      BY <3>1, <2>1, <2>2, <1>1, <1>2
    <3>3. SlotOf(Append(ch, n), j) = SlotOf(ch, j)
      BY <3>2, SlotStays
    <3>4. QED BY <3>1, <3>3
  <2>3. QED BY <2>1, <2>2 DEF BytesOK
<1>5. QED BY <1>1, <1>3, <1>4 DEF Leads

-----------------------------------------------------------------------------
(* What a collection reaches.                                               *)

\* The equation of Reached's recursive function.
SpreadStep(r) == r \cup ((UNION {Traced(a) : a \in r}) \ {NULL})
SpreadEquation(k, g) ==
  g = [n \in 0..k |-> IF n = 0 THEN Roots \ {NULL} ELSE SpreadStep(g[n-1])]

\* It has a solution.
LEMMA SpreadSolvable ==
  ASSUME NEW k \in Nat
  PROVE  \E g : SpreadEquation(k, g)
<1> DEFINE T == {n \in Nat : \E g : SpreadEquation(n, g)}
           E(g, i) == IF i = 0 THEN Roots \ {NULL} ELSE SpreadStep(g[i-1])
<1>1. 0 \in T
  <2> DEFINE g == [i \in 0..0 |-> Roots \ {NULL}]
  <2>1. g = [i \in 0..0 |-> E(g, i)]
    OBVIOUS
  <2>2. SpreadEquation(0, g)
    <3> HIDE DEF g
    <3>1. QED BY <2>1 DEF SpreadEquation
  <2>3. QED BY <2>2
<1>2. ASSUME NEW n \in Nat, n \in T PROVE n + 1 \in T
  <2>1. PICK g : SpreadEquation(n, g)
    BY <1>2
  <2> DEFINE h == [i \in 0..(n+1) |-> E(g, i)]
  <2>2. ASSUME NEW i \in 0..n PROVE h[i] = g[i]
    <3>1. i \in 0..(n+1)
      OBVIOUS
    <3>2. g[i] = E(g, i)
      BY <2>1 DEF SpreadEquation
    <3> HIDE DEF E
    <3>3. QED BY <3>1, <3>2
  <2>3. ASSUME NEW i \in 0..(n+1) PROVE h[i] = E(h, i)
    <3>1. CASE i = 0
      BY <3>1
    <3>2. CASE i # 0
      <4>1. i - 1 \in 0..n
        BY <3>2
      <4>2. h[i-1] = g[i-1]
        BY <4>1, <2>2
      <4>3. h[i] = E(g, i)
        OBVIOUS
      <4> HIDE DEF h
      <4>4. QED BY <3>2, <4>2, <4>3
    <3>3. QED BY <3>1, <3>2
  <2>4. h = [i \in 0..(n+1) |-> E(h, i)]
    <3>1. h = [i \in 0..(n+1) |-> h[i]]
      OBVIOUS
    <3> HIDE DEF h, E
    <3>2. QED BY <3>1, <2>3
  <2>5. SpreadEquation(n + 1, h)
    <3> HIDE DEF h
    <3>1. QED BY <2>4 DEF SpreadEquation
  <2> HIDE DEF h
  <2>6. QED BY <2>5
<1> HIDE DEF T
<1>3. k \in T
  BY <1>1, <1>2, SetInduction
<1>4. QED BY <1>3 DEF T

\* The sets a collection goes through: each has the one before it and what
\* that one's blocks point to.
Spreads(g) ==
  /\ \A a \in Roots : a # NULL => a \in g[0]
  /\ \A n \in 0..Depth : n < Depth =>
       \A a \in g[n] : a \in g[n+1] /\ \A b \in Traced(a) : b # NULL => b \in g[n+1]
  /\ \A n \in 0..Depth : \A a \in g[n] : a \in Reached

\* Reached goes through such sets.
LEMMA ReachedIs == \E g : Spreads(g)
<1>0. Depth \in Nat
  BY Numbers
<1> DEFINE g == CHOOSE f : SpreadEquation(Depth, f)
<1>1. SpreadEquation(Depth, g)
  BY <1>0, SpreadSolvable
<1>2. Reached = g[Depth]
  BY DEF Reached, SpreadEquation, SpreadStep
<1> HIDE DEF g
<1>3. ASSUME NEW n \in 0..Depth
      PROVE  g[n] = IF n = 0 THEN Roots \ {NULL} ELSE SpreadStep(g[n-1])
  BY <1>1 DEF SpreadEquation
<1>4. ASSUME NEW n \in 0..Depth, n < Depth
      PROVE  \A a \in g[n] : a \in g[n+1] /\ \A b \in Traced(a) : b # NULL => b \in g[n+1]
  <2>1. n + 1 \in 0..Depth /\ n + 1 # 0 /\ (n + 1) - 1 = n
    BY <1>0, <1>4
  <2>2. g[n+1] = SpreadStep(g[n])
    BY <1>3, <2>1
  <2>3. QED BY <2>2 DEF SpreadStep
<1>5. \A a \in Roots : a # NULL => a \in g[0]
  BY <1>0, <1>3
<1>6. ASSUME NEW n \in 0..Depth PROVE \A a \in g[n] : a \in Reached
  <2> DEFINE T == {m \in Nat : m <= Depth => g[Depth - m] \subseteq g[Depth]}
  <2>1. 0 \in T
    BY <1>0
  <2>2. ASSUME NEW m \in Nat, m \in T PROVE m + 1 \in T
    <3>1. SUFFICES ASSUME m + 1 <= Depth PROVE g[Depth - (m + 1)] \subseteq g[Depth]
      OBVIOUS
    <3>2. PICK i \in 0..Depth : i = Depth - (m + 1)
      BY <3>1, <1>0
    <3>3. i < Depth /\ i + 1 = Depth - m /\ m <= Depth
      BY <3>1, <3>2, <1>0
    <3>4. g[i] \subseteq g[i + 1]
      BY <1>4, <3>3
    <3>5. g[Depth - m] \subseteq g[Depth]
      BY <2>2, <3>3
    <3>6. QED BY <3>2, <3>3, <3>4, <3>5
  <2> HIDE DEF T
  <2>3. Nat \subseteq T
    BY <2>1, <2>2, SetInduction
  <2>4. PICK m \in Nat : m = Depth - n
    BY <1>0
  <2>5. m <= Depth /\ Depth - m = n
    BY <2>4, <1>0
  <2>6. g[n] \subseteq g[Depth]
    BY <2>3, <2>5 DEF T
  <2>7. QED BY <2>6, <1>2
<1>7. QED BY <1>4, <1>5, <1>6 DEF Spreads

\* The roots and what they point to are reached.
LEMMA RootReached ==
  ASSUME NEW a \in Roots, a # NULL
  PROVE  a \in Reached /\ \A b \in Traced(a) : b # NULL => b \in Reached
<1>1. PICK g : Spreads(g)
  BY ReachedIs
<1>2. Depth \in Nat /\ 0 < Depth /\ 0 \in 0..Depth /\ 0 + 1 \in 0..Depth
  BY Numbers
<1>3. a \in g[0]
  BY <1>1 DEF Spreads
<1>4. a \in Reached
  BY <1>1, <1>2, <1>3 DEF Spreads
<1>5. \A b \in Traced(a) : b # NULL => b \in g[0+1]
  BY <1>1, <1>2, <1>3 DEF Spreads
<1>6. \A b \in g[0+1] : b \in Reached
  BY <1>1, <1>2 DEF Spreads
<1>7. QED BY <1>4, <1>5, <1>6

\* A chunk's descriptor finds its items and the next chunk.
LEMMA ChunkTraced ==
  ASSUME NEW a, ChunkOK(heap, a)
  PROVE  /\ \A k \in 1..N : heap[a].items[k] \in Traced(a)
         /\ heap[a].next \in Traced(a)
<1>1. Traced(a) = ToSet(heap[a].items) \cup {heap[a].next}
  BY DEF Traced, ChunkOK
<1>2. \A k \in 1..N : heap[a].items[k] \in ToSet(heap[a].items)
  BY DEF ToSet, ChunkOK
<1>3. QED BY <1>1, <1>2

\* The blocks K has of a chain: its chunks and their items.
Spans(hp, K, ch) ==
  \A i \in 1..Len(ch) : ch[i] \in K /\ \A k \in 1..N : hp[ch[i]].items[k] \in K \cup {NULL}

\* A chain whose first chunk is a root is reached as a whole.
LEMMA ChainReached ==
  ASSUME NEW kd, NEW ch, Linked(kd, heap, ch), ch # << >> => ch[1] \in Roots
  PROVE  Spans(heap, Reached, ch)
<1>1. PICK g : Spreads(g)
  BY ReachedIs
<1>2. ch \in Seq(Addr) /\ Len(ch) \in Nat /\ Len(ch) <= MaxLen /\ MaxLen \in Nat
      /\ Depth = MaxLen + 1
  BY Numbers DEF Linked
<1>3. \A i \in 1..Len(ch) : ChunkOK(heap, ch[i]) /\ ch[i] \in Addr /\ ch[i] # NULL
  BY Numbers DEF Linked, ChunkOK
<1> DEFINE T == {m \in Nat : m + 1 \in 1..Len(ch) => ch[m + 1] \in g[m]}
<1>4. 0 \in T
  <2>1. SUFFICES ASSUME 1 \in 1..Len(ch) PROVE ch[1] \in g[0]
    OBVIOUS
  <2>2. ch # << >>
    BY <2>1, <1>2
  <2>3. QED BY <2>1, <2>2, <1>1, <1>3 DEF Spreads
<1>5. ASSUME NEW m \in Nat, m \in T PROVE m + 1 \in T
  <2>1. SUFFICES ASSUME (m + 1) + 1 \in 1..Len(ch) PROVE ch[(m + 1) + 1] \in g[m + 1]
    OBVIOUS
  <2>2. m + 1 \in 1..Len(ch) /\ m + 1 < Len(ch) /\ m \in 0..Depth /\ m < Depth
    BY <2>1, <1>2
  <2>3. ch[m + 1] \in g[m]
    BY <1>5, <2>2
  <2>4. heap[ch[m + 1]].next = ch[(m + 1) + 1]
    BY <2>2 DEF Linked
  <2>5. heap[ch[m + 1]].next \in Traced(ch[m + 1])
    BY <2>2, <1>3, ChunkTraced
  <2>6. ch[(m + 1) + 1] # NULL
    BY <2>1, <1>3
  <2>7. QED BY <2>2, <2>3, <2>4, <2>5, <2>6, <1>1 DEF Spreads
<1> HIDE DEF T
<1>6. Nat \subseteq T
  BY <1>4, <1>5, SetInduction
<1>7. ASSUME NEW i \in 1..Len(ch)
      PROVE  ch[i] \in Reached /\ \A k \in 1..N : heap[ch[i]].items[k] \in Reached \cup {NULL}
  <2>1. PICK m \in Nat : i = m + 1
    <3>1. i - 1 \in Nat /\ i = (i - 1) + 1
      OBVIOUS
    <3>2. QED BY <3>1
  <2>2. ch[i] \in g[m]
    BY <2>1, <1>6 DEF T
  <2>3. m \in 0..Depth /\ m < Depth /\ m + 1 \in 0..Depth
    BY <2>1, <1>2
  <2>4. ch[i] \in Reached
    BY <2>2, <2>3, <1>1 DEF Spreads
  <2>5. \A b \in Traced(ch[i]) : b # NULL => b \in g[m + 1]
    BY <2>2, <2>3, <1>1 DEF Spreads
  <2>6. \A b \in g[m + 1] : b \in Reached
    BY <2>3, <1>1 DEF Spreads
  <2>7. \A k \in 1..N : heap[ch[i]].items[k] \in Traced(ch[i])
    BY <1>3, ChunkTraced
  <2>8. QED BY <2>4, <2>5, <2>6, <2>7
<1>8. QED BY <1>7 DEF Spans

-----------------------------------------------------------------------------
(* A collection keeps what is held.                                         *)

Kept(hp, hp2, K) == \A a \in K : a \in Addr /\ hp[a].is # "free" => hp2[a] = hp[a]

\* What K has of a header's buffer.
BufSpans(kd, hp, K, h) ==
  kd # "tablets" /\ h.buf # NULL =>
    h.buf \in K /\ (kd = "dvec" => \A k \in 1..h.cap : hp[h.buf].items[k] \in K \cup {NULL})

\* Strings and chunks.
LEMMA KeptBlocks ==
  ASSUME NEW hp, NEW hp2, NEW K, Kept(hp, hp2, K)
  PROVE  /\ \A s \in K : IsString(hp, s) => IsString(hp2, s) /\ hp2[s] = hp[s]
         /\ \A s \in K \cup {NULL} : Item(hp, s) => Item(hp2, s)
         /\ \A a \in K : ChunkOK(hp, a) /\ (\A k \in 1..N : hp[a].items[k] \in K \cup {NULL})
                         => ChunkOK(hp2, a) /\ hp2[a] = hp[a]
<1>1. \A s \in K : IsString(hp, s) => IsString(hp2, s) /\ hp2[s] = hp[s]
  BY DEF IsString, Kept
<1>2. \A s \in K \cup {NULL} : Item(hp, s) => Item(hp2, s)
  BY <1>1 DEF Item
<1>3. ASSUME NEW a \in K, ChunkOK(hp, a), \A k \in 1..N : hp[a].items[k] \in K \cup {NULL}
      PROVE  ChunkOK(hp2, a) /\ hp2[a] = hp[a]
  <2>1. hp2[a] = hp[a]
    BY <1>3 DEF ChunkOK, Kept
  <2>2. ASSUME NEW k \in 1..N
        PROVE  /\ Item(hp2, hp2[a].items[k])
               /\ k <= hp2[a].used => IsString(hp2, hp2[a].items[k])
    <3>1. Item(hp, hp[a].items[k]) /\ (k <= hp[a].used => IsString(hp, hp[a].items[k]))
      BY <1>3 DEF ChunkOK
    <3>2. hp[a].items[k] \in K \cup {NULL}
      BY <1>3
    <3>3. IsString(hp, hp[a].items[k]) => hp[a].items[k] \in K
      BY <3>2, Numbers DEF IsString
    <3>4. QED BY <2>1, <3>1, <3>2, <3>3, <1>1, <1>2
  <2>3. QED BY <1>3, <2>1, <2>2 DEF ChunkOK
<1>4. QED BY <1>1, <1>2, <1>3

\* Chains.
LEMMA KeptChain ==
  ASSUME NEW kd, NEW hp, NEW hp2, NEW K, NEW ch, Kept(hp, hp2, K), Linked(kd, hp, ch), Spans(hp, K, ch)
  PROVE  /\ Linked(kd, hp2, ch) /\ Count(hp2, ch) = Count(hp, ch)
         /\ \A i \in 1..Len(ch) : hp2[ch[i]] = hp[ch[i]]
<1>1. \A i \in 1..Len(ch) : ChunkOK(hp2, ch[i]) /\ hp2[ch[i]] = hp[ch[i]]
  <2>1. ASSUME NEW i \in 1..Len(ch) PROVE ChunkOK(hp2, ch[i]) /\ hp2[ch[i]] = hp[ch[i]]
    <3>1. PICK a : a = ch[i]
      OBVIOUS
    <3>2. ChunkOK(hp, a) /\ a \in K /\ \A k \in 1..N : hp[a].items[k] \in K \cup {NULL}
      BY <3>1 DEF Linked, Spans
    <3>3. ChunkOK(hp2, a) /\ hp2[a] = hp[a]
      BY <3>2, KeptBlocks
    <3>4. QED BY <3>1, <3>3
  <2>2. QED BY <2>1
<1>2. Linked(kd, hp2, ch) /\ Count(hp2, ch) = Count(hp, ch)
  BY <1>1, LinkedSame
<1>3. QED BY <1>1, <1>2

\* Headers.
LEMMA KeptLeads ==
  ASSUME NEW kd, NEW hp, NEW hp2, NEW K, NEW h, NEW ch, Kept(hp, hp2, K), Linked(kd, hp, ch),
         Spans(hp, K, ch), BufSpans(kd, hp, K, h), Leads(kd, hp, h, ch)
  PROVE  Leads(kd, hp2, h, ch)
<1>1. IsHeader(h) /\ h.buf \in Addr \cup {NULL} /\ h.cap \in Nat
  BY DEF Leads, IsHeader
<1>2. Count(hp2, ch) = Count(hp, ch)
  BY KeptChain
<1>3. ASSUME kd = "ivec" PROVE BytesOK(hp2, h, ch)
  <2>1. BytesOK(hp, h, ch)
    BY <1>3 DEF Leads
  <2>2. CASE h.buf = NULL
    <3>1. \A k \in 1..h.cap : FALSE
      BY <2>1, <2>2 DEF BytesOK
    <3>2. QED BY <2>1, <2>2, <3>1 DEF BytesOK
  <2>3. CASE h.buf # NULL
    <3>1. hp2[h.buf] = hp[h.buf]
      BY <1>1, <1>3, <2>1, <2>3 DEF BytesOK, BufSpans, Kept
    <3>2. QED BY <2>1, <3>1 DEF BytesOK
  <2>4. QED BY <2>2, <2>3
<1>4. ASSUME kd = "dvec" PROVE BufferOK(hp2, h)
  <2>1. BufferOK(hp, h)
    BY <1>4 DEF Leads
  <2>2. CASE h.buf = NULL
    <3>1. \A k \in 1..h.cap : FALSE
      BY <2>1, <2>2 DEF BufferOK
    <3>2. QED BY <2>1, <2>2, <3>1 DEF BufferOK
  <2>3. CASE h.buf # NULL
    <3>1. hp2[h.buf] = hp[h.buf]
      BY <1>1, <1>4, <2>1, <2>3 DEF BufferOK, BufSpans, Kept
    <3>2. ASSUME NEW k \in 1..h.cap
          PROVE  /\ Item(hp2, hp2[h.buf].items[k])
                 /\ k <= h.len => IsString(hp2, hp2[h.buf].items[k])
      <4>1. Item(hp, hp[h.buf].items[k]) /\ (k <= h.len => IsString(hp, hp[h.buf].items[k]))
        BY <2>1 DEF BufferOK
      <4>2. hp[h.buf].items[k] \in K \cup {NULL}
        BY <1>4, <2>3 DEF BufSpans
      <4>3. IsString(hp, hp[h.buf].items[k]) => hp[h.buf].items[k] \in K
        BY <4>2, Numbers DEF IsString
      <4>4. QED BY <3>1, <4>1, <4>2, <4>3, KeptBlocks
    <3>3. QED BY <2>1, <3>1, <3>2 DEF BufferOK
  <2>4. QED BY <2>2, <2>3
<1>5. QED BY <1>2, <1>3, <1>4, LeadsSame

\* Containers.
LEMMA KeptOwns ==
  ASSUME NEW kd, NEW hp, NEW hp2, NEW K, NEW h, NEW ch, Kept(hp, hp2, K),
         Spans(hp, K, ch), BufSpans(kd, hp, K, h), Owns(kd, hp, h, ch)
  PROVE  Owns(kd, hp2, h, ch)
<1>1. Linked(kd, hp, ch) /\ Leads(kd, hp, h, ch)
  BY DEF Owns
<1>2. Linked(kd, hp2, ch) /\ Count(hp2, ch) = Count(hp, ch)
  BY <1>1, KeptChain
<1>3. Leads(kd, hp2, h, ch)
  BY <1>1, KeptLeads
<1>4. QED BY <1>2, <1>3 DEF Owns

\* Handles.
LEMMA KeptWedge ==
  ASSUME NEW kd, NEW hp, NEW hp2, NEW K, NEW w, NEW h, NEW cc, Kept(hp, hp2, K),
         WedgeOK(kd, hp, w, h, cc),
         w # NoWedge => /\ w.slot[1] \in K
                        /\ \A k \in 1..N : hp[w.slot[1]].items[k] \in K \cup {NULL}
  PROVE  WedgeOK(kd, hp2, w, h, cc)
<1>1. CASE w = NoWedge
  BY <1>1 DEF WedgeOK
<1>2. CASE w # NoWedge
  <2>1. PICK a : a = w.slot[1]
    OBVIOUS
  <2>2. ChunkOK(hp, a) /\ a \in K /\ \A k \in 1..N : hp[a].items[k] \in K \cup {NULL}
    BY <1>2, <2>1 DEF WedgeOK
  <2>3. ChunkOK(hp2, a) /\ hp2[a] = hp[a]
    BY <2>2, KeptBlocks
  <2>4. QED BY <1>2, <2>1, <2>3 DEF WedgeOK
<1>3. QED BY <1>1, <1>2

\* Pushes.
LEMMA KeptPushing ==
  ASSUME NEW kd, NEW hp, NEW hp2, NEW K, NEW p, NEW h, NEW ch, Kept(hp, hp2, K),
         Spans(hp, K, ch), Owns(kd, hp, h, ch), Pushing(kd, hp, p, h, ch)
  PROVE  Pushing(kd, hp2, p, h, ch)
<1>1. Linked(kd, hp, ch)
  BY DEF Owns
<1>2. ASSUME h.tail # NULL PROVE hp2[h.tail] = hp[h.tail]
  <2>1. ch # << >> /\ h.tail = ch[Len(ch)]
    BY <1>2 DEF Owns
  <2>2. Len(ch) \in 1..Len(ch)
    BY <1>1, <2>1, CountIs
  <2>3. QED BY <1>1, <2>1, <2>2, KeptChain
<1>3. QED BY <1>2 DEF Pushing

\* Clones in progress.
LEMMA KeptClone ==
  ASSUME NEW kd, NEW hp, NEW hp2, NEW K, NEW q, NEW p, NEW hd, NEW cc, Kept(hp, hp2, K),
         Spans(hp, K, cc), Linked(kd, hp, cc), CloneOK(kd, hp, q, p, hd, cc)
  PROVE  CloneOK(kd, hp2, q, p, hd, cc)
<1>1. Count(hp2, cc) = Count(hp, cc) /\ \A i \in 1..Len(cc) : hp2[cc[i]] = hp[cc[i]]
  BY KeptChain
<1>2. Len(cc) \in Nat
  BY DEF Linked
<1>3. ASSUME NEW j \in 1..(Len(cc) + 1), Cursor(hp, q, p, hd, cc, j) PROVE Cursor(hp2, q, p, hd, cc, j)
  <2>1. j # Len(cc) + 1 => j \in 1..Len(cc)
    BY <1>2
  <2>2. QED BY <1>1, <1>3, <2>1 DEF Cursor, Before
<1>4. QED BY <1>3 DEF CloneOK

-----------------------------------------------------------------------------
(* What the invariant says is held is reached.                              *)

\* The header's descriptor.
LEMMA HeaderPtrsAre ==
  ASSUME kind \in Kinds
  PROVE  \A h : /\ HeaderPtrs(h) = Ptrs(kind, h)
                /\ kind # "dvec" => h.head \in Ptrs(kind, h) /\ h.tail \in Ptrs(kind, h)
                /\ kind # "tablets" => h.buf \in Ptrs(kind, h)
BY KindsAssumption DEF HeaderPtrs, Ptrs

\* What a header that is registered holds is among the roots.
LEMMA RootsAre ==
  ASSUME kind \in Kinds
  PROVE  /\ \A h \in {hdr.c, hdr.d, view.h} :
              /\ \A a \in Ptrs(kind, h) : a \in Roots
              /\ kind # "dvec" => h.head \in Roots
              /\ kind # "tablets" => h.buf \in Roots
         /\ x \in Roots /\ spill \subseteq Roots /\ wedge.slot[1] \in Roots
BY HeaderPtrsAre DEF Roots, Spilled

\* A registered header's buffer and what it holds.
LEMMA BufferReached ==
  ASSUME kind \in Kinds, NEW h \in {hdr.c, hdr.d, view.h}, NEW ch, Leads(kind, heap, h, ch)
  PROVE  BufSpans(kind, heap, Reached, h)
<1>1. SUFFICES ASSUME kind # "tablets", h.buf # NULL
               PROVE  /\ h.buf \in Reached
                      /\ kind = "dvec" => \A k \in 1..h.cap : heap[h.buf].items[k] \in Reached \cup {NULL}
  BY DEF BufSpans
<1>2. PICK a \in Roots : a = h.buf /\ a # NULL
  BY <1>1, RootsAre
<1>3. a \in Reached /\ \A b \in Traced(a) : b # NULL => b \in Reached
  BY <1>2, RootReached
<1>4. ASSUME kind = "dvec", NEW k \in 1..h.cap PROVE heap[a].items[k] \in Reached \cup {NULL}
  <2>1. heap[a].is = "buffer" /\ DOMAIN heap[a].items = 1..h.cap
    BY <1>1, <1>2, <1>4 DEF Leads, BufferOK
  <2>2. heap[a].items[k] \in Traced(a)
    BY <2>1 DEF Traced, ToSet
  <2>3. QED BY <2>2, <1>3
<1>5. QED BY <1>2, <1>3, <1>4

\* The chains, the buffers, the values and the handle's chunk.
LEMMA HeldReached ==
  ASSUME NEW cc, NEW cd, NEW vc, InvWith(cc, cd, vc)
  PROVE  /\ Spans(heap, Reached, cc) /\ Spans(heap, Reached, cd) /\ Spans(heap, Reached, vc)
         /\ \A h \in {hdr.c, hdr.d, view.h} : BufSpans(kind, heap, Reached, h)
         /\ \A a \in Ptrs(kind, view.h) : a = NULL \/ a \in Reached
         /\ x = NULL \/ x \in Reached
         /\ spill \subseteq Reached
         /\ wedge # NoWedge =>
              /\ wedge.slot[1] \in Reached
              /\ \A k \in 1..N : heap[wedge.slot[1]].items[k] \in Reached \cup {NULL}
<1>1. /\ kind \in Kinds /\ Owns(kind, heap, hdr.c, cc) /\ Owns(kind, heap, hdr.d, cd)
      /\ ViewOK(kind, heap, view, hdr.c, cc, cd, vc) /\ Rooted(heap, x, spill)
      /\ WedgeOK(kind, heap, wedge, hdr.c, cc)
  BY DEF InvWith, Inv
<1>2. /\ Linked(kind, heap, cc) /\ Leads(kind, heap, hdr.c, cc)
      /\ Linked(kind, heap, cd) /\ Leads(kind, heap, hdr.d, cd)
      /\ Linked(kind, heap, vc) /\ Leads(kind, heap, view.h, vc)
  BY <1>1 DEF Owns, ViewOK
<1>3. Spans(heap, Reached, cc)
  <2>1. cc # << >> => cc[1] = hdr.c.head /\ kind # "dvec"
    BY <1>1, <1>2 DEF Owns, Linked
  <2>2. cc # << >> => cc[1] \in Roots
    BY <2>1, <1>1, RootsAre
  <2>3. QED BY <2>2, <1>2, ChainReached
<1>4. Spans(heap, Reached, cd)
  <2>1. cd # << >> => cd[1] = hdr.d.head /\ kind # "dvec"
    BY <1>1, <1>2 DEF Owns, Linked
  <2>2. cd # << >> => cd[1] \in Roots
    BY <2>1, <1>1, RootsAre
  <2>3. QED BY <2>2, <1>2, ChainReached
<1>5. Spans(heap, Reached, vc)
  <2>1. CASE view.gone = FALSE
    BY <2>1, <1>1, <1>3 DEF ViewOK
  <2>2. CASE view.gone = TRUE
    <3>1. vc # << >> => vc[1] = view.h.head /\ kind # "dvec"
      BY <2>2, <1>1, <1>2 DEF ViewOK, Linked
    <3>2. vc # << >> => vc[1] \in Roots
      BY <3>1, <1>1, RootsAre
    <3>3. QED BY <3>2, <1>2, ChainReached
  <2>3. QED BY <1>1, <2>1, <2>2 DEF ViewOK
<1>6. \A h \in {hdr.c, hdr.d, view.h} : BufSpans(kind, heap, Reached, h)
  BY <1>1, <1>2, BufferReached
<1>7. ASSUME NEW a \in Ptrs(kind, view.h), a # NULL PROVE a \in Reached
  BY <1>1, <1>7, RootsAre, RootReached
<1>8. x = NULL \/ x \in Reached
  BY <1>1, RootsAre, RootReached
<1>9. ASSUME NEW a \in spill PROVE a \in Reached
  <2>1. a # NULL /\ a \in Roots
    BY <1>1, RootsAre, Numbers DEF Rooted, IsString
  <2>2. QED BY <2>1, RootReached
<1>10. ASSUME wedge # NoWedge
       PROVE  /\ wedge.slot[1] \in Reached
              /\ \A k \in 1..N : heap[wedge.slot[1]].items[k] \in Reached \cup {NULL}
  <2>1. PICK a \in Roots : a = wedge.slot[1]
    BY <1>1, RootsAre
  <2>2. ChunkOK(heap, a) /\ a # NULL
    BY <1>1, <1>10, <2>1, Numbers DEF WedgeOK, ChunkOK
  <2>3. a \in Reached /\ \A b \in Traced(a) : b # NULL => b \in Reached
    BY <2>2, RootReached
  <2>4. \A k \in 1..N : heap[a].items[k] \in Traced(a)
    BY <2>2, ChunkTraced
  <2>5. QED BY <2>1, <2>3, <2>4
<1>11. QED BY <1>3, <1>4, <1>5, <1>6, <1>7, <1>8, <1>9, <1>10

-----------------------------------------------------------------------------
(* Allocation.                                                              *)

\* While a block may be allocated, the lowest free address is one.
LEMMA FreshIs ==
  ASSUME kind \in Kinds, CanAllocate
  PROVE  Fresh \in Addr /\ heap[Fresh].is = "free"
<1>1. Unused \subseteq Addr /\ Unused \subseteq Nat
  BY Numbers DEF Unused
<1>2. Unused # {}
  <2>1. SUFFICES ASSUME Unused = {} PROVE FALSE
    OBVIOUS
  <2>2. Addr \ Unused = Addr
    BY <2>1
  <2>3. Cardinality(Addr) \in Nat /\ MaxBlocks[kind] <= Cardinality(Addr)
    BY AddrAssumption, FS_CardinalityType
  <2>4. MaxBlocks[kind] \in Nat
    BY SizesAssumption
  <2>5. Cardinality(Addr) < MaxBlocks[kind]
    BY <2>2 DEF CanAllocate
  <2>6. QED BY <2>3, <2>4, <2>5
<1>3. \E n \in Unused : \A m \in Unused : n <= m
  BY <1>1, <1>2, LeastNat
<1>4. Fresh \in Unused
  BY <1>3 DEF Fresh, Min
<1>5. QED BY <1>4 DEF Unused

\* The blocks there can be after an allocation of b at n.
AllocatedAt(hp, n, b) ==
  /\ Shape(hp) /\ n \in Addr /\ heap[n].is = "free" /\ hp[n] = b
  /\ Kept(heap, hp, Reached)
  /\ \A a \in Addr : heap[a].is # "free" => hp[a].is # "free"
IsBlock(b) ==
  /\ b.is \in Sorts \ {"free"}
  /\ b = [is |-> b.is, items |-> b.items, used |-> b.used, next |-> b.next, text |-> b.text]

\* An allocation keeps what is reached.
LEMMA AllocationIs ==
  ASSUME kind \in Kinds, CanAllocate, Shape(heap), NEW b, IsBlock(b),
         NEW hp, hp = [Collected EXCEPT ![Fresh] = b]
  PROVE  AllocatedAt(hp, Fresh, b)
<1>1. Fresh \in Addr /\ heap[Fresh].is = "free"
  BY FreshIs
<1>2. PICK n \in Addr : n = Fresh /\ heap[n].is = "free"
  BY <1>1
<1>3. Collected = [a \in Addr |-> IF a \in Reached \cup Unused THEN heap[a] ELSE Swept]
  BY DEF Collected
<1>4. \A a \in Addr : hp[a] = IF a = n THEN b ELSE IF a \in Reached \cup Unused THEN heap[a] ELSE Swept
  BY <1>2, <1>3
<1>5. hp = [a \in Addr |-> hp[a]]
  BY <1>2, <1>3
<1>6. \A a \in Addr : a \in Unused <=> heap[a].is = "free"
  BY DEF Unused
<1>7. Swept = [is |-> "swept", items |-> << >>, used |-> 0, next |-> NULL, text |-> NULL]
  BY DEF Swept, FreeBlock
<1>8. Swept.is = "swept" /\ Swept.items = << >> /\ Swept.used = 0 /\ Swept.next = NULL /\ Swept.text = NULL
  BY <1>7
<1>9. ASSUME NEW a \in Addr
      PROVE  /\ hp[a].is \in Sorts
             /\ hp[a] = [is |-> hp[a].is, items |-> hp[a].items, used |-> hp[a].used,
                         next |-> hp[a].next, text |-> hp[a].text]
  <2>1. CASE hp[a] = b
    BY <2>1 DEF IsBlock
  <2>2. CASE hp[a] = heap[a]
    BY <2>2 DEF Shape
  <2>3. CASE hp[a] = Swept
    <3>1. hp[a].is \in Sorts
      BY <2>3, <1>8 DEF Sorts
    <3>2. QED BY <2>3, <3>1, <1>7, <1>8
  <2>4. QED BY <1>4, <2>1, <2>2, <2>3
<1>10. Shape(hp)
  BY <1>5, <1>9 DEF Shape
<1>11. ASSUME NEW a \in Reached, a \in Addr, heap[a].is # "free" PROVE hp[a] = heap[a]
  BY <1>4, <1>2, <1>11
<1>12. ASSUME NEW a \in Addr, heap[a].is # "free" PROVE hp[a].is # "free"
  <2>1. b.is # "free"
    BY DEF IsBlock
  <2>2. QED BY <2>1, <1>4, <1>8, <1>12
<1>13. hp[n] = b
  BY <1>4
<1>14. QED BY <1>2, <1>10, <1>11, <1>12, <1>13 DEF AllocatedAt, Kept

\* Nothing the invariant speaks of is at a free address.
LEMMA FreeUnheld ==
  ASSUME NEW cc, NEW cd, NEW vc, InvWith(cc, cd, vc), NEW n \in Addr, heap[n].is = "free"
  PROVE  /\ n \notin Range(cc) /\ n \notin Range(cd) /\ n \notin Range(vc)
         /\ kind # "tablets" => n # hdr.c.buf /\ n # view.h.buf
         /\ lval.on = TRUE => n # lval.slot[1]
<1>1. /\ Linked(kind, heap, cc) /\ Linked(kind, heap, cd) /\ Linked(kind, heap, vc)
      /\ Leads(kind, heap, hdr.c, cc) /\ Leads(kind, heap, view.h, vc)
      /\ LvalOK(kind, heap, lval, hdr.c, cc, cd) /\ kind \in Kinds
  BY DEF InvWith, Inv, Owns, ViewOK
<1>2. \A ch : Linked(kind, heap, ch) => n \notin Range(ch)
  BY DEF Linked, Range, ChunkOK
<1>3. ASSUME NEW h, NEW ch, Leads(kind, heap, h, ch), kind # "tablets" PROVE n # h.buf
  <2>1. kind = "ivec" \/ kind = "dvec"
    BY <1>1, <1>3, KindsAssumption
  <2>2. n # NULL
    BY Numbers
  <2>3. CASE kind = "ivec"
    BY <1>3, <2>2, <2>3 DEF Leads, BytesOK
  <2>4. CASE kind = "dvec"
    BY <1>3, <2>2, <2>4 DEF Leads, BufferOK
  <2>5. QED BY <2>1, <2>3, <2>4
<1>4. lval.on = TRUE => n # lval.slot[1]
  BY <1>1 DEF LvalOK
<1>5. QED BY <1>1, <1>2, <1>3, <1>4

\* The invariant holds of the heap after an allocation, before the step's stores.
LEMMA AllocationKeeps ==
  ASSUME NEW cc, NEW cd, NEW vc, InvWith(cc, cd, vc), NEW hp, NEW n, NEW b, AllocatedAt(hp, n, b)
  PROVE  Inv(kind, hp, hdr, x, spill, wedge, view, lval, push, clone, cc, cd, vc)
<1> DEFINE K == Reached
<1>1. /\ kind \in Kinds /\ Owns(kind, heap, hdr.c, cc) /\ Owns(kind, heap, hdr.d, cd)
      /\ ViewOK(kind, heap, view, hdr.c, cc, cd, vc) /\ Rooted(heap, x, spill)
      /\ WedgeOK(kind, heap, wedge, hdr.c, cc) /\ LvalOK(kind, heap, lval, hdr.c, cc, cd)
      /\ PushOK(kind, heap, spill, push, clone, hdr, cc, cd)
      /\ CloneOK(kind, heap, clone, push, hdr.d, cc)
  BY DEF InvWith, Inv
<1>2. Kept(heap, hp, K) /\ Shape(hp) /\ \A a \in Addr : heap[a].is # "free" => hp[a].is # "free"
  BY DEF AllocatedAt
<1>3. /\ Spans(heap, K, cc) /\ Spans(heap, K, cd) /\ Spans(heap, K, vc)
      /\ \A h \in {hdr.c, hdr.d, view.h} : BufSpans(kind, heap, K, h)
      /\ \A a \in Ptrs(kind, view.h) : a = NULL \/ a \in K
      /\ x = NULL \/ x \in K
      /\ spill \subseteq K
      /\ wedge # NoWedge =>
           /\ wedge.slot[1] \in K
           /\ \A k \in 1..N : heap[wedge.slot[1]].items[k] \in K \cup {NULL}
  BY HeldReached
<1> HIDE DEF K
<1>4. Owns(kind, hp, hdr.c, cc) /\ Owns(kind, hp, hdr.d, cd)
  BY <1>1, <1>2, <1>3, KeptOwns
<1>5. ViewOK(kind, hp, view, hdr.c, cc, cd, vc)
  <2>1. Linked(kind, heap, vc) /\ Leads(kind, heap, view.h, vc) /\ BufSpans(kind, heap, K, view.h)
    BY <1>1, <1>3 DEF ViewOK
  <2>2. Linked(kind, hp, vc)
    BY <2>1, <1>2, <1>3, KeptChain
  <2>3. Leads(kind, hp, view.h, vc)
    BY <2>1, <1>2, <1>3, KeptLeads
  <2>4. ASSUME NEW a \in Ptrs(kind, view.h), a # NULL PROVE Live(hp, a)
    <3>1. Live(heap, a) /\ a \in K
      BY <2>4, <1>1, <1>3 DEF ViewOK
    <3>2. hp[a] = heap[a]
      BY <3>1, <1>2 DEF Live, Kept
    <3>3. QED BY <3>1, <3>2 DEF Live
  <2>5. QED BY <1>1, <2>2, <2>3, <2>4 DEF ViewOK
<1>6. WedgeOK(kind, hp, wedge, hdr.c, cc)
  BY <1>1, <1>2, <1>3, KeptWedge
<1>7. LvalOK(kind, hp, lval, hdr.c, cc, cd)
  BY <1>1, <1>2 DEF LvalOK
<1>8. Rooted(hp, x, spill)
  <2>1. Item(hp, x)
    BY <1>1, <1>2, <1>3, KeptBlocks DEF Rooted
  <2>2. \A a \in spill : IsString(hp, a)
    BY <1>1, <1>2, <1>3, KeptBlocks DEF Rooted
  <2>3. QED BY <2>1, <2>2 DEF Rooted
<1>9. PushOK(kind, hp, spill, push, clone, hdr, cc, cd)
  <2>1. Pushing(kind, heap, push, hdr.c, cc) => Pushing(kind, hp, push, hdr.c, cc)
    BY <1>1, <1>2, <1>3, KeptPushing
  <2>2. Pushing(kind, heap, push, hdr.d, cd) => Pushing(kind, hp, push, hdr.d, cd)
    BY <1>1, <1>2, <1>3, KeptPushing
  <2>3. QED BY <1>1, <2>1, <2>2 DEF PushOK
<1>10. CloneOK(kind, hp, clone, push, hdr.d, cc)
  <2>1. Linked(kind, heap, cc)
    BY <1>1 DEF Owns
  <2>2. QED BY <1>1, <1>2, <1>3, <2>1, KeptClone
<1>11. QED
  BY <1>2, <1>4, <1>5, <1>6, <1>7, <1>8, <1>9, <1>10 DEF InvWith, Inv

-----------------------------------------------------------------------------
(* Reading.                                                                 *)

\* The equation of Walk's recursive function.
WalkStart(h, i) == [at |-> h.head, left |-> i]
WalkStep(p) == IF p.left >= N THEN [at |-> heap[p.at].next, left |-> p.left - N] ELSE p
WalkEquation(h, i, k, g) ==
  g = [n \in 0..k |-> IF n = 0 THEN WalkStart(h, i) ELSE WalkStep(g[n-1])]

\* It has a solution.
LEMMA WalkSolvable ==
  ASSUME NEW h, NEW i0, NEW k \in Nat
  PROVE  \E g : WalkEquation(h, i0, k, g)
<1> DEFINE T == {n \in Nat : \E g : WalkEquation(h, i0, n, g)}
           E(g, i) == IF i = 0 THEN WalkStart(h, i0) ELSE WalkStep(g[i-1])
<1>1. 0 \in T
  <2> DEFINE g == [i \in 0..0 |-> WalkStart(h, i0)]
  <2>1. g = [i \in 0..0 |-> E(g, i)]
    OBVIOUS
  <2>2. WalkEquation(h, i0, 0, g)
    <3> HIDE DEF g
    <3>1. QED BY <2>1 DEF WalkEquation
  <2>3. QED BY <2>2
<1>2. ASSUME NEW n \in Nat, n \in T PROVE n + 1 \in T
  <2>1. PICK g : WalkEquation(h, i0, n, g)
    BY <1>2
  <2> DEFINE f == [i \in 0..(n+1) |-> E(g, i)]
  <2>2. ASSUME NEW i \in 0..n PROVE f[i] = g[i]
    <3>1. i \in 0..(n+1)
      OBVIOUS
    <3>2. g[i] = E(g, i)
      BY <2>1 DEF WalkEquation
    <3> HIDE DEF E
    <3>3. QED BY <3>1, <3>2
  <2>3. ASSUME NEW i \in 0..(n+1) PROVE f[i] = E(f, i)
    <3>1. CASE i = 0
      BY <3>1
    <3>2. CASE i # 0
      <4>1. i - 1 \in 0..n
        BY <3>2
      <4>2. f[i-1] = g[i-1]
        BY <4>1, <2>2
      <4>3. f[i] = E(g, i)
        OBVIOUS
      <4> HIDE DEF f
      <4>4. QED BY <3>2, <4>2, <4>3
    <3>3. QED BY <3>1, <3>2
  <2>4. f = [i \in 0..(n+1) |-> E(f, i)]
    <3>1. f = [i \in 0..(n+1) |-> f[i]]
      OBVIOUS
    <3> HIDE DEF f, E
    <3>2. QED BY <3>1, <2>3
  <2>5. WalkEquation(h, i0, n + 1, f)
    <3> HIDE DEF f
    <3>1. QED BY <2>4 DEF WalkEquation
  <2> HIDE DEF f
  <2>6. QED BY <2>5
<1> HIDE DEF T
<1>3. k \in T
  BY <1>1, <1>2, SetInduction
<1>4. QED BY <1>3 DEF T

\* Walking a chain leads to the slot of the index.
LEMMA WalkIs ==
  ASSUME NEW kd, NEW h, NEW ch, NEW i \in Nat, Linked(kd, heap, ch), i < Count(heap, ch), h.head = ch[1]
  PROVE  Walk(h, i) = SlotOf(ch, i)
<1> DEFINE g == CHOOSE f : WalkEquation(h, i, i, f)
           p == Place(i)
<1>1. WalkEquation(h, i, i, g)
  BY WalkSolvable
<1>2. Walk(h, i) = <<g[i].at, g[i].left + 1>>
  BY DEF Walk, WalkEquation, WalkStart, WalkStep
<1> HIDE DEF g
<1>3. ASSUME NEW n \in 0..i PROVE g[n] = IF n = 0 THEN WalkStart(h, i) ELSE WalkStep(g[n-1])
  BY <1>1 DEF WalkEquation
<1>4. /\ p \in 1..Len(ch) /\ p \in Nat \ {0} /\ In(p, i) /\ p \in 1..(i + 1)
  BY SlotFilled, PlaceIs
<1> HIDE DEF p
<1>5. First(p) \in Nat /\ First(p) <= i /\ i < First(p) + N /\ N \in Nat \ {0} /\ Len(ch) \in Nat
  BY <1>4, FirstGoes, Numbers DEF In, Linked
<1> DEFINE T == {n \in Nat : n < p => g[n] = [at |-> ch[n + 1], left |-> i - First(n + 1)]}
<1>6. 0 \in T
  <2>1. g[0] = WalkStart(h, i)
    BY <1>3
  <2>2. First(0 + 1) = 0 /\ i - 0 = i
    BY FirstGoes
  <2>3. QED BY <2>1, <2>2 DEF WalkStart
<1>7. ASSUME NEW n \in Nat, n \in T PROVE n + 1 \in T
  <2>1. SUFFICES ASSUME n + 1 < p
                 PROVE  g[n + 1] = [at |-> ch[(n + 1) + 1], left |-> i - First((n + 1) + 1)]
    OBVIOUS
  <2>2. PICK m \in Nat \ {0} : m = n + 1
    OBVIOUS
  <2>3. m \in 0..i /\ m # 0 /\ m - 1 = n /\ m < p /\ n < p /\ m \in 1..Len(ch) /\ m < Len(ch)
    BY <2>1, <2>2, <1>4, <1>5
  <2>4. g[n] = [at |-> ch[m], left |-> i - First(m)]
    BY <1>7, <2>2, <2>3
  <2>5. First(m + 1) = First(m) + N /\ First(m) + N <= First(p) /\ First(m) \in Nat
    BY <2>3, <1>4, FirstGoes, FirstGrows
  <2>6. i - First(m) >= N /\ (i - First(m)) - N = i - First(m + 1)
    BY <2>5, <1>5
  <2>7. g[m] = WalkStep(g[n])
    BY <1>3, <2>3
  <2>8. heap[ch[m]].next = ch[m + 1]
    BY <2>3 DEF Linked
  <2>9. QED BY <2>2, <2>4, <2>6, <2>7, <2>8 DEF WalkStep
<1> HIDE DEF T
<1>8. Nat \subseteq T
  BY <1>6, <1>7, SetInduction
<1> DEFINE e == [at |-> ch[p], left |-> i - First(p)]
           U == {n \in Nat : p + n <= i + 1 => g[(p - 1) + n] = e}
<1>9. 0 \in U
  <2>1. PICK n \in Nat : n = p - 1
    BY <1>4
  <2>2. n < p /\ n + 1 = p
    BY <2>1, <1>4
  <2>3. g[n] = e
    BY <2>2, <1>8 DEF T
  <2>4. (p - 1) + 0 = n
    BY <2>1, <1>4
  <2>5. QED BY <2>3, <2>4
<1>10. ASSUME NEW n \in Nat, n \in U PROVE n + 1 \in U
  <2>1. SUFFICES ASSUME p + (n + 1) <= i + 1 PROVE g[(p - 1) + (n + 1)] = e
    OBVIOUS
  <2>2. PICK m \in 0..i : m = (p - 1) + (n + 1)
    BY <2>1, <1>4
  <2>3. m # 0 /\ m - 1 = (p - 1) + n /\ p + n <= i + 1
    BY <2>1, <2>2, <1>4
  <2>4. g[m - 1] = e
    BY <1>10, <2>3
  <2>5. g[m] = WalkStep(e)
    BY <1>3, <2>3, <2>4
  <2>6. ~(i - First(p) >= N)
    BY <1>5
  <2>7. WalkStep(e) = e
    BY <2>6 DEF WalkStep
  <2>8. QED BY <2>2, <2>5, <2>7
<1> HIDE DEF U
<1>11. Nat \subseteq U
  BY <1>9, <1>10, SetInduction
<1>12. PICK n \in Nat : n = (i + 1) - p
  BY <1>4
<1>13. p + n <= i + 1 /\ (p - 1) + n = i
  BY <1>12, <1>4
<1>14. g[i] = e
  BY <1>11, <1>13 DEF U
<1>15. QED BY <1>2, <1>14 DEF SlotOf, p

\* Index k of a header leads to the k-th slot filled, which holds a string.
LEMMA SlotAtIs ==
  ASSUME NEW h, NEW ch, NEW k \in Nat, kind \in Kinds, Linked(kind, heap, ch),
         Leads(kind, heap, h, ch), k < h.len
  PROVE  /\ kind = "dvec" => SlotAt(h, k) = <<h.buf, k + 1>>
         /\ kind # "dvec" => SlotAt(h, k) = SlotOf(ch, k) /\ k < Count(heap, ch)
         /\ IsString(heap, ItemAt(SlotAt(h, k)))
<1>1. h.len \in Nat /\ h.cap \in Nat /\ h.len > 0
  BY Numbers DEF Leads, IsHeader
<1>2. kind # "dvec" => k < Count(heap, ch) /\ h.head = ch[1]
  <2>1. Count(heap, ch) \in Nat
    BY CountIs
  <2>2. QED BY <1>1, <2>1 DEF Leads
<1>3. CASE kind = "tablets"
  <2>1. Walk(h, k) = SlotOf(ch, k)
    BY <1>2, <1>3, WalkIs
  <2>2. SlotAt(h, k) = SlotOf(ch, k)
    BY <2>1, <1>3 DEF SlotAt
  <2>3. IsString(heap, heap[SlotOf(ch, k)[1]].items[SlotOf(ch, k)[2]])
    BY <1>2, <1>3, SlotFilled
  <2>4. QED BY <1>2, <1>3, <2>2, <2>3 DEF ItemAt
<1>4. CASE kind = "ivec"
  <2>1. BytesOK(heap, h, ch)
    BY <1>4 DEF Leads
  <2>2. k + 1 \in 1..h.cap /\ k + 1 <= h.len /\ (k + 1) - 1 = k
    BY <1>1, <2>1 DEF BytesOK
  <2>3. heap[h.buf].items[k + 1] = SlotOf(ch, k)
    BY <2>1, <2>2 DEF BytesOK
  <2>4. SlotAt(h, k) = SlotOf(ch, k)
    BY <2>3, <1>4 DEF SlotAt, BufferedSlot
  <2>5. IsString(heap, heap[SlotOf(ch, k)[1]].items[SlotOf(ch, k)[2]])
    BY <1>2, <1>4, SlotFilled
  <2>6. QED BY <1>2, <1>4, <2>4, <2>5 DEF ItemAt
<1>5. CASE kind = "dvec"
  <2>1. BufferOK(heap, h)
    BY <1>5 DEF Leads
  <2>2. k + 1 \in 1..h.cap /\ k + 1 <= h.len
    BY <1>1, <2>1 DEF BufferOK
  <2>3. IsString(heap, heap[h.buf].items[k + 1])
    BY <2>1, <2>2 DEF BufferOK
  <2>4. SlotAt(h, k) = <<h.buf, k + 1>>
    BY <1>5 DEF SlotAt, InlineSlot
  <2>5. QED BY <1>5, <2>3, <2>4 DEF ItemAt
<1>6. QED BY <1>3, <1>4, <1>5, KindsAssumption

\* What it holds is reached with the header's chain and buffer.
LEMMA ItemSpanned ==
  ASSUME NEW h, NEW ch, NEW k \in Nat, kind \in Kinds, Linked(kind, heap, ch),
         Leads(kind, heap, h, ch), k < h.len, NEW K, Spans(heap, K, ch), BufSpans(kind, heap, K, h)
  PROVE  ItemAt(SlotAt(h, k)) \in K
<1>1. IsString(heap, ItemAt(SlotAt(h, k)))
  BY SlotAtIs
<1>2. ItemAt(SlotAt(h, k)) # NULL
  BY <1>1, Numbers DEF IsString
<1>3. CASE kind = "dvec"
  <2>1. BufferOK(heap, h) /\ h.len \in Nat /\ h.cap \in Nat
    BY <1>3, Numbers DEF Leads, IsHeader
  <2>2. k + 1 \in 1..h.cap /\ h.buf # NULL
    BY <2>1 DEF BufferOK
  <2>3. heap[h.buf].items[k + 1] \in K \cup {NULL}
    BY <1>3, <2>2 DEF BufSpans
  <2>4. SlotAt(h, k) = <<h.buf, k + 1>>
    BY <1>3, SlotAtIs
  <2>5. QED BY <1>2, <2>3, <2>4 DEF ItemAt
<1>4. CASE kind # "dvec"
  <2>1. SlotAt(h, k) = SlotOf(ch, k) /\ k < Count(heap, ch)
    BY <1>4, SlotAtIs
  <2>2. /\ Place(k) \in 1..Len(ch)
        /\ (k - First(Place(k))) + 1 \in 1..N
        /\ SlotOf(ch, k)[1] = ch[Place(k)]
        /\ SlotOf(ch, k)[2] = (k - First(Place(k))) + 1
    BY <2>1, SlotFilled
  <2>3. heap[SlotOf(ch, k)[1]].items[SlotOf(ch, k)[2]] \in K \cup {NULL}
    BY <2>2 DEF Spans
  <2>4. QED BY <1>2, <2>1, <2>3 DEF ItemAt
<1>5. QED BY <1>3, <1>4

\* A container's own pointers live.
LEMMA OwnLive ==
  ASSUME NEW kd, NEW hp, NEW h, NEW ch, kd \in Kinds, Owns(kd, hp, h, ch)
  PROVE  \A a \in Ptrs(kd, h) : a = NULL \/ Live(hp, a)
<1>1. Linked(kd, hp, ch) /\ Leads(kd, hp, h, ch)
  BY DEF Owns
<1>2. h.head = NULL \/ Live(hp, h.head)
  <2>1. ch # << >> => h.head = ch[1] /\ ChunkOK(hp, ch[1])
    <3>1. ch # << >> => 1 \in 1..Len(ch)
      BY <1>1, CountIs
    <3>2. QED BY <1>1, <3>1 DEF Owns, Linked
  <2>2. QED BY <2>1 DEF Owns, Live, ChunkOK
<1>3. h.tail = NULL \/ Live(hp, h.tail)
  <2>1. ch # << >> => h.tail = ch[Len(ch)] /\ ChunkOK(hp, ch[Len(ch)])
    <3>1. ch # << >> => Len(ch) \in 1..Len(ch)
      BY <1>1, CountIs
    <3>2. QED BY <1>1, <3>1 DEF Owns, Linked
  <2>2. QED BY <2>1 DEF Owns, Live, ChunkOK
<1>4. kd # "tablets" => h.buf = NULL \/ Live(hp, h.buf)
  <2>1. SUFFICES ASSUME kd # "tablets", h.buf # NULL PROVE Live(hp, h.buf)
    OBVIOUS
  <2>2. h.buf \in Addr
    BY <1>1, <2>1 DEF Leads, IsHeader
  <2>3. CASE kd = "ivec"
    BY <1>1, <2>1, <2>2, <2>3 DEF Leads, BytesOK, Live
  <2>4. CASE kd = "dvec"
    BY <1>1, <2>1, <2>2, <2>4 DEF Leads, BufferOK, Live
  <2>5. QED BY <2>1, <2>3, <2>4, KindsAssumption
<1>5. QED BY <1>2, <1>3, <1>4, KindsAssumption DEF Ptrs

\* A header with no elements leads the empty chain.
LEMMA LeadsNothing ==
  ASSUME NEW kd, NEW hp, NEW h, NEW ch, Leads(kd, hp, h, ch), h.len = 0
  PROVE  Leads(kd, hp, h, << >>)
<1>1. Count(hp, << >>) = 0
  BY DEF Count
<1>2. BytesOK(hp, h, ch) => BytesOK(hp, h, << >>)
  <2>1. h.cap \in Nat /\ \A k \in 1..h.cap : ~(k <= h.len)
    BY DEF Leads, IsHeader
  <2>2. QED BY <2>1 DEF BytesOK
<1>3. QED BY <1>1, <1>2 DEF Leads

\* A push that is called: where it begins.
LEMMA CallOK ==
  ASSUME NEW to \in {"c", "d"}, NEW val, NEW moved, NEW ch, Call(to, val, moved),
         Owns(kind, heap, hdr[to], ch), hdr[to].len < MaxLen, kind \in Kinds
  PROVE  /\ push' = [pc |-> push'.pc, to |-> to, val |-> val, moved |-> moved, slot |-> NoSlot]
         /\ push'.pc \in {"grow", "chunk", "insert"}
         /\ Pushing(kind, heap, push', hdr[to], ch)
<1>1. PICK h : h = hdr[to]
  OBVIOUS
<1>2. PICK e : e = Entry(h)
  OBVIOUS
<1>3. push' = [pc |-> e, to |-> to, val |-> val, moved |-> moved, slot |-> NoSlot]
  BY <1>1, <1>2 DEF Call
<1>4. push'.pc = e
  BY <1>3
<1>5. Leads(kind, heap, h, ch) /\ h.len \in Nat /\ h.cap \in Nat
  BY <1>1, Numbers DEF Owns, Leads, IsHeader
<1>6. kind # "tablets" => h.len <= h.cap
  BY <1>5, KindsAssumption DEF Leads, BytesOK, BufferOK
<1>7. /\ e \in {"grow", "chunk", "insert"}
      /\ e = "grow" => kind # "tablets" /\ h.len = h.cap
      /\ e = "chunk" => kind # "dvec" /\ (h.tail = NULL \/ heap[h.tail].used = N)
      /\ e = "insert" /\ kind # "dvec" => h.tail # NULL /\ heap[h.tail].used # N
      /\ e \in {"chunk", "insert"} /\ kind # "tablets" => h.len # h.cap
  BY <1>2 DEF Entry, AfterGrow, TailFull
<1>8. Pushing(kind, heap, push', h, ch)
  BY <1>1, <1>4, <1>5, <1>6, <1>7 DEF Pushing
<1>9. QED BY <1>1, <1>3, <1>4, <1>7, <1>8

-----------------------------------------------------------------------------
(* Steps that leave the heap alone.                                         *)

InvNext(cc, cd, vc) ==
  Inv(kind', heap', hdr', x', spill', wedge', view', lval', push', clone', cc, cd, vc)

\* c.push(x) is called.
LEMMA PushMovedStep ==
  ASSUME NEW cc, NEW cd, NEW vc, InvWith(cc, cd, vc), PushMoved
  PROVE  InvNext(cc, cd, vc)
<1>1. /\ kind \in Kinds /\ Owns(kind, heap, hdr.c, cc) /\ Rooted(heap, x, spill)
      /\ PushOK(kind, heap, spill, push, clone, hdr, cc, cd)
      /\ CloneOK(kind, heap, clone, push, hdr.d, cc)
  BY DEF InvWith, Inv
<1>2. /\ push.pc = "idle" /\ clone.pc = "idle" /\ x # NULL /\ hdr["c"].len < MaxLen
      /\ spill' = {x} /\ Call("c", x, TRUE) /\ x' \in {x, NULL}
      /\ kind' = kind /\ heap' = heap /\ hdr' = hdr /\ clone' = clone
      /\ wedge' = wedge /\ view' = view /\ lval' = lval
  BY DEF PushMoved, MayPush, Running, statement
<1>3. /\ push' = [pc |-> push'.pc, to |-> "c", val |-> x, moved |-> TRUE, slot |-> NoSlot]
      /\ push'.pc \in {"grow", "chunk", "insert"}
      /\ Pushing(kind, heap, push', hdr["c"], cc)
  BY <1>1, <1>2, CallOK
<1>4. Rooted(heap, x', spill')
  BY <1>1, <1>2 DEF Rooted, Item
<1>5. PushOK(kind, heap, spill', push', clone, hdr, cc, cd)
  <2>1. push'.to = "c" /\ push'.val = x /\ push'.moved = TRUE /\ push'.slot = NoSlot
    BY <1>3
  <2>2. push' = [pc |-> push'.pc, to |-> push'.to, val |-> push'.val, moved |-> push'.moved,
                 slot |-> push'.slot]
    BY <1>3, <2>1, Zenon
  <2>3. QED BY <1>2, <1>3, <2>1, <2>2 DEF PushOK
<1>6. CloneOK(kind, heap, clone, push', hdr.d, cc)
  BY <1>1, <1>2 DEF CloneOK
<1>7. QED BY <1>2, <1>4, <1>5, <1>6 DEF InvWith, InvNext, Inv

\* The push returns, and the program may keep the handle.
LEMMA ReturnStep ==
  ASSUME NEW cc, NEW cd, NEW vc, InvWith(cc, cd, vc), NEW keep \in BOOLEAN, Return(keep)
  PROVE  InvNext(cc, cd, vc)
<1>1. /\ kind \in Kinds /\ Owns(kind, heap, hdr.c, cc) /\ Rooted(heap, x, spill)
      /\ WedgeOK(kind, heap, wedge, hdr.c, cc)
      /\ PushOK(kind, heap, spill, push, clone, hdr, cc, cd)
      /\ CloneOK(kind, heap, clone, push, hdr.d, cc)
  BY DEF InvWith, Inv
<1>2. /\ push.pc = "return" /\ push.to = "c" /\ x' \in {x, NULL} /\ spill' = {} /\ push' = Idle
      /\ keep = TRUE => kind # "dvec" /\ wedge' = [slot |-> push.slot, i |-> hdr.c.len - 1, gone |-> FALSE]
      /\ keep = FALSE => wedge' = wedge
      /\ kind' = kind /\ heap' = heap /\ hdr' = hdr /\ clone' = clone
      /\ view' = view /\ lval' = lval
  BY DEF Return
<1>3. clone.pc = "idle" /\ Pushing(kind, heap, push, hdr.c, cc)
  BY <1>1, <1>2 DEF PushOK
<1>4. WedgeOK(kind, heap, wedge', hdr.c, cc)
  <2>1. CASE keep = FALSE
    BY <2>1, <1>1, <1>2
  <2>2. CASE keep = TRUE
    <3>1. /\ hdr.c.len > 0 /\ hdr.c.len \in Nat /\ push.slot = SlotOf(cc, hdr.c.len - 1)
          /\ Linked(kind, heap, cc) /\ hdr.c.len = Count(heap, cc)
      BY <2>2, <1>1, <1>2, <1>3, Numbers DEF Pushing, Owns, Leads, IsHeader
    <3>2. PICK k \in Nat : k = hdr.c.len - 1 /\ k < hdr.c.len
      BY <3>1
    <3>3. /\ SlotOf(cc, k)[1] \in Addr /\ ChunkOK(heap, SlotOf(cc, k)[1])
          /\ SlotOf(cc, k)[2] \in 1..N /\ SlotOf(cc, k)[2] <= heap[SlotOf(cc, k)[1]].used
      BY <3>1, <3>2, SlotFilled
    <3>4. PICK w : w = [slot |-> SlotOf(cc, k), i |-> k, gone |-> FALSE]
      OBVIOUS
    <3>5. w.slot = SlotOf(cc, k) /\ w.i = k /\ w.gone = FALSE
      BY <3>4
    <3>6. w = [slot |-> w.slot, i |-> w.i, gone |-> w.gone]
      BY <3>4, <3>5, Zenon
    <3>7. WedgeOK(kind, heap, w, hdr.c, cc)
      BY <2>2, <1>2, <3>2, <3>3, <3>5, <3>6 DEF WedgeOK
    <3>8. wedge' = w
      BY <2>2, <1>2, <3>1, <3>2, <3>4
    <3>9. QED BY <3>7, <3>8
  <2>3. QED BY <2>1, <2>2
<1>5. Rooted(heap, x', spill')
  BY <1>1, <1>2 DEF Rooted, Item
<1>6. PushOK(kind, heap, spill', push', clone, hdr, cc, cd)
  BY <1>2 DEF PushOK, Idle
<1>7. CloneOK(kind, heap, clone, push', hdr.d, cc)
  BY <1>1, <1>3 DEF CloneOK
<1>8. QED BY <1>2, <1>4, <1>5, <1>6, <1>7 DEF InvWith, InvNext, Inv

\* The handle's scope ends.
LEMMA ForgetStep ==
  ASSUME NEW cc, NEW cd, NEW vc, InvWith(cc, cd, vc), Forget
  PROVE  InvNext(cc, cd, vc)
<1>1. WedgeOK(kind, heap, NoWedge, hdr.c, cc)
  BY DEF WedgeOK, NoWedge
<1>2. QED BY <1>1 DEF Forget, InvWith, InvNext, Inv

\* The address of an assignment is taken.
LEMMA ResolveStep ==
  ASSUME NEW cc, NEW cd, NEW vc, InvWith(cc, cd, vc), NEW i \in Indexed, Resolve(i)
  PROVE  InvNext(cc, cd, vc)
<1>1. /\ kind \in Kinds /\ Owns(kind, heap, hdr.c, cc) /\ Disjoint(cc, cd)
      /\ kind # "tablets" => hdr.d = EmptyHeader
      /\ Owns(kind, heap, hdr.d, cd)
  BY DEF InvWith, Inv
<1>2. /\ i >= 0 /\ i < hdr.c.len
      /\ lval' = [on |-> TRUE, slot |-> SlotAt(hdr.c, i), i |-> i, moved |-> FALSE, gone |-> FALSE]
      /\ kind' = kind /\ heap' = heap /\ hdr' = hdr /\ clone' = clone /\ x' = x /\ spill' = spill
      /\ wedge' = wedge /\ view' = view /\ push' = push
  BY DEF Resolve, InBounds
<1>3. PICK k \in Nat : k = i
  BY <1>2, Numbers DEF Indexed
<1>4. Linked(kind, heap, cc) /\ Leads(kind, heap, hdr.c, cc) /\ hdr.c.len \in Nat /\ hdr.c.cap \in Nat
  BY <1>1, Numbers DEF Owns, Leads, IsHeader
<1>5. /\ kind = "dvec" => SlotAt(hdr.c, k) = <<hdr.c.buf, k + 1>>
      /\ kind # "dvec" => SlotAt(hdr.c, k) = SlotOf(cc, k) /\ k < Count(heap, cc)
  BY <1>1, <1>2, <1>3, <1>4, SlotAtIs
<1>6. PICK s : s = SlotAt(hdr.c, k)
  OBVIOUS
<1>7. s[1] \in Addr /\ heap[s[1]].is # "free" /\ s[1] \notin Range(cd)
  <2>1. CASE kind = "dvec"
    <3>1. BufferOK(heap, hdr.c) /\ hdr.c.buf \in Addr \cup {NULL}
      BY <2>1, <1>4 DEF Leads, IsHeader
    <3>2. hdr.c.buf # NULL
      BY <3>1, <1>2, <1>3, <1>4 DEF BufferOK
    <3>3. hdr.c.buf \in Addr /\ heap[hdr.c.buf].is = "buffer"
      BY <3>1, <3>2 DEF BufferOK
    <3>4. cd = << >>
      BY <2>1, <1>1 DEF Owns, Linked
    <3>5. QED BY <2>1, <1>5, <1>6, <3>3, <3>4, RangeEmpty
  <2>2. CASE kind # "dvec"
    <3>1. s = SlotOf(cc, k) /\ k < Count(heap, cc)
      BY <2>2, <1>5, <1>6
    <3>2. Place(k) \in 1..Len(cc) /\ s[1] = cc[Place(k)] /\ ChunkOK(heap, cc[Place(k)])
      BY <3>1, <1>4, SlotFilled
    <3>a. cc \in Seq(Addr)
      BY <1>4 DEF Linked
    <3>3. s[1] \in Range(cc)
      BY <3>2, <3>a DEF Range
    <3>4. QED BY <3>2, <3>3, <1>1 DEF ChunkOK, Disjoint
  <2>3. QED BY <2>1, <2>2
<1>8. LvalOK(kind, heap, lval', hdr.c, cc, cd)
  <2>1. lval' = [on |-> TRUE, slot |-> s, i |-> k, moved |-> FALSE, gone |-> FALSE]
    BY <1>2, <1>3, <1>6
  <2>2. lval'.on = TRUE /\ lval'.slot = s /\ lval'.i = k /\ lval'.moved = FALSE
    BY <2>1
  <2>3. lval' = [on |-> lval'.on, slot |-> lval'.slot, i |-> lval'.i, moved |-> lval'.moved, gone |-> lval'.gone]
    BY <2>1, <2>2, Zenon
  <2>4. QED BY <1>2, <1>3, <1>5, <1>6, <1>7, <2>2, <2>3 DEF LvalOK
<1>9. QED BY <1>2, <1>8 DEF InvWith, InvNext, Inv

\* A loop begins.
LEMMA ForBeginStep ==
  ASSUME NEW cc, NEW cd, NEW vc, InvWith(cc, cd, vc), ForBegin
  PROVE  InvNext(cc, cd, cc)
<1>1. /\ kind \in Kinds /\ Owns(kind, heap, hdr.c, cc) /\ Disjoint(cc, cd)
      /\ ViewOK(kind, heap, view, hdr.c, cc, cd, vc)
  BY DEF InvWith, Inv
<1>2. /\ view' = [on |-> TRUE, h |-> hdr.c, i |-> 0, grown |-> FALSE, gone |-> FALSE]
      /\ kind' = kind /\ heap' = heap /\ hdr' = hdr /\ clone' = clone /\ x' = x /\ spill' = spill
      /\ wedge' = wedge /\ lval' = lval /\ push' = push
  BY DEF ForBegin, NoView
<1>3. /\ view'.on = TRUE /\ view'.h = hdr.c /\ view'.i = 0 /\ view'.grown = FALSE /\ view'.gone = FALSE
  BY <1>2
<1>4. view' = [on |-> view'.on, h |-> view'.h, i |-> view'.i, grown |-> view'.grown, gone |-> view'.gone]
  BY <1>2, <1>3, Zenon
<1>5. /\ Linked(kind, heap, cc) /\ Leads(kind, heap, hdr.c, cc) /\ hdr.c.len \in Nat
      /\ \A a \in Ptrs(kind, hdr.c) : a = NULL \/ Live(heap, a)
  <2>1. Linked(kind, heap, cc) /\ Leads(kind, heap, hdr.c, cc) /\ hdr.c.len \in Nat
    BY <1>1, Numbers DEF Owns, Leads, IsHeader
  <2>2. PICK h : h = hdr.c
    OBVIOUS
  <2>3. \A a \in Ptrs(kind, h) : a = NULL \/ Live(heap, a)
    BY <1>1, <2>2, OwnLive
  <2>4. QED BY <2>1, <2>2, <2>3
<1>6. ViewOK(kind, heap, view', hdr.c, cc, cd, cc)
  <2>1. PICK v : v = view'
    OBVIOUS
  <2>2. /\ v = [on |-> v.on, h |-> v.h, i |-> v.i, grown |-> v.grown, gone |-> v.gone]
        /\ v.on = TRUE /\ v.h = hdr.c /\ v.grown = FALSE /\ v.gone = FALSE
    BY <2>1, <1>3, <1>4, Zenon
  <2>3. Disjoint(cc, cd)
    BY <1>1
  <2>a. v.on \in BOOLEAN /\ v.grown \in BOOLEAN /\ v.gone \in BOOLEAN
    BY <2>2
  <2>b. v.on # FALSE /\ v.gone # TRUE
    BY <2>2
  <2>c. Linked(kind, heap, cc) /\ Leads(kind, heap, v.h, cc)
    BY <1>5, <2>2
  <2>d. \A a \in Ptrs(kind, v.h) : a = NULL \/ Live(heap, a)
    BY <1>5, <2>2
  <2>e. v.h.len <= hdr.c.len /\ v.h.buf = hdr.c.buf
    BY <1>5, <2>2
  <2>4. ViewOK(kind, heap, v, hdr.c, cc, cd, cc)
    BY <2>2, <2>3, <2>a, <2>b, <2>c, <2>d, <2>e DEF ViewOK
  <2>5. QED BY <2>1, <2>4
<1>7. QED BY <1>2, <1>6 DEF InvWith, InvNext, Inv

\* It goes on.
LEMMA ForNextStep ==
  ASSUME NEW cc, NEW cd, NEW vc, InvWith(cc, cd, vc), ForNext
  PROVE  InvNext(cc, cd, vc)
<1>1. ViewOK(kind, heap, view, hdr.c, cc, cd, vc)
  BY DEF InvWith, Inv
<1>2. /\ view' = [view EXCEPT !.i = @ + 1]
      /\ kind' = kind /\ heap' = heap /\ hdr' = hdr /\ clone' = clone /\ x' = x /\ spill' = spill
      /\ wedge' = wedge /\ lval' = lval /\ push' = push
  BY DEF ForNext
<1>3. view = [on |-> view.on, h |-> view.h, i |-> view.i, grown |-> view.grown, gone |-> view.gone]
  BY <1>1 DEF ViewOK
<1>4. view' = [on |-> view.on, h |-> view.h, i |-> view.i + 1, grown |-> view.grown, gone |-> view.gone]
  BY <1>2, <1>3
<1>5. view'.on = view.on /\ view'.h = view.h /\ view'.i = view.i + 1 /\ view'.grown = view.grown
      /\ view'.gone = view.gone
  BY <1>4
<1>6. view' = [on |-> view'.on, h |-> view'.h, i |-> view'.i, grown |-> view'.grown, gone |-> view'.gone]
  BY <1>4, <1>5, Zenon
<1>7. ViewOK(kind, heap, view', hdr.c, cc, cd, vc)
  BY <1>1, <1>5, <1>6 DEF ViewOK
<1>8. QED BY <1>2, <1>7 DEF InvWith, InvNext, Inv

\* It ends.
LEMMA ForEndStep ==
  ASSUME NEW cc, NEW cd, NEW vc, InvWith(cc, cd, vc), ForEnd
  PROVE  InvNext(cc, cd, cc)
<1>1. /\ kind \in Kinds /\ Owns(kind, heap, hdr.c, cc) /\ Disjoint(cc, cd)
  BY DEF InvWith, Inv
<1>2. Linked(kind, heap, cc) /\ hdr.c.len \in Nat
  BY <1>1, Numbers DEF Owns, Leads, IsHeader
<1>3. Leads(kind, heap, EmptyHeader, cc)
  BY <1>2, EmptyLeads
<1>4. \A a \in Ptrs(kind, EmptyHeader) : a = NULL
  BY <1>1, KindsAssumption DEF Ptrs, EmptyHeader
<1>5. ViewOK(kind, heap, NoView, hdr.c, cc, cd, cc)
  BY <1>1, <1>2, <1>3, <1>4 DEF ViewOK, NoView, EmptyHeader
<1>6. QED BY <1>5 DEF ForEnd, InvWith, InvNext, Inv

\* The container is released.
LEMMA ReleaseStep ==
  ASSUME NEW cc, NEW cd, NEW vc, InvWith(cc, cd, vc), Release
  PROVE  InvNext(<< >>, cd, IF view.gone = TRUE \/ view.h.len > 0 THEN vc ELSE << >>)
<1> DEFINE vc2 == IF view.gone = TRUE \/ view.h.len > 0 THEN vc ELSE << >>
<1>1. /\ kind \in Kinds /\ Owns(kind, heap, hdr.c, cc) /\ Disjoint(cc, cd)
      /\ hdr = [c |-> hdr.c, d |-> hdr.d]
      /\ ViewOK(kind, heap, view, hdr.c, cc, cd, vc)
      /\ WedgeOK(kind, heap, wedge, hdr.c, cc) /\ LvalOK(kind, heap, lval, hdr.c, cc, cd)
      /\ PushOK(kind, heap, spill, push, clone, hdr, cc, cd)
      /\ CloneOK(kind, heap, clone, push, hdr.d, cc)
  BY DEF InvWith, Inv
<1>2. /\ push.pc = "idle" /\ clone.pc = "idle"
      /\ hdr' = [hdr EXCEPT !.c = EmptyHeader]
      /\ lval' = [lval EXCEPT !.moved = lval.on, !.gone = lval.on]
      /\ view' = [view EXCEPT !.gone = view.on]
      /\ wedge' = [wedge EXCEPT !.gone = wedge # NoWedge]
      /\ kind' = kind /\ heap' = heap /\ clone' = clone /\ x' = x /\ spill' = spill /\ push' = push
  BY DEF Release, Running
<1>3. hdr'.c = EmptyHeader /\ hdr'.d = hdr.d /\ hdr' = [c |-> hdr'.c, d |-> hdr'.d]
  BY <1>1, <1>2
<1>4. /\ Owns(kind, heap, EmptyHeader, << >>) /\ Linked(kind, heap, << >>) /\ Range(<< >>) = {}
      /\ EmptyHeader.buf = NULL
  BY EmptyOwns DEF EmptyHeader
<1>5. Disjoint(<< >>, cd)
  BY <1>4 DEF Disjoint
<1>6. ViewOK(kind, heap, view', EmptyHeader, << >>, cd, vc2)
  <2>1. view = [on |-> view.on, h |-> view.h, i |-> view.i, grown |-> view.grown, gone |-> view.gone]
    BY <1>1 DEF ViewOK
  <2>2. view' = [on |-> view.on, h |-> view.h, i |-> view.i, grown |-> view.grown, gone |-> view.on]
    BY <1>2, <2>1
  <2>3. PICK v : v = view'
    OBVIOUS
  <2>4. /\ v = [on |-> v.on, h |-> v.h, i |-> v.i, grown |-> v.grown, gone |-> v.gone]
        /\ v.on = view.on /\ v.h = view.h /\ v.grown = view.grown /\ v.gone = view.on
    BY <2>2, <2>3
  <2>5. /\ view.on \in BOOLEAN /\ view.grown \in BOOLEAN /\ view.gone \in BOOLEAN
        /\ view.on = FALSE => view.h = EmptyHeader /\ view.grown = FALSE /\ view.gone = FALSE
        /\ Linked(kind, heap, vc) /\ Leads(kind, heap, view.h, vc) /\ Disjoint(vc, cd)
        /\ \A a \in Ptrs(kind, view.h) : a = NULL \/ Live(heap, a)
        /\ view.gone = TRUE => (vc # << >> => view.h.head = vc[1])
    BY <1>1 DEF ViewOK
  <2>6. view.h.len \in Nat
    BY <2>5, Numbers DEF Leads, IsHeader
  <2>7. Linked(kind, heap, vc2) /\ Disjoint(vc2, cd) /\ Disjoint(vc2, << >>)
    BY <2>5, <1>4, <1>5 DEF Disjoint
  <2>8. Leads(kind, heap, view.h, vc2)
    <3>1. CASE view.gone = TRUE \/ view.h.len > 0
      BY <3>1, <2>5
    <3>2. CASE ~(view.gone = TRUE \/ view.h.len > 0)
      <4>1. view.h.len = 0
        BY <3>2, <2>6
      <4>2. PICK h : h = view.h
        OBVIOUS
      <4>3. Leads(kind, heap, h, << >>)
        BY <4>1, <4>2, <2>5, LeadsNothing
      <4>4. QED BY <3>2, <4>2, <4>3
    <3>3. QED BY <3>1, <3>2
  <2>9. vc2 # << >> => view.h.head = vc2[1]
    <3>1. SUFFICES ASSUME vc2 # << >> PROVE view.h.head = vc2[1]
      OBVIOUS
    <3>2. vc2 = vc
      BY <3>1
    <3>3. CASE view.gone = TRUE
      BY <3>1, <3>2, <3>3, <2>5
    <3>4. CASE view.gone # TRUE
      <4>1. view.h.len > 0
        BY <3>1, <3>4
      <4>2. kind # "dvec"
        BY <3>1, <3>2, <2>5 DEF Linked
      <4>3. QED BY <3>2, <4>1, <4>2, <2>5 DEF Leads
    <3>5. QED BY <3>3, <3>4
  <2>10. view.on = FALSE => vc2 = << >>
    BY <2>5 DEF EmptyHeader
  <2>11. EmptyHeader.len = 0 /\ (view.on = FALSE => view.h.len = 0)
    BY <2>5 DEF EmptyHeader
  <2> HIDE DEF vc2
  <2>12. ViewOK(kind, heap, v, EmptyHeader, << >>, cd, vc2)
    BY <2>4, <2>5, <2>7, <2>8, <2>9, <2>10, <2>11, <1>4 DEF ViewOK
  <2>13. QED BY <2>3, <2>12
<1>7. WedgeOK(kind, heap, wedge', EmptyHeader, << >>)
  <2>1. wedge = [slot |-> wedge.slot, i |-> wedge.i, gone |-> wedge.gone]
    BY <1>1 DEF WedgeOK
  <2>2. CASE wedge = NoWedge
    <3>1. wedge' = NoWedge
      BY <2>2, <1>2 DEF NoWedge
    <3>2. QED BY <3>1 DEF WedgeOK, NoWedge
  <2>3. CASE wedge # NoWedge
    <3>1. wedge' = [slot |-> wedge.slot, i |-> wedge.i, gone |-> TRUE]
      BY <2>1, <2>3, <1>2
    <3>2. PICK w : w = wedge'
      OBVIOUS
    <3>3. w.slot = wedge.slot /\ w.i = wedge.i /\ w.gone = TRUE
          /\ w = [slot |-> w.slot, i |-> w.i, gone |-> w.gone]
      BY <3>1, <3>2
    <3>4. /\ kind # "dvec" /\ wedge.i \in Nat /\ ChunkOK(heap, wedge.slot[1])
          /\ wedge.slot[2] \in 1..N /\ wedge.slot[2] <= heap[wedge.slot[1]].used
      BY <2>3, <1>1 DEF WedgeOK
    <3>5. WedgeOK(kind, heap, w, EmptyHeader, << >>)
      BY <3>3, <3>4 DEF WedgeOK
    <3>6. QED BY <3>2, <3>5
  <2>4. QED BY <2>2, <2>3
<1>8. LvalOK(kind, heap, lval', EmptyHeader, << >>, cd)
  <2>1. lval = [on |-> lval.on, slot |-> lval.slot, i |-> lval.i, moved |-> lval.moved, gone |-> lval.gone]
        /\ lval.on \in BOOLEAN
        /\ (lval.on = TRUE => lval.slot[1] \in Addr /\ heap[lval.slot[1]].is # "free"
                              /\ lval.slot[1] \notin Range(cd))
    BY <1>1 DEF LvalOK
  <2>2. lval' = [on |-> lval.on, slot |-> lval.slot, i |-> lval.i, moved |-> lval.on, gone |-> lval.on]
    BY <1>2, <2>1
  <2>3. PICK l : l = lval'
    OBVIOUS
  <2>4. l.on = lval.on /\ l.slot = lval.slot /\ l.i = lval.i /\ l.moved = lval.on /\ l.gone = lval.on
        /\ l = [on |-> l.on, slot |-> l.slot, i |-> l.i, moved |-> l.moved, gone |-> l.gone]
    BY <2>2, <2>3
  <2>5. NULL \notin Addr
    BY Numbers
  <2>6. LvalOK(kind, heap, l, EmptyHeader, << >>, cd)
    BY <2>1, <2>4, <2>5, <1>4 DEF LvalOK
  <2>7. QED BY <2>3, <2>6
<1>9. PushOK(kind, heap, spill, push, clone, hdr', << >>, cd)
  BY <1>1, <1>2 DEF PushOK
<1>10. CloneOK(kind, heap, clone, push, hdr.d, << >>)
  BY <1>1, <1>2 DEF CloneOK
<1> HIDE DEF vc2
<1>11. InvNext(<< >>, cd, vc2)
  BY <1>2, <1>3, <1>4, <1>5, <1>6, <1>7, <1>8, <1>9, <1>10 DEF InvWith, InvNext, Inv
<1>12. QED BY <1>11 DEF vc2

\* The header a clone is built in, or its end, does not concern the container.
LEMMA OtherHeader ==
  ASSUME NEW cc, NEW cd, NEW vc, InvWith(cc, cd, vc), hdr' = [hdr EXCEPT !.d = EmptyHeader],
         push.pc = "idle", push' = push, clone'.pc = "idle" \/ clone.pc = "idle",
         CloneOK(kind, heap, clone', push, EmptyHeader, cc),
         kind' = kind, heap' = heap, x' = x, spill' = spill, wedge' = wedge, view' = view, lval' = lval
  PROVE  InvNext(cc, << >>, vc)
<1>1. /\ hdr = [c |-> hdr.c, d |-> hdr.d]
      /\ ViewOK(kind, heap, view, hdr.c, cc, cd, vc) /\ LvalOK(kind, heap, lval, hdr.c, cc, cd)
      /\ PushOK(kind, heap, spill, push, clone, hdr, cc, cd)
  BY DEF InvWith, Inv
<1>2. hdr'.c = hdr.c /\ hdr'.d = EmptyHeader /\ hdr' = [c |-> hdr'.c, d |-> hdr'.d]
  BY <1>1
<1>3. Owns(kind, heap, EmptyHeader, << >>) /\ Range(<< >>) = {}
  BY EmptyOwns
<1>4. Disjoint(cc, << >>)
  BY <1>3 DEF Disjoint
<1>5. ViewOK(kind, heap, view, hdr.c, cc, << >>, vc)
  BY <1>1, <1>3 DEF ViewOK, Disjoint
<1>6. LvalOK(kind, heap, lval, hdr.c, cc, << >>)
  BY <1>1, <1>3 DEF LvalOK
<1>7. PushOK(kind, heap, spill, push, clone', hdr', cc, << >>)
  BY <1>1 DEF PushOK
<1>8. QED
  BY <1>2, <1>3, <1>4, <1>5, <1>6, <1>7 DEF InvWith, InvNext, Inv

\* A clone begins.
LEMMA CloneBeginStep ==
  ASSUME NEW cc, NEW cd, NEW vc, InvWith(cc, cd, vc), CloneBegin
  PROVE  InvNext(cc, << >>, vc)
<1>1. /\ push.pc = "idle" /\ clone.pc = "idle" /\ kind = "tablets"
      /\ hdr' = [hdr EXCEPT !.d = EmptyHeader]
      /\ clone' = [pc |-> "element", cur |-> hdr.c.head, i |-> 0, made |-> FALSE]
      /\ kind' = kind /\ heap' = heap /\ x' = x /\ spill' = spill /\ wedge' = wedge
      /\ view' = view /\ lval' = lval /\ push' = push
  BY DEF CloneBegin, Running, statement
<1>2. Owns(kind, heap, hdr.c, cc) /\ Linked(kind, heap, cc)
  BY DEF InvWith, Inv, Owns
<1>3. PICK q : q = clone'
  OBVIOUS
<1>4. /\ q.pc = "element" /\ q.cur = hdr.c.head /\ q.i = 0 /\ q.made = FALSE
      /\ q = [pc |-> q.pc, cur |-> q.cur, i |-> q.i, made |-> q.made]
  BY <1>1, <1>3
<1>5. EmptyHeader.len = 0
  BY DEF EmptyHeader
<1>6. Cursor(heap, q, push, EmptyHeader, cc, 1)
  <2>1. CASE cc = << >>
    <3>1. Len(cc) + 1 = 1 /\ Count(heap, cc) = 0 /\ hdr.c.head = NULL
      BY <2>1, <1>2, CountIs DEF Owns
    <3>2. QED BY <3>1, <1>1, <1>4, <1>5 DEF Cursor, Before
  <2>2. CASE cc # << >>
    <3>1. Len(cc) \in Nat \ {0} /\ hdr.c.head = cc[1] /\ 1 \in 1..Len(cc)
      BY <2>2, <1>2, CountIs DEF Owns
    <3>2. Len(cc) + 1 # 1 /\ First(1) = 0
      BY <3>1, FirstGoes
    <3>3. heap[cc[1]].used \in 0..N /\ N \in Nat
      BY <3>1, <1>2, Numbers DEF Linked, ChunkOK
    <3>4. QED BY <3>1, <3>2, <3>3, <1>1, <1>4, <1>5 DEF Cursor, Before
  <2>3. QED BY <2>1, <2>2
<1>7. 1 \in 1..(Len(cc) + 1)
  BY <1>2, CountIs
<1>8. CloneOK(kind, heap, q, push, EmptyHeader, cc)
  <2>1. \E j \in 1..(Len(cc) + 1) : Cursor(heap, q, push, EmptyHeader, cc, j)
    BY <1>6, <1>7
  <2>2. 0 \in Nat /\ FALSE \in BOOLEAN
    OBVIOUS
  <2>3. QED BY <1>1, <1>4, <2>1, <2>2 DEF CloneOK
<1>9. QED BY <1>1, <1>3, <1>8, OtherHeader

\* Its scope ends.
LEMMA CloneDropStep ==
  ASSUME NEW cc, NEW cd, NEW vc, InvWith(cc, cd, vc), CloneDrop
  PROVE  InvNext(cc, << >>, vc)
<1>1. CloneOK(kind, heap, NoClone, push, EmptyHeader, cc) /\ NoClone.pc = "idle"
  BY DEF CloneOK, NoClone
<1>2. /\ push.pc = "idle" /\ clone.pc = "idle"
      /\ hdr' = [hdr EXCEPT !.d = EmptyHeader] /\ clone' = NoClone
      /\ kind' = kind /\ heap' = heap /\ x' = x /\ spill' = spill /\ wedge' = wedge
      /\ view' = view /\ lval' = lval /\ push' = push
  BY DEF CloneDrop, Running, statement
<1>3. QED BY <1>1, <1>2, OtherHeader

\* A push of the clone returns.
LEMMA CloneReturnStep ==
  ASSUME NEW cc, NEW cd, NEW vc, InvWith(cc, cd, vc), CloneReturn
  PROVE  InvNext(cc, cd, vc)
<1>1. /\ Rooted(heap, x, spill) /\ PushOK(kind, heap, spill, push, clone, hdr, cc, cd)
      /\ CloneOK(kind, heap, clone, push, hdr.d, cc) /\ Owns(kind, heap, hdr.c, cc)
  BY DEF InvWith, Inv
<1>2. /\ push.pc = "return" /\ push.to = "d" /\ clone' = [clone EXCEPT !.i = @ + 1]
      /\ spill' = {} /\ push' = Idle
      /\ kind' = kind /\ heap' = heap /\ hdr' = hdr /\ x' = x /\ wedge' = wedge
      /\ view' = view /\ lval' = lval
  BY DEF CloneReturn, statement
<1>3. clone.pc = "element"
  BY <1>1, <1>2 DEF PushOK, CloneOK
<1>4. PICK q : q = clone'
  OBVIOUS
<1>5. /\ q.pc = clone.pc /\ q.cur = clone.cur /\ q.i = clone.i + 1 /\ q.made = clone.made
      /\ q = [pc |-> q.pc, cur |-> q.cur, i |-> q.i, made |-> q.made] /\ clone.i \in Nat
  BY <1>1, <1>2, <1>4 DEF CloneOK
<1>6. PICK j \in 1..(Len(cc) + 1) : Cursor(heap, clone, push, hdr.d, cc, j)
  BY <1>1, <1>3 DEF CloneOK
<1>7. j # Len(cc) + 1
  BY <1>2, <1>6 DEF Cursor
<1>8. Before(heap, cc, j) = First(j) /\ First(j) \in Nat /\ Linked(kind, heap, cc)
  <2>1. Linked(kind, heap, cc) /\ Before(heap, cc, j) = First(j)
    BY <1>1, <1>7 DEF Before, Owns
  <2>2. Len(cc) \in Nat
    BY <2>1, CountIs
  <2>3. j \in Nat \ {0}
    BY <2>2
  <2>4. First(j) \in Nat
    BY <2>3, FirstGoes
  <2>5. QED BY <2>1, <2>4
<1>9. heap[cc[j]].used \in 0..N /\ N \in Nat
  <2>1. j \in 1..Len(cc)
    BY <1>7, <1>8, CountIs
  <2>2. QED BY <2>1, <1>8, Numbers DEF Linked, ChunkOK
<1>10. Idle.pc = "idle"
  BY DEF Idle
<1>11. Cursor(heap, q, Idle, hdr.d, cc, j)
  BY <1>2, <1>5, <1>6, <1>7, <1>8, <1>9, <1>10 DEF Cursor
<1>12. CloneOK(kind, heap, q, Idle, hdr.d, cc)
  BY <1>1, <1>3, <1>5, <1>11 DEF CloneOK
<1>13. Rooted(heap, x, {})
  BY <1>1 DEF Rooted
<1>14. PushOK(kind, heap, {}, Idle, q, hdr, cc, cd)
  BY DEF PushOK, Idle
<1>15. QED BY <1>2, <1>4, <1>12, <1>13, <1>14 DEF InvWith, InvNext, Inv

\* It goes on to the next chunk.
LEMMA CloneAdvanceStep ==
  ASSUME NEW cc, NEW cd, NEW vc, InvWith(cc, cd, vc), CloneAdvance
  PROVE  InvNext(cc, cd, vc)
<1>1. /\ PushOK(kind, heap, spill, push, clone, hdr, cc, cd)
      /\ CloneOK(kind, heap, clone, push, hdr.d, cc) /\ Linked(kind, heap, cc)
  BY DEF InvWith, Inv, Owns
<1>2. /\ clone.pc = "element" /\ push.pc = "idle" /\ clone.cur # NULL
      /\ clone.i = heap[clone.cur].used
      /\ clone' = [clone EXCEPT !.cur = heap[clone.cur].next, !.i = 0]
      /\ kind' = kind /\ heap' = heap /\ hdr' = hdr /\ x' = x /\ spill' = spill /\ wedge' = wedge
      /\ view' = view /\ lval' = lval /\ push' = push
  BY DEF CloneAdvance, statement
<1>3. PICK q : q = clone'
  OBVIOUS
<1>4. clone = [pc |-> clone.pc, cur |-> clone.cur, i |-> clone.i, made |-> clone.made]
  BY <1>1 DEF CloneOK
<1>5. /\ q.pc = clone.pc /\ q.cur = heap[clone.cur].next /\ q.i = 0 /\ q.made = clone.made
      /\ q = [pc |-> q.pc, cur |-> q.cur, i |-> q.i, made |-> q.made]
  BY <1>2, <1>3, <1>4
<1>6. PICK j \in 1..(Len(cc) + 1) : Cursor(heap, clone, push, hdr.d, cc, j)
  BY <1>1, <1>2 DEF CloneOK
<1>7. j # Len(cc) + 1 /\ clone.cur = cc[j]
  BY <1>2, <1>6 DEF Cursor
<1>8. Len(cc) \in Nat /\ j \in 1..Len(cc) /\ j + 1 \in 1..(Len(cc) + 1)
  BY <1>1, <1>7, CountIs
<1>9. /\ First(j) \in Nat /\ First(j + 1) = First(j) + N /\ heap[cc[j]].used \in 0..N /\ N \in Nat
  <2>1. j \in Nat \ {0}
    BY <1>8
  <2>2. First(j) \in Nat /\ First(j + 1) = First(j) + N
    BY <2>1, FirstGoes
  <2>3. heap[cc[j]].used \in 0..N
    BY <1>1, <1>8 DEF Linked, ChunkOK
  <2>4. QED BY <2>2, <2>3, Numbers
<1>10. hdr.d.len = First(j) + heap[cc[j]].used
  BY <1>2, <1>6, <1>7 DEF Cursor, Before
<1>11. Cursor(heap, q, push, hdr.d, cc, j + 1)
  <2>1. CASE j < Len(cc)
    <3>1. heap[cc[j]].next = cc[j + 1] /\ heap[cc[j]].used = N
      BY <2>1, <1>1, <1>8 DEF Linked
    <3>2. j + 1 # Len(cc) + 1 /\ j + 1 \in 1..Len(cc)
      BY <2>1, <1>8
    <3>3. heap[cc[j + 1]].used \in 0..N
      BY <3>2, <1>1 DEF Linked, ChunkOK
    <3>4. QED BY <3>1, <3>2, <3>3, <1>2, <1>5, <1>7, <1>9, <1>10 DEF Cursor, Before
  <2>2. CASE ~(j < Len(cc))
    <3>1. j = Len(cc) /\ cc # << >>
      BY <2>2, <1>8
    <3>2. heap[cc[j]].next = NULL /\ Count(heap, cc) = First(j) + heap[cc[j]].used
      BY <3>1, <1>1 DEF Linked, Count
    <3>3. QED BY <3>1, <3>2, <1>2, <1>5, <1>7, <1>9, <1>10 DEF Cursor, Before
  <2>3. QED BY <2>1, <2>2
<1>12. CloneOK(kind, heap, q, push, hdr.d, cc)
  BY <1>1, <1>2, <1>5, <1>8, <1>11 DEF CloneOK
<1>13. PushOK(kind, heap, spill, push, q, hdr, cc, cd)
  BY <1>1, <1>2 DEF PushOK
<1>14. QED BY <1>2, <1>3, <1>12, <1>13 DEF InvWith, InvNext, Inv

\* It ends.
LEMMA CloneEndStep ==
  ASSUME NEW cc, NEW cd, NEW vc, InvWith(cc, cd, vc), CloneEnd
  PROVE  InvNext(cc, cd, vc)
<1>1. PushOK(kind, heap, spill, push, clone, hdr, cc, cd)
  BY DEF InvWith, Inv
<1>2. /\ push.pc = "idle" /\ clone' = [NoClone EXCEPT !.made = TRUE]
      /\ kind' = kind /\ heap' = heap /\ hdr' = hdr /\ x' = x /\ spill' = spill /\ wedge' = wedge
      /\ view' = view /\ lval' = lval /\ push' = push
  BY DEF CloneEnd, statement
<1>3. clone' = [pc |-> "idle", cur |-> NULL, i |-> 0, made |-> TRUE]
  BY <1>2 DEF NoClone
<1>4. CloneOK(kind, heap, clone', push, hdr.d, cc)
  BY <1>3 DEF CloneOK
<1>5. PushOK(kind, heap, spill, push, clone', hdr, cc, cd)
  BY <1>1, <1>2 DEF PushOK
<1>6. QED BY <1>2, <1>4, <1>5 DEF InvWith, InvNext, Inv


-----------------------------------------------------------------------------
(* Steps that allocate.                                                     *)

\* The invariant of the state reached so far is the one of the heap after the
\* collection and the allocation.
LEMMA AllocatedIs ==
  ASSUME NEW cc, NEW cd, NEW vc, InvWith(cc, cd, vc), NEW b, IsBlock(b), CanAllocate,
         NEW hp, hp = [Collected EXCEPT ![Fresh] = b]
  PROVE  /\ AllocatedAt(hp, Fresh, b)
         /\ Inv(kind, hp, hdr, x, spill, wedge, view, lval, push, clone, cc, cd, vc)
<1>1. kind \in Kinds /\ Shape(heap)
  BY DEF InvWith, Inv
<1>2. AllocatedAt(hp, Fresh, b)
  BY <1>1, AllocationIs
<1>3. PICK n : n = Fresh
  OBVIOUS
<1>4. AllocatedAt(hp, n, b)
  BY <1>2, <1>3
<1>5. Inv(kind, hp, hdr, x, spill, wedge, view, lval, push, clone, cc, cd, vc)
  BY <1>4, AllocationKeeps
<1>6. QED BY <1>2, <1>5

\* The blocks are blocks.
LEMMA StringIs ==
  ASSUME NEW t
  PROVE  IsBlock(String(t)) /\ String(t).is = "string"
<1>1. String(t) = [is |-> "string", items |-> << >>, used |-> 0, next |-> NULL, text |-> t]
  <2>1. PICK f : f = FreeBlock
    OBVIOUS
  <2>2. f = [is |-> "free", items |-> << >>, used |-> 0, next |-> NULL, text |-> NULL]
    BY <2>1 DEF FreeBlock
  <2>3. String(t) = [f EXCEPT !.is = "string", !.text = t]
    BY <2>1 DEF String
  <2>4. PICK r : r = [f EXCEPT !.is = "string"]
    OBVIOUS
  <2>5. r = [is |-> "string", items |-> << >>, used |-> 0, next |-> NULL, text |-> NULL]
    BY <2>2, <2>4
  <2>6. String(t) = [r EXCEPT !.text = t]
    BY <2>3, <2>4
  <2>7. QED BY <2>5, <2>6
<1>2. PICK b : b = String(t)
  OBVIOUS
<1>3. /\ b.is = "string" /\ b.items = << >> /\ b.used = 0 /\ b.next = NULL /\ b.text = t
      /\ b = [is |-> b.is, items |-> b.items, used |-> b.used, next |-> b.next, text |-> b.text]
  BY <1>1, <1>2
<1>4. QED BY <1>2, <1>3 DEF IsBlock, Sorts

\* A string is made.
LEMMA NewStringStep ==
  ASSUME NEW cc, NEW cd, NEW vc, InvWith(cc, cd, vc), NewString
  PROVE  InvNext(cc, cd, vc)
<1>1. /\ CanAllocate /\ heap' = [Collected EXCEPT ![Fresh] = String(Fresh)] /\ x' = Fresh
      /\ kind' = kind /\ hdr' = hdr /\ spill' = spill /\ wedge' = wedge /\ view' = view
      /\ lval' = lval /\ push' = push /\ clone' = clone
  BY DEF NewString, Allocated, statement
<1>2. PICK b : b = String(Fresh)
  OBVIOUS
<1>3. PICK hp : hp = heap'
  OBVIOUS
<1>4. IsBlock(b) /\ b.is = "string"
  BY <1>2, StringIs
<1>5. hp = [Collected EXCEPT ![Fresh] = b]
  BY <1>1, <1>2, <1>3
<1>6. /\ AllocatedAt(hp, Fresh, b)
      /\ Inv(kind, hp, hdr, x, spill, wedge, view, lval, push, clone, cc, cd, vc)
  BY <1>1, <1>4, <1>5, AllocatedIs
<1>7. Rooted(hp, x', spill)
  <2>1. Rooted(hp, x, spill)
    BY <1>6 DEF Inv
  <2>2. IsString(hp, Fresh)
    BY <1>4, <1>6 DEF AllocatedAt, IsString
  <2>3. QED BY <1>1, <2>1, <2>2 DEF Rooted, Item
<1>8. QED BY <1>1, <1>3, <1>6, <1>7 DEF Inv, InvNext

\* A copy of an element is made and its push called.
LEMMA PushCopyStep ==
  ASSUME NEW cc, NEW cd, NEW vc, InvWith(cc, cd, vc), NEW i \in CopyFrom, PushCopy(i)
  PROVE  InvNext(cc, cd, vc)
<1> DEFINE e == ItemAt(SlotAt(hdr.c, i))
<1>1. /\ push.pc = "idle" /\ clone.pc = "idle" /\ i >= 0 /\ i < hdr.c.len /\ hdr["c"].len < MaxLen
      /\ CanAllocate /\ heap' = [Collected EXCEPT ![Fresh] = String(heap[e].text)]
      /\ spill' = {e, Fresh} /\ Call("c", Fresh, FALSE)
      /\ kind' = kind /\ hdr' = hdr /\ x' = x /\ wedge' = wedge /\ view' = view
      /\ lval' = lval /\ clone' = clone
  BY DEF PushCopy, MayPush, Running, InBounds, Allocated, statement
<1>2. /\ kind \in Kinds /\ Owns(kind, heap, hdr.c, cc) /\ Linked(kind, heap, cc)
      /\ Leads(kind, heap, hdr.c, cc)
      /\ PushOK(kind, heap, spill, push, clone, hdr, cc, cd)
      /\ CloneOK(kind, heap, clone, push, hdr.d, cc)
  BY DEF InvWith, Inv, Owns
<1>3. i \in Nat
  BY <1>1, SizesAssumption
<1>4. PICK b : b = String(heap[e].text)
  OBVIOUS
<1>5. PICK hp : hp = heap'
  OBVIOUS
<1>6. PICK h : h = hdr.c
  OBVIOUS
<1>7. IsBlock(b) /\ b.is = "string"
  BY <1>4, StringIs
<1>8. hp = [Collected EXCEPT ![Fresh] = b]
  BY <1>1, <1>4, <1>5
<1>9. /\ AllocatedAt(hp, Fresh, b)
      /\ Inv(kind, hp, hdr, x, spill, wedge, view, lval, push, clone, cc, cd, vc)
  BY <1>1, <1>7, <1>8, AllocatedIs
<1>10. Kept(heap, hp, Reached) /\ Spans(heap, Reached, cc)
       /\ BufSpans(kind, heap, Reached, h)
  BY <1>6, <1>9, HeldReached DEF AllocatedAt
<1>11. PICK s : s = ItemAt(SlotAt(h, i))
  OBVIOUS
<1>12. s = e
  BY <1>6, <1>11
<1>13. IsString(hp, s)
  <2>1. Linked(kind, heap, cc) /\ Leads(kind, heap, h, cc) /\ i < h.len
    BY <1>1, <1>2, <1>6
  <2>2. IsString(heap, s)
    BY <1>2, <1>3, <1>11, <2>1, SlotAtIs
  <2>3. s \in Reached
    BY <1>2, <1>3, <1>10, <1>11, <2>1, ItemSpanned
  <2>4. QED BY <1>10, <2>2, <2>3, KeptBlocks
<1>14. IsString(hp, Fresh)
  BY <1>7, <1>9 DEF AllocatedAt, IsString
<1>15. Rooted(hp, x, spill')
  <2>1. Rooted(hp, x, spill)
    BY <1>9 DEF Inv
  <2>2. spill' = {s, Fresh}
    BY <1>1, <1>12
  <2>3. QED BY <1>13, <1>14, <2>1, <2>2 DEF Rooted
<1>16. /\ push' = [pc |-> push'.pc, to |-> "c", val |-> Fresh, moved |-> FALSE, slot |-> NoSlot]
       /\ push'.pc \in {"grow", "chunk", "insert"}
       /\ Pushing(kind, heap, push', hdr["c"], cc)
  BY <1>1, <1>2, CallOK
<1>17. Pushing(kind, hp, push', hdr.c, cc)
  BY <1>2, <1>10, <1>16, KeptPushing
<1>18. PushOK(kind, hp, spill', push', clone, hdr, cc, cd)
  <2>1. push'.to = "c" /\ push'.val = Fresh /\ push'.moved = FALSE /\ push'.slot = NoSlot
    BY <1>16
  <2>2. push' = [pc |-> push'.pc, to |-> push'.to, val |-> push'.val, moved |-> push'.moved,
                 slot |-> push'.slot]
    BY <1>16, <2>1, Zenon
  <2>3. push'.val \in spill'
    BY <1>1, <2>1
  <2>4. QED BY <1>1, <1>16, <1>17, <2>1, <2>2, <2>3 DEF PushOK
<1>19. CloneOK(kind, hp, clone, push', hdr.d, cc)
  BY <1>1, <1>2 DEF CloneOK
<1>20. QED BY <1>1, <1>5, <1>9, <1>15, <1>18, <1>19 DEF Inv, InvNext

\* The elements before a slot of a chunk are no more than all of them.
LEMMA BeforeEnd ==
  ASSUME NEW kd, NEW hp, NEW ch, Linked(kd, hp, ch), NEW j \in 1..Len(ch)
  PROVE  /\ j \in Nat \ {0} /\ First(j) \in Nat /\ hp[ch[j]].used \in 0..N
         /\ First(j) + hp[ch[j]].used <= Count(hp, ch)
<1>1. ch # << >> /\ Len(ch) \in Nat \ {0} /\ j \in Nat \ {0}
      /\ Count(hp, ch) = First(Len(ch)) + hp[ch[Len(ch)]].used
      /\ hp[ch[Len(ch)]].used \in 0..N
  BY CountIs
<1>2. First(j) \in Nat /\ First(Len(ch)) \in Nat
  BY <1>1, FirstGoes
<1>3. hp[ch[j]].used \in 0..N /\ N \in Nat
  BY Numbers DEF Linked, ChunkOK
<1>4. j = Len(ch) => First(j) + hp[ch[j]].used <= Count(hp, ch)
  BY <1>1, <1>2, <1>3
<1>5. ASSUME j # Len(ch) PROVE First(j) + hp[ch[j]].used <= Count(hp, ch)
  <2>1. j < Len(ch)
    BY <1>1, <1>5
  <2>2. First(j) + N <= First(Len(ch))
    BY <1>1, <2>1, FirstGrows
  <2>3. PICK f, g, u, w, c :
          /\ f = First(j) /\ g = First(Len(ch)) /\ u = hp[ch[j]].used /\ w = hp[ch[Len(ch)]].used
          /\ c = Count(hp, ch)
    OBVIOUS
  <2>4. f \in Nat /\ g \in Nat /\ u \in 0..N /\ w \in 0..N /\ N \in Nat /\ c = g + w /\ f + N <= g
    BY <1>1, <1>2, <1>3, <2>2, <2>3
  <2>5. f + u <= c
    BY <2>4
  <2>6. QED BY <2>3, <2>5
<1>6. QED BY <1>1, <1>2, <1>3, <1>4, <1>5

\* An element of the clone is made and its push called.
LEMMA CloneElementStep ==
  ASSUME NEW cc, NEW cd, NEW vc, InvWith(cc, cd, vc), CloneElement
  PROVE  InvNext(cc, cd, vc)
<1> DEFINE t == heap[heap[clone.cur].items[clone.i + 1]].text
<1>1. /\ clone.pc = "element" /\ push.pc = "idle" /\ clone.cur # NULL
      /\ clone.i < heap[clone.cur].used
      /\ CanAllocate /\ heap' = [Collected EXCEPT ![Fresh] = String(t)]
      /\ spill' = {Fresh} /\ Call("d", Fresh, FALSE)
      /\ kind' = kind /\ hdr' = hdr /\ x' = x /\ wedge' = wedge /\ view' = view
      /\ lval' = lval /\ clone' = clone
  BY DEF CloneElement, Allocated, statement
<1>2. /\ kind \in Kinds /\ Owns(kind, heap, hdr.c, cc) /\ Linked(kind, heap, cc)
      /\ Leads(kind, heap, hdr.c, cc) /\ Owns(kind, heap, hdr["d"], cd)
      /\ PushOK(kind, heap, spill, push, clone, hdr, cc, cd)
      /\ CloneOK(kind, heap, clone, push, hdr.d, cc)
  BY DEF InvWith, Inv, Owns
<1>3. PICK b : b = String(t)
  OBVIOUS
<1>4. PICK hp : hp = heap'
  OBVIOUS
<1>5. IsBlock(b) /\ b.is = "string"
  BY <1>3, StringIs
<1>6. hp = [Collected EXCEPT ![Fresh] = b]
  BY <1>1, <1>3, <1>4
<1>7. /\ AllocatedAt(hp, Fresh, b)
      /\ Inv(kind, hp, hdr, x, spill, wedge, view, lval, push, clone, cc, cd, vc)
  BY <1>1, <1>5, <1>6, AllocatedIs
<1>8. Kept(heap, hp, Reached) /\ Spans(heap, Reached, cc) /\ Spans(heap, Reached, cd)
  BY <1>7, HeldReached DEF AllocatedAt
<1>9. PICK j \in 1..(Len(cc) + 1) : Cursor(heap, clone, push, hdr.d, cc, j)
  BY <1>1, <1>2 DEF CloneOK
<1>10. j # Len(cc) + 1 /\ clone.cur = cc[j] /\ clone.i \in Nat /\ kind = "tablets"
  BY <1>1, <1>2, <1>9 DEF Cursor, CloneOK
<1>11. j \in 1..Len(cc)
  BY <1>2, <1>10, CountIs
<1>12. First(j) \in Nat /\ heap[cc[j]].used \in 0..N
       /\ First(j) + heap[cc[j]].used <= Count(heap, cc) /\ Count(heap, cc) \in Nat
  BY <1>2, <1>11, BeforeEnd, CountIs
<1>13. hdr.d.len = First(j) + clone.i
  BY <1>1, <1>9, <1>10 DEF Cursor, Before
<1>14. hdr.c.len = Count(heap, cc) /\ hdr.c.len \in 0..MaxLen /\ MaxLen \in Nat /\ N \in Nat
  BY <1>2, <1>10, Numbers DEF Owns, Leads, IsHeader
<1>15. hdr["d"].len < MaxLen
  BY <1>1, <1>10, <1>12, <1>13, <1>14
<1>16. Rooted(hp, x, spill')
  <2>1. Rooted(hp, x, spill)
    BY <1>7 DEF Inv
  <2>2. IsString(hp, Fresh)
    BY <1>5, <1>7 DEF AllocatedAt, IsString
  <2>3. QED BY <1>1, <2>1, <2>2 DEF Rooted
<1>17. /\ push' = [pc |-> push'.pc, to |-> "d", val |-> Fresh, moved |-> FALSE, slot |-> NoSlot]
       /\ push'.pc \in {"grow", "chunk", "insert"}
       /\ Pushing(kind, heap, push', hdr["d"], cd)
  BY <1>1, <1>2, <1>15, CallOK
<1>18. Pushing(kind, hp, push', hdr.d, cd)
  BY <1>2, <1>8, <1>17, KeptPushing
<1>19. PushOK(kind, hp, spill', push', clone, hdr, cc, cd)
  <2>1. push'.to = "d" /\ push'.val = Fresh /\ push'.moved = FALSE /\ push'.slot = NoSlot
    BY <1>17
  <2>2. push' = [pc |-> push'.pc, to |-> push'.to, val |-> push'.val, moved |-> push'.moved,
                 slot |-> push'.slot]
    BY <1>17, <2>1, Zenon
  <2>3. push'.val \in spill'
    BY <1>1, <2>1
  <2>4. QED BY <1>1, <1>17, <1>18, <2>1, <2>2, <2>3 DEF PushOK
<1>20. CloneOK(kind, hp, clone, push', hdr.d, cc)
  <2>1. Cursor(heap, clone, push', hdr.d, cc, j)
    BY <1>1, <1>9, <1>10, <1>17 DEF Cursor
  <2>2. CloneOK(kind, heap, clone, push', hdr.d, cc)
    BY <1>2, <2>1 DEF CloneOK
  <2>3. QED BY <1>2, <1>8, <2>2, KeptClone
<1>21. QED BY <1>1, <1>4, <1>7, <1>16, <1>19, <1>20 DEF Inv, InvNext


-----------------------------------------------------------------------------
(* Steps of a push.                                                         *)

\* A step that leaves the container's buffer where it is, and its slots.
LEMMA OwnStep ==
  ASSUME NEW cc, NEW cd, NEW vc, NEW hp, NEW hp2, NEW hs2, NEW cc2, NEW vc2, NEW push2,
         Inv(kind, hp, hdr, x, spill, wedge, view, lval, push, clone, cc, cd, vc),
         clone.pc = "idle", Better(hp, hp2), hs2 = [c |-> hs2.c, d |-> hs2.d], hs2.d = hdr.d,
         Owns(kind, hp2, hdr.d, cd), Owns(kind, hp2, hs2.c, cc2), Disjoint(cc2, cd),
         hdr.c.len <= hs2.c.len, hs2.c.buf = hdr.c.buf,
         \A k \in Nat : k < hdr.c.len /\ kind # "dvec" => SlotOf(cc2, k) = SlotOf(cc, k),
         Linked(kind, hp2, vc2), Leads(kind, hp2, view.h, vc2), Disjoint(vc2, cd),
         view.gone = FALSE => vc2 = cc2, view.gone = TRUE => vc2 = vc /\ Disjoint(vc2, cc2),
         lval.on = TRUE => lval.slot[1] \notin Range(cc2) \/ lval.slot[1] \in Range(cc),
         PushOK(kind, hp2, spill, push2, clone, hs2, cc2, cd)
  PROVE  Inv(kind, hp2, hs2, x, spill, wedge, view, lval, push2, clone, cc2, cd, vc2)
<1>1. /\ kind \in Kinds /\ (kind # "tablets" => hdr.d = EmptyHeader)
      /\ ViewOK(kind, hp, view, hdr.c, cc, cd, vc) /\ Rooted(hp, x, spill)
      /\ WedgeOK(kind, hp, wedge, hdr.c, cc) /\ LvalOK(kind, hp, lval, hdr.c, cc, cd)
      /\ CloneOK(kind, hp, clone, push, hdr.d, cc) /\ Owns(kind, hp, hdr.c, cc)
  BY DEF Inv
<1>2. Shape(hp2)
  BY DEF Better
<1>3. PICK h, h2 : h = hdr.c /\ h2 = hs2.c
  OBVIOUS
<1>4. h.len \in Nat /\ h2.len \in Nat /\ h.len <= h2.len /\ h2.buf = h.buf
  BY <1>1, <1>3, Numbers DEF Owns, Leads, IsHeader
<1>5. /\ \A a : Live(hp, a) => Live(hp2, a)
      /\ Rooted(hp2, x, spill)
      /\ WedgeOK(kind, hp2, wedge, h, cc) /\ LvalOK(kind, hp2, lval, h, cc, cd)
  BY <1>1, <1>3, BetterKeeps
<1>6. WedgeOK(kind, hp2, wedge, h2, cc2)
  <2>1. \A k \in Nat : k < h.len /\ kind # "dvec" => k < h2.len /\ SlotOf(cc2, k) = SlotOf(cc, k)
    BY <1>3, <1>4
  <2>2. QED BY <1>5, <2>1 DEF WedgeOK
<1>7. LvalOK(kind, hp2, lval, h2, cc2, cd)
  <2>1. \A k \in Nat : k < h.len => k < h2.len
    BY <1>4
  <2>2. \A k \in Nat : k < h.len /\ kind # "dvec" => SlotOf(cc2, k) = SlotOf(cc, k)
    BY <1>3
  <2>3. QED BY <1>4, <1>5, <2>1, <2>2 DEF LvalOK
<1>8. ViewOK(kind, hp2, view, h2, cc2, cd, vc2)
  <2>1. /\ view = [on |-> view.on, h |-> view.h, i |-> view.i, grown |-> view.grown, gone |-> view.gone]
        /\ view.on \in BOOLEAN /\ view.grown \in BOOLEAN /\ view.gone \in BOOLEAN
        /\ view.on = FALSE => view.h = EmptyHeader /\ view.grown = FALSE /\ view.gone = FALSE
        /\ Leads(kind, hp, view.h, vc)
        /\ \A a \in Ptrs(kind, view.h) : a = NULL \/ Live(hp, a)
        /\ view.gone = FALSE => vc = cc /\ view.h.len <= h.len
        /\ view.on = TRUE /\ view.gone = FALSE /\ view.grown = FALSE /\ kind = "dvec" => view.h.buf = h.buf
        /\ view.gone = TRUE => /\ vc # << >> => view.h.head = vc[1]
                               /\ view.h.buf = NULL \/ view.h.buf # h.buf
    BY <1>1, <1>3 DEF ViewOK
  <2>2. view.h.len \in Nat
    BY <2>1, Numbers DEF Leads, IsHeader
  <2>3. view.gone = FALSE => vc2 = cc2 /\ view.h.len <= h2.len
    BY <1>4, <2>1, <2>2
  <2>4. view.gone = TRUE => /\ Disjoint(vc2, cc2) /\ (vc2 # << >> => view.h.head = vc2[1])
                            /\ view.h.buf = NULL \/ view.h.buf # h2.buf
    BY <1>4, <2>1
  <2>5. view.on = TRUE /\ view.gone = FALSE /\ view.grown = FALSE /\ kind = "dvec" => view.h.buf = h2.buf
    BY <1>4, <2>1
  <2>6. \A a \in Ptrs(kind, view.h) : a = NULL \/ Live(hp2, a)
    BY <1>5, <2>1
  <2>7. QED BY <2>1, <2>3, <2>4, <2>5, <2>6 DEF ViewOK
<1>9. CloneOK(kind, hp2, clone, push2, hdr.d, cc2)
  BY <1>1 DEF CloneOK
<1>10. QED BY <1>1, <1>2, <1>3, <1>5, <1>6, <1>7, <1>8, <1>9 DEF Inv

\* A heap is as before but for one chunk, and better.
OneChunk(hp, hp2, a) ==
  a \in Addr /\ hp[a].is = "chunk" /\ Better(hp, hp2) /\ \A b \in Addr : b # a => hp2[b] = hp[b]

\* A step on the header a clone is built in, which stores to a block that is
\* none of the container's.
LEMMA OtherStep ==
  ASSUME NEW cc, NEW cd, NEW vc, NEW hp, NEW hp2, NEW hs2, NEW cd2, NEW push2, NEW a,
         Inv(kind, hp, hdr, x, spill, wedge, view, lval, push, clone, cc, cd, vc),
         kind = "tablets", OneChunk(hp, hp2, a), hs2 = [c |-> hs2.c, d |-> hs2.d], hs2.c = hdr.c,
         a \notin Range(cc), a \notin Range(vc),
         Owns(kind, hp2, hs2.d, cd2), Disjoint(cc, cd2), Disjoint(vc, cd2),
         lval.on = TRUE => lval.slot[1] \notin Range(cd2),
         PushOK(kind, hp2, spill, push2, clone, hs2, cc, cd2),
         CloneOK(kind, hp2, clone, push2, hs2.d, cc)
  PROVE  Inv(kind, hp2, hs2, x, spill, wedge, view, lval, push2, clone, cc, cd2, vc)
<1>1. /\ kind \in Kinds
      /\ ViewOK(kind, hp, view, hdr.c, cc, cd, vc) /\ Rooted(hp, x, spill)
      /\ WedgeOK(kind, hp, wedge, hdr.c, cc) /\ LvalOK(kind, hp, lval, hdr.c, cc, cd)
      /\ Linked(kind, hp, cc) /\ Leads(kind, hp, hdr.c, cc) /\ Owns(kind, hp, hdr.c, cc)
      /\ Linked(kind, hp, vc) /\ Leads(kind, hp, view.h, vc)
  BY DEF Inv, Owns, ViewOK
<1>0. a \in Addr /\ Better(hp, hp2) /\ \A b \in Addr : b # a => hp2[b] = hp[b]
  BY DEF OneChunk
<1>2. Shape(hp2)
  BY <1>0 DEF Better
<1>3. /\ \A b : Live(hp, b) => Live(hp2, b)
      /\ Rooted(hp2, x, spill)
      /\ WedgeOK(kind, hp2, wedge, hdr.c, cc) /\ LvalOK(kind, hp2, lval, hdr.c, cc, cd)
  BY <1>0, <1>1, BetterKeeps
<1>4. Linked(kind, hp2, cc) /\ Count(hp2, cc) = Count(hp, cc)
  BY <1>0, <1>1, LinkedElsewhere
<1>5. Linked(kind, hp2, vc) /\ Count(hp2, vc) = Count(hp, vc)
  BY <1>0, <1>1, LinkedElsewhere
<1>6. Leads(kind, hp2, hdr.c, cc) /\ Leads(kind, hp2, view.h, vc)
  BY <1>1, <1>4, <1>5 DEF Leads
<1>7. Owns(kind, hp2, hdr.c, cc)
  BY <1>1, <1>4, <1>6 DEF Owns
<1>8. ViewOK(kind, hp2, view, hdr.c, cc, cd2, vc)
  <2>1. /\ view = [on |-> view.on, h |-> view.h, i |-> view.i, grown |-> view.grown, gone |-> view.gone]
        /\ view.on \in BOOLEAN /\ view.grown \in BOOLEAN /\ view.gone \in BOOLEAN
        /\ view.on = FALSE => view.h = EmptyHeader /\ view.grown = FALSE /\ view.gone = FALSE
        /\ \A b \in Ptrs(kind, view.h) : b = NULL \/ Live(hp, b)
        /\ view.gone = FALSE => vc = cc /\ view.h.len <= hdr.c.len
        /\ view.gone = TRUE => /\ Disjoint(vc, cc) /\ (vc # << >> => view.h.head = vc[1])
                               /\ view.h.buf = NULL \/ view.h.buf # hdr.c.buf
    BY <1>1 DEF ViewOK
  <2>2. \A b \in Ptrs(kind, view.h) : b = NULL \/ Live(hp2, b)
    BY <1>3, <2>1
  <2>3. QED BY <1>5, <1>6, <2>1, <2>2 DEF ViewOK
<1>9. LvalOK(kind, hp2, lval, hdr.c, cc, cd2)
  BY <1>3 DEF LvalOK
<1>10. QED BY <1>1, <1>2, <1>3, <1>7, <1>8, <1>9 DEF Inv

\* The chunk that a push makes.
LEMMA ChunkIs ==
  /\ IsBlock(Chunk) /\ Chunk.is = "chunk" /\ Chunk.items = [k \in 1..N |-> NULL]
  /\ Chunk.used = 0 /\ Chunk.next = NULL
<1>1. PICK f, i : f = FreeBlock /\ i = [k \in 1..N |-> NULL]
  OBVIOUS
<1>2. f = [is |-> "free", items |-> << >>, used |-> 0, next |-> NULL, text |-> NULL]
  BY <1>1 DEF FreeBlock
<1>3. PICK r : r = [f EXCEPT !.is = "chunk"]
  OBVIOUS
<1>4. r = [is |-> "chunk", items |-> << >>, used |-> 0, next |-> NULL, text |-> NULL]
  BY <1>2, <1>3
<1>5. PICK b : b = Chunk
  OBVIOUS
<1>6. b = [r EXCEPT !.items = i]
  BY <1>1, <1>3, <1>5 DEF Chunk
<1>7. b = [is |-> "chunk", items |-> i, used |-> 0, next |-> NULL, text |-> NULL]
  BY <1>4, <1>6
<1>8. /\ b.is = "chunk" /\ b.items = i /\ b.used = 0 /\ b.next = NULL /\ b.text = NULL
      /\ b = [is |-> b.is, items |-> b.items, used |-> b.used, next |-> b.next, text |-> b.text]
  BY <1>7
<1>9. QED BY <1>1, <1>5, <1>8 DEF IsBlock, Sorts

\* The header and the heap when it is linked.
Extended(h, n) ==
  IF h.tail = NULL THEN [h EXCEPT !.head = n, !.tail = n] ELSE [h EXCEPT !.tail = n]
Linking(hp, h, n) == IF h.tail = NULL THEN hp ELSE WithNext(hp, h.tail, n)

\* The header is as before but for its ends.
LEMMA ExtendedIs ==
  ASSUME NEW h, IsHeader(h), NEW n \in Addr, NEW e, e = Extended(h, n)
  PROVE  /\ IsHeader(e) /\ e.tail = n /\ e.buf = h.buf /\ e.len = h.len /\ e.cap = h.cap
         /\ h.tail = NULL => e.head = n
         /\ h.tail # NULL => e.head = h.head
<1>1. h = [head |-> h.head, tail |-> h.tail, buf |-> h.buf, len |-> h.len, cap |-> h.cap]
  BY DEF IsHeader
<1>2. CASE h.tail = NULL
  <2>1. PICK r : r = [h EXCEPT !.head = n]
    OBVIOUS
  <2>2. r = [head |-> n, tail |-> h.tail, buf |-> h.buf, len |-> h.len, cap |-> h.cap]
    BY <1>1, <2>1
  <2>3. e = [r EXCEPT !.tail = n]
    BY <1>2, <2>1 DEF Extended
  <2>4. e = [head |-> n, tail |-> n, buf |-> h.buf, len |-> h.len, cap |-> h.cap]
    BY <2>2, <2>3
  <2>5. QED BY <1>2, <2>4 DEF IsHeader
<1>3. CASE h.tail # NULL
  <2>1. e = [head |-> h.head, tail |-> n, buf |-> h.buf, len |-> h.len, cap |-> h.cap]
    BY <1>1, <1>3 DEF Extended
  <2>2. QED BY <1>3, <2>1 DEF IsHeader
<1>4. QED BY <1>2, <1>3

\* A heap is as good as itself.
LEMMA BetterSame ==
  ASSUME NEW hp, Shape(hp)
  PROVE  Better(hp, hp)
<1>1. ASSUME NEW a \in Addr, ChunkOK(hp, a) PROVE hp[a].used <= hp[a].used
  BY <1>1, Numbers DEF ChunkOK
<1>2. QED BY <1>1 DEF Better

\* What linking a chunk n behind a container's chain ch comes to.
ChunkAdded(kd, hp, hp2, h, h2, ch, n) ==
  /\ Better(hp, hp2) /\ Owns(kd, hp2, h2, Append(ch, n))
  /\ \A g : Leads(kd, hp, g, ch) => Leads(kd, hp2, g, Append(ch, n))
  /\ \A b \in Addr : b # h.tail => hp2[b] = hp[b]
  /\ \A b \in Addr : hp2[b].used = hp[b].used
  /\ ch # << >> => h.tail \in Range(ch) /\ hp[h.tail].is = "chunk"
  /\ ch = << >> => h.tail = NULL

\* It is what the stores do.
LEMMA ChunkLinked ==
  ASSUME NEW kd, NEW hp, NEW hp2, NEW h, NEW h2, NEW ch, NEW n \in Addr, Shape(hp), hp[n] = Chunk,
         Owns(kd, hp, h, ch), n \notin Range(ch), kd # "dvec", h.len < MaxLen,
         h.tail = NULL \/ hp[h.tail].used = N, hp2 = Linking(hp, h, n), h2 = Extended(h, n)
  PROVE  ChunkAdded(kd, hp, hp2, h, h2, ch, n)
<1> DEFINE c2 == Append(ch, n)
           t == h.tail
<1>1. /\ Linked(kd, hp, ch) /\ Leads(kd, hp, h, ch) /\ IsHeader(h) /\ h.len = Count(hp, ch)
      /\ ch \in Seq(Addr) /\ Len(ch) \in Nat
      /\ ch = << >> => h.head = NULL /\ t = NULL
      /\ ch # << >> => h.head = ch[1] /\ t = ch[Len(ch)] /\ Len(ch) \in 1..Len(ch)
  BY CountIs DEF Owns, Leads, Linked
<1>2. ch # << >> => t \in Addr /\ t # NULL /\ hp[t].is = "chunk" /\ t \in Range(ch) /\ hp[t].used = N
  BY <1>1, Numbers DEF Range, Linked, ChunkOK
<1>3. t \in Addr => Better(hp, WithNext(hp, t, n))
  <2>1. PICK w : w = WithNext(hp, t, n)
    OBVIOUS
  <2>2. QED BY <2>1, LinkBetter
<1>4. Better(hp, hp2)
  <2>1. CASE ch = << >>
    BY <1>1, <2>1, BetterSame DEF Linking
  <2>2. CASE ch # << >>
    BY <1>2, <1>3, <2>2 DEF Linking
  <2>3. QED BY <2>1, <2>2
<1>5. /\ \A b \in Addr : b # t => hp2[b] = hp[b]
      /\ \A b \in Addr : hp2[b].used = hp[b].used
      /\ ch # << >> => hp2[t].next = n
  <2>1. CASE ch = << >>
    BY <1>1, <2>1 DEF Linking
  <2>2. CASE ch # << >>
    <3>1. hp2 = WithNext(hp, t, n) /\ t \in Addr
      BY <1>2, <2>2 DEF Linking
    <3>2. PICK a \in Addr : a = t
      BY <3>1
    <3>3. hp2 = WithNext(hp, a, n)
      BY <3>1, <3>2
    <3>4. /\ Shape(hp2)
          /\ \A b \in Addr : /\ hp2[b].is = hp[b].is /\ hp2[b].used = hp[b].used
                             /\ hp2[b].items = hp[b].items /\ hp2[b].text = hp[b].text
          /\ \A b \in Addr : b # a => hp2[b] = hp[b]
          /\ hp2[a].next = n
      BY <3>3, LinkStored
    <3>5. QED BY <3>2, <3>4
  <2>3. QED BY <2>1, <2>2
<1>6. ChunkOK(hp, n) /\ hp[n].used = 0 /\ hp[n].next = NULL
  <2>1. hp[n].items = [k \in 1..N |-> NULL] /\ hp[n].is = "chunk" /\ hp[n].used = 0 /\ hp[n].next = NULL
    BY ChunkIs
  <2>2. QED BY <2>1, Numbers DEF ChunkOK, Item
<1>7. n # t
  BY <1>1, <1>2, Numbers
<1>8. ChunkOK(hp2, n) /\ hp2[n].used = 0 /\ hp2[n].next = NULL
  BY <1>4, <1>5, <1>6, <1>7 DEF Better
<1>9. \A i \in 1..Len(ch) : ChunkOK(hp2, ch[i]) /\ hp2[ch[i]].used = hp[ch[i]].used
  BY <1>1, <1>4, <1>5 DEF Linked, Better, ChunkOK
<1>10. \A i \in 1..Len(ch) : i < Len(ch) => hp2[ch[i]].next = hp[ch[i]].next
  <2>1. ASSUME NEW i \in 1..Len(ch), i < Len(ch) PROVE hp2[ch[i]].next = hp[ch[i]].next
    <3>1. ch # << >> /\ i # Len(ch) /\ ch[i] \in Addr /\ DOMAIN ch = 1..Len(ch)
      BY <1>1, <2>1
    <3>2. ch[i] # t
      BY <1>1, <3>1 DEF Linked, IsInjective
    <3>3. QED BY <1>5, <3>1, <3>2
  <2>2. QED BY <2>1
<1>11. ch # << >> => hp2[ch[Len(ch)]].next = n /\ hp[ch[Len(ch)]].used = N
  BY <1>1, <1>2, <1>5
<1>12. Count(hp, ch) < MaxLen
  BY <1>1
<1>13. Linked(kd, hp2, c2) /\ Count(hp2, c2) = Count(hp, ch)
  <2>1. Linked(kd, hp, ch)
    BY <1>1
  <2> HIDE DEF t
  <2>2. Linked(kd, hp2, Append(ch, n)) /\ Count(hp2, Append(ch, n)) = Count(hp, ch)
    BY <2>1, <1>8, <1>9, <1>10, <1>11, <1>12, LinkedAppended
  <2>3. QED BY <2>2
<1>14. Count(hp, ch) \in Nat
  BY <1>1, CountIs
<1>15. c2 \in Seq(Addr) /\ c2 # << >> /\ Len(c2) = Len(ch) + 1 /\ c2[Len(c2)] = n
       /\ (ch = << >> => c2[1] = n) /\ (ch # << >> => c2[1] = ch[1])
  BY <1>1
<1>16. Count(hp, c2) = Count(hp, ch)
  <2>1. Count(hp, c2) = First(Len(c2)) + hp[n].used /\ Count(hp2, c2) = First(Len(c2)) + hp2[n].used
    BY <1>15 DEF Count
  <2>2. QED BY <1>6, <1>8, <1>13, <2>1
<1> HIDE DEF c2
<1>17. ASSUME NEW g, Leads(kd, hp, g, ch) PROVE Leads(kd, hp2, g, c2)
  <2>1. Leads(kd, hp, g, c2)
    BY <1>1, <1>16, <1>17, LeadsAppended DEF c2
  <2>2. CASE ch = << >>
    BY <1>1, <2>1, <2>2 DEF Linking
  <2>3. CASE ch # << >>
    <3>1. PICK a : a = t
      OBVIOUS
    <3>2. hp[a].is = "chunk" /\ \A b \in Addr : b # a => hp2[b] = hp[b]
      BY <1>2, <1>5, <2>3, <3>1
    <3>3. Count(hp, c2) \in Nat /\ Count(hp2, c2) \in Nat /\ Count(hp, c2) <= Count(hp2, c2)
      BY <1>13, <1>14, <1>16
    <3>4. QED BY <1>4, <2>1, <3>2, <3>3, LeadsElsewhere
  <2>4. QED BY <2>2, <2>3
<1>18. Owns(kd, hp2, h2, c2)
  <2>1. /\ IsHeader(h2) /\ h2.tail = n /\ h2.buf = h.buf /\ h2.len = h.len /\ h2.cap = h.cap
        /\ (h.tail = NULL => h2.head = n) /\ (h.tail # NULL => h2.head = h.head)
    BY <1>1, ExtendedIs
  <2>2. h2.head = c2[1] /\ h2.tail = c2[Len(c2)]
    BY <1>1, <1>2, <1>15, <2>1
  <2>3. Leads(kd, hp2, h, c2)
    BY <1>1, <1>17
  <2>4. Leads(kd, hp2, h2, c2)
    BY <2>1, <2>2, <2>3 DEF Leads, BytesOK, BufferOK
  <2>5. QED BY <1>1, <1>13, <1>15, <2>1, <2>2, <2>4 DEF Owns
<1>19. QED BY <1>1, <1>2, <1>4, <1>5, <1>17, <1>18 DEF c2, ChunkAdded

\* Where a push is at work.
LEMMA TargetIs ==
  ASSUME NEW cc, NEW cd, NEW vc, InvWith(cc, cd, vc), push.pc # "idle"
  PROVE  /\ push = [pc |-> push.pc, to |-> push.to, val |-> push.val, moved |-> push.moved,
                    slot |-> push.slot]
         /\ push.moved \in BOOLEAN /\ push.val \in spill /\ IsString(heap, push.val)
         /\ hdr = [c |-> hdr.c, d |-> hdr.d]
         /\ \/ push.to = "c" /\ clone.pc = "idle" /\ Pushing(kind, heap, push, hdr.c, cc)
            \/ /\ push.to = "d" /\ clone.pc # "idle" /\ kind = "tablets"
               /\ Pushing(kind, heap, push, hdr.d, cd)
<1>1. /\ PushOK(kind, heap, spill, push, clone, hdr, cc, cd) /\ Rooted(heap, x, spill)
      /\ CloneOK(kind, heap, clone, push, hdr.d, cc) /\ hdr = [c |-> hdr.c, d |-> hdr.d]
  BY DEF InvWith, Inv
<1>2. clone.pc # "idle" => kind = "tablets"
  BY <1>1 DEF CloneOK
<1>3. QED BY <1>1, <1>2 DEF PushOK, Rooted

\* A push goes on.
LEMMA GotoIs ==
  ASSUME push = [pc |-> push.pc, to |-> push.to, val |-> push.val, moved |-> push.moved,
                 slot |-> push.slot],
         NEW pc, Goto(pc)
  PROVE  /\ push' = [pc |-> push'.pc, to |-> push'.to, val |-> push'.val, moved |-> push'.moved,
                     slot |-> push'.slot]
         /\ push'.pc = pc /\ push'.to = push.to /\ push'.val = push.val /\ push'.moved = push.moved
         /\ push'.slot = push.slot
<1>1. push' = [pc |-> pc, to |-> push.to, val |-> push.val, moved |-> push.moved, slot |-> push.slot]
  BY DEF Goto
<1>2. PICK p : p = push'
  OBVIOUS
<1>3. /\ p.pc = pc /\ p.to = push.to /\ p.val = push.val /\ p.moved = push.moved /\ p.slot = push.slot
      /\ p = [pc |-> p.pc, to |-> p.to, val |-> p.val, moved |-> p.moved, slot |-> p.slot]
  BY <1>1, <1>2
<1>4. QED BY <1>2, <1>3, Zenon

\* The header a push works on, and its place in the headers.
LEMMA StoredIs ==
  ASSUME hdr = [c |-> hdr.c, d |-> hdr.d], NEW e, Stored(e)
  PROVE  /\ hdr' = [c |-> hdr'.c, d |-> hdr'.d]
         /\ push.to = "c" => Header = hdr.c /\ hdr'.c = e /\ hdr'.d = hdr.d
         /\ push.to = "d" => Header = hdr.d /\ hdr'.d = e /\ hdr'.c = hdr.c
<1>1. PICK g : g = hdr
  OBVIOUS
<1>2. g = [c |-> g.c, d |-> g.d]
  BY <1>1
<1>3. hdr' = [g EXCEPT ![push.to] = e]
  BY <1>1 DEF Stored
<1>4. CASE push.to = "c"
  <2>1. hdr' = [c |-> e, d |-> g.d]
    BY <1>2, <1>3, <1>4
  <2>2. QED BY <1>1, <1>4, <2>1 DEF Header
<1>5. CASE push.to = "d"
  <2>1. hdr' = [c |-> g.c, d |-> e]
    BY <1>2, <1>3, <1>5
  <2>2. QED BY <1>1, <1>5, <2>1 DEF Header
<1>6. CASE push.to # "c" /\ push.to # "d"
  <2>1. hdr' = g
    BY <1>2, <1>3, <1>6
  <2>2. QED BY <1>1, <1>2, <1>6, <2>1
<1>7. QED BY <1>4, <1>5, <1>6

\* A push makes a chunk.
LEMMA NewChunkIs ==
  ASSUME NEW cc, NEW cd, NEW vc, InvWith(cc, cd, vc), NewChunk
  PROVE  \E hp, n :
           /\ AllocatedAt(hp, n, Chunk) /\ n \in Addr /\ heap[n].is = "free"
           /\ Inv(kind, hp, hdr, x, spill, wedge, view, lval, push, clone, cc, cd, vc)
           /\ heap' = Linking(hp, Header, n) /\ Stored(Extended(Header, n)) /\ Goto("insert")
<1> DEFINE old == Header.tail
<1>1. /\ push.pc = "chunk" /\ Goto("insert")
      /\ old = NULL => /\ Allocated(Chunk)
                       /\ Stored([Header EXCEPT !.head = Fresh, !.tail = Fresh])
      /\ old # NULL => /\ CanAllocate /\ heap' = [Collected EXCEPT ![Fresh] = Chunk, ![old].next = Fresh]
                       /\ Stored([Header EXCEPT !.tail = Fresh])
  BY DEF NewChunk
<1>2. PICK hp : hp = [Collected EXCEPT ![Fresh] = Chunk]
  OBVIOUS
<1>3. PICK b : b = Chunk
  OBVIOUS
<1>4. CanAllocate /\ IsBlock(b) /\ hp = [Collected EXCEPT ![Fresh] = b]
  BY <1>1, <1>2, <1>3, ChunkIs DEF Allocated
<1>5. /\ AllocatedAt(hp, Fresh, b)
      /\ Inv(kind, hp, hdr, x, spill, wedge, view, lval, push, clone, cc, cd, vc)
  BY <1>4, AllocatedIs
<1>6. heap' = Linking(hp, Header, Fresh)
  <2>1. CASE old = NULL
    BY <1>1, <1>2, <2>1 DEF Allocated, Linking
  <2>2. CASE old # NULL
    <3>1. [Collected EXCEPT ![Fresh] = Chunk, ![old].next = Fresh]
            = [[Collected EXCEPT ![Fresh] = Chunk] EXCEPT ![old].next = Fresh]
      OBVIOUS
    <3>2. heap' = [hp EXCEPT ![old].next = Fresh]
      BY <1>1, <1>2, <2>2, <3>1
    <3>3. QED BY <2>2, <3>2 DEF Linking, WithNext
  <2>3. QED BY <2>1, <2>2
<1>7. Stored(Extended(Header, Fresh))
  BY <1>1 DEF Extended
<1>8. QED BY <1>1, <1>3, <1>5, <1>6, <1>7 DEF AllocatedAt

\* The container's chain is what it was, or longer by a chunk.
Continues(ch, ch2) == ch2 = ch \/ \E n \in Addr : ch2 = Append(ch, n)

\* The invariant after that.
LEMMA NewChunkStep ==
  ASSUME NEW cc, NEW cd, NEW vc, InvWith(cc, cd, vc), NewChunk
  PROVE  \E cc2, cd2, vc2 \in Seq(Addr) :
           InvNext(cc2, cd2, vc2) /\ Continues(cc, cc2) /\ Continues(cd, cd2)
<1>1. PICK hp, n :
        /\ AllocatedAt(hp, n, Chunk) /\ n \in Addr /\ heap[n].is = "free"
        /\ Inv(kind, hp, hdr, x, spill, wedge, view, lval, push, clone, cc, cd, vc)
        /\ heap' = Linking(hp, Header, n) /\ Stored(Extended(Header, n)) /\ Goto("insert")
  BY NewChunkIs
<1>2. /\ push.pc = "chunk" /\ kind' = kind /\ x' = x /\ spill' = spill /\ wedge' = wedge
      /\ view' = view /\ lval' = lval /\ clone' = clone
  BY DEF NewChunk, statement
<1>3. /\ push = [pc |-> push.pc, to |-> push.to, val |-> push.val, moved |-> push.moved,
                 slot |-> push.slot]
      /\ push.moved \in BOOLEAN /\ push.val \in spill
      /\ hdr = [c |-> hdr.c, d |-> hdr.d]
      /\ \/ push.to = "c" /\ clone.pc = "idle" /\ Pushing(kind, heap, push, hdr.c, cc)
         \/ /\ push.to = "d" /\ clone.pc # "idle" /\ kind = "tablets"
            /\ Pushing(kind, heap, push, hdr.d, cd)
  BY <1>2, TargetIs
<1>4. /\ push' = [pc |-> push'.pc, to |-> push'.to, val |-> push'.val, moved |-> push'.moved,
                  slot |-> push'.slot]
      /\ push'.pc = "insert" /\ push'.to = push.to /\ push'.val = push.val
      /\ push'.moved = push.moved
  BY <1>1, <1>3, GotoIs
<1>5. PICK e : e = Extended(Header, n)
  OBVIOUS
<1>6. /\ hdr' = [c |-> hdr'.c, d |-> hdr'.d]
      /\ push.to = "c" => Header = hdr.c /\ hdr'.c = e /\ hdr'.d = hdr.d
      /\ push.to = "d" => Header = hdr.d /\ hdr'.d = e /\ hdr'.c = hdr.c
  BY <1>1, <1>3, <1>5, StoredIs
<1>7. PICK hp2 : hp2 = heap'
  OBVIOUS
<1>8. PICK hs2, p2 : hs2 = hdr' /\ p2 = push'
  OBVIOUS
<1>9. /\ n \notin Range(cc) /\ n \notin Range(cd) /\ n \notin Range(vc)
      /\ lval.on = TRUE => n # lval.slot[1]
  BY <1>1, FreeUnheld
<1>10. /\ kind \in Kinds /\ Shape(hp) /\ Owns(kind, hp, hdr.c, cc) /\ Owns(kind, hp, hdr.d, cd)
       /\ Disjoint(cc, cd) /\ ViewOK(kind, hp, view, hdr.c, cc, cd, vc)
       /\ PushOK(kind, hp, spill, push, clone, hdr, cc, cd)
       /\ LvalOK(kind, hp, lval, hdr.c, cc, cd)
       /\ CloneOK(kind, hp, clone, push, hdr.d, cc)
  BY <1>1 DEF Inv
<1>11. /\ Linked(kind, hp, vc) /\ Leads(kind, hp, view.h, vc) /\ Disjoint(vc, cd)
       /\ view.gone \in BOOLEAN /\ (view.gone = FALSE => vc = cc)
       /\ view.gone = TRUE => Disjoint(vc, cc)
  BY <1>10 DEF ViewOK
<1>12. hp[n] = Chunk /\ hp[n].is = "chunk" /\ N \in Nat \ {0}
  BY <1>1, ChunkIs, Numbers DEF AllocatedAt
<1>13. cc \in Seq(Addr) /\ cd \in Seq(Addr) /\ vc \in Seq(Addr)
  BY <1>10, <1>11 DEF Owns, Linked
<1>14. CASE push.to = "c"
  <2> DEFINE c2 == Append(cc, n)
             v2 == IF view.gone = TRUE THEN vc ELSE c2
  <2>1. clone.pc = "idle" /\ Pushing(kind, hp, push, hdr.c, cc)
    BY <1>2, <1>3, <1>10, <1>14 DEF PushOK
  <2>2. PICK h : h = hdr.c
    OBVIOUS
  <2>3. kind # "dvec" /\ h.len < MaxLen /\ (h.tail = NULL \/ hp[h.tail].used = N)
        /\ (kind # "tablets" => h.len < h.cap)
    BY <1>2, <2>1, <2>2 DEF Pushing
  <2>4. hp2 = Linking(hp, h, n) /\ e = Extended(h, n) /\ Owns(kind, hp, h, cc)
    BY <1>1, <1>5, <1>6, <1>7, <1>10, <1>14, <2>2
  <2>5. /\ Better(hp, hp2) /\ Owns(kind, hp2, e, c2)
        /\ \A g : Leads(kind, hp, g, cc) => Leads(kind, hp2, g, c2)
        /\ \A b \in Addr : b # h.tail => hp2[b] = hp[b]
        /\ \A b \in Addr : hp2[b].used = hp[b].used
        /\ cc # << >> => h.tail \in Range(cc) /\ hp[h.tail].is = "chunk"
        /\ cc = << >> => h.tail = NULL
    <3>1. ChunkAdded(kind, hp, hp2, h, e, cc, n)
      BY <1>1, <1>9, <1>10, <1>12, <2>3, <2>4, ChunkLinked
    <3>2. QED BY <3>1 DEF ChunkAdded
  <2>6. c2 \in Seq(Addr) /\ Range(c2) = Range(cc) \cup {n}
    BY <1>1, <1>13, RangeAppend
  <2>7. Disjoint(c2, cd)
    BY <1>9, <1>10, <2>6 DEF Disjoint
  <2>8. PICK a \in Addr : a \notin Range(cd) /\ (view.gone = TRUE => a \notin Range(vc))
                          /\ hp[a].is = "chunk" /\ \A b \in Addr : b # a => hp2[b] = hp[b]
    <3>1. CASE cc = << >>
      BY <1>1, <1>9, <1>12, <2>5, <3>1, Numbers
    <3>2. CASE cc # << >>
      <4>1. h.tail \in Range(cc) /\ hp[h.tail].is = "chunk"
        BY <2>5, <3>2
      <4>2. h.tail \in Addr
        BY <1>13, <4>1, RangeType
      <4>3. QED BY <1>10, <1>11, <2>5, <4>1, <4>2 DEF Disjoint
    <3>3. QED BY <3>1, <3>2
  <2>9. Owns(kind, hp2, hdr.d, cd)
    <3>1. Linked(kind, hp, cd) /\ Leads(kind, hp, hdr.d, cd)
      BY <1>10 DEF Owns
    <3>2. Linked(kind, hp2, cd) /\ Count(hp2, cd) = Count(hp, cd)
      BY <2>5, <2>8, <3>1, LinkedElsewhere
    <3>3. Count(hp, cd) \in Nat /\ Count(hp2, cd) \in Nat /\ Count(hp, cd) <= Count(hp2, cd)
      BY <3>1, <3>2, CountIs
    <3>4. Leads(kind, hp2, hdr.d, cd)
      BY <2>5, <2>8, <3>1, <3>3, LeadsElsewhere
    <3>5. QED BY <1>10, <3>2, <3>4 DEF Owns
  <2>10. Linked(kind, hp2, v2) /\ Leads(kind, hp2, view.h, v2) /\ Disjoint(v2, cd)
         /\ v2 \in Seq(Addr)
    <3>1. CASE view.gone = FALSE
      <4>1. v2 = c2 /\ Leads(kind, hp, view.h, cc)
        BY <1>11, <3>1
      <4>2. QED BY <2>5, <2>6, <2>7, <4>1 DEF Owns
    <3>2. CASE view.gone = TRUE
      <4>1. Linked(kind, hp2, vc) /\ Count(hp2, vc) = Count(hp, vc)
        BY <1>11, <2>5, <2>8, <3>2, LinkedElsewhere
      <4>2. Count(hp, vc) \in Nat /\ Count(hp2, vc) \in Nat /\ Count(hp, vc) <= Count(hp2, vc)
        BY <1>11, <4>1, CountIs
      <4>3. Leads(kind, hp2, view.h, vc)
        BY <1>11, <2>5, <2>8, <4>2, LeadsElsewhere
      <4>4. QED BY <1>11, <1>13, <3>2, <4>1, <4>3
    <3>3. QED BY <1>11, <3>1, <3>2
  <2>11. (view.gone = FALSE => v2 = c2) /\ (view.gone = TRUE => v2 = vc /\ Disjoint(v2, c2))
    BY <1>9, <1>11, <2>6 DEF Disjoint
  <2>12. \A k \in Nat : k < hdr.c.len /\ kind # "dvec" => SlotOf(c2, k) = SlotOf(cc, k)
    <3>1. Linked(kind, hp, cc) /\ hdr.c.len = Count(hp, cc)
      BY <1>10, <2>3 DEF Owns
    <3>2. ASSUME NEW k \in Nat, k < hdr.c.len PROVE SlotOf(Append(cc, n), k) = SlotOf(cc, k)
      <4>1. k < Count(hp, cc)
        BY <3>1, <3>2
      <4>2. QED BY <1>1, <3>1, <4>1, SlotStays
    <3>3. QED BY <3>2
  <2>13. lval.on = TRUE => lval.slot[1] \notin Range(c2) \/ lval.slot[1] \in Range(cc)
    BY <1>9, <2>6
  <2>14. IsHeader(e) /\ e.tail = n /\ e.buf = h.buf /\ e.len = h.len /\ e.cap = h.cap
    <3>1. IsHeader(h)
      BY <2>4 DEF Owns, Leads
    <3>2. QED BY <1>1, <2>4, <3>1, ExtendedIs
  <2>15. hs2.c = e /\ hs2.d = hdr.d /\ hs2 = [c |-> hs2.c, d |-> hs2.d]
    BY <1>6, <1>8, <1>14
  <2>16. PushOK(kind, hp2, spill, p2, clone, hs2, c2, cd)
    <3>1. hp2[n].used = 0 /\ n # NULL
      BY <1>1, <1>12, <2>5, ChunkIs, Numbers
    <3>2. Pushing(kind, hp2, p2, e, c2)
      BY <1>4, <1>8, <1>12, <2>3, <2>14, <3>1 DEF Pushing
    <3>3. p2 = [pc |-> p2.pc, to |-> p2.to, val |-> p2.val, moved |-> p2.moved, slot |-> p2.slot]
      BY <1>4, <1>8
    <3>4. QED BY <1>3, <1>4, <1>8, <1>14, <2>1, <2>15, <3>2, <3>3 DEF PushOK
  <2>17. hdr.c.len <= hs2.c.len /\ hs2.c.buf = hdr.c.buf
    <3>1. h.len \in Nat
      BY <2>4, Numbers DEF Owns, Leads, IsHeader
    <3>2. QED BY <2>2, <2>14, <2>15, <3>1
  <2>22. Continues(cc, c2) /\ Continues(cd, cd)
    BY <1>1 DEF Continues
  <2> HIDE DEF c2, v2
  <2>18. Owns(kind, hp2, hs2.c, c2)
    BY <2>5, <2>15
  <2>19. Inv(kind, hp2, hs2, x, spill, wedge, view, lval, p2, clone, c2, cd, v2)
    <3>1. /\ Inv(kind, hp, hdr, x, spill, wedge, view, lval, push, clone, cc, cd, vc)
          /\ clone.pc = "idle" /\ Better(hp, hp2) /\ Disjoint(c2, cd)
          /\ hs2 = [c |-> hs2.c, d |-> hs2.d] /\ hs2.d = hdr.d
      BY <1>1, <2>1, <2>5, <2>7, <2>15
    <3>2. /\ Linked(kind, hp2, v2) /\ Leads(kind, hp2, view.h, v2) /\ Disjoint(v2, cd)
          /\ view.gone = FALSE => v2 = c2
          /\ view.gone = TRUE => v2 = vc /\ Disjoint(v2, c2)
      BY <2>10, <2>11
    <3>3. QED BY <3>1, <3>2, <2>9, <2>12, <2>13, <2>16, <2>17, <2>18, OwnStep
  <2>20. InvNext(c2, cd, v2)
    BY <1>2, <1>7, <1>8, <2>19 DEF InvNext
  <2>23. QED BY <1>13, <2>6, <2>10, <2>20, <2>22
<1>15. CASE push.to = "d"
  <2> DEFINE c2 == Append(cd, n)
  <2>1. clone.pc # "idle" /\ kind = "tablets" /\ Pushing(kind, hp, push, hdr.d, cd)
    BY <1>2, <1>3, <1>10, <1>15 DEF PushOK
  <2>2. PICK h : h = hdr.d
    OBVIOUS
  <2>3. kind # "dvec" /\ h.len < MaxLen /\ (h.tail = NULL \/ hp[h.tail].used = N)
    BY <1>2, <2>1, <2>2 DEF Pushing
  <2>4. hp2 = Linking(hp, h, n) /\ e = Extended(h, n) /\ Owns(kind, hp, h, cd)
    BY <1>1, <1>5, <1>6, <1>7, <1>10, <1>15, <2>2
  <2>5. /\ Better(hp, hp2) /\ Owns(kind, hp2, e, c2)
        /\ \A g : Leads(kind, hp, g, cd) => Leads(kind, hp2, g, c2)
        /\ \A b \in Addr : b # h.tail => hp2[b] = hp[b]
        /\ \A b \in Addr : hp2[b].used = hp[b].used
        /\ cd # << >> => h.tail \in Range(cd) /\ hp[h.tail].is = "chunk"
        /\ cd = << >> => h.tail = NULL
    <3>1. n \in Addr /\ Shape(hp) /\ hp[n] = Chunk /\ Owns(kind, hp, h, cd) /\ n \notin Range(cd)
      BY <1>1, <1>9, <1>10, <1>12, <2>4
    <3>2. hp2 = Linking(hp, h, n) /\ e = Extended(h, n)
      BY <2>4
    <3>3. ChunkAdded(kind, hp, hp2, h, e, cd, n)
      BY <2>3, <3>1, <3>2, ChunkLinked
    <3>4. QED BY <3>3 DEF ChunkAdded
  <2>6. c2 \in Seq(Addr) /\ Range(c2) = Range(cd) \cup {n}
    BY <1>1, <1>13, RangeAppend
  <2>7. Disjoint(cc, c2) /\ Disjoint(vc, c2)
    BY <1>9, <1>10, <1>11, <2>6 DEF Disjoint
  <2>8. PICK a \in Addr : a \notin Range(cc) /\ a \notin Range(vc)
                          /\ hp[a].is = "chunk" /\ \A b \in Addr : b # a => hp2[b] = hp[b]
    <3>1. CASE cd = << >>
      BY <1>1, <1>9, <1>12, <2>5, <3>1, Numbers
    <3>2. CASE cd # << >>
      <4>1. h.tail \in Range(cd) /\ hp[h.tail].is = "chunk"
        BY <2>5, <3>2
      <4>2. h.tail \in Addr
        BY <1>13, <4>1, RangeType
      <4>3. QED BY <1>10, <1>11, <2>5, <4>1, <4>2 DEF Disjoint
    <3>3. QED BY <3>1, <3>2
  <2>9. lval.on = TRUE => lval.slot[1] \notin Range(c2)
    BY <1>9, <1>10, <2>6 DEF LvalOK
  <2>10. IsHeader(e) /\ e.tail = n /\ e.buf = h.buf /\ e.len = h.len /\ e.cap = h.cap
    <3>1. IsHeader(h)
      BY <2>4 DEF Owns, Leads
    <3>2. QED BY <1>1, <2>4, <3>1, ExtendedIs
  <2>11. hs2.d = e /\ hs2.c = hdr.c /\ hs2 = [c |-> hs2.c, d |-> hs2.d]
    BY <1>6, <1>8, <1>15
  <2>12. PushOK(kind, hp2, spill, p2, clone, hs2, cc, c2)
    <3>1. hp2[n].used = 0 /\ n # NULL
      BY <1>1, <1>12, <2>5, ChunkIs, Numbers
    <3>2. Pushing(kind, hp2, p2, e, c2)
      BY <1>4, <1>8, <1>12, <2>1, <2>3, <2>10, <3>1 DEF Pushing
    <3>3. p2 = [pc |-> p2.pc, to |-> p2.to, val |-> p2.val, moved |-> p2.moved, slot |-> p2.slot]
      BY <1>4, <1>8
    <3>4. QED BY <1>3, <1>4, <1>8, <1>15, <2>1, <2>11, <3>2, <3>3 DEF PushOK
  <2>13. CloneOK(kind, hp2, clone, p2, e, cc)
    <3>1. Linked(kind, hp, cc) /\ clone.pc = "element"
      BY <1>10, <2>1 DEF Owns, CloneOK
    <3>2. PICK j \in 1..(Len(cc) + 1) : Cursor(hp, clone, push, h, cc, j)
      BY <1>10, <2>2, <3>1 DEF CloneOK
    <3>3. Linked(kind, hp2, cc) /\ Count(hp2, cc) = Count(hp, cc)
      BY <2>5, <2>8, <3>1, LinkedElsewhere
    <3>4. \A i \in 1..Len(cc) : hp2[cc[i]].used = hp[cc[i]].used
      BY <2>5, <3>1 DEF Linked, ChunkOK
    <3>5. j # Len(cc) + 1 => j \in 1..Len(cc)
      BY <3>1, CountIs
    <3>6. push.pc # "idle" /\ push.pc # "return" /\ p2.pc # "idle" /\ p2.pc # "return"
      BY <1>2, <1>4, <1>8
    <3>7. Cursor(hp2, clone, p2, e, cc, j)
      BY <2>10, <3>2, <3>3, <3>4, <3>5, <3>6 DEF Cursor, Before
    <3>8. QED BY <1>10, <3>7 DEF CloneOK
  <2>17. Continues(cc, cc) /\ Continues(cd, c2)
    BY <1>1 DEF Continues
  <2> HIDE DEF c2
  <2>14. Owns(kind, hp2, hs2.d, c2) /\ CloneOK(kind, hp2, clone, p2, hs2.d, cc)
    BY <2>5, <2>11, <2>13
  <2>15. Inv(kind, hp2, hs2, x, spill, wedge, view, lval, p2, clone, cc, c2, vc)
    <3>1. /\ Inv(kind, hp, hdr, x, spill, wedge, view, lval, push, clone, cc, cd, vc)
          /\ kind = "tablets" /\ Disjoint(cc, c2) /\ Disjoint(vc, c2)
          /\ hs2 = [c |-> hs2.c, d |-> hs2.d] /\ hs2.c = hdr.c
      BY <1>1, <2>1, <2>5, <2>7, <2>11
    <3>2. OneChunk(hp, hp2, a) /\ a \notin Range(cc) /\ a \notin Range(vc)
      BY <2>5, <2>8 DEF OneChunk
    <3>3. QED BY <3>1, <3>2, <2>9, <2>12, <2>14, OtherStep
  <2>16. InvNext(cc, c2, vc)
    BY <1>2, <1>7, <1>8, <2>15 DEF InvNext
  <2>18. QED BY <1>13, <2>6, <2>16, <2>17
<1>16. QED BY <1>3, <1>14, <1>15

\* What filling the slot after the last one of a container's chain comes to.
SlotAdded(kd, hp, hp2, h, h2, ch) ==
  /\ Better(hp, hp2) /\ Owns(kd, hp2, h2, ch)
  /\ IsHeader(h2) /\ h2.len = h.len + 1 /\ h2.buf = h.buf /\ h.len \in Nat
  /\ SlotOf(ch, h.len) = <<h.tail, hp[h.tail].used + 1>>
  /\ h.tail \in Addr /\ h.tail \in Range(ch) /\ hp[h.tail].is = "chunk"
  /\ \A g : Leads(kd, hp, g, ch) => Leads(kd, hp2, g, ch)
  /\ kd = "ivec" => h.buf # NULL
  /\ kd = "tablets" => \A b \in Addr : b # h.tail => hp2[b] = hp[b]
  /\ \A c3 : Linked(kd, hp, c3) /\ Disjoint(c3, ch) =>
       /\ Linked(kd, hp2, c3) /\ Count(hp2, c3) = Count(hp, c3)
       /\ \A g : Leads(kd, hp, g, c3) /\ g.buf # h.buf => Leads(kd, hp2, g, c3)
       /\ kd = "tablets" => \A g : Leads(kd, hp, g, c3) => Leads(kd, hp2, g, c3)

\* The heap when it is filled with v, at v's address in an ivec's buffer too.
Filling(kd, hp, h, v) ==
  LET hp1 == WithSlot(hp, h.tail, hp[h.tail].used + 1, v)
  IN  IF kd = "ivec" THEN WithItem(hp1, h.buf, h.len + 1, <<h.tail, hp[h.tail].used + 1>>) ELSE hp1

\* One more element in a header.
LEMMA LongerIs ==
  ASSUME NEW h, IsHeader(h), h.len < MaxLen, NEW h2, h2 = [h EXCEPT !.len = @ + 1]
  PROVE  /\ IsHeader(h2) /\ h2.len = h.len + 1 /\ h2.buf = h.buf /\ h2.cap = h.cap
         /\ h2.head = h.head /\ h2.tail = h.tail /\ h.len \in Nat
<1>1. /\ h = [head |-> h.head, tail |-> h.tail, buf |-> h.buf, len |-> h.len, cap |-> h.cap]
      /\ {h.head, h.tail, h.buf} \subseteq Addr \cup {NULL}
      /\ h.len \in 0..MaxLen /\ h.cap \in Nat /\ MaxLen \in Nat
  BY Numbers DEF IsHeader
<1>2. h2 = [head |-> h.head, tail |-> h.tail, buf |-> h.buf, len |-> h.len + 1, cap |-> h.cap]
  BY <1>1
<1>3. /\ h2.head = h.head /\ h2.tail = h.tail /\ h2.buf = h.buf /\ h2.len = h.len + 1 /\ h2.cap = h.cap
      /\ h2 = [head |-> h2.head, tail |-> h2.tail, buf |-> h2.buf, len |-> h2.len, cap |-> h2.cap]
  BY <1>2
<1>4. h2.len \in 0..MaxLen
  BY <1>1, <1>3
<1>5. QED BY <1>1, <1>3, <1>4 DEF IsHeader

\* It is what the stores do.
LEMMA SlotInserted ==
  ASSUME NEW kd, NEW hp, NEW hp2, NEW h, NEW h2, NEW ch, NEW v, Shape(hp), Owns(kd, hp, h, ch),
         kd \in {"tablets", "ivec"}, h.len < MaxLen, h.tail # NULL, hp[h.tail].used # N,
         kd = "ivec" => h.len < h.cap, IsString(hp, v),
         hp2 = Filling(kd, hp, h, v), h2 = [h EXCEPT !.len = @ + 1]
  PROVE  SlotAdded(kd, hp, hp2, h, h2, ch)
<1>1. /\ Linked(kd, hp, ch) /\ Leads(kd, hp, h, ch) /\ IsHeader(h) /\ h.len = Count(hp, ch)
      /\ ch # << >> /\ h.head = ch[1] /\ h.tail = ch[Len(ch)] /\ Len(ch) \in 1..Len(ch)
  <2>1. /\ Linked(kd, hp, ch) /\ Leads(kd, hp, h, ch) /\ IsHeader(h) /\ h.len = Count(hp, ch)
        /\ ch # << >> /\ h.head = ch[1] /\ h.tail = ch[Len(ch)]
    BY DEF Owns, Leads
  <2>2. QED BY <2>1, CountIs
<1>0. ChunkOK(hp, h.tail)
  BY <1>1 DEF Linked
<1>20. h.tail \in Addr /\ hp[h.tail].used \in Nat
  BY <1>0, Numbers DEF ChunkOK
<1>21. PICK a \in Addr : a = h.tail
  BY <1>20
<1>22. PICK k \in Nat : k = hp[a].used + 1
  BY <1>20, <1>21
<1>23. PICK s : s = <<a, k>>
  OBVIOUS
<1>2. a = h.tail /\ k = hp[a].used + 1 /\ s = <<a, k>>
  BY <1>21, <1>22, <1>23
<1>24. a \in Range(ch)
  <2>1. Len(ch) \in DOMAIN ch
    BY <1>1 DEF Linked
  <2>2. QED BY <1>1, <1>2, <2>1 DEF Range
<1>25. hp[a].used \in Nat
  BY <1>20, <1>21
<1>3. a = ch[Len(ch)] /\ a \in Addr /\ a \in Range(ch) /\ ChunkOK(hp, a) /\ hp[a].is = "chunk"
      /\ k \in Nat /\ hp[a].used < k /\ k <= hp[a].used + 1 /\ hp[a].used # N
  BY <1>0, <1>1, <1>2, <1>24, <1>25 DEF ChunkOK
<1>4. PICK hp1 : hp1 = WithSlot(hp, a, k, v)
  OBVIOUS
<1>5. hp2 = IF kd = "ivec" THEN WithItem(hp1, h.buf, h.len + 1, s) ELSE hp1
  BY <1>2, <1>4 DEF Filling
<1>6. Better(hp, hp1)
  BY <1>3, <1>4, SlotBetter
<1>7. Linked(kd, hp1, ch) /\ Count(hp1, ch) = Count(hp, ch) + 1
  <2>1. Linked(kd, hp, ch) /\ EndsIn(ch, a)
    BY <1>1, <1>3 DEF EndsIn
  <2>2. hp[a].used # N /\ hp[a].used < k /\ k <= hp[a].used + 1
    BY <1>3
  <2>3. QED BY <2>1, <2>2, <1>4, LinkedFilled
<1>8. Count(hp, ch) \in Nat /\ SlotOf(ch, Count(hp, ch)) = <<ch[Len(ch)], hp[ch[Len(ch)]].used + 1>>
  BY <1>1, <1>3, SlotNext
<1>9. SlotOf(ch, h.len) = s /\ h.len \in Nat /\ Count(hp1, ch) = h.len + 1
  BY <1>1, <1>2, <1>3, <1>7, <1>8
<1>10. \A b \in Addr : b # a => hp1[b] = hp[b]
  <2>1. k \in DOMAIN hp[a].items
    BY <1>3, Numbers DEF ChunkOK
  <2>2. /\ Shape(hp1)
        /\ \A b \in Addr : /\ hp1[b].is = hp[b].is
                           /\ hp1[b].next = hp[b].next /\ hp1[b].text = hp[b].text
                           /\ DOMAIN hp1[b].items = DOMAIN hp[b].items
        /\ \A b \in Addr : b # a => hp1[b] = hp[b]
        /\ hp1[a].items[k] = v /\ hp1[a].used = hp[a].used + 1
        /\ \A j \in DOMAIN hp[a].items : j # k => hp1[a].items[j] = hp[a].items[j]
    BY <1>3, <1>4, <2>1, SlotStored
  <2>3. QED BY <2>2
<1>11. ASSUME NEW g, Leads(kd, hp, g, ch) PROVE Leads(kd, hp1, g, ch)
  <2>1. Count(hp, ch) \in Nat /\ Count(hp1, ch) \in Nat /\ Count(hp, ch) <= Count(hp1, ch)
    BY <1>7, <1>8
  <2>2. QED BY <1>3, <1>6, <1>10, <1>11, <2>1, LeadsElsewhere
<1>12. ASSUME NEW c3, Linked(kd, hp, c3), Disjoint(c3, ch)
       PROVE  /\ Linked(kd, hp1, c3) /\ Count(hp1, c3) = Count(hp, c3)
              /\ \A g : Leads(kd, hp, g, c3) => Leads(kd, hp1, g, c3)
  <2>1. a \notin Range(c3)
    BY <1>3, <1>12 DEF Disjoint
  <2>2. Linked(kd, hp1, c3) /\ Count(hp1, c3) = Count(hp, c3)
    BY <1>6, <1>10, <1>12, <2>1, LinkedElsewhere
  <2>3. Count(hp, c3) \in Nat /\ Count(hp1, c3) \in Nat /\ Count(hp, c3) <= Count(hp1, c3)
    BY <1>12, <2>2, CountIs
  <2>4. ASSUME NEW g, Leads(kd, hp, g, c3) PROVE Leads(kd, hp1, g, c3)
    BY <1>3, <1>6, <1>10, <2>3, <2>4, LeadsElsewhere
  <2>5. QED BY <2>2, <2>4
<1>13. /\ IsHeader(h2) /\ h2.len = h.len + 1 /\ h2.buf = h.buf /\ h2.cap = h.cap
       /\ h2.head = h.head /\ h2.tail = h.tail /\ h.len \in Nat
  BY <1>1, LongerIs
<1>14. CASE kd = "tablets"
  <2>1. hp2 = hp1
    BY <1>5, <1>14
  <2>2. Owns(kd, hp2, h2, ch)
    <3>1. h2.len <= Count(hp2, ch) /\ h2.len = Count(hp2, ch)
      BY <1>9, <1>13, <2>1
    <3>2. Leads(kd, hp2, h2, ch)
      BY <1>1, <1>13, <1>14, <3>1 DEF Leads
    <3>3. QED BY <1>1, <1>7, <1>13, <2>1, <3>1, <3>2 DEF Owns
  <2>3. kd # "ivec"
    BY <1>14
  <2>4. QED
    BY <1>2, <1>3, <1>6, <1>9, <1>10, <1>11, <1>12, <1>13, <2>1, <2>2, <2>3 DEF SlotAdded
<1>15. CASE kd = "ivec"
  <2>0. /\ h.len < h.cap /\ BytesOK(hp, h, ch) /\ IsHeader(h)
    BY <1>1, <1>15 DEF Leads
  <2>20. h.buf \in Addr /\ h.len + 1 \in Nat
    BY <1>9, <2>0 DEF BytesOK, IsHeader
  <2>21. PICK f \in Addr : f = h.buf
    BY <2>20
  <2>22. PICK m \in Nat : m = h.len + 1
    BY <2>20
  <2>1. f = h.buf /\ m = h.len + 1
    BY <2>21, <2>22
  <2>2. /\ h.len < h.cap /\ h.cap \in Nat /\ BytesOK(hp, h, ch) /\ Leads("ivec", hp, h, ch)
        /\ m \in Nat /\ m \in 1..h.cap
    BY <1>1, <1>9, <1>15, <2>1 DEF Leads, IsHeader
  <2>3. f # NULL /\ f \in Addr /\ hp[f].is = "bytes" /\ DOMAIN hp[f].items = 1..h.cap
    BY <1>1, <2>1, <2>2 DEF BytesOK, IsHeader
  <2>4. f # a /\ hp1[f] = hp[f]
    BY <1>3, <1>10, <2>3
  <2>5. hp2 = WithItem(hp1, f, m, s)
    BY <1>5, <1>15, <2>1
  <2>6. hp1[f].is = "bytes" /\ m \in DOMAIN hp1[f].items /\ Shape(hp1) /\ hp1[f].is # "chunk"
    BY <1>6, <2>2, <2>3, <2>4 DEF Better
  <2>23. hp1[f].is # "chunk" \/ IsString(hp1, s)
    BY <2>6
  <2>24. Shape(hp1) /\ m \in DOMAIN hp1[f].items
    BY <2>6
  <2>7. Better(hp1, hp2)
    BY <2>5, <2>23, <2>24, ItemBetter
  <2>8. Better(hp, hp2)
    BY <1>6, <2>7, BetterTwice
  <2>9. Linked(kd, hp2, ch) /\ Count(hp2, ch) = Count(hp1, ch)
    BY <1>7, <2>5, <2>23, <2>24, LinkedStored
  <2>10. ASSUME NEW g, Leads(kd, hp, g, ch) PROVE Leads(kd, hp2, g, ch)
    <3>1. g.len \in Nat /\ g.len <= Count(hp, ch)
      BY <1>15, <2>10, Numbers DEF Leads, IsHeader
    <3>2. g.len < m
      BY <1>1, <1>9, <2>1, <3>1
    <3>3. Linked("ivec", hp1, ch) /\ Leads("ivec", hp1, g, ch)
      BY <1>7, <1>11, <1>15, <2>10
    <3>4. Leads("ivec", hp2, g, ch)
      BY <2>2, <2>3, <2>5, <2>6, <3>2, <3>3, LeadsMirrored
    <3>5. QED BY <1>15, <3>4
  <2>11. ASSUME NEW c3, Linked(kd, hp, c3), Disjoint(c3, ch)
         PROVE  /\ Linked(kd, hp2, c3) /\ Count(hp2, c3) = Count(hp, c3)
                /\ \A g : Leads(kd, hp, g, c3) /\ g.buf # h.buf => Leads(kd, hp2, g, c3)
    <3>1. /\ Linked(kd, hp1, c3) /\ Count(hp1, c3) = Count(hp, c3)
          /\ \A g : Leads(kd, hp, g, c3) => Leads(kd, hp1, g, c3)
      BY <1>12, <2>11
    <3>2. Linked(kd, hp2, c3) /\ Count(hp2, c3) = Count(hp1, c3)
      <4>1. Linked(kd, hp1, c3)
        BY <3>1
      <4>2. QED BY <2>5, <2>23, <2>24, <4>1, LinkedStored
    <3>3. ASSUME NEW g, Leads(kd, hp, g, c3), g.buf # h.buf PROVE Leads(kd, hp2, g, c3)
      <4>1. g.buf # f /\ Linked("ivec", hp1, c3) /\ Leads("ivec", hp1, g, c3)
        BY <1>15, <2>1, <3>1, <3>3
      <4>2. Leads("ivec", hp2, g, c3)
        BY <2>2, <2>3, <2>5, <2>6, <4>1, LeadsMirrored
      <4>3. QED BY <1>15, <4>2
    <3>4. QED BY <3>1, <3>2, <3>3
  <2>12. Owns(kd, hp2, h2, ch)
    <3>1. h2.len = Count(hp2, ch) /\ h2.len <= Count(hp2, ch)
      BY <1>9, <1>13, <2>9
    <3>2. Leads(kd, hp2, h, ch)
      BY <1>1, <2>10
    <3>3. hp2[f].items[m] = s
      <4>1. /\ Shape(hp2)
            /\ \A b \in Addr : /\ hp2[b].is = hp1[b].is /\ hp2[b].used = hp1[b].used
                               /\ hp2[b].next = hp1[b].next /\ hp2[b].text = hp1[b].text
                               /\ DOMAIN hp2[b].items = DOMAIN hp1[b].items
            /\ \A b \in Addr : b # f => hp2[b] = hp1[b]
            /\ hp2[f].items[m] = s
            /\ \A j \in DOMAIN hp1[f].items : j # m => hp2[f].items[j] = hp1[f].items[j]
        BY <2>5, <2>24, ItemStored
      <4>2. QED BY <4>1
    <3>4. BytesOK(hp2, h, ch)
      BY <1>15, <3>2 DEF Leads
    <3>5. ASSUME NEW j \in 1..h2.cap, j <= h2.len
          PROVE  hp2[h2.buf].items[j] = SlotOf(ch, j - 1)
      <4>1. CASE j <= h.len
        BY <1>13, <3>4, <4>1 DEF BytesOK
      <4>2. CASE ~(j <= h.len)
        <5>1. j = m /\ j - 1 = h.len
          BY <1>13, <2>1, <2>2, <3>5, <4>2
        <5>2. QED BY <1>9, <1>13, <2>1, <3>3, <5>1
      <4>3. QED BY <4>1, <4>2
    <3>6. h2.len <= h2.cap
      BY <1>13, <2>2
    <3>7. BytesOK(hp2, h2, ch)
      BY <1>13, <3>4, <3>5, <3>6 DEF BytesOK
    <3>8. Leads(kd, hp2, h2, ch)
      BY <1>1, <1>13, <1>15, <3>1, <3>7 DEF Leads
    <3>9. QED BY <1>1, <1>13, <2>9, <3>1, <3>8 DEF Owns
  <2>13. kd # "tablets" /\ h.buf # NULL
    BY <1>15, <2>1, <2>3
  <2>14. QED
    BY <1>2, <1>3, <1>9, <1>13, <2>8, <2>10, <2>11, <2>12, <2>13 DEF SlotAdded
<1>16. QED BY <1>14, <1>15

\* The element is there.
LEMMA InsertedIs ==
  ASSUME push = [pc |-> push.pc, to |-> push.to, val |-> push.val, moved |-> push.moved,
                 slot |-> push.slot],
         NEW s, Inserted(s)
  PROVE  /\ push' = [pc |-> push'.pc, to |-> push'.to, val |-> push'.val, moved |-> push'.moved,
                     slot |-> push'.slot]
         /\ push'.pc = "return" /\ push'.to = push.to /\ push'.val = push.val
         /\ push'.moved = push.moved /\ push'.slot = s
         /\ Stored([Header EXCEPT !.len = @ + 1])
         /\ kind' = kind /\ x' = x /\ spill' = spill /\ wedge' = wedge
         /\ view' = view /\ lval' = lval /\ clone' = clone
<1>1. push' = [push EXCEPT !.pc = "return", !.slot = s]
  BY DEF Inserted
<1>2. PICK r : r = [push EXCEPT !.pc = "return"]
  OBVIOUS
<1>3. r = [pc |-> "return", to |-> push.to, val |-> push.val, moved |-> push.moved, slot |-> push.slot]
  BY <1>2
<1>4. push' = [r EXCEPT !.slot = s]
  BY <1>1, <1>2
<1>5. push' = [pc |-> "return", to |-> push.to, val |-> push.val, moved |-> push.moved, slot |-> s]
  BY <1>3, <1>4
<1>6. PICK p : p = push'
  OBVIOUS
<1>7. /\ p.pc = "return" /\ p.to = push.to /\ p.val = push.val /\ p.moved = push.moved /\ p.slot = s
      /\ p = [pc |-> p.pc, to |-> p.to, val |-> p.val, moved |-> p.moved, slot |-> p.slot]
  BY <1>5, <1>6
<1>8. QED BY <1>6, <1>7 DEF Inserted, statement

\* The store of a push into a chunk.
LEMMA InsertChunkedIs ==
  ASSUME InsertChunked
  PROVE  /\ push.pc = "insert" /\ kind # "dvec"
         /\ heap' = Filling(kind, heap, Header, push.val)
         /\ Inserted(<<Header.tail, heap[Header.tail].used + 1>>)
<1> DEFINE s == InsertInto(Header)
           filled == [heap EXCEPT ![s[1]].items[s[2]] = push.val, ![s[1]].used = @ + 1]
<1>1. /\ push.pc = "insert" /\ kind # "dvec" /\ Inserted(s)
      /\ heap' = IF kind = "ivec" THEN [filled EXCEPT ![Header.buf].items[Header.len + 1] = s] ELSE filled
  BY DEF InsertChunked
<1>2. s = <<Header.tail, heap[Header.tail].used + 1>>
      /\ s[1] = Header.tail /\ s[2] = heap[Header.tail].used + 1
  BY DEF InsertInto
<1>3. filled = WithSlot(heap, s[1], s[2], push.val)
  BY DEF WithSlot
<1> HIDE DEF filled, s
<1>4. heap' = IF kind = "ivec" THEN WithItem(filled, Header.buf, Header.len + 1, s) ELSE filled
  BY <1>1 DEF WithItem
<1>5. QED BY <1>1, <1>2, <1>3, <1>4 DEF Filling

\* The invariant after that.
LEMMA InsertChunkedStep ==
  ASSUME NEW cc, NEW cd, NEW vc, InvWith(cc, cd, vc), InsertChunked
  PROVE  InvNext(cc, cd, vc)
<1> DEFINE s == <<Header.tail, heap[Header.tail].used + 1>>
<1>1. /\ push.pc = "insert" /\ kind # "dvec" /\ Inserted(s)
      /\ heap' = Filling(kind, heap, Header, push.val)
  BY InsertChunkedIs
<1>2. /\ push = [pc |-> push.pc, to |-> push.to, val |-> push.val, moved |-> push.moved,
                 slot |-> push.slot]
      /\ push.moved \in BOOLEAN /\ push.val \in spill /\ IsString(heap, push.val)
      /\ hdr = [c |-> hdr.c, d |-> hdr.d]
      /\ \/ push.to = "c" /\ clone.pc = "idle" /\ Pushing(kind, heap, push, hdr.c, cc)
         \/ /\ push.to = "d" /\ clone.pc # "idle" /\ kind = "tablets"
            /\ Pushing(kind, heap, push, hdr.d, cd)
  BY <1>1, TargetIs
<1> HIDE DEF s
<1>3. /\ push' = [pc |-> push'.pc, to |-> push'.to, val |-> push'.val, moved |-> push'.moved,
                  slot |-> push'.slot]
      /\ push'.pc = "return" /\ push'.to = push.to /\ push'.val = push.val
      /\ push'.moved = push.moved /\ push'.slot = s
      /\ Stored([Header EXCEPT !.len = @ + 1])
      /\ kind' = kind /\ x' = x /\ spill' = spill /\ wedge' = wedge
      /\ view' = view /\ lval' = lval /\ clone' = clone
  BY <1>1, <1>2, InsertedIs
<1>4. PICK e : e = [Header EXCEPT !.len = @ + 1]
  OBVIOUS
<1>5. /\ hdr' = [c |-> hdr'.c, d |-> hdr'.d]
      /\ push.to = "c" => Header = hdr.c /\ hdr'.c = e /\ hdr'.d = hdr.d
      /\ push.to = "d" => Header = hdr.d /\ hdr'.d = e /\ hdr'.c = hdr.c
  BY <1>2, <1>3, <1>4, StoredIs
<1>6. PICK hp2 : hp2 = heap'
  OBVIOUS
<1>7. PICK hs2, p2 : hs2 = hdr' /\ p2 = push'
  OBVIOUS
<1>8. /\ Inv(kind, heap, hdr, x, spill, wedge, view, lval, push, clone, cc, cd, vc)
      /\ kind \in Kinds /\ Shape(heap) /\ Owns(kind, heap, hdr.c, cc) /\ Owns(kind, heap, hdr.d, cd)
      /\ Disjoint(cc, cd) /\ ViewOK(kind, heap, view, hdr.c, cc, cd, vc)
      /\ LvalOK(kind, heap, lval, hdr.c, cc, cd) /\ (kind # "tablets" => hdr.d = EmptyHeader)
      /\ CloneOK(kind, heap, clone, push, hdr.d, cc)
  BY DEF InvWith, Inv
<1>9. kind \in {"tablets", "ivec"}
  BY <1>1, <1>8, KindsAssumption
<1>10. /\ Linked(kind, heap, vc) /\ Leads(kind, heap, view.h, vc) /\ Disjoint(vc, cd)
       /\ view.gone \in BOOLEAN /\ (view.gone = FALSE => vc = cc)
       /\ view.gone = TRUE => Disjoint(vc, cc) /\ (view.h.buf = NULL \/ view.h.buf # hdr.c.buf)
  BY <1>8 DEF ViewOK
<1>11. PICK v : v = push.val
  OBVIOUS
<1>12. p2 = [pc |-> p2.pc, to |-> p2.to, val |-> p2.val, moved |-> p2.moved, slot |-> p2.slot]
       /\ p2.pc = "return" /\ p2.to = push.to /\ p2.val \in spill /\ p2.moved \in BOOLEAN /\ p2.slot = s
  BY <1>2, <1>3, <1>7
<1>13. CASE push.to = "c"
  <2>1. clone.pc = "idle" /\ Pushing(kind, heap, push, hdr.c, cc)
    BY <1>2, <1>13
  <2>2. PICK h : h = hdr.c
    OBVIOUS
  <2>3. h.len < MaxLen /\ h.tail # NULL /\ heap[h.tail].used # N /\ (kind = "ivec" => h.len < h.cap)
    BY <1>1, <1>9, <2>1, <2>2 DEF Pushing
  <2>4. /\ hp2 = Filling(kind, heap, h, v) /\ e = [h EXCEPT !.len = @ + 1] /\ Owns(kind, heap, h, cc)
        /\ s = <<h.tail, heap[h.tail].used + 1>> /\ IsString(heap, v)
    BY <1>1, <1>2, <1>4, <1>5, <1>6, <1>8, <1>11, <1>13, <2>2 DEF s
  <2>5. SlotAdded(kind, heap, hp2, h, e, cc)
    BY <1>8, <1>9, <2>3, <2>4, SlotInserted
  <2>6. hs2.c = e /\ hs2.d = hdr.d /\ hs2 = [c |-> hs2.c, d |-> hs2.d]
    BY <1>5, <1>7, <1>13
  <2>7. /\ Better(heap, hp2) /\ Owns(kind, hp2, e, cc)
        /\ e.len = h.len + 1 /\ e.buf = h.buf /\ h.len \in Nat
        /\ SlotOf(cc, h.len) = s
        /\ \A g : Leads(kind, heap, g, cc) => Leads(kind, hp2, g, cc)
        /\ kind = "ivec" => h.buf # NULL
    BY <2>4, <2>5 DEF SlotAdded
  <2>8. \A c3 : Linked(kind, heap, c3) /\ Disjoint(c3, cc) =>
          /\ Linked(kind, hp2, c3) /\ Count(hp2, c3) = Count(heap, c3)
          /\ \A g : Leads(kind, heap, g, c3) /\ g.buf # h.buf => Leads(kind, hp2, g, c3)
          /\ kind = "tablets" => \A g : Leads(kind, heap, g, c3) => Leads(kind, hp2, g, c3)
    BY <2>5 DEF SlotAdded
  <2>9. Owns(kind, hp2, hdr.d, cd)
    <3>1. Linked(kind, heap, cd) /\ Leads(kind, heap, hdr.d, cd) /\ Disjoint(cd, cc)
      BY <1>8 DEF Owns, Disjoint
    <3>2. Linked(kind, hp2, cd) /\ Count(hp2, cd) = Count(heap, cd)
      BY <2>8, <3>1
    <3>3. Leads(kind, hp2, hdr.d, cd)
      <4>1. CASE kind = "tablets"
        BY <2>8, <3>1, <4>1
      <4>2. CASE kind # "tablets"
        <5>1. hdr.d.buf # h.buf
          BY <1>8, <1>9, <2>7, <4>2 DEF EmptyHeader
        <5>2. QED BY <2>8, <3>1, <5>1
      <4>3. QED BY <4>1, <4>2
    <3>4. QED BY <1>8, <3>2, <3>3 DEF Owns
  <2>10. Linked(kind, hp2, vc) /\ Leads(kind, hp2, view.h, vc)
    <3>1. CASE view.gone = FALSE
      <4>1. vc = cc
        BY <1>10, <3>1
      <4>2. QED BY <1>10, <2>7, <4>1 DEF Owns
    <3>2. CASE view.gone = TRUE
      <4>1. Disjoint(vc, cc) /\ (view.h.buf = NULL \/ view.h.buf # h.buf)
        BY <1>10, <2>2, <3>2
      <4>2. CASE kind = "tablets"
        BY <1>10, <2>8, <4>1, <4>2
      <4>3. CASE kind # "tablets"
        <5>1. view.h.buf # h.buf
          BY <1>9, <2>7, <4>1, <4>3
        <5>2. QED BY <1>10, <2>8, <4>1, <5>1
      <4>4. QED BY <4>2, <4>3
    <3>3. QED BY <1>10, <3>1, <3>2
  <2>11. PushOK(kind, hp2, spill, p2, clone, hs2, cc, cd)
    <3>1. e.len > 0 /\ e.len - 1 = h.len
      BY <2>7
    <3>2. Pushing(kind, hp2, p2, e, cc)
      BY <1>12, <2>7, <3>1 DEF Pushing
    <3>3. QED BY <1>12, <1>13, <2>1, <2>6, <3>2 DEF PushOK
  <2>12. hdr.c.len <= hs2.c.len /\ hs2.c.buf = hdr.c.buf /\ Owns(kind, hp2, hs2.c, cc)
    BY <2>2, <2>6, <2>7
  <2>13. Inv(kind, hp2, hs2, x, spill, wedge, view, lval, p2, clone, cc, cd, vc)
    <3>1. /\ view.gone = FALSE => vc = cc
          /\ view.gone = TRUE => vc = vc /\ Disjoint(vc, cc)
          /\ Disjoint(vc, cd) /\ Disjoint(cc, cd) /\ Better(heap, hp2)
      BY <1>8, <1>10, <2>7
    <3>2. lval.on = TRUE => lval.slot[1] \notin Range(cc) \/ lval.slot[1] \in Range(cc)
      OBVIOUS
    <3>3. \A k \in Nat : k < hdr.c.len /\ kind # "dvec" => SlotOf(cc, k) = SlotOf(cc, k)
      OBVIOUS
    <3>4. Inv(kind, heap, hdr, x, spill, wedge, view, lval, push, clone, cc, cd, vc)
      BY <1>8
    <3>5. QED BY <2>1, <2>6, <2>9, <2>10, <2>11, <2>12, <3>1, <3>2, <3>3, <3>4, OwnStep
  <2>14. QED BY <1>3, <1>6, <1>7, <2>13 DEF InvNext
<1>14. CASE push.to = "d"
  <2>1. clone.pc # "idle" /\ kind = "tablets" /\ Pushing(kind, heap, push, hdr.d, cd)
    BY <1>2, <1>14
  <2>2. PICK h : h = hdr.d
    OBVIOUS
  <2>3. h.len < MaxLen /\ h.tail # NULL /\ heap[h.tail].used # N /\ (kind = "ivec" => h.len < h.cap)
    BY <1>1, <2>1, <2>2 DEF Pushing
  <2>4. /\ hp2 = Filling(kind, heap, h, v) /\ e = [h EXCEPT !.len = @ + 1] /\ Owns(kind, heap, h, cd)
        /\ s = <<h.tail, heap[h.tail].used + 1>> /\ IsString(heap, v)
    BY <1>1, <1>2, <1>4, <1>5, <1>6, <1>8, <1>11, <1>14, <2>2 DEF s
  <2>5. SlotAdded(kind, heap, hp2, h, e, cd)
    BY <1>8, <1>9, <2>3, <2>4, SlotInserted
  <2>6. hs2.d = e /\ hs2.c = hdr.c /\ hs2 = [c |-> hs2.c, d |-> hs2.d]
    BY <1>5, <1>7, <1>14
  <2>7. /\ Better(heap, hp2) /\ Owns(kind, hp2, e, cd)
        /\ e.len = h.len + 1 /\ e.buf = h.buf /\ h.len \in Nat
        /\ SlotOf(cd, h.len) = s
        /\ \A b \in Addr : b # h.tail => hp2[b] = heap[b]
        /\ h.tail \in Addr /\ h.tail \in Range(cd) /\ heap[h.tail].is = "chunk"
    BY <2>1, <2>4, <2>5 DEF SlotAdded
  <2>8. PICK a \in Addr : a = h.tail
    BY <2>7
  <2>9. a \notin Range(cc) /\ a \notin Range(vc) /\ heap[a].is = "chunk"
        /\ \A b \in Addr : b # a => hp2[b] = heap[b]
    BY <1>8, <1>10, <2>7, <2>8 DEF Disjoint
  <2>10. PushOK(kind, hp2, spill, p2, clone, hs2, cc, cd)
    <3>1. e.len > 0 /\ e.len - 1 = h.len
      BY <2>7
    <3>2. Pushing(kind, hp2, p2, e, cd)
      BY <1>12, <2>7, <3>1 DEF Pushing
    <3>3. QED BY <1>12, <1>14, <2>1, <2>6, <3>2 DEF PushOK
  <2>11. CloneOK(kind, hp2, clone, p2, e, cc)
    <3>1. Linked(kind, heap, cc) /\ clone.pc = "element" /\ Len(cc) \in Nat /\ clone.i \in Nat
      BY <1>8, <2>1, CountIs DEF Owns, CloneOK
    <3>2. PICK j \in 1..(Len(cc) + 1) : Cursor(heap, clone, push, h, cc, j)
      BY <1>8, <2>2, <3>1 DEF CloneOK
    <3>3. j # Len(cc) + 1
      BY <1>1, <3>2 DEF Cursor
    <3>4. j \in 1..Len(cc)
      BY <3>1, <3>3
    <3>5. cc[j] \in Addr /\ cc[j] # a
      <4>1. DOMAIN cc = 1..Len(cc) /\ cc[j] \in Addr
        BY <3>1, <3>4 DEF Linked, ChunkOK
      <4>2. cc[j] \in Range(cc)
        BY <3>4, <4>1 DEF Range
      <4>3. QED BY <2>9, <4>1, <4>2
    <3>6. hp2[cc[j]].used = heap[cc[j]].used
      BY <2>9, <3>5
    <3>7. Before(hp2, cc, j) = First(j) /\ Before(heap, cc, j) = First(j)
      BY <3>3 DEF Before
    <3>8. First(j) \in Nat
      <4>1. j \in Nat \ {0}
        BY <3>4
      <4>2. QED BY <4>1, FirstGoes
    <3>9. h.len = First(j) + clone.i /\ clone.cur = cc[j] /\ clone.i < heap[cc[j]].used
          /\ clone.i <= heap[cc[j]].used
      BY <1>1, <3>2, <3>3, <3>7 DEF Cursor
    <3>10. e.len = First(j) + clone.i + 1
      BY <2>7, <3>1, <3>8, <3>9
    <3>11. Cursor(hp2, clone, p2, e, cc, j)
      BY <1>12, <3>3, <3>6, <3>7, <3>9, <3>10 DEF Cursor
    <3>12. QED BY <1>8, <3>11 DEF CloneOK
  <2>12. Owns(kind, hp2, hs2.d, cd) /\ CloneOK(kind, hp2, clone, p2, hs2.d, cc)
    BY <2>6, <2>7, <2>11
  <2>13. lval.on = TRUE => lval.slot[1] \notin Range(cd)
    BY <1>8 DEF LvalOK
  <2>14. Inv(kind, hp2, hs2, x, spill, wedge, view, lval, p2, clone, cc, cd, vc)
    <3>1. /\ Inv(kind, heap, hdr, x, spill, wedge, view, lval, push, clone, cc, cd, vc)
          /\ kind = "tablets" /\ Disjoint(cc, cd) /\ Disjoint(vc, cd)
          /\ hs2 = [c |-> hs2.c, d |-> hs2.d] /\ hs2.c = hdr.c
      BY <1>8, <1>10, <2>1, <2>6
    <3>2. OneChunk(heap, hp2, a) /\ a \notin Range(cc) /\ a \notin Range(vc)
      BY <2>7, <2>9 DEF OneChunk
    <3>3. QED BY <3>1, <3>2, <2>10, <2>12, <2>13, OtherStep
  <2>15. QED BY <1>3, <1>6, <1>7, <2>14 DEF InvNext
<1>15. QED BY <1>2, <1>13, <1>14

\* The store of a push into a dvec's buffer.
LEMMA InsertInlineStep ==
  ASSUME NEW cc, NEW cd, NEW vc, InvWith(cc, cd, vc), InsertInline
  PROVE  InvNext(cc, cd, vc)
<1> DEFINE s == <<Header.buf, Header.len + 1>>
<1>1. /\ push.pc = "insert" /\ kind = "dvec" /\ Inserted(s)
      /\ heap' = WithItem(heap, Header.buf, Header.len + 1, push.val)
  BY DEF InsertInline, WithItem
<1>2. /\ push = [pc |-> push.pc, to |-> push.to, val |-> push.val, moved |-> push.moved,
                 slot |-> push.slot]
      /\ push.moved \in BOOLEAN /\ push.val \in spill /\ IsString(heap, push.val)
      /\ hdr = [c |-> hdr.c, d |-> hdr.d]
      /\ \/ push.to = "c" /\ clone.pc = "idle" /\ Pushing(kind, heap, push, hdr.c, cc)
         \/ /\ push.to = "d" /\ clone.pc # "idle" /\ kind = "tablets"
            /\ Pushing(kind, heap, push, hdr.d, cd)
  BY <1>1, TargetIs
<1>3. push.to = "c" /\ clone.pc = "idle" /\ Pushing(kind, heap, push, hdr.c, cc)
  BY <1>1, <1>2
<1> HIDE DEF s
<1>4. /\ push' = [pc |-> push'.pc, to |-> push'.to, val |-> push'.val, moved |-> push'.moved,
                  slot |-> push'.slot]
      /\ push'.pc = "return" /\ push'.to = push.to /\ push'.val = push.val
      /\ push'.moved = push.moved /\ push'.slot = s
      /\ Stored([Header EXCEPT !.len = @ + 1])
      /\ kind' = kind /\ x' = x /\ spill' = spill /\ wedge' = wedge
      /\ view' = view /\ lval' = lval /\ clone' = clone
  BY <1>1, <1>2, InsertedIs
<1>5. PICK e : e = [Header EXCEPT !.len = @ + 1]
  OBVIOUS
<1>6. /\ hdr' = [c |-> hdr'.c, d |-> hdr'.d]
      /\ push.to = "c" => Header = hdr.c /\ hdr'.c = e /\ hdr'.d = hdr.d
      /\ push.to = "d" => Header = hdr.d /\ hdr'.d = e /\ hdr'.c = hdr.c
  BY <1>2, <1>4, <1>5, StoredIs
<1>7. PICK hp2 : hp2 = heap'
  OBVIOUS
<1>8. PICK hs2, p2 : hs2 = hdr' /\ p2 = push'
  OBVIOUS
<1>9. PICK h, v : h = hdr.c /\ v = push.val
  OBVIOUS
<1>10. /\ Inv(kind, heap, hdr, x, spill, wedge, view, lval, push, clone, cc, cd, vc)
       /\ Shape(heap) /\ Owns(kind, heap, h, cc) /\ Owns(kind, heap, hdr.d, cd)
       /\ Disjoint(cc, cd) /\ ViewOK(kind, heap, view, h, cc, cd, vc)
  BY <1>9 DEF InvWith, Inv
<1>11. /\ Linked(kind, heap, vc) /\ Leads(kind, heap, view.h, vc) /\ Disjoint(vc, cd)
       /\ view.gone \in BOOLEAN /\ (view.gone = FALSE => vc = cc)
       /\ view.gone = TRUE => Disjoint(vc, cc)
  BY <1>10 DEF ViewOK
<1>12. h.len < MaxLen /\ h.len < h.cap
  BY <1>1, <1>3, <1>9 DEF Pushing
<1>13. /\ Linked(kind, heap, cc) /\ Leads(kind, heap, h, cc) /\ IsHeader(h) /\ BufferOK(heap, h)
       /\ Linked(kind, heap, cd) /\ Leads(kind, heap, hdr.d, cd)
       /\ h.len \in Nat /\ h.cap \in Nat /\ cc = << >> /\ h.head = NULL /\ h.tail = NULL
  BY <1>1, <1>10, Numbers DEF Owns, Leads, IsHeader, Linked
<1>14. h.buf \in Addr
  BY <1>12, <1>13 DEF BufferOK, IsHeader
<1>15. PICK a \in Addr : a = h.buf
  BY <1>14
<1>16. PICK m \in Nat : m = h.len + 1
  BY <1>13
<1>17. heap[a].is = "buffer" /\ DOMAIN heap[a].items = 1..h.cap /\ m \in 1..h.cap
  BY <1>12, <1>13, <1>15, <1>16, Numbers DEF BufferOK
<1>18. m \in DOMAIN heap[a].items /\ hp2 = WithItem(heap, a, m, v) /\ IsString(heap, v)
  BY <1>1, <1>2, <1>3, <1>6, <1>7, <1>9, <1>15, <1>16, <1>17
<1>19. (heap[a].is # "chunk" \/ IsString(heap, v)) /\ heap[a].is \in {"chunk", "buffer"}
  BY <1>17
<1>20. Better(heap, hp2)
  BY <1>10, <1>18, <1>19, ItemBetter
<1>40. /\ Shape(heap) /\ m \in DOMAIN heap[a].items /\ hp2 = WithItem(heap, a, m, v)
       /\ heap[a].is # "chunk" \/ IsString(heap, v)
       /\ Linked(kind, heap, cc) /\ Linked(kind, heap, cd) /\ Linked(kind, heap, vc)
  BY <1>10, <1>11, <1>13, <1>18, <1>19
<1>21. Linked(kind, hp2, cc) /\ Count(hp2, cc) = Count(heap, cc)
  BY <1>40, LinkedStored
<1>22. Linked(kind, hp2, cd) /\ Count(hp2, cd) = Count(heap, cd)
  BY <1>40, LinkedStored
<1>23. Linked(kind, hp2, vc) /\ Count(hp2, vc) = Count(heap, vc)
  BY <1>40, LinkedStored
<1>24. Leads(kind, hp2, h, cc)
  BY <1>10, <1>13, <1>18, <1>19, LeadsStored
<1>25. Leads(kind, hp2, hdr.d, cd)
  BY <1>10, <1>13, <1>18, <1>19, LeadsStored
<1>26. Leads(kind, hp2, view.h, vc)
  BY <1>10, <1>11, <1>18, <1>19, LeadsStored
<1>27. /\ IsHeader(e) /\ e.len = h.len + 1 /\ e.buf = h.buf /\ e.cap = h.cap
       /\ e.head = h.head /\ e.tail = h.tail
  <2>1. e = [h EXCEPT !.len = @ + 1]
    BY <1>3, <1>5, <1>6, <1>9
  <2>2. QED BY <1>12, <1>13, <2>1, LongerIs
<1>28. hp2[a].items[m] = v
  <2>1. /\ Shape(hp2)
        /\ \A b \in Addr : /\ hp2[b].is = heap[b].is /\ hp2[b].used = heap[b].used
                           /\ hp2[b].next = heap[b].next /\ hp2[b].text = heap[b].text
                           /\ DOMAIN hp2[b].items = DOMAIN heap[b].items
        /\ \A b \in Addr : b # a => hp2[b] = heap[b]
        /\ hp2[a].items[m] = v
        /\ \A j \in DOMAIN heap[a].items : j # m => hp2[a].items[j] = heap[a].items[j]
    BY <1>10, <1>18, ItemStored
  <2>2. QED BY <2>1
<1>29. Owns(kind, hp2, e, cc)
  <2>1. IsString(hp2, v)
    BY <1>18, <1>20, BetterKeeps
  <2>2. BufferOK(hp2, h)
    BY <1>1, <1>24 DEF Leads
  <2>3. ASSUME NEW k \in 1..e.cap, k <= e.len PROVE IsString(hp2, hp2[e.buf].items[k])
    <3>1. CASE k <= h.len
      BY <1>27, <2>2, <3>1 DEF BufferOK
    <3>2. CASE ~(k <= h.len)
      <4>1. k = m
        BY <1>13, <1>16, <1>27, <2>3, <3>2
      <4>2. QED BY <1>15, <1>27, <1>28, <2>1, <4>1
    <3>3. QED BY <3>1, <3>2
  <2>4. e.len <= e.cap
    BY <1>12, <1>13, <1>27
  <2>5. BufferOK(hp2, e)
    BY <1>27, <2>2, <2>3, <2>4 DEF BufferOK
  <2>6. Leads(kind, hp2, e, cc)
    BY <1>1, <1>27, <2>5 DEF Leads
  <2>7. QED BY <1>1, <1>13, <1>21, <1>27, <2>6 DEF Owns
<1>30. Owns(kind, hp2, hdr.d, cd)
  BY <1>1, <1>10, <1>22, <1>25 DEF Owns
<1>31. hs2.c = e /\ hs2.d = hdr.d /\ hs2 = [c |-> hs2.c, d |-> hs2.d]
  BY <1>3, <1>6, <1>8
<1>32. PushOK(kind, hp2, spill, p2, clone, hs2, cc, cd)
  <2>1. p2 = [pc |-> p2.pc, to |-> p2.to, val |-> p2.val, moved |-> p2.moved, slot |-> p2.slot]
        /\ p2.pc = "return" /\ p2.to = "c" /\ p2.val \in spill /\ p2.moved \in BOOLEAN
    BY <1>2, <1>3, <1>4, <1>8
  <2>2. e.len > 0
    BY <1>13, <1>27
  <2>3. Pushing(kind, hp2, p2, e, cc)
    BY <1>1, <2>1, <2>2 DEF Pushing
  <2>4. QED BY <1>3, <1>31, <2>1, <2>3 DEF PushOK
<1>33. hdr.c.len <= hs2.c.len /\ hs2.c.buf = hdr.c.buf /\ Owns(kind, hp2, hs2.c, cc)
  BY <1>9, <1>13, <1>27, <1>29, <1>31
<1>34. Inv(kind, hp2, hs2, x, spill, wedge, view, lval, p2, clone, cc, cd, vc)
  <2>1. /\ view.gone = FALSE => vc = cc
        /\ view.gone = TRUE => vc = vc /\ Disjoint(vc, cc)
        /\ Disjoint(vc, cd) /\ Disjoint(cc, cd)
    BY <1>10, <1>11
  <2>2. lval.on = TRUE => lval.slot[1] \notin Range(cc) \/ lval.slot[1] \in Range(cc)
    OBVIOUS
  <2>3. \A k \in Nat : k < hdr.c.len /\ kind # "dvec" => SlotOf(cc, k) = SlotOf(cc, k)
    OBVIOUS
  <2>4. Inv(kind, heap, hdr, x, spill, wedge, view, lval, push, clone, cc, cd, vc)
    BY <1>10
  <2>5. clone.pc = "idle"
    BY <1>3
  <2>6. QED
    BY <1>20, <1>23, <1>26, <1>30, <1>31, <1>32, <1>33, <2>1, <2>2, <2>3, <2>4, <2>5, OwnStep
<1>35. QED BY <1>4, <1>7, <1>8, <1>34 DEF InvNext

-----------------------------------------------------------------------------
(* The assignment's store.                                                  *)

\* A string is stored where the address says, which is a slot that holds one.
LEMMA StoreStep ==
  ASSUME NEW cc, NEW cd, NEW vc, InvWith(cc, cd, vc), Store
  PROVE  InvNext(cc, cd, vc)
<1>1. /\ push.pc = "idle" /\ clone.pc = "idle" /\ lval.on /\ x # NULL
      /\ heap[lval.slot[1]].is \in {"chunk", "buffer"}
      /\ lval.slot[2] \in DOMAIN heap[lval.slot[1]].items
      /\ heap' = WithItem(heap, lval.slot[1], lval.slot[2], x)
      /\ x' = NULL /\ lval' = NoLval
      /\ kind' = kind /\ hdr' = hdr /\ spill' = spill /\ wedge' = wedge /\ view' = view
      /\ push' = push /\ clone' = clone
  BY DEF Store, Running, WithItem
<1>2. /\ kind \in Kinds /\ Shape(heap) /\ hdr = [c |-> hdr.c, d |-> hdr.d]
      /\ Owns(kind, heap, hdr.c, cc) /\ Owns(kind, heap, hdr.d, cd) /\ Disjoint(cc, cd)
      /\ kind # "tablets" => hdr.d = EmptyHeader
      /\ ViewOK(kind, heap, view, hdr.c, cc, cd, vc)
      /\ WedgeOK(kind, heap, wedge, hdr.c, cc)
      /\ LvalOK(kind, heap, lval, hdr.c, cc, cd)
      /\ Rooted(heap, x, spill)
      /\ PushOK(kind, heap, spill, push, clone, hdr, cc, cd)
      /\ CloneOK(kind, heap, clone, push, hdr.d, cc)
  BY DEF InvWith, Inv
<1>3. /\ Linked(kind, heap, cc) /\ Leads(kind, heap, hdr.c, cc)
      /\ Linked(kind, heap, cd) /\ Leads(kind, heap, hdr.d, cd)
      /\ Linked(kind, heap, vc) /\ Leads(kind, heap, view.h, vc)
  BY <1>2 DEF Owns, ViewOK
<1>4. lval.slot[1] \in Addr /\ IsString(heap, x)
  BY <1>1, <1>2 DEF LvalOK, Rooted, Item
<1>5. PICK a \in Addr : a = lval.slot[1]
  BY <1>4
<1>6. PICK k, v, hp2 : k = lval.slot[2] /\ v = x /\ hp2 = heap'
  OBVIOUS
<1>7. /\ Shape(heap) /\ k \in DOMAIN heap[a].items /\ hp2 = WithItem(heap, a, k, v)
      /\ IsString(heap, v) /\ heap[a].is \in {"chunk", "buffer"}
      /\ heap[a].is # "chunk" \/ IsString(heap, v)
  BY <1>1, <1>2, <1>4, <1>5, <1>6
<1>8. Better(heap, hp2)
  BY <1>7, ItemBetter
<1>9. Linked(kind, hp2, cc) /\ Count(hp2, cc) = Count(heap, cc)
  BY <1>3, <1>7, LinkedStored
<1>10. Linked(kind, hp2, cd) /\ Count(hp2, cd) = Count(heap, cd)
  BY <1>3, <1>7, LinkedStored
<1>11. Linked(kind, hp2, vc) /\ Count(hp2, vc) = Count(heap, vc)
  BY <1>3, <1>7, LinkedStored
<1>12. Leads(kind, hp2, hdr.c, cc)
  BY <1>3, <1>7, LeadsStored
<1>13. Leads(kind, hp2, hdr.d, cd)
  BY <1>3, <1>7, LeadsStored
<1>14. Leads(kind, hp2, view.h, vc)
  BY <1>3, <1>7, LeadsStored
<1>15. Owns(kind, hp2, hdr.c, cc) /\ Owns(kind, hp2, hdr.d, cd)
  BY <1>2, <1>9, <1>10, <1>12, <1>13 DEF Owns
<1>16. /\ \A s : (IsString(heap, s) => IsString(hp2, s)) /\ (Item(heap, s) => Item(hp2, s))
       /\ \A s : Live(heap, s) => Live(hp2, s)
       /\ \A s, sp : Rooted(heap, s, sp) => Rooted(hp2, s, sp)
       /\ \A kd, w, h, ch : WedgeOK(kd, heap, w, h, ch) => WedgeOK(kd, hp2, w, h, ch)
       /\ \A kd, l, h, ch, ch2 : LvalOK(kd, heap, l, h, ch, ch2) => LvalOK(kd, hp2, l, h, ch, ch2)
  BY <1>8, BetterKeeps
<1>17. ViewOK(kind, hp2, view, hdr.c, cc, cd, vc)
  BY <1>2, <1>11, <1>14, <1>16 DEF ViewOK
<1>18. WedgeOK(kind, hp2, wedge, hdr.c, cc)
  BY <1>2, <1>16
<1>19. LvalOK(kind, hp2, NoLval, hdr.c, cc, cd)
  BY DEF LvalOK, NoLval
<1>20. Rooted(hp2, NULL, spill)
  BY <1>2, <1>16 DEF Rooted, Item
<1>21. PushOK(kind, hp2, spill, push, clone, hdr, cc, cd)
  BY <1>1, <1>2 DEF PushOK
<1>22. CloneOK(kind, hp2, clone, push, hdr.d, cc)
  BY <1>1, <1>2 DEF CloneOK
<1>23. Shape(hp2)
  BY <1>8 DEF Better
<1>24. Inv(kind, hp2, hdr, NULL, spill, wedge, view, NoLval, push, clone, cc, cd, vc)
  BY <1>2, <1>15, <1>17, <1>18, <1>19, <1>20, <1>21, <1>22, <1>23 DEF Inv
<1>25. QED BY <1>1, <1>6, <1>24 DEF InvNext

-----------------------------------------------------------------------------
(* Growth.                                                                  *)

\* The buffer a push makes: longer, and as the old one as far as that went.
LEMMA CopiedIs ==
  ASSUME kind \in {"ivec", "dvec"}, NEW h, IsHeader(h), NEW cap, cap = NewCap(h),
         NEW b, b = Copied(h, cap)
  PROVE  /\ IsBlock(b) /\ cap \in Nat \ {0} /\ h.cap \in Nat /\ h.cap < cap
         /\ DOMAIN b.items = 1..cap
         /\ \A k \in 1..cap : k <= h.cap => b.items[k] = heap[h.buf].items[k]
         /\ kind = "ivec" => b.is = "bytes"
         /\ kind = "dvec" => b.is = "buffer" /\ \A k \in 1..cap : ~(k <= h.cap) => b.items[k] = NULL
<1>1. h.cap \in Nat /\ INITIAL_CAP \in Nat \ {0}
  BY Numbers DEF IsHeader
<1>2. cap \in Nat \ {0} /\ h.cap < cap
  BY <1>1 DEF NewCap
<1>3. PICK q, z : q = (IF kind = "ivec" THEN "bytes" ELSE "buffer")
                  /\ z = (IF kind = "ivec" THEN NoSlot ELSE NULL)
  OBVIOUS
<1>4. PICK f, n, c : f = FreeBlock /\ n = [k \in 1..cap |-> z] /\ c = Buffer(cap)
  OBVIOUS
<1>5. f = [is |-> "free", items |-> << >>, used |-> 0, next |-> NULL, text |-> NULL]
  BY <1>4 DEF FreeBlock
<1>6. PICK r : r = [f EXCEPT !.is = q]
  OBVIOUS
<1>7. r = [is |-> q, items |-> << >>, used |-> 0, next |-> NULL, text |-> NULL]
  BY <1>5, <1>6
<1>8. c = [r EXCEPT !.items = n]
  <2>1. CASE kind = "ivec"
    BY <1>3, <1>4, <1>6, <2>1 DEF Buffer
  <2>2. CASE kind # "ivec"
    BY <1>3, <1>4, <1>6, <2>2 DEF Buffer
  <2>3. QED BY <2>1, <2>2
<1>9. c = [is |-> q, items |-> n, used |-> 0, next |-> NULL, text |-> NULL]
  BY <1>7, <1>8
<1>10. PICK m : m = [k \in 1..cap |-> IF k <= h.cap THEN heap[h.buf].items[k] ELSE n[k]]
  OBVIOUS
<1>11. b = [c EXCEPT !.items = [k \in 1..cap |-> IF k <= h.cap THEN heap[h.buf].items[k] ELSE @[k]]]
  BY <1>4 DEF Copied
<1>12. c.items = n
  BY <1>9
<1>13. b = [c EXCEPT !.items = m]
  BY <1>10, <1>11, <1>12
<1>14. b = [is |-> q, items |-> m, used |-> 0, next |-> NULL, text |-> NULL]
  BY <1>9, <1>13
<1>15. /\ b.is = q /\ b.items = m /\ b.used = 0 /\ b.next = NULL /\ b.text = NULL
       /\ b = [is |-> b.is, items |-> b.items, used |-> b.used, next |-> b.next, text |-> b.text]
  BY <1>14
<1>16. q \in {"bytes", "buffer"} /\ (kind = "ivec" => q = "bytes") /\ (kind = "dvec" => q = "buffer" /\ z = NULL)
  BY <1>3
<1>17. IsBlock(b)
  BY <1>15, <1>16 DEF IsBlock, Sorts
<1>18. DOMAIN b.items = 1..cap /\ \A k \in 1..cap : k <= h.cap => b.items[k] = heap[h.buf].items[k]
  BY <1>10, <1>15
<1>19. kind = "dvec" => \A k \in 1..cap : ~(k <= h.cap) => b.items[k] = NULL
  BY <1>4, <1>10, <1>15, <1>16
<1>20. QED BY <1>1, <1>2, <1>15, <1>16, <1>17, <1>18, <1>19

\* The header that has it.
Widened(h, n, cap) == [h EXCEPT !.buf = n, !.cap = cap]

\* It is as it was but for the buffer.
LEMMA WiderIs ==
  ASSUME NEW h, NEW n \in Addr, NEW cap \in Nat, NEW h2, IsHeader(h), h2 = Widened(h, n, cap)
  PROVE  /\ IsHeader(h2) /\ h2.head = h.head /\ h2.tail = h.tail /\ h2.buf = n
         /\ h2.len = h.len /\ h2.cap = cap
<1>1. h = [head |-> h.head, tail |-> h.tail, buf |-> h.buf, len |-> h.len, cap |-> h.cap]
  BY DEF IsHeader
<1>2. PICK r : r = [h EXCEPT !.buf = n]
  OBVIOUS
<1>3. r = [head |-> h.head, tail |-> h.tail, buf |-> n, len |-> h.len, cap |-> h.cap]
  BY <1>1, <1>2
<1>4. h2 = [r EXCEPT !.cap = cap]
  BY <1>2 DEF Widened
<1>5. h2 = [head |-> h.head, tail |-> h.tail, buf |-> n, len |-> h.len, cap |-> cap]
  BY <1>3, <1>4
<1>6. /\ h2.head = h.head /\ h2.tail = h.tail /\ h2.buf = n /\ h2.len = h.len /\ h2.cap = cap
      /\ h2 = [head |-> h2.head, tail |-> h2.tail, buf |-> h2.buf, len |-> h2.len, cap |-> h2.cap]
  BY <1>5
<1>7. QED BY <1>6 DEF IsHeader

\* The container owns its new buffer.
LEMMA WiderOwns ==
  ASSUME NEW cc, NEW h, NEW h2, NEW cap, NEW hp, NEW n \in Addr, NEW b,
         kind \in {"ivec", "dvec"}, Owns(kind, heap, h, cc), Owns(kind, hp, h, cc),
         cap = NewCap(h), b = Copied(h, cap), hp[n] = b, h.len = h.cap,
         h2 = Widened(h, n, cap),
         h.buf # NULL => hp[h.buf] = heap[h.buf]
  PROVE  Owns(kind, hp, h2, cc) /\ h2.len = h.len /\ h2.len < h2.cap /\ h2.buf = n
<1>1. IsHeader(h) /\ Leads(kind, heap, h, cc) /\ Leads(kind, hp, h, cc) /\ Linked(kind, hp, cc)
  BY DEF Owns, Leads
<1>2. /\ IsBlock(b) /\ cap \in Nat \ {0} /\ h.cap \in Nat /\ h.cap < cap
      /\ DOMAIN b.items = 1..cap
      /\ \A k \in 1..cap : k <= h.cap => b.items[k] = heap[h.buf].items[k]
      /\ kind = "ivec" => b.is = "bytes"
      /\ kind = "dvec" => b.is = "buffer" /\ \A k \in 1..cap : ~(k <= h.cap) => b.items[k] = NULL
  BY <1>1, CopiedIs
<1>3. /\ IsHeader(h2) /\ h2.head = h.head /\ h2.tail = h.tail /\ h2.buf = n
      /\ h2.len = h.len /\ h2.cap = cap
  <2>1. PICK m \in Nat : m = cap
    BY <1>2
  <2>2. h2 = Widened(h, n, m)
    BY <2>1
  <2>3. /\ IsHeader(h2) /\ h2.head = h.head /\ h2.tail = h.tail /\ h2.buf = n
        /\ h2.len = h.len /\ h2.cap = m
    BY <1>1, <2>2, WiderIs
  <2>4. QED BY <2>1, <2>3
<1>4. h2.len <= h2.cap /\ n # NULL /\ cap # 0
  BY <1>2, <1>3, Numbers
<1>5. CASE kind = "ivec"
  <2>1. BytesOK(hp, h, cc)
    BY <1>1, <1>5 DEF Leads
  <2>2. ASSUME NEW k \in 1..cap, k <= h2.len PROVE hp[n].items[k] = SlotOf(cc, k - 1)
    <3>1. k \in 1..h.cap /\ k <= h.len /\ k <= h.cap
      BY <1>2, <1>3, <2>2
    <3>2. h.buf # NULL
      BY <2>1, <3>1 DEF BytesOK
    <3>3. hp[h.buf].items[k] = SlotOf(cc, k - 1)
      BY <2>1, <3>1 DEF BytesOK
    <3>4. QED BY <1>2, <3>1, <3>2, <3>3
  <2>3. BytesOK(hp, h2, cc)
    BY <1>2, <1>3, <1>4, <1>5, <2>2 DEF BytesOK
  <2>4. Leads(kind, hp, h2, cc)
    BY <1>1, <1>3, <1>5, <2>3 DEF Leads
  <2>5. QED BY <1>2, <1>3, <2>4 DEF Owns
<1>6. CASE kind = "dvec"
  <2>1. BufferOK(hp, h)
    BY <1>1, <1>6 DEF Leads
  <2>2. ASSUME NEW k \in 1..cap PROVE Item(hp, hp[n].items[k]) /\ (k <= h2.len => IsString(hp, hp[n].items[k]))
    <3>1. CASE k <= h.cap
      <4>1. k \in 1..h.cap /\ k <= h.len
        BY <1>2, <3>1
      <4>2. h.buf # NULL
        BY <2>1, <4>1 DEF BufferOK
      <4>3. IsString(hp, hp[h.buf].items[k]) /\ Item(hp, hp[h.buf].items[k])
        BY <2>1, <4>1 DEF BufferOK
      <4>4. QED BY <1>2, <3>1, <4>2, <4>3
    <3>2. CASE ~(k <= h.cap)
      <4>1. hp[n].items[k] = NULL /\ ~(k <= h2.len)
        BY <1>2, <1>3, <1>6, <3>2
      <4>2. QED BY <4>1 DEF Item
    <3>3. QED BY <3>1, <3>2
  <2>3. BufferOK(hp, h2)
    BY <1>2, <1>3, <1>4, <1>6, <2>2 DEF BufferOK
  <2>4. Leads(kind, hp, h2, cc)
    BY <1>1, <1>3, <1>6, <2>3 DEF Leads
  <2>5. QED BY <1>2, <1>3, <2>4 DEF Owns
<1>7. QED BY <1>5, <1>6

\* The invariant after that.
LEMMA GrowStep ==
  ASSUME NEW cc, NEW cd, NEW vc, InvWith(cc, cd, vc), Grow
  PROVE  InvNext(cc, cd, vc)
<1>1. /\ push.pc = "grow" /\ CanAllocate
      /\ heap' = [Collected EXCEPT ![Fresh] = Copied(Header, NewCap(Header))]
      /\ Stored([Header EXCEPT !.buf = Fresh, !.cap = NewCap(Header)])
      /\ Goto(AfterGrow(Header))
      /\ lval' = [lval EXCEPT !.moved = lval.on /\ (@ \/ kind = "dvec")]
      /\ view' = [view EXCEPT !.grown = view.on /\ (@ \/ kind = "dvec")]
      /\ kind' = kind /\ x' = x /\ spill' = spill /\ wedge' = wedge /\ clone' = clone
  BY DEF Grow, Allocated
<1>2. /\ push = [pc |-> push.pc, to |-> push.to, val |-> push.val, moved |-> push.moved,
                 slot |-> push.slot]
      /\ push.moved \in BOOLEAN /\ push.val \in spill
      /\ hdr = [c |-> hdr.c, d |-> hdr.d]
      /\ \/ push.to = "c" /\ clone.pc = "idle" /\ Pushing(kind, heap, push, hdr.c, cc)
         \/ /\ push.to = "d" /\ clone.pc # "idle" /\ kind = "tablets"
            /\ Pushing(kind, heap, push, hdr.d, cd)
  BY <1>1, TargetIs
<1>3. kind # "tablets" /\ push.to = "c" /\ clone.pc = "idle" /\ Pushing(kind, heap, push, hdr.c, cc)
  BY <1>1, <1>2 DEF Pushing
<1>4. PICK h : h = Header
  OBVIOUS
<1>5. PICK e : e = [h EXCEPT !.buf = Fresh, !.cap = NewCap(h)]
  OBVIOUS
<1>6. /\ hdr' = [c |-> hdr'.c, d |-> hdr'.d]
      /\ push.to = "c" => Header = hdr.c /\ hdr'.c = e /\ hdr'.d = hdr.d
      /\ push.to = "d" => Header = hdr.d /\ hdr'.d = e /\ hdr'.c = hdr.c
  <2>1. Stored(e)
    BY <1>1, <1>4, <1>5
  <2>2. QED BY <1>2, <2>1, StoredIs
<1>7. h = hdr.c /\ hdr'.c = e /\ hdr'.d = hdr.d
  BY <1>3, <1>4, <1>6
<1>8. /\ push' = [pc |-> push'.pc, to |-> push'.to, val |-> push'.val, moved |-> push'.moved,
                  slot |-> push'.slot]
      /\ push'.pc = AfterGrow(h) /\ push'.to = push.to /\ push'.val = push.val
      /\ push'.moved = push.moved /\ push'.slot = push.slot
  <2>1. PICK pc : pc = AfterGrow(h)
    OBVIOUS
  <2>2. Goto(pc)
    BY <1>1, <1>4, <2>1
  <2>3. /\ push' = [pc |-> push'.pc, to |-> push'.to, val |-> push'.val, moved |-> push'.moved,
                    slot |-> push'.slot]
        /\ push'.pc = pc /\ push'.to = push.to /\ push'.val = push.val
        /\ push'.moved = push.moved /\ push'.slot = push.slot
    BY <1>2, <2>2, GotoIs
  <2>4. QED BY <2>1, <2>3
<1>9. h.len < MaxLen /\ h.len = h.cap
  BY <1>1, <1>3, <1>7 DEF Pushing
<1>10. /\ kind \in Kinds /\ Owns(kind, heap, h, cc) /\ IsHeader(h)
  BY <1>7 DEF InvWith, Inv, Owns, Leads
<1>11. kind \in {"ivec", "dvec"}
  BY <1>3, <1>10, KindsAssumption
<1>12. PICK cap, b : cap = NewCap(h) /\ b = Copied(h, cap)
  OBVIOUS
<1>13. IsBlock(b) /\ h.cap \in Nat /\ h.cap < cap
  <2>1. /\ IsBlock(b) /\ cap \in Nat \ {0} /\ h.cap \in Nat /\ h.cap < cap
        /\ DOMAIN b.items = 1..cap
        /\ \A k \in 1..cap : k <= h.cap => b.items[k] = heap[h.buf].items[k]
        /\ kind = "ivec" => b.is = "bytes"
        /\ kind = "dvec" => b.is = "buffer" /\ \A k \in 1..cap : ~(k <= h.cap) => b.items[k] = NULL
    BY <1>10, <1>11, <1>12, CopiedIs
  <2>2. QED BY <2>1
<1>14. PICK hp : hp = heap'
  OBVIOUS
<1>15. hp = [Collected EXCEPT ![Fresh] = b]
  BY <1>1, <1>4, <1>12, <1>14
<1>16. /\ AllocatedAt(hp, Fresh, b)
       /\ Inv(kind, hp, hdr, x, spill, wedge, view, lval, push, clone, cc, cd, vc)
  BY <1>1, <1>13, <1>15, AllocatedIs
<1>17. PICK n \in Addr : n = Fresh
  BY <1>16 DEF AllocatedAt
<1>18. hp[n] = b /\ heap[n].is = "free" /\ Kept(heap, hp, Reached)
  BY <1>16, <1>17 DEF AllocatedAt
<1>19. /\ Shape(hp) /\ Owns(kind, hp, h, cc) /\ Owns(kind, hp, hdr.d, cd) /\ Disjoint(cc, cd)
       /\ kind # "tablets" => hdr.d = EmptyHeader
       /\ ViewOK(kind, hp, view, h, cc, cd, vc)
       /\ WedgeOK(kind, hp, wedge, h, cc) /\ LvalOK(kind, hp, lval, h, cc, cd)
       /\ Rooted(hp, x, spill)
       /\ PushOK(kind, hp, spill, push, clone, hdr, cc, cd)
       /\ CloneOK(kind, hp, clone, push, hdr.d, cc)
  BY <1>7, <1>16 DEF Inv
<1>20. n # h.buf /\ n # view.h.buf /\ (lval.on = TRUE => n # lval.slot[1])
  BY <1>3, <1>7, <1>18, FreeUnheld
<1>21. /\ Spans(heap, Reached, cc) /\ BufSpans(kind, heap, Reached, h)
  BY <1>7, HeldReached
<1>22. h.buf # NULL => hp[h.buf] = heap[h.buf]
  <2>1. SUFFICES ASSUME h.buf # NULL PROVE hp[h.buf] = heap[h.buf]
    OBVIOUS
  <2>2. h.buf \in Reached
    BY <1>3, <1>21, <2>1 DEF BufSpans
  <2>3. h.buf \in Addr /\ heap[h.buf].is # "free"
    <3>1. h.buf \in Addr
      BY <1>10, <2>1 DEF IsHeader
    <3>2. Leads(kind, heap, h, cc)
      BY <1>10 DEF Owns
    <3>3. heap[h.buf].is \in {"bytes", "buffer"}
      BY <1>11, <2>1, <3>2 DEF Leads, BytesOK, BufferOK
    <3>4. QED BY <3>1, <3>3
  <2>4. QED BY <1>18, <2>2, <2>3 DEF Kept
<1>23. Owns(kind, hp, e, cc) /\ e.len = h.len /\ e.len < e.cap /\ e.buf = n
  <2>1. e = Widened(h, n, cap)
    BY <1>5, <1>12, <1>17 DEF Widened
  <2>2. /\ n \in Addr /\ kind \in {"ivec", "dvec"}
        /\ Owns(kind, heap, h, cc) /\ Owns(kind, hp, h, cc)
        /\ cap = NewCap(h) /\ b = Copied(h, cap) /\ hp[n] = b /\ h.len = h.cap
        /\ e = Widened(h, n, cap) /\ (h.buf # NULL => hp[h.buf] = heap[h.buf])
    BY <1>9, <1>10, <1>11, <1>12, <1>18, <1>19, <1>22, <2>1
  <2>3. QED BY <2>2, WiderOwns
<1>24. e.head = h.head /\ e.tail = h.tail
  <2>1. cc = << >> => e.head = NULL /\ e.tail = NULL /\ h.head = NULL /\ h.tail = NULL
    BY <1>10, <1>23 DEF Owns
  <2>2. cc # << >> => e.head = cc[1] /\ e.tail = cc[Len(cc)] /\ h.head = cc[1] /\ h.tail = cc[Len(cc)]
    BY <1>10, <1>23 DEF Owns
  <2>3. QED BY <2>1, <2>2
<1>25. ViewOK(kind, hp, view', e, cc, cd, vc)
  <2>1. /\ view = [on |-> view.on, h |-> view.h, i |-> view.i, grown |-> view.grown, gone |-> view.gone]
        /\ view.on \in BOOLEAN /\ view.grown \in BOOLEAN /\ view.gone \in BOOLEAN
        /\ view.on = FALSE => view.h = EmptyHeader /\ view.grown = FALSE /\ view.gone = FALSE
        /\ Linked(kind, hp, vc) /\ Leads(kind, hp, view.h, vc) /\ Disjoint(vc, cd)
        /\ \A a \in Ptrs(kind, view.h) : a = NULL \/ Live(hp, a)
        /\ view.gone = FALSE => vc = cc /\ view.h.len <= h.len
        /\ view.gone = TRUE => /\ Disjoint(vc, cc)
                               /\ vc # << >> => view.h.head = vc[1]
    BY <1>19 DEF ViewOK
  <2>2. PICK g \in BOOLEAN : g = (view.on /\ (view.grown \/ kind = "dvec"))
    OBVIOUS
  <2>3. view' = [view EXCEPT !.grown = g]
    BY <1>1, <2>2
  <2>4. view' = [on |-> view.on, h |-> view.h, i |-> view.i, grown |-> g, gone |-> view.gone]
    BY <2>1, <2>3
  <2>5. PICK v : v = view'
    OBVIOUS
  <2>6. /\ v.on = view.on /\ v.h = view.h /\ v.i = view.i /\ v.grown = g /\ v.gone = view.gone
        /\ v = [on |-> v.on, h |-> v.h, i |-> v.i, grown |-> v.grown, gone |-> v.gone]
    BY <2>4, <2>5
  <2>7. view.on = TRUE /\ kind = "dvec" => g = TRUE
    BY <2>2
  <2>8. view.on = FALSE => g = FALSE
    BY <2>2
  <2>9. view.h.buf = NULL \/ view.h.buf # e.buf
    BY <1>20, <1>23
  <2>10. view.gone = FALSE => vc = cc /\ view.h.len <= e.len
    BY <1>23, <2>1
  <2>11. ViewOK(kind, hp, v, e, cc, cd, vc)
    BY <2>1, <2>6, <2>7, <2>8, <2>9, <2>10 DEF ViewOK
  <2>12. QED BY <2>5, <2>11
<1>26. WedgeOK(kind, hp, wedge, e, cc)
  BY <1>19, <1>23 DEF WedgeOK
<1>27. LvalOK(kind, hp, lval', e, cc, cd)
  <2>1. /\ lval = [on |-> lval.on, slot |-> lval.slot, i |-> lval.i, moved |-> lval.moved, gone |-> lval.gone]
        /\ lval.on \in BOOLEAN /\ lval.moved \in BOOLEAN
        /\ lval.on = TRUE =>
             /\ lval.slot[1] \in Addr /\ hp[lval.slot[1]].is # "free" /\ lval.slot[1] \notin Range(cd)
             /\ lval.moved = FALSE =>
                  /\ lval.i \in Nat /\ lval.i < h.len
                  /\ kind # "dvec" => lval.slot = SlotOf(cc, lval.i)
             /\ lval.moved = TRUE => lval.slot[1] \notin Range(cc)
    BY <1>19 DEF LvalOK
  <2>2. PICK g \in BOOLEAN : g = (lval.on /\ (lval.moved \/ kind = "dvec"))
    OBVIOUS
  <2>3. lval' = [lval EXCEPT !.moved = g]
    BY <1>1, <2>2
  <2>4. lval' = [on |-> lval.on, slot |-> lval.slot, i |-> lval.i, moved |-> g, gone |-> lval.gone]
    BY <2>1, <2>3
  <2>5. PICK l : l = lval'
    OBVIOUS
  <2>6. /\ l.on = lval.on /\ l.slot = lval.slot /\ l.i = lval.i /\ l.moved = g /\ l.gone = lval.gone
        /\ l = [on |-> l.on, slot |-> l.slot, i |-> l.i, moved |-> l.moved, gone |-> l.gone]
    BY <2>4, <2>5
  <2>7. lval.on = TRUE /\ g = FALSE => lval.moved = FALSE /\ kind # "dvec"
    BY <2>1, <2>2
  <2>8. lval.on = TRUE /\ g = TRUE => lval.moved = TRUE \/ kind = "dvec"
    BY <2>1, <2>2
  <2>9. kind = "dvec" => Range(cc) = {}
    <3>1. kind = "dvec" => cc = << >>
      BY <1>10 DEF Owns, Linked
    <3>2. QED BY <3>1, RangeEmpty
  <2>10. lval.on = TRUE => lval.slot[1] # e.buf
    BY <1>20, <1>23
  <2>11. lval.on = TRUE /\ g = TRUE => lval.slot[1] \notin Range(cc)
    BY <2>1, <2>8, <2>9
  <2>12. LvalOK(kind, hp, l, e, cc, cd)
    BY <1>23, <2>1, <2>6, <2>7, <2>10, <2>11 DEF LvalOK
  <2>13. QED BY <2>5, <2>12
<1>28. PICK hs2, p2 : hs2 = hdr' /\ p2 = push'
  OBVIOUS
<1>29. hs2.c = e /\ hs2.d = hdr.d /\ hs2 = [c |-> hs2.c, d |-> hs2.d]
  BY <1>6, <1>7, <1>28
<1>30. hp[h.tail].used = heap[h.tail].used \/ h.tail = NULL
  <2>1. CASE cc = << >>
    BY <1>10, <2>1 DEF Owns
  <2>2. CASE cc # << >>
    <3>1. Linked(kind, heap, cc) /\ h.tail = cc[Len(cc)]
      BY <1>10, <2>2 DEF Owns
    <3>2. Len(cc) \in 1..Len(cc)
      BY <2>2, <3>1, CountIs
    <3>3. /\ Linked(kind, hp, cc) /\ Count(hp, cc) = Count(heap, cc)
          /\ \A i \in 1..Len(cc) : hp[cc[i]] = heap[cc[i]]
      BY <1>18, <1>21, <3>1, KeptChain
    <3>4. QED BY <3>1, <3>2, <3>3
  <2>3. QED BY <2>1, <2>2
<1>31. Pushing(kind, hp, p2, e, cc)
  <2>1. p2.pc = "chunk" => kind # "dvec" /\ (h.tail = NULL \/ heap[h.tail].used = N)
    BY <1>8, <1>28 DEF AfterGrow, TailFull
  <2>2. p2.pc = "insert" => kind = "dvec" \/ (h.tail # NULL /\ heap[h.tail].used # N)
    BY <1>8, <1>28 DEF AfterGrow, TailFull
  <2>3. p2.pc \in {"chunk", "insert"}
    BY <1>8, <1>28 DEF AfterGrow
  <2>4. QED BY <1>9, <1>23, <1>24, <1>30, <2>1, <2>2, <2>3 DEF Pushing
<1>32. PushOK(kind, hp, spill, p2, clone, hs2, cc, cd)
  <2>1. p2 = [pc |-> p2.pc, to |-> p2.to, val |-> p2.val, moved |-> p2.moved, slot |-> p2.slot]
        /\ p2.to = "c" /\ p2.val \in spill /\ p2.moved \in BOOLEAN
    BY <1>2, <1>3, <1>8, <1>28
  <2>2. p2.pc \in {"chunk", "insert"}
    BY <1>8, <1>28 DEF AfterGrow
  <2>3. QED BY <1>3, <1>29, <1>31, <2>1, <2>2 DEF PushOK
<1>33. CloneOK(kind, hp, clone, p2, hdr.d, cc)
  BY <1>3, <1>19 DEF CloneOK
<1>34. PICK v, l : v = view' /\ l = lval'
  OBVIOUS
<1>35. Inv(kind, hp, hs2, x, spill, wedge, v, l, p2, clone, cc, cd, vc)
  BY <1>10, <1>19, <1>23, <1>25, <1>26, <1>27, <1>29, <1>32, <1>33, <1>34 DEF Inv
<1>36. QED BY <1>1, <1>14, <1>28, <1>34, <1>35 DEF InvNext

-----------------------------------------------------------------------------
(* The invariant holds.                                                     *)

\* At the start there is nothing.
LEMMA InitInv ==
  ASSUME Init
  PROVE  IInv
<1>1. Shape(heap)
  <2>1. \A a \in Addr : heap[a] = [is |-> "free", items |-> << >>, used |-> 0, next |-> NULL, text |-> NULL]
    BY DEF Init, FreeBlock
  <2>2. heap = [a \in Addr |-> heap[a]]
    BY DEF Init
  <2>3. ASSUME NEW a \in Addr
        PROVE  /\ heap[a].is \in Sorts
               /\ heap[a] = [is |-> heap[a].is, items |-> heap[a].items, used |-> heap[a].used,
                             next |-> heap[a].next, text |-> heap[a].text]
    <3>1. heap[a] = [is |-> "free", items |-> << >>, used |-> 0, next |-> NULL, text |-> NULL]
      BY <2>1
    <3>2. QED BY <3>1 DEF Sorts
  <2>4. QED BY <2>2, <2>3 DEF Shape
<1>2. hdr = [c |-> hdr.c, d |-> hdr.d] /\ hdr.c = EmptyHeader /\ hdr.d = EmptyHeader
  BY DEF Init
<1>3. Owns(kind, heap, EmptyHeader, << >>) /\ Linked(kind, heap, << >>) /\ Range(<< >>) = {}
  BY EmptyOwns
<1>4. Disjoint(<< >>, << >>)
  BY <1>3 DEF Disjoint
<1>5. ViewOK(kind, heap, view, EmptyHeader, << >>, << >>, << >>)
  <2>1. view = [on |-> FALSE, h |-> EmptyHeader, i |-> 0, grown |-> FALSE, gone |-> FALSE]
    BY DEF Init, NoView
  <2>2. PICK v : v = view
    OBVIOUS
  <2>3. /\ v.on = FALSE /\ v.h = EmptyHeader /\ v.i = 0 /\ v.grown = FALSE /\ v.gone = FALSE
        /\ v = [on |-> v.on, h |-> v.h, i |-> v.i, grown |-> v.grown, gone |-> v.gone]
    BY <2>1, <2>2
  <2>4. Leads(kind, heap, EmptyHeader, << >>)
    BY <1>3, EmptyLeads
  <2>5. EmptyHeader.head = NULL /\ EmptyHeader.tail = NULL /\ EmptyHeader.buf = NULL /\ EmptyHeader.len = 0
    BY DEF EmptyHeader
  <2>6. \A a \in Ptrs(kind, EmptyHeader) : a = NULL
    <3>1. kind \in {"tablets", "ivec", "dvec"}
      BY KindsAssumption DEF Init
    <3>2. QED BY <2>5, <3>1 DEF Ptrs
  <2>7. EmptyHeader.len <= EmptyHeader.len
    BY <2>5
  <2>8. ViewOK(kind, heap, v, EmptyHeader, << >>, << >>, << >>)
    BY <1>3, <1>4, <2>3, <2>4, <2>6, <2>7 DEF ViewOK
  <2>9. QED BY <2>2, <2>8
<1>6. WedgeOK(kind, heap, wedge, EmptyHeader, << >>)
  BY DEF Init, WedgeOK, NoWedge
<1>7. LvalOK(kind, heap, lval, EmptyHeader, << >>, << >>)
  <2>1. lval = [on |-> FALSE, slot |-> NoSlot, i |-> 0, moved |-> FALSE, gone |-> FALSE]
    BY DEF Init, NoLval
  <2>2. PICK l : l = lval
    OBVIOUS
  <2>3. l.on = FALSE /\ l.moved = FALSE /\ l = [on |-> l.on, slot |-> l.slot, i |-> l.i, moved |-> l.moved, gone |-> l.gone]
    BY <2>1, <2>2
  <2>4. LvalOK(kind, heap, l, EmptyHeader, << >>, << >>)
    BY <2>3 DEF LvalOK
  <2>5. QED BY <2>2, <2>4
<1>8. Rooted(heap, x, spill)
  BY DEF Init, Rooted, Item
<1>9. PushOK(kind, heap, spill, push, clone, hdr, << >>, << >>)
  BY DEF Init, PushOK, Idle
<1>10. CloneOK(kind, heap, clone, push, EmptyHeader, << >>)
  BY DEF Init, CloneOK, NoClone
<1>11. kind \in Kinds
  BY DEF Init
<1>12. InvWith(<< >>, << >>, << >>)
  BY <1>1, <1>2, <1>3, <1>4, <1>5, <1>6, <1>7, <1>8, <1>9, <1>10, <1>11 DEF InvWith, Inv
<1>13. << >> \in Seq(Addr)
  OBVIOUS
<1>14. QED BY <1>12, <1>13 DEF IInv

\* The chains are the ones the headers lead along.
LEMMA ChainsExist ==
  ASSUME NEW cc, NEW cd, NEW vc, InvNext(cc, cd, vc)
  PROVE  \E cc2, cd2, vc2 \in Seq(Addr) : InvNext(cc2, cd2, vc2)
<1>1. Owns(kind', heap', hdr'.c, cc) /\ Owns(kind', heap', hdr'.d, cd)
      /\ ViewOK(kind', heap', view', hdr'.c, cc, cd, vc)
  BY DEF InvNext, Inv
<1>2. cc \in Seq(Addr) /\ cd \in Seq(Addr)
  BY <1>1 DEF Owns, Linked
<1>3. vc \in Seq(Addr)
  BY <1>1 DEF ViewOK, Linked
<1>4. QED BY <1>2, <1>3

\* A step keeps it, whichever it is.
LEMMA NextInv ==
  ASSUME IInv, [Next]_vars
  PROVE  \E cc2, cd2, vc2 \in Seq(Addr) : InvNext(cc2, cd2, vc2)
<1>1. PICK cc, cd, vc \in Seq(Addr) : InvWith(cc, cd, vc)
  BY DEF IInv
<1>2. CASE Grow
  <2>1. InvNext(cc, cd, vc)
    BY <1>1, <1>2, GrowStep
  <2>2. QED BY <2>1, ChainsExist
<1>3. CASE NewChunk
  <2>1. \E cc2, cd2, vc2 \in Seq(Addr) :
          InvNext(cc2, cd2, vc2) /\ Continues(cc, cc2) /\ Continues(cd, cd2)
    BY <1>1, <1>3, NewChunkStep
  <2>2. QED BY <2>1
<1>4. CASE InsertChunked
  <2>1. InvNext(cc, cd, vc)
    BY <1>1, <1>4, InsertChunkedStep
  <2>2. QED BY <2>1, ChainsExist
<1>5. CASE InsertInline
  <2>1. InvNext(cc, cd, vc)
    BY <1>1, <1>5, InsertInlineStep
  <2>2. QED BY <2>1, ChainsExist
<1>6. CASE NewString
  <2>1. InvNext(cc, cd, vc)
    BY <1>1, <1>6, NewStringStep
  <2>2. QED BY <2>1, ChainsExist
<1>7. CASE PushMoved
  <2>1. InvNext(cc, cd, vc)
    BY <1>1, <1>7, PushMovedStep
  <2>2. QED BY <2>1, ChainsExist
<1>8. ASSUME NEW i \in Indexed, Resolve(i)
      PROVE  \E cc2, cd2, vc2 \in Seq(Addr) : InvNext(cc2, cd2, vc2)
  <2>1. InvNext(cc, cd, vc)
    BY <1>1, <1>8, ResolveStep
  <2>2. QED BY <2>1, ChainsExist
<1>9. ASSUME NEW i \in CopyFrom, PushCopy(i)
      PROVE  \E cc2, cd2, vc2 \in Seq(Addr) : InvNext(cc2, cd2, vc2)
  <2>1. InvNext(cc, cd, vc)
    BY <1>1, <1>9, PushCopyStep
  <2>2. QED BY <2>1, ChainsExist
<1>10. ASSUME NEW keep \in BOOLEAN, Return(keep)
      PROVE  \E cc2, cd2, vc2 \in Seq(Addr) : InvNext(cc2, cd2, vc2)
  <2>1. InvNext(cc, cd, vc)
    BY <1>1, <1>10, ReturnStep
  <2>2. QED BY <2>1, ChainsExist
<1>11. CASE Store
  <2>1. InvNext(cc, cd, vc)
    BY <1>1, <1>11, StoreStep
  <2>2. QED BY <2>1, ChainsExist
<1>12. CASE ForBegin
  <2>1. InvNext(cc, cd, cc)
    BY <1>1, <1>12, ForBeginStep
  <2>2. QED BY <2>1, ChainsExist
<1>13. CASE ForNext
  <2>1. InvNext(cc, cd, vc)
    BY <1>1, <1>13, ForNextStep
  <2>2. QED BY <2>1, ChainsExist
<1>14. CASE ForEnd
  <2>1. InvNext(cc, cd, cc)
    BY <1>1, <1>14, ForEndStep
  <2>2. QED BY <2>1, ChainsExist
<1>15. CASE Release
  <2>1. InvNext(<< >>, cd, IF view.gone = TRUE \/ view.h.len > 0 THEN vc ELSE << >>)
    BY <1>1, <1>15, ReleaseStep
  <2>2. QED BY <2>1, ChainsExist
<1>16. CASE Forget
  <2>1. InvNext(cc, cd, vc)
    BY <1>1, <1>16, ForgetStep
  <2>2. QED BY <2>1, ChainsExist
<1>17. CASE CloneBegin
  <2>1. InvNext(cc, << >>, vc)
    BY <1>1, <1>17, CloneBeginStep
  <2>2. QED BY <2>1, ChainsExist
<1>18. CASE CloneElement
  <2>1. InvNext(cc, cd, vc)
    BY <1>1, <1>18, CloneElementStep
  <2>2. QED BY <2>1, ChainsExist
<1>19. CASE CloneReturn
  <2>1. InvNext(cc, cd, vc)
    BY <1>1, <1>19, CloneReturnStep
  <2>2. QED BY <2>1, ChainsExist
<1>20. CASE CloneAdvance
  <2>1. InvNext(cc, cd, vc)
    BY <1>1, <1>20, CloneAdvanceStep
  <2>2. QED BY <2>1, ChainsExist
<1>21. CASE CloneEnd
  <2>1. InvNext(cc, cd, vc)
    BY <1>1, <1>21, CloneEndStep
  <2>2. QED BY <2>1, ChainsExist
<1>22. CASE CloneDrop
  <2>1. InvNext(cc, << >>, vc)
    BY <1>1, <1>22, CloneDropStep
  <2>2. QED BY <2>1, ChainsExist
<1>23. CASE UNCHANGED vars
  <2>1. /\ kind' = kind /\ heap' = heap /\ hdr' = hdr /\ x' = x /\ spill' = spill /\ wedge' = wedge
        /\ view' = view /\ lval' = lval /\ push' = push /\ clone' = clone
    BY <1>23 DEF vars
  <2>2. InvNext(cc, cd, vc)
    BY <1>1, <2>1 DEF InvWith, InvNext
  <2>3. QED BY <2>2, ChainsExist
<1>24. QED BY <1>2, <1>3, <1>4, <1>5, <1>6, <1>7, <1>8, <1>9, <1>10, <1>11, <1>12, <1>13, <1>14, <1>15, <1>16, <1>17, <1>18, <1>19, <1>20, <1>21, <1>22, <1>23 DEF Next

\* Every reachable state has chains that fit: the inductive invariant of the
\* containers.
THEOREM InvariantHolds == Spec => []IInv
<1>1. Init => IInv
  BY InitInv
<1>2. IInv /\ [Next]_vars => IInv'
  <2>1. SUFFICES ASSUME IInv, [Next]_vars PROVE IInv'
    OBVIOUS
  <2>2. \E cc2, cd2, vc2 \in Seq(Addr) : InvNext(cc2, cd2, vc2)
    BY <2>1, NextInv
  <2>3. PICK cc2, cd2, vc2 \in Seq(Addr) : InvNext(cc2, cd2, vc2)
    BY <2>2
  <2>4. InvWith(cc2, cd2, vc2)'
    BY <2>3 DEF InvNext, InvWith
  <2>5. QED BY <2>4 DEF IInv
<1>3. QED BY <1>1, <1>2, PTL DEF Spec

-----------------------------------------------------------------------------
(* What follows from the invariant.                                         *)

\* An index of a container of a header that leads along a chain.
LEMMA IndexIs ==
  ASSUME NEW kd, NEW h, NEW ch, Leads(kd, heap, h, ch), NEW i \in Indices(h)
  PROVE  i \in Nat /\ i < h.len
<1>1. h.len \in 0..MaxLen /\ MaxLen \in Nat
  BY Numbers DEF Leads, IsHeader
<1>2. QED BY <1>1 DEF Indices

\* The fields of the state have their types.
LEMMA InvTyped ==
  ASSUME IInv
  PROVE  TypeOK
<1>1. PICK cc, cd, vc \in Seq(Addr) : InvWith(cc, cd, vc)
  BY DEF IInv
<1>2. /\ kind \in Kinds /\ Shape(heap) /\ hdr = [c |-> hdr.c, d |-> hdr.d]
      /\ Owns(kind, heap, hdr.c, cc) /\ Owns(kind, heap, hdr.d, cd)
      /\ kind # "tablets" => hdr.d = EmptyHeader
      /\ Rooted(heap, x, spill) /\ PushOK(kind, heap, spill, push, clone, hdr, cc, cd)
      /\ CloneOK(kind, heap, clone, push, hdr.d, cc)
  BY <1>1 DEF InvWith, Inv
<1>3. ASSUME NEW a \in Addr PROVE heap[a].is \in {"free", "swept", "string", "chunk", "bytes", "buffer"}
  BY <1>2 DEF Shape, Sorts
<1>4. ASSUME NEW n \in {"c", "d"}
      PROVE  hdr[n].len \in 0..MaxLen /\ (kind # "tablets" => hdr[n].len <= hdr[n].cap)
  <2>1. \A h, ch : Owns(kind, heap, h, ch) => h.len \in 0..MaxLen /\ (kind # "tablets" => h.len <= h.cap)
    <3>1. SUFFICES ASSUME NEW h, NEW ch, Owns(kind, heap, h, ch)
                   PROVE  h.len \in 0..MaxLen /\ (kind # "tablets" => h.len <= h.cap)
      OBVIOUS
    <3>2. Leads(kind, heap, h, ch)
      BY <3>1 DEF Owns
    <3>3. kind \in {"tablets", "ivec", "dvec"}
      BY <1>2, KindsAssumption
    <3>4. h.len \in 0..MaxLen
      BY <3>2 DEF Leads, IsHeader
    <3>5. kind # "tablets" => h.len <= h.cap
      BY <3>2, <3>3 DEF Leads, BytesOK, BufferOK
    <3>6. QED BY <3>4, <3>5
  <2>2. CASE n = "c"
    <3>1. Owns(kind, heap, hdr[n], cc)
      BY <1>2, <2>2
    <3>2. QED BY <2>1, <3>1
  <2>3. CASE n = "d"
    <3>1. Owns(kind, heap, hdr[n], cd)
      BY <1>2, <2>3
    <3>2. QED BY <2>1, <3>1
  <2>4. QED BY <2>2, <2>3
<1>5. x \in Addr \cup {NULL} /\ spill \subseteq Addr
  BY <1>2 DEF Rooted, Item, IsString
<1>6. push.pc \in {"idle", "grow", "chunk", "insert", "return"}
  BY <1>2 DEF PushOK
<1>7. clone.pc \in {"idle", "element"}
  BY <1>2 DEF CloneOK
<1>8. QED BY <1>2, <1>3, <1>4, <1>5, <1>6, <1>7 DEF TypeOK

\* What a use needs is there.
LEMMA InvUnswept ==
  ASSUME IInv
  PROVE  NothingSwept
<1>1. PICK cc, cd, vc \in Seq(Addr) : InvWith(cc, cd, vc)
  BY DEF IInv
<1>2. /\ kind \in Kinds /\ Owns(kind, heap, hdr.c, cc) /\ Owns(kind, heap, hdr.d, cd)
      /\ ViewOK(kind, heap, view, hdr.c, cc, cd, vc)
      /\ WedgeOK(kind, heap, wedge, hdr.c, cc)
      /\ Rooted(heap, x, spill) /\ PushOK(kind, heap, spill, push, clone, hdr, cc, cd)
  BY <1>1 DEF InvWith, Inv
<1>3. ASSUME NEW h \in {hdr.c, hdr.d, view.h}
      PROVE  /\ \A p \in HeaderPtrs(h) \ {NULL} : Alive(p)
             /\ \A i \in Indices(h) : Alive(ItemAt(SlotAt(h, i)))
  <2>1. \E ch : /\ Linked(kind, heap, ch) /\ Leads(kind, heap, h, ch)
                /\ \A a \in Ptrs(kind, h) : a = NULL \/ Live(heap, a)
    <3>1. CASE h = hdr.c
      <4>1. \A a \in Ptrs(kind, h) : a = NULL \/ Live(heap, a)
        BY <1>2, <3>1, OwnLive
      <4>2. QED BY <1>2, <3>1, <4>1 DEF Owns
    <3>2. CASE h = hdr.d
      <4>1. \A a \in Ptrs(kind, h) : a = NULL \/ Live(heap, a)
        BY <1>2, <3>2, OwnLive
      <4>2. QED BY <1>2, <3>2, <4>1 DEF Owns
    <3>3. CASE h = view.h
      BY <1>2, <3>3 DEF ViewOK
    <3>4. QED BY <3>1, <3>2, <3>3
  <2>2. PICK ch : /\ Linked(kind, heap, ch) /\ Leads(kind, heap, h, ch)
                  /\ \A a \in Ptrs(kind, h) : a = NULL \/ Live(heap, a)
    BY <2>1
  <2>3. HeaderPtrs(h) = Ptrs(kind, h)
    BY <1>2, HeaderPtrsAre
  <2>4. ASSUME NEW p \in HeaderPtrs(h) \ {NULL} PROVE Alive(p)
    BY <2>2, <2>3 DEF Live, Alive
  <2>5. ASSUME NEW i \in Indices(h) PROVE Alive(ItemAt(SlotAt(h, i)))
    <3>1. i \in Nat /\ i < h.len
      BY <2>2, IndexIs
    <3>2. IsString(heap, ItemAt(SlotAt(h, i)))
      BY <1>2, <2>2, <3>1, SlotAtIs
    <3>3. QED BY <3>2 DEF IsString, Alive
  <2>6. QED BY <2>4, <2>5
<1>4. push.pc # "idle" => Alive(push.val)
  BY <1>2 DEF PushOK, Rooted, IsString, Alive
<1>5. wedge.slot # NoSlot => Alive(wedge.slot[1]) /\ Alive(ItemAt(wedge.slot))
  <2>1. SUFFICES ASSUME wedge.slot # NoSlot PROVE Alive(wedge.slot[1]) /\ Alive(ItemAt(wedge.slot))
    OBVIOUS
  <2>2. wedge # NoWedge
    BY <2>1 DEF NoWedge
  <2>3. /\ ChunkOK(heap, wedge.slot[1]) /\ wedge.slot[2] \in 1..N
        /\ wedge.slot[2] <= heap[wedge.slot[1]].used
    BY <1>2, <2>2 DEF WedgeOK
  <2>4. IsString(heap, ItemAt(wedge.slot)) /\ heap[wedge.slot[1]].is = "chunk"
    BY <2>3 DEF ChunkOK, ItemAt
  <2>5. QED BY <2>4 DEF IsString, Alive
<1>6. QED BY <1>3, <1>4, <1>5 DEF NothingSwept

\* Where the loop reads is where the container is.
LEMMA InvLoop ==
  ASSUME IInv
  PROVE  LoopSeesContainer
<1>1. PICK cc, cd, vc \in Seq(Addr) : InvWith(cc, cd, vc)
  BY DEF IInv
<1>2. /\ kind \in Kinds /\ Owns(kind, heap, hdr.c, cc) /\ ViewOK(kind, heap, view, hdr.c, cc, cd, vc)
  BY <1>1 DEF InvWith, Inv
<1>3. SUFFICES ASSUME view.on /\ ~view.gone /\ ~view.grown, NEW i \in Indices(view.h)
               PROVE  InBounds(hdr.c, i) /\ SlotAt(view.h, i) = SlotAt(hdr.c, i)
  BY DEF LoopSeesContainer
<1>4. view.on = TRUE /\ view.gone = FALSE /\ view.grown = FALSE
  BY <1>2, <1>3, Zenon DEF ViewOK
<1>5. /\ vc = cc /\ view.h.len <= hdr.c.len /\ (kind = "dvec" => view.h.buf = hdr.c.buf)
      /\ Leads(kind, heap, view.h, cc)
  BY <1>2, <1>4 DEF ViewOK
<1>6. Linked(kind, heap, cc) /\ Leads(kind, heap, hdr.c, cc)
  BY <1>2 DEF Owns
<1>7. i \in Nat /\ i < view.h.len
  BY <1>5, IndexIs
<1>8. i < hdr.c.len
  <2>1. view.h.len \in Nat /\ hdr.c.len \in Nat
    BY <1>5, <1>6 DEF Leads, IsHeader
  <2>2. QED BY <1>5, <1>7, <2>1
<1>9. /\ kind = "dvec" => SlotAt(view.h, i) = <<view.h.buf, i + 1>>
      /\ kind # "dvec" => SlotAt(view.h, i) = SlotOf(cc, i)
  BY <1>2, <1>5, <1>6, <1>7, SlotAtIs
<1>10. /\ kind = "dvec" => SlotAt(hdr.c, i) = <<hdr.c.buf, i + 1>>
       /\ kind # "dvec" => SlotAt(hdr.c, i) = SlotOf(cc, i)
  BY <1>2, <1>6, <1>7, <1>8, SlotAtIs
<1>11. QED BY <1>5, <1>7, <1>8, <1>9, <1>10 DEF InBounds

\* Where no push under an assignment makes a dvec grow, only a release moves the
\* address of the assignment, and no growth is under way while it is open.
GoneInv ==
  /\ lval.moved = TRUE => lval.gone = TRUE
  /\ lval.on = TRUE /\ push.pc = "grow" => kind # "dvec"

\* An address in use is where its index leads.
LEMMA InvAddresses ==
  ASSUME IInv, GoneInv
  PROVE  AddressesStable
<1>1. PICK cc, cd, vc \in Seq(Addr) : InvWith(cc, cd, vc)
  BY DEF IInv
<1>2. /\ kind \in Kinds /\ Owns(kind, heap, hdr.c, cc) /\ WedgeOK(kind, heap, wedge, hdr.c, cc)
      /\ LvalOK(kind, heap, lval, hdr.c, cc, cd)
  BY <1>1 DEF InvWith, Inv
<1>3. Linked(kind, heap, cc) /\ Leads(kind, heap, hdr.c, cc)
  BY <1>2 DEF Owns
<1>4. ASSUME wedge.slot # NoSlot /\ ~wedge.gone
      PROVE  InBounds(hdr.c, wedge.i) /\ SlotAt(hdr.c, wedge.i) = wedge.slot
  <2>1. wedge # NoWedge
    BY <1>4 DEF NoWedge
  <2>2. kind # "dvec" /\ wedge.gone \in BOOLEAN /\ wedge.i \in Nat
    BY <1>2, <2>1 DEF WedgeOK
  <2>3. wedge.gone = FALSE
    BY <1>4, <2>2, Zenon
  <2>4. wedge.i < hdr.c.len /\ wedge.slot = SlotOf(cc, wedge.i)
    BY <1>2, <2>1, <2>3 DEF WedgeOK
  <2>5. kind # "dvec" => SlotAt(hdr.c, wedge.i) = SlotOf(cc, wedge.i)
    BY <1>2, <1>3, <2>2, <2>4, SlotAtIs
  <2>6. QED BY <2>2, <2>4, <2>5 DEF InBounds
<1>5. ASSUME lval.on /\ ~lval.gone
      PROVE  InBounds(hdr.c, lval.i) /\ SlotAt(hdr.c, lval.i) = lval.slot
  <2>1. lval.on = TRUE /\ lval.moved = FALSE
    <3>1. lval.on \in BOOLEAN /\ lval.moved \in BOOLEAN
      BY <1>2 DEF LvalOK
    <3>2. lval.gone # TRUE
      BY <1>5, Zenon
    <3>3. lval.moved = FALSE
      BY <3>1, <3>2, Zenon DEF GoneInv
    <3>4. QED BY <1>5, <3>1, <3>3, Zenon
  <2>2. /\ lval.i \in Nat /\ lval.i < hdr.c.len
        /\ kind = "dvec" => lval.slot = <<hdr.c.buf, lval.i + 1>>
        /\ kind # "dvec" => lval.slot = SlotOf(cc, lval.i)
    BY <1>2, <2>1 DEF LvalOK
  <2>3. /\ kind = "dvec" => SlotAt(hdr.c, lval.i) = <<hdr.c.buf, lval.i + 1>>
        /\ kind # "dvec" => SlotAt(hdr.c, lval.i) = SlotOf(cc, lval.i)
    BY <1>2, <1>3, <2>2, SlotAtIs
  <2>4. SlotAt(hdr.c, lval.i) = lval.slot
    <3>1. CASE kind = "dvec"
      BY <2>2, <2>3, <3>1, Zenon
    <3>2. CASE kind # "dvec"
      BY <2>2, <2>3, <3>2, Zenon
    <3>3. QED BY <3>1, <3>2
  <2>5. lval.i >= 0 /\ lval.i < hdr.c.len
    BY <2>2
  <2>6. QED BY <2>4, <2>5 DEF InBounds
<1>6. QED BY <1>4, <1>5 DEF AddressesStable

\* No step but a release makes the address of an assignment one to forget.
LEMMA GoneKept ==
  ASSUME "dvec" \notin GrowInside, IInv, GoneInv, [Next]_vars
  PROVE  GoneInv'
<1>1. PICK cc, cd, vc \in Seq(Addr) : InvWith(cc, cd, vc)
  BY DEF IInv
<1>2. /\ lval = [on |-> lval.on, slot |-> lval.slot, i |-> lval.i, moved |-> lval.moved, gone |-> lval.gone]
      /\ lval.on \in BOOLEAN /\ lval.moved \in BOOLEAN
      /\ push = [pc |-> push.pc, to |-> push.to, val |-> push.val, moved |-> push.moved, slot |-> push.slot]
      /\ clone.pc = "element" => kind = "tablets"
  BY <1>1 DEF InvWith, Inv, LvalOK, PushOK, CloneOK
<1>3. ASSUME lval' = lval, kind' = kind, push' = push \/ push'.pc # "grow" \/ kind # "dvec"
      PROVE  GoneInv'
  BY <1>3 DEF GoneInv
<1>4. CASE Grow
  <2>1. /\ push.pc = "grow" /\ push' = [push EXCEPT !.pc = AfterGrow(Header)] /\ kind' = kind
        /\ lval' = [lval EXCEPT !.moved = lval.on /\ (@ \/ kind = "dvec")]
    BY <1>4 DEF Grow, Goto
  <2>2. push'.pc = AfterGrow(Header)
    BY <1>2, <2>1
  <2>3. push'.pc # "grow"
    BY <2>2 DEF AfterGrow
  <2>4. /\ lval'.moved = (lval.on /\ (lval.moved \/ kind = "dvec"))
        /\ lval'.gone = lval.gone
    BY <1>2, <2>1
  <2>5. lval'.moved = TRUE => lval.moved = TRUE
    BY <1>2, <2>1, <2>4 DEF GoneInv
  <2>6. QED BY <2>3, <2>4, <2>5 DEF GoneInv
<1>5. CASE NewChunk \/ InsertChunked \/ InsertInline
  <2>1. lval' = lval /\ kind' = kind
    BY <1>5 DEF NewChunk, InsertChunked, InsertInline, Inserted, statement
  <2>2. \E pc \in {"insert", "return"} :
          \/ \E s : push' = [push EXCEPT !.pc = pc, !.slot = s]
          \/ push' = [push EXCEPT !.pc = pc]
    BY <1>5 DEF NewChunk, InsertChunked, InsertInline, Inserted, Goto
  <2>3. push'.pc # "grow"
    BY <1>2, <2>2
  <2>4. QED BY <1>3, <2>1, <2>3
<1>6. ASSUME MayPush, lval' = lval, kind' = kind, NEW val, NEW moved, Call("c", val, moved)
      PROVE  GoneInv'
  <2>1. push'.pc = Entry(hdr.c)
    BY <1>6 DEF Call
  <2>2. lval.on = TRUE /\ push'.pc = "grow" => kind # "dvec"
    BY <1>6, <2>1 DEF MayPush
  <2>3. QED BY <1>6, <2>2 DEF GoneInv
<1>7. CASE PushMoved
  BY <1>6, <1>7 DEF PushMoved, statement
<1>8. ASSUME NEW i \in CopyFrom, PushCopy(i) PROVE GoneInv'
  BY <1>6, <1>8 DEF PushCopy, statement
<1>9. ASSUME NEW i \in Indexed, Resolve(i) PROVE GoneInv'
  <2>1. lval'.moved = FALSE /\ push.pc = "idle" /\ push' = push
    BY <1>9 DEF Resolve, Running
  <2>2. QED BY <2>1 DEF GoneInv
<1>10. CASE Store
  <2>1. lval'.moved = FALSE /\ lval'.on = FALSE
    BY <1>10 DEF Store, NoLval
  <2>2. QED BY <2>1 DEF GoneInv
<1>11. CASE Release
  <2>1. lval' = [lval EXCEPT !.moved = lval.on, !.gone = lval.on] /\ push.pc = "idle" /\ push' = push
    BY <1>11 DEF Release, Running
  <2>2. lval'.moved = lval.on /\ lval'.gone = lval.on
    BY <1>2, <2>1
  <2>3. QED BY <2>1, <2>2 DEF GoneInv
<1>12. CASE CloneElement
  BY <1>2, <1>3, <1>12 DEF CloneElement, statement
<1>13. CASE CloneReturn \/ \E keep \in BOOLEAN : Return(keep)
  <2>1. lval' = lval /\ kind' = kind /\ push' = Idle
    BY <1>13 DEF CloneReturn, Return, statement
  <2>2. QED BY <1>3, <2>1 DEF Idle
<1>14. CASE \/ NewString \/ ForBegin \/ ForNext \/ ForEnd \/ Forget
            \/ CloneBegin \/ CloneAdvance \/ CloneEnd \/ CloneDrop
  BY <1>3, <1>14 DEF NewString, ForBegin, ForNext, ForEnd, Forget, CloneBegin, CloneAdvance,
                     CloneEnd, CloneDrop, statement
<1>15. CASE UNCHANGED vars
  BY <1>3, <1>15 DEF vars
<1>16. QED BY <1>4, <1>5, <1>7, <1>8, <1>9, <1>10, <1>11, <1>12, <1>13, <1>14, <1>15 DEF Next

LEMMA GoneInvariant ==
  ASSUME "dvec" \notin GrowInside
  PROVE  Spec => []GoneInv
<1>1. Init => GoneInv
  BY DEF Init, GoneInv, NoLval, Idle
<1>2. IInv /\ GoneInv /\ [Next]_vars => GoneInv'
  BY GoneKept
<1>3. QED BY <1>1, <1>2, InvariantHolds, PTL DEF Spec

\* In every reachable state the fields have their types, counts and lengths
\* stay in bounds, and an indexed or inline buffer is as long as it claims.
THEOREM TypeCorrect == Spec => []TypeOK
<1>1. IInv => TypeOK
  BY InvTyped
<1>2. QED BY <1>1, InvariantHolds, PTL

\* Nothing the program can still use is swept, whatever it does while an
\* allocation collects: the roots of a push, a loop, a handle and a clone are
\* enough (tablets.py, ivec.py, dvec.py and the slots of stmt.py).
THEOREM UsesLive == Spec => []NothingSwept
<1>1. IInv => NothingSwept
  BY InvUnswept
<1>2. QED BY <1>1, InvariantHolds, PTL

\* A for loop reads the slots the container has now, through pushes, growth of
\* the chain and assignments in its body (stmt.py 112-180).
THEOREM LoopReadsContainer == Spec => []LoopSeesContainer
<1>1. IInv => LoopSeesContainer
  BY InvLoop
<1>2. QED BY <1>1, InvariantHolds, PTL

\* A handle and the target of an assignment stay the addresses of their
\* elements (ivec.py 162-176, stmt.py 1294-1300).
THEOREM AddressesHold ==
  ASSUME "dvec" \notin GrowInside
  PROVE  Spec => []AddressesStable
<1>1. Spec => []GoneInv
  BY GoneInvariant
<1>2. IInv /\ GoneInv => AddressesStable
  BY InvAddresses
<1>3. QED BY <1>1, <1>2, InvariantHolds, PTL

-----------------------------------------------------------------------------
(* The order of the slots.                                                  *)

\* The equation of Chain's recursive function.
ChainStart(h) == IF h.head = NULL THEN << >> ELSE <<h.head>>
ChainStep(p) == IF p = << >> \/ heap[Last(p)].next = NULL THEN p ELSE Append(p, heap[Last(p)].next)
ChainEquation(h, k, g) ==
  g = [n \in 0..k |-> IF n = 0 THEN ChainStart(h) ELSE ChainStep(g[n-1])]

\* It has a solution.
LEMMA ChainSolvable ==
  ASSUME NEW h, NEW k \in Nat
  PROVE  \E g : ChainEquation(h, k, g)
<1> DEFINE T == {n \in Nat : \E g : ChainEquation(h, n, g)}
           E(g, i) == IF i = 0 THEN ChainStart(h) ELSE ChainStep(g[i-1])
<1>1. 0 \in T
  <2> DEFINE g == [i \in 0..0 |-> ChainStart(h)]
  <2>1. g = [i \in 0..0 |-> E(g, i)]
    OBVIOUS
  <2>2. ChainEquation(h, 0, g)
    <3> HIDE DEF g
    <3>1. QED BY <2>1 DEF ChainEquation
  <2>3. QED BY <2>2
<1>2. ASSUME NEW n \in Nat, n \in T PROVE n + 1 \in T
  <2>1. PICK g : ChainEquation(h, n, g)
    BY <1>2
  <2> DEFINE f == [i \in 0..(n+1) |-> E(g, i)]
  <2>2. ASSUME NEW i \in 0..n PROVE f[i] = g[i]
    <3>1. i \in 0..(n+1)
      OBVIOUS
    <3>2. g[i] = E(g, i)
      BY <2>1 DEF ChainEquation
    <3> HIDE DEF E
    <3>3. QED BY <3>1, <3>2
  <2>3. ASSUME NEW i \in 0..(n+1) PROVE f[i] = E(f, i)
    <3>1. CASE i = 0
      BY <3>1
    <3>2. CASE i # 0
      <4>1. i - 1 \in 0..n
        BY <3>2
      <4>2. f[i-1] = g[i-1]
        BY <4>1, <2>2
      <4>3. f[i] = E(g, i)
        OBVIOUS
      <4> HIDE DEF f
      <4>4. QED BY <3>2, <4>2, <4>3
    <3>3. QED BY <3>1, <3>2
  <2>4. f = [i \in 0..(n+1) |-> E(f, i)]
    <3>1. f = [i \in 0..(n+1) |-> f[i]]
      OBVIOUS
    <3> HIDE DEF f, E
    <3>2. QED BY <3>1, <2>3
  <2>5. ChainEquation(h, n + 1, f)
    <3> HIDE DEF f
    <3>1. QED BY <2>4 DEF ChainEquation
  <2> HIDE DEF f
  <2>6. QED BY <2>5
<1> HIDE DEF T
<1>3. k \in T
  BY <1>1, <1>2, SetInduction
<1>4. QED BY <1>3 DEF T

\* The first m chunks of a chain.
Begins(s, ch, m) == s \in Seq(Addr) /\ Len(s) = m /\ \A i \in 1..m : s[i] = ch[i]

\* Following the links from a container's head finds its chain.
LEMMA ChainIs ==
  ASSUME NEW kd, NEW h, NEW ch, Owns(kd, heap, h, ch)
  PROVE  Chain(h) = ch
<1> DEFINE g == CHOOSE f : ChainEquation(h, MaxLen, f)
<1>1. ChainEquation(h, MaxLen, g)
  BY ChainSolvable, Numbers
<1>2. Chain(h) = g[MaxLen]
  BY DEF Chain, ChainEquation, ChainStart, ChainStep
<1> HIDE DEF g
<1>3. ASSUME NEW n \in 0..MaxLen PROVE g[n] = IF n = 0 THEN ChainStart(h) ELSE ChainStep(g[n-1])
  BY <1>1 DEF ChainEquation
<1>4. Linked(kd, heap, ch) /\ MaxLen \in Nat
  BY Numbers DEF Owns
<1>5. ch \in Seq(Addr) /\ Len(ch) \in Nat /\ Len(ch) <= MaxLen
  BY <1>4 DEF Linked
<1>6. CASE ch = << >>
  <2> DEFINE T == {n \in Nat : n <= MaxLen => g[n] = << >>}
  <2>1. 0 \in T
    <3>1. g[0] = ChainStart(h)
      BY <1>3, <1>4
    <3>2. h.head = NULL
      BY <1>6 DEF Owns
    <3>3. QED BY <3>1, <3>2 DEF ChainStart
  <2>2. ASSUME NEW n \in Nat, n \in T PROVE n + 1 \in T
    <3>1. SUFFICES ASSUME n + 1 <= MaxLen PROVE g[n + 1] = << >>
      OBVIOUS
    <3>2. PICK m \in 0..MaxLen : m = n + 1
      BY <3>1, <1>4
    <3>3. m # 0 /\ m - 1 = n /\ n <= MaxLen
      BY <3>2, <1>4
    <3>4. g[m] = ChainStep(g[n]) /\ g[n] = << >>
      BY <1>3, <2>2, <3>3
    <3>5. QED BY <3>2, <3>4 DEF ChainStep
  <2> HIDE DEF T
  <2>3. MaxLen \in T
    BY <1>4, <2>1, <2>2, SetInduction
  <2>4. QED BY <1>2, <1>4, <1>6, <2>3 DEF T
<1>7. CASE ch # << >>
  <2> DEFINE T == {n \in Nat : n <= MaxLen => /\ n + 1 <= Len(ch) => Begins(g[n], ch, n + 1)
                                              /\ Len(ch) <= n => Begins(g[n], ch, Len(ch))}
  <2>a. Len(ch) \in Nat \ {0}
    BY <1>5, <1>7
  <2>b. \A i \in 1..Len(ch) : ch[i] \in Addr /\ ch[i] # NULL
    <3>1. \A i \in 1..Len(ch) : ch[i] \in Addr
      BY <1>5
    <3>2. QED BY <3>1, Numbers
  <2>1. 0 \in T
    <3>1. g[0] = ChainStart(h)
      BY <1>3, <1>4
    <3>2. 1 \in 1..Len(ch)
      BY <2>a
    <3>3. h.head = ch[1] /\ ch[1] # NULL /\ ch[1] \in Addr
      BY <1>7, <2>b, <3>2 DEF Owns
    <3>4. g[0] = <<ch[1]>>
      BY <3>1, <3>3 DEF ChainStart
    <3>5. Begins(g[0], ch, 1)
      BY <3>3, <3>4 DEF Begins
    <3>6. ~(Len(ch) <= 0) /\ 0 + 1 = 1
      BY <2>a
    <3>7. QED BY <3>5, <3>6
  <2>2. ASSUME NEW n \in Nat, n \in T PROVE n + 1 \in T
    <3>1. SUFFICES ASSUME n + 1 <= MaxLen
                   PROVE  /\ (n + 1) + 1 <= Len(ch) => Begins(g[n + 1], ch, (n + 1) + 1)
                          /\ Len(ch) <= n + 1 => Begins(g[n + 1], ch, Len(ch))
      OBVIOUS
    <3>2. PICK m \in 0..MaxLen : m = n + 1
      BY <3>1, <1>4
    <3>3. m # 0 /\ m - 1 = n /\ n <= MaxLen /\ m \in Nat \ {0}
      BY <3>2, <1>4
    <3>4. g[m] = ChainStep(g[n])
      BY <1>3, <3>3
    <3>5. PICK p : p = g[n]
      OBVIOUS
    <3>6. CASE m + 1 <= Len(ch)
      <4>1. Begins(p, ch, m) /\ m <= Len(ch) /\ m < Len(ch) /\ m \in 1..Len(ch)
        BY <2>2, <3>2, <3>3, <3>5, <3>6, <1>5
      <4>2. p \in Seq(Addr) /\ Len(p) = m /\ m \in 1..m /\ p # << >> /\ Last(p) = p[m] /\ p[m] = ch[m]
        BY <4>1, <3>3 DEF Begins, Last
      <4>3. heap[ch[m]].next = ch[m + 1] /\ m + 1 \in 1..Len(ch)
        BY <1>4, <3>6, <4>1 DEF Linked
      <4>4. PICK a \in Addr : a = ch[m + 1] /\ a # NULL
        BY <2>b, <4>3
      <4>5. g[m] = Append(p, a)
        BY <3>4, <3>5, <4>2, <4>3, <4>4 DEF ChainStep
      <4>6. Begins(Append(p, a), ch, m + 1)
        <5>1. Append(p, a) \in Seq(Addr) /\ Len(Append(p, a)) = m + 1
          BY <4>2
        <5>2. ASSUME NEW i \in 1..(m + 1) PROVE Append(p, a)[i] = ch[i]
          <6>1. CASE i = m + 1
            BY <4>2, <4>4, <6>1
          <6>2. CASE i # m + 1
            <7>1. i \in 1..m
              BY <3>3, <6>2
            <7>2. Append(p, a)[i] = p[i]
              BY <4>2, <7>1
            <7>3. QED BY <4>1, <7>1, <7>2 DEF Begins
          <6>3. QED BY <6>1, <6>2
        <5>3. QED BY <5>1, <5>2 DEF Begins
      <4>7. ~(Len(ch) <= m)
        BY <1>5, <3>3, <3>6
      <4>8. QED BY <3>2, <4>5, <4>6, <4>7
    <3>7. CASE ~(m + 1 <= Len(ch))
      <4>1. Len(ch) <= m
        BY <1>5, <3>3, <3>7
      <4>2. Begins(p, ch, Len(ch))
        <5>1. CASE Len(ch) <= n
          BY <2>2, <3>3, <3>5, <5>1
        <5>2. CASE ~(Len(ch) <= n)
          <6>1. Len(ch) = n + 1
            BY <1>5, <3>2, <4>1, <5>2
          <6>2. QED BY <2>2, <3>3, <3>5, <6>1
        <5>3. QED BY <5>1, <5>2
      <4>3. p \in Seq(Addr) /\ Len(p) = Len(ch) /\ Len(ch) \in 1..Len(ch)
            /\ Last(p) = p[Len(ch)] /\ p[Len(ch)] = ch[Len(ch)]
        BY <2>a, <4>2 DEF Begins, Last
      <4>4. heap[ch[Len(ch)]].next = NULL
        BY <1>4, <1>7 DEF Linked
      <4>5. g[m] = p
        BY <3>4, <3>5, <4>3, <4>4 DEF ChainStep
      <4>6. QED BY <3>2, <3>7, <4>2, <4>5
    <3>8. QED BY <3>6, <3>7
  <2> HIDE DEF T
  <2>3. MaxLen \in T
    BY <1>4, <2>1, <2>2, SetInduction
  <2>4. Begins(g[MaxLen], ch, Len(ch))
    BY <1>4, <1>5, <2>3 DEF T
  <2>5. g[MaxLen] = ch
    <3>1. PICK s \in Seq(Addr) : s = g[MaxLen]
      BY <2>4 DEF Begins
    <3>2. Len(s) = Len(ch) /\ \A i \in 1..Len(s) : s[i] = ch[i]
      BY <2>4, <3>1 DEF Begins
    <3>3. s = ch
      BY <1>5, <3>2, SeqEqual
    <3>4. QED BY <3>1, <3>3
  <2>6. QED BY <1>2, <2>5
<1>8. QED BY <1>6, <1>7

\* The k-th slot of the j-th chunk.
LEMMA SlotInChunk ==
  ASSUME NEW ch, NEW j \in Nat \ {0}, NEW k \in 1..N
  PROVE  /\ First(j) + k \in Nat \ {0} /\ (First(j) + k) - 1 \in Nat
         /\ SlotOf(ch, (First(j) + k) - 1) = <<ch[j], k>>
<1>1. First(j) \in Nat /\ N \in Nat /\ k \in Nat /\ 1 <= k /\ k <= N
  BY FirstGoes, Numbers
<1>2. PICK i \in Nat : i = (First(j) + k) - 1
  BY <1>1
<1>3. In(j, i)
  BY <1>1, <1>2 DEF In
<1>4. Place(i) = j
  BY <1>3, PlaceIs
<1>5. (i - First(j)) + 1 = k
  BY <1>1, <1>2
<1>6. SlotOf(ch, i) = <<ch[j], k>>
  BY <1>4, <1>5 DEF SlotOf
<1>7. QED BY <1>1, <1>2, <1>6

\* The slots of the first chunks, m of them, in order.
InOrder(s, ch, m) ==
  s \in Seq(Addr \X Nat) /\ Len(s) = m /\ \A i \in 1..m : s[i] = SlotOf(ch, i - 1)
Runs(ch) == [n \in 1..Len(ch) |-> [k \in 1..heap[ch[n]].used |-> <<ch[n], k>>]]

\* A chunk's run is the slots it has used.
LEMMA RunIs ==
  ASSUME NEW kd, NEW ch, Linked(kd, heap, ch), NEW j \in 1..Len(ch)
  PROVE  /\ Runs(ch)[j] \in Seq(Addr \X Nat) /\ Len(Runs(ch)[j]) = heap[ch[j]].used
         /\ heap[ch[j]].used \in 0..N
         /\ \A k \in 1..heap[ch[j]].used : Runs(ch)[j][k] = <<ch[j], k>>
<1>1. ChunkOK(heap, ch[j])
  BY DEF Linked
<1>2. ch[j] \in Addr /\ heap[ch[j]].used \in 0..N /\ N \in Nat
  BY <1>1, Numbers DEF ChunkOK
<1>3. PICK a \in Addr, u \in Nat : a = ch[j] /\ u = heap[ch[j]].used
  BY <1>2
<1>4. Runs(ch)[j] = [k \in 1..u |-> <<a, k>>]
  BY <1>3 DEF Runs
<1>5. PICK S, r : S = Addr \X Nat /\ r = [k \in 1..u |-> <<a, k>>]
  OBVIOUS
<1>6. \A k \in 1..u : <<a, k>> \in S
  BY <1>5
<1>7. r \in [1..u -> S]
  BY <1>5, <1>6
<1>8. r \in Seq(S) /\ Len(r) = u
  BY <1>7
<1>9. \A k \in 1..u : r[k] = <<a, k>>
  BY <1>5
<1>10. QED BY <1>2, <1>3, <1>4, <1>5, <1>8, <1>9

\* One behind the other they are the slots of the chain in order.
LEMMA RunsInOrder ==
  ASSUME NEW kd, NEW ch, Linked(kd, heap, ch)
  PROVE  InOrder(FlattenSeq(Runs(ch)), ch, Count(heap, ch))
<1>1. Len(ch) \in Nat /\ N \in Nat \ {0} /\ ch \in Seq(Addr)
  BY Numbers DEF Linked
<1>2. CASE ch = << >>
  <2>1. Runs(ch) = << >>
    BY <1>2 DEF Runs
  <2>2. FlattenSeq(Runs(ch)) = << >>
    BY <2>1, FlattenEmpty
  <2>3. Count(heap, ch) = 0
    BY <1>2 DEF Count
  <2>4. << >> \in Seq(Addr \X Nat) /\ Len(<< >>) = 0
    OBVIOUS
  <2>5. QED BY <2>2, <2>3, <2>4 DEF InOrder
<1>3. CASE ch # << >>
  <2>1. PICK m \in Nat \ {0} : m = Len(ch)
    BY <1>1, <1>3
  <2>2. Len(Runs(ch)) = m
    BY <2>1 DEF Runs
  <2>3. PICK g : FlattenRuns(Runs(ch), m, g) /\ FlattenSeq(Runs(ch)) = g[m]
    BY <2>2, FlattenIs
  <2>4. /\ g[1] = Runs(ch)[1]
        /\ \A i \in 1..(m-1) : g[i+1] = g[i] \o Runs(ch)[i+1]
    <3>1. m > 0
      OBVIOUS
    <3>2. QED BY <2>3, <3>1, Zenon DEF FlattenRuns
  <2> DEFINE T == {j \in Nat : j \in 1..m => InOrder(g[j], ch, First(j) + heap[ch[j]].used)}
  <2>5. 0 \in T
    OBVIOUS
  <2>6. ASSUME NEW j \in Nat, j \in T PROVE j + 1 \in T
    <3>1. SUFFICES ASSUME j + 1 \in 1..m
                   PROVE  InOrder(g[j + 1], ch, First(j + 1) + heap[ch[j + 1]].used)
      OBVIOUS
    <3>2. PICK i \in 1..m : i = j + 1
      BY <3>1
    <3>3. PICK r, u : r = Runs(ch)[i] /\ u = heap[ch[i]].used
      OBVIOUS
    <3>4. r \in Seq(Addr \X Nat) /\ Len(r) = u /\ u \in 0..N /\ \A k \in 1..u : r[k] = <<ch[i], k>>
      BY <2>1, <3>3, RunIs
    <3>5. i \in Nat \ {0} /\ First(i) \in Nat
      BY <3>2, FirstGoes
    <3>6. ASSUME NEW k \in 1..u
          PROVE  First(i) + k \in Nat \ {0} /\ r[k] = SlotOf(ch, (First(i) + k) - 1)
      <4>1. k \in 1..N
        BY <1>1, <3>4
      <4>2. First(i) + k \in Nat \ {0} /\ SlotOf(ch, (First(i) + k) - 1) = <<ch[i], k>>
        BY <3>5, <4>1, SlotInChunk
      <4>3. QED BY <3>4, <4>2
    <3>7. CASE j = 0
      <4>1. i = 1 /\ First(i) = 0 /\ g[i] = r
        BY <2>4, <3>2, <3>3, <3>7, FirstGoes
      <4>2. InOrder(r, ch, 0 + u)
        <5>1. u \in Nat /\ 0 + u = u
          BY <1>1, <3>4
        <5>2. ASSUME NEW k \in 1..u PROVE r[k] = SlotOf(ch, k - 1)
          <6>1. First(i) + k = k
            BY <4>1
          <6>2. QED BY <3>6, <6>1
        <5>3. QED BY <3>4, <5>1, <5>2 DEF InOrder
      <4>3. QED BY <3>2, <3>3, <4>1, <4>2
    <3>8. CASE j # 0
      <4>1. j \in 1..m /\ j \in 1..(m-1) /\ j < Len(ch) /\ j \in 1..Len(ch) /\ j \in Nat \ {0}
        BY <2>1, <3>1, <3>8
      <4>2. heap[ch[j]].used = N
        BY <4>1 DEF Linked
      <4>3. First(i) = First(j) + N
        BY <3>2, <4>1, FirstGoes
      <4>4. PICK s : s = g[j]
        OBVIOUS
      <4>5. InOrder(s, ch, First(i))
        BY <2>6, <4>1, <4>2, <4>3, <4>4
      <4>6. g[i] = s \o r
        BY <2>4, <3>2, <3>3, <4>1, <4>4
      <4>7. PICK f \in Nat, v \in Nat : f = First(i) /\ v = u
        BY <1>1, <3>4, <3>5
      <4>8. s \in Seq(Addr \X Nat) /\ Len(s) = f /\ \A k \in 1..f : s[k] = SlotOf(ch, k - 1)
        BY <4>5, <4>7 DEF InOrder
      <4>9. r \in Seq(Addr \X Nat) /\ Len(r) = v
        BY <3>4, <4>7
      <4>10. /\ s \o r \in Seq(Addr \X Nat) /\ Len(s \o r) = f + v
             /\ \A k \in 1..(f + v) : (s \o r)[k] = IF k <= f THEN s[k] ELSE r[k - f]
        BY <4>8, <4>9, ConcatProperties
      <4>11. ASSUME NEW k \in 1..(f + v) PROVE (s \o r)[k] = SlotOf(ch, k - 1)
        <5>1. CASE k <= f
          <6>1. k \in 1..f
            BY <5>1
          <6>2. (s \o r)[k] = s[k]
            BY <4>10, <5>1
          <6>3. QED BY <4>8, <6>1, <6>2
        <5>2. CASE ~(k <= f)
          <6>1. PICK l \in 1..v : l = k - f
            BY <4>7, <5>2
          <6>2. (s \o r)[k] = r[l]
            BY <4>10, <5>2, <6>1
          <6>3. r[l] = SlotOf(ch, (First(i) + l) - 1)
            BY <3>6, <4>7, <6>1
          <6>4. First(i) + l = k
            BY <4>7, <6>1
          <6>5. QED BY <6>2, <6>3, <6>4
        <5>3. QED BY <5>1, <5>2
      <4>12. InOrder(s \o r, ch, f + v)
        BY <4>10, <4>11 DEF InOrder
      <4>13. QED BY <3>2, <3>3, <4>6, <4>7, <4>12
    <3>9. QED BY <3>7, <3>8
  <2> HIDE DEF T
  <2>7. m \in T
    BY <2>5, <2>6, SetInduction
  <2>8. m \in 1..m
    OBVIOUS
  <2>9. InOrder(g[m], ch, First(m) + heap[ch[m]].used)
    BY <2>7, <2>8 DEF T
  <2>10. Count(heap, ch) = First(m) + heap[ch[m]].used
    BY <1>3, <2>1 DEF Count
  <2>11. QED BY <2>3, <2>9, <2>10
<1>4. QED BY <1>2, <1>3

\* Filled is what the container's chain says.
LEMMA FilledIs ==
  ASSUME NEW h, NEW ch, kind # "dvec", Owns(kind, heap, h, ch)
  PROVE  InOrder(Filled(h), ch, h.len)
<1>1. Chain(h) = ch
  BY ChainIs
<1>2. Filled(h) = FlattenSeq(Runs(ch))
  BY <1>1 DEF Filled, Runs
<1>3. Linked(kind, heap, ch) /\ h.len = Count(heap, ch)
  BY DEF Owns
<1>4. InOrder(FlattenSeq(Runs(ch)), ch, Count(heap, ch))
  BY <1>3, RunsInOrder
<1>5. QED BY <1>2, <1>3, <1>4

\* So index i is the i-th slot filled.
LEMMA InvIndex ==
  ASSUME IInv
  PROVE  IndexFollowsPush
<1>1. PICK cc, cd, vc \in Seq(Addr) : InvWith(cc, cd, vc)
  BY DEF IInv
<1>2. kind \in Kinds /\ Owns(kind, heap, hdr.c, cc) /\ Owns(kind, heap, hdr.d, cd)
  BY <1>1 DEF InvWith, Inv
<1>3. ASSUME NEW h \in {hdr.c, hdr.d}
      PROVE  Len(Filled(h)) = h.len /\ \A i \in Indices(h) : SlotAt(h, i) = Filled(h)[i + 1]
  <2>1. PICK ch : Owns(kind, heap, h, ch)
    BY <1>2, <1>3
  <2>2. Linked(kind, heap, ch) /\ Leads(kind, heap, h, ch)
    BY <2>1 DEF Owns
  <2>3. PICK n \in Nat : n = h.len
    BY <2>2, Numbers DEF Leads, IsHeader
  <2>4. ASSUME NEW i \in Indices(h)
        PROVE  /\ i \in Nat /\ i + 1 \in 1..n /\ (i + 1) - 1 = i
               /\ kind = "dvec" => SlotAt(h, i) = <<h.buf, i + 1>>
               /\ kind # "dvec" => SlotAt(h, i) = SlotOf(ch, i)
    <3>1. i \in Nat /\ i < h.len
      BY <2>2, IndexIs
    <3>2. /\ kind = "dvec" => SlotAt(h, i) = <<h.buf, i + 1>>
          /\ kind # "dvec" => SlotAt(h, i) = SlotOf(ch, i)
      BY <1>2, <2>2, <3>1, SlotAtIs
    <3>3. i + 1 \in 1..n /\ (i + 1) - 1 = i
      BY <2>3, <3>1
    <3>4. QED BY <3>1, <3>2, <3>3
  <2>5. CASE kind = "dvec"
    <3>1. Filled(h) = [k \in 1..n |-> <<h.buf, k>>]
      BY <2>3, <2>5 DEF Filled
    <3>2. Len(Filled(h)) = n
      BY <3>1
    <3>3. QED BY <2>3, <2>4, <2>5, <3>1, <3>2
  <2>6. CASE kind # "dvec"
    <3>1. InOrder(Filled(h), ch, n)
      BY <2>1, <2>3, <2>6, FilledIs
    <3>2. Len(Filled(h)) = n /\ \A i \in 1..n : Filled(h)[i] = SlotOf(ch, i - 1)
      BY <3>1 DEF InOrder
    <3>3. ASSUME NEW i \in Indices(h) PROVE SlotAt(h, i) = Filled(h)[i + 1]
      <4>1. Filled(h)[i + 1] = SlotOf(ch, (i + 1) - 1)
        BY <2>4, <3>2
      <4>2. QED BY <2>4, <2>6, <4>1
    <3>4. QED BY <2>3, <3>2, <3>3
  <2>7. QED BY <2>5, <2>6
<1>4. QED BY <1>3 DEF IndexFollowsPush

\* Index i leads to the i-th slot filled, for every chunk size and through
\* every growth: get, get_addr and push agree on where an element is.
THEOREM IndexCorrect == Spec => []IndexFollowsPush
<1>1. IInv => IndexFollowsPush
  BY InvIndex
<1>2. QED BY <1>1, InvariantHolds, PTL

-----------------------------------------------------------------------------
(* What the container holds, and how a step changes it.                     *)

HeldAt(kd, hp, h, ch, k) ==
  IF kd = "dvec" THEN hp[h.buf].items[k + 1] ELSE hp[SlotOf(ch, k)[1]].items[SlotOf(ch, k)[2]]
Held(kd, hp, h, ch) == [i \in 1..h.len |-> HeldAt(kd, hp, h, ch, i - 1)]

SameAt(kd, hp, hp2, h, h2, ch, ch2) ==
  \A k \in Nat : k < h.len => HeldAt(kd, hp2, h2, ch2, k) = HeldAt(kd, hp, h, ch, k)

\* A sequence of the abstract specification, before and after one of its steps.
Grows(s, t) == Len(t) = Len(s) + 1 /\ \A i \in DOMAIN s : t[i] = s[i]
Replaces(s, t) == Len(t) = Len(s) /\ \E i \in DOMAIN s : \A j \in DOMAIN s \ {i} : t[j] = s[j]
Evolves(s, t) == t = s \/ Grows(s, t) \/ Replaces(s, t) \/ t = << >>

\* It is a sequence.
LEMMA HeldIs ==
  ASSUME NEW kd, NEW hp, NEW h, NEW ch, h.len \in Nat
  PROVE  /\ Len(Held(kd, hp, h, ch)) = h.len /\ DOMAIN Held(kd, hp, h, ch) = 1..h.len
         /\ \A i \in 1..h.len : Held(kd, hp, h, ch)[i] = HeldAt(kd, hp, h, ch, i - 1)
<1>1. PICK n \in Nat : n = h.len
  OBVIOUS
<1>2. PICK f : f = Held(kd, hp, h, ch)
  OBVIOUS
<1>3. f = [i \in 1..n |-> HeldAt(kd, hp, h, ch, i - 1)]
  BY <1>1, <1>2 DEF Held
<1>4. DOMAIN f = 1..n /\ \A i \in 1..n : f[i] = HeldAt(kd, hp, h, ch, i - 1)
  BY <1>3
<1>5. Len(f) = n
  BY <1>3
<1>6. QED BY <1>1, <1>2, <1>4, <1>5

\* Elements that stay where they are.
LEMMA HeldSame ==
  ASSUME NEW kd, NEW hp, NEW hp2, NEW h, NEW h2, NEW ch, NEW ch2, h.len \in Nat,
         h2.len = h.len, SameAt(kd, hp, hp2, h, h2, ch, ch2)
  PROVE  Held(kd, hp2, h2, ch2) = Held(kd, hp, h, ch)
<1>1. ASSUME NEW i \in 1..h.len PROVE HeldAt(kd, hp2, h2, ch2, i - 1) = HeldAt(kd, hp, h, ch, i - 1)
  <2>1. PICK k \in Nat : k = i - 1
    OBVIOUS
  <2>2. k < h.len
    BY <2>1
  <2>3. QED BY <2>1, <2>2 DEF SameAt
<1>2. QED BY <1>1 DEF Held

\* One more behind them.
LEMMA HeldGrows ==
  ASSUME NEW kd, NEW hp, NEW hp2, NEW h, NEW h2, NEW ch, NEW ch2, h.len \in Nat,
         h2.len = h.len + 1, SameAt(kd, hp, hp2, h, h2, ch, ch2)
  PROVE  Grows(Held(kd, hp, h, ch), Held(kd, hp2, h2, ch2))
<1>1. PICK s, t : s = Held(kd, hp, h, ch) /\ t = Held(kd, hp2, h2, ch2)
  OBVIOUS
<1>2. /\ Len(s) = h.len /\ DOMAIN s = 1..h.len
      /\ \A i \in 1..h.len : s[i] = HeldAt(kd, hp, h, ch, i - 1)
  BY <1>1, HeldIs
<1>3. /\ Len(t) = h.len + 1
      /\ \A i \in 1..(h.len + 1) : t[i] = HeldAt(kd, hp2, h2, ch2, i - 1)
  <2>1. h2.len \in Nat
    OBVIOUS
  <2>2. Len(t) = h2.len /\ \A i \in 1..h2.len : t[i] = HeldAt(kd, hp2, h2, ch2, i - 1)
    BY <1>1, <2>1, HeldIs
  <2>3. QED BY <2>2
<1>4. ASSUME NEW i \in 1..h.len PROVE t[i] = s[i]
  <2>1. PICK k \in Nat : k = i - 1
    OBVIOUS
  <2>2. k < h.len /\ i \in 1..(h.len + 1)
    BY <2>1
  <2>3. HeldAt(kd, hp2, h2, ch2, k) = HeldAt(kd, hp, h, ch, k)
    BY <2>2 DEF SameAt
  <2>4. QED BY <1>2, <1>3, <2>1, <2>2, <2>3
<1>5. QED BY <1>1, <1>2, <1>3, <1>4 DEF Grows

\* One of them replaced.
LEMMA HeldReplaced ==
  ASSUME NEW kd, NEW hp, NEW hp2, NEW h, NEW ch, NEW m \in Nat, h.len \in Nat, m < h.len,
         \A k \in Nat : k < h.len /\ k # m => HeldAt(kd, hp2, h, ch, k) = HeldAt(kd, hp, h, ch, k)
  PROVE  Replaces(Held(kd, hp, h, ch), Held(kd, hp2, h, ch))
<1>1. PICK s, t : s = Held(kd, hp, h, ch) /\ t = Held(kd, hp2, h, ch)
  OBVIOUS
<1>2. /\ Len(s) = h.len /\ DOMAIN s = 1..h.len
      /\ \A i \in 1..h.len : s[i] = HeldAt(kd, hp, h, ch, i - 1)
  BY <1>1, HeldIs
<1>3. Len(t) = h.len /\ \A i \in 1..h.len : t[i] = HeldAt(kd, hp2, h, ch, i - 1)
  BY <1>1, HeldIs
<1>4. PICK j \in 1..h.len : j = m + 1
  OBVIOUS
<1>5. ASSUME NEW i \in DOMAIN s \ {j} PROVE t[i] = s[i]
  <2>1. i \in 1..h.len /\ i # j
    BY <1>2, <1>5
  <2>2. PICK k \in Nat : k = i - 1
    BY <2>1
  <2>3. k < h.len /\ k # m
    BY <1>4, <2>1, <2>2
  <2>4. HeldAt(kd, hp2, h, ch, k) = HeldAt(kd, hp, h, ch, k)
    BY <2>3
  <2>5. QED BY <1>2, <1>3, <2>1, <2>2, <2>4
<1>6. QED BY <1>1, <1>2, <1>3, <1>4, <1>5 DEF Replaces

\* Two indices do not share a slot.
LEMMA SlotDiffers ==
  ASSUME NEW kd, NEW hp, NEW ch, NEW k \in Nat, NEW l \in Nat, Linked(kd, hp, ch),
         k < Count(hp, ch), l < Count(hp, ch), k # l,
         SlotOf(ch, k)[1] = SlotOf(ch, l)[1]
  PROVE  SlotOf(ch, k)[2] # SlotOf(ch, l)[2]
<1>1. /\ Place(k) \in 1..Len(ch) /\ Place(k) \in Nat \ {0} /\ SlotOf(ch, k)[1] = ch[Place(k)]
      /\ SlotOf(ch, k)[2] = (k - First(Place(k))) + 1
  BY SlotFilled
<1>2. /\ Place(l) \in 1..Len(ch) /\ SlotOf(ch, l)[1] = ch[Place(l)]
      /\ SlotOf(ch, l)[2] = (l - First(Place(l))) + 1
  BY SlotFilled
<1>3. DOMAIN ch = 1..Len(ch) /\ IsInjective(ch)
  BY DEF Linked
<1>4. Place(k) = Place(l)
  BY <1>1, <1>2, <1>3 DEF IsInjective
<1>5. First(Place(k)) \in Nat
  BY <1>1, FirstGoes
<1>6. QED BY <1>1, <1>2, <1>4, <1>5

\* What a program reads at the container's indices is what it holds.
ContentsKnown ==
  \A cc, cd, vc : InvWith(cc, cd, vc) =>
    /\ hdr.c.len \in Nat
    /\ Elements(hdr.c) = Held(kind, heap, hdr.c, cc)

\* It always is.
LEMMA ContentsAre == ContentsKnown
<1>1. SUFFICES ASSUME NEW cc, NEW cd, NEW vc, InvWith(cc, cd, vc)
               PROVE  hdr.c.len \in Nat /\ Elements(hdr.c) = Held(kind, heap, hdr.c, cc)
  BY DEF ContentsKnown
<1>2. kind \in Kinds /\ Linked(kind, heap, cc) /\ Leads(kind, heap, hdr.c, cc)
  BY <1>1 DEF InvWith, Inv, Owns
<1>3. PICK h : h = hdr.c
  OBVIOUS
<1>4. h.len \in Nat
  BY <1>2, <1>3, Numbers DEF Leads, IsHeader
<1>5. ASSUME NEW i \in 1..h.len PROVE ItemAt(SlotAt(h, i - 1)) = HeldAt(kind, heap, h, cc, i - 1)
  <2>1. PICK k \in Nat : k = i - 1
    OBVIOUS
  <2>2. k < h.len
    BY <1>4, <2>1
  <2>3. /\ kind = "dvec" => SlotAt(h, k) = <<h.buf, k + 1>>
        /\ kind # "dvec" => SlotAt(h, k) = SlotOf(cc, k)
    BY <1>2, <1>3, <2>2, SlotAtIs
  <2>4. CASE kind = "dvec"
    <3>1. SlotAt(h, k)[1] = h.buf /\ SlotAt(h, k)[2] = k + 1
      BY <2>3, <2>4
    <3>2. QED BY <2>1, <2>4, <3>1 DEF ItemAt, HeldAt
  <2>5. CASE kind # "dvec"
    BY <2>1, <2>3, <2>5 DEF ItemAt, HeldAt
  <2>6. QED BY <2>4, <2>5
<1>6. Elements(h) = Held(kind, heap, h, cc)
  BY <1>5 DEF Elements, Held
<1>7. QED BY <1>3, <1>4, <1>6

\* How a step that goes from chain cc to cc2 changes what the container holds.
Evolution(cc, cc2) == Evolves(Held(kind, heap, hdr.c, cc), Held(kind', heap', hdr'.c, cc2))

\* Where neither the heap nor the header changes, nothing does.
LEMMA QuietHeld ==
  ASSUME NEW cc, kind' = kind, heap' = heap, hdr'.c = hdr.c
  PROVE  Evolution(cc, cc)
BY DEF Evolution, Evolves

\* The container, in the parts that reading it needs.
LEMMA OwnIs ==
  ASSUME NEW cc, NEW cd, NEW vc, InvWith(cc, cd, vc)
  PROVE  /\ kind \in Kinds /\ Shape(heap) /\ hdr = [c |-> hdr.c, d |-> hdr.d]
         /\ Owns(kind, heap, hdr.c, cc) /\ Owns(kind, heap, hdr.d, cd) /\ Disjoint(cc, cd)
         /\ Linked(kind, heap, cc) /\ Leads(kind, heap, hdr.c, cc) /\ IsHeader(hdr.c)
         /\ IsHeader(hdr.d) /\ hdr.c.len \in Nat /\ hdr.c.cap \in Nat
         /\ kind # "dvec" => hdr.c.len = Count(heap, cc)
         /\ kind = "dvec" => BufferOK(heap, hdr.c)
<1>1. /\ kind \in Kinds /\ Shape(heap) /\ hdr = [c |-> hdr.c, d |-> hdr.d]
      /\ Owns(kind, heap, hdr.c, cc) /\ Owns(kind, heap, hdr.d, cd) /\ Disjoint(cc, cd)
  BY DEF InvWith, Inv
<1>2. /\ Linked(kind, heap, cc) /\ Leads(kind, heap, hdr.c, cc) /\ IsHeader(hdr.c)
      /\ kind # "dvec" => hdr.c.len = Count(heap, cc)
      /\ kind = "dvec" => BufferOK(heap, hdr.c)
  BY <1>1 DEF Owns, Leads
<1>3. IsHeader(hdr.d)
  BY <1>1 DEF Owns, Leads
<1>4. hdr.c.len \in Nat /\ hdr.c.cap \in Nat
  BY <1>2, Numbers DEF IsHeader
<1>5. QED BY <1>1, <1>2, <1>3, <1>4

\* An allocation, and the collection in it, leave every element in its place.
LEMMA AllocationHeld ==
  ASSUME NEW cc, NEW cd, NEW vc, InvWith(cc, cd, vc), NEW hp, NEW n, NEW b, AllocatedAt(hp, n, b)
  PROVE  SameAt(kind, heap, hp, hdr.c, hdr.c, cc, cc)
<1>1. /\ kind \in Kinds /\ Linked(kind, heap, cc) /\ IsHeader(hdr.c) /\ hdr.c.len \in Nat
      /\ hdr.c.cap \in Nat /\ (kind # "dvec" => hdr.c.len = Count(heap, cc))
      /\ kind = "dvec" => BufferOK(heap, hdr.c)
  BY OwnIs
<1>2. Kept(heap, hp, Reached)
  BY DEF AllocatedAt
<1>3. Spans(heap, Reached, cc) /\ BufSpans(kind, heap, Reached, hdr.c)
  BY HeldReached
<1>4. \A i \in 1..Len(cc) : hp[cc[i]] = heap[cc[i]]
  <2>1. /\ Linked(kind, hp, cc) /\ Count(hp, cc) = Count(heap, cc)
        /\ \A i \in 1..Len(cc) : hp[cc[i]] = heap[cc[i]]
    BY <1>1, <1>2, <1>3, KeptChain
  <2>2. QED BY <2>1
<1>5. ASSUME NEW k \in Nat, k < hdr.c.len
      PROVE  HeldAt(kind, hp, hdr.c, cc, k) = HeldAt(kind, heap, hdr.c, cc, k)
  <2>1. CASE kind = "dvec"
    <3>1. k + 1 \in 1..hdr.c.cap /\ hdr.c.cap # 0 /\ hdr.c.buf # NULL
      BY <1>1, <1>5, <2>1 DEF BufferOK
    <3>2. hdr.c.buf \in Addr /\ heap[hdr.c.buf].is = "buffer" /\ hdr.c.buf \in Reached
      BY <1>1, <1>3, <2>1, <3>1 DEF BufferOK, IsHeader, BufSpans
    <3>3. hp[hdr.c.buf] = heap[hdr.c.buf]
      BY <1>2, <3>2 DEF Kept
    <3>4. QED BY <2>1, <3>3 DEF HeldAt
  <2>2. CASE kind # "dvec"
    <3>1. k < Count(heap, cc)
      BY <1>1, <1>5, <2>2
    <3>2. Place(k) \in 1..Len(cc) /\ SlotOf(cc, k)[1] = cc[Place(k)]
      BY <1>1, <3>1, SlotFilled
    <3>3. QED BY <1>4, <2>2, <3>2 DEF HeldAt
  <2>3. QED BY <2>1, <2>2
<1>6. QED BY <1>5 DEF SameAt

\* So a step that only allocates changes nothing.
LEMMA AllocatedHeld ==
  ASSUME NEW cc, NEW cd, NEW vc, InvWith(cc, cd, vc), NEW b, IsBlock(b), CanAllocate,
         heap' = [Collected EXCEPT ![Fresh] = b], kind' = kind, hdr' = hdr
  PROVE  Evolution(cc, cc)
<1>1. PICK hp : hp = heap'
  OBVIOUS
<1>2. hp = [Collected EXCEPT ![Fresh] = b]
  BY <1>1
<1>3. AllocatedAt(hp, Fresh, b)
  BY <1>2, AllocatedIs
<1>4. SameAt(kind, heap, hp, hdr.c, hdr.c, cc, cc)
  BY <1>3, AllocationHeld
<1>5. hdr.c.len \in Nat
  BY OwnIs
<1>6. Held(kind, hp, hdr.c, cc) = Held(kind, heap, hdr.c, cc)
  BY <1>4, <1>5, HeldSame
<1>7. QED BY <1>1, <1>6 DEF Evolution, Evolves

\* A growth copies what there is.
LEMMA GrowHeld ==
  ASSUME NEW cc, NEW cd, NEW vc, InvWith(cc, cd, vc), Grow
  PROVE  Evolution(cc, cc)
<1>1. /\ push.pc = "grow" /\ CanAllocate
      /\ heap' = [Collected EXCEPT ![Fresh] = Copied(Header, NewCap(Header))]
      /\ Stored(Widened(Header, Fresh, NewCap(Header)))
      /\ kind' = kind
  BY DEF Grow, Allocated, Widened
<1>2. /\ hdr = [c |-> hdr.c, d |-> hdr.d]
      /\ \/ push.to = "c" /\ clone.pc = "idle" /\ Pushing(kind, heap, push, hdr.c, cc)
         \/ /\ push.to = "d" /\ clone.pc # "idle" /\ kind = "tablets"
            /\ Pushing(kind, heap, push, hdr.d, cd)
  BY <1>1, TargetIs
<1>3. kind # "tablets" /\ push.to = "c" /\ Pushing(kind, heap, push, hdr.c, cc)
  BY <1>1, <1>2 DEF Pushing
<1>4. PICK h, e, cap, b : /\ h = Header /\ cap = NewCap(h) /\ b = Copied(h, cap)
                          /\ e = Widened(h, Fresh, cap)
  OBVIOUS
<1>5. h = hdr.c /\ hdr'.c = e
  <2>1. Stored(e)
    BY <1>1, <1>4
  <2>2. push.to = "c" => Header = hdr.c /\ hdr'.c = e /\ hdr'.d = hdr.d
    BY <1>2, <2>1, StoredIs
  <2>3. QED BY <1>3, <1>4, <2>2
<1>6. /\ kind \in Kinds /\ IsHeader(h) /\ h.len \in Nat /\ Linked(kind, heap, cc)
      /\ kind # "dvec" => h.len = Count(heap, cc)
  BY <1>5, OwnIs
<1>7. kind \in {"ivec", "dvec"} /\ h.len = h.cap
  BY <1>1, <1>3, <1>5, <1>6, KindsAssumption DEF Pushing
<1>8. /\ IsBlock(b) /\ cap \in Nat \ {0} /\ h.cap \in Nat /\ h.cap < cap
      /\ DOMAIN b.items = 1..cap
      /\ \A k \in 1..cap : k <= h.cap => b.items[k] = heap[h.buf].items[k]
      /\ kind = "ivec" => b.is = "bytes"
      /\ kind = "dvec" => b.is = "buffer" /\ \A k \in 1..cap : ~(k <= h.cap) => b.items[k] = NULL
  BY <1>4, <1>6, <1>7, CopiedIs
<1>9. PICK hp : hp = heap'
  OBVIOUS
<1>10. hp = [Collected EXCEPT ![Fresh] = b]
  BY <1>1, <1>4, <1>9
<1>11. AllocatedAt(hp, Fresh, b)
  BY <1>1, <1>8, <1>10, AllocatedIs
<1>12. PICK n \in Addr : n = Fresh
  BY <1>11 DEF AllocatedAt
<1>13. hp[n] = b
  BY <1>11, <1>12 DEF AllocatedAt
<1>14. SameAt(kind, heap, hp, h, h, cc, cc)
  BY <1>5, <1>11, AllocationHeld
<1>15. e.len = h.len /\ e.buf = n
  <2>1. PICK m \in Nat : m = cap
    BY <1>8
  <2>2. IsHeader(h) /\ e = Widened(h, n, m)
    BY <1>4, <1>6, <1>12, <2>1
  <2>3. /\ IsHeader(e) /\ e.head = h.head /\ e.tail = h.tail /\ e.buf = n
        /\ e.len = h.len /\ e.cap = m
    BY <2>2, WiderIs
  <2>4. QED BY <2>3
<1>16. ASSUME NEW k \in Nat, k < h.len
       PROVE  HeldAt(kind, hp, e, cc, k) = HeldAt(kind, heap, h, cc, k)
  <2>1. CASE kind = "dvec"
    <3>1. k + 1 \in 1..cap /\ k + 1 <= h.cap
      BY <1>6, <1>7, <1>8, <1>16
    <3>2. b.items[k + 1] = heap[h.buf].items[k + 1]
      BY <1>8, <3>1
    <3>3. QED BY <1>13, <1>15, <2>1, <3>2 DEF HeldAt
  <2>2. CASE kind # "dvec"
    <3>1. HeldAt(kind, hp, h, cc, k) = HeldAt(kind, heap, h, cc, k)
      BY <1>14, <1>16 DEF SameAt
    <3>2. QED BY <2>2, <3>1 DEF HeldAt
  <2>3. QED BY <2>1, <2>2
<1>17. SameAt(kind, heap, hp, h, e, cc, cc)
  BY <1>16 DEF SameAt
<1>18. Held(kind, hp, e, cc) = Held(kind, heap, h, cc)
  BY <1>6, <1>15, <1>17, HeldSame
<1>19. QED BY <1>1, <1>5, <1>9, <1>18 DEF Evolution, Evolves

\* A new chunk holds nothing yet.
LEMMA NewChunkHeld ==
  ASSUME NEW cc, NEW cd, NEW vc, InvWith(cc, cd, vc), NewChunk, NEW cc2, Continues(cc, cc2)
  PROVE  Evolution(cc, cc2)
<1>1. PICK hp, n :
        /\ AllocatedAt(hp, n, Chunk) /\ n \in Addr
        /\ heap' = Linking(hp, Header, n) /\ Stored(Extended(Header, n))
  BY NewChunkIs
<1>2. push.pc = "chunk" /\ kind' = kind
  BY DEF NewChunk
<1>3. /\ hdr = [c |-> hdr.c, d |-> hdr.d]
      /\ \/ push.to = "c" /\ clone.pc = "idle" /\ Pushing(kind, heap, push, hdr.c, cc)
         \/ /\ push.to = "d" /\ clone.pc # "idle" /\ kind = "tablets"
            /\ Pushing(kind, heap, push, hdr.d, cd)
  BY <1>2, TargetIs
<1>4. kind # "dvec"
  BY <1>2, <1>3 DEF Pushing
<1>5. /\ kind \in Kinds /\ IsHeader(hdr.c) /\ IsHeader(hdr.d) /\ hdr.c.len \in Nat
      /\ Linked(kind, heap, cc) /\ hdr.c.len = Count(heap, cc)
  BY <1>4, OwnIs
<1>6. PICK h, e : h = Header /\ e = Extended(h, n)
  OBVIOUS
<1>7. /\ push.to = "c" => h = hdr.c /\ hdr'.c = e
      /\ push.to = "d" => h = hdr.d /\ hdr'.c = hdr.c
  <2>1. Stored(e)
    BY <1>1, <1>6
  <2>2. /\ push.to = "c" => Header = hdr.c /\ hdr'.c = e /\ hdr'.d = hdr.d
        /\ push.to = "d" => Header = hdr.d /\ hdr'.d = e /\ hdr'.c = hdr.c
    BY <1>3, <2>1, StoredIs
  <2>3. QED BY <1>6, <2>2
<1>8. IsHeader(h)
  BY <1>3, <1>5, <1>7
<1>9. e.len = h.len
  <2>1. n \in Addr /\ IsHeader(h) /\ e = Extended(h, n)
    BY <1>1, <1>6, <1>8
  <2>2. QED BY <2>1, ExtendedIs
<1>10. hdr'.c.len = hdr.c.len
  BY <1>3, <1>7, <1>9
<1>11. PICK hp2 : hp2 = heap'
  OBVIOUS
<1>12. Shape(hp)
  BY <1>1 DEF AllocatedAt
<1>13. \A a \in Addr : hp2[a].items = hp[a].items
  <2>1. CASE h.tail = NULL
    <3>1. hp2 = hp
      BY <1>1, <1>6, <1>11, <2>1 DEF Linking
    <3>2. QED BY <3>1
  <2>2. CASE h.tail # NULL
    <3>1. PICK t \in Addr : t = h.tail
      BY <1>8, <2>2 DEF IsHeader
    <3>2. hp2 = WithNext(hp, t, n)
      BY <1>1, <1>6, <1>11, <2>2, <3>1 DEF Linking
    <3>3. /\ Shape(hp2)
          /\ \A b \in Addr : /\ hp2[b].is = hp[b].is /\ hp2[b].used = hp[b].used
                             /\ hp2[b].items = hp[b].items /\ hp2[b].text = hp[b].text
          /\ \A b \in Addr : b # t => hp2[b] = hp[b]
          /\ hp2[t].next = n
      BY <1>12, <3>2, LinkStored
    <3>4. QED BY <3>3
  <2>3. QED BY <2>1, <2>2
<1>14. SameAt(kind, heap, hp, hdr.c, hdr.c, cc, cc)
  BY <1>1, AllocationHeld
<1>15. PICK g : g = hdr'.c
  OBVIOUS
<1>16. ASSUME NEW k \in Nat, k < hdr.c.len
       PROVE  HeldAt(kind, hp2, g, cc2, k) = HeldAt(kind, heap, hdr.c, cc, k)
  <2>1. k < Count(heap, cc)
    BY <1>5, <1>16
  <2>2. Place(k) \in 1..Len(cc) /\ SlotOf(cc, k)[1] = cc[Place(k)] /\ cc[Place(k)] \in Addr
    BY <1>5, <2>1, SlotFilled
  <2>3. SlotOf(cc2, k) = SlotOf(cc, k)
    <3>1. ASSUME NEW m \in Addr PROVE SlotOf(Append(cc, m), k) = SlotOf(cc, k)
      BY <1>5, <2>1, SlotStays
    <3>2. cc2 = cc \/ \E m \in Addr : cc2 = Append(cc, m)
      BY DEF Continues
    <3>3. CASE cc2 = cc
      BY <3>3
    <3>4. CASE \E m \in Addr : cc2 = Append(cc, m)
      <4>1. PICK m \in Addr : cc2 = Append(cc, m)
        BY <3>4
      <4>2. SlotOf(Append(cc, m), k) = SlotOf(cc, k)
        BY <3>1
      <4>3. QED BY <4>1, <4>2
    <3>5. QED BY <3>2, <3>3, <3>4
  <2>4. HeldAt(kind, hp, hdr.c, cc, k) = HeldAt(kind, heap, hdr.c, cc, k)
    BY <1>14, <1>16 DEF SameAt
  <2>5. hp2[SlotOf(cc, k)[1]].items = hp[SlotOf(cc, k)[1]].items
    BY <1>13, <2>2
  <2>6. QED BY <1>4, <2>3, <2>4, <2>5 DEF HeldAt
<1>17. SameAt(kind, heap, hp2, hdr.c, g, cc, cc2)
  BY <1>16 DEF SameAt
<1>18. Held(kind, hp2, g, cc2) = Held(kind, heap, hdr.c, cc)
  BY <1>5, <1>10, <1>15, <1>17, HeldSame
<1>19. QED BY <1>2, <1>11, <1>15, <1>18 DEF Evolution, Evolves

\* A store into one slot, as far as reading the others goes.
Spares(hp, hp2, a, u) ==
  /\ \A b \in Addr : /\ hp2[b].is = hp[b].is /\ DOMAIN hp2[b].items = DOMAIN hp[b].items
                     /\ b # a => hp2[b] = hp[b]
  /\ \A j \in DOMAIN hp[a].items : j # u => hp2[a].items[j] = hp[a].items[j]

\* It spares all but one slot.
LEMMA SlotSpares ==
  ASSUME NEW hp, NEW hp2, NEW a \in Addr, NEW u, NEW v, Shape(hp), u \in DOMAIN hp[a].items,
         hp2 = WithSlot(hp, a, u, v)
  PROVE  Shape(hp2) /\ Spares(hp, hp2, a, u) /\ hp2[a].items[u] = v
<1>1. /\ Shape(hp2)
      /\ \A b \in Addr : /\ hp2[b].is = hp[b].is
                         /\ hp2[b].next = hp[b].next /\ hp2[b].text = hp[b].text
                         /\ DOMAIN hp2[b].items = DOMAIN hp[b].items
      /\ \A b \in Addr : b # a => hp2[b] = hp[b]
      /\ hp2[a].items[u] = v /\ hp2[a].used = hp[a].used + 1
      /\ \A j \in DOMAIN hp[a].items : j # u => hp2[a].items[j] = hp[a].items[j]
  BY SlotStored
<1>2. QED BY <1>1 DEF Spares

\* Filling the slot after the last one leaves those before it.
LEMMA SlotsKept ==
  ASSUME NEW kd, NEW hp, NEW hp2, NEW h, NEW ch, NEW v, Shape(hp), Owns(kd, hp, h, ch),
         kd \in {"tablets", "ivec"}, h.tail # NULL, hp[h.tail].used # N,
         kd = "ivec" => h.len < h.cap, hp2 = Filling(kd, hp, h, v), NEW k \in Nat, k < h.len
  PROVE  hp2[SlotOf(ch, k)[1]].items[SlotOf(ch, k)[2]] = hp[SlotOf(ch, k)[1]].items[SlotOf(ch, k)[2]]
<1>1. /\ Linked(kd, hp, ch) /\ IsHeader(h) /\ h.len = Count(hp, ch)
      /\ ch # << >> /\ h.tail = ch[Len(ch)] /\ (kd = "ivec" => BytesOK(hp, h, ch))
  BY DEF Owns, Leads
<1>2. Len(ch) \in 1..Len(ch) /\ h.len \in Nat /\ h.cap \in Nat
  BY <1>1, CountIs, Numbers DEF IsHeader
<1>3. ChunkOK(hp, h.tail)
  BY <1>1, <1>2 DEF Linked
<1>4. h.tail \in Addr /\ hp[h.tail].is = "chunk" /\ hp[h.tail].used \in Nat
      /\ DOMAIN hp[h.tail].items = 1..N /\ hp[h.tail].used < N
  BY <1>3, Numbers DEF ChunkOK
<1>5. PICK a \in Addr : a = h.tail
  BY <1>4
<1>6. PICK u : u = hp[a].used + 1
  OBVIOUS
<1>7. PICK hp1 : hp1 = WithSlot(hp, a, u, v)
  OBVIOUS
<1>8. Shape(hp) /\ u \in DOMAIN hp[a].items
  BY <1>4, <1>5, <1>6, Numbers
<1>15. Shape(hp1) /\ Spares(hp, hp1, a, u) /\ hp1[a].items[u] = v
  BY <1>7, <1>8, SlotSpares
<1>9. /\ Shape(hp1)
      /\ \A b \in Addr : hp1[b].is = hp[b].is /\ DOMAIN hp1[b].items = DOMAIN hp[b].items
      /\ \A b \in Addr : b # a => hp1[b] = hp[b]
      /\ \A j \in DOMAIN hp[a].items : j # u => hp1[a].items[j] = hp[a].items[j]
  BY <1>15 DEF Spares
<1>10. PICK c \in Addr, o \in 1..N :
         /\ c = SlotOf(ch, k)[1] /\ o = SlotOf(ch, k)[2]
         /\ hp[c].is = "chunk" /\ o <= hp[c].used
  <2>1. k < Count(hp, ch)
    BY <1>1
  <2>2. /\ SlotOf(ch, k)[1] = ch[Place(k)] /\ ch[Place(k)] \in Addr
        /\ SlotOf(ch, k)[2] = (k - First(Place(k))) + 1 /\ (k - First(Place(k))) + 1 \in 1..N
        /\ (k - First(Place(k))) + 1 <= hp[ch[Place(k)]].used /\ ChunkOK(hp, ch[Place(k)])
    BY <1>1, <2>1, SlotFilled
  <2>3. QED BY <2>2 DEF ChunkOK
<1>11. hp1[c].items[o] = hp[c].items[o]
  <2>1. CASE c = a
    <3>1. o \in DOMAIN hp[a].items
      BY <1>4, <1>5
    <3>2. o <= hp[a].used /\ hp[a].used \in Nat
      BY <1>4, <1>5, <1>10, <2>1
    <3>3. o # u
      BY <1>6, <3>2
    <3>4. QED BY <1>9, <2>1, <3>1, <3>3
  <2>2. CASE c # a
    BY <1>9, <2>2
  <2>3. QED BY <2>1, <2>2
<1>12. CASE kd = "tablets"
  <2>1. hp2 = hp1
    BY <1>5, <1>6, <1>7, <1>12 DEF Filling
  <2>2. QED BY <1>10, <1>11, <2>1
<1>13. CASE kd = "ivec"
  <2>1. h.buf \in Addr /\ hp[h.buf].is = "bytes" /\ DOMAIN hp[h.buf].items = 1..h.cap
    BY <1>1, <1>2, <1>13 DEF BytesOK, IsHeader
  <2>0. PICK s : s = <<h.tail, hp[h.tail].used + 1>>
    OBVIOUS
  <2>8. h.len + 1 \in 1..h.cap
    BY <1>2, <1>13
  <2>9. PICK d \in Addr : d = h.buf
    BY <2>1
  <2>10. PICK m : m = h.len + 1
    OBVIOUS
  <2>2. d = h.buf /\ m = h.len + 1 /\ m \in 1..h.cap
    BY <2>8, <2>9, <2>10
  <2>3. hp2 = WithItem(hp1, d, m, s)
    BY <1>5, <1>6, <1>7, <1>13, <2>0, <2>2 DEF Filling
  <2>4. Shape(hp1) /\ m \in DOMAIN hp1[d].items
    BY <1>9, <2>1, <2>2
  <2>5. \A b \in Addr : b # d => hp2[b] = hp1[b]
    <3>1. /\ Shape(hp2)
          /\ \A b \in Addr : /\ hp2[b].is = hp1[b].is /\ hp2[b].used = hp1[b].used
                             /\ hp2[b].next = hp1[b].next /\ hp2[b].text = hp1[b].text
                             /\ DOMAIN hp2[b].items = DOMAIN hp1[b].items
          /\ \A b \in Addr : b # d => hp2[b] = hp1[b]
          /\ hp2[d].items[m] = s
          /\ \A j \in DOMAIN hp1[d].items : j # m => hp2[d].items[j] = hp1[d].items[j]
      BY <2>3, <2>4, ItemStored
    <3>2. QED BY <3>1
  <2>6. c # d
    BY <1>10, <2>1, <2>2
  <2>7. QED BY <1>10, <1>11, <2>5, <2>6
<1>14. QED BY <1>12, <1>13

\* A store into a chunk of c appends; one into a chunk of d is none of c's.
LEMMA InsertChunkedHeld ==
  ASSUME NEW cc, NEW cd, NEW vc, InvWith(cc, cd, vc), InsertChunked
  PROVE  Evolution(cc, cc)
<1>1. /\ push.pc = "insert" /\ kind # "dvec"
      /\ heap' = Filling(kind, heap, Header, push.val)
      /\ Inserted(<<Header.tail, heap[Header.tail].used + 1>>)
  BY InsertChunkedIs
<1>2. /\ push = [pc |-> push.pc, to |-> push.to, val |-> push.val, moved |-> push.moved,
                 slot |-> push.slot]
      /\ hdr = [c |-> hdr.c, d |-> hdr.d] /\ IsString(heap, push.val)
      /\ \/ push.to = "c" /\ clone.pc = "idle" /\ Pushing(kind, heap, push, hdr.c, cc)
         \/ /\ push.to = "d" /\ clone.pc # "idle" /\ kind = "tablets"
            /\ Pushing(kind, heap, push, hdr.d, cd)
  BY <1>1, TargetIs
<1>3. kind' = kind /\ Stored([Header EXCEPT !.len = @ + 1])
  <2>1. PICK s : s = <<Header.tail, heap[Header.tail].used + 1>>
    OBVIOUS
  <2>2. Inserted(s)
    BY <1>1, <2>1
  <2>3. QED BY <2>2 DEF Inserted
<1>4. PICK h, e, v, hp2 : h = Header /\ e = [Header EXCEPT !.len = @ + 1] /\ v = push.val /\ hp2 = heap'
  OBVIOUS
<1>5. /\ push.to = "c" => h = hdr.c /\ hdr'.c = e
      /\ push.to = "d" => h = hdr.d /\ hdr'.c = hdr.c
  <2>1. Stored(e)
    BY <1>3, <1>4
  <2>2. /\ push.to = "c" => Header = hdr.c /\ hdr'.c = e /\ hdr'.d = hdr.d
        /\ push.to = "d" => Header = hdr.d /\ hdr'.d = e /\ hdr'.c = hdr.c
    BY <1>2, <2>1, StoredIs
  <2>3. QED BY <1>4, <2>2
<1>6. /\ kind \in Kinds /\ IsHeader(hdr.c) /\ hdr.c.len \in Nat /\ Shape(heap)
      /\ Owns(kind, heap, hdr.c, cc) /\ Owns(kind, heap, hdr.d, cd) /\ Disjoint(cc, cd)
      /\ Linked(kind, heap, cc) /\ hdr.c.len = Count(heap, cc)
  BY <1>1, OwnIs
<1>7. kind \in {"tablets", "ivec"} /\ hp2 = Filling(kind, heap, h, v)
  BY <1>1, <1>4, <1>6, KindsAssumption
<1>8. CASE push.to = "c"
  <2>1. h = hdr.c /\ hdr'.c = e /\ Pushing(kind, heap, push, h, cc)
    BY <1>2, <1>5, <1>8
  <2>2. /\ h.len < MaxLen /\ h.tail # NULL /\ heap[h.tail].used # N
        /\ kind = "ivec" => h.len < h.cap
    BY <1>1, <2>1 DEF Pushing
  <2>3. e.len = h.len + 1
    <3>1. IsHeader(h) /\ h.len < MaxLen /\ e = [h EXCEPT !.len = @ + 1]
      BY <1>4, <1>6, <2>1, <2>2
    <3>2. QED BY <3>1, LongerIs
  <2>4. ASSUME NEW k \in Nat, k < h.len
        PROVE  HeldAt(kind, hp2, e, cc, k) = HeldAt(kind, heap, h, cc, k)
    <3>1. Shape(heap) /\ Owns(kind, heap, h, cc)
      BY <1>6, <2>1
    <3>2. hp2[SlotOf(cc, k)[1]].items[SlotOf(cc, k)[2]] = heap[SlotOf(cc, k)[1]].items[SlotOf(cc, k)[2]]
      BY <1>7, <2>2, <2>4, <3>1, SlotsKept
    <3>3. QED BY <1>1, <3>2 DEF HeldAt
  <2>5. SameAt(kind, heap, hp2, h, e, cc, cc)
    BY <2>4 DEF SameAt
  <2>6. Grows(Held(kind, heap, h, cc), Held(kind, hp2, e, cc))
    BY <1>6, <2>1, <2>3, <2>5, HeldGrows
  <2>7. QED BY <1>3, <1>4, <2>1, <2>6 DEF Evolution, Evolves
<1>9. CASE push.to = "d"
  <2>1. /\ h = hdr.d /\ hdr'.c = hdr.c /\ Pushing(kind, heap, push, h, cd) /\ kind = "tablets"
        /\ Owns(kind, heap, h, cd)
    BY <1>2, <1>5, <1>6, <1>9
  <2>2. h.len < MaxLen /\ h.tail # NULL /\ heap[h.tail].used # N /\ (kind = "ivec" => h.len < h.cap)
    BY <1>1, <2>1 DEF Pushing
  <2>3. SlotAdded(kind, heap, hp2, h, e, cd)
    <3>1. Shape(heap) /\ Owns(kind, heap, h, cd) /\ IsString(heap, v)
      BY <1>2, <1>4, <1>6, <2>1
    <3>2. hp2 = Filling(kind, heap, h, v) /\ e = [h EXCEPT !.len = @ + 1]
      BY <1>4, <1>7
    <3>3. QED BY <1>7, <2>2, <3>1, <3>2, SlotInserted
  <2>4. h.tail \in Range(cd) /\ \A b \in Addr : b # h.tail => hp2[b] = heap[b]
    BY <2>1, <2>3 DEF SlotAdded
  <2>5. ASSUME NEW k \in Nat, k < hdr.c.len
        PROVE  HeldAt(kind, hp2, hdr.c, cc, k) = HeldAt(kind, heap, hdr.c, cc, k)
    <3>1. k < Count(heap, cc)
      BY <1>6, <2>5
    <3>2. Place(k) \in 1..Len(cc) /\ SlotOf(cc, k)[1] = cc[Place(k)] /\ cc[Place(k)] \in Addr
      BY <1>6, <3>1, SlotFilled
    <3>3. cc[Place(k)] \in Range(cc)
      <4>1. cc \in Seq(Addr)
        BY <1>6 DEF Linked
      <4>2. QED BY <3>2, <4>1 DEF Range
    <3>4. cc[Place(k)] # h.tail
      BY <1>6, <2>4, <3>3 DEF Disjoint
    <3>5. hp2[cc[Place(k)]] = heap[cc[Place(k)]]
      BY <2>4, <3>2, <3>4
    <3>6. QED BY <1>1, <3>2, <3>5 DEF HeldAt
  <2>6. SameAt(kind, heap, hp2, hdr.c, hdr.c, cc, cc)
    BY <2>5 DEF SameAt
  <2>7. Held(kind, hp2, hdr.c, cc) = Held(kind, heap, hdr.c, cc)
    BY <1>6, <2>6, HeldSame
  <2>8. QED BY <1>3, <1>4, <2>1, <2>7 DEF Evolution, Evolves
<1>10. QED BY <1>2, <1>8, <1>9

\* A store behind a dvec's elements appends.
LEMMA InsertInlineHeld ==
  ASSUME NEW cc, NEW cd, NEW vc, InvWith(cc, cd, vc), InsertInline
  PROVE  Evolution(cc, cc)
<1>1. /\ push.pc = "insert" /\ kind = "dvec" /\ kind' = kind
      /\ heap' = WithItem(heap, Header.buf, Header.len + 1, push.val)
      /\ Stored([Header EXCEPT !.len = @ + 1])
  BY DEF InsertInline, Inserted, WithItem
<1>2. /\ hdr = [c |-> hdr.c, d |-> hdr.d]
      /\ \/ push.to = "c" /\ clone.pc = "idle" /\ Pushing(kind, heap, push, hdr.c, cc)
         \/ /\ push.to = "d" /\ clone.pc # "idle" /\ kind = "tablets"
            /\ Pushing(kind, heap, push, hdr.d, cd)
  BY <1>1, TargetIs
<1>3. push.to = "c" /\ Pushing(kind, heap, push, hdr.c, cc)
  BY <1>1, <1>2
<1>4. PICK h, e, v, hp2 : h = Header /\ e = [Header EXCEPT !.len = @ + 1] /\ v = push.val /\ hp2 = heap'
  OBVIOUS
<1>5. h = hdr.c /\ hdr'.c = e
  <2>1. Stored(e)
    BY <1>1, <1>4
  <2>2. push.to = "c" => Header = hdr.c /\ hdr'.c = e /\ hdr'.d = hdr.d
    BY <1>2, <2>1, StoredIs
  <2>3. QED BY <1>3, <1>4, <2>2
<1>6. IsHeader(h) /\ h.len \in Nat /\ h.cap \in Nat /\ Shape(heap) /\ BufferOK(heap, h)
  BY <1>1, <1>5, OwnIs
<1>7. h.len < MaxLen /\ h.len < h.cap
  BY <1>1, <1>3, <1>5 DEF Pushing
<1>8. h.buf \in Addr /\ DOMAIN heap[h.buf].items = 1..h.cap
  BY <1>6, <1>7 DEF BufferOK, IsHeader
<1>17. h.len + 1 \in 1..h.cap
  BY <1>6, <1>7
<1>18. PICK a \in Addr : a = h.buf
  BY <1>8
<1>19. PICK m : m = h.len + 1
  OBVIOUS
<1>9. a = h.buf /\ m = h.len + 1 /\ m \in 1..h.cap
  BY <1>17, <1>18, <1>19
<1>10. Shape(heap) /\ m \in DOMAIN heap[a].items /\ hp2 = WithItem(heap, a, m, v)
  BY <1>1, <1>4, <1>6, <1>8, <1>9
<1>11. \A j \in DOMAIN heap[a].items : j # m => hp2[a].items[j] = heap[a].items[j]
  <2>1. /\ Shape(hp2)
        /\ \A b \in Addr : /\ hp2[b].is = heap[b].is /\ hp2[b].used = heap[b].used
                           /\ hp2[b].next = heap[b].next /\ hp2[b].text = heap[b].text
                           /\ DOMAIN hp2[b].items = DOMAIN heap[b].items
        /\ \A b \in Addr : b # a => hp2[b] = heap[b]
        /\ hp2[a].items[m] = v
        /\ \A j \in DOMAIN heap[a].items : j # m => hp2[a].items[j] = heap[a].items[j]
    BY <1>10, ItemStored
  <2>2. QED BY <2>1
<1>12. e.len = h.len + 1 /\ e.buf = h.buf
  <2>1. e = [h EXCEPT !.len = @ + 1]
    BY <1>4
  <2>2. QED BY <1>6, <1>7, <2>1, LongerIs
<1>13. ASSUME NEW k \in Nat, k < h.len
       PROVE  HeldAt(kind, hp2, e, cc, k) = HeldAt(kind, heap, h, cc, k)
  <2>1. k + 1 \in DOMAIN heap[a].items /\ k + 1 # m
    BY <1>6, <1>7, <1>8, <1>9, <1>13
  <2>2. hp2[a].items[k + 1] = heap[a].items[k + 1]
    BY <1>11, <2>1
  <2>3. QED BY <1>1, <1>9, <1>12, <2>2 DEF HeldAt
<1>14. SameAt(kind, heap, hp2, h, e, cc, cc)
  BY <1>13 DEF SameAt
<1>15. Grows(Held(kind, heap, h, cc), Held(kind, hp2, e, cc))
  BY <1>6, <1>12, <1>14, HeldGrows
<1>16. QED BY <1>1, <1>4, <1>5, <1>15 DEF Evolution, Evolves

\* An assignment replaces one element, or writes where the container is not.
LEMMA StoreHeld ==
  ASSUME NEW cc, NEW cd, NEW vc, InvWith(cc, cd, vc), Store
  PROVE  Evolution(cc, cc)
<1>1. /\ lval.on /\ lval.slot[2] \in DOMAIN heap[lval.slot[1]].items
      /\ heap' = WithItem(heap, lval.slot[1], lval.slot[2], x) /\ kind' = kind /\ hdr' = hdr
  BY DEF Store, WithItem
<1>2. /\ kind \in Kinds /\ Shape(heap) /\ Linked(kind, heap, cc) /\ IsHeader(hdr.c)
      /\ hdr.c.len \in Nat /\ hdr.c.cap \in Nat
      /\ kind # "dvec" => hdr.c.len = Count(heap, cc)
      /\ kind = "dvec" => BufferOK(heap, hdr.c)
  BY OwnIs
<1>3. LvalOK(kind, heap, lval, hdr.c, cc, cd) /\ lval.moved \in BOOLEAN
  BY DEF InvWith, Inv, LvalOK
<1>4. lval.on = TRUE
  BY <1>1, <1>3, Zenon DEF LvalOK
<1>5. /\ lval.slot[1] \in Addr
      /\ lval.moved = FALSE =>
           /\ lval.i \in Nat /\ lval.i < hdr.c.len
           /\ kind = "dvec" => lval.slot = <<hdr.c.buf, lval.i + 1>>
           /\ kind # "dvec" => lval.slot = SlotOf(cc, lval.i)
      /\ lval.moved = TRUE => lval.slot[1] \notin Range(cc) /\ lval.slot[1] # hdr.c.buf
  BY <1>3, <1>4 DEF LvalOK
<1>0. PICK a \in Addr : a = lval.slot[1]
  BY <1>5
<1>6. PICK o, hp2, h : a = lval.slot[1] /\ o = lval.slot[2] /\ hp2 = heap' /\ h = hdr.c
  BY <1>0
<1>7. Shape(heap) /\ o \in DOMAIN heap[a].items /\ hp2 = WithItem(heap, a, o, x)
  BY <1>1, <1>2, <1>6
<1>8. /\ \A b \in Addr : b # a => hp2[b] = heap[b]
      /\ \A j \in DOMAIN heap[a].items : j # o => hp2[a].items[j] = heap[a].items[j]
  <2>1. PICK v : v = x
    OBVIOUS
  <2>2. hp2 = WithItem(heap, a, o, v)
    BY <1>7, <2>1
  <2>3. /\ Shape(hp2)
        /\ \A b \in Addr : /\ hp2[b].is = heap[b].is /\ hp2[b].used = heap[b].used
                           /\ hp2[b].next = heap[b].next /\ hp2[b].text = heap[b].text
                           /\ DOMAIN hp2[b].items = DOMAIN heap[b].items
        /\ \A b \in Addr : b # a => hp2[b] = heap[b]
        /\ hp2[a].items[o] = v
        /\ \A j \in DOMAIN heap[a].items : j # o => hp2[a].items[j] = heap[a].items[j]
    BY <1>7, <2>2, ItemStored
  <2>4. QED BY <2>3
<1>9. ASSUME NEW k \in Nat, k < h.len
      PROVE  \E c, p :
               /\ c \in Addr /\ p \in DOMAIN heap[c].items
               /\ \A hp : HeldAt(kind, hp, h, cc, k) = hp[c].items[p]
               /\ kind = "dvec" => c = h.buf /\ p = k + 1
               /\ kind # "dvec" => c \in Range(cc) /\ c = SlotOf(cc, k)[1] /\ p = SlotOf(cc, k)[2]
  <2>1. CASE kind = "dvec"
    <3>1. k + 1 \in 1..h.cap /\ h.cap # 0
      BY <1>2, <1>6, <1>9, <2>1 DEF BufferOK
    <3>2. h.buf \in Addr /\ k + 1 \in DOMAIN heap[h.buf].items
      BY <1>2, <1>6, <2>1, <3>1 DEF BufferOK, IsHeader
    <3>3. \A hp : HeldAt(kind, hp, h, cc, k) = hp[h.buf].items[k + 1]
      BY <2>1 DEF HeldAt
    <3>4. QED BY <2>1, <3>2, <3>3
  <2>2. CASE kind # "dvec"
    <3>1. k < Count(heap, cc)
      BY <1>2, <1>6, <1>9, <2>2
    <3>2. /\ Place(k) \in 1..Len(cc) /\ SlotOf(cc, k)[1] = cc[Place(k)] /\ cc[Place(k)] \in Addr
          /\ SlotOf(cc, k)[2] = (k - First(Place(k))) + 1 /\ (k - First(Place(k))) + 1 \in 1..N
          /\ ChunkOK(heap, cc[Place(k)])
      BY <1>2, <3>1, SlotFilled
    <3>3. PICK c, p : c = SlotOf(cc, k)[1] /\ p = SlotOf(cc, k)[2]
      BY <3>2
    <3>4. c \in Addr /\ p \in DOMAIN heap[c].items
      BY <3>2, <3>3 DEF ChunkOK
    <3>5. c \in Range(cc)
      <4>1. cc \in Seq(Addr)
        BY <1>2 DEF Linked
      <4>2. QED BY <3>2, <3>3, <4>1 DEF Range
    <3>6. \A hp : HeldAt(kind, hp, h, cc, k) = hp[c].items[p]
      BY <2>2, <3>3 DEF HeldAt
    <3>7. QED BY <2>2, <3>3, <3>4, <3>5, <3>6
  <2>3. QED BY <2>1, <2>2
<1>10. CASE lval.moved = TRUE
  <2>1. a \notin Range(cc) /\ a # h.buf
    BY <1>5, <1>6, <1>10
  <2>2. ASSUME NEW k \in Nat, k < h.len
        PROVE  HeldAt(kind, hp2, h, cc, k) = HeldAt(kind, heap, h, cc, k)
    <3>1. PICK c, p :
               /\ c \in Addr /\ p \in DOMAIN heap[c].items
               /\ \A hp : HeldAt(kind, hp, h, cc, k) = hp[c].items[p]
               /\ kind = "dvec" => c = h.buf /\ p = k + 1
               /\ kind # "dvec" => c \in Range(cc) /\ c = SlotOf(cc, k)[1] /\ p = SlotOf(cc, k)[2]
      BY <1>9, <2>2
    <3>2. c # a
      BY <2>1, <3>1
    <3>5. c \in Addr
      BY <3>1
    <3>3. hp2[c] = heap[c]
      BY <1>8, <3>2, <3>5
    <3>4. QED BY <3>1, <3>3
  <2>3. SameAt(kind, heap, hp2, h, h, cc, cc)
    BY <2>2 DEF SameAt
  <2>4. Held(kind, hp2, h, cc) = Held(kind, heap, h, cc)
    BY <1>2, <1>6, <2>3, HeldSame
  <2>5. QED BY <1>1, <1>6, <2>4 DEF Evolution, Evolves
<1>11. CASE lval.moved = FALSE
  <2>1. PICK m \in Nat : m = lval.i /\ m < h.len
    BY <1>5, <1>6, <1>11
  <2>2. /\ kind = "dvec" => a = h.buf /\ o = m + 1
        /\ kind # "dvec" => a = SlotOf(cc, m)[1] /\ o = SlotOf(cc, m)[2]
    <3>1. CASE kind = "dvec"
      <4>1. lval.slot = <<hdr.c.buf, lval.i + 1>>
        BY <1>5, <1>11, <3>1
      <4>2. QED BY <1>6, <2>1, <3>1, <4>1
    <3>2. CASE kind # "dvec"
      <4>1. lval.slot = SlotOf(cc, lval.i)
        BY <1>5, <1>11, <3>2
      <4>2. QED BY <1>6, <2>1, <3>2, <4>1
    <3>3. QED BY <3>1, <3>2
  <2>3. ASSUME NEW k \in Nat, k < h.len /\ k # m
        PROVE  HeldAt(kind, hp2, h, cc, k) = HeldAt(kind, heap, h, cc, k)
    <3>1. PICK c, p :
               /\ c \in Addr /\ p \in DOMAIN heap[c].items
               /\ \A hp : HeldAt(kind, hp, h, cc, k) = hp[c].items[p]
               /\ kind = "dvec" => c = h.buf /\ p = k + 1
               /\ kind # "dvec" => c \in Range(cc) /\ c = SlotOf(cc, k)[1] /\ p = SlotOf(cc, k)[2]
      BY <1>9, <2>3
    <3>2. c = a => p # o
      <4>1. CASE kind = "dvec"
        <5>1. o = m + 1 /\ p = k + 1 /\ k # m
          BY <2>2, <2>3, <3>1, <4>1
        <5>2. QED BY <5>1
      <4>2. CASE kind # "dvec"
        <5>1. k < Count(heap, cc) /\ m < Count(heap, cc) /\ k # m
          BY <1>2, <1>6, <2>1, <2>3, <4>2
        <5>2. SlotOf(cc, k)[1] = SlotOf(cc, m)[1] => SlotOf(cc, k)[2] # SlotOf(cc, m)[2]
          BY <1>2, <5>1, SlotDiffers
        <5>3. QED BY <2>2, <3>1, <4>2, <5>2
      <4>3. QED BY <4>1, <4>2
    <3>3. hp2[c].items[p] = heap[c].items[p]
      BY <1>8, <3>1, <3>2
    <3>4. QED BY <3>1, <3>3
  <2>4. Replaces(Held(kind, heap, h, cc), Held(kind, hp2, h, cc))
    BY <1>2, <1>6, <2>1, <2>3, HeldReplaced
  <2>5. QED BY <1>1, <1>6, <2>4 DEF Evolution, Evolves
<1>12. QED BY <1>3, <1>10, <1>11


\* Releasing the container empties it.
LEMMA ReleaseHeld ==
  ASSUME NEW cc, NEW cd, NEW vc, InvWith(cc, cd, vc), Release
  PROVE  Evolution(cc, << >>)
<1>1. hdr = [c |-> hdr.c, d |-> hdr.d]
  BY OwnIs
<1>2. hdr' = [hdr EXCEPT !.c = EmptyHeader]
  BY DEF Release
<1>3. hdr'.c = EmptyHeader
  BY <1>1, <1>2
<1>4. EmptyHeader.len = 0
  BY DEF EmptyHeader
<1>5. PICK g : g = hdr'.c
  OBVIOUS
<1>6. g.len = 0
  BY <1>3, <1>4, <1>5
<1>7. Held(kind', heap', g, << >>) = << >>
  BY <1>6 DEF Held
<1>8. QED BY <1>5, <1>7 DEF Evolution, Evolves

\* The steps that allocate a string change nothing the container holds.
LEMMA StringHeld ==
  ASSUME NEW cc, NEW cd, NEW vc, InvWith(cc, cd, vc), NEW t, CanAllocate,
         heap' = [Collected EXCEPT ![Fresh] = String(t)], kind' = kind, hdr' = hdr
  PROVE  Evolution(cc, cc)
<1>1. PICK b : b = String(t)
  OBVIOUS
<1>2. IsBlock(b)
  BY <1>1, StringIs
<1>3. heap' = [Collected EXCEPT ![Fresh] = b]
  BY <1>1
<1>4. QED BY <1>2, <1>3, AllocatedHeld

\* Where a step leads: chains that fit again, and a container that has at most
\* grown by an element, had one replaced, or been emptied.
Leading(cc) == \E cc2, cd2, vc2 : InvNext(cc2, cd2, vc2) /\ Evolution(cc, cc2)

\* A step that leaves heap and header of the container alone leads there.
LEMMA QuietLeads ==
  ASSUME NEW cc, NEW cd2, NEW vc2, InvNext(cc, cd2, vc2),
         kind' = kind, heap' = heap, hdr'.c = hdr.c
  PROVE  Leading(cc)
BY QuietHeld DEF Leading

\* So does every other step.
LEMMA NextLeads ==
  ASSUME NEW cc, NEW cd, NEW vc, InvWith(cc, cd, vc), [Next]_vars
  PROVE  Leading(cc)
<1>1. hdr = [c |-> hdr.c, d |-> hdr.d]
  BY OwnIs
<1>2. CASE Grow
  <2>1. InvNext(cc, cd, vc) /\ Evolution(cc, cc)
    BY <1>2, GrowStep, GrowHeld
  <2>2. QED BY <2>1 DEF Leading
<1>3. CASE InsertChunked
  <2>1. InvNext(cc, cd, vc) /\ Evolution(cc, cc)
    BY <1>3, InsertChunkedStep, InsertChunkedHeld
  <2>2. QED BY <2>1 DEF Leading
<1>4. CASE InsertInline
  <2>1. InvNext(cc, cd, vc) /\ Evolution(cc, cc)
    BY <1>4, InsertInlineStep, InsertInlineHeld
  <2>2. QED BY <2>1 DEF Leading
<1>5. CASE Store
  <2>1. InvNext(cc, cd, vc) /\ Evolution(cc, cc)
    BY <1>5, StoreStep, StoreHeld
  <2>2. QED BY <2>1 DEF Leading
<1>6. CASE NewChunk
  <2>1. PICK cc2, cd2, vc2 \in Seq(Addr) :
          InvNext(cc2, cd2, vc2) /\ Continues(cc, cc2) /\ Continues(cd, cd2)
    BY <1>6, NewChunkStep
  <2>2. Evolution(cc, cc2)
    BY <1>6, <2>1, NewChunkHeld
  <2>3. QED BY <2>1, <2>2 DEF Leading
<1>7. CASE Release
  <2>1. InvNext(<< >>, cd, IF view.gone = TRUE \/ view.h.len > 0 THEN vc ELSE << >>)
    BY <1>7, ReleaseStep
  <2>2. Evolution(cc, << >>)
    BY <1>7, ReleaseHeld
  <2>3. QED BY <2>1, <2>2 DEF Leading
<1>8. CASE NewString
  <2>1. InvNext(cc, cd, vc)
    BY <1>8, NewStringStep
  <2>2. CanAllocate /\ heap' = [Collected EXCEPT ![Fresh] = String(Fresh)] /\ kind' = kind /\ hdr' = hdr
    BY <1>8 DEF NewString, Allocated
  <2>3. Evolution(cc, cc)
    BY <2>2, StringHeld
  <2>4. QED BY <2>1, <2>3 DEF Leading
<1>9. ASSUME NEW i \in CopyFrom, PushCopy(i) PROVE Leading(cc)
  <2>1. InvNext(cc, cd, vc)
    BY <1>9, PushCopyStep
  <2>2. PICK t : t = heap[ItemAt(SlotAt(hdr.c, i))].text
    OBVIOUS
  <2>3. CanAllocate /\ heap' = [Collected EXCEPT ![Fresh] = String(t)] /\ kind' = kind /\ hdr' = hdr
    BY <1>9, <2>2 DEF PushCopy, Allocated
  <2>4. Evolution(cc, cc)
    BY <2>3, StringHeld
  <2>5. QED BY <2>1, <2>4 DEF Leading
<1>10. CASE CloneElement
  <2>1. InvNext(cc, cd, vc)
    BY <1>10, CloneElementStep
  <2>2. PICK t : t = heap[heap[clone.cur].items[clone.i + 1]].text
    OBVIOUS
  <2>3. CanAllocate /\ heap' = [Collected EXCEPT ![Fresh] = String(t)] /\ kind' = kind /\ hdr' = hdr
    BY <1>10, <2>2 DEF CloneElement, Allocated
  <2>4. Evolution(cc, cc)
    BY <2>3, StringHeld
  <2>5. QED BY <2>1, <2>4 DEF Leading
<1>11. CASE PushMoved
  <2>1. InvNext(cc, cd, vc)
    BY <1>11, PushMovedStep
  <2>2. kind' = kind /\ heap' = heap /\ hdr' = hdr
    BY <1>11 DEF PushMoved, Call
  <2>3. QED BY <2>1, <2>2, QuietLeads
<1>12. CASE ForBegin
  <2>1. InvNext(cc, cd, cc)
    BY <1>12, ForBeginStep
  <2>2. kind' = kind /\ heap' = heap /\ hdr' = hdr
    BY <1>12 DEF ForBegin, Call
  <2>3. QED BY <2>1, <2>2, QuietLeads
<1>13. CASE ForNext
  <2>1. InvNext(cc, cd, vc)
    BY <1>13, ForNextStep
  <2>2. kind' = kind /\ heap' = heap /\ hdr' = hdr
    BY <1>13 DEF ForNext, Call
  <2>3. QED BY <2>1, <2>2, QuietLeads
<1>14. CASE ForEnd
  <2>1. InvNext(cc, cd, cc)
    BY <1>14, ForEndStep
  <2>2. kind' = kind /\ heap' = heap /\ hdr' = hdr
    BY <1>14 DEF ForEnd, Call
  <2>3. QED BY <2>1, <2>2, QuietLeads
<1>15. CASE Forget
  <2>1. InvNext(cc, cd, vc)
    BY <1>15, ForgetStep
  <2>2. kind' = kind /\ heap' = heap /\ hdr' = hdr
    BY <1>15 DEF Forget, Call
  <2>3. QED BY <2>1, <2>2, QuietLeads
<1>16. CASE CloneReturn
  <2>1. InvNext(cc, cd, vc)
    BY <1>16, CloneReturnStep
  <2>2. kind' = kind /\ heap' = heap /\ hdr' = hdr
    BY <1>16 DEF CloneReturn, Call
  <2>3. QED BY <2>1, <2>2, QuietLeads
<1>17. CASE CloneAdvance
  <2>1. InvNext(cc, cd, vc)
    BY <1>17, CloneAdvanceStep
  <2>2. kind' = kind /\ heap' = heap /\ hdr' = hdr
    BY <1>17 DEF CloneAdvance, Call
  <2>3. QED BY <2>1, <2>2, QuietLeads
<1>18. CASE CloneEnd
  <2>1. InvNext(cc, cd, vc)
    BY <1>18, CloneEndStep
  <2>2. kind' = kind /\ heap' = heap /\ hdr' = hdr
    BY <1>18 DEF CloneEnd, Call
  <2>3. QED BY <2>1, <2>2, QuietLeads
<1>19. ASSUME NEW i \in Indexed, Resolve(i) PROVE Leading(cc)
  <2>1. InvNext(cc, cd, vc)
    BY <1>19, ResolveStep
  <2>2. kind' = kind /\ heap' = heap /\ hdr' = hdr
    BY <1>19 DEF Resolve
  <2>3. QED BY <2>1, <2>2, QuietLeads
<1>20. ASSUME NEW keep \in BOOLEAN, Return(keep) PROVE Leading(cc)
  <2>1. InvNext(cc, cd, vc)
    BY <1>20, ReturnStep
  <2>2. kind' = kind /\ heap' = heap /\ hdr' = hdr
    BY <1>20 DEF Return
  <2>3. QED BY <2>1, <2>2, QuietLeads
<1>21. CASE CloneBegin
  <2>1. InvNext(cc, << >>, vc)
    BY <1>21, CloneBeginStep
  <2>2. kind' = kind /\ heap' = heap /\ hdr' = [hdr EXCEPT !.d = EmptyHeader]
    BY <1>21 DEF CloneBegin
  <2>3. hdr'.c = hdr.c
    BY <1>1, <2>2
  <2>4. QED BY <2>1, <2>2, <2>3, QuietLeads
<1>22. CASE CloneDrop
  <2>1. InvNext(cc, << >>, vc)
    BY <1>22, CloneDropStep
  <2>2. kind' = kind /\ heap' = heap /\ hdr' = [hdr EXCEPT !.d = EmptyHeader]
    BY <1>22 DEF CloneDrop
  <2>3. hdr'.c = hdr.c
    BY <1>1, <2>2
  <2>4. QED BY <2>1, <2>2, <2>3, QuietLeads
<1>23. CASE UNCHANGED vars
  <2>1. /\ kind' = kind /\ heap' = heap /\ hdr' = hdr /\ x' = x /\ spill' = spill /\ wedge' = wedge
        /\ view' = view /\ lval' = lval /\ push' = push /\ clone' = clone
    BY <1>23 DEF vars
  <2>2. InvNext(cc, cd, vc)
    BY <2>1 DEF InvWith, InvNext
  <2>3. QED BY <2>1, <2>2, QuietLeads
<1>24. QED BY <1>2, <1>3, <1>4, <1>5, <1>6, <1>7, <1>8, <1>9, <1>10, <1>11, <1>12, <1>13, <1>14, <1>15, <1>16, <1>17, <1>18, <1>19, <1>20, <1>21, <1>22, <1>23 DEF Next

\* The abstract sequence takes such a step, or none.
LEMMA SequenceSteps ==
  ASSUME Evolves(Elements(hdr.c), Elements(hdr.c)')
  PROVE  [Sequence!Next]_(Elements(hdr.c))
BY DEF Evolves, Grows, Replaces, Sequence!Next, Sequence!Push, Sequence!Replace, Sequence!Clear

\* Growth, chunks and collections do not show: what a program reads at the
\* indices of a tablets, ivec or dvec is a sequence that grows at its end, whose
\* elements are replaced in place, and that is emptied as a whole.
THEOREM ContainerRefines == Spec => ImplementsSequence
<1>1. Init => Sequence!Init
  <2>1. SUFFICES ASSUME Init PROVE Sequence!Init
    OBVIOUS
  <2>2. PICK h : h = hdr.c
    OBVIOUS
  <2>3. h = EmptyHeader
    BY <2>1, <2>2 DEF Init
  <2>4. h.len = 0
    BY <2>3 DEF EmptyHeader
  <2>5. Elements(h) = << >>
    BY <2>4 DEF Elements
  <2>6. QED BY <2>2, <2>5 DEF Sequence!Init
<1>2. ContentsKnown
  BY ContentsAre
<1>3. IInv /\ ContentsKnown /\ ContentsKnown' /\ [Next]_vars => [Sequence!Next]_(Elements(hdr.c))
  <2>1. SUFFICES ASSUME IInv, ContentsKnown, ContentsKnown', [Next]_vars
                 PROVE  [Sequence!Next]_(Elements(hdr.c))
    OBVIOUS
  <2>2. PICK cc, cd, vc \in Seq(Addr) : InvWith(cc, cd, vc)
    BY <2>1 DEF IInv
  <2>3. Leading(cc)
    BY <2>1, <2>2, NextLeads
  <2>4. PICK cc2, cd2, vc2 : InvNext(cc2, cd2, vc2) /\ Evolution(cc, cc2)
    BY <2>3 DEF Leading
  <2>5. InvWith(cc2, cd2, vc2)'
    BY <2>4 DEF InvNext, InvWith
  <2>6. Elements(hdr.c) = Held(kind, heap, hdr.c, cc)
    BY <2>1, <2>2 DEF ContentsKnown
  <2>7. Elements(hdr.c)' = Held(kind', heap', hdr'.c, cc2)
    <3>1. ASSUME NEW c3, NEW d3, NEW v3, InvWith(c3, d3, v3)'
          PROVE  Elements(hdr.c)' = Held(kind, heap, hdr.c, c3)'
      BY <2>1, <3>1 DEF ContentsKnown
    <3>2. Elements(hdr.c)' = Held(kind, heap, hdr.c, cc2)'
      BY <2>5, <3>1
    <3>3. QED BY <3>2 DEF Held, HeldAt, SlotOf, Place, First
  <2>8. Evolves(Elements(hdr.c), Elements(hdr.c)')
    BY <2>4, <2>6, <2>7 DEF Evolution
  <2>9. QED BY <2>8, SequenceSteps
<1>4. QED
  BY <1>1, <1>2, <1>3, InvariantHolds, PTL DEF Spec, ImplementsSequence, Sequence!Spec

-----------------------------------------------------------------------------
(* The clone of a tablets.  m and n are the lengths of the original and of   *)
(* the clone.                                                               *)

At(hp, ch, k) == hp[SlotOf(ch, k)[1]].items[SlotOf(ch, k)[2]]

\* No element of the clone is one of the original's, or the variable's.
Apart(hp, m, n, s, cc, cd) ==
  \A k \in Nat : k < n => /\ At(hp, cd, k) # s
                          /\ \A l \in Nat : l < m => At(hp, cd, k) # At(hp, cc, l)
Avoids(hp, n, ch, v) == \A k \in Nat : k < n => At(hp, ch, k) # v

\* The elements cloned so far have their originals' texts, and so has the next.
Agrees(hp, m, n, cc, cd) ==
  \A k \in Nat : k < n => k < m /\ hp[At(hp, cd, k)].text = hp[At(hp, cc, k)].text
Follows(hp, m, n, v, cc) == n < m /\ hp[v].text = hp[At(hp, cc, n)].text

Storing(p) == p.pc \in {"chunk", "insert"}

Distinct(hp, m, n, s, p, q, cc, cd) ==
  /\ Apart(hp, m, n, s, cc, cd)
  /\ Storing(p) /\ p.to = "c" => Avoids(hp, n, cd, p.val)
  /\ Storing(p) /\ p.to = "d" => p.val # s /\ Avoids(hp, m, cc, p.val)
  /\ q.pc = "element" => Agrees(hp, m, n, cc, cd)
  /\ q.pc = "element" /\ Storing(p) => Follows(hp, m, n, p.val, cc)

CopyWith(cc, cd) ==
  kind = "tablets" => Distinct(heap, hdr.c.len, hdr.d.len, x, push, clone, cc, cd)
CopyNext(cc2, cd2) ==
  kind' = "tablets" => Distinct(heap', hdr'.c.len, hdr'.d.len, x', push', clone', cc2, cd2)

\* A heap in which the first n elements of a chain are what and as they were.
Carries(hp, hp2, ch, ch2, n) ==
  \A k \in Nat : k < n => /\ At(hp2, ch2, k) = At(hp, ch, k)
                          /\ hp2[At(hp, ch, k)].text = hp[At(hp, ch, k)].text

\* There, all of the above is as before.
LEMMA Carried ==
  ASSUME NEW hp, NEW hp2, NEW m, NEW n, NEW cc, NEW cc2, NEW cd, NEW cd2,
         Carries(hp, hp2, cc, cc2, m), Carries(hp, hp2, cd, cd2, n)
  PROVE  /\ \A s : Apart(hp, m, n, s, cc, cd) => Apart(hp2, m, n, s, cc2, cd2)
         /\ \A v : Avoids(hp, n, cd, v) => Avoids(hp2, n, cd2, v)
         /\ \A v : Avoids(hp, m, cc, v) => Avoids(hp2, m, cc2, v)
         /\ Agrees(hp, m, n, cc, cd) => Agrees(hp2, m, n, cc2, cd2)
<1>1. \A k \in Nat : k < n => /\ At(hp2, cd2, k) = At(hp, cd, k)
                              /\ hp2[At(hp, cd, k)].text = hp[At(hp, cd, k)].text
  BY DEF Carries
<1>2. \A k \in Nat : k < m => /\ At(hp2, cc2, k) = At(hp, cc, k)
                              /\ hp2[At(hp, cc, k)].text = hp[At(hp, cc, k)].text
  BY DEF Carries
<1>3. ASSUME NEW s, Apart(hp, m, n, s, cc, cd) PROVE Apart(hp2, m, n, s, cc2, cd2)
  BY <1>1, <1>2, <1>3 DEF Apart
<1>4. ASSUME NEW v, Avoids(hp, n, cd, v) PROVE Avoids(hp2, n, cd2, v)
  BY <1>1, <1>4 DEF Avoids
<1>5. ASSUME NEW v, Avoids(hp, m, cc, v) PROVE Avoids(hp2, m, cc2, v)
  BY <1>2, <1>5 DEF Avoids
<1>6. ASSUME Agrees(hp, m, n, cc, cd) PROVE Agrees(hp2, m, n, cc2, cd2)
  BY <1>1, <1>2, <1>6 DEF Agrees
<1>7. QED BY <1>3, <1>4, <1>5, <1>6

\* The step of a statement or helper that stores nothing into the containers.
LEMMA DistinctCarried ==
  ASSUME NEW hp, NEW hp2, NEW m, NEW n, NEW s, NEW s2, NEW p, NEW p2, NEW q, NEW q2,
         NEW cc, NEW cc2, NEW cd, NEW cd2,
         Distinct(hp, m, n, s, p, q, cc, cd), n \in Nat,
         Carries(hp, hp2, cc, cc2, m), Carries(hp, hp2, cd, cd2, n),
         s2 = s \/ Avoids(hp, n, cd, s2),
         Storing(p2) => /\ Storing(p) /\ s2 = s /\ p2.to = p.to /\ p2.val = p.val
                        /\ hp2[p.val].text = hp[p.val].text,
         q2.pc = "element" => q.pc = "element"
  PROVE  Distinct(hp2, m, n, s2, p2, q2, cc2, cd2)
<1>1. /\ \A w : Apart(hp, m, n, w, cc, cd) => Apart(hp2, m, n, w, cc2, cd2)
      /\ \A v : Avoids(hp, n, cd, v) => Avoids(hp2, n, cd2, v)
      /\ \A v : Avoids(hp, m, cc, v) => Avoids(hp2, m, cc2, v)
      /\ Agrees(hp, m, n, cc, cd) => Agrees(hp2, m, n, cc2, cd2)
  BY Carried
<1>2. Apart(hp, m, n, s2, cc, cd)
  <2>1. Apart(hp, m, n, s, cc, cd)
    BY DEF Distinct
  <2>2. QED BY <2>1 DEF Apart, Avoids
<1>3. Apart(hp2, m, n, s2, cc2, cd2)
  BY <1>1, <1>2
<1>4. Storing(p2) /\ p2.to = "c" => Avoids(hp2, n, cd2, p2.val)
  BY <1>1 DEF Distinct
<1>5. Storing(p2) /\ p2.to = "d" => p2.val # s2 /\ Avoids(hp2, m, cc2, p2.val)
  BY <1>1 DEF Distinct
<1>6. q2.pc = "element" => Agrees(hp2, m, n, cc2, cd2)
  BY <1>1 DEF Distinct
<1>7. ASSUME q2.pc = "element", Storing(p2) PROVE Follows(hp2, m, n, p2.val, cc2)
  <2>1. Follows(hp, m, n, p.val, cc) /\ p2.val = p.val /\ hp2[p.val].text = hp[p.val].text
    BY <1>7 DEF Distinct
  <2>2. n < m /\ hp[p.val].text = hp[At(hp, cc, n)].text
    BY <2>1 DEF Follows
  <2>3. At(hp2, cc2, n) = At(hp, cc, n) /\ hp2[At(hp, cc, n)].text = hp[At(hp, cc, n)].text
    BY <2>2 DEF Carries
  <2>4. hp2[p2.val].text = hp2[At(hp2, cc2, n)].text
    BY <2>1, <2>2, <2>3
  <2>5. QED BY <2>2, <2>4 DEF Follows
<1>8. QED BY <1>3, <1>4, <1>5, <1>6, <1>7 DEF Distinct

\* The two containers, in the parts that reading them needs.
LEMMA ItemsAre ==
  ASSUME NEW cc, NEW cd, NEW vc, InvWith(cc, cd, vc), kind = "tablets"
  PROVE  /\ hdr.c.len \in Nat /\ hdr.c.len = Count(heap, cc) /\ Linked(kind, heap, cc)
         /\ hdr.d.len \in Nat /\ hdr.d.len = Count(heap, cd) /\ Linked(kind, heap, cd)
         /\ \A k \in Nat : k < hdr.c.len => IsString(heap, At(heap, cc, k))
         /\ \A k \in Nat : k < hdr.d.len => IsString(heap, At(heap, cd, k))
<1>1. /\ Owns(kind, heap, hdr.c, cc) /\ Owns(kind, heap, hdr.d, cd)
  BY DEF InvWith, Inv
<1>2. /\ hdr.c.len = Count(heap, cc) /\ Linked(kind, heap, cc)
      /\ hdr.d.len = Count(heap, cd) /\ Linked(kind, heap, cd)
  BY <1>1 DEF Owns
<1>3. Count(heap, cc) \in Nat /\ Count(heap, cd) \in Nat
  BY <1>2, CountIs
<1>4. ASSUME NEW ch, Linked(kind, heap, ch), NEW k \in Nat, k < Count(heap, ch)
      PROVE  IsString(heap, At(heap, ch, k))
  <2>1. IsString(heap, heap[SlotOf(ch, k)[1]].items[SlotOf(ch, k)[2]])
    BY <1>4, SlotFilled
  <2>2. QED BY <2>1 DEF At
<1>5. QED BY <1>2, <1>3, <1>4

\* An allocation, and the collection in it, carry what is reached.
LEMMA AllocationCarries ==
  ASSUME NEW ch, Linked(kind, heap, ch), Spans(heap, Reached, ch),
         NEW hp, NEW n, NEW b, AllocatedAt(hp, n, b), NEW m, m = Count(heap, ch)
  PROVE  Carries(heap, hp, ch, ch, m)
<1>1. Kept(heap, hp, Reached)
  BY DEF AllocatedAt
<1>2. \A i \in 1..Len(ch) : hp[ch[i]] = heap[ch[i]]
  <2>1. /\ Linked(kind, hp, ch) /\ Count(hp, ch) = Count(heap, ch)
        /\ \A i \in 1..Len(ch) : hp[ch[i]] = heap[ch[i]]
    BY <1>1, KeptChain
  <2>2. QED BY <2>1
<1>3. ASSUME NEW k \in Nat, k < m
      PROVE  At(hp, ch, k) = At(heap, ch, k) /\ hp[At(heap, ch, k)].text = heap[At(heap, ch, k)].text
  <2>1. k < Count(heap, ch)
    BY <1>3
  <2>2. /\ Place(k) \in 1..Len(ch) /\ (k - First(Place(k))) + 1 \in 1..N
        /\ SlotOf(ch, k)[1] = ch[Place(k)] /\ SlotOf(ch, k)[2] = (k - First(Place(k))) + 1
        /\ IsString(heap, heap[SlotOf(ch, k)[1]].items[SlotOf(ch, k)[2]])
    BY <2>1, SlotFilled
  <2>3. PICK e : e = At(heap, ch, k)
    OBVIOUS
  <2>4. IsString(heap, e)
    BY <2>2, <2>3 DEF At
  <2>5. e \in Reached \cup {NULL}
    BY <2>2, <2>3 DEF Spans, At
  <2>6. e \in Reached
    BY <2>4, <2>5, Numbers DEF IsString
  <2>7. hp[e] = heap[e]
    BY <1>1, <2>4, <2>6, KeptBlocks
  <2>8. At(hp, ch, k) = e
    BY <1>2, <2>2, <2>3 DEF At
  <2>9. QED BY <2>3, <2>7, <2>8
<1>4. QED BY <1>3 DEF Carries

\* A heap carries what it is.
LEMMA HeapCarries ==
  ASSUME NEW hp, NEW ch, NEW n
  PROVE  Carries(hp, hp, ch, ch, n)
BY DEF Carries

\* Steps that leave heap and headers alone, and start no push.
LEMMA QuietCopy ==
  ASSUME NEW cc, NEW cd, NEW vc, InvWith(cc, cd, vc), CopyWith(cc, cd),
         kind' = kind, heap' = heap, hdr' = hdr, x' = x \/ x' = NULL,
         Storing(push') => push' = push /\ x' = x,
         clone'.pc = "element" => clone.pc = "element"
  PROVE  CopyNext(cc, cd)
<1>1. SUFFICES ASSUME kind = "tablets"
               PROVE  Distinct(heap, hdr.c.len, hdr.d.len, x', push', clone', cc, cd)
  BY DEF CopyNext
<1>2. PICK m, n, s2, p2, q2 :
        m = hdr.c.len /\ n = hdr.d.len /\ s2 = x' /\ p2 = push' /\ q2 = clone'
  OBVIOUS
<1>3. Distinct(heap, m, n, x, push, clone, cc, cd)
  BY <1>1, <1>2 DEF CopyWith
<1>4. n \in Nat /\ \A k \in Nat : k < n => IsString(heap, At(heap, cd, k))
  BY <1>1, <1>2, ItemsAre
<1>5. Carries(heap, heap, cc, cc, m) /\ Carries(heap, heap, cd, cd, n)
  BY HeapCarries
<1>6. s2 = x \/ Avoids(heap, n, cd, s2)
  BY <1>2, <1>4, Numbers DEF Avoids, IsString
<1>7. Storing(p2) => /\ Storing(push) /\ s2 = x /\ p2.to = push.to /\ p2.val = push.val
                     /\ heap[push.val].text = heap[push.val].text
  BY <1>2
<1>8. q2.pc = "element" => clone.pc = "element"
  BY <1>2
<1>9. Distinct(heap, m, n, s2, p2, q2, cc, cd)
  BY <1>3, <1>4, <1>5, <1>6, <1>7, <1>8, DistinctCarried
<1>10. QED BY <1>2, <1>9

\* An allocation that starts no push; what it returns may become the variable's.
LEMMA AllocationCopy ==
  ASSUME NEW cc, NEW cd, NEW vc, InvWith(cc, cd, vc), CopyWith(cc, cd), kind = "tablets",
         NEW hp, NEW n, NEW b, AllocatedAt(hp, n, b), NEW s2, s2 = x \/ s2 = n,
         NEW p2, ~Storing(p2)
  PROVE  /\ Distinct(hp, hdr.c.len, hdr.d.len, s2, p2, clone, cc, cd)
         /\ Carries(heap, hp, cc, cc, hdr.c.len) /\ Carries(heap, hp, cd, cd, hdr.d.len)
<1>1. PICK m, l : m = hdr.c.len /\ l = hdr.d.len
  OBVIOUS
<1>2. Distinct(heap, m, l, x, push, clone, cc, cd)
  BY <1>1 DEF CopyWith
<1>3. /\ m = Count(heap, cc) /\ Linked(kind, heap, cc)
      /\ l \in Nat /\ l = Count(heap, cd) /\ Linked(kind, heap, cd)
      /\ \A k \in Nat : k < l => IsString(heap, At(heap, cd, k))
  BY <1>1, ItemsAre
<1>4. Spans(heap, Reached, cc) /\ Spans(heap, Reached, cd)
  BY HeldReached
<1>5. Carries(heap, hp, cc, cc, m) /\ Carries(heap, hp, cd, cd, l)
  BY <1>3, <1>4, AllocationCarries
<1>6. heap[n].is = "free"
  BY DEF AllocatedAt
<1>7. s2 = x \/ Avoids(heap, l, cd, s2)
  BY <1>3, <1>6 DEF Avoids, IsString
<1>8. Storing(p2) => /\ Storing(push) /\ s2 = x /\ p2.to = push.to /\ p2.val = push.val
                     /\ hp[push.val].text = heap[push.val].text
  OBVIOUS
<1>9. Distinct(hp, m, l, s2, p2, clone, cc, cd)
  BY <1>2, <1>3, <1>5, <1>7, <1>8, DistinctCarried
<1>10. QED BY <1>1, <1>5, <1>9

\* A new string becomes the variable's.
LEMMA NewStringCopy ==
  ASSUME NEW cc, NEW cd, NEW vc, InvWith(cc, cd, vc), CopyWith(cc, cd), NewString
  PROVE  CopyNext(cc, cd)
<1>1. /\ push.pc = "idle" /\ CanAllocate /\ heap' = [Collected EXCEPT ![Fresh] = String(Fresh)]
      /\ x' = Fresh /\ kind' = kind /\ hdr' = hdr /\ push' = push /\ clone' = clone
  BY DEF NewString, Running, Allocated
<1>2. SUFFICES ASSUME kind = "tablets"
               PROVE  Distinct(heap', hdr.c.len, hdr.d.len, x', push', clone', cc, cd)
  BY <1>1 DEF CopyNext
<1>3. PICK b, hp : b = String(Fresh) /\ hp = heap'
  OBVIOUS
<1>4. IsBlock(b) /\ hp = [Collected EXCEPT ![Fresh] = b]
  BY <1>1, <1>3, StringIs
<1>5. AllocatedAt(hp, Fresh, b)
  BY <1>1, <1>4, AllocatedIs
<1>6. PICK n : n = Fresh
  OBVIOUS
<1>7. AllocatedAt(hp, n, b) /\ ~Storing(push)
  BY <1>1, <1>5, <1>6 DEF Storing
<1>8. Distinct(hp, hdr.c.len, hdr.d.len, n, push, clone, cc, cd)
  BY <1>2, <1>7, AllocationCopy
<1>9. QED BY <1>1, <1>3, <1>6, <1>8

\* A push of the variable: its value is none of the clone's.
LEMMA PushMovedCopy ==
  ASSUME NEW cc, NEW cd, NEW vc, InvWith(cc, cd, vc), CopyWith(cc, cd), PushMoved
  PROVE  CopyNext(cc, cd)
<1>1. /\ clone.pc = "idle" /\ Call("c", x, TRUE) /\ kind' = kind /\ heap' = heap /\ hdr' = hdr
      /\ clone' = clone /\ x' = IF kind = "tablets" THEN x ELSE NULL
  BY DEF PushMoved, MayPush, Running
<1>2. SUFFICES ASSUME kind = "tablets"
               PROVE  Distinct(heap, hdr.c.len, hdr.d.len, x, push', clone, cc, cd)
  BY <1>1 DEF CopyNext
<1>3. push'.to = "c" /\ push'.val = x
  BY <1>1 DEF Call
<1>4. PICK m, n, p2 : m = hdr.c.len /\ n = hdr.d.len /\ p2 = push'
  OBVIOUS
<1>5. Distinct(heap, m, n, x, push, clone, cc, cd)
  BY <1>2, <1>4 DEF CopyWith
<1>6. Apart(heap, m, n, x, cc, cd) /\ Avoids(heap, n, cd, x)
  BY <1>5 DEF Distinct, Apart, Avoids
<1>7. Distinct(heap, m, n, x, p2, clone, cc, cd)
  BY <1>1, <1>3, <1>4, <1>6 DEF Distinct
<1>8. QED BY <1>4, <1>7

\* A push of a copy: it is new.
LEMMA PushCopyCopy ==
  ASSUME NEW cc, NEW cd, NEW vc, InvWith(cc, cd, vc), CopyWith(cc, cd), NEW i, PushCopy(i)
  PROVE  CopyNext(cc, cd)
<1>1. PICK t : t = heap[ItemAt(SlotAt(hdr.c, i))].text
  OBVIOUS
<1>2. /\ push.pc = "idle" /\ clone.pc = "idle" /\ CanAllocate
      /\ heap' = [Collected EXCEPT ![Fresh] = String(t)] /\ Call("c", Fresh, FALSE)
      /\ kind' = kind /\ hdr' = hdr /\ x' = x /\ clone' = clone
  BY <1>1 DEF PushCopy, MayPush, Running, Allocated
<1>3. SUFFICES ASSUME kind = "tablets"
               PROVE  Distinct(heap', hdr.c.len, hdr.d.len, x, push', clone, cc, cd)
  BY <1>2 DEF CopyNext
<1>4. PICK b, hp : b = String(t) /\ hp = heap'
  OBVIOUS
<1>5. IsBlock(b) /\ hp = [Collected EXCEPT ![Fresh] = b]
  BY <1>2, <1>4, StringIs
<1>6. AllocatedAt(hp, Fresh, b)
  BY <1>2, <1>5, AllocatedIs
<1>7. PICK f, m, n, p2 : f = Fresh /\ m = hdr.c.len /\ n = hdr.d.len /\ p2 = push'
  OBVIOUS
<1>8. AllocatedAt(hp, f, b) /\ ~Storing(push) /\ p2.to = "c" /\ p2.val = f
  BY <1>2, <1>6, <1>7 DEF Storing, Call
<1>9. Distinct(hp, hdr.c.len, hdr.d.len, x, push, clone, cc, cd) /\ Carries(heap, hp, cd, cd, hdr.d.len)
  BY <1>3, <1>8, AllocationCopy
<1>10. Apart(hp, m, n, x, cc, cd) /\ Carries(heap, hp, cd, cd, n)
  BY <1>7, <1>9 DEF Distinct
<1>11. \A k \in Nat : k < n => IsString(heap, At(heap, cd, k))
  BY <1>3, <1>7, ItemsAre
<1>12. heap[f].is = "free"
  BY <1>8 DEF AllocatedAt
<1>13. Avoids(hp, n, cd, f)
  BY <1>10, <1>11, <1>12 DEF Carries, Avoids, IsString
<1>14. Distinct(hp, m, n, x, p2, clone, cc, cd)
  BY <1>2, <1>8, <1>10, <1>13 DEF Distinct
<1>15. QED BY <1>4, <1>7, <1>14

\* What the clone's cursor is at is the original's first element not cloned yet.
LEMMA CursorAt ==
  ASSUME NEW cc, NEW cd, NEW vc, InvWith(cc, cd, vc), clone.pc = "element", push.pc = "idle",
         clone.cur # NULL, clone.i < heap[clone.cur].used
  PROVE  /\ hdr.d.len < hdr.c.len /\ kind = "tablets" /\ hdr["d"].len < MaxLen
         /\ heap[clone.cur].items[clone.i + 1] = At(heap, cc, hdr.d.len)
<1>1. /\ Owns(kind, heap, hdr.c, cc) /\ Linked(kind, heap, cc)
      /\ CloneOK(kind, heap, clone, push, hdr.d, cc)
  BY DEF InvWith, Inv, Owns
<1>2. PICK j \in 1..(Len(cc) + 1) : Cursor(heap, clone, push, hdr.d, cc, j)
  BY <1>1 DEF CloneOK
<1>3. j # Len(cc) + 1 /\ clone.cur = cc[j] /\ clone.i \in Nat /\ kind = "tablets"
  BY <1>1, <1>2 DEF Cursor, CloneOK
<1>4. j \in 1..Len(cc)
  BY <1>1, <1>3, CountIs
<1>5. j \in Nat \ {0} /\ First(j) \in Nat /\ heap[cc[j]].used \in 0..N
      /\ First(j) + heap[cc[j]].used <= Count(heap, cc) /\ Count(heap, cc) \in Nat
  BY <1>1, <1>4, BeforeEnd, CountIs
<1>6. hdr.d.len = First(j) + clone.i
  BY <1>2, <1>3 DEF Cursor, Before
<1>7. hdr.c.len = Count(heap, cc) /\ hdr.c.len \in 0..MaxLen /\ MaxLen \in Nat /\ N \in Nat
  BY <1>1, <1>3, Numbers DEF Owns, Leads, IsHeader
<1>8. PICK u, f, w, c :
        u = clone.i /\ f = First(j) /\ w = heap[cc[j]].used /\ c = Count(heap, cc)
  OBVIOUS
<1>9. /\ u \in Nat /\ f \in Nat /\ w \in 0..N /\ f + w <= c /\ c \in Nat /\ N \in Nat /\ u < w
      /\ c \in 0..MaxLen /\ MaxLen \in Nat
  BY <1>3, <1>5, <1>7, <1>8
<1>10. f + u < c /\ f + u < MaxLen
  BY <1>9
<1>11. hdr.d.len < hdr.c.len /\ hdr["d"].len < MaxLen
  BY <1>6, <1>7, <1>8, <1>10
<1>12. SlotOf(cc, f + u) = <<cc[j], u + 1>>
  <2>1. u + 1 \in 1..N
    BY <1>9
  <2>2. SlotOf(cc, (First(j) + (u + 1)) - 1) = <<cc[j], u + 1>>
    BY <1>5, <2>1, SlotInChunk
  <2>3. (f + (u + 1)) - 1 = f + u
    BY <1>9
  <2>4. QED BY <1>8, <2>2, <2>3
<1>13. QED BY <1>3, <1>6, <1>8, <1>11, <1>12 DEF At

\* An element of the clone is made: a new string, of the next element's text.
LEMMA CloneElementCopy ==
  ASSUME NEW cc, NEW cd, NEW vc, InvWith(cc, cd, vc), CopyWith(cc, cd), CloneElement
  PROVE  CopyNext(cc, cd)
<1>1. PICK t : t = heap[heap[clone.cur].items[clone.i + 1]].text
  OBVIOUS
<1>2. /\ clone.pc = "element" /\ push.pc = "idle" /\ clone.cur # NULL
      /\ clone.i < heap[clone.cur].used /\ CanAllocate
      /\ heap' = [Collected EXCEPT ![Fresh] = String(t)] /\ Call("d", Fresh, FALSE)
      /\ kind' = kind /\ hdr' = hdr /\ x' = x /\ clone' = clone
  BY <1>1 DEF CloneElement, Allocated
<1>3. hdr.d.len < hdr.c.len /\ kind = "tablets" /\ heap[clone.cur].items[clone.i + 1] = At(heap, cc, hdr.d.len)
  <2>1. /\ hdr.d.len < hdr.c.len /\ kind = "tablets" /\ hdr["d"].len < MaxLen
        /\ heap[clone.cur].items[clone.i + 1] = At(heap, cc, hdr.d.len)
    BY <1>2, CursorAt
  <2>2. QED BY <2>1
<1>4. PICK b, hp : b = String(t) /\ hp = heap'
  OBVIOUS
<1>5. IsBlock(b) /\ hp = [Collected EXCEPT ![Fresh] = b]
  BY <1>2, <1>4, StringIs
<1>6. AllocatedAt(hp, Fresh, b)
  BY <1>2, <1>5, AllocatedIs
<1>7. PICK f, m, n, p2 : f = Fresh /\ m = hdr.c.len /\ n = hdr.d.len /\ p2 = push'
  OBVIOUS
<1>8. AllocatedAt(hp, f, b) /\ ~Storing(push) /\ p2.to = "d" /\ p2.val = f
  BY <1>2, <1>6, <1>7 DEF Storing, Call
<1>9. /\ Distinct(hp, hdr.c.len, hdr.d.len, x, push, clone, cc, cd)
      /\ Carries(heap, hp, cc, cc, hdr.c.len) /\ Carries(heap, hp, cd, cd, hdr.d.len)
  BY <1>3, <1>8, AllocationCopy
<1>10. Apart(hp, m, n, x, cc, cd) /\ Agrees(hp, m, n, cc, cd) /\ Carries(heap, hp, cc, cc, m)
  BY <1>2, <1>7, <1>9 DEF Distinct
<1>11. n \in Nat /\ n < m /\ \A k \in Nat : k < m => IsString(heap, At(heap, cc, k))
  BY <1>3, <1>7, ItemsAre
<1>12. heap[f].is = "free" /\ f \in Addr /\ hp[f] = b
  BY <1>8 DEF AllocatedAt
<1>13. Avoids(hp, m, cc, f)
  BY <1>10, <1>11, <1>12 DEF Carries, Avoids, IsString
<1>14. f # x
  <2>1. Rooted(heap, x, spill)
    BY DEF InvWith, Inv
  <2>2. QED BY <1>12, <2>1, Numbers DEF Rooted, Item, IsString
<1>15. Follows(hp, m, n, f, cc)
  <2>1. b.text = t
    BY <1>4 DEF String, FreeBlock
  <2>2. At(hp, cc, n) = At(heap, cc, n) /\ hp[At(heap, cc, n)].text = heap[At(heap, cc, n)].text
    BY <1>10, <1>11 DEF Carries
  <2>3. t = heap[At(heap, cc, n)].text
    BY <1>1, <1>3, <1>7
  <2>4. hp[f].text = hp[At(hp, cc, n)].text
    BY <1>12, <2>1, <2>2, <2>3
  <2>5. QED BY <1>11, <2>4 DEF Follows
<1>16. Distinct(hp, m, n, x, p2, clone, cc, cd)
  BY <1>8, <1>10, <1>13, <1>14, <1>15 DEF Distinct
<1>17. QED BY <1>2, <1>4, <1>7, <1>16 DEF CopyNext

\* A chunk linked behind a chain carries what the chain holds.
LEMMA LinkCarries ==
  ASSUME NEW hp, NEW hp2, NEW ch, NEW ch2, NEW m, Carries(heap, hp, ch, ch, m), Continues(ch, ch2),
         \A a \in Addr : hp2[a].items = hp[a].items /\ hp2[a].text = hp[a].text,
         Linked(kind, heap, ch), m = Count(heap, ch),
         \A k \in Nat : k < m => IsString(heap, At(heap, ch, k))
  PROVE  Carries(heap, hp2, ch, ch2, m)
<1>1. ASSUME NEW k \in Nat, k < m
      PROVE  At(hp2, ch2, k) = At(heap, ch, k) /\ hp2[At(heap, ch, k)].text = heap[At(heap, ch, k)].text
  <2>1. k < Count(heap, ch)
    BY <1>1
  <2>2. SlotOf(ch, k)[1] = ch[Place(k)] /\ ch[Place(k)] \in Addr
    BY <2>1, SlotFilled
  <2>3. SlotOf(ch2, k) = SlotOf(ch, k)
    <3>1. ASSUME NEW a \in Addr PROVE SlotOf(Append(ch, a), k) = SlotOf(ch, k)
      BY <2>1, SlotStays
    <3>2. ch2 = ch \/ \E a \in Addr : ch2 = Append(ch, a)
      BY DEF Continues
    <3>3. CASE ch2 = ch
      BY <3>3
    <3>4. CASE \E a \in Addr : ch2 = Append(ch, a)
      <4>1. PICK a \in Addr : ch2 = Append(ch, a)
        BY <3>4
      <4>2. SlotOf(Append(ch, a), k) = SlotOf(ch, k)
        BY <3>1
      <4>3. QED BY <4>1, <4>2
    <3>5. QED BY <3>2, <3>3, <3>4
  <2>4. At(hp, ch, k) = At(heap, ch, k) /\ hp[At(heap, ch, k)].text = heap[At(heap, ch, k)].text
    BY <1>1 DEF Carries
  <2>5. At(hp2, ch2, k) = At(hp, ch, k)
    BY <2>2, <2>3 DEF At
  <2>6. At(heap, ch, k) \in Addr
    BY <1>1 DEF IsString
  <2>7. QED BY <2>4, <2>5, <2>6
<1>2. QED BY <1>1 DEF Carries

\* So an allocated chunk changes nothing.
LEMMA NewChunkCopy ==
  ASSUME NEW cc, NEW cd, NEW vc, InvWith(cc, cd, vc), CopyWith(cc, cd), NewChunk,
         NEW cc2, NEW cd2, Continues(cc, cc2), Continues(cd, cd2)
  PROVE  CopyNext(cc2, cd2)
<1>1. PICK hp, n :
        /\ AllocatedAt(hp, n, Chunk) /\ n \in Addr /\ heap[n].is = "free"
        /\ Inv(kind, hp, hdr, x, spill, wedge, view, lval, push, clone, cc, cd, vc)
        /\ heap' = Linking(hp, Header, n) /\ Stored(Extended(Header, n)) /\ Goto("insert")
  BY NewChunkIs
<1>2. push.pc = "chunk" /\ kind' = kind /\ x' = x /\ clone' = clone
  BY DEF NewChunk
<1>3. /\ push = [pc |-> push.pc, to |-> push.to, val |-> push.val, moved |-> push.moved,
                 slot |-> push.slot]
      /\ push.moved \in BOOLEAN /\ push.val \in spill /\ IsString(heap, push.val)
      /\ hdr = [c |-> hdr.c, d |-> hdr.d]
      /\ \/ push.to = "c" /\ clone.pc = "idle" /\ Pushing(kind, heap, push, hdr.c, cc)
         \/ /\ push.to = "d" /\ clone.pc # "idle" /\ kind = "tablets"
            /\ Pushing(kind, heap, push, hdr.d, cd)
  BY <1>2, TargetIs
<1>4. push'.to = push.to /\ push'.val = push.val
  <2>1. /\ push' = [pc |-> push'.pc, to |-> push'.to, val |-> push'.val, moved |-> push'.moved,
                    slot |-> push'.slot]
        /\ push'.pc = "insert" /\ push'.to = push.to /\ push'.val = push.val
        /\ push'.moved = push.moved /\ push'.slot = push.slot
    BY <1>1, <1>3, GotoIs
  <2>2. QED BY <2>1
<1>5. SUFFICES ASSUME kind = "tablets"
               PROVE  Distinct(heap', hdr'.c.len, hdr'.d.len, x, push', clone, cc2, cd2)
  BY <1>2 DEF CopyNext
<1>6. PICK h, e, hp2 : h = Header /\ e = Extended(h, n) /\ hp2 = heap'
  OBVIOUS
<1>7. /\ push.to = "c" => h = hdr.c /\ hdr'.c = e /\ hdr'.d = hdr.d
      /\ push.to = "d" => h = hdr.d /\ hdr'.d = e /\ hdr'.c = hdr.c
  <2>1. Stored(e)
    BY <1>1, <1>6
  <2>2. /\ push.to = "c" => Header = hdr.c /\ hdr'.c = e /\ hdr'.d = hdr.d
        /\ push.to = "d" => Header = hdr.d /\ hdr'.d = e /\ hdr'.c = hdr.c
    BY <1>3, <2>1, StoredIs
  <2>3. QED BY <1>6, <2>2
<1>8. IsHeader(h)
  BY <1>3, <1>7, OwnIs
<1>9. e.len = h.len
  <2>1. n \in Addr /\ IsHeader(h) /\ e = Extended(h, n)
    BY <1>1, <1>6, <1>8
  <2>2. QED BY <2>1, ExtendedIs
<1>10. PICK m, l : m = hdr.c.len /\ l = hdr.d.len
  OBVIOUS
<1>11. hdr'.c.len = m /\ hdr'.d.len = l
  BY <1>3, <1>7, <1>9, <1>10
<1>12. Shape(hp) /\ Kept(heap, hp, Reached)
  BY <1>1 DEF AllocatedAt
<1>13. \A a \in Addr : hp2[a].items = hp[a].items /\ hp2[a].text = hp[a].text
  <2>1. CASE h.tail = NULL
    <3>1. hp2 = hp
      BY <1>1, <1>6, <2>1 DEF Linking
    <3>2. QED BY <3>1
  <2>2. CASE h.tail # NULL
    <3>1. PICK a \in Addr : a = h.tail
      BY <1>8, <2>2 DEF IsHeader
    <3>2. hp2 = WithNext(hp, a, n)
      BY <1>1, <1>6, <2>2, <3>1 DEF Linking
    <3>3. /\ Shape(hp2)
          /\ \A b \in Addr : /\ hp2[b].is = hp[b].is /\ hp2[b].used = hp[b].used
                             /\ hp2[b].items = hp[b].items /\ hp2[b].text = hp[b].text
          /\ \A b \in Addr : b # a => hp2[b] = hp[b]
          /\ hp2[a].next = n
      BY <1>12, <3>2, LinkStored
    <3>4. QED BY <3>3
  <2>3. QED BY <2>1, <2>2
<1>14. /\ m = Count(heap, cc) /\ Linked(kind, heap, cc)
       /\ l \in Nat /\ l = Count(heap, cd) /\ Linked(kind, heap, cd)
       /\ \A k \in Nat : k < m => IsString(heap, At(heap, cc, k))
       /\ \A k \in Nat : k < l => IsString(heap, At(heap, cd, k))
  BY <1>5, <1>10, ItemsAre
<1>15. Spans(heap, Reached, cc) /\ Spans(heap, Reached, cd) /\ spill \subseteq Reached
  BY HeldReached
<1>16. Carries(heap, hp, cc, cc, m) /\ Carries(heap, hp, cd, cd, l)
  BY <1>1, <1>14, <1>15, AllocationCarries
<1>17. Carries(heap, hp2, cc, cc2, m)
  BY <1>13, <1>14, <1>16, LinkCarries
<1>18. Carries(heap, hp2, cd, cd2, l)
  BY <1>13, <1>14, <1>16, LinkCarries
<1>19. hp2[push.val].text = heap[push.val].text
  <2>1. hp[push.val] = heap[push.val]
    BY <1>3, <1>12, <1>15, KeptBlocks
  <2>2. QED BY <1>3, <1>13, <2>1 DEF IsString
<1>20. PICK p2 : p2 = push'
  OBVIOUS
<1>21. Storing(p2) => /\ Storing(push) /\ x = x /\ p2.to = push.to /\ p2.val = push.val
                      /\ hp2[push.val].text = heap[push.val].text
  BY <1>2, <1>4, <1>19, <1>20 DEF Storing
<1>22. Distinct(heap, m, l, x, push, clone, cc, cd)
  BY <1>5, <1>10 DEF CopyWith
<1>23. Distinct(hp2, m, l, x, p2, clone, cc2, cd2)
  BY <1>14, <1>17, <1>18, <1>21, <1>22, DistinctCarried
<1>24. QED BY <1>6, <1>11, <1>20, <1>23

\* The element stored behind a tablets' others, and what that leaves alone.
LEMMA FilledCarries ==
  ASSUME NEW h, NEW ch, NEW v, NEW hp2, kind = "tablets", Shape(heap), Owns(kind, heap, h, ch),
         h.len < MaxLen, h.tail # NULL, heap[h.tail].used # N, IsString(heap, v),
         hp2 = Filling(kind, heap, h, v)
  PROVE  /\ Carries(heap, hp2, ch, ch, h.len) /\ At(hp2, ch, h.len) = v
         /\ \A c3, m : Linked(kind, heap, c3) /\ Disjoint(c3, ch) /\ m = Count(heap, c3) =>
                         Carries(heap, hp2, c3, c3, m)
<1>1. PICK e : e = [h EXCEPT !.len = @ + 1]
  OBVIOUS
<1>2. SlotAdded(kind, heap, hp2, h, e, ch)
  <2>1. kind \in {"tablets", "ivec"} /\ (kind = "ivec" => h.len < h.cap)
    OBVIOUS
  <2>2. QED BY <1>1, <2>1, SlotInserted
<1>3. /\ SlotOf(ch, h.len) = <<h.tail, heap[h.tail].used + 1>> /\ h.len \in Nat
      /\ h.tail \in Addr /\ h.tail \in Range(ch) /\ heap[h.tail].is = "chunk"
      /\ \A b \in Addr : b # h.tail => hp2[b] = heap[b]
  BY <1>2 DEF SlotAdded
<1>4. \A b : IsString(heap, b) => hp2[b] = heap[b]
  BY <1>3 DEF IsString
<1>5. Linked(kind, heap, ch) /\ h.len = Count(heap, ch)
  BY DEF Owns
<1>6. ASSUME NEW c3, Linked(kind, heap, c3), NEW m, m = Count(heap, c3), NEW k \in Nat, k < m
      PROVE  /\ IsString(heap, At(heap, c3, k)) /\ SlotOf(c3, k)[1] \in Range(c3)
             /\ SlotOf(c3, k)[1] \in Addr
  <2>1. k < Count(heap, c3)
    BY <1>6
  <2>2. /\ Place(k) \in 1..Len(c3) /\ SlotOf(c3, k)[1] = c3[Place(k)] /\ c3[Place(k)] \in Addr
        /\ IsString(heap, heap[SlotOf(c3, k)[1]].items[SlotOf(c3, k)[2]])
    BY <1>6, <2>1, SlotFilled
  <2>3. c3 \in Seq(Addr)
    BY <1>6 DEF Linked
  <2>4. QED BY <2>2, <2>3 DEF Range, At
<1>7. Carries(heap, hp2, ch, ch, h.len)
  <2>1. ASSUME NEW k \in Nat, k < h.len
        PROVE  At(hp2, ch, k) = At(heap, ch, k) /\ hp2[At(heap, ch, k)].text = heap[At(heap, ch, k)].text
    <3>1. kind \in {"tablets", "ivec"} /\ (kind = "ivec" => h.len < h.cap)
      OBVIOUS
    <3>2. hp2[SlotOf(ch, k)[1]].items[SlotOf(ch, k)[2]] = heap[SlotOf(ch, k)[1]].items[SlotOf(ch, k)[2]]
      BY <2>1, <3>1, SlotsKept
    <3>3. IsString(heap, At(heap, ch, k))
      BY <1>5, <1>6, <2>1
    <3>4. QED BY <1>4, <3>2, <3>3 DEF At
  <2>2. QED BY <2>1 DEF Carries
<1>8. At(hp2, ch, h.len) = v
  <2>1. PICK a \in Addr : a = h.tail
    BY <1>3
  <2>2. PICK u : u = heap[a].used + 1
    OBVIOUS
  <2>3. hp2 = WithSlot(heap, a, u, v)
    BY <2>1, <2>2 DEF Filling
  <2>4. u \in DOMAIN heap[a].items
    <3>1. PICK i \in 1..Len(ch) : a = ch[i]
      <4>1. ch \in Seq(Addr)
        BY <1>5 DEF Linked
      <4>2. QED BY <1>3, <2>1, <4>1 DEF Range
    <3>2. ChunkOK(heap, a) /\ heap[a].used # N
      BY <1>5, <2>1, <3>1 DEF Linked
    <3>3. PICK w : w = heap[a].used
      OBVIOUS
    <3>4. w \in 0..N /\ N \in Nat /\ w # N /\ DOMAIN heap[a].items = 1..N /\ u = w + 1
      BY <2>2, <3>2, <3>3, Numbers DEF ChunkOK
    <3>5. QED BY <3>4
  <2>5. Shape(hp2) /\ Spares(heap, hp2, a, u) /\ hp2[a].items[u] = v
    BY <2>3, <2>4, SlotSpares
  <2>6. SlotOf(ch, h.len)[1] = a /\ SlotOf(ch, h.len)[2] = u
    BY <1>3, <2>1, <2>2
  <2>7. QED BY <2>5, <2>6 DEF At
<1>9. ASSUME NEW c3, NEW m, Linked(kind, heap, c3), Disjoint(c3, ch), m = Count(heap, c3)
      PROVE  Carries(heap, hp2, c3, c3, m)
  <2>1. ASSUME NEW k \in Nat, k < m
        PROVE  At(hp2, c3, k) = At(heap, c3, k) /\ hp2[At(heap, c3, k)].text = heap[At(heap, c3, k)].text
    <3>1. /\ IsString(heap, At(heap, c3, k)) /\ SlotOf(c3, k)[1] \in Range(c3)
          /\ SlotOf(c3, k)[1] \in Addr
      BY <1>6, <1>9, <2>1
    <3>2. SlotOf(c3, k)[1] # h.tail
      BY <1>3, <1>9, <3>1 DEF Disjoint
    <3>3. QED BY <1>3, <1>4, <3>1, <3>2 DEF At
  <2>2. QED BY <2>1 DEF Carries
<1>10. QED BY <1>7, <1>8, <1>9

\* A push completed: the original, or the clone, has one element more.
LEMMA InsertChunkedCopy ==
  ASSUME NEW cc, NEW cd, NEW vc, InvWith(cc, cd, vc), CopyWith(cc, cd), InsertChunked
  PROVE  CopyNext(cc, cd)
<1>1. /\ push.pc = "insert" /\ kind # "dvec"
      /\ heap' = Filling(kind, heap, Header, push.val)
      /\ Inserted(<<Header.tail, heap[Header.tail].used + 1>>)
  BY InsertChunkedIs
<1>2. /\ push = [pc |-> push.pc, to |-> push.to, val |-> push.val, moved |-> push.moved,
                 slot |-> push.slot]
      /\ push.moved \in BOOLEAN /\ push.val \in spill /\ IsString(heap, push.val)
      /\ hdr = [c |-> hdr.c, d |-> hdr.d]
      /\ \/ push.to = "c" /\ clone.pc = "idle" /\ Pushing(kind, heap, push, hdr.c, cc)
         \/ /\ push.to = "d" /\ clone.pc # "idle" /\ kind = "tablets"
            /\ Pushing(kind, heap, push, hdr.d, cd)
  BY <1>1, TargetIs
<1>3. /\ kind' = kind /\ x' = x /\ clone' = clone /\ push'.pc = "return"
      /\ Stored([Header EXCEPT !.len = @ + 1])
  <2>1. PICK s : s = <<Header.tail, heap[Header.tail].used + 1>>
    OBVIOUS
  <2>2. Inserted(s)
    BY <1>1, <2>1
  <2>3. QED BY <1>2, <2>2 DEF Inserted
<1>4. SUFFICES ASSUME kind = "tablets"
               PROVE  Distinct(heap', hdr'.c.len, hdr'.d.len, x, push', clone, cc, cd)
  BY <1>3 DEF CopyNext
<1>5. PICK h, e, v, hp2, p2 :
        h = Header /\ e = [Header EXCEPT !.len = @ + 1] /\ v = push.val /\ hp2 = heap' /\ p2 = push'
  OBVIOUS
<1>6. /\ push.to = "c" => h = hdr.c /\ hdr'.c = e /\ hdr'.d = hdr.d
      /\ push.to = "d" => h = hdr.d /\ hdr'.d = e /\ hdr'.c = hdr.c
  <2>1. Stored(e)
    BY <1>3, <1>5
  <2>2. /\ push.to = "c" => Header = hdr.c /\ hdr'.c = e /\ hdr'.d = hdr.d
        /\ push.to = "d" => Header = hdr.d /\ hdr'.d = e /\ hdr'.c = hdr.c
    BY <1>2, <2>1, StoredIs
  <2>3. QED BY <1>5, <2>2
<1>7. /\ Shape(heap) /\ Owns(kind, heap, hdr.c, cc) /\ Owns(kind, heap, hdr.d, cd)
      /\ Disjoint(cc, cd) /\ Disjoint(cd, cc) /\ IsHeader(hdr.c) /\ IsHeader(hdr.d)
  BY OwnIs DEF Disjoint
<1>8. hp2 = Filling(kind, heap, h, v) /\ e = [h EXCEPT !.len = @ + 1] /\ IsString(heap, v)
      /\ ~Storing(p2)
  BY <1>1, <1>2, <1>3, <1>5 DEF Storing
<1>9. PICK m, n : m = hdr.c.len /\ n = hdr.d.len
  OBVIOUS
<1>10. /\ m \in Nat /\ m = Count(heap, cc) /\ Linked(kind, heap, cc)
       /\ n \in Nat /\ n = Count(heap, cd) /\ Linked(kind, heap, cd)
  BY <1>4, <1>9, ItemsAre
<1>11. Distinct(heap, m, n, x, push, clone, cc, cd)
  BY <1>4, <1>9 DEF CopyWith
<1>12. CASE push.to = "c"
  <2>1. h = hdr.c /\ hdr'.c = e /\ hdr'.d = hdr.d /\ h.len = m /\ clone.pc = "idle"
        /\ Pushing(kind, heap, push, h, cc) /\ Owns(kind, heap, h, cc) /\ IsHeader(h)
    BY <1>2, <1>6, <1>7, <1>9, <1>12
  <2>2. h.len < MaxLen /\ h.tail # NULL /\ heap[h.tail].used # N
    BY <1>1, <1>4, <2>1 DEF Pushing
  <2>3. /\ Carries(heap, hp2, cc, cc, h.len) /\ At(hp2, cc, h.len) = v
        /\ \A c3, l : Linked(kind, heap, c3) /\ Disjoint(c3, cc) /\ l = Count(heap, c3) =>
                        Carries(heap, hp2, c3, c3, l)
    BY <1>4, <1>7, <1>8, <2>1, <2>2, FilledCarries
  <2>4. Carries(heap, hp2, cc, cc, m) /\ At(hp2, cc, m) = v /\ Carries(heap, hp2, cd, cd, n)
    BY <1>7, <1>10, <2>1, <2>3
  <2>5. Distinct(hp2, m, n, x, p2, clone, cc, cd)
    BY <1>8, <1>10, <1>11, <2>4, DistinctCarried
  <2>6. Avoids(heap, n, cd, v)
    BY <1>1, <1>5, <1>11, <1>12 DEF Distinct, Storing
  <2>7. Avoids(hp2, n, cd, v)
    BY <2>4, <2>6 DEF Avoids, Carries
  <2>8. Apart(hp2, m + 1, n, x, cc, cd)
    <3>1. Apart(hp2, m, n, x, cc, cd)
      BY <2>5 DEF Distinct
    <3>2. \A l \in Nat : l < m + 1 => l < m \/ l = m
      BY <1>10
    <3>3. QED BY <2>4, <2>7, <3>1, <3>2 DEF Apart, Avoids
  <2>9. e.len = m + 1
    BY <1>8, <2>1, <2>2, LongerIs
  <2>10. Distinct(hp2, m + 1, n, x, p2, clone, cc, cd)
    BY <1>8, <2>1, <2>8 DEF Distinct
  <2>11. QED BY <1>5, <1>9, <2>1, <2>9, <2>10
<1>13. CASE push.to = "d"
  <2>1. h = hdr.d /\ hdr'.d = e /\ hdr'.c = hdr.c /\ h.len = n
        /\ Pushing(kind, heap, push, h, cd) /\ Owns(kind, heap, h, cd) /\ IsHeader(h)
    BY <1>2, <1>6, <1>7, <1>9, <1>13
  <2>2. h.len < MaxLen /\ h.tail # NULL /\ heap[h.tail].used # N
    BY <1>1, <1>4, <2>1 DEF Pushing
  <2>3. /\ Carries(heap, hp2, cd, cd, h.len) /\ At(hp2, cd, h.len) = v
        /\ \A c3, l : Linked(kind, heap, c3) /\ Disjoint(c3, cd) /\ l = Count(heap, c3) =>
                        Carries(heap, hp2, c3, c3, l)
    BY <1>4, <1>7, <1>8, <2>1, <2>2, FilledCarries
  <2>4. Carries(heap, hp2, cd, cd, n) /\ At(hp2, cd, n) = v /\ Carries(heap, hp2, cc, cc, m)
    BY <1>7, <1>10, <2>1, <2>3
  <2>5. Distinct(hp2, m, n, x, p2, clone, cc, cd)
    BY <1>8, <1>10, <1>11, <2>4, DistinctCarried
  <2>6. v # x /\ Avoids(heap, m, cc, v)
    BY <1>1, <1>5, <1>11, <1>13 DEF Distinct, Storing
  <2>7. Avoids(hp2, m, cc, v)
    BY <2>4, <2>6 DEF Avoids, Carries
  <2>8. \A k \in Nat : k < n + 1 => k < n \/ k = n
    BY <1>10
  <2>9. Apart(hp2, m, n + 1, x, cc, cd)
    <3>1. Apart(hp2, m, n, x, cc, cd)
      BY <2>5 DEF Distinct
    <3>2. QED BY <2>4, <2>6, <2>7, <2>8, <3>1 DEF Apart, Avoids
  <2>10. ASSUME clone.pc = "element" PROVE Agrees(hp2, m, n + 1, cc, cd)
    <3>1. Agrees(hp2, m, n, cc, cd)
      BY <2>5, <2>10 DEF Distinct
    <3>2. Follows(heap, m, n, v, cc)
      BY <1>1, <1>5, <1>11, <2>10 DEF Distinct, Storing
    <3>3. n < m /\ heap[v].text = heap[At(heap, cc, n)].text
      BY <3>2 DEF Follows
    <3>4. At(hp2, cc, n) = At(heap, cc, n) /\ hp2[At(heap, cc, n)].text = heap[At(heap, cc, n)].text
      BY <1>10, <2>4, <3>3 DEF Carries
    <3>5. hp2[v] = heap[v]
      <4>1. SlotAdded(kind, heap, hp2, h, e, cd)
        <5>1. kind \in {"tablets", "ivec"} /\ (kind = "ivec" => h.len < h.cap)
          BY <1>4
        <5>2. QED BY <1>7, <1>8, <2>1, <2>2, <5>1, SlotInserted
      <4>2. heap[h.tail].is = "chunk" /\ \A b \in Addr : b # h.tail => hp2[b] = heap[b]
        BY <1>4, <4>1 DEF SlotAdded
      <4>3. QED BY <1>8, <4>2 DEF IsString
    <3>6. hp2[At(hp2, cd, n)].text = hp2[At(hp2, cc, n)].text
      BY <2>4, <3>3, <3>4, <3>5
    <3>7. QED BY <2>8, <3>1, <3>3, <3>6 DEF Agrees
  <2>11. e.len = n + 1
    BY <1>8, <2>1, <2>2, LongerIs
  <2>12. Distinct(hp2, m, n + 1, x, p2, clone, cc, cd)
    BY <1>8, <2>9, <2>10 DEF Distinct
  <2>13. QED BY <1>5, <1>9, <2>1, <2>11, <2>12
<1>14. QED BY <1>2, <1>12, <1>13

\* An assignment gives the variable's value to the original, or to nobody.
LEMMA StoreCopy ==
  ASSUME NEW cc, NEW cd, NEW vc, InvWith(cc, cd, vc), CopyWith(cc, cd), Store
  PROVE  CopyNext(cc, cd)
<1>1. /\ lval.on /\ lval.slot[2] \in DOMAIN heap[lval.slot[1]].items
      /\ push.pc = "idle" /\ clone.pc = "idle"
      /\ heap' = WithItem(heap, lval.slot[1], lval.slot[2], x) /\ kind' = kind /\ hdr' = hdr
      /\ x' = NULL /\ push' = push /\ clone' = clone
  BY DEF Store, Running, WithItem
<1>2. SUFFICES ASSUME kind = "tablets"
               PROVE  Distinct(heap', hdr.c.len, hdr.d.len, NULL, push, clone, cc, cd)
  BY <1>1 DEF CopyNext
<1>3. LvalOK(kind, heap, lval, hdr.c, cc, cd) /\ Shape(heap)
  BY DEF InvWith, Inv
<1>4. lval.on = TRUE
  BY <1>1, <1>3, Zenon DEF LvalOK
<1>5. lval.slot[1] \in Addr /\ lval.slot[1] \notin Range(cd)
  BY <1>3, <1>4 DEF LvalOK
<1>6. PICK a \in Addr : a = lval.slot[1]
  BY <1>5
<1>7. PICK o, v, hp2, m, n :
        o = lval.slot[2] /\ v = x /\ hp2 = heap' /\ m = hdr.c.len /\ n = hdr.d.len
  OBVIOUS
<1>8. Shape(heap) /\ o \in DOMAIN heap[a].items /\ hp2 = WithItem(heap, a, o, v)
  BY <1>1, <1>3, <1>6, <1>7
<1>9. /\ \A b \in Addr : b # a => hp2[b] = heap[b]
      /\ hp2[a].items[o] = v
      /\ \A j \in DOMAIN heap[a].items : j # o => hp2[a].items[j] = heap[a].items[j]
  <2>1. /\ Shape(hp2)
        /\ \A b \in Addr : /\ hp2[b].is = heap[b].is /\ hp2[b].used = heap[b].used
                           /\ hp2[b].next = heap[b].next /\ hp2[b].text = heap[b].text
                           /\ DOMAIN hp2[b].items = DOMAIN heap[b].items
        /\ \A b \in Addr : b # a => hp2[b] = heap[b]
        /\ hp2[a].items[o] = v
        /\ \A j \in DOMAIN heap[a].items : j # o => hp2[a].items[j] = heap[a].items[j]
    BY <1>8, ItemStored
  <2>2. QED BY <2>1
<1>10. /\ m = Count(heap, cc) /\ Linked(kind, heap, cc)
       /\ n = Count(heap, cd) /\ Linked(kind, heap, cd)
       /\ \A k \in Nat : k < n => IsString(heap, At(heap, cd, k))
  BY <1>2, <1>7, ItemsAre
<1>11. ASSUME NEW k \in Nat, k < m
       PROVE  At(hp2, cc, k) = At(heap, cc, k) \/ At(hp2, cc, k) = v
  <2>1. k < Count(heap, cc)
    BY <1>10, <1>11
  <2>2. /\ Place(k) \in 1..Len(cc) /\ SlotOf(cc, k)[1] = cc[Place(k)] /\ cc[Place(k)] \in Addr
        /\ SlotOf(cc, k)[2] = (k - First(Place(k))) + 1 /\ (k - First(Place(k))) + 1 \in 1..N
        /\ ChunkOK(heap, cc[Place(k)])
    BY <1>10, <2>1, SlotFilled
  <2>3. PICK c, p : c = SlotOf(cc, k)[1] /\ p = SlotOf(cc, k)[2]
    OBVIOUS
  <2>4. c \in Addr /\ p \in DOMAIN heap[c].items
    BY <2>2, <2>3 DEF ChunkOK
  <2>5. hp2[c].items[p] = heap[c].items[p] \/ hp2[c].items[p] = v
    BY <1>9, <2>4
  <2>6. QED BY <2>3, <2>5 DEF At
<1>12. ASSUME NEW k \in Nat, k < n
       PROVE  At(hp2, cd, k) = At(heap, cd, k)
  <2>1. k < Count(heap, cd)
    BY <1>10, <1>12
  <2>2. Place(k) \in 1..Len(cd) /\ SlotOf(cd, k)[1] = cd[Place(k)] /\ cd[Place(k)] \in Addr
    BY <1>10, <2>1, SlotFilled
  <2>3. cd \in Seq(Addr)
    BY <1>10 DEF Linked
  <2>4. SlotOf(cd, k)[1] \in Range(cd) /\ SlotOf(cd, k)[1] \in Addr
    BY <2>2, <2>3 DEF Range
  <2>5. SlotOf(cd, k)[1] # a
    BY <1>5, <1>6, <2>4
  <2>6. QED BY <1>9, <2>4, <2>5 DEF At
<1>13. Apart(heap, m, n, v, cc, cd)
  BY <1>2, <1>7 DEF CopyWith, Distinct
<1>14. \A k \in Nat : k < n => At(heap, cd, k) # NULL
  BY <1>10, Numbers DEF IsString
<1>15. Apart(hp2, m, n, NULL, cc, cd)
  BY <1>11, <1>12, <1>13, <1>14 DEF Apart
<1>16. Distinct(hp2, m, n, NULL, push, clone, cc, cd)
  BY <1>1, <1>15 DEF Distinct, Storing
<1>17. QED BY <1>7, <1>16

\* Nothing is shared with a container that is empty.
LEMMA EmptyDistinct ==
  ASSUME NEW hp, NEW s, NEW p, NEW q, ~Storing(p), NEW cc, NEW cd
  PROVE  /\ \A m \in Nat : Distinct(hp, m, 0, s, p, q, cc, cd)
<1>1. \A k \in Nat : ~(k < 0)
  OBVIOUS
<1>2. \A m \in Nat : Apart(hp, m, 0, s, cc, cd)
  BY <1>1 DEF Apart
<1>3. \A m \in Nat : Agrees(hp, m, 0, cc, cd)
  BY <1>1 DEF Agrees
<1>4. QED BY <1>2, <1>3 DEF Distinct

\* The clone's header is emptied when it begins and when its scope ends.
LEMMA OtherEmptyCopy ==
  ASSUME NEW cc, NEW cd, NEW vc, InvWith(cc, cd, vc), kind' = kind,
         hdr' = [hdr EXCEPT !.d = EmptyHeader], push' = push, push.pc = "idle"
  PROVE  CopyNext(cc, << >>)
<1>1. hdr = [c |-> hdr.c, d |-> hdr.d] /\ hdr.c.len \in Nat
  BY OwnIs
<1>2. hdr'.c = hdr.c /\ hdr'.d = EmptyHeader
  BY <1>1
<1>3. EmptyHeader.len = 0
  BY DEF EmptyHeader
<1>4. PICK m, hp, s, q : m = hdr.c.len /\ hp = heap' /\ s = x' /\ q = clone'
  OBVIOUS
<1>5. ~Storing(push)
  BY DEF Storing
<1>6. Distinct(hp, m, 0, s, push, q, cc, << >>)
  BY <1>1, <1>4, <1>5, EmptyDistinct
<1>7. hdr'.c.len = m /\ hdr'.d.len = 0
  BY <1>2, <1>3, <1>4
<1>8. QED BY <1>4, <1>6, <1>7 DEF CopyNext

\* The original is released.
LEMMA ReleaseCopy ==
  ASSUME NEW cc, NEW cd, NEW vc, InvWith(cc, cd, vc), CopyWith(cc, cd), Release
  PROVE  CopyNext(<< >>, cd)
<1>1. /\ push.pc = "idle" /\ clone.pc = "idle" /\ hdr' = [hdr EXCEPT !.c = EmptyHeader]
      /\ kind' = kind /\ heap' = heap /\ clone' = clone /\ x' = x /\ push' = push
  BY DEF Release, Running
<1>2. hdr = [c |-> hdr.c, d |-> hdr.d]
  BY OwnIs
<1>3. hdr'.c = EmptyHeader /\ hdr'.d = hdr.d
  BY <1>1, <1>2
<1>4. EmptyHeader.len = 0
  BY DEF EmptyHeader
<1>5. SUFFICES ASSUME kind = "tablets"
               PROVE  Distinct(heap, hdr'.c.len, hdr'.d.len, x, push, clone, << >>, cd)
  BY <1>1 DEF CopyNext
<1>6. PICK m, n : m = hdr.c.len /\ n = hdr.d.len
  OBVIOUS
<1>7. Apart(heap, m, n, x, cc, cd)
  BY <1>5, <1>6 DEF CopyWith, Distinct
<1>8. \A k \in Nat : ~(k < 0)
  OBVIOUS
<1>9. Apart(heap, 0, n, x, << >>, cd)
  BY <1>7, <1>8 DEF Apart
<1>10. Distinct(heap, 0, n, x, push, clone, << >>, cd)
  BY <1>1, <1>9 DEF Distinct, Storing
<1>11. hdr'.c.len = 0 /\ hdr'.d.len = n
  BY <1>3, <1>4, <1>6
<1>12. QED BY <1>10, <1>11

-----------------------------------------------------------------------------
(* The clone's invariant holds, and what follows from it.                   *)

\* Chains that fit, and a clone that shares nothing with its source.
CopyIInv == \E cc, cd, vc \in Seq(Addr) : InvWith(cc, cd, vc) /\ CopyWith(cc, cd)
CopyKept == \E cc2, cd2, vc2 \in Seq(Addr) : InvNext(cc2, cd2, vc2) /\ CopyNext(cc2, cd2)

\* The chains are the ones the headers lead along.
LEMMA CopyExists ==
  ASSUME NEW cc, NEW cd, NEW vc, InvNext(cc, cd, vc), CopyNext(cc, cd)
  PROVE  CopyKept
<1>1. Owns(kind', heap', hdr'.c, cc) /\ Owns(kind', heap', hdr'.d, cd)
      /\ ViewOK(kind', heap', view', hdr'.c, cc, cd, vc)
  BY DEF InvNext, Inv
<1>2. cc \in Seq(Addr) /\ cd \in Seq(Addr)
  BY <1>1 DEF Owns, Linked
<1>3. vc \in Seq(Addr)
  BY <1>1 DEF ViewOK, Linked
<1>4. QED BY <1>2, <1>3 DEF CopyKept

\* Containers of elements that lie in a buffer have no clone.
LEMMA NoneCopy ==
  ASSUME NEW cc, NEW cd, kind' = kind, kind # "tablets"
  PROVE  CopyNext(cc, cd)
BY DEF CopyNext

\* A step keeps it, whichever it is.
LEMMA NextCopy ==
  ASSUME CopyIInv, [Next]_vars
  PROVE  CopyKept
<1>1. PICK cc, cd, vc \in Seq(Addr) : InvWith(cc, cd, vc) /\ CopyWith(cc, cd)
  BY DEF CopyIInv
<1>2. CASE Grow
  <2>1. InvNext(cc, cd, vc)
    BY <1>1, <1>2, GrowStep
  <2>2. push.pc = "grow" /\ kind' = kind
    BY <1>2 DEF Grow
  <2>3. kind # "tablets"
    <3>1. Pushing(kind, heap, push, hdr.c, cc) \/ Pushing(kind, heap, push, hdr.d, cd)
      BY <1>1, <2>2, TargetIs
    <3>2. QED BY <2>2, <3>1 DEF Pushing
  <2>4. CopyNext(cc, cd)
    BY <2>2, <2>3, NoneCopy
  <2>5. QED BY <2>1, <2>4, CopyExists
<1>3. CASE NewChunk
  <2>1. PICK cc2, cd2, vc2 \in Seq(Addr) :
          InvNext(cc2, cd2, vc2) /\ Continues(cc, cc2) /\ Continues(cd, cd2)
    BY <1>1, <1>3, NewChunkStep
  <2>2. CopyNext(cc2, cd2)
    BY <1>1, <1>3, <2>1, NewChunkCopy
  <2>3. QED BY <2>1, <2>2 DEF CopyKept
<1>4. CASE InsertChunked
  <2>1. InvNext(cc, cd, vc)
    BY <1>1, <1>4, InsertChunkedStep
  <2>2. CopyNext(cc, cd)
    BY <1>1, <1>4, InsertChunkedCopy
  <2>3. QED BY <2>1, <2>2, CopyExists
<1>5. CASE InsertInline
  <2>1. InvNext(cc, cd, vc)
    BY <1>1, <1>5, InsertInlineStep
  <2>2. kind # "tablets" /\ kind' = kind
    BY <1>5 DEF InsertInline, Inserted
  <2>3. CopyNext(cc, cd)
    BY <2>2, NoneCopy
  <2>4. QED BY <2>1, <2>3, CopyExists
<1>6. CASE NewString
  <2>1. InvNext(cc, cd, vc)
    BY <1>1, <1>6, NewStringStep
  <2>2. CopyNext(cc, cd)
    BY <1>1, <1>6, NewStringCopy
  <2>3. QED BY <2>1, <2>2, CopyExists
<1>7. CASE PushMoved
  <2>1. InvNext(cc, cd, vc)
    BY <1>1, <1>7, PushMovedStep
  <2>2. CopyNext(cc, cd)
    BY <1>1, <1>7, PushMovedCopy
  <2>3. QED BY <2>1, <2>2, CopyExists
<1>8. ASSUME NEW i \in CopyFrom, PushCopy(i) PROVE CopyKept
  <2>1. InvNext(cc, cd, vc)
    BY <1>1, <1>8, PushCopyStep
  <2>2. CopyNext(cc, cd)
    BY <1>1, <1>8, PushCopyCopy
  <2>3. QED BY <2>1, <2>2, CopyExists
<1>9. CASE Store
  <2>1. InvNext(cc, cd, vc)
    BY <1>1, <1>9, StoreStep
  <2>2. CopyNext(cc, cd)
    BY <1>1, <1>9, StoreCopy
  <2>3. QED BY <2>1, <2>2, CopyExists
<1>10. CASE Release
  <2>1. PICK vc2 : vc2 = IF view.gone = TRUE \/ view.h.len > 0 THEN vc ELSE << >>
    OBVIOUS
  <2>2. InvNext(<< >>, cd, IF view.gone = TRUE \/ view.h.len > 0 THEN vc ELSE << >>)
    BY <1>1, <1>10, ReleaseStep
  <2>3. InvNext(<< >>, cd, vc2)
    BY <2>1, <2>2
  <2>4. CopyNext(<< >>, cd)
    BY <1>1, <1>10, ReleaseCopy
  <2>5. QED BY <2>3, <2>4, CopyExists
<1>11. CASE CloneElement
  <2>1. InvNext(cc, cd, vc)
    BY <1>1, <1>11, CloneElementStep
  <2>2. CopyNext(cc, cd)
    BY <1>1, <1>11, CloneElementCopy
  <2>3. QED BY <2>1, <2>2, CopyExists
<1>12. CASE ForBegin
  <2>1. InvNext(cc, cd, cc)
    BY <1>1, <1>12, ForBeginStep
  <2>2. /\ kind' = kind /\ heap' = heap /\ hdr' = hdr /\ (x' = x \/ x' = NULL)
        /\ (Storing(push') => push' = push /\ x' = x)
        /\ (clone'.pc = "element" => clone.pc = "element")
    BY <1>12 DEF ForBegin
  <2>3. CopyNext(cc, cd)
    BY <1>1, <2>2, QuietCopy
  <2>4. QED BY <2>1, <2>3, CopyExists
<1>13. CASE ForNext
  <2>1. InvNext(cc, cd, vc)
    BY <1>1, <1>13, ForNextStep
  <2>2. /\ kind' = kind /\ heap' = heap /\ hdr' = hdr /\ (x' = x \/ x' = NULL)
        /\ (Storing(push') => push' = push /\ x' = x)
        /\ (clone'.pc = "element" => clone.pc = "element")
    BY <1>13 DEF ForNext
  <2>3. CopyNext(cc, cd)
    BY <1>1, <2>2, QuietCopy
  <2>4. QED BY <2>1, <2>3, CopyExists
<1>14. CASE ForEnd
  <2>1. InvNext(cc, cd, cc)
    BY <1>1, <1>14, ForEndStep
  <2>2. /\ kind' = kind /\ heap' = heap /\ hdr' = hdr /\ (x' = x \/ x' = NULL)
        /\ (Storing(push') => push' = push /\ x' = x)
        /\ (clone'.pc = "element" => clone.pc = "element")
    BY <1>14 DEF ForEnd
  <2>3. CopyNext(cc, cd)
    BY <1>1, <2>2, QuietCopy
  <2>4. QED BY <2>1, <2>3, CopyExists
<1>15. CASE Forget
  <2>1. InvNext(cc, cd, vc)
    BY <1>1, <1>15, ForgetStep
  <2>2. /\ kind' = kind /\ heap' = heap /\ hdr' = hdr /\ (x' = x \/ x' = NULL)
        /\ (Storing(push') => push' = push /\ x' = x)
        /\ (clone'.pc = "element" => clone.pc = "element")
    BY <1>15 DEF Forget
  <2>3. CopyNext(cc, cd)
    BY <1>1, <2>2, QuietCopy
  <2>4. QED BY <2>1, <2>3, CopyExists
<1>16. ASSUME NEW i \in Indexed, Resolve(i) PROVE CopyKept
  <2>1. InvNext(cc, cd, vc)
    BY <1>1, <1>16, ResolveStep
  <2>2. /\ kind' = kind /\ heap' = heap /\ hdr' = hdr /\ (x' = x \/ x' = NULL)
        /\ (Storing(push') => push' = push /\ x' = x)
        /\ (clone'.pc = "element" => clone.pc = "element")
    BY <1>16 DEF Resolve
  <2>3. CopyNext(cc, cd)
    BY <1>1, <2>2, QuietCopy
  <2>4. QED BY <2>1, <2>3, CopyExists
<1>17. ASSUME NEW keep \in BOOLEAN, Return(keep) PROVE CopyKept
  <2>1. InvNext(cc, cd, vc)
    BY <1>1, <1>17, ReturnStep
  <2>2. /\ kind' = kind /\ heap' = heap /\ hdr' = hdr /\ (x' = x \/ x' = NULL)
        /\ (Storing(push') => push' = push /\ x' = x)
        /\ (clone'.pc = "element" => clone.pc = "element")
    BY <1>17 DEF Return, Idle, Storing
  <2>3. CopyNext(cc, cd)
    BY <1>1, <2>2, QuietCopy
  <2>4. QED BY <2>1, <2>3, CopyExists
<1>18. CASE CloneAdvance
  <2>1. InvNext(cc, cd, vc)
    BY <1>1, <1>18, CloneAdvanceStep
  <2>2. /\ kind' = kind /\ heap' = heap /\ hdr' = hdr /\ (x' = x \/ x' = NULL)
        /\ (Storing(push') => push' = push /\ x' = x)
        /\ (clone'.pc = "element" => clone.pc = "element")
    BY <1>18 DEF CloneAdvance, statement
  <2>3. CopyNext(cc, cd)
    BY <1>1, <2>2, QuietCopy
  <2>4. QED BY <2>1, <2>3, CopyExists
<1>19. CASE CloneEnd
  <2>1. InvNext(cc, cd, vc)
    BY <1>1, <1>19, CloneEndStep
  <2>2. /\ kind' = kind /\ heap' = heap /\ hdr' = hdr /\ (x' = x \/ x' = NULL)
        /\ (Storing(push') => push' = push /\ x' = x)
        /\ (clone'.pc = "element" => clone.pc = "element")
    BY <1>19 DEF CloneEnd, statement
  <2>3. CopyNext(cc, cd)
    BY <1>1, <2>2, QuietCopy
  <2>4. QED BY <2>1, <2>3, CopyExists
<1>20. CASE CloneReturn
  <2>1. InvNext(cc, cd, vc)
    BY <1>1, <1>20, CloneReturnStep
  <2>2. push.pc = "return" /\ push.to = "d"
    BY <1>20 DEF CloneReturn
  <2>3. clone.pc = "element"
    <3>1. /\ PushOK(kind, heap, spill, push, clone, hdr, cc, cd)
          /\ CloneOK(kind, heap, clone, push, hdr.d, cc)
      BY <1>1 DEF InvWith, Inv
    <3>2. QED BY <2>2, <3>1 DEF PushOK, CloneOK
  <2>4. /\ kind' = kind /\ heap' = heap /\ hdr' = hdr /\ (x' = x \/ x' = NULL)
        /\ (Storing(push') => push' = push /\ x' = x)
        /\ (clone'.pc = "element" => clone.pc = "element")
    BY <1>20, <2>3 DEF CloneReturn, Idle, Storing
  <2>5. CopyNext(cc, cd)
    BY <1>1, <2>4, QuietCopy
  <2>6. QED BY <2>1, <2>5, CopyExists
<1>21. CASE CloneBegin
  <2>1. InvNext(cc, << >>, vc)
    BY <1>1, <1>21, CloneBeginStep
  <2>2. kind' = kind /\ hdr' = [hdr EXCEPT !.d = EmptyHeader] /\ push' = push /\ push.pc = "idle"
    BY <1>21 DEF CloneBegin, Running
  <2>3. CopyNext(cc, << >>)
    BY <1>1, <2>2, OtherEmptyCopy
  <2>4. QED BY <2>1, <2>3, CopyExists
<1>22. CASE CloneDrop
  <2>1. InvNext(cc, << >>, vc)
    BY <1>1, <1>22, CloneDropStep
  <2>2. kind' = kind /\ hdr' = [hdr EXCEPT !.d = EmptyHeader] /\ push' = push /\ push.pc = "idle"
    BY <1>22 DEF CloneDrop, Running
  <2>3. CopyNext(cc, << >>)
    BY <1>1, <2>2, OtherEmptyCopy
  <2>4. QED BY <2>1, <2>3, CopyExists
<1>23. CASE UNCHANGED vars
  <2>1. /\ kind' = kind /\ heap' = heap /\ hdr' = hdr /\ x' = x /\ spill' = spill /\ wedge' = wedge
        /\ view' = view /\ lval' = lval /\ push' = push /\ clone' = clone
    BY <1>23 DEF vars
  <2>2. InvNext(cc, cd, vc)
    BY <1>1, <2>1 DEF InvWith, InvNext
  <2>3. CopyNext(cc, cd)
    BY <1>1, <2>1, QuietCopy
  <2>4. QED BY <2>2, <2>3, CopyExists
<1>24. QED BY <1>2, <1>3, <1>4, <1>5, <1>6, <1>7, <1>8, <1>9, <1>10, <1>11, <1>12, <1>13, <1>14, <1>15, <1>16, <1>17, <1>18, <1>19, <1>20, <1>21, <1>22, <1>23 DEF Next

\* At the start there is nothing to share.
LEMMA InitCopy ==
  ASSUME Init
  PROVE  CopyIInv
<1>1. PICK cc, cd, vc \in Seq(Addr) : InvWith(cc, cd, vc)
  BY InitInv DEF IInv
<1>2. hdr.c = EmptyHeader /\ hdr.d = EmptyHeader /\ push = Idle
  BY DEF Init
<1>3. ~Storing(push)
  BY <1>2 DEF Storing, Idle
<1>4. EmptyHeader.len = 0
  BY DEF EmptyHeader
<1>5. Distinct(heap, 0, 0, x, push, clone, cc, cd)
  BY <1>3, EmptyDistinct
<1>6. hdr.c.len = 0 /\ hdr.d.len = 0
  BY <1>2, <1>4
<1>7. CopyWith(cc, cd)
  BY <1>5, <1>6 DEF CopyWith
<1>8. QED BY <1>1, <1>7 DEF CopyIInv

\* Every reachable state has chains that fit, with clones that are apart.
LEMMA CopyInvariant == Spec => []CopyIInv
<1>1. Init => CopyIInv
  BY InitCopy
<1>2. CopyIInv /\ [Next]_vars => CopyIInv'
  <2>1. SUFFICES ASSUME CopyIInv, [Next]_vars PROVE CopyIInv'
    OBVIOUS
  <2>2. PICK cc2, cd2, vc2 \in Seq(Addr) : InvNext(cc2, cd2, vc2) /\ CopyNext(cc2, cd2)
    BY <2>1, NextCopy DEF CopyKept
  <2>3. InvWith(cc2, cd2, vc2)' /\ CopyWith(cc2, cd2)'
    BY <2>2 DEF InvNext, InvWith, CopyNext, CopyWith
  <2>4. QED BY <2>3 DEF CopyIInv
<1>3. QED BY <1>1, <1>2, PTL DEF Spec

\* What is read from a tablets is what its chain holds.
LEMMA ElementsAre ==
  ASSUME NEW h, NEW ch, kind = "tablets", kind \in Kinds, Owns(kind, heap, h, ch)
  PROVE  /\ h.len \in Nat /\ DOMAIN Elements(h) = 1..h.len
         /\ \A i \in 1..h.len : Elements(h)[i] = At(heap, ch, i - 1)
<1>1. Linked(kind, heap, ch) /\ Leads(kind, heap, h, ch)
  BY DEF Owns
<1>2. h.len \in Nat
  BY <1>1, Numbers DEF Leads, IsHeader
<1>3. ASSUME NEW i \in 1..h.len PROVE ItemAt(SlotAt(h, i - 1)) = At(heap, ch, i - 1)
  <2>1. PICK k \in Nat : k = i - 1
    OBVIOUS
  <2>2. k < h.len
    BY <1>2, <2>1
  <2>3. /\ kind = "dvec" => SlotAt(h, k) = <<h.buf, k + 1>>
        /\ kind # "dvec" => SlotAt(h, k) = SlotOf(ch, k)
    BY <1>1, <2>2, SlotAtIs
  <2>4. SlotAt(h, k) = SlotOf(ch, k)
    BY <2>3
  <2>5. QED BY <2>1, <2>4 DEF ItemAt, At
<1>4. QED BY <1>2, <1>3 DEF Elements

\* The two containers share no slot.
LEMMA SlotsApart ==
  ASSUME NEW cc, NEW cd, NEW vc, InvWith(cc, cd, vc)
  PROVE  ToSet(Filled(hdr.d)) \cap ToSet(Filled(hdr.c)) = {}
<1>1. /\ Owns(kind, heap, hdr.c, cc) /\ Owns(kind, heap, hdr.d, cd) /\ Disjoint(cc, cd)
      /\ kind # "tablets" => hdr.d = EmptyHeader
  BY DEF InvWith, Inv
<1>2. CASE kind = "tablets"
  <2>1. PICK fc, fd : fc = Filled(hdr.c) /\ fd = Filled(hdr.d)
    OBVIOUS
  <2>2. PICK m, n : m = hdr.c.len /\ n = hdr.d.len
    OBVIOUS
  <2>3. InOrder(fc, cc, m)
    BY <1>1, <1>2, <2>1, <2>2, FilledIs
  <2>4. InOrder(fd, cd, n)
    BY <1>1, <1>2, <2>1, <2>2, FilledIs
  <2>5. /\ m \in Nat /\ m = Count(heap, cc) /\ Linked(kind, heap, cc)
        /\ n \in Nat /\ n = Count(heap, cd) /\ Linked(kind, heap, cd)
    BY <1>2, <2>2, ItemsAre
  <2>6. ASSUME NEW ch, Linked(kind, heap, ch), NEW i, i \in 1..Count(heap, ch)
        PROVE  SlotOf(ch, i - 1)[1] \in Range(ch)
    <3>1. Count(heap, ch) \in Nat
      BY <2>6, CountIs
    <3>2. PICK k \in Nat : k = i - 1 /\ k < Count(heap, ch)
      BY <2>6, <3>1
    <3>3. Place(k) \in 1..Len(ch) /\ SlotOf(ch, k)[1] = ch[Place(k)]
      BY <2>6, <3>2, SlotFilled
    <3>4. ch \in Seq(Addr)
      BY <2>6 DEF Linked
    <3>5. QED BY <3>2, <3>3, <3>4 DEF Range
  <2>7. DOMAIN fc = 1..m /\ DOMAIN fd = 1..n
    BY <2>3, <2>4 DEF InOrder
  <2>8. ASSUME NEW i \in DOMAIN fd, NEW j \in DOMAIN fc PROVE fd[i] # fc[j]
    <3>1. fd[i] = SlotOf(cd, i - 1) /\ i \in 1..Count(heap, cd)
      BY <2>4, <2>5, <2>7 DEF InOrder
    <3>2. fc[j] = SlotOf(cc, j - 1) /\ j \in 1..Count(heap, cc)
      BY <2>3, <2>5, <2>7 DEF InOrder
    <3>3. SlotOf(cd, i - 1)[1] \in Range(cd)
      BY <2>5, <2>6, <3>1
    <3>4. SlotOf(cc, j - 1)[1] \in Range(cc)
      BY <2>5, <2>6, <3>2
    <3>5. QED BY <1>1, <3>1, <3>2, <3>3, <3>4 DEF Disjoint
  <2>9. QED BY <2>1, <2>8 DEF ToSet
<1>3. CASE kind # "tablets"
  <2>1. PICK h : h = hdr.d
    OBVIOUS
  <2>2. h.len = 0
    BY <1>1, <1>3, <2>1 DEF EmptyHeader
  <2>3. DOMAIN Filled(h) = {}
    <3>1. CASE kind = "dvec"
      BY <2>2, <3>1 DEF Filled
    <3>2. CASE kind # "dvec"
      <4>1. InOrder(Filled(h), cd, h.len)
        BY <1>1, <2>1, <3>2, FilledIs
      <4>2. QED BY <2>2, <4>1 DEF InOrder
    <3>3. QED BY <3>1, <3>2
  <2>4. QED BY <2>1, <2>3 DEF ToSet
<1>4. QED BY <1>2, <1>3

\* Nor an element.
LEMMA ItemsApart ==
  ASSUME NEW cc, NEW cd, NEW vc, InvWith(cc, cd, vc), CopyWith(cc, cd)
  PROVE  ToSet(Elements(hdr.d)) \cap ToSet(Elements(hdr.c)) = {}
<1>1. /\ kind \in Kinds /\ Owns(kind, heap, hdr.c, cc) /\ Owns(kind, heap, hdr.d, cd)
      /\ kind # "tablets" => hdr.d = EmptyHeader
  BY DEF InvWith, Inv
<1>2. PICK m, n, ec, ed :
        m = hdr.c.len /\ n = hdr.d.len /\ ec = Elements(hdr.c) /\ ed = Elements(hdr.d)
  OBVIOUS
<1>3. CASE kind = "tablets"
  <2>1. m \in Nat /\ DOMAIN ec = 1..m /\ \A i \in 1..m : ec[i] = At(heap, cc, i - 1)
    BY <1>1, <1>2, <1>3, ElementsAre
  <2>2. n \in Nat /\ DOMAIN ed = 1..n /\ \A i \in 1..n : ed[i] = At(heap, cd, i - 1)
    BY <1>1, <1>2, <1>3, ElementsAre
  <2>3. Apart(heap, m, n, x, cc, cd)
    BY <1>2, <1>3 DEF CopyWith, Distinct
  <2>4. ASSUME NEW i \in DOMAIN ed, NEW j \in DOMAIN ec PROVE ed[i] # ec[j]
    <3>1. PICK k \in Nat : k = i - 1 /\ k < n
      BY <2>2
    <3>2. PICK l \in Nat : l = j - 1 /\ l < m
      BY <2>1
    <3>3. At(heap, cd, k) # At(heap, cc, l)
      BY <2>3, <3>1, <3>2 DEF Apart
    <3>4. QED BY <2>1, <2>2, <3>1, <3>2, <3>3
  <2>5. QED BY <1>2, <2>4 DEF ToSet
<1>4. CASE kind # "tablets"
  <2>1. PICK h : h = hdr.d
    OBVIOUS
  <2>2. h.len = 0
    BY <1>1, <1>4, <2>1 DEF EmptyHeader
  <2>3. DOMAIN Elements(h) = {}
    BY <2>2 DEF Elements
  <2>4. QED BY <2>1, <2>3 DEF ToSet
<1>5. QED BY <1>3, <1>4

\* Where its cursor has left the source the clone has a text for each of the
\* source's.
LEMMA TextsCopied ==
  ASSUME NEW cc, NEW cd, NEW vc, InvWith(cc, cd, vc), CopyWith(cc, cd),
         clone.pc = "element", push.pc = "idle", clone.cur = NULL
  PROVE  Texts(hdr.d) = Texts(hdr.c)
<1>1. /\ kind \in Kinds /\ Owns(kind, heap, hdr.c, cc) /\ Owns(kind, heap, hdr.d, cd)
      /\ CloneOK(kind, heap, clone, push, hdr.d, cc)
  BY DEF InvWith, Inv
<1>2. kind = "tablets" /\ \E j \in 1..(Len(cc) + 1) : Cursor(heap, clone, push, hdr.d, cc, j)
  BY <1>1 DEF CloneOK
<1>3. PICK j \in 1..(Len(cc) + 1) : Cursor(heap, clone, push, hdr.d, cc, j)
  BY <1>2
<1>4. Linked(kind, heap, cc) /\ hdr.c.len = Count(heap, cc)
  BY <1>1, <1>2 DEF Owns
<1>5. Count(heap, cc) \in Nat /\ Len(cc) \in Nat
  BY <1>4, CountIs DEF Linked
<1>6. j = Len(cc) + 1
  <2>1. SUFFICES ASSUME j # Len(cc) + 1 PROVE FALSE
    OBVIOUS
  <2>2. clone.cur = cc[j]
    BY <1>3, <2>1 DEF Cursor
  <2>3. j \in 1..Len(cc)
    BY <1>5, <2>1
  <2>4. cc[j] \in Addr
    BY <1>4, <2>3 DEF Linked
  <2>5. QED BY <2>2, <2>4, Numbers
<1>7. hdr.d.len = Count(heap, cc)
  <2>1. clone.i = 0 /\ hdr.d.len = Before(heap, cc, j) + clone.i
    BY <1>3, <1>6 DEF Cursor
  <2>2. Before(heap, cc, j) = Count(heap, cc)
    BY <1>6 DEF Before
  <2>3. QED BY <1>5, <2>1, <2>2
<1>8. PICK m, hc, hd : hc = hdr.c /\ hd = hdr.d /\ m = hc.len
  OBVIOUS
<1>9. hc.len = m /\ hd.len = m
  BY <1>4, <1>7, <1>8
<1>10. Agrees(heap, m, m, cc, cd)
  BY <1>2, <1>8, <1>9 DEF CopyWith, Distinct
<1>11. m \in Nat /\ DOMAIN Elements(hc) = 1..m /\ \A i \in 1..m : Elements(hc)[i] = At(heap, cc, i - 1)
  BY <1>1, <1>2, <1>8, ElementsAre
<1>12. DOMAIN Elements(hd) = 1..m /\ \A i \in 1..m : Elements(hd)[i] = At(heap, cd, i - 1)
  <2>1. /\ hd.len \in Nat /\ DOMAIN Elements(hd) = 1..hd.len
        /\ \A i \in 1..hd.len : Elements(hd)[i] = At(heap, cd, i - 1)
    BY <1>1, <1>2, <1>8, ElementsAre
  <2>2. QED BY <1>9, <2>1
<1>13. ASSUME NEW i \in 1..m PROVE heap[Elements(hd)[i]].text = heap[Elements(hc)[i]].text
  <2>1. PICK k \in Nat : k = i - 1 /\ k < m
    BY <1>11
  <2>2. heap[At(heap, cd, k)].text = heap[At(heap, cc, k)].text
    BY <1>10, <2>1 DEF Agrees
  <2>3. QED BY <1>11, <1>12, <2>1, <2>2
<1>14. Texts(hd) = Texts(hc)
  BY <1>9, <1>13 DEF Texts
<1>15. QED BY <1>8, <1>14

\* Neither a slot nor an element is in both.
ClonesApart ==
  /\ ToSet(Filled(hdr.d)) \cap ToSet(Filled(hdr.c)) = {}
  /\ ToSet(Elements(hdr.d)) \cap ToSet(Elements(hdr.c)) = {}

\* A finished clone has the texts of its source, in order, and shares no slot
\* and no element with it then or later, whatever is pushed to or stored in
\* the source (__tuppu_tbls_clone, tablets.py 522-650).
THEOREM CloneCopies == Spec => CloneIsACopy
<1>1. CopyIInv => ClonesApart
  BY SlotsApart, ItemsApart DEF CopyIInv, ClonesApart
<1>2. CopyIInv /\ CloneEnd => Texts(hdr.d) = Texts(hdr.c)
  <2>1. SUFFICES ASSUME CopyIInv, CloneEnd PROVE Texts(hdr.d) = Texts(hdr.c)
    OBVIOUS
  <2>2. PICK cc, cd, vc \in Seq(Addr) : InvWith(cc, cd, vc) /\ CopyWith(cc, cd)
    BY <2>1 DEF CopyIInv
  <2>3. clone.pc = "element" /\ push.pc = "idle" /\ clone.cur = NULL
    BY <2>1 DEF CloneEnd
  <2>4. QED BY <2>2, <2>3, TextsCopied
<1>3. CopyIInv /\ ClonesApart' /\ [Next]_vars =>
        [/\ clone'.made => ToSet(Filled(hdr.d)') \cap ToSet(Filled(hdr.c)') = {}
         /\ clone'.made => ToSet(Elements(hdr.d)') \cap ToSet(Elements(hdr.c)') = {}
         /\ CloneEnd => Texts(hdr.d) = Texts(hdr.c)]_vars
  BY <1>2 DEF ClonesApart
<1>4. QED
  BY <1>1, <1>3, CopyInvariant, PTL DEF Spec, CloneIsACopy
=============================================================================
