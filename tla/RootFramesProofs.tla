-------------------------- MODULE RootFramesProofs --------------------------
(***************************************************************************)
(* The invariants of RootFrames, for every number of registrations,        *)
(* constructs, arms and levels of nesting.                                 *)
(*                                                                         *)
(* A construct keeps only a count of what codegen had registered when it   *)
(* was opened.  The invariant remembers more, in two values that no        *)
(* variable holds: H, the whole list of frames at the opening of each open *)
(* construct, and G, the sites the execution has passed by, which are on   *)
(* the code's lists and not among the run-time roots.  It says             *)
(*  - of the frames: between two levels of H, a construct added only at    *)
(*    the end, of its own frame or of its part of the innermost one        *)
(*    (Level, Stack), so that a count names exactly what it added;         *)
(*  - of the roots: they are the sites of the frames without those in G    *)
(*    (At), and G is empty where the mode forbids what fills it;           *)
(*  - of the execution: it is in every open construct, or waits for the    *)
(*    next part of exactly one of them with the roots that construct was   *)
(*    opened with, or has returned (Flow).                                 *)
(* Good is all of it; each operation is made of a few steps that keep Good *)
(* (GoodRegister, GoodOpen, GoodClose, GoodMerge).                         *)
(***************************************************************************)
EXTENDS RootFrames, DataLemmas

-----------------------------------------------------------------------------
(* Clearing named slots.                                                   *)

\* The equation of Cleared's recursive function for the first n roots, and what
\* it says of each of them.
ClearEquation(rs, gone, n, g) ==
  g = [i \in 0..n |->
         IF i = 0 THEN << >> ELSE IF rs[i] \in gone THEN g[i-1] ELSE Append(g[i-1], rs[i])]
ClearRuns(rs, gone, n, g) ==
  /\ g[0] = << >>
  /\ \A i \in 1..n : g[i] = IF rs[i] \in gone THEN g[i-1] ELSE Append(g[i-1], rs[i])

\* The recursive function of Cleared exists.
LEMMA ClearSolvable ==
  ASSUME NEW rs, NEW gone, NEW k \in Nat
  PROVE  \E g : ClearEquation(rs, gone, k, g)
<1> DEFINE T == {n \in Nat : \E g : ClearEquation(rs, gone, n, g)}
           E(g, i) == IF i = 0 THEN << >>
                      ELSE IF rs[i] \in gone THEN g[i-1] ELSE Append(g[i-1], rs[i])
<1>1. 0 \in T
  <2> DEFINE g == [i \in 0..0 |-> << >>]
  <2>1. g = [i \in 0..0 |-> E(g, i)]
    OBVIOUS
  <2>2. ClearEquation(rs, gone, 0, g)
    <3> HIDE DEF g
    <3>1. QED BY <2>1 DEF ClearEquation
  <2>3. QED BY <2>2
<1>2. ASSUME NEW n \in Nat, n \in T PROVE n + 1 \in T
  <2>1. PICK g : ClearEquation(rs, gone, n, g)
    BY <1>2
  <2> DEFINE h == [i \in 0..(n+1) |-> E(g, i)]
  <2>2. ASSUME NEW i \in 0..n PROVE h[i] = g[i]
    <3>1. i \in 0..(n+1)
      OBVIOUS
    <3>2. g[i] = E(g, i)
      BY <2>1 DEF ClearEquation
    <3> HIDE DEF E
    <3>3. QED BY <3>1, <3>2
  <2>3. ASSUME NEW i \in 0..(n+1) PROVE h[i] = E(h, i)
    <3>1. CASE i = 0
      BY <3>1
    <3>2. CASE i # 0
      <4>1. i - 1 \in 0..n
        BY <3>2
      <4>2. h[i-1] = g[i-1]
        BY <4>1, <2>2
      <4>3. h[i] = E(g, i)
        OBVIOUS
      <4> HIDE DEF h
      <4>4. QED BY <3>2, <4>2, <4>3
    <3>3. QED BY <3>1, <3>2
  <2>4. h = [i \in 0..(n+1) |-> E(h, i)]
    <3>1. h = [i \in 0..(n+1) |-> h[i]]
      OBVIOUS
    <3> HIDE DEF h, E
    <3>2. QED BY <3>1, <2>3
  <2>5. ClearEquation(rs, gone, n + 1, h)
    <3> HIDE DEF h
    <3>1. QED BY <2>4 DEF ClearEquation
  <2> HIDE DEF h
  <2>6. QED BY <2>5
<1> HIDE DEF T
<1>3. k \in T
  BY <1>1, <1>2, SetInduction
<1>4. QED BY <1>3 DEF T

\* Cleared runs such a function over all roots.
LEMMA ClearedIs ==
  ASSUME NEW rs, NEW gone, NEW n \in Nat, Len(rs) = n
  PROVE  \E g : ClearRuns(rs, gone, n, g) /\ Cleared(rs, gone) = g[n]
<1> DEFINE g == CHOOSE h : ClearEquation(rs, gone, n, h)
<1>1. ClearEquation(rs, gone, n, g)
  BY ClearSolvable
<1>2. Cleared(rs, gone) = g[n]
  BY DEF Cleared, ClearEquation
<1> HIDE DEF g
<1>3. ClearRuns(rs, gone, n, g)
  <2>1. ASSUME NEW i \in 0..n
        PROVE  g[i] = IF i = 0 THEN << >>
                      ELSE IF rs[i] \in gone THEN g[i-1] ELSE Append(g[i-1], rs[i])
    BY <1>1 DEF ClearEquation
  <2>2. g[0] = << >>
    BY <2>1
  <2>3. ASSUME NEW i \in 1..n
        PROVE  g[i] = IF rs[i] \in gone THEN g[i-1] ELSE Append(g[i-1], rs[i])
    BY <2>1
  <2>4. QED BY <2>2, <2>3 DEF ClearRuns
<1>4. QED BY <1>2, <1>3

\* No roots are left of none.
LEMMA ClearedEmpty == ASSUME NEW X PROVE Cleared(<< >>, X) = << >>
<1>1. PICK n \in Nat : n = 0 /\ Len(<< >>) = n
  OBVIOUS
<1>2. PICK g : ClearRuns(<< >>, X, n, g) /\ Cleared(<< >>, X) = g[n]
  BY <1>1, ClearedIs
<1>3. QED BY <1>1, <1>2 DEF ClearRuns

\* Two runs agree on a common beginning.
LEMMA ClearAgree ==
  ASSUME NEW s, NEW t, NEW X, NEW n \in Nat, NEW m \in Nat, n <= m,
         \A i \in 1..n : s[i] = t[i],
         NEW g, NEW h, ClearRuns(s, X, n, g), ClearRuns(t, X, m, h)
  PROVE  \A i \in 0..n : g[i] = h[i]
<1> DEFINE T == {i \in Nat : i \in 0..n => g[i] = h[i]}
<1>1. 0 \in T
  BY DEF ClearRuns
<1>2. ASSUME NEW i \in Nat, i \in T PROVE i + 1 \in T
  <2>1. SUFFICES ASSUME i + 1 \in 0..n PROVE g[i+1] = h[i+1]
    OBVIOUS
  <2>2. i \in 0..n /\ i + 1 \in 1..n /\ i + 1 \in 1..m /\ (i + 1) - 1 = i
    BY <2>1
  <2>3. g[i+1] = IF s[i+1] \in X THEN g[(i+1)-1] ELSE Append(g[(i+1)-1], s[i+1])
    BY <2>2 DEF ClearRuns
  <2>4. h[i+1] = IF t[i+1] \in X THEN h[(i+1)-1] ELSE Append(h[(i+1)-1], t[i+1])
    BY <2>2 DEF ClearRuns
  <2>5. g[i] = h[i] /\ s[i+1] = t[i+1]
    BY <1>2, <2>2
  <2>6. QED BY <2>2, <2>3, <2>4, <2>5
<1> HIDE DEF T
<1>3. Nat \subseteq T
  BY <1>1, <1>2, SetInduction
<1>4. QED BY <1>3 DEF T

\* Clearing goes root by root.
LEMMA ClearedAppend ==
  ASSUME NEW S, NEW s \in Seq(S), NEW e \in S, NEW X
  PROVE  Cleared(Append(s, e), X) = IF e \in X THEN Cleared(s, X) ELSE Append(Cleared(s, X), e)
<1> DEFINE t == Append(s, e)
<1>1. PICK n \in Nat, m \in Nat : n = Len(s) /\ Len(t) = m /\ m = n + 1
  OBVIOUS
<1>2. t[m] = e /\ \A i \in 1..n : s[i] = t[i]
  BY <1>1
<1> HIDE DEF t
<1>3. PICK g : ClearRuns(s, X, n, g) /\ Cleared(s, X) = g[n]
  BY <1>1, ClearedIs
<1>4. PICK h : ClearRuns(t, X, m, h) /\ Cleared(t, X) = h[m]
  BY <1>1, ClearedIs
<1>5. n <= m /\ n \in 0..n /\ m \in 1..m /\ m - 1 = n
  BY <1>1
<1>6. \A i \in 0..n : g[i] = h[i]
  BY <1>2, <1>3, <1>4, <1>5, ClearAgree
<1>7. g[n] = h[n]
  BY <1>5, <1>6
<1>8. h[m] = IF t[m] \in X THEN h[n] ELSE Append(h[n], t[m])
  BY <1>4, <1>5 DEF ClearRuns
<1>9. QED BY <1>2, <1>3, <1>4, <1>7, <1>8 DEF t

\* What is left are the roots not cleared,
LEMMA ClearedType ==
  ASSUME NEW S, NEW s \in Seq(S), NEW X
  PROVE  Cleared(s, X) \in Seq(S) /\ Range(Cleared(s, X)) = Range(s) \ X
<1> DEFINE T == {r \in Seq(S) : Cleared(r, X) \in Seq(S) /\ Range(Cleared(r, X)) = Range(r) \ X}
<1>1. << >> \in T
  <2>1. << >> \in Seq(S) /\ Cleared(<< >>, X) = << >>
    BY ClearedEmpty
  <2>2. Range(<< >>) = {}
    BY RangeEmpty
  <2>3. Range(<< >>) = Range(<< >>) \ X
    BY <2>2
  <2>4. QED BY <2>1, <2>3
<1>2. ASSUME NEW r \in Seq(S), NEW e \in S, r \in T PROVE Append(r, e) \in T
  <2>1. Append(r, e) \in Seq(S) /\ Range(Append(r, e)) = Range(r) \cup {e}
    BY RangeAppend
  <2>2. CASE e \in X
    <3>1. Cleared(Append(r, e), X) = Cleared(r, X)
      BY <2>2, ClearedAppend
    <3>2. QED BY <1>2, <2>1, <2>2, <3>1
  <2>3. CASE e \notin X
    <3>1. Cleared(Append(r, e), X) = Append(Cleared(r, X), e)
      BY <2>3, ClearedAppend
    <3>2. Cleared(r, X) \in Seq(S) /\ Range(Cleared(r, X)) = Range(r) \ X
      BY <1>2
    <3>3. /\ Append(Cleared(r, X), e) \in Seq(S)
          /\ Range(Append(Cleared(r, X), e)) = Range(Cleared(r, X)) \cup {e}
      BY <3>2, RangeAppend
    <3>4. QED BY <2>1, <2>3, <3>1, <3>2, <3>3
  <2>4. QED BY <2>2, <2>3
<1> HIDE DEF T
<1>3. Seq(S) \subseteq T
  BY <1>1, <1>2, SeqInduction
<1>4. QED BY <1>3 DEF T

\* and those of a concatenation are those of its parts.
LEMMA ClearedConcat ==
  ASSUME NEW S, NEW a \in Seq(S), NEW b \in Seq(S), NEW X
  PROVE  Cleared(Cat(a, b), X) = Cat(Cleared(a, X), Cleared(b, X))
<1> DEFINE T == {r \in Seq(S) : Cleared(Cat(a, r), X) = Cat(Cleared(a, X), Cleared(r, X))}
<1>a. Cleared(a, X) \in Seq(S)
  BY ClearedType
<1>1. << >> \in T
  <2>1. << >> \in Seq(S) /\ Cat(a, << >>) = a /\ Cat(Cleared(a, X), << >>) = Cleared(a, X)
    BY <1>a, CatEmpty
  <2>2. QED BY <2>1, ClearedEmpty
<1>2. ASSUME NEW r \in Seq(S), NEW e \in S, r \in T PROVE Append(r, e) \in T
  <2>1. /\ Cat(a, r) \in Seq(S) /\ Cat(a, Append(r, e)) = Append(Cat(a, r), e)
        /\ Append(r, e) \in Seq(S)
    BY CatType, CatAppend
  <2>2. Cleared(r, X) \in Seq(S)
    BY ClearedType
  <2>3. Cleared(Append(Cat(a, r), e), X) =
          IF e \in X THEN Cleared(Cat(a, r), X) ELSE Append(Cleared(Cat(a, r), X), e)
    BY <2>1, ClearedAppend
  <2>4. Cleared(Append(r, e), X) = IF e \in X THEN Cleared(r, X) ELSE Append(Cleared(r, X), e)
    BY ClearedAppend
  <2>5. Append(Cat(Cleared(a, X), Cleared(r, X)), e) = Cat(Cleared(a, X), Append(Cleared(r, X), e))
    BY <1>a, <2>2, CatAppend
  <2>6. Cleared(Cat(a, r), X) = Cat(Cleared(a, X), Cleared(r, X))
    BY <1>2
  <2>7. QED BY <2>1, <2>3, <2>4, <2>5, <2>6
<1> HIDE DEF T
<1>3. Seq(S) \subseteq T
  BY <1>1, <1>2, SeqInduction
<1>4. QED BY <1>3 DEF T

\* Two sets that clear the same of the roots leave the same.
LEMMA ClearedSame ==
  ASSUME NEW S, NEW s \in Seq(S), NEW X, NEW Y, \A e \in Range(s) : e \in X <=> e \in Y
  PROVE  Cleared(s, X) = Cleared(s, Y)
<1> DEFINE T == {r \in Seq(S) : (\A e \in Range(r) : e \in X <=> e \in Y) =>
                                   Cleared(r, X) = Cleared(r, Y)}
<1>1. << >> \in T
  BY ClearedEmpty
<1>2. ASSUME NEW r \in Seq(S), NEW e \in S, r \in T PROVE Append(r, e) \in T
  <2>1. SUFFICES ASSUME \A f \in Range(Append(r, e)) : f \in X <=> f \in Y
                 PROVE  Cleared(Append(r, e), X) = Cleared(Append(r, e), Y)
    OBVIOUS
  <2>2. Range(Append(r, e)) = Range(r) \cup {e}
    BY RangeAppend
  <2>3. Cleared(r, X) = Cleared(r, Y) /\ (e \in X <=> e \in Y)
    BY <1>2, <2>1, <2>2
  <2>4. /\ Cleared(Append(r, e), X) = IF e \in X THEN Cleared(r, X) ELSE Append(Cleared(r, X), e)
        /\ Cleared(Append(r, e), Y) = IF e \in Y THEN Cleared(r, Y) ELSE Append(Cleared(r, Y), e)
    BY ClearedAppend
  <2>5. QED BY <2>3, <2>4
<1> HIDE DEF T
<1>3. Seq(S) \subseteq T
  BY <1>1, <1>2, SeqInduction
<1>4. QED BY <1>3 DEF T

\* Clearing nothing,
LEMMA ClearedNothing ==
  ASSUME NEW S, NEW s \in Seq(S)
  PROVE  Cleared(s, {}) = s
<1> DEFINE T == {r \in Seq(S) : Cleared(r, {}) = r}
<1>1. << >> \in T
  BY ClearedEmpty
<1>2. ASSUME NEW r \in Seq(S), NEW e \in S, r \in T PROVE Append(r, e) \in T
  <2>1. Cleared(Append(r, e), {}) = Append(Cleared(r, {}), e)
    BY ClearedAppend
  <2>2. QED BY <1>2, <2>1
<1> HIDE DEF T
<1>3. Seq(S) \subseteq T
  BY <1>1, <1>2, SeqInduction
<1>4. QED BY <1>3 DEF T

\* nothing that is there,
LEMMA ClearedNone ==
  ASSUME NEW S, NEW s \in Seq(S), NEW X, X \cap Range(s) = {}
  PROVE  Cleared(s, X) = s
<1>1. \A e \in Range(s) : e \in X <=> e \in {}
  OBVIOUS
<1>2. Cleared(s, X) = Cleared(s, {})
  BY <1>1, ClearedSame
<1>3. QED BY <1>2, ClearedNothing

\* and everything.
LEMMA ClearedAll ==
  ASSUME NEW S, NEW s \in Seq(S), NEW X, Range(s) \subseteq X
  PROVE  Cleared(s, X) = << >>
<1> DEFINE t == Cleared(s, X)
<1>1. t \in Seq(S) /\ Range(t) = {}
  BY ClearedType
<1>2. ASSUME NEW i \in DOMAIN t PROVE FALSE
  BY <1>1 DEF Range
<1> HIDE DEF t
<1>3. Len(t) = 0
  <2>1. PICK n \in Nat : n = Len(t) /\ DOMAIN t = 1..n
    BY <1>1
  <2>2. \A i \in 1..n : FALSE
    BY <1>2, <2>1
  <2>3. QED BY <2>1, <2>2
<1>4. t = << >>
  BY <1>1, <1>3
<1>5. QED BY <1>4 DEF t

\* Clearing the roots X of those G left is clearing both.
LEMMA ClearedTwice ==
  ASSUME NEW S, NEW s \in Seq(S), NEW G, NEW X, NEW C, C = G \cup X
  PROVE  Cleared(Cleared(s, G), X) = Cleared(s, C)
<1> DEFINE T == {r \in Seq(S) : Cleared(Cleared(r, G), X) = Cleared(r, C)}
<1>1. << >> \in T
  <2>1. Cleared(<< >>, G) = << >> /\ Cleared(<< >>, X) = << >> /\ Cleared(<< >>, C) = << >>
    BY ClearedEmpty
  <2>2. QED BY <2>1
<1>2. ASSUME NEW r \in Seq(S), NEW e \in S, r \in T PROVE Append(r, e) \in T
  <2> DEFINE q == Cleared(r, G)
  <2>1. q \in Seq(S)
    BY ClearedType
  <2>2. Cleared(Append(r, e), G) = IF e \in G THEN q ELSE Append(q, e)
    BY ClearedAppend
  <2>3. Cleared(Append(q, e), X) = IF e \in X THEN Cleared(q, X) ELSE Append(Cleared(q, X), e)
    BY <2>1, ClearedAppend
  <2>4. Cleared(Append(r, e), C) = IF e \in C THEN Cleared(r, C) ELSE Append(Cleared(r, C), e)
    BY ClearedAppend
  <2>5. Cleared(q, X) = Cleared(r, C) /\ (e \in C <=> e \in G \/ e \in X)
    BY <1>2
  <2>6. Append(r, e) \in Seq(S)
    OBVIOUS
  <2>7. Cleared(Cleared(Append(r, e), G), X) = Cleared(Append(r, e), C)
    <3> HIDE DEF q
    <3>1. CASE e \in G
      BY <2>2, <2>4, <2>5, <3>1
    <3>2. CASE e \notin G
      <4>1. Cleared(Append(r, e), G) = Append(q, e)
        BY <2>2, <3>2
      <4>2. QED BY <4>1, <2>3, <2>4, <2>5, <3>2
    <3>3. QED BY <3>1, <3>2
  <2>8. QED BY <2>6, <2>7
<1> HIDE DEF T
<1>3. Seq(S) \subseteq T
  BY <1>1, <1>2, SeqInduction
<1>4. QED BY <1>3 DEF T

-----------------------------------------------------------------------------
(* Lists of slots, one per frame, and the roots they stand for. *)

Slot == 1..MaxRoots
Lists == Seq(Seq(Slot))

\* Every list of frames but the empty one is its innermost frame after the
\* others.
LEMMA ListsSplit ==
  ASSUME NEW f \in Lists, f # << >>
  PROVE  /\ Front(f) \in Lists /\ Last(f) \in Seq(Slot)
         /\ f = Append(Front(f), Last(f))
<1> DEFINE T == Seq(Slot)
<1>1. f \in Seq(T)
  BY DEF Lists
<1> HIDE DEF T
<1>2. PICK n \in Nat : n = Len(f) /\ n > 0
  BY <1>1
<1>3. /\ Front(f) \in Seq(T) /\ Last(f) \in T
      /\ f = Append(Front(f), Last(f))
  BY <1>1, <1>2 DEF Front, Last
<1>4. QED BY <1>3 DEF Lists, T

\* A frame opened on top is the innermost one.
LEMMA ListsPush ==
  ASSUME NEW f \in Lists, NEW s \in Seq(Slot)
  PROVE  /\ Append(f, s) \in Lists /\ Append(f, s) # << >>
         /\ Front(Append(f, s)) = f /\ Last(Append(f, s)) = s
         /\ FlattenSeq(Append(f, s)) = Cat(FlattenSeq(f), s)
<1> DEFINE T == Seq(Slot)
<1>1. f \in Seq(T) /\ s \in T
  BY DEF Lists
<1>2. FlattenSeq(Append(f, s)) = Cat(FlattenSeq(f), s)
  BY <1>1, FlattenAppend DEF Cat
<1> HIDE DEF T
<1>3. PICK n \in Nat : n = Len(f)
  BY <1>1
<1>4. Append(f, s) \in Seq(T) /\ Len(Append(f, s)) = n + 1 /\ Append(f, s)[n + 1] = s
  BY <1>1, <1>3
<1>5. Append(f, s) # << >>
  <2>1. Len(<< >>) = 0 /\ n + 1 # 0
    OBVIOUS
  <2>2. QED BY <1>4, <2>1
<1>6. Last(Append(f, s)) = s
  BY <1>4 DEF Last
<1>7. Front(Append(f, s)) = f
  BY <1>1, <1>3, <1>4 DEF Front
<1>8. QED BY <1>2, <1>4, <1>5, <1>6, <1>7 DEF Lists, T

\* Changing the innermost frame.
LEMMA ListsChange ==
  ASSUME NEW f \in Lists, NEW s \in Seq(Slot), NEW t \in Seq(Slot), NEW g, g = Append(f, s)
  PROVE  [g EXCEPT ![Len(g)] = t] = Append(f, t)
<1> DEFINE T == Seq(Slot)
<1>1. f \in Seq(T) /\ s \in T /\ t \in T
  BY DEF Lists
<1> HIDE DEF T
<1>2. PICK n \in Nat : n = Len(f)
  BY <1>1
<1>3. g \in Seq(T) /\ Len(g) = n + 1
  BY <1>1, <1>2
<1>4. [g EXCEPT ![n + 1] = t] = Append(f, t)
  <2> DEFINE h == [g EXCEPT ![n + 1] = t]
             k == Append(f, t)
  <2>1. h \in Seq(T) /\ Len(h) = n + 1 /\ h[n + 1] = t /\ \A i \in 1..n : h[i] = g[i]
    <3>1. n + 1 \in 1..Len(g) /\ 1..Len(g) = 1..(n + 1) /\ \A i \in 1..n : i \in 1..(n + 1) /\ i # n + 1
      BY <1>3
    <3>2. h \in Seq(T) /\ Len(h) = Len(g)
      BY <1>1, <1>3, <3>1, ExceptSeq
    <3>3. \A j \in 1..Len(g) : h[j] = IF j = n + 1 THEN t ELSE g[j]
      <4>1. DOMAIN g = 1..Len(g)
        BY <1>3
      <4>2. QED BY <4>1
    <3> HIDE DEF h
    <3>4. QED BY <1>3, <3>1, <3>2, <3>3
  <2>2. k \in Seq(T) /\ Len(k) = n + 1 /\ k[n + 1] = t /\ \A i \in 1..n : k[i] = f[i]
    BY <1>1, <1>2
  <2>3. \A i \in 1..n : g[i] = f[i]
    BY <1>1, <1>2
  <2> HIDE DEF h, k
  <2>4. \A i \in 1..(n + 1) : h[i] = k[i]
    <3>1. \A i \in 1..(n + 1) : i \in 1..n \/ i = n + 1
      OBVIOUS
    <3>2. QED BY <2>1, <2>2, <2>3, <3>1
  <2>5. h = k
    BY <2>1, <2>2, <2>4, SeqEqual
  <2>6. QED BY <2>5 DEF h, k
<1>5. QED BY <1>3, <1>4

\* The sites of all frames are one list of sites.
LEMMA FlatType ==
  ASSUME NEW f \in Lists
  PROVE  FlattenSeq(f) \in Seq(Slot)
BY FlattenType DEF Lists

\* The run-time roots rs are the caller's and those of the sites F, without
\* those in G, which the execution has passed by; none of F where the modes
\* forbid that.
At(rs, F, G, strict) ==
  /\ rs = Cat(<<0>>, Cleared(F, G))
  /\ strict => G \cap Range(F) = {}

\* The sites of frames are naturals, never the caller's root.
LEMMA SlotsRaised ==
  ASSUME NEW F \in Seq(Slot)
  PROVE  /\ F \in Seq(0..MaxRoots) /\ Range(F) \subseteq Slot
         /\ 0 \notin Range(F)
<1>1. Slot \subseteq 0..MaxRoots /\ 0 \notin Slot
  BY DEF Slot
<1>2. F \in Seq(0..MaxRoots)
  BY <1>1, SeqMonotonic
<1>3. Range(F) \subseteq Slot
  BY RangeType
<1>4. QED BY <1>1, <1>2, <1>3

\* What At says in terms of elements.
LEMMA AtType ==
  ASSUME NEW F \in Seq(Slot), NEW G, NEW strict, NEW rs, At(rs, F, G, strict)
  PROVE  /\ rs \in Seq(0..MaxRoots)
         /\ Range(rs) = {0} \cup (Range(F) \ G)
         /\ strict => rs = Cat(<<0>>, F)
<1> DEFINE T == 0..MaxRoots
<1>1. F \in Seq(T) /\ 0 \in T
  BY SlotsRaised, BoundsAssumption
<1>2. PICK q \in Seq(T) : q = Cleared(F, G) /\ Range(q) = Range(F) \ G
  <2> HIDE DEF T
  <2>1. Cleared(F, G) \in Seq(T) /\ Range(Cleared(F, G)) = Range(F) \ G
    BY <1>1, ClearedType
  <2>2. QED BY <2>1
<1> HIDE DEF T
<1>3. Cat(<<0>>, q) \in Seq(T) /\ Range(Cat(<<0>>, q)) = {0} \cup Range(q)
  BY <1>1, RangePrepend DEF Cat
<1>4. rs = Cat(<<0>>, q)
  BY <1>2 DEF At
<1>5. ASSUME strict PROVE rs = Cat(<<0>>, F)
  <2>1. G \cap Range(F) = {}
    BY <1>5 DEF At
  <2>2. q = F
    BY <1>1, <1>2, <2>1, ClearedNone
  <2>3. QED BY <1>4, <2>2
<1>6. QED BY <1>2, <1>3, <1>4, <1>5 DEF T

\* A site the execution has passed by is one more in G.
LEMMA AtSkipped ==
  ASSUME NEW F \in Seq(Slot), NEW G, NEW s, NEW strict, NEW rs,
         At(rs, F, G, strict), s \notin Range(F)
  PROVE  At(rs, F, G \cup {s}, strict)
<1>1. \A e \in Range(F) : e \in G <=> e \in G \cup {s}
  OBVIOUS
<1>2. Cleared(F, G) = Cleared(F, G \cup {s})
  BY <1>1, ClearedSame
<1>3. strict => (G \cup {s}) \cap Range(F) = {}
  BY DEF At
<1>4. QED BY <1>2, <1>3 DEF At

\* A registration that is run.
LEMMA AtPushed ==
  ASSUME NEW F \in Seq(Slot), NEW G, NEW s \in Slot, NEW strict, NEW rs,
         At(rs, F, G, strict), s \notin G
  PROVE  At(Append(rs, s), Append(F, s), G, strict)
<1> DEFINE T == 0..MaxRoots
<1>1. F \in Seq(T) /\ s \in T /\ 0 \in T
  BY SlotsRaised, BoundsAssumption DEF Slot
<1> HIDE DEF T
<1>2. Cleared(F, G) \in Seq(T)
  BY <1>1, ClearedType
<1>3. Cleared(Append(F, s), G) = Append(Cleared(F, G), s)
  BY <1>1, ClearedAppend
<1>4. PICK q \in Seq(T) : q = Cleared(F, G)
  BY <1>2
<1>5. Append(Cat(<<0>>, q), s) = Cat(<<0>>, Append(q, s))
  <2>1. <<0>> \in Seq(T)
    BY <1>1
  <2> DEFINE z == <<0>>
  <2>2. z \in Seq(T)
    BY <2>1
  <2> HIDE DEF z
  <2>3. Append(Cat(z, q), s) = Cat(z, Append(q, s))
    BY <1>1, <2>2, CatAppend
  <2>4. QED BY <2>3 DEF z
<1>6. Range(Append(F, s)) = Range(F) \cup {s}
  BY <1>1, RangeAppend
<1>7. strict => G \cap Range(Append(F, s)) = {}
  BY <1>6 DEF At
<1>8. QED BY <1>3, <1>4, <1>5, <1>7 DEF At

\* Clearing the newest sites of F,
LEMMA AtCleared ==
  ASSUME NEW a \in Seq(Slot), NEW b \in Seq(Slot), NEW G, NEW strict, NEW rs,
         At(rs, Cat(a, b), G, strict), Range(a) \cap Range(b) = {}
  PROVE  At(Cleared(rs, Range(b)), a, G, strict)
<1> DEFINE T == 0..MaxRoots
           X == Range(b)
           C == G \cup X
           F == Cat(a, b)
           z == <<0>>
           q == Cleared(F, G)
<1>1. a \in Seq(T) /\ b \in Seq(T) /\ 0 \in T /\ 0 \notin X /\ z \in Seq(T)
  BY SlotsRaised, BoundsAssumption
<1>2. C = G \cup X /\ X = Range(b) /\ q = Cleared(F, G) /\ rs = Cat(z, q)
  BY DEF At
<1>3. F \in Seq(T) /\ Range(F) = Range(a) \cup X /\ Range(z) = {0}
  <2> HIDE DEF T
  <2>1. F \in Seq(T) /\ Range(F) = Range(a) \cup X
    BY <1>1, CatType
  <2>2. Range(z) = {0}
    BY DEF Range
  <2>3. QED BY <2>1, <2>2
<1>4. strict => G \cap Range(a) = {}
  BY <1>3 DEF At
<1>5. F = Cat(a, b)
  OBVIOUS
<1>0. z = <<0>>
  OBVIOUS
<1> HIDE DEF T, X, C, F, z, q
<1>6. q \in Seq(T)
  BY <1>2, <1>3, ClearedType
<1>7. Cleared(rs, X) = Cat(Cleared(z, X), Cleared(q, X))
  BY <1>1, <1>2, <1>6, ClearedConcat
<1>8. Cleared(z, X) = z
  BY <1>1, <1>3, ClearedNone
<1>9. Cleared(q, X) = Cleared(F, C)
  BY <1>2, <1>3, ClearedTwice
<1>10. Cleared(F, C) = Cat(Cleared(a, C), Cleared(b, C))
  BY <1>1, <1>5, ClearedConcat
<1>11. Cleared(b, C) = << >>
  <2>1. Range(b) \subseteq C
    BY <1>2
  <2>2. QED BY <1>1, <2>1, ClearedAll
<1>12. Cleared(a, C) = Cleared(a, G)
  <2>1. \A e \in Range(a) : e \in C <=> e \in G
    BY <1>2
  <2>2. QED BY <1>1, <2>1, ClearedSame
<1>13. Cat(Cleared(a, G), << >>) = Cleared(a, G)
  <2>1. Cleared(a, G) \in Seq(T)
    BY <1>1, ClearedType
  <2>2. QED BY <2>1, CatEmpty
<1>14. Cleared(rs, X) = Cat(z, Cleared(a, G))
  BY <1>7, <1>8, <1>9, <1>10, <1>11, <1>12, <1>13
<1>15. QED BY <1>0, <1>2, <1>4, <1>14 DEF At

\* or dropping as many roots as those are.
LEMMA AtDropped ==
  ASSUME NEW a \in Seq(Slot), NEW b \in Seq(Slot), NEW G, NEW rs,
         At(rs, Cat(a, b), G, TRUE)
  PROVE  At(Drop(rs, Len(b)), a, G, TRUE)
<1> DEFINE T == 0..MaxRoots
<1>1. a \in Seq(T) /\ b \in Seq(T) /\ <<0>> \in Seq(T)
  BY SlotsRaised, BoundsAssumption
<1>2. rs = Cat(<<0>>, Cat(a, b))
  <2>1. Cat(a, b) \in Seq(Slot)
    BY CatType
  <2>2. QED BY <2>1, AtType
<1> HIDE DEF T
<1>3. Cat(<<0>>, a) \in Seq(T) /\ rs = Cat(Cat(<<0>>, a), b)
  <2> DEFINE z == <<0>>
  <2>1. z \in Seq(T) /\ rs = Cat(z, Cat(a, b))
    BY <1>1, <1>2
  <2> HIDE DEF z
  <2>2. Cat(z, a) \in Seq(T)
    BY <1>1, <2>1, CatType
  <2>3. Cat(Cat(z, a), b) = Cat(z, Cat(a, b))
    BY <1>1, <2>1, CatAssociative
  <2>4. QED BY <2>1, <2>2, <2>3 DEF z
<1>4. Drop(rs, Len(b)) = Cat(<<0>>, a)
  BY <1>1, <1>3, CatFirst DEF Drop
<1>5. G \cap Range(a) = {}
  <2>1. Range(Cat(a, b)) = Range(a) \cup Range(b)
    BY CatType
  <2>2. QED BY <2>1 DEF At
<1>6. Cleared(a, G) = a
  BY <1>1, <1>5, ClearedNone
<1>7. QED BY <1>4, <1>5, <1>6 DEF At

-----------------------------------------------------------------------------
(* The constructs being generated, each over the frames it was opened on.  *)
(* H[k] is the list of frames as it was when construct k was opened, and   *)
(* the one after the last is the list now: what the code restores from its *)
(* snapshots.  G is the set of sites the execution has passed by.          *)

ConstructType ==
  [kind : Kinds, before : 0..MaxRoots, entered : BOOLEAN, taken : BOOLEAN,
   merged : BOOLEAN, diverged : BOOLEAN, arms : Nat, depth : Seq(0..MaxRoots)]

Framed(c) == c.kind \in {"block", "arm"}     \* has a frame of its own
Looping(c) == c.kind \in {"unit", "loop"}    \* its body's end counts nothing back
Entered(c) == c.kind # "block" /\ c.entered  \* a block keeps no snapshot

\* The execution waits for a later part of c, or for what follows it.
Owed(c) ==
  \/ c.merged
  \/ c.entered /\ ~c.taken /\ c.kind \in {"then", "unit", "loop", "arm"}

\* Only the arms of a branch are left for its merge block.
Sound(c) ==
  /\ c \in ConstructType
  /\ c.merged => c.entered /\ c.kind \in {"else", "elseif", "arm"} /\ (c.kind = "arm" => c.taken)

FrameOK(f, sn) ==
  /\ f \in Lists /\ f # << >>
  /\ IsInjective(FlattenSeq(f)) /\ Range(FlattenSeq(f)) \subseteq 1..sn

\* The frames are g inside construct c, opened on f: own is what it added.
Over(c, f, g, own) ==
  IF Framed(c) THEN g = Append(f, own)
  ELSE c.before = Len(Last(f)) /\ g = Append(Front(f), Cat(Last(f), own))

Level(c, f, g, G, strict) ==
  /\ Sound(c)
  /\ \E own \in Seq(Slot) : Over(c, f, g, own)
  /\ Entered(c) => At(c.depth, FlattenSeq(f), G, strict)
  /\ Looping(c) => /\ c.kind = "loop" \/ strict => g = f
                   /\ Owed(c) => Range(FlattenSeq(g)) \ Range(FlattenSeq(f)) \subseteq G

Stack(ns, H, G, sn, strict) ==
  /\ ns \in Seq(ConstructType) /\ sn \in 0..MaxRoots /\ G \subseteq 1..sn
  /\ \A k \in 1..(Len(ns) + 1) : FrameOK(H[k], sn)
  /\ \A k \in 1..Len(ns) : Level(ns[k], H[k], H[k + 1], G, strict)
  /\ \A k \in 1..(Len(ns) - 1) : Looping(ns[k]) => H[k + 1] = H[k] /\ ns[k + 1].kind = "block"

\* What a construct added comes after what was there.
LEMMA OverFlat ==
  ASSUME NEW c, NEW f \in Lists, NEW g, NEW own \in Seq(Slot), f # << >>, Over(c, f, g, own)
  PROVE  /\ g \in Lists /\ g # << >>
         /\ FlattenSeq(g) = Cat(FlattenSeq(f), own)
<1>1. CASE Framed(c)
  <2>1. g = Append(f, own)
    BY <1>1 DEF Over
  <2>2. QED BY <2>1, ListsPush
<1>2. CASE ~Framed(c)
  <2>1. PICK b \in Lists, x \in Seq(Slot) : b = Front(f) /\ x = Last(f) /\ f = Append(b, x)
    BY ListsSplit
  <2>2. g = Append(b, Cat(x, own)) /\ Cat(x, own) \in Seq(Slot)
    BY <1>2, <2>1, CatType DEF Over
  <2>3. /\ g \in Lists /\ g # << >>
        /\ FlattenSeq(g) = Cat(FlattenSeq(b), Cat(x, own))
    BY <2>2, ListsPush
  <2>4. FlattenSeq(f) = Cat(FlattenSeq(b), x)
    BY <2>1, ListsPush
  <2>5. Cat(Cat(FlattenSeq(b), x), own) = Cat(FlattenSeq(b), Cat(x, own))
    BY FlatType, CatAssociative
  <2>6. QED BY <2>3, <2>4, <2>5
<1>3. QED BY <1>1, <1>2

\* The newest slots of the innermost frame are those the construct added, and
\* without them the frames are as it found them: an own frame is popped,
LEMMA OverPopped ==
  ASSUME NEW c, NEW f \in Lists, NEW g, NEW own \in Seq(Slot), Framed(c), Over(c, f, g, own)
  PROVE  Front(g) = f /\ Last(g) = own /\ Newest(Last(g), Len(Last(g))) = own
<1>1. g = Append(f, own)
  BY DEF Over
<1>2. Front(g) = f /\ Last(g) = own
  BY <1>1, ListsPush
<1>3. Newest(own, Len(own)) = own
  <2>1. PICK n \in Nat : n = Len(own)
    OBVIOUS
  <2>2. (n + 1) - n = 1 /\ SubSeq(own, 1, n) = own
    BY <2>1
  <2>3. QED BY <2>1, <2>2 DEF Newest
<1>4. QED BY <1>2, <1>3

\* and a shared one is cut to the length it had.
LEMMA OverTruncated ==
  ASSUME NEW c, NEW f \in Lists, NEW g, NEW own \in Seq(Slot), f # << >>,
         ~Framed(c), Over(c, f, g, own)
  PROVE  /\ [g EXCEPT ![Len(g)] = SubSeq(g[Len(g)], 1, c.before)] = f
         /\ Len(Last(g)) - c.before = Len(own)
         /\ Newest(Last(g), Len(Last(g)) - c.before) = own
<1>1. PICK b \in Lists, x \in Seq(Slot) : b = Front(f) /\ x = Last(f) /\ f = Append(b, x)
  BY ListsSplit
<1>2. g = Append(b, Cat(x, own)) /\ c.before = Len(x)
  BY <1>1 DEF Over
<1>3. PICK y \in Seq(Slot) : y = Cat(x, own) /\ Len(y) = Len(x) + Len(own)
  BY CatType
<1>4. Last(g) = y /\ g[Len(g)] = y
  <2>1. Last(g) = y
    BY <1>2, <1>3, ListsPush
  <2>2. QED BY <2>1 DEF Last
<1>5. PICK m \in Nat, n \in Nat : m = Len(x) /\ n = Len(own)
  OBVIOUS
<1>6. Len(y) - m = n /\ Len(y) - n = m
  BY <1>3, <1>5
<1>7. SubSeq(y, 1, m) = x
  <2>1. SubSeq(Cat(x, own), 1, Len(Cat(x, own)) - Len(own)) = x
    BY CatFirst
  <2>2. QED BY <1>3, <1>5, <1>6, <2>1
<1>8. Newest(y, n) = own
  <2>1. SubSeq(Cat(x, own), Len(Cat(x, own)) + 1 - Len(own), Len(Cat(x, own))) = own
    BY CatSecond
  <2>2. QED BY <1>3, <1>5, <2>1 DEF Newest
<1>9. [g EXCEPT ![Len(g)] = x] = f
  <2>1. g = Append(b, y)
    BY <1>2, <1>3
  <2>2. [g EXCEPT ![Len(g)] = x] = Append(b, x)
    BY <2>1, ListsChange
  <2>3. QED BY <1>1, <2>2
<1>10. QED BY <1>2, <1>4, <1>5, <1>6, <1>7, <1>8, <1>9

\* Frames f with a site registered in the innermost one.
Registering(f, s) == [f EXCEPT ![Len(f)] = Append(f[Len(f)], s)]

\* A registration adds a new site to the innermost frame.
LEMMA FrameRegisters ==
  ASSUME NEW f, NEW g, NEW sn \in Nat, NEW s \in Slot, s = sn + 1, FrameOK(f, sn),
         g = Registering(f, s)
  PROVE  /\ FrameOK(g, s)
         /\ g = Append(Front(f), Append(Last(f), s))
         /\ s \notin Range(FlattenSeq(f))
         /\ FlattenSeq(g) = Append(FlattenSeq(f), s)
         /\ Range(FlattenSeq(g)) = Range(FlattenSeq(f)) \cup {s}
<1>1. PICK b \in Lists, x \in Seq(Slot) : b = Front(f) /\ x = Last(f) /\ f = Append(b, x)
  BY ListsSplit DEF FrameOK
<1>2. PICK y \in Seq(Slot) : y = Append(x, s)
  BY RangeAppend
<1>3. f[Len(f)] = x
  BY <1>1 DEF Last
<1>4. g = Append(b, y)
  <2>1. f = Append(b, x)
    BY <1>1
  <2>2. [f EXCEPT ![Len(f)] = y] = Append(b, y)
    BY <2>1, ListsChange
  <2>3. QED BY <1>2, <1>3, <2>2 DEF Registering
<1>5. g \in Lists /\ g # << >> /\ FlattenSeq(g) = Cat(FlattenSeq(b), y)
  BY <1>4, ListsPush
<1>6. PICK F \in Seq(Slot), B \in Seq(Slot) : F = FlattenSeq(f) /\ B = FlattenSeq(b)
  BY <1>1, FlatType DEF FrameOK
<1>7. F = Cat(B, x)
  BY <1>1, <1>6, ListsPush
<1>8. FlattenSeq(g) = Append(F, s)
  <2>a. \A e \in Slot : Append(Cat(B, x), e) = Cat(B, Append(x, e))
    BY CatAppend
  <2>1. Append(Cat(B, x), s) = Cat(B, Append(x, s))
    BY <2>a, Zenon
  <2>2. QED BY <1>2, <1>5, <1>6, <1>7, <2>1
<1>9. s \notin Range(F) /\ IsInjective(F) /\ Range(F) \subseteq 1..sn
  BY <1>6 DEF FrameOK
<1>10. IsInjective(Append(F, s)) /\ Range(Append(F, s)) = Range(F) \cup {s}
  BY <1>9, InjectiveAppend, RangeAppend
<1>11. Range(F) \cup {s} \subseteq 1..s
  BY <1>9
<1>12. FrameOK(g, s)
  <2>1. IsInjective(FlattenSeq(g)) /\ Range(FlattenSeq(g)) \subseteq 1..s
    BY <1>8, <1>10, <1>11
  <2>2. QED BY <1>5, <2>1 DEF FrameOK
<1>13. g = Append(Front(f), Append(Last(f), s))
  BY <1>1, <1>2, <1>4
<1>14. QED BY <1>6, <1>8, <1>9, <1>10, <1>12, <1>13

-----------------------------------------------------------------------------
(* The steps the actions are made of: a construct is closed, another one   *)
(* opened, a site registered in the innermost frame.                       *)

\* A sequence without its last element.
LEMMA FrontIs ==
  ASSUME NEW S, NEW ns \in Seq(S), ns # << >>, NEW n, n = Len(ns)
  PROVE  /\ n \in Nat \ {0} /\ Front(ns) \in Seq(S) /\ Len(Front(ns)) = n - 1
         /\ \A k \in 1..(n - 1) : Front(ns)[k] = ns[k]
         /\ Last(ns) = ns[n] /\ ns[n] \in S
BY DEF Front, Last

\* A sequence with one more.
LEMMA AppendIs ==
  ASSUME NEW S, NEW ns \in Seq(S), NEW c \in S, NEW n, n = Len(ns)
  PROVE  /\ n \in Nat /\ Append(ns, c) \in Seq(S) /\ Len(Append(ns, c)) = n + 1
         /\ \A k \in 1..n : Append(ns, c)[k] = ns[k]
         /\ Append(ns, c)[n + 1] = c
OBVIOUS

\* What a stack of constructs says of its parts.
LEMMA StackType ==
  ASSUME NEW ns, NEW H, NEW G, NEW sn, NEW strict, Stack(ns, H, G, sn, strict)
  PROVE  /\ ns \in Seq(ConstructType) /\ sn \in 0..MaxRoots /\ G \subseteq 1..sn
         /\ Len(ns) \in Nat /\ FrameOK(H[Len(ns) + 1], sn)
<1>1. ns \in Seq(ConstructType) /\ sn \in 0..MaxRoots /\ G \subseteq 1..sn
  BY DEF Stack
<1>2. Len(ns) \in Nat
  BY <1>1
<1>3. FrameOK(H[Len(ns) + 1], sn)
  BY <1>2 DEF Stack
<1>4. QED BY <1>1, <1>2, <1>3

\* Without its innermost construct it is a stack over the same frames.
LEMMA StackClose ==
  ASSUME NEW ns, NEW H, NEW G, NEW sn, NEW strict,
         Stack(ns, H, G, sn, strict), ns # << >>
  PROVE  Stack(Front(ns), H, G, sn, strict)
<1> DEFINE n == Len(ns)
           fs == Front(ns)
<1>1. /\ n \in Nat \ {0} /\ fs \in Seq(ConstructType) /\ Len(fs) = n - 1
      /\ \A k \in 1..(n - 1) : fs[k] = ns[k]
  BY FrontIs DEF Stack
<1>2. /\ sn \in 0..MaxRoots /\ G \subseteq 1..sn
      /\ \A k \in 1..(n + 1) : FrameOK(H[k], sn)
      /\ \A k \in 1..n : Level(ns[k], H[k], H[k + 1], G, strict)
      /\ \A k \in 1..(n - 1) : Looping(ns[k]) => H[k + 1] = H[k] /\ ns[k + 1].kind = "block"
  BY DEF Stack
<1> HIDE DEF n, fs
<1>3. \A k \in 1..((n - 1) + 1) : FrameOK(H[k], sn)
  BY <1>1, <1>2
<1>4. \A k \in 1..(n - 1) : Level(fs[k], H[k], H[k + 1], G, strict)
  BY <1>1, <1>2
<1>5. \A k \in 1..((n - 1) - 1) : Looping(fs[k]) => H[k + 1] = H[k] /\ fs[k + 1].kind = "block"
  <2>1. \A k \in 1..((n - 1) - 1) : k \in 1..(n - 1) /\ k + 1 \in 1..(n - 1)
    BY <1>1
  <2>2. QED BY <1>1, <1>2, <2>1
<1>6. Stack(fs, H, G, sn, strict)
  BY <1>1, <1>2, <1>3, <1>4, <1>5 DEF Stack
<1>7. QED BY <1>6 DEF fs

\* A construct that fits on the current frames may be opened on it.
LEMMA StackOpen ==
  ASSUME NEW ns, NEW H, NEW J, NEW G, NEW sn, NEW strict, NEW c, NEW g, NEW n, n = Len(ns),
         Stack(ns, H, G, sn, strict),
         \A k \in 1..(n + 1) : J[k] = H[k], J[n + 2] = g,
         Level(c, H[n + 1], g, G, strict), FrameOK(g, sn),
         \/ ns = << >>
         \/ ~Looping(ns[n])
         \/ c.kind = "block" /\ H[n + 1] = H[n]
  PROVE  Stack(Append(ns, c), J, G, sn, strict)
<1> DEFINE os == Append(ns, c)
<1>1. /\ ns \in Seq(ConstructType) /\ sn \in 0..MaxRoots /\ G \subseteq 1..sn
      /\ \A k \in 1..(n + 1) : FrameOK(H[k], sn)
      /\ \A k \in 1..n : Level(ns[k], H[k], H[k + 1], G, strict)
      /\ \A k \in 1..(n - 1) : Looping(ns[k]) => H[k + 1] = H[k] /\ ns[k + 1].kind = "block"
  BY DEF Stack
<1>2. c \in ConstructType
  BY DEF Level, Sound
<1>3. /\ n \in Nat /\ os \in Seq(ConstructType) /\ Len(os) = n + 1
      /\ \A k \in 1..n : os[k] = ns[k]
      /\ os[n + 1] = c
  BY <1>1, <1>2, AppendIs
<1>4. ns = << >> => n = 0
  OBVIOUS
<1>a. \A k \in 1..((n + 1) + 1) : k \in 1..(n + 1) \/ k = n + 2
  BY <1>3
<1>b. \A k \in 1..(n + 1) : (k \in 1..n /\ k + 1 \in 1..(n + 1)) \/ k = n + 1
  BY <1>3
<1>c. /\ n + 1 \in 1..(n + 1) /\ (n + 1) + 1 = n + 2 /\ (n + 1) - 1 = n
      /\ \A k \in 1..n : (k \in 1..(n - 1) /\ k + 1 \in 1..n) \/ k = n
      /\ \A k \in 1..n : k + 1 \in 1..(n + 1) /\ k \in 1..(n + 1)
  BY <1>3
<1> HIDE DEF os
<1>5. \A k \in 1..((n + 1) + 1) : FrameOK(J[k], sn)
  BY <1>1, <1>a
<1>6. \A k \in 1..(n + 1) : Level(os[k], J[k], J[k + 1], G, strict)
  <2>1. ASSUME NEW k \in 1..n PROVE Level(os[k], J[k], J[k + 1], G, strict)
    BY <1>1, <1>3, <1>c
  <2>2. Level(os[n + 1], J[n + 1], J[(n + 1) + 1], G, strict)
    BY <1>3, <1>c
  <2>3. QED BY <1>b, <2>1, <2>2
<1>7. ASSUME NEW k \in 1..((n + 1) - 1), Looping(os[k])
      PROVE  J[k + 1] = J[k] /\ os[k + 1].kind = "block"
  <2>1. k \in 1..n /\ J[k + 1] = H[k + 1] /\ J[k] = H[k] /\ os[k] = ns[k]
    BY <1>3, <1>c
  <2>2. CASE k \in 1..(n - 1) /\ k + 1 \in 1..n
    BY <1>1, <1>3, <1>7, <2>1, <2>2
  <2>3. CASE k = n
    <3>1. n # 0 /\ Looping(ns[n])
      BY <1>3, <1>7, <2>1, <2>3
    <3>2. c.kind = "block" /\ H[n + 1] = H[n]
      BY <1>4, <3>1
    <3>3. QED BY <1>3, <2>1, <2>3, <3>2
  <2>4. QED BY <1>c, <2>1, <2>2, <2>3
<1>8. Stack(os, J, G, sn, strict)
  BY <1>1, <1>3, <1>5, <1>6, <1>7 DEF Stack
<1>9. QED BY <1>8 DEF os

\* Passing by a site that no frame below has changes nothing there.
LEMMA LevelSkips ==
  ASSUME NEW c, NEW f, NEW g, NEW G, NEW K, NEW s, NEW sn, NEW strict,
         Level(c, f, g, G, strict), FrameOK(f, sn), s \notin Range(FlattenSeq(f)),
         K = G \/ K = G \cup {s}
  PROVE  Level(c, f, g, K, strict)
<1>1. CASE K = G
  BY <1>1
<1>2. CASE K = G \cup {s}
  <2>1. Entered(c) => At(c.depth, FlattenSeq(f), K, strict)
    <3>1. FlattenSeq(f) \in Seq(Slot)
      BY FlatType DEF FrameOK
    <3>2. Entered(c) => At(c.depth, FlattenSeq(f), G, strict)
      BY DEF Level
    <3>3. At(c.depth, FlattenSeq(f), G, strict) => At(c.depth, FlattenSeq(f), G \cup {s}, strict)
      BY <3>1, AtSkipped
    <3>4. QED BY <1>2, <3>2, <3>3
  <2>2. Looping(c) => /\ c.kind = "loop" \/ strict => g = f
                      /\ Owed(c) => Range(FlattenSeq(g)) \ Range(FlattenSeq(f)) \subseteq G
    BY DEF Level
  <2>3. Looping(c) => /\ c.kind = "loop" \/ strict => g = f
                      /\ Owed(c) => Range(FlattenSeq(g)) \ Range(FlattenSeq(f)) \subseteq K
    BY <1>2, <2>2
  <2>4. Sound(c) /\ \E own \in Seq(Slot) : Over(c, f, g, own)
    BY DEF Level
  <2>5. QED BY <2>1, <2>3, <2>4 DEF Level
<1>3. QED BY <1>1, <1>2

\* A site registered in a construct is one more it added.
LEMMA OverAppends ==
  ASSUME NEW c, NEW f \in Lists, f # << >>, NEW g, NEW own \in Seq(Slot), Over(c, f, g, own),
         NEW s \in Slot, NEW h, h = Append(Front(g), Append(Last(g), s))
  PROVE  Append(own, s) \in Seq(Slot) /\ Over(c, f, h, Append(own, s))
<1>1. Append(own, s) \in Seq(Slot)
  BY RangeAppend
<1>2. CASE Framed(c)
  <2>1. Front(g) = f /\ Last(g) = own
    BY <1>2, OverPopped
  <2>2. QED BY <1>1, <1>2, <2>1 DEF Over
<1>3. CASE ~Framed(c)
  <2>1. PICK b \in Lists, x \in Seq(Slot) : b = Front(f) /\ x = Last(f)
    BY ListsSplit
  <2>2. c.before = Len(Last(f)) /\ g = Append(b, Cat(x, own))
    BY <1>3, <2>1 DEF Over
  <2>3. Cat(x, own) \in Seq(Slot)
    BY CatType
  <2>4. Front(g) = b /\ Last(g) = Cat(x, own)
    BY <2>2, <2>3, ListsPush
  <2>a. \A e \in Slot : Append(Cat(x, own), e) = Cat(x, Append(own, e))
    BY CatAppend
  <2>5. Append(Cat(x, own), s) = Cat(x, Append(own, s))
    BY <2>a, Zenon
  <2>6. h = Append(Front(f), Cat(Last(f), Append(own, s)))
    BY <2>1, <2>4, <2>5
  <2>7. QED BY <1>1, <1>3, <2>2, <2>6 DEF Over
<1>4. QED BY <1>2, <1>3

\* A value that leaves an else-less if is a site its frame keeps.
LEMMA LevelRegisters ==
  ASSUME NEW c, NEW f, NEW g, NEW h, NEW G, NEW K, NEW sn \in Nat, NEW s \in Slot, s = sn + 1,
         NEW strict, Level(c, f, g, G, strict), FrameOK(f, sn), FrameOK(g, sn),
         h = Registering(g, s),
         K = G \/ K = G \cup {s},
         \/ ~Looping(c)
         \/ c.kind = "unit" /\ ~strict /\ (Owed(c) => s \in K)
  PROVE  Level(c, f, h, K, strict)
<1>1. s \notin Range(FlattenSeq(f))
  BY DEF FrameOK
<1>2. Level(c, f, g, K, strict)
  BY <1>1, LevelSkips
<1>3. h = Append(Front(g), Append(Last(g), s)) /\ Range(FlattenSeq(h)) = Range(FlattenSeq(g)) \cup {s}
  BY FrameRegisters
<1>4. \E own \in Seq(Slot) : Over(c, f, h, own)
  <2>1. PICK own \in Seq(Slot) : Over(c, f, g, own)
    BY DEF Level
  <2>2. f \in Lists /\ f # << >>
    BY DEF FrameOK
  <2>3. h = Append(Front(g), Append(Last(g), s))
    BY <1>3
  <2>4. QED BY <2>1, <2>2, <2>3, OverAppends
<1>5. Looping(c) => /\ c.kind = "loop" \/ strict => h = f
                    /\ Owed(c) => Range(FlattenSeq(h)) \ Range(FlattenSeq(f)) \subseteq K
  <2>1. Looping(c) /\ Owed(c) => Range(FlattenSeq(g)) \ Range(FlattenSeq(f)) \subseteq K
    BY <1>2 DEF Level
  <2>2. QED BY <1>3, <2>1
<1>6. Sound(c) /\ (Entered(c) => At(c.depth, FlattenSeq(f), K, strict))
  BY <1>2 DEF Level
<1>7. QED BY <1>4, <1>5, <1>6 DEF Level

\* Where a site s may be registered: not in a loop, and in an else-less if only
\* where its arm may end in a value, and then one waited for passes s by.
MayRegister(ns, K, s, strict) ==
  \/ ns = << >>
  \/ ~Looping(Last(ns))
  \/ Last(ns).kind = "unit" /\ ~strict /\ (Owed(Last(ns)) => s \in K)
PassedBy(G, K, s) == K = G \/ K = G \cup {s}

\* A registration in the innermost frame changes the innermost level only.
LEMMA StackRegister ==
  ASSUME NEW ns, NEW H, NEW J, NEW G, NEW K, NEW sn, NEW strict, NEW h, NEW n, n = Len(ns),
         NEW s \in Slot, s = sn + 1,
         Stack(ns, H, G, sn, strict),
         \A k \in 1..n : J[k] = H[k], J[n + 1] = h,
         h = Registering(H[n + 1], s),
         PassedBy(G, K, s), MayRegister(ns, K, s, strict)
  PROVE  Stack(ns, J, K, s, strict)
<1>1. /\ ns \in Seq(ConstructType) /\ sn \in 0..MaxRoots /\ G \subseteq 1..sn
      /\ \A k \in 1..(n + 1) : FrameOK(H[k], sn)
      /\ \A k \in 1..n : Level(ns[k], H[k], H[k + 1], G, strict)
      /\ \A k \in 1..(n - 1) : Looping(ns[k]) => H[k + 1] = H[k] /\ ns[k + 1].kind = "block"
  BY DEF Stack
<1>2. n \in Nat /\ sn \in Nat /\ s \in 0..MaxRoots /\ K \subseteq 1..s
  <2>1. n \in Nat /\ sn \in Nat /\ s \in 0..MaxRoots /\ s \in Nat
    BY <1>1 DEF Slot
  <2>2. \A e \in K : e \in G \/ e = s
    BY DEF PassedBy
  <2>3. \A e \in G : e \in 1..s
    BY <1>1, <2>1
  <2>4. s \in 1..s
    BY <2>1
  <2>5. QED BY <2>1, <2>2, <2>3, <2>4
<1>3. ns = << >> => n = 0
  OBVIOUS
<1>4. /\ \A k \in 1..n : k \in 1..(n + 1) /\ k + 1 \in 1..(n + 1)
      /\ \A k \in 1..n : (k \in 1..(n - 1) /\ k + 1 \in 1..n) \/ k = n
      /\ \A k \in 1..(n - 1) : k \in 1..n /\ k + 1 \in 1..n
      /\ n + 1 \in 1..(n + 1)
      /\ \A k \in 1..(n + 1) : k \in 1..n \/ k = n + 1
  BY <1>2
<1>5. FrameOK(h, s)
  <2>1. FrameOK(H[n + 1], sn)
    BY <1>1, <1>4
  <2>2. QED BY <1>2, <2>1, FrameRegisters
<1>6. \A k \in 1..(n + 1) : FrameOK(J[k], s)
  <2>1. \A k \in 1..n : FrameOK(H[k], s)
    <3>1. \A f : FrameOK(f, sn) => FrameOK(f, s)
      BY <1>2 DEF FrameOK
    <3>2. QED BY <1>1, <1>4, <3>1
  <2>2. QED BY <1>4, <1>5, <2>1
<1>7. \A k \in 1..n : Level(ns[k], J[k], J[k + 1], K, strict)
  <2>1. ASSUME NEW k \in 1..n, k \in 1..(n - 1), k + 1 \in 1..n
        PROVE  Level(ns[k], J[k], J[k + 1], K, strict)
    <3>1. FrameOK(H[k], sn) /\ Level(ns[k], H[k], H[k + 1], G, strict)
      BY <1>1, <1>4
    <3>2. s \notin Range(FlattenSeq(H[k]))
      BY <1>2, <3>1 DEF FrameOK
    <3>3. Level(ns[k], H[k], H[k + 1], K, strict)
      BY <3>1, <3>2, LevelSkips DEF PassedBy
    <3>4. J[k] = H[k] /\ J[k + 1] = H[k + 1]
      BY <2>1
    <3>5. QED BY <3>3, <3>4
  <2>2. ASSUME n \in 1..n PROVE Level(ns[n], J[n], J[n + 1], K, strict)
    <3>1. FrameOK(H[n], sn) /\ FrameOK(H[n + 1], sn) /\ Level(ns[n], H[n], H[n + 1], G, strict)
      BY <1>1, <1>4, <2>2
    <3>2. \/ ~Looping(ns[n])
          \/ ns[n].kind = "unit" /\ ~strict /\ (Owed(ns[n]) => s \in K)
      <4>1. Last(ns) = ns[n]
        BY DEF Last
      <4>2. QED BY <1>3, <2>2, <4>1 DEF MayRegister
    <3>3. Level(ns[n], H[n], h, K, strict)
      BY <1>2, <3>1, <3>2, LevelRegisters DEF PassedBy
    <3>4. J[n] = H[n] /\ J[n + 1] = h
      BY <2>2
    <3>5. QED BY <3>3, <3>4
  <2>3. QED BY <1>4, <2>1, <2>2
<1>8. \A k \in 1..(n - 1) : Looping(ns[k]) => J[k + 1] = J[k] /\ ns[k + 1].kind = "block"
  BY <1>1, <1>4
<1>9. QED BY <1>1, <1>2, <1>6, <1>7, <1>8 DEF Stack

\* The frames a construct without an own frame leaves as they are count as its
\* parent's.
LEMMA OverMerges ==
  ASSUME NEW c, NEW d, NEW f \in Lists, f # << >>, NEW g, NEW h,
         NEW own \in Seq(Slot), NEW more \in Seq(Slot),
         Over(c, f, g, own), Over(d, g, h, more), ~Framed(d)
  PROVE  Cat(own, more) \in Seq(Slot) /\ Over(c, f, h, Cat(own, more))
<1>1. Cat(own, more) \in Seq(Slot)
  BY CatType
<1>2. h = Append(Front(g), Cat(Last(g), more))
  BY DEF Over
<1>3. CASE Framed(c)
  <2>1. Front(g) = f /\ Last(g) = own
    BY <1>3, OverPopped
  <2>2. QED BY <1>1, <1>2, <1>3, <2>1 DEF Over
<1>4. CASE ~Framed(c)
  <2>1. PICK b \in Lists, x \in Seq(Slot) : b = Front(f) /\ x = Last(f)
    BY ListsSplit
  <2>2. c.before = Len(Last(f)) /\ g = Append(b, Cat(x, own))
    BY <1>4, <2>1 DEF Over
  <2>3. Cat(x, own) \in Seq(Slot)
    BY CatType
  <2>4. Front(g) = b /\ Last(g) = Cat(x, own)
    BY <2>2, <2>3, ListsPush
  <2>5. Cat(Cat(x, own), more) = Cat(x, Cat(own, more))
    BY CatAssociative
  <2>6. h = Append(Front(f), Cat(Last(f), Cat(own, more)))
    BY <1>2, <2>1, <2>4, <2>5
  <2>7. QED BY <1>1, <1>4, <2>2, <2>6 DEF Over
<1>5. QED BY <1>3, <1>4

\* What an else-less if or a loop left stays in the frame around it.
LEMMA StackMerge ==
  ASSUME NEW ns, NEW H, NEW J, NEW G, NEW sn, NEW strict, NEW n, n = Len(ns),
         Stack(ns, H, G, sn, strict), ns # << >>, ~Framed(ns[n]),
         \A k \in 1..(n - 1) : J[k] = H[k], J[n] = H[n + 1]
  PROVE  Stack(Front(ns), J, G, sn, strict)
<1> DEFINE fs == Front(ns)
<1>1. /\ n \in Nat \ {0} /\ fs \in Seq(ConstructType) /\ Len(fs) = n - 1
      /\ \A k \in 1..(n - 1) : fs[k] = ns[k]
  BY FrontIs DEF Stack
<1>2. /\ sn \in 0..MaxRoots /\ G \subseteq 1..sn
      /\ \A k \in 1..(n + 1) : FrameOK(H[k], sn)
      /\ \A k \in 1..n : Level(ns[k], H[k], H[k + 1], G, strict)
      /\ \A k \in 1..(n - 1) : Looping(ns[k]) => H[k + 1] = H[k] /\ ns[k + 1].kind = "block"
  BY DEF Stack
<1> HIDE DEF fs
<1>3. /\ \A k \in 1..n : k \in 1..(n + 1)
      /\ \A k \in 1..((n - 1) + 1) : k \in 1..(n - 1) \/ k = n
      /\ \A k \in 1..(n - 1) : k \in 1..n /\ k + 1 \in 1..n /\ k \in 1..(n + 1)
      /\ \A k \in 1..(n - 1) : k + 1 \in 1..(n - 1) \/ k + 1 = n
      /\ \A k \in 1..((n - 1) - 1) : k \in 1..(n - 1) /\ k + 1 \in 1..(n - 1)
      /\ n \in 1..n /\ n + 1 \in 1..(n + 1)
  BY <1>1
<1>4. \A k \in 1..((n - 1) + 1) : FrameOK(J[k], sn)
  BY <1>2, <1>3
<1>5. \A k \in 1..(n - 1) : Level(fs[k], J[k], J[k + 1], G, strict)
  <2>1. ASSUME NEW k \in 1..(n - 1), k + 1 \in 1..(n - 1)
        PROVE  Level(fs[k], J[k], J[k + 1], G, strict)
    BY <1>1, <1>2, <1>3, <2>1
  <2>2. ASSUME NEW k \in 1..(n - 1), k + 1 = n
        PROVE  Level(fs[k], J[k], J[k + 1], G, strict)
    <3>1. Level(ns[k], H[k], H[n], G, strict) /\ Level(ns[n], H[n], H[n + 1], G, strict)
      BY <1>2, <1>3, <2>2
    <3>2. FrameOK(H[k], sn)
      BY <1>2, <1>3
    <3>3. ~Looping(ns[k])
      <4>1. Looping(ns[k]) => ns[n].kind = "block"
        BY <1>2, <2>2
      <4>2. QED BY <4>1 DEF Framed
    <3>4. PICK own \in Seq(Slot), more \in Seq(Slot) :
            Over(ns[k], H[k], H[n], own) /\ Over(ns[n], H[n], H[n + 1], more)
      BY <3>1 DEF Level
    <3>5. H[k] \in Lists /\ H[k] # << >>
      BY <3>2 DEF FrameOK
    <3>6. \E both \in Seq(Slot) : Over(ns[k], H[k], H[n + 1], both)
      <4>1. ~Framed(ns[n])
        OBVIOUS
      <4>2. Cat(own, more) \in Seq(Slot) /\ Over(ns[k], H[k], H[n + 1], Cat(own, more))
        BY <3>4, <3>5, <4>1, OverMerges
      <4>3. QED BY <4>2, Zenon
    <3>7. Level(ns[k], H[k], H[n + 1], G, strict)
      BY <3>1, <3>3, <3>6 DEF Level
    <3>8. fs[k] = ns[k] /\ J[k] = H[k] /\ J[k + 1] = H[n + 1]
      BY <1>1, <2>2
    <3>9. QED BY <3>7, <3>8
  <2>3. QED BY <1>3, <2>1, <2>2
<1>6. \A k \in 1..((n - 1) - 1) : Looping(fs[k]) => J[k + 1] = J[k] /\ fs[k + 1].kind = "block"
  BY <1>1, <1>2, <1>3
<1>7. Stack(fs, J, G, sn, strict)
  BY <1>1, <1>2, <1>4, <1>5, <1>6 DEF Stack
<1>8. QED BY <1>7 DEF fs

-----------------------------------------------------------------------------
(* Where the execution is.  It has reached the code being generated, or    *)
(* waits for a later part of one open construct, the outer ones entered    *)
(* and no other one waited for; or it has returned.                        *)

Running(ns) ==
  \A k \in 1..Len(ns) : ~Owed(ns[k]) /\ (ns[k].kind # "block" => ns[k].entered)
ParkedAt(ns, rs, m) ==
  /\ Owed(ns[m]) /\ rs = ns[m].depth
  /\ \A k \in 1..Len(ns) : /\ k # m => ~Owed(ns[k])
                           /\ ns[k].kind # "block" => (ns[k].entered <=> k <= m)
Parked(ns, rs) == \E m \in 1..Len(ns) : ParkedAt(ns, rs, m)
Gone(ns) == \A k \in 1..Len(ns) : ~Owed(ns[k])

Flow(ns, lv, rs, ret) ==
  IF ret THEN ~lv /\ rs = <<0>> /\ Gone(ns)
  ELSE IF lv THEN Running(ns) ELSE Parked(ns, rs)

\* Closing a construct the execution waits for resumes it; one it is in or
\* has passed by leaves it where it is.
LEMMA FlowClose ==
  ASSUME NEW ns \in Seq(ConstructType), ns # << >>, NEW n, n = Len(ns),
         NEW lv \in BOOLEAN, NEW rs, NEW ret \in BOOLEAN, Flow(ns, lv, rs, ret),
         NEW qs, lv \/ qs = rs, NEW res, res = (lv \/ Owed(ns[n]))
  PROVE  /\ Flow(Front(ns), res, qs, ret)
         /\ Owed(ns[n]) => ~lv /\ ~ret /\ rs = ns[n].depth
         /\ lv => (ns[n].kind # "block" => ns[n].entered)
         /\ ~res /\ ~ret /\ ns[n].kind # "block" => ~ns[n].entered
<1> DEFINE fs == Front(ns)
<1>1. /\ n \in Nat \ {0} /\ Len(fs) = n - 1
      /\ \A k \in 1..(n - 1) : fs[k] = ns[k]
  BY FrontIs
<1> HIDE DEF fs
<1>2. \A k \in 1..(n - 1) : k \in 1..n /\ k # n
  BY <1>1
<1>3. n \in 1..n
  BY <1>1
<1>4. CASE ret
  <2>1. ~lv /\ rs = <<0>> /\ \A k \in 1..n : ~Owed(ns[k])
    BY <1>4 DEF Flow, Gone
  <2>2. \A k \in 1..(n - 1) : ~Owed(fs[k])
    BY <1>1, <1>2, <2>1
  <2>3. ~res /\ qs = <<0>> /\ ~Owed(ns[n])
    BY <1>3, <2>1
  <2>4. Flow(fs, res, qs, ret)
    BY <1>1, <1>4, <2>2, <2>3 DEF Flow, Gone
  <2>5. QED BY <1>4, <2>1, <2>3, <2>4 DEF fs
<1>5. CASE ~ret /\ lv
  <2>1. \A k \in 1..n : ~Owed(ns[k]) /\ (ns[k].kind # "block" => ns[k].entered)
    BY <1>5 DEF Flow, Running
  <2>2. \A k \in 1..(n - 1) : ~Owed(fs[k]) /\ (fs[k].kind # "block" => fs[k].entered)
    BY <1>1, <1>2, <2>1
  <2>3. Running(fs)
    BY <1>1, <2>2 DEF Running
  <2>4. Flow(fs, res, qs, ret)
    BY <1>5, <2>3 DEF Flow
  <2>5. QED BY <1>3, <1>5, <2>1, <2>4 DEF fs
<1>6. CASE ~ret /\ ~lv
  <2>1. PICK m \in 1..n : ParkedAt(ns, rs, m)
    BY <1>6 DEF Flow, Parked
  <2>2. /\ Owed(ns[m]) /\ rs = ns[m].depth
        /\ \A k \in 1..n : /\ k # m => ~Owed(ns[k])
                           /\ ns[k].kind # "block" => (ns[k].entered <=> k <= m)
    BY <2>1 DEF ParkedAt
  <2>3. CASE m = n
    <3>1. \A k \in 1..(n - 1) : k # m /\ k <= m
      BY <1>1, <2>3
    <3>2. \A k \in 1..(n - 1) : ~Owed(fs[k]) /\ (fs[k].kind # "block" => fs[k].entered)
      BY <1>1, <1>2, <2>2, <3>1
    <3>3. Running(fs)
      BY <1>1, <3>2 DEF Running
    <3>4. Owed(ns[n]) /\ res
      BY <2>2, <2>3
    <3>5. Flow(fs, res, qs, ret)
      BY <1>6, <3>3, <3>4 DEF Flow
    <3>6. QED BY <1>6, <2>2, <2>3, <3>4, <3>5 DEF fs
  <2>4. CASE m # n
    <3>1. m \in 1..(n - 1) /\ ~(n <= m)
      BY <1>1, <2>4
    <3>2. /\ Owed(fs[m]) /\ qs = fs[m].depth
          /\ \A k \in 1..(n - 1) : /\ k # m => ~Owed(fs[k])
                                   /\ fs[k].kind # "block" => (fs[k].entered <=> k <= m)
      BY <1>1, <1>2, <1>6, <2>2, <3>1
    <3>3. ~Owed(ns[n]) /\ (ns[n].kind # "block" => ~ns[n].entered)
      BY <1>3, <2>2, <2>4, <3>1
    <3>4. ParkedAt(fs, qs, m)
      BY <1>1, <3>2 DEF ParkedAt
    <3>5. Flow(fs, res, qs, ret)
      BY <1>1, <1>6, <3>1, <3>3, <3>4 DEF Flow, Parked
    <3>6. QED BY <1>6, <3>3, <3>5 DEF fs
  <2>5. QED BY <2>3, <2>4
<1>7. QED BY <1>4, <1>5, <1>6

\* Opening one parks an execution that does not run its first part.
LEMMA FlowOpen ==
  ASSUME NEW ns \in Seq(ConstructType), NEW n, n = Len(ns), NEW c \in ConstructType,
         NEW lv \in BOOLEAN, NEW rs, NEW ret \in BOOLEAN, Flow(ns, lv, rs, ret),
         lv => (c.kind # "block" => c.entered),
         lv /\ Owed(c) => c.entered /\ rs = c.depth,
         ~lv => ~Owed(c) /\ (~ret /\ c.kind # "block" => ~c.entered),
         NEW res, res = (lv /\ ~Owed(c))
  PROVE  Flow(Append(ns, c), res, rs, ret)
<1> DEFINE os == Append(ns, c)
<1>1. /\ n \in Nat /\ Len(os) = n + 1
      /\ \A k \in 1..n : os[k] = ns[k]
      /\ os[n + 1] = c
  BY AppendIs
<1> HIDE DEF os
<1>2. \A k \in 1..(n + 1) : k \in 1..n \/ k = n + 1
  BY <1>1
<1>3. CASE ret
  <2>1. ~lv /\ rs = <<0>> /\ \A k \in 1..n : ~Owed(ns[k])
    BY <1>3 DEF Flow, Gone
  <2>2. \A k \in 1..(n + 1) : ~Owed(os[k])
    BY <1>1, <1>2, <2>1
  <2>3. Flow(os, res, rs, ret)
    BY <1>1, <1>3, <2>1, <2>2 DEF Flow, Gone
  <2>4. QED BY <2>3 DEF os
<1>4. CASE ~ret /\ lv
  <2>1. \A k \in 1..n : ~Owed(ns[k]) /\ (ns[k].kind # "block" => ns[k].entered)
    BY <1>4 DEF Flow, Running
  <2>2. CASE ~Owed(c)
    <3>1. \A k \in 1..(n + 1) : ~Owed(os[k]) /\ (os[k].kind # "block" => os[k].entered)
      BY <1>1, <1>2, <1>4, <2>1, <2>2
    <3>2. Flow(os, res, rs, ret)
      BY <1>1, <1>4, <2>2, <3>1 DEF Flow, Running
    <3>3. QED BY <3>2 DEF os
  <2>3. CASE Owed(c)
    <3>1. \A k \in 1..(n + 1) : k <= n + 1
      BY <1>1
    <3>a. \A k \in 1..n : k # n + 1
      BY <1>1
    <3>2. /\ Owed(os[n + 1]) /\ rs = os[n + 1].depth
          /\ \A k \in 1..(n + 1) : /\ k # n + 1 => ~Owed(os[k])
                                   /\ os[k].kind # "block" => (os[k].entered <=> k <= n + 1)
      BY <1>1, <1>2, <1>4, <2>1, <2>3, <3>1, <3>a
    <3>3. ParkedAt(os, rs, n + 1)
      BY <1>1, <3>2 DEF ParkedAt
    <3>4. n + 1 \in 1..(n + 1)
      BY <1>1
    <3>5. Flow(os, res, rs, ret)
      BY <1>1, <1>4, <2>3, <3>3, <3>4 DEF Flow, Parked
    <3>6. QED BY <3>5 DEF os
  <2>4. QED BY <2>2, <2>3
<1>5. CASE ~ret /\ ~lv
  <2>1. PICK m \in 1..n : ParkedAt(ns, rs, m)
    BY <1>5 DEF Flow, Parked
  <2>2. /\ Owed(ns[m]) /\ rs = ns[m].depth
        /\ \A k \in 1..n : /\ k # m => ~Owed(ns[k])
                           /\ ns[k].kind # "block" => (ns[k].entered <=> k <= m)
    BY <2>1 DEF ParkedAt
  <2>3. m \in 1..(n + 1) /\ n + 1 # m /\ ~(n + 1 <= m)
    BY <1>1
  <2>4. /\ Owed(os[m]) /\ rs = os[m].depth
        /\ \A k \in 1..(n + 1) : /\ k # m => ~Owed(os[k])
                                 /\ os[k].kind # "block" => (os[k].entered <=> k <= m)
    BY <1>1, <1>2, <1>5, <2>2, <2>3
  <2>5. ParkedAt(os, rs, m)
    BY <1>1, <2>4 DEF ParkedAt
  <2>6. Flow(os, res, rs, ret)
    BY <1>1, <1>5, <2>3, <2>5 DEF Flow, Parked
  <2>7. QED BY <2>6 DEF os
<1>6. QED BY <1>3, <1>4, <1>5

\* An execution that is there runs on, whatever roots it has; one that is not
\* keeps its roots.
LEMMA FlowRuns ==
  ASSUME NEW ns, NEW lv \in BOOLEAN, NEW rs, NEW qs, NEW ret \in BOOLEAN,
         Flow(ns, lv, rs, ret), lv \/ qs = rs
  PROVE  Flow(ns, lv, qs, ret)
BY DEF Flow

\* It may return.
Leaves(lv, rs, qs) == IF lv THEN qs = <<0>> ELSE qs = rs

\* So it is wherever the execution is, or was.
LEMMA FlowReturns ==
  ASSUME NEW ns, NEW lv \in BOOLEAN, NEW rs, NEW qs, NEW ret \in BOOLEAN,
         Flow(ns, lv, rs, ret), Leaves(lv, rs, qs)
  PROVE  Flow(ns, FALSE, qs, ret \/ lv)
BY DEF Flow, Running, Gone, Leaves

-----------------------------------------------------------------------------
(* A state: the open constructs, the frames, the sites, whether the        *)
(* execution is there, its roots, and whether it has returned.             *)

Good(ns, fr, sn, lv, rs, ret, H, G, strict) ==
  /\ fr = H[Len(ns) + 1]
  /\ Stack(ns, H, G, sn, strict)
  /\ lv \in BOOLEAN /\ ret \in BOOLEAN
  /\ Flow(ns, lv, rs, ret)
  /\ lv => At(rs, FlattenSeq(fr), G, strict)

\* A place where a value may be registered, or a construct opened.
Open(ns) == ns = << >> \/ ~Looping(ns[Len(ns)])

\* The types of a good state.
LEMMA GoodTypes ==
  ASSUME NEW ns, NEW fr, NEW sn, NEW lv, NEW rs, NEW ret, NEW H, NEW G, NEW strict,
         Good(ns, fr, sn, lv, rs, ret, H, G, strict)
  PROVE  /\ ns \in Seq(ConstructType) /\ Len(ns) \in Nat /\ FrameOK(fr, sn)
         /\ fr \in Lists /\ fr # << >> /\ FlattenSeq(fr) \in Seq(Slot)
         /\ sn \in 0..MaxRoots /\ sn \in Nat /\ G \subseteq 1..sn
         /\ lv \in BOOLEAN /\ ret \in BOOLEAN
         /\ rs \in Seq(0..MaxRoots)
<1>1. /\ ns \in Seq(ConstructType) /\ Len(ns) \in Nat /\ FrameOK(fr, sn)
      /\ sn \in 0..MaxRoots /\ G \subseteq 1..sn
  BY StackType DEF Good
<1>2. fr \in Lists /\ fr # << >>
  BY <1>1 DEF FrameOK
<1>3. FlattenSeq(fr) \in Seq(Slot)
  BY <1>2, FlatType
<1>4. lv \in BOOLEAN /\ ret \in BOOLEAN /\ Flow(ns, lv, rs, ret)
  BY DEF Good
<1>5. CASE lv
  <2>1. At(rs, FlattenSeq(fr), G, strict)
    BY <1>5 DEF Good
  <2>2. rs \in Seq(0..MaxRoots)
    BY <1>3, <2>1, AtType
  <2>3. QED BY <1>1, <1>2, <1>3, <1>4, <2>2
<1>6. CASE ~lv
  <2>1. CASE ret
    <3>1. rs = <<0>>
      BY <1>4, <2>1 DEF Flow
    <3>2. <<0>> \in Seq(0..MaxRoots)
      BY BoundsAssumption
    <3>3. QED BY <1>1, <1>2, <1>3, <1>4, <3>1, <3>2
  <2>2. CASE ~ret
    <3>1. PICK m \in 1..Len(ns) : rs = ns[m].depth
      BY <1>4, <1>6, <2>2 DEF Flow, Parked, ParkedAt
    <3>2. ns[m] \in ConstructType
      BY <1>1, ElementOfSeq
    <3>3. ns[m].depth \in Seq(0..MaxRoots)
      BY <3>2 DEF ConstructType
    <3>4. QED BY <1>1, <1>2, <1>3, <1>4, <3>1, <3>3
  <2>3. QED BY <2>1, <2>2
<1>7. QED BY <1>4, <1>5, <1>6

\* Where a value may reach a chokepoint; the roots once it has.
Chokes(ns, strict) == Open(ns) \/ (ns[Len(ns)].kind = "unit" /\ ~strict)
Rooting(rs, lv, s) == IF lv THEN Append(rs, s) ELSE rs

\* A registration, run when the execution is there.
LEMMA GoodRegister ==
  ASSUME NEW ns, NEW fr, NEW sn, NEW lv, NEW rs, NEW ret, NEW H, NEW G, NEW strict,
         Good(ns, fr, sn, lv, rs, ret, H, G, strict),
         NEW s \in Slot, s = sn + 1,
         Chokes(ns, strict), NEW gr, gr = Registering(fr, s), NEW qs, qs = Rooting(rs, lv, s)
  PROVE  \E J, K : Good(ns, gr, s, lv, qs, ret, J, K, strict) /\ (lv => K = G)
<1> DEFINE n == Len(ns)
           K == IF lv THEN G ELSE G \cup {s}
           J == [k \in 1..(n + 1) |-> IF k = n + 1 THEN gr ELSE H[k]]
<1>1. /\ ns \in Seq(ConstructType) /\ n \in Nat /\ FrameOK(fr, sn)
      /\ fr \in Lists /\ fr # << >> /\ FlattenSeq(fr) \in Seq(Slot)
      /\ sn \in Nat /\ G \subseteq 1..sn /\ lv \in BOOLEAN /\ ret \in BOOLEAN
  BY GoodTypes
<1>2. fr = H[n + 1] /\ Stack(ns, H, G, sn, strict) /\ Flow(ns, lv, rs, ret)
  BY DEF Good
<1>3. J[n + 1] = gr /\ \A k \in 1..n : J[k] = H[k]
  BY <1>1
<1>4. PassedBy(G, K, s)
  BY DEF PassedBy
<1>5. MayRegister(ns, K, s, strict)
  <2>1. ns # << >> => (Owed(ns[n]) => ~lv)
    <3>1. ns # << >> => n \in 1..n
      BY <1>1
    <3>2. lv => Running(ns)
      BY <1>2 DEF Flow
    <3>3. QED BY <3>1, <3>2 DEF Running
  <2>2. QED BY <2>1 DEF Open, Chokes, MayRegister, Last
<1>6. lv => K = G
  OBVIOUS
<1> HIDE DEF n, J, K
<1>7. Stack(ns, J, K, s, strict)
  <2>1. n = Len(ns)
    BY DEF n
  <2>2. gr = Registering(H[n + 1], s)
    BY <1>2
  <2>3. QED BY <1>2, <1>3, <1>4, <1>5, <2>1, <2>2, StackRegister
<1>8. lv => At(qs, FlattenSeq(gr), K, strict)
  <2>1. SUFFICES ASSUME lv PROVE At(Append(rs, s), FlattenSeq(gr), G, strict)
    BY <1>6 DEF Rooting
  <2>2. At(rs, FlattenSeq(fr), G, strict)
    BY <2>1 DEF Good
  <2>3. s \notin G
    BY <1>1
  <2>4. FlattenSeq(gr) = Append(FlattenSeq(fr), s)
    BY <1>1, FrameRegisters
  <2>5. At(Append(rs, s), Append(FlattenSeq(fr), s), G, strict)
    BY <1>1, <2>2, <2>3, AtPushed
  <2>6. QED BY <2>1, <2>4, <2>5 DEF Rooting
<1>9. Flow(ns, lv, qs, ret)
  <2>1. lv \/ qs = rs
    BY DEF Rooting
  <2>2. QED BY <1>1, <1>2, <2>1, FlowRuns
<1>10. Good(ns, gr, s, lv, qs, ret, J, K, strict)
  BY <1>1, <1>3, <1>7, <1>8, <1>9 DEF Good, n
<1>11. QED BY <1>6, <1>10, Zenon

\* Nothing has been added to a construct when it is opened.
LEMMA OverNothing ==
  ASSUME NEW c, NEW fr \in Lists, fr # << >>,
         NEW g, g = IF Framed(c) THEN Append(fr, << >>) ELSE fr,
         ~Framed(c) => c.before = Len(Last(fr))
  PROVE  /\ \E own \in Seq(Slot) : Over(c, fr, g, own)
         /\ g \in Lists /\ g # << >> /\ FlattenSeq(g) = FlattenSeq(fr)
<1>1. << >> \in Seq(Slot)
  OBVIOUS
<1>2. PICK own \in Seq(Slot) : own = << >>
  BY <1>1, Zenon
<1>3. Over(c, fr, g, own)
  <2>1. CASE Framed(c)
    BY <1>2, <2>1 DEF Over
  <2>2. CASE ~Framed(c)
    <3>1. Last(fr) \in Seq(Slot) /\ fr = Append(Front(fr), Last(fr))
      BY ListsSplit
    <3>2. Cat(Last(fr), own) = Last(fr)
      BY <1>2, <3>1, CatEmpty
    <3>3. g = fr
      BY <2>2
    <3>4. QED BY <2>2, <3>1, <3>2, <3>3 DEF Over
  <2>3. QED BY <2>1, <2>2
<1>4. g \in Lists /\ g # << >> /\ FlattenSeq(g) = Cat(FlattenSeq(fr), own)
  BY <1>3, OverFlat
<1>5. Cat(FlattenSeq(fr), own) = FlattenSeq(fr)
  BY <1>2, FlatType, CatEmpty
<1>6. QED BY <1>3, <1>4, <1>5

\* What a construct must be to be opened; its frames, and whether the execution
\* goes into its first part.
MayOpen(c, ns, fr, lv, ret, H, G, strict) ==
  /\ Sound(c)
  /\ ~Framed(c) => c.before = Len(Last(fr))
  /\ Entered(c) => At(c.depth, FlattenSeq(fr), G, strict)
  /\ Open(ns) \/ (c.kind = "block" /\ H[Len(ns) + 1] = H[Len(ns)])
  /\ lv => (c.kind # "block" => c.entered)
  /\ lv /\ Owed(c) => Entered(c)
  /\ ~lv => ~Owed(c) /\ (~ret /\ c.kind # "block" => ~c.entered)
Inside(c, fr) == IF Framed(c) THEN Append(fr, << >>) ELSE fr
GoesIn(c, lv) == lv /\ ~Owed(c)
Between(J, n, fr, g) == J[n + 1] = fr /\ J[n + 2] = g   \* the frames around construct n + 1

\* A construct is opened on the frames there are, with its own frame or none.
LEMMA GoodOpen ==
  ASSUME NEW ns, NEW fr, NEW sn, NEW lv, NEW rs, NEW ret, NEW H, NEW G, NEW strict,
         Good(ns, fr, sn, lv, rs, ret, H, G, strict),
         NEW c, MayOpen(c, ns, fr, lv, ret, H, G, strict),
         NEW n, n = Len(ns), NEW g, g = Inside(c, fr)
  PROVE  \E J : /\ Good(Append(ns, c), g, sn, GoesIn(c, lv), rs, ret, J, G, strict)
                /\ FlattenSeq(g) = FlattenSeq(fr)
                /\ Between(J, n, fr, g)
<1> DEFINE res == GoesIn(c, lv)
<1>a. /\ Sound(c) /\ (~Framed(c) => c.before = Len(Last(fr)))
      /\ Entered(c) => At(c.depth, FlattenSeq(fr), G, strict)
      /\ Open(ns) \/ (c.kind = "block" /\ H[n + 1] = H[n])
      /\ lv => (c.kind # "block" => c.entered)
      /\ lv /\ Owed(c) => Entered(c)
      /\ ~lv => ~Owed(c) /\ (~ret /\ c.kind # "block" => ~c.entered)
  BY DEF MayOpen
<1>b. g = IF Framed(c) THEN Append(fr, << >>) ELSE fr
  BY DEF Inside
<1>c. res = (lv /\ ~Owed(c))
  BY DEF GoesIn
<1> HIDE DEF res
<1> DEFINE J == [k \in 1..(n + 2) |-> IF k = n + 2 THEN g ELSE H[k]]
<1>1. /\ ns \in Seq(ConstructType) /\ n \in Nat /\ FrameOK(fr, sn)
      /\ fr \in Lists /\ fr # << >> /\ FlattenSeq(fr) \in Seq(Slot)
      /\ lv \in BOOLEAN /\ ret \in BOOLEAN
  BY GoodTypes
<1>2. fr = H[n + 1] /\ Stack(ns, H, G, sn, strict) /\ Flow(ns, lv, rs, ret)
  BY DEF Good
<1>3. J[n + 2] = g /\ \A k \in 1..(n + 1) : J[k] = H[k]
  BY <1>1
<1> HIDE DEF J
<1>4. /\ \E own \in Seq(Slot) : Over(c, fr, g, own)
      /\ g \in Lists /\ g # << >> /\ FlattenSeq(g) = FlattenSeq(fr)
  BY <1>1, <1>a, <1>b, OverNothing
<1>5. FrameOK(g, sn)
  BY <1>1, <1>4 DEF FrameOK
<1>6. Looping(c) => g = fr
  BY <1>b DEF Looping, Framed
<1>7. Level(c, H[n + 1], g, G, strict)
  BY <1>2, <1>4, <1>6, <1>a DEF Level
<1>8. Stack(Append(ns, c), J, G, sn, strict)
  <2>1. \/ ns = << >>
        \/ ~Looping(ns[n])
        \/ c.kind = "block" /\ H[n + 1] = H[n]
    BY <1>a DEF Open
  <2>2. QED BY <1>2, <1>3, <1>5, <1>7, <2>1, StackOpen
<1>9. c \in ConstructType
  BY <1>a DEF Sound
<1>10. Flow(Append(ns, c), res, rs, ret)
  <2>1. lv /\ Owed(c) => c.entered /\ rs = c.depth
    <3>1. lv => At(rs, FlattenSeq(fr), G, strict)
      BY DEF Good
    <3>2. QED BY <3>1, <1>a DEF At, Entered
  <2>2. QED BY <1>1, <1>2, <1>9, <1>a, <1>c, <2>1, FlowOpen
<1>11. Len(Append(ns, c)) + 1 = n + 2
  <2>1. Len(Append(ns, c)) = n + 1
    BY <1>1, <1>9, AppendIs
  <2>2. QED BY <1>1, <2>1
<1>12. res => At(rs, FlattenSeq(g), G, strict)
  BY <1>4, <1>c DEF Good
<1>d. res \in BOOLEAN
  BY <1>c DEF Owed
<1>13. Good(Append(ns, c), g, sn, res, rs, ret, J, G, strict)
  BY <1>1, <1>3, <1>8, <1>10, <1>11, <1>12, <1>d DEF Good
<1>14. J[n + 1] = fr
  BY <1>1, <1>2, <1>3
<1>15. Between(J, n, fr, g)
  BY <1>3, <1>14 DEF Between
<1>16. QED BY <1>4, <1>13, <1>15, Zenon DEF res

\* What is known of the innermost construct.
LEMMA GoodTop ==
  ASSUME NEW ns, NEW fr, NEW sn, NEW lv, NEW rs, NEW ret, NEW H, NEW G, NEW strict,
         Good(ns, fr, sn, lv, rs, ret, H, G, strict), ns # << >>, NEW n, n = Len(ns)
  PROVE  /\ n \in Nat \ {0} /\ Last(ns) = ns[n] /\ Sound(ns[n]) /\ ns[n] \in ConstructType
         /\ FrameOK(H[n], sn) /\ H[n] \in Lists /\ H[n] # << >>
         /\ Level(ns[n], H[n], fr, G, strict)
         /\ ns[n].kind # "block" => Open(Front(ns))
         /\ Looping(ns[n]) => ~Framed(ns[n])
         /\ Owed(ns[n]) => Entered(ns[n])
<1>1. ns \in Seq(ConstructType) /\ fr = H[n + 1] /\ Stack(ns, H, G, sn, strict)
  BY GoodTypes DEF Good
<1>2. /\ n \in Nat \ {0} /\ Last(ns) = ns[n] /\ ns[n] \in ConstructType
      /\ Len(Front(ns)) = n - 1 /\ \A k \in 1..(n - 1) : Front(ns)[k] = ns[k]
  BY <1>1, FrontIs
<1>3. n \in 1..n /\ n \in 1..(n + 1) /\ (n - 1) + 1 = n
  BY <1>2
<1>4. FrameOK(H[n], sn) /\ Level(ns[n], H[n], fr, G, strict)
  BY <1>1, <1>3 DEF Stack
<1>5. ASSUME ns[n].kind # "block" PROVE Open(Front(ns))
  <2>1. CASE Front(ns) = << >>
    BY <2>1 DEF Open
  <2>2. CASE Front(ns) # << >>
    <3>1. n - 1 \in 1..(n - 1)
      <4>1. Front(ns) \in Seq(ConstructType)
        BY <1>1, FrontIs
      <4>2. Len(Front(ns)) # 0
        BY <2>2, <4>1, EmptySeq
      <4>3. QED BY <1>2, <4>2
    <3>2. Looping(ns[n - 1]) => ns[(n - 1) + 1].kind = "block"
      BY <1>1, <3>1 DEF Stack
    <3>3. ~Looping(Front(ns)[Len(Front(ns))])
      BY <1>2, <1>3, <1>5, <3>1, <3>2
    <3>4. QED BY <3>3 DEF Open
  <2>3. QED BY <2>1, <2>2
<1>6. Sound(ns[n]) /\ (Owed(ns[n]) => Entered(ns[n]))
  BY <1>4 DEF Level, Sound, Owed, Entered
<1>7. QED BY <1>2, <1>4, <1>5, <1>6 DEF FrameOK, Looping, Framed

\* A construct is closed and its roots are popped: the frames are those it was
\* opened on.
LEMMA GoodClose ==
  ASSUME NEW ns, NEW fr, NEW sn, NEW lv, NEW rs, NEW ret, NEW H, NEW G, NEW strict,
         Good(ns, fr, sn, lv, rs, ret, H, G, strict), ns # << >>, NEW n, n = Len(ns),
         NEW qs, lv \/ qs = rs, lv => At(qs, FlattenSeq(H[n]), G, strict),
         NEW res, res = (lv \/ Owed(ns[n]))
  PROVE  /\ Good(Front(ns), H[n], sn, res, qs, ret, H, G, strict)
         /\ lv => ~Owed(ns[n]) /\ (ns[n].kind # "block" => ns[n].entered)
         /\ ~res /\ ~ret /\ ns[n].kind # "block" => ~ns[n].entered
<1>1. ns \in Seq(ConstructType) /\ lv \in BOOLEAN /\ ret \in BOOLEAN
  BY GoodTypes
<1>2. Stack(ns, H, G, sn, strict) /\ Flow(ns, lv, rs, ret)
  BY DEF Good
<1>3. /\ Flow(Front(ns), res, qs, ret)
      /\ Owed(ns[n]) => ~lv /\ ~ret /\ rs = ns[n].depth
      /\ lv => (ns[n].kind # "block" => ns[n].entered)
      /\ ~res /\ ~ret /\ ns[n].kind # "block" => ~ns[n].entered
  BY <1>1, <1>2, FlowClose
<1>4. Stack(Front(ns), H, G, sn, strict)
  BY <1>2, StackClose
<1>5. Len(Front(ns)) + 1 = n
  <2>1. n \in Nat \ {0} /\ Len(Front(ns)) = n - 1
    BY <1>1, FrontIs
  <2>2. QED BY <2>1
<1>6. res => At(qs, FlattenSeq(H[n]), G, strict)
  <2>1. CASE lv
    BY <2>1
  <2>2. CASE Owed(ns[n]) /\ ~lv
    <3>1. Level(ns[n], H[n], fr, G, strict) /\ Entered(ns[n])
      BY <2>2, GoodTop
    <3>2. At(ns[n].depth, FlattenSeq(H[n]), G, strict)
      BY <3>1 DEF Level
    <3>3. QED BY <1>3, <2>2, <3>2
  <2>3. QED BY <2>1, <2>2
<1>7. res \in BOOLEAN
  <2>1. Owed(ns[n]) \in BOOLEAN
    BY DEF Owed
  <2>2. QED BY <2>1, <1>1
<1>8. Good(Front(ns), H[n], sn, res, qs, ret, H, G, strict)
  BY <1>1, <1>3, <1>4, <1>5, <1>6, <1>7 DEF Good
<1>9. QED BY <1>3, <1>8

\* The frames with what an else-less if or a loop left in them: nothing, or
\* sites the execution that waited has passed by.
LEMMA GoodMerge ==
  ASSUME NEW ns, NEW fr, NEW sn, NEW lv, NEW rs, NEW ret, NEW H, NEW G, NEW strict,
         Good(ns, fr, sn, lv, rs, ret, H, G, strict), ns # << >>, NEW n, n = Len(ns),
         Looping(ns[n]), NEW res, res = (lv \/ Owed(ns[n]))
  PROVE  /\ \E J : Good(Front(ns), fr, sn, res, rs, ret, J, G, strict)
         /\ lv => ~Owed(ns[n])
<1> DEFINE J == [k \in 1..n |-> IF k = n THEN fr ELSE H[k]]
<1>1. ns \in Seq(ConstructType) /\ lv \in BOOLEAN /\ ret \in BOOLEAN /\ FrameOK(fr, sn)
      /\ n \in Nat \ {0} /\ Len(Front(ns)) = n - 1
  BY GoodTypes, FrontIs
<1>2. Stack(ns, H, G, sn, strict) /\ Flow(ns, lv, rs, ret) /\ fr = H[n + 1]
  BY DEF Good
<1>3. /\ Flow(Front(ns), res, rs, ret)
      /\ Owed(ns[n]) => ~lv /\ ~ret /\ rs = ns[n].depth
  BY <1>1, <1>2, FlowClose
<1>4. J[n] = fr /\ \A k \in 1..(n - 1) : J[k] = H[k]
  BY <1>1
<1> HIDE DEF J
<1>5. Stack(Front(ns), J, G, sn, strict)
  <2>1. ~Framed(ns[n])
    BY DEF Framed, Looping
  <2>2. J[n] = H[n + 1]
    BY <1>2, <1>4
  <2>3. QED BY <1>2, <1>4, <2>1, <2>2, StackMerge
<1>6. res => At(rs, FlattenSeq(fr), G, strict)
  <2>1. CASE lv
    BY <2>1 DEF Good
  <2>2. CASE Owed(ns[n]) /\ ~lv
    <3>1. Level(ns[n], H[n], fr, G, strict) /\ Entered(ns[n]) /\ H[n] \in Lists /\ H[n] # << >>
      BY <2>2, GoodTop
    <3>2. At(rs, FlattenSeq(H[n]), G, strict)
      BY <1>3, <2>2, <3>1 DEF Level
    <3>3. /\ strict => fr = H[n]
          /\ Range(FlattenSeq(fr)) \ Range(FlattenSeq(H[n])) \subseteq G
      BY <2>2, <3>1 DEF Level
    <3>4. CASE strict
      BY <3>2, <3>3, <3>4
    <3>5. CASE ~strict
      <4>1. PICK own \in Seq(Slot) : Over(ns[n], H[n], fr, own)
        BY <3>1 DEF Level
      <4>2. FlattenSeq(fr) = Cat(FlattenSeq(H[n]), own)
        BY <3>1, <4>1, OverFlat
      <4>3. PICK F \in Seq(Slot), E \in Seq(Slot) : F = FlattenSeq(fr) /\ E = FlattenSeq(H[n])
        BY <1>1, <3>1, FlatType DEF FrameOK
      <4>4. F = Cat(E, own) /\ IsInjective(F)
        BY <1>1, <4>2, <4>3 DEF FrameOK
      <4>a. Range(Cat(E, own)) = Range(E) \cup Range(own)
        BY CatType
      <4>b. IsInjective(Cat(E, own)) => Range(E) \cap Range(own) = {}
        BY CatInjective
      <4>5. Range(F) = Range(E) \cup Range(own) /\ Range(E) \cap Range(own) = {}
        BY <4>4, <4>a, <4>b
      <4>6. Range(own) \subseteq G
        BY <3>3, <4>3, <4>5
      <4>7. Cleared(own, G) = << >>
        BY <4>6, ClearedAll
      <4>8. Cleared(F, G) = Cat(Cleared(E, G), Cleared(own, G))
        BY <4>4, ClearedConcat
      <4>9. Cleared(E, G) \in Seq(Slot)
        BY ClearedType
      <4>10. Cleared(F, G) = Cleared(E, G)
        BY <4>7, <4>8, <4>9, CatEmpty
      <4>11. QED BY <3>2, <3>5, <4>3, <4>10 DEF At
    <3>6. QED BY <3>4, <3>5
  <2>3. QED BY <2>1, <2>2
<1>7. res \in BOOLEAN
  <2>1. Owed(ns[n]) \in BOOLEAN
    BY DEF Owed
  <2>2. QED BY <2>1, <1>1
<1>8. Good(Front(ns), fr, sn, res, rs, ret, J, G, strict)
  <2>1. fr = J[Len(Front(ns)) + 1]
    BY <1>1, <1>4
  <2>2. QED BY <1>1, <1>3, <1>5, <1>6, <1>7, <2>1 DEF Good
<1>9. QED BY <1>3, <1>8

-----------------------------------------------------------------------------
(* The variables' invariant. *)

Strict == mode \notin UnitArmValues

\* "shadow" mode pops by count, so no site may be passed by in it.
Sure == mode = "shadow" => Strict

Generated(H, G) == Good(nest, frames, sites, live, roots, returned, H, G, Strict)

\* Constructs are open in the body only, and its own block is the outermost.
Placed(st, ns) ==
  IF st = "body" THEN ns # << >> /\ ns[1].kind = "block"
  ELSE st \in {"params", "tail"} /\ ns = << >>

InProgress ==
  /\ Placed(stage, nest)
  /\ \E H, G : Generated(H, G)

Ended ==
  /\ stage = "done"
  /\ frames \in Lists /\ sites \in 0..MaxRoots /\ nest \in Seq(ConstructType)
  /\ live = FALSE /\ returned \in BOOLEAN /\ roots \in Seq(0..MaxRoots)
  /\ returned => roots = <<0>>

IInv ==
  /\ mode \in Modes
  /\ Sure => /\ terminated \in BOOLEAN /\ constructs \in 0..MaxConstructs
             /\ InProgress \/ Ended

\* What PopsItsOwn says of a step.
Own ==
  ~returned' => ToSet(roots) \ ToSet(roots') \subseteq
                  ToSet(FlattenSeq(frames)) \ ToSet(FlattenSeq(frames'))

\* A construct as the code opens it.
Fresh(c, kind, taken) ==
  /\ Sound(c) /\ c.kind = kind /\ c.before = Len(Last(frames)) /\ c.entered = live
  /\ c.taken = taken /\ c.merged = FALSE /\ c.depth = roots

\* Every construct the code opens is one.
LEMMA ConstructSound ==
  ASSUME NEW H, NEW G, Generated(H, G), NEW kind \in Kinds, NEW taken \in BOOLEAN,
         NEW c, c = Construct(kind, taken)
  PROVE  Fresh(c, kind, taken)
<1>1. /\ FrameOK(frames, sites) /\ frames \in Lists /\ frames # << >>
      /\ live \in BOOLEAN /\ roots \in Seq(0..MaxRoots)
  BY GoodTypes DEF Generated
<1>2. PICK b \in Lists, x \in Seq(Slot) : x = Last(frames) /\ frames = Append(b, x)
  BY <1>1, ListsSplit
<1>3. PICK B \in Seq(Slot) : B = FlattenSeq(b)
  BY FlatType
<1>4. FlattenSeq(frames) = Cat(B, x) /\ IsInjective(FlattenSeq(frames))
  BY <1>1, <1>2, <1>3, ListsPush DEF FrameOK
<1>5. IsInjective(x)
  <2>1. IsInjective(Cat(B, x)) => IsInjective(x)
    BY CatInjective
  <2>2. QED BY <1>4, <2>1
<1>6. Len(x) \in 0..MaxRoots
  <2>1. IsFiniteSet(Slot) /\ Cardinality(Slot) = MaxRoots
    BY FS_Interval, BoundsAssumption DEF Slot
  <2>2. Len(x) <= Cardinality(Slot)
    BY <1>5, <2>1, InjectiveFits
  <2>3. Len(x) \in Nat
    OBVIOUS
  <2>4. QED BY <2>1, <2>2, <2>3, BoundsAssumption
<1>7. c \in ConstructType
  BY <1>1, <1>2, <1>6 DEF Construct, ConstructType
<1>8. QED BY <1>7 DEF Construct, Sound, Fresh

\* Running the code of a pop that names what was added, when it comes to it.
LEMMA Popping ==
  ASSUME mode \in Modes, Sure, live, NEW G, NEW a \in Seq(Slot), NEW own \in Seq(Slot),
         NEW F, F = Cat(a, own), IsInjective(F), At(roots, F, G, Strict),
         NEW slots, NEW m, m = Len(own), Newest(slots, m) = own
  PROVE  At(Unrooted(roots, slots, m), a, G, Strict)
<1>1. Range(a) \cap Range(own) = {}
  <2>1. IsInjective(Cat(a, own)) => Range(a) \cap Range(own) = {}
    BY CatInjective
  <2>2. QED BY <2>1
<1>2. CASE mode = "shadow"
  <2>1. Strict
    BY <1>2 DEF Sure
  <2>2. At(roots, Cat(a, own), G, TRUE)
    BY <2>1 DEF At
  <2>3. At(Drop(roots, Len(own)), a, G, TRUE)
    BY <2>2, AtDropped
  <2>4. Unrooted(roots, slots, m) = Drop(roots, Len(own))
    BY <1>2 DEF Unrooted
  <2>5. QED BY <2>3, <2>4 DEF At
<1>3. CASE mode # "shadow"
  <2>1. ToSet(own) = Range(own)
    BY DEF ToSet, Range
  <2>2. Unrooted(roots, slots, m) = Cleared(roots, Range(own))
    BY <1>3, <2>1 DEF Unrooted
  <2>3. At(roots, Cat(a, own), G, Strict)
    OBVIOUS
  <2>4. At(Cleared(roots, Range(own)), a, G, Strict)
    BY <1>1, <2>3, AtCleared
  <2>5. QED BY <2>2, <2>4
<1>4. QED BY <1>2, <1>3

\* The pop at a construct's end leaves the roots of the frames below, and the
\* code's count or list goes back to what it was.
LEMMA TopPopped ==
  ASSUME mode \in Modes, Sure, NEW H, NEW G, Generated(H, G), nest # << >>,
         NEW n, n = Len(nest), NEW c, c = nest[n]
  PROVE  /\ Framed(c) =>
              /\ Front(frames) = H[n]
              /\ live => At(FramePopped(roots), FlattenSeq(H[n]), G, Strict)
              /\ live \/ FramePopped(roots) = roots
         /\ ~Framed(c) =>
              /\ Truncated(c.before) = H[n]
              /\ live => At(Unrooted(roots, Last(frames), Delta(c.before)), FlattenSeq(H[n]), G, Strict)
              /\ live \/ Unrooted(roots, Last(frames), Delta(c.before)) = roots
<1>1. /\ FrameOK(frames, sites) /\ H[n] \in Lists /\ H[n] # << >>
      /\ Level(c, H[n], frames, G, Strict)
      /\ live => At(roots, FlattenSeq(frames), G, Strict)
  BY GoodTypes, GoodTop DEF Generated, Good
<1>2. PICK own \in Seq(Slot) : Over(c, H[n], frames, own)
  BY <1>1 DEF Level
<1>3. FlattenSeq(frames) = Cat(FlattenSeq(H[n]), own)
  BY <1>1, <1>2, OverFlat
<1>4. FlattenSeq(H[n]) \in Seq(Slot) /\ IsInjective(FlattenSeq(frames))
  BY <1>1, FlatType DEF FrameOK
<1>5. ASSUME Framed(c)
      PROVE  /\ Front(frames) = H[n]
             /\ live => At(FramePopped(roots), FlattenSeq(H[n]), G, Strict)
             /\ live \/ FramePopped(roots) = roots
  <2>1. Front(frames) = H[n] /\ Last(frames) = own /\ Newest(Last(frames), Len(Last(frames))) = own
    BY <1>1, <1>2, <1>5, OverPopped
  <2>2. live => At(Unrooted(roots, Last(frames), Len(Last(frames))), FlattenSeq(H[n]), G, Strict)
    <3>1. Len(Last(frames)) = Len(own) /\ Newest(Last(frames), Len(Last(frames))) = own
      BY <2>1
    <3>2. QED BY <1>1, <1>3, <1>4, <3>1, Popping
  <2>3. QED BY <2>1, <2>2 DEF FramePopped, Unrooted
<1>6. ASSUME ~Framed(c)
      PROVE  /\ Truncated(c.before) = H[n]
             /\ live => At(Unrooted(roots, Last(frames), Delta(c.before)), FlattenSeq(H[n]), G, Strict)
             /\ live \/ Unrooted(roots, Last(frames), Delta(c.before)) = roots
  <2>1. /\ [frames EXCEPT ![Len(frames)] = SubSeq(frames[Len(frames)], 1, c.before)] = H[n]
        /\ Len(Last(frames)) - c.before = Len(own)
        /\ Newest(Last(frames), Len(Last(frames)) - c.before) = own
    BY <1>1, <1>2, <1>6, OverTruncated
  <2>2. Truncated(c.before) = H[n]
    BY <2>1 DEF Truncated
  <2>3. Delta(c.before) = Len(own) /\ Newest(Last(frames), Delta(c.before)) = own
    BY <2>1 DEF Delta
  <2>4. live => At(Unrooted(roots, Last(frames), Delta(c.before)), FlattenSeq(H[n]), G, Strict)
    BY <1>1, <1>3, <1>4, <2>3, Popping
  <2>5. QED BY <2>2, <2>4 DEF Unrooted
<1>7. QED BY <1>5, <1>6

\* A return pops the roots of every frame.
LEMMA Unwinding ==
  ASSUME mode \in Modes, Sure, NEW H, NEW G, Generated(H, G)
  PROVE  IF live THEN Unwound = <<0>> ELSE Unwound = roots
<1>1. CASE ~live
  BY <1>1 DEF Unwound
<1>2. CASE live
  <2>1. PICK F \in Seq(Slot) : F = FlattenSeq(frames) /\ IsInjective(F) /\ At(roots, F, G, Strict)
    BY <1>2, GoodTypes DEF Generated, Good, FrameOK
  <2>2. PICK a \in Seq(Slot) : a = << >>
    <3>1. << >> \in Seq(Slot)
      OBVIOUS
    <3>2. QED BY <3>1, Zenon
  <2>3. F = Cat(a, F)
    BY <2>2, CatEmpty
  <2>4. Newest(F, Len(F)) = F
    <3>1. PICK k \in Nat : k = Len(F)
      OBVIOUS
    <3>2. (k + 1) - k = 1 /\ SubSeq(F, 1, k) = F
      BY <3>1
    <3>3. QED BY <3>1, <3>2 DEF Newest
  <2>5. At(Unrooted(roots, F, Len(F)), a, G, Strict)
    BY <1>2, <2>1, <2>3, <2>4, Popping
  <2>6. Unrooted(roots, F, Len(F)) = Unwound
    BY <1>2, <2>1, <2>4 DEF Unrooted, Unwound, Sum
  <2>7. Unwound = Cat(<<0>>, << >>)
    BY <2>2, <2>5, <2>6, ClearedEmpty DEF At
  <2>8. Cat(<<0>>, << >>) = <<0>>
    <3>1. <<0>> \in Seq(Nat)
      OBVIOUS
    <3>2. QED BY <3>1, CatEmpty
  <2>9. QED BY <1>2, <2>7, <2>8
<1>3. QED BY <1>1, <1>2

\* Two constructs opened at once are opened one after the other.
LEMMA AppendTwo ==
  ASSUME NEW S, NEW ns \in Seq(S), NEW c \in S, NEW d \in S
  PROVE  ns \o <<c, d>> = Append(Append(ns, c), d)
<1>1. PICK n \in Nat : n = Len(ns)
  OBVIOUS
<1> DEFINE l == ns \o <<c, d>>
           r == Append(Append(ns, c), d)
<1>2. l \in Seq(S) /\ Len(l) = n + 2 /\ l[n + 1] = c /\ l[n + 2] = d /\ \A i \in 1..n : l[i] = ns[i]
  BY <1>1
<1>3. r \in Seq(S) /\ Len(r) = n + 2 /\ r[n + 1] = c /\ r[n + 2] = d /\ \A i \in 1..n : r[i] = ns[i]
  BY <1>1
<1> HIDE DEF l, r
<1>4. \A i \in 1..(n + 2) : l[i] = r[i]
  <2>1. \A i \in 1..(n + 2) : i \in 1..n \/ i = n + 1 \/ i = n + 2
    OBVIOUS
  <2>2. QED BY <1>2, <1>3, <2>1
<1>5. l = r
  BY <1>2, <1>3, <1>4, SeqEqual
<1>6. QED BY <1>5 DEF l, r

\* A value's chokepoint registers at most one site.
LEMMA GoodValued ==
  ASSUME NEW ns, NEW fr, NEW sn, NEW lv, NEW rs, NEW ret, NEW H, NEW G, NEW strict,
         Good(ns, fr, sn, lv, rs, ret, H, G, strict),
         NEW v \in BOOLEAN, NEW s, s = sn + 1,
         v => sn < MaxRoots,
         v => Chokes(ns, strict),
         NEW gr, gr = IF v THEN Registering(fr, s) ELSE fr,
         NEW sm, sm = IF v THEN s ELSE sn,
         NEW qs, qs = IF v THEN Rooting(rs, lv, s) ELSE rs
  PROVE  \E J, K : Good(ns, gr, sm, lv, qs, ret, J, K, strict) /\ (lv => K = G)
<1>1. CASE v
  <2>1. sn \in Nat
    BY GoodTypes
  <2>2. s \in Slot
    BY <1>1, <2>1, BoundsAssumption DEF Slot
  <2>3. gr = Registering(fr, s) /\ sm = s /\ qs = Rooting(rs, lv, s)
    BY <1>1
  <2>4. Chokes(ns, strict)
    BY <1>1
  <2>5. \E J, K : Good(ns, gr, s, lv, qs, ret, J, K, strict) /\ (lv => K = G)
    BY <2>2, <2>3, <2>4, GoodRegister
  <2>6. QED BY <2>3, <2>5
<1>2. CASE ~v
  <2>1. gr = fr /\ sm = sn /\ qs = rs
    BY <1>2
  <2>2. Good(ns, gr, sm, lv, qs, ret, H, G, strict)
    BY <2>1
  <2>3. QED BY <2>2, Zenon
<1>3. QED BY <1>1, <1>2

\* What is left to show of a step: the new state, and what it does to the roots
\* when the execution takes it and goes on.
LEMMA Advance ==
  ASSUME mode \in Modes, mode' = mode, terminated' \in BOOLEAN,
         constructs' \in 0..MaxConstructs, Placed(stage', nest'),
         NEW H, NEW G, NEW J, NEW K, Generated(H, G),
         Good(nest', frames', sites', live', roots', returned', J, K, Strict),
         live /\ ~returned' => At(roots', FlattenSeq(frames'), G, Strict),
         ~live => \/ roots' = roots
                  \/ \E s \in Slot : roots' = Append(roots, s)
  PROVE  IInv' /\ Own
<1>1. Strict' = Strict
  BY DEF Strict
<1>2. Good(nest', frames', sites', live', roots', returned', J, K, Strict')
  BY <1>1
<1>3. (\E A, B : Generated(A, B))'
  BY <1>2 DEF Generated
<1>4. InProgress'
  BY <1>3 DEF InProgress
<1>5. IInv'
  BY <1>4 DEF IInv
<1>6. PICK F \in Seq(Slot), F1 \in Seq(Slot) : F = FlattenSeq(frames) /\ F1 = FlattenSeq(frames')
  <2>1. FlattenSeq(frames) \in Seq(Slot)
    BY GoodTypes DEF Generated
  <2>2. FlattenSeq(frames') \in Seq(Slot)
    BY GoodTypes
  <2>3. QED BY <2>1, <2>2
<1>7. ToSet(F) = Range(F) /\ ToSet(F1) = Range(F1) /\ ToSet(roots) = Range(roots) /\ ToSet(roots') = Range(roots')
  BY DEF ToSet, Range
<1>8. CASE ~live
  <2>1. roots \in Seq(0..MaxRoots)
    BY GoodTypes DEF Generated
  <2>2. \A s \in Slot : Range(Append(roots, s)) = Range(roots) \cup {s}
    <3> DEFINE T == 0..MaxRoots
    <3>1. roots \in Seq(T) /\ \A s \in Slot : s \in T
      BY <2>1 DEF Slot
    <3> HIDE DEF T
    <3>2. \A s \in T : Range(Append(roots, s)) = Range(roots) \cup {s}
      BY <3>1, RangeAppend
    <3>3. QED BY <3>1, <3>2
  <2>3. Range(roots) \subseteq Range(roots')
    <3>1. CASE roots' = roots
      BY <3>1
    <3>2. CASE \E s \in Slot : roots' = Append(roots, s)
      <4>1. PICK s \in Slot : roots' = Append(roots, s)
        BY <3>2
      <4>2. Range(Append(roots, s)) = Range(roots) \cup {s}
        BY <2>2
      <4>3. Range(roots') = Range(Append(roots, s))
        BY <4>1
      <4>4. QED BY <4>2, <4>3
    <3>3. QED BY <1>8, <3>1, <3>2
  <2>4. QED BY <1>5, <1>7, <2>3 DEF Own
<1>9. CASE live /\ ~returned'
  <2>1. At(roots, F, G, Strict) /\ At(roots', F1, G, Strict)
    BY <1>6, <1>9 DEF Generated, Good
  <2>2. Range(roots) = {0} \cup (Range(F) \ G)
    BY <2>1, AtType
  <2>3. Range(roots') = {0} \cup (Range(F1) \ G)
    BY <2>1, AtType
  <2>4. Range(roots) \ Range(roots') \subseteq Range(F) \ Range(F1)
    BY <2>2, <2>3
  <2>5. ToSet(FlattenSeq(frames)) = Range(F) /\ ToSet(FlattenSeq(frames')) = Range(F1)
    BY <1>6, <1>7
  <2>6. QED BY <1>5, <1>7, <2>4, <2>5 DEF Own
<1>10. CASE returned'
  BY <1>5, <1>10 DEF Own
<1>11. QED BY <1>8, <1>9, <1>10

-----------------------------------------------------------------------------
(* What the operations share.                                              *)

\* Opening a construct keeps the body's block outermost.
LEMMA PlacedAppend ==
  ASSUME NEW S, NEW ns \in Seq(S), NEW c \in S, Placed("body", ns)
  PROVE  Placed("body", Append(ns, c))
<1>1. PICK n \in Nat : n = Len(ns) /\ n # 0
  BY EmptySeq DEF Placed
<1>2. 1 \in 1..n /\ 1 \in 1..(n + 1)
  BY <1>1
<1>3. Len(Append(ns, c)) = n + 1 /\ Append(ns, c)[1] = ns[1]
  BY <1>1, <1>2
<1>4. Append(ns, c) # << >>
  <2>1. Len(<< >>) = 0 /\ n + 1 # 0
    OBVIOUS
  <2>2. QED BY <1>3, <2>1
<1>5. QED BY <1>3, <1>4 DEF Placed

\* Closing one does too, unless it is that block.
LEMMA PlacedFront ==
  ASSUME NEW S, NEW ns \in Seq(S), NEW n, n = Len(ns), Placed("body", ns)
  PROVE  /\ ns # << >> /\ n \in Nat \ {0}
         /\ n = 1 => Front(ns) = << >>
         /\ n # 1 => Placed("body", Front(ns))
         /\ ns[n].kind # "block" => n # 1
<1>1. ns # << >> /\ ns[1].kind = "block"
  BY DEF Placed
<1>2. /\ n \in Nat \ {0} /\ Front(ns) \in Seq(S) /\ Len(Front(ns)) = n - 1
      /\ \A k \in 1..(n - 1) : Front(ns)[k] = ns[k]
  BY <1>1, FrontIs
<1>3. n = 1 => Front(ns) = << >>
  BY <1>2, EmptySeq
<1>4. ASSUME n # 1 PROVE Placed("body", Front(ns))
  <2>1. 1 \in 1..(n - 1) /\ n - 1 # 0
    BY <1>2, <1>4
  <2>2. Front(ns)[1] = ns[1] /\ Front(ns) # << >>
    BY <1>2, <2>1, EmptySeq
  <2>3. QED BY <1>1, <2>2 DEF Placed
<1>5. QED BY <1>1, <1>2, <1>3, <1>4

\* A block is opened where a construct may be, or as the body of one.
MayNest(ns, H) == Open(ns) \/ H[Len(ns) + 1] = H[Len(ns)]

\* Its frame is a new one, and the execution goes into it.
LEMMA GoodBlock ==
  ASSUME NEW A, NEW B, Generated(A, B),
         NEW ns, NEW fr, NEW sn, NEW lv, NEW rs, NEW ret, NEW H, NEW G, NEW strict,
         Good(ns, fr, sn, lv, rs, ret, H, G, strict),
         MayNest(ns, H)
  PROVE  /\ Plain \in ConstructType /\ Plain.kind = "block"
         /\ FlattenSeq(Append(fr, << >>)) = FlattenSeq(fr)
         /\ \E J : Good(Append(ns, Plain), Append(fr, << >>), sn, lv, rs, ret, J, G, strict)
<1> DEFINE c == Plain
           g == Append(fr, << >>)
<1>1. Sound(c) /\ c.kind = "block" /\ c.merged = FALSE
  <2>1. "block" \in Kinds /\ TRUE \in BOOLEAN
    BY DEF Kinds
  <2>2. Fresh(c, "block", TRUE)
    BY <2>1, ConstructSound DEF Plain
  <2> HIDE DEF c
  <2>3. QED BY <2>2 DEF Fresh
<1> HIDE DEF c
<1>2. ~Owed(c) /\ Framed(c) /\ ~Entered(c)
  BY <1>1 DEF Owed, Framed, Entered
<1>3. g = Inside(c, fr)
  BY <1>2 DEF Inside
<1>4. GoesIn(c, lv) = lv
  <2>1. lv \in BOOLEAN
    BY GoodTypes
  <2>2. QED BY <1>2, <2>1 DEF GoesIn
<1> HIDE DEF g
<1>a. MayOpen(c, ns, fr, lv, ret, H, G, strict)
  BY <1>1, <1>2 DEF MayOpen, MayNest
<1>b. PICK n : n = Len(ns)
  OBVIOUS
<1>d. \E J : /\ Good(Append(ns, c), g, sn, GoesIn(c, lv), rs, ret, J, G, strict)
             /\ FlattenSeq(g) = FlattenSeq(fr)
             /\ Between(J, n, fr, g)
  BY <1>3, <1>a, <1>b, GoodOpen
<1>5. PICK J : /\ Good(Append(ns, c), g, sn, lv, rs, ret, J, G, strict)
               /\ FlattenSeq(g) = FlattenSeq(fr)
  BY <1>4, <1>d
<1>6. c \in ConstructType
  BY <1>1 DEF Sound
<1>7. QED BY <1>1, <1>5, <1>6 DEF c, g

\* The constructs that choose where the execution goes.
Starts(kind, taken) == kind \in {"then", "unit", "loop", "arm"} \/ (kind = "cond" /\ taken)
FirstFrames(kind) == IF kind = "arm" THEN Append(frames, << >>) ELSE frames

\* A branching construct is opened where the execution is: it goes into the
\* first branch, or waits.
LEMMA Opened ==
  ASSUME NEW H, NEW G, Generated(H, G), Open(nest),
         NEW kind \in Kinds, NEW taken \in BOOLEAN,
         Starts(kind, taken),
         NEW c, c = Construct(kind, taken),
         NEW g, g = FirstFrames(kind),
         NEW n, n = Len(nest)
  PROVE  /\ c \in ConstructType /\ c.kind = kind /\ FlattenSeq(g) = FlattenSeq(frames)
         /\ \E J : /\ Good(Append(nest, c), g, sites, live /\ taken, roots, returned, J, G, Strict)
                   /\ Between(J, n, frames, g)
<1>1. /\ Sound(c) /\ c.kind = kind /\ c.before = Len(Last(frames)) /\ c.entered = live
      /\ c.taken = taken /\ c.merged = FALSE /\ c.depth = roots
  <2>1. Fresh(c, kind, taken)
    BY ConstructSound, Zenon
  <2>2. QED BY <2>1 DEF Fresh
<1>2. live \in BOOLEAN /\ (live => At(roots, FlattenSeq(frames), G, Strict))
  BY DEF Generated, Good
<1>3. Framed(c) <=> kind = "arm"
  BY <1>1 DEF Framed, Starts
<1>4. Owed(c) <=> live /\ ~taken
  BY <1>1 DEF Owed, Starts
<1>5. Entered(c) <=> live
  BY <1>1 DEF Entered, Starts
<1>6. GoesIn(c, live) = (live /\ taken)
  BY <1>2, <1>4 DEF GoesIn
<1>7. MayOpen(c, nest, frames, live, returned, H, G, Strict)
  <2>1. Entered(c) => At(c.depth, FlattenSeq(frames), G, Strict)
    BY <1>1, <1>2, <1>5
  <2>2. QED BY <1>1, <1>4, <1>5, <2>1 DEF MayOpen
<1>8. g = Inside(c, frames)
  BY <1>3 DEF Inside, FirstFrames
<1>9. Good(nest, frames, sites, live, roots, returned, H, G, Strict)
  BY DEF Generated
<1>11. \E J : /\ Good(Append(nest, c), g, sites, GoesIn(c, live), roots, returned, J, G, Strict)
              /\ FlattenSeq(g) = FlattenSeq(frames)
              /\ Between(J, n, frames, g)
  BY <1>7, <1>8, <1>9, GoodOpen, Zenon
<1>12. c \in ConstructType
  BY <1>1 DEF Sound
<1>13. QED BY <1>1, <1>6, <1>11, <1>12

\* Where a construct may be opened.
LEMMA OpeningIs ==
  ASSUME InProgress, Opening, constructs \in 0..MaxConstructs
  PROVE  /\ Open(nest) /\ stage = "body" /\ Placed("body", nest)
         /\ constructs' \in 0..MaxConstructs
<1>1. stage = "body" /\ Last(nest).kind \in {"block", "cond", "elseif", "arm"}
  BY DEF Opening, Generating
<1>2. Open(nest)
  BY <1>1 DEF Open, Looping, Last
<1>3. constructs' \in 0..MaxConstructs
  BY BoundsAssumption DEF Opening
<1>4. QED BY <1>1, <1>2, <1>3 DEF InProgress

\* What the end of c leaves: its frame is dropped, or what it added to a frame.
ClosedFrames(c) == IF Framed(c) THEN Front(frames) ELSE Truncated(c.before)
ClosedRoots(c) ==
  IF Framed(c) THEN FramePopped(roots) ELSE Unrooted(roots, Last(frames), Delta(c.before))

\* A construct is closed: its roots are popped, and its frame or the rest of
\* its frame forgotten.
LEMMA Closed ==
  ASSUME mode \in Modes, Sure, NEW H, NEW G, Generated(H, G), nest # << >>,
         NEW n, n = Len(nest), NEW c, c = nest[n],
         NEW fr, fr = ClosedFrames(c), NEW rs, rs = ClosedRoots(c),
         NEW res, res = (live \/ Owed(c))
  PROVE  /\ Good(Front(nest), fr, sites, res, rs, returned, H, G, Strict)
         /\ live => At(rs, FlattenSeq(fr), G, Strict)
         /\ live \/ rs = roots
         /\ live => ~Owed(c) /\ (c.kind # "block" => c.entered)
         /\ ~res /\ ~returned /\ c.kind # "block" => ~c.entered
         /\ Sound(c) /\ Last(nest) = c /\ n \in Nat \ {0}
         /\ c.kind # "block" => Open(Front(nest))
         /\ Entered(c) => At(c.depth, FlattenSeq(fr), G, Strict)
         /\ ~Framed(c) => c.before = Len(Last(fr))
<1>1. fr = H[n] /\ (live => At(rs, FlattenSeq(H[n]), G, Strict)) /\ (live \/ rs = roots)
  BY TopPopped DEF ClosedFrames, ClosedRoots
<1>2. Good(nest, frames, sites, live, roots, returned, H, G, Strict)
  BY DEF Generated
<1>3. /\ Good(Front(nest), H[n], sites, res, rs, returned, H, G, Strict)
      /\ live => ~Owed(c) /\ (c.kind # "block" => c.entered)
      /\ ~res /\ ~returned /\ c.kind # "block" => ~c.entered
  BY <1>1, <1>2, GoodClose
<1>4. /\ Sound(c) /\ Last(nest) = c /\ n \in Nat \ {0}
      /\ c.kind # "block" => Open(Front(nest))
      /\ Level(c, H[n], frames, G, Strict)
  BY <1>2, GoodTop
<1>5. Entered(c) => At(c.depth, FlattenSeq(fr), G, Strict)
  BY <1>1, <1>4 DEF Level
<1>6. ~Framed(c) => c.before = Len(Last(fr))
  BY <1>1, <1>4 DEF Level, Over
<1>7. QED BY <1>1, <1>3, <1>4, <1>5, <1>6

\* A construct is opened together with the block that is its first branch.
LEMMA OpenedAround ==
  ASSUME NEW H, NEW G, Generated(H, G), Open(nest),
         NEW kind \in {"then", "unit", "loop"}, NEW taken \in BOOLEAN,
         NEW c, c = Construct(kind, taken)
  PROVE  /\ c \in ConstructType /\ Plain \in ConstructType
         /\ nest \o <<c, Plain>> = Append(Append(nest, c), Plain)
         /\ FlattenSeq(Append(frames, << >>)) = FlattenSeq(frames)
         /\ \E J : Good(Append(Append(nest, c), Plain), Append(frames, << >>), sites,
                        live /\ taken, roots, returned, J, G, Strict)
<1>1. kind \in Kinds /\ Starts(kind, taken) /\ kind # "arm"
  BY DEF Kinds, Starts
<1>2. PICK n : n = Len(nest)
  OBVIOUS
<1>3. /\ c \in ConstructType /\ c.kind = kind
      /\ \E J : /\ Good(Append(nest, c), frames, sites, live /\ taken, roots, returned, J, G, Strict)
                /\ Between(J, n, frames, frames)
  <2>1. PICK g : g = FirstFrames(kind)
    OBVIOUS
  <2>2. g = frames
    BY <1>1, <2>1 DEF FirstFrames
  <2>3. /\ c \in ConstructType /\ c.kind = kind
        /\ \E J : /\ Good(Append(nest, c), g, sites, live /\ taken, roots, returned, J, G, Strict)
                  /\ Between(J, n, frames, g)
    BY <1>1, <1>2, <2>1, Opened
  <2>4. QED BY <2>2, <2>3
<1>4. PICK J : /\ Good(Append(nest, c), frames, sites, live /\ taken, roots, returned, J, G, Strict)
               /\ Between(J, n, frames, frames)
  BY <1>3
<1>5. nest \in Seq(ConstructType)
  BY GoodTypes DEF Generated
<1>7. MayNest(Append(nest, c), J)
  <2>1. n \in Nat /\ Len(Append(nest, c)) = n + 1
    BY <1>2, <1>3, <1>5, AppendIs
  <2>2. (n + 1) + 1 = n + 2
    BY <2>1
  <2>3. QED BY <1>4, <2>1, <2>2 DEF Between, MayNest
<1>8. PICK lv : lv = (live /\ taken)
  OBVIOUS
<1>9. Good(Append(nest, c), frames, sites, lv, roots, returned, J, G, Strict)
  BY <1>4, <1>8
<1>10. /\ Plain \in ConstructType
       /\ FlattenSeq(Append(frames, << >>)) = FlattenSeq(frames)
       /\ \E A : Good(Append(Append(nest, c), Plain), Append(frames, << >>), sites,
                      lv, roots, returned, A, G, Strict)
  BY <1>7, <1>9, GoodBlock
<1>11. nest \o <<c, Plain>> = Append(Append(nest, c), Plain)
  BY <1>3, <1>5, <1>10, AppendTwo
<1>12. QED BY <1>3, <1>8, <1>10, <1>11

\* What is known before a step.
LEMMA Before ==
  ASSUME NEW H, NEW G, Generated(H, G)
  PROVE  /\ Good(nest, frames, sites, live, roots, returned, H, G, Strict)
         /\ nest \in Seq(ConstructType)
         /\ live => At(roots, FlattenSeq(frames), G, Strict)
BY GoodTypes DEF Generated, Good

-----------------------------------------------------------------------------
(* One lemma per operation: it keeps the invariant, and pops what it should. *)

\* Rooting a parameter, a binding or a value.
LEMMA RegisterKeeps ==
  ASSUME IInv, Sure, InProgress, Register
  PROVE  IInv' /\ Own
<1>1. PICK H, G : Generated(H, G)
  BY DEF InProgress
<1>2. PICK s : s = sites + 1
  OBVIOUS
<1>3. Chokes(nest, Strict)
  BY DEF Register, Generating, InProgress, Placed, Open, Looping, Last, Chokes
<1>4. /\ frames' = Registering(frames, s) /\ sites' = s
      /\ roots' = Rooting(roots, live, s) /\ sites < MaxRoots
  BY <1>2 DEF Register, Choke, Count, MayRoot, Registered, Registering, Pushed, Rooting
<1>a. s \in Slot
  BY <1>1, <1>2, <1>4, GoodTypes, BoundsAssumption DEF Slot, Generated
<1>b. \E J, K : Good(nest, frames', s, live, roots', returned, J, K, Strict) /\ (live => K = G)
  BY <1>1, <1>2, <1>3, <1>4, <1>a, GoodRegister DEF Generated
<1>5. PICK J, K : Good(nest, frames', sites', live, roots', returned, J, K, Strict) /\ (live => K = G)
  BY <1>4, <1>b
<1>6. UNCHANGED <<mode, nest, terminated, stage, constructs, live, returned>>
  BY DEF Register
<1>7. live => At(roots', FlattenSeq(frames'), G, Strict)
  BY <1>5 DEF Good
<1>8. ~live => roots' = roots
  BY <1>4 DEF Rooting
<1>9. Good(nest', frames', sites', live', roots', returned', J, K, Strict)
  BY <1>5, <1>6
<1>10. Placed(stage', nest')
  BY <1>6 DEF InProgress
<1>11. QED BY <1>1, <1>6, <1>7, <1>8, <1>9, <1>10, Advance DEF IInv

\* The body's own block.
LEMMA OpenBodyKeeps ==
  ASSUME IInv, Sure, InProgress, OpenBody
  PROVE  IInv' /\ Own
<1>1. PICK H, G : Generated(H, G)
  BY DEF InProgress
<1>2. /\ Good(nest, frames, sites, live, roots, returned, H, G, Strict)
      /\ nest \in Seq(ConstructType)
      /\ live => At(roots, FlattenSeq(frames), G, Strict)
  BY <1>1, Before
<1>3. nest = << >> /\ Open(nest)
  BY DEF OpenBody, InProgress, Placed, Open
<1>5. /\ Plain \in ConstructType /\ Plain.kind = "block"
      /\ FlattenSeq(Append(frames, << >>)) = FlattenSeq(frames)
      /\ \E J : Good(Append(nest, Plain), Append(frames, << >>), sites, live, roots, returned, J, G, Strict)
  BY <1>1, <1>2, <1>3, GoodBlock DEF MayNest
<1>6. /\ stage' = "body" /\ frames' = Append(frames, << >>) /\ nest' = Append(nest, Plain)
      /\ UNCHANGED <<mode, terminated, sites, constructs, live, roots, returned>>
  BY <1>3 DEF OpenBody
<1>7. PICK J : Good(nest', frames', sites', live', roots', returned', J, G, Strict)
  BY <1>5, <1>6
<1>8. Placed(stage', nest')
  <2>1. nest' # << >> /\ nest'[1] = Plain
    BY <1>3, <1>6
  <2>2. QED BY <1>5, <1>6, <2>1 DEF Placed
<1>9. live => At(roots', FlattenSeq(frames'), G, Strict)
  BY <1>2, <1>5, <1>6
<1>10. QED BY <1>1, <1>6, <1>7, <1>8, <1>9, Advance DEF IInv

\* A block.
LEMMA OpenBlockKeeps ==
  ASSUME IInv, Sure, InProgress, OpenBlock
  PROVE  IInv' /\ Own
<1>1. PICK H, G : Generated(H, G)
  BY DEF InProgress
<1>2. /\ Good(nest, frames, sites, live, roots, returned, H, G, Strict)
      /\ nest \in Seq(ConstructType)
      /\ live => At(roots, FlattenSeq(frames), G, Strict)
  BY <1>1, Before
<1>3. /\ Open(nest) /\ stage = "body" /\ Placed("body", nest)
      /\ constructs' \in 0..MaxConstructs
  BY OpeningIs DEF OpenBlock, IInv
<1>5. /\ Plain \in ConstructType
      /\ FlattenSeq(Append(frames, << >>)) = FlattenSeq(frames)
      /\ \E J : Good(Append(nest, Plain), Append(frames, << >>), sites, live, roots, returned, J, G, Strict)
  BY <1>1, <1>2, <1>3, GoodBlock DEF MayNest
<1>6. /\ frames' = Append(frames, << >>) /\ nest' = Append(nest, Plain)
      /\ UNCHANGED <<mode, terminated, stage, sites, live, roots, returned>>
  BY DEF OpenBlock
<1>7. PICK J : Good(nest', frames', sites', live', roots', returned', J, G, Strict)
  BY <1>5, <1>6
<1>8. Placed(stage', nest')
  BY <1>2, <1>3, <1>5, <1>6, PlacedAppend
<1>9. live => At(roots', FlattenSeq(frames'), G, Strict)
  BY <1>2, <1>5, <1>6
<1>10. QED BY <1>1, <1>3, <1>6, <1>7, <1>8, <1>9, Advance DEF IInv

\* An if or a for, with its first branch.
LEMMA OpenAroundKeeps ==
  ASSUME IInv, Sure, InProgress, NEW kind \in {"then", "unit", "loop"}, NEW taken \in BOOLEAN,
         Opening,
         nest' = nest \o <<Construct(kind, taken), Plain>>,
         frames' = Append(frames, << >>),
         live' = (live /\ taken),
         UNCHANGED <<mode, terminated, stage, sites, roots, returned>>
  PROVE  IInv' /\ Own
<1>1. PICK H, G : Generated(H, G)
  BY DEF InProgress
<1>2. nest \in Seq(ConstructType) /\ (live => At(roots, FlattenSeq(frames), G, Strict))
  BY <1>1, Before
<1>3. /\ Open(nest) /\ stage = "body" /\ Placed("body", nest)
      /\ constructs' \in 0..MaxConstructs
  BY OpeningIs DEF IInv
<1>4. PICK c : c = Construct(kind, taken)
  OBVIOUS
<1>5. /\ c \in ConstructType /\ Plain \in ConstructType
      /\ nest \o <<c, Plain>> = Append(Append(nest, c), Plain)
      /\ FlattenSeq(Append(frames, << >>)) = FlattenSeq(frames)
      /\ \E J : Good(Append(Append(nest, c), Plain), Append(frames, << >>), sites,
                     live /\ taken, roots, returned, J, G, Strict)
  BY <1>1, <1>3, <1>4, OpenedAround
<1>6. nest' = Append(Append(nest, c), Plain)
  BY <1>4, <1>5
<1>7. PICK J : Good(nest', frames', sites', live', roots', returned', J, G, Strict)
  BY <1>5, <1>6
<1>8. Placed(stage', nest')
  <2>1. Append(nest, c) \in Seq(ConstructType)
    BY <1>2, <1>5
  <2>2. Placed("body", Append(nest, c))
    BY <1>2, <1>3, <1>5, PlacedAppend
  <2>3. Placed("body", Append(Append(nest, c), Plain))
    BY <1>5, <2>1, <2>2, PlacedAppend
  <2>4. QED BY <1>3, <1>6, <2>3
<1>9. live => At(roots', FlattenSeq(frames'), G, Strict)
  BY <1>2, <1>5
<1>10. QED BY <1>1, <1>3, <1>7, <1>8, <1>9, Advance DEF IInv

\* A while's condition or a match's first arm.
LEMMA OpenOneKeeps ==
  ASSUME IInv, Sure, InProgress, NEW kind \in {"cond", "arm"}, NEW taken \in BOOLEAN,
         kind = "cond" => taken,
         Opening,
         nest' = Append(nest, Construct(kind, taken)),
         frames' = IF kind = "arm" THEN Append(frames, << >>) ELSE frames,
         live' = (live /\ taken),
         UNCHANGED <<mode, terminated, stage, sites, roots, returned>>
  PROVE  IInv' /\ Own
<1>1. PICK H, G : Generated(H, G)
  BY DEF InProgress
<1>2. nest \in Seq(ConstructType) /\ (live => At(roots, FlattenSeq(frames), G, Strict))
  BY <1>1, Before
<1>3. /\ Open(nest) /\ stage = "body" /\ Placed("body", nest)
      /\ constructs' \in 0..MaxConstructs
  BY OpeningIs DEF IInv
<1>4. PICK c, n : c = Construct(kind, taken) /\ n = Len(nest)
  OBVIOUS
<1>a. kind \in Kinds /\ Starts(kind, taken)
  BY DEF Kinds, Starts
<1>5. /\ c \in ConstructType /\ FlattenSeq(frames') = FlattenSeq(frames)
      /\ \E J : /\ Good(Append(nest, c), frames', sites, live /\ taken, roots, returned, J, G, Strict)
                /\ Between(J, n, frames, frames')
  <2>1. PICK g : g = FirstFrames(kind)
    OBVIOUS
  <2>2. /\ c \in ConstructType /\ FlattenSeq(g) = FlattenSeq(frames)
        /\ \E J : /\ Good(Append(nest, c), g, sites, live /\ taken, roots, returned, J, G, Strict)
                  /\ Between(J, n, frames, g)
    BY <1>1, <1>3, <1>4, <1>a, <2>1, Opened
  <2>3. QED BY <2>1, <2>2 DEF FirstFrames
<1>6. nest' = Append(nest, c)
  BY <1>4
<1>7. PICK J : Good(nest', frames', sites', live', roots', returned', J, G, Strict)
  BY <1>5, <1>6
<1>8. Placed(stage', nest')
  BY <1>2, <1>3, <1>5, <1>6, PlacedAppend
<1>9. live => At(roots', FlattenSeq(frames'), G, Strict)
  BY <1>2, <1>5
<1>10. QED BY <1>1, <1>3, <1>7, <1>8, <1>9, Advance DEF IInv

\* The innermost construct of the body.
LEMMA Innermost ==
  ASSUME Sure, InProgress, IInv, stage = "body", NEW n, n = Len(nest), NEW c, c = nest[n]
  PROVE  /\ nest \in Seq(ConstructType) /\ Placed("body", nest) /\ nest # << >>
         /\ Sound(c) /\ c \in ConstructType /\ Last(nest) = c /\ n \in Nat \ {0}
         /\ live \in BOOLEAN
         /\ live => ~Owed(c) /\ (c.kind # "block" => c.entered)
         /\ Owed(c) => Entered(c)
         /\ c.kind # "block" => /\ n # 1 /\ Open(Front(nest))
                                /\ Placed("body", Front(nest))
<1>1. PICK H, G : Generated(H, G)
  BY DEF InProgress
<1>2. nest \in Seq(ConstructType) /\ live \in BOOLEAN
  BY <1>1, GoodTypes DEF Generated
<1>3. Placed("body", nest)
  BY DEF InProgress
<1>4. /\ nest # << >> /\ n \in Nat \ {0}
      /\ n # 1 => Placed("body", Front(nest))
      /\ c.kind # "block" => n # 1
  BY <1>2, <1>3, PlacedFront
<1>5. /\ Last(nest) = c /\ Sound(c) /\ c \in ConstructType
      /\ c.kind # "block" => Open(Front(nest))
      /\ Owed(c) => Entered(c)
  BY <1>1, <1>4, GoodTop DEF Generated
<1>6. live => ~Owed(c) /\ (c.kind # "block" => c.entered)
  BY <1>1, <1>4, Closed DEF IInv
<1>7. QED BY <1>2, <1>3, <1>4, <1>5, <1>6

\* A construct is closed, its value rooted if it has one.
LEMMA CloseKeeps ==
  ASSUME IInv, Sure, InProgress, stage = "body",
         NEW n, n = Len(nest), NEW c, c = nest[n],
         NEW fr, fr = ClosedFrames(c), NEW rs, rs = ClosedRoots(c),
         NEW lv, lv = (live \/ Owed(c)), NEW v \in BOOLEAN, NEW s, s = sites + 1,
         v => sites < MaxRoots, v => Chokes(Front(nest), Strict),
         frames' = IF v THEN Registering(fr, s) ELSE fr,
         sites' = IF v THEN s ELSE sites,
         roots' = IF v THEN Rooting(rs, lv, s) ELSE rs,
         live' = lv, nest' = Front(nest), stage' = IF n = 1 THEN "tail" ELSE stage,
         terminated' \in BOOLEAN, UNCHANGED <<mode, constructs, returned>>
  PROVE  IInv' /\ Own
<1>1. PICK H, G : Generated(H, G)
  BY DEF InProgress
<1>2. /\ nest \in Seq(ConstructType) /\ Placed("body", nest) /\ nest # << >>
      /\ n \in Nat \ {0}
  BY Innermost
<1>3. /\ Good(Front(nest), fr, sites, lv, rs, returned, H, G, Strict)
      /\ live \/ rs = roots
  BY <1>1, <1>2, Closed DEF IInv
<1>4. \E J, K : Good(Front(nest), frames', sites', lv, roots', returned, J, K, Strict) /\ (lv => K = G)
  BY <1>3, GoodValued
<1>5. PICK J, K : Good(Front(nest), frames', sites', lv, roots', returned, J, K, Strict) /\ (lv => K = G)
  BY <1>4
<1>6. Good(nest', frames', sites', live', roots', returned', J, K, Strict)
  BY <1>5
<1>7. live => At(roots', FlattenSeq(frames'), G, Strict)
  BY <1>5 DEF Good
<1>8. ~live => roots' = roots \/ \E e \in Slot : roots' = Append(roots, e)
  <2>1. v => s \in Slot
    BY <1>1, GoodTypes, BoundsAssumption DEF Slot, Generated
  <2>2. QED BY <1>3, <2>1 DEF Rooting
<1>9. Placed(stage', nest')
  <2>1. (n = 1 => Front(nest) = << >>) /\ (n # 1 => Placed("body", Front(nest)))
    BY <1>2, PlacedFront
  <2>2. CASE n = 1
    BY <2>1, <2>2 DEF Placed
  <2>3. CASE n # 1
    BY <2>1, <2>3
  <2>4. QED BY <2>2, <2>3
<1>10. mode \in Modes /\ mode' = mode /\ constructs' \in 0..MaxConstructs
  BY DEF IInv
<1>11. QED BY <1>1, <1>6, <1>7, <1>8, <1>9, <1>10, Advance

\* The end of a block, and of the body.
LEMMA CloseBlockKeeps ==
  ASSUME IInv, Sure, InProgress, NEW v \in BOOLEAN, CloseBlock(v)
  PROVE  IInv' /\ Own
<1>1. PICK n, c, fr, rs, lv, s :
        /\ n = Len(nest) /\ c = nest[n] /\ fr = ClosedFrames(c) /\ rs = ClosedRoots(c)
        /\ lv = (live \/ Owed(c)) /\ s = sites + 1
  OBVIOUS
<1>2. stage = "body" /\ Last(nest).kind = "block"
  BY DEF CloseBlock
<1>3. Sound(c) /\ Last(nest) = c /\ live \in BOOLEAN /\ n \in Nat \ {0} /\ nest \in Seq(ConstructType) /\ nest # << >>
  BY <1>1, <1>2, Innermost
<1>4. ~Owed(c) /\ Framed(c)
  BY <1>2, <1>3 DEF Owed, Framed, Sound
<1>5. lv = live /\ fr = Front(frames) /\ rs = FramePopped(roots)
  BY <1>1, <1>3, <1>4 DEF ClosedFrames, ClosedRoots
<1>6. /\ v => sites < MaxRoots
      /\ frames' = IF v THEN Registering(fr, s) ELSE fr
      /\ sites' = IF v THEN s ELSE sites
      /\ roots' = IF v THEN Rooting(rs, lv, s) ELSE rs
  BY <1>1, <1>5 DEF CloseBlock, MayRoot, Choke, Count, Registered, Registering, Pushed, Rooting
<1>7. /\ live' = lv /\ nest' = Front(nest) /\ stage' = IF n = 1 THEN "tail" ELSE stage
      /\ UNCHANGED <<mode, terminated, constructs, returned>>
  BY <1>1, <1>5 DEF CloseBlock
<1>8. v => Chokes(Front(nest), Strict)
  <2>1. SUFFICES ASSUME v PROVE Chokes(Front(nest), Strict)
    OBVIOUS
  <2>2. Parent # "loop" /\ (Parent = "unit" => ~Strict)
    BY <2>1 DEF CloseBlock, Strict
  <2>3. /\ Front(nest) \in Seq(ConstructType) /\ Len(Front(nest)) = n - 1
        /\ \A k \in 1..(n - 1) : Front(nest)[k] = nest[k]
    BY <1>1, <1>3, FrontIs
  <2>4. CASE n = 1
    <3>1. Front(nest) = << >>
      BY <2>3, <2>4, EmptySeq
    <3>2. QED BY <3>1 DEF Chokes, Open
  <2>5. CASE n # 1
    <3>1. n > 1 /\ n - 1 \in 1..(n - 1)
      BY <1>3, <2>5
    <3>2. Parent = nest[n - 1].kind
      BY <1>1, <3>1 DEF Parent
    <3>3. Front(nest)[Len(Front(nest))] = nest[n - 1]
      BY <2>3, <3>1
    <3>4. QED BY <2>2, <3>2, <3>3 DEF Chokes, Open, Looping
  <2>6. QED BY <2>4, <2>5
<1>9. terminated' \in BOOLEAN
  BY <1>7 DEF IInv
<1>10. QED BY <1>1, <1>2, <1>6, <1>7, <1>8, <1>9, CloseKeeps

\* The merge block of an if with an else.
LEMMA CloseElseKeeps ==
  ASSUME IInv, Sure, InProgress, NEW v \in BOOLEAN, CloseElse(v)
  PROVE  IInv' /\ Own
<1>1. PICK n, c, fr, rs, lv, s :
        /\ n = Len(nest) /\ c = nest[n] /\ fr = ClosedFrames(c) /\ rs = ClosedRoots(c)
        /\ lv = (live \/ Owed(c)) /\ s = sites + 1
  OBVIOUS
<1>2. stage = "body" /\ Last(nest).kind \in {"else", "elseif"}
  BY DEF CloseElse
<1>3. /\ Sound(c) /\ Last(nest) = c /\ live \in BOOLEAN /\ c \in ConstructType
      /\ c.kind # "block" => n # 1 /\ Open(Front(nest))
  BY <1>1, <1>2, Innermost
<1>4. (Owed(c) <=> c.merged) /\ ~Framed(c)
  BY <1>2, <1>3 DEF Owed, Framed
<1>5. lv = (c.merged \/ live) /\ fr = Truncated(c.before) /\ rs = ArmPopped(c)
  BY <1>1, <1>3, <1>4 DEF ClosedFrames, ClosedRoots, ArmPopped
<1>6. /\ terminated' = (c.diverged /\ terminated) /\ live' = lv
      /\ roots' = IF v THEN Pushed(rs, live') ELSE rs
      /\ Choke(v, fr) /\ Count(v) /\ MayRoot(v) /\ nest' = Front(nest)
      /\ UNCHANGED <<mode, stage, constructs, returned>>
  BY <1>3, <1>5 DEF CloseElse
<1>7. /\ v => sites < MaxRoots
      /\ frames' = IF v THEN Registering(fr, s) ELSE fr
      /\ sites' = IF v THEN s ELSE sites
      /\ roots' = IF v THEN Rooting(rs, lv, s) ELSE rs
  BY <1>1, <1>6 DEF MayRoot, Choke, Count, Registered, Registering, Pushed, Rooting
<1>8. c.kind # "block" /\ terminated' \in BOOLEAN
  BY <1>2, <1>3, <1>6 DEF IInv, ConstructType
<1>9. v => Chokes(Front(nest), Strict)
  BY <1>3, <1>8 DEF Chokes
<1>10. stage' = IF n = 1 THEN "tail" ELSE stage
  BY <1>3, <1>6, <1>8
<1>11. QED BY <1>1, <1>2, <1>6, <1>7, <1>8, <1>9, <1>10, CloseKeeps

\* The merge block of a match.
LEMMA CloseMatchKeeps ==
  ASSUME IInv, Sure, InProgress, NEW v \in BOOLEAN, CloseMatch(v)
  PROVE  IInv' /\ Own
<1>1. PICK n, c, fr, rs, lv, s :
        /\ n = Len(nest) /\ c = nest[n] /\ fr = ClosedFrames(c) /\ rs = ClosedRoots(c)
        /\ lv = (live \/ Owed(c)) /\ s = sites + 1
  OBVIOUS
<1>2. stage = "body" /\ Last(nest).kind = "arm" /\ ~Waiting(Last(nest))
  BY DEF CloseMatch
<1>3. /\ Sound(c) /\ Last(nest) = c /\ live \in BOOLEAN /\ c \in ConstructType
      /\ c.kind # "block" => n # 1 /\ Open(Front(nest))
  BY <1>1, <1>2, Innermost
<1>4. (Owed(c) <=> c.merged) /\ Framed(c)
  BY <1>2, <1>3 DEF Owed, Framed, Waiting
<1>5. lv = (c.merged \/ live) /\ fr = Front(frames) /\ rs = FramePopped(roots)
  BY <1>1, <1>3, <1>4 DEF ClosedFrames, ClosedRoots
<1>6. /\ terminated' = (c.diverged /\ terminated) /\ live' = lv
      /\ roots' = IF v THEN Pushed(rs, live') ELSE rs
      /\ Choke(v, fr) /\ Count(v) /\ MayRoot(v) /\ nest' = Front(nest)
      /\ UNCHANGED <<mode, stage, constructs, returned>>
  BY <1>3, <1>5 DEF CloseMatch
<1>7. /\ v => sites < MaxRoots
      /\ frames' = IF v THEN Registering(fr, s) ELSE fr
      /\ sites' = IF v THEN s ELSE sites
      /\ roots' = IF v THEN Rooting(rs, lv, s) ELSE rs
  BY <1>1, <1>6 DEF MayRoot, Choke, Count, Registered, Registering, Pushed, Rooting
<1>8. c.kind # "block" /\ terminated' \in BOOLEAN
  BY <1>2, <1>3, <1>6 DEF IInv, ConstructType
<1>9. v => Chokes(Front(nest), Strict)
  BY <1>3, <1>8 DEF Chokes
<1>10. stage' = IF n = 1 THEN "tail" ELSE stage
  BY <1>3, <1>6, <1>8
<1>11. QED BY <1>1, <1>2, <1>6, <1>7, <1>8, <1>9, <1>10, CloseKeeps

\* The execution is there once c's current part is closed.
Resumes(c) == live \/ Owed(c)

\* What follows a part of a construct: the next part, on the same frames.
Follows(e, c, lv) ==
  /\ Sound(e) /\ e.kind # "block" /\ (Framed(e) <=> Framed(c))
  /\ e.before = c.before /\ e.depth = c.depth
  /\ e.entered => c.entered
  /\ lv => e.entered
  /\ ~lv => ~Owed(e)

\* One part of a construct is closed and the next one opened in its place.
LEMMA NextOpened ==
  ASSUME IInv, Sure, stage = "body", InProgress, NEW H, NEW G, Generated(H, G),
         NEW n, n = Len(nest), NEW c, c = nest[n], c.kind # "block",
         NEW fr, fr = ClosedFrames(c), NEW rs, rs = ClosedRoots(c),
         NEW lv, lv = Resumes(c), NEW e, Follows(e, c, lv), NEW g, g = Inside(e, fr)
  PROVE  /\ e \in ConstructType /\ Placed("body", Append(Front(nest), e))
         /\ Front(nest) \in Seq(ConstructType)
         /\ live => At(rs, FlattenSeq(g), G, Strict)
         /\ live \/ rs = roots
         /\ \E J : /\ Good(Append(Front(nest), e), g, sites, GoesIn(e, lv), rs, returned, J, G, Strict)
                   /\ FlattenSeq(g) = FlattenSeq(fr)
                   /\ Between(J, Len(Front(nest)), fr, g)
<1>1. /\ nest \in Seq(ConstructType) /\ nest # << >> /\ c \in ConstructType /\ n \in Nat \ {0}
      /\ Open(Front(nest)) /\ Placed("body", Front(nest))
  BY Innermost
<1>2. /\ Good(Front(nest), fr, sites, lv, rs, returned, H, G, Strict)
      /\ live => At(rs, FlattenSeq(fr), G, Strict)
      /\ live \/ rs = roots
      /\ ~lv /\ ~returned /\ c.kind # "block" => ~c.entered
      /\ Entered(c) => At(c.depth, FlattenSeq(fr), G, Strict)
      /\ ~Framed(c) => c.before = Len(Last(fr))
  BY <1>1, Closed DEF IInv, Resumes
<1>3. Front(nest) \in Seq(ConstructType) /\ Len(Front(nest)) = n - 1
  BY <1>1, FrontIs
<1>4. MayOpen(e, Front(nest), fr, lv, returned, H, G, Strict)
  <2>1. Entered(e) => At(e.depth, FlattenSeq(fr), G, Strict)
    BY <1>2 DEF Follows, Entered
  <2>2. lv /\ Owed(e) => Entered(e)
    BY DEF Follows, Entered
  <2>3. ~lv => ~Owed(e) /\ (~returned /\ e.kind # "block" => ~e.entered)
    BY <1>2 DEF Follows
  <2>4. ~Framed(e) => e.before = Len(Last(fr))
    BY <1>2 DEF Follows
  <2>5. QED BY <1>1, <2>1, <2>2, <2>3, <2>4 DEF MayOpen, Follows
<1>5. PICK m : m = Len(Front(nest))
  OBVIOUS
<1>6. \E J : /\ Good(Append(Front(nest), e), g, sites, GoesIn(e, lv), rs, returned, J, G, Strict)
             /\ FlattenSeq(g) = FlattenSeq(fr)
             /\ Between(J, m, fr, g)
  BY <1>2, <1>4, <1>5, GoodOpen
<1>7. e \in ConstructType
  BY DEF Follows, Sound
<1>8. Placed("body", Append(Front(nest), e))
  BY <1>1, <1>3, <1>7, PlacedAppend
<1>9. live => At(rs, FlattenSeq(g), G, Strict)
  BY <1>2, <1>6
<1>10. QED BY <1>2, <1>3, <1>5, <1>6, <1>7, <1>8, <1>9

\* The next part is an expression of its own: an arm, or an else that is an if.
LEMMA NextKeeps ==
  ASSUME IInv, Sure, InProgress, stage = "body",
         NEW n, n = Len(nest), NEW c, c = nest[n], c.kind # "block",
         NEW fr, fr = ClosedFrames(c), NEW rs, rs = ClosedRoots(c),
         NEW lv, lv = Resumes(c), NEW e, Follows(e, c, lv),
         NEW g, g = Inside(e, fr), NEW h, h = Append(Front(nest), e), nest' = h, frames' = g, roots' = rs,
         live' = GoesIn(e, lv), terminated' \in BOOLEAN,
         UNCHANGED <<mode, stage, sites, constructs, returned>>
  PROVE  IInv' /\ Own
<1>1. PICK H, G : Generated(H, G)
  BY DEF InProgress
<1>3. /\ e \in ConstructType /\ Placed("body", Append(Front(nest), e))
      /\ Front(nest) \in Seq(ConstructType)
      /\ live => At(rs, FlattenSeq(g), G, Strict)
      /\ live \/ rs = roots
      /\ \E J : /\ Good(Append(Front(nest), e), g, sites, GoesIn(e, lv), rs, returned, J, G, Strict)
                /\ FlattenSeq(g) = FlattenSeq(fr)
                /\ Between(J, Len(Front(nest)), fr, g)
  BY <1>1, NextOpened
<1>4. PICK J : Good(nest', frames', sites', live', roots', returned', J, G, Strict)
  BY <1>3
<1>5. live => At(roots', FlattenSeq(frames'), G, Strict)
  BY <1>3
<1>6. ~live => roots' = roots
  BY <1>3
<1>7. mode \in Modes /\ mode' = mode /\ constructs' \in 0..MaxConstructs
  BY DEF IInv
<1>8. Placed(stage', nest')
  BY <1>3
<1>9. QED BY <1>1, <1>4, <1>5, <1>6, <1>7, <1>8, Advance

\* The next part is a block: an else, or a loop's body.
LEMMA NextBlockKeeps ==
  ASSUME IInv, Sure, InProgress, stage = "body",
         NEW n, n = Len(nest), NEW c, c = nest[n], c.kind # "block", ~Framed(c),
         NEW fr, fr = ClosedFrames(c), NEW rs, rs = ClosedRoots(c),
         NEW lv, lv = Resumes(c), NEW e, Follows(e, c, lv),
         nest' = Front(nest) \o <<e, Plain>>, frames' = Append(fr, << >>), roots' = rs,
         live' = GoesIn(e, lv), terminated' \in BOOLEAN,
         UNCHANGED <<mode, stage, sites, constructs, returned>>
  PROVE  IInv' /\ Own
<1>1. PICK H, G : Generated(H, G)
  BY DEF InProgress
<1>2. PICK g : g = Inside(e, fr)
  OBVIOUS
<1>3. /\ e \in ConstructType /\ Placed("body", Append(Front(nest), e))
      /\ Front(nest) \in Seq(ConstructType)
      /\ live => At(rs, FlattenSeq(g), G, Strict)
      /\ live \/ rs = roots
      /\ \E J : /\ Good(Append(Front(nest), e), g, sites, GoesIn(e, lv), rs, returned, J, G, Strict)
                /\ FlattenSeq(g) = FlattenSeq(fr)
                /\ Between(J, Len(Front(nest)), fr, g)
  BY <1>1, <1>2, NextOpened
<1>4. g = fr
  BY <1>2 DEF Follows, Inside
<1>5. PICK J : /\ Good(Append(Front(nest), e), fr, sites, GoesIn(e, lv), rs, returned, J, G, Strict)
               /\ Between(J, Len(Front(nest)), fr, fr)
  BY <1>3, <1>4
<1>6. MayNest(Append(Front(nest), e), J)
  <2>1. nest \in Seq(ConstructType) /\ nest # << >> /\ n \in Nat \ {0}
    BY Innermost
  <2>2. Len(Front(nest)) = n - 1
    BY <2>1, FrontIs
  <2>3. Len(Append(Front(nest), e)) = (n - 1) + 1
    BY <1>3, <2>2, AppendIs
  <2>4. ((n - 1) + 1) + 1 = (n - 1) + 2
    BY <2>1
  <2>5. QED BY <1>5, <2>2, <2>3, <2>4 DEF Between, MayNest
<1>7. PICK l : l = GoesIn(e, lv)
  OBVIOUS
<1>8. Good(Append(Front(nest), e), fr, sites, l, rs, returned, J, G, Strict)
  BY <1>5, <1>7
<1>9. /\ Plain \in ConstructType
      /\ FlattenSeq(Append(fr, << >>)) = FlattenSeq(fr)
      /\ \E A : Good(Append(Append(Front(nest), e), Plain), Append(fr, << >>), sites, l, rs,
                     returned, A, G, Strict)
  BY <1>1, <1>6, <1>8, GoodBlock
<1>10. nest' = Append(Append(Front(nest), e), Plain)
  BY <1>3, <1>9, AppendTwo
<1>11. PICK A : Good(nest', frames', sites', live', roots', returned', A, G, Strict)
  BY <1>7, <1>9, <1>10
<1>12. live => At(roots', FlattenSeq(frames'), G, Strict)
  BY <1>3, <1>4, <1>9
<1>13. ~live => roots' = roots
  BY <1>3
<1>14. mode \in Modes /\ mode' = mode /\ constructs' \in 0..MaxConstructs
  BY DEF IInv
<1>15. Placed(stage', nest')
  <2>1. Append(Front(nest), e) \in Seq(ConstructType)
    BY <1>3
  <2>2. Placed("body", Append(Append(Front(nest), e), Plain))
    BY <1>3, <1>9, <2>1, PlacedAppend
  <2>3. QED BY <1>10, <2>2
<1>16. QED BY <1>1, <1>11, <1>12, <1>13, <1>14, <1>15, Advance

\* From the then arm to the else.
LEMMA CloseThenKeeps ==
  ASSUME IInv, Sure, InProgress, NEW kind \in {"else", "elseif"}, CloseThen(kind)
  PROVE  IInv' /\ Own
<1>1. PICK n, c, fr, rs, lv :
        /\ n = Len(nest) /\ c = nest[n] /\ fr = ClosedFrames(c) /\ rs = ClosedRoots(c)
        /\ lv = Resumes(c) /\ lv = (live \/ Owed(c))
  BY DEF Resumes
<1>2. PICK e : e = [c EXCEPT !.kind = kind, !.merged = live, !.diverged = terminated]
  OBVIOUS
<1>3. stage = "body" /\ Last(nest).kind = "then"
  BY DEF CloseThen
<1>4. /\ Sound(c) /\ Last(nest) = c /\ live \in BOOLEAN /\ c \in ConstructType
      /\ live => ~Owed(c) /\ (c.kind # "block" => c.entered)
      /\ Owed(c) => Entered(c)
  BY <1>1, <1>3, Innermost
<1>5. c.kind = "then" /\ ~Framed(c) /\ ~c.merged
  BY <1>3, <1>4 DEF Framed, Sound
<1>6. /\ e \in ConstructType /\ e.kind = kind /\ e.merged = live /\ e.entered = c.entered
      /\ e.before = c.before /\ e.depth = c.depth /\ e.taken = c.taken
  BY <1>2, <1>4 DEF ConstructType, Kinds, IInv
<1>7. (Owed(c) <=> c.entered /\ ~c.taken) /\ (Owed(e) <=> live)
  BY <1>4, <1>5, <1>6 DEF Owed
<1>8. Follows(e, c, lv)
  <2>1. Sound(e)
    BY <1>4, <1>5, <1>6 DEF Sound
  <2>2. lv => c.entered
    BY <1>1, <1>4, <1>5 DEF Entered
  <2>3. QED BY <1>1, <1>5, <1>6, <1>7, <2>1, <2>2 DEF Follows, Framed
<1>9. fr = Truncated(c.before) /\ rs = ArmPopped(c)
  BY <1>1, <1>5 DEF ClosedFrames, ClosedRoots, ArmPopped
<1>10. GoesIn(e, lv) = (c.entered /\ ~c.taken)
  BY <1>1, <1>4, <1>7 DEF GoesIn, ConstructType
<1>11. /\ roots' = rs /\ live' = GoesIn(e, lv) /\ terminated' \in BOOLEAN
       /\ UNCHANGED <<mode, stage, sites, constructs, returned>>
  BY <1>4, <1>9, <1>10 DEF CloseThen
<1>12. CASE kind = "else"
  <2>1. frames' = Append(fr, << >>) /\ nest' = Front(nest) \o <<e, Plain>>
    BY <1>2, <1>4, <1>9, <1>12 DEF CloseThen
  <2>2. QED BY <1>1, <1>3, <1>5, <1>8, <1>11, <2>1, NextBlockKeeps
<1>13. CASE kind = "elseif"
  <2>1. frames' = fr /\ nest' = Append(Front(nest), e)
    BY <1>2, <1>4, <1>9, <1>13 DEF CloseThen
  <2>2. frames' = Inside(e, fr)
    BY <1>6, <1>13, <2>1 DEF Inside, Framed
  <2>3. c.kind # "block"
    BY <1>5
  <2>4. QED BY <1>1, <1>3, <1>8, <1>11, <2>1, <2>2, <2>3, NextKeeps
<1>14. QED BY <1>12, <1>13

\* From a while's condition to its body.
LEMMA CloseCondKeeps ==
  ASSUME IInv, Sure, InProgress, NEW taken \in BOOLEAN, CloseCond(taken)
  PROVE  IInv' /\ Own
<1>1. PICK n, c, fr, rs, lv :
        /\ n = Len(nest) /\ c = nest[n] /\ fr = ClosedFrames(c) /\ rs = ClosedRoots(c)
        /\ lv = Resumes(c) /\ lv = (live \/ Owed(c))
  BY DEF Resumes
<1>2. PICK e : e = [c EXCEPT !.kind = "loop", !.taken = taken, !.entered = live]
  OBVIOUS
<1>3. stage = "body" /\ Last(nest).kind = "cond"
  BY DEF CloseCond
<1>4. /\ Sound(c) /\ Last(nest) = c /\ live \in BOOLEAN /\ c \in ConstructType
      /\ live => ~Owed(c) /\ (c.kind # "block" => c.entered)
  BY <1>1, <1>3, Innermost
<1>5. c.kind = "cond" /\ ~Framed(c) /\ ~c.merged
  BY <1>3, <1>4 DEF Framed, Sound
<1>6. /\ e \in ConstructType /\ e.kind = "loop" /\ e.merged = c.merged /\ e.entered = live
      /\ e.before = c.before /\ e.depth = c.depth /\ e.taken = taken
  BY <1>2, <1>4 DEF ConstructType, Kinds
<1>7. ~Owed(c) /\ (Owed(e) <=> live /\ ~taken)
  BY <1>5, <1>6 DEF Owed
<1>8. lv = live
  BY <1>1, <1>4, <1>7
<1>9. Follows(e, c, lv)
  <2>1. Sound(e)
    BY <1>5, <1>6 DEF Sound
  <2>2. QED BY <1>4, <1>5, <1>6, <1>7, <1>8, <2>1 DEF Follows, Framed
<1>10. fr = Truncated(c.before) /\ rs = CondPopped(c)
  BY <1>1, <1>5 DEF ClosedFrames, ClosedRoots, CondPopped
<1>11. GoesIn(e, lv) = (live /\ taken)
  BY <1>4, <1>7, <1>8 DEF GoesIn
<1>12. /\ roots' = rs /\ live' = GoesIn(e, lv) /\ terminated' \in BOOLEAN
       /\ frames' = Append(fr, << >>) /\ nest' = Front(nest) \o <<e, Plain>>
       /\ UNCHANGED <<mode, stage, sites, constructs, returned>>
  BY <1>2, <1>4, <1>10, <1>11 DEF CloseCond, IInv
<1>13. c.kind # "block"
  BY <1>5
<1>14. QED BY <1>1, <1>3, <1>5, <1>9, <1>12, <1>13, NextBlockKeeps

\* From an arm of a match to the next.
LEMMA NextArmKeeps ==
  ASSUME IInv, Sure, InProgress, NEW taken \in BOOLEAN, NextArm(taken)
  PROVE  IInv' /\ Own
<1>1. PICK n, c, fr, rs, lv :
        /\ n = Len(nest) /\ c = nest[n] /\ fr = ClosedFrames(c) /\ rs = ClosedRoots(c)
        /\ lv = Resumes(c) /\ lv = (live \/ Owed(c))
  BY DEF Resumes
<1>2. PICK e : e = [c EXCEPT !.arms = @ + 1, !.taken = c.taken \/ taken,
                             !.merged = @ \/ live, !.diverged = @ /\ terminated]
  OBVIOUS
<1>3. stage = "body" /\ Last(nest).kind = "arm"
  BY DEF NextArm
<1>4. /\ Sound(c) /\ Last(nest) = c /\ live \in BOOLEAN /\ c \in ConstructType
      /\ live => ~Owed(c) /\ (c.kind # "block" => c.entered)
      /\ Owed(c) => Entered(c)
  BY <1>1, <1>3, Innermost
<1>5. c.kind = "arm" /\ Framed(c) /\ (c.merged => c.entered /\ c.taken)
  BY <1>3, <1>4 DEF Framed, Sound
<1>a. PICK a \in Nat, t \in BOOLEAN, m \in BOOLEAN, d \in BOOLEAN :
        /\ a = c.arms + 1 /\ (t = (c.taken \/ taken)) /\ (m = (c.merged \/ live))
        /\ (d = (c.diverged /\ terminated))
  <2>1. c.arms + 1 \in Nat
    BY <1>4 DEF ConstructType
  <2>2. QED BY <2>1, Zenon
<1>b. e = [c EXCEPT !.arms = a, !.taken = t, !.merged = m, !.diverged = d]
  BY <1>2, <1>4, <1>a DEF ConstructType
<1>6. /\ e \in ConstructType /\ e.kind = "arm" /\ (e.merged <=> c.merged \/ live)
      /\ e.entered = c.entered /\ e.before = c.before /\ e.depth = c.depth
      /\ (e.taken <=> c.taken \/ taken)
  BY <1>4, <1>5, <1>a, <1>b DEF ConstructType
<1>7. /\ Owed(c) <=> c.merged \/ Waiting(c)
      /\ Owed(e) <=> c.merged \/ live \/ (Waiting(c) /\ ~taken)
  BY <1>5, <1>6 DEF Owed, Waiting
<1>8. Follows(e, c, lv)
  <2>1. live => c.taken
    BY <1>4, <1>5, <1>7 DEF Waiting
  <2>2. Sound(e)
    BY <1>4, <1>5, <1>6, <2>1 DEF Sound
  <2>3. lv => c.entered
    BY <1>1, <1>4, <1>5 DEF Entered
  <2>4. ~lv => ~Owed(e)
    BY <1>1, <1>7
  <2>5. QED BY <1>5, <1>6, <2>2, <2>3, <2>4 DEF Follows, Framed
<1>9. fr = Front(frames) /\ rs = FramePopped(roots)
  BY <1>1, <1>5 DEF ClosedFrames, ClosedRoots
<1>10. GoesIn(e, lv) = (Waiting(c) /\ taken)
  <2>1. c.merged => ~Waiting(c)
    BY <1>5 DEF Waiting
  <2>2. live => ~Waiting(c)
    BY <1>4, <1>7
  <2>3. GoesIn(e, lv) <=> (Waiting(c) /\ taken)
    BY <1>1, <1>7, <2>1, <2>2 DEF GoesIn
  <2>4. QED BY <2>3 DEF GoesIn
<1>11. nest' = Append(Front(nest), e) /\ live' = GoesIn(e, lv)
  BY <1>2, <1>4, <1>10 DEF NextArm
<1>12. frames' = Inside(e, fr)
  BY <1>6, <1>9 DEF NextArm, Inside, Framed
<1>13. /\ roots' = rs /\ terminated' \in BOOLEAN
       /\ UNCHANGED <<mode, stage, sites, constructs, returned>>
  BY <1>9 DEF NextArm
<1>14. c.kind # "block"
  BY <1>5
<1>15. QED BY <1>1, <1>3, <1>8, <1>11, <1>12, <1>13, <1>14, NextKeeps

\* The end of an else-less if or of a loop, which counts nothing back.
LEMMA MergeKeeps ==
  ASSUME IInv, Sure, InProgress, stage = "body", NEW c, c = Last(nest), Looping(c),
         live' = (live \/ (c.entered /\ ~c.taken)), terminated' = FALSE, nest' = Front(nest),
         UNCHANGED <<mode, frames, stage, sites, constructs, roots, returned>>
  PROVE  IInv' /\ Own
<1>1. PICK H, G : Generated(H, G)
  BY DEF InProgress
<1>2. PICK n, d : n = Len(nest) /\ d = nest[n]
  OBVIOUS
<1>3. /\ nest # << >> /\ Sound(d) /\ c = d
      /\ d.kind # "block" => Placed("body", Front(nest))
  BY <1>2, Innermost
<1>4. Owed(nest[n]) <=> c.entered /\ ~c.taken
  BY <1>2, <1>3 DEF Owed, Sound, Looping
<1>5. Looping(nest[n])
  BY <1>2, <1>3
<1>6. PICK lv : lv = (live \/ Owed(nest[n]))
  OBVIOUS
<1>7. \E J : Good(Front(nest), frames, sites, lv, roots, returned, J, G, Strict)
  BY <1>1, <1>2, <1>3, <1>5, <1>6, GoodMerge DEF Generated
<1>8. live' = lv
  BY <1>4, <1>6
<1>9. PICK J : Good(nest', frames', sites', live', roots', returned', J, G, Strict)
  BY <1>7, <1>8
<1>10. live => At(roots', FlattenSeq(frames'), G, Strict)
  BY <1>1, Before
<1>11. Placed(stage', nest')
  BY <1>2, <1>3 DEF Looping
<1>12. QED BY <1>1, <1>9, <1>10, <1>11, Advance DEF IInv

\* A return from inside the body.
LEMMA YieldKeeps ==
  ASSUME IInv, Sure, InProgress, Yield
  PROVE  IInv' /\ Own
<1>1. PICK H, G : Generated(H, G)
  BY DEF InProgress
<1>2. /\ live \in BOOLEAN /\ returned \in BOOLEAN
  BY <1>1, GoodTypes DEF Generated
<1>3. /\ Flow(nest, live, roots, returned) /\ Stack(nest, H, G, sites, Strict)
      /\ frames = H[Len(nest) + 1]
  BY <1>1 DEF Generated, Good
<1>4. IF live THEN roots' = <<0>> ELSE roots' = roots
  BY <1>1, Unwinding DEF Yield, IInv
<1>5. Flow(nest, FALSE, roots', returned \/ live)
  <2>1. Leaves(live, roots, roots')
    BY <1>4 DEF Leaves
  <2>2. QED BY <1>2, <1>3, <2>1, FlowReturns
<1>6. /\ returned' = (returned \/ live) /\ live' = FALSE /\ terminated' = TRUE
      /\ UNCHANGED <<mode, frames, nest, stage, sites, constructs>>
  BY DEF Yield
<1>7. Good(nest, frames, sites, FALSE, roots', returned', H, G, Strict)
  BY <1>2, <1>3, <1>5, <1>6 DEF Good
<1>8. Good(nest', frames', sites', live', roots', returned', H, G, Strict)
  BY <1>6, <1>7
<1>9. Placed(stage', nest')
  BY <1>6 DEF InProgress
<1>10. live /\ ~returned' => At(roots', FlattenSeq(frames'), G, Strict)
  BY <1>6
<1>11. QED BY <1>1, <1>4, <1>6, <1>8, <1>9, <1>10, Advance DEF IInv

\* The return at the end of the body.
LEMMA EndFnKeeps ==
  ASSUME IInv, Sure, InProgress, EndFn
  PROVE  IInv' /\ Own
<1>1. PICK H, G : Generated(H, G)
  BY DEF InProgress
<1>2. /\ live \in BOOLEAN /\ returned \in BOOLEAN /\ frames \in Lists /\ frames # << >>
      /\ sites \in 0..MaxRoots /\ nest \in Seq(ConstructType) /\ roots \in Seq(0..MaxRoots)
  BY <1>1, GoodTypes DEF Generated
<1>3. IF live THEN roots' = <<0>> ELSE roots' = roots
  BY <1>1, Unwinding DEF EndFn, IInv
<1>4. /\ returned' = (returned \/ live) /\ live' = FALSE /\ terminated' = TRUE
      /\ stage' = "done" /\ frames' = Front(frames)
      /\ UNCHANGED <<mode, nest, sites, constructs>>
  BY DEF EndFn
<1>5. returned => roots = <<0>>
  BY <1>1 DEF Generated, Good, Flow
<1>6. returned' => roots' = <<0>>
  BY <1>2, <1>3, <1>4, <1>5
<1>7. roots' \in Seq(0..MaxRoots)
  <2>1. <<0>> \in Seq(0..MaxRoots)
    BY BoundsAssumption
  <2>2. QED BY <1>2, <1>3, <2>1
<1>8. Front(frames) \in Lists
  BY <1>2, ListsSplit
<1>9. Ended'
  BY <1>2, <1>4, <1>6, <1>7, <1>8 DEF Ended
<1>10. IInv'
  BY <1>4, <1>9 DEF IInv
<1>11. ~live => roots' = roots
  BY <1>3
<1>12. Own
  BY <1>4, <1>11 DEF Own
<1>13. QED BY <1>10, <1>12

-----------------------------------------------------------------------------
(* The invariant is inductive.                                             *)

\* Before anything is generated.
LEMMA InitSure ==
  ASSUME Init
  PROVE  IInv
<1>a. terminated \in BOOLEAN /\ constructs \in 0..MaxConstructs
  <2>1. terminated = FALSE /\ constructs = 0
    BY DEF Init
  <2>2. terminated \in BOOLEAN
    BY <2>1, Zenon
  <2>3. constructs \in 0..MaxConstructs
    BY <2>1, BoundsAssumption
  <2>4. QED BY <2>2, <2>3
<1>1. /\ mode \in Modes /\ frames = << << >> >> /\ nest = << >> /\ stage = "params" /\ sites = 0
      /\ live = TRUE /\ roots = <<0>> /\ returned = FALSE
  BY DEF Init
<1>2. PICK H : H = [k \in 1..1 |-> frames]
  OBVIOUS
<1>3. Len(nest) = 0 /\ frames = H[Len(nest) + 1]
  BY <1>1, <1>2
<1>4. PICK z \in Lists : z = << >>
  <2>1. << >> \in Seq(Seq(Slot))
    OBVIOUS
  <2>2. QED BY <2>1 DEF Lists
<1>5. PICK y \in Seq(Slot) : y = << >>
  <2>1. << >> \in Seq(Slot)
    OBVIOUS
  <2>2. QED BY <2>1
<1>6. frames = Append(z, y)
  BY <1>1, <1>4, <1>5
<1>7. frames \in Lists /\ frames # << >> /\ FlattenSeq(frames) = Cat(FlattenSeq(z), y)
  BY <1>6, ListsPush
<1>8. FlattenSeq(frames) = y
  <2>1. FlattenSeq(z) = y
    BY <1>4, <1>5, FlattenEmpty
  <2>2. Cat(y, << >>) = y
    BY CatEmpty
  <2>3. QED BY <1>5, <1>7, <2>1, <2>2
<1>9. Range(y) = {} /\ IsInjective(y)
  BY <1>5 DEF Range, IsInjective
<1>10. FrameOK(frames, sites)
  BY <1>7, <1>8, <1>9 DEF FrameOK
<1>11. At(roots, y, {}, Strict)
  <2>1. Cleared(y, {}) = y
    BY <1>5, ClearedEmpty
  <2>2. <<0>> \in Seq(Nat)
    OBVIOUS
  <2>3. Cat(<<0>>, << >>) = <<0>>
    BY <2>2, CatEmpty
  <2>4. QED BY <1>1, <1>5, <2>1, <2>3 DEF At
<1>12. Stack(nest, H, {}, sites, Strict)
  <2>1. nest \in Seq(ConstructType) /\ sites \in 0..MaxRoots
    BY <1>1, BoundsAssumption
  <2>2. \A k \in 1..(Len(nest) + 1) : FrameOK(H[k], sites)
    BY <1>2, <1>3, <1>10
  <2>3. 1..Len(nest) = {} /\ 1..(Len(nest) - 1) = {}
    BY <1>3
  <2>4. QED BY <2>1, <2>2, <2>3 DEF Stack
<1>13. Flow(nest, live, roots, returned)
  BY <1>1, <1>3 DEF Flow, Running
<1>14. Generated(H, {})
  BY <1>1, <1>3, <1>8, <1>11, <1>12, <1>13 DEF Generated, Good
<1>15. Placed(stage, nest)
  BY <1>1 DEF Placed
<1>16. QED BY <1>1, <1>a, <1>14, <1>15 DEF IInv, InProgress

\* Every operation keeps it, and pops its own roots only.
LEMMA NextSure ==
  ASSUME IInv, Sure, Next
  PROVE  IInv' /\ Own
<1>1. stage # "done"
  BY DEF Next, Register, OpenBody, OpenBlock, Yield, EndFn, CloseBlock, CloseElse, CloseMatch,
         OpenIf, CloseThen, CloseUnitIf, OpenWhile, CloseLoop, CloseCond, OpenFor, OpenMatch,
         NextArm, Opening, Generating
<1>2. InProgress
  BY <1>1 DEF IInv, Ended
<1>3. CASE Register
  BY <1>2, <1>3, RegisterKeeps
<1>4. CASE OpenBody
  BY <1>2, <1>4, OpenBodyKeeps
<1>5. CASE OpenBlock
  BY <1>2, <1>5, OpenBlockKeeps
<1>6. CASE Yield
  BY <1>2, <1>6, YieldKeeps
<1>7. CASE EndFn
  BY <1>2, <1>7, EndFnKeeps
<1>8. ASSUME NEW valued \in BOOLEAN, CloseBlock(valued) PROVE IInv' /\ Own
  BY <1>2, <1>8, CloseBlockKeeps
<1>9. ASSUME NEW valued \in BOOLEAN, CloseElse(valued) PROVE IInv' /\ Own
  BY <1>2, <1>9, CloseElseKeeps
<1>10. ASSUME NEW valued \in BOOLEAN, CloseMatch(valued) PROVE IInv' /\ Own
  BY <1>2, <1>10, CloseMatchKeeps
<1>11. ASSUME NEW kind \in {"then", "unit"}, NEW taken \in BOOLEAN, OpenIf(kind, taken)
       PROVE  IInv' /\ Own
  <2>1. kind \in {"then", "unit", "loop"}
    OBVIOUS
  <2>2. /\ Opening /\ nest' = nest \o <<Construct(kind, taken), Plain>>
        /\ frames' = Append(frames, << >>) /\ live' = (live /\ taken)
        /\ UNCHANGED <<mode, terminated, stage, sites, roots, returned>>
    BY <1>11 DEF OpenIf
  <2>3. QED BY <1>2, <2>1, <2>2, OpenAroundKeeps
<1>12. ASSUME NEW kind \in {"else", "elseif"}, CloseThen(kind) PROVE IInv' /\ Own
  BY <1>2, <1>12, CloseThenKeeps
<1>13. CASE CloseUnitIf
  <2>1. PICK c : c = Last(nest)
    OBVIOUS
  <2>2. /\ stage = "body" /\ Looping(c) /\ live' = (live \/ (c.entered /\ ~c.taken))
        /\ terminated' = FALSE /\ nest' = Front(nest)
        /\ UNCHANGED <<mode, frames, stage, sites, constructs, roots, returned>>
    BY <1>13, <2>1 DEF CloseUnitIf, Looping
  <2>3. QED BY <1>2, <2>1, <2>2, MergeKeeps
<1>14. CASE CloseLoop
  <2>1. PICK c : c = Last(nest)
    OBVIOUS
  <2>2. /\ stage = "body" /\ Looping(c) /\ live' = (live \/ (c.entered /\ ~c.taken))
        /\ terminated' = FALSE /\ nest' = Front(nest)
        /\ UNCHANGED <<mode, frames, stage, sites, constructs, roots, returned>>
    BY <1>14, <2>1 DEF CloseLoop, Looping
  <2>3. QED BY <1>2, <2>1, <2>2, MergeKeeps
<1>15. CASE OpenWhile
  <2>1. PICK kind \in {"cond", "arm"}, taken \in BOOLEAN : kind = "cond" /\ taken = TRUE
    OBVIOUS
  <2>2. live \in BOOLEAN
    BY <1>2, GoodTypes DEF InProgress, Generated
  <2>3. /\ Opening /\ nest' = Append(nest, Construct(kind, taken)) /\ (kind = "cond" => taken)
        /\ frames' = IF kind = "arm" THEN Append(frames, << >>) ELSE frames
        /\ live' = (live /\ taken)
        /\ UNCHANGED <<mode, terminated, stage, sites, roots, returned>>
    BY <1>15, <2>1, <2>2 DEF OpenWhile
  <2>4. QED BY <1>2, <2>3, OpenOneKeeps
<1>16. ASSUME NEW taken \in BOOLEAN, OpenMatch(taken) PROVE IInv' /\ Own
  <2>1. PICK kind \in {"cond", "arm"} : kind = "arm"
    OBVIOUS
  <2>2. /\ Opening /\ nest' = Append(nest, Construct(kind, taken)) /\ (kind = "cond" => taken)
        /\ frames' = IF kind = "arm" THEN Append(frames, << >>) ELSE frames
        /\ live' = (live /\ taken)
        /\ UNCHANGED <<mode, terminated, stage, sites, roots, returned>>
    BY <1>16, <2>1 DEF OpenMatch
  <2>3. QED BY <1>2, <2>2, OpenOneKeeps
<1>17. ASSUME NEW taken \in BOOLEAN, OpenFor(taken) PROVE IInv' /\ Own
  <2>1. PICK kind \in {"then", "unit", "loop"} : kind = "loop"
    OBVIOUS
  <2>2. /\ Opening /\ nest' = nest \o <<Construct(kind, taken), Plain>>
        /\ frames' = Append(frames, << >>) /\ live' = (live /\ taken)
        /\ UNCHANGED <<mode, terminated, stage, sites, roots, returned>>
    BY <1>17, <2>1 DEF OpenFor
  <2>3. QED BY <1>2, <2>2, OpenAroundKeeps
<1>18. ASSUME NEW taken \in BOOLEAN, CloseCond(taken) PROVE IInv' /\ Own
  BY <1>2, <1>18, CloseCondKeeps
<1>19. ASSUME NEW taken \in BOOLEAN, NextArm(taken) PROVE IInv' /\ Own
  BY <1>2, <1>19, NextArmKeeps
<1>20. QED
  BY <1>3, <1>4, <1>5, <1>6, <1>7, <1>8, <1>9, <1>10, <1>11, <1>12, <1>13, <1>14, <1>15,
     <1>16, <1>17, <1>18, <1>19 DEF Next

\* The mode is the compilation's.
LEMMA ModeFixed ==
  ASSUME [Next]_vars
  PROVE  mode' = mode
BY DEF Next, vars, emitVars, Register, OpenBody, OpenBlock, Yield, EndFn, CloseBlock, CloseElse,
       CloseMatch, OpenIf, CloseThen, CloseUnitIf, OpenWhile, CloseLoop, CloseCond, OpenFor,
       OpenMatch, NextArm

\* A step that does nothing keeps it.
LEMMA StutterSure ==
  ASSUME IInv, UNCHANGED vars
  PROVE  IInv'
<1>1. /\ mode' = mode /\ frames' = frames /\ nest' = nest /\ terminated' = terminated
      /\ stage' = stage /\ sites' = sites /\ constructs' = constructs /\ live' = live
      /\ roots' = roots /\ returned' = returned
  BY DEF vars, emitVars
<1>2. Strict' = Strict /\ Sure' = Sure
  BY <1>1 DEF Strict, Sure
<1>3. ASSUME InProgress PROVE InProgress'
  <2>1. PICK H, G : Generated(H, G)
    BY <1>3 DEF InProgress
  <2>2. Good(nest', frames', sites', live', roots', returned', H, G, Strict')
    BY <1>1, <1>2, <2>1 DEF Generated
  <2>3. Placed(stage', nest')
    BY <1>1, <1>3 DEF InProgress
  <2>4. QED BY <2>2, <2>3 DEF InProgress, Generated
<1>4. Ended => Ended'
  BY <1>1 DEF Ended
<1>5. QED BY <1>1, <1>2, <1>3, <1>4 DEF IInv

\* The invariant holds whatever is generated and however it runs.
THEOREM Invariance == Spec => []IInv
<1>1. Init => IInv
  BY InitSure
<1>2. IInv /\ [Next]_vars => IInv'
  <2>1. SUFFICES ASSUME IInv, [Next]_vars PROVE IInv'
    OBVIOUS
  <2>2. mode' = mode
    BY <2>1, ModeFixed
  <2>3. CASE UNCHANGED vars
    BY <2>1, <2>3, StutterSure
  <2>4. CASE Next /\ Sure
    BY <2>1, <2>4, NextSure
  <2>5. CASE ~Sure
    <3>1. ~Sure'
      BY <2>2, <2>5 DEF Sure, Strict
    <3>2. QED BY <2>1, <2>2, <3>1 DEF IInv
  <2>6. QED BY <2>1, <2>3, <2>4, <2>5
<1>3. QED BY <1>1, <1>2, PTL DEF Spec

-----------------------------------------------------------------------------
(* What follows from it.                                                   *)

\* In the modes whose else-less ifs drop no rooted value, whatever way the
\* execution took to the code being emitted, the run-time roots are those
\* codegen counts for its open frames, in the same order: all of them, in any
\* nest of constructs of any depth.
THEOREM BalancedAlways == Spec => []Balanced
<1>1. IInv => Balanced
  <2>1. SUFFICES ASSUME IInv, live, mode \notin UnitArmValues
                 PROVE  roots = <<0>> \o FlattenSeq(frames)
    BY DEF Balanced
  <2>2. Strict /\ Sure
    BY <2>1 DEF Strict, Sure
  <2>3. InProgress
    BY <2>1, <2>2 DEF IInv, Ended
  <2>4. PICK H, G : Generated(H, G)
    BY <2>3 DEF InProgress
  <2>5. At(roots, FlattenSeq(frames), G, Strict) /\ FlattenSeq(frames) \in Seq(Slot)
    BY <2>1, <2>4, GoodTypes DEF Generated, Good
  <2>6. roots = Cat(<<0>>, FlattenSeq(frames))
    BY <2>2, <2>5, AtType
  <2>7. QED BY <2>6 DEF Cat
<1>2. QED BY <1>1, Invariance, PTL

\* Where an else-less if may leave a root behind in llvm mode only, as codegen
\* is meant to work, the bookkeeping and the roots keep their shapes.
THEOREM TypeCorrect ==
  ASSUME "shadow" \notin UnitArmValues
  PROVE  Spec => []TypeOK
<1>1. IInv => TypeOK
  <2>1. SUFFICES ASSUME IInv PROVE TypeOK
    OBVIOUS
  <2>2. Sure
    BY DEF Sure, Strict
  <2>3. /\ mode \in Modes /\ terminated \in BOOLEAN /\ constructs \in 0..MaxConstructs
        /\ InProgress \/ Ended
    BY <2>1, <2>2 DEF IInv
  <2>4. /\ frames \in Lists /\ nest \in Seq(ConstructType) /\ sites \in 0..MaxRoots
        /\ live \in BOOLEAN /\ returned \in BOOLEAN /\ roots \in Seq(0..MaxRoots)
        /\ stage \in {"params", "body", "tail", "done"}
    <3>1. CASE Ended
      BY <3>1 DEF Ended
    <3>2. CASE InProgress
      <4>1. PICK H, G : Generated(H, G)
        BY <3>2 DEF InProgress
      <4>2. stage \in {"params", "body", "tail", "done"}
        BY <3>2 DEF InProgress, Placed
      <4>3. QED BY <4>1, <4>2, GoodTypes DEF Generated
    <3>3. QED BY <2>3, <3>1, <3>2
  <2>5. \A i \in DOMAIN nest : nest[i].kind \in Kinds /\ nest[i].before \in 0..MaxRoots
    <3>1. \A i \in DOMAIN nest : nest[i] \in ConstructType
      BY <2>4
    <3>2. QED BY <3>1 DEF ConstructType
  <2>6. frames \in Seq(Seq(1..MaxRoots))
    BY <2>4 DEF Lists, Slot
  <2>7. QED BY <2>3, <2>4, <2>5, <2>6 DEF TypeOK
<1>2. QED BY <1>1, Invariance, PTL

\* There, a function returns with exactly its caller's roots, at its end or at
\* any yield inside any nest of constructs.
THEOREM ReturnsAlwaysBalanced ==
  ASSUME "shadow" \notin UnitArmValues
  PROVE  Spec => []ReturnsBalanced
<1>1. IInv => ReturnsBalanced
  <2>1. SUFFICES ASSUME IInv, returned PROVE roots = <<0>>
    BY DEF ReturnsBalanced
  <2>2. Sure
    BY DEF Sure, Strict
  <2>3. InProgress \/ Ended
    BY <2>1, <2>2 DEF IInv
  <2>4. CASE Ended
    BY <2>1, <2>4 DEF Ended
  <2>5. CASE InProgress
    BY <2>1, <2>5 DEF InProgress, Generated, Good, Flow
  <2>6. QED BY <2>3, <2>4, <2>5
<1>2. QED BY <1>1, Invariance, PTL

\* There, an iteration ends with the roots it began with, whatever its body
\* and the constructs around the loop are.
THEOREM LoopsAlwaysBalanced ==
  ASSUME "shadow" \notin UnitArmValues
  PROVE  Spec => []LoopsBalanced
<1>1. IInv => LoopsBalanced
  <2>1. SUFFICES ASSUME IInv, nest # << >>, Last(nest).kind = "loop", live
                 PROVE  roots = Last(nest).depth
    BY DEF LoopsBalanced
  <2>2. Sure
    BY DEF Sure, Strict
  <2>3. InProgress
    BY <2>1, <2>2 DEF IInv, Ended
  <2>4. PICK H, G : Generated(H, G)
    BY <2>3 DEF InProgress
  <2>5. stage = "body"
    BY <2>1, <2>3 DEF InProgress, Placed
  <2>6. PICK n, c : n = Len(nest) /\ c = nest[n]
    OBVIOUS
  <2>7. Last(nest) = c /\ c.kind = "loop" /\ c.entered
    <3>1. Last(nest) = c /\ (live => ~Owed(c) /\ (c.kind # "block" => c.entered))
      BY <2>1, <2>2, <2>3, <2>5, <2>6, Innermost
    <3>2. QED BY <2>1, <3>1
  <2>8. Level(c, H[n], frames, G, Strict) /\ At(roots, FlattenSeq(frames), G, Strict)
    BY <2>1, <2>4, <2>6, GoodTop DEF Generated, Good
  <2>9. frames = H[n] /\ At(c.depth, FlattenSeq(H[n]), G, Strict)
    BY <2>7, <2>8 DEF Level, Looping, Entered
  <2>10. roots = c.depth
    BY <2>8, <2>9 DEF At
  <2>11. QED BY <2>7, <2>10
<1>2. QED BY <1>1, Invariance, PTL

\* There, running an emitted pop never unroots a value of a frame that stays
\* open, of an outer part of the same frame, or of the caller.
THEOREM AlwaysPopsItsOwn ==
  ASSUME "shadow" \notin UnitArmValues
  PROVE  Spec => PopsItsOwn
<1>1. IInv /\ [Next]_vars =>
        [~returned' => ToSet(roots) \ ToSet(roots') \subseteq
                         ToSet(FlattenSeq(frames)) \ ToSet(FlattenSeq(frames'))]_vars
  <2>1. SUFFICES ASSUME IInv, Next PROVE Own
    BY DEF Own
  <2>2. Sure
    BY DEF Sure, Strict
  <2>3. QED BY <2>1, <2>2, NextSure
<1>2. QED BY <1>1, Invariance, PTL DEF Spec, PopsItsOwn
=============================================================================
