----------------------------- MODULE DataLemmas -----------------------------
(***************************************************************************)
(* Facts about sequences, sets and sums of any size that the other proofs  *)
(* need.                                                                   *)
(*                                                                         *)
(* Those about recursive definitions go by induction.  An induction        *)
(* theorem that takes a predicate cannot be instantiated by the provers at *)
(* hand; one that takes a set can, and a set of naturals with 0 that is    *)
(* closed under + 1 is all there is to it: SetInduction.  It is used on    *)
(* two recursive operators of the community modules: FlattenSeq (the       *)
(* registered roots are those of the frames, one after the other) and      *)
(* MapThenSumSet (live_bytes of src/runtime/tuppu_gc.c is the total of the *)
(* listed sizes).                                                          *)
(***************************************************************************)
EXTENDS Integers, Sequences, FiniteSets, SequencesExt, FiniteSetsExt,
        WellFoundedInduction, SequenceTheorems, FiniteSetTheorems, TLAPS

\* A non-empty set of naturals has a least element.
LEMMA LeastNat ==
  ASSUME NEW T \in SUBSET Nat, T # {}
  PROVE  \E n \in T : \A m \in T : n <= m
<1> DEFINE R == {ss \in Nat \X Nat : ss[1] < ss[2]}
<1>1. IsWellFoundedOn(R, Nat)
  BY NatLessThanWellFounded DEF OpToRel
<1> HIDE DEF R
<1>2. PICK n \in T : \A m \in T : <<m, n>> \notin R
  BY <1>1, WFMin
<1>3. ASSUME NEW m \in T PROVE n <= m
  <2>1. <<m, n>> \notin R
    BY <1>2
  <2>2. ~(m < n) /\ m \in Nat /\ n \in Nat
    BY <2>1 DEF R
  <2>3. QED BY <2>2
<1>4. QED
  BY <1>3

\* A set with 0 that is closed under + 1 holds every natural.
LEMMA SetInduction ==
  ASSUME NEW T, 0 \in T, \A n \in Nat : n \in T => n + 1 \in T
  PROVE  Nat \subseteq T
<1>1. SUFFICES ASSUME Nat \ T # {} PROVE FALSE
  OBVIOUS
<1>2. PICK n \in Nat \ T : \A m \in Nat \ T : n <= m
  BY <1>1, LeastNat
<1>3. n # 0 /\ n - 1 \in Nat /\ n - 1 \notin Nat \ T
  BY <1>2
<1>4. (n - 1) + 1 = n
  BY <1>2
<1>5. QED
  BY <1>2, <1>3, <1>4

\* A set with the empty sequence that is closed under Append holds every one.
LEMMA SeqInduction ==
  ASSUME NEW S, NEW T, << >> \in T,
         \A s \in Seq(S), e \in S : s \in T => Append(s, e) \in T
  PROVE  Seq(S) \subseteq T
<1> DEFINE N == {n \in Nat : \A s \in Seq(S) : Len(s) = n => s \in T}
<1>1. 0 \in N
  <2>1. \A s \in Seq(S) : Len(s) = 0 => s = << >>
    OBVIOUS
  <2>2. QED BY <2>1
<1>2. ASSUME NEW n \in Nat, n \in N PROVE n + 1 \in N
  <2>1. SUFFICES ASSUME NEW s \in Seq(S), Len(s) = n + 1 PROVE s \in T
    OBVIOUS
  <2> DEFINE r == SubSeq(s, 1, n)
             e == s[n + 1]
  <2>2. r \in Seq(S) /\ Len(r) = n /\ e \in S
    BY <2>1
  <2>3. s = Append(r, e)
    BY <2>1, <2>2
  <2>4. r \in T
    BY <1>2, <2>2
  <2> HIDE DEF r, e, N
  <2>5. QED BY <2>2, <2>3, <2>4
<1> HIDE DEF N
<1>3. Nat \subseteq N
  BY <1>1, <1>2, SetInduction
<1>4. ASSUME NEW s \in Seq(S) PROVE s \in T
  <2>1. PICK n \in Nat : n = Len(s)
    OBVIOUS
  <2>2. n \in N
    BY <1>3
  <2>3. QED BY <2>1, <2>2 DEF N
<1>5. QED BY <1>4

-----------------------------------------------------------------------------
(* FlattenSeq *)

\* The equation of FlattenSeq's recursive function, for the first n sequences,
\* and what it says of each prefix.
FlattenEquation(s, n, g) ==
  g = [i \in 1..n |-> IF i = 1 THEN s[i] ELSE g[i-1] \o s[i]]
FlattenRuns(s, n, g) ==
  /\ n > 0 => g[1] = s[1]
  /\ \A i \in 1..(n-1) : g[i+1] = g[i] \o s[i+1]

\* The function of FlattenSeq's definition, prefix by prefix.
LEMMA FlattenPrefixes ==
  ASSUME NEW s, NEW n \in Nat, NEW g, FlattenEquation(s, n, g)
  PROVE  FlattenRuns(s, n, g)
<1>2. ASSUME NEW i \in 1..n PROVE g[i] = IF i = 1 THEN s[i] ELSE g[i-1] \o s[i]
  BY DEF FlattenEquation
<1>3. n > 0 => g[1] = s[1]
  <2>1. n > 0 => 1 \in 1..n
    OBVIOUS
  <2>2. QED BY <1>2, <2>1
<1>4. ASSUME NEW i \in 1..(n-1) PROVE g[i+1] = g[i] \o s[i+1]
  <2>1. i + 1 \in 1..n /\ i + 1 # 1 /\ (i + 1) - 1 = i
    OBVIOUS
  <2>2. g[i+1] = g[(i+1)-1] \o s[i+1]
    BY <1>2, <2>1
  <2>3. QED BY <2>1, <2>2
<1>5. QED BY <1>3, <1>4 DEF FlattenRuns

\* FlattenSeq's recursive function exists, so its CHOOSE picks it.
LEMMA FlattenSolvable ==
  ASSUME NEW s, NEW k \in Nat
  PROVE  \E g : FlattenEquation(s, k, g)
<1> DEFINE T == {n \in Nat : \E g : FlattenEquation(s, n, g)}
<1>1. 0 \in T
  <2>1. FlattenEquation(s, 0, [i \in 1..0 |-> s[1]])
    BY DEF FlattenEquation
  <2>2. QED BY <2>1
<1>2. ASSUME NEW n \in Nat, n \in T PROVE n + 1 \in T
  <2>1. PICK g : FlattenEquation(s, n, g)
    BY <1>2
  <2> DEFINE h == [i \in 1..(n+1) |-> IF i = 1 THEN s[i] ELSE g[i-1] \o s[i]]
  <2>2. ASSUME NEW i \in 1..n PROVE h[i] = g[i]
    <3>1. i \in 1..(n+1)
      OBVIOUS
    <3>2. h[i] = IF i = 1 THEN s[i] ELSE g[i-1] \o s[i]
      BY <3>1
    <3>3. g[i] = IF i = 1 THEN s[i] ELSE g[i-1] \o s[i]
      BY <2>1 DEF FlattenEquation
    <3>4. QED BY <3>2, <3>3
  <2> DEFINE E(i) == IF i = 1 THEN s[i] ELSE h[i-1] \o s[i]
  <2>3. ASSUME NEW i \in 1..(n+1) PROVE h[i] = E(i)
    <3>1. CASE i = 1
      BY <3>1
    <3>2. CASE i # 1
      <4>1. i - 1 \in 1..n
        BY <3>2
      <4>2. h[i-1] = g[i-1]
        BY <4>1, <2>2
      <4> HIDE DEF E
      <4>3. h[i] = g[i-1] \o s[i]
        BY <3>2
      <4>4. QED BY <3>2, <4>2, <4>3 DEF E
    <3>3. QED BY <3>1, <3>2
  <2>4. h = [i \in 1..(n+1) |-> E(i)]
    <3>1. DOMAIN h = 1..(n+1)
      OBVIOUS
    <3>2. h = [i \in 1..(n+1) |-> h[i]]
      BY <3>1
    <3> HIDE DEF h, E
    <3>3. QED BY <3>2, <2>3
  <2>5. FlattenEquation(s, n + 1, h)
    <3> HIDE DEF h
    <3>1. QED BY <2>4 DEF FlattenEquation
  <2> HIDE DEF h
  <2>6. QED BY <2>5
<1> HIDE DEF T
<1>3. k \in T
  BY <1>1, <1>2, SetInduction
<1>4. QED
  BY <1>3 DEF T

\* What FlattenSeq's definition picks is such a function.
LEMMA FlattenIs ==
  ASSUME NEW s, NEW n \in Nat \ {0}, Len(s) = n
  PROVE  \E g : FlattenRuns(s, n, g) /\ FlattenSeq(s) = g[n]
<1> DEFINE g == CHOOSE h : FlattenEquation(s, n, h)
<1>1. FlattenEquation(s, n, g)
  BY FlattenSolvable
<1>2. FlattenSeq(s) = g[n]
  BY DEF FlattenSeq, FlattenEquation
<1> HIDE DEF g
<1>3. FlattenRuns(s, n, g)
  BY <1>1, FlattenPrefixes, Zenon
<1>4. QED BY <1>2, <1>3

\* Two flattenings agree where their sequences do.
LEMMA FlattenAgree ==
  ASSUME NEW s, NEW t, NEW m \in Nat, NEW n \in Nat, m <= n,
         \A i \in 1..m : s[i] = t[i],
         NEW g, NEW h, FlattenRuns(s, m, g), FlattenRuns(t, n, h)
  PROVE  \A i \in 1..m : g[i] = h[i]
<1>a. /\ m > 0 => g[1] = s[1]
      /\ \A i \in 1..(m-1) : g[i+1] = g[i] \o s[i+1]
  BY DEF FlattenRuns
<1>b. /\ n > 0 => h[1] = t[1]
      /\ \A i \in 1..(n-1) : h[i+1] = h[i] \o t[i+1]
  BY DEF FlattenRuns
<1> DEFINE T == {i \in Nat : i \in 1..m => g[i] = h[i]}
<1>1. 0 \in T
  OBVIOUS
<1>2. ASSUME NEW i \in Nat, i \in T PROVE i + 1 \in T
  <2>1. SUFFICES ASSUME i + 1 \in 1..m PROVE g[i+1] = h[i+1]
    OBVIOUS
  <2>2. CASE i = 0
    BY <2>1, <2>2, <1>a, <1>b
  <2>3. CASE i # 0
    <3>1. i \in 1..(m-1) /\ i \in 1..(n-1) /\ i \in 1..m
      BY <2>1, <2>3
    <3>2. g[i+1] = g[i] \o s[i+1]
      BY <3>1, <1>a
    <3>3. h[i+1] = h[i] \o t[i+1]
      BY <3>1, <1>b
    <3>4. g[i] = h[i] /\ s[i+1] = t[i+1]
      BY <1>2, <2>1, <3>1
    <3>5. QED BY <3>2, <3>3, <3>4
  <2>4. QED BY <2>2, <2>3
<1> HIDE DEF T
<1>3. Nat \subseteq T
  BY <1>1, <1>2, SetInduction
<1>4. QED
  BY <1>3 DEF T

\* Flattening nothing.
LEMMA FlattenEmpty == FlattenSeq(<< >>) = << >>
BY DEF FlattenSeq

\* Flattening sequences over S is a sequence over S.
LEMMA FlattenType ==
  ASSUME NEW S, NEW s \in Seq(Seq(S))
  PROVE  FlattenSeq(s) \in Seq(S)
<1>1. CASE s = << >>
  <2>1. << >> \in Seq(S)
    OBVIOUS
  <2>2. QED BY <1>1, <2>1, FlattenEmpty
<1>2. CASE s # << >>
  <2>1. Len(s) \in Nat \ {0}
    BY <1>2
  <2>2. PICK g : FlattenRuns(s, Len(s), g) /\ FlattenSeq(s) = g[Len(s)]
    BY <2>1, FlattenIs
  <2>a. /\ g[1] = s[1]
        /\ \A i \in 1..(Len(s)-1) : g[i+1] = g[i] \o s[i+1]
    <3>1. Len(s) > 0
      BY <2>1
    <3>2. QED BY <2>2, <3>1, Zenon DEF FlattenRuns
  <2> DEFINE T == {i \in Nat : i \in 1..Len(s) => g[i] \in Seq(S)}
  <2>3. 0 \in T
    OBVIOUS
  <2>4. ASSUME NEW i \in Nat, i \in T PROVE i + 1 \in T
    <3>1. SUFFICES ASSUME i + 1 \in 1..Len(s) PROVE g[i+1] \in Seq(S)
      OBVIOUS
    <3>2. s[i+1] \in Seq(S)
      BY <3>1
    <3>3. CASE i = 0
      BY <2>a, <3>2, <3>3
    <3>4. CASE i # 0
      <4>1. i \in 1..(Len(s)-1) /\ i \in 1..Len(s)
        BY <3>1, <3>4
      <4>2. g[i+1] = g[i] \o s[i+1]
        BY <2>a, <4>1
      <4>3. g[i] \in Seq(S)
        BY <2>4, <4>1
      <4>4. QED BY <3>2, <4>2, <4>3
    <3>5. QED BY <3>3, <3>4
  <2> HIDE DEF T
  <2>5. Len(s) \in T
    BY <2>1, <2>3, <2>4, SetInduction
  <2>6. QED
    BY <2>1, <2>2, <2>5 DEF T
<1>3. QED BY <1>1, <1>2

\* One more sequence goes behind the flattening of those before it.
LEMMA FlattenStep ==
  ASSUME NEW s, NEW t, NEW n \in Nat \ {0}, Len(s) = n, Len(t) = n + 1,
         \A i \in 1..n : s[i] = t[i]
  PROVE  FlattenSeq(t) = FlattenSeq(s) \o t[n+1]
<1>1. n + 1 \in Nat \ {0} /\ n + 1 \in Nat /\ n \in Nat /\ n <= n + 1
  OBVIOUS
<1>2. PICK g : FlattenRuns(s, n, g) /\ FlattenSeq(s) = g[n]
  BY FlattenIs
<1>3. PICK h : FlattenRuns(t, n + 1, h) /\ FlattenSeq(t) = h[n+1]
  BY <1>1, FlattenIs
<1>4. \A i \in 1..n : g[i] = h[i]
  BY <1>1, <1>2, <1>3, FlattenAgree
<1>5. g[n] = h[n]
  BY <1>4
<1>6. h[n+1] = h[n] \o t[n+1]
  <2>1. n \in 1..((n+1)-1)
    OBVIOUS
  <2>2. QED BY <1>3, <2>1 DEF FlattenRuns
<1>7. QED BY <1>2, <1>3, <1>5, <1>6

\* Flattening a single sequence.
LEMMA FlattenOne ==
  ASSUME NEW s, Len(s) = 1
  PROVE  FlattenSeq(s) = s[1]
<1>1. PICK n \in Nat \ {0} : n = 1 /\ Len(s) = n
  OBVIOUS
<1>2. PICK g : FlattenRuns(s, n, g) /\ FlattenSeq(s) = g[n]
  BY <1>1, FlattenIs
<1>3. QED BY <1>1, <1>2 DEF FlattenRuns

\* Appending to the outer sequence appends to the flattened one.
LEMMA FlattenAppend ==
  ASSUME NEW S, NEW s \in Seq(Seq(S)), NEW e \in Seq(S)
  PROVE  FlattenSeq(Append(s, e)) = FlattenSeq(s) \o e
<1> DEFINE t == Append(s, e)
           n == Len(s)
<1>1. /\ n \in Nat /\ Len(t) = n + 1 /\ t[n+1] = e
      /\ \A i \in 1..n : s[i] = t[i]
  OBVIOUS
<1>2. CASE s = << >>
  <2>1. n = 0 /\ FlattenSeq(s) = << >>
    BY <1>2, FlattenEmpty
  <2> HIDE DEF t, n
  <2>2. Len(t) \in Nat \ {0} /\ Len(t) = 1 /\ t[1] = e
    BY <1>1, <2>1
  <2>3. FlattenSeq(t) = t[1]
    BY <2>2, FlattenOne, Zenon
  <2>4. << >> \o e = e
    OBVIOUS
  <2>5. QED BY <2>1, <2>2, <2>3, <2>4 DEF t
<1>3. CASE s # << >>
  <2>1. n \in Nat \ {0}
    BY <1>3
  <2> HIDE DEF t
  <2>2. FlattenSeq(t) = FlattenSeq(s) \o t[n+1]
    BY <1>1, <2>1, FlattenStep, Zenon
  <2>3. QED BY <1>1, <2>2 DEF t
<1>4. QED BY <1>2, <1>3
-----------------------------------------------------------------------------
\* Tail, Append and prepending, in terms of the set of elements.
LEMMA RangeEmpty == Range(<< >>) = {}
BY DEF Range

\* The elements of a sequence are in its base set.
LEMMA RangeType ==
  ASSUME NEW S, NEW s \in Seq(S)
  PROVE  Range(s) \subseteq S
BY DEF Range

\* Those of a sequence are its head and those of its tail.
LEMMA RangeHeadTail ==
  ASSUME NEW S, NEW s \in Seq(S), s # << >>
  PROVE  /\ Head(s) \in S /\ Tail(s) \in Seq(S)
         /\ Range(s) = {Head(s)} \cup Range(Tail(s))
<1>1. Head(s) \in S /\ Tail(s) \in Seq(S)
  OBVIOUS
<1>2. Head(s) = s[1] /\ 1 \in DOMAIN s
  OBVIOUS
<1>3. ASSUME NEW i \in DOMAIN s
      PROVE  s[i] \in {Head(s)} \cup Range(Tail(s))
  <2>1. CASE i = 1
    BY <1>2, <2>1
  <2>2. CASE i # 1
    <3>1. i - 1 \in DOMAIN Tail(s) /\ Tail(s)[i - 1] = s[i]
      BY <2>2
    <3>2. QED BY <3>1 DEF Range
  <2>3. QED BY <2>1, <2>2
<1>4. ASSUME NEW i \in DOMAIN Tail(s)
      PROVE  Tail(s)[i] \in Range(s)
  <2>1. i + 1 \in DOMAIN s /\ Tail(s)[i] = s[i + 1]
    OBVIOUS
  <2>2. QED BY <2>1 DEF Range
<1>5. QED
  BY <1>1, <1>2, <1>3, <1>4 DEF Range

\* Appending adds one.
LEMMA RangeAppend ==
  ASSUME NEW S, NEW s \in Seq(S), NEW e \in S
  PROVE  /\ Append(s, e) \in Seq(S)
         /\ Range(Append(s, e)) = Range(s) \cup {e}
<1>1. Append(s, e) \in Seq(S) /\ DOMAIN Append(s, e) = 1..(Len(s) + 1)
  OBVIOUS
<1>2. \A i \in DOMAIN s : i \in DOMAIN Append(s, e) /\ Append(s, e)[i] = s[i]
  OBVIOUS
<1>3. Append(s, e)[Len(s) + 1] = e /\ Len(s) + 1 \in DOMAIN Append(s, e)
  OBVIOUS
<1>4. \A i \in DOMAIN Append(s, e) : i \in DOMAIN s \/ i = Len(s) + 1
  BY <1>1
<1>5. QED
  BY <1>1, <1>2, <1>3, <1>4 DEF Range

\* An initial part has no others.
LEMMA RangeFront ==
  ASSUME NEW S, NEW s \in Seq(S), NEW n \in 0..Len(s)
  PROVE  /\ SubSeq(s, 1, n) \in Seq(S)
         /\ Range(SubSeq(s, 1, n)) \subseteq Range(s)
<1>1. SubSeq(s, 1, n) \in Seq(S) /\ Len(SubSeq(s, 1, n)) = n
  OBVIOUS
<1>2. \A i \in 1..n : i \in DOMAIN s /\ SubSeq(s, 1, n)[i] = s[i]
  OBVIOUS
<1>3. QED
  BY <1>1, <1>2 DEF Range

\* Dropping the last element leaves every element but that one.
LEMMA RangeDropLast ==
  ASSUME NEW S, NEW s \in Seq(S), s # << >>
  PROVE  /\ SubSeq(s, 1, Len(s) - 1) \in Seq(S)
         /\ Range(SubSeq(s, 1, Len(s) - 1)) \subseteq Range(s)
         /\ Range(s) \subseteq Range(SubSeq(s, 1, Len(s) - 1)) \cup {s[Len(s)]}
         /\ s[Len(s)] \in Range(s)
<1> DEFINE t == SubSeq(s, 1, Len(s) - 1)
<1>1. Len(s) \in Nat \ {0} /\ DOMAIN s = 1..Len(s)
  OBVIOUS
<1>2. t \in Seq(S) /\ Len(t) = Len(s) - 1 /\ DOMAIN t = 1..(Len(s) - 1)
  BY <1>1
<1>3. \A i \in 1..(Len(s) - 1) : t[i] = s[i]
  BY <1>1
<1>4. \A i \in DOMAIN s : i \in DOMAIN t \/ i = Len(s)
  BY <1>1, <1>2
<1>5. \A i \in DOMAIN t : i \in DOMAIN s
  BY <1>1, <1>2
<1>6. QED
  BY <1>1, <1>2, <1>3, <1>4, <1>5 DEF Range

\* Prepending adds one.
LEMMA RangePrepend ==
  ASSUME NEW S, NEW s \in Seq(S), NEW e \in S
  PROVE  /\ <<e>> \o s \in Seq(S)
         /\ Range(<<e>> \o s) = {e} \cup Range(s)
<1> DEFINE t == <<e>> \o s
<1>1. t \in Seq(S) /\ DOMAIN t = 1..(Len(s) + 1) /\ Len(s) \in Nat
  OBVIOUS
<1>2. t[1] = e /\ 1 \in DOMAIN t
  BY <1>1
<1>3. \A i \in DOMAIN s : i + 1 \in DOMAIN t /\ t[i + 1] = s[i]
  BY <1>1
<1>4. \A i \in DOMAIN t : i = 1 \/ (i - 1 \in DOMAIN s /\ t[i] = s[i - 1])
  BY <1>1
<1>5. Range(t) \subseteq {e} \cup Range(s)
  <2>1. SUFFICES ASSUME NEW i \in DOMAIN t PROVE t[i] \in {e} \cup Range(s)
    BY DEF Range
  <2>2. QED BY <1>2, <1>4 DEF Range
<1>6. {e} \cup Range(s) \subseteq Range(t)
  <2>1. e \in Range(t)
    BY <1>2 DEF Range
  <2>2. ASSUME NEW i \in DOMAIN s PROVE s[i] \in Range(t)
    BY <1>3 DEF Range
  <2>3. QED BY <2>1, <2>2 DEF Range
<1>7. QED
  BY <1>1, <1>5, <1>6

-----------------------------------------------------------------------------
\* Sweep's list surgery keeps every header listed once.
LEMMA InjectiveTail ==
  ASSUME NEW S, NEW s \in Seq(S), s # << >>, IsInjective(s)
  PROVE  IsInjective(Tail(s)) /\ Head(s) \notin Range(Tail(s))
<1>1. Head(s) = s[1] /\ 1 \in DOMAIN s
  OBVIOUS
<1>2. \A i \in DOMAIN Tail(s) : i + 1 \in DOMAIN s /\ Tail(s)[i] = s[i + 1] /\ i \in Nat \ {0}
  OBVIOUS
<1>3. QED
  BY <1>1, <1>2 DEF IsInjective, Range

\* A new element at the end keeps a sequence without repetition.
LEMMA InjectiveAppend ==
  ASSUME NEW S, NEW s \in Seq(S), NEW e \in S, IsInjective(s), e \notin Range(s)
  PROVE  IsInjective(Append(s, e))
<1> DEFINE t == Append(s, e)
<1>1. DOMAIN t = 1..(Len(s) + 1) /\ DOMAIN s = 1..Len(s) /\ Len(s) \in Nat
  OBVIOUS
<1>2. \A i \in DOMAIN t : (i \in DOMAIN s /\ t[i] = s[i]) \/ (i = Len(s) + 1 /\ t[i] = e)
  BY <1>1
<1>3. ASSUME NEW i \in DOMAIN t, NEW j \in DOMAIN t, t[i] = t[j]
      PROVE  i = j
  <2>1. \A k \in DOMAIN s : s[k] # e
    BY DEF Range
  <2>2. QED BY <1>2, <1>3, <2>1 DEF IsInjective
<1>4. QED BY <1>3 DEF IsInjective

\* So does one at the beginning.
LEMMA InjectivePrepend ==
  ASSUME NEW S, NEW s \in Seq(S), NEW e \in S, IsInjective(s), e \notin Range(s)
  PROVE  IsInjective(<<e>> \o s)
<1> DEFINE t == <<e>> \o s
<1>1. DOMAIN t = 1..(Len(s) + 1) /\ DOMAIN s = 1..Len(s) /\ Len(s) \in Nat
  OBVIOUS
<1>2. \A i \in DOMAIN t :
        \/ i = 1 /\ t[i] = e
        \/ i # 1 /\ i - 1 \in DOMAIN s /\ t[i] = s[i - 1] /\ i \in Nat
  BY <1>1
<1>3. ASSUME NEW i \in DOMAIN t, NEW j \in DOMAIN t, t[i] = t[j]
      PROVE  i = j
  <2>1. \A k \in DOMAIN s : s[k] # e
    BY DEF Range
  <2>2. CASE i = 1 \/ j = 1
    BY <1>2, <1>3, <2>1, <2>2
  <2>3. CASE i # 1 /\ j # 1
    <3>1. s[i - 1] = s[j - 1] /\ i - 1 \in DOMAIN s /\ j - 1 \in DOMAIN s /\ i \in Nat /\ j \in Nat
      BY <1>2, <1>3, <2>3
    <3>2. i - 1 = j - 1
      BY <3>1 DEF IsInjective
    <3>3. QED BY <3>1, <3>2
  <2>4. QED BY <2>2, <2>3
<1>4. QED BY <1>3 DEF IsInjective

\* So do two sequences without repetition that share nothing.
LEMMA InjectiveConcat ==
  ASSUME NEW S, NEW s \in Seq(S), NEW t \in Seq(S), IsInjective(s), IsInjective(t),
         Range(s) \cap Range(t) = {}
  PROVE  IsInjective(s \o t)
<1> DEFINE u == s \o t
<1>1. /\ DOMAIN u = 1..(Len(s) + Len(t))
      /\ DOMAIN s = 1..Len(s) /\ DOMAIN t = 1..Len(t)
      /\ Len(s) \in Nat /\ Len(t) \in Nat
  OBVIOUS
<1>2. ASSUME NEW i \in DOMAIN u
      PROVE  \/ i \in DOMAIN s /\ u[i] = s[i]
             \/ i - Len(s) \in DOMAIN t /\ u[i] = t[i - Len(s)] /\ i \in Nat
  BY <1>1
<1>3. ASSUME NEW i \in DOMAIN s, NEW j \in DOMAIN t
      PROVE  s[i] # t[j]
  BY DEF Range
<1>4. ASSUME NEW i \in DOMAIN u, NEW j \in DOMAIN u, u[i] = u[j]
      PROVE  i = j
  <2>1. CASE i \in DOMAIN s /\ u[i] = s[i] /\ j \in DOMAIN s /\ u[j] = s[j]
    BY <1>4, <2>1 DEF IsInjective
  <2>2. CASE /\ i - Len(s) \in DOMAIN t /\ u[i] = t[i - Len(s)] /\ i \in Nat
             /\ j - Len(s) \in DOMAIN t /\ u[j] = t[j - Len(s)] /\ j \in Nat
    <3>1. i - Len(s) = j - Len(s)
      BY <1>4, <2>2 DEF IsInjective
    <3>2. QED BY <3>1, <2>2, <1>1
  <2>3. QED BY <1>2, <1>3, <1>4, <2>1, <2>2
<1>5. QED BY <1>4 DEF IsInjective

\* A sequence of distinct elements of a finite set is no longer than the set.
LEMMA InjectiveFits ==
  ASSUME NEW S, NEW s \in Seq(S), IsFiniteSet(S), IsInjective(s)
  PROVE  Len(s) <= Cardinality(S)
<1>1. s \in Injection(1..Len(s), S)
  BY DEF Injection
<1>2. Cardinality(1..Len(s)) <= Cardinality(S)
  BY <1>1, FS_Injection
<1>3. Cardinality(1..Len(s)) = Len(s)
  <2>1. PICK n \in Nat : n = Len(s)
    OBVIOUS
  <2>2. Cardinality(1..n) = n
    BY FS_Interval
  <2>3. QED BY <2>1, <2>2
<1>4. QED BY <1>2, <1>3

-----------------------------------------------------------------------------
(* Concatenation, under a name the provers do not look behind. *)

Cat(s, t) == s \o t

\* Its type, elements and length.
LEMMA CatType ==
  ASSUME NEW S, NEW s \in Seq(S), NEW t \in Seq(S)
  PROVE  /\ Cat(s, t) \in Seq(S)
         /\ Range(Cat(s, t)) = Range(s) \cup Range(t)
         /\ Len(Cat(s, t)) = Len(s) + Len(t)
<1>1. Range(s \o t) = Range(s) \cup Range(t)
  BY RangeConcatenation
<1>2. s \o t \in Seq(S) /\ Len(s \o t) = Len(s) + Len(t)
  BY ConcatProperties
<1>3. QED BY <1>1, <1>2 DEF Cat

\* The empty sequence is its unit.
LEMMA CatEmpty ==
  ASSUME NEW S, NEW s \in Seq(S)
  PROVE  Cat(s, << >>) = s /\ Cat(<< >>, s) = s
BY DEF Cat

\* It is associative.
LEMMA CatAssociative ==
  ASSUME NEW S, NEW s \in Seq(S), NEW t \in Seq(S), NEW u \in Seq(S)
  PROVE  Cat(Cat(s, t), u) = Cat(s, Cat(t, u))
BY ConcatAssociative DEF Cat

\* Appending to it appends to its second part.
LEMMA CatAppend ==
  ASSUME NEW S, NEW s \in Seq(S), NEW t \in Seq(S), NEW e \in S
  PROVE  Append(Cat(s, t), e) = Cat(s, Append(t, e))
BY DEF Cat

\* Its first part is what is left without as many elements as the second has.
LEMMA CatFirst ==
  ASSUME NEW S, NEW s \in Seq(S), NEW t \in Seq(S)
  PROVE  SubSeq(Cat(s, t), 1, Len(Cat(s, t)) - Len(t)) = s
<1>1. PICK m \in Nat, n \in Nat : m = Len(s) /\ n = Len(t)
  OBVIOUS
<1>2. Len(s \o t) = m + n /\ (m + n) - n = m
  BY <1>1
<1>3. SubSeq(s \o t, 1, m) = s
  BY <1>1
<1>4. QED BY <1>1, <1>2, <1>3 DEF Cat

\* Its second part is its end.
LEMMA CatSecond ==
  ASSUME NEW S, NEW s \in Seq(S), NEW t \in Seq(S)
  PROVE  SubSeq(Cat(s, t), Len(Cat(s, t)) + 1 - Len(t), Len(Cat(s, t))) = t
<1>1. PICK m \in Nat, n \in Nat : m = Len(s) /\ n = Len(t)
  OBVIOUS
<1>2. Len(s \o t) = m + n /\ (m + n) + 1 - n = m + 1
  BY <1>1
<1>3. SubSeq(s \o t, m + 1, m + n) = t
  BY <1>1
<1>4. QED BY <1>1, <1>2, <1>3 DEF Cat

\* Of distinct elements it is made of parts that share none.
LEMMA CatInjective ==
  ASSUME NEW S, NEW s \in Seq(S), NEW t \in Seq(S)
  PROVE  IsInjective(Cat(s, t)) <=>
           IsInjective(s) /\ IsInjective(t) /\ Range(s) \cap Range(t) = {}
<1> DEFINE u == s \o t
<1>1. PICK m \in Nat, n \in Nat : m = Len(s) /\ n = Len(t)
  OBVIOUS
<1>2. DOMAIN u = 1..(m + n) /\ DOMAIN s = 1..m /\ DOMAIN t = 1..n
  BY <1>1
<1>3. /\ \A i \in 1..m : u[i] = s[i]
      /\ \A i \in 1..n : u[m + i] = t[i]
  BY <1>1
<1>4. ASSUME IsInjective(s), IsInjective(t), Range(s) \cap Range(t) = {}
      PROVE  IsInjective(u)
  BY <1>4, InjectiveConcat
<1> HIDE DEF u
<1>5. ASSUME IsInjective(u)
      PROVE  IsInjective(s) /\ IsInjective(t) /\ Range(s) \cap Range(t) = {}
  <2>1. \A i \in 1..(m + n), j \in 1..(m + n) : u[i] = u[j] => i = j
    BY <1>2, <1>5 DEF IsInjective
  <2>2. IsInjective(s)
    BY <1>2, <1>3, <2>1 DEF IsInjective
  <2>3. IsInjective(t)
    <3>1. ASSUME NEW i \in 1..n, NEW j \in 1..n, t[i] = t[j] PROVE i = j
      <4>1. m + i \in 1..(m + n) /\ m + j \in 1..(m + n) /\ u[m + i] = u[m + j]
        BY <1>3, <3>1
      <4>2. m + i = m + j
        BY <2>1, <4>1
      <4>3. QED BY <4>2
    <3>2. QED BY <1>2, <3>1 DEF IsInjective
  <2>4. ASSUME NEW e \in Range(s), e \in Range(t) PROVE FALSE
    <3>1. PICK i \in 1..m, j \in 1..n : s[i] = e /\ t[j] = e
      BY <1>2, <2>4 DEF Range
    <3>2. i \in 1..(m + n) /\ m + j \in 1..(m + n) /\ i # m + j
      OBVIOUS
    <3>3. u[i] = u[m + j]
      BY <1>3, <3>1
    <3>4. QED BY <2>1, <3>2, <3>3
  <2>5. QED BY <2>2, <2>3, <2>4
<1>6. QED BY <1>4, <1>5 DEF Cat, u

-----------------------------------------------------------------------------
(* Sums *)

\* The sum over S of the numbers w gives its elements.
Total(w, S) == MapThenSumSet(LAMBDA x : w[x], S)

Pick(s) == CHOOSE x \in s : TRUE

\* The equation of MapThenSumSet's recursive function on the sets D, and what
\* it says of each of them.
SumEquation(w, D, g) ==
  g = [s \in D |-> IF s = {} THEN 0 ELSE w[Pick(s)] + g[s \ {Pick(s)}]]
SumRuns(w, S, g) ==
  \A s \in SUBSET S : g[s] = IF s = {} THEN 0 ELSE w[Pick(s)] + g[s \ {Pick(s)}]

Sized(S, n) == {s \in SUBSET S : Cardinality(s) <= n}

\* The element the fold takes first is one of the set's.
LEMMA PickIn == \A s : s # {} => Pick(s) \in s
BY DEF Pick

\* Finite subsets and what is left of one without an element.
LEMMA Smaller ==
  ASSUME NEW S, IsFiniteSet(S), NEW s \in SUBSET S, NEW x \in s
  PROVE  /\ IsFiniteSet(s) /\ Cardinality(s) \in Nat \ {0}
         /\ s \ {x} \in SUBSET S /\ IsFiniteSet(s \ {x})
         /\ Cardinality(s \ {x}) = Cardinality(s) - 1
<1>1. IsFiniteSet(s)
  BY FS_Subset
<1>2. Cardinality(s) \in Nat /\ Cardinality(s) # 0
  BY <1>1, FS_CardinalityType, FS_EmptySet
<1>3. QED
  BY <1>1, <1>2, FS_RemoveElement

\* A set of n + 1 elements without one of them has n.
LEMMA OneSmaller ==
  ASSUME NEW S, IsFiniteSet(S), NEW s \in SUBSET S, NEW n \in Nat, Cardinality(s) = n + 1
  PROVE  /\ s # {}
         /\ \A x \in s : s \ {x} \in SUBSET S /\ Cardinality(s \ {x}) = n
<1>1. s # {}
  BY FS_EmptySet
<1>2. ASSUME NEW x \in s PROVE s \ {x} \in SUBSET S /\ Cardinality(s \ {x}) = n
  <2>1. s \ {x} \in SUBSET S /\ Cardinality(s \ {x}) = Cardinality(s) - 1
    BY Smaller
  <2>2. QED BY <2>1
<1>3. QED BY <1>1, <1>2

\* The recursive function of MapThenSumSet exists on the subsets of S.
LEMMA SumSolvable ==
  ASSUME NEW w, NEW S, IsFiniteSet(S), NEW k \in Nat
  PROVE  \E g : SumEquation(w, Sized(S, k), g)
<1> DEFINE T == {n \in Nat : \E g : SumEquation(w, Sized(S, n), g)}
           E(g, s) == IF s = {} THEN 0 ELSE w[Pick(s)] + g[s \ {Pick(s)}]
<1>1. 0 \in T
  <2> DEFINE g == [s \in Sized(S, 0) |-> 0]
  <2>1. \A s \in Sized(S, 0) : s = {}
    BY FS_Subset, FS_EmptySet, FS_CardinalityType DEF Sized
  <2>2. \A s \in Sized(S, 0) : E(g, s) = 0
    BY <2>1
  <2>3. g = [s \in Sized(S, 0) |-> E(g, s)]
    <3> HIDE DEF E
    <3>1. QED BY <2>2
  <2>4. SumEquation(w, Sized(S, 0), g)
    <3> HIDE DEF g
    <3>1. QED BY <2>3 DEF SumEquation
  <2>5. QED BY <2>4
<1>2. ASSUME NEW n \in Nat, n \in T PROVE n + 1 \in T
  <2>1. PICK g : SumEquation(w, Sized(S, n), g)
    BY <1>2
  <2> DEFINE h == [s \in Sized(S, n + 1) |-> E(g, s)]
  <2>2. \A s \in Sized(S, n) : s \in Sized(S, n + 1)
    BY FS_Subset, FS_CardinalityType DEF Sized
  <2>3. ASSUME NEW s \in Sized(S, n) PROVE h[s] = g[s]
    <3>1. g[s] = E(g, s)
      BY <2>1 DEF SumEquation
    <3> HIDE DEF E
    <3>2. QED BY <2>2, <3>1
  <2>4. ASSUME NEW s \in Sized(S, n + 1) PROVE E(h, s) = E(g, s)
    <3>1. CASE s = {}
      BY <3>1
    <3>2. CASE s # {}
      <4>1. Pick(s) \in s /\ s \in SUBSET S /\ Cardinality(s) <= n + 1
        BY <3>2, PickIn DEF Sized
      <4>2. Cardinality(s \ {Pick(s)}) = Cardinality(s) - 1 /\ Cardinality(s) \in Nat
            /\ s \ {Pick(s)} \in SUBSET S
        BY <4>1, Smaller
      <4>3. s \ {Pick(s)} \in Sized(S, n)
        BY <4>1, <4>2 DEF Sized
      <4>4. h[s \ {Pick(s)}] = g[s \ {Pick(s)}]
        BY <2>3, <4>3
      <4> HIDE DEF h
      <4>5. QED BY <4>4
    <3>3. QED BY <3>1, <3>2
  <2>5. h = [s \in Sized(S, n + 1) |-> E(h, s)]
    <3>1. \A s \in Sized(S, n + 1) : h[s] = E(h, s)
      <4> HIDE DEF E
      <4>1. QED BY <2>4
    <3>2. h = [s \in Sized(S, n + 1) |-> h[s]]
      OBVIOUS
    <3> HIDE DEF h, E
    <3>3. QED BY <3>1, <3>2
  <2> HIDE DEF h
  <2>6. SumEquation(w, Sized(S, n + 1), h)
    BY <2>5 DEF SumEquation
  <2>7. QED BY <2>6
<1> HIDE DEF T
<1>3. k \in T
  BY <1>1, <1>2, SetInduction
<1>4. QED BY <1>3 DEF T

\* A total is computed by such a function on the subsets of S.
LEMMA TotalIs ==
  ASSUME NEW w, NEW S, IsFiniteSet(S)
  PROVE  \E g : SumRuns(w, S, g) /\ Total(w, S) = g[S]
<1> DEFINE g == CHOOSE h : SumEquation(w, SUBSET S, h)
<1>1. SumEquation(w, SUBSET S, g)
  <2>1. PICK k \in Nat : k = Cardinality(S)
    BY FS_CardinalityType
  <2>2. SUBSET S = Sized(S, k)
    BY <2>1, FS_Subset DEF Sized
  <2>3. \E h : SumEquation(w, Sized(S, k), h)
    BY SumSolvable
  <2>4. QED BY <2>2, <2>3
<1>2. Total(w, S) = g[S]
  BY DEF Total, MapThenSumSet, MapThenFoldSet, SumEquation, Pick
<1> HIDE DEF g
<1>3. SumRuns(w, S, g)
  <2>1. ASSUME NEW s \in SUBSET S
        PROVE  g[s] = IF s = {} THEN 0 ELSE w[Pick(s)] + g[s \ {Pick(s)}]
    BY <1>1 DEF SumEquation
  <2>2. QED BY <2>1 DEF SumRuns
<1>4. QED BY <1>2, <1>3

\* The sum over the empty set.
LEMMA SumOfNone ==
  ASSUME NEW w, NEW S, NEW g, IsFiniteSet(S), SumRuns(w, S, g)
  PROVE  \A s \in SUBSET S : Cardinality(s) = 0 => g[s] = 0
<1>1. ASSUME NEW s \in SUBSET S, Cardinality(s) = 0 PROVE g[s] = 0
  <2>1. s = {}
    BY <1>1, FS_Subset, FS_EmptySet
  <2>2. QED BY <2>1 DEF SumRuns
<1>2. QED BY <1>1

\* Sums of equal numbers are equal, whatever larger set they are taken in.
LEMMA SumAgree ==
  ASSUME NEW w, NEW v, NEW S, NEW R, NEW g, NEW h,
         IsFiniteSet(R), S \in SUBSET R, \A x \in S : w[x] = v[x],
         SumRuns(w, S, g), SumRuns(v, R, h)
  PROVE  \A s \in SUBSET S : g[s] = h[s]
<1> DEFINE T == {n \in Nat : \A s \in SUBSET S : Cardinality(s) = n => g[s] = h[s]}
<1>a. IsFiniteSet(S)
  BY FS_Subset
<1>1. 0 \in T
  <2>1. \A s \in SUBSET S : Cardinality(s) = 0 => g[s] = 0
    <3> HIDE DEF T
    <3>1. QED BY <1>a, SumOfNone
  <2>2. \A s \in SUBSET R : Cardinality(s) = 0 => h[s] = 0
    <3> HIDE DEF T
    <3>1. QED BY SumOfNone
  <2>3. QED BY <2>1, <2>2
<1>2. ASSUME NEW n \in Nat, n \in T PROVE n + 1 \in T
  <2>1. SUFFICES ASSUME NEW s \in SUBSET S, Cardinality(s) = n + 1 PROVE g[s] = h[s]
    OBVIOUS
  <2>2. /\ s # {}
        /\ \A x \in s : s \ {x} \in SUBSET S /\ Cardinality(s \ {x}) = n
    <3> HIDE DEF T
    <3>1. QED BY <1>a, <2>1, OneSmaller
  <2> DEFINE x == Pick(s)
             r == s \ {x}
  <2>3. x \in s /\ x \in S /\ s \in SUBSET R
    BY <2>2, PickIn
  <2>4. r \in SUBSET S /\ Cardinality(r) = n
    BY <2>2, <2>3
  <2>5. g[r] = h[r] /\ w[x] = v[x]
    BY <1>2, <2>3, <2>4
  <2>6. g[s] = w[x] + g[r]
    BY <2>2 DEF SumRuns
  <2>7. h[s] = v[x] + h[r]
    BY <2>2, <2>3 DEF SumRuns
  <2>8. QED BY <2>5, <2>6, <2>7
<1> HIDE DEF T
<1>3. Nat \subseteq T
  BY <1>1, <1>2, SetInduction
<1>4. ASSUME NEW s \in SUBSET S PROVE g[s] = h[s]
  <2>1. Cardinality(s) \in T
    BY <1>a, <1>3, FS_Subset, FS_CardinalityType
  <2>2. QED BY <2>1 DEF T
<1>5. QED BY <1>4

\* Sums of integers are integers, sums of naturals are naturals.
LEMMA SumType ==
  ASSUME NEW w, NEW S, NEW g, IsFiniteSet(S), \A x \in S : w[x] \in Int, SumRuns(w, S, g)
  PROVE  \A s \in SUBSET S :
           /\ g[s] \in Int
           /\ (\A x \in S : w[x] \in Nat) => g[s] \in Nat
<1>b. \A s \in SUBSET S : Cardinality(s) = 0 => g[s] = 0
  BY SumOfNone
<1> DEFINE T == {n \in Nat : \A s \in SUBSET S : Cardinality(s) = n =>
                   /\ g[s] \in Int
                   /\ (\A x \in S : w[x] \in Nat) => g[s] \in Nat}
<1>1. 0 \in T
  BY <1>b
<1>2. ASSUME NEW n \in Nat, n \in T PROVE n + 1 \in T
  <2>1. SUFFICES ASSUME NEW s \in SUBSET S, Cardinality(s) = n + 1
                 PROVE  /\ g[s] \in Int
                        /\ (\A x \in S : w[x] \in Nat) => g[s] \in Nat
    OBVIOUS
  <2>2. /\ s # {}
        /\ \A x \in s : s \ {x} \in SUBSET S /\ Cardinality(s \ {x}) = n
    <3> HIDE DEF T
    <3>1. QED BY <2>1, OneSmaller
  <2> DEFINE x == Pick(s)
             r == s \ {x}
  <2>3. x \in s /\ w[x] \in Int /\ x \in S
    BY <2>2, PickIn
  <2>4. r \in SUBSET S /\ Cardinality(r) = n
    BY <2>2, <2>3
  <2>5. g[r] \in Int /\ ((\A y \in S : w[y] \in Nat) => g[r] \in Nat)
    BY <1>2, <2>4
  <2>6. g[s] = w[x] + g[r]
    BY <2>2 DEF SumRuns
  <2> HIDE DEF T, x, r
  <2>7. QED BY <2>3, <2>5, <2>6
<1> HIDE DEF T
<1>3. Nat \subseteq T
  BY <1>1, <1>2, SetInduction
<1>4. ASSUME NEW s \in SUBSET S
      PROVE  g[s] \in Int /\ ((\A x \in S : w[x] \in Nat) => g[s] \in Nat)
  <2>1. Cardinality(s) \in T
    BY <1>3, FS_Subset, FS_CardinalityType
  <2>2. QED BY <2>1 DEF T
<1>5. QED BY <1>4

\* Whichever element the fold would take first, any other can be taken first.
LEMMA SumAnyOrder ==
  ASSUME NEW w, NEW S, NEW g, NEW b \in S, NEW R, IsFiniteSet(S), R = S \ {b},
         \A x \in S : w[x] \in Int, SumRuns(w, S, g)
  PROVE  g[S] = w[b] + g[R]
<1> DEFINE T == {n \in Nat : \A s \in SUBSET S : \A x \in s :
                   Cardinality(s) = n => g[s] = w[x] + g[s \ {x}]}
<1>1. 0 \in T
  <2>1. ASSUME NEW s \in SUBSET S, NEW x \in s PROVE Cardinality(s) # 0
    <3> HIDE DEF T
    <3>1. QED BY Smaller
  <2>2. QED BY <2>1
<1>2. ASSUME NEW n \in Nat, n \in T PROVE n + 1 \in T
  <2>1. SUFFICES ASSUME NEW s \in SUBSET S, NEW x \in s, Cardinality(s) = n + 1
                 PROVE  g[s] = w[x] + g[s \ {x}]
    OBVIOUS
  <2> DEFINE c == Pick(s)
             both == (s \ {x}) \ {c}
  <2>2. c \in s
    BY PickIn
  <2>3. g[s] = w[c] + g[s \ {c}]
    BY DEF SumRuns
  <2>4. CASE c = x
    BY <2>3, <2>4
  <2>5. CASE c # x
    <3>1. x \in s \ {c} /\ c \in s \ {x}
      BY <2>2, <2>5
    <3>2. /\ s \ {c} \in SUBSET S /\ Cardinality(s \ {c}) = n
          /\ s \ {x} \in SUBSET S /\ Cardinality(s \ {x}) = n
      <4> HIDE DEF T, c
      <4>1. QED BY <2>1, <2>2, OneSmaller
    <3>3. g[s \ {c}] = w[x] + g[(s \ {c}) \ {x}]
      BY <1>2, <3>1, <3>2
    <3>4. g[s \ {x}] = w[c] + g[both]
      BY <1>2, <3>1, <3>2
    <3>5. (s \ {c}) \ {x} = both
      OBVIOUS
    <3>6. w[x] \in Int /\ w[c] \in Int /\ g[both] \in Int
      <4> HIDE DEF T
      <4>1. \A r \in SUBSET S : g[r] \in Int
        BY SumType
      <4>2. QED BY <2>2, <4>1
    <3> HIDE DEF T, c, both
    <3>7. g[s] = w[c] + (w[x] + g[both])
      BY <2>3, <3>3, <3>5
    <3>8. w[c] + (w[x] + g[both]) = w[x] + (w[c] + g[both])
      BY <3>6
    <3>9. QED BY <3>4, <3>7, <3>8
  <2>6. QED BY <2>4, <2>5
<1> HIDE DEF T
<1>3. Nat \subseteq T
  BY <1>1, <1>2, SetInduction
<1>4. S \in SUBSET S /\ Cardinality(S) \in T
  BY <1>3, FS_CardinalityType
<1>5. QED BY <1>4 DEF T

-----------------------------------------------------------------------------

\* What the proofs about live_bytes use: the total of nothing,
LEMMA TotalEmpty == ASSUME NEW w PROVE Total(w, {}) = 0
<1>1. IsFiniteSet({}) /\ {} \in SUBSET {}
  BY FS_EmptySet
<1>2. PICK g : SumRuns(w, {}, g) /\ Total(w, {}) = g[{}]
  BY <1>1, TotalIs
<1>3. QED BY <1>1, <1>2 DEF SumRuns

\* of naturals,
LEMMA TotalNat ==
  ASSUME NEW w, NEW S, IsFiniteSet(S), \A x \in S : w[x] \in Nat
  PROVE  Total(w, S) \in Nat
<1>1. PICK g : SumRuns(w, S, g) /\ Total(w, S) = g[S]
  BY TotalIs
<1>2. QED BY <1>1, SumType

\* of equal numbers,
LEMMA TotalSame ==
  ASSUME NEW w, NEW v, NEW S, IsFiniteSet(S), \A x \in S : w[x] = v[x]
  PROVE  Total(w, S) = Total(v, S)
<1>1. PICK g : SumRuns(w, S, g) /\ Total(w, S) = g[S]
  BY TotalIs
<1>2. PICK h : SumRuns(v, S, h) /\ Total(v, S) = h[S]
  BY TotalIs
<1>3. QED BY <1>1, <1>2, SumAgree

\* and of a set as that of the set without an element.
LEMMA TotalSplit ==
  ASSUME NEW w, NEW S, IsFiniteSet(S), \A x \in S : w[x] \in Int, 
         NEW b \in S, NEW R, R = S \ {b}
  PROVE  Total(w, S) = w[b] + Total(w, R)
<1>1. IsFiniteSet(R) /\ R \in SUBSET S
  BY FS_RemoveElement
<1>2. PICK g : SumRuns(w, S, g) /\ Total(w, S) = g[S]
  BY TotalIs
<1>3. PICK h : SumRuns(w, R, h) /\ Total(w, R) = h[R]
  BY <1>1, TotalIs
<1>4. \A s \in SUBSET R : h[s] = g[s]
  <2>1. \A x \in R : w[x] = w[x]
    OBVIOUS
  <2>2. SumRuns(w, S, g) /\ SumRuns(w, R, h)
    BY <1>2, <1>3
  <2>3. QED BY <1>1, <2>1, <2>2, SumAgree
<1>5. h[R] = g[R]
  BY <1>4
<1>6. g[S] = w[b] + g[R]
  <2>1. SumRuns(w, S, g)
    BY <1>2
  <2>2. QED BY <2>1, SumAnyOrder
<1>7. QED BY <1>2, <1>3, <1>5, <1>6
=============================================================================
