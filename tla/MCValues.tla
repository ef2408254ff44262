------------------------------ MODULE MCValues ------------------------------
(* Types for Values: leaves, structs and seals of leaves, and two levels of   *)
(* structs and seals around those; and the families whose parts no root leads *)
(* to, which have configurations of their own.                                *)
EXTENDS Values

L(K) == {[k |-> x] : x \in K}
Scalar == [k |-> "int"]
Bool == [k |-> "bool"]
Struct(fields) == [k |-> "struct", fields |-> fields]
Seal(variants) == [k |-> "seal", variants |-> variants]

Flat1 ==
  {Struct(<<a, b>>) : a \in L({"bool", "str", "wedge"}), b \in L(Holding)}
  \cup {Seal(<< <<a>>, <<b>> >>) : a, b \in L({"int", "str", "tbl", "iv", "wedge"})}
  \cup {Seal(<< << >>, <<Bool, a>> >>) : a \in L(Holding)}
Flat2 ==
  {Struct(<<Bool, x>>) : x \in Flat1} \cup {Struct(<<x, [k |-> "str"]>>) : x \in Flat1}
  \cup {Seal(<< <<Scalar>>, <<x>> >>) : x \in Flat1}
Flat3 ==
  {Struct(<<x>>) : x \in Flat2} \cup {Seal(<< <<x>>, <<[k |-> "tbl"]>> >>) : x \in Flat2}

AllTypes == L(Holding) \cup Flat1 \cup Flat2 \cup Flat3

Places == {"slot", "chunk"}
AllHomes == AllTypes \X Places

RECURSIVE Contents(_), Inside(_)
Contents(T) == IF IsStruct(T) THEN ToSet(T.fields) ELSE IF IsSeal(T) THEN UNION {ToSet(x) : x \in ToSet(T.variants)} ELSE {}
Inside(T) == Contents(T) \cup UNION {Inside(x) : x \in Contents(T)}
Points(T) == \E x \in Inside(T) : x.k \in Holding

\* A seal that owns no str and no tablets but holds a pointer, in another type
\* or in a chunk.
Skipped(T) == IsSeal(T) /\ Points(T) /\ ~NeedsCleanup(T)
SkippedSeals ==
  {h \in AllHomes : \/ \E x \in Inside(h[1]) : Skipped(x)
                    \/ h[2] = "chunk" /\ Skipped(h[1])}

\* Variables of structs and seals that hold an ivec or a dvec and nothing that
\* gives them a descriptor.
BareVectors == {h \in AllHomes \ SkippedSeals : h[2] = "slot" /\ Points(h[1]) /\ ~HasDesc(h[1])}

\* Structs and seals that hold wedges and nothing owned: their variables have
\* no root, their initialisers' spill slots do.
BareWedgeTypes == {T \in Flat1 : HasDesc(T) /\ ~BindingRooted(T)}
BareWedges == BareWedgeTypes \X {"slot"}

TracedHomes == AllHomes \ (SkippedSeals \cup BareVectors)
RootedTypes == {T \in AllTypes : BindingRooted(T)}
SealHomes == {T \in Flat1 : IsSeal(T)} \X Places
MCVariants == [0..3 -> 0..1]
=============================================================================
