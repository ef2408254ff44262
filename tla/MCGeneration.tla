---------------------------- MODULE MCGeneration ----------------------------
(* Programs for Generation, in four kinds: what names mean, what a call      *)
(* infers, how specialisations nest, and types named in generic bodies.      *)
(* MCPrograms are the families in which the compiler does as it says; each   *)
(* of the others is a form of program in which it does not.                  *)
EXTENDS Generation

T == Var("T")
I64 == IntOf(64, TRUE)
U64 == IntOf(64, FALSE)
Wedge(t) == [k |-> "wedge", of |-> t]
IVec(t) == [k |-> "ivec", of |-> t]
Box(t) == [k |-> "struct", of |-> t]

Do(op) == [op |-> op]
CallIn(q, n, args) == [op |-> "call", q |-> q, name |-> n, args |-> args]
CallOf(n, t) == CallIn("", n, <<t>>)
TypeIn(q, n) == [op |-> "type", q |-> q, name |-> n]
Fn(params, body) == [params |-> params, body |-> body]

All(by, from) == [by |-> by, form |-> "all", from |-> from, as |-> from]
Alias(by, from, as) == [by |-> by, form |-> "alias", from |-> from, as |-> as]
Name(by, from, n, as) == [by |-> by, form |-> "name", from |-> from, name |-> n, as |-> as]

Files == <<"main", "lib", "a">>
Program(imports, fns, structs) ==
  [order |-> Files, imports |-> imports, fns |-> fns, structs |-> structs]

(* Names: x and _P declared in any of the modules, used once in main.      *)
Imports ==
  LET one == {All("main", "a"), All("a", "lib"), Alias("main", "a", "q"), Alias("main", "lib", "q")}
             \cup {Name("main", m, n, as) : m \in {"a", "lib"}, n \in {"x", "_P"}, as \in {"x", "y"}}
             \cup {All("main", "lib"), All("lib", "a")}
  IN {<< >>} \cup {<<i>> : i \in one} \cup {<<i, j>> : i, j \in one}
In(ms, n) == {<<m, n>> : m \in ms}
Calls(qs, mss) ==
  {Program(i, [d \in In(ms, "x") \cup {<<"a", "_P">>, <<"main", "main">>} |->
                Fn(<< >>, IF d[2] = "main" THEN <<CallIn(q, n, << >>)>> ELSE << >>)], {}) :
     i \in Imports, ms \in mss, q \in qs, n \in {"x", "y", "_P"}}
Types(uses) ==
  {Program(i, [d \in {<<"main", "main">>} |-> Fn(<< >>, <<TypeIn(u[1], u[2])>>)],
           In(ms, "x") \cup {<<"a", "_P">>}) :
     i \in Imports, ms \in SUBSET Range(Files), u \in uses}

Shared == {ms \in SUBSET Range(Files) : Cardinality(ms) > 1}   \* one name, several modules
NameCalls == Calls({""}, SUBSET Range(Files))
NameTypes == Types(({"", "q", "a"} \X {"x", "y"}) \cup {<<"", "_P">>})
QualifiedCalls == Calls({"q", "a"}, SUBSET Range(Files) \ Shared)
SharedCalls == <<Calls({"q", "a"}, Shared)>>
PrivateTypes == <<Types({"q", "a"} \X {"_P"})>>

(* Inference: g calls h, of one or two parameters, with a T of its own.       *)
Params == {T, I64, Wedge(T), IVec(T), Box(T)}
Args == {T, I64, IntOf(8, TRUE), Wedge(T), Wedge(I64), IVec(T), Box(Wedge(T)), Lost}
Signatures == {<< <<p>>, <<a>> >> : p \in Params, a \in Args}
  \cup {<< <<p, q>>, <<a, b>> >> : p, q \in Params, a, b \in Args}
\* The first parameter to mention T has it under ivec.
ThroughIVec(params) ==
  \E i \in DOMAIN params :
    /\ params[i] = IVec(T)
    /\ \A j \in 1..(i - 1) : ~Occurs("T", params[j])
Infers(signatures) ==
  {Program(<< >>, (<<"main", "main">> :> Fn(<< >>, <<CallOf("g", I64)>>))
              @@ (<<"main", "g">> :> Fn(<<T>>, <<CallIn("", "h", c[2])>>))
              @@ (<<"main", "h">> :> Fn(c[1], << >>)), {}) : c \in signatures}
IVecs == {c \in Signatures : ThroughIVec(c[1])}
IVecCalls == <<Infers(IVecs)>>

(* Nesting: main, g and h call one another around roots and blocks.           *)
R == <<Do("root")>>
C(n, t) == <<CallOf(n, t)>>
Block(s) == <<Do("open")>> \o s \o <<Do("close")>>
Two(parts) == parts \cup {a \o b : a, b \in parts}
MainBodies == Two({R, Block(R \o C("g", Wedge(U64))), Block(C("h", U64) \o R)})
GBodies == Two({R, C("h", T), C("g", T), C("h", Wedge(T)), Block(R \o C("h", IVec(T)))})
HBodies == {<< >>, R, C("g", T) \o R, R \o C("g", I64), Block(R) \o C("h", T), C("g", Wedge(T)), C("h", IVec(T))}
Nests ==
  {Program(<< >>, (<<"main", "main">> :> Fn(<< >>, b)) @@ (<<"main", "k">> :> Fn(<< >>, C("h", I64)))
              @@ (<<"main", "g">> :> Fn(<<T>>, g)) @@ (<<"main", "h">> :> Fn(<<T>>, h)), {}) :
     b \in MainBodies, g \in GBodies, h \in HBodies}

(* Types named in the body of a generic function of module a, and generic     *)
(* functions that share a name, with the files in either order.               *)
Orders == {Files, <<"a", "main", "lib">>}
SharedImports ==
  {<<All("main", "a")>>, <<Alias("main", "a", "q")>>, <<Alias("main", "a", "q"), All("a", "lib")>>,
   <<All("main", "a"), Name("a", "lib", "x", "x")>>,
   <<Alias("main", "a", "q"), Name("lib", "a", "g", "g")>>}
Shares(families, sss, ws) ==
  UNION {
  {[Program(i,
      [d \in In(gs, "g") \cup In(ks, "k") \cup In(cs, "g") \cup {<<"a", "g">>, <<"main", "main">>} |->
         CASE d = <<"main", "main">> -> Fn(<< >>, <<CallIn(q, "g", <<I64>>)>>)
           [] d[2] = "k" -> Fn(<< >>, C("g", I64))
           [] d[2] = "g" /\ d[1] \in cs -> Fn(<<I64>>, << >>)
           [] OTHER -> Fn(<<T>>, IF d[1] = "a" THEN <<w>> ELSE << >>)],
      In(ss, "x") \cup In(ss, "_P")) EXCEPT !.order = o] :
     ss \in sss, gs, cs \in families, ks \in SUBSET {"lib", "a"},
     o \in Orders, q \in {"", "q"}, w \in ws} : i \in SharedImports}
TypeUses == {TypeIn("", "x"), TypeIn("lib", "x"), TypeIn("", "_P")}
GenericTypes == Shares({{}}, SUBSET Range(Files) \ Shared, TypeUses)
SharedTypes == <<Shares({{}}, Shared, TypeUses)>>
SharedGenerics ==
  <<Shares(SUBSET {"main", "lib"}, SUBSET Range(Files) \ Shared, TypeUses)>>

MCPrograms ==
  <<NameCalls, NameTypes, QualifiedCalls, Infers(Signatures \ IVecs), Nests, GenericTypes>>
=============================================================================
