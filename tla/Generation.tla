----------------------------- MODULE Generation -----------------------------
(* From a program of several modules to one body of code per function and    *)
(* per specialisation of a generic function.  The checker decides which      *)
(* declaration each name means and which type each generic call is made at;  *)
(* the code generator then emits the bodies of the functions that are not    *)
(* generic, and stops in the middle of one to emit a specialisation the      *)
(* first time a call needs it, with one set of registers (builder, scopes,   *)
(* cleanup frames, GC-root bookkeeping) for every function under way.        *)
EXTENDS Naturals, FiniteSets, SequencesExt, Relation

CONSTANTS
  Programs,   \* the programs compiled, in families
  Root,       \* the module of files outside src/ and stdlib/
  Stdlib,     \* the module of the standard library
  Private,    \* the names that begin with _
  MaxNest     \* bound on the specialisations under way at once

VARIABLES
  prog,       \* the program
  result,     \* "checking", "emitting", "done", or how the compiler gave up
  calls,      \* the checker's record of each call: callee and type argument
  todo,       \* the functions whose bodies phase 3 has still to emit
  reg,        \* the registers of the code generator
  stack,      \* the bodies under way, the innermost last
  code        \* the functions declared, with what has been emitted of them

vars == <<prog, result, calls, todo, reg, stack, code>>

IntOf(w, signed) == [k |-> "int", w |-> w, signed |-> signed]
Var(v) == [k |-> "var", v |-> v]
Lost == [k |-> "lost"]
NoType == [k |-> "none"]
None == <<>>

(***************************************************************************)
(* Modules and names.  A declaration is <<module, name>>; its flat name is *)
(* a sequence too: the name alone or, when another module declares the     *)
(* same name, the module and the name.                                     *)
(***************************************************************************)
Decls(p) == DOMAIN p.fns \cup p.structs
Public(p, m) == {d \in Decls(p) : d[1] = m /\ d[2] \notin Private}

FlatShort(p, d) == <<d[2]>>
Flat(p, d) ==
  IF d[1] = Root \/ \A x \in Decls(p) : x[2] = d[2] => x = d THEN <<d[2]>> ELSE d

Under(p, ds) ==   \* the names of ds, each bound to its flat name
  [n \in {<<d[2]>> : d \in ds} |-> Flat(p, CHOOSE d \in ds : <<d[2]>> = n)]

FirstScope(p, m) ==
  Under(p, {d \in Decls(p) : d[1] = m})
    @@ IF m = Root THEN Under(p, Public(p, Stdlib)) ELSE << >>

Bound(p, i) ==
  CASE i.form = "all" -> Under(p, Public(p, i.from))
    [] i.form = "name" -> (<<i.as>> :> Flat(p, <<i.from, i.name>>))
    [] OTHER -> << >>

AddImport(p, s, i) ==
  LET bound == Bound(p, i)
      scope == s.sees[i.by]
      clash == \/ \E n \in DOMAIN bound \cap DOMAIN scope : scope[n] # bound[n]
               \/ i.form = "alias" /\ i.as \in DOMAIN s.alias[i.by]
               \/ i.form = "name" /\ <<i.from, i.name>> \notin Public(p, i.from)
  IN [ok |-> s.ok /\ ~clash,
      sees |-> [s.sees EXCEPT ![i.by] = bound @@ @],
      alias |-> [s.alias EXCEPT ![i.by] =
                   CASE i.form = "all" -> (i.from :> i.from) @@ @
                     [] i.form = "alias" -> (i.as :> i.from) @@ @
                     [] OTHER -> @]]

Scopes(p) ==
  LET Modules == Range(p.order)
      first == [ok |-> TRUE,
                sees |-> [m \in Modules |-> FirstScope(p, m)],
                alias |-> [m \in Modules |->
                            IF m = Root THEN (Stdlib :> Stdlib) ELSE << >>]]
  IN FoldLeft(LAMBDA s, i : AddImport(p, s, i), first, p.imports)

Acyclic(p) ==
  \E rank \in [Range(p.order) -> 1..Len(p.order)] :
    \A i \in Range(p.imports) : rank[i.from] < rank[i.by]

\* The name a use is looked up by: what follows the qualifier, if that is an alias.
Qualifies(sc, m, u) == u.q \in DOMAIN sc.alias[m]
Qualified(sc, m, u) == <<sc.alias[m][u.q], u.name>>
Visible(sc, m, n) == IF n \in DOMAIN sc.sees[m] THEN sc.sees[m][n] ELSE n

\* A call: the qualifier is dropped once its module is seen to export the name.
Callee(p, sc, m, u) ==
  LET flat == Visible(sc, m, <<u.name>>)
  IN IF /\ IF u.q = "" THEN <<u.name>> \in DOMAIN sc.sees[m]
           ELSE Qualifies(sc, m, u) /\ Qualified(sc, m, u) \in Public(p, sc.alias[m][u.q])
        /\ \E f \in DOMAIN p.fns : Flat(p, f) = flat
     THEN flat ELSE None

\* A type: the declaration the qualifier leads to, or the one the name is bound to.
QualifiedType(p, sc, m, u) ==
  IF Qualifies(sc, m, u) /\ Qualified(sc, m, u) \in p.structs
  THEN Flat(p, Qualified(sc, m, u)) ELSE None
BareType(p, sc, m, u) ==
  LET flat == Visible(sc, m, <<u.name>>)
  IN IF <<u.name>> \in DOMAIN sc.sees[m] /\ \E d \in p.structs : Flat(p, d) = flat
     THEN flat ELSE None
Type(p, sc, m, u) == IF u.q # "" THEN QualifiedType(p, sc, m, u) ELSE BareType(p, sc, m, u)

(***************************************************************************)
(* Inferring the type argument of a generic call.                          *)
(***************************************************************************)
RECURSIVE Substitute(_, _), Occurs(_, _), Unify(_, _, _)
Substitute(t, s) ==
  CASE t.k = "var" /\ t.v \in DOMAIN s -> Substitute(s[t.v], s)
    [] "of" \in DOMAIN t -> [t EXCEPT !.of = Substitute(t.of, s)]
    [] OTHER -> t
Occurs(v, t) == t = Var(v) \/ ("of" \in DOMAIN t /\ Occurs(v, t.of))

Coerces(from, to) ==
  from = to \/ (from.k = "int" /\ to.k = "int") \/ (from = Lost /\ to.k = "wedge")

Unify(pattern, concrete, s) ==
  LET p == Substitute(pattern, s)
      c == Substitute(concrete, s)
      Answer(ok) == [ok |-> ok, s |-> s]
      Bind(v, t) == IF Occurs(v, t) THEN Answer(FALSE)
                    ELSE [ok |-> TRUE, s |-> (v :> t) @@ s]
  IN CASE p = c -> Answer(TRUE)
       [] p.k = "var" -> IF c = Lost THEN Answer(TRUE) ELSE Bind(p.v, c)
       [] p.k # "var" /\ c.k = "var" -> Bind(c.v, p)
       [] p # c /\ p.k = c.k /\ p.k \in {"wedge", "struct"} -> Unify(p.of, c.of, s)
       [] OTHER -> Answer(Coerces(c, p))

\* The callee's parameter is renamed: the caller may have a T of its own.
Fresh == [v \in {"T"} |-> Var("T#")]
Infer(params, args) ==
  LET pats == [i \in DOMAIN params |-> Substitute(params[i], Fresh)]
      u == FoldLeft(LAMBDA a, i : IF a.ok THEN Unify(pats[i], args[i], a.s) ELSE a,
                    [ok |-> TRUE, s |-> << >>], [i \in DOMAIN params |-> i])
      generic == \E t \in Range(params) : Occurs("T", t)
  IN IF /\ u.ok
        /\ \A i \in DOMAIN args : Coerces(args[i], Substitute(pats[i], u.s))
        /\ generic => "T#" \in DOMAIN u.s
     THEN [ok |-> TRUE,
           arg |-> IF generic THEN Substitute(Var("T#"), u.s) ELSE NoType]
     ELSE [ok |-> FALSE, arg |-> NoType]

Generic(p, f) == \E t \in Range(p.fns[f].params) : Occurs("T", t)
FnOf(p, flat) == CHOOSE f \in DOMAIN p.fns : Flat(p, f) = flat

\* What the checker leaves for the code generator at each step of a body.
Note(p, sc, f, u) ==
  CASE u.op = "call" ->
         LET to == Callee(p, sc, f[1], u)
             t == IF to = None THEN [ok |-> FALSE, arg |-> NoType]
                  ELSE Infer(p.fns[FnOf(p, to)].params, u.args)
         IN [ok |-> t.ok, to |-> to, arg |-> t.arg]
    [] u.op = "type" ->
         LET is == Type(p, sc, f[1], u)
         IN [ok |-> is # None, to |-> IF u.q = "" THEN <<u.name>> ELSE is, arg |-> NoType]
    [] OTHER -> [ok |-> TRUE, to |-> None, arg |-> NoType]
Notes(p) ==
  LET sc == Scopes(p)
  IN [f \in DOMAIN p.fns |->
       [i \in DOMAIN p.fns[f].body |-> Note(p, sc, f, p.fns[f].body[i])]]
Accepts(p) ==
  /\ Scopes(p).ok
  /\ Acyclic(p)
  /\ \A f \in DOMAIN p.fns : \A n \in Range(Notes(p)[f]) : n.ok

(***************************************************************************)
(* The code generator.                                                     *)
(***************************************************************************)
\* A type of the checker as an LLVM type: one struct for every ivec and one for
\* every dvec, no signs, and the type parameters of the specialisation replaced.
RECURSIVE Lower(_, _)
Lower(t, subst) ==
  CASE t.k = "int" -> [k |-> "int", w |-> t.w]
    [] t.k \in {"ivec", "dvec"} -> [k |-> t.k]
    [] t.k = "var" /\ t.v \in DOMAIN subst -> subst[t.v]
    [] t.k \notin {"ivec", "dvec"} /\ "of" \in DOMAIN t -> [t EXCEPT !.of = Lower(t.of, subst)]
    [] OTHER -> t

InstanceByName(to, arg, subst) ==
  <<to, IF arg = NoType THEN NoType ELSE LET done == {i \in DOMAIN code : i[1] = to}
        IN IF done = {} THEN Lower(arg, subst) ELSE (CHOOSE i \in done : TRUE)[2]>>

InstanceOf(to, arg, subst) == <<to, Lower(arg, subst)>>

\* _generic_fn_decls is keyed by the name in the source; the last file wins.
GenericDecl(p, flat) ==
  LET named == {i \in DOMAIN p.order :
                  LET f == <<p.order[i], flat[Len(flat)]>>
                  IN Len(flat) = 1 /\ f \in DOMAIN p.fns /\ Generic(p, f)}
  IN IF named = {} THEN None
     ELSE <<p.order[CHOOSE i \in named : \A j \in named : j <= i], flat[1]>>

\* The registers as _gen_fn_body leaves them before the first step of a body.
Begin(r, inst) ==
  [r EXCEPT !.fn = inst, !.scopes = << << >> >>,
            !.frames = Append(@, << >>), !.counts = Append(@, 0),
            !.pending = << >>, !.slots = << << >> >>]

\* The registers as _get_monomorph_fn clears them before it emits a body.
Blank(r, flat, subst, inst) ==
  [r EXCEPT !.frames = << >>, !.counts = << >>, !.subst = subst,
            !.functions = (flat :> inst) @@ @]

Plus(seqs, x) == [seqs EXCEPT ![Len(seqs)] = Append(@, x)]

\* One step of a body that needs no other: the registers after it and the lines it emits.
Step(r, u, lines) ==
  LET slot == <<r.fn, Len(lines)>> IN
  CASE u.op = "root" ->
         [r |-> [r EXCEPT !.scopes = Plus(@, slot), !.frames = Plus(@, slot),
                          !.counts[Len(r.counts)] = @ + 1,
                          !.slots = Plus(@, slot), !.pending = Append(@, slot)],
          lines |-> Append(lines, [op |-> "root", slot |-> slot])]
    [] u.op = "open" ->
         [r |-> [r EXCEPT !.scopes = Append(@, << >>), !.frames = Append(@, << >>),
                          !.counts = Append(@, 0), !.slots = Append(@, << >>)],
          lines |-> lines]
    [] u.op = "close" ->
         [r |-> [r EXCEPT !.scopes = Front(@), !.frames = Front(@),
                          !.counts = Front(@), !.slots = Front(@)],
          lines |-> Append(lines, [op |-> "close", free |-> Last(r.frames),
                                   pop |-> Last(r.counts), clear |-> Last(r.slots)])]

Local(r) == LET bound == FlattenSeq(r.scopes) IN IF bound = << >> THEN None ELSE Last(bound)
CallLine(r, inst) == [op |-> "call", to |-> inst, arg |-> Local(r)]
TypeLine(sc, m, to) == [op |-> "type", is |-> Visible(sc, m, to)]
ReturnLine(r) ==
  [op |-> "return", free |-> Last(r.frames), pop |-> FoldLeft(+, 0, r.counts),
   clear |-> FlattenSeq(r.slots)]

RestoreKeepsScopes(r, saved, generic) ==
  IF generic
  THEN [saved EXCEPT !.module = r.module, !.scopes = r.scopes]
  ELSE [r EXCEPT !.frames = Front(@), !.counts = Front(@),
                 !.pending = saved.pending, !.slots = saved.slots]

\* What _get_monomorph_fn and _gen_fn_body put back when the body has ended.
Restore(r, saved, generic) ==
  IF generic
  THEN [saved EXCEPT !.module = r.module]
  ELSE [r EXCEPT !.frames = Front(@), !.counts = Front(@),
                 !.pending = saved.pending, !.slots = saved.slots]

Empty == [lines |-> << >>, entry |-> << >>, done |-> FALSE]

Cached(inst) == inst \in DOMAIN code
Concrete(p) == {f \in DOMAIN p.fns : ~Generic(p, f)}
InOrder(p) == FlattenSeq([i \in DOMAIN p.order |->
                SetToSeq({f \in Concrete(p) : f[1] = p.order[i]})])

Init ==
  /\ \E i \in DOMAIN Programs : prog \in Programs[i]
  /\ result = "checking" /\ calls = << >> /\ todo = << >> /\ stack = << >> /\ code = << >>
  /\ reg = [fn |-> None, scopes |-> << >>, frames |-> << >>, counts |-> << >>,
            slots |-> << >>, pending |-> << >>, subst |-> << >>,
            functions |-> << >>, module |-> Root]

\* The checker, then phase 1: every function that is not generic is declared.
Refuse ==
  /\ result = "checking" /\ ~Accepts(prog)
  /\ result' = "refused"
  /\ UNCHANGED <<prog, calls, todo, reg, stack, code>>
Declare ==
  /\ result = "checking" /\ Accepts(prog)
  /\ result' = "emitting"
  /\ calls' = Notes(prog)
  /\ todo' = InOrder(prog)
  /\ LET inst(f) == <<Flat(prog, f), NoType>>
     IN /\ code' = [i \in {inst(f) : f \in Concrete(prog)} |-> Empty]
        /\ reg' = [reg EXCEPT !.functions =
                     [n \in {Flat(prog, f) : f \in Concrete(prog)} |-> <<n, NoType>>]]
  /\ UNCHANGED <<prog, stack>>

Emitting == result = "emitting"
Body(f) == prog.fns[f].body
Top == Last(stack)
Next1 == Body(Top.f)[Top.pc]
Noted == calls[Top.f][Top.pc]
AtStep(op) == Emitting /\ stack # << >> /\ Top.pc <= Len(Body(Top.f)) /\ Next1.op = op
Advanced == [stack EXCEPT ![Len(stack)].pc = @ + 1]
Lines == code[reg.fn].lines
Emits(line) == code' = [code EXCEPT ![reg.fn].lines = Append(@, line)]
GiveUp(how) == result' = how /\ UNCHANGED <<prog, calls, todo, reg, stack, code>>

\* Phase 3: the next function that is not generic.
NextBody ==
  /\ Emitting /\ stack = << >> /\ todo # << >>
  /\ LET f == Head(todo)
         r == [reg EXCEPT !.module = f[1]]
     IN /\ stack' = << [f |-> f, inst |-> reg.functions[Flat(prog, f)], pc |-> 1,
                      saved |-> r, generic |-> FALSE] >>
        /\ reg' = Begin(r, reg.functions[Flat(prog, f)])
  /\ todo' = Tail(todo)
  /\ UNCHANGED <<prog, result, calls, code>>
AllEmitted ==
  /\ Emitting /\ stack = << >> /\ todo = << >>
  /\ result' = "done"
  /\ UNCHANGED <<prog, calls, todo, reg, stack, code>>

Straight ==
  /\ \E op \in {"root", "open", "close"} : AtStep(op)
  /\ LET s == Step(reg, Next1, Lines)
     IN reg' = s.r /\ code' = [code EXCEPT ![reg.fn].lines = s.lines]
  /\ stack' = Advanced
  /\ UNCHANGED <<prog, result, calls, todo>>

NameType ==
  /\ AtStep("type")
  /\ LET line == TypeLine(Scopes(prog), reg.module, Noted.to)
     IN IF \E d \in prog.structs : Flat(prog, d) = line.is
        THEN /\ Emits(line) /\ stack' = Advanced
             /\ UNCHANGED <<prog, result, calls, todo, reg>>
        ELSE GiveUp("no type")

Wanted == InstanceOf(Noted.to, Noted.arg, reg.subst)

\* A call of a function already declared, a specialisation under way included.
Call ==
  /\ AtStep("call")
  /\ Cached(Wanted)
  /\ Emits(CallLine(reg, Wanted))
  /\ stack' = Advanced
  /\ UNCHANGED <<prog, result, calls, todo, reg>>

\* The first call of a specialisation: its body is emitted before the call is.
Specialise ==
  /\ AtStep("call")
  /\ ~Cached(Wanted)
  /\ LET f == GenericDecl(prog, Noted.to)
         subst == [v \in {"T"} |-> Wanted[2]]
         r == Blank(reg, Noted.to, subst, Wanted)
     IN CASE f = None -> GiveUp("no generic")
          [] f # None /\ Flat(prog, f) \notin DOMAIN r.functions -> GiveUp("no function")
          [] f # None /\ Flat(prog, f) \in DOMAIN r.functions /\ Len(stack) > MaxNest ->
               GiveUp("too deep")
          [] OTHER ->
               /\ reg' = Begin(r, r.functions[Flat(prog, f)])
               /\ stack' = Append(stack, [f |-> f, inst |-> r.functions[Flat(prog, f)], pc |-> 1,
                                          saved |-> reg, generic |-> TRUE])
               /\ code' = (Wanted :> Empty) @@ code
               /\ UNCHANGED <<prog, result, calls, todo>>

\* The end of a body: its queued roots go to its entry block.
Return ==
  /\ Emitting /\ stack # << >> /\ Top.pc > Len(Body(Top.f))
  /\ code' = [code EXCEPT ![reg.fn].lines = Append(@, ReturnLine(reg)),
                          ![Top.inst].entry = reg.pending, ![Top.inst].done = TRUE]
  /\ reg' = Restore(reg, Top.saved, Top.generic)
  /\ stack' = Front(stack)
  /\ UNCHANGED <<prog, result, calls, todo>>

Next ==
  \/ Refuse \/ Declare \/ NextBody \/ AllEmitted
  \/ Straight \/ NameType \/ Call \/ Specialise \/ Return

Spec == Init /\ [][Next]_vars

(***************************************************************************)
(* What a name means: the declaration of the module itself, or the one an  *)
(* import brings in; in the root module also a public one of the library.  *)
(***************************************************************************)
Imported(p, m, n) ==
  UNION {IF i.form = "all" THEN {d \in Public(p, i.from) : d[2] = n}
         ELSE IF i.form = "name" /\ i.as = n THEN {<<i.from, i.name>>} ELSE {} :
         i \in {j \in Range(p.imports) : j.by = m}}
Means(p, m, n) ==
  Imported(p, m, n) \cup
    (IF <<m, n>> \in Decls(p) THEN {<<m, n>>}
     ELSE IF m = Root THEN {d \in Public(p, Stdlib) : d[2] = n} ELSE {})
ModuleOf(p, m, q) ==
  {i.from : i \in {j \in Range(p.imports) :
                    j.by = m /\ j.form # "name" /\ j.as = q}}
    \cup IF m = Root /\ q = Stdlib THEN {Stdlib} ELSE {}

ImportsAgree(p) ==
  /\ \A i \in Range(p.imports) :
       i.form = "name" => <<i.from, i.name>> \in Public(p, i.from)
  /\ \A m \in Range(p.order) : \A n \in {d[2] : d \in Decls(p)} \cup {i.as : i \in Range(p.imports)} :
       Cardinality(Means(p, m, n)) <= 1
  /\ \A i, j \in DOMAIN p.imports :
       i # j /\ p.imports[i].form = "alias" /\ p.imports[j].form = "alias"
         /\ p.imports[i].by = p.imports[j].by => p.imports[i].as # p.imports[j].as

Only(p, ds) == IF ds = {} THEN None ELSE Flat(p, CHOOSE d \in ds : TRUE)

\* The declarations a use names: those its module means by the name or, with a
\* qualifier, the public one of the module that the qualifier stands for.
Named(p, m, u) ==
  IF u.q = "" THEN Means(p, m, u.name)
  ELSE {<<x, u.name>> : x \in ModuleOf(p, m, u.q)} \ {<<x, n>> : x \in Range(p.order), n \in Private}
CalleeMeant(p, m, u) == Only(p, DOMAIN p.fns \cap Named(p, m, u))
TypeMeant(p, m, u) == Only(p, p.structs \cap Named(p, m, u))

RECURSIVE Parts(_)
Parts(t) == {t} \cup IF "of" \in DOMAIN t THEN Parts(t.of) ELSE {}

At(t, arg) == Substitute(Substitute(t, [v \in {"T"} |-> Var("T#")]), [v \in {"T#"} |-> arg])
Fits(params, args, t) == t # Lost /\ args = [i \in DOMAIN params |-> At(params[i], t)]

\* The checker takes every use for the declaration its module means by it, that
\* of the module the qualifier stands for if it has one, and refuses what names
\* none; two declarations of one name never share a flat name.  A generic call
\* is made at the type that makes the arguments those of the parameters, if
\* there is one, and every argument accepted coerces to its parameter at the
\* type chosen (_build_module_scopes, _tc_call, _resolve_qualified_type, _unify).
CheckedAsMeant ==
  LET sc == Scopes(prog)
      Judged(f, u) ==
        CASE u.op = "call" ->
               LET to == Callee(prog, sc, f[1], u)
                   params == prog.fns[FnOf(prog, to)].params
                   got == Infer(params, u.args)
               IN /\ to = CalleeMeant(prog, f[1], u)
                  /\ to # None =>
                       /\ got.ok => \A i \in DOMAIN params :
                            Coerces(u.args[i], At(params[i], got.arg))
                       /\ \A t \in UNION {Parts(a) : a \in Range(u.args)} :
                            Fits(params, u.args, t) /\ Generic(prog, FnOf(prog, to)) =>
                              got = [ok |-> TRUE, arg |-> t]
          [] u.op = "type" -> Type(prog, sc, f[1], u) = TypeMeant(prog, f[1], u)
          [] OTHER -> TRUE
  IN result # "checking" =>
     /\ sc.ok <=> ImportsAgree(prog)
     /\ \A c, d \in Decls(prog) : Flat(prog, c) = Flat(prog, d) => c = d
     /\ sc.ok => \A f \in DOMAIN prog.fns : \A u \in Range(Body(f)) : Judged(f, u)

(***************************************************************************)
(* What a body is when nothing interrupts it.                              *)
(***************************************************************************)
Written(inst, f) ==
  LET subst == [v \in {"T"} |-> inst[2]]
      fresh == [fn |-> inst, scopes |-> << << >> >>, frames |-> << << >> >>,
                counts |-> <<0>>, slots |-> << << >> >>, pending |-> << >>]
      Line(s, i) ==
        LET u == Body(f)[i]
            n == calls[f][i]
        IN CASE u.op = "call" ->
                  [s EXCEPT !.lines = Append(@, CallLine(s.r, <<n.to, Lower(n.arg, subst)>>))]
             [] u.op = "type" ->
                  [s EXCEPT !.lines = Append(@, TypeLine(Scopes(prog), f[1], n.to))]
             [] OTHER -> Step(s.r, u, s.lines)
      end == FoldLeft(Line, [r |-> fresh, lines |-> << >>], [i \in DOMAIN Body(f) |-> i])
  IN [lines |-> Append(end.lines, ReturnLine(end.r)), entry |-> end.r.pending, done |-> TRUE]

\* However the generation of specialisations is nested, a body that has ended is
\* what it would be had nothing interrupted it: its own locals, cleanups, root
\* counts and slots, the roots it queued in its own entry block, and the types
\* its own module means (_get_monomorph_fn, _gen_fn_body, _lower_type).
WrittenAlone ==
  \A i \in DOMAIN code :
    LET f == FnOf(prog, i[1]) IN code[i].done => code[i] = Written(i, f)

\* The calls of g in the body of f, as the checker left them.
CallsOf(f, g) == {n \in Range(calls[f]) : n.arg # NoType /\ FnOf(prog, n.to) = g}
Grows ==   \* a generic function that reaches itself at a type built around its own
  LET Reaches == TransitiveClosure([e \in (DOMAIN prog.fns) \X (DOMAIN prog.fns) |->
                                     CallsOf(e[1], e[2]) # {}], DOMAIN prog.fns)
  IN \E f, g \in DOMAIN prog.fns : \E n \in CallsOf(f, g) :
       n.arg # Var("T") /\ Occurs("T", n.arg) /\ (f = g \/ Reaches[g, f])

\* A program the checker accepts is emitted to the end, each specialisation once
\* and whole, with no type parameter left in it, every call in it finding code
\* whose parameters its arguments coerce to; generation gives up on such a
\* program only where a generic function reaches itself at larger and larger
\* types (_get_monomorph_fn, _lower_type).
AcceptedCompiles ==
  /\ result \notin {"no generic", "no function", "no type"}
  /\ result = "too deep" => Grows
  /\ result = "done" => \A i \in DOMAIN code :
       LET f == FnOf(prog, i[1]) IN
       /\ code[i].done
       /\ ~Occurs("T", i[2]) /\ ~Occurs("T#", i[2])
       /\ \A k \in DOMAIN Body(f) : Body(f)[k].op = "call" =>
            LET to == code[i].lines[Len(SelectSeq(SubSeq(Body(f), 1, k), LAMBDA u : u.op # "open"))].to
                subst(x) == [v \in {"T"} |-> x[2]]
            IN /\ to \in DOMAIN code
               /\ \A a \in DOMAIN Body(f)[k].args :
                    Coerces(Lower(Body(f)[k].args[a], subst(i)),
                            Lower(prog.fns[FnOf(prog, to[1])].params[a], subst(to)))
=============================================================================
