------------------------------ MODULE Numbers ------------------------------
(***************************************************************************)
(* What a program computes with its scalar values: the runtime helpers     *)
(* that src/src/tuppu/codegen/rat.py, sex.py, strs.py and intrinsics.py    *)
(* emit for rat, sex and str, the dispatch of _gen_binary, _gen_unary and  *)
(* _coerce between them, the types the checker promises for the same       *)
(* expression, and the value comptime.py gives it when a table is built.   *)
(*                                                                         *)
(* One expression is evaluated, an operation at a time.  Beside the word-  *)
(* sized value the program has, "exact" is the number meant and "built"    *)
(* what the compile-time evaluator has for it.  A sex keeps at most D      *)
(* digits in base BASE; a rat and an int are W-bit words.  Forms are the   *)
(* programs a run includes besides those for which all the properties hold:*)
(*   "wrapped"    a word overflows: the expression ends with what it has;  *)
(*   "least"      the least word is to be made positive: likewise;         *)
(*   "mixed"      an operator on a pair and an integer at build time;      *)
(*   "uncoerced"  a value that is bound, passed or returned as another     *)
(*                type, at build time.                                     *)
(* A definition marked "faulty" is the next one with a bug.                *)
(***************************************************************************)
EXTENDS Integers, Sequences, SequencesExt, FiniteSets

CONSTANTS
  None,      \* no value
  BASE,      \* 60 in the code
  Primes,    \* the primes that divide it
  D,         \* SEX_MAX_DIGITS
  W,         \* bits of a word
  N,         \* bytes in a chunk of tablets, and in a buffer
  Literals,  \* the literals of the source: [ints, fracs], groups of digits
  Rats,      \* reduced fractions <<num, den>> that a rat operand may have
  Words,     \* string literals
  Forms,     \* see above
  MaxOps     \* operations in the expression

ASSUME BaseAssumption == BASE \in Nat \ {0, 1} /\ Primes = {p \in 2..BASE : BASE % p = 0 /\ \A q \in 2..p-1 : p % q # 0}
ASSUME SizeAssumption == D \in Nat \ {0, 1} /\ W \in Nat \ {0, 1} /\ N \in Nat \ {0}
ASSUME FormsAssumption == Forms \subseteq {"wrapped", "least", "mixed", "uncoerced"}
ASSUME LiteralAssumption == \A l \in Literals : Len(l.ints) > 0 /\ Len(l.ints) + Len(l.fracs) <= D

VARIABLES
  val,     \* the value of the expression so far
  type,    \* its type, according to the checker
  exact,   \* the number, truth value or text meant; None if there is none
  built,   \* its value at compile time; None if comptime.py has none, or it
           \* came by a form the run leaves out
  status,  \* "ok", or why evaluation ended: "trap", "wrapped", "least",
           \* "undefined", "refused"
  ops      \* operations done

vars == <<val, type, exact, built, status, ops>>

Fits(n) == -(2 ^ (W-1)) <= n /\ n < 2 ^ (W-1)
Low(n) == ((n + 2 ^ (W-1)) % (2 ^ W)) - 2 ^ (W-1)   \* the word an operation leaves
Abs(n) == IF n < 0 THEN -n ELSE n
Sdiv(a, b) == LET q == Abs(a) \div Abs(b) IN IF (a < 0) # (b < 0) THEN -q ELSE q
Srem(a, b) == a - b * Sdiv(a, b)

Whole(n) == [k |-> "int", n |-> n]
Rat(n, d) == [k |-> "rat", num |-> n, den |-> d]
Bool(b) == [k |-> "bool", b |-> b]

\* What a helper comes to.
Ok(v) == [st |-> "ok", v |-> v]
Stop(why) == [st |-> why, v |-> None]
Least(v) == [st |-> "least", v |-> v]
Wrapped(o) == [st |-> "wrapped", v |-> o.v]
Then(o, F(_)) ==
  CASE o.st = "ok" -> F(o.v)
    [] o.st = "wrapped" /\ o.v # None -> Wrapped(F(o.v))
    [] OTHER -> Stop(o.st)
InWord(ns, o) == IF \A n \in ns : Fits(n) THEN o ELSE Wrapped(o)

-----------------------------------------------------------------------------
(* rat: __tuppu_rat_reduce and _gen_rat_binary. *)

RECURSIVE Gcd(_, _)
Gcd(a, b) == IF b = 0 THEN a ELSE Gcd(b, Srem(a, b))

ReducedUndivided(num, den) ==   \* faulty
  IF den = 0 THEN Stop("trap") ELSE IF den < 0 THEN Ok(Rat(-num, -den)) ELSE Ok(Rat(num, den))
\* A negated least word is itself, and the gcd may then be negative.
Reduced(num, den) ==
  LET n == Low(IF den < 0 THEN -num ELSE num)
      d == Low(Abs(den))
      g == Gcd(Low(Abs(n)), d)
      v == Rat(Sdiv(n, g), Sdiv(d, g))
  IN  IF den = 0 THEN Stop("trap")
      ELSE IF ~Fits(v.num) \/ ~Fits(v.den) THEN Stop("undefined")
      ELSE IF d < 0 \/ ~Fits(Abs(n)) \/ ~Fits(Abs(num)) THEN Least(v) ELSE Ok(v)

Compare(op, l, r) ==
  CASE op = "==" -> l = r [] op = "!=" -> l # r [] op = "<" -> l < r
    [] op = "<=" -> l <= r [] op = ">" -> l > r [] op = ">=" -> l >= r

Arith == {"+", "-", "*", "/", "%"}
Equal == {"==", "!="}
Order == {"<", "<=", ">", ">="}

\* Fields before reduction: the cross products and what is made of them.
Crossed(op, a, b) ==
  LET left == a.num * b.den
      right == b.num * a.den
  IN  CASE op = "+" -> [num |-> left + right, den |-> a.den * b.den, uses |-> {left, right}]
        [] op = "-" -> [num |-> left - right, den |-> a.den * b.den, uses |-> {left, right}]
        [] op = "*" -> [num |-> a.num * b.num, den |-> a.den * b.den, uses |-> {}]
        [] op = "/" -> [num |-> left, den |-> a.den * b.num, uses |-> {}]
        [] op \in Order -> [num |-> left, den |-> right, uses |-> {}]

RatBinary(op, a, b) ==
  IF op \in Equal THEN Ok(Bool((a = b) <=> op = "=="))
  ELSE IF op = "%" THEN Stop("refused")
  ELSE LET c == Crossed(op, a, b)
       IN  InWord({c.num, c.den} \cup c.uses,
             IF op \in Order THEN Ok(Bool(Compare(op, Low(c.num), Low(c.den))))
             ELSE Reduced(Low(c.num), Low(c.den)))

-----------------------------------------------------------------------------
(* sex: a sign, and digits[1..count], of which the first "radix" stand       *)
(* before the semicolon.  The array is zero beyond them.                     *)

Sex(digits, radix, sign) ==
  [k |-> "sex", digits |-> [i \in 1..D |-> IF i <= Len(digits) THEN digits[i] ELSE 0],
   radix |-> radix, count |-> Len(digits), sign |-> sign]
SexLit(ints, fracs) == Sex(ints \o fracs, Len(ints), 0)
SexZero == Sex(<<0>>, 1, 0)
Fracs(s) == s.count - s.radix
Negated(s) == [s EXCEPT !.sign = 1 - @]

\* The value of a run of digits, each step in a word.
RECURSIVE Horner(_)
Horner(ds) == IF ds = << >> THEN 0 ELSE Horner(Front(ds)) * BASE + Last(ds)

SexToRat(s) ==
  LET num == Horner(SubSeq(s.digits, 1, s.count))
      den == BASE ^ Fracs(s)
  IN  InWord({num, den}, Reduced(Low(IF s.sign # 0 THEN -num ELSE num), Low(den)))

\* The digits of a word, none for zero, as srem and sdiv find them.
RECURSIVE DigitsOf(_)
DigitsOf(n) == IF n = 0 THEN << >> ELSE Append(DigitsOf(Sdiv(n, BASE)), Srem(n, BASE))

SignOf(n) == IF n < 0 THEN 1 ELSE 0
LeastIf(n, o) == IF o.st = "ok" /\ ~Fits(Abs(n)) THEN Least(o.v) ELSE o
IntToSex(n) ==
  LET ds == DigitsOf(Low(Abs(n)))
  IN  IF n = 0 THEN Ok(SexZero) ELSE LeastIf(n, Ok(Sex(ds, Len(ds), SignOf(n))))

\* The denominator has no prime but those of the base.
RECURSIVE RegularAll(_, _)
RegularAll(d, ps) ==
  \/ d = 1
  \/ \E p \in ps : d % p = 0 /\ RegularAll(d \div p, ps)
RegularOnlyTwo(d) == RegularAll(d, {2})   \* faulty
Regular(d) == RegularAll(d, Primes)

\* Digits of rem/den, at most "room" of them, each product in a word.
RECURSIVE FracDigits(_, _, _)
FracDigits(rem, den, room) ==
  LET scaled == Low(rem * BASE)
  IN  IF rem = 0 THEN Ok(<< >>)
      ELSE IF room = 0 THEN Stop("trap")
      ELSE InWord({rem * BASE},
             Then(FracDigits(Srem(scaled, den), den, room - 1), LAMBDA ds : Ok(<<Sdiv(scaled, den)>> \o ds)))

IntDigits(q) == IF q = 0 THEN <<0>> ELSE DigitsOf(q)

RatToSex(r) ==
  LET num == Low(Abs(r.num))
      ints == IntDigits(Sdiv(num, r.den))
  IN  IF r.num = 0 THEN Ok(SexZero)
      ELSE IF ~Regular(r.den) THEN Stop("trap")
      ELSE LeastIf(r.num,
             Then(FracDigits(Srem(num, r.den), r.den, D - Len(ints)),
                  LAMBDA ds : Ok(Sex(ints \o ds, Len(ints), SignOf(r.num)))))

\* __tuppu_sex_add: the operands are laid out on common places.
Lead(a, b) == IF a.radix > b.radix THEN a.radix ELSE b.radix
Trail(a, b) == IF Fracs(a) > Fracs(b) THEN Fracs(a) ELSE Fracs(b)
Places(a, b) == Lead(a, b) + Trail(a, b)
Aligned(s, lead, n) ==
  [i \in 1..n |-> LET j == i - (lead - s.radix) IN IF j \in 1..s.count THEN s.digits[j] ELSE 0]

\* Same signs: carry[i] leaves place i + 1 for place i; the last one adds a place.
AddShort(x, y, radix, sign) ==   \* faulty: a last carry does not move the semicolon
  LET carry[i \in 0..Len(x)] == IF i = Len(x) THEN 0
                                ELSE IF x[i+1] + y[i+1] + carry[i+1] >= BASE THEN 1 ELSE 0
      cells == [i \in DOMAIN x |-> x[i] + y[i] + carry[i] - BASE * carry[i-1]]
  IN  IF carry[0] = 0 THEN Sex(cells, radix, sign) ELSE Sex(<<1>> \o cells, radix, sign)
AddMagnitudes(x, y, radix, sign) ==
  LET carry[i \in 0..Len(x)] == IF i = Len(x) THEN 0
                                ELSE IF x[i+1] + y[i+1] + carry[i+1] >= BASE THEN 1 ELSE 0
      cells == [i \in DOMAIN x |-> x[i] + y[i] + carry[i] - BASE * carry[i-1]]
  IN  IF carry[0] = 0 THEN Sex(cells, radix, sign) ELSE Sex(<<1>> \o cells, radix + 1, sign)

\* Opposite signs: the smaller from the larger, borrowing from the left.
Larger(x, y) == \E i \in DOMAIN x : x[i] > y[i] /\ \A j \in 1..i-1 : x[j] = y[j]
SubMagnitudes(x, y, radix, sign) ==
  LET borrow[i \in 0..Len(x)] == IF i = Len(x) THEN 0
                                 ELSE IF x[i+1] - y[i+1] - borrow[i+1] < 0 THEN 1 ELSE 0
  IN  Sex([i \in DOMAIN x |-> x[i] - y[i] - borrow[i] + BASE * borrow[i-1]], radix, sign)

SexAdd(a, b) ==
  LET lead == Lead(a, b)
      x == Aligned(a, lead, Places(a, b))
      y == Aligned(b, lead, Places(a, b))
  IN  IF Places(a, b) > D - 1 THEN Stop("trap")
      ELSE Ok(CASE a.sign = b.sign -> AddMagnitudes(x, y, lead, a.sign)
                [] a.sign # b.sign /\ x = y -> Sex([i \in DOMAIN x |-> 0], lead, 0)
                [] a.sign # b.sign /\ Larger(x, y) -> SubMagnitudes(x, y, lead, a.sign)
                [] OTHER -> SubMagnitudes(y, x, lead, b.sign))

-----------------------------------------------------------------------------
(* Dispatch: _coerce, _gen_unary and _gen_binary. *)

IsInt(v) == v.k = "int"
IsSex(v) == v.k = "sex"

Coerce(v, kind) ==
  CASE v.k = kind -> Ok(v)
    [] v.k = "int" /\ kind = "rat" -> Ok(Rat(v.n, 1))
    [] v.k = "int" /\ kind = "sex" -> IntToSex(v.n)
    [] v.k = "rat" /\ kind = "int" -> Ok(Whole(Sdiv(v.num, v.den)))
    [] v.k = "rat" /\ kind = "sex" -> RatToSex(v)
    [] v.k = "sex" /\ kind = "rat" -> SexToRat(v)
    [] v.k = "sex" /\ kind = "int" -> Then(SexToRat(v), LAMBDA r : Ok(Whole(Sdiv(r.num, r.den))))

Negate(v) ==
  CASE IsSex(v) -> Ok(Negated(v))
    [] v.k = "rat" -> InWord({-v.num}, Ok([v EXCEPT !.num = Low(-@)]))
    [] IsInt(v) -> InWord({-v.n}, Ok(Whole(Low(-v.n))))

\* sdiv by zero, and of the least word by -1, is undefined: nothing follows.
IntBinary(op, a, b) ==
  CASE op \in Equal \cup Order -> Ok(Bool(Compare(op, a, b)))
    [] op = "+" -> InWord({a + b}, Ok(Whole(Low(a + b))))
    [] op = "-" -> InWord({a - b}, Ok(Whole(Low(a - b))))
    [] op = "*" -> InWord({a * b}, Ok(Whole(Low(a * b))))
    [] OTHER -> IF b = 0 \/ ~Fits(Sdiv(a, b)) THEN Stop("undefined")
                ELSE Ok(Whole(IF op = "/" THEN Sdiv(a, b) ELSE a - b * Sdiv(a, b)))

SexBinary(op, a, b) ==
  CASE op = "+" -> SexAdd(a, b)
    [] op = "-" -> SexAdd(a, Negated(b))
    [] OTHER -> Then(SexToRat(a), LAMBDA x : Then(SexToRat(b), LAMBDA y :
                  Then(RatBinary(op, x, y), RatToSex)))

\* A sex meets an int as a sex, in arithmetic only, and is a rat otherwise.
Binary(op, l, r) ==
  LET Up(v) == IF op \in Arith \ {"%"} THEN Coerce(v, "sex") ELSE Ok(v)
      Down(v) == IF IsSex(v) THEN Coerce(v, "rat") ELSE Ok(v)
  IN  CASE IsInt(l) /\ IsInt(r) -> IntBinary(op, l.n, r.n)
        [] IsSex(l) /\ IsSex(r) /\ op \in Arith \ {"%"} -> SexBinary(op, l, r)
        [] {l.k, r.k} = {"sex", "int"} /\ op \in Arith \ {"%"} ->
             Then(Up(l), LAMBDA a : Then(Up(r), LAMBDA b : SexBinary(op, a, b)))
        [] OTHER ->
             Then(Down(l), LAMBDA a : Then(Down(r), LAMBDA b :
               IF a.k # "rat" \/ b.k # "rat" THEN Stop("refused") ELSE RatBinary(op, a, b)))

\* _tc_binary: the type of the result, or None if the program is rejected.
ResultType(op, l, r) ==
  LET both == {l, r}
      cmp == op \in Equal \cup Order
  IN  CASE both = {"str"} -> IF op = "+" THEN "str" ELSE None
        [] Cardinality(both) = 1 /\ both # {"sex"} -> IF cmp THEN "bool" ELSE l
        [] both \subseteq {"sex", "int"} /\ op \in Arith \ {"%"} -> "sex"
        [] "sex" \in both /\ both \subseteq {"sex", "int", "rat"} -> IF cmp THEN "bool" ELSE "rat"
        [] OTHER -> None

-----------------------------------------------------------------------------
(* Text.  A character is a token, a group of digits is one.  A str is a      *)
(* block of "size" bytes, the bytes written to it, and a length.             *)

Nul == <<"nul">>
Space == <<" ">>
Semi == <<";">>
Dash == <<"-">>
Digits(n) == <<"digits", n>>
IsDigits(t) == Len(t) = 2

\* __tuppu_sex_print, and the same characters from __tuppu_sex_to_str.
Spaced(ds) == [i \in 1..2 * Len(ds) - 1 |-> IF i % 2 = 1 THEN Digits(ds[(i + 1) \div 2]) ELSE Space]
Printed(s) ==
  (IF s.sign # 0 THEN <<Dash>> ELSE << >>) \o Spaced(SubSeq(s.digits, 1, s.radix))
  \o (IF Fracs(s) > 0 THEN <<Semi>> \o Spaced(SubSeq(s.digits, s.radix + 1, s.count)) ELSE << >>)

\* _scan_number: the digit groups that follow i, each after a space.
RECURSIVE Groups(_, _)
Groups(ts, i) ==
  <<ts[i][2]>> \o (IF i + 2 <= Len(ts) /\ ts[i+1] = Space /\ IsDigits(ts[i+2]) THEN Groups(ts, i + 2) ELSE << >>)
ScanNumber(ts) ==
  LET ints == Groups(ts, 1)
      semi == 2 * Len(ints)
  IN  [ints |-> ints,
       fracs |-> IF semi < Len(ts) /\ ts[semi] = Semi /\ IsDigits(ts[semi+1]) THEN Groups(ts, semi + 1) ELSE << >>]
IsSexLit(l) == Len(l.ints) > 1 \/ l.fracs # << >>
LitValue(l) == IF IsSexLit(l) THEN SexLit(l.ints, l.fracs) ELSE Whole(l.ints[1])

\* What the compiler makes of the text of a number, after a minus or not.
Unsigned(ts) == IF ts[1] = Dash THEN ScanNumber(Tail(ts)) ELSE ScanNumber(ts)
ReadNumber(ts) == IF ts[1] = Dash THEN Negate(LitValue(Unsigned(ts))) ELSE Ok(LitValue(Unsigned(ts)))

Alloc(n) == [k |-> "str", size |-> n, mem |-> [i \in {} |-> Nul], len |-> 0]
Byte(mem, i) == IF i \in DOMAIN mem THEN mem[i] ELSE <<"unwritten">>
MemCpy(s, at, src, from, n) ==
  [s EXCEPT !.mem = [i \in DOMAIN s.mem \cup at..at+n-1 |->
                       IF i \in at..at+n-1 THEN Byte(src, from + i - at) ELSE s.mem[i]]]
Ended(s, n) == [s EXCEPT !.mem = [i \in DOMAIN s.mem \cup {n} |-> IF i = n THEN Nul ELSE s.mem[i]], !.len = n]
StrLit(w) == Ended(MemCpy(Alloc(Len(w) + 1), 0, [i \in 0..Len(w)-1 |-> w[i+1]], 0, Len(w)), Len(w))
Text(s) == [i \in 1..s.len |-> Byte(s.mem, i - 1)]

StrBuffer == 5 * D   \* 80 bytes for 16 digits
SexToStr(s) == LET t == Printed(s) IN [StrLit(t) EXCEPT !.size = StrBuffer]
IntToStr(n) == StrLit(IF n < 0 THEN <<Dash, Digits(-n)>> ELSE <<Digits(n)>>)

RECURSIVE Lengths(_)
Lengths(parts) == IF parts = << >> THEN 0 ELSE Head(parts).len + Lengths(Tail(parts))

\* _emit_str_concat, of any number of parts; two for __tuppu_str_concat.
RECURSIVE CopyParts(_, _, _)
CopyParts(raw, parts, at) ==
  IF parts = << >> THEN raw
  ELSE CopyParts(MemCpy(raw, at, Head(parts).mem, 0, Head(parts).len), Tail(parts), at + Head(parts).len)
ConcatParts(parts) == Ended(CopyParts(Alloc(Lengths(parts) + 1), parts, 0), Lengths(parts))

Slice(s, lo, hi) ==
  IF lo < 0 \/ hi < lo \/ hi > s.len THEN Stop("trap")
  ELSE Ok(Ended(MemCpy(Alloc(hi - lo + 1), 0, s.mem, lo, hi - lo), hi - lo))
CloneStr(s) == Ended(MemCpy(Alloc(s.len + 1), 0, s.mem, 0, s.len), s.len)

\* The chunks of a tablets[N]u8 that holds the bytes, each with "used" of them,
\* and __tuppu_bytes_to_str_N, which sums and then copies along the chain.
Chunks(s) ==
  [c \in 1..(s.len + N - 1) \div N |->
     [len |-> IF c * N <= s.len THEN N ELSE s.len % N, mem |-> [i \in 0..N-1 |-> Byte(s.mem, (c-1) * N + i)]]]
BytesToStr(chunks) == Ended(CopyParts(Alloc(Lengths(chunks) + 1), chunks, 0), Lengths(chunks))

\* buffer_to_str of a buffer[N]u8 that was filled from a str.
Buffer(s) == [i \in 0..N-1 |-> IF i < s.len THEN s.mem[i] ELSE Nul]
BufferToStr(buf, n) ==
  IF n < 0 \/ n > N THEN Stop("trap") ELSE Ok(Ended(MemCpy(Alloc(n + 1), 0, buf, 0, n), n))

-----------------------------------------------------------------------------
(* comptime.py: Python integers, and tuples for a rat and a sex literal.  A  *)
(* tuple is a pair repeated some times, once unless Python's * was applied.  *)

FloorDiv(a, b) == IF b > 0 THEN a \div b ELSE (-a) \div (-b)
TruncDiv(a, b) ==
  LET q == FloorDiv(a, b) IN IF a # q * b /\ (a < 0) # (b < 0) THEN q + 1 ELSE q

Tuple(n, d, times) == [k |-> "tuple", num |-> n, den |-> d, times |-> times]
Pair(n, d) == Tuple(n, d, 1)
IsTuple(v) == v.k = "tuple"

ComptimeReduce(num, den) ==
  LET g == Gcd(Abs(num), Abs(den))
  IN  IF den = 0 THEN None
      ELSE IF den < 0 THEN Pair(TruncDiv(-num, g), -den \div g) ELSE Pair(TruncDiv(num, g), den \div g)

ComptimeLit(l) ==
  IF ~IsSexLit(l) THEN Whole(l.ints[1])
  ELSE ComptimeReduce(Horner(l.ints \o l.fracs), BASE ^ Len(l.fracs))

\* _rat_binop unpacks two values.
ComptimeRat(op, l, r) ==
  CASE l.times # 1 \/ r.times # 1 \/ op = "%" -> None
    [] op \in Equal -> Bool((l = r) <=> op = "==")
    [] OTHER -> LET c == Crossed(op, l, r)
                IN  IF op \in Order THEN Bool(Compare(op, c.num, c.den)) ELSE ComptimeReduce(c.num, c.den)

ComptimeInt(op, l, r) ==
  CASE op \in Equal \cup Order -> Bool(Compare(op, l, r))
    [] op = "+" -> Whole(l + r)
    [] op = "-" -> Whole(l - r)
    [] op = "*" -> Whole(l * r)
    [] OTHER -> IF r = 0 THEN None
                ELSE Whole(IF op = "/" THEN TruncDiv(l, r) ELSE l - TruncDiv(l, r) * r)

\* Python's operators on a tuple and an integer.
ComptimeMixed(op, tuple, n) ==
  CASE op = "*" -> [tuple EXCEPT !.times = IF n < 0 THEN 0 ELSE @ * n]
    [] op \in Equal -> Bool(op = "!=")
    [] OTHER -> None

ComptimeBinary(op, l, r) ==
  CASE l = None \/ r = None -> None
    [] IsTuple(l) /\ IsTuple(r) -> ComptimeRat(op, l, r)
    [] IsInt(l) /\ IsInt(r) -> ComptimeInt(op, l.n, r.n)
    [] "mixed" \notin Forms -> None
    [] IsTuple(l) -> ComptimeMixed(op, l, r.n)
    [] OTHER -> ComptimeMixed(op, r, l.n)

ComptimeNegate(v) ==
  CASE v = None -> None
    [] IsTuple(v) -> IF v.times = 0 THEN None ELSE Pair(-v.num, v.den)
    [] OTHER -> Whole(-v.n)

\* There is no cast to sex.
ComptimeCast(v, kind) ==
  CASE v = None \/ kind = "sex" -> None
    [] kind = "int" /\ IsTuple(v) -> IF v.times = 0 THEN None ELSE Whole(TruncDiv(v.num, v.den))
    [] kind = "rat" /\ IsInt(v) -> Pair(v.n, 1)
    [] OTHER -> v

\* A binding, an argument and a result keep the value they are given.
ComptimeBind(v, from, to) ==
  IF "uncoerced" \in Forms \/ (from = "sex" /\ to = "rat") THEN v ELSE None

\* _py_value_to_constant: the entry of a table of that type.  LLVM keeps the
\* low bits of a constant.
TableEntry(v, kind) ==
  CASE v = None -> None
    [] v.k = kind -> IF kind = "int" THEN Whole(Low(v.n)) ELSE v
    [] kind = "rat" /\ IsTuple(v) /\ v.times = 1 -> Rat(Low(v.num), Low(v.den))
    [] OTHER -> None

-----------------------------------------------------------------------------
(* What is meant: fractions [n, d] in lowest terms, computed apart from the  *)
(* code's way.                                                               *)

Fraction(n, d) == LET g == Gcd(Abs(n), Abs(d)) IN [n |-> Sdiv(IF d < 0 THEN -n ELSE n, g), d |-> Abs(d) \div g]
Weighted(ds, radix) == MapThenSumSet(LAMBDA i : ds[i] * BASE ^ (D + radix - i), DOMAIN ds)
Meant(ints, fracs) == Fraction(Weighted(ints \o fracs, Len(ints)), BASE ^ D)

Number(v) ==
  CASE v.k = "int" -> Fraction(v.n, 1)
    [] v.k = "rat" -> Fraction(v.num, v.den)
    [] v.k = "sex" -> LET m == Meant(SubSeq(v.digits, 1, v.radix), SubSeq(v.digits, v.radix + 1, v.count))
                      IN  IF v.sign = 0 THEN m ELSE Fraction(-m.n, m.d)

Quotient(x) == CHOOSE q \in -Abs(x.n)..Abs(x.n) :
                 q * x.n >= 0 /\ Abs(q) * x.d <= Abs(x.n) /\ Abs(x.n) < (Abs(q) + 1) * x.d
MeantBinary(op, ints, x, y) ==
  LET over == IF y.n = 0 THEN None ELSE Fraction(x.n * y.d, x.d * y.n)
  IN  CASE op = "+" -> Fraction(x.n * y.d + y.n * x.d, x.d * y.d)
        [] op = "-" -> Fraction(x.n * y.d - y.n * x.d, x.d * y.d)
        [] op = "*" -> Fraction(x.n * y.n, x.d * y.d)
        [] op = "/" -> IF ints /\ over # None THEN Fraction(Quotient(over), 1) ELSE over
        [] op = "%" -> IF over = None THEN None ELSE Fraction(x.n - y.n * Quotient(over), 1)
        [] OTHER -> Compare(op, x.n * y.d, y.n * x.d)

\* A literal, rat(n, d), or a variable of rat type that a literal was bound to,
\* beside the running expression.
Operands ==
  {[val |-> LitValue(l), exact |-> Meant(l.ints, l.fracs), built |-> ComptimeLit(l)] : l \in Literals}
  \cup {[val |-> Rat(r[1], r[2]), exact |-> Fraction(r[1], r[2]), built |-> Pair(r[1], r[2])] : r \in Rats}
  \cup {[val |-> Coerce(LitValue(l), "rat").v, exact |-> Meant(l.ints, l.fracs),
         built |-> ComptimeBind(ComptimeLit(l), "int", "rat")] : l \in {l \in Literals : ~IsSexLit(l)}}

-----------------------------------------------------------------------------
(* Evaluation. *)

Start(v, x, b) == val = v /\ type = v.k /\ exact = x /\ built = b /\ status = "ok" /\ ops = 0
Init ==
  \/ \E l \in Literals : Start(LitValue(l), Meant(l.ints, l.fracs), ComptimeLit(l))
  \/ \E w \in Words : Start(StrLit(w), w, None)

\* The operation "op" on l and r gives the outcome o.
Becomes(o, t, x, b, op, l, r) ==
  /\ ops < MaxOps
  /\ o.st \in {"wrapped", "least"} => o.st \in Forms
  /\ val' = IF o.v # None THEN o.v ELSE [k |-> "stopped", op |-> op, l |-> l, r |-> r]
  /\ type' = t
  /\ exact' = x
  /\ built' = b
  /\ status' = o.st
  /\ ops' = ops + 1

Numeric == {"int", "rat", "sex"}
Holds(kinds) == status = "ok" /\ type \in kinds

Apply(op, l, r) ==
  LET ints == IsInt(l.val) /\ IsInt(r.val)
      t == ResultType(op, l.val.k, r.val.k)
  IN  /\ t # None
      /\ Becomes(Binary(op, l.val, r.val), t,
                 IF op = "%" /\ ~ints THEN None ELSE MeantBinary(op, ints, l.exact, r.exact),
                 ComptimeBinary(op, l.built, r.built), op, l.val, r.val)

Operate ==
  /\ Holds(Numeric)
  /\ \E y \in Operands, op \in Arith \cup Equal \cup Order :
       LET x == [val |-> val, exact |-> exact, built |-> built]
       IN  Apply(op, x, y) \/ Apply(op, y, x)

Minus ==
  /\ Holds(Numeric)
  /\ Becomes(Negate(val), type, Fraction(-exact.n, exact.d), ComptimeNegate(built), "neg", val, val)

\* "as".
Cast ==
  /\ Holds(Numeric)
  /\ \E kind \in Numeric \ {type} :
       Becomes(Coerce(val, kind), kind, IF kind = "int" THEN Fraction(Quotient(exact), 1) ELSE exact,
               ComptimeCast(built, kind), "as", val, val)

\* An initialiser, an argument or a result of another type than is due.
Bind ==
  /\ Holds(Numeric)
  /\ \E kind \in Numeric \ {type} :
       /\ ~(type = "rat" /\ kind = "int")
       /\ Becomes(Coerce(val, kind), kind, IF kind = "int" THEN Fraction(Quotient(exact), 1) ELSE exact,
                  ComptimeBind(built, type, kind), "bind", val, val)

\* rat(val, d) of two integers.
MakeRat ==
  /\ Holds({"int"})
  /\ \E l \in {l \in Literals : ~IsSexLit(l)} :
       LET d == l.ints[1]
       IN  Becomes(Reduced(val.n, d), "rat", IF d = 0 THEN None ELSE Fraction(val.n, d),
                   IF built = None \/ IsTuple(built) THEN None ELSE ComptimeReduce(built.n, d), "rat", val, Whole(d))

\* The sex is printed, and the text is written into a program where a sex is due.
ReadBack ==
  /\ Holds({"sex"})
  /\ LET l == Unsigned(Printed(val))
         b == IF val.sign # 0 THEN ComptimeNegate(ComptimeLit(l)) ELSE ComptimeLit(l)
     IN  Becomes(Then(ReadNumber(Printed(val)), LAMBDA v : Coerce(v, "sex")), "sex", exact,
                 IF IsSexLit(l) THEN b ELSE ComptimeBind(b, "int", "sex"), "read", val, val)

ToStr ==
  \/ /\ Holds({"sex"})
     /\ Becomes(Ok(SexToStr(val)), "str", Printed(val), None, "str", val, val)
  \/ /\ Holds({"int"})
     /\ Becomes(Ok(IntToStr(val.n)), "str", IF val.n < 0 THEN <<Dash, Digits(-val.n)>> ELSE <<Digits(val.n)>>, None, "str", val, val)

Concat ==
  /\ Holds({"str"})
  /\ \E before, after \in Words :
       Becomes(Ok(ConcatParts(<<StrLit(before), val, StrLit(after)>>)), "str", before \o exact \o after, None,
               "concat", val, val)

StrSlice ==
  /\ Holds({"str"})
  /\ \E lo, hi \in -1..Len(exact) + 1 :
       Becomes(Slice(val, lo, hi), "str",
               IF 0 <= lo /\ lo <= hi /\ hi <= Len(exact) THEN SubSeq(exact, lo + 1, hi) ELSE None, None,
               "slice", val, <<lo, hi>>)

Copy == Holds({"str"}) /\ Becomes(Ok(CloneStr(val)), "str", exact, None, "copy", val, val)

\* The text byte by byte into a tablets[N]u8, and back.
ThroughTablets == Holds({"str"}) /\ Becomes(Ok(BytesToStr(Chunks(val))), "str", exact, None, "bytes", val, val)

ThroughBuffer ==
  /\ Holds({"str"})
  /\ \E n \in -1..N + 1 :
       Becomes(BufferToStr(Buffer(val), n), "str",
               IF n \in 0..N THEN [i \in 1..n |-> IF i <= Len(exact) THEN exact[i] ELSE Nul] ELSE None, None,
               "buffer", val, n)

Next ==
  \/ Operate \/ Minus \/ Cast \/ Bind \/ MakeRat \/ ReadBack
  \/ ToStr \/ Concat \/ StrSlice \/ Copy \/ ThroughTablets \/ ThroughBuffer

Spec == Init /\ [][Next]_vars

-----------------------------------------------------------------------------
(* Properties. *)

\* A value has the type the checker gave its expression, in the form the other
\* helpers take for granted: a rat "always stored reduced, with den > 0"
\* (SPEC.md 225), so that == may compare fields; a sex with digits below the
\* base, at least one before the semicolon and zeros after the last; a str
\* inside its block and ended by a NUL (rat.py 50-118, sex.py, strs.py).
TypeOK ==
  val.k # "stopped" =>
    /\ val.k = type
    /\ type = "int" => Fits(val.n)
    /\ type = "rat" => /\ Fits(val.num) /\ Fits(val.den) /\ val.den > 0
                       /\ \A g \in 2..val.den : ~(val.num % g = 0 /\ val.den % g = 0)
    /\ type = "sex" => /\ \A i \in 1..D : val.digits[i] \in 0..BASE-1 /\ (i > val.count => val.digits[i] = 0)
                       /\ val.count \in 1..D /\ val.radix \in 1..val.count /\ val.sign \in {0, 1}
    /\ type = "str" => /\ DOMAIN val.mem \subseteq 0..val.size-1
                       /\ Byte(val.mem, val.len) = Nul

\* Whatever helpers an expression goes through - digits aligned, carried and
\* borrowed, fractions crossed and reduced, a sex printed and read again, bytes
\* copied along chunks - its value is the one meant.
Exact ==
  status = "ok" =>
    CASE type = "bool" -> val.b = exact
      [] type = "str" -> Text(val) = exact
      [] OTHER -> Number(val) = exact

\* A table holds what the program computes: "the compiler evaluates <expr>(i)
\* and records the result" (SPEC.md 563-565), whatever literals, operators,
\* casts and bindings the generator is made of.
TableHolds ==
  val.k # "stopped" /\ TableEntry(built, type) # None => TableEntry(built, type) = val

\* "Overflow of either field traps at runtime" (SPEC.md 227): no operation
\* leaves a rat made of words that overflowed.
RatOverflowTraps == val.k = "rat" => status # "wrapped"

Representable(x) ==
  \E fr \in 0..D-1 : /\ (x.n * BASE ^ fr) % x.d = 0
                     /\ Abs(x.n) < x.d * BASE ^ (D - fr)

\* Digit places an operand of a sum is written in: left and right of the semicolon.
Written(v) ==
  IF IsInt(v) THEN [l |-> CHOOSE k \in 1..D : Abs(v.n) < BASE ^ k /\ (k = 1 \/ Abs(v.n) >= BASE ^ (k-1)), r |-> 0]
  ELSE [l |-> v.radix, r |-> v.count - v.radix]

\* Evaluation is cut short only when it must be: a trap means that there is no
\* result, or that it has no form of D digits, or - sharper than its docstring -
\* that the operands of a sum already take D places between them, whether or
\* not the sum would.  A program the checker accepts reaches code the generator
\* cannot make in two cases only: % of anything but integers, and a comparison
\* of a sex with an integer.
StopsOnlyWhenItMust ==
  /\ status = "ok" => exact # None
  /\ status = "trap" =>
       \/ exact = None
       \/ type = "sex" /\ ~Representable(exact)
       \/ /\ val.op \in {"+", "-"} /\ type = "sex"
          /\ \E u, v \in {val.l, val.r} : Written(u).l + Written(v).r >= D
  /\ status = "refused" =>
       \/ val.op = "%" /\ {val.l.k, val.r.k} # {"int"}
       \/ val.op \in Equal \cup Order /\ {val.l.k, val.r.k} = {"sex", "int"}
=============================================================================
