----------------------------- MODULE RootFrames -----------------------------
(***************************************************************************)
(* How codegen keeps a function's GC roots balanced: the per-frame root    *)
(* bookkeeping of src/src/tuppu/codegen (_gc_root_counts and               *)
(* _gc_root_slots_per_frame) while it walks one function body and emits    *)
(* the code of every branch, together with the roots registered at run     *)
(* time by one execution of that code.                                     *)
(*                                                                         *)
(* Codegen visits a construct's parts in source order; an execution runs   *)
(* some of them.  `live` says whether the execution reaches the code being *)
(* emitted, so a step emits code and, when live, also runs it.  Which arm  *)
(* runs is chosen where the branch is emitted.  A loop body is run at most *)
(* once: LoopsBalanced shows that an iteration leaves nothing behind.      *)
(*                                                                         *)
(* A root is named by its registration site, numbered in emission order;   *)
(* 0 is a root of the calling function.  _gc_root_counts is the length of  *)
(* the slot lists (in "shadow" mode the code keeps only the lengths).      *)
(*                                                                         *)
(* The program is any nest of the constructs the type checker admits.      *)
(* Cleanup entries, which the same frames carry, are modelled in Ownership.*)
(* A definition marked "faulty" is the next one with a bug in it.          *)
(***************************************************************************)
EXTENDS Naturals, Sequences, SequencesExt

CONSTANTS
  Modes,          \* the GC modes (_gc_mode) a run looks at
  UnitArmValues,  \* modes in which an else-less if may end in a rooted value
  MaxRoots,       \* bound: registration sites of the function
  MaxConstructs,  \* bound: constructs of the function
  MaxNest,        \* bound: nesting depth
  MaxArms         \* bound: arms of a match

ASSUME ModesAssumption ==
  Modes \subseteq {"shadow", "llvm"} /\ UnitArmValues \subseteq Modes
ASSUME BoundsAssumption ==
  MaxRoots \in Nat /\ MaxConstructs \in Nat /\ MaxNest \in Nat /\ MaxArms \in Nat \ {0}

VARIABLES
  mode,        \* _gc_mode
  frames,      \* _gc_root_slots_per_frame; lengths are _gc_root_counts
  nest,        \* constructs being generated, innermost last
  terminated,  \* builder.block.is_terminated
  stage,       \* "params", "body", "tail" or "done"
  sites,       \* registration sites emitted so far
  constructs,  \* constructs opened so far
  live,        \* the execution reaches the code being emitted
  roots,       \* roots registered at run time, oldest first
  returned     \* the execution has returned

emitVars == <<mode, frames, nest, terminated, stage, sites, constructs>>
vars == <<emitVars, live, roots, returned>>

Kinds == {"block", "then", "else", "elseif", "unit", "cond", "loop", "arm"}

\* A construct: what codegen snapshots on entry and where the execution is.
Construct(kind, taken) ==
  [kind |-> kind,
   before |-> Len(Last(frames)),  \* counter_before, cond_before
   entered |-> live,              \* the execution reached its first branch
   taken |-> taken,               \* it runs the current arm
   merged |-> FALSE,              \* it left through an earlier arm
   diverged |-> TRUE,             \* every earlier arm is terminated
   arms |-> 1,
   depth |-> roots]               \* run-time roots at entry
Plain == Construct("block", TRUE)

Init ==
  /\ mode \in Modes
  /\ frames = << << >> >> /\ nest = << >> /\ terminated = FALSE
  /\ stage = "params" /\ sites = 0 /\ constructs = 0
  /\ live = TRUE /\ roots = <<0>> /\ returned = FALSE

-----------------------------------------------------------------------------
(* The primitives every handler is built from. *)

\* Where statements and expressions are generated.
Generating ==
  /\ ~terminated
  /\ \/ stage = "body" /\ Last(nest).kind \in {"block", "cond", "elseif", "arm"}
     \/ stage = "params"

\* A registration in the innermost of the frames fs.
RegisteredPrevious(fs) == [fs EXCEPT ![Len(fs)] = Append(@, sites)]   \* faulty
Registered(fs) == [fs EXCEPT ![Len(fs)] = Append(@, sites + 1)]
Pushed(rs, isLive) == IF isLive THEN Append(rs, sites + 1) ELSE rs

Drop(s, n) == SubSeq(s, 1, Len(s) - n)
Newest(s, n) == SubSeq(s, Len(s) + 1 - n, Len(s))

\* The slots named in `gone` are set to null: their roots are roots no more.
Cleared(rs, gone) ==
  LET kept[i \in 0..Len(rs)] ==
        IF i = 0 THEN << >>
        ELSE IF rs[i] \in gone THEN kept[i - 1] ELSE Append(kept[i - 1], rs[i])
  IN  kept[Len(rs)]

\* What running the code of _emit_gc_pop_roots(n) does, emitted while the
\* innermost slot list is `slots`: drop the n newest, or clear n named slots.
Unrooted(rs, slots, n) ==
  IF ~live THEN rs
  ELSE IF mode = "shadow" THEN Drop(rs, n)
  ELSE Cleared(rs, ToSet(Newest(slots, n)))

\* _pop_cleanup_frame: the whole innermost frame.
FramePopped(rs) == Unrooted(rs, Last(frames), Len(Last(frames)))

TruncatedNot(before) == frames   \* faulty
Truncated(before) == [frames EXCEPT ![Len(frames)] = SubSeq(@, 1, before)]

\* The roots the arm or the condition added to the innermost frame.
Delta(before) == Len(Last(frames)) - before

\* A value's chokepoint: at most one registration, in the innermost of fs.
Choke(valued, fs) == frames' = IF valued THEN Registered(fs) ELSE fs
Count(valued) == sites' = IF valued THEN sites + 1 ELSE sites
MayRoot(valued) == valued => sites < MaxRoots

Opening ==
  /\ Generating /\ stage = "body"
  /\ constructs < MaxConstructs /\ Len(nest) < MaxNest
  /\ constructs' = constructs + 1

-----------------------------------------------------------------------------
(* Rooting, blocks and the function body. *)

\* _register_gc_root and _register_wedge_root: a parameter, a binding, or a
\* value passing the chokepoint.
Register ==
  /\ Generating /\ MayRoot(TRUE)
  /\ Choke(TRUE, frames) /\ Count(TRUE)
  /\ roots' = Pushed(roots, live)
  /\ UNCHANGED <<mode, nest, terminated, stage, constructs, live, returned>>

OpenBody ==
  /\ stage = "params" /\ stage' = "body"
  /\ frames' = Append(frames, << >>)
  /\ nest' = <<Plain>>
  /\ UNCHANGED <<mode, terminated, sites, constructs, live, roots, returned>>

OpenBlock ==
  /\ Opening
  /\ frames' = Append(frames, << >>)
  /\ nest' = Append(nest, Plain)
  /\ UNCHANGED <<mode, terminated, stage, sites, live, roots, returned>>

\* The construct a block is the body of, if it is the body of one.
Parent == IF Len(nest) > 1 THEN nest[Len(nest) - 1].kind ELSE "fn"

\* The end of _gen_block, and the chokepoint of the _gen_expr that called it;
\* a loop calls _gen_block itself and drops the value.
CloseBlock(valued) ==
  /\ stage = "body" /\ Last(nest).kind = "block"
  /\ MayRoot(valued)
  /\ valued => /\ ~terminated /\ Parent # "loop"
               /\ Parent = "unit" => mode \in UnitArmValues
  /\ Choke(valued, Front(frames)) /\ Count(valued)
  /\ roots' = IF valued THEN Pushed(FramePopped(roots), live) ELSE FramePopped(roots)
  /\ nest' = Front(nest)
  /\ stage' = IF Len(nest) = 1 THEN "tail" ELSE stage
  /\ UNCHANGED <<mode, terminated, constructs, live, returned>>

\* _emit_all_gc_root_pops_for_early_return, run.
SumInner(fs) == Len(Last(fs))   \* faulty
Sum(fs) == Len(FlattenSeq(fs))
Unwound ==
  IF ~live THEN roots
  ELSE IF mode = "shadow" THEN Drop(roots, Sum(frames))
  ELSE Cleared(roots, ToSet(FlattenSeq(frames)))

\* Only block statements: a yield inside an operand is an error in codegen.
Yield ==
  /\ Generating /\ stage = "body" /\ Last(nest).kind = "block"
  /\ roots' = Unwound
  /\ returned' = (returned \/ live) /\ live' = FALSE
  /\ terminated' = TRUE
  /\ UNCHANGED <<mode, frames, nest, stage, sites, constructs>>

\* The end of _gen_fn_body.
EndFn ==
  /\ stage = "tail" /\ stage' = "done"
  /\ roots' = Unwound
  /\ returned' = (returned \/ live) /\ live' = FALSE
  /\ terminated' = TRUE
  /\ frames' = Front(frames)
  /\ UNCHANGED <<mode, nest, sites, constructs>>

-----------------------------------------------------------------------------
(* if / else.  An arm is a block, or for `else if` an if in the same frame. *)

OpenIf(kind, taken) ==
  /\ Opening
  /\ nest' = nest \o <<Construct(kind, taken), Plain>>
  /\ frames' = Append(frames, << >>)
  /\ live' = (live /\ taken)
  /\ UNCHANGED <<mode, terminated, stage, sites, roots, returned>>

\* The then arm's own roots are popped before its branch to the merge block,
\* and forgotten either way: the else arm starts from the same count.
ArmPoppedAll(c) == FramePopped(roots)   \* faulty
ArmPopped(c) == Unrooted(roots, Last(frames), Delta(c.before))

CloseThen(kind) ==
  /\ stage = "body" /\ Last(nest).kind = "then"
  /\ LET c == Last(nest)
         e == [c EXCEPT !.kind = kind, !.merged = live, !.diverged = terminated]
     IN  /\ roots' = ArmPopped(c)
         /\ IF kind = "else"
              THEN /\ frames' = Append(Truncated(c.before), << >>)
                   /\ nest' = Front(nest) \o <<e, Plain>>
              ELSE /\ frames' = Truncated(c.before)
                   /\ nest' = Append(Front(nest), e)
         /\ live' = (c.entered /\ ~c.taken)
  /\ terminated' = FALSE
  /\ UNCHANGED <<mode, stage, sites, constructs, returned>>

\* After the merge the value, if the if has one, is rooted once.
CloseElse(valued) ==
  /\ stage = "body" /\ Last(nest).kind \in {"else", "elseif"}
  /\ MayRoot(valued)
  /\ LET c == Last(nest)
         rs == ArmPopped(c)
     IN  /\ terminated' = (c.diverged /\ terminated)
         /\ valued => ~terminated'
         /\ live' = (c.merged \/ live)
         /\ roots' = IF valued THEN Pushed(rs, live') ELSE rs
         /\ Choke(valued, Truncated(c.before)) /\ Count(valued)
  /\ nest' = Front(nest)
  /\ UNCHANGED <<mode, stage, constructs, returned>>

\* Without an else nothing is counted back.
CloseUnitIf ==
  /\ stage = "body" /\ Last(nest).kind = "unit"
  /\ LET c == Last(nest) IN live' = (live \/ (c.entered /\ ~c.taken))
  /\ terminated' = FALSE
  /\ nest' = Front(nest)
  /\ UNCHANGED <<mode, frames, stage, sites, constructs, roots, returned>>

-----------------------------------------------------------------------------
(* Loops. *)

OpenWhile ==
  /\ Opening
  /\ nest' = Append(nest, Construct("cond", TRUE))
  /\ UNCHANGED <<mode, frames, terminated, stage, sites, live, roots, returned>>

\* The condition's roots are popped before the branch to body or exit.
CondPoppedNot(c) == roots   \* faulty
CondPopped(c) == Unrooted(roots, Last(frames), Delta(c.before))

CloseCond(taken) ==
  /\ stage = "body" /\ Last(nest).kind = "cond" /\ ~terminated
  /\ LET c == Last(nest)
         l == [c EXCEPT !.kind = "loop", !.taken = taken, !.entered = live]
     IN  /\ roots' = CondPopped(c)
         /\ frames' = Append(Truncated(c.before), << >>)
         /\ nest' = Front(nest) \o <<l, Plain>>
  /\ live' = (live /\ taken)
  /\ UNCHANGED <<mode, terminated, stage, sites, constructs, returned>>

\* for: the iterated value is rooted before the loop, outside of it.
OpenFor(taken) ==
  /\ Opening
  /\ nest' = nest \o <<Construct("loop", taken), Plain>>
  /\ frames' = Append(frames, << >>)
  /\ live' = (live /\ taken)
  /\ UNCHANGED <<mode, terminated, stage, sites, roots, returned>>

\* The back edge, then the exit block.
CloseLoop ==
  /\ stage = "body" /\ Last(nest).kind = "loop"
  /\ LET c == Last(nest) IN live' = (live \/ (c.entered /\ ~c.taken))
  /\ terminated' = FALSE
  /\ nest' = Front(nest)
  /\ UNCHANGED <<mode, frames, stage, sites, constructs, roots, returned>>

-----------------------------------------------------------------------------
(* match: each arm has a frame of its own, around any expression. *)

OpenMatch(taken) ==
  /\ Opening
  /\ nest' = Append(nest, Construct("arm", taken))
  /\ frames' = Append(frames, << >>)
  /\ live' = (live /\ taken)
  /\ UNCHANGED <<mode, terminated, stage, sites, roots, returned>>

\* The execution has not come to its arm yet.
Waiting(c) == c.entered /\ ~c.taken

NextArm(taken) ==
  /\ stage = "body" /\ Last(nest).kind = "arm"
  /\ LET c == Last(nest)
     IN  /\ c.arms < MaxArms
         /\ taken => Waiting(c)
         /\ nest' = Append(Front(nest),
              [c EXCEPT !.arms = @ + 1, !.taken = c.taken \/ taken,
                        !.merged = @ \/ live, !.diverged = @ /\ terminated])
         /\ live' = (Waiting(c) /\ taken)
  /\ roots' = FramePopped(roots)
  /\ frames' = Append(Front(frames), << >>)
  /\ terminated' = FALSE
  /\ UNCHANGED <<mode, stage, sites, constructs, returned>>

\* The checker has made sure that some arm runs.
CloseMatch(valued) ==
  /\ stage = "body" /\ Last(nest).kind = "arm" /\ ~Waiting(Last(nest))
  /\ MayRoot(valued)
  /\ LET c == Last(nest)
         rs == FramePopped(roots)
     IN  /\ terminated' = (c.diverged /\ terminated)
         /\ valued => ~terminated'
         /\ live' = (c.merged \/ live)
         /\ roots' = IF valued THEN Pushed(rs, live') ELSE rs
  /\ Choke(valued, Front(frames)) /\ Count(valued)
  /\ nest' = Front(nest)
  /\ UNCHANGED <<mode, stage, constructs, returned>>

-----------------------------------------------------------------------------
Next ==
  \/ Register \/ OpenBody \/ OpenBlock \/ Yield \/ EndFn
  \/ \E valued \in BOOLEAN :
       CloseBlock(valued) \/ CloseElse(valued) \/ CloseMatch(valued)
  \/ \E kind \in {"then", "unit"}, taken \in BOOLEAN : OpenIf(kind, taken)
  \/ \E kind \in {"else", "elseif"} : CloseThen(kind)
  \/ CloseUnitIf
  \/ OpenWhile \/ CloseLoop
  \/ \E taken \in BOOLEAN :
       CloseCond(taken) \/ OpenFor(taken) \/ OpenMatch(taken) \/ NextArm(taken)

Spec == Init /\ [][Next]_vars

-----------------------------------------------------------------------------
(* Properties. *)

\* The shapes of codegen's bookkeeping and of the run-time roots.
TypeOK ==
  /\ mode \in Modes
  /\ frames \in Seq(Seq(1..MaxRoots))
  /\ \A i \in DOMAIN nest : nest[i].kind \in Kinds /\ nest[i].before \in 0..MaxRoots
  /\ stage \in {"params", "body", "tail", "done"}
  /\ terminated \in BOOLEAN /\ live \in BOOLEAN /\ returned \in BOOLEAN
  /\ sites \in 0..MaxRoots /\ constructs \in 0..MaxConstructs
  /\ roots \in Seq(0..MaxRoots)

\* Whatever way the execution took to the code being emitted, the roots it has
\* registered are those codegen counts for the open frames, in the same order:
\* every pop_roots(n) emitted from here on pops what it was meant to pop.
Balanced ==
  live /\ mode \notin UnitArmValues => roots = <<0>> \o FlattenSeq(frames)

\* A function returns, at its end or at any yield, with exactly the roots its
\* caller had: gc_fini finds an empty stack, and a caller's value stays rooted.
ReturnsBalanced == returned => roots = <<0>>

\* An iteration ends with the roots it began with, so the shadow stack does not
\* grow or shrink with the number of iterations.
LoopsBalanced ==
  nest # << >> /\ Last(nest).kind = "loop" /\ live => roots = Last(nest).depth

\* Running an emitted pop never unroots a value of a frame that stays open, of
\* an outer part of the same frame, or of the caller.
PopsItsOwn ==
  [][~returned' => ToSet(roots) \ ToSet(roots') \subseteq
                     ToSet(FlattenSeq(frames)) \ ToSet(FlattenSeq(frames'))]_vars
=============================================================================
