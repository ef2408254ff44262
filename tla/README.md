# Tuppu: TLA+ models, checks and proofs

Tuppu is a small compiled language. A Python compiler (`src/src/tuppu`) lexes,
parses, type-checks and lowers a program to LLVM IR; the binary is linked with
a mark-sweep garbage collector in C (`src/runtime/tuppu_gc.c`) and a standard
library written in Tuppu (`src/stdlib`). This directory holds TLA+ modules that
model the parts of it whose correctness depends on order, sharing and long
sequences of legal calls, TLC configurations that check them on small
instances, and TLAPS proofs for every size.

A property states what the code, its comments or its documents promise, without
exceptions for what the code does otherwise. Where a promise is broken by some
programs, a named constant says which programs a run includes: the passing run
excludes them, and a configuration with that constant set otherwise shows the
violation (section 4).

`PROJECT.json` lists the components, the runs, the mutants that each property
must catch, the source lines behind every definition, the findings, the hazards
and the theorems. Its runs are the questions asked of each component and four of
the violations; the other violations have a configuration here as well, which
section 3 lists with the command that checks it.

## 1. Inventory

A compiled program is sequential. What is hard about it is not threads but

* **one heap, many owners**: headers of containers are copied through variables,
  containers, arguments and returns, while *release* calls walk and destroy;
* **collections at any allocation**: between two stores of any helper;
* **one emitted text, many executions**: the compiler counts while it walks the
  text once; a run takes one path through the branches;
* **addresses that move or die**: growth of a buffer, sweep of a chunk.

| Component | State it keeps | Operations | What makes it correct |
|---|---|---|---|
| GC runtime, `runtime/tuppu_gc.c` | live list, mark bits, `live_bytes`, threshold, shadow stack, LLVM root chain | push/pop roots, alloc, collect (mark, trace, sweep), `gc_fini` | frees nothing reachable, frees everything else, no stale mark, exact byte count, bounded recursion, every call returns |
| GC-root frames, `codegen/{stmt,expr,module,seals,__init__}.py` | `_gc_root_counts`, `_gc_root_slots_per_frame` | register, truncate, pop of a frame, an arm, a condition; unwind at `yield` and at the end | on every path the run-time roots are the counted ones; the caller's roots are untouched |
| Cleanup entries and ownership, same files and `tablets.py` | `_cleanup_frames`, the headers in allocas and chunks | binding, push, assignment, `release`, block end, tail, `yield`; transfer, clone, pass through | one owner for each value; nothing in scope or returned is destroyed; nothing is released twice |
| Containers, `tablets.py`, `ivec.py`, `dvec.py` | chunk chains, slot buffers, `len`, `cap`, `used` | push, get, get_addr, clone, release, iterate | implement a sequence; handles into tablets and ivec stay valid; a collection inside push or clone loses nothing |
| Descriptors and tracing, `codegen/__init__.py`, `stmt.py`, `seals.py` | descriptor and trace-function caches, layouts | build per type, trace, clone, release | every pointer a value holds is traced, whatever types nest; nothing else is read as a pointer |
| LLVM-mode slots, `__init__.py`, `driver.py` | `_pending_gcroots`, functions marked `gc "shadow-stack"` | queue, clear, emit in the entry block | a slot is safe to trace before its first store; re-entrant generation keeps them apart |
| Seals, structs, lvalues, `seals.py`, `access.py`, `stmt.py` | tags and payloads, addresses | construct, match, assign through a path | tag and payload agree after transfer and release; no address is used after what it points into moved |
| Names, inference, monomorphs, `typecheck.py`, `types.py`, `module.py` | module scopes, aliases, flat names; caches, saved per-function state | import, resolve, infer, instantiate, generate re-entrantly | a use means one declaration; a call is made at the type its arguments fit; a body is what it would be alone |
| Numbers and text, `rat.py`, `sex.py`, `strs.py`, `intrinsics.py`, `comptime.py`, `lexer.py` | none | arithmetic, conversion, printing, reading | agree with exact arithmetic, at build time too, or stop when there is no result |
| Effects, `effects.py` | per-function summaries | fixed point | dead code: only its own test calls it |
| Rest of the checker, parser | scopes, cursor | check, parse | structural recursion over one tree |
| Driver, command line | file system | merge files, compile, cache, link | pipeline of pure stages |
| Standard library, `stdlib/*.tpu` | Map's parallel tablets, list nodes | set, get, push, find | sequential code over the containers |

How they meet: the checker fixes which programs exist; codegen emits calls to
the runtime's entry points and to helper functions it generates per type;
frames decide when those calls run; the runtime sees only roots and
descriptors. `GCHeap` therefore treats the compiled program as an environment
that keeps its side of a contract (roots and descriptors are complete).
`RootFrames` and `Ownership` look at whether codegen keeps the first part,
`Values` at the second; `Containers` puts the helpers that allocate under a
collector that runs at every allocation; `Generation` looks at how one code
generator, with one set of registers, produces all the bodies.

## 2. Modules

### GCHeap, HeapGraph, ManagedHeap, MCGCHeap: the collector

`GCHeap` is `tuppu_gc.c`. A block is an address; its contents are the pointers
its descriptor leads to, each traced as the start of a block (`mark_ptr`) or as
an interior pointer (`mark_wedge`). Null and pointers that are not into the
heap (string literals) are values too.

| Model | Code |
|---|---|
| `live_list`, `rest`, `live_bytes`, `gc_threshold`, `mark` | the globals and `hdr->mark`; `rest` is what sweep's `cur` has left |
| `shadow`, `chain`, `slot` | `shadow[0..shadow_top)`, `llvm_gc_root_chain`, the program's allocas |
| `ret` | an allocation's result before the program stores it: a register |
| `PushRoot`, `PopRoots`, `PushOverflow`, `PopUnderflow`, `Exit` | the entry points with their abort paths |
| `Alloc`, `Collect`, `Calloc`, `OutOfMemory` | `raw_alloc`, `maybe_collect` (and `gc_stress`), calloc and its failure |
| `MarkShadowRoot`, `MarkChainRoot`, `MarkPtr`, `TraceField`, `TraceReturn` | `mark_all`, `mark_ptr`, `trace_struct`, one step per root and field; `stack` is the C recursion |
| `SweepStart`, `SweepKeep`, `SweepFree`, `SweepDone` | `sweep`, one step per list node |
| `SetRoot`, `ClearRoot`, `StoreSlot`, `StoreField`, `EnterFn`, `LeaveFn` | what emitted code does; it can only hold what its roots or `ret` reach |

`ManagedHeap` is what the collector promises: a program rearranges what it can
reach; a collection leaves exactly what is reachable; an allocation gives a
fresh block. `GCHeap` implements it (`ImplementsManagedHeap`): a sweep in
progress counts as having reclaimed every unmarked block.

### RootFrames: one text, every execution

Codegen walks a function once. `frames`, `nest`, `terminated` are its state;
`live`, `roots`, `returned` belong to one execution of what has been emitted so
far. Each action emits a piece of code and, if the execution gets there, runs
it. Which branch is taken is chosen where it is emitted. Roots are numbered by
registration site, so that popping the *right* roots can be told from popping
the right *number*. Both `_gc_mode`s are covered: `shadow` pops by count, `llvm`
clears the named slots.

### Ownership, MCOwnership: releases that destroy

Under the collector `release` frees no memory but still walks a container,
zeroes inner headers and clears seal tags. The model has rows (tablets) and
accs (tablets of rows), the entries codegen keeps for them, and every sink:
binding, push, assignment to a variable or an element, block end, the body's
tail, `yield`. `deep` says whether releasing a row destroys its elements. It is
a choice, since it depends on the element type, and for inner tablets on
whether their release helper has been built by then (`tablets.py:661`).

A name may shadow another in an inner block: `scope` is the code generator's
stack of scopes, `SlotOf` its innermost-first `_lookup`, and `OwningFrame` the
search of `_transfer_cleanup_into_container` and `_gen_release` for the innermost
*entry* of the name. These find different variables once the inner one's entry
is gone (it was moved) while the outer one's is not: the form `"respend"`.

`DeepShapes` and `FlatShapes` name the source forms a run includes for each kind
of row, so that the passing run states for which programs the discipline holds
and the others show one form each that breaks it.

### Containers, GrowingSequence, MCContainers: helpers that allocate

The three growable containers as their generated helpers leave them on the
heap, one action per allocation and per group of stores between allocations.
Every allocation collects, which is the code under `gc_stress`, and a swept
address is never handed out again, so that any use of one is seen.

| Model | Code |
|---|---|
| `hdr.c`, `hdr.d` | the `{head, tail, len}`, ivec and dvec headers of a variable and of the clone being built |
| `Grow`, `NewChunk`, `InsertChunked`, `InsertInline`, `Return` | `_build_{tablets,ivec,dvec}_push` and `_emit_{ivec,dvec}_grow` in the order of their stores |
| `SlotAt`, `Walk`, `BufferedSlot`, `InlineSlot` | `get` and `get_addr` |
| `Resolve`, `Store` | `_gen_assign`: the address first, then the right-hand side, then the store |
| `ForBegin`, `ForNext`, `ForEnd` | the loop over a copy of the header |
| `Release`, `CloneBegin` .. `CloneDrop` | the release and clone helpers |
| `Roots`, `Reached`, `Collected` | `mark_all` and `sweep` of the runtime as one step, with the descriptors these types have |

`GrowingSequence` is what a container promises its program: pushes append,
stores replace, a release empties. `ImplementsSequence` refines to it.
`GrowInside` are the kinds that may grow under an assignment whose right side
pushes into the container. `AddressesStable` makes no exception: with
`"dvec"` in `GrowInside` it is violated (run `containers_dvec_target`), and the
passing run and the theorem have tablets and ivec there. A loop over a dvec reads
the buffer it began with (`grown`), and a handle outlives its container only as
memory (`gone`); the properties say so by their guards.

### Values, MCValues: what the collector is told of a value

A type is a leaf, a struct or a seal; a place is a function from byte offsets
to words. The module lays a value out as `seals.py` does, derives descriptor,
trace function, release and clone as `__init__.py` and `stmt.py` build them,
and compares what they read with what is there. `HeldIsMarked` says that every
block a value holds is marked, `ReadsArePointers` that the collector is handed
pointers only. Three constants say which programs a configuration covers:

* `Homes`, the types and where they live. Two families have a configuration of
  their own each: a seal below the top, or in a chunk, that owns no str and no tablets is
  not traced (`__init__.py:785`); a struct or seal whose only heap parts are
  ivec or dvec has no descriptor (`__init__.py:410`).
* `AssignedTypes`, the types of variables assigned to part by part: one that
  holds wedges and owns nothing has no root beyond its initialiser's, so what
  is assigned to it later hangs on nothing (`stmt.py:731`).
* `ReleasedVariants`, the variants a seal has when it is released: a release
  writes tag 0, the first variant's, and leaves the payload (`stmt.py:1064`), so
  tracing again reads a later variant's words as the first one's.

### Numbers, MCNumbers: what an expression computes

One expression, one operation at a time, over int, rat, sex and str, with
three values beside each other: the word-sized one of the program (`val`), the
exact one that was meant (`exact`), and the one `comptime.py` has when the same
expression initialises a table (`built`). The digit and word algorithms are
those of the helpers, at base 6, four digits, words of eight bits.
`ComptimeBinary` applies what `_eval_binary` applies: the rat helpers to two
pairs, Python's own operator to anything else, so that a pair times an integer
is the pair repeated; `Bind` is a binding, an argument or a result, coerced in
the program and not at build time. `built` is kept when a word of the program
overflows.

`Exact` and `TableHolds` compare the three, `RatOverflowTraps` is the promise of
`SPEC.md:227`. `Forms` are the programs a run includes besides those for which
all properties hold: operations that overflow a word (`"wrapped"`), reduction of
the least word, which has no positive counterpart (`"least"`), operators on a
pair and an integer at build time (`"mixed"`), and values bound as another type
there (`"uncoerced"`). Where LLVM leaves the result undefined the expression
ends. `StopsOnlyWhenItMust` records that the checker accepts `%` of rats and
comparisons of a sex with an int, which the code generator then refuses, and
that a sum of two sex may trap although its result would fit.

### Generation, MCGeneration: from files to bodies

The checker's scopes, imports and inference as operators over a program, then
the code generator as a machine: `reg` is its registers, `stack` the bodies it
is in the middle of. `Specialise` stops one body to emit another;
`WrittenAlone` says that the one that was stopped does not show it.

| Model | Code |
|---|---|
| `Flat`, `Scopes`, `AddImport`, `Acyclic` | `_build_module_scopes`, `_reject_import_cycles` |
| `Callee`, `QualifiedType`, `BareType` | `_tc_call`, `_resolve_qualified_type`, `_resolve_type` |
| `Unify`, `Infer`, `Fresh` | `_unify` and the call site's renaming of the callee's parameter |
| `Declare`, `NextBody`, `AllEmitted` | `gen`'s phases 1 and 3 |
| `Call`, `Specialise`, `Return` | `_get_monomorph_fn` and `_gen_fn_body`: cache, saved registers, restoration |
| `Straight`, `NameType` | roots, blocks and types named in a body |

`Lower` maps types as `_lower_ty` does: one struct for every ivec, one for
every dvec, no signs. A specialisation is cached under the lowered type, so
`CheckedAsMeant` (the checker's choice of callee, type and type argument),
`WrittenAlone` (a body is what it would be had nothing interrupted it, its types
those its own module means) and `AcceptedCompiles` (generation ends with every
call finding code its arguments fit) are stated over types that several types of
the checker share. `Programs` are families of programs, and those that break a
promise have a configuration each: a qualified call is looked up by its last name
alone (`typecheck.py:2586`); a qualifier reaches a private type
(`typecheck.py:869`); `_unify` has no case for ivec and dvec, so a parameter first
met below one is never inferred (`typecheck.py:2365`); generic functions are kept
by source name (`module.py:43`), although functions of one name coexist
otherwise; types in a specialisation are looked up in the module whose body the
driver loop is at, since `_gen_fn_body` does not set it as the comment at
`types.py:32` says. A function that reaches itself at ever larger types is
specialised without end, which `AcceptedCompiles` allows for.

Definitions whose names end like `...Not`, `...Early`, `...All` and are commented
"faulty" are plausible bugs; `PROJECT.json` pairs each with a property that
must notice it. In the later modules they have names of their own
(`WalkOff`, `CloneUnrooted`, `AddShort`, `RestoreKeepsScopes`, ...) and stand
right before the definition they spoil. The specifications use none of them.

## 3. Runs

| Run | What it shows | Bounds, and why they are enough |
|---|---|---|
| `gc_shadow` | the inductive invariant; no dangling block, no floating garbage, bytes, marks, threshold, recursion | one root, three blocks of two fields (one traced as a wedge): every graph on three blocks, so sharing, cycles, self loops and unreachable cycles, with a collection at every point |
| `gc_chain` | no dangling block through the root chain; `GCHeap` implements `ManagedHeap`; every collection and allocation ends | two entries of two cells beside one shadow root, any cell null, foreign pointers among the values: a null cell before, after and between live ones; two blocks of one field: each abstract step and each stutter occurs, cyclic heaps included |
| `root_frames` | counts and run-time roots agree on every path | two constructs, nested or in sequence, four rooted values. A construct interacts with the one it sits in or the one before it through the frame only, so pairs show every interaction; four sites allow a root before, in and after both |
| `ownership_moves` | each value has one owner and survives the others' releases, names shadowing one another | two names of each type, five objects, four allocas, one nested block: a value can move twice, be cloned, and have its source reassigned or shadowed |
| `ownership_respend` | violation: finding 1 | as above, with one more form of source |
| `containers_ops` | index, loop, handle, clone and the abstract sequence under a collection at every allocation | chunks of two, first capacity two, three elements: a full and a part-filled chunk, a doubling, an index on both sides of a boundary; `MaxOpen` (one or two handles, loops, assignments, clones at once) and `MaxBlocks` (10 tablets, 8 ivec, 7 dvec) let each of them be open across a growth |
| `containers_dvec_target` | violation: finding 2 | one dvec of capacity two |
| `values_trace` | every block a value holds is marked, before and after assignments; what the trace functions read is a pointer, after release, clear and inside clones; a clone is whole | every heap leaf alone, pairs of leaves in a struct or seal, those inside another struct or seal, and a third level, but the families of section 4: descriptors recurse through one level at a time, and the flags that make them skip (owns, holds a wedge) are settled by two |
| `values_inner_seal` | violation: finding 3 | one family of types |
| `numbers_eval` | values, forms and stops of expressions | base 6 has two primes as 60 has three; a word holds fewer digits than a sex, as in the code; three operations let a result be printed, read and used again; chunks of two bytes: full, part-filled and none |
| `generation_program` | names, inference, re-entrant generation | programs of three modules in families: one name declared in any of them with up to two imports; calls of one or two parameters, five patterns by eight arguments; bodies of one or two parts over blocks, roots and mutual recursion; types named in generic bodies, both file orders. `MaxNest` 4 is above the nesting of any program that does not grow |
| `generation_types` | violation: finding 4 | one family of programs |

The configurations below set one constant of a passing run otherwise, and TLC
finds the property violated. They are checked with
`tlc -config <configuration>.cfg <module>`:

| Configuration | Module | Violated | Gap of section 4 |
|---|---|---|---|
| `RootFrames_unit_if` | `RootFrames` | `ReturnsBalanced` | 5 |
| `Ownership_fresh` | `MCOwnership` | `SinksIntact` | 6 |
| `Ownership_yield` | `MCOwnership` | `EscapedIntact` | 7 |
| `Ownership_shadow` | `MCOwnership` | `ShadowedKept` | 1 |
| `Values_vectors` | `MCValues` | `HeldIsMarked` | 8 |
| `Values_assigned` | `MCValues` | `HeldIsMarked` | 9 |
| `Values_released` | `MCValues` | `ReadsArePointers` | 10 |
| `Numbers_overflow` | `MCNumbers` | `RatOverflowTraps` | 11 |
| `Numbers_least` | `MCNumbers` | `TypeOK` | 12 |
| `Numbers_mixed`, `Numbers_uncoerced`, `Numbers_wide` | `MCNumbers` | `TableHolds` | 13 |
| `Generation_qualified`, `Generation_private` | `MCGeneration` | `CheckedAsMeant` | 14 |
| `Generation_ivec` | `MCGeneration` | `CheckedAsMeant` | 15 |
| `Generation_no_type` | `MCGeneration` | `AcceptedCompiles` | 4 |
| `Generation_generics` | `MCGeneration` | `AcceptedCompiles` | 16 |

`CHECK_DEADLOCK FALSE` is set in every run because the systems stop: a process
exits or aborts, a function returns, and in the bounded models a budget of
sites, objects, blocks or operations runs out. In `RootFrames` a condition that diverges is a
compile error, which ends the walk.

**Fairness.** Only `RuntimeReturns` (run `gc_chain`) needs it: weak fairness of the runtime's own
steps. The runtime is synchronous C called by a single thread; nothing can come
between its steps and nothing but the operating system can stop them, so a step
that can be taken is taken. The program's own steps are not assumed fair.

**Bounds in the models.** `SHADOW_MAX` is the code's constant, made small;
`MaxEntries` bounds nested calls; `MaxRoots`, `MaxConstructs`, `MaxNest`,
`MaxArms` bound the text of one function; `MaxObjects`, `MaxSlots`, `MaxFrames`
bound one execution; `MaxLen`, `MaxOpen`, `MaxBlocks`, `MaxOps` and the sets of
types, literals and programs in the MC modules bound the rest. The proofs of section 5 have no bounds: the constants are
arbitrary.

## 4. Findings and known gaps

Where the code and what it says of itself part. The first four are violation
runs and findings of `PROJECT.json`; the others have a configuration, and a
hazard that names it.

1. **`ownership_respend`, `Ownership_shadow`**: `expr.py:360-363` says that
   eviction targets the inner binding's entry. The search is for the innermost
   entry of the name (`expr.py:364`). An inner `x` that was moved, then assigned,
   has none, and its next move takes the entry of the `x` it shadows: the
   shadowed variable is zeroed, and the inner one's header stays in its alloca
   beside the container's.
2. **`containers_dvec_target`**: `dvec.py:318-321` says an assignment `dv[i] = x`
   happens before any chance of a grow. `_gen_assign` evaluates `x` after the
   address (`stmt.py:1299-1300`); a push there may move the buffer, and the store
   is lost.
3. **`values_inner_seal`**: seals of wedges or vectors below another type are
   skipped by the trace functions (`__init__.py:785`), against the comment at
   `__init__.py:372-375` and `README.md:143`.
4. **`generation_types`, `Generation_no_type`**: a generic body's types are
   looked up in the calling module (`types.py:40`, 68), against `types.py:31-33`.
5. **`RootFrames_unit_if`**: `_gen_if_expr` (`expr.py:124`) without an else
   neither pops nor truncates. If the block ends in a rooted value the count
   stays one higher on both paths, and the frame's `pop_roots(n)` takes a root of
   the caller, or underflows, when the arm was skipped. Comments at `stmt.py:329`
   and `tuppu_gc.c:364` promise matching pops. Only the `shadow` mode is
   affected: clearing a named slot twice is harmless.
6. **`Ownership_fresh`**: the spill slot of a call's result keeps a cleanup
   entry after a variable or container has taken the value (`stmt.py:1286`).
   At block end its release destroys the elements the sink shows.
   `tests/test_ownership.py:3` says each value ends up in exactly one sink.
7. **`Ownership_yield`**: `_gen_yield` (`stmt.py:307`) releases the returned
   variable with all others; `tests/test_ownership.py:10` lists yield among the
   sinks that transfer.
8. **`Values_vectors`**: types whose heap parts are ivec or dvec only have no
   descriptor (`__init__.py:410`), so their variables are no roots, against the
   comments at `__init__.py:366-368` and `stmt.py:706-708`.
9. **`Values_assigned`**: variables that hold wedges and own nothing have no root
   (`stmt.py:731`), against `README.md:155`.
10. **`Values_released`**: tag 0 is the first variant's, not a no-op block
    (`stmt.py:1061-1064`).
11. **`Numbers_overflow`**: overflow of a rat's fields wraps (`rat.py:23`);
    `SPEC.md:227` says it traps.
12. **`Numbers_least`**: reducing the least word leaves a negative denominator
    (`rat.py:84`); `SPEC.md:225` says `den > 0`.
13. **`Numbers_mixed`, `Numbers_uncoerced`, `Numbers_wide`**: a table differs from
    the program where its generator mixes pairs and integers
    (`comptime.py:196`), binds a value as another type (`comptime.py:328`) or
    overflows a word (`comptime.py:217`); `SPEC.md:563-565`.
14. **`Generation_qualified`, `Generation_private`**: a qualified call means the
    caller's own function of that name (`typecheck.py:2586`); a qualified type
    may be private (`typecheck.py:869`, against its error text at 873).
15. **`Generation_ivec`**: no inference through ivec and dvec
    (`typecheck.py:2365`).
16. **`Generation_generics`**: generic functions that share a name with another
    module's declaration are not found (`module.py:43`), against
    `LIMITATIONS.md:133-136`.

## 5. Proofs

Every theorem holds for all values of the constants that satisfy the `ASSUME`s
of its module, plus the hypotheses named here. The modules build on each other:

| Module | Extends | What it proves |
|---|---|---|
| `DataLemmas` | - | lemmas on the operators of the models: sequences, injective sequences, concatenation, totals over a set |
| `HeapGraphProofs` | `HeapGraph` | `Reachable` contains its roots, is closed, is the least such set, grows only with roots and edges |
| `GCHeapProofs` | `GCHeap` | the collector is safe and complete |
| `GCServiceProofs` | `GCHeapProofs` | what it owes its callers: recursion, account, threshold, refinement |
| `RootFramesProofs` | `RootFrames` | run-time roots are those codegen counts |
| `OwnershipProofs` | `Ownership` | releases reach nothing that is still shown |
| `ContainersProofs` | `Containers` | indices, loops, handles and clones are right through growth and collection; the containers implement a sequence |

`DataLemmas` reasons about recursive definitions although the provers cannot
instantiate the library's induction rules, which take an operator: the rule is
restated with a set of numbers (`SetInduction`: a set that holds 0 and the
successors of its members holds every number), which is first-order. With it the
recursive functions behind `FlattenSeq` and `MapThenSumSet`, and in
`RootFramesProofs` and `ContainersProofs` those of the models, are shown to exist (an equation solved for
`n` is solved for `n + 1`) and to have the properties the proofs use.

### GCHeap

| Theorem | Statement |
|---|---|
| `TypeCorrect` | `Spec => []TypeOK` |
| `InvCorrect` | `Spec => []IInv` |
| `NeverDangling` | no reachable block leaves the live list |
| `GarbageCollected` | a finished sweep leaves exactly the reachable blocks |
| `NoStaleMark` | no mark outlives a collection |
| `ListedOnce` | a header is listed once, so sweep's walk ends |
| `RecursionFits` | `mark_ptr` has at most as many activations as there are live blocks |
| `AccountExact` | `live_bytes` is the total size of the listed blocks |
| `HeapStaysBounded` | the heap outgrows the threshold by one block at most |
| `CollectorRefines` | `GCHeap` implements `ManagedHeap` |

*The argument.* None of the first is inductive alone. `IInv` adds what makes
them so: while marking, marked blocks are reachable; a marked block that is not
on the recursion stack has only marked targets, one on the stack has marked
targets up to its cursor; the roots a cursor has passed lead to marked blocks.
When the cursors are through and the stack is empty the marked set is closed
and contains the roots, hence contains `Reachable` (the least such set), hence
is it: this is the step to sweeping, where kept blocks and marks still set
together are `Reachable`. `TypeOK` is proved first and used in every step. The
program's steps cannot enlarge `Reachable` beyond what it held, which is
`ReachBound`. One lemma per action, split by conjunct of `IInv`.

`RecursionFits` adds that the stack is injective: `mark_ptr` returns at once on
a marked block, and the blocks on the stack are marked. `AccountExact` splits the
total at the block a step adds or frees (`TotalSplit`), where `ListedOnce` says
that it is there once. `HeapStaysBounded` follows the threshold through
`maybe_collect`. `CollectorRefines` takes the steps one at a time: marking and
sweeping stutter but for the step that starts the sweep, which is the abstract
collection, because what it will leave is `Reachable` by `IInv`.

### RootFrames

| Theorem | Statement | Hypothesis |
|---|---|---|
| `Invariance` | `Spec => []IInv` | none |
| `BalancedAlways` | the run-time roots are those counted for the open frames, in order, in every mode whose else-less ifs leave no rooted value | none |
| `TypeCorrect` | `Spec => []TypeOK` | `"shadow" \notin UnitArmValues` |
| `ReturnsAlwaysBalanced` | a function returns with its caller's roots, at its end or at any `yield` | the same |
| `LoopsAlwaysBalanced` | an iteration ends with the roots it began with | the same |
| `AlwaysPopsItsOwn` | an emitted pop takes only roots registered by what is being left | the same |

The hypothesis is exact: `RootFrames_unit_if` shows the violation without it, and it holds
of `root_frames`. *The argument.* A construct keeps only a count of the
registrations at its opening, from which one cannot tell that the sites below
the count are still the same. The invariant therefore quantifies over two values
no variable holds: `H`, the whole list of frames at the opening of each open
construct, and `G`, the sites the execution passed by. It says that between two
levels of `H` only the construct's own frame or its part of the innermost one has
grown; that the roots are the sites of the frames without those in `G`, which is
empty in the modes that forbid what fills it; and that the execution is in every
open construct, or waits for the next part of exactly one with the roots that
one was opened with, or has returned. Each action is made of a few operations
(register, open, close, merge) with a lemma each. A form of the invariant in
which `H` and `G` can be computed was checked by TLC on the instance of
`root_frames` (324572 states) before it was proved. For the proofs the model's
`Cleared` was given as a recursive function over the roots, the same filter as
before.

### Ownership

| Theorem | Statement | Hypothesis |
|---|---|---|
| `TypeCorrect` | `Spec => []TypeOK` | none |
| `InvCorrect` | `Spec => [](TypeInv /\ IInv)` | none; `IInv` itself begins with `Plain` |
| `SinksIntactCorrect` | what a variable shows, shadowed or not, was not destroyed by another's release | `"fresh"`, `"respend"` `\notin DeepShapes` |
| `OneSinkCorrect` | a value whose release destroys it has one holder | the same |
| `ReleasedOnceCorrect` | nothing is released twice, whichever way the function ends | the same |
| `EscapedIntactCorrect` | what the function returns is whole | `DeepShapes = {}` |

`"fresh"` are calls that return rows, `"yield"` early returns of a row, `"respend"`
moves of a row whose own entry is gone while one it shadows has an entry; a shape
in `DeepShapes` is one a program uses with rows whose release destroys their
elements. Names may shadow one another in every theorem. Each hypothesis is
needed: the configurations `Ownership_fresh`, `Ownership_respend` and
`Ownership_yield` violate a property with one shape alone, and `ownership_moves` satisfies all of
them without. Flat rows may be returned by calls and yielded in all of these.
*The argument.* On the heap (`Well`), an object whose release destroys something
has one holder and none once destroyed; so what a release walks was whole, and
nothing shows it afterwards. In the bookkeeping (`Filed`, `Apart`), an entry of
a frame is that of a name bound in the scope of that very frame, with that
binding's alloca, one per name, or of a spill slot no name has; and no two
bindings share an alloca, whatever they are called. So a name that has an entry
in its innermost binding's frame finds that one (`OwnSlot`): a transfer removes
the variable's only entry and zeroes its own alloca, and the tail name's slot is
not among those its frame releases (`TransferredIs`). A source is reduced to
four outcomes (nothing, a copy, a move, a call's result), and in each what it
gives is free to be stored (`DrawnWell`). The order within the statements
matters: an assignment evaluates its source after the old value was destroyed,
so `ShownHeld` carries that whatever else is shown still has its holder.

### Containers

`AddressesHold` assumes `"dvec" \notin GrowInside` (run `containers_dvec_target`
violates it otherwise); no other theorem has a hypothesis. `AddrAssumption` says that there is an address for
every block a run may allocate: a full address space is not a state of the code,
whose `malloc` failing is not modelled.

| Theorem | Statement |
|---|---|
| `InvariantHolds` | `Spec => []IInv` |
| `TypeCorrect` | `Spec => []TypeOK` |
| `UsesLive` | no collection inside a push, a growth or a clone sweeps what is still used |
| `IndexCorrect` | index `i` leads to the `i`-th slot filled, for all chunk sizes and capacities |
| `LoopReadsContainer` | a loop's copy of the header reads the container's slots |
| `AddressesHold` | handles and assignment targets stay the addresses of their elements |
| `CloneCopies` | a finished clone has its source's texts, and never shares a slot or element with it |
| `ContainerRefines` | `Containers` implements `GrowingSequence` |

*The argument.* A header keeps `head`, `tail`, `len`, `cap` and a buffer, and no
two of them say where element `i` is. `IInv` therefore quantifies over three
sequences no variable holds: the chunks of the container, of the clone, and of
the chain a loop's copy leads along. All chunks but the last of a chain are
full, so slot `k` is at a place arithmetic gives (`Place`, `First`, `SlotOf`), and
the header's `len` is the number of used slots (`Count`). The rest of the invariant
says how everything else agrees with that: an ivec's buffer holds `SlotOf` at each
index; a loop's copy leads along the same chain until the container is gone, and
along one that shares nothing with it after; a handle and an assignment's target
are slots of the chain or of no container; the clone's cursor is at the element
whose index is the clone's length. `Walk` and `Chain`, which follow links, are then
shown to find what `SlotOf` says.

A collection happens in every allocation, so each of those steps is taken in
two: `AllocationKeeps` (blocks that are reached are as they were, and all that the
invariant speaks of is reached), then the stores. Stores are few (an item, an
item with the count, a link), each with a lemma on what it leaves alone.

`ContainerRefines` says of each step whether it leaves what the container holds,
appends to it, replaces one element or empties it (`Evolution`). `CloneCopies`
strengthens the invariant (`CopyIInv`): no element of the clone is one of the
source's or in the variable `x`, nor will a pushed value make it so; and while
cloning, the elements made have the texts of those before the cursor. `IInv` and
`CopyIInv` were checked by TLC on the instance of `containers_ops` (for `CopyIInv` its
tablets behaviours, 472256 states) before they were proved, in a form where the
chains are computed from the headers.

### What stays with TLC

* `RuntimeReturns`, a liveness property under fairness, is out of the prover's
  reach.
* `ShadowedKept` of `Ownership`, an action property.
* `Values`, `Numbers` and `Generation`: their RECURSIVE operators follow the code's
  recursion over types and digits, and tlapm has no SMT backend for a module
  with one.

*Assumed*: descriptors are complete and a program holds only pointers its roots
reach (the environment's actions of `GCHeap` say so). `Values` checks the first
and states where it fails; `RootFrames` and `Ownership` look at the second.

## 6. Plan

Done: the models and their runs; the proofs of section 5. Left, in this order:

1. Branches and loops in `Ownership` (`stmt.py:1286` inside an if arm,
   `expr.py:369` inside a loop), aliasing bindings and element-wise literals: the
   hazards no property covers yet.
2. Map and the list of the standard library over abstract containers.

## 7. Not modelled

* The parser, most of the checker's statements and expressions, instruction
  selection, colophons and glosses, printing of single values and the driver's
  external commands: sequential, without shared state, or only meaningful to the
  byte, so tests serve them better.
* `effects.py`: `src/README.md:243` calls it unused, and only its test calls it.
* The standard library: sequential code over the containers.
* In what is modelled: loop bodies in `RootFrames` run at most once per visit
  (`LoopsBalanced` says an iteration changes nothing). `Ownership` leaves out
  branches, loops, struct and seal literals, element-wise literals, block
  values, parameters, `copy`, self-assignment and aliasing bindings, and a name
  that shadows another has its type; branches, loops, element-wise literals,
  self-assignment and aliasing bindings are hazards in `PROJECT.json`, with
  their lines and no property of their own. `Containers`' elements are strings, and buffers (`buffer[N]T`) do not
  grow and are only in `Numbers`, of bytes. `Values` leaves out the caches of
  descriptors. `Generation` has one type parameter, and leaves out monomorphs of
  structs and seals, the visibility of variants, and clashes of the symbol names
  a specialisation gets with a function of that name.
