# A TLA+ model of the SysY compiler

The repository is an optimising compiler from SysY (a C subset with 32-bit ints,
floats and arrays) to AArch64 assembly, with an LLVM-like middle end.  Its output
can be multi-threaded: counted loops are outlined and run by two threads, under a
hand-written runtime that is appended to the assembly.  This directory models the
parts whose correctness depends on the order of things: the threads of the
generated program, the caches the generated program shares between calls, the
bookkeeping with which forty-odd passes share analyses of a changing IR, and the two
pipelines, over the IR and over machine functions, whose passes each rely on what the
ones before left.

Paths below are relative to the repository's root; `mid/` is `src/mid/` and
`include/` is `src/include/`.

- [1 The system](#1-the-system)
- [2 Modules, and how they correspond to the code](#2-modules-and-how-they-correspond-to-the-code)
- [3 What each run checks](#3-what-each-run-checks)
- [4 Disagreements between code and documentation](#4-disagreements-between-code-and-documentation)
- [5 What is proved](#5-what-is-proved)
- [6 Fairness](#6-fairness)
- [7 What is not modelled](#7-what-is-not-modelled)
- [8 Plan](#8-plan)

## 1 The system

    SysY source
      | lexer, parser (generated), AST validation, constant evaluation   src/frontend
      v
    AST --IRBuilder--> SSA IR: module, functions, blocks, use lists      mid/ir
      |
      |  PassManager: stages, fixed-point groups, loop forms             mid/opt/passManager
      |     |  asks / invalidates
      |     v
      |  AnalysisManager: dominators, loops, SCEV, ranges, alias         mid/analysis
      |     ^
      |     |  asks, rewrites the IR, declares what it preserved
      |  scalar, loop, instruction-combining passes                      mid/opt, mid/transform
      |     ParallelizeLoops: outlines loops       -> calls __sysy_parallel_for
      |     AutoMemoization:  wrapper + table      -> globals in the program
      v
    Selection DAG -> machine IR -> register allocation -> assembly       src/backend
      |
      v
    program text + the two-thread runtime (__sysy_parallel_for, __sysy_worker)

The compiler itself is one sequential process; it keeps nothing between runs.  The
program it makes has two threads that share memory without locks.

| component | state | operations | interacts with | what is hard | what makes it correct |
|---|---|---|---|---|---|
| **Parallel runtime** (`include/backend/parallelRuntime.hpp`, comments in `.proto/par_runtime_only.c`) | `job_seq`, `done_seq`, job id/lo/hi, `worker_started`, `worker_ok`, affinity masks, one register per thread | `__sysy_parallel_for`, `__sysy_worker`, `__sysy_bind_cpu`, clone on first call | called by outlined loops; dispatches to `__sysy_par_body_<id>` | two threads on a weakly ordered memory, clone and affinity may fail, sequence numbers wrap | each iteration once, all visible at return; a job is never torn; a call returns |
| **Outlining** (`mid/transform/loop/parallelizeLoops.cpp`) | the loop's shape, reductions, live-ins; generated globals `scalar_start`, `scalar_bound`, `scalar_partial`; in the pass, which functions are pure | `matchShape`, `isLegalDoall`, `transform` | runtime; AnalysisManager (purity, loops, SCEV) | two activations of one body with split bounds, inclusive exits, partial results, `%` on wrapped sums | the outlined loop has the effects and the live-out of the source loop |
| **Automatic memoisation** (`mid/opt/autoMemoization.cpp`) | in the program: dense or hash table of flags, keys and values | wrapper, fill, original; in the pass `isCandidate`, `readsUnfrozenGlobal` | purity and dominators; callers in parallel loops | globals stored to between calls, collisions, recursion that evicts, two threads | a call returns what the original returns |
| **Analysis manager** (`mid/analysis/analysisManager.cpp`) | per function seven cached analyses, per module BasicAA | getters, `invalidate`, `invalidateFunction`, `clear`, `clearRangeAnalyses` | every pass; analyses hold pointers to analyses | stale answers, dangling pointers | what is cached describes the IR |
| **Pass manager** (`mid/opt/passManager.cpp`, pipeline in `src/main.cpp`) | position, `irChangedSinceFixedPoint`, loop form taken for granted | `run`, `runSinglePass`, `ensureLoopForm` | passes, AnalysisManager | groups that repeat until nothing changes, form destroyed by a pass in between | required forms hold, groups end and end in fixed points |
| **Scalar passes** (`mid/opt`) | tables along the dominator tree, lattices, worklists | one entry point each | AnalysisManager, alias analysis | PHIs and edge lists mended by hand; values remembered past a write that may alias; each pass sees what the others leave | semantics of the program; a valid IR after each; groups end |
| **Loop passes, InstCombine** | local worklists | one entry point each | AnalysisManager | claims about what they preserve; own caches after own rewrites | semantics of the program; sound declarations |
| **Alias, range, SCEV analyses** | lattices per value | analyze, queries | each other, across functions | recursion in the call graph, results assumed while computed | facts hold for every execution |
| **Dominance, loops** | trees, loop nests | recompute, queries | nearly all passes | irreducible and unreachable parts | agree with the path definitions |
| **Dependence and cost analyses** | none | queries | loop passes | integer tests on subscripts | no dependence is missed |
| **IR** (`mid/ir`) | use lists, pred/succ lists kept beside terminators | edits, verifier | all passes | the two copies of the edges drift apart | lists agree with terminators |
| **Front end, IR generation** (`src/frontend`, `mid/ir/irGen.cpp`) | AST, scopes; open block, branch targets, return slot | parse, validate, evaluate, one visitor per node | IR | blocks that are left early, conditions that are decided early, returns merged or not | the IR does what the source means |
| **Instruction selection** | DAGs | select, legalise, divide by constants | machine IR | numeric identities | same value |
| **Machine IR, pipeline, verifier** (`src/backend/machine_ir.cpp`, `machine_pipeline.cpp`, `machine_pass_manager.cpp`, `verifier.cpp`) | blocks, pred/succ lists beside the terminators, machine properties (SSA, PHIs, virtual registers, frame) | edits; a verifier after every pass | all machine passes | each pass works on what twenty others left; lists and terminators drift apart | the function does what was selected; lists agree; the verifier is content |
| **Machine optimisations, scheduler** (`pre_ra_optimizations.cpp`, `post_ra_optimizations.cpp`, `cfg_optimizations.cpp`, `scheduler.cpp`) | what is known in a block: constants, expressions, slots, flags, liveness | fold, sink, hoist, forward, reorder, place, relax | register allocation | flags and physical registers are read by calls and branches that do not name them; liveness computed once and used while copies disappear | same behaviour |
| **Register allocation, parallel copies** (`regalloc.cpp`, `live_range*.cpp`, `register_spilling.cpp`, `parallel_copy.cpp`) | interference graph, forbidden colours, live ranges, spill slots | colour, recolour, cut, spill, lower copies | machine IR | copies that are simultaneous made sequential; repairs that make new conflicts | same values in the right places; it ends |
| **Runtime library, archive, visualizer, tests** | | | | | not core logic |

The list of hazards, each with its line in the code and the properties aimed at it,
is in `PROJECT.json`.

## 2 Modules, and how they correspond to the code

| module | what it is | extends |
|---|---|---|
| `MachineInt` | two's complement ints of a scaled width, `srem`, how a range is split | |
| `ParallelFor` | abstract: what a caller of `__sysy_parallel_for` is promised | |
| `ParRuntime` | the runtime, instruction by instruction where order matters | `MachineInt`; instantiates `ParallelFor` |
| `ParRuntimeProofs` | theorems | `ParRuntime` |
| `ParOutline` | source loop and outlined loop side by side | `MachineInt` |
| `ParOutlineProofs` | theorems | `ParOutline` |
| `MemoTable` | a memoised function and its callers | |
| `MemoTableProofs` | theorems | `MemoTable` |
| `AnalysisManager` | caches, getters, invalidation | |
| `Passes` | each pass's driver as a record; the pipeline of `main.cpp` | `AnalysisManager` |
| `PassManager` | the run of the pipeline over the functions of a module | `Passes` |
| `PassManagerProofs` | theorems | `PassManager` |
| `ParallelCopy` | the ordering of one group of copies that happen at once, copy by copy | |
| `ParallelCopyProofs` | theorems | `ParallelCopy` |
| `MachineIR` | machine functions, their edits, the opcodes' flags, when the lists and the PHIs agree | |
| `MachineAnalysis` | dominators, loops, liveness, and `MachineVerifier`'s rules | `MachineIR` |
| `MachineExec` | what a machine function does when run (the processor; external) | `MachineIR` |
| `PreRA` | passes on virtual registers | `MachineAnalysis` |
| `PhiElimination` | the splitting of edges, one by one; PHIs and groups of copies around `ParallelCopy` | `MachineIR` |
| `PhiEliminationProofs` | theorems | `PhiElimination` |
| `MachineSchedule` | the list scheduler | `MachineAnalysis` |
| `RegAlloc` | one round of the graph colouring allocator | `MachineAnalysis` |
| `PostRA` | passes on physical registers, frame lowering | `MachineAnalysis` |
| `MachineLayout` | block placement, constants, branch relaxation | `MachineAnalysis` |
| `MachinePipeline` | `buildMachinePipeline`: the passes one after the other | all of these |
| `ScalarIR` | the IR: values, instructions, blocks with their lists, the edits | |
| `ScalarExec` | what a program in the IR does when run (external) | `ScalarIR` |
| `ScalarAnalysis` | orders, dominators, frontiers, loops; `Module::verify` | `ScalarIR` |
| `SourceTree` | the syntax tree, and what a source program means (external) | `ScalarExec` |
| `GenIR` | IR generation | `SourceTree` |
| `AliasAnalysis` | `BasicAliasAnalysis` | `ScalarAnalysis` |
| `CFGSimplify`, `Mem2Reg`, `CodePlacement` | passes named so; `CodePlacement`: code sinking, tail duplication, unified exits | `ScalarAnalysis` |
| `SCCP` | conditional constants | `CFGSimplify`, `ScalarExec` |
| `DeadCode`, `RedundancyElimination` | `deadCodeEliminate`, dead stores and late memory forwarding; EarlyCSE and GVN | `AliasAnalysis` |
| `Inlining` | `inlineExpand` and `globalScalarPromotion` | `AliasAnalysis`, `CFGSimplify` |
| `TailCalls` | `tailRecursionEliminate` and `tailCallOpt` | `Inlining` |
| `ScalarPipeline` | IR generation and the passes of `buildArm64Pipeline`, one after the other | all of these |
| `MC*` | values for the constants: for the pipelines, the programs to compile | their module |

`PROJECT.json` ("map") names the lines each definition stands for.

### ParRuntime

`kSysyParallelRuntimeAsm` is the reference; the C file beside it in `.proto` is read
as its documentation.  `mpc` and `wpc` say where a thread is between two points that
another thread can tell apart; `arg`, `target`, `seen` are the registers w20-w22 and
w19; the other variables carry the names of the words in memory.

AArch64 may make plain stores visible late and in any order.  `unposted` and
`unflushed` hold main's and the worker's plain stores that are not visible yet, and
a `Drain` step makes any one of them visible.  `stlr` waits until they are; `ldar`
loads are taken in order.  That is all of the memory model this code relies on: each
word has one writer, and readers reach it behind an acquire.

| action | code (`parallelRuntime.hpp`) |
|---|---|
| `Call` | 138-147: length, serial or split, `worker_started`/`worker_ok` |
| `GetMask`, `CloneWorker` | 204-240: affinity mask, main's pinning, clone succeeds or fails |
| `PostJob`, `DrainPosted`, `Release` | 149-159: three `str`, one `stlr` |
| `MainIterate`, `MainHalfDone`, `Join`, `ReturnSerial` | 160-201: body, spin on `done_seq` |
| `WorkerBind`, `TakeJob`, `WorkerIterate`, `DrainFlushed`, `FinishJob` | 86-110 |

An iteration is one step that counts in the history variable `runs`; bodies are
otherwise `ParOutline`'s subject.  `ParallelFor` is the promise: while a region is
open its iterations may run once each in any order, and it closes when all have.
`ParRuntime` implements it with the region open when `mpc # "app"`.

### ParOutline

`ParOutline` runs the source loop, and then on the same range what `transform` makes
of it.  A loop is described by what `matchShape` distinguishes: which block leaves it
(header, latch, or both in one), whether the exit compares the phi or its increment,
whether the effect comes before the exit test, and whether it is a store or a sum.
Instead of values, the model records how often each iteration's effect was applied:
two sums with the same terms are equal for all values of the terms, and addition
wraps, so that order does not matter.  For `% m` order does matter, and there the
terms are numbers: `terms` is one for each iteration, the accumulators of the
source loop and of both bodies are ints, and `MergedRem` is `createModuloPartialMerge`,
with its sum that may wrap.

### MemoTable

Each load and store of the table is a step.  The memoised function is the shape of
the repository's candidates: it calls itself on two smaller arguments and reads one
global.  A result is the argument with the value the global had, so that a stale or
foreign result differs from the right one.  A program is the path its run takes
through blocks that dominate each other in order, and `Frozen` is
`readsUnfrozenGlobal`.

### AnalysisManager, Passes, PassManager

An analysis is abstracted to "none", "current" or "stale"; `BasicAA` is the set of
functions it holds to be pure, because ParallelizeLoops' choice depends on that set.
A pass is a record read off its driver: what it asks for, which aspects of the IR it
edits (`values`, `cfg`, `effects`), what its `PreservedAnalyses` says, when it drops
analyses itself (`sync`), the loop form it requires and establishes, and whether it
reports a change always.  `buildArm64Pipeline` is the sequence built in `main.cpp`.

`PassManager` is `run`: `Begin` (with `ensureLoopForm`), then for each function `Ask`
and `Rewrite` or `Leave`, then `Finish` (`runSinglePass`'s invalidation, form and
change bookkeeping, and where `run` goes next).  `SkipGroup` is the early exit of a
fixed-point group on an IR nobody changed.

Simplifications, none of which adds behaviour to a pass:

- `form`, the form the loops really have, is one value for the module; a rewrite of
  edges may leave any weaker form, a rewrite of instructions may lose LCSSA.
- The bodies ParallelizeLoops creates are not added to `Funcs`.
- The pipeline always has AutoMemoization; the code adds it when a candidate exists.
- `GetFor` reaches the immediate callers and callees of a function, which in a
  module of two functions is all of them.  In larger ones RangeAnalysis goes on
  through its neighbours.
- `QueriesAreCurrent` speaks of the analyses of the function being rewritten.
  Module-wide purity during a pass is `SingleProducer`'s subject.
- Dumps, profiling and the IR verifier are left out.

### The machine function pipeline

`MachinePipeline` takes a selected function through the passes of
`buildMachinePipeline` at optimisation level 0 or 1.  A pass that works by itself is one
step, an operator from functions to functions (`Transformed`); the four that are not
are steps of their own:

| action | code |
|---|---|
| `RunPass` | one pass of `machine_pipeline.cpp:85-160`, `Transformed(pass, fn)`; not taken, so that the run ends in a deadlock, where branch relaxation would abort (`Relaxable`) |
| `NoPhis`, `SplitEdges` | `PhiElimination::run` up to line 82: leave at once, find the edges to split (`FindEdges`), split one (`SplitNext`, with its two aborts) |
| `EliminatePhis`, `TakeGroup` | what `PhiElimination::run` (84-117) and `PostRAParallelCopyResolver::run` (`parallel_copy.cpp`) do around a group: erase PHIs, take a run of grouped copies out |
| `StartGroup`, `OrderCopies`, `InsertCopies` | the ordering of one group (`ParallelCopy`: `EmitReady`, `SaveCycle`, `AbortOnCycle`) and where its copies go |
| `AllocateRound` | one round of `GraphColoringRegisterAllocator::run`: colouring, or cuts, or spills |
| `PlaceBlocks` | `MachineBlockPlacement`; which successor extends a chain is left open, so every order its cost function could choose is checked; the branches of each block are then rebuilt for its place (`CleanedBranches`, as the code does, also where that is wrong: section 4, item 3) |

`MachineIR` has one register bank of four allocatable registers (two for arguments,
three caller-saved), one width, words of two four-bit pieces, and branches that reach
a few instructions, so that spilling, callee-saved registers, `movk` and branch
relaxation are needed by functions of a few blocks.  The order of the allocator's
registers and which are saved follow `register_info.cpp`; forty opcodes are reduced to
one of each kind that the passes tell apart (commutable, tied, flag-setting,
flag-reading, load, store, call with implicit argument uses and clobbers, ...).

`MachineExec` is the other side: an interpreter for machine functions in any stage,
with virtual or physical registers, PHIs, groups of copies, spill slots or a frame.
What it observes of a run is each call with its arguments and memory at that moment,
the result, and whether the caller's registers came back.  Calls leave junk in
caller-saved registers and in the flags, so that a value kept there across a call is
seen.

`ParallelCopy` keeps `holds`, a history variable: of every register, whose value of
before the group it holds.  Its environment may start any group of virtual registers,
or one of physical registers that is `InOrder` (no copy writes what a later one
reads).  `MachinePipeline` is checked to implement that (`CopySpec`), which is where
the allocator's `GroupForbids` comes in: that allocation leaves only groups that need no
temporary is what `NeverAborts` and `CopySpec` show together.

`PhiElimination` is a specification of its own in the same way.  The edges are collected
first and split afterwards, each split changing the lists in which the others were found,
and the code aborts when an edge it has noted is gone.  `PhiSpec` lets the other passes do
what they like while the pass is not at work (`PassesAround`) but asks that the function
it is given is `Splittable`: lists without duplicates that agree with each other and with
the branches, PHIs first and with one value for each predecessor, and every block ended by
a branch, as instruction selection leaves it (`isel.cpp:655-660`, `2327-2363`).
`MachinePipeline` is checked to implement that too.

### The IR pipeline

`ScalarPipeline` starts from a syntax tree.  `GenerateIR` makes the program,
then `PassManager::run` goes through the pipeline of `main.cpp`:

| action | code |
|---|---|
| `GenerateIR` | `GenIR::visit(CompUnitAST)` with all visitors below it |
| `RunSinglePass` | `passManager.cpp:343-346` |
| `SkipGroup`, `BeginRound` | a fixed-point group is entered, or skipped when nothing changed since the last one (306-315) |
| `RunPassOfGroup`, `EndRound` | the passes of a round in order; another round if one of them changed something (321-340) |

A pass is an operator from functions (or programs) to functions; its definition follows
the pass's own steps (`CFGSimplify`: diamonds, constant branches, empty blocks,
unreachable blocks, linear merges, until nothing changes; `Mem2Reg`: array splitting,
three shortcuts, PHI placement, renaming; `InlineExpand`: its worklist of calls with the
budgets of recursive ones, the estimates that decide, and the clone; ...).  What the code
generator makes of a call marked `tail` (`selection_dag.cpp:617-638`) is part of
`ScalarExec`: the callee takes over the frame, and the objects in it are gone.

An IR function is a record of its blocks in layout order, each block's instructions, the
instructions themselves, and the *cached* lists of predecessors and successors
(`pre`, `succ`), which `AddEdge` and `RemoveEdge` change and the terminators do
not: a pass that edits one and not the other leaves a difference, as in the code.  Use
lists are derived (`Uses`).  Constants are numbers; where the code compares constants by
address (`SameValue`, `IsTrivial`) two of them are never the same.

`AliasAnalysis` follows `BasicAliasAnalysis` including what it loses (section 4).

Two definitions of meaning frame the pipeline: `SourceTree!Meaning` runs the syntax
tree, by the rules of the language, and `ScalarExec!Observed` runs the IR.  Both give
the numbers printed and the result of `main`.

## 3 What each run checks

State counts are distinct states on one machine; all runs are exhaustive.

**par_runtime** (88,628 states).  `FairSpec` of the runtime with 3-bit ints, two
bodies, six ranges (no, one, two, three and five iterations, and one whose length
wraps) and affinity masks of three and four processors.
`JobIsWhole`: the worker never runs words of two jobs, and the caller's live-ins are
visible to it.  `ReturnIsComplete`: at return each iteration ran once and the worker's
stores are visible.  `SpinnersApart`: with four processors the two
threads can run on different ones.  `PublishAfterCompletion`: a job follows a
completed one.  `KeepsPromise`: the runtime implements `ParallelFor`.
`EveryCallReturns`: no call hangs.  What that rests on is checked by itself, as
safety: `NeverWaitsInVain`, main spins on `done_seq` only for a worker that exists,
whatever `clone` returned, and has the job still to take or to finish, and `ReturnComesNearer`, every step of either thread and of
the store buffers lowers `StepsLeft`, a bound of the steps the call has still to take.
*Bounds.*  `job_seq` wraps after eight jobs, so no bound on the number of calls is
needed and wrap-around is reached from every situation; ranges are the smallest that
are serial, even, uneven and wrapping.  `LengthAssumption` keeps empty ranges within
the width (see section 4).

**par_outline** (997,764 states).  Source loop and outlined loop for the shapes that
are treated rightly: `while`, `do while` with a latch of its own, inclusive `do while`
sums, one-block stores, and sums modulo a constant (`%` in the loop, or behind it;
added or subtracted); all splits and interleavings, one range after another so
that slots hold old values.  `IterationsMatch`: the same stores, each as often.
`ResultsMatch`: the merged sum has the source sum's terms.  `ModuloMatches`: the merged
remainder is the source loop's.  `SlotsApart`: two threads never share a slot.
`TypeOK` says that the parts' results are remainders in every iteration, which the
merge relies on.
*Bounds.*  Ranges are the shortest on either side of the threshold and uneven; ints
reach 7 and the modulus is 5, so that two remainders add up to more than an int.  Terms
have one sign, and a remainder plus a term is an int: a source loop in which that sum
overflows has no defined result to compare with.

**par_outline_one_block** (violation).  The same for a reduction whose header and
latch are one block; `ResultsMatch` fails (section 4).

**par_outline_modulo_signed** (violation).  Terms of both signs; `ModuloMatches` fails
(section 4).

**memo_table** (3,354 states).  One thread calls, and a parallel loop calls where the
function is refused; dense table of 3, hash table of 2 slots, arguments -1 .. 3, so
that one is negative, one is beyond the dense table, and several collide in the hash
table.  `CallsReturnValue`: each call returns the value for its argument and the
present global.  `ComputedOnce`: the dense table saves what it is meant to save.
`TypeOK` includes that a valid hash slot holds a key that belongs there.

**memo_parallel** (violation).  Section 4.

**pass_manager** (112,901 states).  The whole pipeline of `main.cpp`, on a module of
two functions, `main` calling `f`, with any two rewrites in any passes and functions
(`MaxChanges = 2`: one that outdates, and one that relies on what was outdated) from
any initial loop form and purity.  `NoDangling`: no analysis outlives one it points
to.  `QueriesAreCurrent`: what a pass is given describes the function as it is, also
after its own rewrites.  `CacheIsCurrent`: what is handed from pass to pass describes
the IR, and BasicAA's pure functions are pure.  `RequiredFormHolds`: a pass that
requires a form starts on loops that have it.  `GroupsAreFixedPoints`: a group is left
only when each of its passes has left the IR, as it now is, alone.  `PipelineEnds`:
no group goes round for ever once rewrites have stopped (a pass that always reports a
change must not be in one; `GroupsAssumption`).  `RunComesNearer` says the same as safety:
a step that rewrites nothing comes to a later stage, to a round that nothing has changed
yet, to a later pass, or nearer the end of this one, with the passes that make its loop
form.  That rewrites stop is an assumption: termination of the rewrite system itself is
not modelled.

**nested_producer** (violation).  The same pipeline, `SingleProducer` (section 4).

**machine_pipeline** (656 states).  Eleven functions through the whole pipeline, five of
them at both levels, each run on three inputs.  `BehavesAsSelected`: after every pass
and every round of the allocator the function makes the same calls with the same
arguments and memory, has the same result, and restores its caller's registers.
`VerifiedBetweenPasses`: the verifier that runs after every pass finds nothing.
`EdgesMatchTerminators`: the lists of successors, from which liveness and placement
are computed, say what the terminators say.  `GroupIsSimultaneous`, `NeverAborts`: the
copies of a group, one after the other, do what they do at once, and no cycle of
physical registers is met.  `AllocationEnds`: the rounds suffice, and no temporary of
a spill is spilled.  `OrderingEnds`: each step of the ordering emits a copy or saves a
register that was read and written and is not any more.  `GraphStaysWhole`: every edge into
a PHI that was found is still one, and still a branch, when it is to be split
(`EdgesStay`), and after every single split the lists, the branches and the PHIs describe
one graph.
`CopiesRunOnTheirEdge`: when the last is split, a block that a PHI's value comes from leads
to that PHI's block only.  `PhiSpec`: the passes before PHI elimination hand it functions
that are `Splittable`, so that the theorems of section 5 hold for what it does with them.
`CopySpec`: the groups the pipeline hands to the resolver are
those `ParallelCopy` allows, so the theorems of section 5 hold for them.
*Bounds.*  The functions are chosen so that every action, repair and rewrite happens:
swapped PHIs in a loop that leaves at its latch (a cycle that needs a temporary and an
edge that must be split), a branch both of whose edges, and one more into the same block,
must be split (`Twins`), arguments handed on in another order, more values across
calls and in a leaf than registers, ranges that are cut rather than spilled, constants
of two pieces and of negative sign, masks with one bit and with two, addresses that
overlap, flags used late.  There are no PHIs at level 0, where variables stay in memory.
A run is cut off after 256 instructions, which none needs (`RunsEnd`).  The number of
states is small because a sequential compiler has few choices; what is large is what
each state is compared on.

**last_bit_test** (violation).  The same pipeline on one function, whose last block in the
layout tests a bit; `EdgesMatchTerminators` fails after block placement (section 4).

**scalar_pipeline** (16,124 states).  272 programs through IR generation and the
pipeline, each run on three inputs.  `BehavesAsWritten`: after IR generation and after
every pass, the program prints and returns what the source program means.
`VerifiedBetweenPasses`: the verifier of the IR finds nothing after any pass, which
includes that the edge lists say what the terminators say.  `GroupsShrink`: a pass that
changes the program inside a fixed-point group makes it smaller, so that no group goes
round for ever.
*Bounds.*  Twelve programs are written for a family of passes each (conditions that are
decided early, arrays that are split, globals written back, recursion, constants that
decide branches, values that meet, two names of one array, calls that end a function, bodies worth a
call's place, ...); 260 more combine
every pair of ten statements and three exits, plain and conditional, in a loop: loads,
stores and calls that may or may not touch the same memory.  Every modelled
pass changes some program.  Ints have four bits.  A run is cut off after 1024
instructions, which none needs (`ProgramsDefined` says that the sources end and do
nothing undefined; an IR program that ran on would differ).

**tail_recursion_unwinding** (violation).  The same pipeline on one program
(section 4).

Deadlock is checked in the four runs whose systems go on (par_runtime,
par_outline) or must reach their end (machine_pipeline, scalar_pipeline).  The others
are programs that end.

Every property of a passing run has a mutant in `PROJECT.json`: a plausible slip in
the code (a `str` for a `stlr`, a dropped reset, a purity set kept too long, ...)
with which TLC finds that property violated.

## 4 Disagreements between code and documentation

Each of these has a run, and each was also seen in what the compiler, built from this
tree, makes of a program like the run's (its IR, or what the binary prints).

1. *One-block reductions lose terms* (`par_outline_one_block`).
   `parallelizeLoops.cpp:1302-1310` takes the phi as partial result whenever the loop
   exits from its header.  Where LoopRotate has turned the loop, header and latch are one
   block and the exit comes after the update, so the last term of each part is missing.
   LoopRotate leaves a loop alone whose counter starts at a constant zero
   (`loopRotate.cpp:339`); one that starts at `k` is enough.
2. *Remainders of terms with both signs* (`par_outline_modulo_signed`).  `srem` keeps the
   dividend's sign, so splitting can change the result by the modulus;
   `isAllowedReductionTerm` does not ask for the sign.
3. *A bit test at the end of the layout* (`last_bit_test`).  Block placement's clean-up
   looks for a conditional branch to the next block before a `B`.  For TBZ and TBNZ it
   notes no target, the last block has no next one, and the two nulls compare equal
   (`cfg_optimizations.cpp:496-509`): the test is inverted onto the target of `B`, `B` is
   erased, and the edge to the test's own target is lost.  Ordinary programs get there:
   `int f(int a, int b) { if (a < b) { if (a % 2 != 0) return 7; } else putint(a);
   putint(b); return 7; }` ends in `tbz w9, #0, .Lf_bb3`, with nothing behind it.  In the
   run's function one order of blocks shows it, and it is the one that `extendChain`'s
   scores choose.  The functions of `machine_pipeline` have no block that tests a bit
   last in any order.
4. *Memoised functions in parallel loops* (`memo_parallel`).  ParallelizeLoops runs
   before AutoMemoization, accepts a loop that calls a pure function, and the function
   becomes a table user; the flag of the dense table is stored before the value, under
   a comment that relies on one thread.
5. *Workers that produce* (`nested_producer`).  Purity is computed before the first
   rewrite and kept by `AM.clear(func)`, so a loop may be outlined that calls a function
   which was itself given a `__sysy_parallel_for`.  The runtime's comment says the
   producer is one thread.  The model shows the nesting in the IR; what two producers
   do to the job words is not composed with it yet.

6. *Calls that are not the last thing* (`tail_recursion_unwinding`).  `isPattern2TailCall`
   (`tailRecursionEliminate.cpp:46-78`, `tailCallOpt.cpp:36-64` alike) takes a call followed
   by a jump for a tail call if the target's terminator is a return.  The comments speak of
   a block that *only* returns (`tailCallOpt.cpp:12-13`) and say that what stands behind a
   recursive call "execute[s] while unwinding and cannot be discarded"
   (`tailRecursionEliminate.cpp:49-53`), but nothing asks what else is in that block:
   `void show(int n) { if (0 < n) show(n - 1); putint(n); }` prints one number.

Others met while modelling, without a run; the programs and functions of the passing
runs keep away from them:

- *The sign of a named constant.*  `visit(UnaryExprAST)` negates a constant in place
  (`irGen.cpp:1571-1572`), and the name of a global constant is bound to that object (680):
  after `const int N = 5; const int M = -N;`, `N` is -5.  Modelled as it is
  (`VisitConst`).
- *Offsets of callee effects.*  `getCallModRef` replaces an effect on `p[1]` by the
  actual of `p` (`basicAliasAnalysis.cpp:401-405`).  The comment there calls that
  conservative; but the actual alone is offset 0, and a query for `a[1]` is answered
  NoAlias.  EarlyCSE then forwards the value of before the call.  Modelled as it is
  (`CallModRef`); programs index array parameters with 0 or a variable.
- *Swapped arguments in recursion.*  `computeFunctionSummary` (240-323) maps a recursive
  call's effects to its own formals once only; a function that calls itself with a
  global for its formal hides the write.
- *Stores that write back around a loop.*  `isRedundantStore`
  (`deadStoreEliminate.cpp:150-201`) looks only at what stands before the store in its
  block, and when load and store are in a loop, not at what comes after it in the round
  before.
- *PHIs with one entry.*  `convertDiamondsToSelect` ignores PHIs in an arm; one that a
  pass left there with a single entry would be used without being cloned.
- *One block as both targets.*  `replaceBranchWithUncond` and its callers drop the
  PHI entries of the target that is not taken, also when it is the one that is.
- *A result of a call that is coloured over.*  The comment at `regalloc.cpp:464` speaks
  of this case: after scheduling, the copy of a call's result may come late, and nothing
  may be coloured so that it overwrites the physical register before.  The code
  (469) forbids the colour to what is live *at* that copy.  A value whose range
  lies between the call and the copy ends before it and gets x0; the copy then takes the
  wrong value.  The functions of `machine_pipeline` need their results earlier.
- *Arrays lent to a tail call.*  Neither pass of item 6 asks whether an argument of the
  call points into the frame that the call takes over.  `LentFrame` in `MCScalarPipeline`
  is such a program; as the run's only case it violates `BehavesAsWritten`, and the
  compiler makes one array of all the activations' arrays.
- *A value used where it is not computed.*  An edge that JumpThreadingLite leads round a
  block goes round the comparison in it too.  The uses of the block's PHIs are checked
  (`jumpThreadingLite.cpp:327-338`), those of the comparison are not: a second `if` on the
  same condition is then reached without it, and `--verify-ir` stops the compiler.
- *Weight of a small recursive function.*  `InlineExpand::weighInstruction` weighs a call
  of a function of at most six instructions by its body (`inlineExpand.cpp:132-146`),
  which never ends for one that calls itself.  The recursive functions of
  `scalar_pipeline` are larger, or have become loops before.
- *Stores between memoised calls.*  `readsUnfrozenGlobal` (`autoMemoization.cpp:250`) uses
  block dominance, which is reflexive and says nothing about loops:
  `G=1; f(3); G=2; f(3);` is memoised, and the second call returns the first value, although
  the comment at 214-215 says that all stores come before the first call.  The programs
  `StoreBetweenCalls` in `MCMemoTable`, as `memo_table`'s only ones, violate
  `CallsReturnValue`.
- Stores of `getarray` and through pointer parameters are not seen by
  `readsUnfrozenGlobal` (the operation `hidden` of `MemoTable`, `HiddenStore` in its MC
  module), and the hash table is not safe in two threads either.
- An inclusive *store* loop (`while (1) { A[i] = ..; if (i < n) ..}`, `InclusiveStore`)
  gets no shortened bound: the midpoint is run by both halves, harmless as long as the
  store is idempotent.
- `hi - lo` is computed in 32 bits: an empty range whose ends are more than 2^31 apart
  (`FarRanges` in `MCParOutline`) looks long, is split round a midpoint that wrapped, and
  the worker runs iterations the source loop does not have.
- The assembly binds main to the third and the worker to the fourth allowed processor
  (`parallelRuntime.hpp:216`, `88`), the C text to the first and second
  (`.proto/par_runtime_only.c:34,58`): with exactly three, the worker
  inherits main's one processor and keeps it, and the two spin on each other there
  (calls still return, only slowly); with fewer nobody is bound.
- Group skipping ignores what LoopSimplify and LCSSA changed when `ensureLoopForm` ran
  them (`passManager.cpp:292-351`, header `passManager.hpp:34-35`).
- `machine_pipeline.cpp:115-116` says that cycles of copies are broken with a temporary
  register; `parallel_copy.cpp:227` aborts on one after allocation.  Allocation leaves
  none in the checked functions (`NeverAborts`), and a group without one is never aborted on
  (section 5).
- `AArch64ConditionOptimizer` erases the comparison of a materialised condition after it
  has rewritten the selects that follow (`pre_ra_optimizations.cpp:1303`), also when
  another reader of its flags comes after those selects.  Selection gives each comparison
  one reader.
- `AArch64ExactHalvingLoopOptimizer` does not check that the loop's variables are unused
  behind the loop, where they would have the value before the halvings it has batched.

## 5 What is proved

TLAPS checks the theorems for all values of the constants under their named
assumptions; TLC evaluates these assumptions in the runs.

**ParRuntimeProofs** — for every int width, every set of bodies, ranges and masks, and
any number of calls: `TypeCorrect`, `JobsAreWhole`, `ReturnsAreComplete`,
`PublishedJobsHaveWorker`, `PublishesAfterCompletion`, `RuntimeKeepsPromise`
(refinement of `ParallelFor`), `SpinnersHaveACpuEach`, `MainNeverWaitsInVain` and
`ReturnsComeNearer`.  Assumptions: `IntMax` is a
natural number, ranges are pairs of ints, `LengthAssumption`, and that an affinity mask
is a finite set of processor numbers (`MasksAssumption`).

None of the properties is inductive.  That the job is whole while the worker runs
needs that the sequence numbers tell whose turn it is, so the invariant `IInv`
describes the *phases* of a region: outside the fork the worker idles and all numbers
agree (`IdleOutside`); before the release each word of the job is pending or already
right (`PostedJob`); inside, the job is published, being run, or finished, with
`seen`, `job_seq`, `done_seq` in one of three patterns (`Fork`).  The patterns are
distinct because `Inc(n) # n`, also where the number wraps (`IncFacts`), which is all
the proof uses about numbers.  `RunsExact` says which iterations have run as a function
of the phase and both positions; with the arithmetic of the midpoint (`MidFacts`:
the halves are non-empty, disjoint and cover the range) it gives completeness at
return and the refinement.  `CpuInv` follows the affinity masks: main is bound once, the
worker inherits that and binds itself before its first look at `job_seq`; a mask of four
processors has a third and a fourth one (`FourCpus`), and they differ.

The last two theorems are what `EveryCallReturns` says, short of fairness: while a call is
under way `StepsLeft` is a natural number that every step lowers, and where the caller
waits, the thread it waits for has a step to take.  The measure counts an iteration of
the worker twice, as it is run and its store becomes visible, and so the whole range until
the job is published; each phase of the caller has room for the stores it leaves in
its buffer, and the worker's share starts with the publication.  `MainComesNearer`,
`CloneComesNearer`, `WorkerComesNearer` and `DrainComesNearer` are the four kinds of steps.

**PassManagerProofs** — for every module, call graph and *every pipeline* of pass
records that satisfies `SoundnessAssumption`: `TypeCorrect`, `NothingDangles`,
`CacheStaysCurrent`, `AnswersAreCurrent`, `FormsAreThere`, `GroupsEndInFixedPoints` and,
with `GroupsAssumption` (no pass of a group reports a change it has not made),
`RunsComeNearer`.
`SoundnessAssumption` says of each pass that what it declares preserved is not described
by what it edits, that one which adds effects does not keep BasicAA, and that one which
establishes LCSSA requires a form and edits no edges.  That is a check on each pass by
itself; the theorems say that nothing else is needed for the manager to be right.  TLC
evaluates the assumption on the real pipeline.

`IInv` adds to the properties why they hold across the pass: what is stale while a
pass runs is what that pass edits (`StaleIsDeclared`, so invalidation with a sound
declaration removes it); functions still to be visited are untouched
(`RestIsCurrent`); BasicAA can be wrong only in a pass that adds effects
(`PurityIsDeclared`); the form taken for granted is a lower bound of the form that is
there (`FormIsTrue`); and in a round without changes so far, only passes from the
present position on still have to look at the IR (`RoundIsSettled`).

`RunsComeNearer` is the termination argument: a lexicographic measure of stage, whether
the round has changed something, pass, and steps within the pass, where a pass that needs
a loop form is charged for the helpers that make it, and a helper for its own
(`HelperComesNearer`).  The form a helper establishes is there afterwards, so it is not
run again for the same pass.

**ParallelCopyProofs** — for groups of any size and any number of registers:
`Simultaneous` (`CopySpec => []GroupIsSimultaneous`), `ResolverNeverAborts` and
`OrderingsEnd`.  The
invariant is a disjunction, because the code orders two kinds of groups for different
reasons.  `VirtualInv`: of virtual registers, destinations are distinct
(`MachineVerifier`'s rule, `Apart`), each pending copy still finds its value in its
source (`PendingGoals`), each destination that is no longer pending already holds its
value (`DoneGoals`), and temporaries are new, so a cycle can always be broken.
`OrderedInv`: of physical registers, the group is emitted from its front, so that what
is pending is its end (`Emitted`), every register holds what its last writer so far
copied (`HeldAfter`), and the first pending copy is always ready.  `OrderingsEnd` needs the
pigeon-hole principle: when no copy is ready, the registers that are written are all read,
there are as many of them as copies, so none is read that is not written; the register
that is saved is therefore one that was both, and what replaces it in the sources is new.
That the environment
keeps to `IsGroup` is what the run `machine_pipeline` checks of the pipeline.

**PhiEliminationProofs** — for functions with any number of blocks, instructions and PHIs:
`PhiSplitting`, `EdgesNeverGo`, `OneGraphRemains` and `CopiesOnTheirEdge`.  The invariant
(`Splitting`) is that the function is `Splittable`, what is left to split are edges of it,
and every edge that must be split is among them.  The last part is what makes one pass over
a list collected beforehand enough: a split takes one edge from the set and adds none, as
the number of successors of the old blocks stays and the new one has a single
successor (`NoNewEdges`); the second part is that no split disturbs the other edges
(`OtherEdgesStay`), and with the first, that an edge is a branch (`EdgesAreBranches`).
`SplitFacts` follows `SplitEdge` through the six lists it changes; `ListsStayInStep`,
`BranchesStayInStep`, `PhisStayFirst` and `BlocksStayClosed` say that the parts of
`Splittable` survive.  The hypothesis, that the pass is given a `Splittable` function, is
part of `PhiSpec`, which the run `machine_pipeline` checks of the pipeline.

**ParOutlineProofs** — for every int width, every set of loops and ranges, every value
of the terms and any number of activations one after another.  Unconditional:
`TypeCorrect`, which includes that the parts' results are remainders at every time, and
`SlotsNeverShared`, also where the computed length of a range has wrapped.  Under
`SoundLoops`: `OutlinedStoresMatch` and `OutlinedSumsMatch`.  Under `SoundLoops` and
`TermsFit`: `OutlinedModuloMatches`.  These hypotheses say where the transformation is
right; outside them it is not, or no result is defined:

- `SplitsWell` (in `SoundLoops`) lists the shapes whose two parts join.  Left out are the
  reduction in one block (the finding `par_outline_one_block`) and the inclusive store
  (`InclusiveStore`, section 4), which the code splits wrongly or overlapping, and shapes
  that the theorems do not treat, among them a header that compares the *increment*
  (`while (i + 1 < n)`).  `matchShape` would accept that one, and its split would drop the
  iteration before the midpoint; four programs written to reach this did not get there
  with the built compiler, as earlier passes rewrite such a loop.
- A range whose length wraps to a positive number (also in `SoundLoops`) is split although it
  is empty: the same arithmetic as `LengthAssumption`.
- `TermsFit`: the terms have one sign (the finding `par_outline_modulo_signed`), and a
  remainder plus a term is an int, without which the source loop itself overflows.

TLC evaluates `SplitsWell` and the lengths for the cases of the passing run
(`SoundAssumption`), so the theorems' hypotheses hold there.  The proof is
in three layers.  `Layout` says who works on what: each thread's bound and slot, and which
threads are in the fork (`Division`, `Given`).  `EffectsInv` adds which iterations each has
run: a counter that comes from `lo` and is at `i` has run the iterations it `Passed`.  That
interval is circular, since the counter of a loop that runs to the last int wraps on its
way (`OnTrack`).  The whole of a range that is split is the disjoint union of its two parts
(`PartsJoin` and the lemmas around `FirstPart`), with the inclusive sum's first part ending
one iteration early.  `SumsInv` is for remainders, where order matters: it states that
there *is* a function of the true, unwrapped sums through each iteration, all of one sign,
of which each accumulator holds the remainder of a difference; `MergedRem` is then shown to
be the remainder of the sum of two differences also where its own addition wraps.

**MemoTableProofs** — for every program, argument set, both layouts and any table size.
Unconditional: `TypeCorrect`, where the type of the hash table includes that a valid slot
holds a key that belongs there; the strengthening is `WellPlaced` (an activation behind the
bounds check has an argument within them).  Under `OneCaller`: `ComputedAtMostOnce`.  Under
`OneCaller` and `StoresFirst`: `MemoisedCallsMatch`.  The hypotheses are about the
programs `Frozen` admits: one thread calls, and every store of the global is executed
before the first call.  That is what the comments at `autoMemoization.cpp:214-215` and
`430-431` take for granted, and the programs `StoreBetweenCalls` and the finding
`memo_parallel` (section 4) show that the code does not ensure it; the theorems say that nothing else is missing.
TLC evaluates both for the admitted program of the passing run (`ServedAssumption`).

`ValueInv` is about the whole stack of recursive activations, not its top: each frame's
results so far are right for its own smaller arguments (`Fits`, `Right`), and a frame
that is not on top waits for the next result in order (`Waits`).  A valid slot holds
the value of its own key, except while a fill stands between its stores (`Writing`), and
that thread does not read in between; what the top frame knows from its lookup stays
true until it uses it (`TopKnows`).  `OnceInv` is the argument why the dense table is
filled once: arguments decrease down the stack, so that the argument whose lookup missed
is in no other activation, and `computed` exceeds the valid flags only for the one frame
that is about to store (`Marked`, `BodiesFresh`).  It does not need `StoresFirst`.

**Model-checked only.**  `EveryCallReturns` and `PipelineEnds`: liveness is out of the
prover's reach, and what is proved is the safety part of the argument
(`ReturnsComeNearer`, `MainNeverWaitsInVain`, `RunsComeNearer`).  That the pipeline
implements `CopySpec` and `PhiSpec`, and the invariants of `MachinePipeline` and
`ScalarPipeline` themselves (their `TypeOK`s, `BehavesAsSelected`, `BehavesAsWritten`,
`VerifiedBetweenPasses`, `EdgesMatchTerminators`, `AllocationEnds`): they speak of what a
whole program does when it is run, or of what several passes compute, and interpreters,
dominators and the passes' fixed points are recursive operators, about which nothing can
be proved by induction here.  For the same reason the erasure of PHIs (`EraseAllPhis`, a
filter over the concatenated blocks) stays out of `PhiEliminationProofs`: its theorems end
where the last edge is split.

## 6 Fairness

`ParRuntime!Fairness` is weak fairness of main's steps, the worker's steps and the
store buffers.  Each thread spins without yielding or blocking and the kernel
preempts, so each takes steps again and again even on one processor; a store becomes
visible in finite time.  `Call` is not fair: the program may stop calling.  Main's
`MainStep` is one disjunction, as a thread is at one place at a time.  No strong
fairness is needed.

`PassManager!FairSpec` is `WF_vars(Next)`: a sequential program takes its next step.

The other specifications state safety only.  `MachinePipeline` has no fairness: that it
comes to its end is checked as the absence of deadlock together with `AllocationEnds`, as
every step but the allocator's goes on in a finite list.  Likewise `ScalarPipeline`: its
only loop is the fixed-point group, and `GroupsShrink` bounds that.

## 7 What is not modelled

- What the loop passes, InstCombine and the remaining scalar passes (Reassociate,
  CorrelatedValuePropagation, JumpThreadingLite, PhiOpSink, IfConversion, LateValueCleanup,
  the vectorisers) compute: in `Passes`
  a rewrite of theirs is "edits these aspects", and `ScalarPipeline` goes on without
  them.  The programs that reach the later scalar passes are therefore those the earlier
  ones leave, without rotated or unrolled loops.
- Of the scalar pipeline: floats, vectors, arrays of more than one dimension and of more
  than 256 elements (which are cleared by a loop), strings, timers and tensors; pointers
  in PHIs and selects (they arise only in passes that are left out); the flags for
  immutable loads and for library functions without effects; roots for the bodies of
  parallel loops.  `CFGSimplify`'s `hoistLoopInvariantBranch` is disabled in the code.
  Analyses are computed anew by each pass: which ones may be kept is `PassManager`'s
  subject.  A pass "changed" the program if the program differs; what passes report is
  `PassManager`'s subject as well.
- ParallelizeLoops' dependence tests and privatised arrays: `ParOutline` starts from a
  loop whose iterations are independent.  Live-ins are the `data` store of `ParRuntime`.
- AutoMemoization's choice of candidates by profit.
- Of the machine passes: vector immediates, load and store pairing, the SSA local sink,
  the folders of addresses, exact halving and the balancing of float sums.  Of the frame:
  the record with the return address, call-frame pseudos for stack arguments, adjustments
  of SP beyond an immediate, pairing of saves.  One bank of registers of one width.
- Of the allocator: mandatory ties and early clobbers (`regalloc.cpp:118-134`, `240-265`,
  `384-387`, `397-414`, `483-503`).  Selection marks a tied use as killed, or a definition as
  early clobber, only in vector selects and vector remainders (`isel.cpp:460`, `1706`,
  `1897`).  Ordinary ties, which may be repaired by a copy, are there (`INSv4i32`:
  `TiedTo`, the edges of `Interference`, `FinalizeTiedOperands`).
- The profitability models, lexer, parser and validation, instruction selection, assembly
  formatting: sequential code without state between calls; tests reach it.
- `lib/` (I/O and timers), `archive/` (not built), `visualizer/`.
- Floats.  The accumulators the code accepts are 32-bit ints (`parallelizeLoops.cpp:690`).
- RangeAnalysis and InstCombine: a neighbour's range analysis may be built from
  ScalarEvolution and LoopInfo cached before InstCombine's first rewrite; see the hazard
  with its note.

## 8 Plan

What is left, in this order.  Modules are written to be proved about: constants with
named assumptions, an action per operation, no recursive operators.

1. InstCombine and the loop passes (LoopSimplify, LCSSA, rotation, invariants, unrolling)
   as operators in `ScalarPipeline`, at their places in the pipeline.
2. `IntAlgebra`: division by constants on scaled widths.
3. Dominators and loops of `ScalarAnalysis` against the path definitions.
4. `RangeAnalysis`: pending return ranges in recursive call graphs; `SCCP`'s lattice:
   monotone, ends, and sound.
5. `Dependence`: the subscript tests against enumeration of iterations.
6. Composition of `ParOutline` with `ParRuntime` (bodies that the runtime runs, wrapped
   empty ranges, two producers), a run for group skipping.
7. Proofs: other passes that edit the graph step by step, as `PhiElimination` is now
   (threading and relaxation in `MachineLayout`, the edits of `ScalarIR`), so that
   `EdgesMatchTerminators` can be proved of them; the copies of `CopiesAtEnd` composed with
   `ParallelCopy`.

Runs that ask the same question of small algorithms will share a configuration, so
that the number of runs stays readable.
