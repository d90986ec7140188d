----------------------------- MODULE ParOutline -----------------------------
(***************************************************************************)
(* What ParallelizeLoops makes of a counted loop: the loop's blocks become *)
(* __sysy_par_body_<id>(lo, hi) and the loop is replaced by a block that   *)
(* fills the __sysy_par_* globals, calls __sysy_parallel_for and merges the *)
(* two partial results.  The source loop and the outlined one are run side *)
(* by side on the same input; the body is run by one thread or, split at   *)
(* the midpoint, by two (ParRuntime says that nothing else can happen).    *)
(*                                                                         *)
(* An iteration has one effect: it stores to the cell its index selects,   *)
(* or adds its term to the accumulator.  Stores and sums are recorded as   *)
(* how often the effect of each iteration has been applied, so that one    *)
(* behaviour stands for all values of the array elements and terms.  Of a  *)
(* sum modulo a constant the values matter: the terms are chosen as the    *)
(* source loop runs, and the accumulators are ints.                        *)
(***************************************************************************)
EXTENDS MachineInt

CONSTANTS
  Cases,    \* the loops: what matchShape accepts, and what their body does
  Ranges,   \* for each of them, the <<init, bound>> pairs
  Modulus,  \* m, a positive constant of the program
  Terms     \* what an iteration may add to a sum modulo m

\* A loop is described by the block with its exit condition (the header, the
\* latch, or a block that is both), by what the condition compares with the
\* bound (the induction phi or phi + 1), by whether the effect comes before
\* the condition or after it, and by the effect.  A sum modulo m has its % in every
\* iteration (inline: s = (s + t) % m) or behind the loop (liveout), and a + or a -.
Kinds == {"store", "sum", "inline", "liveout"}
Shapes == [exiting : {"header", "latch", "both"}, lhs : {"phi", "next"},
           effect : {"before", "after"}, kind : Kinds, sub : BOOLEAN]

ASSUME CasesAssumption == Cases \subseteq Shapes
ASSUME RangesAssumption == Ranges \in [Cases -> SUBSET (Int32 \X Int32)]
ASSUME ModulusAssumption == Modulus \in 1 .. IntMax
ASSUME TermsAssumption == Terms \subseteq Int32 /\ 0 \in Terms

VARIABLES
  loop,         \* the loop at hand
  range,        \* its <<init, bound>> in this execution
  terms,        \* what its iterations add to a sum modulo m
  pc,           \* "enter", "source", "call", "body" or "done"
  proc,         \* the activations of the loop: the source's, main's, worker's
  cells,        \* stores applied by the source loop and by the outlined one
  result,       \* the live-out accumulator of each of the two
  scalar_start, scalar_bound, scalar_partial

vars == <<loop, range, terms, pc, proc, cells, result,
          scalar_start, scalar_bound, scalar_partial>>

None == [k \in Int32 |-> 0]
Once(f, k) == [f EXCEPT ![k] = @ + 1]
Sum(f, g) == [k \in Int32 |-> f[k] + g[k]]

Reduces == loop.kind # "store"
IsModulo == loop.kind \in {"inline", "liveout"}
Zero == IF IsModulo THEN 0 ELSE None

Threads == {"source", "main", "worker"}
Sides == {"source", "outlined"}
Idle == [at |-> "idle", i |-> 0, bound |-> 0, acc |-> Zero, slot |-> 0]
Entering(lo, hi) == [Idle EXCEPT !.at = "entry", !.i = lo, !.bound = hi]

Init ==
  /\ loop \in Cases /\ range = <<0, 0>> /\ terms = None /\ pc = "enter"
  /\ proc = [t \in Threads |-> Idle]
  /\ cells = [side \in Sides |-> None]
  /\ result = [side \in Sides |-> Zero]
  /\ scalar_start = 0 /\ scalar_bound = 0
  /\ scalar_partial = [s \in {0, 1} |-> Zero]

\* Line 595: the condition in the latch compares the phi itself, so the last
\* iteration is the one whose index equals the bound.
latchComparesIV == loop.exiting \in {"latch", "both"} /\ loop.lhs = "phi"

\* The program reaches the loop (again): the source loop runs first.
Enter(r) ==
  /\ pc \in {"enter", "done"}
  /\ range' = r /\ terms' = None
  /\ pc' = "source"
  /\ proc' = [proc EXCEPT !["source"] = [Entering(r[1], r[2]) EXCEPT !.at = "loop"]]
  /\ cells' = [side \in Sides |-> None]
  /\ UNCHANGED <<loop, result, scalar_start, scalar_bound, scalar_partial>>

-----------------------------------------------------------------------------
(* One pass through the loop's blocks, shared by the source loop and the   *)
(* outlined one: only the bound and the entry edge differ.                 *)

Stays(a) ==
  (IF loop.lhs = "phi" THEN a.i ELSE Wrap(a.i + 1)) < a.bound

\* Whether this pass applies the effect of iteration a.i.
Applies(a) == loop.effect = "before" \/ Stays(a)

\* The accumulator with the term t, or without it.
Update(acc, t) == IF loop.sub THEN acc - t ELSE acc + t

\* The accumulator after this pass, its remainder taken in the loop or not.
Updated(a, t, inLoop) ==
  IF ~Reduces \/ ~Applies(a) THEN a.acc
  ELSE IF loop.kind = "sum" THEN Once(a.acc, a.i)
  ELSE IF inLoop THEN SRem(Wrap(Update(a.acc, t)), Modulus) ELSE Wrap(Update(a.acc, t))
SourceUpdate(a, t) == Updated(a, t, loop.kind = "inline")

\* Lines 1163-1177: a live-out modulo is pulled into the outlined loop.
BodyUpdate_plain(a) == Updated(a, terms[a.i], loop.kind = "inline")
BodyUpdate(a) == Updated(a, terms[a.i], TRUE)

Advanced(a, acc) ==
  IF Stays(a) THEN [a EXCEPT !.i = Wrap(@ + 1), !.acc = acc]
  ELSE [a EXCEPT !.at = "idle", !.acc = acc]

\* Lines 1299-1312: the value the return block stores in the thread's slot.
PartialValue(a) == IF loop.exiting \in {"header", "both"} THEN a.acc ELSE BodyUpdate(a)

Stored(side, a) ==
  IF loop.kind = "store" /\ Applies(a)
  THEN [cells EXCEPT ![side] = Once(@, a.i)] ELSE cells

\* What this pass may add: the source loop's sum stays within the ints.
Addends(a) ==
  IF IsModulo /\ Applies(a) THEN {t \in Terms : Update(a.acc, t) \in Int32} ELSE {0}

\* What the program sees of the source loop's accumulator.
LiveOut(acc) == IF loop.kind = "liveout" THEN SRem(acc, Modulus) ELSE acc

\* The source loop, whose live-out is the updated accumulator.
SourcePass(t) ==
  LET a == proc["source"] IN
  /\ pc = "source"
  /\ t \in Addends(a)
  /\ terms' = [terms EXCEPT ![a.i] = t]
  /\ proc' = [proc EXCEPT !["source"] = Advanced(a, SourceUpdate(a, t))]
  /\ cells' = Stored("source", a)
  /\ IF Stays(a) THEN UNCHANGED <<pc, result>>
     ELSE pc' = "call" /\ result' = [result EXCEPT !["source"] = LiveOut(SourceUpdate(a, t))]
  /\ UNCHANGED <<loop, range, scalar_start, scalar_bound, scalar_partial>>

-----------------------------------------------------------------------------
(* The call site and the entry of the body.                                *)

\* Lines 1341-1346: both partial results start from the identity.
Identity_kept == scalar_partial
Identity == [s \in {0, 1} |-> Zero]

\* Lines 1336-1349: the call block of the parent function, and the runtime's
\* choice: the upper half goes to the worker if there is one of each.
ParCall ==
  /\ pc = "call"
  /\ scalar_start' = range[1] /\ scalar_bound' = range[2]
  /\ scalar_partial' = IF Reduces THEN Identity ELSE scalar_partial
  /\ \/ /\ Splits(range[1], range[2])
        /\ proc' = [proc EXCEPT
             !["main"] = Entering(range[1], Mid(range[1], range[2])),
             !["worker"] = Entering(Mid(range[1], range[2]), range[2])]
     \/ proc' = [proc EXCEPT !["main"] = Entering(range[1], range[2])]
  /\ pc' = "body"
  /\ UNCHANGED <<loop, range, terms, cells, result>>

\* Lines 1251 and 1263: which slot a thread's partial result goes to.
SlotOf_zero(lo) == IF lo = 0 THEN 0 ELSE 1
SlotOf(lo) == IF lo = scalar_start THEN 0 ELSE 1

\* Lines 1252-1261: the bound the outlined exit condition compares with; the
\* first of two parts of an inclusive reduction stops one iteration earlier.
BodyBound_eager(lo, hi) ==
  IF lo = scalar_start /\ hi /= scalar_bound THEN Wrap(hi - 1) ELSE hi
BodyBound(lo, hi) ==
  IF Reduces /\ latchComparesIV /\ lo = scalar_start /\ hi /= scalar_bound
  THEN Wrap(hi - 1) ELSE hi

\* The entry block of __sysy_par_body_<id>(lo, hi).
BodyEntry(t) ==
  LET a == proc[t] IN
  /\ pc = "body" /\ a.at = "entry"
  /\ proc' = [proc EXCEPT ![t] = [a EXCEPT !.at = "loop",
                !.bound = BodyBound(a.i, a.bound), !.slot = SlotOf(a.i)]]
  /\ UNCHANGED <<loop, range, terms, pc, cells, result, scalar_start, scalar_bound,
                 scalar_partial>>

\* One pass of the outlined body; leaving it stores the partial result.
BodyPass(t) ==
  LET a == proc[t] IN
  /\ pc = "body" /\ a.at = "loop"
  /\ proc' = [proc EXCEPT ![t] = Advanced(a, BodyUpdate(a))]
  /\ cells' = Stored("outlined", a)
  /\ scalar_partial' =
       IF Reduces /\ ~Stays(a)
       THEN [scalar_partial EXCEPT ![a.slot] = PartialValue(a)] ELSE scalar_partial
  /\ UNCHANGED <<loop, range, terms, pc, result, scalar_start, scalar_bound>>

\* createModuloPartialMerge: one remainder of a sum that does not wrap.
MergedRem_nowrap(p0, p1) == SRem(Wrap(p0 + p1), Modulus)
MergedRem(p0, p1) ==
  LET posThreshold == Wrap(Modulus - p1)
      negThreshold == Wrap(-Modulus - p1)
      posMerged == IF p0 >= posThreshold THEN Wrap(p0 - posThreshold) ELSE Wrap(p0 + p1)
      negMerged == IF p0 <= negThreshold THEN Wrap(p0 - negThreshold) ELSE Wrap(p0 + p1)
  IN SRem(IF p1 >= 0 THEN posMerged ELSE negMerged, Modulus)

Merged ==
  IF IsModulo THEN MergedRem(scalar_partial[0], scalar_partial[1])
  ELSE IF loop.kind = "sum" THEN Sum(scalar_partial[0], scalar_partial[1]) ELSE None

\* Lines 1350-1386: the call has returned, the partial results are merged.
Merge ==
  /\ pc = "body"
  /\ proc["main"].at = "idle" /\ proc["worker"].at = "idle"
  /\ result' = [result EXCEPT !["outlined"] = Merged]
  /\ pc' = "done"
  /\ UNCHANGED <<loop, range, terms, proc, cells, scalar_start, scalar_bound,
                 scalar_partial>>

Next ==
  \/ \E r \in Ranges[loop] : Enter(r)
  \/ \E t \in Terms : SourcePass(t)
  \/ ParCall
  \/ \E t \in {"main", "worker"} : BodyEntry(t) \/ BodyPass(t)
  \/ Merge

Spec == Init /\ [][Next]_vars
-----------------------------------------------------------------------------
(* Properties.                                                             *)

Effects == [Int32 -> Nat]
Remainders == -(Modulus - 1) .. Modulus - 1
Accumulators == IF IsModulo THEN Int32 ELSE Effects
Activations ==
  [at : {"idle", "entry", "loop"}, i : Int32, bound : Int32, acc : Accumulators, slot : {0, 1}]
Results == IF IsModulo THEN Remainders ELSE Effects

\* The type invariant: the parts of a sum modulo m are remainders, at every time.
TypeOK ==
  /\ loop \in Cases /\ range \in Int32 \X Int32
  /\ pc \in {"enter", "source", "call", "body", "done"}
  /\ proc \in [Threads -> Activations]
  /\ \A t \in Threads : t /= "source" \/ loop.kind /= "liveout" => proc[t].acc \in Results
  /\ terms \in [Int32 -> Terms]
  /\ cells \in [Sides -> Effects]
  /\ result \in [Sides -> Results]
  /\ scalar_start \in Int32 /\ scalar_bound \in Int32
  /\ scalar_partial \in [{0, 1} -> Results]

\* The loops whose parts join: while loops; do-while loops; sums of a do-while loop that
\* compares the phi in its latch, where the first part ends one iteration early (line 1257);
\* and stores of a do-while loop in one block.
SplitsWell(l) ==
  \/ l.exiting = "header" /\ l.lhs = "phi" /\ l.effect = "after"
  \/ l.exiting = "latch" /\ l.lhs = "next" /\ l.effect = "before"
  \/ l.exiting = "latch" /\ l.lhs = "phi" /\ l.effect = "before" /\ l.kind /= "store"
  \/ l.exiting = "both" /\ l.lhs = "next" /\ l.effect = "before" /\ l.kind = "store"

\* Loops that split well, on ranges whose length is an int or too large to be one.
SoundLoops ==
  /\ \A l \in Cases : SplitsWell(l)
  /\ \A l \in Cases : \A r \in Ranges[l] : r[2] - r[1] >= IntMin

\* The outlined loop stores in exactly the iterations in which the source
\* loop stores, and as often: the two parts neither overlap nor leave a gap.
IterationsMatch == pc = "done" => cells["outlined"] = cells["source"]

\* The merged reduction consists of the terms the source loop has added up,
\* each as often, whichever threads computed the partial results and whatever
\* the slots held before.
ResultsMatch == pc = "done" /\ loop.kind = "sum" => result["outlined"] = result["source"]

\* The program sees the remainder the source loop would have produced, also
\* when the two partial remainders add up to more than an int holds.
ModuloMatches == pc = "done" /\ IsModulo => result["outlined"] = result["source"]

\* The two threads of a reduction never store to the same slot.
SlotsApart ==
  Reduces /\ proc["main"].at = "loop" /\ proc["worker"].at = "loop"
  => proc["main"].slot /= proc["worker"].slot
=============================================================================
