---------------------------- MODULE ParallelFor ----------------------------
(***************************************************************************)
(* What a caller of __sysy_parallel_for(id, lo, hi) is promised: when the  *)
(* call returns, the outlined body id has been run on every iteration of   *)
(* lo .. hi-1 exactly once, on no other iteration, and no other body has   *)
(* been run.  Nothing is said about the order of the iterations or about   *)
(* who runs them: that is the business of ParRuntime, which refines this.  *)
(***************************************************************************)
EXTENDS Integers

CONSTANTS
  Ids,      \* the outlined loop bodies
  Int32,    \* the values of a 32-bit int
  Ranges    \* the <<lo, hi>> pairs the program calls with

VARIABLES
  region,   \* the call in progress, or NoRegion
  runs      \* runs[<<id, i>>]: how often body id ran iteration i in this call

vars == <<region, runs>>

NoRegion == [open |-> FALSE]
Region(id, lo, hi) == [open |-> TRUE, id |-> id, lo |-> lo, hi |-> hi]

NothingRan == [x \in Ids \X Int32 |-> 0]

\* The iterations a region stands for.
Owes(r) == {r.id} \X (r.lo .. r.hi - 1)

Init == region = NoRegion /\ runs = NothingRan

Call(id, lo, hi) ==
  /\ ~region.open
  /\ region' = Region(id, lo, hi)
  /\ runs' = NothingRan

Iterate(x) ==
  /\ region.open
  /\ x \in Owes(region)
  /\ runs[x] = 0
  /\ runs' = [runs EXCEPT ![x] = 1]
  /\ UNCHANGED region

Return ==
  /\ region.open
  /\ \A x \in Owes(region) : runs[x] = 1
  /\ region' = NoRegion
  /\ UNCHANGED runs

Next ==
  \/ \E id \in Ids, r \in Ranges : Call(id, r[1], r[2])
  \/ \E x \in Ids \X Int32 : Iterate(x)
  \/ Return

Spec == Init /\ [][Next]_vars
============================================================================
