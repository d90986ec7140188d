--------------------------- MODULE AnalysisManager --------------------------
(***************************************************************************)
(* The middle end's cache of analyses.  An analysis is created when a pass *)
(* first asks for it, out of the analyses it reads, and lives until a      *)
(* rewrite's declared PreservedAnalyses drop it.  Some keep references to  *)
(* others: ScalarEvolution to LoopInfo, RangeAnalysis to both, LazyValue-  *)
(* Info to LoopInfo and the dominator tree.                                *)
(*                                                                         *)
(* An analysis is a value only by whether it is there and still describes  *)
(* the IR; BasicAliasAnalysis is the set of functions it holds to be pure. *)
(***************************************************************************)
EXTENDS Naturals, Sequences, FiniteSets

CONSTANTS
  Funcs,        \* the module's functions that have a body
  Calls         \* Calls[f]: the functions f calls

ASSUME CallsAssumption == Calls \in [Funcs -> SUBSET Funcs]

VARIABLES
  functionCaches_,  \* of each function, its analyses
  basicAA_,         \* NoBasicAA, or the functions it holds to be pure
  impure            \* of the IR: the functions with an effect of their own

cacheVars == <<functionCaches_, basicAA_>>

Kinds == {"DominatorTree", "PostDominatorTree", "DominanceFrontier",
          "LazyValueInfo", "LoopInfo", "RangeAnalysis", "ScalarEvolution"}
CFGAnalyses == {"DominatorTree", "PostDominatorTree", "DominanceFrontier"}
States == {"none", "current", "stale"}
NoBasicAA == {"none"}     \* the null pointer; no function has this name

NoAnalyses == [k \in Kinds |-> "none"]

\* What an analysis reads of the others, directly or through them.
Inputs ==
  [k \in Kinds |->
     (IF k \in {"DominatorTree", "PostDominatorTree"} THEN {} ELSE {"DominatorTree"})
     \cup (IF k \in {"LazyValueInfo", "ScalarEvolution", "RangeAnalysis"}
           THEN {"LoopInfo"} ELSE {})
     \cup (IF k = "RangeAnalysis" THEN {"ScalarEvolution"} ELSE {})]

\* What it keeps a pointer to and reads later, when it is queried.
\* LazyValueInfo gets its pointers anew on each getLazyValueInfo.
Holds ==
  [k \in Kinds |->
     IF k = "RangeAnalysis" THEN {"LoopInfo", "ScalarEvolution"}
     ELSE IF k = "ScalarEvolution" THEN {"LoopInfo"} ELSE {}]

\* What it describes: the control-flow graph, or also the instructions.
Describes(k) == IF k \in CFGAnalyses THEN {"cfg"} ELSE {"cfg", "values"}

-----------------------------------------------------------------------------
(* The getters.                                                            *)

\* getDominatorTree .. getScalarEvolution for every kind in asked: what is
\* missing is built, inputs first, and describes the IR if its inputs do.
\* LazyValueInfo is analysed again each time.
Get(cache, asked) ==
  LET needed == asked \cup UNION {Inputs[k] : k \in asked}
      built(k) == k \in needed /\ (cache[k] = "none" \/ k = "LazyValueInfo")
  IN [k \in Kinds |->
        IF ~built(k) THEN cache[k]
        ELSE IF \E i \in Inputs[k] : cache[i] = "stale" THEN "stale" ELSE "current"]

\* RangeAnalysis asks for that of the callees (getCallRange) and of the
\* callers (getArgumentRange) of its function.
Neighbours(f) == Calls[f] \cup {g \in Funcs : f \in Calls[g]}

GetFor(f, asked) ==
  [g \in Funcs |->
     IF g = f THEN Get(functionCaches_[f], asked)
     ELSE IF "RangeAnalysis" \in asked /\ g \in Neighbours(f)
          THEN Get(functionCaches_[g], {"RangeAnalysis"})
          ELSE functionCaches_[g]]

\* BasicAliasAnalysis::analyze: a function is pure when neither it nor one it
\* calls has an effect; Calls is closed under calls of calls.
PureNow == {f \in Funcs : impure \cap ({f} \cup Calls[f]) = {}}
getBasicAA == IF basicAA_ = NoBasicAA THEN PureNow ELSE basicAA_

-----------------------------------------------------------------------------
(* Invalidation.                                                           *)

\* invalidateFunctionCache: what goes when a rewrite preserves only these.
Dropped(preserved) ==
  (IF "PostDominatorTree" \in preserved THEN {} ELSE {"PostDominatorTree"})
  \cup
  (IF "DominatorTree" \notin preserved THEN Kinds \ {"PostDominatorTree"}
   ELSE ({"DominanceFrontier", "LazyValueInfo"} \ preserved)
        \cup (IF "LoopInfo" \notin preserved
              THEN {"LazyValueInfo", "RangeAnalysis", "ScalarEvolution", "LoopInfo"}
              ELSE IF "ScalarEvolution" \notin preserved
                   THEN {"RangeAnalysis", "ScalarEvolution"} ELSE {}))

Drop(cache, kinds) == [k \in Kinds |-> IF k \in kinds THEN "none" ELSE cache[k]]

\* invalidate(module, pa), with pa not all().
InvalidatedCaches(preserved) ==
  [f \in Funcs |-> Drop(functionCaches_[f], Dropped(preserved))]
\* BasicAA stays whatever is declared.
InvalidatedBasicAA_never(preserved) == basicAA_
InvalidatedBasicAA(preserved) ==
  IF "BasicAA" \in preserved THEN basicAA_ ELSE NoBasicAA

\* The range analysis stays when the others go.
Cleared_ranges(caches, f) ==
  [caches EXCEPT ![f] = Drop(@, Kinds \ {"RangeAnalysis"})]

\* clear(func) erases a function's entry; invalidateFunction with nothing of it
\* preserved resets the same analyses.  Neither touches BasicAA.
Cleared(caches, f) == [caches EXCEPT ![f] = NoAnalyses]

ClearedRanges(caches) ==
  [f \in Funcs |-> Drop(caches[f], {"RangeAnalysis"})]

-----------------------------------------------------------------------------
(* A rewrite of the IR, seen by the cache.                                 *)

\* Rewriting these aspects of f outdates what describes them.
Outdated(caches, f, aspects) ==
  [caches EXCEPT ![f] =
     [k \in Kinds |->
        IF @[k] # "none" /\ Describes(k) \cap aspects # {} THEN "stale" ELSE @[k]]]

AnalysisManagerInit ==
  /\ functionCaches_ = [f \in Funcs |-> NoAnalyses]
  /\ basicAA_ = NoBasicAA
  /\ impure \in SUBSET Funcs

AnalysisManagerTypeOK ==
  /\ functionCaches_ \in [Funcs -> [Kinds -> States]]
  /\ basicAA_ \in (SUBSET Funcs) \cup {NoBasicAA}
  /\ impure \subseteq Funcs
=============================================================================
