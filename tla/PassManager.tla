----------------------------- MODULE PassManager ----------------------------
(***************************************************************************)
(* PassManager::run over a pipeline: single passes, and fixed-point groups *)
(* that repeat until a round changes nothing.  A loop pass that needs a    *)
(* loop form gets LoopSimplify and LCSSA run before it.  A pass works      *)
(* through the functions of the module: it asks the AnalysisManager, and   *)
(* then rewrites the function or leaves it.                                *)
(***************************************************************************)
EXTENDS Passes

CONSTANTS
  Pipeline,       \* the stages: see Single and Group
  function_list_, \* the functions, callees before their callers
  MaxChanges      \* bound: rewrites in a whole run

StageRecords == [passes : Seq(PassRecords), group : BOOLEAN, runOnClean : BOOLEAN]
ASSUME PipelineAssumption ==
  /\ Pipeline \in Seq(StageRecords)
  /\ \A s \in DOMAIN Pipeline :
       /\ Pipeline[s].passes # <<>>
       /\ ~Pipeline[s].group => Len(Pipeline[s].passes) = 1
       /\ Pipeline[s].group
          => \A n \in DOMAIN Pipeline[s].passes : Pipeline[s].passes[n].requires = None
\* What each pass declares covers what it rewrites.
Sound(pass) ==
  /\ \A k \in Kinds \ Dropped(pass.preserves) : Describes(k) \cap pass.edits = {}
  /\ "effects" \in pass.edits => "BasicAA" \notin pass.preserves
  /\ pass.establishes = LCSSAForm => pass.requires # None /\ "cfg" \notin pass.edits
ASSUME SoundnessAssumption ==
  \A s \in DOMAIN Pipeline :
    \A n \in DOMAIN Pipeline[s].passes : Sound(Pipeline[s].passes[n])
\* A pass that reports a change it has not made would keep its group going round.
ASSUME GroupsAssumption ==
  \A s \in DOMAIN Pipeline :
    Pipeline[s].group => \A n \in DOMAIN Pipeline[s].passes : ~Pipeline[s].passes[n].always
ASSUME FunctionsAssumption ==
  /\ function_list_ \in Seq(Funcs) /\ function_list_ # <<>>
  /\ \A m, n \in DOMAIN function_list_ : function_list_[m] = function_list_[n] => m = n
  /\ MaxChanges \in Nat

VARIABLES
  i, j,           \* the stage, and the pass in it
  irChangedSinceFixedPoint,
  roundChanged,   \* of the group being run
  loop_form_,     \* what the manager takes for granted
  running,        \* "no", "asking", "asked", "done": the pass's progress
  helper,         \* LoopSimplify or LCSSA run by ensureLoopForm, or none
  func,           \* the function the pass is at
  passChanged,    \* the pass rewrote something
  form,           \* of the IR: the form its loops really have
  pending,        \* history: the group's passes yet to leave the IR, as it is, alone
  parallel,       \* of the IR: the functions that call __sysy_parallel_for
  nested,         \* ... and those whose parallel loop calls one of these
  changes

managerVars ==
  <<i, j, irChangedSinceFixedPoint, roundChanged, loop_form_, helper, pending>>
irVars == <<form, parallel, nested, changes, impure>>
vars == <<managerVars, irVars, cacheVars, running, func, passChanged>>

Stage == Pipeline[i]
ThisPass ==
  IF helper = "LoopSimplify" THEN LoopSimplify
  ELSE IF helper = "LCSSA" THEN LCSSA ELSE Stage.passes[j]
F == function_list_[func]
Finished == i > Len(Pipeline)
PassesOf(s) == IF s <= Len(Pipeline) THEN DOMAIN Pipeline[s].passes ELSE {}

Init ==
  /\ i = 1 /\ j = 1
  /\ irChangedSinceFixedPoint = FALSE /\ roundChanged = FALSE
  /\ loop_form_ = None /\ form \in LoopForms
  /\ running = "no" /\ helper = "none" /\ func = 1 /\ passChanged = FALSE
  /\ pending = PassesOf(1)
  /\ parallel = {} /\ nested = {} /\ changes = 0
  /\ AnalysisManagerInit

-----------------------------------------------------------------------------
(* run: the loop over the stages.                                          *)

\* At a group's first pass, in its first round.
Skippable ==
  /\ Stage.group /\ ~Stage.runOnClean
  /\ j = 1 /\ ~irChangedSinceFixedPoint

SkipGroup ==
  /\ ~Finished /\ running = "no"
  /\ Skippable
  /\ i' = i + 1 /\ pending' = PassesOf(i + 1)
  /\ UNCHANGED <<j, irChangedSinceFixedPoint, roundChanged, loop_form_, helper, irVars,
                  cacheVars, running, func, passChanged>>

\* The form that is there is made again.
Needed_again(required) ==
  IF loop_form_ > required THEN "none"
  ELSE IF loop_form_ < Simplified THEN "LoopSimplify" ELSE "LCSSA"

\* ensureLoopForm(required): the pass to run before this one, or none.
Needed(required) ==
  IF loop_form_ >= required THEN "none"
  ELSE IF loop_form_ < Simplified THEN "LoopSimplify" ELSE "LCSSA"

Begin ==
  /\ ~Finished /\ running = "no"
  /\ ~Skippable
  /\ helper' = Needed(Stage.passes[j].requires)
  /\ running' = "asking"
  /\ func' = 1 /\ passChanged' = FALSE
  /\ UNCHANGED <<i, j, irChangedSinceFixedPoint, roundChanged, loop_form_, pending,
                 irVars, cacheVars>>

-----------------------------------------------------------------------------
(* The pass, function by function.                                         *)

Ask ==
  /\ running = "asking"
  /\ functionCaches_' = GetFor(F, ThisPass.asks \cap Kinds)
  /\ basicAA_' = IF "BasicAA" \in ThisPass.asks THEN getBasicAA ELSE basicAA_
  /\ running' = "asked"
  /\ UNCHANGED <<managerVars, irVars, func, passChanged>>

\* One function too many.
NextFunction_past ==
  /\ func' = func + 1
  /\ running' = IF func > Len(function_list_) THEN "done" ELSE "asking"

\* Nothing (more) to do in this function.
NextFunction ==
  /\ func' = func + 1
  /\ running' = IF func = Len(function_list_) THEN "done" ELSE "asking"

Leave ==
  /\ running = "asked"
  /\ NextFunction
  /\ UNCHANGED <<managerVars, irVars, cacheVars, passChanged>>

\* Only LoopInvariantReduction drops what it made stale.
Synchronised_once(caches) ==
  IF ThisPass.sync = "once" THEN Cleared(caches, F) ELSE caches

\* What the pass does to the cache after a rewrite of F.
Synchronised(caches) ==
  IF ThisPass.sync \in {"restart", "once"} THEN Cleared(caches, F)
  ELSE IF ThisPass.sync = "ranges" THEN ClearedRanges(caches) ELSE caches

\* Edges destroy the simplified form, instructions only LCSSA.
FormAfter(edits) ==
  IF "cfg" \in edits THEN 0 .. form
  ELSE IF form = LCSSAForm THEN {Simplified, LCSSAForm} ELSE {form}

\* ParallelizeLoops::transform on a loop of F whose body calls these functions:
\* isLegalDoall asked BasicAA, as it was when the pass began, for their purity.
Outline(callees) ==
  /\ parallel' = parallel \cup {F}
  /\ nested' = IF callees \cap parallel # {} THEN nested \cup {F} ELSE nested

Rewrite ==
  /\ running = "asked"
  /\ changes < MaxChanges
  /\ changes' = changes + 1
  /\ passChanged' = TRUE
  /\ functionCaches_' = Synchronised(Outdated(functionCaches_, F, ThisPass.edits))
  /\ form' \in FormAfter(ThisPass.edits)
  /\ pending' = PassesOf(i)
  /\ IF ThisPass.outlines
     THEN \E callees \in SUBSET (Calls[F] \cap basicAA_) : Outline(callees)
     ELSE UNCHANGED <<parallel, nested>>
  /\ impure' = IF "effects" \in ThisPass.edits THEN impure \cup {F} ELSE impure
  /\ IF ThisPass.sync = "restart"
     THEN running' = "asking" /\ UNCHANGED func
     ELSE NextFunction
  /\ UNCHANGED <<i, j, irChangedSinceFixedPoint, roundChanged, loop_form_, helper,
                 basicAA_>>

-----------------------------------------------------------------------------
(* runSinglePass, after the pass; then run goes on.                        *)

\* PassRunResult::changed: the pass did not return all().
Changed == passChanged \/ ThisPass.always

\* A pass that establishes nothing leaves the form as it was.
FormTaken_kept ==
  IF ThisPass.establishes # None THEN ThisPass.establishes ELSE loop_form_

FormTaken ==
  IF ThisPass.establishes # None THEN ThisPass.establishes
  ELSE IF Changed THEN None ELSE loop_form_

\* What it does to the IR: phis at the exits are LCSSA in simplified loops only.
FormEstablished ==
  IF ThisPass.establishes = LCSSAForm /\ form # None THEN LCSSAForm
  ELSE IF ThisPass.establishes = Simplified /\ form = None THEN Simplified ELSE form

\* The round that follows a change starts with the change.
EndRound_kept(changed) ==
  IF changed
  THEN /\ j' = 1 /\ roundChanged' = TRUE
       /\ UNCHANGED <<i, irChangedSinceFixedPoint>>
  ELSE /\ i' = i + 1 /\ j' = 1 /\ roundChanged' = FALSE
       /\ irChangedSinceFixedPoint' = FALSE

\* The end of a round: another one, or on to the next stage.
EndRound(changed) ==
  IF changed
  THEN /\ j' = 1 /\ roundChanged' = FALSE
       /\ UNCHANGED <<i, irChangedSinceFixedPoint>>
  ELSE /\ i' = i + 1 /\ j' = 1 /\ roundChanged' = FALSE
       /\ irChangedSinceFixedPoint' = FALSE

\* A round that reports its last pass only: roundChanged lost.
RoundChanged_last == Changed
RoundChanged == roundChanged \/ Changed

Continue ==
  IF helper # "none"
  THEN UNCHANGED <<i, j, irChangedSinceFixedPoint, roundChanged>>
  ELSE IF ~Stage.group
  THEN /\ irChangedSinceFixedPoint' = (irChangedSinceFixedPoint \/ Changed)
       /\ i' = i + 1
       /\ UNCHANGED <<j, roundChanged>>
  ELSE IF j = Len(Stage.passes)
  THEN EndRound(RoundChanged)
  ELSE /\ j' = j + 1 /\ roundChanged' = RoundChanged
       /\ UNCHANGED <<i, irChangedSinceFixedPoint>>

Finish ==
  /\ running = "done"
  /\ loop_form_' = FormTaken
  /\ form' = FormEstablished
  /\ IF Changed
     THEN /\ functionCaches_' = InvalidatedCaches(ThisPass.preserves)
          /\ basicAA_' = InvalidatedBasicAA(ThisPass.preserves)
     ELSE UNCHANGED cacheVars
  /\ Continue
  /\ pending' = IF i' # i THEN PassesOf(i')
                ELSE IF passChanged \/ helper # "none" THEN pending ELSE pending \ {j}
  /\ running' = "no"
  /\ UNCHANGED <<helper, func, passChanged, parallel, nested, changes, impure>>

Next == SkipGroup \/ Begin \/ Ask \/ Leave \/ Rewrite \/ Finish

Spec == Init /\ [][Next]_vars
FairSpec == Spec /\ WF_vars(Next)

-----------------------------------------------------------------------------
(* Properties.                                                             *)

\* Every variable keeps its type.
TypeOK ==
  /\ i \in 1 .. Len(Pipeline) + 1
  /\ ~Finished => j \in PassesOf(i)
  /\ irChangedSinceFixedPoint \in BOOLEAN /\ roundChanged \in BOOLEAN
  /\ loop_form_ \in LoopForms /\ form \in LoopForms
  /\ running \in {"no", "asking", "asked", "done"}
  /\ helper \in {"none", "LoopSimplify", "LCSSA"}
  /\ running # "no" => ~Finished
  /\ running \in {"asking", "asked"} => func \in DOMAIN function_list_
  /\ passChanged \in BOOLEAN
  /\ parallel \subseteq Funcs /\ nested \subseteq Funcs
  /\ changes \in 0 .. MaxChanges
  /\ AnalysisManagerTypeOK

\* No analysis outlives one it keeps a pointer to: invalidateFunctionCache,
\* clear and clearRangeAnalyses drop them together, in every order of passes.
NoDangling ==
  \A f \in Funcs, k \in Kinds :
    functionCaches_[f][k] # "none"
    => \A h \in Holds[k] : functionCaches_[f][h] # "none"

\* What a pass gets for the function it is about to rewrite describes that
\* function as it now is, also after rewrites of its own and of the passes
\* before it that kept some of the analyses.
QueriesAreCurrent ==
  running = "asked"
  => \A k \in ThisPass.asks \cap Kinds : functionCaches_[F][k] = "current"

\* Between passes everything cached describes the IR, and the functions
\* BasicAA holds to be pure are: each PreservedAnalyses keeps only what the
\* pass's rewrites leave true.
CacheIsCurrent ==
  running = "no"
  => /\ \A f \in Funcs, k \in Kinds : functionCaches_[f][k] # "stale"
     /\ basicAA_ # NoBasicAA => basicAA_ \subseteq PureNow

\* A pass that requires a loop form starts on loops that have it, whatever the
\* passes between it and the last LoopSimplify and LCSSA destroyed.
RequiredFormHolds ==
  running = "asking" /\ func = 1 /\ ~passChanged => form >= ThisPass.requires

\* A fixed-point group is left only when each of its passes has run on the IR
\* as it now is and left it alone.
GroupsAreFixedPoints ==
  [][running = "done" /\ Stage.group /\ i' # i => ~passChanged /\ pending \subseteq {j}]_vars

\* 1 if the round has changed something, so that another one follows.
Unsettled == IF roundChanged \/ (running # "no" /\ passChanged) THEN 1 ELSE 0

\* The steps one pass takes at most: Begin, two for every function, and Finish.
Turns == 2 * Len(function_list_) + 1
HelperTurns(pass) ==
  IF pass = "LoopSimplify" THEN 2 * (Turns + 1) ELSE IF pass = "LCSSA" THEN Turns + 1 ELSE 0

\* The steps until this pass of the stage has finished, with the helpers it still needs.
StepsOfPass ==
  IF running = "no" THEN HelperTurns(Needed(Stage.passes[j].requires)) + Turns
  ELSE HelperTurns(helper)
       + (IF running = "done" THEN 0
          ELSE 2 * (Len(function_list_) - func) + (IF running = "asking" THEN 2 ELSE 1))

\* Whatever does not rewrite the IR brings the run nearer its end: to a later stage, to
\* a round that nothing has changed yet, to a later pass, or nearer the end of this one
\* with all its helpers.  No group goes round, and no loop form is made, for nothing.
RunComesNearer ==
  [][\/ changes' # changes
     \/ i' > i
     \/ i' = i /\ Unsettled' < Unsettled
     \/ i' = i /\ Unsettled' = Unsettled /\ j' > j
     \/ /\ i' = i /\ Unsettled' = Unsettled /\ j' = j
        /\ StepsOfPass' \in 0 .. StepsOfPass - 1]_vars

\* The pipeline ends: no group goes round for ever once nothing is rewritten.
PipelineEnds == <>Finished

\* No loop run in parallel calls a function that runs one itself: there is one
\* producer of jobs, which is never a worker (par_runtime_only.c:41-43).
SingleProducer == nested = {}
=============================================================================
