-------------------------- MODULE PassManagerProofs -------------------------
(***************************************************************************)
(* The pass manager's properties for every module and every pipeline of    *)
(* passes whose declarations are sound.                                    *)
(***************************************************************************)
EXTENDS PassManager, TLAPS

\* While a pass runs, what it made stale is what its edits outdate.
StaleIsDeclared ==
  running # "no"
  => \A f \in Funcs, k \in Kinds :
       functionCaches_[f][k] = "stale"
       => passChanged /\ Describes(k) \cap ThisPass.edits # {}

\* The functions it has yet to finish are untouched, or were synchronised.
RestIsCurrent ==
  running \in {"asking", "asked"}
  => \A n \in DOMAIN function_list_, k \in Kinds :
       n >= func => functionCaches_[function_list_[n]][k] # "stale"

AnswersAreThere ==
  running = "asked"
  => \A k \in ThisPass.asks \cap Kinds : functionCaches_[F][k] # "none"

PurityIsDeclared ==
  running # "no"
  => \/ basicAA_ = NoBasicAA \/ basicAA_ \subseteq PureNow
     \/ passChanged /\ "effects" \in ThisPass.edits

\* The form the manager takes for granted is there, until a pass changes it.
FormIsTrue ==
  /\ running = "no" => loop_form_ <= form
  /\ running # "no" /\ ~passChanged => loop_form_ <= form /\ form >= ThisPass.requires
  /\ running # "no" /\ ThisPass.establishes = LCSSAForm => form >= Simplified

\* In a round without a change so far, the passes behind have left it alone.
RoundIsSettled ==
  /\ pending \subseteq PassesOf(i)
  /\ ~Finished /\ Stage.group /\ ~roundChanged /\ (running # "no" => ~passChanged)
     => \A n \in pending : n >= j
  /\ ~Finished /\ Stage.group /\ running # "no" => helper = "none"

IInv ==
  /\ TypeOK
  /\ NoDangling
  /\ CacheIsCurrent
  /\ StaleIsDeclared
  /\ RestIsCurrent
  /\ AnswersAreThere
  /\ PurityIsDeclared
  /\ FormIsTrue
  /\ RoundIsSettled

-----------------------------------------------------------------------------
(* The cache.                                                              *)

\* What an analysis is built of, it keeps, or is described by as much.
LEMMA InputFacts ==
  /\ Inputs \in [Kinds -> SUBSET Kinds]
  /\ Holds \in [Kinds -> SUBSET Kinds]
  /\ \A k \in Kinds : Holds[k] \subseteq Inputs[k]
  /\ \A k \in Kinds : \A h \in Inputs[k] :
       Inputs[h] \subseteq Inputs[k] /\ Describes(h) \subseteq Describes(k)
BY DEF Inputs, Holds, Kinds, Describes, CFGAnalyses

\* What goes takes with it what points to it.
LEMMA DroppedIsClosed ==
  ASSUME NEW preserved, NEW k \in Kinds, NEW h \in Holds[k], h \in Dropped(preserved)
  PROVE  k \in Dropped(preserved)
BY DEF Dropped, Holds, Kinds

\* A getter's answer is there, outlives nothing it points to, and is stale only
\* where something was before.
LEMMA GetFacts ==
  ASSUME NEW cache \in [Kinds -> States], NEW asked \in SUBSET Kinds
  PROVE  /\ Get(cache, asked) \in [Kinds -> States]
         /\ \A k \in asked : Get(cache, asked)[k] # "none"
         /\ (\A k \in Kinds : cache[k] # "none" => \A h \in Holds[k] : cache[h] # "none")
            => \A k \in Kinds : Get(cache, asked)[k] # "none"
                               => \A h \in Holds[k] : Get(cache, asked)[h] # "none"
         /\ \A k \in Kinds : Get(cache, asked)[k] = "stale"
            => cache[k] = "stale" \/ \E h \in Inputs[k] : cache[h] = "stale"
<1> DEFINE needed == asked \cup UNION {Inputs[k] : k \in asked}
<1> DEFINE built(k) == k \in needed /\ (cache[k] = "none" \/ k = "LazyValueInfo")
<1> DEFINE value(k) ==
      IF ~built(k) THEN cache[k]
      ELSE IF \E h \in Inputs[k] : cache[h] = "stale" THEN "stale" ELSE "current"
<1>1. Get(cache, asked) = [k \in Kinds |-> value(k)]
  BY DEF Get
<1>2. ASSUME NEW k \in Kinds
      PROVE  /\ value(k) \in States
             /\ built(k) => value(k) # "none"
             /\ ~built(k) => value(k) = cache[k]
             /\ value(k) = "stale"
                => cache[k] = "stale" \/ \E h \in Inputs[k] : cache[h] = "stale"
  BY DEF States
<1>3. \A k \in needed : k \in Kinds => value(k) # "none"
  <2> SUFFICES ASSUME NEW k \in needed, k \in Kinds PROVE value(k) # "none"
    OBVIOUS
  <2>1. CASE cache[k] = "none"
    <3>1. built(k)
      BY <2>1
    <3> QED BY <3>1, <1>2
  <2>2. CASE cache[k] # "none"
    BY <2>2, <1>2
  <2> QED BY <2>1, <2>2
<1>4. \A k \in Kinds : cache[k] # "none" => value(k) # "none"
  BY <1>2
<1>5. \A k \in needed : k \in Kinds => Inputs[k] \subseteq needed
  BY InputFacts
<1>6. ASSUME \A k \in Kinds : cache[k] # "none" => \A h \in Holds[k] : cache[h] # "none",
             NEW k \in Kinds, value(k) # "none", NEW h \in Holds[k]
      PROVE  value(h) # "none"
  <2>0. h \in Kinds
    BY InputFacts
  <2>1. CASE built(k)
    <3>1. h \in needed
      BY <2>1, <1>5, InputFacts
    <3> QED BY <3>1, <2>0, <1>3
  <2>2. CASE ~built(k)
    <3>1. cache[k] # "none"
      BY <2>2, <1>2, <1>6
    <3> QED BY <3>1, <2>0, <1>4, <1>6
  <2> QED BY <2>1, <2>2
<1> HIDE DEF value, needed, built
<1>7. \A k \in asked : k \in needed
  BY DEF needed
<1> QED BY <1>1, <1>2, <1>3, <1>6, <1>7, InputFacts

\* The same of all functions' caches at once.
LEMMA GetForFacts ==
  ASSUME functionCaches_ \in [Funcs -> [Kinds -> States]], NEW g \in Funcs,
         NEW asked \in SUBSET Kinds
  PROVE  /\ GetFor(g, asked) \in [Funcs -> [Kinds -> States]]
         /\ \A k \in asked : GetFor(g, asked)[g][k] # "none"
         /\ NoDangling => \A f \in Funcs, k \in Kinds :
              GetFor(g, asked)[f][k] # "none" => \A h \in Holds[k] : GetFor(g, asked)[f][h] # "none"
         /\ \A f \in Funcs, k \in Kinds : GetFor(g, asked)[f][k] = "stale"
            => \/ functionCaches_[f][k] = "stale"
               \/ \E h \in Inputs[k] : functionCaches_[f][h] = "stale"
<1>1. {"RangeAnalysis"} \in SUBSET Kinds
  BY DEF Kinds
<1>2. GetFor(g, asked)[g] = Get(functionCaches_[g], asked)
  BY DEF GetFor
<1>3. \A f \in Funcs : \/ GetFor(g, asked)[f] = functionCaches_[f]
                       \/ GetFor(g, asked)[f] = Get(functionCaches_[f], asked)
                       \/ GetFor(g, asked)[f] = Get(functionCaches_[f], {"RangeAnalysis"})
  BY DEF GetFor
<1>4. GetFor(g, asked) \in [Funcs -> [Kinds -> States]]
  BY <1>1, GetFacts DEF GetFor
<1>5. \A k \in asked : GetFor(g, asked)[g][k] # "none"
  BY <1>2, GetFacts
<1>6. ASSUME NoDangling, NEW f \in Funcs, NEW k \in Kinds, GetFor(g, asked)[f][k] # "none",
             NEW h \in Holds[k]
      PROVE  GetFor(g, asked)[f][h] # "none"
  <2>1. CASE GetFor(g, asked)[f] = functionCaches_[f]
    BY <2>1, <1>6 DEF NoDangling
  <2>2. CASE GetFor(g, asked)[f] = Get(functionCaches_[f], asked)
    BY <2>2, <1>6, GetFacts DEF NoDangling
  <2>3. CASE GetFor(g, asked)[f] = Get(functionCaches_[f], {"RangeAnalysis"})
    BY <2>3, <1>1, <1>6, GetFacts DEF NoDangling
  <2> QED BY <1>3, <2>1, <2>2, <2>3
<1>7. ASSUME NEW f \in Funcs, NEW k \in Kinds, GetFor(g, asked)[f][k] = "stale"
      PROVE  \/ functionCaches_[f][k] = "stale"
             \/ \E h \in Inputs[k] : functionCaches_[f][h] = "stale"
  <2>1. CASE GetFor(g, asked)[f] = functionCaches_[f]
    BY <2>1, <1>7
  <2>2. CASE GetFor(g, asked)[f] = Get(functionCaches_[f], asked)
    BY <2>2, <1>7, GetFacts
  <2>3. CASE GetFor(g, asked)[f] = Get(functionCaches_[f], {"RangeAnalysis"})
    BY <2>3, <1>1, <1>7, GetFacts
  <2> QED BY <1>3, <2>1, <2>2, <2>3
<1> QED BY <1>4, <1>5, <1>6, <1>7

-----------------------------------------------------------------------------
(* The passes.                                                             *)

LEMMA HelperFacts ==
  /\ LoopSimplify \in PassRecords /\ Sound(LoopSimplify)
  /\ LCSSA \in PassRecords /\ Sound(LCSSA)
  /\ LoopSimplify.requires = None /\ LoopSimplify.establishes = Simplified
  /\ LCSSA.requires = Simplified /\ LCSSA.establishes = LCSSAForm
<1> USE DEF None, Simplified, LCSSAForm, LoopForms
<1>1. ASSUME NEW pass \in PassRecords, NEW form1 \in LoopForms
      PROVE  /\ Establishing(form1, pass) \in PassRecords
             /\ Establishing(form1, pass).establishes = form1
             /\ Establishing(form1, pass).requires = pass.requires
             /\ Establishing(form1, pass).edits = pass.edits
             /\ Establishing(form1, pass).preserves = pass.preserves
  BY DEF Establishing, PassRecords
<1>2. ASSUME NEW pass \in PassRecords, NEW form1 \in LoopForms
      PROVE  /\ Requiring(form1, pass) \in PassRecords
             /\ Requiring(form1, pass).requires = form1
             /\ Requiring(form1, pass).edits = pass.edits
             /\ Requiring(form1, pass).preserves = pass.preserves
  BY DEF Requiring, PassRecords
<1>3. ASSUME NEW asks \in SUBSET Kinds, NEW edits \in SUBSET {"values", "cfg"},
             NEW preserves \in SUBSET Kinds
      PROVE  /\ Rewriter(asks, edits, preserves, "atEnd") \in PassRecords
             /\ Rewriter(asks, edits, preserves, "atEnd").requires = None
             /\ Rewriter(asks, edits, preserves, "atEnd").edits = edits
             /\ Rewriter(asks, edits, preserves, "atEnd").preserves = preserves
  BY DEF Rewriter, PassRecords
<1>4. {"values", "cfg"} \in SUBSET {"values", "cfg"} /\ {} \in SUBSET Kinds
      /\ {"values"} \in SUBSET {"values", "cfg"}
      /\ CFGAnalyses \in SUBSET Kinds /\ LITree \in SUBSET Kinds
  BY DEF Kinds, CFGAnalyses, LITree
<1>5. /\ LoopSimplify \in PassRecords
      /\ LoopSimplify.requires = None /\ LoopSimplify.establishes = Simplified
      /\ LoopSimplify.edits = {"values", "cfg"} /\ LoopSimplify.preserves = {}
  <2>1. LoopSimplify = Establishing(Simplified, Rewriter({}, {"values", "cfg"}, {}, "atEnd"))
    BY DEF LoopSimplify, Local, Blocks, Nothing
  <2> QED BY <2>1, <1>1, <1>3, <1>4
<1>6. /\ LCSSA \in PassRecords
      /\ LCSSA.requires = Simplified /\ LCSSA.establishes = LCSSAForm
      /\ LCSSA.edits = {"values"} /\ LCSSA.preserves = CFGAnalyses
  <2>1. LCSSA = Establishing(LCSSAForm,
                  Requiring(Simplified, Rewriter(LITree, {"values"}, CFGAnalyses, "atEnd")))
    BY DEF LCSSA, Instructions
  <2> QED BY <2>1, <1>1, <1>2, <1>3, <1>4
<1>7. Sound(LoopSimplify)
  BY <1>5 DEF Sound, Dropped, Kinds
<1>8. Sound(LCSSA)
  BY <1>6 DEF Sound, Dropped, Kinds, CFGAnalyses, Describes
<1> QED BY <1>5, <1>6, <1>7, <1>8

LEMMA PipelineFacts ==
  /\ Len(Pipeline) \in Nat /\ DOMAIN Pipeline = 1 .. Len(Pipeline)
  /\ \A s \in DOMAIN Pipeline :
       Pipeline[s] \in StageRecords /\ Pipeline[s].passes \in Seq(PassRecords)
<1>1. Pipeline \in Seq(StageRecords)
  BY PipelineAssumption
<1>2. \A s \in DOMAIN Pipeline : Pipeline[s] \in StageRecords
  BY <1>1
<1> QED BY <1>1, <1>2 DEF StageRecords

LEMMA StageFacts ==
  ASSUME TypeOK, ~Finished
  PROVE  /\ Stage.passes \in Seq(PassRecords) /\ Stage.group \in BOOLEAN
         /\ PassesOf(i) = 1 .. Len(Stage.passes) /\ 1 \in PassesOf(i)
         /\ j \in PassesOf(i)
         /\ Stage.passes[j] \in PassRecords /\ Sound(Stage.passes[j])
         /\ ~Stage.group => j = 1 /\ Len(Stage.passes) = 1
         /\ Stage.group => Stage.passes[j].requires = None
<1>1. i \in DOMAIN Pipeline /\ i <= Len(Pipeline)
  BY PipelineFacts DEF TypeOK, Finished
<1>2. Stage.passes \in Seq(PassRecords) /\ Stage.group \in BOOLEAN
  BY <1>1, PipelineFacts DEF Stage, StageRecords
<1>3. Stage.passes # <<>> /\ (~Stage.group => Len(Stage.passes) = 1)
  BY <1>1, PipelineAssumption DEF Stage
<1>4. PassesOf(i) = DOMAIN Stage.passes
  BY <1>1 DEF PassesOf, Stage
<1>5. PassesOf(i) = 1 .. Len(Stage.passes) /\ 1 \in PassesOf(i)
  BY <1>2, <1>3, <1>4
<1>6. j \in PassesOf(i)
  BY DEF TypeOK
<1>7. Stage.passes[j] \in PassRecords
  BY <1>2, <1>5, <1>6
<1>8. Sound(Stage.passes[j])
  BY <1>1, <1>4, <1>6, SoundnessAssumption DEF Stage
<1>9. Stage.group => Stage.passes[j].requires = None
  BY <1>1, <1>4, <1>6, PipelineAssumption DEF Stage
<1> QED BY <1>2, <1>3, <1>5, <1>6, <1>7, <1>8, <1>9

LEMMA ThisPassFacts ==
  ASSUME TypeOK, ~Finished
  PROVE  ThisPass \in PassRecords /\ Sound(ThisPass)
BY HelperFacts, StageFacts DEF ThisPass

\* Leaving a stage, there is a first pass to go to in the next.
LEMMA NextStage ==
  ASSUME TypeOK, ~Finished
  PROVE  /\ i + 1 \in 1 .. Len(Pipeline) + 1
         /\ ~(i + 1 > Len(Pipeline)) => 1 \in PassesOf(i + 1)
         /\ PassesOf(i + 1) \subseteq Nat \ {0}
<1>1. i \in Nat /\ i <= Len(Pipeline) /\ Len(Pipeline) \in Nat
  BY PipelineFacts DEF TypeOK, Finished
<1>2. ASSUME i + 1 <= Len(Pipeline)
      PROVE  1 \in PassesOf(i + 1) /\ PassesOf(i + 1) \subseteq Nat \ {0}
  <2>1. i + 1 \in DOMAIN Pipeline
    BY <1>1, <1>2, PipelineFacts
  <2>2. Pipeline[i + 1].passes \in Seq(PassRecords) /\ Pipeline[i + 1].passes # <<>>
    BY <2>1, PipelineFacts, PipelineAssumption
  <2> QED BY <1>2, <2>2 DEF PassesOf
<1>3. ~(i + 1 <= Len(Pipeline)) => PassesOf(i + 1) = {}
  BY DEF PassesOf
<1> QED BY <1>1, <1>2, <1>3

-----------------------------------------------------------------------------
(* Type correctness.                                                       *)

LEMMA FunctionFacts ==
  ASSUME NEW n \in DOMAIN function_list_
  PROVE  function_list_[n] \in Funcs /\ n \in Nat
         /\ Len(function_list_) \in Nat /\ DOMAIN function_list_ = 1 .. Len(function_list_)
BY FunctionsAssumption

\* Where run goes after a pass.
LEMMA ContinueFacts ==
  ASSUME TypeOK, running = "done", Continue
  PROVE  /\ i' \in 1 .. Len(Pipeline) + 1 /\ (i' = i \/ i' = i + 1)
         /\ ~Finished' => j' \in PassesOf(i')
         /\ irChangedSinceFixedPoint' \in BOOLEAN /\ roundChanged' \in BOOLEAN
<1> USE DEF Finished
<1>1. ~Finished
  BY DEF TypeOK
<1>2. i \in 1 .. Len(Pipeline) + 1 /\ i \in Nat
  BY PipelineFacts DEF TypeOK
<1>3. Changed \in BOOLEAN
  BY <1>1, ThisPassFacts DEF Changed, TypeOK, PassRecords
<1>4. CASE helper # "none"
  BY <1>1, <1>2, <1>4 DEF Continue, TypeOK
<1>5. CASE helper = "none" /\ ~Stage.group
  BY <1>1, <1>2, <1>3, <1>5, StageFacts, NextStage DEF Continue, TypeOK
<1>6. CASE helper = "none" /\ Stage.group /\ j = Len(Stage.passes)
  BY <1>1, <1>2, <1>3, <1>6, StageFacts, NextStage DEF Continue, EndRound, TypeOK
<1>7. CASE helper = "none" /\ Stage.group /\ j # Len(Stage.passes)
  <2>1. Len(Stage.passes) \in Nat
    BY <1>1, StageFacts
  <2> QED BY <1>1, <1>2, <1>3, <1>7, <2>1, StageFacts DEF Continue, RoundChanged, TypeOK
<1> QED BY <1>1, <1>4, <1>5, <1>6, <1>7, StageFacts

LEMMA NextFunctionFacts ==
  ASSUME func \in DOMAIN function_list_, NextFunction
  PROVE  /\ running' \in {"asking", "done"}
         /\ running' = "asking" => func' \in DOMAIN function_list_ /\ func' = func + 1
<1>1. /\ func \in 1 .. Len(function_list_) /\ Len(function_list_) \in Nat
      /\ DOMAIN function_list_ = 1 .. Len(function_list_)
  BY FunctionsAssumption
<1>2. func' = func + 1 /\ running' \in {"asking", "done"}
  BY DEF NextFunction
<1>3. running' = "asking" => func # Len(function_list_)
  BY DEF NextFunction
<1>4. func # Len(function_list_) => func + 1 \in 1 .. Len(function_list_)
  BY <1>1
<1> QED BY <1>1, <1>2, <1>3, <1>4

LEMMA TypeInit == Init => TypeOK
<1> SUFFICES ASSUME Init PROVE TypeOK
  OBVIOUS
<1>1. i = 1 /\ j = 1 /\ 1 \in 1 .. Len(Pipeline) + 1
  BY PipelineFacts DEF Init
<1>2. ~Finished => 1 \in PassesOf(1)
  <2> SUFFICES ASSUME 1 <= Len(Pipeline) PROVE 1 \in PassesOf(1)
    BY <1>1, PipelineFacts DEF Finished, PassesOf
  <2>1. 1 \in DOMAIN Pipeline
    BY PipelineFacts
  <2>2. Pipeline[1].passes \in Seq(PassRecords) /\ Pipeline[1].passes # <<>>
    BY <2>1, PipelineFacts, PipelineAssumption
  <2> QED BY <2>2 DEF PassesOf
<1>3. AnalysisManagerTypeOK
  <2>1. AnalysisManagerInit
    BY DEF Init
  <2>2. functionCaches_ \in [Funcs -> [Kinds -> States]]
    BY <2>1 DEF AnalysisManagerInit, NoAnalyses, States
  <2> QED BY <2>1, <2>2 DEF AnalysisManagerInit, AnalysisManagerTypeOK
<1>4. 0 \in 0 .. MaxChanges
  BY FunctionsAssumption
<1>5. i \in 1 .. Len(Pipeline) + 1 /\ (~Finished => j \in PassesOf(i))
  BY <1>1, <1>2
<1> QED BY <1>3, <1>4, <1>5 DEF Init, TypeOK, LoopForms, None, Simplified, LCSSAForm

LEMMA TypeStep == TypeOK /\ [Next]_vars => TypeOK'
<1> SUFFICES ASSUME TypeOK, [Next]_vars PROVE TypeOK'
  OBVIOUS
<1> USE DEF TypeOK
<1>1. CASE SkipGroup
  <2>1. /\ i + 1 \in 1 .. Len(Pipeline) + 1
        /\ ~(i + 1 > Len(Pipeline)) => 1 \in PassesOf(i + 1)
    BY <1>1, NextStage DEF SkipGroup
  <2>2. ~Finished' => j' \in PassesOf(i')
    BY <1>1, <2>1 DEF SkipGroup, Skippable, Finished
  <2> QED BY <1>1, <2>1, <2>2 DEF SkipGroup, irVars, cacheVars, AnalysisManagerTypeOK
<1>2. CASE Begin
  <2>1. 1 \in DOMAIN function_list_
    BY FunctionsAssumption
  <2>2. helper' \in {"none", "LoopSimplify", "LCSSA"}
    BY <1>2 DEF Begin, Needed
  <2>3. ~Finished' /\ (~Finished' => j' \in PassesOf(i'))
    BY <1>2 DEF Begin, Finished
  <2> QED BY <1>2, <2>1, <2>2, <2>3 DEF Begin, irVars, cacheVars, AnalysisManagerTypeOK
<1>3. CASE Ask
  <2>1. F \in Funcs
    BY <1>3, FunctionFacts DEF Ask, F
  <2>2. functionCaches_' \in [Funcs -> [Kinds -> States]]
    BY <1>3, <2>1, GetForFacts DEF Ask, AnalysisManagerTypeOK
  <2>3. basicAA_' \in (SUBSET Funcs) \cup {NoBasicAA}
    BY <1>3 DEF Ask, getBasicAA, PureNow, AnalysisManagerTypeOK
  <2>4. UNCHANGED <<managerVars, irVars, func, passChanged, Finished>>
    BY <1>3 DEF Ask, managerVars, Finished
  <2>5. ~Finished' => j' \in PassesOf(i')
    BY <2>4 DEF managerVars
  <2> QED BY <1>3, <2>2, <2>3, <2>4, <2>5 DEF Ask, managerVars, irVars, AnalysisManagerTypeOK
<1>4. running = "asked" /\ NextFunction
      => running' \in {"asking", "done"} /\ (running' = "asking" => func' \in DOMAIN function_list_)
  BY NextFunctionFacts
<1>5. CASE Leave
  <2>1. UNCHANGED <<managerVars, irVars, cacheVars, passChanged>>
    BY <1>5 DEF Leave
  <2>2. ~Finished' /\ (~Finished' => j' \in PassesOf(i'))
    BY <1>5, <2>1 DEF Leave, managerVars, Finished
  <2> QED BY <1>4, <1>5, <2>1, <2>2
      DEF Leave, managerVars, irVars, cacheVars, AnalysisManagerTypeOK
<1>6. CASE Rewrite
  <2>1. F \in Funcs /\ func \in DOMAIN function_list_ /\ running = "asked"
    BY <1>6, FunctionFacts DEF Rewrite, F
  <2>2. functionCaches_' \in [Funcs -> [Kinds -> States]]
    <3>1. Outdated(functionCaches_, F, ThisPass.edits) \in [Funcs -> [Kinds -> States]]
      BY <2>1 DEF Outdated, AnalysisManagerTypeOK, States
    <3>2. ASSUME NEW caches \in [Funcs -> [Kinds -> States]]
          PROVE  Synchronised(caches) \in [Funcs -> [Kinds -> States]]
      BY DEF Synchronised, Cleared, ClearedRanges, Drop, NoAnalyses, States
    <3> QED BY <1>6, <3>1, <3>2 DEF Rewrite
  <2>3. form' \in LoopForms
    BY <1>6 DEF Rewrite, FormAfter, LoopForms, None, Simplified, LCSSAForm
  <2>4. parallel' \subseteq Funcs /\ nested' \subseteq Funcs /\ impure' \subseteq Funcs
    BY <1>6, <2>1 DEF Rewrite, Outline, AnalysisManagerTypeOK
  <2>5. running' \in {"asking", "done"} /\ (running' = "asking" => func' \in DOMAIN function_list_)
    BY <1>6, <1>4, <2>1 DEF Rewrite
  <2>6. changes' \in 0 .. MaxChanges
    BY <1>6, FunctionsAssumption DEF Rewrite
  <2>7. ~Finished' /\ (~Finished' => j' \in PassesOf(i'))
    BY <1>6 DEF Rewrite, Finished
  <2> QED BY <1>6, <2>2, <2>3, <2>4, <2>5, <2>6, <2>7 DEF Rewrite, AnalysisManagerTypeOK
<1>7. CASE Finish
  <2>1. ThisPass \in PassRecords /\ running = "done" /\ Continue
    BY <1>7, ThisPassFacts DEF Finish
  <2>2. functionCaches_' \in [Funcs -> [Kinds -> States]]
    <3>1. ASSUME NEW preserved
          PROVE  InvalidatedCaches(preserved) \in [Funcs -> [Kinds -> States]]
      BY DEF InvalidatedCaches, Drop, States, AnalysisManagerTypeOK
    <3> QED BY <1>7, <3>1 DEF Finish, cacheVars, AnalysisManagerTypeOK
  <2>3. basicAA_' \in (SUBSET Funcs) \cup {NoBasicAA}
    BY <1>7 DEF Finish, cacheVars, InvalidatedBasicAA, AnalysisManagerTypeOK
  <2>4. loop_form_' \in LoopForms /\ form' \in LoopForms
    BY <1>7, <2>1 DEF Finish, FormTaken, FormEstablished, PassRecords, LoopForms
  <2> QED BY <1>7, <2>1, <2>2, <2>3, <2>4, ContinueFacts DEF Finish, AnalysisManagerTypeOK
<1>8. CASE UNCHANGED vars
  <2>1. UNCHANGED Finished
    BY <1>8 DEF vars, managerVars, Finished
  <2> QED BY <1>8, <2>1 DEF vars, managerVars, irVars, cacheVars, AnalysisManagerTypeOK
<1> QED BY <1>1, <1>2, <1>3, <1>5, <1>6, <1>7, <1>8 DEF Next

-----------------------------------------------------------------------------
(* The cache: one lemma per action.                                        *)

CacheInv ==
  /\ NoDangling
  /\ CacheIsCurrent
  /\ StaleIsDeclared
  /\ RestIsCurrent
  /\ AnswersAreThere
  /\ PurityIsDeclared

LEMMA CacheBetweenPasses ==
  ASSUME TypeOK, CacheInv, SkipGroup \/ Begin
  PROVE  CacheInv'
<1>1. running = "no" /\ UNCHANGED <<functionCaches_, basicAA_, impure>>
  BY DEF SkipGroup, Begin, cacheVars, irVars
<1>2. \A f \in Funcs, k \in Kinds : functionCaches_[f][k] # "stale"
  BY <1>1 DEF CacheInv, CacheIsCurrent
<1>3. PureNow' = PureNow
  BY <1>1 DEF PureNow
<1>4. basicAA_ = NoBasicAA \/ basicAA_ \subseteq PureNow
  BY <1>1 DEF CacheInv, CacheIsCurrent
<1>5. NoDangling'
  BY <1>1 DEF CacheInv, NoDangling
<1>6. running' # "asked"
  BY <1>1 DEF SkipGroup, Begin
<1>7. CacheIsCurrent' /\ StaleIsDeclared' /\ AnswersAreThere' /\ PurityIsDeclared'
  BY <1>1, <1>2, <1>3, <1>4, <1>6
     DEF CacheIsCurrent, StaleIsDeclared, AnswersAreThere, PurityIsDeclared
<1>8. RestIsCurrent'
  BY <1>1, <1>2, FunctionFacts DEF RestIsCurrent
<1> QED BY <1>5, <1>7, <1>8 DEF CacheInv

LEMMA CacheAsk ==
  ASSUME TypeOK, CacheInv, Ask
  PROVE  CacheInv'
<1>1. /\ running = "asking" /\ running' = "asked"
      /\ UNCHANGED <<i, j, helper, func, passChanged, impure>>
      /\ functionCaches_' = GetFor(F, ThisPass.asks \cap Kinds)
      /\ basicAA_' = basicAA_ \/ basicAA_' = getBasicAA
  BY DEF Ask, managerVars, irVars
<1>2. ThisPass' = ThisPass /\ F' = F /\ PureNow' = PureNow
  BY <1>1 DEF ThisPass, Stage, F, PureNow
<1>3. func \in DOMAIN function_list_ /\ F \in Funcs /\ ~Finished
  BY <1>1, FunctionFacts DEF TypeOK, F
<1>4. functionCaches_ \in [Funcs -> [Kinds -> States]] /\ ThisPass.asks \cap Kinds \in SUBSET Kinds
  BY DEF TypeOK, AnalysisManagerTypeOK
<1>5. NoDangling'
  BY <1>1, <1>3, <1>4, GetForFacts DEF CacheInv, NoDangling
<1>6. ASSUME NEW f \in Funcs, NEW k \in Kinds, functionCaches_'[f][k] = "stale"
      PROVE  \/ functionCaches_[f][k] = "stale"
             \/ \E h \in Inputs[k] : functionCaches_[f][h] = "stale"
  BY <1>1, <1>3, <1>4, <1>6, GetForFacts
<1>7. StaleIsDeclared'
  <2> SUFFICES ASSUME NEW f \in Funcs, NEW k \in Kinds, functionCaches_'[f][k] = "stale"
               PROVE  passChanged /\ Describes(k) \cap ThisPass.edits # {}
    BY <1>1, <1>2 DEF StaleIsDeclared
  <2>1. PICK h \in Kinds : Describes(h) \subseteq Describes(k) /\ functionCaches_[f][h] = "stale"
    BY <1>6, InputFacts
  <2>2. passChanged /\ Describes(h) \cap ThisPass.edits # {}
    BY <1>1, <2>1 DEF CacheInv, StaleIsDeclared
  <2> QED BY <2>1, <2>2
<1>8. RestIsCurrent'
  <2> SUFFICES ASSUME NEW n \in DOMAIN function_list_, NEW k \in Kinds, n >= func,
                      functionCaches_'[function_list_[n]][k] = "stale"
               PROVE  FALSE
    BY <1>1 DEF RestIsCurrent
  <2>1. \A h \in Kinds : functionCaches_[function_list_[n]][h] # "stale"
    BY <1>1 DEF CacheInv, RestIsCurrent
  <2> QED BY <1>6, <2>1, InputFacts, FunctionFacts
<1>9. AnswersAreThere'
  <2> SUFFICES ASSUME NEW k \in ThisPass.asks \cap Kinds PROVE functionCaches_'[F][k] # "none"
    BY <1>2 DEF AnswersAreThere
  <2> QED BY <1>1, <1>3, <1>4, GetForFacts
<1>10. CacheIsCurrent'
  BY <1>1 DEF CacheIsCurrent
<1>11. PurityIsDeclared'
  <2>1. \/ basicAA_ = NoBasicAA \/ basicAA_ \subseteq PureNow
        \/ passChanged /\ "effects" \in ThisPass.edits
    BY <1>1 DEF CacheInv, PurityIsDeclared
  <2> QED BY <1>1, <1>2, <2>1 DEF PurityIsDeclared, getBasicAA
<1> QED BY <1>5, <1>7, <1>8, <1>9, <1>10, <1>11 DEF CacheInv

LEMMA CacheLeave ==
  ASSUME TypeOK, CacheInv, Leave
  PROVE  CacheInv'
<1>1. /\ running = "asked" /\ NextFunction
      /\ UNCHANGED <<i, j, helper, passChanged, impure, functionCaches_, basicAA_>>
  BY DEF Leave, managerVars, irVars, cacheVars
<1>2. ThisPass' = ThisPass /\ PureNow' = PureNow
  BY <1>1 DEF ThisPass, Stage, PureNow
<1>3. /\ running' \in {"asking", "done"} /\ func \in Nat
      /\ running' = "asking" => func' = func + 1
  BY <1>1, NextFunctionFacts, FunctionFacts DEF TypeOK
<1>4. NoDangling' /\ StaleIsDeclared' /\ PurityIsDeclared'
  BY <1>1, <1>2, <1>3 DEF CacheInv, NoDangling, StaleIsDeclared, PurityIsDeclared
<1>5. CacheIsCurrent' /\ AnswersAreThere'
  BY <1>3 DEF CacheIsCurrent, AnswersAreThere
<1>6. RestIsCurrent'
  <2> SUFFICES ASSUME NEW n \in DOMAIN function_list_, NEW k \in Kinds,
                      running' = "asking", n >= func'
               PROVE  functionCaches_[function_list_[n]][k] # "stale"
    BY <1>1, <1>3 DEF RestIsCurrent
  <2>1. n >= func
    BY <1>3, FunctionFacts
  <2> QED BY <1>1, <2>1 DEF CacheInv, RestIsCurrent
<1> QED BY <1>4, <1>5, <1>6 DEF CacheInv

\* A rewrite makes stale only its own function's analyses of what it edits, and
\* leaves nothing that points to what it dropped.
LEMMA RewrittenCache ==
  ASSUME TypeOK, running = "asked", NEW new,
         new = Synchronised(Outdated(functionCaches_, F, ThisPass.edits))
  PROVE  /\ \A f \in Funcs, k \in Kinds :
              new[f][k] = "stale"
              => \/ functionCaches_[f][k] = "stale"
                 \/ f = F /\ Describes(k) \cap ThisPass.edits # {}
         /\ ThisPass.sync = "restart" => \A k \in Kinds : new[F][k] = "none"
         /\ NoDangling => \A f \in Funcs, k \in Kinds :
              new[f][k] # "none" => \A h \in Holds[k] : new[f][h] # "none"
<1> DEFINE outdated == Outdated(functionCaches_, F, ThisPass.edits)
<1>1. functionCaches_ \in [Funcs -> [Kinds -> States]] /\ F \in Funcs
  BY FunctionFacts DEF TypeOK, AnalysisManagerTypeOK, F
<1>2. /\ \A f \in Funcs, k \in Kinds :
           /\ outdated[f][k] = "none" <=> functionCaches_[f][k] = "none"
           /\ outdated[f][k] = "stale"
              => \/ functionCaches_[f][k] = "stale"
                 \/ f = F /\ Describes(k) \cap ThisPass.edits # {}
      /\ outdated \in [Funcs -> [Kinds -> States]]
  BY <1>1 DEF Outdated, States
<1>3. NoDangling => \A f \in Funcs, k \in Kinds :
        outdated[f][k] # "none" => \A h \in Holds[k] : outdated[f][h] # "none"
  BY <1>2, InputFacts DEF NoDangling
<1> HIDE DEF outdated
<1>4. new = Synchronised(outdated)
  BY DEF outdated
<1>5. CASE ThisPass.sync \in {"restart", "once"}
  <2>1. new = [outdated EXCEPT ![F] = NoAnalyses]
    BY <1>4, <1>5 DEF Synchronised, Cleared
  <2>2. \A k \in Kinds : new[F][k] = "none"
    BY <2>1, <1>1, <1>2 DEF NoAnalyses
  <2>3. \A f \in Funcs : f # F => new[f] = outdated[f]
    BY <2>1, <1>1, <1>2
  <2> QED BY <2>2, <2>3, <1>2, <1>3
<1>6. CASE ThisPass.sync = "ranges"
  <2>1. new = [f \in Funcs |-> [k \in Kinds |->
                 IF k \in {"RangeAnalysis"} THEN "none" ELSE outdated[f][k]]]
    BY <1>4, <1>6 DEF Synchronised, ClearedRanges, Drop
  <2>2. \A k \in Kinds : "RangeAnalysis" \notin Holds[k]
    BY DEF Holds, Kinds
  <2>3. \A f \in Funcs, k \in Kinds :
          new[f][k] = IF k = "RangeAnalysis" THEN "none" ELSE outdated[f][k]
    BY <2>1
  <2> QED BY <2>2, <2>3, <1>2, <1>3, <1>6, InputFacts
<1>7. CASE ThisPass.sync \notin {"restart", "once", "ranges"}
  <2>1. new = outdated
    BY <1>4, <1>7 DEF Synchronised
  <2> QED BY <2>1, <1>2, <1>3, <1>7
<1> QED BY <1>5, <1>6, <1>7

LEMMA CacheRewrite ==
  ASSUME TypeOK, CacheInv, Rewrite
  PROVE  CacheInv'
<1>1. /\ running = "asked" /\ passChanged' = TRUE
      /\ UNCHANGED <<i, j, helper, basicAA_>>
      /\ functionCaches_' = Synchronised(Outdated(functionCaches_, F, ThisPass.edits))
      /\ impure' = IF "effects" \in ThisPass.edits THEN impure \cup {F} ELSE impure
      /\ IF ThisPass.sync = "restart"
         THEN running' = "asking" /\ func' = func ELSE NextFunction
  BY DEF Rewrite
<1>2. ThisPass' = ThisPass
  BY <1>1 DEF ThisPass, Stage
<1>3. func \in DOMAIN function_list_ /\ func \in Nat
  BY <1>1, FunctionFacts DEF TypeOK
<1>4. /\ running' \in {"asking", "done"}
      /\ running' = "asking"
         => func' = func + 1 \/ (func' = func /\ ThisPass.sync = "restart")
  <2>1. CASE ThisPass.sync = "restart"
    BY <1>1, <2>1
  <2>2. CASE ThisPass.sync # "restart"
    <3>1. NextFunction
      BY <1>1, <2>2
    <3>2. func \in DOMAIN function_list_
      BY <1>3
    <3>3. running' \in {"asking", "done"} /\ func' = func + 1
      BY <3>1 DEF NextFunction
    <3> QED BY <3>3
  <2> QED BY <2>1, <2>2
<1>5. NoDangling'
  BY <1>1, RewrittenCache DEF CacheInv, NoDangling
<1>6. CacheIsCurrent' /\ AnswersAreThere'
  BY <1>4 DEF CacheIsCurrent, AnswersAreThere
<1>7. StaleIsDeclared'
  <2> SUFFICES ASSUME NEW f \in Funcs, NEW k \in Kinds, functionCaches_'[f][k] = "stale"
               PROVE  Describes(k) \cap ThisPass.edits # {}
    BY <1>1, <1>2 DEF StaleIsDeclared
  <2>1. functionCaches_[f][k] = "stale" \/ Describes(k) \cap ThisPass.edits # {}
    BY <1>1, RewrittenCache
  <2> QED BY <1>1, <2>1 DEF CacheInv, StaleIsDeclared
<1>8. RestIsCurrent'
  <2> SUFFICES ASSUME NEW n \in DOMAIN function_list_, NEW k \in Kinds,
                      running' = "asking", n >= func',
                      functionCaches_'[function_list_[n]][k] = "stale"
               PROVE  FALSE
    BY <1>4 DEF RestIsCurrent
  <2>1. n \in Nat /\ function_list_[n] \in Funcs
    BY FunctionFacts
  <2>2. functionCaches_[function_list_[n]][k] # "stale"
    BY <1>1, <1>3, <1>4, <2>1 DEF CacheInv, RestIsCurrent
  <2>3. function_list_[n] = F
    BY <1>1, <2>1, <2>2, RewrittenCache
  <2>4. n = func
    BY <1>3, <2>3, FunctionsAssumption DEF F
  <2>5. ThisPass.sync = "restart"
    BY <1>3, <1>4, <2>4
  <2> QED BY <1>1, <2>3, <2>5, RewrittenCache
<1>9. PurityIsDeclared'
  <2>1. \/ basicAA_ = NoBasicAA \/ basicAA_ \subseteq PureNow
        \/ passChanged /\ "effects" \in ThisPass.edits
    BY <1>1 DEF CacheInv, PurityIsDeclared
  <2>2. "effects" \notin ThisPass.edits => PureNow' = PureNow
    BY <1>1 DEF PureNow
  <2> QED BY <1>1, <1>2, <2>1, <2>2 DEF PurityIsDeclared
<1> QED BY <1>5, <1>6, <1>7, <1>8, <1>9 DEF CacheInv

LEMMA CacheFinish ==
  ASSUME TypeOK, CacheInv, Finish
  PROVE  CacheInv'
<1>1. /\ running = "done" /\ running' = "no" /\ UNCHANGED impure
      /\ IF Changed
         THEN /\ functionCaches_' = InvalidatedCaches(ThisPass.preserves)
              /\ basicAA_' = InvalidatedBasicAA(ThisPass.preserves)
         ELSE UNCHANGED <<functionCaches_, basicAA_>>
  BY DEF Finish, cacheVars
<1>2. Sound(ThisPass)
  BY <1>1, ThisPassFacts DEF TypeOK
<1>3. functionCaches_ \in [Funcs -> [Kinds -> States]] /\ passChanged \in BOOLEAN
  BY DEF TypeOK, AnalysisManagerTypeOK
<1>4. PureNow' = PureNow
  BY <1>1 DEF PureNow
<1>5. \/ basicAA_ = NoBasicAA \/ basicAA_ \subseteq PureNow
      \/ passChanged /\ "effects" \in ThisPass.edits
  BY <1>1 DEF CacheInv, PurityIsDeclared
<1>6. \A f \in Funcs, k \in Kinds :
        functionCaches_[f][k] = "stale"
        => passChanged /\ Describes(k) \cap ThisPass.edits # {}
  BY <1>1 DEF CacheInv, StaleIsDeclared
<1>7. StaleIsDeclared' /\ RestIsCurrent' /\ AnswersAreThere' /\ PurityIsDeclared'
  BY <1>1 DEF StaleIsDeclared, RestIsCurrent, AnswersAreThere, PurityIsDeclared
<1>8. CASE Changed
  <2> DEFINE dropped == Dropped(ThisPass.preserves)
  <2>1. \A f \in Funcs, k \in Kinds :
          functionCaches_'[f][k] = IF k \in dropped THEN "none" ELSE functionCaches_[f][k]
    BY <1>1, <1>8 DEF InvalidatedCaches, Drop
  <2>2. NoDangling'
    <3> SUFFICES ASSUME NEW f \in Funcs, NEW k \in Kinds, functionCaches_'[f][k] # "none",
                        NEW h \in Holds[k]
                 PROVE  functionCaches_'[f][h] # "none"
      BY DEF NoDangling
    <3>1. k \notin dropped /\ functionCaches_[f][k] # "none"
      BY <2>1
    <3>2. h \in Kinds /\ h \notin dropped
      BY <3>1, InputFacts, DroppedIsClosed
    <3>3. functionCaches_[f][h] # "none"
      BY <3>1 DEF CacheInv, NoDangling
    <3> QED BY <2>1, <3>2, <3>3
  <2>3. \A f \in Funcs, k \in Kinds : functionCaches_'[f][k] # "stale"
    BY <1>2, <1>6, <2>1 DEF Sound
  <2>4. basicAA_' = NoBasicAA \/ basicAA_' \subseteq PureNow
    BY <1>1, <1>2, <1>5, <1>8 DEF InvalidatedBasicAA, Sound
  <2> QED BY <1>4, <1>7, <2>2, <2>3, <2>4 DEF CacheInv, CacheIsCurrent
<1>9. CASE ~Changed
  <2>1. ~passChanged /\ UNCHANGED <<functionCaches_, basicAA_>>
    BY <1>1, <1>9 DEF Changed
  <2>2. NoDangling'
    BY <2>1 DEF CacheInv, NoDangling
  <2>3. CacheIsCurrent'
    BY <1>4, <1>5, <1>6, <2>1 DEF CacheIsCurrent
  <2> QED BY <1>7, <2>2, <2>3 DEF CacheInv
<1> QED BY <1>8, <1>9

LEMMA CacheStep ==
  ASSUME TypeOK, CacheInv, [Next]_vars
  PROVE  CacheInv'
<1>1. CASE UNCHANGED vars
  <2>1. UNCHANGED <<functionCaches_, basicAA_, impure, running, func, passChanged, i, j, helper>>
    BY <1>1 DEF vars, managerVars, irVars, cacheVars
  <2>2. ThisPass' = ThisPass /\ F' = F /\ PureNow' = PureNow
    BY <2>1 DEF ThisPass, Stage, F, PureNow
  <2> QED BY <2>1, <2>2 DEF CacheInv, NoDangling, CacheIsCurrent, StaleIsDeclared,
       RestIsCurrent, AnswersAreThere, PurityIsDeclared
<1> QED BY <1>1, CacheBetweenPasses, CacheAsk, CacheLeave, CacheRewrite, CacheFinish DEF Next

LEMMA CacheInit ==
  ASSUME Init
  PROVE  CacheInv
<1>1. running = "no" /\ basicAA_ = NoBasicAA
      /\ \A f \in Funcs, k \in Kinds : functionCaches_[f][k] = "none"
  BY DEF Init, AnalysisManagerInit, NoAnalyses
<1> QED BY <1>1 DEF CacheInv, NoDangling, CacheIsCurrent, StaleIsDeclared,
     RestIsCurrent, AnswersAreThere, PurityIsDeclared

-----------------------------------------------------------------------------
(* The loop form.                                                          *)

LEMMA FormStep ==
  ASSUME TypeOK, FormIsTrue, [Next]_vars
  PROVE  FormIsTrue'
<1> USE DEF LoopForms, None, Simplified, LCSSAForm
<1>0. loop_form_ \in LoopForms /\ form \in LoopForms
  BY DEF TypeOK
<1>1. CASE SkipGroup
  BY <1>1 DEF SkipGroup, irVars, FormIsTrue
<1>2. CASE Begin
  <2>1. /\ running = "no" /\ ~Finished /\ UNCHANGED <<i, j, loop_form_, form>>
        /\ helper' = Needed(Stage.passes[j].requires)
    BY <1>2 DEF Begin, irVars
  <2>2. loop_form_ <= form
    BY <2>1 DEF FormIsTrue
  <2>3. Stage.passes[j] \in PassRecords /\ Sound(Stage.passes[j])
    BY <2>1, StageFacts
  <2>4. Stage.passes[j].requires \in LoopForms
    BY <2>3 DEF PassRecords
  <2>5. CASE helper' = "none"
    <3>1. ThisPass' = Stage.passes[j]
      BY <2>1, <2>5 DEF ThisPass, Stage
    <3>2. loop_form_ >= Stage.passes[j].requires
      BY <2>1, <2>5 DEF Needed
    <3>3. form >= Stage.passes[j].requires
      BY <1>0, <2>2, <2>4, <3>2
    <3>4. Stage.passes[j].establishes = LCSSAForm => form >= Simplified
      BY <1>0, <2>3, <2>4, <3>3 DEF Sound
    <3> QED BY <1>2, <2>1, <2>2, <3>1, <3>3, <3>4 DEF Begin, FormIsTrue
  <2>6. CASE helper' = "LoopSimplify"
    <3>1. ThisPass' = LoopSimplify
      BY <2>6 DEF ThisPass, LoopSimplify, Local, Blocks, Nothing
    <3> QED BY <1>0, <1>2, <2>1, <2>2, <3>1, HelperFacts DEF Begin, FormIsTrue
  <2>7. CASE helper' = "LCSSA"
    <3>1. ThisPass' = LCSSA
      BY <2>7 DEF ThisPass, LCSSA, Instructions
    <3>2. loop_form_ >= Simplified
      BY <1>0, <2>1, <2>7 DEF Needed
    <3> QED BY <1>0, <1>2, <2>1, <2>2, <3>1, <3>2, HelperFacts DEF Begin, FormIsTrue
  <2> QED BY <2>1, <2>5, <2>6, <2>7 DEF Needed
<1>3. CASE Ask \/ Leave \/ UNCHANGED vars
  <2>1. /\ UNCHANGED <<i, j, helper, loop_form_, form, passChanged>>
        /\ running' = running \/ running # "no"
    BY <1>3 DEF Ask, Leave, vars, managerVars, irVars
  <2>2. ThisPass' = ThisPass
    BY <2>1 DEF ThisPass, Stage
  <2>3. running' # "no" => running # "no"
    BY <2>1
  <2>4. running' = "no" => running = "no"
    BY <1>3 DEF Ask, Leave, NextFunction, vars
  <2> QED BY <2>1, <2>2, <2>3, <2>4 DEF FormIsTrue
<1>4. CASE Rewrite
  <2>1. /\ running = "asked" /\ ~Finished /\ passChanged' = TRUE
        /\ UNCHANGED <<i, j, helper>> /\ form' \in FormAfter(ThisPass.edits)
    BY <1>4 DEF Rewrite, TypeOK
  <2>2. running' # "no"
    BY <1>4 DEF Rewrite, NextFunction
  <2>3. ThisPass' = ThisPass /\ Sound(ThisPass)
    BY <2>1, ThisPassFacts DEF ThisPass, Stage
  <2>4. ASSUME ThisPass.establishes = LCSSAForm PROVE form' >= Simplified
    <3>1. form >= Simplified
      BY <2>1, <2>4 DEF FormIsTrue
    <3>2. "cfg" \notin ThisPass.edits
      BY <2>3, <2>4 DEF Sound
    <3> QED BY <1>0, <2>1, <3>1, <3>2 DEF FormAfter
  <2> QED BY <2>1, <2>2, <2>3, <2>4 DEF FormIsTrue
<1>5. CASE Finish
  <2>1. /\ running = "done" /\ running' = "no" /\ ~Finished
        /\ loop_form_' = FormTaken /\ form' = FormEstablished
    BY <1>5 DEF Finish, TypeOK
  <2>2. ThisPass.establishes \in LoopForms /\ passChanged \in BOOLEAN
    BY <2>1, ThisPassFacts DEF PassRecords, TypeOK
  <2>3. CASE ThisPass.establishes = LCSSAForm
    <3>1. form >= Simplified
      BY <2>1, <2>3 DEF FormIsTrue
    <3> QED BY <1>0, <2>1, <2>3, <3>1 DEF FormTaken, FormEstablished, FormIsTrue
  <2>4. CASE ThisPass.establishes = Simplified
    BY <1>0, <2>1, <2>4 DEF FormTaken, FormEstablished, FormIsTrue
  <2>5. CASE ThisPass.establishes = None
    <3>1. ~Changed => loop_form_ <= form
      BY <2>1, <2>2 DEF Changed, FormIsTrue
    <3>2. form' = form /\ loop_form_' = IF Changed THEN None ELSE loop_form_
      BY <2>1, <2>5 DEF FormTaken, FormEstablished
    <3> QED BY <1>0, <2>1, <3>1, <3>2 DEF FormIsTrue
  <2> QED BY <2>2, <2>3, <2>4, <2>5
<1> QED BY <1>1, <1>2, <1>3, <1>4, <1>5 DEF Next

-----------------------------------------------------------------------------
(* The fixed-point groups.                                                 *)

LEMMA RoundStep ==
  ASSUME TypeOK, RoundIsSettled, [Next]_vars
  PROVE  RoundIsSettled'
<1> USE DEF Finished
<1>1. CASE SkipGroup
  <2>1. j' = 1 /\ i' = i + 1 /\ running' = "no" /\ pending' = PassesOf(i + 1)
    BY <1>1 DEF SkipGroup, Skippable
  <2>2. PassesOf(i + 1) \subseteq Nat \ {0}
    BY <1>1, NextStage DEF SkipGroup
  <2> QED BY <2>1, <2>2 DEF RoundIsSettled, PassesOf
<1>2. CASE Begin
  <2>1. /\ running = "no" /\ ~Finished /\ passChanged' = FALSE
        /\ UNCHANGED <<i, j, pending, roundChanged>>
        /\ helper' = Needed(Stage.passes[j].requires)
    BY <1>2 DEF Begin
  <2>2. Stage.group => helper' = "none"
    <3>1. loop_form_ >= None
      BY DEF TypeOK, LoopForms, None, Simplified, LCSSAForm
    <3> QED BY <2>1, <3>1, StageFacts DEF Needed
  <2> QED BY <2>1, <2>2 DEF RoundIsSettled, Stage, PassesOf
<1>3. CASE Ask \/ Leave \/ UNCHANGED vars
  <2>1. /\ UNCHANGED <<i, j, helper, pending, roundChanged, passChanged>>
        /\ running' = running \/ running # "no"
    BY <1>3 DEF Ask, Leave, vars, managerVars
  <2>2. running' = "no" => running = "no"
    BY <1>3 DEF Ask, Leave, NextFunction, vars
  <2> QED BY <2>1, <2>2 DEF RoundIsSettled, Stage, PassesOf
<1>4. CASE Rewrite
  <2>1. /\ running = "asked" /\ running' # "no" /\ passChanged' = TRUE
        /\ pending' = PassesOf(i) /\ UNCHANGED <<i, j, helper>>
    BY <1>4 DEF Rewrite, NextFunction
  <2> QED BY <2>1 DEF RoundIsSettled, Stage, PassesOf
<1>5. CASE Finish
  <2>1. /\ running = "done" /\ running' = "no" /\ ~Finished /\ Continue
        /\ pending' = IF i' # i THEN PassesOf(i')
                      ELSE IF passChanged \/ helper # "none" THEN pending ELSE pending \ {j}
    BY <1>5 DEF Finish, TypeOK
  <2>2. pending \subseteq PassesOf(i) /\ PassesOf(i) = 1 .. Len(Stage.passes)
        /\ j \in PassesOf(i) /\ Len(Stage.passes) \in Nat
        /\ (~Stage.group => j = 1) /\ i \in Nat
    BY <2>1, StageFacts, PipelineFacts DEF RoundIsSettled, TypeOK
  <2>3. CASE i' # i
    <3>1. i' = i + 1 /\ pending' = PassesOf(i + 1)
      BY <2>1, <2>3, ContinueFacts
    <3>2. j' = 1
      BY <2>1, <2>2, <2>3 DEF Continue, EndRound
    <3>3. PassesOf(i + 1) \subseteq Nat \ {0}
      BY <2>1, NextStage
    <3> QED BY <2>1, <3>1, <3>2, <3>3 DEF RoundIsSettled, PassesOf
  <2>4. CASE i' = i /\ ~Stage.group
    BY <2>1, <2>2, <2>4 DEF RoundIsSettled, Stage, PassesOf
  <2>5. CASE i' = i /\ Stage.group
    <3>1. helper = "none"
      BY <2>1, <2>5 DEF RoundIsSettled
    <3>2. pending' \subseteq PassesOf(i)
      BY <2>1, <2>2, <2>5
    <3>3. CASE j = Len(Stage.passes)
      <4>1. j' = 1
        BY <2>1, <2>5, <3>1, <3>3 DEF Continue, EndRound
      <4> QED BY <2>1, <2>2, <2>5, <3>2, <4>1 DEF RoundIsSettled, Stage, PassesOf
    <3>4. CASE j # Len(Stage.passes)
      <4>1. j' = j + 1 /\ roundChanged' = (roundChanged \/ passChanged \/ ThisPass.always)
        BY <2>1, <2>5, <3>1, <3>4 DEF Continue, RoundChanged, Changed
      <4>2. ASSUME ~roundChanged' PROVE \A n \in pending' : n >= j + 1
        <5>1. ~roundChanged /\ ~passChanged
          BY <4>1, <4>2
        <5>2. \A n \in pending : n >= j
          BY <2>1, <2>5, <5>1 DEF RoundIsSettled
        <5>3. pending' = pending \ {j}
          BY <2>1, <2>5, <3>1, <5>1
        <5>4. \A n \in pending : n \in Nat
          BY <2>2
        <5> QED BY <2>2, <5>2, <5>3, <5>4
      <4> QED BY <2>1, <2>2, <2>5, <3>2, <4>1, <4>2 DEF RoundIsSettled, Stage, PassesOf
    <3> QED BY <3>3, <3>4
  <2> QED BY <2>1, <2>3, <2>4, <2>5, StageFacts
<1> QED BY <1>1, <1>2, <1>3, <1>4, <1>5 DEF Next

LEMMA RoundInit ==
  ASSUME Init
  PROVE  RoundIsSettled
<1>1. 1 \in DOMAIN Pipeline => Pipeline[1].passes \in Seq(PassRecords)
  BY PipelineFacts
<1>2. 1 <= Len(Pipeline) => 1 \in DOMAIN Pipeline
  BY PipelineFacts
<1>3. \A n \in PassesOf(1) : n >= 1
  BY <1>1, <1>2 DEF PassesOf
<1> QED BY <1>3 DEF Init, RoundIsSettled

\* A group is left only by the end of a round in which nothing changed.
LEMMA GroupStep ==
  ASSUME TypeOK, RoundIsSettled, [Next]_vars
  PROVE  running = "done" /\ Stage.group /\ i' # i => ~passChanged /\ pending \subseteq {j}
<1> SUFFICES ASSUME running = "done", Stage.group, i' # i
             PROVE  ~passChanged /\ pending \subseteq {j}
  OBVIOUS
<1>1. Finish
  BY DEF Next, vars, managerVars, SkipGroup, Begin, Ask, Leave, Rewrite
<1>2. Continue /\ ~Finished
  BY <1>1 DEF Finish, TypeOK
<1>3. helper = "none"
  BY <1>2 DEF RoundIsSettled
<1>4. j = Len(Stage.passes) /\ ~RoundChanged
  BY <1>2, <1>3 DEF Continue, EndRound
<1>5. ~roundChanged /\ ~passChanged
  BY <1>4 DEF RoundChanged, Changed
<1>6. \A n \in pending : n >= j
  BY <1>2, <1>5 DEF RoundIsSettled
<1>7. pending \subseteq 1 .. Len(Stage.passes) /\ Len(Stage.passes) \in Nat
  BY <1>2, StageFacts DEF RoundIsSettled
<1> QED BY <1>4, <1>5, <1>6, <1>7

-----------------------------------------------------------------------------
(* The run ends but for its rewrites.                                      *)

LEMMA FormFacts ==
  ASSUME NEW required \in LoopForms
  PROVE  /\ Needed(required) \in {"none", "LoopSimplify", "LCSSA"}
         /\ loop_form_ = Simplified => Needed(required) \in {"none", "LCSSA"}
         /\ loop_form_ = LCSSAForm => Needed(required) = "none"
BY DEF Needed, LoopForms, None, Simplified, LCSSAForm

LEMMA TurnsFacts ==
  /\ Turns \in Nat /\ Len(function_list_) \in Nat
  /\ Turns = 2 * Len(function_list_) + 1
  /\ HelperTurns("none") = 0 /\ HelperTurns("LCSSA") = Turns + 1
  /\ HelperTurns("LoopSimplify") = 2 * (Turns + 1)
<1>1. Len(function_list_) \in Nat
  BY FunctionsAssumption
<1> QED BY <1>1 DEF Turns, HelperTurns

\* A pass at one of its functions has so many left.
LEMMA FuncLeft ==
  ASSUME TypeOK, running \in {"asking", "asked"}
  PROVE  /\ func \in 1 .. Len(function_list_) /\ ~Finished
         /\ HelperTurns(helper) \in Nat
<1>1. func \in 1 .. Len(function_list_) /\ ~Finished
  BY FunctionsAssumption DEF TypeOK
<1> QED BY <1>1, TurnsFacts DEF TypeOK

LEMMA BeginComesNearer ==
  ASSUME TypeOK, Begin
  PROVE  /\ i' = i /\ Unsettled' = Unsettled /\ j' = j
         /\ StepsOfPass' \in 0 .. StepsOfPass - 1
<1>1. /\ running = "no" /\ running' = "asking" /\ func' = 1
      /\ helper' = Needed(Stage.passes[j].requires)
      /\ i' = i /\ j' = j /\ roundChanged' = roundChanged /\ passChanged' = FALSE
      /\ ~Finished
  BY DEF Begin
<1>2. Stage.passes[j].requires \in LoopForms
  BY <1>1, StageFacts DEF PassRecords
<1>3. HelperTurns(helper') \in Nat
  BY <1>1, <1>2, FormFacts, TurnsFacts
<1>4. StepsOfPass = HelperTurns(helper') + Turns
  BY <1>1 DEF StepsOfPass
<1>5. StepsOfPass' = HelperTurns(helper') + (2 * (Len(function_list_) - 1) + 2)
  BY <1>1 DEF StepsOfPass, HelperTurns, Turns
<1>6. Len(function_list_) # 0
  BY FunctionsAssumption
<1>7. Unsettled' = Unsettled
  BY <1>1 DEF Unsettled
<1>8. StepsOfPass' \in 0 .. StepsOfPass - 1
  BY <1>3, <1>4, <1>5, <1>6, TurnsFacts
<1> QED BY <1>1, <1>7, <1>8

LEMMA AskComesNearer ==
  ASSUME TypeOK, Ask
  PROVE  /\ i' = i /\ Unsettled' = Unsettled /\ j' = j
         /\ StepsOfPass' \in 0 .. StepsOfPass - 1
<1>1. /\ running = "asking" /\ running' = "asked" /\ func' = func
      /\ helper' = helper /\ i' = i /\ j' = j
      /\ roundChanged' = roundChanged /\ passChanged' = passChanged
  BY DEF Ask, managerVars
<1>2. /\ StepsOfPass = HelperTurns(helper) + (2 * (Len(function_list_) - func) + 2)
      /\ StepsOfPass' = HelperTurns(helper) + (2 * (Len(function_list_) - func) + 1)
  BY <1>1 DEF StepsOfPass, HelperTurns, Turns
<1>3. Unsettled' = Unsettled
  BY <1>1 DEF Unsettled
<1>4. /\ HelperTurns(helper) \in Nat /\ Len(function_list_) \in Nat
      /\ func \in 1 .. Len(function_list_)
  BY <1>1, FuncLeft, TurnsFacts
<1> QED BY <1>1, <1>2, <1>3, <1>4

LEMMA LeaveComesNearer ==
  ASSUME TypeOK, Leave
  PROVE  /\ i' = i /\ Unsettled' = Unsettled /\ j' = j
         /\ StepsOfPass' \in 0 .. StepsOfPass - 1
<1>1. /\ running = "asked" /\ func' = func + 1
      /\ running' = IF func = Len(function_list_) THEN "done" ELSE "asking"
      /\ helper' = helper /\ i' = i /\ j' = j
      /\ roundChanged' = roundChanged /\ passChanged' = passChanged
  BY DEF Leave, managerVars, NextFunction
<1>2. StepsOfPass = HelperTurns(helper) + (2 * (Len(function_list_) - func) + 1)
  BY <1>1 DEF StepsOfPass
<1>3. StepsOfPass' = HelperTurns(helper)
        + (IF func = Len(function_list_) THEN 0
           ELSE 2 * (Len(function_list_) - (func + 1)) + 2)
  BY <1>1 DEF StepsOfPass, HelperTurns, Turns
<1>4. Unsettled' = Unsettled
  BY <1>1 DEF Unsettled
<1>5. /\ HelperTurns(helper) \in Nat /\ Len(function_list_) \in Nat
      /\ func \in 1 .. Len(function_list_)
  BY <1>1, FuncLeft, TurnsFacts
<1>6. CASE func = Len(function_list_)
  <2>1. StepsOfPass' = HelperTurns(helper)
    BY <1>3, <1>5, <1>6
  <2> QED BY <1>1, <1>2, <1>4, <1>5, <1>6, <2>1
<1>7. CASE func # Len(function_list_)
  <2>1. StepsOfPass' = HelperTurns(helper) + (2 * (Len(function_list_) - (func + 1)) + 2)
    BY <1>3, <1>7
  <2> QED BY <1>1, <1>2, <1>4, <1>5, <1>7, <2>1
<1> QED BY <1>6, <1>7

\* A helper leaves the form it makes, so that the next one needed is a later one.
LEMMA HelperComesNearer ==
  ASSUME TypeOK, Finish, helper # "none"
  PROVE  /\ i' = i /\ j' = j
         /\ \/ Unsettled' < Unsettled
            \/ Unsettled' = Unsettled /\ StepsOfPass' \in 0 .. StepsOfPass - 1
<1>1. /\ running = "done" /\ running' = "no" /\ ~Finished
      /\ i' = i /\ j' = j /\ roundChanged' = roundChanged
  BY DEF Finish, Continue, TypeOK
<1>2. Stage.passes[j].requires \in LoopForms
  BY <1>1, StageFacts DEF PassRecords
<1>3. StepsOfPass = HelperTurns(helper)
  BY <1>1, TurnsFacts DEF StepsOfPass, TypeOK
<1>4. PICK next : next = Needed(Stage.passes[j].requires)'
  OBVIOUS
<1>5. StepsOfPass' = HelperTurns(next) + Turns
  BY <1>1, <1>4 DEF StepsOfPass, HelperTurns, Turns, Stage
<1>6. Needed(Stage.passes[j].requires)' =
        IF loop_form_' >= Stage.passes[j].requires THEN "none"
        ELSE IF loop_form_' < Simplified THEN "LoopSimplify" ELSE "LCSSA"
  BY <1>1 DEF Needed, Stage
<1>7. CASE helper = "LoopSimplify"
  <2>1. loop_form_' = Simplified
    BY <1>7, HelperFacts DEF Finish, FormTaken, ThisPass, None, Simplified
  <2>2. next \in {"none", "LCSSA"}
    BY <1>4, <1>6, <2>1 DEF Simplified
  <2>3. StepsOfPass' \in 0 .. StepsOfPass - 1
    BY <1>3, <1>5, <1>7, <2>2, TurnsFacts
  <2> QED BY <1>1, <2>3 DEF Unsettled
<1>8. CASE helper = "LCSSA"
  <2>1. loop_form_' = LCSSAForm
    BY <1>8, HelperFacts DEF Finish, FormTaken, ThisPass, None, LCSSAForm
  <2>2. next = "none"
    BY <1>2, <1>4, <1>6, <2>1 DEF LoopForms, None, Simplified, LCSSAForm
  <2>3. StepsOfPass' \in 0 .. StepsOfPass - 1
    BY <1>3, <1>5, <1>8, <2>2, TurnsFacts
  <2> QED BY <1>1, <2>3 DEF Unsettled
<1> QED BY <1>7, <1>8 DEF TypeOK

\* After a pass of the stage: the next one, the round that settles things, or the next stage.
LEMMA FinishComesNearer ==
  ASSUME TypeOK, Finish, helper = "none"
  PROVE  \/ i' > i
         \/ i' = i /\ Unsettled' < Unsettled
         \/ i' = i /\ Unsettled' = Unsettled /\ j' > j
<1>1. running = "done" /\ running' = "no" /\ ~Finished /\ Continue
  BY DEF Finish, TypeOK
<1>2. i \in Nat
  BY PipelineFacts DEF TypeOK
<1>3. CASE ~Stage.group
  BY <1>1, <1>2, <1>3 DEF Continue
<1>4. CASE Stage.group
  <2>1. ThisPass = Stage.passes[j]
    BY DEF ThisPass
  <2>2. ~Stage.passes[j].always
    <3>1. i \in DOMAIN Pipeline /\ PassesOf(i) = DOMAIN Pipeline[i].passes
      BY <1>1, PipelineFacts DEF TypeOK, Finished, PassesOf
    <3> QED BY <1>1, <1>4, <3>1, StageFacts, GroupsAssumption DEF Stage
  <2>3. RoundChanged <=> roundChanged \/ passChanged
    BY <2>1, <2>2 DEF RoundChanged, Changed
  <2>4. Unsettled = IF RoundChanged THEN 1 ELSE 0
    BY <1>1, <2>3 DEF Unsettled
  <2>5. CASE j = Len(Stage.passes) /\ RoundChanged
    BY <1>1, <1>4, <2>4, <2>5 DEF Continue, EndRound, Unsettled
  <2>6. CASE j = Len(Stage.passes) /\ ~RoundChanged
    BY <1>1, <1>2, <1>4, <2>6 DEF Continue, EndRound
  <2>7. CASE j # Len(Stage.passes)
    <3>1. i' = i /\ j' = j + 1 /\ roundChanged' = RoundChanged
      BY <1>1, <1>4, <2>7 DEF Continue
    <3>2. Unsettled' = Unsettled
      BY <1>1, <2>4, <3>1 DEF Unsettled
    <3>3. j \in Nat
      BY <1>1, StageFacts
    <3> QED BY <3>1, <3>2, <3>3
  <2> QED BY <2>5, <2>6, <2>7
<1> QED BY <1>3, <1>4

LEMMA RunStep ==
  ASSUME TypeOK, Next
  PROVE  \/ changes' # changes
         \/ i' > i
         \/ i' = i /\ Unsettled' < Unsettled
         \/ i' = i /\ Unsettled' = Unsettled /\ j' > j
         \/ /\ i' = i /\ Unsettled' = Unsettled /\ j' = j
            /\ StepsOfPass' \in 0 .. StepsOfPass - 1
<1>1. CASE SkipGroup
  <2>1. i \in Nat /\ i' = i + 1
    BY <1>1, PipelineFacts DEF TypeOK, SkipGroup
  <2> QED BY <2>1
<1>2. CASE Rewrite
  <2>1. changes \in Nat /\ changes' = changes + 1
    BY <1>2, FunctionsAssumption DEF TypeOK, Rewrite
  <2> QED BY <2>1
<1>3. CASE Begin
  BY <1>3, BeginComesNearer
<1>4. CASE Ask
  BY <1>4, AskComesNearer
<1>5. CASE Leave
  BY <1>5, LeaveComesNearer
<1>6. CASE Finish
  BY <1>6, HelperComesNearer, FinishComesNearer
<1> QED BY <1>1, <1>2, <1>3, <1>4, <1>5, <1>6 DEF Next

-----------------------------------------------------------------------------
(* The theorems.                                                           *)

LEMMA Invariance == Spec => []IInv
<1>1. Init => IInv
  <2> SUFFICES ASSUME Init PROVE IInv
    OBVIOUS
  <2>1. FormIsTrue
    BY DEF Init, FormIsTrue, LoopForms, None, Simplified, LCSSAForm
  <2> QED BY <2>1, TypeInit, CacheInit, RoundInit DEF IInv, CacheInv
<1>2. IInv /\ [Next]_vars => IInv'
  <2> SUFFICES ASSUME IInv, [Next]_vars PROVE IInv'
    OBVIOUS
  <2>1. TypeOK' /\ CacheInv' /\ FormIsTrue' /\ RoundIsSettled'
    BY TypeStep, CacheStep, FormStep, RoundStep DEF IInv, CacheInv
  <2> QED BY <2>1 DEF IInv, CacheInv
<1> QED BY <1>1, <1>2, PTL DEF Spec

\* The variables keep their types.
THEOREM TypeCorrect == Spec => []TypeOK
<1>1. IInv => TypeOK
  BY DEF IInv
<1> QED BY <1>1, Invariance, PTL

\* Whatever passes run, in whatever order, no cached analysis is left pointing
\* to one that was dropped.
THEOREM NothingDangles == Spec => []NoDangling
<1>1. IInv => NoDangling
  BY DEF IInv
<1> QED BY <1>1, Invariance, PTL

\* Passes whose PreservedAnalyses cover their edits hand a cache on that
\* describes the IR.
THEOREM CacheStaysCurrent == Spec => []CacheIsCurrent
<1>1. IInv => CacheIsCurrent
  BY DEF IInv
<1> QED BY <1>1, Invariance, PTL

\* ... so that what a pass asks for describes the function it works on.
THEOREM AnswersAreCurrent == Spec => []QueriesAreCurrent
<1>1. IInv => QueriesAreCurrent
  <2> SUFFICES ASSUME IInv, running = "asked", NEW k \in ThisPass.asks \cap Kinds
               PROVE  functionCaches_[F][k] = "current"
    BY DEF QueriesAreCurrent
  <2>1. func \in DOMAIN function_list_ /\ F \in Funcs /\ func \in Nat
    BY FunctionFacts DEF IInv, TypeOK, F
  <2>2. functionCaches_[F][k] \in States
    BY <2>1 DEF IInv, TypeOK, AnalysisManagerTypeOK
  <2>3. functionCaches_[F][k] # "none"
    BY DEF IInv, AnswersAreThere
  <2>4. functionCaches_[F][k] # "stale"
    BY <2>1 DEF IInv, RestIsCurrent, F
  <2> QED BY <2>2, <2>3, <2>4 DEF States
<1> QED BY <1>1, Invariance, PTL

\* A pass that requires a loop form finds it.
THEOREM FormsAreThere == Spec => []RequiredFormHolds
<1>1. IInv => RequiredFormHolds
  BY DEF IInv, FormIsTrue, RequiredFormHolds
<1> QED BY <1>1, Invariance, PTL

\* A fixed-point group ends in a fixed point of all its passes.
THEOREM GroupsEndInFixedPoints == Spec => GroupsAreFixedPoints
<1>1. IInv /\ [Next]_vars
      => [running = "done" /\ Stage.group /\ i' # i => ~passChanged /\ pending \subseteq {j}]_vars
  BY GroupStep DEF IInv
<1> QED BY <1>1, Invariance, PTL DEF Spec, GroupsAreFixedPoints

\* Between two rewrites run takes only so many steps: stages, rounds, passes and
\* helpers are all used up, so it ends if the passes run out of things to rewrite.
THEOREM RunsComeNearer == Spec => RunComesNearer
<1> DEFINE Nearer ==
      \/ changes' # changes
      \/ i' > i
      \/ i' = i /\ Unsettled' < Unsettled
      \/ i' = i /\ Unsettled' = Unsettled /\ j' > j
      \/ /\ i' = i /\ Unsettled' = Unsettled /\ j' = j
         /\ StepsOfPass' \in 0 .. StepsOfPass - 1
<1>1. TypeOK /\ [Next]_vars => [Nearer]_vars
  BY RunStep
<1> QED BY <1>1, TypeCorrect, PTL DEF Spec, RunComesNearer
=============================================================================
