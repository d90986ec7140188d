-------------------------------- MODULE Passes ------------------------------
(***************************************************************************)
(* The middle end's passes, each by what its driver does with the analyses *)
(* of a function: what it asks for, which aspects of the IR it rewrites,   *)
(* what it declares preserved when it changed something, and when it drops *)
(* the analyses of the function it works on.                               *)
(***************************************************************************)
EXTENDS AnalysisManager

\* enum LoopForm, compared as integers.
None == 0
Simplified == 1
LCSSAForm == 2
LoopForms == {None, Simplified, LCSSAForm}

Instructions == {"values"}
Blocks == {"values", "cfg"}
Everything == {"values", "cfg", "effects"}
Nothing == {}

(***************************************************************************)
(* sync: "atEnd" leaves the analyses to the pass manager; "restart" drops  *)
(* the function's after a rewrite and asks again; "once" drops them after  *)
(* a rewrite and goes on to the next function; "ranges" drops every range  *)
(* analysis.  always: the pass reports a change whether it made one or not.*)
(***************************************************************************)
Rewriter(asks, edits, preserves, sync) ==
  [asks |-> asks, edits |-> edits, preserves |-> preserves, sync |-> sync,
   always |-> FALSE, requires |-> None, establishes |-> None, outlines |-> FALSE]

\* A pass with only the old entry point, or one that returns none() always.
Always(pass) == [pass EXCEPT !.always = TRUE]
Requiring(form, pass) == [pass EXCEPT !.requires = form]
Establishing(form, pass) == [pass EXCEPT !.establishes = form]

\* A pass that only uses analyses of its own.
Local(edits) == Rewriter({}, edits, Nothing, "atEnd")
Legacy(edits) == Always(Local(edits))

PassRecords ==
  [asks : SUBSET (Kinds \cup {"BasicAA"}), edits : SUBSET {"values", "cfg", "effects"},
   preserves : SUBSET (Kinds \cup {"BasicAA"}),
   sync : {"atEnd", "restart", "once", "ranges"}, always : BOOLEAN,
   requires : LoopForms, establishes : LoopForms, outlines : BOOLEAN]

LITree == {"LoopInfo", "DominatorTree"}
AA == {"BasicAA"}

-----------------------------------------------------------------------------
(* Scalar passes.                                                          *)

CFGSimplify == Local(Blocks)
Mem2Reg == Rewriter({"DominatorTree", "DominanceFrontier"}, Instructions, CFGAnalyses, "atEnd")
EarlyCSE == Rewriter({"BasicAA", "DominatorTree"}, Instructions, CFGAnalyses, "atEnd")
DeadStoreEliminate ==
  Rewriter({"BasicAA", "DominatorTree"}, Instructions, CFGAnalyses, "atEnd")
InstCombine ==
  Rewriter({"DominatorTree", "RangeAnalysis"}, Instructions, CFGAnalyses, "ranges")
SCCP == Local(Blocks)
DeadCodeEliminate == Rewriter(AA, Instructions, Nothing, "atEnd")
Reassociate == Local(Instructions)
CodeSink == Rewriter(LITree, Instructions, CFGAnalyses, "atEnd")
CorrelatedValuePropagation ==
  Rewriter({"LazyValueInfo", "DominatorTree"}, Blocks, Nothing, "restart")
JumpThreadingLite == Rewriter(LITree, Blocks, Nothing, "restart")
PhiOpSink == Rewriter(LITree, Instructions, CFGAnalyses, "atEnd")
IfConversion == Local(Blocks)
IdiomRecognize == Rewriter({"LoopInfo"}, Blocks, Nothing, "restart")
LateMemoryForwarding == Rewriter(AA, Instructions, CFGAnalyses, "atEnd")
SLPVectorize == Rewriter(AA, Instructions, Nothing, "atEnd")
VectorCombine == Rewriter({}, Instructions, CFGAnalyses, "atEnd")
SplitGEP == Rewriter(LITree, Instructions, CFGAnalyses, "atEnd")
GVN == Rewriter(LITree \cup AA, Instructions, CFGAnalyses, "atEnd")
LateValueCleanup == Local(Instructions)
TailCallOpt == Local(Blocks)

\* Module and function transformations without analyses.
TailRecursionEliminate == Legacy(Blocks)
InlineExpand == Legacy(Blocks)
GlobalScalarPromotion == Legacy(Instructions)
TailDuplication == Legacy(Blocks)
UnifyExitNodes == Legacy(Blocks)
ScalarExpansion == Legacy(Blocks)
AutoMemoization == Rewriter({"BasicAA", "DominatorTree"}, Everything, Nothing, "atEnd")

-----------------------------------------------------------------------------
(* Loop passes.                                                            *)

LoopSimplify == Establishing(Simplified, Local(Blocks))
LCSSA ==
  Establishing(LCSSAForm,
    Requiring(Simplified, Rewriter(LITree, Instructions, CFGAnalyses, "atEnd")))
IndVarSimplify ==
  Establishing(LCSSAForm,
    Requiring(LCSSAForm,
      Rewriter({"LoopInfo", "ScalarEvolution"}, Instructions, {"BasicAA"}, "restart")))
SimpleLoopUnswitch == Local(Blocks)
LoopRotate == Local(Blocks)
inductiveRangeCheckElimination == Rewriter(LITree, Instructions, CFGAnalyses, "atEnd")
LICM ==
  Requiring(Simplified, Rewriter({"BasicAA", "LoopInfo"}, Instructions, Nothing, "restart"))
LoopDeletion == Requiring(LCSSAForm, Local(Blocks))
LoopFusion == Rewriter({"BasicAA", "LoopInfo"}, Blocks, Nothing, "restart")
LoopInvariantReduction == Rewriter({}, Blocks, Nothing, "once")
LoopSkewing == Rewriter({"BasicAA", "LoopInfo"}, Blocks, Nothing, "restart")
LoopInterchange == Rewriter(LITree, Blocks, Nothing, "restart")
ParallelizeLoops ==
  [Rewriter({"BasicAA", "LoopInfo", "ScalarEvolution"}, Everything, Nothing, "restart")
     EXCEPT !.outlines = TRUE]
LoopVectorize ==
  Always(Requiring(LCSSAForm, Rewriter(AA, Blocks, Nothing, "atEnd")))
IndVarStrengthReduce ==
  Always(Rewriter({"LoopInfo", "ScalarEvolution"}, Blocks, Nothing, "restart"))
LoopPeel == Requiring(LCSSAForm, Local(Blocks))
LastIterationElimination == Rewriter(AA, Blocks, Nothing, "atEnd")
\* Its Mem2Reg afterwards asks for the analyses it cleared.
LoopMemoryScalarPromotion ==
  Rewriter({"LoopInfo", "DominatorTree", "DominanceFrontier"}, Blocks, Nothing, "restart")

-----------------------------------------------------------------------------
(* buildArm64Pipeline.                                                     *)

Single(pass) == <<[passes |-> <<pass>>, group |-> FALSE, runOnClean |-> FALSE]>>
Group(passes, runOnClean) ==
  <<[passes |-> passes, group |-> TRUE, runOnClean |-> runOnClean]>>

addScalarSimplifyPasses == <<InstCombine, SCCP, CFGSimplify, DeadCodeEliminate>>
addScalarSimplifyClosure == Group(addScalarSimplifyPasses, FALSE)
addLightweightMemoryClosure ==
  Group(<<DeadStoreEliminate>> \o addScalarSimplifyPasses, FALSE)
addMemoryCleanup(runOnClean) ==
  Single(DeadStoreEliminate) \o Group(addScalarSimplifyPasses, runOnClean)

ScalarPart ==
  Single(CFGSimplify) \o Single(Mem2Reg) \o Single(EarlyCSE)
  \o addMemoryCleanup(TRUE)
  \o Single(TailRecursionEliminate) \o Single(ScalarExpansion)
  \o Single(Reassociate) \o addScalarSimplifyClosure \o Single(CodeSink)
  \o Single(LastIterationElimination) \o Single(InlineExpand) \o Single(EarlyCSE)
  \o Single(GlobalScalarPromotion) \o Single(Mem2Reg) \o Single(Reassociate)
  \o addMemoryCleanup(FALSE)
  \o Single(CFGSimplify) \o addScalarSimplifyClosure
  \o Single(Reassociate) \o addScalarSimplifyClosure
  \o Single(CorrelatedValuePropagation) \o Single(JumpThreadingLite)
  \o Single(CFGSimplify) \o addScalarSimplifyClosure

LoopPart ==
  Single(LoopSimplify) \o Single(IndVarSimplify) \o Single(SimpleLoopUnswitch)
  \o Single(LoopRotate) \o Single(PhiOpSink)
  \o Single(inductiveRangeCheckElimination) \o Single(LICM)
  \o addScalarSimplifyClosure \o Single(LoopDeletion) \o addScalarSimplifyClosure
  \o Single(LoopFusion) \o Single(LoopInvariantReduction) \o Single(LoopSkewing)
  \o Single(LoopInterchange) \o Single(ParallelizeLoops)

LateLoopPart ==
  Single(LoopSimplify) \o Single(IndVarSimplify) \o Single(LICM)
  \o addScalarSimplifyClosure
  \o Single(IfConversion) \o Single(IdiomRecognize) \o Single(LoopVectorize)
  \o Single(IndVarStrengthReduce) \o Single(IdiomRecognize) \o Single(IfConversion)
  \o Single(LoopSimplify) \o Single(LoopSimplify) \o Single(LoopPeel)
  \o addScalarSimplifyClosure \o Single(CFGSimplify) \o Single(LoopSimplify)
  \o addScalarSimplifyClosure \o Single(LateMemoryForwarding)
  \o addScalarSimplifyClosure
  \o Single(LoopSimplify) \o Single(LoopVectorize) \o Single(SLPVectorize)
  \o Single(VectorCombine) \o Single(SplitGEP) \o addScalarSimplifyClosure
  \o Single(CFGSimplify) \o Single(LateMemoryForwarding) \o addMemoryCleanup(FALSE)

LatePart ==
  Single(GVN) \o addLightweightMemoryClosure
  \o Single(CodeSink) \o addScalarSimplifyClosure
  \o Single(TailDuplication) \o Single(UnifyExitNodes)
  \o Single(CorrelatedValuePropagation) \o Single(JumpThreadingLite)
  \o Single(CFGSimplify) \o addScalarSimplifyClosure
  \o Single(LateValueCleanup) \o Single(LoopMemoryScalarPromotion)
  \o Single(AutoMemoization) \o Single(TailCallOpt)

buildArm64Pipeline == ScalarPart \o LoopPart \o LateLoopPart \o LatePart
=============================================================================
