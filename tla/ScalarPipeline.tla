--------------------------- MODULE ScalarPipeline ---------------------------
(***************************************************************************)
(* From a syntax tree through IR generation and the pass pipeline of       *)
(* main.cpp (buildArm64Pipeline), as PassManager::run works through it:    *)
(* single passes, and fixed-point groups that go round until a round       *)
(* changes nothing.  The passes that are modelled stand in their order;    *)
(* the others are left out.                                                *)
(***************************************************************************)
EXTENDS GenIR, Mem2Reg, SCCP, DeadCode, CodePlacement, RedundancyElimination, TailCalls

CONSTANTS
  Cases,  \* the programs
  Inputs  \* what they read

\* The programs come to an end, and do what the language defines.
ASSUME ProgramsDefined ==
  \A c \in Cases, a \in Inputs : <<"undefined">> \notin ToSet(Meaning(c, a))

VARIABLES
  source,   \* the syntax tree
  expected, \* what it means, for each input
  program,  \* the intermediate code, none before it has been generated
  next,     \* the entry of the pipeline to come
  at,       \* the pass of the group that is running, 0 outside of groups
  roundChanged,
  irChangedSinceFixedPoint

vars == <<source, expected, program, next, at, roundChanged, irChangedSinceFixedPoint>>

-----------------------------------------------------------------------------
(* The pipeline.                                                           *)

Single(pass) == <<[passes |-> <<pass>>, group |-> FALSE, runOnClean |-> FALSE]>>
FixedPoint(passes, runOnClean) == <<[passes |-> passes, group |-> TRUE, runOnClean |-> runOnClean]>>

\* addScalarSimplifyPasses and the groups made of them.
ScalarSimplify == <<"SCCP", "CFGSimplifyLite", "DeadCodeEliminate">>
ScalarSimplifyClosure == FixedPoint(ScalarSimplify, FALSE)
LightweightMemoryClosure == FixedPoint(<<"DeadStoreEliminateLite">> \o ScalarSimplify, FALSE)
MemoryCleanup(runOnClean) == Single("DeadStoreEliminate") \o FixedPoint(ScalarSimplify, runOnClean)

\* buildArm64Pipeline, in two parts: up to the loop passes, and behind them.
Pipeline ==
  Single("CFGSimplify") \o Single("Mem2Reg") \o Single("EarlyCSE") \o MemoryCleanup(TRUE)
    \o Single("TailRecursionEliminate")
    \o ScalarSimplifyClosure \o Single("CodeSink")
    \o Single("InlineExpand") \o Single("EarlyCSE") \o Single("GlobalScalarPromotion")
    \o Single("Mem2Reg") \o MemoryCleanup(FALSE)
    \o Single("CFGSimplify") \o ScalarSimplifyClosure \o ScalarSimplifyClosure
    \o Single("CFGSimplify") \o ScalarSimplifyClosure
    \o ScalarSimplifyClosure \o ScalarSimplifyClosure \o ScalarSimplifyClosure
    \o ScalarSimplifyClosure \o Single("CFGSimplify") \o ScalarSimplifyClosure
    \o Single("LateMemoryForwarding") \o ScalarSimplifyClosure \o ScalarSimplifyClosure
    \o Single("CFGSimplify") \o Single("LateMemoryForwarding") \o MemoryCleanup(FALSE)
    \o Single("GVN") \o LightweightMemoryClosure \o Single("CodeSink") \o ScalarSimplifyClosure
    \o Single("TailDuplication") \o Single("UnifyExitNodes")
    \o Single("CFGSimplify") \o ScalarSimplifyClosure \o Single("TailCallOpt")

\* What a pass makes of function f.
OnFunction(pass, f, name, summaries) ==
  CASE pass = "CFGSimplify" -> SimplifyCFG(f, TRUE)
    [] pass = "Mem2Reg" -> Mem2RegOn(f)
    [] pass = "EarlyCSE" -> EarlyCSEOn(f, name, summaries)
    [] pass = "GVN" -> GVNOn(f, name, summaries)
    [] pass = "DeadStoreEliminate" -> EliminateDeadStores(f, name, summaries, TRUE)
    [] pass = "LateMemoryForwarding" -> ForwardMemory(f, name, summaries)
    [] pass = "CodeSink" -> CodeSinkOn(f)
    [] pass = "TailDuplication" -> TailDuplicationOn(f)
    [] pass = "UnifyExitNodes" -> UnifyExitNodesOn(f)
    [] pass = "TailRecursionEliminate" -> EliminateTailRecursion(f, name)
    [] pass = "TailCallOpt" -> TailCallOptOn(f)
\* ... if it is one of the passes of a group.
OnFunctionInGroup(pass, f, name, summaries) ==
  CASE pass = "CFGSimplifyLite" -> SimplifyCFG(f, FALSE)
    [] pass = "SCCP" -> SCCPOn(f)
    [] pass = "DeadStoreEliminateLite" -> EliminateDeadStores(f, name, summaries, FALSE)

\* What a pass makes of the program.
OnEvery(pass, m, summaries) ==
  [m EXCEPT !.fns = [name \in DOMAIN @ |->
     IF pass = "GlobalScalarPromotion" THEN PromoteGlobals(m, summaries, name)
     ELSE OnFunction(pass, @[name], name, summaries)]]
Transformed(pass, m) == IF pass = "InlineExpand" THEN InlineExpand(m) ELSE OnEvery(pass, m, Summaries(m))
OnEveryInGroup(pass, m, summaries) ==
  [m EXCEPT !.fns = [name \in DOMAIN @ |-> OnFunctionInGroup(pass, @[name], name, summaries)]]
TransformedInGroup(pass, m) ==
  IF pass = "DeadCodeEliminate" THEN DeadCodeEliminate(m) ELSE OnEveryInGroup(pass, m, Summaries(m))

-----------------------------------------------------------------------------
(* PassManager::run.                                                       *)

NoProgram == [fns |-> <<>>, order |-> <<>>, globals |-> <<>>]
Generated == program # NoProgram
PipelineDone == next > Len(Pipeline)
Stage == Pipeline[next]
Unchanged == UNCHANGED <<source, expected>>

GenerateIR ==
  /\ ~Generated
  /\ program' = Generate(source)
  /\ UNCHANGED <<next, at, roundChanged, irChangedSinceFixedPoint>> /\ Unchanged

RunSinglePass ==
  /\ Generated /\ ~PipelineDone /\ ~Stage.group
  /\ program' = Transformed(Stage.passes[1], program)
  /\ irChangedSinceFixedPoint' = (irChangedSinceFixedPoint \/ program' # program)
  /\ next' = next + 1
  /\ UNCHANGED <<at, roundChanged>> /\ Unchanged

\* Nothing has changed since the last group was left.
SkipGroup ==
  /\ Generated /\ ~PipelineDone /\ Stage.group /\ at = 0
  /\ ~irChangedSinceFixedPoint /\ ~Stage.runOnClean
  /\ next' = next + 1
  /\ UNCHANGED <<program, at, roundChanged, irChangedSinceFixedPoint>> /\ Unchanged

BeginRound ==
  /\ Generated /\ ~PipelineDone /\ Stage.group /\ at = 0
  /\ irChangedSinceFixedPoint \/ Stage.runOnClean
  /\ at' = 1 /\ roundChanged' = FALSE
  /\ UNCHANGED <<program, next, irChangedSinceFixedPoint>> /\ Unchanged

\* The pass behind it is skipped.
RunPassOfGroup_skips ==
  /\ at # 0 /\ at <= Len(Stage.passes)
  /\ program' = TransformedInGroup(Stage.passes[at], program)
  /\ roundChanged' = (roundChanged \/ program' # program)
  /\ at' = at + 2
  /\ UNCHANGED <<next, irChangedSinceFixedPoint>> /\ Unchanged

RunPassOfGroup ==
  /\ at # 0 /\ at <= Len(Stage.passes)
  /\ program' = TransformedInGroup(Stage.passes[at], program)
  /\ roundChanged' = (roundChanged \/ program' # program)
  /\ at' = at + 1
  /\ UNCHANGED <<next, irChangedSinceFixedPoint>> /\ Unchanged

\* Another round if anything has changed in this one.
EndRound ==
  /\ at # 0 /\ at > Len(Stage.passes)
  /\ IF roundChanged THEN at' = 1 /\ UNCHANGED <<next, irChangedSinceFixedPoint>>
     ELSE at' = 0 /\ next' = next + 1 /\ irChangedSinceFixedPoint' = FALSE
  /\ roundChanged' = FALSE
  /\ UNCHANGED program /\ Unchanged

-----------------------------------------------------------------------------
Init ==
  /\ source \in Cases
  /\ expected = [a \in Inputs |-> Meaning(source, a)]
  /\ program = NoProgram
  /\ next = 1 /\ at = 0
  /\ roundChanged = FALSE /\ irChangedSinceFixedPoint = FALSE

\* The pipeline is through; every other end is a deadlock.
Finish == PipelineDone /\ UNCHANGED vars

Next ==
  \/ GenerateIR \/ RunSinglePass \/ SkipGroup \/ BeginRound \/ RunPassOfGroup \/ EndRound
  \/ Finish

Spec == Init /\ [][Next]_vars

-----------------------------------------------------------------------------
(* Properties.                                                             *)

\* Every variable keeps its type.
TypeOK ==
  /\ source \in Cases
  /\ next \in 1 .. Len(Pipeline) + 1
  /\ ~PipelineDone => at \in 0 .. Len(Stage.passes) + 1
  /\ roundChanged \in BOOLEAN /\ irChangedSinceFixedPoint \in BOOLEAN
  /\ Generated => \A name \in DOMAIN program.fns :
       /\ BlockSet(program.fns[name]) \subseteq DOMAIN program.fns[name].body
       /\ DOMAIN program.fns[name].inst \subseteq FirstLocal .. program.fns[name].next - 1

\* After IR generation and after every pass the program prints what the source
\* program means, and returns it, for every input.
BehavesAsWritten ==
  Generated => \A a \in Inputs : Observed(program, a) = expected[a]

\* Module::verify, which PassManager asks after every pass, has nothing to say:
\* the lists of predecessors and successors say what the terminators say, a PHI
\* has a value for every predecessor, and what is used dominates its use.
VerifiedBetweenPasses ==
  Generated => \A name \in DOMAIN program.fns : Verified(program.fns[name])

\* A pass of a group that changes the program leaves fewer instructions and targets of
\* branches: no group goes round for ever because one of its passes undoes or redoes what
\* another one did (passManager.cpp:307 has no limit).
Size(f) == Cardinality(Placed(f)) + FoldSet(LAMBDA b, n : n + Len(Terminator(f, b).to), 0, BlockSet(f))
Extent(m) == FoldSet(LAMBDA name, n : n + Size(m.fns[name]), Cardinality(DOMAIN m.globals), DOMAIN m.fns)
GroupsShrink == [][at # 0 /\ program' # program => Extent(program') < Extent(program)]_vars
=============================================================================
