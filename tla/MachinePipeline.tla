--------------------------- MODULE MachinePipeline ---------------------------
(***************************************************************************)
(* The machine function pipeline (machine_pipeline.cpp): the passes one    *)
(* after the other over a selected function, from SSA form with PHIs to    *)
(* physical registers, a frame and a layout.  PHI elimination and the      *)
(* parallel copy resolver order their groups of copies step by step        *)
(* (ParallelCopy), the allocator takes a step a round, block placement     *)
(* has a choice; the other passes are one step each.                       *)
(***************************************************************************)
EXTENDS ParallelCopy, PreRA, PhiElimination, RegAlloc, PostRA, MachineSchedule,
        MachineLayout, MachineExec

CONSTANTS
  Cases,  \* pairs of a selected function and an optimization level
  Inputs  \* the arguments the function is run with

\* The runs that are compared come to an end.
ASSUME RunsEnd ==
  \A c \in Cases, a \in Inputs : Last(Observed(c[1], a)) # <<"runs on">>

VARIABLES
  selected, \* the function as it was selected
  level,    \* the optimization level
  next,     \* the pass to come, in Pipeline(level)
  work,     \* the groups of copies the pass under way has still to order
  place,    \* the group being ordered and where it goes: none or one
  repair    \* what the allocator carries from round to round

vars == <<selected, level, next, work, place, repair, phiVars, copyVars>>
constantVars == <<selected, level>>

\* buildMachinePipeline.
Pipeline(n) ==
  LET Optional(passes) == IF n >= 1 THEN passes ELSE <<>> IN
    Optional(<<"MachineConstantCSE", "AArch64PreRAPeephole", "SinglePredecessorMaterializationSink",
               "AArch64ConditionOptimizer", "MachineExpressionCSE", "MachineDCE">>)
    \o <<"PHIElimination">>
    \o Optional(<<"SinglePredecessorMaterializationSink", "PostPhiConstantHoisting",
                  "MachineConstantCSE", "SinglePredecessorMaterializationSink",
                  "AArch64BranchFolding">>)
    \o <<"UnreachableMachineBlockElimination">>
    \o Optional(<<"A53MachineScheduler">>)
    \o <<"GraphColoringRegisterAllocator", "PostRAParallelCopyResolver",
         "AArch64FinalizeTiedOperands">>
    \o (IF n >= 1 THEN <<"PostRAPhysicalCleanup">> ELSE <<"PostRARedundantCopyElimination">>)
    \o <<"AArch64FrameLowering">>
    \o Optional(<<"MachineBlockPlacement">>)
    \o <<"AArch64ExpandConstantMaterialization">>
    \o Optional(<<"A53MachineScheduler">>)
    \o <<"AArch64BranchRelaxation">>

Running == next <= Len(Pipeline(level)) /\ ~aborted /\ phase # "aborted"
Pass == Pipeline(level)[next]

\* The function each pass makes of f.
Transformed(pass, f) ==
  CASE pass = "MachineConstantCSE" -> ConstantCSE(f)
    [] pass = "AArch64PreRAPeephole" -> PreRAPeephole(f)
    [] pass = "SinglePredecessorMaterializationSink" -> SinglePredecessorSink(f)
    [] pass = "AArch64ConditionOptimizer" -> ConditionOptimizer(f)
    [] pass = "MachineExpressionCSE" -> ExpressionCSE(f)
    [] pass = "MachineDCE" -> DeadInstructionElimination(f)
    [] pass = "PostPhiConstantHoisting" -> ConstantHoisting(f)
    [] pass = "AArch64BranchFolding" -> BranchFolding(f)
    [] pass = "UnreachableMachineBlockElimination" -> UnreachableBlockElimination(f)
    [] pass = "A53MachineScheduler" -> Schedule(f)
    [] pass = "AArch64FinalizeTiedOperands" -> FinalizeTiedOperands(f)
    [] pass = "PostRAPhysicalCleanup" -> PhysicalCleanup(f)
    [] pass = "PostRARedundantCopyElimination" -> RedundantCopyElimination(f)
    [] pass = "AArch64FrameLowering" -> FrameLowering(f)
    [] pass = "AArch64ExpandConstantMaterialization" -> ExpandConstants(f)
    [] pass = "AArch64BranchRelaxation" -> BranchRelaxation(f)

Stepwise == {"PHIElimination", "GraphColoringRegisterAllocator", "PostRAParallelCopyResolver",
             "MachineBlockPlacement"}

\* The pass leaves f behind, and the next one is to come.
Leave(f) ==
  /\ fn' = f /\ next' = next + 1 /\ virtualRegisters' = f.created
  /\ UNCHANGED <<constantVars, pending, emitted, aborted, group, holds>>

RunPass ==
  /\ Running /\ Pass \notin Stepwise
  /\ \E f \in {Transformed(Pass, fn)} :
       (Pass = "AArch64BranchRelaxation" => "BranchesRelaxed" \in f.properties) /\ Leave(f)
  /\ UNCHANGED <<edges, phase, work, place, repair>>

PlaceBlocks ==
  /\ Running /\ Pass = "MachineBlockPlacement"
  /\ \E f \in BlockPlacement(fn) : Leave(f)
  /\ UNCHANGED <<edges, phase, work, place, repair>>

\* The allocator: one round, the last of which rewrites the function.
AllocateRound ==
  /\ Running /\ Pass = "GraphColoringRegisterAllocator"
  /\ repair.round < MaximumAllocationRounds
  /\ \E round \in {AllocationRound(fn, repair)} :
       /\ repair' = round.repair
       /\ IF round.done THEN Leave(round.f)
          ELSE /\ fn' = round.f /\ virtualRegisters' = round.f.created
               /\ UNCHANGED <<constantVars, next, pending, emitted, aborted, group, holds>>
  /\ UNCHANGED <<edges, phase, work, place>>

(* PhiElimination::run and PostRAParallelCopyResolver::run.                *)

Resting == work = <<>> /\ place = <<>>

\* The pass goes on with the groups of copies it has taken out of the code, if any.
Take(f, groups) ==
  IF groups = <<>> THEN Leave(f) /\ UNCHANGED work
  ELSE fn' = f /\ work' = groups /\ UNCHANGED <<constantVars, next, copyVars>>

NoPhis ==
  /\ Running /\ Pass = "PHIElimination" /\ Resting
  /\ "HasPHIs" \notin fn.properties
  /\ Leave(fn)
  /\ UNCHANGED <<edges, phase, work, place, repair>>

\* All edges are split and all PHIs erased before the first copy is inserted.
SplitEdges ==
  /\ Running /\ Pass = "PHIElimination" /\ Resting
  /\ "HasPHIs" \in fn.properties
  /\ FindEdges \/ SplitNext
  /\ UNCHANGED <<constantVars, next, work, place, repair, copyVars>>

EliminatePhis ==
  /\ Running /\ Pass = "PHIElimination" /\ Resting
  /\ \E done \in {EraseAllPhis(fn)} : EraseEach /\ Take(done.f, done.groups)
  /\ UNCHANGED <<place, repair>>

\* One group after the other, from the top of the function.
TakeGroup ==
  /\ Running /\ Pass = "PostRAParallelCopyResolver" /\ Resting
  /\ \E groups \in {NextGroup(fn)} : Take(WithoutGroups(fn, groups), groups)
  /\ UNCHANGED <<edges, phase, place, repair>>

StartGroup ==
  /\ Running /\ work # <<>> /\ place = <<>>
  /\ Start(Head(work).copies)
  /\ place' = <<Head(work)>> /\ work' = Tail(work)
  /\ UNCHANGED <<constantVars, phiVars, next, repair>>

OrderCopies ==
  /\ Running /\ place # <<>>
  /\ CopyStep
  /\ UNCHANGED <<constantVars, phiVars, next, work, place, repair>>

\* The copies are in the code, with the temporaries they use.
InsertCopies ==
  /\ Running /\ place # <<>> /\ pending = <<>>
  /\ fn' = [Inserted(fn, place[1].block, place[1].at, emitted) EXCEPT
              !.created = virtualRegisters,
              !.registers = @ \cup (fn.created + 1 .. virtualRegisters)]
  /\ place' = <<>>
  /\ UNCHANGED <<constantVars, edges, phase, next, work, repair, copyVars>>

-----------------------------------------------------------------------------
Init ==
  /\ \E c \in Cases : selected = c[1] /\ level = c[2]
  /\ fn = selected /\ PhiInit /\ next = 1
  /\ work = <<>> /\ place = <<>> /\ repair = NoRepair
  /\ virtualRegisters = selected.created
  /\ pending = <<>> /\ group = <<>> /\ emitted = <<>> /\ holds = <<>>
  /\ aborted = FALSE

\* The pipeline is through; every other end is a deadlock.
Ended == next > Len(Pipeline(level)) /\ UNCHANGED vars

Next ==
  \/ RunPass \/ PlaceBlocks \/ AllocateRound
  \/ NoPhis \/ SplitEdges \/ EliminatePhis \/ TakeGroup \/ StartGroup \/ OrderCopies \/ InsertCopies
  \/ Ended

Spec == Init /\ [][Next]_vars

-----------------------------------------------------------------------------
(* Properties.                                                             *)

\* The function is whole: no group of copies is out of the code.
Whole == Resting /\ pending = <<>> /\ ~aborted /\ phase = "outside"

\* After every pass, and after every round of the allocator, the function does
\* what the selected one does: the same calls with the same arguments and
\* memory, the same result, and the registers of its caller are as they were.
BehavesAsSelected ==
  Whole => \A a \in Inputs : Observed(fn, a) = Observed(selected, a)

\* MachineVerifier, which the pass manager asks after every pass, has nothing
\* to say of any of them (machine_pass_manager.cpp:40).
VerifiedBetweenPasses == Whole /\ repair = NoRepair => Verified(fn)

\* The lists of successors, which liveness, placement and relaxation read, say
\* what the terminators say: the targets of the branches, and the next block if
\* no branch or return is the last instruction.
EdgesMatchTerminators ==
  Whole => \A b \in Blocks(fn) : Successors(fn, b) = Exits(fn, b)

\* The allocator comes to an end before its rounds are used up, where it would abort
\* (regalloc.cpp:680): no register that a spill made is spilled again, which would
\* repair nothing however often it was done.
AllocationEnds ==
  /\ repair.round < MaximumAllocationRounds
  /\ DOMAIN repair.slots \cap fn.temporaries = {}
=============================================================================
