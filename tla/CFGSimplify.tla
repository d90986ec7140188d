----------------------------- MODULE CFGSimplify -----------------------------
(***************************************************************************)
(* CFGSimplify.cpp and cfgUtils.cpp: diamonds become selects, branches on  *)
(* constants are folded, empty and unreachable blocks go, a block is       *)
(* merged with its only successor.                                         *)
(***************************************************************************)
EXTENDS ScalarAnalysis

\* Constants are objects of their own: two operands are the same constant only if
\* they are one object.
SameValue(x, y) == x = y /\ ~IsConst(x)

\* Operand k of b's terminator becomes block t.
Redirect(f, b, k, t) ==
  LET old == Terminator(f, b).to[k]
      g == RemoveEdge(f, b, old)
  IN  AddEdge([g EXCEPT !.inst[TerminatorOf(f, b)].to[k] = t], b, t)

\* removeUnreachableBlocks: reachability follows the terminators.
RemoveUnreachable(f) ==
  LET targets == [b \in DOMAIN f.body |-> IF b \in BlockSet(f) THEN SetToSeq(Targets(f, b)) ELSE <<>>]
      live == Reaching(targets, {f.blocks[1]})
      dead == BlockSet(f) \ live
      Live(list) == SelectSeq(list, LAMBDA b : b \notin dead)
      FromDead(v) == {b \in dead : IsPhi(f.inst[v]) /\ f.inst[v].bb \in Targets(f, b)}
      gone == UNION {ToSet(f.body[b]) : b \in dead}
  IN  IF dead = {} THEN f
      ELSE [f EXCEPT
              !.blocks = Live(@), !.body = [b \in DOMAIN @ |-> IF b \in dead THEN <<>> ELSE @[b]],
              !.pre = [b \in DOMAIN @ |-> IF b \in dead THEN <<>> ELSE Live(@[b])],
              !.succ = [b \in DOMAIN @ |-> IF b \in dead THEN <<>> ELSE Live(@[b])],
              !.inst = [v \in DOMAIN @ \ gone |->
                 FoldSet(LAMBDA b, i : WithoutIncoming(i, b), @[v], FromDead(v))]]

(* foldConstantBranches.                                                   *)

\* The branch of b becomes a jump to target; the PHIs of block other forget b.
JumpInstead(f, b, target, other) ==
  LET i == Terminator(f, b)
      g == RemoveEdge(RemoveEdge(RemoveIncoming(f, other, b), b, i.to[1]), b, i.to[2])
  IN  AppendJump(Delete(g, {TerminatorOf(f, b)}), b, target)
Taken(i, x) == IF x # 0 THEN i.to[1] ELSE i.to[2]
NotTaken(i, x) == IF Taken(i, x) = i.to[1] THEN i.to[2] ELSE i.to[1]

FoldBranch(f, b) ==
  LET i == Terminator(f, b) IN JumpInstead(f, b, Taken(i, i.args[1]), NotTaken(i, i.args[1]))
FoldsBranch(f, b) ==
  HasTerminator(f, b) /\ IsConditional(Terminator(f, b)) /\ IsConst(Terminator(f, b).args[1])
FoldConstantBranches(f) ==
  FoldLeft(LAMBDA g, b : IF FoldsBranch(g, b) THEN FoldBranch(g, b) ELSE g, f, f.blocks)

(* mergeEmptyBlock.                                                        *)

\* What the PHIs of target had from the empty block they have from its predecessors.
Inherit(i, b, preds) ==
  LET x == Incoming(i, b)
      kept == WithoutIncoming(i, b)
      new == SelectSeq(preds, LAMBDA p : p \notin ToSet(kept.to))
  IN  IF b \in ToSet(i.to)
      THEN [kept EXCEPT !.to = @ \o new, !.args = @ \o [k \in DOMAIN new |-> x]] ELSE i

\* The branch of p to the empty block b goes to target.
Bypass(f, b, target, p) ==
  LET ks == {k \in DOMAIN Terminator(f, p).to : Terminator(f, p).to[k] = b}
      g == FoldSet(LAMBDA k, h : Redirect(h, p, k, target), f, ks)
      to == Terminator(g, p).to
  IN  IF ks # {} /\ Len(to) = 2 /\ to[1] = to[2]
      THEN AppendJump(Delete(g, {TerminatorOf(g, p)}), p, target) ELSE g

\* A predecessor that also branches to target itself must bring the same values.
BringsSame(f, b, target, p) ==
  \A v \in ToSet(Phis(f, target)) :
    LET i == f.inst[v] IN
      {b, p} \subseteq ToSet(i.to) /\ SameValue(Incoming(i, b), Incoming(i, p))

BypassEmpty(f, b, target) ==
  LET g == [f EXCEPT !.inst = [v \in DOMAIN @ |->
             IF IsPhi(@[v]) /\ @[v].bb = target THEN Inherit(@[v], b, f.pre[b]) ELSE @[v]]]
      h == FoldLeft(LAMBDA s, p : Bypass(s, b, target, p), g, f.pre[b])
  IN  IF h.pre[b] = <<>> THEN RemoveBlock(Delete(h, {TerminatorOf(f, b)}), b) ELSE h

MergeEmpty(f, b) ==
  LET target == Terminator(f, b).to[1]
      empty == /\ b # f.blocks[1] /\ Len(f.body[b]) = 1
               /\ Terminator(f, b).op = "Br" /\ Len(Terminator(f, b).to) = 1 /\ target # b
      Shared == ToSet(f.pre[b]) \cap ToSet(f.pre[target])
      named == \E v \in ToSet(Phis(f, target)) : b \in ToSet(f.inst[v].to)
  IN  IF ~empty \/ \E p \in Shared : ~BringsSame(f, b, target, p) THEN f
      ELSE IF f.pre[b] # <<>> THEN BypassEmpty(f, b, target)
      ELSE IF named THEN f
      ELSE RemoveBlock(Delete(f, {TerminatorOf(f, b)}), b)

(* mergeLinearSuccessor.                                                   *)

MergesSuccessor(f, b) ==
  /\ HasTerminator(f, b) /\ Terminator(f, b).op = "Br" /\ Len(Terminator(f, b).to) = 1
  /\ LET s == Terminator(f, b).to[1] IN
       /\ s # b /\ s # f.blocks[1] /\ f.pre[s] = <<b>>
       /\ f.body[s] = <<>> \/ ~IsPhi(f.inst[f.body[s][1]])

MergeSuccessor(f, b) ==
  LET s == Terminator(f, b).to[1]
      cut == Delete(f, {TerminatorOf(f, b)})
      named == FoldLeft(LAMBDA g, n : RenameIncoming(g, n, s, b), cut, f.succ[s])
      moved == [named EXCEPT !.body[b] = @ \o named.body[s], !.body[s] = <<>>,
                             !.inst = [v \in DOMAIN @ |-> IF @[v].bb = s THEN [@[v] EXCEPT !.bb = b] ELSE @[v]]]
      edged == FoldLeft(LAMBDA g, n : AddEdge([g EXCEPT !.pre[n] = SelectSeq(@, LAMBDA p : p # s)], b, n),
                        moved, f.succ[s])
  IN  RemoveBlock(edged, s)

MergeFirst(f) ==
  LET bs == SelectSeq(f.blocks, LAMBDA b : MergesSuccessor(f, b)) IN
    IF bs = <<>> THEN f ELSE MergeSuccessor(f, bs[1])

(* convertDiamondsToSelect.                                                *)

SpeculationCost(i) ==
  CASE i.op \in {"Mul", "Select"} -> 3 [] i.op = "Load" -> 4 [] i.op \in {"SDiv", "SRem"} -> 8
    [] OTHER -> 1
PredictableCost == 8
UnpredictableCost == 12
Ordered(pred) == pred \notin {"EQ", "NE"}

IsJump(f, b) == HasTerminator(f, b) /\ Terminator(f, b).op = "Br" /\ Len(Terminator(f, b).to) = 1
Dest(f, b) == Terminator(f, b).to[1]
OnePred(f, b) == Len(f.pre[b]) = 1

\* The blocks on the way from the branch of b to where its ways meet: two, or one.
\* The empty set: no shape that can be converted.
Arms(f, t, e) ==
  LET diamond == IsJump(f, t) /\ IsJump(f, e) /\ Dest(f, t) = Dest(f, e) IN
    IF diamond THEN IF OnePred(f, t) /\ OnePred(f, e) THEN {t, e} ELSE {}
    ELSE IF IsJump(f, t) /\ Dest(f, t) = e THEN IF OnePred(f, t) THEN {t} ELSE {}
    ELSE IF IsJump(f, e) /\ Dest(f, e) = t /\ OnePred(f, e) THEN {e}
    ELSE {}

\* getInstrs, and canCloneBlock: PHIs of the arm are not looked at.
ArmInsts(f, b) == SelectSeq(NonPhis(f, b), LAMBDA v : ~IsTerminator(f.inst[v]))
CanClone(f, b) ==
  \A v \in ToSet(ArmInsts(f, b)) :
    /\ f.inst[v].op \in (BinaryOps \ {"SDiv", "SRem"}) \cup {"ICmp", "Select"}
    /\ \A x \in ToSet(f.inst[v].args) : Is(f, x, "PHI") => BlockOf(f, x) # b

\* A comparison of the loop's induction variable is easy to predict.
MonotonicCondition(f, c, b) ==
  \E l \in InnermostLoop(Loops(f, DominatorTree(f)), b) : \E iv \in InductionIV(f, l) :
    /\ Ordered(f.inst[c].pred)
    /\ \E k \in {1, 2} :
         Arg(f, c, k) = iv /\ (IsInst(f, Arg(f, c, 3 - k)) => BlockOf(f, Arg(f, c, 3 - k)) \notin l.blocks)

Profitable(f, c, b, insts, selects) ==
  FoldLeft(LAMBDA n, v : n + SpeculationCost(f.inst[v]), selects, insts)
    <= IF MonotonicCondition(f, c, b) THEN PredictableCost ELSE UnpredictableCost

\* The comparison stands right before the branch, which alone uses it.
BranchesOnComparison(f, b) ==
  /\ HasTerminator(f, b) /\ IsConditional(Terminator(f, b))
  /\ Terminator(f, b).to[1] # Terminator(f, b).to[2]
  /\ LET c == Terminator(f, b).args[1] IN
       /\ Len(f.body[b]) >= 2 /\ f.body[b][Len(f.body[b]) - 1] = c
       /\ Is(f, c, "ICmp") /\ HasOneUse(f, c)

\* t, e: the targets; arms: the blocks to be cloned; merge: where the ways meet.
Shape(f, b) ==
  LET t == Terminator(f, b).to[1]
      e == Terminator(f, b).to[2]
      arms == Arms(f, t, e)
  IN  [cond |-> Terminator(f, b).args[1], arms |-> arms,
       onTrue |-> IF t \in arms THEN t ELSE b, onFalse |-> IF e \in arms THEN e ELSE b,
       merge |-> IF t \in arms THEN Dest(f, t) ELSE t,
       insts |-> (IF t \in arms THEN ArmInsts(f, t) ELSE <<>>) \o (IF e \in arms THEN ArmInsts(f, e) ELSE <<>>)]
ConvertsTo(f, b, s) ==
  /\ s.arms # {}
  /\ Phis(f, s.merge) # <<>>
  /\ \A p \in ToSet(Phis(f, s.merge)) : {s.onTrue, s.onFalse} \subseteq ToSet(f.inst[p].to)
  /\ \A a \in s.arms : CanClone(f, a)
  /\ Profitable(f, s.cond, b, s.insts, Len(Phis(f, s.merge)))
Converts(f, b) == BranchesOnComparison(f, b) /\ ConvertsTo(f, b, Shape(f, b))

\* The clones of the arms and the selects, before the branch.
WithSelects(f, b, s) ==
  LET phis == Phis(f, s.merge)
      copy == [v \in ToSet(s.insts) |-> f.next - 1 + CHOOSE k \in DOMAIN s.insts : s.insts[k] = v]
      Copied(x) == IF x \in DOMAIN copy THEN copy[x] ELSE x
      Clone(i) == [i EXCEPT !.args = [k \in DOMAIN @ |-> Copied(@[k])]]
      SelectFor(i) == Select(i.ty, s.cond, Copied(Incoming(i, s.onTrue)), Copied(Incoming(i, s.onFalse)))
  IN  InsertBefore(f, TerminatorOf(f, b),
        [k \in DOMAIN s.insts |-> Clone(f.inst[s.insts[k]])]
          \o [k \in DOMAIN phis |-> SelectFor(f.inst[phis[k]])])

\* A PHI of two goes, a longer one takes the select from b.
WithoutArms(i, s, b, sel) ==
  LET kept == FoldSet(LAMBDA a, j : WithoutIncoming(j, a), i, s.arms)
  IN  IF b \in ToSet(kept.to)
      THEN [kept EXCEPT !.args = [k \in DOMAIN @ |-> IF kept.to[k] = b THEN sel ELSE @[k]]]
      ELSE [kept EXCEPT !.args = Append(@, sel), !.to = Append(@, b)]
SelectsInPlace(f, b, s, first) ==
  LET phis == Phis(f, s.merge)
      sel == [p \in ToSet(phis) |-> first - 1 + CHOOSE k \in DOMAIN phis : phis[k] = p]
      short == {p \in ToSet(phis) : Len(f.inst[p].to) = 2}
      g == ReplaceUses(f, Restrict(sel, short))
  IN  Delete([g EXCEPT !.inst = [v \in DOMAIN @ |->
        IF v \in ToSet(phis) \ short THEN WithoutArms(@[v], s, b, sel[v]) ELSE @[v]]], short)

\* The branch becomes a jump to the merge block, or its return if that is all there is.
JumpToMerge(f, b, s) ==
  LET cut == Delete(f, {TerminatorOf(f, b)})
      away == [cut EXCEPT !.pre = [c \in DOMAIN @ |->
                 SelectSeq(@[c], LAMBDA p : ~(p = b /\ c \in ToSet(f.succ[b])) /\ ~(p \in s.arms /\ c = s.merge))],
                          !.succ[b] = <<>>]
      last == Terminator(f, s.merge)
      alone == s.merge # f.blocks[1] /\ away.pre[s.merge] = <<>> /\ HasTerminator(f, s.merge)
               /\ last.op = "Ret" /\ Len(last.args) = 1
               /\ \A v \in ToSet(f.body[s.merge]) \ {TerminatorOf(f, s.merge)} :
                    IsPhi(f.inst[v]) /\ Users(f, v) = {}
  IN  IF alone THEN AppendTo(away, b, last) ELSE AppendJump(away, b, s.merge)

ConvertDiamond(f) ==
  LET bs == SelectSeq(f.blocks, LAMBDA b : Converts(f, b)) IN
    IF bs = <<>> THEN f
    ELSE LET b == bs[1]
             s == Shape(f, b)
         IN  JumpToMerge(SelectsInPlace(WithSelects(f, b, s), b, s, f.next + Len(s.insts)), b, s)

(* The pass: rounds until nothing changes.                                 *)

MergeEmptyBlocks(f) == FoldLeft(MergeEmpty, f, f.blocks)
Round(f, full) ==
  MergeFirst(IF full THEN RemoveUnreachable(MergeEmptyBlocks(FoldConstantBranches(ConvertDiamond(f)))) ELSE f)
RECURSIVE SimplifyCFG(_, _)
UnlessSettled(g, f, full) == IF g = f THEN f ELSE SimplifyCFG(g, full)
SimplifyCFG(f, full) == UnlessSettled(Round(f, full), f, full)
=============================================================================
