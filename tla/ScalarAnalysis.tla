--------------------------- MODULE ScalarAnalysis ---------------------------
(***************************************************************************)
(* What the passes ask about the shape of a function: reverse post order,  *)
(* the dominator tree and its frontiers (dominanceAnalysis), natural loops *)
(* and their induction variables (loopInfo), and what the verifier of the  *)
(* representation demands of a function (verify.cpp).  An analysis reads   *)
(* the lists of predecessors and successors; the verifier compares them    *)
(* with the terminators.                                                   *)
(***************************************************************************)
EXTENDS ScalarIR

\* The function g; TLC computes all its values at once instead of at every application.
Table(g) == g @@ <<>>

\* Blocks that can be reached from from along the lists next.
RECURSIVE Closure(_, _, _)
Closure(next, from, seen) ==
  LET new == UNION {ToSet(next[b]) : b \in from} \ seen IN
    IF new = {} THEN seen ELSE Closure(next, new, seen \cup new)
Reaching(next, from) == Closure(next, from, from)

\* computeRPO: depth first along the successors, the reverse of the order of leaving.
RECURSIVE Search(_, _, _)
Search(f, s, b) ==
  IF b \in s.seen THEN s
  ELSE LET below == FoldLeft(LAMBDA t, c : Search(f, t, c), [s EXCEPT !.seen = @ \cup {b}], f.succ[b])
       IN  [below EXCEPT !.order = <<b>> \o @]
ReversePostOrder(f) == Search(f, [seen |-> {}, order |-> <<>>], f.blocks[1]).order

\* The greatest sets that satisfy the equations of dominance over the predecessors.
RECURSIVE Narrow(_, _, _)
Narrow(f, order, dom) ==
  LET Of(b) == {b} \cup
        IF b = order[1] THEN {}
        ELSE {d \in ToSet(order) : \A p \in ToSet(f.pre[b]) \cap ToSet(order) : d \in dom[p]}
      new == Table([b \in ToSet(order) |-> Of(b)])
  IN  IF new = dom THEN dom ELSE Narrow(f, order, new)

\* DominatorTreeAnalysis: the reachable blocks in order, and who dominates each.
DominatorTree(f) ==
  LET order == ReversePostOrder(f)
  IN  [order |-> order, dom |-> Narrow(f, order, [b \in ToSet(order) |-> ToSet(order)])]

Reachable(dt, b) == b \in DOMAIN dt.dom
Dominates(dt, a, b) == b \in DOMAIN dt.dom /\ a \in dt.dom[b]
IDom(dt, b) ==
  LET proper == dt.dom[b] \ {b} IN
    IF proper = {} THEN NoBlock
    ELSE CHOOSE d \in proper : Cardinality(dt.dom[d]) = Cardinality(proper)
Children(dt, b) == SelectSeq(dt.order, LAMBDA c : IDom(dt, c) = b)
Depth(dt, b) == Cardinality(dt.dom[b]) - 1
CommonDominator(dt, a, b) ==
  CHOOSE d \in dt.dom[a] \cap dt.dom[b] :
    Cardinality(dt.dom[d]) = Cardinality(dt.dom[a] \cap dt.dom[b])
\* dominates(Instruction, Instruction).
DominatesInst(f, dt, v, u) ==
  IF BlockOf(f, v) = BlockOf(f, u) THEN v # u /\ Position(f, v) < Position(f, u)
  ELSE Dominates(dt, BlockOf(f, v), BlockOf(f, u))

\* DominanceFrontierAnalysis: joins that a block dominates a predecessor of, but not properly.
Frontier(f, dt, b) ==
  {j \in BlockSet(f) :
     /\ Reachable(dt, j) /\ Len(f.pre[j]) >= 2
     /\ \E p \in ToSet(f.pre[j]) : Reachable(dt, p) /\ b \in dt.dom[p]
     /\ b \notin dt.dom[j] \ {j}}

-----------------------------------------------------------------------------
(* LoopInfo.                                                               *)

LoopHeaders(f, dt) == {h \in BlockSet(f) : \E l \in BlockSet(f) : h \in ToSet(f.succ[l]) /\ Dominates(dt, h, l)}
Latches(f, dt, h) == SelectSeq(f.blocks, LAMBDA l : h \in ToSet(f.succ[l]) /\ Dominates(dt, h, l))
LoopBlocks(f, dt, h) == Closure(f.pre, ToSet(Latches(f, dt, h)) \ {h}, ToSet(Latches(f, dt, h)) \cup {h})

\* The only way into the loop, if it is a block that only jumps there.
Preheader(f, loop) ==
  LET outside == ToSet(f.pre[loop.header]) \ loop.blocks IN
    IF Cardinality(outside) = 1 /\ \A p \in outside : f.succ[p] = <<loop.header>> /\ Len(Terminator(f, p).to) = 1
    THEN CHOOSE p \in outside : TRUE ELSE NoBlock
LoopOf(f, dt, h) ==
  LET loop == [header |-> h, latches |-> Latches(f, dt, h), blocks |-> LoopBlocks(f, dt, h)]
  IN  [preheader |-> Preheader(f, loop)] @@ loop
Loops(f, dt) == {LoopOf(f, dt, h) : h \in LoopHeaders(f, dt)}

LoopsAround(loops, b) == {l \in loops : b \in l.blocks}
LoopDepth(loops, b) == Cardinality(LoopsAround(loops, b))
\* getLoopFor, in a set of no or one.
InnermostLoop(loops, b) ==
  {l \in LoopsAround(loops, b) : \A k \in LoopsAround(loops, b) : Cardinality(l.blocks) <= Cardinality(k.blocks)}

\* analyzeIV: a PHI that grows by one a turn and is compared to leave the loop.
IsAddOneOf(f, v, phi) == Is(f, v, "Add") /\ f.inst[v].args \in {<<phi, 1>>, <<1, phi>>}
IsStepOf(f, v, phi, latch) ==
  \/ IsAddOneOf(f, v, phi)
  \/ /\ Is(f, v, "PHI") /\ BlockOf(f, v) = latch
     /\ \A x \in ToSet(f.inst[v].args) : IsAddOneOf(f, x, phi)
LeavesWhenNotBelow(f, b, v) ==
  /\ IsConditional(Terminator(f, b))
  /\ LET c == Terminator(f, b).args[1] IN
       Is(f, c, "ICmp") /\ f.inst[c].pred = "SLT" /\ Arg(f, c, 1) = v
\* getInductionIV, in a set of no or one.
InductionIV(f, loop) ==
  LET IsIV(p) ==
        /\ f.inst[p].ty = Integer /\ Len(f.inst[p].to) = 2
        /\ ToSet(f.inst[p].to) = {loop.preheader, loop.latches[1]}
        /\ LET step == Incoming(f.inst[p], loop.latches[1]) IN
             /\ IsStepOf(f, step, p, loop.latches[1])
             /\ LeavesWhenNotBelow(f, loop.header, p) \/ LeavesWhenNotBelow(f, loop.latches[1], step)
      found == IF loop.preheader = NoBlock \/ Len(loop.latches) # 1 THEN <<>>
               ELSE SelectSeq(Phis(f, loop.header), IsIV)
  IN  IF found = <<>> THEN {} ELSE {found[1]}

-----------------------------------------------------------------------------
(* Module::verify: it builds the graph from the terminators.               *)

TerminatorGraph(f) ==
  [f EXCEPT !.succ = [b \in DOMAIN @ |-> IF b \in BlockSet(f) THEN SetToSeq(Targets(f, b)) ELSE <<>>],
            !.pre = [b \in DOMAIN @ |-> SetToSeq({p \in BlockSet(f) : b \in Targets(f, p)})]]

EndsInTerminator(f, b) ==
  f.body[b] # <<>> /\ \A k \in DOMAIN f.body[b] : IsTerminator(f.inst[f.body[b][k]]) <=> k = Len(f.body[b])

ListsMatch(f, g) ==
  \A b \in BlockSet(f) : ToSet(f.succ[b]) = ToSet(g.succ[b]) /\ ToSet(f.pre[b]) = ToSet(g.pre[b])

\* An operand: no instruction that has been taken out, and what is defined is defined before.
Defines(f, v) == v \in DOMAIN f.inst /\ f.inst[v].bb \in BlockSet(f)
IsLocalValue(f, v) == v >= FirstLocal + Len(f.args)
OperandsDefined(f, dt, v) ==
  \A x \in ToSet(f.inst[v].args) : IsLocalValue(f, x) => Defines(f, x) /\ DominatesInst(f, dt, x, v)

PhiMatches(f, g, dt, v) ==
  LET i == f.inst[v] IN
    /\ Cardinality(ToSet(i.to)) = Len(i.to) /\ ToSet(i.to) = ToSet(g.pre[i.bb])
    /\ \A k \in DOMAIN i.to :
         IsLocalValue(f, i.args[k]) => Defines(f, i.args[k]) /\ Dominates(dt, BlockOf(f, i.args[k]), i.to[k])

VerifiedIn(f, g, dt) ==
  /\ \A b \in BlockSet(f) : Reachable(dt, b) /\ f.body[b] = Phis(f, b) \o NonPhis(f, b)
  /\ ListsMatch(f, g)
  /\ \A v \in ToSet(InOrder(f)) :
       IF IsPhi(f.inst[v]) THEN PhiMatches(f, g, dt, v) ELSE OperandsDefined(f, dt, v)
Verified(f) ==
  /\ \A b \in BlockSet(f) : EndsInTerminator(f, b) /\ Targets(f, b) \subseteq BlockSet(f)
  /\ VerifiedIn(f, TerminatorGraph(f), DominatorTree(TerminatorGraph(f)))
=============================================================================
