------------------------------ MODULE Inlining -------------------------------
(***************************************************************************)
(* inlineExpand.cpp puts the body of a function in the place of a call,    *)
(* globalScalarPromotion.cpp keeps a global in a local slot where nobody   *)
(* looks at the global.                                                    *)
(***************************************************************************)
EXTENDS AliasAnalysis, CFGSimplify

CallsIn(f) == SelectSeq(InOrder(f), LAMBDA v : f.inst[v].op = "Call")
CallsOf(f, callee) == SelectSeq(CallsIn(f), LAMBDA v : f.inst[v].name = callee)

\* What follows position p of block b becomes a block of its own, last in the layout,
\* and has b's successors.
SplitBehind(f, b, p) ==
  LET c == NewBlock(f)
      g == AddBlock(f)
      moved == SubSeq(f.body[b], p + 1, Len(f.body[b]))
      split == [g EXCEPT !.body[b] = SubSeq(@, 1, p), !.body[c] = moved, !.succ[b] = <<>>, !.succ[c] = f.succ[b],
                         !.inst = [v \in DOMAIN @ |-> IF v \in ToSet(moved) THEN [@[v] EXCEPT !.bb = c] ELSE @[v]]]
      Handed(h, s) == [RenameIncoming(h, s, b, c) EXCEPT !.pre[s] = Append(SelectSeq(@, LAMBDA x : x # b), c)]
  IN  FoldLeft(Handed, split, f.succ[b])

-----------------------------------------------------------------------------
(* InlineExpand.                                                           *)

InlineThreshold == 80
InlineAlwaysThreshold == 6
InlineRecursiveThreshold == 40
InlineRecursiveHotCost == 45
InlineCostBudget == 300
CallOverhead == 8
LoopMultiplier == 5

CountInstructions(f) == Cardinality(Placed(f))
IsSelfRecursive(m, name) == CallsOf(m.fns[name], name) # <<>>
HasNonSelfCalls(m, name) == CallsIn(m.fns[name]) # CallsOf(m.fns[name], name)

\* A call of a function that is small enough weighs what its instructions weigh.
RECURSIVE WeighInstruction(_, _)
WeighInstructions(m, f, vs) == MapThenSumSet(LAMBDA v : WeighInstruction(m, f.inst[v]), vs)
WeighInstruction(m, i) ==
  CASE i.op \in {"Ret", "Br", "Alloca", "PHI"} -> 0
    [] i.op \in {"Add", "Sub", "ICmp", "ZExt", "BitCast", "Load", "Store"} -> 1
    [] i.op \in {"SDiv", "SRem"} -> 4
    [] i.op = "Call" ->
         IF i.name \in DOMAIN m.fns /\ CountInstructions(m.fns[i.name]) <= InlineAlwaysThreshold
         THEN WeighInstructions(m, m.fns[i.name], Placed(m.fns[i.name])) ELSE 5
    [] OTHER -> 2
EstimateInlineCost(m, name) == WeighInstructions(m, m.fns[name], Placed(m.fns[name]))

\* What is saved because constants are passed: the instructions they decide, and on a
\* branch they decide the cheaper of the two ways that are not taken.
Unreached(f, b, ends) == BlockSet(f) \ (Reaching([c \in DOMAIN f.body |-> f.succ[c]], {b}) \cup ends)
DeadWeight(m, f, b, ends) == WeighInstructions(m, f, UNION {ToSet(f.body[c]) : c \in Unreached(f, b, ends)})
PruningBenefit(m, f, i) ==
  Min({DeadWeight(m, f, i.to[1], ToSet(i.to)), DeadWeight(m, f, i.to[2], ToSet(i.to))})
Decided(f, known, v) ==
  LET i == f.inst[v]
      xs == ToSet(i.args)
  IN  CASE i.op \in {"PHI", "ICmp"} \cup BinaryOps -> xs # {} /\ \A x \in xs : IsConst(x) \/ x \in known
        [] i.op \in {"ZExt", "BitCast"} -> xs \subseteq known
        [] OTHER -> FALSE
Foresee(m, f, s, v) ==
  IF IsConditional(f.inst[v]) /\ f.inst[v].args[1] \in s.known
  THEN [s EXCEPT !.benefit = @ + PruningBenefit(m, f, f.inst[v])]
  ELSE IF Decided(f, s.known, v)
  THEN [known |-> s.known \cup {v}, benefit |-> s.benefit + WeighInstruction(m, f.inst[v])]
  ELSE s
ConstantActuals(call) == {k \in DOMAIN call.args : IsConst(call.args[k])}
EstimateConstantFoldBenefit(m, call) ==
  LET f == m.fns[call.name]
      order == ReversePostOrder(f)
      start == [known |-> {FirstLocal + k - 1 : k \in ConstantActuals(call)}, benefit |-> 0]
  IN  IF start.known = {} THEN 0
      ELSE FoldLeft(LAMBDA s, v : Foresee(m, f, s, v), start,
                    FlattenSeq([k \in DOMAIN order |-> f.body[order[k]]])).benefit

\* Some way that leads to the call has a jump back on it.
IsCallInLoop(f, v) ==
  LET order == ReversePostOrder(f)
      Index(b) == CHOOSE k \in DOMAIN order : order[k] = b
  IN  \E b \in Reaching(f.pre, {BlockOf(f, v)}) : \E p \in ToSet(f.pre[b]) : Index(p) >= Index(b)

SavedOverhead(f, v) == CallOverhead * (IF IsCallInLoop(f, v) THEN LoopMultiplier ELSE 1)
RecursiveBudget(cost, inLoop, saved, benefit) ==
  IF (~inLoop /\ benefit = 0) \/ (cost > InlineRecursiveHotCost /\ saved + benefit <= cost) THEN 0
  ELSE Min({saved + benefit + benefit, InlineCostBudget})
EstimateRecursiveInlineBudget(m, f, v) ==
  RecursiveBudget(EstimateInlineCost(m, f.inst[v].name), IsCallInLoop(f, v), SavedOverhead(f, v),
                  EstimateConstantFoldBenefit(m, f.inst[v]))

\* The functions main reaches.
Called(m) == Reaching([name \in DOMAIN m.fns |-> SetToSeq({m.fns[name].inst[v].name : v \in ToSet(CallsIn(m.fns[name]))} \cap DOMAIN m.fns)], {"main"})
CountCallSites(m, callee) == MapThenSumSet(LAMBDA name : Len(CallsOf(m.fns[name], callee)), Called(m))

Worthwhile(m, call, cost, saved, benefit, inLoop) ==
  LET bloat == cost * CountCallSites(m, call.name) IN
    \/ CountCallSites(m, call.name) = 1
    \/ saved + benefit > cost
    \/ inLoop /\ ConstantActuals(call) # {} /\ benefit > 0 /\ bloat <= InlineCostBudget
    \/ bloat > InlineCostBudget /\ benefit >= cost \div 2
CanInlineRecursive(m, f, v, budget) ==
  /\ CountInstructions(m.fns[f.inst[v].name]) <= InlineRecursiveThreshold
  /\ ~HasNonSelfCalls(m, f.inst[v].name)
  /\ EstimateInlineCost(m, f.inst[v].name) <= IF budget > 0 THEN budget ELSE EstimateRecursiveInlineBudget(m, f, v)
CanInlinePlain(m, f, v) ==
  LET callee == f.inst[v].name
      raw == CountInstructions(m.fns[callee])
  IN  /\ raw <= InlineThreshold
      /\ \/ raw <= InlineAlwaysThreshold
         \/ Worthwhile(m, f.inst[v], EstimateInlineCost(m, callee), SavedOverhead(f, v),
                       EstimateConstantFoldBenefit(m, f.inst[v]), IsCallInLoop(f, v))
CanInline(m, caller, v, budget) ==
  LET f == m.fns[caller]
      callee == f.inst[v].name
  IN  /\ callee \in DOMAIN m.fns \ {caller}
      /\ IF IsSelfRecursive(m, callee) THEN CanInlineRecursive(m, f, v, budget) ELSE CanInlinePlain(m, f, v)

\* cloneCalleeIntoCaller: block and value name what becomes of the callee's.
CloneInto(f, i, b, block, value) ==
  LET args == [k \in DOMAIN i.args |-> IF i.args[k] \in DOMAIN value THEN value[i.args[k]] ELSE i.args[k]]
      to == [k \in DOMAIN i.to |-> block[i.to[k]]]
  IN  IF IsConditional(i) THEN AppendBranch(f, b, args[1], to[1], to[2])
      ELSE IF i.op = "Br" THEN AppendJump(f, b, to[1])
      ELSE AppendTo(f, b, [i EXCEPT !.args = args, !.to = to])
\* The slots of the clone move to the front of the entry, the last one first.
HoistAllocas(f, vs) ==
  LET slots == Reverse(SelectSeq(vs, LAMBDA v : Is(f, v, "Alloca")))
      entry == f.blocks[1]
  IN  [f EXCEPT !.body = [b \in DOMAIN @ |-> (IF b = entry THEN slots ELSE <<>>)
                                              \o SelectSeq(@[b], LAMBDA v : v \notin ToSet(slots))],
                !.inst = [v \in DOMAIN @ |-> IF v \in ToSet(slots) THEN [@[v] EXCEPT !.bb = entry] ELSE @[v]]]
\* Where the clone returned it goes on behind the call.
ReturnsTo(f, cont, rets) ==
  FoldLeft(LAMBDA g, b : AppendJump(Delete(g, {TerminatorOf(g, b)}), b, cont), f, rets)
Joined(f, v, cont, rets) ==
  LET phi == Phi(f.inst[v].ty, [k \in DOMAIN rets |-> Terminator(f, rets[k]).args[1]], rets)
      g == InsertPhi(f, cont, phi)
  IN  IF f.inst[v].ty = Void THEN ReturnsTo(f, cont, rets) ELSE ReplaceUse(ReturnsTo(g, cont, rets), v, f.next)
\* callee in the place of call v of f, once a clone of it stands in the blocks behind cont.
Connect(f, v, cont, new, rets) ==
  AppendJump(Delete(Joined(f, v, cont, rets), {v}), BlockOf(f, v), new[1])
PlaceClone(f, v, cont, new, clones) ==
  LET hoisted == HoistAllocas(f, clones) IN
    Connect(hoisted, v, cont, new, SelectSeq(new, LAMBDA c : Terminator(f, c).op = "Ret"))

\* order: the callee's blocks; olds: its instructions in that order; value: what they become.
Values(f, v, callee, olds) ==
  [u \in FirstLocal .. FirstLocal + Len(callee.args) - 1 |-> f.inst[v].args[u - FirstLocal + 1]]
    @@ [u \in ToSet(olds) |-> f.next - 1 + CHOOSE k \in DOMAIN olds : olds[k] = u]
CloneAll(f, callee, olds, block, value) ==
  FoldLeft(LAMBDA g, u : CloneInto(g, callee.inst[u], block[callee.inst[u].bb], block, value), f, olds)
CloneCallee(f, callee, cont, order, olds, value) ==
  CloneAll(FoldLeft(LAMBDA g, b : AddBlock(g), f, order), callee, olds,
           [b \in ToSet(order) |-> cont + CHOOSE k \in DOMAIN order : order[k] = b], value)
CloneAndPlace(f, v, callee, cont, order, olds, value) ==
  PlaceClone(CloneCallee(SplitBehind(f, BlockOf(f, v), Position(f, v)), callee, cont, order, olds, value),
        v, cont, [k \in DOMAIN order |-> cont + k], [k \in DOMAIN olds |-> value[olds[k]]])
InlineInOrder(f, v, callee, order, olds) ==
  CloneAndPlace(f, v, callee, NewBlock(f), order, olds, Values(f, v, callee, olds))
InlineBlocks(f, v, callee, order) ==
  InlineInOrder(f, v, callee, order, FlattenSeq([k \in DOMAIN order |-> callee.body[order[k]]]))
PerformInline(f, v, callee) == InlineBlocks(f, v, callee, ReversePostOrder(callee))

\* s: the program, the calls still to be looked at (the last one first), each with what is
\* left of a recursive budget, and how much a function has grown by recursive calls.
Item(name, v, budget) == [caller |-> name, call |-> v, budget |-> budget]

\* The calls of the clone come next; again is the callee if it is recursive.
Follow(g, first, item, again, left) ==
  LET wanted == SelectSeq(CallsIn(g), LAMBDA v : v >= first /\ (g.inst[v].name \in again => left > 0))
      Next(v) == Item(item.caller, v, IF g.inst[v].name \in again THEN left ELSE 0)
  IN  [k \in DOMAIN wanted |-> Next(wanted[k])]
Requeue(s, item, again, left, g) ==
  [s EXCEPT !.m.fns[item.caller] = g,
            !.worklist = @ \o Follow(g, s.m.fns[item.caller].next, item, again, left)]
Take(s, item, callee, again, left) ==
  Requeue(s, item, again, left, PerformInline(s.m.fns[item.caller], item.call, s.m.fns[callee]))

\* The calls of a recursive callee have a budget: cost is what this one takes from it.
Budget(s, item) ==
  IF item.budget > 0 THEN item.budget
  ELSE EstimateRecursiveInlineBudget(s.m, s.m.fns[item.caller], item.call)
WithinBudget(s, item, callee) ==
  IsSelfRecursive(s.m, callee) => s.growth[item.caller] + EstimateInlineCost(s.m, callee) <= InlineCostBudget
Charged(s, item, callee, recursive, cost) ==
  Take(IF recursive THEN [s EXCEPT !.growth[item.caller] = @ + cost] ELSE s, item, callee,
       IF recursive THEN {callee} ELSE {}, IF recursive THEN Budget(s, item) - cost ELSE 0)
ExpandCall(s, item, callee) ==
  IF /\ item.caller \in Called(s.m)
     /\ CanInline(s.m, item.caller, item.call, item.budget)
     /\ WithinBudget(s, item, callee)
  THEN Charged(s, item, callee, IsSelfRecursive(s.m, callee), EstimateInlineCost(s.m, callee)) ELSE s
Expand(s, item) == ExpandCall(s, item, s.m.fns[item.caller].inst[item.call].name)

RECURSIVE ExpandAll(_)
ExpandAll(s) ==
  IF s.worklist = <<>> THEN s.m
  ELSE ExpandAll(Expand([s EXCEPT !.worklist = SubSeq(@, 1, Len(@) - 1)], Last(s.worklist)))
InlineExpand(m) ==
  LET Items(name) == LET vs == CallsIn(m.fns[name]) IN [k \in DOMAIN vs |-> Item(name, vs[k], 0)] IN
    ExpandAll([m |-> m, worklist |-> FlattenSeq([k \in DOMAIN m.order |-> Items(m.order[k])]),
               growth |-> [name \in DOMAIN m.fns |-> 0]])

-----------------------------------------------------------------------------
(* GlobalScalarPromotion.                                                  *)

Accessed(f, v) ==
  CASE f.inst[v].op = "Load" -> Arg(f, v, 1) [] f.inst[v].op = "Store" -> Arg(f, v, 2) [] OTHER -> 0
AddressEscapes(f, g) ==
  \E use \in Uses(f, g) : ~(use[2] = 1 /\ Is(f, use[1], "Load")) /\ ~(use[2] = 2 /\ Is(f, use[1], "Store"))
\* The runtime library does not know the program's globals.
MayTouch(summaries, f, name, call, g) ==
  call.name \in DOMAIN summaries /\ CallModRef(summaries, f, name, call, Location(f, name, g)) # {}
Promotable(m, summaries, name, g) ==
  /\ Len(m.globals[g]) = 1
  /\ \A other \in DOMAIN m.fns : ~AddressEscapes(m.fns[other], g)
  /\ \A v \in ToSet(CallsIn(m.fns[name])) : ~MayTouch(summaries, m.fns[name], name, m.fns[name].inst[v], g)

\* The globals a function keeps, as it comes to see them.
KeptGlobals(m, summaries, name) ==
  LET f == m.fns[name]
      seen == [k \in DOMAIN InOrder(f) |-> Accessed(f, InOrder(f)[k])]
      Seen(s, g) == IF g \in ToSet(s) THEN s ELSE Append(s, g)
  IN  SelectSeq(FoldLeft(Seen, <<>>, seen), LAMBDA g : IsGlobal(g) /\ Promotable(m, summaries, name, g))

WriteBack(f, b, kept, slot) ==
  IF Terminator(f, b).op # "Ret" THEN f
  ELSE InsertBefore(f, TerminatorOf(f, b),
         FlattenSeq([k \in DOMAIN kept |-> <<Load(slot[kept[k]]), Store(f.next + 2 * k - 2, kept[k])>>]))
Redirected(f, v, slot) ==
  LET ptr == Accessed(f, v) IN
    IF ptr \notin DOMAIN slot THEN f.inst[v]
    ELSE [f.inst[v] EXCEPT !.args[Len(f.inst[v].args)] = slot[ptr]]
KeepLocally(f, kept) ==
  LET slot == [g \in ToSet(kept) |-> f.next + 3 * ((CHOOSE k \in DOMAIN kept : kept[k] = g) - 1)]
      local == [f EXCEPT !.inst = [v \in DOMAIN @ |-> Redirected(f, v, slot)]]
      opened == InsertBefore(local, f.body[f.blocks[1]][1],
                  FlattenSeq([k \in DOMAIN kept |->
                    <<Alloca(1), Load(kept[k]), Store(slot[kept[k]] + 1, slot[kept[k]])>>]))
  IN  FoldLeft(LAMBDA g, b : WriteBack(g, b, kept, slot), opened, f.blocks)
PromoteGlobals(m, summaries, name) ==
  LET kept == KeptGlobals(m, summaries, name) IN IF kept = <<>> THEN m.fns[name] ELSE KeepLocally(m.fns[name], kept)
=============================================================================
