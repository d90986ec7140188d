---------------------------- MODULE CodePlacement ----------------------------
(***************************************************************************)
(* Passes that move code: codeSink.cpp takes computations to where they    *)
(* are used, tailDuplication.cpp dissolves blocks that only return, and    *)
(* unifyExitNodes.cpp gives a function one exit again.                     *)
(***************************************************************************)
EXTENDS ScalarAnalysis

(* CodeSink.                                                               *)

IsSinkable(f, v) ==
  /\ f.inst[v].op \in (BinaryOps \ {"SDiv", "SRem"}) \cup {"ZExt", "BitCast", "ICmp", "Select", "GEP"}
  /\ Users(f, v) # {}
UseBlock(f, use) == IF Is(f, use[1], "PHI") THEN f.inst[use[1]].to[use[2]] ELSE BlockOf(f, use[1])

\* Where all uses can be served from.
SinkTarget(f, dt, v) ==
  LET blocks == {UseBlock(f, use) : use \in Uses(f, v)} IN
    IF \A b \in blocks : Reachable(dt, b)
    THEN LET common == {d \in BlockSet(f) : \A b \in blocks : Dominates(dt, d, b)}
         IN  CHOOSE d \in common : \A c \in common : Dominates(dt, c, d)
    ELSE NoBlock

OperandsDominate(f, dt, v, b) ==
  \A x \in ToSet(f.inst[v].args) : IsInst(f, x) => BlockOf(f, x) # NoBlock /\ Dominates(dt, BlockOf(f, x), b)

InsertionPoint(f, v, b) ==
  LET users == SelectSeq(NonPhis(f, b), LAMBDA u : v \in ToSet(f.inst[u].args))
  IN  IF users = <<>> THEN TerminatorOf(f, b) ELSE users[1]

Sink(f, dt, loops, v) ==
  LET source == BlockOf(f, v)
      target == SinkTarget(f, dt, v)
  IN  IF /\ IsSinkable(f, v)
         /\ target \notin {NoBlock, source}
         /\ Dominates(dt, source, target)
         /\ LoopDepth(loops, target) <= LoopDepth(loops, source)
         /\ OperandsDominate(f, dt, v, target)
      THEN MoveBefore(f, v, InsertionPoint(f, v, target)) ELSE f

\* The users are sunk before what they use.
CodeSinkOn(f) ==
  LET dt == DominatorTree(f)
      loops == Loops(f, dt)
  IN  FoldLeft(LAMBDA g, v : Sink(g, dt, loops, v), f, Reverse(InOrder(f)))

(* TailDuplication.                                                        *)

Dissolves(f, b) ==
  /\ b # f.blocks[1] /\ Len(f.pre[b]) >= 2
  /\ Terminator(f, b).op = "Ret" /\ Len(NonPhis(f, b)) = 1
  /\ \A p \in ToSet(f.pre[b]) : ~IsConditional(Terminator(f, p))

\* What block b returns when it is entered from p.
ReturnFrom(f, b, p) ==
  LET Of(x) == IF Is(f, x, "PHI") /\ BlockOf(f, x) = b /\ p \in ToSet(f.inst[x].to)
               THEN Incoming(f.inst[x], p) ELSE x
  IN  [k \in DOMAIN Terminator(f, b).args |-> Of(Terminator(f, b).args[k])]
ReturnEarly(f, b, p) ==
  IF b \notin ToSet(f.succ[p]) THEN f
  ELSE AppendTo(Delete(RemoveEdge(f, p, b), {TerminatorOf(f, p)}), p, Return(ReturnFrom(f, b, p)))

Dissolve(f, b) ==
  LET returned == FoldLeft(LAMBDA g, p : ReturnEarly(g, b, p), f, f.pre[b])
      left == FoldSet(LAMBDA p, g : RemoveIncoming(g, b, p), returned,
                      {p \in BlockSet(f) : b \notin ToSet(returned.succ[p])})
  IN  IF left.pre[b] = <<>> THEN RemoveBlock(Delete(left, ToSet(left.body[b])), b) ELSE left
TailDuplicationOn(f) ==
  FoldLeft(LAMBDA g, b : IF b \in BlockSet(g) /\ Dissolves(g, b) THEN Dissolve(g, b) ELSE g, f, f.blocks)

(* UnifyExitNodes.                                                         *)

\* The block jumps to exit instead; its return is taken out but keeps its operands.
LeaveThrough(f, exit, b) ==
  LET ret == TerminatorOf(f, b)
      out == [f EXCEPT !.body[b] = Front(@), !.inst[ret].bb = NoBlock]
      fill == [v \in ToSet(Phis(f, exit)) |->
                 [f.inst[v] EXCEPT !.args = @ \o f.inst[ret].args, !.to = Append(@, b)]]
  IN  AppendJump([out EXCEPT !.inst = fill @@ @], b, exit)

UnifyExitNodesOn(f) ==
  LET exits == SelectSeq(f.blocks, LAMBDA b : HasTerminator(f, b) /\ Terminator(f, b).op = "Ret")
      exit == NewBlock(f)
      values == Terminator(f, exits[1]).args
      g == AddBlock(f)
      ret == IF values = <<>> THEN AppendTo(g, exit, Return(<<>>))
             ELSE AppendTo(AppendTo(g, exit, Phi(Integer, <<>>, <<>>)), exit, Return(<<g.next>>))
  IN  IF Len(exits) <= 1 THEN f ELSE FoldLeft(LAMBDA h, b : LeaveThrough(h, exit, b), ret, exits)
=============================================================================
