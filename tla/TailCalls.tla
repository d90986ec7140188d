------------------------------ MODULE TailCalls ------------------------------
(***************************************************************************)
(* Calls that are the last thing their function does: a function that      *)
(* calls itself becomes a loop (tailRecursionEliminate.cpp), the others    *)
(* are marked for the code generator, which reuses the frame               *)
(* (tailCallOpt.cpp).                                                      *)
(***************************************************************************)
EXTENDS Inlining

AddIncoming(f, phi, x, b) == [f EXCEPT !.inst[phi].args = Append(@, x), !.inst[phi].to = Append(@, b)]

-----------------------------------------------------------------------------
(* Calls in tail position.                                                 *)

\* isFinalNonTerminator: the call right before the terminator, in a set of no or one.
TrailingCall(f, b) ==
  LET n == Len(f.body[b]) IN
    {v \in ToSet(f.body[b]) : HasTerminator(f, b) /\ n > 1 /\ v = f.body[b][n - 1] /\ f.inst[v].op = "Call"}

\* The result of the call is returned as it is: in its block, or by a block that is jumped
\* to, where every use of it is a PHI.
ReturnsResult(f, b, v) == Terminator(f, b).op = "Ret" /\ Terminator(f, b).args = <<v>>
ReturnsBehind(f, b, v) ==
  /\ IsJump(f, b) /\ HasTerminator(f, Dest(f, b))
  /\ \A u \in Users(f, v) : IsPhi(f.inst[u]) /\ BlockOf(f, u) = Dest(f, b)
  /\ LET i == Terminator(f, Dest(f, b)) IN i.op = "Ret" /\ ToSet(i.args) \subseteq Users(f, v)
InTailPosition(f, b, v) == ReturnsResult(f, b, v) \/ ReturnsBehind(f, b, v)

-----------------------------------------------------------------------------
(* TailRecursionEliminate.                                                 *)

RegisterArguments == 8

\* The blocks that end in a call of the function itself.
SelfSites(f, name) ==
  SelectSeq(f.blocks, LAMBDA b : \E v \in TrailingCall(f, b) : f.inst[v].name = name /\ InTailPosition(f, b, v))

\* The entry keeps nothing but the jump to a header with a PHI for every argument.
WithHeader(f) ==
  LET entry == f.blocks[1]
      header == NewBlock(f)
      n == Len(f.args)
      renamed == ReplaceUses(f, [a \in FirstLocal .. FirstLocal + n - 1 |-> f.next + a - FirstLocal])
      g == SplitBehind(renamed, entry, 0)
      phis == [v \in f.next .. f.next + n - 1 |->
                 [Phi(f.args[v - f.next + 1], <<FirstLocal + v - f.next>>, <<entry>>) EXCEPT !.bb = header]]
  IN  AppendJump([g EXCEPT !.blocks = <<entry, header>> \o Tail(f.blocks), !.inst = phis @@ @, !.next = @ + n,
                           !.body[header] = [k \in 1 .. n |-> f.next + n - k] \o @],
                 entry, header)

\* The call and the way to the return give way to the jump back, which brings the arguments.
BackToHeader(f, b, first) ==
  LET v == f.body[b][Len(f.body[b]) - 1]
      fed == FoldLeft(LAMBDA g, k : AddIncoming(g, first + k - 1, f.inst[v].args[k], b), f, [k \in DOMAIN f.args |-> k])
      cut == IF IsJump(f, b) THEN RemoveEdge(fed, b, Dest(f, b)) ELSE fed
  IN  AppendJump(Delete(cut, {v, TerminatorOf(f, b)}), b, f.blocks[2])

\* The PHIs of a return block forget those who do not come any more; one value is no PHI.
CleanReturnPhi(f, phi, gone) ==
  LET i == FoldLeft(WithoutIncoming, f.inst[phi], gone)
      g == [f EXCEPT !.inst[phi] = i]
  IN  IF Len(i.to) = 1 THEN Delete(ReplaceUse(g, phi, i.args[1]), {phi}) ELSE g
CleanReturnBlock(f, b, gone) == FoldLeft(LAMBDA g, phi : CleanReturnPhi(g, phi, gone), f, Phis(f, b))

TurnRound(f, sites, first) ==
  LET joining == SelectSeq(sites, LAMBDA b : IsJump(f, b))
      looped == FoldLeft(LAMBDA g, b : BackToHeader(g, b, first), f, sites)
  IN  FoldSet(LAMBDA b, g : CleanReturnBlock(g, b, joining), looped, {Dest(f, b) : b \in ToSet(joining)})
Looped(g, name, first) == TurnRound(g, SelfSites(g, name), first)
EliminateTailRecursion(f, name) ==
  IF Len(f.args) > RegisterArguments \/ SelfSites(f, name) = <<>> THEN f
  ELSE Looped(WithHeader(f), name, f.next)

-----------------------------------------------------------------------------
(* TailCallOpt.                                                            *)

\* A call without a result is followed by a return without one.
ReturnsNothing(f, b, v) == Terminator(f, b).op = "Ret" /\ Terminator(f, b).args = <<>> /\ f.inst[v].ty = Void
TailSites(f) ==
  SelectSeq(f.blocks, LAMBDA b : \E v \in TrailingCall(f, b) : InTailPosition(f, b, v) \/ ReturnsNothing(f, b, v))

\* canonicalizePattern2: the block returns on its own.
ReturnHere(f, b, v) ==
  LET cut == RemoveEdge(RemoveIncoming(f, Dest(f, b), b), b, Dest(f, b)) IN
    AppendTo(Delete(cut, {TerminatorOf(f, b)}), b, Return(IF f.inst[v].ty = Void THEN <<>> ELSE <<v>>))
MarkTail(f, b) ==
  LET v == f.body[b][Len(f.body[b]) - 1] IN
    [(IF IsJump(f, b) THEN ReturnHere(f, b, v) ELSE f) EXCEPT !.inst[v].tail = TRUE]
TailCallOptOn(f) ==
  IF TailSites(f) = <<>> THEN f ELSE RemoveUnreachable(FoldLeft(MarkTail, f, TailSites(f)))
=============================================================================
