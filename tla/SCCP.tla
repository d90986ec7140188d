-------------------------------- MODULE SCCP --------------------------------
(***************************************************************************)
(* sccp.cpp: constants and the blocks that can run are found together.     *)
(* What is known of a value is the set of ints it may be: none (not        *)
(* computed yet), one (a constant), or all of them (overdefined).          *)
(***************************************************************************)
EXTENDS CFGSimplify, ScalarExec

Overdefined == Ints
IsOne(S) == Cardinality(S) = 1
The(S) == CHOOSE x \in S : TRUE
Meet(S, T) == IF Cardinality(S \cup T) <= 1 THEN S \cup T ELSE Overdefined

KnownOf(known, v) == IF IsConst(v) THEN {v} ELSE IF v \in DOMAIN known THEN known[v] ELSE {}

\* A mul, an and, an or with an operand that decides; shifts right of the sign too,
\* but not those that shift in zeros.
Folded(op, x, y) ==
  IF op = "LShr" \/ (op \in {"SDiv", "SRem"} /\ ~Defined(op, x, y)) THEN Overdefined
  ELSE {Compute(op, x, y)}

\* The transfer function of an instruction that is no PHI.
Transfer(i, known) ==
  LET k == [n \in DOMAIN i.args |-> KnownOf(known, i.args[n])]
      undefined == \E n \in DOMAIN k : k[n] = {}
      constant == \A n \in DOMAIN k : IsOne(k[n])
  IN
  CASE i.op \in BinaryOps ->
         IF \E n \in DOMAIN k : k[n] = Overdefined THEN Overdefined
         ELSE IF undefined THEN {} ELSE Folded(i.op, The(k[1]), The(k[2]))
    [] i.op = "ICmp" ->
         IF constant
         THEN IF i.pred \in {"EQ", "NE", "SGT", "SGE", "SLT", "SLE"}
              THEN {AsBit(Compare(i.pred, The(k[1]), The(k[2])))} ELSE Overdefined
         ELSE IF undefined THEN {} ELSE Overdefined
    [] i.op = "ZExt" -> k[1]
    [] i.op = "Select" ->
         IF IsOne(k[1]) THEN IF The(k[1]) # 0 THEN k[2] ELSE k[3]
         ELSE IF k[2] = k[3] /\ IsOne(k[2]) THEN k[2]
         ELSE IF undefined THEN {} ELSE Overdefined
    [] OTHER -> Overdefined

PhiKnown(i, s) ==
  FoldSet(LAMBDA n, S : Meet(S, KnownOf(s.known, i.args[n])), {}, {n \in DOMAIN i.to : i.to[n] \in s.live})

\* The targets a terminator may go to.
LiveTargets(f, known, b) ==
  LET i == Terminator(f, b)
      c == KnownOf(known, i.args[1])
  IN  IF i.op # "Br" THEN <<>>
      ELSE IF IsConditional(i) /\ IsOne(c) THEN <<Taken(i, The(c))>>
      ELSE i.to

\* One round: blocks, then all instructions of the blocks that can run.
Evaluate(f, s, v) ==
  LET i == f.inst[v] IN
    IF IsTerminator(i) THEN s
    ELSE [s EXCEPT !.known[v] = IF IsPhi(i) THEN PhiKnown(i, s) ELSE Transfer(i, s.known)]
RECURSIVE Propagate(_, _)
Propagate(f, s) ==
  LET targets == [b \in BlockSet(f) |-> LiveTargets(f, s.known, b)]
      live == Reaching(targets, s.live)
      run == FlattenSeq([k \in DOMAIN f.blocks |-> IF f.blocks[k] \in live THEN f.body[f.blocks[k]] ELSE <<>>])
      next == FoldLeft(LAMBDA t, v : Evaluate(f, t, v), [s EXCEPT !.live = live], run)
  IN  IF next = s THEN s.known ELSE Propagate(f, next)

\* The PHIs keep what came over the edge.
FoldKnown_phis(f, known, b) ==
  JumpInstead(f, b, Taken(Terminator(f, b), The(KnownOf(known, Terminator(f, b).args[1]))), NoBlock)

\* A branch on a constant becomes a jump; the two targets may be one block.
FoldKnown(f, known, b) ==
  LET i == Terminator(f, b)
      x == The(KnownOf(known, i.args[1]))
  IN  JumpInstead(f, b, Taken(i, x), IF i.to[1] = i.to[2] THEN NoBlock ELSE NotTaken(i, x))

\* The constants are written in and stay.
Apply_kept(f, known) ==
  ReplaceUses(f, [v \in {v \in Placed(f) : ~IsPhi(f.inst[v]) /\ IsOne(KnownOf(known, v))} |-> The(known[v])])

\* Constants other than PHIs are written in and deleted, branches on constants folded.
Apply(f, known) ==
  LET constants == {v \in Placed(f) : ~IsPhi(f.inst[v]) /\ IsOne(KnownOf(known, v))}
      g == Delete(ReplaceUses(f, [v \in constants |-> The(known[v])]), constants)
      folds == SelectSeq(g.blocks, LAMBDA b :
                 IsConditional(Terminator(g, b)) /\ IsOne(KnownOf(known, Terminator(g, b).args[1])))
      folded == FoldLeft(LAMBDA h, b : FoldKnown(h, known, b), g, folds)
  IN  IF folds = <<>> THEN folded ELSE RemoveUnreachable(folded)

SCCPOn(f) ==
  LET args == FirstLocal .. FirstLocal + Len(f.args) - 1
      start == [v \in args \cup Placed(f) |-> IF v \in args THEN Overdefined ELSE {}]
  IN  Apply(f, Propagate(f, [known |-> start, live |-> {f.blocks[1]}]))
=============================================================================
