-------------------------------- MODULE PreRA --------------------------------
(***************************************************************************)
(* The scalar passes of pre_ra_optimizations.cpp that run on virtual       *)
(* registers, before and after PHI elimination, and the removal of         *)
(* unreachable blocks (cfg_optimizations.cpp).  Every operator takes the   *)
(* function as it is before the pass to what it is after it.               *)
(***************************************************************************)
EXTENDS MachineAnalysis

CallBetween(f, p, q) == \E x \in Between(p, q) : IsCall(At(f, x))

(* MachineConstantCSE: within a block and between calls, later copies of a *)
(* constant read the first one.                                            *)
SameConstant(f, p, q) ==
  /\ Before(p, q)
  /\ IsConstant(At(f, p)) /\ IsConstant(At(f, q)) /\ At(f, p).imm = At(f, q).imm
  /\ IsVirtual(At(f, p).def) /\ IsVirtual(At(f, q).def)
  /\ ~CallBetween(f, p, q)

ConstantCSE(f) ==
  LET constants == {p \in Positions(f) : IsConstant(At(f, p))}
      copies == {q \in constants : \E p \in constants : SameConstant(f, p, q)}
      First(r) == CHOOSE p \in constants \ copies :
                    \E q \in copies : At(f, q).def = r /\ SameConstant(f, p, q)
  IN  Erase(Substitute(f, [r \in {At(f, q).def : q \in copies} |-> At(f, First(r)).def]), copies)

(* AArch64PreRAPeephole: adding nothing is a copy.                         *)
IsZeroIdentity(i) == i.op \in {"ADDWri", "SUBWri"} /\ i.imm = 0

PreRAPeephole(f) ==
  LET Copied(i) == IF IsZeroIdentity(i) THEN CopyOf(i.def, i.uses[1]) ELSE i
      g == [f EXCEPT !.code = [b \in DOMAIN @ |->
              [k \in DOMAIN f.code[b] |-> Copied(f.code[b][k])]]]
  IN  Erase(g, {p \in Positions(g) : /\ At(g, p).op = "COPY" /\ At(g, p).uses = <<At(g, p).def>>
                                      /\ At(g, p).def < 0})

(* MachineExpressionCSE: within a block, a pure expression computed at     *)
(* most MaxReuseDistance instructions ago is not computed again.           *)
MaxReuseDistance == 8

HasKey(i) ==
  /\ IsVirtual(i.def) /\ \A r \in Reads(i) : IsVirtual(r)
  /\ i.group = 0
  /\ ~(IsTerminator(i) \/ IsCall(i) \/ MayLoad(i) \/ MayStore(i) \/ IsPseudo(i)
         \/ SetsFlags(i) \/ UsesFlags(i) \/ IsConstant(i) \/ IsTied(i))

Key(i) == <<i.op, i.imm, IF IsCommutable(i) THEN SortSeq(i.uses, <) ELSE i.uses>>

RECURSIVE ReuseFrom(_, _, _, _, _)
ReuseFrom(f, b, k, ordinal, available) ==
  IF k > Len(f.code[b]) THEN f
  ELSE LET i == f.code[b][k]
           found == {a \in available : a.key = Key(i)}
           old == CHOOSE a \in found : TRUE
           entry == [key |-> Key(i), result |-> i.def, ordinal |-> ordinal]
       IN IF IsCall(i) THEN ReuseFrom(f, b, k + 1, ordinal + 1, {})
          ELSE IF ~HasKey(i) THEN ReuseFrom(f, b, k + 1, ordinal + 1, available)
          ELSE IF found = {} \/ ordinal - old.ordinal > MaxReuseDistance
            THEN ReuseFrom(f, b, k + 1, ordinal + 1, (available \ found) \cup {entry})
          ELSE ReuseFrom(Erase(Substitute(f, i.def :> old.result), {<<b, k>>}),
                         b, k, ordinal + 1, available)

ExpressionCSE(f) ==
  ClearProperty(FoldLeft(LAMBDA g, b : ReuseFrom(g, b, 1, 0, {}), f, f.layout), "TracksLiveness")

(* DeadMachineInstructionElimination.                                      *)
Removable(i) ==
  /\ ~(IsTerminator(i) \/ IsCall(i) \/ MayLoad(i) \/ MayStore(i) \/ HasSideEffects(i))
  /\ IsVirtual(i.def) /\ \A r \in Reads(i) : IsVirtual(r)

RECURSIVE DeadFixpoint(_, _)
DeadFixpoint(f, dead) ==
  LET next == {p \in Positions(f) : /\ Removable(At(f, p))
                                    /\ Definitions(f, At(f, p).def) = {p}
                                    /\ UsesOf(f, At(f, p).def) \subseteq dead}
  IN  IF next = dead THEN dead ELSE DeadFixpoint(f, next)

HasPhi(f) == \E b \in Blocks(f) : f.code[b] # <<>> /\ f.code[b][1].op = "PHI"

DeadInstructionElimination(f) ==
  LET dead == DeadFixpoint(f, {})
      g == Forget(Erase(f, dead), {At(f, p).def : p \in dead})
  IN  IF dead = {} THEN f
      ELSE [g EXCEPT !.properties = @ \ ({"TracksLiveness"} \cup IF HasPhi(g) THEN {} ELSE {"HasPHIs"})]

-----------------------------------------------------------------------------
(* AArch64ConditionOptimizer: a condition materialized by CSETW, only to   *)
(* be compared with zero again, is used directly.                          *)

IsBooleanCompare(i, r) == i.op = "CMPWri" /\ i.uses = <<r>> /\ i.imm = 0

\* The flags CSETW read still hold at q.
SameFlags(f, p, q) ==
  Before(p, q) /\ \A x \in Between(p, q) : ~DefinesFlags(At(f, x)) /\ ~IsTerminator(At(f, x))

OnlyUse(f, r) == UseCount(f, r) = 1

\* The selects after the comparison q that read its flags.
SelectsAfter(f, q) ==
  LET Stops(i) == IF i.op = "CSELW" THEN i.cond \notin {"EQ", "NE"}
                  ELSE DefinesFlags(i) \/ UsesFlags(i) \/ IsTerminator(i)
  IN  {x \in Positions(f) : /\ Before(q, x) /\ At(f, x).op = "CSELW"
                            /\ \A y \in Between(q, x) \cup {x} : ~Stops(At(f, y))}

Direct(cond, original) == IF cond = "NE" THEN original ELSE InverseCondition(original)

SelectRewrites(f) ==
  {<<p, q>> \in Positions(f) \X Positions(f) :
     /\ At(f, p).op = "CSETW" /\ OnlyUse(f, At(f, p).def)
     /\ IsBooleanCompare(At(f, q), At(f, p).def) /\ SameFlags(f, p, q)
     /\ SelectsAfter(f, q) # {}}

RewriteSelects(f, p, q) ==
  LET selects == SelectsAfter(f, q)
      Rewritten(x) == IF x \in selects THEN [At(f, x) EXCEPT !.cond = Direct(@, At(f, p).cond)]
                      ELSE At(f, x)
      g == [f EXCEPT !.code = [b \in DOMAIN @ |->
              [k \in DOMAIN f.code[b] |-> IF b \in Blocks(f) THEN Rewritten(<<b, k>>) ELSE f.code[b][k]]]]
  IN  Erase(Forget(g, {At(f, p).def}), {p, q})

BranchRewrites(f) ==
  {<<p, q>> \in Positions(f) \X Positions(f) :
     /\ At(f, p).op = "CSETW" /\ OnlyUse(f, At(f, p).def)
     /\ At(f, q).op \in {"CBZ", "CBNZ"} /\ At(f, q).uses = <<At(f, p).def>>
     /\ SameFlags(f, p, q)}

\* The operands are cleared, and the target is not put back.
RewriteBranch_untargeted(f, p, q) ==
  LET cond == IF At(f, q).op = "CBZ" THEN InverseCondition(At(f, p).cond) ELSE At(f, p).cond
      branch == [Instr EXCEPT !.op = "Bcc", !.cond = cond]
  IN  Erase(Forget(Replace(f, q, branch), {At(f, p).def}), {p})

RewriteBranch(f, p, q) ==
  LET cond == IF At(f, q).op = "CBZ" THEN InverseCondition(At(f, p).cond) ELSE At(f, p).cond
      branch == [Branch(At(f, q).to) EXCEPT !.op = "Bcc", !.cond = cond]
  IN  Erase(Forget(Replace(f, q, branch), {At(f, p).def}), {p})

RECURSIVE Selected(_)
Selected(f) ==
  IF SelectRewrites(f) = {} THEN f
  ELSE LET r == CHOOSE x \in SelectRewrites(f) : TRUE IN Selected(RewriteSelects(f, r[1], r[2]))

RECURSIVE Branched(_)
Branched(f) ==
  IF BranchRewrites(f) = {} THEN f
  ELSE LET r == CHOOSE x \in BranchRewrites(f) : TRUE IN Branched(RewriteBranch(f, r[1], r[2]))

ConditionOptimizer(f) ==
  Changed(f, Branched(Selected(f)))

-----------------------------------------------------------------------------
(* After PHI elimination.                                                  *)

(* SinglePredecessorMaterializationSink: a constant or a conversion with   *)
(* one use moves to it, in the block behind a single-predecessor edge.     *)
Sinkable(i) == IsConstant(i) \/ i.op = "SXTW"

\* On the way from p to q, in the block behind, an input of p is given a new value.
RedefinesInput(f, p, q) ==
  \E x \in Positions(f) : /\ Before(p, x) \/ Before(x, q)
                          /\ At(f, x).def \in Reads(At(f, p)) \ {0}

Sinks(f) ==
  {<<p, q>> \in Positions(f) \X Positions(f) :
     /\ Sinkable(At(f, p)) /\ \A r \in Reads(At(f, p)) \cup {At(f, p).def} : IsVirtual(r)
     /\ OnlyUse(f, At(f, p).def) /\ At(f, p).def \in Reads(At(f, q))
     /\ q[1] # p[1] /\ f.preds[q[1]] = <<p[1]>>
     /\ ~RedefinesInput(f, p, q)}

RECURSIVE Sunk(_)
Sunk(f) ==
  IF Sinks(f) = {} THEN f
  ELSE LET s == CHOOSE x \in Sinks(f) : TRUE IN Sunk(Move(f, s[1], s[2][1], s[2][2]))

SinglePredecessorSink(f) ==
  IF "HasPHIs" \in f.properties THEN f ELSE Changed(f, Sunk(f))

(* PostPhiConstantHoisting: constants of a loop move to its preheader, the *)
(* smaller loops first; one that sits in a nested preheader stays.         *)
Preheader(f, l) ==
  LET outside == Predecessors(f, l.header) \ l.blocks IN
    IF Cardinality(outside) # 1 THEN 0
    ELSE LET p == CHOOSE b \in outside : TRUE IN IF Len(f.succs[p]) = 1 THEN p ELSE 0

HoistableIn(f, l, preheaders, hoisted) ==
  {p \in Positions(f) : /\ p[1] \in l.blocks /\ IsConstant(At(f, p)) /\ IsVirtual(At(f, p).def)
                        /\ At(f, p).def \notin hoisted
                        /\ p[1] \notin preheaders \/ p[1] = l.header}

RECURSIVE HoistLoop(_, _, _, _)
HoistLoop(f, l, preheaders, hoisted) ==
  LET ps == HoistableIn(f, l, preheaders, hoisted)
      p == CHOOSE x \in ps : TRUE
      h == Preheader(f, l)
  IN  IF ps = {} THEN f ELSE HoistLoop(Move(f, p, h, FirstTerminator(f.code[h])), l, preheaders, hoisted)

RECURSIVE HoistLoops(_, _, _, _)
HoistLoops(f, ls, preheaders, hoisted) ==
  IF ls = {} THEN f
  ELSE LET l == CHOOSE x \in ls : \A y \in ls : Cardinality(x.blocks) <= Cardinality(y.blocks)
           moved == {At(f, p).def : p \in HoistableIn(f, l, preheaders, hoisted)}
       IN  HoistLoops(HoistLoop(f, l, preheaders, hoisted), ls \ {l}, preheaders, hoisted \cup moved)

ConstantHoisting(f) ==
  LET ls == {l \in Loops(f) : Preheader(f, l) # 0}
  IN  Changed(f, HoistLoops(f, ls, {Preheader(f, l) : l \in ls}, {}))

(* AArch64BranchFolding.                                                   *)

\* flagsAccess of the block's code from k on: the first instruction that touches them.
FlagsAccess(code, k) ==
  LET touching == {n \in k .. Len(code) : UsesFlags(code[n]) \/ DefinesFlags(code[n])} IN
    IF touching = {} THEN "none" ELSE IF UsesFlags(code[Min(touching)]) THEN "read" ELSE "written"

FlagsUsedAfter(f, p) ==
  LET local == FlagsAccess(f.code[p[1]], p[2] + 1)
      onward == [b \in Blocks(f) |->
                   IF FlagsAccess(f.code[b], 1) = "none" THEN Successors(f, b) ELSE {}]
  IN  IF local # "none" THEN local = "read"
      ELSE \E b \in Closure(Successors(f, p[1]), onward) : FlagsAccess(f.code[b], 1) = "read"

PowerOfTwo(n) == \E k \in 0 .. 4 : n = 2 ^ k
BitOf(n) == CHOOSE k \in 0 .. 4 : n = 2 ^ k
\* Of the small masks, those with one run of ones (isLogicalImmediate32).
LogicalImmediate(n) == \E k, m \in 0 .. 5 : k < m /\ n = 2 ^ m - 2 ^ k

MaskOf(f, i, n) ==
  LET ds == Definitions(f, i.uses[n]) IN
    IF Cardinality(ds) = 1 /\ IsConstant(At(f, CHOOSE d \in ds : TRUE))
    THEN At(f, CHOOSE d \in ds : TRUE).imm ELSE 0

\* [source, mask, by]: what is tested, against which constant (0: none), and the
\* register that holds it (0: the instruction does).
Tested(f, i) ==
  IF i.op = "ANDWri" THEN [source |-> i.uses[1], mask |-> i.imm, by |-> 0]
  ELSE IF MaskOf(f, i, 2) # 0
    THEN [source |-> i.uses[1], mask |-> MaskOf(f, i, 2), by |-> i.uses[2]]
  ELSE IF MaskOf(f, i, 1) # 0
    THEN [source |-> i.uses[2], mask |-> MaskOf(f, i, 1), by |-> i.uses[1]]
  ELSE [source |-> i.uses[1], mask |-> 0, by |-> i.uses[2]]

ZeroTest(f, p) ==
  /\ p[2] + 1 \in DOMAIN f.code[p[1]]
  /\ LET branch == f.code[p[1]][p[2] + 1] IN
       /\ At(f, p).op = "CMPWri" /\ At(f, p).imm = 0
       /\ branch.op = "Bcc" /\ branch.cond \in {"EQ", "NE"}
       /\ ~FlagsUsedAfter(f, <<p[1], p[2] + 1>>)

BitTests(f) ==
  {p \in Positions(f) : /\ At(f, p).op \in {"ANDWrr", "ANDWri"} /\ OnlyUse(f, At(f, p).def)
                        /\ <<p[1], p[2] + 1>> \in Positions(f) /\ ZeroTest(f, <<p[1], p[2] + 1>>)
                        /\ f.code[p[1]][p[2] + 1].uses = <<At(f, p).def>>}

FoldBitTest(f, p, t) ==
  LET i == At(f, p)
      compare == <<p[1], p[2] + 1>>
      branch == <<p[1], p[2] + 2>>
      oneBit == PowerOfTwo(t.mask)
      immediate == ~oneBit /\ LogicalImmediate(t.mask)
      unused == IF t.by # 0 /\ t.mask # 0 /\ OnlyUse(f, t.by) /\ (oneBit \/ immediate)
                THEN {t.by} ELSE {}
      g == IF oneBit
           THEN Replace(f, branch,
                  [At(f, branch) EXCEPT !.op = IF @ = "Bcc" /\ At(f, branch).cond = "EQ" THEN "TBZ" ELSE "TBNZ",
                                        !.cond = "AL", !.uses = <<t.source>>, !.imm = BitOf(t.mask)])
           ELSE Replace(f, compare,
                  IF immediate THEN Op("TSTWri", 0, <<t.source>>, t.mask)
                  ELSE Op("TSTWrr", 0, <<t.source, t.by>>, 0))
      gone == {p} \cup (IF oneBit THEN {compare} ELSE {})
                  \cup UNION {Definitions(f, r) : r \in unused}
  IN  Erase(Forget(g, {i.def} \cup unused), gone)

RECURSIVE FoldBitTests(_)
FoldBitTests(f) ==
  IF BitTests(f) = {} THEN f
  ELSE LET p == CHOOSE x \in BitTests(f) : TRUE IN FoldBitTests(FoldBitTest(f, p, Tested(f, At(f, p))))

ZeroBranch(f, p) ==
  LET branch == At(f, <<p[1], p[2] + 1>>) IN
    Erase(Replace(f, <<p[1], p[2] + 1>>,
            [branch EXCEPT !.op = IF branch.cond = "EQ" THEN "CBZ" ELSE "CBNZ",
                           !.cond = "AL", !.uses = At(f, p).uses]), {p})

RECURSIVE FoldZeroTests(_)
FoldZeroTests(f) ==
  LET tests == {p \in Positions(f) : ZeroTest(f, p) /\ IsVirtual(At(f, p).uses[1])} IN
    IF tests = {} THEN f ELSE FoldZeroTests(ZeroBranch(f, CHOOSE p \in tests : TRUE))

BranchFolding(f) ==
  Changed(f, FoldZeroTests(FoldBitTests(f)))

(* UnreachableMachineBlockElimination.                                     *)

\* The block leaves the lists of its neighbours as they are.
RemoveBlock_listed(f, b) == [f EXCEPT !.layout = SelectSeq(@, LAMBDA x : x # b), !.code[b] = <<>>]

RemoveBlock(f, b) ==
  LET g == FoldLeft(LAMBDA h, p : RemoveSuccessor(h, p, b), f, f.preds[b])
      h == FoldLeft(LAMBDA x, s : RemoveSuccessor(x, b, s), g, f.succs[b])
  IN  [h EXCEPT !.layout = SelectSeq(@, LAMBDA x : x # b), !.code[b] = <<>>]

UnreachableBlockElimination(f) ==
  LET dead == SelectSeq(f.layout, LAMBDA b : b \notin Reachable(f))
      g == FoldLeft(RemoveBlock, f, dead)
  IN  IF dead = <<>> THEN f
      ELSE ClearProperty([g EXCEPT !.registers = UNION {VirtualRegisters(At(g, p)) : p \in Positions(g)}],
                         "TracksLiveness")
=============================================================================
