--------------------------- MODULE MachineAnalysis ---------------------------
(***************************************************************************)
(* What the passes compute about a machine function: dominators, natural   *)
(* loops, liveness of virtual and of physical registers, live intervals    *)
(* (machine_analysis.cpp, live_range.cpp), and the rules MachineVerifier   *)
(* holds it to (verifier.cpp).                                             *)
(***************************************************************************)
EXTENDS MachineIR

RECURSIVE Closure(_, _)
Closure(S, next) ==
  LET T == S \cup UNION {next[x] : x \in S} IN IF T = S THEN S ELSE Closure(T, next)

Reachable(f) == Closure({f.layout[1]}, [b \in Blocks(f) |-> Successors(f, b)])

RECURSIVE DominatorFixpoint(_, _, _)
DominatorFixpoint(f, live, dom) ==
  LET next == [b \in DOMAIN dom |->
        IF b \notin live \/ b = f.layout[1] THEN {b}
        ELSE {b} \cup {d \in live : \A p \in Predecessors(f, b) \cap live : d \in dom[p]}]
  IN  IF next = dom THEN dom ELSE DominatorFixpoint(f, live, next)

\* The sets of MachineDominatorTree: [b |-> the blocks on every path to b].
Dominators(f) ==
  LET live == Reachable(f) IN
    DominatorFixpoint(f, live,
      [b \in Blocks(f) |-> IF b \notin live \/ b = f.layout[1] THEN {b} ELSE live])

\* One natural loop for each header, of all its back edges.
Loops(f) ==
  LET dom == Dominators(f)
      live == Reachable(f)
      Tails(h) == {t \in live : h \in Successors(f, t) /\ h \in dom[t]}
      Into(h) == [b \in live |-> IF b = h THEN {} ELSE Predecessors(f, b) \cap live]
  IN  {[header |-> h, blocks |-> {h} \cup Closure(Tails(h), Into(h))] :
         h \in {b \in live : Tails(b) # {}}}

LoopDepth(f, b) == Cardinality({l \in Loops(f) : b \in l.blocks})

(* Liveness, of the virtual or of the physical registers.                  *)

\* collectPhysicalUsesAndDefs: a call reads every argument register and
\* writes what its mask does not preserve; a return reads the result.
Uses(bank, i) ==
  IF bank = "virtual" THEN {r \in Reads(i) : IsVirtual(r)}
  ELSE {r \in Reads(i) : r < 0}
         \cup (IF IsCall(i) THEN ArgumentRegisters ELSE IF i.op = "RET" THEN {X0} ELSE {})
Defs(bank, i) ==
  IF bank = "virtual" THEN {r \in {i.def} : IsVirtual(r)}
  ELSE {r \in {i.def} : r < 0} \cup (IF IsCall(i) THEN CallerSaved ELSE {})
VirtualRegisters(i) == Uses("virtual", i) \cup Defs("virtual", i)

RECURSIVE LiveBefore(_, _, _, _)
LiveBefore(bank, code, k, out) ==
  IF k > Len(code) THEN out
  ELSE (LiveBefore(bank, code, k + 1, out) \ Defs(bank, code[k])) \cup Uses(bank, code[k])

RECURSIVE LiveFixpoint(_, _, _)
LiveFixpoint(bank, f, in) ==
  LET next == [b \in DOMAIN in |->
        LiveBefore(bank, f.code[b], 1, UNION {in[s] : s \in Successors(f, b)})]
  IN  IF next = in THEN in ELSE LiveFixpoint(bank, f, next)

LiveOut(bank, f) ==
  LET in == LiveFixpoint(bank, f, [b \in Blocks(f) |-> {}])
  IN  Table([b \in Blocks(f) |-> UNION {in[s] : s \in Successors(f, b)}])

LiveAfter(bank, f, out, p) == LiveBefore(bank, f.code[p[1]], p[2] + 1, out[p[1]])

AcrossCalls(f, out) ==
  UNION {LiveAfter("virtual", f, out, p) : p \in {q \in Positions(f) : IsCall(At(f, q))}}

-----------------------------------------------------------------------------
(* MachineVerifier::verify.                                                *)

TerminatorsLast(f) ==
  \A b \in Blocks(f) :
    \A k \in FirstTerminator(f.code[b]) .. Len(f.code[b]) : IsTerminator(f.code[b][k])

HasFallthrough(f, b) ==
  \E n \in 1 .. Len(f.layout) - 1 : f.layout[n] = b /\ f.layout[n + 1] \in Successors(f, b)

Terminated(f) ==
  \A b \in Blocks(f) : f.succs[b] # <<>> =>
    (f.code[b] # <<>> /\ IsTerminator(Last(f.code[b]))) \/ HasFallthrough(f, b)

\* Where control can go from b.
Exits(f, b) ==
  LET n == SelectInSeq(f.layout, LAMBDA x : x = b)
      falls == f.code[b] = <<>> \/ Last(f.code[b]).op \notin Unconditional
  IN  Targets(f, b) \cup (IF falls /\ n < Len(f.layout) THEN {f.layout[n + 1]} ELSE {})

DefinitionsDominateUses(f) ==
  LET dom == Dominators(f) IN
    /\ \A r \in f.registers : Cardinality(Definitions(f, r)) = 1
    /\ \A p \in Positions(f) : \A n \in DOMAIN At(f, p).uses :
         \A d \in Definitions(f, At(f, p).uses[n]) :
           IF ~IsVirtual(At(f, p).uses[n]) THEN TRUE
           ELSE IF At(f, p).op = "PHI" THEN d[1] \in dom[At(f, p).from[n]]
           ELSE d[1] \in dom[p[1]] /\ (d[1] = p[1] => d[2] < p[2])

RegistersKnown(f) ==
  \A p \in Positions(f) : VirtualRegisters(At(f, p)) \subseteq f.registers

\* Branches reach a few instructions.
TestBranchRange == 4
BranchRange == 7

RECURSIVE OffsetOf(_, _)
OffsetOf(f, b) ==
  LET n == SelectInSeq(f.layout, LAMBDA x : x = b) IN
    IF n = 1 THEN 0 ELSE OffsetOf(f, f.layout[n - 1]) + Len(f.code[f.layout[n - 1]])

DisplacementFits(i, displacement) ==
  LET range == IF i.op \in {"TBZ", "TBNZ"} THEN TestBranchRange ELSE BranchRange
  IN  displacement >= -range /\ displacement <= range - 1

\* The conditional branches whose target is too far away.
OutOfRange(f) ==
  {p \in Positions(f) : /\ IsConditional(At(f, p))
                        /\ ~DisplacementFits(At(f, p),
                              OffsetOf(f, At(f, p).to) - (OffsetOf(f, p[1]) + p[2] - 1))}

Verified(f) ==
  /\ ListsAgree(f) /\ PhisFirst(f) /\ TerminatorsLast(f) /\ Terminated(f)
  /\ RegistersKnown(f)
  /\ "HasPHIs" \in f.properties <=> \E p \in Positions(f) : At(f, p).op = "PHI"
  /\ "IsSSA" \in f.properties => DefinitionsDominateUses(f)
  /\ "NoVRegs" \in f.properties =>
       \A p \in Positions(f) : VirtualRegisters(At(f, p)) = {}
  /\ "NoVRegs" \in f.properties => "Selected" \in f.properties
  /\ "FrameFinalized" \in f.properties =>
       /\ "NoVRegs" \in f.properties
       /\ \A p \in Positions(f) : ~IsPseudo(At(f, p)) /\ At(f, p).group = 0
  /\ "BranchesRelaxed" \in f.properties =>
       "FrameFinalized" \in f.properties /\ OutOfRange(f) = {}
=============================================================================
