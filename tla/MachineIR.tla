------------------------------ MODULE MachineIR ------------------------------
(***************************************************************************)
(* Machine functions of the AArch64 back end (machine_ir.hpp): blocks with *)
(* their instruction lists, the predecessor and successor lists kept       *)
(* beside the terminators, and the machine properties.  One register bank  *)
(* and one width; virtual registers are 1, 2, ..., physical registers are  *)
(* negative, 0 is no register (or no block).                               *)
(***************************************************************************)
EXTENDS Integers, Sequences, FiniteSets, SequencesExt, FiniteSetsExt

(* target.hpp: the registers of a small bank, two of them for arguments.   *)
X0 == -1
X1 == -2
X9 == -3
X19 == -4
SP == -9

ArgumentRegisters == {X0, X1}
CallerSaved == {X0, X1, X9}
CalleeSaved == <<X19>>
Allocatable == CallerSaved \cup ToSet(CalleeSaved)

\* Arguments arrive in x0 and x1, results leave in x0: the registers a leaf
\* function is given first are the ones neither needs.
AllocationOrder(preferCallerSaved) ==
  IF preferCallerSaved THEN <<X9, X1, X0, X19>> ELSE <<X9, X19, X1, X0>>

(* The opcodes that occur here, with the flags of target_desc/aarch64.td.  *)
ConditionalBranches == {"Bcc", "CBZ", "CBNZ", "TBZ", "TBNZ"}
Unconditional == {"B", "RET", "TAILCALL"}
Branches == Unconditional \cup ConditionalBranches
IsTerminator(i) == i.op \in Branches
IsConditional(i) == i.op \in ConditionalBranches
IsCall(i) == i.op \in {"CALL", "TAILCALL"}
MayLoad(i) == i.op \in {"LDRWui", "SPILL_LOAD"}
MayStore(i) == i.op \in {"STRWui", "SPILL_STORE"}
SetsFlags(i) == i.op \in {"CMPWrr", "CMPWri", "TSTWrr", "TSTWri"}
\* definesRegister(NZCV): no call preserves the flags.
DefinesFlags(i) == SetsFlags(i) \/ IsCall(i)
UsesFlags(i) == i.op \in {"Bcc", "CSETW", "CSELW"}
HasSideEffects(i) == IsCall(i) \/ i.op = "RET"
IsPseudo(i) == i.op \in {"PHI", "SPILL_LOAD", "SPILL_STORE"}
IsConstant(i) == i.op = "MOVi32"
IsCommutable(i) == i.op \in {"ADDWrr", "MULWrr", "ANDWrr"}
Latency(i) ==
  CASE i.op = "MULWrr" -> 3 [] i.op \in {"LDRWui", "SPILL_LOAD"} -> 4
    [] i.op = "INSv4i32" -> 6 [] OTHER -> 1
Resource(i) ==
  CASE i.op = "MULWrr" -> "MAC" [] MayLoad(i) \/ MayStore(i) -> "LoadStore"
    [] i.op = "INSv4i32" -> "FPALU" [] OTHER -> "ALU"
RematerializationCost(i) == IF IsConstant(i) THEN 1 ELSE 0
\* The first use shares the register of the definition.
IsTied(i) == i.op = "INSv4i32"

\* A constant is a word of Pieces pieces, which one move instruction each can set.
PieceBits == 4
Pieces == 2
WordBits == Pieces * PieceBits

InverseCondition(cond) ==
  CASE cond = "EQ" -> "NE" [] cond = "NE" -> "EQ"
    [] cond = "LT" -> "GE" [] cond = "GE" -> "LT"

Instr == [op |-> "Invalid", def |-> 0, uses |-> <<>>, imm |-> 0, cond |-> "AL",
          to |-> 0, from |-> <<>>, group |-> 0]
Op(op, def, uses, imm) == [Instr EXCEPT !.op = op, !.def = def, !.uses = uses, !.imm = imm]
CopyOf(def, use) == Op("COPY", def, <<use>>, 0)
Branch(to) == [Instr EXCEPT !.op = "B", !.to = to]

Reads(i) == ToSet(i.uses)
IsVirtual(r) == r > 0
Rename(i, from, to) ==
  [i EXCEPT !.uses = [n \in DOMAIN i.uses |-> IF i.uses[n] = from THEN to ELSE i.uses[n]]]

-----------------------------------------------------------------------------
\* The elements of a set in a strict total order.
Sorted(S, Precedes(_, _)) ==
  [n \in 1 .. Cardinality(S) |->
     CHOOSE x \in S : Cardinality({y \in S : Precedes(y, x)}) = n - 1]
Ascending(S) == Sorted(S, LAMBDA x, y : x < y)

\* The function f; TLC computes all its values at once instead of at every application.
Table(f) == f @@ <<>>

(* Functions: the record of MachineFunction.                               *)

Blocks(f) == ToSet(f.layout)
Positions(f) == UNION {{<<b, k>> : k \in DOMAIN f.code[b]} : b \in Blocks(f)}
At(f, p) == f.code[p[1]][p[2]]
Before(p, q) == p[1] = q[1] /\ p[2] < q[2]
Between(p, q) == {<<p[1], k>> : k \in p[2] + 1 .. q[2] - 1}
Definitions(f, r) == {p \in Positions(f) : At(f, p).def = r}
UsesOf(f, r) == {p \in Positions(f) : r \in Reads(At(f, p))}
UseCount(f, r) ==
  MapThenSumSet(LAMBDA p : Cardinality({k \in DOMAIN At(f, p).uses : At(f, p).uses[k] = r}),
                UsesOf(f, r))
Successors(f, b) == ToSet(f.succs[b])
Predecessors(f, b) == ToSet(f.preds[b])

\* A list without an element that occurs in it at most once.
Removed(list, x) ==
  IF x \in ToSet(list) THEN RemoveAt(list, CHOOSE n \in DOMAIN list : list[n] = x) ELSE list

AddSuccessor(f, b, s) ==
  [f EXCEPT !.succs[b] = IF s \in ToSet(@) THEN @ ELSE Append(@, s),
            !.preds[s] = IF b \in ToSet(@) THEN @ ELSE Append(@, b)]

RemoveSuccessor(f, b, s) ==
  [f EXCEPT !.succs[b] = Removed(@, s), !.preds[s] = Removed(@, b)]

\* A terminator that names block from names block to instead.
Retargeted_jumps(i, from, to) == IF i.op = "B" /\ i.to = from THEN [i EXCEPT !.to = to] ELSE i
Retargeted(i, from, to) ==
  IF IsTerminator(i) /\ i.to = from THEN [i EXCEPT !.to = to] ELSE i

\* createBlock: the number is the next one, the block comes last.
CreateBlock(f) ==
  [f EXCEPT !.layout = Append(@, Len(f.code) + 1),
            !.code = Append(@, <<>>), !.succs = Append(@, <<>>), !.preds = Append(@, <<>>)]
NewBlock(f) == Len(f.code)

SetProperty(f, p) == [f EXCEPT !.properties = @ \cup {p}]
ClearProperty(f, p) == [f EXCEPT !.properties = @ \ {p}]

\* What a pass leaves that made g of f.
Changed(f, g) == IF g = f THEN f ELSE ClearProperty(g, "TracksLiveness")

\* The instructions at positions ps are erased.
Erase(f, ps) ==
  [f EXCEPT !.code = [b \in DOMAIN @ |->
     LET keep == Ascending({k \in DOMAIN f.code[b] : <<b, k>> \notin ps})
     IN  [n \in DOMAIN keep |-> f.code[b][keep[n]]]]]

\* Every use of a register of from reads to[r] instead (replaceUses), and the
\* registers of from are no more (eraseVirtualRegister).
Substitute(f, to) ==
  LET Now(r) == IF r \in DOMAIN to THEN to[r] ELSE r
      Renamed(i) == [i EXCEPT !.uses = [n \in DOMAIN i.uses |-> Now(i.uses[n])]]
  IN  [f EXCEPT !.registers = @ \ DOMAIN to,
                !.code = [b \in DOMAIN @ |-> [k \in DOMAIN f.code[b] |-> Renamed(f.code[b][k])]]]

Replace(f, p, i) == [f EXCEPT !.code[p[1]][p[2]] = i]
Forget(f, rs) == [f EXCEPT !.registers = @ \ rs]

Move(f, p, b, k) ==
  LET i == At(f, p)
      without == Erase(f, {p})
      place == IF p[1] = b /\ p[2] < k THEN k - 1 ELSE k
  IN  [without EXCEPT !.code[b] = InsertAt(@, place, i)]

FirstTerminator(code) ==
  LET ts == {k \in DOMAIN code : IsTerminator(code[k])} IN
    IF ts = {} THEN Len(code) + 1 ELSE Min(ts)

\* Where the branches of b go.
Targets(f, b) == {i.to : i \in ToSet(f.code[b])} \ {0}

HasCalls(f) == \E p \in Positions(f) : At(f, p).op = "CALL"

-----------------------------------------------------------------------------
(* What MachineVerifier::verify asks of the lists and the PHIs.            *)

ListsAgree(f) ==
  \A b \in Blocks(f) :
    /\ \A s \in Successors(f, b) : s \in Blocks(f) /\ b \in Predecessors(f, s)
    /\ \A p \in Predecessors(f, b) : p \in Blocks(f) /\ b \in Successors(f, p)

PhisFirst(f) ==
  \A p \in Positions(f) : At(f, p).op = "PHI" =>
    /\ \A k \in 1 .. p[2] : f.code[p[1]][k].op = "PHI"
    /\ IsInjective(At(f, p).from)
    /\ ToSet(At(f, p).from) = Predecessors(f, p[1])
=============================================================================
