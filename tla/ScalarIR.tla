------------------------------ MODULE ScalarIR ------------------------------
(***************************************************************************)
(* The intermediate representation (mid/ir): functions in SSA form, their  *)
(* blocks with instruction lists and the cached lists of predecessors and  *)
(* successors, and the edits every pass is made of.                        *)
(*                                                                         *)
(* A value is a number: an integer constant is itself, globals, arguments  *)
(* and instructions are numbers from FirstGlobal on.  Blocks are numbered  *)
(* in the order of their creation; block 1 is the entry.                   *)
(***************************************************************************)
EXTENDS Integers, Sequences, FiniteSets, SequencesExt, FiniteSetsExt

CONSTANT Bits  \* the width of an int
ASSUME BitsAssumption == Bits \in 3 .. 5

IntMax == 2 ^ (Bits - 1) - 1
IntMin == -(2 ^ (Bits - 1))
Ints == IntMin .. IntMax
Wrap(x) == ((x - IntMin) % 2 ^ Bits) + IntMin
Unsigned(x) == x % 2 ^ Bits

\* Bit patterns as sets of positions.
Positions == 0 .. Bits - 1
Sign == Bits - 1
BitsTable == [x \in Ints |-> {k \in Positions : (Unsigned(x) \div 2 ^ k) % 2 = 1}]
BitsOf(x) == BitsTable[x]
NumberTable == [S \in SUBSET Positions |-> Wrap(MapThenSumSet(LAMBDA k : 2 ^ k, S))]
NumberOf(S) == NumberTable[S]

FirstGlobal == 50
FirstLocal == 100
NoBlock == 0  \* nullptr

IsConst(v) == v < FirstGlobal
IsGlobal(v) == v \in FirstGlobal .. FirstLocal - 1

\* Types: void, a condition, an int, a pointer.
Void == 0
Bool == 1
Pointer == -1
Integer == Bits

(* Instructions.                                                           *)

Commutative == {"Add", "Mul", "And", "Or", "Xor"}
BinaryOps == Commutative \cup {"Sub", "SDiv", "SRem", "Shl", "LShr", "AShr"}

\* args: the operands; to: the targets of a branch, true one first, or the incoming
\* blocks of a PHI; pred: the predicate of a comparison; name: the function called;
\* tail: the call may reuse the frame; size: the elements of an alloca; bb: the block, none when it has been taken out.
Instr == [op |-> "Invalid", ty |-> Void, args |-> <<>>, to |-> <<>>, pred |-> "",
          name |-> "", tail |-> FALSE, size |-> 1, bb |-> NoBlock]
Binary(op, ty, x, y) == [Instr EXCEPT !.op = op, !.ty = ty, !.args = <<x, y>>]
ICmp(pred, x, y) == [Instr EXCEPT !.op = "ICmp", !.ty = Bool, !.args = <<x, y>>, !.pred = pred]
Select(ty, c, x, y) == [Instr EXCEPT !.op = "Select", !.ty = ty, !.args = <<c, x, y>>]
BitCast(x) == [Instr EXCEPT !.op = "BitCast", !.ty = Pointer, !.args = <<x>>]
ZExt(x) == [Instr EXCEPT !.op = "ZExt", !.ty = Integer, !.args = <<x>>]
Phi(ty, vals, blocks) == [Instr EXCEPT !.op = "PHI", !.ty = ty, !.args = vals, !.to = blocks]
Jump(b) == [Instr EXCEPT !.op = "Br", !.to = <<b>>]
Branch(c, t, e) == [Instr EXCEPT !.op = "Br", !.args = <<c>>, !.to = <<t, e>>]
Return(vals) == [Instr EXCEPT !.op = "Ret", !.args = vals]
Alloca(size) == [Instr EXCEPT !.op = "Alloca", !.ty = Pointer, !.size = size]
GEP(base, index) == [Instr EXCEPT !.op = "GEP", !.ty = Pointer, !.args = <<base, index>>]
Load(ptr) == [Instr EXCEPT !.op = "Load", !.ty = Integer, !.args = <<ptr>>]
Store(v, ptr) == [Instr EXCEPT !.op = "Store", !.args = <<v, ptr>>]
Call(name, ty, vals) == [Instr EXCEPT !.op = "Call", !.ty = ty, !.args = vals, !.name = name]

IsTerminator(i) == i.op \in {"Br", "Ret"}
IsConditional(i) == i.op = "Br" /\ Len(i.to) = 2
IsPhi(i) == i.op = "PHI"
\* The value an incoming block brings.
Incoming(i, b) == i.args[CHOOSE k \in DOMAIN i.to : i.to[k] = b]

SwapTable ==
  [SGT |-> "SLT", SGE |-> "SLE", SLT |-> "SGT", SLE |-> "SGE", UGT |-> "ULT", UGE |-> "ULE",
   ULT |-> "UGT", ULE |-> "UGE", EQ |-> "EQ", NE |-> "NE"]
Swapped(pred) == SwapTable[pred]
NegatedTable ==
  [SGT |-> "SLE", SGE |-> "SLT", SLT |-> "SGE", SLE |-> "SGT", UGT |-> "ULE", UGE |-> "ULT",
   ULT |-> "UGE", ULE |-> "UGT", EQ |-> "NE", NE |-> "EQ"]
Negated(pred) == NegatedTable[pred]

(* Functions: args (the types), blocks (in layout order), body, inst, pre,  *)
(* succ, next (the next number).  A program: its functions by name, their   *)
(* order, and the initial contents of its globals.                         *)

IsInst(f, v) == v \in DOMAIN f.inst
Is(f, v, op) == v \in DOMAIN f.inst /\ f.inst[v].op = op
Arg(f, v, k) == f.inst[v].args[k]
BlockOf(f, v) == f.inst[v].bb
BlockSet(f) == ToSet(f.blocks)
Placed(f) == {v \in DOMAIN f.inst : f.inst[v].bb # NoBlock}
Position(f, v) == CHOOSE k \in DOMAIN f.body[BlockOf(f, v)] : f.body[BlockOf(f, v)][k] = v
TerminatorOf(f, b) == Last(f.body[b])
Terminator(f, b) == f.inst[TerminatorOf(f, b)]
HasTerminator(f, b) == f.body[b] # <<>> /\ IsTerminator(Terminator(f, b))
Targets(f, b) == IF HasTerminator(f, b) THEN ToSet(Terminator(f, b).to) ELSE {}
Phis(f, b) == SelectSeq(f.body[b], LAMBDA v : IsPhi(f.inst[v]))
NonPhis(f, b) == SelectSeq(f.body[b], LAMBDA v : ~IsPhi(f.inst[v]))
InOrder(f) == FlattenSeq([k \in DOMAIN f.blocks |-> f.body[f.blocks[k]]])

\* The type of a value; a constant takes the type its user wants.
TypeOf(f, v, wanted) ==
  IF v \in DOMAIN f.inst THEN f.inst[v].ty ELSE IF IsConst(v) THEN wanted
  ELSE IF IsGlobal(v) THEN Pointer ELSE f.args[v - FirstLocal + 1]

\* The use list of a value: who uses it, and at which operand.
Uses(f, v) ==
  UNION {{<<u, k>> : k \in {k \in DOMAIN f.inst[u].args : f.inst[u].args[k] = v}} :
           u \in {u \in DOMAIN f.inst : v \in ToSet(f.inst[u].args)}}
Users(f, v) == {u \in DOMAIN f.inst : v \in ToSet(f.inst[u].args)}
HasOneUse(f, v) == Cardinality(Uses(f, v)) = 1
OnlyUser(f, v) == CHOOSE u \in Users(f, v) : TRUE

(* Edits.                                                                  *)

\* add_instruction_before_inst: new instructions go before v, in v's block.
InsertBefore(f, v, new) ==
  LET b == BlockOf(f, v)
      ids == [k \in DOMAIN new |-> f.next + k - 1]
      at == Position(f, v)
  IN  [f EXCEPT !.body[b] = SubSeq(@, 1, at - 1) \o ids \o SubSeq(@, at, Len(@)),
                !.inst = [u \in ToSet(ids) |-> [new[u - f.next + 1] EXCEPT !.bb = b]] @@ @,
                !.next = @ + Len(new)]

\* add_instruction: at the end of block b.
AppendTo(f, b, i) ==
  [f EXCEPT !.body[b] = Append(@, f.next), !.inst = (f.next :> [i EXCEPT !.bb = b]) @@ @,
            !.next = @ + 1]
\* create_phi: behind the PHIs of block b.
InsertPhi(f, b, i) ==
  [f EXCEPT !.body[b] = Phis(f, b) \o <<f.next>> \o NonPhis(f, b),
            !.inst = (f.next :> [i EXCEPT !.bb = b]) @@ @, !.next = @ + 1]

\* delete_instr, of every instruction of vs.
Delete(f, vs) ==
  [f EXCEPT !.body = [b \in DOMAIN @ |-> SelectSeq(@[b], LAMBDA v : v \notin vs)],
            !.inst = Restrict(@, DOMAIN @ \ vs)]

\* remove_instr and an insertion before u: v moves.
MoveBefore(f, v, u) ==
  LET g == [f EXCEPT !.body[BlockOf(f, v)] = SelectSeq(@, LAMBDA w : w # v)]
      b == BlockOf(f, u)
      at == CHOOSE k \in DOMAIN g.body[b] : g.body[b][k] = u
  IN  [g EXCEPT !.body[b] = SubSeq(@, 1, at - 1) \o <<v>> \o SubSeq(@, at, Len(@)),
                !.inst[v].bb = b]

\* replace_all_use_with, of every value of the domain of to.
ReplaceUses(f, to) ==
  [f EXCEPT !.inst = [u \in DOMAIN @ |->
     IF ToSet(@[u].args) \cap DOMAIN to = {} THEN @[u]
     ELSE [@[u] EXCEPT !.args = [k \in DOMAIN @ |-> IF @[k] \in DOMAIN to THEN to[@[k]] ELSE @[k]]]]]
ReplaceUse(f, v, w) == ReplaceUses(f, v :> w)

\* add_succ_basic_block with add_pre_basic_block; an edge is listed once.
AddEdge(f, b, s) ==
  [f EXCEPT !.succ[b] = IF s \in ToSet(@) THEN @ ELSE Append(@, s),
            !.pre[s] = IF b \in ToSet(@) THEN @ ELSE Append(@, b)]
RemoveEdge(f, b, s) ==
  [f EXCEPT !.succ[b] = SelectSeq(@, LAMBDA x : x # s),
            !.pre[s] = SelectSeq(@, LAMBDA x : x # b)]

\* The constructors of BranchInst: the instruction, and its edges, false one first.
AppendJump(f, b, s) == AddEdge(AppendTo(f, b, Jump(s)), b, s)
AppendBranch(f, b, c, t, e) == AddEdge(AddEdge(AppendTo(f, b, Branch(c, t, e)), b, e), b, t)

\* A PHI loses what comes from block b.
WithoutIncoming(i, b) ==
  LET keep == SetToSortSeq({k \in DOMAIN i.to : i.to[k] # b}, LAMBDA x, y : x < y)
  IN  [i EXCEPT !.args = [n \in DOMAIN keep |-> i.args[keep[n]]],
                !.to = [n \in DOMAIN keep |-> i.to[keep[n]]]]
RemoveIncoming(f, s, b) ==
  [f EXCEPT !.inst = [v \in DOMAIN @ |->
     IF IsPhi(@[v]) /\ @[v].bb = s THEN WithoutIncoming(@[v], b) ELSE @[v]]]
RenameIncoming(f, s, b, c) ==
  [f EXCEPT !.inst = [v \in DOMAIN @ |->
     IF IsPhi(@[v]) /\ @[v].bb = s
     THEN [@[v] EXCEPT !.to = [k \in DOMAIN @ |-> IF @[k] = b THEN c ELSE @[k]]] ELSE @[v]]]

\* A new block, last in the layout.
NewBlock(f) == Len(f.body) + 1
AddBlock(f) ==
  [f EXCEPT !.blocks = Append(@, NewBlock(f)), !.body = Append(@, <<>>),
            !.pre = Append(@, <<>>), !.succ = Append(@, <<>>)]

\* Function::remove_bb: the lists of its neighbours forget the block.
RemoveBlock(f, b) ==
  LET Forget(lists) == [c \in DOMAIN lists |-> SelectSeq(lists[c], LAMBDA x : x # b)] IN
    [f EXCEPT !.blocks = SelectSeq(@, LAMBDA x : x # b),
              !.succ = [c \in DOMAIN @ |-> IF c \in ToSet(f.pre[b]) THEN Forget(@)[c] ELSE @[c]],
              !.pre = [c \in DOMAIN @ |-> IF c \in ToSet(f.succ[b]) THEN Forget(@)[c] ELSE @[c]]]

\* A function from its blocks, given as sequences of instructions numbered from next
\* on; the lists are those of the terminators.
FunctionOf(args, blocks) ==
  LET Offset(b) == FirstLocal + Len(args) + FoldSeq(LAMBDA x, n : n + Len(x), 0, SubSeq(blocks, 1, b - 1))
      end == Offset(Len(blocks) + 1)
      Home(v) == CHOOSE b \in DOMAIN blocks : Offset(b) <= v /\ v < Offset(b + 1)
      BlockTargets(b) == ToSet(Last(blocks[b]).to)
      Ascending(S) == SetToSortSeq(S, LAMBDA x, y : x < y)
  IN  [args |-> args, blocks |-> [b \in DOMAIN blocks |-> b],
       body |-> [b \in DOMAIN blocks |-> [k \in DOMAIN blocks[b] |-> Offset(b) + k - 1]],
       inst |-> [v \in Offset(1) .. end - 1 |-> [blocks[Home(v)][v - Offset(Home(v)) + 1] EXCEPT !.bb = Home(v)]],
       pre |-> [b \in DOMAIN blocks |-> Ascending({p \in DOMAIN blocks : b \in BlockTargets(p)})],
       succ |-> [b \in DOMAIN blocks |-> Ascending(BlockTargets(b))],
       next |-> end]
=============================================================================
