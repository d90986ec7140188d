------------------------------- MODULE GenIR -------------------------------
(***************************************************************************)
(* irGen.cpp: the visitor that makes intermediate code of the syntax tree, *)
(* for programs over ints and arrays of one dimension.                     *)
(*                                                                         *)
(* The state of the visitor: the function under construction (f), the      *)
(* block that is appended to (bb), whether that block has its branch       *)
(* (hasBr), the value of the last expression (recentVal), the targets of   *)
(* the condition and of the loop at hand, the return block and the slot of *)
(* the result, what the names in scope stand for, the return types of      *)
(* functions.                                                              *)
(***************************************************************************)
EXTENDS SourceTree

\* What a name stands for: a constant, a slot of an int, a slot that holds the address
\* a caller passed, or an array.
Entry(kind, value) == [kind |-> kind, value |-> value]
Push(s, name, entry) == [s EXCEPT !.scope = (name :> entry) @@ @]

NoSlot == 0  \* no slot of the result

(* IRStmtBuilder.                                                          *)

Emit(s, i) == [s EXCEPT !.f = AppendTo(@, s.bb, i), !.recentVal = s.f.next]
EmitBr(s, target) == [s EXCEPT !.f = AppendJump(@, s.bb, target)]
EmitCondBr(s) == [s EXCEPT !.f = AppendBranch(@, s.bb, s.recentVal, s.trueBB, s.falseBB)]
NewNamedBB(s) == [s EXCEPT !.f = AddBlock(@)]
ContinueAt(s, b) == [s EXCEPT !.bb = b, !.hasBr = FALSE]
IsOpen(s) == ~HasTerminator(s.f, s.bb)
Closed(s, target) == IF IsOpen(s) THEN EmitBr(s, target) ELSE s
EmitStore(s, ptr) == Emit(s, Store(s.recentVal, ptr))

\* create_alloca: behind the last alloca of the entry.
EmitAlloca(s, size) ==
  LET entry == s.f.body[1]
      IsAlloca(v) == Is(s.f, v, "Alloca")
      v == s.f.next
  IN  [s EXCEPT !.recentVal = v,
                !.f = [@ EXCEPT !.next = v + 1, !.inst = (v :> [Alloca(size) EXCEPT !.bb = 1]) @@ @,
                                !.body[1] = SelectSeq(entry, IsAlloca) \o <<v>>
                                              \o SelectSeq(entry, LAMBDA w : ~IsAlloca(w))]]

(* Expressions.                                                            *)

IsBool(s, v) == TypeOf(s.f, v, Integer) = Bool
\* checkCalType: a condition that is used as a number.
Widened(s, v) == IF IsBool(s, v) THEN Emit(s, ZExt(v)) ELSE [s EXCEPT !.recentVal = v]
\* if and while: a number that is used as a condition.
Tested(s) == IF IsBool(s, s.recentVal) THEN s ELSE Emit(s, ICmp("NE", s.recentVal, 0))

\* The right operand is the last value.
EmitBinary(s, op, x) ==
  LET left == Widened(s, x)
      right == Widened(left, s.recentVal)
      a == left.recentVal
      b == right.recentVal
  IN  IF op \in DOMAIN Relation THEN Emit(right, ICmp(Relation[op], a, b))
      ELSE Emit(right, Binary(Operator[op], Integer, a, b))

EmitUnary(s, op) ==
  LET t == Widened(s, s.recentVal) IN
    CASE op = "Plus" -> t
      [] op = "Minus" -> Emit(t, Binary("Sub", Integer, 0, t.recentVal))
      [] op = "LogicalNot" ->
           LET zero == Emit(t, ICmp("EQ", t.recentVal, 0)) IN Emit(zero, ZExt(zero.recentVal))

RECURSIVE Visit(_, _), VisitAll(_, _)

\* LValueAST: the address, and the value unless the address is asked for.
LoadPointer(s, slot) == Emit(s, [Load(slot) EXCEPT !.ty = Pointer])
ElementAt(s, entry) ==
  LET base == IF entry.kind = "pointer" THEN LoadPointer(s, entry.value) ELSE [s EXCEPT !.recentVal = entry.value]
  IN  Emit(base, GEP(base.recentVal, s.recentVal))
VisitElement(s, e) ==
  LET entry == s.scope[e.name]
      early == IF entry.kind = "pointer" THEN LoadPointer(s, entry.value) ELSE s
  IN  ElementAt(Visit(early, e.indices[1]), entry)
Designated(at, e, entry, requireLVal) ==
  CASE entry.kind = "const" -> at
    [] entry.kind = "array" /\ e.indices = <<>> -> Emit(at, GEP(at.recentVal, 0))
    [] entry.kind = "pointer" /\ e.indices = <<>> -> LoadPointer(at, at.recentVal)
    [] OTHER -> IF requireLVal THEN at ELSE Emit(at, Load(at.recentVal))
VisitLValue(s, e, requireLVal) ==
  LET entry == s.scope[e.name] IN
    Designated(IF e.indices = <<>> THEN [s EXCEPT !.recentVal = entry.value] ELSE VisitElement(s, e),
               e, entry, requireLVal)

\* The left operand of && and || branches; the right one is left to the branch around.
VisitLogical(s, e) ==
  LET rhs == NewBlock(s.f)
      isAnd == e.op = "LogicalAnd"
      inner == [NewNamedBB(s) EXCEPT !.trueBB = IF isAnd THEN rhs ELSE @, !.falseBB = IF isAnd THEN @ ELSE rhs]
  IN  Visit([ContinueAt(EmitCondBr(Tested(Visit(inner, e.left))), rhs) EXCEPT !.trueBB = s.trueBB, !.falseBB = s.falseBB], e.right)

VisitRight(s, e) == EmitBinary(Visit(s, e.right), e.op, s.recentVal)
EmitCall(s, callee) == Emit(s, Call(callee, s.returns[callee], s.recentVal))

Visit(s, e) ==
  CASE e.node = "Literal" -> [s EXCEPT !.recentVal = e.value]
    [] e.node = "LValue" -> VisitLValue(s, e, FALSE)
    [] e.node = "UnaryExpr" -> EmitUnary(Visit(s, e.operand), e.op)
    [] e.node = "BinaryExpr" /\ e.op \in {"LogicalAnd", "LogicalOr"} -> VisitLogical(s, e)
    [] e.node = "BinaryExpr" /\ e.op \notin {"LogicalAnd", "LogicalOr"} ->
         VisitRight(Visit(s, e.left), e)
    [] e.node = "CallExpr" -> EmitCall(VisitAll([s EXCEPT !.recentVal = <<>>], e.arguments), e.callee)

\* The values of the expressions, in their order.
VisitAll(s, es) ==
  IF es = <<>> THEN s
  ELSE VisitAll([Visit(s, es[1]) EXCEPT !.recentVal = Append(s.recentVal, @)], Tail(es))

(* Declarations.                                                           *)

\* A local array with an initializer is cleared first, then filled.
StoreElement(s, ptr, k, x) ==
  LET t == IF k = 0 THEN [s EXCEPT !.recentVal = ptr] ELSE Emit(s, GEP(ptr, k))
  IN  EmitStore(Visit(t, x), t.recentVal)
ClearElement(s, ptr, k) ==
  LET t == Emit(s, GEP(ptr, k)) IN Emit(t, Store(0, t.recentVal))
Clear(cast, d) ==
  FoldLeft(LAMBDA t, k : ClearElement(t, cast.recentVal, k - 1), cast, [k \in 1 .. d.size |-> k])
Fill(ptr, d) ==
  FoldLeft(LAMBDA t, k : StoreElement(t, ptr.recentVal, k - 1, d.initializer[k]), ptr,
           [k \in DOMAIN d.initializer |-> k])
InitArray(s, d) ==
  LET array == s.recentVal IN Fill(Emit(Clear(Emit(s, BitCast(array)), d), GEP(array, 0)), d)

Named(s, d, kind) == Push(s, d.name, Entry(kind, s.recentVal))
VisitScalar(value, d) ==
  LET t == Named(EmitAlloca(value, 1), d, "scalar") IN
    IF d.isConst THEN Named(value, d, "const")
    ELSE IF d.initializer = <<>> THEN t ELSE Emit(t, Store(value.recentVal, t.recentVal))
VisitObject(s, d) ==
  LET array == Named(EmitAlloca(s, d.size), d, "array") IN
    IF IsArray(d) THEN IF d.initializer = <<>> THEN array ELSE InitArray(array, d)
    ELSE VisitScalar(IF d.initializer = <<>> THEN s ELSE Visit(s, d.initializer[1]), d)

(* Statements.                                                             *)

RECURSIVE VisitStmt(_, _), VisitItems(_, _)

\* BlockAST: nothing more once the block has its branch.
VisitItems(s, items) ==
  IF items = <<>> \/ s.hasBr THEN s ELSE VisitItems(VisitStmt(s, items[1]), Tail(items))

Leaving(s, target) == [EmitBr(s, target) EXCEPT !.hasBr = TRUE]
VisitReturn(s, c) ==
  Leaving(IF c.value = <<>> THEN s ELSE EmitStore(Visit(s, c.value[1]), s.retAlloca), s.retBB)

\* One branch of an if; the end is reached if it does not leave.
Rejoined(s, end, reached) == [Closed(s, end) EXCEPT !.reached = reached \/ IsOpen(s)]
VisitBranch(s, b, c, end) == Rejoined(VisitStmt(ContinueAt(s, b), c), end, s.reached)
VisitElse(s, b, c, end) == IF Len(c.branches) = 2 THEN VisitBranch(s, b, c.branches[2], end) ELSE s
\* An end that is not reached goes.
BehindIf(s, c, end) ==
  IF Len(c.branches) = 2 /\ ~s.reached
  THEN [s EXCEPT !.f = RemoveBlock(@, end), !.hasBr = TRUE] ELSE ContinueAt(s, end)

VisitIf(s, c) ==
  LET then == NewBlock(s.f)
      else == then + 1
      end == then + Len(c.branches)
      blocks == FoldLeft(LAMBDA t, b : NewNamedBB(t), s, [b \in 1 .. Len(c.branches) + 1 |-> b])
      start == [blocks EXCEPT !.trueBB = then, !.falseBB = else, !.reached = FALSE]
      branch == EmitCondBr(Tested(Visit(start, c.condition)))
  IN  [BehindIf(VisitElse(VisitBranch(branch, then, c.branches[1], end), else, c, end), c, end) EXCEPT
         !.trueBB = s.trueBB, !.falseBB = s.falseBB, !.reached = s.reached]

VisitWhile(s, c) ==
  LET cond == NewBlock(s.f)
      body == cond + 1
      end == cond + 2
      blocks == [NewNamedBB(NewNamedBB(NewNamedBB(s))) EXCEPT
                   !.trueBB = body, !.falseBB = end, !.whileCondBB = cond, !.whileFalseBB = end]
      test == Tested(Visit(ContinueAt(EmitBr(blocks, cond), cond), c.condition))
  IN  [ContinueAt(Closed(VisitStmt([EmitCondBr(test) EXCEPT !.bb = body], c.body), cond), end) EXCEPT
         !.trueBB = s.trueBB, !.falseBB = s.falseBB,
         !.whileCondBB = s.whileCondBB, !.whileFalseBB = s.whileFalseBB]

EmitAssign(at, e) == EmitStore(Visit(at, e), at.recentVal)
VisitStmt(s, c) ==
  CASE c.node = "ObjectDef" -> VisitObject(s, c)
    [] c.node = "AssignStmt" -> EmitAssign(VisitLValue(s, c.target, TRUE), c.value)
    [] c.node = "ExprStmt" -> Visit(s, c.expression)
    [] c.node = "BreakStmt" -> Leaving(s, s.whileFalseBB)
    [] c.node = "ContinueStmt" -> Leaving(s, s.whileCondBB)
    [] c.node = "ReturnStmt" -> VisitReturn(s, c)
    [] c.node = "BlockStmt" -> [VisitItems(s, c.items) EXCEPT !.scope = s.scope]
    [] c.node = "IfStmt" -> VisitIf(s, c)
    [] c.node = "WhileStmt" -> VisitWhile(s, c)

(* Functions.                                                              *)

\* tryMergeTrivialRetBlock: the return block moves to the only block that jumps there,
\* and the slot of the result goes if the result was stored in that block.
FoldRetval(f, b, slot) ==
  LET loads == SelectSeq(f.body[b], LAMBDA v : Is(f, v, "Load") /\ Arg(f, v, 1) = slot)
      stores == SelectSeq(f.body[b], LAMBDA v : Is(f, v, "Store") /\ Arg(f, v, 2) = slot)
      load == Last(loads)
      forwarded == IF loads = <<>> \/ stores = <<>> THEN f
                   ELSE Delete(ReplaceUse(f, load, Arg(f, Last(stores), 1)), {load})
      left == Users(forwarded, slot)
  IN  IF \E u \in left : Is(forwarded, u, "Load") THEN forwarded
      ELSE Delete(forwarded, left \cup {slot})
MergeRetBlock(s) ==
  LET b == s.f.pre[s.retBB][1]
      moved == s.f.body[s.retBB]
      cut == Delete(s.f, {TerminatorOf(s.f, b)})
      merged == RemoveBlock([cut EXCEPT !.body[b] = @ \o moved, !.body[s.retBB] = <<>>,
                                        !.inst = [v \in DOMAIN @ |-> IF v \in ToSet(moved) THEN [@[v] EXCEPT !.bb = b] ELSE @[v]]],
                            s.retBB)
  IN  IF Len(s.f.pre[s.retBB]) # 1 \/ IsConditional(Terminator(s.f, b)) THEN s.f
      ELSE IF s.retAlloca = NoSlot THEN merged ELSE FoldRetval(merged, b, s.retAlloca)

\* A parameter is kept in a slot.
ReceiveParam(s, p, k) ==
  LET t == EmitAlloca(s, 1)
      slot == t.recentVal
  IN  Emit(Push(t, p.name, Entry(IF p.isArray THEN "pointer" ELSE "scalar", slot)),
           Store(FirstLocal + k - 1, slot))
\* The return block, with the slot of the result if there is one.
MakeReturn(s, returnType) ==
  LET slot == EmitAlloca(NewNamedBB(s), 1)
      stored == Emit(slot, Store(0, slot.recentVal))
      load == Emit([stored EXCEPT !.bb = 2], Load(slot.recentVal))
  IN  IF returnType = Void THEN [Emit([NewNamedBB(s) EXCEPT !.bb = 2], Return(<<>>)) EXCEPT !.bb = 1]
      ELSE [Emit(load, Return(<<load.recentVal>>)) EXCEPT !.bb = 1, !.retAlloca = slot.recentVal]

VisitFuncDef(fn, globalScope, returns) ==
  LET params == fn.parameters
      empty == [args |-> [k \in DOMAIN params |-> IF params[k].isArray THEN Pointer ELSE Integer],
                blocks |-> <<>>, body |-> <<>>, inst |-> <<>>, pre |-> <<>>, succ |-> <<>>,
                next |-> FirstLocal + Len(params)]
      start == [f |-> AddBlock(empty), bb |-> 1, hasBr |-> FALSE, recentVal |-> 0, scope |-> globalScope,
                trueBB |-> NoBlock, falseBB |-> NoBlock, whileCondBB |-> NoBlock, whileFalseBB |-> NoBlock,
                retBB |-> 2, retAlloca |-> NoSlot, reached |-> FALSE, returns |-> returns]
      received == FoldLeft(LAMBDA s, k : ReceiveParam(s, params[k], k), start, [k \in DOMAIN params |-> k])
  IN  MergeRetBlock(Closed(VisitItems(MakeReturn(received, fn.returnType), fn.body), 2))

(* Globals.  A name of a constant and the initializer it came from are one  *)
(* object, and the sign of an object is changed in place.                  *)

Fold(op, x, y) ==
  IF op \in DOMAIN Relation THEN AsBit(Compare(Relation[op], x, y)) ELSE Compute(Operator[op], x, y)
NewConstant(s, x) == [s EXCEPT !.constants = Append(@, x), !.object = Len(s.constants) + 1]
Negate(s) == [s EXCEPT !.constants[s.object] = Wrap(-@)]
NotOf(s) == NewConstant(s, AsBit(s.constants[s.object] = 0))
FoldedInto(s, op, left) == NewConstant(s, Fold(op, s.constants[left], s.constants[s.object]))
RECURSIVE VisitConst(_, _)
RightConst(s, e) == FoldedInto(VisitConst(s, e.right), e.op, s.object)
VisitConst(s, e) ==
  CASE e.node = "Literal" -> NewConstant(s, e.value)
    [] e.node = "LValue" -> [s EXCEPT !.object = s.names[e.name]]
    [] e.node = "BinaryExpr" -> RightConst(VisitConst(s, e.left), e)
    [] e.node = "UnaryExpr" /\ e.op = "Plus" -> VisitConst(s, e.operand)
    [] e.node = "UnaryExpr" /\ e.op = "Minus" -> Negate(VisitConst(s, e.operand))
    [] e.node = "UnaryExpr" /\ e.op = "LogicalNot" -> NotOf(VisitConst(s, e.operand))

\* What a global is: its initial contents, as objects (none: zeros).
Found(s) == [s EXCEPT !.found = Append(@, s.object)]
DefineGlobal(values, d) ==
  LET v == FirstGlobal + Cardinality(DOMAIN values.globals)
  IN  IF d.isConst /\ ~IsArray(d) THEN [values EXCEPT !.names = (d.name :> values.found[1]) @@ @]
      ELSE [values EXCEPT !.globals = (v :> values.found) @@ @,
                          !.sizes = (v :> IF IsArray(d) THEN d.size ELSE 1) @@ @,
                          !.scope = (d.name :> Entry(IF IsArray(d) THEN "array" ELSE "scalar", v)) @@ @]

VisitGlobal(s, d) ==
  DefineGlobal(FoldLeft(LAMBDA t, e : Found(VisitConst(t, e)), [s EXCEPT !.found = <<>>], d.initializer), d)

\* CompUnitAST: the globals, then the functions.
GenerateFunctions(s, u) ==
  LET Content(v, k) == IF k \in DOMAIN s.globals[v] THEN s.constants[s.globals[v][k]] ELSE 0
      scope == [name \in DOMAIN s.names |-> Entry("const", s.constants[s.names[name]])] @@ s.scope
      types == [k \in DOMAIN u.functions |-> u.functions[k].name :> u.functions[k].returnType]
      returns == FoldLeft(LAMBDA m, t : t @@ m, ("putint" :> Void) @@ ("getint" :> Integer), types)
  IN  [fns |-> [name \in DOMAIN returns \ Runtime |-> VisitFuncDef(Function(u, name), scope, returns)],
       order |-> [k \in DOMAIN u.functions |-> u.functions[k].name],
       globals |-> [v \in DOMAIN s.globals |-> [k \in 1 .. s.sizes[v] |-> Content(v, k)]]]
Generate(u) ==
  LET start == [constants |-> <<>>, object |-> 0, names |-> <<>>, globals |-> <<>>, sizes |-> <<>>,
                scope |-> <<>>, found |-> <<>>]
  IN  GenerateFunctions(FoldLeft(VisitGlobal, start, u.globals), u)
=============================================================================
