----------------------------- MODULE SourceTree -----------------------------
(***************************************************************************)
(* The abstract syntax tree the parser hands to IR generation (ast.hpp),   *)
(* for programs over ints and arrays of one dimension, and what such a     *)
(* program means: the numbers it prints and the result of main, by the     *)
(* rules of the language, without any intermediate representation.         *)
(***************************************************************************)
EXTENDS ScalarExec

Literal(n) == [node |-> "Literal", value |-> n]
LValue(name) == [node |-> "LValue", name |-> name, indices |-> <<>>]
Indexed(name, index) == [node |-> "LValue", name |-> name, indices |-> <<index>>]
Unary(op, operand) == [node |-> "UnaryExpr", op |-> op, operand |-> operand]
BinaryExpr(op, left, right) == [node |-> "BinaryExpr", op |-> op, left |-> left, right |-> right]
CallExpr(callee, arguments) == [node |-> "CallExpr", callee |-> callee, arguments |-> arguments]

Assign(target, value) == [node |-> "AssignStmt", target |-> target, value |-> value]
ExprStmt(expression) == [node |-> "ExprStmt", expression |-> expression]
Break == [node |-> "BreakStmt"]
Continue == [node |-> "ContinueStmt"]
ReturnStmt(value) == [node |-> "ReturnStmt", value |-> value]
Block(items) == [node |-> "BlockStmt", items |-> items]
If(condition, then) == [node |-> "IfStmt", condition |-> condition, branches |-> <<then>>]
IfElse(condition, then, else) == [node |-> "IfStmt", condition |-> condition, branches |-> <<then, else>>]
While(condition, body) == [node |-> "WhileStmt", condition |-> condition, body |-> body]

\* One object; size 0: no array.  initializer: one expression, the elements of a brace
\* list, or nothing.
Object(name, isConst, size, initializer) ==
  [node |-> "ObjectDef", name |-> name, isConst |-> isConst, size |-> size, initializer |-> initializer]
Scalar(name, e) == Object(name, FALSE, 0, <<e>>)
Const(name, e) == Object(name, TRUE, 0, <<e>>)
Array(name, size, elements) == Object(name, FALSE, size, elements)
IsArray(object) == object.size > 0
Param(name, isArray) == [name |-> name, isArray |-> isArray]
FuncDef(name, returnType, parameters, body) ==
  [name |-> name, returnType |-> returnType, parameters |-> parameters, body |-> body]
CompUnit(globals, functions) == [globals |-> globals, functions |-> functions]

Function(u, name) == u.functions[CHOOSE k \in DOMAIN u.functions : u.functions[k].name = name]
Runtime == {"putint", "getint"}

\* Calls and arguments as they are written most often.
Var(name) == LValue(name)
Num(n) == Literal(n)
Do(callee, arguments) == ExprStmt(CallExpr(callee, arguments))
GetInt == CallExpr("getint", <<>>)
PutInt(e) == Do("putint", <<e>>)

-----------------------------------------------------------------------------
(* What a program means.  A state: what the names stand for (env), memory  *)
(* and its first free cell, the numbers still to be read, what has been    *)
(* printed, the value of the last expression, and how control leaves the   *)
(* last statement.                                                         *)

Operator ==
  [Add |-> "Add", Subtract |-> "Sub", Multiply |-> "Mul", Divide |-> "SDiv", Remainder |-> "SRem"]
Relation ==
  [Less |-> "SLT", LessEqual |-> "SLE", Greater |-> "SGT", GreaterEqual |-> "SGE",
   Equal |-> "EQ", NotEqual |-> "NE"]

Undefined(s) == [s EXCEPT !.trace = Append(@, <<"undefined">>), !.value = 0]
Cell(s, at) == IF at \in DOMAIN s.memory THEN [s EXCEPT !.value = s.memory[at]] ELSE Undefined(s)
Set(s, at, x) == [s EXCEPT !.memory = (at :> x) @@ @]
Bind(s, name, kind, at) == [s EXCEPT !.env = (name :> <<kind, at>>) @@ @]

Apply2(s, op, x, y) ==
  IF op \in DOMAIN Relation THEN [s EXCEPT !.value = AsBit(Compare(Relation[op], x, y))]
  ELSE IF Defined(Operator[op], x, y) THEN [s EXCEPT !.value = Compute(Operator[op], x, y)]
  ELSE Undefined(s)

CellAt(s) == Cell(s, s.value)
SetAt(s, at) == Set(s, at, s.value)

RECURSIVE Eval(_, _, _), EvalAll(_, _, _), Invoke(_, _, _, _), Execute(_, _, _), ExecuteAll(_, _, _), Turn(_, _, _)

\* The value of e, and the address of what it names.
AddressOf(u, s, e) ==
  LET base == s.env[e.name][2]
  IN  IF e.indices = <<>> THEN [s EXCEPT !.value = base] ELSE [Eval(u, s, e.indices[1]) EXCEPT !.value = base + @]

\* && and || look at the right operand when the left one, just evaluated, leaves it open.
EvalLogical(u, left, e) ==
  IF (left.value = 0) = (e.op = "LogicalAnd") THEN left ELSE Eval(u, left, e.right)
EvalRight(u, left, e) == LET right == Eval(u, left, e.right) IN Apply2(right, e.op, left.value, right.value)
CallWith(u, s, callee) == Invoke(u, s, callee, s.value)

Eval(u, s, e) ==
  CASE e.node = "Literal" -> [s EXCEPT !.value = e.value]
    [] e.node = "LValue" ->
         IF s.env[e.name][1] = "const" \/ (s.env[e.name][1] = "array" /\ e.indices = <<>>)
         THEN [s EXCEPT !.value = s.env[e.name][2]]
         ELSE CellAt(AddressOf(u, s, e))
    [] e.node = "UnaryExpr" ->
         [Eval(u, s, e.operand) EXCEPT
            !.value = IF e.op = "Minus" THEN Wrap(-@) ELSE IF e.op = "LogicalNot" THEN AsBit(@ = 0) ELSE @]
    [] e.node = "BinaryExpr" /\ e.op \in {"LogicalAnd", "LogicalOr"} ->
         [EvalLogical(u, Eval(u, s, e.left), e) EXCEPT !.value = AsBit(@ # 0)]
    [] e.node = "BinaryExpr" /\ e.op \notin {"LogicalAnd", "LogicalOr"} -> EvalRight(u, Eval(u, s, e.left), e)
    [] e.node = "CallExpr" -> CallWith(u, EvalAll(u, [s EXCEPT !.value = <<>>], e.arguments), e.callee)

\* The values of the expressions, in their order.
EvalAll(u, s, es) ==
  IF es = <<>> THEN s
  ELSE EvalAll(u, [Eval(u, s, es[1]) EXCEPT !.value = Append(s.value, @)], Tail(es))

\* Back from a callee that came to its end in state done.
Returned(done, s) ==
  [done EXCEPT !.env = s.env, !.top = s.top, !.flow = "next", !.value = IF done.flow = "return" THEN @ ELSE 0]
Invoke(u, s, callee, x) ==
  LET fn == Function(u, callee)
      Receive(t, k) ==
        IF fn.parameters[k].isArray THEN Bind(t, fn.parameters[k].name, "array", x[k])
        ELSE Set([Bind(t, fn.parameters[k].name, "scalar", t.top) EXCEPT !.top = @ + 1], t.top, x[k])
      called == FoldLeft(Receive, [s EXCEPT !.env = s.globals], [k \in DOMAIN fn.parameters |-> k])
  IN  CASE callee = "putint" -> [s EXCEPT !.trace = Append(@, <<"put", x[1]>>), !.value = 0]
        [] callee = "getint" ->
             [s EXCEPT !.value = IF s.input = <<>> THEN 0 ELSE Head(s.input),
                       !.input = IF @ = <<>> THEN @ ELSE Tail(@)]
        [] OTHER -> Returned(ExecuteAll(u, [called EXCEPT !.value = 0], fn.body), s)

\* An array with an initializer is 0 where nothing is given.
Initialised(s, d, values) ==
  LET cells == IF IsArray(d) THEN d.size ELSE 1
      t == [Bind(values, d.name, IF IsArray(d) THEN "array" ELSE "scalar", s.top) EXCEPT !.top = s.top + cells]
      Given(k) == IF k + 1 \in DOMAIN values.value THEN values.value[k + 1] ELSE 0
  IN  IF d.isConst /\ ~IsArray(d) THEN Bind(values, d.name, "const", values.value[1])
      ELSE IF d.initializer = <<>> THEN t
      ELSE FoldLeft(LAMBDA w, k : Set(w, s.top + k, Given(k)), t, [k \in 1 .. cells |-> k - 1])
Declare(u, s, d) == Initialised(s, d, EvalAll(u, [s EXCEPT !.value = <<>>], d.initializer))

Choice(u, t, c) ==
  IF t.value # 0 THEN Execute(u, t, c.branches[1])
  ELSE IF Len(c.branches) = 2 THEN Execute(u, t, c.branches[2]) ELSE t
AssignTo(u, at, e) == SetAt(Eval(u, at, e), at.value)

Execute(u, s, c) ==
  CASE c.node = "ObjectDef" -> Declare(u, s, c)
    [] c.node = "AssignStmt" ->
         AssignTo(u, AddressOf(u, s, c.target), c.value)
    [] c.node = "ExprStmt" -> Eval(u, s, c.expression)
    [] c.node = "BreakStmt" -> [s EXCEPT !.flow = "break"]
    [] c.node = "ContinueStmt" -> [s EXCEPT !.flow = "continue"]
    [] c.node = "ReturnStmt" ->
         [EvalAll(u, [s EXCEPT !.value = <<>>], c.value) EXCEPT !.flow = "return", !.value = IF @ = <<>> THEN 0 ELSE @[1]]
    [] c.node = "BlockStmt" -> [ExecuteAll(u, s, c.items) EXCEPT !.env = s.env]
    [] c.node = "IfStmt" -> Choice(u, Eval(u, s, c.condition), c)
    [] c.node = "WhileStmt" -> Turn(u, s, c)

ExecuteAll(u, s, items) ==
  IF items = <<>> \/ s.flow # "next" THEN s ELSE ExecuteAll(u, Execute(u, s, items[1]), Tail(items))

\* The rest of a loop whose body has come to its end in state w.
Again(u, w, c) ==
  IF w.flow = "return" THEN w
  ELSE IF w.flow = "break" THEN [w EXCEPT !.flow = "next"]
  ELSE Turn(u, [w EXCEPT !.flow = "next"], c)
Repeat(u, t, c) == IF t.value = 0 THEN t ELSE Again(u, Execute(u, t, c.body), c)
Turn(u, s, c) == Repeat(u, Eval(u, s, c.condition), c)

\* Globals without an initializer are 0.
DeclareGlobal(u, s, d) ==
  Declare(u, s, [d EXCEPT !.initializer = IF @ = <<>> THEN <<Literal(0)>> ELSE @])

\* What is seen of a run of the program that reads the numbers of input.
Outcome(s) == Append(s.trace, <<"result", <<s.value>>>>)
RunMain(u, s) == Invoke(u, [s EXCEPT !.globals = s.env], "main", <<>>)
Meaning(u, input) ==
  LET start == [env |-> <<>>, globals |-> <<>>, memory |-> <<>>, top |-> 0, input |-> input,
                trace |-> <<>>, value |-> 0, flow |-> "next"]
  IN  Outcome(RunMain(u, FoldLeft(LAMBDA s, d : DeclareGlobal(u, s, d), start, u.globals)))
=============================================================================
