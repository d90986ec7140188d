-------------------------- MODULE MCScalarPipeline --------------------------
(***************************************************************************)
(* The pipeline over source programs, with ints of 4 bits.  The programs   *)
(* are syntax trees, each of the shapes one family of passes works on.     *)
(***************************************************************************)
EXTENDS ScalarPipeline

Plus(x, y) == BinaryExpr("Add", x, y)
Minus(x, y) == BinaryExpr("Subtract", x, y)
Times(x, y) == BinaryExpr("Multiply", x, y)
Quotient(x, y) == BinaryExpr("Divide", x, y)
Less(x, y) == BinaryExpr("Less", x, y)
Equal(x, y) == BinaryExpr("Equal", x, y)
And(x, y) == BinaryExpr("LogicalAnd", x, y)
Or(x, y) == BinaryExpr("LogicalOr", x, y)
Not(x) == Unary("LogicalNot", x)
Give(x) == ReturnStmt(<<x>>)
Let(name, x) == Assign(Var(name), x)
Grow(name, x) == Let(name, Plus(Var(name), x))
Unset(name) == Object(name, FALSE, 0, <<>>)
Main(body) == FuncDef("main", Integer, <<>>, body)

\* Conditions that are decided early, early returns, loops that are left from
\* inside, code behind a return.
Shapes == CompUnit(<<>>, <<
  FuncDef("pick", Integer, <<Param("a", FALSE), Param("b", FALSE)>>, <<
    IfElse(And(Less(Var("a"), Var("b")), Less(Num(0), Var("b"))),
      Give(Var("a")),
      If(Not(Equal(Var("a"), Num(2))), Block(<<Give(Var("b")), PutInt(Num(7))>>))),
    IfElse(Less(Var("b"), Num(1)), Give(Num(1)), Give(Plus(Var("a"), Var("b"))))>>),
  Main(<<
    Scalar("i", Num(0)), Scalar("s", Num(0)), Scalar("n", Plus(GetInt, Num(3))),
    While(Less(Var("i"), Var("n")), Block(<<
      Grow("i", Num(1)),
      If(Equal(Var("i"), Num(2)), Continue),
      If(Or(Less(Num(2), Var("s")), Equal(Var("i"), Num(5))), Break),
      Scalar("j", Num(0)),
      While(Less(Var("j"), Var("i")), Block(<<Grow("s", Num(1)), Grow("j", Num(1))>>))>>)),
    PutInt(Var("s")),
    Give(CallExpr("pick", <<Var("s"), Var("n")>>))>>)>>)

\* Local arrays: one that is split, one that is not, one that is passed on.
Arrays == CompUnit(<<>>, <<
  FuncDef("sum", Integer, <<Param("p", TRUE), Param("n", FALSE)>>, <<
    Scalar("s", Num(0)), Scalar("i", Num(0)),
    While(Less(Var("i"), Var("n")), Block(<<
      Grow("s", Indexed("p", Var("i"))), Grow("i", Num(1))>>)),
    Give(Var("s"))>>),
  Main(<<
    Array("a", 3, <<>>), Scalar("k", GetInt),
    Assign(Indexed("a", Num(0)), Var("k")),
    Assign(Indexed("a", Num(2)), Plus(Indexed("a", Num(0)), Num(1))),
    Array("b", 3, <<Indexed("a", Num(2)), Num(2)>>),
    Assign(Indexed("b", Var("k")), Indexed("a", Num(0))),
    PutInt(Indexed("b", Num(1))),
    Assign(Indexed("b", Num(1)), Minus(Indexed("b", Var("k")), Num(1))),
    PutInt(CallExpr("sum", <<Var("b"), Num(3)>>)),
    Give(Plus(Indexed("b", Var("k")), Indexed("a", Num(2))))>>)>>)

\* Globals that are overwritten, written back, changed and read by what is called.
Globals == CompUnit(<<Scalar("g", Num(1)), Array("h", 3, <<Num(4)>>)>>, <<
  FuncDef("touch", Void, <<Param("n", FALSE)>>, <<Grow("g", Var("n"))>>),
  FuncDef("look", Integer, <<>>, <<Give(Plus(Var("g"), Indexed("h", Num(2))))>>),
  Main(<<
    Scalar("x", Var("g")), Let("g", Var("x")), Let("g", Num(3)), Let("g", Num(2)),
    Do("touch", <<Num(1)>>),
    Scalar("y", Var("g")),
    Assign(Indexed("h", Num(1)), Var("y")), Assign(Indexed("h", GetInt), Num(2)),
    PutInt(Indexed("h", Num(1))),
    While(Less(Var("y"), Num(6)), Block(<<
      Let("g", Var("y")), Let("y", Plus(CallExpr("look", <<>>), Num(1))), Let("g", Num(1))>>)),
    PutInt(Var("g")), PutInt(CallExpr("look", <<>>)), Let("g", Var("g")),
    Give(Plus(Var("g"), Var("x")))>>)>>)

\* Functions without effects, called twice, in vain, and from themselves.
Recursion == CompUnit(<<>>, <<
  FuncDef("fib", Integer, <<Param("n", FALSE)>>, <<
    If(Less(Var("n"), Num(2)), Give(Var("n"))),
    Give(Plus(CallExpr("fib", <<Minus(Var("n"), Num(1))>>), CallExpr("fib", <<Minus(Var("n"), Num(2))>>)))>>),
  FuncDef("unused", Integer, <<>>, <<Give(Num(1))>>),
  Main(<<
    Scalar("n", Plus(GetInt, Num(2))),
    Do("fib", <<Num(1)>>),
    Scalar("x", Plus(CallExpr("fib", <<Var("n")>>), CallExpr("fib", <<Var("n")>>))),
    PutInt(Var("x")),
    Give(Minus(Var("x"), Var("n")))>>)>>)

\* Constants that decide branches, loops without a condition, small conditionals.
Constants == CompUnit(<<Const("N", Plus(Num(1), Num(1))), Const("M", Unary("Minus", Num(3)))>>, <<
  FuncDef("largest", Integer, <<Param("a", FALSE), Param("b", FALSE)>>, <<
    Scalar("m", Var("a")),
    If(Less(Var("a"), Var("b")), Let("m", Var("b"))),
    IfElse(Equal(Var("m"), Var("N")), Let("m", Plus(Var("m"), Var("M"))), Let("m", Times(Var("m"), Num(2)))),
    If(Less(Num(4), Var("m")), Let("m", Num(3))),
    Give(Var("m"))>>),
  Main(<<
    Scalar("s", Num(0)), Unset("x"),
    IfElse(Less(Var("N"), Num(3)), Let("x", Num(1)), Let("x", GetInt)),
    If(Less(Var("N"), Num(3)), Let("s", Plus(Var("s"), GetInt))),
    If(And(Equal(Var("x"), Num(0)), Less(GetInt, Num(1))), PutInt(Var("x"))),
    While(Num(1), Block(<<
      Scalar("d", GetInt),
      IfElse(Equal(Var("d"), Num(0)), Break, Grow("s", Var("d"))),
      While(Not(Var("x")), Block(<<PutInt(Var("s"))>>))>>)),
    Give(CallExpr("largest", <<Var("s"), Var("x")>>))>>)>>)

\* Work that is needed on one way only, exits that do something of their own, what is
\* computed on both ways.
Exits == CompUnit(<<Scalar("g", Num(1))>>, <<
  FuncDef("leave", Integer, <<Param("a", FALSE), Param("b", FALSE)>>, <<
    Scalar("t", Plus(Var("a"), Num(2))), Unset("x"), Unset("y"), Scalar("i", Num(0)),
    If(Less(Var("b"), Num(0)), Block(<<PutInt(Num(3)), Give(Var("t"))>>)),
    IfElse(Less(Var("a"), Var("b")),
      Block(<<PutInt(Num(1)), Let("x", Var("a")), Let("y", Var("a"))>>),
      Block(<<PutInt(Var("t")), Let("x", Num(1)), Let("y", Num(1))>>)),
    Let("t", Minus(Var("b"), Num(1))),
    While(Less(Var("i"), Num(2)), Block(<<PutInt(Var("t")), Grow("i", Num(1))>>)),
    Let("g", Plus(Var("x"), Var("y"))),
    Give(Plus(Var("x"), Var("g")))>>),
  Main(<<
    Array("b", 3, <<GetInt, Num(2)>>),
    Assign(Indexed("b", Num(2)), Indexed("b", Num(0))),
    PutInt(Plus(Indexed("b", Num(2)), Indexed("b", Num(1)))),
    PutInt(CallExpr("leave", <<Indexed("b", Num(2)), Num(2)>>)),
    PutInt(CallExpr("leave", <<Num(1), Minus(Num(1), Indexed("b", Num(1)))>>)),
    If(Equal(Indexed("b", Num(0)), Num(0)), Block(<<PutInt(Num(5)), Give(Num(0))>>)),
    PutInt(Num(6)),
    Give(Num(1))>>)>>)

\* A constant that only an unreachable assignment changes, a global that is written
\* back in a loop, conditionals without code of their own.
Rounds == CompUnit(<<Scalar("g", Num(2))>>, <<
  Main(<<
    Scalar("x", Num(1)), Scalar("s", Var("g")), Scalar("i", Num(0)), Scalar("n", GetInt),
    While(Less(Var("i"), Num(3)), Block(<<
      If(Unary("LogicalNot", Equal(Var("x"), Num(1))), Let("x", Num(2))),
      If(Or(Equal(Var("i"), Var("n")), Less(Num(1), Var("i"))), If(Less(Var("n"), Num(1)), Grow("i", Num(0)))),
      If(Less(Var("i"), Var("n")), Let("g", Var("s"))),
      Grow("i", Var("x"))>>)),
    PutInt(Var("g")),
    Give(Plus(Var("x"), Var("s")))>>)>>)

\* Values that meet: of ways that share an end, of a division that may only be made
\* on one way, of a variable that is set on the way it is read.
Merges == CompUnit(<<>>, <<
  FuncDef("meet", Integer, <<Param("a", FALSE), Param("b", FALSE)>>, <<
    Scalar("x", Num(4)), Scalar("y", Num(0)), Unset("z"), Scalar("t", Plus(Var("a"), Var("b"))),
    IfElse(And(Less(Var("a"), Var("b")), Less(Num(0), Var("a"))), Let("x", Num(1)), Let("x", Var("b"))),
    If(Var("a"), Let("y", Quotient(Num(6), Var("a")))),
    If(Less(Var("a"), Num(1)), Let("z", Plus(Var("x"), Var("y")))),
    PutInt(Var("x")),
    If(Less(Var("a"), Num(1)), PutInt(Var("z"))),
    IfElse(Less(Var("b"), Num(1)), Block(<<PutInt(Num(1)), Let("x", Var("t"))>>), PutInt(Num(2))),
    Give(Minus(Var("x"), Var("y")))>>),
  Main(<<
    Scalar("a", GetInt), Scalar("b", GetInt), Scalar("i", Num(0)), Unset("w"), Array("c", 3, <<>>),
    PutInt(CallExpr("meet", <<Var("a"), Var("b")>>)),
    While(Less(Var("i"), Num(3)), Block(<<
      If(Less(Num(0), Var("i")), PutInt(Var("w"))),
      Let("w", Plus(Var("i"), Var("a"))),
      Assign(Indexed("c", Var("i")), Var("w")),
      Grow("i", Num(1))>>)),
    Give(Plus(Indexed("c", Var("a")), Indexed("c", Num(1))))>>)>>)

\* A global that is written on one of two ways, between a load and a load or a store.
Memory == CompUnit(<<Scalar("g", Num(1))>>, <<
  FuncDef("show", Void, <<>>, <<PutInt(Var("g"))>>),
  Main(<<
    Scalar("x", Var("g")), Scalar("n", GetInt),
    Let("g", Var("n")),
    If(Less(Var("n"), Num(2)), Let("g", Num(4))),
    Scalar("y", Var("g")),
    IfElse(Less(Var("n"), Num(1)), Block(<<Let("g", Num(3)), PutInt(Var("n"))>>), PutInt(Num(2))),
    Scalar("z", Var("g")),
    Let("g", Var("y")), Do("show", <<>>), Let("g", Var("z")), Do("show", <<>>),
    If(Var("n"), Let("g", Num(5))), Let("g", Var("z")),
    Do("show", <<>>),
    Give(Plus(Var("x"), Plus(Var("y"), Var("z"))))>>)>>)

\* Two names of one array, and writes two calls away.
Aliases == CompUnit(<<Array("h", 3, <<>>)>>, <<
  FuncDef("both", Integer, <<Param("p", TRUE), Param("q", TRUE), Param("k", FALSE)>>, <<
    Assign(Indexed("p", Var("k")), Num(1)), Assign(Indexed("q", Var("k")), Num(2)),
    Give(Indexed("p", Var("k")))>>),
  FuncDef("fill", Void, <<Param("p", TRUE), Param("k", FALSE)>>, <<Assign(Indexed("p", Var("k")), Num(5))>>),
  FuncDef("pass", Void, <<Param("k", FALSE), Param("p", TRUE)>>, <<Do("fill", <<Var("p"), Var("k")>>)>>),
  Main(<<
    Scalar("k", GetInt), Array("a", 3, <<Num(1), Num(2)>>),
    PutInt(CallExpr("both", <<Var("h"), Var("h"), Var("k")>>)),
    PutInt(CallExpr("both", <<Var("a"), Var("h"), Var("k")>>)),
    Scalar("x", Plus(Indexed("h", Var("k")), Indexed("a", Var("k")))),
    Do("pass", <<Var("k"), Var("h")>>), Do("fill", <<Var("a"), Var("k")>>),
    Give(Plus(Var("x"), Minus(Indexed("h", Var("k")), Indexed("a", Var("k")))))>>)>>)

\* Functions that end in calling themselves, or another one: in place, behind a jump, with
\* nothing to return, with arguments that change places.
Tails == CompUnit(<<Scalar("g", Num(1)), Array("h", 3, <<Num(2), Num(1)>>)>>, <<
  FuncDef("gcd", Integer, <<Param("a", FALSE), Param("b", FALSE)>>, <<
    If(Equal(Var("b"), Num(0)), Give(Var("a"))),
    Give(CallExpr("gcd", <<Var("b"), BinaryExpr("Remainder", Var("a"), Var("b"))>>))>>),
  FuncDef("count", Void, <<Param("p", TRUE), Param("n", FALSE)>>, <<
    Assign(Indexed("p", Var("n")), Plus(Indexed("p", Var("n")), Num(1))),
    If(Less(Num(0), Var("n")), Do("count", <<Var("p"), Minus(Var("n"), Num(1))>>))>>),
  FuncDef("walk", Integer, <<Param("n", FALSE), Param("s", FALSE)>>, <<
    PutInt(Var("n")),
    If(Less(Var("n"), Num(1)), Give(Var("s"))),
    If(Equal(Var("n"), Num(2)), Give(Plus(CallExpr("walk", <<Minus(Var("n"), Num(1)), Var("s")>>), Num(1)))),
    IfElse(Less(Var("s"), Num(3)), Let("s", CallExpr("walk", <<Minus(Var("n"), Num(1)), Plus(Var("s"), Var("n"))>>)),
      Let("s", Num(7))),
    Give(Var("s"))>>),
  FuncDef("other", Integer, <<Param("n", FALSE)>>, <<
    Grow("g", Num(1)),
    If(Less(Var("n"), Num(1)), Give(CallExpr("gcd", <<Num(6), Var("g")>>))),
    Give(CallExpr("walk", <<Var("n"), Var("g")>>))>>),
  Main(<<
    Scalar("n", Plus(GetInt, Num(1))),
    PutInt(CallExpr("gcd", <<Num(6), Plus(Var("n"), Num(2))>>)),
    Do("count", <<Var("h"), Var("n")>>), PutInt(Indexed("h", Num(1))),
    PutInt(CallExpr("other", <<Minus(Num(3), Var("n"))>>)),
    Give(CallExpr("other", <<GetInt>>))>>)>>)

\* Calls that are worth the body and calls that are not: of a function with constants, in a
\* loop, of a recursive one, of a long one from several places, beside a global that is kept.
Mixed(name) == Quotient(Plus(BinaryExpr("Remainder", Times(Var(name), Num(3)), Num(5)), Var(name)), Num(2))
Halved(name) == Let(name, Mixed(name))
Bodies == CompUnit(<<Scalar("g", Num(1)), Scalar("k", Num(2))>>, <<
  FuncDef("sum", Integer, <<Param("n", FALSE)>>, <<
    If(Less(Var("n"), Num(1)), Give(Num(0))),
    Give(Plus(CallExpr("sum", <<Minus(Var("n"), Num(1))>>), Plus(Mixed("n"), Mixed("n"))))>>),
  FuncDef("long", Integer, <<Param("a", FALSE), Param("b", FALSE)>>, <<
    Array("c", 3, <<Var("b")>>), Halved("a"), Halved("b"), Grow("k", Num(1)),
    Give(Plus(Plus(Var("a"), Var("b")), Indexed("c", Num(0))))>>),
  FuncDef("way", Integer, <<Param("a", FALSE), Param("b", FALSE)>>, <<
    If(Equal(Var("a"), Num(1)), Block(<<PutInt(Var("b")), Grow("g", Var("b")), Give(Minus(Var("g"), Num(2)))>>)),
    If(Less(Var("b"), Num(1)), Block(<<Grow("g", Num(2)), PutInt(Var("g")), Give(Var("g"))>>)),
    Give(Plus(Var("a"), Var("b")))>>),
  Main(<<
    Scalar("n", GetInt), Scalar("i", Num(0)),
    PutInt(CallExpr("long", <<Var("n"), Var("n")>>)), PutInt(CallExpr("long", <<Num(3), Var("n")>>)),
    While(Less(Var("i"), Num(2)), Block(<<
      Grow("g", CallExpr("way", <<Num(1), Var("i")>>)), Grow("i", Num(1))>>)),
    PutInt(CallExpr("sum", <<Num(2)>>)),
    Give(Plus(Var("g"), Var("k")))>>)>>)

\* One statement before and one under a condition, in a loop, of any kind.
Departures == {Break, Continue, Give(Var("y"))}
Statements == {
  Let("g", Var("y")), Let("y", Var("g")),
  Assign(Indexed("a", Num(1)), Var("y")), Let("y", Indexed("a", Num(1))),
  Assign(Indexed("h", Var("x")), Var("y")), Let("y", Indexed("h", Num(1))),
  Do("touch", <<Var("x")>>), Let("y", CallExpr("look", <<Var("h"), Var("x")>>)),
  PutInt(Var("y")), Let("y", Var("x"))}
Conditions == {Equal(Var("x"), Num(1)), Or(Less(Var("x"), Var("i")), Equal(Var("y"), Num(2)))}
Mixture(first, condition, second) == CompUnit(<<Scalar("g", Num(1)), Array("h", 3, <<Num(4)>>)>>, <<
  FuncDef("touch", Void, <<Param("n", FALSE)>>, <<Grow("g", Var("n"))>>),
  FuncDef("look", Integer, <<Param("p", TRUE), Param("k", FALSE)>>, <<
    Give(Plus(Indexed("p", Var("k")), Var("g")))>>),
  Main(<<
    Array("a", 3, <<Num(2)>>), Scalar("x", GetInt), Scalar("y", Num(1)), Scalar("i", Num(0)),
    While(Less(Var("i"), Num(3)), Block(<<
      Grow("i", Num(1)), first, If(condition, second)>>)),
    PutInt(Var("g")), PutInt(Indexed("a", Num(1))), PutInt(Indexed("h", Num(1))),
    Give(Var("y"))>>)>>)
Mixtures ==
  {Mixture(first, condition, second) :
     first \in Statements, condition \in Conditions, second \in Statements \cup Departures}

-----------------------------------------------------------------------------
(* Programs the pipeline gets wrong, which are no cases of scalar_pipeline. *)

\* The block behind the call prints before it returns: it is taken for one that only returns.
Unwinding == CompUnit(<<>>, <<
  FuncDef("show", Void, <<Param("n", FALSE)>>, <<
    If(Less(Num(0), Var("n")), Do("show", <<Minus(Var("n"), Num(1))>>)),
    PutInt(Var("n"))>>),
  Main(<<Do("show", <<Plus(Num(1), GetInt)>>), Give(Num(0))>>)>>)

UnwindingCases == {Unwinding}

\* The call in tail position reads an array of the frame it takes over.
LentFrame == CompUnit(<<>>, <<
  FuncDef("chain", Integer, <<Param("p", TRUE), Param("n", FALSE)>>, <<
    Array("a", 3, <<Var("n")>>),
    If(Less(Var("n"), Num(1)), Give(Indexed("p", Num(0)))),
    Give(CallExpr("chain", <<Var("a"), Minus(Var("n"), Num(1))>>))>>),
  Main(<<
    Array("b", 3, <<Num(4)>>),
    Give(CallExpr("chain", <<Var("b"), Plus(Num(1), GetInt)>>))>>)>>)

-----------------------------------------------------------------------------
MCCases ==
  {Shapes, Arrays, Globals, Recursion, Constants, Exits, Rounds, Merges, Memory, Aliases, Tails, Bodies}
    \cup Mixtures
MCInputs == {<<0, 1>>, <<2, 1>>, <<1, 0>>}
=============================================================================
