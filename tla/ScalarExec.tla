----------------------------- MODULE ScalarExec -----------------------------
(***************************************************************************)
(* What a program in the intermediate representation does when it runs:    *)
(* the meaning the language gives to the instructions, and what can be     *)
(* seen of a run: the numbers it prints and its result.                    *)
(***************************************************************************)
EXTENDS ScalarIR

\* A run is cut off after 2 ^ RunLength instructions.
RunLength == 10

\* Arithmetic on ints wraps around; a shift by the width or more, a division by
\* zero and the one division that overflows have no result.
TruncDiv(x, y) ==
  LET q == (IF x < 0 THEN -x ELSE x) \div (IF y < 0 THEN -y ELSE y) IN
    IF (x < 0) # (y < 0) THEN -q ELSE q
TruncRem(x, y) == x - y * TruncDiv(x, y)
Defined(op, x, y) ==
  CASE op \in {"SDiv", "SRem"} -> y # 0 /\ ~(x = IntMin /\ y = -1)
    [] op \in {"Shl", "LShr", "AShr"} -> y \in Positions
    [] OTHER -> TRUE
Compute(op, x, y) ==
  CASE op = "Add" -> Wrap(x + y)
    [] op = "Sub" -> Wrap(x - y)
    [] op = "Mul" -> Wrap(x * y)
    [] op = "SDiv" -> TruncDiv(x, y)
    [] op = "SRem" -> TruncRem(x, y)
    [] op = "And" -> NumberOf(BitsOf(x) \cap BitsOf(y))
    [] op = "Or" -> NumberOf(BitsOf(x) \cup BitsOf(y))
    [] op = "Xor" -> NumberOf((BitsOf(x) \cup BitsOf(y)) \ (BitsOf(x) \cap BitsOf(y)))
    [] op = "Shl" -> Wrap(x * 2 ^ y)
    [] op = "LShr" -> Wrap(Unsigned(x) \div 2 ^ y)
    [] op = "AShr" -> x \div 2 ^ y
Compare(pred, x, y) ==
  CASE pred = "EQ" -> x = y [] pred = "NE" -> x # y
    [] pred = "SLT" -> x < y [] pred = "SLE" -> x <= y
    [] pred = "SGT" -> x > y [] pred = "SGE" -> x >= y
    [] pred = "ULT" -> Unsigned(x) < Unsigned(y) [] pred = "ULE" -> Unsigned(x) <= Unsigned(y)
    [] pred = "UGT" -> Unsigned(x) > Unsigned(y) [] pred = "UGE" -> Unsigned(x) >= Unsigned(y)
AsBit(condition) == IF condition THEN 1 ELSE 0

\* A pointer is the activation that owns the object (0: a global), the object and
\* the element.
Pointing(depth, object, element) == <<depth, object, element>>

\* A state: the activations (the last one runs), memory, the numbers still to be
\* read, what has been printed.  An activation: where it is, and its values.
Frame(name, f, vals) ==
  [name |-> name, block |-> f.blocks[1], k |-> 1, call |-> 0,
   values |-> [v \in FirstLocal .. FirstLocal + Len(vals) - 1 |-> vals[v - FirstLocal + 1]]]
Top(s) == Last(s.frames)
Ended(s) == s.frames = <<>>

Known(s, v) == IsConst(v) \/ IsGlobal(v) \/ v \in DOMAIN Top(s).values
ValueIn(s, v) ==
  IF IsConst(v) THEN v ELSE IF IsGlobal(v) THEN Pointing(0, v, 0) ELSE Top(s).values[v]
Operands(s, i) == [k \in DOMAIN i.args |-> ValueIn(s, i.args[k])]

Stop(s, what) == [s EXCEPT !.frames = <<>>, !.trace = Append(@, what)]
\* Instruction v gives x, and the next one is to come.
Yield(s, v, x) ==
  [s EXCEPT !.frames[Len(s.frames)] = [@ EXCEPT !.k = @ + 1, !.values = (v :> x) @@ @]]
Skip(s) == [s EXCEPT !.frames[Len(s.frames)].k = @ + 1]

\* The PHIs of the block entered take their values together.
Enter(s, f, b) ==
  LET from == Top(s).block
      phis == ToSet(Phis(f, b))
      Brings(p) == from \in ToSet(f.inst[p].to) /\ Known(s, Incoming(f.inst[p], from))
  IN  IF \A p \in phis : Brings(p)
      THEN [s EXCEPT !.frames[Len(s.frames)] =
              [@ EXCEPT !.block = b, !.k = Cardinality(phis) + 1,
                        !.values = [p \in phis |-> ValueIn(s, Incoming(f.inst[p], from))] @@ @]]
      ELSE Stop(s, <<"undefined">>)

Leave(s, results) ==
  LET below == SubSeq(s.frames, 1, Len(s.frames) - 1) IN
    IF below = <<>> THEN Stop(s, <<"result", results>>)
    ELSE LET caller == [s EXCEPT !.frames = below]
             call == Top(caller).call
         IN  IF results = <<>> THEN Skip(caller) ELSE Yield(caller, call, results[1])

\* A call that reuses the frame: the objects in it are gone.
Without(s) == [s EXCEPT !.memory = Restrict(@, {p \in DOMAIN @ : p[1] # Len(s.frames)})]

CallOf(m, s, v, i, x) ==
  CASE i.name = "putint" -> Skip([s EXCEPT !.trace = Append(@, <<"put", x[1]>>)])
    [] i.name = "getint" ->
         Yield([s EXCEPT !.input = IF @ = <<>> THEN @ ELSE Tail(@)], v,
               IF s.input = <<>> THEN 0 ELSE Head(s.input))
    [] i.tail /\ i.name \in DOMAIN m.fns -> [Without(s) EXCEPT !.frames[Len(s.frames)] = Frame(i.name, m.fns[i.name], x)]
    [] OTHER ->
         [s EXCEPT !.frames = Append([@ EXCEPT ![Len(@)].call = v], Frame(i.name, m.fns[i.name], x))]

\* Memory cells of an object are numbers, 0 until they are written.
Element(s, ptr) == IF ptr \in DOMAIN s.memory THEN s.memory[ptr] ELSE 0

Step(m, s) ==
  LET f == m.fns[Top(s).name]
      v == f.body[Top(s).block][Top(s).k]
      i == f.inst[v]
      x == Operands(s, i)
  IN
  IF Ended(s) THEN s
  ELSE IF ~IsPhi(i) /\ \E k \in DOMAIN i.args : ~Known(s, i.args[k]) THEN Stop(s, <<"undefined">>)
  ELSE CASE i.op \in BinaryOps ->
              IF Defined(i.op, x[1], x[2]) THEN Yield(s, v, Compute(i.op, x[1], x[2]))
              ELSE Stop(s, <<"undefined">>)
         [] i.op = "ICmp" -> Yield(s, v, AsBit(Compare(i.pred, x[1], x[2])))
         [] i.op = "Select" -> Yield(s, v, IF x[1] = 1 THEN x[2] ELSE x[3])
         [] i.op \in {"ZExt", "BitCast"} -> Yield(s, v, x[1])
         [] i.op = "Alloca" -> Yield(s, v, Pointing(Len(s.frames), v, 0))
         [] i.op = "GEP" -> Yield(s, v, [x[1] EXCEPT ![3] = @ + x[2]])
         [] i.op = "Load" -> Yield(s, v, Element(s, x[1]))
         [] i.op = "Store" -> Skip([s EXCEPT !.memory = (x[2] :> x[1]) @@ @])
         [] i.op = "Call" -> CallOf(m, s, v, i, x)
         [] i.op = "Ret" -> Leave(s, x)
         [] i.op = "Br" -> Enter(s, f, IF IsConditional(i) /\ x[1] = 0 THEN i.to[2] ELSE i.to[1])

\* 2 ^ n steps.
RECURSIVE Steps(_, _, _)
Steps(m, s, n) == IF n = 0 \/ Ended(s) THEN Step(m, s) ELSE Steps(m, Steps(m, s, n - 1), n - 1)

Started(m, input) ==
  [frames |-> <<Frame("main", m.fns["main"], <<>>)>>, input |-> input, trace |-> <<>>,
   memory |-> [p \in UNION {{Pointing(0, g, k - 1) : k \in DOMAIN m.globals[g]} : g \in DOMAIN m.globals} |->
                 m.globals[p[2]][p[3] + 1]]]

\* What is seen of a run of program m that reads the numbers of input.
Observed(m, input) ==
  LET end == Steps(m, Started(m, input), RunLength) IN
    IF Ended(end) THEN end.trace ELSE Append(end.trace, <<"runs on">>)
=============================================================================
