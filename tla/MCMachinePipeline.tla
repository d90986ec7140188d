-------------------------- MODULE MCMachinePipeline --------------------------
(***************************************************************************)
(* The pipeline over selected functions, in the shapes isel.cpp emits: one *)
(* copy group for the arguments at the entry, one for those of each call,  *)
(* CSETW and CBNZ for a condition, explicit branches at every block.       *)
(***************************************************************************)
EXTENDS MachinePipeline

Const(d, n) == Op("MOVi32", d, <<>>, n)
Grouped(g, d, s) == [CopyOf(d, s) EXCEPT !.group = g]
Entry == <<Grouped(1, 1, X0), Grouped(1, 2, X1)>>
Jump(op, uses, to) == [Branch(to) EXCEPT !.op = op, !.uses = uses]
Cset(d, cond) == [Op("CSETW", d, <<>>, 0) EXCEPT !.cond = cond]
Csel(d, cond, s, t) == [Op("CSELW", d, <<s, t>>, 0) EXCEPT !.cond = cond]
Phi(d, uses, from) == [Op("PHI", d, uses, 0) EXCEPT !.from = from]
Call(name) == Op("CALL", 0, <<>>, name)
Return(v) == <<CopyOf(X0, v), Op("RET", 0, <<>>, 0)>>

\* A selected function of n blocks: its lists are those of its branches.
Function(code) ==
  LET Goals(b) == {code[b][k].to : k \in DOMAIN code[b]} \ {0}
      n == Len(code)
      phis == \E b \in 1 .. n : code[b][1].op = "PHI"
      defs == UNION {{code[b][k].def : k \in DOMAIN code[b]} : b \in 1 .. n}
  IN  [layout |-> [b \in 1 .. n |-> b], code |-> code,
       succs |-> [b \in 1 .. n |-> Ascending(Goals(b))],
       preds |-> [b \in 1 .. n |-> Ascending({p \in 1 .. n : b \in Goals(p)})],
       properties |-> {"IsSSA", "Selected", "Legalized"} \cup IF phis THEN {"HasPHIs"} ELSE {},
       created |-> Max(defs), registers |-> {r \in defs : r > 0},
       temporaries |-> {}, split |-> {}, slots |-> 0, saved |-> <<>>]

\* Two values swap in a loop whose latch leaves it too, around a call.
Swap == Function(<<
  Entry \o <<Const(3, 0), Branch(2)>>,
  <<Phi(4, <<1, 5>>, <<1, 2>>), Phi(5, <<2, 4>>, <<1, 2>>), Phi(6, <<3, 7>>, <<1, 2>>),
    Op("ADDWri", 7, <<6>>, 1), Grouped(2, X0, 7), Call(1), CopyOf(8, X0),
    Const(9, 2), Op("CMPWrr", 0, <<7, 9>>, 0), Cset(10, "LT"),
    Jump("CBNZ", <<10>>, 2), Branch(3)>>,
  <<Op("SUBWrr", 11, <<4, 5>>, 0), Op("ADDWrr", 12, <<11, 8>>, 0)>> \o Return(12)>>)

\* Conditions materialized and compared again, repeated constants and
\* expressions, a tied operand, memory, a block nothing reaches.
Diamond == Function(<<
  Entry \o <<Const(3, 4), Op("ADDWrr", 5, <<1, 2>>, 0), Const(4, 4), Op("ADDWrr", 6, <<2, 1>>, 0),
    Op("ADDWri", 7, <<5>>, 0), Op("CMPWrr", 0, <<5, 3>>, 0), Cset(8, "LT"),
    Op("CMPWri", 0, <<8>>, 0), Csel(9, "NE", 6, 4), Const(10, 6), Op("ANDWrr", 11, <<9, 10>>, 0),
    Op("CMPWri", 0, <<11>>, 0), Cset(12, "EQ"),
    Op("ADDWrr", 21, <<1, 2>>, 0), Jump("CBNZ", <<12>>, 2), Branch(3)>>,
  <<Const(13, 100), Op("STRWui", 0, <<9, 13>>, 0), Op("LDRWui", 14, <<13>>, 1), Branch(4)>>,
  <<Const(15, 100), Op("STRWui", 0, <<7, 15>>, 1), Op("MULWrr", 16, <<7, 21>>, 0), Branch(4)>>,
  <<Phi(17, <<14, 16, 20>>, <<2, 3, 5>>), Op("INSv4i32", 18, <<17, 2>>, 1), Op("ADDWrr", 19, <<18, 17>>, 0)>>
    \o Return(19),
  <<Const(20, 9), Branch(4)>>>>)

\* The arguments go on in the other order, to a call and to a tail call.
Permuted == Function(<<
  Entry \o <<Grouped(2, X0, 2), Grouped(2, X1, 1), Call(2), CopyOf(3, X0),
    Op("ANDWri", 4, <<3>>, 1), Op("CMPWri", 0, <<4>>, 0), Cset(5, "NE"),
    Jump("CBNZ", <<5>>, 2), Branch(3)>>,
  <<Const(6, 7), Grouped(3, X0, 6), Call(1), Branch(4)>>,
  <<Op("ADDWrr", 7, <<1, 3>>, 0)>> \o Return(7),
  <<Grouped(4, X0, 2), Grouped(4, X1, 1), Op("TAILCALL", 0, <<>>, 2)>>>>)

\* More values over a call, in nested loops, than there are registers.
Pressure == Function(<<
  Entry \o <<Const(3, 5), Const(4, 0), Branch(2)>>,
  <<Phi(5, <<4, 12>>, <<1, 4>>), Phi(6, <<1, 7>>, <<1, 4>>), Branch(3)>>,
  <<Phi(7, <<6, 9>>, <<2, 3>>), Const(8, 3), Op("ADDWrr", 9, <<7, 8>>, 0),
    Grouped(2, X0, 9), Grouped(2, X1, 2), Call(2), CopyOf(10, X0),
    Op("CMPWri", 0, <<10>>, 20), Cset(11, "LT"), Jump("CBNZ", <<11>>, 3), Branch(4)>>,
  <<Op("ADDWri", 12, <<5>>, 1), Op("MULWrr", 13, <<12, 3>>, 0), Op("CMPWrr", 0, <<12, 1>>, 0),
    Cset(14, "LT"), Jump("CBNZ", <<14>>, 2), Branch(5)>>,
  <<Op("ADDWrr", 15, <<13, 9>>, 0), Op("ADDWrr", 16, <<15, 2>>, 0)>> \o Return(16)>>)

\* A leaf: the arguments change places for a tail call; constants of more than one
\* piece, a mask that is no immediate, addresses that overlap.
Exchange == Function(<<
  Entry \o <<Const(3, -3), Op("CMPWri", 0, <<2>>, 0), Cset(4, "EQ"),
    Jump("CBNZ", <<4>>, 2), Branch(3)>>,
  <<Grouped(2, X0, 2), Grouped(2, X1, 1), Op("TAILCALL", 0, <<>>, 2)>>,
  <<Const(5, 30), Op("ANDWrr", 6, <<1, 5>>, 0), Const(7, 5), Op("ANDWrr", 8, <<2, 7>>, 0),
    Op("CMPWri", 0, <<8>>, 0), Cset(9, "NE"), Jump("CBNZ", <<9>>, 4), Branch(5)>>,
  <<Const(10, 100), Const(11, 101), Op("STRWui", 0, <<6, 10>>, 1), Op("LDRWui", 12, <<11>>, 0),
    Op("ADDWrr", 13, <<12, 3>>, 0)>> \o Return(13),
  Return(7)>>)

\* A loop that counts, around a choice of which only the copies are left.
Count == Function(<<
  Entry \o <<Const(3, 0), Const(4, 6), Branch(2)>>,
  <<Phi(5, <<3, 7>>, <<1, 4>>), Phi(6, <<4, 8>>, <<1, 4>>), Op("CMPWri", 0, <<6>>, 8),
    Cset(9, "LT"), Jump("CBNZ", <<9>>, 3), Branch(4)>>,
  <<Branch(4)>>,
  <<Phi(10, <<5, 6>>, <<2, 3>>), Op("ADDWri", 7, <<5>>, 1), Op("ADDWrr", 8, <<6, 10>>, 0),
    Const(12, 90), Op("CMPWrr", 0, <<7, 2>>, 0), Cset(11, "LT"), Jump("CBNZ", <<11>>, 2), Branch(5)>>,
  <<Op("ADDWrr", 13, <<8, 12>>, 0)>> \o Return(13)>>)

\* Values needed again and again between calls, and a condition that is used
\* after the flags are written again.
Calls == Function(<<
  Entry \o <<Grouped(2, X0, 1), Call(1), CopyOf(3, X0), Op("ADDWrr", 4, <<3, 2>>, 0),
    Grouped(3, X0, 4), Grouped(3, X1, 2), Call(2), CopyOf(5, X0),
    Op("ADDWrr", 6, <<5, 2>>, 0), Op("ADDWrr", 7, <<6, 1>>, 0),
    Op("CMPWri", 0, <<5>>, 20), Cset(8, "LT"), Op("CMPWri", 0, <<6>>, 25), Cset(9, "LT"),
    Op("ADDWrr", 10, <<7, 9>>, 0), Jump("CBNZ", <<8>>, 2), Branch(3)>>,
  Return(10),
  <<Grouped(4, X0, 10), Grouped(4, X1, 1), Call(2), CopyOf(11, X0)>> \o Return(11)>>)

\* A leaf with more values than registers.
Crowd == Function(<<
  Entry \o <<Const(3, 7), Op("ADDWrr", 4, <<1, 2>>, 0), Op("MULWrr", 5, <<4, 4>>, 0),
    Op("MULWrr", 6, <<3, 4>>, 0), Op("SUBWrr", 7, <<6, 5>>, 0), Op("ADDWrr", 8, <<7, 6>>, 0),
    Op("SUBWrr", 9, <<8, 7>>, 0), Op("ADDWrr", 10, <<9, 4>>, 0), Op("SUBWrr", 11, <<10, 5>>, 0),
    Op("ADDWrr", 12, <<11, 3>>, 0), Op("ADDWrr", 13, <<12, 1>>, 0), Op("SUBWrr", 14, <<13, 2>>, 0),
    Op("MULWrr", 15, <<14, 8>>, 0), Op("ADDWrr", 16, <<15, 9>>, 0), Op("ADDWrr", 17, <<16, 4>>, 0),
    Op("ADDWrr", 18, <<17, 3>>, 0), Op("ADDWrr", 19, <<1, 2>>, 0), Op("SUBWrr", 20, <<18, 19>>, 0)>> \o Return(20)>>)

\* Four values, needed again in the next block, and an intermediate result: each
\* of its short ranges needs a register of the others.
Chain == Function(<<
  Entry \o <<Op("ADDWrr", 3, <<1, 2>>, 0), Op("MULWrr", 4, <<1, 2>>, 0), Op("ADDWri", 5, <<3>>, 1),
    Op("ADDWrr", 6, <<5, 1>>, 0), Op("ADDWrr", 7, <<6, 2>>, 0), Op("ADDWrr", 8, <<7, 3>>, 0),
    Op("ADDWrr", 9, <<8, 4>>, 0), Op("ADDWrr", 10, <<9, 1>>, 0), Branch(2)>>,
  <<Op("MULWrr", 11, <<10, 1>>, 0), Op("ADDWrr", 12, <<11, 2>>, 0), Op("SUBWrr", 13, <<12, 3>>, 0),
    Op("ADDWrr", 14, <<13, 4>>, 0)>> \o Return(14)>>)

\* A conversion of the loop's variable is only needed where the loop goes round,
\* behind the copy that gives the variable its next value, another one only
\* where the loop is left.
Carried == Function(<<
  Entry \o <<Const(3, 0), Branch(2)>>,
  <<Phi(5, <<3, 7>>, <<1, 3>>), Phi(8, <<1, 6>>, <<1, 3>>), Op("SXTW", 6, <<5>>, 0),
    Op("ADDWri", 7, <<5>>, 100), Op("SXTW", 11, <<7>>, 0), Op("CMPWri", 0, <<7>>, 300), Cset(9, "LT"),
    Jump("CBNZ", <<9>>, 3), Branch(4)>>,
  <<Branch(2)>>,
  <<Op("ADDWrr", 10, <<8, 2>>, 0), Op("ADDWrr", 12, <<10, 11>>, 0)>> \o Return(12)>>)

\* A block chooses between two that both begin with a PHI, one of them its own loop's:
\* both edges out of it are split, one after the other.
Twins == Function(<<
  Entry \o <<Op("CMPWrr", 0, <<1, 2>>, 0), Cset(3, "LT"), Jump("CBNZ", <<3>>, 2), Branch(3)>>,
  <<Phi(4, <<1, 8>>, <<1, 3>>), Op("ADDWri", 5, <<4>>, 1), Branch(3)>>,
  <<Phi(6, <<2, 5>>, <<1, 2>>), Phi(7, <<1, 4>>, <<1, 2>>), Op("ADDWrr", 8, <<6, 7>>, 0),
    Op("CMPWri", 0, <<8>>, 9), Cset(9, "LT"), Jump("CBNZ", <<9>>, 2), Branch(4)>>,
  Return(8)>>)

\* The block that tests a bit is not the one its predecessor is followed by, and both
\* its successors have their places before it: it comes last.
LastBitTest == Function(<<
  Entry \o <<Op("CMPWrr", 0, <<1, 2>>, 0), Cset(3, "LT"), Jump("CBNZ", <<3>>, 2), Branch(3)>>,
  <<Op("ANDWri", 4, <<1>>, 1), Op("CMPWri", 0, <<4>>, 0), Cset(5, "NE"),
    Jump("CBNZ", <<5>>, 5), Branch(4)>>,
  <<Grouped(2, X0, 1), Call(1), Branch(4)>>,
  <<Grouped(3, X0, 2), Call(1), Branch(5)>>,
  <<Const(6, 7)>> \o Return(6)>>)

-----------------------------------------------------------------------------
\* Without optimization variables stay in memory, and no function has a PHI.
MCCases ==
  ({Permuted, Exchange, Calls, Crowd, Chain} \X {0, 1})
    \cup ({Swap, Diamond, Pressure, Count, Carried, Twins} \X {1})
BitTestCases == {<<LastBitTest, 1>>}
MCInputs == {<<0, 1>>, <<3, 2>>, <<2, 5>>}
=============================================================================
