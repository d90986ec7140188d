----------------------------- MODULE MachineExec -----------------------------
(***************************************************************************)
(* What a machine function does when it runs: the meaning of the opcodes   *)
(* of MachineIR, and what a caller, the callees and memory can see of a    *)
(* run.  The processor is not part of the repository; this module gives    *)
(* the architecture's meaning to the instructions the back end emits.      *)
(***************************************************************************)
EXTENDS MachineIR

\* A run is cut off after 2 ^ RunLength instructions.
RunLength == 8

\* What the callee leaves in a register it need not preserve: never the same twice.
Junk(r, calls) == 1000 + 100 * calls - 10 * r
Initial(r) == 500 - 10 * r

\* The addresses of the program's variables, and of the frame.
Globals == 100 .. 102
Stack == Initial(SP) - 24 .. Initial(SP) - 1

Callee(name, x, y) == (3 * x + 5 * y + name) % 50

Holds(cond, flags) ==
  CASE cond = "EQ" -> flags[1] = flags[2] [] cond = "NE" -> flags[1] # flags[2]
    [] cond = "LT" -> flags[1] < flags[2] [] cond = "GE" -> flags[1] >= flags[2]
    [] cond = "AL" -> TRUE

\* Bits 0 .. 2 are enough of an and-mask here; both operands are not negative.
RECURSIVE And(_, _)
And(x, y) == IF x <= 0 \/ y <= 0 THEN 0 ELSE (x % 2) * (y % 2) + 2 * And(x \div 2, y \div 2)

\* A word as a signed number.
Signed(w) == IF w >= 2 ^ (WordBits - 1) THEN w - 2 ^ WordBits ELSE w
Shifted(i) == i.imm * 2 ^ (i.from[1] * PieceBits)
OldPiece(i, v) == ((v[1] % 2 ^ WordBits) \div 2 ^ (i.from[1] * PieceBits)) % 2 ^ PieceBits

Result(i, v, s) ==
  CASE i.op = "MOVi32" -> i.imm
    [] i.op = "MOVZ" -> Signed(Shifted(i))
    [] i.op = "MOVN" -> Signed(2 ^ WordBits - 1 - Shifted(i))
    [] i.op = "MOVK" ->
         Signed((v[1] % 2 ^ WordBits) + Shifted(i) - OldPiece(i, v) * 2 ^ (i.from[1] * PieceBits))
    [] i.op = "ORRWri" -> Signed(i.imm)
    [] i.op = "COPY" -> v[1]
    [] i.op = "SXTW" -> Signed(v[1] % 2 ^ WordBits)
    [] i.op = "ADDWrr" -> v[1] + v[2]
    [] i.op = "ADDWri" -> v[1] + i.imm
    [] i.op = "SUBWrr" -> v[1] - v[2]
    [] i.op = "SUBWri" -> v[1] - i.imm
    [] i.op = "MULWrr" -> v[1] * v[2]
    [] i.op = "ANDWri" -> And(v[1], i.imm)
    [] i.op = "ANDWrr" -> And(v[1], v[2])
    [] i.op = "INSv4i32" -> (v[1] % 1000) + 1000 * v[2]
    [] i.op = "CSETW" -> IF Holds(i.cond, s.flags) THEN 1 ELSE 0
    [] i.op = "CSELW" -> IF Holds(i.cond, s.flags) THEN v[1] ELSE v[2]
    [] i.op = "LDRWui" -> IF v[1] + i.imm \in DOMAIN s.memory THEN s.memory[v[1] + i.imm] ELSE 0
    [] i.op = "SPILL_LOAD" -> s.slots[i.imm]

Compared(i, v) ==
  CASE i.op = "CMPWrr" -> <<v[1], v[2]>>
    [] i.op = "CMPWri" -> <<v[1], i.imm>>
    [] i.op = "TSTWrr" -> <<And(v[1], v[2]), 0>>
    [] i.op = "TSTWri" -> <<And(v[1], i.imm), 0>>

Values(i, s) == [n \in DOMAIN i.uses |-> s.regs[i.uses[n]]]

\* Entering block b from s.block: its PHIs take their values together.
Enter(f, s, b) ==
  LET phis == {k \in DOMAIN f.code[b] : f.code[b][k].op = "PHI"}
      Incoming(i) == i.uses[CHOOSE n \in DOMAIN i.from : i.from[n] = s.block]
      new == [r \in {f.code[b][k].def : k \in phis} |->
                s.regs[Incoming(CHOOSE i \in ToSet(f.code[b]) : i.op = "PHI" /\ i.def = r)]]
  IN  [s EXCEPT !.block = b, !.k = Cardinality(phis) + 1, !.regs = new @@ s.regs]

\* The layout successor, when a block does not end in a branch.
Following(f, b) ==
  f.layout[1 + CHOOSE n \in DOMAIN f.layout : f.layout[n] = b]

\* The instructions from k on that belong to one parallel copy.
GroupEnd(code, k) ==
  Max({n \in k .. Len(code) : \A m \in k .. n : code[m].group = code[k].group})

Taken(i, s) ==
  CASE i.op = "Bcc" -> Holds(i.cond, s.flags)
    [] i.op = "CBZ" -> s.regs[i.uses[1]] = 0
    [] i.op = "CBNZ" -> s.regs[i.uses[1]] # 0
    [] i.op = "TBZ" -> And(s.regs[i.uses[1]], 2 ^ i.imm) = 0
    [] i.op = "TBNZ" -> And(s.regs[i.uses[1]], 2 ^ i.imm) # 0

\* Its caller finds its own registers again once the function has its frame.
Observe(s, what, name) ==
  Append(s.trace, <<what, name, s.regs[X0], IF name >= 2 THEN s.regs[X1] ELSE 0,
                    [a \in Globals |-> s.memory[a]],
                    IF what = "call" THEN 0
                    ELSE [r \in {SP} \cup ToSet(CalleeSaved) |-> IF s.framed THEN s.regs[r] ELSE Initial(r)]>>)

AfterCall(s, name) ==
  LET calls == Len(s.trace) + 1 IN
    [s EXCEPT !.k = @ + 1, !.trace = Observe(s, "call", name),
              !.regs = [r \in CallerSaved |-> IF r = X0
                          THEN Callee(name, s.regs[X0], IF name >= 2 THEN s.regs[X1] ELSE 0)
                          ELSE Junk(r, calls)] @@ s.regs,
              !.flags = <<calls, 0>>]

Finished(s) == s.block = 0
Halt(s, what, name) == [s EXCEPT !.block = 0, !.trace = Observe(s, what, name)]

\* One instruction, or the copies of a group at once.
Step(f, s) ==
  LET code == f.code[s.block]
      i == code[s.k]
      done == [s EXCEPT !.k = @ + 1]
      last == GroupEnd(code, s.k)
      copies == SubSeq(code, s.k, last)
  IN
  IF Finished(s) THEN s
  ELSE IF s.k > Len(code) THEN Enter(f, s, Following(f, s.block))
  ELSE IF i.group # 0
    THEN [s EXCEPT !.k = last + 1,
                   !.regs = [d \in {c.def : c \in ToSet(copies)} |->
                      s.regs[(CHOOSE c \in ToSet(copies) : c.def = d).uses[1]]] @@ s.regs]
  ELSE CASE i.op \in ConditionalBranches -> IF Taken(i, s) THEN Enter(f, done, i.to) ELSE done
    [] i.op = "B" -> Enter(f, done, i.to)
    [] i.op = "CALL" -> AfterCall(s, i.imm)
    [] i.op = "TAILCALL" -> Halt(s, "tailcall", i.imm)
    [] i.op = "RET" -> Halt(s, "ret", 0)
    [] SetsFlags(i) -> [done EXCEPT !.flags = Compared(i, Values(i, s))]
    [] i.op = "STRWui" ->
         [done EXCEPT !.memory = (s.regs[i.uses[2]] + i.imm :> s.regs[i.uses[1]]) @@ @]
    [] i.op = "SPILL_STORE" -> [done EXCEPT !.slots = (i.imm :> s.regs[i.uses[1]]) @@ @]
    [] OTHER -> [done EXCEPT !.regs = (i.def :> Result(i, Values(i, s), s)) @@ @]

\* 2 ^ n steps.
RECURSIVE Steps(_, _, _)
Steps(f, s, n) == IF n = 0 \/ Finished(s) THEN Step(f, s) ELSE Steps(f, Steps(f, s, n - 1), n - 1)

\* What is seen of a run of f with arguments a.
Entered(f, a) ==
  [block |-> f.layout[1], k |-> 1, trace |-> <<>>,
   framed |-> "FrameFinalized" \in f.properties, flags |-> <<0, 1>>,
   regs |-> (X0 :> a[1]) @@ (X1 :> a[2]) @@
            [r \in Allocatable \cup {SP} \cup 1 .. f.created |-> Initial(r)],
   slots |-> Table([n \in 1 .. f.slots |-> 700 + n]),
   memory |-> [x \in Globals |-> x] @@ [x \in Stack |-> 800 + x]]

Observed(f, a) ==
  LET end == Steps(f, Entered(f, a), RunLength) IN
    IF Finished(end) THEN end.trace ELSE Append(end.trace, <<"runs on">>)
=============================================================================
