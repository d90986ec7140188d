------------------------------- MODULE PostRA -------------------------------
(***************************************************************************)
(* The passes on physical registers between allocation and frame lowering: *)
(* tied operands, spill slots, physical copies (post_ra_optimizations.cpp, *)
(* spill_optimization.cpp), and frame lowering (frame_lowering.cpp).       *)
(* Everything of MachineIR is of one class and one width.                  *)
(***************************************************************************)
EXTENDS MachineAnalysis

(* PostRAInstructionExpansion: a tied operand in another register than the *)
(* result is copied there first.                                           *)
FinalizeTiedOperands(f) ==
  LET Tied(i) == IF IsTied(i) /\ i.uses[1] # i.def
                 THEN <<CopyOf(i.def, i.uses[1]), [i EXCEPT !.uses[1] = i.def]>> ELSE <<i>>
  IN  [f EXCEPT !.code = [b \in DOMAIN @ |->
         FlattenSeq([k \in DOMAIN f.code[b] |-> Tied(f.code[b][k])])]]

-----------------------------------------------------------------------------
(* PostRASpillSlotOptimizer.                                               *)

\* known: [slot |-> the register that holds its value].
Invalidate(known, r) == [s \in {x \in DOMAIN known : known[x] # r} |-> known[s]]

\* One instruction of a block: what is known after it, and what it becomes.
Forwarded(acc, i) ==
  LET known == acc.known
      slot == i.imm
  IN  CASE i.op = "SPILL_LOAD" /\ slot \in DOMAIN known /\ known[slot] = i.def -> acc
        [] i.op = "SPILL_LOAD" /\ (slot \in DOMAIN known => known[slot] # i.def) ->
             [known |-> (slot :> i.def) @@ Invalidate(known, i.def),
              code |-> Append(acc.code, IF slot \in DOMAIN known THEN CopyOf(i.def, known[slot]) ELSE i)]
        [] i.op = "SPILL_STORE" ->
             [known |-> (slot :> i.uses[1]) @@ known, code |-> Append(acc.code, i)]
        [] IsCall(i) -> [known |-> <<>>, code |-> Append(acc.code, i)]
        [] OTHER -> [known |-> Invalidate(known, i.def), code |-> Append(acc.code, i)]

ForwardKnownValues(f) ==
  [f EXCEPT !.code = [b \in DOMAIN @ |->
     FoldLeft(Forwarded, [known |-> <<>>, code |-> <<>>], f.code[b]).code]]

\* The slots some path from the start of each block loads before it stores them.
RECURSIVE SlotFixpoint(_, _)
SlotFixpoint(f, in) ==
  LET Loads(b, s) == {k \in DOMAIN f.code[b] : f.code[b][k].op = "SPILL_LOAD" /\ f.code[b][k].imm = s}
      Stores(b, s) == {k \in DOMAIN f.code[b] : f.code[b][k].op = "SPILL_STORE" /\ f.code[b][k].imm = s}
      next == [b \in DOMAIN in |->
        {s \in 1 .. f.slots : LET first == Loads(b, s) \cup Stores(b, s) IN
           IF first # {} THEN Min(first) \in Loads(b, s)
           ELSE \E c \in Successors(f, b) : s \in in[c]}]
  IN  IF next = in THEN in ELSE SlotFixpoint(f, next)

RemoveDeadStores(f) ==
  LET in == SlotFixpoint(f, [b \in Blocks(f) |-> {}])
      Dead(p) == LET later == {k \in p[2] + 1 .. Len(f.code[p[1]]) :
                        /\ f.code[p[1]][k].op \in {"SPILL_LOAD", "SPILL_STORE"}
                        /\ f.code[p[1]][k].imm = At(f, p).imm}
                 IN  IF later # {} THEN f.code[p[1]][Min(later)].op = "SPILL_STORE"
                     ELSE \A c \in Successors(f, p[1]) : At(f, p).imm \notin in[c]
  IN  Erase(f, {p \in Positions(f) : At(f, p).op = "SPILL_STORE" /\ Dead(p)})

SpillSlotOptimizer(f) == RemoveDeadStores(ForwardKnownValues(f))

-----------------------------------------------------------------------------
(* PostRACopyPropagation.                                                  *)

Later(f, p) == {<<p[1], k>> : k \in p[2] + 1 .. Len(f.code[p[1]])}
FirstOf(ps) == CHOOSE p \in ps : \A q \in ps : p[2] <= q[2]
Touches(i, r) == i.def = r \/ r \in Reads(i)

\* isRegisterLiveAfter: read again in the block before it is written, or after the block.
LiveLater(f, out, p, r) ==
  LET next == {q \in Later(f, p) : r \in Uses("physical", At(f, q)) \/ r \in Defs("physical", At(f, q))}
  IN  IF next = {} THEN r \in out[p[1]] ELSE r \in Uses("physical", At(f, FirstOf(next)))

\* t = op s, imm; ...; s = t becomes s = op s, imm if t is not needed any more.
InPlace(f, out) ==
  {<<p, q>> \in Positions(f) \X Positions(f) :
     /\ At(f, p).op \in {"ADDWri", "SUBWri"} /\ At(f, p).def # At(f, p).uses[1]
     /\ Before(p, q) /\ q[2] - p[2] <= 6
     /\ At(f, q).op = "COPY" /\ At(f, q).def = At(f, p).uses[1] /\ At(f, q).uses = <<At(f, p).def>>
     /\ ~LiveLater(f, out, q, At(f, p).def)
     /\ \A x \in Between(p, q) : /\ ~IsCall(At(f, x)) /\ ~IsTerminator(At(f, x))
                                 /\ ~Touches(At(f, x), At(f, p).def)
                                 /\ ~Touches(At(f, x), At(f, p).uses[1])}

RECURSIVE InPlaceFold(_, _)
InPlaceFold(f, out) ==
  IF InPlace(f, out) = {} THEN f
  ELSE LET m == CHOOSE x \in InPlace(f, out) : TRUE
       IN  InPlaceFold(Erase(Replace(f, m[1], [At(f, m[1]) EXCEPT !.def = At(f, m[1]).uses[1]]), {m[2]}),
                       out)

SelfCopies(f) ==
  {p \in Positions(f) : At(f, p).op = "COPY" /\ At(f, p).uses = <<At(f, p).def>>}

RedundantCopyElimination(f) == Erase(f, SelfCopies(f))

\* The instruction that ends the life of the copy's destination d in its block (0: the
\* end of the block), and the uses of d before it; blocked when one of them cannot
\* read the source s instead.
Scan(f, p, d, s) ==
  LET stops == {q \in Later(f, p) : \/ IsCall(At(f, q)) \/ IsTerminator(At(f, q)) \/ At(f, q).def = d}
      stop == IF stops = {} THEN <<p[1], Len(f.code[p[1]]) + 1>> ELSE FirstOf(stops)
      ends == stops # {} /\ (IsCall(At(f, stop)) \/ IsTerminator(At(f, stop)))
      \* An instruction that redefines d may read it as well.
      uses == {q \in Between(p, stop) \cup (IF stops = {} \/ ends THEN {} ELSE {stop}) :
                 d \in Reads(At(f, q))}
  IN  [stop |-> IF stops = {} THEN 0 ELSE stop[2], uses |-> uses,
       tied |-> \E q \in uses : IsTied(At(f, q)) /\ At(f, q).uses[1] = d,
       stale |-> \E q \in uses : \E x \in Between(p, q) : At(f, x).def = s]

\* Nothing after the copy's uses in its block needs its destination.
Killed_atCalls(f, out, p, stop, d) ==
  LET i == f.code[p[1]][stop] IN
    IF IsCall(i) THEN d \in CallerSaved
    ELSE IF IsTerminator(i)
    THEN d \notin Reads(i) \cup out[p[1]] /\ (i.op = "RET" => d # X0)
    ELSE TRUE
Killed(f, out, p, stop, d) ==
  LET i == f.code[p[1]][stop] IN
    IF IsCall(i) THEN d \in CallerSaved \ ArgumentRegisters
    ELSE IF IsTerminator(i)
    THEN d \notin Reads(i) \cup out[p[1]] /\ (i.op = "RET" => d # X0)
    ELSE TRUE

Forward(f, p, uses) ==
  Erase(FoldSet(LAMBDA q, g : Replace(g, q, Rename(At(g, q), At(f, p).def, At(f, p).uses[1])), f, uses), {p})

Forwardable(f, out, p, scan) ==
  /\ scan.stop # 0 /\ ~scan.tied /\ ~scan.stale
  /\ Killed(f, out, p, scan.stop, At(f, p).def)

\* Copies whose uses all read the source instead, with what Scan finds of them.
ForwardCopies(f, out) ==
  LET copies == {p \in Positions(f) : At(f, p).op = "COPY" /\ At(f, p).uses[1] # At(f, p).def}
  IN  {c \in {<<p, Scan(f, p, At(f, p).def, At(f, p).uses[1])>> : p \in copies} :
         Forwardable(f, out, c[1], c[2])}

RECURSIVE ForwardAll(_, _)
ForwardAll(f, out) ==
  IF ForwardCopies(f, out) = {} THEN f
  ELSE LET c == CHOOSE x \in ForwardCopies(f, out) : TRUE
       IN  ForwardAll(Forward(f, c[1], c[2].uses), out)

\* The last loop of the pass looks for copies whose destination is written again; with
\* one class of registers the loop above has taken all of those.
PropagatedWith(f, out) == ForwardAll(RedundantCopyElimination(InPlaceFold(f, out)), out)

\* What is live is not computed again as the copies disappear.
CopyPropagation(f) == PropagatedWith(f, LiveOut("physical", f))

\* runPhysicalCleanup: until nothing changes.
RECURSIVE PhysicalCleanup(_)
PhysicalCleanup(f) ==
  LET g == RedundantCopyElimination(CopyPropagation(SpillSlotOptimizer(f)))
  IN  IF g = f THEN f ELSE PhysicalCleanup(g)

-----------------------------------------------------------------------------
(* AArch64FrameLowering: one word a slot; the stack pointer moves once.    *)

UsedCalleeSaved(f) ==
  {r \in ToSet(CalleeSaved) : \E p \in Positions(f) : Touches(At(f, p), r)}

\* determineCalleeSaves sorts by register number.
SavedRegisters(f) == SelectSeq(CalleeSaved, LAMBDA r : r \in UsedCalleeSaved(f))

\* layoutFrame: saved registers first, then the spill slots.
SavedOffset(n) == n - 1
SlotOffset(f, slot) == Len(SavedRegisters(f)) + slot - 1
StackSize(f) == Len(SavedRegisters(f)) + f.slots

EliminateFrameIndices(f) ==
  LET Lowered(i) ==
        CASE i.op = "SPILL_LOAD" -> Op("LDRWui", i.def, <<SP>>, SlotOffset(f, i.imm))
          [] i.op = "SPILL_STORE" -> Op("STRWui", 0, <<i.uses[1], SP>>, SlotOffset(f, i.imm))
          [] OTHER -> i
  IN  [f EXCEPT !.code = [b \in DOMAIN @ |-> [k \in DOMAIN f.code[b] |-> Lowered(f.code[b][k])]]]

Prologue(f) ==
  <<Op("SUBWri", SP, <<SP>>, StackSize(f))>>
    \o [n \in DOMAIN f.saved |-> Op("STRWui", 0, <<f.saved[n], SP>>, SavedOffset(n))]

Epilogue(f) ==
  Reverse([n \in DOMAIN f.saved |-> Op("LDRWui", f.saved[n], <<SP>>, SavedOffset(n))])
    \o <<Op("ADDWri", SP, <<SP>>, StackSize(f))>>

InsertPrologueEpilogues(f) ==
  LET Leaving(i) == i.op \in {"RET", "TAILCALL"}
      New(b) == (IF b = f.layout[1] THEN Prologue(f) ELSE <<>>)
                  \o FlattenSeq([k \in DOMAIN f.code[b] |->
                       IF Leaving(f.code[b][k]) THEN Epilogue(f) \o <<f.code[b][k]>>
                       ELSE <<f.code[b][k]>>])
  IN  IF StackSize(f) = 0 THEN f
      ELSE [f EXCEPT !.code = [b \in DOMAIN @ |-> New(b)]]

FrameLowering(f) ==
  LET g == [f EXCEPT !.saved = SavedRegisters(f)]
  IN  SetProperty(InsertPrologueEpilogues(EliminateFrameIndices(g)), "FrameFinalized")
=============================================================================
