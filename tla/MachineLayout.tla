---------------------------- MODULE MachineLayout ----------------------------
(***************************************************************************)
(* The passes that decide the final layout: MachineBlockPlacement and      *)
(* AArch64BranchRelaxation (cfg_optimizations.cpp), and the expansion of   *)
(* constants between them (post_ra_optimizations.cpp).                     *)
(***************************************************************************)
EXTENDS MachineAnalysis

(* MachineBlockPlacement.                                                  *)

IsForwarder(f, b) ==
  /\ b # f.layout[1] /\ Len(f.code[b]) = 1 /\ f.code[b][1].op = "B" /\ f.code[b][1].to # b

\* All who branch to b branch to its target; b is gone.
ThreadForwarder(f, b) ==
  LET t == f.code[b][1].to
      Moved(g, p) == AddSuccessor(RemoveSuccessor(
                       [g EXCEPT !.code[p] = [k \in DOMAIN @ |-> Retargeted(g.code[p][k], b, t)]], p, b), p, t)
      g == RemoveSuccessor(FoldLeft(Moved, f, f.preds[b]), b, t)
  IN  [g EXCEPT !.layout = SelectSeq(@, LAMBDA x : x # b), !.code[b] = <<>>]

RECURSIVE ThreadForwarders(_)
ThreadForwarders(f) ==
  LET bs == SelectSeq(f.layout, LAMBDA b : IsForwarder(f, b))
  IN  IF bs = <<>> THEN f ELSE ThreadForwarders(ThreadForwarder(f, bs[1]))

\* extendChain, again and again: the orders in which a block is followed by a successor
\* that has no place yet, if there is one.  Which of them is the code's is decided by
\* loop depths and trace lengths; all of them are considered here.
RECURSIVE Chains(_, _, _)
Chains(f, order, current) ==
  LET placed == ToSet(order)
      next == IF current = 0 THEN {} ELSE Successors(f, current) \ placed
      rest == SelectSeq(f.layout, LAMBDA b : b \notin placed)
  IN  IF next # {} THEN UNION {Chains(f, Append(order, s), s) : s \in next}
      ELSE IF rest = <<>> THEN {order}
      ELSE Chains(f, Append(order, rest[1]), rest[1])

HasExplicitTransfer(f, b) == f.code[b] # <<>> /\ IsTerminator(Last(f.code[b]))

\* A conditional latch comes right before its header.
Rotated(f, depth, order, latch) ==
  LET headers == SelectSeq(f.succs[latch], LAMBDA s : depth[s] > 0 /\ s < latch)
      header == headers[1]
      others == SelectSeq(order, LAMBDA b : b # latch)
      IndexOf(b) == SelectInSeq(order, LAMBDA x : x = b)
      Safe == /\ \A p \in Predecessors(f, header) \ {latch} : HasExplicitTransfer(f, p)
              /\ \A p \in Predecessors(f, latch) : HasExplicitTransfer(f, p)
  IN  IF \/ latch = f.layout[1] \/ Len(f.succs[latch]) # 2 \/ depth[latch] = 0
         \/ headers = <<>>
      THEN order
      ELSE IF header = f.layout[1] \/ ~Safe \/ IndexOf(latch) + 1 = IndexOf(header) THEN order
      ELSE InsertAt(others, SelectInSeq(others, LAMBDA x : x = header), latch)

\* The branch for the other case, to another block.
Inverted(i, to) ==
  [i EXCEPT !.to = to, !.cond = IF i.op = "Bcc" THEN InverseCondition(@) ELSE @,
            !.op = CASE @ = "CBZ" -> "CBNZ" [] @ = "CBNZ" -> "CBZ"
                     [] @ = "TBZ" -> "TBNZ" [] @ = "TBNZ" -> "TBZ" [] OTHER -> @]

\* The terminators of b once the block after it is fallthrough (0: none).
CleanedBranches(f, b, fallthrough) ==
  LET all == f.code[b]
      \* Both arms name the same block.
      same == /\ Len(all) >= 2 /\ Last(all).op = "B" /\ IsConditional(all[Len(all) - 1])
              /\ all[Len(all) - 1].to = Last(all).to
      code == IF same THEN Remove(all, all[Len(all) - 1]) ELSE all
      n == Len(code)
      last == code[n]
      succs == Successors(f, b)
      front == SubSeq(code, 1, n - 1)
      other == CHOOSE s \in succs \ {last.to} : TRUE
      before == code[n - 1]
      \* TBZ and TBNZ count as having no target, like what is no branch at all.
      target == IF before.op \in {"Bcc", "CBZ", "CBNZ"} THEN before.to ELSE 0
  IN  IF all = <<>> \/ ~IsTerminator(Last(all))
      THEN IF Cardinality(succs) = 1 /\ succs # {fallthrough}
           THEN Append(all, Branch(f.succs[b][1])) ELSE all
      ELSE IF IsConditional(last) /\ succs = {last.to}
      THEN IF last.to = fallthrough THEN front ELSE Append(front, Branch(last.to))
      ELSE IF IsConditional(last) /\ Cardinality(succs) = 2 /\ last.to \in succs
      THEN IF fallthrough = last.to THEN Append(front, Inverted(last, other))
           ELSE IF fallthrough # other THEN Append(code, Branch(other)) ELSE code
      ELSE IF last.op # "B" THEN code
      ELSE IF last.to = fallthrough THEN front
      ELSE IF n > 1 /\ target = fallthrough /\ IsConditional(before)
      THEN Append(SubSeq(code, 1, n - 2), Inverted(before, last.to))
      ELSE code

NextInLayout(order, b) ==
  LET n == SelectInSeq(order, LAMBDA x : x = b) IN IF n = Len(order) THEN 0 ELSE order[n + 1]

\* The possible results.
BlockPlacement(f) ==
  LET depth == Table([b \in Blocks(f) |-> LoopDepth(f, b)])
      g == ThreadForwarders(f)
      Rotate(order) == FoldLeft(LAMBDA o, b : Rotated(g, depth, o, b), order, g.layout)
      Laid(order) ==
        [g EXCEPT !.layout = order,
                  !.code = [b \in DOMAIN @ |-> IF b \in Blocks(g)
                              THEN CleanedBranches(g, b, NextInLayout(order, b)) ELSE g.code[b]]]
  IN  IF Len(f.layout) < 2 THEN {f}
      ELSE {Laid(Rotate(order)) : order \in Chains(g, <<g.layout[1]>>, g.layout[1])}

-----------------------------------------------------------------------------
(* expandIntegerImmediate, for words of a few short pieces.                *)

Piece(value, n) == (value \div 2 ^ (n * PieceBits)) % 2 ^ PieceBits
AllOnes == 2 ^ PieceBits - 1

\* A run of ones in an element, rotated, repeated over the word.
IsLogicalImmediate(value) ==
  \E e \in {x \in 2 .. WordBits : \E k \in 1 .. 5 : x = 2 ^ k} :
    LET element == value % 2 ^ e IN
      /\ \A n \in 1 .. WordBits \div e - 1 : (value \div 2 ^ (n * e)) % 2 ^ e = element
      /\ \E ones \in 1 .. e - 1, shift \in 0 .. e - 1 :
           LET run == 2 ^ ones - 1 IN
             element = (run \div 2 ^ shift) + (run % 2 ^ shift) * 2 ^ (e - shift)

MoveWide(op, r, imm, n) ==
  [Op(op, r, IF op = "MOVK" THEN <<r>> ELSE <<>>, imm) EXCEPT !.from = <<n>>]

ExpandIntegerImmediate(i) ==
  LET value == i.imm % 2 ^ WordBits
      seeds(skip) == {n \in 0 .. Pieces - 1 : Piece(value, n) # skip}
      Cost(skip) == Max({1, Cardinality(seeds(skip))})
      useMovn == Cost(AllOnes) < Cost(0)
      skip == IF useMovn THEN AllOnes ELSE 0
      first == IF seeds(skip) = {} THEN 0 ELSE Min(seeds(skip))
      rest == Ascending(seeds(skip) \ {first})
      seed == IF useMovn THEN MoveWide("MOVN", i.def, AllOnes - Piece(value, first), first)
              ELSE MoveWide("MOVZ", i.def, Piece(value, first), first)
  IN  IF Cost(skip) > 1 /\ IsLogicalImmediate(value) THEN <<Op("ORRWri", i.def, <<>>, value)>>
      ELSE <<seed>> \o [n \in DOMAIN rest |-> MoveWide("MOVK", i.def, Piece(value, rest[n]), rest[n])]

ExpandConstants(f) ==
  LET Expanded(i) == IF IsConstant(i) THEN ExpandIntegerImmediate(i) ELSE <<i>>
  IN  [f EXCEPT !.code = [b \in DOMAIN @ |->
         FlattenSeq([k \in DOMAIN f.code[b] |-> Expanded(f.code[b][k])])]]

-----------------------------------------------------------------------------
(* AArch64BranchRelaxation.                                                *)

\* The branch at p jumps over an unconditional one to a new block with the rest of the code.
RelaxBranch(f, p) ==
  LET b == p[1]
      code == f.code[b]
      target == At(f, p).to
      others == SelectSeq(f.succs[b], LAMBDA s : s # target)
      g == CreateBlock(f)
      rest == NewBlock(g)
      Cut(h, s) == RemoveSuccessor(h, b, s)
      cut == AddSuccessor(AddSuccessor(FoldLeft(Cut, g, f.succs[b]), b, target), b, rest)
      joined == FoldLeft(LAMBDA h, s : AddSuccessor(h, rest, s), cut, others)
      here == SelectInSeq(f.layout, LAMBDA x : x = b)
  IN  [joined EXCEPT
        !.layout = InsertAt(f.layout, here + 1, rest),
        !.code[b] = SubSeq(code, 1, p[2] - 1) \o <<Inverted(At(f, p), rest), Branch(target)>>,
        !.code[rest] = SubSeq(code, p[2] + 1, Len(code))]

\* A branch of a block with two successors, to one of them: the pass aborts on any other.
Relaxable(f, p) == Len(f.succs[p[1]]) = 2 /\ At(f, p).to \in Successors(f, p[1])

\* Without the property BranchesRelaxed the pass has aborted.
RECURSIVE BranchRelaxation(_)
BranchRelaxation(f) ==
  LET ps == OutOfRange(f)
      LayoutIndex(p) == SelectInSeq(f.layout, LAMBDA x : x = p[1])
      first == CHOOSE p \in ps : \A q \in ps :
        LayoutIndex(p) < LayoutIndex(q) \/ (p[1] = q[1] /\ p[2] <= q[2])
  IN  IF ps = {} THEN SetProperty(f, "BranchesRelaxed")
      ELSE IF ~Relaxable(f, first) THEN f
      ELSE BranchRelaxation(RelaxBranch(f, first))
=============================================================================
