--------------------------- MODULE PhiElimination ---------------------------
(***************************************************************************)
(* The parts of PhiElimination and PostRAParallelCopyResolver              *)
(* (parallel_copy.cpp) around the ordering of one group of copies, which   *)
(* is ParallelCopy: the edges that must be split, one after the other, the *)
(* copies each predecessor gets for the PHIs, the groups the resolver      *)
(* finds, and where the ordered copies go.                                 *)
(***************************************************************************)
EXTENDS MachineIR

VARIABLES
  fn,    \* the machine function
  edges, \* the edges PhiElimination has found and not yet split
  phase  \* of PhiElimination: "outside" of it, "splitting", or "aborted"

phiVars == <<fn, edges, phase>>

StartsWithPhi(f, b) == f.code[b] # <<>> /\ f.code[b][1].op = "PHI"

\* Only blocks with more than two successors are thought to need it.
EdgesToSplit_switches(f) ==
  {e \in Blocks(f) \X Blocks(f) :
     StartsWithPhi(f, e[2]) /\ e[1] \in Predecessors(f, e[2]) /\ Len(f.succs[e[1]]) > 2}

\* The edges into a PHI whose source has other successors.
EdgesToSplit(f) ==
  {e \in Blocks(f) \X Blocks(f) :
     StartsWithPhi(f, e[2]) /\ e[1] \in Predecessors(f, e[2]) /\ Len(f.succs[e[1]]) > 1}

\* The order they are found in: from the top, and for a block as its list has them.
Earlier(f, d, e) ==
  LET n == SelectInSeq(f.layout, LAMBDA b : b = d[2])
      m == SelectInSeq(f.layout, LAMBDA b : b = e[2])
  IN  \/ n < m
      \/ n = m /\ SelectInSeq(f.preds[d[2]], LAMBDA p : p = d[1])
                    < SelectInSeq(f.preds[d[2]], LAMBDA p : p = e[1])

\* It is still an edge, in the list and by a branch.
CanSplit(f, e) ==
  e[2] \in Successors(f, e[1]) /\ \E i \in ToSet(f.code[e[1]]) : IsTerminator(i) /\ i.to = e[2]

\* The PHIs go on naming the predecessor that is none any more.
Incoming_kept(i, p, s) == i

\* A PHI's value from p comes from s.
Incoming(i, p, s) ==
  IF i.op # "PHI" THEN i
  ELSE [i EXCEPT !.from = [n \in DOMAIN @ |-> IF @[n] = p THEN s ELSE @[n]]]

\* The branches of p to b go to s, which only branches to b, and so do the PHIs of b.
Rerouted(code, p, b, s) ==
  LET retargeted == [code EXCEPT ![p] = [k \in DOMAIN @ |-> Retargeted(@[k], b, s)],
                                 ![s] = <<Branch(b)>>]
  IN  [retargeted EXCEPT ![b] = [k \in DOMAIN @ |-> Incoming(@[k], p, s)]]

\* A new block comes on the edge, at the end of the layout.
SplitEdge(f, edge) ==
  LET p == edge[1]
      b == edge[2]
      g == CreateBlock(f)
      s == NewBlock(g)
      h == AddSuccessor(AddSuccessor(RemoveSuccessor(g, p, b), p, s), s, b)
  IN  [h EXCEPT !.code = Rerouted(@, p, b, s), !.properties = @ \ {"TracksLiveness"}]

FindEdges ==
  /\ phase = "outside" /\ phase' = "splitting"
  /\ edges' = EdgesToSplit(fn)
  /\ UNCHANGED fn

SplitNext ==
  /\ phase = "splitting"
  /\ \E e \in edges :
       /\ \A d \in edges \ {e} : Earlier(fn, e, d)
       /\ edges' = edges \ {e}
       /\ IF CanSplit(fn, e)
          THEN fn' = SplitEdge(fn, e) /\ UNCHANGED phase
          ELSE phase' = "aborted" /\ UNCHANGED fn

PhisOf(f) == SelectSeq(FlattenSeq([n \in DOMAIN f.layout |-> f.code[f.layout[n]]]),
                       LAMBDA i : i.op = "PHI")

\* What is copied at the end of p, in the order of the PHIs.
CopiesAtEnd(f, p) ==
  LET phis == SelectSeq(PhisOf(f), LAMBDA i : p \in ToSet(i.from))
      Source(i) == i.uses[CHOOSE n \in DOMAIN i.from : i.from[n] = p]
  IN  [n \in DOMAIN phis |-> [destination |-> phis[n].def, source |-> Source(phis[n])]]

\* The PHIs are gone; [f, groups]: the groups of copies, each with the block and the
\* place its copies go to.
ErasePhis(f, phis) ==
  LET Group(b) == [block |-> b, at |-> FirstTerminator(Erase(f, phis).code[b]),
                   copies |-> CopiesAtEnd(f, b)]
      into == SelectSeq(f.layout, LAMBDA b : CopiesAtEnd(f, b) # <<>>)
  IN  [f |-> [Erase(f, phis) EXCEPT !.properties = @ \ ({"HasPHIs"} \cup
                IF phis # {} THEN {"IsSSA", "TracksLiveness"} ELSE {})],
       groups |-> [n \in DOMAIN into |-> Group(into[n])]]

EraseAllPhis(f) == ErasePhis(f, {p \in Positions(f) : At(f, p).op = "PHI"})

\* All edges are split: the PHIs become copies.
EraseEach ==
  /\ phase = "splitting" /\ edges = {}
  /\ phase' = "outside" /\ fn' = EraseAllPhis(fn).f
  /\ UNCHANGED edges

\* The first run of copies of one group, from the top: what the resolver takes out next.
NextGroup(f) ==
  LET starts == {p \in Positions(f) : At(f, p).group # 0}
      Precedes(p, q) == \/ SelectInSeq(f.layout, LAMBDA b : b = p[1]) < SelectInSeq(f.layout, LAMBDA b : b = q[1])
                        \/ Before(p, q)
      p == CHOOSE x \in starts : \A y \in starts \ {x} : Precedes(x, y)
      code == f.code[p[1]]
      last == Max({n \in p[2] .. Len(code) : \A m \in p[2] .. n : code[m].group = code[p[2]].group})
  IN  IF starts = {} THEN <<>>
      ELSE <<[block |-> p[1], at |-> p[2], last |-> last,
              copies |-> [n \in 1 .. last - p[2] + 1 |->
                [destination |-> code[p[2] + n - 1].def, source |-> code[p[2] + n - 1].uses[1]]]]>>

WithoutGroups(f, groups) ==
  Erase(f, UNION {{<<g.block, k>> : k \in g.at .. g.last} : g \in ToSet(groups)})

\* The ordered copies are inserted before place at of block b.
Inserted(f, b, at, copies) ==
  [f EXCEPT !.code[b] = SubSeq(@, 1, at - 1)
                         \o [n \in DOMAIN copies |-> CopyOf(copies[n].destination, copies[n].source)]
                         \o SubSeq(@, at, Len(@))]

-----------------------------------------------------------------------------
(* The pass is given functions whose lists say what the branches say, in   *)
(* blocks that all end in one, and whose PHIs name each predecessor once.  *)

Opcodes ==
  Branches \cup {"Invalid", "PHI", "COPY", "CALL", "MOVi32", "ADDWrr", "ADDWri", "SUBWrr",
                 "SUBWri", "MULWrr", "ANDWrr", "ANDWri", "CMPWrr", "CMPWri", "TSTWrr", "TSTWri",
                 "CSETW", "CSELW", "LDRWui", "STRWui", "INSv4i32", "SXTW"}
Conditions == {"AL", "EQ", "NE", "LT", "GE"}

Instructions ==
  [op : Opcodes, def : Int, uses : Seq(Int), imm : Int, cond : Conditions,
   to : Nat, from : Seq(Nat), group : Nat]

Shaped(f) ==
  /\ {"layout", "code", "succs", "preds", "properties"} \subseteq DOMAIN f
  /\ f.layout \in Seq(Nat) /\ Blocks(f) \subseteq DOMAIN f.code
  /\ f.code \in Seq(Seq(Instructions))
  /\ f.succs \in Seq(Seq(Nat)) /\ f.preds \in Seq(Seq(Nat))
  /\ Len(f.succs) = Len(f.code) /\ Len(f.preds) = Len(f.code)
  /\ \A b \in Blocks(f) : IsInjective(f.succs[b]) /\ IsInjective(f.preds[b])

BranchesAgree(f) == \A b \in Blocks(f) : Successors(f, b) = Targets(f, b)

Closed(f) ==
  \A b \in Blocks(f) :
    /\ f.code[b] # <<>> /\ Last(f.code[b]).op \in Unconditional
    /\ \A i \in ToSet(f.code[b]) : i.to # 0 => IsTerminator(i)

Splittable(f) == Shaped(f) /\ ListsAgree(f) /\ PhisFirst(f) /\ BranchesAgree(f) /\ Closed(f)

\* The passes before and after it.
PassesAround == phase = "outside" /\ UNCHANGED <<edges, phase>>

PhiInit == edges = {} /\ phase = "outside"
PhiNext ==
  \/ Splittable(fn) /\ FindEdges
  \/ SplitNext \/ EraseEach \/ PassesAround
PhiSpec == PhiInit /\ [][PhiNext]_phiVars

-----------------------------------------------------------------------------
(* Properties.                                                             *)

\* The edges are found before the first is split.  When its turn comes, each is still
\* there, though its source may have got other successors and its target other
\* predecessors: the pass never aborts (parallel_copy.cpp:34, 48).
EdgesStay == phase # "aborted"

\* No split aborts the pass, and after every single one the lists, the branches and the
\* PHIs describe one graph.
GraphStaysWhole ==
  /\ EdgesStay
  /\ phase = "splitting" => ListsAgree(fn) /\ BranchesAgree(fn) /\ PhisFirst(fn)

\* Once the edges found at the start are split, a block that a PHI's value comes from
\* goes nowhere else, and no PHI of another block takes a value from it: the copies
\* at its end are made on the way to that PHI only (parallel_copy.cpp:24).
CopiesRunOnTheirEdge ==
  phase = "splitting" /\ edges = {} =>
    \A q \in Positions(fn) : At(fn, q).op = "PHI" =>
      \A p \in ToSet(At(fn, q).from) :
        /\ Successors(fn, p) = {q[1]}
        /\ \A r \in Positions(fn) :
             At(fn, r).op = "PHI" /\ p \in ToSet(At(fn, r).from) => r[1] = q[1]
=============================================================================
