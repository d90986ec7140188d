------------------------------ MODULE RegAlloc ------------------------------
(***************************************************************************)
(* GraphColoringRegisterAllocator: interference and forbidden colours,     *)
(* simplification and selection, the optimistic recolouring of copies, and *)
(* the two repairs after a failed colouring: cuts of a blocking live range *)
(* around the failed one, and spilling (regalloc.cpp,                      *)
(* interference_graph.cpp, live_range.cpp, live_range_split_analysis.cpp,  *)
(* live_range_edit.cpp, register_spilling.cpp, rematerialization.cpp).     *)
(***************************************************************************)
EXTENDS MachineAnalysis

StoreLatency == Latency(Op("SPILL_STORE", 0, <<>>, 0))
LoadLatency == Latency(Op("SPILL_LOAD", 0, <<>>, 0))

Frequencies(f) ==
  LET loops == Loops(f) IN
    Table([b \in Blocks(f) |-> 10 ^ Min({4, Cardinality({l \in loops : b \in l.blocks})})])

(* MachineLiveness: of every register of the code, its weight, its cost if *)
(* spilled, whether a call is within its range, and its operands.          *)
Intervals(f) ==
  LET frequency == Frequencies(f)
      out == LiveOut("virtual", f)
      across == AcrossCalls(f, out)
      Cost(ps, factor) == MapThenSumSet(LAMBDA p : frequency[p[1]] * factor, ps)
      nodes == UNION {VirtualRegisters(At(f, p)) : p \in Positions(f)}
  IN  [frequency |-> frequency, out |-> out,
       after |-> Table([p \in Positions(f) |-> LiveAfter("virtual", f, out, p)]),
       nodes |-> nodes,
       defs |-> Table([r \in nodes |-> Definitions(f, r)]),
       uses |-> Table([r \in nodes |-> UsesOf(f, r)]),
       crosses |-> Table([r \in nodes |-> r \in across]),
       weight |-> Table([r \in nodes |-> Max({1, Cost(UsesOf(f, r), 1)})]),
       spillCost |-> Table([r \in nodes |-> Max({1, Cost(Definitions(f, r), StoreLatency)
                                                    + Cost(UsesOf(f, r), LoadLatency)})])]

\* [r |-> the registers r interferes with]: what is live where r is defined, save the
\* source of the copy; and the other operands of an instruction r is tied in.
Interference(f, live) ==
  LET Clashes(p) ==
        LET i == At(f, p)
            copied == IF i.op = "COPY" THEN Reads(i) ELSE {}
            others == IF IsTied(i) THEN ToSet(Tail(i.uses)) ELSE {}
        IN  ((live.after[p] \ copied) \cup {r \in others : IsVirtual(r)}) \ {i.def}
      defined(r) == UNION {Clashes(p) : p \in live.defs[r]}
      from == Table([r \in live.nodes |-> defined(r)])
  IN  Table([r \in live.nodes |-> from[r] \cup {s \in live.nodes : r \in from[s]}])

\* The colours a group of copies takes from the registers it reads and writes: one
\* written earlier may not hold a later source, one still to be read may not be
\* overwritten by a destination.
GroupForbids(f, r) ==
  LET Grouped(p, q) == p # q /\ Before(p, q) /\ At(f, p).group = At(f, q).group
      copies == {p \in Positions(f) : At(f, p).group # 0}
  IN  {At(f, p).def : p \in {x \in copies :
          /\ At(f, x).def < 0 /\ IsVirtual(At(f, x).uses[1])
          /\ \E y \in copies : Grouped(x, y) /\ At(f, y).uses = <<r>> /\ At(f, y).def < 0}}
      \cup {At(f, p).uses[1] : p \in {x \in copies :
          /\ At(f, x).uses[1] < 0
          /\ \E y \in copies : Grouped(y, x) /\ At(f, y).def = r}}

\* The colours r may not have: of what is written, or read, while it is live.
LiveForbids(f, live, r) ==
  LET Physical(p) == {x \in Reads(At(f, p)) \cup {At(f, p).def} : x < 0}
  IN  UNION {Physical(p) : p \in {x \in Positions(f) : r \in live.after[x]}}
        \cup UNION {{x \in Reads(At(f, p)) : x < 0} : p \in live.uses[r]}

\* Only what is written while r is live.
Forbidden_written(f, live) ==
  Table([r \in live.nodes |->
    {At(f, p).def : p \in {x \in Positions(f) : r \in live.after[x] /\ At(f, x).def < 0}}])

Forbidden(f, live) ==
  Table([r \in live.nodes |-> LiveForbids(f, live, r) \cup GroupForbids(f, r)])

\* isCallerSaved excludes a colour for what a call would destroy.
Legal(live, forbidden, r, color) ==
  color \notin forbidden[r] /\ (live.crosses[r] => color \notin CallerSaved)

-----------------------------------------------------------------------------
(* ColorBankContext::run.                                                  *)

\* Is a spilled before b?  Temporaries of earlier spills only when nothing else is left.
Cheaper_temporaries(f, live, degree, a, b) ==
  LET x == live.weight[a] * (degree[b] + 1)
      y == live.weight[b] * (degree[a] + 1)
  IN  x < y \/ (x = y /\ a < b)
Cheaper(f, live, degree, a, b) ==
  LET x == live.weight[a] * (degree[b] + 1)
      y == live.weight[b] * (degree[a] + 1)
  IN  IF a \in f.temporaries \/ b \in f.temporaries
      THEN b \in f.temporaries /\ (a \in f.temporaries => a < b)
      ELSE x < y \/ (x = y /\ a < b)

\* The registers in the order they leave the graph: one that surely gets a colour,
\* or else the cheapest.
RECURSIVE Simplified(_, _, _, _, _)
Simplified(f, live, graph, available, remaining) ==
  LET degree == Table([r \in remaining |-> Cardinality(graph[r] \cap remaining)])
      low == {r \in remaining : degree[r] < available[r]}
      next == IF low # {} THEN Min(low)
              ELSE CHOOSE a \in remaining :
                     \A b \in remaining \ {a} : Cheaper(f, live, degree, a, b)
  IN  IF remaining = {} THEN <<>>
      ELSE <<next>> \o Simplified(f, live, graph, available, remaining \ {next})

CodeOf(f) == FlattenSeq([n \in DOMAIN f.layout |-> f.code[f.layout[n]]])

Hints(f, r) ==
  LET hints == SelectSeq(CodeOf(f), LAMBDA i : /\ i.op = "COPY"
                                     /\ \/ i.def = r /\ i.uses[1] < 0
                                        \/ i.uses = <<r>> /\ i.def < 0)
  IN  [n \in DOMAIN hints |-> IF hints[n].def = r THEN hints[n].uses[1] ELSE hints[n].def]

\* How often copies between r and s run.
Affinity(f, live, r, s) ==
  MapThenSumSet(LAMBDA p : live.frequency[p[1]],
    {p \in Positions(f) : /\ At(f, p).op = "COPY"
                          /\ {At(f, p).def} \cup Reads(At(f, p)) = {r, s}})

Partners(f, live, r) ==
  LET weight == Table([s \in live.nodes \ {r} |-> Affinity(f, live, r, s)])
  IN  Sorted({s \in DOMAIN weight : weight[s] > 0},
             LAMBDA s, t : weight[s] > weight[t] \/ (weight[s] = weight[t] /\ s < t))

\* The register r is tied to, if any: as a use, or as the definition.
TiedTo(f, r) ==
  LET tied == {p \in Positions(f) : IsTied(At(f, p))}
      uses == {p \in tied : At(f, p).uses[1] = r}
      defs == {p \in tied : At(f, p).def = r}
  IN  IF uses # {} THEN {At(f, CHOOSE p \in uses : TRUE).def}
      ELSE IF defs # {} THEN {At(f, CHOOSE p \in defs : TRUE).uses[1]} ELSE {}

ColorsOf(regs, assigned) ==
  LET known == SelectSeq(regs, LAMBDA s : s \in DOMAIN assigned)
  IN  [n \in DOMAIN known |-> assigned[known[n]]]

Preferences(f, live, assigned, r) ==
  Hints(f, r) \o ColorsOf(Ascending(TiedTo(f, r)), assigned)
    \o ColorsOf(Partners(f, live, r), assigned) \o AllocationOrder(~HasCalls(f))

\* One register comes off the stack: the first allowed colour, in order of preference.
Select(f, live, graph, forbidden, acc, r) ==
  LET taken == {acc.assigned[s] : s \in graph[r] \cap DOMAIN acc.assigned}
      Allowed(c) == c \notin taken /\ Legal(live, forbidden, r, c)
      First(colors) == IF colors = <<>> THEN [acc EXCEPT !.spills = @ \cup {r}]
                       ELSE [acc EXCEPT !.assigned = (r :> colors[1]) @@ @]
  IN  First(SelectSeq(Preferences(f, live, acc.assigned, r), Allowed))

(* Optimistic recolouring: a copy whose two registers do not interfere     *)
(* disappears if one can take the colour of the other.                     *)
CanRecolor(live, graph, forbidden, assigned, r, color) ==
  Legal(live, forbidden, r, color) /\ \A s \in graph[r] : assigned[s] # color

Recolored(f, live, graph, forbidden, assigned, edge) ==
  LET r == edge[1]
      s == edge[2]
      Strongest(colors, x) == Max({0} \cup
        {Affinity(f, live, x, y) : y \in {z \in live.nodes \ {x} : colors[z] = colors[x]}})
      Moves(x, y) == /\ Affinity(f, live, r, s) >= Strongest(assigned, x)
                     /\ CanRecolor(live, graph, forbidden, assigned, x, assigned[y])
  IN  IF s \in graph[r] \/ assigned[r] = assigned[s] THEN assigned
      ELSE IF Moves(r, s) THEN [assigned EXCEPT ![r] = assigned[s]]
      ELSE IF Moves(s, r) THEN [assigned EXCEPT ![s] = assigned[r]]
      ELSE assigned

Recolor(f, live, graph, forbidden, assigned) ==
  LET pairs == {<<r, s>> \in live.nodes \X live.nodes : r < s /\ Affinity(f, live, r, s) > 0}
      weight == Table([e \in pairs |-> Affinity(f, live, e[1], e[2])])
      edges == Sorted(pairs, LAMBDA d, e :
                 \/ weight[d] > weight[e]
                 \/ /\ weight[d] = weight[e]
                    /\ d[1] < e[1] \/ (d[1] = e[1] /\ d[2] < e[2]))
      Iterate(colors, n) ==
        FoldLeft(LAMBDA c, e : Recolored(f, live, graph, forbidden, c, e), colors, edges)
  IN  FoldLeft(Iterate, assigned, <<1, 2, 3, 4>>)

\* colorOnce: a colour for every register, or the registers that found none.
ColorOnce(f, live, graph, forbidden) ==
  LET order == ToSet(AllocationOrder(~HasCalls(f)))
      available == Table([r \in live.nodes |->
        Cardinality({c \in order : Legal(live, forbidden, r, c)})])
      stack == Simplified(f, live, graph, available, live.nodes)
      Chosen(acc, r) == Select(f, live, graph, forbidden, acc, r)
      Final(chosen) == IF chosen.spills # {} THEN chosen
                       ELSE [chosen EXCEPT !.assigned = Recolor(f, live, graph, forbidden, @)]
  IN  Final(FoldLeft(Chosen, [assigned |-> <<>>, spills |-> {}], Reverse(stack)))

\* rewriteVirtualRegisters.
Rewritten(f, assigned) ==
  LET Color(r) == IF IsVirtual(r) THEN assigned[r] ELSE r
      Colored(i) == [i EXCEPT !.def = Color(@), !.uses = [n \in DOMAIN @ |-> Color(i.uses[n])]]
  IN  [f EXCEPT !.code = [b \in DOMAIN @ |-> [k \in DOMAIN f.code[b] |-> Colored(f.code[b][k])]],
                !.properties = (@ \cup {"NoVRegs"}) \ {"IsSSA", "HasPHIs", "TracksLiveness"}]

-----------------------------------------------------------------------------
(* LiveRangeSplitAnalysis and LiveRangeEdit: a coloured range is stored in *)
(* a gap between two of its operands, in which a failed range lies.        *)

Rematerializable(f, r) ==
  LET ds == Definitions(f, r) IN
    /\ Cardinality(ds) = 1
    /\ \A d \in ds : /\ RematerializationCost(At(f, d)) \in 1 .. LoadLatency - 1
                     /\ ~\E u \in Reads(At(f, d)) : IsVirtual(u)

\* The operands of r, if they are all in one block and its only definition comes first.
LocalOperands(live, r) ==
  LET ps == live.defs[r] \cup live.uses[r]
      b == (CHOOSE p \in ps : TRUE)[1]
  IN  IF /\ Cardinality(live.defs[r]) = 1 /\ live.uses[r] # {}
         /\ \A p \in ps : p[1] = b
         /\ \A d \in live.defs[r] : \A p \in live.uses[r] : d[2] < p[2]
      THEN Sorted(ps, LAMBDA p, q : p[2] < q[2]) ELSE <<>>

\* The range of s begins and ends between p and q.
Inside(live, s, p, q) ==
  /\ \A x \in live.defs[s] \cup live.uses[s] : Before(p, x) /\ Before(x, q)
  /\ \A b \in DOMAIN live.out : s \notin live.out[b]
  /\ \E x \in live.defs[s] : \A y \in live.uses[s] : x[2] < y[2]

SpillCost(live, rs) == MapThenSumSet(LAMBDA s : live.spillCost[s], rs)

\* Of the failed ranges, those of a set that do not interfere, the costly ones first.
Independent(live, graph, rs) ==
  LET costly == Sorted(rs, LAMBDA s, t : \/ live.spillCost[s] > live.spillCost[t]
                                         \/ live.spillCost[s] = live.spillCost[t] /\ s < t)
  IN  FoldLeft(LAMBDA acc, s : IF graph[s] \cap acc = {} THEN acc \cup {s} ELSE acc, {}, costly)

LocalPlans(f, live, graph, forbidden, chosen, r) ==
  LET ps == LocalOperands(live, r)
      remat == Rematerializable(f, r)
      cost == live.frequency[ps[1][1]] * (IF remat THEN RematerializationCost(At(f, ps[1]))
                                          ELSE StoreLatency + LoadLatency)
      color == chosen.assigned[r]
      Helped(n) == {s \in chosen.spills \cap graph[r] :
        /\ Inside(live, s, ps[n], ps[n + 1]) /\ Legal(live, forbidden, s, color)
        /\ \A t \in (graph[s] \ {r}) \cap DOMAIN chosen.assigned : chosen.assigned[t] # color}
  IN  {[parent |-> r, after |-> ps[n], before |-> ps[n + 1], remat |-> remat, cost |-> cost,
        relieved |-> Independent(live, graph, Helped(n))] :
         n \in {m \in 1 .. Len(ps) - 1 : remat => m > 1}}

Net(live, plan) == SpillCost(live, plan.relieved) - plan.cost

SplitPlans(f, live, graph, forbidden, chosen) ==
  LET Best(r) == LET ps == {p \in LocalPlans(f, live, graph, forbidden, chosen, r) : Net(live, p) > 0}
                 IN  {p \in ps : \A q \in ps : \/ Net(live, p) > Net(live, q)
                                              \/ /\ Net(live, p) = Net(live, q)
                                                 /\ p.after[2] <= q.after[2]}
      blockers == {r \in DOMAIN chosen.assigned :
                     r \notin f.temporaries \cup f.split /\ LocalOperands(live, r) # <<>>}
      candidates == Sorted(UNION {Best(r) : r \in blockers}, LAMBDA p, q :
                      \/ Net(live, p) > Net(live, q)
                      \/ Net(live, p) = Net(live, q) /\ p.parent < q.parent)
      Marginal(acc, p) ==
        LET more == p.relieved \ acc.relieved IN
          IF SpillCost(live, more) <= p.cost THEN acc
          ELSE [relieved |-> acc.relieved \cup more, plans |-> Append(acc.plans, p)]
  IN  FoldLeft(Marginal, [relieved |-> {}, plans |-> <<>>], candidates).plans

SlotLoad(r, slot) == Op("SPILL_LOAD", r, <<>>, slot)
SlotStore(r, slot) == Op("SPILL_STORE", 0, <<r>>, slot)
WithSlot(acc, r) ==
  IF r \in DOMAIN acc.slots THEN acc
  ELSE [acc EXCEPT !.slots = (r :> acc.f.slots + 1) @@ @, !.f.slots = @ + 1]

\* splitLocalGap, for all plans: the positions are those before the first of them.
SplitGaps(f, slots, plans) ==
  LET sibling == [n \in DOMAIN plans |-> f.created + n]
      stored == SelectSeq(plans, LAMBDA p : ~p.remat)
      acc == FoldLeft(LAMBDA a, p : WithSlot(a, p.parent), [f |-> f, slots |-> slots], stored)
      Now(i, p) ==
        FoldLeft(LAMBDA j, n : IF plans[n].before[1] = p[1] /\ p[2] >= plans[n].before[2]
                               THEN Rename(j, plans[n].parent, sibling[n]) ELSE j,
                 i, [n \in DOMAIN plans |-> n])
      Stores(p) == LET here == SelectSeq(plans, LAMBDA x : ~x.remat /\ x.after = p)
                   IN  [n \in DOMAIN here |-> SlotStore(here[n].parent, acc.slots[here[n].parent])]
      Resumes(p) ==
        LET here == SelectSeq([n \in DOMAIN plans |-> n], LAMBDA n : plans[n].before = p)
            Load(n) == IF plans[n].remat
              THEN [At(f, CHOOSE d \in Definitions(f, plans[n].parent) : TRUE)
                      EXCEPT !.def = sibling[n]]
              ELSE SlotLoad(sibling[n], acc.slots[plans[n].parent])
        IN  [n \in DOMAIN here |-> Load(here[n])]
      New(b) == FlattenSeq([k \in DOMAIN f.code[b] |->
                  Resumes(<<b, k>>) \o <<Now(f.code[b][k], <<b, k>>)>> \o Stores(<<b, k>>)])
      parents == {plans[n].parent : n \in DOMAIN plans}
  IN  [f |-> [acc.f EXCEPT !.code = [b \in DOMAIN @ |-> New(b)],
                           !.created = @ + Len(plans), !.registers = @ \cup Range(sibling),
                           !.split = @ \cup parents \cup Range(sibling),
                           !.properties = @ \ {"TracksLiveness"}],
       slots |-> acc.slots]

-----------------------------------------------------------------------------
(* insertSpills: every instruction that names a spilled register gets a    *)
(* temporary of its own, loaded (or made again) before it, stored after it.*)
SpilledOperands(i, spills) ==
  LET named == SelectSeq(<<i.def>> \o i.uses, LAMBDA r : r \in spills)
      Place(r) == SelectInSeq(named, LAMBDA x : x = r)
  IN  Sorted(ToSet(named), LAMBDA r, s : Place(r) < Place(s))

\* olds: the spilled registers of i, in the order it names them.
WithTemporaries(f, acc, i, olds) ==
  LET Temporary(r) == acc.f.created + SelectInSeq(olds, LAMBDA x : x = r)
      Now(r) == IF r \in ToSet(olds) THEN Temporary(r) ELSE r
      loaded == SelectSeq(olds, LAMBDA r : r \in Reads(i))
      Reload(r) == IF Rematerializable(f, r)
                   THEN [At(f, CHOOSE d \in Definitions(f, r) : TRUE) EXCEPT !.def = Temporary(r)]
                   ELSE SlotLoad(Temporary(r), acc.slots[r])
      stores == IF i.def \in ToSet(olds)
                THEN <<SlotStore(Temporary(i.def), acc.slots[i.def])>> ELSE <<>>
      now == [i EXCEPT !.def = Now(@), !.uses = [n \in DOMAIN @ |-> Now(i.uses[n])]]
      created == acc.f.created + 1 .. acc.f.created + Len(olds)
  IN  [acc EXCEPT !.f.created = @ + Len(olds),
                  !.f.registers = @ \cup created, !.f.temporaries = @ \cup created,
                  !.code = @ \o IF i.def \in ToSet(olds) /\ Rematerializable(f, i.def) THEN <<>>
                                ELSE [n \in DOMAIN loaded |-> Reload(loaded[n])] \o <<now>> \o stores]

WithBlock(b, spilled) ==
  [f |-> [spilled.f EXCEPT !.code[b] = spilled.code], slots |-> spilled.slots]

InsertSpills(f, slots, spills) ==
  LET stored == Ascending({r \in spills : ~Rematerializable(f, r)})
      slotted == FoldLeft(LAMBDA a, r : WithSlot(a, r), [f |-> f, slots |-> slots], stored)
      SpillIn(acc, i) == WithTemporaries(f, acc, i, SpilledOperands(i, spills))
      InBlock(a, b) ==
        WithBlock(b, FoldLeft(SpillIn, [f |-> a.f, slots |-> a.slots, code |-> <<>>], f.code[b]))
  IN  [FoldLeft(InBlock, slotted, f.layout) EXCEPT !.f.properties = @ \ {"TracksLiveness"}]

-----------------------------------------------------------------------------
MaximumAllocationRounds == 64

NoRepair == [round |-> 0, slots |-> <<>>, committed |-> 0, best |-> -1]

AfterSplits(repair, plans, objective, split) ==
  [f |-> split.f, done |-> FALSE,
   repair |-> [round |-> repair.round + 1, slots |-> split.slots, best |-> objective,
               committed |-> repair.committed + FoldLeft(LAMBDA c, p : c + p.cost, 0, plans)]]

AfterSpills(repair, spilled) ==
  [f |-> spilled.f, done |-> FALSE,
   repair |-> [round |-> repair.round + 1, slots |-> spilled.slots, committed |-> 0, best |-> -1]]

\* Cuts are made as long as what is still to spill gets cheaper by them.
Plans(f, repair, live, graph, forbidden, chosen, objective) ==
  IF repair.best = -1 \/ objective < repair.best
  THEN SplitPlans(f, live, graph, forbidden, chosen) ELSE <<>>

Repaired(f, repair, spills, objective, plans) ==
  IF plans # <<>> THEN AfterSplits(repair, plans, objective, SplitGaps(f, repair.slots, plans))
  ELSE AfterSpills(repair, InsertSpills(f, repair.slots, spills))

AfterColoring(f, repair, live, graph, forbidden, chosen) ==
  LET objective == SpillCost(live, chosen.spills) + repair.committed
  IN  IF chosen.spills = {}
      THEN [f |-> Rewritten(f, chosen.assigned), repair |-> NoRepair, done |-> TRUE]
      ELSE Repaired(f, repair, chosen.spills, objective,
                    Plans(f, repair, live, graph, forbidden, chosen, objective))

RoundIn(f, repair, live, graph, forbidden) ==
  AfterColoring(f, repair, live, graph, forbidden, ColorOnce(f, live, graph, forbidden))

RoundFrom(f, repair, live) ==
  RoundIn(f, repair, live, Interference(f, live), Forbidden(f, live))

\* One round of GraphColoringRegisterAllocator::run: [f, repair, done].
AllocationRound(f, repair) == RoundFrom(f, repair, Intervals(f))
=============================================================================
