--------------------------- MODULE MachineSchedule ---------------------------
(***************************************************************************)
(* A53MachineScheduler (scheduler.cpp): list scheduling of the regions     *)
(* between barriers, by latency, or by register pressure where that order  *)
(* is strictly better.  It runs before and after register allocation.      *)
(***************************************************************************)
EXTENDS MachineAnalysis

SchedulingBarrier(i) ==
  IsTerminator(i) \/ IsCall(i) \/ IsPseudo(i) \/ HasSideEffects(i) \/ i.group # 0

MinimumRegionSize == 3

(* The dependences of a region, a sequence of instructions.                *)

\* The registers of the node, with the flags as one more.
NZCV == -99
NodeDefs(i) == ({i.def} \ {0}) \cup (IF DefinesFlags(i) THEN {NZCV} ELSE {})
NodeUses(i) == Reads(i) \cup (IF UsesFlags(i) THEN {NZCV} ELSE {})

\* The register an access with an immediate offset is relative to.
Base(i) == Last(i.uses)

\* Accesses of one base at different offsets are apart.
MemoryMayAlias(i, j) == Base(i) # Base(j) \/ i.imm = j.imm

Depends(i, j) ==
  \/ NodeDefs(i) \cap NodeUses(j) # {} \/ NodeUses(i) \cap NodeDefs(j) # {}
  \/ NodeDefs(i) \cap NodeDefs(j) # {}
  \/ /\ MayLoad(i) \/ MayStore(i)
     /\ MayLoad(j) \/ MayStore(j)
     /\ MayStore(i) \/ MayStore(j)
     /\ MemoryMayAlias(i, j)

\* [n |-> the later nodes that depend on n].
Dependents(region) ==
  Table([n \in DOMAIN region |-> {m \in n + 1 .. Len(region) : Depends(region[n], region[m])}])

\* [n |-> the latency of the longest chain of dependents from n on], from the last node.
Heights(region, deps) ==
  FoldLeft(LAMBDA h, n : (n :> Latency(region[n]) + Max({0} \cup {h[m] : m \in deps[n]})) @@ h,
           <<>>, Reverse([n \in DOMAIN region |-> n]))

\* The virtual registers live once the nodes of done have run.
LiveWith(region, out, done) ==
  LET in == LiveBefore("virtual", region, 1, out)
      written == UNION {Defs("virtual", region[n]) : n \in done}
      needed == out \cup UNION {Uses("virtual", region[n]) : n \in DOMAIN region \ done}
  IN  (in \cup written) \cap needed

Capacity == Cardinality(Allocatable)
Excess(region, out, done) ==
  Max({0, Cardinality(LiveWith(region, out, done)) - Capacity})

\* buildOrder: the nodes still to place after those of order.
RECURSIVE Order(_, _, _, _, _, _)
Order(region, deps, height, out, pressureAware, order) ==
  LET done == ToSet(order)
      ready == {n \in DOMAIN region \ done : \A m \in DOMAIN region \ done : n \notin deps[m]}
      relevant == /\ pressureAware
                  /\ \/ Excess(region, out, done) > 0
                     \/ \E n \in ready : Excess(region, out, done \cup {n}) > 0
      excess == Table([n \in ready |-> IF relevant THEN Excess(region, out, done \cup {n}) ELSE 0])
      previous == IF order = <<>> THEN "None" ELSE Resource(region[Last(order)])
      score == Table([n \in ready |-> 16 * height[n] + (IF MayLoad(region[n]) THEN 8 ELSE 0)
                                        + (IF Resource(region[n]) # previous THEN 2 ELSE 0)])
      Better(n, m) == \/ excess[n] < excess[m]
                      \/ excess[n] = excess[m] /\ score[n] > score[m]
                      \/ excess[n] = excess[m] /\ score[n] = score[m] /\ n < m
      best == CHOOSE n \in ready : \A m \in ready \ {n} : Better(n, m)
  IN  IF ready = {} THEN order
      ELSE Order(region, deps, height, out, pressureAware, Append(order, best))

\* PressureMetric: the sum of the pressures, the highest excess, the sum of the excesses.
Metric(region, out, order) ==
  LET Done(k) == ToSet(SubSeq(order, 1, k))
      steps == 0 .. Len(order)
  IN  [area |-> MapThenSumSet(LAMBDA k : Cardinality(LiveWith(region, out, Done(k))), steps),
       peak |-> Max({Excess(region, out, Done(k)) : k \in steps}),
       excess |-> MapThenSumSet(LAMBDA k : Excess(region, out, Done(k)), steps)]

StrictlyBetter(a, b) ==
  /\ a.area <= b.area /\ a.peak <= b.peak /\ a.excess <= b.excess
  /\ a.peak < b.peak \/ a.excess < b.excess

\* scheduleRegion; known is FALSE after allocation, when no pressure is considered.
ScheduleRegion(region, known, out) ==
  LET deps == Dependents(region)
      height == Heights(region, deps)
      byLatency == Order(region, deps, height, out, FALSE, <<>>)
      byPressure == Order(region, deps, height, out, TRUE, <<>>)
      baseline == Metric(region, out, byLatency)
      order == IF /\ known /\ baseline.peak > 0
                  /\ StrictlyBetter(Metric(region, out, byPressure), baseline)
               THEN byPressure ELSE byLatency
  IN  IF Len(region) < MinimumRegionSize THEN region
      ELSE [n \in DOMAIN region |-> region[order[n]]]

\* The regions of a block: the intervals between its barriers.
RegionBounds(code) ==
  LET barriers == Ascending({0, Len(code) + 1} \cup {k \in DOMAIN code : SchedulingBarrier(code[k])})
  IN  [n \in 1 .. Len(barriers) - 1 |-> <<barriers[n] + 1, barriers[n + 1] - 1>>]

Schedule(f) ==
  LET known == "NoVRegs" \notin f.properties
      out == IF known THEN LiveOut("virtual", f) ELSE [b \in Blocks(f) |-> {}]
      Region(b, bound) ==
        ScheduleRegion(SubSeq(f.code[b], bound[1], bound[2]), known,
                       LiveBefore("virtual", f.code[b], bound[2] + 1, out[b]))
      Barrier(b, bound) == SubSeq(f.code[b], bound[2] + 1, Min({bound[2] + 1, Len(f.code[b])}))
      New(b) == FlattenSeq([n \in DOMAIN RegionBounds(f.code[b]) |->
                  Region(b, RegionBounds(f.code[b])[n]) \o Barrier(b, RegionBounds(f.code[b])[n])])
  IN  Changed(f, [f EXCEPT !.code = [b \in DOMAIN @ |-> IF b \in Blocks(f) THEN New(b) ELSE @[b]]])
=============================================================================
