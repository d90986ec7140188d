---------------------------- MODULE ParallelCopy ----------------------------
(***************************************************************************)
(* The copies of a group take place at once: all sources are read before   *)
(* any destination is written.  PhiElimination (virtual registers) and     *)
(* PostRAParallelCopyResolver (physical ones) emit them one by one: first  *)
(* a copy whose destination no pending copy reads.  When there is none,    *)
(* the one saves a source in a new virtual register, the other aborts.     *)
(* Virtual registers are 1, 2, ...; physical registers are negative.       *)
(***************************************************************************)
EXTENDS Integers, Sequences, FiniteSets

VARIABLES
  virtualRegisters, \* how many createVirtualRegister has made
  pending,          \* the copies still to be emitted
  emitted,          \* the COPY instructions inserted so far
  aborted,
  group,            \* history: the copies of the group
  holds             \* history: whose value, from before the group, a register holds

copyVars == <<virtualRegisters, pending, emitted, aborted, group, holds>>

Copy(d, s) == [destination |-> d, source |-> s]
Copies == [destination : Int, source : Int]
Destinations(copies) == {copies[k].destination : k \in DOMAIN copies}
Sources(copies) == {copies[k].source : k \in DOMAIN copies}
Registers(copies) == Destinations(copies) \cup Sources(copies)

\* No copy writes what a later one reads.
InOrder(copies) ==
  \A j, k \in DOMAIN copies : j < k => copies[j].destination # copies[k].source

Apart(copies) ==
  \A j, k \in DOMAIN copies : copies[j].destination = copies[k].destination => j = k

\* The groups the two passes are given: the copies of the PHIs at the end of a
\* predecessor, or of arguments, under the colours RegAlloc chose.  An argument that
\* is not used may share the register of one that comes later.
IsGroup(copies) ==
  /\ copies \in Seq(Copies)
  /\ \/ Apart(copies) /\ Registers(copies) \subseteq 1 .. virtualRegisters
     \/ InOrder(copies) /\ \A r \in Registers(copies) : r < 0

\* A group is found: pending holds its copies.
Start(copies) ==
  /\ pending = <<>> /\ ~aborted
  /\ pending' = copies /\ group' = copies
  /\ emitted' = <<>>
  /\ holds' = [r \in Registers(copies) |-> r]
  /\ UNCHANGED <<virtualRegisters, aborted>>

Without(copies, n) ==
  [k \in 1 .. Len(copies) - 1 |-> IF k < n THEN copies[k] ELSE copies[k + 1]]

\* A candidate that may be emitted although a pending copy reads its destination.
Ready_any(n) == n \in DOMAIN pending

Ready(n) ==
  /\ n \in DOMAIN pending
  /\ \/ pending[n].destination = pending[n].source
     \/ pending[n].destination \notin Sources(pending)

\* std::list order: the first that is ready.
FirstReady(n) == Ready(n) /\ \A k \in 1 .. n - 1 : ~Ready(k)

Insert(copy) ==
  /\ emitted' = Append(emitted, copy)
  /\ holds' = [r \in DOMAIN holds \cup {copy.destination} |->
                 IF r = copy.destination THEN holds[copy.source] ELSE holds[r]]

EmitReady ==
  /\ ~aborted
  /\ \E n \in DOMAIN pending :
       /\ FirstReady(n)
       /\ pending' = Without(pending, n)
       /\ IF pending[n].destination = pending[n].source
          THEN UNCHANGED <<emitted, holds>>
          ELSE Insert(pending[n])
  /\ UNCHANGED <<virtualRegisters, aborted, group>>

\* Every pending copy's destination is still read by one of them.
Stuck == pending # <<>> /\ ~aborted /\ \A n \in DOMAIN pending : ~Ready(n)

\* The first of the pending copies goes on reading the saved register.
Redirected_notFirst(from, to) ==
  [k \in DOMAIN pending |->
     IF k > 1 /\ pending[k].source = from THEN [pending[k] EXCEPT !.source = to] ELSE pending[k]]

\* All pending copies that read the saved register now read the temporary.
Redirected(from, to) ==
  [k \in DOMAIN pending |->
     IF pending[k].source = from THEN [pending[k] EXCEPT !.source = to] ELSE pending[k]]

SaveCycle ==
  /\ Stuck
  /\ pending[1].source > 0
  /\ LET temporary == virtualRegisters + 1 IN
       /\ virtualRegisters' = temporary
       /\ Insert(Copy(temporary, pending[1].source))
       /\ pending' = Redirected(pending[1].source, temporary)
  /\ UNCHANGED <<aborted, group>>

AbortOnCycle ==
  /\ Stuck
  /\ pending[1].source < 0
  /\ aborted' = TRUE
  /\ UNCHANGED <<virtualRegisters, pending, emitted, group, holds>>

BreakCycle == Stuck /\ IF pending[1].source > 0 THEN SaveCycle ELSE AbortOnCycle

CopyStep == EmitReady \/ BreakCycle

\* The other passes create virtual registers too.
OtherPasses ==
  /\ virtualRegisters' \in Nat /\ virtualRegisters' >= virtualRegisters
  /\ UNCHANGED <<pending, emitted, aborted, group, holds>>

CopyInit ==
  /\ virtualRegisters \in Nat
  /\ pending = <<>> /\ group = <<>> /\ emitted = <<>> /\ holds = <<>>
  /\ aborted = FALSE

CopyNext == (IsGroup(group') /\ Start(group')) \/ CopyStep \/ OtherPasses

CopySpec == CopyInit /\ [][CopyNext]_copyVars

-----------------------------------------------------------------------------
(* Properties.                                                             *)

\* Once all copies are emitted, in the order the list and the temporaries gave,
\* every destination holds what the source of its last copy held before the group,
\* and a register that is no destination holds what it held (parallel_copy.cpp:111).
GroupIsSimultaneous ==
  pending = <<>> =>
    \A r \in Registers(group) :
      LET writers == {k \in DOMAIN group : group[k].destination = r} IN
        /\ writers = {} => holds[r] = r
        /\ \A k \in writers : (\A j \in writers : j <= k) => holds[r] = group[k].source

\* The resolver has no temporary and needs none: it never meets a cycle of
\* physical registers (parallel_copy.cpp:227).
NeverAborts == ~aborted

\* How many steps the loop over the pending copies has still to take at most: one for
\* every copy, and one for every register that is both read and written.
CopiesLeft == Len(pending) + Cardinality(Sources(pending) \cap Destinations(pending))

\* The loop ends: a step emits one of the copies, or saves a register, and a register
\* that has been saved, or a temporary, is never saved again (parallel_copy.cpp:121).
OrderingEnds ==
  [][pending # <<>> /\ <<pending, emitted>>' # <<pending, emitted>>
     => CopiesLeft' \in 0 .. CopiesLeft - 1]_copyVars
=============================================================================
