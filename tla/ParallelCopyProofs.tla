------------------------- MODULE ParallelCopyProofs -------------------------
(***************************************************************************)
(* For groups of any length: emitting the copies one by one has the effect *)
(* of doing them at once, with every number of cycles among virtual        *)
(* registers; and a group of physical registers in which no copy writes    *)
(* what a later one reads is emitted as it stands, without a temporary.    *)
(***************************************************************************)
EXTENDS ParallelCopy, FiniteSetTheorems, TLAPS

CopyTypeOK ==
  /\ virtualRegisters \in Nat
  /\ pending \in Seq(Copies)
  /\ group \in Seq(Copies)
  /\ aborted \in BOOLEAN

\* What a register must hold in the end.
Goal(copies, d, s) == \E k \in DOMAIN copies : copies[k].destination = d /\ copies[k].source = s

\* The pending copies: each has its own destination, one of the group's, and
\* reads a register that holds what that destination must get.
PendingGoals ==
  \A n \in DOMAIN pending :
    /\ pending[n].source \in DOMAIN holds
    /\ Goal(group, pending[n].destination, holds[pending[n].source])

\* A destination that is no longer pending has got its value.
DoneGoals ==
  \A k \in DOMAIN group :
    group[k].destination \notin Destinations(pending)
    => holds[group[k].destination] = group[k].source

Untouched ==
  \A r \in Registers(group) \ Destinations(group) : holds[r] = r

\* A group of virtual registers; the temporaries are new.
AllVirtual ==
  /\ Registers(group) \subseteq DOMAIN holds
  /\ Registers(pending) \subseteq 1 .. virtualRegisters
  /\ Registers(group) \subseteq 1 .. virtualRegisters

VirtualInv ==
  /\ CopyTypeOK
  /\ PendingGoals
  /\ Apart(pending)
  /\ Apart(group)
  /\ DoneGoals
  /\ Untouched
  /\ AllVirtual
  /\ ~aborted

\* A group of physical registers is emitted as it stands: what is pending is its end.
Emitted == Len(group) - Len(pending)

\* Among the first m copies of the group, k is the last to write r.
LastWriter(m, k, r) ==
  group[k].destination = r /\ \A j \in 1 .. m : k < j => group[j].destination # r

HeldAfter(m) ==
  \A r \in Registers(group) :
    \/ \E k \in 1 .. m : LastWriter(m, k, r) /\ holds[r] = group[k].source
    \/ (\A k \in 1 .. m : group[k].destination # r) /\ holds[r] = r

OrderedInv ==
  /\ CopyTypeOK
  /\ InOrder(group) /\ \A r \in Registers(group) : r < 0
  /\ Emitted \in 0 .. Len(group)
  /\ \A j \in DOMAIN pending : pending[j] = group[Emitted + j]
  /\ DOMAIN holds = Registers(group)
  /\ HeldAfter(Emitted)
  /\ ~aborted

IInv == VirtualInv \/ OrderedInv

-----------------------------------------------------------------------------
(* Erasing a copy from the list.                                           *)

LEMMA WithoutFacts ==
  ASSUME NEW copies \in Seq(Copies), NEW n \in DOMAIN copies
  PROVE  /\ Without(copies, n) \in Seq(Copies)
         /\ DOMAIN copies \subseteq Int /\ DOMAIN Without(copies, n) \subseteq Int
         /\ \A j \in DOMAIN Without(copies, n) :
              \E k \in DOMAIN copies :
                k # n /\ Without(copies, n)[j] = copies[k] /\ k = (IF j < n THEN j ELSE j + 1)
         /\ \A k \in DOMAIN copies :
              k # n => \E j \in DOMAIN Without(copies, n) : Without(copies, n)[j] = copies[k]
<1> DEFINE w == Without(copies, n)
<1>1. /\ Len(copies) \in Nat /\ DOMAIN copies = 1 .. Len(copies)
      /\ n \in 1 .. Len(copies)
      /\ \A k \in 1 .. Len(copies) : copies[k] \in Copies
  OBVIOUS
<1>2. DOMAIN w = 1 .. Len(copies) - 1
  BY DEF Without
<1>3. \A j \in 1 .. Len(copies) - 1 : w[j] \in Copies
  BY <1>1 DEF Without
<1>4. w \in Seq(Copies)
  <2>1. w = [k \in 1 .. Len(copies) - 1 |-> w[k]]
    BY DEF Without
  <2>2. Len(copies) - 1 \in Nat
    BY <1>1
  <2> QED
    BY <2>1, <2>2, <1>3
<1>5. ASSUME NEW j \in DOMAIN w
      PROVE  \E k \in DOMAIN copies :
               k # n /\ w[j] = copies[k] /\ k = (IF j < n THEN j ELSE j + 1)
  BY <1>1, <1>2 DEF Without
<1>6. ASSUME NEW k \in DOMAIN copies, k # n
      PROVE  \E j \in DOMAIN w : w[j] = copies[k]
  <2>1. CASE k < n
    <3>1. k \in DOMAIN w /\ w[k] = copies[k]
      BY <1>1, <1>2, <2>1 DEF Without
    <3> QED
      BY <3>1
  <2>2. CASE k > n
    <3>1. k - 1 \in DOMAIN w /\ w[k - 1] = copies[k]
      BY <1>1, <1>2, <2>2 DEF Without
    <3> QED
      BY <3>1
  <2> QED
    BY <1>1, <1>6, <2>1, <2>2
<1>7. DOMAIN copies \subseteq Int /\ DOMAIN w \subseteq Int
  BY <1>1, <1>2
<1> QED
  BY <1>4, <1>5, <1>6, <1>7

\* In a group in order the first copy is always ready.
LEMMA FirstIsReady ==
  ASSUME pending \in Seq(Copies), pending # <<>>, InOrder(pending)
  PROVE  Ready(1)
<1>1. 1 \in DOMAIN pending /\ \A k \in DOMAIN pending : k = 1 \/ 1 < k
  OBVIOUS
<1>2. ASSUME pending[1].destination # pending[1].source
      PROVE  pending[1].destination \notin Sources(pending)
  BY <1>1, <1>2 DEF InOrder, Sources
<1> QED
  BY <1>1, <1>2 DEF Ready

-----------------------------------------------------------------------------
(* The steps.                                                              *)

LEMMA StartStep ==
  ASSUME IInv, IsGroup(group'), Start(group')
  PROVE  IInv'
<1>1. /\ pending' = group' /\ holds' = [r \in Registers(group') |-> r]
      /\ virtualRegisters' = virtualRegisters /\ aborted' = aborted /\ ~aborted
  BY DEF Start
<1>2. CopyTypeOK' /\ ~aborted'
  BY <1>1 DEF IInv, VirtualInv, OrderedInv, CopyTypeOK, IsGroup
<1>3. \A k \in DOMAIN group' :
        group'[k].source \in Registers(group') /\ group'[k].destination \in Registers(group')
  BY DEF Registers, Sources, Destinations
<1>4. CASE Apart(group') /\ Registers(group') \subseteq 1 .. virtualRegisters
  <2>1. PendingGoals'
    BY <1>1, <1>3 DEF PendingGoals, Goal
  <2>2. DoneGoals' /\ Untouched'
    BY <1>1, <1>3 DEF DoneGoals, Untouched, Destinations
  <2>3. AllVirtual' /\ Apart(pending)' /\ Apart(group)'
    BY <1>1, <1>4 DEF AllVirtual, Apart
  <2> QED
    BY <1>2, <2>1, <2>2, <2>3 DEF IInv, VirtualInv
<1>5. CASE InOrder(group') /\ \A r \in Registers(group') : r < 0
  <2>1. group' \in Seq(Copies) /\ Len(group') \in Nat
    BY DEF IsGroup
  <2>2. Emitted' = 0
    BY <1>1, <2>1 DEF Emitted
  <2>3. \A j \in DOMAIN pending' : pending'[j] = group'[0 + j]
    BY <1>1, <2>1
  <2>4. HeldAfter(0)'
    BY <1>1 DEF HeldAfter
  <2> QED
    BY <1>1, <1>2, <1>5, <2>1, <2>2, <2>3, <2>4 DEF IInv, OrderedInv
<1> QED
  BY <1>4, <1>5 DEF IsGroup

LEMMA EmitReadyVirtual ==
  ASSUME VirtualInv, EmitReady
  PROVE  VirtualInv'
<1>1. PICK n \in DOMAIN pending :
        /\ FirstReady(n)
        /\ pending' = Without(pending, n)
        /\ IF pending[n].destination = pending[n].source
           THEN UNCHANGED <<emitted, holds>>
           ELSE Insert(pending[n])
  BY DEF EmitReady
<1>2. virtualRegisters' = virtualRegisters /\ aborted' = aborted /\ group' = group
  BY DEF EmitReady
<1> DEFINE d == pending[n].destination
           s == pending[n].source
<1>3. /\ pending \in Seq(Copies) /\ pending' \in Seq(Copies)
      /\ DOMAIN pending \subseteq Int /\ DOMAIN pending' \subseteq Int
      /\ \A j \in DOMAIN pending' :
           \E k \in DOMAIN pending :
             k # n /\ pending'[j] = pending[k] /\ k = (IF j < n THEN j ELSE j + 1)
      /\ \A k \in DOMAIN pending : k # n => \E j \in DOMAIN pending' : pending'[j] = pending[k]
  BY <1>1, WithoutFacts DEF VirtualInv, CopyTypeOK
<1>4. Ready(n) /\ n \in DOMAIN pending
  BY <1>1 DEF FirstReady
\* The register written is read by no other pending copy.
<1>5. \/ d = s /\ holds' = holds
      \/ /\ d \notin Sources(pending)
         /\ holds' = [r \in DOMAIN holds \cup {d} |-> IF r = d THEN holds[s] ELSE holds[r]]
  BY <1>1, <1>4 DEF Ready, Insert
<1>6. CopyTypeOK' /\ ~aborted'
  BY <1>2, <1>3 DEF VirtualInv, CopyTypeOK
<1>7. Apart(group)'
  BY <1>2 DEF VirtualInv, Apart
<1>8. Apart(pending)'
  <2> SUFFICES ASSUME NEW m1 \in DOMAIN pending', NEW m2 \in DOMAIN pending',
                      pending'[m1].destination = pending'[m2].destination
               PROVE  m1 = m2
    BY DEF Apart
  <2>1. PICK k1 \in DOMAIN pending :
          pending'[m1] = pending[k1] /\ k1 = (IF m1 < n THEN m1 ELSE m1 + 1)
    BY <1>3
  <2>2. PICK k2 \in DOMAIN pending :
          pending'[m2] = pending[k2] /\ k2 = (IF m2 < n THEN m2 ELSE m2 + 1)
    BY <1>3
  <2>3. k1 = k2
    BY <2>1, <2>2 DEF VirtualInv, Apart
  <2>4. m1 \in Int /\ m2 \in Int /\ n \in Int
    BY <1>3, <1>4
  <2> QED
    BY <2>1, <2>2, <2>3, <2>4
<1>9. PendingGoals'
  <2> SUFFICES ASSUME NEW m \in DOMAIN pending'
               PROVE  /\ pending'[m].source \in DOMAIN holds'
                      /\ Goal(group', pending'[m].destination, holds'[pending'[m].source])
    BY DEF PendingGoals
  <2>1. PICK k \in DOMAIN pending : k # n /\ pending'[m] = pending[k]
    BY <1>3
  <2>2. /\ pending[k].source \in DOMAIN holds
        /\ Goal(group, pending[k].destination, holds[pending[k].source])
    BY DEF VirtualInv, PendingGoals
  <2>3. pending[k].source \in Sources(pending)
    BY DEF Sources
  <2>4. pending[k].source \in DOMAIN holds' /\ holds'[pending[k].source] = holds[pending[k].source]
    BY <1>5, <2>2, <2>3
  <2> QED
    BY <1>2, <2>1, <2>2, <2>4
\* The destination written now has its value.
<1>10. holds'[d] = holds[s] /\ d \in DOMAIN holds' /\ Goal(group, d, holds[s])
  <2>1. s \in DOMAIN holds /\ Goal(group, d, holds[s])
    BY <1>4 DEF VirtualInv, PendingGoals
  <2> QED
    BY <1>5, <2>1
<1>11. \A r \in DOMAIN holds : r \in DOMAIN holds' /\ (r # d => holds'[r] = holds[r])
  BY <1>5
<1>12. DoneGoals'
  <2> SUFFICES ASSUME NEW k \in DOMAIN group,
                      group[k].destination \notin Destinations(pending')
               PROVE  holds'[group[k].destination] = group[k].source
    BY <1>2 DEF DoneGoals
  <2>1. CASE group[k].destination = d
    <3>1. PICK m \in DOMAIN group : group[m].destination = d /\ group[m].source = holds[s]
      BY <1>10 DEF Goal
    <3>2. m = k
      BY <2>1, <3>1 DEF VirtualInv, Apart
    <3> QED
      BY <1>10, <2>1, <3>1, <3>2
  <2>2. CASE group[k].destination # d
    <3>1. group[k].destination \notin Destinations(pending)
      <4> SUFFICES ASSUME NEW m \in DOMAIN pending,
                          pending[m].destination = group[k].destination
                   PROVE  FALSE
        BY DEF Destinations
      <4>1. PICK j \in DOMAIN pending' : pending'[j] = pending[m]
        BY <1>3, <2>2
      <4> QED
        BY <4>1 DEF Destinations
    <3>2. group[k].destination \in DOMAIN holds
      BY DEF VirtualInv, AllVirtual, Registers, Destinations
    <3> QED
      BY <1>11, <2>2, <3>1, <3>2 DEF VirtualInv, DoneGoals
  <2> QED
    BY <2>1, <2>2
<1>13. Untouched'
  <2> SUFFICES ASSUME NEW r \in Registers(group), r \notin Destinations(group)
               PROVE  holds'[r] = r
    BY <1>2 DEF Untouched
  <2>1. r # d
    BY <1>10 DEF Goal, Destinations
  <2>2. holds[r] = r
    BY DEF VirtualInv, Untouched
  <2>3. r \in DOMAIN holds
    BY DEF VirtualInv, AllVirtual
  <2> QED
    BY <1>11, <2>1, <2>2, <2>3
<1>14. AllVirtual'
  <2>1. Registers(pending') \subseteq Registers(pending)
    BY <1>3 DEF Registers, Sources, Destinations
  <2>2. Registers(group') \subseteq DOMAIN holds'
    BY <1>2, <1>11 DEF VirtualInv, AllVirtual
  <2> QED
    BY <1>2, <2>1, <2>2 DEF VirtualInv, AllVirtual
<1> QED
  BY <1>6, <1>7, <1>8, <1>9, <1>12, <1>13, <1>14 DEF VirtualInv

LEMMA SaveCycleVirtual ==
  ASSUME VirtualInv, SaveCycle
  PROVE  VirtualInv'
<1> DEFINE from == pending[1].source
           to == virtualRegisters + 1
<1>1. /\ virtualRegisters' = to /\ aborted' = aborted /\ group' = group
      /\ pending' = Redirected(from, to)
      /\ holds' = [r \in DOMAIN holds \cup {to} |-> IF r = to THEN holds[from] ELSE holds[r]]
      /\ pending # <<>> /\ from > 0
  BY DEF SaveCycle, Insert, Copy, Stuck
<1>2. /\ virtualRegisters \in Nat /\ pending \in Seq(Copies)
      /\ 1 \in DOMAIN pending
  BY <1>1 DEF VirtualInv, CopyTypeOK
<1>3. /\ DOMAIN pending' = DOMAIN pending
      /\ \A k \in DOMAIN pending :
           /\ pending'[k].destination = pending[k].destination
           /\ pending'[k].source = (IF pending[k].source = from THEN to ELSE pending[k].source)
           /\ pending'[k] \in Copies
  <2>1. /\ DOMAIN pending' = DOMAIN pending
        /\ \A k \in DOMAIN pending :
             pending'[k] = IF pending[k].source = from
                           THEN [pending[k] EXCEPT !.source = to] ELSE pending[k]
    BY <1>1 DEF Redirected
  <2>2. to \in Int
    BY <1>2
  <2>3. ASSUME NEW k \in DOMAIN pending
        PROVE  /\ pending'[k].destination = pending[k].destination
               /\ pending'[k].source = (IF pending[k].source = from THEN to ELSE pending[k].source)
               /\ pending'[k] \in Copies
    <3>1. pending[k] \in Copies
      BY <1>2
    <3>2. PICK d, s \in Int : pending[k] = [destination |-> d, source |-> s]
      BY <3>1 DEF Copies
    <3> QED
      BY <2>1, <2>2, <3>2 DEF Copies
  <2> QED
    BY <2>1, <2>3
<1>4. pending' \in Seq(Copies)
  <2>1. pending' = [k \in 1 .. Len(pending) |-> pending'[k]]
    BY <1>1, <1>2 DEF Redirected
  <2> QED
    BY <1>2, <1>3, <2>1
\* A virtual source: the group is one of virtual registers.
<1>5. /\ Registers(pending) \subseteq 1 .. virtualRegisters
      /\ Registers(group) \subseteq 1 .. virtualRegisters
  <2>1. from \in Registers(pending)
    BY <1>2 DEF Registers, Sources
  <2>2. from \in Int /\ ~(from < 0)
    <3>1. pending[1] \in Copies
      BY <1>2
    <3>2. from \in Int
      BY <3>1 DEF Copies
    <3> QED
      BY <1>1, <3>2
  <2> QED
    BY <2>1, <2>2 DEF VirtualInv, AllVirtual
<1>6. CopyTypeOK' /\ ~aborted'
  BY <1>1, <1>2, <1>4 DEF VirtualInv, CopyTypeOK
<1>7. Apart(pending)' /\ Apart(group)'
  BY <1>1, <1>3 DEF VirtualInv, Apart
<1>8. to \notin Registers(group) /\ to \notin Registers(pending)
  BY <1>2, <1>5
<1>9. \A r \in DOMAIN holds : r \in DOMAIN holds' /\ (r # to => holds'[r] = holds[r])
  BY <1>1
<1>10. PendingGoals'
  <2> SUFFICES ASSUME NEW k \in DOMAIN pending
               PROVE  /\ pending'[k].source \in DOMAIN holds'
                      /\ holds'[pending'[k].source] = holds[pending[k].source]
                      /\ Goal(group, pending[k].destination, holds[pending[k].source])
    BY <1>1, <1>3 DEF PendingGoals
  <2>1. /\ pending[k].source \in DOMAIN holds
        /\ Goal(group, pending[k].destination, holds[pending[k].source])
    BY DEF VirtualInv, PendingGoals
  <2>2. pending[k].source # to
    BY <1>8 DEF Registers, Sources
  <2>3. to \in DOMAIN holds' /\ holds'[to] = holds[from]
    BY <1>1
  <2> QED
    BY <1>3, <1>9, <2>1, <2>2, <2>3
<1>11. DoneGoals'
  <2>1. Destinations(pending') = Destinations(pending)
    BY <1>3 DEF Destinations
  <2>2. \A k \in DOMAIN group : group[k].destination \in Registers(group)
    BY DEF Registers, Destinations
  <2> QED
    BY <1>1, <1>8, <1>9, <2>1, <2>2 DEF VirtualInv, DoneGoals, AllVirtual
<1>12. Untouched'
  BY <1>1, <1>8, <1>9 DEF VirtualInv, Untouched, AllVirtual
<1>13. AllVirtual'
  <2>1. Registers(pending') \subseteq Registers(pending) \cup {to}
    BY <1>3 DEF Registers, Sources, Destinations
  <2>2. 1 .. virtualRegisters \subseteq 1 .. to /\ to \in 1 .. to
    BY <1>2
  <2> QED
    BY <1>1, <1>5, <1>9, <2>1, <2>2 DEF VirtualInv, AllVirtual
<1> QED
  BY <1>6, <1>7, <1>10, <1>11, <1>12, <1>13 DEF VirtualInv

\* What is pending of an ordered group is in order too, so its first copy is ready.
LEMMA OrderedFacts ==
  ASSUME OrderedInv, pending # <<>>, NEW m, m = Emitted
  PROVE  /\ pending \in Seq(Copies) /\ group \in Seq(Copies)
         /\ m \in 0 .. Len(group) /\ Len(pending) = Len(group) - m
         /\ Len(pending) \in Nat /\ Len(group) \in Nat
         /\ \A j \in DOMAIN pending : pending[j] = group[m + j]
         /\ Ready(1) /\ 1 \in DOMAIN pending
<1>1. /\ pending \in Seq(Copies) /\ group \in Seq(Copies)
      /\ m \in 0 .. Len(group) /\ Len(pending) = Len(group) - m
      /\ Len(pending) \in Nat /\ Len(group) \in Nat
      /\ \A j \in DOMAIN pending : pending[j] = group[m + j]
  BY DEF OrderedInv, CopyTypeOK, Emitted
<1>2. InOrder(pending)
  <2> SUFFICES ASSUME NEW j \in DOMAIN pending, NEW k \in DOMAIN pending, j < k
               PROVE  pending[j].destination # pending[k].source
    BY DEF InOrder
  <2>1. m + j \in DOMAIN group /\ m + k \in DOMAIN group /\ m + j < m + k
    BY <1>1
  <2>2. group[m + j].destination # group[m + k].source
    BY <2>1 DEF OrderedInv, InOrder
  <2> QED
    BY <1>1, <2>2
<1>3. Ready(1) /\ 1 \in DOMAIN pending
  BY <1>1, <1>2, FirstIsReady
<1> QED
  BY <1>1, <1>3

\* In an ordered group the first pending copy is emitted.
LEMMA EmitReadyOrdered ==
  ASSUME OrderedInv, EmitReady
  PROVE  OrderedInv'
<1>0. PICK m : m = Emitted
  OBVIOUS
<1>1. PICK n \in DOMAIN pending :
        /\ FirstReady(n)
        /\ pending' = Without(pending, n)
        /\ IF pending[n].destination = pending[n].source
           THEN UNCHANGED <<emitted, holds>>
           ELSE Insert(pending[n])
  BY DEF EmitReady
<1>2. virtualRegisters' = virtualRegisters /\ aborted' = aborted /\ group' = group
  BY DEF EmitReady
<1>3. /\ pending \in Seq(Copies) /\ group \in Seq(Copies)
      /\ m \in 0 .. Len(group) /\ Len(pending) = Len(group) - m
      /\ Len(pending) \in Nat /\ Len(group) \in Nat
      /\ \A j \in DOMAIN pending : pending[j] = group[m + j]
      /\ Ready(1) /\ 1 \in DOMAIN pending
  BY <1>0, <1>1, OrderedFacts
<1>4. HeldAfter(m) /\ DOMAIN holds = Registers(group) /\ InOrder(group)
  BY <1>0 DEF OrderedInv
<1>5. n = 1
  <2>1. ~(1 \in 1 .. n - 1)
    BY <1>1, <1>3 DEF FirstReady
  <2> QED
    BY <1>3, <2>1
<1> DEFINE d == pending[1].destination
           s == pending[1].source
<1>6. m + 1 \in DOMAIN group /\ pending[1] = group[m + 1] /\ 1 \in DOMAIN pending
  BY <1>3
<1>7. /\ pending' = [k \in 1 .. Len(pending) - 1 |-> pending[k + 1]]
      /\ pending' \in Seq(Copies)
  <2>1. pending' = [k \in 1 .. Len(pending) - 1 |-> pending[k + 1]]
    BY <1>1, <1>3, <1>5 DEF Without
  <2> QED
    BY <1>1, <1>5, <2>1, WithoutFacts, <1>3
<1>8. Len(pending') = Len(pending) - 1 /\ Emitted' = m + 1
  BY <1>2, <1>3, <1>7 DEF Emitted
<1>9. \A j \in DOMAIN pending' : pending'[j] = group'[Emitted' + j]
  <2> SUFFICES ASSUME NEW j \in 1 .. Len(pending) - 1
               PROVE  pending'[j] = group[m + 1 + j]
    BY <1>2, <1>3, <1>7, <1>8
  <2>1. j + 1 \in DOMAIN pending /\ m + (j + 1) = m + 1 + j
    BY <1>3
  <2>2. pending[j + 1] = group[m + (j + 1)]
    BY <1>3, <2>1
  <2> QED
    BY <1>7, <2>1, <2>2
\* No copy before it has written its source.
<1>10. s \in Registers(group) /\ d \in Registers(group) /\ holds[s] = s
  <2>1. s \in Registers(group) /\ d \in Registers(group)
    BY <1>6 DEF Registers, Sources, Destinations
  <2>2. ASSUME NEW k \in 1 .. m
        PROVE  group[k].destination # s
    <3>1. k \in DOMAIN group /\ k < m + 1
      BY <1>3
    <3> QED
      BY <1>4, <1>6, <3>1 DEF InOrder
  <2> QED
    BY <1>4, <2>1, <2>2 DEF HeldAfter, LastWriter
<1>11. /\ DOMAIN holds' = DOMAIN holds
       /\ \A r \in DOMAIN holds : holds'[r] = (IF r = d THEN s ELSE holds[r])
  <2>1. CASE d = s
    BY <1>1, <1>5, <1>10, <2>1
  <2>2. CASE d # s
    BY <1>1, <1>4, <1>5, <1>10, <2>2 DEF Insert
  <2> QED
    BY <2>1, <2>2
<1>12. HeldAfter(m + 1)'
  <2> SUFFICES ASSUME NEW r \in Registers(group)
               PROVE  \/ \E k \in 1 .. m + 1 : /\ LastWriter(m + 1, k, r)
                                                /\ holds'[r] = group[k].source
                      \/ (\A k \in 1 .. m + 1 : group[k].destination # r) /\ holds'[r] = r
    BY <1>2 DEF HeldAfter, LastWriter
  <2>1. CASE r = d
    <3>1. m + 1 \in 1 .. m + 1 /\ \A j \in 1 .. m + 1 : ~(m + 1 < j)
      BY <1>3
    <3>2. LastWriter(m + 1, m + 1, r)
      BY <1>6, <2>1, <3>1 DEF LastWriter
    <3>3. holds'[r] = group[m + 1].source
      BY <1>4, <1>6, <1>10, <1>11, <2>1
    <3> QED
      BY <3>1, <3>2, <3>3
  <2>2. CASE r # d
    <3>1. holds'[r] = holds[r]
      BY <1>4, <1>11, <2>2
    <3>2. \A j \in 1 .. m + 1 : j \in 1 .. m \/ j = m + 1
      BY <1>3
    <3>3. 1 .. m \subseteq 1 .. m + 1
      BY <1>3
    <3>4. CASE \E k \in 1 .. m : LastWriter(m, k, r) /\ holds[r] = group[k].source
      <4>1. PICK k \in 1 .. m : LastWriter(m, k, r) /\ holds[r] = group[k].source
        BY <3>4
      <4>2. LastWriter(m + 1, k, r)
        BY <1>6, <2>2, <3>2, <4>1 DEF LastWriter
      <4> QED
        BY <3>1, <3>3, <4>1, <4>2
    <3>5. CASE (\A k \in 1 .. m : group[k].destination # r) /\ holds[r] = r
      BY <1>6, <2>2, <3>1, <3>2, <3>5
    <3> QED
      BY <1>4, <3>4, <3>5 DEF HeldAfter
  <2> QED
    BY <2>1, <2>2
<1>13. CopyTypeOK' /\ ~aborted'
  BY <1>2, <1>7 DEF OrderedInv, CopyTypeOK
<1>14. Emitted' \in 0 .. Len(group')
  BY <1>2, <1>3, <1>6, <1>8
<1>15. DOMAIN holds' = Registers(group')
  BY <1>2, <1>4, <1>11
<1>16. HeldAfter(Emitted)'
  BY <1>8, <1>12 DEF HeldAfter, LastWriter
<1> QED
  BY <1>2, <1>9, <1>13, <1>14, <1>15, <1>16 DEF OrderedInv

\* Of an ordered group something is always ready.
LEMMA NeverStuckOrdered ==
  ASSUME OrderedInv
  PROVE  ~Stuck
<1>1. PICK m : m = Emitted
  OBVIOUS
<1>2. pending # <<>> => Ready(1) /\ 1 \in DOMAIN pending
  BY <1>1, OrderedFacts
<1> QED
  BY <1>2 DEF Stuck

LEMMA AbortNever ==
  ASSUME IInv
  PROVE  ~AbortOnCycle
<1>1. CASE VirtualInv
  <2> SUFFICES ASSUME AbortOnCycle
               PROVE  FALSE
    OBVIOUS
  <2>1. pending # <<>> /\ pending[1].source < 0 /\ pending \in Seq(Copies) /\ virtualRegisters \in Nat
    BY <1>1 DEF AbortOnCycle, Stuck, VirtualInv, CopyTypeOK
  <2>2. pending[1].source \in 1 .. virtualRegisters
    BY <1>1, <2>1 DEF VirtualInv, AllVirtual, Registers, Sources
  <2> QED
    BY <2>1, <2>2
<1>2. CASE OrderedInv
  BY <1>2, NeverStuckOrdered DEF AbortOnCycle
<1> QED
  BY <1>1, <1>2 DEF IInv

LEMMA OtherPassesStep ==
  ASSUME IInv, OtherPasses
  PROVE  IInv'
<1>1. /\ pending' = pending /\ aborted' = aborted /\ group' = group /\ holds' = holds
      /\ virtualRegisters' \in Nat /\ virtualRegisters' >= virtualRegisters
  BY DEF OtherPasses
<1>2. CASE VirtualInv
  <2>1. 1 .. virtualRegisters \subseteq 1 .. virtualRegisters'
    BY <1>1, <1>2 DEF VirtualInv, CopyTypeOK
  <2>2. AllVirtual'
    BY <1>1, <1>2, <2>1 DEF VirtualInv, AllVirtual
  <2>3. CopyTypeOK' /\ ~aborted'
    BY <1>1, <1>2 DEF VirtualInv, CopyTypeOK
  <2>4. PendingGoals' /\ DoneGoals' /\ Untouched'
    BY <1>1, <1>2 DEF VirtualInv, PendingGoals, DoneGoals, Untouched, Goal
  <2>5. Apart(pending)' /\ Apart(group)'
    BY <1>1, <1>2 DEF VirtualInv, Apart
  <2> QED
    BY <2>2, <2>3, <2>4, <2>5 DEF IInv, VirtualInv
<1>3. CASE OrderedInv
  <2>1. CopyTypeOK' /\ ~aborted' /\ Emitted' = Emitted
    BY <1>1, <1>3 DEF OrderedInv, CopyTypeOK, Emitted
  <2>2. HeldAfter(Emitted)'
    BY <1>1, <1>3, <2>1 DEF OrderedInv, HeldAfter, LastWriter
  <2> QED
    BY <1>1, <1>3, <2>1, <2>2 DEF IInv, OrderedInv
<1> QED
  BY <1>2, <1>3 DEF IInv

LEMMA StutterStep ==
  ASSUME IInv, UNCHANGED copyVars
  PROVE  IInv'
<1>1. virtualRegisters \in Nat
  BY DEF IInv, VirtualInv, OrderedInv, CopyTypeOK
<1>2. OtherPasses
  BY <1>1 DEF copyVars, OtherPasses
<1> QED
  BY <1>1, <1>2, OtherPassesStep

LEMMA CopyStepStep ==
  ASSUME IInv, CopyStep
  PROVE  IInv'
<1>1. CASE VirtualInv
  BY <1>1, EmitReadyVirtual, SaveCycleVirtual, AbortNever DEF IInv, CopyStep, BreakCycle
<1>2. CASE OrderedInv
  BY <1>2, EmitReadyOrdered, NeverStuckOrdered DEF IInv, CopyStep, BreakCycle
<1> QED
  BY <1>1, <1>2 DEF IInv

LEMMA InitIInv == CopyInit => IInv
<1> SUFFICES ASSUME CopyInit
             PROVE  IInv
  OBVIOUS
<1>1. /\ pending = <<>> /\ group = <<>> /\ ~aborted /\ virtualRegisters \in Nat
      /\ DOMAIN pending = {} /\ DOMAIN group = {}
  BY DEF CopyInit
<1>2. Registers(pending) = {} /\ Registers(group) = {}
  BY <1>1 DEF Registers, Destinations, Sources
<1>3. CopyTypeOK
  <2>1. <<>> \in Seq(Copies) /\ FALSE \in BOOLEAN
    OBVIOUS
  <2>2. aborted = FALSE
    BY DEF CopyInit
  <2> QED
    BY <1>1, <2>1, <2>2 DEF CopyTypeOK
<1>4. PendingGoals /\ Apart(pending) /\ Apart(group) /\ DoneGoals
  BY <1>1 DEF PendingGoals, Apart, DoneGoals
<1>5. Untouched /\ AllVirtual
  BY <1>1, <1>2 DEF Untouched, AllVirtual
<1> QED
  BY <1>1, <1>3, <1>4, <1>5 DEF IInv, VirtualInv

\* The invariant holds in every behaviour of the two passes.
LEMMA Invariance == CopySpec => []IInv
<1>1. IInv /\ [CopyNext]_copyVars => IInv'
  BY StartStep, CopyStepStep, OtherPassesStep, StutterStep DEF CopyNext
<1> QED
  BY <1>1, InitIInv, PTL DEF CopySpec

-----------------------------------------------------------------------------
(* The loop over the pending copies ends.                                  *)

LEMMA FiniteRegisters ==
  ASSUME NEW copies \in Seq(Copies)
  PROVE  /\ IsFiniteSet(DOMAIN copies) /\ Cardinality(DOMAIN copies) = Len(copies)
         /\ Len(copies) \in Nat
         /\ IsFiniteSet(Sources(copies)) /\ IsFiniteSet(Destinations(copies))
<1>1. Len(copies) \in Nat /\ DOMAIN copies = 1 .. Len(copies)
  OBVIOUS
<1>2. IsFiniteSet(DOMAIN copies) /\ Cardinality(DOMAIN copies) = Len(copies)
  <2>1. Cardinality(1 .. Len(copies)) = IF 1 > Len(copies) THEN 0 ELSE Len(copies) - 1 + 1
    BY <1>1, FS_Interval
  <2>2. IsFiniteSet(1 .. Len(copies))
    BY <1>1, FS_Interval
  <2> QED
    BY <1>1, <2>1, <2>2
<1> DEFINE f == [k \in DOMAIN copies |-> copies[k].source]
           g == [k \in DOMAIN copies |-> copies[k].destination]
<1>3. IsFiniteSet({f[k] : k \in DOMAIN copies})
  <2>1. f \in [DOMAIN copies -> Sources(copies)]
    BY DEF Sources
  <2>2. f \in Surjection(DOMAIN copies, Sources(copies))
    BY <2>1 DEF Surjection, Sources
  <2>3. IsFiniteSet(Sources(copies))
    BY <1>2, <2>2, FS_Surjection
  <2> QED
    BY <2>3 DEF Sources
<1>4. IsFiniteSet({g[k] : k \in DOMAIN copies})
  <2>1. g \in [DOMAIN copies -> Destinations(copies)]
    BY DEF Destinations
  <2>2. g \in Surjection(DOMAIN copies, Destinations(copies))
    BY <2>1 DEF Surjection, Destinations
  <2>3. IsFiniteSet(Destinations(copies))
    BY <1>2, <2>2, FS_Surjection
  <2> QED
    BY <2>3 DEF Destinations
<1> QED
  BY <1>1, <1>2, <1>3, <1>4 DEF Sources, Destinations

\* An emitted copy is one copy less, and nothing new is read or written.
LEMMA EmittingComesNearer ==
  ASSUME pending \in Seq(Copies), EmitReady
  PROVE  CopiesLeft' \in 0 .. CopiesLeft - 1
<1>1. PICK n \in DOMAIN pending : pending' = Without(pending, n)
  BY DEF EmitReady
<1> DEFINE both == Sources(pending) \cap Destinations(pending)
           left == Sources(pending') \cap Destinations(pending')
<1>2. pending' \in Seq(Copies) /\ Len(pending') = Len(pending) - 1
  <2>1. Len(pending) \in Nat \ {0}
    OBVIOUS
  <2>2. pending' \in Seq(Copies)
    BY <1>1, WithoutFacts
  <2>3. DOMAIN pending' = 1 .. Len(pending) - 1
    BY <1>1 DEF Without
  <2> QED
    BY <2>1, <2>2, <2>3
<1>3. left \subseteq both
  <2>1. \A j \in DOMAIN pending' : \E k \in DOMAIN pending : pending'[j] = pending[k]
    BY <1>1, WithoutFacts
  <2> QED
    BY <2>1 DEF Sources, Destinations
<1>4. IsFiniteSet(both)
  BY FiniteRegisters, FS_Subset
<1>5. /\ Cardinality(left) \in Nat /\ Cardinality(both) \in Nat
      /\ Cardinality(left) <= Cardinality(both)
  BY <1>3, <1>4, FS_Subset, FS_CardinalityType
<1>6. Len(pending) \in Nat /\ Len(pending') \in Nat
  BY <1>2
<1> QED
  BY <1>2, <1>5, <1>6 DEF CopiesLeft

\* Where every destination is still read, every source is still written: else two
\* copies would have to be read by the same one.
LEMMA StuckIsACycle ==
  ASSUME pending \in Seq(Copies), Apart(pending), Stuck
  PROVE  1 \in DOMAIN pending /\ pending[1].source \in Destinations(pending)
<1>1. 1 \in DOMAIN pending
  BY DEF Stuck
<1>2. ASSUME pending[1].source \notin Destinations(pending)
      PROVE  FALSE
  <2> DEFINE D == DOMAIN pending
             Reads(n, m) == pending[m].source = pending[n].destination
             f == [n \in D |-> CHOOSE m \in D : Reads(n, m)]
  <2>1. ASSUME NEW n \in D
        PROVE  f[n] \in D \ {1} /\ Reads(n, f[n])
    <3>1. \E m \in D : Reads(n, m)
      BY DEF Stuck, Ready, Sources
    <3>2. f[n] \in D /\ Reads(n, f[n])
      BY <3>1
    <3>3. pending[n].destination \in Destinations(pending)
      BY DEF Destinations
    <3> QED
      BY <1>2, <3>2, <3>3
  <2>2. f \in [D -> D \ {1}]
    BY <2>1
  <2>3. /\ IsFiniteSet(D) /\ IsFiniteSet(D \ {1})
        /\ Cardinality(D \ {1}) < Cardinality(D)
    <3>1. IsFiniteSet(D)
      BY FiniteRegisters
    <3>2. IsFiniteSet(D \ {1}) /\ Cardinality(D \ {1}) = Cardinality(D) - 1
      BY <1>1, <3>1, FS_RemoveElement
    <3>3. Cardinality(D) \in Nat
      BY <3>1, FS_CardinalityType
    <3> QED
      BY <3>1, <3>2, <3>3
  <2>4. PICK n1, n2 \in D : n1 # n2 /\ f[n1] = f[n2]
    <3> HIDE DEF f, D
    <3> QED
      BY <2>2, <2>3, FS_PigeonHole
  <2>5. pending[n1].destination = pending[n2].destination
    BY <2>1, <2>4
  <2> QED
    BY <2>4, <2>5 DEF Apart
<1> QED
  BY <1>1, <1>2

\* A saved register was written and read, and is now only written.
LEMMA SavingComesNearer ==
  ASSUME VirtualInv, SaveCycle
  PROVE  CopiesLeft' \in 0 .. CopiesLeft - 1
<1> DEFINE from == pending[1].source
           to == virtualRegisters + 1
           both == Sources(pending) \cap Destinations(pending)
           left == Sources(pending') \cap Destinations(pending')
<1>1. pending \in Seq(Copies) /\ Apart(pending) /\ virtualRegisters \in Nat
  BY DEF VirtualInv, CopyTypeOK
<1>2. Stuck /\ from > 0 /\ pending' = Redirected(from, to) /\ virtualRegisters' = to
  BY DEF SaveCycle
<1>3. 1 \in DOMAIN pending /\ from \in Destinations(pending)
  BY <1>1, <1>2, StuckIsACycle
<1>4. to \notin Destinations(pending)
  <2>1. Registers(pending) \subseteq 1 .. virtualRegisters
    BY DEF VirtualInv, AllVirtual
  <2> QED
    BY <1>1, <2>1 DEF Registers
<1>5. /\ DOMAIN pending' = DOMAIN pending /\ Len(pending') = Len(pending)
      /\ \A k \in DOMAIN pending :
           /\ pending'[k].destination = pending[k].destination
           /\ pending'[k].source = (IF pending[k].source = from THEN to ELSE pending[k].source)
  <2>1. /\ pending' = [k \in 1 .. Len(pending) |-> pending'[k]]
        /\ \A k \in DOMAIN pending :
             pending'[k] = IF pending[k].source = from
                           THEN [pending[k] EXCEPT !.source = to] ELSE pending[k]
    BY <1>1, <1>2 DEF Redirected
  <2>2. ASSUME NEW k \in DOMAIN pending
        PROVE  \E d, s \in Int : pending[k] = [destination |-> d, source |-> s]
    <3>1. pending[k] \in Copies
      BY <1>1
    <3> QED
      BY <3>1 DEF Copies
  <2>3. Len(pending) \in Nat /\ DOMAIN pending = 1 .. Len(pending)
    BY <1>1
  <2>4. DOMAIN pending' = 1 .. Len(pending)
    BY <2>1
  <2>5. Len(pending') = Len(pending)
    BY <2>3, <2>4, <1>2, SaveCycleVirtual DEF VirtualInv, CopyTypeOK
  <2> QED
    BY <2>1, <2>2, <2>3, <2>4, <2>5
<1>6. left \subseteq both \ {from}
  <2>1. Destinations(pending') = Destinations(pending)
    BY <1>5 DEF Destinations
  <2>2. Sources(pending') \subseteq (Sources(pending) \ {from}) \cup {to}
    BY <1>5 DEF Sources
  <2> QED
    BY <1>4, <2>1, <2>2
<1>7. from \in both
  BY <1>3 DEF Sources
<1>8. IsFiniteSet(both)
  BY <1>1, FiniteRegisters, FS_Subset
<1>9. /\ IsFiniteSet(both \ {from}) /\ Cardinality(both \ {from}) = Cardinality(both) - 1
  BY <1>7, <1>8, FS_RemoveElement
<1>10. /\ Cardinality(left) \in Nat /\ Cardinality(both) \in Nat
       /\ Cardinality(left) <= Cardinality(both) - 1
  BY <1>6, <1>8, <1>9, FS_Subset, FS_CardinalityType
<1>11. Len(pending) \in Nat
  BY <1>1
<1> QED
  BY <1>5, <1>10, <1>11 DEF CopiesLeft

-----------------------------------------------------------------------------
(* The theorems.                                                           *)

\* However long the group and however many cycles it has, its sequence of
\* copies has the effect of the simultaneous assignment (parallel_copy.cpp:111-153).
THEOREM Simultaneous == CopySpec => []GroupIsSimultaneous
<1>1. VirtualInv => GroupIsSimultaneous
  <2> SUFFICES ASSUME VirtualInv, pending = <<>>, NEW r \in Registers(group)
               PROVE  /\ (\A k \in DOMAIN group : group[k].destination # r) => holds[r] = r
                      /\ \A k \in DOMAIN group :
                           group[k].destination = r => holds[r] = group[k].source
    BY DEF GroupIsSimultaneous
  <2>1. Destinations(pending) = {}
    BY DEF Destinations
  <2>2. \A k \in DOMAIN group : holds[group[k].destination] = group[k].source
    BY <2>1 DEF VirtualInv, DoneGoals
  <2>3. (\A k \in DOMAIN group : group[k].destination # r) => holds[r] = r
    BY DEF VirtualInv, Untouched, Destinations
  <2> QED
    BY <2>2, <2>3
<1>2. OrderedInv => GroupIsSimultaneous
  <2> SUFFICES ASSUME OrderedInv, pending = <<>>, NEW r \in Registers(group)
               PROVE  /\ (\A k \in DOMAIN group : group[k].destination # r) => holds[r] = r
                      /\ \A k \in DOMAIN group :
                           /\ group[k].destination = r
                           /\ \A j \in DOMAIN group : group[j].destination = r => j <= k
                           => holds[r] = group[k].source
    BY DEF GroupIsSimultaneous
  <2>1. Emitted = Len(group) /\ DOMAIN group = 1 .. Len(group) /\ Len(group) \in Nat
    BY DEF OrderedInv, CopyTypeOK, Emitted
  <2>2. \/ \E k \in 1 .. Len(group) : LastWriter(Len(group), k, r) /\ holds[r] = group[k].source
        \/ (\A k \in 1 .. Len(group) : group[k].destination # r) /\ holds[r] = r
    BY <2>1 DEF OrderedInv, HeldAfter
  <2>3. ASSUME NEW k \in 1 .. Len(group), group[k].destination = r,
               \A j \in 1 .. Len(group) : group[j].destination = r => j <= k
        PROVE  holds[r] = group[k].source
    <3>1. PICK l \in 1 .. Len(group) : LastWriter(Len(group), l, r) /\ holds[r] = group[l].source
      BY <2>2, <2>3
    <3>2. l <= k /\ ~(l < k)
      BY <2>3, <3>1 DEF LastWriter
    <3>3. l = k
      BY <2>1, <3>2
    <3> QED
      BY <3>1, <3>3
  <2>4. (\A k \in 1 .. Len(group) : group[k].destination # r) => holds[r] = r
    BY <2>2 DEF LastWriter
  <2> QED
    BY <2>1, <2>3, <2>4
<1> QED
  BY <1>1, <1>2, Invariance, PTL DEF IInv

\* Groups in the order the colours forbidden by RegAlloc leave never reach the
\* abort of the resolver (parallel_copy.cpp:227).
THEOREM ResolverNeverAborts == CopySpec => []NeverAborts
<1>1. IInv => NeverAborts
  BY DEF IInv, VirtualInv, OrderedInv, NeverAborts
<1> QED
  BY <1>1, Invariance, PTL

\* The loop ends on every group: with each step fewer copies are pending, or as many
\* and one register fewer is both read and written (parallel_copy.cpp:121-153).
THEOREM OrderingsEnd == CopySpec => OrderingEnds
<1> DEFINE Nearer == pending # <<>> /\ <<pending, emitted>>' # <<pending, emitted>>
                     => CopiesLeft' \in 0 .. CopiesLeft - 1
<1>1. IInv /\ [CopyNext]_copyVars => [Nearer]_copyVars
  <2> SUFFICES ASSUME IInv, CopyNext, pending # <<>>, <<pending, emitted>>' # <<pending, emitted>>
               PROVE  CopiesLeft' \in 0 .. CopiesLeft - 1
    OBVIOUS
  <2>1. CASE Start(group')
    BY <2>1 DEF Start
  <2>2. CASE EmitReady
    BY <2>2, EmittingComesNearer DEF IInv, VirtualInv, OrderedInv, CopyTypeOK
  <2>3. CASE SaveCycle
    <3>1. VirtualInv
      BY <2>3, NeverStuckOrdered DEF IInv, SaveCycle
    <3> QED
      BY <2>3, <3>1, SavingComesNearer
  <2>4. CASE AbortOnCycle \/ OtherPasses
    BY <2>4 DEF AbortOnCycle, OtherPasses
  <2> QED
    BY <2>1, <2>2, <2>3, <2>4 DEF CopyNext, CopyStep, BreakCycle
<1> QED
  BY <1>1, Invariance, PTL DEF CopySpec, OrderingEnds
=============================================================================
