-------------------------- MODULE ParOutlineProofs --------------------------
(***************************************************************************)
(* For every int width, every set of loops and every range: ParOutline is  *)
(* type correct, its partial results are remainders, and two threads never *)
(* share a slot.  For the loops that split well, the outlined loop has the *)
(* effects and the result of the source loop.                              *)
(***************************************************************************)
EXTENDS ParOutline, TLAPS

-----------------------------------------------------------------------------
(* Ints.                                                                   *)

LEMMA WrapFacts ==
  ASSUME NEW x \in Int
  PROVE  /\ Wrap(x) \in Int
         /\ x \in Int32 => Wrap(x) = x
         /\ x >= 2 * IntMin /\ x <= 2 * IntMax + 1 => Wrap(x) \in Int32
BY IntMaxAssumption DEF Wrap, Int32, IntMin

\* One more, or one less, is an int again.
LEMMA NextFacts ==
  ASSUME NEW i \in Int32
  PROVE  Wrap(i + 1) \in Int32 /\ Wrap(i - 1) \in Int32
BY IntMaxAssumption DEF Wrap, Int32, IntMin

LEMMA NextValue ==
  ASSUME NEW i \in Int32
  PROVE  /\ Wrap(i + 1) = IF i = IntMax THEN IntMin ELSE i + 1
         /\ Wrap(i - 1) = IF i = IntMin THEN IntMax ELSE i - 1
BY IntMaxAssumption DEF Wrap, Int32, IntMin

\* The midpoint of a range that is split is an int, and not its first iteration.
LEMMA MidIsLater ==
  ASSUME NEW lo \in Int32, NEW hi \in Int32, Splits(lo, hi)
  PROVE  Mid(lo, hi) \in Int32 /\ Mid(lo, hi) /= lo
<1> DEFINE n == Wrap(hi - lo)
           half == n \div 2
<1>1. n \in Int32 /\ n > 1
  BY IntMaxAssumption DEF Splits, Wrap, Int32, IntMin
<1> HIDE DEF n
<1>2. half \in Int /\ half >= 1 /\ half <= IntMax
  BY <1>1, IntMaxAssumption DEF Int32, IntMin
<1> HIDE DEF half
<1>3. Wrap(lo + half) \in Int32 /\ Wrap(lo + half) /= lo
  BY <1>2, IntMaxAssumption DEF Wrap, Int32, IntMin
<1> QED
  BY <1>3 DEF Mid, half, n

\* A remainder is smaller than the modulus, on either side of zero.
LEMMA RemainderFacts ==
  ASSUME NEW x \in Int
  PROVE  SRem(x, Modulus) \in Remainders
<1>1. Modulus \in Nat \ {0}
  BY ModulusAssumption, IntMaxAssumption
<1>2. \A y \in Nat : y % Modulus \in 0 .. Modulus - 1
  BY <1>1
<1> QED
  BY <1>1, <1>2 DEF SRem, Remainders

LEMMA RemaindersAreInts == Remainders \subseteq Int32 /\ 0 \in Remainders
BY ModulusAssumption, IntMaxAssumption DEF Remainders, Int32, IntMin

-----------------------------------------------------------------------------
(* Types.                                                                  *)

LEMMA ZeroTypes ==
  ASSUME TypeOK
  PROVE  /\ None \in Effects /\ Zero \in Results
         /\ Zero \in Accumulators
         /\ Idle \in Activations /\ Idle.acc \in Results
<1>1. None \in Effects
  BY DEF None, Effects
<1>2. 0 \in Int32
  BY IntMaxAssumption DEF Int32, IntMin
<1> QED
  BY <1>1, <1>2, RemaindersAreInts DEF Zero, Results, Idle, Activations, Accumulators

\* What a pass makes of an accumulator.
LEMMA UpdatedType ==
  ASSUME TypeOK, NEW a \in Activations, NEW t \in Int32, NEW inLoop \in BOOLEAN
  PROVE  /\ Updated(a, t, inLoop) \in Accumulators
         /\ inLoop /\ a.acc \in Results => Updated(a, t, inLoop) \in Results
<1>0. loop \in Shapes
  BY CasesAssumption DEF TypeOK
<1>1. CASE ~Reduces \/ ~Applies(a)
  BY <1>0, <1>1 DEF Updated, Activations, Reduces, IsModulo
<1>2. CASE Reduces /\ Applies(a) /\ loop.kind = "sum"
  <2>1. ~IsModulo
    BY <1>2 DEF IsModulo
  <2>2. a.acc \in [Int32 -> Nat] /\ a.i \in Int32
    BY <2>1 DEF Activations, Accumulators, Effects
  <2>3. Once(a.acc, a.i) \in [Int32 -> Nat]
    BY <2>2 DEF Once
  <2> QED
    BY <1>2, <2>1, <2>3 DEF Updated, Effects, Results, Accumulators, Reduces
<1>3. CASE Reduces /\ Applies(a) /\ loop.kind /= "sum"
  <2>1. IsModulo
    BY <1>0, <1>3 DEF Reduces, IsModulo, Shapes, Kinds
  <2>2. a.acc \in Int32
    BY <2>1 DEF Activations, Accumulators
  <2>3. Update(a.acc, t) \in Int /\ Wrap(Update(a.acc, t)) \in Int32
    BY <2>2, IntMaxAssumption DEF Update, Wrap, Int32, IntMin
  <2>4. SRem(Wrap(Update(a.acc, t)), Modulus) \in Remainders
    BY <2>3, RemainderFacts DEF Int32
  <2> QED
    BY <1>3, <2>1, <2>3, <2>4, RemaindersAreInts DEF Updated, Accumulators, Results, Reduces
<1> QED
  BY <1>1, <1>2, <1>3

\* One pass leaves an activation one.
LEMMA AdvancedType ==
  ASSUME TypeOK, NEW a \in Activations, NEW acc \in Accumulators
  PROVE  /\ Stays(a) \in BOOLEAN
         /\ Advanced(a, acc) \in Activations
         /\ Advanced(a, acc).slot = a.slot /\ Advanced(a, acc).bound = a.bound
         /\ Advanced(a, acc).acc = acc
         /\ Stays(a) => Advanced(a, acc).at = a.at /\ Advanced(a, acc).i = Wrap(a.i + 1)
         /\ ~Stays(a) => Advanced(a, acc).at = "idle" /\ Advanced(a, acc).i = a.i
<1>1. a.i \in Int32 /\ Wrap(a.i + 1) \in Int32
  BY NextFacts DEF Activations
<1>2. Stays(a) \in BOOLEAN
  BY DEF Stays
<1>3. CASE Stays(a)
  BY <1>1, <1>2, <1>3 DEF Advanced, Activations
<1>4. CASE ~Stays(a)
  BY <1>2, <1>4 DEF Advanced, Activations
<1> QED
  BY <1>2, <1>3, <1>4

\* The stores of one pass.
LEMMA StoredType ==
  ASSUME TypeOK, NEW a \in Activations, NEW side \in Sides
  PROVE  Stored(side, a) \in [Sides -> Effects]
<1>1. a.i \in Int32 /\ cells[side] \in [Int32 -> Nat]
  BY DEF Activations, TypeOK, Effects
<1>2. Once(cells[side], a.i) \in [Int32 -> Nat]
  BY <1>1 DEF Once
<1> QED
  BY <1>2 DEF Stored, TypeOK, Effects

\* A loop that is entered works on ints.
LEMMA EnteringType ==
  ASSUME TypeOK, NEW lo \in Int32, NEW hi \in Int32
  PROVE  /\ Entering(lo, hi) \in Activations
         /\ Entering(lo, hi).i = lo /\ Entering(lo, hi).bound = hi
         /\ Entering(lo, hi).at = "entry" /\ Entering(lo, hi).acc = Zero
         /\ Entering(lo, hi).slot = 0 /\ Zero \in Results
BY ZeroTypes DEF Entering, Idle, Activations

LEMMA InitTypeOK == Init => TypeOK
<1> SUFFICES ASSUME Init PROVE TypeOK
  OBVIOUS
<1>1. 0 \in Int32
  BY IntMaxAssumption DEF Int32, IntMin
<1>2. None \in Effects /\ None \in [Int32 -> Terms]
  BY TermsAssumption DEF None, Effects
<1>3. Zero \in Results /\ Idle \in Activations /\ Idle.acc \in Results
  BY <1>1, <1>2, RemaindersAreInts DEF Zero, Results, Idle, Activations, Accumulators
<1> QED
  BY <1>1, <1>2, <1>3 DEF Init, TypeOK, Threads, Sides

LEMMA NextTypeOK == TypeOK /\ [Next]_vars => TypeOK'
<1> SUFFICES ASSUME TypeOK, [Next]_vars PROVE TypeOK'
  OBVIOUS
<1> USE DEF Threads, Sides
<1>0. /\ Results' = Results \/ loop' /= loop
      /\ Activations' = Activations \/ loop' /= loop
      /\ \A t \in Threads : proc[t] \in Activations
  BY DEF Results, Activations, Accumulators, IsModulo, TypeOK
<1>1. ASSUME NEW r \in Ranges[loop], Enter(r) PROVE TypeOK'
  <2>1. r \in Int32 \X Int32
    BY RangesAssumption DEF TypeOK
  <2> DEFINE new == [Entering(r[1], r[2]) EXCEPT !.at = "loop"]
  <2>2. new \in Activations /\ new.acc \in Results
    BY <2>1, EnteringType DEF Activations
  <2> HIDE DEF new
  <2>3. None \in Effects /\ None \in [Int32 -> Terms]
    BY TermsAssumption DEF None, Effects
  <2>4. proc' = [proc EXCEPT !["source"] = new]
    BY <1>1 DEF Enter, new
  <2> QED
    <3>1. /\ loop' = loop /\ range' = r /\ terms' = None /\ pc' = "source"
          /\ cells' = [side \in Sides |-> None]
          /\ UNCHANGED <<result, scalar_start, scalar_bound, scalar_partial>>
      BY <1>1 DEF Enter
    <3>2. Results' = Results /\ Activations' = Activations
      BY <1>0, <3>1
    <3>3. /\ proc' \in [Threads -> Activations]
          /\ \A t \in Threads : t /= "source" \/ loop.kind /= "liveout" => proc'[t].acc \in Results
      BY <2>2, <2>4 DEF TypeOK
    <3>4. cells' \in [Sides -> Effects]
      BY <2>3, <3>1
    <3> QED
      BY <2>1, <2>3, <3>1, <3>2, <3>3, <3>4 DEF TypeOK, Effects
<1>2. ASSUME NEW t \in Terms, SourcePass(t) PROVE TypeOK'
  <2> DEFINE a == proc["source"]
             acc == SourceUpdate(a, t)
  <2>1. a \in Activations /\ a.i \in Int32 /\ t \in Int32
    BY <1>0, TermsAssumption DEF Activations
  <2>2. acc \in Accumulators
    BY <2>1, UpdatedType DEF SourceUpdate
  <2>3. Advanced(a, acc) \in Activations
    BY <2>1, <2>2, AdvancedType
  <2>4. loop.kind /= "liveout" => acc \in Results
    <3>1. CASE loop.kind = "inline"
      BY <2>1, <3>1, UpdatedType DEF SourceUpdate, TypeOK
    <3>2. CASE loop.kind \notin {"inline", "liveout"}
      BY <2>2, <3>2 DEF Results, Accumulators, IsModulo
    <3> QED
      BY <3>1, <3>2
  <2>5. LiveOut(acc) \in Results
    <3>1. CASE loop.kind = "liveout"
      BY <2>2, <3>1, RemainderFacts DEF LiveOut, Results, Accumulators, IsModulo, Int32
    <3>2. CASE loop.kind /= "liveout"
      BY <2>4, <3>2 DEF LiveOut
    <3> QED
      BY <3>1, <3>2
  <2>6. Stored("source", a) \in [Sides -> Effects]
    BY <2>1, StoredType
  <2>7. Advanced(a, acc).acc = acc
    BY <2>1, <2>2, AdvancedType
  <2> HIDE DEF a, acc
  <2>8. loop' = loop /\ proc' = [proc EXCEPT !["source"] = Advanced(a, acc)]
    BY <1>2 DEF SourcePass, a, acc
  <2>9. /\ proc' \in [Threads -> Activations]
        /\ \A s \in Threads : s /= "source" \/ loop.kind /= "liveout" => proc'[s].acc \in Results
    BY <2>3, <2>4, <2>7, <2>8 DEF TypeOK
  <2>10. /\ pc' \in {"source", "call"} /\ cells' \in [Sides -> Effects]
         /\ result' \in [Sides -> Results] /\ terms' \in [Int32 -> Terms]
         /\ UNCHANGED <<range, scalar_start, scalar_bound, scalar_partial>>
    BY <1>2, <2>1, <2>5, <2>6 DEF SourcePass, TypeOK, a, acc
  <2> QED
    BY <1>0, <2>8, <2>9, <2>10 DEF TypeOK
<1>3. CASE ParCall
  <2>1. range[1] \in Int32 /\ range[2] \in Int32
    BY DEF TypeOK
  <2>2. Identity \in [{0, 1} -> Results]
    BY ZeroTypes DEF Identity
  <2>3. Splits(range[1], range[2]) => Mid(range[1], range[2]) \in Int32
    BY <2>1, MidIsLater
  <2>4. \A lo, hi \in Int32 : Entering(lo, hi) \in Activations /\ Entering(lo, hi).acc \in Results
    BY EnteringType
  <2>5. /\ proc' \in [Threads -> Activations]
        /\ \A s \in Threads : s /= "source" \/ loop.kind /= "liveout" => proc'[s].acc \in Results
    BY <1>3, <2>1, <2>3, <2>4 DEF ParCall, TypeOK
  <2> QED
    BY <1>0, <1>3, <2>1, <2>2, <2>5 DEF ParCall, TypeOK
<1>4. ASSUME NEW t \in {"main", "worker"}, BodyEntry(t) PROVE TypeOK'
  <2> DEFINE a == proc[t]
             new == [a EXCEPT !.at = "loop", !.bound = BodyBound(a.i, a.bound), !.slot = SlotOf(a.i)]
  <2>1. a \in Activations /\ a.acc \in Results
    BY DEF TypeOK
  <2>2. BodyBound(a.i, a.bound) \in Int32 /\ SlotOf(a.i) \in {0, 1}
    BY <2>1, NextFacts DEF BodyBound, SlotOf, Activations
  <2>3. new \in Activations /\ new.acc \in Results
    BY <2>1, <2>2 DEF Activations
  <2> HIDE DEF new
  <2>4. proc' = [proc EXCEPT ![t] = new]
    BY <1>4 DEF BodyEntry, new
  <2> QED
    BY <1>0, <1>4, <2>3, <2>4 DEF BodyEntry, TypeOK
<1>5. ASSUME NEW t \in {"main", "worker"}, BodyPass(t) PROVE TypeOK'
  <2> DEFINE a == proc[t]
             acc == BodyUpdate(a)
  <2>1. a \in Activations /\ a.acc \in Results /\ a.slot \in {0, 1} /\ terms[a.i] \in Int32
    BY TermsAssumption DEF TypeOK, Activations
  <2>2. acc \in Results /\ acc \in Accumulators
    BY <2>1, UpdatedType DEF BodyUpdate
  <2>3. Advanced(a, acc) \in Activations /\ Advanced(a, acc).acc = acc
    BY <2>1, <2>2, AdvancedType
  <2>4. PartialValue(a) \in Results
    BY <2>1, <2>2 DEF PartialValue
  <2>5. Stored("outlined", a) \in [Sides -> Effects]
    BY <2>1, StoredType
  <2> HIDE DEF acc
  <2>6. proc' = [proc EXCEPT ![t] = Advanced(a, acc)]
    BY <1>5 DEF BodyPass, acc
  <2>7. /\ proc' \in [Threads -> Activations]
        /\ \A s \in Threads : s /= "source" \/ loop.kind /= "liveout" => proc'[s].acc \in Results
    BY <2>2, <2>3, <2>6 DEF TypeOK
  <2> QED
    BY <1>0, <1>5, <2>1, <2>4, <2>5, <2>7 DEF BodyPass, TypeOK
<1>6. CASE Merge
  <2>1. Merged \in Results
    <3>1. CASE IsModulo
      <4>1. scalar_partial[0] \in Int32 /\ scalar_partial[1] \in Int32
        BY <3>1, RemaindersAreInts DEF TypeOK, Results
      <4>2. MergedRem(scalar_partial[0], scalar_partial[1]) \in Remainders
        BY <4>1, ModulusAssumption, IntMaxAssumption, RemainderFacts DEF MergedRem, Wrap, Int32, IntMin
      <4> QED
        BY <3>1, <4>2 DEF Merged, Results
    <3>2. CASE ~IsModulo
      BY <3>2, ZeroTypes DEF Merged, Results, Sum, TypeOK, Effects
    <3> QED
      BY <3>1, <3>2
  <2> QED
    BY <1>0, <1>6, <2>1 DEF Merge, TypeOK
<1>7. CASE UNCHANGED vars
  BY <1>0, <1>7 DEF vars, TypeOK
<1> QED
  BY <1>1, <1>2, <1>3, <1>4, <1>5, <1>6, <1>7 DEF Next

\* Every variable keeps its type, and what the outlined parts of a sum modulo m hold,
\* in their accumulators and in their slots, are remainders at every time: the merge
\* (createModuloPartialMerge) relies on that.
THEOREM TypeCorrect == Spec => []TypeOK
BY InitTypeOK, NextTypeOK, PTL DEF Spec

-----------------------------------------------------------------------------
(* Who runs what: main the whole range, or main its first part and the     *)
(* worker the rest.                                                        *)

Middle == Mid(range[1], range[2])

\* Thread t was given lo to hi; from its entry on, its bound and its slot are its own.
Given(t, lo, hi, slot) ==
  /\ proc[t].at = "entry" => proc[t].i = lo /\ proc[t].bound = hi
  /\ proc[t].at /= "entry" => proc[t].bound = BodyBound(lo, hi) /\ proc[t].slot = slot

MainEnd(split) == IF split THEN Middle ELSE range[2]

Division(split) ==
  /\ scalar_start = range[1] /\ scalar_bound = range[2]
  /\ split => Splits(range[1], range[2])
  /\ ~split => proc["worker"].at = "idle"
  /\ Given("main", range[1], MainEnd(split), 0)
  /\ split => Given("worker", Middle, range[2], 1)

Layout ==
  /\ pc = "source" => proc["source"].at = "loop" /\ proc["source"].bound = range[2]
  /\ pc /= "body" => proc["main"].at = "idle" /\ proc["worker"].at = "idle"
  /\ pc \in {"body", "done"} => \E split \in BOOLEAN : Division(split)

LEMMA InitLayout == Init => Layout
BY DEF Init, Layout, Threads, Idle

\* The entry block turns what a thread was given into its bound and its slot.
LEMMA EntryDivision ==
  ASSUME TypeOK, NEW t \in {"main", "worker"}, BodyEntry(t),
         NEW split \in BOOLEAN, Division(split)
  PROVE  Division(split)'
<1>1. range[1] \in Int32 /\ range[2] \in Int32 /\ proc \in [Threads -> Activations]
  BY DEF TypeOK
<1>2. split => Middle /= range[1]
  BY <1>1, MidIsLater DEF Division, Middle
<1>3. proc[t] \in Activations
  BY <1>1 DEF Threads
<1> DEFINE new == [proc[t] EXCEPT !.at = "loop", !.bound = BodyBound(proc[t].i, proc[t].bound),
                                  !.slot = SlotOf(proc[t].i)]
<1>4. new.at = "loop" /\ new.bound = BodyBound(proc[t].i, proc[t].bound) /\ new.slot = SlotOf(proc[t].i)
  BY <1>3 DEF Activations
<1> HIDE DEF new
<1>5. /\ proc' = [proc EXCEPT ![t] = new] /\ proc[t].at = "entry"
      /\ UNCHANGED <<loop, range, scalar_start, scalar_bound>>
  BY DEF BodyEntry, new
<1>6. \A lo, hi : BodyBound(lo, hi)' = BodyBound(lo, hi)
  BY <1>5 DEF BodyBound, Reduces, latchComparesIV
<1>7. Middle' = Middle /\ MainEnd(split)' = MainEnd(split)
  BY <1>5 DEF Middle, MainEnd
<1>8. CASE t = "main"
  <2>1. proc'["main"] = new /\ proc'["worker"] = proc["worker"]
    BY <1>1, <1>5, <1>8 DEF Threads
  <2>2. new.bound = BodyBound(range[1], MainEnd(split)) /\ new.slot = 0
    BY <1>4, <1>5, <1>8 DEF Division, Given, SlotOf
  <2> QED
    BY <1>4, <1>5, <1>6, <1>7, <2>1, <2>2 DEF Division, Given
<1>9. CASE t = "worker"
  <2>1. proc'["worker"] = new /\ proc'["main"] = proc["main"] /\ split
    BY <1>1, <1>5, <1>9 DEF Threads, Division
  <2>2. new.bound = BodyBound(Middle, range[2]) /\ new.slot = 1
    BY <1>2, <1>4, <1>5, <1>9, <2>1 DEF Division, Given, SlotOf
  <2> QED
    BY <1>4, <1>5, <1>6, <1>7, <2>1, <2>2 DEF Division, Given
<1> QED
  BY <1>8, <1>9

\* A pass leaves both as they are.
LEMMA PassDivision ==
  ASSUME TypeOK, NEW t \in {"main", "worker"}, BodyPass(t),
         NEW split \in BOOLEAN, Division(split)
  PROVE  Division(split)'
<1> DEFINE new == Advanced(proc[t], BodyUpdate(proc[t]))
<1>1. proc \in [Threads -> Activations] /\ proc[t] \in Activations /\ terms[proc[t].i] \in Int32
  BY TermsAssumption DEF TypeOK, Threads, Activations
<1>2. BodyUpdate(proc[t]) \in Accumulators
  BY <1>1, UpdatedType DEF BodyUpdate
<1>3. new.bound = proc[t].bound /\ new.slot = proc[t].slot /\ new.at \in {"idle", proc[t].at}
  BY <1>1, <1>2, AdvancedType
<1>4. /\ proc' = [proc EXCEPT ![t] = new] /\ proc[t].at = "loop"
      /\ UNCHANGED <<loop, range, scalar_start, scalar_bound>>
  BY DEF BodyPass
<1> HIDE DEF new
<1>5. \A lo, hi : BodyBound(lo, hi)' = BodyBound(lo, hi)
  BY <1>4 DEF BodyBound, Reduces, latchComparesIV
<1>6. Middle' = Middle /\ MainEnd(split)' = MainEnd(split)
  BY <1>4 DEF Middle, MainEnd
<1>7. \A s \in {"main", "worker"} :
        proc'[s].bound = proc[s].bound /\ proc'[s].slot = proc[s].slot
        /\ (proc'[s].at = proc[s].at \/ (proc[s].at = "loop" /\ proc'[s].at = "idle"))
  BY <1>1, <1>3, <1>4 DEF Threads
<1> QED
  BY <1>4, <1>5, <1>6, <1>7 DEF Division, Given

\* Thread t is at the entry of the body.
Fresh(t) == proc[t].at = "entry" /\ proc[t].acc = Zero

\* The call gives main the whole range, or its first part and the worker the rest.
LEMMA CallDivision ==
  ASSUME TypeOK, Layout, ParCall
  PROVE  \E split \in BOOLEAN : Division(split)' /\ Fresh("main")' /\ (split => Fresh("worker")')
<1>0. proc \in [Threads -> Activations] /\ range[1] \in Int32 /\ range[2] \in Int32
  BY DEF TypeOK
<1>1. proc["worker"].at = "idle"
  BY DEF ParCall, Layout
<1>2. UNCHANGED <<loop, range>> /\ scalar_start' = range[1] /\ scalar_bound' = range[2]
  BY DEF ParCall
<1>3. Zero' = Zero /\ \A split \in BOOLEAN : Middle' = Middle /\ MainEnd(split)' = MainEnd(split)
  BY <1>2 DEF Middle, MainEnd, Zero, IsModulo, None
<1>4. CASE Splits(range[1], range[2]) /\ proc' = [proc EXCEPT
              !["main"] = Entering(range[1], Middle), !["worker"] = Entering(Middle, range[2])]
  <2>1. Middle \in Int32
    BY <1>0, <1>4, MidIsLater DEF Middle
  <2>2. /\ proc'["main"].at = "entry" /\ proc'["main"].i = range[1]
        /\ proc'["main"].bound = Middle /\ proc'["main"].acc = Zero
        /\ proc'["worker"].at = "entry" /\ proc'["worker"].i = Middle
        /\ proc'["worker"].bound = range[2] /\ proc'["worker"].acc = Zero
    BY <1>0, <1>4, <2>1, EnteringType DEF Threads
  <2>3. Division(TRUE)' /\ Fresh("main")' /\ Fresh("worker")'
    BY <1>2, <1>3, <1>4, <2>2 DEF Division, Given, MainEnd, Fresh
  <2> QED
    BY <2>3
<1>5. CASE proc' = [proc EXCEPT !["main"] = Entering(range[1], range[2])]
  <2>1. /\ proc'["main"].at = "entry" /\ proc'["main"].i = range[1]
        /\ proc'["main"].bound = range[2] /\ proc'["main"].acc = Zero
        /\ proc'["worker"].at = "idle"
    BY <1>0, <1>1, <1>5, EnteringType DEF Threads
  <2>2. Division(FALSE)' /\ Fresh("main")'
    BY <1>2, <1>3, <2>1 DEF Division, Given, MainEnd, Fresh
  <2> QED
    BY <2>2
<1> QED
  BY <1>4, <1>5 DEF ParCall, Middle

LEMMA NextLayout == TypeOK /\ Layout /\ [Next]_vars => Layout'
<1> SUFFICES ASSUME TypeOK, Layout, [Next]_vars PROVE Layout'
  OBVIOUS
<1>0. proc \in [Threads -> Activations] /\ range[1] \in Int32 /\ range[2] \in Int32
  BY DEF TypeOK
<1>1. ASSUME NEW r \in Ranges[loop], Enter(r) PROVE Layout'
  <2>1. r[1] \in Int32 /\ r[2] \in Int32
    BY RangesAssumption DEF TypeOK
  <2> DEFINE new == [Entering(r[1], r[2]) EXCEPT !.at = "loop"]
  <2>2. new.at = "loop" /\ new.bound = r[2]
    BY <2>1, EnteringType DEF Activations
  <2> HIDE DEF new
  <2>3. proc' = [proc EXCEPT !["source"] = new] /\ range' = r /\ pc' = "source" /\ pc \in {"enter", "done"}
    BY <1>1 DEF Enter, new
  <2> QED
    BY <1>0, <2>2, <2>3 DEF Layout, Threads
<1>2. ASSUME NEW t \in Terms, SourcePass(t) PROVE Layout'
  <2> DEFINE a == proc["source"]
             new == Advanced(a, SourceUpdate(a, t))
  <2>1. a \in Activations /\ t \in Int32
    BY <1>0, TermsAssumption DEF Threads
  <2>2. SourceUpdate(a, t) \in Accumulators
    BY <2>1, UpdatedType DEF SourceUpdate
  <2>3. new.bound = a.bound /\ (Stays(a) => new.at = a.at)
    BY <2>1, <2>2, AdvancedType
  <2> HIDE DEF new
  <2>4. /\ proc' = [proc EXCEPT !["source"] = new] /\ pc = "source"
        /\ range' = range /\ IF Stays(a) THEN pc' = pc ELSE pc' = "call"
    BY <1>2 DEF SourcePass, new
  <2> QED
    BY <1>0, <2>3, <2>4 DEF Layout, Threads
<1>3. CASE ParCall
  <2>1. pc' = "body"
    BY <1>3 DEF ParCall
  <2> QED
    BY <1>3, <2>1, CallDivision DEF Layout
<1>4. ASSUME NEW t \in {"main", "worker"}, BodyEntry(t) PROVE Layout'
  <2>1. pc = "body" /\ pc' = "body"
    BY <1>4 DEF BodyEntry
  <2> QED
    BY <1>4, <2>1, EntryDivision DEF Layout
<1>5. ASSUME NEW t \in {"main", "worker"}, BodyPass(t) PROVE Layout'
  <2>1. pc = "body" /\ pc' = "body"
    BY <1>5 DEF BodyPass
  <2> QED
    BY <1>5, <2>1, PassDivision DEF Layout
<1>6. CASE Merge
  BY <1>6 DEF Merge, Layout, Division, Given, MainEnd, Middle, BodyBound, Reduces, latchComparesIV
<1>7. CASE UNCHANGED vars
  BY <1>7 DEF vars, Layout, Division, Given, MainEnd, Middle, BodyBound, Reduces, latchComparesIV
<1> QED
  BY <1>1, <1>2, <1>3, <1>4, <1>5, <1>6, <1>7 DEF Next

\* Two threads of a reduction never store to the same slot, for any loop and any range,
\* also where its computed length has wrapped: the midpoint is never the first iteration.
THEOREM SlotsNeverShared == Spec => []SlotsApart
<1>1. TypeOK /\ Layout => SlotsApart
  <2> SUFFICES ASSUME Layout, proc["main"].at = "loop", proc["worker"].at = "loop"
               PROVE  proc["main"].slot /= proc["worker"].slot
    BY DEF SlotsApart
  <2>1. PICK split \in BOOLEAN : Division(split)
    BY DEF Layout
  <2> QED
    BY <2>1 DEF Division, Given
<1> QED
  BY <1>1, InitTypeOK, NextTypeOK, InitLayout, NextLayout, PTL DEF Spec

-----------------------------------------------------------------------------
(* The iterations of one activation that begins at lo.                     *)

\* Those before i; the counter may have wrapped on its way.
Passed(lo, i) ==
  {k \in Int32 : IF lo <= i THEN lo <= k /\ k < i ELSE lo <= k \/ k < i}

\* Where a loop from lo with the bound b is left, and all iterations that have an effect.
Exit(lo, b) ==
  IF loop.lhs = "phi" THEN IF lo < b THEN b ELSE lo
  ELSE IF lo = IntMax \/ lo + 1 < b THEN Wrap(b - 1) ELSE lo
Whole(lo, b) ==
  IF loop.effect = "before" THEN Passed(lo, Exit(lo, b)) \cup {Exit(lo, b)}
  ELSE Passed(lo, Exit(lo, b))

\* An activation that has come from lo to i, with the bound b.
Underway(lo, i, b) ==
  \/ i = lo
  \/ loop.lhs = "phi" /\ lo < i /\ i <= b
  \/ loop.lhs = "next" /\ i < b /\ (lo < i \/ lo = IntMax)

OnTrack(a, lo) ==
  /\ a.at = "loop" => Underway(lo, a.i, a.bound)
  /\ a.at = "idle" => a.i = Exit(lo, a.bound)

\* The iterations whose effect it has had, and the one this pass adds.
Ran(a, lo) ==
  IF a.at = "entry" THEN {} ELSE IF a.at = "loop" THEN Passed(lo, a.i) ELSE Whole(lo, a.bound)
Applied(a) == IF Applies(a) THEN {a.i} ELSE {}

LEMMA PassFacts ==
  ASSUME TypeOK, SplitsWell(loop), NEW a \in Activations, a.at = "loop", NEW lo \in Int32,
         OnTrack(a, lo), NEW acc \in Accumulators
  PROVE  /\ OnTrack(Advanced(a, acc), lo)
         /\ Ran(Advanced(a, acc), lo) = Ran(a, lo) \cup Applied(a)
         /\ a.i \notin Ran(a, lo)
         /\ Stays(a) => Applies(a) /\ Wrap(a.i + 1) /= lo /\ Wrap(Wrap(a.i + 1) - 1) = a.i
         /\ ~Stays(a) => (Applies(a) <=> loop.effect = "before")
<1> DEFINE i == a.i
           b == a.bound
           new == Advanced(a, acc)
<1>1. i \in Int32 /\ b \in Int32 /\ Wrap(i + 1) \in Int32
  BY NextFacts DEF Activations
<1>2. loop.lhs \in {"phi", "next"} /\ loop.effect \in {"before", "after"}
      /\ (loop.effect = "after" => loop.lhs = "phi")
  BY CasesAssumption DEF SplitsWell, TypeOK, Shapes
<1>3. Underway(lo, i, b) /\ Ran(a, lo) = Passed(lo, i)
  BY DEF OnTrack, Ran
<1>4. i \notin Passed(lo, i)
  BY <1>1 DEF Passed, Int32
<1>5. /\ Stays(a) => new.at = "loop" /\ new.i = Wrap(i + 1) /\ new.bound = b
      /\ ~Stays(a) => new.at = "idle" /\ new.i = i /\ new.bound = b
  BY AdvancedType
<1>6. Stays(a) = ((IF loop.lhs = "phi" THEN i ELSE Wrap(i + 1)) < b)
  BY DEF Stays
<1>7. Applies(a) <=> loop.effect = "before" \/ Stays(a)
  BY DEF Applies
<1> HIDE DEF i, b, new
<1>8. CASE Stays(a)
  <2> DEFINE j == Wrap(i + 1)
  <2>1. j = IF i = IntMax THEN IntMin ELSE i + 1
    BY <1>1, NextValue
  <2>2. j \in Int32 /\ Wrap(j - 1) = IF j = IntMin THEN IntMax ELSE j - 1
    BY <1>1, NextValue
  <2>3. (IF loop.lhs = "phi" THEN i ELSE j) < b
    BY <1>6, <1>8
  <2> HIDE DEF j
  <2>4. Underway(lo, j, b) /\ j /= lo /\ Wrap(j - 1) = i
    BY <1>1, <1>2, <1>3, <2>1, <2>2, <2>3, IntMaxAssumption DEF Underway, Int32, IntMin
  <2>5. Passed(lo, j) = Passed(lo, i) \cup {i}
    BY <1>1, <1>2, <1>3, <2>1, <2>2, <2>3, IntMaxAssumption DEF Underway, Passed, Int32, IntMin
  <2>6. new.at = "loop" /\ new.i = j /\ new.bound = b
    BY <1>5, <1>8 DEF j
  <2>7. OnTrack(new, lo) /\ Ran(new, lo) = Passed(lo, j)
    BY <2>4, <2>6 DEF OnTrack, Ran
  <2>8. Applied(a) = {i}
    BY <1>7, <1>8 DEF Applied, i
  <2> QED
    BY <1>3, <1>4, <1>7, <1>8, <2>4, <2>5, <2>7, <2>8 DEF i, new, j
<1>9. CASE ~Stays(a)
  <2>1. i = Exit(lo, b)
    <3>1. CASE loop.lhs = "phi"
      <4>1. ~(i < b)
        BY <1>6, <1>9, <3>1
      <4> QED
        BY <1>1, <1>3, <3>1, <4>1 DEF Underway, Exit, Int32
    <3>2. CASE loop.lhs = "next"
      <4>1. ~(Wrap(i + 1) < b)
        BY <1>6, <1>9, <3>2
      <4>2. Wrap(i + 1) = IF i = IntMax THEN IntMin ELSE i + 1
        BY <1>1, NextValue
      <4>3. Wrap(b - 1) = IF b = IntMin THEN IntMax ELSE b - 1
        BY <1>1, NextValue
      <4>4. i = lo \/ (i < b /\ (lo < i \/ lo = IntMax))
        BY <1>3, <3>2 DEF Underway
      <4> QED
        BY <1>1, <3>2, <4>1, <4>2, <4>3, <4>4, IntMaxAssumption DEF Exit, Int32, IntMin
    <3> QED
      BY <1>2, <3>1, <3>2
  <2>2. new.at = "idle" /\ new.i = i /\ new.bound = b
    BY <1>5, <1>9
  <2>3. OnTrack(new, lo) /\ Ran(new, lo) = Whole(lo, b)
    BY <2>1, <2>2 DEF OnTrack, Ran
  <2>4. Applies(a) <=> loop.effect = "before"
    BY <1>7, <1>9
  <2>5. Whole(lo, b) = Passed(lo, i) \cup Applied(a)
    BY <2>1, <2>4 DEF Whole, Applied, i
  <2> QED
    BY <1>3, <1>4, <1>9, <2>3, <2>4, <2>5 DEF i, new
<1> QED
  BY <1>8, <1>9

\* The two parts of a range that is split: one ends where the other begins, and together
\* they are the range.
FirstPart == BodyBound(range[1], Middle)

LEMMA PartsJoin ==
  ASSUME TypeOK, SplitsWell(loop), Splits(range[1], range[2]), range[2] - range[1] >= IntMin,
         scalar_start = range[1], scalar_bound = range[2]
  PROVE  /\ Middle \in Int32 /\ range[1] < Middle /\ Middle < range[2]
         /\ FirstPart = IF loop.effect = "before" /\ loop.lhs = "phi" THEN Middle - 1 ELSE Middle
         /\ BodyBound(Middle, range[2]) = range[2]
         /\ Whole(range[1], FirstPart) = {k \in Whole(range[1], range[2]) : k < Middle}
         /\ Whole(Middle, range[2]) = {k \in Whole(range[1], range[2]) : k >= Middle}
<1> DEFINE lo == range[1]
           hi == range[2]
           n == Wrap(hi - lo)
           half == n \div 2
<1>1. lo \in Int32 /\ hi \in Int32
  BY DEF TypeOK
<1>2. n = hi - lo /\ n > 1 /\ n <= IntMax
  BY <1>1, IntMaxAssumption DEF Splits, Wrap, Int32, IntMin
<1> HIDE DEF n
<1>3. half \in Int /\ half >= 1 /\ half < n
  BY <1>1, <1>2 DEF Int32
<1>4. Middle = Wrap(lo + half)
  BY DEF Middle, Mid, half, n
<1> HIDE DEF half
<1>5. Middle \in Int32 /\ lo < Middle /\ Middle < hi
  BY <1>1, <1>2, <1>3, <1>4, IntMaxAssumption DEF Wrap, Int32, IntMin
<1>6. FirstPart = IF loop.effect = "before" /\ loop.lhs = "phi" THEN Middle - 1 ELSE Middle
  BY <1>1, <1>5, CasesAssumption, IntMaxAssumption
     DEF FirstPart, BodyBound, SplitsWell, Reduces, latchComparesIV, Wrap, Int32, IntMin, TypeOK, Shapes
<1>7. BodyBound(Middle, hi) = hi
  BY <1>5 DEF BodyBound
<1>8. loop.lhs \in {"phi", "next"} /\ loop.effect \in {"before", "after"}
      /\ (loop.effect = "after" => loop.lhs = "phi")
  BY CasesAssumption DEF SplitsWell, TypeOK, Shapes
<1> HIDE DEF lo, hi
<1> DEFINE In(k, x, b) ==
             \/ k = x /\ loop.effect = "before"
             \/ x <= k /\ k < b
             \/ x <= k /\ k = b /\ loop.effect = "before" /\ loop.lhs = "phi"
<1>9. ASSUME NEW x \in Int32, NEW b \in Int32, x < IntMax
      PROVE  Whole(x, b) = {k \in Int32 : In(k, x, b)}
  <2>1. CASE loop.lhs = "phi"
    BY <1>8, <1>9, <2>1 DEF Whole, Passed, Exit, Int32
  <2>2. CASE loop.lhs = "next"
    BY <1>8, <1>9, <2>2, NextValue, IntMaxAssumption DEF Whole, Passed, Exit, Int32, IntMin
  <2> QED
    BY <1>8, <2>1, <2>2
<1>10. FirstPart \in Int32 /\ lo < IntMax /\ Middle < IntMax
  BY <1>1, <1>5, <1>6, IntMaxAssumption DEF Int32, IntMin
<1>11. Whole(lo, FirstPart) = {k \in Whole(lo, hi) : k < Middle}
  BY <1>1, <1>5, <1>6, <1>8, <1>9, <1>10 DEF Int32
<1>12. Whole(Middle, hi) = {k \in Whole(lo, hi) : k >= Middle}
  BY <1>1, <1>5, <1>6, <1>8, <1>9, <1>10 DEF Int32
<1> QED
  BY <1>5, <1>6, <1>7, <1>11, <1>12 DEF lo, hi

\* What an activation has applied, or applies in this pass, is an iteration of its part.
LEMMA StaysInside ==
  ASSUME TypeOK, SplitsWell(loop), NEW a \in Activations, NEW lo \in Int32, OnTrack(a, lo)
  PROVE  /\ Ran(a, lo) \subseteq Whole(lo, a.bound)
         /\ a.at = "loop" => Applied(a) \subseteq Whole(lo, a.bound)
<1> DEFINE i == a.i
           b == a.bound
<1>1. i \in Int32 /\ b \in Int32 /\ a.at \in {"idle", "entry", "loop"}
  BY DEF Activations
<1>2. loop.lhs \in {"phi", "next"} /\ loop.effect \in {"before", "after"}
      /\ (loop.effect = "after" => loop.lhs = "phi")
  BY CasesAssumption DEF SplitsWell, TypeOK, Shapes
<1>3. Applied(a) \subseteq {i} /\ (loop.effect = "after" /\ ~(i < b) => Applied(a) = {})
  BY <1>2 DEF Applied, Applies, Stays
<1>4. Wrap(b - 1) = IF b = IntMin THEN IntMax ELSE b - 1
  BY <1>1, NextValue
<1> HIDE DEF i, b
<1>5. CASE a.at = "loop"
  <2>1. Underway(lo, i, b) /\ Ran(a, lo) = Passed(lo, i)
    BY <1>5 DEF OnTrack, Ran, i, b
  <2>2. Passed(lo, i) \subseteq Whole(lo, b)
    <3>1. CASE loop.lhs = "phi"
      BY <1>1, <2>1, <3>1 DEF Underway, Whole, Passed, Exit, Int32
    <3>2. CASE loop.lhs = "next"
      <4>1. loop.effect = "before"
        BY <1>2, <3>2
      <4>2. CASE i = lo
        BY <1>1, <4>2 DEF Passed, Int32
      <4>3. CASE i < b /\ lo < i
        BY <1>1, <1>4, <3>2, <4>1, <4>3, IntMaxAssumption DEF Whole, Passed, Exit, Int32, IntMin
      <4>4. CASE i < b /\ lo = IntMax
        BY <1>1, <1>4, <3>2, <4>1, <4>4, IntMaxAssumption DEF Whole, Passed, Exit, Int32, IntMin
      <4> QED
        BY <2>1, <3>2, <4>2, <4>3, <4>4 DEF Underway
    <3> QED
      BY <1>2, <3>1, <3>2
  <2>3. loop.effect = "before" => i \in Whole(lo, b)
    <3>1. CASE loop.lhs = "phi"
      BY <1>1, <2>1, <3>1 DEF Underway, Whole, Passed, Exit, Int32
    <3>2. CASE loop.lhs = "next"
      BY <1>1, <1>4, <2>1, <3>2, IntMaxAssumption DEF Underway, Whole, Passed, Exit, Int32, IntMin
    <3> QED
      BY <1>2, <3>1, <3>2
  <2>4. loop.effect = "after" /\ i < b => i \in Whole(lo, b)
    BY <1>1, <1>2, <2>1 DEF Underway, Whole, Passed, Exit, Int32
  <2> QED
    BY <1>2, <1>3, <2>1, <2>2, <2>3, <2>4 DEF b
<1>6. CASE a.at /= "loop"
  BY <1>1, <1>6 DEF Ran, b
<1> QED
  BY <1>5, <1>6

-----------------------------------------------------------------------------
(* Stores and sums: how often the effect of each iteration was applied.    *)

Count(S) == [k \in Int32 |-> IF k \in S THEN 1 ELSE 0]
Stores(S) == IF loop.kind = "store" THEN Count(S) ELSE None

LEMMA CountFacts ==
  /\ Count({}) = None
  /\ \A S, i : i \in Int32 /\ i \notin S => Once(Count(S), i) = Count(S \cup {i})
  /\ \A S, R : S \cap R = {} => Sum(Count(S), Count(R)) = Count(S \cup R)
  /\ \A S : Sum(Count(S), None) = Count(S)
<1>1. Count({}) = None
  BY DEF Count, None
<1>2. ASSUME NEW S, NEW i \in Int32, i \notin S PROVE Once(Count(S), i) = Count(S \cup {i})
  <2>1. Count(S)[i] + 1 = 1 /\ DOMAIN Count(S) = Int32
    BY <1>2 DEF Count
  <2>2. Once(Count(S), i) = [k \in Int32 |-> IF k = i THEN 1 ELSE Count(S)[k]]
    BY <1>2, <2>1 DEF Once, Count
  <2> QED
    BY <2>2 DEF Count
<1>3. ASSUME NEW S, NEW R, S \cap R = {} PROVE Sum(Count(S), Count(R)) = Count(S \cup R)
  BY <1>3 DEF Count, Sum
<1>4. ASSUME NEW S PROVE Sum(Count(S), None) = Count(S)
  BY DEF Count, Sum, None
<1> QED
  BY <1>1, <1>2, <1>3, <1>4

\* The effect of a pass on what has been stored so far, and on a sum.
LEMMA StoreEffect ==
  ASSUME TypeOK, NEW a \in Activations, NEW side \in Sides, NEW S, Applied(a) \cap S = {}
  PROVE  /\ cells[side] = Stores(S) => Stored(side, a)[side] = Stores(S \cup Applied(a))
         /\ \A other \in Sides : other /= side => Stored(side, a)[other] = cells[other]
<1>1. a.i \in Int32 /\ cells \in [Sides -> Effects]
  BY DEF Activations, TypeOK
<1>2. CASE Applies(a)
  <2>1. Applied(a) = {a.i} /\ a.i \notin S
    BY <1>2 DEF Applied
  <2> QED
    BY <1>1, <1>2, <2>1, CountFacts DEF Stored, Stores
<1>3. CASE ~Applies(a)
  <2>1. Applied(a) = {} /\ S \cup Applied(a) = S
    BY <1>3 DEF Applied
  <2> QED
    BY <1>1, <1>3, <2>1 DEF Stored
<1> QED
  BY <1>2, <1>3

LEMMA SumEffect ==
  ASSUME NEW a \in Activations, NEW S, Applied(a) \cap S = {}, NEW t, NEW inLoop,
         loop.kind = "sum", a.acc = Count(S)
  PROVE  Updated(a, t, inLoop) = Count(S \cup Applied(a))
<1>1. a.i \in Int32
  BY DEF Activations
<1>2. CASE Applies(a)
  <2>1. Applied(a) = {a.i} /\ a.i \notin S
    BY <1>2 DEF Applied
  <2> QED
    BY <1>1, <1>2, <2>1, CountFacts DEF Updated, Reduces
<1>3. CASE ~Applies(a)
  <2>1. S \cup Applied(a) = S
    BY <1>3 DEF Applied
  <2> QED
    BY <1>3, <2>1 DEF Updated
<1> QED
  BY <1>2, <1>3

\* The source loop applies the iterations of the whole range.
SourceIterations == Whole(range[1], range[2])

SourceEffects ==
  /\ range[2] - range[1] >= IntMin
  /\ pc = "source" =>
       /\ OnTrack(proc["source"], range[1])
       /\ cells["source"] = Stores(Ran(proc["source"], range[1]))
       /\ loop.kind = "sum" => proc["source"].acc = Count(Ran(proc["source"], range[1]))
  /\ pc \in {"call", "body", "done"} =>
       /\ cells["source"] = Stores(SourceIterations)
       /\ loop.kind = "sum" => result["source"] = Count(SourceIterations)
  /\ pc \in {"source", "call"} => cells["outlined"] = None

LEMMA InitSourceEffects == Init => SourceEffects
BY IntMaxAssumption DEF Init, SourceEffects, IntMin

LEMMA NextSourceEffects ==
  ASSUME SoundLoops, TypeOK, Layout, SourceEffects, [Next]_vars
  PROVE  SourceEffects'
<1>0. /\ proc \in [Threads -> Activations] /\ range[1] \in Int32 /\ range[2] \in Int32
      /\ cells \in [Sides -> Effects] /\ result \in [Sides -> Results]
      /\ SplitsWell(loop) /\ proc["source"] \in Activations
  BY DEF TypeOK, SoundLoops, Threads
<1>1. ASSUME NEW r \in Ranges[loop], Enter(r) PROVE SourceEffects'
  <2>1. r[1] \in Int32 /\ r[2] \in Int32 /\ r[2] - r[1] >= IntMin
    BY RangesAssumption DEF TypeOK, SoundLoops
  <2> DEFINE new == [Entering(r[1], r[2]) EXCEPT !.at = "loop"]
  <2>2. new.at = "loop" /\ new.i = r[1] /\ new.acc = Zero
    BY <2>1, EnteringType DEF Activations
  <2> HIDE DEF new
  <2>3. /\ proc'["source"] = new /\ range' = r /\ pc' = "source" /\ loop' = loop
        /\ cells' = [side \in Sides |-> None]
    BY <1>0, <1>1 DEF Enter, new, Threads
  <2>4. Passed(r[1], r[1]) = {}
    BY <2>1 DEF Passed, Int32
  <2>5. OnTrack(proc["source"], range[1])' /\ Ran(proc["source"], range[1])' = {}
    BY <2>2, <2>3, <2>4 DEF OnTrack, Underway, Ran
  <2>6. Stores({})' = None /\ (loop.kind = "sum" => Zero = Count({}))
    BY CountFacts, <2>3 DEF Stores, Zero, IsModulo
  <2> QED
    BY <2>1, <2>2, <2>3, <2>5, <2>6 DEF SourceEffects, Sides
<1>2. ASSUME NEW t \in Terms, SourcePass(t) PROVE SourceEffects'
  <2> DEFINE a == proc["source"]
             lo == range[1]
             S == Ran(a, lo)
             acc == SourceUpdate(a, t)
             new == Advanced(a, acc)
  <2>1. acc \in Accumulators /\ a.at = "loop" /\ a.bound = range[2] /\ OnTrack(a, lo)
    BY <1>0, <1>2, UpdatedType, TermsAssumption DEF SourceUpdate, SourcePass, Layout, SourceEffects
  <2>2. /\ OnTrack(new, lo) /\ Ran(new, lo) = S \cup Applied(a) /\ a.i \notin S
    BY <1>0, <2>1, PassFacts
  <2>3. /\ Stays(a) => new.at = "loop"
        /\ ~Stays(a) => new.at = "idle" /\ new.bound = a.bound
    BY <1>0, <2>1, AdvancedType
  <2>4. Applied(a) \cap S = {}
    BY <2>2 DEF Applied
  <2>5. /\ Stored("source", a)["source"] = Stores(S \cup Applied(a))
        /\ Stored("source", a)["outlined"] = None
        /\ loop.kind = "sum" => acc = Count(S \cup Applied(a))
    <3>1. pc = "source" /\ cells["source"] = Stores(S) /\ cells["outlined"] = None
          /\ (loop.kind = "sum" => a.acc = Count(S))
      BY <1>2 DEF SourcePass, SourceEffects
    <3>2. /\ Stored("source", a)["source"] = Stores(S \cup Applied(a))
          /\ Stored("source", a)["outlined"] = None
      BY <1>0, <2>4, <3>1, StoreEffect DEF Sides
    <3>3. loop.kind = "sum" => acc = Count(S \cup Applied(a))
      BY <1>0, <2>4, <3>1, SumEffect DEF SourceUpdate
    <3> QED
      BY <3>2, <3>3
  <2>6. new.acc = acc
    BY <1>0, <2>1, AdvancedType
  <2> HIDE DEF a, lo, S, acc, new
  <2>7. /\ proc'["source"] = new /\ loop' = loop /\ range' = range /\ lo' = lo
        /\ cells' = Stored("source", a)
        /\ IF Stays(a) THEN pc' = "source"
           ELSE pc' = "call" /\ result' = [result EXCEPT !["source"] = LiveOut(acc)]
    BY <1>0, <1>2 DEF SourcePass, a, lo, acc, new, Threads
  <2>8. CASE Stays(a)
    BY <2>2, <2>3, <2>5, <2>6, <2>7, <2>8
         DEF SourceEffects, OnTrack, Underway, Exit, Ran, Whole, Stores, lo
  <2>9. CASE ~Stays(a)
    <3>1. Ran(new, lo) = SourceIterations
      BY <2>1, <2>3, <2>9 DEF Ran, SourceIterations, lo
    <3>2. loop.kind = "sum" => result'["source"] = acc
      BY <1>0, <2>7, <2>9 DEF LiveOut, Sides
    <3> QED
      BY <2>2, <2>5, <2>7, <2>9, <3>1, <3>2 DEF SourceEffects, Whole, Exit, Stores, SourceIterations
  <2> QED
    BY <2>8, <2>9
<1>3. CASE ParCall
  BY <1>3 DEF ParCall, SourceEffects, Whole, Exit, Stores, SourceIterations
<1>4. ASSUME NEW t \in {"main", "worker"}, BodyEntry(t) PROVE SourceEffects'
  BY <1>4 DEF BodyEntry, SourceEffects, Whole, Exit, Stores, SourceIterations
<1>5. ASSUME NEW t \in {"main", "worker"}, BodyPass(t) PROVE SourceEffects'
  <2>1. Stored("outlined", proc[t])["source"] = cells["source"]
    BY <1>0 DEF Stored, Sides
  <2> QED
    BY <1>5, <2>1 DEF BodyPass, SourceEffects, Whole, Exit, Stores, SourceIterations
<1>6. CASE Merge
  BY <1>0, <1>6 DEF Merge, SourceEffects, Whole, Exit, Stores, SourceIterations, Sides
<1>7. CASE UNCHANGED vars
  BY <1>7 DEF vars, SourceEffects, Whole, Exit, Stores, SourceIterations, OnTrack, Underway, Ran
<1> QED
  BY <1>1, <1>2, <1>3, <1>4, <1>5, <1>6, <1>7 DEF Next

\* The threads that run the body, where each begins, and where its partial result goes.
Bodies == {"main", "worker"}
Active(split) == IF split THEN Bodies ELSE {"main"}
Begin(t) == IF t = "main" THEN range[1] ELSE Middle
Slot(t) == IF t = "main" THEN 0 ELSE 1

\* The iterations thread t has to run, and those it has run.
Iterations(t, split) ==
  IF ~split THEN SourceIterations
  ELSE IF t = "main" THEN {k \in SourceIterations : k < Middle}
  ELSE {k \in SourceIterations : k >= Middle}
Reached(t) == Ran(proc[t], Begin(t))
AllReached(split) == IF split THEN Reached("main") \cup Reached("worker") ELSE Reached("main")

OnTheirWay(split) ==
  /\ Division(split)
  /\ \A t \in Active(split) : OnTrack(proc[t], Begin(t))

LEMMA Apart ==
  ASSUME TypeOK, SplitsWell(loop), range[2] - range[1] >= IntMin,
         NEW split \in BOOLEAN, OnTheirWay(split), NEW t \in Active(split)
  PROVE  /\ proc[t] \in Activations /\ Begin(t) \in Int32
         /\ Reached(t) \subseteq Iterations(t, split)
         /\ proc[t].at = "loop" => Applied(proc[t]) \subseteq Iterations(t, split)
         /\ proc[t].at = "idle" => Reached(t) = Iterations(t, split)
<1> DEFINE a == proc[t]
           W == Whole(Begin(t), a.bound)
<1>1. range[1] \in Int32 /\ range[2] \in Int32 /\ a \in Activations
  BY DEF TypeOK, Active, Bodies, Threads
<1>2. OnTrack(a, Begin(t)) /\ Division(split)
  BY DEF OnTheirWay
<1>3. Begin(t) \in Int32
  BY <1>1, <1>2, MidIsLater DEF Begin, Division, Middle, Active
<1>4. Reached(t) \subseteq W /\ (a.at = "loop" => Applied(a) \subseteq W)
  BY <1>1, <1>2, <1>3, StaysInside DEF Reached
<1>5. a.at = "idle" => Reached(t) = W
  BY DEF Reached, Ran
<1>6. a.at = "entry" => Reached(t) = {}
  BY DEF Reached, Ran
<1>7. a.at /= "entry" => W = Iterations(t, split)
  <2> HAVE a.at /= "entry"
  <2>1. CASE ~split
    <3>1. t = "main" /\ a.bound = BodyBound(range[1], range[2]) /\ scalar_bound = range[2]
      BY <1>2, <2>1 DEF Active, Division, Given, MainEnd
    <3> QED
      BY <2>1, <3>1 DEF BodyBound, Iterations, Begin, SourceIterations
  <2>2. CASE split /\ t = "main"
    <3>1. a.bound = FirstPart
      BY <1>2, <2>2 DEF Division, Given, MainEnd, FirstPart
    <3> QED
      BY <1>2, <2>2, <3>1, PartsJoin DEF Iterations, Begin, SourceIterations, Division
  <2>3. CASE split /\ t = "worker"
    <3>1. a.bound = BodyBound(Middle, range[2])
      BY <1>2, <2>3 DEF Division, Given
    <3> QED
      BY <1>2, <2>3, <3>1, PartsJoin DEF Iterations, Begin, SourceIterations, Division
  <2> QED
    BY <2>1, <2>2, <2>3 DEF Active, Bodies
<1> QED
  BY <1>1, <1>3, <1>4, <1>5, <1>6, <1>7 DEF Activations

\* What the body has done so far: its stores, and the partial sums.
BodyEffects(split) ==
  /\ OnTheirWay(split)
  /\ cells["outlined"] = Stores(AllReached(split))
  /\ loop.kind = "sum" =>
       /\ \A t \in Active(split) : proc[t].at /= "idle" => proc[t].acc = Count(Reached(t))
       /\ \A t \in Bodies :
            scalar_partial[Slot(t)] =
              IF t \in Active(split) /\ proc[t].at = "idle" THEN Count(Reached(t)) ELSE None

LEMMA CallOnTheirWay ==
  ASSUME TypeOK, Layout, ParCall
  PROVE  \E split \in BOOLEAN :
           /\ OnTheirWay(split)'
           /\ \A t \in Active(split) : Fresh(t)' /\ Reached(t)' = {} /\ proc'[t].i = Begin(t)'
<1>1. PICK split \in BOOLEAN : Division(split)' /\ Fresh("main")' /\ (split => Fresh("worker")')
  BY CallDivision
<1>2. \A t \in Active(split) : Fresh(t)'
  BY <1>1 DEF Active, Bodies
<1>3. \A t \in Active(split) : OnTrack(proc[t], Begin(t))' /\ Reached(t)' = {}
  BY <1>2 DEF Fresh, OnTrack, Reached, Ran
<1>4. \A t \in Active(split) : proc'[t].i = Begin(t)'
  BY <1>1, <1>2 DEF Division, Given, Fresh, Begin, Active, Bodies
<1>5. OnTheirWay(split)'
  BY <1>1, <1>3 DEF OnTheirWay, Active
<1> QED
  BY <1>2, <1>3, <1>4, <1>5

LEMMA CallEffects ==
  ASSUME TypeOK, Layout, SourceEffects, ParCall
  PROVE  \E split \in BOOLEAN : BodyEffects(split)'
<1>1. PICK split \in BOOLEAN :
        /\ OnTheirWay(split)'
        /\ \A t \in Active(split) : Fresh(t)' /\ Reached(t)' = {}
  BY CallOnTheirWay
<1>2. /\ pc = "call" /\ UNCHANGED <<loop, cells>>
      /\ loop.kind = "sum" => scalar_partial' = [s \in {0, 1} |-> None] /\ Zero' = None
  BY DEF ParCall, Identity, Zero, IsModulo, Reduces, None
<1>3. AllReached(split)' = {} /\ cells' = cells /\ cells["outlined"] = None /\ Stores({})' = None
  BY <1>1, <1>2, CountFacts DEF AllReached, Active, Bodies, SourceEffects, Stores
<1>4. loop'.kind = "sum" =>
        /\ \A t \in Active(split) : proc'[t].acc = Count({}) /\ proc'[t].at = "entry"
        /\ \A t \in Bodies : scalar_partial'[Slot(t)] = None
  BY <1>1, <1>2, CountFacts DEF Fresh, Slot
<1>5. cells'["outlined"] = Stores(AllReached(split))'
  BY <1>2, <1>3 DEF Stores
<1> QED
  BY <1>1, <1>4, <1>5 DEF BodyEffects, Active

\* The entry of the body changes neither what a thread has reached nor its accumulator.
LEMMA EntryOnTheirWay ==
  ASSUME TypeOK, NEW t \in Bodies, BodyEntry(t), NEW split \in BOOLEAN, OnTheirWay(split)
  PROVE  /\ OnTheirWay(split)'
         /\ \A s \in Bodies :
              /\ Reached(s)' = Reached(s)
              /\ proc'[s].i = proc[s].i /\ proc'[s].acc = proc[s].acc
              /\ proc'[s].at = "idle" <=> proc[s].at = "idle"
<1>1. /\ Division(split) /\ Division(split)' /\ t \in Active(split)
  BY EntryDivision DEF OnTheirWay, Bodies, Active, Division, BodyEntry
<1>2. proc \in [Threads -> Activations] /\ proc[t] \in Activations /\ range[1] \in Int32 /\ range[2] \in Int32
  BY DEF TypeOK, Bodies, Threads
<1> DEFINE new == [proc[t] EXCEPT !.at = "loop", !.bound = BodyBound(proc[t].i, proc[t].bound),
                                  !.slot = SlotOf(proc[t].i)]
<1>3. new.at = "loop" /\ new.i = proc[t].i /\ new.acc = proc[t].acc
  BY <1>2 DEF Activations
<1> HIDE DEF new
<1>4. /\ proc' = [proc EXCEPT ![t] = new] /\ proc[t].at = "entry"
      /\ UNCHANGED <<loop, range>>
  BY DEF BodyEntry, new
<1>5. proc[t].i = Begin(t) /\ Begin(t) \in Int32
  BY <1>1, <1>2, <1>4, MidIsLater DEF Division, Given, Begin, Middle, Bodies, Active
<1>6. \A s : Begin(s)' = Begin(s)
  BY <1>4 DEF Begin, Middle
<1>7. proc'[t] = new /\ \A s \in Bodies : s /= t => proc'[s] = proc[s]
  BY <1>2, <1>4 DEF Bodies, Threads
<1>8. Passed(Begin(t), Begin(t)) = {}
  BY <1>5 DEF Passed, Int32
<1>9. OnTrack(proc[t], Begin(t))' /\ Reached(t)' = Reached(t)
  BY <1>3, <1>4, <1>5, <1>6, <1>7, <1>8 DEF OnTrack, Underway, Reached, Ran
<1>10. \A s \in Bodies : s /= t => Reached(s)' = Reached(s) /\ OnTrack(proc[s], Begin(s))' = OnTrack(proc[s], Begin(s))
  BY <1>4, <1>6, <1>7 DEF OnTrack, Underway, Exit, Reached, Ran, Whole
<1>11. OnTheirWay(split)'
  BY <1>1, <1>9, <1>10 DEF OnTheirWay, Active, Bodies
<1> QED
  BY <1>3, <1>4, <1>7, <1>9, <1>10, <1>11

LEMMA EntryEffects ==
  ASSUME TypeOK, NEW t \in Bodies, BodyEntry(t), NEW split \in BOOLEAN, BodyEffects(split)
  PROVE  BodyEffects(split)'
<1>1. /\ OnTheirWay(split)'
      /\ \A s \in Bodies :
           /\ Reached(s)' = Reached(s) /\ proc'[s].acc = proc[s].acc
           /\ proc'[s].at = "idle" <=> proc[s].at = "idle"
      /\ UNCHANGED <<loop, cells, scalar_partial>>
  BY EntryOnTheirWay DEF BodyEffects, BodyEntry
<1>2. AllReached(split)' = AllReached(split)
  BY <1>1 DEF AllReached, Bodies
<1>3. cells'["outlined"] = Stores(AllReached(split))'
  BY <1>1, <1>2 DEF BodyEffects, Stores
<1>4. ASSUME loop.kind = "sum"
      PROVE  /\ \A s \in Active(split) : proc'[s].at /= "idle" => proc'[s].acc = Count(Reached(s))'
             /\ \A s \in Bodies :
                  scalar_partial'[Slot(s)] =
                    IF s \in Active(split) /\ proc'[s].at = "idle" THEN Count(Reached(s))' ELSE None
  BY <1>1, <1>4 DEF BodyEffects, Active, Bodies, Count
<1> QED
  BY <1>1, <1>3, <1>4 DEF BodyEffects, Active

\* The two parts are disjoint, and together they are the source's iterations.
LEMMA PartsOfAll ==
  ASSUME TypeOK, NEW split \in BOOLEAN, split => Middle \in Int32
  PROVE  /\ SourceIterations \subseteq Int32
         /\ split => /\ Iterations("main", split) \cap Iterations("worker", split) = {}
                     /\ Iterations("main", split) \cup Iterations("worker", split) = SourceIterations
         /\ ~split => Iterations("main", split) = SourceIterations
<1>1. range[1] \in Int32 /\ range[2] \in Int32
  BY DEF TypeOK
<1>2. SourceIterations \subseteq Int32
  BY <1>1, NextFacts DEF SourceIterations, Whole, Passed, Exit
<1>3. CASE split
  <2>1. /\ Iterations("main", split) = {k \in SourceIterations : k < Middle}
        /\ Iterations("worker", split) = {k \in SourceIterations : k >= Middle}
    BY <1>3 DEF Iterations
  <2>2. \A k \in SourceIterations : ~(k < Middle /\ k >= Middle) /\ (k < Middle \/ k >= Middle)
    BY <1>2, <1>3 DEF Int32
  <2> QED
    BY <1>2, <1>3, <2>1, <2>2
<1>4. CASE ~split
  BY <1>2, <1>4 DEF Iterations
<1> QED
  BY <1>3, <1>4

\* A pass adds its iteration to what its thread has reached; the other thread's are others.
LEMMA PassOnTheirWay ==
  ASSUME TypeOK, SplitsWell(loop), range[2] - range[1] >= IntMin,
         NEW t \in Bodies, BodyPass(t), NEW split \in BOOLEAN, OnTheirWay(split)
  PROVE  /\ OnTheirWay(split)'
         /\ t \in Active(split) /\ proc[t].at = "loop" /\ proc[t].slot = Slot(t)
         /\ Reached(t)' = Reached(t) \cup Applied(proc[t])
         /\ proc[t].i \notin Reached(t)
         /\ \A s \in Bodies : s /= t => Reached(s)' = Reached(s) /\ proc'[s] = proc[s]
         /\ Applied(proc[t]) \cap AllReached(split) = {}
<1> DEFINE a == proc[t]
           new == Advanced(a, BodyUpdate(a))
<1>1. /\ t \in Active(split) /\ a.at = "loop" /\ a.slot = Slot(t) /\ Division(split)
  BY DEF OnTheirWay, Bodies, Active, Division, BodyPass, Given, Slot
<1>2. /\ a \in Activations /\ terms[a.i] \in Int32 /\ OnTrack(a, Begin(t)) /\ Begin(t) \in Int32
      /\ proc \in [Threads -> Activations]
  BY <1>1, Apart, TermsAssumption DEF OnTheirWay, TypeOK, Activations
<1>3. BodyUpdate(a) \in Accumulators
  BY <1>2, UpdatedType DEF BodyUpdate
<1>4. OnTrack(new, Begin(t)) /\ Ran(new, Begin(t)) = Ran(a, Begin(t)) \cup Applied(a) /\ a.i \notin Ran(a, Begin(t))
  BY <1>1, <1>2, <1>3, PassFacts
<1> HIDE DEF new
<1>5. proc' = [proc EXCEPT ![t] = new] /\ UNCHANGED <<loop, range>>
  BY DEF BodyPass, new
<1>6. proc'[t] = new /\ \A s \in Bodies : s /= t => proc'[s] = proc[s]
  BY <1>2, <1>5 DEF Bodies, Threads
<1>7. \A s : Begin(s)' = Begin(s)
  BY <1>5 DEF Begin, Middle
<1>8. OnTrack(proc[t], Begin(t))' /\ Reached(t)' = Reached(t) \cup Applied(a)
  BY <1>4, <1>5, <1>6, <1>7 DEF OnTrack, Underway, Exit, Reached, Ran, Whole
<1>9. \A s \in Bodies : s /= t => Reached(s)' = Reached(s) /\ OnTrack(proc[s], Begin(s))' = OnTrack(proc[s], Begin(s))
  BY <1>5, <1>6, <1>7 DEF OnTrack, Underway, Exit, Reached, Ran, Whole
<1>10. OnTheirWay(split)'
  <2>1. Division(split)'
    BY <1>1, PassDivision DEF Bodies
  <2> QED
    BY <2>1, <1>8, <1>9 DEF OnTheirWay, Active, Bodies
<1>11. Applied(a) \cap AllReached(split) = {}
  <2>1. Applied(a) \cap Reached(t) = {}
    BY <1>4 DEF Applied, Reached
  <2>2. ASSUME NEW s \in Active(split), s /= t PROVE Applied(a) \cap Reached(s) = {}
    <3>1. Applied(a) \subseteq Iterations(t, split) /\ Reached(s) \subseteq Iterations(s, split)
      BY <1>1, Apart
    <3>2. split /\ {s, t} = Bodies
      BY <1>1, <2>2 DEF Active, Bodies
    <3>3. Iterations(t, split) \cap Iterations(s, split) = {}
      <4>1. Middle \in Int32
        BY <1>1, <3>2, MidIsLater DEF Division, Middle, TypeOK
      <4>2. Iterations("main", split) \cap Iterations("worker", split) = {}
        BY <3>2, <4>1, PartsOfAll
      <4> QED
        BY <2>2, <3>2, <4>2 DEF Bodies
    <3> QED
      BY <3>1, <3>3
  <2> QED
    BY <1>1, <2>1, <2>2 DEF AllReached, Active, Bodies
<1> QED
  BY <1>1, <1>4, <1>6, <1>8, <1>9, <1>10, <1>11 DEF Reached

LEMMA PassEffects ==
  ASSUME TypeOK, SplitsWell(loop), range[2] - range[1] >= IntMin,
         NEW t \in Bodies, BodyPass(t), NEW split \in BOOLEAN, BodyEffects(split)
  PROVE  BodyEffects(split)'
<1> DEFINE a == proc[t]
           new == Advanced(a, BodyUpdate(a))
<1>1. /\ OnTheirWay(split)' /\ t \in Active(split) /\ a.at = "loop" /\ a.slot = Slot(t)
      /\ Reached(t)' = Reached(t) \cup Applied(a)
      /\ \A s \in Bodies : s /= t => Reached(s)' = Reached(s) /\ proc'[s] = proc[s]
      /\ Applied(a) \cap AllReached(split) = {}
  BY PassOnTheirWay DEF BodyEffects
<1>2. Reached(t) \subseteq AllReached(split)
  BY <1>1 DEF AllReached, Active, Bodies
<1>3. a \in Activations /\ terms[a.i] \in Int32 /\ proc \in [Threads -> Activations]
      /\ scalar_partial \in [{0, 1} -> Results]
  BY TermsAssumption DEF TypeOK, Activations, Bodies, Threads
<1>4. BodyUpdate(a) \in Accumulators
  BY <1>3, UpdatedType DEF BodyUpdate
<1>5. /\ new.acc = BodyUpdate(a)
      /\ Stays(a) => new.at = "loop"
      /\ ~Stays(a) => new.at = "idle"
  BY <1>1, <1>3, <1>4, AdvancedType
<1> HIDE DEF new
<1>6. proc'[t] = new /\ loop' = loop /\ cells' = Stored("outlined", a)
  BY <1>3 DEF BodyPass, Bodies, Threads, new
<1>7. AllReached(split)' = AllReached(split) \cup Applied(a)
  BY <1>1 DEF AllReached, Active, Bodies
<1>8. cells'["outlined"] = Stores(AllReached(split))'
  <2>1. cells'["outlined"] = Stores(AllReached(split) \cup Applied(a))
    BY <1>1, <1>3, <1>6, StoreEffect DEF BodyEffects, Sides
  <2> QED
    BY <1>6, <1>7, <2>1 DEF Stores
<1>9. ASSUME loop.kind = "sum"
      PROVE  /\ \A s \in Active(split) : proc'[s].at /= "idle" => proc'[s].acc = Count(Reached(s))'
             /\ \A s \in Bodies :
                  scalar_partial'[Slot(s)] =
                    IF s \in Active(split) /\ proc'[s].at = "idle" THEN Count(Reached(s))' ELSE None
  <2>1. a.acc = Count(Reached(t)) /\ Applied(a) \cap Reached(t) = {}
    BY <1>1, <1>2, <1>9 DEF BodyEffects
  <2>2. BodyUpdate(a) = Count(Reached(t))'
    <3>1. BodyUpdate(a) = Count(Reached(t) \cup Applied(a))
      BY <1>3, <1>9, <2>1, SumEffect DEF BodyUpdate
    <3> QED
      BY <1>1, <3>1 DEF Count
  <2>3. ~Stays(a) => PartialValue(a) = BodyUpdate(a)
    BY <1>9 DEF SplitsWell, PartialValue, BodyUpdate, Updated, Applies
  <2>4. scalar_partial' = IF ~Stays(a) THEN [scalar_partial EXCEPT ![Slot(t)] = PartialValue(a)]
                          ELSE scalar_partial
    BY <1>1, <1>9 DEF BodyPass, Reduces
  <2>5. \A s \in Active(split) : proc'[s].at /= "idle" => proc'[s].acc = Count(Reached(s))'
    BY <1>1, <1>5, <1>6, <1>9, <2>2 DEF BodyEffects, Active, Bodies, Count
  <2>6. ASSUME NEW s \in Bodies, s /= t
        PROVE  scalar_partial'[Slot(s)] =
                 IF s \in Active(split) /\ proc'[s].at = "idle" THEN Count(Reached(s))' ELSE None
    <3>1. scalar_partial'[Slot(s)] = scalar_partial[Slot(s)]
      BY <1>3, <2>4, <2>6 DEF Slot, Bodies
    <3> QED
      BY <1>1, <1>9, <2>6, <3>1 DEF BodyEffects, Count
  <2>7. scalar_partial'[Slot(t)] =
          IF t \in Active(split) /\ proc'[t].at = "idle" THEN Count(Reached(t))' ELSE None
    <3>1. CASE Stays(a)
      <4>1. scalar_partial[Slot(t)] = None
        BY <1>1, <1>9 DEF BodyEffects
      <4> QED
        BY <1>5, <1>6, <2>4, <3>1, <4>1
    <3>2. CASE ~Stays(a)
      <4>1. scalar_partial'[Slot(t)] = PartialValue(a)
        BY <1>3, <2>4, <3>2 DEF Slot, Bodies
      <4> QED
        BY <1>1, <1>5, <1>6, <2>2, <2>3, <3>2, <4>1
    <3> QED
      BY <3>1, <3>2
  <2> QED
    BY <2>5, <2>6, <2>7
<1> QED
  BY <1>1, <1>6, <1>8, <1>9 DEF BodyEffects, Active

OutlinedEffects ==
  /\ pc = "body" => \E split \in BOOLEAN : BodyEffects(split)
  /\ pc = "done" =>
       /\ cells["outlined"] = Stores(SourceIterations)
       /\ loop.kind = "sum" => result["outlined"] = Count(SourceIterations)

\* When both threads have returned they have run all iterations, and their sums add up.
LEMMA MergeEffects ==
  ASSUME TypeOK, SplitsWell(loop), SourceEffects, Layout, OutlinedEffects, Merge
  PROVE  OutlinedEffects'
<1>1. pc = "body" /\ pc' = "done" /\ UNCHANGED <<loop, range, cells>>
      /\ proc["main"].at = "idle" /\ proc["worker"].at = "idle"
      /\ result' = [result EXCEPT !["outlined"] = Merged] /\ range[2] - range[1] >= IntMin
      /\ result \in [Sides -> Results]
  BY DEF Merge, SourceEffects, TypeOK
<1>2. PICK split \in BOOLEAN : BodyEffects(split)
  BY <1>1 DEF OutlinedEffects
<1>3. \A t \in Active(split) : Reached(t) = Iterations(t, split)
  BY <1>1, <1>2, Apart DEF BodyEffects, Active, Bodies
<1>4. split => Middle \in Int32
  BY <1>2, MidIsLater DEF BodyEffects, OnTheirWay, Division, Middle, TypeOK
<1>7. /\ AllReached(split) = SourceIterations
      /\ split => Reached("main") \cap Reached("worker") = {}
  BY <1>3, <1>4, PartsOfAll DEF AllReached, Active, Bodies
<1>8. SourceIterations' = SourceIterations
  BY <1>1 DEF SourceIterations, Whole, Passed, Exit
<1>9. cells'["outlined"] = Stores(SourceIterations)'
  BY <1>1, <1>2, <1>7, <1>8 DEF BodyEffects, Stores
<1>10. ASSUME loop.kind = "sum" PROVE result'["outlined"] = Count(SourceIterations)
  <2>1. result'["outlined"] = Sum(scalar_partial[0], scalar_partial[1])
    BY <1>1, <1>10 DEF Merged, IsModulo, Sides
  <2>2. /\ scalar_partial[0] = Count(Reached("main"))
        /\ scalar_partial[1] = IF split THEN Count(Reached("worker")) ELSE None
    BY <1>1, <1>2, <1>10 DEF BodyEffects, Slot, Bodies, Active
  <2> QED
    BY <1>7, <2>1, <2>2, CountFacts DEF AllReached
<1> QED
  BY <1>1, <1>8, <1>9, <1>10 DEF OutlinedEffects, Count

LEMMA NextOutlinedEffects ==
  ASSUME SoundLoops, TypeOK, Layout, SourceEffects, OutlinedEffects, [Next]_vars
  PROVE  OutlinedEffects'
<1>0. SplitsWell(loop) /\ range[2] - range[1] >= IntMin
  BY DEF SoundLoops, TypeOK, SourceEffects
<1>1. ASSUME NEW r \in Ranges[loop], Enter(r) PROVE OutlinedEffects'
  BY <1>1 DEF Enter, OutlinedEffects
<1>2. ASSUME NEW t \in Terms, SourcePass(t) PROVE OutlinedEffects'
  BY <1>2 DEF SourcePass, OutlinedEffects
<1>3. CASE ParCall
  <2>1. pc' = "body"
    BY <1>3 DEF ParCall
  <2> QED
    BY <1>3, <2>1, CallEffects DEF OutlinedEffects
<1>4. ASSUME NEW t \in {"main", "worker"}, BodyEntry(t) PROVE OutlinedEffects'
  <2>1. pc = "body" /\ pc' = "body"
    BY <1>4 DEF BodyEntry
  <2> QED
    BY <1>4, <2>1, EntryEffects DEF OutlinedEffects, Bodies
<1>5. ASSUME NEW t \in {"main", "worker"}, BodyPass(t) PROVE OutlinedEffects'
  <2>1. pc = "body" /\ pc' = "body"
    BY <1>5 DEF BodyPass
  <2> QED
    BY <1>0, <1>5, <2>1, PassEffects DEF OutlinedEffects, Bodies
<1>6. CASE Merge
  BY <1>0, <1>6, MergeEffects
<1>7. CASE UNCHANGED vars
  <2>1. /\ UNCHANGED <<pc, cells, result, proc, scalar_partial, loop>>
        /\ SourceIterations' = SourceIterations
        /\ \A split \in BOOLEAN : Division(split) => Division(split)'
    BY <1>7
         DEF vars, Division, Given, MainEnd, Middle, BodyBound, Reduces, latchComparesIV, SourceIterations,
         Whole, Passed, Exit
  <2>2. \A t \in Bodies : Reached(t)' = Reached(t) /\ OnTrack(proc[t], Begin(t))' = OnTrack(proc[t], Begin(t))
    BY <1>7 DEF vars, Begin, Middle, Reached, OnTrack, Underway, Ran, Whole, Exit
  <2>3. ASSUME NEW split \in BOOLEAN, BodyEffects(split) PROVE BodyEffects(split)'
    <3>1. OnTheirWay(split)' /\ AllReached(split)' = AllReached(split)
      BY <2>1, <2>2, <2>3 DEF BodyEffects, OnTheirWay, AllReached, Active, Bodies
    <3> QED
      BY <2>1, <2>2, <2>3, <3>1 DEF BodyEffects, Active, Bodies, Stores, Count
  <2> QED
    BY <2>1, <2>3 DEF OutlinedEffects, Stores, Count
<1> QED
  BY <1>1, <1>2, <1>3, <1>4, <1>5, <1>6, <1>7 DEF Next

EffectsInv == TypeOK /\ Layout /\ SourceEffects /\ OutlinedEffects

LEMMA EffectsInductive ==
  ASSUME SoundLoops
  PROVE  Spec => []EffectsInv
<1>1. Init => EffectsInv
  BY InitTypeOK, InitLayout, InitSourceEffects DEF Init, EffectsInv, OutlinedEffects
<1>2. EffectsInv /\ [Next]_vars => EffectsInv'
  BY NextTypeOK, NextLayout, NextSourceEffects, NextOutlinedEffects DEF EffectsInv
<1> QED
  BY <1>1, <1>2, PTL DEF Spec

\* The outlined loop stores in exactly the iterations in which the source loop stores, each
\* once, whichever threads run its parts: for every loop that splits well and every range
\* whose length does not wrap to a positive one, of every int width.
THEOREM OutlinedStoresMatch ==
  ASSUME SoundLoops
  PROVE  Spec => []IterationsMatch
<1>1. EffectsInv => IterationsMatch
  BY DEF EffectsInv, SourceEffects, OutlinedEffects, IterationsMatch
<1> QED
  BY <1>1, EffectsInductive, PTL

\* For the same loops and ranges, the merged reduction has each term of the source loop's sum
\* exactly once, whatever the slots held before.
THEOREM OutlinedSumsMatch ==
  ASSUME SoundLoops
  PROVE  Spec => []ResultsMatch
<1>1. EffectsInv => ResultsMatch
  BY DEF EffectsInv, SourceEffects, OutlinedEffects, ResultsMatch
<1> QED
  BY <1>1, EffectsInductive, PTL

-----------------------------------------------------------------------------
(* Remainders.                                                             *)

LEMMA Quotient ==
  ASSUME NEW m \in Nat \ {0}, NEW x \in Int
  PROVE  x \div m \in Int /\ x % m \in 0 .. m - 1 /\ x = m * (x \div m) + (x % m)
OBVIOUS

LEMMA UniqueRemainder ==
  ASSUME NEW m \in Nat \ {0}, NEW q \in Int, NEW r \in 0 .. m - 1
  PROVE  (m * q + r) % m = r
<1> DEFINE x == m * q + r
           p == x \div m
           s == x % m
<1>1. m * q \in Int /\ x \in Int
  OBVIOUS
<1>2. p \in Int /\ s \in 0 .. m - 1 /\ x = m * p + s
  BY <1>1, Quotient
<1> HIDE DEF p, s
<1>3. m * (q - p) = s - r
  BY <1>2
<1>4. q - p \in Int /\ m * (q - p) < m /\ m * (q - p) > -m
  BY <1>2, <1>3
<1>5. ~(q - p >= 1)
  <2> SUFFICES ASSUME q - p >= 1 PROVE FALSE
    OBVIOUS
  <2>1. m * (q - p) >= m * 1
    BY <1>4
  <2> QED
    BY <2>1, <1>4
<1>6. ~(q - p <= -1)
  <2> SUFFICES ASSUME q - p <= -1 PROVE FALSE
    OBVIOUS
  <2>1. m * (q - p) <= m * (-1)
    BY <1>4
  <2> QED
    BY <2>1, <1>4
<1>7. q = p
  BY <1>2, <1>5, <1>6
<1> QED
  BY <1>2, <1>7 DEF s

LEMMA AddToRemainder ==
  ASSUME NEW m \in Nat \ {0}, NEW x \in Int, NEW d \in Int
  PROVE  ((x % m) + d) % m = (x + d) % m
<1> DEFINE s == (x % m) + d
           p == x \div m
           q == s \div m
           r == s % m
<1>1. p \in Int /\ s \in Int /\ x = m * p + (x % m)
  BY Quotient
<1>2. q \in Int /\ r \in 0 .. m - 1 /\ s = m * q + r
  BY <1>1, Quotient
<1>3. x + d = m * p + s
  BY <1>1
<1> HIDE DEF p, q, r, s
<1>4. m * p + m * q = m * (p + q)
  BY <1>1, <1>2
<1>5. x + d = m * (p + q) + r /\ p + q \in Int
  BY <1>1, <1>2, <1>3, <1>4
<1>6. (m * (p + q) + r) % m = r
  BY <1>2, <1>5, UniqueRemainder
<1> QED
  BY <1>5, <1>6 DEF r, s

Remainder(x) == SRem(x, Modulus)
SameSign(x, y) == (x >= 0 /\ y >= 0) \/ (x <= 0 /\ y <= 0)

LEMMA RemainderSign ==
  ASSUME NEW x \in Int
  PROVE  /\ Remainder(x) \in Remainders
         /\ x >= 0 => Remainder(x) = x % Modulus /\ Remainder(x) >= 0
         /\ x <= 0 => Remainder(x) = -((-x) % Modulus) /\ Remainder(x) <= 0
<1>1. Modulus \in Nat \ {0}
  BY ModulusAssumption, IntMaxAssumption
<1>2. \A y \in Int : y % Modulus \in 0 .. Modulus - 1
  BY <1>1
<1>3. 0 % Modulus = 0
  <2>1. (Modulus * 0 + 0) % Modulus = 0
    BY <1>1, UniqueRemainder
  <2> QED
    BY <1>1, <2>1
<1>4. Remainder(x) \in Remainders
  BY RemainderFacts DEF Remainder
<1>5. x >= 0 => Remainder(x) = x % Modulus /\ Remainder(x) >= 0
  BY <1>2 DEF Remainder, SRem
<1>6. ASSUME x < 0 PROVE Remainder(x) = -((-x) % Modulus) /\ Remainder(x) <= 0
  <2>1. (-x) % Modulus \in 0 .. Modulus - 1
    BY <1>2
  <2> QED
    BY <1>1, <1>6, <2>1 DEF Remainder, SRem
<1>7. x = 0 => Remainder(x) = 0 /\ -((-x) % Modulus) = 0
  BY <1>3 DEF Remainder, SRem
<1> QED
  BY <1>4, <1>5, <1>6, <1>7

LEMMA SmallRemainder ==
  ASSUME NEW x \in Remainders
  PROVE  Remainder(x) = x
<1>1. Modulus \in Nat \ {0} /\ x \in Int
  BY ModulusAssumption, IntMaxAssumption DEF Remainders
<1>2. ASSUME NEW y \in 0 .. Modulus - 1 PROVE y % Modulus = y
  <2>1. (Modulus * 0 + y) % Modulus = y
    BY <1>1, UniqueRemainder
  <2> QED
    BY <1>1, <2>1
<1>3. CASE x >= 0
  BY <1>1, <1>2, <1>3, RemainderSign DEF Remainders
<1>4. CASE x < 0
  <2>1. -x \in 0 .. Modulus - 1
    BY <1>1, <1>4 DEF Remainders
  <2>2. Remainder(x) = -((-x) % Modulus)
    BY <1>1, <1>4, RemainderSign
  <2> QED
    BY <1>1, <1>2, <2>1, <2>2
<1> QED
  BY <1>1, <1>3, <1>4

\* Taking the remainder in every iteration or once makes no difference for terms of one sign.
LEMMA AddRemainder ==
  ASSUME NEW x \in Int, NEW d \in Int, SameSign(x, d)
  PROVE  Remainder(Remainder(x) + d) = Remainder(x + d)
<1>1. Modulus \in Nat \ {0}
  BY ModulusAssumption, IntMaxAssumption
<1>2. CASE x >= 0 /\ d >= 0
  <2>1. Remainder(x) = x % Modulus /\ Remainder(x) \in Int /\ Remainder(x) + d >= 0 /\ x + d >= 0
    BY <1>2, RemainderSign DEF Remainders
  <2>2. Remainder(Remainder(x) + d) = ((x % Modulus) + d) % Modulus /\ Remainder(x + d) = (x + d) % Modulus
    BY <2>1, RemainderSign
  <2> QED
    BY <1>1, <2>2, AddToRemainder
<1>3. CASE x <= 0 /\ d <= 0
  <2>1. /\ Remainder(x) = -((-x) % Modulus) /\ Remainder(x) \in Int /\ Remainder(x) + d <= 0 /\ x + d <= 0
        /\ (-x) % Modulus \in Int
    BY <1>1, <1>3, RemainderSign DEF Remainders
  <2>2. /\ Remainder(Remainder(x) + d) = -((-(Remainder(x) + d)) % Modulus)
        /\ Remainder(x + d) = -((-(x + d)) % Modulus)
    BY <2>1, RemainderSign
  <2>3. -(Remainder(x) + d) = ((-x) % Modulus) + (-d) /\ -(x + d) = (-x) + (-d)
    BY <2>1
  <2>4. (((-x) % Modulus) + (-d)) % Modulus = ((-x) + (-d)) % Modulus
    <3>1. -x \in Int /\ -d \in Int
      OBVIOUS
    <3> QED
      BY <1>1, <3>1, AddToRemainder
  <2> QED
    BY <2>2, <2>3, <2>4
<1> QED
  BY <1>2, <1>3 DEF SameSign

\* createModuloPartialMerge gives the remainder of the sum, also where the sum wraps.
LEMMA MergedRemainder ==
  ASSUME NEW x \in Int, NEW y \in Int, SameSign(x, y)
  PROVE  MergedRem(Remainder(x), Remainder(y)) = Remainder(x + y)
<1> DEFINE p == Remainder(x)
           q == Remainder(y)
<1>1. Modulus \in 1 .. IntMax /\ IntMax \in Nat
  BY ModulusAssumption, IntMaxAssumption
<1>2. p \in Remainders /\ q \in Remainders /\ p \in Int /\ q \in Int
  BY <1>1, RemainderSign DEF Remainders
<1>3. (x >= 0 => p >= 0) /\ (x <= 0 => p <= 0) /\ (y >= 0 => q >= 0) /\ (y <= 0 => q <= 0)
  BY RemainderSign
<1>4. SameSign(p, q) /\ SameSign(p, y)
  BY <1>3 DEF SameSign
<1>5. Remainder(p + q) = Remainder(x + y)
  <2>1. Remainder(p + y) = Remainder(x + y)
    BY AddRemainder
  <2>2. Remainder(q + p) = Remainder(y + p)
    BY <1>2, <1>4, AddRemainder DEF SameSign
  <2>3. q + p = p + q /\ y + p = p + y
    BY <1>2
  <2> QED
    BY <2>1, <2>2, <2>3
<1> SUFFICES MergedRem(p, q) = Remainder(x + y)
  OBVIOUS
<1> HIDE DEF p, q
<1>6. CASE p >= 0 /\ q >= 0
  <2>1. Wrap(Modulus - q) = Modulus - q
    BY <1>1, <1>2, <1>6 DEF Remainders, Wrap, IntMin
  <2>2. CASE p >= Modulus - q
    <3>1. MergedRem(p, q) = Remainder(p - (Modulus - q))
      BY <1>1, <1>2, <1>6, <2>1, <2>2 DEF MergedRem, Remainder, Remainders, Wrap, IntMin
    <3>2. p - (Modulus - q) \in Remainders /\ p - (Modulus - q) \in 0 .. Modulus - 1
      BY <1>1, <1>2, <1>6, <2>2 DEF Remainders
    <3>3. (Modulus * 1 + (p - (Modulus - q))) % Modulus = p - (Modulus - q)
      BY <1>1, <3>2, UniqueRemainder
    <3>4. Modulus * 1 + (p - (Modulus - q)) = p + q
      BY <1>1, <1>2
    <3>5. Remainder(p + q) = (p + q) % Modulus
      BY <1>2, <1>6, RemainderSign
    <3>6. Remainder(p - (Modulus - q)) = p - (Modulus - q)
      BY <3>2, SmallRemainder
    <3> QED
      BY <1>5, <3>1, <3>3, <3>4, <3>5, <3>6
  <2>3. CASE ~(p >= Modulus - q)
    BY <1>1, <1>2, <1>5, <1>6, <2>1, <2>3 DEF MergedRem, Remainder, Remainders, Wrap, IntMin
  <2> QED
    BY <2>2, <2>3
<1>7. CASE p <= 0 /\ q <= 0 /\ ~(q >= 0)
  <2>1. Wrap(-Modulus - q) = -Modulus - q
    BY <1>1, <1>2, <1>7 DEF Remainders, Wrap, IntMin
  <2>2. CASE p <= -Modulus - q
    <3>1. MergedRem(p, q) = Remainder(p - (-Modulus - q))
      BY <1>1, <1>2, <1>7, <2>1, <2>2 DEF MergedRem, Remainder, Remainders, Wrap, IntMin
    <3>2. p - (-Modulus - q) \in Remainders /\ -(p - (-Modulus - q)) \in 0 .. Modulus - 1
      BY <1>1, <1>2, <1>7, <2>2 DEF Remainders
    <3>3. (Modulus * 1 + (-(p - (-Modulus - q)))) % Modulus = -(p - (-Modulus - q))
      BY <1>1, <3>2, UniqueRemainder
    <3>4. Modulus * 1 + (-(p - (-Modulus - q))) = -(p + q)
      BY <1>1, <1>2
    <3>5. Remainder(p + q) = -((-(p + q)) % Modulus)
      BY <1>2, <1>7, RemainderSign
    <3>6. Remainder(p - (-Modulus - q)) = p - (-Modulus - q)
      BY <3>2, SmallRemainder
    <3>7. p - (-Modulus - q) \in Int
      BY <1>1, <1>2
    <3> QED
      BY <1>5, <3>1, <3>3, <3>4, <3>5, <3>6, <3>7
  <2>3. CASE ~(p <= -Modulus - q)
    BY <1>1, <1>2, <1>5, <1>7, <2>1, <2>3 DEF MergedRem, Remainder, Remainders, Wrap, IntMin
  <2> QED
    BY <2>2, <2>3
<1>8. CASE p <= 0 /\ q = 0
  <2>1. Wrap(Modulus - q) = Modulus /\ ~(p >= Modulus) /\ Wrap(p + q) = p + q
    BY <1>1, <1>2, <1>8 DEF Remainders, Wrap, IntMin
  <2> QED
    BY <1>5, <1>8, <2>1 DEF MergedRem, Remainder
<1> QED
  BY <1>2, <1>4, <1>6, <1>7, <1>8 DEF SameSign

-----------------------------------------------------------------------------
(* Sums modulo a constant: T[k] is the sum of the source's terms through   *)
(* iteration k, without the % and without wrapping.                        *)

\* Terms of one sign, each of which can be added to a remainder without wrapping.
TermsFit ==
  /\ (\A t \in Terms : t >= 0) \/ (\A t \in Terms : t <= 0)
  /\ \A t \in Terms : t + Modulus - 1 <= IntMax /\ -t + Modulus - 1 <= IntMax

\* What an iteration adds, and the sign of all sums.
Added(t) == IF loop.sub THEN -t ELSE t
Ascending == \A t \in Terms : Added(t) >= 0
Signed(x) == IF Ascending THEN x >= 0 ELSE x <= 0

\* The sum before iteration k.
Before(T, k) == IF k = range[1] THEN 0 ELSE T[Wrap(k - 1)]
SumsThrough(T, S) == \A k \in S : T[k] = Before(T, k) + Added(terms[k]) /\ Signed(T[k])
Total(T) ==
  IF loop.effect = "before" THEN T[Exit(range[1], range[2])] ELSE Before(T, Exit(range[1], range[2]))

\* What the source's accumulator holds of a sum: only an inline % is in the loop.
Shown(x) == IF loop.kind = "inline" THEN Remainder(x) ELSE x

RunningSums(T) ==
  /\ pc = "source" =>
       /\ SumsThrough(T, Ran(proc["source"], range[1]))
       /\ Signed(Before(T, proc["source"].i))
       /\ proc["source"].acc = Shown(Before(T, proc["source"].i))
  /\ pc \in {"call", "body", "done"} =>
       /\ SumsThrough(T, SourceIterations)
       /\ result["source"] = Remainder(Total(T))

LEMMA SignFacts ==
  ASSUME TermsFit, TypeOK
  PROVE  /\ \A t \in Terms : t \in Int /\ Added(t) \in Int /\ Signed(Added(t))
         /\ Signed(0)
         /\ \A x, y \in Int : Signed(x) /\ Signed(y) => SameSign(x, y) /\ Signed(x + y)
         /\ \A x \in Int, t \in Terms : Update(x, t) = x + Added(t)
<1>1. loop.sub \in BOOLEAN
  BY CasesAssumption DEF TypeOK, Shapes
<1>2. \A t \in Terms : t \in Int
  BY TermsAssumption DEF Int32
<1>3. \A t \in Terms : Added(t) \in Int /\ Signed(Added(t))
  <2>1. CASE \A t \in Terms : t >= 0
    BY <1>1, <1>2, <2>1 DEF Added, Ascending, Signed
  <2>2. CASE \A t \in Terms : t <= 0
    BY <1>1, <1>2, <2>2 DEF Added, Ascending, Signed
  <2> QED
    BY <2>1, <2>2 DEF TermsFit
<1>4. \A x, y \in Int : Signed(x) /\ Signed(y) => SameSign(x, y) /\ Signed(x + y)
  BY DEF Signed, SameSign
<1>5. \A x \in Int, t \in Terms : Update(x, t) = x + Added(t)
  BY <1>1, <1>2 DEF Update, Added
<1> QED
  BY <1>2, <1>3, <1>4, <1>5 DEF Signed

\* An iteration that has been passed does not follow the one at hand.
LEMMA PassedFacts ==
  ASSUME NEW lo \in Int32, NEW i \in Int32, NEW k \in Passed(lo, i)
  PROVE  k \in Int32 /\ k /= i /\ (k /= lo => Wrap(k - 1) /= i /\ Wrap(k - 1) \in Int32)
<1>1. k \in Int32 /\ (IF lo <= i THEN lo <= k /\ k < i ELSE lo <= k \/ k < i)
  BY DEF Passed
<1>2. Wrap(k - 1) = IF k = IntMin THEN IntMax ELSE k - 1
  BY <1>1, NextValue
<1> QED
  BY <1>1, <1>2, NextFacts, IntMaxAssumption DEF Int32, IntMin

LEMMA SourceSums ==
  ASSUME SoundLoops, TermsFit, TypeOK, Layout, SourceEffects, IsModulo,
         NEW T \in [Int32 -> Int], RunningSums(T), NEW t \in Terms, SourcePass(t)
  PROVE  \E U \in [Int32 -> Int] : RunningSums(U)'
<1> DEFINE a == proc["source"]
           i == a.i
           lo == range[1]
           S == Ran(a, lo)
           acc == SourceUpdate(a, t)
           new == Advanced(a, acc)
           x == Before(T, i)
           U == IF Applies(a) THEN [T EXCEPT ![i] = x + Added(t)] ELSE T
<1>1. /\ a \in Activations /\ i \in Int32 /\ lo \in Int32 /\ range[2] \in Int32
      /\ SplitsWell(loop) /\ t \in Int32 /\ terms \in [Int32 -> Terms] /\ a.acc \in Int32
      /\ result \in [Sides -> Results] /\ proc \in [Threads -> Activations]
  BY TermsAssumption DEF TypeOK, SoundLoops, Threads, Activations, Accumulators, IsModulo
<1>2. /\ pc = "source" /\ a.at = "loop" /\ a.bound = range[2] /\ OnTrack(a, lo)
      /\ SumsThrough(T, S) /\ Signed(x) /\ a.acc = Shown(x)
  BY DEF SourcePass, Layout, SourceEffects, RunningSums
<1>3. acc \in Accumulators
  BY <1>1, UpdatedType DEF SourceUpdate
<1>4. /\ OnTrack(new, lo) /\ Ran(new, lo) = S \cup Applied(a) /\ i \notin S
      /\ Stays(a) => Applies(a) /\ Wrap(i + 1) /= lo /\ Wrap(Wrap(i + 1) - 1) = i
      /\ ~Stays(a) => (Applies(a) <=> loop.effect = "before")
  BY <1>1, <1>2, <1>3, PassFacts
<1>5. /\ Stays(a) => new.at = "loop" /\ new.i = Wrap(i + 1)
      /\ ~Stays(a) => new.at = "idle" /\ new.i = i /\ new.bound = a.bound
      /\ new.acc = acc
  BY <1>1, <1>2, <1>3, AdvancedType
<1>6. S = Passed(lo, i)
  BY <1>2 DEF Ran
<1>7. \A k \in S : k \in Int32 /\ k /= i /\ (k /= lo => Wrap(k - 1) /= i /\ Wrap(k - 1) \in Int32)
  BY <1>1, <1>6, PassedFacts
<1>8. Wrap(i - 1) /= i /\ Wrap(i - 1) \in Int32
  <2>1. Wrap(i - 1) = (IF i = IntMin THEN IntMax ELSE i - 1) /\ Wrap(i - 1) \in Int32
    BY <1>1, NextFacts, NextValue
  <2> QED
    BY <1>1, <2>1, IntMaxAssumption DEF Int32, IntMin
<1>9. x \in Int /\ Added(t) \in Int /\ Signed(Added(t)) /\ x + Added(t) \in Int
  <2>1. x \in Int
    BY <1>8 DEF Before
  <2>2. Added(t) \in Int /\ Signed(Added(t))
    BY SignFacts
  <2> QED
    BY <2>1, <2>2
<1>10. /\ loop' = loop /\ range' = range /\ terms' = [terms EXCEPT ![i] = t]
       /\ proc' = [proc EXCEPT !["source"] = new] /\ t \in Addends(a)
       /\ IF Stays(a) THEN pc' = pc
          ELSE pc' = "call" /\ result' = [result EXCEPT !["source"] = LiveOut(acc)]
  BY DEF SourcePass
<1> HIDE DEF acc, new
<1>11. PICK V \in [Int32 -> Int] :
         /\ Applies(a) => V[i] = x + Added(t)
         /\ \A k \in Int32 : k /= i => V[k] = T[k]
         /\ ~Applies(a) => V = T
  <2>1. U \in [Int32 -> Int] /\ (Applies(a) => U[i] = x + Added(t))
        /\ (\A k \in Int32 : k /= i => U[k] = T[k]) /\ (~Applies(a) => U = T)
    BY <1>1, <1>9
  <2> QED
    BY <2>1
<1>12. \A k \in S \cup {i} : Before(V, k) = Before(T, k)
  BY <1>7, <1>8, <1>11 DEF Before
<1>13. Applies(a) => Signed(V[i]) /\ acc = Shown(V[i])
  <2> SUFFICES ASSUME Applies(a) PROVE Signed(V[i]) /\ acc = Shown(V[i])
    OBVIOUS
  <2>1. Signed(x + Added(t)) /\ SameSign(x, Added(t)) /\ V[i] = x + Added(t)
    BY <1>2, <1>9, <1>11, SignFacts
  <2>2. Update(a.acc, t) \in Int32 /\ Update(a.acc, t) = a.acc + Added(t)
    <3>1. Update(a.acc, t) \in Int32
      BY <1>10 DEF Addends
    <3>2. a.acc \in Int
      BY <1>1 DEF Int32
    <3> QED
      BY <3>1, <3>2, SignFacts
  <2>3. Wrap(Update(a.acc, t)) = a.acc + Added(t)
    BY <2>2, WrapFacts DEF Int32
  <2>4. CASE loop.kind = "inline"
    <3>1. acc = Remainder(a.acc + Added(t)) /\ a.acc = Remainder(x)
      BY <1>2, <2>3, <2>4 DEF acc, SourceUpdate, Updated, Reduces, Remainder, Shown
    <3> QED
      BY <1>9, <2>1, <2>4, <3>1, AddRemainder DEF Shown
  <2>5. CASE loop.kind = "liveout"
    BY <1>2, <2>1, <2>3, <2>5 DEF acc, SourceUpdate, Updated, Reduces, Shown
  <2> QED
    BY <2>1, <2>4, <2>5 DEF IsModulo
<1>14. ~Applies(a) => acc = Shown(x) /\ V = T
  BY <1>2, <1>11 DEF acc, SourceUpdate, Updated
<1>15. PICK R : R = S \cup Applied(a)
  OBVIOUS
<1>16. SumsThrough(V, R)'
  <2> SUFFICES ASSUME NEW k \in R
               PROVE  V[k] = Before(V, k) + Added(terms'[k]) /\ Signed(V[k])
    BY <1>10 DEF SumsThrough, Before, Added, Signed, Ascending
  <2>1. CASE k \in S
    <3>1. k \in Int32 /\ V[k] = T[k] /\ terms'[k] = terms[k] /\ Before(V, k) = Before(T, k)
      BY <1>1, <1>7, <1>10, <1>11, <1>12, <2>1
    <3> QED
      BY <1>2, <2>1, <3>1 DEF SumsThrough
  <2>2. CASE k \notin S
    <3>1. k = i /\ Applies(a)
      BY <1>15, <2>2 DEF Applied
    <3>2. terms'[k] = t /\ Before(V, k) = x
      BY <1>1, <1>10, <1>12, <3>1
    <3> QED
      BY <1>11, <1>13, <3>1, <3>2
  <2> QED
    BY <2>1, <2>2
<1>17. proc'["source"] = new /\ \A k : Before(V, k)' = Before(V, k)
  BY <1>1, <1>10 DEF Threads, Before
<1>18. CASE Stays(a)
  <2>1. Before(V, new.i) = V[i] /\ Signed(V[i]) /\ acc = Shown(V[i])
    BY <1>4, <1>5, <1>13, <1>18 DEF Before
  <2>2. pc' = "source" /\ Ran(proc["source"], range[1])' = R
    BY <1>2, <1>4, <1>10, <1>15, <1>17, <1>18 DEF Ran, Whole, Exit
  <2>3. /\ Signed(Before(V, proc["source"].i))'
        /\ proc'["source"].acc = Shown(Before(V, proc["source"].i))'
    BY <1>5, <1>10, <1>17, <2>1 DEF Signed, Ascending, Added, Shown, Before
  <2>4. RunningSums(V)'
    BY <1>16, <2>2, <2>3 DEF RunningSums
  <2> QED
    BY <2>4
<1>19. CASE ~Stays(a)
  <2>1. i = Exit(lo, range[2]) /\ S \cup Applied(a) = SourceIterations
    BY <1>2, <1>4, <1>5, <1>19 DEF OnTrack, Ran, SourceIterations
  <2>2. acc = Shown(Total(V)) /\ Total(V) \in Int
    <3>1. CASE Applies(a)
      BY <1>1, <1>4, <1>11, <1>13, <1>19, <2>1, <3>1 DEF Total
    <3>2. CASE ~Applies(a)
      BY <1>4, <1>9, <1>14, <1>19, <2>1, <3>2 DEF Total
    <3> QED
      BY <3>1, <3>2
  <2>3. LiveOut(acc) = Remainder(Total(V))
    BY <2>2 DEF LiveOut, Shown, Remainder, IsModulo
  <2>4. pc' = "call" /\ result'["source"] = Remainder(Total(V))
    BY <1>1, <1>10, <1>19, <2>3 DEF Sides
  <2>5. SourceIterations' = SourceIterations /\ Total(V)' = Total(V)
    BY <1>10 DEF SourceIterations, Whole, Passed, Exit, Total, Before
  <2>6. RunningSums(V)'
    BY <1>15, <1>16, <2>1, <2>4, <2>5 DEF RunningSums
  <2> QED
    BY <2>6
<1> QED
  BY <1>18, <1>19

\* The first part's last sum is the one before the midpoint; the second part ends where the
\* source loop does.
LEMMA SumsJoin ==
  ASSUME TypeOK, SplitsWell(loop), Splits(range[1], range[2]), range[2] - range[1] >= IntMin,
         scalar_start = range[1], scalar_bound = range[2], NEW T
  PROVE  /\ Exit(Middle, range[2]) = Exit(range[1], range[2])
         /\ loop.effect = "before" => T[Exit(range[1], FirstPart)] = Before(T, Middle)
         /\ loop.effect = "after" => Exit(range[1], FirstPart) = Middle
<1> DEFINE lo == range[1]
           hi == range[2]
<1>1. lo \in Int32 /\ hi \in Int32 /\ Middle \in Int32 /\ lo < Middle /\ Middle < hi
  BY PartsJoin DEF TypeOK
<1>2. FirstPart = IF loop.effect = "before" /\ loop.lhs = "phi" THEN Middle - 1 ELSE Middle
  BY PartsJoin
<1>3. loop.lhs \in {"phi", "next"} /\ (loop.effect = "after" => loop.lhs = "phi")
  BY CasesAssumption DEF SplitsWell, TypeOK, Shapes
<1>4. Wrap(hi - 1) = (IF hi = IntMin THEN IntMax ELSE hi - 1)
      /\ Wrap(Middle - 1) = IF Middle = IntMin THEN IntMax ELSE Middle - 1
  BY <1>1, NextValue
<1> HIDE DEF lo, hi
<1>5. Exit(Middle, hi) = Exit(lo, hi)
  BY <1>1, <1>3, <1>4, IntMaxAssumption DEF Exit, Int32, IntMin
<1>6. loop.effect = "after" => Exit(lo, FirstPart) = Middle
  BY <1>1, <1>2, <1>3 DEF Exit
<1>7. loop.effect = "before" => Exit(lo, FirstPart) = Wrap(Middle - 1)
  BY <1>1, <1>2, <1>3, <1>4, IntMaxAssumption DEF Exit, Int32, IntMin
<1>8. Middle /= lo
  BY <1>1 DEF Int32
<1> QED
  BY <1>5, <1>6, <1>7, <1>8 DEF Before, lo, hi

\* The worker never comes back to the first iteration of the range.
LEMMA WorkerIsLater ==
  ASSUME TypeOK, SplitsWell(loop), Splits(range[1], range[2]), range[2] - range[1] >= IntMin,
         scalar_start = range[1], scalar_bound = range[2],
         NEW a \in Activations, a.at = "loop", OnTrack(a, Middle), Stays(a)
  PROVE  Wrap(a.i + 1) /= range[1]
<1>1. range[1] \in Int32 /\ range[2] \in Int32 /\ Middle \in Int32 /\ range[1] < Middle /\ Middle < range[2]
  BY PartsJoin DEF TypeOK
<1>2. a.i \in Int32 /\ a.bound \in Int32 /\ Wrap(a.i + 1) = IF a.i = IntMax THEN IntMin ELSE a.i + 1
  BY NextValue DEF Activations
<1>3. a.i = Middle \/ (Middle < a.i /\ a.i <= a.bound)
      \/ (a.i < a.bound /\ (Middle < a.i \/ Middle = IntMax))
  BY DEF OnTrack, Underway
<1>4. a.i = Middle \/ a.i < a.bound
  BY DEF OnTrack, Underway, Stays
<1>5. a.i >= Middle
  BY <1>1, <1>2, <1>3, IntMaxAssumption DEF Int32, IntMin
<1>6. a.i < IntMax
  BY <1>1, <1>2, <1>4, IntMaxAssumption DEF Int32, IntMin
<1> QED
  BY <1>1, <1>2, <1>5, <1>6, IntMaxAssumption DEF Int32, IntMin

\* What thread t adds up: from the sum before its first iteration to that before its next one,
\* and in the end to the sum before the other part or to the total.
End(T, t, split) == IF split /\ t = "main" THEN Before(T, Middle) ELSE Total(T)
SoFar(T, t) == Before(T, proc[t].i) - Before(T, Begin(t))
InAll(T, t, split) == End(T, t, split) - Before(T, Begin(t))

BodySums(T, split) ==
  /\ OnTheirWay(split)
  /\ \A t \in Active(split) :
       /\ proc[t].at /= "idle" => Signed(SoFar(T, t)) /\ proc[t].acc = Remainder(SoFar(T, t))
       /\ proc[t].at = "idle" =>
            Signed(InAll(T, t, split)) /\ scalar_partial[Slot(t)] = Remainder(InAll(T, t, split))
  /\ ~split => scalar_partial[1] = 0

LEMMA BeforeType ==
  ASSUME TypeOK, NEW T \in [Int32 -> Int], NEW k \in Int32
  PROVE  Before(T, k) \in Int
BY NextFacts DEF Before

LEMMA CallSums ==
  ASSUME TermsFit, TypeOK, Layout, IsModulo, NEW T \in [Int32 -> Int], ParCall
  PROVE  \E split \in BOOLEAN : BodySums(T, split)'
<1>1. PICK split \in BOOLEAN :
        /\ OnTheirWay(split)'
        /\ \A t \in Active(split) : Fresh(t)' /\ proc'[t].i = Begin(t)'
  BY CallOnTheirWay
<1>2. UNCHANGED <<loop, range>> /\ scalar_partial' = [s \in {0, 1} |-> 0] /\ Zero' = 0
  BY DEF ParCall, Identity, Zero, IsModulo, Reduces
<1>3. range[1] \in Int32 /\ range[2] \in Int32
  BY DEF TypeOK
<1>4. \A t \in Active(split) : Begin(t) \in Int32 /\ Begin(t)' = Begin(t)
  <2>1. split => Splits(range[1], range[2])
    BY <1>1, <1>2 DEF OnTheirWay, Division
  <2> QED
    BY <1>2, <1>3, <2>1, MidIsLater DEF Begin, Middle, Active, Bodies
<1>5. \A k : Before(T, k)' = Before(T, k)
  BY <1>2 DEF Before
<1>6. \A t \in Active(split) : SoFar(T, t)' = 0
  BY <1>1, <1>4, <1>5, BeforeType DEF SoFar
<1>7. Signed(0)' /\ Remainder(0) = 0
  BY <1>2, RemainderSign DEF Signed, Remainders
<1>8. \A t \in Active(split) : proc'[t].at = "entry" /\ proc'[t].acc = 0
  BY <1>1, <1>2 DEF Fresh
<1>9. \A t \in Active(split) : Signed(SoFar(T, t))' /\ proc'[t].acc = Remainder(SoFar(T, t))'
  BY <1>6, <1>7, <1>8 DEF Signed, Ascending, Added
<1> QED
  BY <1>1, <1>2, <1>8, <1>9 DEF BodySums, Active

LEMMA EntrySums ==
  ASSUME TypeOK, NEW T \in [Int32 -> Int], NEW t \in Bodies, BodyEntry(t),
         NEW split \in BOOLEAN, BodySums(T, split)
  PROVE  BodySums(T, split)'
<1>1. /\ OnTheirWay(split)'
      /\ \A s \in Bodies :
           /\ proc'[s].i = proc[s].i /\ proc'[s].acc = proc[s].acc
           /\ proc'[s].at = "idle" <=> proc[s].at = "idle"
      /\ UNCHANGED <<loop, range, scalar_partial>>
  BY EntryOnTheirWay DEF BodySums, BodyEntry
<1>2. /\ \A k : Before(T, k)' = Before(T, k)
      /\ \A s : Begin(s)' = Begin(s)
      /\ Total(T)' = Total(T) /\ Middle' = Middle
      /\ \A x : Signed(x)' = Signed(x)
  BY <1>1 DEF Before, Begin, Middle, Total, Exit, Signed, Ascending, Added
<1>3. \A s \in Bodies : SoFar(T, s)' = SoFar(T, s) /\ InAll(T, s, split)' = InAll(T, s, split)
  BY <1>1, <1>2 DEF SoFar, InAll, End
<1>4. \A s \in Bodies : Signed(SoFar(T, s))' = Signed(SoFar(T, s))
                     /\ Signed(InAll(T, s, split))' = Signed(InAll(T, s, split))
  BY <1>2, <1>3 DEF Signed, Ascending, Added
<1> QED
  BY <1>1, <1>3, <1>4 DEF BodySums, Active, Bodies

LEMMA PassSums ==
  ASSUME TermsFit, TypeOK, SplitsWell(loop), range[2] - range[1] >= IntMin, IsModulo,
         NEW T \in [Int32 -> Int], SumsThrough(T, SourceIterations),
         NEW t \in Bodies, BodyPass(t), NEW split \in BOOLEAN, BodySums(T, split)
  PROVE  BodySums(T, split)'
<1> DEFINE a == proc[t]
           i == a.i
           new == Advanced(a, BodyUpdate(a))
           x == SoFar(T, t)
           d == Added(terms[i])
<1>1. /\ OnTheirWay(split) /\ OnTheirWay(split)' /\ t \in Active(split) /\ a.at = "loop" /\ a.slot = Slot(t)
      /\ \A s \in Bodies : s /= t => proc'[s] = proc[s]
  BY PassOnTheirWay DEF BodySums
<1>2. /\ a \in Activations /\ i \in Int32 /\ terms[i] \in Terms /\ terms[i] \in Int32
      /\ proc \in [Threads -> Activations] /\ scalar_partial \in [{0, 1} -> Results]
      /\ Begin(t) \in Int32 /\ OnTrack(a, Begin(t)) /\ Applied(a) \subseteq Iterations(t, split)
      /\ Division(split)
  BY <1>1, Apart, TermsAssumption DEF TypeOK, Activations, Bodies, Threads, OnTheirWay
<1>3. BodyUpdate(a) \in Accumulators
  BY <1>2, UpdatedType DEF BodyUpdate
<1>4. /\ OnTrack(new, Begin(t))
      /\ Stays(a) => Applies(a) /\ Wrap(i + 1) /= Begin(t) /\ Wrap(Wrap(i + 1) - 1) = i
      /\ ~Stays(a) => (Applies(a) <=> loop.effect = "before")
  BY <1>1, <1>2, <1>3, PassFacts
<1>5. /\ Stays(a) => new.at = "loop" /\ new.i = Wrap(i + 1)
      /\ ~Stays(a) => new.at = "idle" /\ new.i = i /\ new.bound = a.bound
      /\ new.acc = BodyUpdate(a)
  BY <1>1, <1>2, <1>3, AdvancedType
<1> HIDE DEF new
<1>6. /\ proc'[t] = new /\ UNCHANGED <<loop, range>>
      /\ scalar_partial' = IF ~Stays(a) THEN [scalar_partial EXCEPT ![Slot(t)] = PartialValue(a)]
                           ELSE scalar_partial
  BY <1>1, <1>2 DEF BodyPass, Bodies, Threads, new, Reduces, IsModulo
<1>7. /\ \A k : Before(T, k)' = Before(T, k)
      /\ \A s : Begin(s)' = Begin(s)
      /\ Total(T)' = Total(T) /\ Middle' = Middle
  BY <1>6 DEF Before, Begin, Middle, Total, Exit
<1>8. \A s \in Bodies : InAll(T, s, split)' = InAll(T, s, split)
  BY <1>7 DEF InAll, End
<1>9. x \in Int /\ d \in Int /\ Signed(d) /\ Signed(x) /\ SameSign(x, d) /\ Signed(x + d)
      /\ a.acc = Remainder(x)
  <2>1. x \in Int
    BY <1>2, BeforeType DEF SoFar
  <2>2. Signed(x) /\ a.acc = Remainder(x)
    BY <1>1 DEF BodySums
  <2> QED
    BY <1>2, <2>1, <2>2, SignFacts
<1>10. BodyUpdate(a) = IF Applies(a) THEN Remainder(x + d) ELSE Remainder(x)
  <2>1. CASE Applies(a)
    <3>1. Update(a.acc, terms[i]) = a.acc + d /\ a.acc \in Remainders /\ a.acc \in Int
      <4>1. a.acc \in Remainders
        BY <1>9, RemainderSign
      <4>2. a.acc \in Int
        BY <4>1, ModulusAssumption, IntMaxAssumption DEF Remainders
      <4> QED
        BY <1>2, <4>1, <4>2, SignFacts
    <3>2. a.acc + d \in Int32
      <4>1. /\ terms[i] \in Int /\ terms[i] + Modulus - 1 <= IntMax /\ -terms[i] + Modulus - 1 <= IntMax
            /\ d = terms[i] \/ d = -terms[i]
        BY <1>2, SignFacts DEF TermsFit, Added
      <4>2. a.acc >= -(Modulus - 1) /\ a.acc <= Modulus - 1 /\ Modulus \in Int /\ IntMax \in Int
        BY <3>1, ModulusAssumption, IntMaxAssumption DEF Remainders
      <4> HIDE DEF a, d, i
      <4>3. d \in Int /\ a.acc + d <= IntMax /\ a.acc + d >= -IntMax - 1
        BY <3>1, <4>1, <4>2
      <4> QED
        BY <3>1, <4>2, <4>3 DEF Int32, IntMin
    <3>3. Wrap(a.acc + d) = a.acc + d
      BY <3>2, WrapFacts DEF Int32
    <3>4. BodyUpdate(a) = Remainder(a.acc + d)
      BY <2>1, <3>1, <3>3 DEF BodyUpdate, Updated, Reduces, IsModulo, Remainder
    <3> QED
      BY <1>9, <2>1, <3>4, AddRemainder
  <2>2. CASE ~Applies(a)
    BY <1>9, <2>2 DEF BodyUpdate, Updated
  <2> QED
    BY <2>1, <2>2
<1>11. Applies(a) => x + d = T[i] - Before(T, Begin(t))
  <2> HAVE Applies(a)
  <2>1. i \in SourceIterations
    BY <1>2 DEF Applied, Iterations
  <2>2. T[i] = Before(T, i) + d /\ Before(T, i) \in Int /\ Before(T, Begin(t)) \in Int
    BY <1>2, <2>1, BeforeType DEF SumsThrough
  <2> QED
    BY <1>9, <2>2 DEF SoFar
<1> DEFINE y == IF Applies(a) THEN x + d ELSE x
<1>12. Signed(y) /\ BodyUpdate(a) = Remainder(y) /\ y \in Int
  BY <1>9, <1>10
<1>13. CASE Stays(a)
  <2>1. Wrap(i + 1) /= range[1]
    <3>1. CASE t = "main"
      BY <1>4, <1>13, <3>1 DEF Begin
    <3>2. CASE t = "worker"
      BY <1>1, <1>2, <1>13, <3>2, WorkerIsLater DEF Begin, Division, Active
    <3> QED
      BY <3>1, <3>2 DEF Bodies
  <2>2. Before(T, Wrap(i + 1)) = T[i] /\ Applies(a)
    BY <1>4, <1>13, <2>1 DEF Before
  <2>3. SoFar(T, t)' = y
    BY <1>5, <1>6, <1>7, <1>11, <1>13, <2>2 DEF SoFar
  <2>4. proc'[t].at = "loop" /\ proc'[t].acc = Remainder(SoFar(T, t))' /\ Signed(SoFar(T, t))'
    BY <1>5, <1>6, <1>12, <1>13, <2>3 DEF Signed, Ascending, Added
  <2>5. ASSUME NEW s \in Active(split), s /= t
        PROVE  /\ SoFar(T, s)' = SoFar(T, s) /\ proc'[s] = proc[s] /\ scalar_partial' = scalar_partial
               /\ Signed(SoFar(T, s))' = Signed(SoFar(T, s))
               /\ Signed(InAll(T, s, split))' = Signed(InAll(T, s, split))
    BY <1>1, <1>6, <1>7, <1>8, <1>13, <2>5 DEF SoFar, Active, Bodies, Signed, Ascending, Added
  <2> QED
    BY <1>1, <1>6, <1>8, <1>13, <2>4, <2>5 DEF BodySums, Active, Bodies
<1>14. CASE ~Stays(a)
  <2>1. i = Exit(Begin(t), a.bound)
    BY <1>4, <1>5, <1>14 DEF OnTrack
  <2>2. y = InAll(T, t, split)
    <3>1. y = (IF loop.effect = "before" THEN T[i] ELSE Before(T, i)) - Before(T, Begin(t))
      BY <1>4, <1>11, <1>14 DEF SoFar
    <3>2. loop.effect \in {"before", "after"}
      BY CasesAssumption DEF TypeOK, Shapes
    <3>3. (IF loop.effect = "before" THEN T[i] ELSE Before(T, i)) = End(T, t, split)
      <4>1. CASE ~split
        <5>1. t = "main" /\ a.bound = range[2]
          BY <1>1, <1>2, <4>1 DEF Active, Division, Given, MainEnd, BodyBound
        <5> QED
          BY <2>1, <4>1, <5>1 DEF End, Total, Begin
      <4>2. CASE split /\ t = "main"
        <5>1. a.bound = FirstPart
          BY <1>1, <1>2, <4>2 DEF Division, Given, MainEnd, FirstPart
        <5> QED
          BY <1>2, <2>1, <3>2, <4>2, <5>1, SumsJoin DEF End, Begin, Division
      <4>3. CASE split /\ t = "worker"
        <5>1. a.bound = range[2]
          BY <1>1, <1>2, <4>3, PartsJoin DEF Division, Given
        <5> QED
          BY <1>2, <2>1, <3>2, <4>3, <5>1, SumsJoin DEF End, Begin, Division, Total
      <4> QED
        BY <4>1, <4>2, <4>3 DEF Bodies
    <3> QED
      BY <3>1, <3>3 DEF InAll
  <2>3. PartialValue(a) = BodyUpdate(a)
    BY <1>4, <1>14 DEF SplitsWell, PartialValue, BodyUpdate, Updated, IsModulo
  <2>4. scalar_partial'[Slot(t)] = Remainder(InAll(T, t, split))
    BY <1>2, <1>6, <1>12, <1>14, <2>2, <2>3 DEF Slot, Bodies
  <2>5. proc'[t].at = "idle" /\ Signed(InAll(T, t, split))
    BY <1>5, <1>6, <1>12, <1>14, <2>2
  <2>6. ASSUME NEW s \in Active(split), s /= t
        PROVE  /\ SoFar(T, s)' = SoFar(T, s) /\ proc'[s] = proc[s]
               /\ scalar_partial'[Slot(s)] = scalar_partial[Slot(s)]
    <3>1. s \in Bodies /\ Slot(s) /= Slot(t)
      BY <2>6 DEF Active, Bodies, Slot
    <3> QED
      BY <1>1, <1>2, <1>6, <1>7, <1>14, <3>1 DEF SoFar
  <2>7. \A s \in Bodies : Signed(InAll(T, s, split))' = Signed(InAll(T, s, split))
    BY <1>6, <1>8 DEF Signed, Ascending, Added
  <2>8. \A s \in Active(split) : s /= t => Signed(SoFar(T, s))' = Signed(SoFar(T, s))
    BY <1>6, <2>6 DEF Signed, Ascending, Added
  <2>9. ~split => scalar_partial'[1] = 0
    BY <1>1, <1>2, <1>6 DEF BodySums, Active, Slot
  <2> QED
    BY <1>1, <1>8, <2>4, <2>5, <2>6, <2>7, <2>8, <2>9 DEF BodySums, Active, Bodies
<1> QED
  BY <1>13, <1>14

SumsInv ==
  IsModulo => \E T \in [Int32 -> Int] :
    /\ RunningSums(T)
    /\ pc = "body" => \E split \in BOOLEAN : BodySums(T, split)
    /\ pc = "done" => result["outlined"] = Remainder(Total(T))

\* The merged remainder is that of all terms of both parts.
LEMMA MergeSums ==
  ASSUME TermsFit, TypeOK, IsModulo, NEW T \in [Int32 -> Int], Merge,
         NEW split \in BOOLEAN, BodySums(T, split)
  PROVE  result'["outlined"] = Remainder(Total(T))'
<1>1. /\ \A t \in Active(split) : proc[t].at = "idle" /\ UNCHANGED <<loop, range>>
      /\ result'["outlined"] = MergedRem(scalar_partial[0], scalar_partial[1])
  BY DEF Merge, Active, Bodies, TypeOK, Sides, Merged
<1>2. Total(T)' = Total(T)
  BY DEF Merge, Total, Exit, Before
<1>3. /\ Division(split) /\ range[1] \in Int32 /\ range[2] \in Int32
      /\ Before(T, range[1]) = 0 /\ Total(T) \in Int
  <2>1. range[1] \in Int32 /\ range[2] \in Int32
    BY DEF TypeOK
  <2>2. Exit(range[1], range[2]) \in Int32
    BY <2>1, NextFacts DEF Exit
  <2> QED
    BY <2>1, <2>2, BeforeType DEF BodySums, OnTheirWay, Before, Total
<1>4. CASE split
  <2> DEFINE m == Before(T, Middle)
  <2>1. m \in Int
    BY <1>3, <1>4, MidIsLater, BeforeType DEF Division, Middle
  <2>2. InAll(T, "main", split) = m /\ InAll(T, "worker", split) = Total(T) - m
    BY <1>3, <1>4, <2>1 DEF InAll, End, Begin
  <2>3. /\ Signed(m) /\ Signed(Total(T) - m)
        /\ scalar_partial[0] = Remainder(m) /\ scalar_partial[1] = Remainder(Total(T) - m)
    BY <1>1, <1>4, <2>2 DEF BodySums, Active, Bodies, Slot
  <2> HIDE DEF m
  <2>4. SameSign(m, Total(T) - m) /\ m + (Total(T) - m) = Total(T)
    BY <1>3, <2>1, <2>3, SignFacts
  <2> QED
    BY <1>1, <1>2, <1>3, <2>1, <2>3, <2>4, MergedRemainder
<1>5. CASE ~split
  <2>1. InAll(T, "main", split) = Total(T)
    BY <1>3, <1>5 DEF InAll, End, Begin
  <2>2. Signed(Total(T)) /\ scalar_partial[0] = Remainder(Total(T)) /\ scalar_partial[1] = 0
    BY <1>1, <1>5, <2>1 DEF BodySums, Active, Slot
  <2>3. SameSign(Total(T), 0) /\ Remainder(0) = 0 /\ Total(T) + 0 = Total(T)
    BY <1>3, RemainderSign DEF SameSign, Remainders
  <2> QED
    BY <1>1, <1>2, <1>3, <2>2, <2>3, MergedRemainder
<1> QED
  BY <1>4, <1>5

LEMMA NextSums ==
  ASSUME SoundLoops, TermsFit, EffectsInv, SumsInv, [Next]_vars
  PROVE  SumsInv'
<1> SUFFICES ASSUME IsModulo' PROVE SumsInv'
  BY DEF SumsInv
<1>0. /\ TypeOK /\ Layout /\ SourceEffects /\ SplitsWell(loop) /\ range[2] - range[1] >= IntMin
      /\ IsModulo /\ loop' = loop /\ range[1] \in Int32 /\ range[2] \in Int32
  BY DEF EffectsInv, SourceEffects, SoundLoops, TypeOK, IsModulo, Next, vars, Enter, SourcePass, ParCall,
     BodyEntry, BodyPass, Merge
<1>1. PICK T \in [Int32 -> Int] :
        /\ RunningSums(T)
        /\ pc = "body" => \E split \in BOOLEAN : BodySums(T, split)
        /\ pc = "done" => result["outlined"] = Remainder(Total(T))
  BY <1>0 DEF SumsInv
<1>2. ASSUME NEW r \in Ranges[loop], Enter(r) PROVE SumsInv'
  <2>1. r[1] \in Int32 /\ r[2] \in Int32
    BY <1>0, RangesAssumption DEF TypeOK
  <2> DEFINE new == [Entering(r[1], r[2]) EXCEPT !.at = "loop"]
  <2>2. new.at = "loop" /\ new.i = r[1] /\ new.acc = 0
    BY <1>0, <2>1, EnteringType DEF Activations, Zero
  <2> HIDE DEF new
  <2>3. /\ proc'["source"] = new /\ range' = r /\ pc' = "source"
    BY <1>0, <1>2 DEF Enter, new, Threads, TypeOK
  <2>4. Ran(proc["source"], range[1])' = {}
    BY <2>1, <2>2, <2>3 DEF Ran, Passed, Int32
  <2>5. Before(T, proc["source"].i)' = 0 /\ Remainder(0) = 0
    BY <2>2, <2>3, RemainderSign DEF Before, Remainders
  <2>6. RunningSums(T)'
    BY <2>2, <2>3, <2>4, <2>5 DEF RunningSums, SumsThrough, Signed, Shown
  <2> QED
    BY <2>3, <2>6 DEF SumsInv
<1>3. ASSUME NEW t \in Terms, SourcePass(t) PROVE SumsInv'
  <2>1. \E U \in [Int32 -> Int] : RunningSums(U)'
    BY <1>0, <1>1, <1>3, SourceSums
  <2>2. pc' \in {"source", "call"}
    BY <1>3 DEF SourcePass
  <2> QED
    BY <2>1, <2>2 DEF SumsInv
\* From the call on, the sums of the source loop stay what they are.
<1>4. ASSUME UNCHANGED <<range, terms>>, result'["source"] = result["source"],
             pc \in {"call", "body", "done"}, pc' \in {"call", "body", "done"}
      PROVE  RunningSums(T)'
  <2>1. SourceIterations' = SourceIterations /\ Total(T)' = Total(T) /\ \A k : Before(T, k)' = Before(T, k)
    BY <1>0, <1>4 DEF SourceIterations, Whole, Passed, Exit, Total, Before
  <2>2. SumsThrough(T, SourceIterations)'
    BY <1>0, <1>1, <1>4, <2>1 DEF RunningSums, SumsThrough, Signed, Ascending, Added
  <2> QED
    BY <1>1, <1>4, <2>1, <2>2 DEF RunningSums
<1>5. CASE ParCall
  <2>1. RunningSums(T)' /\ pc' = "body"
    BY <1>4, <1>5 DEF ParCall
  <2>2. \E split \in BOOLEAN : BodySums(T, split)'
    BY <1>0, <1>5, CallSums
  <2> QED
    BY <2>1, <2>2 DEF SumsInv
<1>6. ASSUME NEW t \in {"main", "worker"}, BodyEntry(t) PROVE SumsInv'
  <2>1. RunningSums(T)' /\ pc = "body" /\ pc' = "body"
    BY <1>4, <1>6 DEF BodyEntry
  <2>2. \E split \in BOOLEAN : BodySums(T, split)'
    BY <1>0, <1>1, <1>6, <2>1, EntrySums DEF Bodies
  <2> QED
    BY <2>1, <2>2 DEF SumsInv
<1>7. ASSUME NEW t \in {"main", "worker"}, BodyPass(t) PROVE SumsInv'
  <2>1. RunningSums(T)' /\ pc = "body" /\ pc' = "body"
    BY <1>4, <1>7 DEF BodyPass
  <2>2. SumsThrough(T, SourceIterations)
    BY <1>1, <2>1 DEF RunningSums
  <2>3. \E split \in BOOLEAN : BodySums(T, split)'
    BY <1>0, <1>1, <1>7, <2>1, <2>2, PassSums DEF Bodies
  <2> QED
    BY <2>1, <2>3 DEF SumsInv
<1>8. CASE Merge
  <2>1. pc = "body" /\ pc' = "done" /\ result'["source"] = result["source"]
    BY <1>0, <1>8 DEF Merge, TypeOK, Sides
  <2>2. RunningSums(T)'
    BY <1>4, <1>8, <2>1 DEF Merge
  <2>3. result'["outlined"] = Remainder(Total(T))'
    BY <1>0, <1>1, <1>8, <2>1, MergeSums
  <2> QED
    BY <2>1, <2>2, <2>3 DEF SumsInv
<1>9. CASE UNCHANGED vars
  <2>1. /\ UNCHANGED <<pc, proc, result, loop, range, terms, scalar_partial>>
        /\ SourceIterations' = SourceIterations /\ Total(T)' = Total(T) /\ Middle' = Middle
        /\ \A k : Before(T, k)' = Before(T, k)
        /\ \A x : Signed(x)' = Signed(x) /\ Shown(x)' = Shown(x)
        /\ Ran(proc["source"], range[1])' = Ran(proc["source"], range[1])
        /\ \A t : Begin(t)' = Begin(t)
    BY <1>9
         DEF vars, SourceIterations, Whole, Passed, Exit, Total, Before, Signed, Ascending, Added, Shown, Ran,
         Begin, Middle
  <2>2. RunningSums(T)'
    BY <1>1, <2>1 DEF RunningSums, SumsThrough, Signed, Ascending, Added, Shown, Before
  <2>3. ASSUME NEW split \in BOOLEAN, BodySums(T, split) PROVE BodySums(T, split)'
    <3>1. OnTheirWay(split)'
      BY <1>9, <2>3 DEF vars, BodySums, OnTheirWay, Division, Given, MainEnd, Middle, BodyBound, Reduces,
           latchComparesIV, Begin, OnTrack, Underway, Exit
    <3>2. \A t : SoFar(T, t)' = SoFar(T, t) /\ InAll(T, t, split)' = InAll(T, t, split)
      BY <2>1 DEF SoFar, InAll, End
    <3>3. \A t : Signed(SoFar(T, t))' = Signed(SoFar(T, t)) /\ Signed(InAll(T, t, split))' = Signed(InAll(T, t, split))
      BY <2>1, <3>2 DEF Signed, Ascending, Added
    <3> QED
      BY <2>1, <2>3, <3>1, <3>2, <3>3 DEF BodySums, Active
  <2>4. pc' = "done" => result'["outlined"] = Remainder(Total(T))'
    BY <1>1, <2>1
  <2>5. pc' = "body" => \E split \in BOOLEAN : BodySums(T, split)'
    BY <1>1, <2>1, <2>3
  <2> QED
    BY <2>2, <2>4, <2>5 DEF SumsInv
<1> QED
  BY <1>2, <1>3, <1>5, <1>6, <1>7, <1>8, <1>9 DEF Next

\* The program sees the remainder that the source loop would have produced, also where the two
\* partial remainders add up to more than an int holds: for every positive modulus and every
\* sum whose terms have one sign and can be added to a remainder without wrapping.
THEOREM OutlinedModuloMatches ==
  ASSUME SoundLoops, TermsFit
  PROVE  Spec => []ModuloMatches
<1>1. Init => SumsInv
  <2> SUFFICES ASSUME Init PROVE SumsInv
    OBVIOUS
  <2>1. None \in [Int32 -> Int] /\ pc = "enter"
    BY DEF None, Init
  <2> QED
    BY <2>1 DEF SumsInv, RunningSums
<1>2. EffectsInv /\ SumsInv /\ [Next]_vars => SumsInv'
  BY NextSums
<1>3. SumsInv => ModuloMatches
  BY DEF SumsInv, RunningSums, ModuloMatches
<1> QED
  BY <1>1, <1>2, <1>3, EffectsInductive, PTL DEF Spec
=============================================================================
