-------------------------- MODULE MemoTableProofs ---------------------------
(***************************************************************************)
(* For programs of any length, any table size and any set of arguments: a  *)
(* memoised function returns what the original would have returned, and    *)
(* the dense table's never computes a value twice, provided that all       *)
(* stores precede all calls and one thread calls.                          *)
(***************************************************************************)
EXTENDS MemoTable, SequenceTheorems, TLAPS

-----------------------------------------------------------------------------
(* Stacks, and what a step does to one.                                    *)

\* The other threads' stacks stay, and the top of t's becomes fr, ...
Replaces(t, fr) ==
  /\ Len(stack'[t]) = Len(stack[t])
  /\ \A k \in 1 .. Len(stack[t]) :
       stack'[t][k] = IF k = Len(stack[t]) THEN fr ELSE stack[t][k]
  /\ \A u \in Threads \ {t} : stack'[u] = stack[u]

\* ... or fr is put on top of it, ...
Pushes(t, fr) ==
  /\ Len(stack'[t]) = Len(stack[t]) + 1
  /\ \A k \in 1 .. Len(stack[t]) : stack'[t][k] = stack[t][k]
  /\ stack'[t][Len(stack[t]) + 1] = fr
  /\ \A u \in Threads \ {t} : stack'[u] = stack[u]

\* ... or its only activation ends, ...
Finishes(t, v) ==
  /\ Len(stack[t]) = 1 /\ stack'[t] = <<>>
  /\ returned' = [returned EXCEPT ![t] = [arg |-> stack[t][1].arg, val |-> v]]
  /\ \A u \in Threads \ {t} : stack'[u] = stack[u]

\* ... or the topmost of several gives the next its result.
HandsDown(t, v) ==
  LET n == Len(stack[t]) IN
  /\ n > 1 /\ Len(stack'[t]) = n - 1
  /\ \A k \in 1 .. n - 1 :
       stack'[t][k] = IF k = n - 1 THEN [stack[t][k] EXCEPT !.subs = Append(@, v)]
                      ELSE stack[t][k]
  /\ returned' = returned
  /\ \A u \in Threads \ {t} : stack'[u] = stack[u]

LEMMA TopFacts ==
  ASSUME NEW S, NEW s \in Seq(S), s /= <<>>
  PROVE  /\ Len(s) \in Nat /\ Len(s) >= 1
         /\ Last(s) = s[Len(s)] /\ Last(s) \in S
         /\ Front(s) \in Seq(S) /\ Len(Front(s)) = Len(s) - 1
         /\ Front(s) = <<>> <=> Len(s) = 1
         /\ \A k \in 1 .. Len(s) - 1 : Front(s)[k] = s[k]
<1>1. Len(s) \in Nat /\ Len(s) >= 1
  BY EmptySeq, LenProperties
<1>2. Last(s) = s[Len(s)] /\ Last(s) \in S
  BY <1>1, ElementOfSeq DEF Last
<1>3. Front(s) \in Seq(S) /\ Len(Front(s)) = Len(s) - 1 /\ \A k \in 1 .. Len(s) - 1 : Front(s)[k] = s[k]
  <2>1. 1 \in Int /\ Len(s) - 1 \in Int /\ \A i \in 1 .. Len(s) - 1 : s[i] \in S
    BY <1>1, ElementOfSeq
  <2>2. /\ SubSeq(s, 1, Len(s) - 1) \in Seq(S)
        /\ Len(SubSeq(s, 1, Len(s) - 1)) = IF 1 <= Len(s) - 1 THEN Len(s) - 1 - 1 + 1 ELSE 0
        /\ \A i \in 1 .. Len(s) - 1 - 1 + 1 : SubSeq(s, 1, Len(s) - 1)[i] = s[1 + i - 1]
    BY <2>1, SubSeqProperties
  <2>3. PICK n \in Nat : n = Len(s)
    BY <1>1
  <2>4. PICK f : f = SubSeq(s, 1, Len(s) - 1)
    OBVIOUS
  <2>5. f \in Seq(S) /\ Len(f) = n - 1 /\ \A k \in 1 .. n - 1 : f[k] = s[k]
    <3>1. f \in Seq(S) /\ Len(f) = IF 1 <= n - 1 THEN n - 1 - 1 + 1 ELSE 0
      BY <2>2, <2>3, <2>4
    <3>2. \A i \in 1 .. n - 1 - 1 + 1 : f[i] = s[1 + i - 1]
      BY <2>2, <2>3, <2>4
    <3>3. n >= 1 /\ \A i \in 1 .. n - 1 : 1 + i - 1 = i /\ i \in 1 .. n - 1 - 1 + 1
      BY <1>1, <2>3
    <3> QED
      BY <3>1, <3>2, <3>3
  <2> QED
    BY <2>3, <2>4, <2>5 DEF Front
<1>4. Front(s) = <<>> <=> Len(s) = 1
  BY <1>1, <1>3, EmptySeq
<1> QED
  BY <1>1, <1>2, <1>3, <1>4

LEMMA ReplaceFacts ==
  ASSUME NEW S, NEW s \in Seq(S), s /= <<>>, NEW e \in S
  PROVE  /\ Append(Front(s), e) \in Seq(S) /\ Len(Append(Front(s), e)) = Len(s)
         /\ \A k \in 1 .. Len(s) : Append(Front(s), e)[k] = IF k = Len(s) THEN e ELSE s[k]
BY TopFacts, AppendProperties

LEMMA TopOfStack ==
  ASSUME stack \in [Threads -> Seq(Activations)], NEW t \in Threads, stack[t] /= <<>>
  PROVE  /\ Len(stack[t]) \in Nat /\ Len(stack[t]) >= 1
         /\ Top(t) = stack[t][Len(stack[t])] /\ Top(t) \in Activations
BY TopFacts DEF Top

LEMMA GotoReplaces ==
  ASSUME stack \in [Threads -> Seq(Activations)], NEW t \in Threads, stack[t] /= <<>>,
         NEW fr \in Activations, stack' = WithTop(t, fr)
  PROVE  stack' \in [Threads -> Seq(Activations)] /\ Replaces(t, fr)
<1>1. stack' = [stack EXCEPT ![t] = Append(Front(stack[t]), fr)]
  BY DEF WithTop
<1>2. Append(Front(stack[t]), fr) \in Seq(Activations)
  BY ReplaceFacts
<1>3. Len(stack'[t]) = Len(stack[t])
      /\ \A k \in 1 .. Len(stack[t]) : stack'[t][k] = IF k = Len(stack[t]) THEN fr ELSE stack[t][k]
  BY <1>1, ReplaceFacts
<1> QED
  BY <1>1, <1>2, <1>3 DEF Replaces

LEMMA CallPushes ==
  ASSUME stack \in [Threads -> Seq(Activations)], NEW t \in Threads, NEW fr \in Activations,
         stack' = [stack EXCEPT ![t] = Append(@, fr)]
  PROVE  stack' \in [Threads -> Seq(Activations)] /\ Pushes(t, fr)
BY AppendProperties DEF Pushes

LEMMA ReturnEffects ==
  ASSUME stack \in [Threads -> Seq(Activations)], returned \in [Threads -> [arg : Int, val : Results]],
         Args \subseteq Int, NEW t \in Threads, stack[t] /= <<>>, NEW v \in Results, Return(t, v)
  PROVE  /\ stack' \in [Threads -> Seq(Activations)]
         /\ returned' \in [Threads -> [arg : Int, val : Results]]
         /\ Finishes(t, v) \/ HandsDown(t, v)
<1> DEFINE rest == Front(stack[t])
<1>1. /\ rest \in Seq(Activations) /\ Len(rest) = Len(stack[t]) - 1
      /\ rest = <<>> <=> Len(stack[t]) = 1
      /\ \A k \in 1 .. Len(stack[t]) - 1 : rest[k] = stack[t][k]
  BY TopFacts
<1>2. Len(stack[t]) \in Nat /\ Len(stack[t]) >= 1 /\ Top(t) = stack[t][Len(stack[t])] /\ Top(t) \in Activations
  BY TopOfStack
<1>3. CASE rest = <<>>
  <2>1. stack' = [stack EXCEPT ![t] = <<>>] /\ returned' = [returned EXCEPT ![t] = [arg |-> Top(t).arg, val |-> v]]
    BY <1>3 DEF Return
  <2>2. Top(t) = stack[t][1] /\ Top(t).arg \in Int
    BY <1>1, <1>2, <1>3 DEF Activations
  <2>3. stack' \in [Threads -> Seq(Activations)] /\ stack'[t] = <<>>
    BY <2>1, EmptySeq
  <2>4. returned' \in [Threads -> [arg : Int, val : Results]]
    BY <2>1, <2>2
  <2> QED
    BY <1>1, <1>3, <2>1, <2>2, <2>3, <2>4 DEF Finishes
<1>4. CASE rest /= <<>>
  <2> DEFINE fr == [Last(rest) EXCEPT !.subs = Append(@, v)]
  <2>1. stack' = [stack EXCEPT ![t] = Append(Front(rest), fr)] /\ returned' = returned
    BY <1>4 DEF Return
  <2>2. Len(rest) >= 1 /\ Last(rest) = rest[Len(rest)] /\ Last(rest) \in Activations
    BY <1>1, <1>4, TopFacts
  <2>3. fr \in Activations
    <3>1. Last(rest).subs \in Seq(Results)
      BY <2>2 DEF Activations
    <3>2. Append(Last(rest).subs, v) \in Seq(Results)
      BY <3>1, AppendProperties
    <3> QED
      BY <2>2, <3>2 DEF Activations
  <2>4. /\ Append(Front(rest), fr) \in Seq(Activations) /\ Len(Append(Front(rest), fr)) = Len(rest)
        /\ \A k \in 1 .. Len(rest) : Append(Front(rest), fr)[k] = IF k = Len(rest) THEN fr ELSE rest[k]
    <3> HIDE DEF fr, rest
    <3> QED
      BY <1>1, <1>4, <2>3, ReplaceFacts
  <2>5. stack' \in [Threads -> Seq(Activations)] /\ stack'[t] = Append(Front(rest), fr)
        /\ \A u \in Threads \ {t} : stack'[u] = stack[u]
    BY <2>1, <2>4
  <2>6. fr = [stack[t][Len(stack[t]) - 1] EXCEPT !.subs = Append(@, v)]
    <3>1. Len(rest) \in 1 .. Len(stack[t]) - 1
      BY <1>1, <1>2, <2>2
    <3>2. Last(rest) = stack[t][Len(stack[t]) - 1]
      BY <1>1, <2>2, <3>1
    <3> QED
      BY <3>2
  <2>7. HandsDown(t, v)
    <3> HIDE DEF fr, rest
    <3>1. \A k \in 1 .. Len(stack[t]) - 1 :
            stack'[t][k] = IF k = Len(stack[t]) - 1 THEN fr ELSE stack[t][k]
      BY <1>1, <1>2, <2>4, <2>5
    <3>2. Len(stack'[t]) = Len(stack[t]) - 1 /\ Len(stack[t]) > 1
      BY <1>1, <1>2, <1>4, <2>4, <2>5
    <3> QED
      BY <2>1, <2>5, <2>6, <3>1, <3>2 DEF HandsDown
  <2> QED
    BY <2>1, <2>5, <2>7
<1> QED
  BY <1>3, <1>4

LEMMA HandsDownFields ==
  ASSUME stack \in [Threads -> Seq(Activations)], NEW t \in Threads, NEW v, HandsDown(t, v)
  PROVE  /\ Len(stack[t]) \in Nat /\ Len(stack[t]) > 1 /\ Len(stack'[t]) = Len(stack[t]) - 1
         /\ \A k \in 1 .. Len(stack[t]) - 1 :
              /\ stack'[t][k].arg = stack[t][k].arg /\ stack'[t][k].pc = stack[t][k].pc
              /\ stack'[t][k].val = stack[t][k].val
              /\ stack'[t][k].subs = IF k = Len(stack[t]) - 1 THEN Append(stack[t][k].subs, v)
                                     ELSE stack[t][k].subs
<1>1. Len(stack[t]) \in Nat /\ \A k \in 1 .. Len(stack[t]) : stack[t][k] \in Activations
  BY LenProperties, ElementOfSeq
<1>2. \A fr \in Activations : \A x :
        /\ [fr EXCEPT !.subs = x].arg = fr.arg /\ [fr EXCEPT !.subs = x].pc = fr.pc
        /\ [fr EXCEPT !.subs = x].val = fr.val /\ [fr EXCEPT !.subs = x].subs = x
  BY DEF Activations
<1>3. Len(stack[t]) > 1 /\ Len(stack'[t]) = Len(stack[t]) - 1
  BY DEF HandsDown
<1> QED
  <2> SUFFICES ASSUME NEW k \in 1 .. Len(stack[t]) - 1
               PROVE  /\ stack'[t][k].arg = stack[t][k].arg /\ stack'[t][k].pc = stack[t][k].pc
                      /\ stack'[t][k].val = stack[t][k].val
                      /\ stack'[t][k].subs = IF k = Len(stack[t]) - 1 THEN Append(stack[t][k].subs, v)
                                             ELSE stack[t][k].subs
    BY <1>1, <1>3
  <2>1. stack[t][k] \in Activations
    BY <1>1
  <2>2. stack'[t][k] = IF k = Len(stack[t]) - 1
                       THEN [stack[t][k] EXCEPT !.subs = Append(stack[t][k].subs, v)] ELSE stack[t][k]
    BY DEF HandsDown
  <2> QED
    BY <1>2, <2>1, <2>2

-----------------------------------------------------------------------------
(* What each step of an activation does.                                   *)

\* The stores of a miss, one by one.
SetsFlag(t) ==
  /\ Top(t).pc = IF layout = "dense" THEN "store1" ELSE "store3"
  /\ table' = [table EXCEPT ![SlotOf(Top(t).arg)] = [@ EXCEPT !.valid = TRUE]]
SetsKey(t) ==
  /\ layout = "hash" /\ Top(t).pc = "store1"
  /\ table' = [table EXCEPT ![SlotOf(Top(t).arg)] = [@ EXCEPT !.key = Top(t).arg]]
SetsValue(t) ==
  /\ Top(t).pc = "store2"
  /\ table' = [table EXCEPT ![SlotOf(Top(t).arg)] = [@ EXCEPT !.val = Top(t).val]]

LEMMA StoreCases ==
  ASSUME layout \in {"dense", "hash"}, NEW t \in Threads, Store(t)
  PROVE  /\ stack[t] /= <<>> /\ computed' = computed
         /\ UNCHANGED <<program, layout, at, pending, global>>
         /\ \/ /\ \/ layout = "dense" /\ SetsFlag(t)
                  \/ layout = "hash" /\ (SetsKey(t) \/ SetsValue(t))
               /\ Goto(t, IF Top(t).pc = "store1" THEN "store2" ELSE "store3")
               /\ returned' = returned
            \/ /\ \/ layout = "dense" /\ SetsValue(t)
                  \/ layout = "hash" /\ SetsFlag(t)
               /\ Return(t, Top(t).val)
<1>1. PICK k \in DOMAIN StoreOrder :
        /\ IsAt(t, StoreSteps[k])
        /\ table' = [table EXCEPT ![SlotOf(Top(t).arg)] = Stored(@, StoreOrder[k], Top(t))]
        /\ IF k < Len(StoreOrder) THEN Goto(t, StoreSteps[k + 1]) /\ UNCHANGED returned
           ELSE Return(t, Top(t).val)
        /\ UNCHANGED computed /\ Unchanged
  BY Zenon DEF Store
<1>2. stack[t] /= <<>> /\ computed' = computed /\ UNCHANGED <<program, layout, at, pending, global>>
  BY <1>1 DEF IsAt, Unchanged
<1>3. /\ k = 1 => Top(t).pc = "store1"
      /\ k = 2 => Top(t).pc = "store2"
      /\ k = 3 => Top(t).pc = "store3"
  BY <1>1 DEF StoreSteps, IsAt
<1>4. PICK f, next : f = StoreOrder[k] /\ next = StoreSteps[k + 1]
  OBVIOUS
<1>5. /\ f = "valid" => table' = [table EXCEPT ![SlotOf(Top(t).arg)] = [@ EXCEPT !.valid = TRUE]]
      /\ f = "key" => table' = [table EXCEPT ![SlotOf(Top(t).arg)] = [@ EXCEPT !.key = Top(t).arg]]
      /\ f = "val" => table' = [table EXCEPT ![SlotOf(Top(t).arg)] = [@ EXCEPT !.val = Top(t).val]]
  <2>1. table' = [table EXCEPT ![SlotOf(Top(t).arg)] = Stored(@, f, Top(t))]
    BY <1>1, <1>4, Zenon
  <2> QED
    BY <2>1 DEF Stored
<1>6. IF k < Len(StoreOrder) THEN Goto(t, next) /\ returned' = returned ELSE Return(t, Top(t).val)
  BY <1>1, <1>4, Zenon
<1>7. (k = 1 => next = "store2") /\ (k = 2 => next = "store3")
  BY <1>4 DEF StoreSteps
<1>8. CASE layout = "dense"
  <2>1. DOMAIN StoreOrder = {1, 2} /\ Len(StoreOrder) = 2 /\ StoreOrder[1] = "valid" /\ StoreOrder[2] = "val"
    BY <1>8 DEF StoreOrder
  <2>2. CASE k = 1
    <3>1. SetsFlag(t)
      BY <1>3, <1>4, <1>5, <1>8, <2>1, <2>2 DEF SetsFlag
    <3>2. Goto(t, "store2") /\ returned' = returned
      BY <1>6, <1>7, <2>1, <2>2
    <3> QED
      BY <1>2, <1>3, <1>8, <2>2, <3>1, <3>2
  <2>3. CASE k = 2
    <3>1. SetsValue(t)
      BY <1>3, <1>4, <1>5, <1>8, <2>1, <2>3 DEF SetsValue
    <3>2. Return(t, Top(t).val)
      BY <1>6, <1>7, <2>1, <2>3
    <3> QED
      BY <1>2, <1>3, <1>8, <2>3, <3>1, <3>2
  <2> QED
    BY <2>1, <2>2, <2>3
<1>9. CASE layout = "hash"
  <2>1. /\ DOMAIN StoreOrder = {1, 2, 3} /\ Len(StoreOrder) = 3
        /\ StoreOrder[1] = "key" /\ StoreOrder[2] = "val" /\ StoreOrder[3] = "valid"
    BY <1>9 DEF StoreOrder
  <2>2. CASE k = 1
    <3>1. SetsKey(t)
      BY <1>3, <1>4, <1>5, <1>9, <2>1, <2>2 DEF SetsKey
    <3>2. Goto(t, "store2") /\ returned' = returned
      BY <1>6, <1>7, <2>1, <2>2
    <3> QED
      BY <1>2, <1>3, <1>9, <2>2, <3>1, <3>2
  <2>3. CASE k = 2
    <3>1. SetsValue(t)
      BY <1>3, <1>4, <1>5, <1>9, <2>1, <2>3 DEF SetsValue
    <3>2. Goto(t, "store3") /\ returned' = returned
      BY <1>6, <1>7, <2>1, <2>3
    <3> QED
      BY <1>2, <1>3, <1>9, <2>3, <3>1, <3>2
  <2>4. CASE k = 3
    <3>1. SetsFlag(t)
      BY <1>3, <1>4, <1>5, <1>9, <2>1, <2>4 DEF SetsFlag
    <3>2. Return(t, Top(t).val)
      BY <1>6, <1>7, <2>1, <2>4
    <3> QED
      BY <1>2, <1>3, <1>9, <2>4, <3>1, <3>2
  <2> QED
    BY <2>1, <2>2, <2>3, <2>4
<1> QED
  BY <1>8, <1>9

-----------------------------------------------------------------------------
(* Types.                                                                  *)

\* An activation past the lookup has a slot; between the stores of key and
\* flag the key is one that belongs in it.
PlacedIn(tab, fr) ==
  /\ fr.pc \notin {"entry", "body"} => InBounds(fr.arg)
  /\ layout = "hash" /\ fr.pc \in {"store2", "store3"}
     => SlotOf(tab[SlotOf(fr.arg)].key) = SlotOf(fr.arg)
Placed(fr) == PlacedIn(table, fr)

WellPlaced == \A t \in Threads : \A k \in 1 .. Len(stack[t]) : Placed(stack[t][k])

TypeInv == TypeOK /\ WellPlaced

LEMMA SlotInRange ==
  ASSUME NEW n \in Int, InBounds(n)
  PROVE  SlotOf(n) \in Slots
<1>1. n % HASH_SLOTS \in 0 .. HASH_SLOTS - 1
  BY SizesAssumption
<1> QED
  BY <1>1, SizesAssumption DEF InBounds, SlotOf, Slots

LEMMA SmallerFacts ==
  ASSUME NEW n \in Args
  PROVE  /\ n \in Int /\ Len(Smaller(n)) \in 0 .. 2 /\ DOMAIN Smaller(n) = 1 .. Len(Smaller(n))
         /\ \A i \in 1 .. Len(Smaller(n)) : Smaller(n)[i] \in Args /\ Smaller(n)[i] < n
<1>1. n \in Int /\ \A i \in DOMAIN Smaller(n) : Smaller(n)[i] \in Args
  BY ArgsAssumption
<1>2. CASE n < 2
  BY <1>1, <1>2 DEF Smaller
<1>3. CASE ~(n < 2)
  <2>1. Smaller(n) = <<n - 1, n - 2>>
    BY <1>3 DEF Smaller
  <2>2. Len(Smaller(n)) = 2 /\ DOMAIN Smaller(n) = 1 .. 2 /\ Smaller(n)[1] = n - 1 /\ Smaller(n)[2] = n - 2
    BY <2>1
  <2> QED
    BY <1>1, <2>2
<1> QED
  BY <1>2, <1>3

LEMMA ActivationTyped ==
  ASSUME NEW n \in Args
  PROVE  /\ Activation(n) \in Activations /\ Activation(n).arg = n /\ Activation(n).subs = <<>>
         /\ Activation(n).pc \in {"entry", "body"}
         /\ ~Frozen(program) => Activation(n).pc = "body"
         /\ Frozen(program) => Activation(n).pc = "entry"
BY EmptySeq DEF Activation, Activations, Labels, Results, NoResult

\* A step that writes no misplaced key keeps activations placed, if those it adds
\* or changes are.
LEMMA PlacedAfterStore ==
  ASSUME WellPlaced, stack \in [Threads -> Seq(Activations)], stack' \in [Threads -> Seq(Activations)],
         NEW t \in Threads, layout' = layout,
         \A n \in Args : InBounds(n) => \/ table'[SlotOf(n)].key = table[SlotOf(n)].key
                                        \/ SlotOf(table'[SlotOf(n)].key) = SlotOf(n),
         \/ \E fr : /\ PlacedIn(table', fr) /\ stack'[t] = <<fr>>
                    /\ \A u \in Threads \ {t} : stack'[u] = stack[u]
         \/ \E fr : PlacedIn(table', fr) /\ Replaces(t, fr)
         \/ \E fr : PlacedIn(table', fr) /\ Pushes(t, fr)
         \/ \E v : Finishes(t, v) \/ HandsDown(t, v)
  PROVE  WellPlaced'
<1> SUFFICES ASSUME NEW u \in Threads, NEW k \in 1 .. Len(stack'[u])
             PROVE  Placed(stack[u][k])'
  BY Zenon DEF WellPlaced
<1>1. \A j \in 1 .. Len(stack[u]) : stack[u][j].arg \in Args => PlacedIn(table', stack[u][j])
  BY DEF WellPlaced, Placed, PlacedIn
<1>2. stack'[u][k].arg \in Args
  <2>1. stack'[u][k] \in Activations
    BY ElementOfSeq
  <2> QED
    BY <2>1 DEF Activations
<1>3. \E fr : PlacedIn(table', fr) /\ stack'[u][k].arg = fr.arg /\ stack'[u][k].pc = fr.pc
  <2>1. CASE stack'[u] = stack[u]
    BY <1>1, <1>2, <2>1
  <2>2. CASE u = t
    <3>1. Len(stack[t]) \in Nat
      BY LenProperties
    <3>2. CASE \E fr : PlacedIn(table', fr) /\ stack'[t] = <<fr>>
      <4>1. PICK fr : PlacedIn(table', fr) /\ stack'[t] = <<fr>>
        BY <3>2
      <4>2. Len(<<fr>>) = 1 /\ <<fr>>[1] = fr
        OBVIOUS
      <4>3. k = 1
        BY <2>2, <4>1, <4>2
      <4> QED
        BY <2>2, <4>1, <4>2, <4>3
    <3>3. ASSUME NEW fr, PlacedIn(table', fr), Replaces(t, fr)
          PROVE  PlacedIn(table', stack'[t][k]) \/ \E j \in 1 .. Len(stack[t]) : stack'[t][k] = stack[t][j]
      BY <2>2, <3>1, <3>3 DEF Replaces
    <3>4. ASSUME NEW fr, PlacedIn(table', fr), Pushes(t, fr)
          PROVE  PlacedIn(table', stack'[t][k]) \/ \E j \in 1 .. Len(stack[t]) : stack'[t][k] = stack[t][j]
      BY <2>2, <3>1, <3>4 DEF Pushes
    <3>5. ASSUME NEW v, Finishes(t, v) \/ HandsDown(t, v)
          PROVE  \E j \in 1 .. Len(stack[t]) :
                   stack'[t][k].arg = stack[t][j].arg /\ stack'[t][k].pc = stack[t][j].pc
      <4>1. HandsDown(t, v)
        BY <2>2, <3>5, EmptySeq DEF Finishes
      <4>2. k \in 1 .. Len(stack[t]) - 1 /\ k \in 1 .. Len(stack[t])
        BY <2>2, <3>1, <4>1, HandsDownFields
      <4> QED
        BY <4>1, <4>2, HandsDownFields
    <3> QED
      BY <1>1, <1>2, <2>2, <3>2, <3>3, <3>4, <3>5
  <2> QED
    BY <2>1, <2>2 DEF Replaces, Pushes, Finishes, HandsDown
<1> QED
  BY <1>3 DEF Placed, PlacedIn, InBounds, SlotOf

LEMMA PlacedAfter ==
  ASSUME WellPlaced, stack \in [Threads -> Seq(Activations)], stack' \in [Threads -> Seq(Activations)],
         NEW t \in Threads, UNCHANGED <<layout, table>>,
         \/ \E fr : /\ Placed(fr) /\ stack'[t] = <<fr>>
                    /\ \A u \in Threads \ {t} : stack'[u] = stack[u]
         \/ \E fr : Placed(fr) /\ Replaces(t, fr)
         \/ \E fr : Placed(fr) /\ Pushes(t, fr)
         \/ \E v : Finishes(t, v) \/ HandsDown(t, v)
  PROVE  WellPlaced'
<1>1. table' = table /\ layout' = layout
  OBVIOUS
<1>2. \A fr : Placed(fr) => PlacedIn(table', fr)
  BY <1>1 DEF Placed
<1> QED
  BY <1>1, <1>2, PlacedAfterStore

LEMMA GotoEffect ==
  ASSUME stack \in [Threads -> Seq(Activations)], NEW t \in Threads, stack[t] /= <<>>,
         NEW pc \in Labels, Goto(t, pc)
  PROVE  /\ stack' \in [Threads -> Seq(Activations)]
         /\ \E fr \in Activations : /\ Replaces(t, fr) /\ fr.pc = pc /\ fr.arg = Top(t).arg
                                     /\ fr.subs = Top(t).subs /\ fr.val = Top(t).val
<1> DEFINE fr == [Top(t) EXCEPT !.pc = pc]
<1>1. Top(t) \in Activations
  BY TopOfStack
<1>2. fr \in Activations /\ fr.pc = pc /\ fr.arg = Top(t).arg /\ fr.subs = Top(t).subs /\ fr.val = Top(t).val
  BY <1>1 DEF Activations
<1>3. stack' = WithTop(t, fr)
  BY DEF Goto
<1> HIDE DEF fr
<1>4. stack' \in [Threads -> Seq(Activations)] /\ Replaces(t, fr)
  BY <1>2, <1>3, GotoReplaces
<1> QED
  BY <1>2, <1>4

LEMMA TopPlaced ==
  ASSUME TypeInv, NEW t \in Threads, stack[t] /= <<>>
  PROVE  /\ Top(t) \in Activations /\ Top(t).arg \in Args /\ Top(t).arg \in Int /\ Placed(Top(t))
         /\ InBounds(Top(t).arg) => SlotOf(Top(t).arg) \in Slots
<1>1. Top(t) \in Activations /\ Top(t) = stack[t][Len(stack[t])] /\ Len(stack[t]) \in 1 .. Len(stack[t])
  BY TopOfStack DEF TypeInv, TypeOK
<1>2. Placed(Top(t))
  BY <1>1 DEF TypeInv, WellPlaced
<1>3. Top(t).arg \in Args /\ Top(t).arg \in Int
  BY <1>1, ArgsAssumption DEF Activations
<1> QED
  BY <1>1, <1>2, <1>3, SlotInRange

LEMMA InitTyped == Init => TypeInv
<1> SUFFICES ASSUME Init PROVE TypeInv
  OBVIOUS
<1>1. program \in Programs /\ layout \in Layouts /\ at \in 0 .. Len(program)
  <2>1. Len(program) \in Nat
    BY ProgramsAssumption, LenProperties DEF Init
  <2> QED
    BY <2>1 DEF Init
<1>2. table \in [Slots -> Slot] /\ \A s \in Slots : ~table[s].valid
  BY DEF Init, EmptySlot, Slot, Results, NoResult
<1>3. stack \in [Threads -> Seq(Activations)] /\ \A t \in Threads : Len(stack[t]) = 0
  BY EmptySeq DEF Init
<1>4. returned \in [Threads -> [arg : Int, val : Results]] /\ computed \in [Args -> 0 .. 2]
  BY DEF Init, Results
<1>5. pending \subseteq Threads /\ global \in {0, 1}
  BY DEF Init
<1> QED
  BY <1>1, <1>2, <1>3, <1>4, <1>5 DEF TypeInv, TypeOK, WellPlaced

LEMMA AdvanceTyped ==
  ASSUME TypeInv, Advance
  PROVE  TypeInv'
<1>1. /\ at' \in 0 .. Len(program) /\ pending' \subseteq Threads /\ global' \in {0, 1}
  <2>1. Len(program) \in Nat
    BY ProgramsAssumption, LenProperties DEF TypeInv, TypeOK
  <2> QED
    BY <2>1 DEF Advance, TypeInv, TypeOK, Threads
<1>2. UNCHANGED <<program, layout, table, stack, returned, computed>>
  BY DEF Advance
<1> QED
  BY <1>1, <1>2 DEF TypeInv, TypeOK, WellPlaced, Placed, PlacedIn, InBounds, SlotOf, Slots

LEMMA CallTyped ==
  ASSUME TypeInv, NEW t \in Threads, NEW n \in Args, Call(t, n)
  PROVE  TypeInv'
<1>1. Activation(n) \in Activations /\ Placed(Activation(n))
  BY ActivationTyped DEF Placed, PlacedIn
<1>2. /\ stack' \in [Threads -> Seq(Activations)] /\ stack'[t] = <<Activation(n)>>
      /\ \A u \in Threads \ {t} : stack'[u] = stack[u]
  BY <1>1 DEF Call, TypeInv, TypeOK
<1>3. UNCHANGED <<program, layout, at, global, table, returned, computed>> /\ pending' \subseteq Threads
  BY DEF Call, TypeInv, TypeOK
<1>4. WellPlaced'
  BY <1>1, <1>2, <1>3, PlacedAfter DEF TypeInv, TypeOK
<1> QED
  BY <1>2, <1>3, <1>4 DEF TypeInv, TypeOK, Slots, SlotOf

LEMMA LookupEffect ==
  ASSUME TypeInv, NEW t \in Threads, Lookup(t) \/ CompareKey(t)
  PROVE  LET a == Top(t).arg
             slot == table[SlotOf(a)]
         IN
         /\ stack[t] /= <<>> /\ Top(t).pc \in {"entry", "key"}
         /\ UNCHANGED <<program, layout, at, pending, global, table, returned, computed>>
         /\ stack' \in [Threads -> Seq(Activations)]
         /\ \E fr \in Activations :
              /\ Replaces(t, fr) /\ fr.arg = a /\ fr.subs = Top(t).subs /\ fr.val = Top(t).val
              /\ \/ fr.pc = "body" /\ (Top(t).pc = "key" \/ ~InBounds(a) \/ ~slot.valid)
                 \/ fr.pc = "key" /\ InBounds(a) /\ layout = "hash" /\ slot.valid
                 \/ fr.pc = "hit" /\ InBounds(a) /\ layout /= "hash" /\ slot.valid
                 \/ fr.pc = "hit" /\ InBounds(a) /\ Top(t).pc = "key" /\ slot.key = a
<1> DEFINE a == Top(t).arg
           slot == table[SlotOf(a)]
<1>1. /\ stack[t] /= <<>> /\ Top(t).pc \in {"entry", "key"}
      /\ UNCHANGED <<program, layout, at, pending, global, table, returned, computed>>
  BY DEF Lookup, CompareKey, IsAt, Unchanged
<1>2. \E pc \in {"body", "key", "hit"} :
        /\ Goto(t, pc)
        /\ \/ pc = "body" /\ (Top(t).pc = "key" \/ ~InBounds(a) \/ ~slot.valid)
           \/ pc = "key" /\ InBounds(a) /\ layout = "hash" /\ slot.valid
           \/ pc = "hit" /\ InBounds(a) /\ layout /= "hash" /\ slot.valid
           \/ pc = "hit" /\ InBounds(a) /\ Top(t).pc = "key" /\ slot.key = a
  <2>1. CASE Lookup(t)
    <3>1. CASE ~InBounds(a) \/ ~slot.valid
      <4>1. Goto(t, "body")
        BY <2>1, <3>1 DEF Lookup
      <4> QED
        BY <3>1, <4>1
    <3>2. CASE InBounds(a) /\ slot.valid
      <4>1. Goto(t, IF layout = "hash" THEN "key" ELSE "hit")
        BY <2>1, <3>2, Zenon DEF Lookup
      <4> QED
        BY <3>2, <4>1
    <3> QED
      BY <3>1, <3>2
  <2>2. CASE CompareKey(t)
    <3>1. Goto(t, IF slot.key = a THEN "hit" ELSE "body")
      BY <2>2, Zenon DEF CompareKey
    <3>2. Top(t).pc = "key" /\ InBounds(a)
      BY <1>1, <2>2, TopPlaced DEF CompareKey, IsAt, Placed, PlacedIn
    <3> QED
      BY <3>1, <3>2
  <2> QED
    BY <2>1, <2>2
<1>3. PICK pc \in {"body", "key", "hit"} :
        /\ Goto(t, pc)
        /\ \/ pc = "body" /\ (Top(t).pc = "key" \/ ~InBounds(a) \/ ~slot.valid)
           \/ pc = "key" /\ InBounds(a) /\ layout = "hash" /\ slot.valid
           \/ pc = "hit" /\ InBounds(a) /\ layout /= "hash" /\ slot.valid
           \/ pc = "hit" /\ InBounds(a) /\ Top(t).pc = "key" /\ slot.key = a
  BY <1>2
<1>4. pc \in Labels /\ stack \in [Threads -> Seq(Activations)]
  BY DEF Labels, TypeInv, TypeOK
<1>5. PICK fr \in Activations : /\ Replaces(t, fr) /\ fr.pc = pc /\ fr.arg = a
                               /\ fr.subs = Top(t).subs /\ fr.val = Top(t).val
  BY <1>1, <1>3, <1>4, GotoEffect
<1>6. stack' \in [Threads -> Seq(Activations)]
  BY <1>1, <1>3, <1>4, GotoEffect
<1> QED
  BY <1>1, <1>3, <1>5, <1>6

LEMMA LookupTyped ==
  ASSUME TypeInv, NEW t \in Threads, Lookup(t) \/ CompareKey(t)
  PROVE  TypeInv'
<1>1. /\ stack' \in [Threads -> Seq(Activations)]
      /\ UNCHANGED <<program, layout, at, pending, global, table, returned, computed>>
  BY LookupEffect
<1>2. PICK fr \in Activations : Replaces(t, fr) /\ (fr.pc = "body" \/ (fr.pc \in {"key", "hit"} /\ InBounds(fr.arg)))
  BY LookupEffect
<1>3. Placed(fr)
  BY <1>2 DEF Placed, PlacedIn
<1>4. WellPlaced'
  BY <1>1, <1>2, <1>3, PlacedAfter DEF TypeInv, TypeOK
<1> QED
  BY <1>1, <1>4 DEF TypeInv, TypeOK, Slots, SlotOf

LEMMA HitTyped ==
  ASSUME TypeInv, NEW t \in Threads, Hit(t)
  PROVE  TypeInv'
<1>1. /\ stack[t] /= <<>> /\ Top(t).pc = "hit" /\ Return(t, table[SlotOf(Top(t).arg)].val)
      /\ UNCHANGED <<program, layout, at, pending, global, table, computed>>
  BY DEF Hit, IsAt, Unchanged
<1>2. table[SlotOf(Top(t).arg)].val \in Results
  <2>1. SlotOf(Top(t).arg) \in Slots
    BY <1>1, TopPlaced DEF Placed, PlacedIn
  <2> QED
    BY <2>1 DEF TypeInv, TypeOK, Slot
<1>3. /\ stack' \in [Threads -> Seq(Activations)] /\ returned' \in [Threads -> [arg : Int, val : Results]]
      /\ \E v : Finishes(t, v) \/ HandsDown(t, v)
  BY <1>1, <1>2, ReturnEffects, ArgsAssumption DEF TypeInv, TypeOK
<1>4. WellPlaced'
  BY <1>1, <1>3, PlacedAfter DEF TypeInv, TypeOK
<1> QED
  BY <1>1, <1>3, <1>4 DEF TypeInv, TypeOK, Slots, SlotOf

LEMMA RecurseEffect ==
  ASSUME TypeInv, NEW t \in Threads, Recurse(t)
  PROVE  /\ stack[t] /= <<>> /\ Top(t).pc = "body"
         /\ Len(Top(t).subs) \in Nat /\ Len(Top(t).subs) < Len(Smaller(Top(t).arg))
         /\ UNCHANGED <<program, layout, at, pending, global, table, returned, computed>>
         /\ stack' \in [Threads -> Seq(Activations)]
         /\ \E n \in Args : n = Smaller(Top(t).arg)[Len(Top(t).subs) + 1] /\ Pushes(t, Activation(n))
<1>1. /\ stack[t] /= <<>> /\ Top(t).pc = "body" /\ Len(Top(t).subs) < Len(Smaller(Top(t).arg))
      /\ UNCHANGED <<program, layout, at, pending, global, table, returned, computed>>
  BY DEF Recurse, IsAt, Unchanged
<1>2. Len(Top(t).subs) \in Nat /\ Top(t).arg \in Args
  <2>1. Top(t) \in Activations
    BY <1>1, TopPlaced
  <2>2. Top(t).subs \in Seq(Results) /\ Top(t).arg \in Args
    BY <2>1 DEF Activations
  <2> QED
    BY <2>2, LenProperties
<1>3. PICK n : n = Smaller(Top(t).arg)[Len(Top(t).subs) + 1]
  OBVIOUS
<1>4. n \in Args
  BY <1>1, <1>2, <1>3, SmallerFacts
<1>5. stack' = [stack EXCEPT ![t] = Append(@, Activation(n))]
  BY <1>3, Zenon DEF Recurse
<1>6. stack' \in [Threads -> Seq(Activations)] /\ Pushes(t, Activation(n))
  BY <1>4, <1>5, ActivationTyped, CallPushes DEF TypeInv, TypeOK
<1> QED
  BY <1>1, <1>2, <1>3, <1>4, <1>6

LEMMA RecurseTyped ==
  ASSUME TypeInv, NEW t \in Threads, Recurse(t)
  PROVE  TypeInv'
<1>1. PICK n \in Args : Pushes(t, Activation(n))
  BY RecurseEffect
<1>2. Placed(Activation(n))
  BY ActivationTyped DEF Placed, PlacedIn
<1>3. /\ UNCHANGED <<program, layout, at, pending, global, table, returned, computed>>
      /\ stack' \in [Threads -> Seq(Activations)]
  BY RecurseEffect
<1>4. WellPlaced'
  BY <1>1, <1>2, <1>3, PlacedAfter DEF TypeInv, TypeOK
<1> QED
  BY <1>3, <1>4 DEF TypeInv, TypeOK, Slots, SlotOf

\* The result of a body: right if those of its calls are.
LEMMA ComputeEffect ==
  ASSUME TypeInv, NEW t \in Threads, Compute(t)
  PROVE  /\ stack[t] /= <<>> /\ Top(t).pc = "body" /\ Len(Top(t).subs) = Len(Smaller(Top(t).arg))
         /\ UNCHANGED <<program, layout, at, pending, global, table>>
         /\ computed' = [computed EXCEPT ![Top(t).arg] = IF @ < 2 THEN @ + 1 ELSE @]
         /\ stack' \in [Threads -> Seq(Activations)] /\ returned' \in [Threads -> [arg : Int, val : Results]]
         /\ \E v \in Int \X {0, 1} :
              /\ Top(t).subs = [i \in DOMAIN Smaller(Top(t).arg) |-> <<Smaller(Top(t).arg)[i], global>>]
                 => v = <<Top(t).arg, global>>
              /\ IF Frozen(program) /\ InBounds(Top(t).arg)
                 THEN /\ returned' = returned
                      /\ \E fr \in Activations : /\ Replaces(t, fr) /\ fr.pc = "store1" /\ fr.val = v
                                                  /\ fr.arg = Top(t).arg /\ fr.subs = Top(t).subs
                 ELSE Finishes(t, v) \/ HandsDown(t, v)
<1> DEFINE fr == Top(t)
           subs == Smaller(fr.arg)
           right == fr.subs = [i \in DOMAIN subs |-> <<subs[i], global>>]
           v == IF right THEN <<fr.arg, global>> ELSE <<fr.arg, 1 - global>>
           stored == [fr EXCEPT !.pc = "store1", !.val = v]
<1>1. /\ stack[t] /= <<>> /\ fr.pc = "body" /\ Len(fr.subs) = Len(subs)
      /\ UNCHANGED <<program, layout, at, pending, global, table>>
      /\ computed' = [computed EXCEPT ![fr.arg] = IF @ < 2 THEN @ + 1 ELSE @]
  BY DEF Compute, IsAt, Unchanged
<1>2. fr \in Activations /\ fr.arg \in Int /\ global \in {0, 1} /\ 1 - global \in {0, 1}
  BY <1>1, TopPlaced DEF TypeInv, TypeOK
<1>3. v \in Int \X {0, 1} /\ (right => v = <<fr.arg, global>>)
  BY <1>2
<1>4. IF Frozen(program) /\ InBounds(fr.arg)
      THEN stack' = WithTop(t, stored) /\ returned' = returned
      ELSE Return(t, v)
  BY DEF Compute
<1> HIDE DEF v
<1>5. CASE Frozen(program) /\ InBounds(fr.arg)
  <2>1. stack' = WithTop(t, stored) /\ returned' = returned
    BY <1>4, <1>5
  <2>2. /\ stored \in Activations /\ stored.pc = "store1" /\ stored.val = v
        /\ stored.arg = fr.arg /\ stored.subs = fr.subs
    BY <1>2, <1>3 DEF Activations, Labels, Results
  <2> HIDE DEF stored, fr
  <2>3. stack' \in [Threads -> Seq(Activations)] /\ Replaces(t, stored)
    BY <1>1, <2>1, <2>2, GotoReplaces DEF TypeInv, TypeOK
  <2>4. returned' \in [Threads -> [arg : Int, val : Results]]
    BY <2>1 DEF TypeInv, TypeOK
  <2>5. \E f \in Activations : /\ Replaces(t, f) /\ f.pc = "store1" /\ f.val = v
                               /\ f.arg = fr.arg /\ f.subs = fr.subs
    BY <2>2, <2>3
  <2> QED
    BY <1>1, <1>3, <1>5, <2>1, <2>3, <2>4, <2>5 DEF fr
<1>6. CASE ~(Frozen(program) /\ InBounds(fr.arg))
  <2>1. Return(t, v)
    BY <1>4, <1>6
  <2>2. v \in Results
    BY <1>3 DEF Results
  <2>3. /\ stack' \in [Threads -> Seq(Activations)]
        /\ returned' \in [Threads -> [arg : Int, val : Results]]
        /\ Finishes(t, v) \/ HandsDown(t, v)
    BY <1>1, <2>1, <2>2, ReturnEffects, ArgsAssumption DEF TypeInv, TypeOK
  <2> QED
    BY <1>1, <1>3, <1>6, <2>3
<1> QED
  BY <1>5, <1>6

LEMMA ComputeTyped ==
  ASSUME TypeInv, NEW t \in Threads, Compute(t)
  PROVE  TypeInv'
<1>1. /\ stack[t] /= <<>> /\ UNCHANGED <<program, layout, at, pending, global, table>>
      /\ computed' = [computed EXCEPT ![Top(t).arg] = IF @ < 2 THEN @ + 1 ELSE @]
      /\ stack' \in [Threads -> Seq(Activations)] /\ returned' \in [Threads -> [arg : Int, val : Results]]
  BY ComputeEffect
<1>2. computed' \in [Args -> 0 .. 2]
  <2>1. \A n \in Args : computed[n] \in 0 .. 2 /\ (IF computed[n] < 2 THEN computed[n] + 1 ELSE computed[n]) \in 0 .. 2
    BY DEF TypeInv, TypeOK
  <2> QED
    BY <1>1, <2>1, TopPlaced DEF TypeInv, TypeOK
<1>3. \/ \E fr : Placed(fr) /\ Replaces(t, fr)
      \/ \E v : Finishes(t, v) \/ HandsDown(t, v)
  <2>1. CASE Frozen(program) /\ InBounds(Top(t).arg)
    <3>1. PICK fr \in Activations : Replaces(t, fr) /\ fr.pc = "store1" /\ fr.arg = Top(t).arg
      BY <2>1, ComputeEffect
    <3>2. Placed(fr)
      BY <2>1, <3>1 DEF Placed, PlacedIn
    <3> QED
      BY <3>1, <3>2
  <2>2. CASE ~(Frozen(program) /\ InBounds(Top(t).arg))
    BY <2>2, ComputeEffect
  <2> QED
    BY <2>1, <2>2
<1>4. WellPlaced'
  BY <1>1, <1>3, PlacedAfter DEF TypeInv, TypeOK
<1> QED
  BY <1>1, <1>2, <1>4 DEF TypeInv, TypeOK, Slots, SlotOf

LEMMA StoreEffect ==
  ASSUME TypeInv, NEW t \in Threads, Store(t)
  PROVE  LET a == Top(t).arg
             s == SlotOf(a)
         IN
         /\ stack[t] /= <<>> /\ InBounds(a) /\ s \in Slots
         /\ computed' = computed /\ UNCHANGED <<program, layout, at, pending, global>>
         /\ table' \in [Slots -> Slot] /\ \A r \in Slots \ {s} : table'[r] = table[r]
         /\ stack' \in [Threads -> Seq(Activations)] /\ returned' \in [Threads -> [arg : Int, val : Results]]
         /\ \/ /\ Top(t).pc = IF layout = "dense" THEN "store1" ELSE "store3"
               /\ table'[s].valid /\ table'[s].key = table[s].key /\ table'[s].val = table[s].val
            \/ /\ layout = "hash" /\ Top(t).pc = "store1" /\ table'[s].key = a
               /\ table'[s].valid = table[s].valid /\ table'[s].val = table[s].val
            \/ /\ Top(t).pc = "store2" /\ table'[s].val = Top(t).val
               /\ table'[s].key = table[s].key /\ table'[s].valid = table[s].valid
         /\ IF Top(t).pc = "store1" \/ (Top(t).pc = "store2" /\ layout = "hash")
            THEN /\ returned' = returned
                 /\ \E fr \in Activations :
                      /\ Replaces(t, fr) /\ fr.pc = IF Top(t).pc = "store1" THEN "store2" ELSE "store3"
                      /\ fr.arg = a /\ fr.subs = Top(t).subs /\ fr.val = Top(t).val
            ELSE Finishes(t, Top(t).val) \/ HandsDown(t, Top(t).val)
<1> DEFINE a == Top(t).arg
           s == SlotOf(a)
<1>1. layout \in {"dense", "hash"}
  BY LayoutsAssumption DEF TypeInv, TypeOK
<1>2. /\ stack[t] /= <<>> /\ computed' = computed
      /\ UNCHANGED <<program, layout, at, pending, global>>
  BY <1>1, StoreCases
<1>3. SetsFlag(t) \/ SetsKey(t) \/ SetsValue(t)
  BY <1>1, StoreCases
<1>4. InBounds(a) /\ s \in Slots /\ a \in Int /\ Top(t).val \in Results /\ Top(t).pc \in Labels
  <2>1. Top(t).pc \in {"store1", "store2", "store3"}
    BY <1>3 DEF SetsFlag, SetsKey, SetsValue
  <2>2. Top(t).val \in Results /\ Top(t).pc \in Labels
    BY <1>2, TopPlaced DEF Activations
  <2> QED
    BY <1>2, <2>1, <2>2, TopPlaced DEF Placed, PlacedIn
<1>5. table \in [Slots -> Slot] /\ table[s] \in Slot
  BY <1>4 DEF TypeInv, TypeOK
<1>6. /\ table' \in [Slots -> Slot] /\ \A r \in Slots \ {s} : table'[r] = table[r]
      /\ \/ /\ Top(t).pc = IF layout = "dense" THEN "store1" ELSE "store3"
            /\ table'[s].valid /\ table'[s].key = table[s].key /\ table'[s].val = table[s].val
         \/ /\ layout = "hash" /\ Top(t).pc = "store1" /\ table'[s].key = a
            /\ table'[s].valid = table[s].valid /\ table'[s].val = table[s].val
         \/ /\ Top(t).pc = "store2" /\ table'[s].val = Top(t).val
            /\ table'[s].key = table[s].key /\ table'[s].valid = table[s].valid
  <2>1. CASE SetsFlag(t)
    <3>1. PICK e : e = [table[s] EXCEPT !.valid = TRUE]
      OBVIOUS
    <3>2. e \in Slot /\ e.valid /\ e.key = table[s].key /\ e.val = table[s].val
      BY <1>5, <3>1 DEF Slot
    <3>3. table' = [table EXCEPT ![s] = e] /\ Top(t).pc = IF layout = "dense" THEN "store1" ELSE "store3"
      BY <2>1, <3>1 DEF SetsFlag
    <3> QED
      BY <1>4, <1>5, <3>2, <3>3
  <2>2. CASE SetsKey(t)
    <3>1. PICK e : e = [table[s] EXCEPT !.key = a]
      OBVIOUS
    <3>2. e \in Slot /\ e.key = a /\ e.valid = table[s].valid /\ e.val = table[s].val
      BY <1>4, <1>5, <3>1 DEF Slot
    <3>3. table' = [table EXCEPT ![s] = e] /\ layout = "hash" /\ Top(t).pc = "store1"
      BY <2>2, <3>1 DEF SetsKey
    <3> QED
      BY <1>4, <1>5, <3>2, <3>3
  <2>3. CASE SetsValue(t)
    <3>1. PICK e : e = [table[s] EXCEPT !.val = Top(t).val]
      OBVIOUS
    <3>2. e \in Slot /\ e.val = Top(t).val /\ e.key = table[s].key /\ e.valid = table[s].valid
      BY <1>4, <1>5, <3>1 DEF Slot
    <3>3. table' = [table EXCEPT ![s] = e] /\ Top(t).pc = "store2"
      BY <2>3, <3>1 DEF SetsValue
    <3> QED
      BY <1>4, <1>5, <3>2, <3>3
  <2> QED
    BY <1>3, <2>1, <2>2, <2>3
<1>7. \/ /\ Top(t).pc = "store1" \/ (Top(t).pc = "store2" /\ layout = "hash")
         /\ Goto(t, IF Top(t).pc = "store1" THEN "store2" ELSE "store3") /\ returned' = returned
      \/ /\ ~(Top(t).pc = "store1" \/ (Top(t).pc = "store2" /\ layout = "hash"))
         /\ Return(t, Top(t).val)
  BY <1>1, StoreCases DEF SetsFlag, SetsKey, SetsValue
<1>8. CASE Top(t).pc = "store1" \/ (Top(t).pc = "store2" /\ layout = "hash")
  <2>1. PICK pc : pc = IF Top(t).pc = "store1" THEN "store2" ELSE "store3"
    OBVIOUS
  <2>2. Goto(t, pc) /\ returned' = returned /\ pc \in Labels
    BY <1>7, <1>8, <2>1 DEF Labels
  <2>3. /\ stack' \in [Threads -> Seq(Activations)]
        /\ \E fr \in Activations : /\ Replaces(t, fr) /\ fr.pc = pc /\ fr.arg = a
                                    /\ fr.subs = Top(t).subs /\ fr.val = Top(t).val
    BY <1>2, <2>2, GotoEffect DEF TypeInv, TypeOK
  <2>4. returned' \in [Threads -> [arg : Int, val : Results]]
    BY <2>2 DEF TypeInv, TypeOK
  <2> QED
    BY <1>2, <1>4, <1>6, <1>8, <2>1, <2>2, <2>3, <2>4
<1>9. CASE ~(Top(t).pc = "store1" \/ (Top(t).pc = "store2" /\ layout = "hash"))
  <2>1. Return(t, Top(t).val)
    BY <1>7, <1>9
  <2>2. /\ stack' \in [Threads -> Seq(Activations)]
        /\ returned' \in [Threads -> [arg : Int, val : Results]]
        /\ Finishes(t, Top(t).val) \/ HandsDown(t, Top(t).val)
    BY <1>2, <1>4, <2>1, ReturnEffects, ArgsAssumption DEF TypeInv, TypeOK
  <2> QED
    BY <1>2, <1>4, <1>6, <1>9, <2>2
<1> QED
  BY <1>8, <1>9

LEMMA StoreTyped ==
  ASSUME TypeInv, NEW t \in Threads, Store(t)
  PROVE  TypeInv'
<1> DEFINE a == Top(t).arg
           s == SlotOf(a)
<1>1. /\ stack[t] /= <<>> /\ InBounds(a) /\ s \in Slots
      /\ computed' = computed /\ UNCHANGED <<program, layout, at, pending, global>>
      /\ table' \in [Slots -> Slot] /\ \A r \in Slots \ {s} : table'[r] = table[r]
      /\ stack' \in [Threads -> Seq(Activations)] /\ returned' \in [Threads -> [arg : Int, val : Results]]
  BY StoreEffect
<1>2. \/ /\ Top(t).pc = IF layout = "dense" THEN "store1" ELSE "store3"
         /\ table'[s].key = table[s].key
      \/ layout = "hash" /\ Top(t).pc = "store1" /\ table'[s].key = a
      \/ /\ Top(t).pc = "store2"
         /\ table'[s].key = table[s].key /\ table'[s].valid = table[s].valid
  BY StoreEffect
<1>3. layout = "hash" /\ Top(t).pc \in {"store2", "store3"} => SlotOf(table[s].key) = s
  BY <1>1, TopPlaced DEF Placed, PlacedIn
<1>4. table'[s].key = table[s].key \/ SlotOf(table'[s].key) = s
  BY <1>2
<1>5. \A r \in Slots : layout = "hash" /\ table'[r].valid => SlotOf(table'[r].key) = r
  <2>1. layout = "hash" /\ table[s].valid => SlotOf(table[s].key) = s
    BY <1>1 DEF TypeInv, TypeOK
  <2>2. layout = "hash" /\ table'[s].valid => SlotOf(table'[s].key) = s
    BY <1>2, <1>3, <2>1
  <2> QED
    BY <1>1, <2>2 DEF TypeInv, TypeOK
<1>6. \A n \in Args : InBounds(n) => \/ table'[SlotOf(n)].key = table[SlotOf(n)].key
                                     \/ SlotOf(table'[SlotOf(n)].key) = SlotOf(n)
  <2>1. \A n \in Args : InBounds(n) => SlotOf(n) \in Slots
    BY SlotInRange, ArgsAssumption
  <2> QED
    BY <1>1, <1>4, <2>1
<1>7. \/ \E fr : PlacedIn(table', fr) /\ Replaces(t, fr)
      \/ \E v : Finishes(t, v) \/ HandsDown(t, v)
  <2>1. CASE Top(t).pc = "store1" \/ (Top(t).pc = "store2" /\ layout = "hash")
    <3>1. PICK fr \in Activations :
            /\ Replaces(t, fr) /\ fr.pc = IF Top(t).pc = "store1" THEN "store2" ELSE "store3"
            /\ fr.arg = a
      BY <2>1, StoreEffect
    <3>2. layout = "hash" => SlotOf(table'[s].key) = s
      BY <1>2, <1>3, <2>1
    <3>3. PlacedIn(table', fr)
      BY <1>1, <3>1, <3>2 DEF PlacedIn
    <3> QED
      BY <3>1, <3>3
  <2>2. CASE ~(Top(t).pc = "store1" \/ (Top(t).pc = "store2" /\ layout = "hash"))
    <3>1. Finishes(t, Top(t).val) \/ HandsDown(t, Top(t).val)
      BY <2>2, StoreEffect
    <3> QED
      BY <3>1
  <2> QED
    BY <2>1, <2>2
<1>8. WellPlaced'
  BY <1>1, <1>6, <1>7, PlacedAfterStore DEF TypeInv, TypeOK
<1> QED
  BY <1>1, <1>5, <1>8 DEF TypeInv, TypeOK, Slots, SlotOf

LEMMA NextTyped ==
  ASSUME TypeInv, [Next]_vars
  PROVE  TypeInv'
<1>1. CASE Advance
  BY <1>1, AdvanceTyped
<1>2. ASSUME NEW t \in Threads, ThreadStep(t)
      PROVE  TypeInv'
  BY <1>2, CallTyped, LookupTyped, HitTyped, RecurseTyped, ComputeTyped, StoreTyped DEF ThreadStep
<1>3. CASE UNCHANGED vars
  BY <1>3 DEF vars, TypeInv, TypeOK, WellPlaced, Placed, PlacedIn, InBounds, SlotOf, Slots
<1> QED
  BY <1>1, <1>2, <1>3 DEF Next

LEMMA TypeInvHolds == Spec => []TypeInv
<1>1. Init => TypeInv
  BY InitTyped
<1>2. TypeInv /\ [Next]_vars => TypeInv'
  BY NextTyped
<1> QED
  BY <1>1, <1>2, PTL DEF Spec

\* Whatever the callers do, also from two threads at once, a slot of the hash table
\* that is marked valid holds a key that belongs in it: a fill stores only to a slot
\* that its own lookup has checked or computed (WellPlaced), however its stores
\* interleave with another thread's.
THEOREM TypeCorrect == Spec => []TypeOK
BY TypeInvHolds, PTL DEF TypeInv

-----------------------------------------------------------------------------
(* What is on the stacks, and what the table holds.                        *)

\* Only an instruction that calls f has callers and activations, and only a
\* parallel loop has them in the second thread.
Busy ==
  \A t \in Threads : stack[t] /= <<>> \/ t \in pending =>
    /\ at \in DOMAIN program /\ program[at].op \in {"call", "parallel"}
    /\ t = "main" \/ program[at].op = "parallel"
    /\ t \in pending => stack[t] = <<>>

\* An activation's results so far are right, as is the one it is storing.
Right(fr, g) ==
  /\ \A i \in 1 .. Len(fr.subs) : fr.subs[i] = <<Smaller(fr.arg)[i], g>>
  /\ fr.pc \in {"store1", "store2", "store3"} => fr.val = <<fr.arg, g>>

\* Below the top, an activation waits for the one above it.
Waits(fr, above) ==
  /\ fr.pc = "body" /\ Len(fr.subs) < Len(Smaller(fr.arg))
  /\ above.arg = Smaller(fr.arg)[Len(fr.subs) + 1]

\* A function that is not memoised has no lookup and no stores, and the dense
\* table no key.
Fits(fr) ==
  /\ fr.pc /= "body" => Frozen(program)
  /\ fr.pc \in {"key", "store3"} => layout = "hash"
  /\ Len(fr.subs) <= Len(Smaller(fr.arg))

StacksRight ==
  \A t \in Threads : \A k \in 1 .. Len(stack[t]) :
    /\ Fits(stack[t][k]) /\ Right(stack[t][k], global)
    /\ k < Len(stack[t]) => Waits(stack[t][k], stack[t][k + 1])

\* A caller that has its result has the right one.
Answered ==
  \A t \in Threads :
    (at /= 0 /\ Instr.op \in {"call", "parallel"} /\ t \notin pending /\ stack[t] = <<>>
     /\ (t = "main" \/ Instr.op = "parallel"))
    => returned[t].val = <<returned[t].arg, global>>

KeyOf(s) == IF layout = "hash" THEN table[s].key ELSE s

\* A valid slot holds the value of its key, unless the main thread is about to
\* store it; and it knows the slot it looks up, or stores to, as it left it.
Writing(s) == stack["main"] /= <<>> /\ Top("main").pc = "store2" /\ SlotOf(Top("main").arg) = s
SlotsRight ==
  Frozen(program) =>
    \A s \in Slots : table[s].valid => table[s].val = <<KeyOf(s), global>> \/ Writing(s)

Knows(fr, slot) ==
  /\ fr.pc \in {"key", "hit"} => slot.valid
  /\ fr.pc \in {"hit", "store2", "store3"} /\ layout = "hash" => slot.key = fr.arg
  /\ fr.pc = "store3" => slot.val = fr.val
TopKnows ==
  Frozen(program) /\ stack["main"] /= <<>> =>
    Knows(Top("main"), table[SlotOf(Top("main").arg)])

\* Nothing is cached before the first call.
CachedByCall ==
  \A s \in Slots : table[s].valid =>
    Frozen(program) /\ \E i \in 1 .. at : program[i].op \in {"call", "parallel"}

ValueInv == TypeInv /\ Busy /\ StacksRight /\ Answered /\ SlotsRight /\ TopKnows /\ CachedByCall

LEMMA OtherStacksRight ==
  ASSUME StacksRight, NEW t \in Threads, UNCHANGED <<program, layout, global>>,
         \A u \in Threads \ {t} : stack'[u] = stack[u],
         \A k \in 1 .. Len(stack'[t]) :
           /\ Fits(stack'[t][k]) /\ Right(stack'[t][k], global)
           /\ k < Len(stack'[t]) => Waits(stack'[t][k], stack'[t][k + 1])
  PROVE  StacksRight'
<1> SUFFICES ASSUME NEW u \in Threads, NEW k \in 1 .. Len(stack'[u])
             PROVE  /\ Fits(stack[u][k])' /\ Right(stack'[u][k], global')
                    /\ k < Len(stack'[u]) => Waits(stack'[u][k], stack'[u][k + 1])
  BY Zenon DEF StacksRight
<1>1. /\ Fits(stack'[u][k]) /\ Right(stack'[u][k], global)
      /\ k < Len(stack'[u]) => Waits(stack'[u][k], stack'[u][k + 1])
  BY DEF StacksRight
<1> QED
  BY <1>1 DEF Fits

LEMMA RightAfterReplace ==
  ASSUME StacksRight, stack \in [Threads -> Seq(Activations)], NEW t \in Threads, stack[t] /= <<>>,
         UNCHANGED <<program, layout, global>>, NEW fr, Replaces(t, fr), fr.arg = Top(t).arg,
         Fits(fr), Right(fr, global)
  PROVE  StacksRight'
<1>1. Len(stack[t]) \in Nat /\ Len(stack[t]) >= 1 /\ Top(t) = stack[t][Len(stack[t])]
  BY TopOfStack
<1>2. ASSUME NEW k \in 1 .. Len(stack'[t])
      PROVE  /\ Fits(stack'[t][k]) /\ Right(stack'[t][k], global)
             /\ k < Len(stack'[t]) => Waits(stack'[t][k], stack'[t][k + 1])
  <2>1. /\ k \in 1 .. Len(stack[t])
        /\ stack'[t][k] = IF k = Len(stack[t]) THEN fr ELSE stack[t][k]
        /\ Len(stack'[t]) = Len(stack[t])
    BY DEF Replaces
  <2>2. k < Len(stack[t]) => stack'[t][k + 1].arg = stack[t][k + 1].arg
    BY <1>1, <2>1 DEF Replaces
  <2>3. /\ Fits(stack[t][k]) /\ Right(stack[t][k], global)
        /\ k < Len(stack[t]) => Waits(stack[t][k], stack[t][k + 1])
    BY <2>1 DEF StacksRight
  <2>4. k < Len(stack[t]) => stack'[t][k] = stack[t][k] /\ Waits(stack'[t][k], stack'[t][k + 1])
    BY <1>1, <2>1, <2>2, <2>3 DEF Waits
  <2> QED
    BY <2>1, <2>3, <2>4
<1> QED
  BY <1>2, OtherStacksRight DEF Replaces

LEMMA NewActivation ==
  ASSUME NEW n \in Args, NEW g
  PROVE  Fits(Activation(n)) /\ Right(Activation(n), g)
<1>1. /\ Activation(n).arg = n /\ Activation(n).subs = <<>>
      /\ Activation(n).pc = "body" \/ (Activation(n).pc = "entry" /\ Frozen(program))
  BY ActivationTyped
<1>2. Len(<<>>) = 0 /\ 1 .. 0 = {}
  OBVIOUS
<1> QED
  BY <1>1, <1>2, SmallerFacts DEF Fits, Right

LEMMA RightAfterCall ==
  ASSUME StacksRight, NEW t \in Threads, UNCHANGED <<program, layout, global>>, NEW n \in Args,
         stack'[t] = <<Activation(n)>>, \A u \in Threads \ {t} : stack'[u] = stack[u]
  PROVE  StacksRight'
<1>1. PICK fr : fr = Activation(n)
  OBVIOUS
<1>2. Fits(fr) /\ Right(fr, global)
  BY <1>1, NewActivation
<1>3. stack'[t] = <<fr>> /\ Len(<<fr>>) = 1 /\ <<fr>>[1] = fr
  BY <1>1
<1>4. Len(stack'[t]) = 1 /\ stack'[t][1] = fr
  BY <1>3
<1>5. ASSUME NEW k \in 1 .. Len(stack'[t])
      PROVE  /\ Fits(stack'[t][k]) /\ Right(stack'[t][k], global)
             /\ k < Len(stack'[t]) => Waits(stack'[t][k], stack'[t][k + 1])
  <2>1. k = 1
    BY <1>4
  <2> QED
    BY <1>2, <1>4, <2>1
<1> QED
  BY <1>5, OtherStacksRight

LEMMA RightAfterRecurse ==
  ASSUME TypeInv, StacksRight, NEW t \in Threads, Recurse(t)
  PROVE  StacksRight'
<1>1. /\ stack[t] /= <<>> /\ Top(t).pc = "body" /\ Len(Top(t).subs) < Len(Smaller(Top(t).arg))
      /\ UNCHANGED <<program, layout, global>>
  BY RecurseEffect
<1>2. PICK n \in Args : n = Smaller(Top(t).arg)[Len(Top(t).subs) + 1] /\ Pushes(t, Activation(n))
  BY RecurseEffect
<1>3. PICK fr : fr = Activation(n)
  OBVIOUS
<1>4. Fits(fr) /\ Right(fr, global) /\ fr.arg = n
  BY <1>3, NewActivation, ActivationTyped
<1>5. Len(stack[t]) \in Nat /\ Len(stack[t]) >= 1 /\ Top(t) = stack[t][Len(stack[t])]
  BY <1>1, TopOfStack DEF TypeInv, TypeOK
<1>6. Pushes(t, fr)
  BY <1>2, <1>3
<1>7. ASSUME NEW k \in 1 .. Len(stack'[t])
      PROVE  /\ Fits(stack'[t][k]) /\ Right(stack'[t][k], global)
             /\ k < Len(stack'[t]) => Waits(stack'[t][k], stack'[t][k + 1])
  <2>1. Len(stack'[t]) = Len(stack[t]) + 1 /\ stack'[t][Len(stack[t]) + 1] = fr
        /\ \A j \in 1 .. Len(stack[t]) : stack'[t][j] = stack[t][j]
    BY <1>6 DEF Pushes
  <2>2. CASE k = Len(stack[t]) + 1
    BY <1>4, <1>5, <2>1, <2>2
  <2>3. CASE k = Len(stack[t])
    <3>1. stack'[t][k] = Top(t) /\ stack'[t][k + 1] = fr
      BY <1>5, <2>1, <2>3
    <3>2. Fits(Top(t)) /\ Right(Top(t), global)
      BY <1>5, <2>3 DEF StacksRight
    <3>3. Waits(Top(t), fr)
      BY <1>1, <1>2, <1>4 DEF Waits
    <3> QED
      BY <3>1, <3>2, <3>3
  <2>4. CASE k < Len(stack[t])
    <3>1. k \in 1 .. Len(stack[t]) /\ k + 1 \in 1 .. Len(stack[t])
      BY <1>5, <2>4
    <3>2. Fits(stack[t][k]) /\ Right(stack[t][k], global) /\ Waits(stack[t][k], stack[t][k + 1])
      BY <2>4, <3>1 DEF StacksRight
    <3> QED
      BY <2>1, <3>1, <3>2
  <2> QED
    BY <1>5, <2>1, <2>2, <2>3, <2>4
<1> QED
  BY <1>1, <1>6, <1>7, OtherStacksRight DEF Pushes

\* A right result leaves the stacks right.
LEMMA RightAfterReturn ==
  ASSUME TypeInv, StacksRight, NEW t \in Threads, stack[t] /= <<>>,
         UNCHANGED <<program, layout, global>>, NEW v, v = <<Top(t).arg, global>>,
         Finishes(t, v) \/ HandsDown(t, v)
  PROVE  StacksRight'
<1>1. CASE Finishes(t, v)
  <2>1. stack'[t] = <<>> /\ Len(<<>>) = 0
    BY <1>1 DEF Finishes
  <2>2. 1 .. Len(stack'[t]) = {}
    BY <2>1
  <2> QED
    BY <1>1, <2>2, OtherStacksRight DEF Finishes
<1>2. CASE HandsDown(t, v)
  <2> DEFINE n == Len(stack[t])
  <2>1. /\ n \in Nat /\ n > 1 /\ Len(stack'[t]) = n - 1
        /\ \A k \in 1 .. n - 1 :
             /\ stack'[t][k].arg = stack[t][k].arg /\ stack'[t][k].pc = stack[t][k].pc
             /\ stack'[t][k].val = stack[t][k].val
             /\ stack'[t][k].subs = IF k = n - 1 THEN Append(stack[t][k].subs, v) ELSE stack[t][k].subs
    BY <1>2, HandsDownFields DEF TypeInv, TypeOK
  <2>2. Top(t) = stack[t][n]
    BY TopOfStack DEF TypeInv, TypeOK
  <2>3. ASSUME NEW k \in 1 .. n - 1
        PROVE  /\ Fits(stack'[t][k]) /\ Right(stack'[t][k], global)
               /\ k < n - 1 => Waits(stack'[t][k], stack'[t][k + 1])
    <3> DEFINE fr == stack[t][k]
               new == stack'[t][k]
    <3>1. k \in 1 .. n /\ k + 1 \in 1 .. n
      BY <2>1
    <3>2. Fits(fr) /\ Right(fr, global) /\ Waits(fr, stack[t][k + 1])
      BY <2>1, <3>1 DEF StacksRight
    <3>3. fr \in Activations /\ fr.arg \in Args /\ fr.subs \in Seq(Results)
      <4>1. fr \in Activations
        BY <3>1, ElementOfSeq DEF TypeInv, TypeOK
      <4> QED
        BY <4>1 DEF Activations
    <3>4. new.arg = fr.arg /\ new.pc = fr.pc /\ new.val = fr.val
          /\ new.subs = IF k = n - 1 THEN Append(fr.subs, v) ELSE fr.subs
      BY <2>1
    <3>5. Len(fr.subs) \in Nat /\ Len(Smaller(fr.arg)) \in Nat
      BY <3>3, LenProperties, SmallerFacts
    <3> HIDE DEF new, fr
    <3>6. CASE k = n - 1
      <4>1. v \in Results
        <5>1. Top(t).arg \in Int
          BY TopPlaced
        <5> QED
          BY <5>1 DEF TypeInv, TypeOK, Results
      <4>2. /\ new.subs = Append(fr.subs, v) /\ Len(new.subs) = Len(fr.subs) + 1
            /\ \A i \in 1 .. Len(fr.subs) : new.subs[i] = fr.subs[i]
            /\ new.subs[Len(fr.subs) + 1] = v
        BY <3>3, <3>4, <3>6, <4>1, AppendProperties
      <4>3. v = <<Smaller(fr.arg)[Len(fr.subs) + 1], global>>
        BY <2>1, <2>2, <3>2, <3>6 DEF Waits
      <4>4. Right(new, global)
        <5>1. \A i \in 1 .. Len(new.subs) : new.subs[i] = <<Smaller(new.arg)[i], global>>
          BY <3>2, <3>4, <3>5, <4>2, <4>3 DEF Right
        <5> QED
          BY <3>2, <3>4, <5>1 DEF Right
      <4>5. Fits(new)
        BY <3>2, <3>4, <3>5, <4>2 DEF Fits, Waits
      <4> QED
        BY <3>6, <4>4, <4>5 DEF new
    <3>7. CASE k < n - 1
      <4>1. Fits(new) /\ Right(new, global)
        BY <3>2, <3>4, <3>7 DEF Fits, Right
      <4>2. stack'[t][k + 1].arg = stack[t][k + 1].arg
        BY <2>1, <3>7
      <4>3. Waits(new, stack'[t][k + 1])
        BY <3>2, <3>4, <3>7, <4>2 DEF Waits
      <4> QED
        BY <4>1, <4>3 DEF new
    <3> QED
      BY <2>1, <3>6, <3>7
  <2>4. \A u \in Threads \ {t} : stack'[u] = stack[u]
    BY <1>2 DEF HandsDown
  <2> QED
    BY <2>1, <2>3, <2>4, OtherStacksRight
<1> QED
  BY <1>1, <1>2

\* The body's result is right, because those of its calls are.
LEMMA ComputesRight ==
  ASSUME TypeInv, StacksRight, NEW t \in Threads, Compute(t)
  PROVE  Top(t).subs = [i \in DOMAIN Smaller(Top(t).arg) |-> <<Smaller(Top(t).arg)[i], global>>]
<1> DEFINE fr == Top(t)
<1>1. stack[t] /= <<>> /\ Len(fr.subs) = Len(Smaller(fr.arg))
  BY ComputeEffect
<1>2. Right(fr, global)
  BY <1>1, TopOfStack DEF StacksRight, TypeInv, TypeOK
<1>3. fr.subs \in Seq(Results) /\ fr.arg \in Args
  BY <1>1, TopPlaced DEF Activations
<1>4. fr.subs \in [1 .. Len(fr.subs) -> Results] /\ DOMAIN Smaller(fr.arg) = 1 .. Len(Smaller(fr.arg))
  BY <1>3, LenProperties, SmallerFacts
<1>5. \A i \in 1 .. Len(fr.subs) : fr.subs[i] = <<Smaller(fr.arg)[i], global>>
  BY <1>2 DEF Right
<1> HIDE DEF fr
<1> QED
  BY <1>1, <1>4, <1>5 DEF fr

-----------------------------------------------------------------------------
(* The top of the stack after a step, and the callers.                     *)

LEMMA TopAfter ==
  ASSUME stack \in [Threads -> Seq(Activations)], stack' \in [Threads -> Seq(Activations)],
         NEW t \in Threads
  PROVE  /\ \A fr : stack[t] /= <<>> /\ Replaces(t, fr) => stack'[t] /= <<>> /\ Top(t)' = fr
         /\ \A fr : Pushes(t, fr) => stack'[t] /= <<>> /\ Top(t)' = fr
         /\ \A fr : stack'[t] = <<fr>> => stack'[t] /= <<>> /\ Top(t)' = fr
         /\ \A v : HandsDown(t, v) /\ StacksRight => stack'[t] /= <<>> /\ Top(t)'.pc = "body"
<1>1. Len(stack[t]) \in Nat /\ Len(stack'[t]) \in Nat /\ (stack[t] /= <<>> => Len(stack[t]) >= 1)
  BY LenProperties, EmptySeq
<1>2. Top(t)' = stack'[t][Len(stack'[t])]
  BY DEF Top, Last
<1>3. Len(stack'[t]) >= 1 => stack'[t] /= <<>>
  BY EmptySeq
<1>4. ASSUME NEW fr, stack[t] /= <<>>, Replaces(t, fr)
      PROVE  stack'[t] /= <<>> /\ Top(t)' = fr
  BY <1>1, <1>2, <1>3, <1>4 DEF Replaces
<1>5. ASSUME NEW fr, Pushes(t, fr)
      PROVE  stack'[t] /= <<>> /\ Top(t)' = fr
  BY <1>1, <1>2, <1>3, <1>5 DEF Pushes
<1>6. ASSUME NEW fr, stack'[t] = <<fr>>
      PROVE  stack'[t] /= <<>> /\ Top(t)' = fr
  <2>1. Len(<<fr>>) = 1 /\ <<fr>>[1] = fr
    OBVIOUS
  <2> QED
    BY <1>2, <1>3, <1>6, <2>1
<1>7. ASSUME NEW v, HandsDown(t, v), StacksRight
      PROVE  stack'[t] /= <<>> /\ Top(t)'.pc = "body"
  <2>1. /\ Len(stack[t]) > 1 /\ Len(stack'[t]) = Len(stack[t]) - 1
        /\ stack'[t][Len(stack'[t])].pc = stack[t][Len(stack[t]) - 1].pc
    BY <1>1, <1>7, HandsDownFields
  <2>2. stack[t][Len(stack[t]) - 1].pc = "body"
    BY <1>1, <1>7, <2>1 DEF StacksRight, Waits
  <2> QED
    BY <1>1, <1>2, <1>3, <2>1, <2>2
<1> QED
  BY <1>4, <1>5, <1>6, <1>7

\* A thread's step keeps the callers in order, if the result it gives is right.
LEMMA CallersAfter ==
  ASSUME TypeInv, Busy, Answered, NEW t \in Threads,
         UNCHANGED <<program, at, global>>,
         \A u \in Threads \ {t} : stack'[u] = stack[u] /\ returned'[u] = returned[u],
         \/ pending' = pending /\ stack[t] /= <<>>
         \/ pending' = pending \ {t} /\ t \in pending,
         \/ stack'[t] /= <<>>
         \/ returned'[t].val = <<returned'[t].arg, global>>
  PROVE  Busy' /\ Answered'
<1>1. Busy'
  BY DEF Busy
<1>2. Answered'
  BY DEF Answered, Instr
<1> QED
  BY <1>1, <1>2

LEMMA AdvanceAnswers ==
  ASSUME TypeInv, Advance
  PROVE  Busy' /\ Answered' /\ StacksRight'
<1>1. program \in Seq([op : Ops, block : Int]) /\ Len(program) \in Nat /\ at \in 0 .. Len(program)
  BY ProgramsAssumption, LenProperties DEF TypeInv, TypeOK
<1>2. PICK op : op = program[at + 1].op
  OBVIOUS
<1>3. /\ at < Len(program) /\ pending = {} /\ \A t \in Threads : stack[t] = <<>>
      /\ at' = at + 1 /\ UNCHANGED <<program, layout, table, stack, returned, computed>>
      /\ pending' = IF op = "call" THEN {"main"} ELSE IF op = "parallel" THEN Threads ELSE {}
  BY <1>2 DEF Advance
<1>4. at' \in DOMAIN program /\ at' \in 1 .. Len(program)
  BY <1>1, <1>3, LenProperties
<1>5. Busy'
  <2> SUFFICES ASSUME NEW t \in Threads, t \in pending'
               PROVE  op \in {"call", "parallel"} /\ (t = "main" \/ op = "parallel")
    BY <1>2, <1>3, <1>4 DEF Busy
  <2> QED
    BY <1>3
<1>6. Answered'
  <2> SUFFICES ASSUME NEW t \in Threads, op \in {"call", "parallel"}, t = "main" \/ op = "parallel"
               PROVE  t \in pending'
    BY <1>2, <1>3 DEF Answered, Instr
  <2> QED
    BY <1>3
<1>7. StacksRight'
  <2>1. \A t \in Threads : Len(stack'[t]) = 0
    BY <1>3, EmptySeq
  <2> QED
    BY <2>1 DEF StacksRight
<1> QED
  BY <1>5, <1>6, <1>7

LEMMA MainOnly ==
  ASSUME OneCaller, TypeInv, Busy, Frozen(program), NEW t \in Threads, stack[t] /= <<>> \/ t \in pending
  PROVE  t = "main"
<1>1. program \in Programs
  BY DEF TypeInv, TypeOK
<1>2. at \in DOMAIN program /\ (t = "main" \/ program[at].op = "parallel")
  BY DEF Busy
<1> QED
  BY <1>1, <1>2 DEF OneCaller, CalledByOne

-----------------------------------------------------------------------------
(* The table, when one thread calls.                                       *)

LEMMA QuietTable ==
  ASSUME OneCaller, TypeInv, Busy, SlotsRight, CachedByCall, NEW t \in Threads,
         UNCHANGED <<program, layout, at, global, table>>,
         (stack[t] /= <<>> /\ Top(t).pc /= "store2") \/ t \in pending
  PROVE  SlotsRight' /\ CachedByCall'
<1>1. CachedByCall'
  BY DEF CachedByCall, Slots
<1>2. ASSUME Frozen(program)
      PROVE  \A s \in Slots : table[s].valid => table[s].val = <<KeyOf(s), global>>
  <2>1. t = "main"
    BY <1>2, MainOnly
  <2>2. \A s \in Slots : ~Writing(s)
    BY <2>1 DEF Busy, Writing
  <2> QED
    BY <1>2, <2>2 DEF SlotsRight
<1>3. Slots' = Slots /\ \A s \in Slots : table'[s] = table[s]
  BY DEF Slots
<1> QED
  BY <1>1, <1>2, <1>3 DEF SlotsRight, KeyOf, Slots

LEMMA QuietTop ==
  ASSUME OneCaller, TypeInv, Busy, NEW t \in Threads, UNCHANGED program,
         stack[t] /= <<>> \/ t \in pending,
         stack'[t] /= <<>> => Top(t)'.pc \in {"entry", "body", "store1"}
  PROVE  TopKnows'
<1> SUFFICES ASSUME Frozen(program), stack'["main"] /= <<>>
             PROVE  Knows(Top("main"), table[SlotOf(Top("main").arg)])'
  BY DEF TopKnows
<1>1. t = "main"
  BY MainOnly
<1>2. Top("main")'.pc \in {"entry", "body", "store1"}
  BY <1>1
<1> QED
  BY <1>2 DEF Knows

LEMMA CallValues ==
  ASSUME OneCaller, ValueInv, NEW t \in Threads, NEW n \in Args, Call(t, n)
  PROVE  ValueInv'
<1>1. TypeInv' /\ TypeInv
  BY CallTyped DEF ValueInv
<1>2. /\ t \in pending /\ pending' = pending \ {t} /\ stack[t] = <<>>
      /\ UNCHANGED <<program, layout, at, global, table, returned, computed>>
      /\ stack'[t] = <<Activation(n)>> /\ \A u \in Threads \ {t} : stack'[u] = stack[u]
  BY DEF Call, ValueInv, TypeInv, TypeOK, Busy
<1>3. stack'[t] /= <<>> /\ Top(t)'.pc \in {"entry", "body"}
  BY <1>1, <1>2, TopAfter, ActivationTyped DEF TypeInv, TypeOK
<1>4. StacksRight'
  BY <1>2, RightAfterCall DEF ValueInv
<1>5. Busy' /\ Answered'
  BY <1>1, <1>2, <1>3, CallersAfter DEF ValueInv
<1>6. SlotsRight' /\ CachedByCall'
  BY <1>1, <1>2, QuietTable DEF ValueInv
<1>7. TopKnows'
  BY <1>1, <1>2, <1>3, QuietTop DEF ValueInv
<1> QED
  BY <1>1, <1>4, <1>5, <1>6, <1>7 DEF ValueInv

LEMMA RecurseValues ==
  ASSUME OneCaller, ValueInv, NEW t \in Threads, Recurse(t)
  PROVE  ValueInv'
<1>1. TypeInv' /\ TypeInv
  BY RecurseTyped DEF ValueInv
<1>2. /\ stack[t] /= <<>> /\ Top(t).pc = "body"
      /\ UNCHANGED <<program, layout, at, pending, global, table, returned, computed>>
  BY <1>1, RecurseEffect
<1>3. PICK n \in Args : Pushes(t, Activation(n))
  BY <1>1, RecurseEffect
<1>4. /\ stack'[t] /= <<>> /\ Top(t)'.pc \in {"entry", "body"}
      /\ \A u \in Threads \ {t} : stack'[u] = stack[u]
  <2>1. stack' \in [Threads -> Seq(Activations)] /\ stack \in [Threads -> Seq(Activations)]
    BY <1>1 DEF TypeInv, TypeOK
  <2>2. \A u \in Threads \ {t} : stack'[u] = stack[u]
    BY <1>3 DEF Pushes
  <2>3. stack'[t] /= <<>> /\ Top(t)' = Activation(n)
    BY <1>2, <1>3, <2>1, TopAfter
  <2> QED
    BY <2>2, <2>3, ActivationTyped
<1>5. StacksRight'
  BY RightAfterRecurse DEF ValueInv
<1>6. Busy' /\ Answered'
  BY <1>1, <1>2, <1>4, CallersAfter DEF ValueInv
<1>7. SlotsRight' /\ CachedByCall'
  BY <1>1, <1>2, QuietTable DEF ValueInv
<1>8. TopKnows'
  BY <1>1, <1>2, <1>4, QuietTop DEF ValueInv
<1> QED
  BY <1>1, <1>5, <1>6, <1>7, <1>8 DEF ValueInv

\* A right result returned from above the table.
LEMMA ReturnValues ==
  ASSUME OneCaller, ValueInv, TypeInv', NEW t \in Threads, stack[t] /= <<>>,
         UNCHANGED <<program, layout, at, pending, global>>,
         NEW v, v = <<Top(t).arg, global>>, Finishes(t, v) \/ HandsDown(t, v)
  PROVE  Busy' /\ Answered' /\ StacksRight' /\ TopKnows'
<1>1. TypeInv /\ StacksRight /\ Busy /\ Answered
  BY DEF ValueInv
<1>2. StacksRight'
  BY <1>1, RightAfterReturn
<1>3. \A u \in Threads \ {t} : stack'[u] = stack[u] /\ returned'[u] = returned[u]
  BY <1>1 DEF Finishes, HandsDown, TypeInv, TypeOK
<1>4. \/ stack'[t] /= <<>> /\ Top(t)'.pc = "body"
      \/ stack'[t] = <<>> /\ returned'[t].val = <<returned'[t].arg, global>>
  <2>1. CASE Finishes(t, v)
    <3>1. returned'[t] = [arg |-> stack[t][1].arg, val |-> v] /\ stack'[t] = <<>> /\ Len(stack[t]) = 1
      BY <1>1, <2>1 DEF Finishes, TypeInv, TypeOK
    <3>2. Top(t) = stack[t][1]
      BY <1>1, <3>1, TopOfStack DEF TypeInv, TypeOK
    <3> QED
      BY <3>1, <3>2
  <2>2. CASE HandsDown(t, v)
    BY <1>1, <2>2, TopAfter DEF TypeInv, TypeOK
  <2> QED
    BY <2>1, <2>2
<1>5. Busy' /\ Answered'
  BY <1>1, <1>3, <1>4, CallersAfter
<1>6. TopKnows'
  BY <1>1, <1>4, QuietTop
<1> QED
  BY <1>2, <1>5, <1>6

LEMMA TopRight ==
  ASSUME TypeInv, StacksRight, NEW t \in Threads, stack[t] /= <<>>
  PROVE  Fits(Top(t)) /\ Right(Top(t), global)
<1>1. Top(t) = stack[t][Len(stack[t])] /\ Len(stack[t]) \in 1 .. Len(stack[t])
  BY TopOfStack DEF TypeInv, TypeOK
<1> QED
  BY <1>1 DEF StacksRight

LEMMA LookupValues ==
  ASSUME OneCaller, ValueInv, NEW t \in Threads, Lookup(t) \/ CompareKey(t)
  PROVE  ValueInv'
<1> DEFINE a == Top(t).arg
           slot == table[SlotOf(a)]
<1>1. TypeInv' /\ TypeInv /\ StacksRight
  BY LookupTyped DEF ValueInv
<1>2. /\ stack[t] /= <<>> /\ Top(t).pc \in {"entry", "key"}
      /\ UNCHANGED <<program, layout, at, pending, global, table, returned, computed>>
  BY <1>1, LookupEffect
<1>3. PICK fr \in Activations :
        /\ Replaces(t, fr) /\ fr.arg = a /\ fr.subs = Top(t).subs /\ fr.val = Top(t).val
        /\ \/ fr.pc = "body"
           \/ fr.pc = "key" /\ layout = "hash" /\ slot.valid
           \/ fr.pc = "hit" /\ layout /= "hash" /\ slot.valid
           \/ fr.pc = "hit" /\ Top(t).pc = "key" /\ slot.key = a
  BY <1>1, LookupEffect
<1>4. stack'[t] /= <<>> /\ Top(t)' = fr /\ \A u \in Threads \ {t} : stack'[u] = stack[u]
  BY <1>1, <1>2, <1>3, TopAfter DEF TypeInv, TypeOK, Replaces
<1>5. Fits(Top(t)) /\ Right(Top(t), global)
  BY <1>1, <1>2, TopRight
<1>6. Fits(fr) /\ Right(fr, global)
  BY <1>2, <1>3, <1>5 DEF Fits, Right
<1>7. StacksRight'
  BY <1>1, <1>2, <1>3, <1>6, RightAfterReplace DEF TypeInv, TypeOK
<1>8. Busy' /\ Answered'
  BY <1>1, <1>2, <1>4, CallersAfter DEF ValueInv
<1>9. SlotsRight' /\ CachedByCall'
  BY <1>1, <1>2, QuietTable DEF ValueInv
<1>10. TopKnows'
  <2> SUFFICES ASSUME Frozen(program), stack'["main"] /= <<>>
               PROVE  Knows(Top("main"), table[SlotOf(Top("main").arg)])'
    BY <1>2 DEF TopKnows
  <2>1. t = "main"
    BY <1>1, <1>2, MainOnly DEF ValueInv
  <2>2. Knows(Top(t), slot)
    BY <1>2, <2>1 DEF ValueInv, TopKnows
  <2>3. Knows(fr, slot)
    BY <1>2, <1>3, <2>2 DEF Knows
  <2>4. SlotOf(Top("main").arg)' = SlotOf(a) /\ Top("main")' = fr
    BY <1>2, <1>3, <1>4, <2>1 DEF SlotOf
  <2> QED
    BY <1>2, <2>3, <2>4 DEF Knows
<1> QED
  BY <1>1, <1>7, <1>8, <1>9, <1>10 DEF ValueInv

LEMMA HitValues ==
  ASSUME OneCaller, ValueInv, NEW t \in Threads, Hit(t)
  PROVE  ValueInv'
<1> DEFINE a == Top(t).arg
           slot == table[SlotOf(a)]
<1>1. TypeInv' /\ TypeInv /\ StacksRight
  BY HitTyped DEF ValueInv
<1>2. /\ stack[t] /= <<>> /\ Top(t).pc = "hit" /\ Return(t, slot.val)
      /\ UNCHANGED <<program, layout, at, pending, global, table, computed>>
  BY DEF Hit, IsAt, Unchanged
<1>3. a \in Int /\ InBounds(a) /\ SlotOf(a) \in Slots
  BY <1>1, <1>2, TopPlaced DEF Placed, PlacedIn
<1>4. slot.val = <<a, global>>
  <2>1. Frozen(program)
    <3>1. Fits(Top(t))
      BY <1>1, <1>2, TopRight
    <3> QED
      BY <1>2, <3>1 DEF Fits
  <2>2. t = "main"
    BY <1>1, <1>2, <2>1, MainOnly DEF ValueInv
  <2>3. slot.valid /\ (layout = "hash" => slot.key = a)
    BY <1>2, <2>1, <2>2 DEF ValueInv, TopKnows, Knows
  <2>4. slot.val = <<KeyOf(SlotOf(a)), global>>
    BY <1>2, <1>3, <2>1, <2>2, <2>3 DEF ValueInv, SlotsRight, Writing
  <2> QED
    BY <2>3, <2>4 DEF KeyOf, SlotOf
<1>5. slot.val \in Results
  BY <1>1, <1>3 DEF TypeInv, TypeOK, Slot
<1>6. Finishes(t, slot.val) \/ HandsDown(t, slot.val)
  BY <1>1, <1>2, <1>5, ReturnEffects, ArgsAssumption DEF TypeInv, TypeOK
<1>7. Busy' /\ Answered' /\ StacksRight' /\ TopKnows'
  BY <1>1, <1>2, <1>4, <1>6, ReturnValues
<1>8. SlotsRight' /\ CachedByCall'
  BY <1>1, <1>2, QuietTable DEF ValueInv
<1> QED
  BY <1>1, <1>7, <1>8 DEF ValueInv

LEMMA ComputeValues ==
  ASSUME OneCaller, ValueInv, NEW t \in Threads, Compute(t)
  PROVE  ValueInv'
<1>1. TypeInv' /\ TypeInv /\ StacksRight
  BY ComputeTyped DEF ValueInv
<1>2. /\ stack[t] /= <<>> /\ Top(t).pc = "body"
      /\ UNCHANGED <<program, layout, at, pending, global, table>>
  BY <1>1, ComputeEffect
<1>3. PICK v : /\ v = <<Top(t).arg, global>>
               /\ IF Frozen(program) /\ InBounds(Top(t).arg)
                  THEN /\ returned' = returned
                       /\ \E fr \in Activations : /\ Replaces(t, fr) /\ fr.pc = "store1" /\ fr.val = v
                                                   /\ fr.arg = Top(t).arg /\ fr.subs = Top(t).subs
                  ELSE Finishes(t, v) \/ HandsDown(t, v)
  BY <1>1, ComputeEffect, ComputesRight
<1>4. SlotsRight' /\ CachedByCall'
  BY <1>1, <1>2, QuietTable DEF ValueInv
<1>5. CASE Frozen(program) /\ InBounds(Top(t).arg)
  <2>1. PICK fr \in Activations : /\ Replaces(t, fr) /\ fr.pc = "store1" /\ fr.val = v
                                 /\ fr.arg = Top(t).arg /\ fr.subs = Top(t).subs
    BY <1>3, <1>5
  <2>2. stack'[t] /= <<>> /\ Top(t)' = fr /\ \A u \in Threads \ {t} : stack'[u] = stack[u]
    BY <1>1, <1>2, <2>1, TopAfter DEF TypeInv, TypeOK, Replaces
  <2>3. Fits(Top(t)) /\ Right(Top(t), global)
    BY <1>1, <1>2, TopRight
  <2>4. Fits(fr) /\ Right(fr, global)
    BY <1>2, <1>3, <1>5, <2>1, <2>3 DEF Fits, Right
  <2>5. StacksRight'
    BY <1>1, <1>2, <2>1, <2>4, RightAfterReplace DEF TypeInv, TypeOK
  <2>6. Busy' /\ Answered'
    BY <1>1, <1>2, <1>3, <1>5, <2>2, CallersAfter DEF ValueInv
  <2>7. TopKnows'
    BY <1>1, <1>2, <2>1, <2>2, QuietTop DEF ValueInv
  <2> QED
    BY <1>1, <1>4, <2>5, <2>6, <2>7 DEF ValueInv
<1>6. CASE ~(Frozen(program) /\ InBounds(Top(t).arg))
  <2>1. Finishes(t, v) \/ HandsDown(t, v)
    BY <1>3, <1>6
  <2>2. Busy' /\ Answered' /\ StacksRight' /\ TopKnows'
    BY <1>1, <1>2, <1>3, <2>1, ReturnValues
  <2> QED
    BY <1>1, <1>4, <2>2 DEF ValueInv
<1> QED
  BY <1>5, <1>6

LEMMA StoreValues ==
  ASSUME OneCaller, ValueInv, NEW t \in Threads, Store(t)
  PROVE  ValueInv'
<1> DEFINE a == Top(t).arg
           s == SlotOf(a)
           pc == Top(t).pc
<1>1. TypeInv' /\ TypeInv /\ StacksRight
  BY StoreTyped DEF ValueInv
<1>2. /\ stack[t] /= <<>> /\ s \in Slots /\ UNCHANGED <<program, layout, at, pending, global>>
      /\ \A r \in Slots \ {s} : table'[r] = table[r]
  BY <1>1, StoreEffect
<1>3. \/ pc = (IF layout = "dense" THEN "store1" ELSE "store3") /\ table'[s].key = table[s].key
         /\ table'[s].val = table[s].val
      \/ layout = "hash" /\ pc = "store1" /\ table'[s].key = a
      \/ pc = "store2" /\ table'[s].val = Top(t).val /\ table'[s].key = table[s].key
  BY <1>1, StoreEffect
<1>4. Fits(Top(t)) /\ Right(Top(t), global)
  BY <1>1, <1>2, TopRight
<1>5. pc \in {"store1", "store2", "store3"}
  BY <1>3
<1>6. Frozen(program) /\ Top(t).val = <<a, global>>
  BY <1>4, <1>5 DEF Fits, Right
<1>7. t = "main" /\ layout \in {"dense", "hash"}
  BY <1>1, <1>2, <1>6, MainOnly, LayoutsAssumption DEF ValueInv, TypeInv, TypeOK
<1>8. Knows(Top(t), table[s])
  BY <1>2, <1>6, <1>7 DEF ValueInv, TopKnows
<1>9. pc /= "store1" => table'[s].val = <<IF layout = "hash" THEN table'[s].key ELSE s, global>>
  BY <1>3, <1>6, <1>7, <1>8 DEF Knows, SlotOf
<1>10. \A r \in Slots \ {s} : table'[r].valid => table'[r].val = <<IF layout = "hash" THEN table'[r].key ELSE r, global>>
  <2>1. \A r \in Slots \ {s} : ~Writing(r)
    BY <1>7 DEF Writing
  <2> QED
    BY <1>2, <1>6, <2>1 DEF ValueInv, SlotsRight, KeyOf
<1>11. Slots' = Slots
  BY <1>2 DEF Slots
<1>12. CachedByCall'
  <2>1. at \in 1 .. at /\ program[at].op \in {"call", "parallel"}
    <3>1. at \in DOMAIN program /\ program[at].op \in {"call", "parallel"}
      BY <1>2 DEF ValueInv, Busy
    <3>2. program \in Seq([op : Ops, block : Int])
      BY <1>1, ProgramsAssumption DEF TypeInv, TypeOK
    <3>3. DOMAIN program = 1 .. Len(program) /\ Len(program) \in Nat
      BY <3>2, LenProperties
    <3> QED
      BY <3>1, <3>3
  <2>2. \A r \in Slots \ {s} : table'[r].valid => \E i \in 1 .. at : program[i].op \in {"call", "parallel"}
    BY <1>2 DEF ValueInv, CachedByCall
  <2> QED
    BY <1>2, <1>6, <1>11, <2>1, <2>2 DEF CachedByCall
<1>13. CASE pc = "store1" \/ (pc = "store2" /\ layout = "hash")
  <2>1. returned' = returned
    BY <1>1, <1>13, StoreEffect
  <2>2. PICK fr \in Activations :
          /\ Replaces(t, fr) /\ fr.pc = IF pc = "store1" THEN "store2" ELSE "store3"
          /\ fr.arg = a /\ fr.subs = Top(t).subs /\ fr.val = Top(t).val
    BY <1>1, <1>13, StoreEffect
  <2>3. stack'[t] /= <<>> /\ Top(t)' = fr /\ \A u \in Threads \ {t} : stack'[u] = stack[u]
    <3>1. stack' \in [Threads -> Seq(Activations)] /\ stack \in [Threads -> Seq(Activations)]
      BY <1>1 DEF TypeInv, TypeOK
    <3>2. \A u \in Threads \ {t} : stack'[u] = stack[u]
      BY <2>2 DEF Replaces
    <3> QED
      BY <1>2, <2>2, <3>1, <3>2, TopAfter
  <2>4. Fits(fr) /\ Right(fr, global)
    <3>1. fr.pc = "store3" => layout = "hash"
      BY <1>13, <2>2
    <3>2. Fits(fr)
      BY <1>4, <1>6, <2>2, <3>1 DEF Fits
    <3> QED
      BY <1>4, <1>6, <2>2, <3>2 DEF Right
  <2>5. StacksRight'
    BY <1>1, <1>2, <2>2, <2>4, RightAfterReplace DEF TypeInv, TypeOK
  <2>6. Busy' /\ Answered'
    BY <1>1, <1>2, <2>1, <2>3, CallersAfter DEF ValueInv
  <2>7. SlotOf(Top("main").arg)' = s
    BY <1>2, <1>7, <2>2, <2>3 DEF SlotOf
  <2>8. \A r \in Slots : pc = "store1" /\ r = s => Writing(r)'
    BY <1>7, <2>2, <2>3, <2>7 DEF Writing
  <2>9. SlotsRight'
    <3> SUFFICES ASSUME NEW r \in Slots, table'[r].valid
                 PROVE  table'[r].val = <<KeyOf(r)', global>> \/ Writing(r)'
      BY <1>2, <1>11 DEF SlotsRight
    <3>1. KeyOf(r)' = IF layout = "hash" THEN table'[r].key ELSE r
      BY <1>2 DEF KeyOf
    <3>2. CASE r = s
      BY <1>9, <2>8, <3>1, <3>2
    <3>3. CASE r /= s
      BY <1>10, <3>1, <3>3
    <3> QED
      BY <3>2, <3>3
  <2>10. Knows(fr, table'[s])
    BY <1>3, <1>7, <1>8, <1>13, <2>2 DEF Knows
  <2>11. TopKnows'
    BY <1>7, <2>3, <2>7, <2>10, <1>2 DEF TopKnows, Knows
  <2> QED
    BY <1>1, <1>12, <2>5, <2>6, <2>9, <2>11 DEF ValueInv
<1>14. CASE ~(pc = "store1" \/ (pc = "store2" /\ layout = "hash"))
  <2>1. Finishes(t, Top(t).val) \/ HandsDown(t, Top(t).val)
    BY <1>1, <1>14, StoreEffect
  <2>2. Busy' /\ Answered' /\ StacksRight' /\ TopKnows'
    BY <1>1, <1>2, <1>6, <2>1, ReturnValues
  <2>3. SlotsRight'
    BY <1>2, <1>9, <1>10, <1>11, <1>14 DEF SlotsRight, KeyOf
  <2> QED
    BY <1>1, <1>12, <2>2, <2>3 DEF ValueInv
<1> QED
  BY <1>13, <1>14

LEMMA AdvanceValues ==
  ASSUME OneCaller, StoresFirst, ValueInv, Advance
  PROVE  ValueInv'
<1>1. TypeInv' /\ TypeInv /\ Busy' /\ Answered' /\ StacksRight'
  BY AdvanceTyped, AdvanceAnswers DEF ValueInv
<1>2. program \in Seq([op : Ops, block : Int]) /\ program \in Programs
  BY <1>1, ProgramsAssumption DEF TypeInv, TypeOK
<1>3. DOMAIN program = 1 .. Len(program) /\ Len(program) \in Nat /\ at \in 0 .. Len(program)
  BY <1>1, <1>2, LenProperties DEF TypeInv, TypeOK
<1>4. PICK op : op = program[at + 1].op
  OBVIOUS
<1>5. /\ at < Len(program) /\ \A t \in Threads : stack[t] = <<>>
      /\ at' = at + 1 /\ UNCHANGED <<program, layout, table, stack, returned, computed>>
      /\ global' = IF op \in {"store", "hidden"} THEN 1 - global ELSE global
  BY <1>4 DEF Advance
<1>6. Slots' = Slots
  BY <1>5 DEF Slots
<1>7. CachedByCall'
  BY <1>3, <1>5, <1>6 DEF ValueInv, CachedByCall
<1>8. TopKnows'
  BY <1>5 DEF TopKnows, Threads
<1>9. SlotsRight'
  <2> SUFFICES ASSUME Frozen(program), NEW s \in Slots, table[s].valid
               PROVE  table[s].val = <<KeyOf(s)', global'>>
    BY <1>5, <1>6 DEF SlotsRight
  <2>1. ~Writing(s)
    BY <1>5 DEF Writing, Threads
  <2>2. table[s].val = <<KeyOf(s), global>>
    BY <2>1 DEF ValueInv, SlotsRight
  <2>3. PICK i \in 1 .. at : program[i].op \in {"call", "parallel"}
    BY DEF ValueInv, CachedByCall
  <2>4. i \in DOMAIN program /\ at + 1 \in DOMAIN program /\ ~(at + 1 < i)
    BY <1>3, <1>5
  <2>5. program[i].op = "call"
    BY <1>2, <2>3, <2>4 DEF OneCaller, CalledByOne
  <2>6. op \notin {"store", "hidden"}
    BY <1>2, <1>4, <2>4, <2>5 DEF StoresFirst, StoresPrecede
  <2> QED
    BY <1>5, <2>2, <2>6 DEF KeyOf
<1> QED
  BY <1>1, <1>7, <1>8, <1>9 DEF ValueInv

LEMMA InitValues == Init => ValueInv
<1> SUFFICES ASSUME Init PROVE ValueInv
  OBVIOUS
<1>1. TypeInv
  BY InitTyped
<1>2. \A t \in Threads : stack[t] = <<>> /\ Len(stack[t]) = 0
  BY EmptySeq DEF Init
<1>3. \A s \in Slots : ~table[s].valid
  BY DEF Init, EmptySlot
<1>4. Busy /\ StacksRight /\ Answered /\ TopKnows
  BY <1>2 DEF Init, Busy, StacksRight, Answered, TopKnows, Threads
<1> QED
  BY <1>1, <1>3, <1>4 DEF ValueInv, SlotsRight, CachedByCall

LEMMA NextValues ==
  ASSUME OneCaller, StoresFirst, ValueInv, [Next]_vars
  PROVE  ValueInv'
<1>1. CASE Advance
  BY <1>1, AdvanceValues
<1>2. ASSUME NEW t \in Threads, ThreadStep(t)
      PROVE  ValueInv'
  BY <1>2, CallValues, LookupValues, HitValues, RecurseValues, ComputeValues, StoreValues DEF ThreadStep
<1>3. CASE UNCHANGED vars
  <2>1. TypeInv'
    BY <1>3, NextTyped DEF ValueInv
  <2> QED
    BY <1>3, <2>1 DEF vars, ValueInv, Busy, StacksRight, Answered, SlotsRight, TopKnows, CachedByCall,
      Fits, Waits, Instr, KeyOf, Writing, Top, SlotOf, Slots, Knows
<1> QED
  BY <1>1, <1>2, <1>3 DEF Next

\* A memoised function returns, from every call, what the original would have:
\* not the value cached for another argument of the same slot, nor one of
\* before a store, nor one half written.  It is so for callers of which one
\* thread calls, and all stores precede all calls; outside them AutoMemoization
\* admits the callers for which it is false.
THEOREM MemoisedCallsMatch ==
  ASSUME OneCaller, StoresFirst
  PROVE  Spec => []CallsReturnValue
<1>1. Init => ValueInv
  BY InitValues
<1>2. ValueInv /\ [Next]_vars => ValueInv'
  BY NextValues
<1>3. ValueInv => CallsReturnValue
  BY DEF ValueInv, Answered, CallsReturnValue
<1> QED
  BY <1>1, <1>2, <1>3, PTL DEF Spec

-----------------------------------------------------------------------------
(* The dense table never computes a value twice.                           *)

LEMMA StepShape ==
  ASSUME TypeInv, NEW t \in Threads, ThreadStep(t)
  PROVE  /\ UNCHANGED <<program, layout, at, global>>
         /\ \A u \in Threads \ {t} : stack'[u] = stack[u]
         /\ \/ pending' = pending /\ stack[t] /= <<>>
            \/ pending' = pending \ {t} /\ t \in pending
<1>1. CASE \E n \in Args : Call(t, n)
  BY <1>1 DEF Call, TypeInv, TypeOK
<1>2. CASE Lookup(t) \/ CompareKey(t)
  BY <1>2, LookupEffect DEF Replaces
<1>3. CASE Hit(t)
  <2>1. /\ stack[t] /= <<>> /\ Top(t).pc = "hit" /\ Return(t, table[SlotOf(Top(t).arg)].val)
        /\ UNCHANGED <<program, layout, at, pending, global>>
    BY <1>3 DEF Hit, IsAt, Unchanged
  <2>2. \A u \in Threads \ {t} : stack'[u] = stack[u]
    BY <2>1 DEF Return, TypeInv, TypeOK
  <2> QED
    BY <2>1, <2>2
<1>4. CASE Recurse(t)
  BY <1>4, RecurseEffect DEF Pushes
<1>5. CASE Compute(t)
  <2>1. stack[t] /= <<>> /\ UNCHANGED <<program, layout, at, pending, global>>
    BY <1>5, ComputeEffect
  <2>2. (\E fr : Replaces(t, fr)) \/ (\E v : Finishes(t, v) \/ HandsDown(t, v))
    BY <1>5, ComputeEffect
  <2> QED
    BY <2>1, <2>2 DEF Replaces, Finishes, HandsDown
<1>6. CASE Store(t)
  <2>1. stack[t] /= <<>> /\ UNCHANGED <<program, layout, at, pending, global>>
    BY <1>6, StoreEffect
  <2>2. (\E fr : Replaces(t, fr)) \/ (\E v : Finishes(t, v) \/ HandsDown(t, v))
    BY <1>6, StoreEffect
  <2> QED
    BY <2>1, <2>2 DEF Replaces, Finishes, HandsDown
<1> QED
  BY <1>1, <1>2, <1>3, <1>4, <1>5, <1>6 DEF ThreadStep

\* A body that runs for an argument within the bounds is the first to: it has
\* no valid slot, and its result was never computed.
FreshIn(tab, count, fr) ==
  fr.pc = "body" /\ InBounds(fr.arg) => ~tab[fr.arg].valid /\ count[fr.arg] = 0
Fresh(fr) == FreshIn(table, computed, fr)

\* The arguments decrease towards the top, so that no two bodies run for the
\* same; all but the topmost activation wait in their bodies.
BodiesFresh ==
  \A k \in 1 .. Len(stack["main"]) :
    /\ stack["main"][k].pc /= "key" /\ Fresh(stack["main"][k])
    /\ k < Len(stack["main"]) => stack["main"][k].pc = "body"
    /\ \A j \in 1 .. k - 1 : stack["main"][k].arg < stack["main"][j].arg

\* What was computed is marked valid, or about to be.
Storing(n) == stack["main"] /= <<>> /\ Top("main").pc = "store1" /\ Top("main").arg = n
Marked ==
  \A n \in Args : InBounds(n) =>
    computed[n] <= 1 /\ (computed[n] = 1 => table[n].valid \/ Storing(n))

OnceInv ==
  /\ TypeInv /\ Busy
  /\ layout = "dense" /\ Frozen(program) => BodiesFresh /\ Marked

LEMMA BodiesAfter ==
  ASSUME TypeInv, stack' \in [Threads -> Seq(Activations)], BodiesFresh, stack["main"] /= <<>>,
         layout' = layout,
         \A n \in Args : n /= Top("main").arg /\ InBounds(n) =>
           table'[n].valid = table[n].valid /\ computed'[n] = computed[n],
         \/ \E fr : /\ Replaces("main", fr) /\ fr.arg = Top("main").arg /\ fr.pc /= "key"
                    /\ FreshIn(table', computed', fr)
         \/ \E fr : /\ Pushes("main", fr) /\ fr.arg < Top("main").arg /\ fr.pc = "entry"
                    /\ Top("main").pc = "body" /\ FreshIn(table', computed', Top("main"))
         \/ \E v : Finishes("main", v) \/ HandsDown("main", v)
  PROVE  BodiesFresh'
<1> DEFINE S == stack["main"]
           N == stack'["main"]
           n == Len(S)
           BodiesFreshIn == \A k \in 1 .. Len(N) :
             /\ N[k].pc /= "key" /\ FreshIn(table', computed', N[k])
             /\ k < Len(N) => N[k].pc = "body"
             /\ \A j \in 1 .. k - 1 : N[k].arg < N[j].arg
<1>1. n \in Nat /\ n >= 1 /\ Top("main") = S[n] /\ \A k \in 1 .. n : S[k] \in Activations
  BY TopOfStack, ElementOfSeq DEF TypeInv, TypeOK, Threads
<1>2. \A k \in 1 .. n : S[k].arg \in Args /\ S[k].arg \in Int
  BY <1>1, ArgsAssumption DEF Activations
<1>3. \A k \in 1 .. n : \A j \in 1 .. k - 1 : S[k].arg < S[j].arg
  BY DEF BodiesFresh
<1>4. \A k \in 1 .. n - 1 : S[k].pc = "body" /\ FreshIn(table', computed', S[k])
  <2> SUFFICES ASSUME NEW k \in 1 .. n - 1
               PROVE  S[k].pc = "body" /\ FreshIn(table', computed', S[k])
    OBVIOUS
  <2>1. k \in 1 .. n /\ n \in 1 .. n /\ k \in 1 .. n - 1 /\ k < n
    BY <1>1
  <2>2. S[k].pc = "body" /\ FreshIn(table, computed, S[k])
    BY <2>1 DEF BodiesFresh, Fresh
  <2>3. S[n].arg < S[k].arg
    BY <1>3, <2>1
  <2>4. S[k].arg /= Top("main").arg /\ S[k].arg \in Args
    BY <1>1, <1>2, <2>1, <2>3
  <2> QED
    BY <2>2, <2>4 DEF FreshIn
<1>5. \A fr : FreshIn(table', computed', fr) => FreshIn(table, computed, fr)'
  BY DEF FreshIn, InBounds
<1> SUFFICES BodiesFreshIn
  BY <1>5 DEF BodiesFresh, Fresh
<1>6. CASE \E fr : /\ Replaces("main", fr) /\ fr.arg = Top("main").arg /\ fr.pc /= "key"
                  /\ FreshIn(table', computed', fr)
  <2>1. PICK fr : /\ Replaces("main", fr) /\ fr.arg = Top("main").arg /\ fr.pc /= "key"
                  /\ FreshIn(table', computed', fr)
    BY <1>6
  <2>2. Len(N) = n /\ \A k \in 1 .. n : N[k] = IF k = n THEN fr ELSE S[k]
    BY <2>1 DEF Replaces
  <2>3. \A k \in 1 .. n : N[k].arg = S[k].arg
    BY <1>1, <2>1, <2>2
  <2> QED
    BY <1>1, <1>3, <1>4, <2>1, <2>2, <2>3
<1>7. CASE \E fr : /\ Pushes("main", fr) /\ fr.arg < Top("main").arg /\ fr.pc = "entry"
                  /\ Top("main").pc = "body" /\ FreshIn(table', computed', Top("main"))
  <2>1. PICK fr : /\ Pushes("main", fr) /\ fr.arg < S[n].arg /\ fr.pc = "entry"
                  /\ S[n].pc = "body" /\ FreshIn(table', computed', S[n])
    BY <1>1, <1>7
  <2>2. Len(N) = n + 1 /\ (\A k \in 1 .. n : N[k] = S[k]) /\ N[n + 1] = fr
    BY <2>1 DEF Pushes
  <2>3. fr.arg \in Int
    <3>1. n + 1 \in 1 .. Len(N)
      BY <1>1, <2>2
    <3>2. N[n + 1] \in Activations
      BY <3>1, ElementOfSeq DEF Threads
    <3> QED
      BY <2>2, <3>2, ArgsAssumption DEF Activations
  <2>4. \A k \in 1 .. n : S[k].pc = "body" /\ FreshIn(table', computed', S[k])
    BY <1>1, <1>4, <2>1
  <2>5. \A j \in 1 .. n : fr.arg < S[j].arg
    <3> SUFFICES ASSUME NEW j \in 1 .. n PROVE fr.arg < S[j].arg
      OBVIOUS
    <3>1. n \in 1 .. n /\ (j = n \/ j \in 1 .. n - 1)
      BY <1>1
    <3>2. j /= n => S[n].arg < S[j].arg
      BY <1>3, <3>1
    <3> QED
      BY <1>2, <2>1, <2>3, <3>1, <3>2
  <2>6. FreshIn(table', computed', fr)
    BY <2>1 DEF FreshIn
  <2>7. ASSUME NEW k \in 1 .. n + 1
        PROVE  /\ N[k].pc /= "key" /\ FreshIn(table', computed', N[k])
               /\ k < n + 1 => N[k].pc = "body"
               /\ \A j \in 1 .. k - 1 : N[k].arg < N[j].arg
    <3>1. CASE k = n + 1
      BY <1>1, <2>1, <2>2, <2>5, <2>6, <3>1
    <3>2. CASE k \in 1 .. n
      <4>1. N[k].pc = "body" /\ FreshIn(table', computed', N[k])
        BY <2>2, <2>4, <3>2
      <4>2. ASSUME NEW j \in 1 .. k - 1 PROVE N[k].arg < N[j].arg
        <5>1. j \in 1 .. n
          BY <1>1, <3>2
        <5>2. S[k].arg < S[j].arg
          BY <1>3, <3>2
        <5> QED
          BY <2>2, <3>2, <5>1, <5>2
      <4> QED
        BY <4>1, <4>2
    <3> QED
      BY <1>1, <3>1, <3>2
  <2> QED
    BY <2>2, <2>7
<1>8. CASE \E v : Finishes("main", v) \/ HandsDown("main", v)
  <2>1. CASE \E v : Finishes("main", v)
    <3>1. Len(N) = 0
      BY <2>1, EmptySeq DEF Finishes
    <3> QED
      BY <3>1
  <2>2. CASE \E v : HandsDown("main", v)
    <3>1. /\ Len(N) = n - 1
          /\ \A k \in 1 .. n - 1 : N[k].arg = S[k].arg /\ N[k].pc = S[k].pc
      BY <2>2, HandsDownFields DEF TypeInv, TypeOK, Threads
    <3>2. \A k \in 1 .. n - 1 : FreshIn(table', computed', N[k])
      BY <1>4, <3>1 DEF FreshIn
    <3>3. ASSUME NEW k \in 1 .. n - 1
          PROVE  /\ N[k].pc = "body" /\ FreshIn(table', computed', N[k])
                 /\ \A j \in 1 .. k - 1 : N[k].arg < N[j].arg
      <4>1. N[k].arg = S[k].arg /\ N[k].pc = "body" /\ FreshIn(table', computed', N[k])
        BY <1>4, <3>1, <3>2
      <4>2. ASSUME NEW j \in 1 .. k - 1 PROVE N[k].arg < N[j].arg
        <5>1. j \in 1 .. n - 1
          BY <1>1
        <5>2. S[k].arg < S[j].arg
          <6>1. k \in 1 .. n
            BY <1>1
          <6> QED
            BY <1>3, <6>1
        <5>3. N[j].arg = S[j].arg
          BY <3>1, <5>1
        <5> QED
          BY <4>1, <5>2, <5>3
      <4> QED
        BY <4>1, <4>2
    <3>4. 1 .. Len(N) = 1 .. n - 1
      BY <3>1
    <3> HIDE DEF N
    <3> QED
      BY <3>3, <3>4
  <2> QED
    BY <1>8, <2>1, <2>2
<1> QED
  BY <1>6, <1>7, <1>8

\* Nothing was computed or stored.
LEMMA MarkedStays ==
  ASSUME Marked, stack["main"] = <<>> \/ Top("main").pc /= "store1",
         UNCHANGED <<layout, computed>>,
         \A n \in Args : InBounds(n) /\ table[n].valid => table'[n].valid
  PROVE  Marked'
<1> SUFFICES ASSUME NEW n \in Args, InBounds(n)
             PROVE  computed[n] <= 1 /\ (computed[n] = 1 => table'[n].valid)
  BY DEF Marked, InBounds
<1>1. ~Storing(n)
  BY DEF Storing
<1> QED
  BY <1>1 DEF Marked

LEMMA DenseSlots ==
  ASSUME layout = "dense"
  PROVE  /\ \A n : SlotOf(n) = n
         /\ \A n : InBounds(n) <=> n \in Slots
BY DEF SlotOf, InBounds, Slots

LEMMA StoreOnce ==
  ASSUME TypeInv, layout = "dense", BodiesFresh, Marked, Store("main")
  PROVE  BodiesFresh' /\ Marked'
<1> DEFINE a == Top("main").arg
<1>1. "main" \in Threads
  BY DEF Threads
<1>2. /\ stack["main"] /= <<>> /\ InBounds(a) /\ SlotOf(a) \in Slots /\ computed' = computed /\ layout' = layout
      /\ \A r \in Slots \ {SlotOf(a)} : table'[r] = table[r]
      /\ stack' \in [Threads -> Seq(Activations)]
  BY <1>1, StoreEffect
<1>3. SlotOf(a) = a /\ \A n : InBounds(n) <=> n \in Slots
  BY DenseSlots
<1>4. \/ Top("main").pc = "store1" /\ table'[a].valid
      \/ Top("main").pc = "store2" /\ table'[a].valid = table[a].valid
  <2>1. \/ /\ Top("main").pc = IF layout = "dense" THEN "store1" ELSE "store3"
           /\ table'[SlotOf(a)].valid
        \/ layout = "hash"
        \/ Top("main").pc = "store2" /\ table'[SlotOf(a)].valid = table[SlotOf(a)].valid
    BY <1>1, StoreEffect
  <2> QED
    BY <1>3, <2>1
<1>5. \A n \in Args : n /= a /\ InBounds(n) => table'[n].valid = table[n].valid /\ computed'[n] = computed[n]
  BY <1>2, <1>3
<1>6. \/ \E fr : /\ Replaces("main", fr) /\ fr.arg = a /\ fr.pc \notin {"key", "body"}
      \/ \E v : Finishes("main", v) \/ HandsDown("main", v)
  <2>1. CASE Top("main").pc = "store1"
    <3>1. PICK fr \in Activations : Replaces("main", fr) /\ fr.pc = "store2" /\ fr.arg = a
      BY <1>1, <2>1, StoreEffect
    <3> QED
      BY <3>1
  <2>2. CASE Top("main").pc = "store2"
    <3>1. Finishes("main", Top("main").val) \/ HandsDown("main", Top("main").val)
      BY <1>1, <2>2, StoreEffect
    <3> QED
      BY <3>1
  <2> QED
    BY <1>4, <2>1, <2>2
<1>7. BodiesFresh'
  <2>1. \A fr : fr.pc /= "body" => FreshIn(table', computed', fr)
    BY DEF FreshIn
  <2> QED
    BY <1>2, <1>5, <1>6, <2>1, BodiesAfter
<1>8. Marked'
  <2> SUFFICES ASSUME NEW n \in Args, InBounds(n)
               PROVE  computed[n] <= 1 /\ (computed[n] = 1 => table'[n].valid)
    BY <1>2 DEF Marked, InBounds
  <2>1. computed[n] <= 1 /\ (computed[n] = 1 => table[n].valid \/ Storing(n))
    BY DEF Marked
  <2>2. Storing(n) => Top("main").pc = "store1" /\ n = a
    BY DEF Storing
  <2> QED
    BY <1>4, <1>5, <2>1, <2>2
<1> QED
  BY <1>7, <1>8

LEMMA ComputeOnce ==
  ASSUME TypeInv, layout = "dense", Frozen(program), BodiesFresh, Marked, Compute("main")
  PROVE  BodiesFresh' /\ Marked'
<1> DEFINE a == Top("main").arg
<1>1. "main" \in Threads
  BY DEF Threads
<1>2. /\ stack["main"] /= <<>> /\ Top("main").pc = "body" /\ UNCHANGED <<program, layout, table>>
      /\ computed' = [computed EXCEPT ![a] = IF @ < 2 THEN @ + 1 ELSE @]
      /\ stack' \in [Threads -> Seq(Activations)]
  BY <1>1, ComputeEffect
<1>3. a \in Args /\ computed \in [Args -> 0 .. 2]
  BY <1>1, <1>2, TopPlaced DEF TypeInv, TypeOK
<1>4. \A n \in Args \ {a} : computed'[n] = computed[n]
  BY <1>2, <1>3
<1>5. InBounds(a) => computed[a] = 0 /\ computed'[a] = 1
  <2>1. Top("main") = stack["main"][Len(stack["main"])] /\ Len(stack["main"]) \in 1 .. Len(stack["main"])
    BY <1>1, <1>2, TopOfStack DEF TypeInv, TypeOK
  <2>2. Fresh(Top("main"))
    BY <2>1 DEF BodiesFresh
  <2>3. InBounds(a) => computed[a] = 0
    BY <1>2, <2>2 DEF Fresh, FreshIn
  <2> QED
    BY <1>2, <1>3, <2>3
<1>6. CASE InBounds(a)
  <2>1. PICK fr \in Activations : Replaces("main", fr) /\ fr.pc = "store1" /\ fr.arg = a
    BY <1>1, <1>6, ComputeEffect
  <2>2. stack'["main"] /= <<>> /\ Top("main")' = fr
    BY <1>1, <1>2, <2>1, TopAfter DEF TypeInv, TypeOK
  <2>3. FreshIn(table', computed', fr)
    BY <2>1 DEF FreshIn
  <2>4. BodiesFresh'
    BY <1>2, <1>4, <2>1, <2>3, BodiesAfter
  <2>5. Marked'
    <3> SUFFICES ASSUME NEW n \in Args, InBounds(n)
                 PROVE  computed'[n] <= 1 /\ (computed'[n] = 1 => table'[n].valid \/ Storing(n)')
      BY <1>2 DEF Marked, InBounds
    <3>1. CASE n = a
      BY <1>5, <1>6, <2>1, <2>2, <3>1 DEF Storing
    <3>2. CASE n /= a
      <4>1. computed[n] <= 1 /\ (computed[n] = 1 => table[n].valid)
        BY <1>2 DEF Marked, Storing
      <4> QED
        BY <1>2, <1>4, <3>2, <4>1
    <3> QED
      BY <3>1, <3>2
  <2> QED
    BY <2>4, <2>5
<1>7. CASE ~InBounds(a)
  <2>1. \E v : Finishes("main", v) \/ HandsDown("main", v)
    BY <1>1, <1>7, ComputeEffect
  <2>2. BodiesFresh'
    BY <1>2, <1>4, <2>1, BodiesAfter
  <2>3. Marked'
    <3> SUFFICES ASSUME NEW n \in Args, InBounds(n)
                 PROVE  computed'[n] <= 1 /\ (computed'[n] = 1 => table'[n].valid)
      BY <1>2 DEF Marked, InBounds
    <3>1. computed[n] <= 1 /\ (computed[n] = 1 => table[n].valid)
      BY <1>2 DEF Marked, Storing
    <3> QED
      BY <1>2, <1>4, <1>7, <3>1
  <2> QED
    BY <2>2, <2>3
<1> QED
  BY <1>6, <1>7

LEMMA QuietOnce ==
  ASSUME TypeInv, layout = "dense", Frozen(program), BodiesFresh, Marked,
         Lookup("main") \/ CompareKey("main") \/ Hit("main") \/ Recurse("main")
  PROVE  BodiesFresh' /\ Marked'
<1> DEFINE a == Top("main").arg
<1>1. "main" \in Threads
  BY DEF Threads
<1>2. /\ stack["main"] /= <<>> /\ Top("main").pc /= "store1"
      /\ UNCHANGED <<program, layout, table, computed>>
  BY DEF Lookup, CompareKey, Hit, Recurse, IsAt, Unchanged
<1>3. /\ Top("main") = stack["main"][Len(stack["main"])] /\ Len(stack["main"]) \in 1 .. Len(stack["main"])
      /\ a \in Args /\ a \in Int
  BY <1>1, <1>2, TopOfStack, TopPlaced DEF TypeInv, TypeOK
<1>4. Top("main").pc /= "key" /\ Fresh(Top("main"))
  BY <1>3 DEF BodiesFresh
<1>5. Marked'
  BY <1>2, MarkedStays
<1>6. CASE Lookup("main") \/ CompareKey("main")
  <2>1. PICK fr \in Activations :
          /\ Replaces("main", fr) /\ fr.arg = a
          /\ \/ fr.pc = "body" /\ (~InBounds(a) \/ ~table[SlotOf(a)].valid)
             \/ fr.pc = "hit"
    <3>1. PICK fr \in Activations :
            /\ Replaces("main", fr) /\ fr.arg = a
            /\ \/ fr.pc = "body" /\ (Top("main").pc = "key" \/ ~InBounds(a) \/ ~table[SlotOf(a)].valid)
               \/ fr.pc = "key" /\ layout = "hash"
               \/ fr.pc = "hit"
      BY <1>1, <1>6, LookupEffect
    <3> QED
      BY <1>4, <3>1
  <2>2. FreshIn(table', computed', fr)
    <3>1. CASE fr.pc = "body" /\ InBounds(a)
      <4>1. ~table[a].valid
        BY <2>1, <3>1, DenseSlots
      <4>2. Top("main").pc /= "store1" => ~Storing(a)
        BY DEF Storing
      <4>3. computed[a] /= 1 /\ computed[a] <= 1
        BY <1>2, <1>3, <3>1, <4>1, <4>2 DEF Marked
      <4>4. computed[a] = 0
        BY <1>3, <4>3 DEF TypeInv, TypeOK
      <4> QED
        BY <1>2, <2>1, <4>1, <4>4 DEF FreshIn
    <3> QED
      BY <2>1, <3>1 DEF FreshIn
  <2>3. stack' \in [Threads -> Seq(Activations)]
    BY <1>1, <1>6, LookupEffect
  <2>4. fr.pc /= "key"
    BY <2>1
  <2>5. BodiesFresh'
    BY <1>2, <2>1, <2>2, <2>3, <2>4, BodiesAfter
  <2> QED
    BY <1>5, <2>5
<1>7. CASE Hit("main")
  <2>1. TypeInv'
    BY <1>1, <1>7, HitTyped
  <2>2. \E v : Finishes("main", v) \/ HandsDown("main", v)
    <3>1. Top("main").pc = "hit" /\ Return("main", table[SlotOf(a)].val)
      BY <1>7 DEF Hit, IsAt
    <3>2. SlotOf(a) \in Slots
      BY <1>1, <1>2, <3>1, TopPlaced DEF Placed, PlacedIn
    <3>3. table[SlotOf(a)].val \in Results
      BY <3>2 DEF TypeInv, TypeOK, Slot
    <3> QED
      BY <1>1, <1>2, <3>1, <3>3, ReturnEffects, ArgsAssumption DEF TypeInv, TypeOK
  <2>3. BodiesFresh'
    BY <1>2, <2>1, <2>2, BodiesAfter DEF TypeInv, TypeOK
  <2> QED
    BY <1>5, <2>3
<1>8. CASE Recurse("main")
  <2>1. PICK n \in Args : n = Smaller(a)[Len(Top("main").subs) + 1] /\ Pushes("main", Activation(n))
    BY <1>1, <1>8, RecurseEffect
  <2>2. /\ Top("main").pc = "body" /\ stack' \in [Threads -> Seq(Activations)]
        /\ Len(Top("main").subs) \in Nat /\ Len(Top("main").subs) < Len(Smaller(a))
    BY <1>1, <1>8, RecurseEffect
  <2>3. n < a
    BY <1>3, <2>1, <2>2, SmallerFacts
  <2>4. Activation(n).pc = "entry" /\ Activation(n).arg = n
    BY ActivationTyped
  <2>5. FreshIn(table', computed', Top("main"))
    BY <1>2, <1>4 DEF Fresh
  <2>6. BodiesFresh'
    BY <1>2, <2>1, <2>2, <2>3, <2>4, <2>5, BodiesAfter
  <2> QED
    BY <1>5, <2>6
<1> QED
  BY <1>6, <1>7, <1>8

LEMMA CallOnce ==
  ASSUME TypeInv, TypeInv', Busy, layout = "dense", Frozen(program), Marked, NEW n \in Args, Call("main", n)
  PROVE  BodiesFresh' /\ Marked'
<1>1. /\ stack["main"] = <<>> /\ UNCHANGED <<layout, table, computed>>
      /\ stack'["main"] = <<Activation(n)>>
  BY DEF Call, Busy, TypeInv, TypeOK, Threads
<1>2. Marked'
  BY <1>1, MarkedStays
<1>3. PICK fr : fr = Activation(n)
  OBVIOUS
<1>4. fr.pc = "entry"
  BY <1>3, ActivationTyped
<1>5. Len(<<fr>>) = 1 /\ <<fr>>[1] = fr
  OBVIOUS
<1>6. Len(stack'["main"]) = 1 /\ stack'["main"][1] = fr
  BY <1>1, <1>3, <1>5
<1>7. BodiesFresh'
  <2> SUFFICES ASSUME NEW k \in 1 .. Len(stack'["main"])
               PROVE  k = 1 /\ stack'["main"][k].pc = "entry"
    BY <1>6 DEF BodiesFresh, Fresh, FreshIn
  <2> QED
    BY <1>4, <1>6
<1> QED
  BY <1>2, <1>7

LEMMA NextOnce ==
  ASSUME OneCaller, OnceInv, [Next]_vars
  PROVE  OnceInv'
<1>1. TypeInv /\ TypeInv' /\ Busy
  BY NextTyped DEF OnceInv
<1>2. CASE Advance
  <2>1. Busy' /\ UNCHANGED <<program, layout, table, stack, computed>>
    BY <1>1, <1>2, AdvanceAnswers DEF Advance
  <2> QED
    BY <1>1, <2>1 DEF OnceInv, BodiesFresh, Marked, Fresh, FreshIn, Storing, Top, InBounds
<1>3. ASSUME NEW t \in Threads, ThreadStep(t)
      PROVE  OnceInv'
  <2>1. /\ UNCHANGED <<program, layout, at, global>>
        /\ \A u \in Threads \ {t} : stack'[u] = stack[u]
        /\ \/ pending' = pending /\ stack[t] /= <<>>
           \/ pending' = pending \ {t} /\ t \in pending
    BY <1>1, <1>3, StepShape
  <2>2. Busy'
    BY <1>1, <2>1 DEF Busy
  <2>3. ASSUME layout = "dense", Frozen(program)
        PROVE  BodiesFresh' /\ Marked'
    <3>1. t = "main"
      BY <1>1, <2>1, <2>3, MainOnly
    <3>2. BodiesFresh /\ Marked
      BY <2>3 DEF OnceInv
    <3> QED
      BY <1>1, <1>3, <2>3, <3>1, <3>2, CallOnce, QuietOnce, ComputeOnce, StoreOnce DEF ThreadStep
  <2> QED
    BY <1>1, <2>1, <2>2, <2>3 DEF OnceInv
<1>4. CASE UNCHANGED vars
  BY <1>1, <1>4 DEF vars, OnceInv, Busy, BodiesFresh, Marked, Fresh, FreshIn, Storing, Top, InBounds
<1> QED
  BY <1>2, <1>3, <1>4 DEF Next

\* Called by one thread, the dense table's function never runs its body twice
\* for an argument within the bounds, however deeply it recurses: between the
\* lookup that missed and the store, no other activation has that argument.
\* That no store of the global comes between is not needed.
THEOREM ComputedAtMostOnce ==
  ASSUME OneCaller
  PROVE  Spec => []ComputedOnce
<1>1. Init => OnceInv
  <2> SUFFICES ASSUME Init PROVE OnceInv
    OBVIOUS
  <2>1. TypeInv /\ Busy
    BY InitValues DEF ValueInv
  <2>2. Len(stack["main"]) = 0
    BY EmptySeq DEF Init, Threads
  <2>3. BodiesFresh /\ Marked
    BY <2>2 DEF Init, BodiesFresh, Marked
  <2> QED
    BY <2>1, <2>3 DEF OnceInv
<1>2. OnceInv /\ [Next]_vars => OnceInv'
  BY NextOnce
<1>3. OnceInv => ComputedOnce
  BY DEF OnceInv, Marked, ComputedOnce
<1> QED
  BY <1>1, <1>2, <1>3, PTL DEF Spec

=============================================================================
