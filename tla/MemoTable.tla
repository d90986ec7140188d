----------------------------- MODULE MemoTable ------------------------------
(***************************************************************************)
(* A function rewritten by AutoMemoization: the wrapper f looks its        *)
(* argument up in a table, and computes and stores the result when it is   *)
(* not there.  The original body calls f again for the two smaller         *)
(* arguments and reads one global, as the candidates do.  Every load and   *)
(* store of the table is a step of its own.                                *)
(*                                                                         *)
(* A result is the pair of the argument and the value the global had when  *)
(* it was computed: f(n) is correct when it returns <<n, global>>.         *)
(***************************************************************************)
EXTENDS Integers, Sequences, SequencesExt

CONSTANTS
  Programs,     \* the callers: instructions of their blocks, in order
  Args,         \* the arguments they call f with
  Bound,        \* the dense table's dimension
  HASH_SLOTS,   \* the hash table's size
  Layouts       \* which of the two tables: subset of {"dense", "hash"}

\* A program is the path its run takes.  An instruction is [op, block]: it
\* stores to the global, stores to it where AutoMemoization does not see a
\* store (getarray, a pointer parameter), calls f, or is a parallel loop in
\* which two threads call f.
Ops == {"store", "hidden", "call", "parallel"}

\* The recursive calls of the body.
Smaller(n) == IF n < 2 THEN <<>> ELSE <<n - 1, n - 2>>

ASSUME SizesAssumption == Bound \in Nat \ {0} /\ HASH_SLOTS \in Nat \ {0}
ASSUME ProgramsAssumption == Programs \subseteq Seq([op : Ops, block : Int])
ASSUME ArgsAssumption ==
  Args \subseteq Int /\ \A n \in Args : \A i \in DOMAIN Smaller(n) : Smaller(n)[i] \in Args
ASSUME LayoutsAssumption == Layouts \subseteq {"dense", "hash"}

VARIABLES
  program, layout,
  at,           \* the instruction being executed
  pending,      \* the threads that still have to call f in it
  global,       \* the value of the global f reads
  table,        \* the slots
  stack,        \* the activations of f, of each thread
  returned,     \* what each thread's last call returned
  computed      \* history: how often the body was run for an argument

vars == <<program, layout, at, pending, global, table, stack, returned, computed>>

Threads == {"main", "worker"}
NoResult == <<>>
Results == (Int \X {0, 1}) \cup {NoResult}
Slot == [valid : BOOLEAN, key : Int, val : Results]
EmptySlot == [valid |-> FALSE, key |-> 0, val |-> NoResult]

\* readsUnfrozenGlobal: every store it sees is in a block that dominates every
\* block with a call of f; the blocks of a program dominate each other in
\* order.  A block dominates itself.
Dominates(b, c) == b <= c
Frozen_skip(p) == TRUE
Frozen(p) ==
  \A i, j \in DOMAIN p :
    p[i].op = "store" /\ p[j].op \in {"call", "parallel"}
    => Dominates(p[i].block, p[j].block)

\* emitInBounds compares without sign; a hash slot is a mask of the argument.
InBounds(n) == layout = "hash" \/ n \in 0 .. Bound - 1
SlotOf(n) == IF layout = "hash" THEN n % HASH_SLOTS ELSE n
Slots == IF layout = "hash" THEN 0 .. HASH_SLOTS - 1 ELSE 0 .. Bound - 1

Activation(n) ==
  [arg |-> n, subs |-> <<>>, val |-> NoResult,
   pc |-> IF Frozen(program) THEN "entry" ELSE "body"]

Init ==
  /\ program \in Programs /\ layout \in Layouts
  /\ at = 0 /\ pending = {} /\ global = 0
  /\ table = [s \in Slots |-> EmptySlot]
  /\ stack = [t \in Threads |-> <<>>]
  /\ returned = [t \in Threads |-> [arg |-> 0, val |-> <<0, global>>]]
  /\ computed = [n \in Args |-> 0]

-----------------------------------------------------------------------------
(* The caller.                                                             *)

Instr == program[at]

\* The next instruction.
Advance ==
  LET op == program[at + 1].op IN
  /\ at < Len(program)
  /\ pending = {} /\ \A t \in Threads : stack[t] = <<>>
  /\ at' = at + 1
  /\ pending' = IF op = "call" THEN {"main"} ELSE IF op = "parallel" THEN Threads ELSE {}
  /\ global' = IF op \in {"store", "hidden"} THEN 1 - global ELSE global
  /\ UNCHANGED <<program, layout, table, stack, returned, computed>>

Call(t, n) ==
  /\ t \in pending
  /\ pending' = pending \ {t}
  /\ stack' = [stack EXCEPT ![t] = <<Activation(n)>>]
  /\ UNCHANGED <<program, layout, at, global, table, returned, computed>>

-----------------------------------------------------------------------------
(* One step of an activation.                                              *)

Top(t) == Last(stack[t])
IsAt(t, pc) == stack[t] /= <<>> /\ Top(t).pc = pc
WithTop(t, fr) == [stack EXCEPT ![t] = Append(Front(@), fr)]
Goto(t, pc) == stack' = WithTop(t, [Top(t) EXCEPT !.pc = pc])

Unchanged == UNCHANGED <<program, layout, at, pending, global>>

\* A result goes to the calling activation, or to the caller.
Return(t, v) ==
  LET rest == Front(stack[t]) IN
  IF rest = <<>>
  THEN /\ stack' = [stack EXCEPT ![t] = <<>>]
       /\ returned' = [returned EXCEPT ![t] = [arg |-> Top(t).arg, val |-> v]]
  ELSE /\ stack' = [stack EXCEPT ![t] =
              Append(Front(rest), [Last(rest) EXCEPT !.subs = Append(@, v)])]
       /\ UNCHANGED returned

\* The wrapper loads the flag, or sees that there is no slot for n.
Lookup(t) ==
  /\ IsAt(t, "entry")
  /\ LET n == Top(t).arg IN
     IF ~InBounds(n) \/ ~table[SlotOf(n)].valid THEN Goto(t, "body")
     ELSE Goto(t, IF layout = "hash" THEN "key" ELSE "hit")
  /\ UNCHANGED <<table, returned, computed>> /\ Unchanged

\* The hash table's wrapper compares the key.
CompareKey(t) ==
  /\ IsAt(t, "key")
  /\ LET n == Top(t).arg IN
     Goto(t, IF table[SlotOf(n)].key = n THEN "hit" ELSE "body")
  /\ UNCHANGED <<table, returned, computed>> /\ Unchanged

Hit(t) ==
  /\ IsAt(t, "hit")
  /\ Return(t, table[SlotOf(Top(t).arg)].val)
  /\ UNCHANGED <<table, computed>> /\ Unchanged

\* The body calls f for the next smaller argument ...
Recurse(t) ==
  /\ IsAt(t, "body")
  /\ LET fr == Top(t) IN
     /\ Len(fr.subs) < Len(Smaller(fr.arg))
     /\ stack' = [stack EXCEPT ![t] =
                    Append(@, Activation(Smaller(fr.arg)[Len(fr.subs) + 1]))]
  /\ UNCHANGED <<table, returned, computed>> /\ Unchanged

\* ... and computes its result from theirs and the global.
Compute(t) ==
  /\ IsAt(t, "body")
  /\ LET fr == Top(t)
         subs == Smaller(fr.arg)
         right == fr.subs = [i \in DOMAIN subs |-> <<subs[i], global>>]
         v == IF right THEN <<fr.arg, global>> ELSE <<fr.arg, 1 - global>>
     IN
     /\ Len(fr.subs) = Len(Smaller(fr.arg))
     /\ IF Frozen(program) /\ InBounds(fr.arg)
        THEN /\ stack' = WithTop(t, [fr EXCEPT !.pc = "store1", !.val = v])
             /\ UNCHANGED returned
        ELSE Return(t, v)
     /\ computed' = [computed EXCEPT ![fr.arg] = IF @ < 2 THEN @ + 1 ELSE @]
  /\ UNCHANGED table /\ Unchanged

\* The stores of a miss, in order: flag and value of the dense table (fillFn),
\* key, value and flag of the hash table.
StoreOrder_unflagged == IF layout = "dense" THEN <<"val", "val">> ELSE <<"key", "val", "valid">>
StoreOrder_unkeyed == IF layout = "dense" THEN <<"valid", "val">> ELSE <<"val", "valid">>
StoreOrder == IF layout = "dense" THEN <<"valid", "val">> ELSE <<"key", "val", "valid">>

StoreSteps == <<"store1", "store2", "store3">>

Stored(slot, field, fr) ==
  IF field = "valid" THEN [slot EXCEPT !.valid = TRUE]
  ELSE IF field = "key" THEN [slot EXCEPT !.key = fr.arg] ELSE [slot EXCEPT !.val = fr.val]

Store(t) ==
  \E k \in DOMAIN StoreOrder :
    /\ IsAt(t, StoreSteps[k])
    /\ LET fr == Top(t) IN
       /\ table' = [table EXCEPT ![SlotOf(fr.arg)] = Stored(@, StoreOrder[k], fr)]
       /\ IF k < Len(StoreOrder)
          THEN Goto(t, StoreSteps[k + 1]) /\ UNCHANGED returned
          ELSE Return(t, fr.val)
    /\ UNCHANGED computed /\ Unchanged

ThreadStep(t) ==
  \/ \E n \in Args : Call(t, n)
  \/ Lookup(t) \/ CompareKey(t) \/ Hit(t) \/ Recurse(t) \/ Compute(t) \/ Store(t)

Next == Advance \/ \E t \in Threads : ThreadStep(t)

Spec == Init /\ [][Next]_vars
-----------------------------------------------------------------------------
(* Properties.                                                             *)

Labels == {"entry", "key", "hit", "body", "store1", "store2", "store3"}
Activations == [arg : Args, subs : Seq(Results), val : Results, pc : Labels]

\* The type invariant; the key of a valid hash slot belongs there.
TypeOK ==
  /\ program \in Programs /\ layout \in Layouts
  /\ at \in 0 .. Len(program) /\ pending \subseteq Threads /\ global \in {0, 1}
  /\ table \in [Slots -> Slot]
  /\ \A s \in Slots : layout = "hash" /\ table[s].valid => SlotOf(table[s].key) = s
  /\ stack \in [Threads -> Seq(Activations)]
  /\ returned \in [Threads -> [arg : Int, val : Results]]
  /\ computed \in [Args -> 0 .. 2]

\* A call returns what the original function would have returned: the value
\* for its own argument and for the global as it is now, never one that was
\* cached for another argument, before a store, or half written.
CallsReturnValue ==
  \A t \in Threads :
    (at /= 0 /\ Instr.op \in {"call", "parallel"} /\ pending = {} /\ stack[t] = <<>>
     /\ (t = "main" \/ Instr.op = "parallel"))
    => returned[t].val = <<returned[t].arg, global>>

\* The point of the dense table: one thread never runs the body twice for an
\* argument within its bounds.
ComputedOnce ==
  layout = "dense" /\ Frozen(program) =>
    \A n \in Args : InBounds(n) => computed[n] <= 1

\* The callers of a memoised function that its two tables serve: one thread
\* calls it, ...
CalledByOne(p) == \A i \in DOMAIN p : p[i].op /= "parallel"
OneCaller == \A p \in Programs : Frozen(p) => CalledByOne(p)

\* ... and every store of the global is executed before the first call.
StoresPrecede(p) ==
  \A i, j \in DOMAIN p : p[i].op \in {"store", "hidden"} /\ p[j].op = "call" => i < j
StoresFirst == \A p \in Programs : Frozen(p) => StoresPrecede(p)
=============================================================================
