---------------------------- MODULE AliasAnalysis ----------------------------
(***************************************************************************)
(* basicAliasAnalysis.cpp: which pointers may meet, and which memory a     *)
(* function reads or writes.  A location is a pointer and what it is known *)
(* to point into: ptr and base are values with the function they belong    *)
(* to, offset is a set of one number, or empty when it is not known.       *)
(***************************************************************************)
EXTENDS ScalarAnalysis

Owned(name, v) == IF IsGlobal(v) THEN <<"", v>> ELSE <<name, v>>
KindOf(f, v) ==
  IF IsGlobal(v) \/ Is(f, v, "Alloca") THEN "object"
  ELSE IF v < FirstLocal + Len(f.args) THEN "argument" ELSE "unknown"

\* getPointerInfo, getMemoryLocation
RECURSIVE Location(_, _, _)
Location(f, name, ptr) ==
  IF Is(f, ptr, "BitCast") THEN [Location(f, name, Arg(f, ptr, 1)) EXCEPT !.ptr = <<name, ptr>>]
  ELSE IF ~Is(f, ptr, "GEP")
  THEN [ptr |-> Owned(name, ptr), base |-> Owned(name, ptr), kind |-> KindOf(f, ptr), offset |-> {0}]
  ELSE [Location(f, name, Arg(f, ptr, 1)) EXCEPT
          !.ptr = <<name, ptr>>,
          !.offset = IF IsConst(Arg(f, ptr, 2)) THEN {x + Arg(f, ptr, 2) : x \in @} ELSE {}]

\* alias: of two ints in memory.
Alias(a, b) ==
  CASE a.ptr = b.ptr -> "Must"
    [] a.ptr # b.ptr /\ a.base # b.base -> IF a.kind = "object" /\ b.kind = "object" THEN "No" ELSE "May"
    [] OTHER -> IF a.offset = {} \/ b.offset = {} THEN "May"
                ELSE IF a.offset = b.offset THEN "Must" ELSE "No"

(* Summaries of functions.  An effect is a location and "Mod" or "Ref".    *)

Both == {"Mod", "Ref"}
Actual(f, name, call, formal) == Location(f, name, call.args[formal[2] - FirstLocal + 1])
\* Where the callee's effect lands: only a formal itself becomes the actual.
AtCall(f, name, call, loc) ==
  IF loc.kind = "argument" /\ loc.ptr = loc.base THEN Actual(f, name, call, loc.base) ELSE loc

\* What instruction i of function name does to which location.
EffectsOf(summaries, f, name, i) ==
  CASE i.op = "Load" -> {<<Location(f, name, i.args[1]), "Ref">>}
    [] i.op = "Store" -> {<<Location(f, name, i.args[2]), "Mod">>}
    [] i.op = "Call" /\ i.name \in DOMAIN summaries ->
         {<<AtCall(f, name, i, e[1]), e[2]>> : e \in summaries[i.name].effects}
    [] OTHER -> {}

\* computeFunctionSummary
Summary(summaries, f, name) ==
  LET insts == {f.inst[v] : v \in Placed(f)}
      calls == {i \in insts : i.op = "Call"}
      external == \E i \in calls : i.name \notin DOMAIN summaries
      callees == {summaries[i.name] : i \in {i \in calls : i.name \in DOMAIN summaries}}
      effects == UNION {EffectsOf(summaries, f, name, i) : i \in insts}
  IN  [overall |-> {e[2] : e \in effects} \cup UNION {c.overall : c \in callees}
                     \cup (IF external THEN Both ELSE {}),
       effects |-> {e \in effects : e[1].kind # "unknown"},
       unknown |-> external \/ (\E e \in effects : e[1].kind = "unknown") \/ \E c \in callees : c.unknown]

RECURSIVE Stabilise(_, _)
Stabilise(m, summaries) ==
  LET next == Table([name \in DOMAIN m.fns |-> Summary(summaries, m.fns[name], name)]) IN
    IF next = summaries THEN summaries ELSE Stabilise(m, next)
\* analyze: until the summaries are stable.
Summaries(m) ==
  Stabilise(m, [name \in DOMAIN m.fns |-> [overall |-> {}, effects |-> {}, unknown |-> FALSE]])

IsPure(summaries, name) == name \in DOMAIN summaries /\ summaries[name].overall = {}
IsReadOnly(summaries, name) == name \in DOMAIN summaries /\ summaries[name].overall = {"Ref"}

\* getCallModRef: the offset of an effect on a formal is dropped.
CallModRef(summaries, f, name, call, query) ==
  LET effects == summaries[call.name].effects
      Formal(e) == e[1].kind = "argument"
      Target(e) == IF Formal(e) THEN Actual(f, name, call, e[1].base) ELSE e[1]
      hits == {e[2] : e \in {e \in effects : Alias(Target(e), query) # "No"}}
  IN  IF call.name \notin DOMAIN summaries THEN Both
      ELSE IF IsPure(summaries, call.name) THEN {}
      ELSE IF \E e \in effects : Formal(e) /\ e[1].base[1] # call.name THEN Both
      ELSE IF hits = {} /\ summaries[call.name].unknown THEN Both ELSE hits

\* getModRefInfo: what instruction i of function name does to the location query.
ModRef(summaries, f, name, i, query) ==
  LET Meets(p) == Alias(Location(f, name, p), query) # "No" IN
    CASE i.op = "Load" -> IF Meets(i.args[1]) THEN {"Ref"} ELSE {}
      [] i.op = "Store" -> IF Meets(i.args[2]) THEN {"Mod"} ELSE {}
      [] i.op = "Call" -> CallModRef(summaries, f, name, i, query)
      [] OTHER -> {}
=============================================================================
