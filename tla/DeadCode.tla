------------------------------ MODULE DeadCode ------------------------------
(***************************************************************************)
(* deadCodeEliminate.cpp: PHIs with one value, instructions nothing that   *)
(* matters depends on, functions main does not reach, globals not named.   *)
(* deadStoreEliminate.cpp: stores that are overwritten before they are     *)
(* read, and stores that write back what was loaded from there.            *)
(* lateMemoryForwarding.cpp: within a block a load takes what was stored.  *)
(***************************************************************************)
EXTENDS AliasAnalysis

\* Ignoring itself the PHI has one value: two constants are two.
OtherValues(f, v) == SelectSeq(f.inst[v].args, LAMBDA x : x # v)
IsTrivial(f, v) ==
  LET xs == OtherValues(f, v) IN
    /\ IsPhi(f.inst[v]) /\ xs # <<>>
    /\ Cardinality(ToSet(xs)) = 1
    /\ Len(xs) = 1 \/ ~IsConst(xs[1])
RECURSIVE EliminateTrivialPhis(_)
EliminateTrivialPhis(f) ==
  LET phis == SelectSeq(InOrder(f), LAMBDA v : IsTrivial(f, v)) IN
    IF phis = <<>> THEN f
    ELSE EliminateTrivialPhis(Delete(ReplaceUse(f, phis[1], OtherValues(f, phis[1])[1]), {phis[1]}))

HasRequiredEffect(summaries, i) ==
  \/ i.op \in {"Ret", "Br", "Store"}
  \/ i.op = "Call" /\ ~IsPure(summaries, i.name)
EliminateDeadInstructions(f, summaries) ==
  LET roots == {v \in Placed(f) : HasRequiredEffect(summaries, f.inst[v])}
      operands == [v \in Placed(f) |-> SelectSeq(f.inst[v].args, LAMBDA x : x \in Placed(f))]
  IN  Delete(f, Placed(f) \ Reaching(operands, roots))

RECURSIVE EliminateDeadCode(_, _)
EliminateDeadCode(f, summaries) ==
  LET g == EliminateDeadInstructions(EliminateTrivialPhis(f), summaries) IN
    IF g = f THEN f ELSE EliminateDeadCode(g, summaries)

Callees(f) == {f.inst[v].name : v \in {v \in Placed(f) : f.inst[v].op = "Call"}}
EliminateUnreachableFunctions(m) ==
  LET calls == [name \in DOMAIN m.fns |-> SetToSeq(Callees(m.fns[name]) \cap DOMAIN m.fns)]
      live == Reaching(calls, {"main"})
  IN  [m EXCEPT !.fns = Restrict(@, live), !.order = SelectSeq(@, LAMBDA name : name \in live)]
EliminateUnusedGlobals(m) ==
  LET named == UNION {UNION {ToSet(m.fns[name].inst[v].args) : v \in Placed(m.fns[name])} : name \in DOMAIN m.fns}
  IN  [m EXCEPT !.globals = Restrict(@, DOMAIN @ \cap named)]

DeadCodeEliminate(m) ==
  LET summaries == Summaries(m)
      cleaned == [m EXCEPT !.fns = [name \in DOMAIN @ |-> EliminateDeadCode(@[name], summaries)]]
  IN  EliminateUnusedGlobals(EliminateUnreachableFunctions(cleaned))

-----------------------------------------------------------------------------
(* DeadStoreEliminate.                                                     *)

After(f, v) == SubSeq(f.body[BlockOf(f, v)], Position(f, v) + 1, Len(f.body[BlockOf(f, v)]))
PointerOf(f, store) == Arg(f, store, 2)

\* The first of the later instructions that overwrites or may read decides.
IsLocallyOverwritten(f, name, summaries, store) ==
  LET loc == Location(f, name, PointerOf(f, store))
      Overwrites(v) == Is(f, v, "Store") /\ Alias(loc, Location(f, name, PointerOf(f, v))) = "Must"
      Reads(v) == "Ref" \in ModRef(summaries, f, name, f.inst[v], loc)
      telling == SelectSeq(After(f, store), LAMBDA v : Overwrites(v) \/ Reads(v))
  IN  telling # <<>> /\ Overwrites(telling[1])

\* The store writes what a load of the same place gave.
WritesBack(f, name, store) ==
  LET load == Arg(f, store, 1) IN
    /\ Is(f, load, "Load")
    /\ Alias(Location(f, name, Arg(f, load, 1)), Location(f, name, PointerOf(f, store))) = "Must"
Modifies(f, name, summaries, v, store) ==
  "Mod" \in ModRef(summaries, f, name, f.inst[v], Location(f, name, PointerOf(f, store)))

IsLocallyRedundantWriteback(f, name, summaries, store) ==
  LET load == Arg(f, store, 1) IN
    /\ WritesBack(f, name, store) /\ BlockOf(f, load) = BlockOf(f, store)
    /\ Position(f, load) < Position(f, store)
    /\ \A k \in Position(f, load) + 1 .. Position(f, store) - 1 :
         ~Modifies(f, name, summaries, f.body[BlockOf(f, store)][k], store)

\* Of block b, what is looked at between the load and the store: what stands behind
\* the load in its block, what stands before the store in its block.
Between(f, load, store, b) ==
  SelectSeq(f.body[b], LAMBDA v :
    /\ b = BlockOf(f, load) => Position(f, v) > Position(f, load)
    /\ b = BlockOf(f, store) => Position(f, v) < Position(f, store))

IsRedundantStore(f, name, summaries, dt, store) ==
  LET load == Arg(f, store, 1)
      Allowed(v) ==
        Modifies(f, name, summaries, v, store) => Is(f, v, "Store") /\ Arg(f, v, 1) = load
  IN  /\ WritesBack(f, name, store)
      /\ Dominates(dt, BlockOf(f, load), BlockOf(f, store))
      /\ BlockOf(f, load) = BlockOf(f, store) => Position(f, load) < Position(f, store)
      /\ \A b \in Reaching(f.succ, {BlockOf(f, load)}) \cap Reaching(f.pre, {BlockOf(f, store)}) :
           \A v \in ToSet(Between(f, load, store, b)) : Allowed(v)

EliminateDeadStores(f, name, summaries, full) ==
  LET dt == DominatorTree(f)
      IsDead(v) ==
        /\ Is(f, v, "Store")
        /\ \/ IsLocallyOverwritten(f, name, summaries, v)
           \/ IsLocallyRedundantWriteback(f, name, summaries, v)
           \/ full /\ IsRedundantStore(f, name, summaries, dt, v)
  IN  Delete(f, {v \in Placed(f) : IsDead(v)})

(* LateMemoryForwarding.  available: what the pointers stored to hold.     *)

\* findMustAliasStore: the pointer itself, or one that must be the same place.
Available(f, name, s, ptr) ==
  IF ptr \in DOMAIN s.available THEN {s.available[ptr]}
  ELSE {s.available[p] : p \in {p \in DOMAIN s.available :
          Alias(Location(f, name, p), Location(f, name, ptr)) = "Must"}}

ForwardInst(s, name, summaries, v) ==
  LET i == s.f.inst[v]
      Of(ptr) == Location(s.f, name, ptr)
      untouched == {p \in DOMAIN s.available : "Mod" \notin ModRef(summaries, s.f, name, i, Of(p))}
      found == Available(s.f, name, s, i.args[1])
  IN  CASE i.op = "Load" /\ found # {} ->
             [s EXCEPT !.f = ReplaceUse(@, v, CHOOSE x \in found : TRUE), !.dead = @ \cup {v}]
        [] i.op = "Store" -> [s EXCEPT !.available = (i.args[2] :> i.args[1]) @@ Restrict(@, untouched)]
        [] i.op = "Call" -> [s EXCEPT !.available = Restrict(@, untouched)]
        [] OTHER -> s

ForwardMemory(f, name, summaries) ==
  LET Block(s, b) == FoldLeft(LAMBDA t, v : ForwardInst(t, name, summaries, v),
                              [s EXCEPT !.available = <<>>], s.f.body[b])
      end == FoldLeft(Block, [f |-> f, available |-> <<>>, dead |-> {}], f.blocks)
  IN  Delete(end.f, end.dead)
=============================================================================
