------------------------------- MODULE Mem2Reg -------------------------------
(***************************************************************************)
(* mem2reg.cpp: local arrays used at constant indices are split into       *)
(* variables, and variables whose address is not taken become values:      *)
(* by three shortcuts, or by PHIs on the iterated dominance frontier and   *)
(* renaming along the dominator tree.                                      *)
(*                                                                         *)
(* A state of the pass: the function f, the instructions dead that will    *)
(* be deleted at the end, the alloca an inserted PHI stands for (owner).   *)
(***************************************************************************)
EXTENDS ScalarAnalysis

LoadsOf(f, a) == SelectSeq(InOrder(f), LAMBDA v : Is(f, v, "Load") /\ Arg(f, v, 1) = a)
StoresOf(f, a) == SelectSeq(InOrder(f), LAMBDA v : Is(f, v, "Store") /\ Arg(f, v, 2) = a)

(* runScalarReplacement.                                                   *)

IsSplittable(f, a) ==
  /\ f.inst[a].op = "Alloca" /\ f.inst[a].size > 1
  /\ \A g \in Users(f, a) :
       /\ Is(f, g, "GEP") /\ IsConst(Arg(f, g, 2))
       /\ \A u \in Users(f, g) : f.inst[u].op \in {"Load", "Store"}

\* rewriteAlloca: a variable for every index.
SplitArray(s, a) ==
  LET geps == Users(s.f, a)
      indices == SetToSeq({Arg(s.f, g, 2) : g \in geps})
      slot == [g \in geps |-> s.f.next - 1 + CHOOSE k \in DOMAIN indices : indices[k] = Arg(s.f, g, 2)]
      entry == s.f.body[s.f.blocks[1]]
  IN  [s EXCEPT !.f = ReplaceUses(InsertBefore(@, entry[1], [k \in DOMAIN indices |-> Alloca(1)]), slot),
                !.dead = @ \cup geps \cup {a}]
ScalarReplacement(s) ==
  FoldLeft(SplitArray, s, SelectSeq(InOrder(s.f), LAMBDA a : IsSplittable(s.f, a)))

(* The shortcuts.                                                          *)

IsPromotable(f, a) ==
  /\ f.inst[a].op = "Alloca"
  /\ \A use \in Uses(f, a) :
       \/ f.inst[use[1]].op = "Load"
       \/ f.inst[use[1]].op = "Store" /\ use[2] = 2

\* The load takes value x and is to be deleted.
Forward(s, load, x) == [s EXCEPT !.f = ReplaceUse(@, load, x), !.dead = @ \cup {load}]
Finished(s, a) == [s EXCEPT !.dead = @ \cup {a} \cup ToSet(StoresOf(s.f, a)), !.done = TRUE]

\* rewriteSingleStoreAlloca: the loads in order, up to one that may come before the store.
SingleStore(s, dt, a) ==
  LET stores == StoresOf(s.f, a)
      One(t, load) ==
        IF t.done \/ ~DominatesInst(s.f, dt, stores[1], load) THEN [t EXCEPT !.done = TRUE]
        ELSE Forward(t, load, Arg(t.f, stores[1], 1))
      all == FoldLeft(One, s, LoadsOf(s.f, a))
  IN  IF Len(stores) # 1 THEN s
      ELSE IF all.done THEN [all EXCEPT !.done = FALSE] ELSE Finished(all, a)

\* promoteSingleBlockAlloca: all uses in one block, the first one a store.
SingleBlock(s, a) ==
  LET uses == SelectSeq(InOrder(s.f), LAMBDA v : v \in Users(s.f, a))
      One(t, v) ==
        IF Is(s.f, v, "Store") THEN [t EXCEPT !.last = v]
        ELSE [Forward(t, v, Arg(t.f, t.last, 1)) EXCEPT !.last = t.last]
      all == FoldLeft(One, s, uses)
  IN  IF Cardinality({BlockOf(s.f, v) : v \in ToSet(uses)}) # 1 \/ ~Is(s.f, uses[1], "Store") THEN s
      ELSE Finished(all, a)

\* tryPromoteTrivialAlloca
Shortcut(s, dt, a) ==
  IF LoadsOf(s.f, a) = <<>> THEN Finished(s, a)
  ELSE LET t == SingleStore(s, dt, a) IN IF t.done THEN t ELSE SingleBlock(t, a)

(* placePhiNodes.                                                          *)

\* Blocks where the variable is read before it is written, and what leads to them.
LiveIn(f, a) ==
  LET uses == SelectSeq(InOrder(f), LAMBDA v : v \in Users(f, a))
      Of(b) == SelectSeq(uses, LAMBDA v : BlockOf(f, v) = b)
      stores == {BlockOf(f, v) : v \in ToSet(StoresOf(f, a))}
      reads == {b \in BlockSet(f) : Of(b) # <<>> /\ Is(f, Of(b)[1], "Load")}
  IN  Reaching(Table([b \in DOMAIN f.pre |-> SelectSeq(f.pre[b], LAMBDA p : p \notin stores)]), reads)

PhiBlocks(f, dt, a) ==
  LET frontier == Table([b \in BlockSet(f) |-> SetToSeq(Frontier(f, dt, b))])
  IN  Closure(frontier, {BlockOf(f, v) : v \in ToSet(StoresOf(f, a))}, {}) \cap LiveIn(f, a)

PlacePhis(s, dt, a) ==
  FoldSet(LAMBDA b, t :
            [t EXCEPT !.f = InsertBefore(@, @.body[b][1], <<Phi(Integer, <<>>, <<>>)>>),
                      !.owner = (t.f.next :> a) @@ @],
          s, PhiBlocks(s.f, dt, a))

(* renamePromotedAllocas: top is the value of every variable here.         *)

RenameInst(s, v) ==
  LET i == s.f.inst[v] IN
    CASE v \in s.dead -> s
      [] IsPhi(i) /\ v \in DOMAIN s.owner -> [s EXCEPT !.top[s.owner[v]] = v]
      [] i.op = "Load" /\ i.args[1] \in DOMAIN s.top -> Forward(s, v, s.top[i.args[1]])
      [] i.op = "Store" /\ i.args[2] \in DOMAIN s.top ->
           [s EXCEPT !.top[i.args[2]] = i.args[1], !.dead = @ \cup {v}]
      [] OTHER -> s

FillPhis(s, b) ==
  LET into == {p \in DOMAIN s.owner : BlockOf(s.f, p) \in ToSet(s.f.succ[b])} IN
    [s EXCEPT !.f.inst = [p \in DOMAIN @ |->
       IF p \in into THEN [@[p] EXCEPT !.args = Append(@, s.top[s.owner[p]]), !.to = Append(@, b)]
       ELSE @[p]]]

RECURSIVE RenameBlock(_, _, _)
RenameBelow(here, dt, b) ==
  FoldLeft(LAMBDA t, c : RenameBlock([t EXCEPT !.top = here.top], dt, c), here, Children(dt, b))
RenameBlock(s, dt, b) ==
  [RenameBelow(FillPhis(FoldLeft(RenameInst, s, s.f.body[b]), b), dt, b) EXCEPT !.top = s.top]

(* The pass.                                                               *)

Place(s, dt, a) == IF s.done THEN s ELSE [PlacePhis(s, dt, a) EXCEPT !.top = (a :> 0) @@ @]
Promote(s, dt, a) == Place(Shortcut([s EXCEPT !.done = FALSE], dt, a), dt, a)
PromoteAll(s, dt) ==
  FoldLeft(LAMBDA t, a : Promote(t, dt, a), s, SelectSeq(InOrder(s.f), LAMBDA a : IsPromotable(s.f, a)))
Rename(s, dt) == IF s.top = <<>> THEN s ELSE RenameBlock(s, dt, s.f.blocks[1])
Cleaned(s) == Delete(s.f, s.dead \cup DOMAIN s.top)

Mem2RegOn(f) ==
  LET start == [f |-> f, dead |-> {}, owner |-> <<>>, top |-> <<>>, done |-> FALSE, last |-> NoBlock]
      dt == DominatorTree(f)
  IN  IF f.pre[f.blocks[1]] # <<>> THEN f ELSE Cleaned(Rename(PromoteAll(ScalarReplacement(start), dt), dt))
=============================================================================
