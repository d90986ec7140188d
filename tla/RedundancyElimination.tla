------------------------ MODULE RedundancyElimination ------------------------
(***************************************************************************)
(* earlyCSE.cpp and gvn.cpp: along the dominator tree a table remembers    *)
(* what has been computed; what is computed again takes the value that is  *)
(* there.  Loads are in it until something may write what they read.       *)
(*                                                                         *)
(* e: what stays the same during the pass (name, summaries, dt, loops).    *)
(* s: the function f, the table, its entries added and removed in the      *)
(* block at hand, the instructions dead.                                   *)
(***************************************************************************)
EXTENDS AliasAnalysis

At(e, s, ptr) == Location(s.f, e.name, ptr)
Effect(e, s, v, ptr) == ModRef(e.summaries, s.f, e.name, s.f.inst[v], At(e, s, ptr))
MayMod(e, s, v, ptr) == "Mod" \in Effect(e, s, v, ptr)

(* cse_common.hpp: signatures.  Equal constants have equal signatures.     *)

Signature(f, v) ==
  LET i == f.inst[v]
      symmetric == i.op \in Commutative \/ (i.op = "ICmp" /\ i.pred \in {"EQ", "NE"})
      args == IF symmetric /\ i.args[1] > i.args[2] THEN Reverse(i.args) ELSE i.args
  IN  <<i.op, i.ty, i.pred, i.name, args>>
LoadSignature(f, v, version) == <<"Load", f.inst[v].ty, "", "", <<Arg(f, v, 1), version>>>>
IsLoadSignature(sig) == sig[1] = "Load"
IsSafeToEliminate(i) == i.ty # Void /\ i.op \notin {"Call", "Store", "Alloca", "PHI"}

\* v has value x and is to be deleted.
Becomes(s, v, x) == [s EXCEPT !.f = ReplaceUse(@, v, x), !.dead = @ \cup {v}]
Reuse(s, v, sig) ==
  IF sig \in DOMAIN s.table THEN Becomes(s, v, s.table[sig])
  ELSE [s EXCEPT !.table = (sig :> v) @@ @, !.added = @ \cup {sig}]

\* Loads that instruction v may write to leave the table.
InvalidateLoads(e, s, v) ==
  LET hit == {sig \in DOMAIN s.table : IsLoadSignature(sig) /\ MayMod(e, s, v, sig[5][1])} IN
    [s EXCEPT !.removed = Restrict(s.table, hit) @@ @, !.table = Restrict(@, DOMAIN @ \ hit)]

\* Leaving block b, the table has again what its ancestors put there.
RestoreScope(s, below, b) ==
  LET back == Restrict(s.removed, {sig \in DOMAIN s.removed : BlockOf(s.f, s.removed[sig]) # b}) IN
    [below EXCEPT !.table = back @@ Restrict(@, DOMAIN @ \ s.added)]
Scope(s) == [s EXCEPT !.added = {}, !.removed = <<>>]

-----------------------------------------------------------------------------
(* EarlyCSE.  mods: the writes on the way from the entry, with the token    *)
(* that stands for the memory after them; local: what the block itself has  *)
(* stored, and whether that has been read.                                  *)

Sentinel == -1

\* The latest write that may touch ptr, 0 if there is none.
LatestMod(e, s, ptr) ==
  Max({0} \cup {k \in DOMAIN s.mods : MayMod(e, s, s.mods[k].inst, ptr)})
Version(e, s, ptr) == LET k == LatestMod(e, s, ptr) IN IF k = 0 THEN 0 ELSE s.mods[k].token
AddMod(s, v) == [s EXCEPT !.mods = Append(@, [inst |-> v, token |-> v])]

\* Over any edge from where the store stands.
StoredBefore_join(e, s, v, b) ==
  LET ptr == Arg(s.f, v, 1)
      k == LatestMod(e, s, ptr)
      store == s.mods[k].inst
  IN  IF /\ k # 0 /\ s.mods[k].token # Sentinel
         /\ Is(s.f, store, "Store") /\ Arg(s.f, store, 2) = ptr
         /\ BlockOf(s.f, store) \in ToSet(s.f.pre[b])
      THEN {Arg(s.f, store, 1)} ELSE {}

\* storedValueFromLatestMod: over one edge, in a set of no or one.
StoredBefore(e, s, v, b) ==
  LET ptr == Arg(s.f, v, 1)
      k == LatestMod(e, s, ptr)
      store == s.mods[k].inst
  IN  IF /\ Len(s.f.pre[b]) = 1 /\ k # 0
         /\ s.mods[k].token # Sentinel
         /\ Is(s.f, store, "Store") /\ Arg(s.f, store, 2) = ptr
         /\ BlockOf(s.f, store) = s.f.pre[b][1]
      THEN {Arg(s.f, store, 1)} ELSE {}

Meeting(e, s, ptr) == {p \in DOMAIN s.local : Alias(At(e, s, p), At(e, s, ptr)) # "No"}

CSEStore(e, s, v) ==
  LET ptr == Arg(s.f, v, 2)
      kept == IF At(e, s, ptr).kind = "object" THEN DOMAIN s.local \ Meeting(e, s, ptr) ELSE {}
      overwritten == IF ptr \in DOMAIN s.local /\ ~s.local[ptr].read THEN {s.local[ptr].store} ELSE {}
      entry == [store |-> v, value |-> Arg(s.f, v, 1), read |-> FALSE]
  IN  InvalidateLoads(e, AddMod([s EXCEPT !.dead = @ \cup overwritten,
                                          !.local = (ptr :> entry) @@ Restrict(@, kept)], v), v)

CSELoad(e, s, v, b) ==
  LET ptr == Arg(s.f, v, 1)
      meeting == Meeting(e, s, ptr)
      t == [s EXCEPT !.local = [p \in DOMAIN @ |-> IF p \in meeting THEN [@[p] EXCEPT !.read = TRUE] ELSE @[p]]]
      before == StoredBefore(e, s, v, b)
  IN  IF ptr \in DOMAIN s.local THEN Becomes(s, v, s.local[ptr].value)
      ELSE IF before # {} THEN Becomes(t, v, CHOOSE x \in before : TRUE)
      ELSE Reuse(t, v, LoadSignature(s.f, v, Version(e, s, ptr)))

CSECall(e, s, v) ==
  LET kept == {p \in DOMAIN s.local : ~MayMod(e, s, v, p)}
      left == [p \in kept |-> [s.local[p] EXCEPT !.read = @ \/ "Ref" \in Effect(e, s, v, p)]]
  IN  InvalidateLoads(e, AddMod([s EXCEPT !.local = left], v), v)

CSEInst(e, s, v, b) ==
  LET i == s.f.inst[v] IN
    CASE i.op = "Store" -> CSEStore(e, s, v)
      [] i.op = "Load" -> CSELoad(e, s, v, b)
      [] i.op = "Call" /\ ~IsPure(e.summaries, i.name) -> CSECall(e, s, v)
      [] (i.op = "Call" /\ IsPure(e.summaries, i.name)) \/ (i.op # "Load" /\ IsSafeToEliminate(i)) ->
           Reuse(s, v, Signature(s.f, v))
      [] OTHER -> s

\* analyze_loops: what is written in the loops of header b.
LoopMods(e, f, b) ==
  LET blocks == UNION {l.blocks : l \in {l \in e.loops : l.header = b}} IN
    SelectSeq(InOrder(f), LAMBDA v : f.inst[v].op \in {"Store", "Call"} /\ BlockOf(f, v) \in blocks)

EnterBlock(e, s, b) ==
  LET loads == IF Len(s.f.pre[b]) > 1 THEN {sig \in DOMAIN s.table : IsLoadSignature(sig)} ELSE {}
      written == LoopMods(e, s.f, b)
  IN  [Scope(s) EXCEPT !.table = Restrict(@, DOMAIN @ \ loads), !.local = <<>>,
                       !.mods = @ \o [k \in DOMAIN written |-> [inst |-> written[k], token |-> Sentinel]]]

RECURSIVE EarlyCSEBlock(_, _, _)
\* The blocks below b, from the state at its end.
EarlyCSEBelow(e, here, b) ==
  RestoreScope(here, FoldLeft(LAMBDA t, c : EarlyCSEBlock(e, t, c), here, Children(e.dt, b)), b)
EarlyCSEBlock(e, s, b) ==
  [EarlyCSEBelow(e, FoldLeft(LAMBDA t, v : CSEInst(e, t, v, b), EnterBlock(e, s, b), s.f.body[b]), b)
     EXCEPT !.mods = s.mods]

-----------------------------------------------------------------------------
(* GVN.  gen: the generation of memory; it grows at every join.            *)

JoinCount(f, b) ==
  Cardinality({<<p, k>> \in BlockSet(f) \X {1, 2} :
                 HasTerminator(f, p) /\ k \in DOMAIN Terminator(f, p).to /\ Terminator(f, p).to[k] = b})

\* A PHI with one value but itself, or with the values of a PHI of the block.
PhiPairs(f, v) == {<<f.inst[v].to[k], f.inst[v].args[k]>> : k \in DOMAIN f.inst[v].to}
GVNPhi(s, v, b) ==
  LET values == SelectSeq(s.f.inst[v].args, LAMBDA x : x # v)
      same == SelectSeq(SubSeq(s.f.body[b], 1, Position(s.f, v) - 1), LAMBDA p :
                /\ p \notin s.dead /\ s.f.inst[p].ty = s.f.inst[v].ty
                /\ PhiPairs(s.f, p) = PhiPairs(s.f, v))
  IN  IF Cardinality(ToSet(values)) = 1 THEN Becomes(s, v, values[1])
      ELSE IF same # <<>> THEN Becomes(s, v, same[1]) ELSE s

GVNInst(e, s, v, b) ==
  LET i == s.f.inst[v] IN
    CASE i.op = "PHI" -> GVNPhi(s, v, b)
      [] i.op = "Load" -> Reuse(s, v, LoadSignature(s.f, v, s.gen))
      [] i.op = "Store" \/ (i.op = "Call" /\ ~IsPure(e.summaries, i.name) /\ ~IsReadOnly(e.summaries, i.name)) ->
           InvalidateLoads(e, s, v)
      [] (i.op = "Call" /\ IsPure(e.summaries, i.name)) \/ (i.op \notin {"ICmp", "Load"} /\ IsSafeToEliminate(i)) ->
           Reuse(s, v, Signature(s.f, v))
      [] OTHER -> s

RECURSIVE GVNBlock(_, _, _)
\* The blocks below b, those behind a join last.
GVNBelow(e, here, b) ==
  LET Joins(c) == JoinCount(here.f, c) >= 2
      kids == Children(e.dt, b)
      order == SelectSeq(kids, LAMBDA c : ~Joins(c)) \o SelectSeq(kids, Joins)
  IN  RestoreScope(here, FoldLeft(LAMBDA t, c : GVNBlock(e, t, c), here, order), b)
GVNBlock(e, s, b) ==
  LET enter == [Scope(s) EXCEPT !.gen = IF JoinCount(s.f, b) >= 2 THEN @ + 1 ELSE @]
  IN  GVNBelow(e, FoldLeft(LAMBDA t, v : GVNInst(e, t, v, b), enter, s.f.body[b]), b)

-----------------------------------------------------------------------------
Environment(f, name, summaries) ==
  LET dt == DominatorTree(f) IN [name |-> name, summaries |-> summaries, dt |-> dt, loops |-> Loops(f, dt)]
Blank(f) ==
  [f |-> f, table |-> <<>>, added |-> {}, removed |-> <<>>, dead |-> {}, mods |-> <<>>, local |-> <<>>, gen |-> 0]
WithoutDead(s) == Delete(s.f, s.dead)
EarlyCSEOn(f, name, summaries) ==
  WithoutDead(EarlyCSEBlock(Environment(f, name, summaries), Blank(f), f.blocks[1]))
GVNOn(f, name, summaries) ==
  WithoutDead(GVNBlock(Environment(f, name, summaries), Blank(f), f.blocks[1]))
=============================================================================
