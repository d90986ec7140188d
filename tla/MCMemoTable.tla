---------------------------- MODULE MCMemoTable -----------------------------
(***************************************************************************)
(* Callers of a memoised function.                                         *)
(***************************************************************************)
EXTENDS MemoTable

I(op, block) == [op |-> op, block |-> block]

\* Admitted: all stores in blocks before those of the calls.
AdmittedPrograms == {<<I("store", 1), I("call", 2), I("call", 2), I("call", 3)>>}

\* Rejected: a store in a later block, so that f keeps its body and no table is
\* used.
RejectedPrograms ==
  {<<I("call", 1), I("store", 2), I("call", 3)>>,
   <<I("parallel", 1), I("store", 2)>>}

SoundPrograms == AdmittedPrograms \cup RejectedPrograms

\* The admitted callers are such as the theorems of MemoTableProofs suppose.
ASSUME ServedAssumption == \A p \in AdmittedPrograms : CalledByOne(p) /\ StoresPrecede(p)

\* Straight-line code in one block, and two rounds of a loop whose first block
\* stores and whose second block calls.
StoreBetweenCalls ==
  {<<I("store", 1), I("call", 1), I("store", 1), I("call", 1)>>,
   <<I("store", 1), I("call", 2), I("store", 1), I("call", 2)>>}

\* getarray(A) between two calls.
HiddenStore == {<<I("call", 1), I("hidden", 1), I("call", 1)>>}

\* A parallel loop whose body calls f.
ParallelCaller == {<<I("parallel", 1)>>}

BothLayouts == {"dense", "hash"}
Dense == {"dense"}
Hash == {"hash"}
MCArgs == {-1, 0, 1, 2, 3}
NonNegativeArgs == 0 .. 2
=============================================================================
