---------------------------- MODULE MCParOutline ----------------------------
(***************************************************************************)
(* Loops and ranges for the runs of ParOutline.                            *)
(***************************************************************************)
EXTENDS ParOutline

Loop(exiting, lhs, effect, kind) ==
  [exiting |-> exiting, lhs |-> lhs, effect |-> effect, kind |-> kind, sub |-> FALSE]

\* while (i < n) { effect; i = i + 1; }
While == {Loop("header", "phi", "after", k) : k \in {"store", "sum"}}

\* do { effect; i = i + 1; } while (i < n), latch and header apart
DoWhile == {Loop("latch", "next", "before", k) : k \in {"store", "sum"}}

\* do { effect; } while (i++ < n), latch and header apart: a reduction
InclusiveSum == {Loop("latch", "phi", "before", "sum")}

\* the same in one block, which is what LoopRotate makes of a while loop that does
\* not start at a constant zero
OneBlockStore == {Loop("both", "next", "before", "store")}
OneBlockSum == {Loop("both", "next", "before", "sum")}

\* sums and differences modulo a constant, in the first and the third shape
Modulo ==
  {[l EXCEPT !.kind = kind, !.sub = sub] : l \in {Loop("header", "phi", "after", "sum")} \cup InclusiveSum,
                                          kind \in {"inline", "liveout"}, sub \in BOOLEAN}
WhileModulo == {Loop("header", "phi", "after", "inline")}

SoundCases == While \cup DoWhile \cup InclusiveSum \cup OneBlockStore \cup Modulo

\* while (1) { A[i] = ...; if (i < n) { i = i + 1; continue; } break; }
InclusiveStore == {Loop("header", "phi", "before", "store")}

WhileSum == {Loop("header", "phi", "after", "sum")}

\* Empty, one, two, three and nine iterations, the whole width (whose length
\* wraps, so that it is not split), and an end below the start.
NearRanges == {<<2, 0>>, <<1, 2>>, <<0, 2>>, <<-1, 2>>, <<-8, 1>>, <<-8, 7>>,
               <<7, 6>>, <<-7, -5>>}

\* Up to four iterations, two in each part.
ShortRanges == {<<2, 0>>, <<0, 2>>, <<-1, 2>>, <<-2, 2>>}

MCRanges == [l \in SoundCases |-> IF l \in Modulo THEN ShortRanges ELSE NearRanges]
OneBlockRanges == [l \in OneBlockSum |-> ShortRanges]
ModuloRanges == [l \in WhileModulo |-> ShortRanges]

\* The cases of the passing run are such as the theorems of ParOutlineProofs
\* suppose.
ASSUME SoundAssumption ==
  /\ \A l \in SoundCases : SplitsWell(l)
  /\ \A r \in NearRanges \cup ShortRanges : r[2] - r[1] >= IntMin

\* hi - lo is below IntMin and wraps to 2.
FarRanges == {<<7, -7>>}

\* A remainder of 5 and a term never exceed an int, two remainders do.
OneSignTerms == {0, 1, 3}
TwoSignTerms == {-3, 0, 3}
=============================================================================
