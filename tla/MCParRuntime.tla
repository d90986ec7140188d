---------------------------- MODULE MCParRuntime ----------------------------
(***************************************************************************)
(* Small instances of ParRuntime.  Ints have three bits, so that job_seq   *)
(* wraps around after eight jobs and the run needs no bound on the number  *)
(* of calls; the ranges include empty, one-iteration and wrapping ones.    *)
(***************************************************************************)
EXTENDS ParRuntime

\* 0 and 1 iterations (serial), 2, 3 and 5 (split evenly and unevenly), and
\* <<-4, 3>>, whose length 7 wraps to -1 and is run serially.
MCRanges == {<<2, 0>>, <<1, 2>>, <<0, 2>>, <<-1, 2>>, <<-4, 1>>, <<-4, 3>>}

\* With four processors both threads are pinned, with three only main is.
TwoMasks == {{1, 2, 3}, {0, 1, 2, 3}}
=============================================================================
