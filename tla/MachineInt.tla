----------------------------- MODULE MachineInt -----------------------------
(***************************************************************************)
(* The 32-bit two's complement ints of SysY, of the IR (IntegerType of 32  *)
(* bits) and of the generated code, scaled down by IntMax for TLC.         *)
(***************************************************************************)
EXTENDS Integers

CONSTANT IntMax   \* the largest int: 2^31 - 1, a small number in TLC's runs

ASSUME IntMaxAssumption == IntMax \in Nat

IntMin == -IntMax - 1
Int32 == IntMin .. IntMax

\* The result of one addition or subtraction of two ints.
Wrap(x) == IF x > IntMax THEN x - 2 * (IntMax + 1)
           ELSE IF x < IntMin THEN x + 2 * (IntMax + 1) ELSE x

Inc_unbounded(n) == n + 1
Inc(n) == Wrap(n + 1)

\* srem by a positive constant: the remainder has the dividend's sign.
SRem(a, m) == IF a >= 0 THEN a % m ELSE -((-a) % m)

-----------------------------------------------------------------------------
(* How __sysy_parallel_for splits a range.                                 *)

\* Lines 138-140: ranges of at most one iteration are not split.
Splits(lo, hi) == Wrap(hi - lo) > 1

\* Line 149: lo + (n asr 1).
Mid(lo, hi) == Wrap(lo + Wrap(hi - lo) \div 2)
=============================================================================
