----------------------------- MODULE TypeRanges -----------------------------
(***************************************************************************)
(* The widths and the numeric ranges of the types SymBitVec<W, IsSigned>   *)
(* and BitVec<W, IsSigned>.  SymUInt<W> and UInt<W> hold 0 .. 2^W-1,       *)
(* SymSInt<W> and SInt<W> hold -2^(W-1) .. 2^(W-1)-1.                      *)
(***************************************************************************)
EXTENDS Integers

CONSTANTS
    MaxWidth,  \* the widest bit-vector considered; a width is a size_t in the code
    Pow2       \* Pow2[n] is 2 to the power n, for n in 0 .. MaxWidth

\* Pow2 is the powers of two: it starts at 1, and each doubles the one before.
ASSUME Pow2Assumption ==
    /\ MaxWidth \in Nat \ {0}
    /\ Pow2 = [n \in 0 .. MaxWidth |-> IF n = 0 THEN 1 ELSE 2 * Pow2[n - 1]]

Widths == 1 .. MaxWidth

\* The numbers a type of width w and signedness s can hold.
ValueSet(w, s) ==
    IF s THEN -Pow2[w - 1] .. (Pow2[w - 1] - 1) ELSE 0 .. (Pow2[w] - 1)

(***************************************************************************)
(* x divided by 2^n, rounded towards minus infinity, for a number of       *)
(* at most MaxWidth bits and an amount of any size.                        *)
(***************************************************************************)
FloorShift(x, n) ==
    IF n >= MaxWidth THEN IF x < 0 THEN -1 ELSE 0 ELSE x \div Pow2[n]
=============================================================================
