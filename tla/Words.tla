------------------------------- MODULE Words -------------------------------
(***************************************************************************)
(* Two's complement words and the operators of Z3's bit-vector theory that *)
(* z3wire/sym_bit_vec.h calls.  A word of width w is the natural number    *)
(* whose binary digits are its bits.  Z3 is not part of this repository:   *)
(* this module is what the headers rely on it to compute.                  *)
(***************************************************************************)
EXTENDS TypeRanges

\* The bit patterns of width w.
Patterns(w) == 0 .. (Pow2[w] - 1)

\* The low w bits of an integer.
Wrap(w, x) == x % Pow2[w]

\* The number a pattern p of width w stands for.
Decode(w, s, p) == IF s /\ p >= Pow2[w - 1] THEN p - Pow2[w] ELSE p

-----------------------------------------------------------------------------
\* z3::zext: zeros in the new positions.
Zext(p) == p

\* z3::sext: copies of the sign bit in the positions w .. wide-1.
Sext(w, wide, p) ==
    IF p >= Pow2[w - 1] THEN p + (Pow2[wide] - Pow2[w]) ELSE p

\* bvadd, bvsub, bvmul and bvneg on words of width w.
BvAdd(w, p, q) == Wrap(w, p + q)
BvSub(w, p, q) == Wrap(w, p - q)
BvMul(w, p, q) == Wrap(w, p * q)
BvNeg(w, p)    == Wrap(w, -p)

\* The low w bits of p: expr.extract(w - 1, 0).
Truncate(w, p) == Wrap(w, p)

\* z3::ult and z3::slt.
Ult(p, q)    == p < q
Slt(w, p, q) == Decode(w, TRUE, p) < Decode(w, TRUE, q)

(***************************************************************************)
(* z3::shl, z3::lshr and z3::ashr.  The amount n is a word: an amount of   *)
(* the width or more shifts every bit out.                                 *)
(***************************************************************************)
Shl(w, p, n)  == IF n >= w THEN 0 ELSE Wrap(w, p * Pow2[n])
Lshr(w, p, n) == IF n >= w THEN 0 ELSE p \div Pow2[n]
Ashr(w, p, n) ==
    IF n >= w
      THEN IF p >= Pow2[w - 1] THEN Pow2[w] - 1 ELSE 0
      ELSE Wrap(w, Decode(w, TRUE, p) \div Pow2[n])
=============================================================================
