-------------------------------- MODULE Bits --------------------------------
(***************************************************************************)
(* Bit-vectors as bits.  A word of width w is the set of the positions, in *)
(* 0 .. w-1, of the bits that are 1; position 0 is the least significant.  *)
(* The operators are those of Z3's bit-vector theory that                  *)
(* z3wire/sym_bit_vec.h calls to move bits around.  Z3 is not part of this *)
(* repository: this module is what the headers rely on it to compute.      *)
(***************************************************************************)
EXTENDS Integers

CONSTANTS
    MaxWidth,  \* the widest bit-vector considered; a width is a size_t in the code
    Number     \* Number[b] is the unsigned number whose 1 bits are at the positions b

Widths == 1 .. MaxWidth

Positions(w) == 0 .. (w - 1)

Words(w) == SUBSET Positions(w)

\* What the bit at position i counts for, 2 to the power i.
Weight(i) == Number[{i}]

\* Each bit adds its weight to the number, which is twice that of the bit below.
ASSUME NumberAssumption ==
    /\ MaxWidth \in Nat \ {0}
    /\ Number \in [Words(MaxWidth) -> Nat]
    /\ Number[{}] = 0
    /\ \A b \in Words(MaxWidth), i \in Positions(MaxWidth) :
          i \notin b => Number[b \cup {i}] = Number[b] + Weight(i)
    /\ \A i \in Positions(MaxWidth) :
          Weight(i) = IF i = 0 THEN 1 ELSE 2 * Weight(i - 1)

-----------------------------------------------------------------------------
\* bvnot, and the exclusive or of two words; bvand and bvor are \cap and \cup.
Complement(w, b) == Positions(w) \ b
Differ(b, c)     == (b \ c) \cup (c \ b)

\* z3::shl by the number n.
ShiftUp(w, b, n) == {i + n : i \in b} \cap Positions(w)

\* expr.extract(hi, lo)
Slice(b, hi, lo) == {i - lo : i \in b \cap (lo .. hi)}

\* z3::concat, for a low part of width w.
Join(high, w, low) == {i + w : i \in high} \cup low

\* Rotations, by a constant or by a word: the amount counts modulo the width.
RotateLeft(w, b, n)  == {(i + n) % w : i \in b}
RotateRight(w, b, n) == {(i - n) % w : i \in b}
=============================================================================
