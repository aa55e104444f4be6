------------------------------ MODULE SymBits ------------------------------
(***************************************************************************)
(* The operations of z3wire/sym_bit_vec.h that move bits: extract,         *)
(* replace, concat and the rotations.  A SymBitVec<W, IsSigned> is a term  *)
(* [w, s, b]: its width, its signedness and the bits its expression has    *)
(* under one assignment of the symbolic constants, arbitrary and the same  *)
(* for a whole run of the client program.                                  *)
(***************************************************************************)
EXTENDS Bits

CONSTANT SizeValues  \* how many values a size_t has

ASSUME SizeAssumption == SizeValues \in Nat /\ MaxWidth < SizeValues

Types == [w : Widths, s : BOOLEAN]

Vec(w, s, b) == [w |-> w, s |-> s, b |-> b]

Terms == {t \in [w : Widths, s : BOOLEAN, b : Words(MaxWidth)] : t.b \in Words(t.w)}

SameType(a, b) == a.w = b.w /\ a.s = b.s

Wider(m, n) == IF m >= n THEN m ELSE n

-----------------------------------------------------------------------------
(* Seeded faults.  Each is a slip that could be made in the definition it   *)
(* is named after; put in that definition's place, it must make TLC refute *)
(* the property it is listed with in PROJECT.json.                         *)

\* The sum lo + W in size_t, which wraps around.
InWindow_Wrapping(lo, w, total) == (lo + w) % SizeValues <= total

\* The high part is taken from the bottom of the source.
ReplaceAt_LowBitsOnTop(src, field, lo) ==
    LET top   == lo + field.w
        upper == IF top < src.w
                   THEN Join(Slice(src.b, src.w - 1 - top, 0), field.w, field.b)
                   ELSE field.b
    IN  Vec(src.w, src.s,
            IF lo > 0 THEN Join(upper, lo, Slice(src.b, lo - 1, 0)) ELSE upper)

\* The field is placed without clearing the bits under it.
ReplaceBy_NoMask(src, field, lo) ==
    LET w == Wider(src.w, lo.w)
    IN  Vec(src.w, src.s, Slice(src.b \cup ShiftUp(w, field.b, Number[lo.b]),
                                src.w - 1, 0))

\* The amount is the low bit alone.
RotrBy_LowBit(t, amount) ==
    Vec(t.w, t.s, RotateRight(t.w, t.b, Number[Slice(amount.b, 0, 0)]))

\* The high end of the window is one bit too high.
ExtractFrom_OneMore(src, w, lo) == Vec(w, FALSE, Slice(src.b, lo + w, lo))

-----------------------------------------------------------------------------
\* The check of the run-time offset: the difference cannot wrap around.
InWindow(lo, w, total) == lo <= total - w

\* extract<W, Lo>(val) and extract<W>(val, lo)
ExtractFrom(src, w, lo) == Vec(w, FALSE, Slice(src.b, lo + w - 1, lo))

\* replace<LO>(src, field) and replace(src, field, lo) with a size_t offset.
ReplaceAt(src, field, lo) ==
    LET top   == lo + field.w
        upper == IF top < src.w
                   THEN Join(Slice(src.b, src.w - 1, top), field.w, field.b)
                   ELSE field.b
    IN  Vec(src.w, src.s,
            IF lo > 0 THEN Join(upper, lo, Slice(src.b, lo - 1, 0)) ELSE upper)

\* replace(src, field, lo) with a symbolic offset: a shifted mask.
ReplaceBy(src, field, lo) ==
    LET w       == Wider(src.w, lo.w)
        n       == Number[lo.b]
        mask    == ShiftUp(w, Positions(field.w), n)
        shifted == ShiftUp(w, field.b, n)
        wide    == (src.b \cap Complement(w, mask)) \cup shifted
    IN  Vec(src.w, src.s, IF w > src.w THEN Slice(wide, src.w - 1, 0) ELSE wide)

\* as_uint1, which concat applies to a SymBool.
AsUint1(flag) == Vec(1, FALSE, IF flag THEN {0} ELSE {})

Concat(high, low) == Vec(high.w + low.w, FALSE, Join(high.b, low.w, low.b))

-----------------------------------------------------------------------------
\* unsafe_cast<SymUInt<W>> of an unsigned amount.
ToWidth(w, amount) == IF w < amount.w THEN Slice(amount.b, w - 1, 0) ELSE amount.b

\* rotl<N>(val) and rotr<N>(val)
RotlConst(t, n) == Vec(t.w, t.s, RotateLeft(t.w, t.b, n))
RotrConst(t, n) == Vec(t.w, t.s, RotateRight(t.w, t.b, n))

\* rotl(val, amount) and rotr(val, amount)
RotlBy(t, amount) == RotlConst(t, Number[ToWidth(t.w, amount)])
RotrBy(t, amount) == RotrConst(t, Number[ToWidth(t.w, amount)])
=============================================================================
