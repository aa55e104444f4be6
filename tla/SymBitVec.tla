----------------------------- MODULE SymBitVec -----------------------------
(***************************************************************************)
(* The value operations of z3wire/sym_bit_vec.h: what each function of the *)
(* API builds from the expressions of its operands.                        *)
(*                                                                         *)
(* A SymBitVec<W, IsSigned> is a term [w, s, p]: its width, its signedness *)
(* and the pattern its expression has under one assignment of the symbolic *)
(* constants.  The assignment is arbitrary and the same for a whole run of *)
(* the client program, so that an equation that holds of the patterns of   *)
(* every run is one the solver can prove.                                  *)
(***************************************************************************)
EXTENDS Words

Types == [w : Widths, s : BOOLEAN]

Term(w, s, p) == [w |-> w, s |-> s, p |-> p]

Terms == {t \in [w : Widths, s : BOOLEAN, p : Nat] : t.p \in Patterns(t.w)}

\* The number a term stands for.
Num(t) == Decode(t.w, t.s, t.p)

SameType(a, b) == a.w = b.w /\ a.s = b.s

Wider(m, n) == IF m >= n THEN m ELSE n

(***************************************************************************)
(* to_symbolic for a value of at most 64 bits: ctx.bv_val keeps the low    *)
(* W bits of the native integer, which is negative for a negative SInt.    *)
(***************************************************************************)
ToSymbolic(c) == Term(c.w, c.s, Wrap(c.w, c.x))

\* internal::extend: by the operand's own signedness.
Extend(t, wide) ==
    IF wide = t.w THEN t.p ELSE IF t.s THEN Sext(t.w, wide, t.p) ELSE Zext(t.p)

-----------------------------------------------------------------------------
(* Seeded faults.  Each is a slip that could be made in the definition it   *)
(* is named after; put in that definition's place, it must make TLC refute *)
(* the property it is listed with in PROJECT.json.                         *)

\* A mixed sum gets no extra bit for the sign of the unsigned operand.
ArithResultWidth_NoSignBit(a, b) == Wider(a.w, b.w) + 1

\* A mixed sum always gets two extra bits.
ArithResultWidth_TwoBits(a, b) ==
    IF a.s = b.s THEN Wider(a.w, b.w) + 1 ELSE Wider(a.w, b.w) + 2

\* The operand is extended but the result keeps the operand's type.
Negated_SameWidth(a) == Term(a.w, TRUE, BvNeg(a.w + 1, Extend(a, a.w + 1)))

\* math_ comparisons of mixed operands forget the extra bit.
CommonWidth_NoSignBit(a, b) == Wider(a.w, b.w)

\* The extension follows the target's signedness.
UnsafeCast_ByTarget(t, w, s) ==
    Term(w, s, IF w = t.w THEN t.p
               ELSE IF w < t.w THEN Truncate(w, t.p)
               ELSE IF s THEN Sext(t.w, w, t.p) ELSE Zext(t.p))

\* Unsigned to signed of the same width is let through.
SafeCastCompiles_SameWidth(t, w, s) == (t.s => s) /\ w >= t.w

\* A signed value is widened with zeros before an arithmetic shift.
ShrBy_ZeroFill(t, amount) ==
    LET w       == Wider(t.w, amount.w)
        shifted == IF t.s THEN Ashr(w, Zext(t.p), Zext(amount.p))
                          ELSE Lshr(w, Zext(t.p), Zext(amount.p))
    IN  Term(t.w, t.s, IF w > t.w THEN Truncate(t.w, shifted) ELSE shifted)

-----------------------------------------------------------------------------
(* Bit-growth arithmetic *)

ArithResultWidth(a, b) ==
    IF a.s = b.s THEN Wider(a.w, b.w) + 1
    ELSE LET unsigned == IF a.s THEN b.w ELSE a.w
             signed   == IF a.s THEN a.w ELSE b.w
         IN IF unsigned >= signed THEN unsigned + 2 ELSE signed + 1

Plus(a, b) ==
    LET w == ArithResultWidth(a, b)
    IN  Term(w, a.s \/ b.s, BvAdd(w, Extend(a, w), Extend(b, w)))

Minus(a, b) ==
    LET w == ArithResultWidth(a, b)
    IN  Term(w, TRUE, BvSub(w, Extend(a, w), Extend(b, w)))

Times(a, b) ==
    LET w == a.w + b.w
    IN  Term(w, a.s \/ b.s, BvMul(w, Extend(a, w), Extend(b, w)))

Negated(a) == Term(a.w + 1, TRUE, BvNeg(a.w + 1, Extend(a, a.w + 1)))

-----------------------------------------------------------------------------
(* Comparisons.  Eq and Lt are the strict operators == and <, on operands  *)
(* of one type; !=, <=, > and >= are derived from them as in the code.     *)

Eq(a, b) == a.p = b.p
Lt(a, b) == IF a.s THEN Slt(a.w, a.p, b.p) ELSE Ult(a.p, b.p)

CommonWidth(a, b) ==
    IF a.s = b.s THEN Wider(a.w, b.w) ELSE Wider(a.w, b.w) + 1

MathEq(a, b) ==
    LET w == CommonWidth(a, b) IN Extend(a, w) = Extend(b, w)

MathLt(a, b) ==
    LET w == CommonWidth(a, b)
    IN  IF a.s \/ b.s THEN Slt(w, Extend(a, w), Extend(b, w))
                      ELSE Ult(Extend(a, w), Extend(b, w))

-----------------------------------------------------------------------------
(* Casts to a type of width w and signedness s *)

UnsafeCast(t, w, s) ==
    Term(w, s, IF w = t.w THEN t.p
               ELSE IF w < t.w THEN Truncate(w, t.p)
               ELSE IF t.s THEN Sext(t.w, w, t.p) ELSE Zext(t.p))

\* The static_asserts of safe_cast.
SafeCastCompiles(t, w, s) ==
    /\ t.s => s
    /\ IF ~t.s /\ s THEN w > t.w ELSE w >= t.w

\* The second component of checked_cast.
ValuePreserved(t, w, s) == Eq(UnsafeCast(UnsafeCast(t, w, s), t.w, t.s), t)

AsUint1(b) == Term(1, FALSE, IF b THEN 1 ELSE 0)
AsBool(t)  == t.p = 1

-----------------------------------------------------------------------------
(* Shifts *)

\* shl<N>(val)
ShlConst(t, n) ==
    LET widened == UnsafeCast(t, t.w + n, FALSE)
    IN  Term(t.w + n, FALSE, Shl(t.w + n, widened.p, n))

\* The result width of shl(val, amount), for an amount of width k.
ShlWidth(t, k) == t.w + (Pow2[k] - 1)

\* shl(val, amount)
ShlBy(t, amount) ==
    LET w == ShlWidth(t, amount.w)
    IN  Term(w, FALSE, Shl(w, UnsafeCast(t, w, FALSE).p,
                              UnsafeCast(amount, w, FALSE).p))

\* shr<N>(val): Literal<N> of the value's own width must exist.
ShrConstCompiles(t, n) == n < Pow2[t.w]
ShrConst(t, n) ==
    Term(t.w, t.s, IF t.s THEN Ashr(t.w, t.p, n) ELSE Lshr(t.w, t.p, n))

\* shr(val, amount): both are brought to the wider of the two widths.
ShrBy(t, amount) ==
    LET w       == Wider(t.w, amount.w)
        wideVal == IF t.s /\ w > t.w THEN Sext(t.w, w, t.p) ELSE Zext(t.p)
        shifted == IF t.s THEN Ashr(w, wideVal, Zext(amount.p))
                          ELSE Lshr(w, wideVal, Zext(amount.p))
    IN  Term(t.w, t.s, IF w > t.w THEN Truncate(t.w, shifted) ELSE shifted)
=============================================================================
