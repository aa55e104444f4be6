------------------------------ MODULE Midpoint ------------------------------
(***************************************************************************)
(* The two claims that examples/midpoint_overflow.cc asks a solver to      *)
(* refute: that the midpoint (a + b) >> 1 computed in W bits (32 in the    *)
(* code) is right, and that the bit-hack is.                               *)
(***************************************************************************)
EXTENDS Gates, FiniteSetsExt

CONSTANT W  \* the width of the two ends of the interval: 32

ASSUME MidpointAssumption == W \in Nat \ {0, 1} /\ W < MaxWidth

Claims == <<"buggy", "hack">>
Pairs  == Patterns(W) \X Patterns(W)

-----------------------------------------------------------------------------
(* The terms of the two claims.  a and b have type SymUInt<W>. *)

One == ToSymbolic([w |-> W, s |-> FALSE, x |-> 1])

\* a & b and a ^ b: the words whose bits are those of the gates.
BitwiseAnd(a, b) ==
    Term(W, FALSE, CHOOSE p \in Patterns(W) :
                       \A i \in 0 .. W - 1 : Bit(i, p) = And(Bit(i, a.p), Bit(i, b.p)))
BitwiseXor(a, b) ==
    Term(W, FALSE, CHOOSE p \in Patterns(W) :
                       \A i \in 0 .. W - 1 : Bit(i, p) = Xor(Bit(i, a.p), Bit(i, b.p)))

-----------------------------------------------------------------------------
(* Seeded faults.  Each is a slip that could be made in the definition it   *)
(* is named after; put in that definition's place, it must make TLC refute *)
(* the property it is listed with in PROJECT.json.                         *)

\* The exact sum is not halved.
Correct_NotHalved(a, b) == Plus(a, b)

\* The bit-hack adds the half of what is common, and all that differs.
Hack_HalvesOther(a, b) ==
    UnsafeCast(Plus(ShrBy(BitwiseAnd(a, b), One), BitwiseXor(a, b)), W, FALSE)

-----------------------------------------------------------------------------
Buggy(a, b) == ShrBy(UnsafeCast(Plus(a, b), W, FALSE), One)

Hack(a, b) == UnsafeCast(Plus(BitwiseAnd(a, b), ShrBy(BitwiseXor(a, b), One)), W, FALSE)

Correct(a, b) == ShrBy(Plus(a, b), One)

\* math_ne(buggy, correct) and math_ne(hack, correct): where they hold
BuggyDiffers == {pair \in Pairs : LET a == Term(W, FALSE, pair[1])
                                      b == Term(W, FALSE, pair[2])
                                  IN  ~MathEq(Buggy(a, b), Correct(a, b))}
HackDiffers == {pair \in Pairs : LET a == Term(W, FALSE, pair[1])
                                     b == Term(W, FALSE, pair[2])
                                 IN  ~MathEq(Hack(a, b), Correct(a, b))}

\* A claim that the solver holds, at a pair of ends.
ClaimHolds(c, pair) == pair \in IF c = "buggy" THEN BuggyDiffers ELSE HackDiffers
=============================================================================
