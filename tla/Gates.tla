------------------------------- MODULE Gates -------------------------------
(***************************************************************************)
(* The gate-level building blocks of examples/adder.cc, multiplier.cc and  *)
(* barrel_shifter.cc: functions on SymUInt<1>, whose word is 0 or 1.       *)
(***************************************************************************)
EXTENDS SymBitVec

OneBitWords == {0, 1}

\* The operators ^, &, | and ~ of two words of one bit.
Xor(x, y) == IF x = y THEN 0 ELSE 1
And(x, y) == IF x = 1 /\ y = 1 THEN 1 ELSE 0
Or(x, y)  == IF x = 1 \/ y = 1 THEN 1 ELSE 0
Not(x)    == 1 - x

-----------------------------------------------------------------------------
(* Seeded faults.  Each is a slip that could be made in the definition it   *)
(* is named after; put in that definition's place, it must make TLC refute *)
(* the property it is listed with in PROJECT.json.                         *)

\* The carry of the second half adder is dropped.
FullAdder_OneCarry(x, y, cin) ==
    LET first  == [sum |-> Xor(x, y), carry |-> And(x, y)]
        second == [sum |-> Xor(first.sum, cin), carry |-> And(first.sum, cin)]
    IN  [sum |-> second.sum, carry |-> first.carry]

\* The carry out forgets the pair of the first input and the carry in.
FullAdder_CarryFromInputs(x, y, cin) ==
    [sum |-> Xor(Xor(x, y), cin), carry |-> Or(And(x, y), And(y, cin))]

\* The two data inputs are swapped.
Mux_Swapped(sel, x, y) == Or(And(sel, y), And(Not(sel), x))

-----------------------------------------------------------------------------
\* bit<I>(val)
Bit(i, p) == (p \div Pow2[i]) % 2

HalfAdder(x, y) == [sum |-> Xor(x, y), carry |-> And(x, y)]

FullAdder(x, y, cin) ==
    LET first  == HalfAdder(x, y)
        second == HalfAdder(first.sum, cin)
    IN  [sum |-> second.sum, carry |-> Or(first.carry, second.carry)]

\* mux(sel, a, b): sel = 1 selects a.
Mux(sel, x, y) == Or(And(sel, x), And(Not(sel), y))
=============================================================================
