---------------------------- MODULE MCBitProgram ----------------------------
(***************************************************************************)
(* A small instance of BitProgram for TLC.                                 *)
(***************************************************************************)
EXTENDS BitProgramProps, FiniteSetsExt

\* The number whose 1 bits are at the positions b.
NumberOf ==
    [b \in SUBSET (0 .. MaxWidth - 1) |-> MapThenSumSet(LAMBDA i : 2 ^ i, b)]

\* Unsigned and signed, up to three bits: not a power of two.
SmallTypes ==
    {[w |-> 1, s |-> FALSE], [w |-> 2, s |-> FALSE], [w |-> 3, s |-> TRUE]}

\* The amounts 2 in two bits, and 4 and 8 in four, wider than the variables.
SomeAmounts == {Vec(2, FALSE, {1}), Vec(4, FALSE, {2}), Vec(4, FALSE, {3})}

\* The first offsets and the last size_t values.
SomeOffsets == (0 .. 2) \cup {SizeValues - 2, SizeValues - 1}
=============================================================================
