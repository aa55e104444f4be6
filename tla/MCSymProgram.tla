---------------------------- MODULE MCSymProgram ----------------------------
(***************************************************************************)
(* A small instance of SymProgram for TLC.                                 *)
(***************************************************************************)
EXTENDS SymProgramProps

CONSTANT InputWidth  \* the widest symbolic variable of the program

PowersOfTwo == [n \in 0 .. MaxWidth |-> 2 ^ n]

SmallTypes == [w : 1 .. InputWidth, s : BOOLEAN]

\* One unsigned and one negative concrete value.
SomeConcretes ==
    {[w |-> 2, s |-> FALSE, x |-> 3], [w |-> 2, s |-> TRUE, x |-> -2]}

=============================================================================
