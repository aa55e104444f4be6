-------------------------- MODULE MCSolverSession --------------------------
(***************************************************************************)
(* Small instances of SolverSession for TLC.                               *)
(***************************************************************************)
EXTENDS SolverSessionProps

PowersOfTwo == [n \in 0 .. MaxWidth |-> 2 ^ n]

\* One name at two widths, another name, and a Boolean.
MixedSymbols ==
    {[name |-> "x", w |-> 2], [name |-> "x", w |-> 1],
     [name |-> "y", w |-> 1], [name |-> "p", w |-> 0]}

SomeConcretes == {[w |-> 2, s |-> TRUE, x |-> -2]}

SomeTypes == {[w |-> 1, s |-> TRUE], [w |-> 2, s |-> FALSE]}
=============================================================================
