------------------------- MODULE SolverSessionProps -------------------------
(***************************************************************************)
(* What a program may rely on when it reads a solver's model through the   *)
(* objects of z3wire.                                                      *)
(***************************************************************************)
EXTENDS SolverSession

HasModel == model # <<>>

Read(i) == ToConcrete(objs[i], model)

TypeOK ==
    /\ \A i \in DOMAIN objs :
          /\ objs[i].w \in Widths \cup {0}
          /\ objs[i].at \in [Assignments -> 0 .. Pow2[MaxWidth] - 1]
          /\ \A a \in Assignments :
                objs[i].at[a] \in IF objs[i].w = 0 THEN {0, 1} ELSE Patterns(objs[i].w)
    /\ \A c \in casts : c.src \in Vecs /\ c.narrow \in Vecs /\ c.flag \in Flags
    /\ \A c \in compared : c.flag \in Flags /\ {c.l, c.r} \subseteq Operands
    /\ frames \in Seq(SUBSET Flags) /\ frames # <<>>
    /\ answer \in {"none", "sat", "unsat"}
    /\ HasModel => model.met \subseteq Flags

(***************************************************************************)
(* A comparison that is read out of a model says how the numbers read out  *)
(* of the same model compare: of operands of any two widths and signs, or  *)
(* of an object and the concrete number it was compared with, also when    *)
(* the model leaves their variables out, or is older than the comparison   *)
(* (sym_bit_vec.h:127-154, 286-336, sym_bool.h:93).                        *)
(***************************************************************************)
Holds(op, x, y) == IF op = "math_eq" THEN x = y ELSE x < y

ReadOperand(operand) == IF IsSymbolic(operand) THEN Read(operand.i).x ELSE operand.c.x

ReadsCompare ==
    HasModel =>
        \A c \in compared :
            Read(c.flag).x = 1 <=> Holds(c.op, ReadOperand(c.l), ReadOperand(c.r))

(***************************************************************************)
(* A model made under at least the assertions of now reads every one of    *)
(* them as true, after any number of pops and new objects.  A model from   *)
(* before an assertion promises nothing about it (sym_bool.h:93).          *)
(***************************************************************************)
AssertionsReadTrue ==
    HasModel /\ Asserted \subseteq model.met => \A f \in Asserted : Read(f).x = 1

(***************************************************************************)
(* Variables are the same one exactly when their names and widths are the  *)
(* same, whatever their signedness: then they read as the same bits, and   *)
(* otherwise every pair of values is possible (sym_bit_vec.h:34).          *)
(***************************************************************************)
SameVariable(i, j) == objs[i].named = objs[j].named /\ objs[i].w = objs[j].w

NamesIdentifyVariables ==
    \A i, j \in {k \in Vecs : objs[k].named # Anonymous} :
        IF SameVariable(i, j)
          THEN HasModel => Wrap(objs[i].w, Read(i).x) = Wrap(objs[j].w, Read(j).x)
          ELSE \A p \in Patterns(objs[i].w), q \in Patterns(objs[j].w) :
                  \E a \in Assignments : objs[i].at[a] = p /\ objs[j].at[a] = q

(***************************************************************************)
(* "Assert in the solver: this cast must never lose data"                  *)
(* (examples/usage/type_conversions.cc:32): with the flag of a checked     *)
(* cast among the assertions, the value read from the narrow object is the *)
(* one read from its source, unless only the signedness was reinterpreted. *)
(***************************************************************************)
AssertedCastsKeepValues ==
    HasModel =>
        \A c \in casts :
            c.flag \in model.met /\ objs[c.src].s = objs[c.narrow].s
                => Read(c.narrow).x = Read(c.src).x
=============================================================================
