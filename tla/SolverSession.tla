--------------------------- MODULE SolverSession ---------------------------
(***************************************************************************)
(* A client program of z3wire with a z3::solver: it names variables,       *)
(* builds terms and flags from them, asserts flags, checks, takes a model  *)
(* and reads concrete values out of it with to_concrete, in any order and  *)
(* over any number of pushes and pops.                                     *)
(*                                                                         *)
(* SymBitVec gives the operators at one assignment of the solver's         *)
(* variables.  Here an expression is its value at every assignment.        *)
(***************************************************************************)
EXTENDS SymBitVec, Sequences

CONSTANTS
    Symbols,     \* the solver's variables: [name, w], w = 0 for the sort Bool
    Concretes,   \* the values BitVec<W, S> the program mixes in: [w, s, x]
    CastTypes,   \* the target types of its casts
    MaxObjects,  \* how many objects it makes
    MaxDepth     \* how deep it nests push

ASSUME SessionAssumption ==
    /\ Symbols \subseteq [name : STRING, w : Widths \cup {0}]
    /\ CastTypes \subseteq Types
    /\ \A c \in Concretes : [w |-> c.w, s |-> c.s] \in Types /\ c.x \in ValueSet(c.w, c.s)
    /\ {MaxObjects, MaxDepth} \subseteq Nat

VARIABLES
    objs,      \* the objects SymBitVec and SymBool, in the order they are made
    casts,     \* what checked_cast returned: [src, narrow, flag], positions in objs
    compared,  \* what math_eq and math_lt returned: [op, l, r, flag]
    frames,    \* the solver's assertions, a set of positions in objs per push
    answer,    \* of check, while nothing was asserted or popped since
    model      \* the z3::model the program holds: [met, part], or <<>> before the first

vars == <<objs, casts, compared, frames, answer, model>>

SymbolValues(v) == IF v.w = 0 THEN {0, 1} ELSE Patterns(v.w)

Assignments ==
    {a \in [Symbols -> UNION {SymbolValues(v) : v \in Symbols}] :
        \A v \in Symbols : a[v] \in SymbolValues(v)}

\* An object: w = 0 for a SymBool; the variables that its expression mentions,
\* and its own name, if it was made with one.
Object(w, s, at, uses, named) ==
    [w |-> w, s |-> s, at |-> at, uses |-> uses, named |-> named]

Anonymous == ""
Vecs  == {i \in DOMAIN objs : objs[i].w # 0}
Flags == {i \in DOMAIN objs : objs[i].w = 0}

\* The term that object i is at assignment a, and the truth of a flag.
At(i, a)   == Term(objs[i].w, objs[i].s, objs[i].at[a])
Truth(i, a) == objs[i].at[a] = 1

Mentioned(is) == UNION {objs[i].uses : i \in is}

\* Objects built from the objects is: the terms, or truths, at all assignments.
VecOf(ty, terms, is) ==
    Object(ty.w, ty.s, [a \in Assignments |-> terms[a].p], Mentioned(is), Anonymous)
FlagOf(truths, is) ==
    Object(0, FALSE, [a \in Assignments |-> IF truths[a] THEN 1 ELSE 0],
           Mentioned(is), Anonymous)

-----------------------------------------------------------------------------
(* The solver.  Z3 is external: this is what the programs rely on.         *)

Asserted == UNION {frames[i] : i \in DOMAIN frames}

\* The assignments under which every flag of a set is true.
Solutions(fs) == {a \in Assignments : \A f \in fs : Truth(f, a)}

\* model.eval(e, true): what a model leaves out becomes 0.
Completed(part) ==
    [v \in Symbols |-> IF v \in DOMAIN part THEN part[v] ELSE 0]

(***************************************************************************)
(* The models that get_model may return for a set of assertions: values of *)
(* some of the variables they mention that, completed, satisfy them all.   *)
(***************************************************************************)
ModelsOf(fs) ==
    LET good == Solutions(fs)
    IN  {part \in UNION {{[v \in d |-> a[v]] : a \in good} : d \in SUBSET Mentioned(fs)} :
            Completed(part) \in good}

-----------------------------------------------------------------------------
(* Seeded faults.  Each is a slip that could be made in the definition it   *)
(* is named after; put in that definition's place, it must make TLC refute *)
(* the property it is listed with in PROJECT.json.                         *)

\* A variable is known by its name alone: it has the sort it was first given.
SymbolOf_Sortless(name, w, s) ==
    CHOOSE v \in Symbols : v.name = name /\ \A u \in Symbols : u.name = name => u.w <= v.w

\* The signedness is part of the variable's name.
SymbolOf_BySign(name, w, s) ==
    LET other == {v \in Symbols : v.name # name /\ v.w = w}
    IN  IF s /\ other # {} THEN CHOOSE v \in other : TRUE
                          ELSE [name |-> name, w |-> w]

\* A Bool is read without completion: an open expression is not is_true().
ToConcrete_OpenFlag(o, m) ==
    LET p    == o.at[Completed(m.part)]
        open == \E a \in Assignments :
                    /\ \A v \in DOMAIN m.part : a[v] = m.part[v]
                    /\ o.at[a] # p
    IN  [w |-> o.w, s |-> o.s,
         x |-> IF o.w = 0 THEN IF open THEN 0 ELSE p ELSE Decode(o.w, o.s, p)]

\* A concrete value is promoted to an unsigned one of its width.
Promote_Unsigned(operand, a) ==
    IF operand.kind = "sym" THEN At(operand.i, a)
    ELSE Term(operand.c.w, FALSE, Wrap(operand.c.w, operand.c.x))

\* checked_cast compares in the narrow type, where nothing is missing.
CheckedCastFlag_Narrow(i, ty, a) ==
    LET narrow == UnsafeCast(At(i, a), ty.w, ty.s)
    IN  Eq(UnsafeCast(UnsafeCast(narrow, objs[i].w, objs[i].s), ty.w, ty.s), narrow)

-----------------------------------------------------------------------------
(* Concrete and symbolic *)

\* bv_const(name, W) and bool_const(name): the name and the sort, no sign.
SymbolOf(name, w, s) == [name |-> name, w |-> w]

\* to_concrete of the object o, a BitVec<W, S> or a Bool (w = 0).
ToConcrete(o, m) ==
    LET p == o.at[Completed(m.part)]
    IN  [w |-> o.w, s |-> o.s, x |-> IF o.w = 0 THEN p ELSE Decode(o.w, o.s, p)]

-----------------------------------------------------------------------------
(* Making objects *)

Make(new) ==
    /\ Len(objs) + Len(new) <= MaxObjects
    /\ objs' = objs \o new
    /\ UNCHANGED <<frames, answer, model>>

\* SymBitVec(ctx, name) and SymBool(ctx, name)
NewVariable ==
    \E v \in Symbols, s \in BOOLEAN :
        /\ v.w = 0 => ~s
        /\ LET symbol == SymbolOf(v.name, v.w, s)
           IN  Make(<<Object(v.w, s, [a \in Assignments |-> a[symbol]], {symbol}, v.name)>>)
        /\ UNCHANGED <<casts, compared>>

CastTo(i, ty) ==
    VecOf(ty, [a \in Assignments |-> UnsafeCast(At(i, a), ty.w, ty.s)], {i})

\* unsafe_cast<SymBitVec<w, s>>(val)
Cast ==
    \E i \in Vecs, ty \in CastTypes :
        /\ Make(<<CastTo(i, ty)>>)
        /\ UNCHANGED <<casts, compared>>

\* The flag of checked_cast, at one assignment.
CheckedCastFlag(i, ty, a) == ValuePreserved(At(i, a), ty.w, ty.s)

\* checked_cast<SymBitVec<w, s>>(val): two objects
CheckedCast ==
    \E i \in Vecs, ty \in CastTypes :
        /\ Make(<<CastTo(i, ty),
                  FlagOf([a \in Assignments |-> CheckedCastFlag(i, ty, a)], {i})>>)
        /\ casts' = casts \cup
               {[src |-> i, narrow |-> Len(objs) + 1, flag |-> Len(objs) + 2]}
        /\ UNCHANGED compared

\* is_symbolic and is_concrete: what an operand can be; two concretes do not
\* make an expression.
IsSymbolic(operand) == operand.kind = "sym"
Operands ==
    {[kind |-> "sym", i |-> i] : i \in Vecs} \cup {[kind |-> "concrete", c |-> c] : c \in Concretes}
MixedOrSymbolic(l, r) == IsSymbolic(l) \/ IsSymbolic(r)

SymbolicParts(operands) == {o.i : o \in {op \in operands : IsSymbolic(op)}}

\* internal::promote
Promote(operand, a) ==
    IF IsSymbolic(operand) THEN At(operand.i, a) ELSE ToSymbolic(operand.c)

\* The type of an operand: what it compares in is no wider than MaxWidth, a bound.
Typed(operand)   == IF IsSymbolic(operand) THEN objs[operand.i] ELSE operand.c
Comparable(l, r) == CommonWidth(Typed(l), Typed(r)) <= MaxWidth

\* math_eq and math_lt, of two objects or of an object and a concrete value
Comparison(op, t, u) == IF op = "math_eq" THEN MathEq(t, u) ELSE MathLt(t, u)

Compare ==
    \E l, r \in Operands, op \in {"math_eq", "math_lt"} :
        /\ MixedOrSymbolic(l, r) /\ Comparable(l, r)
        /\ LET truths == [a \in Assignments |-> Comparison(op, Promote(l, a), Promote(r, a))]
           IN  Make(<<FlagOf(truths, SymbolicParts({l, r}))>>)
        /\ compared' = compared \cup {[op |-> op, l |-> l, r |-> r, flag |-> Len(objs) + 1]}
        /\ UNCHANGED casts

\* !flag and flag == flag
Connect ==
    /\ \E f, g \in Flags :
          LET negated == [a \in Assignments |-> ~Truth(f, a)]
              same    == [a \in Assignments |-> Truth(f, a) = Truth(g, a)]
          IN  Make(<<FlagOf(negated, {f})>>) \/ Make(<<FlagOf(same, {f, g})>>)
    /\ UNCHANGED <<casts, compared>>

-----------------------------------------------------------------------------
(* Using the solver *)

\* solver.add(flag.expr())
Add ==
    \E f \in Flags :
        /\ frames' = [frames EXCEPT ![Len(frames)] = @ \cup {f}]
        /\ answer' = "none"
        /\ UNCHANGED <<objs, casts, compared, model>>

Push ==
    /\ Len(frames) <= MaxDepth
    /\ frames' = Append(frames, {})
    /\ answer' = "none"
    /\ UNCHANGED <<objs, casts, compared, model>>

Pop ==
    /\ Len(frames) > 1
    /\ frames' = SubSeq(frames, 1, Len(frames) - 1)
    /\ answer' = "none"
    /\ UNCHANGED <<objs, casts, compared, model>>

Check ==
    /\ answer' = IF Solutions(Asserted) = {} THEN "unsat" ELSE "sat"
    /\ UNCHANGED <<objs, casts, compared, frames, model>>

\* solver.get_model(), after a check that said sat
GetModel ==
    /\ answer = "sat"
    /\ \E part \in ModelsOf(Asserted) : model' = [met |-> Asserted, part |-> part]
    /\ UNCHANGED <<objs, casts, compared, frames, answer>>

-----------------------------------------------------------------------------
Init ==
    /\ objs = <<>>
    /\ casts = {}
    /\ compared = {}
    /\ frames = <<{}>>
    /\ answer = "none"
    /\ model = <<>>

Next ==
    \/ NewVariable \/ Cast \/ CheckedCast \/ Compare \/ Connect
    \/ Add \/ Push \/ Pop \/ Check \/ GetModel

Spec == Init /\ [][Next]_vars
=============================================================================
