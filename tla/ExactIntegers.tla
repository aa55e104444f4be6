--------------------------- MODULE ExactIntegers ---------------------------
(***************************************************************************)
(* What z3wire promises its clients: a program that computes with integers *)
(* and never sees an overflow.  A SymBitVec object is an exact integer x   *)
(* that its type can hold; arithmetic and comparison are those of the      *)
(* integers whatever the types of the operands; only a cast that asks for  *)
(* the low bits, and a left shift of a negative number, may change a       *)
(* value, and then modulo the width of the result.  No call ever yields a  *)
(* result from an object without a value.                                  *)
(***************************************************************************)
EXTENDS TypeRanges, Sequences

CONSTANTS
    Unset,      \* an object that was declared and never given a value
    Constants,  \* the concrete values of the program: records [w, s, x]
    MaxObjects  \* bound: a program that has made this many objects makes no more

VARIABLES
    ints,    \* the integer objects: [w, s, x], or Unset
    conds,   \* the Boolean objects: TRUE, FALSE, or Unset
    status,  \* "running" or "stopped"
    call     \* the last call: [op, vals, conds, n]

vars == <<ints, conds, status, call>>

Typed(w, s, x) == [w |-> w, s |-> s, x |-> x]
Call(op, vals, bs, n) == [op |-> op, vals |-> vals, conds |-> bs, n |-> n]

MadeInts  == {ints[i] : i \in 1 .. Len(ints)}
MadeConds == {conds[i] : i \in 1 .. Len(conds)}
Known      == MadeInts \ {Unset}
KnownConds == MadeConds \ {Unset}
Operands   == Known \cup Constants

\* Equal in the low w bits.
Congruent(w, x, y) == (x - y) % Pow2[w] = 0

-----------------------------------------------------------------------------
(* What a call returns *)

\* The program goes on, within the bound, with the call c.
Does(c) ==
    /\ call' = c
    /\ status = "running"
    /\ Len(ints) + Len(conds) < MaxObjects
    /\ UNCHANGED status

\* A new object, the integer x of a type that can hold it.
NewInt(w, s, x) ==
    /\ x \in ValueSet(w, s)
    /\ ints' = Append(ints, Typed(w, s, x))

\* The exact integer x, in some type.
ReturnInt(x) == UNCHANGED conds /\ \E w \in Widths, s \in BOOLEAN : NewInt(w, s, x)

ReturnCond(b) == UNCHANGED ints /\ conds' = Append(conds, b)

-----------------------------------------------------------------------------
(* The calls *)

Input ==
    /\ Does(Call("variable", <<>>, <<>>, 0))
    /\ UNCHANGED conds
    /\ \E w \in Widths, s \in BOOLEAN : \E x \in ValueSet(w, s) : NewInt(w, s, x)

InputCond ==
    Does(Call("boolean", <<>>, <<>>, 0)) /\ \E b \in BOOLEAN : ReturnCond(b)

Declare ==
    Does(Call("declare", <<>>, <<>>, 0)) /\ UNCHANGED conds /\ ints' = Append(ints, Unset)

DeclareCond == Does(Call("declare", <<>>, <<>>, 0)) /\ ReturnCond(Unset)

Constant ==
    \E c \in Constants :
        Does(Call("to_symbolic", <<c>>, <<>>, 0)) /\ UNCHANGED conds /\ NewInt(c.w, c.s, c.x)

Arithmetic ==
    \/ \E a, b \in Operands :
          \/ Does(Call("+", <<a, b>>, <<>>, 0)) /\ ReturnInt(a.x + b.x)
          \/ Does(Call("-", <<a, b>>, <<>>, 0)) /\ ReturnInt(a.x - b.x)
          \/ Does(Call("*", <<a, b>>, <<>>, 0)) /\ ReturnInt(a.x * b.x)
    \/ \E a \in Known : Does(Call("neg", <<a>>, <<>>, 0)) /\ ReturnInt(-a.x)

\* The strict operators and the math_ functions compare alike.
Comparison ==
    \E a, b \in Operands :
        \/ Does(Call("==", <<a, b>>, <<>>, 0)) /\ ReturnCond(a.x = b.x)
        \/ Does(Call("!=", <<a, b>>, <<>>, 0)) /\ ReturnCond(a.x # b.x)
        \/ Does(Call("<", <<a, b>>, <<>>, 0)) /\ ReturnCond(a.x < b.x)
        \/ Does(Call("<=", <<a, b>>, <<>>, 0)) /\ ReturnCond(a.x <= b.x)
        \/ Does(Call(">", <<a, b>>, <<>>, 0)) /\ ReturnCond(a.x > b.x)
        \/ Does(Call(">=", <<a, b>>, <<>>, 0)) /\ ReturnCond(a.x >= b.x)

Selection ==
    \E c \in KnownConds, a, b \in Operands :
        /\ Does(Call("ite", <<a, b>>, <<c>>, 0))
        /\ UNCHANGED conds
        /\ ints' = Append(ints, IF c THEN a ELSE b)

\* Choosing an object without using it: the only call that passes Unset on.
Copy ==
    \E c \in BOOLEAN, a, b \in MadeInts :
        /\ Does(Call("ite", <<a, b>>, <<c>>, 0))
        /\ UNCHANGED conds
        /\ ints' = Append(ints, IF c THEN a ELSE b)

SelectionCond ==
    \E c, a, b \in KnownConds :
        Does(Call("ite", <<>>, <<c, a, b>>, 0)) /\ ReturnCond(IF c THEN a ELSE b)

Conversion == \E a \in Known : Does(Call("safe_cast", <<a>>, <<>>, 0)) /\ ReturnInt(a.x)

\* The number of the new type that agrees in as many bits as it has.
LowBits ==
    \E a \in Known :
        /\ Does(Call("unsafe_cast", <<a>>, <<>>, 0))
        /\ UNCHANGED conds
        /\ \E w \in Widths, s \in BOOLEAN : \E x \in ValueSet(w, s) :
              Congruent(w, x, a.x) /\ NewInt(w, s, x)

(***************************************************************************)
(* The flag is never FALSE for a value that was kept.  It is TRUE only for *)
(* a value that was kept when the signedness stays, when it changes to     *)
(* signed with more bits, or to unsigned with fewer.                       *)
(***************************************************************************)
Faithful(a, w, s) ==
    \/ a.s = s
    \/ s /\ w > a.w
    \/ ~s /\ w < a.w

ReportedLowBits ==
    \E a \in Known :
        /\ Does(Call("checked_cast", <<a>>, <<>>, 0))
        /\ \E w \in Widths, s, kept \in BOOLEAN : \E x \in ValueSet(w, s) :
              /\ Congruent(w, x, a.x)
              /\ x = a.x => kept
              /\ kept /\ Faithful(a, w, s) => x = a.x
              /\ NewInt(w, s, x)
              /\ conds' = Append(conds, kept)

FromCond ==
    \E b \in KnownConds :
        Does(Call("as_uint1", <<>>, <<b>>, 0)) /\ ReturnInt(IF b THEN 1 ELSE 0)

ToCond == \E a \in Known : Does(Call("as_bool", <<a>>, <<>>, 0)) /\ ReturnCond(a.x = 1)

\* Multiplication by 2^n; a negative product wraps to the unsigned result.
LeftShift ==
    \E a \in Known, n \in 0 .. MaxWidth :
        /\ Does(Call("shl", <<a>>, <<>>, n))
        /\ UNCHANGED conds
        /\ \E w \in Widths : \E x \in ValueSet(w, FALSE) :
              /\ Congruent(w, x, a.x * Pow2[n])
              /\ a.x >= 0 => x = a.x * Pow2[n]
              /\ NewInt(w, FALSE, x)

\* Division by 2^n, rounded down; the type stays.
RightShift ==
    \E a \in Known, n \in 0 .. (Pow2[MaxWidth] - 1) :
        /\ Does(Call("shr", <<a>>, <<>>, n))
        /\ UNCHANGED conds
        /\ NewInt(a.w, a.s, FloorShift(a.x, n))

Connective ==
    \E a, b \in KnownConds :
        \/ Does(Call("&&", <<>>, <<a, b>>, 0)) /\ ReturnCond(a /\ b)
        \/ Does(Call("||", <<>>, <<a, b>>, 0)) /\ ReturnCond(a \/ b)
        \/ Does(Call("xor", <<>>, <<a, b>>, 0)) /\ ReturnCond(a # b)
        \/ Does(Call("iff", <<>>, <<a, b>>, 0)) /\ ReturnCond(a = b)
        \/ Does(Call("not", <<>>, <<a>>, 0)) /\ ReturnCond(~a)

\* The program stops only when it uses an object without a value.
Misuse ==
    /\ status = "running"
    /\ Unset \in MadeInts \/ Unset \in MadeConds
    /\ status' = "stopped"
    /\ UNCHANGED <<ints, conds, call>>

Init ==
    /\ ints = <<>>
    /\ conds = <<>>
    /\ status = "running"
    /\ call = Call("start", <<>>, <<>>, 0)

Next ==
    \/ Input \/ InputCond \/ Declare \/ DeclareCond \/ Constant
    \/ Arithmetic \/ Comparison
    \/ Selection \/ Copy \/ SelectionCond
    \/ Conversion \/ LowBits \/ ReportedLowBits \/ FromCond \/ ToCond
    \/ LeftShift \/ RightShift \/ Connective \/ Misuse

Spec == Init /\ [][Next]_vars
=============================================================================
