----------------------------- MODULE SymProgram -----------------------------
(***************************************************************************)
(* A client program of z3wire: it declares symbolic bit-vectors and        *)
(* Booleans and calls the numeric part of the API of z3wire/sym_bit_vec.h  *)
(* and z3wire/sym_bool.h on them, in any order the type system allows.     *)
(*                                                                         *)
(* vecs and flags are the SymBitVec and SymBool objects it has made, in    *)
(* order; each is made once, as the library has no mutating operation.     *)
(* NoExpr is a default-constructed object, whose std::optional holds no    *)
(* expression.  call is the last call with the operands it was given.      *)
(***************************************************************************)
EXTENDS SymBitVec, Sequences

CONSTANTS
    NoExpr,      \* std::nullopt, the expr_ of an uninitialized object
    Concretes,   \* the BitVec values of the program: records [w, s, x]
    InputTypes,  \* the types of its symbolic variables
    MaxShift,    \* bound: the largest N of shl<N> and shr<N>
    MaxObjects   \* bound: a program that has made this many objects makes no more

ASSUME ProgramAssumption ==
    /\ NoExpr \notin BOOLEAN
    /\ NoExpr \notin Terms
    /\ NoExpr \notin [w : Widths, s : BOOLEAN, x : Int]
    /\ \A c \in Concretes :
          c \in [w : Widths, s : BOOLEAN, x : Int] /\ c.x \in ValueSet(c.w, c.s)
    /\ InputTypes \subseteq Types
    /\ MaxShift \in Nat
    /\ MaxObjects \in Nat

VARIABLES
    vecs,    \* the SymBitVec objects
    flags,   \* the SymBool objects
    status,  \* "running", "aborted" by Z3W_CHECK, or "undefined" behaviour
    call     \* the last call: [op, vals, conds, n]

vars == <<vecs, flags, status, call>>

-----------------------------------------------------------------------------
(* What a call returns *)

Call(op, vals, conds, n) == [op |-> op, vals |-> vals, conds |-> conds, n |-> n]

\* The program goes on, within the bound.
Going == status = "running" /\ Len(vecs) + Len(flags) < MaxObjects

ReturnVec(c, t) ==
    /\ Going
    /\ vecs' = Append(vecs, t)
    /\ call' = c
    /\ UNCHANGED <<flags, status>>

ReturnFlag(c, b) ==
    /\ Going
    /\ flags' = Append(flags, b)
    /\ call' = c
    /\ UNCHANGED <<vecs, status>>

Stop(how) ==
    /\ status = "running"
    /\ status' = how
    /\ UNCHANGED <<vecs, flags, call>>

-----------------------------------------------------------------------------
(* Operands *)

MadeVecs  == {vecs[i] : i \in 1 .. Len(vecs)}
MadeFlags == {flags[i] : i \in 1 .. Len(flags)}

\* The initialized objects.
Held      == MadeVecs \ {NoExpr}
HeldFlags == MadeFlags \ {NoExpr}

\* What a binary operator accepts: a concrete operand is promoted first.
Operands == Held \cup {ToSymbolic(c) : c \in Concretes}

\* One operand at least is symbolic: get_ctx takes the context from it.
Mixed(a, b) == a \in Held \/ b \in Held

-----------------------------------------------------------------------------
(* Constructors *)

\* SymBitVec(ctx, name), and From of an expression of the right width.
NewVec ==
    \E ty \in InputTypes : \E p \in Patterns(ty.w) :
        ReturnVec(Call("variable", <<>>, <<>>, 0), Term(ty.w, ty.s, p))

\* SymBool(ctx, name), True and False.
NewFlag ==
    \E b \in BOOLEAN : ReturnFlag(Call("boolean", <<>>, <<>>, 0), b)

\* SymBitVec() and SymBool()
DeclareVec  == ReturnVec(Call("declare", <<>>, <<>>, 0), NoExpr)
DeclareFlag == ReturnFlag(Call("declare", <<>>, <<>>, 0), NoExpr)

\* to_symbolic(val, ctx)
Promote ==
    \E c \in Concretes :
        ReturnVec(Call("to_symbolic", <<ToSymbolic(c)>>, <<>>, 0), ToSymbolic(c))

-----------------------------------------------------------------------------
(* Arithmetic *)

Add ==
    \E a, b \in Operands :
        /\ Mixed(a, b)
        /\ ArithResultWidth(a, b) <= MaxWidth
        /\ ReturnVec(Call("+", <<a, b>>, <<>>, 0), Plus(a, b))

Subtract ==
    \E a, b \in Operands :
        /\ Mixed(a, b)
        /\ ArithResultWidth(a, b) <= MaxWidth
        /\ ReturnVec(Call("-", <<a, b>>, <<>>, 0), Minus(a, b))

Multiply ==
    \E a, b \in Operands :
        /\ Mixed(a, b)
        /\ a.w + b.w <= MaxWidth
        /\ ReturnVec(Call("*", <<a, b>>, <<>>, 0), Times(a, b))

Negate ==
    \E a \in Held :
        /\ a.w < MaxWidth
        /\ ReturnVec(Call("neg", <<a>>, <<>>, 0), Negated(a))

-----------------------------------------------------------------------------
(* Comparisons: the static_asserts of the strict ones demand one type *)

Strict(a, b)     == Mixed(a, b) /\ SameType(a, b)
Widenable(a, b)  == Mixed(a, b) /\ CommonWidth(a, b) <= MaxWidth
Compare(op, a, b, result) == ReturnFlag(Call(op, <<a, b>>, <<>>, 0), result)

EqualTo     == \E a, b \in Operands : Strict(a, b) /\ Compare("==", a, b, Eq(a, b))
NotEqualTo  == \E a, b \in Operands : Strict(a, b) /\ Compare("!=", a, b, ~Eq(a, b))
LessThan    == \E a, b \in Operands : Strict(a, b) /\ Compare("<", a, b, Lt(a, b))
AtMost      == \E a, b \in Operands : Strict(a, b) /\ Compare("<=", a, b, ~Lt(b, a))
GreaterThan == \E a, b \in Operands : Strict(a, b) /\ Compare(">", a, b, Lt(b, a))
AtLeast     == \E a, b \in Operands : Strict(a, b) /\ Compare(">=", a, b, ~Lt(a, b))

MathEqualTo ==
    \E a, b \in Operands : Widenable(a, b) /\ Compare("==", a, b, MathEq(a, b))
MathNotEqualTo ==
    \E a, b \in Operands : Widenable(a, b) /\ Compare("!=", a, b, ~MathEq(a, b))
MathLessThan ==
    \E a, b \in Operands : Widenable(a, b) /\ Compare("<", a, b, MathLt(a, b))
MathAtMost ==
    \E a, b \in Operands : Widenable(a, b) /\ Compare("<=", a, b, ~MathLt(b, a))
MathGreaterThan ==
    \E a, b \in Operands : Widenable(a, b) /\ Compare(">", a, b, MathLt(b, a))
MathAtLeast ==
    \E a, b \in Operands : Widenable(a, b) /\ Compare(">=", a, b, ~MathLt(a, b))

-----------------------------------------------------------------------------
(* Conditional selection *)

\* ite with a SymBool condition and symbolic or concrete values of one type.
IteVec ==
    \E c \in HeldFlags, a, b \in Operands :
        /\ SameType(a, b)
        /\ ReturnVec(Call("ite", <<a, b>>, <<c>>, 0), IF c THEN a ELSE b)

\* ite with a bool condition: a copy, of an uninitialized object too.
IteNative ==
    \E c \in BOOLEAN, a, b \in MadeVecs :
        /\ NoExpr \notin {a, b} => SameType(a, b)
        /\ ReturnVec(Call("ite", <<a, b>>, <<c>>, 0), IF c THEN a ELSE b)

IteFlag ==
    \E c, a, b \in HeldFlags :
        ReturnFlag(Call("ite", <<>>, <<c, a, b>>, 0), IF c THEN a ELSE b)

-----------------------------------------------------------------------------
(* Casts *)

CastUnsafely ==
    \E a \in Held, ty \in Types :
        ReturnVec(Call("unsafe_cast", <<a>>, <<>>, 0), UnsafeCast(a, ty.w, ty.s))

CastSafely ==
    \E a \in Held, ty \in Types :
        /\ SafeCastCompiles(a, ty.w, ty.s)
        /\ ReturnVec(Call("safe_cast", <<a>>, <<>>, 0), UnsafeCast(a, ty.w, ty.s))

\* checked_cast makes two objects, the result and the flag.
CastChecked ==
    \E a \in Held, ty \in Types :
        /\ Going
        /\ vecs' = Append(vecs, UnsafeCast(a, ty.w, ty.s))
        /\ flags' = Append(flags, ValuePreserved(a, ty.w, ty.s))
        /\ call' = Call("checked_cast", <<a>>, <<>>, 0)
        /\ UNCHANGED status

\* as_unsigned and as_signed
Reinterpret ==
    \E a \in Held, s \in BOOLEAN :
        ReturnVec(Call("unsafe_cast", <<a>>, <<>>, 0), UnsafeCast(a, a.w, s))

BoolToVec ==
    \E b \in HeldFlags :
        ReturnVec(Call("as_uint1", <<>>, <<b>>, 0), AsUint1(b))

VecToBool ==
    \E a \in Held :
        /\ a.w = 1 /\ ~a.s
        /\ ReturnFlag(Call("as_bool", <<a>>, <<>>, 0), AsBool(a))

-----------------------------------------------------------------------------
(* Shifts *)

ShiftLeftConst ==
    \E a \in Held, n \in 0 .. MaxShift :
        /\ a.w + n <= MaxWidth
        /\ ReturnVec(Call("shl", <<a>>, <<>>, n), ShlConst(a, n))

ShiftLeft ==
    \E a \in Held, amount \in Operands :
        /\ ~amount.s
        /\ ShlWidth(a, amount.w) <= MaxWidth
        /\ ReturnVec(Call("shl", <<a>>, <<>>, amount.p), ShlBy(a, amount))

ShiftRightConst ==
    \E a \in Held, n \in 0 .. MaxShift :
        /\ ShrConstCompiles(a, n)
        /\ ReturnVec(Call("shr", <<a>>, <<>>, n), ShrConst(a, n))

ShiftRight ==
    \E a \in Held, amount \in Operands :
        /\ ~amount.s
        /\ ReturnVec(Call("shr", <<a>>, <<>>, amount.p), ShrBy(a, amount))

-----------------------------------------------------------------------------
(* Boolean connectives *)

Connect ==
    \E a, b \in HeldFlags :
        \/ ReturnFlag(Call("&&", <<>>, <<a, b>>, 0), a /\ b)
        \/ ReturnFlag(Call("||", <<>>, <<a, b>>, 0), a \/ b)
        \/ ReturnFlag(Call("xor", <<>>, <<a, b>>, 0), a # b)
        \/ ReturnFlag(Call("iff", <<>>, <<a, b>>, 0), a = b)

Not == \E a \in HeldFlags : ReturnFlag(Call("not", <<>>, <<a>>, 0), ~a)

-----------------------------------------------------------------------------
(* Uninitialized operands *)

\* Every function that reads its operand with expr() aborts.
UseUninitialized ==
    (NoExpr \in MadeVecs \/ NoExpr \in MadeFlags) /\ Stop("aborted")

(***************************************************************************)
(* The connectives of SymBool dereference expr_ without a check: undefined *)
(* behaviour, which a build with a checked standard library turns into an  *)
(* abort.                                                                  *)
(***************************************************************************)
ConnectUninitialized ==
    NoExpr \in MadeFlags /\ \E how \in {"aborted", "undefined"} : Stop(how)

-----------------------------------------------------------------------------
Init ==
    /\ vecs = <<>>
    /\ flags = <<>>
    /\ status = "running"
    /\ call = Call("start", <<>>, <<>>, 0)

Next ==
    \/ NewVec \/ NewFlag \/ DeclareVec \/ DeclareFlag \/ Promote
    \/ Add \/ Subtract \/ Multiply \/ Negate
    \/ EqualTo \/ NotEqualTo \/ LessThan \/ AtMost \/ GreaterThan \/ AtLeast
    \/ MathEqualTo \/ MathNotEqualTo
    \/ MathLessThan \/ MathAtMost \/ MathGreaterThan \/ MathAtLeast
    \/ IteVec \/ IteNative \/ IteFlag
    \/ CastUnsafely \/ CastSafely \/ CastChecked \/ Reinterpret
    \/ BoolToVec \/ VecToBool
    \/ ShiftLeftConst \/ ShiftLeft \/ ShiftRightConst \/ ShiftRight
    \/ Connect \/ Not
    \/ UseUninitialized \/ ConnectUninitialized

Spec == Init /\ [][Next]_vars
=============================================================================
