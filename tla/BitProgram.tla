----------------------------- MODULE BitProgram -----------------------------
(***************************************************************************)
(* A client program of z3wire that packs, unpacks and rearranges bits: it  *)
(* declares symbolic bit-vectors and calls the structural part of the API  *)
(* of z3wire/sym_bit_vec.h on them, in any order the type system allows.   *)
(*                                                                         *)
(* vecs are the SymBitVec objects it has made, in order; NoExpr is a       *)
(* default-constructed one, whose std::optional holds no expression.  call *)
(* is the last call with the operands it was given, also when it aborted.  *)
(***************************************************************************)
EXTENDS SymBits, Sequences

CONSTANTS
    NoExpr,      \* std::nullopt, the expr_ of an uninitialized object
    Amounts,     \* the UInt values that shift or place by: terms
    Offsets,     \* the size_t offsets the program computes
    InputTypes,  \* the types of its symbolic variables
    MaxTurn,     \* bound: the largest N of rotl<N> and rotr<N>
    MaxObjects   \* bound: a program that has made this many objects makes no more calls

ASSUME BitProgramAssumption ==
    /\ NoExpr \notin Terms
    /\ \A w \in Widths : NoExpr \notin [w : {w}, s : BOOLEAN, bit : [Positions(w) -> BOOLEAN]]
    /\ Amounts \subseteq {t \in Terms : ~t.s}
    /\ Offsets \subseteq 0 .. (SizeValues - 1)
    /\ InputTypes \subseteq Types
    /\ MaxTurn \in Nat
    /\ MaxObjects \in Nat

VARIABLES
    vecs,    \* the SymBitVec objects
    status,  \* "running", "aborted" by Z3W_CHECK, or "undefined" behaviour
    call     \* the last call: [op, vals, w, n]

vars == <<vecs, status, call>>

-----------------------------------------------------------------------------
\* A call with its operands, the width it asks for and a plain number.
Call(op, vals, w, n) == [op |-> op, vals |-> vals, w |-> w, n |-> n]

\* The program goes on, within the bound.
Going == status = "running" /\ Len(vecs) < MaxObjects

Return(c, t) ==
    /\ Going
    /\ vecs' = Append(vecs, t)
    /\ call' = c
    /\ UNCHANGED status

Stop(c, how) ==
    /\ Going
    /\ status' = how
    /\ call' = c
    /\ UNCHANGED vecs

Made == {vecs[i] : i \in 1 .. Len(vecs)}

\* The initialized objects.
Held == Made \ {NoExpr}

\* Amounts and symbolic offsets; a concrete one is promoted first.
Shifts == {t \in Held : ~t.s} \cup Amounts

-----------------------------------------------------------------------------
\* SymBitVec(ctx, name)
NewVec ==
    \E ty \in InputTypes : \E b \in Words(ty.w) :
        Return(Call("variable", <<>>, ty.w, 0), Vec(ty.w, ty.s, b))

\* SymBitVec()
DeclareVec == Return(Call("declare", <<>>, 0, 0), NoExpr)

-----------------------------------------------------------------------------
(* Bitwise operators: strict in width and signedness *)

Bitwise(op, a, b, word) ==
    SameType(a, b) /\ Return(Call(op, <<a, b>>, a.w, 0), Vec(a.w, a.s, word))

And == \E a, b \in Held : Bitwise("&", a, b, a.b \cap b.b)
Or  == \E a, b \in Held : Bitwise("|", a, b, a.b \cup b.b)
Xor == \E a, b \in Held : Bitwise("^", a, b, Differ(a.b, b.b))
Invert ==
    \E a \in Held :
        Return(Call("~", <<a>>, a.w, 0), Vec(a.w, a.s, Complement(a.w, a.b)))

-----------------------------------------------------------------------------
(* Slicing *)

\* The window is a template argument, checked by the compiler.
ExtractStatic ==
    \E a \in Held, w \in Widths, lo \in 0 .. MaxWidth :
        /\ lo + w <= a.w
        /\ Return(Call("extract", <<a>>, w, lo), ExtractFrom(a, w, lo))

\* The offset is computed at run time, checked by Z3W_CHECK.
ExtractRuntime ==
    \E a \in Held, w \in Widths, lo \in Offsets :
        LET c == Call("extract", <<a>>, w, lo)
        IN  /\ w <= a.w
            /\ IF InWindow(lo, w, a.w) THEN Return(c, ExtractFrom(a, w, lo))
                                       ELSE Stop(c, "aborted")

ReplaceStatic ==
    \E a, f \in Held, lo \in 0 .. MaxWidth :
        /\ a.w >= lo + f.w
        /\ Return(Call("replace", <<a, f>>, a.w, lo), ReplaceAt(a, f, lo))

ReplaceRuntime ==
    \E a, f \in Held, lo \in Offsets :
        LET c == Call("replace", <<a, f>>, a.w, lo)
        IN  /\ f.w <= a.w
            /\ IF InWindow(lo, f.w, a.w) THEN Return(c, ReplaceAt(a, f, lo))
                                         ELSE Stop(c, "aborted")

ReplaceSymbolic ==
    \E a, f \in Held, lo \in Shifts :
        /\ a.w >= f.w
        /\ Return(Call("replace by", <<a, f, lo>>, a.w, 0), ReplaceBy(a, f, lo))

\* A part is a SymBitVec of either signedness or a SymBool.
Concatenate ==
    \E a, b \in Held \cup {AsUint1(flag) : flag \in BOOLEAN} :
        /\ a.w + b.w <= MaxWidth
        /\ Return(Call("concat", <<a, b>>, a.w + b.w, 0), Concat(a, b))

-----------------------------------------------------------------------------
(* Rotations *)

TurnConst ==
    \E a \in Held, n \in 0 .. MaxTurn :
        \/ Return(Call("rotl", <<a>>, a.w, n), RotlConst(a, n))
        \/ Return(Call("rotr", <<a>>, a.w, n), RotrConst(a, n))

Turn ==
    \E a \in Held, amount \in Shifts :
        \/ Return(Call("rotl by", <<a, amount>>, a.w, 0), RotlBy(a, amount))
        \/ Return(Call("rotr by", <<a, amount>>, a.w, 0), RotrBy(a, amount))

-----------------------------------------------------------------------------
(* Uninitialized operands *)

\* Every function that reads its operand with expr() aborts.
UseUninitialized ==
    NoExpr \in Made /\ Stop(Call("read", <<NoExpr>>, 0, 0), "aborted")

(***************************************************************************)
(* The bitwise operators dereference expr_ without a check: undefined      *)
(* behaviour, which a build with a checked standard library turns into an  *)
(* abort.                                                                  *)
(***************************************************************************)
BitwiseUninitialized ==
    /\ NoExpr \in Made
    /\ \E how \in {"aborted", "undefined"} : Stop(Call("bitwise", <<NoExpr>>, 0, 0), how)

-----------------------------------------------------------------------------
Init ==
    /\ vecs = <<>>
    /\ status = "running"
    /\ call = Call("start", <<>>, 0, 0)

Next ==
    \/ NewVec \/ DeclareVec
    \/ And \/ Or \/ Xor \/ Invert
    \/ ExtractStatic \/ ExtractRuntime
    \/ ReplaceStatic \/ ReplaceRuntime \/ ReplaceSymbolic
    \/ Concatenate
    \/ TurnConst \/ Turn
    \/ UseUninitialized \/ BitwiseUninitialized

Spec == Init /\ [][Next]_vars
=============================================================================
