-------------------------- MODULE SymProgramProps --------------------------
(***************************************************************************)
(* What the numeric API of z3wire is to guarantee its client programs.     *)
(***************************************************************************)
EXTENDS SymProgram

\* The functions of the API that are called.
Ops ==
    {"start", "variable", "boolean", "declare", "to_symbolic",
     "+", "-", "*", "neg", "==", "!=", "<", "<=", ">", ">=",
     "ite", "unsafe_cast", "safe_cast", "checked_cast", "as_uint1", "as_bool",
     "shl", "shr", "&&", "||", "xor", "iff", "not"}

Calls ==
    [op : Ops, vals : Seq(Terms \cup {NoExpr}), conds : Seq(BOOLEAN), n : Nat]

(***************************************************************************)
(* Every SymBitVec object is either uninitialized or holds an expression   *)
(* of exactly its own width (the Z3W_CHECK of sym_bit_vec.h:41).           *)
(***************************************************************************)
TypeOK ==
    /\ vecs \in Seq(Terms \cup {NoExpr})
    /\ flags \in Seq(BOOLEAN \cup {NoExpr})
    /\ status \in {"running", "aborted", "undefined"}
    /\ call \in Calls

-----------------------------------------------------------------------------
(* The program seen as one that computes with exact integers *)

AbsVec(t) == IF t = NoExpr THEN NoExpr ELSE [w |-> t.w, s |-> t.s, x |-> Num(t)]

AbsVecs(ts) == [i \in 1 .. Len(ts) |-> AbsVec(ts[i])]

Exact == INSTANCE ExactIntegers WITH
    Unset     <- NoExpr,
    Constants <- Concretes,
    ints      <- AbsVecs(vecs),
    conds     <- flags,
    status    <- IF status = "running" THEN "running" ELSE "stopped",
    call      <- [call EXCEPT !.vals = AbsVecs(call.vals)]

(***************************************************************************)
(* Whatever calls the program makes and in whatever order, its results are *)
(* those of integer arithmetic: bit growth leaves no room for an overflow, *)
(* comparisons of different types compare the numbers, safe_cast changes   *)
(* nothing, and no result is ever made from an uninitialized operand.      *)
(***************************************************************************)
ImplementsExactIntegers == Exact!Spec

-----------------------------------------------------------------------------
\* The pairs of types for which checked_cast's round trip is a faithful test.
Faithful(t, w, s) == (t.s = s) \/ (s /\ w > t.w) \/ (~s /\ w < t.w)

Made(op) == call.op = op /\ vecs # <<>>
LastVec  == vecs[Len(vecs)]
LastFlag == flags[Len(flags)]
Source   == call.vals[1]

(***************************************************************************)
(* The pattern "compute, then narrow" of examples/adder.cc: the flag that  *)
(* checked_cast returns with the narrowed result of earlier arithmetic     *)
(* tells exactly whether the true number fits the type it was narrowed to, *)
(* and when it does the narrowed object is that number.                    *)
(***************************************************************************)
FlagReportsFit ==
    Made("checked_cast") /\ Faithful(Source, LastVec.w, LastVec.s) =>
        /\ LastFlag <=> Num(Source) \in ValueSet(LastVec.w, LastVec.s)
        /\ LastFlag => Num(LastVec) = Num(Source)

(***************************************************************************)
(* What sym_bit_vec.h:609 says of every cast: the flag that checked_cast   *)
(* returns tells whether the number was preserved.                         *)
(***************************************************************************)
FlagMeansPreserved ==
    Made("checked_cast") => (LastFlag <=> Num(LastVec) = Num(Source))

(***************************************************************************)
(* safe_cast is the cast for every lossless conversion, and for no other:  *)
(* a conversion that unsafe_cast performed and whose types hold all values *)
(* of the source is one that the static_asserts of safe_cast accept.       *)
(***************************************************************************)
SafeCastAcceptsInclusions ==
    Made("unsafe_cast") =>
        (SafeCastCompiles(Source, LastVec.w, LastVec.s) <=>
            ValueSet(Source.w, Source.s) \subseteq ValueSet(LastVec.w, LastVec.s))

-----------------------------------------------------------------------------
(* The results of one operator for all operands of given types *)

TermsOf(t) == {Term(t.w, t.s, p) : p \in Patterns(t.w)}

ArithmeticResults(op, a, b) ==
    CASE op = "+" -> {Num(x) + Num(y) : x \in TermsOf(a), y \in TermsOf(b)}
      [] op = "-" -> {Num(x) - Num(y) : x \in TermsOf(a), y \in TermsOf(b)}
      [] op = "*" -> {Num(x) * Num(y) : x \in TermsOf(a), y \in TermsOf(b)}
      [] op = "neg" -> {-Num(x) : x \in TermsOf(a)}

\* No type of fewer bits and no unsigned type of as many holds all results.
NeedsAllBits(results, t) ==
    /\ t.w > 1 => ~(results \subseteq ValueSet(t.w - 1, t.s))
    /\ t.s => \A w \in 1 .. t.w : ~(results \subseteq ValueSet(w, FALSE))

(***************************************************************************)
(* Arithmetic results are no wider than necessary, as long as no operand   *)
(* is one bit wide: some operands of the same types need every bit of the  *)
(* result type.                                                            *)
(***************************************************************************)
NoWiderThanNecessary ==
    \A op \in {"+", "-", "*", "neg"} :
        Made(op) /\ (\A i \in 1 .. Len(call.vals) : call.vals[i].w > 1) =>
            NeedsAllBits(ArithmeticResults(op, Source, call.vals[Len(call.vals)]),
                         LastVec)

-----------------------------------------------------------------------------
Comparable(a, b) == CommonWidth(a, b) <= MaxWidth

(***************************************************************************)
(* Across all widths and signednesses that the program mixes, math_lt and  *)
(* math_eq are one total order: exactly one of a < b, a = b, b < a, and    *)
(* the order and the equality are transitive over any three objects.       *)
(***************************************************************************)
MathOrderIsTotal ==
    \A a, b \in Held : Comparable(a, b) =>
        /\ MathEq(a, b) <=> ~MathLt(a, b) /\ ~MathLt(b, a)
        /\ ~(MathLt(a, b) /\ MathLt(b, a))
        /\ \A c \in Held : Comparable(b, c) /\ Comparable(a, c) =>
              /\ MathLt(a, b) /\ MathLt(b, c) => MathLt(a, c)
              /\ MathEq(a, b) => (MathLt(b, c) <=> MathLt(a, c))

(***************************************************************************)
(* The two forms of each shift agree: shr<N>(a) is shr(a, n) when n is N,  *)
(* and shl<N>(a) is what shl(a, n) has in its low W+N bits, which is all   *)
(* of it when a is unsigned.                                               *)
(***************************************************************************)
ShiftFormsAgree ==
    \A a \in Held, amount \in Held : ~amount.s =>
        /\ ShrConstCompiles(a, amount.p) => ShrBy(a, amount) = ShrConst(a, amount.p)
        /\ ShlWidth(a, amount.w) <= MaxWidth =>
              LET byTerm  == ShlBy(a, amount)
                  byConst == ShlConst(a, amount.p)
              IN  /\ Truncate(a.w + amount.p, byTerm.p) = byConst.p
                  /\ ~a.s => byTerm.p = byConst.p

(***************************************************************************)
(* What docs/design/bit-growth-arithmetic.md:61 says of shl: a left shift  *)
(* by N is the multiplication by 2^N.                                      *)
(***************************************************************************)
LeftShiftMultiplies ==
    Made("shl") => Num(LastVec) = Num(Source) * Pow2[call.n]
=============================================================================
