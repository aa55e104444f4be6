-------------------------- MODULE BitProgramProps --------------------------
(***************************************************************************)
(* What the structural API of z3wire is to guarantee its client programs.  *)
(***************************************************************************)
EXTENDS BitProgram

\* The functions of the API that are called; "read" and "bitwise" are the
\* calls that meet an uninitialized operand.
Ops ==
    {"start", "variable", "declare", "&", "|", "^", "~", "extract", "replace",
     "replace by", "concat", "rotl", "rotr", "rotl by", "rotr by",
     "read", "bitwise"}

(***************************************************************************)
(* Every SymBitVec object is either uninitialized or has bits at no other  *)
(* positions than those of its own width (the Z3W_CHECK of                 *)
(* sym_bit_vec.h:41), whatever windows and offsets were combined.          *)
(***************************************************************************)
TypeOK ==
    /\ vecs \in Seq(Terms \cup {NoExpr})
    /\ status \in {"running", "aborted", "undefined"}
    /\ call \in [op : Ops, vals : Seq(Terms \cup {NoExpr}), w : Nat, n : Nat]

-----------------------------------------------------------------------------
(* The program seen as one that handles arrays of bits *)

AbsVec(t) ==
    IF t = NoExpr THEN NoExpr
    ELSE [w |-> t.w, s |-> t.s, bit |-> [i \in Positions(t.w) |-> i \in t.b]]

AbsVecs(ts) == [i \in 1 .. Len(ts) |-> AbsVec(ts[i])]

Plain == INSTANCE BitArrays WITH
    Unset     <- NoExpr,
    Constants <- {AbsVec(t) : t \in Amounts},
    arrays    <- AbsVecs(vecs),
    status    <- IF status = "running" THEN "running" ELSE "stopped",
    call      <- [call EXCEPT !.vals = AbsVecs(call.vals)]

(***************************************************************************)
(* Whatever calls the program makes and in whatever order, every bit of    *)
(* every object is the bit that the documentation of the calls names:      *)
(* the concatenations of extract, replace and concat, the shifted masks of *)
(* the symbolic replace and the rotations put each bit in its place, a     *)
(* run-time window outside the operand aborts however large the size_t     *)
(* offset, and no result is made from an uninitialized operand.            *)
(***************************************************************************)
ImplementsBitArrays == Plain!Spec

-----------------------------------------------------------------------------
(***************************************************************************)
(* The two algorithms for replace agree: with a symbolic offset, the       *)
(* shifted mask gives what the concatenation gives with that number as a   *)
(* constant offset; and an offset at or above the width of the source, in  *)
(* an object of any width, changes nothing.                                *)
(***************************************************************************)
ReplaceFormsAgree ==
    \A a, f \in Held, lo \in Shifts : f.w <= a.w =>
        /\ InWindow(Number[lo.b], f.w, a.w) =>
              ReplaceBy(a, f, lo) = ReplaceAt(a, f, Number[lo.b])
        /\ Number[lo.b] >= a.w => ReplaceBy(a, f, lo) = a

(***************************************************************************)
(* The fields of a word are independent (the loop of replace calls at      *)
(* docs/usage/operations.md:491): two fields written at disjoint windows   *)
(* may be written in either order, and each reads back as it was written.  *)
(***************************************************************************)
FieldsAreIndependent ==
    \A a, f, g \in Held :
        \A lo, up \in 0 .. MaxWidth :
            lo + f.w <= up /\ up + g.w <= a.w =>
                LET both == ReplaceAt(ReplaceAt(a, f, lo), g, up)
                IN  /\ both = ReplaceAt(ReplaceAt(a, g, up), f, lo)
                    /\ ExtractFrom(both, f.w, lo).b = f.b
                    /\ ExtractFrom(both, g.w, up).b = g.b

(***************************************************************************)
(* For amounts of any width, narrower or wider than the value, rotr undoes *)
(* rotl and rotl undoes rotr; and when the amount fits the width of the    *)
(* value the symbolic forms agree with the constant ones.                  *)
(***************************************************************************)
RotationsCancel ==
    \A a \in Held, amount \in Shifts :
        /\ RotrBy(RotlBy(a, amount), amount) = a
        /\ RotlBy(RotrBy(a, amount), amount) = a
        /\ amount.b \in Words(a.w) =>
              /\ RotlBy(a, amount) = RotlConst(a, Number[amount.b])
              /\ RotrBy(a, amount) = RotrConst(a, Number[amount.b])

(***************************************************************************)
(* What docs/usage/operations.md:328 says of the rotations: the amount     *)
(* counts modulo the width of the value.                                   *)
(***************************************************************************)
RotationWraps ==
    call.op = "rotl by" =>
        LET source == call.vals[1]
            amount == call.vals[2]
        IN  vecs[Len(vecs)] = RotlConst(source, Number[amount.b] % source.w)
=============================================================================
