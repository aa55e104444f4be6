-------------------------- MODULE ConversionsProps --------------------------
(***************************************************************************)
(* What the conversions of z3wire are to guarantee its client programs.    *)
(***************************************************************************)
EXTENDS Conversions

\* 2 to the power n: what the bit above the lowest n counts for.
Power(n)    == IF n = 0 THEN 1 ELSE 2 * Weight(n - 1)
PowersOfTwo == [n \in 0 .. MaxWidth |-> Power(n)]

(***************************************************************************)
(* Every BitVec is stored in the one way its readers rely on, whatever     *)
(* path it came by: in a signed container the bits above W copy the sign,  *)
(* in an unsigned one and in the last byte of a wide one they are zero     *)
(* (bit_vec.h:243-258, 127-134).  Terms have bits within their width only. *)
(***************************************************************************)
StoredWell(t) ==
    IF Narrow(t.w)
      THEN /\ Len(t.data) = 1
           /\ t.data[1] \in Words(Container(t.w))
           /\ \A i \in t.w .. Container(t.w) - 1 :
                 i \in t.data[1] <=> t.s /\ t.w - 1 \in t.data[1]
      ELSE /\ Len(t.data) = NumBytes(t.w)
           /\ \A i \in 1 .. Len(t.data) : t.data[i] \in Words(ByteBits)
           /\ Assemble(t.data) \in Words(t.w)

TypeOK ==
    /\ item.data \in Seq(Words(MaxWidth))
    /\ item.kind = "int" => item.w \in NativeWidths /\ item.data[1] \in Words(item.w)
    /\ item.kind = "bytes" => item.data \in Seq(Words(ByteBits))
    /\ item.kind \in {"sym", "expr"} /\ item.w # 0 => item.data[1] \in Words(item.w)
    /\ item.kind = "vec" => [w |-> item.w, s |-> item.s] \in VecTypes /\ StoredWell(item)

-----------------------------------------------------------------------------
(***************************************************************************)
(* A BitVec that is written out and read back is the same object and no    *)
(* truncation is reported: through value(), through bytes of either order  *)
(* and through the solver, for every width from a partial byte to a word   *)
(* wider than any integer, and for every sign.                             *)
(***************************************************************************)
RoundTrips ==
    item.kind = "vec" =>
        LET same == [vec |-> item, truncated |-> FALSE]
        IN  /\ Narrow(item.w) => TryFrom(item.w, item.s, NativeValue(item)) = same
            /\ TryFromLeBytes(item.w, item.s, ToLeBytes(item)) = same
            /\ TryFromBeBytes(item.w, item.s, ToBeBytes(item)) = same
            /\ ToConcrete(ToSymbolic(item)) = item

-----------------------------------------------------------------------------
(* The program seen as one that carries numbers *)

AbsNumber(t) ==
    IF t.kind = "vec" /\ Narrow(t.w)
      THEN Value(Container(t.w), t.s, t.data[1])
      ELSE Value(t.w, t.s, Assemble(t.data))

Abs(t) ==
    [kind |-> t.kind,
     w    |-> IF t.kind = "bytes" THEN Len(t.data) ELSE t.w,
     s    |-> t.s,
     n    |-> AbsNumber(t)]

Carried == INSTANCE Numbers WITH
    Pow2   <- PowersOfTwo,
    Inputs <- {[w |-> Len(b), n |-> AbsNumber(Bytes(b))] : b \in Buffers},
    thing  <- Abs(item),
    call   <- [call EXCEPT !.arg = Abs(call.arg)]

(***************************************************************************)
(* Whatever conversions a program chains and in whatever order, each keeps *)
(* the number, or reports or aborts when it does not (bit_vec.h:65-68),    *)
(* but for the integers of which Numbers promises nothing: the sign of a   *)
(* signed word survives its container, the missing and the surplus bytes   *)
(* and the bits of a partial byte count as they should, and two objects    *)
(* are equal exactly when their numbers are.                               *)
(***************************************************************************)
ImplementsNumbers == Carried!Spec

-----------------------------------------------------------------------------
(***************************************************************************)
(* What docs/design/concrete-types.md:58-60 says of From: an integer that  *)
(* it accepts is not changed.                                              *)
(***************************************************************************)
NeverNarrowsSilently ==
    call.op = "From" /\ call.told = "exact" /\ call.arg.kind = "int" =>
        AbsNumber(item) = AbsNumber(call.arg)

(***************************************************************************)
(* What bit_vec.h:65-66 says of the result of TryFrom: its flag tells      *)
(* whether the input was outside the representable range of the type.      *)
(***************************************************************************)
TruncatedMeansOutOfRange ==
    call.op = "TryFrom" /\ call.arg.kind = "int" =>
        (call.told = "truncated" <=> AbsNumber(call.arg) \notin Carried!ValueSet(item.w, item.s))

(***************************************************************************)
(* examples/usage/types.cc:33-35 says that a symbolic literal that does    *)
(* not fit its type does not compile: one that compiles is its number.     *)
(***************************************************************************)
LiteralsFit == call.op = "Literal" => AbsNumber(item) = AbsNumber(call.arg)
=============================================================================
