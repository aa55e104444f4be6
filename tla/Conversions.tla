----------------------------- MODULE Conversions -----------------------------
(***************************************************************************)
(* A client program of z3wire that carries one value from form to form: it *)
(* starts with an integer, bytes or a solver term and turns it into a      *)
(* BitVec, SymBitVec, Bool, SymBool, bytes or integer with the conversions *)
(* of bit_vec.h, sym_bit_vec.h, bool.h and sym_bool.h, any number of times.*)
(***************************************************************************)
EXTENDS BitVec

CONSTANTS
    VecTypes,  \* the types BitVec<W, S> and SymBitVec<W, S> the program uses
    Buffers    \* the byte sequences it reads

ASSUME ConversionsAssumption ==
    /\ VecTypes \subseteq [w : Widths, s : BOOLEAN]
    /\ Buffers \subseteq Seq(Words(ByteBits))
    /\ MaxWidth % ByteBits = 0  \* so that whole bytes are considered
    /\ \A bytes \in Buffers : Len(bytes) * ByteBits <= MaxWidth

VARIABLES
    item,  \* the thing the program holds
    call   \* the last call: [op, arg, told], told is what it said of its result

vars == <<item, call>>

\* Booleans and expressions of Bool sort have no width.
Truth(kind, flag) == Thing(kind, 0, FALSE, <<IF flag THEN {0} ELSE {}>>)

Running == call.told # "aborted"

\* The program starts with a thing made from nothing.
Fresh(op, thing) ==
    /\ call.op = "start"
    /\ item' = thing
    /\ call' = [op |-> op, arg |-> thing, told |-> "made"]

\* It calls a conversion of its thing.
Convert(op, told, thing) ==
    /\ Running
    /\ item' = thing
    /\ call' = [op |-> op, arg |-> item, told |-> told]

\* TryFrom and its likes report a truncation, From and its likes abort.
Report(op, r)  == Convert(op, IF r.truncated THEN "truncated" ELSE "exact", r.vec)
Require(op, r) == IF r.truncated THEN Convert(op, "aborted", item)
                                 ELSE Convert(op, "exact", r.vec)

-----------------------------------------------------------------------------
(* Where values come from *)

ReadInt ==
    \E n \in NativeWidths, s \in BOOLEAN :
        \E b \in Words(n) : Fresh("int", Native(n, s, b))

ReadBytes == \E bytes \in Buffers : Fresh("bytes", Bytes(bytes))

\* Bool(bool)
ReadBool == \E flag \in BOOLEAN : Fresh("bool", Truth("bool", flag))

\* SymBitVec(ctx, name) and SymBool(ctx, name), with what the model gives them.
NewVec == \E ty \in VecTypes : \E b \in Words(ty.w) : Fresh("variable", Sym(ty.w, ty.s, b))
NewFlag == \E flag \in BOOLEAN : Fresh("variable", Truth("symbool", flag))

\* BitVec()
DefaultVec == \E ty \in VecTypes : Fresh("default", Made(ty.w, ty.s, {}))

\* BitVec::Literal<Value>()
Literal ==
    \E ty \in VecTypes, b \in Words(Longest) :
        /\ LiteralCompiles(ty.w, ty.s, Value(Longest, TRUE, b))
        /\ Fresh("literal", Made(ty.w, ty.s, b))

\* SymBitVec::Literal<Value>(ctx)
SymbolicLiteral ==
    \E ty \in VecTypes, b \in Words(Longest) :
        /\ call.op = "start" /\ SymLiteralCompiles(ty.w, b)
        /\ item' = SymLiteral(ty.w, ty.s, b)
        /\ call' = [op |-> "Literal", arg |-> Native(Longest, FALSE, b), told |-> "made"]

-----------------------------------------------------------------------------
(* Into a BitVec *)

FromInt ==
    /\ item.kind = "int"
    /\ \E ty \in VecTypes :
          LET r == TryFrom(ty.w, ty.s, item)
          IN  Report("TryFrom", r) \/ Require("From", r)

FromLeBytes ==
    /\ item.kind = "bytes"
    /\ \E ty \in VecTypes :
          LET r == TryFromLeBytes(ty.w, ty.s, item.data)
          IN  Report("TryFromLeBytes", r) \/ Require("FromLeBytes", r)

FromBeBytes ==
    /\ item.kind = "bytes"
    /\ \E ty \in VecTypes :
          LET r == TryFromBeBytes(ty.w, ty.s, item.data)
          IN  Report("TryFromBeBytes", r) \/ Require("FromBeBytes", r)

-----------------------------------------------------------------------------
(* Out of a BitVec *)

TakeValue ==
    item.kind = "vec" /\ Narrow(item.w) /\ Convert("value", "exact", NativeValue(item))

Serialize ==
    /\ item.kind = "vec"
    /\ \/ Convert("ToLeBytes", "exact", Bytes(ToLeBytes(item)))
       \/ Convert("ToBeBytes", "exact", Bytes(ToBeBytes(item)))

\* operator==, with a BitVec read from the bytes of this one, which differ in
\* at most one bit.
Compare ==
    /\ item.kind = "vec"
    /\ \E flip \in {{}} \cup {{i} : i \in Positions(item.w)} :
          LET bytes == Split(Differ(Assemble(ToLeBytes(item)), flip), NumBytes(item.w))
              other == TryFromLeBytes(item.w, item.s, bytes).vec
          IN  Convert("==", IF Equal(item, other) THEN "equal" ELSE "different", other)

-----------------------------------------------------------------------------
(* Between concrete and symbolic *)

VecToSymbolic  == item.kind = "vec" /\ Convert("to_symbolic", "exact", ToSymbolic(item))
VecToConcrete  == item.kind = "sym" /\ Convert("to_concrete", "exact", ToConcrete(item))
BoolToSymbolic == item.kind = "bool" /\ Convert("to_symbolic", "exact", [item EXCEPT !.kind = "symbool"])
BoolToConcrete == item.kind = "symbool" /\ Convert("to_concrete", "exact", [item EXCEPT !.kind = "bool"])

\* expr(): a z3::expr of sort BitVec(w), or of sort Bool.
TakeExpr ==
    /\ item.kind \in {"sym", "symbool"}
    /\ Convert("expr", "exact", Thing("expr", item.w, FALSE, item.data))

\* SymBitVec::From and TryFrom; TryFrom gives nullopt for another sort.
VecFromExpr ==
    /\ item.kind = "expr"
    /\ \E ty \in VecTypes :
          LET vec == Sym(ty.w, ty.s, item.data[1])
          IN  IF item.w = ty.w
                THEN Convert("From", "exact", vec) \/ Convert("TryFrom", "exact", vec)
                ELSE Convert("From", "aborted", item) \/ Convert("TryFrom", "nullopt", item)

\* SymBool::From and TryFrom
FlagFromExpr ==
    /\ item.kind = "expr"
    /\ LET flag == [item EXCEPT !.kind = "symbool"]
       IN  IF item.w = 0
             THEN Convert("From", "exact", flag) \/ Convert("TryFrom", "exact", flag)
             ELSE Convert("From", "aborted", item) \/ Convert("TryFrom", "nullopt", item)

-----------------------------------------------------------------------------
Init ==
    /\ item = Bytes(<<>>)
    /\ call = [op |-> "start", arg |-> Bytes(<<>>), told |-> "made"]

Next ==
    \/ ReadInt \/ ReadBytes \/ ReadBool \/ NewVec \/ NewFlag \/ DefaultVec
    \/ Literal \/ SymbolicLiteral
    \/ FromInt \/ FromLeBytes \/ FromBeBytes
    \/ TakeValue \/ Serialize \/ Compare
    \/ VecToSymbolic \/ VecToConcrete \/ BoolToSymbolic \/ BoolToConcrete
    \/ TakeExpr \/ VecFromExpr \/ FlagFromExpr

Spec == Init /\ [][Next]_vars
=============================================================================
