------------------------------- MODULE BitVec -------------------------------
(***************************************************************************)
(* z3wire/bit_vec.h: the concrete BitVec<W, IsSigned>, how it is made from *)
(* and turned into C++ integers and bytes, and the two functions of        *)
(* z3wire/sym_bit_vec.h that turn it into a term and back.                 *)
(*                                                                         *)
(* A thing is a value of the client program, [kind, w, s, data]: its kind  *)
(* of C++ type, width and signedness, and the words it is stored in, least *)
(* significant first.  An integer, a term or a BitVec of at most Longest   *)
(* bits is one word; a wider BitVec is one word per byte.                  *)
(***************************************************************************)
EXTENDS Bits, SequencesExt

CONSTANTS
    ByteBits,      \* the width of a uint8_t: 8
    NativeWidths,  \* the widths of the C++ integer types: 8, 16, 32 and 64
    Longest        \* the widest of them: 64

ASSUME NativeAssumption ==
    /\ {ByteBits, Longest} \subseteq NativeWidths
    /\ NativeWidths \subseteq Widths
    /\ \A n \in NativeWidths : n <= Longest /\ n % ByteBits = 0

Thing(kind, w, s, data) == [kind |-> kind, w |-> w, s |-> s, data |-> data]

Native(w, s, b)        == Thing("int", w, s, <<b>>)
Bytes(bytes)        == Thing("bytes", 0, FALSE, bytes)
Stored(w, s, value) == Thing("vec", w, s, value)
Sym(w, s, b)        == Thing("sym", w, s, <<b>>)

Narrow(w)   == w <= Longest
NumBytes(w) == (w + ByteBits - 1) \div ByteBits

\* NarrowSigned and NarrowUnsigned: the smallest integer type for w bits.
Container(w) == Min({n \in NativeWidths : w <= n})

\* The number of a two's complement word.
Value(w, s, b) == IF s /\ w - 1 \in b THEN Number[b] - 2 * Weight(w - 1) ELSE Number[b]

SignExtended(w, b, wide) == IF w - 1 \in b THEN b \cup (w .. wide - 1) ELSE b

\* The n bytes of a word, and the word that bytes make.
Split(b, n) == [i \in 1 .. n |-> Slice(b, i * ByteBits - 1, (i - 1) * ByteBits)]
Assemble(bytes) ==
    UNION {{k + (i - 1) * ByteBits : k \in bytes[i]} : i \in DOMAIN bytes}

-----------------------------------------------------------------------------
(* Seeded faults.  Each is a slip that could be made in the definition it   *)
(* is named after; put in that definition's place, it must make TLC refute *)
(* the property it is listed with in PROJECT.json.                         *)

\* The sign is not copied into the bits of the container above w.
Truncated_NoSign(w, s, b) == b \cap Positions(w)

\* The padding of a signed value is written out with its sign.
ToLeBytes_NoMask(v) ==
    IF Narrow(v.w) THEN Split(v.data[1], NumBytes(v.w)) ELSE v.data

\* The bits of the last byte above the width are dropped without notice.
TryFromLeBytes_PaddingIgnored(w, s, bytes) ==
    LET n     == NumBytes(w)
        used  == IF w % ByteBits = 0 THEN ByteBits ELSE w % ByteBits
        raw   == [i \in 1 .. n |-> IF i <= Len(bytes) THEN bytes[i] ELSE {}]
        clear == [raw EXCEPT ![n] = @ \cap Positions(used)]
    IN  [vec |-> Stored(w, s,
                    IF Narrow(w) THEN <<SignExtended(w, Assemble(clear), Container(w))>>
                                 ELSE clear),
         truncated |-> \E i \in n + 1 .. Len(bytes) : bytes[i] # {}]

-----------------------------------------------------------------------------
(* Construction *)

\* static_cast<uint64_t>(raw)
Uint64(raw) ==
    IF raw.s THEN SignExtended(raw.w, raw.data[1], Longest) ELSE raw.data[1]

\* truncate: the low w bits, sign-extended in a signed container.
Truncated(w, s, b) ==
    IF s THEN SignExtended(w, b \cap Positions(w), Container(w))
         ELSE b \cap Positions(w)

\* BitVec(uint64_t): the bytes of a wide one above the eighth are zero.
Made(w, s, b) ==
    Stored(w, s, IF Narrow(w) THEN <<Truncated(w, s, b)>> ELSE Split(b, NumBytes(w)))

MinSigned(w)   == -Weight(w - 1)
MaxSigned(w)   == Weight(w - 1) - 1
MaxUnsigned(w) == 2 * Weight(w - 1) - 1

\* The static_asserts of Literal<Value>, an int64_t.
LiteralCompiles(w, s, value) ==
    IF Narrow(w) /\ s
      THEN MinSigned(w) <= value /\ value <= MaxSigned(w)
      ELSE value >= 0 /\ (Narrow(w) => value <= MaxUnsigned(w))

\* The static_assert of SymBitVec::Literal<Value>, a uint64_t, and its bv_val.
SymLiteralCompiles(w, b) == w >= Longest \/ b \subseteq Positions(w)
SymLiteral(w, s, b)      == Sym(w, s, b \cap Positions(w))

TryFrom(w, s, raw) ==
    LET bits     == Uint64(raw)
        vec      == Made(w, s, bits)
        val      == Value(Longest, TRUE, bits)
        negative == raw.s /\ raw.w - 1 \in raw.data[1]
    IN  [vec |-> vec,
         truncated |-> IF Narrow(w) /\ s
                         THEN val < MinSigned(w) \/ val > MaxSigned(w)
                         ELSE negative \/ (Narrow(w) /\ bits # vec.data[1])]

\* Missing bytes are zero; surplus bits that are not zero are truncated.
TryFromLeBytes(w, s, bytes) ==
    LET n     == NumBytes(w)
        used  == IF w % ByteBits = 0 THEN ByteBits ELSE w % ByteBits
        raw   == [i \in 1 .. n |-> IF i <= Len(bytes) THEN bytes[i] ELSE {}]
        clear == [raw EXCEPT ![n] = @ \cap Positions(used)]
    IN  [vec |-> IF Narrow(w) THEN Made(w, s, Assemble(clear)) ELSE Stored(w, s, clear),
         truncated |-> \/ \E i \in n + 1 .. Len(bytes) : bytes[i] # {}
                       \/ raw[n] # clear[n]]

TryFromBeBytes(w, s, bytes) == TryFromLeBytes(w, s, Reverse(bytes))

-----------------------------------------------------------------------------
(* Access *)

\* value(), of a narrow BitVec
NativeValue(v) == Native(Container(v.w), v.s, v.data[1])

ToLeBytes(v) ==
    IF Narrow(v.w) THEN Split(v.data[1] \cap Positions(v.w), NumBytes(v.w)) ELSE v.data

ToBeBytes(v) == Reverse(ToLeBytes(v))

\* operator==, for two of one type
Equal(a, b) ==
    IF Narrow(a.w) THEN a.data[1] = b.data[1] ELSE ToLeBytes(a) = ToLeBytes(b)

-----------------------------------------------------------------------------
(* Terms *)

\* to_symbolic: bv_val of the number, or of each byte, the last one cut off.
ToSymbolic(v) ==
    LET n    == NumBytes(v.w)
        used == IF v.w % ByteBits = 0 THEN ByteBits ELSE v.w % ByteBits
    IN  Sym(v.w, v.s,
            IF Narrow(v.w)
              THEN v.data[1] \cap Positions(v.w)
              ELSE Assemble([ToLeBytes(v) EXCEPT ![n] = @ \cap Positions(used)]))

\* to_concrete, with what the model gives to the term.
ToConcrete(t) ==
    IF Narrow(t.w)
      THEN TryFrom(t.w, t.s, Native(Longest, FALSE, t.data[1])).vec
      ELSE TryFromLeBytes(t.w, t.s,
               [i \in 1 .. NumBytes(t.w) |->
                  Slice(t.data[1], Min({i * ByteBits - 1, t.w - 1}), (i - 1) * ByteBits)]).vec
=============================================================================
