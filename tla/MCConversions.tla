--------------------------- MODULE MCConversions ---------------------------
(***************************************************************************)
(* A small instance of Conversions for TLC: bytes of two bits, integers of *)
(* two and four.  A width of three does not fill its bytes, four is the    *)
(* widest integer, five and six are wider, with and without padding.       *)
(***************************************************************************)
EXTENDS ConversionsProps

CONSTANTS
    WidestVec,  \* the widest BitVec and SymBitVec
    MaxBytes    \* the longest byte sequence read

\* The number whose 1 bits are at the positions b.
NumberOf ==
    [b \in SUBSET (0 .. MaxWidth - 1) |-> MapThenSumSet(LAMBDA i : 2 ^ i, b)]

SmallTypes == [w : 1 .. WidestVec, s : BOOLEAN]

WideSignedTypes == [w : Longest + 1 .. WidestVec, s : {TRUE}]

SmallBuffers == BoundedSeq(Words(ByteBits), MaxBytes)
=============================================================================
