----------------------------- MODULE BitArrays -----------------------------
(***************************************************************************)
(* What z3wire promises a program that packs and unpacks bits: a           *)
(* SymBitVec is an array of bits, each call says of every bit of its       *)
(* result which bit of which operand it is, and no call reads a bit that   *)
(* is not there.                                                           *)
(***************************************************************************)
EXTENDS Bits, Sequences

CONSTANTS
    Unset,      \* an object that was declared and never given a value
    Constants,  \* the concrete amounts of the program: arrays
    Offsets,    \* the offsets the program computes
    MaxTurn,    \* bound: the largest constant rotation
    MaxObjects  \* bound: a program that has made this many objects makes no more calls

VARIABLES
    arrays,  \* the arrays: [w, s, bit], or Unset
    status,  \* "running" or "stopped"
    call     \* the last call: [op, vals, w, n]

vars == <<arrays, status, call>>

Array(w, s, bit) == [w |-> w, s |-> s, bit |-> bit]
Call(op, vals, w, n) == [op |-> op, vals |-> vals, w |-> w, n |-> n]

Made   == {arrays[i] : i \in 1 .. Len(arrays)}
Known  == Made \ {Unset}
Counts == {a \in Known : ~a.s} \cup Constants

\* The number in the low w bits of an array.
Low(w, a) == Number[{i \in Positions(w) : i < a.w /\ a.bit[i]}]

\* The program goes on, within the bound.
Going == status = "running" /\ Len(arrays) < MaxObjects

Does(c) == call' = c /\ Going /\ UNCHANGED status

New(a) == arrays' = Append(arrays, a)

-----------------------------------------------------------------------------
Input ==
    \E w \in Widths, s \in BOOLEAN :
        /\ Does(Call("variable", <<>>, w, 0))
        /\ \E bit \in [Positions(w) -> BOOLEAN] : New(Array(w, s, bit))

Declare == Does(Call("declare", <<>>, 0, 0)) /\ New(Unset)

\* Bit by bit, for two arrays of one type.
Logic(op, a, b, bit) ==
    Does(Call(op, <<a, b>>, a.w, 0)) /\ New(Array(a.w, a.s, bit))

Bitwise ==
    \/ \E a, b \in Known :
          /\ a.w = b.w /\ a.s = b.s
          /\ \/ Logic("&", a, b, [i \in Positions(a.w) |-> a.bit[i] /\ b.bit[i]])
             \/ Logic("|", a, b, [i \in Positions(a.w) |-> a.bit[i] \/ b.bit[i]])
             \/ Logic("^", a, b, [i \in Positions(a.w) |-> a.bit[i] # b.bit[i]])
    \/ \E a \in Known :
          /\ Does(Call("~", <<a>>, a.w, 0))
          /\ New(Array(a.w, a.s, [i \in Positions(a.w) |-> ~a.bit[i]]))

\* The w bits from lo on, all of them bits of a.
Extract ==
    \E a \in Known, w \in Widths, lo \in 0 .. MaxWidth :
        /\ Does(Call("extract", <<a>>, w, lo))
        /\ lo + w <= a.w
        /\ New(Array(w, FALSE, [i \in Positions(w) |-> a.bit[lo + i]]))

\* The bits lo .. lo+f.w-1 are those of f, all others are untouched.
Inserted(a, f, lo) ==
    [i \in Positions(a.w) |->
        IF lo <= i /\ i < lo + f.w THEN f.bit[i - lo] ELSE a.bit[i]]

Replace ==
    \E a, f \in Known, lo \in 0 .. MaxWidth :
        /\ Does(Call("replace", <<a, f>>, a.w, lo))
        /\ lo + f.w <= a.w
        /\ New(Array(a.w, a.s, Inserted(a, f, lo)))

\* The offset is the number of an array: what falls off the end has no effect.
ReplaceBy ==
    \E a, f \in Known, lo \in Counts :
        /\ Does(Call("replace by", <<a, f, lo>>, a.w, 0))
        /\ f.w <= a.w
        /\ New(Array(a.w, a.s, Inserted(a, f, Low(lo.w, lo))))

\* A Boolean is an array of one bit.
Concat ==
    \E a, b \in Known \cup {Array(1, FALSE, [i \in Positions(1) |-> flag]) :
                              flag \in BOOLEAN} :
        /\ Does(Call("concat", <<a, b>>, a.w + b.w, 0))
        /\ a.w + b.w \in Widths
        /\ New(Array(a.w + b.w, FALSE,
                     [i \in Positions(a.w + b.w) |->
                        IF i < b.w THEN b.bit[i] ELSE a.bit[i - b.w]]))

\* Bit i moves up, or down, by n positions around the width.
TurnedLeft(a, n)  == Array(a.w, a.s, [i \in Positions(a.w) |-> a.bit[(i - n) % a.w]])
TurnedRight(a, n) == Array(a.w, a.s, [i \in Positions(a.w) |-> a.bit[(i + n) % a.w]])

RotateConst ==
    \E a \in Known, n \in 0 .. MaxTurn :
        \/ Does(Call("rotl", <<a>>, a.w, n)) /\ New(TurnedLeft(a, n))
        \/ Does(Call("rotr", <<a>>, a.w, n)) /\ New(TurnedRight(a, n))

\* By the number of an array; of a wider array its low bits count.
RotateBy ==
    \E a \in Known, by \in Counts :
        \/ Does(Call("rotl by", <<a, by>>, a.w, 0)) /\ New(TurnedLeft(a, Low(a.w, by)))
        \/ Does(Call("rotr by", <<a, by>>, a.w, 0)) /\ New(TurnedRight(a, Low(a.w, by)))

(***************************************************************************)
(* The program stops only in a call that uses an array without a value, or *)
(* whose window is not within the array.                                   *)
(***************************************************************************)
Misuse ==
    /\ Going
    /\ status' = "stopped"
    /\ UNCHANGED arrays
    /\ \/ Unset \in Made /\ \E op \in {"read", "bitwise"} : call' = Call(op, <<Unset>>, 0, 0)
       \/ \E a \in Known, w \in Widths, lo \in Offsets :
             lo + w > a.w /\ call' = Call("extract", <<a>>, w, lo)
       \/ \E a, f \in Known, lo \in Offsets :
             lo + f.w > a.w /\ call' = Call("replace", <<a, f>>, a.w, lo)

Init ==
    /\ arrays = <<>>
    /\ status = "running"
    /\ call = Call("start", <<>>, 0, 0)

Next ==
    \/ Input \/ Declare \/ Bitwise
    \/ Extract \/ Replace \/ ReplaceBy \/ Concat
    \/ RotateConst \/ RotateBy \/ Misuse

Spec == Init /\ [][Next]_vars
=============================================================================
