----------------------------- MODULE MCExamples -----------------------------
(***************************************************************************)
(* Instances of Examples for TLC: the circuits, views and snippets at the  *)
(* widths that the code has them, but for the adder, of 6 bits instead of  *)
(* 8, the source of the symbolic extraction, of 16 instead of 32 (and its  *)
(* offset), and a widening to 24 instead of 32.                            *)
(***************************************************************************)
EXTENDS Examples, FiniteSetsExt

PowersOfTwo == [n \in 0 .. MaxWidth |-> 2 ^ n]

NumberOf == [word \in SUBSET (0 .. 7) |-> MapThenSumSet(LAMBDA i : 2 ^ i, word)]

\* The words written: no bit, all bits, the lowest alone and the highest alone.
Extremes(w) == {{}, 0 .. w - 1, {0}, {w - 1}}

\* A fresh buffer is any word; these have ones that a write may disturb.
Buffers == {0 .. BufW - 1, {i \in 0 .. BufW - 1 : i % 3 = 0}}

\* All numbers of at most four bits; of a wider type, those around the least,
\* the middle and the greatest pattern, and one with every other bit.
Numbers(t) ==
    LET half == Pow2[t.w - 1]
        near == (0 .. 2) \cup (half - 2 .. half + 2) \cup {2 * half - 2, 2 * half - 1, (2 * half) \div 3}
    IN  {Term(t.w, t.s, p) : p \in IF t.w <= 4 THEN Patterns(t.w) ELSE near}

\* All words of at most five bits; of a wider type, patterns that tell bits apart.
Vectors(t) ==
    {W32!Vec(t.w, t.s, word) : word \in
        IF t.w <= 5 THEN SUBSET (0 .. t.w - 1)
        ELSE {{}, 0 .. t.w - 1}
                \cup {{i \in 0 .. t.w - 1 : i % m = k} : m \in {2, 3, 5}, k \in 0 .. 1}}
=============================================================================
