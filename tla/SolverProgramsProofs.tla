------------------------ MODULE SolverProgramsProofs ------------------------
(***************************************************************************)
(* Proofs about the example programs that ask a solver: the two claims of  *)
(* midpoint_overflow.cc at every width, and, for every such width and      *)
(* every table, that each question is asked alone and what the answers     *)
(* about the midpoint are; and that the digits of a packet that satisfies  *)
(* the constraints of packet_gen.cc or packet_view.cc are what they ask,   *)
(* and that the witness of a path through the table takes that path.       *)
(***************************************************************************)
EXTENDS SolverPrograms, SymBitVecLemmas

-----------------------------------------------------------------------------
(* Words with given bits *)

\* The widths that the midpoint uses, and the word of 1.
LEMMA MidpointWidths ==
  /\ W \in Nat /\ W \in Widths /\ W + 1 \in Widths /\ W \in 0 .. MaxWidth
  /\ 1 < MaxWidth /\ 1 < W
  /\ Pow2[1] = 2
  /\ 2 <= Pow2[W - 1] /\ Pow2[W] = 2 * Pow2[W - 1] /\ Pow2[W - 1] \in Nat
<1>1. W \in Nat \ {0, 1} /\ W < MaxWidth /\ MaxWidth \in Nat /\ Pow2[1] = 2
  BY MidpointAssumption, Powers
<1>2. W \in Widths /\ W + 1 \in Widths /\ W \in 0 .. MaxWidth /\ 1 < W
  BY <1>1 DEF Widths
<1>3. 1 \in 0 .. MaxWidth /\ W - 1 \in 1 .. MaxWidth
  BY <1>1
<1>4. Pow2[1] <= Pow2[W - 1]
  BY <1>3, Pow2Mono
<1>5. QED
  BY <1>1, <1>2, <1>4, RangeBounds

\* There is a word with any given bits.
LEMMA WordOfBits ==
  ASSUME NEW f, \A i \in 0 .. (MaxWidth - 1) : f[i] \in {0, 1}
  PROVE  \A n \in 0 .. MaxWidth : \E p \in Patterns(n) : \A i \in 0 .. (n - 1) : Bit(i, p) = f[i]
<1> DEFINE S == {n \in Nat : n <= MaxWidth =>
                   \E p \in Patterns(n) : \A i \in 0 .. (n - 1) : Bit(i, p) = f[i]}
<1>1. 0 \in S
  <2>1. 0 \in Patterns(0) /\ 0 .. (0 - 1) = {}
    BY Powers DEF Patterns
  <2>2. QED
    BY <2>1
<1>2. ASSUME NEW n \in Nat, n \in S
      PROVE  n + 1 \in S
  <2>1. SUFFICES ASSUME n + 1 <= MaxWidth
                 PROVE  \E p \in Patterns(n + 1) : \A i \in 0 .. n : Bit(i, p) = f[i]
    OBVIOUS
  <2>2. n \in 0 .. (MaxWidth - 1) /\ n \in 0 .. MaxWidth
    BY <2>1, Powers
  <2>3. PICK p \in Patterns(n) : \A i \in 0 .. (n - 1) : Bit(i, p) = f[i]
    BY <1>2, <2>2
  <2>4. PICK m \in Nat \ {0} : m = Pow2[n] /\ Pow2[n + 1] = 2 * m
    <3>1. n \in 0 .. MaxWidth /\ n + 1 \in 1 .. MaxWidth /\ (n + 1) - 1 = n
      BY <2>2, Powers
    <3>2. QED
      BY <3>1, Pow2Type, Pow2Succ
  <2>5. PICK c \in {0, 1} : c = f[n]
    BY <2>2
  <2>6. p \in 0 .. (m - 1)
    BY <2>3, <2>4 DEF Patterns
  <2>7. PICK z \in Nat, x \in Nat : z = c * m /\ x = p + z
    BY <2>4, <2>5, <2>6
  <2>8. x \in Patterns(n + 1)
    <3>1. x \in 0 .. (2 * m - 1)
      BY <2>4, <2>5, <2>6, <2>7
    <3>2. QED
      BY <3>1, <2>4 DEF Patterns
  <2>9. Bit(n, x) = c
    <3>1. x = c * m + p /\ c \in Int /\ x \in Int
      BY <2>5, <2>6, <2>7
    <3>2. x \div m = c
      BY <2>4, <2>6, <2>7, <3>1, QuotientUnique
    <3>3. c % 2 = c
      BY <2>5
    <3>4. QED
      BY <2>4, <3>2, <3>3 DEF Bit
  <2>10. ASSUME NEW i \in 0 .. (n - 1)
         PROVE  Bit(i, x) = f[i]
    <3>1. x = p + c * Pow2[n] /\ x \in Int /\ p \in Int /\ c \in Int
      BY <2>4, <2>5, <2>6, <2>7
    <3>2. (x \div Pow2[i]) % 2 = (p \div Pow2[i]) % 2
      <4>1. n \in 0 .. MaxWidth /\ i \in 0 .. (n - 1)
        BY <2>2
      <4>2. QED
        BY <3>1, <4>1, LowBit
    <3>3. QED
      BY <2>3, <3>2 DEF Bit
  <2>11. \A i \in 0 .. n : i = n \/ i \in 0 .. (n - 1)
    OBVIOUS
  <2>12. \A i \in 0 .. n : Bit(i, x) = f[i]
    BY <2>5, <2>9, <2>10, <2>11
  <2>13. QED
    BY <2>8, <2>12
<1> HIDE DEF S
<1>3. Nat \subseteq S
  BY <1>1, <1>2, SetInduction
<1>4. ASSUME NEW n \in 0 .. MaxWidth
      PROVE  \E p \in Patterns(n) : \A i \in 0 .. (n - 1) : Bit(i, p) = f[i]
  <2>1. n \in Nat /\ n <= MaxWidth
    BY Powers
  <2>2. n \in S
    BY <1>3, <2>1
  <2>3. QED
    BY <2>1, <2>2 DEF S
<1>5. QED
  BY <1>4

\* x has the bits that p and q have in common, and y those in which they differ.
HalfAdded(w, p, q, x, y) ==
    \A i \in 0 .. (w - 1) : /\ Bit(i, x) = And(Bit(i, p), Bit(i, q))
                            /\ Bit(i, y) = Xor(Bit(i, p), Bit(i, q))

\* Two numbers are twice what they have in common, and what differs.
LEMMA CommonAndDifferent ==
  ASSUME NEW p \in Nat, NEW q \in Nat, NEW x \in Nat, NEW y \in Nat, NEW w \in 0 .. MaxWidth,
         HalfAdded(w, p, q, x, y)
  PROVE  Wrap(w, p) + Wrap(w, q) = Wrap(w, y) + 2 * Wrap(w, x)
<1> DEFINE S == {n \in Nat : n <= w =>
                   Wrap(n, p) + Wrap(n, q) = Wrap(n, y) + 2 * Wrap(n, x)}
<1>1. 0 \in S
  <2>1. Pow2[0] = 1 /\ \A z \in Nat : z % 1 = 0
    BY Powers
  <2>2. \A z \in Nat : Wrap(0, z) = 0
    BY <2>1 DEF Wrap
  <2>3. QED
    BY <2>2
<1>2. ASSUME NEW n \in Nat, n \in S
      PROVE  n + 1 \in S
  <2>1. SUFFICES ASSUME n + 1 <= w
                 PROVE  Wrap(n + 1, p) + Wrap(n + 1, q) = Wrap(n + 1, y) + 2 * Wrap(n + 1, x)
    OBVIOUS
  <2>2. n \in 0 .. (MaxWidth - 1) /\ n \in 0 .. (w - 1) /\ n \in 0 .. MaxWidth
    BY <2>1, Powers
  <2>3. PICK m \in Nat \ {0} : m = Pow2[n]
    BY <2>2, Pow2Type
  <2>4. \A z \in Nat : /\ Bit(n, z) \in {0, 1} /\ Wrap(n, z) \in Nat
                       /\ Wrap(n + 1, z) = Wrap(n, z) + m * Bit(n, z)
    BY <2>2, <2>3, TopBit DEF Bit
  <2>5. PICK bp \in {0, 1}, bq \in {0, 1} : bp = Bit(n, p) /\ bq = Bit(n, q)
    BY <2>4
  <2>6. Bit(n, x) = And(bp, bq) /\ Bit(n, y) = Xor(bp, bq)
    BY <2>2, <2>5 DEF HalfAdded
  <2>7. PICK wp \in Nat, wq \in Nat, wx \in Nat, wy \in Nat :
          /\ wp = Wrap(n, p) /\ wq = Wrap(n, q) /\ wx = Wrap(n, x) /\ wy = Wrap(n, y)
    BY <2>4
  <2>8. wp + wq = wy + 2 * wx
    BY <1>2, <2>1, <2>7
  <2>9. /\ Wrap(n + 1, p) = wp + m * bp /\ Wrap(n + 1, q) = wq + m * bq
        /\ Wrap(n + 1, x) = wx + m * And(bp, bq) /\ Wrap(n + 1, y) = wy + m * Xor(bp, bq)
    BY <2>4, <2>5, <2>6, <2>7
  <2>10. (wp + m * bp) + (wq + m * bq) = (wy + m * Xor(bp, bq)) + 2 * (wx + m * And(bp, bq))
    <3>1. CASE bp = 0 /\ bq = 0
      BY <2>3, <2>7, <2>8, <3>1 DEF Xor, And
    <3>2. CASE bp = 0 /\ bq = 1
      BY <2>3, <2>7, <2>8, <3>2 DEF Xor, And
    <3>3. CASE bp = 1 /\ bq = 0
      BY <2>3, <2>7, <2>8, <3>3 DEF Xor, And
    <3>4. CASE bp = 1 /\ bq = 1
      BY <2>3, <2>7, <2>8, <3>4 DEF Xor, And
    <3>5. QED
      BY <2>5, <3>1, <3>2, <3>3, <3>4
  <2>11. QED
    BY <2>9, <2>10
<1> HIDE DEF S
<1>3. Nat \subseteq S
  BY <1>1, <1>2, SetInduction
<1>4. QED
  BY <1>3 DEF S

-----------------------------------------------------------------------------
(* The two claims *)

\* The words of & and ^ , and what they add up to.
LEMMA BitwiseWords ==
  ASSUME NEW a \in Terms, NEW b \in Terms, a.w = W, b.w = W
  PROVE  /\ BitwiseAnd(a, b) \in Terms /\ BitwiseXor(a, b) \in Terms
         /\ BitwiseAnd(a, b).w = W /\ BitwiseXor(a, b).w = W
         /\ ~BitwiseAnd(a, b).s /\ ~BitwiseXor(a, b).s
         /\ a.p + b.p = BitwiseXor(a, b).p + 2 * BitwiseAnd(a, b).p
<1>1. a.p \in Patterns(W) /\ b.p \in Patterns(W) /\ a.p \in Nat /\ b.p \in Nat
  BY TermParts
<1>2. W \in 0 .. MaxWidth /\ W \in Widths
  BY MidpointWidths
<1>3. DEFINE f == [i \in 0 .. (MaxWidth - 1) |-> And(Bit(i, a.p), Bit(i, b.p))]
             g == [i \in 0 .. (MaxWidth - 1) |-> Xor(Bit(i, a.p), Bit(i, b.p))]
<1>4. \A i \in 0 .. (MaxWidth - 1) : f[i] \in {0, 1} /\ g[i] \in {0, 1}
  BY DEF And, Xor
<1>5. \A i \in 0 .. (W - 1) : i \in 0 .. (MaxWidth - 1)
  BY <1>2, Powers
<1>6. \E p \in Patterns(W) : \A i \in 0 .. (W - 1) : Bit(i, p) = And(Bit(i, a.p), Bit(i, b.p))
  <2>1. \E p \in Patterns(W) : \A i \in 0 .. (W - 1) : Bit(i, p) = f[i]
    BY <1>2, <1>4, WordOfBits
  <2>2. QED
    BY <2>1, <1>5
<1>7. \E p \in Patterns(W) : \A i \in 0 .. (W - 1) : Bit(i, p) = Xor(Bit(i, a.p), Bit(i, b.p))
  <2>1. \E p \in Patterns(W) : \A i \in 0 .. (W - 1) : Bit(i, p) = g[i]
    BY <1>2, <1>4, WordOfBits
  <2>2. QED
    BY <2>1, <1>5
<1>8. PICK x : x = CHOOSE p \in Patterns(W) :
                     \A i \in 0 .. (W - 1) : Bit(i, p) = And(Bit(i, a.p), Bit(i, b.p))
  OBVIOUS
<1>9. PICK y : y = CHOOSE p \in Patterns(W) :
                     \A i \in 0 .. (W - 1) : Bit(i, p) = Xor(Bit(i, a.p), Bit(i, b.p))
  OBVIOUS
<1>10. x \in Patterns(W) /\ \A i \in 0 .. (W - 1) : Bit(i, x) = And(Bit(i, a.p), Bit(i, b.p))
  BY <1>6, <1>8
<1>11. y \in Patterns(W) /\ \A i \in 0 .. (W - 1) : Bit(i, y) = Xor(Bit(i, a.p), Bit(i, b.p))
  BY <1>7, <1>9
<1>12. x \in Nat /\ y \in Nat
  BY <1>2, <1>10, <1>11, RangeBounds DEF Patterns
<1>13. Wrap(W, a.p) + Wrap(W, b.p) = Wrap(W, y) + 2 * Wrap(W, x)
  <2>1. PICK p \in Nat, q \in Nat : p = a.p /\ q = b.p
    BY <1>1
  <2>2. HalfAdded(W, p, q, x, y)
    BY <1>10, <1>11, <2>1 DEF HalfAdded
  <2>3. Wrap(W, p) + Wrap(W, q) = Wrap(W, y) + 2 * Wrap(W, x)
    BY <1>2, <1>12, <2>1, <2>2, CommonAndDifferent
  <2>4. QED
    BY <2>1, <2>3
<1>14. a.p + b.p = y + 2 * x
  BY <1>1, <1>2, <1>10, <1>11, <1>13, WrapOfPattern
<1>15. BitwiseAnd(a, b) = Term(W, FALSE, x) /\ BitwiseXor(a, b) = Term(W, FALSE, y)
  BY <1>8, <1>9 DEF BitwiseAnd, BitwiseXor
<1>16. QED
  BY <1>2, <1>10, <1>11, <1>12, <1>14, <1>15 DEF Term, Terms

\* A shift by One halves an unsigned term.
LEMMA ShiftByOne ==
  ASSUME NEW t \in Terms, ~t.s
  PROVE  /\ ShrBy(t, One) \in Terms
         /\ ShrBy(t, One).w = t.w /\ ~ShrBy(t, One).s
         /\ Num(ShrBy(t, One)) = Num(t) \div 2
<1>1. 1 \in Patterns(W) /\ W \in Widths
  BY MidpointWidths DEF Patterns
<1>2. One = Term(W, FALSE, 1)
  BY <1>1, WrapOfPattern DEF One, ToSymbolic
<1>3. One \in Terms /\ ~One.s /\ One.p = 1
  BY <1>1, <1>2 DEF Term, Terms
<1>4. FloorShift(Num(t), 1) = Num(t) \div 2
  BY MidpointWidths, Powers DEF FloorShift
<1>5. /\ ShrBy(t, One) \in Terms
      /\ Num(ShrBy(t, One)) = FloorShift(Num(t), 1)
      /\ ShrBy(t, One) = Term(t.w, t.s, Wrap(t.w, FloorShift(Num(t), 1)))
  BY <1>3, ShrByDivides
<1>6. QED
  BY <1>4, <1>5 DEF Term

\* The exact sum of two ends, and its half.
LEMMA CorrectIsExact ==
  ASSUME NEW p \in Patterns(W), NEW q \in Patterns(W)
  PROVE  LET a == Term(W, FALSE, p)
             b == Term(W, FALSE, q)
         IN  /\ a \in Terms /\ b \in Terms /\ p \in Nat /\ q \in Nat
             /\ Plus(a, b) \in Terms /\ Plus(a, b).w = W + 1 /\ ~Plus(a, b).s
             /\ Num(Plus(a, b)) = p + q
             /\ Correct(a, b) \in Terms
             /\ Correct(a, b).w = W + 1 /\ ~Correct(a, b).s
             /\ Num(Correct(a, b)) = (p + q) \div 2
<1> DEFINE a == Term(W, FALSE, p)
           b == Term(W, FALSE, q)
<1>1. p \in Nat /\ q \in Nat
  BY MidpointWidths, RangeBounds DEF Patterns
<1>2. a \in Terms /\ b \in Terms /\ Num(a) = p /\ Num(b) = q
  BY <1>1, MidpointWidths DEF Term, Terms, Num, Decode
<1>3. ArithResultWidth(a, b) = W + 1
  BY MidpointWidths DEF ArithResultWidth, Wider, Term
<1>4. W + 1 <= MaxWidth
  BY MidpointWidths DEF Widths
<1>5. Plus(a, b) \in Terms /\ Num(Plus(a, b)) = p + q
  BY <1>2, <1>3, <1>4, PlusIsExact
<1>6. Plus(a, b).w = W + 1 /\ ~Plus(a, b).s
  BY <1>3 DEF Plus, Term
<1>7. QED
  BY <1>1, <1>2, <1>5, <1>6, ShiftByOne DEF Correct

\* Unsigned terms of at most W + 1 bits are compared by their numbers.
LEMMA ComparedExactly ==
  ASSUME NEW a \in Terms, NEW b \in Terms, a.w = W, b.w = W + 1, ~a.s, ~b.s
  PROVE  MathEq(a, b) <=> Num(a) = Num(b)
<1>1. CommonWidth(a, b) <= MaxWidth
  BY MidpointWidths, TermParts DEF CommonWidth, Wider, Widths
<1>2. QED
  BY <1>1, MathComparisonsAreExact

\* The sum of two words, cut to W bits.
LEMMA CutSum ==
  ASSUME NEW t \in Terms, NEW p \in Patterns(W), NEW q \in Patterns(W), Num(t) = p + q
  PROVE  /\ UnsafeCast(t, W, FALSE) \in Terms
         /\ UnsafeCast(t, W, FALSE).w = W /\ ~UnsafeCast(t, W, FALSE).s
         /\ Num(UnsafeCast(t, W, FALSE)) = IF p + q >= Pow2[W] THEN p + q - Pow2[W] ELSE p + q
<1>1. W \in Widths /\ Pow2[W] \in Nat \ {0} /\ p \in Nat /\ q \in Nat
  BY MidpointWidths, RangeBounds DEF Patterns
<1>2. p < Pow2[W] /\ q < Pow2[W]
  BY <1>1 DEF Patterns
<1>3. PICK cut : cut = UnsafeCast(t, W, FALSE)
  OBVIOUS
<1>4. cut = Term(W, FALSE, Wrap(W, p + q)) /\ cut \in Terms
  <2>1. ASSUME NEW s \in BOOLEAN
        PROVE  /\ UnsafeCast(t, W, s) = Term(W, s, Wrap(W, Num(t)))
               /\ UnsafeCast(t, W, s) \in Terms
    BY <1>1, UnsafeCastIsWrap
  <2>2. FALSE \in BOOLEAN
    OBVIOUS
  <2>3. QED
    BY <1>3, <2>1, <2>2
<1>5. PICK k \in Int, total \in Int :
        /\ p + q = total + k * Pow2[W] /\ 0 <= total /\ total < Pow2[W]
        /\ total = IF p + q >= Pow2[W] THEN p + q - Pow2[W] ELSE p + q
  <2>1. CASE p + q >= Pow2[W]
    <3>1. p + q = (p + q - Pow2[W]) + 1 * Pow2[W] /\ 1 \in Int /\ p + q - Pow2[W] \in Int
      BY <1>1
    <3>2. 0 <= p + q - Pow2[W] /\ p + q - Pow2[W] < Pow2[W]
      BY <1>1, <1>2, <2>1
    <3>3. QED
      BY <2>1, <3>1, <3>2
  <2>2. CASE p + q < Pow2[W]
    <3>1. p + q = (p + q) + 0 * Pow2[W] /\ 0 \in Int /\ p + q \in Int /\ 0 <= p + q
      BY <1>1
    <3>2. ~(p + q >= Pow2[W])
      BY <1>1, <2>2
    <3>3. QED
      BY <2>2, <3>1, <3>2
  <2>3. QED
    BY <1>1, <2>1, <2>2
<1>6. total \in Patterns(W)
  BY <1>1, <1>5 DEF Patterns
<1>7. Wrap(W, p + q) = total
  <2>1. PICK u \in Int : u = p + q
    BY <1>1
  <2>2. u = total + k * Pow2[W]
    BY <1>5, <2>1
  <2>3. Wrap(W, u) = Wrap(W, total)
    BY <1>1, <2>2, WrapShift
  <2>4. QED
    BY <1>1, <1>6, <2>1, <2>3, WrapOfPattern
<1>8. cut.w = W /\ ~cut.s /\ cut.p = total
  BY <1>4, <1>7 DEF Term
<1>9. Num(cut) = total
  BY <1>4, <1>8, NumUnsigned
<1>10. QED
  BY <1>3, <1>4, <1>5, <1>8, <1>9

\* The usual formula: the half of what is left of the sum in W bits.
LEMMA BuggyIsWrapped ==
  ASSUME NEW p \in Patterns(W), NEW q \in Patterns(W)
  PROVE  LET a == Term(W, FALSE, p)
             b == Term(W, FALSE, q)
         IN  /\ Buggy(a, b) \in Terms /\ Buggy(a, b).w = W /\ ~Buggy(a, b).s
             /\ Num(Buggy(a, b)) =
                  (IF p + q >= Pow2[W] THEN p + q - Pow2[W] ELSE p + q) \div 2
<1> DEFINE a == Term(W, FALSE, p)
           b == Term(W, FALSE, q)
<1>1. Plus(a, b) \in Terms /\ Num(Plus(a, b)) = p + q
  BY CorrectIsExact
<1>2. PICK cut \in Terms :
        /\ cut = UnsafeCast(Plus(a, b), W, FALSE) /\ cut.w = W /\ ~cut.s
        /\ Num(cut) = IF p + q >= Pow2[W] THEN p + q - Pow2[W] ELSE p + q
  BY <1>1, CutSum
<1>3. Buggy(a, b) = ShrBy(cut, One)
  BY <1>2 DEF Buggy
<1>4. QED
  BY <1>2, <1>3, ShiftByOne

\* The bit-hack: the half of the sum itself.
LEMMA HackIsExact ==
  ASSUME NEW p \in Patterns(W), NEW q \in Patterns(W)
  PROVE  LET a == Term(W, FALSE, p)
             b == Term(W, FALSE, q)
         IN  /\ Hack(a, b) \in Terms /\ Hack(a, b).w = W /\ ~Hack(a, b).s
             /\ Num(Hack(a, b)) = (p + q) \div 2
<1> DEFINE a == Term(W, FALSE, p)
           b == Term(W, FALSE, q)
<1>1. /\ a \in Terms /\ b \in Terms /\ p \in Nat /\ q \in Nat
      /\ a.w = W /\ b.w = W /\ a.p = p /\ b.p = q
  BY CorrectIsExact DEF Term
<1>2. /\ BitwiseAnd(a, b) \in Terms /\ BitwiseXor(a, b) \in Terms
      /\ BitwiseAnd(a, b).w = W /\ BitwiseXor(a, b).w = W
      /\ ~BitwiseAnd(a, b).s /\ ~BitwiseXor(a, b).s
      /\ p + q = BitwiseXor(a, b).p + 2 * BitwiseAnd(a, b).p
  BY <1>1, BitwiseWords
<1>3. PICK x \in Nat, y \in Nat : x = BitwiseAnd(a, b).p /\ y = BitwiseXor(a, b).p
  BY <1>2, TermParts
<1>4. PICK half \in Terms :
        /\ half = ShrBy(BitwiseXor(a, b), One)
        /\ half.w = W /\ ~half.s /\ Num(half) = y \div 2
  BY <1>2, <1>3, ShiftByOne, NumUnsigned
<1>5. PICK common \in Terms :
        /\ common = BitwiseAnd(a, b) /\ common.w = W /\ ~common.s /\ Num(common) = x
  BY <1>2, <1>3, NumUnsigned
<1>6. ArithResultWidth(common, half) = W + 1 /\ W + 1 <= MaxWidth
  <2>1. common.s = half.s /\ Wider(common.w, half.w) = W
    BY <1>4, <1>5, MidpointWidths, TermParts DEF Wider
  <2>2. QED
    BY <2>1, MidpointWidths DEF ArithResultWidth, Widths
<1>7. PICK sum \in Terms : sum = Plus(common, half) /\ Num(sum) = x + y \div 2
  <2>1. Plus(common, half) \in Terms /\ Num(Plus(common, half)) = Num(common) + Num(half)
    BY <1>6, PlusIsExact
  <2>2. QED
    BY <1>4, <1>5, <2>1
<1>8. x + y \div 2 = (p + q) \div 2
  <2>1. p + q = y + 2 * x
    BY <1>2, <1>3
  <2>2. (y + 2 * x) \div 2 = x + y \div 2
    <3>1. x \in Int /\ y \in Int
      OBVIOUS
    <3>2. QED
      BY <3>1, HalfOfDouble, Zenon
  <2>3. QED
    BY <2>1, <2>2
<1>9. (p + q) \div 2 \in ValueSet(W, FALSE)
  <2>1. p < Pow2[W] /\ q < Pow2[W] /\ Pow2[W] \in Nat
    BY MidpointWidths, RangeBounds DEF Patterns
  <2>2. QED
    BY <1>1, <2>1 DEF ValueSet
<1>10. PICK cut : cut = UnsafeCast(sum, W, FALSE)
  OBVIOUS
<1>11. cut \in Terms /\ cut.w = W /\ ~cut.s
  BY <1>10, MidpointWidths, UnsafeCastIsWrap
<1>12. Num(cut) = (p + q) \div 2
  BY <1>7, <1>8, <1>9, <1>10, MidpointWidths, CastKeeps
<1>13. Hack(a, b) = cut
  BY <1>4, <1>5, <1>7, <1>10 DEF Hack
<1>14. QED
  BY <1>11, <1>12, <1>13

(***************************************************************************)
(* At every width, the usual midpoint formula is wrong exactly for the     *)
(* ends whose sum does not fit (midpoint_overflow.cc:40-43).               *)
(***************************************************************************)
THEOREM BuggyOverflows == BuggyDiffers = {pair \in Pairs : pair[1] + pair[2] >= Pow2[W]}
<1>1. ASSUME NEW pair \in Pairs
      PROVE  ~MathEq(Buggy(Term(W, FALSE, pair[1]), Term(W, FALSE, pair[2])),
                     Correct(Term(W, FALSE, pair[1]), Term(W, FALSE, pair[2])))
             <=> pair[1] + pair[2] >= Pow2[W]
  <2>1. PICK p \in Patterns(W), q \in Patterns(W) : pair[1] = p /\ pair[2] = q
    BY DEF Pairs
  <2>2. DEFINE a == Term(W, FALSE, p)
               b == Term(W, FALSE, q)
  <2>3. /\ Correct(a, b) \in Terms /\ Correct(a, b).w = W + 1 /\ ~Correct(a, b).s
        /\ Num(Correct(a, b)) = (p + q) \div 2 /\ p \in Nat /\ q \in Nat
    BY CorrectIsExact
  <2>4. /\ Buggy(a, b) \in Terms /\ Buggy(a, b).w = W /\ ~Buggy(a, b).s
        /\ Num(Buggy(a, b)) = (IF p + q >= Pow2[W] THEN p + q - Pow2[W] ELSE p + q) \div 2
    BY BuggyIsWrapped
  <2>5. MathEq(Buggy(a, b), Correct(a, b)) <=> Num(Buggy(a, b)) = Num(Correct(a, b))
    BY <2>3, <2>4, ComparedExactly
  <2>6. PICK h \in Nat \ {0} : Pow2[W] = 2 * h
    BY MidpointWidths
  <2>7. (p + q - 2 * h) \div 2 # (p + q) \div 2
    BY <2>3, <2>6
  <2>8. QED
    BY <2>1, <2>3, <2>4, <2>5, <2>6, <2>7
<1>2. QED
  BY <1>1 DEF BuggyDiffers

(***************************************************************************)
(* "Prove the bit-hack always matches the correct result"                  *)
(* (midpoint_overflow.cc:54): it does, at every width.                     *)
(***************************************************************************)
THEOREM HackIsCorrect == HackDiffers = {}
<1>1. ASSUME NEW pair \in Pairs
      PROVE  MathEq(Hack(Term(W, FALSE, pair[1]), Term(W, FALSE, pair[2])),
                    Correct(Term(W, FALSE, pair[1]), Term(W, FALSE, pair[2])))
  <2>1. PICK p \in Patterns(W), q \in Patterns(W) : pair[1] = p /\ pair[2] = q
    BY DEF Pairs
  <2>2. DEFINE a == Term(W, FALSE, p)
               b == Term(W, FALSE, q)
  <2>3. /\ Correct(a, b) \in Terms /\ Correct(a, b).w = W + 1 /\ ~Correct(a, b).s
        /\ Num(Correct(a, b)) = (p + q) \div 2
    BY CorrectIsExact
  <2>4. /\ Hack(a, b) \in Terms /\ Hack(a, b).w = W /\ ~Hack(a, b).s
        /\ Num(Hack(a, b)) = (p + q) \div 2
    BY HackIsExact
  <2>5. QED
    BY <2>1, <2>3, <2>4, ComparedExactly
<1>2. QED
  BY <1>1 DEF HackDiffers

-----------------------------------------------------------------------------
(* The programs *)

\* What the solver holds at each step: the midpoint's keeps an empty frame below.
AskedInv ==
    /\ program \in Programs
    /\ step \in {"solver", "add", "check", "pop"}
    /\ step \in {"add", "check"} => question \in DOMAIN Questions
    /\ program = "midpoint" =>
          /\ step = "solver" => frames = <<{}>>
          /\ step = "add" => frames = <<{}, {}>>
          /\ step = "check" => frames = <<{}, Constraints(question)>>
          /\ step = "pop" => frames = <<{}, frames[2]>>
    /\ program # "midpoint" =>
          /\ step # "pop"
          /\ step = "add" => frames = <<{}>>
          /\ step = "check" => frames = <<Constraints(question)>>

\* The verdicts that midpoint_overflow.cc announces, and none else.
TrueVerdicts ==
    program = "midpoint" =>
        reported \subseteq {[question |-> 1, sat |-> TRUE], [question |-> 2, sat |-> FALSE]}

\* What is printed as a counterexample is one.
PrintedInv ==
    Printed("midpoint") => line.answer \in Pairs /\ ClaimHolds(line.question, line.answer)

ProgramInv == AskedInv /\ TrueVerdicts /\ PrintedInv

\* Pushing on one frame, and popping it again.
LEMMA OneFrameMore ==
  ASSUME NEW c, NEW d
  PROVE  /\ Append(<<c>>, d) = <<c, d>>
         /\ Len(<<c, d>>) = 2 /\ SubSeq(<<c, d>>, 1, 1) = <<c>>
<1>1. Len(<<c, d>>) = 2
  OBVIOUS
<1>2. Append(<<c>>, d) = <<c, d>>
  <2>1. PICK s : s = Append(<<c>>, d)
    OBVIOUS
  <2>2. <<c>> \in Seq({c, d}) /\ Len(<<c>>) = 1
    OBVIOUS
  <2>3. s \in Seq({c, d}) /\ Len(s) = 2 /\ s[1] = c /\ s[2] = d
    BY <2>1, <2>2
  <2>4. s = <<c, d>>
    BY <2>3
  <2>5. QED
    BY <2>1, <2>4
<1>3. SubSeq(<<c, d>>, 1, 1) = <<c>>
  <2>1. PICK s : s = SubSeq(<<c, d>>, 1, 1)
    OBVIOUS
  <2>2. <<c, d>> \in Seq({c, d})
    OBVIOUS
  <2>3. s \in Seq({c, d}) /\ Len(s) = 1 /\ s[1] = c
    BY <2>1, <2>2
  <2>4. s = <<c>>
    BY <2>3
  <2>5. QED
    BY <2>1, <2>4
<1>4. QED
  BY <1>1, <1>2, <1>3

\* What is asserted in one frame, or in one above an empty one.
LEMMA AssertedByFrames ==
  ASSUME NEW c
  PROVE  /\ frames = <<c>> => Asserted = c
         /\ frames = <<{}, c>> => Asserted = c
<1>1. ASSUME frames = <<c>>
      PROVE  Asserted = c
  <2>1. DOMAIN frames = {1} /\ frames[1] = c
    BY <1>1
  <2>2. QED
    BY <2>1 DEF Asserted
<1>2. ASSUME frames = <<{}, c>>
      PROVE  Asserted = c
  <2>1. DOMAIN frames = {1, 2} /\ frames[1] = {} /\ frames[2] = c
    BY <1>2
  <2>2. QED
    BY <2>1 DEF Asserted
<1>3. QED
  BY <1>1, <1>2

\* At a check the solver holds the constraints of the question.
LEMMA AskedAlone ==
  ASSUME AskedInv
  PROVE  QuestionsAreAskedAlone
BY AssertedByFrames DEF AskedInv, QuestionsAreAskedAlone

\* The claims and the questions of the midpoint.
LEMMA MidpointQuestions ==
  ASSUME program = "midpoint"
  PROVE  /\ DOMAIN Questions = {1, 2} /\ Questions[1] = "buggy" /\ Questions[2] = "hack"
         /\ Answers = Pairs
         /\ \A q : Constraints(q) = {Claims[q]} /\ Questions[q] = Claims[q]
BY DEF Questions, Claims, Answers, Constraints

\* At a check of the midpoint, a solution refutes the claim at hand.
LEMMA SolutionRefutes ==
  ASSUME AskedInv, step = "check", program = "midpoint", NEW m
  PROVE  IsSolution(m) <=> ClaimHolds(Questions[question], m)
<1>1. Asserted = {Questions[question]}
  BY AskedAlone, MidpointQuestions DEF QuestionsAreAskedAlone
<1>2. IsSolution(m) <=> \A c \in Asserted : ClaimHolds(c, m)
  BY DEF IsSolution
<1>3. QED
  BY <1>1, <1>2

\* The usual formula has a counterexample.
LEMMA BuggyHasOne == \E m \in Pairs : m \in BuggyDiffers
<1>1. /\ Pow2[W - 1] \in Patterns(W)
      /\ Pow2[W - 1] + Pow2[W - 1] >= Pow2[W]
  BY MidpointWidths DEF Patterns
<1>2. <<Pow2[W - 1], Pow2[W - 1]>> \in Pairs
  BY <1>1 DEF Pairs
<1>3. QED
  BY <1>1, <1>2, BuggyOverflows

\* The steps before a check.
LEMMA AskingKeeps ==
  ASSUME ProgramInv, NewSolver \/ Push \/ Add
  PROVE  ProgramInv'
<1>1. program' = program /\ question' = question /\ reported' = reported
  BY DEF NewSolver, Push, Add
<1>2. Questions' = Questions /\ \A q : Constraints(q)' = Constraints(q)
  BY <1>1 DEF Questions, Constraints
<1>3. CASE NewSolver
  BY <1>1, <1>2, <1>3
     DEF NewSolver, FreshSolver, ProgramInv, AskedInv, TrueVerdicts, PrintedInv, Printed
<1>4. CASE Push
  <2>1. frames = <<{}>> /\ program = "midpoint" /\ step' = "add" /\ line' = <<>>
        /\ question \in DOMAIN Questions
    BY <1>4 DEF Push, ProgramInv, AskedInv
  <2>2. frames' = <<{}, {}>>
    BY <1>4, <2>1, OneFrameMore DEF Push
  <2>3. QED
    BY <1>1, <1>2, <2>1, <2>2 DEF ProgramInv, AskedInv, TrueVerdicts, PrintedInv, Printed
<1>5. CASE Add
  <2>1. /\ step = "add" /\ step' = "check" /\ line' = line
        /\ frames' = [frames EXCEPT ![Len(frames)] = @ \cup Constraints(question)]
        /\ question \in DOMAIN Questions
    BY <1>5 DEF Add, ProgramInv, AskedInv
  <2>2. CASE program = "midpoint"
    <3>1. frames = <<{}, {}>>
      BY <2>1, <2>2 DEF ProgramInv, AskedInv
    <3>2. frames' = <<{}, Constraints(question)>>
      BY <2>1, <3>1
    <3>3. QED
      BY <1>1, <1>2, <2>1, <2>2, <3>2
         DEF ProgramInv, AskedInv, TrueVerdicts, PrintedInv, Printed, ClaimHolds
  <2>3. CASE program # "midpoint"
    <3>1. frames = <<{}>>
      BY <2>1, <2>3 DEF ProgramInv, AskedInv
    <3>2. frames' = <<Constraints(question)>>
      BY <2>1, <3>1
    <3>3. QED
      BY <1>1, <1>2, <2>1, <2>3, <3>2
         DEF ProgramInv, AskedInv, TrueVerdicts, PrintedInv, Printed
  <2>4. QED
    BY <2>2, <2>3
<1>6. QED
  BY <1>3, <1>4, <1>5

\* A report of the midpoint.
LEMMA MidpointReport ==
  ASSUME ProgramInv, program = "midpoint", ReportModel \/ ReportUnsat
  PROVE  /\ program' = program /\ question' = question
         /\ step' = "pop" /\ frames' = frames /\ frames = <<{}, frames[2]>>
         /\ TrueVerdicts' /\ PrintedInv'
<1>1. /\ program' = program /\ question' = question
      /\ step = "check" /\ step' = "pop" /\ frames' = frames
  BY DEF ReportModel, ReportUnsat, AfterReport
<1>2. frames = <<{}, Constraints(question)>> /\ question \in {1, 2} /\ AskedInv
  BY <1>1, MidpointQuestions DEF ProgramInv, AskedInv
<1>3. frames = <<{}, frames[2]>>
  BY <1>2
<1>4. CASE ReportModel
  <2>1. PICK m \in Pairs : Report(TRUE, m) /\ IsSolution(m)
    BY <1>4, MidpointQuestions DEF ReportModel
  <2>2. ClaimHolds(Questions[question], m)
    BY <1>1, <1>2, <2>1, SolutionRefutes
  <2>3. question = 1 /\ Questions[question] = "buggy"
    BY <1>2, <2>2, MidpointQuestions, HackIsCorrect DEF ClaimHolds
  <2>4. line'.answer = m /\ line'.question = "buggy"
    BY <2>1, <2>3 DEF Report
  <2>5. PrintedInv'
    BY <2>1, <2>2, <2>3, <2>4 DEF PrintedInv, ClaimHolds
  <2>6. reported' = reported \cup {[question |-> 1, sat |-> TRUE]}
    BY <2>1, <2>3 DEF Report
  <2>7. TrueVerdicts'
    BY <2>6 DEF ProgramInv, TrueVerdicts
  <2>8. QED
    BY <1>1, <1>3, <2>5, <2>7
<1>5. CASE ReportUnsat
  <2>1. Report(FALSE, {}) /\ ~\E m \in Pairs : IsSolution(m)
    BY <1>5, MidpointQuestions DEF ReportUnsat
  <2>2. question = 2
    <3>1. SUFFICES ASSUME question = 1
                   PROVE  FALSE
      BY <1>2
    <3>2. PICK m \in Pairs : m \in BuggyDiffers
      BY BuggyHasOne
    <3>3. ClaimHolds(Questions[question], m)
      BY <3>1, <3>2, MidpointQuestions DEF ClaimHolds
    <3>4. IsSolution(m)
      BY <1>1, <1>2, <3>3, SolutionRefutes
    <3>5. QED
      BY <2>1, <3>4
  <2>3. line'.sat = FALSE
    BY <2>1 DEF Report
  <2>4. PrintedInv'
    BY <2>3 DEF PrintedInv, Printed
  <2>5. reported' = reported \cup {[question |-> 2, sat |-> FALSE]}
    BY <2>1, <2>2 DEF Report
  <2>6. TrueVerdicts'
    BY <2>5 DEF ProgramInv, TrueVerdicts
  <2>7. QED
    BY <1>1, <1>3, <2>4, <2>6
<1>6. QED
  BY <1>4, <1>5

\* Reports, and the pop after those of the midpoint.
LEMMA ReportingKeeps ==
  ASSUME ProgramInv, ReportModel \/ ReportUnsat \/ Pop
  PROVE  ProgramInv'
<1>1. CASE program = "midpoint" /\ (ReportModel \/ ReportUnsat)
  <2>1. /\ program' = program /\ question' = question
        /\ step' = "pop" /\ frames' = <<{}, frames'[2]>>
        /\ TrueVerdicts' /\ PrintedInv'
    BY <1>1, MidpointReport
  <2>2. QED
    BY <1>1, <2>1 DEF ProgramInv, AskedInv
<1>2. CASE program # "midpoint" /\ (ReportModel \/ ReportUnsat)
  <2>1. program' = program /\ step' = "solver"
    BY <1>2 DEF ReportModel, ReportUnsat, AfterReport
  <2>2. QED
    BY <1>2, <2>1 DEF ProgramInv, AskedInv, TrueVerdicts, PrintedInv, Printed
<1>3. CASE Pop
  <2>1. /\ step = "pop" /\ step' = "solver" /\ program' = program /\ program = "midpoint"
        /\ line' = line /\ reported' = reported
        /\ frames = <<{}, frames[2]>> /\ frames' = SubSeq(frames, 1, Len(frames) - 1)
    BY <1>3 DEF Pop, ProgramInv, AskedInv
  <2>2. frames' = <<{}>>
    <3>1. Len(frames) - 1 = 1
      BY <2>1, OneFrameMore
    <3>2. QED
      BY <2>1, <3>1, OneFrameMore
  <2>3. QED
    BY <2>1, <2>2 DEF ProgramInv, AskedInv, TrueVerdicts, PrintedInv, Printed, ClaimHolds
<1>4. QED
  BY <1>1, <1>2, <1>3

\* The invariant holds in every reachable state.
THEOREM ProgramInvariant == Spec => []ProgramInv
<1>1. Init => ProgramInv
  BY DEF Init, ProgramInv, AskedInv, TrueVerdicts, PrintedInv, Printed
<1>2. ProgramInv /\ [Next]_vars => ProgramInv'
  <2>1. SUFFICES ASSUME ProgramInv, [Next]_vars
                 PROVE  ProgramInv'
    OBVIOUS
  <2>2. CASE NewSolver \/ Push \/ Add
    BY <2>1, <2>2, AskingKeeps
  <2>3. CASE ReportModel \/ ReportUnsat \/ Pop
    BY <2>1, <2>3, ReportingKeeps
  <2>4. CASE UNCHANGED vars
    <3>1. /\ program' = program /\ question' = question /\ step' = step /\ frames' = frames
          /\ line' = line /\ reported' = reported
      BY <2>4 DEF vars
    <3>2. Questions' = Questions /\ \A q : Constraints(q)' = Constraints(q)
      BY <3>1 DEF Questions, Constraints
    <3>3. QED
      BY <2>1, <3>1, <3>2
         DEF ProgramInv, AskedInv, TrueVerdicts, PrintedInv, Printed, ClaimHolds
  <2>5. QED
    BY <2>1, <2>2, <2>3, <2>4 DEF Next
<1>3. QED
  BY <1>1, <1>2, PTL DEF Spec

(***************************************************************************)
(* When a solver is asked it holds the constraints of the question at hand *)
(* and none that an earlier one left behind, for every table and width     *)
(* (midpoint_overflow.cc:40-62, exact_match_table.cc:108).                 *)
(***************************************************************************)
THEOREM AnswersAreToTheQuestion == Spec => []QuestionsAreAskedAlone
<1>1. ProgramInv => QuestionsAreAskedAlone
  BY AskedAlone DEF ProgramInv
<1>2. QED
  BY <1>1, ProgramInvariant, PTL

(***************************************************************************)
(* The counterexample printed for the usual formula overflows, and is      *)
(* halved wrongly, at every width (midpoint_overflow.cc:43-47).            *)
(***************************************************************************)
THEOREM OverflowIsPrinted == Spec => []CounterexampleOverflows
<1>1. ASSUME ProgramInv
      PROVE  CounterexampleOverflows
  <2>1. SUFFICES ASSUME Printed("midpoint"), line.question = "buggy"
                 PROVE  LET total == line.answer[1] + line.answer[2]
                        IN  total >= Pow2[W] /\ (total - Pow2[W]) \div 2 # total \div 2
    BY DEF CounterexampleOverflows
  <2>2. line.answer \in Pairs /\ line.answer \in BuggyDiffers
    BY <1>1, <2>1 DEF ProgramInv, PrintedInv, ClaimHolds
  <2>3. PICK total \in Int : total = line.answer[1] + line.answer[2] /\ total >= Pow2[W]
    <3>1. line.answer[1] \in Nat /\ line.answer[2] \in Nat
      BY <2>2, MidpointWidths, RangeBounds DEF Pairs, Patterns
    <3>2. line.answer[1] + line.answer[2] >= Pow2[W]
      BY <2>2, BuggyOverflows
    <3>3. QED
      BY <3>1, <3>2
  <2>4. PICK h \in Nat \ {0} : Pow2[W] = 2 * h
    BY MidpointWidths
  <2>5. (total - 2 * h) \div 2 # total \div 2
    BY <2>3, <2>4
  <2>6. QED
    BY <2>3, <2>4, <2>5
<1>2. QED
  BY <1>1, ProgramInvariant, PTL

(***************************************************************************)
(* midpoint_overflow.cc reports no verdict but those that it announces:    *)
(* the usual formula has a counterexample, the bit-hack has none           *)
(* (midpoint_overflow.cc:1-2), whatever the width.                         *)
(***************************************************************************)
THEOREM VerdictsAreTrue == Spec => []TrueVerdicts
<1>1. ProgramInv => TrueVerdicts
  BY DEF ProgramInv
<1>2. QED
  BY <1>1, ProgramInvariant, PTL

-----------------------------------------------------------------------------
(* The digits of a packet *)

\* The packet has the number n in the w bits from lo.
Holds(packet, w, lo, n) ==
    \A i \in Nat : i < w => (i + lo \in packet <=> (n \div 2 ^ i) % 2 = 1)

\* Byte j of the frame, counted from the top, is n.
ByteAt(packet, j, n) == Holds(packet, 8, 424 - 8 * j, n)

\* A digit is the value of its four bits.
LEMMA DigitAt ==
  ASSUME NEW packet, NEW k \in 1 .. 108
  PROVE  ToHex(packet)[k] = (IF 432 - 4 * k \in packet THEN 1 ELSE 0)
                            + (IF 433 - 4 * k \in packet THEN 2 ELSE 0)
                            + (IF 434 - 4 * k \in packet THEN 4 ELSE 0)
                            + (IF 435 - 4 * k \in packet THEN 8 ELSE 0)
<1>1. PICK four : four = B!Slice(packet, BufW - 1 - 4 * (k - 1), BufW - 4 * k)
  OBVIOUS
<1>2. ToHex(packet)[k] = DigitOf(four)
  BY <1>1 DEF ToHex, BufW
<1>3. /\ 0 \in four <=> 432 - 4 * k \in packet
      /\ 1 \in four <=> 433 - 4 * k \in packet
      /\ 2 \in four <=> 434 - 4 * k \in packet
      /\ 3 \in four <=> 435 - 4 * k \in packet
  <2>1. four = {i - (432 - 4 * k) : i \in packet \cap ((432 - 4 * k) .. (435 - 4 * k))}
    <3>1. BufW - 1 - 4 * (k - 1) = 435 - 4 * k /\ BufW - 4 * k = 432 - 4 * k
      BY DEF BufW
    <3>2. QED
      BY <1>1, <3>1 DEF B!Slice
  <2>2. PICK lo \in Int : lo = 432 - 4 * k
    OBVIOUS
  <2>3. four = {i - lo : i \in packet \cap (lo .. lo + 3)}
    BY <2>1, <2>2
  <2>4. ASSUME NEW d \in 0 .. 3
        PROVE  d \in four <=> lo + d \in packet
    <3>1. lo + d \in lo .. lo + 3 /\ (lo + d) - lo = d
      OBVIOUS
    <3>2. \A i \in lo .. lo + 3 : i - lo = d => i = lo + d
      OBVIOUS
    <3>3. QED
      BY <2>3, <3>1, <3>2
  <2>5. QED
    <3>1. lo + 0 = 432 - 4 * k /\ lo + 1 = 433 - 4 * k /\ lo + 2 = 434 - 4 * k /\ lo + 3 = 435 - 4 * k
      BY <2>2
    <3>2. 0 \in 0 .. 3 /\ 1 \in 0 .. 3 /\ 2 \in 0 .. 3 /\ 3 \in 0 .. 3
      OBVIOUS
    <3>3. QED
      BY <2>4, <3>1, <3>2
<1>4. DigitOf(four) = (IF 0 \in four THEN 1 ELSE 0) + (IF 1 \in four THEN 2 ELSE 0)
                      + (IF 2 \in four THEN 4 ELSE 0) + (IF 3 \in four THEN 8 ELSE 0)
  BY DEF DigitOf
<1>5. QED
  BY <1>2, <1>3, <1>4

\* Two digits are the byte that the packet has there.
LEMMA ByteOfDigits ==
  ASSUME NEW packet, NEW j \in 0 .. 53, NEW n \in 0 .. 255, ByteAt(packet, j, n)
  PROVE  Byte(ToHex(packet), j) = n
<1>1. PICK lo \in Nat : lo = 424 - 8 * j /\ Holds(packet, 8, lo, n)
  BY DEF ByteAt
<1>2. PICK k \in 1 .. 107 : k = 2 * j + 1
  OBVIOUS
<1>3. /\ 432 - 4 * k = 4 + lo /\ 433 - 4 * k = 5 + lo /\ 434 - 4 * k = 6 + lo
      /\ 435 - 4 * k = 7 + lo
      /\ 432 - 4 * (k + 1) = 0 + lo /\ 433 - 4 * (k + 1) = 1 + lo /\ 434 - 4 * (k + 1) = 2 + lo
      /\ 435 - 4 * (k + 1) = 3 + lo
      /\ k \in 1 .. 108 /\ k + 1 \in 1 .. 108
  BY <1>1, <1>2
<1>4. /\ 0 + lo \in packet <=> n % 2 = 1
      /\ 1 + lo \in packet <=> (n \div 2) % 2 = 1
      /\ 2 + lo \in packet <=> (n \div 4) % 2 = 1
      /\ 3 + lo \in packet <=> (n \div 8) % 2 = 1
      /\ 4 + lo \in packet <=> (n \div 16) % 2 = 1
      /\ 5 + lo \in packet <=> (n \div 32) % 2 = 1
      /\ 6 + lo \in packet <=> (n \div 64) % 2 = 1
      /\ 7 + lo \in packet <=> (n \div 128) % 2 = 1
  <2>1. /\ 2 ^ 0 = 1 /\ 2 ^ 1 = 2 /\ 2 ^ 2 = 4 /\ 2 ^ 3 = 8
        /\ 2 ^ 4 = 16 /\ 2 ^ 5 = 32 /\ 2 ^ 6 = 64 /\ 2 ^ 7 = 128
    OBVIOUS
  <2>2. n \div 1 = n
    OBVIOUS
  <2>3. /\ 0 \in 0 .. 7 /\ 1 \in 0 .. 7 /\ 2 \in 0 .. 7 /\ 3 \in 0 .. 7
        /\ 4 \in 0 .. 7 /\ 5 \in 0 .. 7 /\ 6 \in 0 .. 7 /\ 7 \in 0 .. 7
    OBVIOUS
  <2>4. \A i \in 0 .. 7 : i + lo \in packet <=> (n \div 2 ^ i) % 2 = 1
    BY <1>1 DEF Holds
  <2>5. QED
    BY <2>1, <2>2, <2>3, <2>4
<1>5. PICK d \in Nat : d = ToHex(packet)[k] /\ d = n \div 16
  <2>1. ToHex(packet)[k] = (IF (n \div 16) % 2 = 1 THEN 1 ELSE 0)
                            + (IF (n \div 32) % 2 = 1 THEN 2 ELSE 0)
                            + (IF (n \div 64) % 2 = 1 THEN 4 ELSE 0)
                            + (IF (n \div 128) % 2 = 1 THEN 8 ELSE 0)
    BY <1>3, <1>4, DigitAt
  <2>2. QED
    BY <2>1
<1>6. PICK e \in Nat : e = ToHex(packet)[k + 1] /\ e = n % 16
  <2>1. ToHex(packet)[k + 1] = (IF n % 2 = 1 THEN 1 ELSE 0)
                            + (IF (n \div 2) % 2 = 1 THEN 2 ELSE 0)
                            + (IF (n \div 4) % 2 = 1 THEN 4 ELSE 0)
                            + (IF (n \div 8) % 2 = 1 THEN 8 ELSE 0)
    BY <1>3, <1>4, DigitAt
  <2>2. QED
    BY <2>1
<1>7. 2 * j + 2 = k + 1 /\ 16 * d + e = n
  BY <1>2, <1>5, <1>6
<1>8. QED
  BY <1>2, <1>5, <1>6, <1>7 DEF Byte

\* A constraint on a field says which of its bits are 1.
LEMMA FieldHolds ==
  ASSUME NEW packet, NEW w \in Nat \ {0}, NEW lo \in Nat, NEW literal \in Nat,
         ConstraintHolds(Is(w, lo, literal), packet)
  PROVE  Holds(packet, w, lo, literal)
<1>1. Field(packet, Is(w, lo, literal)) = WordOf(w, literal)
  BY DEF ConstraintHolds, Is
<1>2. Field(packet, Is(w, lo, literal)) = B!Slice(packet, lo + w - 1, lo)
  BY DEF Field, Is, B!ExtractFrom, B!Vec
<1>3. ASSUME NEW i \in 0 .. w - 1
      PROVE  i + lo \in packet <=> (literal \div 2 ^ i) % 2 = 1
  <2>1. i + lo \in lo .. lo + w - 1 /\ (i + lo) - lo = i
    OBVIOUS
  <2>2. \A k \in lo .. lo + w - 1 : k - lo = i => k = i + lo
    OBVIOUS
  <2>3. i \in B!Slice(packet, lo + w - 1, lo) <=> i + lo \in packet
    BY <2>1, <2>2 DEF B!Slice
  <2>4. i \in WordOf(w, literal) <=> (literal \div 2 ^ i) % 2 = 1
    BY DEF WordOf
  <2>5. QED
    BY <1>1, <1>2, <2>3, <2>4
<1>4. QED
  BY <1>3 DEF Holds

\* An even part does not change whether a number is odd.
LEMMA EvenPart ==
  ASSUME NEW y \in Nat, NEW z \in Nat
  PROVE  (2 * y + z) % 2 = z % 2
OBVIOUS

\* The bits of a number that is made of two halves of a byte.
LEMMA BitsOfHalves ==
  ASSUME NEW a \in 0 .. 15, NEW b \in 0 .. 15, NEW n \in Nat, n = 16 * a + b
  PROVE  \A i \in 0 .. 3 : /\ (n \div 2 ^ i) % 2 = (b \div 2 ^ i) % 2
                         /\ (n \div 2 ^ (i + 4)) % 2 = (a \div 2 ^ i) % 2
<1> SUFFICES ASSUME NEW i \in 0 .. 3
             PROVE  /\ (n \div 2 ^ i) % 2 = (b \div 2 ^ i) % 2
                    /\ (n \div 2 ^ (i + 4)) % 2 = (a \div 2 ^ i) % 2
  OBVIOUS
<1>1. n = 16 * a + b
  OBVIOUS
<1>2. CASE i = 0
  <2>1. n \div 1 = 2 * (8 * a) + b \div 1 /\ n \div 16 = a \div 1
    BY <1>1
  <2>2. (n \div 1) % 2 = (b \div 1) % 2
    <3>1. 8 * a \in Nat /\ b \div 1 \in Nat
      OBVIOUS
    <3>2. QED
      BY <2>1, <3>1, EvenPart
  <2>3. 2 ^ i = 1 /\ 2 ^ (i + 4) = 16
    BY <1>2
  <2>4. QED
    BY <1>1, <2>1, <2>2, <2>3
<1>3. CASE i = 1
  <2>1. n \div 2 = 2 * (4 * a) + b \div 2 /\ n \div 32 = a \div 2
    BY <1>1
  <2>2. (n \div 2) % 2 = (b \div 2) % 2
    <3>1. 4 * a \in Nat /\ b \div 2 \in Nat
      OBVIOUS
    <3>2. QED
      BY <2>1, <3>1, EvenPart
  <2>3. 2 ^ i = 2 /\ 2 ^ (i + 4) = 32
    BY <1>3
  <2>4. QED
    BY <1>1, <2>1, <2>2, <2>3
<1>4. CASE i = 2
  <2>1. n \div 4 = 2 * (2 * a) + b \div 4 /\ n \div 64 = a \div 4
    BY <1>1
  <2>2. (n \div 4) % 2 = (b \div 4) % 2
    <3>1. 2 * a \in Nat /\ b \div 4 \in Nat
      OBVIOUS
    <3>2. QED
      BY <2>1, <3>1, EvenPart
  <2>3. 2 ^ i = 4 /\ 2 ^ (i + 4) = 64
    BY <1>4
  <2>4. QED
    BY <1>1, <2>1, <2>2, <2>3
<1>5. CASE i = 3
  <2>1. n \div 8 = 2 * (1 * a) + b \div 8 /\ n \div 128 = a \div 8
    BY <1>1
  <2>2. (n \div 8) % 2 = (b \div 8) % 2
    <3>1. 1 * a \in Nat /\ b \div 8 \in Nat
      OBVIOUS
    <3>2. QED
      BY <2>1, <3>1, EvenPart
  <2>3. 2 ^ i = 8 /\ 2 ^ (i + 4) = 128
    BY <1>5
  <2>4. QED
    BY <1>1, <2>1, <2>2, <2>3
<1>6. QED
  BY <1>2, <1>3, <1>4, <1>5

\* The same of two bytes.
LEMMA BitsOfBytes ==
  ASSUME NEW a \in 0 .. 255, NEW b \in 0 .. 255, NEW n \in Nat, n = 256 * a + b
  PROVE  \A i \in 0 .. 7 : /\ (n \div 2 ^ i) % 2 = (b \div 2 ^ i) % 2
                         /\ (n \div 2 ^ (i + 8)) % 2 = (a \div 2 ^ i) % 2
<1> SUFFICES ASSUME NEW i \in 0 .. 7
             PROVE  /\ (n \div 2 ^ i) % 2 = (b \div 2 ^ i) % 2
                    /\ (n \div 2 ^ (i + 8)) % 2 = (a \div 2 ^ i) % 2
  OBVIOUS
<1>1. n = 256 * a + b
  OBVIOUS
<1>2. CASE i = 0
  <2>1. n \div 1 = 2 * (128 * a) + b \div 1 /\ n \div 256 = a \div 1
    BY <1>1
  <2>2. (n \div 1) % 2 = (b \div 1) % 2
    <3>1. 128 * a \in Nat /\ b \div 1 \in Nat
      OBVIOUS
    <3>2. QED
      BY <2>1, <3>1, EvenPart
  <2>3. 2 ^ i = 1 /\ 2 ^ (i + 8) = 256
    BY <1>2
  <2>4. QED
    BY <1>1, <2>1, <2>2, <2>3
<1>3. CASE i = 1
  <2>1. n \div 2 = 2 * (64 * a) + b \div 2 /\ n \div 512 = a \div 2
    BY <1>1
  <2>2. (n \div 2) % 2 = (b \div 2) % 2
    <3>1. 64 * a \in Nat /\ b \div 2 \in Nat
      OBVIOUS
    <3>2. QED
      BY <2>1, <3>1, EvenPart
  <2>3. 2 ^ i = 2 /\ 2 ^ (i + 8) = 512
    BY <1>3
  <2>4. QED
    BY <1>1, <2>1, <2>2, <2>3
<1>4. CASE i = 2
  <2>1. n \div 4 = 2 * (32 * a) + b \div 4 /\ n \div 1024 = a \div 4
    BY <1>1
  <2>2. (n \div 4) % 2 = (b \div 4) % 2
    <3>1. 32 * a \in Nat /\ b \div 4 \in Nat
      OBVIOUS
    <3>2. QED
      BY <2>1, <3>1, EvenPart
  <2>3. 2 ^ i = 4 /\ 2 ^ (i + 8) = 1024
    BY <1>4
  <2>4. QED
    BY <1>1, <2>1, <2>2, <2>3
<1>5. CASE i = 3
  <2>1. n \div 8 = 2 * (16 * a) + b \div 8 /\ n \div 2048 = a \div 8
    BY <1>1
  <2>2. (n \div 8) % 2 = (b \div 8) % 2
    <3>1. 16 * a \in Nat /\ b \div 8 \in Nat
      OBVIOUS
    <3>2. QED
      BY <2>1, <3>1, EvenPart
  <2>3. 2 ^ i = 8 /\ 2 ^ (i + 8) = 2048
    BY <1>5
  <2>4. QED
    BY <1>1, <2>1, <2>2, <2>3
<1>6. CASE i = 4
  <2>1. n \div 16 = 2 * (8 * a) + b \div 16 /\ n \div 4096 = a \div 16
    BY <1>1
  <2>2. (n \div 16) % 2 = (b \div 16) % 2
    <3>1. 8 * a \in Nat /\ b \div 16 \in Nat
      OBVIOUS
    <3>2. QED
      BY <2>1, <3>1, EvenPart
  <2>3. 2 ^ i = 16 /\ 2 ^ (i + 8) = 4096
    BY <1>6
  <2>4. QED
    BY <1>1, <2>1, <2>2, <2>3
<1>7. CASE i = 5
  <2>1. n \div 32 = 2 * (4 * a) + b \div 32 /\ n \div 8192 = a \div 32
    BY <1>1
  <2>2. (n \div 32) % 2 = (b \div 32) % 2
    <3>1. 4 * a \in Nat /\ b \div 32 \in Nat
      OBVIOUS
    <3>2. QED
      BY <2>1, <3>1, EvenPart
  <2>3. 2 ^ i = 32 /\ 2 ^ (i + 8) = 8192
    BY <1>7
  <2>4. QED
    BY <1>1, <2>1, <2>2, <2>3
<1>8. CASE i = 6
  <2>1. n \div 64 = 2 * (2 * a) + b \div 64 /\ n \div 16384 = a \div 64
    BY <1>1
  <2>2. (n \div 64) % 2 = (b \div 64) % 2
    <3>1. 2 * a \in Nat /\ b \div 64 \in Nat
      OBVIOUS
    <3>2. QED
      BY <2>1, <3>1, EvenPart
  <2>3. 2 ^ i = 64 /\ 2 ^ (i + 8) = 16384
    BY <1>8
  <2>4. QED
    BY <1>1, <2>1, <2>2, <2>3
<1>9. CASE i = 7
  <2>1. n \div 128 = 2 * (1 * a) + b \div 128 /\ n \div 32768 = a \div 128
    BY <1>1
  <2>2. (n \div 128) % 2 = (b \div 128) % 2
    <3>1. 1 * a \in Nat /\ b \div 128 \in Nat
      OBVIOUS
    <3>2. QED
      BY <2>1, <3>1, EvenPart
  <2>3. 2 ^ i = 128 /\ 2 ^ (i + 8) = 32768
    BY <1>9
  <2>4. QED
    BY <1>1, <2>1, <2>2, <2>3
<1>10. QED
  BY <1>2, <1>3, <1>4, <1>5, <1>6, <1>7, <1>8, <1>9

\* Two halves of a byte are the byte.
LEMMA HalvesOfByte ==
  ASSUME NEW packet, NEW lo \in Nat, NEW a \in 0 .. 15, NEW b \in 0 .. 15,
         NEW up \in Nat, up = lo + 4, NEW n \in Nat, n = 16 * a + b,
         Holds(packet, 4, up, a), Holds(packet, 4, lo, b)
  PROVE  Holds(packet, 8, lo, n)
<1>1. \A i \in 0 .. 3 : /\ (n \div 2 ^ i) % 2 = (b \div 2 ^ i) % 2
                        /\ (n \div 2 ^ (i + 4)) % 2 = (a \div 2 ^ i) % 2
  BY BitsOfHalves, ZenonT(60)
<1>2. \A i \in 0 .. 3 : i + up \in packet <=> (a \div 2 ^ i) % 2 = 1
  BY DEF Holds
<1>3. \A i \in 0 .. 3 : i + lo \in packet <=> (b \div 2 ^ i) % 2 = 1
  BY DEF Holds
<1>4. ASSUME NEW i \in 0 .. 7
      PROVE  i + lo \in packet <=> (n \div 2 ^ i) % 2 = 1
  <2>1. CASE i \in 0 .. 3
    BY <1>1, <1>3, <2>1
  <2>2. CASE i \notin 0 .. 3
    <3>1. PICK k \in 0 .. 3 : i = k + 4
      <4>1. i - 4 \in 0 .. 3 /\ i = (i - 4) + 4
        BY <2>2
      <4>2. QED
        BY <4>1
    <3>2. k + up = i + lo
      BY <3>1
    <3>3. (n \div 2 ^ i) % 2 = (a \div 2 ^ k) % 2
      BY <1>1, <3>1
    <3>4. QED
      BY <1>2, <3>1, <3>2, <3>3
  <2>3. QED
    BY <2>1, <2>2
<1>5. \A i \in Nat : i < 8 => i \in 0 .. 7
  OBVIOUS
<1>6. QED
  BY <1>4, <1>5 DEF Holds

\* A field of two bytes, and that it is the two.
TwoBytes(packet, lo, a, b) == Holds(packet, 16, lo, 256 * a + b)

LEMMA BytesOfField ==
  ASSUME NEW packet, NEW lo \in Nat, NEW a \in 0 .. 255, NEW b \in 0 .. 255,
         TwoBytes(packet, lo, a, b)
  PROVE  Holds(packet, 8, lo + 8, a) /\ Holds(packet, 8, lo, b)
<1>0. PICK n \in Nat, w \in Nat, up \in Nat :
        n = 256 * a + b /\ w = 16 /\ up = lo + 8 /\ Holds(packet, w, lo, n)
  <2>1. 256 * a + b \in Nat /\ Holds(packet, 16, lo, 256 * a + b) /\ lo + 8 \in Nat
    BY DEF TwoBytes
  <2>2. QED
    BY <2>1
<1>1. \A i \in 0 .. 7 : /\ (n \div 2 ^ i) % 2 = (b \div 2 ^ i) % 2
                        /\ (n \div 2 ^ (i + 8)) % 2 = (a \div 2 ^ i) % 2
  <2>1. n = 256 * a + b
    BY <1>0
  <2>2. QED
    BY <2>1, BitsOfBytes, ZenonT(60)
<1>2. ASSUME NEW i \in 0 .. w - 1
      PROVE  i + lo \in packet <=> (n \div 2 ^ i) % 2 = 1
  BY <1>0 DEF Holds
<1>3. ASSUME NEW i \in 0 .. 7
      PROVE  /\ i + lo \in packet <=> (b \div 2 ^ i) % 2 = 1
             /\ i + up \in packet <=> (a \div 2 ^ i) % 2 = 1
  <2>1. i \in 0 .. w - 1 /\ i + 8 \in 0 .. w - 1 /\ (i + 8) + lo = i + up
    BY <1>0
  <2>2. /\ (n \div 2 ^ i) % 2 = (b \div 2 ^ i) % 2
        /\ (n \div 2 ^ (i + 8)) % 2 = (a \div 2 ^ i) % 2
    BY <1>1
  <2>3. i + lo \in packet <=> (b \div 2 ^ i) % 2 = 1
    BY <1>2, <2>1, <2>2
  <2>4. i + up \in packet <=> (a \div 2 ^ i) % 2 = 1
    BY <1>2, <2>1, <2>2
  <2>5. QED
    BY <2>3, <2>4
<1>4. \A i \in Nat : i < 8 => i \in 0 .. 7
  OBVIOUS
<1>5. QED
  BY <1>0, <1>3, <1>4 DEF Holds

\* A byte above 0, and that its digits say so.
ByteAbove(packet, j) == ConstraintHolds(Above(8, 424 - 8 * j, 0), packet)

LEMMA ByteAboveZero ==
  ASSUME NEW packet, NEW j \in 0 .. 53, ByteAbove(packet, j)
  PROVE  Byte(ToHex(packet), j) > 0
<1>1. PICK lo \in Nat : lo = 424 - 8 * j /\ ConstraintHolds(Above(8, lo, 0), packet)
  BY DEF ByteAbove
<1>2. PICK d : d \in B!Slice(packet, lo + 8 - 1, lo)
  <2>1. Ugt(Field(packet, Above(8, lo, 0)), WordOf(8, 0))
    BY <1>1 DEF ConstraintHolds, Above
  <2>2. Field(packet, Above(8, lo, 0)) = B!Slice(packet, lo + 8 - 1, lo)
    BY DEF Field, Above, B!ExtractFrom, B!Vec
  <2>3. QED
    BY <2>1, <2>2 DEF Ugt
<1>3. PICK i \in 0 .. 7 : i + lo \in packet
  <2>1. PICK k \in packet \cap (lo .. lo + 7) : TRUE
    BY <1>2 DEF B!Slice
  <2>2. k - lo \in 0 .. 7 /\ (k - lo) + lo = k
    BY <2>1
  <2>3. QED
    BY <2>1, <2>2
<1>4. PICK k \in 1 .. 107, e \in 1 .. 108 : k = 2 * j + 1 /\ e = k + 1
  <2>1. 2 * j + 1 \in 1 .. 107 /\ 2 * j + 2 \in 1 .. 108
    OBVIOUS
  <2>2. QED
    BY <2>1
<1>5. /\ 432 - 4 * k = 4 + lo /\ 433 - 4 * k = 5 + lo /\ 434 - 4 * k = 6 + lo
      /\ 435 - 4 * k = 7 + lo /\ k \in 1 .. 108
      /\ 432 - 4 * e = 0 + lo /\ 433 - 4 * e = 1 + lo /\ 434 - 4 * e = 2 + lo
      /\ 435 - 4 * e = 3 + lo
  BY <1>1, <1>4
<1>6. ToHex(packet)[k] = (IF 4 + lo \in packet THEN 1 ELSE 0) + (IF 5 + lo \in packet THEN 2 ELSE 0)
                         + (IF 6 + lo \in packet THEN 4 ELSE 0) + (IF 7 + lo \in packet THEN 8 ELSE 0)
  BY <1>5, DigitAt
<1>7. ToHex(packet)[e] = (IF 0 + lo \in packet THEN 1 ELSE 0) + (IF 1 + lo \in packet THEN 2 ELSE 0)
                         + (IF 2 + lo \in packet THEN 4 ELSE 0) + (IF 3 + lo \in packet THEN 8 ELSE 0)
  BY <1>5, DigitAt
<1>8. i = 0 \/ i = 1 \/ i = 2 \/ i = 3 \/ i = 4 \/ i = 5 \/ i = 6 \/ i = 7
  OBVIOUS
<1>9. 16 * ToHex(packet)[k] + ToHex(packet)[e] > 0
  BY <1>3, <1>6, <1>7, <1>8
<1>10. 2 * j + 2 = e /\ 2 * j + 1 = k
  BY <1>4
<1>11. QED
  BY <1>9, <1>10 DEF Byte

\* Constraints on a byte, on its two halves, and on two bytes, of which j is the first.
OnByte(packet, j, n) ==
    /\ j \in 0 .. 53 /\ n \in 0 .. 255
    /\ ConstraintHolds(Is(8, 424 - 8 * j, n), packet)

OnHalves(packet, j, a, b) ==
    /\ j \in 0 .. 53 /\ a \in 0 .. 15 /\ b \in 0 .. 15
    /\ ConstraintHolds(Is(4, 428 - 8 * j, a), packet)
    /\ ConstraintHolds(Is(4, 424 - 8 * j, b), packet)

OnPair(packet, j, a, b) ==
    /\ j \in 0 .. 52 /\ a \in 0 .. 255 /\ b \in 0 .. 255
    /\ ConstraintHolds(Is(16, 416 - 8 * j, 256 * a + b), packet)

\* What its digits say.
ByteReads(packet, j, n)      == Byte(ToHex(packet), j) = n
HalvesRead(packet, j, a, b)  == Byte(ToHex(packet), j) = 16 * a + b
PairReads(packet, j, a, b)   == Pair(ToHex(packet), j) = 256 * a + b

\* The digits of a packet are those that the constraint asks for.
LEMMA ByteIs ==
  ASSUME NEW packet, NEW j, NEW n, OnByte(packet, j, n)
  PROVE  ByteReads(packet, j, n)
<1>0. j \in 0 .. 53 /\ n \in 0 .. 255
  BY DEF OnByte
<1>1. PICK lo \in Nat, w \in Nat \ {0} : lo = 424 - 8 * j /\ w = 8
  BY <1>0
<1>2. ConstraintHolds(Is(w, lo, n), packet)
  BY <1>1 DEF OnByte
<1>3. Holds(packet, w, lo, n)
  BY <1>0, <1>2, FieldHolds
<1>4. ByteAt(packet, j, n)
  BY <1>1, <1>3 DEF ByteAt
<1>5. QED
  BY <1>0, <1>4, ByteOfDigits DEF ByteReads

\* The same of a byte whose halves are constrained.
LEMMA HalvesAre ==
  ASSUME NEW packet, NEW j, NEW a, NEW b, OnHalves(packet, j, a, b)
  PROVE  HalvesRead(packet, j, a, b)
<1>0. j \in 0 .. 53 /\ a \in 0 .. 15 /\ b \in 0 .. 15
  BY DEF OnHalves
<1>1. PICK lo \in Nat, up \in Nat, w \in Nat \ {0} :
        lo = 424 - 8 * j /\ up = 428 - 8 * j /\ up = lo + 4 /\ w = 4
  BY <1>0
<1>2. ConstraintHolds(Is(w, up, a), packet) /\ ConstraintHolds(Is(w, lo, b), packet)
  BY <1>1 DEF OnHalves
<1>3. Holds(packet, w, up, a) /\ Holds(packet, w, lo, b)
  BY <1>0, <1>2, FieldHolds
<1>4. PICK n \in 0 .. 255 : n = 16 * a + b
  BY <1>0
<1>5. Holds(packet, 8, lo, n)
  <2>1. n \in Nat /\ Holds(packet, 4, up, a) /\ Holds(packet, 4, lo, b)
    BY <1>1, <1>3
  <2>2. QED
    BY <1>0, <1>1, <1>4, <2>1, HalvesOfByte
<1>6. ByteAt(packet, j, n)
  BY <1>1, <1>5 DEF ByteAt
<1>7. Byte(ToHex(packet), j) = n
  BY <1>0, <1>6, ByteOfDigits
<1>8. QED
  BY <1>4, <1>7 DEF HalvesRead

\* The same of two bytes.
LEMMA PairIs ==
  ASSUME NEW packet, NEW j, NEW a, NEW b, OnPair(packet, j, a, b)
  PROVE  PairReads(packet, j, a, b)
<1>0. j \in 0 .. 52 /\ a \in 0 .. 255 /\ b \in 0 .. 255
  BY DEF OnPair
<1>1. PICK lo \in Nat, up \in Nat, w \in Nat \ {0} :
        lo = 416 - 8 * j /\ up = 424 - 8 * j /\ up = lo + 8 /\ w = 16
  BY <1>0
<1>2. PICK n \in Nat : n = 256 * a + b
  BY <1>0
<1>3. ConstraintHolds(Is(w, lo, n), packet)
  BY <1>1, <1>2 DEF OnPair
<1>4. Holds(packet, w, lo, n)
  BY <1>3, FieldHolds
<1>5. Holds(packet, 8, up, a) /\ Holds(packet, 8, lo, b)
  <2>1. TwoBytes(packet, lo, a, b)
    BY <1>1, <1>2, <1>4 DEF TwoBytes
  <2>2. Holds(packet, 8, lo + 8, a) /\ Holds(packet, 8, lo, b)
    BY <1>0, <2>1, BytesOfField
  <2>3. QED
    BY <1>1, <2>2
<1>6. PICK k \in 0 .. 53 : k = j + 1
  BY <1>0
<1>7. j \in 0 .. 53 /\ lo = 424 - 8 * k
  BY <1>0, <1>1, <1>6
<1>8. ByteAt(packet, j, a)
  BY <1>1, <1>5 DEF ByteAt
<1>9. ByteAt(packet, k, b)
  BY <1>5, <1>7 DEF ByteAt
<1>10. Byte(ToHex(packet), j) = a
  BY <1>0, <1>7, <1>8, ByteOfDigits
<1>11. Byte(ToHex(packet), k) = b
  BY <1>0, <1>9, ByteOfDigits
<1>12. QED
  BY <1>6, <1>10, <1>11 DEF Pair, PairReads

\* A power of two is above zero.
LEMMA PowerOfTwo ==
  ASSUME NEW i \in 0 .. 27
  PROVE  2 ^ i \in Nat \ {0}
<1>1. CASE i = 0
  BY <1>1
<1>2. CASE i = 1
  BY <1>2
<1>3. CASE i = 2
  BY <1>3
<1>4. CASE i = 3
  BY <1>4
<1>5. CASE i = 4
  BY <1>5
<1>6. CASE i = 5
  BY <1>6
<1>7. CASE i = 6
  BY <1>7
<1>8. CASE i = 7
  BY <1>8
<1>9. CASE i = 8
  BY <1>9
<1>10. CASE i = 9
  BY <1>10
<1>11. CASE i = 10
  BY <1>11
<1>12. CASE i = 11
  BY <1>12
<1>13. CASE i = 12
  BY <1>13
<1>14. CASE i = 13
  BY <1>14
<1>15. CASE i = 14
  BY <1>15
<1>16. CASE i = 15
  BY <1>16
<1>17. CASE i = 16
  BY <1>17
<1>18. CASE i = 17
  BY <1>18
<1>19. CASE i = 18
  BY <1>19
<1>20. CASE i = 19
  BY <1>20
<1>21. CASE i = 20
  BY <1>21
<1>22. CASE i = 21
  BY <1>22
<1>23. CASE i = 22
  BY <1>23
<1>24. CASE i = 23
  BY <1>24
<1>25. CASE i = 24
  BY <1>25
<1>26. CASE i = 25
  BY <1>26
<1>27. CASE i = 26
  BY <1>27
<1>28. CASE i = 27
  BY <1>28
<1>29. QED
  BY <1>1, <1>2, <1>3, <1>4, <1>5, <1>6, <1>7, <1>8, <1>9, <1>10, <1>11, <1>12, <1>13, <1>14,
     <1>15, <1>16, <1>17, <1>18, <1>19, <1>20, <1>21, <1>22, <1>23, <1>24, <1>25, <1>26, <1>27,
     <1>28

\* Every bit of 0 is 0.
LEMMA BitsOfZero ==
  ASSUME NEW i \in 0 .. 27
  PROVE  (0 \div 2 ^ i) % 2 = 0
<1>1. PICK p \in Nat \ {0} : 2 ^ i = p
  BY PowerOfTwo
<1>2. 0 \div p = 0
  OBVIOUS
<1>3. QED
  BY <1>1, <1>2

-----------------------------------------------------------------------------
(* What is printed is a solution *)

\* The witness of a path satisfies its condition, a packet its constraints.
WitnessInv ==
    /\ Printed("table") =>
          /\ line.answer \in Inputs /\ line.question \in 1 .. Miss
          /\ line.output = Output(line.question)
          /\ \A c \in PathCondition(line.question) : ConditionHolds(c, line.answer)
    /\ Printed("packet_gen") \/ Printed("packet_view") =>
          \A c \in PacketConstraints(line.question) : ConstraintHolds(c, line.answer)

\* A report of a model, by a program that makes a solver for each question.
LEMMA ReportIsWitness ==
  ASSUME AskedInv, program # "midpoint", ReportModel
  PROVE  WitnessInv'
<1>1. /\ program' = program /\ step = "check" /\ program \in Programs
      /\ question \in DOMAIN Questions
  BY DEF ReportModel, AskedInv
<1>2. Asserted = Constraints(question)
  BY <1>1, AskedAlone DEF QuestionsAreAskedAlone
<1>3. PICK m \in Answers : Report(TRUE, m) /\ IsSolution(m)
  BY DEF ReportModel
<1>4. /\ line'.question = Questions[question] /\ line'.answer = m /\ line'.sat
      /\ line'.output = IF program = "table" THEN Output(question) ELSE ""
  BY <1>3 DEF Report
<1>5. CASE program = "table"
  <2>1. Questions = [path \in 1 .. Miss |-> path] /\ Answers = Inputs
        /\ Constraints(question) = PathCondition(question)
    BY <1>5 DEF Questions, Answers, Constraints
  <2>2. question \in 1 .. Miss /\ Questions[question] = question
    BY <1>1, <2>1
  <2>3. \A c \in PathCondition(question) : ConditionHolds(c, m)
    BY <1>2, <1>3, <1>5, <2>1 DEF IsSolution
  <2>4. QED
    BY <1>1, <1>3, <1>4, <1>5, <2>1, <2>2, <2>3 DEF WitnessInv, Printed
<1>6. CASE program # "table"
  <2>1. program \in {"packet_gen", "packet_view"}
    BY <1>1, <1>6 DEF Programs
  <2>2. Constraints(question) = PacketConstraints(Questions[question])
    BY <1>6, <2>1 DEF Constraints
  <2>3. \A c \in PacketConstraints(Questions[question]) : ConstraintHolds(c, m)
    BY <1>2, <1>3, <2>1, <2>2 DEF IsSolution
  <2>4. QED
    BY <1>1, <1>4, <2>1, <2>3 DEF WitnessInv, Printed
<1>7. QED
  BY <1>5, <1>6

\* Every call keeps that.
LEMMA WitnessKeeps ==
  ASSUME AskedInv, WitnessInv, [Next]_vars
  PROVE  WitnessInv'
<1>1. program' = program
  BY DEF Next, vars, NewSolver, Push, Add, ReportModel, ReportUnsat, Pop
<1>2. CASE NewSolver \/ Push
  BY <1>2 DEF NewSolver, Push, WitnessInv, Printed
<1>3. CASE line' = line
  <2>1. \A name : Printed(name)' <=> Printed(name)
    BY <1>1, <1>3 DEF Printed
  <2>2. QED
    BY <1>3, <2>1 DEF WitnessInv
<1>4. CASE ReportModel
  <2>1. CASE program = "midpoint"
    BY <1>1, <2>1 DEF WitnessInv, Printed
  <2>2. CASE program # "midpoint"
    BY <1>4, <2>2, ReportIsWitness
  <2>3. QED
    BY <2>1, <2>2
<1>5. CASE ReportUnsat
  <2>1. line'.sat = FALSE
    BY <1>5 DEF ReportUnsat, Report
  <2>2. QED
    BY <2>1 DEF WitnessInv, Printed
<1>6. QED
  BY <1>2, <1>3, <1>4, <1>5 DEF Next, vars, Add, Pop

\* Every answer that is printed is a solution of its own question.
THEOREM PrintedAnswersAreSolutions == Spec => []WitnessInv
<1>1. Init => WitnessInv
  BY DEF Init, WitnessInv, Printed
<1>2. AskedInv /\ WitnessInv /\ [Next]_vars => WitnessInv'
  BY WitnessKeeps
<1>3. ProgramInv => AskedInv
  BY DEF ProgramInv
<1>4. QED
  BY <1>1, <1>2, <1>3, ProgramInvariant, PTL DEF Spec

-----------------------------------------------------------------------------
(* The packets *)

\* What the IPv4 packet must be, in the bytes of the frame.
LEMMA Ipv4Bytes ==
  ASSUME NEW m, \A c \in Ipv4Constraints : ConstraintHolds(c, m)
  PROVE  LET digits == ToHex(m)
         IN  /\ Pair(digits, 12) = 2048
             /\ Byte(digits, 14) = 69 /\ Byte(digits, 15) = 0 /\ Pair(digits, 16) = 40
             /\ Byte(digits, 22) > 0 /\ Byte(digits, 23) = 253 /\ Byte(digits, 30) = 10
             /\ Pair(digits, 18) = 0 /\ Pair(digits, 20) = 0 /\ Pair(digits, 24) = 0
<1>1. /\ ConstraintHolds(Is(16, 320, 2048), m) /\ ConstraintHolds(Is(4, 316, 4), m)
      /\ ConstraintHolds(Is(4, 312, 5), m) /\ ConstraintHolds(Is(8, 304, 0), m)
      /\ ConstraintHolds(Is(16, 288, 40), m) /\ ConstraintHolds(Is(8, 240, 253), m)
      /\ ConstraintHolds(Is(8, 184, 10), m) /\ ConstraintHolds(Above(8, 248, 0), m)
      /\ ConstraintHolds(Is(16, 272, 0), m) /\ ConstraintHolds(Is(16, 256, 0), m)
      /\ ConstraintHolds(Is(16, 224, 0), m)
  BY DEF Ipv4Constraints
<1>2. /\ OnPair(m, 12, 8, 0) /\ OnHalves(m, 14, 4, 5) /\ OnByte(m, 15, 0)
      /\ OnPair(m, 16, 0, 40) /\ OnByte(m, 23, 253) /\ OnByte(m, 30, 10)
      /\ ByteAbove(m, 22)
      /\ OnPair(m, 18, 0, 0) /\ OnPair(m, 20, 0, 0) /\ OnPair(m, 24, 0, 0)
  BY <1>1 DEF OnPair, OnHalves, OnByte, ByteAbove
<1>3. Pair(ToHex(m), 12) = 2048
  <2>1. PairReads(m, 12, 8, 0)
    BY <1>2, PairIs
  <2>2. QED
    BY <2>1 DEF PairReads
<1>4. Pair(ToHex(m), 16) = 40
  <2>1. PairReads(m, 16, 0, 40)
    BY <1>2, PairIs
  <2>2. QED
    BY <2>1 DEF PairReads
<1>5. Byte(ToHex(m), 14) = 69
  <2>1. HalvesRead(m, 14, 4, 5)
    BY <1>2, HalvesAre
  <2>2. QED
    BY <2>1 DEF HalvesRead
<1>6. Byte(ToHex(m), 15) = 0 /\ Byte(ToHex(m), 23) = 253 /\ Byte(ToHex(m), 30) = 10
  <2>1. ByteReads(m, 15, 0) /\ ByteReads(m, 23, 253) /\ ByteReads(m, 30, 10)
    BY <1>2, ByteIs
  <2>2. QED
    BY <2>1 DEF ByteReads
<1>7. Byte(ToHex(m), 22) > 0
  BY <1>2, ByteAboveZero
<1>8. Pair(ToHex(m), 18) = 0 /\ Pair(ToHex(m), 20) = 0 /\ Pair(ToHex(m), 24) = 0
  <2>1. PairReads(m, 18, 0, 0) /\ PairReads(m, 20, 0, 0) /\ PairReads(m, 24, 0, 0)
    BY <1>2, PairIs
  <2>2. QED
    BY <2>1 DEF PairReads
<1>9. QED
  BY <1>3, <1>4, <1>5, <1>6, <1>7, <1>8

\* The flow label and the payload length, and the 4 bits above.
LEMMA Ipv6Zeros ==
  ASSUME NEW m, ConstraintHolds(Is(28, 288, 0), m), ConstraintHolds(Is(4, 316, 6), m)
  PROVE  Byte(ToHex(m), 14) = 96 /\ Byte(ToHex(m), 15) = 0 /\ Pair(ToHex(m), 16) = 0
<1>1. ASSUME NEW i \in 0 .. 27
      PROVE  i + 288 \notin m
  <2>1. Holds(m, 28, 288, 0)
    <3>1. PICK w \in Nat \ {0}, lo \in Nat, n \in Nat : w = 28 /\ lo = 288 /\ n = 0
      OBVIOUS
    <3>2. ConstraintHolds(Is(w, lo, n), m)
      BY <3>1
    <3>3. Holds(m, w, lo, n)
      BY <3>1, <3>2, FieldHolds
    <3>4. QED
      BY <3>1, <3>3
  <2>2. i + 288 \in m <=> (0 \div 2 ^ i) % 2 = 1
    BY <2>1 DEF Holds
  <2>3. (0 \div 2 ^ i) % 2 = 0
    BY BitsOfZero
  <2>4. QED
    BY <2>2, <2>3
<1>2. ASSUME NEW lo \in Nat, NEW w \in Nat, 288 <= lo, lo + w <= 316, w <= 8
      PROVE  Holds(m, w, lo, 0)
  <2>1. ASSUME NEW i \in Nat, i < w
        PROVE  i + lo \notin m /\ (0 \div 2 ^ i) % 2 = 0
    <3>1. PICK k \in 0 .. 27 : k + 288 = i + lo
      <4>1. (i + lo) - 288 \in 0 .. 27 /\ ((i + lo) - 288) + 288 = i + lo
        BY <1>2, <2>1
      <4>2. QED
        BY <4>1
    <3>2. i + lo \notin m
      BY <1>1, <3>1
    <3>3. i \in 0 .. 27
      BY <1>2, <2>1
    <3>4. (0 \div 2 ^ i) % 2 = 0
      BY <3>3, BitsOfZero
    <3>5. QED
      BY <3>2, <3>4
  <2>2. QED
    BY <2>1 DEF Holds
<1>3. Holds(m, 8, 304, 0) /\ Holds(m, 8, 296, 0) /\ Holds(m, 8, 288, 0) /\ Holds(m, 4, 312, 0)
  BY <1>2
<1>4. ASSUME NEW j \in 15 .. 17
      PROVE  ByteAt(m, j, 0)
  BY <1>3 DEF ByteAt
<1>5. ASSUME NEW j \in 15 .. 17
      PROVE  Byte(ToHex(m), j) = 0
  <2>1. PICK n \in 0 .. 255 : n = 0
    OBVIOUS
  <2>2. ByteAt(m, j, n)
    BY <1>4, <2>1
  <2>3. Byte(ToHex(m), j) = n
    <3>1. j \in 0 .. 53
      OBVIOUS
    <3>2. QED
      BY <2>2, <3>1, ByteOfDigits
  <2>4. QED
    BY <2>1, <2>3
<1>6. Byte(ToHex(m), 15) = 0 /\ Pair(ToHex(m), 16) = 0
  BY <1>5 DEF Pair
<1>7. Holds(m, 4, 316, 6)
  <2>1. PICK w \in Nat \ {0}, lo \in Nat, n \in Nat : w = 4 /\ lo = 316 /\ n = 6
    OBVIOUS
  <2>2. ConstraintHolds(Is(w, lo, n), m)
    BY <2>1
  <2>3. Holds(m, w, lo, n)
    BY <2>1, <2>2, FieldHolds
  <2>4. QED
    BY <2>1, <2>3
<1>8. Holds(m, 8, 312, 96)
  <2>1. PICK lo \in Nat, up \in Nat, a \in 0 .. 15, b \in 0 .. 15, n \in Nat :
          /\ lo = 312 /\ up = 316 /\ a = 6 /\ b = 0 /\ n = 96
          /\ up = lo + 4 /\ n = 16 * a + b
    OBVIOUS
  <2>2. Holds(m, 4, up, a) /\ Holds(m, 4, lo, b)
    BY <1>3, <1>7, <2>1
  <2>3. Holds(m, 8, lo, n)
    BY <2>1, <2>2, HalvesOfByte
  <2>4. QED
    BY <2>1, <2>3
<1>9. ByteAt(m, 14, 96)
  BY <1>8 DEF ByteAt
<1>10. Byte(ToHex(m), 14) = 96
  <2>1. PICK j \in 0 .. 53, n \in 0 .. 255 : j = 14 /\ n = 96
    OBVIOUS
  <2>2. ByteAt(m, j, n)
    BY <1>9, <2>1
  <2>3. Byte(ToHex(m), j) = n
    BY <2>2, ByteOfDigits, ZenonT(60)
  <2>4. QED
    BY <2>1, <2>3
<1>11. QED
  BY <1>6, <1>10

\* The IPv6 packet.
LEMMA Ipv6Bytes ==
  ASSUME NEW m, \A c \in Ipv6Constraints : ConstraintHolds(c, m)
  PROVE  LET digits == ToHex(m)
         IN  /\ Pair(digits, 12) = 34525 /\ Pair(digits, 14) = 24576 /\ Pair(digits, 16) = 0
             /\ Pair(digits, 18) = 0
             /\ Byte(digits, 20) = 59 /\ Byte(digits, 21) > 0
<1>1. /\ ConstraintHolds(Is(16, 320, 34525), m) /\ ConstraintHolds(Is(4, 316, 6), m)
      /\ ConstraintHolds(Is(28, 288, 0), m) /\ ConstraintHolds(Is(16, 272, 0), m)
      /\ ConstraintHolds(Is(8, 264, 59), m) /\ ConstraintHolds(Above(8, 256, 0), m)
  BY DEF Ipv6Constraints
<1>2. /\ OnPair(m, 12, 134, 221) /\ OnPair(m, 18, 0, 0) /\ OnByte(m, 20, 59)
      /\ ByteAbove(m, 21)
  BY <1>1 DEF OnPair, OnByte, ByteAbove
<1>3. Pair(ToHex(m), 12) = 34525
  <2>1. PairReads(m, 12, 134, 221)
    BY <1>2, PairIs
  <2>2. QED
    BY <2>1 DEF PairReads
<1>4. Pair(ToHex(m), 18) = 0
  <2>1. PairReads(m, 18, 0, 0)
    BY <1>2, PairIs
  <2>2. QED
    BY <2>1 DEF PairReads
<1>5. Byte(ToHex(m), 20) = 59
  <2>1. ByteReads(m, 20, 59)
    BY <1>2, ByteIs
  <2>2. QED
    BY <2>1 DEF ByteReads
<1>6. Byte(ToHex(m), 21) > 0
  BY <1>2, ByteAboveZero
<1>7. Byte(ToHex(m), 14) = 96 /\ Byte(ToHex(m), 15) = 0 /\ Pair(ToHex(m), 16) = 0
  BY <1>1, Ipv6Zeros
<1>8. Pair(ToHex(m), 14) = 24576
  BY <1>7 DEF Pair
<1>9. QED
  BY <1>3, <1>4, <1>5, <1>6, <1>7, <1>8

\* The packet that is asked for through the view.
LEMMA ViewBytes ==
  ASSUME NEW m, \A c \in ViewConstraints : ConstraintHolds(c, m)
  PROVE  LET digits == ToHex(m)
         IN  /\ Pair(digits, 12) = 2048 /\ Byte(digits, 14) = 69 /\ Pair(digits, 16) = 40
             /\ Byte(digits, 26) = 10
<1>1. /\ HdrView(<<"eth", "ethertype">>).w = 16 /\ HdrView(<<"eth", "ethertype">>).lo = 320
      /\ HdrView(<<"ipv4", "version">>).w = 4 /\ HdrView(<<"ipv4", "version">>).lo = 316
      /\ HdrView(<<"ipv4", "ihl">>).w = 4 /\ HdrView(<<"ipv4", "ihl">>).lo = 312
      /\ HdrView(<<"ipv4", "total_len">>).w = 16 /\ HdrView(<<"ipv4", "total_len">>).lo = 288
  BY DEF HdrView, EthView, Ipv4View, Window
<1>2. /\ HdrView(<<"ipv4", "src_addr", "octet0">>).w = 8
      /\ HdrView(<<"ipv4", "src_addr", "octet0">>).lo = 216
  BY DEF HdrView, Ipv4View, Ipv4AddrView, Window
<1>3. /\ ConstraintHolds(Is(16, 320, 2048), m) /\ ConstraintHolds(Is(4, 316, 4), m)
      /\ ConstraintHolds(Is(4, 312, 5), m) /\ ConstraintHolds(Is(16, 288, 40), m)
      /\ ConstraintHolds(Is(8, 216, 10), m)
  BY <1>1, <1>2 DEF ViewConstraints
<1>4. /\ OnPair(m, 12, 8, 0) /\ OnHalves(m, 14, 4, 5) /\ OnPair(m, 16, 0, 40)
      /\ OnByte(m, 26, 10)
  BY <1>3 DEF OnPair, OnHalves, OnByte
<1>5. Pair(ToHex(m), 12) = 2048
  <2>1. PairReads(m, 12, 8, 0)
    BY <1>4, PairIs
  <2>2. QED
    BY <2>1 DEF PairReads
<1>6. Pair(ToHex(m), 16) = 40
  <2>1. PairReads(m, 16, 0, 40)
    BY <1>4, PairIs
  <2>2. QED
    BY <2>1 DEF PairReads
<1>7. Byte(ToHex(m), 14) = 69
  <2>1. HalvesRead(m, 14, 4, 5)
    BY <1>4, HalvesAre
  <2>2. QED
    BY <2>1 DEF HalvesRead
<1>8. Byte(ToHex(m), 26) = 10
  <2>1. ByteReads(m, 26, 10)
    BY <1>4, ByteIs
  <2>2. QED
    BY <2>1 DEF ByteReads
<1>9. QED
  BY <1>5, <1>6, <1>7, <1>8

(***************************************************************************)
(* In a packet that is printed every field that its program pins has its   *)
(* value, byte for byte (packet_gen.cc:85-101, 117-127,                    *)
(* packet_view.cc:227-232).  Ipv4Bytes, Ipv6Bytes and ViewBytes say it of  *)
(* any packet that satisfies the constraints, a candidate or not.          *)
(***************************************************************************)
THEOREM PacketsAreWellFormed == Spec => []PrintedPacketsAreWellFormed
<1>1. ASSUME WitnessInv
      PROVE  PrintedPacketsAreWellFormed
  <2>1. SUFFICES ASSUME Printed("packet_gen") \/ Printed("packet_view")
        PROVE  LET digits == ToHex(line.answer)
                   at(k)  == Byte(digits, k)
                   at2(k) == Pair(digits, k)
               IN  /\ Len(digits) = 2 * 54
                   /\ line.question = "ipv4" =>
                         /\ at2(12) = \h0800 /\ at(14) = \h45 /\ at(15) = 0
                         /\ at2(16) = 54 - 14 /\ at2(18) = 0 /\ at2(20) = 0
                         /\ at(22) > 0 /\ at(23) = 253 /\ at2(24) = 0
                         /\ at(30) = 10
                   /\ line.question = "ipv6" =>
                         /\ at2(12) = \h86DD /\ at2(14) = \h6000 /\ at2(16) = 0
                         /\ at2(18) = 54 - 14 - 40
                         /\ at(20) = 59 /\ at(21) > 0
                   /\ line.question = "view" =>
                         /\ at2(12) = \h0800 /\ at(14) = \h45
                         /\ at2(16) = 54 - 14
                         /\ at(26) = 10
    BY DEF PrintedPacketsAreWellFormed
  <2>2. PICK m : m = line.answer
    OBVIOUS
  <2>3. \A c \in PacketConstraints(line.question) : ConstraintHolds(c, m)
    BY <1>1, <2>1, <2>2 DEF WitnessInv
  <2>4. Len(ToHex(m)) = 108
    <3>1. BufW \div 4 = 108
      BY DEF BufW
    <3>2. QED
      BY <3>1 DEF ToHex
  <2>5. line.question = "ipv4" => \A c \in Ipv4Constraints : ConstraintHolds(c, m)
    BY <2>3 DEF PacketConstraints
  <2>6. line.question = "ipv6" => \A c \in Ipv6Constraints : ConstraintHolds(c, m)
    BY <2>3 DEF PacketConstraints
  <2>7. line.question = "view" => \A c \in ViewConstraints : ConstraintHolds(c, m)
    BY <2>3 DEF PacketConstraints
  <2>8. QED
    BY <2>2, <2>4, <2>5, <2>6, <2>7, Ipv4Bytes, Ipv6Bytes, ViewBytes
<1>2. QED
  BY <1>1, PrintedAnswersAreSolutions, PTL

-----------------------------------------------------------------------------
(* The table *)

\* Where a byte of the input and a byte of the key begin.
InputPlace(k) == ByteBits * (InputBytes - 1 - Offsets[k])
KeyPlace(k)   == ByteBits * (Len(Offsets) - k)

Key(input) == ExtractKey(T!Vec(InputWidth, FALSE, input))

\* What is assumed of the table.
LEMMA TableFacts ==
  /\ ByteBits \in Nat \ {0} /\ InputBytes \in Nat \ {0} /\ InputWidth \in Nat \ {0}
  /\ InputWidth = InputBytes * ByteBits
  /\ Len(Offsets) \in Nat /\ DOMAIN Offsets = 1 .. Len(Offsets)
  /\ KeyWidth = Len(Offsets) * ByteBits /\ KeyWidth \in Nat \ {0} /\ KeyWidth <= InputWidth
  /\ ByteBits <= InputWidth
<1>1. /\ ByteBits \in Nat \ {0} /\ InputBytes \in Nat \ {0} /\ Offsets \in Seq(0 .. InputBytes - 1)
      /\ KeyWidth \in T!Widths
  BY TableAssumption
<1>2. InputWidth = InputBytes * ByteBits /\ KeyWidth = Len(Offsets) * ByteBits
  BY DEF InputWidth, KeyWidth
<1>3. InputWidth \in Nat \ {0} /\ ByteBits <= InputWidth
  BY <1>1, <1>2, ProductGrows
<1>4. KeyWidth \in Nat \ {0} /\ KeyWidth <= InputWidth
  BY <1>1, <1>3 DEF T!Widths
<1>5. Len(Offsets) \in Nat /\ DOMAIN Offsets = 1 .. Len(Offsets)
  BY <1>1
<1>6. QED
  BY <1>1, <1>2, <1>3, <1>4, <1>5

\* The numbers of the words are a numbering.
LEMMA InputsAreNumbered ==
  /\ IsNumbering(InputNumber, InputWidth)
  /\ Inputs = SUBSET (0 .. InputWidth - 1)
  /\ \A n : PowerOf(n) = PlaceValue(InputNumber, n)
<1>1. Inputs = SUBSET (0 .. InputWidth - 1) /\ T!Positions(InputWidth) = 0 .. InputWidth - 1
  BY DEF Inputs, T!Words, T!Positions
<1>2. IsNumbering(InputNumber, InputWidth)
  <2>1. InputNumber \in [SUBSET (0 .. InputWidth - 1) -> Nat] /\ InputNumber[{}] = 0
    BY <1>1, TableAssumption
  <2>2. ASSUME NEW b \in SUBSET (0 .. InputWidth - 1), NEW i \in 0 .. InputWidth - 1, i \notin b
        PROVE  InputNumber[b \cup {i}] = InputNumber[b] + InputNumber[{i}]
    BY <1>1, <2>2, TableAssumption
  <2>3. \A i \in 0 .. InputWidth - 1 :
          InputNumber[{i}] = IF i = 0 THEN 1 ELSE 2 * InputNumber[{i - 1}]
    BY <1>1, TableAssumption
  <2>4. QED
    BY <2>1, <2>2, <2>3, TableFacts DEF IsNumbering
<1>3. ASSUME NEW n
      PROVE  PowerOf(n) = PlaceValue(InputNumber, n)
  BY DEF PowerOf, PlaceValue
<1>4. QED
  BY <1>1, <1>2, <1>3

\* Every byte that is read lies within its word.
LEMMA PlacesFit ==
  ASSUME NEW k \in DOMAIN Offsets
  PROVE  /\ k \in 1 .. Len(Offsets)
         /\ InputPlace(k) \in 0 .. InputWidth /\ InputPlace(k) + ByteBits <= InputWidth
         /\ InputPlace(k) = InputWidth - ByteBits - ByteBits * Offsets[k]
         /\ KeyPlace(k) \in 0 .. InputWidth /\ KeyPlace(k) + ByteBits <= KeyWidth
         /\ KeyPlace(k) = (Len(Offsets) - k) * ByteBits
<1>1. PICK b \in Nat \ {0}, n \in Nat, m \in Nat \ {0}, w \in Nat, kw \in Nat :
        /\ b = ByteBits /\ n = Len(Offsets) /\ m = InputBytes /\ w = InputWidth /\ w = m * b
        /\ kw = KeyWidth /\ kw = n * b /\ kw <= w
  BY TableFacts
<1>2. k \in 1 .. n /\ Offsets[k] \in 0 .. m - 1
  <2>1. Offsets \in Seq(0 .. InputBytes - 1)
    BY TableAssumption
  <2>2. QED
    BY <1>1, <2>1
<1>3. PICK off \in Nat, d \in Nat : off = Offsets[k] /\ m = off + 1 + d
  <2>1. (m - 1) - Offsets[k] \in Nat /\ m = Offsets[k] + 1 + ((m - 1) - Offsets[k])
    BY <1>1, <1>2
  <2>2. QED
    BY <1>2, <2>1
<1>4. PICK e \in Nat, j \in Nat : e = n - k /\ n = k + e /\ k = j + 1
  <2>1. n - k \in Nat /\ n = k + (n - k) /\ k - 1 \in Nat /\ k = (k - 1) + 1
    BY <1>1, <1>2
  <2>2. QED
    BY <2>1
<1>5. PICK x \in Nat, y \in Nat : x = b * d /\ y = b * off /\ w = y + b + x
  <2>1. b * d \in Nat /\ b * off \in Nat /\ m * b = b * off + b + b * d
    BY <1>3
  <2>2. QED
    BY <1>1, <2>1
<1>6. InputPlace(k) = x /\ x \in 0 .. w /\ x + b <= w /\ x = w - b - y
  <2>1. m - 1 - off = d
    BY <1>3
  <2>2. InputPlace(k) = b * d
    BY <1>1, <1>3, <2>1 DEF InputPlace
  <2>3. QED
    BY <1>5, <2>2
<1>7. PICK z \in Nat, v \in Nat : z = b * e /\ v = b * j /\ kw = z + b + v
  <2>1. b * e \in Nat /\ b * j \in Nat /\ n * b = b * e + b + b * j
    BY <1>4
  <2>2. QED
    BY <1>1, <2>1
<1>8. KeyPlace(k) = z /\ z \in 0 .. w /\ z + b <= kw /\ z = e * b
  BY <1>1, <1>4, <1>7 DEF KeyPlace
<1>9. QED
  BY <1>1, <1>2, <1>3, <1>4, <1>5, <1>6, <1>8

\* A byte that is read is the number of the bits that are there.
LEMMA ByteNumbers ==
  ASSUME NEW b \in Inputs, NEW lo \in 0 .. InputWidth
  PROVE  /\ BitsAt(b, ByteBits, lo) \in SUBSET (0 .. InputWidth - 1)
         /\ ByteOf(InputNumber[b], lo) = InputNumber[BitsAt(b, ByteBits, lo)]
<1>1. /\ b \in SUBSET (0 .. InputWidth - 1) /\ ByteBits \in 0 .. InputWidth
      /\ IsNumbering(InputNumber, InputWidth)
  BY InputsAreNumbered, TableFacts
<1>2. IsRead(InputNumber, InputWidth, b, ByteBits, lo)
  BY <1>1, NumberOfBits
<1>3. QED
  BY <1>2, InputsAreNumbered DEF ByteOf, IsRead

\* The byte of the input that is put into the key.
LEMMA ExtractedBits ==
  ASSUME NEW input \in Inputs, NEW k \in DOMAIN Offsets
  PROVE  ExtractByte(T!Vec(InputWidth, FALSE, input), Offsets[k]).b
            = BitsAt(input, ByteBits, InputPlace(k))
<1>1. PICK lo \in Int, b \in Nat : lo = InputPlace(k) /\ b = ByteBits
                                   /\ lo = InputWidth - ByteBits - ByteBits * Offsets[k]
  BY PlacesFit, TableFacts
<1>2. ExtractByte(T!Vec(InputWidth, FALSE, input), Offsets[k]).b = T!Slice(input, lo + b - 1, lo)
  BY <1>1 DEF ExtractByte, T!ExtractFrom, T!Vec
<1>3. input \subseteq Int
  BY InputsAreNumbered
<1>4. \A i \in input \cap (lo .. lo + b - 1) : i - lo \in 0 .. b - 1 /\ (i - lo) + lo = i
  BY <1>3
<1>5. \A r \in 0 .. b - 1 : r + lo \in lo .. lo + b - 1 /\ (r + lo) - lo = r
  OBVIOUS
<1>6. T!Slice(input, lo + b - 1, lo) = {r \in 0 .. b - 1 : r + lo \in input}
  BY <1>4, <1>5 DEF T!Slice
<1>7. QED
  BY <1>1, <1>2, <1>6 DEF BitsAt

\* A position of the key is a bit of the byte that is put there.
LEMMA KeyBit ==
  ASSUME NEW input \in Inputs, NEW k \in DOMAIN Offsets, NEW r \in 0 .. ByteBits - 1
  PROVE  r + KeyPlace(k) \in Key(input) <=> r \in BitsAt(input, ByteBits, InputPlace(k))
<1> DEFINE byte(j) == BitsAt(input, ByteBits, InputPlace(j))
<1>1. PICK b \in Nat \ {0}, n \in Nat, kw \in Nat : b = ByteBits /\ n = Len(Offsets) /\ kw = KeyWidth
  BY TableFacts
<1>2. Key(input) = UNION {T!ShiftUp(kw, byte(j), KeyPlace(j)) : j \in DOMAIN Offsets}
  <2>1. \A j \in DOMAIN Offsets :
          T!ShiftUp(KeyWidth, ExtractByte(T!Vec(InputWidth, FALSE, input), Offsets[j]).b,
                    (Len(Offsets) - j) * ByteBits)
            = T!ShiftUp(kw, byte(j), KeyPlace(j))
    BY <1>1, ExtractedBits, PlacesFit
  <2>2. DOMAIN Offsets = 1 .. Len(Offsets)
    BY TableFacts
  <2>3. QED
    BY <2>1, <2>2 DEF Key, ExtractKey
<1>3. ASSUME NEW j \in DOMAIN Offsets, NEW i
      PROVE  i \in T!ShiftUp(kw, byte(j), KeyPlace(j))
               <=> i \in 0 .. kw - 1 /\ \E s \in byte(j) : i = s + KeyPlace(j)
  BY DEF T!ShiftUp, T!Positions
<1>4. ASSUME NEW j \in DOMAIN Offsets
      PROVE  KeyPlace(j) \in Nat /\ KeyPlace(j) + b <= kw
  BY <1>1, PlacesFit
<1>5. ASSUME r \in byte(k)
      PROVE  r + KeyPlace(k) \in Key(input)
  <2>1. r + KeyPlace(k) \in 0 .. kw - 1
    BY <1>1, <1>4
  <2>2. r + KeyPlace(k) \in T!ShiftUp(kw, byte(k), KeyPlace(k))
    BY <1>3, <1>5, <2>1
  <2>3. QED
    BY <1>2, <2>2
<1>6. ASSUME r + KeyPlace(k) \in Key(input)
      PROVE  r \in byte(k)
  <2>1. PICK j \in DOMAIN Offsets : r + KeyPlace(k) \in T!ShiftUp(kw, byte(j), KeyPlace(j))
    BY <1>2, <1>6
  <2>2. PICK s \in byte(j) : r + KeyPlace(k) = s + KeyPlace(j)
    BY <1>3, <2>1
  <2>3. s \in 0 .. b - 1 /\ r \in 0 .. b - 1
    BY <1>1 DEF BitsAt
  <2>4. PICK c \in Int, d \in Int : /\ c = n - k /\ d = n - j /\ KeyPlace(k) = c * b
                                    /\ KeyPlace(j) = d * b
    <3>1. k \in 1 .. n /\ j \in 1 .. n /\ KeyPlace(k) = (n - k) * b /\ KeyPlace(j) = (n - j) * b
      BY <1>1, PlacesFit
    <3>2. QED
      BY <3>1
  <2>5. PICK x \in Int : x = c * b + r /\ x = d * b + s
    <3>1. PICK y \in Int, z \in Int : y = c * b /\ z = d * b
      OBVIOUS
    <3>2. r + y = s + z /\ y + r \in Int /\ y + r = z + s
      BY <2>2, <2>3, <2>4, <3>1
    <3>3. QED
      BY <3>1, <3>2
  <2>6. x % b = r
    BY <2>3, <2>5, ModUnique
  <2>7. x % b = s
    BY <2>3, <2>5, ModUnique
  <2>8. s = r
    BY <2>6, <2>7
  <2>9. c = d
    <3>1. x \div b = c
      BY <2>3, <2>5, QuotientUnique
    <3>2. x \div b = d
      BY <2>3, <2>5, QuotientUnique
    <3>3. QED
      BY <3>1, <3>2
  <2>10. j = k
    <3>1. PICK y \in Int, z \in Int : y = j /\ z = k
      BY <1>1, PlacesFit
    <3>2. n - z = n - y
      BY <2>4, <2>9, <3>1
    <3>3. y = z
      BY <3>1, <3>2
    <3>4. QED
      BY <3>1, <3>3
  <2>11. QED
    BY <2>2, <2>8, <2>10
<1>7. QED
  BY <1>5, <1>6

\* Every position of a key is in one of its bytes.
LEMMA KeyPosition ==
  ASSUME NEW i \in 0 .. KeyWidth - 1
  PROVE  \E k \in DOMAIN Offsets, r \in 0 .. ByteBits - 1 : i = r + KeyPlace(k)
<1>1. PICK b \in Nat \ {0}, n \in Nat, kw \in Nat :
        b = ByteBits /\ n = Len(Offsets) /\ kw = KeyWidth /\ kw = n * b
  BY TableFacts
<1>2. PICK q \in Int, r \in 0 .. b - 1 : i = q * b + r
  <2>1. i \in Int
    BY <1>1
  <2>2. QED
    BY <2>1, ModDecompose
<1>3. q \in 0 .. n - 1
  <2>1. ~(q < 0)
    <3>1. ASSUME q < 0
          PROVE  FALSE
      <4>1. PICK d \in Nat : q = -1 - d
        <5>1. -1 - q \in Nat /\ q = -1 - (-1 - q)
          BY <3>1
        <5>2. QED
          BY <5>1
      <4>2. PICK z \in Nat : z = d * b /\ q * b = -b - z
        <5>1. (-1 - d) * b = -b - d * b /\ d * b \in Nat
          OBVIOUS
        <5>2. QED
          BY <4>1, <5>1
      <4>3. QED
        BY <1>1, <1>2, <4>2
    <3>2. QED
      BY <3>1
  <2>2. ~(n <= q)
    <3>1. ASSUME n <= q
          PROVE  FALSE
      <4>1. PICK d \in Nat : q = n + d
        <5>1. q - n \in Nat /\ q = n + (q - n)
          BY <3>1
        <5>2. QED
          BY <5>1
      <4>2. PICK z \in Nat : z = d * b /\ q * b = kw + z
        <5>1. (n + d) * b = n * b + d * b /\ d * b \in Nat
          OBVIOUS
        <5>2. QED
          BY <1>1, <4>1, <5>1
      <4>3. QED
        BY <1>1, <1>2, <4>2
    <3>2. QED
      BY <3>1
  <2>3. QED
    BY <2>1, <2>2
<1>4. PICK k \in 1 .. n : k = n - q /\ n - k = q
  <2>1. n - q \in 1 .. n /\ n - (n - q) = q
    BY <1>3
  <2>2. QED
    BY <2>1
<1>5. k \in DOMAIN Offsets
  BY <1>1, TableFacts
<1>6. KeyPlace(k) = q * b
  BY <1>1, <1>4, <1>5, PlacesFit
<1>7. PICK z \in Int : z = q * b
  OBVIOUS
<1>8. i = r + KeyPlace(k)
  BY <1>2, <1>6, <1>7
<1>9. QED
  BY <1>1, <1>5, <1>8

\* The keys of the table, and those that are made of an input, are words.
LEMMA KeyTypes ==
  /\ \A i \in DOMAIN Entries : Entries[i].key \in SUBSET (0 .. KeyWidth - 1) /\ Entries[i].key \in Inputs
  /\ \A input : Key(input) \in SUBSET (0 .. KeyWidth - 1)
<1>1. KeyWidth \in Nat /\ InputWidth \in Nat /\ KeyWidth <= InputWidth
  BY TableFacts
<1>2. ASSUME NEW i \in DOMAIN Entries
      PROVE  Entries[i].key \in SUBSET (0 .. KeyWidth - 1) /\ Entries[i].key \in Inputs
  <2>1. Entries[i].key \in SUBSET (0 .. KeyWidth - 1)
    <3>1. Entries \in Seq([key : T!Words(KeyWidth), value : Nat])
      BY TableAssumption
    <3>2. ASSUME NEW S, Entries \in Seq(S)
          PROVE  Entries[i] \in S
      BY <3>2
    <3>3. Entries[i] \in [key : T!Words(KeyWidth), value : Nat]
      BY <3>1, <3>2, Zenon
    <3>4. QED
      BY <3>3 DEF T!Words, T!Positions
  <2>2. 0 .. KeyWidth - 1 \subseteq 0 .. InputWidth - 1
    BY <1>1
  <2>3. QED
    BY <2>1, <2>2, InputsAreNumbered
<1>3. ASSUME NEW input
      PROVE  Key(input) \in SUBSET (0 .. KeyWidth - 1)
  BY DEF Key, ExtractKey, T!ShiftUp, T!Positions
<1>4. QED
  BY <1>2, <1>3

\* An input matches an entry when their keys are the same.
LEMMA MatchIsEquality ==
  ASSUME NEW input \in Inputs, NEW i \in DOMAIN Entries
  PROVE  Matches(input, i) <=> Key(input) = Entries[i].key
<1>1. PICK key \in Inputs : key = Entries[i].key /\ key \in SUBSET (0 .. KeyWidth - 1)
  BY KeyTypes
<1> DEFINE asked(k) == BitsAt(input, ByteBits, InputPlace(k))
           held(k)  == BitsAt(key, ByteBits, KeyPlace(k))
<1>2. ASSUME NEW k \in DOMAIN Offsets
      PROVE  ByteOf(InputNumber[input], InputPlace(k)) = ByteOf(InputNumber[key], KeyPlace(k))
               <=> asked(k) = held(k)
  <2>1. InputPlace(k) \in 0 .. InputWidth /\ KeyPlace(k) \in 0 .. InputWidth
    BY PlacesFit
  <2>2. /\ asked(k) \in SUBSET (0 .. InputWidth - 1)
        /\ ByteOf(InputNumber[input], InputPlace(k)) = InputNumber[asked(k)]
    BY <2>1, ByteNumbers
  <2>3. /\ held(k) \in SUBSET (0 .. InputWidth - 1)
        /\ ByteOf(InputNumber[key], KeyPlace(k)) = InputNumber[held(k)]
    BY <2>1, ByteNumbers
  <2>4. InputNumber[asked(k)] = InputNumber[held(k)] => asked(k) = held(k)
    <3>1. PICK a \in SUBSET (0 .. InputWidth - 1), h \in SUBSET (0 .. InputWidth - 1) :
            a = asked(k) /\ h = held(k)
      BY <2>2, <2>3
    <3>2. InputNumber[a] = InputNumber[h] => a = h
      BY InputsAreNumbered, NumberUnique
    <3>3. QED
      BY <3>1, <3>2
  <2>5. QED
    BY <2>2, <2>3, <2>4
<1>3. Matches(input, i) <=> \A k \in DOMAIN Offsets : asked(k) = held(k)
  BY <1>1, <1>2 DEF Matches, InputPlace, KeyPlace
<1>4. ASSUME NEW k \in DOMAIN Offsets, NEW r \in 0 .. ByteBits - 1
      PROVE  /\ r \in asked(k) <=> r + KeyPlace(k) \in Key(input)
             /\ r \in held(k) <=> r + KeyPlace(k) \in key
  <2>1. r \in asked(k) <=> r + KeyPlace(k) \in Key(input)
    BY KeyBit
  <2>2. r \in held(k) <=> r + KeyPlace(k) \in key
    BY DEF BitsAt
  <2>3. QED
    BY <2>1, <2>2
<1>5. ASSUME Key(input) = key, NEW k \in DOMAIN Offsets
      PROVE  asked(k) = held(k)
  <2>1. asked(k) \subseteq 0 .. ByteBits - 1 /\ held(k) \subseteq 0 .. ByteBits - 1
    BY DEF BitsAt
  <2>2. \A r \in 0 .. ByteBits - 1 : r \in asked(k) <=> r \in held(k)
    BY <1>4, <1>5
  <2> HIDE DEF asked, held
  <2>3. QED
    BY <2>1, <2>2
<1>6. ASSUME \A k \in DOMAIN Offsets : asked(k) = held(k)
      PROVE  Key(input) = key
  <2>1. ASSUME NEW p \in 0 .. KeyWidth - 1
        PROVE  p \in Key(input) <=> p \in key
    <3>1. PICK k \in DOMAIN Offsets, r \in 0 .. ByteBits - 1 : p = r + KeyPlace(k)
      BY KeyPosition
    <3>2. QED
      BY <1>4, <1>6, <3>1
  <2>2. Key(input) \in SUBSET (0 .. KeyWidth - 1)
    BY KeyTypes
  <2>3. QED
    BY <1>1, <2>1, <2>2
<1> HIDE DEF asked, held
<1>7. QED
  BY <1>1, <1>3, <1>5, <1>6

(***************************************************************************)
(* The witness of a path sends a lookup down that path and no other, for   *)
(* every table with unique keys, every choice of key bytes and every       *)
(* witness that the solver may return (exact_match_table.cc:68-78).        *)
(***************************************************************************)
THEOREM WitnessesTakeTheirPaths == Spec => []ReportsAreLookups
<1>1. ASSUME WitnessInv
      PROVE  ReportsAreLookups
  <2>1. SUFFICES ASSUME Printed("table")
        PROVE  LET hits == {i \in DOMAIN Entries : Matches(line.answer, i)}
               IN  /\ hits = {line.question} \ {Miss}
                   /\ line.output = IF hits = {} THEN MissValue
                                    ELSE Entries[CHOOSE i \in hits : TRUE].value
    BY DEF ReportsAreLookups
  <2>2. PICK path \in 1 .. Miss, input \in Inputs :
          /\ path = line.question /\ input = line.answer /\ line.output = Output(path)
          /\ \A c \in PathCondition(path) : ConditionHolds(c, input)
    BY <1>1, <2>1 DEF WitnessInv
  <2>3. PICK hits : hits = {i \in DOMAIN Entries : Matches(input, i)}
    OBVIOUS
  <2>4. \A i \in DOMAIN Entries : i \in hits <=> Key(input) = Entries[i].key
    BY <2>3, MatchIsEquality
  <2>5. Len(Entries) \in Nat /\ DOMAIN Entries = 1 .. Len(Entries) /\ Miss = Len(Entries) + 1
    <3>1. Entries \in Seq([key : T!Words(KeyWidth), value : Nat])
      BY TableAssumption
    <3>2. QED
      BY <3>1 DEF Miss
  <2>6. CASE path = Miss
    <3>1. ASSUME NEW i \in DOMAIN Entries
          PROVE  i \notin hits
      <4>1. PICK c : c = [same |-> FALSE, entry |-> i]
        OBVIOUS
      <4>2. c \in PathCondition(path)
        BY <2>6, <4>1 DEF PathCondition
      <4>3. (Key(input) = Entries[i].key) = FALSE
        BY <2>2, <4>1, <4>2 DEF ConditionHolds, Key
      <4>4. QED
        BY <2>4, <4>3
    <3>2. hits = {}
      BY <2>3, <3>1
    <3>3. line.output = MissValue
      BY <2>2, <2>6 DEF Output
    <3>4. QED
      BY <2>2, <2>3, <2>6, <3>2, <3>3
  <2>7. CASE path # Miss
    <3>1. path \in DOMAIN Entries
      BY <2>5, <2>7
    <3>2. Key(input) = Entries[path].key
      <4>1. PICK c : c = [same |-> TRUE, entry |-> path]
        OBVIOUS
      <4>2. c \in PathCondition(path)
        BY <2>7, <4>1 DEF PathCondition
      <4>3. (Key(input) = Entries[path].key) = TRUE
        BY <2>2, <4>1, <4>2 DEF ConditionHolds, Key
      <4>4. QED
        BY <4>3
    <3>3. path \in hits
      BY <2>4, <3>1, <3>2
    <3>4. ASSUME NEW i \in hits
          PROVE  i = path
      <4>1. i \in DOMAIN Entries /\ Entries[i].key = Entries[path].key
        BY <2>3, <2>4, <3>2
      <4>2. ~(i < path) /\ ~(path < i)
        BY <3>1, <4>1, TableAssumption DEF AllKeysUnique
      <4>3. QED
        BY <2>5, <3>1, <4>1, <4>2
    <3>5. hits = {path}
      BY <3>3, <3>4
    <3>6. (CHOOSE i \in hits : TRUE) = path
      BY <3>5
    <3>7. line.output = Entries[path].value
      BY <2>2, <2>7 DEF Output
    <3>8. QED
      BY <2>2, <2>3, <2>7, <3>3, <3>5, <3>6, <3>7
  <2>8. QED
    BY <2>6, <2>7
<1>2. QED
  BY <1>1, PrintedAnswersAreSolutions, PTL
=============================================================================
