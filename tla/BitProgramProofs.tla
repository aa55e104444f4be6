-------------------------- MODULE BitProgramProofs --------------------------
(***************************************************************************)
(* Proofs, for every width and every program, of what BitProgramProps      *)
(* states: type correctness, and the properties of replace and of the      *)
(* rotations.                                                              *)
(***************************************************************************)
EXTENDS BitProgramProps, Remainders

-----------------------------------------------------------------------------
(* Positions and words *)

\* Widths are positive integers, and their positions those of wider ones.
LEMMA WidthsType ==
  ASSUME NEW w \in Widths
  PROVE  /\ w \in Nat \ {0}
         /\ w <= MaxWidth
         /\ Positions(w) \subseteq Nat
         /\ \A v \in Nat : v <= w => Words(v) \subseteq Words(w)
BY NumberAssumption DEF Widths, Positions, Words

\* The parts of a term.
LEMMA TermParts ==
  ASSUME NEW t \in Terms
  PROVE  /\ t.w \in Widths /\ t.w \in Nat \ {0} /\ t.w <= MaxWidth
         /\ t.s \in BOOLEAN
         /\ t.b \in Words(t.w) /\ t.b \subseteq Nat
         /\ t = Vec(t.w, t.s, t.b)
BY WidthsType DEF Terms, Vec, Words

\* A word in its width makes a term.
LEMMA TermOfWord ==
  ASSUME NEW w \in Widths, NEW s \in BOOLEAN, NEW b \in Words(w)
  PROVE  Vec(w, s, b) \in Terms
<1>1. MaxWidth \in Nat /\ w \in Nat /\ w <= MaxWidth
  BY NumberAssumption, WidthsType
<1>2. b \in Words(MaxWidth)
  BY <1>1 DEF Words, Positions
<1>3. QED
  BY <1>2 DEF Vec, Terms

\* A word has a number.
LEMMA NumberType ==
  ASSUME NEW w \in Widths, NEW b \in Words(w)
  PROVE  Number[b] \in Nat
<1>1. MaxWidth \in Nat /\ w \in Nat /\ w <= MaxWidth
  BY NumberAssumption, WidthsType
<1>2. b \in Words(MaxWidth)
  BY <1>1 DEF Words, Positions
<1>3. QED
  BY <1>2, NumberAssumption

\* A window of a word.
LEMMA SliceBits ==
  ASSUME NEW lo \in Nat, NEW w \in Nat \ {0}, NEW b \in SUBSET Nat
  PROVE  /\ Slice(b, lo + w - 1, lo) \in Words(w)
         /\ \A i \in Nat : i \in Slice(b, lo + w - 1, lo) <=> i < w /\ lo + i \in b
<1>1. Slice(b, lo + w - 1, lo) \in Words(w)
  BY DEF Slice, Words, Positions
<1>2. ASSUME NEW i \in Nat
      PROVE  i \in Slice(b, lo + w - 1, lo) <=> i < w /\ lo + i \in b
  <2>1. ASSUME i \in Slice(b, lo + w - 1, lo) PROVE i < w /\ lo + i \in b
    BY <2>1 DEF Slice
  <2>2. ASSUME i < w, lo + i \in b PROVE i \in Slice(b, lo + w - 1, lo)
    <3>1. lo + i \in b \cap (lo .. lo + w - 1) /\ (lo + i) - lo = i
      BY <2>2
    <3>2. QED
      BY <3>1 DEF Slice
  <2>3. QED
    BY <2>1, <2>2
<1>3. QED
  BY <1>1, <1>2

\* Two words side by side.
LEMMA JoinBits ==
  ASSUME NEW m \in Nat, NEW w \in Nat, NEW high \in Words(m), NEW low \in Words(w)
  PROVE  /\ Join(high, w, low) \in Words(m + w)
         /\ \A i \in Nat : i \in Join(high, w, low) <=>
                IF i < w THEN i \in low ELSE i - w \in high
<1>1. Join(high, w, low) \in Words(m + w)
  <2>1. \A i \in high : i + w \in 0 .. (m + w - 1)
    BY DEF Words, Positions
  <2>2. \A i \in low : i \in 0 .. (m + w - 1)
    BY DEF Words, Positions
  <2>3. Join(high, w, low) \subseteq 0 .. (m + w - 1)
    BY <2>1, <2>2 DEF Join
  <2>4. QED
    BY <2>3 DEF Words, Positions
<1>2. ASSUME NEW i \in Nat, i < w
      PROVE  i \in Join(high, w, low) <=> i \in low
  BY <1>2 DEF Join, Words, Positions
<1>3. ASSUME NEW i \in Nat, ~(i < w)
      PROVE  i \in Join(high, w, low) <=> i - w \in high
  <2>1. i \notin low
    BY <1>3 DEF Words, Positions
  <2>2. ASSUME i - w \in high PROVE i \in Join(high, w, low)
    <3>1. (i - w) + w = i
      BY <1>3
    <3>2. QED
      BY <2>2, <3>1 DEF Join
  <2>3. ASSUME i \in Join(high, w, low) PROVE i - w \in high
    <3>1. PICK j \in high : i = j + w
      BY <2>1, <2>3 DEF Join
    <3>2. j \in Nat /\ i - w = j
      BY <3>1 DEF Words, Positions
    <3>3. QED
      BY <3>2
  <2>4. QED
    BY <2>2, <2>3
<1>4. QED
  BY <1>1, <1>2, <1>3

\* A word moved up.
LEMMA ShiftUpBits ==
  ASSUME NEW w \in Nat, NEW n \in Nat, NEW b \in SUBSET Nat
  PROVE  /\ ShiftUp(w, b, n) \in Words(w)
         /\ \A i \in Nat : i \in ShiftUp(w, b, n) <=> i < w /\ i - n \in b
<1>1. ShiftUp(w, b, n) \in Words(w)
  BY DEF ShiftUp, Words, Positions
<1>2. ASSUME NEW i \in Nat
      PROVE  i \in ShiftUp(w, b, n) <=> i < w /\ i - n \in b
  <2>1. ASSUME i \in ShiftUp(w, b, n) PROVE i < w /\ i - n \in b
    <3>1. i \in Positions(w) /\ \E j \in b : i = j + n
      BY <2>1 DEF ShiftUp
    <3>2. QED
      BY <3>1 DEF Positions
  <2>2. ASSUME i < w, i - n \in b PROVE i \in ShiftUp(w, b, n)
    <3>1. (i - n) + n = i /\ i \in Positions(w)
      BY <2>2 DEF Positions
    <3>2. QED
      BY <2>2, <3>1 DEF ShiftUp
  <2>3. QED
    BY <2>1, <2>2
<1>3. QED
  BY <1>1, <1>2

\* A word turned: bit i is the one n positions below, or above, around the width.
LEMMA TurnedBits ==
  ASSUME NEW w \in Nat \ {0}, NEW n \in Nat, NEW b \in Words(w)
  PROVE  /\ RotateLeft(w, b, n) \in Words(w)
         /\ RotateRight(w, b, n) \in Words(w)
         /\ \A i \in Positions(w) : i \in RotateLeft(w, b, n) <=> (i - n) % w \in b
         /\ \A i \in Positions(w) : i \in RotateRight(w, b, n) <=> (i + n) % w \in b
<1>1. \A j \in Positions(w) :
        /\ (j + n) % w \in Positions(w) /\ (((j + n) % w) - n) % w = j
        /\ (j - n) % w \in Positions(w) /\ (((j - n) % w) + n) % w = j
  <2>1. ASSUME NEW j \in 0 .. (w - 1)
        PROVE  /\ (j + n) % w \in 0 .. (w - 1) /\ (((j + n) % w) - n) % w = j
               /\ (j - n) % w \in 0 .. (w - 1) /\ (((j - n) % w) + n) % w = j
    <3>1. n \in Int /\ -n \in Int /\ j + (-n) = j - n /\ -(-n) = n
      OBVIOUS
    <3>2. (j + n) % w \in 0 .. (w - 1) /\ (((j + n) % w) - n) % w = j
      BY <3>1, ModBackAndForth
    <3>3. /\ (j + (-n)) % w \in 0 .. (w - 1)
          /\ (((j + (-n)) % w) + (-(-n))) % w = j
      BY <3>1, ModBackAndForth
    <3>4. QED
      BY <3>1, <3>2, <3>3
  <2>2. QED
    BY <2>1 DEF Positions
<1>2. b \subseteq Positions(w)
  BY DEF Words
<1>3. RotateLeft(w, b, n) \in Words(w) /\ RotateRight(w, b, n) \in Words(w)
  BY <1>1, <1>2 DEF RotateLeft, RotateRight, Words
<1>4. ASSUME NEW i \in Positions(w)
      PROVE  i \in RotateLeft(w, b, n) <=> (i - n) % w \in b
  <2>1. ASSUME i \in RotateLeft(w, b, n) PROVE (i - n) % w \in b
    <3>1. PICK j \in b : i = (j + n) % w
      BY <2>1 DEF RotateLeft
    <3>2. QED
      BY <1>1, <1>2, <3>1
  <2>2. ASSUME (i - n) % w \in b PROVE i \in RotateLeft(w, b, n)
    BY <1>1, <2>2 DEF RotateLeft
  <2>3. QED
    BY <2>1, <2>2
<1>5. ASSUME NEW i \in Positions(w)
      PROVE  i \in RotateRight(w, b, n) <=> (i + n) % w \in b
  <2>1. ASSUME i \in RotateRight(w, b, n) PROVE (i + n) % w \in b
    <3>1. PICK j \in b : i = (j - n) % w
      BY <2>1 DEF RotateRight
    <3>2. QED
      BY <1>1, <1>2, <3>1
  <2>2. ASSUME (i + n) % w \in b PROVE i \in RotateRight(w, b, n)
    BY <1>1, <2>2 DEF RotateRight
  <2>3. QED
    BY <2>1, <2>2
<1>6. QED
  BY <1>3, <1>4, <1>5

\* Two words are equal when they have the same bits.
LEMMA SameBits ==
  ASSUME NEW w \in Nat, NEW b \in Words(w), NEW c \in Words(w),
         \A i \in Positions(w) : i \in b <=> i \in c
  PROVE  b = c
BY DEF Words

-----------------------------------------------------------------------------
(* What the operations make *)

\* The bits of a constant or run-time replace.
LEMMA ReplaceAtBits ==
  ASSUME NEW a \in Terms, NEW f \in Terms, NEW lo \in Nat, lo + f.w <= a.w
  PROVE  /\ ReplaceAt(a, f, lo) \in Terms
         /\ ReplaceAt(a, f, lo).w = a.w /\ ReplaceAt(a, f, lo).s = a.s
         /\ \A i \in Positions(a.w) : i \in ReplaceAt(a, f, lo).b <=>
                IF lo <= i /\ i < lo + f.w THEN i - lo \in f.b ELSE i \in a.b
<1> DEFINE top   == lo + f.w
           upper == IF top < a.w
                      THEN Join(Slice(a.b, a.w - 1, top), f.w, f.b) ELSE f.b
           whole == IF lo > 0 THEN Join(upper, lo, Slice(a.b, lo - 1, 0)) ELSE upper
<1>1. /\ a.w \in Widths /\ a.w \in Nat \ {0} /\ a.s \in BOOLEAN
      /\ a.b \in Words(a.w) /\ a.b \in SUBSET Nat
      /\ f.w \in Nat \ {0} /\ f.b \in Words(f.w)
      /\ top \in Nat /\ a.w - lo \in Nat
  BY TermParts
<1>2. /\ upper \in Words(a.w - lo)
      /\ \A i \in Nat : i < a.w - lo =>
            (i \in upper <=> IF i < f.w THEN i \in f.b ELSE lo + i \in a.b)
  <2>1. CASE top < a.w
    <3>1. a.w - top \in Nat \ {0} /\ top + (a.w - top) - 1 = a.w - 1
          /\ (a.w - top) + f.w = a.w - lo
      BY <1>1, <2>1
    <3>2. /\ Slice(a.b, a.w - 1, top) \in Words(a.w - top)
          /\ \A i \in Nat : i \in Slice(a.b, a.w - 1, top) <=>
                i < a.w - top /\ top + i \in a.b
      <4>1. /\ Slice(a.b, top + (a.w - top) - 1, top) \in Words(a.w - top)
            /\ \A i \in Nat : i \in Slice(a.b, top + (a.w - top) - 1, top) <=>
                  i < a.w - top /\ top + i \in a.b
        BY <1>1, <3>1, SliceBits
      <4>2. QED
        BY <3>1, <4>1
    <3>3. /\ upper \in Words((a.w - top) + f.w)
          /\ \A i \in Nat : i \in upper <=>
                IF i < f.w THEN i \in f.b ELSE i - f.w \in Slice(a.b, a.w - 1, top)
      <4>1. upper = Join(Slice(a.b, a.w - 1, top), f.w, f.b)
        BY <2>1
      <4>2. a.w - top \in Nat /\ f.w \in Nat
        BY <1>1, <3>1
      <4> HIDE DEF upper, top
      <4>3. QED
        BY <1>1, <3>2, <4>1, <4>2, JoinBits
    <3>4. ASSUME NEW i \in Nat, i < a.w - lo
          PROVE  i \in upper <=> IF i < f.w THEN i \in f.b ELSE lo + i \in a.b
      <4>1. CASE i < f.w
        BY <3>3, <4>1
      <4>2. CASE ~(i < f.w)
        <5>1. i - f.w \in Nat /\ i - f.w < a.w - top /\ top + (i - f.w) = lo + i
          BY <1>1, <3>4, <4>2
        <5>2. QED
          BY <3>2, <3>3, <4>2, <5>1
      <4>3. QED
        BY <4>1, <4>2
    <3>5. QED
      BY <3>1, <3>3, <3>4
  <2>2. CASE ~(top < a.w)
    <3>1. upper = f.b /\ f.w = a.w - lo
      BY <1>1, <2>2
    <3>2. QED
      BY <1>1, <3>1
  <2>3. QED
    BY <2>1, <2>2
<1>3. /\ whole \in Words(a.w)
      /\ \A i \in Nat : i < a.w =>
            (i \in whole <=> IF lo <= i THEN i - lo \in upper ELSE i \in a.b)
  <2>1. CASE lo > 0
    <3>1. lo \in Nat \ {0} /\ 0 + lo - 1 = lo - 1 /\ (a.w - lo) + lo = a.w
      BY <1>1, <2>1
    <3>2. /\ Slice(a.b, lo - 1, 0) \in Words(lo)
          /\ \A i \in Nat : i \in Slice(a.b, lo - 1, 0) <=> i < lo /\ i \in a.b
      <4>1. /\ Slice(a.b, 0 + lo - 1, 0) \in Words(lo)
            /\ \A i \in Nat : i \in Slice(a.b, 0 + lo - 1, 0) <=> i < lo /\ 0 + i \in a.b
        BY <1>1, <3>1, SliceBits
      <4>2. QED
        BY <3>1, <4>1
    <3>3. /\ whole \in Words((a.w - lo) + lo)
          /\ \A i \in Nat : i \in whole <=>
                IF i < lo THEN i \in Slice(a.b, lo - 1, 0) ELSE i - lo \in upper
      <4>1. whole = Join(upper, lo, Slice(a.b, lo - 1, 0))
        BY <2>1
      <4> HIDE DEF whole, upper, top
      <4>2. QED
        BY <1>1, <1>2, <3>2, <4>1, JoinBits
    <3>4. QED
      BY <3>1, <3>2, <3>3
  <2>2. CASE ~(lo > 0)
    <3>1. whole = upper /\ lo = 0
      BY <2>2
    <3>2. QED
      BY <1>1, <1>2, <3>1
  <2>3. QED
    BY <2>1, <2>2
<1>4. ReplaceAt(a, f, lo) = Vec(a.w, a.s, whole)
  BY DEF ReplaceAt
<1>5. ReplaceAt(a, f, lo) \in Terms
  BY <1>1, <1>3, <1>4, TermOfWord
<1>6. /\ ReplaceAt(a, f, lo).w = a.w /\ ReplaceAt(a, f, lo).s = a.s
      /\ ReplaceAt(a, f, lo).b = whole
  BY <1>4 DEF Vec
<1>7. ASSUME NEW i \in Positions(a.w)
      PROVE  i \in whole <=>
                IF lo <= i /\ i < lo + f.w THEN i - lo \in f.b ELSE i \in a.b
  <2>1. i \in Nat /\ i < a.w
    BY <1>1, <1>7 DEF Positions
  <2>2. CASE lo <= i
    <3>1. i - lo \in Nat /\ i - lo < a.w - lo /\ lo + (i - lo) = i
      BY <1>1, <2>1, <2>2
    <3>2. (i - lo < f.w) <=> (i < lo + f.w)
      BY <1>1, <2>1
    <3>3. QED
      BY <1>2, <1>3, <2>1, <2>2, <3>1, <3>2
  <2>3. CASE ~(lo <= i)
    BY <1>3, <2>1, <2>3
  <2>4. QED
    BY <2>2, <2>3
<1>8. QED
  BY <1>5, <1>6, <1>7

\* The bits of a replace with a symbolic offset.
LEMMA ReplaceByBits ==
  ASSUME NEW a \in Terms, NEW f \in Terms, NEW lo \in Terms, f.w <= a.w
  PROVE  /\ Number[lo.b] \in Nat
         /\ ReplaceBy(a, f, lo) \in Terms
         /\ ReplaceBy(a, f, lo).w = a.w /\ ReplaceBy(a, f, lo).s = a.s
         /\ \A i \in Positions(a.w) : i \in ReplaceBy(a, f, lo).b <=>
                IF Number[lo.b] <= i /\ i < Number[lo.b] + f.w
                  THEN i - Number[lo.b] \in f.b ELSE i \in a.b
<1> DEFINE w       == Wider(a.w, lo.w)
           n       == Number[lo.b]
           mask    == ShiftUp(w, Positions(f.w), n)
           shifted == ShiftUp(w, f.b, n)
           wide    == (a.b \cap Complement(w, mask)) \cup shifted
           result  == IF w > a.w THEN Slice(wide, a.w - 1, 0) ELSE wide
<1>1. /\ a.w \in Widths /\ a.w \in Nat \ {0} /\ a.s \in BOOLEAN
      /\ a.b \in Words(a.w) /\ a.b \in SUBSET Nat
      /\ f.w \in Nat \ {0} /\ f.b \in Words(f.w) /\ f.b \in SUBSET Nat
      /\ Positions(f.w) \in SUBSET Nat
      /\ lo.w \in Widths /\ lo.w \in Nat \ {0} /\ lo.b \in Words(lo.w)
  BY TermParts, WidthsType
<1>2. n \in Nat
  BY <1>1, NumberType
<1>3. w \in Nat /\ a.w <= w
  BY <1>1 DEF Wider
<1>4. /\ \A i \in Nat : i \in mask <=> i < w /\ i - n \in Positions(f.w)
      /\ \A i \in Nat : i \in shifted <=> i < w /\ i - n \in f.b
      /\ shifted \in Words(w)
  BY <1>1, <1>2, <1>3, ShiftUpBits
<1>5. wide \in Words(w) /\ wide \in SUBSET Nat
  BY <1>4 DEF Complement, Words, Positions
<1>6. ASSUME NEW i \in Positions(a.w)
      PROVE  i \in wide <=>
                IF n <= i /\ i < n + f.w THEN i - n \in f.b ELSE i \in a.b
  <2>1. i \in Nat /\ i < w /\ i \in Positions(w)
    BY <1>1, <1>3, <1>6 DEF Positions
  <2>2. (i - n \in Positions(f.w)) <=> (n <= i /\ i < n + f.w)
    BY <1>1, <1>2, <2>1 DEF Positions
  <2>3. i - n \in f.b => i - n \in Positions(f.w)
    BY <1>1 DEF Words
  <2>4. i \in wide <=> (i \in a.b /\ i \notin mask) \/ i \in shifted
    BY <2>1 DEF Complement
  <2> HIDE DEF wide, mask, shifted, n, w
  <2>5. QED
    BY <1>4, <2>1, <2>2, <2>3, <2>4
<1>7. /\ result \in Words(a.w)
      /\ \A i \in Positions(a.w) : i \in result <=> i \in wide
  <2>1. CASE w > a.w
    <3>1. 0 \in Nat /\ 0 + a.w - 1 = a.w - 1 /\ result = Slice(wide, a.w - 1, 0)
      BY <1>1, <2>1
    <3> HIDE DEF wide, result
    <3>2. /\ Slice(wide, 0 + a.w - 1, 0) \in Words(a.w)
          /\ \A i \in Nat : i \in Slice(wide, 0 + a.w - 1, 0) <=> i < a.w /\ 0 + i \in wide
      BY <1>1, <1>5, <3>1, SliceBits
    <3>3. \A i \in Positions(a.w) : i \in Nat /\ i < a.w /\ 0 + i = i
      BY <1>1 DEF Positions
    <3>4. QED
      BY <3>1, <3>2, <3>3
  <2>2. CASE ~(w > a.w)
    <3>1. w = a.w /\ result = wide
      BY <1>1, <1>3, <2>2
    <3>2. QED
      BY <1>5, <3>1
  <2>3. QED
    BY <2>1, <2>2
<1>8. ReplaceBy(a, f, lo) = Vec(a.w, a.s, result)
  BY DEF ReplaceBy
<1> HIDE DEF result, wide, n
<1>9. ReplaceBy(a, f, lo) \in Terms
  BY <1>1, <1>7, <1>8, TermOfWord
<1>10. /\ ReplaceBy(a, f, lo).w = a.w /\ ReplaceBy(a, f, lo).s = a.s
       /\ ReplaceBy(a, f, lo).b = result
  BY <1>8 DEF Vec
<1>11. QED
  BY <1>2, <1>6, <1>7, <1>9, <1>10 DEF n

\* The bits of an extract.
LEMMA ExtractBits ==
  ASSUME NEW a \in Terms, NEW w \in Widths, NEW lo \in Nat
  PROVE  /\ ExtractFrom(a, w, lo) \in Terms
         /\ ExtractFrom(a, w, lo).w = w /\ ExtractFrom(a, w, lo).s = FALSE
         /\ \A i \in Positions(w) : i \in ExtractFrom(a, w, lo).b <=> lo + i \in a.b
<1>1. w \in Nat \ {0} /\ a.b \in SUBSET Nat
  BY TermParts, WidthsType
<1>2. /\ Slice(a.b, lo + w - 1, lo) \in Words(w)
      /\ \A i \in Nat : i \in Slice(a.b, lo + w - 1, lo) <=> i < w /\ lo + i \in a.b
  BY <1>1, SliceBits
<1>3. FALSE \in BOOLEAN
  OBVIOUS
<1>4. /\ ExtractFrom(a, w, lo) = Vec(w, FALSE, Slice(a.b, lo + w - 1, lo))
      /\ ExtractFrom(a, w, lo) \in Terms
  BY <1>2, <1>3, TermOfWord DEF ExtractFrom
<1>5. \A i \in Positions(w) : i \in Nat /\ i < w
  BY <1>1 DEF Positions
<1>6. QED
  BY <1>2, <1>4, <1>5 DEF Vec

\* The bits of a concatenation.
LEMMA ConcatBits ==
  ASSUME NEW a \in Terms, NEW b \in Terms, a.w + b.w <= MaxWidth
  PROVE  /\ Concat(a, b) \in Terms
         /\ Concat(a, b).w = a.w + b.w /\ Concat(a, b).s = FALSE
         /\ \A i \in Positions(a.w + b.w) : i \in Concat(a, b).b <=>
                IF i < b.w THEN i \in b.b ELSE i - b.w \in a.b
<1>1. /\ a.w \in Nat \ {0} /\ a.b \in Words(a.w) /\ b.w \in Nat \ {0} /\ b.b \in Words(b.w)
      /\ MaxWidth \in Nat
  BY TermParts, NumberAssumption
<1>2. /\ Join(a.b, b.w, b.b) \in Words(a.w + b.w)
      /\ \A i \in Nat : i \in Join(a.b, b.w, b.b) <=>
            IF i < b.w THEN i \in b.b ELSE i - b.w \in a.b
  BY <1>1, JoinBits
<1>3. a.w + b.w \in Widths /\ FALSE \in BOOLEAN /\ Positions(a.w + b.w) \subseteq Nat
  BY <1>1 DEF Widths, Positions
<1>4. /\ Concat(a, b) = Vec(a.w + b.w, FALSE, Join(a.b, b.w, b.b))
      /\ Concat(a, b) \in Terms
  BY <1>2, <1>3, TermOfWord DEF Concat
<1>5. QED
  BY <1>2, <1>3, <1>4 DEF Vec

\* An amount brought to the width of the value keeps its low bits.
LEMMA ToWidthBits ==
  ASSUME NEW w \in Widths, NEW amount \in Terms
  PROVE  /\ ToWidth(w, amount) \in Words(w)
         /\ ToWidth(w, amount) = {i \in Positions(w) : i \in amount.b}
         /\ Number[ToWidth(w, amount)] \in Nat
         /\ amount.b \in Words(w) => ToWidth(w, amount) = amount.b
<1>1. /\ w \in Nat \ {0} /\ amount.w \in Nat \ {0}
      /\ amount.b \in Words(amount.w) /\ amount.b \in SUBSET Nat
  BY TermParts, WidthsType
<1>2. ToWidth(w, amount) \in Words(w)
      /\ \A i \in Positions(w) : i \in ToWidth(w, amount) <=> i \in amount.b
  <2>1. CASE w < amount.w
    <3>1. 0 \in Nat /\ 0 + w - 1 = w - 1 /\ ToWidth(w, amount) = Slice(amount.b, w - 1, 0)
      BY <1>1, <2>1 DEF ToWidth
    <3>2. /\ Slice(amount.b, 0 + w - 1, 0) \in Words(w)
          /\ \A i \in Nat : i \in Slice(amount.b, 0 + w - 1, 0) <=> i < w /\ 0 + i \in amount.b
      BY <1>1, <3>1, SliceBits
    <3>3. \A i \in Positions(w) : i \in Nat /\ i < w /\ 0 + i = i
      BY <1>1 DEF Positions
    <3>4. QED
      BY <3>1, <3>2, <3>3
  <2>2. CASE ~(w < amount.w)
    <3>1. ToWidth(w, amount) = amount.b
      BY <2>2 DEF ToWidth
    <3>2. amount.b \in Words(w)
      BY <1>1, <2>2 DEF Words, Positions
    <3>3. QED
      BY <3>1, <3>2
  <2>3. QED
    BY <2>1, <2>2
<1>3. ToWidth(w, amount) = {i \in Positions(w) : i \in amount.b}
  BY <1>2 DEF Words
<1>4. QED
  BY <1>2, <1>3, NumberType DEF Words

\* The bits of the rotations.
LEMMA TurnBits ==
  ASSUME NEW a \in Terms, NEW n \in Nat
  PROVE  /\ RotlConst(a, n) \in Terms
         /\ RotlConst(a, n).w = a.w /\ RotlConst(a, n).s = a.s
         /\ RotrConst(a, n) \in Terms
         /\ RotrConst(a, n).w = a.w /\ RotrConst(a, n).s = a.s
         /\ \A i \in Positions(a.w) :
               /\ i \in RotlConst(a, n).b <=> (i - n) % a.w \in a.b
               /\ i \in RotrConst(a, n).b <=> (i + n) % a.w \in a.b
<1>1. a.w \in Widths /\ a.w \in Nat \ {0} /\ a.s \in BOOLEAN /\ a.b \in Words(a.w)
  BY TermParts
<1>2. /\ RotateLeft(a.w, a.b, n) \in Words(a.w)
      /\ RotateRight(a.w, a.b, n) \in Words(a.w)
      /\ \A i \in Positions(a.w) : i \in RotateLeft(a.w, a.b, n) <=> (i - n) % a.w \in a.b
      /\ \A i \in Positions(a.w) : i \in RotateRight(a.w, a.b, n) <=> (i + n) % a.w \in a.b
  BY <1>1, TurnedBits
<1>3. QED
  BY <1>1, <1>2, TermOfWord DEF RotlConst, RotrConst, Vec

\* The term of a SymBool.
LEMMA AsUint1Type ==
  ASSUME NEW flag \in BOOLEAN
  PROVE  /\ AsUint1(flag) \in Terms
         /\ AsUint1(flag).w = 1 /\ AsUint1(flag).s = FALSE
         /\ \A i \in Positions(1) : i \in AsUint1(flag).b <=> flag
<1>1. 1 \in Widths /\ FALSE \in BOOLEAN /\ {} \in Words(1) /\ {0} \in Words(1)
  BY NumberAssumption DEF Widths, Words, Positions
<1>2. AsUint1(flag) \in Terms
  <2>1. (IF flag THEN {0} ELSE {}) \in Words(1)
    BY <1>1
  <2>2. QED
    BY <1>1, <2>1, TermOfWord DEF AsUint1
<1>3. AsUint1(flag).w = 1 /\ AsUint1(flag).s = FALSE
      /\ AsUint1(flag).b = IF flag THEN {0} ELSE {}
  BY DEF AsUint1, Vec
<1>4. \A i \in Positions(1) : i = 0
  BY DEF Positions
<1>5. QED
  BY <1>2, <1>3, <1>4

\* Two terms of one type are equal when they have the same bits.
LEMMA SameTerms ==
  ASSUME NEW t \in Terms, NEW u \in Terms, t.w = u.w, t.s = u.s,
         \A i \in Positions(t.w) : i \in t.b <=> i \in u.b
  PROVE  t = u
<1>1. t = Vec(t.w, t.s, t.b) /\ u = Vec(u.w, u.s, u.b)
      /\ t.w \in Nat /\ t.b \in Words(t.w) /\ u.b \in Words(t.w)
  BY TermParts
<1>2. t.b = u.b
  BY <1>1, SameBits
<1>3. QED
  BY <1>1, <1>2

-----------------------------------------------------------------------------
(* Type correctness: one lemma per group of calls *)

\* What is taken from the objects is of their type.
LEMMA MadeType ==
  ASSUME TypeOK
  PROVE  /\ Made \subseteq Terms \cup {NoExpr}
         /\ Held \subseteq Terms
         /\ Shifts \subseteq {t \in Terms : ~t.s}
<1>1. \A i \in 1 .. Len(vecs) : vecs[i] \in Terms \cup {NoExpr}
  BY DEF TypeOK
<1>2. Made \subseteq Terms \cup {NoExpr} /\ Held \subseteq Terms
  BY <1>1 DEF Made, Held
<1>3. QED
  BY <1>2, BitProgramAssumption DEF Shifts

Calls == [op : Ops, vals : Seq(Terms \cup {NoExpr}), w : Nat, n : Nat]

\* The names that the calls use.
LEMMA OpNames ==
  /\ "start" \in Ops /\ "variable" \in Ops /\ "declare" \in Ops
  /\ "&" \in Ops /\ "|" \in Ops /\ "^" \in Ops /\ "~" \in Ops
  /\ "extract" \in Ops /\ "replace" \in Ops /\ "replace by" \in Ops
  /\ "concat" \in Ops /\ "rotl" \in Ops /\ "rotr" \in Ops
  /\ "rotl by" \in Ops /\ "rotr by" \in Ops /\ "read" \in Ops /\ "bitwise" \in Ops
BY DEF Ops

\* A call on a few terms.
LEMMA ShortCalls ==
  ASSUME NEW op \in Ops, NEW w \in Nat, NEW n \in Nat
  PROVE  /\ Call(op, <<>>, w, n) \in Calls
         /\ \A a \in Terms \cup {NoExpr} : Call(op, <<a>>, w, n) \in Calls
         /\ \A a, b \in Terms : Call(op, <<a, b>>, w, n) \in Calls
         /\ \A a, b, c \in Terms : Call(op, <<a, b, c>>, w, n) \in Calls
BY DEF Call, Calls

\* A call that makes an object keeps the types.
LEMMA ReturnType ==
  ASSUME TypeOK, NEW c \in Calls, NEW t \in Terms \cup {NoExpr}, Return(c, t)
  PROVE  TypeOK'
BY DEF TypeOK, Return, Calls

\* A call that stops the program keeps the types.
LEMMA StopType ==
  ASSUME TypeOK, NEW c \in Calls, NEW how \in {"aborted", "undefined"}, Stop(c, how)
  PROVE  TypeOK'
BY DEF TypeOK, Stop, Calls

\* Constructors and bitwise operators.
LEMMA WholeWordsType ==
  ASSUME TypeOK, NewVec \/ DeclareVec \/ And \/ Or \/ Xor \/ Invert
  PROVE  TypeOK'
<1>1. CASE NewVec
  <2>1. PICK ty \in InputTypes : \E b \in Words(ty.w) :
          Return(Call("variable", <<>>, ty.w, 0), Vec(ty.w, ty.s, b))
    BY <1>1 DEF NewVec
  <2>2. ty.w \in Widths /\ ty.s \in BOOLEAN /\ ty.w \in Nat
    BY BitProgramAssumption, WidthsType DEF Types
  <2>3. QED
    BY <2>1, <2>2, OpNames, ShortCalls, TermOfWord, ReturnType
<1>2. CASE DeclareVec
  BY <1>2, OpNames, ShortCalls, ReturnType DEF DeclareVec
<1>3. ASSUME NEW op \in Ops, NEW a \in Held, NEW b \in Held, NEW word \in Words(a.w),
             Bitwise(op, a, b, word)
      PROVE  TypeOK'
  <2>1. a \in Terms /\ b \in Terms /\ a.w \in Widths /\ a.s \in BOOLEAN /\ a.w \in Nat
    BY MadeType, TermParts
  <2>2. Vec(a.w, a.s, word) \in Terms
    BY <2>1, TermOfWord
  <2>3. QED
    BY <1>3, <2>1, <2>2, ShortCalls, ReturnType DEF Bitwise
<1>4. ASSUME NEW a \in Held, NEW b \in Held, SameType(a, b)
      PROVE  /\ a.b \cap b.b \in Words(a.w) /\ a.b \cup b.b \in Words(a.w)
             /\ Differ(a.b, b.b) \in Words(a.w)
  BY <1>4, MadeType, TermParts DEF SameType, Words, Differ
<1>5. CASE And
  BY <1>3, <1>4, <1>5, OpNames DEF And, Bitwise
<1>6. CASE Or
  BY <1>3, <1>4, <1>6, OpNames DEF Or, Bitwise
<1>7. CASE Xor
  BY <1>3, <1>4, <1>7, OpNames DEF Xor, Bitwise
<1>8. CASE Invert
  <2>1. PICK a \in Held :
          Return(Call("~", <<a>>, a.w, 0), Vec(a.w, a.s, Complement(a.w, a.b)))
    BY <1>8 DEF Invert
  <2>2. a \in Terms /\ a.w \in Widths /\ a.s \in BOOLEAN /\ a.w \in Nat
        /\ Complement(a.w, a.b) \in Words(a.w)
    BY MadeType, TermParts DEF Complement, Words
  <2>3. QED
    BY <2>1, <2>2, TermOfWord, OpNames, ShortCalls, ReturnType
<1>9. QED
  BY <1>1, <1>2, <1>5, <1>6, <1>7, <1>8

\* An offset within the window is one that the static form would accept.
LEMMA WindowFits ==
  ASSUME NEW lo \in Offsets, NEW w \in Widths, NEW total \in Widths
  PROVE  lo \in Nat /\ (InWindow(lo, w, total) <=> lo + w <= total)
<1>1. lo \in Nat
  BY BitProgramAssumption, SizeAssumption
<1>2. QED
  BY <1>1, WidthsType DEF InWindow

\* extract, replace and concat.
LEMMA SlicesType ==
  ASSUME TypeOK,
         \/ ExtractStatic \/ ExtractRuntime
         \/ ReplaceStatic \/ ReplaceRuntime \/ ReplaceSymbolic \/ Concatenate
  PROVE  TypeOK'
<1>0. /\ \A t \in Terms : t.w \in Widths /\ t.w \in Nat
      /\ Held \subseteq Terms /\ MaxWidth \in Nat /\ Widths \subseteq Nat
  BY MadeType, TermParts, NumberAssumption DEF Widths
<1>1. CASE ExtractStatic
  <2>1. PICK a \in Held, w \in Widths, lo \in 0 .. MaxWidth :
          Return(Call("extract", <<a>>, w, lo), ExtractFrom(a, w, lo))
    BY <1>1 DEF ExtractStatic
  <2>2. a \in Terms /\ lo \in Nat /\ w \in Nat
    BY <1>0
  <2>3. QED
    BY <2>1, <2>2, ExtractBits, OpNames, ShortCalls, ReturnType
<1>2. CASE ExtractRuntime
  <2>1. PICK a \in Held, w \in Widths, lo \in Offsets :
          \/ Return(Call("extract", <<a>>, w, lo), ExtractFrom(a, w, lo))
          \/ Stop(Call("extract", <<a>>, w, lo), "aborted")
    BY <1>2 DEF ExtractRuntime
  <2>2. a \in Terms /\ lo \in Nat /\ w \in Nat
    BY <1>0, WindowFits
  <2>3. QED
    BY <2>1, <2>2, ExtractBits, OpNames, ShortCalls, ReturnType, StopType
<1>3. CASE ReplaceStatic
  <2>1. PICK a \in Held, f \in Held, lo \in 0 .. MaxWidth :
          /\ a.w >= lo + f.w
          /\ Return(Call("replace", <<a, f>>, a.w, lo), ReplaceAt(a, f, lo))
    BY <1>3 DEF ReplaceStatic
  <2>2. a \in Terms /\ f \in Terms /\ lo \in Nat /\ a.w \in Nat /\ f.w \in Nat
    BY <1>0
  <2>3. lo + f.w <= a.w
    BY <2>1, <2>2
  <2>4. QED
    BY <2>1, <2>2, <2>3, ReplaceAtBits, OpNames, ShortCalls, ReturnType
<1>4. CASE ReplaceRuntime
  <2>1. PICK a \in Held, f \in Held, lo \in Offsets :
          \/ /\ InWindow(lo, f.w, a.w)
             /\ Return(Call("replace", <<a, f>>, a.w, lo), ReplaceAt(a, f, lo))
          \/ Stop(Call("replace", <<a, f>>, a.w, lo), "aborted")
    BY <1>4 DEF ReplaceRuntime
  <2>2. /\ a \in Terms /\ f \in Terms /\ lo \in Nat /\ a.w \in Nat /\ f.w \in Nat
        /\ InWindow(lo, f.w, a.w) <=> lo + f.w <= a.w
    BY <1>0, WindowFits
  <2>3. QED
    BY <2>1, <2>2, ReplaceAtBits, OpNames, ShortCalls, ReturnType, StopType
<1>5. CASE ReplaceSymbolic
  <2>1. PICK a \in Held, f \in Held, lo \in Shifts :
          /\ a.w >= f.w
          /\ Return(Call("replace by", <<a, f, lo>>, a.w, 0), ReplaceBy(a, f, lo))
    BY <1>5 DEF ReplaceSymbolic
  <2>2. /\ a \in Terms /\ f \in Terms /\ lo \in Terms /\ a.w \in Nat /\ f.w \in Nat
    BY <1>0, MadeType
  <2>3. f.w <= a.w
    BY <2>1, <2>2
  <2>4. QED
    BY <2>1, <2>2, <2>3, ReplaceByBits, OpNames, ShortCalls, ReturnType
<1>6. CASE Concatenate
  <2>1. PICK a \in Held \cup {AsUint1(flag) : flag \in BOOLEAN},
             b \in Held \cup {AsUint1(flag) : flag \in BOOLEAN} :
          /\ a.w + b.w <= MaxWidth
          /\ Return(Call("concat", <<a, b>>, a.w + b.w, 0), Concat(a, b))
    BY <1>6 DEF Concatenate
  <2>2. a \in Terms /\ b \in Terms
    BY <1>0, AsUint1Type
  <2>3. a.w + b.w \in Nat
    BY <1>0, <2>2
  <2>4. QED
    BY <2>1, <2>2, <2>3, ConcatBits, OpNames, ShortCalls, ReturnType
<1>7. QED
  BY <1>1, <1>2, <1>3, <1>4, <1>5, <1>6

\* The rotations.
LEMMA TurnsType ==
  ASSUME TypeOK, TurnConst \/ Turn
  PROVE  TypeOK'
<1>1. CASE TurnConst
  <2>1. PICK a \in Held, n \in 0 .. MaxTurn :
          \/ Return(Call("rotl", <<a>>, a.w, n), RotlConst(a, n))
          \/ Return(Call("rotr", <<a>>, a.w, n), RotrConst(a, n))
    BY <1>1 DEF TurnConst
  <2>2. a \in Terms /\ a.w \in Nat /\ n \in Nat
    BY MadeType, TermParts, BitProgramAssumption
  <2>3. QED
    BY <2>1, <2>2, TurnBits, OpNames, ShortCalls, ReturnType
<1>2. CASE Turn
  <2>1. PICK a \in Held, amount \in Shifts :
          \/ Return(Call("rotl by", <<a, amount>>, a.w, 0), RotlBy(a, amount))
          \/ Return(Call("rotr by", <<a, amount>>, a.w, 0), RotrBy(a, amount))
    BY <1>2 DEF Turn
  <2>2. a \in Terms /\ a.w \in Widths /\ a.w \in Nat /\ amount \in Terms
    BY MadeType, TermParts
  <2>3. Number[ToWidth(a.w, amount)] \in Nat
    BY <2>2, ToWidthBits
  <2>4. RotlBy(a, amount) \in Terms /\ RotrBy(a, amount) \in Terms
    BY <2>2, <2>3, TurnBits DEF RotlBy, RotrBy
  <2>5. QED
    BY <2>1, <2>2, <2>4, OpNames, ShortCalls, ReturnType
<1>3. QED
  BY <1>1, <1>2

\* Every object of every program has bits within its own width.
THEOREM TypeCorrect == Spec => []TypeOK
<1>1. Init => TypeOK
  <2>1. Call("start", <<>>, 0, 0) \in Calls
    BY OpNames, ShortCalls
  <2>2. << >> \in Seq(Terms \cup {NoExpr})
    OBVIOUS
  <2>3. QED
    BY <2>1, <2>2 DEF Init, TypeOK, Calls
<1>2. TypeOK /\ [Next]_vars => TypeOK'
  <2>1. SUFFICES ASSUME TypeOK, [Next]_vars
                 PROVE  TypeOK'
    OBVIOUS
  <2>2. CASE UseUninitialized \/ BitwiseUninitialized
    BY <2>1, <2>2, OpNames, ShortCalls, StopType DEF UseUninitialized, BitwiseUninitialized
  <2>3. CASE UNCHANGED vars
    BY <2>1, <2>3 DEF vars, TypeOK
  <2>4. QED
    BY <2>1, <2>2, <2>3, WholeWordsType, SlicesType, TurnsType DEF Next
<1>3. QED
  BY <1>1, <1>2, PTL DEF Spec

-----------------------------------------------------------------------------
(* Properties of all the objects of a program *)

\* The two algorithms for replace agree, whatever the widths.
THEOREM ReplaceFormsHold == Spec => []ReplaceFormsAgree
<1>1. TypeOK => ReplaceFormsAgree
  <2>1. SUFFICES ASSUME TypeOK, NEW a \in Held, NEW f \in Held, NEW lo \in Shifts,
                        f.w <= a.w
                 PROVE  /\ InWindow(Number[lo.b], f.w, a.w) =>
                              ReplaceBy(a, f, lo) = ReplaceAt(a, f, Number[lo.b])
                        /\ Number[lo.b] >= a.w => ReplaceBy(a, f, lo) = a
    BY DEF ReplaceFormsAgree
  <2>2. a \in Terms /\ f \in Terms /\ lo \in Terms
    BY <2>1, MadeType
  <2>3. a.w \in Nat /\ f.w \in Nat /\ Number[lo.b] \in Nat /\ Positions(a.w) \subseteq Nat
        /\ \A i \in Positions(a.w) : i < a.w
    BY <2>1, <2>2, TermParts, ReplaceByBits DEF Positions
  <2>4. ASSUME InWindow(Number[lo.b], f.w, a.w)
        PROVE  ReplaceBy(a, f, lo) = ReplaceAt(a, f, Number[lo.b])
    <3>1. Number[lo.b] + f.w <= a.w
      BY <2>3, <2>4 DEF InWindow
    <3>2. /\ ReplaceAt(a, f, Number[lo.b]) \in Terms
          /\ ReplaceAt(a, f, Number[lo.b]).w = a.w /\ ReplaceAt(a, f, Number[lo.b]).s = a.s
          /\ \A i \in Positions(a.w) : i \in ReplaceAt(a, f, Number[lo.b]).b <=>
                IF Number[lo.b] <= i /\ i < Number[lo.b] + f.w
                  THEN i - Number[lo.b] \in f.b ELSE i \in a.b
      BY <2>2, <2>3, <3>1, ReplaceAtBits
    <3>3. /\ ReplaceBy(a, f, lo) \in Terms
          /\ ReplaceBy(a, f, lo).w = a.w /\ ReplaceBy(a, f, lo).s = a.s
          /\ \A i \in Positions(a.w) : i \in ReplaceBy(a, f, lo).b <=>
                IF Number[lo.b] <= i /\ i < Number[lo.b] + f.w
                  THEN i - Number[lo.b] \in f.b ELSE i \in a.b
      BY <2>1, <2>2, ReplaceByBits
    <3>4. QED
      BY <3>2, <3>3, SameTerms
  <2>5. ASSUME Number[lo.b] >= a.w
        PROVE  ReplaceBy(a, f, lo) = a
    <3>1. \A i \in Positions(a.w) : ~(Number[lo.b] <= i)
      BY <2>3, <2>5
    <3>2. QED
      BY <2>1, <2>2, <3>1, ReplaceByBits, SameTerms
  <2>6. QED
    BY <2>4, <2>5
<1>2. QED
  BY <1>1, TypeCorrect, PTL

\* Disjoint fields may be written in either order, and read back as written.
THEOREM FieldsHold == Spec => []FieldsAreIndependent
<1>1. TypeOK => FieldsAreIndependent
  <2>1. SUFFICES ASSUME TypeOK, NEW a \in Held, NEW f \in Held, NEW g \in Held,
                        NEW lo \in 0 .. MaxWidth, NEW up \in 0 .. MaxWidth,
                        lo + f.w <= up, up + g.w <= a.w
                 PROVE  LET both == ReplaceAt(ReplaceAt(a, f, lo), g, up)
                        IN  /\ both = ReplaceAt(ReplaceAt(a, g, up), f, lo)
                            /\ ExtractFrom(both, f.w, lo).b = f.b
                            /\ ExtractFrom(both, g.w, up).b = g.b
    BY DEF FieldsAreIndependent
  <2> DEFINE low  == ReplaceAt(a, f, lo)
             high == ReplaceAt(a, g, up)
             both == ReplaceAt(low, g, up)
             also == ReplaceAt(high, f, lo)
  <2>2. /\ a \in Terms /\ f \in Terms /\ g \in Terms
        /\ lo \in Nat /\ up \in Nat
        /\ a.w \in Nat \ {0} /\ f.w \in Nat \ {0} /\ g.w \in Nat \ {0}
        /\ f.w \in Widths /\ g.w \in Widths
        /\ f.b \in Words(f.w) /\ g.b \in Words(g.w)
    BY <2>1, MadeType, TermParts
  <2>3. lo + f.w <= a.w
    BY <2>1, <2>2
  <2>4. /\ low \in Terms /\ low.w = a.w /\ low.s = a.s
        /\ \A i \in Positions(a.w) : i \in low.b <=>
              IF lo <= i /\ i < lo + f.w THEN i - lo \in f.b ELSE i \in a.b
    BY <2>2, <2>3, ReplaceAtBits
  <2>5. /\ high \in Terms /\ high.w = a.w /\ high.s = a.s
        /\ \A i \in Positions(a.w) : i \in high.b <=>
              IF up <= i /\ i < up + g.w THEN i - up \in g.b ELSE i \in a.b
    BY <2>1, <2>2, ReplaceAtBits
  <2> HIDE DEF low, high
  <2>6. /\ both \in Terms /\ both.w = a.w /\ both.s = a.s
        /\ \A i \in Positions(a.w) : i \in both.b <=>
              IF up <= i /\ i < up + g.w THEN i - up \in g.b ELSE i \in low.b
    BY <2>1, <2>2, <2>4, ReplaceAtBits
  <2>7. /\ also \in Terms /\ also.w = a.w /\ also.s = a.s
        /\ \A i \in Positions(a.w) : i \in also.b <=>
              IF lo <= i /\ i < lo + f.w THEN i - lo \in f.b ELSE i \in high.b
    BY <2>2, <2>3, <2>5, ReplaceAtBits
  <2> HIDE DEF both, also
  <2>8. ASSUME NEW i \in Positions(a.w)
        PROVE  ~((up <= i /\ i < up + g.w) /\ (lo <= i /\ i < lo + f.w))
    BY <2>1, <2>2, <2>8 DEF Positions
  <2>9. both = also
    BY <2>4, <2>5, <2>6, <2>7, <2>8, SameTerms
  <2>10. ExtractFrom(both, f.w, lo).b = f.b
    <3>1. /\ ExtractFrom(both, f.w, lo) \in Terms
          /\ ExtractFrom(both, f.w, lo).w = f.w
          /\ \A i \in Positions(f.w) : i \in ExtractFrom(both, f.w, lo).b <=> lo + i \in both.b
      <4>1. both \in Terms /\ f.w \in Widths /\ lo \in Nat
        BY <2>2, <2>6
      <4>2. QED
        BY <4>1, ExtractBits
    <3>2. ASSUME NEW i \in Positions(f.w)
          PROVE  lo + i \in both.b <=> i \in f.b
      <4>1. /\ i \in Nat /\ lo + i \in Positions(a.w) /\ lo <= lo + i /\ lo + i < lo + f.w
            /\ ~(up <= lo + i) /\ (lo + i) - lo = i
        BY <2>1, <2>2, <3>2 DEF Positions
      <4>2. QED
        BY <2>4, <2>6, <4>1
    <3>3. ExtractFrom(both, f.w, lo).b \in Words(f.w)
      BY <3>1, TermParts
    <3>4. QED
      BY <2>2, <3>1, <3>2, <3>3, SameBits
  <2>11. ExtractFrom(both, g.w, up).b = g.b
    <3>1. /\ ExtractFrom(both, g.w, up) \in Terms
          /\ ExtractFrom(both, g.w, up).w = g.w
          /\ \A i \in Positions(g.w) : i \in ExtractFrom(both, g.w, up).b <=> up + i \in both.b
      <4>1. both \in Terms /\ g.w \in Widths /\ up \in Nat
        BY <2>2, <2>6
      <4>2. QED
        BY <4>1, ExtractBits
    <3>2. ASSUME NEW i \in Positions(g.w)
          PROVE  up + i \in both.b <=> i \in g.b
      <4>1. /\ i \in Nat /\ up + i \in Positions(a.w) /\ up <= up + i /\ up + i < up + g.w
            /\ (up + i) - up = i
        BY <2>1, <2>2, <3>2 DEF Positions
      <4>2. QED
        BY <2>6, <4>1
    <3>3. ExtractFrom(both, g.w, up).b \in Words(g.w)
      BY <3>1, TermParts
    <3>4. QED
      BY <2>2, <3>1, <3>2, <3>3, SameBits
  <2>12. QED
    BY <2>9, <2>10, <2>11 DEF both, also, low, high
<1>2. QED
  BY <1>1, TypeCorrect, PTL

\* Turning a term by n and back.
LEMMA TurnAndBack ==
  ASSUME NEW a \in Terms, NEW n \in Nat
  PROVE  RotrConst(RotlConst(a, n), n) = a /\ RotlConst(RotrConst(a, n), n) = a
<1> DEFINE left  == RotlConst(a, n)
           right == RotrConst(a, n)
<1>1. a.w \in Nat \ {0} /\ n \in Int /\ -n \in Int
  BY TermParts
<1>2. /\ left \in Terms /\ left.w = a.w /\ left.s = a.s
      /\ right \in Terms /\ right.w = a.w /\ right.s = a.s
      /\ \A i \in Positions(a.w) :
            /\ i \in left.b <=> (i - n) % a.w \in a.b
            /\ i \in right.b <=> (i + n) % a.w \in a.b
  BY TurnBits
<1> HIDE DEF left, right
<1>3. /\ RotrConst(left, n) \in Terms /\ RotrConst(left, n).w = a.w /\ RotrConst(left, n).s = a.s
      /\ RotlConst(right, n) \in Terms /\ RotlConst(right, n).w = a.w
      /\ RotlConst(right, n).s = a.s
      /\ \A i \in Positions(a.w) :
            /\ i \in RotrConst(left, n).b <=> (i + n) % a.w \in left.b
            /\ i \in RotlConst(right, n).b <=> (i - n) % a.w \in right.b
  BY <1>2, TurnBits
<1>4. ASSUME NEW i \in Positions(a.w)
      PROVE  /\ (i + n) % a.w \in Positions(a.w) /\ (((i + n) % a.w) - n) % a.w = i
             /\ (i - n) % a.w \in Positions(a.w) /\ (((i - n) % a.w) + n) % a.w = i
  <2>1. i \in 0 .. (a.w - 1) /\ i + (-n) = i - n /\ -(-n) = n
    BY <1>1, <1>4 DEF Positions
  <2>2. (i + n) % a.w \in 0 .. (a.w - 1) /\ (((i + n) % a.w) - n) % a.w = i
    BY <1>1, <2>1, ModBackAndForth
  <2>3. (i + (-n)) % a.w \in 0 .. (a.w - 1)
        /\ (((i + (-n)) % a.w) + (-(-n))) % a.w = i
    BY <1>1, <2>1, ModBackAndForth
  <2>4. QED
    BY <2>1, <2>2, <2>3 DEF Positions
<1>5. RotrConst(left, n) = a
  BY <1>2, <1>3, <1>4, SameTerms
<1>6. RotlConst(right, n) = a
  BY <1>2, <1>3, <1>4, SameTerms
<1>7. QED
  BY <1>5, <1>6 DEF left, right

\* The rotations cancel, for amounts of any width.
THEOREM RotationsHold == Spec => []RotationsCancel
<1>1. TypeOK => RotationsCancel
  <2>1. SUFFICES ASSUME TypeOK, NEW a \in Held, NEW amount \in Shifts
                 PROVE  /\ RotrBy(RotlBy(a, amount), amount) = a
                        /\ RotlBy(RotrBy(a, amount), amount) = a
                        /\ amount.b \in Words(a.w) =>
                              /\ RotlBy(a, amount) = RotlConst(a, Number[amount.b])
                              /\ RotrBy(a, amount) = RotrConst(a, Number[amount.b])
    BY DEF RotationsCancel
  <2>2. a \in Terms /\ amount \in Terms /\ a.w \in Widths
    BY <2>1, MadeType, TermParts
  <2>3. Number[ToWidth(a.w, amount)] \in Nat
    BY <2>2, ToWidthBits
  <2>4. RotlBy(a, amount).w = a.w /\ RotrBy(a, amount).w = a.w
    BY <2>2, <2>3, TurnBits DEF RotlBy, RotrBy
  <2>5. /\ RotrBy(RotlBy(a, amount), amount) = a
        /\ RotlBy(RotrBy(a, amount), amount) = a
    BY <2>2, <2>3, <2>4, TurnAndBack DEF RotlBy, RotrBy
  <2>6. amount.b \in Words(a.w) => ToWidth(a.w, amount) = amount.b
    BY <2>2, ToWidthBits
  <2>7. QED
    BY <2>5, <2>6 DEF RotlBy, RotrBy
<1>2. QED
  BY <1>1, TypeCorrect, PTL

-----------------------------------------------------------------------------
(* The mapping of objects *)

\* Both specifications mean the same positions.
LEMMA SamePositions ==
  /\ Plain!Widths = Widths
  /\ \A w : Plain!Positions(w) = Positions(w)
BY Zenon DEF Plain!Widths, Plain!Positions, Widths, Positions

\* The array that a term is seen as.
LEMMA AbsTerm ==
  ASSUME NEW t \in Terms
  PROVE  /\ AbsVec(t) = Plain!Array(t.w, t.s, [i \in Positions(t.w) |-> i \in t.b])
         /\ AbsVec(t).w = t.w /\ AbsVec(t).s = t.s
         /\ AbsVec(t).bit = [i \in Positions(t.w) |-> i \in t.b]
         /\ AbsVec(t) # NoExpr
<1>1. t.w \in Widths /\ t.s \in BOOLEAN
  BY TermParts
<1>2. t # NoExpr
  BY BitProgramAssumption
<1>3. AbsVec(t) = [w |-> t.w, s |-> t.s, bit |-> [i \in Positions(t.w) |-> i \in t.b]]
  BY <1>2 DEF AbsVec
<1>4. [i \in Positions(t.w) |-> i \in t.b] \in [Positions(t.w) -> BOOLEAN]
  <2>1. \A i \in Positions(t.w) : (i \in t.b) \in BOOLEAN
    OBVIOUS
  <2>2. QED
    BY <2>1
<1>5. AbsVec(t) \in [w : {t.w}, s : BOOLEAN, bit : [Positions(t.w) -> BOOLEAN]]
  BY <1>1, <1>3, <1>4
<1>6. AbsVec(t) # NoExpr
  BY <1>1, <1>5, BitProgramAssumption
<1>7. QED
  BY <1>3, <1>6 DEF Plain!Array

\* The bits of the array of a term.
LEMMA AbsBits ==
  ASSUME NEW t \in Terms, NEW i \in Positions(t.w)
  PROVE  AbsVec(t).bit[i] = (i \in t.b)
BY AbsTerm, Zenon

\* The mapping goes through sequences.
LEMMA AbsSequences ==
  /\ AbsVecs(<< >>) = << >>
  /\ \A a : AbsVecs(<<a>>) = <<AbsVec(a)>>
  /\ \A a, b : AbsVecs(<<a, b>>) = <<AbsVec(a), AbsVec(b)>>
  /\ \A a, b, c : AbsVecs(<<a, b, c>>) = <<AbsVec(a), AbsVec(b), AbsVec(c)>>
  /\ AbsVec(NoExpr) = NoExpr
  /\ \A ts \in Seq(Terms \cup {NoExpr}) :
        /\ Len(AbsVecs(ts)) = Len(ts)
        /\ \A t \in Terms \cup {NoExpr} :
              AbsVecs(Append(ts, t)) = Append(AbsVecs(ts), AbsVec(t))
<1>1. AbsVecs(<< >>) = << >>
  BY DEF AbsVecs
<1>2. \A a : AbsVecs(<<a>>) = <<AbsVec(a)>>
  BY DEF AbsVecs
<1>3. \A a, b : AbsVecs(<<a, b>>) = <<AbsVec(a), AbsVec(b)>>
  BY DEF AbsVecs
<1>4. \A a, b, c : AbsVecs(<<a, b, c>>) = <<AbsVec(a), AbsVec(b), AbsVec(c)>>
  BY DEF AbsVecs
<1>5. ASSUME NEW ts \in Seq(Terms \cup {NoExpr})
      PROVE  Len(AbsVecs(ts)) = Len(ts)
  BY DEF AbsVecs
<1>6. ASSUME NEW ts \in Seq(Terms \cup {NoExpr}), NEW t \in Terms \cup {NoExpr}
      PROVE  AbsVecs(Append(ts, t)) = Append(AbsVecs(ts), AbsVec(t))
  BY DEF AbsVecs
<1>7. AbsVec(NoExpr) = NoExpr
  BY DEF AbsVec
<1>8. QED
  BY <1>1, <1>2, <1>3, <1>4, <1>5, <1>6, <1>7

\* The operands of a call are seen as operands.
LEMMA AbsOperands ==
  ASSUME TypeOK
  PROVE  /\ \A a \in Held : a \in Terms /\ AbsVec(a) \in Plain!Known
         /\ \A a \in Shifts : a \in Terms /\ AbsVec(a) \in Plain!Counts
         /\ NoExpr \in Made => NoExpr \in Plain!Made
<1>1. Len(AbsVecs(vecs)) = Len(vecs)
  BY AbsSequences DEF TypeOK
<1>2. ASSUME NEW a \in Made
      PROVE  AbsVec(a) \in Plain!Made
  <2>1. PICK i \in 1 .. Len(vecs) : a = vecs[i]
    BY DEF Made
  <2>2. AbsVecs(vecs)[i] = AbsVec(a)
    BY <2>1 DEF AbsVecs
  <2>3. QED
    BY <1>1, <2>2 DEF Plain!Made
<1>3. ASSUME NEW a \in Held
      PROVE  a \in Terms /\ AbsVec(a) \in Plain!Known
  BY <1>2, MadeType, AbsTerm DEF Held, Plain!Known
<1>4. ASSUME NEW a \in Shifts
      PROVE  a \in Terms /\ AbsVec(a) \in Plain!Counts
  <2>1. a \in Terms /\ AbsVec(a).s = a.s
    BY MadeType, AbsTerm
  <2>2. CASE a \in Held /\ ~a.s
    BY <1>3, <2>1, <2>2 DEF Plain!Counts
  <2>3. CASE a \in Amounts
    BY <2>1, <2>3 DEF Plain!Counts
  <2>4. QED
    BY <2>2, <2>3 DEF Shifts
<1>5. QED
  BY <1>2, <1>3, <1>4, AbsSequences

\* The number in the low bits of an amount.
LEMMA AbsNumber ==
  ASSUME NEW amount \in Terms, NEW w \in Widths
  PROVE  /\ Plain!Low(w, AbsVec(amount)) = Number[ToWidth(w, amount)]
         /\ Plain!Low(amount.w, AbsVec(amount)) = Number[amount.b]
<1>1. /\ w \in Nat /\ amount.w \in Nat /\ amount.w \in Widths
      /\ amount.b \in Words(amount.w)
      /\ AbsVec(amount).w = amount.w
  BY TermParts, WidthsType, AbsTerm
<1>2. ASSUME NEW v \in Widths
      PROVE  Plain!Low(v, AbsVec(amount)) = Number[{i \in Positions(v) : i \in amount.b}]
  <2>1. ASSUME NEW i \in Positions(v)
        PROVE  (i < amount.w /\ AbsVec(amount).bit[i]) <=> i \in amount.b
    <3>1. i \in Nat /\ (i < amount.w <=> i \in Positions(amount.w))
      BY <1>1, <2>1, WidthsType DEF Positions
    <3>2. i \in amount.b => i \in Positions(amount.w)
      BY <1>1 DEF Words
    <3>3. i \in Positions(amount.w) => (AbsVec(amount).bit[i] <=> i \in amount.b)
      BY AbsBits
    <3>4. QED
      BY <3>1, <3>2, <3>3
  <2>2. {i \in Positions(v) : i < AbsVec(amount).w /\ AbsVec(amount).bit[i]}
          = {i \in Positions(v) : i \in amount.b}
    BY <1>1, <2>1
  <2>3. QED
    BY <2>2, SamePositions DEF Plain!Low
<1>3. {i \in Positions(amount.w) : i \in amount.b} = amount.b
  BY <1>1 DEF Words
<1>4. QED
  BY <1>1, <1>2, <1>3, ToWidthBits

-----------------------------------------------------------------------------
(* What a call returns *)

\* A call of the program is the call on the arrays, and its result is new.
LEMMA AbsReturn ==
  ASSUME TypeOK, NEW op, NEW vals, NEW w, NEW n, NEW t \in Terms \cup {NoExpr},
         Return(Call(op, vals, w, n), t)
  PROVE  /\ Plain!Does(Plain!Call(op, AbsVecs(vals), w, n))
         /\ Plain!New(AbsVec(t))
<1>1. Len(AbsVecs(vecs)) = Len(vecs)
  BY AbsSequences DEF TypeOK
<1>2. call' = Call(op, vals, w, n)
  BY DEF Return
<1>3. [call' EXCEPT !.vals = AbsVecs(call'.vals)] = Plain!Call(op, AbsVecs(vals), w, n)
  BY <1>2 DEF Call, Plain!Call
<1>4. Plain!Does(Plain!Call(op, AbsVecs(vals), w, n))
  BY <1>1, <1>3 DEF Plain!Does, Plain!Going, Going, Return
<1>5. AbsVecs(vecs') = Append(AbsVecs(vecs), AbsVec(t))
  BY AbsSequences DEF Return, TypeOK
<1>6. QED
  BY <1>4, <1>5 DEF Plain!New

\* A call that stops the program.
LEMMA AbsStop ==
  ASSUME TypeOK, NEW op, NEW vals, NEW w, NEW n, NEW how \in {"aborted", "undefined"},
         Stop(Call(op, vals, w, n), how)
  PROVE  /\ Plain!Going
         /\ (IF status' = "running" THEN "running" ELSE "stopped") = "stopped"
         /\ AbsVecs(vecs') = AbsVecs(vecs)
         /\ [call' EXCEPT !.vals = AbsVecs(call'.vals)] = Plain!Call(op, AbsVecs(vals), w, n)
<1>1. Len(AbsVecs(vecs)) = Len(vecs)
  BY AbsSequences DEF TypeOK
<1>2. call' = Call(op, vals, w, n)
  BY DEF Stop
<1>3. [call' EXCEPT !.vals = AbsVecs(call'.vals)] = Plain!Call(op, AbsVecs(vals), w, n)
  BY <1>2 DEF Call, Plain!Call
<1>4. QED
  BY <1>1, <1>3 DEF Plain!Going, Going, Stop

-----------------------------------------------------------------------------
(* Every call is one of the calls on arrays *)

\* Constructors.
LEMMA ConstructorsAbs ==
  ASSUME TypeOK, NewVec \/ DeclareVec
  PROVE  Plain!Next
<1>1. CASE NewVec
  <2>1. PICK ty \in InputTypes : \E b \in Words(ty.w) :
          Return(Call("variable", <<>>, ty.w, 0), Vec(ty.w, ty.s, b))
    BY <1>1 DEF NewVec
  <2>2. PICK b \in Words(ty.w) :
          Return(Call("variable", <<>>, ty.w, 0), Vec(ty.w, ty.s, b))
    BY <2>1
  <2>3. ty.w \in Widths /\ ty.s \in BOOLEAN
    BY BitProgramAssumption DEF Types
  <2>4. Vec(ty.w, ty.s, b) \in Terms
    BY <2>3, TermOfWord
  <2>5. AbsVec(Vec(ty.w, ty.s, b))
          = Plain!Array(ty.w, ty.s, [i \in Positions(ty.w) |-> i \in b])
    BY <2>4, AbsTerm DEF Vec
  <2>6. /\ Plain!Does(Plain!Call("variable", <<>>, ty.w, 0))
        /\ Plain!New(Plain!Array(ty.w, ty.s, [i \in Positions(ty.w) |-> i \in b]))
    BY <2>2, <2>4, <2>5, AbsReturn, AbsSequences
  <2>7. \A i \in Positions(ty.w) : (i \in b) \in BOOLEAN
    OBVIOUS
  <2>8. [i \in Positions(ty.w) |-> i \in b] \in [Plain!Positions(ty.w) -> BOOLEAN]
    BY <2>7, SamePositions
  <2>9. Plain!Input
    BY <2>3, <2>6, <2>8, SamePositions DEF Plain!Input
  <2>10. QED
    BY <2>9 DEF Plain!Next
<1>2. CASE DeclareVec
  <2>1. Plain!Does(Plain!Call("declare", <<>>, 0, 0)) /\ Plain!New(NoExpr)
    BY <1>2, AbsReturn, AbsSequences DEF DeclareVec
  <2>2. Plain!Declare
    BY <2>1 DEF Plain!Declare
  <2>3. QED
    BY <2>2 DEF Plain!Next
<1>3. QED
  BY <1>1, <1>2

\* A binary bitwise operator on two objects of one type.
LEMMA BitwiseAbs ==
  ASSUME TypeOK, NEW op, NEW a \in Held, NEW b \in Held, NEW word \in Words(a.w),
         Bitwise(op, a, b, word)
  PROVE  /\ a \in Terms /\ b \in Terms /\ b.w = a.w
         /\ AbsVec(a) \in Plain!Known /\ AbsVec(b) \in Plain!Known
         /\ AbsVec(a).w = AbsVec(b).w /\ AbsVec(a).s = AbsVec(b).s
         /\ Plain!Logic(op, AbsVec(a), AbsVec(b), [i \in Positions(a.w) |-> i \in word])
<1>1. /\ a \in Terms /\ b \in Terms /\ b.w = a.w /\ b.s = a.s
      /\ AbsVec(a) \in Plain!Known /\ AbsVec(b) \in Plain!Known
      /\ Return(Call(op, <<a, b>>, a.w, 0), Vec(a.w, a.s, word))
  BY AbsOperands DEF Bitwise, SameType
<1>2. Vec(a.w, a.s, word) \in Terms
  BY <1>1, TermParts, TermOfWord
<1>3. AbsVec(Vec(a.w, a.s, word))
        = Plain!Array(a.w, a.s, [i \in Positions(a.w) |-> i \in word])
  BY <1>2, AbsTerm DEF Vec
<1>4. /\ Plain!Does(Plain!Call(op, <<AbsVec(a), AbsVec(b)>>, a.w, 0))
      /\ Plain!New(Plain!Array(a.w, a.s, [i \in Positions(a.w) |-> i \in word]))
  BY <1>1, <1>2, <1>3, AbsReturn, AbsSequences
<1>5. /\ AbsVec(a).w = a.w /\ AbsVec(a).s = a.s
      /\ AbsVec(b).w = a.w /\ AbsVec(b).s = a.s
  BY <1>1, AbsTerm
<1>6. QED
  BY <1>1, <1>4, <1>5 DEF Plain!Logic

\* The bitwise operators.
LEMMA LogicAbs ==
  ASSUME TypeOK, And \/ Or \/ Xor \/ Invert
  PROVE  Plain!Next
<1>1. ASSUME NEW a \in Held, NEW b \in Held, SameType(a, b)
      PROVE  /\ a.b \cap b.b \in Words(a.w) /\ a.b \cup b.b \in Words(a.w)
             /\ Differ(a.b, b.b) \in Words(a.w)
  BY <1>1, MadeType, TermParts DEF SameType, Words, Differ
<1>2. CASE And
  <2>1. PICK a \in Held, b \in Held : Bitwise("&", a, b, a.b \cap b.b)
    BY <1>2 DEF And
  <2>2. a.b \cap b.b \in Words(a.w)
    BY <1>1, <2>1 DEF Bitwise
  <2>3. /\ a \in Terms /\ b \in Terms /\ b.w = a.w
        /\ AbsVec(a) \in Plain!Known /\ AbsVec(b) \in Plain!Known
        /\ AbsVec(a).w = AbsVec(b).w /\ AbsVec(a).s = AbsVec(b).s
        /\ Plain!Logic("&", AbsVec(a), AbsVec(b), [i \in Positions(a.w) |-> i \in a.b \cap b.b])
    BY <2>1, <2>2, BitwiseAbs
  <2>4. Plain!Positions(AbsVec(a).w) = Positions(a.w)
    BY <2>3, AbsTerm, SamePositions
  <2>5. ASSUME NEW i \in Positions(a.w)
        PROVE  (i \in a.b \cap b.b) = (AbsVec(a).bit[i] /\ AbsVec(b).bit[i])
    <3>1. AbsVec(a).bit[i] = (i \in a.b) /\ AbsVec(b).bit[i] = (i \in b.b)
      BY <2>3, <2>5, AbsBits, Zenon
    <3>2. (i \in a.b \cap b.b) = ((i \in a.b) /\ (i \in b.b))
      OBVIOUS
    <3>3. QED
      BY <3>1, <3>2
  <2>6. [i \in Positions(a.w) |-> i \in a.b \cap b.b]
          = [i \in Plain!Positions(AbsVec(a).w) |-> AbsVec(a).bit[i] /\ AbsVec(b).bit[i]]
    BY <2>4, <2>5
  <2>7. Plain!Bitwise
    BY <2>3, <2>6 DEF Plain!Bitwise
  <2>8. QED
    BY <2>7 DEF Plain!Next
<1>3. CASE Or
  <2>1. PICK a \in Held, b \in Held : Bitwise("|", a, b, a.b \cup b.b)
    BY <1>3 DEF Or
  <2>2. a.b \cup b.b \in Words(a.w)
    BY <1>1, <2>1 DEF Bitwise
  <2>3. /\ a \in Terms /\ b \in Terms /\ b.w = a.w
        /\ AbsVec(a) \in Plain!Known /\ AbsVec(b) \in Plain!Known
        /\ AbsVec(a).w = AbsVec(b).w /\ AbsVec(a).s = AbsVec(b).s
        /\ Plain!Logic("|", AbsVec(a), AbsVec(b), [i \in Positions(a.w) |-> i \in a.b \cup b.b])
    BY <2>1, <2>2, BitwiseAbs
  <2>4. Plain!Positions(AbsVec(a).w) = Positions(a.w)
    BY <2>3, AbsTerm, SamePositions
  <2>5. ASSUME NEW i \in Positions(a.w)
        PROVE  (i \in a.b \cup b.b) = (AbsVec(a).bit[i] \/ AbsVec(b).bit[i])
    <3>1. AbsVec(a).bit[i] = (i \in a.b) /\ AbsVec(b).bit[i] = (i \in b.b)
      BY <2>3, <2>5, AbsBits, Zenon
    <3>2. (i \in a.b \cup b.b) = ((i \in a.b) \/ (i \in b.b))
      OBVIOUS
    <3>3. QED
      BY <3>1, <3>2
  <2>6. [i \in Positions(a.w) |-> i \in a.b \cup b.b]
          = [i \in Plain!Positions(AbsVec(a).w) |-> AbsVec(a).bit[i] \/ AbsVec(b).bit[i]]
    BY <2>4, <2>5
  <2>7. Plain!Bitwise
    BY <2>3, <2>6 DEF Plain!Bitwise
  <2>8. QED
    BY <2>7 DEF Plain!Next
<1>4. CASE Xor
  <2>1. PICK a \in Held, b \in Held : Bitwise("^", a, b, Differ(a.b, b.b))
    BY <1>4 DEF Xor
  <2>2. Differ(a.b, b.b) \in Words(a.w)
    BY <1>1, <2>1 DEF Bitwise
  <2>3. /\ a \in Terms /\ b \in Terms /\ b.w = a.w
        /\ AbsVec(a) \in Plain!Known /\ AbsVec(b) \in Plain!Known
        /\ AbsVec(a).w = AbsVec(b).w /\ AbsVec(a).s = AbsVec(b).s
        /\ Plain!Logic("^", AbsVec(a), AbsVec(b), [i \in Positions(a.w) |-> i \in Differ(a.b, b.b)])
    BY <2>1, <2>2, BitwiseAbs
  <2>4. Plain!Positions(AbsVec(a).w) = Positions(a.w)
    BY <2>3, AbsTerm, SamePositions
  <2>5. ASSUME NEW i \in Positions(a.w)
        PROVE  (i \in Differ(a.b, b.b)) = (AbsVec(a).bit[i] # AbsVec(b).bit[i])
    <3>1. AbsVec(a).bit[i] = (i \in a.b) /\ AbsVec(b).bit[i] = (i \in b.b)
      BY <2>3, <2>5, AbsBits, Zenon
    <3>2. (i \in Differ(a.b, b.b)) = ((i \in a.b) # (i \in b.b))
      BY DEF Differ
    <3>3. QED
      BY <3>1, <3>2
  <2>6. [i \in Positions(a.w) |-> i \in Differ(a.b, b.b)]
          = [i \in Plain!Positions(AbsVec(a).w) |-> AbsVec(a).bit[i] # AbsVec(b).bit[i]]
    BY <2>4, <2>5
  <2>7. Plain!Bitwise
    BY <2>3, <2>6 DEF Plain!Bitwise
  <2>8. QED
    BY <2>7 DEF Plain!Next
<1>5. CASE Invert
  <2>1. PICK a \in Held :
          Return(Call("~", <<a>>, a.w, 0), Vec(a.w, a.s, Complement(a.w, a.b)))
    BY <1>5 DEF Invert
  <2>2. /\ a \in Terms /\ AbsVec(a) \in Plain!Known
        /\ AbsVec(a).w = a.w /\ AbsVec(a).s = a.s
    BY AbsOperands, AbsTerm
  <2>3. Vec(a.w, a.s, Complement(a.w, a.b)) \in Terms
    <3>1. Complement(a.w, a.b) \in Words(a.w)
      BY DEF Complement, Words
    <3>2. QED
      BY <2>2, <3>1, TermParts, TermOfWord
  <2>4. AbsVec(Vec(a.w, a.s, Complement(a.w, a.b)))
          = Plain!Array(a.w, a.s, [i \in Positions(a.w) |-> i \in Complement(a.w, a.b)])
    BY <2>3, AbsTerm DEF Vec
  <2>5. /\ Plain!Does(Plain!Call("~", <<AbsVec(a)>>, a.w, 0))
        /\ Plain!New(Plain!Array(a.w, a.s,
                       [i \in Positions(a.w) |-> i \in Complement(a.w, a.b)]))
    BY <2>1, <2>3, <2>4, AbsReturn, AbsSequences
  <2>6. ASSUME NEW i \in Positions(a.w)
        PROVE  (i \in Complement(a.w, a.b)) = ~AbsVec(a).bit[i]
    <3>1. AbsVec(a).bit[i] = (i \in a.b)
      BY <2>2, <2>6, AbsBits, Zenon
    <3>2. (i \in Complement(a.w, a.b)) = ~(i \in a.b)
      BY DEF Complement
    <3>3. QED
      BY <3>1, <3>2
  <2>7. [i \in Positions(a.w) |-> i \in Complement(a.w, a.b)]
          = [i \in Plain!Positions(AbsVec(a).w) |-> ~AbsVec(a).bit[i]]
    BY <2>2, <2>6, SamePositions
  <2>8. Plain!Bitwise
    BY <2>2, <2>5, <2>7 DEF Plain!Bitwise
  <2>9. QED
    BY <2>8 DEF Plain!Next
<1>6. QED
  BY <1>2, <1>3, <1>4, <1>5

\* A window within an object is a window within its array.
LEMMA ExtractAbs ==
  ASSUME TypeOK, NEW a \in Held, NEW w \in Widths, NEW lo \in Nat, lo + w <= a.w,
         Return(Call("extract", <<a>>, w, lo), ExtractFrom(a, w, lo))
  PROVE  Plain!Extract
<1>1. /\ a \in Terms /\ AbsVec(a) \in Plain!Known /\ AbsVec(a).w = a.w
      /\ a.w \in Nat /\ a.w <= MaxWidth /\ w \in Nat \ {0} /\ MaxWidth \in Nat
  BY AbsOperands, AbsTerm, TermParts, WidthsType, NumberAssumption
<1>2. /\ ExtractFrom(a, w, lo) \in Terms
      /\ ExtractFrom(a, w, lo).w = w /\ ExtractFrom(a, w, lo).s = FALSE
      /\ \A i \in Positions(w) : i \in ExtractFrom(a, w, lo).b <=> lo + i \in a.b
  BY <1>1, ExtractBits
<1>3. AbsVec(ExtractFrom(a, w, lo))
        = Plain!Array(w, FALSE, [i \in Positions(w) |-> i \in ExtractFrom(a, w, lo).b])
  BY <1>2, AbsTerm
<1>4. /\ Plain!Does(Plain!Call("extract", <<AbsVec(a)>>, w, lo))
      /\ Plain!New(Plain!Array(w, FALSE,
                     [i \in Positions(w) |-> i \in ExtractFrom(a, w, lo).b]))
  BY <1>2, <1>3, AbsReturn, AbsSequences
<1>5. ASSUME NEW i \in Positions(w)
      PROVE  (i \in ExtractFrom(a, w, lo).b) = AbsVec(a).bit[lo + i]
  <2>1. lo + i \in Positions(a.w)
    BY <1>1, <1>5 DEF Positions
  <2>2. AbsVec(a).bit[lo + i] = (lo + i \in a.b)
    BY <1>1, <2>1, AbsBits, Zenon
  <2>3. (i \in ExtractFrom(a, w, lo).b) <=> (lo + i \in a.b)
    BY <1>2, <1>5
  <2>4. QED
    BY <2>2, <2>3
<1>6. [i \in Positions(w) |-> i \in ExtractFrom(a, w, lo).b]
        = [i \in Plain!Positions(w) |-> AbsVec(a).bit[lo + i]]
  BY <1>5, SamePositions
<1>7. lo \in 0 .. MaxWidth /\ lo + w <= AbsVec(a).w /\ w \in Plain!Widths
  BY <1>1, SamePositions
<1>8. QED
  BY <1>1, <1>4, <1>6, <1>7 DEF Plain!Extract

\* The bits of a term with a field in it are those of the array with the field.
LEMMA InsertedAbs ==
  ASSUME NEW a \in Terms, NEW f \in Terms, NEW n \in Nat, NEW t \in Terms,
         t.w = a.w, t.s = a.s,
         \A i \in Positions(a.w) : i \in t.b <=>
            IF n <= i /\ i < n + f.w THEN i - n \in f.b ELSE i \in a.b
  PROVE  AbsVec(t) = Plain!Array(a.w, a.s, Plain!Inserted(AbsVec(a), AbsVec(f), n))
<1>1. /\ a.w \in Nat /\ f.w \in Nat
      /\ AbsVec(a).w = a.w /\ AbsVec(f).w = f.w
  BY TermParts, AbsTerm
<1>2. ASSUME NEW i \in Positions(a.w)
      PROVE  (i \in t.b) = IF n <= i /\ i < n + AbsVec(f).w
                             THEN AbsVec(f).bit[i - n] ELSE AbsVec(a).bit[i]
  <2>1. AbsVec(a).bit[i] = (i \in a.b)
    BY <1>2, AbsBits, Zenon
  <2>2. CASE n <= i /\ i < n + f.w
    <3>1. i - n \in Positions(f.w)
      BY <1>1, <1>2, <2>2 DEF Positions
    <3>2. AbsVec(f).bit[i - n] = (i - n \in f.b)
      BY <3>1, AbsBits, Zenon
    <3>3. (i \in t.b) <=> (i - n \in f.b)
      BY <2>2
    <3>4. QED
      BY <1>1, <2>2, <3>2, <3>3
  <2>3. CASE ~(n <= i /\ i < n + f.w)
    <3>1. (i \in t.b) <=> (i \in a.b)
      BY <2>3
    <3>2. QED
      BY <1>1, <2>1, <2>3, <3>1
  <2>4. QED
    BY <2>2, <2>3
<1>3. [i \in Positions(a.w) |-> i \in t.b] = Plain!Inserted(AbsVec(a), AbsVec(f), n)
  BY <1>1, <1>2, SamePositions DEF Plain!Inserted
<1>4. QED
  BY <1>3, AbsTerm

\* A field that fits is put into the array.
LEMMA ReplaceAbs ==
  ASSUME TypeOK, NEW a \in Held, NEW f \in Held, NEW lo \in Nat, lo + f.w <= a.w,
         Return(Call("replace", <<a, f>>, a.w, lo), ReplaceAt(a, f, lo))
  PROVE  Plain!Replace
<1>1. /\ a \in Terms /\ AbsVec(a) \in Plain!Known
      /\ f \in Terms /\ AbsVec(f) \in Plain!Known
      /\ AbsVec(a).w = a.w /\ AbsVec(a).s = a.s /\ AbsVec(f).w = f.w
      /\ a.w \in Nat /\ a.w <= MaxWidth /\ f.w \in Nat /\ MaxWidth \in Nat
  BY AbsOperands, AbsTerm, TermParts, NumberAssumption
<1>2. /\ ReplaceAt(a, f, lo) \in Terms
      /\ AbsVec(ReplaceAt(a, f, lo))
           = Plain!Array(a.w, a.s, Plain!Inserted(AbsVec(a), AbsVec(f), lo))
  <2>1. /\ ReplaceAt(a, f, lo) \in Terms
        /\ ReplaceAt(a, f, lo).w = a.w /\ ReplaceAt(a, f, lo).s = a.s
        /\ \A i \in Positions(a.w) : i \in ReplaceAt(a, f, lo).b <=>
               IF lo <= i /\ i < lo + f.w THEN i - lo \in f.b ELSE i \in a.b
    BY <1>1, ReplaceAtBits
  <2>2. QED
    BY <1>1, <2>1, InsertedAbs
<1>3. /\ Plain!Does(Plain!Call("replace", <<AbsVec(a), AbsVec(f)>>, a.w, lo))
      /\ Plain!New(Plain!Array(a.w, a.s, Plain!Inserted(AbsVec(a), AbsVec(f), lo)))
  BY <1>2, AbsReturn, AbsSequences
<1>4. lo \in 0 .. MaxWidth
  BY <1>1
<1>5. QED
  BY <1>1, <1>3, <1>4 DEF Plain!Replace

\* extract and replace, with a window that is checked early or late.
LEMMA SlicesAbs ==
  ASSUME TypeOK,
         ExtractStatic \/ ExtractRuntime \/ ReplaceStatic \/ ReplaceRuntime
  PROVE  Plain!Next
<1>0. ASSUME NEW a \in Held
      PROVE  /\ a \in Terms /\ a.w \in Widths /\ a.w \in Nat
             /\ AbsVec(a) \in Plain!Known /\ AbsVec(a).w = a.w
  BY AbsOperands, AbsTerm, TermParts
<1>1. CASE ExtractStatic
  <2>1. PICK a \in Held, w \in Widths, lo \in 0 .. MaxWidth :
          /\ lo + w <= a.w
          /\ Return(Call("extract", <<a>>, w, lo), ExtractFrom(a, w, lo))
    BY <1>1 DEF ExtractStatic
  <2>2. lo \in Nat
    BY NumberAssumption
  <2>3. QED
    BY <2>1, <2>2, ExtractAbs DEF Plain!Next
<1>2. CASE ExtractRuntime
  <2>1. PICK a \in Held, w \in Widths, lo \in Offsets :
          IF InWindow(lo, w, a.w)
            THEN Return(Call("extract", <<a>>, w, lo), ExtractFrom(a, w, lo))
            ELSE Stop(Call("extract", <<a>>, w, lo), "aborted")
    BY <1>2 DEF ExtractRuntime
  <2>2. lo \in Nat /\ (InWindow(lo, w, a.w) <=> lo + w <= a.w)
    BY <1>0, WindowFits
  <2>3. CASE InWindow(lo, w, a.w)
    BY <2>1, <2>2, <2>3, ExtractAbs DEF Plain!Next
  <2>4. CASE ~InWindow(lo, w, a.w)
    <3>1. /\ Plain!Going
          /\ (IF status' = "running" THEN "running" ELSE "stopped") = "stopped"
          /\ AbsVecs(vecs') = AbsVecs(vecs)
          /\ [call' EXCEPT !.vals = AbsVecs(call'.vals)]
               = Plain!Call("extract", AbsVecs(<<a>>), w, lo)
      BY <2>1, <2>4, AbsStop
    <3>2. AbsVecs(<<a>>) = <<AbsVec(a)>>
      BY AbsSequences
    <3>3. lo + w > AbsVec(a).w /\ w \in Plain!Widths
      <4>1. w \in Nat /\ a.w \in Nat
        BY <1>0, WidthsType
      <4>2. QED
        BY <1>0, <2>2, <2>4, <4>1, SamePositions
    <3>4. Plain!Misuse
      BY <1>0, <3>1, <3>2, <3>3 DEF Plain!Misuse
    <3>5. QED
      BY <3>4 DEF Plain!Next
  <2>5. QED
    BY <2>3, <2>4
<1>3. CASE ReplaceStatic
  <2>1. PICK a \in Held, f \in Held, lo \in 0 .. MaxWidth :
          /\ a.w >= lo + f.w
          /\ Return(Call("replace", <<a, f>>, a.w, lo), ReplaceAt(a, f, lo))
    BY <1>3 DEF ReplaceStatic
  <2>2. lo \in Nat /\ a.w \in Nat /\ f.w \in Nat
    BY <1>0, NumberAssumption
  <2>3. lo + f.w <= a.w
    BY <2>1, <2>2
  <2>4. QED
    BY <2>1, <2>2, <2>3, ReplaceAbs DEF Plain!Next
<1>4. CASE ReplaceRuntime
  <2>1. PICK a \in Held, f \in Held, lo \in Offsets :
          IF InWindow(lo, f.w, a.w)
            THEN Return(Call("replace", <<a, f>>, a.w, lo), ReplaceAt(a, f, lo))
            ELSE Stop(Call("replace", <<a, f>>, a.w, lo), "aborted")
    BY <1>4 DEF ReplaceRuntime
  <2>2. lo \in Nat /\ (InWindow(lo, f.w, a.w) <=> lo + f.w <= a.w)
    BY <1>0, WindowFits
  <2>3. CASE InWindow(lo, f.w, a.w)
    BY <2>1, <2>2, <2>3, ReplaceAbs DEF Plain!Next
  <2>4. CASE ~InWindow(lo, f.w, a.w)
    <3>1. /\ Plain!Going
          /\ (IF status' = "running" THEN "running" ELSE "stopped") = "stopped"
          /\ AbsVecs(vecs') = AbsVecs(vecs)
          /\ [call' EXCEPT !.vals = AbsVecs(call'.vals)]
               = Plain!Call("replace", AbsVecs(<<a, f>>), a.w, lo)
      BY <2>1, <2>4, AbsStop
    <3>2. AbsVecs(<<a, f>>) = <<AbsVec(a), AbsVec(f)>>
      BY AbsSequences
    <3>3. lo + AbsVec(f).w > AbsVec(a).w
      BY <1>0, <2>2, <2>4
    <3>4. Plain!Misuse
      <4>1. /\ AbsVec(a) \in Plain!Known /\ AbsVec(f) \in Plain!Known
            /\ AbsVec(a).w = a.w /\ lo \in Offsets
        BY <1>0
      <4>2. [call' EXCEPT !.vals = AbsVecs(call'.vals)]
              = Plain!Call("replace", <<AbsVec(a), AbsVec(f)>>, AbsVec(a).w, lo)
        BY <3>1, <3>2, <4>1
      <4>3. QED
        BY <3>1, <3>3, <4>1, <4>2 DEF Plain!Misuse
    <3>5. QED
      BY <3>4 DEF Plain!Next
  <2>5. QED
    BY <2>3, <2>4
<1>5. QED
  BY <1>1, <1>2, <1>3, <1>4

\* A field placed by an amount is put into the array at its number.
LEMMA ReplaceByAbs ==
  ASSUME TypeOK, ReplaceSymbolic
  PROVE  Plain!Next
<1>1. PICK a \in Held, f \in Held, lo \in Shifts :
        /\ a.w >= f.w
        /\ Return(Call("replace by", <<a, f, lo>>, a.w, 0), ReplaceBy(a, f, lo))
  BY DEF ReplaceSymbolic
<1>2. /\ a \in Terms /\ AbsVec(a) \in Plain!Known
      /\ f \in Terms /\ AbsVec(f) \in Plain!Known
      /\ lo \in Terms /\ AbsVec(lo) \in Plain!Counts
  BY AbsOperands
<1>3. /\ AbsVec(a).w = a.w /\ AbsVec(a).s = a.s /\ AbsVec(f).w = f.w
      /\ AbsVec(lo).w = lo.w
      /\ a.w \in Nat /\ f.w \in Nat /\ f.w <= a.w /\ lo.w \in Widths
  BY <1>1, <1>2, AbsTerm, TermParts
<1>4. Plain!Low(AbsVec(lo).w, AbsVec(lo)) = Number[lo.b]
  BY <1>2, <1>3, AbsNumber
<1>5. /\ ReplaceBy(a, f, lo) \in Terms
      /\ AbsVec(ReplaceBy(a, f, lo))
           = Plain!Array(a.w, a.s, Plain!Inserted(AbsVec(a), AbsVec(f), Number[lo.b]))
  <2>1. /\ Number[lo.b] \in Nat
        /\ ReplaceBy(a, f, lo) \in Terms
        /\ ReplaceBy(a, f, lo).w = a.w /\ ReplaceBy(a, f, lo).s = a.s
        /\ \A i \in Positions(a.w) : i \in ReplaceBy(a, f, lo).b <=>
               IF Number[lo.b] <= i /\ i < Number[lo.b] + f.w
                 THEN i - Number[lo.b] \in f.b ELSE i \in a.b
    BY <1>2, <1>3, ReplaceByBits
  <2>2. QED
    BY <1>2, <2>1, InsertedAbs
<1>6. /\ Plain!Does(Plain!Call("replace by", <<AbsVec(a), AbsVec(f), AbsVec(lo)>>, a.w, 0))
      /\ Plain!New(Plain!Array(a.w, a.s,
                     Plain!Inserted(AbsVec(a), AbsVec(f), Number[lo.b])))
  <2>1. Return(Call("replace by", <<a, f, lo>>, a.w, 0), ReplaceBy(a, f, lo))
    BY <1>1
  <2>2. /\ Plain!Does(Plain!Call("replace by", AbsVecs(<<a, f, lo>>), a.w, 0))
        /\ Plain!New(AbsVec(ReplaceBy(a, f, lo)))
    BY <1>5, <2>1, AbsReturn
  <2>3. AbsVecs(<<a, f, lo>>) = <<AbsVec(a), AbsVec(f), AbsVec(lo)>>
    BY AbsSequences
  <2>4. QED
    BY <1>5, <2>2, <2>3
<1>7. Plain!ReplaceBy
  BY <1>2, <1>3, <1>4, <1>6 DEF Plain!ReplaceBy
<1>8. QED
  BY <1>7 DEF Plain!Next

\* The arrays of one bit that stand for Booleans.
OneBit(flag) == Plain!Array(1, FALSE, [i \in Plain!Positions(1) |-> flag])

\* The parts of a concatenation are arrays, or Booleans as arrays.
LEMMA AbsParts ==
  ASSUME TypeOK, NEW a \in Held \cup {AsUint1(flag) : flag \in BOOLEAN}
  PROVE  a \in Terms /\ AbsVec(a) \in Plain!Known \cup {OneBit(flag) : flag \in BOOLEAN}
<1>1. CASE a \in Held
  BY <1>1, AbsOperands
<1>2. CASE a \in {AsUint1(flag) : flag \in BOOLEAN}
  <2>1. PICK flag \in BOOLEAN : a = AsUint1(flag)
    BY <1>2
  <2>2. /\ a \in Terms /\ a.w = 1 /\ a.s = FALSE
        /\ \A i \in Positions(1) : i \in a.b <=> flag
    BY <2>1, AsUint1Type
  <2>3. AbsVec(a) = Plain!Array(1, FALSE, [i \in Positions(1) |-> i \in a.b])
    BY <2>2, AbsTerm
  <2>4. \A i \in Positions(1) : (i \in a.b) = flag
    BY <2>2
  <2>5. [i \in Positions(1) |-> i \in a.b] = [i \in Plain!Positions(1) |-> flag]
    BY <2>4, SamePositions
  <2>6. AbsVec(a) = OneBit(flag)
    BY <2>3, <2>5 DEF OneBit
  <2>7. QED
    BY <2>2, <2>6
<1>3. QED
  BY <1>1, <1>2

\* The bits of a concatenation.
LEMMA ConcatAbs ==
  ASSUME TypeOK, Concatenate
  PROVE  Plain!Next
<1>1. PICK a \in Held \cup {AsUint1(flag) : flag \in BOOLEAN},
           b \in Held \cup {AsUint1(flag) : flag \in BOOLEAN} :
        /\ a.w + b.w <= MaxWidth
        /\ Return(Call("concat", <<a, b>>, a.w + b.w, 0), Concat(a, b))
  BY DEF Concatenate
<1>2. /\ a \in Terms /\ AbsVec(a) \in Plain!Known \cup {OneBit(flag) : flag \in BOOLEAN}
      /\ b \in Terms /\ AbsVec(b) \in Plain!Known \cup {OneBit(flag) : flag \in BOOLEAN}
  BY AbsParts
<1>3. /\ AbsVec(a).w = a.w /\ AbsVec(b).w = b.w
      /\ a.w \in Nat \ {0} /\ b.w \in Nat \ {0} /\ MaxWidth \in Nat
  BY <1>2, AbsTerm, TermParts, NumberAssumption
<1>4. /\ Concat(a, b) \in Terms
      /\ Concat(a, b).w = a.w + b.w /\ Concat(a, b).s = FALSE
      /\ \A i \in Positions(a.w + b.w) : i \in Concat(a, b).b <=>
             IF i < b.w THEN i \in b.b ELSE i - b.w \in a.b
  BY <1>1, <1>2, ConcatBits
<1>5. AbsVec(Concat(a, b)) = Plain!Array(a.w + b.w, FALSE,
                               [i \in Positions(a.w + b.w) |-> i \in Concat(a, b).b])
  BY <1>4, AbsTerm
<1>6. ASSUME NEW i \in Positions(a.w + b.w)
      PROVE  (i \in Concat(a, b).b)
               = IF i < b.w THEN AbsVec(b).bit[i] ELSE AbsVec(a).bit[i - b.w]
  <2>1. CASE i < b.w
    <3>1. i \in Positions(b.w)
      BY <1>3, <1>6, <2>1 DEF Positions
    <3>2. AbsVec(b).bit[i] = (i \in b.b)
      BY <1>2, <3>1, AbsBits, Zenon
    <3>3. (i \in Concat(a, b).b) <=> (i \in b.b)
      BY <1>4, <2>1
    <3>4. QED
      BY <2>1, <3>2, <3>3
  <2>2. CASE ~(i < b.w)
    <3>1. i - b.w \in Positions(a.w)
      BY <1>3, <1>6, <2>2 DEF Positions
    <3>2. AbsVec(a).bit[i - b.w] = (i - b.w \in a.b)
      BY <1>2, <3>1, AbsBits, Zenon
    <3>3. (i \in Concat(a, b).b) <=> (i - b.w \in a.b)
      BY <1>4, <2>2
    <3>4. QED
      BY <2>2, <3>2, <3>3
  <2>3. QED
    BY <2>1, <2>2
<1>7. [i \in Positions(a.w + b.w) |-> i \in Concat(a, b).b]
        = [i \in Plain!Positions(a.w + b.w) |->
             IF i < b.w THEN AbsVec(b).bit[i] ELSE AbsVec(a).bit[i - b.w]]
  BY <1>6, SamePositions
<1>8. /\ Plain!Does(Plain!Call("concat", <<AbsVec(a), AbsVec(b)>>, a.w + b.w, 0))
      /\ Plain!New(AbsVec(Concat(a, b)))
  BY <1>1, <1>4, AbsReturn, AbsSequences
<1>9. a.w + b.w \in Plain!Widths
  BY <1>1, <1>3, SamePositions DEF Widths
<1>10. Plain!Concat
  <2>1. Plain!New(Plain!Array(AbsVec(a).w + AbsVec(b).w, FALSE,
                    [i \in Plain!Positions(AbsVec(a).w + AbsVec(b).w) |->
                       IF i < AbsVec(b).w THEN AbsVec(b).bit[i]
                                          ELSE AbsVec(a).bit[i - AbsVec(b).w]]))
    <3>1. /\ AbsVec(a).w = a.w /\ AbsVec(b).w = b.w
          /\ Plain!New(Plain!Array(a.w + b.w, FALSE,
               [i \in Plain!Positions(a.w + b.w) |->
                  IF i < b.w THEN AbsVec(b).bit[i] ELSE AbsVec(a).bit[i - b.w]]))
      BY <1>3, <1>5, <1>7, <1>8
    <3>2. QED
      BY ONLY <3>1, Zenon
  <2>2. Plain!Does(Plain!Call("concat", <<AbsVec(a), AbsVec(b)>>,
                              AbsVec(a).w + AbsVec(b).w, 0))
    BY <1>3, <1>8
  <2>3. AbsVec(a).w + AbsVec(b).w \in Plain!Widths
    BY <1>3, <1>9
  <2>4. QED
    BY <1>2, <2>1, <2>2, <2>3 DEF Plain!Concat, OneBit
<1>11. QED
  BY <1>10 DEF Plain!Next

\* The rotated terms are seen as the turned arrays.
LEMMA TurnedAbs ==
  ASSUME NEW a \in Terms, NEW n \in Nat
  PROVE  /\ RotlConst(a, n) \in Terms /\ RotrConst(a, n) \in Terms
         /\ AbsVec(RotlConst(a, n)) = Plain!TurnedLeft(AbsVec(a), n)
         /\ AbsVec(RotrConst(a, n)) = Plain!TurnedRight(AbsVec(a), n)
<1>1. a.w \in Nat \ {0} /\ AbsVec(a).w = a.w /\ AbsVec(a).s = a.s
  BY TermParts, AbsTerm
<1>2. /\ RotlConst(a, n) \in Terms
      /\ RotlConst(a, n).w = a.w /\ RotlConst(a, n).s = a.s
      /\ RotrConst(a, n) \in Terms
      /\ RotrConst(a, n).w = a.w /\ RotrConst(a, n).s = a.s
      /\ \A i \in Positions(a.w) :
            /\ i \in RotlConst(a, n).b <=> (i - n) % a.w \in a.b
            /\ i \in RotrConst(a, n).b <=> (i + n) % a.w \in a.b
  BY TurnBits
<1>3. ASSUME NEW i \in Positions(a.w)
      PROVE  /\ (i \in RotlConst(a, n).b) = AbsVec(a).bit[(i - n) % a.w]
             /\ (i \in RotrConst(a, n).b) = AbsVec(a).bit[(i + n) % a.w]
  <2>1. (i - n) % a.w \in Positions(a.w) /\ (i + n) % a.w \in Positions(a.w)
    <3>1. i - n \in Int /\ i + n \in Int
      BY <1>3 DEF Positions
    <3>2. (i - n) % a.w \in 0 .. (a.w - 1) /\ (i + n) % a.w \in 0 .. (a.w - 1)
      BY <1>1, <3>1, ModDecompose
    <3>3. QED
      BY <3>2 DEF Positions
  <2>2. /\ AbsVec(a).bit[(i - n) % a.w] = ((i - n) % a.w \in a.b)
        /\ AbsVec(a).bit[(i + n) % a.w] = ((i + n) % a.w \in a.b)
    BY <2>1, AbsBits, Zenon
  <2>3. /\ (i \in RotlConst(a, n).b) <=> ((i - n) % a.w \in a.b)
        /\ (i \in RotrConst(a, n).b) <=> ((i + n) % a.w \in a.b)
    BY <1>2, <1>3
  <2>4. QED
    BY <2>2, <2>3
<1>4. /\ AbsVec(RotlConst(a, n))
           = Plain!Array(a.w, a.s, [i \in Positions(a.w) |-> i \in RotlConst(a, n).b])
      /\ AbsVec(RotrConst(a, n))
           = Plain!Array(a.w, a.s, [i \in Positions(a.w) |-> i \in RotrConst(a, n).b])
  BY <1>2, AbsTerm
<1>5. /\ [i \in Positions(a.w) |-> i \in RotlConst(a, n).b]
           = [i \in Plain!Positions(AbsVec(a).w) |-> AbsVec(a).bit[(i - n) % AbsVec(a).w]]
      /\ [i \in Positions(a.w) |-> i \in RotrConst(a, n).b]
           = [i \in Plain!Positions(AbsVec(a).w) |-> AbsVec(a).bit[(i + n) % AbsVec(a).w]]
  BY <1>1, <1>3, SamePositions
<1>6. QED
  BY <1>1, <1>2, <1>4, <1>5 DEF Plain!TurnedLeft, Plain!TurnedRight

\* The rotations.
LEMMA TurnsAbs ==
  ASSUME TypeOK, TurnConst \/ Turn
  PROVE  Plain!Next
<1>1. CASE TurnConst
  <2>1. PICK a \in Held, n \in 0 .. MaxTurn :
          \/ Return(Call("rotl", <<a>>, a.w, n), RotlConst(a, n))
          \/ Return(Call("rotr", <<a>>, a.w, n), RotrConst(a, n))
    BY <1>1 DEF TurnConst
  <2>2. /\ a \in Terms /\ AbsVec(a) \in Plain!Known /\ AbsVec(a).w = a.w /\ n \in Nat
    <3>1. n \in Nat
      BY BitProgramAssumption
    <3>2. QED
      BY <3>1, AbsOperands, AbsTerm
  <2>3. /\ RotlConst(a, n) \in Terms /\ RotrConst(a, n) \in Terms
        /\ AbsVec(RotlConst(a, n)) = Plain!TurnedLeft(AbsVec(a), n)
        /\ AbsVec(RotrConst(a, n)) = Plain!TurnedRight(AbsVec(a), n)
    BY <2>2, TurnedAbs
  <2>4. \/ /\ Plain!Does(Plain!Call("rotl", <<AbsVec(a)>>, a.w, n))
           /\ Plain!New(Plain!TurnedLeft(AbsVec(a), n))
        \/ /\ Plain!Does(Plain!Call("rotr", <<AbsVec(a)>>, a.w, n))
           /\ Plain!New(Plain!TurnedRight(AbsVec(a), n))
    BY <2>1, <2>3, AbsReturn, AbsSequences
  <2>5. Plain!RotateConst
    BY <2>2, <2>4 DEF Plain!RotateConst
  <2>6. QED
    BY <2>5 DEF Plain!Next
<1>2. CASE Turn
  <2>1. PICK a \in Held, amount \in Shifts :
          \/ Return(Call("rotl by", <<a, amount>>, a.w, 0), RotlBy(a, amount))
          \/ Return(Call("rotr by", <<a, amount>>, a.w, 0), RotrBy(a, amount))
    BY <1>2 DEF Turn
  <2>2. /\ a \in Terms /\ AbsVec(a) \in Plain!Known /\ AbsVec(a).w = a.w
        /\ amount \in Terms /\ AbsVec(amount) \in Plain!Counts /\ a.w \in Widths
    BY AbsOperands, AbsTerm, TermParts
  <2>3. /\ Number[ToWidth(a.w, amount)] \in Nat
        /\ Plain!Low(a.w, AbsVec(amount)) = Number[ToWidth(a.w, amount)]
    <3>1. ToWidth(a.w, amount) \in Words(a.w)
      BY <2>2, ToWidthBits
    <3>2. QED
      BY <2>2, <3>1, NumberType, AbsNumber
  <2>4. /\ RotlBy(a, amount) \in Terms /\ RotrBy(a, amount) \in Terms
        /\ AbsVec(RotlBy(a, amount))
             = Plain!TurnedLeft(AbsVec(a), Plain!Low(a.w, AbsVec(amount)))
        /\ AbsVec(RotrBy(a, amount))
             = Plain!TurnedRight(AbsVec(a), Plain!Low(a.w, AbsVec(amount)))
    BY <2>2, <2>3, TurnedAbs DEF RotlBy, RotrBy
  <2>5. \/ /\ Plain!Does(Plain!Call("rotl by", <<AbsVec(a), AbsVec(amount)>>, a.w, 0))
           /\ Plain!New(Plain!TurnedLeft(AbsVec(a), Plain!Low(a.w, AbsVec(amount))))
        \/ /\ Plain!Does(Plain!Call("rotr by", <<AbsVec(a), AbsVec(amount)>>, a.w, 0))
           /\ Plain!New(Plain!TurnedRight(AbsVec(a), Plain!Low(a.w, AbsVec(amount))))
    BY <2>1, <2>4, AbsReturn, AbsSequences
  <2>6. Plain!RotateBy
    BY <2>2, <2>5 DEF Plain!RotateBy
  <2>7. QED
    BY <2>6 DEF Plain!Next
<1>3. QED
  BY <1>1, <1>2

\* An uninitialized operand stops the program.
LEMMA MisuseAbs ==
  ASSUME TypeOK, UseUninitialized \/ BitwiseUninitialized
  PROVE  Plain!Next
<1>1. NoExpr \in Plain!Made /\ AbsVecs(<<NoExpr>>) = <<NoExpr>>
  BY AbsOperands, AbsSequences DEF UseUninitialized, BitwiseUninitialized
<1>2. PICK op \in {"read", "bitwise"}, how \in {"aborted", "undefined"} :
        Stop(Call(op, <<NoExpr>>, 0, 0), how)
  BY Zenon DEF UseUninitialized, BitwiseUninitialized
<1>3. /\ Plain!Going
      /\ (IF status' = "running" THEN "running" ELSE "stopped") = "stopped"
      /\ AbsVecs(vecs') = AbsVecs(vecs)
      /\ [call' EXCEPT !.vals = AbsVecs(call'.vals)]
           = Plain!Call(op, AbsVecs(<<NoExpr>>), 0, 0)
  BY <1>2, AbsStop
<1>4. Plain!Misuse
  BY <1>1, <1>3 DEF Plain!Misuse
<1>5. QED
  BY <1>4 DEF Plain!Next

-----------------------------------------------------------------------------
\* z3wire's programs handle arrays of bits: every run of BitProgram is, seen
\* through the bits of its objects, one of BitArrays.
THEOREM Implementation == Spec => ImplementsBitArrays
<1>1. Init => Plain!Init
  BY AbsSequences DEF Init, Plain!Init, Call, Plain!Call
<1>2. TypeOK /\ [Next]_vars => [Plain!Next]_Plain!vars
  <2>1. SUFFICES ASSUME TypeOK, [Next]_vars
                 PROVE  [Plain!Next]_Plain!vars
    OBVIOUS
  <2>2. CASE Next
    BY <2>1, <2>2, ConstructorsAbs, LogicAbs, SlicesAbs, ReplaceByAbs, ConcatAbs,
       TurnsAbs, MisuseAbs DEF Next
  <2>3. CASE UNCHANGED vars
    BY <2>3 DEF vars, Plain!vars
  <2>4. QED
    BY <2>1, <2>2, <2>3
<1>3. QED
  BY <1>1, <1>2, TypeCorrect, PTL DEF Spec, ImplementsBitArrays, Plain!Spec
=============================================================================
