-------------------------- MODULE ConversionsProofs --------------------------
(***************************************************************************)
(* Proofs about Conversions, at every width of a byte, of the machine's    *)
(* integers and of the bit-vectors: how a BitVec is stored, that every way *)
(* out of it leads back, and, last, that a program over the memory BitVec  *)
(* uses is one over its numbers: Conversions implements ExactIntegers.     *)
(***************************************************************************)
EXTENDS ConversionsProps, Remainders

-----------------------------------------------------------------------------
(* Widths *)

\* The least member of a set of natural numbers.
LEMMA MinOfSet ==
  ASSUME NEW S \in SUBSET Nat, S # {}
  PROVE  Min(S) \in S /\ \A y \in S : Min(S) <= y
<1>1. PICK x \in S : \A y \in S : ~(<<y, x>> \in OpToRel(<, Nat))
  BY NatLessThanWellFounded, WFMin
<1>2. \A y \in S : ~(y < x)
  BY <1>1 DEF OpToRel
<1>3. \A y \in S : x <= y
  BY <1>2
<1>4. QED
  BY <1>3 DEF Min

\* What is assumed of the widths.
LEMMA WidthFacts ==
  /\ MaxWidth \in Nat \ {0}
  /\ ByteBits \in Nat \ {0} /\ ByteBits <= Longest
  /\ Longest \in Nat \ {0} /\ Longest <= MaxWidth
  /\ NativeWidths \subseteq Nat /\ ByteBits \in NativeWidths /\ Longest \in NativeWidths
  /\ \A n \in NativeWidths : 1 <= n /\ n <= Longest
  /\ \A w \in Widths : w \in Nat \ {0} /\ w <= MaxWidth
<1>1. MaxWidth \in Nat \ {0} /\ \A w \in Widths : w \in Nat \ {0} /\ w <= MaxWidth
  BY NumberAssumption DEF Widths
<1>2. QED
  BY <1>1, NativeAssumption

\* The integer type of a narrow bit-vector has room for it.
LEMMA ContainerType ==
  ASSUME NEW w \in Widths, Narrow(w)
  PROVE  /\ Container(w) \in NativeWidths /\ Container(w) \in Nat
         /\ w <= Container(w) /\ Container(w) <= Longest
<1>1. PICK S \in SUBSET Nat : S = {n \in NativeWidths : w <= n}
  BY WidthFacts
<1>2. Longest \in S
  BY <1>1, WidthFacts DEF Narrow
<1>3. Min(S) \in S
  BY <1>2, MinOfSet
<1>4. QED
  BY <1>1, <1>3, WidthFacts DEF Container

\* One word is a sequence of words.
LEMMA SingleWord ==
  ASSUME NEW S, NEW d \in S
  PROVE  <<d>> \in Seq(S)
OBVIOUS

\* The words of a narrower width are among those of a wider one.
LEMMA WordsGrow ==
  ASSUME NEW m \in Int, NEW n \in Int, m <= n
  PROVE  Positions(m) \subseteq Positions(n) /\ Words(m) \subseteq Words(n)
BY DEF Positions, Words

\* The bits of the last byte that are within the width.
UsedBits(w) == IF w % ByteBits = 0 THEN ByteBits ELSE w % ByteBits

\* The bytes before the last one are full, and the last one is not empty.
LEMMA LastByte ==
  ASSUME NEW w \in Widths
  PROVE  /\ NumBytes(w) \in Nat \ {0}
         /\ UsedBits(w) \in 1 .. ByteBits
         /\ w = (NumBytes(w) - 1) * ByteBits + UsedBits(w)
<1>1. PICK B \in Nat \ {0} : B = ByteBits
  BY WidthFacts
<1>2. w \in Nat \ {0} /\ w + B - 1 \in Nat
  BY <1>1, WidthFacts
<1>3. PICK q \in Int, r \in 0 .. (B - 1) : w = q * B + r /\ w % B = r
  <2>1. PICK x \in Int : x = w
    BY <1>2
  <2>2. PICK q \in Int, r \in 0 .. (B - 1) : x = q * B + r /\ x % B = r
    BY ModDecompose
  <2>3. QED
    BY <2>1, <2>2
<1>4. q \in Nat
  <2>1. SUFFICES ASSUME q < 0 PROVE FALSE
    BY <1>3
  <2>2. PICK k \in Nat : q = -1 - k
    <3>1. -1 - q \in Nat /\ q = -1 - (-1 - q)
      BY <2>1
    <3>2. QED
      BY <3>1
  <2>3. q * B = -B - k * B /\ k * B \in Nat
    BY <2>2
  <2>4. QED
    BY <1>2, <1>3, <2>3
<1>5. CASE r = 0
  <2>1. q # 0
    BY <1>2, <1>3, <1>5
  <2>2. w + B - 1 = q * B + (B - 1)
    BY <1>2, <1>3, <1>5
  <2>3. (w + B - 1) \div B = q
    BY <1>2, <1>4, <2>2, QuotientUnique
  <2>4. NumBytes(w) = q /\ UsedBits(w) = B
    BY <1>1, <1>3, <1>5, <2>3 DEF NumBytes, UsedBits
  <2>5. q * B = (q - 1) * B + B
    OBVIOUS
  <2>6. QED
    BY <1>1, <1>3, <1>4, <1>5, <2>1, <2>4, <2>5
<1>6. CASE r # 0
  <2>1. w + B - 1 = (q + 1) * B + (r - 1) /\ r - 1 \in 0 .. (B - 1) /\ q + 1 \in Nat
    <3>1. (q + 1) * B = q * B + B
      OBVIOUS
    <3>2. QED
      BY <1>3, <1>4, <1>6, <3>1
  <2>2. (w + B - 1) \div B = q + 1
    BY <1>2, <2>1, QuotientUnique
  <2>3. NumBytes(w) = q + 1 /\ UsedBits(w) = r
    BY <1>1, <1>3, <1>6, <2>2 DEF NumBytes, UsedBits
  <2>4. (q + 1) - 1 = q /\ q + 1 \in Nat \ {0} /\ r \in 1 .. B
    BY <1>3, <1>4, <1>6
  <2>5. QED
    BY <1>1, <1>3, <2>3, <2>4
<1>7. QED
  BY <1>5, <1>6


\* No bit-vector takes more bytes than the widest.
LEMMA BytesFit ==
  ASSUME NEW w \in Widths
  PROVE  NumBytes(w) * ByteBits <= MaxWidth
<1>1. PICK B \in Nat \ {0} : B = ByteBits
  BY WidthFacts
<1>2. PICK n \in Nat \ {0} : n = NumBytes(w)
  BY LastByte
<1>3. PICK u \in 1 .. B : w = (n - 1) * B + u
  BY <1>1, <1>2, LastByte
<1>4. PICK m \in Nat : m = MaxWidth /\ w <= m
  BY WidthFacts
<1>5. PICK k \in Int : m = k * B
  <2>1. m % B = 0
    BY <1>1, <1>4, ConversionsAssumption
  <2>2. m = (m \div B) * B + 0 /\ m \div B \in Int
    BY <1>1, <2>1, ModDecompose
  <2>3. QED
    BY <1>1, <2>2
<1>6. n <= k
  <2>1. SUFFICES ASSUME k <= n - 1 PROVE FALSE
    BY <1>2, <1>5
  <2>2. PICK d \in Nat : n - 1 = k + d
    <3>1. (n - 1) - k \in Nat /\ n - 1 = k + ((n - 1) - k)
      BY <1>2, <1>5, <2>1
    <3>2. QED
      BY <3>1
  <2>3. (n - 1) * B = k * B + d * B /\ d * B \in Nat
    BY <1>1, <1>5, <2>2
  <2>4. PICK a \in Nat : (n - 1) * B = m + a
    BY <1>5, <2>3
  <2>5. w = (m + a) + u
    BY <1>3, <2>4
  <2>6. QED
    BY <1>3, <1>4, <2>4, <2>5
<1>7. PICK d \in Nat : k = n + d
  <2>1. k - n \in Nat /\ k = n + (k - n)
    BY <1>2, <1>5, <1>6
  <2>2. QED
    BY <2>1
<1>8. k * B = n * B + d * B /\ d * B \in Nat
  BY <1>1, <1>2, <1>7
<1>9. PICK a \in Int, e \in Nat : a = n * B /\ e = d * B /\ m = a + e
  BY <1>1, <1>2, <1>5, <1>8
<1>10. QED
  BY <1>1, <1>2, <1>4, <1>9

-----------------------------------------------------------------------------
(* Bytes *)

\* Every position is one of a byte.
LEMMA PlaceOf ==
  ASSUME NEW k \in Nat
  PROVE  \E q \in Nat, r \in 0 .. ByteBits - 1 : k = r + q * ByteBits
<1>1. PICK B \in Nat \ {0} : B = ByteBits
  BY WidthFacts
<1>2. PICK x \in Int : x = k
  OBVIOUS
<1>3. PICK q \in Int, r \in 0 .. (B - 1) : x = q * B + r /\ x % B = r
  BY ModDecompose
<1>4. q \in Nat
  <2>1. SUFFICES ASSUME q < 0 PROVE FALSE
    BY <1>3
  <2>2. PICK j \in Nat : q = -1 - j
    <3>1. -1 - q \in Nat /\ q = -1 - (-1 - q)
      BY <2>1
    <3>2. QED
      BY <3>1
  <2>3. q * B = -B - j * B /\ j * B \in Nat
    BY <2>2
  <2>4. QED
    BY <1>2, <1>3, <2>3
<1>5. QED
  BY <1>1, <1>2, <1>3, <1>4

\* A position is in one byte only.
LEMMA PlaceUnique ==
  ASSUME NEW q \in Int, NEW p \in Int,
         NEW r \in 0 .. ByteBits - 1, NEW s \in 0 .. ByteBits - 1,
         r + q * ByteBits = s + p * ByteBits
  PROVE  q = p /\ r = s
<1>1. PICK B \in Nat \ {0} : B = ByteBits
  BY WidthFacts
<1>2. PICK x \in Int : x = q * B + r /\ x = p * B + s
  BY <1>1
<1>3. x \div B = q /\ x \div B = p
  BY <1>1, <1>2, QuotientUnique
<1>4. QED
  BY <1>2, <1>3

\* A lower position is in the same or a lower byte.
LEMMA PlaceOrder ==
  ASSUME NEW q \in Int, NEW n \in Int, NEW r \in 0 .. ByteBits - 1,
         NEW u \in 1 .. ByteBits
  PROVE  r + q * ByteBits < (n - 1) * ByteBits + u <=> q < n - 1 \/ (q = n - 1 /\ r < u)
<1>1. PICK B \in Nat \ {0} : B = ByteBits
  BY WidthFacts
<1>2. CASE q < n - 1
  <2>1. PICK j \in Nat : n - 1 = q + 1 + j
    <3>1. (n - 1) - q - 1 \in Nat /\ n - 1 = q + 1 + ((n - 1) - q - 1)
      BY <1>2
    <3>2. QED
      BY <3>1
  <2>2. (n - 1) * B = q * B + B + j * B /\ j * B \in Nat /\ q * B \in Int
    BY <2>1
  <2>3. QED
    BY <1>1, <1>2, <2>2
<1>3. CASE q = n - 1
  <2>1. PICK m \in Int : m = q * B
    OBVIOUS
  <2>2. QED
    BY <1>1, <1>3, <2>1
<1>4. CASE q > n - 1
  <2>1. PICK j \in Nat : q = (n - 1) + 1 + j
    <3>1. q - (n - 1) - 1 \in Nat /\ q = (n - 1) + 1 + (q - (n - 1) - 1)
      BY <1>4
    <3>2. QED
      BY <3>1
  <2>2. q * B = (n - 1) * B + B + j * B /\ j * B \in Nat /\ (n - 1) * B \in Int
    BY <2>1
  <2>3. QED
    BY <1>1, <1>4, <2>2
<1>5. QED
  BY <1>2, <1>3, <1>4

\* The bits of a word of bytes are those of the bytes at their places.
LEMMA AssembleParts ==
  ASSUME NEW bytes \in Seq(Words(ByteBits)), NEW k \in Assemble(bytes)
  PROVE  \E q \in Nat, r \in 0 .. ByteBits - 1 :
            /\ k = r + q * ByteBits
            /\ q + 1 \in 1 .. Len(bytes) /\ r \in bytes[q + 1]
<1>1. PICK i \in 1 .. Len(bytes), r \in Int :
        r \in bytes[i] /\ k = r + (i - 1) * ByteBits
  BY DEF Assemble, Words, Positions
<1>2. r \in 0 .. ByteBits - 1
  BY <1>1 DEF Words, Positions
<1>3. PICK q \in Nat : q = i - 1 /\ q + 1 = i
  <2>1. i - 1 \in Nat /\ (i - 1) + 1 = i
    OBVIOUS
  <2>2. QED
    BY <2>1
<1>4. QED
  BY <1>1, <1>2, <1>3

LEMMA AssembleMember ==
  ASSUME NEW bytes \in Seq(Words(ByteBits)),
         NEW q \in Nat, NEW r \in 0 .. ByteBits - 1
  PROVE  r + q * ByteBits \in Assemble(bytes) <=>
            q + 1 \in 1 .. Len(bytes) /\ r \in bytes[q + 1]
<1>1. ASSUME r + q * ByteBits \in Assemble(bytes)
      PROVE  q + 1 \in 1 .. Len(bytes) /\ r \in bytes[q + 1]
  <2>1. PICK p \in Nat, s \in 0 .. ByteBits - 1 :
          /\ r + q * ByteBits = s + p * ByteBits
          /\ p + 1 \in 1 .. Len(bytes) /\ s \in bytes[p + 1]
    BY <1>1, AssembleParts
  <2>2. q = p /\ r = s
    BY <2>1, PlaceUnique
  <2>3. QED
    BY <2>1, <2>2
<1>2. ASSUME q + 1 \in 1 .. Len(bytes), r \in bytes[q + 1]
      PROVE  r + q * ByteBits \in Assemble(bytes)
  <2>1. (q + 1) - 1 = q
    OBVIOUS
  <2>2. QED
    BY <1>2, <2>1 DEF Assemble
<1>3. QED
  BY <1>1, <1>2

\* The bytes of a word.
LEMMA SplitMember ==
  ASSUME NEW b \in SUBSET Int, NEW n \in Nat
  PROVE  /\ Split(b, n) \in Seq(Words(ByteBits)) /\ Len(Split(b, n)) = n
         /\ \A q \in Nat, r \in 0 .. ByteBits - 1 :
               q + 1 \in 1 .. n =>
                  (r \in Split(b, n)[q + 1] <=> r + q * ByteBits \in b)
<1>1. PICK B \in Nat \ {0} : B = ByteBits
  BY WidthFacts
<1>2. ASSUME NEW i \in 1 .. n
      PROVE  /\ Split(b, n)[i] \in Words(ByteBits)
             /\ \A r \in 0 .. ByteBits - 1 :
                   r \in Split(b, n)[i] <=> r + (i - 1) * ByteBits \in b
  <2>1. Split(b, n)[i] = {k - (i - 1) * B : k \in b \cap ((i - 1) * B .. i * B - 1)}
    BY <1>1 DEF Split, Slice
  <2>2. PICK m \in Int : m = (i - 1) * B /\ i * B - 1 = m + (B - 1)
    <3>1. (i - 1) * B \in Int /\ i * B - 1 = (i - 1) * B + (B - 1)
      OBVIOUS
    <3>2. QED
      BY <3>1
  <2>3. Split(b, n)[i] = {k - m : k \in b \cap (m .. m + (B - 1))}
    BY <2>1, <2>2
  <2>4. \A r : r \in Split(b, n)[i] <=> r \in 0 .. B - 1 /\ r + m \in b
    <3>1. ASSUME NEW r \in Split(b, n)[i]
          PROVE  r \in 0 .. B - 1 /\ r + m \in b
      <4>1. PICK k \in b \cap (m .. m + (B - 1)) : r = k - m
        BY <2>3
      <4>2. k \in Int /\ m <= k /\ k <= m + (B - 1) /\ r + m = k
        BY <4>1
      <4>3. QED
        BY <4>1, <4>2
    <3>2. ASSUME NEW r \in 0 .. B - 1, r + m \in b
          PROVE  r \in Split(b, n)[i]
      <4>1. r + m \in b \cap (m .. m + (B - 1)) /\ r = (r + m) - m
        BY <3>2
      <4>2. QED
        BY <2>3, <4>1
    <3>3. QED
      BY <3>1, <3>2
  <2>5. QED
    BY <1>1, <2>2, <2>4 DEF Words, Positions
<1>3. Split(b, n) \in Seq(Words(ByteBits)) /\ Len(Split(b, n)) = n
  BY <1>2 DEF Split
<1>4. ASSUME NEW q \in Nat, NEW r \in 0 .. ByteBits - 1, q + 1 \in 1 .. n
      PROVE  r \in Split(b, n)[q + 1] <=> r + q * ByteBits \in b
  <2>1. (q + 1) - 1 = q
    OBVIOUS
  <2>2. QED
    BY <1>2, <1>4, <2>1
<1>5. QED
  BY <1>3, <1>4


\* A word of bytes is one of bits.
LEMMA AssembleType ==
  ASSUME NEW bytes \in Seq(Words(ByteBits))
  PROVE  Assemble(bytes) \in SUBSET Nat
<1>1. ASSUME NEW k \in Assemble(bytes)
      PROVE  k \in Nat
  <2>1. PICK q \in Nat, r \in 0 .. ByteBits - 1 : k = r + q * ByteBits
    BY AssembleParts
  <2>2. q * ByteBits \in Nat /\ r \in Nat
    BY WidthFacts
  <2>3. QED
    BY <2>1, <2>2
<1>2. QED
  BY <1>1

\* A word is that of its bytes.
LEMMA AssembleOfSplit ==
  ASSUME NEW w \in Widths, NEW b \in Words(w)
  PROVE  Assemble(Split(b, NumBytes(w))) = b
<1>1. PICK n \in Nat \ {0}, u \in 1 .. ByteBits :
        n = NumBytes(w) /\ w = (n - 1) * ByteBits + u
  BY LastByte
<1>2. b \in SUBSET Nat /\ b \in SUBSET Int /\ \A k \in b : k < w
  BY WidthFacts DEF Words, Positions
<1>3. /\ Split(b, n) \in Seq(Words(ByteBits)) /\ Len(Split(b, n)) = n
      /\ \A q \in Nat, r \in 0 .. ByteBits - 1 :
            q + 1 \in 1 .. n => (r \in Split(b, n)[q + 1] <=> r + q * ByteBits \in b)
  BY <1>2, SplitMember
<1>4. ASSUME NEW q \in Nat, NEW r \in 0 .. ByteBits - 1
      PROVE  r + q * ByteBits \in Assemble(Split(b, n)) <=> r + q * ByteBits \in b
  <2>1. r + q * ByteBits \in b => q + 1 \in 1 .. n
    <3>1. SUFFICES ASSUME r + q * ByteBits \in b PROVE q + 1 \in 1 .. n
      OBVIOUS
    <3>2. r + q * ByteBits < (n - 1) * ByteBits + u
      BY <1>1, <1>2, <3>1
    <3>3. q < n - 1 \/ q = n - 1
      BY <3>2, PlaceOrder
    <3>4. QED
      BY <3>3
  <2>2. r + q * ByteBits \in Assemble(Split(b, n)) <=>
           q + 1 \in 1 .. n /\ r \in Split(b, n)[q + 1]
    BY <1>3, AssembleMember
  <2>3. QED
    BY <1>3, <2>1, <2>2
<1>5. ASSUME NEW k \in Nat
      PROVE  k \in Assemble(Split(b, n)) <=> k \in b
  <2>1. PICK q \in Nat, r \in 0 .. ByteBits - 1 : k = r + q * ByteBits
    BY PlaceOf
  <2>2. QED
    BY <1>4, <2>1
<1>6. Assemble(Split(b, n)) \in SUBSET Nat
  BY <1>3, AssembleType
<1>7. QED
  BY <1>1, <1>2, <1>5, <1>6

\* Bytes are those of their word.
LEMMA SplitOfAssemble ==
  ASSUME NEW bytes \in Seq(Words(ByteBits)), NEW n \in Nat, n = Len(bytes)
  PROVE  Split(Assemble(bytes), n) = bytes
<1> DEFINE b == Assemble(bytes)
<1>1. b \in SUBSET Int
  BY AssembleType
<1>2. /\ Split(b, n) \in Seq(Words(ByteBits)) /\ Len(Split(b, n)) = n
      /\ \A q \in Nat, r \in 0 .. ByteBits - 1 :
            q + 1 \in 1 .. n => (r \in Split(b, n)[q + 1] <=> r + q * ByteBits \in b)
  BY <1>1, SplitMember
<1>3. ASSUME NEW i \in 1 .. n
      PROVE  Split(b, n)[i] = bytes[i]
  <2>1. PICK q \in Nat : i = q + 1
    <3>1. i - 1 \in Nat /\ i = (i - 1) + 1
      OBVIOUS
    <3>2. QED
      BY <3>1
  <2>2. \A r \in 0 .. ByteBits - 1 : r + q * ByteBits \in b <=> r \in bytes[i]
    BY <2>1, AssembleMember
  <2>3. \A r \in 0 .. ByteBits - 1 : r \in Split(b, n)[i] <=> r \in bytes[i]
    BY <1>2, <2>1, <2>2
  <2>4. Split(b, n)[i] \in Words(ByteBits) /\ bytes[i] \in Words(ByteBits)
    BY <1>2
  <2>5. QED
    BY <2>3, <2>4 DEF Words, Positions
<1> HIDE DEF b
<1>4. QED
  BY <1>2, <1>3 DEF b

\* The bytes of a bit-vector hold a word of its width when the last byte has
\* no bit above the width.
LEMMA WordOfBytes ==
  ASSUME NEW w \in Widths, NEW bytes \in Seq(Words(ByteBits)), Len(bytes) = NumBytes(w)
  PROVE  Assemble(bytes) \in Words(w) <=> bytes[NumBytes(w)] \subseteq Positions(UsedBits(w))
<1>1. PICK n \in Nat \ {0}, u \in 1 .. ByteBits :
        n = NumBytes(w) /\ u = UsedBits(w) /\ w = (n - 1) * ByteBits + u
  BY LastByte
<1>2. PICK p \in Nat : p = n - 1 /\ p + 1 = n
  <2>1. n - 1 \in Nat /\ (n - 1) + 1 = n
    OBVIOUS
  <2>2. QED
    BY <2>1
<1>3. Positions(w) = {k \in Nat : k < w} /\ Positions(u) = {k \in Nat : k < u}
  BY WidthFacts, <1>1 DEF Positions
<1>4. Positions(w) = {k \in Nat : k < (n - 1) * ByteBits + u}
  BY <1>1, <1>3
<1>5. bytes[n] \in Words(ByteBits)
  BY <1>1
<1>6. ASSUME Assemble(bytes) \in Words(w), NEW r \in bytes[n]
      PROVE  r \in Positions(u)
  <2>1. r \in 0 .. ByteBits - 1
    BY <1>5 DEF Words, Positions
  <2>2. r + p * ByteBits \in Assemble(bytes)
    BY <1>1, <1>2, <2>1, AssembleMember
  <2>3. r + p * ByteBits < (n - 1) * ByteBits + u
    BY <1>4, <1>6, <2>2 DEF Words
  <2>4. r < u
    BY <1>2, <2>1, <2>3, PlaceOrder
  <2>5. QED
    BY <1>3, <2>1, <2>4
<1>7. ASSUME bytes[n] \subseteq Positions(u), NEW k \in Assemble(bytes)
      PROVE  k \in Positions(w)
  <2>1. PICK q \in Nat, r \in 0 .. ByteBits - 1 :
          k = r + q * ByteBits /\ q + 1 \in 1 .. n /\ r \in bytes[q + 1]
    BY <1>1, AssembleParts
  <2>2. q < n - 1 \/ (q = n - 1 /\ r < u)
    BY <1>3, <1>7, <2>1
  <2>3. r + q * ByteBits < (n - 1) * ByteBits + u
    BY <2>2, PlaceOrder
  <2>4. k \in Nat
    BY AssembleType
  <2>5. QED
    BY <1>4, <2>1, <2>3, <2>4
<1>8. QED
  BY <1>1, <1>6, <1>7 DEF Words


-----------------------------------------------------------------------------
(* Numbers of words *)

\* What is assumed of Number is what Remainders calls a numbering.
LEMMA Numbered ==
  /\ IsNumbering(Number, MaxWidth)
  /\ \A n : Power(n) = PlaceValue(Number, n)
<1>1. IsNumbering(Number, MaxWidth)
  BY NumberAssumption DEF IsNumbering, Words, Positions, Weight
<1>2. ASSUME NEW n
      PROVE  Power(n) = PlaceValue(Number, n)
  BY DEF Power, PlaceValue, Weight
<1>3. QED
  BY <1>1, <1>2

LEMMA WeightType ==
  ASSUME NEW i \in Positions(MaxWidth)
  PROVE  /\ Weight(i) \in Nat \ {0} /\ Weight(i) = Power(i)
         /\ Power(i + 1) = 2 * Weight(i)
<1>1. i \in 0 .. MaxWidth - 1
  BY DEF Positions
<1>2. /\ i \in Nat /\ Number[{i}] \in Nat \ {0} /\ Number[{i}] = PlaceValue(Number, i)
      /\ PlaceValue(Number, i + 1) = 2 * Number[{i}]
  BY <1>1, Numbered, PlaceWeight
<1>3. Power(i) = PlaceValue(Number, i) /\ Power(i + 1) = PlaceValue(Number, i + 1)
  BY Numbered
<1>4. QED
  BY <1>2, <1>3 DEF Weight

\* The topmost bit of a word adds its weight.
LEMMA NumberOfTop ==
  ASSUME NEW b \in Words(MaxWidth), NEW i \in b
  PROVE  /\ b \ {i} \in Words(MaxWidth) /\ i \in Positions(MaxWidth)
         /\ Number[b] = Number[b \ {i}] + Weight(i)
<1>1. b \ {i} \in Words(MaxWidth) /\ i \in Positions(MaxWidth) /\ i \notin b \ {i}
  BY DEF Words
<1>2. (b \ {i}) \cup {i} = b
  OBVIOUS
<1>3. Number[(b \ {i}) \cup {i}] = Number[b \ {i}] + Weight(i)
  BY <1>1, NumberAssumption
<1>4. QED
  BY <1>1, <1>2, <1>3

\* A word of n bits is a number below 2^n.
LEMMA NumberBound ==
  ASSUME NEW n \in 0 .. MaxWidth, NEW b \in Words(n)
  PROVE  b \in Words(MaxWidth) /\ Number[b] \in Nat /\ Number[b] < Power(n)
<1>1. b \in SUBSET (0 .. n - 1) /\ IsNumbering(Number, MaxWidth)
  BY Numbered DEF Words, Positions
<1>2. b \in SUBSET (0 .. MaxWidth - 1) /\ Number[b] \in Nat /\ Number[b] < PlaceValue(Number, n)
  BY <1>1, NumberBelow
<1>3. QED
  BY <1>2, Numbered DEF Words, Positions

\* A signed word of w bits is within the range of its type.
LEMMA ValueBound ==
  ASSUME NEW w \in Widths, NEW b \in Words(w)
  PROVE  /\ Value(w, TRUE, b) \in Int
         /\ MinSigned(w) <= Value(w, TRUE, b) /\ Value(w, TRUE, b) <= MaxSigned(w)
<1>1. w \in Nat /\ w - 1 \in 0 .. MaxWidth /\ w \in 0 .. MaxWidth
        /\ w - 1 \in Positions(MaxWidth)
  BY WidthFacts DEF Positions
<1>2. b \ {w - 1} \in Words(w - 1)
  BY <1>1 DEF Words, Positions
<1>3. Number[b \ {w - 1}] \in Nat /\ Number[b \ {w - 1}] < Weight(w - 1)
        /\ Weight(w - 1) \in Nat
  BY <1>1, <1>2, NumberBound, WeightType
<1>4. b \in Words(MaxWidth)
  BY <1>1, NumberBound
<1>5. CASE w - 1 \in b
  <2>1. Number[b] = Number[b \ {w - 1}] + Weight(w - 1)
    BY <1>4, <1>5, NumberOfTop
  <2>2. QED
    BY <1>3, <1>5, <2>1 DEF Value, MinSigned, MaxSigned
<1>6. CASE w - 1 \notin b
  <2>1. b \ {w - 1} = b
    BY <1>6
  <2>2. QED
    BY <1>3, <1>6, <2>1 DEF Value, MinSigned, MaxSigned
<1>7. QED
  BY <1>5, <1>6

\* Sign extension keeps the number.
LEMMA ValueOfExtended ==
  ASSUME NEW w \in Widths, NEW b \in Words(w), NEW n \in w .. MaxWidth
  PROVE  /\ SignExtended(w, b, n) \in Words(n)
         /\ Value(n, TRUE, SignExtended(w, b, n)) = Value(w, TRUE, b)
<1>1. w \in Nat /\ w >= 1 /\ MaxWidth \in Nat /\ w - 1 \in Nat
  BY WidthFacts
<1>2. b \subseteq 0 .. w - 1
  BY DEF Words, Positions
<1>3. \A m \in w .. MaxWidth : SignExtended(w, b, m) \in Words(m)
  BY <1>1, <1>2 DEF SignExtended, Words, Positions
<1>4. CASE w - 1 \notin b
  <2>1. n - 1 \notin b
    BY <1>1, <1>2, <1>4
  <2>2. QED
    BY <1>3, <1>4, <2>1 DEF SignExtended, Value
<1>5. CASE w - 1 \in b
  <2> DEFINE Same(m) == Value(w + m, TRUE, SignExtended(w, b, w + m)) = Value(w, TRUE, b)
             S == {m \in Nat : w + m <= MaxWidth => Same(m)}
  <2>1. 0 \in S
    <3>1. w + 0 = w /\ SignExtended(w, b, w) = b
      BY <1>1 DEF SignExtended
    <3>2. Same(0)
      BY <3>1
    <3> HIDE DEF Same
    <3>3. QED
      BY <3>2
  <2>2. ASSUME NEW m \in Nat, m \in S
        PROVE  m + 1 \in S
    <3> HIDE DEF Same
    <3>1. SUFFICES ASSUME w + (m + 1) <= MaxWidth
                   PROVE  Same(m + 1)
      OBVIOUS
    <3>2. PICK v \in Nat : v = w + m /\ v + 1 = w + (m + 1)
      BY <1>1
    <3>3. PICK c, d : c = SignExtended(w, b, v) /\ d = SignExtended(w, b, v + 1)
      OBVIOUS
    <3>4. /\ v \in w .. MaxWidth /\ v + 1 \in w .. MaxWidth
          /\ v \in Positions(MaxWidth) /\ v - 1 \in Positions(MaxWidth)
      BY <1>1, <3>1, <3>2 DEF Positions
    <3>5. c \in Words(MaxWidth) /\ d \in Words(MaxWidth)
      BY <1>1, <1>3, <3>3, <3>4, WordsGrow
    <3>6. v \in d /\ d \ {v} = c /\ v - 1 \in c
      BY <1>1, <1>2, <1>5, <3>3, <3>4 DEF SignExtended
    <3>7. Number[d] = Number[c] + Weight(v)
      BY <3>5, <3>6, NumberOfTop
    <3>8. Weight(v) = 2 * Weight(v - 1)
      <4>1. v # 0
        BY <1>1, <3>2
      <4>2. QED
        BY <3>4, <4>1, NumberAssumption
    <3>9. Weight(v - 1) \in Nat /\ Number[c] \in Nat /\ (v + 1) - 1 = v
      BY <3>4, <3>5, WeightType, NumberAssumption
    <3>10. Same(m)
      BY <2>2, <3>2, <3>4
    <3>11. Value(v, TRUE, c) = Value(w, TRUE, b)
      BY <3>2, <3>3, <3>10 DEF Same
    <3>12. Value(v + 1, TRUE, d) = Value(v, TRUE, c)
      BY <3>6, <3>7, <3>8, <3>9 DEF Value
    <3>13. QED
      BY <3>2, <3>3, <3>11, <3>12 DEF Same
  <2>3. Nat \subseteq S
    <3> HIDE DEF S
    <3>1. QED
      BY <2>1, <2>2, SetInduction
  <2>4. n - w \in Nat /\ w + (n - w) = n /\ n <= MaxWidth
    BY <1>1
  <2>5. Same(n - w)
    <3> HIDE DEF Same
    <3>1. QED
      BY <2>3, <2>4
  <2>6. QED
    BY <1>3, <2>4, <2>5
<1>6. QED
  BY <1>4, <1>5


-----------------------------------------------------------------------------
(* How a BitVec is stored *)

\* A word of a container whose bits above w copy the sign, or are zero.
Extended(w, s, d) ==
    /\ d \in Words(Container(w))
    /\ \A i \in w .. Container(w) - 1 : i \in d <=> s /\ w - 1 \in d

\* The bits of a wide bit-vector.
InBytes(w, data) ==
    /\ data \in Seq(Words(ByteBits)) /\ Len(data) = NumBytes(w)
    /\ Assemble(data) \in Words(w)

\* The two forms in which a BitVec is stored.
LEMMA StoredForms ==
  ASSUME NEW w \in Widths, NEW s \in BOOLEAN
  PROVE  /\ Narrow(w) => \A d : StoredWell(Stored(w, s, <<d>>)) <=> Extended(w, s, d)
         /\ ~Narrow(w) => \A data \in Seq(Words(MaxWidth)) :
                             StoredWell(Stored(w, s, data)) <=> InBytes(w, data)
<1>1. /\ \A data : /\ Stored(w, s, data).w = w /\ Stored(w, s, data).s = s
                   /\ Stored(w, s, data).data = data
  BY DEF Stored, Thing
<1>2. ASSUME Narrow(w), NEW d
      PROVE  StoredWell(Stored(w, s, <<d>>)) <=> Extended(w, s, d)
  <2>1. Len(<<d>>) = 1 /\ <<d>>[1] = d
    OBVIOUS
  <2>2. QED
    BY <1>1, <1>2, <2>1 DEF StoredWell, Extended
<1>3. ASSUME ~Narrow(w), NEW data \in Seq(Words(MaxWidth))
      PROVE  StoredWell(Stored(w, s, data)) <=> InBytes(w, data)
  <2>1. (\A i \in 1 .. Len(data) : data[i] \in Words(ByteBits)) <=>
           data \in Seq(Words(ByteBits))
    OBVIOUS
  <2>2. QED
    BY <1>1, <1>3, <2>1 DEF StoredWell, InBytes
<1>4. QED
  BY <1>2, <1>3

\* Truncation gives the one extended word with the given low bits.
LEMMA TruncatedIsExtended ==
  ASSUME NEW w \in Widths, Narrow(w), NEW s \in BOOLEAN, NEW b
  PROVE  /\ Extended(w, s, Truncated(w, s, b))
         /\ \A d : Extended(w, s, d) /\ b \cap Positions(w) = d \cap Positions(w) =>
                      Truncated(w, s, b) = d
<1>1. PICK c \in Nat : c = Container(w) /\ w \in Nat /\ 1 <= w /\ w <= c
  BY ContainerType, WidthFacts
<1>2. Positions(w) = 0 .. w - 1 /\ Positions(c) = 0 .. c - 1
  BY DEF Positions
<1>3. CASE s
  <2>1. PICK e : e = b \cap (0 .. w - 1)
    OBVIOUS
  <2>2. Truncated(w, s, b) = IF w - 1 \in e THEN e \cup (w .. c - 1) ELSE e
    BY <1>1, <1>2, <1>3, <2>1 DEF Truncated, SignExtended
  <2>3. Extended(w, s, Truncated(w, s, b))
    <3>1. PICK x : x = Truncated(w, s, b)
      OBVIOUS
    <3>2. x \subseteq 0 .. c - 1 /\ (w - 1 \in x <=> w - 1 \in e)
      BY <1>1, <2>1, <2>2, <3>1
    <3>3. \A i \in w .. c - 1 : i \in x <=> w - 1 \in e
      BY <1>1, <2>1, <2>2, <3>1
    <3>4. QED
      BY <1>1, <1>2, <1>3, <3>1, <3>2, <3>3 DEF Extended, Words
  <2>4. ASSUME NEW d, Extended(w, s, d), e = d \cap (0 .. w - 1)
        PROVE  Truncated(w, s, b) = d
    <3>1. d \subseteq 0 .. c - 1 /\ \A i \in w .. c - 1 : i \in d <=> w - 1 \in d
      BY <1>1, <1>2, <1>3, <2>4 DEF Extended, Words
    <3>2. w - 1 \in e <=> w - 1 \in d
      BY <1>1, <2>4
    <3>3. \A i \in 0 .. c - 1 : i \in 0 .. w - 1 \/ i \in w .. c - 1
      BY <1>1
    <3>4. \A i \in 0 .. c - 1 : i \in d <=>
             IF w - 1 \in e THEN i \in e \/ i \in w .. c - 1 ELSE i \in e
      BY <1>1, <2>4, <3>1, <3>2, <3>3
    <3>5. e \subseteq 0 .. c - 1 /\ w .. c - 1 \subseteq 0 .. c - 1
      BY <1>1, <2>1
    <3>6. QED
      BY <2>2, <3>1, <3>4, <3>5
  <2>5. QED
    BY <1>2, <2>1, <2>3, <2>4
<1>4. CASE ~s
  <2>1. Truncated(w, s, b) = b \cap (0 .. w - 1)
    BY <1>2, <1>4 DEF Truncated
  <2>2. Extended(w, s, Truncated(w, s, b))
    BY <1>1, <1>2, <1>4, <2>1 DEF Extended, Words
  <2>3. ASSUME NEW d, Extended(w, s, d), b \cap (0 .. w - 1) = d \cap (0 .. w - 1)
        PROVE  Truncated(w, s, b) = d
    <3>1. d \subseteq 0 .. c - 1 /\ \A i \in w .. c - 1 : i \notin d
      BY <1>1, <1>2, <1>4, <2>3 DEF Extended, Words
    <3>2. d \subseteq 0 .. w - 1
      BY <1>1, <3>1
    <3>3. QED
      BY <2>1, <2>3, <3>2
  <2>4. QED
    BY <1>2, <2>2, <2>3
<1>5. QED
  BY <1>3, <1>4

\* What the constructor from a uint64_t makes is stored well.
LEMMA MadeStored ==
  ASSUME NEW w \in Widths, NEW s \in BOOLEAN, NEW b \in Words(Longest)
  PROVE  \E data \in Seq(Words(MaxWidth)) :
            Made(w, s, b) = Stored(w, s, data) /\ StoredWell(Stored(w, s, data))
<1>1. CASE Narrow(w)
  <2>1. PICK d : d = Truncated(w, s, b) /\ Extended(w, s, d)
    BY <1>1, TruncatedIsExtended
  <2>2. StoredWell(Stored(w, s, <<d>>))
    BY <1>1, <2>1, StoredForms
  <2>3. d \in Words(MaxWidth)
    BY <1>1, <2>1, ContainerType, WidthFacts, WordsGrow DEF Extended
  <2>4. PICK data \in Seq(Words(MaxWidth)) : data = <<d>>
    <3>1. <<d>> \in Seq(Words(MaxWidth))
      BY <2>3, SingleWord
    <3>2. QED
      BY <3>1
  <2>5. QED
    BY <1>1, <2>1, <2>2, <2>4 DEF Made
<1>2. CASE ~Narrow(w)
  <2>1. b \in Words(w) /\ b \in SUBSET Int
    <3>1. Longest \in Int /\ w \in Int /\ Longest <= w
      BY <1>2, WidthFacts DEF Narrow
    <3>2. QED
      BY <3>1, WordsGrow DEF Words, Positions
  <2>2. PICK data : data = Split(b, NumBytes(w))
    OBVIOUS
  <2>3. data \in Seq(Words(ByteBits)) /\ Len(data) = NumBytes(w)
    BY <2>1, <2>2, LastByte, SplitMember
  <2>4. Assemble(data) = b
    BY <2>1, <2>2, AssembleOfSplit
  <2>5. data \in Seq(Words(MaxWidth))
    <3>1. Words(ByteBits) \subseteq Words(MaxWidth)
      BY WidthFacts, WordsGrow
    <3>2. QED
      BY <2>3, <3>1
  <2>6. StoredWell(Stored(w, s, data))
    BY <1>2, <2>1, <2>3, <2>4, <2>5, StoredForms DEF InBytes
  <2>7. QED
    BY <1>2, <2>2, <2>5, <2>6 DEF Made
<1>3. QED
  BY <1>1, <1>2


-----------------------------------------------------------------------------
(* Into and out of a BitVec *)

\* Bytes of any number make a BitVec that is stored well.
LEMMA FromBytesStored ==
  ASSUME NEW w \in Widths, NEW s \in BOOLEAN, NEW bytes \in Seq(Words(ByteBits))
  PROVE  \E data \in Seq(Words(MaxWidth)) :
            /\ TryFromLeBytes(w, s, bytes).vec = Stored(w, s, data)
            /\ StoredWell(Stored(w, s, data))
<1> DEFINE n     == NumBytes(w)
           raw   == [i \in 1 .. n |-> IF i <= Len(bytes) THEN bytes[i] ELSE {}]
           clear == [raw EXCEPT ![n] = @ \cap Positions(UsedBits(w))]
<1>1. n \in Nat \ {0}
  BY LastByte
<1>2. /\ clear \in Seq(Words(ByteBits)) /\ Len(clear) = n
      /\ clear[n] \subseteq Positions(UsedBits(w))
  <2>1. raw \in Seq(Words(ByteBits)) /\ Len(raw) = n
    BY <1>1 DEF Words
  <2>2. raw[n] \cap Positions(UsedBits(w)) \in Words(ByteBits)
    BY <1>1, <2>1 DEF Words
  <2> HIDE DEF raw
  <2>3. QED
    BY <1>1, <2>1, <2>2
<1>3. Assemble(clear) \in Words(w)
  BY <1>2, WordOfBytes
<1>4. TryFromLeBytes(w, s, bytes).vec =
        IF Narrow(w) THEN Made(w, s, Assemble(clear)) ELSE Stored(w, s, clear)
  BY DEF TryFromLeBytes, UsedBits
<1> HIDE DEF clear
<1>5. CASE Narrow(w)
  <2>1. Assemble(clear) \in Words(Longest)
    BY <1>3, <1>5, WidthFacts, WordsGrow DEF Narrow
  <2>2. QED
    BY <1>4, <1>5, <2>1, MadeStored
<1>6. CASE ~Narrow(w)
  <2>1. Words(ByteBits) \subseteq Words(MaxWidth)
    BY WidthFacts, WordsGrow
  <2>2. clear \in Seq(Words(MaxWidth))
    BY <1>2, <2>1
  <2>3. StoredWell(Stored(w, s, clear))
    BY <1>2, <1>3, <1>6, <2>2, StoredForms DEF InBytes
  <2>4. QED
    BY <1>4, <1>6, <2>2, <2>3
<1>7. QED
  BY <1>5, <1>6

\* As many bytes as the width needs, without a bit above it, are kept as they are.
LEMMA FromOwnBytes ==
  ASSUME NEW w \in Widths, NEW s \in BOOLEAN, NEW bytes, InBytes(w, bytes)
  PROVE  TryFromLeBytes(w, s, bytes) =
           [vec |-> IF Narrow(w) THEN Made(w, s, Assemble(bytes)) ELSE Stored(w, s, bytes),
            truncated |-> FALSE]
<1> DEFINE n     == NumBytes(w)
           raw   == [i \in 1 .. n |-> IF i <= Len(bytes) THEN bytes[i] ELSE {}]
           clear == [raw EXCEPT ![n] = @ \cap Positions(UsedBits(w))]
<1>1. n \in Nat \ {0}
  BY LastByte
<1>2. bytes \in Seq(Words(ByteBits)) /\ Len(bytes) = n
        /\ bytes[n] \subseteq Positions(UsedBits(w))
  BY WordOfBytes DEF InBytes
<1>3. raw = bytes
  BY <1>1, <1>2
<1>4. clear = bytes
  <2>1. bytes[n] \cap Positions(UsedBits(w)) = bytes[n]
    BY <1>2
  <2> HIDE DEF raw
  <2>2. QED
    BY <1>1, <1>2, <1>3, <2>1
<1>5. ~\E i \in n + 1 .. Len(bytes) : bytes[i] # {}
  BY <1>1, <1>2
<1>6. TryFromLeBytes(w, s, bytes) =
        [vec |-> IF Narrow(w) THEN Made(w, s, Assemble(clear)) ELSE Stored(w, s, clear),
         truncated |-> \/ \E i \in n + 1 .. Len(bytes) : bytes[i] # {}
                       \/ raw[n] # clear[n]]
  BY DEF TryFromLeBytes, UsedBits
<1> HIDE DEF raw, clear
<1>7. QED
  BY <1>3, <1>4, <1>5, <1>6

\* Making a bit-vector of the low bits of an extended word gives that word.
LEMMA MadeAgain ==
  ASSUME NEW w \in Widths, Narrow(w), NEW s \in BOOLEAN, NEW d, Extended(w, s, d),
         NEW b, b \cap Positions(w) = d \cap Positions(w)
  PROVE  Made(w, s, b) = Stored(w, s, <<d>>)
<1>1. Truncated(w, s, b) = d
  BY TruncatedIsExtended
<1>2. QED
  BY <1>1 DEF Made

\* The bytes that a BitVec is written out to.
LEMMA OwnBytes ==
  ASSUME NEW w \in Widths, NEW s \in BOOLEAN, NEW data \in Seq(Words(MaxWidth)),
         StoredWell(Stored(w, s, data))
  PROVE  /\ InBytes(w, ToLeBytes(Stored(w, s, data)))
         /\ Narrow(w) => /\ Extended(w, s, data[1]) /\ data = <<data[1]>>
                         /\ Assemble(ToLeBytes(Stored(w, s, data))) =
                              data[1] \cap Positions(w)
         /\ ~Narrow(w) => ToLeBytes(Stored(w, s, data)) = data
<1>1. /\ Stored(w, s, data).w = w /\ Stored(w, s, data).s = s
      /\ Stored(w, s, data).data = data
  BY DEF Stored, Thing
<1>2. CASE Narrow(w)
  <2>1. data = <<data[1]>>
    <3>1. Len(data) = 1
      BY <1>1, <1>2 DEF StoredWell
    <3>2. QED
      BY <3>1
  <2>2. PICK d : d = data[1] /\ data = <<d>>
    BY <2>1
  <2>3. Extended(w, s, d)
    BY <1>2, <2>2, StoredForms
  <2>4. PICK b \in Words(w) : b = d \cap Positions(w)
    BY DEF Words
  <2>5. b \in SUBSET Int
    BY WidthFacts DEF Words, Positions
  <2>6. /\ Split(b, NumBytes(w)) \in Seq(Words(ByteBits))
        /\ Len(Split(b, NumBytes(w))) = NumBytes(w)
        /\ Assemble(Split(b, NumBytes(w))) = b
    BY <2>5, LastByte, SplitMember, AssembleOfSplit
  <2>7. ToLeBytes(Stored(w, s, data)) = Split(b, NumBytes(w))
    BY <1>1, <1>2, <2>2, <2>4 DEF ToLeBytes
  <2>8. QED
    BY <1>2, <2>1, <2>2, <2>3, <2>4, <2>6, <2>7 DEF InBytes
<1>3. CASE ~Narrow(w)
  <2>1. InBytes(w, data)
    BY <1>3, StoredForms
  <2>2. QED
    BY <1>1, <1>3, <2>1 DEF ToLeBytes
<1>4. QED
  BY <1>2, <1>3


\* Reading the bytes back.
LEMMA BytesRoundTrip ==
  ASSUME NEW w \in Widths, NEW s \in BOOLEAN, NEW data \in Seq(Words(MaxWidth)),
         StoredWell(Stored(w, s, data))
  PROVE  /\ TryFromLeBytes(w, s, ToLeBytes(Stored(w, s, data))) =
              [vec |-> Stored(w, s, data), truncated |-> FALSE]
         /\ TryFromBeBytes(w, s, ToBeBytes(Stored(w, s, data))) =
              [vec |-> Stored(w, s, data), truncated |-> FALSE]
<1>1. PICK bytes : bytes = ToLeBytes(Stored(w, s, data))
  OBVIOUS
<1>2. InBytes(w, bytes)
  BY <1>1, OwnBytes
<1>3. (IF Narrow(w) THEN Made(w, s, Assemble(bytes)) ELSE Stored(w, s, bytes))
        = Stored(w, s, data)
  <2>1. CASE Narrow(w)
    <3>1. PICK d : Extended(w, s, d) /\ data = <<d>> /\ Assemble(bytes) = d \cap Positions(w)
      BY <1>1, <2>1, OwnBytes
    <3>2. Assemble(bytes) \cap Positions(w) = d \cap Positions(w)
      BY <3>1
    <3>3. QED
      BY <2>1, <3>1, <3>2, MadeAgain
  <2>2. CASE ~Narrow(w)
    BY <1>1, <2>2, OwnBytes
  <2>3. QED
    BY <2>1, <2>2
<1>4. TryFromLeBytes(w, s, bytes) = [vec |-> Stored(w, s, data), truncated |-> FALSE]
  BY <1>2, <1>3, FromOwnBytes
<1>5. Reverse(Reverse(bytes)) = bytes
  <2>1. bytes \in Seq(Words(ByteBits))
    BY <1>2 DEF InBytes
  <2>2. QED
    BY <2>1 DEF Reverse
<1>6. QED
  BY <1>1, <1>4, <1>5 DEF TryFromBeBytes, ToBeBytes

\* Reading the integer back.
LEMMA IntegerRoundTrip ==
  ASSUME NEW w \in Widths, Narrow(w), NEW s \in BOOLEAN, NEW d, Extended(w, s, d)
  PROVE  TryFrom(w, s, NativeValue(Stored(w, s, <<d>>))) =
           [vec |-> Stored(w, s, <<d>>), truncated |-> FALSE]
<1>1. PICK c \in NativeWidths : /\ c = Container(w) /\ c \in Nat
                                /\ w \in Nat /\ 1 <= w /\ w <= c /\ c <= Longest
  BY ContainerType, WidthFacts
<1>2. PICK raw : /\ raw = NativeValue(Stored(w, s, <<d>>))
                 /\ raw.w = c /\ raw.s = s /\ raw.data[1] = d
  <2>1. NativeValue(Stored(w, s, <<d>>)) = [kind |-> "int", w |-> c, s |-> s, data |-> <<d>>]
    BY <1>1 DEF NativeValue, Native, Stored, Thing
  <2>2. QED
    BY <2>1
<1>3. d \subseteq 0 .. c - 1 /\ (\A i \in w .. c - 1 : i \in d <=> s /\ w - 1 \in d)
        /\ d \in Words(c) /\ Positions(w) = 0 .. w - 1
  BY <1>1 DEF Extended, Words, Positions
<1>4. PICK bits : bits = Uint64(raw) /\ bits = IF s THEN SignExtended(c, d, Longest) ELSE d
  BY <1>2 DEF Uint64
<1>5. Longest \in Nat /\ Longest <= MaxWidth /\ MaxWidth \in Nat
  BY WidthFacts
<1>6. bits \cap Positions(w) = d \cap Positions(w)
  BY <1>1, <1>3, <1>4, <1>5 DEF SignExtended
<1>7. Made(w, s, bits) = Stored(w, s, <<d>>)
  BY <1>6, MadeAgain
<1>8. CASE s
  <2>1. PICK e \in Words(w) : e = d \cap (0 .. w - 1)
    BY <1>3 DEF Words
  <2>2. d = SignExtended(w, e, c)
    <3>1. \A i \in 0 .. c - 1 : i \in 0 .. w - 1 \/ i \in w .. c - 1
      BY <1>1
    <3>2. w .. c - 1 \subseteq 0 .. c - 1 /\ w - 1 \in 0 .. w - 1
      BY <1>1
    <3>3. w - 1 \in e <=> w - 1 \in d
      BY <2>1, <3>2
    <3>4. CASE w - 1 \in e
      BY <1>3, <1>8, <2>1, <3>1, <3>2, <3>3, <3>4 DEF SignExtended
    <3>5. CASE w - 1 \notin e
      BY <1>3, <1>8, <2>1, <3>1, <3>2, <3>3, <3>5 DEF SignExtended
    <3>6. QED
      BY <3>4, <3>5
  <2>3. c \in w .. MaxWidth /\ c \in Widths /\ Longest \in c .. MaxWidth
    BY <1>1, <1>5 DEF Widths
  <2>4. Value(c, TRUE, d) = Value(w, TRUE, e)
    BY <2>2, <2>3, ValueOfExtended
  <2>5. Value(Longest, TRUE, bits) = Value(c, TRUE, d)
    BY <1>3, <1>4, <1>8, <2>3, ValueOfExtended
  <2>6. ~(Value(Longest, TRUE, bits) < MinSigned(w) \/ Value(Longest, TRUE, bits) > MaxSigned(w))
    <3>1. MinSigned(w) \in Int /\ MaxSigned(w) \in Int
      <4>1. w - 1 \in Positions(MaxWidth)
        BY <1>1, <1>5 DEF Positions
      <4>2. QED
        BY <4>1, WeightType DEF MinSigned, MaxSigned
    <3>2. PICK v \in Int : v = Value(w, TRUE, e) /\ MinSigned(w) <= v /\ v <= MaxSigned(w)
      BY ValueBound
    <3>3. PICK lo \in Int, hi \in Int : lo = MinSigned(w) /\ hi = MaxSigned(w)
      BY <3>1
    <3>4. Value(Longest, TRUE, bits) = v /\ lo <= v /\ v <= hi
      BY <2>4, <2>5, <3>2, <3>3
    <3>5. ~(v < lo \/ v > hi)
      BY <3>4
    <3>6. QED
      BY <3>3, <3>4, <3>5
  <2>7. QED
    BY <1>2, <1>4, <1>7, <1>8, <2>6 DEF TryFrom
<1>9. CASE ~s
  <2>1. bits = d /\ Made(w, s, bits).data[1] = d
    BY <1>4, <1>7, <1>9 DEF Stored, Thing
  <2>2. QED
    BY <1>2, <1>4, <1>7, <1>9, <2>1 DEF TryFrom
<1>10. QED
  BY <1>8, <1>9

\* What to_concrete makes of a term: the bits of a narrow one, the bytes of a wide one.
LEMMA ConcreteOfTerm ==
  ASSUME NEW w \in Widths, NEW s \in BOOLEAN, NEW b \in Words(w)
  PROVE  /\ Narrow(w) => ToConcrete(Sym(w, s, b)) = Made(w, s, b)
         /\ ~Narrow(w) => ToConcrete(Sym(w, s, b)) =
                             TryFromLeBytes(w, s, Split(b, NumBytes(w))).vec
<1>1. PICK t : t = Sym(w, s, b) /\ t.w = w /\ t.s = s /\ t.data[1] = b
  <2>1. PICK t : t = [kind |-> "sym", w |-> w, s |-> s, data |-> <<b>>]
    OBVIOUS
  <2>2. t = Sym(w, s, b)
    BY <2>1 DEF Sym, Thing
  <2>3. t.w = w /\ t.s = s /\ t.data[1] = b
    BY <2>1
  <2>4. QED
    BY <2>2, <2>3
<1>2. CASE Narrow(w)
  <2>1. PICK raw : raw = Native(Longest, FALSE, b) /\ raw.s = FALSE /\ raw.data[1] = b
    <3>1. PICK raw : raw = [kind |-> "int", w |-> Longest, s |-> FALSE, data |-> <<b>>]
      OBVIOUS
    <3>2. raw = Native(Longest, FALSE, b)
      BY <3>1 DEF Native, Thing
    <3>3. raw.s = FALSE /\ raw.data[1] = b
      BY <3>1
    <3>4. QED
      BY <3>2, <3>3
  <2>2. Uint64(raw) = b
    BY <2>1 DEF Uint64
  <2>3. TryFrom(w, s, raw).vec = Made(w, s, b)
    BY <2>2 DEF TryFrom
  <2>4. QED
    BY <1>1, <1>2, <2>1, <2>3 DEF ToConcrete
<1>3. CASE ~Narrow(w)
  <2>1. PICK n \in Nat \ {0} : n = NumBytes(w)
    BY LastByte
  <2>2. [i \in 1 .. n |-> Slice(b, Min({i * ByteBits - 1, w - 1}), (i - 1) * ByteBits)]
          = Split(b, n)
    <3>1. ASSUME NEW i \in 1 .. n
          PROVE  Slice(b, Min({i * ByteBits - 1, w - 1}), (i - 1) * ByteBits)
                   = Slice(b, i * ByteBits - 1, (i - 1) * ByteBits)
      <4>1. PICK lo \in Nat, hi \in Nat :
              lo = (i - 1) * ByteBits /\ hi = i * ByteBits - 1
        <5>1. PICK B \in Nat \ {0}, j \in Nat : B = ByteBits /\ i = j + 1 /\ i - 1 = j
          <6>1. i - 1 \in Nat /\ i = (i - 1) + 1
            OBVIOUS
          <6>2. QED
            BY <6>1, WidthFacts
        <5>2. (j + 1) * B = j * B + B /\ j * B \in Nat
          OBVIOUS
        <5>3. QED
          BY <5>1, <5>2
      <4>2. PICK top \in Nat : top = w - 1 /\ \A k \in b : k \in Nat /\ k <= top
        BY WidthFacts DEF Words, Positions
      <4>3. PICK m : /\ m = Min({hi, top}) /\ m \in {hi, top}
                     /\ m <= hi /\ m <= top
        <5>1. {hi, top} \in SUBSET Nat /\ {hi, top} # {}
          OBVIOUS
        <5>2. QED
          BY <5>1, MinOfSet
      <4>4. b \cap (lo .. m) = b \cap (lo .. hi)
        BY <4>2, <4>3
      <4>5. QED
        BY <4>1, <4>2, <4>3, <4>4 DEF Slice
    <3>2. QED
      BY <3>1 DEF Split
  <2>3. ToConcrete(t) =
          TryFromLeBytes(w, s,
             [i \in 1 .. n |-> Slice(b, Min({i * ByteBits - 1, w - 1}),
                                        (i - 1) * ByteBits)]).vec
    BY <1>1, <1>3, <2>1 DEF ToConcrete
  <2>4. QED
    BY <1>1, <1>3, <2>1, <2>2, <2>3
<1>4. QED
  BY <1>2, <1>3

\* Through the solver.
LEMMA SolverRoundTrip ==
  ASSUME NEW w \in Widths, NEW s \in BOOLEAN, NEW data \in Seq(Words(MaxWidth)),
         StoredWell(Stored(w, s, data))
  PROVE  /\ \E b \in Words(w) : ToSymbolic(Stored(w, s, data)) = Sym(w, s, b)
         /\ ToConcrete(ToSymbolic(Stored(w, s, data))) = Stored(w, s, data)
<1>1. /\ Stored(w, s, data).w = w /\ Stored(w, s, data).s = s
      /\ Stored(w, s, data).data = data
      /\ \A b : /\ Sym(w, s, b).w = w /\ Sym(w, s, b).s = s
                /\ Sym(w, s, b).data[1] = b
  BY DEF Stored, Sym, Thing
<1>2. CASE Narrow(w)
  <2>1. PICK d : Extended(w, s, d) /\ data = <<d>>
    BY <1>2, OwnBytes
  <2>2. PICK b \in Words(w) : b = d \cap Positions(w)
    BY DEF Words
  <2>3. ToSymbolic(Stored(w, s, data)) = Sym(w, s, b)
    BY <1>1, <1>2, <2>1, <2>2 DEF ToSymbolic
  <2>4. ToConcrete(Sym(w, s, b)) = Made(w, s, b)
    BY <1>2, ConcreteOfTerm
  <2>5. Made(w, s, b) = Stored(w, s, <<d>>)
    <3>1. b \cap Positions(w) = d \cap Positions(w)
      BY <2>2
    <3>2. QED
      BY <1>2, <2>1, <3>1, MadeAgain
  <2>6. QED
    BY <2>1, <2>3, <2>4, <2>5
<1>3. CASE ~Narrow(w)
  <2>1. InBytes(w, data) /\ ToLeBytes(Stored(w, s, data)) = data
    BY <1>3, OwnBytes
  <2>2. PICK n \in Nat \ {0} : n = NumBytes(w)
    BY LastByte
  <2>3. data[n] \cap Positions(UsedBits(w)) = data[n]
    BY <2>1, <2>2, WordOfBytes DEF InBytes
  <2>4. [data EXCEPT ![n] = @ \cap Positions(UsedBits(w))] = data
    BY <2>1, <2>2, <2>3 DEF InBytes
  <2>5. PICK b \in Words(w) : b = Assemble(data)
    BY <2>1 DEF InBytes
  <2>6. ToSymbolic(Stored(w, s, data)) = Sym(w, s, b)
    BY <1>1, <1>3, <2>1, <2>2, <2>4, <2>5 DEF ToSymbolic, UsedBits
  <2>7. Split(b, n) = data
    BY <2>1, <2>2, <2>5, SplitOfAssemble DEF InBytes
  <2>8. ToConcrete(Sym(w, s, b)) = TryFromLeBytes(w, s, data).vec
    BY <1>3, <2>2, <2>7, ConcreteOfTerm
  <2>9. TryFromLeBytes(w, s, data).vec = Stored(w, s, data)
    BY <1>3, <2>1, FromOwnBytes
  <2>10. QED
    BY <2>6, <2>8, <2>9
<1>4. QED
  BY <1>2, <1>3


-----------------------------------------------------------------------------
(* What a program can hold *)

IsInt(t) ==
    \E w \in NativeWidths, s \in BOOLEAN : \E b \in Words(w) : t = Native(w, s, b)

IsBytes(t) ==
    /\ t = Bytes(t.data) /\ t.data \in Seq(Words(ByteBits))
    /\ Len(t.data) * ByteBits <= MaxWidth

IsTruth(kind, t) == \E flag \in BOOLEAN : t = Truth(kind, flag)

IsSym(t) == \E ty \in VecTypes : \E b \in Words(ty.w) : t = Sym(ty.w, ty.s, b)

\* An expression of sort BitVec, or of sort Bool.
IsExpr(t) ==
    \/ \E ty \in VecTypes : \E b \in Words(ty.w) : t = Thing("expr", ty.w, FALSE, <<b>>)
    \/ IsTruth("expr", t)

IsVec(t) ==
    \E ty \in VecTypes :
        /\ t = Stored(ty.w, ty.s, t.data)
        /\ t.data \in Seq(Words(MaxWidth))
        /\ StoredWell(t)

Holdable(t) ==
    \/ IsInt(t) \/ IsBytes(t) \/ IsTruth("bool", t) \/ IsTruth("symbool", t)
    \/ IsSym(t) \/ IsExpr(t) \/ IsVec(t)

(***************************************************************************)
(* The inductive invariant: whatever the program holds is of one of its    *)
(* C++ types, and made of words that the type has room for.                *)
(***************************************************************************)
ConversionsInv == Holdable(item)

\* The types in use.
LEMMA VecTypeParts ==
  ASSUME NEW ty \in VecTypes
  PROVE  ty.w \in Widths /\ ty.w \in Nat \ {0} /\ ty.s \in BOOLEAN
BY ConversionsAssumption, WidthFacts

\* A thing is of the form that its kind says.
LEMMA FormOfKind ==
  ASSUME NEW t, Holdable(t)
  PROVE  /\ t.kind = "int" <=> IsInt(t)
         /\ t.kind = "bytes" <=> IsBytes(t)
         /\ t.kind = "bool" <=> IsTruth("bool", t)
         /\ t.kind = "symbool" <=> IsTruth("symbool", t)
         /\ t.kind = "sym" <=> IsSym(t)
         /\ t.kind = "expr" <=> IsExpr(t)
         /\ t.kind = "vec" <=> IsVec(t)
<1>1. \A k, w, s, d : Thing(k, w, s, d).kind = k
  BY DEF Thing
<1>2. IsInt(t) => t.kind = "int"
  BY <1>1 DEF IsInt, Native
<1>3. ASSUME IsBytes(t) PROVE t.kind = "bytes"
  <2>1. PICK d : t = Thing("bytes", 0, FALSE, d)
    BY <1>3 DEF IsBytes, Bytes
  <2>2. QED
    BY <1>1, <2>1
<1>4. ASSUME NEW k, IsTruth(k, t) PROVE t.kind = k
  <2>1. PICK d : t = Thing(k, 0, FALSE, d)
    BY <1>4 DEF IsTruth, Truth
  <2>2. QED
    BY <1>1, <2>1
<1>5. IsSym(t) => t.kind = "sym"
  BY <1>1 DEF IsSym, Sym
<1>6. ASSUME IsExpr(t) PROVE t.kind = "expr"
  <2>1. CASE IsTruth("expr", t)
    BY <1>4, <2>1
  <2>2. CASE ~IsTruth("expr", t)
    <3>1. PICK w, d : t = Thing("expr", w, FALSE, d)
      BY <1>6, <2>2 DEF IsExpr
    <3>2. QED
      BY <1>1, <3>1
  <2>3. QED
    BY <2>1, <2>2
<1>7. IsVec(t) => t.kind = "vec"
  BY <1>1 DEF IsVec, Stored
<1>8. QED
  BY <1>2, <1>3, <1>4, <1>5, <1>6, <1>7 DEF Holdable

\* A BitVec that is stored well can be held.
LEMMA StoredIsVec ==
  ASSUME NEW ty \in VecTypes, NEW data \in Seq(Words(MaxWidth)),
         StoredWell(Stored(ty.w, ty.s, data))
  PROVE  Holdable(Stored(ty.w, ty.s, data))
<1>1. PICK t : t = Stored(ty.w, ty.s, data) /\ t.data = data
  BY DEF Stored, Thing
<1>2. QED
  BY <1>1 DEF IsVec, Holdable

\* Two ways to such a BitVec.
LEMMA MadeIsVec ==
  ASSUME NEW ty \in VecTypes
  PROVE  /\ \A b \in Words(Longest) : Holdable(Made(ty.w, ty.s, b))
         /\ \A bytes \in Seq(Words(ByteBits)) :
               Holdable(TryFromLeBytes(ty.w, ty.s, bytes).vec)
BY VecTypeParts, MadeStored, FromBytesStored, StoredIsVec

\* A term of one of the types in use.
LEMMA TermIsSym ==
  ASSUME NEW ty \in VecTypes, NEW b \in Words(ty.w)
  PROVE  Holdable(Sym(ty.w, ty.s, b))
BY DEF IsSym, Holdable

\* Where values come from.
LEMMA SourcesHold ==
  ASSUME \/ ReadInt \/ ReadBytes \/ ReadBool \/ NewVec \/ NewFlag
         \/ DefaultVec \/ Literal \/ SymbolicLiteral
  PROVE  ConversionsInv'
<1>1. CASE ReadInt
  BY <1>1 DEF ReadInt, Fresh, ConversionsInv, Holdable, IsInt
<1>2. CASE ReadBytes
  <2>1. PICK bytes \in Buffers : item' = Bytes(bytes)
    BY <1>2 DEF ReadBytes, Fresh
  <2>2. /\ bytes \in Seq(Words(ByteBits)) /\ Bytes(bytes).data = bytes
        /\ Len(bytes) * ByteBits <= MaxWidth
    BY ConversionsAssumption DEF Bytes, Thing
  <2>3. QED
    BY <2>1, <2>2 DEF ConversionsInv, Holdable, IsBytes
<1>3. CASE ReadBool \/ NewFlag
  BY <1>3 DEF ReadBool, NewFlag, Fresh, ConversionsInv, Holdable, IsTruth
<1>4. CASE NewVec
  BY <1>4, TermIsSym DEF NewVec, Fresh, ConversionsInv
<1>5. CASE DefaultVec
  <2>1. {} \in Words(Longest)
    BY DEF Words
  <2>2. QED
    BY <1>5, <2>1, MadeIsVec DEF DefaultVec, Fresh, ConversionsInv
<1>6. CASE Literal
  BY <1>6, MadeIsVec DEF Literal, Fresh, ConversionsInv
<1>7. CASE SymbolicLiteral
  <2>1. PICK ty, b : ty \in VecTypes /\ item' = Sym(ty.w, ty.s, b \cap Positions(ty.w))
    BY <1>7 DEF SymbolicLiteral, SymLiteral
  <2>2. b \cap Positions(ty.w) \in Words(ty.w)
    BY DEF Words
  <2>3. QED
    BY <2>1, <2>2, TermIsSym DEF ConversionsInv
<1>8. QED
  BY <1>1, <1>2, <1>3, <1>4, <1>5, <1>6, <1>7

\* What a conversion that reports or aborts leaves.
LEMMA ResultsHold ==
  ASSUME ConversionsInv, NEW op, NEW r, Report(op, r) \/ Require(op, r), Holdable(r.vec)
  PROVE  ConversionsInv'
BY DEF Report, Require, Convert, ConversionsInv

\* Into a BitVec.
LEMMA IntoVecHolds ==
  ASSUME ConversionsInv, FromInt \/ FromLeBytes \/ FromBeBytes
  PROVE  ConversionsInv'
<1>1. CASE FromInt
  <2>1. PICK ty \in VecTypes :
          \/ Report("TryFrom", TryFrom(ty.w, ty.s, item))
          \/ Require("From", TryFrom(ty.w, ty.s, item))
    BY <1>1 DEF FromInt
  <2>2. IsInt(item)
    BY <1>1, FormOfKind DEF FromInt, ConversionsInv
  <2>3. PICK w, s, b : /\ w \in NativeWidths /\ s \in BOOLEAN /\ b \in Words(w)
                       /\ item = Native(w, s, b)
    BY <2>2 DEF IsInt
  <2>4. item.w = w /\ item.s = s /\ item.data[1] = b
    BY <2>3 DEF Native, Thing
  <2>5. w \in Widths /\ w \in Nat /\ Longest \in w .. MaxWidth /\ Longest \in Nat
    BY <2>3, WidthFacts, NativeAssumption
  <2>6. Uint64(item) \in Words(Longest)
    <3>1. SignExtended(w, b, Longest) \in Words(Longest)
      BY <2>3, <2>5, ValueOfExtended
    <3>2. b \in Words(Longest)
      BY <2>3, <2>5, WordsGrow
    <3>3. QED
      BY <2>4, <3>1, <3>2 DEF Uint64
  <2>7. TryFrom(ty.w, ty.s, item).vec = Made(ty.w, ty.s, Uint64(item))
    BY DEF TryFrom
  <2>8. QED
    BY <2>1, <2>6, <2>7, MadeIsVec, ResultsHold
<1>2. CASE FromLeBytes
  <2>1. PICK ty \in VecTypes :
          \/ Report("TryFromLeBytes", TryFromLeBytes(ty.w, ty.s, item.data))
          \/ Require("FromLeBytes", TryFromLeBytes(ty.w, ty.s, item.data))
    BY <1>2 DEF FromLeBytes
  <2>2. item.data \in Seq(Words(ByteBits))
    BY <1>2, FormOfKind DEF FromLeBytes, ConversionsInv, IsBytes
  <2>3. QED
    BY <2>1, <2>2, MadeIsVec, ResultsHold
<1>3. CASE FromBeBytes
  <2>1. PICK ty \in VecTypes :
          \/ Report("TryFromBeBytes", TryFromBeBytes(ty.w, ty.s, item.data))
          \/ Require("FromBeBytes", TryFromBeBytes(ty.w, ty.s, item.data))
    BY <1>3 DEF FromBeBytes
  <2>2. item.data \in Seq(Words(ByteBits))
    BY <1>3, FormOfKind DEF FromBeBytes, ConversionsInv, IsBytes
  <2>3. Reverse(item.data) \in Seq(Words(ByteBits))
    BY <2>2 DEF Reverse
  <2>4. Holdable(TryFromBeBytes(ty.w, ty.s, item.data).vec)
    BY <2>3, MadeIsVec DEF TryFromBeBytes
  <2>5. QED
    BY <2>1, <2>4, ResultsHold
<1>4. QED
  BY <1>1, <1>2, <1>3

\* The BitVec that is held.
LEMMA HeldVec ==
  ASSUME ConversionsInv, item.kind = "vec"
  PROVE  \E ty \in VecTypes, data \in Seq(Words(MaxWidth)) :
            /\ item = Stored(ty.w, ty.s, data) /\ StoredWell(Stored(ty.w, ty.s, data))
            /\ item.w = ty.w /\ item.s = ty.s /\ item.data = data
<1>1. PICK ty \in VecTypes :
        /\ item = Stored(ty.w, ty.s, item.data)
        /\ item.data \in Seq(Words(MaxWidth))
        /\ StoredWell(item)
  BY FormOfKind DEF ConversionsInv, IsVec
<1>2. \A data : Stored(ty.w, ty.s, data).w = ty.w /\ Stored(ty.w, ty.s, data).s = ty.s
  BY DEF Stored, Thing
<1>3. QED
  BY <1>1, <1>2

\* Out of a BitVec, and the comparison of two.
LEMMA OutOfVecHolds ==
  ASSUME ConversionsInv, TakeValue \/ Serialize \/ Compare
  PROVE  ConversionsInv'
<1>1. PICK ty \in VecTypes, data \in Seq(Words(MaxWidth)) :
        /\ item = Stored(ty.w, ty.s, data) /\ StoredWell(Stored(ty.w, ty.s, data))
        /\ item.w = ty.w /\ item.s = ty.s /\ item.data = data
  BY HeldVec DEF TakeValue, Serialize, Compare
<1>2. ty.w \in Widths /\ ty.s \in BOOLEAN
  BY VecTypeParts
<1>3. ToLeBytes(item) \in Seq(Words(ByteBits))
  BY <1>1, <1>2, OwnBytes DEF InBytes
<1>4. CASE TakeValue
  <2>1. Narrow(ty.w) /\ item' = Native(Container(ty.w), ty.s, data[1])
    BY <1>1, <1>4 DEF TakeValue, Convert, NativeValue
  <2>2. data[1] \in Words(Container(ty.w))
    BY <1>1, <1>2, <2>1, OwnBytes DEF Extended
  <2>3. QED
    BY <1>2, <2>1, <2>2, ContainerType DEF ConversionsInv, Holdable, IsInt
<1>5. CASE Serialize
  <2>1. PICK bytes \in Seq(Words(ByteBits)) :
          item' = Bytes(bytes) /\ Len(bytes) * ByteBits <= MaxWidth
    <3>1. /\ Reverse(ToLeBytes(item)) \in Seq(Words(ByteBits))
          /\ Len(Reverse(ToLeBytes(item))) = Len(ToLeBytes(item))
      BY <1>3 DEF Reverse
    <3>2. Len(ToLeBytes(item)) * ByteBits <= MaxWidth
      BY <1>1, <1>2, OwnBytes, BytesFit DEF InBytes
    <3>3. QED
      BY <1>3, <1>5, <3>1, <3>2 DEF Serialize, Convert, ToBeBytes
  <2>2. Bytes(bytes).data = bytes
    BY DEF Bytes, Thing
  <2>3. QED
    BY <2>1, <2>2 DEF ConversionsInv, Holdable, IsBytes
<1>6. CASE Compare
  <2>1. PICK flip \in SUBSET Int :
          item' = TryFromLeBytes(ty.w, ty.s,
                     Split(Differ(Assemble(ToLeBytes(item)), flip), NumBytes(ty.w))).vec
    <3>1. {{}} \cup {{i} : i \in Positions(ty.w)} \subseteq SUBSET Int
      BY <1>2, WidthFacts DEF Positions
    <3>2. QED
      BY <1>1, <1>6, <3>1 DEF Compare, Convert
  <2>2. PICK b \in SUBSET Int : b = Differ(Assemble(ToLeBytes(item)), flip)
    <3>1. PICK a \in SUBSET Int : a = Assemble(ToLeBytes(item))
      BY <1>3, AssembleType
    <3>2. Differ(a, flip) \in SUBSET Int
      BY DEF Differ
    <3>3. QED
      BY <3>1, <3>2
  <2>3. Split(b, NumBytes(ty.w)) \in Seq(Words(ByteBits))
    BY <1>2, LastByte, SplitMember
  <2>4. QED
    BY <2>1, <2>2, <2>3, MadeIsVec DEF ConversionsInv
<1>7. QED
  BY <1>4, <1>5, <1>6


\* The term that is held, and the expression.
LEMMA HeldTerm ==
  ASSUME ConversionsInv, item.kind = "sym"
  PROVE  \E ty \in VecTypes : \E b \in Words(ty.w) : item = Sym(ty.w, ty.s, b)
BY FormOfKind DEF ConversionsInv, IsSym

LEMMA HeldExpr ==
  ASSUME ConversionsInv, item.kind = "expr"
  PROVE  \/ \E w, b : /\ w # 0 /\ item = Thing("expr", w, FALSE, <<b>>)
                      /\ b \in Words(w)
         \/ \E flag \in BOOLEAN : item = Truth("expr", flag)
<1>1. IsExpr(item)
  BY FormOfKind DEF ConversionsInv
<1>2. QED
  BY <1>1, VecTypeParts DEF IsExpr, IsTruth

\* Between concrete and symbolic.
LEMMA ThroughSolverHolds ==
  ASSUME ConversionsInv,
         VecToSymbolic \/ VecToConcrete \/ BoolToSymbolic \/ BoolToConcrete
  PROVE  ConversionsInv'
<1>1. CASE VecToSymbolic
  <2>1. PICK ty \in VecTypes, data \in Seq(Words(MaxWidth)) :
          item = Stored(ty.w, ty.s, data) /\ StoredWell(Stored(ty.w, ty.s, data))
    BY <1>1, HeldVec DEF VecToSymbolic
  <2>2. PICK b \in Words(ty.w) : ToSymbolic(item) = Sym(ty.w, ty.s, b)
    BY <2>1, VecTypeParts, SolverRoundTrip
  <2>3. item' = Sym(ty.w, ty.s, b)
    BY <1>1, <2>2 DEF VecToSymbolic, Convert
  <2>4. QED
    BY <2>2, <2>3, TermIsSym DEF ConversionsInv
<1>2. CASE VecToConcrete
  <2>1. PICK ty, b : ty \in VecTypes /\ b \in Words(ty.w) /\ item = Sym(ty.w, ty.s, b)
    BY <1>2, HeldTerm DEF VecToConcrete
  <2>2. ty.w \in Widths /\ ty.s \in BOOLEAN /\ ty.w \in Nat
    BY <2>1, VecTypeParts
  <2>3. item' = ToConcrete(Sym(ty.w, ty.s, b))
    BY <1>2, <2>1 DEF VecToConcrete, Convert
  <2>4. CASE Narrow(ty.w)
    <3>1. b \in Words(Longest)
      BY <2>1, <2>2, <2>4, WidthFacts, WordsGrow DEF Narrow
    <3>2. QED
      BY <2>1, <2>2, <2>3, <2>4, <3>1, ConcreteOfTerm, MadeIsVec DEF ConversionsInv
  <2>5. CASE ~Narrow(ty.w)
    <3>1. b \in SUBSET Int
      BY <2>1, <2>2 DEF Words, Positions
    <3>2. Split(b, NumBytes(ty.w)) \in Seq(Words(ByteBits))
      BY <2>2, <3>1, LastByte, SplitMember
    <3>3. QED
      BY <2>1, <2>2, <2>3, <2>5, <3>2, ConcreteOfTerm, MadeIsVec DEF ConversionsInv
  <2>6. QED
    BY <2>4, <2>5
<1>3. CASE BoolToSymbolic
  <2>1. PICK flag \in BOOLEAN : item = Truth("bool", flag)
    BY <1>3, FormOfKind DEF BoolToSymbolic, ConversionsInv, IsTruth
  <2>2. item' = Truth("symbool", flag)
    BY <1>3, <2>1 DEF BoolToSymbolic, Convert, Truth, Thing
  <2>3. QED
    BY <2>2 DEF ConversionsInv, Holdable, IsTruth
<1>4. CASE BoolToConcrete
  <2>1. PICK flag \in BOOLEAN : item = Truth("symbool", flag)
    BY <1>4, FormOfKind DEF BoolToConcrete, ConversionsInv, IsTruth
  <2>2. item' = Truth("bool", flag)
    BY <1>4, <2>1 DEF BoolToConcrete, Convert, Truth, Thing
  <2>3. QED
    BY <2>2 DEF ConversionsInv, Holdable, IsTruth
<1>5. QED
  BY <1>1, <1>2, <1>3, <1>4

\* To and from raw expressions.
LEMMA ExpressionsHold ==
  ASSUME ConversionsInv, TakeExpr \/ VecFromExpr \/ FlagFromExpr
  PROVE  ConversionsInv'
<1>1. CASE TakeExpr
  <2>1. item' = Thing("expr", item.w, FALSE, item.data)
    BY <1>1 DEF TakeExpr, Convert
  <2>2. CASE item.kind = "sym"
    <3>1. PICK ty, b : ty \in VecTypes /\ b \in Words(ty.w) /\ item = Sym(ty.w, ty.s, b)
      BY <2>2, HeldTerm
    <3>2. item' = Thing("expr", ty.w, FALSE, <<b>>)
      BY <2>1, <3>1 DEF Sym, Thing
    <3>3. QED
      BY <3>1, <3>2 DEF ConversionsInv, Holdable, IsExpr
  <2>3. CASE item.kind = "symbool"
    <3>1. PICK flag \in BOOLEAN : item = Truth("symbool", flag)
      BY <2>3, FormOfKind DEF ConversionsInv, IsTruth
    <3>2. item' = Truth("expr", flag)
      BY <2>1, <3>1 DEF Truth, Thing
    <3>3. QED
      BY <3>2 DEF ConversionsInv, Holdable, IsExpr, IsTruth
  <2>4. QED
    BY <1>1, <2>2, <2>3 DEF TakeExpr
<1>2. CASE VecFromExpr
  <2>1. PICK ty \in VecTypes :
          IF item.w = ty.w THEN item' = Sym(ty.w, ty.s, item.data[1]) ELSE item' = item
    BY <1>2 DEF VecFromExpr, Convert
  <2>2. CASE item.w # ty.w
    BY <2>1, <2>2 DEF ConversionsInv
  <2>3. CASE item.w = ty.w
    <3>1. item.w # 0
      BY <2>3, VecTypeParts
    <3>2. PICK w, b : item = Thing("expr", w, FALSE, <<b>>) /\ b \in Words(w)
      <4>1. \A flag \in BOOLEAN : Truth("expr", flag).w = 0
        BY DEF Truth, Thing
      <4>2. QED
        BY <1>2, <3>1, <4>1, HeldExpr DEF VecFromExpr
    <3>3. item.w = w /\ item.data[1] = b
      BY <3>2 DEF Thing
    <3>4. b \in Words(ty.w) /\ item' = Sym(ty.w, ty.s, b)
      BY <2>1, <2>3, <3>2, <3>3
    <3>5. QED
      BY <3>4, TermIsSym DEF ConversionsInv
  <2>4. QED
    BY <2>2, <2>3
<1>3. CASE FlagFromExpr
  <2>1. item' = IF item.w = 0 THEN [item EXCEPT !.kind = "symbool"] ELSE item
    BY <1>3 DEF FlagFromExpr, Convert
  <2>2. CASE item.w # 0
    BY <2>1, <2>2 DEF ConversionsInv
  <2>3. CASE item.w = 0
    <3>1. PICK flag \in BOOLEAN : item = Truth("expr", flag)
      <4>1. \A w, d : Thing("expr", w, FALSE, d).w = w
        BY DEF Thing
      <4>2. QED
        BY <1>3, <2>3, <4>1, HeldExpr DEF FlagFromExpr
    <3>2. item' = [item EXCEPT !.kind = "symbool"]
      BY <2>1, <2>3
    <3>3. item' = Truth("symbool", flag)
      BY <3>1, <3>2 DEF Truth, Thing
    <3>4. QED
      BY <3>3 DEF ConversionsInv, Holdable, IsTruth
  <2>4. QED
    BY <2>2, <2>3
<1>4. QED
  BY <1>1, <1>2, <1>3

\* Whatever conversions a program chains, it holds well-formed things only.
THEOREM ConversionsInvariant == Spec => []ConversionsInv
<1>1. Init => ConversionsInv
  <2>1. Bytes(<<>>).data = <<>> /\ <<>> \in Seq(Words(ByteBits))
    BY DEF Bytes, Thing
  <2>2. Len(<<>>) * ByteBits <= MaxWidth
    <3>1. Len(<<>>) = 0 /\ ByteBits \in Nat /\ MaxWidth \in Nat
      BY WidthFacts
    <3>2. QED
      BY <3>1
  <2>3. QED
    BY <2>1, <2>2 DEF Init, ConversionsInv, Holdable, IsBytes
<1>2. ASSUME ConversionsInv, [Next]_vars
      PROVE  ConversionsInv'
  <2>1. CASE \/ ReadInt \/ ReadBytes \/ ReadBool \/ NewVec \/ NewFlag
             \/ DefaultVec \/ Literal \/ SymbolicLiteral
    BY <2>1, SourcesHold
  <2>2. CASE FromInt \/ FromLeBytes \/ FromBeBytes
    BY <1>2, <2>2, IntoVecHolds
  <2>3. CASE TakeValue \/ Serialize \/ Compare
    BY <1>2, <2>3, OutOfVecHolds
  <2>4. CASE VecToSymbolic \/ VecToConcrete \/ BoolToSymbolic \/ BoolToConcrete
    BY <1>2, <2>4, ThroughSolverHolds
  <2>5. CASE TakeExpr \/ VecFromExpr \/ FlagFromExpr
    BY <1>2, <2>5, ExpressionsHold
  <2>6. CASE UNCHANGED vars
    BY <1>2, <2>6 DEF vars, ConversionsInv
  <2>7. QED
    BY <1>2, <2>1, <2>2, <2>3, <2>4, <2>5, <2>6 DEF Next
<1>3. QED
  BY <1>1, <1>2, PTL DEF Spec

\* Every BitVec that a program comes by is stored in the one way that its
\* readers rely on, and every term has bits within its width only.
THEOREM ConversionsTypes == Spec => []TypeOK
<1>1. ConversionsInv => TypeOK
  <2> SUFFICES ASSUME ConversionsInv PROVE TypeOK
    OBVIOUS
  <2>1. \A k, w, s, d : /\ Thing(k, w, s, d).kind = k /\ Thing(k, w, s, d).w = w
                        /\ Thing(k, w, s, d).s = s /\ Thing(k, w, s, d).data = d
    BY DEF Thing
  <2>2. \A w \in Widths \cup NativeWidths : Words(w) \subseteq Words(MaxWidth)
    <3> SUFFICES ASSUME NEW w \in Widths \cup NativeWidths
                 PROVE  Words(w) \subseteq Words(MaxWidth)
      OBVIOUS
    <3>1. Longest \in Nat /\ MaxWidth \in Nat /\ Longest <= MaxWidth
      BY WidthFacts
    <3>2. w \in NativeWidths => w \in Nat /\ w <= Longest
      BY WidthFacts
    <3>3. w \in Widths => w \in Nat /\ w <= MaxWidth
      BY WidthFacts
    <3>4. w \in Int /\ MaxWidth \in Int /\ w <= MaxWidth
      BY <3>1, <3>2, <3>3
    <3>5. QED
      BY <3>4, WordsGrow
  <2>3. CASE IsInt(item)
    <3>1. PICK w, s, b :
            /\ w \in NativeWidths /\ s \in BOOLEAN /\ b \in Words(w)
            /\ item = Thing("int", w, s, <<b>>)
      BY <2>3 DEF IsInt, Native
    <3>2. item.kind = "int" /\ item.w = w /\ item.data[1] = b /\ item.data = <<b>>
      BY <2>1, <3>1
    <3>3. <<b>> \in Seq(Words(MaxWidth))
      BY <2>2, <3>1, SingleWord
    <3>4. QED
      BY <3>1, <3>2, <3>3 DEF TypeOK
  <2>4. CASE IsBytes(item)
    <3>1. item.kind = "bytes" /\ item.data \in Seq(Words(ByteBits))
      BY <2>4, FormOfKind DEF ConversionsInv, IsBytes
    <3>2. item.data \in Seq(Words(MaxWidth))
      <4>1. Words(ByteBits) \subseteq Words(MaxWidth)
        BY <2>2, WidthFacts
      <4>2. QED
        BY <3>1, <4>1
    <3>3. QED
      BY <3>1, <3>2 DEF TypeOK
  <2>5. CASE \E k \in {"bool", "symbool", "expr"} : IsTruth(k, item)
    <3>1. PICK k \in {"bool", "symbool", "expr"}, b \in {{}, {0}} :
            item = Thing(k, 0, FALSE, <<b>>)
      BY <2>5 DEF IsTruth, Truth
    <3>2. PICK d : d = <<b>>
      OBVIOUS
    <3>3. item = Thing(k, 0, FALSE, d)
      BY <3>1, <3>2
    <3>4. item.kind = k /\ item.w = 0 /\ item.data = d
      BY <3>3 DEF Thing
    <3>5. <<b>> \in Seq(Words(MaxWidth))
      <4>1. b \in Words(MaxWidth)
        BY <3>1, WidthFacts DEF Words, Positions
      <4>2. QED
        BY <4>1, SingleWord
    <3>6. item.kind \in {"bool", "symbool", "expr"} /\ item.data \in Seq(Words(MaxWidth))
      BY <3>2, <3>4, <3>5
    <3>7. QED
      BY <3>1, <3>2, <3>4, <3>6 DEF TypeOK
  <2>6. CASE IsSym(item) \/ (IsExpr(item) /\ ~IsTruth("expr", item))
    <3>1. PICK ty, k, s, b :
            /\ ty \in VecTypes /\ k \in {"sym", "expr"} /\ b \in Words(ty.w)
            /\ item = Thing(k, ty.w, s, <<b>>)
      BY <2>6 DEF IsSym, IsExpr, Sym
    <3>2. item.kind = k /\ item.w = ty.w /\ item.data[1] = b /\ item.data = <<b>>
      BY <2>1, <3>1
    <3>3. <<b>> \in Seq(Words(MaxWidth))
      BY <2>2, <3>1, VecTypeParts, SingleWord
    <3>4. QED
      BY <3>1, <3>2, <3>3 DEF TypeOK
  <2>7. CASE IsVec(item)
    <3>1. PICK ty \in VecTypes :
            /\ item = Stored(ty.w, ty.s, item.data)
            /\ item.data \in Seq(Words(MaxWidth)) /\ StoredWell(item)
      BY <2>7 DEF IsVec
    <3>2. item.kind = "vec"
      BY <2>7, FormOfKind DEF ConversionsInv
    <3>3. item.w = ty.w /\ item.s = ty.s
      <4>1. PICK d : item = Thing("vec", ty.w, ty.s, d)
        BY <3>1 DEF Stored
      <4>2. QED
        BY <2>1, <4>1
    <3>4. [w |-> item.w, s |-> item.s] \in VecTypes
      BY <3>3, ConversionsAssumption
    <3>5. QED
      BY <3>1, <3>2, <3>4 DEF TypeOK
  <2>8. QED
    BY <2>3, <2>4, <2>5, <2>6, <2>7 DEF ConversionsInv, Holdable
<1>2. QED
  BY <1>1, ConversionsInvariant, PTL

\* Every way out of a BitVec leads back to it, with no truncation reported:
\* its integer, its bytes in either order and its term, at every width.
THEOREM RoundTripsHold == Spec => []RoundTrips
<1>1. ConversionsInv => RoundTrips
  <2> SUFFICES ASSUME ConversionsInv, item.kind = "vec" PROVE RoundTrips
    BY DEF RoundTrips
  <2>1. PICK ty \in VecTypes, data \in Seq(Words(MaxWidth)) :
          /\ item = Stored(ty.w, ty.s, data) /\ StoredWell(Stored(ty.w, ty.s, data))
          /\ item.w = ty.w /\ item.s = ty.s
    BY HeldVec
  <2>2. ty.w \in Widths /\ ty.s \in BOOLEAN
    BY VecTypeParts
  <2>3. /\ TryFromLeBytes(ty.w, ty.s, ToLeBytes(item)) = [vec |-> item, truncated |-> FALSE]
        /\ TryFromBeBytes(ty.w, ty.s, ToBeBytes(item)) = [vec |-> item, truncated |-> FALSE]
    BY <2>1, <2>2, BytesRoundTrip
  <2>4. ToConcrete(ToSymbolic(item)) = item
    BY <2>1, <2>2, SolverRoundTrip
  <2>5. Narrow(ty.w) =>
          TryFrom(ty.w, ty.s, NativeValue(item)) = [vec |-> item, truncated |-> FALSE]
    BY <2>1, <2>2, OwnBytes, IntegerRoundTrip
  <2>6. QED
    BY <2>1, <2>3, <2>4, <2>5 DEF RoundTrips
<1>2. QED
  BY <1>1, ConversionsInvariant, PTL

-----------------------------------------------------------------------------
(* The refinement: arithmetic of words *)

\* Powers of two.
LEMMA PowerType ==
  ASSUME NEW n \in 0 .. MaxWidth
  PROVE  /\ Power(n) \in Nat \ {0} /\ PowersOfTwo[n] = Power(n)
         /\ n # MaxWidth => Power(n + 1) = 2 * Power(n)
         /\ n # 0 => Weight(n - 1) \in Nat \ {0} /\ Power(n) = 2 * Weight(n - 1)
                     /\ Power(n - 1) = Weight(n - 1)
<1>1. MaxWidth \in Nat /\ n \in Nat
  BY WidthFacts
<1>2. CASE n # 0
  <2>1. n - 1 \in Positions(MaxWidth)
    BY <1>1, <1>2 DEF Positions
  <2>2. Weight(n - 1) \in Nat \ {0} /\ Power(n) = 2 * Weight(n - 1) /\ Power(n - 1) = Weight(n - 1)
    BY <1>2, <2>1, WeightType DEF Power
  <2>3. Power(n) \in Nat \ {0}
    BY <2>2
  <2>4. n # MaxWidth => Power(n + 1) = 2 * Power(n)
    <3>1. n # MaxWidth => n \in Positions(MaxWidth)
      BY <1>1 DEF Positions
    <3>2. QED
      BY <3>1, WeightType
  <2>5. QED
    BY <2>2, <2>3, <2>4 DEF PowersOfTwo
<1>3. CASE n = 0
  <2>1. Power(0) = 1
    BY DEF Power
  <2>2. 0 \in Positions(MaxWidth)
    BY WidthFacts DEF Positions
  <2>3. Power(0 + 1) = 2 * Power(0)
    BY <2>2, WeightType
  <2>4. QED
    BY <1>3, <2>1, <2>3 DEF PowersOfTwo
<1>4. QED
  BY <1>2, <1>3

LEMMA PowerSum ==
  ASSUME NEW k \in Nat, NEW i \in Nat, k + i <= MaxWidth
  PROVE  Power(k + i) = Power(k) * Power(i)
<1>1. PlaceValue(Number, k + i) = PlaceValue(Number, k) * PlaceValue(Number, i)
  BY Numbered, PlaceSum
<1>2. QED
  BY <1>1, Numbered

\* The number of a word is that of its k low bits and, weighted, that of the others.
LEMMA NumberSplits ==
  ASSUME NEW b \in Words(MaxWidth), NEW k \in 0 .. MaxWidth
  PROVE  /\ b \cap Positions(k) \in Words(k)
         /\ Slice(b, MaxWidth - 1, k) \in Words(MaxWidth - k)
         /\ Number[b \cap Positions(k)] \in Nat
         /\ Number[Slice(b, MaxWidth - 1, k)] \in Nat
         /\ Number[b] = Number[b \cap Positions(k)]
                          + Number[Slice(b, MaxWidth - 1, k)] * Power(k)
<1>1. MaxWidth \in Nat /\ k \in Nat /\ k <= MaxWidth
  BY WidthFacts
<1>2. b \in SUBSET (0 .. MaxWidth - 1) /\ IsNumbering(Number, MaxWidth)
  BY Numbered DEF Words, Positions
<1>3. Positions(k) = 0 .. k - 1
  BY DEF Positions
<1>4. BitsFrom(b, k) = Slice(b, MaxWidth - 1, k)
  <2>1. \A i \in b : i \in Int /\ i <= MaxWidth - 1
    BY <1>2
  <2>2. {i \in b : k <= i} = b \cap (k .. MaxWidth - 1)
    BY <1>1, <2>1
  <2>3. QED
    BY <2>2 DEF BitsFrom, Slice
<1>5. /\ Number[b \cap (0 .. k - 1)] \in Nat /\ Number[BitsFrom(b, k)] \in Nat
      /\ Number[b] = Number[b \cap (0 .. k - 1)]
                        + Number[BitsFrom(b, k)] * PlaceValue(Number, k)
  BY <1>2, NumberParts
<1>6. b \cap Positions(k) \in Words(k)
  BY DEF Words
<1>7. Slice(b, MaxWidth - 1, k) \in Words(MaxWidth - k)
  BY <1>1 DEF Slice, Words, Positions
<1>8. QED
  BY <1>3, <1>4, <1>5, <1>6, <1>7, Numbered


\* The remainder of a word is its low bits, and its quotient the others.
LEMMA NumberDivides ==
  ASSUME NEW b \in Words(MaxWidth), NEW k \in 0 .. MaxWidth
  PROVE  /\ Number[b] \in Nat /\ Power(k) \in Nat \ {0}
         /\ Number[b \cap Positions(k)] \in 0 .. (Power(k) - 1)
         /\ Number[b] % Power(k) = Number[b \cap Positions(k)]
         /\ Number[b] \div Power(k) = Number[Slice(b, MaxWidth - 1, k)]
<1>1. PICK p \in Nat \ {0} : p = Power(k)
  BY PowerType
<1>2. Number[b] \in Nat
  BY NumberAssumption
<1>3. PICK n \in Int, r \in Nat, q \in Nat :
        /\ n = Number[b] /\ r = Number[b \cap Positions(k)]
        /\ q = Number[Slice(b, MaxWidth - 1, k)] /\ n = r + q * p
  <2>1. /\ Number[b \cap Positions(k)] \in Nat /\ Number[Slice(b, MaxWidth - 1, k)] \in Nat
        /\ Number[b] = Number[b \cap Positions(k)]
                          + Number[Slice(b, MaxWidth - 1, k)] * Power(k)
    BY NumberSplits
  <2>2. QED
    BY <1>1, <1>2, <2>1
<1>4. r \in 0 .. (p - 1)
  <2>1. b \cap Positions(k) \in Words(k)
    BY DEF Words
  <2>2. r < p
    BY <1>1, <1>3, <2>1, NumberBound
  <2>3. QED
    BY <1>3, <2>2
<1>5. n = q * p + r
  BY <1>3
<1>6. n % p = r
  BY <1>4, <1>5, ModUnique
<1>7. n \div p = q
  BY <1>4, <1>5, QuotientUnique
<1>8. QED
  BY <1>1, <1>2, <1>3, <1>4, <1>6, <1>7

\* A bit is 1 when the remainders on its two sides differ.
LEMMA BitOfNumber ==
  ASSUME NEW b \in Words(MaxWidth), NEW i \in Positions(MaxWidth)
  PROVE  i \in b <=> Number[b] % Power(i + 1) # Number[b] % Power(i)
<1>1. /\ b \in SUBSET (0 .. MaxWidth - 1) /\ i \in 0 .. MaxWidth - 1
      /\ IsNumbering(Number, MaxWidth)
  BY Numbered DEF Words, Positions
<1>2. i \in b <=> Number[b] % PlaceValue(Number, i + 1) # Number[b] % PlaceValue(Number, i)
  BY <1>1, NumberBit
<1>3. QED
  BY <1>2, Numbered

\* Different words are different numbers.
LEMMA NumberInjective ==
  ASSUME NEW b \in Words(MaxWidth), NEW c \in Words(MaxWidth), Number[b] = Number[c]
  PROVE  b = c
<1>1. \A i \in Positions(MaxWidth) : i \in b <=> i \in c
  BY BitOfNumber
<1>2. QED
  BY <1>1 DEF Words

\* A number is below 2^k when its word has no bit from k on.
LEMMA NumberFits ==
  ASSUME NEW b \in Words(MaxWidth), NEW k \in 0 .. MaxWidth
  PROVE  Number[b] < Power(k) <=> b \in Words(k)
<1>1. ASSUME b \in Words(k)
      PROVE  Number[b] < Power(k)
  BY <1>1, NumberBound
<1>2. ASSUME Number[b] < Power(k)
      PROVE  b \in Words(k)
  <2>1. PICK p \in Nat \ {0}, n \in Nat : p = Power(k) /\ n = Number[b] /\ n < p
    BY <1>2, NumberDivides
  <2>2. n % p = n
    BY <2>1, ModSmall
  <2>3. Number[b] = Number[b \cap Positions(k)]
    BY <2>1, <2>2, NumberDivides
  <2>4. b \cap Positions(k) \in Words(MaxWidth)
    BY DEF Words
  <2>5. b = b \cap Positions(k)
    BY <2>3, <2>4, NumberInjective
  <2>6. QED
    BY <2>5 DEF Words
<1>3. QED
  BY <1>1, <1>2

\* Every number below 2^w is that of a word.
LEMMA EveryNumber ==
  ASSUME NEW w \in 0 .. MaxWidth, NEW n \in 0 .. (Power(w) - 1)
  PROVE  \E b \in Words(w) : Number[b] = n
<1> DEFINE S == {m \in Nat : m <= MaxWidth =>
                    \A x \in 0 .. (Power(m) - 1) : \E b \in Words(m) : Number[b] = x}
<1>1. MaxWidth \in Nat
  BY WidthFacts
<1>2. 0 \in S
  <2>1. Power(0) = 1 /\ {} \in Words(0) /\ Number[{}] = 0
    BY NumberAssumption DEF Power, Words
  <2>2. 0 .. (1 - 1) = {0}
    OBVIOUS
  <2>3. QED
    BY <2>1, <2>2
<1>3. ASSUME NEW m \in Nat, m \in S
      PROVE  m + 1 \in S
  <2>1. SUFFICES ASSUME m + 1 <= MaxWidth, NEW x \in 0 .. (Power(m + 1) - 1)
                 PROVE  \E b \in Words(m + 1) : Number[b] = x
    OBVIOUS
  <2>2. m \in Positions(MaxWidth) /\ m \in 0 .. MaxWidth /\ m # MaxWidth
    BY <1>1, <2>1 DEF Positions
  <2>3. PICK p \in Nat \ {0} : p = Power(m) /\ Power(m + 1) = 2 * p /\ Weight(m) = p
    BY <2>2, PowerType, WeightType
  <2>4. x \in Nat /\ x < 2 * p
    BY <2>1, <2>3
  <2>5. CASE x < p
    <3>1. PICK b \in Words(m) : Number[b] = x
      BY <1>1, <1>3, <2>1, <2>3, <2>4, <2>5
    <3>2. b \in Words(m + 1)
      BY WordsGrow
    <3>3. QED
      BY <3>1, <3>2
  <2>6. CASE ~(x < p)
    <3>1. x - p \in 0 .. (Power(m) - 1)
      BY <2>3, <2>4, <2>6
    <3>2. PICK b \in Words(m) : Number[b] = x - p
      BY <1>1, <1>3, <2>1, <3>1
    <3>3. b \in Words(MaxWidth) /\ m \notin b
      <4>1. m <= MaxWidth
        BY <1>1, <2>1
      <4>2. QED
        BY <1>1, <4>1, WordsGrow DEF Words, Positions
    <3>4. Number[b \cup {m}] = Number[b] + Weight(m)
      BY <2>2, <3>3, NumberAssumption
    <3>5. b \cup {m} \in Words(m + 1)
      <4>1. b \in Words(m + 1) /\ m \in Positions(m + 1)
        BY WordsGrow DEF Positions
      <4>2. QED
        BY <4>1 DEF Words
    <3>6. QED
      BY <2>3, <2>4, <3>2, <3>4, <3>5
  <2>7. QED
    BY <2>5, <2>6
<1>4. Nat \subseteq S
  <2> HIDE DEF S
  <2>1. QED
    BY <1>2, <1>3, SetInduction
<1>5. QED
  BY <1>1, <1>4


\* A greater power of two is a multiple of a smaller one.
LEMMA PowerMultiple ==
  ASSUME NEW i \in Nat, NEW j \in Nat, i <= j, j <= MaxWidth
  PROVE  /\ Power(i) \in Nat \ {0} /\ Power(j) \in Nat \ {0} /\ Power(j - i) \in Nat \ {0}
         /\ Power(j) = Power(i) * Power(j - i) /\ Power(i) <= Power(j)
<1>1. MaxWidth \in Nat
  BY WidthFacts
<1>2. /\ i \in 0 .. MaxWidth /\ j \in 0 .. MaxWidth /\ j - i \in 0 .. MaxWidth
      /\ j - i \in Nat /\ i + (j - i) = j
  BY <1>1
<1>3. PICK p \in Nat \ {0}, q \in Nat \ {0}, r \in Nat \ {0} :
        p = Power(i) /\ q = Power(j) /\ r = Power(j - i)
  BY <1>2, PowerType
<1>4. Power(i + (j - i)) = Power(i) * Power(j - i)
  BY <1>2, PowerSum
<1>5. q = p * r
  BY <1>2, <1>3, <1>4
<1>6. p <= q
  BY <1>3, <1>5, ProductGrows
<1>7. QED
  BY <1>3, <1>5, <1>6

-----------------------------------------------------------------------------
(* The refinement: words and the numbers of a type *)

\* The range of a type, and half of it.
LEMMA RangeOf ==
  ASSUME NEW w \in Widths
  PROVE  /\ \A s \in BOOLEAN :
               Carried!ValueSet(w, s) = IF s THEN -Weight(w - 1) .. (Weight(w - 1) - 1)
                                             ELSE 0 .. (2 * Weight(w - 1) - 1)
         /\ PowersOfTwo[w] = Power(w) /\ Power(w) = 2 * Weight(w - 1)
         /\ Weight(w - 1) \in Nat \ {0} /\ Power(w) \in Nat \ {0}
<1>1. w \in Nat \ {0} /\ w <= MaxWidth /\ MaxWidth \in Nat
  BY WidthFacts
<1>2. w \in 0 .. MaxWidth /\ w - 1 \in 0 .. MaxWidth /\ w # 0
  BY <1>1
<1>3. /\ PowersOfTwo[w] = Power(w) /\ Power(w) = 2 * Weight(w - 1)
      /\ Weight(w - 1) \in Nat \ {0} /\ Power(w) \in Nat \ {0}
      /\ PowersOfTwo[w - 1] = Weight(w - 1)
  BY <1>2, PowerType
<1>4. QED
  BY <1>3 DEF Carried!ValueSet

\* The only number of a type that differs from a given one by a multiple of 2^w.
LEMMA FitUnique ==
  ASSUME NEW w \in Widths, NEW s \in BOOLEAN, NEW x \in Int, NEW k \in Int,
         NEW y \in Carried!ValueSet(w, s), x = y + k * Power(w)
  PROVE  Carried!Fit(w, s, x) = y
<1>1. PICK p \in Nat \ {0}, h \in Nat \ {0} :
        p = Power(w) /\ h = Weight(w - 1) /\ p = 2 * h /\ PowersOfTwo[w] = p
  BY RangeOf
<1>2. Carried!ValueSet(w, s) = IF s THEN -h .. (h - 1) ELSE 0 .. (p - 1)
  BY <1>1, RangeOf
<1>3. y \in Int
  BY <1>1, <1>2
<1>4. (x - y) % p = 0
  <2>1. x - y = k * p + 0 /\ 0 \in 0 .. (p - 1) /\ x - y \in Int
    <3>1. PICK z \in Int : z = k * p
      BY <1>1
    <3>2. x = y + z
      BY <1>1, <3>1
    <3>3. QED
      BY <1>1, <1>3, <3>1, <3>2
  <2>2. QED
    BY <2>1, ModUnique
<1>5. ASSUME NEW z \in Carried!ValueSet(w, s), (x - z) % p = 0
      PROVE  z = y
  <2>1. z \in Int
    BY <1>1, <1>2
  <2>2. PICK q \in Int : x - z = q * p
    <3>1. x - z \in Int
      BY <2>1
    <3>2. x - z = ((x - z) \div p) * p + 0 /\ (x - z) \div p \in Int
      BY <1>5, <3>1, ModDecompose
    <3>3. QED
      BY <1>1, <3>1, <3>2
  <2>3. PICK d \in Int : d = q - k
    OBVIOUS
  <2>4. y - z = d * p
    <3>1. PICK a \in Int, b \in Int : a = k * p /\ b = q * p
      BY <1>1
    <3>2. b - a = d * p
      BY <2>3, <3>1
    <3>3. x = y + a /\ x - z = b
      BY <1>1, <2>2, <3>1
    <3>4. QED
      BY <1>3, <2>1, <3>1, <3>2, <3>3
  <2>5. y - z < p /\ z - y < p
    <3>1. CASE s
      <4>1. y \in -h .. (h - 1) /\ z \in -h .. (h - 1)
        BY <1>2, <1>5, <3>1
      <4>2. QED
        BY <1>1, <4>1
    <3>2. CASE ~s
      <4>1. y \in 0 .. (p - 1) /\ z \in 0 .. (p - 1)
        BY <1>2, <1>5, <3>2
      <4>2. QED
        BY <1>1, <4>1
    <3>3. QED
      BY <3>1, <3>2
  <2>6. d = 0
    <3>1. d > 0 => d * p >= p
      BY <1>1
    <3>2. d < 0 => d * p <= -p
      BY <1>1
    <3>3. QED
      BY <1>1, <1>3, <2>1, <2>4, <2>5, <3>1, <3>2
  <2>7. d * p = 0
    BY <1>1, <2>6
  <2>8. QED
    BY <1>3, <2>1, <2>4, <2>7
<1>6. Carried!Fit(w, s, x) = CHOOSE z \in Carried!ValueSet(w, s) : (x - z) % p = 0
  BY <1>1 DEF Carried!Fit
<1>7. QED
  BY <1>4, <1>5, <1>6

\* A word stands for a number of its type, which differs from that of its
\* bits by 2^w or not at all.
LEMMA WordInRange ==
  ASSUME NEW w \in Widths, NEW s \in BOOLEAN, NEW b \in Words(w)
  PROVE  /\ Value(w, s, b) \in Carried!ValueSet(w, s) /\ Value(w, s, b) \in Int
         /\ Number[b] \in Nat /\ Number[b] < Power(w)
         /\ \E k \in {0, 1} : Number[b] = Value(w, s, b) + k * Power(w)
         /\ ~s => Value(w, s, b) = Number[b]
<1>1. w \in 0 .. MaxWidth
  BY WidthFacts
<1>2. PICK n \in Nat : n = Number[b] /\ n < Power(w)
  BY <1>1, NumberBound
<1>3. PICK h \in Nat \ {0} : h = Weight(w - 1) /\ Power(w) = 2 * h
  BY RangeOf
<1>4. Value(w, s, b) = IF s /\ w - 1 \in b THEN n - 2 * h ELSE n
  BY <1>2, <1>3 DEF Value
<1>5. PICK v \in Int : v = Value(w, s, b)
  BY <1>4
<1>6. n = v + 0 * Power(w) \/ n = v + 1 * Power(w)
  BY <1>3, <1>4, <1>5
<1>7. CASE s
  <2>1. MinSigned(w) <= v /\ v <= MaxSigned(w)
    <3>1. s = TRUE
      BY <1>7
    <3>2. v = Value(w, TRUE, b)
      BY <1>5, <3>1
    <3>3. QED
      BY <3>2, ValueBound
  <2>2. v \in -h .. (h - 1)
    BY <1>3, <1>5, <2>1 DEF MinSigned, MaxSigned
  <2>3. v \in Carried!ValueSet(w, s)
    BY <1>3, <1>7, <2>2, RangeOf
  <2>4. QED
    BY <1>2, <1>5, <1>6, <1>7, <2>3
<1>8. CASE ~s
  <2>1. v = n
    BY <1>4, <1>5, <1>8
  <2>2. n \in 0 .. (2 * h - 1)
    BY <1>2, <1>3
  <2>3. v \in Carried!ValueSet(w, s)
    BY <1>3, <1>8, <2>1, <2>2, RangeOf
  <2>4. QED
    BY <1>2, <1>5, <1>6, <2>1, <2>3
<1>9. QED
  BY <1>7, <1>8


\* A number that differs from that of a word by a multiple of 2^w becomes, in
\* a type of w bits, what the low w bits of the word stand for.
LEMMA FitOfWord ==
  ASSUME NEW w \in Widths, NEW s \in BOOLEAN, NEW b \in Words(MaxWidth),
         NEW x \in Int, NEW k \in Int, x = Number[b] + k * Power(w)
  PROVE  Carried!Fit(w, s, x) = Value(w, s, b \cap Positions(w))
<1> DEFINE low == b \cap Positions(w)
<1>1. w \in 0 .. MaxWidth /\ low \in Words(w)
  BY WidthFacts DEF Words
<1>2. PICK p \in Nat \ {0} : p = Power(w)
  BY RangeOf
<1>3. PICK q \in Nat : q = Number[Slice(b, MaxWidth - 1, w)]
  BY <1>1, NumberSplits
<1>4. PICK r \in Nat : r = Number[low]
  BY <1>1, NumberSplits
<1>5. Number[b] = r + q * p
  BY <1>1, <1>2, <1>3, <1>4, NumberSplits
<1>6. PICK v \in Carried!ValueSet(w, s) : v = Value(w, s, low) /\ v \in Int
  BY <1>1, WordInRange
<1>7. PICK j \in {0, 1} : r = v + j * p
  BY <1>1, <1>2, <1>4, <1>6, WordInRange
<1>8. PICK m \in Int : m = k + (q + j)
  BY <1>7
<1>9. x = v + m * p
  <2>1. (v + j * p + q * p) + k * p = v + m * p
    BY <1>6, <1>7, <1>8
  <2>2. QED
    BY <1>2, <1>5, <1>7, <2>1
<1>10. Carried!Fit(w, s, x) = v
  BY <1>2, <1>6, <1>9, FitUnique
<1>11. QED
  BY <1>6, <1>10

\* The number of a type that is of the type already.
LEMMA FitOfMember ==
  ASSUME NEW w \in Widths, NEW s \in BOOLEAN, NEW y \in Carried!ValueSet(w, s), y \in Int
  PROVE  Carried!Fit(w, s, y) = y
<1>1. PICK p \in Nat \ {0} : p = Power(w)
  BY RangeOf
<1>2. y = y + 0 * p
  BY <1>1
<1>3. QED
  BY <1>1, <1>2, FitUnique

\* The word of some bytes has room for them.
LEMMA AssembleBound ==
  ASSUME NEW bytes \in Seq(Words(ByteBits)), NEW n \in Nat, Len(bytes) * ByteBits <= n
  PROVE  Assemble(bytes) \in Words(n)
<1>1. ASSUME NEW k \in Assemble(bytes)
      PROVE  k \in 0 .. n - 1
  <2>1. PICK q \in Nat, r \in 0 .. ByteBits - 1 :
           k = r + q * ByteBits /\ q + 1 \in 1 .. Len(bytes)
    BY AssembleParts
  <2>2. PICK B \in Nat \ {0}, L \in Nat : B = ByteBits /\ L = Len(bytes)
    BY WidthFacts
  <2>3. (q + 1) * B <= L * B
    <3>1. PICK d \in Nat : L = (q + 1) + d
      <4>1. L - (q + 1) \in Nat /\ L = (q + 1) + (L - (q + 1))
        BY <2>1, <2>2
      <4>2. QED
        BY <4>1
    <3>2. L * B = (q + 1) * B + d * B /\ d * B >= 0
      BY <3>1
    <3>3. QED
      BY <2>2, <3>2
  <2>4. r + q * B < (q + 1) * B
    BY <2>1, <2>2
  <2>5. QED
    BY <2>1, <2>2, <2>3, <2>4
<1>2. QED
  BY <1>1 DEF Words, Positions

-----------------------------------------------------------------------------
(* The refinement: the number of a BitVec *)

\* The bits of a BitVec are those of its bytes.
WordOf(v) == Assemble(ToLeBytes(v))

\* A BitVec stands for the number of its bits.
LEMMA StoredNumber ==
  ASSUME NEW w \in Widths, NEW s \in BOOLEAN, NEW data \in Seq(Words(MaxWidth)),
         StoredWell(Stored(w, s, data))
  PROVE  /\ WordOf(Stored(w, s, data)) \in Words(w)
         /\ AbsNumber(Stored(w, s, data)) = Value(w, s, WordOf(Stored(w, s, data)))
<1> DEFINE v == Stored(w, s, data)
<1>1. v.kind = "vec" /\ v.w = w /\ v.s = s /\ v.data = data
  BY DEF Stored, Thing
<1>2. CASE Narrow(w)
  <2>1. /\ Extended(w, s, data[1]) /\ WordOf(v) = data[1] \cap Positions(w)
        /\ InBytes(w, ToLeBytes(v))
    BY <1>2, OwnBytes DEF WordOf
  <2>2. PICK d : d = data[1]
    OBVIOUS
  <2>3. /\ Container(w) \in Nat /\ w <= Container(w) /\ Container(w) <= MaxWidth
        /\ Container(w) \in w .. MaxWidth /\ w \in Nat \ {0}
    BY <1>2, ContainerType, WidthFacts
  <2>4. d \in Words(Container(w)) /\ d \cap Positions(w) \in Words(w)
    BY <2>1, <2>2 DEF Extended, Words
  <2>5. d = (d \cap Positions(w)) \cup (d \cap (w .. Container(w) - 1))
    <3>1. PICK c \in Nat : c = Container(w)
      BY <2>3
    <3>2. \A i \in 0 .. c - 1 : i \in 0 .. w - 1 \/ i \in w .. c - 1
      BY <2>3
    <3>3. d \subseteq 0 .. c - 1
      BY <2>4, <3>1 DEF Words, Positions
    <3>4. QED
      BY <3>1, <3>2, <3>3 DEF Positions
  <2>6. AbsNumber(v) = Value(Container(w), s, d)
    BY <1>1, <1>2, <2>2 DEF AbsNumber
  <2>7. CASE s
    <3>1. SignExtended(w, d \cap Positions(w), Container(w)) = d
      <4>1. w - 1 \in d \cap Positions(w) <=> w - 1 \in d
        <5>1. w - 1 \in 0 .. w - 1
          BY <2>3
        <5>2. QED
          BY <5>1 DEF Positions
      <4>2. d = (d \cap Positions(w)) \cup (d \cap (w .. Container(w) - 1))
        BY <2>5
      <4>3. \A i \in w .. Container(w) - 1 : i \in d <=> w - 1 \in d
        BY <2>1, <2>2, <2>7 DEF Extended
      <4>4. QED
        BY <4>1, <4>2, <4>3 DEF SignExtended
    <3>2. s = TRUE
      BY <2>7
    <3>3. Value(Container(w), TRUE, d) = Value(w, TRUE, d \cap Positions(w))
      BY <2>3, <2>4, <3>1, ValueOfExtended
    <3>4. QED
      BY <2>1, <2>2, <2>4, <2>6, <3>2, <3>3
  <2>8. CASE ~s
    <3>1. \A i \in w .. Container(w) - 1 : i \notin d
      BY <2>1, <2>2, <2>8 DEF Extended
    <3>2. d = d \cap Positions(w)
      BY <2>5, <3>1
    <3>3. Value(Container(w), s, d) = Number[d] /\ Value(w, s, d) = Number[d]
      BY <2>8 DEF Value
    <3>4. QED
      BY <2>1, <2>2, <2>4, <2>6, <3>2, <3>3
  <2>9. QED
    BY <2>7, <2>8
<1>3. CASE ~Narrow(w)
  <2>1. ToLeBytes(v) = data /\ InBytes(w, ToLeBytes(v))
    BY <1>3, OwnBytes
  <2>2. Assemble(data) \in Words(w)
    BY <2>1 DEF InBytes
  <2>3. AbsNumber(v) = Value(w, s, Assemble(data))
    BY <1>1, <1>3 DEF AbsNumber
  <2>4. QED
    BY <2>1, <2>2, <2>3 DEF WordOf
<1>4. QED
  BY <1>2, <1>3

\* Two BitVecs of one type with the same bits are the same.
LEMMA SameBits ==
  ASSUME NEW w \in Widths, NEW s \in BOOLEAN,
         NEW data \in Seq(Words(MaxWidth)), StoredWell(Stored(w, s, data)),
         NEW more \in Seq(Words(MaxWidth)), StoredWell(Stored(w, s, more)),
         WordOf(Stored(w, s, data)) = WordOf(Stored(w, s, more))
  PROVE  Stored(w, s, data) = Stored(w, s, more)
<1>1. \A d \in Seq(Words(MaxWidth)) :
        StoredWell(Stored(w, s, d)) =>
           /\ ToLeBytes(Stored(w, s, d)) = Split(WordOf(Stored(w, s, d)), NumBytes(w))
           /\ Stored(w, s, d) = TryFromLeBytes(w, s, ToLeBytes(Stored(w, s, d))).vec
  <2> SUFFICES ASSUME NEW d \in Seq(Words(MaxWidth)), StoredWell(Stored(w, s, d))
      PROVE /\ ToLeBytes(Stored(w, s, d)) = Split(WordOf(Stored(w, s, d)), NumBytes(w))
            /\ Stored(w, s, d) = TryFromLeBytes(w, s, ToLeBytes(Stored(w, s, d))).vec
    OBVIOUS
  <2>1. PICK bytes : bytes = ToLeBytes(Stored(w, s, d)) /\ InBytes(w, bytes)
    BY OwnBytes
  <2>2. bytes \in Seq(Words(ByteBits)) /\ Len(bytes) = NumBytes(w) /\ NumBytes(w) \in Nat
    BY <2>1, LastByte DEF InBytes
  <2>3. Split(Assemble(bytes), NumBytes(w)) = bytes
    BY <2>2, SplitOfAssemble
  <2>4. TryFromLeBytes(w, s, bytes) = [vec |-> Stored(w, s, d), truncated |-> FALSE]
    BY <2>1, BytesRoundTrip
  <2>5. QED
    BY <2>1, <2>3, <2>4 DEF WordOf
<1>2. QED
  BY <1>1


\* The constructor from a uint64_t takes the low bits.
LEMMA MadeBits ==
  ASSUME NEW w \in Widths, NEW s \in BOOLEAN, NEW b \in Words(Longest)
  PROVE  \E data \in Seq(Words(MaxWidth)) :
            /\ Made(w, s, b) = Stored(w, s, data) /\ StoredWell(Stored(w, s, data))
            /\ WordOf(Stored(w, s, data)) = b \cap Positions(w)
<1>1. PICK data \in Seq(Words(MaxWidth)) :
        Made(w, s, b) = Stored(w, s, data) /\ StoredWell(Stored(w, s, data))
  BY MadeStored
<1>2. Made(w, s, b).data = data
  BY <1>1 DEF Stored, Thing
<1>3. CASE Narrow(w)
  <2>1. data = <<Truncated(w, s, b)>>
    BY <1>2, <1>3 DEF Made, Stored, Thing
  <2>2. data[1] = Truncated(w, s, b)
    BY <2>1
  <2>3. WordOf(Stored(w, s, data)) = data[1] \cap Positions(w)
    BY <1>1, <1>3, OwnBytes DEF WordOf
  <2>4. Truncated(w, s, b) \cap Positions(w) = b \cap Positions(w)
    <3>1. (w .. Container(w) - 1) \cap Positions(w) = {}
      <4>1. w \in Nat /\ Container(w) \in Nat
        BY <1>3, ContainerType, WidthFacts
      <4>2. QED
        BY <4>1 DEF Positions
    <3>2. QED
      BY <3>1 DEF Truncated, SignExtended
  <2>5. QED
    BY <1>1, <2>2, <2>3, <2>4
<1>4. CASE ~Narrow(w)
  <2>1. b \in Words(w)
    <3>1. Longest \in Int /\ w \in Int /\ Longest <= w
      BY <1>4, WidthFacts DEF Narrow
    <3>2. QED
      BY <3>1, WordsGrow
  <2>2. data = Split(b, NumBytes(w))
    BY <1>2, <1>4 DEF Made, Stored, Thing
  <2>3. ToLeBytes(Stored(w, s, data)) = data
    BY <1>1, <1>4, OwnBytes
  <2>4. WordOf(Stored(w, s, data)) = b
    BY <2>1, <2>2, <2>3, AssembleOfSplit DEF WordOf
  <2>5. b = b \cap Positions(w)
    BY <2>1 DEF Words
  <2>6. QED
    BY <1>1, <2>4, <2>5
<1>5. QED
  BY <1>3, <1>4

\* Reading bytes takes the low bits, and tells when there are others.
LEMMA ReadBits ==
  ASSUME NEW w \in Widths, NEW s \in BOOLEAN, NEW bytes \in Seq(Words(ByteBits))
  PROVE  \E data \in Seq(Words(MaxWidth)) :
            /\ TryFromLeBytes(w, s, bytes).vec = Stored(w, s, data)
            /\ StoredWell(Stored(w, s, data))
            /\ WordOf(Stored(w, s, data)) = Assemble(bytes) \cap Positions(w)
            /\ TryFromLeBytes(w, s, bytes).truncated <=> ~(Assemble(bytes) \subseteq Positions(w))
<1> DEFINE n     == NumBytes(w)
           raw   == [i \in 1 .. n |-> IF i <= Len(bytes) THEN bytes[i] ELSE {}]
           clear == [raw EXCEPT ![n] = @ \cap Positions(UsedBits(w))]
<1>1. /\ n \in Nat \ {0} /\ UsedBits(w) \in 1 .. ByteBits
      /\ w = (n - 1) * ByteBits + UsedBits(w) /\ w \in Nat
  BY LastByte, WidthFacts
<1>2. raw \in Seq(Words(ByteBits)) /\ Len(raw) = n
  BY <1>1 DEF Words
<1>3. /\ clear \in Seq(Words(ByteBits)) /\ Len(clear) = n
      /\ clear[n] = raw[n] \cap Positions(UsedBits(w))
      /\ \A i \in 1 .. n : i # n => clear[i] = raw[i]
  <2>1. raw[n] \cap Positions(UsedBits(w)) \in Words(ByteBits)
    BY <1>1, <1>2 DEF Words
  <2> HIDE DEF raw
  <2>2. QED
    BY <1>1, <1>2, <2>1
<1>4. \A i \in 1 .. n : raw[i] = IF i <= Len(bytes) THEN bytes[i] ELSE {}
  OBVIOUS
<1>5. /\ TryFromLeBytes(w, s, bytes).vec =
           IF Narrow(w) THEN Made(w, s, Assemble(clear)) ELSE Stored(w, s, clear)
      /\ TryFromLeBytes(w, s, bytes).truncated =
           (\/ \E i \in n + 1 .. Len(bytes) : bytes[i] # {}
            \/ raw[n] # clear[n])
  BY DEF TryFromLeBytes, UsedBits
<1> HIDE DEF raw, clear
<1>6. Assemble(clear) \in SUBSET Nat /\ Assemble(bytes) \in SUBSET Nat
  BY <1>3, AssembleType
\* A position is that of a bit in a byte.
<1>7. ASSUME NEW q \in Nat, NEW r \in 0 .. ByteBits - 1
      PROVE  /\ r + q * ByteBits \in Positions(w) <=> q < n - 1 \/ (q = n - 1 /\ r < UsedBits(w))
             /\ r + q * ByteBits \in Assemble(clear) <=>
                  r + q * ByteBits \in Assemble(bytes) /\ r + q * ByteBits \in Positions(w)
  <2>1. PICK u \in Nat, k \in Nat :
           /\ u = UsedBits(w) /\ u \in 1 .. ByteBits
           /\ k = r + q * ByteBits
    BY <1>1, WidthFacts
  <2>2. k < w <=> q < n - 1 \/ (q = n - 1 /\ r < u)
    BY <1>1, <2>1, PlaceOrder
  <2>3. k \in Positions(w) <=> k < w
    BY <1>1, <2>1 DEF Positions
  <2>4. r \in Positions(u) <=> r < u
    BY <2>1, WidthFacts DEF Positions
  <2>5. k \in Assemble(clear) <=> q + 1 \in 1 .. n /\ r \in clear[q + 1]
    BY <1>3, <2>1, AssembleMember
  <2>6. k \in Assemble(bytes) <=> q + 1 \in 1 .. Len(bytes) /\ r \in bytes[q + 1]
    BY <2>1, AssembleMember
  <2>7. q + 1 \in 1 .. n => (r \in raw[q + 1] <=> k \in Assemble(bytes))
    BY <1>4, <2>6
  <2>8. CASE q < n - 1
    <3>1. q + 1 \in 1 .. n /\ q + 1 # n
      BY <1>1, <2>8
    <3>2. clear[q + 1] = raw[q + 1]
      BY <1>3, <3>1
    <3>3. QED
      BY <2>1, <2>2, <2>3, <2>5, <2>7, <2>8, <3>1, <3>2
  <2>9. CASE q = n - 1
    <3>1. q + 1 \in 1 .. n /\ q + 1 = n /\ ~(q < n - 1)
      BY <1>1, <2>9
    <3>2. r \in clear[q + 1] <=> r \in raw[q + 1] /\ r < u
      BY <1>3, <2>1, <2>4, <3>1
    <3>3. QED
      BY <2>1, <2>2, <2>3, <2>5, <2>7, <2>9, <3>1, <3>2
  <2>10. CASE q > n - 1
    <3>1. q + 1 \notin 1 .. n /\ ~(q < n - 1) /\ q # n - 1
      BY <1>1, <2>10
    <3>2. QED
      BY <2>1, <2>2, <2>3, <2>5, <3>1
  <2>11. q < n - 1 \/ q = n - 1 \/ q > n - 1
    BY <1>1
  <2>12. QED
    BY <2>8, <2>9, <2>10, <2>11
<1>8. Assemble(clear) = Assemble(bytes) \cap Positions(w)
  <2>1. ASSUME NEW k \in Nat
        PROVE  k \in Assemble(clear) <=> k \in Assemble(bytes) /\ k \in Positions(w)
    <3>1. PICK q \in Nat, r \in 0 .. ByteBits - 1 : k = r + q * ByteBits
      BY PlaceOf
    <3>2. QED
      BY <1>7, <3>1
  <2>2. QED
    BY <1>6, <2>1
<1>9. TryFromLeBytes(w, s, bytes).truncated <=> ~(Assemble(bytes) \subseteq Positions(w))
  <2>1. ASSUME NEW i \in n + 1 .. Len(bytes), bytes[i] # {}
        PROVE  ~(Assemble(bytes) \subseteq Positions(w))
    <3>1. i \in Nat /\ i - 1 \in Nat /\ i \in 1 .. Len(bytes) /\ (i - 1) + 1 = i /\ i - 1 > n - 1
      BY <1>1, <2>1
    <3>2. PICK r \in 0 .. ByteBits - 1 : r \in bytes[i]
      BY <2>1, <3>1 DEF Words, Positions
    <3>3. PICK k : k = r + (i - 1) * ByteBits
      OBVIOUS
    <3>4. k \in Assemble(bytes)
      BY <3>1, <3>2, <3>3, AssembleMember
    <3>5. k \notin Positions(w)
      BY <1>1, <1>7, <3>1, <3>3
    <3>6. QED
      BY <3>4, <3>5
  <2>2. ASSUME raw[n] # clear[n]
        PROVE  ~(Assemble(bytes) \subseteq Positions(w))
    <3>1. raw[n] \in Words(ByteBits) /\ n \in 1 .. n
      BY <1>1, <1>2
    <3>2. PICK r : r \in raw[n] /\ r \notin Positions(UsedBits(w))
      BY <1>3, <2>2
    <3>3. r \in 0 .. ByteBits - 1 /\ ~(r < UsedBits(w))
      <4>1. r \in 0 .. ByteBits - 1
        BY <3>1, <3>2 DEF Words, Positions
      <4>2. QED
        BY <1>1, <3>2, <4>1, WidthFacts DEF Positions
    <3>4. n \in 1 .. Len(bytes) /\ r \in bytes[n]
      BY <1>1, <1>4, <3>1, <3>2
    <3>5. PICK q \in Nat : q = n - 1 /\ q + 1 = n
      BY <1>1
    <3>6. r + q * ByteBits \in Assemble(bytes)
      BY <3>3, <3>4, <3>5, AssembleMember
    <3>7. r + q * ByteBits \notin Positions(w)
      BY <1>1, <1>7, <3>3, <3>5
    <3>8. QED
      BY <3>6, <3>7
  <2>3. ASSUME NEW k \in Assemble(bytes), k \notin Positions(w)
        PROVE  (\E i \in n + 1 .. Len(bytes) : bytes[i] # {}) \/ raw[n] # clear[n]
    <3>1. PICK q \in Nat, r \in 0 .. ByteBits - 1 :
             k = r + q * ByteBits /\ q + 1 \in 1 .. Len(bytes) /\ r \in bytes[q + 1]
      BY <2>3, AssembleParts
    <3>2. ~(q < n - 1) /\ ~(q = n - 1 /\ r < UsedBits(w))
      BY <1>7, <2>3, <3>1
    <3>3. CASE q = n - 1
      <4>1. q + 1 = n /\ n \in 1 .. n
        BY <1>1, <3>3
      <4>2. r \in raw[n]
        BY <1>4, <3>1, <4>1
      <4>3. r \notin Positions(UsedBits(w))
        BY <1>1, <3>2, <3>3, WidthFacts DEF Positions
      <4>4. QED
        BY <1>3, <4>2, <4>3
    <3>4. CASE q # n - 1
      <4>1. q + 1 \in n + 1 .. Len(bytes)
        BY <1>1, <3>1, <3>2, <3>4
      <4>2. QED
        BY <3>1, <4>1
    <3>5. QED
      BY <3>3, <3>4
  <2>4. QED
    BY <1>5, <2>1, <2>2, <2>3
<1>10. Assemble(clear) \in Words(w) /\ Assemble(clear) \cap Positions(w) = Assemble(clear)
  BY <1>8 DEF Words
<1>11. CASE Narrow(w)
  <2>1. Assemble(clear) \in Words(Longest)
    BY <1>1, <1>10, <1>11, WidthFacts, WordsGrow DEF Narrow
  <2>2. PICK data \in Seq(Words(MaxWidth)) :
           /\ Made(w, s, Assemble(clear)) = Stored(w, s, data) /\ StoredWell(Stored(w, s, data))
           /\ WordOf(Stored(w, s, data)) = Assemble(clear) \cap Positions(w)
    BY <2>1, MadeBits
  <2>3. QED
    BY <1>5, <1>8, <1>9, <1>10, <1>11, <2>2
<1>12. CASE ~Narrow(w)
  <2>1. Words(ByteBits) \subseteq Words(MaxWidth)
    BY WidthFacts, WordsGrow
  <2>2. clear \in Seq(Words(MaxWidth))
    BY <1>3, <2>1
  <2>3. StoredWell(Stored(w, s, clear))
    BY <1>3, <1>10, <1>12, <2>2, StoredForms DEF InBytes
  <2>4. WordOf(Stored(w, s, clear)) = Assemble(clear)
    BY <1>12, <2>2, <2>3, OwnBytes DEF WordOf
  <2>5. QED
    BY <1>5, <1>8, <1>9, <1>12, <2>2, <2>3, <2>4
<1>13. QED
  BY <1>11, <1>12


-----------------------------------------------------------------------------
(* The refinement: bytes and numbers *)

\* The bytes that a width takes, in the code's arithmetic and in the
\* specification's words.
LEMMA NumBytesSame ==
  ASSUME NEW w \in Widths
  PROVE  Carried!NumBytes(w) = NumBytes(w)
<1>1. PICK n \in Nat \ {0}, u \in Nat, B \in Nat \ {0} :
        /\ n = NumBytes(w) /\ B = ByteBits /\ u \in 1 .. B
        /\ w = (n - 1) * B + u
  <2>1. /\ NumBytes(w) \in Nat \ {0} /\ UsedBits(w) \in 1 .. ByteBits
        /\ w = (NumBytes(w) - 1) * ByteBits + UsedBits(w) /\ ByteBits \in Nat \ {0}
    BY LastByte, WidthFacts
  <2>2. UsedBits(w) \in Nat
    BY <2>1
  <2>3. QED
    BY <2>1, <2>2
<1>2. w \in Nat \ {0}
  BY WidthFacts
<1>3. n \in 1 .. w
  <2>1. (n - 1) * B >= n - 1
    <3>1. n - 1 \in Nat
      BY <1>1
    <3>2. \A x \in Nat : x * B >= x
      <4>1. SUFFICES ASSUME NEW x \in Nat PROVE x * B >= x
        OBVIOUS
      <4>2. CASE x = 0
        BY <1>1, <4>2
      <4>3. CASE x # 0
        BY <1>1, <4>3, ProductGrows
      <4>4. QED
        BY <4>2, <4>3
    <3>3. QED
      BY <3>1, <3>2
  <2>2. PICK z \in Int : z = (n - 1) * B
    BY <1>1
  <2>3. QED
    BY <1>1, <1>2, <2>1, <2>2
<1>4. n * B = (n - 1) * B + B
  BY <1>1
<1>5. (n - 1) * B < w /\ w <= n * B
  <2>1. PICK z \in Int : z = (n - 1) * B
    BY <1>1
  <2>2. QED
    BY <1>1, <1>4, <2>1
<1>6. ASSUME NEW m \in 1 .. w, (m - 1) * B < w, w <= m * B
      PROVE  m = n
  <2>1. \A x \in Int, y \in Int : x <= y => x * B <= y * B
    <3>1. SUFFICES ASSUME NEW x \in Int, NEW y \in Int, x <= y PROVE x * B <= y * B
      OBVIOUS
    <3>2. PICK d \in Nat : y = x + d
      <4>1. y - x \in Nat /\ y = x + (y - x)
        BY <3>1
      <4>2. QED
        BY <4>1
    <3>3. y * B = x * B + d * B /\ d * B >= 0
      BY <1>1, <3>2
    <3>4. PICK a \in Int, e \in Int : a = x * B /\ e = d * B
      BY <1>1
    <3>5. QED
      BY <3>3, <3>4
  <2>2. PICK a \in Int, b \in Int, c \in Int, d \in Int :
          a = (n - 1) * B /\ b = n * B /\ c = (m - 1) * B /\ d = m * B
    BY <1>1
  <2>3. ~(m <= n - 1)
    <3>1. m <= n - 1 => d <= a
      BY <1>1, <1>6, <2>1, <2>2
    <3>2. QED
      BY <1>2, <1>5, <1>6, <2>2, <3>1
  <2>4. ~(n <= m - 1)
    <3>1. n <= m - 1 => b <= c
      BY <1>1, <1>6, <2>1, <2>2
    <3>2. QED
      BY <1>2, <1>5, <1>6, <2>2, <3>1
  <2>5. QED
    BY <1>1, <1>2, <1>6, <2>3, <2>4
<1>7. Carried!NumBytes(w) = CHOOSE m \in 1 .. w : (m - 1) * B < w /\ w <= m * B
  BY <1>1 DEF Carried!NumBytes
<1>8. QED
  BY <1>1, <1>3, <1>5, <1>6, <1>7

\* A byte of the number of some bytes is the number of that byte.
LEMMA ByteOfWord ==
  ASSUME NEW bytes \in Seq(Words(ByteBits)), Len(bytes) * ByteBits <= MaxWidth,
         NEW i \in 0 .. Len(bytes) - 1
  PROVE  Carried!ByteOf(Number[Assemble(bytes)], i) = Number[bytes[i + 1]]
<1>1. PICK B \in Nat \ {0}, L \in Nat, M \in Nat :
        B = ByteBits /\ L = Len(bytes) /\ M = MaxWidth /\ B <= M /\ L * B <= M
  BY WidthFacts
<1>2. PICK j \in Nat : j = i * B /\ j <= M
  <2>1. i * B \in Nat
    BY <1>1
  <2>2. PICK d \in Nat : L = i + d
    <3>1. L - i \in Nat /\ L = i + (L - i)
      BY <1>1
    <3>2. QED
      BY <3>1
  <2>3. L * B = i * B + d * B /\ d * B >= 0
    BY <1>1, <2>2
  <2>4. PICK a \in Nat, e \in Nat : a = i * B /\ e = d * B
    BY <1>1
  <2>5. QED
    BY <1>1, <2>1, <2>3, <2>4
<1>3. PICK b \in Words(MaxWidth) : b = Assemble(bytes)
  BY <1>1, AssembleBound
<1>4. PICK c : c = Slice(b, MaxWidth - 1, j)
  OBVIOUS
<1>5. j \in 0 .. MaxWidth /\ B \in 0 .. MaxWidth
  BY <1>1, <1>2
<1>6. Number[b] \div Power(j) = Number[c] /\ c \in Words(MaxWidth)
  <2>1. c \in Words(MaxWidth - j)
    BY <1>4, <1>5, NumberSplits
  <2>2. MaxWidth - j \in Int /\ MaxWidth - j <= MaxWidth /\ MaxWidth \in Int
    BY <1>1, <1>2
  <2>3. c \in Words(MaxWidth)
    BY <2>1, <2>2, WordsGrow
  <2>4. QED
    BY <1>4, <1>5, <2>3, NumberDivides
<1>7. Number[c] % Power(B) = Number[c \cap Positions(B)]
  BY <1>5, <1>6, NumberDivides
<1>8. c \cap Positions(B) = bytes[i + 1]
  <2>1. bytes[i + 1] \subseteq Positions(B)
    BY <1>1 DEF Words
  <2>2. ASSUME NEW r \in Positions(B)
        PROVE  r \in c <=> r \in bytes[i + 1]
    <3>1. r \in 0 .. ByteBits - 1 /\ r \in Nat /\ i \in Nat /\ i + 1 \in 1 .. Len(bytes)
      BY <1>1, <2>2 DEF Positions
    <3>2. r + i * ByteBits \in b <=> r \in bytes[i + 1]
      BY <1>3, <3>1, AssembleMember
    <3>3. r \in c <=> \E k \in b \cap (j .. MaxWidth - 1) : r = k - j
      BY <1>4 DEF Slice
    <3>4. b \subseteq 0 .. MaxWidth - 1
      BY <1>3 DEF Words, Positions
    <3>5. r + j \in b <=> r \in c
      <4>1. ASSUME r + j \in b
            PROVE  r \in c
        <5>1. r + j \in j .. MaxWidth - 1 /\ (r + j) - j = r
          BY <1>1, <1>2, <3>1, <3>4, <4>1
        <5>2. QED
          BY <3>3, <4>1, <5>1
      <4>2. ASSUME r \in c
            PROVE  r + j \in b
        <5>1. PICK k \in b \cap (j .. MaxWidth - 1) : r = k - j
          BY <3>3, <4>2
        <5>2. r + j = k
          BY <1>1, <1>2, <3>1, <5>1
        <5>3. QED
          BY <5>1, <5>2
      <4>3. QED
        BY <4>1, <4>2
    <3>6. QED
      BY <1>1, <1>2, <3>2, <3>5
  <2>3. QED
    BY <2>1, <2>2
<1>9. PowersOfTwo[j] = Power(j) /\ PowersOfTwo[B] = Power(B)
  BY <1>5 DEF PowersOfTwo
<1>10. Carried!ByteOf(Number[b], i) = (Number[b] \div PowersOfTwo[j]) % PowersOfTwo[B]
  BY <1>1, <1>2 DEF Carried!ByteOf
<1>11. QED
  BY <1>3, <1>6, <1>7, <1>8, <1>9, <1>10

\* As many bytes of a word as it fills make the word.
LEMMA AssembleAll ==
  ASSUME NEW n \in Nat, NEW c \in Words(n * ByteBits)
  PROVE  Assemble(Split(c, n)) = c
<1>1. PICK B \in Nat \ {0} : B = ByteBits
  BY WidthFacts
<1>2. PICK m \in Nat : m = n * B
  BY <1>1
<1>3. c \subseteq 0 .. m - 1 /\ c \in SUBSET Int
  BY <1>1, <1>2 DEF Words, Positions
<1>4. /\ Split(c, n) \in Seq(Words(ByteBits)) /\ Len(Split(c, n)) = n
      /\ \A q \in Nat, r \in 0 .. ByteBits - 1 :
            q + 1 \in 1 .. n => (r \in Split(c, n)[q + 1] <=> r + q * ByteBits \in c)
  BY <1>3, SplitMember
<1>5. ASSUME NEW k \in Nat
      PROVE  k \in Assemble(Split(c, n)) <=> k \in c
  <2>1. PICK q \in Nat, r \in 0 .. ByteBits - 1 : k = r + q * ByteBits
    BY PlaceOf
  <2>2. k \in Assemble(Split(c, n)) <=> q + 1 \in 1 .. n /\ r \in Split(c, n)[q + 1]
    BY <1>4, <2>1, AssembleMember
  <2>3. k \in c => q + 1 \in 1 .. n
    <3>1. SUFFICES ASSUME k < m PROVE q < n
      BY <1>3
    <3>2. SUFFICES ASSUME ~(q < n) PROVE FALSE
      OBVIOUS
    <3>3. PICK d \in Nat : q = n + d
      <4>1. q - n \in Nat /\ q = n + (q - n)
        BY <3>2
      <4>2. QED
        BY <4>1
    <3>4. q * B = n * B + d * B /\ d * B >= 0
      BY <1>1, <3>3
    <3>5. PICK a \in Nat, e \in Nat : a = q * B /\ e = d * B
      BY <1>1
    <3>6. k = r + a /\ a = m + e /\ r >= 0 /\ r \in Int
      BY <1>1, <1>2, <2>1, <3>4, <3>5
    <3>7. QED
      BY <1>2, <3>1, <3>5, <3>6
  <2>4. QED
    BY <1>4, <2>1, <2>2, <2>3
<1>6. Assemble(Split(c, n)) \in SUBSET Nat
  BY <1>4, AssembleType
<1>7. c \in SUBSET Nat
  BY <1>2, <1>3
<1>8. QED
  BY <1>5, <1>6, <1>7

\* The number read from the other end is that of the bytes in the other order.
LEMMA MirrorReverses ==
  ASSUME NEW bytes \in Seq(Words(ByteBits)), Len(bytes) * ByteBits <= MaxWidth
  PROVE  /\ Reverse(bytes) \in Seq(Words(ByteBits)) /\ Len(Reverse(bytes)) = Len(bytes)
         /\ Carried!Mirror(Len(bytes), Number[Assemble(bytes)]) =
              Number[Assemble(Reverse(bytes))]
<1>1. PICK B \in Nat \ {0}, L \in Nat, M \in Nat :
        B = ByteBits /\ L = Len(bytes) /\ M = MaxWidth /\ L * B <= M
  <2>1. ByteBits \in Nat \ {0} /\ Len(bytes) \in Nat /\ MaxWidth \in Nat
    BY WidthFacts
  <2>2. QED
    BY <2>1
<1>2. PICK m \in Nat : m = L * B /\ m <= M
  BY <1>1
<1>3. m \in 0 .. MaxWidth
  BY <1>1, <1>2
<1>4. PICK back : back = Reverse(bytes)
  OBVIOUS
<1>5. /\ back \in Seq(Words(ByteBits)) /\ Len(back) = L
      /\ \A i \in 1 .. L : back[i] = bytes[(L - i) + 1]
  BY <1>1, <1>4 DEF Reverse
<1>6. PICK x \in Int, y \in Int : x = Number[Assemble(bytes)] /\ y = Number[Assemble(back)]
  <2>1. Assemble(bytes) \in Words(MaxWidth) /\ Assemble(back) \in Words(MaxWidth)
    BY <1>1, <1>5, AssembleBound
  <2>2. QED
    BY <2>1, NumberAssumption
<1>7. y \in 0 .. Power(m) - 1
  <2>1. Assemble(back) \in Words(m)
    BY <1>1, <1>2, <1>5, AssembleBound
  <2>2. y \in Nat /\ y < Power(m)
    BY <1>3, <1>6, <2>1, NumberBound
  <2>3. QED
    BY <1>3, <2>2, PowerType
<1>8. \A i \in 0 .. L - 1 :
        /\ Carried!ByteOf(y, i) = Number[back[i + 1]]
        /\ Carried!ByteOf(x, L - 1 - i) = Number[back[i + 1]]
  <2>1. SUFFICES ASSUME NEW i \in 0 .. L - 1
        PROVE  /\ Carried!ByteOf(y, i) = Number[back[i + 1]]
               /\ Carried!ByteOf(x, L - 1 - i) = Number[back[i + 1]]
    OBVIOUS
  <2>2. Carried!ByteOf(y, i) = Number[back[i + 1]]
    BY <1>1, <1>5, <1>6, ByteOfWord
  <2>3. PICK k \in 0 .. L - 1 : k = L - 1 - i /\ k + 1 = (L - (i + 1)) + 1
    <3>1. L - 1 - i \in 0 .. L - 1 /\ (L - 1 - i) + 1 = (L - (i + 1)) + 1
      BY <1>1, <2>1
    <3>2. QED
      BY <3>1
  <2>4. Carried!ByteOf(x, k) = Number[bytes[k + 1]]
    BY <1>1, <1>6, ByteOfWord
  <2>5. back[i + 1] = bytes[k + 1]
    <3>1. i + 1 \in 1 .. L
      BY <1>1, <2>1
    <3>2. QED
      BY <1>5, <2>3, <3>1
  <2>6. QED
    BY <2>2, <2>3, <2>4, <2>5
<1>9. ASSUME NEW z \in 0 .. Power(m) - 1,
             \A i \in 0 .. L - 1 : Carried!ByteOf(z, i) = Carried!ByteOf(x, L - 1 - i)
      PROVE  z = y
  <2>1. PICK c \in Words(m) : Number[c] = z
    BY <1>3, EveryNumber
  <2>2. PICK own : own = Split(c, L)
    OBVIOUS
  <2>3. Assemble(own) = c
    BY <1>1, <1>2, <2>2, AssembleAll
  <2>4. own \in Seq(Words(ByteBits)) /\ Len(own) = L
    <3>1. c \in SUBSET Int
      BY DEF Words, Positions
    <3>2. QED
      BY <2>2, <3>1, SplitMember
  <2>5. ASSUME NEW i \in 0 .. L - 1
        PROVE  own[i + 1] = back[i + 1]
    <3>1. Carried!ByteOf(z, i) = Number[own[i + 1]]
      BY <1>1, <2>1, <2>3, <2>4, ByteOfWord
    <3>2. Number[own[i + 1]] = Number[back[i + 1]]
      BY <1>8, <1>9, <3>1
    <3>3. own[i + 1] \in Words(MaxWidth) /\ back[i + 1] \in Words(MaxWidth)
      <4>1. Words(ByteBits) \subseteq Words(MaxWidth)
        BY WidthFacts, WordsGrow
      <4>2. i + 1 \in 1 .. L
        BY <1>1
      <4>3. QED
        BY <1>5, <2>4, <4>1, <4>2
    <3>4. QED
      BY <3>2, <3>3, NumberInjective
  <2>6. \A i \in 1 .. L : own[i] = back[i]
    <3>1. \A i \in 1 .. L : i - 1 \in 0 .. L - 1 /\ (i - 1) + 1 = i
      BY <1>1
    <3>2. QED
      BY <2>5, <3>1
  <2>7. own = back
    BY <1>5, <2>4, <2>6
  <2>8. QED
    BY <1>6, <2>1, <2>3, <2>7
<1>10. Carried!Mirror(L, x) =
         CHOOSE z \in 0 .. Power(m) - 1 :
            \A i \in 0 .. L - 1 : Carried!ByteOf(z, i) = Carried!ByteOf(x, L - 1 - i)
  <2>1. PowersOfTwo[L * ByteBits] = Power(m)
    BY <1>1, <1>2, <1>3 DEF PowersOfTwo
  <2>2. QED
    BY <2>1 DEF Carried!Mirror
<1>11. Carried!Mirror(L, x) = y
  BY <1>7, <1>8, <1>9, <1>10
<1>12. QED
  BY <1>1, <1>4, <1>5, <1>6, <1>11


-----------------------------------------------------------------------------
(* The refinement: what a thing is to the specification *)

\* A thing of one word that is no BitVec.
LEMMA AbsWord ==
  ASSUME NEW kind, kind # "vec", kind # "bytes", NEW w, NEW s, NEW b \in SUBSET Int
  PROVE  Abs(Thing(kind, w, s, <<b>>)) = Carried!Of(kind, w, s, Value(w, s, b))
<1>1. Assemble(<<b>>) = b
  <2>1. DOMAIN <<b>> = {1} /\ <<b>>[1] = b
    OBVIOUS
  <2>2. Assemble(<<b>>) = {k + (1 - 1) * ByteBits : k \in b}
    BY <2>1 DEF Assemble
  <2>3. (1 - 1) * ByteBits = 0
    <3>1. PICK B \in Nat : B = ByteBits
      BY WidthFacts
    <3>2. (1 - 1) * B = 0
      OBVIOUS
    <3>3. QED
      BY <3>1, <3>2
  <2>4. \A k \in b : k + (1 - 1) * ByteBits = k
    BY <2>3
  <2>5. QED
    BY <2>2, <2>4
<1>2. PICK t : t = Thing(kind, w, s, <<b>>)
  OBVIOUS
<1>3. t.kind = kind /\ t.w = w /\ t.s = s /\ t.data = <<b>>
  BY <1>2 DEF Thing
<1>4. AbsNumber(t) = Value(w, s, b)
  BY <1>1, <1>3 DEF AbsNumber
<1>5. QED
  BY <1>2, <1>3, <1>4 DEF Abs, Carried!Of

\* Bytes.
LEMMA AbsBytes ==
  ASSUME NEW bytes
  PROVE  Abs(Bytes(bytes)) = Carried!Of("bytes", Len(bytes), FALSE, Number[Assemble(bytes)])
<1>1. PICK t : t = Bytes(bytes)
  OBVIOUS
<1>2. t.kind = "bytes" /\ t.s = FALSE /\ t.data = bytes
  BY <1>1 DEF Bytes, Thing
<1>3. AbsNumber(t) = Number[Assemble(bytes)]
  BY <1>2 DEF AbsNumber, Value
<1>4. QED
  BY <1>1, <1>2, <1>3 DEF Abs, Carried!Of

\* Booleans.
LEMMA AbsTruth ==
  ASSUME NEW kind, kind # "vec", kind # "bytes", NEW flag \in BOOLEAN
  PROVE  Abs(Truth(kind, flag)) = Carried!Of(kind, 0, FALSE, IF flag THEN 1 ELSE 0)
<1>1. PICK b \in SUBSET Int : b = IF flag THEN {0} ELSE {}
  <2>1. (IF flag THEN {0} ELSE {}) \in SUBSET Int
    OBVIOUS
  <2>2. QED
    BY <2>1
<1>2. Number[b] = IF flag THEN 1 ELSE 0
  <2>1. Number[{}] = 0
    BY NumberAssumption
  <2>2. Number[{0}] = 1
    <3>1. 0 \in Positions(MaxWidth)
      BY WidthFacts DEF Positions
    <3>2. Weight(0) = 1
      BY <3>1, NumberAssumption
    <3>3. QED
      BY <3>2 DEF Weight
  <2>3. QED
    BY <1>1, <2>1, <2>2
<1>3. PICK s : s = FALSE
  OBVIOUS
<1>4. Value(0, s, b) = Number[b]
  BY <1>3 DEF Value
<1>5. Truth(kind, flag) = Thing(kind, 0, s, <<b>>)
  BY <1>1, <1>3 DEF Truth
<1>6. Abs(Truth(kind, flag)) = Carried!Of(kind, 0, s, Value(0, s, b))
  BY <1>5, AbsWord
<1>7. QED
  BY <1>2, <1>3, <1>4, <1>6

\* A BitVec.
LEMMA AbsVec ==
  ASSUME NEW w \in Widths, NEW s \in BOOLEAN, NEW data \in Seq(Words(MaxWidth)),
         StoredWell(Stored(w, s, data))
  PROVE  Abs(Stored(w, s, data)) =
           Carried!Of("vec", w, s, Value(w, s, WordOf(Stored(w, s, data))))
<1>1. PICK t : t = Stored(w, s, data)
  OBVIOUS
<1>2. t.kind = "vec" /\ t.w = w /\ t.s = s /\ t.data = data
  BY <1>1 DEF Stored, Thing
<1>3. AbsNumber(t) = Value(w, s, WordOf(t))
  BY <1>1, StoredNumber
<1>4. QED
  BY <1>1, <1>2, <1>3 DEF Abs, Carried!Of

\* A BitVec that is made from a word is the number of its type that is equal
\* to that of the word in the low bits.
LEMMA AbsMade ==
  ASSUME NEW w \in Widths, NEW s \in BOOLEAN, NEW b \in Words(Longest),
         NEW x \in Int, NEW k \in Int, x = Number[b] + k * Power(w)
  PROVE  /\ Abs(Made(w, s, b)) = Carried!Of("vec", w, s, Carried!Fit(w, s, x))
         /\ Carried!Fit(w, s, x) \in Carried!ValueSet(w, s)
<1>1. PICK data \in Seq(Words(MaxWidth)) :
        /\ Made(w, s, b) = Stored(w, s, data) /\ StoredWell(Stored(w, s, data))
        /\ WordOf(Stored(w, s, data)) = b \cap Positions(w)
  BY MadeBits
<1>2. b \in Words(MaxWidth)
  BY WidthFacts, WordsGrow
<1>3. Carried!Fit(w, s, x) = Value(w, s, b \cap Positions(w))
  BY <1>2, FitOfWord
<1>4. b \cap Positions(w) \in Words(w)
  BY DEF Words
<1>5. Carried!Fit(w, s, x) \in Carried!ValueSet(w, s)
  BY <1>3, <1>4, WordInRange
<1>6. QED
  BY <1>1, <1>3, <1>5, AbsVec

\* So is one that is read from bytes, and the bits above its own are told of
\* when the number is too large.
LEMMA AbsRead ==
  ASSUME NEW w \in Widths, NEW s \in BOOLEAN, NEW bytes \in Seq(Words(ByteBits)),
         Len(bytes) * ByteBits <= MaxWidth
  PROVE  /\ Number[Assemble(bytes)] \in Nat
         /\ Abs(TryFromLeBytes(w, s, bytes).vec) =
              Carried!Of("vec", w, s, Carried!Fit(w, s, Number[Assemble(bytes)]))
         /\ TryFromLeBytes(w, s, bytes).truncated <=>
              ~(Number[Assemble(bytes)] < PowersOfTwo[w])
<1>1. PICK b \in Words(MaxWidth) : b = Assemble(bytes)
  BY AssembleBound, WidthFacts
<1>2. PICK n \in Nat : n = Number[b]
  BY NumberAssumption
<1>3. w \in 0 .. MaxWidth /\ PowersOfTwo[w] = Power(w) /\ Power(w) \in Nat
  BY WidthFacts, RangeOf
<1>4. n = Number[b] + 0 * Power(w)
  BY <1>2, <1>3
<1>5. Carried!Fit(w, s, n) = Value(w, s, b \cap Positions(w))
  BY <1>2, <1>4, FitOfWord
<1>6. PICK data \in Seq(Words(MaxWidth)) :
        /\ TryFromLeBytes(w, s, bytes).vec = Stored(w, s, data)
        /\ StoredWell(Stored(w, s, data))
        /\ WordOf(Stored(w, s, data)) = b \cap Positions(w)
        /\ TryFromLeBytes(w, s, bytes).truncated <=> ~(b \subseteq Positions(w))
  BY <1>1, ReadBits
<1>7. b \subseteq Positions(w) <=> n < Power(w)
  BY <1>2, <1>3, NumberFits DEF Words
<1>8. Abs(Stored(w, s, data)) = Carried!Of("vec", w, s, Carried!Fit(w, s, n))
  <2>1. Value(w, s, WordOf(Stored(w, s, data))) = Carried!Fit(w, s, n)
    BY <1>5, <1>6
  <2>2. Abs(Stored(w, s, data)) =
          Carried!Of("vec", w, s, Value(w, s, WordOf(Stored(w, s, data))))
    BY <1>6, AbsVec
  <2>3. QED
    BY <2>1, <2>2
<1>9. QED
  BY <1>1, <1>2, <1>3, <1>6, <1>7, <1>8

-----------------------------------------------------------------------------
(* The refinement: every step is one of the specification *)

\* The last call is a record.
CallForm == call = [op |-> call.op, arg |-> call.arg, told |-> call.told]

\* The program starts as the specification does.
LEMMA FreshMaps ==
  ASSUME CallForm, NEW op, NEW t, Fresh(op, t)
  PROVE  Carried!Starts /\ Carried!Fresh(op, Abs(t)) /\ CallForm'
<1>1. PICK a, r : call = [op |-> "start", arg |-> a, told |-> r]
  BY DEF CallForm, Fresh
<1>2. [call EXCEPT !.arg = Abs(call.arg)].op = "start"
  BY <1>1
<1>3. call' = [op |-> op, arg |-> t, told |-> "made"] /\ item' = t
  BY DEF Fresh
<1>4. [call EXCEPT !.arg = Abs(call.arg)]' = [op |-> op, arg |-> Abs(t), told |-> "made"]
  BY <1>3
<1>5. QED
  BY <1>2, <1>3, <1>4 DEF Carried!Starts, Carried!Fresh, CallForm

\* It goes on as the specification does.
LEMMA ConvertMaps ==
  ASSUME CallForm, NEW op, NEW told, NEW t, Convert(op, told, t)
  PROVE  Carried!Convert(op, told, Abs(t)) /\ CallForm'
<1>1. PICK o, a, r : call = [op |-> o, arg |-> a, told |-> r] /\ r # "aborted"
  BY DEF CallForm, Convert, Running
<1>2. [call EXCEPT !.arg = Abs(call.arg)].told # "aborted"
  BY <1>1
<1>3. call' = [op |-> op, arg |-> item, told |-> told] /\ item' = t
  BY DEF Convert
<1>4. [call EXCEPT !.arg = Abs(call.arg)]' = [op |-> op, arg |-> Abs(item), told |-> told]
  BY <1>3
<1>5. QED
  BY <1>2, <1>3, <1>4 DEF Carried!Going, Carried!Convert, CallForm

\* A word of some width is a set of integers.
LEMMA BitsAreIntegers ==
  ASSUME NEW w, NEW b \in Words(w)
  PROVE  b \in SUBSET Int
BY DEF Words, Positions

\* Values that are read, or made from nothing.
LEMMA ReadMaps ==
  ASSUME CallForm, \/ ReadInt \/ ReadBytes \/ ReadBool \/ NewVec \/ NewFlag \/ DefaultVec
  PROVE  Carried!Read /\ CallForm'
<1>1. CASE ReadInt
  <2>1. PICK n \in NativeWidths, s \in BOOLEAN :
           \E b \in Words(n) : Fresh("int", Native(n, s, b))
    BY <1>1 DEF ReadInt
  <2>2. PICK b \in Words(n) : Fresh("int", Native(n, s, b))
    BY <2>1
  <2>3. n \in Widths
    BY NativeAssumption
  <2>4. PICK v : v = Value(n, s, b) /\ v \in Carried!ValueSet(n, s)
    BY <2>3, WordInRange
  <2>5. Abs(Native(n, s, b)) = Carried!Of("int", n, s, v)
    BY <2>4, BitsAreIntegers, AbsWord DEF Native
  <2>6. /\ Carried!Starts /\ CallForm'
        /\ Carried!Fresh("int", Carried!Of("int", n, s, v))
    BY <2>2, <2>5, FreshMaps
  <2>7. QED
    BY <2>4, <2>6 DEF Carried!Read
<1>2. CASE ReadBytes
  <2>1. PICK bytes \in Buffers : Fresh("bytes", Bytes(bytes))
    BY <1>2 DEF ReadBytes
  <2>2. PICK in : in = [w |-> Len(bytes), n |-> AbsNumber(Bytes(bytes))]
    OBVIOUS
  <2>3. in \in {[w |-> Len(b), n |-> AbsNumber(Bytes(b))] : b \in Buffers}
    BY <2>2
  <2>4. PICK t : t = Bytes(bytes)
    OBVIOUS
  <2>5. Abs(t) = Carried!Of("bytes", in.w, FALSE, in.n)
    <3>1. t.kind = "bytes" /\ t.s = FALSE /\ t.data = bytes
      BY <2>4 DEF Bytes, Thing
    <3>2. in.w = Len(bytes) /\ in.n = AbsNumber(t)
      BY <2>2, <2>4
    <3>3. QED
      BY <3>1, <3>2 DEF Abs, Carried!Of
  <2>6. Fresh("bytes", t)
    BY <2>1, <2>4
  <2>7. /\ Carried!Starts /\ CallForm'
        /\ Carried!Fresh("bytes", Carried!Of("bytes", in.w, FALSE, in.n))
    BY <2>5, <2>6, FreshMaps
  <2>8. QED
    BY <2>3, <2>7 DEF Carried!Read
<1>3. CASE ReadBool
  <2>1. PICK flag \in BOOLEAN : Fresh("bool", Truth("bool", flag))
    BY <1>3 DEF ReadBool
  <2>2. PICK n : n = (IF flag THEN 1 ELSE 0) /\ n \in {0, 1}
    OBVIOUS
  <2>3. Abs(Truth("bool", flag)) = Carried!Of("bool", 0, FALSE, n)
    BY <2>2, AbsTruth
  <2>4. /\ Carried!Starts /\ CallForm'
        /\ Carried!Fresh("bool", Carried!Of("bool", 0, FALSE, n))
    BY <2>1, <2>3, FreshMaps
  <2>5. QED
    BY <2>2, <2>4 DEF Carried!Read
<1>4. CASE NewFlag
  <2>1. PICK flag \in BOOLEAN : Fresh("variable", Truth("symbool", flag))
    BY <1>4 DEF NewFlag
  <2>2. PICK n : n = (IF flag THEN 1 ELSE 0) /\ n \in {0, 1}
    OBVIOUS
  <2>3. Abs(Truth("symbool", flag)) = Carried!Of("symbool", 0, FALSE, n)
    BY <2>2, AbsTruth
  <2>4. /\ Carried!Starts /\ CallForm'
        /\ Carried!Fresh("variable", Carried!Of("symbool", 0, FALSE, n))
    BY <2>1, <2>3, FreshMaps
  <2>5. QED
    BY <2>2, <2>4 DEF Carried!Read
<1>5. CASE NewVec
  <2>1. PICK ty \in VecTypes : \E b \in Words(ty.w) : Fresh("variable", Sym(ty.w, ty.s, b))
    BY <1>5 DEF NewVec
  <2>2. PICK b \in Words(ty.w) : Fresh("variable", Sym(ty.w, ty.s, b))
    BY <2>1
  <2>3. ty.w \in Widths /\ ty.s \in BOOLEAN
    BY VecTypeParts
  <2>4. PICK v : v = Value(ty.w, ty.s, b) /\ v \in Carried!ValueSet(ty.w, ty.s)
    BY <2>3, WordInRange
  <2>5. Abs(Sym(ty.w, ty.s, b)) = Carried!Of("sym", ty.w, ty.s, v)
    BY <2>4, BitsAreIntegers, AbsWord DEF Sym
  <2>6. /\ Carried!Starts /\ CallForm'
        /\ Carried!Fresh("variable", Carried!Of("sym", ty.w, ty.s, v))
    BY <2>2, <2>5, FreshMaps
  <2>7. QED
    BY <2>4, <2>6 DEF Carried!Read
<1>6. CASE DefaultVec
  <2>1. PICK ty \in VecTypes : Fresh("default", Made(ty.w, ty.s, {}))
    BY <1>6 DEF DefaultVec
  <2>2. ty.w \in Widths /\ ty.s \in BOOLEAN
    BY VecTypeParts
  <2>3. {} \in Words(Longest) /\ {} \in Words(ty.w) /\ Number[{}] = 0
    BY NumberAssumption DEF Words
  <2>4. Value(ty.w, ty.s, {}) = 0
    BY <2>3 DEF Value
  <2>5. 0 \in Carried!ValueSet(ty.w, ty.s)
    BY <2>2, <2>3, <2>4, WordInRange
  <2>6. Carried!Fit(ty.w, ty.s, 0) = 0
    BY <2>2, <2>5, FitOfMember
  <2>7. 0 = Number[{}] + 0 * Power(ty.w)
    BY <2>2, <2>3, RangeOf
  <2>8. Abs(Made(ty.w, ty.s, {})) = Carried!Of("vec", ty.w, ty.s, 0)
    BY <2>2, <2>3, <2>6, <2>7, AbsMade
  <2>9. /\ Carried!Starts /\ CallForm'
        /\ Carried!Fresh("default", Carried!Of("vec", ty.w, ty.s, 0))
    BY <2>1, <2>8, FreshMaps
  <2>10. QED
    BY <2>9 DEF Carried!Read
<1>7. QED
  BY <1>1, <1>2, <1>3, <1>4, <1>5, <1>6

\* A literal of a BitVec.
LEMMA LiteralMaps ==
  ASSUME CallForm, Literal
  PROVE  Carried!Literal /\ CallForm'
<1>1. PICK ty \in VecTypes, b \in Words(Longest) :
        /\ LiteralCompiles(ty.w, ty.s, Value(Longest, TRUE, b))
        /\ Fresh("literal", Made(ty.w, ty.s, b))
  BY DEF Literal
<1>2. PICK w, s : w = ty.w /\ s = ty.s /\ w \in Widths /\ s \in BOOLEAN
  BY VecTypeParts
<1>3. /\ Longest \in Widths /\ Longest \in Nat \ {0} /\ Longest <= MaxWidth
      /\ w \in Nat \ {0} /\ w <= MaxWidth /\ MaxWidth \in Nat /\ b \in Words(MaxWidth)
  BY <1>2, WidthFacts, NativeAssumption, WordsGrow
<1>4. PICK yes \in BOOLEAN : yes = TRUE
  OBVIOUS
<1>5. PICK n \in Int : n = Value(Longest, yes, b) /\ n \in Carried!ValueSet(Longest, yes)
  BY <1>3, WordInRange
<1>6. PICK p \in Nat \ {0}, h \in Nat \ {0}, P \in Nat \ {0}, H \in Nat \ {0}, x \in Nat :
        /\ p = Power(w) /\ h = Weight(w - 1) /\ p = 2 * h
        /\ P = Power(Longest) /\ H = Weight(Longest - 1) /\ P = 2 * H
        /\ x = Number[b]
  <2>1. Number[b] \in Nat
    BY <1>3, WordInRange, <1>4
  <2>2. /\ Power(w) \in Nat \ {0} /\ Weight(w - 1) \in Nat \ {0}
        /\ Power(w) = 2 * Weight(w - 1)
    BY <1>2, RangeOf
  <2>3. /\ Power(Longest) \in Nat \ {0} /\ Weight(Longest - 1) \in Nat \ {0}
        /\ Power(Longest) = 2 * Weight(Longest - 1)
    BY <1>3, RangeOf
  <2>4. QED
    BY <2>1, <2>2, <2>3
<1>7. Carried!ValueSet(w, s) = IF s THEN -h .. (h - 1) ELSE 0 .. (p - 1)
  BY <1>2, <1>6, RangeOf
<1>8. -H <= n /\ n <= H - 1
  <2>1. Carried!ValueSet(Longest, yes) = -H .. (H - 1)
    BY <1>3, <1>4, <1>6, RangeOf
  <2>2. n \in -H .. (H - 1)
    BY <1>5, <2>1
  <2>3. QED
    BY <1>6, <2>2
<1>9. \E k \in {0, 1} : x = n + k * P
  BY <1>3, <1>5, <1>6, WordInRange
<1>10. LiteralCompiles(w, s, n)
  BY <1>1, <1>2, <1>4, <1>5
<1>11. MinSigned(w) = -h /\ MaxSigned(w) = h - 1 /\ MaxUnsigned(w) = p - 1
  BY <1>6 DEF MinSigned, MaxSigned, MaxUnsigned
<1>12. n \in Carried!ValueSet(w, s) /\ (Narrow(w) \/ n >= 0)
  <2>1. CASE Narrow(w)
    <3>1. IF s THEN -h <= n /\ n <= h - 1 ELSE 0 <= n /\ n <= p - 1
      BY <1>10, <1>11, <2>1 DEF LiteralCompiles
    <3>2. QED
      BY <1>6, <1>7, <2>1, <3>1
  <2>2. CASE ~Narrow(w)
    <3>1. n >= 0
      BY <1>10, <2>2 DEF LiteralCompiles
    <3>2. P <= h
      <4>1. Longest <= w - 1 /\ w - 1 \in Nat /\ w - 1 <= MaxWidth
        BY <1>3, <2>2 DEF Narrow
      <4>2. Power(Longest) <= Power(w - 1)
        BY <1>3, <4>1, PowerMultiple
      <4>3. Power(w - 1) = Weight(w - 1)
        BY <1>3, <4>1, PowerType
      <4>4. QED
        BY <1>6, <4>2, <4>3
    <3>3. n <= h - 1 /\ n <= p - 1 /\ -h <= n
      BY <1>5, <1>6, <1>8, <3>1, <3>2
    <3>4. QED
      BY <1>6, <1>7, <3>1, <3>3
  <2>3. QED
    BY <2>1, <2>2
<1>13. PICK k \in Int : n = x + k * p
  <2>1. PICK j \in {0, 1} : x = n + j * P
    BY <1>9
  <2>2. CASE Narrow(w)
    <3>1. PICK q \in Nat \ {0} : P = p * q
      <4>1. w \in Nat /\ Longest \in Nat /\ w <= Longest
        BY <1>3, <2>2 DEF Narrow
      <4>2. /\ Power(Longest - w) \in Nat \ {0}
            /\ Power(Longest) = Power(w) * Power(Longest - w)
        BY <1>3, <4>1, PowerMultiple
      <4>3. QED
        BY <1>6, <4>2
    <3>2. n = x + (-(j * q)) * p
      BY <2>1, <3>1
    <3>3. -(j * q) \in Int
      BY <2>1, <3>1
    <3>4. QED
      BY <3>2, <3>3
  <2>3. CASE ~Narrow(w)
    <3>1. n >= 0
      BY <1>12, <2>3
    <3>2. x < P
      <4>1. Number[b] < Power(Longest)
        BY <1>3, <1>4, WordInRange
      <4>2. QED
        BY <1>6, <4>1
    <3>3. j = 0
      BY <1>6, <2>1, <3>1, <3>2
    <3>4. n = x + 0 * p
      BY <1>6, <2>1, <3>3
    <3>5. QED
      BY <3>4
  <2>4. QED
    BY <2>2, <2>3
<1>14. Carried!Fit(w, s, n) = n
  BY <1>2, <1>12, FitOfMember
<1>15. n = Number[b] + k * Power(w)
  BY <1>6, <1>13
<1>16. Abs(Made(w, s, b)) = Carried!Of("vec", w, s, n)
  BY <1>2, <1>14, <1>15, AbsMade
<1>17. /\ Carried!Starts /\ CallForm'
       /\ Carried!Fresh("literal", Carried!Of("vec", ty.w, ty.s, n))
  BY <1>1, <1>2, <1>16, FreshMaps
<1>18. Narrow(w) <=> Carried!Narrow(w)
  BY DEF Narrow, Carried!Narrow
<1>19. n \in Carried!ValueSet(Longest, TRUE)
  BY <1>4, <1>5
<1>20. QED
  BY <1>2, <1>12, <1>17, <1>18, <1>19 DEF Carried!Literal


\* A literal of a SymBitVec.
LEMMA SymbolicLiteralMaps ==
  ASSUME CallForm, SymbolicLiteral
  PROVE  Carried!SymbolicLiteral /\ CallForm'
<1>1. PICK ty \in VecTypes, b \in Words(Longest) :
        /\ call.op = "start" /\ SymLiteralCompiles(ty.w, b)
        /\ item' = SymLiteral(ty.w, ty.s, b)
        /\ call' = [op |-> "Literal", arg |-> Native(Longest, FALSE, b), told |-> "made"]
  BY DEF SymbolicLiteral
<1>2. PICK w, s : w = ty.w /\ s = ty.s /\ w \in Widths /\ s \in BOOLEAN
  BY VecTypeParts
<1>3. PICK no \in BOOLEAN : no = FALSE
  OBVIOUS
<1>4. /\ Longest \in Widths /\ Longest \in Nat \ {0} /\ Longest <= MaxWidth
      /\ w \in 0 .. MaxWidth /\ b \in Words(MaxWidth) /\ b \in SUBSET Int
      /\ b \cap Positions(w) \in SUBSET Int
  <2>1. /\ Longest \in Widths /\ Longest \in Nat \ {0} /\ Longest <= MaxWidth
        /\ MaxWidth \in Nat /\ w \in 0 .. MaxWidth
    BY <1>2, WidthFacts, NativeAssumption
  <2>2. QED
    BY <2>1, WordsGrow, BitsAreIntegers
<1>5. PICK n \in Nat : n = Number[b] /\ n = Value(Longest, no, b) /\ n \in Carried!ValueSet(Longest, no)
  BY <1>3, <1>4, WordInRange
<1>6. n \in Carried!ValueSet(w, FALSE)
  <2>1. b \in Words(w)
    BY <1>1, <1>2, <1>4, WordsGrow DEF SymLiteralCompiles, Words
  <2>2. n < Power(w)
    BY <1>4, <1>5, <2>1, NumberFits
  <2>3. Carried!ValueSet(w, no) = 0 .. (Power(w) - 1) /\ Power(w) \in Nat
    BY <1>2, <1>3, RangeOf
  <2>4. n \in Carried!ValueSet(w, no)
    BY <1>5, <2>2, <2>3
  <2>5. QED
    BY <1>3, <2>4
<1>7. Carried!Fit(w, s, n) = Value(w, s, b \cap Positions(w))
  <2>1. n = Number[b] + 0 * Power(w)
    BY <1>2, <1>5, RangeOf
  <2>2. QED
    BY <1>2, <1>4, <1>5, <2>1, FitOfWord
<1>8. Abs(SymLiteral(w, s, b)) = Carried!Of("sym", w, s, Carried!Fit(w, s, n))
  BY <1>4, <1>7, AbsWord DEF SymLiteral, Sym
<1>9. Abs(Native(Longest, FALSE, b)) = Carried!Of("int", Longest, FALSE, n)
  <2>1. Abs(Thing("int", Longest, no, <<b>>)) = Carried!Of("int", Longest, no, Value(Longest, no, b))
    BY <1>4, AbsWord
  <2>2. QED
    BY <1>3, <1>5, <2>1 DEF Native
<1>10. Carried!Starts
  <2>1. PICK a, r : call = [op |-> "start", arg |-> a, told |-> r]
    BY <1>1 DEF CallForm
  <2>2. [call EXCEPT !.arg = Abs(call.arg)].op = "start"
    BY <2>1
  <2>3. QED
    BY <2>2 DEF Carried!Starts
<1>11. [call EXCEPT !.arg = Abs(call.arg)]' =
         [op |-> "Literal", arg |-> Carried!Of("int", Longest, FALSE, n), told |-> "made"]
  <2>1. PICK a : a = Native(Longest, FALSE, b)
    OBVIOUS
  <2>2. call' = [op |-> "Literal", arg |-> a, told |-> "made"]
    BY <1>1, <2>1
  <2>3. Abs(a) = Carried!Of("int", Longest, FALSE, n)
    BY <1>9, <2>1
  <2>4. [call EXCEPT !.arg = Abs(call.arg)]' =
          [op |-> "Literal", arg |-> Abs(a), told |-> "made"]
    BY <2>2
  <2>5. QED
    BY <2>3, <2>4
<1>12. PICK m \in Carried!ValueSet(ty.w, ty.s) :
          /\ n \in Carried!ValueSet(ty.w, ty.s) => m = n
          /\ Abs(item)' = Carried!Of("sym", ty.w, ty.s, m)
  <2>1. PICK m : m = Carried!Fit(w, s, n)
    OBVIOUS
  <2>2. b \cap Positions(w) \in Words(w)
    BY DEF Words
  <2>3. m \in Carried!ValueSet(w, s)
    BY <1>2, <1>7, <2>1, <2>2, WordInRange
  <2>4. n \in Carried!ValueSet(w, s) => m = n
    BY <1>2, <2>1, FitOfMember
  <2>5. Abs(item)' = Carried!Of("sym", w, s, m)
    BY <1>1, <1>2, <1>8, <2>1
  <2>6. QED
    BY <1>2, <2>3, <2>4, <2>5
<1>13. CallForm'
  BY <1>1 DEF CallForm
<1>14. n \in Carried!ValueSet(Longest, FALSE)
  BY <1>3, <1>5
<1>15. QED
  BY <1>2, <1>6, <1>10, <1>11, <1>12, <1>13, <1>14 DEF Carried!SymbolicLiteral

\* The 64 bits of an integer, and its number.
LEMMA IntegerBits ==
  ASSUME NEW n \in NativeWidths, NEW rs \in BOOLEAN, NEW b \in Words(n)
  PROVE  /\ Uint64(Native(n, rs, b)) \in Words(Longest)
         /\ Value(n, rs, b) \in Int
         /\ \E k \in Int : Value(n, rs, b) =
                             Number[Uint64(Native(n, rs, b))] + k * Power(Longest)
         /\ Value(n, rs, b) < 0 <=> rs /\ n - 1 \in b
         /\ Value(n, rs, b) >= 0 =>
              Value(n, rs, b) = Number[Uint64(Native(n, rs, b))]
<1>1. /\ n \in Widths /\ n \in Nat \ {0} /\ n <= Longest /\ n <= MaxWidth
      /\ Longest \in Nat \ {0} /\ Longest <= MaxWidth /\ MaxWidth \in Nat
      /\ Longest \in Widths
  BY WidthFacts, NativeAssumption
<1>2. PICK raw : raw = Native(n, rs, b) /\ raw.s = rs /\ raw.w = n /\ raw.data[1] = b
  <2>1. PICK raw : raw = Native(n, rs, b)
    OBVIOUS
  <2>2. raw = [kind |-> "int", w |-> n, s |-> rs, data |-> <<b>>]
    BY <2>1 DEF Native, Thing
  <2>3. raw.s = rs /\ raw.w = n /\ raw.data = <<b>>
    BY <2>2
  <2>4. QED
    BY <2>1, <2>3
<1>3. PICK bits : bits = Uint64(raw) /\ bits = IF rs THEN SignExtended(n, b, Longest) ELSE b
  BY <1>2 DEF Uint64
<1>4. b \in Words(Longest) /\ b \in Words(MaxWidth)
  BY <1>1, WordsGrow
<1>5. PICK v \in Int : v = Value(n, rs, b)
  BY <1>1, WordInRange
<1>6. PICK x \in Nat, p \in Nat \ {0}, h \in Nat \ {0} :
        /\ x = Number[b] /\ p = Power(n) /\ h = Weight(n - 1) /\ p = 2 * h /\ x < p
  <2>1. Number[b] \in Nat /\ Number[b] < Power(n)
    BY <1>1, WordInRange
  <2>2. Power(n) \in Nat \ {0} /\ Weight(n - 1) \in Nat \ {0} /\ Power(n) = 2 * Weight(n - 1)
    BY <1>1, RangeOf
  <2>3. QED
    BY <2>1, <2>2
<1>7. v = IF rs /\ n - 1 \in b THEN x - 2 * h ELSE x
  BY <1>5, <1>6 DEF Value
<1>8. v < 0 <=> rs /\ n - 1 \in b
  BY <1>5, <1>6, <1>7
<1>9. ASSUME v >= 0
      PROVE  bits = b /\ v = x
  <2>1. ~(rs /\ n - 1 \in b)
    BY <1>5, <1>8, <1>9
  <2>2. v = x
    BY <1>7, <2>1
  <2>3. bits = b
    BY <1>3, <2>1 DEF SignExtended
  <2>4. QED
    BY <2>2, <2>3
<1>10. bits \in Words(Longest) /\ \E k \in Int : v = Number[bits] + k * Power(Longest)
  <2>1. PICK P \in Nat : P = Power(Longest)
    BY <1>1, RangeOf
  <2>2. CASE rs
    <3>1. PICK yes \in BOOLEAN : yes = TRUE /\ rs = yes
      BY <2>2
    <3>2. Longest \in n .. MaxWidth
      BY <1>1
    <3>3. SignExtended(n, b, Longest) \in Words(Longest)
          /\ Value(Longest, TRUE, SignExtended(n, b, Longest)) = Value(n, TRUE, b)
      BY <1>1, <3>2, ValueOfExtended
    <3>4. bits \in Words(Longest) /\ Value(Longest, yes, bits) = v
      BY <1>3, <1>5, <2>2, <3>1, <3>3
    <3>5. PICK j \in {0, 1} : Number[bits] = v + j * P
      BY <1>1, <2>1, <3>4, WordInRange
    <3>6. v = Number[bits] + (-j) * P /\ -j \in Int
      <4>1. PICK z \in Int : z = Number[bits]
        BY <1>5, <2>1, <3>5
      <4>2. QED
        BY <1>5, <2>1, <3>5, <4>1
    <3>7. QED
      BY <2>1, <3>4, <3>6
  <2>3. CASE ~rs
    <3>1. bits = b /\ v = x
      BY <1>3, <1>7, <2>3
    <3>2. x = x + 0 * P
      BY <1>6, <2>1
    <3>3. QED
      BY <1>4, <1>6, <2>1, <3>1, <3>2
  <2>4. QED
    BY <2>2, <2>3
<1>11. QED
  BY <1>2, <1>3, <1>5, <1>6, <1>8, <1>9, <1>10


\* Integers into BitVecs.
LEMMA IntoVecMaps ==
  ASSUME ConversionsInv, CallForm, FromInt
  PROVE  Carried!IntoVec /\ CallForm'
<1>1. item.kind = "int"
  BY DEF FromInt
<1>2. PICK n \in NativeWidths, rs \in BOOLEAN : \E b \in Words(n) : item = Native(n, rs, b)
  BY <1>1, FormOfKind DEF ConversionsInv, IsInt
<1>3. PICK b \in Words(n) : item = Native(n, rs, b)
  BY <1>2
<1>4. PICK bits : bits = Uint64(item)
  OBVIOUS
<1>5. PICK v \in Int : v = Value(n, rs, b)
  BY <1>2, <1>3, IntegerBits
<1>6. PICK j \in Int : v = Number[bits] + j * Power(Longest)
  BY <1>3, <1>4, <1>5, IntegerBits
<1>7. /\ bits \in Words(Longest) /\ (v >= 0 => v = Number[bits])
      /\ v < 0 <=> rs /\ n - 1 \in b
  BY <1>3, <1>4, <1>5, IntegerBits
<1>8. PICK ty \in VecTypes :
        LET r == TryFrom(ty.w, ty.s, item) IN Report("TryFrom", r) \/ Require("From", r)
  BY DEF FromInt
<1>9. PICK w, s : w = ty.w /\ s = ty.s /\ w \in Widths /\ s \in BOOLEAN
  BY VecTypeParts
<1>10. /\ w \in Nat \ {0} /\ w \in 0 .. MaxWidth /\ w <= MaxWidth /\ MaxWidth \in Nat
       /\ Longest \in Nat \ {0} /\ Longest <= MaxWidth /\ Longest \in Widths
       /\ bits \in Words(MaxWidth) /\ bits \cap Positions(Longest) = bits
  <2>1. /\ w \in Nat \ {0} /\ w \in 0 .. MaxWidth /\ w <= MaxWidth /\ MaxWidth \in Nat
        /\ Longest \in Nat \ {0} /\ Longest <= MaxWidth /\ Longest \in Widths
    BY <1>9, WidthFacts, NativeAssumption
  <2>2. bits \in Words(MaxWidth) /\ bits \cap Positions(Longest) = bits
    BY <1>7, <2>1, WordsGrow DEF Words
  <2>3. QED
    BY <2>1, <2>2
<1>11. PICK x \in Nat, P \in Nat \ {0}, p \in Nat \ {0}, h \in Nat \ {0} :
         /\ x = Number[bits] /\ P = Power(Longest) /\ x < P
         /\ p = Power(w) /\ h = Weight(w - 1) /\ p = 2 * h
  <2>1. Number[bits] \in Nat /\ Number[bits] < Power(Longest)
    BY <1>7, <1>10, NumberBound
  <2>2. Power(Longest) \in Nat \ {0}
    BY <1>10, RangeOf
  <2>3. Power(w) \in Nat \ {0} /\ Weight(w - 1) \in Nat \ {0} /\ Power(w) = 2 * Weight(w - 1)
    BY <1>9, RangeOf
  <2>4. QED
    BY <2>1, <2>2, <2>3
<1>12. v = x + j * P /\ (v >= 0 => v = x)
  BY <1>6, <1>7, <1>11
\* The number, the object and what is told of it.
<1>13. Abs(item) = Carried!Of("int", n, rs, v)
  BY <1>3, <1>5, BitsAreIntegers, AbsWord DEF Native
<1>14. PICK number \in Int :
         /\ Carried!Narrow(w) \/ v >= 0 => number = v
         /\ Abs(Made(w, s, bits)) = Carried!Of("vec", w, s, Carried!Fit(w, s, number))
         /\ Carried!Fit(w, s, number) \in Carried!ValueSet(w, s)
  <2>1. CASE Narrow(w)
    <3>1. PICK q \in Nat : P = p * q
      <4>1. /\ Power(Longest - w) \in Nat \ {0}
            /\ Power(Longest) = Power(w) * Power(Longest - w)
        BY <1>10, <2>1, PowerMultiple DEF Narrow
      <4>2. QED
        BY <1>11, <4>1
    <3>2. PICK k \in Int : k = j * q
      OBVIOUS
    <3>3. v = x + k * p
      BY <1>12, <3>1, <3>2
    <3>4. v = Number[bits] + k * Power(w)
      BY <1>11, <3>3
    <3>5. /\ Abs(Made(w, s, bits)) = Carried!Of("vec", w, s, Carried!Fit(w, s, v))
          /\ Carried!Fit(w, s, v) \in Carried!ValueSet(w, s)
      BY <1>7, <1>9, <3>4, AbsMade
    <3>6. QED
      BY <2>1, <3>5 DEF Narrow, Carried!Narrow
  <2>2. CASE ~Narrow(w)
    <3>1. x = Number[bits] + 0 * Power(w)
      BY <1>11
    <3>2. /\ Abs(Made(w, s, bits)) = Carried!Of("vec", w, s, Carried!Fit(w, s, x))
          /\ Carried!Fit(w, s, x) \in Carried!ValueSet(w, s)
      <4>1. PICK y \in Int, k \in Int : y = x /\ k = 0
        BY <1>11
      <4>2. y = Number[bits] + k * Power(w)
        BY <3>1, <4>1
      <4>3. QED
        BY <1>7, <1>9, <4>1, <4>2, AbsMade
    <3>3. QED
      BY <1>11, <1>12, <2>2, <3>2 DEF Narrow, Carried!Narrow
  <2>3. QED
    BY <2>1, <2>2
<1>15. PICK r : r = TryFrom(w, s, item)
  OBVIOUS
<1>16. r.vec = Made(w, s, bits)
  BY <1>4, <1>15 DEF TryFrom
<1>17. Carried!VerdictPromised([w |-> w, s |-> s], v) =>
          (~r.truncated <=> v \in Carried!ValueSet(w, s))
  <2>1. PICK val \in Int :
          /\ val = Value(Longest, TRUE, bits)
          /\ v \in Carried!ValueSet(Longest, TRUE) => val = v
    <3>1. PICK yes \in BOOLEAN : yes = TRUE
      OBVIOUS
    <3>2. Carried!Fit(Longest, yes, v) = Value(Longest, yes, bits)
      BY <1>6, <1>10, FitOfWord
    <3>3. Value(Longest, yes, bits) \in Int
      BY <1>7, <1>10, WordInRange
    <3>4. v \in Carried!ValueSet(Longest, yes) => Carried!Fit(Longest, yes, v) = v
      BY <1>10, FitOfMember
    <3>5. QED
      BY <3>1, <3>2, <3>3, <3>4
  <2>2. item.s = rs /\ item.w = n /\ item.data = <<b>>
    <3>1. item = [kind |-> "int", w |-> n, s |-> rs, data |-> <<b>>]
      BY <1>3 DEF Native, Thing
    <3>2. QED
      BY <3>1
  <2>3. item.data[1] = b
    BY <2>2
  <2>4. r.truncated =
          IF Narrow(w) /\ s
            THEN val < MinSigned(w) \/ val > MaxSigned(w)
            ELSE \/ item.s /\ item.w - 1 \in item.data[1]
                 \/ Narrow(w) /\ bits # Made(w, s, bits).data[1]
    BY <1>4, <1>15, <2>1 DEF TryFrom
  <2>5. CASE Narrow(w) /\ s
    <3>1. MinSigned(w) = -h /\ MaxSigned(w) = h - 1
      BY <1>11 DEF MinSigned, MaxSigned
    <3>2. r.truncated <=> val < -h \/ val > h - 1
      BY <2>4, <2>5, <3>1
    <3>3. Carried!ValueSet(w, s) = -h .. (h - 1)
      BY <1>9, <1>11, <2>5, RangeOf
    <3>4. val \in -h .. (h - 1) <=> ~(val < -h \/ val > h - 1)
      BY <1>11
    <3>5. Carried!VerdictPromised([w |-> w, s |-> s], v) => val = v
      BY <2>1, <2>5 DEF Carried!VerdictPromised, Narrow, Carried!Narrow
    <3>6. QED
      BY <3>2, <3>3, <3>4, <3>5
  <2>6. CASE Narrow(w) /\ ~s
    <3>1. Made(w, s, bits).data[1] = bits \cap Positions(w)
      <4>1. PICK d : d = bits \cap Positions(w)
        OBVIOUS
      <4>2. Made(w, s, bits) = [kind |-> "vec", w |-> w, s |-> s, data |-> <<d>>]
        BY <2>6, <4>1 DEF Made, Stored, Thing, Truncated
      <4>3. Made(w, s, bits).data = <<d>>
        BY <4>2
      <4>4. QED
        BY <4>1, <4>3
    <3>2. r.truncated <=> v < 0 \/ bits # bits \cap Positions(w)
      BY <1>7, <2>2, <2>3, <2>4, <2>6, <3>1
    <3>3. bits = bits \cap Positions(w) <=> x < p
      <4>1. bits = bits \cap Positions(w) <=> bits \in Words(w)
        BY DEF Words
      <4>2. QED
        BY <1>10, <1>11, <4>1, NumberFits
    <3>4. Carried!ValueSet(w, s) = 0 .. (p - 1)
      BY <1>9, <1>11, <2>6, RangeOf
    <3>5. v \in 0 .. (p - 1) <=> ~(v < 0 \/ ~(x < p))
      BY <1>11, <1>12
    <3>6. QED
      BY <3>2, <3>3, <3>4, <3>5
  <2>7. CASE ~Narrow(w)
    <3>1. r.truncated <=> v < 0
      BY <1>7, <2>2, <2>3, <2>4, <2>7
    <3>2. v >= 0 => v \in Carried!ValueSet(w, s)
      <4>1. Longest <= w - 1 /\ w - 1 \in 0 .. MaxWidth
        BY <1>10, <2>7 DEF Narrow
      <4>2. P <= h /\ P <= p
        <5>1. PICK z \in Nat : z = w - 1 /\ z <= MaxWidth /\ Longest <= z
          BY <1>10, <4>1
        <5>2. Power(Longest) <= Power(z)
          BY <1>10, <5>1, PowerMultiple
        <5>3. Power(w - 1) = Weight(w - 1)
          BY <1>10, PowerType
        <5>4. QED
          BY <1>11, <5>1, <5>2, <5>3
      <4>3. Carried!ValueSet(w, s) = IF s THEN -h .. (h - 1) ELSE 0 .. (p - 1)
        BY <1>9, <1>11, RangeOf
      <4>4. v >= 0 => v \in -h .. (h - 1) /\ v \in 0 .. (p - 1)
        BY <1>5, <1>11, <1>12, <4>2
      <4>5. QED
        BY <4>3, <4>4
    <3>3. ~s /\ v < 0 => v \notin Carried!ValueSet(w, s)
      BY <1>9, <1>11, RangeOf
    <3>4. Carried!VerdictPromised([w |-> w, s |-> s], v) => ~s \/ v >= 0
      BY <2>7 DEF Carried!VerdictPromised, Narrow, Carried!Narrow
    <3>5. QED
      BY <1>5, <1>9, <3>1, <3>2, <3>3, <3>4
  <2>8. QED
    BY <2>5, <2>6, <2>7
\* The step.
<1>18. PICK m, told : /\ m = Carried!Fit(w, s, number)
                     /\ told = IF r.truncated THEN "truncated" ELSE "exact"
  OBVIOUS
<1>19. PICK vec : vec = Carried!Of("vec", ty.w, ty.s, m)
  OBVIOUS
<1>20. Abs(r.vec) = vec
  BY <1>9, <1>14, <1>16, <1>18, <1>19
<1>21. m \in Carried!ValueSet(ty.w, ty.s) /\ told \in {"exact", "truncated"}
  BY <1>9, <1>14, <1>18
<1>22. Abs(item).kind = "int" /\ Abs(item).n = v
  BY <1>13 DEF Carried!Of
<1>23. Carried!BitsPromised(ty, Abs(item).n) => m = Carried!Fit(ty.w, ty.s, Abs(item).n)
  BY <1>9, <1>14, <1>18, <1>22 DEF Carried!BitsPromised
<1>24. Carried!VerdictPromised(ty, Abs(item).n) =>
         (told = "exact" <=> Abs(item).n \in Carried!ValueSet(ty.w, ty.s))
  <2>1. Carried!VerdictPromised([w |-> w, s |-> s], v) <=> Carried!VerdictPromised(ty, v)
    BY <1>9 DEF Carried!VerdictPromised
  <2>2. told = "exact" <=> ~r.truncated
    BY <1>18
  <2>3. QED
    BY <1>9, <1>17, <1>22, <2>1, <2>2
<1>25. /\ CallForm'
       /\ \/ Carried!Convert("TryFrom", told, vec)
          \/ told = "exact" /\ Carried!Convert("From", told, vec)
          \/ told = "truncated" /\ Carried!Convert("From", "aborted", Abs(item))
  <2>1. Report("TryFrom", r) \/ Require("From", r)
    BY <1>8, <1>9, <1>15
  <2>2. CASE Report("TryFrom", r)
    <3>1. Convert("TryFrom", told, r.vec)
      BY <1>18, <2>2 DEF Report
    <3>2. QED
      BY <1>20, <3>1, ConvertMaps
  <2>3. CASE Require("From", r) /\ ~r.truncated
    <3>1. told = "exact" /\ Convert("From", told, r.vec)
      BY <1>18, <2>3 DEF Require
    <3>2. QED
      BY <1>20, <3>1, ConvertMaps
  <2>4. CASE Require("From", r) /\ r.truncated
    <3>1. told = "truncated" /\ Convert("From", "aborted", item)
      BY <1>18, <2>4 DEF Require
    <3>2. QED
      BY <3>1, ConvertMaps
  <2>5. QED
    BY <2>1, <2>2, <2>3, <2>4
<1>26. QED
  BY <1>19, <1>21, <1>22, <1>23, <1>24, <1>25 DEF Carried!IntoVec

\* A BitVec that is read from bytes.
LEMMA FromBytesStep ==
  ASSUME CallForm, NEW ty \in VecTypes, NEW bytes \in Seq(Words(ByteBits)),
         Len(bytes) * ByteBits <= MaxWidth, NEW try, NEW from, Abs(item).kind = "bytes",
         \/ Report(try, TryFromLeBytes(ty.w, ty.s, bytes))
         \/ Require(from, TryFromLeBytes(ty.w, ty.s, bytes))
  PROVE  Carried!FromBytes(try, from, Number[Assemble(bytes)]) /\ CallForm'
<1>1. ty.w \in Widths /\ ty.s \in BOOLEAN
  BY VecTypeParts
<1>2. PICK r, number, vec :
        /\ r = TryFromLeBytes(ty.w, ty.s, bytes) /\ number = Number[Assemble(bytes)]
        /\ vec = Carried!Of("vec", ty.w, ty.s, Carried!Fit(ty.w, ty.s, number))
  OBVIOUS
<1>3. Abs(r.vec) = vec /\ (r.truncated <=> ~(number < PowersOfTwo[ty.w]))
  BY <1>1, <1>2, AbsRead
<1>4. Report(try, r) \/ Require(from, r)
  BY <1>2
<1>5. CASE number < PowersOfTwo[ty.w]
  <2>1. Convert(try, "exact", r.vec) \/ Convert(from, "exact", r.vec)
    BY <1>3, <1>4, <1>5 DEF Report, Require
  <2>2. CallForm' /\ (Carried!Convert(try, "exact", vec) \/ Carried!Convert(from, "exact", vec))
    BY <1>3, <2>1, ConvertMaps
  <2>3. QED
    BY <1>2, <1>5, <2>2 DEF Carried!FromBytes
<1>6. CASE ~(number < PowersOfTwo[ty.w])
  <2>1. Convert(try, "truncated", r.vec) \/ Convert(from, "aborted", item)
    BY <1>3, <1>4, <1>6 DEF Report, Require
  <2>2. CallForm' /\ (\/ Carried!Convert(try, "truncated", vec)
                      \/ Carried!Convert(from, "aborted", Abs(item)))
    BY <1>3, <2>1, ConvertMaps
  <2>3. QED
    BY <1>2, <1>6, <2>2 DEF Carried!FromBytes
<1>7. QED
  BY <1>5, <1>6

LEMMA FromBytesMaps ==
  ASSUME ConversionsInv, CallForm, FromLeBytes \/ FromBeBytes
  PROVE  Carried!IntoVecFromBytes /\ CallForm'
<1>1. item.kind = "bytes"
  BY DEF FromLeBytes, FromBeBytes
<1>2. IsBytes(item)
  BY <1>1, FormOfKind DEF ConversionsInv
<1>3. PICK bytes \in Seq(Words(ByteBits)) :
        /\ item = Bytes(bytes) /\ item.data = bytes /\ Len(bytes) * ByteBits <= MaxWidth
  BY <1>2 DEF IsBytes
<1>4. PICK n, L : n = Number[Assemble(bytes)] /\ L = Len(bytes)
  OBVIOUS
<1>5. Abs(item) = Carried!Of("bytes", L, FALSE, n)
  BY <1>3, <1>4, AbsBytes
<1>6. Abs(item).kind = "bytes" /\ Abs(item).w = L /\ Abs(item).n = n
  BY <1>5 DEF Carried!Of
<1>7. CASE FromLeBytes
  <2>1. PICK ty \in VecTypes :
          \/ Report("TryFromLeBytes", TryFromLeBytes(ty.w, ty.s, bytes))
          \/ Require("FromLeBytes", TryFromLeBytes(ty.w, ty.s, bytes))
    BY <1>3, <1>7 DEF FromLeBytes
  <2>2. Carried!FromBytes("TryFromLeBytes", "FromLeBytes", n) /\ CallForm'
    BY <1>3, <1>4, <1>6, <2>1, FromBytesStep
  <2>3. QED
    BY <1>6, <2>2 DEF Carried!IntoVecFromBytes
<1>8. CASE FromBeBytes
  <2>1. PICK back : back = Reverse(bytes)
    OBVIOUS
  <2>2. /\ back \in Seq(Words(ByteBits)) /\ Len(back) * ByteBits <= MaxWidth
        /\ Carried!Mirror(L, n) = Number[Assemble(back)]
    BY <1>3, <1>4, <2>1, MirrorReverses
  <2>3. PICK ty \in VecTypes :
          \/ Report("TryFromBeBytes", TryFromLeBytes(ty.w, ty.s, back))
          \/ Require("FromBeBytes", TryFromLeBytes(ty.w, ty.s, back))
    BY <1>3, <1>8, <2>1 DEF FromBeBytes, TryFromBeBytes
  <2>4. Carried!FromBytes("TryFromBeBytes", "FromBeBytes", Carried!Mirror(L, n)) /\ CallForm'
    BY <1>6, <2>2, <2>3, FromBytesStep
  <2>5. QED
    BY <1>6, <2>4 DEF Carried!IntoVecFromBytes
<1>9. QED
  BY <1>7, <1>8

\* The BitVec that is held, its bits and its number.
LEMMA VecMeaning ==
  ASSUME ConversionsInv, item.kind = "vec"
  PROVE  \E w \in Widths, s \in BOOLEAN, data \in Seq(Words(MaxWidth)) :
            /\ [w |-> w, s |-> s] \in VecTypes
            /\ item = Stored(w, s, data) /\ StoredWell(Stored(w, s, data))
            /\ item.w = w /\ item.s = s /\ item.data = data
            /\ WordOf(item) \in Words(w)
            /\ Abs(item) = Carried!Of("vec", w, s, Value(w, s, WordOf(item)))
<1>1. PICK ty \in VecTypes, data \in Seq(Words(MaxWidth)) :
        /\ item = Stored(ty.w, ty.s, data) /\ StoredWell(Stored(ty.w, ty.s, data))
        /\ item.w = ty.w /\ item.s = ty.s /\ item.data = data
  BY HeldVec
<1>2. ty.w \in Widths /\ ty.s \in BOOLEAN /\ ty = [w |-> ty.w, s |-> ty.s]
  BY VecTypeParts, ConversionsAssumption
<1>3. WordOf(item) \in Words(ty.w)
  BY <1>1, <1>2, StoredNumber
<1>4. Abs(item) = Carried!Of("vec", ty.w, ty.s, Value(ty.w, ty.s, WordOf(item)))
  BY <1>1, <1>2, AbsVec
<1>5. QED
  BY <1>1, <1>2, <1>3, <1>4

\* value()
LEMMA TakeValueMaps ==
  ASSUME ConversionsInv, CallForm, TakeValue
  PROVE  Carried!TakeValue /\ CallForm'
<1>1. item.kind = "vec" /\ Narrow(item.w) /\ Convert("value", "exact", NativeValue(item))
  BY DEF TakeValue
<1>2. PICK w \in Widths, s \in BOOLEAN, data \in Seq(Words(MaxWidth)) :
        /\ item = Stored(w, s, data) /\ StoredWell(Stored(w, s, data))
        /\ item.w = w /\ item.s = s /\ item.data = data
        /\ Abs(item) = Carried!Of("vec", w, s, Value(w, s, WordOf(item)))
  BY <1>1, VecMeaning
<1>3. PICK v : v = Value(w, s, WordOf(item))
  OBVIOUS
<1>4. v = Value(Container(w), s, data[1])
  <2>1. AbsNumber(item) = v
    BY <1>2, <1>3, StoredNumber
  <2>2. AbsNumber(item) = Value(Container(w), s, data[1])
    BY <1>1, <1>2 DEF AbsNumber
  <2>3. QED
    BY <2>1, <2>2
<1>5. /\ Container(w) \in NativeWidths /\ w <= Container(w)
      /\ \A m \in NativeWidths : w <= m => Container(w) <= m
  <2>1. PICK S : S = {n \in NativeWidths : w <= n}
    OBVIOUS
  <2>2. S \in SUBSET Nat /\ Longest \in S
    BY <1>1, <1>2, <2>1, WidthFacts DEF Narrow
  <2>3. Min(S) \in S /\ \A y \in S : Min(S) <= y
    BY <2>2, MinOfSet
  <2>4. Container(w) = Min(S)
    BY <2>1 DEF Container
  <2>5. QED
    BY <2>1, <2>3, <2>4
<1>6. data[1] \in Words(Container(w))
  BY <1>1, <1>2, OwnBytes DEF Extended
<1>7. Abs(NativeValue(item)) = Carried!Of("int", Container(w), s, v)
  BY <1>2, <1>4, <1>6, BitsAreIntegers, AbsWord DEF NativeValue, Native
<1>8. /\ Carried!Convert("value", "exact", Carried!Of("int", Container(w), s, v))
      /\ CallForm'
  BY <1>1, <1>7, ConvertMaps
<1>9. /\ Abs(item).kind = "vec" /\ Abs(item).w = w /\ Abs(item).s = s /\ Abs(item).n = v
  BY <1>2, <1>3 DEF Carried!Of
<1>10. QED
  BY <1>5, <1>8, <1>9 DEF Carried!TakeValue

\* The remainder of what a word stands for is the number of its bits.
LEMMA ValueModulo ==
  ASSUME NEW w \in Widths, NEW s \in BOOLEAN, NEW b \in Words(w)
  PROVE  Value(w, s, b) % PowersOfTwo[w] = Number[b]
<1>1. PICK v \in Int : v = Value(w, s, b)
  BY WordInRange
<1>2. PICK x \in Nat, P \in Nat \ {0} :
        x = Number[b] /\ P = Power(w) /\ P = PowersOfTwo[w] /\ x < P
  <2>1. /\ Number[b] \in Nat /\ Number[b] < Power(w)
        /\ Power(w) \in Nat \ {0} /\ PowersOfTwo[w] = Power(w)
    BY WordInRange, RangeOf
  <2>2. QED
    BY <2>1
<1>3. v = 0 * P + x \/ v = (-1) * P + x
  <2>1. \A a \in Int, c \in Int, q \in Nat :
           /\ a = c + 0 * q => c = 0 * q + a
           /\ a = c + 1 * q => c = (-1) * q + a
    OBVIOUS
  <2>2. PICK k \in {0, 1} : x = v + k * P
    BY <1>1, <1>2, WordInRange
  <2>3. x = v + 0 * P \/ x = v + 1 * P
    BY <2>2
  <2>4. QED
    BY <1>1, <1>2, <2>1, <2>3
<1>4. x \in 0 .. (P - 1)
  BY <1>2
<1>5. v % P = x
  BY <1>3, <1>4, ModUnique
<1>6. QED
  BY <1>1, <1>2, <1>5

\* Bytes of either order.
LEMMA SerializeMaps ==
  ASSUME ConversionsInv, CallForm, Serialize
  PROVE  Carried!Serialize /\ CallForm'
<1>1. /\ item.kind = "vec"
      /\ \/ Convert("ToLeBytes", "exact", Bytes(ToLeBytes(item)))
         \/ Convert("ToBeBytes", "exact", Bytes(ToBeBytes(item)))
  BY DEF Serialize
<1>2. PICK w \in Widths, s \in BOOLEAN, data \in Seq(Words(MaxWidth)) :
        /\ item = Stored(w, s, data) /\ StoredWell(Stored(w, s, data))
        /\ WordOf(item) \in Words(w)
        /\ Abs(item) = Carried!Of("vec", w, s, Value(w, s, WordOf(item)))
  BY <1>1, VecMeaning
<1>3. PICK bytes : bytes = ToLeBytes(item) /\ InBytes(w, bytes)
  BY <1>2, OwnBytes
<1>4. PICK b \in Words(w) : b = WordOf(item) /\ b = Assemble(bytes)
  BY <1>2, <1>3 DEF WordOf
<1>5. PICK v \in Int : v = Value(w, s, b)
  BY WordInRange
<1>6. PICK x \in Nat : x = Number[b]
  BY WordInRange
<1>7. v % PowersOfTwo[w] = x
  BY <1>5, <1>6, ValueModulo
<1>8. PICK len : len = NumBytes(w) /\ len = Carried!NumBytes(w) /\ len = Len(bytes)
  BY <1>3, NumBytesSame DEF InBytes
<1>9. bytes \in Seq(Words(ByteBits)) /\ Len(bytes) * ByteBits <= MaxWidth
  BY <1>3, BytesFit DEF InBytes
<1>10. Abs(Bytes(bytes)) = Carried!Of("bytes", len, FALSE, x)
  BY <1>4, <1>6, <1>8, AbsBytes
<1>11. Abs(Bytes(Reverse(bytes))) =
         Carried!Of("bytes", len, FALSE, Carried!Mirror(len, x))
  <2>1. PICK back : back = Reverse(bytes)
    OBVIOUS
  <2>2. Len(back) = len /\ Carried!Mirror(len, x) = Number[Assemble(back)]
    BY <1>4, <1>6, <1>8, <1>9, <2>1, MirrorReverses
  <2>3. QED
    BY <2>1, <2>2, AbsBytes
<1>12. /\ CallForm'
       /\ \/ Carried!Convert("ToLeBytes", "exact", Carried!Of("bytes", len, FALSE, x))
          \/ Carried!Convert("ToBeBytes", "exact",
                Carried!Of("bytes", len, FALSE, Carried!Mirror(len, x)))
  BY <1>1, <1>3, <1>10, <1>11, ConvertMaps DEF ToBeBytes
<1>13. Abs(item).kind = "vec" /\ Abs(item).w = w /\ Abs(item).n = v
  BY <1>2, <1>4, <1>5 DEF Carried!Of
<1>14. x = Abs(item).n % PowersOfTwo[Abs(item).w]
  BY <1>7, <1>13
<1>15. len = Carried!NumBytes(Abs(item).w)
  BY <1>8, <1>13
<1>16. QED
  BY <1>12, <1>13, <1>14, <1>15 DEF Carried!Serialize


\* operator==
LEMMA CompareMaps ==
  ASSUME ConversionsInv, CallForm, Compare
  PROVE  Carried!Compare /\ CallForm'
<1>1. item.kind = "vec"
  BY DEF Compare
<1>2. PICK w \in Widths, s \in BOOLEAN, data \in Seq(Words(MaxWidth)) :
        /\ item = Stored(w, s, data) /\ StoredWell(Stored(w, s, data))
        /\ item.w = w /\ item.s = s /\ item.data = data
        /\ WordOf(item) \in Words(w)
        /\ Abs(item) = Carried!Of("vec", w, s, Value(w, s, WordOf(item)))
  BY <1>1, VecMeaning
<1>3. PICK b \in Words(w) : b = WordOf(item)
  BY <1>2
<1>4. PICK flip : /\ flip \in {{}} \cup {{i} : i \in Positions(w)}
                  /\ LET bytes == Split(Differ(b, flip), NumBytes(w))
                         other == TryFromLeBytes(w, s, bytes).vec
                     IN  Convert("==", IF Equal(item, other) THEN "equal" ELSE "different", other)
  BY <1>2, <1>3 DEF Compare, WordOf
<1>5. PICK c \in Words(w) : c = Differ(b, flip)
  BY <1>3, <1>4 DEF Differ, Words
<1>6. PICK bytes : bytes = Split(c, NumBytes(w))
  OBVIOUS
<1>7. bytes \in Seq(Words(ByteBits)) /\ Assemble(bytes) = c
  BY <1>6, BitsAreIntegers, LastByte, SplitMember, AssembleOfSplit
<1>8. PICK more \in Seq(Words(MaxWidth)) :
        /\ TryFromLeBytes(w, s, bytes).vec = Stored(w, s, more)
        /\ StoredWell(Stored(w, s, more))
        /\ WordOf(Stored(w, s, more)) = c \cap Positions(w)
  BY <1>7, ReadBits
<1>9. PICK other : other = Stored(w, s, more)
  OBVIOUS
<1>10. WordOf(other) = c
  BY <1>8, <1>9 DEF Words
<1>11. PICK n, m : /\ n = Value(w, s, c) /\ m = Value(w, s, b)
                   /\ n \in Carried!ValueSet(w, s)
  BY WordInRange
<1>12. Abs(other) = Carried!Of("vec", w, s, n)
  BY <1>8, <1>9, <1>10, <1>11, AbsVec
<1>13. Abs(item) = Carried!Of("vec", w, s, m)
  BY <1>2, <1>3, <1>11
<1>14. Equal(item, other) <=> b = c
  <2>1. ASSUME b = c
        PROVE  Equal(item, other)
    <3>1. WordOf(Stored(w, s, data)) = WordOf(Stored(w, s, more))
      BY <1>2, <1>3, <1>9, <1>10, <2>1
    <3>2. Stored(w, s, data) = Stored(w, s, more)
      BY <1>2, <1>8, <3>1, SameBits
    <3>3. item = other
      BY <1>2, <1>9, <3>2
    <3>4. QED
      BY <3>3 DEF Equal
  <2>2. ASSUME Equal(item, other)
        PROVE  b = c
    <3>1. other.data = more
      BY <1>9 DEF Stored, Thing
    <3>2. CASE Narrow(w)
      <4>1. data[1] = more[1]
        BY <1>2, <2>2, <3>1, <3>2 DEF Equal
      <4>2. b = data[1] \cap Positions(w) /\ c = more[1] \cap Positions(w)
        BY <1>2, <1>3, <1>8, <1>9, <1>10, <3>2, OwnBytes DEF WordOf
      <4>3. QED
        BY <4>1, <4>2
    <3>3. CASE ~Narrow(w)
      <4>1. ToLeBytes(item) = ToLeBytes(other)
        BY <1>2, <2>2, <3>3 DEF Equal
      <4>2. QED
        BY <1>3, <1>10, <4>1 DEF WordOf
    <3>4. QED
      BY <3>2, <3>3
  <2>3. QED
    BY <2>1, <2>2
<1>15. n = m <=> b = c
  <2>1. ASSUME n = m
        PROVE  b = c
    <3>1. PICK P \in Nat : P = Power(w)
      BY RangeOf
    <3>2. PICK x \in Nat, y \in Nat, z \in Int :
            x = Number[b] /\ y = Number[c] /\ x < P /\ y < P /\ z = n
      <4>1. Number[b] \in Nat /\ Number[b] < Power(w) /\ Number[c] \in Nat /\ Number[c] < Power(w)
        BY WordInRange
      <4>2. n \in Int
        BY <1>11, WordInRange
      <4>3. QED
        BY <3>1, <4>1, <4>2
    <3>3. (\E k \in {0, 1} : x = z + k * P) /\ (\E k \in {0, 1} : y = z + k * P)
      <4>1. /\ \E k \in {0, 1} : Number[b] = Value(w, s, b) + k * Power(w)
            /\ \E k \in {0, 1} : Number[c] = Value(w, s, c) + k * Power(w)
        BY WordInRange
      <4>2. QED
        BY <1>11, <2>1, <3>1, <3>2, <4>1
    <3>4. (x = z \/ x = z + P) /\ (y = z \/ y = z + P)
      BY <3>1, <3>3
    <3>5. x = y
      BY <3>1, <3>2, <3>4
    <3>6. b \in Words(MaxWidth) /\ c \in Words(MaxWidth)
      BY WidthFacts, WordsGrow
    <3>7. QED
      BY <3>2, <3>5, <3>6, NumberInjective
  <2>2. QED
    BY <1>11, <2>1
<1>16. PICK told : told = IF n = m THEN "equal" ELSE "different"
  OBVIOUS
<1>17. Convert("==", told, other)
  BY <1>4, <1>5, <1>6, <1>8, <1>9, <1>14, <1>15, <1>16
<1>18. Carried!Convert("==", told, Carried!Of("vec", w, s, n)) /\ CallForm'
  BY <1>12, <1>17, ConvertMaps
<1>19. /\ Abs(item).kind = "vec" /\ Abs(item).w = w /\ Abs(item).s = s /\ Abs(item).n = m
       /\ [Abs(item) EXCEPT !.n = n] = Carried!Of("vec", w, s, n)
  BY <1>13 DEF Carried!Of
<1>20. QED
  BY <1>11, <1>16, <1>18, <1>19 DEF Carried!Compare

\* The bits of what to_concrete makes of a term are those of the term.
LEMMA ConcreteBits ==
  ASSUME NEW w \in Widths, NEW s \in BOOLEAN, NEW b \in Words(w)
  PROVE  \E data \in Seq(Words(MaxWidth)) :
            /\ ToConcrete(Sym(w, s, b)) = Stored(w, s, data)
            /\ StoredWell(Stored(w, s, data))
            /\ WordOf(Stored(w, s, data)) = b
<1>1. b \cap Positions(w) = b
  BY DEF Words
<1>2. CASE Narrow(w)
  <2>1. b \in Words(Longest)
    BY <1>2, WidthFacts, WordsGrow DEF Narrow
  <2>2. ToConcrete(Sym(w, s, b)) = Made(w, s, b)
    BY <1>2, ConcreteOfTerm
  <2>3. PICK data \in Seq(Words(MaxWidth)) :
          /\ Made(w, s, b) = Stored(w, s, data) /\ StoredWell(Stored(w, s, data))
          /\ WordOf(Stored(w, s, data)) = b \cap Positions(w)
    BY <2>1, MadeBits
  <2>4. QED
    BY <1>1, <2>2, <2>3
<1>3. CASE ~Narrow(w)
  <2>1. PICK bytes : bytes = Split(b, NumBytes(w))
    OBVIOUS
  <2>2. bytes \in Seq(Words(ByteBits)) /\ Assemble(bytes) = b
    BY <2>1, BitsAreIntegers, LastByte, SplitMember, AssembleOfSplit
  <2>3. ToConcrete(Sym(w, s, b)) = TryFromLeBytes(w, s, bytes).vec
    BY <1>3, <2>1, ConcreteOfTerm
  <2>4. PICK data \in Seq(Words(MaxWidth)) :
          /\ TryFromLeBytes(w, s, bytes).vec = Stored(w, s, data)
          /\ StoredWell(Stored(w, s, data))
          /\ WordOf(Stored(w, s, data)) = Assemble(bytes) \cap Positions(w)
    BY <2>2, ReadBits
  <2>5. QED
    BY <1>1, <2>2, <2>3, <2>4
<1>4. QED
  BY <1>2, <1>3

\* A Boolean changes its form.
LEMMA TruthAgain ==
  ASSUME NEW kind, NEW to, NEW flag \in BOOLEAN
  PROVE  [Truth(kind, flag) EXCEPT !.kind = to] = Truth(to, flag)
<1>1. PICK no, d : no = FALSE /\ d = <<IF flag THEN {0} ELSE {}>>
  OBVIOUS
<1>2. Truth(kind, flag) = [kind |-> kind, w |-> 0, s |-> no, data |-> d]
  BY <1>1 DEF Truth, Thing
<1>3. Truth(to, flag) = [kind |-> to, w |-> 0, s |-> no, data |-> d]
  BY <1>1 DEF Truth, Thing
<1>4. QED
  BY <1>2, <1>3

\* A change of form: the number is the same.
LEMMA BecomesMaps ==
  ASSUME CallForm, NEW op, NEW from, NEW to, NEW t, Convert(op, "exact", t),
         NEW w, NEW s, NEW n,
         Abs(item) = Carried!Of(from, w, s, n), Abs(t) = Carried!Of(to, w, s, n)
  PROVE  Carried!Becomes(op, from, to) /\ CallForm'
<1>1. Carried!Convert(op, "exact", Abs(t)) /\ CallForm'
  BY ConvertMaps
<1>2. Abs(item).kind = from /\ [Abs(item) EXCEPT !.kind = to] = Abs(t)
  BY DEF Carried!Of
<1>3. QED
  BY <1>1, <1>2 DEF Carried!Becomes

\* Between concrete and symbolic.
LEMMA ThroughSolverMaps ==
  ASSUME ConversionsInv, CallForm,
         VecToSymbolic \/ VecToConcrete \/ BoolToSymbolic \/ BoolToConcrete
  PROVE  Carried!ThroughSolver /\ CallForm'
<1>1. CASE VecToSymbolic
  <2>1. item.kind = "vec" /\ Convert("to_symbolic", "exact", ToSymbolic(item))
    BY <1>1 DEF VecToSymbolic
  <2>2. PICK w \in Widths, s \in BOOLEAN, data \in Seq(Words(MaxWidth)) :
          /\ item = Stored(w, s, data) /\ StoredWell(Stored(w, s, data))
          /\ Abs(item) = Carried!Of("vec", w, s, Value(w, s, WordOf(item)))
    BY <2>1, VecMeaning
  <2>3. PICK b \in Words(w) : ToSymbolic(item) = Sym(w, s, b)
    BY <2>2, SolverRoundTrip
  <2>4. ToConcrete(Sym(w, s, b)) = item
    BY <2>2, <2>3, SolverRoundTrip
  <2>5. WordOf(item) = b
    BY <2>2, <2>4, ConcreteBits
  <2>6. Abs(Sym(w, s, b)) = Carried!Of("sym", w, s, Value(w, s, b))
    BY BitsAreIntegers, AbsWord DEF Sym
  <2>7. Abs(item) = Carried!Of("vec", w, s, Value(w, s, b))
    BY <2>2, <2>5
  <2>8. Carried!Becomes("to_symbolic", "vec", "sym") /\ CallForm'
    BY <2>1, <2>3, <2>6, <2>7, BecomesMaps
  <2>9. QED
    BY <2>8 DEF Carried!ThroughSolver
<1>2. CASE VecToConcrete
  <2>1. item.kind = "sym" /\ Convert("to_concrete", "exact", ToConcrete(item))
    BY <1>2 DEF VecToConcrete
  <2>2. PICK ty \in VecTypes : \E b \in Words(ty.w) : item = Sym(ty.w, ty.s, b)
    BY <2>1, HeldTerm
  <2>3. PICK b \in Words(ty.w) : item = Sym(ty.w, ty.s, b)
    BY <2>2
  <2>4. ty.w \in Widths /\ ty.s \in BOOLEAN
    BY VecTypeParts
  <2>5. PICK data \in Seq(Words(MaxWidth)) :
          /\ ToConcrete(item) = Stored(ty.w, ty.s, data)
          /\ StoredWell(Stored(ty.w, ty.s, data))
          /\ WordOf(Stored(ty.w, ty.s, data)) = b
    BY <2>3, <2>4, ConcreteBits
  <2>6. Abs(Stored(ty.w, ty.s, data)) = Carried!Of("vec", ty.w, ty.s, Value(ty.w, ty.s, b))
    <3>1. Abs(Stored(ty.w, ty.s, data)) =
            Carried!Of("vec", ty.w, ty.s,
                       Value(ty.w, ty.s, WordOf(Stored(ty.w, ty.s, data))))
      BY <2>4, <2>5, AbsVec
    <3>2. QED
      BY <2>5, <3>1
  <2>7. Abs(item) = Carried!Of("sym", ty.w, ty.s, Value(ty.w, ty.s, b))
    BY <2>3, BitsAreIntegers, AbsWord DEF Sym
  <2>8. Carried!Becomes("to_concrete", "sym", "vec") /\ CallForm'
    BY <2>1, <2>5, <2>6, <2>7, BecomesMaps
  <2>9. QED
    BY <2>8 DEF Carried!ThroughSolver
<1>3. CASE BoolToSymbolic
  <2>1. item.kind = "bool" /\ Convert("to_symbolic", "exact", [item EXCEPT !.kind = "symbool"])
    BY <1>3 DEF BoolToSymbolic
  <2>2. PICK flag \in BOOLEAN : item = Truth("bool", flag)
    BY <2>1, FormOfKind DEF ConversionsInv, IsTruth
  <2>3. [item EXCEPT !.kind = "symbool"] = Truth("symbool", flag)
    BY <2>2, TruthAgain
  <2>4. PICK no, n : /\ Abs(item) = Carried!Of("bool", 0, no, n)
                     /\ Abs(Truth("symbool", flag)) = Carried!Of("symbool", 0, no, n)
    BY <2>2, AbsTruth
  <2>5. Carried!Becomes("to_symbolic", "bool", "symbool") /\ CallForm'
    BY <2>1, <2>3, <2>4, BecomesMaps
  <2>6. QED
    BY <2>5 DEF Carried!ThroughSolver
<1>4. CASE BoolToConcrete
  <2>1. item.kind = "symbool" /\ Convert("to_concrete", "exact", [item EXCEPT !.kind = "bool"])
    BY <1>4 DEF BoolToConcrete
  <2>2. PICK flag \in BOOLEAN : item = Truth("symbool", flag)
    BY <2>1, FormOfKind DEF ConversionsInv, IsTruth
  <2>3. [item EXCEPT !.kind = "bool"] = Truth("bool", flag)
    BY <2>2, TruthAgain
  <2>4. PICK no, n : /\ Abs(item) = Carried!Of("symbool", 0, no, n)
                     /\ Abs(Truth("bool", flag)) = Carried!Of("bool", 0, no, n)
    BY <2>2, AbsTruth
  <2>5. Carried!Becomes("to_concrete", "symbool", "bool") /\ CallForm'
    BY <2>1, <2>3, <2>4, BecomesMaps
  <2>6. QED
    BY <2>5 DEF Carried!ThroughSolver
<1>5. QED
  BY <1>1, <1>2, <1>3, <1>4


\* To a raw expression.
LEMMA TakeExprMaps ==
  ASSUME ConversionsInv, CallForm, TakeExpr
  PROVE  Carried!TakeExpr /\ CallForm'
<1>1. PICK no \in BOOLEAN : no = FALSE
  OBVIOUS
<1>2. /\ item.kind \in {"sym", "symbool"}
      /\ Convert("expr", "exact", Thing("expr", item.w, no, item.data))
  BY <1>1 DEF TakeExpr
<1>3. CASE item.kind = "sym"
  <2>1. PICK ty \in VecTypes : \E b \in Words(ty.w) : item = Sym(ty.w, ty.s, b)
    BY <1>3, HeldTerm
  <2>2. PICK b \in Words(ty.w) : item = Sym(ty.w, ty.s, b)
    BY <2>1
  <2>3. PICK w, s : w = ty.w /\ s = ty.s /\ w \in Widths /\ s \in BOOLEAN
    BY VecTypeParts
  <2>4. PICK v : v = Value(w, s, b)
    OBVIOUS
  <2>5. Abs(item) = Carried!Of("sym", w, s, v)
    BY <2>2, <2>3, <2>4, BitsAreIntegers, AbsWord DEF Sym
  <2>6. Value(w, no, b) = v % PowersOfTwo[w]
    BY <1>1, <2>3, <2>4, WordInRange, ValueModulo
  <2>7. item.w = w /\ item.data = <<b>>
    <3>1. item = [kind |-> "sym", w |-> w, s |-> s, data |-> <<b>>]
      BY <2>2, <2>3 DEF Sym, Thing
    <3>2. QED
      BY <3>1
  <2>8. Abs(Thing("expr", w, no, <<b>>)) = Carried!Of("expr", w, no, v % PowersOfTwo[w])
    BY <2>2, <2>6, BitsAreIntegers, AbsWord
  <2>9. /\ Carried!Convert("expr", "exact", Carried!Of("expr", w, no, v % PowersOfTwo[w]))
        /\ CallForm'
    BY <1>2, <2>7, <2>8, ConvertMaps
  <2>10. Abs(item).kind = "sym" /\ Abs(item).w = w /\ Abs(item).n = v
    BY <2>5 DEF Carried!Of
  <2>11. QED
    BY <1>1, <2>9, <2>10 DEF Carried!TakeExpr
<1>4. CASE item.kind = "symbool"
  <2>1. PICK flag \in BOOLEAN : item = Truth("symbool", flag)
    BY <1>4, FormOfKind DEF ConversionsInv, IsTruth
  <2>2. Thing("expr", item.w, no, item.data) = Truth("expr", flag)
    <3>1. PICK d : d = <<IF flag THEN {0} ELSE {}>>
      OBVIOUS
    <3>2. item = [kind |-> "symbool", w |-> 0, s |-> no, data |-> d]
      BY <1>1, <2>1, <3>1 DEF Truth, Thing
    <3>3. item.w = 0 /\ item.data = d
      BY <3>2
    <3>4. Truth("expr", flag) = [kind |-> "expr", w |-> 0, s |-> no, data |-> d]
      BY <1>1, <3>1 DEF Truth, Thing
    <3>5. QED
      BY <3>3, <3>4 DEF Thing
  <2>3. PICK s, n : /\ Abs(item) = Carried!Of("symbool", 0, s, n)
                    /\ Abs(Truth("expr", flag)) = Carried!Of("expr", 0, s, n)
    BY <2>1, AbsTruth
  <2>4. Carried!Becomes("expr", "symbool", "expr") /\ CallForm'
    BY <1>2, <2>2, <2>3, BecomesMaps
  <2>5. QED
    BY <2>4 DEF Carried!TakeExpr
<1>5. QED
  BY <1>2, <1>3, <1>4

\* The expression that is held, and its number.
LEMMA ExprMeaning ==
  ASSUME ConversionsInv, item.kind = "expr"
  PROVE  /\ Abs(item).kind = "expr" /\ Abs(item).w = item.w
         /\ \/ /\ item.w # 0
               /\ \E b \in Words(item.w) : item.data[1] = b /\ Abs(item).n = Number[b]
            \/ /\ item.w = 0
               /\ \E flag \in BOOLEAN : item = Truth("expr", flag)
<1>1. PICK no : no = FALSE
  OBVIOUS
<1>2. CASE \E w, b : /\ w # 0 /\ item = Thing("expr", w, FALSE, <<b>>)
                     /\ b \in Words(w)
  <2>1. PICK w, b : w # 0 /\ item = Thing("expr", w, no, <<b>>) /\ b \in Words(w)
    BY <1>1, <1>2
  <2>2. item = [kind |-> "expr", w |-> w, s |-> no, data |-> <<b>>]
    BY <2>1 DEF Thing
  <2>3. item.w = w /\ item.data = <<b>>
    BY <2>2
  <2>4. item.data[1] = b
    BY <2>3
  <2>5. Value(w, no, b) = Number[b]
    BY <1>1 DEF Value
  <2>6. Abs(item) = Carried!Of("expr", w, no, Number[b])
    BY <2>1, <2>5, BitsAreIntegers, AbsWord
  <2>7. Abs(item).kind = "expr" /\ Abs(item).w = w /\ Abs(item).n = Number[b]
    BY <2>6 DEF Carried!Of
  <2>8. QED
    BY <2>1, <2>3, <2>4, <2>7
<1>3. CASE \E flag \in BOOLEAN : item = Truth("expr", flag)
  <2>1. PICK flag \in BOOLEAN : item = Truth("expr", flag)
    BY <1>3
  <2>2. PICK s, n : Abs(item) = Carried!Of("expr", 0, s, n)
    BY <2>1, AbsTruth
  <2>3. Abs(item).kind = "expr" /\ Abs(item).w = 0
    BY <2>2 DEF Carried!Of
  <2>4. item.w = 0
    <3>1. PICK d : d = <<IF flag THEN {0} ELSE {}>>
      OBVIOUS
    <3>2. item = [kind |-> "expr", w |-> 0, s |-> no, data |-> d]
      BY <1>1, <2>1, <3>1 DEF Truth, Thing
    <3>3. QED
      BY <3>2
  <2>5. QED
    BY <2>1, <2>3, <2>4
<1>4. QED
  BY <1>2, <1>3, HeldExpr

\* From a raw expression.
LEMMA FromExprMaps ==
  ASSUME ConversionsInv, CallForm, VecFromExpr \/ FlagFromExpr
  PROVE  Carried!FromExpr /\ CallForm'
<1>1. item.kind = "expr"
  BY DEF VecFromExpr, FlagFromExpr
<1>2. /\ Abs(item).kind = "expr" /\ Abs(item).w = item.w
      /\ \/ /\ item.w # 0
            /\ \E b \in Words(item.w) : item.data[1] = b /\ Abs(item).n = Number[b]
         \/ /\ item.w = 0
            /\ \E flag \in BOOLEAN : item = Truth("expr", flag)
  BY <1>1, ExprMeaning
<1>3. CASE VecFromExpr
  <2>1. PICK ty \in VecTypes :
          LET vec == Sym(ty.w, ty.s, item.data[1])
          IN  IF item.w = ty.w
                THEN Convert("From", "exact", vec) \/ Convert("TryFrom", "exact", vec)
                ELSE Convert("From", "aborted", item) \/ Convert("TryFrom", "nullopt", item)
    BY <1>3 DEF VecFromExpr
  <2>2. ty.w \in Widths /\ ty.w \in Nat \ {0} /\ ty.s \in BOOLEAN /\ ty.w # 0
    BY VecTypeParts
  <2>3. PICK t : t = Carried!Of("sym", ty.w, ty.s, Carried!Fit(ty.w, ty.s, Abs(item).n))
    OBVIOUS
  <2>4. CASE item.w = ty.w
    <3>1. PICK b \in Words(ty.w) : item.data[1] = b /\ Abs(item).n = Number[b]
      BY <1>2, <2>2, <2>4
    <3>2. Carried!Fit(ty.w, ty.s, Number[b]) = Value(ty.w, ty.s, b)
      <4>1. PICK x \in Int, k \in Int : x = Number[b] /\ k = 0
        BY <2>2, WordInRange
      <4>2. x = Number[b] + k * Power(ty.w)
        BY <2>2, <4>1, RangeOf
      <4>3. b \in Words(MaxWidth) /\ b \cap Positions(ty.w) = b
        BY <2>2, WidthFacts, WordsGrow DEF Words
      <4>4. Carried!Fit(ty.w, ty.s, x) = Value(ty.w, ty.s, b \cap Positions(ty.w))
        BY <2>2, <4>2, <4>3, FitOfWord
      <4>5. QED
        BY <4>1, <4>3, <4>4
    <3>3. Abs(Sym(ty.w, ty.s, b)) = t
      BY <2>3, <3>1, <3>2, BitsAreIntegers, AbsWord DEF Sym
    <3>4. \/ Convert("From", "exact", Sym(ty.w, ty.s, b))
          \/ Convert("TryFrom", "exact", Sym(ty.w, ty.s, b))
      BY <2>1, <2>4, <3>1
    <3>5. CallForm' /\ (Carried!Convert("From", "exact", t) \/ Carried!Convert("TryFrom", "exact", t))
      BY <3>3, <3>4, ConvertMaps
    <3>6. QED
      BY <1>2, <2>2, <2>3, <2>4, <3>5 DEF Carried!FromExpr
  <2>5. CASE item.w # ty.w
    <3>1. Convert("From", "aborted", item) \/ Convert("TryFrom", "nullopt", item)
      BY <2>1, <2>5
    <3>2. CallForm' /\ (\/ Carried!Convert("From", "aborted", Abs(item))
                        \/ Carried!Convert("TryFrom", "nullopt", Abs(item)))
      BY <3>1, ConvertMaps
    <3>3. QED
      BY <1>2, <2>5, <3>2 DEF Carried!FromExpr
  <2>6. QED
    BY <2>4, <2>5
<1>4. CASE FlagFromExpr
  <2>0. [w |-> 0, s |-> FALSE].w = 0
    OBVIOUS
  <2>1. PICK ty : ty = [w |-> 0, s |-> FALSE] /\ ty.w = 0
    BY <2>0
  <2>2. ty \in VecTypes \cup {[w |-> 0, s |-> FALSE]}
    BY <2>1
  <2>3. CASE item.w = 0
    <3>1. PICK flag \in BOOLEAN : item = Truth("expr", flag)
      BY <1>2, <2>3
    <3>2. [item EXCEPT !.kind = "symbool"] = Truth("symbool", flag)
      BY <3>1, TruthAgain
    <3>3. PICK n : /\ Abs(item) = Carried!Of("expr", 0, FALSE, n)
                   /\ Abs(Truth("symbool", flag)) = Carried!Of("symbool", 0, FALSE, n)
      BY <3>1, AbsTruth
    <3>4. Abs(item).n = n
      BY <3>3 DEF Carried!Of
    <3>5. \/ Convert("From", "exact", Truth("symbool", flag))
          \/ Convert("TryFrom", "exact", Truth("symbool", flag))
      BY <1>4, <2>3, <3>2 DEF FlagFromExpr
    <3>6. PICK t : t = Carried!Of("symbool", 0, FALSE, Abs(item).n)
      OBVIOUS
    <3>7. Abs(Truth("symbool", flag)) = t
      BY <3>3, <3>4, <3>6
    <3>8. CallForm' /\ (Carried!Convert("From", "exact", t) \/ Carried!Convert("TryFrom", "exact", t))
      BY <3>5, <3>7, ConvertMaps
    <3>9. QED
      BY <1>2, <2>1, <2>2, <2>3, <3>6, <3>8 DEF Carried!FromExpr
  <2>4. CASE item.w # 0
    <3>1. Convert("From", "aborted", item) \/ Convert("TryFrom", "nullopt", item)
      BY <1>4, <2>4 DEF FlagFromExpr
    <3>2. CallForm' /\ (\/ Carried!Convert("From", "aborted", Abs(item))
                        \/ Carried!Convert("TryFrom", "nullopt", Abs(item)))
      BY <3>1, ConvertMaps
    <3>3. QED
      BY <1>2, <2>1, <2>2, <2>4, <3>2 DEF Carried!FromExpr
  <2>5. QED
    BY <2>3, <2>4
<1>5. QED
  BY <1>3, <1>4

-----------------------------------------------------------------------------
\* A program of z3wire's conversions is one that carries numbers: every chain
\* of calls keeps the number, or tells of its loss, as Numbers says.
THEOREM Implementation == Spec => ImplementsNumbers
<1>1. Init => Carried!Init /\ CallForm
  <2>1. SUFFICES ASSUME Init PROVE Carried!Init /\ CallForm
    OBVIOUS
  <2>2. PICK t : t = Bytes(<<>>)
    OBVIOUS
  <2>3. item = t /\ call = [op |-> "start", arg |-> t, told |-> "made"]
    BY <2>1, <2>2 DEF Init
  <2>4. Abs(t) = Carried!Empty
    <3>1. Len(<<>>) = 0
      OBVIOUS
    <3>2. Assemble(<<>>) = {} /\ Number[{}] = 0
      BY NumberAssumption DEF Assemble
    <3>3. QED
      BY <2>2, <3>1, <3>2, AbsBytes DEF Carried!Empty
  <2>5. [call EXCEPT !.arg = Abs(call.arg)] =
          [op |-> "start", arg |-> Carried!Empty, told |-> "made"]
    BY <2>3, <2>4
  <2>6. QED
    BY <2>3, <2>4, <2>5 DEF Carried!Init, CallForm
<1>2. ASSUME ConversionsInv, CallForm, [Next]_vars
      PROVE  [Carried!Next]_(Carried!vars) /\ CallForm'
  <2>1. CASE \/ ReadInt \/ ReadBytes \/ ReadBool \/ NewVec \/ NewFlag \/ DefaultVec
    BY <1>2, <2>1, ReadMaps DEF Carried!Next
  <2>2. CASE Literal
    BY <1>2, <2>2, LiteralMaps DEF Carried!Next
  <2>3. CASE SymbolicLiteral
    BY <1>2, <2>3, SymbolicLiteralMaps DEF Carried!Next
  <2>4. CASE FromInt
    BY <1>2, <2>4, IntoVecMaps DEF Carried!Next
  <2>5. CASE FromLeBytes \/ FromBeBytes
    BY <1>2, <2>5, FromBytesMaps DEF Carried!Next
  <2>6. CASE TakeValue
    BY <1>2, <2>6, TakeValueMaps DEF Carried!Next
  <2>7. CASE Serialize
    BY <1>2, <2>7, SerializeMaps DEF Carried!Next
  <2>8. CASE Compare
    BY <1>2, <2>8, CompareMaps DEF Carried!Next
  <2>9. CASE VecToSymbolic \/ VecToConcrete \/ BoolToSymbolic \/ BoolToConcrete
    BY <1>2, <2>9, ThroughSolverMaps DEF Carried!Next
  <2>10. CASE TakeExpr
    BY <1>2, <2>10, TakeExprMaps DEF Carried!Next
  <2>11. CASE VecFromExpr \/ FlagFromExpr
    BY <1>2, <2>11, FromExprMaps DEF Carried!Next
  <2>12. CASE UNCHANGED vars
    BY <1>2, <2>12 DEF vars, CallForm, Carried!vars, Abs, AbsNumber
  <2>13. QED
    BY <1>2, <2>1, <2>2, <2>3, <2>4, <2>5, <2>6, <2>7, <2>8, <2>9, <2>10, <2>11, <2>12
    DEF Next
<1>3. Spec => []ConversionsInv
  BY ConversionsInvariant
<1>4. QED
  BY <1>1, <1>2, <1>3, PTL DEF Spec, ImplementsNumbers, Carried!Spec
=============================================================================
