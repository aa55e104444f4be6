-------------------------- MODULE SymBitVecLemmas --------------------------
(***************************************************************************)
(* Facts about powers of two and two's complement words, and what each     *)
(* operation of SymBitVec does to the numbers its operands stand for, at   *)
(* every width.                                                            *)
(***************************************************************************)
EXTENDS SymBitVec, Remainders

-----------------------------------------------------------------------------
(* Powers of two *)

\* What one step of its recursion says of Pow2.
LEMMA Pow2Step ==
  /\ Pow2[0] = 1
  /\ \A n \in Nat : n + 1 <= MaxWidth => Pow2[n + 1] = 2 * Pow2[n]
<1>1. 0 \in 0 .. MaxWidth
  BY Pow2Assumption
<1>2. ASSUME NEW n \in Nat, n + 1 <= MaxWidth
      PROVE  Pow2[n + 1] = 2 * Pow2[n]
  <2>1. n + 1 \in 0 .. MaxWidth /\ n + 1 # 0 /\ (n + 1) - 1 = n
    BY <1>2
  <2>2. QED
    BY <2>1, Pow2Assumption
<1>3. QED
  BY <1>1, <1>2, Pow2Assumption

\* By induction: powers of two are positive, exceed their exponents, and turn
\* sums into products.
LEMMA Powers ==
  /\ MaxWidth \in Nat \ {0}
  /\ Pow2 \in [0 .. MaxWidth -> Nat \ {0}]
  /\ Pow2[0] = 1
  /\ Pow2[1] = 2
  /\ \A m, n \in 0 .. MaxWidth :
        m + n \in 0 .. MaxWidth => Pow2[m + n] = Pow2[m] * Pow2[n]
  /\ \A n \in 0 .. MaxWidth : n < Pow2[n]
<1>1. MaxWidth \in Nat \ {0}
  BY Pow2Assumption
<1>2. \A n \in 0 .. MaxWidth : Pow2[n] \in Nat \ {0} /\ n < Pow2[n]
  <2> DEFINE S == {n \in Nat : n <= MaxWidth => Pow2[n] \in Nat \ {0} /\ n < Pow2[n]}
  <2>1. 0 \in S
    BY Pow2Step
  <2>2. ASSUME NEW n \in Nat, n \in S
        PROVE  n + 1 \in S
    <3>1. CASE n + 1 <= MaxWidth
      BY <1>1, <2>2, <3>1, Pow2Step
    <3>2. CASE ~(n + 1 <= MaxWidth)
      BY <3>2
    <3>3. QED
      BY <3>1, <3>2
  <2> HIDE DEF S
  <2>3. Nat \subseteq S
    BY <2>1, <2>2, SetInduction
  <2>4. QED
    BY <1>1, <2>3 DEF S
<1>3. ASSUME NEW m \in 0 .. MaxWidth
      PROVE  \A n \in 0 .. MaxWidth : m + n \in 0 .. MaxWidth => Pow2[m + n] = Pow2[m] * Pow2[n]
  <2> DEFINE S == {n \in Nat : m + n <= MaxWidth => Pow2[m + n] = Pow2[m] * Pow2[n]}
  <2>1. 0 \in S
    BY <1>2, Pow2Step
  <2>2. ASSUME NEW n \in Nat, n \in S
        PROVE  n + 1 \in S
    <3>1. CASE m + (n + 1) <= MaxWidth
      <4>1. /\ m + n \in Nat /\ (m + n) + 1 = m + (n + 1) /\ n + 1 <= MaxWidth
            /\ m + n <= MaxWidth /\ m \in 0 .. MaxWidth /\ n \in 0 .. MaxWidth
        BY <1>1, <3>1
      <4>2. Pow2[m + (n + 1)] = 2 * Pow2[m + n] /\ Pow2[n + 1] = 2 * Pow2[n]
        BY <3>1, <4>1, Pow2Step
      <4>3. Pow2[m + n] = Pow2[m] * Pow2[n] /\ Pow2[m] \in Nat /\ Pow2[n] \in Nat
        BY <1>2, <2>2, <4>1
      <4>4. 2 * (Pow2[m] * Pow2[n]) = Pow2[m] * (2 * Pow2[n])
        BY <4>3
      <4>5. QED
        BY <4>2, <4>3, <4>4
    <3>2. CASE ~(m + (n + 1) <= MaxWidth)
      BY <3>2
    <3>3. QED
      BY <3>1, <3>2
  <2> HIDE DEF S
  <2>3. Nat \subseteq S
    BY <2>1, <2>2, SetInduction
  <2>4. QED
    BY <1>1, <2>3 DEF S
<1>4. Pow2 \in [0 .. MaxWidth -> Nat \ {0}]
  BY <1>2, Pow2Assumption
<1>5. Pow2[1] = 2
  <2>1. 0 \in Nat /\ 0 + 1 <= MaxWidth /\ 0 + 1 = 1
    BY <1>1
  <2>2. QED
    BY <2>1, Pow2Step
<1>6. QED
  BY <1>1, <1>2, <1>3, <1>4, <1>5, Pow2Step

\* A power of two is a positive integer.
LEMMA Pow2Type ==
  ASSUME NEW n \in 0 .. MaxWidth
  PROVE  Pow2[n] \in Nat \ {0}
BY Powers

\* Each power of two doubles the one before.
LEMMA Pow2Succ ==
  ASSUME NEW n \in 1 .. MaxWidth
  PROVE  Pow2[n] = 2 * Pow2[n - 1]
<1>1. n - 1 \in 0 .. MaxWidth /\ 1 \in 0 .. MaxWidth /\ 1 + (n - 1) = n
  BY Powers
<1>2. Pow2[1 + (n - 1)] = Pow2[1] * Pow2[n - 1]
  BY <1>1, Powers
<1>3. QED
  BY <1>1, <1>2, Powers

\* A power divides every larger one.
LEMMA Pow2Split ==
  ASSUME NEW m \in 0 .. MaxWidth, NEW n \in m .. MaxWidth
  PROVE  /\ n - m \in 0 .. MaxWidth
         /\ Pow2[n] = Pow2[m] * Pow2[n - m]
<1>1. n - m \in 0 .. MaxWidth /\ m + (n - m) = n /\ n \in 0 .. MaxWidth
  BY Powers
<1>2. QED
  BY <1>1, Powers

\* Powers of two grow with the exponent.
LEMMA Pow2Mono ==
  ASSUME NEW m \in 0 .. MaxWidth, NEW n \in m .. MaxWidth
  PROVE  Pow2[m] <= Pow2[n]
<1>1. n - m \in 0 .. MaxWidth /\ Pow2[n] = Pow2[m] * Pow2[n - m]
  BY Pow2Split
<1>2. Pow2[m] \in Nat \ {0} /\ Pow2[n - m] \in Nat \ {0}
  BY <1>1, Pow2Type
<1>3. Pow2[m] <= Pow2[m] * Pow2[n - m]
  BY <1>2, ProductGrows
<1>4. QED
  BY <1>1, <1>3

-----------------------------------------------------------------------------
(* Words *)

\* A width is a positive integer up to MaxWidth.
LEMMA WidthsType ==
  /\ MaxWidth \in Nat \ {0}
  /\ \A n : n \in Widths <=> n \in Int /\ 1 <= n /\ n <= MaxWidth
BY Powers DEF Widths

\* Where the ranges of a width begin and end.
LEMMA RangeBounds ==
  ASSUME NEW w \in Widths
  PROVE  /\ w \in 0 .. MaxWidth /\ w - 1 \in 0 .. MaxWidth
         /\ Pow2[w] \in Nat \ {0} /\ Pow2[w - 1] \in Nat \ {0}
         /\ Pow2[w] = 2 * Pow2[w - 1]
<1>1. w \in 0 .. MaxWidth /\ w - 1 \in 0 .. MaxWidth /\ w \in 1 .. MaxWidth
  BY Powers DEF Widths
<1>2. QED
  BY <1>1, Pow2Type, Pow2Succ

\* The numbers of a type are integers.
LEMMA ValueSetInt ==
  ASSUME NEW w \in Widths, NEW s \in BOOLEAN, NEW x \in ValueSet(w, s)
  PROVE  x \in Int
BY RangeBounds DEF ValueSet

\* The low w bits of an integer are a pattern of width w.
LEMMA WrapRange ==
  ASSUME NEW w \in Widths, NEW x \in Int
  PROVE  /\ Wrap(w, x) \in Patterns(w)
         /\ Wrap(w, x) \in Nat
<1>1. Pow2[w] \in Nat \ {0}
  BY RangeBounds
<1>2. x % Pow2[w] \in 0 .. (Pow2[w] - 1)
  BY <1>1, ModDecompose
<1>3. QED
  BY <1>1, <1>2 DEF Wrap, Patterns

\* A pattern is its own low bits.
LEMMA WrapOfPattern ==
  ASSUME NEW w \in Widths, NEW p \in Patterns(w)
  PROVE  Wrap(w, p) = p
<1>1. Pow2[w] \in Nat \ {0} /\ p \in 0 .. (Pow2[w] - 1) /\ p \in Int /\ p = 0 * Pow2[w] + p
  BY RangeBounds DEF Patterns
<1>2. p % Pow2[w] = p
  BY <1>1, ModUnique
<1>3. QED
  BY <1>2 DEF Wrap

\* Adding a multiple of 2^w leaves the low w bits alone.
LEMMA WrapShift ==
  ASSUME NEW w \in Widths, NEW x \in Int, NEW y \in Int, NEW k \in Int,
         x = y + k * Pow2[w]
  PROVE  Wrap(w, x) = Wrap(w, y)
<1>1. Pow2[w] \in Nat \ {0}
  BY RangeBounds
<1>2. x % Pow2[w] = y % Pow2[w]
  BY <1>1, ModShift
<1>3. QED
  BY <1>2 DEF Wrap

\* The low bits of the low bits of a wider word.
LEMMA WrapOfWrap ==
  ASSUME NEW w \in Widths, NEW wide \in w .. MaxWidth, NEW x \in Int
  PROVE  Wrap(w, Wrap(wide, x)) = Wrap(w, x)
<1>1. w \in 0 .. MaxWidth /\ Pow2[w] \in Nat \ {0}
  BY RangeBounds
<1>2. wide - w \in 0 .. MaxWidth /\ Pow2[wide] = Pow2[w] * Pow2[wide - w]
  BY <1>1, Pow2Split
<1>3. Pow2[wide - w] \in Nat \ {0}
  BY <1>2, Pow2Type
<1>4. (x % (Pow2[w] * Pow2[wide - w])) % Pow2[w] = x % Pow2[w]
  BY <1>1, <1>3, ModOfMod
<1>5. QED
  BY <1>2, <1>4 DEF Wrap

\* Two numbers that agree modulo 2^w and differ by less are the same.
LEMMA CloseAndCongruent ==
  ASSUME NEW m \in Nat \ {0}, NEW x \in Int, NEW y \in Int, NEW k \in Int,
         x = y + k * m, x - y < m, y - x < m
  PROVE  x = y
<1>1. k * m < m /\ -m < k * m
  OBVIOUS
<1>2. ~(k >= 1)
  <2>1. SUFFICES ASSUME k >= 1 PROVE FALSE
    OBVIOUS
  <2>2. k - 1 >= 0 /\ (k - 1) * m >= 0 /\ (k - 1) * m = k * m - m
    BY <2>1
  <2>3. QED
    BY <1>1, <2>2
<1>3. ~(k <= -1)
  <2>1. SUFFICES ASSUME k <= -1 PROVE FALSE
    OBVIOUS
  <2>2. -k - 1 >= 0 /\ (-k - 1) * m >= 0 /\ (-k - 1) * m = -(k * m) - m
    BY <2>1
  <2>3. QED
    BY <1>1, <2>2
<1>4. k = 0
  BY <1>2, <1>3
<1>5. QED
  BY <1>4

\* Decoding a pattern subtracts nothing or 2^w, and gives a number of the type.
LEMMA DecodeType ==
  ASSUME NEW w \in Widths, NEW s \in BOOLEAN, NEW p \in Patterns(w)
  PROVE  /\ Decode(w, s, p) \in ValueSet(w, s)
         /\ Decode(w, s, p) \in Int
         /\ \E k \in {0, -1} : Decode(w, s, p) = p + k * Pow2[w]
<1>1. /\ Pow2[w] \in Nat \ {0} /\ Pow2[w - 1] \in Nat \ {0}
      /\ Pow2[w] = 2 * Pow2[w - 1] /\ p \in 0 .. (Pow2[w] - 1)
  BY RangeBounds DEF Patterns
<1>2. CASE s /\ p >= Pow2[w - 1]
  <2>1. Decode(w, s, p) = p - Pow2[w]
    BY <1>2 DEF Decode
  <2>2. p - Pow2[w] \in -Pow2[w - 1] .. (Pow2[w - 1] - 1) /\ p - Pow2[w] \in Int
    BY <1>1, <1>2
  <2>3. p - Pow2[w] = p + (-1) * Pow2[w]
    BY <1>1
  <2>4. QED
    BY <1>2, <2>1, <2>2, <2>3 DEF ValueSet
<1>3. CASE ~(s /\ p >= Pow2[w - 1])
  <2>1. Decode(w, s, p) = p
    BY <1>3 DEF Decode
  <2>2. p \in ValueSet(w, s) /\ p \in Int
    BY <1>1, <1>3 DEF ValueSet
  <2>3. p = p + 0 * Pow2[w]
    BY <1>1
  <2>4. QED
    BY <2>1, <2>2, <2>3
<1>4. QED
  BY <1>2, <1>3

\* The w-bit word of the number that a pattern of width w stands for.
LEMMA WrapOfDecode ==
  ASSUME NEW w \in Widths, NEW s \in BOOLEAN, NEW p \in Patterns(w)
  PROVE  Wrap(w, Decode(w, s, p)) = p
<1>1. Decode(w, s, p) \in Int /\ p \in Int
  BY DecodeType, RangeBounds DEF Patterns
<1>2. PICK k \in {0, -1} : Decode(w, s, p) = p + k * Pow2[w]
  BY DecodeType
<1>3. Wrap(w, Decode(w, s, p)) = Wrap(w, p)
  BY <1>1, <1>2, WrapShift
<1>4. QED
  BY <1>3, WrapOfPattern

\* The number a word stands for is the one of its type with these low bits.
LEMMA DecodeOfWrap ==
  ASSUME NEW w \in Widths, NEW s \in BOOLEAN, NEW x \in ValueSet(w, s)
  PROVE  Decode(w, s, Wrap(w, x)) = x
<1> DEFINE p == Wrap(w, x)
           y == Decode(w, s, p)
<1>1. x \in Int /\ Pow2[w] \in Nat \ {0}
  BY ValueSetInt, RangeBounds
<1>2. p \in Patterns(w) /\ p \in Int
  BY <1>1, WrapRange
<1>3. y \in ValueSet(w, s) /\ y \in Int
  BY <1>2, DecodeType
<1>4. PICK k \in {0, -1} : y = p + k * Pow2[w]
  BY <1>2, DecodeType
<1>5. PICK q \in Int : x = q * Pow2[w] + p
  BY <1>1, ModDecompose DEF Wrap
<1> HIDE DEF y, p
<1>6. x = y + (q - k) * Pow2[w] /\ q - k \in Int
  BY <1>1, <1>2, <1>3, <1>4, <1>5
<1>7. x - y < Pow2[w] /\ y - x < Pow2[w]
  BY <1>1, <1>3, RangeBounds DEF ValueSet
<1>8. x = y
  BY <1>1, <1>3, <1>6, <1>7, CloseAndCongruent
<1>9. QED
  BY <1>8 DEF y, p

\* Arithmetic on words is arithmetic on the numbers, wrapped.
LEMMA WordArithmetic ==
  ASSUME NEW w \in Widths, NEW x \in Int, NEW y \in Int
  PROVE  /\ BvAdd(w, Wrap(w, x), Wrap(w, y)) = Wrap(w, x + y)
         /\ BvSub(w, Wrap(w, x), Wrap(w, y)) = Wrap(w, x - y)
         /\ BvMul(w, Wrap(w, x), Wrap(w, y)) = Wrap(w, x * y)
         /\ BvNeg(w, Wrap(w, x)) = Wrap(w, -x)
<1>1. Pow2[w] \in Nat \ {0}
  BY RangeBounds
<1>2. BvAdd(w, Wrap(w, x), Wrap(w, y)) = Wrap(w, x + y)
  BY <1>1, ModAdd DEF BvAdd, Wrap
<1>3. BvSub(w, Wrap(w, x), Wrap(w, y)) = Wrap(w, x - y)
  BY <1>1, ModSub DEF BvSub, Wrap
<1>4. BvMul(w, Wrap(w, x), Wrap(w, y)) = Wrap(w, x * y)
  BY <1>1, ModMul DEF BvMul, Wrap
<1>5. BvNeg(w, Wrap(w, x)) = Wrap(w, -x)
  BY <1>1, ModNeg DEF BvNeg, Wrap
<1>6. QED
  BY <1>2, <1>3, <1>4, <1>5

\* A type with more bits, or the same, of the same signedness holds the
\* numbers of a type; so does a signed type with more bits.
LEMMA ValueSetInclusion ==
  ASSUME NEW w \in Widths, NEW wide \in w .. MaxWidth, NEW s \in BOOLEAN, NEW t \in BOOLEAN,
         s = t \/ (t /\ wide > w)
  PROVE  ValueSet(w, s) \subseteq ValueSet(wide, t)
<1>1. wide \in Widths /\ w \in 0 .. MaxWidth /\ w - 1 \in 0 .. MaxWidth
      /\ wide - 1 \in (w - 1) .. MaxWidth
  BY Powers DEF Widths
<1>2. Pow2[w] <= Pow2[wide] /\ Pow2[w - 1] <= Pow2[wide - 1]
  BY <1>1, Pow2Mono
<1>3. wide > w => Pow2[w] <= Pow2[wide - 1]
  <2>1. wide > w => wide - 1 \in w .. MaxWidth
    BY <1>1, Powers DEF Widths
  <2>2. QED
    BY <1>1, <2>1, Pow2Mono
<1>4. /\ Pow2[w] \in Nat \ {0} /\ Pow2[w - 1] \in Nat \ {0}
      /\ Pow2[wide] \in Nat \ {0} /\ Pow2[wide - 1] \in Nat \ {0}
      /\ Pow2[w - 1] <= Pow2[w]
  BY <1>1, RangeBounds
<1>5. QED
  BY <1>2, <1>3, <1>4 DEF ValueSet, Widths

\* Numbers with one word of width w differ by a multiple of 2^w.
LEMMA SameWordIsCongruent ==
  ASSUME NEW w \in Widths, NEW x \in Int, NEW y \in Int, Wrap(w, x) = Wrap(w, y)
  PROVE  (x - y) % Pow2[w] = 0
<1>1. Pow2[w] \in Nat \ {0} /\ x % Pow2[w] = y % Pow2[w]
  BY RangeBounds DEF Wrap
<1>2. (x - y) % Pow2[w] = ((x % Pow2[w]) - (y % Pow2[w])) % Pow2[w]
  BY <1>1, ModSub
<1>3. (x % Pow2[w]) - (y % Pow2[w]) = 0
  <2>1. x % Pow2[w] \in Int
    BY <1>1, ModDecompose
  <2>2. QED
    BY <1>1, <2>1
<1>4. 0 % Pow2[w] = 0
  <2>1. 0 \in 0 .. (Pow2[w] - 1) /\ 0 = 0 * Pow2[w] + 0
    BY <1>1
  <2>2. QED
    BY <1>1, <2>1, ModUnique
<1>5. QED
  BY <1>2, <1>3, <1>4

-----------------------------------------------------------------------------
(* Shifts *)

\* A left shift gives the word of the number times 2^n.
LEMMA ShlIsWrap ==
  ASSUME NEW w \in Widths, NEW n \in 0 .. (w - 1), NEW x \in Int
  PROVE  Shl(w, Wrap(w, x), n) = Wrap(w, x * Pow2[n])
<1>1. n \in 0 .. MaxWidth /\ n \in Int /\ w \in Int /\ ~(n >= w)
  BY RangeBounds, WidthsType
<1>2. Pow2[n] \in Nat \ {0} /\ Pow2[w] \in Nat \ {0}
  BY <1>1, RangeBounds, Pow2Type
<1>3. PICK q \in Int, r \in 0 .. (Pow2[w] - 1) : x = q * Pow2[w] + r /\ x % Pow2[w] = r
  BY <1>2, ModDecompose
<1>4. PICK c \in Int : c = q * Pow2[n]
  BY <1>2
<1>5. x * Pow2[n] = r * Pow2[n] + c * Pow2[w]
  <2>1. \A m, d \in Nat : (q * m + r) * d = r * d + (q * d) * m
    OBVIOUS
  <2>2. x * Pow2[n] = r * Pow2[n] + (q * Pow2[n]) * Pow2[w]
    BY <1>2, <1>3, <2>1
  <2>3. QED
    BY <1>4, <2>2
<1>6. x * Pow2[n] \in Int /\ r * Pow2[n] \in Int
  BY <1>2
<1>7. Wrap(w, x * Pow2[n]) = Wrap(w, r * Pow2[n])
  <2>1. ASSUME NEW y \in Int, NEW z \in Int, y = z + c * Pow2[w]
        PROVE  Wrap(w, y) = Wrap(w, z)
    BY <1>4, <2>1, WrapShift
  <2>2. QED
    BY <1>5, <1>6, <2>1
<1>8. Wrap(w, x) = r
  BY <1>3 DEF Wrap
<1>9. QED
  BY <1>1, <1>7, <1>8 DEF Shl

\* n more bits hold a number times 2^n.
LEMMA ShiftedFits ==
  ASSUME NEW m \in Widths, NEW x \in Patterns(m), NEW n \in 0 .. MaxWidth,
         NEW w \in Widths, m + n <= w
  PROVE  x * Pow2[n] \in ValueSet(w, FALSE)
<1>1. /\ m \in 0 .. MaxWidth /\ m + n \in 0 .. MaxWidth /\ w \in (m + n) .. MaxWidth
      /\ m + n \in Int
  BY WidthsType
<1>2. Pow2[m + n] = Pow2[m] * Pow2[n]
  BY <1>1, Powers
<1>3. Pow2[m + n] <= Pow2[w]
  BY <1>1, Pow2Mono
<1>4. Pow2[m] \in Nat \ {0} /\ Pow2[n] \in Nat \ {0} /\ Pow2[w] \in Nat
  BY <1>1, RangeBounds, Pow2Type
<1>5. x \in 0 .. (Pow2[m] - 1)
  BY DEF Patterns
<1>6. x * Pow2[n] >= 0 /\ x * Pow2[n] \in Int /\ (Pow2[m] - 1 - x) * Pow2[n] >= 0
  BY <1>4, <1>5
<1>7. (Pow2[m] - 1 - x) * Pow2[n] = Pow2[m] * Pow2[n] - Pow2[n] - x * Pow2[n]
  <2>1. \A a, b, c \in Int : (a - 1 - b) * c = a * c - c - b * c
    OBVIOUS
  <2>2. Pow2[m] \in Int /\ x \in Int /\ Pow2[n] \in Int
    BY <1>4, <1>5
  <2>3. QED
    BY <2>1, <2>2
<1>8. x * Pow2[n] < Pow2[w]
  BY <1>2, <1>3, <1>4, <1>6, <1>7
<1>9. QED
  BY <1>4, <1>6, <1>8 DEF ValueSet

\* The bounds of a quotient.
LEMMA DivBounds ==
  ASSUME NEW d \in Nat \ {0}, NEW x \in Int
  PROVE  /\ x \div d \in Int
         /\ x >= 0 => x \div d \in 0 .. x
         /\ x < 0 => x \div d \in x .. -1
         /\ x \in 0 .. (d - 1) => x \div d = 0
         /\ x \in -d .. -1 => x \div d = -1
<1> DEFINE q == x \div d
           r == x % d
<1>1. q \in Int /\ r \in 0 .. (d - 1) /\ x = q * d + r
  BY ModDecompose
<1> HIDE DEF q, r
<1>2. ASSUME x >= 0
      PROVE  q \in 0 .. x
  <2>1. ~(q < 0)
    <3>1. SUFFICES ASSUME q < 0 PROVE FALSE
      OBVIOUS
    <3>2. (-1 - q) * d >= 0 /\ (-1 - q) * d = -d - q * d
      BY <1>1, <3>1
    <3>3. QED
      BY <1>1, <1>2, <3>2
  <2>2. q * (d - 1) >= 0 /\ q * (d - 1) = q * d - q
    BY <1>1, <2>1
  <2>3. QED
    BY <1>1, <2>1, <2>2
<1>3. ASSUME x < 0
      PROVE  q \in x .. -1
  <2>1. ~(q >= 0)
    <3>1. SUFFICES ASSUME q >= 0 PROVE FALSE
      OBVIOUS
    <3>2. q * d >= 0
      BY <1>1, <3>1
    <3>3. QED
      BY <1>1, <1>3, <3>2
  <2>2. (-1 - q) * (d - 1) >= 0 /\ (-1 - q) * (d - 1) = -d + 1 - q * d + q
    BY <1>1, <2>1
  <2>3. QED
    BY <1>1, <2>1, <2>2
<1>4. ASSUME x \in 0 .. (d - 1)
      PROVE  q = 0
  <2>1. x = 0 * d + x
    OBVIOUS
  <2>2. x % d = x
    BY <1>4, <2>1, ModUnique
  <2>3. q * d = 0
    BY <1>1, <2>2 DEF r
  <2>4. QED
    BY <1>1, <2>3
<1>5. ASSUME x \in -d .. -1
      PROVE  q = -1
  <2>1. x = (-1) * d + (x + d) /\ x + d \in 0 .. (d - 1)
    BY <1>5
  <2>2. x % d = x + d
    BY <2>1, ModUnique
  <2>3. (q + 1) * d = 0
    BY <1>1, <2>2 DEF r
  <2>4. QED
    BY <1>1, <2>3
<1>6. QED
  BY <1>1, <1>2, <1>3, <1>4, <1>5 DEF q

\* A right shift stays within the type, and shifts everything out at last.
LEMMA FloorShiftInRange ==
  ASSUME NEW w \in Widths, NEW s \in BOOLEAN, NEW x \in ValueSet(w, s), NEW n \in Nat
  PROVE  /\ FloorShift(x, n) \in ValueSet(w, s)
         /\ n >= w => FloorShift(x, n) = IF x < 0 THEN -1 ELSE 0
         /\ n < w => FloorShift(x, n) = x \div Pow2[n]
<1>1. /\ w \in 0 .. MaxWidth /\ MaxWidth \in Nat /\ x \in Int
      /\ Pow2[w] \in Nat \ {0} /\ Pow2[w - 1] \in Nat \ {0} /\ Pow2[w] = 2 * Pow2[w - 1]
  BY RangeBounds, ValueSetInt, WidthsType
<1>2. /\ x >= 0 => \A y \in 0 .. x : y \in ValueSet(w, s)
      /\ x < 0 => \A y \in x .. -1 : y \in ValueSet(w, s)
      /\ x \in -Pow2[w] .. (Pow2[w] - 1)
  BY <1>1 DEF ValueSet
<1>3. CASE n >= MaxWidth
  <2>1. FloorShift(x, n) = IF x < 0 THEN -1 ELSE 0
    BY <1>3 DEF FloorShift
  <2>2. ~(n < w)
    BY <1>1, <1>3
  <2>3. FloorShift(x, n) \in ValueSet(w, s)
    BY <1>1, <1>2, <2>1
  <2>4. QED
    BY <2>1, <2>2, <2>3
<1>4. CASE ~(n >= MaxWidth)
  <2>1. n \in 0 .. MaxWidth /\ FloorShift(x, n) = x \div Pow2[n]
    BY <1>1, <1>4 DEF FloorShift
  <2>2. Pow2[n] \in Nat \ {0}
    BY <2>1, Pow2Type
  <2>3. FloorShift(x, n) \in ValueSet(w, s)
    <3>1. CASE x >= 0
      BY <1>1, <1>2, <2>1, <2>2, <3>1, DivBounds
    <3>2. CASE x < 0
      BY <1>1, <1>2, <2>1, <2>2, <3>2, DivBounds
    <3>3. QED
      BY <1>1, <3>1, <3>2
  <2>4. ASSUME n >= w
        PROVE  x \div Pow2[n] = IF x < 0 THEN -1 ELSE 0
    <3>1. n \in w .. MaxWidth
      BY <1>1, <2>1, <2>4
    <3>2. Pow2[w] <= Pow2[n]
      BY <1>1, <3>1, Pow2Mono
    <3>3. x < 0 => x \in -Pow2[n] .. -1
      BY <1>1, <1>2, <2>2, <3>2
    <3>4. ~(x < 0) => x \in 0 .. (Pow2[n] - 1)
      BY <1>1, <1>2, <2>2, <3>2
    <3>5. QED
      BY <1>1, <2>2, <3>3, <3>4, DivBounds
  <2>5. QED
    BY <2>1, <2>3, <2>4
<1>5. QED
  BY <1>3, <1>4

\* An arithmetic right shift gives the word of the shifted number.
LEMMA AshrIsWrap ==
  ASSUME NEW w \in Widths, NEW x \in ValueSet(w, TRUE), NEW n \in Nat
  PROVE  Ashr(w, Wrap(w, x), n) = Wrap(w, FloorShift(x, n))
<1> DEFINE p == Wrap(w, x)
<1>1. x \in Int /\ w \in Int /\ Pow2[w] \in Nat \ {0} /\ Pow2[w - 1] \in Nat \ {0}
      /\ Pow2[w] = 2 * Pow2[w - 1] /\ x < Pow2[w - 1]
  BY RangeBounds, ValueSetInt DEF ValueSet
<1>2. Decode(w, TRUE, p) = x /\ p \in 0 .. (Pow2[w] - 1)
  BY <1>1, DecodeOfWrap, WrapRange DEF Patterns
<1>3. /\ n >= w => FloorShift(x, n) = IF x < 0 THEN -1 ELSE 0
      /\ n < w => FloorShift(x, n) = x \div Pow2[n]
  BY FloorShiftInRange
<1> HIDE DEF p
<1>4. x < 0 <=> p >= Pow2[w - 1]
  BY <1>1, <1>2 DEF Decode
<1>5. CASE n >= w
  <2>1. Ashr(w, p, n) = IF x < 0 THEN Pow2[w] - 1 ELSE 0
    BY <1>4, <1>5 DEF Ashr
  <2>2. Pow2[w] - 1 = -1 + 1 * Pow2[w] /\ Pow2[w] - 1 \in Patterns(w) /\ 0 \in Patterns(w)
    BY <1>1 DEF Patterns
  <2>3. Wrap(w, Pow2[w] - 1) = Wrap(w, -1)
    <3>1. Pow2[w] - 1 \in Int /\ -1 \in Int /\ 1 \in Int
      BY <1>1
    <3>2. QED
      BY <2>2, <3>1, WrapShift
  <2>4. Wrap(w, -1) = Pow2[w] - 1 /\ Wrap(w, 0) = 0
    BY <2>2, <2>3, WrapOfPattern
  <2>5. QED
    BY <1>3, <1>5, <2>1, <2>4 DEF p
<1>6. CASE n < w
  <2>1. ~(n >= w)
    BY <1>1, <1>6
  <2>2. Ashr(w, p, n) = Wrap(w, x \div Pow2[n])
    BY <1>2, <2>1 DEF Ashr
  <2>3. QED
    BY <1>3, <1>6, <2>2 DEF p
<1>7. QED
  BY <1>1, <1>5, <1>6

\* A logical right shift gives the word of the shifted pattern.
LEMMA LshrIsWrap ==
  ASSUME NEW w \in Widths, NEW p \in Patterns(w), NEW n \in Nat
  PROVE  Lshr(w, p, n) = Wrap(w, FloorShift(p, n))
<1>1. w \in Int /\ p \in ValueSet(w, FALSE) /\ p \in Nat
  BY RangeBounds DEF Patterns, ValueSet
<1>2. /\ FloorShift(p, n) \in ValueSet(w, FALSE)
      /\ n >= w => FloorShift(p, n) = IF p < 0 THEN -1 ELSE 0
      /\ n < w => FloorShift(p, n) = p \div Pow2[n]
  BY <1>1, FloorShiftInRange
<1>3. Lshr(w, p, n) = FloorShift(p, n)
  BY <1>1, <1>2 DEF Lshr
<1>4. Wrap(w, FloorShift(p, n)) = FloorShift(p, n)
  BY <1>2, WrapOfPattern DEF ValueSet, Patterns
<1>5. QED
  BY <1>3, <1>4

-----------------------------------------------------------------------------
(* Bits of a word *)

\* The bit at position k is what the word of one more bit has on top.
LEMMA TopBit ==
  ASSUME NEW k \in 0 .. (MaxWidth - 1), NEW p \in Nat
  PROVE  /\ ((p \div Pow2[k]) % 2) \in {0, 1}
         /\ Wrap(k, p) \in Nat
         /\ Wrap(k + 1, p) = Wrap(k, p) + Pow2[k] * ((p \div Pow2[k]) % 2)
<1> DEFINE m == Pow2[k]
           q == p \div m
           rem == p % m
<1>1. m \in Nat \ {0} /\ Pow2[k + 1] = 2 * m
  <2>1. k \in 0 .. MaxWidth /\ k + 1 \in 1 .. MaxWidth /\ (k + 1) - 1 = k
    BY Powers
  <2>2. QED
    BY <2>1, Pow2Type, Pow2Succ
<1>2. ((p \div Pow2[k]) % 2) = q % 2 /\ Wrap(k, p) = rem /\ Wrap(k + 1, p) = p % (2 * m)
  BY <1>1 DEF Wrap
<1> HIDE DEF m
<1>3. rem \in 0 .. (m - 1) /\ q \in Int /\ p = q * m + rem
  <2>1. p \in Int /\ m \in Nat \ {0}
    BY <1>1
  <2>2. QED
    BY <2>1, ModDecompose
<1> HIDE DEF q, rem
<1>4. PICK h \in Int : q = h * 2 + (q % 2) /\ q % 2 \in 0 .. 1
  <2>1. 2 \in Nat \ {0} /\ 2 - 1 = 1
    OBVIOUS
  <2>2. q % 2 \in 0 .. (2 - 1) /\ q \div 2 \in Int /\ q = (q \div 2) * 2 + (q % 2)
    BY <1>3, <2>1, ModDecompose
  <2>3. QED
    BY <2>1, <2>2
<1>5. PICK bit \in {0, 1} : bit = q % 2 /\ q = h * 2 + bit
  BY <1>4
<1>6. p = h * (2 * m) + (rem + m * bit) /\ rem + m * bit \in 0 .. (2 * m - 1)
  <2>1. CASE bit = 0
    BY <1>1, <1>3, <1>5, <2>1
  <2>2. CASE bit = 1
    BY <1>1, <1>3, <1>5, <2>2
  <2>3. QED
    BY <2>1, <2>2, <1>5
<1>7. p % (2 * m) = rem + m * bit
  <2>1. 2 * m \in Nat \ {0} /\ p \in Int
    BY <1>1
  <2>2. QED
    BY <1>6, <2>1, ModUnique
<1>8. QED
  BY <1>2, <1>3, <1>5, <1>7 DEF m

\* A bit is not changed by a multiple of a higher power.
LEMMA LowBit ==
  ASSUME NEW n \in 0 .. MaxWidth, NEW i \in 0 .. (n - 1),
         NEW x \in Int, NEW y \in Int, NEW k \in Int, x = y + k * Pow2[n]
  PROVE  (x \div Pow2[i]) % 2 = (y \div Pow2[i]) % 2
<1>1. /\ i \in 0 .. MaxWidth /\ i + 1 \in 1 .. MaxWidth /\ i + 1 \in 0 .. MaxWidth
      /\ n \in (i + 1) .. MaxWidth /\ (i + 1) - 1 = i
  BY Powers
<1>2. PICK m \in Nat \ {0} : m = Pow2[i] /\ Pow2[i + 1] = 2 * m
  BY <1>1, Pow2Type, Pow2Succ
<1>3. PICK h \in Nat \ {0} : Pow2[n] = (2 * m) * h
  <2>1. n - (i + 1) \in 0 .. MaxWidth /\ Pow2[n] = Pow2[i + 1] * Pow2[n - (i + 1)]
    BY <1>1, Pow2Split
  <2>2. Pow2[n - (i + 1)] \in Nat \ {0}
    BY <2>1, Pow2Type
  <2>3. QED
    BY <1>2, <2>1, <2>2
<1>4. PICK q \in Int, r \in 0 .. (m - 1) : y = q * m + r /\ q = y \div m
  BY ModDecompose
<1>5. PICK d \in Int : d = k * h
  OBVIOUS
<1>6. k * Pow2[n] = (d * 2) * m
  BY <1>3, <1>5
<1>7. x = (q + d * 2) * m + r
  <2>1. \A u, v \in Int : (u + v) * m = u * m + v * m
    OBVIOUS
  <2>2. (q + d * 2) * m = q * m + (d * 2) * m
    BY <2>1
  <2>3. PICK u \in Int, v \in Int : u = q * m /\ v = (d * 2) * m
    OBVIOUS
  <2>4. x = y + v /\ y = u + r
    BY <1>4, <1>6, <2>3
  <2>5. x = (u + v) + r
    BY <2>3, <2>4
  <2>6. QED
    BY <2>2, <2>3, <2>5
<1>8. x \div m = q + d * 2
  <2>1. PICK t \in Int : t = q + d * 2
    OBVIOUS
  <2>2. x = t * m + r
    BY <1>7, <2>1
  <2>3. x \div m = t
    BY <1>2, <1>4, <2>1, <2>2, QuotientUnique
  <2>4. QED
    BY <2>1, <2>3
<1>9. (q + d * 2) % 2 = q % 2
  BY ModShift
<1>10. QED
  BY <1>2, <1>4, <1>8, <1>9

-----------------------------------------------------------------------------
(* Terms and numbers *)

\* The parts of a term.
LEMMA TermParts ==
  ASSUME NEW t \in Terms
  PROVE  /\ t.w \in Widths /\ t.w \in Nat /\ t.s \in BOOLEAN
         /\ t.p \in Patterns(t.w) /\ t.p \in Nat
         /\ t = Term(t.w, t.s, t.p)
BY DEF Terms, Term, Widths

\* A term stands for a number of its type, and its pattern is that number's.
LEMMA NumType ==
  ASSUME NEW t \in Terms
  PROVE  /\ Num(t) \in ValueSet(t.w, t.s)
         /\ Num(t) \in Int
         /\ t.p = Wrap(t.w, Num(t))
<1>1. t.w \in Widths /\ t.s \in BOOLEAN /\ t.p \in Patterns(t.w)
  BY TermParts
<1>2. QED
  BY <1>1, DecodeType, WrapOfDecode DEF Num

\* An unsigned term stands for its pattern.
LEMMA NumUnsigned ==
  ASSUME NEW t \in Terms, ~t.s
  PROVE  Num(t) = t.p
BY DEF Num, Decode

\* The term of an integer's low bits; it stands for the integer if it fits.
LEMMA TermOfWrap ==
  ASSUME NEW w \in Widths, NEW s \in BOOLEAN, NEW x \in Int
  PROVE  /\ Term(w, s, Wrap(w, x)) \in Terms
         /\ Term(w, s, Wrap(w, x)).w = w
         /\ Term(w, s, Wrap(w, x)).s = s
         /\ Num(Term(w, s, Wrap(w, x))) = Decode(w, s, Wrap(w, x))
         /\ x \in ValueSet(w, s) => Num(Term(w, s, Wrap(w, x))) = x
<1>1. Wrap(w, x) \in Patterns(w) /\ Wrap(w, x) \in Nat
  BY WrapRange
<1>2. x \in ValueSet(w, s) => Decode(w, s, Wrap(w, x)) = x
  BY DecodeOfWrap
<1>3. QED
  BY <1>1, <1>2 DEF Term, Terms, Num

\* The term of a number of its type.
LEMMA TermOfNumber ==
  ASSUME NEW w \in Widths, NEW s \in BOOLEAN, NEW x \in ValueSet(w, s)
  PROVE  /\ Term(w, s, Wrap(w, x)) \in Terms
         /\ Num(Term(w, s, Wrap(w, x))) = x
         /\ x \in Int
BY TermOfWrap, ValueSetInt

\* Sign extension keeps the number.
LEMMA SextIsWrap ==
  ASSUME NEW w \in Widths, NEW wide \in w .. MaxWidth, NEW p \in Patterns(w)
  PROVE  Sext(w, wide, p) = Wrap(wide, Decode(w, TRUE, p))
<1>1. w \in 0 .. MaxWidth /\ wide \in Widths
  BY RangeBounds, Powers DEF Widths
<1>2. /\ Pow2[w] \in Nat \ {0} /\ Pow2[w - 1] \in Nat \ {0} /\ Pow2[wide] \in Nat \ {0}
      /\ Pow2[w] <= Pow2[wide] /\ p \in 0 .. (Pow2[w] - 1)
  BY <1>1, RangeBounds, Pow2Mono DEF Patterns
<1>3. CASE p >= Pow2[w - 1]
  <2>1. Sext(w, wide, p) = p + (Pow2[wide] - Pow2[w]) /\ Decode(w, TRUE, p) = p - Pow2[w]
    BY <1>3 DEF Sext, Decode
  <2>2. /\ p + (Pow2[wide] - Pow2[w]) \in Patterns(wide)
        /\ p + (Pow2[wide] - Pow2[w]) = (p - Pow2[w]) + 1 * Pow2[wide]
        /\ p + (Pow2[wide] - Pow2[w]) \in Int /\ p - Pow2[w] \in Int
    BY <1>2 DEF Patterns
  <2>3. Wrap(wide, p + (Pow2[wide] - Pow2[w])) = Wrap(wide, p - Pow2[w])
    BY <1>1, <2>2, WrapShift
  <2>4. QED
    BY <1>1, <2>1, <2>2, <2>3, WrapOfPattern
<1>4. CASE ~(p >= Pow2[w - 1])
  <2>1. Sext(w, wide, p) = p /\ Decode(w, TRUE, p) = p
    BY <1>4 DEF Sext, Decode
  <2>2. p \in Patterns(wide)
    BY <1>2 DEF Patterns
  <2>3. QED
    BY <1>1, <2>1, <2>2, WrapOfPattern
<1>5. QED
  BY <1>3, <1>4

\* Zero extension keeps the pattern.
LEMMA ZextIsWrap ==
  ASSUME NEW w \in Widths, NEW wide \in w .. MaxWidth, NEW p \in Patterns(w)
  PROVE  Zext(p) = Wrap(wide, p) /\ p \in Patterns(wide) /\ p \in Int
<1>1. w \in 0 .. MaxWidth /\ wide \in Widths
  BY RangeBounds, Powers DEF Widths
<1>2. /\ Pow2[w] \in Nat \ {0} /\ Pow2[wide] \in Nat \ {0}
      /\ Pow2[w] <= Pow2[wide] /\ p \in 0 .. (Pow2[w] - 1)
  BY <1>1, RangeBounds, Pow2Mono DEF Patterns
<1>3. p \in Patterns(wide) /\ p \in Int
  BY <1>2 DEF Patterns
<1>4. QED
  BY <1>1, <1>3, WrapOfPattern DEF Zext

\* internal::extend gives the wider word of the same number.
LEMMA ExtendIsWrap ==
  ASSUME NEW t \in Terms, NEW wide \in t.w .. MaxWidth
  PROVE  Extend(t, wide) = Wrap(wide, Num(t))
<1>1. t.w \in Widths /\ t.s \in BOOLEAN /\ t.p \in Patterns(t.w) /\ t.p = Wrap(t.w, Num(t))
  BY TermParts, NumType
<1>2. CASE wide = t.w
  BY <1>1, <1>2 DEF Extend
<1>3. CASE wide # t.w /\ t.s
  BY <1>1, <1>3, SextIsWrap DEF Extend, Num
<1>4. CASE wide # t.w /\ ~t.s
  BY <1>1, <1>4, ZextIsWrap, NumUnsigned DEF Extend
<1>5. QED
  BY <1>1, <1>2, <1>3, <1>4

-----------------------------------------------------------------------------
(* Bit-growth arithmetic *)

\* One more bit holds the sum and, signed, the difference.
LEMMA SumFits ==
  ASSUME NEW w \in Widths, NEW v \in Widths, v = w + 1, NEW s \in BOOLEAN,
         NEW x \in ValueSet(w, s), NEW y \in ValueSet(w, s)
  PROVE  /\ x + y \in ValueSet(v, s)
         /\ x - y \in ValueSet(v, TRUE)
         /\ -x \in ValueSet(v, TRUE)
<1>1. v - 1 = w
  BY WidthsType
<1>2. /\ Pow2[v] = 2 * Pow2[w] /\ Pow2[w] = 2 * Pow2[w - 1]
      /\ Pow2[v] \in Nat /\ Pow2[w] \in Nat /\ Pow2[w - 1] \in Nat \ {0}
  BY <1>1, RangeBounds
<1>3. CASE s
  <2>1. /\ x \in -Pow2[w - 1] .. (Pow2[w - 1] - 1)
        /\ y \in -Pow2[w - 1] .. (Pow2[w - 1] - 1)
    BY <1>3 DEF ValueSet
  <2>2. /\ x + y \in -Pow2[w] .. (Pow2[w] - 1)
        /\ x - y \in -Pow2[w] .. (Pow2[w] - 1)
        /\ -x \in -Pow2[w] .. (Pow2[w] - 1)
    BY <1>2, <2>1
  <2>3. QED
    BY <1>1, <1>3, <2>2 DEF ValueSet
<1>4. CASE ~s
  <2>1. x \in 0 .. (Pow2[w] - 1) /\ y \in 0 .. (Pow2[w] - 1)
    BY <1>4 DEF ValueSet
  <2>2. /\ x + y \in 0 .. (Pow2[v] - 1)
        /\ x - y \in -Pow2[w] .. (Pow2[w] - 1)
        /\ -x \in -Pow2[w] .. (Pow2[w] - 1)
    BY <1>2, <2>1
  <2>3. QED
    BY <1>1, <1>4, <2>2 DEF ValueSet
<1>5. QED
  BY <1>3, <1>4

\* The type one bit narrower than a sum's holds both operands.
LEMMA OperandsFit ==
  ASSUME NEW a \in Terms, NEW b \in Terms, ArithResultWidth(a, b) <= MaxWidth
  PROVE  LET w == ArithResultWidth(a, b) - 1
         IN  /\ w \in Widths /\ w + 1 = ArithResultWidth(a, b)
             /\ w + 1 \in a.w .. MaxWidth /\ w + 1 \in b.w .. MaxWidth
             /\ Num(a) \in ValueSet(w, a.s \/ b.s)
             /\ Num(b) \in ValueSet(w, a.s \/ b.s)
<1> DEFINE w == ArithResultWidth(a, b) - 1
           s == a.s \/ b.s
<1>1. /\ a.w \in Widths /\ a.s \in BOOLEAN /\ b.w \in Widths /\ b.s \in BOOLEAN
      /\ a.w \in 1 .. MaxWidth /\ b.w \in 1 .. MaxWidth /\ MaxWidth \in Nat
  BY TermParts, Powers DEF Widths
<1>2. /\ w \in a.w .. MaxWidth /\ w \in b.w .. MaxWidth /\ w + 1 = ArithResultWidth(a, b)
      /\ a.s = s \/ (s /\ w > a.w)
      /\ b.s = s \/ (s /\ w > b.w)
  BY <1>1 DEF ArithResultWidth, Wider
<1>3. w \in Widths /\ w + 1 \in a.w .. MaxWidth /\ w + 1 \in b.w .. MaxWidth
  BY <1>1, <1>2 DEF Widths
<1>4. s \in BOOLEAN
  BY <1>1
<1> HIDE DEF w, s
<1>5. ValueSet(a.w, a.s) \subseteq ValueSet(w, s)
  BY <1>1, <1>2, <1>4, ValueSetInclusion
<1>6. ValueSet(b.w, b.s) \subseteq ValueSet(w, s)
  BY <1>1, <1>2, <1>4, ValueSetInclusion
<1>7. Num(a) \in ValueSet(w, s) /\ Num(b) \in ValueSet(w, s)
  BY <1>5, <1>6, NumType
<1>8. QED
  BY <1>2, <1>3, <1>7 DEF w, s

\* operator+ never overflows: its result stands for the sum of the numbers.
THEOREM PlusIsExact ==
  ASSUME NEW a \in Terms, NEW b \in Terms, ArithResultWidth(a, b) <= MaxWidth
  PROVE  Plus(a, b) \in Terms /\ Num(Plus(a, b)) = Num(a) + Num(b)
<1> DEFINE w == ArithResultWidth(a, b)
           s == a.s \/ b.s
<1>1. /\ w - 1 \in Widths /\ w - 1 + 1 = w
      /\ w \in a.w .. MaxWidth /\ w \in b.w .. MaxWidth
      /\ Num(a) \in ValueSet(w - 1, s) /\ Num(b) \in ValueSet(w - 1, s)
  BY OperandsFit
<1>2. s \in BOOLEAN /\ Num(a) \in Int /\ Num(b) \in Int
  BY TermParts, NumType
<1>3. Plus(a, b) = Term(w, s, BvAdd(w, Extend(a, w), Extend(b, w)))
  BY DEF Plus
<1> HIDE DEF w, s
<1>4. w \in Widths
  BY <1>1, WidthsType, TermParts
<1>7. Num(a) + Num(b) \in ValueSet(w, s) /\ Num(a) + Num(b) \in Int
  <2>1. Num(a) + Num(b) \in ValueSet(w, s)
    BY <1>1, <1>2, <1>4, SumFits
  <2>2. Num(a) + Num(b) \in Int
    BY <1>2
  <2>3. QED
    BY <2>1, <2>2
<1>5. Extend(a, w) = Wrap(w, Num(a)) /\ Extend(b, w) = Wrap(w, Num(b))
  BY <1>1, ExtendIsWrap
<1>6. Plus(a, b) = Term(w, s, Wrap(w, Num(a) + Num(b)))
  BY <1>2, <1>3, <1>4, <1>5, WordArithmetic
<1>8. QED
  BY <1>2, <1>4, <1>7, <1>6, TermOfNumber

\* operator- never overflows: its result stands for the difference.
THEOREM MinusIsExact ==
  ASSUME NEW a \in Terms, NEW b \in Terms, ArithResultWidth(a, b) <= MaxWidth
  PROVE  Minus(a, b) \in Terms /\ Num(Minus(a, b)) = Num(a) - Num(b)
<1> DEFINE w == ArithResultWidth(a, b)
           s == a.s \/ b.s
<1>1. /\ w - 1 \in Widths /\ w - 1 + 1 = w
      /\ w \in a.w .. MaxWidth /\ w \in b.w .. MaxWidth
      /\ Num(a) \in ValueSet(w - 1, s) /\ Num(b) \in ValueSet(w - 1, s)
  BY OperandsFit
<1>2. s \in BOOLEAN /\ Num(a) \in Int /\ Num(b) \in Int
  BY TermParts, NumType
<1>3. Minus(a, b) = Term(w, TRUE, BvSub(w, Extend(a, w), Extend(b, w)))
  BY DEF Minus
<1> HIDE DEF w, s
<1>4. w \in Widths
  BY <1>1, WidthsType, TermParts
<1>7. Num(a) - Num(b) \in ValueSet(w, TRUE) /\ Num(a) - Num(b) \in Int
  <2>1. Num(a) - Num(b) \in ValueSet(w, TRUE)
    BY <1>1, <1>2, <1>4, SumFits
  <2>2. Num(a) - Num(b) \in Int
    BY <1>2
  <2>3. QED
    BY <2>1, <2>2
<1>5. Extend(a, w) = Wrap(w, Num(a)) /\ Extend(b, w) = Wrap(w, Num(b))
  BY <1>1, ExtendIsWrap
<1>6. Minus(a, b) = Term(w, TRUE, Wrap(w, Num(a) - Num(b)))
  BY <1>2, <1>3, <1>4, <1>5, WordArithmetic
<1>8. QED
  BY <1>2, <1>4, <1>7, <1>6, TermOfNumber

\* Unary minus never overflows, not even on the least signed number.
THEOREM NegatedIsExact ==
  ASSUME NEW a \in Terms, a.w < MaxWidth
  PROVE  Negated(a) \in Terms /\ Num(Negated(a)) = -Num(a)
<1> DEFINE w == a.w + 1
<1>1. a.w \in Widths /\ a.s \in BOOLEAN /\ Num(a) \in ValueSet(a.w, a.s) /\ Num(a) \in Int
  BY TermParts, NumType
<1>2. w \in Widths /\ w \in a.w .. MaxWidth
  BY <1>1, WidthsType
<1>3. Negated(a) = Term(w, TRUE, BvNeg(w, Extend(a, w)))
  BY DEF Negated
<1>4. -Num(a) \in ValueSet(w, TRUE)
  BY <1>1, <1>2, SumFits
<1>7. -Num(a) \in Int
  BY <1>1
<1> HIDE DEF w
<1>5. Negated(a) = Term(w, TRUE, Wrap(w, -Num(a)))
  BY <1>1, <1>2, <1>3, ExtendIsWrap, WordArithmetic
<1>6. QED
  BY <1>1, <1>2, <1>4, <1>7, <1>5, TermOfNumber

\* The bounds of a product of words of M and N values, h being half of N.
LEMMA ProductBounds ==
  ASSUME NEW M \in Nat \ {0}, NEW N \in Nat \ {0}, NEW x \in 0 .. (M - 1)
  PROVE  /\ \A y \in 0 .. (N - 1) : x * y \in 0 .. (M * N - 1)
         /\ \A y \in -N .. (N - 1) : x * y \in -(M * N) .. (M * N - 1)
<1>1. ASSUME NEW y \in 0 .. (N - 1)
      PROVE  x * y \in 0 .. (M * N - 1)
  <2>1. x * y >= 0 /\ (M - 1 - x) * y >= 0 /\ (M - 1) * (N - 1 - y) >= 0
    OBVIOUS
  <2>2. x * y <= (M - 1) * y /\ (M - 1) * y <= (M - 1) * (N - 1)
    BY <2>1
  <2>3. (M - 1) * (N - 1) = M * N - M - N + 1
    OBVIOUS
  <2>4. QED
    BY <2>1, <2>2, <2>3
<1>2. ASSUME NEW y \in -N .. (N - 1)
      PROVE  x * y \in -(M * N) .. (M * N - 1)
  <2>1. CASE y >= 0
    BY <1>1, <2>1
  <2>2. CASE y < 0
    <3>1. x * (-y) >= 0 /\ (M - x) * (-y) >= 0 /\ M * (N - (-y)) >= 0
      BY <2>2
    <3>2. x * y <= 0 /\ -(x * y) <= M * (-y) /\ M * (-y) <= M * N /\ x * y \in Int
      BY <3>1
    <3>3. M * N \in Nat /\ M * N >= 1
      OBVIOUS
    <3>4. QED
      BY <3>2, <3>3
  <2>3. QED
    BY <2>1, <2>2
<1>3. QED
  BY <1>1, <1>2

\* The bounds of a product of two signed words.
LEMMA SignedProductBounds ==
  ASSUME NEW g \in Nat \ {0}, NEW h \in Nat \ {0},
         NEW x \in -g .. (g - 1), NEW y \in -h .. (h - 1)
  PROVE  x * y \in -(2 * g * h) .. (2 * g * h - 1)
<1>1. g * h >= 1 /\ g * h \in Nat
  OBVIOUS
<1>2. CASE x >= 0
  <2>1. x * y \in -(g * h) .. (g * h - 1)
    BY <1>2, ProductBounds
  <2>2. QED
    BY <1>1, <2>1
<1>3. CASE x < 0 /\ y >= 0
  <2>1. y * x \in -(h * g) .. (h * g - 1)
    BY <1>3, ProductBounds
  <2>2. y * x = x * y /\ h * g = g * h
    OBVIOUS
  <2>3. QED
    BY <1>1, <2>1, <2>2
<1>4. CASE x < 0 /\ y < 0
  <2>1. (-x) * (-y) = x * y /\ (-x) * (-y) >= 0
        /\ (g - (-x)) * (-y) >= 0 /\ g * (h - (-y)) >= 0
    BY <1>4
  <2>2. (-x) * (-y) <= g * (-y) /\ g * (-y) <= g * h
    BY <2>1
  <2>3. QED
    BY <1>1, <2>1, <2>2
<1>5. QED
  BY <1>2, <1>3, <1>4

\* A product has as many bits as its factors together.
LEMMA ProductFits ==
  ASSUME NEW m \in Widths, NEW s \in BOOLEAN, NEW x \in ValueSet(m, s),
         NEW n \in Widths, NEW t \in BOOLEAN, NEW y \in ValueSet(n, t),
         m + n \in Widths
  PROVE  x * y \in ValueSet(m + n, s \/ t)
<1> DEFINE M == Pow2[m]
           N == Pow2[n]
           g == Pow2[m - 1]
           h == Pow2[n - 1]
<1>1. M \in Nat \ {0} /\ N \in Nat \ {0} /\ g \in Nat \ {0} /\ h \in Nat \ {0}
      /\ M = 2 * g /\ N = 2 * h
  BY RangeBounds
<1>2. /\ m \in 0 .. MaxWidth /\ n \in 0 .. MaxWidth /\ m - 1 \in 0 .. MaxWidth
      /\ n - 1 \in 0 .. MaxWidth /\ m + n \in 0 .. MaxWidth
      /\ m + (n - 1) = (m + n) - 1 /\ m + (n - 1) \in 0 .. MaxWidth
  BY WidthsType
<1>3. Pow2[m + n] = M * N /\ Pow2[(m + n) - 1] = M * h
  BY <1>2, Powers
<1>4. x \in Int /\ y \in Int
  BY ValueSetInt
<1>5. /\ s => x \in -g .. (g - 1)
      /\ ~s => x \in 0 .. (M - 1)
      /\ t => y \in -h .. (h - 1)
      /\ ~t => y \in 0 .. (N - 1)
  BY DEF ValueSet
<1>6. M * h = 2 * g * h /\ M * h = N * g
  BY <1>1
<1>7. /\ ValueSet(m + n, TRUE) = -(M * h) .. (M * h - 1)
      /\ ValueSet(m + n, FALSE) = 0 .. (M * N - 1)
  <2>1. /\ ValueSet(m + n, TRUE) = -Pow2[(m + n) - 1] .. (Pow2[(m + n) - 1] - 1)
        /\ ValueSet(m + n, FALSE) = 0 .. (Pow2[m + n] - 1)
    BY DEF ValueSet
  <2>2. QED
    BY <1>3, <2>1
<1> HIDE DEF M, N, g, h
<1>8. CASE s /\ t
  <2>1. x * y \in -(2 * g * h) .. (2 * g * h - 1)
    BY <1>1, <1>5, <1>8, SignedProductBounds
  <2>2. x * y \in ValueSet(m + n, TRUE)
    BY <1>6, <1>7, <2>1
  <2>3. QED
    BY <1>8, <2>2
<1>9. CASE ~s /\ t
  <2>1. x * y \in -(M * h) .. (M * h - 1)
    BY <1>1, <1>5, <1>9, ProductBounds
  <2>2. QED
    BY <1>7, <1>9, <2>1
<1>10. CASE s /\ ~t
  <2>1. y * x \in -(N * g) .. (N * g - 1)
    BY <1>1, <1>5, <1>10, ProductBounds
  <2>2. y * x = x * y
    BY <1>4
  <2>3. x * y \in ValueSet(m + n, TRUE)
    BY <1>6, <1>7, <2>1, <2>2
  <2>4. QED
    BY <1>10, <2>3
<1>11. CASE ~s /\ ~t
  <2>1. x * y \in 0 .. (M * N - 1)
    BY <1>1, <1>5, <1>11, ProductBounds
  <2>2. QED
    BY <1>7, <1>11, <2>1
<1>12. QED
  BY <1>8, <1>9, <1>10, <1>11

\* operator* never overflows: its result stands for the product.
THEOREM TimesIsExact ==
  ASSUME NEW a \in Terms, NEW b \in Terms, a.w + b.w <= MaxWidth
  PROVE  Times(a, b) \in Terms /\ Num(Times(a, b)) = Num(a) * Num(b)
<1> DEFINE w == a.w + b.w
           s == a.s \/ b.s
<1>1. /\ a.w \in Widths /\ a.s \in BOOLEAN /\ Num(a) \in ValueSet(a.w, a.s)
      /\ b.w \in Widths /\ b.s \in BOOLEAN /\ Num(b) \in ValueSet(b.w, b.s)
      /\ Num(a) \in Int /\ Num(b) \in Int
  BY TermParts, NumType
<1>2. w \in Widths /\ w \in a.w .. MaxWidth /\ w \in b.w .. MaxWidth
  BY <1>1, WidthsType
<1>3. s \in BOOLEAN /\ Num(a) * Num(b) \in ValueSet(w, s)
  BY <1>1, <1>2, ProductFits
<1>4. Times(a, b) = Term(w, s, BvMul(w, Extend(a, w), Extend(b, w)))
  BY DEF Times
<1> HIDE DEF w, s
<1>5. Times(a, b) = Term(w, s, Wrap(w, Num(a) * Num(b)))
  BY <1>1, <1>2, <1>4, ExtendIsWrap, WordArithmetic
<1>6. QED
  BY <1>2, <1>3, <1>5, TermOfNumber

-----------------------------------------------------------------------------
(* Comparisons *)

\* The common width keeps the numbers of both operands.
LEMMA CommonFits ==
  ASSUME NEW a \in Terms, NEW b \in Terms, CommonWidth(a, b) <= MaxWidth
  PROVE  LET w == CommonWidth(a, b)
         IN  /\ w \in Widths
             /\ w \in a.w .. MaxWidth /\ w \in b.w .. MaxWidth
             /\ Num(a) \in ValueSet(w, a.s \/ b.s)
             /\ Num(b) \in ValueSet(w, a.s \/ b.s)
<1> DEFINE w == CommonWidth(a, b)
           s == a.s \/ b.s
<1>1. /\ a.w \in Widths /\ a.s \in BOOLEAN /\ b.w \in Widths /\ b.s \in BOOLEAN
      /\ a.w \in 1 .. MaxWidth /\ b.w \in 1 .. MaxWidth /\ MaxWidth \in Nat
  BY TermParts, WidthsType
<1>2. /\ w \in a.w .. MaxWidth /\ w \in b.w .. MaxWidth /\ s \in BOOLEAN
      /\ a.s = s \/ (s /\ w > a.w)
      /\ b.s = s \/ (s /\ w > b.w)
  BY <1>1 DEF CommonWidth, Wider
<1>3. w \in Widths
  BY <1>1, <1>2, WidthsType
<1> HIDE DEF w, s
<1>4. ValueSet(a.w, a.s) \subseteq ValueSet(w, s)
  BY <1>1, <1>2, ValueSetInclusion
<1>5. ValueSet(b.w, b.s) \subseteq ValueSet(w, s)
  BY <1>1, <1>2, ValueSetInclusion
<1>6. Num(a) \in ValueSet(w, s) /\ Num(b) \in ValueSet(w, s)
  BY <1>4, <1>5, NumType
<1>7. QED
  BY <1>2, <1>3, <1>6 DEF w, s

\* math_eq and math_lt compare the numbers, whatever the types.
THEOREM MathComparisonsAreExact ==
  ASSUME NEW a \in Terms, NEW b \in Terms, CommonWidth(a, b) <= MaxWidth
  PROVE  /\ MathEq(a, b) <=> Num(a) = Num(b)
         /\ MathLt(a, b) <=> Num(a) < Num(b)
<1> DEFINE w == CommonWidth(a, b)
           s == a.s \/ b.s
           p == Extend(a, w)
           q == Extend(b, w)
<1>1. /\ w \in Widths /\ s \in BOOLEAN
      /\ w \in a.w .. MaxWidth /\ w \in b.w .. MaxWidth
      /\ Num(a) \in ValueSet(w, s) /\ Num(b) \in ValueSet(w, s)
  BY CommonFits, TermParts
<1>2. p = Wrap(w, Num(a)) /\ q = Wrap(w, Num(b))
  BY <1>1, ExtendIsWrap
<1>3. MathEq(a, b) <=> p = q
  BY DEF MathEq
<1>4. MathLt(a, b) <=> IF s THEN Slt(w, p, q) ELSE Ult(p, q)
  BY DEF MathLt
<1> HIDE DEF p, q, w, s
<1>5. Decode(w, s, p) = Num(a) /\ Decode(w, s, q) = Num(b)
  BY <1>1, <1>2, DecodeOfWrap
<1>6. MathEq(a, b) <=> Num(a) = Num(b)
  BY <1>2, <1>3, <1>5
<1>7. CASE s
  BY <1>4, <1>5, <1>6, <1>7 DEF Slt
<1>8. CASE ~s
  BY <1>4, <1>5, <1>6, <1>8 DEF Ult, Decode
<1>9. QED
  BY <1>1, <1>7, <1>8

\* The strict == and < compare the numbers of operands of one type.
THEOREM StrictComparisonsAreExact ==
  ASSUME NEW a \in Terms, NEW b \in Terms, SameType(a, b)
  PROVE  /\ Eq(a, b) <=> Num(a) = Num(b)
         /\ Lt(a, b) <=> Num(a) < Num(b)
<1>1. /\ a.w = b.w /\ a.s = b.s /\ a.s \in BOOLEAN
      /\ a.p = Wrap(a.w, Num(a)) /\ b.p = Wrap(b.w, Num(b))
  BY TermParts, NumType DEF SameType
<1>2. Eq(a, b) <=> Num(a) = Num(b)
  BY <1>1 DEF Eq, Num
<1>3. CASE a.s
  BY <1>1, <1>2, <1>3 DEF Lt, Slt, Num
<1>4. CASE ~a.s
  BY <1>1, <1>2, <1>4, NumUnsigned DEF Lt, Ult
<1>5. QED
  BY <1>1, <1>3, <1>4

-----------------------------------------------------------------------------
(* Casts *)

\* unsafe_cast gives the word of the new width of the same number.
LEMMA UnsafeCastIsWrap ==
  ASSUME NEW t \in Terms, NEW w \in Widths, NEW s \in BOOLEAN
  PROVE  /\ UnsafeCast(t, w, s) = Term(w, s, Wrap(w, Num(t)))
         /\ UnsafeCast(t, w, s) \in Terms
         /\ UnsafeCast(t, w, s).w = w /\ UnsafeCast(t, w, s).s = s
<1>1. /\ t.w \in Widths /\ t.s \in BOOLEAN /\ t.p \in Patterns(t.w)
      /\ t.p = Wrap(t.w, Num(t)) /\ Num(t) \in Int
  BY TermParts, NumType
<1>2. t.w \in 1 .. MaxWidth /\ w \in 1 .. MaxWidth /\ MaxWidth \in Nat
  BY <1>1, WidthsType
<1>3. CASE w = t.w
  BY <1>1, <1>3, TermOfWrap DEF UnsafeCast
<1>4. CASE w < t.w
  <2>1. UnsafeCast(t, w, s) = Term(w, s, Truncate(w, t.p))
    BY <1>2, <1>4 DEF UnsafeCast
  <2>2. t.w \in w .. MaxWidth
    BY <1>2, <1>4
  <2>3. Truncate(w, t.p) = Wrap(w, Num(t))
    BY <1>1, <2>2, WrapOfWrap DEF Truncate
  <2>4. QED
    BY <1>1, <2>1, <2>3, TermOfWrap
<1>5. CASE w > t.w
  <2>1. UnsafeCast(t, w, s) = Term(w, s, IF t.s THEN Sext(t.w, w, t.p) ELSE Zext(t.p))
    BY <1>2, <1>5 DEF UnsafeCast
  <2>2. w \in t.w .. MaxWidth
    BY <1>2, <1>5
  <2>3. t.s => Sext(t.w, w, t.p) = Wrap(w, Num(t))
    BY <1>1, <2>2, SextIsWrap DEF Num
  <2>4. ~t.s => Zext(t.p) = Wrap(w, Num(t))
    <3>1. Zext(t.p) = Wrap(w, t.p)
      BY <1>1, <2>2, ZextIsWrap
    <3>2. QED
      BY <3>1, NumUnsigned
  <2>5. UnsafeCast(t, w, s) = Term(w, s, Wrap(w, Num(t)))
    BY <1>1, <2>1, <2>3, <2>4
  <2>6. QED
    BY <1>1, <2>5, TermOfWrap
<1>6. QED
  BY <1>2, <1>3, <1>4, <1>5

\* A cast to a type that holds the number keeps it.
LEMMA CastKeeps ==
  ASSUME NEW t \in Terms, NEW w \in Widths, NEW s \in BOOLEAN, Num(t) \in ValueSet(w, s)
  PROVE  Num(UnsafeCast(t, w, s)) = Num(t)
BY UnsafeCastIsWrap, TermOfNumber

\* safe_cast compiles for the types that hold every number of the source,
\* and for no others; where it compiles the number stays what it was.
THEOREM SafeCastIsInclusion ==
  ASSUME NEW t \in Terms, NEW w \in Widths, NEW s \in BOOLEAN
  PROVE  /\ SafeCastCompiles(t, w, s) <=> ValueSet(t.w, t.s) \subseteq ValueSet(w, s)
         /\ SafeCastCompiles(t, w, s) => Num(UnsafeCast(t, w, s)) = Num(t)
<1>1. t.w \in Widths /\ t.s \in BOOLEAN /\ t.w \in Int /\ w \in Int
  BY TermParts, WidthsType
<1>2. ASSUME SafeCastCompiles(t, w, s)
      PROVE  ValueSet(t.w, t.s) \subseteq ValueSet(w, s)
  <2>1. w \in t.w .. MaxWidth /\ (t.s = s \/ (s /\ w > t.w))
    BY <1>1, <1>2, WidthsType DEF SafeCastCompiles
  <2>2. QED
    BY <1>1, <2>1, ValueSetInclusion
<1>3. ASSUME ~SafeCastCompiles(t, w, s)
      PROVE  ~(ValueSet(t.w, t.s) \subseteq ValueSet(w, s))
  <2>0. /\ Pow2[t.w] \in Nat \ {0} /\ Pow2[t.w - 1] \in Nat \ {0}
        /\ Pow2[t.w] = 2 * Pow2[t.w - 1]
        /\ Pow2[w] \in Nat \ {0} /\ Pow2[w - 1] \in Nat \ {0}
        /\ Pow2[w] = 2 * Pow2[w - 1]
    BY <1>1, RangeBounds
  <2>1. CASE t.s /\ ~s
    <3>1. -1 \in ValueSet(t.w, t.s) /\ -1 \notin ValueSet(w, s)
      BY <2>0, <2>1 DEF ValueSet
    <3>2. QED
      BY <3>1
  <2>2. CASE t.s = s /\ w < t.w
    <3>1. t.w - 1 \in w .. MaxWidth /\ w \in 0 .. MaxWidth
      BY <1>1, <2>2, WidthsType
    <3>2. Pow2[w] <= Pow2[t.w - 1]
      BY <3>1, Pow2Mono
    <3>3. CASE s
      <4>1. -Pow2[t.w - 1] \in ValueSet(t.w, t.s) /\ -Pow2[t.w - 1] \notin ValueSet(w, s)
        BY <2>0, <2>2, <3>2, <3>3 DEF ValueSet
      <4>2. QED
        BY <4>1
    <3>4. CASE ~s
      <4>1. Pow2[w] \in ValueSet(t.w, t.s) /\ Pow2[w] \notin ValueSet(w, s)
        BY <2>0, <2>2, <3>2, <3>4 DEF ValueSet
      <4>2. QED
        BY <4>1
    <3>5. QED
      BY <3>3, <3>4
  <2>3. CASE ~t.s /\ s /\ w <= t.w
    <3>1. t.w \in w .. MaxWidth /\ w \in 0 .. MaxWidth
      BY <1>1, <2>3, WidthsType
    <3>2. Pow2[w] <= Pow2[t.w]
      BY <3>1, Pow2Mono
    <3>3. Pow2[t.w] - 1 \in ValueSet(t.w, t.s) /\ Pow2[t.w] - 1 \notin ValueSet(w, s)
      BY <2>0, <2>3, <3>2 DEF ValueSet
    <3>4. QED
      BY <3>3
  <2>4. QED
    BY <1>1, <1>3, <2>1, <2>2, <2>3 DEF SafeCastCompiles
<1>4. SafeCastCompiles(t, w, s) => Num(UnsafeCast(t, w, s)) = Num(t)
  BY <1>2, NumType, CastKeeps
<1>5. QED
  BY <1>2, <1>3, <1>4

\* The cast agrees with the number in as many bits as the new type has.
LEMMA CastIsCongruent ==
  ASSUME NEW t \in Terms, NEW w \in Widths, NEW s \in BOOLEAN
  PROVE  (Num(UnsafeCast(t, w, s)) - Num(t)) % Pow2[w] = 0
<1> DEFINE r == UnsafeCast(t, w, s)
<1>1. /\ r \in Terms /\ r.w = w /\ Num(t) \in Int /\ Num(r) \in Int
      /\ r = Term(w, s, Wrap(w, Num(t)))
  BY UnsafeCastIsWrap, NumType
<1>2. r.p = Wrap(w, Num(r)) /\ r.p = Wrap(w, Num(t))
  BY <1>1, NumType DEF Term
<1> HIDE DEF r
<1>3. (Num(r) - Num(t)) % Pow2[w] = 0
  BY <1>1, <1>2, SameWordIsCongruent
<1>4. QED
  BY <1>3 DEF r

\* The flag of checked_cast compares the two numbers in the source's width.
LEMMA FlagComparesWords ==
  ASSUME NEW t \in Terms, NEW w \in Widths, NEW s \in BOOLEAN
  PROVE  ValuePreserved(t, w, s) <=>
           Wrap(t.w, Num(UnsafeCast(t, w, s))) = Wrap(t.w, Num(t))
<1> DEFINE r == UnsafeCast(t, w, s)
<1>1. r \in Terms /\ t.w \in Widths /\ t.s \in BOOLEAN /\ t.p = Wrap(t.w, Num(t))
  BY UnsafeCastIsWrap, TermParts, NumType
<1>2. UnsafeCast(r, t.w, t.s) = Term(t.w, t.s, Wrap(t.w, Num(r)))
  BY <1>1, UnsafeCastIsWrap
<1>3. QED
  BY <1>1, <1>2 DEF ValuePreserved, Eq, Term

\* The flag is TRUE whenever the number was kept.
LEMMA KeptIsFlagged ==
  ASSUME NEW t \in Terms, NEW w \in Widths, NEW s \in BOOLEAN,
         Num(UnsafeCast(t, w, s)) = Num(t)
  PROVE  ValuePreserved(t, w, s)
BY FlagComparesWords

\* For types whose round trip is a faithful test the flag tells, exactly,
\* whether the number fits the target, and then the number was kept.
THEOREM CheckedCastReportsFit ==
  ASSUME NEW t \in Terms, NEW w \in Widths, NEW s \in BOOLEAN,
         (t.s = s) \/ (s /\ w > t.w) \/ (~s /\ w < t.w)
  PROVE  /\ ValuePreserved(t, w, s) <=> Num(t) \in ValueSet(w, s)
         /\ ValuePreserved(t, w, s) => Num(UnsafeCast(t, w, s)) = Num(t)
<1> DEFINE r == UnsafeCast(t, w, s)
<1>0. /\ t.w \in Widths /\ t.s \in BOOLEAN /\ Num(t) \in ValueSet(t.w, t.s)
      /\ r \in Terms /\ r.w = w /\ r.s = s
  BY TermParts, NumType, UnsafeCastIsWrap
<1>1. /\ t.w \in Widths /\ t.s \in BOOLEAN /\ Num(t) \in ValueSet(t.w, t.s)
      /\ r \in Terms /\ r.w = w /\ r.s = s
      /\ t.w \in 1 .. MaxWidth /\ w \in 1 .. MaxWidth /\ MaxWidth \in Nat
  BY <1>0, WidthsType
<1>2. Num(r) \in ValueSet(w, s)
  BY <1>1, NumType
<1>3. ASSUME Num(t) \in ValueSet(w, s)
      PROVE  ValuePreserved(t, w, s) /\ Num(r) = Num(t)
  BY <1>3, CastKeeps, KeptIsFlagged
<1>4. ASSUME ValuePreserved(t, w, s)
      PROVE  Num(r) = Num(t)
  <2>1. CASE t.w \in w .. MaxWidth /\ (t.s = s \/ (~s /\ w < t.w))
    <3>1. ValueSet(w, s) \subseteq ValueSet(t.w, t.s)
      BY <1>1, <2>1, ValueSetInclusion
    <3>2. Num(r) \in ValueSet(t.w, t.s)
      BY <1>2, <3>1
    <3>3. /\ Decode(t.w, t.s, Wrap(t.w, Num(r))) = Num(r)
          /\ Decode(t.w, t.s, Wrap(t.w, Num(t))) = Num(t)
      BY <1>1, <3>2, DecodeOfWrap
    <3>4. Wrap(t.w, Num(r)) = Wrap(t.w, Num(t))
      BY <1>4, FlagComparesWords
    <3>5. QED
      BY <3>3, <3>4
  <2>2. CASE w \in t.w .. MaxWidth /\ (t.s = s \/ (s /\ w > t.w))
    <3>1. ValueSet(t.w, t.s) \subseteq ValueSet(w, s)
      BY <1>1, <2>2, ValueSetInclusion
    <3>2. QED
      BY <1>1, <1>3, <3>1
  <2>3. QED
    BY <1>1, <2>1, <2>2
<1>5. QED
  BY <1>2, <1>3, <1>4

\* to_symbolic keeps the number of a concrete value.
LEMMA ToSymbolicIsExact ==
  ASSUME NEW c, c.w \in Widths, c.s \in BOOLEAN, c.x \in ValueSet(c.w, c.s)
  PROVE  /\ ToSymbolic(c) \in Terms
         /\ ToSymbolic(c).w = c.w /\ ToSymbolic(c).s = c.s
         /\ Num(ToSymbolic(c)) = c.x
BY TermOfNumber, TermOfWrap DEF ToSymbolic

\* A Boolean as a one-bit number, and back.
LEMMA OneBit ==
  /\ \A b \in BOOLEAN : /\ AsUint1(b) \in Terms
                        /\ Num(AsUint1(b)) = IF b THEN 1 ELSE 0
  /\ \A t \in Terms : ~t.s => (AsBool(t) <=> Num(t) = 1)
<1>1. 1 \in Widths /\ Pow2[1] = 2
  <2>1. 1 \in Widths
    BY WidthsType
  <2>2. QED
    BY <2>1, Powers
<1>2. 0 \in Patterns(1) /\ 1 \in Patterns(1)
  BY <1>1 DEF Patterns
<1>3. ASSUME NEW b \in BOOLEAN
      PROVE  AsUint1(b) \in Terms /\ Num(AsUint1(b)) = IF b THEN 1 ELSE 0
  <2>1. PICK p \in {0, 1} : p = IF b THEN 1 ELSE 0
    OBVIOUS
  <2>2. AsUint1(b) = [w |-> 1, s |-> FALSE, p |-> p] /\ p \in Nat /\ p \in Patterns(1)
    BY <1>2, <2>1 DEF AsUint1, Term
  <2>3. AsUint1(b) \in Terms
    BY <1>1, <2>2 DEF Terms
  <2>4. Num(AsUint1(b)) = p
    BY <2>2 DEF Num, Decode
  <2>5. QED
    BY <2>1, <2>3, <2>4
<1>4. QED
  BY <1>3, NumUnsigned DEF AsBool

-----------------------------------------------------------------------------
(* Shifts *)

\* The pattern of a cast to an unsigned type.
LEMMA UnsignedCastPattern ==
  ASSUME NEW t \in Terms, NEW v \in Widths
  PROVE  UnsafeCast(t, v, FALSE).p = Wrap(v, Num(t))
<1>1. FALSE \in BOOLEAN
  OBVIOUS
<1>2. ASSUME NEW s \in BOOLEAN
      PROVE  UnsafeCast(t, v, s).p = Wrap(v, Num(t))
  BY UnsafeCastIsWrap DEF Term
<1>3. QED
  BY <1>1, <1>2

\* A left shift by n within v bits.
LeftShifted(t, v, n) == Term(v, FALSE, Shl(v, UnsafeCast(t, v, FALSE).p, n))

\* It leaves the word of t times 2^n, exactly when v bits hold the product.
LEMMA LeftShiftOfWord ==
  ASSUME NEW t \in Terms, NEW v \in Widths, NEW n \in Nat, t.w + n <= v
  PROVE  /\ LeftShifted(t, v, n) = Term(v, FALSE, Wrap(v, Num(t) * Pow2[n]))
         /\ LeftShifted(t, v, n) \in Terms
         /\ Num(LeftShifted(t, v, n)) = LeftShifted(t, v, n).p
         /\ Num(t) * Pow2[n] \in Int
         /\ Num(t) >= 0 => Num(LeftShifted(t, v, n)) = Num(t) * Pow2[n]
<1> DEFINE r == LeftShifted(t, v, n)
<1>1. /\ t.w \in Widths /\ t.p \in Patterns(t.w) /\ Num(t) \in Int
      /\ t.w \in Int /\ t.w >= 1 /\ v \in Int /\ v <= MaxWidth /\ MaxWidth \in Nat
  BY TermParts, NumType, WidthsType
<1>2. n \in 0 .. (v - 1) /\ n \in 0 .. MaxWidth
  BY <1>1
<1>3. Pow2[n] \in Nat \ {0}
  BY <1>2, Pow2Type
<1>4. UnsafeCast(t, v, FALSE).p = Wrap(v, Num(t))
  BY UnsignedCastPattern
<1>5. Shl(v, Wrap(v, Num(t)), n) = Wrap(v, Num(t) * Pow2[n])
  BY <1>1, <1>2, ShlIsWrap
<1>6. Num(t) * Pow2[n] \in Int
  BY <1>1, <1>3
<1>7. ASSUME Num(t) >= 0
      PROVE  Num(t) * Pow2[n] \in ValueSet(v, FALSE)
  <2>1. Num(t) \in Patterns(t.w)
    <3>1. t.p \in 0 .. (Pow2[t.w] - 1) /\ Pow2[t.w] \in Nat
      BY <1>1, RangeBounds DEF Patterns
    <3>2. Num(t) = t.p \/ Num(t) = t.p - Pow2[t.w]
      BY DEF Num, Decode
    <3>3. QED
      BY <1>1, <1>7, <3>1, <3>2 DEF Patterns
  <2>2. QED
    BY <1>1, <1>2, <2>1, ShiftedFits
<1>7a. r = Term(v, FALSE, Wrap(v, Num(t) * Pow2[n]))
  BY <1>4, <1>5 DEF LeftShifted
<1>8. /\ r \in Terms /\ ~r.s
      /\ Num(t) * Pow2[n] \in ValueSet(v, FALSE) => Num(r) = Num(t) * Pow2[n]
  <2>1. FALSE \in BOOLEAN
    OBVIOUS
  <2>2. ASSUME NEW s \in BOOLEAN
        PROVE  LET q == Term(v, s, Wrap(v, Num(t) * Pow2[n]))
               IN  /\ q \in Terms /\ q.s = s
                   /\ Num(t) * Pow2[n] \in ValueSet(v, s) => Num(q) = Num(t) * Pow2[n]
    BY <1>6, TermOfWrap
  <2>3. QED
    BY <1>7a, <2>1, <2>2
<1>9. Num(r) = r.p
  BY <1>8, NumUnsigned
<1>10. QED
  BY <1>6, <1>7, <1>7a, <1>8, <1>9

\* shl<N> multiplies by 2^N modulo the width of its result, and exactly
\* when the operand is not negative.
THEOREM ShlConstMultiplies ==
  ASSUME NEW t \in Terms, NEW n \in Nat, t.w + n <= MaxWidth
  PROVE  /\ ShlConst(t, n) = Term(t.w + n, FALSE, Wrap(t.w + n, Num(t) * Pow2[n]))
         /\ ShlConst(t, n) \in Terms /\ t.w + n \in Widths
         /\ (Num(ShlConst(t, n)) - Num(t) * Pow2[n]) % Pow2[t.w + n] = 0
         /\ Num(t) >= 0 => Num(ShlConst(t, n)) = Num(t) * Pow2[n]
<1> DEFINE v == t.w + n
           r == ShlConst(t, n)
<1>1. t.w \in Widths /\ v \in Widths /\ t.w + n <= v
  BY TermParts, WidthsType
<1>2. r = LeftShifted(t, v, n)
  BY DEF ShlConst, LeftShifted
<1> HIDE DEF v, r
<1>3. /\ r = Term(v, FALSE, Wrap(v, Num(t) * Pow2[n]))
      /\ r \in Terms /\ Num(r) = r.p /\ Num(t) * Pow2[n] \in Int
      /\ Num(t) >= 0 => Num(r) = Num(t) * Pow2[n]
  BY <1>1, <1>2, LeftShiftOfWord
<1>4. r.w = v /\ r.p = Wrap(v, Num(t) * Pow2[n]) /\ Num(r) \in Int /\ r.p = Wrap(v, Num(r))
  BY <1>3, NumType DEF Term
<1>5. (Num(r) - Num(t) * Pow2[n]) % Pow2[v] = 0
  BY <1>1, <1>3, <1>4, SameWordIsCongruent
<1>6. QED
  BY <1>1, <1>3, <1>5 DEF v, r

\* What an unsigned amount of width k can be.
LEMMA AmountBounds ==
  ASSUME NEW t \in Terms, NEW amount \in Terms, ~amount.s,
         ShlWidth(t, amount.w) <= MaxWidth
  PROVE  /\ ShlWidth(t, amount.w) \in Widths
         /\ amount.p \in Nat /\ t.w + amount.p <= ShlWidth(t, amount.w)
         /\ UnsafeCast(amount, ShlWidth(t, amount.w), FALSE).p = amount.p
<1> DEFINE v == ShlWidth(t, amount.w)
<1>1. /\ t.w \in Widths /\ amount.w \in Widths /\ amount.p \in Nat
      /\ amount.p \in Patterns(amount.w)
  BY TermParts
<1>2. Pow2[amount.w] \in Nat \ {0} /\ amount.p <= Pow2[amount.w] - 1
  BY <1>1, RangeBounds DEF Patterns
<1>3. v \in Widths /\ t.w + amount.p <= v /\ amount.p < v
  BY <1>1, <1>2, WidthsType DEF ShlWidth
<1> HIDE DEF v
<1>4. v < Pow2[v] /\ Pow2[v] \in Nat
  BY <1>3, RangeBounds, Powers
<1>5. amount.p \in Patterns(v)
  BY <1>1, <1>3, <1>4, WidthsType DEF Patterns
<1>6. UnsafeCast(amount, v, FALSE).p = Wrap(v, amount.p)
  BY <1>3, NumUnsigned, UnsignedCastPattern
<1>7. QED
  BY <1>1, <1>3, <1>5, <1>6, WrapOfPattern DEF v

\* shl by a symbolic amount multiplies by 2^amount in the same sense.
THEOREM ShlByMultiplies ==
  ASSUME NEW t \in Terms, NEW amount \in Terms, ~amount.s,
         ShlWidth(t, amount.w) <= MaxWidth
  PROVE  LET v == ShlWidth(t, amount.w)
             n == amount.p
             r == ShlBy(t, amount)
         IN  /\ r = Term(v, FALSE, Wrap(v, Num(t) * Pow2[n]))
             /\ r \in Terms /\ v \in Widths
             /\ (Num(r) - Num(t) * Pow2[n]) % Pow2[v] = 0
             /\ Num(t) >= 0 => Num(r) = Num(t) * Pow2[n]
<1> DEFINE v == ShlWidth(t, amount.w)
           n == amount.p
           r == ShlBy(t, amount)
<1>1. v \in Widths /\ n \in Nat /\ t.w + n <= v
  BY AmountBounds
<1>2. r = LeftShifted(t, v, n)
  BY AmountBounds DEF ShlBy, LeftShifted
<1> HIDE DEF v, n, r
<1>3. /\ r = Term(v, FALSE, Wrap(v, Num(t) * Pow2[n]))
      /\ r \in Terms /\ Num(r) = r.p /\ Num(t) * Pow2[n] \in Int
      /\ Num(t) >= 0 => Num(r) = Num(t) * Pow2[n]
  BY <1>1, <1>2, LeftShiftOfWord
<1>4. r.w = v /\ r.p = Wrap(v, Num(t) * Pow2[n]) /\ Num(r) \in Int /\ r.p = Wrap(v, Num(r))
  BY <1>3, NumType DEF Term
<1>5. (Num(r) - Num(t) * Pow2[n]) % Pow2[v] = 0
  BY <1>1, <1>3, <1>4, SameWordIsCongruent
<1>6. QED
  BY <1>1, <1>3, <1>5 DEF v, n, r

\* shr<N> divides by 2^N and rounds down, in the operand's own type.
THEOREM ShrConstDivides ==
  ASSUME NEW t \in Terms, NEW n \in Nat
  PROVE  /\ ShrConst(t, n) = Term(t.w, t.s, Wrap(t.w, FloorShift(Num(t), n)))
         /\ ShrConst(t, n) \in Terms
         /\ Num(ShrConst(t, n)) = FloorShift(Num(t), n)
<1>1. /\ t.w \in Widths /\ t.s \in BOOLEAN /\ t.p \in Patterns(t.w)
      /\ t.p = Wrap(t.w, Num(t)) /\ Num(t) \in ValueSet(t.w, t.s)
  BY TermParts, NumType
<1>2. FloorShift(Num(t), n) \in ValueSet(t.w, t.s)
  BY <1>1, FloorShiftInRange
<1>3. CASE t.s
  <2>1. Ashr(t.w, t.p, n) = Wrap(t.w, FloorShift(Num(t), n))
    BY <1>1, <1>3, AshrIsWrap
  <2>2. QED
    BY <1>1, <1>2, <1>3, <2>1, TermOfNumber DEF ShrConst
<1>4. CASE ~t.s
  <2>1. Lshr(t.w, t.p, n) = Wrap(t.w, FloorShift(Num(t), n))
    BY <1>1, <1>4, NumUnsigned, LshrIsWrap
  <2>2. QED
    BY <1>1, <1>2, <1>4, <2>1, TermOfNumber DEF ShrConst
<1>5. QED
  BY <1>1, <1>3, <1>4

\* shr by a symbolic amount does too, however wide the amount is.
THEOREM ShrByDivides ==
  ASSUME NEW t \in Terms, NEW amount \in Terms, ~amount.s
  PROVE  /\ ShrBy(t, amount) = Term(t.w, t.s, Wrap(t.w, FloorShift(Num(t), amount.p)))
         /\ ShrBy(t, amount) \in Terms
         /\ Num(ShrBy(t, amount)) = FloorShift(Num(t), amount.p)
<1> DEFINE w       == Wider(t.w, amount.w)
           x       == FloorShift(Num(t), amount.p)
           wideVal == IF t.s /\ w > t.w THEN Sext(t.w, w, t.p) ELSE Zext(t.p)
           shifted == IF t.s THEN Ashr(w, wideVal, Zext(amount.p))
                             ELSE Lshr(w, wideVal, Zext(amount.p))
<1>1. /\ t.w \in Widths /\ t.s \in BOOLEAN /\ t.p \in Patterns(t.w)
      /\ t.p = Wrap(t.w, Num(t)) /\ Num(t) \in ValueSet(t.w, t.s)
      /\ amount.w \in Widths /\ amount.p \in Nat
  BY TermParts, NumType
<1>2. w \in Widths /\ w \in t.w .. MaxWidth /\ (~(w > t.w) => w = t.w)
  BY <1>1, WidthsType DEF Wider
<1>3. x \in ValueSet(t.w, t.s) /\ x \in Int
  BY <1>1, FloorShiftInRange, ValueSetInt
<1>4. ShrBy(t, amount) =
        Term(t.w, t.s, IF w > t.w THEN Truncate(t.w, shifted) ELSE shifted)
  BY DEF ShrBy
<1> HIDE DEF w
<1>5. ASSUME t.s
      PROVE  shifted = Wrap(w, x)
  <2>1. Num(t) \in ValueSet(w, TRUE)
    BY <1>1, <1>2, <1>5, ValueSetInclusion
  <2>2. wideVal = Wrap(w, Num(t))
    BY <1>1, <1>2, <1>5, SextIsWrap DEF Num, Zext
  <2>3. Ashr(w, wideVal, amount.p) = Wrap(w, x)
    BY <1>1, <1>2, <2>1, <2>2, AshrIsWrap
  <2>4. shifted = Wrap(w, x)
    BY <1>5, <2>3 DEF Zext
  <2>5. QED
    BY <2>4
<1>6. ASSUME ~t.s
      PROVE  shifted = Wrap(w, x)
  <2>1. Num(t) = t.p /\ wideVal = t.p /\ t.p \in Patterns(w)
    BY <1>1, <1>2, <1>6, NumUnsigned, ZextIsWrap DEF Zext
  <2>2. Lshr(w, wideVal, amount.p) = Wrap(w, x)
    BY <1>1, <1>2, <2>1, LshrIsWrap
  <2>3. shifted = Wrap(w, x)
    BY <1>6, <2>2 DEF Zext
  <2>4. QED
    BY <2>3
<1>7. shifted = Wrap(w, x)
  BY <1>1, <1>5, <1>6
<1> HIDE DEF shifted, x
<1>8. Truncate(t.w, shifted) = Wrap(t.w, x)
  BY <1>1, <1>2, <1>3, <1>7, WrapOfWrap DEF Truncate
<1>9. ShrBy(t, amount) = Term(t.w, t.s, Wrap(t.w, x))
  BY <1>2, <1>4, <1>7, <1>8
<1>10. QED
  BY <1>1, <1>3, <1>9, TermOfNumber DEF x
=============================================================================
