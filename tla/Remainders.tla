----------------------------- MODULE Remainders -----------------------------
(***************************************************************************)
(* Induction over the natural numbers, facts about the remainders of       *)
(* integers, and the numbers that words stand for.                         *)
(***************************************************************************)
EXTENDS Integers, TLAPS, WellFoundedInduction

\* A set that has 0, and with each number the next, has all numbers.  This is
\* induction as the provers can use it: the set is {n \in Nat : ...}.
LEMMA SetInduction ==
  ASSUME NEW S, 0 \in S, \A n \in Nat : n \in S => n + 1 \in S
  PROVE  Nat \subseteq S
<1> SUFFICES ASSUME Nat \ S # {} PROVE FALSE
  OBVIOUS
<1>1. PICK n \in Nat \ S : \A y \in Nat \ S : ~(<<y, n>> \in OpToRel(<, Nat))
  BY NatLessThanWellFounded, WFMin
<1>2. \A y \in Nat \ S : ~(y < n)
  BY <1>1 DEF OpToRel
<1>3. n # 0 /\ n - 1 \in Nat
  OBVIOUS
<1>4. n - 1 \in S
  BY <1>2, <1>3
<1>5. QED
  BY <1>3, <1>4

\* A product of positive integers is no smaller than a factor.
LEMMA ProductGrows ==
  ASSUME NEW a \in Nat \ {0}, NEW b \in Nat \ {0}
  PROVE  a <= a * b /\ a * b \in Nat \ {0}
OBVIOUS

\* Quotient and remainder.
LEMMA ModDecompose ==
  ASSUME NEW m \in Nat \ {0}, NEW x \in Int
  PROVE  /\ x % m \in 0 .. (m - 1)
         /\ x \div m \in Int
         /\ x = (x \div m) * m + (x % m)
OBVIOUS

\* The remainder is the only one of its range that differs by a multiple.
LEMMA ModUnique ==
  ASSUME NEW m \in Nat \ {0}, NEW x \in Int, NEW q \in Int, NEW r \in 0 .. (m - 1),
         x = q * m + r
  PROVE  x % m = r
OBVIOUS

\* Numbers that differ by a multiple of m have the same remainder.
LEMMA ModShift ==
  ASSUME NEW m \in Nat \ {0}, NEW x \in Int, NEW y \in Int, NEW k \in Int,
         x = y + k * m
  PROVE  x % m = y % m
<1>1. PICK q \in Int, r \in 0 .. (m - 1) : y = q * m + r /\ y % m = r
  BY ModDecompose
<1>2. x = (q + k) * m + r /\ q + k \in Int
  BY <1>1
<1>3. x % m = r
  BY <1>2, ModUnique
<1>4. QED
  BY <1>1, <1>3

\* The remainder of a number of the range is the number.
LEMMA ModSmall ==
  ASSUME NEW m \in Nat \ {0}, NEW x \in 0 .. (m - 1)
  PROVE  x % m = x
<1>1. x = 0 * m + x
  OBVIOUS
<1>2. QED
  BY <1>1, ModUnique

\* Turning a position and back ends where it started.
LEMMA ModBackAndForth ==
  ASSUME NEW m \in Nat \ {0}, NEW i \in 0 .. (m - 1), NEW n \in Int
  PROVE  /\ ((i + n) % m) \in 0 .. (m - 1)
         /\ (((i + n) % m) - n) % m = i
         /\ (((i + n) % m) + (-n)) % m = i
<1>0. i + n \in Int
  OBVIOUS
<1>1. PICK q \in Int, r \in 0 .. (m - 1) : i + n = q * m + r /\ (i + n) % m = r
  BY <1>0, ModDecompose
<1>2. PICK k \in Int : k = -q /\ k * m = -(q * m)
  BY <1>1
<1>3. r \in Int /\ i \in Int /\ r - n \in Int /\ r + (-n) = r - n
  BY <1>1
<1>4. r - n = i + k * m
  <2>1. PICK z \in Int : z = q * m /\ i + n = z + r
    BY <1>1
  <2>2. r - n = i + (-z)
    BY <1>3, <2>1
  <2>3. QED
    BY <1>2, <2>1, <2>2
<1>5. (r - n) % m = i % m
  BY <1>3, <1>4, ModShift
<1>6. QED
  BY <1>1, <1>3, <1>5, ModSmall

\* A remainder may be taken before an addition.
LEMMA ModAdd ==
  ASSUME NEW m \in Nat \ {0}, NEW x \in Int, NEW y \in Int
  PROVE  ((x % m) + (y % m)) % m = (x + y) % m
<1>1. PICK a \in Int, r \in 0 .. (m - 1) : x = a * m + r /\ x % m = r
  BY ModDecompose
<1>2. PICK b \in Int, s \in 0 .. (m - 1) : y = b * m + s /\ y % m = s
  BY ModDecompose
<1>3. /\ x + y = (r + s) + (a + b) * m
      /\ a + b \in Int /\ r + s \in Int /\ x + y \in Int
  BY <1>1, <1>2
<1>4. (x + y) % m = (r + s) % m
  BY <1>3, ModShift
<1>5. QED
  BY <1>1, <1>2, <1>4

\* A remainder may be taken before a subtraction.
LEMMA ModSub ==
  ASSUME NEW m \in Nat \ {0}, NEW x \in Int, NEW y \in Int
  PROVE  ((x % m) - (y % m)) % m = (x - y) % m
<1>1. PICK a \in Int, r \in 0 .. (m - 1) : x = a * m + r /\ x % m = r
  BY ModDecompose
<1>2. PICK b \in Int, s \in 0 .. (m - 1) : y = b * m + s /\ y % m = s
  BY ModDecompose
<1>3. /\ x - y = (r - s) + (a - b) * m
      /\ a - b \in Int /\ r - s \in Int /\ x - y \in Int
  BY <1>1, <1>2
<1>4. (x - y) % m = (r - s) % m
  BY <1>3, ModShift
<1>5. QED
  BY <1>1, <1>2, <1>4

\* A remainder may be taken before a negation.
LEMMA ModNeg ==
  ASSUME NEW m \in Nat \ {0}, NEW x \in Int
  PROVE  (-(x % m)) % m = (-x) % m
<1>1. PICK a \in Int, r \in 0 .. (m - 1) : x = a * m + r /\ x % m = r
  BY ModDecompose
<1>2. -x = -r + (-a) * m /\ -a \in Int /\ -r \in Int /\ -x \in Int
  BY <1>1
<1>3. (-x) % m = (-r) % m
  BY <1>2, ModShift
<1>4. QED
  BY <1>1, <1>3

\* The product of two numbers given by quotient and remainder.
LEMMA ProductOfSums ==
  ASSUME NEW m \in Int, NEW a \in Int, NEW r \in Int, NEW b \in Int, NEW s \in Int
  PROVE  (a * m + r) * (b * m + s) = r * s + (a * b * m + a * s + b * r) * m
OBVIOUS

\* A remainder may be taken before a multiplication.
LEMMA ModMul ==
  ASSUME NEW m \in Nat \ {0}, NEW x \in Int, NEW y \in Int
  PROVE  ((x % m) * (y % m)) % m = (x * y) % m
<1>1. PICK a \in Int, r \in 0 .. (m - 1) : x = a * m + r /\ x % m = r
  BY ModDecompose
<1>2. PICK b \in Int, s \in 0 .. (m - 1) : y = b * m + s /\ y % m = s
  BY ModDecompose
<1>3. PICK k \in Int : k = a * b * m + a * s + b * r
  OBVIOUS
<1>4. x * y = r * s + k * m
  BY <1>1, <1>2, <1>3, ProductOfSums
<1>5. r * s \in Int /\ x * y \in Int
  OBVIOUS
<1>6. (x * y) % m = (r * s) % m
  BY <1>4, <1>5, ModShift
<1>7. QED
  BY <1>1, <1>2, <1>6

\* A remainder modulo a multiple of m may be taken before one modulo m.
LEMMA ModOfMod ==
  ASSUME NEW m \in Nat \ {0}, NEW k \in Nat \ {0}, NEW x \in Int
  PROVE  (x % (m * k)) % m = x % m
<1>1. m * k \in Nat \ {0}
  BY ProductGrows
<1>2. PICK q \in Int, r \in 0 .. (m * k - 1) : x = q * (m * k) + r /\ x % (m * k) = r
  BY <1>1, ModDecompose
<1>3. PICK c \in Int : c = q * k
  OBVIOUS
<1>4. q * (m * k) = c * m
  BY <1>3
<1>5. x = r + c * m /\ r \in Int
  BY <1>2, <1>4, <1>1
<1>6. x % m = r % m
  BY <1>5, ModShift
<1>7. QED
  BY <1>2, <1>6

\* The quotient of a number given by quotient and remainder.
LEMMA QuotientUnique ==
  ASSUME NEW m \in Nat \ {0}, NEW q \in Int, NEW r \in 0 .. (m - 1), NEW x \in Int,
         x = q * m + r
  PROVE  x \div m = q
OBVIOUS

\* Twice a number is halved exactly.
LEMMA HalfOfDouble ==
  ASSUME NEW x \in Int, NEW y \in Int
  PROVE  (y + 2 * x) \div 2 = x + y \div 2
<1>1. 2 \in Nat \ {0} /\ 2 - 1 = 1
  OBVIOUS
<1>2. PICK h \in Int : h = y \div 2
  OBVIOUS
<1>3. PICK r \in 0 .. 1 : y = h * 2 + r
  BY <1>2
<1>4. PICK g \in Int, z \in Int : g = x + h /\ z = y + 2 * x
  OBVIOUS
<1>5. z = g * 2 + r
  BY <1>3, <1>4
<1>6. z \div 2 = g
  BY <1>3, <1>4, <1>5
<1>7. QED
  BY <1>2, <1>4, <1>6

-----------------------------------------------------------------------------
(* Numbers of words.  A word of width w is the set of the positions of its *)
(* bits, and number[b] is the number of the word b.                        *)

\* Each bit adds its weight, which is twice that of the bit below.
IsNumbering(number, w) ==
    /\ w \in Nat \ {0}
    /\ number \in [SUBSET (0 .. w - 1) -> Nat]
    /\ number[{}] = 0
    /\ \A b \in SUBSET (0 .. w - 1), i \in 0 .. w - 1 :
          i \notin b => number[b \cup {i}] = number[b] + number[{i}]
    /\ \A i \in 0 .. w - 1 : number[{i}] = IF i = 0 THEN 1 ELSE 2 * number[{i - 1}]

\* 2 to the power n, and the bits of a word from k on.
PlaceValue(number, n) == IF n = 0 THEN 1 ELSE 2 * number[{n - 1}]
BitsFrom(b, k)        == {i - k : i \in {i \in b : k <= i}}

\* The weights are the powers of two.
LEMMA PlaceWeight ==
  ASSUME NEW number, NEW w, IsNumbering(number, w), NEW i \in 0 .. w - 1
  PROVE  /\ i \in Nat /\ number[{i}] \in Nat \ {0} /\ number[{i}] = PlaceValue(number, i)
         /\ PlaceValue(number, i + 1) = 2 * number[{i}]
<1>1. w \in Nat \ {0} /\ i \in Nat /\ i + 1 # 0 /\ (i + 1) - 1 = i
  BY DEF IsNumbering
<1>2. number[{i}] = PlaceValue(number, i) /\ PlaceValue(number, i + 1) = 2 * number[{i}]
  BY <1>1 DEF IsNumbering, PlaceValue
<1>3. \A j \in Nat : j \in 0 .. w - 1 => number[{j}] \in Nat \ {0}
  <2> DEFINE S == {j \in Nat : j \in 0 .. w - 1 => number[{j}] \in Nat \ {0}}
  <2>1. 0 \in S
    <3>1. PICK z \in 0 .. w - 1 : z = 0
      BY <1>1
    <3>2. number[{z}] = 1
      BY <3>1 DEF IsNumbering
    <3>3. QED
      BY <3>1, <3>2
  <2>2. ASSUME NEW j \in Nat, j \in S
        PROVE  j + 1 \in S
    <3>1. SUFFICES ASSUME j + 1 \in 0 .. w - 1
                   PROVE  number[{j + 1}] \in Nat \ {0}
      OBVIOUS
    <3>2. j \in 0 .. w - 1 /\ (j + 1) - 1 = j /\ j + 1 # 0
      BY <1>1, <3>1
    <3>3. number[{j + 1}] = 2 * number[{j}]
      BY <3>1, <3>2 DEF IsNumbering
    <3>4. QED
      BY <2>2, <3>2, <3>3
  <2>3. Nat \subseteq S
    <3> HIDE DEF S
    <3>1. QED
      BY <2>1, <2>2, SetInduction
  <2>4. QED
    BY <2>3
<1>4. QED
  BY <1>1, <1>2, <1>3

LEMMA PlaceType ==
  ASSUME NEW number, NEW w, IsNumbering(number, w), NEW n \in 0 .. w
  PROVE  /\ PlaceValue(number, n) \in Nat \ {0} /\ n \in Nat /\ w \in Nat \ {0}
         /\ n # w => PlaceValue(number, n + 1) = 2 * PlaceValue(number, n)
<1>1. w \in Nat \ {0} /\ n \in Nat
  BY DEF IsNumbering
<1>2. n # w => PlaceValue(number, n + 1) = 2 * PlaceValue(number, n)
  <2>1. n # w => n \in 0 .. w - 1
    BY <1>1
  <2>2. QED
    BY <2>1, PlaceWeight
<1>3. PlaceValue(number, n) \in Nat \ {0}
  <2>1. CASE n = 0
    BY <2>1 DEF PlaceValue
  <2>2. CASE n # 0
    <3>1. PICK i \in 0 .. w - 1 : i = n - 1 /\ i + 1 = n
      BY <1>1, <2>2
    <3>2. PlaceValue(number, i + 1) = 2 * number[{i}] /\ number[{i}] \in Nat \ {0}
      BY PlaceWeight
    <3>3. QED
      BY <3>1, <3>2
  <2>3. QED
    BY <2>1, <2>2
<1>4. QED
  BY <1>1, <1>2, <1>3

\* Powers of two multiply.
LEMMA PlaceSum ==
  ASSUME NEW number, NEW w, IsNumbering(number, w), NEW k \in Nat, NEW i \in Nat, k + i <= w
  PROVE  PlaceValue(number, k + i) = PlaceValue(number, k) * PlaceValue(number, i)
<1> DEFINE S == {j \in Nat : k + j <= w =>
                    PlaceValue(number, k + j) = PlaceValue(number, k) * PlaceValue(number, j)}
<1>1. w \in Nat /\ k \in 0 .. w
  BY DEF IsNumbering
<1>2. PICK p \in Nat : p = PlaceValue(number, k)
  BY <1>1, PlaceType
<1>3. 0 \in S
  <2>1. k + 0 = k /\ p * 1 = p
    OBVIOUS
  <2>2. PlaceValue(number, 0) = 1
    BY DEF PlaceValue
  <2>3. QED
    BY <1>2, <2>1, <2>2
<1>4. ASSUME NEW j \in Nat, j \in S
      PROVE  j + 1 \in S
  <2>1. SUFFICES ASSUME k + (j + 1) <= w
                 PROVE  PlaceValue(number, k + (j + 1))
                          = PlaceValue(number, k) * PlaceValue(number, j + 1)
    OBVIOUS
  <2>2. PICK n \in 0 .. w : n = k + j /\ n # w /\ n + 1 = k + (j + 1)
    BY <1>1, <2>1
  <2>3. j \in 0 .. w /\ j # w
    BY <1>1, <2>1
  <2>4. PICK q \in Nat : q = PlaceValue(number, j)
    BY <2>3, PlaceType
  <2>5. /\ PlaceValue(number, n + 1) = 2 * PlaceValue(number, n)
        /\ PlaceValue(number, j + 1) = 2 * q
    BY <2>2, <2>3, <2>4, PlaceType
  <2>6. PlaceValue(number, n) = p * q
    BY <1>1, <1>2, <1>4, <2>2, <2>4
  <2>7. 2 * (p * q) = p * (2 * q)
    OBVIOUS
  <2>8. QED
    BY <1>2, <2>2, <2>5, <2>6, <2>7
<1>5. Nat \subseteq S
  <2> HIDE DEF S
  <2>1. QED
    BY <1>3, <1>4, SetInduction
<1>6. QED
  BY <1>5

\* A bit of a word adds its weight.
LEMMA NumberWithout ==
  ASSUME NEW number, NEW w, IsNumbering(number, w), NEW b \in SUBSET (0 .. w - 1), NEW i \in b
  PROVE  /\ b \ {i} \in SUBSET (0 .. w - 1) /\ i \in 0 .. w - 1
         /\ number[b] = number[b \ {i}] + number[{i}]
<1>1. b \ {i} \in SUBSET (0 .. w - 1) /\ i \in 0 .. w - 1 /\ i \notin b \ {i}
  OBVIOUS
<1>2. (b \ {i}) \cup {i} = b
  OBVIOUS
<1>3. number[(b \ {i}) \cup {i}] = number[b \ {i}] + number[{i}]
  BY <1>1 DEF IsNumbering
<1>4. QED
  BY <1>1, <1>2, <1>3

\* A word of n bits is a number below 2^n.
LEMMA NumberBelow ==
  ASSUME NEW number, NEW w, IsNumbering(number, w), NEW n \in 0 .. w,
         NEW b \in SUBSET (0 .. n - 1)
  PROVE  b \in SUBSET (0 .. w - 1) /\ number[b] \in Nat /\ number[b] < PlaceValue(number, n)
<1> DEFINE Small(m) == \A c \in SUBSET (0 .. m - 1) :
                         c \in SUBSET (0 .. w - 1) /\ number[c] < PlaceValue(number, m)
           S == {m \in Nat : m <= w => Small(m)}
<1>0. w \in Nat \ {0}
  BY DEF IsNumbering
<1>1. 0 \in S
  <2>1. ASSUME NEW c \in SUBSET (0 .. 0 - 1)
        PROVE  c \in SUBSET (0 .. w - 1) /\ number[c] < PlaceValue(number, 0)
    <3>1. c = {}
      OBVIOUS
    <3>2. number[{}] = 0 /\ PlaceValue(number, 0) = 1
      BY DEF IsNumbering, PlaceValue
    <3>3. QED
      BY <3>1, <3>2
  <2>2. Small(0)
    BY <2>1
  <2> HIDE DEF Small
  <2>3. QED
    BY <2>2
<1>2. ASSUME NEW m \in Nat, m \in S
      PROVE  m + 1 \in S
  <2>0. SUFFICES ASSUME m + 1 <= w
                 PROVE  Small(m + 1)
    <3> HIDE DEF Small
    <3>1. QED
      BY <1>2
  <2>1. SUFFICES ASSUME NEW c \in SUBSET (0 .. (m + 1) - 1)
                 PROVE  c \in SUBSET (0 .. w - 1) /\ number[c] < PlaceValue(number, m + 1)
    BY Zenon
  <2>2. c \in SUBSET (0 .. w - 1) /\ number[c] \in Nat
    <3>1. 0 .. (m + 1) - 1 \subseteq 0 .. w - 1
      BY <1>0, <2>0
    <3>2. QED
      BY <2>1, <3>1 DEF IsNumbering
  <2>3. m \in 0 .. w - 1 /\ c \ {m} \in SUBSET (0 .. m - 1)
    BY <1>0, <2>0, <2>1
  <2>4. number[c \ {m}] < number[{m}]
    <3>1. m <= w
      BY <1>0, <2>0
    <3>2. number[c \ {m}] < PlaceValue(number, m)
      BY <1>2, <2>3, <3>1
    <3>3. number[{m}] = PlaceValue(number, m)
      BY <2>3, PlaceWeight
    <3>4. QED
      BY <3>2, <3>3
  <2>5. PlaceValue(number, m + 1) = 2 * number[{m}] /\ number[{m}] \in Nat
    BY <2>3, PlaceWeight
  <2>6. CASE m \in c
    <3>1. number[c] = number[c \ {m}] + number[{m}] /\ c \ {m} \in SUBSET (0 .. w - 1)
      BY <2>2, <2>6, NumberWithout
    <3>2. number[c \ {m}] \in Nat
      BY <3>1 DEF IsNumbering
    <3>3. QED
      BY <2>2, <2>4, <2>5, <3>1, <3>2
  <2>7. CASE m \notin c
    <3>1. c \ {m} = c
      BY <2>7
    <3>2. number[c] < number[{m}]
      BY <2>4, <3>1
    <3>3. QED
      BY <2>2, <2>5, <3>2
  <2>8. QED
    BY <2>6, <2>7
<1>3. Nat \subseteq S
  <2> HIDE DEF S
  <2>1. QED
    BY <1>1, <1>2, SetInduction
<1>4. Small(n)
  <2> HIDE DEF Small
  <2>1. QED
    BY <1>0, <1>3
<1>5. QED
  BY <1>4 DEF IsNumbering


\* The number of a word is that of its k low bits and, weighted, that of the others.
LEMMA NumberParts ==
  ASSUME NEW number, NEW w, IsNumbering(number, w), NEW b \in SUBSET (0 .. w - 1), NEW k \in 0 .. w
  PROVE  /\ b \cap (0 .. k - 1) \in SUBSET (0 .. w - 1) /\ BitsFrom(b, k) \in SUBSET (0 .. w - 1)
         /\ number[b] \in Nat /\ number[b \cap (0 .. k - 1)] \in Nat
         /\ number[BitsFrom(b, k)] \in Nat
         /\ number[b] = number[b \cap (0 .. k - 1)]
                          + number[BitsFrom(b, k)] * PlaceValue(number, k)
<1>1. w \in Nat /\ k \in Nat /\ k <= w
  BY DEF IsNumbering
<1> DEFINE Sums(m) == \A c \in SUBSET (0 .. m - 1) :
                        number[c] = number[c \cap (0 .. k - 1)]
                                      + number[BitsFrom(c, k)] * PlaceValue(number, k)
           S == {m \in Nat : m <= w => Sums(m)}
<1>2. \A c \in SUBSET (0 .. w - 1) :
        /\ c \cap (0 .. k - 1) \in SUBSET (0 .. w - 1) /\ BitsFrom(c, k) \in SUBSET (0 .. w - 1)
        /\ number[c] \in Nat /\ number[c \cap (0 .. k - 1)] \in Nat
        /\ number[BitsFrom(c, k)] \in Nat
  <2> SUFFICES ASSUME NEW c \in SUBSET (0 .. w - 1)
      PROVE /\ c \cap (0 .. k - 1) \in SUBSET (0 .. w - 1) /\ BitsFrom(c, k) \in SUBSET (0 .. w - 1)
            /\ number[c] \in Nat /\ number[c \cap (0 .. k - 1)] \in Nat
            /\ number[BitsFrom(c, k)] \in Nat
    OBVIOUS
  <2>1. c \cap (0 .. k - 1) \in SUBSET (0 .. w - 1)
    OBVIOUS
  <2>2. BitsFrom(c, k) \in SUBSET (0 .. w - 1)
    <3>1. \A i \in c : k <= i => i - k \in 0 .. w - 1
      BY <1>1
    <3>2. QED
      BY <3>1 DEF BitsFrom
  <2>3. QED
    BY <2>1, <2>2 DEF IsNumbering
<1>3. 0 \in S
  <2>0. SUFFICES Sums(0)
    <3> HIDE DEF Sums
    <3>1. QED
      OBVIOUS
  <2>1. SUFFICES ASSUME NEW c \in SUBSET (0 .. 0 - 1)
                 PROVE  number[c] = number[c \cap (0 .. k - 1)]
                                      + number[BitsFrom(c, k)] * PlaceValue(number, k)
    BY Zenon
  <2>2. c = {}
    OBVIOUS
  <2>3. c \cap (0 .. k - 1) = {} /\ BitsFrom(c, k) = {}
    BY <2>2 DEF BitsFrom
  <2>4. PICK p \in Nat : p = PlaceValue(number, k)
    BY PlaceType
  <2>5. number[{}] = 0 /\ 0 + 0 * p = 0
    BY DEF IsNumbering
  <2>6. QED
    BY <2>2, <2>3, <2>4, <2>5
<1>4. ASSUME NEW m \in Nat, m \in S
      PROVE  m + 1 \in S
  <2>0. SUFFICES ASSUME m + 1 <= w
                 PROVE  Sums(m + 1)
    <3> HIDE DEF Sums
    <3>1. QED
      BY <1>4
  <2>1. SUFFICES ASSUME NEW c \in SUBSET (0 .. (m + 1) - 1)
                 PROVE  number[c] = number[c \cap (0 .. k - 1)]
                                      + number[BitsFrom(c, k)] * PlaceValue(number, k)
    BY Zenon
  <2>2. c \in SUBSET (0 .. w - 1) /\ m \in 0 .. w - 1
    BY <1>1, <2>0, <2>1
  <2>3. PICK d \in SUBSET (0 .. m - 1) : d = c \ {m}
    <3>1. \A i \in c : i \in Int /\ 0 <= i /\ i <= m
      BY <2>0, <2>1, <1>4
    <3>2. \A i \in c \ {m} : i \in 0 .. m - 1
      BY <3>1, <1>4
    <3>3. c \ {m} \in SUBSET (0 .. m - 1)
      BY <3>2
    <3>4. QED
      BY <3>3
  <2>4. d \in SUBSET (0 .. w - 1)
    BY <2>2, <2>3
  <2>5. number[d] = number[d \cap (0 .. k - 1)] + number[BitsFrom(d, k)] * PlaceValue(number, k)
    <3>1. Sums(m)
      <4>1. m <= w
        BY <1>1, <2>0
      <4> HIDE DEF Sums
      <4>2. QED
        BY <1>4, <4>1
    <3>2. QED
      BY <3>1, Zenon
  <2>6. CASE m \notin c
    <3>1. d = c
      BY <2>3, <2>6
    <3>2. QED
      BY <2>5, <3>1
  <2>7. CASE m \in c /\ m < k
    <3>1. number[c] = number[d] + number[{m}]
      <4>1. number[c] = number[c \ {m}] + number[{m}]
        BY <2>2, <2>7, NumberWithout
      <4>2. QED
        BY <2>3, <4>1
    <3>2. /\ m \in c \cap (0 .. k - 1) /\ (c \cap (0 .. k - 1)) \ {m} = d \cap (0 .. k - 1)
          /\ c \cap (0 .. k - 1) \in SUBSET (0 .. w - 1)
      <4>1. m \in 0 .. k - 1
        BY <1>1, <1>4, <2>7
      <4>2. (c \cap (0 .. k - 1)) \ {m} = d \cap (0 .. k - 1)
        BY <2>3
      <4>3. QED
        BY <1>2, <2>2, <2>7, <4>1, <4>2
    <3>3. number[c \cap (0 .. k - 1)] = number[d \cap (0 .. k - 1)] + number[{m}]
      <4>1. PICK e \in SUBSET (0 .. w - 1) : e = c \cap (0 .. k - 1) /\ m \in e
        BY <3>2
      <4>2. number[e] = number[e \ {m}] + number[{m}]
        BY <4>1, NumberWithout
      <4>3. QED
        BY <3>2, <4>1, <4>2
    <3>4. BitsFrom(c, k) = {} /\ BitsFrom(d, k) = {}
      <4>1. \A i \in c : ~(k <= i)
        BY <1>1, <2>0, <2>1, <2>7
      <4>2. QED
        BY <2>3, <4>1 DEF BitsFrom
    <3>5. number[{}] = 0 /\ PlaceValue(number, k) \in Nat /\ number[{m}] \in Nat
      BY <2>2, PlaceType, PlaceWeight DEF IsNumbering
    <3>6. number[d \cap (0 .. k - 1)] \in Nat
      BY <1>2, <2>4
    <3>7. PICK p \in Nat, x \in Nat, v \in Nat :
            p = PlaceValue(number, k) /\ x = number[d \cap (0 .. k - 1)] /\ v = number[{m}]
      BY <3>5, <3>6
    <3>8. /\ number[BitsFrom(c, k)] * PlaceValue(number, k) = 0
          /\ number[BitsFrom(d, k)] * PlaceValue(number, k) = 0
      <4>1. 0 * p = 0
        OBVIOUS
      <4>2. QED
        BY <3>4, <3>5, <3>7, <4>1
    <3>9. number[d] = x /\ number[c \cap (0 .. k - 1)] = x + v
      BY <2>5, <3>3, <3>7, <3>8
    <3>10. QED
      BY <3>1, <3>7, <3>8, <3>9
  <2>8. CASE m \in c /\ k <= m
    <3>1. number[c] = number[d] + number[{m}]
      <4>1. number[c] = number[c \ {m}] + number[{m}]
        BY <2>2, <2>8, NumberWithout
      <4>2. QED
        BY <2>3, <4>1
    <3>2. c \cap (0 .. k - 1) = d \cap (0 .. k - 1)
      BY <1>1, <2>3, <2>8
    <3>3. m - k \in BitsFrom(c, k) /\ BitsFrom(c, k) \ {m - k} = BitsFrom(d, k)
      <4>1. m \in {i \in c : k <= i}
        BY <2>8
      <4>2. {i \in d : k <= i} = {i \in c : k <= i} \ {m}
        BY <2>3
      <4>3. \A i \in {i \in c : k <= i} : i \in Int /\ (i - k = m - k => i = m)
        BY <1>1, <2>2
      <4>4. QED
        BY <4>1, <4>2, <4>3 DEF BitsFrom
    <3>4. number[BitsFrom(c, k)] = number[BitsFrom(d, k)] + number[{m - k}]
      <4>0. PICK e \in SUBSET (0 .. w - 1) : e = BitsFrom(c, k)
        BY <1>2, <2>2
      <4>1. PICK i \in e : i = m - k
        BY <3>3, <4>0
      <4>2. number[e] = number[e \ {i}] + number[{i}]
        BY NumberWithout
      <4>3. QED
        BY <3>3, <4>0, <4>1, <4>2
    <3>5. number[{m}] = PlaceValue(number, k) * number[{m - k}]
      <4>1. PICK j \in 0 .. w - 1 : j = m - k /\ j \in Nat /\ k + j = m /\ k + j <= w
        BY <1>1, <2>0, <2>1, <2>8
      <4>2. number[{m}] = PlaceValue(number, m) /\ number[{j}] = PlaceValue(number, j)
        BY <2>2, PlaceWeight
      <4>3. PlaceValue(number, k + j) = PlaceValue(number, k) * PlaceValue(number, j)
        BY <1>1, <4>1, PlaceSum
      <4>4. QED
        BY <4>1, <4>2, <4>3
    <3>6. PICK p \in Nat, x \in Nat, y \in Nat, v \in Nat :
            /\ p = PlaceValue(number, k) /\ x = number[d \cap (0 .. k - 1)]
            /\ y = number[BitsFrom(d, k)] /\ v = number[{m - k}]
      <4>1. m - k \in 0 .. w - 1
        BY <1>1, <2>0, <2>1, <2>8
      <4>2. PlaceValue(number, k) \in Nat /\ number[{m - k}] \in Nat
        BY <4>1, PlaceType, PlaceWeight
      <4>3. QED
        BY <1>2, <2>4, <4>2
    <3>7. (x + y * p) + p * v = x + (y + v) * p
      OBVIOUS
    <3>8. QED
      BY <2>5, <3>1, <3>2, <3>4, <3>5, <3>6, <3>7
  <2>9. QED
    BY <1>1, <2>6, <2>7, <2>8
<1>5. Nat \subseteq S
  <2> HIDE DEF S
  <2>1. QED
    BY <1>3, <1>4, SetInduction
<1>6. Sums(w)
  <2> HIDE DEF Sums
  <2>1. QED
    BY <1>1, <1>5
<1>7. QED
  BY <1>2, <1>6

\* The remainder of a word is its low bits, and its quotient the others.
IsCut(number, b, k) ==
    /\ number[b] % PlaceValue(number, k) = number[b \cap (0 .. k - 1)]
    /\ number[b] \div PlaceValue(number, k) = number[BitsFrom(b, k)]

LEMMA NumberQuotient ==
  ASSUME NEW number, NEW w, IsNumbering(number, w), NEW b \in SUBSET (0 .. w - 1), NEW k \in 0 .. w
  PROVE  IsCut(number, b, k)
<1>1. PICK p \in Nat \ {0} : p = PlaceValue(number, k)
  BY PlaceType
<1>2. PICK n \in Int, r \in Nat, q \in Nat :
        /\ n = number[b] /\ r = number[b \cap (0 .. k - 1)]
        /\ q = number[BitsFrom(b, k)] /\ n = r + q * p
  <2>1. /\ number[b] \in Nat /\ number[b \cap (0 .. k - 1)] \in Nat
        /\ number[BitsFrom(b, k)] \in Nat
        /\ number[b] = number[b \cap (0 .. k - 1)]
                          + number[BitsFrom(b, k)] * PlaceValue(number, k)
    BY NumberParts
  <2>2. QED
    BY <1>1, <2>1
<1>3. r \in 0 .. (p - 1)
  <2>1. PICK c \in SUBSET (0 .. k - 1) : c = b \cap (0 .. k - 1)
    OBVIOUS
  <2>2. number[c] < PlaceValue(number, k)
    BY NumberBelow
  <2>3. QED
    BY <1>1, <1>2, <2>1, <2>2
<1>4. n = q * p + r
  BY <1>2
<1>5. n % p = r
  BY <1>3, <1>4, ModUnique
<1>6. n \div p = q
  BY <1>3, <1>4, QuotientUnique
<1>7. QED
  BY <1>1, <1>2, <1>5, <1>6 DEF IsCut

\* A bit is 1 when the remainders on its two sides differ.
LEMMA NumberBit ==
  ASSUME NEW number, NEW w, IsNumbering(number, w), NEW b \in SUBSET (0 .. w - 1),
         NEW i \in 0 .. w - 1
  PROVE  i \in b <=> number[b] % PlaceValue(number, i + 1) # number[b] % PlaceValue(number, i)
<1>1. PICK j \in 0 .. w : j = i + 1 /\ i \in Nat /\ i \in 0 .. w
  BY DEF IsNumbering
<1>2. /\ number[b] % PlaceValue(number, j) = number[b \cap (0 .. j - 1)]
      /\ number[b] % PlaceValue(number, i) = number[b \cap (0 .. i - 1)]
  <2>1. IsCut(number, b, j) /\ IsCut(number, b, i)
    BY <1>1, NumberQuotient
  <2>2. QED
    BY <2>1 DEF IsCut
<1>3. 0 .. j - 1 = (0 .. i - 1) \cup {i} /\ i \notin 0 .. i - 1
  BY <1>1
<1>4. CASE i \in b
  <2>1. PICK e \in SUBSET (0 .. w - 1) : e = b \cap (0 .. j - 1) /\ i \in e
    BY <1>3, <1>4
  <2>2. e \ {i} = b \cap (0 .. i - 1)
    BY <1>3, <2>1
  <2>3. number[e] = number[e \ {i}] + number[{i}] /\ e \ {i} \in SUBSET (0 .. w - 1)
    BY <2>1, NumberWithout
  <2>4. number[{i}] \in Nat \ {0} /\ number[e \ {i}] \in Nat
    BY <2>3, PlaceWeight DEF IsNumbering
  <2>5. number[e] # number[e \ {i}]
    BY <2>3, <2>4
  <2>6. QED
    BY <1>1, <1>2, <1>4, <2>1, <2>2, <2>5
<1>5. CASE i \notin b
  <2>1. b \cap (0 .. j - 1) = b \cap (0 .. i - 1)
    BY <1>3, <1>5
  <2>2. QED
    BY <1>1, <1>2, <1>5, <2>1
<1>6. QED
  BY <1>4, <1>5

\* Different words are different numbers.
LEMMA NumberUnique ==
  ASSUME NEW number, NEW w, IsNumbering(number, w), NEW b \in SUBSET (0 .. w - 1),
         NEW c \in SUBSET (0 .. w - 1), number[b] = number[c]
  PROVE  b = c
<1>1. \A i \in 0 .. w - 1 : i \in b <=> i \in c
  BY NumberBit
<1>2. QED
  BY <1>1

\* The n bits from lo, as a word.
BitsAt(b, n, lo) == {r \in 0 .. n - 1 : r + lo \in b}

\* A byte of a number is the number of the bits that are there.
IsRead(number, w, b, n, lo) ==
    /\ BitsAt(b, n, lo) \in SUBSET (0 .. w - 1)
    /\ (number[b] \div PlaceValue(number, lo)) % PlaceValue(number, n) = number[BitsAt(b, n, lo)]

LEMMA NumberOfBits ==
  ASSUME NEW number, NEW w, IsNumbering(number, w), NEW b \in SUBSET (0 .. w - 1),
         NEW lo \in 0 .. w, NEW n \in 0 .. w
  PROVE  IsRead(number, w, b, n, lo)
<1>1. PICK c \in SUBSET (0 .. w - 1) : c = BitsFrom(b, lo)
  BY NumberParts
<1>2. number[b] \div PlaceValue(number, lo) = number[c]
  <2>1. IsCut(number, b, lo)
    BY NumberQuotient
  <2>2. QED
    BY <1>1, <2>1 DEF IsCut
<1>3. number[c] % PlaceValue(number, n) = number[c \cap (0 .. n - 1)]
  <2>1. IsCut(number, c, n)
    BY NumberQuotient
  <2>2. QED
    BY <2>1 DEF IsCut
<1>4. c \cap (0 .. n - 1) = BitsAt(b, n, lo)
  <2>1. w \in Nat /\ lo \in Nat /\ n \in Nat
    BY DEF IsNumbering
  <2>2. ASSUME NEW r \in 0 .. n - 1
        PROVE  r \in c <=> r + lo \in b
    <3>1. r + lo \in Int /\ lo <= r + lo /\ (r + lo) - lo = r
      BY <2>1
    <3>2. \A i \in b : i - lo = r => i = r + lo
      BY <2>1
    <3>3. QED
      BY <1>1, <3>1, <3>2 DEF BitsFrom
  <2>3. QED
    BY <2>2 DEF BitsAt
<1>5. QED
  BY <1>2, <1>3, <1>4 DEF IsRead
=============================================================================
