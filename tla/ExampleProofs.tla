--------------------------- MODULE ExampleProofs ---------------------------
(***************************************************************************)
(* The examples at every width and for every input.  A chain of full       *)
(* adders adds (ChainStep); the adder is one chain, and every row of the   *)
(* array multiplier is a chain that adds a multiple of a to the rows       *)
(* before it.  A setter changes the bits of one window of the packet       *)
(* (ReplacedMember), and no two windows of fields overlap (LeavesAreApart).*)
(* A line of the snippets is right by the theorems of SymBitVecLemmas on   *)
(* numbers, and position by position on bits.  The invariant IInv has a    *)
(* part for each kind of example; the others stay as they are.             *)
(***************************************************************************)
EXTENDS Examples, SymBitVecLemmas

-----------------------------------------------------------------------------
(* Gates and bits *)

\* A full adder adds three bits.
LEMMA FullAdderAdds ==
  ASSUME NEW x \in OneBitWords, NEW y \in OneBitWords, NEW cin \in OneBitWords
  PROVE  /\ FullAdder(x, y, cin).sum \in OneBitWords
         /\ FullAdder(x, y, cin).carry \in OneBitWords
         /\ FullAdder(x, y, cin).sum + 2 * FullAdder(x, y, cin).carry = x + y + cin
BY DEF FullAdder, HalfAdder, Xor, And, Or, OneBitWords

\* The bit at position k is what the word of one more bit has on top.
LEMMA BitOnTop ==
  ASSUME NEW k \in 0 .. (MaxWidth - 1), NEW p \in Nat
  PROVE  /\ Bit(k, p) \in OneBitWords
         /\ Wrap(k, p) \in Nat
         /\ Wrap(k + 1, p) = Wrap(k, p) + Pow2[k] * Bit(k, p)
BY TopBit DEF Bit, OneBitWords

\* A bit of weight m is nothing or m.
LEMMA BitWeight ==
  ASSUME NEW m \in Nat, NEW z \in OneBitWords
  PROVE  m * z = IF z = 1 THEN m ELSE 0
BY DEF OneBitWords

\* Two half adders of one cell: a half adder adds two bits.
LEMMA HalfAdderAdds ==
  ASSUME NEW x \in OneBitWords, NEW y \in OneBitWords
  PROVE  /\ HalfAdder(x, y).sum \in OneBitWords
         /\ HalfAdder(x, y).carry \in OneBitWords
         /\ HalfAdder(x, y).sum + 2 * HalfAdder(x, y).carry = x + y
BY DEF HalfAdder, Xor, And, OneBitWords

\* No bit is set above a word, and none in zero.
LEMMA NoBitAbove ==
  ASSUME NEW k \in 0 .. (MaxWidth - 1), NEW p \in Patterns(k)
  PROVE  Bit(k, p) = 0
<1>1. Pow2[k] \in Nat \ {0} /\ p \in 0 .. (Pow2[k] - 1)
  BY Powers, Pow2Type DEF Patterns
<1>2. p \div Pow2[k] = 0
  BY <1>1
<1>3. QED
  BY <1>2 DEF Bit

\* The word of no bits is zero.
LEMMA WrapNone ==
  ASSUME NEW x \in Int
  PROVE  Pow2[0] = 1 /\ Wrap(0, x) = 0
<1>1. 1 \in Nat \ {0} /\ Pow2[0] = 1 /\ x = x * 1 + 0 /\ 0 \in 0 .. (1 - 1)
  BY Powers
<1>2. x % 1 = 0
  BY <1>1, ModUnique
<1>3. QED
  BY <1>1, <1>2 DEF Wrap

-----------------------------------------------------------------------------
(* Chains *)

\* One more cell of a chain adds one more bit of each of the words it adds.
LEMMA ChainStep ==
  ASSUME NEW k \in 0 .. (MaxWidth - 1), NEW x \in Nat, NEW y \in Nat,
         NEW c \in OneBitWords, NEW s \in Patterns(k), NEW cell,
         s + Pow2[k] * c = Wrap(k, x) + Wrap(k, y),
         cell.sum \in OneBitWords, cell.carry \in OneBitWords,
         cell.sum + 2 * cell.carry = Bit(k, x) + Bit(k, y) + c
  PROVE  /\ s + Pow2[k] * cell.sum \in Patterns(k + 1)
         /\ (s + Pow2[k] * cell.sum) + Pow2[k + 1] * cell.carry
              = Wrap(k + 1, x) + Wrap(k + 1, y)
<1> DEFINE m == Pow2[k]
           u == Bit(k, x)
           v == Bit(k, y)
           wx == Wrap(k, x)
           wy == Wrap(k, y)
<1>1. m \in Nat \ {0} /\ Pow2[k + 1] = 2 * m /\ s \in 0 .. (m - 1)
  <2>1. k \in 0 .. MaxWidth /\ k + 1 \in 1 .. MaxWidth /\ (k + 1) - 1 = k
    BY Powers
  <2>2. QED
    BY <2>1, Pow2Type, Pow2Succ DEF Patterns
<1>2. /\ u \in OneBitWords /\ v \in OneBitWords /\ wx \in Nat /\ wy \in Nat
      /\ Wrap(k + 1, x) = wx + m * u
      /\ Wrap(k + 1, y) = wy + m * v
  BY BitOnTop
<1>3. s + m * c = wx + wy /\ cell.sum + 2 * cell.carry = u + v + c
  OBVIOUS
<1> HIDE DEF m, u, v, wx, wy
<1>4. s + m * cell.sum \in 0 .. (2 * m - 1)
  <2>1. CASE cell.sum = 0
    BY <1>1, <2>1
  <2>2. CASE cell.sum = 1
    BY <1>1, <2>2
  <2>3. QED
    BY <2>1, <2>2 DEF OneBitWords
<1>5. (s + m * cell.sum) + (2 * m) * cell.carry = (wx + m * u) + (wy + m * v)
  <2> DEFINE ms == m * cell.sum
             mc == (2 * m) * cell.carry
             mu == m * u
             mv == m * v
             mi == m * c
  <2>1. m \in Nat /\ 2 * m \in Nat
    BY <1>1
  <2>2. /\ ms = IF cell.sum = 1 THEN m ELSE 0
        /\ mc = IF cell.carry = 1 THEN 2 * m ELSE 0
        /\ mu = IF u = 1 THEN m ELSE 0
        /\ mv = IF v = 1 THEN m ELSE 0
        /\ mi = IF c = 1 THEN m ELSE 0
    BY <1>2, <2>1, BitWeight
  <2>3. /\ m \in Nat /\ s \in Nat /\ wx \in Nat /\ wy \in Nat
        /\ u \in {0, 1} /\ v \in {0, 1} /\ c \in {0, 1}
        /\ cell.sum \in {0, 1} /\ cell.carry \in {0, 1}
    BY <1>1, <1>2 DEF OneBitWords
  <2>4. s + mi = wx + wy /\ cell.sum + 2 * cell.carry = u + v + c
    BY <1>3
  <2> HIDE DEF ms, mc, mu, mv, mi
  <2>5. (s + ms) + mc = (wx + mu) + (wy + mv)
    BY <2>2, <2>3, <2>4
  <2>6. QED
    BY <2>5 DEF ms, mc, mu, mv
<1>6. QED
  BY <1>1, <1>2, <1>4, <1>5 DEF m, Patterns

-----------------------------------------------------------------------------
(* The invariant of the circuits *)

\* What a row of the multiplier adds to the rows before it.
Addend == IF Bit(row, b) = 1 THEN a ELSE 0

\* The rows before this one hold the product of a with the low bits of b, and
\* this row is a chain; row 1 is added to a word that is one bit shorter, and a
\* row begins with no carry.
ArrayAdds ==
    /\ row = 1 => upper \in Patterns(FactorWidth - 1)
    /\ j = 0 => carry = 0
    /\ low + Pow2[row] * upper = a * Wrap(row, b)
    /\ part + Pow2[j] * carry = Wrap(j, upper) + Wrap(j, Addend)

CircuitInv ==
    /\ circuit = "adder" => AdderTypes /\ ChainAddsLowBits
    /\ circuit = "multiplier" => MultiplierTypes /\ ArrayAdds
    /\ circuit = "shifter" => ShifterTypes /\ LayersShiftByLowBits

\* The widths that the circuits compute with.
LEMMA CircuitWidths ==
  /\ MaxWidth \in Nat \ {0}
  /\ AdderWidth \in Nat \ {0} /\ AdderWidth + 1 \in 1 .. MaxWidth
  /\ FactorWidth \in Nat \ {0, 1} /\ 2 * FactorWidth \in 1 .. MaxWidth
  /\ FactorWidth - 1 \in 1 .. (MaxWidth - 1)
  /\ DataWidth \in 1 .. MaxWidth /\ AmountWidth \in 1 .. MaxWidth
  /\ \A k \in 0 .. MaxWidth : Pow2[k] \in Nat \ {0}
<1>1. /\ MaxWidth \in Nat \ {0}
      /\ AdderWidth \in Nat \ {0} /\ AdderWidth < MaxWidth
      /\ FactorWidth \in Nat \ {0, 1} /\ 2 * FactorWidth <= MaxWidth
      /\ DataWidth \in Nat \ {0} /\ AmountWidth \in Nat \ {0} /\ AmountWidth <= MaxWidth
  BY CircuitAssumption, WidthsType
<1>2. DataWidth <= MaxWidth
  <2>1. AmountWidth \in 0 .. MaxWidth /\ DataWidth + (Pow2[AmountWidth] - 1) <= MaxWidth
    BY <1>1, CircuitAssumption DEF ShlWidth
  <2>2. QED
    BY <1>1, <2>1, Pow2Type
<1>3. QED
  BY <1>1, <1>2, Pow2Type

\* Before the first cell nothing is chained and nothing is carried.
LEMMA AdderStarts == AdderInit => CircuitInv
<1>1. SUFFICES ASSUME AdderInit
               PROVE  CircuitInv
  OBVIOUS
<1>2. /\ a \in Patterns(AdderWidth) /\ b \in Patterns(AdderWidth)
      /\ j = 0 /\ carry = 0 /\ part = 0 /\ circuit = "adder"
  BY <1>1 DEF AdderInit, Unbuilt
<1>3. a \in Int /\ b \in Int
  BY <1>2 DEF Patterns
<1>4. Pow2[0] = 1 /\ Wrap(0, a) = 0 /\ Wrap(0, b) = 0
  BY <1>3, WrapNone
<1>5. QED
  BY <1>2, <1>4, CircuitWidths DEF CircuitInv, AdderTypes, ChainAddsLowBits, Patterns, OneBitWords

\* Row 0 is the product of a with the lowest bit of b.
LEMMA MultiplierStarts == MultiplierInit => CircuitInv
<1>1. SUFFICES ASSUME MultiplierInit
               PROVE  CircuitInv
  OBVIOUS
<1>2. /\ a \in Patterns(FactorWidth) /\ b \in Patterns(FactorWidth)
      /\ j = 0 /\ carry = 0 /\ part = 0 /\ circuit = "multiplier" /\ row = 1
      /\ low = And(Bit(0, b), Bit(0, a))
      /\ upper = IF Bit(0, b) = 1 THEN a \div 2 ELSE 0
  BY <1>1 DEF MultiplierInit, Unbuilt, PartialProduct
<1>3. /\ a \in Nat /\ b \in Nat /\ a < Pow2[FactorWidth]
      /\ Pow2[FactorWidth] = 2 * Pow2[FactorWidth - 1]
      /\ Pow2[FactorWidth - 1] \in Nat \ {0}
  <2>1. FactorWidth \in 1 .. MaxWidth /\ FactorWidth - 1 \in 0 .. MaxWidth
    BY CircuitWidths
  <2>2. QED
    BY <1>2, <2>1, Pow2Succ, Pow2Type DEF Patterns
<1>4. Pow2[0] = 1 /\ Pow2[1] = 2 /\ Wrap(0, a) = 0 /\ Wrap(0, b) = 0
  BY <1>3, WrapNone, Pow2Succ, CircuitWidths
<1>5. /\ Bit(0, a) \in {0, 1} /\ Bit(0, b) \in {0, 1}
      /\ Bit(0, a) = a % 2 /\ Wrap(1, b) = Bit(0, b)
  <2>1. 0 \in 0 .. (MaxWidth - 1) /\ 0 + 1 = 1
    BY CircuitWidths
  <2>2. /\ Bit(0, a) \in {0, 1} /\ Bit(0, b) \in {0, 1}
        /\ Wrap(1, b) = Wrap(0, b) + Pow2[0] * Bit(0, b)
    BY <1>3, <2>1, BitOnTop DEF OneBitWords
  <2>3. a \div 1 = a
    BY <1>3
  <2>4. QED
    BY <1>4, <2>2, <2>3 DEF Bit
<1>6. a \div 2 \in 0 .. (Pow2[FactorWidth - 1] - 1) /\ a = 2 * (a \div 2) + (a % 2)
  BY <1>3
<1>7. /\ low \in {0, 1} /\ upper \in Patterns(FactorWidth - 1)
      /\ low + 2 * upper = a * Wrap(1, b)
  <2>1. CASE Bit(0, b) = 0
    BY <1>2, <1>3, <1>5, <2>1 DEF And, Patterns
  <2>2. CASE Bit(0, b) = 1
    <3>1. low = a % 2 /\ upper = a \div 2
      BY <1>2, <1>5, <2>2 DEF And
    <3>2. QED
      BY <1>3, <1>5, <1>6, <2>2, <3>1 DEF Patterns
  <2>3. QED
    BY <1>5, <2>1, <2>2
<1>8. MultiplierTypes
  <2>1. upper \in Patterns(FactorWidth) /\ low \in Patterns(1) /\ part \in Patterns(0)
    BY <1>2, <1>3, <1>4, <1>7 DEF Patterns
  <2>2. QED
    BY <1>2, <2>1, CircuitWidths DEF MultiplierTypes, OneBitWords
<1>9. ArrayAdds
  <2>1. Wrap(0, upper) = 0 /\ Wrap(0, Addend) = 0
    <3>1. upper \in Int /\ Addend \in Int
      BY <1>3, <1>7 DEF Patterns, Addend
    <3>2. QED
      BY <3>1, WrapNone
  <2>2. QED
    BY <1>2, <1>4, <1>7, <2>1 DEF ArrayAdds
<1>10. QED
  BY <1>2, <1>8, <1>9 DEF CircuitInv

\* Before the first layer nothing has moved.
LEMMA ShifterStarts == ShifterInit => CircuitInv
<1>1. SUFFICES ASSUME ShifterInit
               PROVE  CircuitInv
  OBVIOUS
<1>2. /\ a \in Patterns(DataWidth) /\ b \in Patterns(AmountWidth)
      /\ circuit = "shifter" /\ row = 0
      /\ r = [k \in 0 .. DataWidth - 1 |-> Bit(k, a)]
  BY <1>1 DEF ShifterInit, Unbuilt
<1>3. a \in Nat /\ b \in Nat
  BY <1>2 DEF Patterns
<1>4. Wrap(0, b) = 0
  BY <1>3, WrapNone
<1>5. ASSUME NEW k \in 0 .. DataWidth - 1
      PROVE  Bit(k, a) \in OneBitWords /\ k >= 0 /\ k - 0 = k
  <2>1. k \in 0 .. (MaxWidth - 1) /\ k \in Int
    BY CircuitWidths
  <2>2. QED
    BY <1>3, <2>1, BitOnTop
<1>6. ShifterTypes
  BY <1>2, <1>5, CircuitWidths DEF ShifterTypes
<1>7. LayersShiftByLowBits
  BY <1>2, <1>4, <1>5 DEF LayersShiftByLowBits
<1>8. QED
  BY <1>2, <1>6, <1>7 DEF CircuitInv

\* One more full adder adds one more bit of each operand.
LEMMA ChainPreserves == CircuitInv /\ Chain => CircuitInv'
<1>1. SUFFICES ASSUME CircuitInv, Chain
               PROVE  CircuitInv'
  OBVIOUS
<1> DEFINE cell == FullAdder(Bit(j, a), Bit(j, b), carry)
<1>2. /\ circuit = "adder" /\ AdderTypes /\ ChainAddsLowBits /\ j < AdderWidth
      /\ part' = part + Pow2[j] * cell.sum /\ carry' = cell.carry
      /\ j' = j + 1 /\ a' = a /\ b' = b /\ circuit' = circuit
  BY <1>1 DEF CircuitInv, Chain
<1>3. /\ j \in 0 .. (MaxWidth - 1) /\ j + 1 \in 0 .. AdderWidth
      /\ a \in Nat /\ b \in Nat /\ carry \in OneBitWords /\ part \in Patterns(j)
      /\ part + Pow2[j] * carry = Wrap(j, a) + Wrap(j, b)
  BY <1>2, CircuitWidths DEF AdderTypes, ChainAddsLowBits, Patterns
<1>4. /\ cell.sum \in OneBitWords /\ cell.carry \in OneBitWords
      /\ cell.sum + 2 * cell.carry = Bit(j, a) + Bit(j, b) + carry
  BY <1>3, BitOnTop, FullAdderAdds
<1>5. /\ part + Pow2[j] * cell.sum \in Patterns(j + 1)
      /\ (part + Pow2[j] * cell.sum) + Pow2[j + 1] * cell.carry
           = Wrap(j + 1, a) + Wrap(j + 1, b)
  <2> HIDE DEF cell
  <2>1. QED
    BY <1>3, <1>4, ChainStep
<1> HIDE DEF cell
<1>6. AdderTypes'
  BY <1>2, <1>3, <1>4, <1>5 DEF AdderTypes
<1>7. ChainAddsLowBits'
  BY <1>2, <1>5 DEF ChainAddsLowBits
<1>8. QED
  BY <1>2, <1>6, <1>7 DEF CircuitInv

\* Every cell of a row adds a bit of the rows before it, a bit of the row's
\* multiple of a and the carry: the half adders have a zero for the third.
LEMMA CellAdds ==
  ASSUME CircuitInv, circuit = "multiplier"
  PROVE  /\ Adds.sum \in OneBitWords /\ Adds.carry \in OneBitWords
         /\ Adds.sum + 2 * Adds.carry = Bit(j, upper) + Bit(j, Addend) + carry
<1>1. /\ MultiplierTypes /\ ArrayAdds
  BY DEF CircuitInv
<1>2. /\ a \in Nat /\ b \in Nat /\ upper \in Nat /\ Addend \in Nat
      /\ carry \in OneBitWords
      /\ j \in 0 .. (MaxWidth - 1)
  <2>1. j \in 0 .. (MaxWidth - 1)
    BY <1>1, CircuitWidths DEF MultiplierTypes
  <2>2. QED
    BY <1>1, <2>1 DEF MultiplierTypes, Patterns, Addend
<1>3. Bit(j, upper) \in OneBitWords /\ Bit(j, a) \in OneBitWords /\ Bit(j, Addend) \in OneBitWords
  BY <1>2, BitOnTop
<1>4. PartialProduct(row, j) = Bit(j, Addend)
  <2>1. CASE Bit(row, b) = 1
    BY <1>3, <2>1 DEF PartialProduct, And, Addend, OneBitWords
  <2>2. CASE Bit(row, b) # 1
    <3>1. 0 \in Patterns(j)
      BY <1>2, CircuitWidths, Pow2Type DEF Patterns
    <3>2. Bit(j, 0) = 0
      BY <1>2, <3>1, NoBitAbove
    <3>3. QED
      BY <2>2, <3>2 DEF PartialProduct, And, Addend
  <2>3. QED
    BY <2>1, <2>2
<1>5. CASE j = 0
  <2>1. carry = 0 /\ Adds = HalfAdder(Bit(j, upper), Bit(j, Addend))
    BY <1>1, <1>4, <1>5 DEF ArrayAdds, Adds
  <2>2. QED
    BY <1>3, <2>1, HalfAdderAdds DEF OneBitWords
<1>6. CASE j # 0 /\ row = 1 /\ j = FactorWidth - 1
  <2>1. Adds = HalfAdder(Bit(j, Addend), carry)
    BY <1>4, <1>6 DEF Adds
  <2>2. Bit(j, upper) = 0
    BY <1>1, <1>2, <1>6, NoBitAbove DEF ArrayAdds
  <2>3. QED
    BY <1>2, <1>3, <2>1, <2>2, HalfAdderAdds DEF OneBitWords
<1>7. CASE j # 0 /\ ~(row = 1 /\ j = FactorWidth - 1)
  <2>1. Adds = FullAdder(Bit(j, upper), Bit(j, Addend), carry)
    BY <1>4, <1>7 DEF Adds
  <2>2. QED
    BY <1>2, <1>3, <2>1, FullAdderAdds
<1>8. QED
  BY <1>5, <1>6, <1>7

\* What a row has added after one more cell.
LEMMA CellSteps ==
  ASSUME CircuitInv, circuit = "multiplier"
  PROVE  /\ part + Pow2[j] * Adds.sum \in Patterns(j + 1)
         /\ (part + Pow2[j] * Adds.sum) + Pow2[j + 1] * Adds.carry
              = Wrap(j + 1, upper) + Wrap(j + 1, Addend)
<1>1. MultiplierTypes /\ ArrayAdds
  BY DEF CircuitInv
<1>2. /\ upper \in Nat /\ Addend \in Nat /\ carry \in OneBitWords
      /\ j \in 0 .. (MaxWidth - 1) /\ part \in Patterns(j)
      /\ part + Pow2[j] * carry = Wrap(j, upper) + Wrap(j, Addend)
  <2>1. j \in 0 .. (MaxWidth - 1)
    BY <1>1, CircuitWidths DEF MultiplierTypes
  <2>2. QED
    BY <1>1, <2>1 DEF MultiplierTypes, ArrayAdds, Patterns, Addend
<1>3. QED
  BY <1>2, CellAdds, ChainStep

\* A cell of a row.
LEMMA CellPreserves == CircuitInv /\ Cell => CircuitInv'
<1>1. SUFFICES ASSUME CircuitInv, Cell
               PROVE  CircuitInv'
  OBVIOUS
<1>2. /\ circuit = "multiplier" /\ MultiplierTypes /\ ArrayAdds /\ j < FactorWidth - 1
      /\ part' = part + Pow2[j] * Adds.sum /\ carry' = Adds.carry /\ j' = j + 1
      /\ a' = a /\ b' = b /\ row' = row /\ upper' = upper /\ low' = low
      /\ circuit' = circuit
  BY <1>1 DEF CircuitInv, Cell
<1>3. /\ Adds.carry \in OneBitWords
      /\ part + Pow2[j] * Adds.sum \in Patterns(j + 1)
      /\ (part + Pow2[j] * Adds.sum) + Pow2[j + 1] * Adds.carry
           = Wrap(j + 1, upper) + Wrap(j + 1, Addend)
  BY <1>1, <1>2, CellAdds, CellSteps
<1>4. j + 1 \in 0 .. FactorWidth - 1 /\ j + 1 # 0
  BY <1>2, CircuitWidths DEF MultiplierTypes
<1>5. MultiplierTypes'
  BY <1>2, <1>3, <1>4 DEF MultiplierTypes
<1>6. Addend' = Addend
  BY <1>2 DEF Addend
<1>7. ArrayAdds'
  BY <1>2, <1>3, <1>4, <1>6 DEF ArrayAdds
<1>8. QED
  BY <1>2, <1>5, <1>7 DEF CircuitInv

\* A complete row is the rows before it plus the row's multiple of a.
LEMMA RowIsSum ==
  ASSUME CircuitInv, circuit = "multiplier", j = FactorWidth - 1
  PROVE  RowSum(Adds) = upper + Addend
<1>1. MultiplierTypes /\ ArrayAdds
  BY DEF CircuitInv
<1>2. j + 1 = FactorWidth /\ FactorWidth \in Widths
  BY CircuitWidths DEF Widths
<1>3. upper \in Patterns(FactorWidth) /\ Addend \in Patterns(FactorWidth)
  <2>1. 0 \in Patterns(FactorWidth)
    BY CircuitWidths DEF Patterns
  <2>2. QED
    BY <1>1, <2>1 DEF MultiplierTypes, Addend
<1>4. Wrap(FactorWidth, upper) = upper /\ Wrap(FactorWidth, Addend) = Addend
  BY <1>2, <1>3, WrapOfPattern
<1>5. QED
  BY <1>2, <1>4, CellSteps DEF RowSum

\* The last cell of a row: the sum of the row is passed on without its low bit,
\* which becomes a bit of the product.
LEMMA EndRowPreserves == CircuitInv /\ EndRow => CircuitInv'
<1>1. SUFFICES ASSUME CircuitInv, EndRow
               PROVE  CircuitInv'
  OBVIOUS
<1> DEFINE sum == RowSum(Adds)
           F == Pow2[FactorWidth]
           M == Pow2[row]
<1>2. /\ circuit = "multiplier" /\ MultiplierTypes /\ ArrayAdds
      /\ row < FactorWidth /\ j = FactorWidth - 1
      /\ low' = low + M * Bit(0, sum) /\ upper' = sum \div 2
      /\ row' = row + 1 /\ j' = 0 /\ carry' = 0 /\ part' = 0
      /\ a' = a /\ b' = b /\ circuit' = circuit
  BY <1>1 DEF CircuitInv, EndRow
<1>3. sum = upper + Addend
  BY <1>1, <1>2, RowIsSum
<1>4. /\ row \in 1 .. FactorWidth /\ row + 1 \in 2 .. FactorWidth /\ row \in 0 .. (MaxWidth - 1)
      /\ F \in Nat \ {0} /\ M \in Nat \ {0} /\ Pow2[row + 1] = 2 * M /\ Pow2[0] = 1
      /\ a \in 0 .. (F - 1) /\ b \in Nat /\ upper \in 0 .. (F - 1) /\ Addend \in 0 .. (F - 1)
      /\ low \in 0 .. (M - 1)
  <2>1. /\ row \in 1 .. FactorWidth /\ row + 1 \in 2 .. FactorWidth
        /\ row \in 0 .. (MaxWidth - 1) /\ row \in 0 .. MaxWidth
        /\ row + 1 \in 1 .. MaxWidth /\ (row + 1) - 1 = row /\ FactorWidth \in 0 .. MaxWidth
    BY <1>2, CircuitWidths DEF MultiplierTypes
  <2>2. F \in Nat \ {0} /\ M \in Nat \ {0} /\ Pow2[row + 1] = 2 * M /\ Pow2[0] = 1
    BY <2>1, Pow2Type, Pow2Succ, Powers
  <2>3. QED
    BY <1>2, <2>1, <2>2 DEF MultiplierTypes, Patterns, Addend
<1> HIDE DEF sum, F, M
<1>5. /\ sum \in Nat /\ sum \div 2 \in 0 .. (F - 1) /\ sum % 2 \in {0, 1}
      /\ sum = 2 * (sum \div 2) + (sum % 2) /\ Bit(0, sum) = sum % 2
  <2>1. sum \in 0 .. (2 * F - 2)
    BY <1>3, <1>4
  <2>2. sum \div 1 = sum
    BY <2>1
  <2>3. QED
    BY <1>4, <2>1, <2>2 DEF Bit
<1>6. MultiplierTypes'
  <2>1. low' \in 0 .. (2 * M - 1)
    <3>1. M * (sum % 2) = IF sum % 2 = 1 THEN M ELSE 0
      BY <1>4, <1>5, BitWeight DEF OneBitWords
    <3>2. QED
      BY <1>2, <1>4, <1>5, <3>1
  <2>2. low' \in Patterns(row + 1)
    BY <1>4, <2>1 DEF Patterns
  <2>3. upper' \in Patterns(FactorWidth) /\ part' \in Patterns(j') /\ j' \in 0 .. FactorWidth - 1
    BY <1>2, <1>4, <1>5, CircuitWidths DEF Patterns, F
  <2>4. QED
    BY <1>2, <1>4, <2>2, <2>3 DEF MultiplierTypes, OneBitWords
<1>7. low' + (2 * M) * upper' = a * Wrap(row + 1, b)
  <2>1. low + M * upper = a * Wrap(row, b)
    BY <1>2 DEF ArrayAdds, M
  <2>2. /\ Wrap(row + 1, b) = Wrap(row, b) + M * Bit(row, b)
        /\ Bit(row, b) \in {0, 1} /\ Wrap(row, b) \in Nat
    BY <1>4, BitOnTop DEF OneBitWords, M
  <2>3. low' + (2 * M) * upper' = low + M * (2 * (sum \div 2) + (sum % 2))
    BY <1>2, <1>4, <1>5
  <2>4. low' + (2 * M) * upper' = (low + M * upper) + M * Addend
    BY <1>3, <1>4, <1>5, <2>3
  <2>5. a * Wrap(row + 1, b) = a * Wrap(row, b) + M * Addend
    <3>1. CASE Bit(row, b) = 1
      <4>1. Addend = a /\ Wrap(row + 1, b) = Wrap(row, b) + M
        BY <1>4, <2>2, <3>1 DEF Addend
      <4>2. QED
        BY <1>4, <2>2, <4>1
    <3>2. CASE Bit(row, b) = 0
      <4>1. Addend = 0 /\ Wrap(row + 1, b) = Wrap(row, b)
        BY <1>4, <2>2, <3>2 DEF Addend
      <4>2. QED
        BY <1>4, <2>2, <4>1
    <3>3. QED
      BY <2>2, <3>1, <3>2
  <2>6. QED
    BY <2>1, <2>4, <2>5
<1>8. ArrayAdds'
  <2>1. Wrap(0, upper') = 0 /\ Wrap(0, Addend') = 0
    <3>1. upper' \in Int /\ Addend' \in Int
      BY <1>2, <1>4, <1>5 DEF Addend
    <3>2. QED
      BY <3>1, WrapNone
  <2>2. row' # 1
    BY <1>2, <1>4
  <2>3. QED
    BY <1>2, <1>4, <1>7, <2>1, <2>2 DEF ArrayAdds
<1>9. QED
  BY <1>2, <1>6, <1>8 DEF CircuitInv

\* A layer moves the data by its power of two, if the amount has that bit.
LEMMA LayerPreserves == CircuitInv /\ Layer => CircuitInv'
<1>1. SUFFICES ASSUME CircuitInv, Layer
               PROVE  CircuitInv'
  OBVIOUS
<1> DEFINE M == Pow2[row]
           n == Wrap(row, b)
           D == 0 .. DataWidth - 1
<1>2. /\ circuit = "shifter" /\ ShifterTypes /\ LayersShiftByLowBits /\ row < AmountWidth
      /\ r' = [k \in D |-> Mux(Bit(row, b), IF k >= M THEN r[k - M] ELSE 0, r[k])]
      /\ row' = row + 1 /\ a' = a /\ b' = b /\ circuit' = circuit
  BY <1>1 DEF CircuitInv, Layer
<1>3. /\ row \in 0 .. (MaxWidth - 1) /\ row + 1 \in 0 .. AmountWidth
      /\ M \in Nat \ {0} /\ b \in Nat /\ DataWidth \in Nat
      /\ r \in [D -> OneBitWords]
      /\ \A k \in D : r[k] = IF k >= n THEN Bit(k - n, a) ELSE 0
  BY <1>2, CircuitWidths DEF ShifterTypes, LayersShiftByLowBits, Patterns
<1>4. n \in Nat /\ Wrap(row + 1, b) = n + M * Bit(row, b) /\ Bit(row, b) \in {0, 1}
  BY <1>3, BitOnTop DEF OneBitWords
<1>5. ASSUME NEW k \in D
      PROVE  /\ r'[k] \in OneBitWords
             /\ r'[k] = IF k >= Wrap(row + 1, b) THEN Bit(k - Wrap(row + 1, b), a) ELSE 0
  <2>1. r[k] \in {0, 1} /\ k \in Int /\ r[k] = IF k >= n THEN Bit(k - n, a) ELSE 0
    BY <1>3 DEF OneBitWords
  <2>2. r'[k] = Mux(Bit(row, b), IF k >= M THEN r[k - M] ELSE 0, r[k])
    BY <1>2
  <2> HIDE DEF D, n, M
  <2>3. CASE Bit(row, b) = 0
    <3>1. r'[k] = r[k]
      BY <2>1, <2>2, <2>3 DEF Mux, Or, And, Not
    <3>2. Wrap(row + 1, b) = n
      BY <1>3, <1>4, <2>3
    <3>3. QED
      BY <2>1, <3>1, <3>2 DEF OneBitWords
  <2>4. CASE Bit(row, b) = 1
    <3>1. Wrap(row + 1, b) = n + M
      BY <1>3, <1>4, <2>4
    <3>2. CASE k >= M
      <4>1. k - M \in D
        BY <1>3, <3>2 DEF D
      <4>2. /\ r[k - M] \in {0, 1}
            /\ r[k - M] = IF k - M >= n THEN Bit((k - M) - n, a) ELSE 0
        BY <1>3, <4>1 DEF OneBitWords
      <4>3. r'[k] = r[k - M]
        BY <2>1, <2>2, <2>4, <3>2, <4>2 DEF Mux, Or, And, Not
      <4>4. (k - M) - n = k - (n + M) /\ (k - M >= n <=> k >= n + M)
        BY <1>3, <1>4, <2>1
      <4>5. QED
        BY <3>1, <4>2, <4>3, <4>4 DEF OneBitWords
    <3>3. CASE ~(k >= M)
      <4>1. r'[k] = 0
        BY <2>1, <2>2, <2>4, <3>3 DEF Mux, Or, And, Not
      <4>2. ~(k >= n + M)
        BY <1>3, <1>4, <2>1, <3>3
      <4>3. QED
        BY <3>1, <4>1, <4>2 DEF OneBitWords
    <3>4. QED
      BY <3>2, <3>3
  <2>5. QED
    BY <1>4, <2>3, <2>4
<1>6. ShifterTypes'
  <2>1. r' \in [D -> OneBitWords]
    BY <1>2, <1>5
  <2>2. QED
    BY <1>2, <1>3, <2>1 DEF ShifterTypes
<1>7. LayersShiftByLowBits'
  BY <1>2, <1>5 DEF LayersShiftByLowBits
<1>8. QED
  BY <1>2, <1>6, <1>7 DEF CircuitInv

-----------------------------------------------------------------------------
(* The packet views *)

\* The names of the fields.
LEMMA LeafNames ==
  ASSUME NEW p
  PROVE  p \in LeafPaths <=>
           \/ p = <<"eth", "dst_mac">> \/ p = <<"eth", "src_mac">> \/ p = <<"eth", "ethertype">>
           \/ p = <<"ipv4", "version">> \/ p = <<"ipv4", "ihl">>
           \/ p = <<"ipv4", "dscp_ecn">> \/ p = <<"ipv4", "total_len">>
           \/ \E adr \in {"src_addr", "dst_addr"},
                 octet \in {"octet0", "octet1", "octet2", "octet3"} : p = <<"ipv4", adr, octet>>
BY DEF Paths, LeafPaths, AddressPaths, EthPaths, Ipv4Paths, AddrPaths

LEMMA AddressNames ==
  /\ AddressPaths = {<<"ipv4", "src_addr", "value">>, <<"ipv4", "dst_addr", "value">>}
  /\ Paths = LeafPaths \cup AddressPaths
BY DEF Paths, LeafPaths, AddressPaths, EthPaths, Ipv4Paths, AddrPaths

\* Where the views have them.
Places(p, w, lo) == HdrView(p).w = w /\ HdrView(p).lo = lo

LEMMA Layout ==
  /\ Places(<<"eth", "dst_mac">>, 48, 384)
  /\ Places(<<"eth", "src_mac">>, 48, 336)
  /\ Places(<<"eth", "ethertype">>, 16, 320)
  /\ Places(<<"ipv4", "version">>, 4, 316)
  /\ Places(<<"ipv4", "ihl">>, 4, 312)
  /\ Places(<<"ipv4", "dscp_ecn">>, 8, 304)
  /\ Places(<<"ipv4", "total_len">>, 16, 288)
  /\ Places(<<"ipv4", "src_addr", "value">>, 32, 192)
  /\ Places(<<"ipv4", "src_addr", "octet0">>, 8, 216)
  /\ Places(<<"ipv4", "src_addr", "octet1">>, 8, 208)
  /\ Places(<<"ipv4", "src_addr", "octet2">>, 8, 200)
  /\ Places(<<"ipv4", "src_addr", "octet3">>, 8, 192)
  /\ Places(<<"ipv4", "dst_addr", "value">>, 32, 160)
  /\ Places(<<"ipv4", "dst_addr", "octet0">>, 8, 184)
  /\ Places(<<"ipv4", "dst_addr", "octet1">>, 8, 176)
  /\ Places(<<"ipv4", "dst_addr", "octet2">>, 8, 168)
  /\ Places(<<"ipv4", "dst_addr", "octet3">>, 8, 160)
<1>1. /\ Places(<<"eth", "dst_mac">>, 48, 384)
      /\ Places(<<"eth", "src_mac">>, 48, 336)
      /\ Places(<<"eth", "ethertype">>, 16, 320)
  BY DEF HdrView, EthView, Window, Places
<1>2. /\ Places(<<"ipv4", "version">>, 4, 316)
      /\ Places(<<"ipv4", "ihl">>, 4, 312)
      /\ Places(<<"ipv4", "dscp_ecn">>, 8, 304)
      /\ Places(<<"ipv4", "total_len">>, 16, 288)
  BY DEF HdrView, Ipv4View, Window, Places
<1>3. /\ Places(<<"ipv4", "src_addr", "value">>, 32, 192)
      /\ Places(<<"ipv4", "src_addr", "octet0">>, 8, 216)
      /\ Places(<<"ipv4", "src_addr", "octet1">>, 8, 208)
      /\ Places(<<"ipv4", "src_addr", "octet2">>, 8, 200)
      /\ Places(<<"ipv4", "src_addr", "octet3">>, 8, 192)
  BY DEF HdrView, Ipv4View, Ipv4AddrView, Window, Places
<1>4. /\ Places(<<"ipv4", "dst_addr", "value">>, 32, 160)
      /\ Places(<<"ipv4", "dst_addr", "octet0">>, 8, 184)
      /\ Places(<<"ipv4", "dst_addr", "octet1">>, 8, 176)
      /\ Places(<<"ipv4", "dst_addr", "octet2">>, 8, 168)
      /\ Places(<<"ipv4", "dst_addr", "octet3">>, 8, 160)
  BY DEF HdrView, Ipv4View, Ipv4AddrView, Window, Places
<1>5. QED
  BY <1>1, <1>2, <1>3, <1>4

\* All places but those of the addresses.
LEMMA LeafPlaces ==
  ASSUME NEW p \in LeafPaths
  PROVE  \/ p = <<"eth", "dst_mac">> /\ Places(p, 48, 384)
         \/ p = <<"eth", "src_mac">> /\ Places(p, 48, 336)
         \/ p = <<"eth", "ethertype">> /\ Places(p, 16, 320)
         \/ p = <<"ipv4", "version">> /\ Places(p, 4, 316)
         \/ p = <<"ipv4", "ihl">> /\ Places(p, 4, 312)
         \/ p = <<"ipv4", "dscp_ecn">> /\ Places(p, 8, 304)
         \/ p = <<"ipv4", "total_len">> /\ Places(p, 16, 288)
         \/ p = <<"ipv4", "src_addr", "octet0">> /\ Places(p, 8, 216)
         \/ p = <<"ipv4", "src_addr", "octet1">> /\ Places(p, 8, 208)
         \/ p = <<"ipv4", "src_addr", "octet2">> /\ Places(p, 8, 200)
         \/ p = <<"ipv4", "src_addr", "octet3">> /\ Places(p, 8, 192)
         \/ p = <<"ipv4", "dst_addr", "octet0">> /\ Places(p, 8, 184)
         \/ p = <<"ipv4", "dst_addr", "octet1">> /\ Places(p, 8, 176)
         \/ p = <<"ipv4", "dst_addr", "octet2">> /\ Places(p, 8, 168)
         \/ p = <<"ipv4", "dst_addr", "octet3">> /\ Places(p, 8, 160)
BY LeafNames, Layout

\* Every field has its place in the packet.
LEMMA InPacket ==
  ASSUME NEW p \in Paths
  PROVE  /\ HdrView(p).w \in Nat \ {0} /\ HdrView(p).lo \in Nat
         /\ HdrView(p).lo + HdrView(p).w <= BufW
<1>1. CASE p \in LeafPaths
  BY <1>1, LeafPlaces DEF BufW, Places
<1>2. CASE p \in AddressPaths
  BY <1>2, AddressNames, Layout DEF BufW, Places
<1>3. QED
  BY <1>1, <1>2, AddressNames

\* No two fields overlap.
LEMMA LeavesAreApart ==
  ASSUME NEW p \in LeafPaths, NEW q \in LeafPaths, p # q
  PROVE  \/ HdrView(p).lo + HdrView(p).w <= HdrView(q).lo
         \/ HdrView(q).lo + HdrView(q).w <= HdrView(p).lo
<1>1. HdrView(p).lo = HdrView(q).lo => p = q
  BY LeafPlaces DEF Places
<1>2. QED
  BY <1>1, LeafPlaces DEF Places

\* What a getter reads: the bits of the window, moved down.
LEMMA GetBits ==
  ASSUME NEW p \in Paths, NEW bits
  PROVE  Get(bits, p) = {i - HdrView(p).lo : i \in bits \cap (HdrView(p).lo .. (HdrView(p).lo + HdrView(p).w - 1))}
BY DEF Get, B!ExtractFrom, B!Vec, B!Slice

LEMMA GetMember ==
  ASSUME NEW p \in Paths, NEW bits, NEW i
  PROVE  i \in Get(bits, p) <=>
           i \in 0 .. (HdrView(p).w - 1) /\ i + HdrView(p).lo \in bits
<1>1. PICK w \in Nat, lo \in Nat : w = HdrView(p).w /\ lo = HdrView(p).lo
  BY InPacket
<1>2. Get(bits, p) = {k - lo : k \in bits \cap (lo .. (lo + w - 1))}
  BY <1>1, GetBits
<1>3. ASSUME i \in Get(bits, p)
      PROVE  i \in 0 .. (w - 1) /\ i + lo \in bits
  <2>1. PICK k \in bits \cap (lo .. (lo + w - 1)) : i = k - lo
    BY <1>2, <1>3
  <2>2. k \in Int /\ lo <= k /\ k <= lo + w - 1 /\ i + lo = k
    BY <1>1, <2>1
  <2>3. QED
    BY <1>1, <2>1, <2>2
<1>4. ASSUME i \in 0 .. (w - 1), i + lo \in bits
      PROVE  i \in Get(bits, p)
  <2>1. PICK k : k = i + lo
    OBVIOUS
  <2>2. k \in lo .. (lo + w - 1) /\ k - lo = i /\ k \in bits
    BY <1>1, <1>4, <2>1
  <2>3. QED
    BY <1>2, <2>2
<1>5. QED
  BY <1>1, <1>3, <1>4

\* A word of total bits with the field v of w bits put in at lo, as replace joins
\* it: what is above, the field, and what is below.
Put(total, bits, lo, w, v) ==
    LET top   == {n - (lo + w) : n \in bits \cap ((lo + w) .. (total - 1))}
        above == IF lo + w < total THEN {n + w : n \in top} \cup v ELSE v
        under == {n - 0 : n \in bits \cap (0 .. (lo - 1))}
    IN  IF lo > 0 THEN {n + lo : n \in above} \cup under ELSE above

LEMMA FieldPut ==
  ASSUME NEW total \in Nat, NEW w \in Nat \ {0}, NEW lo \in Nat, lo + w <= total,
         NEW bits \in SUBSET (0 .. (total - 1)), NEW v \in SUBSET (0 .. (w - 1)), NEW i
  PROVE  i \in Put(total, bits, lo, w, v) <=> IF i \in lo .. (lo + w - 1) THEN i - lo \in v ELSE i \in bits
<1>1. total \in Nat /\ w \in Nat /\ lo \in Nat /\ w # 0 /\ lo + w <= total
  OBVIOUS
<1>2. PICK top, under : /\ top = {n - (lo + w) : n \in bits \cap ((lo + w) .. (total - 1))}
                        /\ under = {n - 0 : n \in bits \cap (0 .. (lo - 1))}
  OBVIOUS
<1>3. PICK above, word : /\ above = IF lo + w < total THEN {n + w : n \in top} \cup v ELSE v
                         /\ word = IF lo > 0 THEN {n + lo : n \in above} \cup under ELSE above
  OBVIOUS
<1> word = Put(total, bits, lo, w, v)
  BY <1>2, <1>3 DEF Put
<1>4. /\ \A k \in bits : k \in Int /\ 0 <= k /\ k < total
      /\ \A k \in v : k \in Int /\ 0 <= k /\ k < w
  OBVIOUS
<1>5. ASSUME NEW k
      PROVE  k \in above <=> k \in Nat /\ IF k < w THEN k \in v ELSE k + lo \in bits
  <2>1. CASE lo + w < total
    <3>2. top = {n - (lo + w) : n \in bits \cap ((lo + w) .. (total - 1))}
      BY <1>2
    <3>3. above = {n + w : n \in top} \cup v
      BY <1>3, <2>1
    <3>4. ASSUME k \in top \cup {n + w : n \in top}
          PROVE  k \in Int
      BY <1>1, <1>4, <3>2, <3>4
    <3>5. ASSUME NEW n \in top
          PROVE  n \in Nat /\ (n + w) + lo \in bits
      <4>1. PICK m \in bits \cap ((lo + w) .. (total - 1)) : n = m - (lo + w)
        BY <3>2
      <4>2. m \in Int /\ m >= lo + w /\ (n + w) + lo = m
        BY <1>1, <1>4, <4>1
      <4>3. QED
        BY <1>1, <4>1, <4>2
    <3>6. ASSUME k \in Nat, k >= w, k + lo \in bits
          PROVE  k \in {n + w : n \in top}
      <4>1. PICK m : m = k + lo
        OBVIOUS
      <4>2. m \in bits \cap ((lo + w) .. (total - 1)) /\ (m - (lo + w)) + w = k
        BY <1>1, <1>4, <3>6, <4>1
      <4>3. m - (lo + w) \in top
        BY <3>2, <4>2
      <4>4. QED
        BY <4>2, <4>3
    <3>7. CASE k \in {n + w : n \in top}
      <4>1. PICK n \in top : k = n + w
        BY <3>7
      <4>2. k \in Nat /\ ~(k < w) /\ k + lo \in bits
        BY <1>1, <3>5, <4>1
      <4>3. QED
        BY <3>3, <3>7, <4>2
    <3>8. CASE k \notin {n + w : n \in top}
      <4>1. k \in above <=> k \in v
        BY <3>3, <3>8
      <4>2. k \in v => k \in Nat /\ k < w
        BY <1>4
      <4>3. k \in Nat /\ ~(k < w) => k + lo \notin bits
        BY <1>1, <3>6, <3>8
      <4>4. QED
        BY <4>1, <4>2, <4>3
    <3>9. QED
      BY <3>7, <3>8
  <2>2. CASE ~(lo + w < total)
    <3>1. above = v
      BY <1>3, <2>2
    <3>2. ASSUME k \in Nat, ~(k < w), k + lo \in bits
          PROVE  FALSE
      <4>1. k + lo < total
        BY <1>4, <3>2
      <4>2. QED
        BY <1>1, <1>4, <2>2, <3>2, <4>1
    <3>3. k \in v => k \in Nat /\ k < w
      BY <1>4
    <3>4. QED
      BY <3>1, <3>2, <3>3
  <2>3. QED
    BY <2>1, <2>2
<1>6. CASE lo = 0
  <2>1. word = above
    BY <1>3, <1>6
  <2>2. i \in above <=> i \in Nat /\ IF i < w THEN i \in v ELSE i + lo \in bits
    BY <1>5
  <2>3. i \in Int => i + lo = i /\ i - lo = i
    BY <1>6
  <2>4. CASE i \in 0 .. (w - 1)
    <3>1. i \in lo .. (lo + w - 1) /\ i \in Nat /\ i < w
      BY <1>1, <1>6, <2>4
    <3>2. QED
      BY <1>1, <2>1, <2>2, <2>3, <3>1
  <2>5. CASE i \notin 0 .. (w - 1)
    <3>1. i \notin lo .. (lo + w - 1)
      BY <1>1, <1>6, <2>5
    <3>2. i \in Nat => ~(i < w)
      BY <1>1, <2>5
    <3>3. i \in bits => i \in Nat
      BY <1>4
    <3>4. QED
      BY <1>1, <2>1, <2>2, <2>3, <3>1, <3>2, <3>3
  <2>6. QED
    BY <2>4, <2>5
<1>7. CASE lo > 0
  <2>2. under = {n - 0 : n \in bits \cap (0 .. (lo - 1))}
    BY <1>2
  <2>3. word = {n + lo : n \in above} \cup under
    BY <1>3, <1>7
  <2>4. i \in under <=> i \in bits /\ i < lo
    <3>1. \A n \in bits : n - 0 = n /\ (n \in 0 .. (lo - 1) <=> n < lo)
      BY <1>1, <1>4
    <3>2. ASSUME i \in under PROVE i \in bits /\ i < lo
      BY <2>2, <3>1, <3>2
    <3>3. ASSUME i \in bits, i < lo PROVE i \in under
      <4>1. i \in bits \cap (0 .. (lo - 1)) /\ i - 0 = i
        BY <3>1, <3>3
      <4>2. QED
        BY <2>2, <4>1
    <3>4. QED
      BY <3>2, <3>3
  <2>5. i \in {n + lo : n \in above}
          <=> i \in Nat /\ i >= lo /\ IF i - lo < w THEN i - lo \in v ELSE i \in bits
    <3>1. ASSUME i \in {n + lo : n \in above}
          PROVE  i \in Nat /\ i >= lo /\ IF i - lo < w THEN i - lo \in v ELSE i \in bits
      <4>1. PICK n \in above : i = n + lo
        BY <3>1
      <4>2. n \in Nat /\ IF n < w THEN n \in v ELSE n + lo \in bits
        BY <1>5, <4>1
      <4>3. i - lo = n
        BY <1>1, <4>1, <4>2
      <4>4. QED
        BY <1>1, <4>1, <4>2, <4>3
    <3>2. ASSUME i \in Nat, i >= lo, IF i - lo < w THEN i - lo \in v ELSE i \in bits
          PROVE  i \in {n + lo : n \in above}
      <4>1. PICK n \in Nat : n = i - lo /\ n + lo = i
        BY <1>1, <3>2
      <4>2. n \in above
        BY <1>5, <3>2, <4>1
      <4>3. QED
        BY <4>1, <4>2
    <3>3. QED
      BY <3>1, <3>2
  <2>6. CASE i \in lo .. (lo + w - 1)
    <3>1. i \in Nat /\ i >= lo /\ i - lo < w
      BY <1>1, <2>6
    <3>2. QED
      BY <1>1, <2>3, <2>4, <2>5, <2>6, <3>1
  <2>7. CASE i \notin lo .. (lo + w - 1)
    <3>1. i \in Nat /\ i >= lo => ~(i - lo < w)
      BY <1>1, <2>7
    <3>2. i \in bits => i \in Nat
      BY <1>4
    <3>3. i \in bits => i < lo \/ i >= lo
      BY <1>1, <3>2
    <3>4. QED
      BY <1>1, <2>3, <2>4, <2>5, <2>7, <3>1, <3>2, <3>3
  <2>8. QED
    BY <2>6, <2>7
<1>8. QED
  BY <1>1, <1>6, <1>7

\* What a setter leaves: the word in the window, and all else as it was.
LEMMA ReplacedMember ==
  ASSUME NEW p \in Paths, NEW bits \in SUBSET (0 .. (BufW - 1)),
         NEW v \in SUBSET (0 .. (HdrView(p).w - 1)), NEW i
  PROVE  i \in Replaced(bits, p, v) <=>
           IF i \in HdrView(p).lo .. (HdrView(p).lo + HdrView(p).w - 1)
             THEN i - HdrView(p).lo \in v ELSE i \in bits
<1>1. PICK w \in Nat, lo \in Nat :
        w = HdrView(p).w /\ lo = HdrView(p).lo /\ w # 0 /\ lo + w <= BufW
  BY InPacket
<1>2. PICK total : total = BufW
  OBVIOUS
<1>3. total \in Nat /\ lo + w <= total /\ bits \in SUBSET (0 .. (total - 1)) /\ v \in SUBSET (0 .. (w - 1))
  <2>1. total \in Nat
    BY <1>2 DEF BufW
  <2>2. QED
    BY <1>1, <1>2, <2>1
<1>4. Replaced(bits, p, v) = Put(total, bits, lo, w, v)
  BY <1>1, <1>2 DEF Replaced, B!ReplaceAt, B!Vec, B!Join, B!Slice, Put
<1>5. i \in Put(total, bits, lo, w, v) <=> IF i \in lo .. (lo + w - 1) THEN i - lo \in v ELSE i \in bits
  <2>1. w \in Nat \ {0}
    BY <1>1
  <2>2. QED
    BY <1>3, <2>1, FieldPut
<1>6. QED
  BY <1>1, <1>4, <1>5

\* An address is four octets, the first of them on top.
LEMMA OctetPlaces ==
  ASSUME NEW adr \in AddressPaths
  PROVE  /\ adr \in Paths /\ adr \notin LeafPaths
         /\ HdrView(adr).w = 32 /\ HdrView(adr).lo \in Nat
         /\ \A n \in 0 .. 3 :
              /\ OctetPath(adr, n) \in LeafPaths
              /\ HdrView(OctetPath(adr, n)).w = 8
              /\ HdrView(OctetPath(adr, n)).lo = HdrView(adr).lo + 8 * (3 - n)
<1>1. ASSUME NEW side \in {"src_addr", "dst_addr"}, adr = <<"ipv4", side, "value">>
      PROVE  \A n \in 0 .. 3 :
              /\ OctetPath(adr, n) \in LeafPaths
              /\ HdrView(OctetPath(adr, n)).w = 8
              /\ HdrView(OctetPath(adr, n)).lo = HdrView(adr).lo + 8 * (3 - n)
  <2>1. /\ OctetPath(adr, 0) = <<"ipv4", side, "octet0">>
        /\ OctetPath(adr, 1) = <<"ipv4", side, "octet1">>
        /\ OctetPath(adr, 2) = <<"ipv4", side, "octet2">>
        /\ OctetPath(adr, 3) = <<"ipv4", side, "octet3">>
    BY <1>1 DEF OctetPath
  <2>2. \A n \in 0 .. 3 : OctetPath(adr, n) \in LeafPaths
    BY <2>1, LeafNames
  <2>3. HdrView(adr).lo = IF side = "src_addr" THEN 192 ELSE 160
    BY <1>1, Layout DEF Places
  <2>4. ASSUME NEW n \in 0 .. 3
        PROVE  Places(OctetPath(adr, n), 8, (IF side = "src_addr" THEN 192 ELSE 160) + 8 * (3 - n))
    <3>1. CASE side = "src_addr"
      BY <2>1, <3>1, Layout DEF Places
    <3>2. CASE side = "dst_addr"
      BY <2>1, <3>2, Layout DEF Places
    <3>3. QED
      BY <3>1, <3>2
  <2>5. QED
    BY <2>2, <2>3, <2>4 DEF Places
<1>2. \E side \in {"src_addr", "dst_addr"} : adr = <<"ipv4", side, "value">>
  BY AddressNames
<1>3. HdrView(adr).w = 32 /\ HdrView(adr).lo \in Nat
  BY AddressNames, Layout DEF Places
<1>4. adr \in Paths /\ adr \notin LeafPaths
  BY AddressNames DEF LeafPaths
<1>5. QED
  BY <1>1, <1>2, <1>3, <1>4

\* No octet of an address is another, and no other field overlaps with it.
LEMMA OctetsAreApart ==
  ASSUME NEW adr \in AddressPaths
  PROVE  /\ \A m, n \in 0 .. 3 : OctetPath(adr, m) = OctetPath(adr, n) => m = n
         /\ \A q \in LeafPaths :
              \/ \E n \in 0 .. 3 : q = OctetPath(adr, n)
              \/ HdrView(q).lo + HdrView(q).w <= HdrView(adr).lo
              \/ HdrView(adr).lo + 32 <= HdrView(q).lo
<1>1. \A m, n \in 0 .. 3 : OctetPath(adr, m) = OctetPath(adr, n) => m = n
  BY OctetPlaces
<1>2. ASSUME NEW q \in LeafPaths, \A n \in 0 .. 3 : q # OctetPath(adr, n)
      PROVE  \/ HdrView(q).lo + HdrView(q).w <= HdrView(adr).lo
             \/ HdrView(adr).lo + 32 <= HdrView(q).lo
  <2>1. PICK lo \in Nat, w \in Nat \ {0}, base \in Nat :
          lo = HdrView(q).lo /\ w = HdrView(q).w /\ base = HdrView(adr).lo
    <3>1. q \in Paths
      BY AddressNames
    <3>2. HdrView(q).lo \in Nat /\ HdrView(q).w \in Nat \ {0} /\ HdrView(adr).lo \in Nat
      BY <3>1, InPacket, OctetPlaces
    <3>3. QED
      BY <3>2
  <2>2. ASSUME NEW n \in 0 .. 3
        PROVE  lo + w <= base + 8 * (3 - n) \/ base + 8 * (3 - n) + 8 <= lo
    <3>1. OctetPath(adr, n) \in LeafPaths /\ q # OctetPath(adr, n)
      BY <1>2, OctetPlaces
    <3>2. \/ HdrView(q).lo + HdrView(q).w <= HdrView(OctetPath(adr, n)).lo
          \/ HdrView(OctetPath(adr, n)).lo + HdrView(OctetPath(adr, n)).w <= HdrView(q).lo
      BY <3>1, LeavesAreApart
    <3>3. QED
      BY <2>1, <3>2, OctetPlaces
  <2>3. /\ lo + w <= base + 24 \/ base + 32 <= lo
        /\ lo + w <= base + 16 \/ base + 24 <= lo
        /\ lo + w <= base + 8 \/ base + 16 <= lo
        /\ lo + w <= base \/ base + 8 <= lo
    <3>1. 0 \in 0 .. 3 /\ 1 \in 0 .. 3 /\ 2 \in 0 .. 3 /\ 3 \in 0 .. 3
      OBVIOUS
    <3>2. QED
      BY <2>2, <3>1
  <2>4. lo + w <= base \/ base + 32 <= lo
    BY <2>1, <2>3
  <2>5. QED
    BY <2>1, <2>4
<1>3. QED
  BY <1>1, <1>2

\* A write is read back, and what lies beside it reads as before.
LEMMA ReadBack ==
  ASSUME NEW p \in Paths, NEW bits \in SUBSET (0 .. (BufW - 1)),
         NEW v \in SUBSET (0 .. (HdrView(p).w - 1))
  PROVE  /\ Get(Replaced(bits, p, v), p) = v
         /\ \A q \in Paths :
              \/ HdrView(q).lo + HdrView(q).w <= HdrView(p).lo
              \/ HdrView(p).lo + HdrView(p).w <= HdrView(q).lo
              => Get(Replaced(bits, p, v), q) = Get(bits, q)
<1>1. PICK w \in Nat, lo \in Nat : w = HdrView(p).w /\ lo = HdrView(p).lo
  BY InPacket
<1>2. \A i : i \in Replaced(bits, p, v) <=> IF i \in lo .. (lo + w - 1) THEN i - lo \in v ELSE i \in bits
  BY <1>1, ReplacedMember
<1>3. Get(Replaced(bits, p, v), p) = v
  <2>1. ASSUME NEW i
        PROVE  i \in Get(Replaced(bits, p, v), p) <=> i \in v
    <3>1. i \in Get(Replaced(bits, p, v), p) <=> i \in 0 .. (w - 1) /\ i + lo \in Replaced(bits, p, v)
      BY <1>1, GetMember
    <3>2. i \in 0 .. (w - 1) => i + lo \in lo .. (lo + w - 1) /\ (i + lo) - lo = i
      BY <1>1
    <3>3. i \in v => i \in 0 .. (w - 1)
      BY <1>1
    <3>4. QED
      BY <1>2, <3>1, <3>2, <3>3
  <2>2. QED
    BY <2>1
<1>4. ASSUME NEW q \in Paths,
             \/ HdrView(q).lo + HdrView(q).w <= lo
             \/ lo + w <= HdrView(q).lo
      PROVE  Get(Replaced(bits, p, v), q) = Get(bits, q)
  <2>1. PICK n \in Nat, k \in Nat : n = HdrView(q).w /\ k = HdrView(q).lo
    BY InPacket
  <2>2. ASSUME NEW i
        PROVE  i \in Get(Replaced(bits, p, v), q) <=> i \in Get(bits, q)
    <3>1. /\ i \in Get(Replaced(bits, p, v), q) <=> i \in 0 .. (n - 1) /\ i + k \in Replaced(bits, p, v)
          /\ i \in Get(bits, q) <=> i \in 0 .. (n - 1) /\ i + k \in bits
      BY <2>1, GetMember
    <3>2. i \in 0 .. (n - 1) => i + k \notin lo .. (lo + w - 1)
      BY <1>1, <1>4, <2>1
    <3>3. QED
      BY <1>2, <3>1, <3>2
  <2>3. QED
    BY <2>2
<1>5. QED
  BY <1>1, <1>3, <1>4

-----------------------------------------------------------------------------
(* The wire format *)

\* How many bits go before each field on the wire.
LEMMA WirePlaces ==
  /\ DOMAIN WireOrder = 1 .. 14
  /\ BitsBefore = <<0, 48, 96, 112, 116, 120, 128, 144, 160, 176, 184, 192, 208, 240>>
<1>1. PICK f : f = <<0, 48, 96, 112, 116, 120, 128, 144, 160, 176, 184, 192, 208, 240>>
  OBVIOUS
<1>2. DOMAIN WireOrder = 1 .. 14
  BY DEF WireOrder
<1>3. f = [k \in 1 .. 14 |-> IF k = 1 THEN 0 ELSE f[k - 1] + WireOrder[k - 1][2]]
  <2>1. ASSUME NEW k \in 1 .. 14
        PROVE  f[k] = IF k = 1 THEN 0 ELSE f[k - 1] + WireOrder[k - 1][2]
    <3>1. k \in {1, 2, 3, 4, 5, 6, 7, 8, 9, 10, 11, 12, 13, 14}
      OBVIOUS
    <3>2. QED
      BY <1>1, <3>1 DEF WireOrder
  <2>2. DOMAIN f = 1 .. 14 /\ f = [k \in 1 .. 14 |-> f[k]]
    BY <1>1
  <2>3. QED
    BY <2>1, <2>2
<1>4. BitsBefore = [k \in 1 .. 14 |-> IF k = 1 THEN 0 ELSE BitsBefore[k - 1] + WireOrder[k - 1][2]]
  <2>1. BitsBefore = CHOOSE g : g = [k \in 1 .. 14 |-> IF k = 1 THEN 0 ELSE g[k - 1] + WireOrder[k - 1][2]]
    BY <1>2, Zenon DEF BitsBefore
  <2>2. \E g : g = [k \in 1 .. 14 |-> IF k = 1 THEN 0 ELSE g[k - 1] + WireOrder[k - 1][2]]
    BY <1>3
  <2>3. QED
    BY <2>1, <2>2, Zenon
<1>5. ASSUME NEW k \in 1 .. 14
      PROVE  BitsBefore[k] = IF k = 1 THEN 0 ELSE BitsBefore[k - 1] + WireOrder[k - 1][2]
  BY <1>4
<1>6. /\ WireOrder[1][2] = 48 /\ WireOrder[2][2] = 48 /\ WireOrder[3][2] = 16
      /\ WireOrder[4][2] = 4 /\ WireOrder[5][2] = 4 /\ WireOrder[6][2] = 8
      /\ WireOrder[7][2] = 16 /\ WireOrder[8][2] = 16 /\ WireOrder[9][2] = 16
      /\ WireOrder[10][2] = 8 /\ WireOrder[11][2] = 8 /\ WireOrder[12][2] = 16
      /\ WireOrder[13][2] = 32
  BY DEF WireOrder
<1>7. /\ BitsBefore[1] = 0 /\ BitsBefore[2] = 48 /\ BitsBefore[3] = 96 /\ BitsBefore[4] = 112
      /\ BitsBefore[5] = 116 /\ BitsBefore[6] = 120 /\ BitsBefore[7] = 128
  BY <1>5, <1>6
<1>8. /\ BitsBefore[8] = 144 /\ BitsBefore[9] = 160 /\ BitsBefore[10] = 176
      /\ BitsBefore[11] = 184 /\ BitsBefore[12] = 192 /\ BitsBefore[13] = 208
      /\ BitsBefore[14] = 240
  BY <1>5, <1>6, <1>7
<1>9. ASSUME NEW k \in 1 .. 14
      PROVE  BitsBefore[k] = f[k]
  <2>1. k \in {1, 2, 3, 4, 5, 6, 7, 8, 9, 10, 11, 12, 13, 14}
    OBVIOUS
  <2>2. QED
    BY <1>1, <1>7, <1>8, <2>1
<1>10. f \in [1 .. 14 -> Int]
  BY <1>1
<1>11. BitsBefore = f
  BY <1>4, <1>9, <1>10
<1>12. QED
  BY <1>1, <1>2, <1>11

\* Every view is at its field's place on the wire.
LEMMA ViewsAreOnTheWire ==
  ASSUME NEW k \in DOMAIN WireOrder, WireOrder[k][1] \in Paths
  PROVE  /\ HdrView(WireOrder[k][1]).w = WireOrder[k][2]
         /\ HdrView(WireOrder[k][1]).lo + WireOrder[k][2] = BufW - BitsBefore[k]
<1>1. k \in {1, 2, 3, 4, 5, 6, 7, 8, 9, 10, 11, 12, 13, 14}
  BY WirePlaces
<1>2. k \notin {8, 9, 10, 11, 12}
  BY AddressNames, LeafNames DEF WireOrder
<1>3. PICK path, w, n : path = WireOrder[k][1] /\ w = WireOrder[k][2] /\ n = BitsBefore[k]
  OBVIOUS
<1>4. \/ path = <<"eth", "dst_mac">> /\ w = 48 /\ n = 0
      \/ path = <<"eth", "src_mac">> /\ w = 48 /\ n = 48
      \/ path = <<"eth", "ethertype">> /\ w = 16 /\ n = 96
      \/ path = <<"ipv4", "version">> /\ w = 4 /\ n = 112
      \/ path = <<"ipv4", "ihl">> /\ w = 4 /\ n = 116
      \/ path = <<"ipv4", "dscp_ecn">> /\ w = 8 /\ n = 120
      \/ path = <<"ipv4", "total_len">> /\ w = 16 /\ n = 128
      \/ path = <<"ipv4", "src_addr", "value">> /\ w = 32 /\ n = 208
      \/ path = <<"ipv4", "dst_addr", "value">> /\ w = 32 /\ n = 240
  <2>1. CASE k \in {1, 2, 3}
    BY <1>3, <2>1, WirePlaces DEF WireOrder
  <2>2. CASE k \in {4, 5, 6, 7}
    BY <1>3, <2>2, WirePlaces DEF WireOrder
  <2>3. CASE k \in {13, 14}
    BY <1>3, <2>3, WirePlaces DEF WireOrder
  <2>4. QED
    BY <1>1, <1>2, <2>1, <2>2, <2>3
<1>5. HdrView(path).w = w /\ HdrView(path).lo + w = 432 - n
  BY <1>4, Layout DEF Places
<1>6. QED
  BY <1>3, <1>5 DEF BufW

\* Every getter reads the wire, whatever the buffer.
LEMMA GettersRead == GettersReadTheWire
<1>1. SUFFICES ASSUME NEW k \in DOMAIN WireOrder, WireOrder[k][1] \in Paths
               PROVE  /\ WidthOf(WireOrder[k][1]) = WireOrder[k][2]
                      /\ Get(buffer, WireOrder[k][1]) = OnWire(BitsBefore[k], WireOrder[k][2])
  BY DEF GettersReadTheWire
<1>2. PICK path : path = WireOrder[k][1]
  OBVIOUS
<1>3. path \in Paths
  BY <1>1, <1>2
<1>4. /\ HdrView(path).w = WireOrder[k][2]
      /\ HdrView(path).lo + WireOrder[k][2] = BufW - BitsBefore[k]
  BY <1>1, <1>2, ViewsAreOnTheWire
<1>5. BitsBefore[k] \in Int
  <2>1. k \in {1, 2, 3, 4, 5, 6, 7, 8, 9, 10, 11, 12, 13, 14}
    BY WirePlaces
  <2>2. QED
    BY <2>1, WirePlaces
<1>6. PICK w \in Nat, lo \in Nat : w = HdrView(path).w /\ lo = HdrView(path).lo
  BY <1>3, InPacket
<1>7. PICK n \in Int : n = BitsBefore[k] /\ lo + w = 432 - n
  BY <1>4, <1>5, <1>6 DEF BufW
<1>8. ASSUME NEW i
      PROVE  i \in Get(buffer, path) <=> i \in OnWire(n, w)
  <2>1. i \in Get(buffer, path) <=> i \in 0 .. (w - 1) /\ i + lo \in buffer
    BY <1>3, <1>6, GetMember
  <2>2. i \in OnWire(n, w) <=> i \in 0 .. (w - 1) /\ (432 - 1) - (n + (w - 1 - i)) \in buffer
    BY DEF OnWire, BufW
  <2>3. i \in 0 .. (w - 1) => (432 - 1) - (n + (w - 1 - i)) = i + lo
    BY <1>6, <1>7
  <2>4. QED
    BY <2>1, <2>2, <2>3
<1>9. Get(buffer, path) = OnWire(n, w)
  BY <1>8 DEF OnWire
<1>10. QED
  BY <1>2, <1>4, <1>6, <1>7, <1>9 DEF WidthOf

-----------------------------------------------------------------------------
(* The packet as a record *)

\* The bits of the packet.
ViewInv == buffer \in SUBSET (0 .. (BufW - 1))

\* What is read of an address is made of what is read of its octets.
LEMMA WholeIsRead ==
  ASSUME NEW adr \in AddressPaths
  PROVE  Fields!Whole(adr) = Get(buffer, adr)
<1>1. PICK f : f = [p \in LeafPaths |-> Get(buffer, p)]
  OBVIOUS
<1>2. PICK lo \in Nat : lo = HdrView(adr).lo /\ adr \in Paths /\ HdrView(adr).w = 32
  BY OctetPlaces
<1>3. ASSUME NEW n \in 0 .. 3, NEW i
      PROVE  i \in f[OctetPath(adr, n)] <=> i \in 0 .. 7 /\ i + (lo + 8 * (3 - n)) \in buffer
  <2>1. PICK p \in Paths : /\ p = OctetPath(adr, n) /\ p \in LeafPaths
                           /\ HdrView(p).w = 8 /\ HdrView(p).lo = lo + 8 * (3 - n)
    BY <1>2, OctetPlaces, AddressNames
  <2>2. i \in Get(buffer, p) <=> i \in 0 .. 7 /\ i + (lo + 8 * (3 - n)) \in buffer
    BY <2>1, GetMember
  <2>3. QED
    BY <1>1, <2>1, <2>2
<1>4. Fields!Whole(adr) = UNION {{i + 8 * (3 - n) : i \in f[OctetPath(adr, n)]} : n \in 0 .. 3}
  BY <1>1 DEF Fields!Whole
<1>5. ASSUME NEW k
      PROVE  k \in Fields!Whole(adr) <=> k \in 0 .. 31 /\ k + lo \in buffer
  <2>1. ASSUME k \in Fields!Whole(adr)
        PROVE  k \in 0 .. 31 /\ k + lo \in buffer
    <3>1. PICK n \in 0 .. 3 : k \in {i + 8 * (3 - n) : i \in f[OctetPath(adr, n)]}
      BY <1>4, <2>1
    <3>2. PICK i \in f[OctetPath(adr, n)] : k = i + 8 * (3 - n)
      BY <3>1
    <3>3. i \in 0 .. 7 /\ i + (lo + 8 * (3 - n)) \in buffer
      BY <1>3
    <3>4. i + (lo + 8 * (3 - n)) = k + lo
      BY <1>2, <3>2, <3>3
    <3>5. QED
      BY <3>2, <3>3, <3>4
  <2>2. ASSUME k \in 0 .. 31, k + lo \in buffer
        PROVE  k \in Fields!Whole(adr)
    <3>1. PICK n \in 0 .. 3 : k \in (8 * (3 - n)) .. (8 * (3 - n) + 7)
      <4>1. \/ k \in (8 * (3 - 0)) .. (8 * (3 - 0) + 7) \/ k \in (8 * (3 - 1)) .. (8 * (3 - 1) + 7)
            \/ k \in (8 * (3 - 2)) .. (8 * (3 - 2) + 7) \/ k \in (8 * (3 - 3)) .. (8 * (3 - 3) + 7)
        BY <2>2
      <4>2. 0 \in 0 .. 3 /\ 1 \in 0 .. 3 /\ 2 \in 0 .. 3 /\ 3 \in 0 .. 3
        OBVIOUS
      <4>3. QED
        BY <4>1, <4>2
    <3>2. PICK i \in 0 .. 7 : k = i + 8 * (3 - n)
      <4>1. k - 8 * (3 - n) \in 0 .. 7 /\ k = (k - 8 * (3 - n)) + 8 * (3 - n)
        BY <2>2, <3>1
      <4>2. QED
        BY <4>1
    <3>3. i + (lo + 8 * (3 - n)) = k + lo
      BY <1>2, <3>2
    <3>4. i \in f[OctetPath(adr, n)]
      BY <1>3, <2>2, <3>3
    <3>5. QED
      BY <1>4, <3>2, <3>4
  <2>3. QED
    BY <2>1, <2>2
<1>6. ASSUME NEW k
      PROVE  k \in Get(buffer, adr) <=> k \in 0 .. 31 /\ k + lo \in buffer
  BY <1>2, GetMember
<1>7. QED
  BY <1>5, <1>6

\* What a setter writes to each leaf.
LEMMA LeavesAfter ==
  ASSUME NEW p \in Paths, NEW bits \in SUBSET (0 .. (BufW - 1)),
         NEW v \in SUBSET (0 .. (HdrView(p).w - 1)), NEW q \in LeafPaths
  PROVE  Get(Replaced(bits, p, v), q) =
           IF q \in DOMAIN Fields!Written(p, v) THEN Fields!Written(p, v)[q] ELSE Get(bits, q)
<1>1. q \in Paths
  BY AddressNames
<1>2. CASE p \in LeafPaths
  <2>1. p \notin AddressPaths
    BY <1>2 DEF LeafPaths
  <2>2. Fields!Written(p, v) = [f \in {p} |-> v]
    BY <2>1 DEF Fields!Written
  <2>3. CASE q = p
    BY <2>2, <2>3, ReadBack
  <2>4. CASE q # p
    <3>1. \/ HdrView(q).lo + HdrView(q).w <= HdrView(p).lo
          \/ HdrView(p).lo + HdrView(p).w <= HdrView(q).lo
      BY <1>2, <2>4, LeavesAreApart
    <3>2. Get(Replaced(bits, p, v), q) = Get(bits, q)
      BY <1>1, <3>1, ReadBack
    <3>3. QED
      BY <2>2, <2>4, <3>2
  <2>5. QED
    BY <2>3, <2>4
<1>3. CASE p \in AddressPaths
  <2>1. PICK new : new = Fields!Written(p, v)
    OBVIOUS
  <2>2. new = [f \in {OctetPath(p, n) : n \in 0 .. 3} |->
                 Fields!OctetOf(v, CHOOSE n \in 0 .. 3 : f = OctetPath(p, n))]
    BY <1>3, <2>1 DEF Fields!Written, Fields!Octets
  <2>3. CASE \E n \in 0 .. 3 : q = OctetPath(p, n)
    <3>1. PICK n \in 0 .. 3 : q = OctetPath(p, n)
      BY <2>3
    <3>2. (CHOOSE m \in 0 .. 3 : q = OctetPath(p, m)) = n
      BY <1>3, <3>1, OctetsAreApart
    <3>3. q \in DOMAIN new /\ new[q] = Fields!OctetOf(v, n)
      BY <2>2, <3>1, <3>2
    <3>4. PICK lo \in Nat : /\ lo = HdrView(p).lo /\ HdrView(p).w = 32
                            /\ HdrView(q).lo = lo + 8 * (3 - n) /\ HdrView(q).w = 8
      BY <1>3, <3>1, OctetPlaces
    <3>5. ASSUME NEW i
          PROVE  i \in Get(Replaced(bits, p, v), q) <=> i \in 0 .. 7 /\ i + 8 * (3 - n) \in v
      <4>1. i \in Get(Replaced(bits, p, v), q)
              <=> i \in 0 .. 7 /\ i + (lo + 8 * (3 - n)) \in Replaced(bits, p, v)
        BY <1>1, <3>4, GetMember
      <4>2. i \in 0 .. 7 => /\ i + (lo + 8 * (3 - n)) \in lo .. (lo + 32 - 1)
                            /\ (i + (lo + 8 * (3 - n))) - lo = i + 8 * (3 - n)
        BY <3>4
      <4>3. i + (lo + 8 * (3 - n)) \in lo .. (lo + 32 - 1) =>
              (i + (lo + 8 * (3 - n)) \in Replaced(bits, p, v)
                 <=> (i + (lo + 8 * (3 - n))) - lo \in v)
        BY <3>4, ReplacedMember
      <4>4. QED
        BY <4>1, <4>2, <4>3
    <3>6. ASSUME NEW i
          PROVE  i \in Fields!OctetOf(v, n) <=> i \in 0 .. 7 /\ i + 8 * (3 - n) \in v
      <4>1. Fields!OctetOf(v, n) =
              {k - 8 * (3 - n) : k \in v \cap (8 * (3 - n) .. 8 * (3 - n) + 7)}
        BY DEF Fields!OctetOf
      <4>2. ASSUME i \in Fields!OctetOf(v, n)
            PROVE  i \in 0 .. 7 /\ i + 8 * (3 - n) \in v
        <5>1. PICK k \in v \cap (8 * (3 - n) .. 8 * (3 - n) + 7) : i = k - 8 * (3 - n)
          BY <4>1, <4>2
        <5>2. i \in 0 .. 7 /\ i + 8 * (3 - n) = k
          BY <5>1
        <5>3. QED
          BY <5>1, <5>2
      <4>3. ASSUME i \in 0 .. 7, i + 8 * (3 - n) \in v
            PROVE  i \in Fields!OctetOf(v, n)
        <5>1. PICK k : k = i + 8 * (3 - n)
          OBVIOUS
        <5>2. k \in v \cap (8 * (3 - n) .. 8 * (3 - n) + 7) /\ k - 8 * (3 - n) = i
          BY <4>3, <5>1
        <5>3. QED
          BY <4>1, <5>2
      <4>4. QED
        BY <4>2, <4>3
    <3>7. Get(Replaced(bits, p, v), q) = Fields!OctetOf(v, n)
      <4>1. \A i : i \in Get(Replaced(bits, p, v), q) <=> i \in Fields!OctetOf(v, n)
        BY <3>5, <3>6
      <4>2. Get(Replaced(bits, p, v), q) = {k - HdrView(q).lo : k \in Replaced(bits, p, v)
                    \cap (HdrView(q).lo .. (HdrView(q).lo + HdrView(q).w - 1))}
        BY <1>1, GetBits
      <4>3. QED
        BY <4>1, <4>2 DEF Fields!OctetOf
    <3>8. QED
      BY <2>1, <3>3, <3>7
  <2>4. CASE ~ \E n \in 0 .. 3 : q = OctetPath(p, n)
    <3>1. \/ HdrView(q).lo + HdrView(q).w <= HdrView(p).lo
          \/ HdrView(p).lo + HdrView(p).w <= HdrView(q).lo
      BY <1>3, <2>4, OctetsAreApart, OctetPlaces
    <3>2. Get(Replaced(bits, p, v), q) = Get(bits, q)
      BY <1>1, <3>1, ReadBack
    <3>3. q \notin DOMAIN new
      BY <2>2, <2>4
    <3>4. QED
      BY <2>1, <3>2, <3>3
  <2>5. QED
    BY <2>3, <2>4
<1>4. QED
  BY <1>2, <1>3, AddressNames

\* No setter writes to a bit that is in no field.
LEMMA RestAfter ==
  ASSUME NEW p \in Paths, NEW bits \in SUBSET (0 .. (BufW - 1)),
         NEW v \in SUBSET (0 .. (HdrView(p).w - 1))
  PROVE  /\ Replaced(bits, p, v) \in SUBSET (0 .. (BufW - 1))
         /\ Replaced(bits, p, v) \ Covered = bits \ Covered
<1>1. PICK w \in Nat, lo \in Nat : w = HdrView(p).w /\ lo = HdrView(p).lo /\ lo + w <= BufW
  BY InPacket
<1>2. lo .. (lo + w - 1) \subseteq Covered
  <2>1. CASE p \in LeafPaths
    BY <1>1, <2>1 DEF Covered
  <2>2. CASE p \in AddressPaths
    <3>1. SUFFICES ASSUME NEW i \in lo .. (lo + w - 1)
                   PROVE  i \in Covered
      OBVIOUS
    <3>2. w = 32
      BY <1>1, <2>2, OctetPlaces
    <3>3. PICK n \in 0 .. 3 : i \in (lo + 8 * (3 - n)) .. ((lo + 8 * (3 - n)) + 8 - 1)
      <4>1. \/ i \in (lo + 8 * (3 - 0)) .. ((lo + 8 * (3 - 0)) + 8 - 1)
            \/ i \in (lo + 8 * (3 - 1)) .. ((lo + 8 * (3 - 1)) + 8 - 1)
            \/ i \in (lo + 8 * (3 - 2)) .. ((lo + 8 * (3 - 2)) + 8 - 1)
            \/ i \in (lo + 8 * (3 - 3)) .. ((lo + 8 * (3 - 3)) + 8 - 1)
        BY <1>1, <3>1, <3>2
      <4>2. 0 \in 0 .. 3 /\ 1 \in 0 .. 3 /\ 2 \in 0 .. 3 /\ 3 \in 0 .. 3
        OBVIOUS
      <4>3. QED
        BY <4>1, <4>2
    <3>4. PICK q \in LeafPaths : HdrView(q).lo = lo + 8 * (3 - n) /\ HdrView(q).w = 8
      BY <1>1, <2>2, OctetPlaces
    <3>5. i \in HdrView(q).lo .. HdrView(q).lo + HdrView(q).w - 1
      BY <3>3, <3>4
    <3>6. QED
      BY <3>4, <3>5 DEF Covered
  <2>3. QED
    BY <2>1, <2>2, AddressNames
<1>3. \A i : i \in Replaced(bits, p, v) <=> IF i \in lo .. (lo + w - 1) THEN i - lo \in v ELSE i \in bits
  BY <1>1, ReplacedMember
<1>4. lo .. (lo + w - 1) \subseteq 0 .. (BufW - 1)
  <2>1. BufW \in Int
    BY DEF BufW
  <2>2. QED
    BY <1>1, <2>1
<1>5. Replaced(bits, p, v) \in SUBSET (0 .. (BufW - 1))
  BY <1>3, <1>4
<1>6. QED
  BY <1>2, <1>3, <1>5

\* A call of a setter writes its field and no other.
LEMMA WriteMaps ==
  ASSUME ViewInv, NEW p \in Paths, NEW v \in SUBSET (0 .. (HdrView(p).w - 1)), Write(p, v)
  PROVE  ViewInv' /\ Fields!Write(p, v)
<1>1. buffer' = Replaced(buffer, p, v)
  BY DEF Write
<1>2. buffer' \in SUBSET (0 .. (BufW - 1)) /\ buffer' \ Covered = buffer \ Covered
  BY <1>1, RestAfter DEF ViewInv
<1>3. PICK new : new = Fields!Written(p, v)
  OBVIOUS
<1>4. PICK old : old = [q \in LeafPaths |-> Get(buffer, q)]
  OBVIOUS
<1>5. ASSUME NEW q \in LeafPaths
      PROVE  Get(buffer', q) = IF q \in DOMAIN new THEN new[q] ELSE old[q]
  BY <1>1, <1>3, <1>4, LeavesAfter DEF ViewInv
<1>6. [q \in LeafPaths |-> Get(buffer', q)]
        = [q \in LeafPaths |-> IF q \in DOMAIN new THEN new[q] ELSE old[q]]
  BY <1>5
<1>7. QED
  BY <1>2, <1>3, <1>4, <1>6 DEF ViewInv, Fields!Write

\* Every call on the views is one on the record.
LEMMA ViewStepMaps ==
  ASSUME ViewInv, ViewNext
  PROVE  ViewInv' /\ Fields!Next
<1>1. ASSUME NEW p \in Paths
      PROVE  SampleValues(HdrView(p).w) \subseteq SUBSET (0 .. (HdrView(p).w - 1))
  <2>1. HdrView(p).w \in 1 .. BufW
    BY InPacket DEF BufW
  <2>2. QED
    BY <2>1, ViewAssumption
<1>2. ASSUME NEW p \in Paths, Set(p)
      PROVE  ViewInv' /\ Fields!Next
  <2>1. PICK v \in SampleValues(WidthOf(p)) : call' = [to |-> p, v |-> v] /\ Write(p, v)
    BY <1>2 DEF Set
  <2>2. v \in SUBSET (0 .. (HdrView(p).w - 1))
    BY <1>1, <2>1 DEF WidthOf
  <2>3. ViewInv' /\ Fields!Write(p, v)
    BY <2>1, <2>2, WriteMaps
  <2>4. Fields!Set(p) /\ p \in LeafPaths \cup AddressPaths
    BY <2>1, <2>3, AddressNames DEF Fields!Set
  <2>5. QED
    BY <2>3, <2>4 DEF Fields!Next
<1>3. ASSUME NEW p \in Paths, NEW q \in Paths, Copy(p, q)
      PROVE  ViewInv' /\ Fields!Next
  <2>1. PICK v : v = Get(buffer, p)
    OBVIOUS
  <2>2. WidthOf(p) = WidthOf(q) /\ call' = [to |-> q, from |-> p] /\ Write(q, v)
    BY <1>3, <2>1 DEF Copy
  <2>3. v \in SUBSET (0 .. (HdrView(q).w - 1))
    <3>1. \A i : i \in v => i \in 0 .. (HdrView(p).w - 1)
      BY <2>1, GetMember
    <3>2. QED
      BY <2>2, <3>1 DEF WidthOf
  <2>4. ViewInv' /\ Fields!Write(q, v)
    BY <2>2, <2>3, WriteMaps
  <2>5. Fields!Value(p) = v
    <3>1. CASE p \in AddressPaths
      BY <2>1, <3>1, WholeIsRead DEF Fields!Value
    <3>2. CASE p \notin AddressPaths
      <4>1. p \in LeafPaths
        BY <3>2, AddressNames
      <4>2. QED
        BY <2>1, <3>2, <4>1 DEF Fields!Value
    <3>3. QED
      BY <3>1, <3>2
  <2>6. Fields!Copy(p, q) /\ {p, q} \subseteq LeafPaths \cup AddressPaths
    BY <2>2, <2>4, <2>5, AddressNames DEF Fields!Copy
  <2>7. QED
    BY <2>4, <2>6 DEF Fields!Next
<1>4. QED
  BY <1>2, <1>3 DEF ViewNext

-----------------------------------------------------------------------------
(* The usage snippets on numbers *)

\* What is assumed of the widths.
LEMMA SnippetWidths ==
  /\ MaxWidth \in Nat /\ 16 <= MaxWidth
  /\ SourceWidth \in Nat /\ 8 <= SourceWidth /\ SourceWidth <= MaxWidth /\ SourceWidth \in Widths
  /\ WideWidth \in Nat /\ 16 <= WideWidth /\ WideWidth <= MaxWidth /\ WideWidth \in Widths
  /\ OffsetWidth \in Widths
  /\ \A w \in 1 .. 16 : w \in Widths
<1>1. MaxWidth \in Nat /\ {SourceWidth, WideWidth, OffsetWidth} \subseteq 1 .. MaxWidth
      /\ 8 <= SourceWidth /\ 16 <= WideWidth
  BY SnippetAssumption, WidthsType DEF Widths
<1>2. QED
  BY <1>1 DEF Widths

LEMMA TypeParts ==
  ASSUME NEW w
  PROVE  /\ UInt(w).w = w /\ UInt(w).s = FALSE /\ SInt(w).w = w /\ SInt(w).s = TRUE
         /\ w \in Widths => UInt(w) \in Types /\ SInt(w) \in Types
BY DEF UInt, SInt, Types

\* A variable of a line is a term of its type.
LEMMA VariableOf ==
  ASSUME NEW t \in Types, NEW x \in ValuesOf(t)
  PROVE  x \in Terms /\ x.w = t.w /\ x.s = t.s
BY SnippetAssumption DEF SameType

\* What the lines on numbers promise, and the others do not speak of.
SnippetInv == LinesComputeTheirMeaning /\ EveryBitIsPlaced

\* A line that computes a sum.
LEMMA SumIsMeant ==
  ASSUME NEW x \in Terms, NEW y \in Terms, NEW t, ArithResultWidth(x, y) <= MaxWidth,
         t.w = ArithResultWidth(x, y), t.s \in BOOLEAN, t.s <=> x.s \/ y.s,
         Runs("add", <<x, y>>, t, Plus(x, y))
  PROVE  SnippetInv'
<1>1. Num(Plus(x, y)) = Num(x) + Num(y)
  BY PlusIsExact
<1>2. SameType(Plus(x, y), t)
  <2>1. x.s \in BOOLEAN /\ y.s \in BOOLEAN
    BY TermParts
  <2>2. (x.s \/ y.s) = t.s
    BY <2>1
  <2>3. Plus(x, y).w = ArithResultWidth(x, y) /\ Plus(x, y).s = (x.s \/ y.s)
    BY DEF Plus, Term
  <2>4. QED
    BY <2>2, <2>3 DEF SameType
<1>3. line' = "add" /\ operands' = <<x, y>> /\ declared' = t /\ result' = Plus(x, y)
  BY DEF Runs
<1>4. LinesComputeTheirMeaning'
  BY <1>1, <1>2, <1>3 DEF LinesComputeTheirMeaning
<1>5. EveryBitIsPlaced'
  BY <1>3 DEF EveryBitIsPlaced
<1>6. QED
  BY <1>4, <1>5 DEF SnippetInv

\* A line that computes a difference.
LEMMA DifferenceIsMeant ==
  ASSUME NEW x \in Terms, NEW y \in Terms, NEW t, ArithResultWidth(x, y) <= MaxWidth,
         t.w = ArithResultWidth(x, y), t.s = TRUE,
         Runs("subtract", <<x, y>>, t, Minus(x, y))
  PROVE  SnippetInv'
<1>1. Num(Minus(x, y)) = Num(x) - Num(y)
  BY MinusIsExact
<1>2. SameType(Minus(x, y), t)
  BY DEF SameType, Minus, Term
<1>3. line' = "subtract" /\ operands' = <<x, y>> /\ declared' = t /\ result' = Minus(x, y)
  BY DEF Runs
<1>4. LinesComputeTheirMeaning'
  BY <1>1, <1>2, <1>3 DEF LinesComputeTheirMeaning
<1>5. EveryBitIsPlaced'
  BY <1>3 DEF EveryBitIsPlaced
<1>6. QED
  BY <1>4, <1>5 DEF SnippetInv

\* The types of two operands and of their sum.
SumTypes(t, u, v) ==
  /\ {t.s, u.s} \subseteq BOOLEAN
  /\ \/ t.w = 7 /\ ~t.s /\ u.w = 9 /\ ~u.s /\ v.w = 10
     \/ t.w = 7 /\ t.s /\ u.w = 9 /\ u.s /\ v.w = 10
     \/ t.w = 9 /\ ~t.s /\ u.w = 7 /\ u.s /\ v.w = 11
     \/ t.w = 7 /\ ~t.s /\ u.w = 9 /\ u.s /\ v.w = 10
     \/ t.w = 7 /\ t.s /\ u.w = 9 /\ ~u.s /\ v.w = 11
     \/ t.w = 9 /\ t.s /\ u.w = 7 /\ ~u.s /\ v.w = 10

LEMMA SumWidth ==
  ASSUME NEW t, NEW u, NEW v, SumTypes(t, u, v), NEW x, NEW y,
         x.w = t.w, x.s = t.s, y.w = u.w, y.s = u.s
  PROVE  v.w = ArithResultWidth(x, y) /\ v.w <= 16
<1>1. ASSUME NEW m \in Nat, NEW n \in Nat, x.w = m, y.w = n, x.s = y.s
      PROVE  ArithResultWidth(x, y) = (IF m >= n THEN m ELSE n) + 1
  BY <1>1 DEF ArithResultWidth, Wider
<1>2. ASSUME NEW m \in Nat, NEW n \in Nat, x.w = m, y.w = n, x.s, ~y.s
      PROVE  ArithResultWidth(x, y) = IF n >= m THEN n + 2 ELSE m + 1
  <2>1. x.s # y.s /\ x.s
    BY <1>2
  <2>2. QED
    BY <1>2, <2>1 DEF ArithResultWidth
<1>3. ASSUME NEW m \in Nat, NEW n \in Nat, x.w = m, y.w = n, ~x.s, y.s
      PROVE  ArithResultWidth(x, y) = IF m >= n THEN m + 2 ELSE n + 1
  <2>1. x.s # y.s /\ ~x.s
    BY <1>3
  <2>2. QED
    BY <1>3, <2>1 DEF ArithResultWidth
<1>4. CASE t.s = u.s /\ t.w = 7 /\ u.w = 9 /\ v.w = 10
  BY <1>1, <1>4
<1>5. CASE t.s /\ ~u.s /\ t.w = 7 /\ u.w = 9 /\ v.w = 11
  BY <1>2, <1>5
<1>6. CASE t.s /\ ~u.s /\ t.w = 9 /\ u.w = 7 /\ v.w = 10
  BY <1>2, <1>6
<1>7. CASE ~t.s /\ u.s /\ t.w = 9 /\ u.w = 7 /\ v.w = 11
  BY <1>3, <1>7
<1>8. CASE ~t.s /\ u.s /\ t.w = 7 /\ u.w = 9 /\ v.w = 10
  BY <1>3, <1>8
<1>9. QED
  BY <1>4, <1>5, <1>6, <1>7, <1>8 DEF SumTypes

LEMMA AdditionMeans ==
  ASSUME Addition
  PROVE  SnippetInv'
<1>1. PICK d \in {<<UInt(7), UInt(9), UInt(10)>>, <<SInt(7), SInt(9), SInt(10)>>,
                  <<UInt(9), SInt(7), SInt(11)>>, <<UInt(7), SInt(9), SInt(10)>>,
                  <<SInt(7), UInt(9), SInt(11)>>, <<SInt(9), UInt(7), SInt(10)>>} :
          \E x \in ValuesOf(d[1]), y \in ValuesOf(d[2]) :
             Runs("add", <<x, y>>, d[3], Plus(x, y))
  BY DEF Addition
<1>2. PICK x \in ValuesOf(d[1]), y \in ValuesOf(d[2]) : Runs("add", <<x, y>>, d[3], Plus(x, y))
  BY <1>1
<1>3. 7 \in Widths /\ 9 \in Widths
  BY SnippetWidths
<1>4. /\ d[1] \in Types /\ d[2] \in Types
      /\ SumTypes(d[1], d[2], d[3])
      /\ d[3].s \in BOOLEAN /\ (d[3].s <=> d[1].s \/ d[2].s)
  <2>1. \/ d[1] = UInt(7) /\ d[2] = UInt(9) /\ d[3] = UInt(10)
        \/ d[1] = SInt(7) /\ d[2] = SInt(9) /\ d[3] = SInt(10)
        \/ d[1] = UInt(9) /\ d[2] = SInt(7) /\ d[3] = SInt(11)
        \/ d[1] = UInt(7) /\ d[2] = SInt(9) /\ d[3] = SInt(10)
        \/ d[1] = SInt(7) /\ d[2] = UInt(9) /\ d[3] = SInt(11)
        \/ d[1] = SInt(9) /\ d[2] = UInt(7) /\ d[3] = SInt(10)
    OBVIOUS
  <2>2. d[1] \in Types /\ d[2] \in Types
    BY <1>3, <2>1, TypeParts
  <2>3. /\ UInt(7).w = 7 /\ UInt(7).s = FALSE /\ SInt(7).w = 7 /\ SInt(7).s = TRUE
        /\ UInt(9).w = 9 /\ UInt(9).s = FALSE /\ SInt(9).w = 9 /\ SInt(9).s = TRUE
        /\ UInt(10).w = 10 /\ UInt(10).s = FALSE /\ SInt(10).w = 10 /\ SInt(10).s = TRUE
        /\ SInt(11).w = 11 /\ SInt(11).s = TRUE
    BY DEF UInt, SInt
  <2>4. SumTypes(d[1], d[2], d[3])
    BY <2>1, <2>3 DEF SumTypes
  <2>5. d[3].s \in BOOLEAN /\ (d[3].s <=> d[1].s \/ d[2].s)
    BY <2>1, <2>3
  <2>6. QED
    BY <2>2, <2>4, <2>5
<1>5. /\ x \in Terms /\ x.w = d[1].w /\ x.s = d[1].s
      /\ y \in Terms /\ y.w = d[2].w /\ y.s = d[2].s
  BY <1>2, <1>4, VariableOf
<1>6. d[3].w = ArithResultWidth(x, y) /\ d[3].w <= 16
  BY <1>4, <1>5, SumWidth
<1>7. d[3].s \in BOOLEAN /\ (d[3].s <=> x.s \/ y.s)
  BY <1>4, <1>5
<1>8. ArithResultWidth(x, y) <= MaxWidth
  BY <1>4, <1>6, SnippetWidths DEF SumTypes
<1>9. QED
  BY <1>2, <1>5, <1>6, <1>7, <1>8, SumIsMeant

LEMMA SubtractionMeans ==
  ASSUME Subtraction
  PROVE  SnippetInv'
<1>1. PICK d \in {<<UInt(7), UInt(9), SInt(10)>>, <<SInt(7), SInt(9), SInt(10)>>,
                  <<UInt(9), SInt(7), SInt(11)>>, <<UInt(7), SInt(9), SInt(10)>>,
                  <<SInt(7), UInt(9), SInt(11)>>, <<SInt(9), UInt(7), SInt(10)>>} :
          \E x \in ValuesOf(d[1]), y \in ValuesOf(d[2]) :
             Runs("subtract", <<x, y>>, d[3], Minus(x, y))
  BY DEF Subtraction
<1>2. PICK x \in ValuesOf(d[1]), y \in ValuesOf(d[2]) : Runs("subtract", <<x, y>>, d[3], Minus(x, y))
  BY <1>1
<1>3. 7 \in Widths /\ 9 \in Widths
  BY SnippetWidths
<1>4. /\ d[1] \in Types /\ d[2] \in Types
      /\ SumTypes(d[1], d[2], d[3])
      /\ d[3].s = TRUE
  <2>1. \/ d[1] = UInt(7) /\ d[2] = UInt(9) /\ d[3] = SInt(10)
        \/ d[1] = SInt(7) /\ d[2] = SInt(9) /\ d[3] = SInt(10)
        \/ d[1] = UInt(9) /\ d[2] = SInt(7) /\ d[3] = SInt(11)
        \/ d[1] = UInt(7) /\ d[2] = SInt(9) /\ d[3] = SInt(10)
        \/ d[1] = SInt(7) /\ d[2] = UInt(9) /\ d[3] = SInt(11)
        \/ d[1] = SInt(9) /\ d[2] = UInt(7) /\ d[3] = SInt(10)
    OBVIOUS
  <2>2. d[1] \in Types /\ d[2] \in Types
    BY <1>3, <2>1, TypeParts
  <2>3. /\ UInt(7).w = 7 /\ UInt(7).s = FALSE /\ SInt(7).w = 7 /\ SInt(7).s = TRUE
        /\ UInt(9).w = 9 /\ UInt(9).s = FALSE /\ SInt(9).w = 9 /\ SInt(9).s = TRUE
        /\ UInt(10).w = 10 /\ UInt(10).s = FALSE /\ SInt(10).w = 10 /\ SInt(10).s = TRUE
        /\ SInt(11).w = 11 /\ SInt(11).s = TRUE
    BY DEF UInt, SInt
  <2>4. SumTypes(d[1], d[2], d[3])
    BY <2>1, <2>3 DEF SumTypes
  <2>5. d[3].s = TRUE
    BY <2>1, <2>3
  <2>6. QED
    BY <2>2, <2>4, <2>5
<1>5. /\ x \in Terms /\ x.w = d[1].w /\ x.s = d[1].s
      /\ y \in Terms /\ y.w = d[2].w /\ y.s = d[2].s
  BY <1>2, <1>4, VariableOf
<1>6. d[3].w = ArithResultWidth(x, y) /\ d[3].w <= 16
  BY <1>4, <1>5, SumWidth
<1>7. d[3].s = TRUE
  BY <1>4, <1>5
<1>8. ArithResultWidth(x, y) <= MaxWidth
  BY <1>4, <1>6, SnippetWidths DEF SumTypes
<1>9. QED
  BY <1>2, <1>5, <1>6, <1>7, <1>8, DifferenceIsMeant

\* The small powers of two.
LEMMA SmallPowers ==
  Pow2[0] = 1 /\ Pow2[1] = 2 /\ Pow2[3] = 8 /\ Pow2[8] = 256
<1>1. \A k \in 1 .. 8 : Pow2[k] = 2 * Pow2[k - 1]
  BY SnippetWidths, Pow2Succ
<1>2. Pow2[0] = 1
  BY Powers
<1>3. Pow2[1] = 2 /\ Pow2[2] = 4 /\ Pow2[3] = 8 /\ Pow2[4] = 16
  BY <1>1, <1>2
<1>4. Pow2[5] = 32 /\ Pow2[6] = 64 /\ Pow2[7] = 128 /\ Pow2[8] = 256
  BY <1>1, <1>3
<1>5. QED
  BY <1>2, <1>3, <1>4

\* A variable of eight bits.
LEMMA ByteVariable ==
  ASSUME NEW x \in ValuesOf(UInt(8)) \cup ValuesOf(SInt(8))
  PROVE  x \in Terms /\ x.w = 8 /\ x.s \in BOOLEAN
<1>1. UInt(8) \in Types /\ SInt(8) \in Types /\ UInt(8).w = 8 /\ SInt(8).w = 8
  <2>1. 8 \in Widths
    BY SnippetWidths
  <2>2. QED
    BY <2>1, TypeParts
<1>2. x \in Terms /\ x.w = 8
  BY <1>1, VariableOf
<1>3. QED
  BY <1>2, TermParts

\* An unsigned variable.
LEMMA UnsignedVariable ==
  ASSUME NEW w \in Widths, NEW x \in ValuesOf(UInt(w))
  PROVE  /\ x \in Terms /\ x.w = w /\ ~x.s
         /\ Num(x) = x.p /\ x.p \in Nat /\ x.p < Pow2[w]
<1>1. UInt(w) \in Types /\ UInt(w).w = w /\ ~UInt(w).s
  BY TypeParts
<1>2. x \in Terms /\ x.w = w /\ ~x.s
  BY <1>1, VariableOf
<1>3. x.p \in 0 .. (Pow2[w] - 1) /\ x.p \in Nat /\ Pow2[w] \in Nat
  BY <1>2, TermParts, RangeBounds DEF Patterns
<1>4. QED
  BY <1>2, <1>3, NumUnsigned

LEMMA NegationMeans ==
  ASSUME Negation
  PROVE  SnippetInv'
<1>1. PICK x \in ValuesOf(UInt(8)) \cup ValuesOf(SInt(8)) :
        Runs("negate", <<x>>, SInt(9), Negated(x))
  BY DEF Negation
<1>2. x \in Terms /\ x.w = 8
  BY <1>1, ByteVariable
<1>3. Num(Negated(x)) = -Num(x)
  BY <1>2, SnippetWidths, NegatedIsExact
<1>4. SameType(Negated(x), SInt(9))
  BY <1>2 DEF SameType, Negated, Term, SInt
<1>5. LinesComputeTheirMeaning'
  BY <1>1, <1>3, <1>4 DEF Runs, LinesComputeTheirMeaning
<1>6. EveryBitIsPlaced'
  BY <1>1 DEF Runs, EveryBitIsPlaced
<1>7. QED
  BY <1>5, <1>6 DEF SnippetInv

\* A left shift by n, as the code has it, of the width w.
LEMMA LeftShiftIsMeant ==
  ASSUME NEW x \in Terms, NEW y \in Terms, ~y.s, NEW w \in Widths, NEW v \in Terms,
         v.w = w, ~v.s, v.p = Wrap(w, Num(x) * Pow2[y.p]),
         Runs("shl", <<x, y>>, UInt(w), v)
  PROVE  SnippetInv'
<1>1. Num(v) = Wrap(v.w, Num(x) * Pow2[Num(y)])
  BY NumUnsigned
<1>2. SameType(v, UInt(w))
  <2>1. v.s = FALSE
    BY TermParts
  <2>2. QED
    BY <2>1 DEF SameType, UInt
<1>3. LinesComputeTheirMeaning'
  BY <1>1, <1>2 DEF Runs, LinesComputeTheirMeaning
<1>4. EveryBitIsPlaced'
  BY DEF Runs, EveryBitIsPlaced
<1>5. QED
  BY <1>3, <1>4 DEF SnippetInv

LEMMA LeftShiftMeans ==
  ASSUME LeftShift
  PROVE  SnippetInv'
<1>1. PICK x \in ValuesOf(UInt(8)) \cup ValuesOf(SInt(8)), n \in ValuesOf(UInt(3)) :
        \/ n.p = 3 /\ Runs("shl", <<x, n>>, UInt(11), ShlConst(x, 3))
        \/ Runs("shl", <<x, n>>, UInt(15), ShlBy(x, n))
  BY DEF LeftShift
<1>2. 3 \in Widths /\ 11 \in Widths /\ 15 \in Widths
  BY SnippetWidths
<1>3. /\ x \in Terms /\ x.w = 8
      /\ n \in Terms /\ n.w = 3 /\ ~n.s /\ n.p \in Nat
  BY <1>1, <1>2, ByteVariable, UnsignedVariable
<1>4. CASE n.p = 3 /\ Runs("shl", <<x, n>>, UInt(11), ShlConst(x, 3))
  <2>1. PICK k, v : k \in Nat /\ k = 3 /\ v = ShlConst(x, k)
    OBVIOUS
  <2>2. x.w + k = 11 /\ x.w + k <= MaxWidth
    BY <1>3, <2>1, SnippetWidths
  <2>3. v = Term(x.w + k, FALSE, Wrap(x.w + k, Num(x) * Pow2[k])) /\ v \in Terms
    BY <1>3, <2>1, <2>2, ShlConstMultiplies
  <2>4. v.w = 11 /\ ~v.s /\ v.p = Wrap(11, Num(x) * Pow2[n.p])
    BY <1>4, <2>1, <2>2, <2>3 DEF Term
  <2>5. QED
    BY <1>2, <1>3, <1>4, <2>1, <2>3, <2>4, LeftShiftIsMeant
<1>5. CASE Runs("shl", <<x, n>>, UInt(15), ShlBy(x, n))
  <2>1. PICK v, w : v = ShlBy(x, n) /\ w = ShlWidth(x, n.w)
    OBVIOUS
  <2>2. w = 15 /\ w <= MaxWidth
    BY <1>3, <2>1, SmallPowers, SnippetWidths DEF ShlWidth
  <2>3. v = Term(w, FALSE, Wrap(w, Num(x) * Pow2[n.p])) /\ v \in Terms
    BY <1>3, <2>1, <2>2, ShlByMultiplies
  <2>4. v.w = 15 /\ ~v.s /\ v.p = Wrap(15, Num(x) * Pow2[n.p])
    BY <2>2, <2>3 DEF Term
  <2>5. QED
    BY <1>2, <1>3, <1>5, <2>1, <2>3, <2>4, LeftShiftIsMeant
<1>6. QED
  BY <1>1, <1>4, <1>5

\* A right shift by n, as the code has it.
LEMMA RightShiftIsMeant ==
  ASSUME NEW x \in Terms, NEW y \in Terms, ~y.s, y.p < MaxWidth,
         NEW t, t.w = x.w, t.s = x.s, NEW v \in Terms,
         v.w = x.w, v.s = x.s, Num(v) = FloorShift(Num(x), y.p),
         Runs("shr", <<x, y>>, t, v)
  PROVE  SnippetInv'
<1>1. Num(v) = Num(x) \div Pow2[Num(y)]
  <2>1. y.p \in Nat /\ MaxWidth \in Nat /\ ~(y.p >= MaxWidth) /\ Num(y) = y.p
    BY TermParts, NumUnsigned, SnippetWidths
  <2>2. QED
    BY <2>1 DEF FloorShift
<1>2. SameType(v, t)
  BY DEF SameType
<1>3. LinesComputeTheirMeaning'
  BY <1>1, <1>2 DEF Runs, LinesComputeTheirMeaning
<1>4. EveryBitIsPlaced'
  BY DEF Runs, EveryBitIsPlaced
<1>5. QED
  BY <1>3, <1>4 DEF SnippetInv

LEMMA RightShiftMeans ==
  ASSUME RightShift
  PROVE  SnippetInv'
<1>1. PICK x \in ValuesOf(UInt(8)) \cup ValuesOf(SInt(8)), n \in ValuesOf(UInt(3)) :
        \/ n.p = 3 /\ Runs("shr", <<x, n>>, [w |-> 8, s |-> x.s], ShrConst(x, 3))
        \/ Runs("shr", <<x, n>>, [w |-> 8, s |-> x.s], ShrBy(x, n))
  BY DEF RightShift
<1>2. 3 \in Widths
  BY SnippetWidths
<1>3. /\ x \in Terms /\ x.w = 8
      /\ n \in Terms /\ n.w = 3 /\ ~n.s /\ n.p \in Nat /\ n.p < 8
  BY <1>1, <1>2, ByteVariable, UnsignedVariable, SmallPowers
<1>4. n.p < MaxWidth
  BY <1>3, SnippetWidths
<1>5. PICK t : t = [w |-> 8, s |-> x.s]
  OBVIOUS
<1>6. t.w = x.w /\ t.s = x.s
  BY <1>3, <1>5
<1>7. CASE n.p = 3 /\ Runs("shr", <<x, n>>, [w |-> 8, s |-> x.s], ShrConst(x, 3))
  <2>1. PICK k, v : k \in Nat /\ k = 3 /\ v = ShrConst(x, k)
    OBVIOUS
  <2>2. v \in Terms /\ Num(v) = FloorShift(Num(x), k)
    BY <1>3, <2>1, ShrConstDivides
  <2>3. v.w = x.w /\ v.s = x.s
    BY <2>1 DEF ShrConst, Term
  <2>4. Runs("shr", <<x, n>>, t, v) /\ n.p = k
    BY <1>5, <1>7, <2>1
  <2>5. QED
    BY <1>3, <1>4, <1>6, <2>2, <2>3, <2>4, RightShiftIsMeant
<1>8. CASE Runs("shr", <<x, n>>, [w |-> 8, s |-> x.s], ShrBy(x, n))
  <2>1. PICK v : v = ShrBy(x, n)
    OBVIOUS
  <2>2. v \in Terms /\ Num(v) = FloorShift(Num(x), n.p)
    BY <1>3, <2>1, ShrByDivides
  <2>3. v.w = x.w /\ v.s = x.s
    BY <2>1 DEF ShrBy, Term
  <2>4. Runs("shr", <<x, n>>, t, v)
    BY <1>5, <1>8, <2>1
  <2>5. QED
    BY <1>3, <1>4, <1>6, <2>2, <2>3, <2>4, RightShiftIsMeant
<1>9. QED
  BY <1>1, <1>7, <1>8

\* The shift keeps the source's type, and the cut is the extract.
LEMMA SymbolicExtractionMeans ==
  ASSUME SymbolicExtraction
  PROVE  SnippetInv'
<1>1. PICK src \in ValuesOf(UInt(SourceWidth)), offset \in ValuesOf(UInt(OffsetWidth)), w \in {4, 8} :
        Runs("shift_extract", <<src, offset>>, UInt(w), UnsafeCast(ShrBy(src, offset), w, FALSE))
  BY DEF SymbolicExtraction
<1>2. SourceWidth \in Widths /\ OffsetWidth \in Widths /\ w \in Widths
  BY SnippetWidths
<1>3. /\ src \in Terms
      /\ offset \in Terms /\ ~offset.s /\ offset.p \in Nat /\ offset.p < Pow2[OffsetWidth]
      /\ Num(offset) = offset.p /\ Num(src) \in Nat
  BY <1>1, <1>2, UnsignedVariable
<1>4. offset.p < MaxWidth
  <2>1. Pow2[OffsetWidth] <= MaxWidth /\ Pow2[OffsetWidth] \in Nat /\ MaxWidth \in Nat
    BY <1>2, SnippetAssumption, RangeBounds, SnippetWidths
  <2>2. QED
    BY <1>3, <2>1
<1>5. PICK shifted : shifted = ShrBy(src, offset)
  OBVIOUS
<1>6. shifted \in Terms /\ Num(shifted) = Num(src) \div Pow2[Num(offset)]
  <2>1. shifted \in Terms /\ Num(shifted) = FloorShift(Num(src), offset.p)
    BY <1>3, <1>5, ShrByDivides
  <2>2. ~(offset.p >= MaxWidth)
    BY <1>3, <1>4, SnippetWidths
  <2>3. QED
    BY <1>3, <2>1, <2>2 DEF FloorShift
<1>7. PICK f, v : f \in BOOLEAN /\ f = FALSE /\ v = UnsafeCast(shifted, w, f)
  OBVIOUS
<1>8. v = Term(w, f, Wrap(w, Num(shifted))) /\ v \in Terms /\ v.w = w /\ v.s = f
  BY <1>2, <1>6, <1>7, UnsafeCastIsWrap
<1>9. Num(v) = Wrap(v.w, Num(src) \div Pow2[Num(offset)])
  <2>1. ~v.s /\ v.p = Wrap(w, Num(shifted))
    BY <1>7, <1>8 DEF Term
  <2>2. Num(v) = v.p
    BY <1>8, <2>1, NumUnsigned
  <2>3. QED
    BY <1>6, <1>8, <2>1, <2>2
<1>10. SameType(v, UInt(w))
  BY <1>7, <1>8 DEF SameType, UInt
<1>11. Runs("shift_extract", <<src, offset>>, UInt(w), v)
  BY <1>1, <1>5, <1>7
<1>12. LinesComputeTheirMeaning'
  BY <1>9, <1>10, <1>11 DEF Runs, LinesComputeTheirMeaning
<1>13. EveryBitIsPlaced'
  BY <1>11 DEF Runs, EveryBitIsPlaced
<1>14. QED
  BY <1>12, <1>13 DEF SnippetInv

\* A comparison as a result of one bit.
LEMMA ComparisonIsMeant ==
  ASSUME NEW x \in Terms, NEW y \in Terms, NEW name \in {"equal", "less"}, NEW is \in BOOLEAN,
         name = "equal" => (is <=> Num(x) = Num(y)),
         name = "less" => (is <=> Num(x) < Num(y)),
         Runs(name, <<x, y>>, UInt(1), AsUint1(is))
  PROVE  SnippetInv'
<1>1. PICK v : v = AsUint1(is)
  OBVIOUS
<1>2. v \in Terms /\ (Num(v) = 1 <=> is)
  BY <1>1, OneBit
<1>3. SameType(v, UInt(1))
  BY <1>1 DEF SameType, UInt, AsUint1, Term
<1>4. Num(x) \in Int /\ Num(y) \in Int
  BY NumType
<1>5. Runs(name, <<x, y>>, UInt(1), v)
  BY <1>1
<1>6. CASE name = "equal"
  <2>1. (Num(v) = 1) = (Num(x) = Num(y))
    BY <1>2, <1>6
  <2>2. LinesComputeTheirMeaning'
    BY <1>3, <1>5, <1>6, <2>1 DEF Runs, LinesComputeTheirMeaning
  <2>3. EveryBitIsPlaced'
    BY <1>5, <1>6 DEF Runs, EveryBitIsPlaced
  <2>4. QED
    BY <2>2, <2>3 DEF SnippetInv
<1>7. CASE name = "less"
  <2>1. (Num(v) = 1) = (Num(x) < Num(y))
    BY <1>2, <1>4, <1>7
  <2>2. LinesComputeTheirMeaning'
    BY <1>3, <1>5, <1>7, <2>1 DEF Runs, LinesComputeTheirMeaning
  <2>3. EveryBitIsPlaced'
    BY <1>5, <1>7 DEF Runs, EveryBitIsPlaced
  <2>4. QED
    BY <2>2, <2>3 DEF SnippetInv
<1>8. QED
  BY <1>6, <1>7

LEMMA MathComparisonMeans ==
  ASSUME MathComparison
  PROVE  SnippetInv'
<1>1. PICK x \in ValuesOf(UInt(7)), y \in ValuesOf(SInt(9)) :
        \/ Runs("equal", <<x, y>>, UInt(1), AsUint1(MathEq(x, y)))
        \/ Runs("less", <<x, y>>, UInt(1), AsUint1(MathLt(x, y)))
        \/ Runs("less", <<y, x>>, UInt(1), AsUint1(MathLt(y, x)))
  BY DEF MathComparison
<1>2. UInt(7) \in Types /\ SInt(9) \in Types /\ UInt(7).w = 7 /\ SInt(9).w = 9
  <2>1. 7 \in Widths /\ 9 \in Widths
    BY SnippetWidths
  <2>2. QED
    BY <2>1, TypeParts
<1>3. x \in Terms /\ x.w = 7 /\ y \in Terms /\ y.w = 9
  BY <1>1, <1>2, VariableOf
<1>4. CommonWidth(x, y) <= MaxWidth /\ CommonWidth(y, x) <= MaxWidth
  <2>1. x.w = 7 /\ y.w = 9 /\ 16 <= MaxWidth /\ MaxWidth \in Nat
    BY <1>3, SnippetWidths
  <2>2. QED
    BY <2>1 DEF CommonWidth, Wider
<1>5. CASE Runs("equal", <<x, y>>, UInt(1), AsUint1(MathEq(x, y)))
  <2>1. PICK name, is : name = "equal" /\ is = IF MathEq(x, y) THEN TRUE ELSE FALSE
    OBVIOUS
  <2>2. is \in BOOLEAN /\ (is <=> Num(x) = Num(y))
    BY <1>3, <1>4, <2>1, MathComparisonsAreExact
  <2>3. AsUint1(is) = AsUint1(MathEq(x, y))
    BY <2>1 DEF AsUint1
  <2>4. QED
    BY <1>3, <1>5, <2>1, <2>2, <2>3, ComparisonIsMeant
<1>6. CASE Runs("less", <<x, y>>, UInt(1), AsUint1(MathLt(x, y)))
  <2>1. PICK name, is : name = "less" /\ is = IF MathLt(x, y) THEN TRUE ELSE FALSE
    OBVIOUS
  <2>2. is \in BOOLEAN /\ (is <=> Num(x) < Num(y))
    BY <1>3, <1>4, <2>1, MathComparisonsAreExact
  <2>3. AsUint1(is) = AsUint1(MathLt(x, y))
    BY <2>1 DEF AsUint1
  <2>4. QED
    BY <1>3, <1>6, <2>1, <2>2, <2>3, ComparisonIsMeant
<1>7. CASE Runs("less", <<y, x>>, UInt(1), AsUint1(MathLt(y, x)))
  <2>1. PICK name, is : name = "less" /\ is = IF MathLt(y, x) THEN TRUE ELSE FALSE
    OBVIOUS
  <2>2. is \in BOOLEAN /\ (is <=> Num(y) < Num(x))
    BY <1>3, <1>4, <2>1, MathComparisonsAreExact
  <2>3. AsUint1(is) = AsUint1(MathLt(y, x))
    BY <2>1 DEF AsUint1
  <2>4. QED
    BY <1>3, <1>7, <2>1, <2>2, <2>3, ComparisonIsMeant
<1>8. QED
  BY <1>1, <1>5, <1>6, <1>7

\* A safe cast keeps the number.
LEMMA SafeCastMeans ==
  ASSUME SafeCast
  PROVE  SnippetInv'
<1>1. PICK x \in ValuesOf(UInt(8)) :
        /\ SafeCastCompiles(x, 16, FALSE)
        /\ Runs("keep", <<x>>, UInt(16), UnsafeCast(x, 16, FALSE))
  BY DEF SafeCast
<1>2. PICK w, f, v : w = 16 /\ f = FALSE /\ v = UnsafeCast(x, w, f)
  OBVIOUS
<1>3. w \in Widths /\ f \in BOOLEAN /\ 8 \in Widths
  <2>1. 16 \in Widths /\ 8 \in Widths
    BY SnippetWidths
  <2>2. QED
    BY <1>2, <2>1
<1>4. x \in Terms
  BY <1>1, <1>3, UnsignedVariable
<1>5. SafeCastCompiles(x, w, f)
  BY <1>1, <1>2
<1>6. Num(x) \in ValueSet(w, f)
  BY <1>3, <1>4, <1>5, SafeCastIsInclusion, NumType
<1>7. Num(v) = Num(x) /\ v.w = w /\ v.s = f
  BY <1>2, <1>3, <1>4, <1>6, CastKeeps, UnsafeCastIsWrap
<1>8. SameType(v, UInt(16))
  BY <1>2, <1>7 DEF SameType, UInt
<1>9. Runs("keep", <<x>>, UInt(16), v)
  BY <1>1, <1>2
<1>10. LinesComputeTheirMeaning'
  BY <1>7, <1>8, <1>9 DEF Runs, LinesComputeTheirMeaning
<1>11. EveryBitIsPlaced'
  BY <1>9 DEF Runs, EveryBitIsPlaced
<1>12. QED
  BY <1>10, <1>11 DEF SnippetInv

\* A cast to any type is congruent modulo its width.
LEMMA CastIsMeant ==
  ASSUME NEW x \in Terms, NEW t \in Types, Runs("wrap", <<x>>, t, UnsafeCast(x, t.w, t.s))
  PROVE  SnippetInv'
<1>1. PICK v : v = UnsafeCast(x, t.w, t.s)
  OBVIOUS
<1>2. t.w \in Widths /\ t.s \in BOOLEAN
  BY DEF Types
<1>3. v.w = t.w /\ v.s = t.s /\ (Num(v) - Num(x)) % Pow2[t.w] = 0
  BY <1>1, <1>2, UnsafeCastIsWrap, CastIsCongruent
<1>4. SameType(v, t)
  BY <1>3 DEF SameType
<1>5. Runs("wrap", <<x>>, t, v)
  BY <1>1
<1>6. LinesComputeTheirMeaning'
  BY <1>3, <1>4, <1>5 DEF Runs, LinesComputeTheirMeaning
<1>7. EveryBitIsPlaced'
  BY <1>5 DEF Runs, EveryBitIsPlaced
<1>8. QED
  BY <1>6, <1>7 DEF SnippetInv

LEMMA UnsafeCastsMean ==
  ASSUME UnsafeCasts
  PROVE  SnippetInv'
<1>1. PICK x \in ValuesOf(UInt(16)), t \in {UInt(8), UInt(WideWidth), SInt(16)} :
        Runs("wrap", <<x>>, t, UnsafeCast(x, t.w, t.s))
  BY DEF UnsafeCasts
<1>2. 16 \in Widths /\ 8 \in Widths /\ WideWidth \in Widths
  BY SnippetWidths
<1>3. x \in Terms
  BY <1>1, <1>2, UnsignedVariable
<1>4. t \in Types
  BY <1>1, <1>2, TypeParts
<1>5. QED
  BY <1>1, <1>3, <1>4, CastIsMeant

LEMMA SignednessMeans ==
  ASSUME Signedness
  PROVE  SnippetInv'
<1>1. PICK x \in ValuesOf(SInt(8)) \cup ValuesOf(UInt(8)) :
        Runs("wrap", <<x>>, [w |-> 8, s |-> ~x.s], UnsafeCast(x, 8, ~x.s))
  BY DEF Signedness
<1>2. x \in Terms
  BY <1>1, ByteVariable
<1>3. PICK t : t = [w |-> 8, s |-> ~x.s]
  OBVIOUS
<1>4. t \in Types /\ t.w = 8 /\ t.s = ~x.s
  <2>1. 8 \in Widths
    BY SnippetWidths
  <2>2. QED
    BY <1>3, <2>1 DEF Types
<1>5. Runs("wrap", <<x>>, t, UnsafeCast(x, t.w, t.s))
  BY <1>1, <1>3, <1>4
<1>6. QED
  BY <1>2, <1>4, <1>5, CastIsMeant

\* The concrete operand becomes the term of its number.
LEMMA MixedSumMeans ==
  ASSUME MixedSum
  PROVE  SnippetInv'
<1>1. PICK c : c = [w |-> 8, s |-> FALSE, x |-> 42]
  OBVIOUS
<1>2. PICK x \in ValuesOf(UInt(8)) : Runs("add", <<x, ToSymbolic(c)>>, UInt(9), Plus(x, ToSymbolic(c)))
  BY <1>1 DEF MixedSum
<1>3. 8 \in Widths
  BY SnippetWidths
<1>4. c.w \in Widths /\ c.w = 8 /\ c.s \in BOOLEAN /\ ~c.s /\ c.x \in ValueSet(c.w, c.s)
  <2>1. c.w = 8 /\ c.s = FALSE /\ c.x = 42
    BY <1>1
  <2>2. 42 \in ValueSet(8, FALSE)
    BY SmallPowers DEF ValueSet
  <2>3. QED
    BY <1>3, <2>1, <2>2
<1>5. PICK y : y = ToSymbolic(c)
  OBVIOUS
<1>6. y \in Terms /\ y.w = 8 /\ ~y.s
  BY <1>4, <1>5, ToSymbolicIsExact
<1>7. x \in Terms /\ x.w = 8 /\ ~x.s
  BY <1>2, <1>3, UnsignedVariable
<1>8. ArithResultWidth(x, y) = 9 /\ 9 <= MaxWidth
  <2>1. x.s \in BOOLEAN /\ y.s \in BOOLEAN
    BY <1>6, <1>7, TermParts
  <2>2. x.s = y.s
    BY <1>6, <1>7, <2>1
  <2>3. ArithResultWidth(x, y) = 9
    BY <1>6, <1>7, <2>2 DEF ArithResultWidth, Wider
  <2>4. QED
    BY <2>3, SnippetWidths
<1>9. PICK t : t = UInt(9)
  OBVIOUS
<1>10. t.w = ArithResultWidth(x, y) /\ t.s \in BOOLEAN /\ (t.s <=> x.s \/ y.s)
  <2>1. t.w = 9 /\ t.s = FALSE
    BY <1>9 DEF UInt
  <2>2. QED
    BY <1>6, <1>7, <1>8, <2>1
<1>11. Runs("add", <<x, y>>, t, Plus(x, y))
  BY <1>2, <1>5, <1>9
<1>12. QED
  BY <1>6, <1>7, <1>8, <1>10, <1>11, SumIsMeant

\* Every line on numbers.
LEMMA NumbersMean ==
  ASSUME NumberLines
  PROVE  SnippetInv'
BY AdditionMeans, SubtractionMeans, NegationMeans, LeftShiftMeans, RightShiftMeans,
   SymbolicExtractionMeans, MathComparisonMeans, SafeCastMeans, UnsafeCastsMean,
   SignednessMeans, MixedSumMeans
   DEF NumberLines

-----------------------------------------------------------------------------
(* The usage snippets on bits *)

\* A variable of a line on bits is a word of its type.
LEMMA VectorOf ==
  ASSUME NEW w \in 1 .. 32, NEW s \in BOOLEAN, NEW t, t.w = w, t.s = s, t \in W32!Types,
         NEW x \in VecsOf(t)
  PROVE  x.w = w /\ x.s = s /\ x.b \subseteq 0 .. (w - 1)
<1>1. x \in W32!Terms /\ SameType(x, t)
  BY SnippetAssumption
<1>2. QED
  BY <1>1 DEF SameType, W32!Terms, W32!Words, W32!Positions

LEMMA VectorTypes ==
  ASSUME NEW w \in 1 .. 32
  PROVE  /\ UInt(w) \in W32!Types /\ SInt(w) \in W32!Types
         /\ \A x \in VecsOf(UInt(w)) : x.w = w /\ ~x.s /\ x.s \in BOOLEAN /\ x.b \subseteq 0 .. (w - 1)
         /\ \A x \in VecsOf(SInt(w)) : x.w = w /\ x.s /\ x.s \in BOOLEAN /\ x.b \subseteq 0 .. (w - 1)
<1>1. /\ UInt(w) \in W32!Types /\ UInt(w).w = w /\ UInt(w).s = FALSE
      /\ SInt(w) \in W32!Types /\ SInt(w).w = w /\ SInt(w).s = TRUE
  BY DEF W32!Types, W32!Widths, UInt, SInt
<1>2. ASSUME NEW x \in VecsOf(UInt(w))
      PROVE  x.w = w /\ x.s = FALSE /\ x.b \subseteq 0 .. (w - 1)
  BY <1>1, VectorOf
<1>3. ASSUME NEW x \in VecsOf(SInt(w))
      PROVE  x.w = w /\ x.s = TRUE /\ x.b \subseteq 0 .. (w - 1)
  BY <1>1, VectorOf
<1>4. QED
  BY <1>1, <1>2, <1>3

\* A word of at most eight bits is a number.
LEMMA SmallNumberType ==
  ASSUME NEW bits \in SUBSET (0 .. 7)
  PROVE  SmallNumber[bits] \in Nat
BY SnippetAssumption

\* Where the bits of the word v, the result of a line, come from.
Placed(name, xs, v) ==
    \A i \in 0 .. v.w - 1 :
       (i \in v.b) =
         CASE name = "not"     -> i \notin xs[1].b
           [] name = "and"     -> i \in xs[1].b /\ i \in xs[2].b
           [] name = "or"      -> i \in xs[1].b \/ i \in xs[2].b
           [] name = "xor"     -> (i \in xs[1].b) # (i \in xs[2].b)
           [] name = "rotl"    -> \E k \in xs[1].b : i = Around(k, xs[2], v.w)
           [] name = "rotr"    -> Around(i, xs[2], v.w) \in xs[1].b
           [] name = "extract" -> i + xs[2] \in xs[1].b
           [] name = "replace" ->
                 IF i - xs[3] \in 0 .. xs[2].w - 1 THEN i - xs[3] \in xs[2].b ELSE i \in xs[1].b
           [] name = "concat"  ->
                 \/ i - (v.w - xs[1].w - xs[2].w) - xs[2].w \in xs[1].b
                 \/ i - (v.w - xs[1].w - xs[2].w) \in xs[2].b
                 \/ i < v.w - xs[1].w - xs[2].w /\ i \in xs[3].b

\* What is left to show of a line on bits.
LEMMA PlacedBits ==
  ASSUME NEW name, NEW xs, NEW t, NEW v, Runs(name, xs, t, v), SameType(v, t),
         name \in {"not", "and", "or", "xor", "rotl", "rotr", "extract", "replace", "concat"},
         Placed(name, xs, v)
  PROVE  SnippetInv'
<1>1. line' = name /\ operands' = xs /\ declared' = t /\ result' = v
  BY DEF Runs
<1>2. LinesComputeTheirMeaning'
  BY <1>1 DEF LinesComputeTheirMeaning
<1>3. EveryBitIsPlaced'
  BY <1>1, Zenon DEF EveryBitIsPlaced, Placed
<1>4. QED
  BY <1>2, <1>3 DEF SnippetInv

\* The type of a byte of the lines.
LEMMA ByteType ==
  ASSUME NEW t \in {UInt(8), SInt(8)}, NEW x \in VecsOf(t)
  PROVE  t.w = 8 /\ x.w = 8 /\ x.s = t.s /\ x.b \subseteq 0 .. 7
<1>1. PICK w : w \in 1 .. 32 /\ w = 8
  OBVIOUS
<1>2. t.w = w /\ t.s \in BOOLEAN /\ t \in W32!Types
  <2>1. t = UInt(w) \/ t = SInt(w)
    BY <1>1
  <2>2. UInt(w) \in W32!Types /\ SInt(w) \in W32!Types
    BY <1>1, VectorTypes
  <2>3. UInt(w).w = w /\ SInt(w).w = w /\ UInt(w).s = FALSE /\ SInt(w).s = TRUE
    BY DEF UInt, SInt
  <2>4. t.s \in BOOLEAN
    BY <2>1, <2>3
  <2>5. QED
    BY <2>1, <2>2, <2>3, <2>4
<1>3. x.w = w /\ x.s = t.s /\ x.b \subseteq 0 .. (w - 1)
  BY <1>1, <1>2, VectorOf
<1>4. QED
  BY <1>1, <1>2, <1>3

LEMMA BitwisePlaces ==
  ASSUME Bitwise
  PROVE  SnippetInv'
<1>1. PICK t \in {UInt(8), SInt(8)} : \E x, y \in VecsOf(t) :
       \/ y = x /\ Runs("not", <<x>>, t, W32!Vec(8, t.s, W32!Complement(8, x.b)))
       \/ Runs("and", <<x, y>>, t, W32!Vec(8, t.s, x.b \cap y.b))
       \/ Runs("or", <<x, y>>, t, W32!Vec(8, t.s, x.b \cup y.b))
       \/ Runs("xor", <<x, y>>, t, W32!Vec(8, t.s, W32!Differ(x.b, y.b)))
  BY DEF Bitwise
<1>2. PICK x, y \in VecsOf(t) :
       \/ y = x /\ Runs("not", <<x>>, t, W32!Vec(8, t.s, W32!Complement(8, x.b)))
       \/ Runs("and", <<x, y>>, t, W32!Vec(8, t.s, x.b \cap y.b))
       \/ Runs("or", <<x, y>>, t, W32!Vec(8, t.s, x.b \cup y.b))
       \/ Runs("xor", <<x, y>>, t, W32!Vec(8, t.s, W32!Differ(x.b, y.b)))
  BY <1>1
<1>3. t.w = 8
  BY ByteType
<1>4. ASSUME NEW bits, NEW v, v = W32!Vec(8, t.s, bits)
      PROVE  SameType(v, t) /\ v.b = bits /\ v.w = 8
  BY <1>3, <1>4 DEF SameType, W32!Vec
<1>5. CASE Runs("not", <<x>>, t, W32!Vec(8, t.s, W32!Complement(8, x.b)))
  <2>1. PICK v, name, xs : /\ v = W32!Vec(8, t.s, W32!Complement(8, x.b))
                           /\ name = "not" /\ xs = <<x>>
    OBVIOUS
  <2>2. SameType(v, t) /\ v.w = 8 /\ v.b = (0 .. 7) \ x.b /\ xs[1] = x
    BY <1>4, <2>1 DEF W32!Complement, W32!Positions
  <2>3. Placed(name, xs, v)
    BY <2>1, <2>2 DEF Placed
  <2>4. QED
    BY <1>5, <2>1, <2>2, <2>3, PlacedBits
<1>6. CASE Runs("and", <<x, y>>, t, W32!Vec(8, t.s, x.b \cap y.b))
  <2>1. PICK v, name, xs : v = W32!Vec(8, t.s, x.b \cap y.b) /\ name = "and" /\ xs = <<x, y>>
    OBVIOUS
  <2>2. SameType(v, t) /\ v.b = x.b \cap y.b /\ xs[1] = x /\ xs[2] = y
    BY <1>4, <2>1
  <2>3. Placed(name, xs, v)
    BY <2>1, <2>2 DEF Placed
  <2>4. QED
    BY <1>6, <2>1, <2>2, <2>3, PlacedBits
<1>7. CASE Runs("or", <<x, y>>, t, W32!Vec(8, t.s, x.b \cup y.b))
  <2>1. PICK v, name, xs : v = W32!Vec(8, t.s, x.b \cup y.b) /\ name = "or" /\ xs = <<x, y>>
    OBVIOUS
  <2>2. SameType(v, t) /\ v.b = x.b \cup y.b /\ xs[1] = x /\ xs[2] = y
    BY <1>4, <2>1
  <2>3. Placed(name, xs, v)
    <3>1. \A i : (i \in v.b) = (i \in xs[1].b \/ i \in xs[2].b)
      BY <2>2
    <3>2. QED
      BY <2>1, <3>1, Zenon DEF Placed
  <2>4. QED
    BY <1>7, <2>1, <2>2, <2>3, PlacedBits
<1>8. CASE Runs("xor", <<x, y>>, t, W32!Vec(8, t.s, W32!Differ(x.b, y.b)))
  <2>1. PICK v, name, xs : v = W32!Vec(8, t.s, W32!Differ(x.b, y.b)) /\ name = "xor" /\ xs = <<x, y>>
    OBVIOUS
  <2>2. SameType(v, t) /\ v.b = (x.b \ y.b) \cup (y.b \ x.b) /\ xs[1] = x /\ xs[2] = y
    BY <1>4, <2>1 DEF W32!Differ
  <2>3. Placed(name, xs, v)
    BY <2>1, <2>2 DEF Placed
  <2>4. QED
    BY <1>8, <2>1, <2>2, <2>3, PlacedBits
<1>9. QED
  BY <1>2, <1>5, <1>6, <1>7, <1>8

\* The remainder of a number by eight.
LEMMA TurnBack ==
  ASSUME NEW i \in 0 .. 7, NEW k \in 0 .. 7, NEW n \in Nat
  PROVE  i = (k - n) % 8 <=> k = (i + n) % 8
<1>1. PICK q \in Int, m \in 0 .. 7 : n = 8 * q + m
  <2>1. n \div 8 \in Int /\ n % 8 \in 0 .. 7 /\ n = 8 * (n \div 8) + (n % 8)
    OBVIOUS
  <2>2. QED
    BY <2>1
<1>2. (k - n) % 8 = (k - m) % 8 /\ (i + n) % 8 = (i + m) % 8
  BY <1>1
<1>3. QED
  BY <1>1, <1>2

\* The amounts of the rotations.
LEMMA Amount ==
  ASSUME NEW n \in VecsOf(UInt(3))
  PROVE  n.w = 3 /\ SmallNumber[n.b] \in Nat
<1>1. PICK w : w \in 1 .. 32 /\ w = 3
  OBVIOUS
<1>2. n.w = w /\ n.b \subseteq 0 .. (w - 1)
  BY <1>1, VectorTypes
<1>3. n.b \in SUBSET (0 .. 7)
  <2>1. 0 .. 2 \subseteq 0 .. 7
    OBVIOUS
  <2>2. n.b \subseteq 0 .. 2
    BY <1>1, <1>2
  <2>3. QED
    BY <2>1, <2>2
<1>4. QED
  BY <1>1, <1>2, <1>3, SmallNumberType

\* A word of a byte turned by a number.
LEMMA LeftTurned ==
  ASSUME NEW t \in {UInt(8), SInt(8)}, NEW x \in VecsOf(t), NEW m,
         Runs("rotl", <<x, m>>, t, W32!RotlConst(x, m))
  PROVE  SnippetInv'
<1>1. PICK v, name, xs : v = W32!RotlConst(x, m) /\ name = "rotl" /\ xs = <<x, m>>
  OBVIOUS
<1>2. v.w = x.w /\ v.s = x.s /\ v.b = {(i + m) % x.w : i \in x.b}
  BY <1>1 DEF W32!RotlConst, W32!Vec, W32!RotateLeft
<1>3. SameType(v, t)
  BY <1>2, ByteType DEF SameType
<1>4. xs[1] = x /\ xs[2] = m
  BY <1>1
<1>5. ASSUME NEW i
      PROVE  i \in v.b <=> \E k \in xs[1].b : i = Around(k, xs[2], v.w)
  <2>1. \A k : Around(k, xs[2], v.w) = (k + m) % x.w
    BY <1>2, <1>4 DEF Around
  <2>2. i \in v.b <=> \E k \in x.b : i = (k + m) % x.w
    BY <1>2
  <2>3. QED
    BY <1>4, <2>1, <2>2
<1>6. Placed(name, xs, v)
  <2>1. ASSUME NEW i
        PROVE  (i \in v.b) = (\E k \in xs[1].b : i = Around(k, xs[2], v.w))
    <3>1. CASE i \in v.b
      <4>1. (i \in v.b) = TRUE
        BY <3>1
      <4>2. (\E k \in xs[1].b : i = Around(k, xs[2], v.w)) = TRUE
        BY <1>5, <3>1, Zenon
      <4>3. QED
        BY <4>1, <4>2, Zenon
    <3>2. CASE i \notin v.b
      <4>1. (i \in v.b) = FALSE
        BY <3>2
      <4>2. (\E k \in xs[1].b : i = Around(k, xs[2], v.w)) = FALSE
        BY <1>5, <3>2, Zenon
      <4>3. QED
        BY <4>1, <4>2, Zenon
    <3>3. QED
      BY <3>1, <3>2
  <2>2. QED
    BY <1>1, <2>1, Zenon DEF Placed
<1>7. QED
  BY <1>1, <1>3, <1>6, PlacedBits

LEMMA RightTurned ==
  ASSUME NEW t \in {UInt(8), SInt(8)}, NEW x \in VecsOf(t), NEW m \in Nat,
         Runs("rotr", <<x, m>>, t, W32!RotrConst(x, m))
  PROVE  SnippetInv'
<1>1. PICK v, name, xs : v = W32!RotrConst(x, m) /\ name = "rotr" /\ xs = <<x, m>>
  OBVIOUS
<1>2. v.w = x.w /\ v.s = x.s /\ v.b = {(k - m) % x.w : k \in x.b}
  BY <1>1 DEF W32!RotrConst, W32!Vec, W32!RotateRight
<1>3. SameType(v, t) /\ x.w = 8 /\ x.b \subseteq 0 .. 7
  BY <1>2, ByteType DEF SameType
<1>4. xs[1] = x /\ xs[2] = m
  BY <1>1
<1>5. ASSUME NEW i \in 0 .. 7
      PROVE  (i \in v.b) = (Around(i, xs[2], v.w) \in xs[1].b)
  <2>1. PICK k : k = (i + m) % 8 /\ k \in 0 .. 7
    OBVIOUS
  <2>2. Around(i, xs[2], v.w) = k
    BY <1>2, <1>3, <1>4, <2>1 DEF Around
  <2>3. ASSUME i \in v.b PROVE k \in x.b
    <3>1. PICK h \in x.b : i = (h - m) % 8
      BY <1>2, <1>3, <2>3
    <3>2. h \in 0 .. 7
      BY <1>3
    <3>3. h = (i + m) % 8
      BY <3>1, <3>2, TurnBack
    <3>4. QED
      BY <2>1, <3>3
  <2>4. ASSUME k \in x.b PROVE i \in v.b
    <3>1. i = (k - m) % 8
      BY <2>1, TurnBack
    <3>2. QED
      BY <1>2, <1>3, <2>4, <3>1
  <2>5. QED
    BY <1>4, <2>2, <2>3, <2>4
<1>6. Placed(name, xs, v)
  <2>1. \A i \in 0 .. v.w - 1 : i \in 0 .. 7
    BY <1>2, <1>3
  <2>2. \A i \in 0 .. v.w - 1 : (i \in v.b) = (Around(i, xs[2], v.w) \in xs[1].b)
    BY <1>5, <2>1
  <2>3. QED
    BY <1>1, <2>2, Zenon DEF Placed
<1>7. QED
  BY <1>1, <1>3, <1>6, PlacedBits

\* A rotation by a word is one by its number, which is cut to no fewer bits.
LEMMA RotationsPlace ==
  ASSUME RotationLeft \/ RotationRight
  PROVE  SnippetInv'
<1>1. ASSUME NEW t \in {UInt(8), SInt(8)}, NEW x \in VecsOf(t), NEW n \in VecsOf(UInt(3))
      PROVE  /\ W32!RotlBy(x, n) = W32!RotlConst(x, SmallNumber[n.b])
             /\ W32!RotrBy(x, n) = W32!RotrConst(x, SmallNumber[n.b])
             /\ SmallNumber[n.b] \in Nat
  <2>1. n.w = 3 /\ x.w = 8 /\ SmallNumber[n.b] \in Nat
    BY Amount, ByteType
  <2>2. W32!ToWidth(x.w, n) = n.b
    BY <2>1 DEF W32!ToWidth
  <2>3. QED
    BY <2>1, <2>2 DEF W32!RotlBy, W32!RotrBy
<1>2. CASE RotationLeft
  <2>1. PICK t \in {UInt(8), SInt(8)} : \E x \in VecsOf(t), n \in VecsOf(UInt(3)) :
          \/ Runs("rotl", <<x, 3>>, t, W32!RotlConst(x, 3))
          \/ Runs("rotl", <<x, SmallNumber[n.b]>>, t, W32!RotlBy(x, n))
    BY <1>2 DEF RotationLeft
  <2>2. PICK x \in VecsOf(t), n \in VecsOf(UInt(3)) :
          \/ Runs("rotl", <<x, 3>>, t, W32!RotlConst(x, 3))
          \/ Runs("rotl", <<x, SmallNumber[n.b]>>, t, W32!RotlBy(x, n))
    BY <2>1
  <2>3. PICK m : Runs("rotl", <<x, m>>, t, W32!RotlConst(x, m))
    BY <1>1, <2>2
  <2>4. QED
    BY <2>3, LeftTurned
<1>3. CASE RotationRight
  <2>1. PICK t \in {UInt(8), SInt(8)} : \E x \in VecsOf(t), n \in VecsOf(UInt(3)) :
          \/ Runs("rotr", <<x, 3>>, t, W32!RotrConst(x, 3))
          \/ Runs("rotr", <<x, SmallNumber[n.b]>>, t, W32!RotrBy(x, n))
    BY <1>3 DEF RotationRight
  <2>2. PICK x \in VecsOf(t), n \in VecsOf(UInt(3)) :
          \/ Runs("rotr", <<x, 3>>, t, W32!RotrConst(x, 3))
          \/ Runs("rotr", <<x, SmallNumber[n.b]>>, t, W32!RotrBy(x, n))
    BY <2>1
  <2>3. PICK m : m \in Nat /\ Runs("rotr", <<x, m>>, t, W32!RotrConst(x, m))
    BY <1>1, <2>2
  <2>4. QED
    BY <2>3, RightTurned
<1>4. QED
  BY <1>2, <1>3

\* A word cut out of a word.
LEMMA CutOut ==
  ASSUME NEW src, NEW w \in 1 .. 32, NEW lo \in Nat, lo + w <= 32,
         src.b \subseteq 0 .. 31,
         Runs("extract", <<src, lo>>, UInt(w), W32!ExtractFrom(src, w, lo))
  PROVE  SnippetInv'
<1>1. PICK v, name, xs : v = W32!ExtractFrom(src, w, lo) /\ name = "extract" /\ xs = <<src, lo>>
  OBVIOUS
<1>2. v.w = w /\ v.s = FALSE /\ v.b = {k - lo : k \in src.b \cap (lo .. lo + w - 1)}
  BY <1>1 DEF W32!ExtractFrom, W32!Vec, W32!Slice
<1>3. SameType(v, UInt(w))
  BY <1>2 DEF SameType, UInt
<1>4. xs[1] = src /\ xs[2] = lo
  BY <1>1
<1>5. ASSUME NEW i \in 0 .. w - 1
      PROVE  i \in v.b <=> i + lo \in src.b
  <2>1. ASSUME i \in v.b PROVE i + lo \in src.b
    <3>1. PICK k \in src.b \cap (lo .. lo + w - 1) : i = k - lo
      BY <1>2, <2>1
    <3>2. k = i + lo
      BY <3>1
    <3>3. QED
      BY <3>1, <3>2
  <2>2. ASSUME i + lo \in src.b PROVE i \in v.b
    <3>1. PICK k : k = i + lo
      OBVIOUS
    <3>2. k \in src.b \cap (lo .. lo + w - 1) /\ i = k - lo
      BY <2>2, <3>1
    <3>3. QED
      BY <1>2, <3>2
  <2>3. QED
    BY <2>1, <2>2
<1>6. Placed(name, xs, v)
  <2>1. \A i \in 0 .. v.w - 1 : (i \in v.b) = (i + xs[2] \in xs[1].b)
    BY <1>2, <1>4, <1>5
  <2>2. QED
    BY <1>1, <2>1, Zenon DEF Placed
<1>7. QED
  BY <1>1, <1>3, <1>6, PlacedBits

LEMMA ExtractionsPlace ==
  ASSUME StaticExtraction \/ RuntimeExtraction
  PROVE  SnippetInv'
<1>1. ASSUME NEW src \in VecsOf(UInt(32))
      PROVE  src.b \subseteq 0 .. 31
  BY VectorTypes
<1>2. CASE StaticExtraction
  <2>1. PICK src \in VecsOf(UInt(32)), f \in {<<8, 24>>, <<4, 0>>, <<1, 5>>} :
          Runs("extract", <<src, f[2]>>, UInt(f[1]), W32!ExtractFrom(src, f[1], f[2]))
    BY <1>2 DEF StaticExtraction
  <2>2. f[1] \in 1 .. 32 /\ f[2] \in Nat /\ f[2] + f[1] <= 32
    OBVIOUS
  <2>3. PICK w, lo : w = f[1] /\ lo = f[2]
    OBVIOUS
  <2>4. QED
    BY <1>1, <2>1, <2>2, <2>3, CutOut
<1>3. CASE RuntimeExtraction
  <2>1. PICK src \in VecsOf(UInt(32)), w \in {4, 8} :
          Runs("extract", <<src, 4>>, UInt(w), W32!ExtractFrom(src, w, 4))
    BY <1>3 DEF RuntimeExtraction
  <2>2. PICK lo : lo = 4
    OBVIOUS
  <2>3. w \in 1 .. 32 /\ lo \in Nat /\ lo + w <= 32
    BY <2>2
  <2>4. QED
    BY <1>1, <2>1, <2>2, <2>3, CutOut
<1>4. QED
  BY <1>2, <1>3

\* A byte put into a word of 32 bits, so far as it fits.
LEMMA PutInto ==
  ASSUME NEW t, NEW src, NEW field, NEW lo \in Nat, NEW v,
         src.b \subseteq 0 .. 31, field.w = 8, v.w = 32, SameType(v, t),
         \A i \in 0 .. 31 : i \in v.b <=>
            IF i - lo \in 0 .. 7 THEN i - lo \in field.b ELSE i \in src.b,
         Runs("replace", <<src, field, lo>>, t, v)
  PROVE  SnippetInv'
<1>1. PICK name, xs : name = "replace" /\ xs = <<src, field, lo>>
  OBVIOUS
<1>2. xs[1] = src /\ xs[2] = field /\ xs[3] = lo
  BY <1>1
<1>3. \A i \in 0 .. v.w - 1 : (i \in v.b) =
         IF i - xs[3] \in 0 .. xs[2].w - 1 THEN i - xs[3] \in xs[2].b ELSE i \in xs[1].b
  BY <1>2
<1>4. Placed(name, xs, v)
  BY <1>1, <1>3, Zenon DEF Placed
<1>5. QED
  BY <1>1, <1>4, PlacedBits

\* A replacement at a place known to the program.
LEMMA ReplacedAt ==
  ASSUME NEW t, t.w = 32, NEW src, src.w = 32, src.s = t.s, src.b \subseteq 0 .. 31,
         NEW field, field.w = 8, field.b \subseteq 0 .. 7, NEW lo \in Nat, lo <= 24,
         Runs("replace", <<src, field, lo>>, t, W32!ReplaceAt(src, field, lo))
  PROVE  SnippetInv'
<1>1. PICK v, total, w : v = W32!ReplaceAt(src, field, lo) /\ total = 32 /\ w = 8
  OBVIOUS
<1>2. v.w = 32 /\ v.s = t.s /\ v.b = Put(total, src.b, lo, w, field.b)
  BY <1>1 DEF W32!ReplaceAt, W32!Vec, W32!Join, W32!Slice, Put
<1>3. SameType(v, t)
  BY <1>2 DEF SameType
<1>4. ASSUME NEW i \in 0 .. 31
      PROVE  i \in v.b <=> IF i - lo \in 0 .. 7 THEN i - lo \in field.b ELSE i \in src.b
  <2>1. /\ total \in Nat /\ w \in Nat \ {0} /\ lo + w <= total
        /\ src.b \in SUBSET (0 .. (total - 1)) /\ field.b \in SUBSET (0 .. (w - 1))
    BY <1>1
  <2>2. i \in v.b <=> IF i \in lo .. (lo + w - 1) THEN i - lo \in field.b ELSE i \in src.b
    BY <1>2, <2>1, FieldPut
  <2>3. i \in lo .. (lo + w - 1) <=> i - lo \in 0 .. 7
    BY <1>1
  <2>4. QED
    BY <2>2, <2>3
<1>5. QED
  BY <1>1, <1>2, <1>3, <1>4, PutInto

\* A word of the lines that replace.
LEMMA SourceType ==
  ASSUME NEW t \in {UInt(32), SInt(32)}, NEW src \in VecsOf(t), NEW field \in VecsOf(UInt(8))
  PROVE  /\ t.w = 32 /\ src.w = 32 /\ src.s = t.s /\ src.b \subseteq 0 .. 31
         /\ field.w = 8 /\ field.b \subseteq 0 .. 7
<1>1. PICK w : w \in 1 .. 32 /\ w = 32
  OBVIOUS
<1>2. t.w = w /\ t.s \in BOOLEAN /\ t \in W32!Types
  <2>1. t = UInt(w) \/ t = SInt(w)
    BY <1>1
  <2>2. UInt(w) \in W32!Types /\ SInt(w) \in W32!Types
    BY <1>1, VectorTypes
  <2>3. UInt(w).w = w /\ SInt(w).w = w /\ UInt(w).s = FALSE /\ SInt(w).s = TRUE
    BY DEF UInt, SInt
  <2>4. t.s \in BOOLEAN
    BY <2>1, <2>3
  <2>5. QED
    BY <2>1, <2>2, <2>3, <2>4
<1>3. src.w = w /\ src.s = t.s /\ src.b \subseteq 0 .. (w - 1)
  BY <1>1, <1>2, VectorOf
<1>4. field.w = 8 /\ field.b \subseteq 0 .. 7
  BY ByteType
<1>5. QED
  BY <1>1, <1>2, <1>3, <1>4

LEMMA ReplacementsPlace ==
  ASSUME Replacement \/ RuntimeReplacement
  PROVE  SnippetInv'
<1>1. ASSUME NEW t \in {UInt(32), SInt(32)}, NEW src \in VecsOf(t), NEW field \in VecsOf(UInt(8)),
             NEW lo \in {4, 13}, Runs("replace", <<src, field, lo>>, t, W32!ReplaceAt(src, field, lo))
      PROVE  SnippetInv'
  <2>1. lo \in Nat /\ lo <= 24
    OBVIOUS
  <2>2. QED
    BY <1>1, <2>1, SourceType, ReplacedAt
<1>2. PICK lo, at : lo = 13 /\ at = 4
  OBVIOUS
<1>3. CASE Replacement
  <2>1. PICK t \in {UInt(32), SInt(32)} : \E src \in VecsOf(t), field \in VecsOf(UInt(8)) :
          Runs("replace", <<src, field, lo>>, t, W32!ReplaceAt(src, field, lo))
    BY <1>2, <1>3 DEF Replacement
  <2>2. QED
    BY <1>1, <1>2, <2>1
<1>4. CASE RuntimeReplacement
  <2>1. PICK src \in VecsOf(UInt(32)), field \in VecsOf(UInt(8)) :
          Runs("replace", <<src, field, at>>, UInt(32), W32!ReplaceAt(src, field, at))
    BY <1>2, <1>4 DEF RuntimeReplacement
  <2>2. QED
    BY <1>1, <1>2, <2>1
<1>5. QED
  BY <1>3, <1>4

\* A replacement at a symbolic place: what does not fit is dropped.
LEMMA ReplacedBy ==
  ASSUME NEW t, t.w = 32, NEW src, src.w = 32, src.s = t.s, src.b \subseteq 0 .. 31,
         NEW field, field.w = 8, field.b \subseteq 0 .. 7,
         NEW lo, lo.w = 5, NEW n \in Nat, SmallNumber[lo.b] = n,
         Runs("replace", <<src, field, n>>, t, W32!ReplaceBy(src, field, lo))
  PROVE  SnippetInv'
<1>1. PICK v : v = W32!ReplaceBy(src, field, lo)
  OBVIOUS
<1>2. PICK mask, shifted : /\ mask = {i + n : i \in 0 .. 7} \cap (0 .. 31)
                           /\ shifted = {i + n : i \in field.b} \cap (0 .. 31)
  OBVIOUS
<1>3. v.w = 32 /\ v.s = t.s /\ v.b = (src.b \cap ((0 .. 31) \ mask)) \cup shifted
  <2>1. W32!Wider(src.w, lo.w) = 32
    BY DEF W32!Wider
  <2>2. /\ W32!ShiftUp(32, W32!Positions(field.w), n) = mask
        /\ W32!ShiftUp(32, field.b, n) = shifted
    BY <1>2 DEF W32!ShiftUp, W32!Positions
  <2>3. \A m : W32!Complement(32, m) = (0 .. 31) \ m
    BY DEF W32!Complement, W32!Positions
  <2>4. v = W32!Vec(src.w, src.s, (src.b \cap W32!Complement(32, mask)) \cup shifted)
    BY <1>1, <2>1, <2>2 DEF W32!ReplaceBy
  <2>5. QED
    BY <2>3, <2>4 DEF W32!Vec
<1>4. SameType(v, t)
  BY <1>3 DEF SameType
<1>5. ASSUME NEW i \in 0 .. 31
      PROVE  i \in v.b <=> IF i - n \in 0 .. 7 THEN i - n \in field.b ELSE i \in src.b
  <2>1. PICK k \in Int : k = i - n /\ i = k + n
    OBVIOUS
  <2>2. i \in mask <=> k \in 0 .. 7
    BY <1>2, <2>1
  <2>3. i \in shifted <=> k \in field.b
    <3>1. ASSUME i \in shifted PROVE k \in field.b
      <4>1. PICK h \in field.b : i = h + n
        BY <1>2, <3>1
      <4>2. h \in 0 .. 7
        OBVIOUS
      <4>3. h = k
        BY <2>1, <4>1, <4>2
      <4>4. QED
        BY <4>3
    <3>2. ASSUME k \in field.b PROVE i \in shifted
      BY <1>2, <2>1, <3>2
    <3>3. QED
      BY <3>1, <3>2
  <2>4. k \in field.b => k \in 0 .. 7
    OBVIOUS
  <2>5. QED
    BY <1>3, <2>1, <2>2, <2>3, <2>4
<1>6. QED
  BY <1>1, <1>3, <1>4, <1>5, PutInto

LEMMA SymbolicReplacementPlaces ==
  ASSUME SymbolicReplacement
  PROVE  SnippetInv'
<1>1. PICK t \in {UInt(32), SInt(32)} :
        \E src \in VecsOf(t), field \in VecsOf(UInt(8)), lo \in VecsOf(UInt(5)) :
           Runs("replace", <<src, field, SmallNumber[lo.b]>>, t, W32!ReplaceBy(src, field, lo))
  BY DEF SymbolicReplacement
<1>2. PICK src \in VecsOf(t), field \in VecsOf(UInt(8)), lo \in VecsOf(UInt(5)) :
        Runs("replace", <<src, field, SmallNumber[lo.b]>>, t, W32!ReplaceBy(src, field, lo))
  BY <1>1
<1>3. lo.w = 5 /\ SmallNumber[lo.b] \in Nat
  <2>1. PICK w : w \in 1 .. 32 /\ w = 5
    OBVIOUS
  <2>2. lo.w = w /\ lo.b \subseteq 0 .. (w - 1)
    BY <2>1, VectorTypes
  <2>3. lo.b \in SUBSET (0 .. 7)
    <3>1. 0 .. 4 \subseteq 0 .. 7 /\ lo.b \subseteq 0 .. 4
      BY <2>1, <2>2
    <3>2. QED
      BY <3>1
  <2>4. QED
    BY <2>1, <2>2, <2>3, SmallNumberType
<1>4. PICK n \in Nat : n = SmallNumber[lo.b]
  BY <1>3
<1>5. QED
  BY <1>2, <1>3, <1>4, SourceType, ReplacedBy

\* The first of the parts is on top.
LEMMA ConcatenationPlaces ==
  ASSUME Concatenation
  PROVE  SnippetInv'
<1>1. PICK flag \in BOOLEAN, u7 \in VecsOf(UInt(7)), s8 \in VecsOf(SInt(8)) :
        \/ Runs("concat", <<W32!AsUint1(flag), u7>>, UInt(8), W32!Concat(W32!AsUint1(flag), u7))
        \/ Runs("concat", <<W32!AsUint1(flag), u7, s8>>, UInt(16),
                W32!Concat(W32!Concat(W32!AsUint1(flag), u7), s8))
  BY DEF Concatenation
<1>2. PICK one, name : one = W32!AsUint1(flag) /\ name = "concat"
  OBVIOUS
<1>3. one.w = 1 /\ one.b \subseteq {0}
  BY <1>2 DEF W32!AsUint1, W32!Vec
<1>4. u7.w = 7 /\ u7.b \subseteq 0 .. 6 /\ s8.w = 8 /\ s8.b \subseteq 0 .. 7
  <2>1. PICK w : w \in 1 .. 32 /\ w = 7
    OBVIOUS
  <2>2. u7.w = w /\ u7.b \subseteq 0 .. (w - 1)
    BY <2>1, VectorTypes
  <2>3. s8.w = 8 /\ s8.b \subseteq 0 .. 7
    BY ByteType
  <2>4. QED
    BY <2>1, <2>2, <2>3
<1>5. PICK both : both = W32!Concat(one, u7)
  OBVIOUS
<1>6. both.w = 8 /\ both.s = FALSE /\ both.b = {i + 7 : i \in one.b} \cup u7.b
  BY <1>3, <1>4, <1>5 DEF W32!Concat, W32!Vec, W32!Join
<1>7. ASSUME NEW i \in Int
      PROVE  i \in both.b <=> i - 7 \in one.b \/ i \in u7.b
  <2>1. \A k \in one.b : k \in Int
    BY <1>3
  <2>2. i - 7 \in one.b => (i - 7) + 7 = i
    OBVIOUS
  <2>3. i \in {k + 7 : k \in one.b} <=> i - 7 \in one.b
    BY <2>1, <2>2
  <2>4. QED
    BY <1>6, <2>3
<1>8. CASE Runs("concat", <<W32!AsUint1(flag), u7>>, UInt(8), W32!Concat(W32!AsUint1(flag), u7))
  <2>1. PICK xs : xs = <<one, u7>>
    OBVIOUS
  <2>2. Runs(name, xs, UInt(8), both) /\ xs[1] = one /\ xs[2] = u7
    BY <1>2, <1>5, <1>8, <2>1
  <2>3. SameType(both, UInt(8))
    BY <1>6 DEF SameType, UInt
  <2>4. ASSUME NEW i \in 0 .. 7
        PROVE  /\ i - (both.w - xs[1].w - xs[2].w) - xs[2].w = i - 7
               /\ i - (both.w - xs[1].w - xs[2].w) = i
               /\ ~(i < both.w - xs[1].w - xs[2].w)
    BY <1>3, <1>4, <1>6, <2>2
  <2>5. ASSUME NEW i \in 0 .. both.w - 1
        PROVE  (i \in both.b) =
               \/ i - (both.w - xs[1].w - xs[2].w) - xs[2].w \in xs[1].b
               \/ i - (both.w - xs[1].w - xs[2].w) \in xs[2].b
               \/ i < both.w - xs[1].w - xs[2].w /\ i \in xs[3].b
    <3> DEFINE where == \/ i - (both.w - xs[1].w - xs[2].w) - xs[2].w \in xs[1].b
                        \/ i - (both.w - xs[1].w - xs[2].w) \in xs[2].b
                        \/ i < both.w - xs[1].w - xs[2].w /\ i \in xs[3].b
    <3>1. i \in both.b <=> where
      BY <1>6, <1>7, <2>2, <2>4
    <3> HIDE DEF where
    <3>2. CASE where
      <4>1. (i \in both.b) = TRUE /\ where = TRUE
        BY <3>1, <3>2, Zenon DEF where
      <4>2. QED
        BY <4>1, Zenon DEF where
    <3>3. CASE ~where
      <4>1. (i \in both.b) = FALSE
        BY <3>1, <3>3
      <4>2. where = FALSE
        BY <3>3, Zenon DEF where
      <4>3. QED
        BY <4>1, <4>2, Zenon DEF where
    <3>4. QED
      BY <3>2, <3>3
  <2>6. Placed(name, xs, both)
    BY <1>2, <2>5, Zenon DEF Placed
  <2>7. QED
    BY <1>2, <2>2, <2>3, <2>6, PlacedBits
<1>9. CASE Runs("concat", <<W32!AsUint1(flag), u7, s8>>, UInt(16),
                W32!Concat(W32!Concat(W32!AsUint1(flag), u7), s8))
  <2>1. PICK xs, v : xs = <<one, u7, s8>> /\ v = W32!Concat(both, s8)
    OBVIOUS
  <2>2. Runs(name, xs, UInt(16), v) /\ xs[1] = one /\ xs[2] = u7 /\ xs[3] = s8
    BY <1>2, <1>5, <1>9, <2>1
  <2>3. v.w = 16 /\ v.s = FALSE /\ v.b = {i + 8 : i \in both.b} \cup s8.b
    BY <1>4, <1>6, <2>1 DEF W32!Concat, W32!Vec, W32!Join
  <2>4. SameType(v, UInt(16))
    BY <2>3 DEF SameType, UInt
  <2>5. ASSUME NEW i \in 0 .. 15
        PROVE  /\ i - (v.w - xs[1].w - xs[2].w) - xs[2].w = i - 15
               /\ i - (v.w - xs[1].w - xs[2].w) = i - 8
               /\ i < v.w - xs[1].w - xs[2].w <=> i < 8
    BY <1>3, <1>4, <2>2, <2>3
  <2>6. ASSUME NEW i \in 0 .. 15
        PROVE  i \in v.b <=> i - 15 \in one.b \/ i - 8 \in u7.b \/ (i < 8 /\ i \in s8.b)
    <3>1. \A k \in both.b : k \in Int
      <4>1. \A k \in one.b : k + 7 \in Int
        BY <1>3
      <4>2. \A k \in u7.b : k \in Int
        BY <1>4
      <4>3. QED
        BY <1>6, <4>1, <4>2
    <3>2. i \in {k + 8 : k \in both.b} <=> i - 8 \in both.b
      <4>1. i - 8 \in both.b => (i - 8) + 8 = i
        OBVIOUS
      <4>2. ASSUME i \in {k + 8 : k \in both.b} PROVE i - 8 \in both.b
        <5>1. PICK k \in both.b : i = k + 8
          BY <4>2
        <5>2. k = i - 8
          BY <3>1, <5>1
        <5>3. QED
          BY <5>2
      <4>3. QED
        BY <4>1, <4>2
    <3>3. (i - 8) - 7 = i - 15 /\ i - 8 \in Int
      OBVIOUS
    <3>4. i - 8 \in both.b <=> i - 15 \in one.b \/ i - 8 \in u7.b
      BY <1>7, <3>3
    <3>5. i \in s8.b => i < 8
      BY <1>4
    <3>6. QED
      BY <2>3, <3>2, <3>4, <3>5
  <2>7. ASSUME NEW i \in 0 .. v.w - 1
        PROVE  (i \in v.b) =
               \/ i - (v.w - xs[1].w - xs[2].w) - xs[2].w \in xs[1].b
               \/ i - (v.w - xs[1].w - xs[2].w) \in xs[2].b
               \/ i < v.w - xs[1].w - xs[2].w /\ i \in xs[3].b
    <3> DEFINE where == \/ i - (v.w - xs[1].w - xs[2].w) - xs[2].w \in xs[1].b
                        \/ i - (v.w - xs[1].w - xs[2].w) \in xs[2].b
                        \/ i < v.w - xs[1].w - xs[2].w /\ i \in xs[3].b
    <3>1. i \in v.b <=> where
      BY <2>2, <2>3, <2>5, <2>6
    <3> HIDE DEF where
    <3>2. CASE where
      <4>1. (i \in v.b) = TRUE /\ where = TRUE
        BY <3>1, <3>2, Zenon DEF where
      <4>2. QED
        BY <4>1, Zenon DEF where
    <3>3. CASE ~where
      <4>1. (i \in v.b) = FALSE
        BY <3>1, <3>3
      <4>2. where = FALSE
        BY <3>3, Zenon DEF where
      <4>3. QED
        BY <4>1, <4>2, Zenon DEF where
    <3>4. QED
      BY <3>2, <3>3
  <2>8. Placed(name, xs, v)
    BY <1>2, <2>7, Zenon DEF Placed
  <2>9. QED
    BY <1>2, <2>2, <2>4, <2>8, PlacedBits
<1>10. QED
  BY <1>1, <1>8, <1>9

\* Every line on bits.
LEMMA BitsArePlacedRight ==
  ASSUME BitLines
  PROVE  SnippetInv'
BY BitwisePlaces, RotationsPlace, ExtractionsPlace, ReplacementsPlace,
   SymbolicReplacementPlaces, ConcatenationPlaces
   DEF BitLines

-----------------------------------------------------------------------------
(* The invariant *)

\* What holds in every state: of the circuit that is built, of the packet, and
\* of the line that has run.
IInv == CircuitInv /\ ViewInv /\ SnippetInv

\* Each example starts with its part of the invariant, the others being idle.
LEMMA InitEstablishes == Init => IInv
<1>1. NoCircuit => CircuitInv
  BY DEF NoCircuit, CircuitInv
<1>2. CircuitInit => CircuitInv
  BY AdderStarts, MultiplierStarts, ShifterStarts DEF CircuitInit
<1>3. NoView \/ ViewInit => ViewInv
  <2>1. NoView => buffer = {}
    BY DEF NoView
  <2>2. ViewInit => buffer \in InitialBuffers
    BY DEF ViewInit
  <2>3. QED
    BY <2>1, <2>2, ViewAssumption DEF ViewInv
<1>4. NoSnippet \/ SnippetInit => SnippetInv
  <2>1. NoSnippet \/ SnippetInit => line = "none" \/ line = "main"
    BY DEF NoSnippet, SnippetInit
  <2>2. QED
    BY <2>1 DEF SnippetInv, LinesComputeTheirMeaning, EveryBitIsPlaced
<1>5. QED
  BY <1>1, <1>2, <1>3, <1>4 DEF Init, IInv

\* What is not changed keeps its part of the invariant.
LEMMA CircuitStays ==
  ASSUME CircuitInv, UNCHANGED circuitVars
  PROVE  CircuitInv'
<1>1. /\ circuit' = circuit /\ a' = a /\ b' = b /\ row' = row /\ j' = j
      /\ carry' = carry /\ part' = part /\ upper' = upper /\ low' = low /\ r' = r
  BY DEF circuitVars
<1>2. circuit' = "adder" => AdderTypes' /\ ChainAddsLowBits'
  BY <1>1 DEF CircuitInv, AdderTypes, ChainAddsLowBits
<1>3. circuit' = "multiplier" => MultiplierTypes' /\ ArrayAdds'
  BY <1>1 DEF CircuitInv, MultiplierTypes, ArrayAdds, Addend
<1>4. circuit' = "shifter" => ShifterTypes' /\ LayersShiftByLowBits'
  BY <1>1 DEF CircuitInv, ShifterTypes, LayersShiftByLowBits
<1>5. QED
  BY <1>2, <1>3, <1>4 DEF CircuitInv

LEMMA ViewStays ==
  ASSUME ViewInv, UNCHANGED viewVars
  PROVE  ViewInv' /\ UNCHANGED Fields!vars
BY DEF ViewInv, viewVars, Fields!vars

LEMMA SnippetStays ==
  ASSUME SnippetInv, UNCHANGED snippetVars
  PROVE  SnippetInv'
<1>1. line' = line /\ operands' = operands /\ declared' = declared /\ result' = result
  BY DEF snippetVars
<1>2. QED
  BY <1>1 DEF SnippetInv, LinesComputeTheirMeaning, EveryBitIsPlaced, Num

\* A step of any example keeps every part; one on the packet is one on the record.
LEMMA StepPreserves ==
  ASSUME IInv, [Next]_vars
  PROVE  IInv' /\ [Fields!Next]_(Fields!vars)
<1>1. CASE CircuitNext /\ UNCHANGED <<viewVars, snippetVars>>
  <2>1. CircuitInv'
    BY <1>1, ChainPreserves, CellPreserves, EndRowPreserves, LayerPreserves DEF CircuitNext, IInv
  <2>2. QED
    BY <1>1, <2>1, ViewStays, SnippetStays DEF IInv
<1>2. CASE ViewNext /\ UNCHANGED <<circuitVars, snippetVars>>
  BY <1>2, ViewStepMaps, CircuitStays, SnippetStays DEF IInv
<1>3. CASE SnippetNext /\ UNCHANGED <<circuitVars, viewVars>>
  BY <1>3, NumbersMean, BitsArePlacedRight, CircuitStays, ViewStays DEF IInv, SnippetNext
<1>4. CASE UNCHANGED vars
  BY <1>4, CircuitStays, ViewStays, SnippetStays DEF IInv, vars
<1>5. QED
  BY <1>1, <1>2, <1>3, <1>4 DEF Next

\* The invariant of the examples at every width, and for every value that the
\* variables, buffers and fields of their code may have.
THEOREM Invariance == Spec => []IInv
<1>1. IInv /\ [Next]_vars => IInv'
  BY StepPreserves
<1>2. QED
  BY <1>1, InitEstablishes, PTL DEF Spec

-----------------------------------------------------------------------------
(* Theorems *)

\* No chain and no row has a bit too many, at any width (the concats and the
\* SymUInt<1> of adder.cc:54-61, multiplier.cc:91-124, barrel_shifter.cc:41-63).
THEOREM CircuitsAreTyped == Spec => []CircuitTypes
<1>1. CircuitInv => CircuitTypes
  BY DEF CircuitInv, CircuitTypes
<1>2. QED
  BY <1>1, Invariance, PTL DEF IInv

\* After each full adder the chain holds the sum of the low bits of the
\* operands and the carry has its weight (adder.cc:54-61), at every width.
THEOREM AdderAddsLowBits == Spec => []ChainAddsLowBits
<1>1. CircuitInv => ChainAddsLowBits
  BY DEF CircuitInv, ChainAddsLowBits
<1>2. QED
  BY <1>1, Invariance, PTL DEF IInv

\* After each layer the data has moved by the low bits of the amount, and zeros
\* came in on the right (barrel_shifter.cc:41-63), at every width.
THEOREM ShifterMovesByLowBits == Spec => []LayersShiftByLowBits
<1>1. CircuitInv => LayersShiftByLowBits
  BY DEF CircuitInv, LayersShiftByLowBits
<1>2. QED
  BY <1>1, Invariance, PTL DEF IInv

\* At every cell the array holds the product of a with the low bits of b that
\* its rows have used, and what this row has added (multiplier.cc:91-110), at
\* every width.
THEOREM MultiplierRowsAddUp == Spec => []RowsAddUp
<1>1. ASSUME CircuitInv, circuit = "multiplier"
      PROVE  low + Pow2[row] * (part + Pow2[j] * (carry + (upper \div Pow2[j])))
               = a * Wrap(row, b) + Pow2[row] * (Bit(row, b) * Wrap(j, a))
  <2> DEFINE M == Pow2[row]
             m == Pow2[j]
             q == upper \div m
             bit == Bit(row, b)
  <2>1. MultiplierTypes /\ ArrayAdds
    BY <1>1 DEF CircuitInv
  <2>2. /\ row \in 0 .. (MaxWidth - 1) /\ j \in 0 .. MaxWidth
        /\ a \in Nat /\ b \in Nat /\ upper \in Nat /\ part \in Nat /\ low \in Nat
        /\ carry \in {0, 1}
    BY <2>1, CircuitWidths DEF MultiplierTypes, Patterns, OneBitWords
  <2>3. M \in Nat \ {0} /\ m \in Nat \ {0}
    BY <2>2, CircuitWidths
  <2>4. upper = q * m + Wrap(j, upper) /\ q \in Int /\ Wrap(j, upper) \in Int
    <3>1. upper \in Int
      BY <2>2
    <3>2. /\ upper % m \in 0 .. (m - 1) /\ upper \div m \in Int
          /\ upper = (upper \div m) * m + (upper % m)
      <4> HIDE DEF m
      <4>1. QED
        BY <2>3, <3>1, ModDecompose
    <3>3. QED
      BY <2>3, <3>2 DEF Wrap
  <2>5. bit \in {0, 1}
    BY <2>2, BitOnTop DEF OneBitWords
  <2>6. Wrap(j, Addend) = bit * Wrap(j, a) /\ Wrap(j, Addend) \in Int
    <3>1. Wrap(j, a) \in Int
      BY <2>2, <2>3, ModDecompose DEF Wrap
    <3>2. CASE bit = 1
      BY <3>1, <3>2 DEF Addend
    <3>3. CASE bit = 0
      <4>1. 0 % m = 0
        BY <2>3
      <4>2. Addend = 0
        BY <3>3 DEF Addend
      <4>3. QED
        BY <3>1, <3>3, <4>1, <4>2 DEF Wrap
    <3>4. QED
      BY <2>5, <3>2, <3>3
  <2>7. /\ low + M * upper = a * Wrap(row, b)
        /\ part + m * carry = Wrap(j, upper) + Wrap(j, Addend)
    BY <2>1 DEF ArrayAdds
  <2> HIDE DEF M, m, q, bit
  <2>8. part + m * (carry + q) = upper + bit * Wrap(j, a)
    <3>1. m * (carry + q) = m * carry + q * m
      BY <2>2, <2>3, <2>4
    <3>2. m * carry \in Int /\ q * m \in Int
      BY <2>2, <2>3, <2>4
    <3>3. QED
      BY <2>2, <2>4, <2>6, <2>7, <3>1, <3>2
  <2>9. low + M * (upper + bit * Wrap(j, a)) = a * Wrap(row, b) + M * (bit * Wrap(j, a))
    <3>1. bit * Wrap(j, a) \in Int
      BY <2>6
    <3>2. M * (upper + bit * Wrap(j, a)) = M * upper + M * (bit * Wrap(j, a))
      BY <2>2, <2>3, <3>1
    <3>3. M * upper \in Int /\ M * (bit * Wrap(j, a)) \in Int
      BY <2>2, <2>3, <3>1
    <3>4. QED
      BY <2>2, <2>7, <3>2, <3>3
  <2>10. QED
    BY <2>8, <2>9 DEF M, m, q, bit
<1>2. CircuitInv => RowsAddUp
  BY <1>1 DEF RowsAddUp
<1>3. QED
  BY <1>2, Invariance, PTL DEF IInv

\* The widths of the inputs are widths of the library.
LEMMA InputWidths ==
  {AdderWidth, FactorWidth, 2 * FactorWidth, DataWidth, AmountWidth} \subseteq Widths
<1>1. /\ AdderWidth \in 1 .. MaxWidth /\ FactorWidth \in 1 .. MaxWidth
      /\ 2 * FactorWidth \in 1 .. MaxWidth
      /\ DataWidth \in 1 .. MaxWidth /\ AmountWidth \in 1 .. MaxWidth
  BY CircuitWidths
<1>2. QED
  BY <1>1 DEF Widths

\* An unsigned input stands for its word.
LEMMA UnsignedInput ==
  ASSUME NEW w \in Widths, NEW p \in Patterns(w)
  PROVE  /\ Term(w, FALSE, p) \in Terms
         /\ Term(w, FALSE, p).w = w /\ Term(w, FALSE, p).s = FALSE
         /\ Term(w, FALSE, p).p = p
         /\ Num(Term(w, FALSE, p)) = p
<1>1. p \in Nat
  BY DEF Patterns
<1>2. QED
  BY <1>1 DEF Term, Terms, Num, Decode

\* The complete circuit gives the sum that Z3Wire's operator+ and
\* unsafe_cast specify.
LEMMA SumBitsMatch ==
  ASSUME CircuitInv, circuit = "adder", j = AdderWidth
  PROVE  /\ Sum \in Terms /\ Sum.w = AdderWidth + 1 /\ Sum.s = FALSE
         /\ Num(Sum) = part + Pow2[AdderWidth] * carry
         /\ Term(AdderWidth, FALSE, part) = SpecSum
<1> DEFINE ta == Term(AdderWidth, FALSE, a)
           tb == Term(AdderWidth, FALSE, b)
<1>1. /\ ta \in Terms /\ tb \in Terms /\ Num(ta) = a /\ Num(tb) = b
      /\ ta.w = AdderWidth /\ tb.w = AdderWidth /\ ta.s = FALSE /\ tb.s = FALSE
  <2>1. a \in Patterns(AdderWidth) /\ b \in Patterns(AdderWidth) /\ AdderWidth \in Widths
    BY InputWidths DEF CircuitInv, AdderTypes
  <2>2. QED
    BY <2>1, UnsignedInput
<1>2. ArithResultWidth(ta, tb) = AdderWidth + 1 /\ AdderWidth + 1 <= MaxWidth
  <2>1. AdderWidth + 1 <= MaxWidth
    BY CircuitWidths, WidthsType
  <2>2. QED
    BY <1>1, <2>1, CircuitWidths DEF ArithResultWidth, Wider
<1>3. /\ Sum = Plus(ta, tb) /\ Sum.w = AdderWidth + 1 /\ Sum.s = FALSE
  BY <1>1, <1>2 DEF Sum, Plus, Term
<1> HIDE DEF ta, tb
<1>4. Sum \in Terms /\ Num(Sum) = a + b
  BY <1>1, <1>2, <1>3, PlusIsExact
<1>5. Wrap(AdderWidth, a) = a /\ Wrap(AdderWidth, b) = b
  BY InputWidths, WrapOfPattern DEF CircuitInv, AdderTypes
<1>6. Num(Sum) = part + Pow2[AdderWidth] * carry
  BY <1>4, <1>5 DEF CircuitInv, ChainAddsLowBits
<1>7. Wrap(AdderWidth, Num(Sum)) = part
  <2>1. /\ Pow2[AdderWidth] \in Nat \ {0} /\ part \in 0 .. (Pow2[AdderWidth] - 1)
        /\ carry \in Int /\ Num(Sum) \in Int
    BY <1>4, CircuitWidths, NumType DEF CircuitInv, AdderTypes, Patterns, OneBitWords
  <2>2. Num(Sum) = carry * Pow2[AdderWidth] + part
    BY <1>6, <2>1
  <2>3. QED
    BY <2>1, <2>2, ModUnique DEF Wrap
<1>8. SpecSum = Term(AdderWidth, FALSE, Wrap(AdderWidth, Num(Sum)))
  BY <1>4, InputWidths, UnsafeCastIsWrap DEF SpecSum
<1>9. QED
  BY <1>3, <1>4, <1>6, <1>7, <1>8

\* The ripple-carry adder is the sum and the carry of the specification that
\* main compares it with (adder.cc:80-88), for operands of every width.
THEOREM AdderIsRight == Spec => []CircuitIsSum
<1>1. ASSUME CircuitInv, circuit = "adder", j = AdderWidth
      PROVE  Term(AdderWidth, FALSE, part) = SpecSum /\ Term(1, FALSE, carry) = SpecCarry
  <2>1. /\ Sum \in Terms /\ Sum.w = AdderWidth + 1 /\ Sum.s = FALSE
        /\ Num(Sum) = part + Pow2[AdderWidth] * carry
        /\ Term(AdderWidth, FALSE, part) = SpecSum
    BY <1>1, SumBitsMatch
  <2>2. /\ Pow2[AdderWidth] \in Nat \ {0} /\ part \in 0 .. (Pow2[AdderWidth] - 1) /\ carry \in {0, 1}
    BY <1>1, CircuitWidths DEF CircuitInv, AdderTypes, Patterns, OneBitWords
  <2>3. Num(Sum) \in ValueSet(AdderWidth, FALSE) <=> carry = 0
    <3>1. CASE carry = 0
      BY <2>1, <2>2, <3>1 DEF ValueSet
    <3>2. CASE carry = 1
      BY <2>1, <2>2, <3>2 DEF ValueSet
    <3>3. QED
      BY <2>2, <3>1, <3>2
  <2>4. ValuePreserved(Sum, AdderWidth, FALSE) <=> carry = 0
    BY <2>1, <2>3, InputWidths, CheckedCastReportsFit
  <2>5. SpecCarry = Term(1, FALSE, carry)
    <3>1. CASE carry = 0
      BY <2>4, <3>1 DEF SpecCarry, AsUint1
    <3>2. CASE carry = 1
      BY <2>4, <3>2 DEF SpecCarry, AsUint1
    <3>3. QED
      BY <2>2, <3>1, <3>2
  <2>6. QED
    BY <2>1, <2>5
<1>2. CircuitInv => CircuitIsSum
  BY <1>1 DEF CircuitIsSum
<1>3. QED
  BY <1>2, Invariance, PTL DEF IInv

\* The array multiplier is the product that main compares it with
\* (multiplier.cc:126-134), for factors of every width.
THEOREM MultiplierIsRight == Spec => []CircuitIsProduct
<1>1. ASSUME CircuitInv, circuit = "multiplier", row = FactorWidth
      PROVE  Term(2 * FactorWidth, FALSE, low + Pow2[FactorWidth] * upper) = SpecResult
  <2> DEFINE ta == Term(FactorWidth, FALSE, a)
             tb == Term(FactorWidth, FALSE, b)
  <2>1. /\ a \in Patterns(FactorWidth) /\ b \in Patterns(FactorWidth) /\ FactorWidth \in Widths
        /\ low + Pow2[FactorWidth] * upper = a * Wrap(FactorWidth, b)
    BY <1>1, InputWidths DEF CircuitInv, MultiplierTypes, ArrayAdds
  <2>2. Wrap(FactorWidth, b) = b
    BY <2>1, WrapOfPattern
  <2>3. /\ ta \in Terms /\ ta.w = FactorWidth /\ ta.s = FALSE /\ Num(ta) = a
        /\ tb \in Terms /\ tb.w = FactorWidth /\ tb.s = FALSE /\ Num(tb) = b
    BY <2>1, UnsignedInput
  <2>4. SpecResult = Times(ta, tb)
    BY DEF SpecResult
  <2> HIDE DEF ta, tb
  <2>5. /\ ta.w + tb.w = 2 * FactorWidth /\ 2 * FactorWidth <= MaxWidth
        /\ (ta.s \/ tb.s) = FALSE
    BY <2>3, CircuitWidths
  <2>6. SpecResult \in Terms /\ Num(SpecResult) = a * b
    BY <2>3, <2>4, <2>5, TimesIsExact
  <2>7. SpecResult = Term(2 * FactorWidth, FALSE, SpecResult.p)
    BY <2>4, <2>5 DEF Times, Term
  <2>8. SpecResult.p = Num(SpecResult)
    BY <2>6, <2>7, NumUnsigned DEF Term
  <2>9. QED
    BY <2>1, <2>2, <2>6, <2>7, <2>8
<1>2. CircuitInv => CircuitIsProduct
  BY <1>1 DEF CircuitIsProduct
<1>3. QED
  BY <1>2, Invariance, PTL DEF IInv

\* The quotient is the only number that leaves a remainder of its range.
LEMMA DivUnique ==
  ASSUME NEW m \in Nat \ {0}, NEW x \in Int, NEW q \in Int, NEW rem \in 0 .. (m - 1),
         x = q * m + rem
  PROVE  x \div m = q
OBVIOUS

\* Cutting a word to w bits keeps each of them.
LEMMA BitOfWrap ==
  ASSUME NEW w \in Widths, NEW k \in 0 .. (w - 1), NEW x \in Nat
  PROVE  Bit(k, Wrap(w, x)) = Bit(k, x)
<1> DEFINE m == Pow2[k]
           c == Pow2[w - (k + 1)]
           W == Pow2[w]
<1>1. m \in Nat \ {0} /\ c \in Nat \ {0} /\ W = (2 * c) * m
  <2>1. /\ k \in 0 .. MaxWidth /\ k + 1 \in 1 .. MaxWidth /\ w \in (k + 1) .. MaxWidth
        /\ k + 1 \in 0 .. MaxWidth /\ (k + 1) - 1 = k
    BY WidthsType
  <2>2. w - (k + 1) \in 0 .. MaxWidth /\ W = Pow2[k + 1] * c /\ Pow2[k + 1] = 2 * m
    BY <2>1, Pow2Split, Pow2Succ
  <2>3. m \in Nat \ {0} /\ c \in Nat \ {0}
    BY <2>1, <2>2, Pow2Type
  <2>4. (2 * m) * c = (2 * c) * m
    BY <2>3
  <2>5. QED
    BY <2>2, <2>3, <2>4
<1> HIDE DEF m, c, W
<1>2. W \in Nat \ {0}
  BY <1>1, ProductGrows
<1>3. PICK h \in Int, y \in Int : x = h * W + y /\ y = x % W
  <2>1. x \in Int
    OBVIOUS
  <2>2. x % W \in 0 .. (W - 1) /\ x \div W \in Int /\ x = (x \div W) * W + (x % W)
    BY <1>2, <2>1, ModDecompose
  <2>3. x % W \in Int
    BY <1>2, <2>2
  <2>4. QED
    BY <2>2, <2>3
<1>4. PICK d \in Int, e \in 0 .. (m - 1) : y = d * m + e
  BY <1>1, <1>3, ModDecompose
<1>5. y \div m = d
  BY <1>1, <1>3, <1>4, DivUnique
<1>6. x \div m = h * (2 * c) + d
  <2>1. h * W = (h * (2 * c)) * m /\ h * (2 * c) \in Int
    BY <1>1, <1>3
  <2>2. x = (h * (2 * c) + d) * m + e /\ h * (2 * c) + d \in Int
    <3>1. (h * (2 * c) + d) * m = (h * (2 * c)) * m + d * m
      BY <1>1, <1>4, <2>1
    <3>2. (h * (2 * c)) * m \in Int /\ d * m \in Int /\ e \in Int
      BY <1>1, <1>4, <2>1
    <3>3. x = (h * (2 * c)) * m + (d * m + e)
      BY <1>3, <1>4, <2>1
    <3>4. x = ((h * (2 * c)) * m + d * m) + e
      <4> DEFINE high == (h * (2 * c)) * m
                 mid  == d * m
      <4>1. high \in Int /\ mid \in Int /\ e \in Int /\ x = high + (mid + e)
        BY <3>2, <3>3
      <4> HIDE DEF high, mid
      <4>2. x = (high + mid) + e
        BY <4>1
      <4>3. QED
        BY <4>2 DEF high, mid
    <3>5. QED
      BY <1>4, <2>1, <3>1, <3>4
  <2>3. QED
    BY <1>1, <1>4, <2>2, DivUnique
<1>7. (h * (2 * c) + d) % 2 = d % 2
  <2> DEFINE g == h * c
  <2>1. g \in Int /\ h * (2 * c) = g * 2
    BY <1>1, <1>3
  <2> HIDE DEF g
  <2>2. (g * 2 + d) % 2 = d % 2
    BY <1>4, <2>1
  <2>3. QED
    BY <2>1, <2>2
<1>8. QED
  BY <1>3, <1>5, <1>6, <1>7 DEF Bit, Wrap, m, W

\* Shifting by n moves each bit up by n places and leaves zeros below.
LEMMA BitOfShift ==
  ASSUME NEW k \in 0 .. (MaxWidth - 1), NEW n \in 0 .. MaxWidth, NEW x \in Nat
  PROVE  Bit(k, x * Pow2[n]) = IF k >= n THEN Bit(k - n, x) ELSE 0
<1> DEFINE K == Pow2[k]
           P == Pow2[n]
<1>1. K \in Nat \ {0} /\ P \in Nat \ {0} /\ x * P \in Int /\ k \in 0 .. MaxWidth
  BY WidthsType, Pow2Type
<1>2. CASE k >= n
  <2> DEFINE m == Pow2[k - n]
             d == x \div m
             e == x % m
  <2>1. m \in Nat \ {0} /\ K = P * m
    <3>1. k \in n .. MaxWidth
      BY <1>1, <1>2
    <3>2. k - n \in 0 .. MaxWidth /\ K = P * m
      BY <3>1, Pow2Split
    <3>3. QED
      BY <3>2, Pow2Type
  <2> HIDE DEF m, K, P
  <2>2. e \in 0 .. (m - 1) /\ d \in Int /\ x = d * m + e
    <3>1. x \in Int
      OBVIOUS
    <3>2. QED
      BY <2>1, <3>1, ModDecompose
  <2> HIDE DEF d, e
  <2>3. x * P = d * K + e * P
    <3>1. d * m \in Int /\ d * K = (d * m) * P /\ e \in Int /\ P \in Int
      BY <1>1, <2>1, <2>2
    <3>2. (d * m + e) * P = (d * m) * P + e * P
      BY <3>1
    <3>3. QED
      BY <2>2, <3>1, <3>2
  <2>4. e * P \in 0 .. (K - 1)
    <3>1. e + 1 \in Nat \ {0} /\ e + 1 <= m /\ e \in Nat
      BY <2>1, <2>2
    <3>2. (e + 1) * P <= m * P /\ (e + 1) * P = e * P + P
      BY <1>1, <2>1, <3>1
    <3>3. e * P \in Nat /\ m * P = K
      BY <1>1, <2>1, <3>1
    <3>4. QED
      BY <1>1, <3>2, <3>3
  <2>5. (x * P) \div K = d
    BY <1>1, <2>2, <2>3, <2>4, DivUnique
  <2>6. QED
    BY <1>2, <2>5 DEF Bit, K, P, m, d
<1>3. CASE ~(k >= n)
  <2> DEFINE g == Pow2[n - (k + 1)]
  <2>1. g \in Nat \ {0} /\ P = (2 * K) * g
    <3>1. k + 1 \in 0 .. MaxWidth /\ k + 1 \in 1 .. MaxWidth /\ n \in (k + 1) .. MaxWidth
          /\ (k + 1) - 1 = k
      BY <1>1, <1>3, WidthsType
    <3>2. n - (k + 1) \in 0 .. MaxWidth /\ P = Pow2[k + 1] * g /\ Pow2[k + 1] = 2 * K
      BY <3>1, Pow2Split, Pow2Succ
    <3>3. QED
      BY <3>2, Pow2Type
  <2> HIDE DEF g, K, P
  <2>2. x * P = (2 * (x * g)) * K + 0 /\ 2 * (x * g) \in Int
    <3>1. x * g \in Int
      BY <2>1
    <3>2. QED
      BY <1>1, <2>1, <3>1
  <2>3. 0 \in 0 .. (K - 1)
    BY <1>1
  <2>4. (x * P) \div K = 2 * (x * g)
    BY <1>1, <2>2, <2>3, DivUnique
  <2>5. x * g \in Int /\ (2 * (x * g)) % 2 = 0
    <3>1. x * g \in Int
      BY <2>1
    <3>2. QED
      BY <3>1
  <2>6. QED
    BY <1>3, <2>4, <2>5 DEF Bit, K, P
<1>4. QED
  BY <1>2, <1>3

\* The barrel shifter is the widened shift cut to the width of the data, which
\* main compares it with (barrel_shifter.cc:80-88), at every width.
THEOREM ShifterIsRight == Spec => []CircuitIsShift
<1>1. ASSUME CircuitInv, circuit = "shifter", row = AmountWidth, NEW k \in 0 .. DataWidth - 1
      PROVE  r[k] = Bit(k, SpecShift.p)
  <2> DEFINE ta == Term(DataWidth, FALSE, a)
             tb == Term(AmountWidth, FALSE, b)
             shifted == ShlBy(ta, tb)
  <2>1. /\ a \in Patterns(DataWidth) /\ b \in Patterns(AmountWidth)
        /\ r[k] = IF k >= Wrap(AmountWidth, b) THEN Bit(k - Wrap(AmountWidth, b), a) ELSE 0
    BY <1>1 DEF CircuitInv, ShifterTypes, LayersShiftByLowBits
  <2>2. DataWidth \in Widths /\ AmountWidth \in Widths
    BY InputWidths
  <2>3. Wrap(AmountWidth, b) = b /\ a \in Nat /\ b \in Nat
    BY <2>1, <2>2, WrapOfPattern DEF Patterns
  <2>4. /\ ta \in Terms /\ ta.w = DataWidth /\ Num(ta) = a
        /\ tb \in Terms /\ tb.w = AmountWidth /\ tb.s = FALSE /\ tb.p = b
    BY <2>1, <2>2, UnsignedInput
  <2>5. ShlWidth(ta, tb.w) <= MaxWidth
    BY <2>4, CircuitAssumption DEF ShlWidth
  <2> HIDE DEF ta, tb
  <2>6. shifted \in Terms /\ Num(shifted) = a * Pow2[b]
    <3>1. ~tb.s /\ Num(ta) >= 0
      BY <2>3, <2>4
    <3>2. shifted \in Terms /\ Num(shifted) = Num(ta) * Pow2[tb.p]
      BY <2>4, <2>5, <3>1, ShlByMultiplies
    <3>3. QED
      BY <2>4, <3>2
  <2>7. SpecShift.p = Wrap(DataWidth, a * Pow2[b])
    <3>1. SpecShift = UnsafeCast(shifted, DataWidth, FALSE)
      BY DEF SpecShift, ta, tb
    <3> HIDE DEF shifted
    <3>2. SpecShift = Term(DataWidth, FALSE, Wrap(DataWidth, Num(shifted)))
      BY <2>2, <2>6, <3>1, UnsafeCastIsWrap
    <3>3. QED
      BY <2>6, <3>2 DEF Term
  <2>8. b \in 0 .. MaxWidth
    <3>1. b <= Pow2[AmountWidth] - 1 /\ Pow2[AmountWidth] \in Nat
      BY <2>1, <2>2, RangeBounds DEF Patterns
    <3>2. DataWidth + (Pow2[AmountWidth] - 1) <= MaxWidth
      BY CircuitAssumption DEF ShlWidth
    <3>3. QED
      BY <2>3, <3>1, <3>2, CircuitWidths
  <2>9. a * Pow2[b] \in Nat
    BY <2>3, <2>8, Pow2Type
  <2>10. k \in 0 .. (MaxWidth - 1)
    BY CircuitWidths
  <2>11. Bit(k, SpecShift.p) = Bit(k, a * Pow2[b])
    BY <2>2, <2>7, <2>9, BitOfWrap
  <2>12. Bit(k, a * Pow2[b]) = IF k >= b THEN Bit(k - b, a) ELSE 0
    BY <2>3, <2>8, <2>10, BitOfShift
  <2>13. QED
    BY <2>1, <2>3, <2>11, <2>12
<1>2. CircuitInv => CircuitIsShift
  BY <1>1 DEF CircuitIsShift
<1>3. QED
  BY <1>2, Invariance, PTL DEF IInv

\* Every getter reads the bits that the order of the fields on the wire gives it
\* (packet_view.cc:83-87, :126-128, :136-139, :172-175), in every packet.
THEOREM GettersAreRight == Spec => []GettersReadTheWire
<1>1. GettersReadTheWire
  BY GettersRead
<1>2. QED
  BY <1>1, PTL

\* Writes at any level rewrite the same buffer (packet_view.cc:12-13): the views
\* implement the record of fields, for every packet and every word written.
THEOREM Implementation == Spec => ViewsAreARecord
<1>1. IInv /\ [Next]_vars => [Fields!Next]_(Fields!vars)
  BY StepPreserves
<1>2. QED
  BY <1>1, Invariance, PTL DEF Spec, ViewsAreARecord, Fields!Spec

\* Every line on numbers of operations.cc and type_conversions.cc has the type it
\* declares and computes what it means, for all values of its variables.
THEOREM NumberLinesAreRight == Spec => []LinesComputeTheirMeaning
<1>1. IInv => LinesComputeTheirMeaning
  BY DEF IInv, SnippetInv
<1>2. QED
  BY <1>1, Invariance, PTL

\* Every line on bits of operations.cc puts each bit where it means to
\* (operations.cc:188-255), for all values of its variables.
THEOREM BitLinesAreRight == Spec => []EveryBitIsPlaced
<1>1. IInv => EveryBitIsPlaced
  BY DEF IInv, SnippetInv
<1>2. QED
  BY <1>1, Invariance, PTL
=============================================================================
