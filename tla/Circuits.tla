------------------------------ MODULE Circuits ------------------------------
(***************************************************************************)
(* The circuits of examples/adder.cc (a ripple-carry adder, 8 bits in the  *)
(* code), multiplier.cc (an array multiplier, 4 by 4) and                  *)
(* barrel_shifter.cc (layers of multiplexers, 8 bits by 3).  A behaviour   *)
(* builds one of them for one assignment of its inputs, a step being a     *)
(* cell or a layer, in the order in which the code calls them.             *)
(***************************************************************************)
EXTENDS Gates

CONSTANTS
    AdderWidth,   \* of both operands: 8
    FactorWidth,  \* of both factors: 4
    DataWidth,    \* of the data that is shifted: 8
    AmountWidth   \* of the amount: 3

ASSUME CircuitAssumption ==
    /\ AdderWidth \in Nat \ {0} /\ AdderWidth < MaxWidth
    /\ FactorWidth \in Nat \ {0, 1} /\ 2 * FactorWidth <= MaxWidth
    /\ {DataWidth, AmountWidth} \subseteq Nat \ {0}
    /\ AmountWidth <= MaxWidth
    /\ ShlWidth([w |-> DataWidth], AmountWidth) <= MaxWidth

VARIABLES
    circuit,  \* which one is built
    a, b,     \* its inputs: the operands, the factors, the data and the amount
    row,      \* the row of the multiplier, the layer of the shifter
    j,        \* the next cell of the adder, or of the row
    carry,    \* the carry into it
    part,     \* the sum bits so far, of the adder or of the row, as a word
    upper,    \* the sum of the rows before this one, without its low bits
    low,      \* those low bits, which are bits of the product
    r         \* the bits out of the last layer, by position

circuitVars == <<circuit, a, b, row, j, carry, part, upper, low, r>>

-----------------------------------------------------------------------------
(* Seeded faults.  Each is a slip that could be made in the definition it   *)
(* is named after; put in that definition's place, it must make TLC refute *)
(* the property it is listed with in PROJECT.json.                         *)

\* The top cell of every row is a half adder, as in the first row.
Adds_HalfOnTop ==
    IF j = 0 THEN HalfAdder(Bit(0, upper), And(Bit(row, b), Bit(0, a)))
    ELSE IF j = FactorWidth - 1 THEN HalfAdder(And(Bit(row, b), Bit(j, a)), carry)
    ELSE FullAdder(Bit(j, upper), And(Bit(row, b), Bit(j, a)), carry)

\* The sum bits are put one place too high.
Cell_OneHigher ==
    /\ circuit = "multiplier" /\ row < FactorWidth /\ j < FactorWidth - 1
    /\ part' = part + Pow2[j + 1] * FullAdder(Bit(j, upper), And(Bit(row, b), Bit(j, a)), carry).sum
    /\ carry' = 0
    /\ j' = j + 1
    /\ UNCHANGED <<circuit, a, b, row, upper, low, r>>

\* The carry out of the top cell is not passed to the next row.
RowSum_DropsCarry(cell) == part + Pow2[j] * cell.sum

\* The bits shifted out come back in on the right.
Layer_Rotates ==
    /\ circuit = "shifter" /\ row < AmountWidth
    /\ r' = [k \in DOMAIN r |-> Mux(Bit(row, b), r[(k - Pow2[row]) % DataWidth], r[k])]
    /\ row' = row + 1
    /\ UNCHANGED <<circuit, a, b, j, carry, part, upper, low>>

-----------------------------------------------------------------------------
\* The inputs, and nothing built yet.
Unbuilt(name, wa, wb) ==
    /\ circuit = name
    /\ a \in Patterns(wa) /\ b \in Patterns(wb)
    /\ j = 0 /\ carry = 0 /\ part = 0

AdderInit ==
    /\ Unbuilt("adder", AdderWidth, AdderWidth)
    /\ row = 0 /\ low = 0 /\ upper = 0 /\ r = <<>>

\* The partial product b[i] & a[k].
PartialProduct(i, k) == And(Bit(i, b), Bit(k, a))

\* Row 0 is the partial product itself: pp00 and, above it, pp01, pp02, pp03.
MultiplierInit ==
    /\ Unbuilt("multiplier", FactorWidth, FactorWidth)
    /\ row = 1
    /\ low = PartialProduct(0, 0)
    /\ upper = IF Bit(0, b) = 1 THEN a \div 2 ELSE 0
    /\ r = <<>>

ShifterInit ==
    /\ Unbuilt("shifter", DataWidth, AmountWidth)
    /\ row = 0 /\ low = 0 /\ upper = 0
    /\ r = [k \in 0 .. DataWidth - 1 |-> Bit(k, a)]

CircuitInit == AdderInit \/ MultiplierInit \/ ShifterInit

-----------------------------------------------------------------------------
\* auto [si, ci] = full_adder(bit<i>(a), bit<i>(b), carry)
Chain ==
    /\ circuit = "adder" /\ j < AdderWidth
    /\ LET cell == FullAdder(Bit(j, a), Bit(j, b), carry)
       IN  part' = part + Pow2[j] * cell.sum /\ carry' = cell.carry
    /\ j' = j + 1
    /\ UNCHANGED <<circuit, a, b, row, upper, low, r>>

\* What a cell of the multiplier adds: the first of a row has no carry in, and
\* row 0 is one bit shorter than the others, so that row 1 has no bit on top.
Adds ==
    IF j = 0 THEN HalfAdder(Bit(0, upper), PartialProduct(row, 0))
    ELSE IF row = 1 /\ j = FactorWidth - 1 THEN HalfAdder(PartialProduct(row, j), carry)
    ELSE FullAdder(Bit(j, upper), PartialProduct(row, j), carry)

Cell ==
    /\ circuit = "multiplier" /\ row < FactorWidth /\ j < FactorWidth - 1
    /\ part' = part + Pow2[j] * Adds.sum
    /\ carry' = Adds.carry
    /\ j' = j + 1
    /\ UNCHANGED <<circuit, a, b, row, upper, low, r>>

\* The bits of a complete row, the carry out of its last cell on top.
RowSum(cell) == part + Pow2[j] * cell.sum + Pow2[FactorWidth] * cell.carry

\* The last cell: the row's low bit is a bit of the product, and the others
\* are what the next row is added to.
EndRow ==
    /\ circuit = "multiplier" /\ row < FactorWidth /\ j = FactorWidth - 1
    /\ low' = low + Pow2[row] * Bit(0, RowSum(Adds))
    /\ upper' = RowSum(Adds) \div 2
    /\ row' = row + 1 /\ j' = 0
    /\ carry' = 0 /\ part' = 0
    /\ UNCHANGED <<circuit, a, b, r>>

\* r<k> = concat(mux(s<k>, bit<i - 2^k>, bit<i>), ...), zeros below bit 2^k
Layer ==
    /\ circuit = "shifter" /\ row < AmountWidth
    /\ r' = [k \in 0 .. DataWidth - 1 |->
               Mux(Bit(row, b), IF k >= Pow2[row] THEN r[k - Pow2[row]] ELSE 0, r[k])]
    /\ row' = row + 1
    /\ UNCHANGED <<circuit, a, b, j, carry, part, upper, low>>

CircuitNext == Chain \/ Cell \/ EndRow \/ Layer

-----------------------------------------------------------------------------
(* The specifications that the main programs compare the circuits with *)

Sum        == Plus(Term(AdderWidth, FALSE, a), Term(AdderWidth, FALSE, b))
SpecSum    == UnsafeCast(Sum, AdderWidth, FALSE)
SpecCarry  == AsUint1(~ValuePreserved(Sum, AdderWidth, FALSE))
SpecResult == Times(Term(FactorWidth, FALSE, a), Term(FactorWidth, FALSE, b))
SpecShift  == UnsafeCast(ShlBy(Term(DataWidth, FALSE, a), Term(AmountWidth, FALSE, b)),
                         DataWidth, FALSE)

-----------------------------------------------------------------------------
(* Properties *)

AdderTypes ==
    /\ a \in Patterns(AdderWidth) /\ b \in Patterns(AdderWidth)
    /\ j \in 0 .. AdderWidth
    /\ part \in Patterns(j)
    /\ carry \in OneBitWords

MultiplierTypes ==
    /\ a \in Patterns(FactorWidth) /\ b \in Patterns(FactorWidth)
    /\ row \in 1 .. FactorWidth /\ j \in 0 .. FactorWidth - 1
    /\ carry \in OneBitWords
    /\ part \in Patterns(j)
    /\ upper \in Patterns(FactorWidth)
    /\ low \in Patterns(row)

ShifterTypes ==
    /\ a \in Patterns(DataWidth) /\ b \in Patterns(AmountWidth)
    /\ row \in 0 .. AmountWidth
    /\ r \in [0 .. DataWidth - 1 -> OneBitWords]

(***************************************************************************)
(* The words have as many bits as the code puts together at that point:    *)
(* no sum of a row, and no chain, has a bit too many.                      *)
(***************************************************************************)
CircuitTypes ==
    /\ circuit = "adder" => AdderTypes
    /\ circuit = "multiplier" => MultiplierTypes
    /\ circuit = "shifter" => ShifterTypes

(***************************************************************************)
(* After j full adders the chain holds the sum of the low j bits of the    *)
(* operands: nothing of it is lost, and the carry has its weight           *)
(* (adder.cc:54-61).                                                       *)
(***************************************************************************)
ChainAddsLowBits ==
    circuit = "adder" => part + Pow2[j] * carry = Wrap(j, a) + Wrap(j, b)

(***************************************************************************)
(* "ripple-carry adder matches intended semantics for all 8-bit inputs"    *)
(* (adder.cc:88): hw_sum is spec_sum and hw_carry is spec_carry, so that   *)
(* what main asserts at adder.cc:85 has no solution.                       *)
(***************************************************************************)
CircuitIsSum ==
    circuit = "adder" /\ j = AdderWidth =>
        Term(AdderWidth, FALSE, part) = SpecSum /\ Term(1, FALSE, carry) = SpecCarry

(***************************************************************************)
(* At every cell the array holds the product of a with the low bits of b,  *)
(* the rows so far, plus what this row has added of the low bits of a: no  *)
(* sum bit and no carry is lost or counted twice (multiplier.cc:91-110).   *)
(***************************************************************************)
RowsAddUp ==
    circuit = "multiplier" =>
        low + Pow2[row] * (part + Pow2[j] * (carry + (upper \div Pow2[j])))
            = a * Wrap(row, b) + Pow2[row] * (Bit(row, b) * Wrap(j, a))

(***************************************************************************)
(* "array multiplier matches intended semantics for all 4-bit inputs"      *)
(* (multiplier.cc:134): hw_result is the product, so that what main        *)
(* asserts at multiplier.cc:131 has no solution.                           *)
(***************************************************************************)
CircuitIsProduct ==
    circuit = "multiplier" /\ row = FactorWidth =>
        Term(2 * FactorWidth, FALSE, low + Pow2[FactorWidth] * upper) = SpecResult

(***************************************************************************)
(* After k layers the data has moved by what the low k bits of the amount  *)
(* say, and zeros came in on the right (barrel_shifter.cc:41-63).          *)
(***************************************************************************)
LayersShiftByLowBits ==
    circuit = "shifter" =>
        LET n == Wrap(row, b)
        IN  \A k \in 0 .. DataWidth - 1 : r[k] = IF k >= n THEN Bit(k - n, a) ELSE 0

(***************************************************************************)
(* "barrel shifter matches intended semantics for all 8-bit data and       *)
(* 3-bit shift amounts" (barrel_shifter.cc:88): the bits of hw_result are  *)
(* those of the widened shift cut to the width of the data, so that what   *)
(* main asserts at :85 has no solution.                                    *)
(***************************************************************************)
CircuitIsShift ==
    circuit = "shifter" /\ row = AmountWidth =>
        \A k \in 0 .. DataWidth - 1 : r[k] = Bit(k, SpecShift.p)
=============================================================================
