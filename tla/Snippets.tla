------------------------------ MODULE Snippets ------------------------------
(***************************************************************************)
(* The functions of examples/usage/operations.cc and type_conversions.cc   *)
(* that compute with vectors, at the widths they are written with.  Each   *)
(* makes its own context and variables, and declares the type of each      *)
(* result: a behaviour is one of their lines, for values of the variables. *)
(***************************************************************************)
EXTENDS SymBitVec, Sequences

CONSTANTS
    SmallNumber,  \* SmallNumber[b] is the number of a word of at most eight bits
    ValuesOf(_),  \* the numbers of a type that its variables take
    VecsOf(_),    \* the words of a type, where a line moves bits
    SourceWidth,  \* of the source of a symbolic extraction: 32
    OffsetWidth,  \* of its offset: 5
    WideWidth     \* of what a SymUInt<16> is widened to: 32

\* The bit operations; of the words read as numbers, none is wider than a byte.
W32 == INSTANCE SymBits WITH MaxWidth <- 32, Number <- SmallNumber, SizeValues <- 2 ^ 16

VARIABLES
    line,      \* what the line computes
    operands,  \* the values of its variables, and its numbers
    declared,  \* the type it declares its result with
    result     \* its result

snippetVars == <<line, operands, declared, result>>

UInt(w) == [w |-> w, s |-> FALSE]
SInt(w) == [w |-> w, s |-> TRUE]

\* A variable has a value of its type, and the widths have room for the results.
ASSUME SnippetAssumption ==
    /\ \A t \in Types : \A x \in ValuesOf(t) : x \in Terms /\ SameType(x, t)
    /\ \A t \in W32!Types : \A x \in VecsOf(t) : x \in W32!Terms /\ SameType(x, t)
    /\ SmallNumber \in [SUBSET (0 .. 7) -> Nat]
    /\ {SourceWidth, OffsetWidth, WideWidth} \subseteq Widths
    /\ 8 <= SourceWidth /\ 16 <= WideWidth
    /\ Pow2[OffsetWidth] <= MaxWidth

Runs(what, xs, type, value) ==
    /\ line' = what /\ operands' = xs
    /\ declared' = type /\ result' = value

-----------------------------------------------------------------------------
(* Seeded faults.  Each is a slip that could be made in the definition it   *)
(* is named after; put in that definition's place, it must make TLC refute *)
(* the property it is listed with in PROJECT.json.                         *)

\* The extract comes before the shift.
SymbolicExtraction_Swapped ==
    \E src \in ValuesOf(UInt(SourceWidth)), offset \in ValuesOf(UInt(OffsetWidth)), w \in {4, 8} :
       Runs("shift_extract", <<src, offset>>, UInt(w), ShrBy(UnsafeCast(src, w, FALSE), offset))

\* The parts are joined from the low end.
Concatenation_LowFirst ==
    \E flag \in BOOLEAN, u7 \in VecsOf(UInt(7)), s8 \in VecsOf(SInt(8)) :
       LET b == W32!AsUint1(flag)
       IN  \/ Runs("concat", <<b, u7>>, UInt(8), W32!Concat(u7, b))
           \/ Runs("concat", <<b, u7, s8>>, UInt(16), W32!Concat(s8, W32!Concat(u7, b)))

-----------------------------------------------------------------------------
(* operations.cc, on numbers *)

Addition ==
    \E d \in {<<UInt(7), UInt(9), UInt(10)>>, <<SInt(7), SInt(9), SInt(10)>>,
              <<UInt(9), SInt(7), SInt(11)>>, <<UInt(7), SInt(9), SInt(10)>>,
              <<SInt(7), UInt(9), SInt(11)>>, <<SInt(9), UInt(7), SInt(10)>>} :
       \E x \in ValuesOf(d[1]), y \in ValuesOf(d[2]) :
          Runs("add", <<x, y>>, d[3], Plus(x, y))

Subtraction ==
    \E d \in {<<UInt(7), UInt(9), SInt(10)>>, <<SInt(7), SInt(9), SInt(10)>>,
              <<UInt(9), SInt(7), SInt(11)>>, <<UInt(7), SInt(9), SInt(10)>>,
              <<SInt(7), UInt(9), SInt(11)>>, <<SInt(9), UInt(7), SInt(10)>>} :
       \E x \in ValuesOf(d[1]), y \in ValuesOf(d[2]) :
          Runs("subtract", <<x, y>>, d[3], Minus(x, y))

Negation ==
    \E x \in ValuesOf(UInt(8)) \cup ValuesOf(SInt(8)) :
       Runs("negate", <<x>>, SInt(9), Negated(x))

LeftShift ==
    \E x \in ValuesOf(UInt(8)) \cup ValuesOf(SInt(8)), n \in ValuesOf(UInt(3)) :
       \/ n.p = 3 /\ Runs("shl", <<x, n>>, UInt(11), ShlConst(x, 3))
       \/ Runs("shl", <<x, n>>, UInt(15), ShlBy(x, n))

RightShift ==
    \E x \in ValuesOf(UInt(8)) \cup ValuesOf(SInt(8)), n \in ValuesOf(UInt(3)) :
       \/ n.p = 3 /\ Runs("shr", <<x, n>>, [w |-> 8, s |-> x.s], ShrConst(x, 3))
       \/ Runs("shr", <<x, n>>, [w |-> 8, s |-> x.s], ShrBy(x, n))

\* extract<W, 0>(shr(src, offset)); the low bits are those a narrowing cast keeps.
SymbolicExtraction ==
    \E src \in ValuesOf(UInt(SourceWidth)), offset \in ValuesOf(UInt(OffsetWidth)), w \in {4, 8} :
       Runs("shift_extract", <<src, offset>>, UInt(w), UnsafeCast(ShrBy(src, offset), w, FALSE))

\* math_eq and math_lt, which the other four are made of, as results of one bit.
MathComparison ==
    \E x \in ValuesOf(UInt(7)), y \in ValuesOf(SInt(9)) :
       \/ Runs("equal", <<x, y>>, UInt(1), AsUint1(MathEq(x, y)))
       \/ Runs("less", <<x, y>>, UInt(1), AsUint1(MathLt(x, y)))
       \/ Runs("less", <<y, x>>, UInt(1), AsUint1(MathLt(y, x)))

-----------------------------------------------------------------------------
(* type_conversions.cc *)

SafeCast ==
    \E x \in ValuesOf(UInt(8)) :
       SafeCastCompiles(x, 16, FALSE) /\ Runs("keep", <<x>>, UInt(16), UnsafeCast(x, 16, FALSE))

\* The narrowing, the widening and the reinterpretation of a SymUInt<16>.
UnsafeCasts ==
    \E x \in ValuesOf(UInt(16)), t \in {UInt(8), UInt(WideWidth), SInt(16)} :
       Runs("wrap", <<x>>, t, UnsafeCast(x, t.w, t.s))

\* as_unsigned and as_signed
Signedness ==
    \E x \in ValuesOf(SInt(8)) \cup ValuesOf(UInt(8)) :
       Runs("wrap", <<x>>, [w |-> 8, s |-> ~x.s], UnsafeCast(x, 8, ~x.s))

\* x + y with y = UInt<8>::Literal<42>(), promoted by to_symbolic
MixedSum ==
    \E x \in ValuesOf(UInt(8)) :
       LET y == ToSymbolic([w |-> 8, s |-> FALSE, x |-> 42])
       IN  Runs("add", <<x, y>>, UInt(9), Plus(x, y))

-----------------------------------------------------------------------------
(* operations.cc, on bits *)

\* ~, &, | and ^ on two operands of one type
Bitwise ==
    \E t \in {UInt(8), SInt(8)} : \E x, y \in VecsOf(t) :
       \/ y = x /\ Runs("not", <<x>>, t, W32!Vec(8, t.s, W32!Complement(8, x.b)))
       \/ Runs("and", <<x, y>>, t, W32!Vec(8, t.s, x.b \cap y.b))
       \/ Runs("or", <<x, y>>, t, W32!Vec(8, t.s, x.b \cup y.b))
       \/ Runs("xor", <<x, y>>, t, W32!Vec(8, t.s, W32!Differ(x.b, y.b)))

\* rotl<3>, rotl by a symbolic amount, rotr<3> and rotr
RotationLeft ==
    \E t \in {UInt(8), SInt(8)} : \E x \in VecsOf(t), n \in VecsOf(UInt(3)) :
       \/ Runs("rotl", <<x, 3>>, t, W32!RotlConst(x, 3))
       \/ Runs("rotl", <<x, SmallNumber[n.b]>>, t, W32!RotlBy(x, n))

RotationRight ==
    \E t \in {UInt(8), SInt(8)} : \E x \in VecsOf(t), n \in VecsOf(UInt(3)) :
       \/ Runs("rotr", <<x, 3>>, t, W32!RotrConst(x, 3))
       \/ Runs("rotr", <<x, SmallNumber[n.b]>>, t, W32!RotrBy(x, n))

\* extract<8, 24>, extract<4, 0> and extract<1, 5>
StaticExtraction ==
    \E src \in VecsOf(UInt(32)), f \in {<<8, 24>>, <<4, 0>>, <<1, 5>>} :
       Runs("extract", <<src, f[2]>>, UInt(f[1]), W32!ExtractFrom(src, f[1], f[2]))

\* extract<4> and extract<8> at an offset of type size_t
RuntimeExtraction ==
    \E src \in VecsOf(UInt(32)), w \in {4, 8} :
       W32!InWindow(4, w, 32) /\ Runs("extract", <<src, 4>>, UInt(w), W32!ExtractFrom(src, w, 4))

\* replace<13>
Replacement ==
    \E t \in {UInt(32), SInt(32)} : \E src \in VecsOf(t), field \in VecsOf(UInt(8)) :
       Runs("replace", <<src, field, 13>>, t, W32!ReplaceAt(src, field, 13))

RuntimeReplacement ==
    \E src \in VecsOf(UInt(32)), field \in VecsOf(UInt(8)) :
       W32!InWindow(4, 8, 32) /\ Runs("replace", <<src, field, 4>>, UInt(32), W32!ReplaceAt(src, field, 4))

SymbolicReplacement ==
    \E t \in {UInt(32), SInt(32)} :
       \E src \in VecsOf(t), field \in VecsOf(UInt(8)), lo \in VecsOf(UInt(5)) :
          Runs("replace", <<src, field, SmallNumber[lo.b]>>, t, W32!ReplaceBy(src, field, lo))

\* concat(b, u7) and concat(b, u7, s8)
Concatenation ==
    \E flag \in BOOLEAN, u7 \in VecsOf(UInt(7)), s8 \in VecsOf(SInt(8)) :
       LET b == W32!AsUint1(flag)
       IN  \/ Runs("concat", <<b, u7>>, UInt(8), W32!Concat(b, u7))
           \/ Runs("concat", <<b, u7, s8>>, UInt(16), W32!Concat(W32!Concat(b, u7), s8))

-----------------------------------------------------------------------------
SnippetInit ==
    /\ line = "main" /\ operands = <<>>
    /\ declared = UInt(1) /\ result = Term(1, FALSE, 0)

NumberLines ==
    \/ Addition \/ Subtraction \/ Negation \/ LeftShift \/ RightShift
    \/ SymbolicExtraction \/ MathComparison
    \/ SafeCast \/ UnsafeCasts \/ Signedness \/ MixedSum

BitLines ==
    \/ Bitwise \/ RotationLeft \/ RotationRight \/ StaticExtraction \/ RuntimeExtraction
    \/ Replacement \/ RuntimeReplacement \/ SymbolicReplacement \/ Concatenation

SnippetNext == line = "main" /\ (NumberLines \/ BitLines)

-----------------------------------------------------------------------------
(* Properties *)

(***************************************************************************)
(* Every line on numbers has the type that it declares, and computes what  *)
(* it means: sums, differences and negations exactly, left shifts and      *)
(* reinterpretations modulo the width of the result, right shifts rounding *)
(* down, comparisons by value, and a symbolic-offset extraction, composed  *)
(* of a shift and an extract (operations.cc:211-212), the bits at the      *)
(* offset, with zeros past the end of the source.                          *)
(***************************************************************************)
LinesComputeTheirMeaning ==
    LET numeric == {"add", "subtract", "negate", "shl", "shr", "shift_extract",
                    "equal", "less", "keep", "wrap"}
        n == Num(result)
        x == Num(operands[1])
        y == Num(operands[2])
    IN  line \in numeric =>
          /\ SameType(result, declared)
          /\ CASE line = "add"           -> n = x + y
               [] line = "subtract"      -> n = x - y
               [] line = "negate"        -> n = -x
               [] line = "shl"           -> n = Wrap(result.w, x * Pow2[y])
               [] line = "shr"           -> n = x \div Pow2[y]
               [] line = "shift_extract" -> n = Wrap(result.w, x \div Pow2[y])
               [] line = "equal"         -> (n = 1) = (x = y)
               [] line = "less"          -> (n = 1) = (x < y)
               [] line = "keep"          -> n = x
               [] line = "wrap"          -> (n - x) % Pow2[result.w] = 0

\* The bit of a word of w bits that is n places above bit i, going round.
Around(i, n, w) == (i + n) % w

(***************************************************************************)
(* Every line on bits has the type that it declares (a replacement keeps   *)
(* that of its source, extractions and concatenations of anything are      *)
(* unsigned: operations.cc:188-255), and every bit of its result comes     *)
(* from one place: a replacement leaves the bits outside its window, and   *)
(* drops what does not fit when the offset is symbolic; the first argument *)
(* of concat is on top.                                                    *)
(***************************************************************************)
EveryBitIsPlaced ==
    LET moving == {"not", "and", "or", "xor", "rotl", "rotr", "extract", "replace", "concat"}
        w      == result.w
        x      == operands[1]
        y      == operands[2]
        z      == operands[3]
        below  == w - x.w - y.w  \* of concat: the width of what is under y
    IN  line \in moving =>
          /\ SameType(result, declared)
          /\ \A i \in 0 .. w - 1 :
                (i \in result.b) =
                   CASE line = "not"     -> i \notin x.b
                     [] line = "and"     -> i \in x.b /\ i \in y.b
                     [] line = "or"      -> i \in x.b \/ i \in y.b
                     [] line = "xor"     -> (i \in x.b) # (i \in y.b)
                     [] line = "rotl"    -> \E k \in x.b : i = Around(k, y, w)
                     [] line = "rotr"    -> Around(i, y, w) \in x.b
                     [] line = "extract" -> i + y \in x.b
                     [] line = "replace" ->
                           IF i - z \in 0 .. y.w - 1 THEN i - z \in y.b ELSE i \in x.b
                     [] line = "concat"  ->
                           \/ i - below - y.w \in x.b
                           \/ i - below \in y.b
                           \/ i < below /\ i \in z.b
=============================================================================
