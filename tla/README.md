# Verification of z3wire

z3wire is a header-only C++ library that puts types on Z3's bit-vector
expressions: a width and a signedness for every value, arithmetic whose results
grow so that they never overflow, three casts, comparisons across types, and
concrete counterparts. This directory holds a TLA+ model of it, of a solver
session that uses it and of its example programs, the TLC runs that check the
models on small widths, and TLAPS proofs that hold at every width.

## 1. Inventory

The library keeps no global state, starts no thread and calls back nobody. What
there is to verify is (a) what each operation does to the *numbers* and the
*bits*, and (b) what a *program* gets that chains any of these calls in any
order the type system allows: objects made earlier are operands of later calls,
some objects are uninitialized, and a failed `Z3W_CHECK` ends the program. The
programs of `examples/` add (c) what is *read back* from a solver whose assertions
come and go, and (d) whether their circuits, packets and reports are right.

| Component | Source | State | Operations | What makes it correct |
| --- | --- | --- | --- | --- |
| Symbolic arithmetic, comparisons, casts, shifts | `sym_bit_vec.h:179-642, 814-885` | an object holds an expression of its own width, or nothing | `+ - *`, unary `-`, `== != < <= > >=`, `math_*`, `ite`, the three casts, `as_*`, `shl`, `shr` | results are those of integer arithmetic; the width of every result is sufficient, and not excessive; comparisons of different types are one total order; `checked_cast`'s flag and `safe_cast`'s compile-time rule tell the truth |
| Symbolic bit structure | `sym_bit_vec.h:73-87, 645-812, 887-933` | the same objects | `& \| ^ ~`, `extract`, `replace` (three forms), `concat`, `rotl`, `rotr` | every bit ends where the documentation says, windows outside the operand abort, for offsets near `SIZE_MAX` too; forms of one operation agree |
| `SymBool` | `sym_bool.h` | a Boolean expression, or nothing | connectives, equality, `ite`, conversion to and from `SymUInt<1>` and `Bool` | truth values; nothing is made from an uninitialized object |
| `BitVec` | `bit_vec.h` | a native integer (W <= 64) or an array of bytes | `Literal`, `TryFrom`, `From`, bytes in both orders, `value`, `==` | the container is canonical: sign-extended or zero-padded; conversions keep the number or say that they did not |
| Bridge | `sym_bit_vec.h:37-71, 99-153`, `sym_bool.h:86-94` | | `to_symbolic`, `to_concrete`, `From`/`TryFrom` of a raw expression, `expr` | a value comes back from the solver as it went in; sorts and widths are checked |
| `Bool` | `bool.h` | a truth value | construction, `==`, `value` | |
| Checks | `check.h` | | `Z3W_CHECK` | the program stops |
| Type traits | `type_traits.h` | | the overload an operand selects | two concrete operands are no expression; a symbolic and a concrete one are |
| Solver session | `sym_bit_vec.h:33-35, 127-153`, `sym_bool.h:24-27, 86-94`, and z3 as the programs use it | objects, assertions per push, the answer of `check`, the model in hand | variables by name, terms, flags, `add`, `push`, `pop`, `check`, `get_model`, `to_concrete` | a comparison reads as the numbers read beside it compare; a name is one variable for each width; an asserted cast keeps its value |
| Circuits | `examples/adder.cc`, `multiplier.cc`, `barrel_shifter.cc` | the bits wired so far | a gate cell, a layer | the circuit is the arithmetic that `main` compares it with |
| Solver programs | `examples/midpoint_overflow.cc`, `symbolic_execution/exact_match_table.cc`, `packet_gen.cc` | the solver's assertions, what was printed | one step per call of the solver | each question is asked alone; every witness is one; every announced report comes |
| Packet views | `examples/packet_view.cc` | one buffer, to which all views point | 17 getters and setters at three levels | the buffer is a record of independent fields in wire order |
| Usage snippets | `examples/usage/` | | a line of code | the declared type is the type returned, at the widths written |

Components call each other: a mixed operator promotes its concrete operand with
`to_symbolic`, the comparisons return `SymBool`, `ite` takes one, the casts are
built on `unsafe_cast`, the shifts on the casts, `concat` on `as_uint1`. Flags reach
the solver through `expr()`, and values come back through `to_concrete` and a model.
Nothing runs concurrently, so there are no interleavings to explore. What is hard is
numeric: extremes of particular pairs of types, widths of one bit, amounts wider
than the value they shift, offsets that wrap a `size_t`, partial bytes,
sign-extended containers; and sequential: long chains of calls, objects that
were never initialized, fields written in any order, values carried through
several forms, models that outlive their assertions, assertions that are not
retracted, offsets and carries passed by hand. The list, each at its line, is `hazards` in `PROJECT.json`.

## 2. Modules

```
TypeRanges   widths, powers of two, the numbers of a type
  Words      bit-vectors as numbers modulo 2^w: z3's arithmetic (external)
    SymBitVec      the numeric operations of sym_bit_vec.h
      SymProgram       a client program that calls them
        SymProgramProps    its properties, and the mapping to ExactIntegers
          MCSymProgram         instance for TLC
  ExactIntegers    abstract: the same program on unbounded integers
  Numbers          abstract: a value that is carried from form to form

Bits         bit-vectors as sets of positions: z3's bit operations (external)
  SymBits          the structural operations of sym_bit_vec.h
    BitProgram         a client program that calls them
      BitProgramProps      its properties, and the mapping to BitArrays
        MCBitProgram           instance for TLC
  BitVec           the operations of bit_vec.h, and to_symbolic, to_concrete
    Conversions        a client program that converts a value again and again
      ConversionsProps     its properties, and the mapping to Numbers
        MCConversions          instance for TLC
BitArrays    abstract: the same program on arrays of bits
```

On top of `SymBitVec` and `SymBits`:

```
SymBitVec
  SolverSession        a client program with a z3::solver
    SolverSessionProps   what it may rely on
      MCSolverSession      instance for TLC
  Gates                the one-bit functions of the circuits
    Circuits             adder.cc, multiplier.cc, barrel_shifter.cc
    Midpoint             the claims of midpoint_overflow.cc
  Snippets             the lines of examples/usage that compute with vectors
SymBits
  PacketFields         the fields and views of a packet
    PacketView           writes through the views of packet_view.cc, and the
                         mapping to PacketRecord
    PacketGen            the constraints of packet_gen.cc and of packet_view.cc's main
  ExactMatchTable      the path conditions of exact_match_table.cc
PacketRecord           abstract: a record of independent fields

Examples             = Circuits, PacketView, Snippets             MCExamples
SolverPrograms       = Midpoint, ExactMatchTable, PacketGen       MCSolverPrograms
```

`Examples` puts the functions that need no solver side by side: a behaviour is a
circuit that is built, a buffer that is written, or a line of a snippet.
`SolverPrograms` is one state machine for the four `main` programs that ask a solver
questions; the three modules below it say what each of them asserts, and when a value
is a solution.

Proofs: `Remainders` (integers, induction over them, and numbers of words) is used by all; then
`SymBitVecLemmas` and `SymProgramProofs` for the numeric side, `BitProgramProofs` for
the structural side, `ConversionsProofs`, `SolverSessionProofs`, `ExampleProofs` for
the circuits, the packet views and the snippets, and `SolverProgramsProofs` for the
programs that ask a solver.

### Two views of a word

A word is a number below 2^w in `Words` and a set of bit positions in `Bits`.
Arithmetic, casts, comparisons and shifts are stated with the first, slicing,
masks, rotations and bytes with the second: each keeps its operations short and
within reach of the provers. Operations that both need (`as_uint1`, the
truncating cast before a rotation) are translated in each.

### Symbolic values

A `SymBitVec<W, S>` is a term: its width, its signedness and the value that its
expression has under one assignment of the symbolic constants, arbitrary and the
same for the whole run. `NewVec` chooses the value of a variable, so that TLC's
exploration and the proofs range over all assignments. Z3's own operators
(`bvadd`, `zext`, `extract`, `ext_rotate_left`, ...) are marked external in
`PROJECT.json` and translated from their use in `sym_bit_vec.h`; everything built
from them is translated line by line, in the structure of the code: `replace`
with a symbolic offset *is* the shifted mask, `math_lt` *is* a signed or unsigned
comparison at the common width.

### State and actions

- `SymProgram`: `vecs` and `flags` are the objects made so far, `status` is
  `running`, `aborted` (a `Z3W_CHECK` failed) or `undefined`, `call` the last call
  with its operands. One action per function of the API; families that differ only
  in an operator (`<`, `<=`, ...) have an action each, `&&`, `||`, `^`, `==` of
  `SymBool` share one with a disjunct for each. Guards are the `static_assert`s:
  what does not compile is not a step. The mixed concrete and symbolic overloads
  are in the operand set: `Operands` holds the objects and the promoted concrete
  values, and `Mixed` demands a symbolic one. `checked_cast` appends both of its
  results. An object made by `SymBitVec()` is `NoExpr`: functions that use `expr()`
  abort, `ite(bool, ...)` copies it, and the connectives, which dereference the
  optional unchecked, abort or are undefined, whichever the build produces. A concrete
  `Bool` operand of `==` and `!=` is the flag that `to_symbolic` makes of it, an object
  that `NewFlag` makes.
- `BitProgram`: the same shape. Run-time windows are checked by `InWindow`; on
  failure the call is recorded and the program has aborted. `size_t` has
  `SizeValues` values, so that an offset can wrap.
- `Conversions`: `item` is the thing in hand (an integer, bytes, `BitVec`,
  `SymBitVec`, expression, `Bool`, `SymBool`), `call` the last conversion, what it
  was given and what it told (`exact`, `truncated`, `nullopt`, `aborted`, `equal`,
  `different`). A `BitVec` is stored as in the code: one native container, or bytes.
- `SolverSession`: an object is its value at *every* assignment of the solver's
  variables, with the variables that it mentions, so that asserting, solving and
  reading can be said. `frames` is the stack of assertions, `answer` what `check` said
  since they last changed, `model` the model in hand together with the assertions it
  was made under; it is not dropped when they change, as in a program. A model gives
  values to some of the mentioned variables and `to_concrete` completes it with zeros,
  as `model.eval(e, true)` does. `get_model` is called after a `sat`. The operators on
  objects are those of `SymBitVec`, taken at each assignment. Z3 chooses: every
  solution, and every set of variables that it may leave out, is a successor.
- `Circuits`: `circuit` is the one that is built, `a` and `b` one assignment of its
  inputs. A step is a cell or a layer, in the order of the calls in the code: `Chain` is
  a full adder of `adder.cc`, `Cell` and `EndRow` the half and full adders of a row of
  `multiplier.cc`, `Layer` the eight multiplexers of a layer of `barrel_shifter.cc`.
  `carry` goes from cell to cell; the words that `concat` will make are kept as numbers
  while they grow (`part` the row or chain at hand, `upper` what the next row is added
  to, `low` the finished bits of the product), and `r` is the row of bits between two
  layers. The specification that `main` compares with (`Plus`, `Times`, `ShlBy`, the
  casts) is that of `SymBitVec`.
- `PacketFields`: offsets and widths of the 17 views, nested as in the code (base
  offset plus local offset), getters by `extract`, setters by `replace`. `PacketView`
  has the one `buffer`; its steps are calls of the setters, with words of its own or
  with what another getter returned.
- `Snippets`: a step is one line of `operations.cc` or `type_conversions.cc`, for one
  value of its variables: what it computes, the type it is declared with, the result.
- `SolverPrograms`: `program` is the `main` that runs, `question` the claim, path or
  packet it is at, `frames` what its solver asserts, `line` and `reported` what is
  printed. One step per call of the solver: `NewSolver` (the table and the packets,
  which construct a solver per question), `Push` and `Pop` (the midpoint, which has one
  for both), `Add`, and `check` with what is printed after it (`ReportModel`,
  `ReportUnsat`). `exact_match_table.cc` drops the answer of `check`, and so it has no
  `ReportUnsat`: it would stop there.

### Abstract specifications

`ExactIntegers` knows integers and types only: `+` is `+`, a comparison compares,
`safe_cast` keeps the number, `unsafe_cast` keeps it modulo 2^w, `shr` is the floor
of a division. `BitArrays` knows functions from positions to bits and says for each
call which bit goes where. `Numbers` knows numbers: a conversion keeps them or
tells. `PacketRecord` knows fields: a setter changes one, an address is its four octets.
None of them mentions a representation. The refinement mappings are in the
`*Props` modules and in `PacketView`: a term is seen as its number, as its array of bits, as the number
in its container.

## 3. Runs

Every run has `CHECK_DEADLOCK FALSE`: a program that aborted, that made `MaxObjects`
objects or that reached the end of `main` really stops.

| Run | Question |
| --- | --- |
| `sym_program` | types of objects; `checked_cast`'s flag; `safe_cast`'s rule; no spare bit in a result type; total order across types; both forms of each shift agree; do programs compute what exact integers give (`ImplementsExactIntegers`)? |
| `bit_program` | bits within the width; the two algorithms of `replace` agree; fields are independent; rotations cancel; does every bit go where it should (`ImplementsBitArrays`)? |
| `conversions` | is every container canonical, however the value came by it? does everything written read back the same? do chains of conversions keep the number, or tell, wherever the code keeps to its contract (`ImplementsNumbers`)? |
| `solver_session` | does a comparison, of any two types or with a concrete number, read out of a model as the numbers read out of it compare? are the assertions that a model was made under read as true? when are two names one variable? does an asserted flag protect a cast? |
| `examples` | is every partial circuit what its inputs so far add up to, and the complete one what `main` compares it with? do getters read the wire format? do views behave as a record of fields (`ViewsAreARecord`)? do the snippets compute what their comments say, at the widths they declare? |
| `solver_programs` | is each question asked alone? is every printed witness one (of an overflow, of a path of the table, of a packet)? does every announced report come in the end? |
| `flag_meaning`, `left_shift`, `rotation`, `narrowing`, `wide_negative`, `sym_literal` | statements of the documentation that the code does not keep, see section 5 |

Every property of a passing run has a seeded fault: a definition named after the
one it replaces (`CommonWidth_NoSignBit`, `InWindow_Wrapping`,
`ToLeBytes_NoMask`, ...) with a slip a programmer could make, listed under
`mutants` in `PROJECT.json`. With the slip in place TLC refutes the property.

TLC explores 72390 states of `MCSymProgram`, 34133 of `MCBitProgram`, 15495 of
`MCConversions`, 168780 of `MCSolverSession`, 70288 of `MCExamples` and 2758 of
`MCSolverPrograms`, every action among them.

### Bounds, and why they are enough

- `MCSymProgram`: variables of one and two bits of both signednesses, widths up to
  5, three objects, shifts up to 2, one unsigned and one negative concrete value.
  Widths 1 and 2 contain the corner cases (one-bit operands, W1 < W2, W1 = W2,
  W1 > W2, extremes of both signs); 5 has room for the result of an operation on a
  result. Three objects allow a chain of two operations, and the three operands
  that transitivity takes. The proofs remove all of these bounds.
- `MCBitProgram`: variables of 1, 2 and 3 bits (three is no power of two, which
  the rotations need), widths up to 5, amounts of two and four bits (wider than the
  value), offsets 0 to 2 and the last two of a 16-valued `size_t` (which wrap when a
  width is added), rotations up to 4. Three objects are a word and two fields. The
  proofs remove these bounds as well.
- `MCConversions`: bytes of two bits and integers of two and four. Widths 1 to 6
  then cover a partial byte, a full byte, two bytes, exactly the longest integer
  (the branch for W = 64), and wide values with and without padding; byte strings
  of 0 to 4 bytes are shorter and longer than every one of them. Everything scales
  with the parameters: 8, {8, 16, 32, 64} and 64 are the values of the code.
- `MCSolverSession`: one name at two widths, another name and a Boolean, three objects,
  two levels of assertions, one negative concrete value, casts that cut and casts that
  change the sign. Three objects are a source, its narrow copy and the flag, or two
  variables and their comparison; a model may leave out any of the four variables, and
  two levels let it outlive what it was made under. Comparisons are those that extend to no
  more than `MaxWidth` bits (`Comparable`), which with `MaxWidth` 3 is every pair of objects.
- `MCExamples`, circuits: the multiplier and the shifter have the widths of the code (4
  by 4; 8 and 3), the adder 6 bits instead of 8, all with all values of the inputs. The
  proofs remove these bounds.
- `MCExamples`, packets: the 432 bits and the offsets of the code. Two writes
  (`MaxWrites`) show an effect of the second on the first; a word written
  (`SampleValues`) is empty, full, or has its lowest or its highest bit, on two
  backgrounds (`InitialBuffers`). The proofs hold for every packet, every word and any
  number of writes.
- `MCExamples`, snippets: the widths that the lines are written with, but for a source
  word of 16 bits instead of 32 (`SourceWidth`) and a widening to 24 instead of 32 (`WideWidth`), so
  that numbers stay within TLC's integers. Of a type of more than four or five bits, the
  values around its extremes and its middle (`ValuesOf`), and patterns that tell bits
  apart (`VecsOf`). The proofs hold for all values, and for the widths of the code.
- `MCSolverPrograms`: midpoints of 4 bits for 32, the smallest width at which the bits of
  the two halves interact more than once. The table has its four entries with bytes of
  two bits, its keys reduced to them, and an input without its last byte, which no offset
  names: all inputs are tried. Of the packets that the solver may return those are tried
  that put the literals of a program on a background of zeros or of ones, and those one
  bit away from these (`Candidates`): a literal at a wrong offset or of a wrong width
  differs in such a bit.

### Fairness and liveness

The library is sequential and pure, every call returns or aborts, and nothing makes
a client program call again: the client programs (`SymProgram`, `BitProgram`,
`Conversions`, `SolverSession`, `PacketView`), the functions that build a circuit and the
snippets have no fairness and only safety properties.

`SolverPrograms` has `main` programs that run to their end, and `WF_vars(Next)`: no step
waits for another thread, for input or for a lock, `check` decides quantifier-free
bit-vector formulas without a timeout, and so an enabled step is taken. They promise
reports: both verdicts of the midpoint (`BothVerdictsComeOut`), a report for each of the
K + 1 paths although the answers of `check` are dropped (`EveryPathReported`), a packet
of each kind (`EveryPacketIsFound`). What could break them is not scheduling but a solver
that still holds an old constraint or lacks a solution: `get_model` then throws, or the
program prints that there is none, and the report never comes.

## 4. Proofs

All theorems hold for every value of the constants that satisfies the stated
assumptions, in particular for all widths and programs of any length.

| Theorem | Module | Statement |
| --- | --- | --- |
| `PlusIsExact`, `MinusIsExact`, `TimesIsExact`, `NegatedIsExact` | `SymBitVecLemmas` | bit growth never loses a bit, for any pair of types |
| `MathComparisonsAreExact`, `StrictComparisonsAreExact` | `SymBitVecLemmas` | comparisons compare the numbers |
| `SafeCastIsInclusion`, `CheckedCastReportsFit` | `SymBitVecLemmas` | the rule and the flag of the casts; a safe cast keeps the number |
| `ShlConstMultiplies`, `ShlByMultiplies`, `ShrConstDivides`, `ShrByDivides` | `SymBitVecLemmas` | shifts multiply and divide by powers of two |
| `TypeCorrect`, `MathOrderHolds`, `ShiftFormsHold`, `FlagIsRight`, `SafeCastIsRight`, `ResultsAreTight` | `SymProgramProofs` | all invariants of the run `sym_program` |
| `Implementation` | `SymProgramProofs` | `Spec => ImplementsExactIntegers` |
| `BitTimesAnyIsNotMinimal` | `SymProgramProofs` | what is multiplied with one unsigned bit holds every product itself: the result type has a spare bit, at every width (section 5) |
| `TypeCorrect`, `ReplaceFormsHold`, `FieldsHold`, `RotationsHold` | `BitProgramProofs` | all invariants of the run `bit_program` |
| `Implementation` | `BitProgramProofs` | `Spec => ImplementsBitArrays` |
| `ConversionsInvariant`, `ConversionsTypes`, `RoundTripsHold` | `ConversionsProofs` | all invariants of the run `conversions`: canonical containers, and every way out of a `BitVec` leads back |
| `Implementation` | `ConversionsProofs` | `Spec => ImplementsNumbers`: a number is kept or its loss told, but for the integers of which `Numbers` promises nothing (section 5) |
| `SessionInvariant`, `SessionTypes`, `ComparisonsReadTrue`, `AssertionsHold`, `CheckedReadsMatch`, `NamesAreVariables` | `SolverSessionProofs` | all invariants of the run `solver_session`, for any number of objects, assertions, pushes and models |
| `ProgramInvariant`, `AnswersAreToTheQuestion`, `OverflowIsPrinted` | `SolverProgramsProofs` | each question is asked alone, and the printed counterexample overflows |
| `PrintedAnswersAreSolutions`, `PacketsAreWellFormed` | `SolverProgramsProofs` | what is printed solves its own question, and every field that the constraints pin has its digits at its place in the frame |
| `WitnessesTakeTheirPaths` | `SolverProgramsProofs` | a lookup by the numbers of the printed bytes takes the path they were found for and no other, for every table with unique keys |
| `BuggyOverflows`, `HackIsCorrect`, `VerdictsAreTrue` | `SolverProgramsProofs` | the two claims of `midpoint_overflow.cc` at every width, and that no other verdict is ever reported |
| `CircuitsAreTyped` | `ExampleProofs` | no chain, row or layer has a bit too many |
| `AdderAddsLowBits`, `AdderIsRight` | `ExampleProofs` | the ripple-carry adder is the sum and the carry, and every prefix of it is |
| `MultiplierRowsAddUp`, `MultiplierIsRight` | `ExampleProofs` | the array multiplier is the product, and every part of it is what it has added |
| `ShifterMovesByLowBits`, `ShifterIsRight` | `ExampleProofs` | the barrel shifter is the shift, and its first k layers are the shift by k bits of the amount |
| `GettersAreRight` | `ExampleProofs` | every view reads the bits that the wire format gives its field |
| `Implementation` | `ExampleProofs` | `Spec => ViewsAreARecord`: a setter changes its field and no other, an address is its four octets |
| `NumberLinesAreRight`, `BitLinesAreRight` | `ExampleProofs` | each line of the snippets computes what it says, at the width it declares |
| `Invariance` | `ExampleProofs` | the invariant that the theorems above rest on |

**The argument.** `TypeOK` is inductive: it says that every object holds a term of
its own width (`Terms`) or nothing. It is what the later results rest on: the
properties of values hold for *all* terms, by lemmas about the operations, so that
on a reachable state they follow from `TypeOK` alone. `FlagReportsFit` and
`SafeCastAcceptsInclusions` also speak of the last call and its operands; for them
the proof strengthens the invariant with what the last call was given and returned.
The implementation proofs take `TypeOK` in both states, map the initial state, and
map each action to the abstract action of the same call (or to a stutter), one
lemma for each group of calls.

On the numeric side each lemma has the same shape. The operands are extended to the
result width, which keeps their numbers; Z3's operation is exact modulo 2^w; the
exact result lies in the range of the result type (`ArithResultWidth` is what this
step is about); and two numbers of one range that agree modulo 2^w are equal. On the
structural side, a word is equal to another when it has the same positions, and each
operation is characterized by the positions of its result.

`NoWiderThanNecessary` says that some operands of the two types need every bit of the
result. Which operands: for each result type of two bits or more there is a number that
a type with one bit less cannot hold (`SignedNeedsAll`, `UnsignedNeedsAll`), and for each
operation and each of the four pairs of signs the proof names the extremes that reach it
(`PlusNeedsAll`, `MinusNeedsAll`, `TimesNeedsAll`, `NegatedNeedsAll`): the product of two
least signed numbers, of two greatest unsigned ones, of the least signed and the greatest
unsigned one.

For `Conversions` the inductive invariant `ConversionsInv` says what a program can hold
(`Holdable`): a native integer, bytes, a truth value, a term or an expression of some
width, or a `BitVec` that is `StoredWell`. `TypeOK` alone is not inductive, for it does
not say that a term has exactly one word or of which widths there are expressions.
The round trips rest on what the bytes of a word are: `Split` and `Assemble` are inverse
to each other for every number of bytes, a last partial byte included, reversing twice is
no change, and a sign-extended container is determined by its low bits.

For `SolverSession` the inductive invariant `SessionInv` has five parts: every object has
a value of its type at every assignment, and that of a named vector is its variable's
(`ObjectsOK`); at every assignment the narrow object of a recorded cast is the cast of its
source, and the flag is true exactly when the round trip gives the source back
(`CastsOK`); at every assignment the flag of a recorded comparison is true exactly when the
numbers of its operands compare so (`ComparedOK`); only flags are asserted (`FramesOK`); and the model in hand, completed with
zeros, is a solution of what it was made under (`ModelOK`). A new comparison is what
`MathComparisonsAreExact` says of its operands, one of which may be the term that
`to_symbolic` makes of a number; later objects change neither. `ReadsCompare` is then
`ComparedOK` at the completion, at which every object is read, those made later too.
`AssertedCastsKeepValues` then combines `CastsOK` at that assignment with
`CheckedCastReportsFit`.

For `SolverPrograms`, `ProgramInv` relates the step, the frames, the printed line and the
reports (`AskedInv`, `PrintedInv`, `TrueVerdicts`): what the frames are at each step, the
empty frame below included, that a printed pair refutes its claim, and that only the two
announced verdicts are reported. That the usual formula is wrong for
exactly the pairs whose sum overflows, and the bit-hack for none, are theorems about all
words of W bits: `x + y = (x ^ y) + 2 * (x & y)` by induction over the bits
(`CommonAndDifferent`), and a shift by one halves. For that `Midpoint` defines the
solver's `&` and `^` by the bits that the result has, not by a recursion.

`ImplementsNumbers` needs the words and the numbers of `Bits` to be two names of one
thing. What that takes is said in `Remainders` of any function that adds up the values of
its places (`IsNumbering`), since the table of the examples numbers its inputs by a
constant of its own; `Numbered` says that `Number` is one. A number is cut at any place
into a low part and a multiple of a power of two (`NumberSplits`), so that a bit of a word
is a binary digit of its number (`BitOfNumber`), two words with the same number are equal
(`NumberInjective`), and every number below 2^w is that of a word, by induction over w
(`EveryNumber`). Two numbers of one type that agree
modulo 2^w are equal (`FitUnique`): that is what every conversion which keeps w bits comes
to, and it is why the abstract value of a container does not depend on how it is stored
(`StoredNumber`: a sign-extended native integer, or bytes of which the last is masked).
Reading a byte string from its other end is reading the digits of its number in the other
order (`MirrorReverses`, from `ByteOfWord` and `AssembleAll`). The call at hand has one of
few forms, which the step lemmas (`...Maps`, one per action) take one by one; the invariant
is that of the conversions (`ConversionsInv`) with the form of the call's record (`CallForm`).

For the programs that ask a solver, `ProgramInv` says what the solver holds at each step,
from which its question is asked alone. `WitnessInv` carries this past the report: the line
that is printed satisfies the constraints of its question, or the condition of its path,
after the solver that said so is gone. The rest is about packets. A constraint on a field
fixes each of its bits (`FieldHolds`), a field of two bytes or half a byte is cut or joined
to bytes (`BytesOfField`, `HalvesOfByte`), and a byte is read back from two digits
(`ByteOfDigits`), whose order is that of the frame and not that of the bits. These hold of
any packet, and not only of the candidates that the runs try.

The table compares keys, which `extract_key` puts together bit by bit; a lookup compares
the numbers of bytes. `KeyPosition` says which bit of which byte each position of a key is,
wherever the offsets name a byte twice or leave one out, and `KeyBit` that the key has it
when the input does. The byte that is read from a number, by a quotient and a remainder, is
the number of the bits between its two places (`NumberOfBits`), and two words of one width
with the same number are the same word (`NumberUnique`). So the bytes of an input match
those of an entry exactly when its key is the entry's (`MatchIsEquality`), and then
`AllKeysUnique` leaves one path.

For `Examples` the invariant is `IInv`: `CircuitInv`, `ViewInv` and `SnippetInv`, one for
each of the parts, of which two stand still in every behaviour.

`CircuitInv` has a part for each circuit. A chain of full adders that begins with
no carry holds, after j of them, the sum of the low j bits of what it adds:
`part + 2^j * carry = x mod 2^j + y mod 2^j`. One more cell keeps that (`ChainStep`),
because a full adder adds three bits (`FullAdderAdds`) and one more bit of a number is
worth its weight (`BitOnTop`). The adder is one chain. `RowsAddUp` alone is not inductive
for the multiplier: it speaks of the whole array, and a cell only knows its own carry. The
invariant (`ArrayAdds`) says that each row is a chain that adds `Addend`, which is `a` or
0, to `upper`; that the rows before it hold the product with the low bits of `b`; and, for
the cells where the code has a half adder, that a row begins with no carry and that row 1
is added to a word that is one bit shorter. A half adder then adds what a full adder would
(`HalfAdderAdds`), and at the end of a row the product of one more bit has been added. The
shifter's invariant is `LayersShiftByLowBits` itself: a layer moves by 2^k if bit k of the
amount is set, and otherwise not. Where the circuit is complete, `PlusIsExact`,
`TimesIsExact` and `ShlByMultiplies` say what the operator that `main` compares with
computes, and `UnsafeCastIsWrap` what the cast keeps of it. So the verdicts that the three
programs ask of z3 for 8 and for 4 bits are theorems here, about every width.

For the packet views, `Layout` evaluates the nesting of base and local offsets once, to a
table of places. Different leaves have no bit in common (`LeavesAreApart`, and
`OctetsAreApart` within an address), and every place is inside the packet. That `replace`
at a constant offset is a mask and an `or` of the shifted word is `ReplacedMember`; with the
table it says which bits a setter leaves, and so what every getter reads afterwards
(`ReadBack`, `LeavesAfter`, `RestAfter`), for any packet and any word. The abstract
record's `Write` is then the image of each setter (`WriteMaps`), a copy that of a setter
with what the getter returned. `WirePlaces` sums the widths of the wire order
(`BitsBefore`) and finds the same table: the two ways of writing the layout down agree.

For the snippets, each line is an instance of a theorem of `SymBitVecLemmas` at the widths
it is written with, plus the width: the type that the line declares is the type that the
operations compute. The lines that move bits are taken position by
position: `Placed` says which bit of which operand a position holds, and `PlacedBits` that a
word which agrees at every position is the one.

**Assumptions.** Each is an `ASSUME` that TLC evaluates on its instance.

- `Pow2Assumption` (`TypeRanges`): `Pow2` doubles from each place to the next and begins
  with 1. The provers know no `^`, so the function is a constant, given by its recursion,
  and the instances give it as `2 ^ n`. Everything else about powers of two
  (`Pow2[m + n] = Pow2[m] * Pow2[n]`, `n < Pow2[n]`, `Powers`, `TopBit`, ...) is proved.
- `NumberAssumption` (`Bits`): each bit adds its weight to `Number[b]`, and the weight of
  a bit is twice that of the bit below, for the same reason.
- `ProgramAssumption`, `BitProgramAssumption`: `NoExpr` is no term, concrete values
  are in the range of their types, offsets are `size_t` values.
- `CircuitAssumption` (`Circuits`): the inputs have at least one bit, the factors two, and
  the widest word has room for the carry, the product and the widened shift.

- `NativeAssumption`, `ConversionsAssumption`: the integer types are whole bytes and the
  byte is one of them; the bytes read, and the widest value, fit whole bytes.
- `SizeAssumption` (`SymBits`): a `size_t` can hold every width. `MidpointAssumption`
  and `TableAssumption`: the widths fit, the `static_assert` on the table's keys, keys
  that have no bit above their width, and of `InputNumber` what `NumberAssumption` says.
- `ViewAssumption` (`PacketView`): a setter is given a word of its field's width, and a
  packet has 432 bits.
- `SnippetAssumption` (`Snippets`): variables have values of their types, and the widths
  have room for the results (all widths are below `MaxWidth`, and so is the largest offset).
- `SessionAssumption` (`SolverSession`): symbols are names with a width of the program's, and
  concrete values are in the range of their types.

Induction over numbers is not in the provers either: the library's theorem takes an
operator as a parameter. `SetInduction` (`Remainders`) says it of a set of numbers, and is
proved from the well-foundedness of `<`; every inductive lemma defines its set and cites it.

**Only model-checked.** All liveness (beyond the prover): `BothVerdictsComeOut`,
`EveryPathReported` and `EveryPacketIsFound`, of which the proofs give the safety half, that
no other verdict and no wrong answer is reported; and that TLC's `PowersOfTwo` and
`NumberOf` satisfy the assumptions at every width.

## 5. Where the documentation and the code differ

Found while translating. The first six are runs in which TLC shows a counterexample, the
seventh is a theorem, the eighth an `ASSUME` that TLC evaluates.

1. `flag_meaning`: the flag of `checked_cast` is documented as "value preserved" for
   "any combination of width and signedness changes". The round trip only detects
   lost bits: casting -1 from `SymSInt<W>` to `SymUInt<W>` is flagged as preserved.
   `FlagReportsFit` states for which pairs of types the flag is right, and is proved.
2. `left_shift`: "left shift by N is multiplication by 2^N" fails for negative
   values, which are sign-extended and returned as unsigned.
3. `rotation`: "rotation amounts wrap modulo the bit width" fails for amounts wider
   than the value when the width is no power of two: the amount is first truncated,
   which is modulo 2^W.
4. `narrowing`: "neither silently narrows" fails for `SInt<W>::From` of a `uint64_t`
   with its top bit set, which is converted to `int64_t` before the range check.
5. `wide_negative`: the flag of `TryFrom` is documented to tell "whether the input was
   outside the representable range" (`bit_vec.h:65-66`). For W > 64 every negative integer is
   reported, also by signed types, which represent it: `SInt<128>::TryFrom(-1)` says truncated
   and `SInt<128>::From(-1)` aborts (`bit_vec.h:80-84`). The value that comes with the flag is
   not the "two's complement bit-truncated result" (`bit_vec.h:66-67`) in 128 bits, for either
   signedness: the bytes above the integer are 0. `bit_vec_test.cc:321` tests the flag for
   `UInt<128>`, where it is right.
6. `sym_literal`: `SymSInt<8>::Literal<128>` is documented not to compile ("value
   doesn't fit"). The check of symbolic literals compares with 2^W for signed types
   too, so that it compiles and is -128; the concrete `SInt<8>::Literal<128>` is refused.
7. Result types are documented as the tightest ("No wider than necessary",
   `docs/design/bit-growth-arithmetic.md:64-65`, and "the minimal type",
   `docs/usage/operations.md:168-170`). With one-bit operands they are not:
   `SymUInt<1> * SymUInt<1>` has two bits and is 0 or 1. `BitTimesAnyIsNotMinimal` proves it
   for one unsigned bit times anything; `NoWiderThanNecessary` is the documented statement for
   operands of two bits or more, and holds.
8. `packet_gen.cc` (lines 1, 4 and 80) and `packet_view.cc:223` say that they solve for a
   valid IPv4 packet. The first pins the header checksum to 0 (`packet_gen.cc:97`), whatever
   the other fields are, and the second leaves it free, so that a receiver would in general
   drop what is printed. `SolutionsWithWrongChecksum` (`MCSolverPrograms`) exhibits solutions
   of both whose header words do not add up. `PrintedPacketsAreWellFormed` therefore says that
   a packet has what its program pins, the checksum 0 included, and not that it is valid.

Because of 4, 5 and 6 the contract of the conversions does not hold for all integers.
`Numbers` is written from the contract: an integer that a type holds is kept and not
reported, another is cut and reported. It leaves open, by name, the kinds of integers for
which the code does otherwise: the verdict on those that only an unsigned 64-bit integer
holds, into a narrow signed type, and on negative ones into a wide signed type
(`VerdictPromised`); the number that a wide type makes of a negative one (`BitsPromised`);
and the symbolic literals that only the unsigned type holds. There it allows any verdict, or
any number of the type, so that `ImplementsNumbers` and its theorem promise nothing of them.

## 6. Not modelled

- The circuits' wiring by hand. `adder.cc`, `multiplier.cc` and `barrel_shifter.cc` unroll their
  cells and multiplexers, each with the names of its own wires; `Chain`, `Cell` and `Layer` of
  `Circuits` are one cell or layer for all of them. A wrong carry, place or special case in
  the pattern is representable (the seeded faults are such), a wrong name in one cell is not.
- A name with a NUL character, which `name.c_str()` (`sym_bit_vec.h:35`) cuts: names are
  members of a set. The sums in the `static_assert`s of the static `extract` and `replace`
  (`sym_bit_vec.h:652`, `:678`) can wrap in `size_t` for template arguments near its limit;
  the static offsets of the model are small. The run-time checks (`:665`, `:707`), which do
  not add, are modelled with offsets up to the limit.
- The validity of a printed packet beyond the fields that are pinned (section 5).
- The inside of z3: its operators and its solver are translated from how the code uses
  them, and marked external.
- Several `z3::context`s: z3 refuses to mix them by an exception of its own, no code of
  the repository has more than one at a time, and `SolverSession` has one. A `check`
  that answers `unknown` does not occur for quantifier-free bit-vectors.
- Calls that do not compile (deleted constructors, unmet concepts, failed
  `static_assert`s) are not steps. The tests of them are therefore only partly covered:
  their conditions are the guards.
- The lines of `examples/usage` on Booleans, strict comparisons and `ite`, and `types.cc`:
  they repeat operations that `SymProgram` and `Conversions` have for all operands.
- Messages of `Z3W_CHECK`, `operator<<`, hexadecimal formatting but for the order of the
  digits of a packet, tests, fuzz targets, build files.

## 7. Plan

Done, in this order: the numeric operations with their program, abstract
specification and proofs; the structural operations likewise; the conversions; the
solver session; the example programs; the proofs about the circuits, the conversions, the
session and the midpoint; the refinements of the conversions and of the packet views; the
proofs about the snippets, the packets and the table. Every invariant and every refinement
that a run checks is now a theorem. What is left:

1. Proofs only where the model grows: the lines of `examples/usage` of section 6 repeat
   operations that have theorems, and would be instances of them.
2. The two accounts of words (`SymBitVecLemmas`, by terms, and `Remainders`, by numbers)
   share their lemmas about cuts; those about signed numbers could be shared as well.
