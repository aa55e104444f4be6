--------------------------- MODULE ExactMatchTable ---------------------------
(***************************************************************************)
(* The table of examples/symbolic_execution/exact_match_table.cc, and the  *)
(* conditions of the K+1 paths through it: a key made of bytes of the      *)
(* input is compared with the keys of K entries.                           *)
(***************************************************************************)
EXTENDS Integers, Sequences

CONSTANTS
    ByteBits,    \* the width of a byte: 8
    InputBytes,  \* the bytes of the input: 6
    Offsets,     \* kTable.offsets: which bytes make the key, first on top
    Entries,     \* kTable.entries: a sequence of [key, value]
    MissValue,   \* kMissValue
    InputNumber  \* InputNumber[b] is the number of the word b, a bit of which has its weight

InputWidth == InputBytes * ByteBits
KeyWidth   == Len(Offsets) * ByteBits

\* The bit operations, at the width of the input.
T == INSTANCE SymBits WITH MaxWidth <- InputWidth, Number <- InputNumber,
                           SizeValues <- InputWidth + 1

Inputs == T!Words(InputWidth)

\* The consteval check that the static_assert requires.
AllKeysUnique(entries) ==
    \A i, j \in DOMAIN entries : i < j => entries[i].key # entries[j].key

ASSUME TableAssumption ==
    /\ {ByteBits, InputBytes} \subseteq Nat \ {0}
    /\ Offsets \in Seq(0 .. InputBytes - 1)
    /\ InputWidth \in T!Widths /\ KeyWidth \in T!Widths
    /\ Entries \in Seq([key : T!Words(KeyWidth), value : Nat])
    /\ AllKeysUnique(Entries)
    /\ Len(Entries) < 2 ^ KeyWidth  \* the entries do not cover the keys
    /\ InputNumber \in [Inputs -> Nat] /\ InputNumber[{}] = 0
    /\ \A b \in Inputs, i \in T!Positions(InputWidth) :
          i \notin b => InputNumber[b \cup {i}] = InputNumber[b] + InputNumber[{i}]
    /\ \A i \in T!Positions(InputWidth) :
          InputNumber[{i}] = IF i = 0 THEN 1 ELSE 2 * InputNumber[{i - 1}]

Miss == Len(Entries) + 1

-----------------------------------------------------------------------------
(* Seeded faults.  Each is a slip that could be made in the definition it   *)
(* is named after; put in that definition's place, it must make TLC refute *)
(* the property it is listed with in PROJECT.json.                         *)

\* Byte 0 is taken for the low byte of the input.
ExtractByte_LsbFirst(input, off) == T!ExtractFrom(input, ByteBits, ByteBits * off)

-----------------------------------------------------------------------------
\* extract<8>(input, W - 8 - 8 * off): byte 0 is the high byte.
ExtractByte(input, off) ==
    T!ExtractFrom(input, ByteBits, InputWidth - ByteBits - ByteBits * off)

\* extract_key: z3::concat of the bytes, the first on top.
ExtractKey(input) ==
    LET n == Len(Offsets)
    IN  UNION {T!ShiftUp(KeyWidth, ExtractByte(input, Offsets[k]).b, (n - k) * ByteBits) : k \in 1 .. n}

\* What is asserted for a path: key == e.key for its entry, and key != e.key
\* for every entry when it is the miss.
PathCondition(path) ==
    IF path = Miss THEN {[same |-> FALSE, entry |-> i] : i \in DOMAIN Entries}
    ELSE {[same |-> TRUE, entry |-> path]}

ConditionHolds(c, input) ==
    (ExtractKey(T!Vec(InputWidth, FALSE, input)) = Entries[c.entry].key) = c.same

\* The output that is printed for a path.
Output(path) == IF path = Miss THEN MissValue ELSE Entries[path].value
=============================================================================
