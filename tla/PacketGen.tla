----------------------------- MODULE PacketGen -----------------------------
(***************************************************************************)
(* The packets that examples/packet_gen.cc and packet_view.cc solve for:   *)
(* constraints on fields of a packet, and how a model of them is printed.  *)
(***************************************************************************)
EXTENDS PacketFields

WordOf(w, literal) == {i \in 0 .. w - 1 : (literal \div 2 ^ i) % 2 = 1}

\* A constraint: the field of w bits from bit lo is, or is above, the literal.
Is(w, lo, literal) ==
    [w |-> w, lo |-> lo, above |-> FALSE, word |-> WordOf(w, literal)]
Above(w, lo, literal) ==
    [w |-> w, lo |-> lo, above |-> TRUE, word |-> WordOf(w, literal)]

Field(packet, c) == B!ExtractFrom(B!Vec(BufW, FALSE, packet), c.w, c.lo).b

\* z3::ugt: the highest bit in which the words differ is one of the first's.
Ugt(v, u) == \E i \in v \ u : \A k \in u \ v : k < i

-----------------------------------------------------------------------------
(* Seeded faults.  Each is a slip that could be made in the definition it   *)
(* is named after; put in that definition's place, it must make TLC refute *)
(* the property it is listed with in PROJECT.json.                         *)

\* The total length is taken from the IPv4 header's bytes 4 and 5.
Ipv4Constraints_LengthAtId ==
    {Is(16, 320, \h0800), Is(4, 316, 4), Is(4, 312, 5), Is(8, 304, 0),
     Is(16, 272, 40), Is(16, 256, 0), Is(8, 240, 253), Is(16, 224, 0),
     Is(8, 184, 10), Above(8, 248, 0)}

-----------------------------------------------------------------------------
(* The constraints that each part of the programs adds *)

Ipv4Constraints ==
    {Is(16, 320, \h0800), Is(4, 316, 4), Is(4, 312, 5), Is(8, 304, 0),
     Is(16, 288, 40), Is(16, 272, 0), Is(16, 256, 0), Is(8, 240, 253), Is(16, 224, 0),
     Is(8, 184, 10), Above(8, 248, 0)}

Ipv6Constraints ==
    {Is(16, 320, \h86DD), Is(4, 316, 6), Is(28, 288, 0), Is(16, 272, 0),
     Is(8, 264, 59), Above(8, 256, 0)}

ViewConstraints ==
    LET Reads(path, literal) == Is(HdrView(path).w, HdrView(path).lo, literal)
    IN  {Reads(<<"eth", "ethertype">>, \h0800), Reads(<<"ipv4", "version">>, 4),
         Reads(<<"ipv4", "ihl">>, 5), Reads(<<"ipv4", "total_len">>, 40),
         Reads(<<"ipv4", "src_addr", "octet0">>, 10)}

PacketConstraints(packet) ==
    CASE packet = "ipv4" -> Ipv4Constraints
      [] packet = "ipv6" -> Ipv6Constraints
      [] packet = "view" -> ViewConstraints

ConstraintHolds(c, packet) ==
    IF c.above THEN Ugt(Field(packet, c), c.word) ELSE Field(packet, c) = c.word

(***************************************************************************)
(* Bound: of the 2^432 packets, those are tried that put the literals on a *)
(* background of zeros or of ones, and those that are one bit away.        *)
(***************************************************************************)
Imposed(constraints, background) ==
    LET fixed == {c \in constraints : ~c.above}
    IN  (background \ UNION {c.lo .. c.lo + c.w - 1 : c \in fixed})
            \cup UNION {{i + c.lo : i \in c.word} : c \in fixed}

Candidates ==
    LET constraints == {Ipv4Constraints, Ipv6Constraints, ViewConstraints}
        starts == {Imposed(cs, background) : cs \in constraints, background \in {{}, 0 .. BufW - 1}}
    IN  starts \cup {B!Differ(p, {i}) : p \in starts, i \in 0 .. BufW - 1}

\* The digit of a word of four bits.
DigitOf(word) ==
    LET weight(i) == IF i \in word THEN 2 ^ i ELSE 0
    IN  weight(0) + weight(1) + weight(2) + weight(3)

\* to_hex: a digit for every four bits of the model, the high ones first.
ToHex(m) ==
    [k \in 1 .. BufW \div 4 |-> DigitOf(B!Slice(m, BufW - 1 - 4 * (k - 1), BufW - 4 * k))]
=============================================================================
