---------------------------- MODULE PacketRecord ----------------------------
(***************************************************************************)
(* What the views of examples/packet_view.cc promise: the packet behaves   *)
(* as a record of independent fields.  An address is its four octets, the  *)
(* first the most significant, and can also be read and written whole.     *)
(***************************************************************************)
EXTENDS Integers

CONSTANTS
    Leaves,         \* the fields that are not made of others
    Addresses,      \* the fields that are: four octets each
    Octet(_, _),    \* Octet(adr, n) is the leaf of the n-th octet of an address
    WidthOf(_),     \* the width of a field
    SampleValues(_) \* the words of a width that are written

VARIABLES
    call,   \* the last call: [to, v] for a setter, [to, from] for a copy
    field,  \* the word of each leaf
    rest    \* the bits of the packet that belong to no field

vars == <<call, field, rest>>

Octets(adr) == {Octet(adr, n) : n \in 0 .. 3}

\* The n-th octet of a word of 32 bits, and the word whose octets these are.
OctetOf(v, n) == {i - 8 * (3 - n) : i \in v \cap (8 * (3 - n) .. 8 * (3 - n) + 7)}

Whole(adr) ==
    LET octet == field
    IN  UNION {{i + 8 * (3 - n) : i \in octet[Octet(adr, n)]} : n \in 0 .. 3}

Value(p) == IF p \in Addresses THEN Whole(p) ELSE field[p]

\* What writing p writes: itself, or the four octets.
Written(p, v) ==
    IF p \in Addresses
      THEN [f \in Octets(p) |-> OctetOf(v, CHOOSE n \in 0 .. 3 : f = Octet(p, n))]
      ELSE [f \in {p} |-> v]

Write(p, v) ==
    LET new == Written(p, v)
    IN  /\ field' = [f \in Leaves |-> IF f \in DOMAIN new THEN new[f] ELSE field[f]]
        /\ UNCHANGED rest

Set(p) ==
    \E v \in SampleValues(WidthOf(p)) : call' = [to |-> p, v |-> v] /\ Write(p, v)

Copy(p, q) ==
    /\ call' = [to |-> q, from |-> p]
    /\ WidthOf(p) = WidthOf(q)
    /\ Write(q, Value(p))

Next ==
    \/ \E p \in Leaves \cup Addresses : Set(p)
    \/ \E p, q \in Leaves \cup Addresses : Copy(p, q)

Spec == [][Next]_vars
=============================================================================
