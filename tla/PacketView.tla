----------------------------- MODULE PacketView -----------------------------
(***************************************************************************)
(* The views of examples/packet_view.cc at work: a client writes fields    *)
(* and copies one to another through views that share one buffer.          *)
(***************************************************************************)
EXTENDS PacketFields

CONSTANTS
    MaxWrites,       \* bound: how many setters are called
    SampleValues(_), \* the words of a width that are written
    InitialBuffers   \* the packets to begin with

\* A setter of W bits takes a SymUInt<W>, and the buffer is one of BufW bits.
ASSUME ViewAssumption ==
    /\ \A w \in 1 .. BufW : SampleValues(w) \subseteq SUBSET (0 .. w - 1)
    /\ InitialBuffers \subseteq SUBSET (0 .. BufW - 1)

VARIABLES
    buffer,  \* *buf_, which every view points to
    call,    \* the last call, for an observer: [to, v] for a setter, [to, from] for a copy
    writes   \* how many setters have been called

viewVars == <<buffer, call, writes>>

WidthOf(path) == HdrView(path).w

-----------------------------------------------------------------------------
ViewInit ==
    /\ buffer \in InitialBuffers
    /\ call = <<>>
    /\ writes = 0

\* *buf_ = z3w::replace<...>(*buf_, v)
Write(path, v) == buffer' = Replaced(buffer, path, v)

\* set_field(v)
Set(path) ==
    /\ writes < MaxWrites
    /\ \E v \in SampleValues(WidthOf(path)) :
          call' = [to |-> path, v |-> v] /\ Write(path, v)
    /\ writes' = writes + 1

\* q.set(p.get()), for two fields of one type
Copy(p, q) ==
    /\ writes < MaxWrites
    /\ WidthOf(p) = WidthOf(q)
    /\ call' = [to |-> q, from |-> p]
    /\ Write(q, Get(buffer, p))
    /\ writes' = writes + 1

ViewNext ==
    \/ \E path \in Paths : Set(path)
    \/ \E p, q \in Paths : Copy(p, q)

-----------------------------------------------------------------------------
(* Properties *)

(***************************************************************************)
(* The headers in the order they go on the wire, most significant bit      *)
(* first, as the layout comments of the views say (packet_view.cc:83-87,   *)
(* :136-139, :172-175): name and width, the fields without a view too.     *)
(***************************************************************************)
WireOrder ==
    << <<<<"eth", "dst_mac">>, 48>>, <<<<"eth", "src_mac">>, 48>>, <<<<"eth", "ethertype">>, 16>>,
       <<<<"ipv4", "version">>, 4>>, <<<<"ipv4", "ihl">>, 4>>, <<<<"ipv4", "dscp_ecn">>, 8>>,
       <<<<"ipv4", "total_len">>, 16>>, <<<<"id">>, 16>>, <<<<"flags_frag">>, 16>>,
       <<<<"ttl">>, 8>>, <<<<"protocol">>, 8>>, <<<<"checksum">>, 16>>,
       <<<<"ipv4", "src_addr", "value">>, 32>>, <<<<"ipv4", "dst_addr", "value">>, 32>> >>

\* How many bits go before a field.
BitsBefore[k \in DOMAIN WireOrder] ==
    IF k = 1 THEN 0 ELSE BitsBefore[k - 1] + WireOrder[k - 1][2]

\* The field of w bits after the first n bits of the wire.
OnWire(n, w) == {i \in 0 .. w - 1 : (BufW - 1) - (n + (w - 1 - i)) \in buffer}

(***************************************************************************)
(* However the packet was written, every getter reads its field's bits at  *)
(* the place the headers have it on the wire: the local offsets of the     *)
(* views and the base offsets they are nested at add up                    *)
(* (packet_view.cc:126-128, :183-184).                                     *)
(***************************************************************************)
GettersReadTheWire ==
    \A k \in DOMAIN WireOrder :
        LET path == WireOrder[k][1]
        IN  path \in Paths => /\ WidthOf(path) = WireOrder[k][2]
                              /\ Get(buffer, path) = OnWire(BitsBefore[k], WireOrder[k][2])

-----------------------------------------------------------------------------
(* The packet as a record of fields *)

AddressPaths == {p \in AddrPaths : p[3] = "value"}
OctetPath(adr, n) == <<adr[1], adr[2], <<"octet0", "octet1", "octet2", "octet3">>[n + 1]>>
LeafPaths == Paths \ AddressPaths

Covered == UNION {HdrView(p).lo .. HdrView(p).lo + HdrView(p).w - 1 : p \in LeafPaths}

Fields == INSTANCE PacketRecord WITH
              Leaves <- LeafPaths, Addresses <- AddressPaths, Octet <- OctetPath,
              field <- [p \in LeafPaths |-> Get(buffer, p)],
              rest <- buffer \ Covered

(***************************************************************************)
(* "Writes at any level rewrite the same SymUInt<W>*"                      *)
(* (packet_view.cc:12-13): the buffer behaves as a record of fields.       *)
(* A setter changes its own field and no other bit of the packet, and the  *)
(* octets of an address are the address.                                   *)
(***************************************************************************)
ViewsAreARecord == Fields!Spec
=============================================================================
