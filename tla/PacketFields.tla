---------------------------- MODULE PacketFields ----------------------------
(***************************************************************************)
(* The views of examples/packet_view.cc: where in the packet, a SymUInt of *)
(* 432 bits, each field of each nested view is.  A view is the record of   *)
(* its fields' windows and of its sub-views; its template argument is the  *)
(* parameter base.  A window [lo, w] is w bits from bit lo.                *)
(***************************************************************************)
EXTENDS Integers, Sequences

BufW == 432

\* The bit operations at the width of the packet; no amount is read as a number.
B == INSTANCE SymBits WITH MaxWidth <- BufW, Number <- [b \in {} |-> 0],
                           SizeValues <- BufW + 1

Window(w, lo) == [w |-> w, lo |-> lo]

-----------------------------------------------------------------------------
(* Seeded faults.  Each is a slip that could be made in the definition it   *)
(* is named after; put in that definition's place, it must make TLC refute *)
(* the property it is listed with in PROJECT.json.                         *)

\* The octets are numbered from the low end.
Ipv4AddrView_LowFirst(base) ==
    [value  |-> Window(32, base),
     octet0 |-> Window(8, base),      octet1 |-> Window(8, 8 + base),
     octet2 |-> Window(8, 16 + base), octet3 |-> Window(8, 24 + base)]

-----------------------------------------------------------------------------
Ipv4AddrView(base) ==
    [value  |-> Window(32, base),
     octet0 |-> Window(8, 24 + base), octet1 |-> Window(8, 16 + base),
     octet2 |-> Window(8, 8 + base),  octet3 |-> Window(8, base)]

\* Seeded fault: the two addresses change places.
Ipv4View_AddressesSwapped(base) ==
    [version   |-> Window(4, 156 + base),  ihl       |-> Window(4, 152 + base),
     dscp_ecn  |-> Window(8, 144 + base),  total_len |-> Window(16, 128 + base),
     src_addr  |-> Ipv4AddrView(base + 0), dst_addr |-> Ipv4AddrView(base + 32)]

Ipv4View(base) ==
    [version   |-> Window(4, 156 + base),  ihl       |-> Window(4, 152 + base),
     dscp_ecn  |-> Window(8, 144 + base),  total_len |-> Window(16, 128 + base),
     src_addr  |-> Ipv4AddrView(base + 32), dst_addr |-> Ipv4AddrView(base + 0)]

EthView(base) ==
    [dst_mac |-> Window(48, 64 + base), src_mac |-> Window(48, 16 + base),
     ethertype |-> Window(16, base)]

\* The fields of HdrView, as their paths from hdr: <<"ipv4", "src_addr", "octet0">>.
EthPaths  == {<<"eth", f>> : f \in {"dst_mac", "src_mac", "ethertype"}}
Ipv4Paths == {<<"ipv4", f>> : f \in {"version", "ihl", "dscp_ecn", "total_len"}}
AddrPaths == {"ipv4"} \X {"src_addr", "dst_addr"}
                      \X {"value", "octet0", "octet1", "octet2", "octet3"}
Paths     == EthPaths \cup Ipv4Paths \cup AddrPaths

HdrView(path) ==
    LET view == IF path[1] = "eth" THEN EthView(320) ELSE Ipv4View(160)
    IN  IF Len(path) = 2 THEN view[path[2]] ELSE view[path[2]][path[3]]

-----------------------------------------------------------------------------
\* A getter, and a setter: the buffer with the field's window replaced.
Get(buffer, path) ==
    B!ExtractFrom(B!Vec(BufW, FALSE, buffer), HdrView(path).w, HdrView(path).lo).b

Replaced(buffer, path, v) ==
    B!ReplaceAt(B!Vec(BufW, FALSE, buffer), B!Vec(HdrView(path).w, FALSE, v),
                HdrView(path).lo).b
=============================================================================
