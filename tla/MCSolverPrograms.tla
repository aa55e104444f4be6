-------------------------- MODULE MCSolverPrograms --------------------------
(***************************************************************************)
(* Instances of SolverPrograms for TLC: the packets as they are in the     *)
(* code, midpoints of four bits, and the offsets and the four entries of   *)
(* the table with bytes of two bits: keys that are as different from each  *)
(* other as in the code, and an input without its last byte, which no      *)
(* offset names.                                                           *)
(***************************************************************************)
EXTENDS SolverPrograms

PowersOfTwo == [n \in 0 .. MaxWidth |-> 2 ^ n]

NumberOf == [word \in SUBSET (0 .. InputWidth - 1) |-> MapThenSumSet(LAMBDA i : 2 ^ i, word)]

KeyBytes == <<0, 2, 4>>

\* The keys <<2,3,0>>, <<1,2,3>>, <<1,2,1>> and <<0,1,2>>.
FourEntries ==
    <<[key |-> {5, 3, 2}, value |-> 1], [key |-> {4, 3, 1, 0}, value |-> 2],
      [key |-> {4, 3, 0}, value |-> 3], [key |-> {2, 1}, value |-> 4]>>

(***************************************************************************)
(* The programs say that they solve for valid IPv4 packets                 *)
(* (packet_gen.cc:80, packet_view.cc:223).  Not every solution is one: a   *)
(* receiver adds up the ten words of the header, and the sum must be a     *)
(* multiple of 2^16 - 1.  packet_gen.cc:97 asserts that the checksum is 0, *)
(* whatever the other fields are, and packet_view.cc asserts nothing.      *)
(***************************************************************************)
ChecksumIsRight(packet) ==
    MapThenSumSet(LAMBDA k : Pair(ToHex(packet), 14 + 2 * k), 0 .. 9) % 65535 = 0

ASSUME SolutionsWithWrongChecksum ==
    \A constraints \in {Ipv4Constraints, ViewConstraints} :
        \E packet \in Candidates :
            /\ \A c \in constraints : ConstraintHolds(c, packet)
            /\ ~ChecksumIsRight(packet)
=============================================================================
