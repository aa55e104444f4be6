--------------------------- MODULE SolverPrograms ---------------------------
(***************************************************************************)
(* The main programs of the examples that ask a solver questions and print *)
(* what it answers: midpoint_overflow.cc (two claims, one solver with a    *)
(* push and a pop for each), exact_match_table.cc (a solver for each path, *)
(* whose answers are not looked at), packet_gen.cc and packet_view.cc (a   *)
(* solver for each packet).  A step is a call of the solver.               *)
(***************************************************************************)
EXTENDS Midpoint, ExactMatchTable, PacketGen

VARIABLES
    program,   \* which of the programs runs
    question,  \* the claim, path or packet it is at: 1, 2, ..., or past them
    step,      \* what it does next about it
    frames,    \* what its solver asserts: a set of constraints for each push, and one below
    line,      \* what is printed of this question, or <<>>: [question, sat, answer, output]
    reported   \* the reports so far: [question, sat]

vars == <<program, question, step, frames, line, reported>>

Programs == {"midpoint", "table", "packet_gen", "packet_view"}

Questions ==
    CASE program = "midpoint"    -> Claims
      [] program = "table"       -> [path \in 1 .. Miss |-> path]
      [] program = "packet_gen"  -> <<"ipv4", "ipv6">>
      [] program = "packet_view" -> <<"view">>

Asserted == UNION {frames[k] : k \in DOMAIN frames}

-----------------------------------------------------------------------------
(* Seeded faults.  Each is a slip that could be made in the definition it   *)
(* is named after; put in that definition's place, it must make TLC refute *)
(* the property it is listed with in PROJECT.json.                         *)

\* One solver for all questions.
FreshSolver_Shared(assertions) == assertions

\* The claim is not retracted.
Pop_Omitted ==
    /\ step = "pop"
    /\ question' = question + 1 /\ step' = "solver"
    /\ UNCHANGED <<program, frames, line, reported>>

-----------------------------------------------------------------------------
\* What a program asserts for a question.
Constraints(q) ==
    CASE program = "midpoint" -> {Claims[q]}
      [] program = "table"    -> PathCondition(q)
      [] OTHER                -> PacketConstraints(Questions[q])

(***************************************************************************)
(* The solver, external: check is sat when there is a solution, get_model  *)
(* returns one.  Of the packets those in Candidates are tried.             *)
(***************************************************************************)
Answers ==
    CASE program = "midpoint" -> Pairs
      [] program = "table"    -> Inputs
      [] OTHER                -> Candidates

IsSolution(m) ==
    \A c \in Asserted :
        CASE program = "midpoint" -> ClaimHolds(c, m)
          [] program = "table"    -> ConditionHolds(c, m)
          [] OTHER                -> ConstraintHolds(c, m)

\* z3::solver s(ctx): what it asserts, after a solver with these assertions.
FreshSolver(assertions) == {}

NewSolver ==
    /\ program # "midpoint"
    /\ step = "solver" /\ question \in DOMAIN Questions
    /\ frames' = <<FreshSolver(Asserted)>>
    /\ line' = <<>>
    /\ step' = "add"
    /\ UNCHANGED <<program, question, reported>>

Push ==
    /\ program = "midpoint"
    /\ step = "solver" /\ question \in DOMAIN Questions
    /\ frames' = Append(frames, {})
    /\ line' = <<>>
    /\ step' = "add"
    /\ UNCHANGED <<program, question, reported>>

Add ==
    /\ step = "add"
    /\ frames' = [frames EXCEPT ![Len(frames)] = @ \cup Constraints(question)]
    /\ step' = "check"
    /\ UNCHANGED <<program, question, line, reported>>

Report(sat, answer) ==
    /\ line' = [question |-> Questions[question], sat |-> sat, answer |-> answer,
                output |-> IF program = "table" THEN Output(question) ELSE ""]
    /\ reported' = reported \cup {[question |-> question, sat |-> sat]}

\* Only the midpoint's solver is used again.
AfterReport ==
    IF program = "midpoint" THEN step' = "pop" /\ UNCHANGED question
    ELSE step' = "solver" /\ question' = question + 1

\* check() is sat, and the model of get_model() is printed.
ReportModel ==
    /\ step = "check"
    /\ \E m \in Answers : Report(TRUE, m) /\ IsSolution(m)
    /\ AfterReport
    /\ UNCHANGED <<program, frames>>

(***************************************************************************)
(* check() is unsat, and that is printed.  exact_match_table.cc does not   *)
(* look at the answer: get_model() would throw, and nothing catches it.    *)
(***************************************************************************)
ReportUnsat ==
    /\ step = "check" /\ program # "table"
    /\ Report(FALSE, {}) /\ ~\E m \in Answers : IsSolution(m)
    /\ AfterReport
    /\ UNCHANGED <<program, frames>>

Pop ==
    /\ step = "pop"
    /\ frames' = SubSeq(frames, 1, Len(frames) - 1)
    /\ question' = question + 1 /\ step' = "solver"
    /\ UNCHANGED <<program, line, reported>>

-----------------------------------------------------------------------------
Init ==
    /\ program \in Programs
    /\ question = 1 /\ step = "solver"
    /\ frames = <<{}>>
    /\ line = <<>> /\ reported = {}

Next == NewSolver \/ Push \/ Add \/ ReportModel \/ ReportUnsat \/ Pop

\* main runs to its end: no step of it waits for anything, and check decides.
Spec == Init /\ [][Next]_vars /\ WF_vars(Next)

-----------------------------------------------------------------------------
(* Properties *)

Printed(name) == program = name /\ line # <<>> /\ line.sat

(***************************************************************************)
(* An answer is about its question and nothing else: when the solver is    *)
(* asked, it holds the constraints of the question at hand and none that   *)
(* an earlier one left behind, under which a proof would be vacuous        *)
(* (midpoint_overflow.cc:40-62, packet_gen.cc:114,                         *)
(* exact_match_table.cc:108).                                              *)
(***************************************************************************)
QuestionsAreAskedAlone == step = "check" => Asserted = Constraints(question)

(***************************************************************************)
(* The counterexample printed for the usual formula is a pair of numbers   *)
(* whose sum does not fit in W bits, and cut to W bits and halved it is    *)
(* not their midpoint (midpoint_overflow.cc:43-47).                        *)
(***************************************************************************)
CounterexampleOverflows ==
    Printed("midpoint") /\ line.question = "buggy" =>
        LET total == line.answer[1] + line.answer[2]
        IN  total >= Pow2[W] /\ (total - Pow2[W]) \div 2 # total \div 2

(***************************************************************************)
(* midpoint_overflow.cc ends with the two verdicts its comments announce:  *)
(* the usual formula "can overflow", and "the bit-hack always matches the  *)
(* correct result" (midpoint_overflow.cc:1-2, :54).                        *)
(***************************************************************************)
BothVerdictsComeOut ==
    program = "midpoint" =>
        <>(reported = {[question |-> 1, sat |-> TRUE], [question |-> 2, sat |-> FALSE]})

\* The table applied to a concrete input.  A byte is read from the number of a
\* word, by the powers of two at its two ends; byte 0 of the input is on top.
PowerOf(n)         == IF n = 0 THEN 1 ELSE 2 * InputNumber[{n - 1}]
ByteOf(number, lo) == (number \div PowerOf(lo)) % PowerOf(ByteBits)

Matches(input, i) ==
    \A k \in DOMAIN Offsets :
        ByteOf(InputNumber[input], ByteBits * (InputBytes - 1 - Offsets[k])) =
            ByteOf(InputNumber[Entries[i].key], ByteBits * (Len(Offsets) - k))

(***************************************************************************)
(* The witness printed for a path is an input that the table, looked up by *)
(* the numbers of its bytes in the order they are printed, sends down that *)
(* path and no other, to the output printed with it                        *)
(* (exact_match_table.cc:68-78).                                           *)
(***************************************************************************)
ReportsAreLookups ==
    Printed("table") =>
        LET path == line.question
            hits == {i \in DOMAIN Entries : Matches(line.answer, i)}
        IN  /\ hits = {path} \ {Miss}
            /\ line.output = IF hits = {} THEN MissValue
                             ELSE Entries[CHOOSE i \in hits : TRUE].value

(***************************************************************************)
(* "Under the unique-key invariant, each s.check() is always sat"          *)
(* (exact_match_table.cc:104) and "Always sat under our dimensions"        *)
(* (:125): main ignores the answers, and still reports every path, the     *)
(* miss too.                                                               *)
(***************************************************************************)
EveryPathReported ==
    program = "table" =>
        \A path \in 1 .. Miss : <>([question |-> path, sat |-> TRUE] \in reported)

\* A byte of the printed digits, byte 0 first, and two of them as a number.
Byte(digits, k) == 16 * digits[2 * k + 1] + digits[2 * k + 2]
Pair(digits, k) == 256 * Byte(digits, k) + Byte(digits, k + 1)

(***************************************************************************)
(* In a packet that is printed every field that its program pins has its   *)
(* value where the protocols have that field, when the digits are pasted   *)
(* as bytes (packet_gen.cc:3-6, 85-101, 117-127, packet_view.cc:227-232):  *)
(* an Ethernet frame of 54 bytes with the EtherType at byte 12 and the IP  *)
(* header from byte 14, whose length counts the bytes that follow.  The    *)
(* IPv4 checksum is such a field: 0, which is seldom the right one.        *)
(***************************************************************************)
PrintedPacketsAreWellFormed ==
    Printed("packet_gen") \/ Printed("packet_view") =>
        LET digits == ToHex(line.answer)
            at(k)  == Byte(digits, k)
            at2(k) == Pair(digits, k)
        IN  /\ Len(digits) = 2 * 54
            /\ line.question = "ipv4" =>
                  /\ at2(12) = \h0800 /\ at(14) = \h45 /\ at(15) = 0
                  /\ at2(16) = 54 - 14 /\ at2(18) = 0 /\ at2(20) = 0
                  /\ at(22) > 0 /\ at(23) = 253 /\ at2(24) = 0
                  /\ at(30) = 10
            /\ line.question = "ipv6" =>
                  /\ at2(12) = \h86DD /\ at2(14) = \h6000 /\ at2(16) = 0
                  /\ at2(18) = 54 - 14 - 40
                  /\ at(20) = 59 /\ at(21) > 0
            /\ line.question = "view" =>
                  /\ at2(12) = \h0800 /\ at(14) = \h45
                  /\ at2(16) = 54 - 14
                  /\ at(26) = 10

(***************************************************************************)
(* Each packet that a program solves for is found and printed: "No IPv4    *)
(* solution (unexpected)" and "No IPv6 solution (unexpected)" do not       *)
(* happen (packet_gen.cc:108, :134).                                       *)
(***************************************************************************)
EveryPacketIsFound ==
    program \in {"packet_gen", "packet_view"} =>
        <>(reported = {[question |-> n, sat |-> TRUE] : n \in DOMAIN Questions})
=============================================================================
