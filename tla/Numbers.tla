------------------------------ MODULE Numbers ------------------------------
(***************************************************************************)
(* What z3wire promises a program that carries a value from form to form:  *)
(* the value is a number, and a conversion either keeps it or says that it *)
(* did not, but for the integers of which IntoVec says that nothing is     *)
(* promised.  Stated for numbers: containers, sign extension, padding and  *)
(* byte order are not part of it.                                          *)
(***************************************************************************)
EXTENDS TypeRanges

CONSTANTS
    ByteBits,      \* the width of a byte
    NativeWidths,  \* the widths of the machine's integers
    Longest,       \* the widest of them
    VecTypes,      \* the types of bit-vectors in use: records [w, s]
    Inputs         \* the byte strings that can be read: records [w, n]

VARIABLES
    thing,  \* the number: [kind, w, s, n]; w counts the bytes of a byte string
    call    \* the last call: [op, arg, told]

vars == <<thing, call>>

Of(kind, w, s, n) == [kind |-> kind, w |-> w, s |-> s, n |-> n]

Empty == Of("bytes", 0, FALSE, 0)

\* The number of type (w, s) that is equal to x in the low w bits.
Fit(w, s, x) == CHOOSE y \in ValueSet(w, s) : (x - y) % Pow2[w] = 0

Narrow(w) == w <= Longest

NumBytes(w) == CHOOSE n \in 1 .. w : (n - 1) * ByteBits < w /\ w <= n * ByteBits

\* The i-th byte of a number, and the number of len bytes read from the other end.
ByteOf(n, i) == (n \div Pow2[i * ByteBits]) % Pow2[ByteBits]

Mirror(len, n) ==
    CHOOSE m \in 0 .. Pow2[len * ByteBits] - 1 :
        \A i \in 0 .. len - 1 : ByteOf(m, i) = ByteOf(n, len - 1 - i)

Going == call.told # "aborted"

Starts == call.op = "start"

Fresh(op, t) == thing' = t /\ call' = [op |-> op, arg |-> t, told |-> "made"]

Convert(op, told, t) ==
    call' = [op |-> op, arg |-> thing, told |-> told] /\ Going /\ thing' = t

-----------------------------------------------------------------------------
Read ==
    /\ Starts
    /\ \/ \E w \in NativeWidths, s \in BOOLEAN :
             \E n \in ValueSet(w, s) : Fresh("int", Of("int", w, s, n))
       \/ \E in \in Inputs : Fresh("bytes", Of("bytes", in.w, FALSE, in.n))
       \/ \E n \in {0, 1} :
             \/ Fresh("bool", Of("bool", 0, FALSE, n))
             \/ Fresh("variable", Of("symbool", 0, FALSE, n))
       \/ \E ty \in VecTypes :
             \/ \E n \in ValueSet(ty.w, ty.s) : Fresh("variable", Of("sym", ty.w, ty.s, n))
             \/ Fresh("default", Of("vec", ty.w, ty.s, 0))

\* A literal is the number that was written; a wide one is not negative.
Literal ==
    /\ Starts
    /\ \E ty \in VecTypes, n \in ValueSet(Longest, TRUE) :
          /\ n \in ValueSet(ty.w, ty.s)
          /\ Narrow(ty.w) \/ n >= 0
          /\ Fresh("literal", Of("vec", ty.w, ty.s, n))

\* A symbolic literal is the number that was written, if its type holds it; no
\* other is to compile.  Nothing is promised of those that only an unsigned type
\* of that width holds: they do compile.
SymbolicLiteral ==
    /\ Starts
    /\ \E ty \in VecTypes, written \in ValueSet(Longest, FALSE) :
          \E n \in ValueSet(ty.w, ty.s) :
             /\ written \in ValueSet(ty.w, FALSE)
             /\ written \in ValueSet(ty.w, ty.s) => n = written
             /\ thing' = Of("sym", ty.w, ty.s, n)
             /\ call' = [op |-> "Literal", arg |-> Of("int", Longest, FALSE, written),
                         told |-> "made"]

(***************************************************************************)
(* Into a type that holds it a number is kept.  For another number the one *)
(* with its low w bits is made, and the loss is told: that is what the     *)
(* code says of itself (bit_vec.h:65-68).  It does not keep to it in the   *)
(* cases left open here, in which this specification allows any verdict,   *)
(* or any number of the type; runs of their own show what goes wrong.      *)
(***************************************************************************)
\* Not promised: the verdict on an unsigned integer that no signed one holds,
\* into a narrow signed type, and on a negative one into a wide signed type.
VerdictPromised(ty, n) ==
    ty.s => IF Narrow(ty.w) THEN n \in ValueSet(Longest, TRUE) ELSE n >= 0

\* Not promised: what a wide type makes of a negative integer.
BitsPromised(ty, n) == Narrow(ty.w) \/ n >= 0

IntoVec ==
    /\ thing.kind = "int"
    /\ \E ty \in VecTypes :
          \E n \in ValueSet(ty.w, ty.s), told \in {"exact", "truncated"} :
             /\ BitsPromised(ty, thing.n) => n = Fit(ty.w, ty.s, thing.n)
             /\ VerdictPromised(ty, thing.n) =>
                   (told = "exact" <=> thing.n \in ValueSet(ty.w, ty.s))
             /\ LET vec == Of("vec", ty.w, ty.s, n)
                IN  \/ Convert("TryFrom", told, vec)
                    \/ told = "exact" /\ Convert("From", told, vec)
                    \/ told = "truncated" /\ Convert("From", "aborted", thing)

\* A byte string of any length is a number, kept when it has at most w bits.
FromBytes(try, from, number) ==
    /\ thing.kind = "bytes"
    /\ \E ty \in VecTypes :
          LET vec == Of("vec", ty.w, ty.s, Fit(ty.w, ty.s, number))
          IN  IF number < Pow2[ty.w]
                THEN Convert(try, "exact", vec) \/ Convert(from, "exact", vec)
                ELSE Convert(try, "truncated", vec) \/ Convert(from, "aborted", thing)

IntoVecFromBytes ==
    \/ FromBytes("TryFromLeBytes", "FromLeBytes", thing.n)
    \/ FromBytes("TryFromBeBytes", "FromBeBytes", Mirror(thing.w, thing.n))

\* value() gives the number itself, in the smallest integer type for w bits.
TakeValue ==
    /\ thing.kind = "vec"
    /\ \E n \in NativeWidths :
          /\ thing.w <= n
          /\ \A m \in NativeWidths : thing.w <= m => n <= m
          /\ Convert("value", "exact", Of("int", n, thing.s, thing.n))

\* The bytes of the low w bits of the number, and none more.
Serialize ==
    /\ thing.kind = "vec"
    /\ LET len == NumBytes(thing.w)
           n   == thing.n % Pow2[thing.w]
       IN  \/ Convert("ToLeBytes", "exact", Of("bytes", len, FALSE, n))
           \/ Convert("ToBeBytes", "exact", Of("bytes", len, FALSE, Mirror(len, n)))

\* Equal objects are equal numbers.
Compare ==
    /\ thing.kind = "vec"
    /\ \E n \in ValueSet(thing.w, thing.s) :
          Convert("==", IF n = thing.n THEN "equal" ELSE "different",
                  [thing EXCEPT !.n = n])

\* Concrete and symbolic: always the same number.
Becomes(op, from, to) ==
    thing.kind = from /\ Convert(op, "exact", [thing EXCEPT !.kind = to])

ThroughSolver ==
    \/ Becomes("to_symbolic", "vec", "sym")  \/ Becomes("to_symbolic", "bool", "symbool")
    \/ Becomes("to_concrete", "sym", "vec")  \/ Becomes("to_concrete", "symbool", "bool")

\* A raw expression has a sort, of w bits or of Booleans (w = 0), and no sign.
TakeExpr ==
    \/ /\ thing.kind = "sym"
       /\ Convert("expr", "exact", Of("expr", thing.w, FALSE, thing.n % Pow2[thing.w]))
    \/ Becomes("expr", "symbool", "expr")

FromExpr ==
    /\ thing.kind = "expr"
    /\ \E ty \in VecTypes \cup {[w |-> 0, s |-> FALSE]} :
          LET t == IF ty.w = 0 THEN Of("symbool", 0, FALSE, thing.n)
                               ELSE Of("sym", ty.w, ty.s, Fit(ty.w, ty.s, thing.n))
          IN  IF thing.w = ty.w
                THEN Convert("From", "exact", t) \/ Convert("TryFrom", "exact", t)
                ELSE Convert("From", "aborted", thing) \/ Convert("TryFrom", "nullopt", thing)

-----------------------------------------------------------------------------
Init ==
    /\ thing = Empty
    /\ call = [op |-> "start", arg |-> Empty, told |-> "made"]

Next ==
    \/ Read \/ Literal \/ SymbolicLiteral \/ IntoVec \/ IntoVecFromBytes
    \/ TakeValue \/ Serialize \/ Compare
    \/ ThroughSolver \/ TakeExpr \/ FromExpr

Spec == Init /\ [][Next]_vars
=============================================================================
