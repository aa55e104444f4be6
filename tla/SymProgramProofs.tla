-------------------------- MODULE SymProgramProofs --------------------------
(***************************************************************************)
(* Proofs, for every width and every program, of what SymProgramProps      *)
(* states: type correctness, the properties of casts, comparisons and      *)
(* shifts, and the implementation of ExactIntegers.                        *)
(***************************************************************************)
EXTENDS SymProgramProps, SymBitVecLemmas

-----------------------------------------------------------------------------
(* Operands and calls *)

\* Short sequences.
LEMMA ShortSeq ==
  ASSUME NEW S
  PROVE  /\ << >> \in Seq(S)
         /\ \A x \in S : <<x>> \in Seq(S)
         /\ \A x, y \in S : <<x, y>> \in Seq(S)
         /\ \A x, y, z \in S : <<x, y, z>> \in Seq(S)
OBVIOUS

\* What is taken from the objects is of their type.
LEMMA MadeType ==
  ASSUME TypeOK
  PROVE  /\ MadeVecs \subseteq Terms \cup {NoExpr}
         /\ MadeFlags \subseteq BOOLEAN \cup {NoExpr}
         /\ Held \subseteq Terms
         /\ HeldFlags \subseteq BOOLEAN
         /\ Operands \subseteq Terms
<1>1. \A i \in 1 .. Len(vecs) : vecs[i] \in Terms \cup {NoExpr}
  BY DEF TypeOK
<1>2. \A i \in 1 .. Len(flags) : flags[i] \in BOOLEAN \cup {NoExpr}
  BY DEF TypeOK
<1>3. MadeVecs \subseteq Terms \cup {NoExpr} /\ Held \subseteq Terms
  BY <1>1 DEF MadeVecs, Held
<1>4. MadeFlags \subseteq BOOLEAN \cup {NoExpr} /\ HeldFlags \subseteq BOOLEAN
  BY <1>2 DEF MadeFlags, HeldFlags
<1>5. \A c \in Concretes : ToSymbolic(c) \in Terms
  BY ProgramAssumption, ToSymbolicIsExact
<1>6. QED
  BY <1>3, <1>4, <1>5 DEF Operands

\* The calls that are made are calls.
LEMMA CallType ==
  ASSUME NEW op \in Ops, NEW vals \in Seq(Terms \cup {NoExpr}),
         NEW conds \in Seq(BOOLEAN), NEW n \in Nat
  PROVE  Call(op, vals, conds, n) \in Calls
BY DEF Call, Calls

\* The names that the calls use.
LEMMA OpNames ==
  /\ "start" \in Ops /\ "variable" \in Ops /\ "boolean" \in Ops /\ "declare" \in Ops
  /\ "to_symbolic" \in Ops
  /\ "+" \in Ops /\ "-" \in Ops /\ "*" \in Ops /\ "neg" \in Ops
  /\ "==" \in Ops /\ "!=" \in Ops /\ "<" \in Ops /\ "<=" \in Ops
  /\ ">" \in Ops /\ ">=" \in Ops
  /\ "ite" \in Ops /\ "unsafe_cast" \in Ops /\ "safe_cast" \in Ops /\ "checked_cast" \in Ops
  /\ "as_uint1" \in Ops /\ "as_bool" \in Ops
  /\ "shl" \in Ops /\ "shr" \in Ops /\ "&&" \in Ops /\ "||" \in Ops
  /\ "xor" \in Ops /\ "iff" \in Ops /\ "not" \in Ops
BY DEF Ops

\* A call on terms and Booleans.
LEMMA ShortCalls ==
  ASSUME NEW op \in Ops, NEW n \in Nat
  PROVE  /\ Call(op, <<>>, <<>>, n) \in Calls
         /\ \A a \in Terms : Call(op, <<a>>, <<>>, n) \in Calls
         /\ \A a, b \in Terms : Call(op, <<a, b>>, <<>>, n) \in Calls
         /\ \A a, b \in Terms \cup {NoExpr}, c \in BOOLEAN :
               Call(op, <<a, b>>, <<c>>, n) \in Calls
         /\ \A c \in BOOLEAN : Call(op, <<>>, <<c>>, n) \in Calls
         /\ \A c, d \in BOOLEAN : Call(op, <<>>, <<c, d>>, n) \in Calls
         /\ \A c, d, e \in BOOLEAN : Call(op, <<>>, <<c, d, e>>, n) \in Calls
BY ShortSeq, CallType

\* A call that makes an object keeps the types.
LEMMA ReturnVecType ==
  ASSUME TypeOK, NEW c \in Calls, NEW t \in Terms \cup {NoExpr}, ReturnVec(c, t)
  PROVE  TypeOK'
BY DEF TypeOK, ReturnVec

\* A call that makes a Boolean keeps the types.
LEMMA ReturnFlagType ==
  ASSUME TypeOK, NEW c \in Calls, NEW b \in BOOLEAN \cup {NoExpr}, ReturnFlag(c, b)
  PROVE  TypeOK'
BY DEF TypeOK, ReturnFlag

-----------------------------------------------------------------------------
(* Type correctness: one lemma per group of calls *)

\* Constructors and to_symbolic.
LEMMA ConstructorsType ==
  ASSUME TypeOK, NewVec \/ NewFlag \/ DeclareVec \/ DeclareFlag \/ Promote
  PROVE  TypeOK'
<1>1. CASE NewVec
  <2>0. PICK ty \in InputTypes : \E p \in Patterns(ty.w) :
          ReturnVec(Call("variable", <<>>, <<>>, 0), Term(ty.w, ty.s, p))
    BY <1>1 DEF NewVec
  <2>1. PICK p \in Patterns(ty.w) :
          ReturnVec(Call("variable", <<>>, <<>>, 0), Term(ty.w, ty.s, p))
    BY <2>0
  <2>2. ty \in Types /\ ty.w \in Widths /\ ty.s \in BOOLEAN
    BY ProgramAssumption DEF Types
  <2>3. p \in Nat
    BY <2>2, RangeBounds DEF Patterns
  <2>4. Term(ty.w, ty.s, p) \in Terms
    BY <2>2, <2>3 DEF Term, Terms
  <2>5. QED
    BY <2>1, <2>4, OpNames, ShortCalls, ReturnVecType
<1>2. CASE NewFlag
  BY <1>2, OpNames, ShortCalls, ReturnFlagType DEF NewFlag
<1>3. CASE DeclareVec
  BY <1>3, OpNames, ShortCalls, ReturnVecType DEF DeclareVec
<1>4. CASE DeclareFlag
  BY <1>4, OpNames, ShortCalls, ReturnFlagType DEF DeclareFlag
<1>5. CASE Promote
  <2>1. PICK c \in Concretes :
          ReturnVec(Call("to_symbolic", <<ToSymbolic(c)>>, <<>>, 0), ToSymbolic(c))
    BY <1>5 DEF Promote
  <2>2. ToSymbolic(c) \in Terms
    BY ProgramAssumption, ToSymbolicIsExact
  <2>3. QED
    BY <2>1, <2>2, OpNames, ShortCalls, ReturnVecType
<1>6. QED
  BY <1>1, <1>2, <1>3, <1>4, <1>5

\* The arithmetic operators.
LEMMA ArithmeticType ==
  ASSUME TypeOK, Add \/ Subtract \/ Multiply \/ Negate
  PROVE  TypeOK'
<1>1. CASE Add
  <2>1. PICK a \in Operands, b \in Operands :
          /\ ArithResultWidth(a, b) <= MaxWidth
          /\ ReturnVec(Call("+", <<a, b>>, <<>>, 0), Plus(a, b))
    BY <1>1 DEF Add
  <2>2. a \in Terms /\ b \in Terms
    BY MadeType
  <2>3. Plus(a, b) \in Terms
    BY <2>1, <2>2, PlusIsExact
  <2>4. QED
    BY <2>1, <2>2, <2>3, OpNames, ShortCalls, ReturnVecType
<1>2. CASE Subtract
  <2>1. PICK a \in Operands, b \in Operands :
          /\ ArithResultWidth(a, b) <= MaxWidth
          /\ ReturnVec(Call("-", <<a, b>>, <<>>, 0), Minus(a, b))
    BY <1>2 DEF Subtract
  <2>2. a \in Terms /\ b \in Terms
    BY MadeType
  <2>3. Minus(a, b) \in Terms
    BY <2>1, <2>2, MinusIsExact
  <2>4. QED
    BY <2>1, <2>2, <2>3, OpNames, ShortCalls, ReturnVecType
<1>3. CASE Multiply
  <2>1. PICK a \in Operands, b \in Operands :
          /\ a.w + b.w <= MaxWidth
          /\ ReturnVec(Call("*", <<a, b>>, <<>>, 0), Times(a, b))
    BY <1>3 DEF Multiply
  <2>2. a \in Terms /\ b \in Terms
    BY MadeType
  <2>3. Times(a, b) \in Terms
    BY <2>1, <2>2, TimesIsExact
  <2>4. QED
    BY <2>1, <2>2, <2>3, OpNames, ShortCalls, ReturnVecType
<1>4. CASE Negate
  <2>1. PICK a \in Held :
          a.w < MaxWidth /\ ReturnVec(Call("neg", <<a>>, <<>>, 0), Negated(a))
    BY <1>4 DEF Negate
  <2>2. a \in Terms
    BY MadeType
  <2>3. Negated(a) \in Terms
    BY <2>1, <2>2, NegatedIsExact
  <2>4. QED
    BY <2>1, <2>2, <2>3, OpNames, ShortCalls, ReturnVecType
<1>5. QED
  BY <1>1, <1>2, <1>3, <1>4

\* Every comparison returns a Boolean.
LEMMA CompareType ==
  ASSUME TypeOK, NEW op \in Ops, NEW a \in Operands, NEW b \in Operands,
         NEW result \in BOOLEAN, Compare(op, a, b, result)
  PROVE  TypeOK'
<1>1. a \in Terms /\ b \in Terms
  BY MadeType
<1>2. QED
  BY <1>1, OpNames, ShortCalls, ReturnFlagType DEF Compare

\* The results of the comparisons are Booleans.
LEMMA ComparisonResults ==
  /\ \A a, b : Eq(a, b) \in BOOLEAN /\ MathEq(a, b) \in BOOLEAN
  /\ \A a, b : Lt(a, b) \in BOOLEAN
  /\ \A a, b : MathLt(a, b) \in BOOLEAN
<1>1. \A a, b : Eq(a, b) \in BOOLEAN /\ MathEq(a, b) \in BOOLEAN
  BY DEF Eq, MathEq
<1>0. \A w, p, q : Slt(w, p, q) \in BOOLEAN /\ Ult(p, q) \in BOOLEAN
  BY DEF Slt, Ult
<1>2. \A a, b : Lt(a, b) \in BOOLEAN
  BY <1>0 DEF Lt
<1>3. \A a, b : MathLt(a, b) \in BOOLEAN
  BY <1>0, Zenon DEF MathLt
<1>4. QED
  BY <1>1, <1>2, <1>3

\* The strict comparisons.
LEMMA StrictComparisonsType ==
  ASSUME TypeOK,
         \/ EqualTo \/ NotEqualTo \/ LessThan \/ AtMost \/ GreaterThan \/ AtLeast
  PROVE  TypeOK'
<1>1. CASE EqualTo
  <2>1. PICK a \in Operands, b \in Operands : Compare("==", a, b, Eq(a, b))
    BY <1>1 DEF EqualTo
  <2>2. Eq(a, b) \in BOOLEAN
    BY ComparisonResults
  <2>3. QED
    BY <2>1, <2>2, OpNames, CompareType
<1>2. CASE NotEqualTo
  <2>1. PICK a \in Operands, b \in Operands : Compare("!=", a, b, ~Eq(a, b))
    BY <1>2 DEF NotEqualTo
  <2>2. Eq(a, b) \in BOOLEAN
    BY ComparisonResults
  <2>3. QED
    BY <2>1, <2>2, OpNames, CompareType
<1>3. CASE LessThan
  <2>1. PICK a \in Operands, b \in Operands : Compare("<", a, b, Lt(a, b))
    BY <1>3 DEF LessThan
  <2>2. Lt(a, b) \in BOOLEAN
    BY ComparisonResults
  <2>3. QED
    BY <2>1, <2>2, OpNames, CompareType
<1>4. CASE AtMost
  <2>1. PICK a \in Operands, b \in Operands : Compare("<=", a, b, ~Lt(b, a))
    BY <1>4 DEF AtMost
  <2>2. Lt(b, a) \in BOOLEAN
    BY ComparisonResults
  <2>3. QED
    BY <2>1, <2>2, OpNames, CompareType
<1>5. CASE GreaterThan
  <2>1. PICK a \in Operands, b \in Operands : Compare(">", a, b, Lt(b, a))
    BY <1>5 DEF GreaterThan
  <2>2. Lt(b, a) \in BOOLEAN
    BY ComparisonResults
  <2>3. QED
    BY <2>1, <2>2, OpNames, CompareType
<1>6. CASE AtLeast
  <2>1. PICK a \in Operands, b \in Operands : Compare(">=", a, b, ~Lt(a, b))
    BY <1>6 DEF AtLeast
  <2>2. Lt(a, b) \in BOOLEAN
    BY ComparisonResults
  <2>3. QED
    BY <2>1, <2>2, OpNames, CompareType
<1>7. QED
  BY <1>1, <1>2, <1>3, <1>4, <1>5, <1>6

\* The math_ comparisons.
LEMMA MathComparisonsType ==
  ASSUME TypeOK,
         \/ MathEqualTo \/ MathNotEqualTo
         \/ MathLessThan \/ MathAtMost \/ MathGreaterThan \/ MathAtLeast
  PROVE  TypeOK'
<1>1. CASE MathEqualTo
  <2>1. PICK a \in Operands, b \in Operands : Compare("==", a, b, MathEq(a, b))
    BY <1>1 DEF MathEqualTo
  <2>2. MathEq(a, b) \in BOOLEAN
    BY ComparisonResults
  <2>3. QED
    BY <2>1, <2>2, OpNames, CompareType
<1>2. CASE MathNotEqualTo
  <2>1. PICK a \in Operands, b \in Operands : Compare("!=", a, b, ~MathEq(a, b))
    BY <1>2 DEF MathNotEqualTo
  <2>2. MathEq(a, b) \in BOOLEAN
    BY ComparisonResults
  <2>3. QED
    BY <2>1, <2>2, OpNames, CompareType
<1>3. CASE MathLessThan
  <2>1. PICK a \in Operands, b \in Operands : Compare("<", a, b, MathLt(a, b))
    BY <1>3 DEF MathLessThan
  <2>2. MathLt(a, b) \in BOOLEAN
    BY ComparisonResults
  <2>3. QED
    BY <2>1, <2>2, OpNames, CompareType
<1>4. CASE MathAtMost
  <2>1. PICK a \in Operands, b \in Operands : Compare("<=", a, b, ~MathLt(b, a))
    BY <1>4 DEF MathAtMost
  <2>2. MathLt(b, a) \in BOOLEAN
    BY ComparisonResults
  <2>3. QED
    BY <2>1, <2>2, OpNames, CompareType
<1>5. CASE MathGreaterThan
  <2>1. PICK a \in Operands, b \in Operands : Compare(">", a, b, MathLt(b, a))
    BY <1>5 DEF MathGreaterThan
  <2>2. MathLt(b, a) \in BOOLEAN
    BY ComparisonResults
  <2>3. QED
    BY <2>1, <2>2, OpNames, CompareType
<1>6. CASE MathAtLeast
  <2>1. PICK a \in Operands, b \in Operands : Compare(">=", a, b, ~MathLt(a, b))
    BY <1>6 DEF MathAtLeast
  <2>2. MathLt(a, b) \in BOOLEAN
    BY ComparisonResults
  <2>3. QED
    BY <2>1, <2>2, OpNames, CompareType
<1>7. QED
  BY <1>1, <1>2, <1>3, <1>4, <1>5, <1>6

\* The forms of ite.
LEMMA SelectionsType ==
  ASSUME TypeOK, IteVec \/ IteNative \/ IteFlag
  PROVE  TypeOK'
<1>1. CASE IteVec
  <2>1. PICK c \in HeldFlags, a \in Operands, b \in Operands :
          ReturnVec(Call("ite", <<a, b>>, <<c>>, 0), IF c THEN a ELSE b)
    BY <1>1 DEF IteVec
  <2>2. c \in BOOLEAN /\ a \in Terms /\ b \in Terms
    BY MadeType
  <2>3. QED
    BY <2>1, <2>2, OpNames, ShortCalls, ReturnVecType
<1>2. CASE IteNative
  <2>1. PICK c \in BOOLEAN, a \in MadeVecs, b \in MadeVecs :
          ReturnVec(Call("ite", <<a, b>>, <<c>>, 0), IF c THEN a ELSE b)
    BY <1>2 DEF IteNative
  <2>2. a \in Terms \cup {NoExpr} /\ b \in Terms \cup {NoExpr}
    BY MadeType
  <2>3. QED
    BY <2>1, <2>2, OpNames, ShortCalls, ReturnVecType
<1>3. CASE IteFlag
  <2>1. PICK c \in HeldFlags, a \in HeldFlags, b \in HeldFlags :
          ReturnFlag(Call("ite", <<>>, <<c, a, b>>, 0), IF c THEN a ELSE b)
    BY <1>3 DEF IteFlag
  <2>2. c \in BOOLEAN /\ a \in BOOLEAN /\ b \in BOOLEAN
    BY MadeType
  <2>3. QED
    BY <2>1, <2>2, OpNames, ShortCalls, ReturnFlagType
<1>4. QED
  BY <1>1, <1>2, <1>3

\* The casts and the conversions between SymBool and SymUInt<1>.
LEMMA CastsType ==
  ASSUME TypeOK,
         \/ CastUnsafely \/ CastSafely \/ CastChecked \/ Reinterpret
         \/ BoolToVec \/ VecToBool
  PROVE  TypeOK'
<1>0. /\ Held \subseteq Terms /\ HeldFlags \subseteq BOOLEAN
      /\ \A a \in Held, ty \in Types : UnsafeCast(a, ty.w, ty.s) \in Terms
      /\ \A a \in Held, s \in BOOLEAN : UnsafeCast(a, a.w, s) \in Terms
  BY MadeType, TermParts, UnsafeCastIsWrap DEF Types
<1>1. CASE CastUnsafely
  BY <1>0, <1>1, OpNames, ShortCalls, ReturnVecType DEF CastUnsafely
<1>2. CASE CastSafely
  BY <1>0, <1>2, OpNames, ShortCalls, ReturnVecType DEF CastSafely
<1>3. CASE CastChecked
  <2>1. PICK a \in Held, ty \in Types :
          /\ vecs' = Append(vecs, UnsafeCast(a, ty.w, ty.s))
          /\ flags' = Append(flags, ValuePreserved(a, ty.w, ty.s))
          /\ call' = Call("checked_cast", <<a>>, <<>>, 0)
          /\ UNCHANGED status
    BY <1>3 DEF CastChecked
  <2>2. ValuePreserved(a, ty.w, ty.s) \in BOOLEAN
    BY DEF ValuePreserved, Eq
  <2>3. call' \in Calls
    BY <1>0, <2>1, OpNames, ShortCalls
  <2>4. QED
    BY <1>0, <2>1, <2>2, <2>3 DEF TypeOK
<1>4. CASE Reinterpret
  BY <1>0, <1>4, OpNames, ShortCalls, ReturnVecType DEF Reinterpret
<1>5. CASE BoolToVec
  BY <1>0, <1>5, OneBit, OpNames, ShortCalls, ReturnVecType DEF BoolToVec
<1>6. CASE VecToBool
  <2>1. PICK a \in Held : ReturnFlag(Call("as_bool", <<a>>, <<>>, 0), AsBool(a))
    BY <1>6 DEF VecToBool
  <2>2. AsBool(a) \in BOOLEAN
    BY DEF AsBool
  <2>3. QED
    BY <1>0, <2>1, <2>2, OpNames, ShortCalls, ReturnFlagType
<1>7. QED
  BY <1>1, <1>2, <1>3, <1>4, <1>5, <1>6

\* The shifts.
LEMMA ShiftsType ==
  ASSUME TypeOK,
         ShiftLeftConst \/ ShiftLeft \/ ShiftRightConst \/ ShiftRight
  PROVE  TypeOK'
<1>1. CASE ShiftLeftConst
  <2>1. PICK a \in Held, n \in 0 .. MaxShift :
          /\ a.w + n <= MaxWidth
          /\ ReturnVec(Call("shl", <<a>>, <<>>, n), ShlConst(a, n))
    BY <1>1 DEF ShiftLeftConst
  <2>2. a \in Terms /\ n \in Nat
    BY MadeType
  <2>3. ShlConst(a, n) \in Terms
    BY <2>1, <2>2, ShlConstMultiplies
  <2>4. QED
    BY <2>1, <2>2, <2>3, OpNames, ShortCalls, ReturnVecType
<1>2. CASE ShiftLeft
  <2>1. PICK a \in Held, amount \in Operands :
          /\ ~amount.s
          /\ ShlWidth(a, amount.w) <= MaxWidth
          /\ ReturnVec(Call("shl", <<a>>, <<>>, amount.p), ShlBy(a, amount))
    BY <1>2 DEF ShiftLeft
  <2>2. a \in Terms /\ amount \in Terms /\ amount.p \in Nat
    BY MadeType, TermParts
  <2>3. ShlBy(a, amount) \in Terms
    BY <2>1, <2>2, ShlByMultiplies
  <2>4. QED
    BY <2>1, <2>2, <2>3, OpNames, ShortCalls, ReturnVecType
<1>3. CASE ShiftRightConst
  <2>1. PICK a \in Held, n \in 0 .. MaxShift :
          ReturnVec(Call("shr", <<a>>, <<>>, n), ShrConst(a, n))
    BY <1>3 DEF ShiftRightConst
  <2>2. a \in Terms /\ n \in Nat
    BY MadeType
  <2>3. ShrConst(a, n) \in Terms
    BY <2>2, ShrConstDivides
  <2>4. QED
    BY <2>1, <2>2, <2>3, OpNames, ShortCalls, ReturnVecType
<1>4. CASE ShiftRight
  <2>1. PICK a \in Held, amount \in Operands :
          ~amount.s /\ ReturnVec(Call("shr", <<a>>, <<>>, amount.p), ShrBy(a, amount))
    BY <1>4 DEF ShiftRight
  <2>2. a \in Terms /\ amount \in Terms /\ amount.p \in Nat
    BY MadeType, TermParts
  <2>3. ShrBy(a, amount) \in Terms
    BY <2>1, <2>2, ShrByDivides
  <2>4. QED
    BY <2>1, <2>2, <2>3, OpNames, ShortCalls, ReturnVecType
<1>5. QED
  BY <1>1, <1>2, <1>3, <1>4

\* The Boolean connectives.
LEMMA ConnectivesType ==
  ASSUME TypeOK, Connect \/ Not
  PROVE  TypeOK'
<1>1. CASE Connect
  <2>1. PICK a \in HeldFlags, b \in HeldFlags :
          \/ ReturnFlag(Call("&&", <<>>, <<a, b>>, 0), a /\ b)
          \/ ReturnFlag(Call("||", <<>>, <<a, b>>, 0), a \/ b)
          \/ ReturnFlag(Call("xor", <<>>, <<a, b>>, 0), a # b)
          \/ ReturnFlag(Call("iff", <<>>, <<a, b>>, 0), a = b)
    BY <1>1 DEF Connect
  <2>2. a \in BOOLEAN /\ b \in BOOLEAN
    BY MadeType
  <2>3. QED
    BY <2>1, <2>2, OpNames, ShortCalls, ReturnFlagType
<1>2. CASE Not
  <2>1. PICK a \in HeldFlags : ReturnFlag(Call("not", <<>>, <<a>>, 0), ~a)
    BY <1>2 DEF Not
  <2>2. a \in BOOLEAN
    BY MadeType
  <2>3. QED
    BY <2>1, <2>2, OpNames, ShortCalls, ReturnFlagType
<1>3. QED
  BY <1>1, <1>2

\* A stopped program keeps its objects.
LEMMA MisuseType ==
  ASSUME TypeOK, UseUninitialized \/ ConnectUninitialized
  PROVE  TypeOK'
BY DEF TypeOK, UseUninitialized, ConnectUninitialized, Stop

\* Every object is uninitialized or holds an expression of its own width:
\* the Z3W_CHECK of sym_bit_vec.h:41 never fails inside the library.
THEOREM TypeCorrect == Spec => []TypeOK
<1>1. Init => TypeOK
  <2>1. <<>> \in Seq(Terms \cup {NoExpr}) /\ <<>> \in Seq(BOOLEAN \cup {NoExpr})
    BY ShortSeq
  <2>2. Call("start", <<>>, <<>>, 0) \in Calls
    BY OpNames, ShortCalls
  <2>3. QED
    BY <2>1, <2>2 DEF Init, TypeOK
<1>2. TypeOK /\ [Next]_vars => TypeOK'
  <2>1. SUFFICES ASSUME TypeOK, [Next]_vars
                 PROVE  TypeOK'
    OBVIOUS
  <2>2. CASE Next
    BY <2>1, <2>2, ConstructorsType, ArithmeticType, StrictComparisonsType,
       MathComparisonsType, SelectionsType, CastsType, ShiftsType,
       ConnectivesType, MisuseType DEF Next
  <2>3. CASE UNCHANGED vars
    BY <2>1, <2>3 DEF TypeOK, vars
  <2>4. QED
    BY <2>1, <2>2, <2>3
<1>3. QED
  BY <1>1, <1>2, PTL DEF Spec

-----------------------------------------------------------------------------
(* Properties of the objects of one state *)

\* math_lt and math_eq are those of the integers on everything the program
\* holds, so they form one total order across all types.
THEOREM MathOrderHolds == Spec => []MathOrderIsTotal
<1>1. ASSUME TypeOK
      PROVE  MathOrderIsTotal
  <2>1. \A a, b \in Held : Comparable(a, b) =>
           /\ MathEq(a, b) <=> Num(a) = Num(b)
           /\ MathLt(a, b) <=> Num(a) < Num(b)
    BY <1>1, MadeType, MathComparisonsAreExact DEF Comparable
  <2>2. \A a \in Held : Num(a) \in Int
    BY <1>1, MadeType, NumType
  <2>3. \A a, b \in Held : Comparable(a, b) = Comparable(b, a)
    <3>1. ASSUME NEW a \in Held, NEW b \in Held
          PROVE  CommonWidth(a, b) = CommonWidth(b, a)
      BY <1>1, MadeType, TermParts DEF CommonWidth, Wider
    <3>2. QED
      BY <3>1 DEF Comparable
  <2>4. QED
    BY <2>1, <2>2, <2>3 DEF MathOrderIsTotal
<1>2. QED
  BY <1>1, TypeCorrect, PTL

\* The constant and the symbolic form of each shift agree on every object
\* and every amount, whatever their widths.
THEOREM ShiftFormsHold == Spec => []ShiftFormsAgree
<1>1. ASSUME TypeOK, NEW a \in Held, NEW amount \in Held, ~amount.s
      PROVE  /\ ShrBy(a, amount) = ShrConst(a, amount.p)
             /\ ShlWidth(a, amount.w) <= MaxWidth =>
                  /\ Truncate(a.w + amount.p, ShlBy(a, amount).p) = ShlConst(a, amount.p).p
                  /\ ~a.s => ShlBy(a, amount).p = ShlConst(a, amount.p).p
  <2>1. a \in Terms /\ amount \in Terms /\ amount.p \in Nat /\ a.w \in Nat /\ a.w \in Widths
    BY <1>1, MadeType, TermParts
  <2>2. ShrBy(a, amount) = ShrConst(a, amount.p)
    BY <1>1, <2>1, ShrByDivides, ShrConstDivides
  <2>3. ASSUME ShlWidth(a, amount.w) <= MaxWidth
        PROVE  /\ Truncate(a.w + amount.p, ShlBy(a, amount).p) = ShlConst(a, amount.p).p
               /\ ~a.s => ShlBy(a, amount).p = ShlConst(a, amount.p).p
    <3> DEFINE v == ShlWidth(a, amount.w)
               m == a.w + amount.p
               x == Num(a) * Pow2[amount.p]
    <3>1. v \in Widths /\ m <= v /\ v \in m .. MaxWidth /\ m <= MaxWidth
      <4>1. v \in Widths /\ m <= v
        BY <1>1, <2>1, <2>3, AmountBounds
      <4>2. m \in Nat
        BY <2>1
      <4> HIDE DEF v, m
      <4>3. QED
        BY <4>1, <4>2, WidthsType
    <3>2. ShlBy(a, amount) \in Terms /\ ShlBy(a, amount) = LeftShifted(a, v, amount.p)
      BY <1>1, <2>1, <2>3, AmountBounds, ShlByMultiplies DEF ShlBy, LeftShifted
    <3>3. /\ ShlConst(a, amount.p) \in Terms /\ m \in Widths
          /\ ShlConst(a, amount.p) = LeftShifted(a, m, amount.p)
      BY <2>1, <3>1, ShlConstMultiplies DEF ShlConst, LeftShifted
    <3> HIDE DEF v, m
    <3>4. ASSUME NEW u \in {v, m}
          PROVE  /\ LeftShifted(a, u, amount.p) = Term(u, FALSE, Wrap(u, x))
                 /\ x \in Int
                 /\ Num(a) >= 0 => Num(LeftShifted(a, u, amount.p)) = x
                 /\ Num(LeftShifted(a, u, amount.p)) = LeftShifted(a, u, amount.p).p
      <4>1. u \in Widths /\ a.w + amount.p <= u
        BY <3>1, <3>3 DEF m
      <4>2. QED
        BY <2>1, <4>1, LeftShiftOfWord
    <3> HIDE DEF x
    <3>5. /\ LeftShifted(a, v, amount.p).p = Wrap(v, x)
          /\ LeftShifted(a, m, amount.p).p = Wrap(m, x)
      BY <3>4 DEF Term
    <3>6. Wrap(m, Wrap(v, x)) = Wrap(m, x)
      BY <3>1, <3>3, <3>4, WrapOfWrap
    <3>7. ~a.s => Num(a) >= 0
      BY <2>1, NumUnsigned, TermParts
    <3>8. QED
      BY <3>2, <3>3, <3>4, <3>5, <3>6, <3>7 DEF Truncate, m
  <2>4. QED
    BY <2>2, <2>3
<1>2. ASSUME TypeOK
      PROVE  ShiftFormsAgree
  BY <1>1, <1>2 DEF ShiftFormsAgree
<1>3. QED
  BY <1>2, TypeCorrect, PTL

-----------------------------------------------------------------------------
(* Properties of the last call *)

\* The last element of a sequence that was appended to.
LEMMA LastOfAppend ==
  ASSUME NEW S, NEW q \in Seq(S), NEW x \in S
  PROVE  /\ Append(q, x) # << >>
         /\ Append(q, x)[Len(Append(q, x))] = x
OBVIOUS

\* The call that an action records.
LEMMA CallOfReturn ==
  ASSUME NEW op, NEW vals, NEW conds, NEW n
  PROVE  /\ Call(op, vals, conds, n).op = op
         /\ Call(op, vals, conds, n).vals = vals
         /\ \A t : ReturnVec(Call(op, vals, conds, n), t) => call'.op = op
         /\ \A b : ReturnFlag(Call(op, vals, conds, n), b) => call'.op = op
BY DEF Call, ReturnVec, ReturnFlag

\* Only CastChecked records a checked_cast, only CastUnsafely and
\* Reinterpret record an unsafe_cast.
LEMMA CastCalls ==
  ASSUME Next
  PROVE  \/ CastChecked \/ CastUnsafely \/ Reinterpret
         \/ UNCHANGED <<vecs, flags, call>>
         \/ call'.op \notin {"checked_cast", "unsafe_cast"}
<1> DEFINE Other == call'.op \notin {"checked_cast", "unsafe_cast"}
<1>1. NewVec \/ NewFlag \/ DeclareVec \/ DeclareFlag \/ Promote => Other
  BY CallOfReturn DEF NewVec, NewFlag, DeclareVec, DeclareFlag, Promote
<1>2. Add \/ Subtract \/ Multiply \/ Negate => Other
  BY CallOfReturn DEF Add, Subtract, Multiply, Negate
<1>3. EqualTo \/ NotEqualTo \/ LessThan \/ AtMost \/ GreaterThan \/ AtLeast => Other
  BY CallOfReturn
     DEF EqualTo, NotEqualTo, LessThan, AtMost, GreaterThan, AtLeast, Compare
<1>4. MathEqualTo \/ MathNotEqualTo \/ MathLessThan \/ MathAtMost
        \/ MathGreaterThan \/ MathAtLeast => Other
  BY CallOfReturn
     DEF MathEqualTo, MathNotEqualTo, MathLessThan, MathAtMost, MathGreaterThan,
         MathAtLeast, Compare
<1>5. IteVec \/ IteNative \/ IteFlag => Other
  BY CallOfReturn DEF IteVec, IteNative, IteFlag
<1>6. CastSafely \/ BoolToVec \/ VecToBool => Other
  BY CallOfReturn DEF CastSafely, BoolToVec, VecToBool
<1>7. ShiftLeftConst \/ ShiftLeft \/ ShiftRightConst \/ ShiftRight => Other
  BY CallOfReturn DEF ShiftLeftConst, ShiftLeft, ShiftRightConst, ShiftRight
<1>8. Connect \/ Not => Other
  BY CallOfReturn DEF Connect, Not
<1>9. UseUninitialized \/ ConnectUninitialized => UNCHANGED <<vecs, flags, call>>
  BY DEF UseUninitialized, ConnectUninitialized, Stop
<1>10. QED
  BY <1>1, <1>2, <1>3, <1>4, <1>5, <1>6, <1>7, <1>8, <1>9 DEF Next

\* The flag of every checked_cast between types whose round trip is faithful
\* is TRUE exactly when the number fits, and then the cast kept it.
THEOREM FlagIsRight == Spec => []FlagReportsFit
<1>1. Init => FlagReportsFit
  BY DEF Init, Call, FlagReportsFit, Made
<1>2. ASSUME TypeOK, FlagReportsFit, [Next]_vars
      PROVE  FlagReportsFit'
  <2>1. CASE CastChecked
    <3>1. PICK a \in Held, ty \in Types :
            /\ vecs' = Append(vecs, UnsafeCast(a, ty.w, ty.s))
            /\ flags' = Append(flags, ValuePreserved(a, ty.w, ty.s))
            /\ call' = Call("checked_cast", <<a>>, <<>>, 0)
      BY <2>1 DEF CastChecked
    <3>2. a \in Terms /\ ty.w \in Widths /\ ty.s \in BOOLEAN
      BY <1>2, MadeType DEF Types
    <3> DEFINE r == UnsafeCast(a, ty.w, ty.s)
               b == ValuePreserved(a, ty.w, ty.s)
    <3>3. r \in Terms /\ r.w = ty.w /\ r.s = ty.s /\ b \in BOOLEAN
      BY <3>2, UnsafeCastIsWrap DEF ValuePreserved, Eq
    <3>4. LastVec' = r /\ LastFlag' = b
      BY <1>2, <3>1, <3>3, LastOfAppend DEF TypeOK, LastVec, LastFlag
    <3>5. Source' = a
      BY <3>1, CallOfReturn DEF Source
    <3>6. Faithful(a, r.w, r.s) =>
            /\ b <=> Num(a) \in ValueSet(r.w, r.s)
            /\ b => Num(r) = Num(a)
      BY <3>2, <3>3, CheckedCastReportsFit DEF Faithful
    <3> HIDE DEF r, b
    <3>7. QED
      BY <3>4, <3>5, <3>6 DEF FlagReportsFit
  <2>2. CASE UNCHANGED <<vecs, flags, call>>
    BY <1>2, <2>2 DEF FlagReportsFit, Made, Source, LastVec, LastFlag
  <2>3. CASE call'.op # "checked_cast"
    BY <2>3 DEF FlagReportsFit, Made
  <2>4. CASE CastUnsafely \/ Reinterpret
    <3>1. call'.op = "unsafe_cast"
      BY <2>4, CallOfReturn DEF CastUnsafely, Reinterpret
    <3>2. QED
      BY <2>3, <3>1
  <2>5. QED
    BY <1>2, <2>1, <2>2, <2>3, <2>4, CastCalls DEF vars
<1>3. QED
  BY <1>1, <1>2, TypeCorrect, PTL DEF Spec

\* Of the conversions that the program makes, safe_cast accepts exactly
\* those between types whose values are included.
THEOREM SafeCastIsRight == Spec => []SafeCastAcceptsInclusions
<1>1. Init => SafeCastAcceptsInclusions
  BY DEF Init, Call, SafeCastAcceptsInclusions, Made
<1>2. ASSUME TypeOK, SafeCastAcceptsInclusions, [Next]_vars
      PROVE  SafeCastAcceptsInclusions'
  <2>1. CASE CastUnsafely \/ Reinterpret
    <3>1. PICK a \in Held, ty \in Types :
            ReturnVec(Call("unsafe_cast", <<a>>, <<>>, 0), UnsafeCast(a, ty.w, ty.s))
      <4>1. CASE CastUnsafely
        BY <4>1 DEF CastUnsafely
      <4>2. CASE Reinterpret
        <5>1. PICK a \in Held, s \in BOOLEAN :
                ReturnVec(Call("unsafe_cast", <<a>>, <<>>, 0), UnsafeCast(a, a.w, s))
          BY <4>2 DEF Reinterpret
        <5>2. [w |-> a.w, s |-> s] \in Types
          BY <1>2, MadeType, TermParts DEF Types
        <5>3. QED
          BY <5>1, <5>2
      <4>3. QED
        BY <2>1, <4>1, <4>2
    <3>2. a \in Terms /\ ty.w \in Widths /\ ty.s \in BOOLEAN
      BY <1>2, MadeType DEF Types
    <3> DEFINE r == UnsafeCast(a, ty.w, ty.s)
    <3>3. r \in Terms /\ r.w = ty.w /\ r.s = ty.s
      BY <3>2, UnsafeCastIsWrap
    <3>4. LastVec' = r
      BY <1>2, <3>1, <3>3, LastOfAppend DEF TypeOK, LastVec, ReturnVec
    <3>5. Source' = a
      BY <3>1, CallOfReturn DEF Source, ReturnVec
    <3>6. SafeCastCompiles(a, r.w, r.s) <=> ValueSet(a.w, a.s) \subseteq ValueSet(r.w, r.s)
      BY <3>2, <3>3, SafeCastIsInclusion
    <3> HIDE DEF r
    <3>7. QED
      BY <3>4, <3>5, <3>6 DEF SafeCastAcceptsInclusions
  <2>2. CASE UNCHANGED <<vecs, flags, call>>
    BY <1>2, <2>2 DEF SafeCastAcceptsInclusions, Made, Source, LastVec
  <2>3. CASE call'.op # "unsafe_cast"
    BY <2>3 DEF SafeCastAcceptsInclusions, Made
  <2>4. CASE CastChecked
    <3>1. call'.op = "checked_cast"
      BY <2>4, CallOfReturn DEF CastChecked
    <3>2. QED
      BY <2>3, <3>1
  <2>5. QED
    BY <1>2, <2>1, <2>2, <2>3, <2>4, CastCalls DEF vars
<1>3. QED
  BY <1>1, <1>2, TypeCorrect, PTL DEF Spec

-----------------------------------------------------------------------------
(* Results that need every bit of their type *)

\* Every number of a type is that of a term, so that the results of an
\* operator are those of all numbers of the operands' types.
LEMMA ResultsOfNumbers ==
  ASSUME NEW a \in Terms, NEW b \in Terms,
         NEW x \in ValueSet(a.w, a.s), NEW y \in ValueSet(b.w, b.s)
  PROVE  /\ x + y \in ArithmeticResults("+", a, b)
         /\ x - y \in ArithmeticResults("-", a, b)
         /\ x * y \in ArithmeticResults("*", a, b)
         /\ -x \in ArithmeticResults("neg", a, b)
<1>1. ASSUME NEW c \in Terms, NEW z \in ValueSet(c.w, c.s)
      PROVE  \E t \in TermsOf(c) : Num(t) = z
  <2>1. c.w \in Widths /\ c.s \in BOOLEAN
    BY TermParts
  <2>2. z \in Int
    BY <2>1, ValueSetInt
  <2>3. Wrap(c.w, z) \in Patterns(c.w) /\ Num(Term(c.w, c.s, Wrap(c.w, z))) = z
    BY <2>1, <2>2, WrapRange, TermOfWrap
  <2>4. QED
    BY <2>3 DEF TermsOf
<1>2. PICK t \in TermsOf(a), u \in TermsOf(b) : Num(t) = x /\ Num(u) = y
  BY <1>1
<1>3. QED
  BY <1>2 DEF ArithmeticResults

\* Numbers that every type of more than one bit has.
LEMMA NumbersOfTypes ==
  ASSUME NEW a \in Terms, a.w > 1
  PROVE  \E g \in Nat :
           /\ g = Pow2[a.w - 1] /\ 2 * g = Pow2[a.w] /\ g >= 2
           /\ 0 \in ValueSet(a.w, a.s) /\ 1 \in ValueSet(a.w, a.s)
           /\ ~a.s => 2 * g - 1 \in ValueSet(a.w, a.s)
           /\ a.s => /\ -1 \in ValueSet(a.w, a.s)
                     /\ -g \in ValueSet(a.w, a.s)
                     /\ g - 1 \in ValueSet(a.w, a.s)
<1>1. a.w \in Widths /\ a.s \in BOOLEAN
  BY TermParts
<1>2. PICK g \in Nat : g = Pow2[a.w - 1] /\ 2 * g = Pow2[a.w]
  BY <1>1, RangeBounds
<1>3. 1 \in 0 .. MaxWidth /\ Pow2[1] = 2 /\ a.w - 1 \in 1 .. MaxWidth
  <2>1. MaxWidth \in Nat /\ a.w \in Nat /\ a.w <= MaxWidth
    BY <1>1, WidthsType
  <2>2. 1 \in 0 .. MaxWidth /\ a.w - 1 \in 1 .. MaxWidth
    BY <2>1
  <2>3. Pow2[1] = 2
    BY <2>2, Powers
  <2>4. QED
    BY <2>2, <2>3
<1>4. g >= 2
  BY <1>2, <1>3, Pow2Mono
<1>5. QED
  BY <1>1, <1>2, <1>4 DEF ValueSet

\* A negative result rules out the unsigned types, and one too large or too
\* small the signed type of one bit less.
LEMMA SignedNeedsAll ==
  ASSUME NEW R, NEW t, t.s = TRUE,
         NEW v \in Widths, v + 1 \in Widths, t.w = v + 1,
         NEW x \in R, x \in Int, x < -Pow2[v - 1] \/ x >= Pow2[v - 1],
         NEW y \in R, y \in Int, y < 0
  PROVE  NeedsAllBits(R, t)
<1>1. Pow2[v - 1] \in Nat
  BY RangeBounds
<1>2. x \notin ValueSet(v, TRUE)
  BY <1>1 DEF ValueSet
<1>3. \A w \in 1 .. t.w : y \notin ValueSet(w, FALSE)
  BY DEF ValueSet
<1>4. v \in Nat /\ t.w - 1 = v
  BY WidthsType
<1>5. QED
  BY <1>2, <1>3, <1>4 DEF NeedsAllBits

\* A result too large for it rules out the unsigned type of one bit less.
LEMMA UnsignedNeedsAll ==
  ASSUME NEW R, NEW t, t.s = FALSE, NEW v \in Widths, t.w = v + 1,
         NEW x \in R, x \in Int, x >= Pow2[v]
  PROVE  NeedsAllBits(R, t)
<1>1. Pow2[v] \in Nat /\ v \in Nat /\ t.w - 1 = v
  BY RangeBounds, WidthsType
<1>2. x \notin ValueSet(v, FALSE)
  BY <1>1 DEF ValueSet
<1>3. QED
  BY <1>1, <1>2 DEF NeedsAllBits

\* Some sum needs every bit.
LEMMA PlusNeedsAll ==
  ASSUME NEW a \in Terms, NEW b \in Terms, a.w > 1, b.w > 1,
         ArithResultWidth(a, b) <= MaxWidth
  PROVE  NeedsAllBits(ArithmeticResults("+", a, b), Plus(a, b))
<1> DEFINE R == ArithmeticResults("+", a, b)
           t == Plus(a, b)
<1>1. t.w = ArithResultWidth(a, b) /\ t.s = (a.s \/ b.s)
  BY DEF Plus, Term
<1>2. /\ a.w \in Widths /\ b.w \in Widths /\ a.w \in Nat /\ b.w \in Nat
      /\ a.s \in BOOLEAN /\ b.s \in BOOLEAN /\ t.s \in BOOLEAN
  BY <1>1, TermParts
<1>3. PICK g \in Nat :
        /\ g = Pow2[a.w - 1] /\ 2 * g = Pow2[a.w] /\ g >= 2
        /\ 0 \in ValueSet(a.w, a.s) /\ 1 \in ValueSet(a.w, a.s)
        /\ ~a.s => 2 * g - 1 \in ValueSet(a.w, a.s)
        /\ a.s => /\ -1 \in ValueSet(a.w, a.s)
                  /\ -g \in ValueSet(a.w, a.s)
                  /\ g - 1 \in ValueSet(a.w, a.s)
  BY NumbersOfTypes
<1>4. PICK h \in Nat :
        /\ h = Pow2[b.w - 1] /\ 2 * h = Pow2[b.w] /\ h >= 2
        /\ 0 \in ValueSet(b.w, b.s) /\ 1 \in ValueSet(b.w, b.s)
        /\ ~b.s => 2 * h - 1 \in ValueSet(b.w, b.s)
        /\ b.s => /\ -1 \in ValueSet(b.w, b.s)
                  /\ -h \in ValueSet(b.w, b.s)
                  /\ h - 1 \in ValueSet(b.w, b.s)
  BY NumbersOfTypes
<1>5. \A x \in ValueSet(a.w, a.s), y \in ValueSet(b.w, b.s) : x + y \in R
  BY ResultsOfNumbers
<1> HIDE DEF R, t
<1>6. \E y \in R : t.s => y \in Int /\ y < 0
  <2>1. CASE a.s
    <3>1. PICK y \in R : y = -1 + 0
      BY <1>3, <1>4, <1>5, <2>1
    <3>2. QED
      BY <1>1, <2>1, <3>1
  <2>2. CASE b.s
    <3>1. PICK y \in R : y = 0 + -1
      BY <1>3, <1>4, <1>5, <2>2
    <3>2. QED
      BY <1>1, <2>2, <3>1
  <2>3. CASE ~a.s /\ ~b.s
    <3>1. PICK y \in R : y = 0 + 0
      BY <1>3, <1>4, <1>5, <2>3
    <3>2. QED
      BY <1>1, <2>3, <3>1
  <2>4. QED
    BY <2>1, <2>2, <2>3, <1>2
<1>7. MaxWidth \in Nat /\ t.w \in Nat /\ t.w <= MaxWidth
  BY <1>1, <1>2, WidthsType DEF ArithResultWidth, Wider
<1>8. CASE ~a.s /\ ~b.s
  <2>1. a.s = FALSE /\ b.s = FALSE /\ t.s = FALSE
    BY <1>1, <1>2, <1>8
  <2>2. CASE a.w >= b.w
    <3>1. t.w = a.w + 1
      BY <1>1, <1>2, <2>1, <2>2 DEF ArithResultWidth, Wider
    <3>2. PICK v \in Widths : v + 1 \in Widths /\ t.w = v + 1 /\ v = a.w
      BY <1>2, <1>7, <3>1, WidthsType
    <3>3. PICK x \in R : x = (2 * g - 1) + 1
      BY <1>3, <1>4, <1>5, <1>8
    <3>4. Pow2[v] = 2 * g
      BY <1>2, <1>3, <1>4, <3>2
    <3>5. x \in Int /\ x >= Pow2[v]
      BY <1>3, <1>4, <3>3, <3>4
    <3>6. QED
      BY <2>1, <3>2, <3>5, UnsignedNeedsAll DEF R, t
  <2>3. CASE b.w >= a.w + 1
    <3>1. t.w = b.w + 1
      BY <1>1, <1>2, <2>1, <2>3 DEF ArithResultWidth, Wider
    <3>2. PICK v \in Widths : v + 1 \in Widths /\ t.w = v + 1 /\ v = b.w
      BY <1>2, <1>7, <3>1, WidthsType
    <3>3. PICK x \in R : x = 1 + (2 * h - 1)
      BY <1>3, <1>4, <1>5, <1>8
    <3>4. Pow2[v] = 2 * h
      BY <1>2, <1>3, <1>4, <3>2
    <3>5. x \in Int /\ x >= Pow2[v]
      BY <1>3, <1>4, <3>3, <3>4
    <3>6. QED
      BY <2>1, <3>2, <3>5, UnsignedNeedsAll DEF R, t
  <2>4. QED
    BY <2>2, <2>3, <1>2
<1>9. CASE a.s /\ b.s
  <2>1. a.s = TRUE /\ b.s = TRUE /\ t.s = TRUE
    BY <1>1, <1>2, <1>9
  <2>2. CASE a.w >= b.w
    <3>1. t.w = a.w + 1
      BY <1>1, <1>2, <2>1, <2>2 DEF ArithResultWidth, Wider
    <3>2. PICK v \in Widths : v + 1 \in Widths /\ t.w = v + 1 /\ v = a.w
      BY <1>2, <1>7, <3>1, WidthsType
    <3>3. PICK x \in R : x = -g + -1
      BY <1>3, <1>4, <1>5, <1>9
    <3>4. Pow2[v - 1] = g
      BY <1>2, <1>3, <1>4, <3>2
    <3>5. x \in Int /\ x < -Pow2[v - 1]
      BY <1>3, <1>4, <3>3, <3>4
    <3>6. PICK y \in R : y \in Int /\ y < 0
      BY <1>6, <2>1
    <3>7. QED
      BY <2>1, <3>2, <3>5, <3>6, SignedNeedsAll DEF R, t
  <2>3. CASE b.w >= a.w + 1
    <3>1. t.w = b.w + 1
      BY <1>1, <1>2, <2>1, <2>3 DEF ArithResultWidth, Wider
    <3>2. PICK v \in Widths : v + 1 \in Widths /\ t.w = v + 1 /\ v = b.w
      BY <1>2, <1>7, <3>1, WidthsType
    <3>3. PICK x \in R : x = -1 + -h
      BY <1>3, <1>4, <1>5, <1>9
    <3>4. Pow2[v - 1] = h
      BY <1>2, <1>3, <1>4, <3>2
    <3>5. x \in Int /\ x < -Pow2[v - 1]
      BY <1>3, <1>4, <3>3, <3>4
    <3>6. PICK y \in R : y \in Int /\ y < 0
      BY <1>6, <2>1
    <3>7. QED
      BY <2>1, <3>2, <3>5, <3>6, SignedNeedsAll DEF R, t
  <2>4. QED
    BY <2>2, <2>3, <1>2
<1>10. CASE ~a.s /\ b.s
  <2>1. a.s = FALSE /\ b.s = TRUE /\ t.s = TRUE
    BY <1>1, <1>2, <1>10
  <2>2. CASE a.w >= b.w
    <3>1. t.w = (a.w + 1) + 1
      BY <1>1, <1>2, <2>1, <2>2 DEF ArithResultWidth, Wider
    <3>2. PICK v \in Widths : v + 1 \in Widths /\ t.w = v + 1 /\ v = (a.w + 1)
      BY <1>2, <1>7, <3>1, WidthsType
    <3>3. PICK x \in R : x = (2 * g - 1) + (h - 1)
      BY <1>3, <1>4, <1>5, <1>10
    <3>4. Pow2[v - 1] = 2 * g
      BY <1>2, <1>3, <1>4, <3>2
    <3>5. x \in Int /\ x >= Pow2[v - 1]
      BY <1>3, <1>4, <3>3, <3>4
    <3>6. PICK y \in R : y \in Int /\ y < 0
      BY <1>6, <2>1
    <3>7. QED
      BY <2>1, <3>2, <3>5, <3>6, SignedNeedsAll DEF R, t
  <2>3. CASE b.w >= a.w + 1
    <3>1. t.w = b.w + 1
      BY <1>1, <1>2, <2>1, <2>3 DEF ArithResultWidth, Wider
    <3>2. PICK v \in Widths : v + 1 \in Widths /\ t.w = v + 1 /\ v = b.w
      BY <1>2, <1>7, <3>1, WidthsType
    <3>3. PICK x \in R : x = 1 + (h - 1)
      BY <1>3, <1>4, <1>5, <1>10
    <3>4. Pow2[v - 1] = h
      BY <1>2, <1>3, <1>4, <3>2
    <3>5. x \in Int /\ x >= Pow2[v - 1]
      BY <1>3, <1>4, <3>3, <3>4
    <3>6. PICK y \in R : y \in Int /\ y < 0
      BY <1>6, <2>1
    <3>7. QED
      BY <2>1, <3>2, <3>5, <3>6, SignedNeedsAll DEF R, t
  <2>4. QED
    BY <2>2, <2>3, <1>2
<1>11. CASE a.s /\ ~b.s
  <2>1. a.s = TRUE /\ b.s = FALSE /\ t.s = TRUE
    BY <1>1, <1>2, <1>11
  <2>2. CASE b.w >= a.w
    <3>1. t.w = (b.w + 1) + 1
      BY <1>1, <1>2, <2>1, <2>2 DEF ArithResultWidth, Wider
    <3>2. PICK v \in Widths : v + 1 \in Widths /\ t.w = v + 1 /\ v = (b.w + 1)
      BY <1>2, <1>7, <3>1, WidthsType
    <3>3. PICK x \in R : x = (g - 1) + (2 * h - 1)
      BY <1>3, <1>4, <1>5, <1>11
    <3>4. Pow2[v - 1] = 2 * h
      BY <1>2, <1>3, <1>4, <3>2
    <3>5. x \in Int /\ x >= Pow2[v - 1]
      BY <1>3, <1>4, <3>3, <3>4
    <3>6. PICK y \in R : y \in Int /\ y < 0
      BY <1>6, <2>1
    <3>7. QED
      BY <2>1, <3>2, <3>5, <3>6, SignedNeedsAll DEF R, t
  <2>3. CASE a.w >= b.w + 1
    <3>1. t.w = a.w + 1
      BY <1>1, <1>2, <2>1, <2>3 DEF ArithResultWidth, Wider
    <3>2. PICK v \in Widths : v + 1 \in Widths /\ t.w = v + 1 /\ v = a.w
      BY <1>2, <1>7, <3>1, WidthsType
    <3>3. PICK x \in R : x = (g - 1) + 1
      BY <1>3, <1>4, <1>5, <1>11
    <3>4. Pow2[v - 1] = g
      BY <1>2, <1>3, <1>4, <3>2
    <3>5. x \in Int /\ x >= Pow2[v - 1]
      BY <1>3, <1>4, <3>3, <3>4
    <3>6. PICK y \in R : y \in Int /\ y < 0
      BY <1>6, <2>1
    <3>7. QED
      BY <2>1, <3>2, <3>5, <3>6, SignedNeedsAll DEF R, t
  <2>4. QED
    BY <2>2, <2>3, <1>2
<1>12. QED
  BY <1>2, <1>8, <1>9, <1>10, <1>11

\* Some difference needs every bit.
LEMMA MinusNeedsAll ==
  ASSUME NEW a \in Terms, NEW b \in Terms, a.w > 1, b.w > 1,
         ArithResultWidth(a, b) <= MaxWidth
  PROVE  NeedsAllBits(ArithmeticResults("-", a, b), Minus(a, b))
<1> DEFINE R == ArithmeticResults("-", a, b)
           t == Minus(a, b)
<1>1. t.w = ArithResultWidth(a, b) /\ t.s = (TRUE)
  BY DEF Minus, Term
<1>2. /\ a.w \in Widths /\ b.w \in Widths /\ a.w \in Nat /\ b.w \in Nat
      /\ a.s \in BOOLEAN /\ b.s \in BOOLEAN /\ t.s \in BOOLEAN
  BY <1>1, TermParts
<1>3. PICK g \in Nat :
        /\ g = Pow2[a.w - 1] /\ 2 * g = Pow2[a.w] /\ g >= 2
        /\ 0 \in ValueSet(a.w, a.s) /\ 1 \in ValueSet(a.w, a.s)
        /\ ~a.s => 2 * g - 1 \in ValueSet(a.w, a.s)
        /\ a.s => /\ -1 \in ValueSet(a.w, a.s)
                  /\ -g \in ValueSet(a.w, a.s)
                  /\ g - 1 \in ValueSet(a.w, a.s)
  BY NumbersOfTypes
<1>4. PICK h \in Nat :
        /\ h = Pow2[b.w - 1] /\ 2 * h = Pow2[b.w] /\ h >= 2
        /\ 0 \in ValueSet(b.w, b.s) /\ 1 \in ValueSet(b.w, b.s)
        /\ ~b.s => 2 * h - 1 \in ValueSet(b.w, b.s)
        /\ b.s => /\ -1 \in ValueSet(b.w, b.s)
                  /\ -h \in ValueSet(b.w, b.s)
                  /\ h - 1 \in ValueSet(b.w, b.s)
  BY NumbersOfTypes
<1>5. \A x \in ValueSet(a.w, a.s), y \in ValueSet(b.w, b.s) : x - y \in R
  BY ResultsOfNumbers
<1> HIDE DEF R, t
<1>6. \E y \in R : t.s => y \in Int /\ y < 0
  <2>1. CASE a.s
    <3>1. PICK y \in R : y = -1 - 0
      BY <1>3, <1>4, <1>5, <2>1
    <3>2. QED
      BY <1>1, <2>1, <3>1
  <2>2. CASE ~a.s
    <3>1. PICK y \in R : y = 0 - 1
      BY <1>3, <1>4, <1>5, <2>2
    <3>2. QED
      BY <1>1, <2>2, <3>1
  <2>3. QED
    BY <2>1, <2>2, <1>2
<1>7. MaxWidth \in Nat /\ t.w \in Nat /\ t.w <= MaxWidth
  BY <1>1, <1>2, WidthsType DEF ArithResultWidth, Wider
<1>8. CASE ~a.s /\ ~b.s
  <2>1. a.s = FALSE /\ b.s = FALSE /\ t.s = TRUE
    BY <1>1, <1>2, <1>8
  <2>2. CASE a.w >= b.w
    <3>1. t.w = a.w + 1
      BY <1>1, <1>2, <2>1, <2>2 DEF ArithResultWidth, Wider
    <3>2. PICK v \in Widths : v + 1 \in Widths /\ t.w = v + 1 /\ v = a.w
      BY <1>2, <1>7, <3>1, WidthsType
    <3>3. PICK x \in R : x = (2 * g - 1) - 0
      BY <1>3, <1>4, <1>5, <1>8
    <3>4. Pow2[v - 1] = g
      BY <1>2, <1>3, <1>4, <3>2
    <3>5. x \in Int /\ x >= Pow2[v - 1]
      BY <1>3, <1>4, <3>3, <3>4
    <3>6. PICK y \in R : y \in Int /\ y < 0
      BY <1>6, <2>1
    <3>7. QED
      BY <2>1, <3>2, <3>5, <3>6, SignedNeedsAll DEF R, t
  <2>3. CASE b.w >= a.w + 1
    <3>1. t.w = b.w + 1
      BY <1>1, <1>2, <2>1, <2>3 DEF ArithResultWidth, Wider
    <3>2. PICK v \in Widths : v + 1 \in Widths /\ t.w = v + 1 /\ v = b.w
      BY <1>2, <1>7, <3>1, WidthsType
    <3>3. PICK x \in R : x = 0 - (2 * h - 1)
      BY <1>3, <1>4, <1>5, <1>8
    <3>4. Pow2[v - 1] = h
      BY <1>2, <1>3, <1>4, <3>2
    <3>5. x \in Int /\ x < -Pow2[v - 1]
      BY <1>3, <1>4, <3>3, <3>4
    <3>6. PICK y \in R : y \in Int /\ y < 0
      BY <1>6, <2>1
    <3>7. QED
      BY <2>1, <3>2, <3>5, <3>6, SignedNeedsAll DEF R, t
  <2>4. QED
    BY <2>2, <2>3, <1>2
<1>9. CASE a.s /\ b.s
  <2>1. a.s = TRUE /\ b.s = TRUE /\ t.s = TRUE
    BY <1>1, <1>2, <1>9
  <2>2. CASE a.w >= b.w
    <3>1. t.w = a.w + 1
      BY <1>1, <1>2, <2>1, <2>2 DEF ArithResultWidth, Wider
    <3>2. PICK v \in Widths : v + 1 \in Widths /\ t.w = v + 1 /\ v = a.w
      BY <1>2, <1>7, <3>1, WidthsType
    <3>3. PICK x \in R : x = -g - 1
      BY <1>3, <1>4, <1>5, <1>9
    <3>4. Pow2[v - 1] = g
      BY <1>2, <1>3, <1>4, <3>2
    <3>5. x \in Int /\ x < -Pow2[v - 1]
      BY <1>3, <1>4, <3>3, <3>4
    <3>6. PICK y \in R : y \in Int /\ y < 0
      BY <1>6, <2>1
    <3>7. QED
      BY <2>1, <3>2, <3>5, <3>6, SignedNeedsAll DEF R, t
  <2>3. CASE b.w >= a.w + 1
    <3>1. t.w = b.w + 1
      BY <1>1, <1>2, <2>1, <2>3 DEF ArithResultWidth, Wider
    <3>2. PICK v \in Widths : v + 1 \in Widths /\ t.w = v + 1 /\ v = b.w
      BY <1>2, <1>7, <3>1, WidthsType
    <3>3. PICK x \in R : x = 0 - (-h)
      BY <1>3, <1>4, <1>5, <1>9
    <3>4. Pow2[v - 1] = h
      BY <1>2, <1>3, <1>4, <3>2
    <3>5. x \in Int /\ x >= Pow2[v - 1]
      BY <1>3, <1>4, <3>3, <3>4
    <3>6. PICK y \in R : y \in Int /\ y < 0
      BY <1>6, <2>1
    <3>7. QED
      BY <2>1, <3>2, <3>5, <3>6, SignedNeedsAll DEF R, t
  <2>4. QED
    BY <2>2, <2>3, <1>2
<1>10. CASE ~a.s /\ b.s
  <2>1. a.s = FALSE /\ b.s = TRUE /\ t.s = TRUE
    BY <1>1, <1>2, <1>10
  <2>2. CASE a.w >= b.w
    <3>1. t.w = (a.w + 1) + 1
      BY <1>1, <1>2, <2>1, <2>2 DEF ArithResultWidth, Wider
    <3>2. PICK v \in Widths : v + 1 \in Widths /\ t.w = v + 1 /\ v = (a.w + 1)
      BY <1>2, <1>7, <3>1, WidthsType
    <3>3. PICK x \in R : x = (2 * g - 1) - (-h)
      BY <1>3, <1>4, <1>5, <1>10
    <3>4. Pow2[v - 1] = 2 * g
      BY <1>2, <1>3, <1>4, <3>2
    <3>5. x \in Int /\ x >= Pow2[v - 1]
      BY <1>3, <1>4, <3>3, <3>4
    <3>6. PICK y \in R : y \in Int /\ y < 0
      BY <1>6, <2>1
    <3>7. QED
      BY <2>1, <3>2, <3>5, <3>6, SignedNeedsAll DEF R, t
  <2>3. CASE b.w >= a.w + 1
    <3>1. t.w = b.w + 1
      BY <1>1, <1>2, <2>1, <2>3 DEF ArithResultWidth, Wider
    <3>2. PICK v \in Widths : v + 1 \in Widths /\ t.w = v + 1 /\ v = b.w
      BY <1>2, <1>7, <3>1, WidthsType
    <3>3. PICK x \in R : x = 0 - (-h)
      BY <1>3, <1>4, <1>5, <1>10
    <3>4. Pow2[v - 1] = h
      BY <1>2, <1>3, <1>4, <3>2
    <3>5. x \in Int /\ x >= Pow2[v - 1]
      BY <1>3, <1>4, <3>3, <3>4
    <3>6. PICK y \in R : y \in Int /\ y < 0
      BY <1>6, <2>1
    <3>7. QED
      BY <2>1, <3>2, <3>5, <3>6, SignedNeedsAll DEF R, t
  <2>4. QED
    BY <2>2, <2>3, <1>2
<1>11. CASE a.s /\ ~b.s
  <2>1. a.s = TRUE /\ b.s = FALSE /\ t.s = TRUE
    BY <1>1, <1>2, <1>11
  <2>2. CASE b.w >= a.w
    <3>1. t.w = (b.w + 1) + 1
      BY <1>1, <1>2, <2>1, <2>2 DEF ArithResultWidth, Wider
    <3>2. PICK v \in Widths : v + 1 \in Widths /\ t.w = v + 1 /\ v = (b.w + 1)
      BY <1>2, <1>7, <3>1, WidthsType
    <3>3. PICK x \in R : x = -g - (2 * h - 1)
      BY <1>3, <1>4, <1>5, <1>11
    <3>4. Pow2[v - 1] = 2 * h
      BY <1>2, <1>3, <1>4, <3>2
    <3>5. x \in Int /\ x < -Pow2[v - 1]
      BY <1>3, <1>4, <3>3, <3>4
    <3>6. PICK y \in R : y \in Int /\ y < 0
      BY <1>6, <2>1
    <3>7. QED
      BY <2>1, <3>2, <3>5, <3>6, SignedNeedsAll DEF R, t
  <2>3. CASE a.w >= b.w + 1
    <3>1. t.w = a.w + 1
      BY <1>1, <1>2, <2>1, <2>3 DEF ArithResultWidth, Wider
    <3>2. PICK v \in Widths : v + 1 \in Widths /\ t.w = v + 1 /\ v = a.w
      BY <1>2, <1>7, <3>1, WidthsType
    <3>3. PICK x \in R : x = -g - 1
      BY <1>3, <1>4, <1>5, <1>11
    <3>4. Pow2[v - 1] = g
      BY <1>2, <1>3, <1>4, <3>2
    <3>5. x \in Int /\ x < -Pow2[v - 1]
      BY <1>3, <1>4, <3>3, <3>4
    <3>6. PICK y \in R : y \in Int /\ y < 0
      BY <1>6, <2>1
    <3>7. QED
      BY <2>1, <3>2, <3>5, <3>6, SignedNeedsAll DEF R, t
  <2>4. QED
    BY <2>2, <2>3, <1>2
<1>12. QED
  BY <1>2, <1>8, <1>9, <1>10, <1>11

\* Some product needs every bit.
LEMMA TimesNeedsAll ==
  ASSUME NEW a \in Terms, NEW b \in Terms, a.w > 1, b.w > 1,
         a.w + b.w <= MaxWidth
  PROVE  NeedsAllBits(ArithmeticResults("*", a, b), Times(a, b))
<1> DEFINE R == ArithmeticResults("*", a, b)
           t == Times(a, b)
           v == a.w + b.w - 1
<1>1. t.w = a.w + b.w /\ t.s = (a.s \/ b.s)
  BY DEF Times, Term
<1>2. /\ a.w \in Widths /\ b.w \in Widths /\ a.w \in Nat /\ b.w \in Nat
      /\ a.s \in BOOLEAN /\ b.s \in BOOLEAN /\ t.s \in BOOLEAN
  BY <1>1, TermParts
<1>3. PICK g \in Nat :
        /\ g = Pow2[a.w - 1] /\ 2 * g = Pow2[a.w] /\ g >= 2
        /\ 0 \in ValueSet(a.w, a.s) /\ 1 \in ValueSet(a.w, a.s)
        /\ ~a.s => 2 * g - 1 \in ValueSet(a.w, a.s)
        /\ a.s => /\ -1 \in ValueSet(a.w, a.s)
                  /\ -g \in ValueSet(a.w, a.s)
                  /\ g - 1 \in ValueSet(a.w, a.s)
  BY NumbersOfTypes
<1>4. PICK h \in Nat :
        /\ h = Pow2[b.w - 1] /\ 2 * h = Pow2[b.w] /\ h >= 2
        /\ 0 \in ValueSet(b.w, b.s) /\ 1 \in ValueSet(b.w, b.s)
        /\ ~b.s => 2 * h - 1 \in ValueSet(b.w, b.s)
        /\ b.s => /\ -1 \in ValueSet(b.w, b.s)
                  /\ -h \in ValueSet(b.w, b.s)
                  /\ h - 1 \in ValueSet(b.w, b.s)
  BY NumbersOfTypes
<1>5. \A x \in ValueSet(a.w, a.s), y \in ValueSet(b.w, b.s) : x * y \in R
  BY ResultsOfNumbers
<1>6. v \in Widths /\ v + 1 \in Widths /\ t.w = v + 1
  BY <1>1, <1>2, WidthsType
<1>7. PICK k \in Nat : k = g * h /\ k >= 2 * g /\ k >= 2 * h
  <2>1. g * h \in Nat /\ g * h >= 2 * g /\ g * h >= 2 * h
    <3>1. PICK i \in Nat, j \in Nat : g = 2 + i /\ h = 2 + j
      <4>1. g - 2 \in Nat /\ h - 2 \in Nat /\ g = 2 + (g - 2) /\ h = 2 + (h - 2)
        BY <1>3, <1>4
      <4>2. QED
        BY <4>1
    <3>2. g * h = 2 * g + g * j /\ g * h = 2 * h + i * h
      BY <3>1
    <3>3. g * j \in Nat /\ i * h \in Nat
      BY <3>1
    <3>4. QED
      BY <3>2, <3>3
  <2>2. QED
    BY <2>1
<1>8. Pow2[v - 1] = k /\ Pow2[v] = 2 * k
  <2>1. /\ a.w - 1 \in 0 .. MaxWidth /\ b.w - 1 \in 0 .. MaxWidth
        /\ (a.w - 1) + (b.w - 1) \in 0 .. MaxWidth
        /\ (a.w - 1) + (b.w - 1) = v - 1
    BY <1>2, <1>6, WidthsType
  <2>2. Pow2[(a.w - 1) + (b.w - 1)] = Pow2[a.w - 1] * Pow2[b.w - 1]
    BY <2>1, Powers
  <2>3. Pow2[v] = 2 * Pow2[v - 1]
    BY <1>6, RangeBounds
  <2>4. QED
    BY <1>3, <1>4, <1>7, <2>1, <2>2, <2>3
<1> HIDE DEF R, t, v
<1>9. \E y \in R : t.s => y \in Int /\ y < 0
  <2>1. a.s => (-1) * 1 \in R
    BY <1>3, <1>4, <1>5
  <2>2. b.s => 1 * (-1) \in R
    BY <1>3, <1>4, <1>5
  <2>3. (-1) * 1 = -1 /\ 1 * (-1) = -1 /\ -1 \in Int /\ -1 < 0
    OBVIOUS
  <2>4. 0 * 0 \in R \/ a.s \/ b.s
    BY <1>3, <1>4, <1>5
  <2>5. QED
    BY <1>1, <1>2, <2>1, <2>2, <2>3, <2>4
<1>10. CASE ~a.s /\ ~b.s
  <2>1. PICK x \in R : x = (2 * g - 1) * (2 * h - 1)
    BY <1>3, <1>4, <1>5, <1>10
  <2>2. x = 4 * k - 2 * g - 2 * h + 1
    <3>1. (2 * g - 1) * (2 * h - 1) = 4 * (g * h) - 2 * g - 2 * h + 1
      OBVIOUS
    <3>2. QED
      BY <1>7, <2>1, <3>1
  <2>3. x \in Int /\ x >= Pow2[v]
    BY <1>7, <1>8, <2>2
  <2>0. t.s = FALSE
    BY <1>1, <1>2, <1>10
  <2>4. QED
    BY <1>6, <2>0, <2>3, UnsignedNeedsAll DEF R, t
<1>11. CASE a.s /\ b.s
  <2>1. PICK x \in R : x = (-g) * (-h)
    BY <1>3, <1>4, <1>5, <1>11
  <2>2. x = k
    <3>1. (-g) * (-h) = g * h
      OBVIOUS
    <3>2. QED
      BY <1>7, <2>1, <3>1
  <2>3. x \in Int /\ x >= Pow2[v - 1]
    BY <1>7, <1>8, <2>2
  <2>0. t.s = TRUE
    BY <1>1, <1>2, <1>11
  <2>4. PICK y \in R : y \in Int /\ y < 0
    BY <1>9, <2>0
  <2>5. QED
    BY <1>6, <2>0, <2>3, <2>4, SignedNeedsAll DEF R, t
<1>12. CASE ~a.s /\ b.s
  <2>1. PICK x \in R : x = (2 * g - 1) * (-h)
    BY <1>3, <1>4, <1>5, <1>12
  <2>2. x = h - 2 * k
    <3>1. (2 * g - 1) * (-h) = h - 2 * (g * h)
      OBVIOUS
    <3>2. QED
      BY <1>7, <2>1, <3>1
  <2>3. x \in Int /\ x < -Pow2[v - 1]
    BY <1>4, <1>7, <1>8, <2>2
  <2>0. t.s = TRUE
    BY <1>1, <1>2, <1>12
  <2>4. PICK y \in R : y \in Int /\ y < 0
    BY <1>9, <2>0
  <2>5. QED
    BY <1>6, <2>0, <2>3, <2>4, SignedNeedsAll DEF R, t
<1>13. CASE a.s /\ ~b.s
  <2>1. PICK x \in R : x = (-g) * (2 * h - 1)
    BY <1>3, <1>4, <1>5, <1>13
  <2>2. x = g - 2 * k
    <3>1. (-g) * (2 * h - 1) = g - 2 * (g * h)
      OBVIOUS
    <3>2. QED
      BY <1>7, <2>1, <3>1
  <2>3. x \in Int /\ x < -Pow2[v - 1]
    BY <1>3, <1>7, <1>8, <2>2
  <2>0. t.s = TRUE
    BY <1>1, <1>2, <1>13
  <2>4. PICK y \in R : y \in Int /\ y < 0
    BY <1>9, <2>0
  <2>5. QED
    BY <1>6, <2>0, <2>3, <2>4, SignedNeedsAll DEF R, t
<1>14. QED
  BY <1>2, <1>10, <1>11, <1>12, <1>13

\* Some negated number needs every bit.
LEMMA NegatedNeedsAll ==
  ASSUME NEW a \in Terms, a.w > 1, a.w < MaxWidth
  PROVE  NeedsAllBits(ArithmeticResults("neg", a, a), Negated(a))
<1> DEFINE R == ArithmeticResults("neg", a, a)
           t == Negated(a)
           v == a.w
<1>1. t.w = a.w + 1 /\ t.s = TRUE
  BY DEF Negated, Term
<1>2. /\ a.w \in Widths /\ a.w + 1 \in Widths /\ a.s \in BOOLEAN
  BY TermParts, WidthsType
<1>3. PICK g \in Nat :
        /\ g = Pow2[a.w - 1] /\ g >= 2 /\ 1 \in ValueSet(a.w, a.s)
        /\ ~a.s => 2 * g - 1 \in ValueSet(a.w, a.s)
        /\ a.s => -g \in ValueSet(a.w, a.s)
  BY NumbersOfTypes
<1>4. \A x \in ValueSet(a.w, a.s) : -x \in R
  BY ResultsOfNumbers
<1> HIDE DEF R, t
<1>5. -1 \in R /\ -1 \in Int /\ -1 < 0
  BY <1>3, <1>4
<1>6. CASE a.s
  <2>1. PICK x \in R : x = -(-g)
    BY <1>3, <1>4, <1>6
  <2>2. x \in Int /\ x >= Pow2[a.w - 1]
    BY <1>3, <2>1
  <2>3. QED
    BY <1>1, <1>2, <1>5, <2>2, SignedNeedsAll DEF R, t
<1>7. CASE ~a.s
  <2>1. PICK x \in R : x = -(2 * g - 1)
    BY <1>3, <1>4, <1>7
  <2>2. x \in Int /\ x < -Pow2[a.w - 1]
    BY <1>3, <2>1
  <2>3. QED
    BY <1>1, <1>2, <1>5, <2>2, SignedNeedsAll DEF R, t
<1>8. QED
  BY <1>2, <1>6, <1>7

\* Only the arithmetic operators record an arithmetic call.
LEMMA ArithmeticCalls ==
  ASSUME Next
  PROVE  \/ Add \/ Subtract \/ Multiply \/ Negate
         \/ UNCHANGED <<vecs, flags, call>>
         \/ call'.op \notin {"+", "-", "*", "neg"}
<1> DEFINE Other == call'.op \notin {"+", "-", "*", "neg"}
<1>1. NewVec \/ NewFlag \/ DeclareVec \/ DeclareFlag \/ Promote => Other
  BY CallOfReturn DEF NewVec, NewFlag, DeclareVec, DeclareFlag, Promote
<1>2. CastUnsafely \/ Reinterpret \/ CastChecked => Other
  BY DEF CastUnsafely, Reinterpret, CastChecked, ReturnVec, Call
<1>3. EqualTo \/ NotEqualTo \/ LessThan \/ AtMost \/ GreaterThan \/ AtLeast => Other
  BY CallOfReturn
     DEF EqualTo, NotEqualTo, LessThan, AtMost, GreaterThan, AtLeast, Compare
<1>4. MathEqualTo \/ MathNotEqualTo \/ MathLessThan \/ MathAtMost
        \/ MathGreaterThan \/ MathAtLeast => Other
  BY CallOfReturn
     DEF MathEqualTo, MathNotEqualTo, MathLessThan, MathAtMost, MathGreaterThan,
         MathAtLeast, Compare
<1>5. IteVec \/ IteNative \/ IteFlag => Other
  BY CallOfReturn DEF IteVec, IteNative, IteFlag
<1>6. CastSafely \/ BoolToVec \/ VecToBool => Other
  BY CallOfReturn DEF CastSafely, BoolToVec, VecToBool
<1>7. ShiftLeftConst \/ ShiftLeft \/ ShiftRightConst \/ ShiftRight => Other
  BY CallOfReturn DEF ShiftLeftConst, ShiftLeft, ShiftRightConst, ShiftRight
<1>8. Connect \/ Not => Other
  BY CallOfReturn DEF Connect, Not
<1>9. UseUninitialized \/ ConnectUninitialized => UNCHANGED <<vecs, flags, call>>
  BY DEF UseUninitialized, ConnectUninitialized, Stop
<1>10. QED
  BY <1>1, <1>2, <1>3, <1>4, <1>5, <1>6, <1>7, <1>8, <1>9 DEF Next

(***************************************************************************)
(* Where an operand is one bit wide that fails, at every width: what an    *)
(* unsigned bit is multiplied with holds all products itself, so that the  *)
(* result type has a bit more than the minimal one that                    *)
(* docs/usage/operations.md:169 promises (sym_bit_vec.h:239-248).          *)
(***************************************************************************)
THEOREM BitTimesAnyIsNotMinimal ==
  ASSUME NEW a \in Terms, NEW b \in Terms, a.w = 1, ~a.s, 1 + b.w <= MaxWidth
  PROVE  /\ Times(a, b).w = b.w + 1 /\ Times(a, b).s = b.s
         /\ ArithmeticResults("*", a, b) \subseteq ValueSet(b.w, b.s)
         /\ ~NeedsAllBits(ArithmeticResults("*", a, b), Times(a, b))
<1>1. b.w \in Widths /\ b.s \in BOOLEAN /\ b.w \in Nat \ {0} /\ a.s \in BOOLEAN
  BY TermParts, WidthsType DEF Widths
<1>2. Times(a, b).w = b.w + 1 /\ Times(a, b).s = b.s
  BY <1>1 DEF Times, Term
<1>3. ASSUME NEW x \in TermsOf(a)
      PROVE  Num(x) = 0 \/ Num(x) = 1
  <2>1. PICK p \in Patterns(a.w) : x = Term(a.w, a.s, p)
    BY DEF TermsOf
  <2>2. Pow2[1] = 2
    BY Powers
  <2>3. p \in 0 .. 1
    BY <2>1, <2>2 DEF Patterns
  <2>4. Num(x) = p
    BY <2>1 DEF Num, Decode, Term
  <2>5. QED
    BY <2>3, <2>4
<1>4. ASSUME NEW y \in TermsOf(b)
      PROVE  Num(y) \in ValueSet(b.w, b.s) /\ Num(y) \in Int
  <2>1. PICK p \in Patterns(b.w) : y = Term(b.w, b.s, p)
    BY DEF TermsOf
  <2>2. y \in Terms /\ y.w = b.w /\ y.s = b.s
    BY <1>1, <2>1, RangeBounds DEF Term, Terms, Patterns
  <2>3. QED
    BY <2>2, NumType
<1>5. 0 \in ValueSet(b.w, b.s)
  BY <1>1, RangeBounds DEF ValueSet
<1>6. ArithmeticResults("*", a, b) \subseteq ValueSet(b.w, b.s)
  <2>1. ArithmeticResults("*", a, b) = {Num(x) * Num(y) : x \in TermsOf(a), y \in TermsOf(b)}
    BY DEF ArithmeticResults
  <2>2. ASSUME NEW x \in TermsOf(a), NEW y \in TermsOf(b)
        PROVE  Num(x) * Num(y) \in ValueSet(b.w, b.s)
    <3>1. PICK n \in Int, k \in {0, 1} : n = Num(y) /\ n \in ValueSet(b.w, b.s) /\ k = Num(x)
      BY <1>3, <1>4
    <3>2. k * n = 0 \/ k * n = n
      <4>1. CASE k = 0
        BY <4>1
      <4>2. CASE k = 1
        BY <4>2
      <4>3. QED
        BY <4>1, <4>2
    <3>3. QED
      BY <1>5, <3>1, <3>2
  <2>3. QED
    BY <2>1, <2>2
<1>7. Times(a, b).w > 1 /\ Times(a, b).w - 1 = b.w
  BY <1>1, <1>2
<1>8. QED
  BY <1>2, <1>6, <1>7 DEF NeedsAllBits

\* The result type of every arithmetic operator on operands of more than one
\* bit is minimal: some operands of their types need all of its bits, and its
\* sign, at every width.
THEOREM ResultsAreTight == Spec => []NoWiderThanNecessary
<1>1. Init => NoWiderThanNecessary
  BY DEF Init, Call, NoWiderThanNecessary, Made
<1>2. ASSUME TypeOK, NoWiderThanNecessary, [Next]_vars
      PROVE  NoWiderThanNecessary'
  <2>1. ASSUME NEW op \in {"+", "-", "*", "neg"}, NEW args, NEW r \in Terms,
               ReturnVec(Call(op, args, <<>>, 0), r),
               (\A i \in 1 .. Len(args) : args[i].w > 1) =>
                  NeedsAllBits(ArithmeticResults(op, args[1], args[Len(args)]), r)
        PROVE  NoWiderThanNecessary'
    <3>1. LastVec' = r /\ call'.op = op /\ call'.vals = args
      BY <1>2, <2>1, LastOfAppend DEF TypeOK, LastVec, ReturnVec, Call
    <3>2. QED
      BY <2>1, <3>1 DEF NoWiderThanNecessary, Made, Source
  <2>2. Operands \subseteq Terms /\ Held \subseteq Terms
    BY <1>2, MadeType
  <2>3. CASE Add
    <3>1. PICK a \in Terms, b \in Terms :
            /\ ArithResultWidth(a, b) <= MaxWidth
            /\ ReturnVec(Call("+", <<a, b>>, <<>>, 0), Plus(a, b))
      BY <2>2, <2>3 DEF Add
    <3>2. Plus(a, b) \in Terms
      BY <3>1, PlusIsExact
    <3>3. PICK r, args :
            /\ r \in Terms /\ args = <<a, b>> /\ r = Plus(a, b)
            /\ ReturnVec(Call("+", args, <<>>, 0), r)
      BY <3>1, <3>2
    <3>4. /\ args[1] = a /\ args[Len(args)] = b
          /\ (\A i \in 1 .. Len(args) : args[i].w > 1) => a.w > 1 /\ b.w > 1
      BY <3>3
    <3>5. a.w > 1 /\ b.w > 1 => NeedsAllBits(ArithmeticResults("+", a, b), r)
      BY <3>1, <3>3, PlusNeedsAll
    <3>6. QED
      BY <2>1, <3>3, <3>4, <3>5
  <2>4. CASE Subtract
    <3>1. PICK a \in Terms, b \in Terms :
            /\ ArithResultWidth(a, b) <= MaxWidth
            /\ ReturnVec(Call("-", <<a, b>>, <<>>, 0), Minus(a, b))
      BY <2>2, <2>4 DEF Subtract
    <3>2. Minus(a, b) \in Terms
      BY <3>1, MinusIsExact
    <3>3. PICK r, args :
            /\ r \in Terms /\ args = <<a, b>> /\ r = Minus(a, b)
            /\ ReturnVec(Call("-", args, <<>>, 0), r)
      BY <3>1, <3>2
    <3>4. /\ args[1] = a /\ args[Len(args)] = b
          /\ (\A i \in 1 .. Len(args) : args[i].w > 1) => a.w > 1 /\ b.w > 1
      BY <3>3
    <3>5. a.w > 1 /\ b.w > 1 => NeedsAllBits(ArithmeticResults("-", a, b), r)
      BY <3>1, <3>3, MinusNeedsAll
    <3>6. QED
      BY <2>1, <3>3, <3>4, <3>5
  <2>5. CASE Multiply
    <3>1. PICK a \in Terms, b \in Terms :
            /\ a.w + b.w <= MaxWidth
            /\ ReturnVec(Call("*", <<a, b>>, <<>>, 0), Times(a, b))
      BY <2>2, <2>5 DEF Multiply
    <3>2. Times(a, b) \in Terms
      BY <3>1, TimesIsExact
    <3>3. PICK r, args :
            /\ r \in Terms /\ args = <<a, b>> /\ r = Times(a, b)
            /\ ReturnVec(Call("*", args, <<>>, 0), r)
      BY <3>1, <3>2
    <3>4. /\ args[1] = a /\ args[Len(args)] = b
          /\ (\A i \in 1 .. Len(args) : args[i].w > 1) => a.w > 1 /\ b.w > 1
      BY <3>3
    <3>5. a.w > 1 /\ b.w > 1 => NeedsAllBits(ArithmeticResults("*", a, b), r)
      BY <3>1, <3>3, TimesNeedsAll
    <3>6. QED
      BY <2>1, <3>3, <3>4, <3>5
  <2>6. CASE Negate
    <3>1. PICK a \in Terms :
            /\ a.w < MaxWidth
            /\ ReturnVec(Call("neg", <<a>>, <<>>, 0), Negated(a))
      BY <2>2, <2>6 DEF Negate
    <3>2. Negated(a) \in Terms
      BY <3>1, NegatedIsExact
    <3>3. PICK r, args :
            /\ r \in Terms /\ args = <<a>> /\ r = Negated(a)
            /\ ReturnVec(Call("neg", args, <<>>, 0), r)
      BY <3>1, <3>2
    <3>4. /\ args[1] = a /\ args[Len(args)] = a
          /\ (\A i \in 1 .. Len(args) : args[i].w > 1) => a.w > 1
      BY <3>3
    <3>5. a.w > 1 => NeedsAllBits(ArithmeticResults("neg", a, a), r)
      BY <3>1, <3>3, NegatedNeedsAll
    <3>6. QED
      BY <2>1, <3>3, <3>4, <3>5
  <2>7. CASE UNCHANGED <<vecs, flags, call>>
    BY <1>2, <2>7 DEF NoWiderThanNecessary, Made, Source, LastVec
  <2>8. CASE call'.op \notin {"+", "-", "*", "neg"}
    BY <2>8 DEF NoWiderThanNecessary, Made
  <2>9. QED
    BY <1>2, <2>3, <2>4, <2>5, <2>6, <2>7, <2>8, ArithmeticCalls DEF vars
<1>3. QED
  BY <1>1, <1>2, TypeCorrect, PTL DEF Spec

-----------------------------------------------------------------------------
(* The mapping of objects *)

\* The integer that a term is seen as.
LEMMA AbsTerm ==
  ASSUME NEW t \in Terms
  PROVE  /\ AbsVec(t) = [w |-> t.w, s |-> t.s, x |-> Num(t)]
         /\ AbsVec(t).w = t.w /\ AbsVec(t).s = t.s /\ AbsVec(t).x = Num(t)
         /\ AbsVec(t) # NoExpr
         /\ Num(t) \in ValueSet(t.w, t.s) /\ Num(t) \in Int
<1>1. t.w \in Widths /\ t.s \in BOOLEAN /\ Num(t) \in ValueSet(t.w, t.s) /\ Num(t) \in Int
  BY TermParts, NumType
<1>2. t # NoExpr
  BY ProgramAssumption
<1>3. AbsVec(t) = [w |-> t.w, s |-> t.s, x |-> Num(t)]
  BY <1>2 DEF AbsVec
<1>4. AbsVec(t) \in [w : Widths, s : BOOLEAN, x : Int]
  BY <1>1, <1>3
<1>5. QED
  BY <1>1, <1>3, <1>4, ProgramAssumption

\* A concrete value is seen as itself.
LEMMA AbsConstant ==
  ASSUME NEW c \in Concretes
  PROVE  ToSymbolic(c) \in Terms /\ AbsVec(ToSymbolic(c)) = c
<1>1. c \in [w : Widths, s : BOOLEAN, x : Int] /\ c.x \in ValueSet(c.w, c.s)
  BY ProgramAssumption
<1>2. /\ ToSymbolic(c) \in Terms
      /\ ToSymbolic(c).w = c.w /\ ToSymbolic(c).s = c.s /\ Num(ToSymbolic(c)) = c.x
  BY <1>1, ToSymbolicIsExact
<1>3. c = [w |-> c.w, s |-> c.s, x |-> c.x]
  BY <1>1
<1>4. QED
  BY <1>2, <1>3, AbsTerm

\* The mapping goes through sequences.
LEMMA AbsSequences ==
  /\ AbsVecs(<< >>) = << >>
  /\ \A a : AbsVecs(<<a>>) = <<AbsVec(a)>>
  /\ \A a, b : AbsVecs(<<a, b>>) = <<AbsVec(a), AbsVec(b)>>
  /\ \A ts \in Seq(Terms \cup {NoExpr}) :
        /\ Len(AbsVecs(ts)) = Len(ts)
        /\ \A t \in Terms \cup {NoExpr} :
              AbsVecs(Append(ts, t)) = Append(AbsVecs(ts), AbsVec(t))
<1>1. AbsVecs(<< >>) = << >>
  BY DEF AbsVecs
<1>2. \A a : AbsVecs(<<a>>) = <<AbsVec(a)>>
  BY DEF AbsVecs
<1>3. \A a, b : AbsVecs(<<a, b>>) = <<AbsVec(a), AbsVec(b)>>
  BY DEF AbsVecs
<1>4. ASSUME NEW ts \in Seq(Terms \cup {NoExpr})
      PROVE  Len(AbsVecs(ts)) = Len(ts)
  BY DEF AbsVecs
<1>5. ASSUME NEW ts \in Seq(Terms \cup {NoExpr}), NEW t \in Terms \cup {NoExpr}
      PROVE  AbsVecs(Append(ts, t)) = Append(AbsVecs(ts), AbsVec(t))
  BY DEF AbsVecs
<1>6. QED
  BY <1>1, <1>2, <1>3, <1>4, <1>5

\* The operands of a call are seen as operands.
LEMMA AbsOperands ==
  ASSUME TypeOK
  PROVE  /\ \A a \in MadeVecs : AbsVec(a) \in Exact!MadeInts
         /\ \A a \in Held : a \in Terms /\ AbsVec(a) \in Exact!Known
         /\ \A a \in Operands : a \in Terms /\ AbsVec(a) \in Exact!Operands
         /\ \A b \in HeldFlags : b \in BOOLEAN /\ b \in Exact!KnownConds
         /\ NoExpr \in MadeVecs => NoExpr \in Exact!MadeInts
         /\ NoExpr \in MadeFlags => NoExpr \in Exact!MadeConds
<1>1. Len(AbsVecs(vecs)) = Len(vecs)
  BY AbsSequences DEF TypeOK
<1>2. ASSUME NEW a \in MadeVecs
      PROVE  AbsVec(a) \in Exact!MadeInts
  <2>1. PICK i \in 1 .. Len(vecs) : a = vecs[i]
    BY DEF MadeVecs
  <2>2. AbsVecs(vecs)[i] = AbsVec(a)
    BY <2>1 DEF AbsVecs
  <2>3. QED
    BY <1>1, <2>2 DEF Exact!MadeInts
<1>3. ASSUME NEW a \in Held
      PROVE  a \in Terms /\ AbsVec(a) \in Exact!Known
  BY <1>2, MadeType, AbsTerm DEF Held, Exact!Known
<1>4. ASSUME NEW a \in Operands
      PROVE  a \in Terms /\ AbsVec(a) \in Exact!Operands
  BY <1>3, AbsConstant DEF Operands, Exact!Operands
<1>5. MadeFlags = Exact!MadeConds /\ HeldFlags = Exact!KnownConds
  BY DEF MadeFlags, HeldFlags, Exact!MadeConds, Exact!KnownConds
<1>6. AbsVec(NoExpr) = NoExpr
  BY DEF AbsVec
<1>7. QED
  BY <1>2, <1>3, <1>4, <1>5, <1>6, MadeType

-----------------------------------------------------------------------------
(* What a call returns *)

\* Both specifications mean the same ranges.
LEMMA SameRanges ==
  /\ Exact!Widths = Widths
  /\ \A w, s : Exact!ValueSet(w, s) = ValueSet(w, s)
  /\ \A x, n : Exact!FloorShift(x, n) = FloorShift(x, n)
<1>1. Exact!Widths = Widths
  BY DEF Widths, Exact!Widths
<1>2. \A w, s : Exact!ValueSet(w, s) = ValueSet(w, s)
  BY Zenon DEF ValueSet, Exact!ValueSet
<1>3. \A x, n : Exact!FloorShift(x, n) = FloorShift(x, n)
  BY Zenon DEF FloorShift, Exact!FloorShift
<1>4. QED
  BY <1>1, <1>2, <1>3

\* A call of the program is the call on the integers.
LEMMA AbsCall ==
  ASSUME NEW op, NEW vals, NEW conds, NEW n,
         Going, call' = Call(op, vals, conds, n), UNCHANGED status, TypeOK
  PROVE  Exact!Does(Exact!Call(op, AbsVecs(vals), conds, n))
<1>1. Len(AbsVecs(vecs)) = Len(vecs)
  BY AbsSequences DEF TypeOK
<1>2. [call' EXCEPT !.vals = AbsVecs(call'.vals)] = Exact!Call(op, AbsVecs(vals), conds, n)
  BY DEF Call, Exact!Call
<1>3. QED
  BY <1>1, <1>2 DEF Exact!Does, Going

\* A new term is a new integer of its type.
LEMMA AbsReturnVec ==
  ASSUME TypeOK, NEW op, NEW vals, NEW conds, NEW n, NEW t \in Terms,
         ReturnVec(Call(op, vals, conds, n), t)
  PROVE  /\ Exact!Does(Exact!Call(op, AbsVecs(vals), conds, n))
         /\ UNCHANGED flags
         /\ Exact!NewInt(t.w, t.s, Num(t))
         /\ AbsVecs(vecs') = Append(AbsVecs(vecs), AbsVec(t))
         /\ t.w \in Widths /\ t.s \in BOOLEAN /\ Num(t) \in ValueSet(t.w, t.s)
<1>1. Exact!Does(Exact!Call(op, AbsVecs(vals), conds, n))
  BY AbsCall DEF ReturnVec
<1>2. AbsVecs(vecs') = Append(AbsVecs(vecs), AbsVec(t))
  BY AbsSequences DEF ReturnVec, TypeOK
<1>3. Exact!NewInt(t.w, t.s, Num(t))
  BY <1>2, AbsTerm, SameRanges DEF Exact!NewInt, Exact!Typed
<1>4. QED
  BY <1>1, <1>2, <1>3, TermParts, NumType DEF ReturnVec

\* It is the exact integer x if the term stands for x.
LEMMA AbsReturnInt ==
  ASSUME TypeOK, NEW op, NEW vals, NEW conds, NEW n, NEW t \in Terms,
         ReturnVec(Call(op, vals, conds, n), t)
  PROVE  /\ Exact!Does(Exact!Call(op, AbsVecs(vals), conds, n))
         /\ Exact!ReturnInt(Num(t))
BY AbsReturnVec, SameRanges DEF Exact!ReturnInt

\* A new Boolean is a new Boolean.
LEMMA AbsReturnFlag ==
  ASSUME TypeOK, NEW op, NEW vals, NEW conds, NEW n, NEW b,
         ReturnFlag(Call(op, vals, conds, n), b)
  PROVE  /\ Exact!Does(Exact!Call(op, AbsVecs(vals), conds, n))
         /\ Exact!ReturnCond(b)
<1>1. Exact!Does(Exact!Call(op, AbsVecs(vals), conds, n))
  BY AbsCall DEF ReturnFlag
<1>2. QED
  BY <1>1 DEF ReturnFlag, Exact!ReturnCond

-----------------------------------------------------------------------------
(* Every call is one of the calls on integers *)

\* Constructors and to_symbolic.
LEMMA ConstructorsAbs ==
  ASSUME TypeOK, NewVec \/ NewFlag \/ DeclareVec \/ DeclareFlag \/ Promote
  PROVE  Exact!Next
<1>1. CASE NewVec
  <2>1. PICK ty \in InputTypes : \E p \in Patterns(ty.w) :
          ReturnVec(Call("variable", <<>>, <<>>, 0), Term(ty.w, ty.s, p))
    BY <1>1 DEF NewVec
  <2>2. PICK p \in Patterns(ty.w) :
          ReturnVec(Call("variable", <<>>, <<>>, 0), Term(ty.w, ty.s, p))
    BY <2>1
  <2>3. ty \in Types /\ ty.w \in Widths /\ ty.s \in BOOLEAN
    BY ProgramAssumption DEF Types
  <2>4. p \in Nat
    BY <2>3, RangeBounds DEF Patterns
  <2> DEFINE t == Term(ty.w, ty.s, p)
  <2>5. t \in Terms
    BY <2>3, <2>4 DEF Term, Terms
  <2>6. ReturnVec(Call("variable", <<>>, <<>>, 0), t)
    BY <2>2
  <2> HIDE DEF t
  <2>7. Exact!Input
    BY <2>5, <2>6, AbsReturnVec, AbsSequences, SameRanges DEF Exact!Input
  <2>8. QED
    BY <2>7 DEF Exact!Next
<1>2. CASE NewFlag
  <2>1. PICK b \in BOOLEAN : ReturnFlag(Call("boolean", <<>>, <<>>, 0), b)
    BY <1>2 DEF NewFlag
  <2>2. Exact!InputCond
    BY <2>1, AbsReturnFlag, AbsSequences DEF Exact!InputCond
  <2>3. QED
    BY <2>2 DEF Exact!Next
<1>3. CASE DeclareVec
  <2>1. Exact!Does(Exact!Call("declare", <<>>, <<>>, 0)) /\ UNCHANGED flags
    BY <1>3, AbsCall, AbsSequences DEF DeclareVec, ReturnVec
  <2>2. AbsVecs(vecs') = Append(AbsVecs(vecs), NoExpr)
    BY <1>3, AbsSequences DEF DeclareVec, ReturnVec, TypeOK, AbsVec
  <2>3. Exact!Declare
    BY <2>1, <2>2 DEF Exact!Declare
  <2>4. QED
    BY <2>3 DEF Exact!Next
<1>4. CASE DeclareFlag
  <2>1. Exact!DeclareCond
    BY <1>4, AbsReturnFlag, AbsSequences DEF DeclareFlag, Exact!DeclareCond
  <2>2. QED
    BY <2>1 DEF Exact!Next
<1>5. CASE Promote
  <2>1. PICK c \in Concretes :
          ReturnVec(Call("to_symbolic", <<ToSymbolic(c)>>, <<>>, 0), ToSymbolic(c))
    BY <1>5 DEF Promote
  <2>2. ToSymbolic(c) \in Terms /\ AbsVec(ToSymbolic(c)) = c
    BY AbsConstant
  <2>3. c.w = ToSymbolic(c).w /\ c.s = ToSymbolic(c).s /\ c.x = Num(ToSymbolic(c))
    BY <2>2, AbsTerm
  <2>4. AbsVecs(<<ToSymbolic(c)>>) = <<c>>
    BY <2>2, AbsSequences
  <2>5. Exact!Constant
    BY <2>1, <2>2, <2>3, <2>4, AbsReturnVec DEF Exact!Constant
  <2>6. QED
    BY <2>5 DEF Exact!Next
<1>6. QED
  BY <1>1, <1>2, <1>3, <1>4, <1>5

\* The arithmetic operators never overflow.
LEMMA ArithmeticAbs ==
  ASSUME TypeOK, Add \/ Subtract \/ Multiply \/ Negate
  PROVE  Exact!Next
<1>1. CASE Add
  <2>1. PICK a \in Operands, b \in Operands :
          /\ ArithResultWidth(a, b) <= MaxWidth
          /\ ReturnVec(Call("+", <<a, b>>, <<>>, 0), Plus(a, b))
    BY <1>1 DEF Add
  <2>2. /\ a \in Terms /\ AbsVec(a) \in Exact!Operands /\ AbsVec(a).x = Num(a)
        /\ b \in Terms /\ AbsVec(b) \in Exact!Operands /\ AbsVec(b).x = Num(b)
    BY AbsOperands, AbsTerm
  <2>3. Plus(a, b) \in Terms /\ Num(Plus(a, b)) = AbsVec(a).x + AbsVec(b).x
    BY <2>1, <2>2, PlusIsExact
  <2>4. /\ Exact!Does(Exact!Call("+", <<AbsVec(a), AbsVec(b)>>, <<>>, 0))
        /\ Exact!ReturnInt(AbsVec(a).x + AbsVec(b).x)
    BY <2>1, <2>3, AbsReturnInt, AbsSequences
  <2>5. Exact!Arithmetic
    BY <2>2, <2>4 DEF Exact!Arithmetic
  <2>6. QED
    BY <2>5 DEF Exact!Next
<1>2. CASE Subtract
  <2>1. PICK a \in Operands, b \in Operands :
          /\ ArithResultWidth(a, b) <= MaxWidth
          /\ ReturnVec(Call("-", <<a, b>>, <<>>, 0), Minus(a, b))
    BY <1>2 DEF Subtract
  <2>2. /\ a \in Terms /\ AbsVec(a) \in Exact!Operands /\ AbsVec(a).x = Num(a)
        /\ b \in Terms /\ AbsVec(b) \in Exact!Operands /\ AbsVec(b).x = Num(b)
    BY AbsOperands, AbsTerm
  <2>3. Minus(a, b) \in Terms /\ Num(Minus(a, b)) = AbsVec(a).x - AbsVec(b).x
    BY <2>1, <2>2, MinusIsExact
  <2>4. /\ Exact!Does(Exact!Call("-", <<AbsVec(a), AbsVec(b)>>, <<>>, 0))
        /\ Exact!ReturnInt(AbsVec(a).x - AbsVec(b).x)
    BY <2>1, <2>3, AbsReturnInt, AbsSequences
  <2>5. Exact!Arithmetic
    BY <2>2, <2>4 DEF Exact!Arithmetic
  <2>6. QED
    BY <2>5 DEF Exact!Next
<1>3. CASE Multiply
  <2>1. PICK a \in Operands, b \in Operands :
          /\ a.w + b.w <= MaxWidth
          /\ ReturnVec(Call("*", <<a, b>>, <<>>, 0), Times(a, b))
    BY <1>3 DEF Multiply
  <2>2. /\ a \in Terms /\ AbsVec(a) \in Exact!Operands /\ AbsVec(a).x = Num(a)
        /\ b \in Terms /\ AbsVec(b) \in Exact!Operands /\ AbsVec(b).x = Num(b)
    BY AbsOperands, AbsTerm
  <2>3. Times(a, b) \in Terms /\ Num(Times(a, b)) = AbsVec(a).x * AbsVec(b).x
    BY <2>1, <2>2, TimesIsExact
  <2>4. /\ Exact!Does(Exact!Call("*", <<AbsVec(a), AbsVec(b)>>, <<>>, 0))
        /\ Exact!ReturnInt(AbsVec(a).x * AbsVec(b).x)
    BY <2>1, <2>3, AbsReturnInt, AbsSequences
  <2>5. Exact!Arithmetic
    BY <2>2, <2>4 DEF Exact!Arithmetic
  <2>6. QED
    BY <2>5 DEF Exact!Next
<1>4. CASE Negate
  <2>1. PICK a \in Held :
          a.w < MaxWidth /\ ReturnVec(Call("neg", <<a>>, <<>>, 0), Negated(a))
    BY <1>4 DEF Negate
  <2>2. a \in Terms /\ AbsVec(a) \in Exact!Known /\ AbsVec(a).x = Num(a)
    BY AbsOperands, AbsTerm
  <2>3. Negated(a) \in Terms /\ Num(Negated(a)) = -AbsVec(a).x
    BY <2>1, <2>2, NegatedIsExact
  <2>4. /\ Exact!Does(Exact!Call("neg", <<AbsVec(a)>>, <<>>, 0))
        /\ Exact!ReturnInt(-AbsVec(a).x)
    BY <2>1, <2>3, AbsReturnInt, AbsSequences
  <2>5. Exact!Arithmetic
    BY <2>2, <2>4 DEF Exact!Arithmetic
  <2>6. QED
    BY <2>5 DEF Exact!Next
<1>5. QED
  BY <1>1, <1>2, <1>3, <1>4

\* What the comparisons tell about the integers.
LEMMA StrictTells ==
  ASSUME TypeOK, NEW a \in Operands, NEW b \in Operands, SameType(a, b)
  PROVE  /\ AbsVec(a) \in Exact!Operands /\ AbsVec(b) \in Exact!Operands
         /\ Eq(a, b) = (AbsVec(a).x = AbsVec(b).x)
         /\ Lt(a, b) = (AbsVec(a).x < AbsVec(b).x)
         /\ Lt(b, a) = (AbsVec(a).x > AbsVec(b).x)
         /\ (~Lt(b, a)) = (AbsVec(a).x <= AbsVec(b).x)
         /\ (~Lt(a, b)) = (AbsVec(a).x >= AbsVec(b).x)
<1>1. /\ a \in Terms /\ AbsVec(a) \in Exact!Operands /\ AbsVec(a).x = Num(a)
      /\ b \in Terms /\ AbsVec(b) \in Exact!Operands /\ AbsVec(b).x = Num(b)
      /\ Num(a) \in Int /\ Num(b) \in Int
  BY AbsOperands, AbsTerm
<1>2. SameType(b, a)
  BY DEF SameType
<1>3. /\ Eq(a, b) <=> Num(a) = Num(b)
      /\ Lt(a, b) <=> Num(a) < Num(b)
      /\ Lt(b, a) <=> Num(b) < Num(a)
  BY <1>1, <1>2, StrictComparisonsAreExact
<1>4. Eq(a, b) \in BOOLEAN /\ Lt(a, b) \in BOOLEAN /\ Lt(b, a) \in BOOLEAN
  BY ComparisonResults
<1>5. QED
  BY <1>1, <1>3, <1>4

\* The same for the math_ functions.
LEMMA MathTells ==
  ASSUME TypeOK, NEW a \in Operands, NEW b \in Operands, CommonWidth(a, b) <= MaxWidth
  PROVE  /\ AbsVec(a) \in Exact!Operands /\ AbsVec(b) \in Exact!Operands
         /\ MathEq(a, b) = (AbsVec(a).x = AbsVec(b).x)
         /\ MathLt(a, b) = (AbsVec(a).x < AbsVec(b).x)
         /\ MathLt(b, a) = (AbsVec(a).x > AbsVec(b).x)
         /\ (~MathLt(b, a)) = (AbsVec(a).x <= AbsVec(b).x)
         /\ (~MathLt(a, b)) = (AbsVec(a).x >= AbsVec(b).x)
<1>1. /\ a \in Terms /\ AbsVec(a) \in Exact!Operands /\ AbsVec(a).x = Num(a)
      /\ b \in Terms /\ AbsVec(b) \in Exact!Operands /\ AbsVec(b).x = Num(b)
      /\ Num(a) \in Int /\ Num(b) \in Int
  BY AbsOperands, AbsTerm
<1>2. CommonWidth(b, a) <= MaxWidth
  BY <1>1, TermParts DEF CommonWidth, Wider
<1>3. /\ MathEq(a, b) <=> Num(a) = Num(b)
      /\ MathLt(a, b) <=> Num(a) < Num(b)
      /\ MathLt(b, a) <=> Num(b) < Num(a)
  BY <1>1, <1>2, MathComparisonsAreExact
<1>4. MathEq(a, b) \in BOOLEAN /\ MathLt(a, b) \in BOOLEAN /\ MathLt(b, a) \in BOOLEAN
  BY ComparisonResults
<1>5. QED
  BY <1>1, <1>3, <1>4

\* A comparison that returns the truth about the integers.
LEMMA CompareAbs ==
  ASSUME TypeOK, NEW a, NEW b, NEW op, NEW result, Compare(op, a, b, result)
  PROVE  /\ Exact!Does(Exact!Call(op, <<AbsVec(a), AbsVec(b)>>, <<>>, 0))
         /\ Exact!ReturnCond(result)
BY AbsReturnFlag, AbsSequences DEF Compare

\* The strict comparisons compare the integers.
LEMMA StrictComparisonsAbs ==
  ASSUME TypeOK,
         \/ EqualTo \/ NotEqualTo \/ LessThan
         \/ AtMost \/ GreaterThan \/ AtLeast
  PROVE  Exact!Next
<1>1. CASE EqualTo
  <2>1. PICK a \in Operands, b \in Operands :
          SameType(a, b) /\ Compare("==", a, b, Eq(a, b))
    BY <1>1 DEF EqualTo, Strict
  <2>2. /\ AbsVec(a) \in Exact!Operands /\ AbsVec(b) \in Exact!Operands
        /\ (Eq(a, b)) = (AbsVec(a).x = AbsVec(b).x)
    BY <2>1, StrictTells
  <2>3. /\ Exact!Does(Exact!Call("==", <<AbsVec(a), AbsVec(b)>>, <<>>, 0))
        /\ Exact!ReturnCond(AbsVec(a).x = AbsVec(b).x)
    BY <2>1, <2>2, CompareAbs
  <2>4. Exact!Comparison
    BY <2>2, <2>3 DEF Exact!Comparison
  <2>5. QED
    BY <2>4 DEF Exact!Next
<1>2. CASE NotEqualTo
  <2>1. PICK a \in Operands, b \in Operands :
          SameType(a, b) /\ Compare("!=", a, b, ~Eq(a, b))
    BY <1>2 DEF NotEqualTo, Strict
  <2>2. /\ AbsVec(a) \in Exact!Operands /\ AbsVec(b) \in Exact!Operands
        /\ (~Eq(a, b)) = (AbsVec(a).x # AbsVec(b).x)
    BY <2>1, StrictTells
  <2>3. /\ Exact!Does(Exact!Call("!=", <<AbsVec(a), AbsVec(b)>>, <<>>, 0))
        /\ Exact!ReturnCond(AbsVec(a).x # AbsVec(b).x)
    BY <2>1, <2>2, CompareAbs
  <2>4. Exact!Comparison
    BY <2>2, <2>3 DEF Exact!Comparison
  <2>5. QED
    BY <2>4 DEF Exact!Next
<1>3. CASE LessThan
  <2>1. PICK a \in Operands, b \in Operands :
          SameType(a, b) /\ Compare("<", a, b, Lt(a, b))
    BY <1>3 DEF LessThan, Strict
  <2>2. /\ AbsVec(a) \in Exact!Operands /\ AbsVec(b) \in Exact!Operands
        /\ (Lt(a, b)) = (AbsVec(a).x < AbsVec(b).x)
    BY <2>1, StrictTells
  <2>3. /\ Exact!Does(Exact!Call("<", <<AbsVec(a), AbsVec(b)>>, <<>>, 0))
        /\ Exact!ReturnCond(AbsVec(a).x < AbsVec(b).x)
    BY <2>1, <2>2, CompareAbs
  <2>4. Exact!Comparison
    BY <2>2, <2>3 DEF Exact!Comparison
  <2>5. QED
    BY <2>4 DEF Exact!Next
<1>4. CASE AtMost
  <2>1. PICK a \in Operands, b \in Operands :
          SameType(a, b) /\ Compare("<=", a, b, ~Lt(b, a))
    BY <1>4 DEF AtMost, Strict
  <2>2. /\ AbsVec(a) \in Exact!Operands /\ AbsVec(b) \in Exact!Operands
        /\ (~Lt(b, a)) = (AbsVec(a).x <= AbsVec(b).x)
    BY <2>1, StrictTells
  <2>3. /\ Exact!Does(Exact!Call("<=", <<AbsVec(a), AbsVec(b)>>, <<>>, 0))
        /\ Exact!ReturnCond(AbsVec(a).x <= AbsVec(b).x)
    BY <2>1, <2>2, CompareAbs
  <2>4. Exact!Comparison
    BY <2>2, <2>3 DEF Exact!Comparison
  <2>5. QED
    BY <2>4 DEF Exact!Next
<1>5. CASE GreaterThan
  <2>1. PICK a \in Operands, b \in Operands :
          SameType(a, b) /\ Compare(">", a, b, Lt(b, a))
    BY <1>5 DEF GreaterThan, Strict
  <2>2. /\ AbsVec(a) \in Exact!Operands /\ AbsVec(b) \in Exact!Operands
        /\ (Lt(b, a)) = (AbsVec(a).x > AbsVec(b).x)
    BY <2>1, StrictTells
  <2>3. /\ Exact!Does(Exact!Call(">", <<AbsVec(a), AbsVec(b)>>, <<>>, 0))
        /\ Exact!ReturnCond(AbsVec(a).x > AbsVec(b).x)
    BY <2>1, <2>2, CompareAbs
  <2>4. Exact!Comparison
    BY <2>2, <2>3 DEF Exact!Comparison
  <2>5. QED
    BY <2>4 DEF Exact!Next
<1>6. CASE AtLeast
  <2>1. PICK a \in Operands, b \in Operands :
          SameType(a, b) /\ Compare(">=", a, b, ~Lt(a, b))
    BY <1>6 DEF AtLeast, Strict
  <2>2. /\ AbsVec(a) \in Exact!Operands /\ AbsVec(b) \in Exact!Operands
        /\ (~Lt(a, b)) = (AbsVec(a).x >= AbsVec(b).x)
    BY <2>1, StrictTells
  <2>3. /\ Exact!Does(Exact!Call(">=", <<AbsVec(a), AbsVec(b)>>, <<>>, 0))
        /\ Exact!ReturnCond(AbsVec(a).x >= AbsVec(b).x)
    BY <2>1, <2>2, CompareAbs
  <2>4. Exact!Comparison
    BY <2>2, <2>3 DEF Exact!Comparison
  <2>5. QED
    BY <2>4 DEF Exact!Next
<1>7. QED
  BY <1>1, <1>2, <1>3, <1>4, <1>5, <1>6

\* The math_ comparisons compare the integers.
LEMMA MathComparisonsAbs ==
  ASSUME TypeOK,
         \/ MathEqualTo \/ MathNotEqualTo \/ MathLessThan
         \/ MathAtMost \/ MathGreaterThan \/ MathAtLeast
  PROVE  Exact!Next
<1>1. CASE MathEqualTo
  <2>1. PICK a \in Operands, b \in Operands :
          CommonWidth(a, b) <= MaxWidth /\ Compare("==", a, b, MathEq(a, b))
    BY <1>1 DEF MathEqualTo, Widenable
  <2>2. /\ AbsVec(a) \in Exact!Operands /\ AbsVec(b) \in Exact!Operands
        /\ (MathEq(a, b)) = (AbsVec(a).x = AbsVec(b).x)
    BY <2>1, MathTells
  <2>3. /\ Exact!Does(Exact!Call("==", <<AbsVec(a), AbsVec(b)>>, <<>>, 0))
        /\ Exact!ReturnCond(AbsVec(a).x = AbsVec(b).x)
    BY <2>1, <2>2, CompareAbs
  <2>4. Exact!Comparison
    BY <2>2, <2>3 DEF Exact!Comparison
  <2>5. QED
    BY <2>4 DEF Exact!Next
<1>2. CASE MathNotEqualTo
  <2>1. PICK a \in Operands, b \in Operands :
          CommonWidth(a, b) <= MaxWidth /\ Compare("!=", a, b, ~MathEq(a, b))
    BY <1>2 DEF MathNotEqualTo, Widenable
  <2>2. /\ AbsVec(a) \in Exact!Operands /\ AbsVec(b) \in Exact!Operands
        /\ (~MathEq(a, b)) = (AbsVec(a).x # AbsVec(b).x)
    BY <2>1, MathTells
  <2>3. /\ Exact!Does(Exact!Call("!=", <<AbsVec(a), AbsVec(b)>>, <<>>, 0))
        /\ Exact!ReturnCond(AbsVec(a).x # AbsVec(b).x)
    BY <2>1, <2>2, CompareAbs
  <2>4. Exact!Comparison
    BY <2>2, <2>3 DEF Exact!Comparison
  <2>5. QED
    BY <2>4 DEF Exact!Next
<1>3. CASE MathLessThan
  <2>1. PICK a \in Operands, b \in Operands :
          CommonWidth(a, b) <= MaxWidth /\ Compare("<", a, b, MathLt(a, b))
    BY <1>3 DEF MathLessThan, Widenable
  <2>2. /\ AbsVec(a) \in Exact!Operands /\ AbsVec(b) \in Exact!Operands
        /\ (MathLt(a, b)) = (AbsVec(a).x < AbsVec(b).x)
    BY <2>1, MathTells
  <2>3. /\ Exact!Does(Exact!Call("<", <<AbsVec(a), AbsVec(b)>>, <<>>, 0))
        /\ Exact!ReturnCond(AbsVec(a).x < AbsVec(b).x)
    BY <2>1, <2>2, CompareAbs
  <2>4. Exact!Comparison
    BY <2>2, <2>3 DEF Exact!Comparison
  <2>5. QED
    BY <2>4 DEF Exact!Next
<1>4. CASE MathAtMost
  <2>1. PICK a \in Operands, b \in Operands :
          CommonWidth(a, b) <= MaxWidth /\ Compare("<=", a, b, ~MathLt(b, a))
    BY <1>4 DEF MathAtMost, Widenable
  <2>2. /\ AbsVec(a) \in Exact!Operands /\ AbsVec(b) \in Exact!Operands
        /\ (~MathLt(b, a)) = (AbsVec(a).x <= AbsVec(b).x)
    BY <2>1, MathTells
  <2>3. /\ Exact!Does(Exact!Call("<=", <<AbsVec(a), AbsVec(b)>>, <<>>, 0))
        /\ Exact!ReturnCond(AbsVec(a).x <= AbsVec(b).x)
    BY <2>1, <2>2, CompareAbs
  <2>4. Exact!Comparison
    BY <2>2, <2>3 DEF Exact!Comparison
  <2>5. QED
    BY <2>4 DEF Exact!Next
<1>5. CASE MathGreaterThan
  <2>1. PICK a \in Operands, b \in Operands :
          CommonWidth(a, b) <= MaxWidth /\ Compare(">", a, b, MathLt(b, a))
    BY <1>5 DEF MathGreaterThan, Widenable
  <2>2. /\ AbsVec(a) \in Exact!Operands /\ AbsVec(b) \in Exact!Operands
        /\ (MathLt(b, a)) = (AbsVec(a).x > AbsVec(b).x)
    BY <2>1, MathTells
  <2>3. /\ Exact!Does(Exact!Call(">", <<AbsVec(a), AbsVec(b)>>, <<>>, 0))
        /\ Exact!ReturnCond(AbsVec(a).x > AbsVec(b).x)
    BY <2>1, <2>2, CompareAbs
  <2>4. Exact!Comparison
    BY <2>2, <2>3 DEF Exact!Comparison
  <2>5. QED
    BY <2>4 DEF Exact!Next
<1>6. CASE MathAtLeast
  <2>1. PICK a \in Operands, b \in Operands :
          CommonWidth(a, b) <= MaxWidth /\ Compare(">=", a, b, ~MathLt(a, b))
    BY <1>6 DEF MathAtLeast, Widenable
  <2>2. /\ AbsVec(a) \in Exact!Operands /\ AbsVec(b) \in Exact!Operands
        /\ (~MathLt(a, b)) = (AbsVec(a).x >= AbsVec(b).x)
    BY <2>1, MathTells
  <2>3. /\ Exact!Does(Exact!Call(">=", <<AbsVec(a), AbsVec(b)>>, <<>>, 0))
        /\ Exact!ReturnCond(AbsVec(a).x >= AbsVec(b).x)
    BY <2>1, <2>2, CompareAbs
  <2>4. Exact!Comparison
    BY <2>2, <2>3 DEF Exact!Comparison
  <2>5. QED
    BY <2>4 DEF Exact!Next
<1>7. QED
  BY <1>1, <1>2, <1>3, <1>4, <1>5, <1>6

\* ite chooses; with a bool condition it may copy an object without a value.
LEMMA SelectionsAbs ==
  ASSUME TypeOK, IteVec \/ IteNative \/ IteFlag
  PROVE  Exact!Next
<1>1. CASE IteVec
  <2>1. PICK c \in HeldFlags, a \in Operands, b \in Operands :
          ReturnVec(Call("ite", <<a, b>>, <<c>>, 0), IF c THEN a ELSE b)
    BY <1>1 DEF IteVec
  <2>2. /\ c \in BOOLEAN /\ c \in Exact!KnownConds
        /\ a \in Terms /\ AbsVec(a) \in Exact!Operands
        /\ b \in Terms /\ AbsVec(b) \in Exact!Operands
    BY AbsOperands
  <2>3. (IF c THEN a ELSE b) \in Terms
    BY <2>2
  <2>4. AbsVec(IF c THEN a ELSE b) = IF c THEN AbsVec(a) ELSE AbsVec(b)
    BY <2>2
  <2>5. /\ Exact!Does(Exact!Call("ite", <<AbsVec(a), AbsVec(b)>>, <<c>>, 0))
        /\ UNCHANGED flags
        /\ AbsVecs(vecs') = Append(AbsVecs(vecs), AbsVec(IF c THEN a ELSE b))
    BY <2>1, <2>3, AbsReturnVec, AbsSequences
  <2>6. Exact!Selection
    BY <2>2, <2>4, <2>5 DEF Exact!Selection
  <2>7. QED
    BY <2>6 DEF Exact!Next
<1>2. CASE IteNative
  <2>1. PICK c \in BOOLEAN, a \in MadeVecs, b \in MadeVecs :
          ReturnVec(Call("ite", <<a, b>>, <<c>>, 0), IF c THEN a ELSE b)
    BY <1>2 DEF IteNative
  <2>2. /\ a \in Terms \cup {NoExpr} /\ AbsVec(a) \in Exact!MadeInts
        /\ b \in Terms \cup {NoExpr} /\ AbsVec(b) \in Exact!MadeInts
    BY MadeType, AbsOperands
  <2>3. AbsVec(IF c THEN a ELSE b) = IF c THEN AbsVec(a) ELSE AbsVec(b)
    BY <2>1
  <2>4. Exact!Does(Exact!Call("ite", <<AbsVec(a), AbsVec(b)>>, <<c>>, 0)) /\ UNCHANGED flags
    BY <2>1, AbsCall, AbsSequences DEF ReturnVec
  <2>5. AbsVecs(vecs') = Append(AbsVecs(vecs), AbsVec(IF c THEN a ELSE b))
    BY <2>1, <2>2, AbsSequences DEF ReturnVec, TypeOK
  <2>6. Exact!Copy
    BY <2>2, <2>3, <2>4, <2>5 DEF Exact!Copy
  <2>7. QED
    BY <2>6 DEF Exact!Next
<1>3. CASE IteFlag
  <2>1. PICK c \in HeldFlags, a \in HeldFlags, b \in HeldFlags :
          ReturnFlag(Call("ite", <<>>, <<c, a, b>>, 0), IF c THEN a ELSE b)
    BY <1>3 DEF IteFlag
  <2>2. c \in Exact!KnownConds /\ a \in Exact!KnownConds /\ b \in Exact!KnownConds
    BY AbsOperands
  <2>3. /\ Exact!Does(Exact!Call("ite", <<>>, <<c, a, b>>, 0))
        /\ Exact!ReturnCond(IF c THEN a ELSE b)
    BY <2>1, AbsReturnFlag, AbsSequences
  <2>4. Exact!SelectionCond
    BY <2>2, <2>3 DEF Exact!SelectionCond
  <2>5. QED
    BY <2>4 DEF Exact!Next
<1>4. QED
  BY <1>1, <1>2, <1>3

\* unsafe_cast and the reinterpretations return the low bits.
LEMMA LowBitsAbs ==
  ASSUME TypeOK, NEW a \in Held, NEW w \in Widths, NEW s \in BOOLEAN,
         ReturnVec(Call("unsafe_cast", <<a>>, <<>>, 0), UnsafeCast(a, w, s))
  PROVE  Exact!Next
<1> DEFINE r == UnsafeCast(a, w, s)
<1>1. a \in Terms /\ AbsVec(a) \in Exact!Known /\ AbsVec(a).x = Num(a)
  BY AbsOperands, AbsTerm
<1>2. r \in Terms /\ r.w = w /\ r.s = s
  BY <1>1, UnsafeCastIsWrap
<1>3. Exact!Congruent(w, Num(r), AbsVec(a).x)
  BY <1>1, CastIsCongruent DEF Exact!Congruent
<1> HIDE DEF r
<1>4. ReturnVec(Call("unsafe_cast", <<a>>, <<>>, 0), r)
  BY DEF r
<1>5. /\ Exact!Does(Exact!Call("unsafe_cast", <<AbsVec(a)>>, <<>>, 0))
      /\ UNCHANGED flags
      /\ Exact!NewInt(w, s, Num(r))
      /\ Num(r) \in ValueSet(w, s)
  BY <1>2, <1>4, AbsReturnVec, AbsSequences
<1>6. Exact!LowBits
  BY <1>1, <1>3, <1>5, SameRanges DEF Exact!LowBits
<1>7. QED
  BY <1>6 DEF Exact!Next

\* The casts and the conversions between SymBool and SymUInt<1>.
LEMMA CastsAbs ==
  ASSUME TypeOK,
         \/ CastUnsafely \/ CastSafely \/ CastChecked \/ Reinterpret
         \/ BoolToVec \/ VecToBool
  PROVE  Exact!Next
<1>1. CASE CastUnsafely
  BY <1>1, LowBitsAbs DEF CastUnsafely, Types
<1>2. CASE CastSafely
  <2>1. PICK a \in Held, ty \in Types :
          /\ SafeCastCompiles(a, ty.w, ty.s)
          /\ ReturnVec(Call("safe_cast", <<a>>, <<>>, 0), UnsafeCast(a, ty.w, ty.s))
    BY <1>2 DEF CastSafely
  <2> DEFINE r == UnsafeCast(a, ty.w, ty.s)
  <2>2. /\ a \in Terms /\ AbsVec(a) \in Exact!Known /\ AbsVec(a).x = Num(a)
        /\ ty.w \in Widths /\ ty.s \in BOOLEAN
    BY AbsOperands, AbsTerm DEF Types
  <2>3. Num(a) \in ValueSet(ty.w, ty.s)
    BY <2>1, <2>2, SafeCastIsInclusion, NumType
  <2>4. r \in Terms /\ Num(r) = AbsVec(a).x
    BY <2>2, <2>3, UnsafeCastIsWrap, CastKeeps
  <2> HIDE DEF r
  <2>5. ReturnVec(Call("safe_cast", <<a>>, <<>>, 0), r)
    BY <2>1 DEF r
  <2>6. /\ Exact!Does(Exact!Call("safe_cast", <<AbsVec(a)>>, <<>>, 0))
        /\ Exact!ReturnInt(AbsVec(a).x)
    BY <2>4, <2>5, AbsReturnInt, AbsSequences
  <2>7. Exact!Conversion
    BY <2>2, <2>6 DEF Exact!Conversion
  <2>8. QED
    BY <2>7 DEF Exact!Next
<1>3. CASE CastChecked
  <2>1. PICK a \in Held, ty \in Types :
          /\ Going
          /\ vecs' = Append(vecs, UnsafeCast(a, ty.w, ty.s))
          /\ flags' = Append(flags, ValuePreserved(a, ty.w, ty.s))
          /\ call' = Call("checked_cast", <<a>>, <<>>, 0)
          /\ UNCHANGED status
    BY <1>3 DEF CastChecked
  <2> DEFINE r    == UnsafeCast(a, ty.w, ty.s)
             kept == ValuePreserved(a, ty.w, ty.s)
  <2>2. /\ a \in Terms /\ AbsVec(a) \in Exact!Known
        /\ AbsVec(a).w = a.w /\ AbsVec(a).s = a.s /\ AbsVec(a).x = Num(a)
        /\ ty.w \in Widths /\ ty.s \in BOOLEAN
    BY AbsOperands, AbsTerm DEF Types
  <2>3. /\ r \in Terms /\ r.w = ty.w /\ r.s = ty.s
        /\ kept \in BOOLEAN
    BY <2>2, UnsafeCastIsWrap DEF ValuePreserved, Eq
  <2>4. Exact!Congruent(ty.w, Num(r), AbsVec(a).x)
    BY <2>2, CastIsCongruent DEF Exact!Congruent
  <2>5. Num(r) = AbsVec(a).x => kept
    BY <2>2, KeptIsFlagged
  <2>6. kept /\ Exact!Faithful(AbsVec(a), ty.w, ty.s) => Num(r) = AbsVec(a).x
    BY <2>2, CheckedCastReportsFit DEF Exact!Faithful
  <2> HIDE DEF r, kept
  <2>7. Exact!Does(Exact!Call("checked_cast", <<AbsVec(a)>>, <<>>, 0))
    BY <2>1, AbsCall, AbsSequences
  <2>8. AbsVecs(vecs') = Append(AbsVecs(vecs), AbsVec(r)) /\ flags' = Append(flags, kept)
    BY <2>1, <2>3, AbsSequences DEF TypeOK, r, kept
  <2>9. Num(r) \in ValueSet(ty.w, ty.s) /\ Exact!NewInt(ty.w, ty.s, Num(r))
    BY <2>3, <2>8, AbsTerm, SameRanges DEF Exact!NewInt, Exact!Typed
  <2>10. Exact!ReportedLowBits
    BY <2>2, <2>3, <2>4, <2>5, <2>6, <2>7, <2>8, <2>9, SameRanges DEF Exact!ReportedLowBits
  <2>11. QED
    BY <2>10 DEF Exact!Next
<1>4. CASE Reinterpret
  <2>1. PICK a \in Held, s \in BOOLEAN :
          ReturnVec(Call("unsafe_cast", <<a>>, <<>>, 0), UnsafeCast(a, a.w, s))
    BY <1>4 DEF Reinterpret
  <2>2. a.w \in Widths
    BY MadeType, TermParts
  <2>3. QED
    BY <2>1, <2>2, LowBitsAbs
<1>5. CASE BoolToVec
  <2>1. PICK b \in HeldFlags : ReturnVec(Call("as_uint1", <<>>, <<b>>, 0), AsUint1(b))
    BY <1>5 DEF BoolToVec
  <2>2. b \in BOOLEAN /\ b \in Exact!KnownConds
    BY AbsOperands
  <2>3. AsUint1(b) \in Terms /\ Num(AsUint1(b)) = IF b THEN 1 ELSE 0
    BY <2>2, OneBit
  <2>4. /\ Exact!Does(Exact!Call("as_uint1", <<>>, <<b>>, 0))
        /\ Exact!ReturnInt(IF b THEN 1 ELSE 0)
    BY <2>1, <2>3, AbsReturnInt, AbsSequences
  <2>5. Exact!FromCond
    BY <2>2, <2>4 DEF Exact!FromCond
  <2>6. QED
    BY <2>5 DEF Exact!Next
<1>6. CASE VecToBool
  <2>1. PICK a \in Held :
          ~a.s /\ ReturnFlag(Call("as_bool", <<a>>, <<>>, 0), AsBool(a))
    BY <1>6 DEF VecToBool
  <2>2. a \in Terms /\ AbsVec(a) \in Exact!Known /\ AbsVec(a).x = Num(a)
    BY AbsOperands, AbsTerm
  <2>3. AsBool(a) = (AbsVec(a).x = 1)
    BY <2>1, <2>2, NumUnsigned DEF AsBool
  <2>4. /\ Exact!Does(Exact!Call("as_bool", <<AbsVec(a)>>, <<>>, 0))
        /\ Exact!ReturnCond(AbsVec(a).x = 1)
    BY <2>1, <2>3, AbsReturnFlag, AbsSequences
  <2>5. Exact!ToCond
    BY <2>2, <2>4 DEF Exact!ToCond
  <2>6. QED
    BY <2>5 DEF Exact!Next
<1>7. QED
  BY <1>1, <1>2, <1>3, <1>4, <1>5, <1>6

\* A left shift within its result's width is a multiplication.
LEMMA LeftShiftAbs ==
  ASSUME TypeOK, NEW a \in Held, NEW n \in 0 .. MaxWidth, NEW r \in Terms, ~r.s,
         ReturnVec(Call("shl", <<a>>, <<>>, n), r),
         (Num(r) - Num(a) * Pow2[n]) % Pow2[r.w] = 0,
         Num(a) >= 0 => Num(r) = Num(a) * Pow2[n]
  PROVE  Exact!Next
<1>1. a \in Terms /\ AbsVec(a) \in Exact!Known /\ AbsVec(a).x = Num(a)
  BY AbsOperands, AbsTerm
<1>2. r.s = FALSE
  BY TermParts
<1>3. /\ Exact!Does(Exact!Call("shl", <<AbsVec(a)>>, <<>>, n))
      /\ UNCHANGED flags
      /\ Exact!NewInt(r.w, FALSE, Num(r))
      /\ r.w \in Widths /\ Num(r) \in ValueSet(r.w, FALSE)
  BY <1>2, AbsReturnVec, AbsSequences
<1>4. Exact!Congruent(r.w, Num(r), AbsVec(a).x * Pow2[n])
  BY <1>1 DEF Exact!Congruent
<1>5. Exact!LeftShift
  BY <1>1, <1>3, <1>4, SameRanges DEF Exact!LeftShift
<1>6. QED
  BY <1>5 DEF Exact!Next

\* A right shift is a division that keeps the type.
LEMMA RightShiftAbs ==
  ASSUME TypeOK, NEW a \in Held, NEW n \in 0 .. (Pow2[MaxWidth] - 1), NEW r \in Terms,
         r.w = a.w, r.s = a.s, Num(r) = FloorShift(Num(a), n),
         ReturnVec(Call("shr", <<a>>, <<>>, n), r)
  PROVE  Exact!Next
<1>1. /\ a \in Terms /\ AbsVec(a) \in Exact!Known
      /\ AbsVec(a).w = a.w /\ AbsVec(a).s = a.s /\ AbsVec(a).x = Num(a)
  BY AbsOperands, AbsTerm
<1>2. /\ Exact!Does(Exact!Call("shr", <<AbsVec(a)>>, <<>>, n))
      /\ UNCHANGED flags
      /\ Exact!NewInt(a.w, a.s, FloorShift(Num(a), n))
  BY AbsReturnVec, AbsSequences
<1>3. Exact!RightShift
  BY <1>1, <1>2, SameRanges DEF Exact!RightShift
<1>4. QED
  BY <1>3 DEF Exact!Next

\* The shifts.
LEMMA ShiftsAbs ==
  ASSUME TypeOK,
         ShiftLeftConst \/ ShiftLeft \/ ShiftRightConst \/ ShiftRight
  PROVE  Exact!Next
<1>0. ASSUME NEW k \in Widths
      PROVE  Pow2[k] <= Pow2[MaxWidth] /\ Pow2[k] \in Nat /\ Pow2[MaxWidth] \in Nat
  <2>1. k \in 0 .. MaxWidth /\ MaxWidth \in k .. MaxWidth /\ MaxWidth \in 0 .. MaxWidth
    BY WidthsType
  <2>2. QED
    BY <2>1, Pow2Mono, Pow2Type
<1>1. CASE ShiftLeftConst
  <2>1. PICK a \in Held, n \in 0 .. MaxShift :
          /\ a.w + n <= MaxWidth
          /\ ReturnVec(Call("shl", <<a>>, <<>>, n), ShlConst(a, n))
    BY <1>1 DEF ShiftLeftConst
  <2> DEFINE r == ShlConst(a, n)
  <2>2. a \in Terms /\ n \in Nat /\ a.w \in Nat
    BY MadeType, TermParts
  <2>3. /\ r \in Terms
        /\ (Num(r) - Num(a) * Pow2[n]) % Pow2[a.w + n] = 0
        /\ Num(a) >= 0 => Num(r) = Num(a) * Pow2[n]
    BY <2>1, <2>2, ShlConstMultiplies
  <2>4. r.w = a.w + n /\ ~r.s
    BY DEF ShlConst, Term
  <2>5. n \in 0 .. MaxWidth
    BY <2>1, <2>2, WidthsType
  <2>6. ReturnVec(Call("shl", <<a>>, <<>>, n), r)
    BY <2>1
  <2> HIDE DEF r
  <2>7. QED
    BY <2>3, <2>4, <2>5, <2>6, LeftShiftAbs
<1>2. CASE ShiftLeft
  <2>1. PICK a \in Held, amount \in Operands :
          /\ ~amount.s
          /\ ShlWidth(a, amount.w) <= MaxWidth
          /\ ReturnVec(Call("shl", <<a>>, <<>>, amount.p), ShlBy(a, amount))
    BY <1>2 DEF ShiftLeft
  <2> DEFINE r == ShlBy(a, amount)
             n == amount.p
  <2>2. a \in Terms /\ amount \in Terms /\ a.w \in Nat
    BY MadeType, TermParts
  <2>3. /\ r \in Terms
        /\ (Num(r) - Num(a) * Pow2[n]) % Pow2[ShlWidth(a, amount.w)] = 0
        /\ Num(a) >= 0 => Num(r) = Num(a) * Pow2[n]
    BY <2>1, <2>2, ShlByMultiplies
  <2>4. r.w = ShlWidth(a, amount.w) /\ ~r.s
    BY DEF ShlBy, Term
  <2>5. n \in 0 .. MaxWidth
    <3>1. n \in Nat /\ a.w + n <= ShlWidth(a, amount.w) /\ ShlWidth(a, amount.w) \in Widths
      BY <2>1, <2>2, AmountBounds
    <3> HIDE DEF n
    <3>2. QED
      BY <2>2, <3>1, WidthsType
  <2>6. ReturnVec(Call("shl", <<a>>, <<>>, n), r)
    BY <2>1
  <2> HIDE DEF r, n
  <2>7. QED
    BY <2>3, <2>4, <2>5, <2>6, LeftShiftAbs
<1>3. CASE ShiftRightConst
  <2>1. PICK a \in Held, n \in 0 .. MaxShift :
          /\ ShrConstCompiles(a, n)
          /\ ReturnVec(Call("shr", <<a>>, <<>>, n), ShrConst(a, n))
    BY <1>3 DEF ShiftRightConst
  <2> DEFINE r == ShrConst(a, n)
  <2>2. a \in Terms /\ n \in Nat /\ a.w \in Widths
    BY MadeType, TermParts
  <2>3. r \in Terms /\ Num(r) = FloorShift(Num(a), n)
    BY <2>2, ShrConstDivides
  <2>4. r.w = a.w /\ r.s = a.s
    BY DEF ShrConst, Term
  <2>5. n \in 0 .. (Pow2[MaxWidth] - 1)
    BY <1>0, <2>1, <2>2 DEF ShrConstCompiles
  <2>6. ReturnVec(Call("shr", <<a>>, <<>>, n), r)
    BY <2>1
  <2> HIDE DEF r
  <2>7. QED
    BY <2>3, <2>4, <2>5, <2>6, RightShiftAbs
<1>4. CASE ShiftRight
  <2>1. PICK a \in Held, amount \in Operands :
          ~amount.s /\ ReturnVec(Call("shr", <<a>>, <<>>, amount.p), ShrBy(a, amount))
    BY <1>4 DEF ShiftRight
  <2> DEFINE r == ShrBy(a, amount)
             n == amount.p
  <2>2. /\ a \in Terms /\ amount \in Terms
        /\ amount.w \in Widths /\ n \in Patterns(amount.w)
    BY MadeType, TermParts
  <2>3. r \in Terms /\ Num(r) = FloorShift(Num(a), n)
    BY <2>1, <2>2, ShrByDivides
  <2>4. r.w = a.w /\ r.s = a.s
    BY DEF ShrBy, Term
  <2>5. n \in 0 .. (Pow2[MaxWidth] - 1)
    BY <1>0, <2>2 DEF Patterns
  <2>6. ReturnVec(Call("shr", <<a>>, <<>>, n), r)
    BY <2>1
  <2> HIDE DEF r, n
  <2>7. QED
    BY <2>3, <2>4, <2>5, <2>6, RightShiftAbs
<1>5. QED
  BY <1>1, <1>2, <1>3, <1>4

\* The Boolean connectives.
LEMMA ConnectivesAbs ==
  ASSUME TypeOK, Connect \/ Not
  PROVE  Exact!Next
<1>1. CASE Connect
  <2>1. PICK a \in HeldFlags, b \in HeldFlags :
          \/ ReturnFlag(Call("&&", <<>>, <<a, b>>, 0), a /\ b)
          \/ ReturnFlag(Call("||", <<>>, <<a, b>>, 0), a \/ b)
          \/ ReturnFlag(Call("xor", <<>>, <<a, b>>, 0), a # b)
          \/ ReturnFlag(Call("iff", <<>>, <<a, b>>, 0), a = b)
    BY <1>1 DEF Connect
  <2>2. SUFFICES Exact!Connective
    BY DEF Exact!Next
  <2>3. /\ a \in Exact!KnownConds /\ b \in Exact!KnownConds
        /\ AbsVecs(<< >>) = << >>
    BY AbsOperands, AbsSequences
  <2>4. CASE ReturnFlag(Call("&&", <<>>, <<a, b>>, 0), a /\ b)
    <3>1. /\ Exact!Does(Exact!Call("&&", <<>>, <<a, b>>, 0))
          /\ Exact!ReturnCond(a /\ b)
      BY <2>3, <2>4, AbsReturnFlag
    <3>2. QED
      BY <2>3, <3>1 DEF Exact!Connective
  <2>5. CASE ReturnFlag(Call("||", <<>>, <<a, b>>, 0), a \/ b)
    <3>1. /\ Exact!Does(Exact!Call("||", <<>>, <<a, b>>, 0))
          /\ Exact!ReturnCond(a \/ b)
      BY <2>3, <2>5, AbsReturnFlag
    <3>2. QED
      BY <2>3, <3>1 DEF Exact!Connective
  <2>6. CASE ReturnFlag(Call("xor", <<>>, <<a, b>>, 0), a # b)
    <3>1. /\ Exact!Does(Exact!Call("xor", <<>>, <<a, b>>, 0))
          /\ Exact!ReturnCond(a # b)
      BY <2>3, <2>6, AbsReturnFlag
    <3>2. QED
      BY <2>3, <3>1 DEF Exact!Connective
  <2>7. CASE ReturnFlag(Call("iff", <<>>, <<a, b>>, 0), a = b)
    <3>1. /\ Exact!Does(Exact!Call("iff", <<>>, <<a, b>>, 0))
          /\ Exact!ReturnCond(a = b)
      BY <2>3, <2>7, AbsReturnFlag
    <3>2. QED
      BY <2>3, <3>1 DEF Exact!Connective
  <2>8. QED
    BY <2>1, <2>4, <2>5, <2>6, <2>7
<1>2. CASE Not
  <2>1. PICK a \in HeldFlags : ReturnFlag(Call("not", <<>>, <<a>>, 0), ~a)
    BY <1>2 DEF Not
  <2>2. a \in Exact!KnownConds
    BY AbsOperands
  <2>3. /\ Exact!Does(Exact!Call("not", <<>>, <<a>>, 0))
        /\ Exact!ReturnCond(~a)
    BY <2>1, AbsReturnFlag, AbsSequences
  <2>4. Exact!Connective
    BY <2>2, <2>3 DEF Exact!Connective
  <2>5. QED
    BY <2>4 DEF Exact!Next
<1>3. QED
  BY <1>1, <1>2

\* An abort, or undefined behaviour, has an object without a value behind it.
LEMMA MisuseAbs ==
  ASSUME TypeOK, UseUninitialized \/ ConnectUninitialized
  PROVE  Exact!Next
<1>1. /\ NoExpr \in MadeVecs \/ NoExpr \in MadeFlags
      /\ status = "running" /\ status' \in {"aborted", "undefined"}
      /\ UNCHANGED <<vecs, flags, call>>
  BY DEF UseUninitialized, ConnectUninitialized, Stop
<1>2. NoExpr \in Exact!MadeInts \/ NoExpr \in Exact!MadeConds
  BY <1>1, AbsOperands
<1>3. Exact!Misuse
  BY <1>1, <1>2 DEF Exact!Misuse
<1>4. QED
  BY <1>3 DEF Exact!Next

-----------------------------------------------------------------------------
\* z3wire's programs compute with exact integers: every run of SymProgram is,
\* seen through the numbers that its objects stand for, one of ExactIntegers.
THEOREM Implementation == Spec => ImplementsExactIntegers
<1>1. Init => Exact!Init
  BY AbsSequences DEF Init, Exact!Init, Call, Exact!Call
<1>2. TypeOK /\ [Next]_vars => [Exact!Next]_Exact!vars
  <2>1. SUFFICES ASSUME TypeOK, [Next]_vars
                 PROVE  [Exact!Next]_Exact!vars
    OBVIOUS
  <2>2. CASE Next
    BY <2>1, <2>2, ConstructorsAbs, ArithmeticAbs, StrictComparisonsAbs,
       MathComparisonsAbs, SelectionsAbs, CastsAbs, ShiftsAbs,
       ConnectivesAbs, MisuseAbs DEF Next
  <2>3. CASE UNCHANGED vars
    BY <2>3 DEF vars, Exact!vars
  <2>4. QED
    BY <2>1, <2>2, <2>3
<1>3. QED
  BY <1>1, <1>2, TypeCorrect, PTL DEF Spec, ImplementsExactIntegers, Exact!Spec
=============================================================================
