------------------------ MODULE SolverSessionProofs ------------------------
(***************************************************************************)
(* Proofs, for every set of variables and any number of objects, pushes    *)
(* and models, of what SolverSessionProps states.                          *)
(***************************************************************************)
EXTENDS SolverSessionProps, SymBitVecLemmas

-----------------------------------------------------------------------------
(* The inductive invariant *)

\* An object: a value at every assignment, and a named vector is its variable.
IsObject(o) ==
    /\ o.w \in Widths \cup {0} /\ o.s \in BOOLEAN
    /\ o.at \in [Assignments -> Nat]
    /\ \A a \in Assignments : o.at[a] \in IF o.w = 0 THEN {0, 1} ELSE Patterns(o.w)
    /\ o.w # 0 /\ o.named # Anonymous =>
          /\ [name |-> o.named, w |-> o.w] \in Symbols
          /\ o.at = [a \in Assignments |-> a[[name |-> o.named, w |-> o.w]]]

SomeObjects == {o \in [w : Widths \cup {0}, s : BOOLEAN, at : [Assignments -> Nat],
                    uses : SUBSET Symbols, named : STRING \cup {Anonymous}] : IsObject(o)}

ObjectsOK == objs \in Seq(SomeObjects)

\* What checked_cast returned is still the cast of its source and its flag.
IsCast(c) ==
    /\ c.src \in Vecs /\ c.narrow \in Vecs /\ c.flag \in Flags
    /\ \A a \in Assignments :
          LET ty == objs[c.narrow]
          IN  /\ At(c.narrow, a) = UnsafeCast(At(c.src, a), ty.w, ty.s)
              /\ Truth(c.flag, a) <=> ValuePreserved(At(c.src, a), ty.w, ty.s)

CastsOK == \A c \in casts : IsCast(c)

\* What a comparison said when it was made is true of the numbers compared.
NumberAt(operand, a) ==
    IF IsSymbolic(operand) THEN Num(At(operand.i, a)) ELSE operand.c.x

IsComparison(c) ==
    /\ c.flag \in Flags /\ c.l \in Operands /\ c.r \in Operands
    /\ \A a \in Assignments :
          Truth(c.flag, a) <=> Holds(c.op, NumberAt(c.l, a), NumberAt(c.r, a))

ComparedOK == \A c \in compared : IsComparison(c)

FramesOK ==
    /\ frames \in Seq(SUBSET Flags) /\ frames # <<>>
    /\ answer \in {"none", "sat", "unsat"}

\* The model, completed, satisfies what it was made under.
ModelOK ==
    HasModel => /\ model.met \subseteq Flags
                /\ Completed(model.part) \in Solutions(model.met)

SessionInv == ObjectsOK /\ CastsOK /\ ComparedOK /\ FramesOK /\ ModelOK

-----------------------------------------------------------------------------
(* Values of the variables *)

\* The ranges of variables and patterns.
LEMMA ValuesType ==
  /\ {0, 1} \subseteq 0 .. (Pow2[MaxWidth] - 1)
  /\ \A w \in Widths : /\ Patterns(w) \subseteq 0 .. (Pow2[MaxWidth] - 1)
                       /\ Patterns(w) \subseteq Nat
                       /\ 0 \in Patterns(w)
  /\ \A v \in Symbols : /\ v.w \in Widths \cup {0} /\ v.name \in STRING
                        /\ v = [name |-> v.name, w |-> v.w]
                        /\ 0 \in SymbolValues(v)
                        /\ SymbolValues(v) \subseteq Nat
  /\ 0 \notin Widths
<1>1. MaxWidth \in Nat \ {0} /\ 1 \in 0 .. MaxWidth /\ MaxWidth \in 1 .. MaxWidth /\ Pow2[1] = 2
  BY Powers
<1>2. 2 <= Pow2[MaxWidth] /\ Pow2[MaxWidth] \in Nat
  BY <1>1, Pow2Mono, Pow2Type
<1>3. ASSUME NEW w \in Widths
      PROVE  /\ Patterns(w) \subseteq 0 .. (Pow2[MaxWidth] - 1)
             /\ Patterns(w) \subseteq Nat /\ 0 \in Patterns(w)
  <2>1. w \in 0 .. MaxWidth /\ Pow2[w] \in Nat \ {0} /\ MaxWidth \in w .. MaxWidth
    BY RangeBounds, <1>1
  <2>2. Pow2[w] <= Pow2[MaxWidth]
    BY <2>1, Pow2Mono
  <2>3. QED
    BY <2>1, <2>2, <1>2 DEF Patterns
<1>4. ASSUME NEW v \in Symbols
      PROVE  /\ v.w \in Widths \cup {0} /\ v.name \in STRING
             /\ v = [name |-> v.name, w |-> v.w]
             /\ 0 \in SymbolValues(v) /\ SymbolValues(v) \subseteq Nat
  <2>1. v \in [name : STRING, w : Widths \cup {0}]
    BY SessionAssumption
  <2>2. QED
    BY <2>1, <1>3 DEF SymbolValues
<1>5. 0 \notin Widths
  BY <1>1 DEF Widths
<1>6. QED
  BY <1>1, <1>2, <1>3, <1>4, <1>5

\* An assignment gives each variable a value of its sort, and any such choice
\* of values is one.
LEMMA AssignmentsType ==
  /\ \A a \in Assignments : /\ DOMAIN a = Symbols
                            /\ \A v \in Symbols : a[v] \in SymbolValues(v)
  /\ \A f : (/\ f = [v \in Symbols |-> f[v]]
             /\ \A v \in Symbols : f[v] \in SymbolValues(v)) => f \in Assignments
<1>1. ASSUME NEW f, f = [v \in Symbols |-> f[v]],
             \A v \in Symbols : f[v] \in SymbolValues(v)
      PROVE  f \in Assignments
  <2>1. \A v \in Symbols : f[v] \in UNION {SymbolValues(u) : u \in Symbols}
    BY <1>1
  <2>2. f \in [Symbols -> UNION {SymbolValues(u) : u \in Symbols}]
    BY <1>1, <2>1
  <2>3. QED
    BY <1>1, <2>2 DEF Assignments
<1>2. QED
  BY <1>1 DEF Assignments

-----------------------------------------------------------------------------
(* Objects *)

\* What is known of an object that was made.
LEMMA ObjectParts ==
  ASSUME ObjectsOK
  PROVE  /\ Len(objs) \in Nat /\ DOMAIN objs = 1 .. Len(objs)
         /\ \A i \in DOMAIN objs : objs[i] \in SomeObjects /\ IsObject(objs[i])
         /\ \A i \in Vecs, a \in Assignments :
               /\ At(i, a) \in Terms
               /\ At(i, a).w = objs[i].w /\ At(i, a).s = objs[i].s
               /\ At(i, a).p = objs[i].at[a]
               /\ objs[i].w \in Widths /\ objs[i].s \in BOOLEAN
<1>1. Len(objs) \in Nat /\ DOMAIN objs = 1 .. Len(objs) /\ \A i \in DOMAIN objs : objs[i] \in SomeObjects
  BY DEF ObjectsOK
<1>2. \A i \in DOMAIN objs : IsObject(objs[i])
  BY <1>1 DEF SomeObjects
<1>3. ASSUME NEW i \in Vecs, NEW a \in Assignments
      PROVE  /\ At(i, a) \in Terms
             /\ At(i, a).w = objs[i].w /\ At(i, a).s = objs[i].s
             /\ At(i, a).p = objs[i].at[a]
             /\ objs[i].w \in Widths /\ objs[i].s \in BOOLEAN
  <2>1. i \in DOMAIN objs /\ objs[i].w # 0
    BY DEF Vecs
  <2>2. objs[i].w \in Widths /\ objs[i].s \in BOOLEAN /\ objs[i].at[a] \in Patterns(objs[i].w)
    BY <1>2, <2>1 DEF IsObject
  <2>3. objs[i].at[a] \in Nat
    BY <2>2, ValuesType
  <2>4. QED
    BY <2>2, <2>3 DEF At, Term, Terms
<1>4. QED
  BY <1>1, <1>2, <1>3

\* A vector made from terms of its type.
LEMMA VecOfType ==
  ASSUME ObjectsOK, NEW ty \in Types, NEW terms, NEW is \in SUBSET DOMAIN objs,
         \A a \in Assignments : terms[a].p \in Patterns(ty.w)
  PROVE  VecOf(ty, terms, is) \in SomeObjects
<1>1. Mentioned(is) \subseteq Symbols
  BY ObjectParts DEF Mentioned, SomeObjects
<1>2. ty.w \in Widths /\ ty.s \in BOOLEAN
  BY DEF Types
<1>3. \A a \in Assignments : terms[a].p \in Nat
  BY <1>2, ValuesType
<1>4. ty.w # 0
  BY <1>2, ValuesType
<1>5. DEFINE o == VecOf(ty, terms, is)
<1>6. /\ o.w = ty.w /\ o.s = ty.s /\ o.named = Anonymous /\ o.uses = Mentioned(is)
      /\ o.at = [a \in Assignments |-> terms[a].p]
  BY DEF VecOf, Object
<1>7. IsObject(o)
  BY <1>2, <1>3, <1>4, <1>6 DEF IsObject
<1>8. o \in [w : Widths \cup {0}, s : BOOLEAN, at : [Assignments -> Nat],
             uses : SUBSET Symbols, named : STRING \cup {Anonymous}]
  BY <1>1, <1>2, <1>3, <1>4 DEF VecOf, Object
<1>9. QED
  BY <1>7, <1>8 DEF SomeObjects

\* A flag made from truths.
LEMMA FlagOfType ==
  ASSUME ObjectsOK, NEW truths, NEW is \in SUBSET DOMAIN objs
  PROVE  FlagOf(truths, is) \in SomeObjects
<1>1. Mentioned(is) \subseteq Symbols
  BY ObjectParts DEF Mentioned, SomeObjects
<1>2. DEFINE o == FlagOf(truths, is)
<1>3. /\ o.w = 0 /\ o.s = FALSE /\ o.named = Anonymous /\ o.uses = Mentioned(is)
      /\ o.at = [a \in Assignments |-> IF truths[a] THEN 1 ELSE 0]
  BY DEF FlagOf, Object
<1>4. \A a \in Assignments : o.at[a] \in {0, 1}
  BY <1>3, Zenon
<1>5. o.at \in [Assignments -> Nat]
  BY <1>3, <1>4
<1>6. IsObject(o)
  BY <1>3, <1>4, <1>5 DEF IsObject
<1>7. o \in [w : Widths \cup {0}, s : BOOLEAN, at : [Assignments -> Nat],
             uses : SUBSET Symbols, named : STRING \cup {Anonymous}]
  BY <1>1, <1>3, <1>5 DEF FlagOf, Object
<1>8. QED
  BY <1>6, <1>7 DEF SomeObjects

\* A variable.
LEMMA VariableType ==
  ASSUME NEW v \in Symbols, NEW s \in BOOLEAN
  PROVE  LET symbol == SymbolOf(v.name, v.w, s)
         IN  /\ symbol = v
             /\ Object(v.w, s, [a \in Assignments |-> a[symbol]], {symbol}, v.name) \in SomeObjects
<1>1. SymbolOf(v.name, v.w, s) = v /\ v = [name |-> v.name, w |-> v.w]
  BY ValuesType DEF SymbolOf
<1>2. DEFINE o == Object(v.w, s, [a \in Assignments |-> a[v]], {v}, v.name)
<1>3. v.w \in Widths \cup {0} /\ v.name \in STRING
  BY ValuesType
<1>4. \A a \in Assignments : a[v] \in SymbolValues(v) /\ a[v] \in Nat
  BY AssignmentsType, ValuesType
<1>5. /\ o.w = v.w /\ o.s = s /\ o.named = v.name /\ o.uses = {v}
      /\ o.at = [a \in Assignments |-> a[v]]
  BY DEF Object
<1>6. IsObject(o)
  BY <1>1, <1>3, <1>4, <1>5 DEF IsObject, SymbolValues
<1>7. o \in [w : Widths \cup {0}, s : BOOLEAN, at : [Assignments -> Nat],
             uses : SUBSET Symbols, named : STRING \cup {Anonymous}]
  BY <1>3, <1>4 DEF Object
<1>8. QED
  BY <1>1, <1>6, <1>7 DEF SomeObjects

-----------------------------------------------------------------------------
(* Making objects keeps the invariant *)

\* New objects come after the old ones, which stay what they are.
LEMMA MakeGrows ==
  ASSUME ObjectsOK, NEW new \in Seq(SomeObjects), Make(new)
  PROVE  /\ ObjectsOK'
         /\ DOMAIN objs \subseteq DOMAIN objs'
         /\ \A i \in DOMAIN objs : objs'[i] = objs[i]
         /\ \A k \in 1 .. Len(new) :
               Len(objs) + k \in DOMAIN objs' /\ objs'[Len(objs) + k] = new[k]
<1>1. objs \in Seq(SomeObjects) /\ objs' = objs \o new
  BY DEF ObjectsOK, Make
<1>2. objs' \in Seq(SomeObjects)
  BY <1>1
<1>3. Len(objs) \in Nat /\ Len(new) \in Nat /\ Len(objs') = Len(objs) + Len(new)
  BY <1>1
<1>4. DOMAIN objs = 1 .. Len(objs) /\ DOMAIN objs' = 1 .. Len(objs')
  BY <1>1, <1>2
<1>5. \A i \in 1 .. Len(objs) : objs'[i] = objs[i]
  BY <1>1
<1>6. \A k \in 1 .. Len(new) : objs'[Len(objs) + k] = new[k]
  BY <1>1, <1>3
<1>7. QED
  BY <1>2, <1>3, <1>4, <1>5, <1>6 DEF ObjectsOK

\* An operand is an object or a concrete value.
LEMMA OperandForm ==
  ASSUME NEW operand \in Operands
  PROVE  IF IsSymbolic(operand) THEN operand.i \in Vecs /\ operand.i \in DOMAIN objs
                                ELSE operand.c \in Concretes
<1>1. CASE \E i \in Vecs : operand = [kind |-> "sym", i |-> i]
  BY <1>1 DEF IsSymbolic, Vecs
<1>2. CASE \E c \in Concretes : operand = [kind |-> "concrete", c |-> c]
  BY <1>2 DEF IsSymbolic
<1>3. QED
  BY <1>1, <1>2 DEF Operands

\* What is known of the old objects, of the assertions and of the model stays.
LEMMA MakeKeeps ==
  ASSUME SessionInv, NEW new \in Seq(SomeObjects), Make(new)
  PROVE  /\ ObjectsOK' /\ FramesOK' /\ ModelOK'
         /\ Vecs \subseteq Vecs' /\ Flags \subseteq Flags'
         /\ \A i \in DOMAIN objs, a \in Assignments :
               At(i, a)' = At(i, a) /\ (Truth(i, a)' <=> Truth(i, a))
         /\ \A c \in casts : IsCast(c)'
         /\ \A c \in compared : IsComparison(c)'
<1>1. /\ ObjectsOK' /\ DOMAIN objs \subseteq DOMAIN objs'
      /\ \A i \in DOMAIN objs : objs'[i] = objs[i]
  BY MakeGrows DEF SessionInv
<1>2. Vecs \subseteq Vecs' /\ Flags \subseteq Flags'
  BY <1>1 DEF Vecs, Flags
<1>3. \A i \in DOMAIN objs, a \in Assignments :
        At(i, a)' = At(i, a) /\ (Truth(i, a)' <=> Truth(i, a))
  BY <1>1 DEF At, Truth
<1>4. Vecs \subseteq DOMAIN objs /\ Flags \subseteq DOMAIN objs
  BY DEF Vecs, Flags
<1>5. ASSUME NEW c \in casts
      PROVE  IsCast(c)'
  <2>1. IsCast(c)
    BY DEF SessionInv, CastsOK
  <2>2. c.src \in Vecs /\ c.narrow \in Vecs /\ c.flag \in Flags
    BY <2>1 DEF IsCast
  <2>3. c.src \in DOMAIN objs /\ c.narrow \in DOMAIN objs /\ c.flag \in DOMAIN objs
    BY <2>2, <1>4
  <2>4. objs'[c.narrow] = objs[c.narrow]
    BY <2>3, <1>1
  <2>5. ASSUME NEW a \in Assignments
        PROVE  LET ty == objs'[c.narrow]
               IN  /\ At(c.narrow, a)' = UnsafeCast(At(c.src, a)', ty.w, ty.s)
                   /\ Truth(c.flag, a)' <=> ValuePreserved(At(c.src, a)', ty.w, ty.s)
    <3>1. /\ At(c.narrow, a) = UnsafeCast(At(c.src, a), objs[c.narrow].w, objs[c.narrow].s)
          /\ Truth(c.flag, a) <=> ValuePreserved(At(c.src, a), objs[c.narrow].w, objs[c.narrow].s)
      BY <2>1 DEF IsCast
    <3>2. /\ At(c.narrow, a)' = At(c.narrow, a) /\ At(c.src, a)' = At(c.src, a)
          /\ Truth(c.flag, a)' <=> Truth(c.flag, a)
      BY <2>3, <1>3
    <3>3. QED
      BY <2>4, <3>1, <3>2
  <2>6. QED
    BY <2>2, <2>5, <1>2 DEF IsCast
<1>6. frames' = frames /\ answer' = answer /\ model' = model
  BY DEF Make
<1>7. FramesOK'
  <2>1. frames \in Seq(SUBSET Flags) /\ frames # <<>> /\ answer \in {"none", "sat", "unsat"}
    BY DEF SessionInv, FramesOK
  <2>2. frames \in Seq(SUBSET (Flags'))
    BY <2>1, <1>2
  <2>3. QED
    BY <1>6, <2>1, <2>2 DEF FramesOK
<1>8. ModelOK'
  <2>1. SUFFICES ASSUME HasModel
                 PROVE  /\ model.met \subseteq Flags'
                        /\ Completed(model.part) \in Solutions(model.met)'
    BY <1>6 DEF ModelOK, HasModel, Solutions, Truth, Completed
  <2>2. model.met \subseteq Flags /\ Completed(model.part) \in Solutions(model.met)
    BY <2>1 DEF SessionInv, ModelOK
  <2>3. \A f \in model.met, a \in Assignments : Truth(f, a) <=> Truth(f, a)'
    BY <2>2, <1>3, <1>4
  <2>4. Solutions(model.met)' = Solutions(model.met)
    BY <2>3, <1>6 DEF Solutions
  <2>5. QED
    BY <2>2, <2>4, <1>2
<1>9. ASSUME NEW c \in compared
      PROVE  IsComparison(c)'
  <2>1. IsComparison(c)
    BY DEF SessionInv, ComparedOK
  <2>2. c.flag \in Flags /\ c.l \in Operands /\ c.r \in Operands
    BY <2>1 DEF IsComparison
  <2>3. c.flag \in Flags' /\ c.l \in Operands' /\ c.r \in Operands'
    BY <2>2, <1>2 DEF Operands
  <2>4. ASSUME NEW a \in Assignments
        PROVE  Truth(c.flag, a)' <=> Holds(c.op, NumberAt(c.l, a)', NumberAt(c.r, a)')
    <3>1. Truth(c.flag, a)' <=> Truth(c.flag, a)
      BY <2>2, <1>3, <1>4
    <3>2. NumberAt(c.l, a)' = NumberAt(c.l, a) /\ NumberAt(c.r, a)' = NumberAt(c.r, a)
      BY <2>2, <1>3, <1>4, OperandForm DEF NumberAt, IsSymbolic
    <3>3. Truth(c.flag, a) <=> Holds(c.op, NumberAt(c.l, a), NumberAt(c.r, a))
      BY <2>1 DEF IsComparison
    <3>4. QED
      BY <3>1, <3>2, <3>3
  <2>5. QED
    BY <2>3, <2>4 DEF IsComparison, Holds
<1>10. QED
  BY <1>1, <1>2, <1>3, <1>5, <1>7, <1>8, <1>9

\* An action that only makes objects.
LEMMA MakeInv ==
  ASSUME SessionInv, NEW new \in Seq(SomeObjects), Make(new),
         casts' = casts, compared' = compared
  PROVE  SessionInv'
<1>1. CastsOK' /\ ComparedOK'
  BY MakeKeeps DEF CastsOK, ComparedOK
<1>2. QED
  BY <1>1, MakeKeeps DEF SessionInv

-----------------------------------------------------------------------------
(* The actions that make objects *)

\* One or two objects are a sequence of objects.
LEMMA FewObjects ==
  ASSUME NEW S
  PROVE  /\ \A x \in S : <<x>> \in Seq(S) /\ Len(<<x>>) = 1 /\ <<x>>[1] = x
         /\ \A x, y \in S : /\ <<x, y>> \in Seq(S) /\ Len(<<x, y>>) = 2
                            /\ <<x, y>>[1] = x /\ <<x, y>>[2] = y
OBVIOUS

\* SymBitVec(ctx, name) and SymBool(ctx, name).
LEMMA NewVariableInv ==
  ASSUME SessionInv, NewVariable
  PROVE  SessionInv'
<1>1. PICK v \in Symbols, s \in BOOLEAN :
        LET symbol == SymbolOf(v.name, v.w, s)
        IN  Make(<<Object(v.w, s, [a \in Assignments |-> a[symbol]], {symbol}, v.name)>>)
  BY DEF NewVariable
<1>2. casts' = casts /\ compared' = compared
  BY DEF NewVariable
<1>3. QED
  BY <1>1, <1>2, VariableType, FewObjects, MakeInv

\* What unsafe_cast makes.
LEMMA CastToType ==
  ASSUME ObjectsOK, NEW i \in Vecs, NEW ty \in CastTypes
  PROVE  /\ ty.w \in Widths /\ ty.s \in BOOLEAN
         /\ CastTo(i, ty) \in SomeObjects
         /\ CastTo(i, ty).w = ty.w /\ CastTo(i, ty).s = ty.s
         /\ \A a \in Assignments :
               Term(ty.w, ty.s, CastTo(i, ty).at[a]) = UnsafeCast(At(i, a), ty.w, ty.s)
<1>1. ty \in Types /\ ty.w \in Widths /\ ty.s \in BOOLEAN
  BY SessionAssumption DEF Types
<1>2. DEFINE terms == [a \in Assignments |-> UnsafeCast(At(i, a), ty.w, ty.s)]
<1>3. ASSUME NEW a \in Assignments
      PROVE  /\ terms[a] = UnsafeCast(At(i, a), ty.w, ty.s)
             /\ terms[a].p \in Patterns(ty.w)
             /\ terms[a] = Term(ty.w, ty.s, terms[a].p)
  <2>1. At(i, a) \in Terms
    BY ObjectParts
  <2>2. /\ UnsafeCast(At(i, a), ty.w, ty.s) \in Terms
        /\ UnsafeCast(At(i, a), ty.w, ty.s).w = ty.w
        /\ UnsafeCast(At(i, a), ty.w, ty.s).s = ty.s
    BY <2>1, <1>1, UnsafeCastIsWrap
  <2>3. QED
    BY <2>2, TermParts
<1>4. {i} \in SUBSET DOMAIN objs
  BY DEF Vecs
<1>5. CastTo(i, ty) = VecOf(ty, terms, {i})
  BY DEF CastTo
<1>6. CastTo(i, ty) \in SomeObjects
  BY <1>1, <1>3, <1>4, <1>5, VecOfType
<1>7. /\ CastTo(i, ty).w = ty.w /\ CastTo(i, ty).s = ty.s
      /\ CastTo(i, ty).at = [a \in Assignments |-> terms[a].p]
  BY <1>5 DEF VecOf, Object
<1>8. QED
  BY <1>1, <1>3, <1>6, <1>7

\* unsafe_cast.
LEMMA CastInv ==
  ASSUME SessionInv, Cast
  PROVE  SessionInv'
<1>1. PICK i \in Vecs, ty \in CastTypes : Make(<<CastTo(i, ty)>>) /\ casts' = casts /\ compared' = compared
  BY DEF Cast
<1>2. CastTo(i, ty) \in SomeObjects
  BY CastToType DEF SessionInv
<1>3. QED
  BY <1>1, <1>2, FewObjects, MakeInv

\* checked_cast: the two objects that are new are a cast.
LEMMA CheckedCastInv ==
  ASSUME SessionInv, CheckedCast
  PROVE  SessionInv'
<1>1. PICK i \in Vecs, ty \in CastTypes :
        /\ Make(<<CastTo(i, ty),
                  FlagOf([a \in Assignments |-> CheckedCastFlag(i, ty, a)], {i})>>)
        /\ casts' = casts \cup
             {[src |-> i, narrow |-> Len(objs) + 1, flag |-> Len(objs) + 2]}
        /\ compared' = compared
  BY DEF CheckedCast
<1>2. DEFINE truths == [a \in Assignments |-> CheckedCastFlag(i, ty, a)]
             c == CastTo(i, ty)
             f == FlagOf(truths, {i})
             new == <<c, f>>
<1>3. ObjectsOK /\ Len(objs) \in Nat /\ i \in DOMAIN objs
  BY ObjectParts DEF SessionInv, Vecs
<1>0. PICK n \in Nat, m \in Nat : n = Len(objs) + 1 /\ m = Len(objs) + 2
  BY <1>3
<1>4. c \in SomeObjects /\ f \in SomeObjects
  BY <1>3, CastToType, FlagOfType
<1>5. new \in Seq(SomeObjects) /\ Len(new) = 2 /\ new[1] = c /\ new[2] = f /\ Make(new)
  BY <1>1, <1>4, FewObjects
<1>6. n \in DOMAIN objs' /\ m \in DOMAIN objs' /\ objs'[n] = c /\ objs'[m] = f
  <2>1. \A k \in 1 .. Len(new) :
          Len(objs) + k \in DOMAIN objs' /\ objs'[Len(objs) + k] = new[k]
    BY <1>3, <1>5, MakeGrows
  <2>2. 1 \in 1 .. Len(new) /\ 2 \in 1 .. Len(new)
    BY <1>5
  <2>3. QED
    BY <1>0, <1>5, <2>1, <2>2
<1>7. /\ c.w = ty.w /\ c.s = ty.s /\ ty.w \in Widths
      /\ \A a \in Assignments :
            Term(ty.w, ty.s, c.at[a]) = UnsafeCast(At(i, a), ty.w, ty.s)
  BY <1>3, CastToType
<1>8. /\ f.w = 0
      /\ \A a \in Assignments : f.at[a] = 1 <=> ValuePreserved(At(i, a), ty.w, ty.s)
  <2>1. f.at = [a \in Assignments |-> IF truths[a] THEN 1 ELSE 0] /\ f.w = 0
    BY DEF FlagOf, Object
  <2>2. ASSUME NEW a \in Assignments
        PROVE  f.at[a] = 1 <=> ValuePreserved(At(i, a), ty.w, ty.s)
    <3>1. truths[a] = ValuePreserved(At(i, a), ty.w, ty.s)
      BY DEF CheckedCastFlag
    <3>2. f.at[a] = IF ValuePreserved(At(i, a), ty.w, ty.s) THEN 1 ELSE 0
      BY <2>1, <3>1, Zenon
    <3>3. QED
      BY <3>2
  <2>3. QED
    BY <2>1, <2>2
<1>9. /\ ObjectsOK' /\ FramesOK' /\ ModelOK' /\ Vecs \subseteq Vecs'
      /\ \A a \in Assignments : At(i, a)' = At(i, a)
      /\ \A d \in casts : IsCast(d)'
      /\ \A d \in compared : IsComparison(d)'
  BY <1>3, <1>5, MakeKeeps
<1>10. n \in Vecs' /\ m \in Flags'
  BY <1>6, <1>7, <1>8, ValuesType DEF Vecs, Flags
<1>11. IsCast([src |-> i, narrow |-> n, flag |-> m])'
  <2>1. ASSUME NEW a \in Assignments
        PROVE  /\ At(n, a)' = UnsafeCast(At(i, a)', objs'[n].w, objs'[n].s)
               /\ Truth(m, a)' <=> ValuePreserved(At(i, a)', objs'[n].w, objs'[n].s)
    <3>1. At(n, a)' = Term(ty.w, ty.s, c.at[a])
      BY <1>6, <1>7 DEF At
    <3>2. Truth(m, a)' <=> f.at[a] = 1
      BY <1>6 DEF Truth
    <3>3. QED
      BY <1>6, <1>7, <1>8, <1>9, <3>1, <3>2
  <2>2. QED
    BY <1>9, <1>10, <2>1 DEF IsCast
<1>12. CastsOK' /\ ComparedOK'
  BY <1>0, <1>1, <1>9, <1>11 DEF CastsOK, ComparedOK
<1>13. QED
  BY <1>9, <1>12 DEF SessionInv

\* What an operand is at an assignment, as a term and as a number.
LEMMA OperandTerm ==
  ASSUME ObjectsOK, NEW operand \in Operands, NEW a \in Assignments
  PROVE  /\ Promote(operand, a) \in Terms
         /\ Num(Promote(operand, a)) = NumberAt(operand, a)
         /\ Promote(operand, a).w = Typed(operand).w
         /\ Promote(operand, a).s = Typed(operand).s
<1>1. CASE IsSymbolic(operand)
  BY <1>1, OperandForm, ObjectParts DEF Promote, NumberAt, Typed
<1>2. CASE ~IsSymbolic(operand)
  <2>1. operand.c \in Concretes
    BY <1>2, OperandForm
  <2>2. operand.c.w \in Widths /\ operand.c.s \in BOOLEAN /\ operand.c.x \in ValueSet(operand.c.w, operand.c.s)
    BY <2>1, SessionAssumption DEF Types
  <2>3. QED
    BY <1>2, <2>1, <2>2, ToSymbolicIsExact DEF Promote, NumberAt, Typed
<1>3. QED
  BY <1>1, <1>2

\* math_eq and math_lt: the flag that is new is a comparison.
LEMMA CompareInv ==
  ASSUME SessionInv, Compare
  PROVE  SessionInv'
<1>1. PICK l \in Operands, r \in Operands, op \in {"math_eq", "math_lt"} :
        LET truths == [a \in Assignments |-> Comparison(op, Promote(l, a), Promote(r, a))]
        IN  /\ Comparable(l, r)
            /\ Make(<<FlagOf(truths, SymbolicParts({l, r}))>>)
            /\ compared' = compared \cup {[op |-> op, l |-> l, r |-> r, flag |-> Len(objs) + 1]}
            /\ casts' = casts
  BY DEF Compare
<1>2. DEFINE truths == [a \in Assignments |-> Comparison(op, Promote(l, a), Promote(r, a))]
             f == FlagOf(truths, SymbolicParts({l, r}))
             new == <<f>>
<1>3. ObjectsOK /\ Len(objs) \in Nat
  BY ObjectParts DEF SessionInv
<1>4. PICK n \in Nat : n = Len(objs) + 1
  BY <1>3
<1>5. SymbolicParts({l, r}) \in SUBSET DOMAIN objs
  BY OperandForm DEF SymbolicParts
<1>6. f \in SomeObjects
  BY <1>3, <1>5, FlagOfType
<1>7. new \in Seq(SomeObjects) /\ Len(new) = 1 /\ new[1] = f /\ Make(new)
  BY <1>1, <1>6, FewObjects
<1>8. n \in DOMAIN objs' /\ objs'[n] = f
  <2>1. \A k \in 1 .. Len(new) :
          Len(objs) + k \in DOMAIN objs' /\ objs'[Len(objs) + k] = new[k]
    BY <1>3, <1>7, MakeGrows
  <2>2. 1 \in 1 .. Len(new)
    BY <1>7
  <2>3. QED
    BY <1>4, <1>7, <2>1, <2>2
<1>9. /\ f.w = 0
      /\ \A a \in Assignments :
            f.at[a] = 1 <=> Holds(op, NumberAt(l, a), NumberAt(r, a))
  <2>1. f.at = [a \in Assignments |-> IF truths[a] THEN 1 ELSE 0] /\ f.w = 0
    BY DEF FlagOf, Object
  <2>2. ASSUME NEW a \in Assignments
        PROVE  f.at[a] = 1 <=> Holds(op, NumberAt(l, a), NumberAt(r, a))
    <3>1. truths[a] = Comparison(op, Promote(l, a), Promote(r, a))
      OBVIOUS
    <3>2. f.at[a] = IF Comparison(op, Promote(l, a), Promote(r, a)) THEN 1 ELSE 0
      BY <2>1, <3>1, Zenon
    <3>3. PICK t \in Terms, u \in Terms :
            /\ t = Promote(l, a) /\ u = Promote(r, a)
            /\ Num(t) = NumberAt(l, a) /\ Num(u) = NumberAt(r, a)
            /\ t.w = Typed(l).w /\ t.s = Typed(l).s /\ u.w = Typed(r).w /\ u.s = Typed(r).s
      BY <1>3, OperandTerm
    <3>4. CommonWidth(t, u) <= MaxWidth
      BY <1>1, <3>3 DEF Comparable, CommonWidth
    <3>5. /\ MathEq(t, u) <=> Num(t) = Num(u)
          /\ MathLt(t, u) <=> Num(t) < Num(u)
      BY <3>4, MathComparisonsAreExact
    <3>6. Comparison(op, t, u) <=> Holds(op, NumberAt(l, a), NumberAt(r, a))
      BY <3>3, <3>5 DEF Comparison, Holds
    <3>7. QED
      BY <3>2, <3>3, <3>6
  <2>3. QED
    BY <2>1, <2>2
<1>10. /\ ObjectsOK' /\ FramesOK' /\ ModelOK' /\ Vecs \subseteq Vecs'
       /\ \A i \in DOMAIN objs, a \in Assignments : At(i, a)' = At(i, a)
       /\ \A d \in casts : IsCast(d)'
       /\ \A d \in compared : IsComparison(d)'
  BY <1>7, MakeKeeps
<1>11. n \in Flags' /\ l \in Operands' /\ r \in Operands'
  BY <1>8, <1>9, <1>10 DEF Flags, Operands
<1>12. IsComparison([op |-> op, l |-> l, r |-> r, flag |-> n])'
  <2>1. ASSUME NEW a \in Assignments
        PROVE  Truth(n, a)' <=> Holds(op, NumberAt(l, a)', NumberAt(r, a)')
    <3>1. Truth(n, a)' <=> f.at[a] = 1
      BY <1>8 DEF Truth
    <3>2. NumberAt(l, a)' = NumberAt(l, a) /\ NumberAt(r, a)' = NumberAt(r, a)
      BY <1>10, OperandForm DEF NumberAt, IsSymbolic
    <3>3. QED
      BY <1>9, <3>1, <3>2
  <2>2. QED
    BY <1>11, <2>1 DEF IsComparison, Holds
<1>13. CastsOK' /\ ComparedOK'
  BY <1>1, <1>4, <1>10, <1>12 DEF CastsOK, ComparedOK
<1>14. QED
  BY <1>10, <1>13 DEF SessionInv

\* ! and == of flags.
LEMMA ConnectInv ==
  ASSUME SessionInv, Connect
  PROVE  SessionInv'
<1>1. PICK f \in Flags, g \in Flags :
        LET negated == [a \in Assignments |-> ~Truth(f, a)]
            same    == [a \in Assignments |-> Truth(f, a) = Truth(g, a)]
        IN  Make(<<FlagOf(negated, {f})>>) \/ Make(<<FlagOf(same, {f, g})>>)
  BY DEF Connect
<1>2. casts' = casts /\ compared' = compared
  BY DEF Connect
<1>3. {f} \in SUBSET DOMAIN objs /\ {f, g} \in SUBSET DOMAIN objs
  BY DEF Flags
<1>4. /\ FlagOf([a \in Assignments |-> ~Truth(f, a)], {f}) \in SomeObjects
      /\ FlagOf([a \in Assignments |-> Truth(f, a) = Truth(g, a)], {f, g}) \in SomeObjects
  BY <1>3, FlagOfType DEF SessionInv
<1>5. QED
  BY <1>1, <1>2, <1>4, FewObjects, MakeInv

-----------------------------------------------------------------------------
(* The solver's actions *)

\* What is asserted are flags.
LEMMA AssertedType ==
  ASSUME FramesOK
  PROVE  Asserted \subseteq Flags
<1>1. \A i \in DOMAIN frames : frames[i] \in SUBSET Flags
  BY DEF FramesOK
<1>2. QED
  BY <1>1 DEF Asserted

\* Actions that leave the objects and the casts alone.
LEMMA ObjectsStay ==
  ASSUME SessionInv, objs' = objs, casts' = casts, compared' = compared
  PROVE  /\ ObjectsOK' /\ CastsOK' /\ ComparedOK' /\ Flags' = Flags
         /\ \A fs : Solutions(fs)' = Solutions(fs)
         /\ model' = model => ModelOK'
<1>1. ObjectsOK' /\ Flags' = Flags /\ Vecs' = Vecs
  BY DEF SessionInv, ObjectsOK, Flags, Vecs
<1>2. \A i, a : At(i, a)' = At(i, a) /\ (Truth(i, a)' <=> Truth(i, a))
  BY DEF At, Truth
<1>3. CastsOK'
  BY <1>1, <1>2 DEF SessionInv, CastsOK, IsCast
<1>4. \A fs : Solutions(fs)' = Solutions(fs)
  BY <1>2 DEF Solutions
<1>5. ComparedOK'
  <2>1. Operands' = Operands
    BY <1>1 DEF Operands
  <2>2. \A operand, a : NumberAt(operand, a)' = NumberAt(operand, a)
    BY <1>2 DEF NumberAt, IsSymbolic
  <2>3. QED
    BY <1>1, <1>2, <2>1, <2>2 DEF SessionInv, ComparedOK, IsComparison, Holds
<1>6. ASSUME model' = model
      PROVE  ModelOK'
  BY <1>1, <1>4, <1>6 DEF SessionInv, ModelOK, HasModel, Completed
<1>7. QED
  BY <1>1, <1>3, <1>4, <1>5, <1>6

\* add, push and pop.
LEMMA FramesInv ==
  ASSUME SessionInv, Add \/ Push \/ Pop
  PROVE  SessionInv'
<1>1. objs' = objs /\ casts' = casts /\ compared' = compared /\ model' = model /\ answer' = "none"
  BY DEF Add, Push, Pop
<1>2. frames \in Seq(SUBSET Flags) /\ frames # <<>>
  BY DEF SessionInv, FramesOK
<1>3. Len(frames) \in Nat /\ Len(frames) \in DOMAIN frames
  BY <1>2
<1>4. frames' \in Seq(SUBSET Flags) /\ frames' # <<>>
  <2>1. CASE Add
    <3>1. PICK f \in Flags : frames' = [frames EXCEPT ![Len(frames)] = @ \cup {f}]
      BY <2>1 DEF Add
    <3>2. QED
      BY <1>2, <1>3, <3>1
  <2>2. CASE Push
    <3>1. frames' = Append(frames, {})
      BY <2>2 DEF Push
    <3>2. QED
      BY <1>2, <3>1
  <2>3. CASE Pop
    <3>1. Len(frames) > 1 /\ frames' = SubSeq(frames, 1, Len(frames) - 1)
      BY <2>3 DEF Pop
    <3>2. frames' \in Seq(SUBSET Flags) /\ Len(frames') = Len(frames) - 1
      BY <1>2, <1>3, <3>1
    <3>3. frames' # <<>>
      <4>1. Len(frames') > 0
        BY <1>3, <3>1, <3>2
      <4>2. QED
        BY <4>1
    <3>4. QED
      BY <3>2, <3>3
  <2>4. QED
    BY <2>1, <2>2, <2>3
<1>5. ObjectsOK' /\ CastsOK' /\ ComparedOK' /\ Flags' = Flags /\ ModelOK'
  BY <1>1, ObjectsStay
<1>6. QED
  BY <1>1, <1>4, <1>5 DEF SessionInv, FramesOK

\* check and get_model.
LEMMA SolverInv ==
  ASSUME SessionInv, Check \/ GetModel
  PROVE  SessionInv'
<1>1. objs' = objs /\ casts' = casts /\ compared' = compared /\ frames' = frames
  BY DEF Check, GetModel
<1>2. /\ ObjectsOK' /\ CastsOK' /\ ComparedOK' /\ Flags' = Flags
      /\ \A fs : Solutions(fs)' = Solutions(fs)
      /\ model' = model => ModelOK'
  BY <1>1, ObjectsStay
<1>3. CASE Check
  <2>1. model' = model /\ answer' \in {"sat", "unsat"}
    BY <1>3 DEF Check
  <2>2. QED
    BY <1>1, <1>2, <2>1 DEF SessionInv, FramesOK
<1>4. CASE GetModel
  <2>1. PICK part \in ModelsOf(Asserted) : model' = [met |-> Asserted, part |-> part]
    BY <1>4 DEF GetModel
  <2>2. answer' = answer
    BY <1>4 DEF GetModel
  <2>3. Completed(part) \in Solutions(Asserted)
    BY DEF ModelsOf
  <2>4. PICK met : met = Asserted
    OBVIOUS
  <2>5. met \subseteq Flags /\ Completed(part) \in Solutions(met)
    BY <2>3, <2>4, AssertedType DEF SessionInv
  <2>6. Completed(part)' = Completed(part)
    BY DEF Completed
  <2>7. model'.met = met /\ model'.part = part
    BY <2>1, <2>4
  <2>8. ModelOK'
    BY <1>2, <2>5, <2>6, <2>7 DEF ModelOK
  <2>9. QED
    BY <1>1, <1>2, <2>2, <2>8 DEF SessionInv, FramesOK
<1>5. QED
  BY <1>3, <1>4

-----------------------------------------------------------------------------
(* The invariant holds in every reachable state *)

\* Before the first call there is nothing.
LEMMA SessionStarts ==
  ASSUME Init
  PROVE  SessionInv
<1>1. objs = <<>> /\ casts = {} /\ compared = {} /\ frames = <<{}>> /\ answer = "none" /\ model = <<>>
  BY DEF Init
<1>2. ObjectsOK /\ CastsOK /\ ComparedOK /\ ModelOK
  BY <1>1 DEF ObjectsOK, CastsOK, ComparedOK, ModelOK, HasModel
<1>3. FramesOK
  <2>1. {} \in SUBSET Flags
    OBVIOUS
  <2>2. <<{}>> \in Seq(SUBSET Flags) /\ <<{}>> # <<>>
    BY <2>1
  <2>3. QED
    BY <1>1, <2>2 DEF FramesOK
<1>4. QED
  BY <1>2, <1>3 DEF SessionInv

\* Every call keeps the invariant.
LEMMA SessionStep ==
  ASSUME SessionInv, [Next]_vars
  PROVE  SessionInv'
<1>1. CASE NewVariable
  BY <1>1, NewVariableInv
<1>2. CASE Cast
  BY <1>2, CastInv
<1>3. CASE CheckedCast
  BY <1>3, CheckedCastInv
<1>4. CASE Compare
  BY <1>4, CompareInv
<1>5. CASE Connect
  BY <1>5, ConnectInv
<1>6. CASE Add \/ Push \/ Pop
  BY <1>6, FramesInv
<1>7. CASE Check \/ GetModel
  BY <1>7, SolverInv
<1>8. CASE UNCHANGED vars
  <2>1. objs' = objs /\ casts' = casts /\ compared' = compared /\ frames' = frames /\ answer' = answer /\ model' = model
    BY <1>8 DEF vars
  <2>2. QED
    BY <2>1, ObjectsStay DEF SessionInv, FramesOK
<1>9. QED
  BY <1>1, <1>2, <1>3, <1>4, <1>5, <1>6, <1>7, <1>8 DEF Next

(***************************************************************************)
(* In every run of a client program the objects have their types, every    *)
(* named vector is the variable of its name and width, every pair of       *)
(* objects that checked_cast returned is a cast and its flag, and the last *)
(* model satisfies the assertions it was made under (sym_bit_vec.h:34,     *)
(* type_conversions.cc:28).                                                *)
(***************************************************************************)
THEOREM SessionInvariant == Spec => []SessionInv
<1>1. Init => SessionInv
  BY SessionStarts
<1>2. SessionInv /\ [Next]_vars => SessionInv'
  BY SessionStep
<1>3. QED
  BY <1>1, <1>2, PTL DEF Spec

-----------------------------------------------------------------------------
(* What the invariant gives *)

\* The completed model and what an object reads as.
LEMMA Reading ==
  ASSUME SessionInv, HasModel
  PROVE  LET a == Completed(model.part)
         IN  /\ a \in Solutions(model.met) /\ a \in Assignments
             /\ \A i \in Flags : Read(i).x = objs[i].at[a]
             /\ \A i \in Vecs : /\ Read(i).x = Num(At(i, a))
                                /\ At(i, a) \in Terms
<1>1. PICK a : a = Completed(model.part)
  OBVIOUS
<1>2. a \in Solutions(model.met) /\ a \in Assignments
  BY <1>1 DEF SessionInv, ModelOK, Solutions
<1>3. \A i \in Flags : Read(i).x = objs[i].at[a]
  BY <1>1 DEF Flags, Read, ToConcrete
<1>4. ASSUME NEW i \in Vecs
      PROVE  Read(i).x = Num(At(i, a)) /\ At(i, a) \in Terms
  <2>1. /\ At(i, a) \in Terms
        /\ At(i, a).w = objs[i].w /\ At(i, a).s = objs[i].s /\ At(i, a).p = objs[i].at[a]
    BY <1>2, ObjectParts DEF SessionInv
  <2>2. Read(i).x = Decode(objs[i].w, objs[i].s, objs[i].at[a])
    BY <1>1 DEF Vecs, Read, ToConcrete
  <2>3. QED
    BY <2>1, <2>2 DEF Num
<1>5. QED
  BY <1>1, <1>2, <1>3, <1>4

\* The types of objects, casts, assertions and models.
THEOREM SessionTypes == Spec => []TypeOK
<1>1. ASSUME SessionInv
      PROVE  TypeOK
  <2>1. ASSUME NEW i \in DOMAIN objs
        PROVE  /\ objs[i].w \in Widths \cup {0}
               /\ objs[i].at \in [Assignments -> 0 .. Pow2[MaxWidth] - 1]
               /\ \A a \in Assignments :
                     objs[i].at[a] \in IF objs[i].w = 0 THEN {0, 1} ELSE Patterns(objs[i].w)
    <3>1. IsObject(objs[i])
      BY <1>1, ObjectParts DEF SessionInv
    <3>2. /\ objs[i].w \in Widths \cup {0} /\ objs[i].at \in [Assignments -> Nat]
          /\ \A a \in Assignments :
                objs[i].at[a] \in IF objs[i].w = 0 THEN {0, 1} ELSE Patterns(objs[i].w)
      BY <3>1 DEF IsObject
    <3>3. \A a \in Assignments : objs[i].at[a] \in 0 .. Pow2[MaxWidth] - 1
      BY <3>2, ValuesType
    <3>4. QED
      BY <3>2, <3>3
  <2>2. \A c \in casts : c.src \in Vecs /\ c.narrow \in Vecs /\ c.flag \in Flags
    BY <1>1 DEF SessionInv, CastsOK, IsCast
  <2>3. \A c \in compared : c.flag \in Flags /\ {c.l, c.r} \subseteq Operands
    BY <1>1 DEF SessionInv, ComparedOK, IsComparison
  <2>4. QED
    BY <1>1, <2>1, <2>2, <2>3 DEF TypeOK, SessionInv, FramesOK, ModelOK
<1>2. QED
  BY <1>1, SessionInvariant, PTL

(***************************************************************************)
(* A comparison that is read out of a model says how the numbers read out  *)
(* of the same model compare, whatever their widths and signs, whatever    *)
(* the model leaves out and whichever of them is older                     *)
(* (sym_bit_vec.h:127-154, 286-336, sym_bool.h:93).                        *)
(***************************************************************************)
THEOREM ComparisonsReadTrue == Spec => []ReadsCompare
<1>1. ASSUME SessionInv
      PROVE  ReadsCompare
  <2>1. SUFFICES ASSUME HasModel, NEW c \in compared
                 PROVE  Read(c.flag).x = 1 <=>
                          Holds(c.op, ReadOperand(c.l), ReadOperand(c.r))
    BY DEF ReadsCompare
  <2>2. PICK a \in Assignments : a = Completed(model.part)
    BY <1>1, <2>1, Reading
  <2>3. /\ c.flag \in Flags /\ c.l \in Operands /\ c.r \in Operands
        /\ Truth(c.flag, a) <=> Holds(c.op, NumberAt(c.l, a), NumberAt(c.r, a))
    BY <1>1 DEF SessionInv, ComparedOK, IsComparison
  <2>4. Read(c.flag).x = 1 <=> Truth(c.flag, a)
    BY <1>1, <2>1, <2>2, <2>3, Reading DEF Truth
  <2>5. \A i \in Vecs : Read(i).x = Num(At(i, a))
    BY <1>1, <2>1, <2>2, Reading
  <2>6. ReadOperand(c.l) = NumberAt(c.l, a) /\ ReadOperand(c.r) = NumberAt(c.r, a)
    BY <2>3, <2>5, OperandForm DEF ReadOperand, NumberAt
  <2>7. QED
    BY <2>3, <2>4, <2>6
<1>2. QED
  BY <1>1, SessionInvariant, PTL

(***************************************************************************)
(* A model made under at least the assertions of now reads each of them as *)
(* true, for any number of pops and new objects in between (sym_bool.h:93).*)
(***************************************************************************)
THEOREM AssertionsHold == Spec => []AssertionsReadTrue
<1>1. ASSUME SessionInv
      PROVE  AssertionsReadTrue
  <2>1. SUFFICES ASSUME HasModel, Asserted \subseteq model.met, NEW f \in Asserted
                 PROVE  Read(f).x = 1
    BY DEF AssertionsReadTrue
  <2>2. f \in Flags /\ f \in model.met
    BY <1>1, <2>1, AssertedType DEF SessionInv
  <2>3. Truth(f, Completed(model.part))
    BY <1>1, <2>1, <2>2, Reading DEF Solutions
  <2>4. QED
    BY <1>1, <2>1, <2>2, <2>3, Reading DEF Truth
<1>2. QED
  BY <1>1, SessionInvariant, PTL

(***************************************************************************)
(* With the flag of a checked cast among the assertions a model was made   *)
(* under, the narrow object reads as the value of its source               *)
(* (type_conversions.cc:32).                                               *)
(***************************************************************************)
THEOREM CheckedReadsMatch == Spec => []AssertedCastsKeepValues
<1>1. ASSUME SessionInv
      PROVE  AssertedCastsKeepValues
  <2>1. SUFFICES ASSUME HasModel, NEW c \in casts,
                        c.flag \in model.met, objs[c.src].s = objs[c.narrow].s
                 PROVE  Read(c.narrow).x = Read(c.src).x
    BY DEF AssertedCastsKeepValues
  <2>2. PICK a \in Assignments : a = Completed(model.part) /\ a \in Solutions(model.met)
    BY <1>1, <2>1, Reading
  <2>3. IsCast(c)
    BY <1>1 DEF SessionInv, CastsOK
  <2>4. c.src \in Vecs /\ c.narrow \in Vecs /\ c.flag \in Flags
    BY <2>3 DEF IsCast
  <2>5. /\ At(c.narrow, a) = UnsafeCast(At(c.src, a), objs[c.narrow].w, objs[c.narrow].s)
        /\ Truth(c.flag, a) <=> ValuePreserved(At(c.src, a), objs[c.narrow].w, objs[c.narrow].s)
    BY <2>3 DEF IsCast
  <2>6. /\ At(c.src, a) \in Terms /\ At(c.src, a).s = objs[c.narrow].s
        /\ objs[c.narrow].w \in Widths /\ objs[c.narrow].s \in BOOLEAN
    BY <1>1, <2>1, <2>4, ObjectParts DEF SessionInv
  <2>7. ValuePreserved(At(c.src, a), objs[c.narrow].w, objs[c.narrow].s)
    BY <2>1, <2>2, <2>5 DEF Solutions
  <2>8. Num(At(c.narrow, a)) = Num(At(c.src, a))
    BY <2>5, <2>6, <2>7, CheckedCastReportsFit
  <2>9. QED
    BY <1>1, <2>1, <2>2, <2>4, <2>8, Reading
<1>2. QED
  BY <1>1, SessionInvariant, PTL

(***************************************************************************)
(* Two named vectors are the same variable exactly when their names and    *)
(* widths are the same, whatever their signedness: then they read as the   *)
(* same bits, and otherwise every pair of values is possible               *)
(* (sym_bit_vec.h:34).                                                     *)
(***************************************************************************)
THEOREM NamesAreVariables == Spec => []NamesIdentifyVariables
<1>1. ASSUME SessionInv
      PROVE  NamesIdentifyVariables
  <2>1. SUFFICES ASSUME NEW i \in Vecs, NEW j \in Vecs,
                        objs[i].named # Anonymous, objs[j].named # Anonymous
                 PROVE  IF SameVariable(i, j)
                          THEN HasModel => Wrap(objs[i].w, Read(i).x) = Wrap(objs[j].w, Read(j).x)
                          ELSE \A p \in Patterns(objs[i].w), q \in Patterns(objs[j].w) :
                                  \E a \in Assignments : objs[i].at[a] = p /\ objs[j].at[a] = q
    BY DEF NamesIdentifyVariables
  <2>2. DEFINE u == [name |-> objs[i].named, w |-> objs[i].w]
               v == [name |-> objs[j].named, w |-> objs[j].w]
  <2>3. i \in DOMAIN objs /\ j \in DOMAIN objs /\ objs[i].w # 0 /\ objs[j].w # 0
    BY DEF Vecs
  <2>4. IsObject(objs[i]) /\ IsObject(objs[j])
    BY <1>1, <2>3, ObjectParts DEF SessionInv
  <2>5. /\ u \in Symbols /\ objs[i].at = [a \in Assignments |-> a[u]]
        /\ v \in Symbols /\ objs[j].at = [a \in Assignments |-> a[v]]
    BY <2>1, <2>3, <2>4 DEF IsObject
  <2>6. CASE SameVariable(i, j)
    <3>1. SUFFICES ASSUME HasModel
                   PROVE  Wrap(objs[i].w, Read(i).x) = Wrap(objs[j].w, Read(j).x)
      BY <2>6
    <3>2. PICK a \in Assignments :
            /\ a = Completed(model.part)
            /\ Read(i).x = Num(At(i, a)) /\ At(i, a) \in Terms
            /\ Read(j).x = Num(At(j, a)) /\ At(j, a) \in Terms
      BY <1>1, <3>1, Reading
    <3>3. objs[i].at[a] = objs[j].at[a] /\ objs[i].w = objs[j].w
      BY <2>5, <2>6 DEF SameVariable
    <3>4. /\ objs[i].at[a] = Wrap(objs[i].w, Read(i).x)
          /\ objs[j].at[a] = Wrap(objs[j].w, Read(j).x)
      BY <1>1, <3>2, NumType, ObjectParts DEF SessionInv
    <3>5. QED
      BY <3>3, <3>4
  <2>7. CASE ~SameVariable(i, j)
    <3>1. SUFFICES ASSUME NEW p \in Patterns(objs[i].w), NEW q \in Patterns(objs[j].w)
                   PROVE  \E a \in Assignments : objs[i].at[a] = p /\ objs[j].at[a] = q
      BY <2>7
    <3>2. u # v
      BY <2>7 DEF SameVariable
    <3>3. DEFINE f == [x \in Symbols |-> IF x = u THEN p ELSE IF x = v THEN q ELSE 0]
    <3>4. u.w = objs[i].w /\ v.w = objs[j].w
      OBVIOUS
    <3>5. ASSUME NEW x \in Symbols
          PROVE  f[x] \in SymbolValues(x)
      <4>1. CASE x = u
        BY <2>3, <3>1, <3>4, <4>1 DEF SymbolValues
      <4>2. CASE x # u /\ x = v
        BY <2>3, <3>1, <3>4, <4>2 DEF SymbolValues
      <4>3. CASE x # u /\ x # v
        BY <4>3, ValuesType
      <4>4. QED
        BY <4>1, <4>2, <4>3
    <3>6. f \in Assignments
      <4>1. f = [x \in Symbols |-> f[x]]
        OBVIOUS
      <4>2. QED
        BY <3>5, <4>1, AssignmentsType
    <3>7. f[u] = p /\ f[v] = q
      BY <2>5, <3>2
    <3>8. objs[i].at[f] = p /\ objs[j].at[f] = q
      BY <2>5, <3>6, <3>7
    <3>9. QED
      BY <3>6, <3>8
  <2>8. QED
    BY <2>6, <2>7
<1>2. QED
  BY <1>1, SessionInvariant, PTL
=============================================================================
