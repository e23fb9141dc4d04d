--------------------------- MODULE DispatchProofs ---------------------------
(***************************************************************************)
(* Proofs about Linking and Dispatch, for sources of any length with any   *)
(* names: a module that links is the source, a call by name delivers, and  *)
(* receivers that are tracked reach the methods and fields they should.    *)
(***************************************************************************)
EXTENDS Dispatch, SequenceTheorems, TLAPS

Phases == {"declare", "compile", "body", "shims", "linked", "called", "error", "panic"}

(* The definitions that have been declared, and compiled, so far.          *)
HasDeclared(i) ==
    \/ phase \in {"compile", "body", "shims", "linked", "called"}
    \/ phase = "declare" /\ i < at
HasCompiled(i) ==
    \/ phase \in {"shims", "linked", "called"}
    \/ phase \in {"compile", "body"} /\ i < at

Entry(by, sig) == [by |-> by, sig |-> sig]

(* One flat table of symbols: what is in it is what was put there first.   *)
TableInv ==
    /\ source \in Sources /\ at \in Definitions /\ phase \in Phases
    /\ closures \in 0 .. MaxClosures /\ broken \in {"no", "panic", "error"}
    /\ DOMAIN code \subseteq DOMAIN decl
    /\ \A k \in DOMAIN Runtime : k \in DOMAIN decl /\ decl[k] = Runtime[k]
    /\ \A k \in DOMAIN decl \ DOMAIN code : k \in DOMAIN Runtime \/ k \in FuncIds
    /\ \A i \in Definitions : HasDeclared(i) =>
           Key(source[i]) \in DOMAIN decl /\ decl[Key(source[i])] = Declared(source[i])
    /\ \A i \in Definitions : HasCompiled(i) =>
           /\ Key(source[i]) \in DOMAIN code
           /\ code[Key(source[i])] = Entry([definition |-> i], Compiled(source[i]))
    /\ \A k \in DOMAIN code : \A q \in FuncIds :
           code[k].by = ShimBy(q) => code[k] = Entry(ShimBy(q), ShimSignature)
    /\ phase \in {"linked", "called"} => FuncIds = Shimmed

LEMMA DeclareKeeps ==
    ASSUME NEW k, NEW sig, Declarable(k, sig), Declare(k, sig)
    PROVE  /\ DOMAIN decl' = DOMAIN decl \cup {k}
           /\ decl'[k] = sig
           /\ \A x \in DOMAIN decl : decl'[x] = decl[x]
<1>1. decl' = With(decl, k, sig)
    BY DEF Declare
<1>2. /\ DOMAIN With(decl, k, sig) = DOMAIN decl \cup {k}
      /\ With(decl, k, sig)[k] = sig
      /\ \A x \in DOMAIN decl \ {k} : With(decl, k, sig)[x] = decl[x]
    BY DEF With
<1>3. k \in DOMAIN decl => decl[k] = sig
    BY DEF Declarable
<1>4. QED
    BY <1>1, <1>2, <1>3

LEMMA DefineKeeps ==
    ASSUME NEW k, NEW by, NEW sig, Definable(k), Define(k, by, sig)
    PROVE  /\ DOMAIN code' = DOMAIN code \cup {k}
           /\ code'[k] = Entry(by, sig)
           /\ \A x \in DOMAIN code : code'[x] = code[x]
<1>1. code' = With(code, k, Entry(by, sig))
    BY DEF Define, Entry
<1>2. /\ DOMAIN With(code, k, Entry(by, sig)) = DOMAIN code \cup {k}
      /\ With(code, k, Entry(by, sig))[k] = Entry(by, sig)
      /\ \A x \in DOMAIN code \ {k} : With(code, k, Entry(by, sig))[x] = code[x]
    BY DEF With
<1>3. QED
    BY <1>1, <1>2 DEF Definable

(* Who the code of a symbol is by tells definitions, closures and shims    *)
(* apart.                                                                  *)
LEMMA ByDiffers ==
    ASSUME NEW q, NEW i, NEW n
    PROVE  [definition |-> i] # ShimBy(q) /\ [closure |-> n, of |-> i] # ShimBy(q)
<1>1. DOMAIN ShimBy(q) = {"shim"}
    BY DEF ShimBy
<1>2. DOMAIN [definition |-> i] = {"definition"}
    OBVIOUS
<1>3. DOMAIN [closure |-> n, of |-> i] = {"closure", "of"}
    OBVIOUS
<1>4. QED
    BY <1>1, <1>2, <1>3

LEMMA SourceShape ==
    ASSUME NEW s \in Sources
    PROVE  Len(s) \in Nat \ {0} /\ DOMAIN s = 1 .. Len(s)
BY SourceAssumption, EmptySeq, LenProperties

LEMMA TableInit == LinkInit => TableInv
<1> SUFFICES ASSUME LinkInit PROVE TableInv
    OBVIOUS
<1>1. at \in Definitions /\ \A i \in Definitions : ~ (i < at)
    BY SourceShape DEF LinkInit, Definitions
<1>2. DOMAIN code = {} /\ decl = Runtime
    BY DEF LinkInit
<1>3. phase = "declare" /\ closures \in 0 .. MaxClosures /\ broken = "no" /\ source \in Sources
    BY ClosureAssumption DEF LinkInit
<1>4. QED
    BY <1>1, <1>2, <1>3 DEF TableInv, HasDeclared, HasCompiled, Phases

(* Steps that leave the table alone. *)
LEMMA TableUnchanged ==
    ASSUME TableInv, UNCHANGED <<source, decl, code, at, closures>>,
           broken' \in {"no", "panic", "error"},
           \/ phase' \in {phase, "error", "panic"}
           \/ phase = "compile" /\ phase' = "body"
           \/ phase = "linked" /\ phase' = "called"
    PROVE  TableInv'
<1>1. \A i \in Definitions : /\ HasDeclared(i)' => HasDeclared(i)
                             /\ HasCompiled(i)' => HasCompiled(i)
    BY DEF HasDeclared, HasCompiled
<1>2. Definitions' = Definitions /\ FuncIds' = FuncIds /\ Shimmed' = Shimmed
    BY DEF Definitions, FuncIds, Shimmed
<1>3. phase' \in Phases
    BY DEF TableInv, Phases
<1>4. phase' \in {"linked", "called"} => phase \in {"linked", "called"}
    OBVIOUS
<1>5. QED
    BY <1>1, <1>2, <1>3, <1>4 DEF TableInv

LEMMA DeclareFunctionTable == ASSUME TableInv, DeclareFunction PROVE TableInv'
<1> DEFINE k == Key(Current)
           sig == Declared(Current)
<1>1. phase = "declare" /\ UNCHANGED <<source, code, closures, broken>>
    BY DEF DeclareFunction
<1>2. CASE ~ Declarable(k, sig)
    BY <1>1, <1>2, TableUnchanged DEF DeclareFunction, TableInv
<1>3. CASE Declarable(k, sig)
  <2>1. /\ Declare(k, sig)
        /\ IF at < Len(source) THEN at' = at + 1 /\ phase' = phase
                               ELSE at' = 1 /\ phase' = "compile"
      BY <1>3 DEF DeclareFunction
  <2>2. /\ DOMAIN decl' = DOMAIN decl \cup {k} /\ decl'[k] = sig
        /\ \A x \in DOMAIN decl : decl'[x] = decl[x]
      BY <1>3, <2>1, DeclareKeeps
  <2>3. /\ at \in 1 .. Len(source) /\ Len(source) \in Nat \ {0}
        /\ Definitions = 1 .. Len(source) /\ Definitions' = Definitions
      BY <1>1, SourceShape DEF TableInv, Definitions
  <2>4. at' \in Definitions /\ phase' \in {"declare", "compile"}
      BY <1>1, <2>1, <2>3
  <2>5. \A i \in Definitions : HasDeclared(i)' => i = at \/ HasDeclared(i)
      BY <1>1, <2>1, <2>3 DEF HasDeclared
  <2>6. \A i \in Definitions : ~ HasCompiled(i)'
      BY <1>1, <2>1, <2>3 DEF HasCompiled
  <2>7. FuncIds' = FuncIds /\ k \in FuncIds
      BY <1>1, <2>3 DEF FuncIds, Definitions, Current
  <2>8. ASSUME NEW i \in Definitions, HasDeclared(i)'
        PROVE  Key(source[i]) \in DOMAIN decl' /\ decl'[Key(source[i])] = Declared(source[i])
      BY <2>2, <2>5, <2>8 DEF TableInv, Current
  <2>9. phase' \in Phases /\ phase' \notin {"linked", "called"}
      BY <2>4 DEF Phases
  <2>10. QED
      BY <1>1, <2>2, <2>3, <2>4, <2>6, <2>7, <2>8, <2>9 DEF TableInv
<1>4. QED
    BY <1>2, <1>3

LEMMA MakeClosureTable ==
    ASSUME TableInv, NEW n \in 0 .. 1, MakeClosure(n) PROVE TableInv'
<1> DEFINE k == ClosureName(closures)
           sig == Signature([i \in 1 .. n |-> "I64"], "I64")
           by == [closure |-> closures, of |-> at]
<1>1. phase = "body" /\ UNCHANGED <<source, at, broken>> /\ closures < MaxClosures
    BY DEF MakeClosure
<1>2. CASE ~ (Declarable(k, sig) /\ Definable(k))
    BY <1>1, <1>2, TableUnchanged DEF MakeClosure, TableInv
<1>3. CASE Declarable(k, sig) /\ Definable(k)
  <2> HIDE DEF k, sig, by
  <2>1. Declare(k, sig) /\ Define(k, by, sig) /\ closures' = closures + 1 /\ phase' = phase
      BY <1>3 DEF MakeClosure, k, sig, by
  <2>2. /\ DOMAIN decl' = DOMAIN decl \cup {k} /\ decl'[k] = sig
        /\ \A x \in DOMAIN decl : decl'[x] = decl[x]
      BY <1>3, <2>1, DeclareKeeps
  <2>3. /\ DOMAIN code' = DOMAIN code \cup {k} /\ code'[k] = Entry(by, sig)
        /\ \A x \in DOMAIN code : code'[x] = code[x]
      BY <1>3, <2>1, DefineKeeps
  <2>4. closures' \in 0 .. MaxClosures
      BY <1>1, <2>1, ClosureAssumption DEF TableInv
  <2>5. /\ Definitions' = Definitions /\ FuncIds' = FuncIds
        /\ \A i \in Definitions : /\ HasDeclared(i)' <=> HasDeclared(i)
                                  /\ HasCompiled(i)' <=> HasCompiled(i)
      BY <1>1, <2>1 DEF Definitions, FuncIds, HasDeclared, HasCompiled
  <2>6. \A x \in DOMAIN code' : \A q \in FuncIds :
            code'[x].by = ShimBy(q) => code'[x] = Entry(ShimBy(q), ShimSignature)
    <3>1. code'[k].by = by
        BY <2>3 DEF Entry
    <3>2. \A q \in FuncIds : code'[k].by # ShimBy(q)
        BY <3>1, ByDiffers DEF by
    <3>3. QED
        BY <2>3, <3>2 DEF TableInv
  <2>7. QED
      BY <1>1, <2>1, <2>2, <2>3, <2>4, <2>5, <2>6 DEF TableInv
<1>4. QED
    BY <1>2, <1>3

LEMMA EndFunctionTable == ASSUME TableInv, EndFunction PROVE TableInv'
<1> DEFINE k == Key(Current)
           by == [definition |-> at]
           sig == Compiled(Current)
<1>1. phase = "body" /\ UNCHANGED <<source, decl, closures, broken>>
    BY DEF EndFunction
<1>2. CASE ~ (broken = "no" /\ Definable(k))
    BY <1>1, <1>2, TableUnchanged DEF EndFunction, TableInv
<1>3. CASE broken = "no" /\ Definable(k)
  <2> HIDE DEF k, sig, by
  <2>1. /\ Define(k, by, sig)
        /\ IF at < Len(source) THEN at' = at + 1 /\ phase' = "compile"
                               ELSE at' = at /\ phase' = "shims"
      BY <1>3 DEF EndFunction, k, sig, by
  <2>2. /\ DOMAIN code' = DOMAIN code \cup {k} /\ code'[k] = Entry(by, sig)
        /\ \A x \in DOMAIN code : code'[x] = code[x]
      BY <1>3, <2>1, DefineKeeps
  <2>3. /\ at \in 1 .. Len(source) /\ Len(source) \in Nat \ {0}
        /\ Definitions = 1 .. Len(source) /\ Definitions' = Definitions
      BY <1>1, SourceShape DEF TableInv, Definitions
  <2>4. at' \in Definitions /\ phase' \in {"compile", "shims"}
      BY <2>1, <2>3
  <2>5. FuncIds' = FuncIds /\ k \in FuncIds /\ k \in DOMAIN decl
      BY <1>1, <2>3 DEF FuncIds, Definitions, Current, TableInv, HasDeclared, k
  <2>6. \A i \in Definitions : HasDeclared(i)' => HasDeclared(i)
      BY <1>1 DEF HasDeclared
  <2>7. \A i \in Definitions : HasCompiled(i)' => i = at \/ HasCompiled(i)
      BY <1>1, <2>1, <2>3 DEF HasCompiled
  <2>8. ASSUME NEW i \in Definitions, HasCompiled(i)'
        PROVE  /\ Key(source[i]) \in DOMAIN code'
               /\ code'[Key(source[i])] = Entry([definition |-> i], Compiled(source[i]))
      BY <2>2, <2>7, <2>8 DEF TableInv, Current, k, by, sig
  <2>9. \A x \in DOMAIN code' : \A q \in FuncIds :
            code'[x].by = ShimBy(q) => code'[x] = Entry(ShimBy(q), ShimSignature)
    <3>1. code'[k].by = by
        BY <2>2 DEF Entry
    <3>2. \A q \in FuncIds : code'[k].by # ShimBy(q)
        BY <3>1, ByDiffers DEF by
    <3>3. QED
        BY <2>2, <3>2 DEF TableInv
  <2>10. phase' \in Phases /\ phase' \notin {"linked", "called"}
      BY <2>4 DEF Phases
  <2>11. QED
      BY <1>1, <2>2, <2>3, <2>4, <2>5, <2>6, <2>8, <2>9, <2>10 DEF TableInv
<1>4. QED
    BY <1>2, <1>3

LEMMA CompileShimTable ==
    ASSUME TableInv, NEW k \in FuncIds, CompileShim(k) PROVE TableInv'
<1> DEFINE shim == ShimName(k)
<1>1. phase = "shims" /\ UNCHANGED <<source, at, closures, broken>> /\ k \notin Shimmed
    BY DEF CompileShim
<1>2. CASE ~ (Declarable(shim, ShimSignature) /\ Definable(shim))
    BY <1>1, <1>2, TableUnchanged DEF CompileShim, TableInv
<1>3. CASE Declarable(shim, ShimSignature) /\ Definable(shim)
  <2> HIDE DEF shim
  <2>1. /\ Declare(shim, ShimSignature) /\ Define(shim, ShimBy(k), ShimSignature)
        /\ phase' = IF FuncIds = Shimmed \cup {k} THEN "linked" ELSE phase
      BY <1>3 DEF CompileShim, shim
  <2>2. /\ DOMAIN decl' = DOMAIN decl \cup {shim} /\ decl'[shim] = ShimSignature
        /\ \A x \in DOMAIN decl : decl'[x] = decl[x]
      BY <1>3, <2>1, DeclareKeeps
  <2>3. /\ DOMAIN code' = DOMAIN code \cup {shim}
        /\ code'[shim] = Entry(ShimBy(k), ShimSignature)
        /\ \A x \in DOMAIN code : code'[x] = code[x]
      BY <1>3, <2>1, DefineKeeps
  <2>4. Definitions' = Definitions /\ FuncIds' = FuncIds
      BY <1>1 DEF Definitions, FuncIds
  <2>5. \A i \in Definitions : HasDeclared(i) /\ HasCompiled(i)
      BY <1>1 DEF HasDeclared, HasCompiled
  <2>6. \A x \in DOMAIN code' : \A q \in FuncIds :
            code'[x].by = ShimBy(q) => code'[x] = Entry(ShimBy(q), ShimSignature)
    <3>1. \A q \in FuncIds : code'[shim].by = ShimBy(q) =>
              code'[shim] = Entry(ShimBy(q), ShimSignature)
        BY <2>3 DEF Entry
    <3>2. QED
        BY <2>3, <3>1 DEF TableInv
  <2>7. Shimmed \cup {k} \subseteq Shimmed'
    <3>1. k \in Shimmed'
        BY <2>3, <2>4 DEF Shimmed, Entry, shim
    <3>2. Shimmed \subseteq Shimmed'
        BY <2>3, <2>4 DEF Shimmed
    <3>3. QED
        BY <3>1, <3>2
  <2>8. Shimmed' \subseteq FuncIds
      BY <2>4 DEF Shimmed
  <2>9. phase' \in Phases /\ (phase' \in {"linked", "called"} => FuncIds' = Shimmed')
      BY <1>1, <2>1, <2>4, <2>7, <2>8 DEF Phases
  <2>10. QED
      BY <1>1, <2>2, <2>3, <2>4, <2>5, <2>6, <2>9 DEF TableInv
<1>4. QED
    BY <1>2, <1>3

LEMMA StatementTable ==
    ASSUME TableInv, NEW reach, NEW end \in {"no", "panic", "error"}, Statement(reach, end)
    PROVE  TableInv'
BY TableUnchanged DEF Statement, TableInv

LEMMA BodyTable ==
    ASSUME TableInv,
           \/ \E x \in ToSet(Names), e \in Exprs : Let(x, e) \/ Assign(x, e)
           \/ \E x \in DOMAIN vars, m \in Methods, n \in 0 .. Len(Names) : CallMethod(x, m, n)
           \/ \E x \in DOMAIN vars, f \in AllFields, seen \in BOOLEAN : GetField(x, f, seen)
           \/ \E f \in AllFields : SetField(f)
    PROVE  TableInv'
<1>1. ASSUME NEW x, NEW e, Let(x, e) \/ Assign(x, e) PROVE TableInv'
    BY <1>1, StatementTable DEF Let, Assign, CallEnd
<1>2. ASSUME NEW x, NEW m, NEW n, CallMethod(x, m, n) PROVE TableInv'
    BY <1>2, StatementTable DEF CallMethod
<1>3. ASSUME NEW x, NEW f, NEW seen, GetField(x, f, seen) PROVE TableInv'
    BY <1>3, StatementTable DEF GetField
<1>4. ASSUME NEW f, SetField(f) PROVE TableInv'
    BY <1>4, StatementTable DEF SetField
<1>5. QED
    BY <1>1, <1>2, <1>3, <1>4

LEMMA TableStep == ASSUME TableInv, [DispatchNext]_allVars PROVE TableInv'
<1>1. CASE Begin
  <2>1. /\ UNCHANGED <<source, decl, code, at>> /\ closures' = 0 /\ broken' = "no"
        /\ phase = "compile" /\ phase' = "body"
      BY <1>1 DEF Begin, BeginFunction
  <2>2. /\ Definitions' = Definitions /\ FuncIds' = FuncIds
        /\ \A i \in Definitions : /\ HasDeclared(i)' <=> HasDeclared(i)
                                  /\ HasCompiled(i)' <=> HasCompiled(i)
      BY <2>1 DEF Definitions, FuncIds, HasDeclared, HasCompiled
  <2>3. QED
      BY <2>1, <2>2, ClosureAssumption DEF TableInv, Phases
<1>2. CASE End
    BY <1>2, EndFunctionTable DEF End
<1>3. CASE UseHiddenSelf
    BY <1>3, TableUnchanged DEF UseHiddenSelf, TableInv
<1>4. ASSUME NEW i, NEW args, NEW r, Call(i, args, r) PROVE TableInv'
    BY <1>4, TableUnchanged DEF Call, TableInv
<1>5. CASE UNCHANGED allVars
    BY <1>5, TableUnchanged DEF allVars, linkVars, TableInv
<1>6. QED
    BY <1>1, <1>2, <1>3, <1>4, <1>5, DeclareFunctionTable, MakeClosureTable,
       CompileShimTable, BodyTable DEF DispatchNext

-----------------------------------------------------------------------------
(* Compiled as declared: a function of no struct has no self (in a method, *)
(* the declaration looks for it as the code does).  No twins: no function  *)
(* has the name and, to the letter, the signature of a runtime function,   *)
(* whose symbol its code would take.                                       *)
NoFreeSelf == \A s \in Sources : \A i \in DOMAIN s : s[i].struct = <<>> => s[i].self # "seen"
NoTwins == \A s \in Sources : \A i \in DOMAIN s :
    Key(s[i]) \in DOMAIN Runtime => Declared(s[i]) # Runtime[Key(s[i])]

LEMMA CompiledAsDeclared ==
    ASSUME NoFreeSelf, NEW s \in Sources, NEW i \in DOMAIN s
    PROVE  Compiled(s[i]) = Declared(s[i])
BY SourceAssumption DEF NoFreeSelf, Compiled, Declared, TakesSelf

RuntimeKept == \A k \in DOMAIN Runtime : k \notin DOMAIN code

LEMMA RuntimeLen == ASSUME NEW k \in DOMAIN Runtime PROVE Len(k) = 1
BY DEF Runtime

LEMMA KeyShape ==
    ASSUME NEW s \in Sources, NEW i \in DOMAIN s
    PROVE  Key(s[i]) \in Seq(STRING) /\ Len(Key(s[i])) \in Nat \ {0}
<1>1. s[i].struct \in Seq(STRING) /\ s[i].name \in Seq(STRING) /\ s[i].name # <<>>
  <2> DEFINE D == [struct : Seq(STRING), name : Seq(STRING) \ {<<>>}, params : Seq(STRING),
                   ret : STRING, self : {"no", "seen", "hidden"},
                   body : SUBSET {"closure"}, steps : Nat]
  <2>1. s \in Seq(D)
      BY SourceAssumption
  <2>2. i \in 1 .. Len(s)
      BY SourceShape
  <2>3. s[i] \in D
    <3> HIDE DEF D
    <3>1. QED
        BY <2>1, <2>2, ElementOfSeq
  <2>4. QED
      BY <2>3
<1>2. /\ Key(s[i]) \in Seq(STRING)
      /\ Len(Key(s[i])) = Len(s[i].struct) + Len(s[i].name)
    BY <1>1, ConcatProperties DEF Key
<1>3. Len(s[i].struct) \in Nat /\ Len(s[i].name) \in Nat \ {0}
    BY <1>1, EmptySeq, LenProperties
<1>4. \A m \in Nat, n \in Nat \ {0} : m + n \in Nat \ {0}
    OBVIOUS
<1>5. QED
    BY <1>2, <1>3, <1>4

LEMMA RuntimeStep ==
    ASSUME NoTwins, TableInv, RuntimeKept, [DispatchNext]_allVars PROVE RuntimeKept'
<1>1. ASSUME NEW k, NEW by, NEW sig, k \notin DOMAIN Runtime, Define(k, by, sig)
      PROVE  RuntimeKept'
  <2>1. DOMAIN code' = DOMAIN code \cup {k}
      BY <1>1 DEF Define, With
  <2>2. QED
      BY <1>1, <2>1 DEF RuntimeKept, Runtime
<1>2. CASE UNCHANGED code
    BY <1>2 DEF RuntimeKept
<1>3. CASE End
  <2>1. CASE UNCHANGED code
      BY <1>2, <2>1
  <2>2. CASE Define(Key(Current), [definition |-> at], Compiled(Current))
    <3>1. at \in DOMAIN source /\ source \in Sources /\ phase = "body"
        BY <1>3 DEF End, EndFunction, TableInv, Definitions
    <3>2. decl[Key(Current)] = Declared(Current)
        BY <3>1 DEF TableInv, HasDeclared, Definitions, Current
    <3>3. Key(Current) \notin DOMAIN Runtime
        BY <3>1, <3>2 DEF TableInv, NoTwins, Current
    <3>4. QED
        BY <1>1, <2>2, <3>3
  <2>3. QED
      BY <1>3, <2>1, <2>2 DEF End, EndFunction
<1>4. ASSUME NEW n \in 0 .. 1, MakeClosure(n) PROVE RuntimeKept'
  <2>1. ClosureName(closures) \notin DOMAIN Runtime
    <3>1. Len(ClosureName(closures)) = 2
        BY DEF ClosureName
    <3>2. QED
        BY <3>1, RuntimeLen
  <2>2. QED
      BY <1>1, <1>2, <1>4, <2>1 DEF MakeClosure
<1>5. ASSUME NEW k \in FuncIds, CompileShim(k) PROVE RuntimeKept'
  <2>1. PICK i \in DOMAIN source : k = Key(source[i])
      BY DEF FuncIds, Definitions
  <2>2. k \in Seq(STRING) /\ Len(k) \in Nat \ {0}
      BY <2>1, KeyShape DEF TableInv
  <2>3. Len(ShimName(k)) # 1
      BY <2>2, AppendProperties DEF ShimName
  <2>4. ShimName(k) \notin DOMAIN Runtime
      BY <2>3, RuntimeLen
  <2>5. QED
      BY <1>1, <1>2, <1>5, <2>4 DEF CompileShim
<1>6. ASSUME NEW reach, NEW end, Statement(reach, end) PROVE UNCHANGED code
    BY <1>6 DEF Statement
<1>7. QED
    BY <1>2, <1>3, <1>4, <1>5, <1>6
       DEF DispatchNext, Begin, BeginFunction, Let, Assign, CallMethod, GetField, SetField,
           DeclareFunction, UseHiddenSelf, Call, allVars, linkVars

(* A module that links is the source: every function, method and shim is   *)
(* the code written for it, with the signature its callers use, and the    *)
(* runtime is roca-mem's (compile).                                        *)
THEOREM LinkingIsFaithful ==
    ASSUME NoFreeSelf, NoTwins PROVE DispatchSpec => []LinkedIsTheSource
<1>1. DispatchInit => TableInv /\ RuntimeKept
    BY TableInit DEF DispatchInit, LinkInit, RuntimeKept
<1>2. TableInv /\ RuntimeKept /\ [DispatchNext]_allVars => (TableInv /\ RuntimeKept)'
    BY TableStep, RuntimeStep
<1>3. TableInv /\ RuntimeKept => LinkedIsTheSource
  <2> SUFFICES ASSUME TableInv, RuntimeKept, phase \in {"linked", "called"}
               PROVE  LinkedIsTheSource
      BY DEF LinkedIsTheSource
  <2>1. ASSUME NEW i \in Definitions
        PROVE  /\ Key(source[i]) \in DOMAIN code
               /\ code[Key(source[i])] =
                      [by |-> [definition |-> i], sig |-> decl[Key(source[i])]]
      BY CompiledAsDeclared DEF TableInv, HasCompiled, HasDeclared, Definitions, Entry
  <2>2. ASSUME NEW k \in FuncIds
        PROVE  code[ShimName(k)] = [by |-> ShimBy(k), sig |-> ShimSignature]
      BY DEF TableInv, Shimmed, Entry
  <2>3. FuncIds \subseteq DOMAIN code
      BY <2>1 DEF FuncIds
  <2>4. DOMAIN decl \ DOMAIN code = DOMAIN Runtime
      BY <2>3 DEF TableInv, RuntimeKept
  <2>5. QED
      BY <2>1, <2>2, <2>4 DEF LinkedIsTheSource
<1>4. QED
    BY <1>1, <1>2, <1>3, PTL DEF DispatchSpec

-----------------------------------------------------------------------------
(* Calls from the host. *)
LEMMA DefinitionShape ==
    ASSUME NEW s \in Sources, NEW i \in DOMAIN s
    PROVE  s[i].params \in Seq(STRING) /\ s[i].ret \in STRING
<1> DEFINE D == [struct : Seq(STRING), name : Seq(STRING) \ {<<>>}, params : Seq(STRING),
                 ret : STRING, self : {"no", "seen", "hidden"},
                 body : SUBSET {"closure"}, steps : Nat]
<1>1. s \in Seq(D)
    BY SourceAssumption
<1>2. i \in 1 .. Len(s)
    BY SourceShape
<1>3. s[i] \in D
  <2> HIDE DEF D
  <2>1. QED
      BY <1>1, <1>2, ElementOfSeq
<1>4. QED
    BY <1>3

(* In a linked module, a key tells the definition. *)
LEMMA KeysAreUnique ==
    ASSUME TableInv, phase = "linked",
           NEW i \in Definitions, NEW j \in Definitions, Key(source[i]) = Key(source[j])
    PROVE  i = j
<1>1. Entry([definition |-> i], Compiled(source[i])) = Entry([definition |-> j], Compiled(source[j]))
    BY DEF TableInv, HasCompiled
<1>2. [definition |-> i] = [definition |-> j]
    BY <1>1 DEF Entry
<1>3. QED
    BY <1>2

LEMMA Registries ==
    ASSUME TableInv, phase = "linked", NEW i \in Definitions
    PROVE  /\ SigReg(Key(source[i])) = Declared(source[i])
           /\ ReturnType(Key(source[i])) = source[i].ret
<1> DEFINE k == Key(source[i])
           LastOf(n) == Key(source[n]) = k /\ \A j \in Definitions : Key(source[j]) = k => j <= n
           FirstOf(n) == Key(source[n]) = k /\ \A j \in Definitions : Key(source[j]) = k => n <= j
<1>1. \A n \in Definitions : Key(source[n]) = k => n = i
    BY KeysAreUnique
<1>2. i <= i
    BY SourceShape DEF TableInv, Definitions
<1>3. (CHOOSE n \in Definitions : LastOf(n)) = i
  <2>1. LastOf(i)
      BY <1>1, <1>2
  <2>2. QED
      BY <1>1, <2>1
<1>4. (CHOOSE n \in Definitions : FirstOf(n)) = i
  <2>1. FirstOf(i)
      BY <1>1, <1>2
  <2>2. QED
      BY <1>1, <2>1
<1>5. SigReg(k) = Declared(source[CHOOSE n \in Definitions : LastOf(n)])
    BY DEF SigReg
<1>6. ReturnType(k) = source[CHOOSE n \in Definitions : FirstOf(n)].ret
    BY DEF ReturnType
<1> HIDE DEF LastOf, FirstOf, k
<1>7. QED
    BY <1>3, <1>4, <1>5, <1>6 DEF k

(* What the shim loads is what the host packed; what the host reads is     *)
(* what the function returned.                                             *)
LEMMA WordsSurvive ==
    ASSUME NEW t, NEW v \in ValuesOf(t)
    PROVE  /\ Load(ClifType(t), Pack(t, v)) = v
           /\ Interpret(t, Unify(ClifType(t), v)) = v
<1>1. CASE t = "Float"
    BY <1>1 DEF ValuesOf, Load, ClifType, Pack, Interpret, Unify, Bits, FloatOf
<1>2. CASE t = "Bool"
    BY <1>2 DEF ValuesOf, Load, ClifType, Pack, Interpret, Unify
<1>3. CASE t = "Unit"
    BY <1>3 DEF ValuesOf, Load, ClifType, Pack, Interpret, Unify
<1>4. CASE t \notin {"Float", "Bool", "Unit"}
    BY <1>4 DEF ValuesOf, Load, ClifType, Pack, Interpret, Unify
<1>5. QED
    BY <1>1, <1>2, <1>3, <1>4

(* The shim's list of types is the host's, self counted. *)
LEMMA TypesLineUp ==
    ASSUME NoFreeSelf, NEW s \in Sources, NEW i \in DOMAIN s
    PROVE  /\ DOMAIN Declared(s[i]).params = DOMAIN ArgTypes(s[i])
           /\ \A j \in DOMAIN ArgTypes(s[i]) :
                  Declared(s[i]).params[j] = ClifType(ArgTypes(s[i])[j])
<1> DEFINE d == s[i]
           params == d.params
           types == ParamTypes(d)
           Word == STRING \cup {"I64", "F64", "I8", "Self"}
<1>1. params \in Seq(STRING) /\ params \in Seq(Word) /\ DOMAIN params = 1 .. Len(params) /\ Len(params) \in Nat
    BY DefinitionShape, LenProperties, SeqMonotonic
<1>2. \A j \in DOMAIN params : params[j] \in STRING
    BY <1>1, ElementOfSeq
<1>3. \A t : ClifType(t) \in Word
    BY DEF ClifType
<1>4. /\ DOMAIN types = 1 .. Len(params)
      /\ \A j \in DOMAIN params : types[j] = ClifType(params[j])
    BY <1>1 DEF ParamTypes
<1>5. types \in Seq(Word) /\ Len(types) = Len(params)
  <2>1. types \in [1 .. Len(params) -> Word]
      BY <1>1, <1>2, <1>3 DEF ParamTypes
  <2>2. QED
      BY <1>1, <2>1
<1>6. Declared(d).params = SelfParam(TakesSelf(d)) \o types
    BY CompiledAsDeclared DEF Compiled, Declared, Signature
<1> HIDE DEF types, params
<1>7. CASE ~ TakesSelf(d)
  <2>1. Declared(d).params = types
      BY <1>5, <1>6, <1>7, ConcatEmptySeq DEF SelfParam
  <2>2. ArgTypes(d) = params
      BY <1>1, <1>7, ConcatEmptySeq DEF ArgTypes, params
  <2>3. QED
      BY <1>1, <1>2, <1>4, <2>1, <2>2
<1>8. CASE TakesSelf(d)
  <2>1. \A w \in Word : <<w>> \in Seq(Word) /\ Len(<<w>>) = 1 /\ <<w>>[1] = w
      OBVIOUS
  <2>2. Declared(d).params = <<"I64">> \o types /\ ArgTypes(d) = <<"Self">> \o params
      BY <1>6, <1>8 DEF SelfParam, ArgTypes, params
  <2>3. /\ Len(<<"I64">> \o types) = 1 + Len(params)
        /\ \A j \in 1 .. 1 + Len(params) :
               (<<"I64">> \o types)[j] = IF j <= 1 THEN <<"I64">>[j] ELSE types[j - 1]
        /\ <<"I64">> \o types \in Seq(Word)
    <3>1. <<"I64">> \in Seq(Word) /\ Len(<<"I64">>) = 1
        BY <2>1
    <3> HIDE DEF Word
    <3>2. QED
        BY <1>5, <3>1, ConcatProperties
  <2>4. /\ Len(<<"Self">> \o params) = 1 + Len(params)
        /\ \A j \in 1 .. 1 + Len(params) :
               (<<"Self">> \o params)[j] = IF j <= 1 THEN <<"Self">>[j] ELSE params[j - 1]
        /\ <<"Self">> \o params \in Seq(Word)
    <3>1. <<"Self">> \in Seq(Word) /\ Len(<<"Self">>) = 1
        BY <2>1
    <3> HIDE DEF Word
    <3>2. QED
        BY <1>1, <3>1, ConcatProperties
  <2>5. DOMAIN (<<"I64">> \o types) = 1 .. 1 + Len(params)
        /\ DOMAIN (<<"Self">> \o params) = 1 .. 1 + Len(params)
      BY <2>3, <2>4, LenProperties
  <2>6. ASSUME NEW j \in 1 .. 1 + Len(params)
        PROVE  Declared(d).params[j] = ClifType(ArgTypes(d)[j])
    <3>1. CASE j = 1
        BY <1>1, <2>2, <2>3, <2>4, <3>1 DEF ClifType
    <3>2. CASE j # 1
      <4>1. j - 1 \in DOMAIN params /\ ~ (j <= 1)
          BY <1>1, <3>2
      <4>2. QED
          BY <1>2, <1>4, <2>2, <2>3, <2>4, <4>1
    <3>3. QED
        BY <3>1, <3>2
  <2>7. QED
      BY <2>2, <2>5, <2>6
<1>9. QED
    BY <1>7, <1>8

LEMMA CallStep ==
    ASSUME NoFreeSelf, TableInv, NEW i \in Definitions, NEW args \in ArgsOf(source[i]),
           NEW r \in ValuesOf(source[i].ret), Call(i, args, r)
    PROVE  CallDelivers'
<1> DEFINE d == source[i]
           reg == SigReg(Key(d))
<1>1. phase = "linked" /\ source \in Sources /\ i \in DOMAIN source
    BY DEF Call, TableInv, Definitions
<1>2. reg = Declared(d) /\ ReturnType(Key(d)) = d.ret
    BY <1>1, Registries
<1>3. /\ DOMAIN reg.params = DOMAIN ArgTypes(d)
      /\ \A j \in DOMAIN ArgTypes(d) : reg.params[j] = ClifType(ArgTypes(d)[j])
    BY <1>1, <1>2, TypesLineUp
<1>4. /\ DOMAIN args = DOMAIN ArgTypes(d) /\ args = [j \in DOMAIN args |-> args[j]]
      /\ \A j \in DOMAIN args : args[j] \in ValuesOf(ArgTypes(d)[j])
    BY DEF ArgsOf
<1>5. \A j \in DOMAIN reg.params :
          Load(reg.params[j], Pack(ArgTypes(d)[j], args[j])) = args[j]
    BY <1>3, <1>4, WordsSurvive
<1>6. reg.ret = ClifType(d.ret)
    BY <1>1, <1>2 DEF Declared, Signature
<1>7. answer' = [args |-> args,
                 saw  |-> [j \in DOMAIN reg.params |->
                              Load(reg.params[j], Pack(ArgTypes(d)[j], args[j]))],
                 gave |-> r,
                 told |-> Interpret(ReturnType(Key(d)), Unify(reg.ret, r))]
    BY DEF Call
<1> HIDE DEF reg, d
<1>8. [j \in DOMAIN reg.params |-> Load(reg.params[j], Pack(ArgTypes(d)[j], args[j]))]
          = [j \in DOMAIN args |-> args[j]]
    BY <1>3, <1>4, <1>5
<1>9. answer'.saw = args
    BY <1>4, <1>7, <1>8
<1>10. answer'.told = r
    BY <1>2, <1>6, <1>7, WordsSurvive DEF d
<1>11. QED
    BY <1>7, <1>9, <1>10 DEF CallDelivers

(* A call by name gives the function the arguments it was called with and  *)
(* its caller the value it returned, for every list of types (call of      *)
(* lib.rs, compile_shim).                                                  *)
THEOREM CallsDeliver == ASSUME NoFreeSelf PROVE DispatchSpec => []CallDelivers
<1>1. DispatchInit => TableInv /\ CallDelivers
    BY TableInit DEF DispatchInit, LinkInit, CallDelivers
<1>2. ASSUME TableInv, CallDelivers, [DispatchNext]_allVars PROVE CallDelivers'
  <2>1. CASE phase' # "called"
      BY <2>1 DEF CallDelivers
  <2>2. CASE UNCHANGED <<phase, answer>>
      BY <1>2, <2>2 DEF CallDelivers
  <2>3. CASE Begin \/ End
      BY <2>1, <2>2, <2>3 DEF Begin, BeginFunction, End, EndFunction
  <2>4. CASE DeclareFunction \/ UseHiddenSelf
      BY <2>1, <2>4 DEF DeclareFunction, UseHiddenSelf
  <2>5. ASSUME NEW n, MakeClosure(n) PROVE CallDelivers'
      BY <2>1, <2>5 DEF MakeClosure
  <2>6. ASSUME NEW k, CompileShim(k) PROVE CallDelivers'
      BY <2>1, <2>6 DEF CompileShim
  <2>7. ASSUME NEW reach, NEW end, Statement(reach, end) PROVE CallDelivers'
      BY <2>2, <2>7 DEF Statement
  <2>8. QED
      BY <1>2, <2>2, <2>3, <2>4, <2>5, <2>6, <2>7, CallStep
         DEF DispatchNext, Let, Assign, CallMethod, GetField, SetField, allVars, linkVars
<1>3. TableInv /\ CallDelivers /\ [DispatchNext]_allVars => (TableInv /\ CallDelivers)'
    BY <1>2, TableStep
<1>4. QED
    BY <1>1, <1>3, PTL DEF DispatchSpec

-----------------------------------------------------------------------------
(* Bodies.  What the compiler, the checker and the program have of one     *)
(* variable agree as long as no variable changes struct and static calls   *)
(* are constructors.                                                       *)
Tame ==
    {"untracked", "retype", "foreign", "blind", "dropped", "shifted", "unvisited"} \cap Forms = {}

Consistent(v) ==
    /\ DOMAIN v = {"map", "type", "object"}
    /\ v.map \in Structs \cup {"none"} /\ v.object \in Structs \cup {"none"}
    /\ v.map # "none" => v.map = v.object
    /\ v.type \in Structs => v.type = v.object
    /\ v.object # "none" => v.type \in {"none", v.object}

VarsInv ==
    /\ \A x \in DOMAIN vars : Consistent(vars[x])
    /\ "self" \in DOMAIN vars => vars["self"].type = "none" /\ vars["self"].map # "none"
    /\ \A a \in accesses : a[1] \in DOMAIN vars

(* A panic to come is one the checker has the access for. *)
BodyInv ==
    /\ VarsInv
    /\ \A r \in reached : r.want = r.got
    /\ phase = "body" /\ broken = "panic" => UnknownFields # {}
    /\ FieldsWereChecked

LEMMA ExprFacts ==
    ASSUME TableInv, VarsInv, NEW e \in Exprs
    PROVE  /\ MapOf(e) \in Structs \cup {"none"} /\ ObjectOf(e) \in Structs \cup {"none"}
           /\ TypeOf(e) \in Structs => TypeOf(e) = ObjectOf(e)
           /\ ObjectOf(e) # "none" => TypeOf(e) \in {"none", ObjectOf(e)}
<1>1. CASE \E T \in Structs : e = Literal(T)
    BY <1>1 DEF Literal, MapOf, ObjectOf, TypeOf
<1>2. CASE \E y \in DOMAIN vars : e = Copy(y)
  <2>1. PICK y \in DOMAIN vars : e = Copy(y)
      BY <1>2
  <2>2. /\ MapOf(e) = "none" /\ ObjectOf(e) = vars[y].object /\ TypeOf(e) = vars[y].type
      BY <2>1 DEF Copy, MapOf, ObjectOf, TypeOf
  <2>3. QED
      BY <2>2 DEF VarsInv, Consistent
<1>3. ASSUME NEW d \in ToSet(source), d.struct # <<>>, e = Static(d.struct[1], d.name)
      PROVE  MapOf(e) \in Structs
  <2>1. PICK i \in DOMAIN source : d = source[i]
      BY DEF ToSet
  <2>2. d.struct[1] \in Structs
      BY <1>3, <2>1, MethodAssumption DEF TableInv
  <2>3. QED
      BY <1>3, <2>2 DEF Static, MapOf
<1>4. ASSUME e.form \in {"static", "result"}
      PROVE  /\ ObjectOf(e) = StructType(Callee(e).ret) /\ TypeOf(e) = Callee(e).ret
             /\ e.form = "result" => MapOf(e) = "none"
    BY <1>4 DEF ObjectOf, TypeOf, MapOf
<1>5. CASE \E d \in ToSet(source) : d.struct # <<>> /\ e = Static(d.struct[1], d.name)
  <2>1. e.form = "static" /\ MapOf(e) \in Structs
      BY <1>3, <1>5 DEF Static
  <2>2. QED
      BY <1>4, <2>1, NameAssumption DEF StructType
<1>6. CASE \E d \in ToSet(source) : e = Result(d.name)
  <2>1. e.form = "result"
      BY <1>6 DEF Result
  <2>2. QED
      BY <1>4, <2>1, NameAssumption DEF StructType
<1>7. QED
    BY <1>1, <1>2, <1>5, <1>6 DEF Exprs

(* A statement that keeps the types of the variables there are, and        *)
(* forgets no access.                                                      *)
LEMMA StatementBody ==
    ASSUME BodyInv, NEW reach, NEW end, Statement(reach, end),
           \A r \in reach : r.want = r.got,
           VarsInv', DOMAIN vars \subseteq DOMAIN vars',
           \A x \in DOMAIN vars : vars'[x].type = vars[x].type,
           accesses \subseteq accesses',
           end = "panic" => UnknownFields' # {}
    PROVE  BodyInv'
<1>1. UnknownFields \subseteq UnknownFields'
    BY DEF BodyInv, VarsInv, UnknownFields
<1>2. broken' = "panic" => broken = "panic" \/ end = "panic"
    BY DEF Statement
<1>3. phase = "body" /\ phase' = "body"
    BY DEF Statement
<1>4. phase' = "body" /\ broken' = "panic" => UnknownFields' # {}
    BY <1>1, <1>2, <1>3 DEF BodyInv
<1>5. \A r \in reached' : r.want = r.got
    BY DEF Statement, BodyInv
<1>6. FieldsWereChecked'
    BY <1>3 DEF FieldsWereChecked
<1>7. QED
    BY <1>4, <1>5, <1>6 DEF BodyInv

LEMMA NotSelf == ASSUME NEW x \in ToSet(Names) PROVE x # "self"
<1>1. PICK i \in DOMAIN Names : x = Names[i]
    BY DEF ToSet
<1>2. Names[i] \in STRING \ {"self"}
    BY NameAssumption, ElementOfSeq, LenProperties
<1>3. QED
    BY <1>1, <1>2

LEMMA ReachesResolve == ASSUME NEW e, NEW r \in Reaches(e) PROVE r.want = r.got
BY DEF Reaches

LEMMA LetBody ==
    ASSUME Tame, TableInv, BodyInv, NEW x \in ToSet(Names), NEW e \in Exprs, Let(x, e)
    PROVE  BodyInv'
<1> DEFINE old == IF x \in DOMAIN vars THEN vars[x].map ELSE "none"
           v == [map    |-> IF MapOf(e) # "none" THEN MapOf(e) ELSE old,
                 type   |-> TypeOf(e),
                 object |-> ObjectOf(e)]
<1>1. /\ vars' = With(vars, x, v) /\ accesses' = accesses
      /\ Statement(Reaches(e), CallEnd(e))
      /\ x \in DOMAIN vars => ObjectOf(e) = vars[x].object /\ TypeOf(e) = vars[x].type
      /\ MapOf(e) \in {"none", ObjectOf(e)}
    BY DEF Let, Tame, Keeps, Makes
<1>2. /\ DOMAIN vars' = DOMAIN vars \cup {x} /\ vars'[x] = v
      /\ \A y \in DOMAIN vars \ {x} : vars'[y] = vars[y]
    BY <1>1 DEF With
<1>3. VarsInv /\ x # "self"
    BY NotSelf DEF BodyInv
<1>4. Consistent(v)
  <2>1. x \in DOMAIN vars => Consistent(vars[x])
      BY <1>3 DEF VarsInv
  <2>2. QED
      BY <1>1, <1>3, <2>1, ExprFacts DEF Consistent
<1> HIDE DEF v
<1>5. VarsInv'
    BY <1>1, <1>2, <1>3, <1>4 DEF VarsInv
<1>6. \A y \in DOMAIN vars : vars'[y].type = vars[y].type
    BY <1>1, <1>2 DEF v
<1>7. CallEnd(e) # "panic"
    BY DEF CallEnd
<1>8. QED
    BY <1>1, <1>2, <1>5, <1>6, <1>7, ReachesResolve, StatementBody

LEMMA AssignBody ==
    ASSUME Tame, TableInv, BodyInv, NEW x \in ToSet(Names), NEW e \in Exprs, Assign(x, e)
    PROVE  BodyInv'
<1> DEFINE v == [vars[x] EXCEPT !.type = TypeOf(e), !.object = ObjectOf(e)]
<1>1. /\ vars' = [vars EXCEPT ![x].type = TypeOf(e), ![x].object = ObjectOf(e)]
      /\ accesses' = accesses /\ x \in DOMAIN vars
      /\ Statement(Reaches(e), CallEnd(e))
      /\ ObjectOf(e) = vars[x].object /\ TypeOf(e) = vars[x].type
    BY DEF Assign, Tame, Keeps, Makes
<1>2. DOMAIN vars' = DOMAIN vars
    BY <1>1
<1>3. VarsInv /\ x # "self" /\ DOMAIN vars[x] = {"map", "type", "object"}
    BY <1>1, NotSelf DEF BodyInv, VarsInv, Consistent
<1>4. /\ vars'[x].type = vars[x].type /\ vars'[x].object = vars[x].object
      /\ vars'[x].map = vars[x].map /\ DOMAIN vars'[x] = {"map", "type", "object"}
      /\ \A y \in DOMAIN vars \ {x} : vars'[y] = vars[y]
    BY <1>1, <1>3
<1>5. VarsInv'
    BY <1>1, <1>2, <1>3, <1>4 DEF VarsInv, Consistent
<1>6. CallEnd(e) # "panic"
    BY DEF CallEnd
<1>7. QED
    BY <1>1, <1>2, <1>4, <1>5, <1>6, ReachesResolve, StatementBody

LEMMA CallMethodBody ==
    ASSUME Tame, BodyInv, NEW x \in DOMAIN vars, NEW m, NEW n, CallMethod(x, m, n)
    PROVE  BodyInv'
<1> DEFINE map == vars[x].map
           got == (IF map # "none" THEN <<map>> ELSE <<x>>) \o m
           want == <<vars[x].object>> \o m
<1>1. map # "none" /\ want \in FuncIds /\ UNCHANGED <<vars, accesses>>
    BY DEF CallMethod, Receiver, Tame
<1>2. map = vars[x].object
    BY <1>1 DEF BodyInv, VarsInv, Consistent
<1>3. got = want
    BY <1>1, <1>2
<1>4. PICK end \in {"no", "error"} : Statement({[want |-> want, got |-> got]}, end)
    BY <1>1, <1>3 DEF CallMethod, Tame
<1>5. VarsInv'
    BY <1>1 DEF BodyInv, VarsInv
<1> HIDE DEF want, got
<1>6. QED
    BY <1>1, <1>3, <1>4, <1>5, StatementBody

LEMMA GetFieldBody ==
    ASSUME Tame, BodyInv, NEW x \in DOMAIN vars, NEW f, NEW seen \in BOOLEAN,
           GetField(x, f, seen)
    PROVE  BodyInv'
<1> DEFINE v == vars[x]
           reach == IF ~ HasField(v.object, f) THEN {}
                    ELSE {[want |-> SlotAt(Index(v.object, f)),
                           got  |-> SlotAt(IF HasField(v.map, f) THEN Index(v.map, f) ELSE 1)]}
           end == IF v.map # "none" /\ ~ HasField(v.map, f) THEN "panic" ELSE "no"
<1>1. /\ v.object # "none" /\ v.map # "none" /\ vars' = vars
      /\ HasField(v.object, f) \/ (v.type # "none" /\ seen)
      /\ Statement(reach, end)
      /\ accesses' = IF seen /\ x # "self" THEN accesses \cup {<<x, f>>} ELSE accesses
    BY DEF GetField, Receiver, Tame
<1>2. v.map = v.object /\ Consistent(v) /\ VarsInv
    BY <1>1 DEF BodyInv, VarsInv, Consistent
<1>3. \A r \in reach : r.want = r.got
    BY <1>2
<1>4. VarsInv'
    BY <1>1, <1>2 DEF VarsInv
<1>5. ASSUME end = "panic" PROVE UnknownFields' # {}
  <2>1. ~ HasField(v.object, f) /\ v.type # "none" /\ seen
      BY <1>1, <1>2, <1>5
  <2>2. x # "self" /\ v.type = v.object /\ v.type \in Structs
      BY <1>1, <1>2, <2>1 DEF VarsInv, Consistent
  <2>3. <<x, f>> \in accesses'
      BY <1>1, <2>1, <2>2
  <2>4. <<x, f>> \in UnknownFields'
      BY <1>1, <2>1, <2>2, <2>3 DEF UnknownFields, HasField
  <2>5. QED
      BY <2>4
<1> HIDE DEF reach, end
<1>6. QED
    BY <1>1, <1>3, <1>4, <1>5, StatementBody

LEMMA SetFieldBody == ASSUME Tame, BodyInv, NEW f, SetField(f) PROVE BodyInv'
<1> DEFINE v == vars["self"]
           got == IF HasField(v.map, f) THEN <<"set", f>> ELSE <<"0">>
<1>1. /\ "self" \in DOMAIN vars /\ HasField(v.object, f) /\ UNCHANGED <<vars, accesses>>
      /\ Statement({[want |-> <<"set", f>>, got |-> got]}, "no")
    BY DEF SetField, Tame
<1>2. VarsInv'
    BY <1>1 DEF BodyInv, VarsInv
<1>3. got = <<"set", f>>
  <2>1. v.map = v.object
      BY <1>1 DEF BodyInv, VarsInv, Consistent
  <2>2. QED
      BY <1>1, <2>1
<1> HIDE DEF got, v
<1>4. QED
    BY <1>1, <1>2, <1>3, StatementBody

(* What a body begins with: parameters of struct type, and self. *)
LEMMA BeginVars ==
    ASSUME TableInv, Begin, NEW x \in DOMAIN vars'
    PROVE  /\ Consistent(vars'[x])
           /\ x = "self" => vars'[x].type = "none" /\ vars'[x].map # "none"
<1> DEFINE params == [i \in {j \in DOMAIN Current.params : Current.params[j] \in Structs}
                        |-> Current.params[i]]
           hasSelf == TakesSelf(Current) /\ Current.struct # <<>>
           typeOf(v) == params[CHOOSE i \in DOMAIN params : Names[i] = v]
<1>1. /\ phase' = "body" /\ broken' = "no" /\ accesses' = {} /\ reached' = reached
      /\ vars' = [v \in {Names[i] : i \in DOMAIN params}
                           \cup (IF hasSelf THEN {"self"} ELSE {}) |->
                    IF v = "self"
                    THEN [map |-> Current.struct[1], type |-> "none", object |-> Current.struct[1]]
                    ELSE [map |-> "none", type |-> typeOf(v), object |-> typeOf(v)]]
    BY DEF Begin, BeginFunction
<1>2. source \in Sources /\ at \in DOMAIN source /\ Current = source[at]
    BY DEF TableInv, Definitions, Current
<1>3. \A i \in DOMAIN params : params[i] \in Structs
    OBVIOUS
<1>4. \A i \in DOMAIN params : Names[i] # "self"
  <2>1. Current.params \in Seq(STRING) /\ Len(Current.params) <= Len(Names)
      BY <1>2, DefinitionShape, NameAssumption
  <2>2. DOMAIN params \subseteq 1 .. Len(Current.params) /\ Len(Current.params) \in Nat
      BY <2>1, LenProperties
  <2>3. Names \in Seq(STRING \ {"self"}) /\ Len(Names) \in Nat
      BY NameAssumption, LenProperties
  <2>4. \A i \in 1 .. Len(Names) : Names[i] \in STRING \ {"self"}
      BY <2>3, ElementOfSeq
  <2>5. QED
      BY <2>1, <2>2, <2>3, <2>4
<1>5. hasSelf => Current.struct[1] \in Structs
    BY <1>2, MethodAssumption
<1> HIDE DEF params, hasSelf
<1>6. CASE x = "self"
  <2>1. hasSelf
      BY <1>1, <1>4, <1>6
  <2>2. vars'[x] = [map |-> Current.struct[1], type |-> "none", object |-> Current.struct[1]]
      BY <1>1, <1>6
  <2>3. QED
      BY <1>5, <2>1, <2>2, NameAssumption DEF Consistent
<1>7. CASE x # "self"
  <2>1. \E i \in DOMAIN params : Names[i] = x
      BY <1>1, <1>7
  <2>2. typeOf(x) \in Structs
      BY <1>3, <2>1
  <2>3. vars'[x] = [map |-> "none", type |-> typeOf(x), object |-> typeOf(x)]
      BY <1>1, <1>7
  <2> HIDE DEF typeOf
  <2>4. QED
      BY <1>7, <2>2, <2>3 DEF Consistent
<1>8. QED
    BY <1>6, <1>7

LEMMA BeginBody == ASSUME TableInv, BodyInv, Begin PROVE BodyInv'
<1>1. phase' = "body" /\ broken' = "no" /\ accesses' = {} /\ reached' = reached
    BY DEF Begin, BeginFunction
<1>2. \A x \in DOMAIN vars' : /\ Consistent(vars'[x])
                              /\ x = "self" => vars'[x].type = "none" /\ vars'[x].map # "none"
    BY BeginVars
<1>3. QED
    BY <1>1, <1>2 DEF BodyInv, VarsInv, FieldsWereChecked

LEMMA EndBody == ASSUME TableInv, BodyInv, End PROVE BodyInv'
<1>1. /\ phase = "body" /\ broken' = broken /\ phase' # "body"
      /\ accepted' = (accepted /\ UnknownFields = {})
      /\ vars' = <<>> /\ accesses' = {} /\ reached' = reached
      /\ phase' = "panic" => broken = "panic"
    BY DEF End, EndFunction
<1>2. FieldsWereChecked'
    BY <1>1 DEF BodyInv, FieldsWereChecked
<1>3. QED
    BY <1>1, <1>2 DEF BodyInv, VarsInv

LEMMA BodyStep ==
    ASSUME Tame, TableInv, BodyInv, [DispatchNext]_allVars PROVE BodyInv'
<1>1. ASSUME UNCHANGED <<vars, accesses, reached, accepted, broken>>,
             phase' = "body" => phase = "body",
             phase' = "panic" => phase = "panic" \/ broken # "panic"
      PROVE  BodyInv'
  <2>1. UnknownFields' = UnknownFields
      BY <1>1 DEF UnknownFields
  <2>2. QED
      BY <1>1, <2>1 DEF BodyInv, VarsInv, FieldsWereChecked
<1>2. CASE (DeclareFunction \/ UseHiddenSelf) /\ UNCHANGED bodyVars
    BY <1>1, <1>2 DEF DeclareFunction, UseHiddenSelf, bodyVars
<1>3. ASSUME NEW n, MakeClosure(n), UNCHANGED bodyVars PROVE BodyInv'
    BY <1>1, <1>3 DEF MakeClosure, bodyVars
<1>4. ASSUME NEW k, CompileShim(k), UNCHANGED bodyVars PROVE BodyInv'
    BY <1>1, <1>4 DEF CompileShim, bodyVars
<1>5. ASSUME NEW i, NEW args, NEW r, Call(i, args, r), UNCHANGED bodyVars PROVE BodyInv'
    BY <1>1, <1>5 DEF Call, bodyVars
<1>6. CASE UNCHANGED allVars
    BY <1>1, <1>6 DEF allVars, linkVars, bodyVars
<1>7. QED
    BY <1>2, <1>3, <1>4, <1>5, <1>6, BeginBody, EndBody, LetBody, AssignBody,
       CallMethodBody, GetFieldBody, SetFieldBody DEF DispatchNext

LEMMA BodyInit == DispatchInit => BodyInv
BY DEF DispatchInit, LinkInit, BodyInv, VarsInv, FieldsWereChecked

LEMMA BodyKept == ASSUME Tame PROVE DispatchSpec => [](TableInv /\ BodyInv)
<1>1. DispatchInit => TableInv /\ BodyInv
    BY TableInit, BodyInit DEF DispatchInit
<1>2. TableInv /\ BodyInv /\ [DispatchNext]_allVars => (TableInv /\ BodyInv)'
    BY TableStep, BodyStep
<1>3. QED
    BY <1>1, <1>2, PTL DEF DispatchSpec

(* Calls and accesses reach the method and the slot of the struct that the *)
(* receiver is at run time, if the receiver is one the compiler tracks and *)
(* no variable changes struct (resolve_call_target, compile_get_field).    *)
THEOREM TrackedReceiversResolve == ASSUME Tame PROVE DispatchSpec => []ReceiversResolve
<1>1. BodyInv => ReceiversResolve
    BY DEF BodyInv, ReceiversResolve
<1>2. QED
    BY <1>1, BodyKept, PTL

(* The panic of compile_get_field is met only by files the checker has     *)
(* rejected: the access it panics on is one the second pass looks at, with *)
(* the type it looks for.                                                  *)
THEOREM PanicsWereRejected == ASSUME Tame PROVE DispatchSpec => []FieldsWereChecked
<1>1. BodyInv => FieldsWereChecked
    BY DEF BodyInv
<1>2. QED
    BY <1>1, BodyKept, PTL

-----------------------------------------------------------------------------
(* The type invariant holds of every file, tame or not. *)
MapsInv ==
    /\ \A x \in DOMAIN vars : vars[x].map \in Structs \cup {"none"}
    /\ accepted \in BOOLEAN

LEMMA MapsStep == ASSUME TableInv, MapsInv, [DispatchNext]_allVars PROVE MapsInv'
<1>1. CASE UNCHANGED <<vars, accepted>>
    BY <1>1 DEF MapsInv
<1>2. ASSUME NEW x, NEW e \in Exprs, Let(x, e) PROVE MapsInv'
  <2>1. MapOf(e) \in Structs \cup {"none"}
    <3>1. ASSUME NEW d \in ToSet(source), d.struct # <<>>, e = Static(d.struct[1], d.name)
          PROVE  MapOf(e) \in Structs
      <4>1. PICK i \in DOMAIN source : d = source[i]
          BY DEF ToSet
      <4>2. d.struct[1] \in Structs
          BY <3>1, <4>1, MethodAssumption DEF TableInv
      <4>3. QED
          BY <3>1, <4>2 DEF Static, MapOf
    <3>2. QED
        BY <3>1 DEF Exprs, Literal, Copy, Result, MapOf
  <2>2. PICK v : /\ vars' = With(vars, x, v)
                 /\ v.map = IF MapOf(e) # "none" THEN MapOf(e)
                            ELSE IF x \in DOMAIN vars THEN vars[x].map ELSE "none"
      BY <1>2 DEF Let
  <2>3. v.map \in Structs \cup {"none"}
      BY <2>1, <2>2 DEF MapsInv
  <2>4. DOMAIN vars' = DOMAIN vars \cup {x} /\ vars'[x] = v
        /\ \A y \in DOMAIN vars \ {x} : vars'[y] = vars[y]
      BY <2>2 DEF With
  <2>5. QED
      BY <1>2, <2>3, <2>4 DEF MapsInv, Let, Statement
<1>3. ASSUME NEW x, NEW e, Assign(x, e) PROVE MapsInv'
    BY <1>3 DEF Assign, Statement, MapsInv
<1>4. CASE Begin
  <2>1. \A x \in DOMAIN vars' : vars'[x].map \in Structs \cup {"none"}
      BY <1>4, BeginVars DEF Consistent
  <2>2. QED
      BY <1>4, <2>1 DEF MapsInv, Begin
<1>5. CASE End
    BY <1>5 DEF End, MapsInv
<1>6. ASSUME NEW x, NEW m, NEW n, CallMethod(x, m, n) PROVE MapsInv'
    BY <1>1, <1>6 DEF CallMethod, Statement
<1>7. ASSUME NEW x, NEW f, NEW seen, GetField(x, f, seen) PROVE MapsInv'
    BY <1>1, <1>7 DEF GetField, Statement
<1>8. ASSUME NEW f, SetField(f) PROVE MapsInv'
    BY <1>1, <1>8 DEF SetField, Statement
<1>9. CASE UNCHANGED bodyVars
    BY <1>1, <1>9 DEF bodyVars
<1>10. QED
    BY <1>2, <1>3, <1>4, <1>5, <1>6, <1>7, <1>8, <1>9 DEF DispatchNext, allVars

(* The linker keeps its types: what has code was declared, and what the    *)
(* compiler takes for a struct is one, whatever the file.                  *)
THEOREM LinkTypes == DispatchSpec => []LinkTypeOK
<1>1. DispatchInit => TableInv /\ MapsInv
    BY TableInit DEF DispatchInit, MapsInv
<1>2. TableInv /\ MapsInv /\ [DispatchNext]_allVars => (TableInv /\ MapsInv)'
    BY TableStep, MapsStep
<1>3. TableInv /\ MapsInv => LinkTypeOK
    BY DEF TableInv, MapsInv, LinkTypeOK, Phases
<1>4. QED
    BY <1>1, <1>2, <1>3, PTL DEF DispatchSpec
=============================================================================
