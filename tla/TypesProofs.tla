----------------------------- MODULE TypesProofs -----------------------------
(***************************************************************************)
(* Proofs about Types, for any functions, any locals, any expressions and  *)
(* any forms but five: "unchecked", the errors no rule looks for,          *)
(* "misread", the conversions of values whose type the back end infers     *)
(* wrongly, "floats", the remainder of a Float, "arity", calls with too    *)
(* few or too many arguments, and "undeclared", names not declared.        *)
(***************************************************************************)
EXTENDS Types, SequenceTheorems, TLAPS

Tame == {"unchecked", "misread", "floats", "arity", "undeclared"} \cap Forms = {}

Kind == Primitive \cup {Struct, Unknown}

Entry ==
  [ty : Kind, inf : Clif, clif : Clif, binop : BOOLEAN,
   arg : BOOLEAN, known : BOOLEAN, guess : BOOLEAN, ok : BOOLEAN]

Typed(ty, clif) == ty # Unknown => clif = ClifOf(ty)

(* What holds of an operand: a rule objects to what does not compile; the  *)
(* value has the type the checker gives it, also where the back end only   *)
(* guesses; and where it does not guess it knows the value's type.         *)
Good(e) ==
  /\ ~e.binop /\ ~e.arg => e.ok
  /\ e.ok /\ ~e.binop => Typed(e.ty, e.clif)
  /\ e.ok /\ ~e.binop /\ ~e.guess => e.inf = e.clif

Local == {Absent} \cup [ty : Kind, clif : Clif, known : BOOLEAN]
GoodEnv(vars) == \A x \in Names : vars[x] # Absent => Typed(vars[x].ty, vars[x].clif)

TypesInv ==
  /\ ret \in Type
  /\ env \in [Names -> Local]
  /\ stack \in Seq(Entry)
  /\ flagged \in BOOLEAN /\ valid \in BOOLEAN
  /\ \A i \in 1 .. Len(stack) : Good(stack[i])
  /\ ~flagged => valid /\ GoodEnv(env)

LEMMA ClifOfType ==
  \A t \in Type : ClifOf(t) \in Clif /\ t # Unknown /\ t \in Kind
  BY BasicAssumption DEF Type, ClifOf, Clif, Primitive, Struct, Unknown, Kind

LEMMA InitTypes == Init => TypesInv
<1> SUFFICES ASSUME Init PROVE TypesInv
  OBVIOUS
<1>1. env \in [Names -> Local] /\ GoodEnv(env)
  BY ClifOfType DEF Init, Local, Params, GoodEnv, Typed
<1>2. ret \in Type /\ flagged = FALSE /\ valid = TRUE
  BY DEF Init
<1>3. stack \in Seq(Entry) /\ Len(stack) = 0
  BY DEF Init
<1>4. flagged \in BOOLEAN /\ valid \in BOOLEAN /\ (~flagged => valid)
  BY <1>2
<1>5. \A i \in 1 .. Len(stack) : Good(stack[i])
  BY <1>3
<1>6. QED
  BY <1>1, <1>2, <1>3, <1>4, <1>5 DEF TypesInv

(* The topmost operands. *)
LEMMA ArgGood ==
  ASSUME TypesInv, NEW n \in Nat, Has(n), NEW i \in 0 .. n - 1
  PROVE  Arg(i) \in Entry /\ Good(Arg(i))
<1>1. Len(stack) \in Nat /\ Len(stack) - i \in 1 .. Len(stack)
  BY DEF TypesInv, Has
<1>2. QED
  BY <1>1, ElementOfSeq DEF TypesInv, Arg

-----------------------------------------------------------------------------
(* The three ways an action ends. *)
LEMMA PushKeeps ==
  ASSUME TypesInv, NEW s \in Seq(Entry), NEW e \in Entry, Good(e),
         \A i \in 1 .. Len(s) : Good(s[i]),
         stack' = Append(s, e), UNCHANGED <<ret, env, flagged, valid>>
  PROVE  TypesInv'
<1>1. /\ Append(s, e) \in Seq(Entry)
      /\ Len(Append(s, e)) = Len(s) + 1
      /\ \A i \in 1 .. Len(s) : Append(s, e)[i] = s[i]
      /\ Append(s, e)[Len(s) + 1] = e
  BY AppendProperties
<1>2. Len(s) \in Nat
  BY LenProperties
<1>3. \A i \in 1 .. Len(s) + 1 : i \in 1 .. Len(s) \/ i = Len(s) + 1
  BY <1>2
<1>4. \A i \in 1 .. Len(stack') : Good(stack'[i])
  BY <1>1, <1>3
<1>5. QED
  BY <1>1, <1>4 DEF TypesInv

LEMMA OperandKeeps ==
  ASSUME TypesInv, NEW e \in Entry, Good(e), Operand(e)
  PROVE  TypesInv'
<1>1. stack \in Seq(Entry) /\ \A i \in 1 .. Len(stack) : Good(stack[i])
  BY DEF TypesInv
<1>2. QED
  BY <1>1, PushKeeps DEF Operand

LEMMA OperationKeeps ==
  ASSUME TypesInv, NEW n \in Nat, Has(n), NEW e \in Entry,
         NEW isValid \in BOOLEAN,
         Good([e EXCEPT !.ok = isValid /\ \A i \in 0 .. n - 1 : Arg(i).ok]),
         Operation(n, e, isValid)
  PROVE  TypesInv'
<1> DEFINE ok == isValid /\ \A i \in 0 .. n - 1 : Arg(i).ok
           r == [e EXCEPT !.ok = ok]
<1>1. r \in Entry
  BY DEF Entry
<1>2. Len(stack) \in Nat /\ Len(stack) - n \in 0 .. Len(stack) /\ stack \in Seq(Entry)
  BY DEF TypesInv, Has
<1>3. /\ Rest(n) \in Seq(Entry)
      /\ Len(Rest(n)) = Len(stack) - n
      /\ \A i \in 1 .. Len(stack) - n : Rest(n)[i] = stack[i]
  <2>1. /\ SubSeq(stack, 1, Len(stack) - n) \in Seq(Entry)
        /\ Len(SubSeq(stack, 1, Len(stack) - n)) = Len(stack) - n
        /\ \A i \in 1 .. Len(stack) - n :
             SubSeq(stack, 1, Len(stack) - n)[i] = stack[1 + i - 1]
    BY <1>2, SubSeqProperties
  <2>2. QED
    BY <2>1, <1>2 DEF Rest
<1>4. \A i \in 1 .. Len(Rest(n)) : Good(Rest(n)[i])
  <2>1. \A i \in 1 .. Len(stack) - n : i \in 1 .. Len(stack)
    BY <1>2
  <2>2. \A i \in 1 .. Len(stack) : Good(stack[i])
    BY DEF TypesInv
  <2>3. QED
    BY <1>3, <2>1, <2>2
<1>5. stack' = Append(Rest(n), r) /\ UNCHANGED <<ret, env, flagged, valid>>
  BY DEF Operation
<1>6. Good(r)
  OBVIOUS
<1> HIDE DEF r
<1>7. QED
  BY <1>1, <1>3, <1>4, <1>5, <1>6, PushKeeps

LEMMA StatementKeeps ==
  ASSUME TypesInv, Has(1), NEW objects \in BOOLEAN, NEW isValid \in BOOLEAN,
         NEW newEnv \in [Names -> Local],
         ~objects => isValid /\ Arg(0).ok /\ GoodEnv(newEnv),
         Statement(objects, isValid, newEnv)
  PROVE  TypesInv'
<1>1. Arg(0).ok \in BOOLEAN
  BY ArgGood DEF Entry
<1>2. QED
  BY <1>1 DEF TypesInv, Statement

-----------------------------------------------------------------------------
(* A conversion told the truth about its value succeeds. *)
LEMMA TrueConversion ==
  ASSUME NEW v \in Clif, NEW to \in Clif
  PROVE  CoerceValid(v, v, to) /\ Coerced(v, v, to) = to
  BY DEF CoerceValid, Coerced, Clif, Ints

LEMMA TrueCondition ==
  ASSUME NEW e \in Entry, e.inf = e.clif
  PROVE  Condition(e)
  BY TrueConversion DEF Condition, Entry, Ints, Clif

LEMMA Plain ==
  ASSUME NEW ty \in Kind, NEW inf \in Clif, NEW clif \in Clif
  PROVE  Expr(ty, inf, clif) \in Entry /\ Guess(ty, clif) \in Entry
  BY DEF Expr, Guess, Entry, Clif

(* Without "unchecked" an operand that an operation takes is not in error, *)
(* and the type the checker gives it is that of its value.                 *)
LEMMA UncheckedFree ==
  ASSUME Tame, NEW e, NEW mismatch \in BOOLEAN, Unchecked(e, mismatch)
  PROVE  ~e.binop /\ ~e.arg /\ ~mismatch
  BY DEF Tame, Unchecked

LEMMA ConvertsExactly ==
  ASSUME Tame, NEW e, Converts(e)
  PROVE  e.inf = e.clif
  BY DEF Tame, Converts

LEMMA LitKeeps == ASSUME TypesInv, NEW t \in Basic, Lit(t) PROVE TypesInv'
<1> DEFINE e == Expr(t, ClifOf(t), ClifOf(t))
<1>1. e \in Entry
  BY ClifOfType, Plain DEF Type
<1>2. Good(e)
  BY DEF Good, Typed, Expr
<1> HIDE DEF e
<1>3. Operand(e)
  BY DEF Lit, e
<1>4. QED
  BY <1>1, <1>2, <1>3, OperandKeeps

LEMMA LocalKnown ==
  ASSUME TypesInv, NEW x \in Names, env[x] # Absent
  PROVE  /\ env[x] \in [ty : Kind, clif : Clif, known : BOOLEAN]
         /\ ~flagged => Typed(env[x].ty, env[x].clif)
  BY DEF TypesInv, Local, GoodEnv

LEMMA IdentKeeps == ASSUME Tame, TypesInv, NEW x \in Names, Ident(x) PROVE TypesInv'
<1> DEFINE e == Expr(env[x].ty, env[x].clif, env[x].clif)
           r == [e EXCEPT !.ok = TRUE]
<1>1. env[x] # Absent /\ ~flagged
  BY DEF Ident, Operand, Has, Tame
<1>2. e \in Entry
  BY <1>1, LocalKnown, Plain
<1>3. Typed(e.ty, e.clif) /\ e.inf = e.clif
  BY <1>1, LocalKnown DEF Expr
<1>4. Operand(r)
  BY <1>1 DEF Ident
<1> HIDE DEF e
<1>5. r \in Entry /\ Good(r)
  BY <1>2, <1>3 DEF Entry, Good
<1> HIDE DEF r
<1>6. QED
  BY <1>4, <1>5, OperandKeeps

(* What no rule has a type for, as long as the back end knows its type or  *)
(* owns up to a guess.                                                     *)
LEMMA GuessKeeps ==
  ASSUME TypesInv, NEW ty \in Kind, NEW clif \in Clif,
         Typed(ty, clif), Operand(Guess(ty, clif))
  PROVE  TypesInv'
<1>1. Good(Guess(ty, clif))
  BY DEF Good, Guess, Expr
<1>2. Guess(ty, clif) \in Entry
  BY Plain DEF Clif
<1>3. QED
  BY <1>1, <1>2, OperandKeeps

LEMMA GetFieldKeeps ==
  ASSUME Tame, TypesInv, NEW x \in Names, NEW t \in Type, GetField(x, t)
  PROVE  TypesInv'
<1>1. env[x].known /\ Operand(Guess(t, ClifOf(t)))
  BY DEF GetField, Tame
<1>2. QED
  BY <1>1, ClifOfType, GuessKeeps DEF Typed

LEMMA GetSelfFieldKeeps ==
  ASSUME TypesInv, NEW t \in Type, GetSelfField(t)
  PROVE  TypesInv'
  BY ClifOfType, GuessKeeps DEF GetSelfField, Typed, Kind

LEMMA CallMethodKeeps ==
  ASSUME TypesInv, NEW x \in Names, NEW t \in Type, CallMethod(x, t)
  PROVE  TypesInv'
<1> DEFINE c == IF env[x].known THEN ClifOf(t) ELSE "I64"
<1>1. c \in Clif
  BY ClifOfType DEF Clif
<1>2. Operand(Guess(Unknown, c))
  BY DEF CallMethod
<1> HIDE DEF c
<1>3. QED
  BY <1>1, <1>2, GuessKeeps DEF Typed, Kind

-----------------------------------------------------------------------------
(* Operations: what they make of good operands is good again. *)
LEMMA ResultKeeps ==
  ASSUME TypesInv, NEW n \in Nat, Has(n), NEW e \in Entry,
         NEW isValid \in BOOLEAN, Operation(n, e, isValid),
         ~e.binop /\ ~e.arg => isValid /\ \A i \in 0 .. n - 1 : Arg(i).ok,
         isValid /\ (\A i \in 0 .. n - 1 : Arg(i).ok) /\ ~e.binop
           => /\ Typed(e.ty, e.clif)
              /\ ~e.guess => e.inf = e.clif
  PROVE  TypesInv'
<1> DEFINE ok == isValid /\ \A i \in 0 .. n - 1 : Arg(i).ok
<1>1. ok \in BOOLEAN
  OBVIOUS
<1>2. /\ ~e.binop /\ ~e.arg => ok
      /\ ok /\ ~e.binop => Typed(e.ty, e.clif) /\ (~e.guess => e.inf = e.clif)
  OBVIOUS
<1> HIDE DEF ok
<1>3. Good([e EXCEPT !.ok = ok])
  BY <1>1, <1>2 DEF Good, Entry
<1>4. Good([e EXCEPT !.ok = isValid /\ \A i \in 0 .. n - 1 : Arg(i).ok])
  BY <1>3 DEF ok
<1>5. QED
  BY <1>4, OperationKeeps

LEMMA NotKeeps == ASSUME Tame, TypesInv, Not PROVE TypesInv'
<1> DEFINE a == Arg(0)
<1>1. a \in Entry /\ Good(a)
  BY ArgGood DEF Not
<1>2. ~a.binop /\ ~a.arg /\ a.ty = "Bool"
  BY UncheckedFree DEF Not
<1>3. a.ok /\ a.clif = "I8"
  BY <1>1, <1>2 DEF Good, Typed, Unknown, ClifOf
<1>4. Guess("Bool", "I8") \in Entry
  BY <1>1, <1>2, Plain DEF Entry, Clif
<1>5. Operation(1, Guess("Bool", "I8"), TRUE)
  BY <1>3 DEF Not
<1>6. \A i \in 0 .. 1 - 1 : Arg(i).ok
  BY <1>3
<1>7. Typed("Bool", "I8")
  BY DEF Typed, ClifOf
<1>8. QED
  BY <1>4, <1>5, <1>6, <1>7, ResultKeeps DEF Guess, Expr, Not

LEMMA NegKeeps == ASSUME Tame, TypesInv, Neg PROVE TypesInv'
<1> DEFINE a == Arg(0)
<1>1. a \in Entry /\ Good(a)
  BY ArgGood DEF Neg
<1>2. ~a.binop /\ ~a.arg /\ a.inf = a.clif
  BY UncheckedFree, ConvertsExactly DEF Neg
<1>3. a.ok /\ Typed(a.ty, a.clif)
  BY <1>1, <1>2 DEF Good
<1>4. Guess(a.ty, a.clif) \in Entry
  BY <1>1, Plain DEF Entry
<1>5. Operation(1, Guess(a.ty, a.clif), TRUE)
  BY <1>2 DEF Neg
<1>6. \A i \in 0 .. 1 - 1 : Arg(i).ok
  BY <1>3
<1> HIDE DEF a
<1>7. QED
  BY <1>3, <1>4, <1>5, <1>6, ResultKeeps DEF Guess, Expr, Neg

(* What a call takes, its arguments in the order they are written. *)
LEMMA ArgsGood ==
  ASSUME TypesInv, NEW n \in Nat, Has(n)
  PROVE  /\ Args(n) \in Seq(Entry) /\ Len(Args(n)) = n
         /\ \A i \in 1 .. n : Args(n)[i] = Arg(n - i) /\ Args(n)[i] \in Entry /\ Good(Args(n)[i])
<1>1. ASSUME NEW i \in 1 .. n PROVE Arg(n - i) \in Entry /\ Good(Arg(n - i))
  <2>1. n - i \in 0 .. n - 1
    OBVIOUS
  <2>2. QED
    BY <2>1, ArgGood
<1>2. /\ Args(n) \in [1 .. n -> Entry]
      /\ \A i \in 1 .. n : Args(n)[i] = Arg(n - i)
  BY <1>1 DEF Args
<1>3. Args(n) \in Seq(Entry) /\ Len(Args(n)) = n
  BY <1>2
<1>4. QED
  BY <1>1, <1>2, <1>3

LEMMA CallFunctionKeeps ==
  ASSUME Tame, TypesInv, NEW sig \in Sigs, NEW n \in Nat, CallFunction(sig, n)
  PROVE  TypesInv'
<1> DEFINE a == Args(n)
           e == Call(sig, a)
           v == Takes(sig, a)
<1>0. Has(n) /\ n = Len(sig.params)
  BY DEF CallFunction, Tame
<1>1. /\ a \in Seq(Entry) /\ Len(a) = n
      /\ \A i \in 1 .. n : a[i] = Arg(n - i) /\ a[i] \in Entry /\ Good(a[i])
  BY <1>0, ArgsGood
<1>2. ASSUME NEW i \in 1 .. n
      PROVE  ~a[i].binop /\ ~a[i].arg /\ ~(a[i].ty = Unknown /\ a[i].clif # ClifOf(sig.params[i]))
  <2>1. Unchecked(a[i], /\ i <= Len(sig.params) /\ a[i].ty = Unknown
                        /\ a[i].clif # ClifOf(sig.params[i]))
    BY DEF CallFunction
  <2>2. i <= Len(sig.params)
    BY <1>0
  <2> HIDE DEF a
  <2>3. QED
    BY <2>1, <2>2, UncheckedFree
<1>3. \A i \in 1 .. n : a[i].ok /\ Typed(a[i].ty, a[i].clif)
  BY <1>1, <1>2 DEF Good
<1>4. sig.params \in Seq(Type) /\ sig.ret \in Type /\ sig.static \in BOOLEAN
  BY SigAssumption
<1>5. /\ e \in Entry /\ ~e.binop /\ ~e.guess
      /\ e.arg = ArgFlag(sig, a)
      /\ e.ty = sig.ret /\ e.inf = ClifOf(sig.ret) /\ e.clif = ClifOf(sig.ret)
  <2>1. ArgFlag(sig, a) \in BOOLEAN
    BY DEF ArgFlag
  <2>2. Expr(sig.ret, ClifOf(sig.ret), ClifOf(sig.ret)) \in Entry
    BY <1>4, ClifOfType, Plain
  <2> HIDE DEF a
  <2>3. QED
    BY <1>4, <2>1, <2>2 DEF Call, Expr, Entry
<1>6. ~e.arg => v
  <2> SUFFICES ASSUME ~ArgFlag(sig, a)
               PROVE  Takes(sig, a)
    BY <1>5
  <2>1. ASSUME NEW i \in 1 .. n PROVE a[i].clif = ClifOf(sig.params[i])
    <3>1. i <= Len(sig.params) /\ sig.params[i] \in Type
      BY <1>0, <1>4, ElementOfSeq
    <3>2. ~Differ(a[i].ty, sig.params[i])
      BY <1>1, <3>1 DEF ArgFlag
    <3> HIDE DEF a
    <3>3. QED
      BY <1>2, <1>3, <3>1, <3>2, ClifOfType DEF Differ, Typed
  <2> HIDE DEF a
  <2>2. QED
    BY <1>0, <1>1, <2>1 DEF Takes
<1>7. Operation(n, e, v)
  BY DEF CallFunction
<1>8. \A i \in 0 .. n - 1 : Arg(i).ok
  <2>1. ASSUME NEW i \in 0 .. n - 1 PROVE Arg(i).ok
    <3>1. n - i \in 1 .. n /\ n - (n - i) = i
      OBVIOUS
    <3> HIDE DEF a
    <3>2. QED
      BY <1>1, <1>3, <3>1
  <2>2. QED
    BY <2>1
<1>9. Typed(e.ty, e.clif)
  BY <1>5 DEF Typed
<1> HIDE DEF e, v, a
<1>10. v \in BOOLEAN
  BY DEF v, Takes
<1>11. QED
  BY <1>0, <1>5, <1>6, <1>7, <1>8, <1>9, <1>10, ResultKeeps

LEMMA StructLitKeeps == ASSUME Tame, TypesInv, StructLit PROVE TypesInv'
<1> DEFINE a == Arg(0)
           e == [Expr(Struct, "I64", "I64") EXCEPT !.known = TRUE]
<1>1. a \in Entry /\ Good(a)
  BY ArgGood DEF StructLit
<1>2. ~a.binop /\ ~a.arg /\ a.inf = a.clif
  BY UncheckedFree, ConvertsExactly DEF StructLit
<1>3. a.ok /\ a.clif \in Clif
  BY <1>1, <1>2 DEF Good, Entry
<1>4. CoerceValid(a.clif, a.inf, "F64") /\ Coerced(a.clif, a.inf, "F64") = "F64"
  BY <1>2, <1>3, TrueConversion DEF Clif
<1>5. Operation(1, e, TRUE) /\ Has(1)
  BY <1>4 DEF StructLit
<1>6. e \in Entry /\ e.inf = e.clif /\ Typed(e.ty, e.clif)
  BY DEF Expr, Entry, Clif, Kind, Typed, ClifOf, Struct
<1>7. \A i \in 0 .. 1 - 1 : Arg(i).ok
  BY <1>3
<1> HIDE DEF e
<1>8. QED
  BY <1>5, <1>6, <1>7, ResultKeeps

(* Both operands are converted to the dominant of their types. *)
LEMMA OperandsConvert ==
  ASSUME NEW l \in Entry, NEW r \in Entry, l.inf = l.clif, r.inf = r.clif
  PROVE  /\ OperandsOf(l, r).to = Dominant(l.inf, r.inf)
         /\ OperandsOf(l, r).l = OperandsOf(l, r).to
         /\ OperandsOf(l, r).r = OperandsOf(l, r).to
         /\ OperandsOf(l, r).valid
         /\ OperandsOf(l, r).to \in {l.clif, r.clif}
<1>1. l.clif \in Clif /\ r.clif \in Clif
  BY DEF Entry
<1>2. Dominant(l.inf, r.inf) \in {l.clif, r.clif}
  BY <1>1 DEF Dominant, Clif
<1>3. Dominant(l.inf, r.inf) \in Clif
  BY <1>1, <1>2
<1>4. QED
  BY <1>1, <1>2, <1>3, TrueConversion DEF OperandsOf

LEMMA BinaryKeeps ==
  ASSUME Tame, TypesInv, NEW op \in Ops, Binary(op)
  PROVE  TypesInv'
<1> DEFINE l == Arg(1)
           r == Arg(0)
           e == BinOp(op, l, r)
           o == OperandsOf(l, r)
<1>1. l \in Entry /\ Good(l) /\ r \in Entry /\ Good(r)
  BY ArgGood DEF Binary
<1>2. /\ ~l.arg /\ ~r.arg /\ l.inf = l.clif /\ r.inf = r.clif
      /\ op = "logic" => l.ty = "Bool" /\ r.ty = "Bool"
      /\ l.ty = Unknown \/ r.ty = Unknown => r.clif = l.clif
      /\ op = "mod" => l.clif # "F64" /\ r.clif # "F64"
  <2>1. ASSUME NEW n \in 0 .. 1
        PROVE  /\ ~Arg(n).arg /\ Arg(n).inf = Arg(n).clif
               /\ op = "logic" => Arg(n).ty = "Bool"
               /\ Arg(n).ty = Unknown => Arg(0).clif = Arg(1).clif
               /\ op = "mod" => Arg(n).clif # "F64"
    <3>1. Converts(Arg(n)) /\ (op = "mod" => Arg(n).clif # "F64")
      BY DEF Binary, Tame
    <3>2. Unchecked([Arg(n) EXCEPT !.binop = FALSE],
            \/ op = "logic" /\ Arg(n).ty # "Bool"
            \/ Arg(n).ty = Unknown /\ Arg(0).clif # Arg(1).clif)
      BY DEF Binary
    <3>3. /\ ~[Arg(n) EXCEPT !.binop = FALSE].arg
          /\ ~(\/ op = "logic" /\ Arg(n).ty # "Bool"
               \/ Arg(n).ty = Unknown /\ Arg(0).clif # Arg(1).clif)
      BY <3>2, UncheckedFree
    <3>4. Arg(n) \in Entry
      BY ArgGood DEF Binary
    <3>5. QED
      BY <3>1, <3>3, <3>4, ConvertsExactly DEF Entry
  <2>2. 0 \in 0 .. 1 /\ 1 \in 0 .. 1
    OBVIOUS
  <2>3. QED
    BY <2>1, <2>2
<1>3. /\ o.to = Dominant(l.inf, r.inf) /\ o.l = o.to /\ o.r = o.to /\ o.valid
      /\ o.to \in {l.clif, r.clif}
  BY <1>1, <1>2, OperandsConvert
<1>4. l.clif \in Clif /\ r.clif \in Clif /\ o.to \in Clif
  BY <1>1, <1>3 DEF Entry
<1>5. OpValid(op, l, r)
  BY <1>2, <1>3, <1>4 DEF OpValid, Ints, Clif
<1>6. BinOpFlag(l, r) \in BOOLEAN
  BY <1>1 DEF BinOpFlag, Differ, Entry
<1>7. l.ty \in Kind /\ l.guess \in BOOLEAN /\ r.guess \in BOOLEAN
      /\ l.binop \in BOOLEAN /\ r.binop \in BOOLEAN
  BY <1>1 DEF Entry
<1> DEFINE arith == op \in {"arith", "mod"}
           ty == IF arith THEN l.ty ELSE "Bool"
           inf == IF ~arith THEN "I8" ELSE IF "F64" \in {l.inf, r.inf} THEN "F64" ELSE l.inf
           clif == IF op = "compare" THEN "I8" ELSE o.l
<1>8. inf \in Clif /\ clif \in Clif /\ ty \in Kind
  BY <1>2, <1>3, <1>4, <1>7 DEF Clif, Kind, Primitive
<1>9. e = [Expr(ty, inf, clif) EXCEPT !.binop = BinOpFlag(l, r),
                                      !.guess = arith /\ (l.guess \/ r.guess)]
  BY DEF BinOp
<1>10. /\ e \in Entry
       /\ e.binop = BinOpFlag(l, r) /\ e.arg = FALSE
       /\ e.guess = (arith /\ (l.guess \/ r.guess))
       /\ e.ty = ty /\ e.inf = inf /\ e.clif = clif
  <2> HIDE DEF e, ty, inf, clif, l, r
  <2>1. (arith /\ (l.guess \/ r.guess)) \in BOOLEAN
    OBVIOUS
  <2>2. Expr(ty, inf, clif) \in Entry
    BY <1>8, Plain
  <2> HIDE DEF arith
  <2>3. QED
    BY <1>6, <1>9, <2>1, <2>2 DEF Expr, Entry
<1>11. ~e.binop => l.ok /\ r.ok
  BY <1>1, <1>2, <1>7, <1>10 DEF Good, BinOpFlag
<1>12. ~e.binop => Typed(e.ty, e.clif) /\ (~e.guess => e.inf = e.clif)
  <2> SUFFICES ASSUME ~e.binop
               PROVE  Typed(e.ty, e.clif) /\ (~e.guess => e.inf = e.clif)
    OBVIOUS
  <2>1. ~Differ(l.ty, r.ty) /\ ~l.binop /\ ~r.binop
    BY <1>7, <1>10 DEF BinOpFlag
  <2>2. Typed(l.ty, l.clif) /\ Typed(r.ty, r.clif)
    BY <1>1, <1>11, <2>1 DEF Good
  <2>3. l.clif = r.clif
    BY <1>2, <2>1, <2>2 DEF Differ, Typed
  <2>4. o.l = l.clif
    BY <1>3, <2>3
  <2>5. CASE arith
    <3>1. e.ty = l.ty /\ e.clif = l.clif /\ e.inf = l.clif
      BY <1>2, <1>10, <2>3, <2>4, <2>5
    <3>2. QED
      BY <2>2, <3>1
  <2>6. CASE op = "compare"
    BY <1>10, <2>6 DEF Typed, ClifOf
  <2>7. CASE op = "logic"
    <3>1. l.clif = "I8"
      BY <1>2, <2>2, <2>7 DEF Typed, ClifOf, Unknown
    <3>2. e.ty = "Bool" /\ e.clif = "I8" /\ e.inf = "I8"
      BY <1>10, <2>4, <2>7, <3>1
    <3>3. QED
      BY <3>2 DEF Typed, ClifOf
  <2>8. QED
    BY <2>5, <2>6, <2>7 DEF Ops
<1>13. Operation(2, e, TRUE) /\ Has(2)
  BY <1>5 DEF Binary
<1>14. ~e.binop => \A i \in 0 .. 2 - 1 : Arg(i).ok
  BY <1>11
<1> HIDE DEF e
<1>15. QED
  BY <1>10, <1>12, <1>13, <1>14, ResultKeeps

(* Blocks with a value: every arm hands the merge block what it expects. *)
LEMMA MergedKeeps ==
  ASSUME TypesInv, Has(3), NEW first \in Clif, NEW isValid \in BOOLEAN,
         Operation(3, Merged(first), isValid), isValid,
         \A n \in 0 .. 2 : ~Arg(n).binop /\ ~Arg(n).arg
  PROVE  TypesInv'
<1>1. \A n \in 0 .. 3 - 1 : Arg(n).ok
  <2>1. ASSUME NEW n \in 0 .. 3 - 1 PROVE Arg(n).ok
    <3>1. Good(Arg(n))
      BY ArgGood
    <3>2. QED
      BY <3>1 DEF Good
  <2>2. QED
    BY <2>1
<1>2. Merged(first) \in Entry
  BY Plain DEF Merged, Kind
<1>3. Merged(first).ty = Unknown /\ Merged(first).guess
  BY DEF Merged, Guess, Expr
<1>4. QED
  BY <1>1, <1>2, <1>3, ResultKeeps DEF Typed

LEMMA IfExprKeeps == ASSUME Tame, TypesInv, IfExpr PROVE TypesInv'
<1>1. Has(3) /\ Arms("I64") /\ Converts(Arg(2))
  BY DEF IfExpr
<1>2. \A n \in 0 .. 2 : ~Arg(n).binop /\ ~Arg(n).arg /\ Arg(0).clif = Arg(1).clif
  BY <1>1, UncheckedFree DEF Arms
<1>3. Arg(1).clif = "I64" /\ Fit("I64")
  BY <1>1, <1>2 DEF Arms, Fit, Tame
<1>4. Condition(Arg(2))
  BY <1>1, ArgGood, ConvertsExactly, TrueCondition
<1>5. Operation(3, Merged("I64"), TRUE)
  BY <1>3, <1>4 DEF IfExpr
<1>6. QED
  BY <1>1, <1>2, <1>5, MergedKeeps DEF Clif

LEMMA MatchExprKeeps ==
  ASSUME Tame, TypesInv, NEW t \in Basic, MatchExpr(t)
  PROVE  TypesInv'
<1>1. Has(3) /\ Arms(Arg(1).inf) /\ Unchecked(Arg(2), Arg(2).clif # ClifOf(t))
  BY DEF MatchExpr
<1>2. \A n \in 0 .. 2 : ~Arg(n).binop /\ ~Arg(n).arg /\ Arg(0).clif = Arg(1).clif
  BY <1>1, UncheckedFree DEF Arms
<1>3. Fit(Arg(1).inf)
  BY <1>1, <1>2 DEF Arms, Fit, Tame
<1>4. Arg(2).clif = ClifOf(t)
  BY <1>1, UncheckedFree
<1>5. Operation(3, Merged(Arg(1).inf), TRUE)
  BY <1>3, <1>4 DEF MatchExpr
<1>6. Arg(1).inf \in Clif
  BY <1>1, ArgGood DEF Entry
<1>7. QED
  BY <1>1, <1>2, <1>5, <1>6, MergedKeeps

-----------------------------------------------------------------------------
(* Statements. *)
LEMMA BindKeeps == ASSUME Tame, TypesInv, NEW x \in Names, Bind(x) PROVE TypesInv'
<1> DEFINE a == Arg(0)
           v == [ty |-> a.ty, clif |-> a.inf, known |-> a.known]
           new == [env EXCEPT ![x] = v]
<1>1. Has(1) /\ a \in Entry /\ Good(a) /\ a.inf = a.clif /\ ~flagged
  BY ArgGood, ConvertsExactly DEF Bind, Has
<1>2. v \in Local /\ v.ty = a.ty /\ v.clif = a.clif
  BY <1>1 DEF Entry, Local
<1>3. ~(a.binop \/ a.arg) => a.ok /\ Typed(v.ty, v.clif)
  BY <1>1, <1>2 DEF Good
<1>4. Statement(a.binop \/ a.arg, TRUE, new)
  BY <1>1 DEF Bind
<1> HIDE DEF v
<1>5. new \in [Names -> Local]
  BY <1>2 DEF TypesInv
<1>6. Typed(v.ty, v.clif) => GoodEnv(new)
  BY <1>1 DEF TypesInv, GoodEnv
<1> HIDE DEF new
<1>7. (a.binop \/ a.arg) \in BOOLEAN
  OBVIOUS
<1>8. QED
  BY <1>1, <1>3, <1>4, <1>5, <1>6, <1>7, StatementKeeps

LEMMA AssignKeeps == ASSUME Tame, TypesInv, NEW x \in Names, Assign(x) PROVE TypesInv'
<1> DEFINE a == Arg(0)
           new == [env EXCEPT ![x].ty = a.ty]
<1>1. Has(1) /\ a \in Entry /\ Good(a) /\ ~flagged /\ env[x] # Absent
  BY ArgGood DEF Assign, Has, Tame
<1>2. /\ env[x] \in [ty : Kind, clif : Clif, known : BOOLEAN]
      /\ Typed(env[x].ty, env[x].clif)
  BY <1>1, LocalKnown
<1>3. /\ ~a.arg /\ a.ty = env[x].ty
      /\ a.ty = Unknown => a.clif = env[x].clif
  <2>1. Unchecked([a EXCEPT !.binop = FALSE],
          /\ env[x] # Absent
          /\ \/ a.ty # env[x].ty
             \/ a.ty = Unknown /\ a.clif # env[x].clif)
    BY DEF Assign
  <2>2. /\ ~[a EXCEPT !.binop = FALSE].arg
        /\ ~(env[x] # Absent /\ (a.ty # env[x].ty \/ (a.ty = Unknown /\ a.clif # env[x].clif)))
    BY <2>1, UncheckedFree
  <2>3. a.ty = env[x].ty /\ (a.ty = Unknown => a.clif = env[x].clif)
    BY <1>1, <2>2
  <2> HIDE DEF a
  <2>4. ~a.arg
    BY <1>1, <2>2 DEF Entry
  <2>5. QED
    BY <2>3, <2>4
<1>4. new = env
  BY <1>2, <1>3 DEF TypesInv
<1>5. ~a.binop => a.ok /\ a.clif = env[x].clif
  BY <1>1, <1>2, <1>3 DEF Good, Typed
<1>6. Statement(a.binop, a.clif = env[x].clif, env)
  BY <1>1, <1>4 DEF Assign
<1>7. env \in [Names -> Local] /\ GoodEnv(env)
  BY <1>1 DEF TypesInv
<1>8. a.binop \in BOOLEAN /\ (a.clif = env[x].clif) \in BOOLEAN
  BY <1>1 DEF Entry
<1> HIDE DEF a
<1>9. QED
  BY <1>1, <1>5, <1>6, <1>7, <1>8, StatementKeeps DEF a

(* The other statements leave the locals alone. *)
LEMMA OtherKeeps ==
  ASSUME TypesInv, Has(1), NEW objects \in BOOLEAN, Statement(objects, TRUE, env),
         ~objects => ~Arg(0).binop /\ ~Arg(0).arg
  PROVE  TypesInv'
<1>1. Good(Arg(0)) /\ ~flagged
  BY ArgGood DEF Has
<1>2. ~objects => Arg(0).ok
  BY <1>1 DEF Good
<1>3. env \in [Names -> Local] /\ GoodEnv(env)
  BY <1>1 DEF TypesInv
<1>4. QED
  BY <1>2, <1>3, StatementKeeps

LEMMA ReturnKeeps == ASSUME Tame, TypesInv, Return PROVE TypesInv'
<1> DEFINE e == Arg(0)
<1>1. Has(1) /\ e \in Entry /\ e.inf = e.clif
  BY ArgGood, ConvertsExactly DEF Return
<1>2. CoerceValid(e.clif, e.inf, ClifOf(ret))
      /\ Coerced(e.clif, e.inf, ClifOf(ret)) = ClifOf(ret)
  BY <1>1, ClifOfType, TrueConversion DEF Entry, TypesInv
<1>3. Statement(e.binop \/ e.arg \/ Differ(ret, e.ty), TRUE, env)
  BY <1>2 DEF Return
<1>4. QED
  BY <1>1, <1>3, OtherKeeps

LEMMA ExprStmtKeeps == ASSUME Tame, TypesInv, ExprStmt PROVE TypesInv'
<1>1. Has(1) /\ Unchecked(Arg(0), FALSE) /\ Statement(FALSE, TRUE, env)
  BY DEF ExprStmt
<1>2. QED
  BY <1>1, UncheckedFree, OtherKeeps

LEMMA IfConditionKeeps == ASSUME Tame, TypesInv, IfCondition PROVE TypesInv'
<1>1. /\ Has(1) /\ Converts(Arg(0)) /\ Unchecked(Arg(0), FALSE)
      /\ Statement(FALSE, Condition(Arg(0)), env)
  BY DEF IfCondition
<1>2. Condition(Arg(0))
  BY <1>1, ArgGood, ConvertsExactly, TrueCondition
<1>3. QED
  BY <1>1, <1>2, UncheckedFree, OtherKeeps

LEMMA SetFieldKeeps == ASSUME Tame, TypesInv, SetField PROVE TypesInv'
<1> DEFINE e == Arg(0)
<1>1. Has(1) /\ e \in Entry /\ e.inf = e.clif /\ ~e.binop /\ ~e.arg
  <2>1. Has(1) /\ Converts(e) /\ Unchecked(e, FALSE)
    BY DEF SetField
  <2>2. e \in Entry
    BY <2>1, ArgGood
  <2>3. QED
    BY <2>1, <2>2, ConvertsExactly, UncheckedFree
<1>2. CoerceValid(e.clif, e.inf, "F64") /\ Coerced(e.clif, e.inf, "F64") = "F64"
  BY <1>1, TrueConversion DEF Entry, Clif
<1>3. Statement(FALSE, TRUE, env)
  BY <1>2 DEF SetField
<1>4. QED
  BY <1>1, <1>3, OtherKeeps

-----------------------------------------------------------------------------
LEMMA NextTypes == ASSUME Tame, TypesInv, [Next]_typeVars PROVE TypesInv'
<1>1. CASE Next
  <2>1. CASE \E t \in Basic : Lit(t) \/ MatchExpr(t)
    BY <2>1, LitKeeps, MatchExprKeeps
  <2>2. CASE \E x \in Names : Ident(x) \/ Bind(x) \/ Assign(x)
    BY <2>2, IdentKeeps, BindKeeps, AssignKeeps
  <2>3. CASE \E t \in Type : GetSelfField(t)
    BY <2>3, GetSelfFieldKeeps
  <2>4. CASE \E x \in Names, t \in Type : GetField(x, t) \/ CallMethod(x, t)
    BY <2>4, GetFieldKeeps, CallMethodKeeps
  <2>5. CASE \E op \in Ops : Binary(op)
    BY <2>5, BinaryKeeps
  <2>6. CASE \E sig \in Sigs, n \in 0 .. MaxStack : CallFunction(sig, n)
    BY <2>6, CallFunctionKeeps
  <2>7. CASE \/ Not \/ Neg \/ StructLit \/ IfExpr \/ Return \/ ExprStmt
             \/ IfCondition \/ SetField
    BY <2>7, NotKeeps, NegKeeps, StructLitKeeps, IfExprKeeps, ReturnKeeps,
       ExprStmtKeeps, IfConditionKeeps, SetFieldKeeps
  <2>8. QED
    BY <1>1, <2>1, <2>2, <2>3, <2>4, <2>5, <2>6, <2>7 DEF Next
<1>2. CASE UNCHANGED typeVars
  BY <1>2 DEF typeVars, TypesInv, GoodEnv
<1>3. QED
  BY <1>1, <1>2

(* What the checker accepts compiles, whatever the functions, the nesting  *)
(* of the expressions and their types: an instruction, an argument, an arm *)
(* or a variable of the wrong type is always behind an E-TYP-001. Tame:    *)
(* calls have as many arguments as parameters and names are declared,      *)
(* which no rule checks, and none of the other forms it names occurs.      *)
THEOREM AcceptedCode ==
  ASSUME Tame
  PROVE  Spec => []AcceptedCompiles
<1>1. TypesInv => AcceptedCompiles
  BY DEF TypesInv, AcceptedCompiles
<1>2. Init => TypesInv
  BY InitTypes
<1>3. TypesInv /\ [Next]_typeVars => TypesInv'
  BY NextTypes
<1>4. QED
  BY <1>1, <1>2, <1>3, PTL DEF Spec

(* The checker's type, the back end's and the value's are one wherever     *)
(* neither is in error and the back end does not guess.                    *)
THEOREM InferencesAgree ==
  ASSUME Tame
  PROVE  Spec => []TypesAgree
<1>1. TypesInv => TypesAgree
  <2> SUFFICES ASSUME TypesInv, NEW i \in DOMAIN stack,
                      stack[i].ok, ~stack[i].binop, ~stack[i].guess
               PROVE  /\ stack[i].inf = stack[i].clif
                      /\ stack[i].ty # Unknown => stack[i].inf = ClifOf(stack[i].ty)
    BY DEF TypesAgree
  <2>1. i \in 1 .. Len(stack)
    BY DEF TypesInv
  <2>2. QED
    BY <2>1 DEF TypesInv, Good, Typed
<1>2. Init => TypesInv
  BY InitTypes
<1>3. TypesInv /\ [Next]_typeVars => TypesInv'
  BY NextTypes
<1>4. QED
  BY <1>1, <1>2, <1>3, PTL DEF Spec
=====
