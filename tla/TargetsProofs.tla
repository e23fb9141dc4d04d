---------------------------- MODULE TargetsProofs ----------------------------
(***************************************************************************)
(* Proofs about Targets, for bodies of any length and nesting, any names,  *)
(* fields and literals, outside the forms with two meanings.  Three of     *)
(* those are about names: no local is a reserved word of JavaScript or     *)
(* hides the function or the struct of the body, and no match reads a      *)
(* local that is called like the constant the emitter binds around it.     *)
(***************************************************************************)
EXTENDS Targets, SequenceTheorems, WellFoundedInduction, TLAPS

IsSeq(s) == \E T : s \in Seq(T)

LEMMA FlattenTwo ==
  ASSUME NEW a, NEW b
  PROVE  FlattenSeq(<<a, b>>) = a \o b
<1> DEFINE s == <<a, b>>
           F(h) == h = [i \in 1 .. Len(s) |-> IF i = 1 THEN s[i] ELSE h[i - 1] \o s[i]]
           g == [i \in 1 .. 2 |-> IF i = 1 THEN a ELSE a \o b]
           f == CHOOSE h : F(h)
<1>1. Len(s) = 2 /\ s[1] = a /\ s[2] = b
  OBVIOUS
<1>2. F(g)
  <2>1. \A i \in 1 .. 2 : i = 1 \/ (i = 2 /\ i - 1 = 1)
    OBVIOUS
  <2>2. g[1] = a
    OBVIOUS
  <2>3. QED
    BY <1>1, <2>1, <2>2
<1>3. F(f)
  BY <1>2
<1>4. FlattenSeq(s) = f[Len(s)]
  BY <1>1 DEF FlattenSeq
<1>5. f[1] = a /\ f[2] = a \o b
  <2>1. f = [i \in 1 .. Len(s) |-> IF i = 1 THEN s[i] ELSE f[i - 1] \o s[i]]
    BY <1>3
  <2> HIDE DEF f, F, s, g
  <2>2. f[1] = a
    BY <1>1, <2>1
  <2>3. 2 - 1 = 1 /\ 2 \in 1 .. Len(s) /\ 2 # 1
    BY <1>1
  <2>4. f[2] = IF 2 = 1 THEN s[2] ELSE f[2 - 1] \o s[2]
    BY <2>1, <2>3, Zenon
  <2>5. f[2] = a \o b
    BY <1>1, <2>2, <2>3, <2>4, Zenon
  <2>6. QED
    BY <2>2, <2>5
<1>6. QED
  BY <1>1, <1>4, <1>5

LEMMA ChainTwo ==
  ASSUME NEW v, NEW a, NEW b
  PROVE  Chain(v, <<a, b>>) = IF v = a THEN 1 ELSE IF v = b THEN 2 ELSE 3
<1> DEFINE s == [i \in DOMAIN <<a, b>> |-> i]
           op(i, rest) == IF v = <<a, b>>[i] THEN i ELSE rest
           F(h) == h = [S \in SUBSET {1, 2} |->
                          IF S = {} THEN 3 ELSE op(s[Min(S)], h[S \ {Min(S)}])]
           f == CHOOSE h : F(h)
<1>1. DOMAIN s = {1, 2} /\ s[1] = 1 /\ s[2] = 2 /\ Len(<<a, b>>) + 1 = 3
  OBVIOUS
<1>2. Chain(v, <<a, b>>) = f[{1, 2}]
  BY <1>1 DEF Chain, FoldRight, MapThenFoldSet
<1>8. /\ {1} \ {1} = {} /\ {2} \ {2} = {} /\ {1, 2} \ {1} = {2} /\ {1} # {} /\ {2} # {}
       /\ {1, 2} # {}
  OBVIOUS
<1>3. Min({1, 2}) = 1 /\ Min({2}) = 2
  BY DEF Min
<1> DEFINE g == [S \in SUBSET {1, 2} |->
                  IF 1 \in S /\ v = a THEN 1 ELSE IF 2 \in S /\ v = b THEN 2 ELSE 3]
<1>4. F(g)
  <2>1. \A S \in SUBSET {1, 2} : S = {} \/ S = {1} \/ S = {2} \/ S = {1, 2}
    OBVIOUS
  <2>2. Min({1}) = 1
    BY DEF Min
  <2>3. /\ g[{}] = 3 /\ g[{1}] = IF v = a THEN 1 ELSE 3
        /\ g[{2}] = IF v = b THEN 2 ELSE 3
        /\ g[{1, 2}] = IF v = a THEN 1 ELSE IF v = b THEN 2 ELSE 3
    OBVIOUS
  <2>4. ASSUME NEW S \in SUBSET {1, 2}
        PROVE  g[S] = IF S = {} THEN 3 ELSE op(s[Min(S)], g[S \ {Min(S)}])
    <3> HIDE DEF g, s
    <3>1. CASE S = {}
      BY <2>3, <3>1
    <3>2. CASE S = {1}
      BY <1>1, <1>8, <2>2, <2>3, <3>2
    <3>3. CASE S = {2}
      BY <1>1, <1>8, <1>3, <2>3, <3>3
    <3>4. CASE S = {1, 2}
      BY <1>1, <1>8, <1>3, <2>3, <3>4
    <3>5. QED
      BY <2>1, <3>1, <3>2, <3>3, <3>4
  <2>5. QED
    BY <2>4
<1>5. F(f)
  BY <1>4
<1>6. f[{1, 2}] = IF v = a THEN 1 ELSE IF v = b THEN 2 ELSE 3
  <2>1. f = [S \in SUBSET {1, 2} |->
              IF S = {} THEN 3 ELSE op(s[Min(S)], f[S \ {Min(S)}])]
    BY <1>5
  <2> HIDE DEF f, s
  <2>2. f[{}] = 3
    BY <2>1
  <2>3. f[{2}] = IF v = b THEN 2 ELSE 3
    <3>1. f[{2}] = op(s[Min({2})], f[{2} \ {Min({2})}])
      BY <1>8, <2>1
    <3>2. QED
      BY <1>1, <1>8, <1>3, <2>2, <3>1
  <2>4. f[{1, 2}] = op(s[Min({1, 2})], f[{1, 2} \ {Min({1, 2})}])
    BY <1>8, <2>1
  <2>5. QED
    BY <1>1, <1>8, <1>3, <2>3, <2>4
<1>7. QED
  BY <1>2, <1>6

-----------------------------------------------------------------------------
(* What the two targets make of an expression.                             *)
Bools == {<<"bool", 0>>, <<"bool", 1>>}
Plain(v) == v[1] \notin {"bool", "object"} \/ v \in Bools
SameFields(n, j) ==
  /\ n[1] = "struct" /\ j[1] = "object"
  /\ \A f \in ToSet(Fields) : n[2][Position(f)] = j[2][f]
Agree(n, j) == (n = j /\ Plain(n)) \/ SameFields(n, j)

Fits(e) ==
  /\ Agree(e["native"].value, e["js"].value)
  /\ e["native"].calls = e["js"].calls /\ IsSeq(e["js"].calls)

OperandsFit == IsSeq(stack) /\ \A i \in 1 .. Len(stack) : Fits(stack[i])

LEMMA AgreeIsAlike == \A n, j : Agree(n, j) => Alike(n, j)
  BY DEF Agree, Alike, SameFields

LEMMA AgreeInt ==
  \A n, j : Agree(n, j) /\ IsInt(n) /\ IsInt(j) => n = j
  BY DEF Agree, SameFields, IsInt

LEMMA AgreeBool ==
  \A n, j : Agree(n, j) /\ IsBool(n) /\ IsBool(j) => n = j /\ n \in Bools
  BY DEF Agree, SameFields, IsBool, Plain

LEMMA AgreeObject ==
  \A n, j : Agree(n, j) /\ j[1] = "object" => SameFields(n, j)
<1>1. \A v : v \in Bools => v[1] = "bool"
  BY DEF Bools
<1>2. QED
  BY <1>1 DEF Agree, Plain

LEMMA IntsAgree == \A n : Agree(IntOf(n), IntOf(n))
  BY DEF Agree, Plain, IntOf

LEMMA BoolsAgree == \A p : Agree(BoolOf(p), BoolOf(p)) /\ BoolOf(p) \in Bools
  BY DEF Agree, Plain, BoolOf, Bools

LEMMA ConcatIsSeq == \A s, t : IsSeq(s) /\ IsSeq(t) => IsSeq(s \o t)
<1>1. SUFFICES ASSUME NEW S, NEW T, NEW s \in Seq(S), NEW t \in Seq(T)
               PROVE  IsSeq(s \o t)
  BY DEF IsSeq
<1>2. s \in Seq(S \cup T) /\ t \in Seq(S \cup T)
  <2>1. \A i \in 1 .. Len(s) : s[i] \in S
    BY ElementOfSeq
  <2>2. \A i \in 1 .. Len(t) : t[i] \in T
    BY ElementOfSeq
  <2>3. QED
    BY <2>1, <2>2
<1>3. s \o t \in Seq(S \cup T)
  BY <1>2, ConcatProperties
<1>4. QED
  BY <1>3 DEF IsSeq

LEMMA AppendIsSeq ==
  ASSUME NEW s, IsSeq(s), NEW e
  PROVE  /\ IsSeq(Append(s, e)) /\ Len(Append(s, e)) = Len(s) + 1 /\ Len(s) \in Nat
         /\ \A i \in 1 .. Len(s) : Append(s, e)[i] = s[i]
         /\ Append(s, e)[Len(s) + 1] = e
<1>1. PICK S : s \in Seq(S)
  BY DEF IsSeq
<1>2. s \in Seq(S \cup {e})
  <2>1. \A i \in 1 .. Len(s) : s[i] \in S
    BY <1>1, ElementOfSeq
  <2>2. QED
    BY <1>1, <2>1
<1>3. /\ Append(s, e) \in Seq(S \cup {e}) /\ Len(Append(s, e)) = Len(s) + 1
      /\ \A i \in 1 .. Len(s) : Append(s, e)[i] = s[i]
      /\ Append(s, e)[Len(s) + 1] = e
  BY <1>2, AppendProperties
<1>4. Len(s) \in Nat
  BY <1>1, LenProperties
<1>5. QED
  BY <1>3, <1>4 DEF IsSeq

LEMMA PrefixIsSeq ==
  ASSUME NEW s, IsSeq(s), NEW n \in Nat, n <= Len(s)
  PROVE  /\ IsSeq(SubSeq(s, 1, n)) /\ Len(SubSeq(s, 1, n)) = n /\ Len(s) \in Nat
         /\ \A i \in 1 .. n : SubSeq(s, 1, n)[i] = s[i]
<1>1. PICK S : s \in Seq(S)
  BY DEF IsSeq
<1>2. Len(s) \in Nat
  BY <1>1, LenProperties
<1>3. SubSeq(s, 1, n) \in Seq(S) /\ Len(SubSeq(s, 1, n)) = n
  BY <1>1, <1>2
<1>4. \A i \in 1 .. n : SubSeq(s, 1, n)[i] = s[i]
  BY <1>1, <1>2
<1>5. QED
  BY <1>2, <1>3, <1>4 DEF IsSeq

(* An expression that fits leaves the operands fitting. *)
LEMMA PushAsFits ==
  ASSUME OperandsFit, NEW n \in Nat, NEW cost, NEW as, NEW temp, NEW e,
         PushAs(n, cost, as, temp, e),
         n <= Len(stack), Fits(e)
  PROVE  OperandsFit'
<1>1. Len(stack) - n \in Nat /\ Len(stack) - n <= Len(stack) /\ Len(stack) \in Nat
  BY LenProperties DEF OperandsFit, IsSeq
<1>2. PICK m, s : m = Len(stack) - n /\ s = SubSeq(stack, 1, m)
  OBVIOUS
<1>3. IsSeq(s) /\ Len(s) = m /\ \A i \in 1 .. m : s[i] = stack[i]
  BY <1>1, <1>2, PrefixIsSeq DEF OperandsFit
<1>4. stack' = Append(s, e)
  BY <1>2 DEF PushAs, Rest
<1>5. /\ IsSeq(stack') /\ Len(stack') = m + 1
      /\ \A i \in 1 .. m : stack'[i] = s[i]
      /\ stack'[m + 1] = e
  BY <1>3, <1>4, AppendIsSeq
<1>6. ASSUME NEW i \in 1 .. m + 1 PROVE Fits(stack'[i])
  <2>1. CASE i = m + 1
    BY <1>5, <2>1
  <2>2. CASE i # m + 1
    <3>1. i \in 1 .. m /\ i \in 1 .. Len(stack)
      <4>1. m \in Nat /\ m <= Len(stack) /\ Len(stack) \in Nat
        BY <1>1, <1>2
      <4>2. QED
        BY <2>2, <4>1
    <3>2. stack'[i] = stack[i]
      BY <1>3, <1>5, <3>1
    <3>3. QED
      BY <3>1, <3>2 DEF OperandsFit
  <2>3. QED
    BY <2>1, <2>2
<1>7. QED
  BY <1>5, <1>6 DEF OperandsFit, IsSeq

LEMMA PushFits ==
  ASSUME OperandsFit, NEW n \in Nat, NEW cost, NEW e, Push(n, cost, e),
         n <= Len(stack), Fits(e)
  PROVE  OperandsFit'
  BY PushAsFits DEF Push

LEMMA ArgFits ==
  ASSUME OperandsFit, NEW k \in Nat, k < Len(stack)
  PROVE  Fits(Arg(k))
<1>1. Len(stack) - k \in 1 .. Len(stack)
  BY LenProperties DEF OperandsFit, IsSeq
<1>2. QED
  BY <1>1 DEF OperandsFit, Arg

(* The calls of the topmost operands are the same for both targets.        *)
LEMMA SameCallsOf ==
  ASSUME OperandsFit, NEW n \in Nat, n <= Len(stack)
  PROVE  CallsOf(n, "native") = CallsOf(n, "js")
<1>1. ASSUME NEW i \in 1 .. n
      PROVE  Arg(n - i)["native"].calls = Arg(n - i)["js"].calls
  <2>1. n - i \in Nat /\ n - i < Len(stack)
    BY LenProperties DEF OperandsFit, IsSeq
  <2>2. QED
    BY <2>1, ArgFits DEF Fits
<1>2. [i \in 1 .. n |-> Arg(n - i)["native"].calls] = [i \in 1 .. n |-> Arg(n - i)["js"].calls]
  BY <1>1
<1>3. QED
  BY <1>2 DEF CallsOf

LEMMA TwoCalls ==
  ASSUME NEW t
  PROVE  CallsOf(2, t) = Arg(1)[t].calls \o Arg(0)[t].calls
<1>1. [i \in 1 .. 2 |-> Arg(2 - i)[t].calls] = <<Arg(1)[t].calls, Arg(0)[t].calls>>
  OBVIOUS
<1>2. QED
  BY <1>1, FlattenTwo DEF CallsOf

(* Both make the calls of the two topmost operands. *)
LEMMA TwoCallsFit ==
  ASSUME OperandsFit, 2 <= Len(stack)
  PROVE  /\ CallsOf(2, "native") = CallsOf(2, "js") /\ IsSeq(CallsOf(2, "js"))
         /\ Fits(Arg(0)) /\ Fits(Arg(1))
<1>1. Fits(Arg(0)) /\ Fits(Arg(1))
  <2>1. 0 \in Nat /\ 1 \in Nat /\ 0 < Len(stack) /\ 1 < Len(stack)
    BY LenProperties DEF OperandsFit, IsSeq
  <2>2. QED
    BY <2>1, ArgFits
<1>2. QED
  BY <1>1, TwoCalls, SameCallsOf, ConcatIsSeq DEF Fits

LEMMA TargetsAre == Targets = {"native", "js"} /\ "native" \in Targets /\ "js" \in Targets
  BY DEF Targets

(* Operators on two integers. *)
LEMMA SumFits == ASSUME OperandsFit, Sum PROVE OperandsFit'
<1> DEFINE v(t) == IntOf(Arg(1)[t].value[2] + Arg(0)[t].value[2])
           e == [t \in Targets |-> Outcome(v(t), CallsOf(2, t))]
<1>1. 2 <= Len(stack) /\ Push(2, 0, e) /\ Ints2("native") /\ Ints2("js")
  BY TargetsAre DEF Sum, Has, Operation
<1>2. /\ CallsOf(2, "native") = CallsOf(2, "js") /\ IsSeq(CallsOf(2, "js"))
      /\ Fits(Arg(0)) /\ Fits(Arg(1))
  BY <1>1, TwoCallsFit
<1>3. /\ Arg(0)["native"].value = Arg(0)["js"].value
      /\ Arg(1)["native"].value = Arg(1)["js"].value
  BY <1>1, <1>2, AgreeInt DEF Fits, Ints2
<1>4. v("native") = v("js") /\ Agree(v("js"), v("js"))
  BY <1>3, IntsAgree
<1> HIDE DEF v
<1>5. Fits(e)
  BY <1>2, <1>4, TargetsAre DEF Fits, Outcome
<1> HIDE DEF e
<1>6. QED
  BY <1>1, <1>5, PushFits

LEMMA LessFits == ASSUME OperandsFit, Less PROVE OperandsFit'
<1> DEFINE v(t) == BoolOf(Arg(1)[t].value[2] < Arg(0)[t].value[2])
           e == [t \in Targets |-> Outcome(v(t), CallsOf(2, t))]
<1>1. 2 <= Len(stack) /\ Push(2, 0, e) /\ Ints2("native") /\ Ints2("js")
  BY TargetsAre DEF Less, Has, Operation
<1>2. /\ CallsOf(2, "native") = CallsOf(2, "js") /\ IsSeq(CallsOf(2, "js"))
      /\ Fits(Arg(0)) /\ Fits(Arg(1))
  BY <1>1, TwoCallsFit
<1>3. /\ Arg(0)["native"].value = Arg(0)["js"].value
      /\ Arg(1)["native"].value = Arg(1)["js"].value
  BY <1>1, <1>2, AgreeInt DEF Fits, Ints2
<1>4. v("native") = v("js") /\ Agree(v("js"), v("js"))
  BY <1>3, BoolsAgree
<1> HIDE DEF v
<1>5. Fits(e)
  BY <1>2, <1>4, TargetsAre DEF Fits, Outcome
<1> HIDE DEF e
<1>6. QED
  BY <1>1, <1>5, PushFits

(* Where one integer divides the other both targets give the quotient.     *)
LEMMA DivisionFits == ASSUME Forms = {}, OperandsFit, Division PROVE OperandsFit'
<1> DEFINE w(t) == <<Arg(1)[t].value[2], Arg(0)[t].value[2]>>
           v(t) == Quotient(t, w(t))
           e == [t \in Targets |-> Outcome(v(t), CallsOf(2, t))]
<1>1. /\ 2 <= Len(stack) /\ Push(2, 0, e) /\ Ints2("native") /\ Ints2("js")
      /\ Exact(w("js"))
  BY TargetsAre DEF Division, Has, Operation
<1>2. /\ CallsOf(2, "native") = CallsOf(2, "js") /\ IsSeq(CallsOf(2, "js"))
      /\ Fits(Arg(0)) /\ Fits(Arg(1))
  BY <1>1, TwoCallsFit
<1>3. /\ Arg(0)["native"].value = Arg(0)["js"].value
      /\ Arg(1)["native"].value = Arg(1)["js"].value
  BY <1>1, <1>2, AgreeInt DEF Fits, Ints2
<1>4. w("native") = w("js")
  BY <1>3
<1> HIDE DEF w
<1>5. \A u : Exact(u) => Quotient("native", u) = IntOf(u[1] \div u[2])
                         /\ Quotient("js", u) = IntOf(u[1] \div u[2])
  BY DEF Quotient
<1>6. v("native") = v("js") /\ Agree(v("js"), v("js"))
  BY <1>1, <1>4, <1>5, IntsAgree
<1> HIDE DEF v
<1>7. Fits(e)
  BY <1>2, <1>6, TargetsAre DEF Fits, Outcome
<1> HIDE DEF e
<1>8. QED
  BY <1>1, <1>7, PushFits

(* JavaScript leaves the right operand alone when the left one decides:    *)
(* the value is that of the left one, and there was no call in the other.  *)
LEMMA LogicFits ==
  ASSUME Forms = {}, OperandsFit, NEW op \in {"and", "or"}, Logic(op)
  PROVE  OperandsFit'
<1> DEFINE both(l, r) == <<"bool", IF op = "and" THEN l * r ELSE IF l + r > 0 THEN 1 ELSE 0>>
           o(t) == LET l == Arg(1)[t].value[2]
                       r == Arg(0)[t].value[2]
                   IN  IF t = "js" /\ Decides(op, l) THEN Outcome(Arg(1)[t].value, Arg(1)[t].calls)
                       ELSE Outcome(both(l, r), CallsOf(2, t))
           e == [t \in Targets |-> o(t)]
<1>1. /\ 2 <= Len(stack) /\ Push(2, 0, e)
      /\ IsBool(Arg(0)["native"].value) /\ IsBool(Arg(0)["js"].value)
      /\ IsBool(Arg(1)["native"].value) /\ IsBool(Arg(1)["js"].value)
      /\ Arg(0)["js"].calls = <<>>
  BY TargetsAre DEF Logic, Has
<1>2. /\ CallsOf(2, "native") = CallsOf(2, "js") /\ IsSeq(CallsOf(2, "js"))
      /\ Fits(Arg(0)) /\ Fits(Arg(1))
  BY <1>1, TwoCallsFit
<1>3. PICK a, b, c : a = Arg(1)["js"].value /\ b = Arg(0)["js"].value /\ c = Arg(1)["js"].calls
  OBVIOUS
<1>4. /\ Arg(0)["native"].value = b /\ Arg(1)["native"].value = a
      /\ a \in Bools /\ b \in Bools
  BY <1>1, <1>2, <1>3, AgreeBool DEF Fits
<1>5. CallsOf(2, "js") = c
  <2>1. IsSeq(c)
    BY <1>2, <1>3 DEF Fits
  <2>2. c \o <<>> = c
    BY <2>1, ConcatEmptySeq DEF IsSeq
  <2>3. QED
    BY <1>1, <1>3, <2>2, TwoCalls
<1>6. a = <<"bool", a[2]>> /\ a[2] \in {0, 1} /\ b[2] \in {0, 1}
  BY <1>4 DEF Bools
<1>7. both(a[2], b[2]) \in Bools
  BY <1>6 DEF Bools
<1>8. Decides(op, a[2]) => a = both(a[2], b[2])
  <2>1. CASE op = "and"
    <3>1. 0 * b[2] = 0
      BY <1>6
    <3>2. QED
      BY <1>6, <2>1, <3>1 DEF Decides
  <2>2. CASE op = "or"
    <3>1. 1 + b[2] > 0
      BY <1>6
    <3>2. QED
      BY <1>6, <2>2, <3>1 DEF Decides
  <2>3. QED
    BY <2>1, <2>2
<1>9. e["native"] = Outcome(both(a[2], b[2]), c) /\ e["js"] = Outcome(both(a[2], b[2]), c)
  <2>1. e["native"] = Outcome(both(a[2], b[2]), CallsOf(2, "native"))
    BY <1>3, <1>4, TargetsAre
  <2>2. e["js"] = IF Decides(op, a[2]) THEN Outcome(a, c)
                  ELSE Outcome(both(a[2], b[2]), CallsOf(2, "js"))
    BY <1>3, TargetsAre
  <2> HIDE DEF e, both
  <2>3. QED
    BY <1>2, <1>5, <1>8, <2>1, <2>2
<1>10. Agree(both(a[2], b[2]), both(a[2], b[2]))
  BY <1>7 DEF Agree, Plain
<1> HIDE DEF both, e
<1>11. IsSeq(c)
  BY <1>2, <1>5
<1>12. Fits(e)
  BY <1>9, <1>10, <1>11 DEF Fits, Outcome
<1>13. QED
  BY <1>1, <1>12, PushFits

LEMMA NotFits == ASSUME OperandsFit, Not PROVE OperandsFit'
<1> DEFINE v(t) == BoolOf(Arg(0)[t].value[2] = 0)
           e == [t \in Targets |-> Outcome(v(t), Arg(0)[t].calls)]
<1>1. /\ 1 <= Len(stack) /\ Push(1, 1, e)
      /\ IsBool(Arg(0)["native"].value) /\ IsBool(Arg(0)["js"].value)
  BY TargetsAre DEF Not, Has
<1>2. Fits(Arg(0))
  <2>1. 0 \in Nat /\ 0 < Len(stack)
    BY <1>1, LenProperties DEF OperandsFit, IsSeq
  <2>2. QED
    BY <2>1, ArgFits
<1>3. Arg(0)["native"].value = Arg(0)["js"].value
  BY <1>1, <1>2, AgreeBool DEF Fits
<1>4. v("native") = v("js") /\ Agree(v("js"), v("js"))
  BY <1>3, BoolsAgree
<1> HIDE DEF v
<1>5. Fits(e)
  BY <1>2, <1>4, TargetsAre DEF Fits, Outcome
<1> HIDE DEF e
<1>6. QED
  BY <1>1, <1>5, PushFits

LEMMA LitFits == ASSUME OperandsFit, NEW v \in Literals, Lit(v) PROVE OperandsFit'
<1>1. Push(0, 1, Pure(v)) /\ 0 <= Len(stack)
  BY DEF Lit, Has
<1>2. Agree(v, v)
  <2>1. v[1] = "int" \/ v \in Bools
    BY LiteralAssumption DEF BoolOf, Bools
  <2>2. QED
    BY <2>1 DEF Agree, Plain
<1>3. <<>> \in Seq({})
  OBVIOUS
<1>4. Fits(Pure(v))
  BY <1>2, <1>3, TargetsAre DEF Fits, Pure, Outcome, IsSeq
<1>5. QED
  BY <1>1, <1>4, PushFits

LEMMA CallFits ==
  ASSUME OperandsFit, Scopes(Function) = {}, NEW r, Call(r)
  PROVE  OperandsFit'
<1> DEFINE e == [t \in Targets |-> Outcome(IntOf(r), Append(Arg(0)[t].calls, Arg(0)[t].value))]
<1>1. /\ 1 <= Len(stack) /\ Push(1, 0, e)
      /\ IsInt(Arg(0)["native"].value) /\ IsInt(Arg(0)["js"].value)
  BY TargetsAre DEF Call, Has
<1>2. Fits(Arg(0))
  <2>1. 0 \in Nat /\ 0 < Len(stack)
    BY <1>1, LenProperties DEF OperandsFit, IsSeq
  <2>2. QED
    BY <2>1, ArgFits
<1>3. Arg(0)["native"].value = Arg(0)["js"].value
  BY <1>1, <1>2, AgreeInt DEF Fits
<1>4. PICK c, v : c = Arg(0)["js"].calls /\ v = Arg(0)["js"].value
  OBVIOUS
<1>5. IsSeq(c) /\ Arg(0)["native"].calls = c /\ Arg(0)["native"].value = v
  BY <1>2, <1>3, <1>4 DEF Fits
<1>6. IsSeq(Append(c, v))
  BY <1>5, AppendIsSeq
<1>7. e["native"] = Outcome(IntOf(r), Append(c, v)) /\ e["js"] = Outcome(IntOf(r), Append(c, v))
  BY <1>4, <1>5, TargetsAre
<1> HIDE DEF e
<1>8. Fits(e)
  BY <1>6, <1>7, IntsAgree DEF Fits, Outcome
<1>9. QED
  BY <1>1, <1>8, PushFits

(* The chain of conditionals takes the arm that trying the patterns in     *)
(* turn takes.                                                             *)
LEMMA SameArm ==
  ASSUME NEW v, NEW a, NEW b
  PROVE  /\ ArmTaken("native", v, <<a, b>>) = ArmTaken("js", v, <<a, b>>)
         /\ ArmTaken("js", v, <<a, b>>) \in 1 .. 3
<1> DEFINE match == {i \in DOMAIN <<a, b>> : v = <<a, b>>[i]}
<1>1. DOMAIN <<a, b>> = {1, 2} /\ <<a, b>>[1] = a /\ <<a, b>>[2] = b /\ Len(<<a, b>>) + 1 = 3
  OBVIOUS
<1>2. \A i : i \in match <=> (i = 1 /\ v = a) \/ (i = 2 /\ v = b)
  BY <1>1
<1>3. FirstMatch(v, <<a, b>>)
        = IF match = {} THEN 3 ELSE CHOOSE i \in match : \A j \in match : i <= j
  BY <1>1 DEF FirstMatch
<1> HIDE DEF match
<1>4. FirstMatch(v, <<a, b>>) = IF v = a THEN 1 ELSE IF v = b THEN 2 ELSE 3
  <2>1. CASE v = a
    <3>1. 1 \in match /\ \A j \in match : 1 <= j
      BY <1>2, <2>1
    <3>2. \A i \in match : (\A j \in match : i <= j) => i = 1
      BY <1>2, <3>1
    <3>3. QED
      BY <1>3, <2>1, <3>1, <3>2
  <2>2. CASE v # a /\ v = b
    <3>1. match = {2}
      BY <1>2, <2>2
    <3>2. QED
      BY <1>3, <2>2, <3>1
  <2>3. CASE v # a /\ v # b
    <3>1. match = {}
      BY <1>2, <2>3
    <3>2. QED
      BY <1>3, <2>3, <3>1
  <2>4. QED
    BY <2>1, <2>2, <2>3
<1>5. QED
  BY <1>4, ChainTwo DEF ArmTaken

LEMMA MatchFits ==
  ASSUME Forms = {}, OperandsFit, NEW a, NEW b, Match(<<a, b>>)
  PROVE  OperandsFit'
<1> DEFINE place(t) == 3 - ArmTaken(t, Arg(3)[t].value, <<a, b>>)
           arm(t) == Arg(3 - ArmTaken(t, Arg(3)[t].value, <<a, b>>))[t]
           e == [t \in Targets |-> Outcome(arm(t).value, Subject(t, <<a, b>>) \o arm(t).calls)]
<1>1. /\ 4 <= Len(stack) /\ Push(4, 0, e)
      /\ IsInt(Arg(3)["native"].value) /\ IsInt(Arg(3)["js"].value)
  <2> DEFINE o(t) == Outcome(ArmValue(t, place(t)), Subject(t, <<a, b>>) \o Arg(place(t))[t].calls)
             p(t) == Outcome(Arg(place(t))[t].value, Subject(t, <<a, b>>) \o Arg(place(t))[t].calls)
  <2>1. /\ 4 <= Len(stack) /\ Push(4, 0, [t \in Targets |-> o(t)]) /\ ~ReadsTemp(4)
        /\ IsInt(Arg(3)["native"].value) /\ IsInt(Arg(3)["js"].value)
    BY TargetsAre DEF Match, Has
  <2>2. \A k \in 0 .. 3 : ShapeOf(k).temp = "no"
    BY <2>1 DEF ReadsTemp
  <2>3. ASSUME NEW t \in Targets PROVE ArmValue(t, place(t)) = Arg(place(t))[t].value
    <3>1. \A v : 3 - ArmTaken(t, v, <<a, b>>) \in 0 .. 3
      <4>1. \A v : ArmTaken(t, v, <<a, b>>) \in 1 .. 3
        BY SameArm DEF Targets
      <4>2. QED
        BY <4>1
    <3>2. place(t) \in 0 .. 3 /\ 3 \in 0 .. 3
      BY <3>1
    <3> HIDE DEF place
    <3>3. ShapeOf(place(t)).temp = "no" /\ ShapeOf(3).temp = "no"
      BY <2>2, <3>2
    <3>4. QED
      BY <3>3 DEF ArmValue
  <2> HIDE DEF place
  <2>4. ASSUME NEW t \in Targets PROVE o(t) = p(t)
    BY <2>3
  <2>5. [t \in Targets |-> o(t)] = [t \in Targets |-> p(t)]
    BY <2>4
  <2>6. e = [t \in Targets |-> p(t)]
    BY DEF place
  <2>7. QED
    BY <2>1, <2>5, <2>6
<1>2. \A k \in 0 .. 3 : Fits(Arg(k))
  <2>1. \A k \in 0 .. 3 : k \in Nat /\ k < Len(stack)
    BY <1>1, LenProperties DEF OperandsFit, IsSeq
  <2>2. QED
    BY <2>1, ArgFits
<1>3. 3 \in 0 .. 3
  OBVIOUS
<1>4. Arg(3)["native"].value = Arg(3)["js"].value
  BY <1>1, <1>2, <1>3, AgreeInt DEF Fits
<1>5. PICK v : v = Arg(3)["js"].value
  OBVIOUS
<1>6. PICK m \in 1 .. 3 : /\ m = ArmTaken("native", v, <<a, b>>)
                          /\ m = ArmTaken("js", v, <<a, b>>)
  BY SameArm
<1>7. 3 - m \in 0 .. 3
  BY <1>6
<1>8. PICK o, s : o = Arg(3 - m) /\ s = Arg(3)
  OBVIOUS
<1>9. Fits(o) /\ Fits(s)
  BY <1>2, <1>3, <1>7, <1>8
<1>10. /\ e["native"] = Outcome(o["native"].value, s["native"].calls \o o["native"].calls)
       /\ e["js"] = Outcome(o["js"].value, s["js"].calls \o o["js"].calls)
  <2>1. arm("native") = o["native"] /\ arm("js") = o["js"]
    BY <1>4, <1>5, <1>6, <1>8
  <2> HIDE DEF arm
  <2>2. QED
    BY <1>8, <2>1, TargetsAre DEF Subject
<1> HIDE DEF e
<1>11. IsSeq(s["js"].calls \o o["js"].calls)
  BY <1>9, ConcatIsSeq DEF Fits
<1>12. Fits(e)
  <2>1. /\ e["native"].value = o["native"].value /\ e["js"].value = o["js"].value
        /\ e["native"].calls = s["native"].calls \o o["native"].calls
        /\ e["js"].calls = s["js"].calls \o o["js"].calls
    <3>1. PICK c, d : /\ c = s["native"].calls \o o["native"].calls
                      /\ d = s["js"].calls \o o["js"].calls
      OBVIOUS
    <3>2. /\ e["native"] = Outcome(o["native"].value, c)
          /\ e["js"] = Outcome(o["js"].value, d)
      BY <1>10, <3>1, Zenon
    <3>3. /\ e["native"].value = o["native"].value /\ e["js"].value = o["js"].value
          /\ e["native"].calls = c /\ e["js"].calls = d
      BY <3>2 DEF Outcome
    <3>4. QED
      BY <3>1, <3>3, Zenon
  <2>2. /\ s["native"].calls = s["js"].calls /\ o["native"].calls = o["js"].calls
        /\ Agree(o["native"].value, o["js"].value)
    BY <1>9 DEF Fits
  <2>3. e["native"].calls = e["js"].calls
    BY <2>1, <2>2, Zenon
  <2>4. QED
    BY <1>11, <2>1, <2>2, <2>3 DEF Fits
<1>13. QED
  BY <1>1, <1>12, PushFits

(* The fields of the struct and the orders they can be written in.         *)
LEMMA FieldFacts ==
  /\ DOMAIN Fields = 1 .. 2 /\ ToSet(Fields) = {Fields[1], Fields[2]} /\ Fields[1] # Fields[2]
  /\ Position(Fields[1]) = 1 /\ Position(Fields[2]) = 2
  /\ DOMAIN Reverse(Fields) = 1 .. 2
  /\ Reverse(Fields)[1] = Fields[2] /\ Reverse(Fields)[2] = Fields[1]
<1>1. DOMAIN Fields = 1 .. 2 /\ Len(Fields) = 2 /\ Fields[1] # Fields[2]
  BY FieldAssumption, LenProperties
<1>2. ToSet(Fields) = {Fields[1], Fields[2]}
  BY <1>1 DEF ToSet
<1>3. Position(Fields[1]) = 1 /\ Position(Fields[2]) = 2
  <2>1. \A i \in DOMAIN Fields : i = 1 \/ i = 2
    BY <1>1
  <2>2. \A i \in DOMAIN Fields : Fields[i] = Fields[1] <=> i = 1
    BY <1>1, <2>1
  <2>3. \A i \in DOMAIN Fields : Fields[i] = Fields[2] <=> i = 2
    BY <1>1, <2>1
  <2>4. 1 \in DOMAIN Fields /\ 2 \in DOMAIN Fields
    BY <1>1
  <2>5. QED
    BY <2>2, <2>3, <2>4 DEF Position
<1>4. Reverse(Fields) = [i \in 1 .. 2 |-> Fields[(2 - i) + 1]]
  BY <1>1 DEF Reverse
<1>5. QED
  BY <1>1, <1>2, <1>3, <1>4

(* Both targets take a field from the same place of what is written.       *)
LEMMA SamePlace ==
  ASSUME NEW order \in {Fields, Reverse(Fields)}, NEW f \in ToSet(Fields)
  PROVE  \E k \in 1 .. 2 : /\ k = CHOOSE i \in DOMAIN order : order[i] = f
                           /\ k = CHOOSE i \in DOMAIN order : Position(order[i]) = Position(f)
<1>1. DOMAIN order = 1 .. 2 /\ \E k \in 1 .. 2 : order[k] = f /\ order[3 - k] # f
      /\ order[3 - k] \in ToSet(Fields)
  BY FieldFacts
<1>2. PICK k \in 1 .. 2 : order[k] = f /\ order[3 - k] # f /\ order[3 - k] \in ToSet(Fields)
  BY <1>1
<1>3. \A i \in DOMAIN order : order[i] = f <=> i = k
  <2>1. \A i \in 1 .. 2 : i = k \/ i = 3 - k
    OBVIOUS
  <2>2. QED
    BY <1>1, <1>2, <2>1
<1>4. \A g, h \in ToSet(Fields) : Position(g) = Position(h) => g = h
  BY FieldFacts
<1>5. \A i \in DOMAIN order : Position(order[i]) = Position(f) <=> i = k
  <2>1. \A i \in DOMAIN order : order[i] \in ToSet(Fields)
    BY FieldFacts
  <2>2. QED
    BY <1>3, <1>4, <2>1
<1>6. k \in DOMAIN order
  BY <1>1
<1>7. QED
  BY <1>3, <1>5, <1>6

LEMMA StructLitFits ==
  ASSUME OperandsFit, Scopes(Struct) = {}, NEW order \in {Fields, Reverse(Fields)},
         StructLit(order)
  PROVE  OperandsFit'
<1> DEFINE h == [f \in ToSet(Fields) |->
                   Arg(2 - (CHOOSE i \in DOMAIN order : order[i] = f))["js"].value[2]]
           g == [p \in DOMAIN Fields |->
                   Arg(2 - (CHOOSE i \in DOMAIN order : Position(order[i]) = p))["native"].value[2]]
           o(t) == Outcome(IF t = "js" THEN <<"object", [f \in ToSet(Fields) |->
                                      Arg(2 - (CHOOSE i \in DOMAIN order : order[i] = f))[t].value[2]]>>
                 ELSE <<"struct", [p \in DOMAIN Fields |->
                                      Arg(2 - (CHOOSE i \in DOMAIN order : Position(order[i]) = p))[t].value[2]]>>,
                 CallsOf(2, t))
           e == [t \in Targets |-> o(t)]
<1>1. 2 <= Len(stack) /\ PushAs(2, 0, "struct", Inside(2), e) /\ Ints2("native") /\ Ints2("js")
  BY TargetsAre DEF StructLit, Has
<1>2. /\ CallsOf(2, "native") = CallsOf(2, "js") /\ IsSeq(CallsOf(2, "js"))
      /\ Fits(Arg(0)) /\ Fits(Arg(1))
  BY <1>1, TwoCallsFit
<1>3. /\ Arg(0)["native"].value = Arg(0)["js"].value
      /\ Arg(1)["native"].value = Arg(1)["js"].value
  BY <1>1, <1>2, AgreeInt DEF Fits, Ints2
<1>4. e["native"] = Outcome(<<"struct", g>>, CallsOf(2, "native"))
      /\ e["js"] = Outcome(<<"object", h>>, CallsOf(2, "js"))
  BY TargetsAre
<1> HIDE DEF e
<1>5. ASSUME NEW f \in ToSet(Fields) PROVE g[Position(f)] = h[f]
  <2>1. PICK k \in 1 .. 2 : /\ k = CHOOSE i \in DOMAIN order : order[i] = f
                            /\ k = CHOOSE i \in DOMAIN order : Position(order[i]) = Position(f)
    BY SamePlace
  <2>2. Position(f) \in DOMAIN Fields
    BY FieldFacts
  <2>3. g[Position(f)] = Arg(2 - k)["native"].value[2] /\ h[f] = Arg(2 - k)["js"].value[2]
    BY <2>1, <2>2
  <2>4. 2 - k = 0 \/ 2 - k = 1
    <3>1. \A m \in 1 .. 2 : 2 - m = 0 \/ 2 - m = 1
      OBVIOUS
    <3>2. QED
      BY <3>1
  <2> HIDE DEF g, h
  <2>5. QED
    BY <1>3, <2>3, <2>4
<1> HIDE DEF g, h
<1>6. PICK n, j : n = <<"struct", g>> /\ j = <<"object", h>>
  OBVIOUS
<1>7. Agree(n, j)
  <2>1. n[1] = "struct" /\ n[2] = g /\ j[1] = "object" /\ j[2] = h
    BY <1>6
  <2>2. QED
    BY <1>5, <2>1 DEF Agree, SameFields
<1>8. Fits(e)
  BY <1>2, <1>4, <1>6, <1>7 DEF Fits, Outcome
<1>9. QED
  BY <1>1, <1>8, PushAsFits

(* A field is read where it was stored.                                    *)
LEMMA GetFieldFits ==
  ASSUME Forms = {}, OperandsFit, NEW f \in ToSet(Fields), GetField(f)
  PROVE  OperandsFit'
<1> DEFINE o(t) == Outcome(IntOf(Arg(0)[t].value[2][IF t = "js" THEN f ELSE Position(f)]), Arg(0)[t].calls)
           e == [t \in Targets |-> o(t)]
<1>1. 1 <= Len(stack) /\ Push(1, 0, e) /\ Arg(0)["js"].value[1] = "object"
  BY DEF GetField, Has
<1>2. Fits(Arg(0))
  <2>1. 0 \in Nat /\ 0 < Len(stack)
    BY <1>1, LenProperties DEF OperandsFit, IsSeq
  <2>2. QED
    BY <2>1, ArgFits
<1>3. SameFields(Arg(0)["native"].value, Arg(0)["js"].value)
  BY <1>1, <1>2, AgreeObject DEF Fits
<1>4. PICK w : w = Arg(0)["js"].value[2][f]
  OBVIOUS
<1>5. Arg(0)["native"].value[2][Position(f)] = w
  BY <1>3, <1>4 DEF SameFields
<1>6. e["native"] = Outcome(IntOf(w), Arg(0)["native"].calls) /\ e["js"] = Outcome(IntOf(w), Arg(0)["js"].calls)
  BY <1>4, <1>5, TargetsAre
<1> HIDE DEF e
<1>7. Fits(e)
  BY <1>2, <1>6, IntsAgree DEF Fits, Outcome
<1>8. QED
  BY <1>1, <1>7, PushFits

-----------------------------------------------------------------------------
(* The blocks.  Both targets are in the same ones, a block runs only in    *)
(* blocks that run, no name is in two open scopes, and native's one map    *)
(* has, for a name in the scope of a block that runs, what JavaScript has. *)
FrameFits(fr, map) ==
  /\ fr = [kind |-> fr.kind, live |-> fr.live, other |-> fr.other, scope |-> fr.scope]
  /\ fr.live \in {Everywhere, Nowhere} /\ fr.other \in {Everywhere, Nowhere}
  /\ fr.live = Nowhere \/ fr.other = Nowhere
  /\ \A x \in DOMAIN fr.scope :
       /\ fr.scope[x] = [kind |-> fr.scope[x].kind, value |-> fr.scope[x].value]
       /\ x \in DOMAIN map /\ x \notin Globals
       /\ fr.live = Everywhere => Agree(map[x], fr.scope[x].value)

Nested(fs) ==
  \A i, j \in 1 .. Len(fs) :
    i < j /\ Everywhere \in {fs[j].live, fs[j].other} => fs[i].live = Everywhere

Apart(fs) ==
  \A i, j \in 1 .. Len(fs) :
    \A x : x \in DOMAIN fs[i].scope /\ x \in DOMAIN fs[j].scope => i = j

BlocksFit(fs, map) ==
  /\ IsSeq(fs) /\ Len(fs) >= 1
  /\ \A i \in 1 .. Len(fs) : FrameFits(fs[i], map)
  /\ Nested(fs) /\ Apart(fs)

LEMMA Flags ==
  /\ Everywhere # Nowhere
  /\ Everywhere["js"] = TRUE /\ Everywhere["native"] = TRUE
  /\ Nowhere["js"] = FALSE /\ Nowhere["native"] = FALSE
<1>1. /\ Everywhere["js"] = TRUE /\ Everywhere["native"] = TRUE
      /\ Nowhere["js"] = FALSE /\ Nowhere["native"] = FALSE
  BY TargetsAre DEF Everywhere, Nowhere
<1>2. QED
  BY <1>1

LEMMA SameFlag == \A p \in BOOLEAN : [t \in Targets |-> p] \in {Everywhere, Nowhere}
<1>1. [t \in Targets |-> TRUE] = Everywhere /\ [t \in Targets |-> FALSE] = Nowhere
  BY DEF Everywhere, Nowhere
<1>2. \A p \in BOOLEAN : p = TRUE \/ p = FALSE
  OBVIOUS
<1>3. QED
  BY <1>1, <1>2

LEMMA SeqFacts ==
  ASSUME NEW s, IsSeq(s)
  PROVE  Len(s) \in Nat /\ DOMAIN s = 1 .. Len(s)
  BY LenProperties DEF IsSeq

Replaced(s, i, e) == [s EXCEPT ![i] = e]

LEMMA ReplaceIsSeq ==
  ASSUME NEW s, IsSeq(s), NEW i \in 1 .. Len(s), NEW e, NEW r, r = Replaced(s, i, e)
  PROVE  /\ IsSeq(r) /\ Len(r) = Len(s) /\ r[i] = e
         /\ \A j \in 1 .. Len(s) : j # i => r[j] = s[j]
<1>1. PICK S : s \in Seq(S)
  BY DEF IsSeq
<1>2. s \in Seq(S \cup {e}) /\ DOMAIN s = 1 .. Len(s) /\ Len(s) \in Nat
  <2>1. \A j \in 1 .. Len(s) : s[j] \in S
    BY <1>1, ElementOfSeq
  <2>2. QED
    BY <1>1, <2>1, LenProperties
<1>3. r \in Seq(S \cup {e}) /\ Len(r) = Len(s)
  BY <1>2, ExceptSeq DEF Replaced
<1>4. r[i] = e /\ \A j \in 1 .. Len(s) : j # i => r[j] = s[j]
  BY <1>2 DEF Replaced
<1>5. QED
  BY <1>3, <1>4 DEF IsSeq

(* In a block that runs, all the blocks around it run.                     *)
LEMMA AllLive ==
  ASSUME NEW fs, NEW map, BlocksFit(fs, map), fs[Len(fs)].live = Everywhere
  PROVE  \A i \in 1 .. Len(fs) : fs[i].live = Everywhere /\ fs[i].other = Nowhere
<1>1. Len(fs) \in Nat /\ Len(fs) \in 1 .. Len(fs)
  BY SeqFacts DEF BlocksFit
<1>2. ASSUME NEW i \in 1 .. Len(fs) PROVE fs[i].live = Everywhere
  <2>1. CASE i = Len(fs)
    BY <2>1
  <2>2. CASE i # Len(fs)
    <3>1. i < Len(fs)
      BY <1>1, <2>2
    <3>2. QED
      BY <1>1, <3>1 DEF BlocksFit, Nested
  <2>3. QED
    BY <2>1, <2>2
<1>3. QED
  BY <1>2, Flags DEF BlocksFit, FrameFits

(* Another map that has the same values fits a block as well.              *)
LEMMA OtherMap ==
  ASSUME NEW fr, NEW map, NEW map2, FrameFits(fr, map),
         \A x \in DOMAIN fr.scope : x \in DOMAIN map2 /\ map2[x] = map[x]
  PROVE  FrameFits(fr, map2)
  BY DEF FrameFits

(* Another block in the place of one.                                      *)
LEMMA ReplaceBlock ==
  ASSUME NEW fs, NEW map, BlocksFit(fs, map), NEW i \in 1 .. Len(fs), NEW fr, NEW map2,
         FrameFits(fr, map2),
         \A j \in 1 .. Len(fs) : j # i => FrameFits(fs[j], map2),
         Everywhere \in {fr.live, fr.other} => Everywhere \in {fs[i].live, fs[i].other},
         i = Len(fs) \/ fr.live = fs[i].live,
         \A j \in 1 .. Len(fs) : \A x \in DOMAIN fr.scope : j # i => x \notin DOMAIN fs[j].scope
  PROVE  BlocksFit(Replaced(fs, i, fr), map2)
<1>1. IsSeq(fs) /\ Len(fs) >= 1 /\ Nested(fs) /\ Apart(fs)
  BY DEF BlocksFit
<1>2. PICK gs : gs = Replaced(fs, i, fr)
  OBVIOUS
<1>3. /\ IsSeq(gs) /\ Len(gs) = Len(fs) /\ gs[i] = fr
      /\ \A j \in 1 .. Len(fs) : j # i => gs[j] = fs[j]
  BY <1>1, <1>2, ReplaceIsSeq
<1>4. \A j \in 1 .. Len(gs) : FrameFits(gs[j], map2)
  BY <1>3
<1>5. Nested(gs)
  <2>1. ASSUME NEW j \in 1 .. Len(fs), NEW k \in 1 .. Len(fs), j < k,
               Everywhere \in {gs[k].live, gs[k].other}
        PROVE  gs[j].live = Everywhere
    <3>1. Everywhere \in {fs[k].live, fs[k].other}
      BY <1>3, <2>1
    <3>2. fs[j].live = Everywhere
      BY <1>1, <2>1, <3>1 DEF Nested
    <3>3. j # Len(fs)
      BY <1>1, <2>1, SeqFacts
    <3>4. QED
      BY <1>3, <3>2, <3>3
  <2>2. QED
    BY <1>3, <2>1 DEF Nested
<1>6. Apart(gs)
  BY <1>1, <1>3 DEF Apart
<1>7. QED
  BY <1>1, <1>2, <1>3, <1>4, <1>5, <1>6 DEF BlocksFit

(* A new block, in one that runs.                                          *)
LEMMA AppendBlock ==
  ASSUME NEW fs, NEW map, BlocksFit(fs, map), fs[Len(fs)].live = Everywhere,
         NEW fr, FrameFits(fr, map), DOMAIN fr.scope = {}
  PROVE  BlocksFit(Append(fs, fr), map)
<1>1. IsSeq(fs) /\ Len(fs) >= 1 /\ Nested(fs) /\ Apart(fs) /\ Len(fs) \in Nat
  BY SeqFacts DEF BlocksFit
<1>2. PICK gs : gs = Append(fs, fr)
  OBVIOUS
<1>3. /\ IsSeq(gs) /\ Len(gs) = Len(fs) + 1 /\ gs[Len(fs) + 1] = fr
      /\ \A j \in 1 .. Len(fs) : gs[j] = fs[j]
  BY <1>1, <1>2, AppendIsSeq
<1>4. \A j \in 1 .. Len(fs) : fs[j].live = Everywhere /\ FrameFits(fs[j], map)
  BY AllLive DEF BlocksFit
<1>5. \A j \in 1 .. Len(gs) : j \in 1 .. Len(fs) \/ j = Len(fs) + 1
  BY <1>1, <1>3
<1>6. \A j \in 1 .. Len(gs) : FrameFits(gs[j], map)
  BY <1>3, <1>4, <1>5
<1>7. Nested(gs)
  <2>1. \A j, k \in 1 .. Len(gs) : j < k => j \in 1 .. Len(fs)
    BY <1>1, <1>3
  <2>2. QED
    BY <1>3, <1>4, <2>1 DEF Nested
<1>8. Apart(gs)
  BY <1>1, <1>3, <1>5 DEF Apart
<1>9. Len(gs) >= 1
  BY <1>1, <1>3
<1>10. QED
  BY <1>2, <1>3, <1>6, <1>7, <1>8, <1>9 DEF BlocksFit

(* Without the innermost block.                                            *)
LEMMA FrontBlocks ==
  ASSUME NEW fs, NEW map, BlocksFit(fs, map), Len(fs) > 1
  PROVE  BlocksFit(Front(fs), map)
<1>1. IsSeq(fs) /\ Nested(fs) /\ Apart(fs) /\ Len(fs) \in Nat
  BY SeqFacts DEF BlocksFit
<1>2. PICK m : m = Len(fs) - 1
  OBVIOUS
<1>3. m \in Nat /\ m <= Len(fs) /\ m >= 1
  BY <1>1, <1>2
<1>4. PICK gs : gs = SubSeq(fs, 1, m)
  OBVIOUS
<1>5. IsSeq(gs) /\ Len(gs) = m /\ \A j \in 1 .. m : gs[j] = fs[j]
  BY <1>1, <1>3, <1>4, PrefixIsSeq
<1>6. \A j \in 1 .. m : j \in 1 .. Len(fs)
  BY <1>1, <1>3
<1>7. \A j \in 1 .. Len(gs) : FrameFits(gs[j], map)
  BY <1>5, <1>6 DEF BlocksFit
<1>8. Nested(gs) /\ Apart(gs)
  BY <1>1, <1>5, <1>6 DEF Nested, Apart
<1>9. Front(fs) = gs
  BY <1>2, <1>4 DEF Front
<1>10. QED
  BY <1>3, <1>5, <1>7, <1>8, <1>9 DEF BlocksFit

(* Blocks that all ran, stopped from one on.                               *)
Stopped(fs, i) == [j \in DOMAIN fs |-> IF j < i THEN fs[j] ELSE [fs[j] EXCEPT !.live = Nowhere]]

LEMMA StopFrame ==
  ASSUME NEW fr, NEW map, FrameFits(fr, map)
  PROVE  /\ FrameFits([fr EXCEPT !.live = Nowhere], map)
         /\ [fr EXCEPT !.live = Nowhere].scope = fr.scope
         /\ [fr EXCEPT !.live = Nowhere].live = Nowhere
         /\ [fr EXCEPT !.live = Nowhere].other = fr.other
<1>1. PICK g : g = [fr EXCEPT !.live = Nowhere]
  OBVIOUS
<1>2. g = [kind |-> fr.kind, live |-> Nowhere, other |-> fr.other, scope |-> fr.scope]
  BY <1>1 DEF FrameFits
<1>3. g.kind = fr.kind /\ g.live = Nowhere /\ g.other = fr.other /\ g.scope = fr.scope
  BY <1>2
<1>4. FrameFits(g, map)
  BY <1>2, <1>3, Flags DEF FrameFits
<1>5. QED
  BY <1>1, <1>3, <1>4

LEMMA StopBlocks ==
  ASSUME NEW fs, NEW map, BlocksFit(fs, map), fs[Len(fs)].live = Everywhere,
         NEW i \in Nat
  PROVE  BlocksFit(Stopped(fs, i), map)
<1>1. IsSeq(fs) /\ Len(fs) >= 1 /\ Apart(fs) /\ Len(fs) \in Nat /\ DOMAIN fs = 1 .. Len(fs)
  BY SeqFacts DEF BlocksFit
<1>2. PICK gs : gs = Stopped(fs, i)
  OBVIOUS
<1>3. gs = [j \in 1 .. Len(fs) |-> IF j < i THEN fs[j] ELSE [fs[j] EXCEPT !.live = Nowhere]]
  BY <1>1, <1>2 DEF Stopped
<1>4. IsSeq(gs) /\ Len(gs) = Len(fs)
  <2>1. \A j \in 1 .. Len(fs) : gs[j] \in {gs[k] : k \in 1 .. Len(fs)}
    OBVIOUS
  <2>2. gs \in Seq({gs[k] : k \in 1 .. Len(fs)}) /\ Len(gs) = Len(fs)
    <3>1. \A n \in Nat : \A T, f : f = [j \in 1 .. n |-> f[j]] /\ (\A j \in 1 .. n : f[j] \in T)
                                   => f \in Seq(T) /\ Len(f) = n
      OBVIOUS
    <3>2. gs = [j \in 1 .. Len(fs) |-> gs[j]]
      BY <1>3
    <3> HIDE DEF Stopped
    <3>3. QED
      BY <1>1, <2>1, <3>1, <3>2
  <2>3. QED
    BY <2>2 DEF IsSeq
<1>5. ASSUME NEW j \in 1 .. Len(fs)
      PROVE  /\ FrameFits(gs[j], map) /\ gs[j].scope = fs[j].scope /\ gs[j].other = Nowhere
             /\ j < i => gs[j].live = Everywhere
             /\ ~ (j < i) => gs[j].live = Nowhere
  <2>1. FrameFits(fs[j], map) /\ fs[j].live = Everywhere /\ fs[j].other = Nowhere
    BY AllLive DEF BlocksFit
  <2>2. CASE j < i
    <3>1. gs[j] = fs[j]
      BY <1>3, <2>2
    <3>2. QED
      BY <2>1, <2>2, <3>1
  <2>3. CASE ~ (j < i)
    <3>1. gs[j] = [fs[j] EXCEPT !.live = Nowhere]
      BY <1>3, <2>3
    <3>2. QED
      BY <2>1, <2>3, <3>1, StopFrame
  <2>4. QED
    BY <2>2, <2>3
<1>6. Nested(gs)
  <2>1. ASSUME NEW j \in 1 .. Len(fs), NEW k \in 1 .. Len(fs), j < k,
               Everywhere \in {gs[k].live, gs[k].other}
        PROVE  gs[j].live = Everywhere
    <3>1. k < i
      BY <1>5, <2>1, Flags
    <3>2. j < i
      BY <2>1, <3>1
    <3>3. QED
      BY <1>5, <3>2
  <2>2. QED
    BY <1>4, <2>1 DEF Nested
<1>7. Apart(gs)
  <2>1. \A j \in 1 .. Len(fs) : gs[j].scope = fs[j].scope
    BY <1>5
  <2>2. QED
    BY <1>1, <1>4, <2>1 DEF Apart
<1>8. QED
  BY <1>1, <1>2, <1>4, <1>5, <1>6, <1>7 DEF BlocksFit

-----------------------------------------------------------------------------
(* Bodies without the forms that have two meanings.                        *)
Tame == Forms = {}

TargetsInv ==
  /\ OperandsFit
  /\ BlocksFit(frames, slots)
  /\ made["native"] = made["js"]
  /\ Alike(result["native"], result["js"])

LEMMA TopFits ==
  ASSUME TargetsInv
  PROVE  /\ Len(frames) \in Nat /\ Len(frames) \in 1 .. Len(frames) /\ FrameFits(Top, slots)
         /\ Live("native") = Live("js")
         /\ Live("native") <=> Top.live = Everywhere
         /\ Running <=> Top.live = Everywhere
<1>1. Len(frames) \in Nat /\ Len(frames) \in 1 .. Len(frames)
  BY SeqFacts DEF TargetsInv, BlocksFit
<1>2. FrameFits(Top, slots)
  BY <1>1 DEF TargetsInv, BlocksFit, Top
<1>3. Top.live = Everywhere \/ Top.live = Nowhere
  BY <1>2 DEF FrameFits
<1>4. /\ Live("native") = Live("js")
      /\ Live("native") <=> Top.live = Everywhere
      /\ Live("js") <=> Top.live = Everywhere
  BY <1>3, Flags DEF Live
<1>5. Running <=> Live("native") /\ Live("js")
  BY TargetsAre DEF Running
<1>6. QED
  BY <1>1, <1>2, <1>4, <1>5

(* A statement takes the operands, and both targets make the same calls.   *)
LEMMA StatementFits ==
  ASSUME TargetsInv, NEW n \in Nat, Statement(n)
  PROVE  /\ OperandsFit' /\ made'["native"] = made'["js"]
         /\ n > 0 => Fits(Arg(0))
<1>1. OperandsFit'
  <2>1. stack' = <<>> /\ <<>> \in Seq({}) /\ Len(<<>>) = 0
    BY DEF Statement
  <2>2. IsSeq(stack') /\ \A i \in 1 .. Len(stack') : FALSE
    BY <2>1 DEF IsSeq
  <2>3. QED
    BY <2>2 DEF OperandsFit, IsSeq
<1>2. CallsOf(n, "native") = CallsOf(n, "js")
  BY SameCallsOf DEF TargetsInv, Statement
<1>3. Live("native") = Live("js")
  BY TopFits
<1>4. PICK c, m : c = CallsOf(n, "js") /\ m = made["js"]
  OBVIOUS
<1>5. /\ made'["native"] = IF Live("native") THEN made["native"] \o CallsOf(n, "native") ELSE made["native"]
      /\ made'["js"] = IF Live("js") THEN made["js"] \o CallsOf(n, "js") ELSE made["js"]
  BY TargetsAre DEF Statement
<1>6. made["native"] = m
  BY <1>4 DEF TargetsInv
<1>7. /\ made'["native"] = IF Live("js") THEN m \o c ELSE m
      /\ made'["js"] = IF Live("js") THEN m \o c ELSE m
  BY <1>2, <1>3, <1>4, <1>5, <1>6
<1>8. ASSUME n > 0 PROVE Fits(Arg(0))
  <2>1. 0 \in Nat /\ 0 < Len(stack)
    BY <1>8 DEF Statement
  <2>2. QED
    BY <2>1, ArgFits DEF TargetsInv
<1>9. QED
  BY <1>1, <1>7, <1>8

(* A step that is an expression.                                           *)
LEMMA ExpressionKeeps ==
  ASSUME TargetsInv, OperandsFit', UNCHANGED <<frames, slots, made, result>>
  PROVE  TargetsInv'
  BY DEF TargetsInv

(* A name is read in the one scope it is in, which is the innermost.       *)
LEMMA ScopeOf ==
  ASSUME TargetsInv, NEW x, Scopes(x) # {}
  PROVE  /\ Innermost(x) \in 1 .. Len(frames) /\ x \in DOMAIN frames[Innermost(x)].scope
         /\ \A j \in 1 .. Len(frames) : x \in DOMAIN frames[j].scope => j = Innermost(x)
<1>1. DOMAIN frames = 1 .. Len(frames) /\ Apart(frames)
  BY SeqFacts DEF TargetsInv, BlocksFit
<1>2. PICK i \in Scopes(x) : TRUE
  OBVIOUS
<1>3. i \in 1 .. Len(frames) /\ x \in DOMAIN frames[i].scope
  BY <1>1, <1>2 DEF Scopes
<1>4. \A j \in 1 .. Len(frames) : x \in DOMAIN frames[j].scope => j = i
  BY <1>1, <1>3 DEF Apart
<1>5. Scopes(x) = {i}
  BY <1>1, <1>2, <1>4 DEF Scopes
<1>6. Innermost(x) = i
  BY <1>3, <1>5 DEF Innermost
<1>7. QED
  BY <1>3, <1>4, <1>6

(* No name hides the function or the struct.                               *)
LEMMA NothingHidden ==
  ASSUME TargetsInv, NEW x \in Globals
  PROVE  Scopes(x) = {}
<1>1. \A i \in DOMAIN frames : FrameFits(frames[i], slots)
  BY SeqFacts DEF TargetsInv, BlocksFit
<1>2. QED
  BY <1>1 DEF Scopes, FrameFits

LEMMA IdentFits ==
  ASSUME Tame, TargetsInv, NEW x, Ident(x)
  PROVE  OperandsFit'
<1> DEFINE e == [t \in Targets |-> Outcome(IF t = "js" THEN JsValue(x) ELSE slots[x], <<>>)]
           as == IF x \in tracked THEN "tracked" ELSE "other"
           temp == IF x = Temp THEN "bare" ELSE "no"
<1>1. PushAs(0, 1, as, temp, e) /\ Running /\ Scopes(x) # {} /\ 0 <= Len(stack)
  BY DEF Ident, Tame, Has
<1>2. PICK i : i = Innermost(x)
  OBVIOUS
<1>3. i \in 1 .. Len(frames) /\ x \in DOMAIN frames[i].scope /\ JsValue(x) = frames[i].scope[x].value
  BY <1>1, <1>2, ScopeOf DEF JsValue
<1>4. frames[i].live = Everywhere
  BY <1>1, <1>3, TopFits, AllLive DEF TargetsInv, Top
<1>5. Agree(slots[x], JsValue(x))
  BY <1>3, <1>4 DEF TargetsInv, BlocksFit, FrameFits
<1>6. e["native"] = Outcome(slots[x], <<>>) /\ e["js"] = Outcome(JsValue(x), <<>>)
  BY TargetsAre
<1> HIDE DEF e
<1>7. <<>> \in Seq({})
  OBVIOUS
<1>8. Fits(e)
  BY <1>5, <1>6, <1>7 DEF Fits, Outcome, IsSeq
<1>9. QED
  BY <1>1, <1>8, PushAsFits DEF TargetsInv

(* A name that is in no open scope enters the innermost one.               *)
LEMMA DeclareBlock ==
  ASSUME NEW fs, NEW map, BlocksFit(fs, map), NEW x, NEW kind, NEW u, NEW w,
         \A j \in 1 .. Len(fs) : x \notin DOMAIN fs[j].scope, x \notin Globals,
         fs[Len(fs)].live = Everywhere => Agree(u, w)
  PROVE  BlocksFit([fs EXCEPT ![Len(fs)].scope = Put(@, x, [kind |-> kind, value |-> w])],
                   Put(map, x, u))
<1>1. PICK i, fr, r, map2 :
        /\ i = Len(fs) /\ r = [kind |-> kind, value |-> w] /\ map2 = Put(map, x, u)
        /\ fr = [fs[i] EXCEPT !.scope = Put(@, x, r)]
  OBVIOUS
<1>2. i \in 1 .. Len(fs)
  BY <1>1, SeqFacts DEF BlocksFit
<1>3. FrameFits(fs[i], map)
  BY <1>2 DEF BlocksFit
<1>4. PICK sc : sc = Put(fs[i].scope, x, r)
  OBVIOUS
<1>5. fr = [kind |-> fs[i].kind, live |-> fs[i].live, other |-> fs[i].other, scope |-> sc]
  BY <1>1, <1>3, <1>4 DEF FrameFits
<1>6. fr.kind = fs[i].kind /\ fr.live = fs[i].live /\ fr.other = fs[i].other /\ fr.scope = sc
  BY <1>5
<1>7. DOMAIN sc = DOMAIN fs[i].scope \cup {x} /\ sc[x] = r
      /\ \A y \in DOMAIN fs[i].scope : y # x => sc[y] = fs[i].scope[y]
  BY <1>4 DEF Put
<1>8. DOMAIN map2 = DOMAIN map \cup {x} /\ map2[x] = u
      /\ \A y \in DOMAIN map : y # x => map2[y] = map[y]
  BY <1>1 DEF Put
<1>9. r.kind = kind /\ r.value = w /\ r = [kind |-> r.kind, value |-> r.value]
  BY <1>1
<1>10. FrameFits(fr, map2)
  <2>1. ASSUME NEW y \in DOMAIN sc
        PROVE  /\ sc[y] = [kind |-> sc[y].kind, value |-> sc[y].value]
               /\ y \in DOMAIN map2 /\ y \notin Globals
               /\ fr.live = Everywhere => Agree(map2[y], sc[y].value)
    <3>1. CASE y = x
      BY <1>1, <1>6, <1>7, <1>8, <1>9, <3>1
    <3>2. CASE y # x
      <4>1. y \in DOMAIN fs[i].scope /\ sc[y] = fs[i].scope[y]
        BY <1>7, <2>1, <3>2
      <4>2. y \in DOMAIN map /\ map2[y] = map[y]
        BY <1>3, <1>8, <3>2, <4>1 DEF FrameFits
      <4>3. QED
        BY <1>3, <1>6, <1>8, <4>1, <4>2 DEF FrameFits
    <3>3. QED
      BY <3>1, <3>2
  <2>2. QED
    BY <1>3, <1>5, <1>6, <2>1 DEF FrameFits
<1>11. ASSUME NEW j \in 1 .. Len(fs) PROVE FrameFits(fs[j], map2)
  <2>1. FrameFits(fs[j], map)
    BY DEF BlocksFit
  <2>2. \A y \in DOMAIN fs[j].scope : y \in DOMAIN map2 /\ map2[y] = map[y]
    BY <1>8, <2>1 DEF FrameFits
  <2>3. QED
    BY <2>1, <2>2, OtherMap
<1>12. \A j \in 1 .. Len(fs) : \A y \in DOMAIN fr.scope : j # i => y \notin DOMAIN fs[j].scope
  BY <1>2, <1>6, <1>7 DEF BlocksFit, Apart
<1>13. BlocksFit(Replaced(fs, i, fr), map2)
  BY <1>2, <1>6, <1>10, <1>11, <1>12, ReplaceBlock
<1>14. QED
  BY <1>1, <1>13 DEF Replaced

(* A name gets another value.                                              *)
LEMMA AssignBlock ==
  ASSUME NEW fs, NEW map, BlocksFit(fs, map), NEW x, NEW u, NEW w, Agree(u, w),
         NEW i \in 1 .. Len(fs), x \in DOMAIN fs[i].scope,
         \A j \in 1 .. Len(fs) : x \in DOMAIN fs[j].scope => j = i
  PROVE  BlocksFit([fs EXCEPT ![i].scope[x].value = w], [map EXCEPT ![x] = u])
<1>1. PICK fr, map2, sc, r :
        /\ map2 = [map EXCEPT ![x] = u]
        /\ r = [fs[i].scope[x] EXCEPT !.value = w]
        /\ sc = [fs[i].scope EXCEPT ![x] = r]
        /\ fr = [fs[i] EXCEPT !.scope = sc]
  OBVIOUS
<1>2. FrameFits(fs[i], map)
  BY DEF BlocksFit
<1>3. r = [kind |-> fs[i].scope[x].kind, value |-> w] /\ x \in DOMAIN map
  <2>1. PICK o : o = fs[i].scope[x]
    OBVIOUS
  <2>2. o = [kind |-> o.kind, value |-> o.value] /\ x \in DOMAIN map
    BY <1>2, <2>1 DEF FrameFits
  <2>3. r = [o EXCEPT !.value = w]
    BY <1>1, <2>1
  <2>4. r = [kind |-> o.kind, value |-> w]
    BY <2>2, <2>3
  <2>5. QED
    BY <2>1, <2>2, <2>4
<1>4. r.value = w /\ r = [kind |-> r.kind, value |-> r.value]
  BY <1>3
<1>5. fr = [kind |-> fs[i].kind, live |-> fs[i].live, other |-> fs[i].other, scope |-> sc]
  BY <1>1, <1>2 DEF FrameFits
<1>6. fr.kind = fs[i].kind /\ fr.live = fs[i].live /\ fr.other = fs[i].other /\ fr.scope = sc
  BY <1>5
<1>7. DOMAIN sc = DOMAIN fs[i].scope /\ sc[x] = r
      /\ \A y \in DOMAIN fs[i].scope : y # x => sc[y] = fs[i].scope[y]
  BY <1>1
<1>8. DOMAIN map2 = DOMAIN map /\ map2[x] = u
      /\ \A y \in DOMAIN map : y # x => map2[y] = map[y]
  BY <1>1, <1>3
<1>9. FrameFits(fr, map2)
  <2>1. ASSUME NEW y \in DOMAIN sc
        PROVE  /\ sc[y] = [kind |-> sc[y].kind, value |-> sc[y].value]
               /\ y \in DOMAIN map2 /\ y \notin Globals
               /\ fr.live = Everywhere => Agree(map2[y], sc[y].value)
    <3>1. CASE y = x
      <4>1. x \notin Globals
        BY <1>2 DEF FrameFits
      <4>2. QED
        BY <1>3, <1>4, <1>7, <1>8, <3>1, <4>1
    <3>2. CASE y # x
      <4>1. y \in DOMAIN fs[i].scope /\ sc[y] = fs[i].scope[y]
        BY <1>7, <2>1, <3>2
      <4>2. y \in DOMAIN map /\ map2[y] = map[y]
        BY <1>2, <1>8, <3>2, <4>1 DEF FrameFits
      <4>3. QED
        BY <1>2, <1>6, <1>8, <4>1, <4>2 DEF FrameFits
    <3>3. QED
      BY <3>1, <3>2
  <2>2. QED
    BY <1>2, <1>5, <1>6, <2>1 DEF FrameFits
<1>10. ASSUME NEW j \in 1 .. Len(fs), j # i PROVE FrameFits(fs[j], map2)
  <2>1. FrameFits(fs[j], map)
    BY DEF BlocksFit
  <2>2. \A y \in DOMAIN fs[j].scope : y \in DOMAIN map2 /\ map2[y] = map[y]
    BY <1>8, <1>10, <2>1 DEF FrameFits
  <2>3. QED
    BY <2>1, <2>2, OtherMap
<1>11. \A j \in 1 .. Len(fs) : \A y \in DOMAIN fr.scope : j # i => y \notin DOMAIN fs[j].scope
  BY <1>6, <1>7 DEF BlocksFit, Apart
<1>12. BlocksFit(Replaced(fs, i, fr), map2)
  BY <1>6, <1>9, <1>10, <1>11, ReplaceBlock
<1>13. QED
  BY <1>1, <1>12 DEF Replaced

LEMMA BindKeeps ==
  ASSUME Tame, TargetsInv, NEW kind, NEW x, Bind(kind, x)
  PROVE  TargetsInv'
<1>1. OperandsFit' /\ made'["native"] = made'["js"] /\ Fits(Arg(0))
  BY StatementFits DEF Bind
<1>2. /\ x \notin DOMAIN Top.scope /\ x \notin Reserved /\ x \notin Globals
      /\ Scopes(x) \ {Len(frames)} = {}
  BY DEF Bind, Tame
<1>3. DOMAIN frames = 1 .. Len(frames)
  BY SeqFacts DEF TargetsInv, BlocksFit
<1>4. \A j \in 1 .. Len(frames) : x \notin DOMAIN frames[j].scope
  BY <1>2, <1>3 DEF Scopes, Top
<1>5. PICK u, w : /\ w = Arg(0)["js"].value
                  /\ u = IF Live("native") THEN Arg(0)["native"].value ELSE Nothing
  OBVIOUS
<1>6. frames[Len(frames)].live = Everywhere => Agree(u, w)
  BY <1>1, <1>5, TopFits DEF Fits, Top
<1>7. /\ frames' = [frames EXCEPT ![Len(frames)].scope = Put(@, x, [kind |-> kind, value |-> w])]
      /\ slots' = Put(slots, x, u) /\ result' = result
  BY <1>2, <1>5 DEF Bind, Declared, NoVariable
<1>8. PICK fs, map : fs = frames /\ map = slots
  OBVIOUS
<1>9. BlocksFit([fs EXCEPT ![Len(fs)].scope = Put(@, x, [kind |-> kind, value |-> w])], Put(map, x, u))
  BY <1>2, <1>4, <1>6, <1>8, DeclareBlock DEF TargetsInv
<1>10. BlocksFit(frames', slots')
  BY <1>7, <1>8, <1>9
<1>11. QED
  BY <1>1, <1>7, <1>10 DEF TargetsInv

LEMMA AssignKeeps ==
  ASSUME Tame, TargetsInv, NEW x, Assign(x)
  PROVE  TargetsInv'
<1>1. OperandsFit' /\ made'["native"] = made'["js"] /\ Fits(Arg(0))
  BY StatementFits DEF Assign
<1>2. PICK i, u, w : i = Innermost(x) /\ u = Arg(0)["native"].value /\ w = Arg(0)["js"].value
  OBVIOUS
<1>3. /\ i \in 1 .. Len(frames) /\ x \in DOMAIN frames[i].scope
      /\ \A j \in 1 .. Len(frames) : x \in DOMAIN frames[j].scope => j = i
  BY <1>2, ScopeOf DEF Assign
<1>4. /\ frames' = [frames EXCEPT ![i].scope[x].value = w]
      /\ slots' = [slots EXCEPT ![x] = u] /\ result' = result
  BY <1>2 DEF Assign, Tame
<1>5. Agree(u, w)
  BY <1>1, <1>2 DEF Fits
<1>6. PICK fs, map : fs = frames /\ map = slots
  OBVIOUS
<1>7. BlocksFit([fs EXCEPT ![i].scope[x].value = w], [map EXCEPT ![x] = u])
  BY <1>3, <1>5, <1>6, AssignBlock DEF TargetsInv
<1>8. BlocksFit(frames', slots')
  BY <1>4, <1>6, <1>7
<1>9. QED
  BY <1>1, <1>4, <1>8 DEF TargetsInv

(* Among the indices of open blocks there is a last one.                   *)
LEMMA LastOf ==
  ASSUME NEW n \in Nat, NEW T, T \subseteq 1 .. n, T # {}
  PROVE  \E m \in T : \A k \in T : k <= m
<1> DEFINE R == {ss \in Nat \X Nat : ss[1] < ss[2]}
           U == {n - k : k \in T}
<1>1. \A a, b \in Nat : a < b => <<a, b>> \in R
  OBVIOUS
<1>2. IsWellFoundedOn(R, Nat)
  BY NatLessThanWellFounded DEF OpToRel
<1>3. U \subseteq Nat /\ U # {}
  <2>1. \A k \in T : n - k \in Nat
    OBVIOUS
  <2>2. PICK k \in T : TRUE
    OBVIOUS
  <2>3. n - k \in U
    OBVIOUS
  <2>4. QED
    BY <2>1, <2>3
<1> HIDE DEF R, U
<1>4. PICK u \in U : \A w \in U : ~ (<<w, u>> \in R)
  BY <1>2, <1>3, WFMin
<1>5. PICK m \in T : u = n - m
  BY DEF U
<1>6. ASSUME NEW k \in T PROVE k <= m
  <2>1. n - k \in U /\ n - k \in Nat /\ u \in Nat /\ k \in Nat /\ m \in Nat
    BY <1>3 DEF U
  <2>2. ~ (n - k < u)
    BY <1>1, <1>4, <2>1
  <2>3. QED
    BY <1>5, <2>1, <2>2
<1>7. QED
  BY <1>6

(* An opened block has no names yet.                                       *)
LEMMA NewFrame ==
  ASSUME NEW kind, NEW live \in {Everywhere, Nowhere}, NEW other \in {Everywhere, Nowhere},
         live = Nowhere \/ other = Nowhere, NEW map
  PROVE  /\ FrameFits(Frame(kind, live, other), map)
         /\ Frame(kind, live, other).live = live /\ Frame(kind, live, other).other = other
         /\ DOMAIN Frame(kind, live, other).scope = {}
<1>1. PICK fr : fr = Frame(kind, live, other)
  OBVIOUS
<1>2. fr = [kind |-> kind, live |-> live, other |-> other, scope |-> <<>>]
  BY <1>1 DEF Frame
<1>3. DOMAIN <<>> = {}
  OBVIOUS
<1>4. fr.kind = kind /\ fr.live = live /\ fr.other = other /\ fr.scope = <<>>
  BY <1>2
<1>5. FrameFits(fr, map)
  BY <1>2, <1>3, <1>4 DEF FrameFits
<1>6. QED
  BY <1>1, <1>3, <1>4, <1>5

LEMMA ExprStmtKeeps == ASSUME TargetsInv, ExprStmt PROVE TargetsInv'
<1>1. OperandsFit' /\ made'["native"] = made'["js"] /\ frames' = frames
      /\ slots' = slots /\ result' = result
  BY StatementFits DEF ExprStmt
<1>2. QED
  BY <1>1 DEF TargetsInv

(* A condition decides the same for both.                                  *)
LEMMA IfKeeps == ASSUME Tame, TargetsInv, If PROVE TargetsInv'
<1> DEFINE live == [t \in Targets |-> Holds(t, Arg(0)[t].value)]
           other == [t \in Targets |-> ~Holds(t, Arg(0)[t].value)]
<1>1. OperandsFit' /\ made'["native"] = made'["js"] /\ Fits(Arg(0))
  BY StatementFits DEF If
<1>2. IsBool(Arg(0)["native"].value) /\ IsBool(Arg(0)["js"].value)
  BY TargetsAre DEF If, Tame
<1>3. PICK v : v = Arg(0)["js"].value
  OBVIOUS
<1>4. Arg(0)["native"].value = v /\ IsBool(v)
  BY <1>1, <1>2, <1>3, AgreeBool DEF Fits
<1>5. \A t \in Targets : Arg(0)[t].value = v
  BY <1>3, <1>4 DEF Targets
<1>6. \A t \in Targets : Holds(t, v) <=> v[2] # 0
  BY <1>4 DEF Holds
<1>7. PICK l, o : l = live /\ o = other
  OBVIOUS
<1>8. /\ l \in {Everywhere, Nowhere} /\ o \in {Everywhere, Nowhere}
      /\ l = Nowhere \/ o = Nowhere
  <2>1. CASE v[2] # 0
    <3>1. \A t \in Targets : Holds(t, Arg(0)[t].value) = TRUE /\ (~Holds(t, Arg(0)[t].value)) = FALSE
      BY <1>5, <1>6, <2>1
    <3>2. live = Everywhere /\ other = Nowhere
      BY <3>1 DEF Everywhere, Nowhere
    <3> HIDE DEF live, other
    <3>3. QED
      BY <1>7, <3>2
  <2>2. CASE v[2] = 0
    <3>1. \A t \in Targets : Holds(t, Arg(0)[t].value) = FALSE /\ (~Holds(t, Arg(0)[t].value)) = TRUE
      BY <1>5, <1>6, <2>2
    <3>2. live = Nowhere /\ other = Everywhere
      BY <3>1 DEF Everywhere, Nowhere
    <3> HIDE DEF live, other
    <3>3. QED
      BY <1>7, <3>2
  <2>3. QED
    BY <2>1, <2>2
<1>9. frames' = Append(frames, Frame("if", l, o)) /\ slots' = slots /\ result' = result /\ Running
  BY <1>7 DEF If
<1>10. PICK fr : fr = Frame("if", l, o)
  OBVIOUS
<1>11. FrameFits(fr, slots) /\ DOMAIN fr.scope = {}
  BY <1>8, <1>10, NewFrame
<1>12. frames[Len(frames)].live = Everywhere
  BY <1>9, TopFits DEF Top
<1>13. BlocksFit(Append(frames, fr), slots)
  BY <1>11, <1>12, AppendBlock DEF TargetsInv
<1>14. QED
  BY <1>1, <1>9, <1>10, <1>13 DEF TargetsInv

LEMMA LoopKeeps == ASSUME TargetsInv, Loop PROVE TargetsInv'
<1>1. OperandsFit' /\ made'["native"] = made'["js"]
  BY StatementFits DEF Loop
<1>2. PICK fr : fr = Frame("loop", Everywhere, Nowhere)
  OBVIOUS
<1>3. FrameFits(fr, slots) /\ DOMAIN fr.scope = {}
  BY <1>2, NewFrame
<1>4. frames' = Append(frames, fr) /\ slots' = slots /\ result' = result /\ Running
  BY <1>2 DEF Loop
<1>5. frames[Len(frames)].live = Everywhere
  BY <1>4, TopFits DEF Top
<1>6. BlocksFit(Append(frames, fr), slots)
  BY <1>3, <1>5, AppendBlock DEF TargetsInv
<1>7. QED
  BY <1>1, <1>4, <1>6 DEF TargetsInv

(* The other branch runs where the first did not.                          *)
LEMMA ElseKeeps == ASSUME TargetsInv, Else PROVE TargetsInv'
<1>1. /\ stack' = stack /\ made' = made /\ slots' = slots /\ result' = result
      /\ frames' = [frames EXCEPT ![Len(frames)] = Frame("else", Top.other, Nowhere)]
  BY DEF Else, Border
<1>2. OperandsFit'
  BY <1>1 DEF TargetsInv, OperandsFit, IsSeq
<1>3. Len(frames) \in 1 .. Len(frames) /\ Top.other \in {Everywhere, Nowhere}
  BY TopFits DEF FrameFits
<1>4. PICK fr : fr = Frame("else", Top.other, Nowhere)
  OBVIOUS
<1>5. FrameFits(fr, slots) /\ DOMAIN fr.scope = {} /\ fr.live = Top.other /\ fr.other = Nowhere
  BY <1>3, <1>4, NewFrame
<1>6. PICK fs, map, i : fs = frames /\ map = slots /\ i = Len(frames)
  OBVIOUS
<1>7. /\ BlocksFit(fs, map) /\ i \in 1 .. Len(fs) /\ i = Len(fs) /\ fr.live = fs[i].other
      /\ FrameFits(fr, map)
  BY <1>3, <1>5, <1>6 DEF TargetsInv, Top
<1>8. \A j \in 1 .. Len(fs) : FrameFits(fs[j], map)
  BY <1>7 DEF BlocksFit
<1>9. Everywhere \in {fr.live, fr.other} => Everywhere \in {fs[i].live, fs[i].other}
  BY <1>5, <1>7, Flags
<1>10. BlocksFit(Replaced(fs, i, fr), map)
  BY <1>5, <1>7, <1>8, <1>9, ReplaceBlock
<1>11. frames' = Replaced(fs, i, fr) /\ slots' = map
  BY <1>1, <1>4, <1>6 DEF Replaced
<1>12. QED
  BY <1>1, <1>2, <1>10, <1>11 DEF TargetsInv

LEMMA EndBlockKeeps == ASSUME TargetsInv, EndBlock PROVE TargetsInv'
<1>1. /\ stack' = stack /\ made' = made /\ slots' = slots /\ result' = result
      /\ frames' = Front(frames) /\ Len(frames) > 1
  BY DEF EndBlock, Border
<1>2. OperandsFit'
  BY <1>1 DEF TargetsInv, OperandsFit, IsSeq
<1>3. BlocksFit(Front(frames), slots)
  BY <1>1, FrontBlocks DEF TargetsInv
<1>4. QED
  BY <1>1, <1>2, <1>3 DEF TargetsInv

(* A block that stops stops the ones in it.                                *)
LEMMA StopKeeps ==
  ASSUME TargetsInv, Running, NEW i \in Nat, frames' = Stop(i), slots' = slots
  PROVE  BlocksFit(frames', slots')
<1>1. frames[Len(frames)].live = Everywhere
  BY TopFits DEF Top
<1>2. BlocksFit(Stopped(frames, i), slots)
  BY <1>1, StopBlocks DEF TargetsInv
<1>3. QED
  BY <1>2 DEF Stop, Stopped

LEMMA BreakKeeps == ASSUME TargetsInv, Break PROVE TargetsInv'
<1>1. OperandsFit' /\ made'["native"] = made'["js"]
  BY StatementFits DEF Break
<1>2. /\ Running /\ frames' = Stop(LoopFrame) /\ slots' = slots /\ result' = result
      /\ \E j \in DOMAIN frames : frames[j].kind = "loop"
  BY DEF Break
<1>3. DOMAIN frames = 1 .. Len(frames) /\ Len(frames) \in Nat
  BY SeqFacts DEF TargetsInv, BlocksFit
<1>4. LoopFrame \in 1 .. Len(frames)
  <2>1. PICK T : T = {j \in 1 .. Len(frames) : frames[j].kind = "loop"}
    OBVIOUS
  <2>2. \E m \in T : \A k \in T : k <= m
    <3>1. PICK j \in 1 .. Len(frames) : frames[j].kind = "loop"
      BY <1>2, <1>3
    <3>2. j \in T /\ T \subseteq 1 .. Len(frames)
      BY <2>1, <3>1
    <3>3. QED
      BY <1>3, <3>2, LastOf
  <2>3. \E m \in DOMAIN frames : /\ frames[m].kind = "loop"
                                 /\ \A j \in DOMAIN frames : frames[j].kind = "loop" => j <= m
    BY <1>3, <2>1, <2>2
  <2>4. QED
    BY <1>3, <2>3 DEF LoopFrame
<1>5. LoopFrame \in Nat
  BY <1>3, <1>4
<1>6. BlocksFit(frames', slots')
  BY <1>2, <1>5, StopKeeps
<1>7. QED
  BY <1>1, <1>2, <1>6 DEF TargetsInv

LEMMA ReturnKeeps == ASSUME TargetsInv, Return PROVE TargetsInv'
<1>1. OperandsFit' /\ made'["native"] = made'["js"] /\ Fits(Arg(0))
  BY StatementFits DEF Return
<1>2. /\ Running /\ frames' = Stop(1) /\ slots' = slots
      /\ result' = [t \in Targets |-> Arg(0)[t].value]
  BY DEF Return
<1>3. Alike(result'["native"], result'["js"])
  BY <1>1, <1>2, TargetsAre, AgreeIsAlike DEF Fits
<1>4. BlocksFit(frames', slots')
  BY <1>2, StopKeeps
<1>5. QED
  BY <1>1, <1>3, <1>4 DEF TargetsInv

LEMMA AlikeSame == \A v : Alike(v, v)
  BY DEF Alike

LEMMA FallOffKeeps == ASSUME Tame, TargetsInv, FallOff PROVE TargetsInv'
<1>1. OperandsFit' /\ made'["native"] = made'["js"]
  BY StatementFits DEF FallOff
<1>2. /\ Running /\ frames' = Stop(1) /\ slots' = slots
      /\ result' = [t \in Targets |-> <<"unit", 0>>]
  BY DEF FallOff, Tame
<1>3. Alike(result'["native"], result'["js"])
  BY <1>2, TargetsAre, AlikeSame
<1>4. BlocksFit(frames', slots')
  BY <1>2, StopKeeps
<1>5. QED
  BY <1>1, <1>3, <1>4 DEF TargetsInv

-----------------------------------------------------------------------------
LEMMA TargetsInitially == TargetInit => TargetsInv
<1> SUFFICES ASSUME TargetInit PROVE TargetsInv
  OBVIOUS
<1>1. OperandsFit
  <2>1. stack = <<>> /\ <<>> \in Seq({}) /\ Len(<<>>) = 0
    BY DEF TargetInit
  <2>2. IsSeq(stack) /\ \A i \in 1 .. Len(stack) : FALSE
    BY <2>1 DEF IsSeq
  <2>3. QED
    BY <2>2 DEF OperandsFit
<1>2. PICK n, fr, sc :
        /\ fr = [Frame("function", Everywhere, Nowhere) EXCEPT !.scope = sc]
        /\ sc = [x \in {Param} |-> [kind |-> "let", value |-> IntOf(n)]]
        /\ slots = [x \in {Param} |-> IntOf(n)] /\ frames = <<fr>>
  BY DEF TargetInit
<1>3. fr = [kind |-> "function", live |-> Everywhere, other |-> Nowhere, scope |-> sc]
  BY <1>2 DEF Frame
<1>4. fr.kind = "function" /\ fr.live = Everywhere /\ fr.other = Nowhere /\ fr.scope = sc
  BY <1>3
<1>5. FrameFits(fr, slots)
  <2>1. ASSUME NEW x \in DOMAIN sc
        PROVE  /\ sc[x] = [kind |-> sc[x].kind, value |-> sc[x].value]
               /\ x \in DOMAIN slots /\ x \notin Globals /\ Agree(slots[x], sc[x].value)
    <3>1. PICK v : v = IntOf(n)
      OBVIOUS
    <3>2. Agree(v, v)
      BY <3>1, IntsAgree
    <3>3. x \in {Param} /\ sc[x] = [kind |-> "let", value |-> v] /\ slots[x] = v
          /\ x \in DOMAIN slots /\ x \notin Globals
      BY <1>2, <3>1, NameAssumption
    <3>4. QED
      BY <3>2, <3>3
  <2>2. QED
    BY <1>3, <1>4, <2>1 DEF FrameFits
<1>6. BlocksFit(frames, slots)
  <2>1. <<fr>> \in Seq({fr}) /\ Len(<<fr>>) = 1 /\ <<fr>>[1] = fr
    OBVIOUS
  <2>2. IsSeq(frames) /\ Len(frames) = 1 /\ frames[1] = fr
    BY <1>2, <2>1 DEF IsSeq
  <2>3. \A i \in 1 .. Len(frames) : i = 1
    BY <2>2
  <2>4. Nested(frames) /\ Apart(frames)
    BY <2>3 DEF Nested, Apart
  <2>5. QED
    BY <1>5, <2>2, <2>3, <2>4 DEF BlocksFit
<1>7. made["native"] = made["js"] /\ Alike(result["native"], result["js"])
  BY TargetsAre, AlikeSame DEF TargetInit
<1>8. QED
  BY <1>1, <1>6, <1>7 DEF TargetsInv

(* What an expression leaves alone.                                        *)
LEMMA PushKeeps ==
  /\ \A n, cost, as, temp, e :
       PushAs(n, cost, as, temp, e) => UNCHANGED <<frames, slots, made, result>>
  /\ \A n, cost, e : Push(n, cost, e) => UNCHANGED <<frames, slots, made, result>>
  BY DEF PushAs, Push

LEMMA TargetsStep ==
  ASSUME Tame, TargetsInv, [TargetNext]_targetVars
  PROVE  TargetsInv'
<1>0. OperandsFit
  BY DEF TargetsInv
<1>24. Scopes(Function) = {} /\ Scopes(Struct) = {}
  BY NothingHidden DEF Globals
<1>1. CASE \E v \in Literals : Lit(v)
  BY <1>0, <1>1, LitFits, PushKeeps, ExpressionKeeps DEF Lit
<1>2. ASSUME NEW x \in Names, Ident(x) PROVE TargetsInv'
  BY <1>2, IdentFits, PushKeeps, ExpressionKeeps DEF Ident
<1>3. ASSUME NEW x \in Names, Assign(x) PROVE TargetsInv'
  BY <1>3, AssignKeeps
<1>4. CASE \E r \in Ints : Call(r)
  BY <1>0, <1>4, <1>24, CallFits, PushKeeps, ExpressionKeeps DEF Call
<1>5. CASE Sum
  BY <1>0, <1>5, SumFits, PushKeeps, ExpressionKeeps DEF Sum, Operation
<1>6. CASE Division
  BY <1>0, <1>6, DivisionFits, PushKeeps, ExpressionKeeps DEF Division, Operation, Tame
<1>7. CASE Less
  BY <1>0, <1>7, LessFits, PushKeeps, ExpressionKeeps DEF Less, Operation
<1>8. CASE Not
  BY <1>0, <1>8, NotFits, PushKeeps, ExpressionKeeps DEF Not
<1>9. ASSUME NEW op \in {"and", "or"}, Logic(op) PROVE TargetsInv'
  BY <1>0, <1>9, LogicFits, PushKeeps, ExpressionKeeps DEF Logic, Tame
<1>10. ASSUME NEW p, NEW q, Match(<<IntOf(p), IntOf(q)>>) PROVE TargetsInv'
  <2>1. PICK a, b : a = IntOf(p) /\ b = IntOf(q)
    OBVIOUS
  <2>2. Match(<<a, b>>)
    BY <1>10, <2>1
  <2>3. OperandsFit'
    BY <1>0, <2>2, MatchFits DEF Tame
  <2>4. QED
    BY <2>2, <2>3, PushKeeps, ExpressionKeeps DEF Match
<1>11. ASSUME NEW order \in {Fields, Reverse(Fields)}, StructLit(order) PROVE TargetsInv'
  <2>1. OperandsFit'
    BY <1>0, <1>11, <1>24, StructLitFits
  <2>2. QED
    BY <1>11, <2>1, PushKeeps, ExpressionKeeps DEF StructLit
<1>12. CASE \E f \in ToSet(Fields) : GetField(f)
  BY <1>0, <1>12, GetFieldFits, PushKeeps, ExpressionKeeps DEF GetField, Tame
<1>13. CASE \E kind \in {"const", "let"}, x \in Names : Bind(kind, x)
  BY <1>13, BindKeeps
<1>14. CASE ExprStmt
  BY <1>14, ExprStmtKeeps
<1>15. CASE If
  BY <1>15, IfKeeps
<1>16. CASE Else
  BY <1>16, ElseKeeps
<1>17. CASE Loop
  BY <1>17, LoopKeeps
<1>18. CASE Break
  BY <1>18, BreakKeeps
<1>19. CASE EndBlock
  BY <1>19, EndBlockKeeps
<1>20. CASE Return
  BY <1>20, ReturnKeeps
<1>21. CASE FallOff
  BY <1>21, FallOffKeeps
<1>22. CASE UNCHANGED targetVars
  BY <1>22 DEF targetVars, TargetsInv, OperandsFit, IsSeq
<1>23. QED
  BY <1>1, <1>2, <1>3, <1>4, <1>5, <1>6, <1>7, <1>8, <1>9, <1>10, <1>11, <1>12, <1>13,
     <1>14, <1>15, <1>16, <1>17, <1>18, <1>19, <1>20, <1>21, <1>22 DEF TargetNext

LEMMA TargetsInvImplies == TargetsInv => SameCalls /\ SameResult
<1> SUFFICES ASSUME TargetsInv PROVE SameCalls /\ SameResult
  OBVIOUS
<1>1. ASSUME NEW i \in DOMAIN frames PROVE frames[i].live["native"] = frames[i].live["js"]
  <2>1. i \in 1 .. Len(frames)
    BY SeqFacts DEF TargetsInv, BlocksFit
  <2>2. frames[i].live = Everywhere \/ frames[i].live = Nowhere
    BY <2>1 DEF TargetsInv, BlocksFit, FrameFits
  <2>3. QED
    BY <2>2, Flags
<1>2. QED
  BY <1>1 DEF TargetsInv, SameCalls, SameResult

(* Of a body without the forms with two meanings: what is on the stack,    *)
(* in the scopes and in native's map is the same for both targets at every *)
(* step, and every block runs for both or for neither (build_expr and      *)
(* build_stmt of roca-native, emit of roca-js).                            *)
THEOREM TargetsStayTogether == Tame => (TargetSpec => []TargetsInv)
<1> SUFFICES ASSUME Tame PROVE TargetSpec => []TargetsInv
  OBVIOUS
<1>1. TargetInit => TargetsInv
  BY TargetsInitially
<1>2. TargetsInv /\ [TargetNext]_targetVars => TargetsInv'
  BY TargetsStep
<1>3. QED
  BY <1>1, <1>2, PTL DEF TargetSpec

(* Outside those forms, which include names that JavaScript reserves, that *)
(* hide a function or a struct, and `_m` read in a match, both targets     *)
(* make the same calls with the same arguments in the same order, and      *)
(* leave out the same ones.                                                *)
THEOREM TargetsCallAlike == Tame => (TargetSpec => []SameCalls)
<1>1. TargetsInv => SameCalls
  BY TargetsInvImplies
<1>2. QED
  BY <1>1, TargetsStayTogether, PTL

(* Outside those forms both targets return the same value, a struct with   *)
(* the same fields.                                                        *)
THEOREM TargetsReturnAlike == Tame => (TargetSpec => []SameResult)
<1>1. TargetsInv => SameResult
  BY TargetsInvImplies
<1>2. QED
  BY <1>1, TargetsStayTogether, PTL
=============================================================================
