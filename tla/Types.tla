-------------------------------- MODULE Types --------------------------------
(***************************************************************************)
(* The type of an expression is found three times, by three functions that *)
(* must agree: infer_expr_type of roca-parse (rule.rs), which the rules of *)
(* E-TYP-001 decide by; infer_expr_type of roca-native (compiler.rs),      *)
(* which decides what conversions are emitted; and compile_expr, whose     *)
(* instructions give the value the type it really has.                     *)
(*                                                                         *)
(* All three work bottom-up, so an expression is kept as what they find of *)
(* it, and a function body is walked as a stack of such expressions: each  *)
(* action applies one operator to the topmost ones, or ends a statement    *)
(* with them.                                                              *)
(*                                                                         *)
(* There is one struct type.  What instructions compute is left out.       *)
(***************************************************************************)
EXTENDS Naturals, Sequences, SequencesExt

CONSTANTS
  Names,    \* local variables
  Basic,    \* the primitive types in play
  Sigs,     \* the functions that may be called: [params, ret, static]
  Forms,    \* the kinds of expression and statement
  MaxStack  \* bound on the operands waiting at one time

Primitive == {"Int", "Float", "Bool", "String"}
Struct == "Struct"
Type == Basic \cup {Struct}
Unknown == "unknown"       \* None of infer_expr_type

ASSUME BasicAssumption == Basic \subseteq Primitive
ASSUME SigAssumption == Sigs \subseteq [params : Seq(Type), ret : Type, static : BOOLEAN]
ASSUME StackAssumption == MaxStack \in Nat

VARIABLES
  ret,      \* the declared return type
  env,      \* the locals
  stack,    \* the operands, last one topmost
  flagged,  \* E-TYP-001 was reported
  valid     \* the instructions emitted so far are well-typed

typeVars == <<ret, env, stack, flagged, valid>>

(* roca_type_to_clif *)
ClifOf(t) == CASE t = "Float" -> "F64" [] t = "Bool" -> "I8" [] OTHER -> "I64"
Clif == {"I64", "F64", "I8"}
Ints == {"I64", "I8"}

(* ty: the checker's type; inf: the back end's; clif: the value's; binop   *)
(* and arg: whether check_binop_types and check_call_arg_types object;     *)
(* known: the back end takes it for a struct it knows; guess: inf rests on *)
(* the I64 it answers where it has no type; ok: the value's instructions   *)
(* are well-typed.                                                         *)
Expr(ty, inf, clif) ==
  [ty |-> ty, inf |-> inf, clif |-> clif,
   binop |-> FALSE, arg |-> FALSE, known |-> FALSE, guess |-> FALSE, ok |-> TRUE]
Guess(ty, clif) == [Expr(ty, "I64", clif) EXCEPT !.guess = TRUE]

Differ(t, u) == t # Unknown /\ u # Unknown /\ t # u

(* coerce, told that a value of type v is of type from: the value's type   *)
(* afterwards, and whether the instruction accepts it.                     *)
Coerced(v, from, to) == IF from = to THEN v ELSE to
CoerceValid(v, from, to) ==
  \/ from = to
  \/ from = "I64" /\ to = "F64" /\ v \in Ints
  \/ ~(from = "I64" /\ to = "F64") /\ v = from

(* compile_binop: F64 wins over I64 wins over I8. *)
Dominant(a, c) == IF "F64" \in {a, c} THEN "F64" ELSE IF "I64" \in {a, c} THEN "I64" ELSE "I8"

Ops == {"arith", "mod", "compare", "logic"}

BugBinOpFlag(l, r) == Differ(l.ty, r.ty)

(* check_binop_types looks into operands that are binary operations too. *)
BinOpFlag(l, r) == Differ(l.ty, r.ty) \/ l.binop \/ r.binop

OperandsOf(l, r) ==
  LET to == Dominant(l.inf, r.inf)
  IN [to |-> to, l |-> Coerced(l.clif, l.inf, to), r |-> Coerced(r.clif, r.inf, to),
      valid |-> CoerceValid(l.clif, l.inf, to) /\ CoerceValid(r.clif, r.inf, to)]
OpValid(op, l, r) ==
  LET o == OperandsOf(l, r)
  IN /\ o.valid /\ o.l = o.r
     /\ op \in {"arith", "compare"} => (o.l = "F64" <=> o.to = "F64")
     /\ op = "mod" => o.l \in Ints

(* Arithmetic has the left operand's type, for the checker; for the back   *)
(* end F64 if an operand has it.                                           *)
BinOp(op, l, r) ==
  LET o == OperandsOf(l, r)
      arith == op \in {"arith", "mod"}
  IN [Expr(IF arith THEN l.ty ELSE "Bool",
           IF ~arith THEN "I8" ELSE IF "F64" \in {l.inf, r.inf} THEN "F64" ELSE l.inf,
           IF op = "compare" THEN "I8" ELSE o.l)
      EXCEPT !.binop = BinOpFlag(l, r), !.guess = arith /\ (l.guess \/ r.guess)]

(* check_call_arg_types compares the arguments that have a parameter, and  *)
(* does not count them.                                                    *)
ArgFlag(sig, args) ==
  \E i \in 1 .. Len(args) : i <= Len(sig.params) /\ Differ(args[i].ty, sig.params[i])

BugCallInfer(sig, args) ==
  [Expr(sig.ret, "I64", ClifOf(sig.ret)) EXCEPT !.arg = ArgFlag(sig, args)]

(* compile_call; infer_expr_type finds the function by its name.  Whatever *)
(* T.f() returns is taken for a T.                                         *)
Call(sig, args) ==
  [Expr(sig.ret, ClifOf(sig.ret), ClifOf(sig.ret)) EXCEPT
     !.arg = ArgFlag(sig, args), !.known = sig.static]

-----------------------------------------------------------------------------
Absent == [ty |-> "absent", clif |-> "I64", known |-> FALSE]
Params == [ty : Type, clif : Clif, known : {FALSE}]

(* Some of the names are parameters. *)
Init ==
  /\ ret \in Type
  /\ env \in [Names -> {Absent} \cup {p \in Params : p.clif = ClifOf(p.ty)}]
  /\ stack = <<>> /\ flagged = FALSE /\ valid = TRUE

Arg(n) == stack[Len(stack) - n]       \* Arg(0) is topmost
Rest(n) == SubSeq(stack, 1, Len(stack) - n)

(* Nothing more is written after what is rejected or does not compile. *)
Has(n) == ~flagged /\ valid /\ Len(stack) >= n

Operand(e) ==
  /\ Has(0) /\ Len(stack) < MaxStack
  /\ stack' = Append(stack, e)
  /\ UNCHANGED <<ret, env, flagged, valid>>

Operation(n, e, isValid) ==
  /\ stack' = Append(Rest(n), [e EXCEPT !.ok = isValid /\ \A i \in 0 .. n - 1 : Arg(i).ok])
  /\ UNCHANGED <<ret, env, flagged, valid>>

(* The programs that are considered.  Forms that are left out: "unchecked" *)
(* has errors where no rule looks for them, "misread" has conversions of   *)
(* values whose type the back end infers wrongly, "arity" calls with too   *)
(* few or too many arguments, "undeclared" names that are not declared.    *)
Unchecked(e, mismatch) == e.binop \/ e.arg \/ mismatch => "unchecked" \in Forms
Converts(e) == e.inf = e.clif \/ "misread" \in Forms

Lit(t) == Operand(Expr(t, ClifOf(t), ClifOf(t)))

(* A name that is not declared has no type, and var_get panics.            *)
Ident(x) ==
  /\ env[x] # Absent \/ "undeclared" \in Forms
  /\ Operand([Expr(IF env[x] = Absent THEN Unknown ELSE env[x].ty, env[x].clif, env[x].clif)
               EXCEPT !.ok = env[x] # Absent])

(* The rule for operands looks for operands in operands, and for nothing   *)
(* else.                                                                   *)
Binary(op) ==
  /\ op \in Forms /\ Has(2)
  /\ \A n \in 0 .. 1 :
       /\ Converts(Arg(n))
       /\ Unchecked([Arg(n) EXCEPT !.binop = FALSE],
            \/ op = "logic" /\ Arg(n).ty # "Bool"
            \/ Arg(n).ty = Unknown /\ Arg(0).clif # Arg(1).clif)
       /\ op = "mod" => Arg(n).clif # "F64" \/ "floats" \in Forms
  /\ Operation(2, BinOp(op, Arg(1), Arg(0)), OpValid(op, Arg(1), Arg(0)))

(* What the back end infers of a unary operation is I64. *)
Not ==
  /\ "not" \in Forms /\ Has(1)
  /\ Unchecked(Arg(0), Arg(0).ty # "Bool")
  /\ Operation(1, Guess("Bool", "I8"), Arg(0).clif = "I8")
Neg ==
  /\ "neg" \in Forms /\ Has(1)
  /\ Converts(Arg(0)) /\ Unchecked(Arg(0), FALSE)
  /\ Operation(1, Guess(Arg(0).ty, Arg(0).clif),
               Arg(0).clif = "F64" <=> Arg(0).inf = "F64")

(* f(e1, ..., en): the last argument is topmost.  An instruction with more *)
(* or fewer arguments than the signature is not well-typed.                *)
Args(n) == [i \in 1 .. n |-> Arg(n - i)]
Takes(sig, args) ==
  /\ Len(args) = Len(sig.params)
  /\ \A i \in 1 .. Len(args) : args[i].clif = ClifOf(sig.params[i])
CallFunction(sig, n) ==
  /\ "call" \in Forms /\ Has(n)
  /\ n = 0 => Len(stack) < MaxStack
  /\ n = Len(sig.params) \/ "arity" \in Forms
  /\ \A i \in 1 .. n :
       Unchecked(Args(n)[i], /\ i <= Len(sig.params) /\ Args(n)[i].ty = Unknown
                             /\ Args(n)[i].clif # ClifOf(sig.params[i]))
  /\ Operation(n, Call(sig, Args(n)), Takes(sig, Args(n)))

(* T { f: e }: every field is stored as an F64. *)
StructLit ==
  /\ "struct" \in Forms /\ Has(1)
  /\ Converts(Arg(0)) /\ Unchecked(Arg(0), FALSE)
  /\ Operation(1, [Expr(Struct, "I64", "I64") EXCEPT !.known = TRUE],
               /\ CoerceValid(Arg(0).clif, Arg(0).inf, "F64")
               /\ Coerced(Arg(0).clif, Arg(0).inf, "F64") = "F64")

(* A field of a local.  When the back end knows the struct the word is     *)
(* converted to the field's type, otherwise it is left an F64.             *)
GetField(x, t) ==
  /\ "field" \in Forms
  /\ env[x].ty = Struct
  /\ env[x].known \/ "misread" \in Forms
  /\ Operand(Guess(t, IF env[x].known THEN ClifOf(t) ELSE "F64"))

(* self.f: the checker does not know what self is, the back end does. *)
GetSelfField(t) == "field" \in Forms /\ Operand(Guess(Unknown, ClifOf(t)))

(* x.m(): the signature is looked up under the variable's name, and not    *)
(* found, by both.  If the back end knows no struct the call is a 0.       *)
CallMethod(x, t) ==
  /\ "method" \in Forms
  /\ env[x].ty = Struct
  /\ Operand(Guess(Unknown, IF env[x].known THEN ClifOf(t) ELSE "I64"))

(* The merge block has the type inferred for the first arm, and the result *)
(* is not given it: what is inferred for the whole is I64.                 *)
Merged(first) == Guess(Unknown, first)
Fit(first) == \A n \in 0 .. 1 : Arg(n).clif = first
Arms(first) ==
  /\ Arg(1).clif = first \/ "misread" \in Forms
  /\ \A n \in 0 .. 2 : Unchecked(Arg(n), Arg(0).clif # Arg(1).clif)

(* coerce_to_i8, and brif. *)
Condition(e) ==
  /\ CoerceValid(e.clif, e.inf, "I8")
  /\ Coerced(e.clif, e.inf, "I8") \in Ints

(* The arms of a conditional are blocks, and a block is taken for an I64. *)
IfExpr ==
  /\ "ifExpr" \in Forms /\ Has(3) /\ Arms("I64") /\ Converts(Arg(2))
  /\ Operation(3, Merged("I64"), Condition(Arg(2)) /\ Fit("I64"))

(* A literal arm and a wildcard: the pattern is of type t, and compared as *)
(* an integer.  There are no Float patterns.                               *)
MatchExpr(t) ==
  /\ "match" \in Forms /\ t # "Float" /\ Has(3) /\ Arms(Arg(1).inf)
  /\ Unchecked(Arg(2), Arg(2).clif # ClifOf(t))
  /\ Operation(3, Merged(Arg(1).inf), Arg(2).clif = ClifOf(t) /\ Fit(Arg(1).inf))

-----------------------------------------------------------------------------
(* Statements take the one expression there is. *)
Statement(objects, isValid, newEnv) ==
  /\ Len(stack) = 1
  /\ flagged' = objects
  /\ valid' = (isValid /\ Arg(0).ok)
  /\ env' = newEnv
  /\ stack' = <<>>
  /\ UNCHANGED ret

(* const, let, var: the variable gets the type the back end infers. *)
Bind(x) ==
  /\ env[x] = Absent /\ Has(1) /\ Converts(Arg(0))
  /\ Statement(Arg(0).binop \/ Arg(0).arg, Arg(0).clif = Arg(0).inf,
       [env EXCEPT ![x] = [ty |-> Arg(0).ty, clif |-> Arg(0).inf, known |-> Arg(0).known]])

(* x = e: the checker goes on with the new type, the back end with the one *)
(* the variable has; no rule compares them, and none looks at a call.  If  *)
(* it is not declared var_set panics.                                      *)
Assign(x) ==
  /\ "assign" \in Forms /\ Has(1)
  /\ env[x] # Absent \/ "undeclared" \in Forms
  /\ Unchecked([Arg(0) EXCEPT !.binop = FALSE],
       /\ env[x] # Absent
       /\ \/ Arg(0).ty # env[x].ty
          \/ Arg(0).ty = Unknown /\ Arg(0).clif # env[x].clif)
  /\ Statement(Arg(0).binop, env[x] # Absent /\ Arg(0).clif = env[x].clif,
       [env EXCEPT ![x].ty = Arg(0).ty])

(* The rules object to operands, to the arguments of a call, and to a      *)
(* value that is not of the declared type.                                 *)
Return ==
  /\ Has(1) /\ Converts(Arg(0))
  /\ LET e == Arg(0) IN
     Statement(e.binop \/ e.arg \/ Differ(ret, e.ty),
       /\ CoerceValid(e.clif, e.inf, ClifOf(ret))
       /\ Coerced(e.clif, e.inf, ClifOf(ret)) = ClifOf(ret),
       env)

ExprStmt ==
  /\ "expr" \in Forms /\ Has(1) /\ Unchecked(Arg(0), FALSE)
  /\ Statement(FALSE, TRUE, env)

IfCondition ==
  /\ "if" \in Forms /\ Has(1) /\ Converts(Arg(0)) /\ Unchecked(Arg(0), FALSE)
  /\ Statement(FALSE, Condition(Arg(0)), env)

(* self.f = e: stored as an F64, and not looked at by any rule. *)
SetField ==
  /\ "setField" \in Forms /\ Has(1)
  /\ Converts(Arg(0)) /\ Unchecked(Arg(0), FALSE)
  /\ Statement(FALSE,
       /\ CoerceValid(Arg(0).clif, Arg(0).inf, "F64")
       /\ Coerced(Arg(0).clif, Arg(0).inf, "F64") = "F64", env)

Next ==
  \/ \E t \in Basic : Lit(t) \/ MatchExpr(t)
  \/ \E x \in Names : Ident(x) \/ Bind(x) \/ Assign(x)
  \/ \E t \in Type : GetSelfField(t)
  \/ \E x \in Names, t \in Type : GetField(x, t) \/ CallMethod(x, t)
  \/ \E op \in Ops : Binary(op)
  \/ \E sig \in Sigs, n \in 0 .. MaxStack : CallFunction(sig, n)
  \/ Not \/ Neg \/ StructLit \/ IfExpr \/ Return \/ ExprStmt \/ IfCondition \/ SetField

Spec == Init /\ [][Next]_typeVars

-----------------------------------------------------------------------------
(* What the checker accepts the native back end compiles: it never emits   *)
(* an instruction, a block argument or a variable of the wrong type.       *)
AcceptedCompiles == ~flagged => valid

(* Where the back end has found a type, and not fallen back on I64, it is  *)
(* the checker's and the value's: in an expression that is not in error    *)
(* all three agree ("The checker fills `ty` during its walk.  The compiler *)
(* reads it").                                                             *)
TypesAgree ==
  \A i \in DOMAIN stack :
    stack[i].ok /\ ~stack[i].binop /\ ~stack[i].guess =>
      /\ stack[i].inf = stack[i].clif
      /\ stack[i].ty # Unknown => stack[i].inf = ClifOf(stack[i].ty)
=============================================================================
