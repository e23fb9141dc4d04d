----------------------------- MODULE Ownership -----------------------------
(***************************************************************************)
(* The ownership walker of roca-parse (walker.rs) and its rules (rules.rs, *)
(* E-OWN-001 .. 010), walking the body of one function.                    *)
(*                                                                         *)
(* The body is chosen while it is walked: each action is one arm of        *)
(* walk_stmt, for any statement of the fragment Forms selects.  prog keeps *)
(* what was walked as a flat list, each entry with the table the walker    *)
(* had before it and the codes it reported there; frames is the recursion  *)
(* of walk_stmt into blocks.                                               *)
(*                                                                         *)
(* Every value is of a struct type, the only ones the rules bind: the      *)
(* rules about inferred types (E-TYP, E-STR) are left out, and so are      *)
(* argument expressions that mention no variable.  An object is a whole:   *)
(* that a field is an object of its own, which could be given away without *)
(* the rest, is left out.                                                  *)
(***************************************************************************)
EXTENDS Naturals, Sequences, SequencesExt

CONSTANTS
  Vars,       \* the names a function may bind
  Params,     \* the parameter lists it may have: tables without Consumed
  Shapes,     \* the parameter lists of the functions it may call
  Forms       \* for each statement of the body in turn, up to the last one
              \* there may be, the kinds of statement and expression it may have

ASSUME ParamAssumption == Params \subseteq [Vars -> {"absent", "Owned", "Borrowed"}]
ASSUME ShapeAssumption == Shapes \subseteq Seq({"o", "b", "none", "part"})
ASSUME FormAssumption == Forms \in Seq(SUBSET STRING)

VARIABLES
  table,    \* StateTable: what the walker knows of each name
  frames,   \* the blocks being walked, innermost last
  prog,     \* the statements walked so far
  phase     \* "walk", then "run"

walkVars == <<table, frames, prog, phase>>

Status == {"absent", "Owned", "Borrowed", "Consumed"}
Table == [Vars -> Status]

-----------------------------------------------------------------------------
(* Expressions: a new value, a name, a field of a name, a call, and larger *)
(* ones around names and calls: "wrapped" is one of the kinds that         *)
(* check_consumed_in_expr goes into, "opaque" one that it passes over: a   *)
(* match, an if, a cast, a wait, a variant, a closure or a block.          *)
(* An argument is a name passed to a parameter declared `o`, `b` or        *)
(* neither; "part" is a larger argument, such as x.f, or the receiver of   *)
(* x.m(): it uses x, but is not a name in the list of arguments.           *)

Arg == [var : Vars, own : {"o", "b", "none", "part"}]
ArgLists(shape) ==
  {[i \in DOMAIN shape |-> [var |-> f[i], own |-> shape[i]]] :
     f \in [DOMAIN shape -> Vars]}
Reads(kind) == {[kind |-> kind, args |-> <<[var |-> v, own |-> "none"]>>] : v \in Vars}
Value == [kind |-> "value", args |-> <<>>]
Expr ==
  {Value} \cup Reads("ident") \cup Reads("field") \cup
  {[kind |-> k, args |-> a] : k \in {"call", "wrapped", "opaque"},
                              a \in UNION {ArgLists(s) : s \in Shapes}}

Uses(e) == {e.args[i].var : i \in DOMAIN e.args}
Names(e) == {e.args[i].var : i \in {j \in DOMAIN e.args : e.args[j].own # "part"}}
Moves(e) == {e.args[i].var : i \in {j \in DOMAIN e.args : e.args[j].own = "o"}}

(* The definitions named Bug... are mistakes one could make in the code;    *)
(* the properties are tested against them.                                 *)
BugUseCodes(e, t) ==
  IF e.kind \in {"ident", "call"} /\ (\E v \in Uses(e) : t[v] = "Consumed")
  THEN {"E-OWN-004"} ELSE {}

(* check_consumed_in_expr: every name in the expression, but in the kinds  *)
(* of expression it passes over.                                           *)
UseCodes(e, t) ==
  IF e.kind # "opaque" /\ (\E v \in Uses(e) : t[v] = "Consumed")
  THEN {"E-OWN-004"} ELSE {}

(* check_call_arg of BorrowBeforePass and UseAfterMove, on the table before *)
(* the call: process_call asks the rules about every argument first, and   *)
(* they look at those that are names.                                      *)
CallCodes(e, t) ==
  IF e.kind # "call" THEN {} ELSE
  (IF \E v \in Names(e) : t[v] = "Consumed" THEN {"E-OWN-004"} ELSE {}) \cup
  (IF \E i \in DOMAIN e.args : e.args[i].own = "b" /\ t[e.args[i].var] = "Owned"
   THEN {"E-OWN-003"} ELSE {})

BugAfterCall(e, t) == t

(* process_call: what is passed to an `o` parameter is consumed, be it     *)
(* owned or borrowed.  A call inside a larger expression is not processed. *)
AfterCall(e, t) ==
  [v \in Vars |-> IF e.kind = "call" /\ v \in Moves(e) /\ t[v] # "absent"
                  THEN "Consumed" ELSE t[v]]

BugReturnLooksAgain(e, t, typed) ==
  UseCodes(e, t) \cup
  (IF e.kind \in {"ident", "field"} /\ (\E v \in Uses(e) : t[v] = "Borrowed")
   THEN {"E-OWN-006"} ELSE {})

(* check_return of UseAfterMove and ReturnOwned, on the table after the    *)
(* call.  A borrowed name is reported if its type was inferred (typed), a  *)
(* field of one whatever its type.                                         *)
ReturnCodes(e, t, typed) ==
  IF e.kind \notin {"ident", "field"} THEN {} ELSE
  UseCodes(e, t) \cup
  (IF (typed \/ e.kind = "field") /\ (\E v \in Uses(e) : t[v] = "Borrowed")
   THEN {"E-OWN-006"} ELSE {})

(* vars_newly_consumed *)
NewlyConsumed(before, after) ==
  {v \in Vars : after[v] = "Consumed" /\ before[v] \notin {"absent", "Consumed"}}

(* check_branch of BranchSymmetry; a missing else consumes nothing. *)
BranchCodes(thenSet, elseSet) == IF thenSet # elseSet THEN {"E-OWN-009"} ELSE {}

BugNoLoopCodes(f, after) == {}
(* check_loop_body of LoopConsumption *)
LoopCodes(f, after) ==
  IF \E v \in Vars : /\ f.before[v] = "Owned"
                     /\ after[v] = "Consumed"
                     /\ v \notin f.reassigned
  THEN {"E-OWN-010"} ELSE {}

-----------------------------------------------------------------------------
(* Which statements the enumerated bodies contain.  Every name mentioned   *)
(* is in scope.                                                            *)

NumStmts == Cardinality({i \in DOMAIN prog : prog[i].op \notin {"else", "end"}})
Form(f) == NumStmts < Len(Forms) /\ f \in Forms[NumStmts + 1]

Copies(e) == e.kind \in {"ident", "field"}
InScope(e) == \A v \in Uses(e) : table[v] # "absent"
Lent(v) == \E i \in DOMAIN prog :
  prog[i].op = "let" /\ Copies(prog[i].expr) /\ v \in Uses(prog[i].expr)
(* Of these names, used where the walker does not look for them, one was   *)
(* consumed: its use is not reported.                                      *)
Unseen(names) == (\E v \in names : table[v] = "Consumed") => Form("uncheckedUse")
Allowed(e) ==
  /\ Form(e.kind) /\ InScope(e)
  /\ e.kind = "opaque" => Unseen(Uses(e))
  /\ \A i, j \in DOMAIN e.args :
       e.args[i].var = e.args[j].var => i = j \/ Form("dupArg")
  /\ \A v \in Moves(e) :
       /\ table[v] = "Borrowed" => Form("moveBorrow")
       /\ Lent(v) => Form("moveLent")
  /\ e.kind \in {"wrapped", "opaque"} /\ Moves(e) # {} => Form("uncheckedMove")

(* An expression in a place where the walker does not look. *)
Unchecked(e) ==
  /\ Allowed(e) /\ Unseen(Uses(e))
  /\ Moves(e) # {} => Form("uncheckedMove")

(* A name bound before is bound again, at that depth of blocks: its entry  *)
(* in the table is replaced.                                               *)
Rebinds(x, depth) ==
  table[x] # "absent" => Form(IF depth = 0 THEN "rebind" ELSE "rebindInBlock")

-----------------------------------------------------------------------------
(* walk_stmt *)

Top == frames[Len(frames)]
InLoop == \E i \in DOMAIN frames : frames[i].kind \in {"loop", "for"}

Entry(op, x, e, codes, depth) ==
  [op |-> op, var |-> x, expr |-> e, codes |-> codes, depth |-> depth, pre |-> table]

(* One statement that opens no block. *)
Plain(op, x, e, codes, t) ==
  /\ prog' = Append(prog, Entry(op, x, e, codes, Len(frames)))
  /\ table' = t
  /\ UNCHANGED phase

NoVar == "-"

(* const x = e *)
Const(x, e) ==
  /\ Rebinds(x, Len(frames)) /\ Allowed(e) /\ (Copies(e) => Form("alias"))
  /\ Plain("const", x, e, UseCodes(e, table) \cup CallCodes(e, table),
           [AfterCall(e, table) EXCEPT ![x] = "Owned"])
  /\ UNCHANGED frames

(* let x = e: only E-OWN-002 looks at it *)
Let(x, e) ==
  /\ Rebinds(x, Len(frames)) /\ Unchecked(e)
  /\ Plain("let", x, e, IF e = Value THEN {"E-OWN-002"} ELSE {},
           [table EXCEPT ![x] = "Borrowed"])
  /\ UNCHANGED frames

(* var x = e *)
Var(x, e) ==
  /\ Form("var")
  /\ Rebinds(x, Len(frames)) /\ Unchecked(e) /\ (Copies(e) => Form("alias"))
  /\ Plain("var", x, e, {}, [table EXCEPT ![x] = "Owned"])
  /\ UNCHANGED frames

(* x = e: a loop body remembers the names it assigns at its own level *)
Assign(x, e) ==
  /\ Form("assign")
  /\ table[x] # "absent" /\ Unchecked(e) /\ (Copies(e) => Form("alias"))
  /\ frames # <<>> => Form("assignInBlock")
  /\ Plain("assign", x, e, {}, [table EXCEPT ![x] = "Owned"])
  /\ frames' = IF frames = <<>> THEN frames
               ELSE [frames EXCEPT ![Len(frames)].reassigned = @ \cup {x}]

(* e as a statement *)
ExprStmt(e) ==
  /\ IF e.kind = "call" THEN Allowed(e) ELSE Unchecked(e)
  /\ e.kind = "call" => Unseen(Uses(e) \ Names(e))
  /\ Plain("expr", NoVar, e,
           CallCodes(e, table) \cup (IF e = Value THEN {"E-OWN-001"} ELSE {}),
           AfterCall(e, table))
  /\ UNCHANGED frames

(* self.f = e: no ownership checks, and self has no entry in the table.    *)
SetField(e) ==
  /\ Form("setField")
  /\ Unchecked(e)
  /\ Plain("set", NoVar, e, {}, table)
  /\ UNCHANGED frames

Return(e) ==
  /\ Allowed(e)
  /\ \E typed \in BOOLEAN :
       LET after == AfterCall(e, table) IN
       /\ typed \/ Form("untyped")
       /\ Plain("return", NoVar, e,
                UseCodes(e, table) \cup CallCodes(e, table) \cup
                  ReturnCodes(e, after, typed),
                after)
  /\ UNCHANGED frames

(* break, continue: the walker goes on with the next statement *)
Jump(op) ==
  /\ Form(op) /\ InLoop
  /\ Plain(op, NoVar, Value, {}, table)
  /\ UNCHANGED frames

(* The walker clones its table on the way into a block. *)
Open(kind, x, e, t) ==
  /\ Form(kind)
  /\ Plain(kind, x, e, {}, t)
  /\ frames' = Append(frames, [kind |-> kind, before |-> table,
                               consumed |-> {}, reassigned |-> {}])

BugIfNewTable(cond) ==
  /\ Unchecked(cond) /\ (cond # Value => Form("cond"))
  /\ Open("if", NoVar, cond, [v \in Vars |-> "absent"])

(* Neither a condition nor the sequence of a for is looked at. *)
If(cond) ==
  Unchecked(cond) /\ (cond # Value => Form("cond")) /\ Open("if", NoVar, cond, table)
Loop == Open("loop", NoVar, Value, table)
For(x, iter) ==
  /\ Rebinds(x, Len(frames) + 1) /\ Unchecked(iter) /\ Moves(iter) = {}
  /\ iter # Value => Form("cond")
  /\ Open("for", x, iter, [table EXCEPT ![x] = "Owned"])

Close(kinds, op, codes, t) ==
  /\ frames # <<>> /\ Top.kind \in kinds
  /\ prog' = Append(prog, Entry(op, NoVar, Value, codes, Len(frames) - 1))
  /\ table' = t
  /\ UNCHANGED phase

BugElseGoesOn ==
  /\ Close({"if"}, "else", {}, table)
  /\ frames' = Append(Front(frames),
       [Top EXCEPT !.kind = "else", !.consumed = NewlyConsumed(Top.before, table)])

(* The else block starts again from the table before the if. *)
Else ==
  /\ Close({"if"}, "else", {}, Top.before)
  /\ frames' = Append(Front(frames),
       [Top EXCEPT !.kind = "else", !.consumed = NewlyConsumed(Top.before, table)])

EndIf ==
  /\ LET new == NewlyConsumed(Top.before, table) IN
     \/ Close({"if"}, "end", BranchCodes(new, {}), Top.before)
     \/ Close({"else"}, "end", BranchCodes(Top.consumed, new),
              [v \in Vars |-> IF v \in Top.consumed \cap new
                              THEN "Consumed" ELSE Top.before[v]])
  /\ frames' = Front(frames)

(* What a loop body consumed is consumed after the loop ... *)
EndLoop ==
  /\ Close({"loop"}, "end", LoopCodes(Top, table),
           [v \in Vars |-> IF table[v] = "Consumed" /\ Top.before[v] # "absent"
                           THEN "Consumed" ELSE Top.before[v]])
  /\ frames' = Front(frames)

(* ... but not what a for body consumed. *)
EndFor ==
  /\ Close({"for"}, "end", LoopCodes(Top, table), Top.before)
  /\ frames' = Front(frames)

Bind(x, e) == Const(x, e) \/ Let(x, e) \/ Var(x, e) \/ Assign(x, e)

Walk ==
  /\ phase = "walk"
  /\ \/ \E x \in Vars, e \in Expr : Bind(x, e) \/ For(x, e)
     \/ \E e \in Expr : ExprStmt(e) \/ SetField(e) \/ Return(e) \/ If(e)
     \/ Loop \/ Else \/ EndIf \/ EndLoop \/ EndFor
     \/ \E op \in {"break", "continue"} : Jump(op)

(* walk_function: the parameters, then the body. *)
WalkInit ==
  /\ table \in Params
  /\ frames = <<>> /\ prog = <<>> /\ phase = "walk"

(* ParseResult.is_ok: E-OWN-007, a note, is not among the codes. *)
Accepted == \A i \in DOMAIN prog : prog[i].codes = {}
=============================================================================
