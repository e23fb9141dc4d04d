------------------------------- MODULE Codegen -------------------------------
(***************************************************************************)
(* compile_function of roca-native (compiler.rs): a function body is       *)
(* compiled statement by statement to a graph of blocks.                   *)
(*                                                                         *)
(* The body is chosen while it is compiled: each action is one arm of      *)
(* compile_stmt, or a stage of one that opens blocks, for any statement of *)
(* the fragment Forms selects.  frames is the recursion of compile_stmt.   *)
(* What is computed is left out: a statement declares, sets or uses one    *)
(* name, an expression is one instruction, or a match or an if with        *)
(* blocks as its arms.                                                     *)
(*                                                                         *)
(* ArraySet, For and Continue panic in compile_stmt and are not among the  *)
(* statements; neither are variant patterns, a match with no arm (which    *)
(* panics too) and closures.                                               *)
(***************************************************************************)
EXTENDS Flow, SequencesExt, FiniteSets

CONSTANTS
  Names,     \* the names a body may declare
  Forms,     \* the kinds of statement it may contain
  MaxStmts   \* bound on its statements

ASSUME StmtAssumption == MaxStmts \in Nat

INSTANCE NativeBuilder

VARIABLES
  prog,     \* the statements compiled so far
  frames,   \* the blocks of the body being compiled, innermost last
  b,        \* the builder
  phase     \* "compile", then "run"

genVars == <<prog, frames, b, phase>>

Top == frames[Len(frames)]
Next1 == Len(prog) + 1
NumStmts == Len(SelectSeq(prog, LAMBDA s : s.op # "end"))
InLoop == \E i \in DOMAIN frames : frames[i].kind = "loop"
InArm == \E i \in DOMAIN frames : frames[i].kind \in {"arm", "ifExpr", "elseExpr"}

(* The declaration a name refers to at entry i: the last one in a block    *)
(* around it (0: none).                                                    *)
Lexical(i, x) ==
  Max({0} \cup {j \in 1 .. i - 1 :
    prog[j].op = "decl" /\ prog[j].var = x /\ Encloses(prog, j, i)})

Entry(op, x, depth) == [op |-> op, var |-> x, depth |-> depth]
NoVar == "-"

Room == phase = "compile" /\ NumStmts < MaxStmts

(* compile_block leaves out what follows a terminator. *)
Compiled(builder) == b' = IF b.terminated THEN b ELSE builder

Plain(op, x, builder) ==
  /\ Room
  /\ prog' = Append(prog, Entry(op, x, Len(frames)))
  /\ Compiled(builder)
  /\ UNCHANGED <<frames, phase>>

(* Let, Var *)
Declare(x) ==
  /\ "decl" \in Forms
  /\ Lexical(Next1, x) # 0 => "shadow" \in Forms
  /\ Plain("decl", x, VarDeclare(b, x, Next1))

(* Assign, Expr of a name *)
Access(op, x) ==
  /\ op \in Forms /\ Lexical(Next1, x) # 0
  /\ Plain(op, x, VarGet(b, x, Next1))

(* Expr of anything else *)
ExprStmt == "expr" \in Forms /\ Plain("expr", NoVar, Emit(b, Next1, 0))

Return ==
  /\ "return" \in Forms
  /\ InArm => "exitArm" \in Forms
  /\ Plain("return", NoVar, ReturnVal(Emit(b, Next1, 0)))

Break ==
  /\ "loop" \in Forms /\ (~InLoop => "strayBreak" \in Forms)
  /\ InArm => "exitArm" \in Forms
  /\ Plain("break", NoVar, BreakLoop(b))

-----------------------------------------------------------------------------
(* Statements and expressions with blocks.                                 *)

Frame(kind, header, merge, next) ==
  [kind |-> kind, live |-> ~b.terminated,
   header |-> header, merge |-> merge, next |-> next, last |-> FALSE]

Open(entries, frame, builder) ==
  /\ Room
  /\ prog' = prog \o entries
  /\ frames' = Append(frames, frame)
  /\ Compiled(builder)
  /\ UNCHANGED phase

Here(op) == Entry(op, NoVar, Len(frames))
Outside(op) == Entry(op, NoVar, Len(frames) - 1)
In(kinds) == phase = "compile" /\ frames # <<>> /\ Top.kind \in kinds
InsteadOfTop(frame) == Append(Front(frames), frame)

(* On to the next part of the innermost block, or out of it; no code for   *)
(* a block that is dead as a whole.                                        *)
Go(entries, newFrames, builder) ==
  /\ prog' = prog \o entries
  /\ frames' = newFrames
  /\ b' = IF Top.live THEN builder ELSE b
  /\ UNCHANGED phase

New(n) == Len(b.blocks) + n

(* If: its then block is New(1), the merge block New(2), else New(3). *)
If(withElse) ==
  /\ "if" \in Forms
  /\ Open(<<Here("if")>>, Frame(IF withElse THEN "then" ELSE "if", 0, New(2), New(3)),
          SwitchSealed(
            BrifTo(CreateBlocks(Emit(b, Next1, 0), IF withElse THEN <<0, 0, 0>> ELSE <<0, 0>>),
                   New(1), IF withElse THEN New(3) ELSE New(2)), New(1)))
Else ==
  /\ In({"then"})
  /\ Go(<<Outside("else")>>, InsteadOfTop([Top EXCEPT !.kind = "if"]),
        SwitchSealed(JumpTo(b, Top.merge), Top.next))
EndIf ==
  /\ In({"if"})
  /\ Go(<<Outside("end")>>, Front(frames), SwitchSealed(JumpTo(b, Top.merge), Top.merge))

(* The definitions named Bug... are mistakes one could make in the code;    *)
(* the properties are tested against them.                                 *)
BugSealEarly ==
  /\ "loop" \in Forms
  /\ Open(<<Here("loop")>>, Frame("loop", New(1), New(2), 0),
          LoopStackPush(SwitchSealed(JumpTo(CreateBlocks(b, <<0, 0>>), New(1)), New(1)),
                        New(1), New(2)))

(* Loop: its header is New(1), the exit New(2). *)
Loop ==
  /\ "loop" \in Forms
  /\ Open(<<Here("loop")>>, Frame("loop", New(1), New(2), 0),
          LoopStackPush(SwitchBlock(JumpTo(CreateBlocks(b, <<0, 0>>), New(1)), New(1)),
                        New(1), New(2)))

BugEndLoop ==
  /\ In({"loop"})
  /\ Go(<<Outside("end")>>, Front(frames),
        SwitchSealed(LoopStackPop(SealBlock(JumpTo(b, Top.merge), Top.header)), Top.merge))

EndLoop ==
  /\ In({"loop"})
  /\ Go(<<Outside("end")>>, Front(frames),
        SwitchSealed(LoopStackPop(SealBlock(JumpTo(b, Top.header), Top.header)), Top.merge))

(* A match, as a list of arms.  A literal arm compares and has a block of  *)
(* its own, and the last one misses to the merge block; a wildcard arm,    *)
(* which is any arm whose pattern is a plain name, goes on in the current  *)
(* block and leads to no other one.                                        *)
Patterns == {"arm", "any"}
StartArm(builder, i, pattern, merge, last) ==
  IF pattern = "any" THEN builder
  ELSE LET arm == Len(builder.blocks) + 1
       IN SwitchSealed(
            BrifTo(CreateBlocks(Emit(builder, i, 0), IF last THEN <<0>> ELSE <<0, 0>>),
                   arm, IF last THEN merge ELSE arm + 1), arm)
ArmFrame(pattern, merge, next, last) ==
  [Frame("arm", 0, merge, IF pattern = "any" \/ last THEN 0 ELSE next) EXCEPT !.last = last]

Exhaustive(pattern, last) ==
  /\ last /\ pattern = "arm" => "noWildcard" \in Forms
  /\ pattern = "any" /\ ~last => "earlyWildcard" \in Forms

Matches(pattern, last) ==
  /\ "match" \in Forms /\ Exhaustive(pattern, last)
  /\ LET scrutinee == CreateBlocks(Emit(b, Next1, 0), <<1>>) IN
     Open(<<Here("match"), Here(pattern)>>, ArmFrame(pattern, New(1), New(3), last),
          StartArm(scrutinee, Next1 + 1, pattern, New(1), last))

(* The value of the arm, and with it to the merge block. *)
Yield == JumpWith(Emit(b, Next1, 0), Top.merge)

NextArm(pattern, last) ==
  /\ In({"arm"}) /\ ~Top.last /\ Room /\ Exhaustive(pattern, last)
  /\ LET missed == IF Top.next = 0 THEN Yield ELSE SwitchSealed(Yield, Top.next) IN
     Go(<<Here("value"), Outside(pattern)>>,
        InsteadOfTop([ArmFrame(pattern, Top.merge, New(2), last) EXCEPT !.live = Top.live]),
        StartArm(missed, Next1 + 1, pattern, Top.merge, last))
EndMatch ==
  /\ In({"arm"}) /\ Top.last
  /\ Go(<<Here("value"), Outside("end")>>, Front(frames),
        SwitchBlock(SealBlock(Yield, Top.merge), Top.merge))

(* An if expression: then is New(1), else New(2), the merge block New(3).  *)
IfExpr ==
  /\ "ifExpr" \in Forms
  /\ Open(<<Here("ifExpr")>>, Frame("ifExpr", 0, New(3), New(2)),
          SwitchSealed(BrifTo(CreateBlocks(Emit(b, Next1, 0), <<0, 0, 1>>), New(1), New(2)),
                       New(1)))
ElseExpr ==
  /\ In({"ifExpr"})
  /\ Go(<<Here("value"), Outside("else")>>, InsteadOfTop([Top EXCEPT !.kind = "elseExpr"]),
        SwitchSealed(Yield, Top.next))
EndIfExpr ==
  /\ In({"elseExpr"})
  /\ Go(<<Here("value"), Outside("end")>>, Front(frames),
        SwitchBlock(SealBlock(Yield, Top.merge), Top.merge))

-----------------------------------------------------------------------------
(* The end of the body: a default return if it has none. *)
Finish ==
  /\ phase = "compile" /\ frames = <<>> /\ prog # <<>>
  /\ b' = Finalize(IF b.terminated THEN b ELSE ReturnVal(b))
  /\ phase' = "run"
  /\ UNCHANGED <<prog, frames>>

Generate ==
  \/ \E x \in Names : Declare(x) \/ (\E op \in {"set", "use"} : Access(op, x))
  \/ ExprStmt \/ Return \/ Break \/ Else \/ EndIf \/ Loop \/ EndLoop
  \/ \E withElse \in BOOLEAN : If(withElse)
  \/ \E pattern \in Patterns, last \in BOOLEAN :
       Matches(pattern, last) \/ NextArm(pattern, last)
  \/ EndMatch \/ IfExpr \/ ElseExpr \/ EndIfExpr
  \/ Finish

GenInit == prog = <<>> /\ frames = <<>> /\ b = NewBuilder /\ phase = "compile"

-----------------------------------------------------------------------------
GenTypeOK ==
  /\ b.cur \in DOMAIN b.blocks
  /\ b.vars \in [Names -> 0 .. Len(prog)]
  /\ b.terminated \in BOOLEAN /\ b.misuse \in BOOLEAN
  /\ \A t \in DOMAIN b.blocks :
       /\ \A n \in DOMAIN b.blocks[t].to : b.blocks[t].to[n] \in DOMAIN b.blocks
       /\ \A n \in DOMAIN b.blocks[t].code : b.blocks[t].code[n].at \in DOMAIN prog
  /\ phase = "compile" =>
       Len(b.loops) = Cardinality({i \in DOMAIN frames :
                                     frames[i].kind = "loop" /\ frames[i].live})

(* The code generator keeps to the contract of the builder underneath: it  *)
(* never writes behind a terminator, never branches to a block it sealed,  *)
(* and when it is done every block is sealed and ended.                    *)
BuilderContract == ~b.misuse

(* terminated, which decides what is compiled at all, is the truth about   *)
(* the current block, through every nesting of branches and loops.         *)
TerminatedIsTrue == b.terminated <=> b.blocks[b.cur].filled

(* A name in the code means the variable of the declaration it has in the  *)
(* source, though vars is one flat map for the whole function.             *)
NamesResolve ==
  \A t \in DOMAIN b.blocks : \A n \in DOMAIN b.blocks[t].code :
    LET c == b.blocks[t].code[n] IN
    prog[c.at].op \in {"set", "use"} => c.decl = Lexical(c.at, prog[c.at].var)
=============================================================================
