---------------------------- MODULE NativeBuilder ----------------------------
(***************************************************************************)
(* RocaBuilder of roca-native (builder.rs): the code of one function as a  *)
(* graph of blocks, each a list of instructions and the blocks it may      *)
(* branch to.  A builder b is a record; each operator is one method.       *)
(*                                                                         *)
(* misuse is the contract of the Cranelift FunctionBuilder it wraps, and   *)
(* of the verifier behind it: no instruction in a block that has its       *)
(* terminator, no switch away from one that has none, no predecessor for a *)
(* sealed block, as many arguments as the target has parameters.           *)
(***************************************************************************)
EXTENDS Naturals, Sequences

CONSTANT Names   \* the variables of the function

NewBlock(params) ==
  [code |-> <<>>, to |-> <<>>, filled |-> FALSE, sealed |-> FALSE, params |-> params]

(* compile_function: the entry block, switched to and sealed. *)
NewBuilder ==
  [blocks |-> <<[NewBlock(0) EXCEPT !.sealed = TRUE]>>, cur |-> 1,
   terminated |-> FALSE, loops |-> <<>>, vars |-> [x \in Names |-> 0],
   misuse |-> FALSE]

Flag(b, wrong) == [b EXCEPT !.misuse = @ \/ wrong]

(* create_block, once for each of the parameter counts. *)
CreateBlocks(b, params) ==
  [b EXCEPT !.blocks = @ \o [i \in DOMAIN params |-> NewBlock(params[i])]]

(* An instruction for entry i of the source, which uses the variable that  *)
(* was declared at entry d.                                                *)
Emit(b, i, d) ==
  [Flag(b, b.blocks[b.cur].filled) EXCEPT
     !.blocks[b.cur].code = Append(@, [at |-> i, decl |-> d])]

(* The definitions named Bug... are mistakes one could make in the code;    *)
(* the properties are tested against them.                                 *)
BugVarReused(b, x, i) ==
  IF b.vars[x] # 0 THEN Emit(b, i, b.vars[x]) ELSE [Emit(b, i, i) EXCEPT !.vars[x] = i]

VarDeclare(b, x, i) == [Emit(b, i, i) EXCEPT !.vars[x] = i]
VarGet(b, x, i) == Flag(Emit(b, i, b.vars[x]), b.vars[x] = 0)

Terminate(b, targets, args) ==
  LET wrong == \/ b.blocks[b.cur].filled
               \/ \E n \in DOMAIN targets :
                    \/ b.blocks[targets[n]].sealed
                    \/ b.blocks[targets[n]].params # args
  IN [Flag(b, wrong) EXCEPT !.blocks[b.cur].to = targets,
                            !.blocks[b.cur].filled = TRUE,
                            !.terminated = TRUE]

JumpTo(b, t) == IF b.terminated THEN b ELSE Terminate(b, <<t>>, 0)
JumpWith(b, t) == Terminate(b, <<t>>, 1)
BrifTo(b, t, e) == Terminate(b, <<t, e>>, 0)
ReturnVal(b) == Terminate(b, <<>>, 0)

BugSwitchKeepsFlag(b, t) ==
  [Flag(b, ~b.blocks[b.cur].filled \/ b.blocks[t].filled) EXCEPT !.cur = t]

SwitchBlock(b, t) ==
  [Flag(b, ~b.blocks[b.cur].filled \/ b.blocks[t].filled) EXCEPT
     !.cur = t, !.terminated = FALSE]
SealBlock(b, t) == [Flag(b, b.blocks[t].sealed) EXCEPT !.blocks[t].sealed = TRUE]
SwitchSealed(b, t) == SealBlock(SwitchBlock(b, t), t)

LoopStackPush(b, header, exit) ==
  [b EXCEPT !.loops = Append(@, [header |-> header, exit |-> exit])]
BugLoopStackPop(b) == b
LoopStackPop(b) == [b EXCEPT !.loops = SubSeq(@, 1, Len(@) - 1)]

(* break_loop panics outside a loop. *)
BreakLoop(b) ==
  IF b.loops = <<>> THEN Flag(b, TRUE)
  ELSE Terminate(b, <<b.loops[Len(b.loops)].exit>>, 0)

(* finalize: every block sealed and ended. *)
Finalize(b) == Flag(b, \E t \in DOMAIN b.blocks :
                         ~b.blocks[t].filled \/ ~b.blocks[t].sealed)
=============================================================================
