----------------------------- MODULE CodegenRun -----------------------------
(***************************************************************************)
(* The compiled body and its source are executed side by side: whichever   *)
(* way the conditions go, both come by the same statements.                *)
(***************************************************************************)
EXTENDS Codegen

VARIABLES
  pc,    \* the entry of the source that runs next (0: not started)
  at     \* the instruction that runs next

runVars == <<pc, at>>
allVars == <<genVars, runVars>>

(* A run goes on without an observable step at the borders of source       *)
(* blocks, and at the end of a block of code with one target.              *)
Silent(i) == i \in DOMAIN prog /\ prog[i].op \in {"else", "any", "end", "loop", "break"}
Block(t) == [block |-> t, n |-> 1]
Code(a) == b.blocks[a.block].code
To(a) == b.blocks[a.block].to

SourceStep(i) == IF Silent(i) THEN Successors(prog, i)[1] ELSE i
CodeStep(a) == IF a.n > Len(Code(a)) /\ Len(To(a)) = 1 THEN Block(To(a)[1]) ELSE a

(* n steps from start, enough to come to a statement if there is one. *)
Times(n, start, Step(_)) ==
  LET run[k \in 0 .. n] == IF k = 0 THEN start ELSE Step(run[k - 1]) IN run[n]
SourceFrom(i) == Times(Len(prog) + 1, i, SourceStep)
CodeFrom(a) == Times(Len(b.blocks) + 1, a, CodeStep)

(* What is observed next: a statement, the end, or nothing ever again. *)
Done == Len(prog) + 1
Never == 0
SourceEvent == IF Silent(pc) THEN Never ELSE pc
CodeEvent ==
  IF at.n <= Len(Code(at)) THEN Code(at)[at.n].at
  ELSE IF To(at) = <<>> THEN Done ELSE Never

Begin ==
  /\ phase = "run" /\ pc = 0 /\ ~b.misuse
  /\ pc' = SourceFrom(1) /\ at' = CodeFrom(Block(1))
  /\ UNCHANGED genVars

(* Past one instruction; c: whether its condition holds. *)
After(a, c) ==
  IF a.n = Len(Code(a)) /\ Len(To(a)) = 2 THEN Block(To(a)[c]) ELSE [a EXCEPT !.n = @ + 1]

Execute ==
  /\ pc \in DOMAIN prog /\ ~Silent(pc)
  /\ \E c \in DOMAIN Successors(prog, pc) :
       /\ pc' = SourceFrom(Successors(prog, pc)[c])
       /\ at' = CodeFrom(After(at, c))
  /\ UNCHANGED genVars

RunInit == GenInit /\ pc = 0 /\ at = Block(1)
RunNext == (Generate /\ UNCHANGED runVars) \/ Begin \/ Execute
RunSpec == RunInit /\ [][RunNext]_allVars

-----------------------------------------------------------------------------
(* The code does what the source says: on every path, dead code, early     *)
(* returns, breaks and nested loops included, it comes to the statements   *)
(* of the source in their order, ends when the source ends, and turns      *)
(* forever where the source does.                                          *)
SameRun == pc # 0 => SourceEvent = CodeEvent
=============================================================================
