---------------------------- MODULE OwnershipRun ----------------------------
(***************************************************************************)
(* What the ownership rules are for (docs/src/spec/memory.md): the walked  *)
(* body is executed, with every branch taken and every number of turns of  *)
(* its loops, and an object passed to an `o` parameter is gone.  A name    *)
(* bound in a block means its object up to the end of the block.           *)
(***************************************************************************)
EXTENDS Ownership, Flow, FiniteSets, Functions

ASSUME VarAssumption == IsFiniteSet(Vars)

VARIABLES
  pc,     \* the entry of prog that runs next
  env,    \* the object each name refers to
  owns,   \* the names that own their object
  gone,   \* the objects that were given away
  hidden, \* what the names meant that the blocks around pc bind again
  fault   \* what went wrong, if anything

runVars == <<pc, env, owns, gone, hidden, fault>>
allVars == <<walkVars, runVars>>

Obj == 1 .. Cardinality(Vars) + Len(Forms) + 1
Hidden == [depth : Nat, var : Vars, obj : Obj, own : BOOLEAN]

Now == prog[pc]
Given(e) == {env[v] : v \in Moves(e)}

(* An argument is dead if it was given away, or if an argument before it   *)
(* in the same call gives it away.                                         *)
UsesMoved(e) ==
  \/ \E v \in Uses(e) : env[v] \in gone
  \/ \E i, j \in DOMAIN e.args :
       /\ i < j /\ e.args[i].own = "o"
       /\ env[e.args[i].var] = env[e.args[j].var]

Fault(s) ==
  IF UsesMoved(s.expr) THEN "moved"
  ELSE IF \E v \in Moves(s.expr) : v \notin owns THEN "borrowMoved"
  ELSE IF s.op = "return" /\ Copies(s.expr) /\ ~ Uses(s.expr) \subseteq owns
  THEN "borrowReturned"
  ELSE "none"

-----------------------------------------------------------------------------
RunInit ==
  /\ pc = 0 /\ fault = "none" /\ gone = {} /\ hidden = {}
  /\ env = CHOOSE f \in [Vars -> Obj] : IsInjective(f)
  /\ owns = {v \in Vars : table[v] = "Owned"}

(* The walk is over: the body runs, whatever was reported. *)
Start ==
  /\ phase = "walk" /\ frames = <<>> /\ prog # <<>>
  /\ phase' = "run" /\ pc' = 1
  /\ UNCHANGED <<table, frames, prog, env, owns, gone, hidden, fault>>

(* What a block binds again is hidden up to the end of the block. *)
DepthAt(i) == IF i \in DOMAIN prog THEN prog[i].depth ELSE 0
Scope(s) == IF s.op = "for" THEN s.depth + 1 ELSE s.depth
Hides(s) ==
  IF /\ s.op \in {"const", "let", "var", "for"}
     /\ s.pre[s.var] # "absent" /\ Scope(s) # 0
     /\ \A h \in hidden : h.var = s.var => h.depth # Scope(s)
  THEN {[depth |-> Scope(s), var |-> s.var, obj |-> env[s.var], own |-> s.var \in owns]}
  ELSE {}

(* Of what the blocks that are left have hidden, the outermost is seen again. *)
Seen(left, v) ==
  {h \in left : h.var = v /\ \A g \in left : g.var = v => h.depth <= g.depth}

(* A name is bound to the object it copies, or to a new one. *)
BindsTo(s, o) ==
  IF s.op \notin {"const", "let", "var", "assign", "for"} THEN o = 0
  ELSE IF s.op # "for" /\ Copies(s.expr) THEN o \in {env[v] : v \in Uses(s.expr)}
  ELSE o = CHOOSE n \in Obj :
             /\ \A v \in Vars \ {s.var} : env[v] # n
             /\ \A h \in hidden \cup Hides(s) : h.obj # n
Rebound(s, en, o) == IF o = 0 THEN en ELSE [en EXCEPT ![s.var] = o]
Owning(s, ow, o) ==
  IF o = 0 THEN ow ELSE IF s.op = "let" THEN ow \ {s.var} ELSE ow \cup {s.var}

(* The names mean en and own what ow says, but for what left shows again. *)
Means(left, en, ow) ==
  /\ env' = [v \in Vars |-> IF Seen(left, v) = {} THEN en[v]
                           ELSE (CHOOSE h \in Seen(left, v) : TRUE).obj]
  /\ owns' = {v \in Vars : IF Seen(left, v) = {} THEN v \in ow
                           ELSE \E h \in Seen(left, v) : h.own}

Execute ==
  /\ phase = "run" /\ fault = "none" /\ pc \in DOMAIN prog
  /\ fault' = Fault(Now)
  /\ \E next \in Range(Successors(prog, pc)), o \in Obj \cup {0} :
       /\ BindsTo(Now, o)
       /\ pc' = next
       /\ gone' = (gone \cup Given(Now.expr)) \
                  (IF Copies(Now.expr) /\ Now.op # "for" THEN {} ELSE {o})
       /\ LET kept == hidden \cup Hides(Now)
              left == {h \in kept : h.depth > DepthAt(next)}
          IN /\ hidden' = kept \ left
             /\ Means(left, Rebound(Now, env, o), Owning(Now, owns, o))
  /\ UNCHANGED walkVars

Ran == phase = "run" /\ pc \in DOMAIN prog /\ fault = "none"

OInit == WalkInit /\ RunInit
ONext == (Walk /\ UNCHANGED runVars) \/ Start \/ Execute
OSpec == OInit /\ [][ONext]_allVars

-----------------------------------------------------------------------------
(* Every variable keeps its shape, and scopes nest: a name visible around  *)
(* a block is visible in it.                                               *)
OTypeOK ==
  /\ table \in Table
  /\ \A i \in DOMAIN prog : prog[i].pre \in Table /\ prog[i].expr \in Expr
  /\ \A i \in DOMAIN frames, v \in Vars :
       /\ frames[i].before \in Table
       /\ frames[i].before[v] # "absent" =>
            table[v] # "absent" /\ \A j \in i .. Len(frames) :
                                     frames[j].before[v] # "absent"
  /\ pc \in 0 .. Len(prog) + 1
  /\ env \in [Vars -> Obj] /\ owns \subseteq Vars /\ gone \subseteq Obj
  /\ hidden \subseteq Hidden
  /\ fault \in {"none", "moved", "borrowMoved", "borrowReturned"}

(* The checker is sound: no execution of a body it accepts uses an object  *)
(* after giving it away, gives away or returns one it has only borrowed.   *)
AcceptedRunsClean == Accepted => fault = "none"

(* One table describes every path: whichever branches were taken and       *)
(* however often the loops turned, what the walker recorded before a       *)
(* statement of an accepted body is what holds there.                      *)
TableDescribesRun ==
  Ran /\ Accepted =>
    \A v \in Vars : Now.pre[v] # "absent" =>
      /\ (Now.pre[v] = "Consumed") <=> env[v] \in gone
      /\ Now.pre[v] = "Owned" => v \in owns
      /\ Now.pre[v] = "Borrowed" => v \notin owns

(* The checker is exact: a statement reported for a use after move makes   *)
(* one, on every path that reaches it.  Behind a loop reported for what it *)
(* consumes it need not: `loop { break f(x) } f(x)`.                       *)
NoLoopReported == \A i \in 1 .. pc - 1 : "E-OWN-010" \notin prog[i].codes
FlagsAreReal ==
  [][Execute /\ "E-OWN-004" \in Now.codes /\ NoLoopReported => fault' = "moved"]_allVars

-----------------------------------------------------------------------------
(* docs/src/spec/errors.md, E-OWN-004: "Value used after being passed to   *)
(* an `o` parameter" is an error.                                          *)
UseAfterMoveIsRejected == Accepted => fault # "moved"

(* docs/src/spec/feedback.md on E-OWN-005: "add b to borrow (caller keeps  *)
(* it)": what was only lent is not given away.                             *)
LentIsNotGivenAway == Accepted => fault # "borrowMoved"
=============================================================================
