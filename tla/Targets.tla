------------------------------ MODULE Targets ------------------------------
(***************************************************************************)
(* One body, two targets: what the code of roca-native does and what the   *)
(* JavaScript of roca-js (emit) does when they run.  The body is written   *)
(* one expression or statement at a time and both run it as it is written: *)
(* an expression is kept as what either target makes of it, its value and  *)
(* the calls it made, a statement takes the expressions there are, and the *)
(* branch that is not taken is written but not run.                        *)
(*                                                                         *)
(* Forms whose two meanings differ are left out unless "Forms" names them. *)
(***************************************************************************)
EXTENDS Integers, Sequences, SequencesExt

CONSTANTS
    Ints,           \* the integers functions give and patterns are
    Literals,       \* the literals of the body
    Names,          \* local variables
    Param,          \* the parameter, one of Names
    Function,       \* the function that is called
    Struct,         \* the struct that is built
    Fields,         \* its fields, in order
    Reserved,       \* names JavaScript lets no variable have
    Forms,          \* forms with two meanings, see the guards that name them
    MaxInt,         \* bound on the numbers computed; JavaScript's are exact up to 2^53
    MaxLeaves,      \* bound on the names, literals and negations of the body
    MaxStatements,  \* bound on its statements
    MaxCalls        \* bound on the calls a target makes

Targets == {"native", "js"}

(* StructLit below writes structs of two fields, which are properties of   *)
(* their own in JavaScript.                                                *)
ASSUME FieldAssumption ==
    /\ Fields \in Seq(ToSet(Fields)) /\ Len(Fields) = 2
    /\ Fields[1] # Fields[2] /\ "__proto__" \notin ToSet(Fields)

(* The JavaScript of a match binds this name to its subject.               *)
Temp == "_m"

(* Function, struct and parameter are names JavaScript can have, and none  *)
(* hides another.                                                          *)
Globals == {Function, Struct}
ASSUME NameAssumption ==
    /\ (Globals \cup {Param}) \cap Reserved = {}
    /\ Globals \cap {Param, Temp} = {}

VARIABLES
    stack,    \* the operands, last one topmost
    shapes,   \* and how each is written
    tracked,  \* native: the names var_struct_map has
    frames,   \* the open blocks, innermost last
    slots,    \* native: name -> value, one map for the function
    made,     \* the calls each target has made
    result,   \* what each target returned
    leaves,   \* names, literals and negations so far
    written   \* statements so far

targetVars == <<stack, shapes, tracked, frames, slots, made, result, leaves, written>>

(* Values are tagged; Undefined is JavaScript's, Nothing no value yet.     *)
IntOf(n)    == <<"int", n>>
BoolOf(p)   == <<"bool", IF p THEN 1 ELSE 0>>
Undefined == <<"undefined", 0>>
Nothing   == <<"nothing", 0>>
Thrown    == <<"thrown", 0>>

ASSUME LiteralAssumption ==
    Literals \subseteq ({"int"} \X Int) \cup {BoolOf(TRUE), BoolOf(FALSE)}
IsInt(v)  == v[1] = "int"
IsBool(v) == v[1] = "bool"

(* What an expression comes to: for either target a value and calls.       *)
Outcome(v, calls) == [value |-> v, calls |-> calls]
Pure(v)   == [t \in Targets |-> Outcome(v, <<>>)]

(* An operand is a struct literal, a name in var_struct_map or something   *)
(* else, and reads Temp not at all, is no more than it, or has it inside.  *)
Shape(as, temp) == [as |-> as, temp |-> temp]

Frame(kind, live, other) == [kind |-> kind, live |-> live, other |-> other, scope |-> <<>>]
Everywhere == [t \in Targets |-> TRUE]
Nowhere    == [t \in Targets |-> FALSE]

Top     == frames[Len(frames)]
Live(t) == Top.live[t]
Running == \A t \in Targets : Live(t)

(* JavaScript looks a name up from the innermost block outwards.           *)
Scopes(x)  == {i \in DOMAIN frames : x \in DOMAIN frames[i].scope}
Innermost(x) == CHOOSE i \in Scopes(x) : \A j \in Scopes(x) : j <= i
JsValue(x) == IF Scopes(x) = {} THEN Thrown ELSE frames[Innermost(x)].scope[x].value

TargetInit ==
    /\ stack = <<>> /\ shapes = <<>> /\ tracked = {} /\ leaves = 0 /\ written = 0
    /\ \E n \in Ints :
         /\ slots = [x \in {Param} |-> IntOf(n)]
         /\ frames = <<[Frame("function", Everywhere, Nowhere) EXCEPT
                          !.scope = [x \in {Param} |-> [kind |-> "let", value |-> IntOf(n)]]]>>
    /\ made = [t \in Targets |-> <<>>]
    /\ result = [t \in Targets |-> Nothing]

Arg(n)  == stack[Len(stack) - n]        \* Arg(0) is topmost
Rest(n) == SubSeq(stack, 1, Len(stack) - n)
ShapeOf(n)   == shapes[Len(shapes) - n]
ReadsTemp(n) == \E k \in 0 .. n - 1 : ShapeOf(k).temp # "no"
PushAs(n, cost, as, temp, e) ==
    /\ leaves + cost <= MaxLeaves /\ leaves' = leaves + cost
    /\ stack' = Append(Rest(n), e)
    /\ shapes' = Append(SubSeq(shapes, 1, Len(shapes) - n), Shape(as, temp))
    /\ UNCHANGED <<tracked, frames, slots, made, result, written>>
Inside(n) == IF ReadsTemp(n) THEN "inside" ELSE "no"
Push(n, cost, e) == PushAs(n, cost, "other", Inside(n), e)
Has(n)  == written < MaxStatements /\ Len(stack) >= n
CallsOf(n, t) == FlattenSeq([i \in 1 .. n |-> Arg(n - i)[t].calls])

(***************************************************************************)
(* Expressions.                                                            *)
(***************************************************************************)
Lit(v) == Has(0) /\ Push(0, 1, Pure(v))

(* A name that is out of the JavaScript scope is still in native's map:    *)
(* the form "escape".                                                      *)
Ident(x) ==
    /\ Has(0) /\ Running /\ x \in DOMAIN slots
    /\ Scopes(x) # {} \/ "escape" \in Forms
    /\ PushAs(0, 1, IF x \in tracked THEN "tracked" ELSE "other", IF x = Temp THEN "bare" ELSE "no",
              [t \in Targets |-> Outcome(IF t = "js" THEN JsValue(x) ELSE slots[x], <<>>)])

(* Function(a), which answers r; JavaScript calls a variable of that name. *)
Call(r) ==
    /\ Has(1) /\ Running /\ \A t \in Targets : IsInt(Arg(0)[t].value)
    /\ \A t \in Targets : Len(made[t]) + Len(CallsOf(Len(stack), t)) < MaxCalls
    /\ Push(1, 0, [t \in Targets |->
         IF t = "js" /\ Scopes(Function) # {} THEN Outcome(Thrown, Arg(0)[t].calls)
         ELSE Outcome(IntOf(r), Append(Arg(0)[t].calls, Arg(0)[t].value))])

Ints2(t) == IsInt(Arg(1)[t].value) /\ IsInt(Arg(0)[t].value)
Operation(Value(_, _)) ==
    Push(2, 0, [t \in Targets |-> Outcome(Value(t, <<Arg(1)[t].value[2], Arg(0)[t].value[2]>>), CallsOf(2, t))])

Sum == /\ Has(2) /\ Running /\ \A t \in Targets : Ints2(t) /\ Arg(1)[t].value[2] + Arg(0)[t].value[2] <= MaxInt
       /\ Operation(LAMBDA t, v : IntOf(v[1] + v[2]))

(* Integers are divided as integers by the one, as numbers by the other.   *)
Exact(v) == v[2] # 0 /\ v[1] % v[2] = 0
Quotient(t, v) ==
    IF Exact(v) \/ (t = "native" /\ v[2] # 0) THEN IntOf(v[1] \div v[2])
    ELSE <<IF t = "js" THEN "fraction" ELSE "trap", v>>
Division ==
    /\ Has(2) /\ Running
    /\ \A t \in Targets : Ints2(t) /\ (Exact(<<Arg(1)[t].value[2], Arg(0)[t].value[2]>>) \/ "division" \in Forms)
    /\ Operation(Quotient)

Less == /\ Has(2) /\ Running /\ \A t \in Targets : Ints2(t)
        /\ Operation(LAMBDA t, v : BoolOf(v[1] < v[2]))

(* a && b, a || b: JavaScript leaves b alone when a decides; with a call   *)
(* in b that is the form "lazy".                                           *)
Decides(op, v) == IF op = "and" THEN v = 0 ELSE v = 1
Logic(op) ==
    /\ Has(2) /\ Running /\ \A t \in Targets : IsBool(Arg(1)[t].value) /\ IsBool(Arg(0)[t].value)
    /\ "lazy" \in Forms \/ \A t \in Targets : Arg(0)[t].calls = <<>>
    /\ Push(2, 0, [t \in Targets |->
         LET l == Arg(1)[t].value[2]
             r == Arg(0)[t].value[2]
         IN  IF t = "js" /\ Decides(op, l) THEN Outcome(Arg(1)[t].value, Arg(1)[t].calls)
             ELSE Outcome(<<"bool", IF op = "and" THEN l * r ELSE IF l + r > 0 THEN 1 ELSE 0>>, CallsOf(2, t))])

Not == /\ Has(1) /\ Running /\ \A t \in Targets : IsBool(Arg(0)[t].value)
       /\ Push(1, 1, [t \in Targets |-> Outcome(BoolOf(Arg(0)[t].value[2] = 0), Arg(0)[t].calls)])

(* match s { p -> a  q -> b  _ -> c }.  Native code tries the patterns in  *)
(* turn.  JavaScript gets a chain of conditionals on _m, the subject's one *)
(* value, and the chain is built from the last arm to the first.           *)
FirstMatch(v, patterns) ==
    LET match == {i \in DOMAIN patterns : v = patterns[i]}
    IN  IF match = {} THEN Len(patterns) + 1 ELSE CHOOSE i \in match : \A j \in match : i <= j
(* Mutant: the chain is built from the first arm to the last.              *)
BugChain(v, patterns) ==
    FoldLeft(LAMBDA rest, i : IF v = patterns[i] THEN i ELSE rest,
             Len(patterns) + 1, [i \in DOMAIN patterns |-> i])

Chain(v, patterns) ==
    FoldRight(LAMBDA i, rest : IF v = patterns[i] THEN i ELSE rest,
              [i \in DOMAIN patterns |-> i], Len(patterns) + 1)

(* The arm taken, from 1, the wildcard's last; the subject is evaluated    *)
(* once.  The mutant evaluates it in every test it comes to.               *)
ArmTaken(t, v, patterns) == IF t = "js" THEN Chain(v, patterns) ELSE FirstMatch(v, patterns)
BugSubject(t, patterns) ==
    IF t = "js" /\ ArmTaken(t, Arg(3)[t].value, patterns) > 1
    THEN Arg(3)[t].calls \o Arg(3)[t].calls ELSE Arg(3)[t].calls
Subject(t, patterns) == Arg(3)[t].calls

(* The subject and the arms are in the scope of const _m: read in the      *)
(* subject it throws, in an arm it is the subject's value ("capture").     *)
ArmValue(t, k) ==
    IF t = "js" /\ ShapeOf(3).temp # "no" THEN Thrown
    ELSE IF t = "js" /\ ShapeOf(k).temp = "bare" THEN Arg(3)[t].value
    ELSE IF t = "js" /\ ShapeOf(k).temp = "inside" THEN <<"captured", 0>>
    ELSE Arg(k)[t].value

Match(patterns) ==
    /\ Has(4) /\ Running /\ \A t \in Targets : IsInt(Arg(3)[t].value)
    /\ ReadsTemp(4) => "capture" \in Forms
    /\ Push(4, 0, [t \in Targets |->
         LET k == 3 - ArmTaken(t, Arg(3)[t].value, patterns)
         IN  Outcome(ArmValue(t, k), Subject(t, patterns) \o Arg(k)[t].calls)])

(* Struct { ... }: the fields in the order they are written; native stores each *)
(* at the position of its name, the class's constructor by its name.       *)
Position(f) == CHOOSE i \in DOMAIN Fields : Fields[i] = f
StructLit(order) ==
    /\ Has(2) /\ Running /\ \A t \in Targets : Ints2(t)
    /\ PushAs(2, 0, "struct", Inside(2), [t \in Targets |->
         Outcome(IF t = "js" /\ Scopes(Struct) # {} THEN Thrown
                 ELSE IF t = "js" THEN <<"object", [f \in ToSet(Fields) |->
                                      Arg(2 - (CHOOSE i \in DOMAIN order : order[i] = f))[t].value[2]]>>
                 ELSE <<"struct", [p \in DOMAIN Fields |->
                                      Arg(2 - (CHOOSE i \in DOMAIN order : Position(order[i]) = p))[t].value[2]]>>,
                 CallsOf(2, t))])

(* Of a receiver that is no name in var_struct_map native code reads the   *)
(* first field's word as it is, a Float ("untracked").                     *)
Tracked(n) == ShapeOf(n).as = "tracked"
GetField(f) ==
    /\ Has(1) /\ Running /\ Arg(0)["js"].value[1] = "object"
    /\ Tracked(0) \/ "untracked" \in Forms
    /\ Push(1, 0, [t \in Targets |->
         Outcome(IF t = "native" /\ ~Tracked(0) THEN <<"float", Arg(0)[t].value[2][1]>>
                 ELSE IntOf(Arg(0)[t].value[2][IF t = "js" THEN f ELSE Position(f)]), Arg(0)[t].calls)])

(***************************************************************************)
(* Statements: they take the operands there are and make their calls, if   *)
(* they are run.                                                           *)
(***************************************************************************)
Statement(n) ==
    /\ Has(n) /\ Len(stack) = n
    /\ written' = written + 1 /\ stack' = <<>> /\ shapes' = <<>> /\ leaves' = leaves
    /\ made' = [t \in Targets |-> IF Live(t) THEN made[t] \o CallsOf(n, t) ELSE made[t]]

Put(f, x, v) == [y \in DOMAIN f \cup {x} |-> IF y = x THEN v ELSE f[y]]
Declared(kind, x, v) == [frames EXCEPT ![Len(frames)].scope = Put(@, x, [kind |-> kind, value |-> v])]

(* const, let and var, which is JavaScript's let.  A name declared twice   *)
(* in a block is no JavaScript ("redeclare"), and neither is a reserved    *)
(* word ("reserved"); in an inner block it hides there and overwrites here *)
(* ("shadow").  The function and the struct can be hidden ("callee").      *)
(* Native code that runs, and so is compiled, keeps in var_struct_map the  *)
(* names that get a struct literal.                                        *)
NoVariable(x) == x \in DOMAIN Top.scope \cup Reserved
Bind(kind, x) ==
    /\ Statement(1)
    /\ x \in DOMAIN Top.scope => "redeclare" \in Forms
    /\ x \in Reserved => "reserved" \in Forms
    /\ x \in Globals => "callee" \in Forms
    /\ Scopes(x) \ {Len(frames)} # {} => "shadow" \in Forms
    /\ frames' = Declared(kind, x, IF NoVariable(x) THEN Thrown ELSE Arg(0)["js"].value)
    /\ tracked' = IF Running /\ ShapeOf(0).as = "struct" THEN tracked \cup {x} ELSE tracked
    /\ slots' = Put(slots, x, IF Live("native") THEN Arg(0)["native"].value ELSE Nothing)
    /\ UNCHANGED result

(* x = e; a const is not assigned in JavaScript: "constAssign".            *)
Assign(x) ==
    /\ Running /\ Scopes(x) # {} /\ Statement(1)
    /\ LET i == Innermost(x)
           const == frames[i].scope[x].kind = "const"
       IN  /\ const => "constAssign" \in Forms
           /\ frames' = [frames EXCEPT ![i].scope[x].value = IF const THEN Thrown ELSE Arg(0)["js"].value]
    /\ slots' = [slots EXCEPT ![x] = Arg(0)["native"].value]
    /\ UNCHANGED <<tracked, result>>

ExprStmt == Running /\ Statement(1) /\ UNCHANGED <<tracked, frames, slots, result>>

(* The low byte of an Int decides here, its being 0 there: "intCondition". *)
Holds(t, v) == IF t = "js" \/ IsBool(v) THEN v[2] # 0 ELSE v[2] % 256 # 0
If ==
    /\ Running /\ Statement(1)
    /\ \A t \in Targets : IsBool(Arg(0)[t].value) \/ ("intCondition" \in Forms /\ IsInt(Arg(0)[t].value))
    /\ frames' = Append(frames, Frame("if", [t \in Targets |-> Holds(t, Arg(0)[t].value)],
                                      [t \in Targets |-> ~Holds(t, Arg(0)[t].value)]))
    /\ UNCHANGED <<tracked, slots, result>>

Border == stack = <<>> /\ UNCHANGED <<stack, shapes, tracked, leaves, written, made>>

Else ==
    /\ Border /\ Top.kind = "if"
    /\ frames' = [frames EXCEPT ![Len(frames)] = Frame("else", Top.other, Nowhere)]
    /\ UNCHANGED <<slots, result>>

Loop == /\ Running /\ Statement(0)
        /\ frames' = Append(frames, Frame("loop", Everywhere, Nowhere))
        /\ UNCHANGED <<tracked, slots, result>>

(* Nothing runs any more in the blocks from the i-th on.                   *)
Stop(i) == [j \in DOMAIN frames |-> IF j < i THEN frames[j] ELSE [frames[j] EXCEPT !.live = Nowhere]]

LoopFrame == CHOOSE i \in DOMAIN frames : /\ frames[i].kind = "loop"
                                         /\ \A j \in DOMAIN frames : frames[j].kind = "loop" => j <= i
Break ==
    /\ Running /\ Statement(0) /\ \E i \in DOMAIN frames : frames[i].kind = "loop"
    /\ frames' = Stop(LoopFrame)
    /\ UNCHANGED <<tracked, slots, result>>

(* The end of a block.  A loop is left after one turn, by a break or a     *)
(* return (a second turn repeats what was written).                        *)
EndBlock ==
    /\ Len(frames) > 1 /\ Border
    /\ Top.kind = "loop" => \A t \in Targets : ~Live(t)
    /\ frames' = Front(frames)
    /\ UNCHANGED <<slots, result>>

Return ==
    /\ Running /\ Statement(1)
    /\ result' = [t \in Targets |-> Arg(0)[t].value]
    /\ frames' = Stop(1)
    /\ UNCHANGED <<tracked, slots>>

(* Past its last statement a function returns Unit; one that declares      *)
(* another type returns 0 here and undefined there: "fallOff".             *)
FallOff ==
    /\ Running /\ Len(frames) = 1 /\ Statement(0)
    /\ result' = IF "fallOff" \in Forms THEN [native |-> IntOf(0), js |-> Undefined]
                 ELSE [t \in Targets |-> <<"unit", 0>>]
    /\ frames' = Stop(1)
    /\ UNCHANGED <<tracked, slots>>

TargetNext ==
    \/ \E v \in Literals : Lit(v)
    \/ \E x \in Names : Ident(x) \/ Assign(x)
    \/ \E r \in Ints : Call(r)
    \/ Sum \/ Division \/ Less \/ Not
    \/ \E op \in {"and", "or"} : Logic(op)
    \/ \E p, q \in Ints : Match(<<IntOf(p), IntOf(q)>>)
    \/ \E order \in {Fields, Reverse(Fields)} : StructLit(order)
    \/ \E f \in ToSet(Fields) : GetField(f)
    \/ \E kind \in {"const", "let"}, x \in Names : Bind(kind, x)
    \/ ExprStmt \/ If \/ Else \/ Loop \/ Break \/ EndBlock \/ Return \/ FallOff

TargetSpec == TargetInit /\ [][TargetNext]_targetVars
----------------------------------------------------------------------------
(* Both targets run the same blocks and make the same calls with the same  *)
(* arguments in the same order, as often, and leave out the same ones,     *)
(* whatever is nested in what: operands, fields, subjects and arms,        *)
(* branches, what follows a break or a return ("Same source compiles to    *)
(* JS or native binary", README.md).                                       *)
SameCalls ==
    /\ made["native"] = made["js"]
    /\ \A i \in DOMAIN frames : frames[i].live["native"] = frames[i].live["js"]

(* And both return the same value: reading a name, a field or a result     *)
(* never throws in JavaScript what native code answers.                    *)
Alike(n, j) == IF n[1] = "struct" /\ j[1] = "object"
               THEN \A f \in ToSet(Fields) : n[2][Position(f)] = j[2][f]
               ELSE n = j
SameResult == Alike(result["native"], result["js"])
=============================================================================
