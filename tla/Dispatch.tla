------------------------------ MODULE Dispatch ------------------------------
(***************************************************************************)
(* Method calls and field accesses in the bodies Linking compiles.  The    *)
(* compiler knows the struct of a receiver from var_struct_map alone, the  *)
(* checker from the type it inferred, and the program has an object there: *)
(* a variable keeps the three.  Bodies run straight on, so the object is   *)
(* the one the code meets when it runs.                                    *)
(***************************************************************************)
EXTENDS Linking

CONSTANTS
    Fields,   \* struct -> the sequence of its fields
    Names,    \* the sequence of a body's variables; parameters take the first
    Forms     \* what a body may also do: "untracked", "retype", "blind",
              \* "dropped", "foreign", "shifted", "unvisited", named at the
              \* guards that leave it out

VARIABLES
    vars,     \* variable -> [map, type, object]: a struct, or "none"
    taken,    \* statements of this body so far
    accesses, \* <<variable, field>>s the checker's second pass comes by
    reached,  \* [want, got]: what a call or an access should reach, and does
    accepted  \* the checker has reported no unknown field yet

bodyVars == <<vars, taken, accesses, reached, accepted>>
allVars  == <<linkVars, bodyVars>>

Structs == DOMAIN Fields
ASSUME MethodAssumption ==
    \A s \in Sources : \A i \in DOMAIN s : s[i].struct # <<>> => s[i].struct[1] \in Structs
ASSUME NameAssumption ==
    /\ "none" \notin Structs
    /\ Names \in Seq(STRING \ {"self"})
    /\ \A s \in Sources : \A i \in DOMAIN s : Len(s[i].params) <= Len(Names)
StructType(t) == IF t \in Structs THEN t ELSE "none"

DefinitionOf(k) == LET i == CHOOSE i \in Definitions : Key(source[i]) = k IN source[i]

(* Expressions whose value may be an object.                               *)
Literal(T)   == [form |-> "literal", struct |-> T]                   \* T { ... }
Static(T, m) == [form |-> "static", struct |-> T, method |-> m]      \* T.m(...)
Result(f)    == [form |-> "result", function |-> f]                  \* f(...)
Copy(y)      == [form |-> "copy", of |-> y]                          \* y

Exprs == {Literal(T) : T \in Structs} \cup {Copy(y) : y \in DOMAIN vars}
    \cup {Static(d.struct[1], d.name) : d \in {e \in ToSet(source) : e.struct # <<>>}}
    \cup {Result(d.name) : d \in {e \in ToSet(source) : e.struct = <<>>}}

Callee(e) == IF e.form = "static" THEN DefinitionOf(<<e.struct>> \o e.method) ELSE DefinitionOf(e.function)
IsCall(e) == e.form \in {"static", "result"}

(* infer_struct_name_from_expr: a static call is taken for a constructor.  *)
MapOf(e) == IF e.form \in {"literal", "static"} THEN e.struct ELSE "none"

(* infer_expr_type of the checker, and the value.                          *)
TypeOf(e) == CASE e.form = "literal" -> e.struct
               [] e.form = "copy"    -> vars[e.of].type
               [] OTHER              -> Callee(e).ret
ObjectOf(e) == CASE e.form = "literal" -> e.struct
                 [] e.form = "copy"    -> vars[e.of].object
                 [] OTHER              -> StructType(Callee(e).ret)

(***************************************************************************)
(* The statements of a body.  It is verified when all of it is compiled,   *)
(* so that a panic comes before whatever the verifier would object to.     *)
(***************************************************************************)
Statement(reach, end) ==
    /\ phase = "body" /\ taken < Current.steps
    /\ taken' = taken + 1
    /\ reached' = reached \cup reach
    /\ broken' = IF end = "panic" \/ broken = "no" THEN end ELSE broken
    /\ UNCHANGED <<source, phase, at, decl, code, closures, answer, accepted>>

(* A static call passes no self, whatever the method takes.                *)
CallEnd(e) == IF e.form = "static" /\ TakesSelf(Callee(e)) THEN "error" ELSE "no"
Reaches(e) == IF IsCall(e) THEN {[want |-> Key(Callee(e)), got |-> Key(Callee(e))]} ELSE {}

(* A variable that changes struct, or whose new type the checker cannot    *)
(* tell, is the form "retype"; a T.m() that returns no T is "foreign".     *)
Keeps(x, e) == \/ "retype" \in Forms
               \/ x \in DOMAIN vars => ObjectOf(e) = vars[x].object /\ TypeOf(e) = vars[x].type
Makes(e)    == "foreign" \in Forms \/ MapOf(e) \in {"none", ObjectOf(e)}

(* const x = e, let x = e, var x = e: an entry of var_struct_map is        *)
(* overwritten when the expression tells a struct, and stays otherwise.    *)
Let(x, e) ==
    LET old == IF x \in DOMAIN vars THEN vars[x].map ELSE "none"
    IN  /\ Keeps(x, e) /\ Makes(e)
        /\ vars' = With(vars, x, [map    |-> IF MapOf(e) # "none" THEN MapOf(e) ELSE old,
                                  type   |-> TypeOf(e),
                                  object |-> ObjectOf(e)])
        /\ Statement(Reaches(e), CallEnd(e))
        /\ UNCHANGED accesses

(* x = e: the checker follows it, var_struct_map does not.                 *)
Assign(x, e) ==
    /\ x \in DOMAIN vars \ {"self"} /\ Keeps(x, e) /\ Makes(e)
    /\ vars' = [vars EXCEPT ![x].type = TypeOf(e), ![x].object = ObjectOf(e)]
    /\ Statement(Reaches(e), CallEnd(e))
    /\ UNCHANGED accesses

(* Receivers var_struct_map knows nothing of - parameters, copies, results *)
(* of functions - are the form "untracked".                                *)
Receiver(x) == /\ x \in DOMAIN vars /\ vars[x].object # "none"
               /\ "untracked" \in Forms \/ vars[x].map # "none"

(* Mutant: the callee is looked up under the receiver's name alone.        *)
BugCallByName(x, m, n) ==
    /\ Receiver(x) /\ <<vars[x].object>> \o m \in FuncIds
    /\ Statement({[want |-> <<vars[x].object>> \o m,
                   got  |-> IF <<x>> \o m \in FuncIds THEN <<x>> \o m ELSE <<"0">>]}, "no")
    /\ UNCHANGED <<vars, accesses>>

(* A tracked receiver is passed before the n arguments that are written,   *)
(* whether or not the method takes self; the verifier counts them all, and *)
(* compares types.  If the method takes no self and both fit, the receiver *)
(* is its first parameter: the form "shifted".                             *)
Passed(x, n)   == n + (IF vars[x].map # "none" THEN 1 ELSE 0)
Shifts(x, d)   == TakesSelf(d) # (vars[x].map # "none")
Fits(x, d, n)  == /\ Len(Declared(d).params) = Passed(x, n)
                  /\ Shifts(x, d) => Declared(d).params[1] = "I64"

(* x.m(e1, ..., en): resolve_call_target and compile_call.  A name that    *)
(* resolves to no function is compiled to the constant 0.                  *)
CallMethod(x, m, n) ==
    LET want    == <<vars[x].object>> \o m
        got     == (IF vars[x].map # "none" THEN <<vars[x].map>> ELSE <<x>>) \o m
        d       == DefinitionOf(got)
        shifted == Fits(x, d, n) /\ Shifts(x, d)
    IN  /\ Receiver(x) /\ want \in FuncIds
        /\ IF got \in FuncIds
           THEN /\ shifted => "shifted" \in Forms
                /\ Statement({[want |-> want, got |-> IF shifted THEN <<"shifted">> ELSE got]},
                             IF Fits(x, d, n) THEN "no" ELSE "error")
           ELSE Statement({[want |-> want, got |-> <<"0">>]}, "no")
        /\ UNCHANGED <<vars, accesses>>

(* The slot of a struct a field is, by its position; what an access reads. *)
SlotAt(i)      == <<"slot", ToString(i)>>
HasField(T, f) == T \in Structs /\ \E i \in DOMAIN Fields[T] : Fields[T][i] = f
Index(T, f)    == CHOOSE i \in DOMAIN Fields[T] : Fields[T][i] = f

(* x.f: an unknown struct's field is its first; a field the struct does    *)
(* not have is a panic.  seen: the checker's second pass comes by the      *)
(* place; it does not look at the value of a field store or an array       *)
(* store, nor into matches, blocks and closures.  A field the object does  *)
(* not have is the form "unvisited" in such a place, and the form "blind"  *)
(* if the checker does not know the receiver's type.                       *)
GetField(x, f, seen) ==
    LET v == vars[x]
    IN  /\ Receiver(x)
        /\ "blind" \in Forms \/ HasField(v.object, f) \/ v.type # "none"
        /\ "unvisited" \in Forms \/ HasField(v.object, f) \/ seen
        /\ Statement(IF ~HasField(v.object, f) THEN {}
                     ELSE {[want |-> SlotAt(Index(v.object, f)),
                            got  |-> SlotAt(IF HasField(v.map, f) THEN Index(v.map, f) ELSE 1)]},
                     IF v.map # "none" /\ ~HasField(v.map, f) THEN "panic" ELSE "no")
        /\ accesses' = IF seen /\ x # "self" THEN accesses \cup {<<x, f>>} ELSE accesses
        /\ UNCHANGED vars

(* self.f = e: a field the struct does not have is not set at all, and the *)
(* checker does not look: the form "dropped".                              *)
SetField(f) ==
    /\ "self" \in DOMAIN vars
    /\ "dropped" \in Forms \/ HasField(vars["self"].object, f)
    /\ Statement({[want |-> <<"set", f>>,
                    got  |-> IF HasField(vars["self"].map, f) THEN <<"set", f>> ELSE <<"0">>]}, "no")
    /\ UNCHANGED <<vars, accesses>>

(***************************************************************************)
(* A body begins with its parameters, which var_struct_map does not hold,  *)
(* and self, which it does; it ends with the checker's second pass, which  *)
(* takes the accesses it sees against the types variables have at the end. *)
(***************************************************************************)
Begin ==
    LET params == [i \in {j \in DOMAIN Current.params : Current.params[j] \in Structs} |-> Current.params[i]]
    IN  /\ BeginFunction
        /\ vars' = [x \in {Names[i] : i \in DOMAIN params}
                        \cup (IF TakesSelf(Current) /\ Current.struct # <<>> THEN {"self"} ELSE {}) |->
                       IF x = "self"
                       THEN [map |-> Current.struct[1], type |-> "none", object |-> Current.struct[1]]
                       ELSE LET T == params[CHOOSE i \in DOMAIN params : Names[i] = x]
                            IN  [map |-> "none", type |-> T, object |-> T]]
        /\ taken' = 0 /\ accesses' = {}
        /\ UNCHANGED <<reached, accepted>>

(* Mutant: a field some struct has is good enough.                         *)
BugFieldsOfAny == {a \in accesses : \A T \in Structs : ~HasField(T, a[2])}

UnknownFields == {a \in accesses : /\ vars[a[1]].type \in Structs
                                   /\ ~HasField(vars[a[1]].type, a[2])}

End ==
    /\ EndFunction
    /\ accepted' = (accepted /\ UnknownFields = {})
    /\ vars' = <<>> /\ accesses' = {} /\ taken' = 0
    /\ UNCHANGED reached

Methods == {d.name : d \in {e \in ToSet(source) : e.struct # <<>>}}
AllFields == UNION {ToSet(Fields[T]) : T \in Structs}

DispatchInit ==
    /\ LinkInit
    /\ vars = <<>> /\ taken = 0 /\ accesses = {} /\ reached = {} /\ accepted = TRUE

DispatchNext ==
    \/ Begin \/ End
    \/ \E x \in ToSet(Names), e \in Exprs : Let(x, e) \/ Assign(x, e)
    \/ \E x \in DOMAIN vars, m \in Methods, n \in 0 .. Len(Names) : CallMethod(x, m, n)
    \/ \E x \in DOMAIN vars, f \in AllFields, seen \in BOOLEAN : GetField(x, f, seen)
    \/ \E f \in AllFields : SetField(f)
    \/ /\ \/ DeclareFunction \/ UseHiddenSelf
          \/ \E n \in 0 .. 1 : MakeClosure(n)
          \/ \E k \in FuncIds : CompileShim(k)
          \/ \E i \in Definitions : \E args \in ArgsOf(source[i]), r \in ValuesOf(source[i].ret) : Call(i, args, r)
       /\ UNCHANGED bodyVars

DispatchSpec == DispatchInit /\ [][DispatchNext]_allVars

----------------------------------------------------------------------------
(* Type invariant of the linker and of the bodies it compiles.             *)
LinkTypeOK ==
    /\ source \in Sources /\ at \in Definitions
    /\ phase \in {"declare", "compile", "body", "shims", "linked", "called", "error", "panic"}
    /\ DOMAIN code \subseteq DOMAIN decl
    /\ closures \in 0 .. MaxClosures /\ broken \in {"no", "panic", "error"} /\ accepted \in BOOLEAN
    /\ \A x \in DOMAIN vars : vars[x].map \in Structs \cup {"none"}

(* A module that links is the source: every name - of a function, of a     *)
(* method, of a shim - stands for the code that was written for it, with   *)
(* the signature its callers use, whatever the source, the closures and    *)
(* the shims are called; and the runtime is still roca-mem's               *)
(* (compile's declare, define and shim loops, one flat table of symbols).  *)
LinkedIsTheSource ==
    phase \in {"linked", "called"} =>
        /\ \A i \in Definitions : code[Key(source[i])] = [by |-> [definition |-> i], sig |-> decl[Key(source[i])]]
        /\ \A k \in FuncIds : code[ShimName(k)] = [by |-> ShimBy(k), sig |-> ShimSignature]
        /\ DOMAIN decl \ DOMAIN code = DOMAIN Runtime

(* A call by name gives the function the arguments it was called with and  *)
(* its caller the value it returned, for every list of types: packing,     *)
(* the shim's loads, its widening and the reading of the result agree      *)
(* (lib.rs call, compile_shim), self counted.                              *)
CallDelivers ==
    phase = "called" => answer.saw = answer.args /\ answer.told = answer.gave

(* Every call and field access of a linked module reaches the method and   *)
(* the slot of the struct its receiver is at run time, with self where the *)
(* method takes one (resolve_call_target, compile_get_field, SetField).    *)
ReceiversResolve ==
    phase \in {"linked", "called"} => \A r \in reached : r.want = r.got

(* Names the source may not have taken: two definitions of one key, or a   *)
(* name that the compiler makes up or that is the runtime's.               *)
Collides ==
    \/ \E i, j \in Definitions : i # j /\ Key(source[i]) = Key(source[j])
    \/ \E i, j \in Definitions : Key(source[i]) = ShimName(Key(source[j]))
    \/ \E i \in Definitions : Key(source[i])[1] = "__closure" \/ Key(source[i]) \in DOMAIN Runtime

(* The panic of a field access, "checker should have rejected this", is    *)
(* met only by a file the checker did reject, as long as what may be       *)
(* missing stands where the checker looks (compile_get_field against the   *)
(* second pass of walk_function).                                          *)
FieldsWereChecked ==
    phase = "panic" /\ broken = "panic" => ~accepted

(* A file the checker has nothing to say about, whose names are its own    *)
(* and whose bodies take self where it can be seen, compiles.              *)
AcceptedLinks ==
    phase \in {"panic", "error"} => \/ ~accepted \/ Collides
                                    \/ \E i \in Definitions : source[i].self = "hidden"
=============================================================================
