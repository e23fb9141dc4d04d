------------------------------ MODULE Linking ------------------------------
(***************************************************************************)
(* How a source file becomes a module of native code and how one of its    *)
(* functions is called (roca-native: compile, compile_shim, closures, and  *)
(* call).  A symbol is the sequence of the parts of its name, so that the  *)
(* names the compiler makes up, f__shim and __closure_0, are <<"f",        *)
(* "__shim">> and <<"__closure", "0">> whoever declares them.              *)
(***************************************************************************)
EXTENDS Integers, Sequences, SequencesExt

CONSTANTS
    Sources,      \* source files: sequences of definitions, methods among them
    MaxClosures   \* bound: closures in one function

(* A definition: the struct of a method (<<>> for a function), its name,   *)
(* the types it declares, whether its body uses self ("no", "seen" by      *)
(* body_uses_self, "hidden" in a match or a block where that does not      *)
(* look), the forms its body may hold and how many statements.             *)
Definition(struct, name, params, ret, self, body, steps) ==
    [struct |-> struct, name |-> name, params |-> params, ret |-> ret,
     self |-> self, body |-> body, steps |-> steps]

ASSUME SourceAssumption ==
    \A s \in Sources :
        /\ s \in Seq([struct : Seq(STRING), name : Seq(STRING) \ {<<>>}, params : Seq(STRING),
                       ret : STRING, self : {"no", "seen", "hidden"},
                       body : SUBSET {"closure"}, steps : Nat])
        /\ s # <<>>
ASSUME ClosureAssumption == MaxClosures \in Nat

VARIABLES
    source,    \* the file being compiled
    phase,     \* "declare", "compile", "body", "shims", "linked", "called",
               \* "error" (an Err is returned) or "panic"
    at,        \* the definition being declared or compiled
    decl,      \* symbol -> signature declared in the JIT module
    code,      \* symbol -> [by, sig]: whose code was defined for it
    closures,  \* closure_counter of the function being compiled
    broken,    \* what the body being compiled ends in: "no", "panic" or "error"
    answer     \* of a call: what the function was given and gave, and what
               \* the caller is told

linkVars == <<source, phase, at, decl, code, closures, broken, answer>>

Key(d)         == d.struct \o d.name
ShimName(k)    == Append(k, "__shim")
ClosureName(n) == <<"__closure", ToString(n)>>

ClifType(t) == CASE t = "Float" -> "F64" [] t = "Bool" -> "I8" [] OTHER -> "I64"

Signature(params, ret) == [params |-> params, ret |-> ret]
ShimSignature          == Signature(<<"I64">>, "I64")

(* What the declaration of d says and what its code takes: only methods    *)
(* are declared with a self, any body that uses it is compiled with one.   *)
TakesSelf(d) == d.self = "seen"
SelfParam(b) == IF b THEN <<"I64">> ELSE <<>>
ParamTypes(d) == [i \in DOMAIN d.params |-> ClifType(d.params[i])]
Declared(d) == Signature(SelfParam(d.struct # <<>> /\ TakesSelf(d)) \o ParamTypes(d), ClifType(d.ret))
Compiled(d) == Signature(SelfParam(TakesSelf(d)) \o ParamTypes(d), ClifType(d.ret))

(* The functions of roca-mem, imported before anything of the source.      *)
RuntimeName == {"mem_string_new", "mem_struct_new", "mem_struct_get_f64", "mem_struct_set_f64",
                "mem_struct_get_ptr", "mem_struct_set_owned", "mem_free"}
Runtime == [k \in {<<n>> : n \in RuntimeName} |->
    CASE k[1] = "mem_string_new"       -> Signature(<<"I64">>, "I64")
      [] k[1] = "mem_struct_new"       -> Signature(<<"I64", "I64">>, "I64")
      [] k[1] = "mem_struct_get_f64"   -> Signature(<<"I64", "I64">>, "F64")
      [] k[1] = "mem_struct_set_f64"   -> Signature(<<"I64", "I64", "F64">>, "none")
      [] k[1] = "mem_struct_get_ptr"   -> Signature(<<"I64", "I64">>, "I64")
      [] k[1] = "mem_struct_set_owned" -> Signature(<<"I64", "I64", "I64">>, "none")
      [] k[1] = "mem_free"             -> Signature(<<"I64">>, "none")]

(* A map with one more entry, or another one in its place. *)
With(f, k, v) == [x \in DOMAIN f \cup {k} |-> IF x = k THEN v ELSE f[x]]

(* Cranelift's declare_function: a symbol declared again must have the     *)
(* same signature and is then the same function; define_function takes one *)
(* body a symbol.                                                          *)
Declarable(k, sig) == k \in DOMAIN decl => decl[k] = sig
Declare(k, sig)    == decl' = With(decl, k, sig)
Definable(k)       == k \notin DOMAIN code
Define(k, by, sig) == code' = With(code, k, [by |-> by, sig |-> sig])

Definitions == DOMAIN source
FuncIds     == {Key(source[i]) : i \in Definitions}
Current     == source[at]

(* sig_reg and find_return_type: the last definition of a key, the first.  *)
SigReg(k)  == LET i == CHOOSE i \in Definitions : /\ Key(source[i]) = k
                                                 /\ \A j \in Definitions : Key(source[j]) = k => j <= i
              IN  Declared(source[i])
ReturnType(k) == LET i == CHOOSE i \in Definitions : /\ Key(source[i]) = k
                                                    /\ \A j \in Definitions : Key(source[j]) = k => i <= j
                 IN  source[i].ret

NoAnswer == [saw |-> <<>>, args |-> <<>>, gave |-> 0, told |-> 0]

LinkInit ==
    /\ source \in Sources
    /\ phase = "declare" /\ at = 1
    /\ decl = Runtime /\ code = <<>>
    /\ closures = 0 /\ broken = "no" /\ answer = NoAnswer

DeclareFunction ==
    /\ phase = "declare"
    /\ IF Declarable(Key(Current), Declared(Current))
       THEN /\ Declare(Key(Current), Declared(Current))
            /\ IF at < Len(source) THEN at' = at + 1 /\ phase' = phase
                                   ELSE at' = 1 /\ phase' = "compile"
       ELSE phase' = "error" /\ UNCHANGED <<decl, at>>
    /\ UNCHANGED <<source, code, closures, broken, answer>>

(* compile_function up to the body: a fresh context, so closures are       *)
(* counted from 0 again.                                                   *)
BeginFunction ==
    /\ phase = "compile"
    /\ phase' = "body" /\ closures' = 0 /\ broken' = "no"
    /\ UNCHANGED <<source, at, decl, code, answer>>

(* fn(a, b) -> ...: declared and defined while its function is compiled;   *)
(* both failures are panics.                                               *)
MakeClosure(n) ==
    LET k == ClosureName(closures)
        sig == Signature([i \in 1 .. n |-> "I64"], "I64")
    IN  /\ phase = "body" /\ broken # "panic"
        /\ "closure" \in Current.body /\ closures < MaxClosures
        /\ IF Declarable(k, sig) /\ Definable(k)
           THEN /\ Declare(k, sig) /\ Define(k, [closure |-> closures, of |-> at], sig)
                /\ closures' = closures + 1 /\ phase' = phase
           ELSE phase' = "panic" /\ UNCHANGED <<decl, code, closures>>
        /\ UNCHANGED <<source, at, broken, answer>>

(* A self where body_uses_self does not look was never bound: var_get      *)
(* panics.                                                                 *)
UseHiddenSelf ==
    /\ phase = "body" /\ broken # "panic" /\ Current.self = "hidden"
    /\ phase' = "panic"
    /\ UNCHANGED <<source, at, decl, code, closures, broken, answer>>

(* Mutant: a key that has its code already is passed over.                 *)
BugEndFunctionSkips ==
    /\ phase = "body" /\ broken = "no"
    /\ IF Definable(Key(Current)) THEN Define(Key(Current), [definition |-> at], Compiled(Current))
                                  ELSE code' = code
    /\ IF at < Len(source) THEN at' = at + 1 /\ phase' = "compile" ELSE at' = at /\ phase' = "shims"
    /\ UNCHANGED <<source, decl, closures, broken, answer>>

(* The verifier may refuse a body; a key defined twice is refused too.  A  *)
(* panic is met here, so that what the checker sees of the body is whole.  *)
EndFunction ==
    /\ phase = "body" /\ (Current.self = "hidden" => broken = "panic")
    /\ IF broken = "no" /\ Definable(Key(Current))
       THEN /\ Define(Key(Current), [definition |-> at], Compiled(Current))
            /\ IF at < Len(source) THEN at' = at + 1 /\ phase' = "compile"
                                   ELSE at' = at /\ phase' = "shims"
       ELSE /\ phase' = IF broken = "panic" THEN "panic" ELSE "error"
            /\ UNCHANGED <<code, at>>
    /\ UNCHANGED <<source, decl, closures, broken, answer>>

(* The shims, in the order of a hash map.                                  *)
ShimBy(k)  == [shim |-> k]
Shimmed    == {k \in FuncIds : ShimName(k) \in DOMAIN code /\ code[ShimName(k)].by = ShimBy(k)}

(* Mutant: a shim's code is defined and its name never declared.           *)
BugShimUndeclared(k) ==
    /\ phase = "shims" /\ k \in FuncIds \ Shimmed /\ Definable(ShimName(k))
    /\ Define(ShimName(k), ShimBy(k), ShimSignature)
    /\ phase' = IF FuncIds = Shimmed \cup {k} THEN "linked" ELSE phase
    /\ UNCHANGED <<source, at, decl, closures, broken, answer>>

CompileShim(k) ==
    /\ phase = "shims" /\ k \in FuncIds \ Shimmed
    /\ IF Declarable(ShimName(k), ShimSignature) /\ Definable(ShimName(k))
       THEN /\ Declare(ShimName(k), ShimSignature)
            /\ Define(ShimName(k), ShimBy(k), ShimSignature)
            /\ phase' = IF FuncIds = Shimmed \cup {k} THEN "linked" ELSE phase
       ELSE phase' = "error" /\ UNCHANGED <<decl, code>>
    /\ UNCHANGED <<source, at, closures, broken, answer>>

(***************************************************************************)
(* A call from the host.  A word of the argument buffer is a number: an    *)
(* integer, a pointer or a Bool (0 or 1) is itself, a float f is Bits(f).  *)
(***************************************************************************)
Bits(f)    == 1000 + f
FloatOf(w) == w - 1000
ValuesOf(t) == CASE t \in {"Float", "Bool"} -> {0, 1} [] t = "Unit" -> {0} [] OTHER -> {0, 1, 256}

Pack(t, v) == IF t = "Float" THEN Bits(v) ELSE v

(* Mutant: every argument that is no float is narrowed to a byte.          *)
BugLoadNarrow(clif, w) == IF clif = "F64" THEN FloatOf(w) ELSE w % 256

(* What the shim loads for a parameter, and how it widens what it returns; *)
(* what the host makes of the word.                                        *)
Load(clif, w)   == CASE clif = "F64" -> FloatOf(w) [] clif = "I8" -> w % 256 [] OTHER -> w
Unify(clif, r)  == IF clif = "F64" THEN Bits(r) ELSE r
Interpret(t, w) == CASE t = "Float" -> FloatOf(w)
                     [] t = "Bool"  -> (IF w # 0 THEN 1 ELSE 0)
                     [] t = "Unit"  -> 0
                     [] OTHER       -> w

ArgTypes(d) == (IF TakesSelf(d) THEN <<"Self">> ELSE <<>>) \o d.params

Call(i, args, result) ==
    LET d == source[i]
        reg == SigReg(Key(d))
    IN  /\ phase = "linked"
        /\ phase' = "called"
        /\ answer' = [args |-> args,
                      saw  |-> [j \in DOMAIN reg.params |-> Load(reg.params[j], Pack(ArgTypes(d)[j], args[j]))],
                      gave |-> result,
                      told |-> Interpret(ReturnType(Key(d)), Unify(reg.ret, result))]
        /\ UNCHANGED <<source, at, decl, code, closures, broken>>

ArgsOf(d) == {args \in [DOMAIN ArgTypes(d) -> UNION {ValuesOf(t) : t \in ToSet(ArgTypes(d))}] :
                  \A j \in DOMAIN args : args[j] \in ValuesOf(ArgTypes(d)[j])}
=============================================================================
