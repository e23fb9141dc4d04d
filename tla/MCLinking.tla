----------------------------- MODULE MCLinking -----------------------------
EXTENDS Dispatch

Plain(name, params, ret) == Definition(<<>>, name, params, ret, "no", {}, 0)
Method(T, name, ret, self, steps) == Definition(<<T>>, <<name>>, <<"Int">>, ret, self, {}, steps)

(* Names that meet: two functions of one name, functions named like shims, *)
(* closures, shims of shims and the runtime, one function with closures.   *)
Pool == {Plain(<<"f">>, <<"Int">>, "Int"), Plain(<<"f">>, <<"Bool">>, "Float"),
         Plain(<<"f", "__shim">>, <<"Int">>, "Int"), Plain(<<"f", "__shim">>, <<>>, "Int"),
         Plain(<<"f", "__shim", "__shim">>, <<"String">>, "Unit"),
         Plain(<<"__closure", "0">>, <<"Int">>, "Int"), Plain(<<"mem_free">>, <<"Int">>, "Unit"),
         Definition(<<>>, <<"g">>, <<"Int">>, "Int", "no", {"closure"}, 0),
         Definition(<<"P">>, <<"m">>, <<>>, "Bool", "hidden", {}, 0)}
NameSources == UNION {[1 .. n -> Pool] : n \in 1 .. 3}
OneClosure(s) == \A i, j \in DOMAIN s : "closure" \in s[i].body /\ "closure" \in s[j].body => i = j

(* Lists of types.                                                         *)
Types == {"Int", "Float", "Bool", "P"}
TypeSources == {<<Definition(<<"P">>, <<"m">>, <<t, u>>, r, self, {}, 0)>> :
                    t, u \in Types, r \in Types \cup {"Unit"}, self \in {"no", "seen"}}

(* Two structs with a field and a method of the same name, a body that     *)
(* reads and sets its own fields, and one that handles objects.            *)
BodySources ==
    {<<Method("P", "new", "P", "no", 0), Method("P", "get", "Int", "seen", 1),
       Method("Q", "get", "P", "seen", 0), Method("Q", "mk", "P", "no", 0), Definition(<<>>, <<"main">>, <<"Q">>, "Int", "no", {}, 5)>>}

SomeSources == {s \in NameSources : OneClosure(s)} \cup TypeSources \cup BodySources
PQ == [T \in {"P", "Q"} |-> IF T = "P" THEN <<"x", "y">> ELSE <<"y", "z">>]
VarNames == <<"a", "b">>

Closure(name) == Definition(<<>>, <<name>>, <<"Int">>, "Int", "no", {"closure"}, 0)
ClosureSources == {<<Closure("apply"), Closure("transform")>>}
=============================================================================
