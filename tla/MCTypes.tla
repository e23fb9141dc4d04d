------------------------------- MODULE MCTypes -------------------------------
(* Functions for model-checking Types. *)
EXTENDS Types
Fn(p, r) == [params |-> p, ret |-> r, static |-> FALSE]
SomeSigs ==
  {Fn(<<"Int">>, "Float"), Fn(<<"Int">>, Struct), Fn(<<Struct>>, "Int"), Fn(<<"Bool">>, "Int"),
   Fn(<<"Float", "Int">>, "Bool"), [Fn(<<>>, Struct) EXCEPT !.static = TRUE]}
=============================================================================
