----------------------------- MODULE MCOwnership -----------------------------
(* Names, parameter lists and fragments for model-checking OwnershipRun. *)
EXTENDS OwnershipRun
OwnsOne == [x |-> "Owned", y |-> "absent"]
OwnsBoth == [x |-> "Owned", y |-> "Owned"]
LentOne == [x |-> "Owned", y |-> "Borrowed"]
AllParams == {OwnsOne, OwnsBoth, LentOne}
OwnsOneOnly == {OwnsOne}
OneParam == {<<"o">>, <<"b">>}
SomeShapes == {<<"o">>, <<"b">>, <<"part", "o">>}

(* The first two statements are of any kind; the second may bind a name    *)
(* again.  A third and a fourth follow                                     *)
(* if the body is made of blocks, jumps, new values and calls with one     *)
(* argument, and is accepted so far or about one name.                     *)
Simple == {"value", "call", "if", "loop", "for", "break", "continue"}
Every == Simple \cup {"ident", "field", "wrapped", "opaque", "cond", "setField", "var", "assign"}
AnyThenSimple == <<Every, Every \cup {"rebind"}, Simple, Simple>>
IsSimple(s) ==
  /\ s.op \notin {"var", "assign", "set"}
  /\ s.expr.kind \in {"value", "call"} /\ Len(s.expr.args) <= 1
  /\ s.op \in {"if", "for"} => s.expr = Value
UsesOneName == prog[1].pre = OwnsOne /\ \A i \in DOMAIN prog : prog[i].op \notin {"const", "let"}
ShortOrSimple ==
  \/ NumStmts <= 2
  \/ /\ prog[1].pre # OwnsBoth /\ \A i \in DOMAIN prog : IsSimple(prog[i])
     /\ Accepted \/ UsesOneName

UncheckedMoves == LET f == {"value", "call", "uncheckedMove"} IN <<f, f>>
=============================================================================
