----------------------------- MODULE MCTargets -----------------------------
EXTENDS Targets

TheFields   == <<"x", "y">>
TheLiterals == {IntOf(0), IntOf(1), BoolOf(TRUE)}
=============================================================================
