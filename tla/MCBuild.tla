------------------------------- MODULE MCBuild -------------------------------
(* Versions of the source file for model-checking Build: one of each kind  *)
(* the commands tell apart.                                                *)
EXTENDS Build
Version(clean, compiles, cases, lines) ==
  [clean |-> clean, compiles |-> compiles, cases |-> cases, lines |-> lines,
   methodCases |-> <<>>, untested |-> FALSE]
Short == Version(TRUE, TRUE, <<"pass">>, 1)
Long == Version(TRUE, TRUE, <<"pass", "pass">>, 2)
Rejected == Version(FALSE, TRUE, <<"pass">>, 1)
Uncompiled == Version(TRUE, FALSE, <<"pass">>, 1)
Failing == Version(TRUE, TRUE, <<"pass", "fail">>, 1)
Skipped == Version(TRUE, TRUE, <<"pass", "unsupported">>, 1)
NoTests == [Version(TRUE, TRUE, <<>>, 1) EXCEPT !.untested = TRUE]
MethodFails == [Version(TRUE, TRUE, <<"pass">>, 1) EXCEPT !.methodCases = <<"fail">>]
AllSources == {Short, Long, Rejected, Uncompiled, Failing, Skipped, NoTests}
MethodSources == {Short, MethodFails}
=============================================================================
