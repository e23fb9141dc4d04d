------------------------------- MODULE Build -------------------------------
(***************************************************************************)
(* The commands of the roca CLI (roca-cli/src/main.rs) on one .roca file,  *)
(* with the proof-test runner of roca-native (lib.rs, run_tests).          *)
(*                                                                         *)
(* Several commands may run at once, the author edits the source at any    *)
(* time, and a command may be killed.  A source is abstracted to what the  *)
(* commands decide by: does the checker report errors, does the native     *)
(* back end compile it, and what its test cases do.                        *)
(***************************************************************************)
EXTENDS Naturals, Sequences, SequencesExt

CONSTANTS
  Procs,      \* the commands run, each once
  Commands,   \* a subset of {"check", "build", "test"}
  Sources     \* the versions of the source file

(* outcome of one TestCase::Equals; "unsupported" is an argument or an     *)
(* expected value that expr_to_value cannot convert                        *)
Outcome == {"pass", "fail", "unsupported"}

(* lines is the length of the emitted JavaScript; cases are the tests of   *)
(* functions, methodCases those of struct methods, and untested says that  *)
(* some function has no test block.                                        *)
ASSUME SourceAssumption ==
  \A s \in Sources :
    /\ s.clean \in BOOLEAN /\ s.compiles \in BOOLEAN /\ s.untested \in BOOLEAN
    /\ s.cases \in Seq(Outcome) /\ s.methodCases \in Seq(Outcome)
    /\ s.lines \in Nat \ {0}
ASSUME CommandAssumption == Commands \subseteq {"check", "build", "test"}

VARIABLES
  source,   \* the .roca file; Missing if there is none
  js,       \* the .js file, empty if there is none: the version of each line
  proc      \* the state of each command

vars == <<source, js, proc>>

Missing == [none |-> TRUE]

(* step: where the command is; read: the source it read; passed, failed:   *)
(* TestResult; output: whether TestResult.output has text; next: the test  *)
(* case that runs next.                                                    *)
Idle == [cmd |-> "none", step |-> "idle", read |-> Missing,
         passed |-> 0, failed |-> 0, output |-> FALSE, next |-> 1]

Init == source \in Sources /\ js = <<>> /\ proc = [p \in Procs |-> Idle]

Ended == {"exit0", "exit1", "rejected", "killed"}
Goto(p, step) == proc' = [proc EXCEPT ![p].step = step]
At(p, step) == proc[p].step = step

-----------------------------------------------------------------------------
Edit == source' \in Sources \cup {Missing} /\ UNCHANGED <<js, proc>>

(* main, read_source: an unreadable file ends the command. *)
Start(p, cmd) ==
  /\ At(p, "idle")
  /\ proc' = [proc EXCEPT ![p].cmd = cmd, ![p].read = source,
                          ![p].step = IF source = Missing THEN "exit1" ELSE "parse"]
  /\ UNCHANGED <<source, js>>

(* roca_parse::parse; cmd_check ends here. *)
Parse(p) ==
  /\ At(p, "parse")
  /\ Goto(p, IF ~ proc[p].read.clean THEN "exit1"
             ELSE IF proc[p].cmd = "check" THEN "exit0" ELSE "compile")
  /\ UNCHANGED <<source, js>>

(* run_tests: a source that does not compile runs no test, and says so in  *)
(* the output.                                                             *)
Compile(p) ==
  /\ At(p, "compile")
  /\ proc' = [proc EXCEPT ![p].output = ~ proc[p].read.compiles,
                          ![p].step = IF proc[p].read.compiles THEN "cases" ELSE "verdict"]
  /\ UNCHANGED <<source, js>>

(* The definitions named Bug... are mistakes one could make in the code;    *)
(* the properties are tested against them.                                 *)

(* run_tests: one test case of a function.  A case that cannot be run      *)
(* counts as failed.  Items that are not functions are passed over.        *)
BugRunCase(p) ==
  LET i == proc[p].next IN
  /\ At(p, "cases") /\ i \in DOMAIN proc[p].read.cases
  /\ LET ok == proc[p].read.cases[i] # "fail" IN
     proc' = [proc EXCEPT ![p].passed = @ + (IF ok THEN 1 ELSE 0),
                          ![p].failed = @ + (IF ok THEN 0 ELSE 1),
                          ![p].output = TRUE, ![p].next = @ + 1]
  /\ UNCHANGED <<source, js>>
BugSkipCase(p) ==
  LET i == proc[p].next IN
  /\ At(p, "cases") /\ i \in DOMAIN proc[p].read.cases
  /\ LET c == proc[p].read.cases[i] IN
     proc' = [proc EXCEPT ![p].passed = @ + (IF c = "pass" THEN 1 ELSE 0),
                          ![p].failed = @ + (IF c = "fail" THEN 1 ELSE 0),
                          ![p].output = TRUE, ![p].next = @ + 1]
  /\ UNCHANGED <<source, js>>
RunCase(p) ==
  LET i == proc[p].next IN
  /\ At(p, "cases") /\ i \in DOMAIN proc[p].read.cases
  /\ LET ok == proc[p].read.cases[i] = "pass" IN
     proc' = [proc EXCEPT ![p].passed = @ + (IF ok THEN 1 ELSE 0),
                          ![p].failed = @ + (IF ok THEN 0 ELSE 1),
                          ![p].output = TRUE, ![p].next = @ + 1]
  /\ UNCHANGED <<source, js>>

BugCasesDone(p) ==
  /\ At(p, "cases") /\ proc[p].next = Len(proc[p].read.cases)
  /\ Goto(p, "verdict")
  /\ UNCHANGED <<source, js>>
CasesDone(p) ==
  /\ At(p, "cases") /\ proc[p].next > Len(proc[p].read.cases)
  /\ Goto(p, "verdict")
  /\ UNCHANGED <<source, js>>

(* A running case may take the process down or never return.               *)
Killed(p) ==
  /\ proc[p].step \notin {"idle"} \cup Ended
  /\ Goto(p, "killed")
  /\ UNCHANGED <<source, js>>

(* "Nothing passed, nothing failed, but there is output" is how the        *)
(* commands recognise a compile error.                                     *)
CompileError(r) == r.passed = 0 /\ r.failed = 0 /\ r.output

(* cmd_test: the compile error is looked for first. *)
BugTestVerdict(p) ==
  /\ At(p, "verdict") /\ proc[p].cmd = "test"
  /\ Goto(p, IF proc[p].failed > 0 THEN "exit1" ELSE "exit0")
  /\ UNCHANGED <<source, js>>
TestVerdict(p) ==
  /\ At(p, "verdict") /\ proc[p].cmd = "test"
  /\ Goto(p, IF CompileError(proc[p]) \/ proc[p].failed > 0 THEN "exit1" ELSE "exit0")
  /\ UNCHANGED <<source, js>>

(* cmd_build: "rejected" is exit 1 as well, told apart from a failed write. *)
BuildVerdict(p) ==
  /\ At(p, "verdict") /\ proc[p].cmd = "build"
  /\ Goto(p, IF proc[p].failed > 0 \/ CompileError(proc[p]) THEN "rejected" ELSE "emit")
  /\ UNCHANGED <<source, js>>

(* fs::write: the file is truncated, then written from its start; what     *)
(* another command wrote beyond that stays.  Failing to open it ends the   *)
(* command, and so does failing to write it or being killed meanwhile,     *)
(* with only the first lines written.                                      *)
Truncate(p) ==
  /\ At(p, "emit")
  /\ \/ js' = <<>> /\ Goto(p, "write")
     \/ UNCHANGED js /\ Goto(p, "exit1")
  /\ UNCHANGED source

BugWriteNow(p) ==
  /\ At(p, "write") /\ source # Missing
  /\ js' = [i \in 1 .. source.lines |-> source]
  /\ Goto(p, "exit0")
  /\ UNCHANGED source
WriteJs(p) ==
  LET s == proc[p].read IN
  /\ At(p, "write")
  /\ \E k \in 0 .. s.lines :
       /\ js' = [i \in 1 .. k |-> s] \o SubSeq(js, k + 1, Len(js))
       /\ \/ k = s.lines /\ Goto(p, "exit0")
          \/ k < s.lines /\ Goto(p, "exit1")
          \/ k < s.lines /\ Goto(p, "killed")
  /\ UNCHANGED source

Step(p) ==
  \/ Parse(p) \/ Compile(p) \/ RunCase(p) \/ CasesDone(p)
  \/ TestVerdict(p) \/ BuildVerdict(p) \/ Truncate(p) \/ WriteJs(p)

Next ==
  \/ Edit
  \/ \E p \in Procs : Step(p) \/ Killed(p) \/ \E cmd \in Commands : Start(p, cmd)

(* A started command runs until it exits, unless it is killed. *)
Spec == Init /\ [][Next]_vars
FairSpec == Spec /\ \A p \in Procs : WF_vars(Step(p))

-----------------------------------------------------------------------------
Gated(s) ==
  s.clean /\ s.compiles /\ \A i \in DOMAIN s.cases : s.cases[i] = "pass"

(* Every variable keeps its shape, and what a command counted is what it   *)
(* ran: passed and failed cases add up, and only a compile error leaves    *)
(* output without a case.                                                  *)
TypeOK ==
  /\ source \in Sources \cup {Missing}
  /\ js \in Seq(Sources)
  /\ \A p \in Procs :
       /\ proc[p].cmd \in Commands \cup {"none"}
       /\ proc[p].passed + proc[p].failed = proc[p].next - 1
       /\ CompileError(proc[p]) => ~ proc[p].read.compiles

(* No line of JavaScript on disk comes from a source that has errors, does *)
(* not compile natively, or has a function test that did not pass, however *)
(* edits, other commands and kills interleave.                             *)
EmittedWasGated == \A i \in DOMAIN js : Gated(js[i])

(* `roca test` predicts `roca build`: on the same source both succeed or   *)
(* both fail, though each decides for itself.                              *)
TestPredictsBuild ==
  \A p, q \in Procs :
    proc[p].cmd = "test" /\ proc[q].cmd = "build" /\ proc[p].read = proc[q].read
    => /\ At(p, "exit1") => proc[q].step \notin {"emit", "write", "exit0"}
       /\ At(p, "exit0") => ~ At(q, "rejected")

(* The success of the only build on the file means that the file holds the *)
(* JavaScript of the source it read, whole, and of no later edit.          *)
SuccessMeansBuilt ==
  \A p \in Procs :
    /\ proc[p].cmd = "build" /\ At(p, "exit0")
    /\ \A q \in Procs \ {p} : proc[q].cmd # "build"
    => js = [i \in 1 .. proc[p].read.lines |-> proc[p].read]

(* A command that was started comes to an end. *)
CommandsEnd ==
  \A p \in Procs : proc[p].cmd # "none" ~> proc[p].step \in Ended

(* README.md: "Every function has inline tests. No output until they       *)
(* pass."                                                                  *)
EveryTestPassed ==
  \A s \in ToSet(js) : \A k \in DOMAIN s.methodCases : s.methodCases[k] = "pass"
EveryFunctionIsTested == \A s \in ToSet(js) : ~ s.untested
=============================================================================
