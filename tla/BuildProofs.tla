----------------------------- MODULE BuildProofs -----------------------------
(***************************************************************************)
(* Proofs about Build, for any number of commands and any versions of the  *)
(* source: what reaches the disk was gated, `roca test` predicts `roca     *)
(* build`, and a build that succeeds alone leaves what it read.            *)
(***************************************************************************)
EXTENDS Build, SequenceTheorems, TLAPS

Steps == {"idle", "parse", "compile", "cases", "verdict", "emit", "write"} \cup Ended

Process ==
  [cmd : Commands \cup {"none"}, step : Steps, read : Sources \cup {Missing},
   passed : Nat, failed : Nat, output : BOOLEAN, next : Nat]

(* The cases before the next one have run, and are what was counted.       *)
Counted(r) ==
  /\ r.passed + r.failed = r.next - 1
  /\ r.failed = 0 <=>
       (r.next = 1 \/ \A i \in DOMAIN r.read.cases :
                        i < r.next => r.read.cases[i] = "pass")

(* What the step a command is at says of the source it read and of its     *)
(* counters.                                                               *)
Fresh(r) == r.passed = 0 /\ r.failed = 0 /\ r.next = 1 /\ ~ r.output

Running(r) ==
  /\ r.step \notin {"idle", "exit1", "killed"} => r.read \in Sources \ {Missing}
  /\ r.step = "idle" <=> r.cmd = "none"
  /\ r.step \in {"idle", "parse", "compile"} => Fresh(r)
  /\ r.step \in {"compile", "cases", "verdict"} =>
       r.read.clean /\ r.cmd \in {"build", "test"}
  /\ r.step = "cases" => r.read.compiles /\ r.next <= Len(r.read.cases) + 1
  /\ r.step = "verdict" => IF r.read.compiles THEN r.next = Len(r.read.cases) + 1
                                               ELSE CompileError(r)

(* What a command knows of its source once it has given its verdict.       *)
Decided(r) ==
  /\ r.step \in {"emit", "write", "rejected"} => r.cmd = "build"
  /\ r.step \in {"emit", "write"} => Gated(r.read)
  /\ r.step = "rejected" => ~ Gated(r.read)
  /\ r.step = "exit0" => r.cmd = "check" \/ Gated(r.read)
  /\ r.step = "exit1" /\ r.cmd = "test" => r.read = Missing \/ ~ Gated(r.read)

Builds(p) == proc[p].cmd = "build"
Alone(p) == Builds(p) /\ \A q \in Procs \ {p} : ~ Builds(q)

(* The file while its only build writes it, and after. *)
OnDisk(p) ==
  /\ At(p, "write") => js = <<>>
  /\ At(p, "exit0") => js = [i \in 1 .. proc[p].read.lines |-> proc[p].read]

Local(r) ==
  Counted(r) /\ (CompileError(r) => ~ r.read.compiles) /\ Running(r) /\ Decided(r)

BuildInv ==
  /\ source \in Sources \cup {Missing}
  /\ js \in Seq(Sources)
  /\ EmittedWasGated
  /\ proc \in [Procs -> Process]
  /\ \A p \in Procs : Local(proc[p])
  /\ \A p \in Procs : Alone(p) => OnDisk(p)

LEMMA BuildInit == Init => BuildInv
<1> SUFFICES ASSUME Init PROVE BuildInv
  OBVIOUS
<1>1. Idle \in Process
  BY DEF Idle, Process, Steps
<1>2. Local(Idle)
  BY DEF Idle, Local, Counted, CompileError, Running, Decided, Fresh
<1>3. proc \in [Procs -> Process] /\ \A p \in Procs : proc[p] = Idle
  BY <1>1 DEF Init
<1>4. \A p \in Procs : ~ Builds(p)
  BY <1>3 DEF Builds, Idle
<1>5. js = <<>> /\ js \in Seq(Sources) /\ EmittedWasGated
  BY EmptySeq DEF Init, EmittedWasGated
<1>6. QED
  BY <1>2, <1>3, <1>4, <1>5 DEF Init, BuildInv, Alone

(* One command moves: what is said of every command is to be shown of that *)
(* one only, if it writes the file as a build and keeps its name.          *)
LEMMA OneMoves ==
  ASSUME BuildInv, NEW p \in Procs,
         source' \in Sources \cup {Missing}, js' \in Seq(Sources), EmittedWasGated',
         proc' \in [Procs -> Process], Local(proc'[p]),
         \A q \in Procs \ {p} : proc'[q] = proc[q],
         proc[p].cmd \in {"none", proc'[p].cmd},
         js' = js \/ (Builds(p) /\ Builds(p)'),
         (Alone(p) => OnDisk(p)) => (Alone(p)' => OnDisk(p)')
  PROVE  BuildInv'
<1>1. \A q \in Procs : Local(proc'[q])
  BY DEF BuildInv
<1>2. ASSUME NEW q \in Procs \ {p}, Alone(q)' PROVE OnDisk(q)'
  <2>1. Alone(q) /\ js' = js
    BY <1>2 DEF Alone, Builds
  <2>2. OnDisk(q)
    BY <2>1 DEF BuildInv
  <2>3. QED
    BY <2>1, <2>2 DEF OnDisk, At
<1>3. Alone(p)' => OnDisk(p)'
  BY DEF BuildInv
<1>4. QED
  BY <1>1, <1>2, <1>3 DEF BuildInv

(* The same when the file is left alone and the command neither starts to  *)
(* write nor ends as a build.                                              *)
LEMMA OneMovesOn ==
  ASSUME BuildInv, NEW p \in Procs, UNCHANGED <<source, js>>,
         NEW r \in Process, proc' = [proc EXCEPT ![p] = r], Local(r),
         proc[p].cmd \in {"none", r.cmd},
         r.step # "write", r.step = "exit0" => r.cmd # "build"
  PROVE  BuildInv'
<1>1. proc'[p] = r /\ \A q \in Procs \ {p} : proc'[q] = proc[q]
  BY DEF BuildInv
<1>2. proc' \in [Procs -> Process]
  BY DEF BuildInv
<1>3. EmittedWasGated' /\ js' \in Seq(Sources) /\ source' \in Sources \cup {Missing}
  BY DEF BuildInv, EmittedWasGated
<1>4. Alone(p)' => OnDisk(p)'
  BY <1>1 DEF Alone, Builds, OnDisk, At
<1>5. QED
  BY <1>1, <1>2, <1>3, <1>4, OneMoves

LEMMA StartInv ==
  ASSUME BuildInv, NEW p \in Procs, NEW cmd \in Commands, Start(p, cmd)
  PROVE  BuildInv'
<1> DEFINE r == [proc[p] EXCEPT !.cmd = cmd, !.read = source,
                   !.step = IF source = Missing THEN "exit1" ELSE "parse"]
<1>1. proc[p] \in Process /\ Local(proc[p]) /\ proc[p].step = "idle"
  BY DEF BuildInv, Start, At
<1>2. cmd # "none"
  BY CommandAssumption
<1>3. r \in Process
  BY <1>1 DEF Process, BuildInv, Steps, Ended
<1>4. Local(r)
  BY <1>1, <1>2 DEF Process, BuildInv, Local, Counted, CompileError, Running, Decided,
     Fresh
<1>5. proc' = [proc EXCEPT ![p] = r] /\ UNCHANGED <<source, js>>
  BY DEF Start, BuildInv
<1>6. proc[p].cmd = "none" /\ r.step \in {"exit1", "parse"}
  BY <1>1 DEF Local, Running, Process
<1>7. QED
  BY <1>3, <1>4, <1>5, <1>6, OneMovesOn

(* A command at a step of its run. *)
LEMMA AtStep ==
  ASSUME BuildInv, NEW p \in Procs, proc[p].step \notin {"idle", "exit1", "killed"}
  PROVE  /\ proc[p] \in Process /\ Local(proc[p])
         /\ proc[p].read \in Sources /\ proc[p].read # Missing
         /\ proc[p].read.clean \in BOOLEAN /\ proc[p].read.compiles \in BOOLEAN
         /\ proc[p].read.cases \in Seq(Outcome)
         /\ proc[p].read.lines \in Nat \ {0}
         /\ proc[p].cmd \in {"check", "build", "test"}
BY SourceAssumption, CommandAssumption DEF BuildInv, Local, Running, Process

LEMMA ParseInv == ASSUME BuildInv, NEW p \in Procs, Parse(p) PROVE BuildInv'
<1> DEFINE r == [proc[p] EXCEPT !.step =
                   IF ~ proc[p].read.clean THEN "exit1"
                   ELSE IF proc[p].cmd = "check" THEN "exit0" ELSE "compile"]
<1>1. proc[p].step = "parse"
  BY DEF Parse, At
<1>2. proc' = [proc EXCEPT ![p] = r] /\ UNCHANGED <<source, js>>
  BY DEF Parse, Goto, BuildInv
<1>3. r \in Process
  BY <1>1, AtStep DEF Process, Steps, Ended
<1>4. Local(r)
  BY <1>1, AtStep DEF Process, Local, Counted, CompileError, Running, Decided, Fresh, Gated
<1>5. QED
  BY <1>1, <1>2, <1>3, <1>4, AtStep, OneMovesOn DEF Process

LEMMA CompileInv == ASSUME BuildInv, NEW p \in Procs, Compile(p) PROVE BuildInv'
<1> DEFINE r == [proc[p] EXCEPT
                   !.output = ~ proc[p].read.compiles,
                   !.step = IF proc[p].read.compiles THEN "cases" ELSE "verdict"]
<1>1. proc[p].step = "compile"
  BY DEF Compile, At
<1>2. proc' = [proc EXCEPT ![p] = r] /\ UNCHANGED <<source, js>>
  BY DEF Compile, BuildInv
<1>3. r \in Process
  <2>1. proc[p] \in Process /\ proc[p].read.compiles \in BOOLEAN
    BY <1>1, AtStep
  <2>2. \A o \in BOOLEAN, st \in Steps :
          [proc[p] EXCEPT !.output = o, !.step = st] \in Process
    BY <2>1 DEF Process
  <2>3. (IF proc[p].read.compiles THEN "cases" ELSE "verdict") \in Steps
    BY DEF Steps
  <2>4. QED
    BY <2>1, <2>2, <2>3
<1>4. Len(proc[p].read.cases) \in Nat
  BY <1>1, AtStep, LenProperties
<1>5. /\ r.read = proc[p].read /\ r.cmd = proc[p].cmd /\ r.passed = proc[p].passed
      /\ r.failed = proc[p].failed /\ r.next = proc[p].next
      /\ r.output = ~ proc[p].read.compiles
      /\ r.step = IF proc[p].read.compiles THEN "cases" ELSE "verdict"
  BY <1>1, AtStep DEF Process
<1>a. Local(r)
  <2> HIDE DEF r
  <2>1. /\ Fresh(proc[p]) /\ Counted(proc[p]) /\ proc[p].read.clean
        /\ proc[p].cmd \in {"build", "test"}
        /\ proc[p].read \in Sources \ {Missing}
    BY <1>1, AtStep DEF Local, Running
  <2>2. Counted(r)
    BY <1>5, <2>1 DEF Counted
  <2>3. CompileError(r) => ~ r.read.compiles
    BY <1>5, <2>1, SourceAssumption DEF CompileError
  <2>4. Running(r)
    <3>1. CASE proc[p].read.compiles
      <4>1. r.step = "cases" /\ r.next <= Len(r.read.cases) + 1
        BY <1>4, <1>5, <2>1, <3>1 DEF Fresh
      <4>2. QED
        BY <1>5, <2>1, <3>1, <4>1 DEF Running
    <3>2. CASE ~ proc[p].read.compiles
      <4>1. r.step = "verdict" /\ CompileError(r)
        BY <1>5, <2>1, <3>2 DEF Fresh, CompileError
      <4>2. QED
        BY <1>5, <2>1, <3>2, <4>1 DEF Running
    <3>3. QED
      BY <3>1, <3>2
  <2>5. r.step \notin {"emit", "write", "rejected", "exit0", "exit1"}
    BY <1>5
  <2>6. Decided(r)
    BY <2>5 DEF Decided
  <2>7. QED
    BY <2>2, <2>3, <2>4, <2>6 DEF Local
<1>6. QED
  BY <1>1, <1>2, <1>3, <1>a, AtStep, OneMovesOn DEF Process

LEMMA RunCaseInv == ASSUME BuildInv, NEW p \in Procs, RunCase(p) PROVE BuildInv'
<1> DEFINE i == proc[p].next
           cases == proc[p].read.cases
           ok == cases[i] = "pass"
           r == [proc[p] EXCEPT !.passed = @ + (IF ok THEN 1 ELSE 0),
                                !.failed = @ + (IF ok THEN 0 ELSE 1),
                                !.output = TRUE, !.next = @ + 1]
<1>1. proc[p].step = "cases" /\ i \in DOMAIN cases
  BY DEF RunCase, At
<1>2. proc' = [proc EXCEPT ![p] = r] /\ UNCHANGED <<source, js>>
  BY DEF RunCase, BuildInv
<1>3. /\ proc[p] \in Process /\ proc[p].passed \in Nat /\ proc[p].failed \in Nat
      /\ i \in Nat
  BY <1>1, AtStep DEF Process
<1>4. DOMAIN cases = 1 .. Len(cases) /\ Len(cases) \in Nat
  BY <1>1, AtStep, LenProperties
<1>5. Counted(proc[p]) /\ Running(proc[p])
  BY <1>1, AtStep DEF Local
<1> DEFINE passed == proc[p].passed + (IF ok THEN 1 ELSE 0)
           failed == proc[p].failed + (IF ok THEN 0 ELSE 1)
<1>a. /\ passed \in Nat /\ failed \in Nat /\ passed + failed = i
      /\ ok => failed = proc[p].failed
      /\ ~ ok => failed # 0
  <2>1. proc[p].passed + proc[p].failed = i - 1
    BY <1>5 DEF Counted
  <2>2. CASE ok
    BY <1>3, <2>1, <2>2
  <2>3. CASE ~ ok
    BY <1>3, <2>1, <2>3
  <2>4. QED
    BY <2>2, <2>3
<1>6. /\ r.next = i + 1 /\ r.read = proc[p].read /\ r.cmd = proc[p].cmd
      /\ r.step = "cases" /\ r.output /\ i <= Len(cases)
      /\ r.passed = passed /\ r.failed = failed
      /\ r \in Process
  <2> HIDE DEF ok
  <2>1. r.next = i + 1 /\ r.passed = passed /\ r.failed = failed
    BY <1>3 DEF Process
  <2>2. r \in Process
    <3>1. r = [proc[p] EXCEPT !.passed = passed, !.failed = failed,
                              !.output = TRUE, !.next = i + 1]
      BY <1>3 DEF Process
    <3> HIDE DEF passed, failed, r
    <3>2. i + 1 \in Nat
      BY <1>3
    <3>3. \A a, b, n \in Nat :
            [proc[p] EXCEPT !.passed = a, !.failed = b, !.output = TRUE, !.next = n]
              \in Process
      BY <1>3 DEF Process
    <3>4. QED
      BY <1>a, <3>1, <3>2, <3>3
  <2>3. QED
    BY <1>1, <1>3, <1>4, <2>1, <2>2 DEF Process
<1>7. Counted(r)
  <2> HIDE DEF passed, failed, r
  <2>1. r.passed + r.failed = r.next - 1
    BY <1>3, <1>6, <1>a
  <2>2. CASE ok
    <3>1. r.failed = 0 <=> proc[p].failed = 0
      BY <1>6, <1>a, <2>2
    <3>2. proc[p].failed = 0 <=> \A k \in DOMAIN cases : k < i => cases[k] = "pass"
      BY <1>4, <1>5, <1>6 DEF Counted
    <3>3. \A k \in DOMAIN cases : k < i + 1 => k < i \/ k = i
      BY <1>3, <1>4
    <3>4. r.failed = 0 <=> \A k \in DOMAIN cases : k < i + 1 => cases[k] = "pass"
      BY <1>1, <1>3, <1>4, <2>2, <3>1, <3>2, <3>3
    <3>5. r.next # 1
      BY <1>1, <1>4, <1>6
    <3>6. QED
      BY <1>6, <2>1, <3>4, <3>5 DEF Counted
  <2>3. CASE ~ ok
    <3>1. r.failed # 0 /\ r.next # 1 /\ i < r.next
      BY <1>1, <1>3, <1>4, <1>6, <1>a, <2>3
    <3>2. QED
      BY <1>1, <1>6, <2>1, <2>3, <3>1 DEF Counted
  <2>4. QED
    BY <2>2, <2>3
<1>8. ~ CompileError(r)
  <2> HIDE DEF passed, failed, r
  <2>1. i # 0
    BY <1>1, <1>4
  <2>2. passed # 0 \/ failed # 0
    BY <1>a, <2>1
  <2>3. r.passed = passed /\ r.failed = failed
    BY <1>6
  <2>4. QED
    BY <2>2, <2>3 DEF CompileError
<1>9. Local(r)
  <2>1. /\ r.step = "cases" /\ r.read = proc[p].read /\ r.cmd = proc[p].cmd
        /\ r.next = i + 1 /\ i <= Len(cases)
    BY <1>6
  <2> HIDE DEF r
  <2>2. Running(r) /\ Decided(r)
    BY <1>1, <1>4, <1>5, <2>1, AtStep DEF Running, Decided
  <2>3. QED
    BY <1>7, <1>8, <2>2 DEF Local
<1>10. QED
  BY <1>1, <1>2, <1>6, <1>9, AtStep, OneMovesOn

LEMMA CasesDoneInv == ASSUME BuildInv, NEW p \in Procs, CasesDone(p) PROVE BuildInv'
<1> DEFINE r == [proc[p] EXCEPT !.step = "verdict"]
<1>1. proc[p].step = "cases" /\ proc[p].next > Len(proc[p].read.cases)
  BY DEF CasesDone, At
<1>2. proc' = [proc EXCEPT ![p] = r] /\ UNCHANGED <<source, js>>
  BY DEF CasesDone, Goto, BuildInv
<1>3. r \in Process
  BY <1>1, AtStep DEF Process, Steps, Ended
<1>4. Len(proc[p].read.cases) \in Nat
  BY <1>1, AtStep, LenProperties
<1>5. Local(r)
  BY <1>1, <1>4, AtStep
     DEF Process, Local, Counted, CompileError, Running, Decided, Fresh
<1>6. QED
  BY <1>1, <1>2, <1>3, <1>5, AtStep, OneMovesOn DEF Process

(* The verdict is right: what the commands look at after the tests tells   *)
(* whether the source is gated.                                            *)
LEMMA VerdictIsGated ==
  ASSUME BuildInv, NEW p \in Procs, At(p, "verdict")
  PROVE  Gated(proc[p].read) <=> ~ (CompileError(proc[p]) \/ proc[p].failed > 0)
<1> DEFINE r == proc[p]
<1>1. /\ r \in Process /\ Local(r) /\ r.read.clean /\ r.read.compiles \in BOOLEAN
      /\ r.step = "verdict" /\ r.read.cases \in Seq(Outcome)
  BY AtStep DEF At, Local, Running
<1>2. DOMAIN r.read.cases = 1 .. Len(r.read.cases) /\ Len(r.read.cases) \in Nat
  BY <1>1, LenProperties
<1>3. CASE r.read.compiles
  <2>1. r.next = Len(r.read.cases) + 1 /\ ~ CompileError(r)
    BY <1>1, <1>3 DEF Local, Running
  <2>2. r.failed = 0 <=> \A i \in DOMAIN r.read.cases : r.read.cases[i] = "pass"
    BY <1>1, <1>2, <2>1 DEF Local, Counted
  <2>3. r.failed \in Nat
    BY <1>1 DEF Process
  <2>4. QED
    BY <1>1, <1>3, <2>1, <2>2, <2>3 DEF Gated
<1>4. CASE ~ r.read.compiles
  BY <1>1, <1>4 DEF Local, Running, Gated
<1>5. QED
  BY <1>3, <1>4

LEMMA TestVerdictInv ==
  ASSUME BuildInv, NEW p \in Procs, TestVerdict(p) PROVE BuildInv'
<1> DEFINE r == [proc[p] EXCEPT !.step =
              IF CompileError(proc[p]) \/ proc[p].failed > 0 THEN "exit1" ELSE "exit0"]
<1>1. proc[p].step = "verdict" /\ proc[p].cmd = "test" /\ At(p, "verdict")
  BY DEF TestVerdict, At
<1>2. proc' = [proc EXCEPT ![p] = r] /\ UNCHANGED <<source, js>>
  BY DEF TestVerdict, Goto, BuildInv
<1>3. r \in Process
  BY <1>1, AtStep DEF Process, Steps, Ended
<1>4. Local(r)
  BY <1>1, AtStep, VerdictIsGated
     DEF Process, Local, Counted, CompileError, Running, Decided, Fresh
<1>5. QED
  BY <1>1, <1>2, <1>3, <1>4, AtStep, OneMovesOn DEF Process

LEMMA BuildVerdictInv ==
  ASSUME BuildInv, NEW p \in Procs, BuildVerdict(p) PROVE BuildInv'
<1> DEFINE r == [proc[p] EXCEPT !.step =
              IF proc[p].failed > 0 \/ CompileError(proc[p]) THEN "rejected" ELSE "emit"]
<1>1. proc[p].step = "verdict" /\ proc[p].cmd = "build" /\ At(p, "verdict")
  BY DEF BuildVerdict, At
<1>2. proc' = [proc EXCEPT ![p] = r] /\ UNCHANGED <<source, js>>
  BY DEF BuildVerdict, Goto, BuildInv
<1>3. r \in Process
  BY <1>1, AtStep DEF Process, Steps, Ended
<1>4. Local(r)
  BY <1>1, AtStep, VerdictIsGated
     DEF Process, Local, Counted, CompileError, Running, Decided, Fresh
<1>5. QED
  BY <1>1, <1>2, <1>3, <1>4, AtStep, OneMovesOn DEF Process

LEMMA KilledInv == ASSUME BuildInv, NEW p \in Procs, Killed(p) PROVE BuildInv'
<1> DEFINE r == [proc[p] EXCEPT !.step = "killed"]
<1>1. proc[p].step \notin {"idle"} \cup Ended
  BY DEF Killed
<1>2. proc' = [proc EXCEPT ![p] = r] /\ UNCHANGED <<source, js>>
  BY DEF Killed, Goto, BuildInv
<1>3. r \in Process
  BY <1>1, AtStep DEF Process, Steps, Ended
<1>4. Local(r)
  BY <1>1, AtStep
     DEF Ended, Process, Local, Counted, CompileError, Running, Decided, Fresh
<1>5. QED
  BY <1>1, <1>2, <1>3, <1>4, AtStep, OneMovesOn DEF Process, Ended

LEMMA TruncateInv == ASSUME BuildInv, NEW p \in Procs, Truncate(p) PROVE BuildInv'
<1>1. /\ proc[p].step = "emit" /\ proc[p].cmd = "build" /\ Gated(proc[p].read)
      /\ source' = source /\ proc[p] \in Process /\ Local(proc[p])
  BY AtStep DEF Truncate, At, Local, Decided
<1>2. PICK step \in {"write", "exit1"} :
        /\ proc' = [proc EXCEPT ![p].step = step]
        /\ step = "write" => js' = <<>>
        /\ step # "write" => js' = js
  BY DEF Truncate, Goto
<1>3. /\ proc'[p] = [proc[p] EXCEPT !.step = step]
      /\ \A q \in Procs \ {p} : proc'[q] = proc[q]
  BY <1>2 DEF BuildInv
<1>4. proc'[p] \in Process
  BY <1>1, <1>3 DEF Process, Steps, Ended
<1>5. Local(proc'[p])
  <2>1. CASE step = "write"
    BY <1>1, <1>3, <2>1, AtStep
       DEF Process, Local, Counted, CompileError, Running, Decided, Fresh
  <2>2. CASE step = "exit1"
    BY <1>1, <1>3, <2>2, AtStep
       DEF Process, Local, Counted, CompileError, Running, Decided, Fresh
  <2>3. QED
    BY <2>1, <2>2
<1>6. proc' \in [Procs -> Process]
  BY <1>2, <1>3, <1>4 DEF BuildInv
<1>7. js' \in Seq(Sources) /\ EmittedWasGated'
  <2>1. CASE js' = js
    BY <2>1 DEF BuildInv, EmittedWasGated
  <2>2. CASE js' = <<>>
    BY <2>2, EmptySeq DEF EmittedWasGated, Gated
  <2>3. QED
    BY <1>2, <2>1, <2>2
<1>8. proc'[p].step = step /\ proc'[p].cmd = "build"
  BY <1>1, <1>3 DEF Process
<1>9. OnDisk(p)'
  BY <1>2, <1>8 DEF OnDisk, At
<1>10. source' \in Sources \cup {Missing}
  BY <1>1 DEF BuildInv
<1>11. QED
  BY <1>1, <1>3, <1>4, <1>5, <1>6, <1>7, <1>8, <1>9, <1>10, OneMoves DEF Builds

(* What is left of a file when it is written from its start. *)
WrittenOver(new, old) == new \o SubSeq(old, Len(new) + 1, Len(old))

LEMMA Overwrite ==
  ASSUME NEW S, NEW old \in Seq(S), NEW new \in Seq(S)
  PROVE  /\ WrittenOver(new, old) \in Seq(S)
         /\ \A i \in DOMAIN WrittenOver(new, old) :
              \/ \E k \in DOMAIN new : WrittenOver(new, old)[i] = new[k]
              \/ \E k \in DOMAIN old : WrittenOver(new, old)[i] = old[k]
         /\ old = <<>> => WrittenOver(new, old) = new
<1> DEFINE n == Len(new)
           rest == SubSeq(old, n + 1, Len(old))
           file == WrittenOver(new, old)
<1>1. /\ Len(old) \in Nat /\ DOMAIN old = 1 .. Len(old)
      /\ n \in Nat /\ DOMAIN new = 1 .. n
  BY LenProperties
<1>2. /\ rest \in Seq(S)
      /\ \A i \in 1 .. Len(rest) : n + i \in DOMAIN old /\ rest[i] = old[n + i]
      /\ old = <<>> => rest = <<>>
  <2>1. \A i \in n + 1 .. Len(old) : old[i] \in S
    BY <1>1, ElementOfSeq
  <2>2. CASE n + 1 <= Len(old)
    <3>1. rest \in Seq(S) /\ Len(rest) = Len(old) - (n + 1) + 1
      BY <1>1, <2>1, <2>2, SubSeqProperties
    <3>2. \A i \in 1 .. Len(old) - (n + 1) + 1 : rest[i] = old[n + 1 + i - 1]
      BY <1>1, <2>1, SubSeqProperties
    <3> HIDE DEF rest, n
    <3>3. ASSUME NEW i \in 1 .. Len(rest)
          PROVE  n + i \in DOMAIN old /\ rest[i] = old[n + i]
      <4>1. /\ i \in 1 .. Len(old) - (n + 1) + 1 /\ n + 1 + i - 1 = n + i
            /\ n + i \in 1 .. Len(old)
        BY <1>1, <2>2, <3>1
      <4>2. rest[i] = old[n + 1 + i - 1]
        BY <3>2, <4>1
      <4>3. QED
        BY <1>1, <4>1, <4>2
    <3>4. old # <<>>
      BY <1>1, <2>2, EmptySeq
    <3>5. QED
      BY <3>1, <3>3, <3>4
  <2>3. CASE ~ (n + 1 <= Len(old))
    <3>1. rest = <<>>
      BY <1>1, <2>3, SubSeqEmpty
    <3>2. QED
      BY <3>1, EmptySeq
  <2>4. QED
    BY <2>2, <2>3
<1>3. Len(rest) \in Nat
  BY <1>2, LenProperties
<1>4. file = new \o rest
  BY DEF WrittenOver
<1> HIDE DEF rest, file
<1>5. /\ file \in Seq(S) /\ Len(file) = n + Len(rest)
      /\ \A i \in 1 .. n + Len(rest) : file[i] = IF i <= n THEN new[i] ELSE rest[i - n]
  BY <1>2, <1>4, ConcatProperties
<1> HIDE DEF n
<1>6. DOMAIN file = 1 .. n + Len(rest)
  BY <1>5, LenProperties
<1>7. ASSUME NEW i \in DOMAIN file
      PROVE  \/ \E k \in DOMAIN new : file[i] = new[k]
             \/ \E k \in DOMAIN old : file[i] = old[k]
  <2>1. i \in 1 .. n + Len(rest)
    BY <1>6
  <2>2. CASE i <= n
    <3>1. i \in DOMAIN new /\ file[i] = new[i]
      BY <1>1, <1>3, <1>5, <2>1, <2>2
    <3>2. QED
      BY <3>1
  <2>3. CASE ~ (i <= n)
    <3>1. i - n \in 1 .. Len(rest)
      BY <1>1, <1>3, <2>1, <2>3
    <3>2. file[i] = rest[i - n]
      BY <1>5, <2>1, <2>3
    <3>3. QED
      BY <1>2, <3>1, <3>2
  <2>4. QED
    BY <2>2, <2>3
<1>8. ASSUME old = <<>> PROVE file = new
  BY <1>2, <1>4, <1>8, ConcatEmptySeq
<1>9. QED
  BY <1>5, <1>7, <1>8 DEF file

LEMMA WriteJsInv == ASSUME BuildInv, NEW p \in Procs, WriteJs(p) PROVE BuildInv'
<1> DEFINE s == proc[p].read
<1>1. /\ proc[p].step = "write" /\ proc[p].cmd = "build" /\ Gated(s)
      /\ proc[p] \in Process /\ Local(proc[p])
      /\ s \in Sources /\ s.lines \in Nat
  BY AtStep DEF WriteJs, At, Local, Decided
<1>2. PICK k \in 0 .. s.lines, step \in {"exit0", "exit1", "killed"} :
        /\ js' = [i \in 1 .. k |-> s] \o SubSeq(js, k + 1, Len(js))
        /\ proc' = [proc EXCEPT ![p].step = step]
        /\ step = "exit0" => k = s.lines
  BY DEF WriteJs, Goto
<1>3. /\ proc'[p] = [proc[p] EXCEPT !.step = step]
      /\ \A q \in Procs \ {p} : proc'[q] = proc[q]
  BY <1>2 DEF BuildInv
<1>4. /\ proc'[p].step = step /\ proc'[p].cmd = "build" /\ proc'[p].read = s
  BY <1>1, <1>3 DEF Process
<1>5. proc'[p] \in Process
  BY <1>1, <1>3 DEF Process, Steps, Ended
<1>6. proc' \in [Procs -> Process]
  BY <1>2, <1>3, <1>5 DEF BuildInv
<1>7. Local(proc'[p])
  BY <1>1, <1>3, AtStep
     DEF Process, Local, Counted, CompileError, Running, Decided, Fresh
<1>8. /\ js' \in Seq(Sources)
      /\ \A i \in DOMAIN js' : js'[i] = s \/ \E l \in DOMAIN js : js'[i] = js[l]
      /\ js = <<>> => js' = [i \in 1 .. k |-> s]
  <2> DEFINE new == [i \in 1 .. k |-> s]
  <2>1. new \in Seq(Sources) /\ Len(new) = k /\ \A i \in DOMAIN new : new[i] = s
    BY <1>1
  <2>2. js' = WrittenOver(new, js)
    BY <1>2, <2>1 DEF WrittenOver
  <2>3. js \in Seq(Sources)
    BY DEF BuildInv
  <2> HIDE DEF s, new
  <2>4. /\ WrittenOver(new, js) \in Seq(Sources)
        /\ \A i \in DOMAIN WrittenOver(new, js) :
             \/ \E l \in DOMAIN new : WrittenOver(new, js)[i] = new[l]
             \/ \E l \in DOMAIN js : WrittenOver(new, js)[i] = js[l]
        /\ js = <<>> => WrittenOver(new, js) = new
    BY <2>1, <2>3, Overwrite
  <2>5. QED
    BY <2>1, <2>2, <2>4 DEF new
<1>9. EmittedWasGated'
  BY <1>1, <1>8 DEF BuildInv, EmittedWasGated, Gated
<1>10. ASSUME Alone(p), OnDisk(p) PROVE OnDisk(p)'
  BY <1>1, <1>2, <1>4, <1>8, <1>10 DEF OnDisk, At
<1>11. Alone(p)' => Alone(p)
  BY <1>1, <1>3 DEF Alone, Builds
<1>12. source' \in Sources \cup {Missing}
  BY DEF WriteJs, BuildInv
<1>13. QED
  BY <1>1, <1>3, <1>4, <1>6, <1>7, <1>8, <1>9, <1>10, <1>11, <1>12, OneMoves DEF Builds

LEMMA BuildStep == ASSUME BuildInv, [Next]_vars PROVE BuildInv'
<1>1. ASSUME UNCHANGED <<js, proc>>, source' \in Sources \cup {Missing} PROVE BuildInv'
  BY <1>1 DEF BuildInv, EmittedWasGated, Alone, Builds, OnDisk, At
<1>2. CASE Edit
  BY <1>1, <1>2 DEF Edit
<1>3. CASE UNCHANGED vars
  BY <1>1, <1>3 DEF vars, BuildInv
<1>4. ASSUME NEW p \in Procs, Step(p) PROVE BuildInv'
  BY <1>4, ParseInv, CompileInv, RunCaseInv, CasesDoneInv, TestVerdictInv,
     BuildVerdictInv, TruncateInv, WriteJsInv DEF Step
<1>5. QED
  BY <1>2, <1>3, <1>4, KilledInv, StartInv DEF Next

-----------------------------------------------------------------------------
THEOREM BuildKept == Spec => []BuildInv
BY BuildInit, BuildStep, PTL DEF Spec

(* What a command counted is what it ran, and only a compile error leaves  *)
(* output without a case (run_tests).                                      *)
THEOREM BuildTypes == Spec => []TypeOK
<1>1. BuildInv => TypeOK
  BY DEF BuildInv, TypeOK, Local, Counted, Process
<1>2. QED
  BY <1>1, BuildKept, PTL

(* No line on disk comes from a source that was not gated, whatever the    *)
(* number of commands and however they are interleaved (cmd_build).        *)
THEOREM OnlyGatedIsEmitted == Spec => []EmittedWasGated
<1>1. BuildInv => EmittedWasGated
  BY DEF BuildInv
<1>2. QED
  BY <1>1, BuildKept, PTL

(* `roca test` and `roca build` agree on every source, though each decides *)
(* for itself (cmd_test, cmd_build).                                       *)
THEOREM TestAndBuildAgree == Spec => []TestPredictsBuild
<1>1. BuildInv => TestPredictsBuild
  BY DEF BuildInv, TestPredictsBuild, Local, Decided, Running, At
<1>2. QED
  BY <1>1, BuildKept, PTL

(* A build that succeeds with no other build beside it has replaced the    *)
(* whole file by the JavaScript of what it read (fs::write).               *)
THEOREM LoneBuildWrites == Spec => []SuccessMeansBuilt
<1>1. BuildInv => SuccessMeansBuilt
  BY DEF BuildInv, SuccessMeansBuilt, Alone, Builds, OnDisk
<1>2. QED
  BY <1>1, BuildKept, PTL
=============================================================================
