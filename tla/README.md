# A formal model of the Roca compiler and its memory runtime

TLA+ modules, TLC configurations and TLAPS proofs about the code under
`crates/`: the parser, the ownership checker, the two type inferences, the
native code generator and linker, the JavaScript emitter beside it, the command
line and the memory registry `roca-mem`.

To check it, from this directory:

    tlc -workers 2 -config MCRocaMem.cfg MCRocaMem.tla    # any run of the table below
    tlapm --threads 2 RocaMemProofs.tla                   # and so for each ...Proofs module

## 1. The system

Roca is a small ownership-typed language. A source file goes through

    source --parse--> AST --walk, rules--> accepted or errors        roca-parse, roca-lang
                       |
                       +--compile--> machine code --call--> proof tests   roca-native (Cranelift)
                       |                 |
                       |                 +--C ABI--> registry of blocks   roca-mem
                       +--emit--> JavaScript                         roca-js

and `roca build` writes the JavaScript only when the checker is content, the
native back end compiles the source and every proof test of a function passes.

| Component | State | Operations | Talks to | What makes it correct |
|---|---|---|---|---|
| roca-mem | two thread-local registries keyed by address (tag and size; struct type id), the blocks, three counters | `*_new`, `struct_set_f64`, `struct_set_owned`, `free`, `copy`, `reset`, `assert_clean` | called by generated code and by the embedder of a compiled module | registries and counters agree; one owner per block; nothing live points to what is freed; free and copy terminate and do what one step would |
| ownership walker (`walker.rs`, `rules.rs`) | table name -> Owned, Borrowed, Consumed; recursion over blocks | one arm per statement; rules as hooks | reads the AST, reports codes | what it accepts never uses a moved value, on any path; what it reports as a use after move is one |
| types (`rule.rs`, `compiler.rs`) | three inferences of one expression | rules E-TYP-001; conversions | checker and back end never exchange their results | checker, back end and instructions agree |
| code generator (`compiler.rs`, `builder.rs`) | current block, terminated flag, loop stack, name map | `compile_stmt`, `compile_expr`; builder methods | Cranelift's FunctionBuilder and its contract | the graph is legal and runs as the source does |
| linking and calls (`compiler.rs`, `lib.rs`, `runtime.rs`) | one table of symbols: functions, methods, closures, shims, runtime; struct fields, signatures; name -> struct of each body | `compile`, `compile_shim`, `compile_function`, `call` | JIT, roca-mem symbols; `run_tests` | a name means the code written for it; a call passes what it was given; a receiver reaches its own method and field |
| command line (`main.rs`), test runner (`lib.rs`) | the two files; a command in progress | `check`, `build`, `test` | all of the above; the author's editor; other commands | no JavaScript that did not pass the gates |
| parser (`parser.rs`) | position in the tokens | one `parse_` function per construct, lookahead of one or two tokens, no separators | the tokenizer before it, all others after it | the tree is the one the documented syntax gives the text; nothing is lost |
| roca-js (`lib.rs`) | none | `emit`, a function per node | JavaScript engines | same calls and same results as the native code |
| tokenizer, AST, `parse_project`, JavaScript runtime and library | none | | | not modelled (section 6) |

What is hard here: a heap whose only notion of identity is a reusable address;
recursion over shared and cyclic blocks; one static table that has to describe
every path and every turn of a loop; a forward code generator that must know
at each point whether the current block has ended; three inferences that must
agree without talking; one flat table of symbols for names the source chose and
names the compiler makes up; a grammar without separators; one meaning of a
program written down twice, for two hosts; and commands whose input changes
under them.
There is no concurrency inside a process (the registries are thread-local).
`PROJECT.json` lists these hazards, each with its line and the properties
against it.

## 2. The modules

    RocaMem <--EXTENDS-- MemSteps        (refines RocaMem)
       ^  ^--EXTENDS-- MemClient
       |                  ^
    RocaMemProofs <-- MemClientProofs    RocaMem, MemSteps <-- RocaMemProofs
    Flow <-- Ownership(Run)              Ownership <-- OwnershipRun
    Flow, NativeBuilder <-- Codegen <-- CodegenRun
    Linking <-- Dispatch                 Syntax <-- Concrete
    Types     Targets     Build          (on their own)
    BuildProofs, TypesProofs, DispatchProofs     on Build, Types, Dispatch
    TargetsProofs, CodegenProofs, OwnershipProofs   on Targets, CodegenRun, OwnershipRun

An arrow points to the module that is extended. MC modules hold only instances:
small sets, fragments, symmetry.
Definitions called `Bug...` are plausible mistakes: substituted for the real
definition, each makes one property fail. They are not part of any model.

**RocaMem** (tags.rs, tracker.rs, alloc.rs, struct_ops.rs, free.rs). `tag`,
`size` are ALLOC_TAGS, `typeId` is STRUCT_TYPE_IDS, `width` and `fields` the
`Vec<i64>` behind a struct, `allocs`, `frees`, `live` the counters. `kept` and
`keptBytes` are history: what was tracked at the last reset. Each call is one
action, taken with *any* words: null, stale addresses, C strings, numbers.
Two kinds of call are left out. Calls that would dereference a dead block,
because the code is undefined there. And a `copy` of what is not a tree (the
guard IsTree): copy has no memory of what it has cloned, so it clones a shared child
once for each reference to it and does not return from a cycle (alloc.rs:53-79). A
caller that keeps the ownership rules never has such a block (AlwaysTrees,
CopyMeetsTrees); of one that does not keep them nothing is said about copy.
`mem_free` is given by what it frees, `Reach(w)`, the least
set that holds `w` and all tracked words of its members; `copy` by one fresh
block for every string and struct below its argument. Vectors and maps have no
call that stores into them, so they have no fields.

**MemSteps** is the same registry with `mem_free` and `copy` as the recursion
they are: `stack` holds their activation records, one word is visited per step,
a block is untagged on entry and counted on exit, a child is freed if it is
tracked *at that moment*. `BeginCopy` has the guard of RocaMem's copy; shared and cyclic
blocks are met by mem_free only. `seen` is what callers see of the heap; it follows
when the outermost call returns, and with it `ImplementsRocaMem` says that the
recursion refines the one-step description.

**MemClient** is a caller that keeps the rules of `docs/src/spec/memory.md`:
`held` is what it owns. It frees and moves only that, and writes no field that
owns something. Its last section has three calls the rules do not cover.
No code in `crates/` emits such calls yet (the back end never calls `mem_free`
or `set_owned`), so this module models the documented protocol and its map
entries are external.

**Flow** gives structured control flow on a flat list of statements: where an
if, a loop, a break or an arm leads. It is the meaning of a Roca body, used by
the two modules below to execute one.

**Ownership** is `walk_stmt`, `process_call` and the rules E-OWN-001 to 004,
006, 009 and 010. The body is not given: each action is one arm of `walk_stmt`
and appends the statement it walked to `prog`, with the table before it and the
codes it reported. `frames` is the recursion into blocks; `Open` clones the
table, `EndIf`, `EndLoop`, `EndFor` merge as the code does. `Forms` selects the
statements and the places for expressions that bodies may contain, for each
statement of the body in turn. An expression has a kind and the names it uses.
`"opaque"` is a kind that `check_consumed_in_expr` passes over (its `_ => {}`): a match,
an if expression, a cast, a wait, a variant, a closure, a block. An argument declared
`"part"` is one that is not a plain name, such as `x.f` or `x.g()`, or a receiver: it uses x,
and the rules on arguments do not see it. `"rebind"` binds a name again in the
outermost block of the function, `"rebindInBlock"` inside a block; the walker replaces the
entry either way. An object is given away whole: a field that is passed to `o` on its own
is not modelled.
**OwnershipRun** executes the walked body, with every branch and any number of
turns: `env` maps names to objects, `gone` are objects that were given away,
`hidden` is what names bound again in the open blocks mean outside of them (a
name bound in a block means its object up to the end of the block), `fault` is the
first thing that went wrong.

**NativeBuilder** is `RocaBuilder`: blocks with code and targets, sealed and
filled; `terminated`, the loop stack, the name map. `misuse` becomes true when
the contract of Cranelift's builder or verifier is broken. **Codegen** is
`compile_stmt` and the match and if expressions: each action is an arm, or the
stage of one that opens blocks. A wildcard arm, which any arm with a plain
name for a pattern is to the parser, may stand before the last one
(`"earlyWildcard"`); the code goes on emitting arms behind its jump. `"strayBreak"`
is a break outside of a loop. **CodegenRun** runs source and code in step;
`SameRun` compares what each does next.

**Types** is a stack machine over descriptors of expressions: the checker's
type, the back end's, the value's, and what the rules would report. Each action
applies one operator or ends a statement. `Forms` again selects the fragment:
`"unchecked"` has errors in places where no rule looks, `"misread"` has
conversions of values whose type the back end infers wrongly, `"floats"` has % on Float,
`"arity"` calls with more or fewer arguments than the function declares, which no rule
counts, `"undeclared"` names that are not declared. Calls take any number of operands.
`guess` marks a type the back end did not infer but fell back on.

**Linking** is `compile` of a file: `decl` and `code` are what the JIT module
declares and defines, `phase` and `at` where the four passes are. A symbol is the
sequence of the parts of its name, so that a function called `f__shim` and the
shim of `f` are the same symbol, as they are in the code. A refusal by
Cranelift's `declare_function` or `define_function` ends in `"error"`, an
`unwrap_or_else(panic)` in `"panic"`. `Call` is `lib.rs::call` of a linked
function by name: `answer` keeps what the function saw and gave beside what the
caller passed and was told; a word is a number, floats have words of their own.
**Dispatch** puts statements into the bodies Linking compiles. A variable is
kept three times: what `var_struct_map` says, what the checker inferred, and
the object that is there when the code runs. `reached` collects what each call
or access should reach and what it does reach; `accesses` is what the checker's
second pass goes over at the end of a function, with the types of that moment. Not
every access is among them: the pass does not enter the value of a field or array store,
matches, blocks, closures and the receivers of calls, and an access there to a
field the object does not have is the form `"unvisited"`. A tracked receiver is passed as
an argument whether or not the method takes self; where that goes unnoticed by
Cranelift's verifier, which runs at the end of a body and so after any panic in it,
the form is `"shifted"`.

**Targets** runs one body by the rules of both hosts. The body is written while
it runs: an expression is on `stack` as the value and the calls either target
makes of it; a statement takes the expressions there are. Native code has one
map of names per function (`slots`), JavaScript one per block (`frames`); a
branch that is not taken is written and not run. `shapes` keeps of each operand what its
value does not tell: whether it is a name in var_struct_map (`tracked`), without
which native code reads a field as the raw word of the first, and whether it reads `_m`,
the name the JavaScript of a match binds around subject and arms. `Reserved` are words the
tokenizer lets through and JavaScript does not, `Function` and `Struct` names a local may
hide. The values are Int, Bool,
Unit, a struct of two fields, and what JavaScript alone has: undefined, and
throwing.

**Syntax** is `parser.rs`. Each alternative of a `parse_` function is a form: the
tag of the node it builds and the parts it reads. `Form` chooses one by the
lookahead, as the `match` at the head of the function does; `Parse`, `Parts`,
`Many`, `Binary` and `Postfix` are the loops the functions share. A panic keeps
its place. A behaviour writes a text token by token and stops where the parser
panicked before the end. **Concrete** is the other direction, from
`docs/src/spec/syntax.md` and not from the parser: `Written` writes a tree in the
documented syntax, with parentheses where the documented precedences need them.

**Build** is `main.rs` and `run_tests`: commands that read the source, parse,
compile, run case after case, decide, truncate and write. `Edit` changes the
source at any time, `Killed` stops a command anywhere, two commands interleave. The write
may fail or be killed after any number of lines.
A source is reduced to what the commands decide by.

Everything that is computed (strings, numbers, the text of JavaScript) is
abstracted; what is kept is every decision.

## 3. The runs

| Run | Properties | Instance |
|---|---|---|
| MCRocaMem | TypeOK, TypeIdsAgree, CountsAgree, BytesAgree | 3 addresses, structs of up to 1 field, one C string, one number |
| MCMemSteps | NoReentry, ImplementsRocaMem, CallsReturn | 4 addresses, 2 fields: chains of three, both words to one child, mutual and self cycles, copies of structs that own blocks |
| MCMemClient | HeldLive, NoDangling, OneOwner, NoLeak, AlwaysTrees, FreeIsLocal | 4 addresses, 2 fields, 5 allocations |
| MCOwnership | OTypeOK, AcceptedRunsClean, TableDescribesRun, FlagsAreReal | 2 names; all pairs of statements with all places for expressions, the second one binding names again; calls with a part and an `o`; 4 statements of if, loop, for, break, continue, calls, new values |
| MCBuild | TypeOK, EmittedWasGated, TestPredictsBuild, SuccessMeansBuilt, CommandsEnd | 2 commands, 7 kinds of source |
| MCCodegen | GenTypeOK, BuilderContract, TerminatedIsTrue, SameRun, NamesResolve | 5 statements, 1 name, all forms but those of section 5 |
| MCTypes | AcceptedCompiles, TypesAgree | Int, Float, Bool and a struct, 6 signatures, 3 waiting operands |
| MCLinking | LinkTypeOK, LinkedIsTheSource, CallDelivers, ReceiversResolve, FieldsWereChecked | all files of up to 3 of 9 functions with meeting names; all signatures of 2 parameters; two structs, five methods and functions, bodies of up to 5 statements |
| MCTargets | SameCalls, SameResult | 4 statements, 4 leaves, 2 calls, 2 names |
| MCSyntax | ReadsBack, NothingIsLost, StatementsStandAlone | 18 alphabets of 3 to 10 tokens, texts of up to 21 tokens |
| MCUncheckedMove | UseAfterMoveIsRejected: violated | 2 statements |
| MCClosures | AcceptedLinks: violated | two functions with a closure each |

What they show, and why the bounds are enough:

* *RocaMem.* An address must be freed and handed out again while a stale handle
  survives: two blocks and three allocations do it. `CountsAgree` and
  `BytesAgree` relate counters to registry across resets, also when blocks from
  before the reset are freed after it. All four are proved for all sizes.
* *MemSteps.* The recursion branches (two fields) and descends (chain of
  three); every heap of each shape is a start of some call. Heaps are taken as
  far as blocks own blocks: a number or a C string in a word is to the
  recursion what an untracked address is. Resets, which touch no block, are left out
  and are in MCRocaMem.
* *MemClient.* Its last block of a tree of four needs depth and two fields.
  The run leaves out resets, which touch no block; the proofs include them.
* *Ownership.* A loop, a branch in it, a move and a later use are four
  statements; two names are an owner and an alias or a second argument. Every
  pair of statements is taken in full; a third and a fourth follow while the
  body is made of blocks, jumps, new values and calls and is accepted or about one
  name (CONSTRAINT ShortOrSimple). FlagsAreReal speaks of reported bodies; it leaves out
  statements behind a loop that was itself reported (E-OWN-010), where the code
  over-approximates (section 5). What is left out of the passing run, because the
  properties fail there, has a row in section 5: above all an assignment in a block, a name
  bound again in a block, a move, or a use of a consumed name, in a place the walker does
  not visit. Uses in such places of names that are not consumed are in the run.
* *Codegen.* A loop holding a branch with a break, and code behind, is five
  statements. Shadowing is left out there (section 5).
* *Types.* Three waiting operands are enough for if and match, which take
  three; deeper expressions are reached by reducing and going on. The types of
  variables carry over from statement to statement without bound.
* *Linking.* Names meet in pairs and, through the shim of a shim, in threes. The
  parameters of a signature are loaded one by one, so two of each type show
  every order. One body is enough for Dispatch, as `var_struct_map` starts empty
  in each; two structs whose common field has different positions tell every
  wrong offset, and five statements are two declarations, an assignment and two
  uses. Closures appear in one function of a file: two are MCClosures.
* *Targets.* An early return or break in a branch in a loop with a call behind it is
  four statements; the subject of a match and its three arms are four leaves;
  two calls are what an order takes. A loop takes one turn, since a second turn
  runs the same statements from a state the first could have started in.
* *Syntax.* Every production is in some alphabet; precedence and associativity
  need three operators, a dangling or missing part the production and one token
  more. Brackets nest up to three deep, which is a block in a block in a
  declaration or an operand in parentheses in an argument.
* *Build.* Every pair of commands and every kind of source. The file's content
  is the version of each of its lines, so a mixture of two writes is visible.
  SuccessMeansBuilt is about a build that is the only one on its file: with
  two, the shorter output can end with the tail of the longer.

*Fairness.* MemSteps: `WF(Running)`; the crate is single-threaded and a call
that began is never suspended. Build: `WF(Step(p))` for every command; a
process that was started is scheduled. Nothing is assumed of edits, kills or
starts. CommandsEnd takes each test case to return or be killed: a case that
loops forever is an infinite computation inside one step, which Build does not
model. No other module has liveness.

*Deadlock checking* is off where the system stops: commands end, a body has
been walked and run, code is finished, or the bound on allocations is reached
in a specification without reset.

## 4. The proofs

Proved with TLAPS for every value of the constants. What the constants are is
said in named assumptions of the modules that declare them (finitely many addresses;
addresses, strings, numbers and null are different words; bounds are natural
numbers; a file's definitions have the shape `Definition` gives them).
A theorem with a hypothesis of its own names it in the third column. Each such
hypothesis leaves out constructs for which the property is false (section 5), and
the passing run of the module checks the property in the same fragment; it is not
a device of the proof.

| Module | Theorem | Hypothesis | Says |
|---|---|---|---|
| RocaMemProofs | TypeCorrect | | `Spec => []TypeOK` |
| | RegistriesAgree | | `Spec => []TypeIdsAgree` |
| | CountersAgree | | `Spec => []CountsAgree` |
| | LiveBytesAgree | | `Spec => []BytesAgree` |
| | FreeEntersNoBlockTwice | | `StepSpec => []NoReentry` |
| | RecursionImplementsCalls | | `StepSpec => ImplementsRocaMem` |
| MemClientProofs | HandlesStayLive | | `CSpec => []HeldLive` |
| | NeverDangling | | `CSpec => []NoDangling` |
| | OwnershipIsExclusive | | `CSpec => []OneOwner` |
| | NothingLeaks | | `CSpec => []NoLeak` |
| | CopyMeetsTrees | | `CSpec => []AlwaysTrees` |
| | FreesAreLocal | | `CSpec => FreeIsLocal` |
| | ClientUsesRegistry | | `CSpec => Spec` |
| BuildProofs | BuildTypes | | `Spec => []TypeOK` |
| | OnlyGatedIsEmitted | | `Spec => []EmittedWasGated` |
| | TestAndBuildAgree | | `Spec => []TestPredictsBuild` |
| | LoneBuildWrites | | `Spec => []SuccessMeansBuilt` |
| TypesProofs | AcceptedCode | Tame | `Spec => []AcceptedCompiles` |
| | InferencesAgree | Tame | `Spec => []TypesAgree` |
| TargetsProofs | TargetsCallAlike | Tame | `TargetSpec => []SameCalls` |
| | TargetsReturnAlike | Tame | `TargetSpec => []SameResult` |
| DispatchProofs | LinkTypes | | `DispatchSpec => []LinkTypeOK` |
| | LinkingIsFaithful | NoFreeSelf, NoTwins | `DispatchSpec => []LinkedIsTheSource` |
| | CallsDeliver | NoFreeSelf | `DispatchSpec => []CallDelivers` |
| | TrackedReceiversResolve | Tame | `DispatchSpec => []ReceiversResolve` |
| | PanicsWereRejected | Tame | `DispatchSpec => []FieldsWereChecked` |
| CodegenProofs | GenerationTypes | Tame | `RunSpec => []GenTypeOK` |
| | ContractKept | Tame | `RunSpec => []BuilderContract` |
| | FlagTellsTheTruth | Tame | `RunSpec => []TerminatedIsTrue` |
| | NamesAreResolved | Tame, no "shadow" | `RunSpec => []NamesResolve` |
| OwnershipProofs | OwnershipTypes | | `OSpec => []OTypeOK` |
| | OwnershipIsSound | Tame | `OSpec => []AcceptedRunsClean` |
| | OneTableForEveryPath | Tame | `OSpec => []TableDescribesRun` |
| | ReportsAreExact | Tame | `OSpec => FlagsAreReal` |

*The registry.* `MemInv`, the conjunction of the first three properties, is
inductive: TypeIdsAgree needs the types, CountsAgree needs that a freed set
consists of tracked addresses. One lemma per group of actions. The counting
steps rest on lemmas about finite cardinalities: one element more for
`Register`, a difference of sets for `FreeSet`, a bijection for `CopyBlocks`.
Bytes are counted as the cardinality of the set of bytes, pairs of a block and a
position in it, so that the same lemmas serve: `BytesInv` adds that this set is
finite and needs MemInv for the steps.

*The recursion.* `StepInv` describes the heap in the middle of a call by the heap
callers know (`seen`), the stack, and one set or function. For mem_free it is `F`, the
blocks untagged since the call began: what is outside F is as it was; what is in F has no tag,
and its memory is still there exactly while it has a record on the stack; the
counters have moved by the rest of F. All of F is in Reach of the
outermost argument, and a tracked word behind a slot already visited is in F. When
the last record is popped every slot of F has been visited, so F is closed, and
being inside the least closed set it is that set (FreeOuterStep): this is where a
second visit to a shared block, or a cycle, would go wrong. For copy it is `f`, which gives each
block entered so far its clone: a visited slot of a clone holds the clone of its word,
any other is still null, and a block is entered from one place only, because
the argument is a tree (OneReference), so that a record that is waiting for its callee
is the only slot that refers to a block already entered. At the
end the domain of f is Cloned of the argument (CopyEnds). Each action is a lemma; those of
returning are split by whether a caller is left, since only then do callers see
nothing.

*The caller.* Neither NoDangling nor OneOwner is inductive alone. Freeing a
handle frees all it reaches; that nothing else pointed in there follows from
OneOwner, and that the next free is of a live block from HeldLive. `CInv` adds
OnlyStructsOwn: only structs have fields that are addresses. The central step is
`CFreeInv`: if a block outside `R = Reach(p)` had a field `r` in `R`, it would
be r's only owner, `R \ {r}` would still hold `p` and be closed under Children,
and `R` would not be the least such set (lemmas NobodyPointsIn,
OtherHandlesSurvive). The step for copy shows that clone and original have no
word in common and that the clone has the original's shape.
NoLeak names a handle for each block, which a step can change for many blocks at once.
`AllOwned` says the same of all blocks together: no proper subset of the
registry holds every handle and is closed under Children. It is kept by each
action (a set that refutes it after a step is turned into one that refutes it
before), and excludes cycles, whose blocks would own each other and hang below
no handle; from that CopyMeetsTrees.

*The commands.* `BuildInv` says of a command at each of its steps what it knows of the
source it read (`Running`, `Decided`), that its counters are those of the cases
before the next one (`Counted`), and of the file what a build that is alone on it
has written so far (`OnDisk`). It is a conjunction over commands, so a step of one
leaves the others' part alone (OneMoves), which is why the number of commands does
not matter. Every line of the file has to come from a gated source, not the file
as a whole: that is what two interleaved builds keep.

*Types.* `Good` is what an operand on the stack satisfies whatever expression it came
from: a rule objects to what does not compile, and the value has the type the
checker gave it, also where the back end only guesses. Every operator of the
language makes a good operand of good ones. `Tame`: none of "unchecked", "misread",
"floats", "arity" and "undeclared" among the forms; so calls have the right number of
arguments, which the checker does not see to.

*Linking.* `TableInv` says how far each of the passes is: which definitions have
been declared and which have code, that what is declared and has no code is a
name of the source or of the runtime, and that whoever calls his code the shim
of q has the shim's signature. `decl` and `code` only grow, and what is in them was put
there by the first who used the symbol. NoFreeSelf: no function outside a struct
uses self (its code would take an argument that its declaration does not have).
NoTwins: no function of the file has the name *and* the signature of a runtime
function (its declaration is then taken for the import). CallsDeliver is a lemma on
packing and loading: word n of the packed arguments is loaded back by the type of
parameter n. For the bodies, `Consistent` relates the three things that are known of a
variable: the compiler's struct, if it has one, is the object's, and the checker's
as well. `Tame`: none of the five forms after which they part (`untracked`,
`retype`, `foreign`, `blind`, `dropped`), no receiver taken for a parameter (`shifted`)
and no unknown field where the checker's second pass does not come by (`unvisited`).

*Code generation.* None of the four properties is inductive, and each needs the
others: whether a jump may be added depends on the flag, the flag on the
block that the enclosing statement will switch to, and that block on nobody having
sealed, filled or entered it in between, however long the branch was. `GenInv`
therefore speaks of the whole stack of open statements. Each frame *waits* for
certain blocks (the merge block of an if; the next arm and the merge of a match; the
exit of a loop): these are empty and unsealed and no two frames wait for the same
one. All other blocks but the current one are filled, and all are sealed but the
headers of open loops, to which the back edge is still to come. The flag tells the truth of the current
block, and where the code is dead that has a cause in the frame. The frames of
loops that are compiled match the loop stack entry by entry, so `break` finds
the exit it should. For names, each declaration that is in scope in the source has
its variable in the builder's map wherever code is compiled; with "shadow" that is
false. One lemma for each action. `Tame`: arms do not end in a return or a
break, breaks are in loops, each match has a wildcard and has it last. For methods and conversions of the
builder there is a lemma each that says which blocks are filled, sealed and added
by it; the actions use only these.

*Both targets.* `TargetsInv` says what the two states have to do with each other while
a body runs. An operand *fits* if both targets made the same calls for it and its two
values agree: they are equal, and a Boolean is 0 or 1, or they are a struct and an
object with the same value in each field. Of the blocks, BlocksFit: both targets run one
or neither does, one that runs is inside ones that run, the other branch of an if is
to run only where the first does not, and no name is in two open scopes; hence the
innermost scope of a name is its only one, and native's single map holds for it what
JavaScript's scope holds, as long as the block runs. Without the last clause the
map and the scopes come apart ("shadow", "escape"), and a value that agrees there is what
keeps the next operand fitting. One lemma for each expression says that it fits when
its operands do: SameArm compares trying patterns in turn with the chain of
conditionals, SamePlace a stored position with a field's name, whatever the order
of writing, LogicFits the lazy operators with the eager ones. `Tame`: none of the
forms with two meanings, each of which has a row in section 5. Of names that says: none is
declared where it is in scope already, none is a reserved word of JavaScript or the name
of the function or the struct, and `_m` is not read in a match (it may be declared, and
read elsewhere); fields are read from names in var_struct_map. Numbers are those JavaScript
holds exactly (MaxInt).

*The ownership checker.* The properties speak of a finished body; what makes them true is
how it was walked. The inductive invariant `SoundInv` behind the first two therefore has three layers, and
each is useless without the one before it.

1. `WalkOrder`, for every body: brackets nest (an entry between an opener and its end
   is deeper than both), the frames of the recursion are the openers that have not been
   closed, scopes nest with them, and each entry's table follows from that of the entry
   before it or, behind an else, from that of the if. With the types of the execution this
   is OwnershipTypes, which needs no hypothesis.
2. `WalkSound`, for accepted bodies: `SoundTable` relates tables of entries that are far
   apart. Inside a block a name that the block does not declare changes only from Owned to
   Consumed (`Moved`); while a loop is open such a name is still Consumed, or is *pending*
   in the frame of an if whose first branch consumed it (`Pends`). So E-OWN-009 at the
   end of the if and E-OWN-010 at the end of the loop see it, and a loop that was
   accepted has changed nothing from before it, at no place of its body
   (`LoopsKeep`): whichever turn or break leaves it, the table behind is the one before. The
   paths around an if meet in one table (`Joins`).
3. `RunSound`: before each statement the values are as the table there says
   (`Describes`), two names share an object only if one of them was lent
   (`Sharing`), the latter also for the table of every loop around the statement, for that is
   where a `continue` or the end of the body leads. A jump is a step between
   distant entries; the control-flow lemmas (MatchIs, EndOfIs, InnermostIs,
   SuccessorsGo) say which entries Flow's searches through the list find, for lists of any
   length, and the lemmas of layer 2 carry the values from one table to the other.

`ExactInv` adds what ReportsAreExact needs, and that is about reported bodies, for which
layers 2 and 3 say nothing. Of any walk, `Moved` holds, and where the paths around a
block meet, what the table calls Consumed is so on each of them (`Meets`): the
merge of an if keeps only what both branches consumed, so a report of E-OWN-009 costs
nothing, and the merge of a loop adds to the table before it only if E-OWN-010 was reported
at its end. Each E-OWN-004 stands at an entry that uses a name its table calls Consumed
(`AllEarned`). In the execution, what the table before a statement calls Consumed is gone
(`AtDead`), unless a loop reported with E-OWN-010 comes before it in the list; the same is kept for
the table of every loop around the statement, as in layer 3. So exactness needs
one direction of what soundness needs in both.

`Tame`: no statement has one of the nine forms of `Gaps`, after which the table or the
reports are wrong: "dupArg", "moveBorrow", "moveLent", "uncheckedMove" and
"uncheckedUse" (a move, or a use of a consumed name, in a place or an expression that
the walker passes over: an "opaque" expression, a part of a call's arguments, a
condition), "alias", "assignInBlock", "rebindInBlock", "untyped" (a borrowed name
whose type was not inferred is returned). Section 5 shows what each of them breaks. Opaque
expressions and parts as such are in the proofs, and so are names bound again outside of
blocks. Without "rebindInBlock" `hidden` stays empty (HidesNothing). The instance
of MCOwnership satisfies Tame.

Three things came out of the proofs and are corrected in the models. A panic while one
body is compiled ends the process before the next function is begun, so
Linking's later actions are guarded by it. And the counters of Linking's closures,
the names and the shapes of definitions are now stated as assumptions, since
theorems for all sources depended on them silently. And several definitions in
Targets, Types, OwnershipRun, Syntax and Concrete had a CASE with guards that
overlap, where TLC takes the first alternative and the logic leaves the choice open: they
now say which one is meant.

*Only model-checked.*

* SameRun of CodegenRun: it needs, for each position in the source, the block of the graph that
  compiles it, for all earlier blocks at once; GenInv follows only the open statements.
* Concrete's three properties: Syntax's descent is recursive.
* CallsReturn and CommandsEnd: liveness, which is out of the prover's reach.

## 5. Properties that do not hold

Two disagreements between the documentation and the code have runs of their
own (findings in PROJECT.json):

* MCUncheckedMove: `let r = take(x)` does not record that x is gone (walker.rs:298).
* MCClosures: `examples/closures.roca` does not compile natively; the counter of
  closures starts again in every function and the second `__closure_0` is a
  duplicate (compiler.rs:650).

The others can be had by changing one line of a configuration:

| In | change | violated | because |
|---|---|---|---|
| MCMemClient | SPECIFICATION NoResetStaleSpec | HeldLive | a second `mem_free` of a handle whose address is in use again frees the new block (free.rs:8), although memory.md:94 calls it idempotent |
| MCMemClient | SPECIFICATION NoResetOverwriteSpec | NoLeak | `set_owned` over an owned field forgets the old block (struct_ops.rs:29) |
| MCMemClient | SPECIFICATION NoResetBorrowSpec, PROPERTY BorrowsAreCopied | BorrowsAreCopied | a tracked value is moved even if it was borrowed from a block (struct_ops.rs:28); memory.md:62 says it is copied |
| MCMemClient | PROPERTY CopyKeepsFields | CopyKeepsFields | copying a vec or a map gives 0, in a field too (alloc.rs:74) |
| MCMemClient | SPECIFICATION CSpec, INVARIANT CleanMeansEmpty | CleanMeansEmpty | after a reset, `assert_clean` passes with blocks allocated (tracker.rs:31) |
| MCUncheckedMove | in UncheckedMoves, "dupArg" for "uncheckedMove" | UseAfterMoveIsRejected | f(x, x): all arguments are checked before any is moved (walker.rs:426); Shapes <- a list of two `o` |
| MCUncheckedMove | in UncheckedMoves, "uncheckedUse" and "ident" for "uncheckedMove" | UseAfterMoveIsRejected | uses in let, var, conditions, assignments, field stores go by unseen |
| MCUncheckedMove | UncheckedMoves of three sets {"value", "call", "loop", "assign", "assignInBlock"}, CONSTRAINT Accepted | UseAfterMoveIsRejected | E-OWN-010 is content with `loop { x = f(x); take(x) }` (rules.rs:366) |
| the same | four sets with "for" for "loop" | UseAfterMoveIsRejected | moves in a for body are not carried outward (walker.rs:389) |
| MCUncheckedMove | UncheckedMoves of three sets {"value", "ident", "call", "moveLent"} | UseAfterMoveIsRejected | moving an object leaves its other name usable |
| MCUncheckedMove | UncheckedMoves of three sets {"value", "ident", "call", "alias"} | UseAfterMoveIsRejected | `const y = x` makes two owners of one object; moving one leaves the other usable |
| MCUncheckedMove | UncheckedMoves of four sets {"value", "call", "loop", "if", "rebindInBlock"}, Shapes <- one `o`, INVARIANT AcceptedRunsClean | AcceptedRunsClean | `const x = T { .. } loop { take(x) const x = T { .. } }`: at the end of the loop the table has the new x for the old one, which is used after its move in the second turn (walker.rs:284) |
| the same | INVARIANT TableDescribesRun | TableDescribesRun | behind a block the table of an outer name is that of the name that hid it |
| MCUncheckedMove | UncheckedMoves <- <<{"if", "value"}, {"value", "rebindInBlock"}, {"call"}, {"value", "rebindInBlock"}, {"call"}, {"call"}>>, Shapes <- one `o`, PROPERTY FlagsAreReal | FlagsAreReal | an if and an else that each hide x and move what hides it: the outer x is called Consumed and its next use reported (walker.rs:351) |
| MCUncheckedMove | UncheckedMoves of two sets {"value", "call", "opaque", "uncheckedUse"} or {.., "opaque", "uncheckedMove"}, INVARIANT AcceptedRunsClean | AcceptedRunsClean | matches, if expressions, casts, waits, variants, closures and blocks are passed over (walker.rs:56) |
| MCUncheckedMove | UncheckedMoves of two sets {"value", "call", "uncheckedUse"}, Shapes <- {<<"o">>, <<"part">>}, INVARIANT AcceptedRunsClean | AcceptedRunsClean | of a call's arguments only names are checked, and in a call statement its receiver is not (rules.rs:155, walker.rs:316) |
| MCUncheckedMove | UncheckedMoves of one set {"ident", "untyped"}, Params <- LentOne, INVARIANT AcceptedRunsClean | AcceptedRunsClean | a borrowed name is returned unreported if its type was not inferred (rules.rs:232) |
| MCOwnership | FlagsAreReal without NoLoopReported | FlagsAreReal | in `loop { break f(x) } f(x)` the walker goes on behind the break, and what it finds there is consumed after the loop (walker.rs:379) |
| MCOwnership | Every, add "moveBorrow"; INVARIANT LentIsNotGivenAway | LentIsNotGivenAway | a `b` parameter may be passed on as `o` (walker.rs:440) |
| MCCodegen | Forms, add "shadow" | NamesResolve | an inner declaration captures the name for the rest of the function in native code, not in JavaScript (builder.rs:84) |
| MCCodegen | Forms, add "noWildcard" | BuilderContract | a match that ends in a literal arm branches to its merge block without an argument (compiler.rs:600) |
| MCCodegen | Forms, add "exitArm" | BuilderContract | a return inside an arm is followed by a jump (compiler.rs:635) |
| MCCodegen | Forms, add "earlyWildcard" | BuilderContract | in `match c { red => 1 green => 2 _ => 3 }` the first arm, a plain name, is a wildcard (parser.rs:814); behind its jump the next arm is emitted into the filled block (compiler.rs:591) |
| MCCodegen | Forms, add "strayBreak" | BuilderContract | `break` outside of a loop, which no rule rejects, panics: there is no loop on the stack to leave (builder.rs:243) |
| MCTypes | Forms, add "unchecked" | AcceptedCompiles | arguments of nested calls, and assignments of another type, are not checked (rules.rs:488, compiler.rs:457) |
| MCTypes | Forms, add "floats" | AcceptedCompiles | % on Float is compiled to `srem` (builder.rs:140) |
| MCTypes | Forms, add "arity" | AcceptedCompiles | no rule counts arguments (rules.rs:508); Cranelift does |
| MCTypes | Forms, add "undeclared" | AcceptedCompiles | a name that is not declared has no type and no rule rejects it; var_get and var_set panic (builder.rs:92) |
| MCTypes | Forms = {"not", "if", "misread"} | AcceptedCompiles | `let b = !a` and `if !a`, accepted, do not compile: `infer_expr_type` says I64 (compiler.rs:989) |
| MCTypes | Forms = {"field", "arith", "misread"} | AcceptedCompiles | fields of struct parameters are raw F64 and taken for I64 (compiler.rs:902) |
| MCLinking | Forms = {"untracked"} | ReceiversResolve | a parameter, a copy or a function's result has no entry in var_struct_map: x.m() is compiled to 0 and x.f reads the first field (compiler.rs:865, 904) |
| MCLinking | Forms = {"retype"} | ReceiversResolve, FieldsWereChecked | x = U { .. } leaves the entry of the old struct (compiler.rs:457) |
| MCLinking | Forms = {"foreign"} | ReceiversResolve, FieldsWereChecked | whatever T.f() returns is taken for a T (compiler.rs:1023) |
| MCLinking | Forms = {"blind"} | FieldsWereChecked | a field of self, or of a result the checker does not infer, is not checked and panics (walker.rs:149) |
| MCLinking | Forms = {"dropped"} | ReceiversResolve | `self.g = e` with a g the struct does not have is compiled to nothing (compiler.rs:540) |
| MCLinking | Forms = {"shifted"} | ReceiversResolve | `a.mk()` of a method `mk(x: Int)` without self compiles, and passes the receiver as x (compiler.rs:859) |
| MCLinking | Forms = {"unvisited"} | FieldsWereChecked | `self.f = a.bad`, and unknown fields in matches, blocks, closures and receivers, are accepted and panic (walker.rs:136, 167, 197; compiler.rs:901) |
| MCTargets | Forms = {"lazy"} | SameCalls | && and \|\| evaluate both operands natively (compiler.rs:750) |
| MCTargets | Forms = {"escape"} | SameResult | a name declared in a block can be read after it natively and throws in JavaScript |
| MCTargets | Forms = {"division"} | SameResult | Int is divided as integers natively, as numbers in JavaScript (roca-js lib.rs:550) |
| MCTargets | Forms = {"shadow"}, {"redeclare"} | SameResult | one map of names for a function against block scopes, in which a name is declared once |
| MCTargets | Forms = {"constAssign"} | SameResult | assigning a const, which the checker accepts, throws in JavaScript |
| MCTargets | Forms = {"fallOff"} | SameResult | a function that ends without return gives 0 natively, undefined in JavaScript (compiler.rs:402) |
| MCTargets | Forms = {"intCondition"}, 256 in Ints | SameCalls | the low byte of an Int decides natively (compiler.rs:1061) |
| MCTargets | Forms = {"capture"}, Names = {"a", "_m"}, Param = "_m" | SameResult | a local `_m` read in an arm is the subject in JavaScript; read in the subject it throws (roca-js lib.rs:480) |
| MCTargets | Forms = {"reserved"}, Names = {"a", "new"} | SameResult | names are copied into the JavaScript as they are; `const new = 1` is none |
| MCTargets | Forms = {"callee"}, Names = {"a", "f"} | SameCalls | a local with the name of a function hides it in JavaScript and not natively |
| MCTargets | Forms = {"untracked"} | SameResult | of a receiver that is no name in var_struct_map native code reads slot 0 as a Float (compiler.rs:887) |
| MCSyntax | NothingIsLost without ForgetsAName | NothingIsLost | `let x, err = e` forgets err, which README.md:24 says must be checked (parser.rs:324); a name as a pattern is read as `_` (parser.rs:815) |
| MCBuild | Sources <- MethodSources, INVARIANT EveryTestPassed | EveryTestPassed | tests of struct methods are not run (lib.rs:152); README.md:23 |
| MCBuild | INVARIANT EveryFunctionIsTested | EveryFunctionIsTested | a function without tests passes (lib.rs:156) |

The parser accepts less than `docs/src/spec/syntax.md` describes, which the
modules show as panics and not as wrong trees: `p.x = e` and `a[i] = e` are no
statements unless the target is self; a parameter, or the target of an
assignment, cannot be called o or b without a qualifier before it; `self.x + 1`
cannot begin a statement, and `self.x - 1` is two; `if A {` takes the block for the
fields of a literal; arms take no commas, and a Float is no pattern. A statement that
begins with `-`, `(` or `[` continues the one before it.

## 6. What is not modelled

* The tokenizer: one pass over characters into tokens, each without regard to
  the others.
* Of the JavaScript emitter: imports, exports, enums, for and continue, closures,
  if expressions, strings and arrays. Matches without a wildcard at their end have
  no native code to compare with (section 5). Methods: all are emitted as
  static (roca-js lib.rs:201), so that calling one on an instance throws.
* The JavaScript runtime and library: host wrappers and declarations.
* parse_project: nothing calls it.
* Of linking and calls: a function of the source with the name and the very
  signature of a runtime function (`fn mem_string_new(a: Int) -> Int`) stands for it
  in the whole module, because its declaration is accepted - the instances have
  such names with other signatures; a free function that uses self takes an
  argument its declaration does not have; tests with fewer arguments, or of other
  types, than the function declares, which nothing compares; calls through
  variables that hold closures, and the closures' bodies.
* Ownership: a field that is passed to an `o` parameter on its own, so that its object is gone
  from inside another; which names a match or an if expression hands on as its
  value; calls whose callee the walker cannot tell, for which it assumes nothing and
  moves nothing.
* Matches without arms, which the parser lets through: the code generator panics on
  them (compiler.rs:579).
* Method calls whose receiver is itself a field, `x.f.m()`.
* `copy` of a block with shared or cyclic parts (section 2).
* Failed allocations; the hash of struct names, on which nothing depends yet;
  values of 64-bit integers and floats (so the loss of precision in fields stored
  as F64 is not visible); strings, which native code compares by address.
* E-OWN-005, E-OWN-007, E-TYP-002, and E-STR but for E-STR-006: rules on
  declarations, or notes.
* Enum variants, and the statements the native compiler refuses (for, continue,
  array stores).

## 7. Plan

Done, in this order, the part every program depends on first: RocaMem with its
proofs, MemSteps, MemClient with its proofs, Ownership with its execution,
Build, the code generator with its execution, Types, Linking with Dispatch,
Targets, Syntax with Concrete; then the proofs about Build, Types, Linking,
Dispatch, the code generator, MemSteps, Targets and the ownership checker.

To come:

1. *Proofs*: SameRun of CodegenRun. Invariants of the generation first: a ghost that maps
   each statement to the block that compiles it, kept when its frame is closed.
2. *Both targets*: methods and self once the emitter has instance methods,
   strings with the heap of RocaMem beside them.
3. *Checker*: E-OWN-007 and the rules on declarations, closures' bodies.
