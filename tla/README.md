# scopion in TLA+

scopion is a small language; `scopc` compiles it to LLVM IR and, through llc and
clang, to a program. This directory holds TLA+ models of the parts of the compiler
whose correctness rests on the order in which things happen, the TLC runs that check
them, and proofs, checked by TLAPS, of what holds for every program.

## 1. The system

| part | source | state it keeps | operations |
|---|---|---|---|
| driver | `src/scopc/scopc.cpp` | temporary files, exit status | command line, parse, translate, verify, emit IR, llc, clang |
| parser | `lib/parser/parser.cpp` | current file and range, global (`rangePathHolder`) | `parse`, semantic actions, `unescape` |
| AST | `include/scopion/ast/` | attributes of each node: `lval`, `to_call`, `survey`, `#key:value` | `set_lval`, `set_survey`, `set_attr`, comparison, printing |
| translator | `lib/assembly/translator*.cpp` | `module_`, `builder_` (insert block), `thisScope_`, `loaded_map_` | one visitor per literal and operator, `import`, `importIR`, `importCHeader`, `createMain`, `createMainRet` |
| evaluator | `lib/assembly/evaluator.cpp` | saved insert block and scope of each evaluation in progress | survey pass, real pass, scope evaluation |
| values | `include/scopion/assembly/value.hpp`, `type.hpp` | symbols, fields, parent, lazy and const flags | copies |
| module | `lib/assembly/module.cpp` | LLVM module, `link_libraries_` | `verify`, `optimize`, `generateLinkerFlags` |
| header script | `utils/scopion-h2ir.in` | cache under `$HOME` | rewrite one file of it |
| installer | `install.sh` | `/etc/apt/sources.list` and its backup | install steps, rollback |

How they interact. The driver calls parser, translator, module in turn and stops at the
first that refuses. The translator visits the tree and calls the evaluator for every lazy
value that is called; the evaluator calls back into the same translator, moving its insert
block and its `thisScope_` and putting them back afterwards. `@import#m` makes a second
translator that borrows the module and copies the builder. `@import#c` runs the script and
reads the cache it shares with every other compiler of the same user.

What is hard here:

* **Two passes.** The body of a function is translated into a throw-away function to find
  its return type (the survey), the function is erased, and the body is translated again.
  Blocks, functions and symbols made in the survey must leave no trace.
* **The insert point.** Blocks are created and erased while outer routines remember them
  (`pb`, `nb`, `mergebb`). Whether a block is erased is decided by looking at the block the
  builder ended in, after any nesting of calls, scopes, conditionals and imports.
* **Marks.** A literal inside a survey is marked so that its own real pass is skipped; the
  mark does not reach literals inside scopes.
* **Invalid programs are found late.** Code after a return and paths without one are not
  looked for; the LLVM verifier notices and the user is told of a bug of the compiler.
* **Backtracking.** The grammar tries a text several times, with attributes that are not put
  back, behind a skipper that can throw; which alternative wins is a matter of their order.
* **Copied tables.** The translator knows a structure by a table of members that is copied
  with every value; the pointers in it lead into the structure it was copied from.
* **Concurrent compilers** share `/tmp` and the header cache.
* **The installer** changes a system file and promises to undo it with commands that can
  fail themselves.

`PROJECT.json` lists each of these at its line under `hazards`.

What makes each part correct:

* **driver**: an output comes from the program that was asked for; a refusal is reported and
  leaves none; status 0 means made.
* **parser**: the tree is the one the documented grammar tells, with nothing left over from
  an alternative given up; every error is reported, at its place; a literal reads back as
  what was written.
* **AST**: a mark reaches every node it is meant for and no other.
* **translator, evaluator**: code goes where the program says, into blocks that are alive;
  the two passes over a body agree; the verifier refuses what the program got wrong and
  nothing else; translation ends.
* **values**: a name shows the storage of the function being written, and assignment does
  what the language says: one variable or one member changes.
* **module**: libraries are linked once; an invalid module is not emitted.
* **header script**: an import yields all declarations, the same ones each time.
* **installer**: success means installed, failure means undone, a dry run means nothing.

## 2. Modules

| module | models | used by |
|---|---|---|
| `Codegen` | translator and evaluator driving one builder; `createMainRet`; `module::verify` | `Flow` |
| `Flow` | which programs compile, read off their text (reference for `Codegen`) | `ProgramText` |
| `ProgramText` | shorthand for the enumerated programs | `MCCodegen` |
| `CodegenProofs` | inductive invariant `Inv1` of `Codegen` (types, stack, insert points) and two theorems | `CodegenStorageProofs` |
| `CodegenStorageProofs` | inductive invariant `Inv2` (storage, references, surveys, collector) and five theorems | `CodegenLinkProofs`, `CodegenSurveyProofs` |
| `CodegenLinkProofs` | inductive invariant `Inv3` (which functions stay, what they mention) and one theorem | |
| `CodegenSurveyProofs` | inductive invariant `Inv4` (what translating a body yields, whichever pass) and one theorem | |
| `HeaderCache` | `scopion-h2ir`, `importCHeader`, `importIR` in several compilers | `MCHeaders` |
| `HeaderCacheProofs` | inductive invariants of `HeaderCache` and three theorems | |
| `Installer` | `install.sh`: checks, commands, rollback, over several runs | `MCInstaller` |
| `InstallerProofs` | inductive invariants of `Installer` and five theorems | |
| `Grammar` | the rules of `parser.cpp` as data, nodes and their flags | `Spirit` |
| `Spirit` | the skipper, terminals, `unescape`, semantic actions, `on_error`; Boost.Spirit X3 as an interpreter of the rules | `Parser` |
| `Parser` | `parse` on one text, `rangePathHolder`, `locationInfo`; the documented table as reference | `MCParser` |
| `Language` | abstract: what assignment means to the programmer | `Values` (refinement) |
| `Values` | `assembly::value`, structures, arrays, `.`, `[]`, assignment and the memory behind them | `MCValues` |
| `Driver` | `scopc`'s `main`, `getTmpFilePath`, `generateLinkerFlags`, in several compilers | `MCDriver` |
| `DriverProofs` | inductive invariant of `Driver` and three theorems | |

### Codegen

A program is a set of bodies; a body is a sequence of lines; a line is the kind of its
expression (`op`) with the names it mentions and the bodies it encloses. Types, arithmetic,
literals and formatting are abstracted away; what stays is everything that decides which
block, which function and which symbol the translator touches next.

| variable | code |
|---|---|
| `stack` | the C++ call stack of evaluations: `main`, `fn` (evaluator on a function), `scope` (evaluator on a scope), `then`/`else` (`apply_op` of `cond`), `import` |
| `stack[i].pb`, `.prev` | `pb` and `prevScope` saved on the way in |
| `stack[i].one`, `.two`, `.next` | `entry`; `theblock`, `nb`; `thenbb`, `elsebb`, `mergebb` |
| `stack[i].survey`, `.mark` | survey pass; `attr(fcv).survey` |
| `ip` | `builder_.GetInsertBlock()` (the code always appends) |
| `scope` | `thisScope_->symbols()` |
| `blocks`, `fns` | basic blocks and functions of the LLVM module |
| `gc` | `"gc"` is in `link_libraries_` |
| `decl` | the module has a function `GC_malloc` |
| `last` | what the last line visited gave: nullptr, a value, or one with a ret_table |
| `tables` | the surveys in which `ret_table` is set |
| `status` | translating, `built`, accepted (`ok`) or refused (`bug`) by the verifier, `error` thrown, `overflow` of the stack, `crash` on a null pointer |

Actions, with their routines: `Use` (variable), `Set`, `Heap`, `Bind` (assignment of a
number, with `#heap`, of a lazy function), `Return`, `ReturnSelf`, `Select` (`?:` on
values), `EvalLiteral` (function literal with typed parameters), `CallLazy`,
`CallPointer`, `CallError` (call), `EnterTop` and `CreateMainRet` (`createMainRet`),
`SurveyError`, `EndMarked`, `StartReal`, `EndReal` (evaluator on a function),
`EnterScope`/`LeaveScope`, `EnterCond`/`EndThen`/`EndElse`, `EnterImport`/`LeaveImport`,
`ImportFails` (a file without a value), `ImportHeader` (`@import#c` and `#ir`, with and without
`#link:gc`), `Bad` (other lines that are refused), `Verify`, and `Overflow` for a recursion that
exhausts the stack. `Heap` includes the insertion of `GC_init` into main.

Two actions end in a crash. `ScopeCrash`: a scope without lines gives `nullptr`, so does a scope
that ends in a call of one, and the survey of a function that has met no ret_table yet
dereferences it. `HeapCrash`: `createGCMalloc` finds `"gc"` among the libraries, where an import
with `#link:gc` put it, takes `GC_malloc` for declared and calls a null function.

Abstractions: every variable is `#mut`; a function takes no argument or one, a number or a
function; a scope is called where it is written; an instruction that uses a variable refers
to the block of its alloca. The LLVM verifier (`ValidBlock`) is external: one terminator at
the end of each block, references inside the function and dominated by their definitions,
returned types, callees in the module.

### Grammar, Spirit, Parser

`Grammar` writes the rules down one for one, in X3's combinators: `Must(e)` is the right side
of `>`, which throws where `>>` fails. `Spirit` interprets them as X3 does: the skipper runs
before every terminal, `_val` is kept when an alternative fails, an expectation failure
travels up to the innermost `expression`, whose handler makes it a `scopion::error`. What a
rule makes of a text depends only on the position, so `Parser` fills a table of results from
the end of the text to its beginning (`Fill`); X3 gets the same results by trying again.
`Enter` and `parse` are the beginning and the end of `parser::parse`, with the global holder.

A text is written from a *form* that says what it stands for: operators in a row, with or
without parentheses; a string of given content; a structure with one operator key; tokens
at random. `TableTree` builds the tree from the table in `docs/Operator.md`, `Escaped`
writes a string down; the properties compare what `parse` returns with them.

What TLC found on the way, now in the preconditions of the properties and under `hazards`:
a string loses leading blanks, and one that ends in a backslash does not end
(`StringRoundTrip`); a lone identifier in parentheses followed by an operand is a function;
`?:` groups to the left; words that begin with `true`, `false`, `nan` or `inf` are not words;
the line number of an error counts from the innermost expression.

### Values and Language

`Language` knows variables that hold values (numbers, functions, structures, arrays) and one
step per statement. `Values` is what the translator does instead: a table of symbols, each
with its own copied table of members, field numbers and pointers (`syms`), and the memory
the emitted code works on (`mem`: slot and field numbers to integer). The refinement maps a
variable to what reading it yields (`Denotes`): pointers are replaced on the way by `dot`
and `at`, functions come from the table and integers from memory. As a function has one
path through its statements, each action is the translation of a statement together with its
execution. `Refuse` is any error thrown; the abstract language lets the compiler refuse.

`Careful` says which programs the refinement is claimed for. A target whose value came out of
a structure has a `parent_`, and `copyFull` enters the new value in the parent's table, the one
of the literal, which nobody reads: if the new value has other functions or other member
names, the assignment is lost. Careful programs do not do that, and use no structure that a
function returned. The run `returned_struct` drops the restriction for the latter.

### HeaderCache

One process per compiler. The script's redirection empties the file (`Truncate`), the
pipeline writes it in one or two goes (`Fill`, `Rest`) or fails silently (`ScriptFails`);
`importIR` then takes the module from `loaded_map_` (`Reuse`), parses the file (`Load`) or
gives up (`LoadFails`). The initial cache holds anything an earlier compiler may have left.
Two scripts writing one file may overwrite each other's bytes (`Written`). A header in a
directory (`sys/stat.h`) is filed under its basename and looked for under its path, so its
import fails even for a compiler that is alone: `HeaderAlone` names this exception, though `docs/Literal.md:126` makes none.

### Driver

One process per invocation; the actions follow `main` from top to bottom, each with all of
its early returns. The verdict of the front end is part of the invocation, so that every
verdict meets every output type. llc and clang may fail at will, outputs may be unwritable,
temporary files of earlier runs lie around. `LinkerFlags` sorts and drops equal neighbours
as the code does and is compared with "each library once".

### Installer

`at` is the place in the script: the checks of the machine with their questions (`Pass`,
`Answer`, `Refuse`), the commands of the platform's plan (`Execute`, `Fail`), then `cleanup`
(phase `clean`) or `cleanup_error` (phase `rollback`) with `Sweep`, `SweepFails`, `Finish`.
`exit_fail` does not return, so its nesting inside itself needs no stack: a clean-up command
that fails, because it cannot succeed or just once, sends the script back to the beginning of the
rollback. `Kill` is an interrupt at
any point; a command that fails or is interrupted may have done part of its work
(`Broken`). Between runs the user edits `sources.list` (`Edit`). A run is started with or
without `-d`, sudo, a writable directory and a prefix in `PATH` (`opts`). A copy of
`sources.list` is the edition of the user's lines and the number of lines the script added.
`VerComp` is `vercomp` on sequences of numbers. Commands that change nothing the properties
speak of (`tools`, `key`, `ldconfig`, the single brew packages) are still steps that can fail.

## 3. Runs

| run | what it asks | states |
|---|---|---|
| `codegen` | scopes, conditionals, returns and imports nested three deep, lazy and eager functions called from bodies and scopes, functions given to functions: are insert points and references alive and variables local, do survey and real pass agree, are surveys erased and finished functions untouched, is `GC_init` called at most once and first, does the verifier refuse and the compiler crash exactly where `Flow` says, is what runs complete, does translation end | 333,943 |
| `parser` | short texts of every kind against the documented table, the written content, the flags of the tree and the place of errors | 201,619 |
| `values` | up to four assignments: does memory behave as `Language` says, do the copied tables tell the layout | 38,997 |
| `headers` | two compilers on one cache: stable structures, all declarations for one that is alone, progress | 18,463 |
| `driver` | two invocations on one file system | 216,708 |
| `installer` | two runs of the script on one of ten machines: rollback, completeness, dry runs, questions, end of a rollback | 773,459 |
| `import_value` | *violated*: an import that branches is not the value of its file | |
| `operator_keys` | *violated*: an operator documented as customizable cannot be a key | |
| `returned_struct` | *violated*: a returned structure is read after its frame is gone | |
| `header_race` | *violated*: an import reads a file another compiler has emptied | |
| `zero_status` | *violated*: clang fails and scopc exits with 0 | |
| `endless_abort` | *violated*: a rollback that cannot move the backup starts over for ever | |

`VerifyExact` is the strongest statement about code generation: `Flow` says in terms of
source lines, without blocks or builders, which programs compile, and TLC finds the
translator and the verifier agree with it on every program enumerated. `Flow` also says, without
a survey, on which programs the compiler crashes on an empty scope (`FatalBody`): the crash needs
the null value to be the first one offered, since a ret_table found before, by a return say, keeps
the survey from looking at it. Literal.md:84 makes the empty scope part of the language and
nothing says that it may not be called, so the crash is a defect, one that `VerifyExact` delimits.
`VerifyExact` covers programs
that give no function to a function (`FirstOrder`); of the others the same run says that the
functions they run are complete (`ProgramComplete`). Functions written for real during a
survey, because the mark does not reach into scopes, can stay in the module beside them.

`Implements` is the refinement `Values` => `Language`. `Values.TypeOK` says, beside ranges, that
no two variables share a slot and that in every table, however deep, the members that are in
memory are numbered 0, 1, ... and lazy ones are not.

`GCReady` says what the code does, `#link:gc` included: `GC_init` is called at most once, before
the program, and only when the library is linked; a library linked without it is one that an
import asked for. The documentation promises no more than a collector (`docs/Feature.md`).

`OperatorsCustomizable` reads the last column of the table in `docs/Operator.md`: a customizable
operator can be written as the key of a structure. `struct_key` cannot read `!`, `<`, `>`, `**`,
`++` and `--`; every other operator passes.

The violated runs are recorded as findings in `PROJECT.json`, with the sentence of the
documentation or of the code they contradict.

### Bounds

* Bodies: three (four where functions are given to functions), of at most three lines. Scopes, conditionals and calls
  nest three deep, which covers an erased block inside an erased block inside a survey; the
  state a routine keeps is its own frame, and the theorems below remove the bound for insert
  points, storage, references, erased surveys and the collector.
* `MaxDepth`, 7 frames, stands for the C++ stack. Only functions given to functions reach it, by
  self-application; `Termination` says that no other program does.
* Two compilers: every hazard of the shared files takes two. Five temporary names: two for
  each invocation and one left by an earlier run. The theorems remove both bounds.
* Two runs of the installer: one leaves a backup, an archive or a line behind, the next meets
  it; two editions of the user's list tell a lost change. The theorems remove both bounds.
* Texts: three of 26 tokens in any order, four of eight in a function body (an error in an
  expression inside an expression, on any line), two operators in a row out of all 21, which
  is what precedence is about; grouping with one operator of each level; strings of three
  characters out of eight.
* Assignments: two variables and four statements, enough for a structure to be built, copied,
  nested into another and changed through either of them; structures of two members, one of
  them lazy or not; integers tell every literal apart.
* Exit statuses of clang: -1 (no fork), 256 (exit code 1), 11 (a signal).

### Fairness

`Codegen` is one thread that never waits: `WF_vars(Next)` says that it runs. In
`HeaderCache` each compiler waits only for the script it started, so weak fairness of each
process says that the operating system schedules it. `Driver`, `Parser` and `Values` are checked for
safety only; deadlock is not looked for in the latter two, which end with their text. In `Installer`
only a clean-up that has begun is fair: it is a script that waits for nobody; the commands
before it may hang. Its commands may fail at any time they are tried, and the script tries them
again without end; strong fairness of each (`SweepAt`) assumes that a `rm` or a `mv` that is
allowed to succeed does not fail every time. Nothing in the script provides this; without it
not even a user with all rights is sure of an end, and with it `endless_abort` is about those
without them.

## 4. Proofs

TLAPS checks every theorem from the assumptions on the constants: `None` is neither a name
nor a type, `void` and `i32` are types, programs are well formed, there is room for main and
one more frame; for the cache, that declarations are sets of functions, the mark of a
missing file is not a function and a basename is its own basename. TLC evaluates each
assumption on the constants of the runs.

**`CodegenProofs`.** For all programs, names, types and depths:

* `TypeCorrect`: `Spec => []TypeOK`
* `InsertPoints`: `Spec => []InsertPointsAlive`

`InsertPointsAlive` is not inductive: when a scope ends, the builder goes to `nb`, which
some inner routine could have erased or already be writing into; when a survey ends, all
blocks of its function go, and nothing in the property says that outer frames hold none of
them. The invariant `Inv1` adds

* `StackDiscipline`: frames of the same function are contiguous, and each function in
  progress is newer than those below it, so that erasing the newest one spares the others;
* `FnsAlive`: functions in progress exist;
* `BlocksKept`: for every frame, the insert block saved and the block kept for later (`nb`,
  `mergebb`) are alive, in the right function, and no two frames keep the same one.

Steps are grouped by what they do to the stack (advance, push, pop, turn to the else branch,
turn to the real pass, return to main, stop); one lemma for each shape carries the argument
and one lemma for each action reduces to it.

**`CodegenStorageProofs`.** For all programs, names, types and depths:

* `StorageLocal`: `Spec => []SlotsLocal`
* `NoDanglingRefs`: `Spec => []RefsAlive`
* `NoSurveyLeft`: `Spec => []SurveysErased`
* `CollectorReady`: `Spec => []GCReady`
* `DoneIsDone`: `Spec => FinishedUntouched`, a property of steps

`RefsAlive` and `SlotsLocal` are not inductive: a scope that does not fall through erases
`nb`, a conditional `mergebb`, and neither property says that no branch and no variable is
there. `Inv2` is `Inv1` together with

* `Sound(blocks, Waiting)`: `RefsAlive`, and nothing refers to the blocks in `Waiting`, the
  ones a routine has made and may still erase (`mergebb` leaves it when the first branch
  falls through, which is just when it can no longer be erased);
* `SlotsKept`: no symbol, shown or saved in a frame, has its storage in a block made to go on
  in (`nb`, `mergebb`), all storage is in the function the frame writes, and the blocks a
  routine will branch to are alive and not among those either;
* `SurveysErased` itself, which needs the order of functions on the stack to survive the
  erasure of one;
* `Inside`: nothing but the outermost frame writes to main;
* `MainEntry`: the first block of main has no call while the program is translated, at most one
  `GC_init`, only when the collector is linked, and has it then unless an import asked for
  the library (`Initialised`).

`GCReady` follows when `createMainRet` adds the call behind it. For `FinishedUntouched` every
step is shown to leave blocks alone whose function has no frame.

**`CodegenLinkProofs`.** For all programs, names, types and depths: `WholeProgram`,
`Spec => []ProgramComplete`. A function written for real may mention a prototype that is in
no module, when it is written while a survey is under way around it; so neither "every
function written for real mentions such functions only" nor anything else about single
functions holds. `Inv3` is `Inv2` together with: there is a set `fs` such that `Lasting(fs)`:

* the functions in `fs` were written by real passes, are in the module and mention none
  but each other (`Closed`), and the user's function is one of them once it is written;
* of the functions in progress, those in `fs` are exactly the ones with no survey pass below
  them or in them (`Genuine`);
* where that is so, no literal that can be named, now or when the routines in progress are
  over, is marked (`Unmarked`), nor is the literal being evaluated: no prototype comes back
  into such a function.

The set grows by one function when a real pass begins with no survey around it, and no other
step changes it. That marks stay out of it rests on `set_survey` marking a copy: with the mutant
`MarkedInPlace` a literal of the program that runs is marked.

**`CodegenSurveyProofs`.** For all programs, names, types and depths: `SurveyAgreement`,
`Spec => []SurveyAgrees`. The survey and the real pass over one body are two executions at
different times, each with evaluations nested in it, and no state holds both; what relates
them is that translation is deterministic. The two passes differ in the blocks variables are
stored in and in the marks of literals, so symbols are compared without those (`Bare`).
`Inv4` is `Inv2` together with: function 1 is main (`MainFn`), every block belongs to a
function in the module (`Homes`), `SurveyAgrees` by function (`RealTypes`), nothing returns yet
from a block made to go on in (`Blank`), and, while the program is translated, there is a
table `m` such that `Agreed(m)`:

* for a body and the bare symbols it starts with, `m` gives the lines known so far, the bare
  symbols before each of them and the types of the values each returns; each entry follows
  from the text of the line and from other entries (`Table`, `Explained`), those of the
  bodies it encloses or calls;
* every routine in progress stands where the table says, with the symbols it says (`Going`);
  a real pass does so in a body the table knows to its end, with a type that agrees
  (`Settled`), so it can only repeat what is there;
* the code written by a survey in progress returns the types the table gives for its routines
  so far, each of them and no others, except for calls of `@self` (`Tallied`), which have
  the type the function has at the time and are left out of the table.

A line that is already known is shown to do what the table says, and a new one extends the
table (`Extends`), which keeps all that was said with the smaller one. A survey ends with the
type of the values it found, which is what the table then holds of the whole body
(`HasType`); the real pass starts with the same bare symbols. The existential makes `Agreed` a
matter for the prover only: TLC checks `SurveyAgrees` itself.

**`DriverProofs`.** For any number of invocations, programs, paths and temporary names:
`DriverTypes`, `OutputsFromSource`, `RefusalsReported`. What stands at an output path depends on
temporary files made three steps earlier, while other compilers run; the invariant `DInv`
adds that `irpath` and `asmpath` are the output or names `mkstemp` made (`OwnNames`), that no
two invocations have the same temporary file (`Apart`), that no free name has an assembly
file yet (`FreshFiles`), that what llc and clang are about to read was made from the
source of their own compiler (`OwnFiles`), and that whoever got so far was let through by
the stages before (`Passed`).

**`HeaderCacheProofs`.** For any number of compilers: `HeaderTypes`, `StableImports` and
`AloneGetsAll: Spec => []HeaderAlone`. For the first two the invariant says that each structure
returned is the module still kept in `loaded_map_`, and that a file a script has opened
exists. `HeaderAlone` is lost and never regained when a second compiler starts, but while
there is one only, `AInv` follows the file through its script: empty after the redirection,
some of the declarations after the first go, all of them after the second, and so in every
module that was loaded.

**`InstallerProofs`.** For every machine, any number of runs and of edits:

* `InstallerTypes`: `Spec => []TypeOK`
* `Rollback`: `Spec => []RollbackExact`
* `Complete`: `Spec => []InstalledComplete`
* `Unasked`: `Spec => []NothingUnasked`
* `DryRun`: `Spec => DryRunHarmless`, a property of steps

`RollbackExact` and `InstalledComplete` speak of runs that are over; the invariants say what
each part of the script may rely on. `RInv` (`Course`) is about the way back: up to the third
command nothing has changed, after it there is a copy, from there to the end of the
rollback the original is in one of the two files, and after its last command it is back in
place. `PInv` is about the way forward: what each command of the plan has left on the disk
when the next one begins (`Progress`), and which questions were answered before each check
(`Asked`). `TInv` bounds the lines added to `sources.list` by the number of runs, which is
what its type needs. The conditions of `RollbackExact` are needed: TLC shows at once that a
backup of an earlier run, or one cut short, is restored instead.

**Only model-checked**, and why:

* `Termination`, `ImportsEnd`, `UserAborts`: liveness.
* `VerifyExact`: it compares the module with a recursive definition over the text of the
  program; the prover has no induction over it.
* `LibsOnce`: what sorting and folding yield, an induction on the list of libraries.
* `Parser`, `Values`: recursive data, trees and nested values, interpreted by recursive
  operators; `Implements` refines through one of them (`Denotes`). There is no set of all
  trees or values that a recursive function could have as its domain.

Every property has a mutant: an operator marked *Slip* in the module, a plausible mistake in
the code, under which TLC finds the property violated.

## 5. Not modelled, and the plan

| next | content | properties and theorems |
|---|---|---|
| 1. methods | `.:` and `.=`, overloaded operators, scope values kept and called later, `at` with a computed index, in `Values` | `Implements` for them |
| 2. `Import` | nested translators: path resolution, cyclic imports | an import ends or is refused |

Left out for good: arithmetic and comparison operators (one LLVM instruction each), LLVM's
optimiser, the AST printer and the layout of messages (no state), the comparison of trees
(equality of records), build and packaging files. Not stated because nothing promises it:
the row of an error, the const flag that a value brings to the variable it is assigned to,
arrays of structures (always refused), time spent on backtracking (exponential in the depth
of parentheses).
