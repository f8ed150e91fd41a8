------------------------------- MODULE Driver -------------------------------
(***************************************************************************)
(* scopc: from a source file to the output that was asked for, through the *)
(* front end, llc and clang, in several compilers that run at the same     *)
(* time and share a file system.                                           *)
(*                                                                         *)
(* An invocation is a record of its command line and of what the front end *)
(* will say of its source.  A file holds what it is and the source it was  *)
(* made from.  llc and clang are external: each may fail.                  *)
(***************************************************************************)
EXTENDS Integers, Sequences, SequencesExt, TLC

CONSTANTS
  Procs,   \* invocations of scopc
  Paths,   \* paths an output may be written to
  Temps,   \* names mkstemp can make
  Old,     \* names it may have made in earlier runs
  Jobs     \* for each invocation, what it may be asked to do

Types == {"ast", "ir", "asm", "obj"}

(* cli: how args::ParseCLI and the checks after it end.  opens: the input    *)
(* can be read.  front: the first stage that refuses the program, if any.    *)
(* src: the source.  writable: the output path can be opened.  libs:         *)
(* module::link_libraries_ in the order of the program's demands.            *)
Job == [cli : {"help", "version", "usage", "run"}, opens : BOOLEAN,
        front : {"parse", "translate", "entry", "verify", "ok"}, src : Nat \ {0},
        type : Types, out : Paths, writable : BOOLEAN, libs : Seq(Nat)]

ASSUME OldAssumption  == Old \subseteq Temps
ASSUME JobsAssumption == \A p \in Procs : Jobs[p] \subseteq Job

\* Output files and the temporary ones, a name made by mkstemp and a suffix.
Names == (Paths \cup Temps) \X {"", ".ll", ".s"}
Out(o) == <<o, "">>

Contents == [kind : {"none", "ast", "ir", "asm", "obj"}, src : Nat, libs : Seq(Nat)]
File(kind, src) == [kind |-> kind, src |-> src, libs |-> << >>]
NoFile == File("none", 0)

VARIABLES
  job,    \* what each invocation was asked to do
  pc,     \* where it is
  ir, as, \* irpath and asmpath
  files,  \* what is in each file
  used,   \* the names mkstemp has made, in this and in earlier runs
  exit    \* exit status; Running as long as there is none

vars == <<job, pc, ir, as, files, used, exit>>

Running == 256

\* Other compilers have left files of their own, source 0, under temporary names
\* and at the output paths.
Init == /\ job \in {j \in [Procs -> UNION {Jobs[p] : p \in Procs}] : \A p \in Procs : j[p] \in Jobs[p]}
        /\ pc = [p \in Procs |-> "cli"]
        /\ ir = [p \in Procs |-> Out(job[p].out)]
        /\ as = [p \in Procs |-> Out(job[p].out)]
        /\ used \in SUBSET Old
        /\ files = [f \in Names |-> CASE f[1] \in used /\ f[2] # "" -> File("ir", 0)
                                      [] f[1] \in Paths /\ f[2] = "" -> File("obj", 0)
                                      [] OTHER -> NoFile]
        /\ exit = [p \in Procs |-> Running]

----------------------------------------------------------------------------
\* Slip: the value main returns is taken as it is.
Returned(n) == n

\* What the parent sees of the value main returns.
ExitStatus(n) == n % 256

Exit(p, n) == /\ exit' = [exit EXCEPT ![p] = ExitStatus(n)]
              /\ pc' = [pc EXCEPT ![p] = "exited"]

Go(p, l) == /\ pc' = [pc EXCEPT ![p] = l]
            /\ UNCHANGED exit

\* An ofstream on a path that cannot be opened writes nothing and nobody asks.
Write(p, f, c) == files' = IF f = Out(job[p].out) /\ ~job[p].writable THEN files
                           ELSE [files EXCEPT ![f] = c]

\* The command line, and the input file.
Cli(p) == /\ pc[p] = "cli"
          /\ CASE job[p].cli \in {"help", "version"} -> Exit(p, 0)
               [] job[p].cli = "usage"               -> Exit(p, 1)
               [] job[p].cli = "run" /\ ~job[p].opens -> Exit(p, 0)
               [] OTHER                              -> Go(p, "parse")
          /\ UNCHANGED <<job, ir, as, files, used>>

Parse(p) == /\ pc[p] = "parse"
            /\ IF job[p].front = "parse" THEN Exit(p, -1) /\ UNCHANGED files
               ELSE IF job[p].type = "ast"
                 THEN Exit(p, 0) /\ Write(p, Out(job[p].out), File("ast", job[p].src))
               ELSE Go(p, "translate") /\ UNCHANGED files
            /\ UNCHANGED <<job, ir, as, used>>

\* Slip: the module is written whatever module::verify says.
RefusedUnverified(p) == job[p].front \in {"translate", "entry"}

\* translateAST, createMainRet or verify has set err.
Refused(p) == job[p].front \in {"translate", "entry", "verify"}

Translate(p) == /\ pc[p] = "translate"
                /\ IF Refused(p) THEN Exit(p, -1) ELSE Go(p, "emit")
                /\ UNCHANGED <<job, ir, as, files, used>>

\* Slip: a name that is free, which another compiler may choose as well.
AnyName == Temps

\* getTmpFilePath: mkstemp creates the file it names, and nobody removes it.
TmpFiles == Temps \ used

\* The IR goes to the output, or to a temporary file for llc.
EmitIR(p) ==
  /\ pc[p] = "emit"
  /\ \/ /\ job[p].type = "ir"
        /\ Write(p, Out(job[p].out), File("ir", job[p].src))
        /\ Exit(p, 0)
        /\ UNCHANGED <<ir, used>>
     \/ /\ job[p].type # "ir"
        /\ \E t \in TmpFiles :
             /\ ir' = [ir EXCEPT ![p] = <<t, ".ll">>]
             /\ used' = used \cup {t}
             /\ Write(p, <<t, ".ll">>, File("ir", job[p].src))
        /\ Go(p, "asm")
  /\ UNCHANGED <<job, as>>

\* asmpath is the output, or another temporary file.
AsmPath(p) ==
  /\ pc[p] = "asm"
  /\ \/ job[p].type = "asm" /\ UNCHANGED <<as, used>>
     \/ /\ job[p].type # "asm"
        /\ \E t \in TmpFiles : /\ as' = [as EXCEPT ![p] = <<t, ".s">>]
                               /\ used' = used \cup {t}
  /\ Go(p, "llc")
  /\ UNCHANGED <<job, ir, files>>

\* llc, whose status is dropped.
Llc(p) ==
  /\ pc[p] = "llc"
  /\ \/ files[ir[p]].kind = "ir" /\ Write(p, as[p], File("asm", files[ir[p]].src))
     \/ UNCHANGED files
  /\ IF job[p].type = "asm" THEN Exit(p, 0) ELSE Go(p, "clang")
  /\ UNCHANGED <<job, ir, as, used>>

\* Slip: equal names are dropped only where they happen to be next to each other.
Unsorted(s) == s

Sorted(s) == SortSeq(s, LAMBDA a, b : a < b)

\* generateLinkerFlags: sort, then drop a name equal to the one before.
LinkerFlags(libs) ==
  FoldLeft(LAMBDA flags, l : IF flags # << >> /\ Last(flags) = l THEN flags ELSE Append(flags, l),
           << >>, Sorted(libs))

\* clang links; main returns what system returns, a wait status: the exit code
\* of the command in the second byte, the signal that ended it in the first.
Clang(p) ==
  /\ pc[p] = "clang"
  /\ \/ /\ files[as[p]].kind = "asm"
        /\ Write(p, Out(job[p].out), [File("obj", files[as[p]].src) EXCEPT !.libs = LinkerFlags(job[p].libs)])
        /\ Exit(p, 0)
     \/ /\ UNCHANGED files
        /\ \E status \in {-1, 1 * 256, 11} : Exit(p, status)
  /\ UNCHANGED <<job, ir, as, used>>

Finished == (\A p \in Procs : pc[p] = "exited") /\ UNCHANGED vars

Step(p) == Cli(p) \/ Parse(p) \/ Translate(p) \/ EmitIR(p) \/ AsmPath(p) \/ Llc(p) \/ Clang(p)

Next == (\E p \in Procs : Step(p)) \/ Finished

Spec == Init /\ [][Next]_vars

----------------------------------------------------------------------------
TypeOK == /\ \A p \in Procs : job[p] \in Jobs[p]
          /\ pc \in [Procs -> {"cli", "parse", "translate", "emit", "asm", "llc", "clang", "exited"}]
          /\ ir \in [Procs -> Names] /\ as \in [Procs -> Names]
          /\ used \subseteq Temps
          /\ \A f \in Names : files[f].kind \in {"none", "ast", "ir", "asm", "obj"}
          /\ exit \in [Procs -> 0..Running]

\* The front end refuses the program that j is about.
Rejected(j) == /\ j.cli = "run" /\ j.opens
               /\ j.front = "parse" \/ (j.front # "ok" /\ j.type # "ast")

\* What stands at an output path was there before, or was made from the source of
\* an accepted program whose compiler was asked for just that there: compilers
\* that run at the same time never take up each other's temporary files, and a
\* program that is refused leaves no output.
OutputFromSource ==
  \A o \in Paths : LET c == files[Out(o)]
                   IN c.src = 0 \/ \E p \in Procs : /\ job[p].out = o
                                                    /\ c.kind = job[p].type
                                                    /\ c.src = job[p].src
                                                    /\ ~Rejected(job[p])

\* A library is handed to the linker once, however often the program asked for it.
LibsOnce ==
  \A p \in Procs : LET c == files[Out(job[p].out)]
                   IN c.kind = "obj" /\ c.src = job[p].src =>
                        /\ \A i, j \in DOMAIN c.libs : c.libs[i] = c.libs[j] => i = j
                        /\ {c.libs[i] : i \in DOMAIN c.libs} = {job[p].libs[i] : i \in DOMAIN job[p].libs}

\* A program the front end refuses, at whatever stage, is reported by the exit
\* status too: -1 does not wrap to zero, and nothing goes on after err is set.
RefusalReported ==
  \A p \in Procs : Rejected(job[p]) => exit[p] # 0

\* "Now you can compile your scopion source" with "scopc prog.scc -o prog" (README.md:95-98):
\* a status of zero says that the output was made.
ZeroMeansMade ==
  \A p \in Procs : exit[p] = 0 /\ job[p].cli = "run" => files[Out(job[p].out)].src = job[p].src

=============================================================================
