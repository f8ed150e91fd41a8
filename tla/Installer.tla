----------------------------- MODULE Installer -----------------------------
(***************************************************************************)
(* install.sh: the checks of the system, the commands that change it, each *)
(* of which may fail, and the rollback, over several runs of the script on *)
(* one machine.                                                            *)
(*                                                                         *)
(* The system and the tools are external.  A copy of sources.list is known *)
(* by the edition of the user's lines in it and by the number of lines the *)
(* script has appended to it.                                              *)
(***************************************************************************)
EXTENDS Integers, Sequences

CONSTANTS
  Systems,   \* machines the script may be started on
  MaxRuns,   \* how often it is started
  MaxRev     \* the last edition of the user's sources.list

System == [name : {"Ubuntu", "Debian", "Linux", "norelease", "macOS", "other"},
           version : Seq(Nat), x64 : BOOLEAN, insource : BOOLEAN, brew : BOOLEAN,
           clang : BOOLEAN]   \* the distribution has the clang the script asks for

ASSUME SystemsAssumption == Systems \subseteq System
ASSUME BoundsAssumption  == MaxRuns \in Nat /\ MaxRev \in Nat \ {0}

VARIABLES
  sys,      \* the machine
  disk,     \* what is on it
  status,   \* how the last run ended; "running" during one
  at,       \* part of the script and the number of the command in it
  opts,     \* how this run was started
  yes,      \* questions answered with y in this run
  failed,   \* the command whose failure began the rollback
  start,    \* the disk when this run was started
  runs      \* runs so far

vars == <<sys, disk, status, at, opts, yes, failed, start, runs>>

Lists    == [rev : 0..MaxRev, llvm : 0..MaxRuns]
Torn     == [rev |-> 0, llvm |-> 0]       \* a copy cut short
NoBackup == [rev |-> -1, llvm |-> 0]      \* there is no such file

(* list, bak: /etc/apt/sources.list and sources.list.bak.  index: apt's     *)
(* index lists LLVM's packages.  deps: they are installed.  zip, dir: the   *)
(* downloaded archive and what it holds.  prefix: what was copied to        *)
(* PREFIX.  found: `type scopc' finds one.                                  *)
Disks == [list : Lists, bak : Lists \cup {NoBackup}, index : BOOLEAN, deps : BOOLEAN,
          zip : BOOLEAN, dir : BOOLEAN, prefix : {"none", "part", "whole"}, found : BOOLEAN]

Apt   == sys.name \in {"Ubuntu", "Debian"}
Linux == sys.name \in {"Ubuntu", "Debian", "Linux", "norelease"}

(* dry: -d.  sudo: the user may become root.  cwd: files can be made and    *)
(* removed in the current directory.  onpath: PREFIX/bin is in PATH.        *)
Options == [dry : BOOLEAN, sudo : BOOLEAN, cwd : BOOLEAN, onpath : BOOLEAN]

Init == /\ sys \in Systems
        /\ disk \in [list : {[rev |-> 1, llvm |-> 0]}, bak : {NoBackup}, index : {FALSE},
                     deps : {FALSE}, zip : {FALSE}, dir : {FALSE}, prefix : {"none"},
                     found : BOOLEAN]
        /\ status = "none"
        /\ at = [phase |-> "checks", i |-> 1]
        /\ opts = [dry |-> TRUE, sudo |-> FALSE, cwd |-> FALSE, onpath |-> FALSE]
        /\ yes = {} /\ failed = "none" /\ start = disk /\ runs = 0

----------------------------------------------------------------------------
(* Before anything is changed. *)

Field(v, i) == IF i <= Len(v) THEN v[i] ELSE 0

\* Slip: fields that one version lacks are not compared.
VerCompShort(v1, v2) ==
  LET differ(i) == i <= Len(v2) /\ v1[i] # v2[i]
  IN  IF \E i \in 1..Len(v1) : differ(i) /\ v1[i] < v2[i] /\ \A j \in 1..(i - 1) : ~differ(j)
      THEN 2 ELSE 0

\* vercomp: 0, 1 or 2 for equal, newer, older, as the first field that differs says.
VerComp(v1, v2) ==
  LET fields    == 1..(Len(v1) + Len(v2))
      same(k)   == \A i \in 1..k : Field(v1, i) = Field(v2, i)
      newer(i)  == Field(v1, i) > Field(v2, i)
      older(i)  == Field(v1, i) < Field(v2, i)
  IN  CASE \E i \in fields : same(i - 1) /\ newer(i) -> 1
        [] \E i \in fields : same(i - 1) /\ older(i) -> 2
        [] OTHER -> 0

Least == CASE sys.name = "Ubuntu" -> <<17, 4>>
           [] sys.name = "Debian" -> <<9>>
           [] OTHER               -> <<10, 12>>

\* An empty version vanishes from the command line and leaves the least one in its place.
TooOld == 2 = IF sys.version = << >> THEN VerComp(Least, << >>) ELSE VerComp(sys.version, Least)

Checks == <<"source", "found", "arch", "platform", "version", "brew", "ready">>

Verdict(c) ==
  CASE c = "source"   -> IF sys.insource THEN "ask" ELSE "ok"
    [] c = "found"    -> IF disk.found THEN "ask" ELSE "ok"
    [] c = "arch"     -> IF sys.x64 THEN "ok" ELSE "ask"
    [] c = "platform" -> IF sys.name \in {"norelease", "Linux", "other"} THEN "stop" ELSE "ok"
    [] c = "version"  -> IF TooOld THEN "ask" ELSE "ok"
    [] c = "brew"     -> IF sys.name = "macOS" /\ ~sys.brew THEN "stop" ELSE "ok"
    [] c = "ready"    -> "ask"

Goto(phase, i) == at' = [phase |-> phase, i |-> i]

Start == /\ status # "running" /\ runs < MaxRuns
         /\ status' = "running" /\ runs' = runs + 1
         /\ opts' \in Options
         /\ yes' = {} /\ failed' = "none" /\ start' = disk
         /\ Goto("checks", 1)
         /\ UNCHANGED <<sys, disk>>

Checking(verdict) == /\ status = "running" /\ at.phase = "checks"
                     /\ Verdict(Checks[at.i]) = verdict
                     /\ UNCHANGED <<sys, disk, opts, failed, start, runs>>

NextCheck == IF at.i = Len(Checks) THEN Goto("plan", 1) ELSE Goto("checks", at.i + 1)

Pass   == Checking("ok") /\ NextCheck /\ UNCHANGED <<status, yes>>
Answer == Checking("ask") /\ NextCheck /\ yes' = yes \cup {Checks[at.i]} /\ UNCHANGED status
\* confirm || exit -1, and the unsupported systems: no rollback.
Refuse == /\ Checking("ask") \/ Checking("stop")
          /\ status' = "refused"
          /\ UNCHANGED <<at, yes>>

----------------------------------------------------------------------------
(* The commands. *)

AptPlan  == <<"update", "tools", "backup", "append", "key",
              "packages", "clangAlternative", "llcAlternative",
              "download", "unzip", "copy", "linkerCache", "hash", "version">>
BrewPlan == <<"brewUpdate", "wget", "unzipper",
              "cmake", "ctags", "boost", "llvm", "gc",
              "download", "unzip", "copy", "linkerCache", "hash", "version">>

\* Slip: a scopc that cannot be found is only warned of.
PlanUnverified == SubSeq(IF Apt THEN AptPlan ELSE BrewPlan, 1, 13)
\* Slip: sources.list is saved after it was changed.
PlanLateBackup == IF Apt THEN [AptPlan EXCEPT ![3] = "append", ![4] = "backup"] ELSE BrewPlan

\* pre_install, install_depends, install, post_install, scopc -V.  The findscopc before
\* it ends the script in no case: `error' succeeds and exit_fail is not reached.
Plan == IF Apt THEN AptPlan ELSE BrewPlan

Su == {"update", "tools", "backup", "append", "key", "packages", "clangAlternative",
       "llcAlternative", "copy", "linkerCache", "restore"}

\* Slip: commands of the clean-up are executed in a dry run.
ExecutesCleanup == ~opts.dry \/ at.phase = "clean"

Executes == ~opts.dry

\* What a command needs in order to succeed.
Can(c) == /\ c \in Su => opts.sudo
          /\ c = "packages" => disk.index \/ sys.clang
          /\ c = "download" => opts.cwd \/ disk.zip
          /\ c = "unzip" => opts.cwd \/ disk.dir
          /\ c = "version" => disk.found
          /\ c = "rmZip" => disk.zip /\ opts.cwd
          /\ c = "rmDir" => disk.dir /\ opts.cwd

\* What it leaves when it does.
Done(c) ==
  CASE c = "update"   -> [disk EXCEPT !.index = disk.list.llvm > 0]
    [] c = "backup"   -> [disk EXCEPT !.bak = disk.list]
    [] c = "append"   -> [disk EXCEPT !.list.llvm = @ + 1]
    [] c = "packages" -> [disk EXCEPT !.deps = TRUE]
    [] c = "download" -> [disk EXCEPT !.zip = TRUE]
    [] c = "unzip"    -> [disk EXCEPT !.dir = TRUE]
    [] c = "copy"     -> [disk EXCEPT !.prefix = "whole", !.found = @ \/ opts.onpath]
    [] c = "rmZip"   -> [disk EXCEPT !.zip = FALSE]
    [] c = "rmDir"   -> [disk EXCEPT !.dir = FALSE]
    [] c = "restore"  -> [disk EXCEPT !.list = disk.bak, !.bak = NoBackup]
    [] OTHER          -> disk

\* What it may leave when it fails or is interrupted.
Broken(c) ==
  {disk} \cup
  CASE c \in Su /\ ~opts.sudo -> {}
    [] c = "backup" -> {[disk EXCEPT !.bak = Torn]}
    [] c = "copy"   -> {[disk EXCEPT !.prefix = "part", !.found = f] :
                          f \in {disk.found, disk.found \/ opts.onpath}}
    [] c \in {"update", "append"} -> {Done(c)}
    [] c \in {"download", "unzip"} /\ Can(c) -> {Done(c)}
    [] OTHER -> {}

Running(phase) == /\ status = "running" /\ at.phase = phase
                  /\ UNCHANGED <<sys, opts, yes, start, runs>>

Command == Plan[at.i]

NextCommand == IF at.i = Len(Plan) THEN Goto("clean", 1) ELSE Goto("plan", at.i + 1)

\* execmd and execmdsu, when eval returns 0.
Execute == /\ Running("plan")
           /\ Executes => Can(Command)
           /\ disk' = IF Executes THEN Done(Command) ELSE disk
           /\ NextCommand
           /\ UNCHANGED <<status, failed>>

\* ... and when it does not: exit_fail -1, which does not return.
Fail == /\ Running("plan")
        /\ Executes
        /\ disk' \in Broken(Command)
        /\ failed' = Command
        /\ Goto("rollback", 1)
        /\ UNCHANGED status

----------------------------------------------------------------------------
(* cleanup, in phase "clean", and cleanup_error, in phase "rollback". *)

Sweeps == <<"rmZip", "rmDir", "restore">>

\* Slip: rm without asking whether there is something to remove.
RemovesAlways(c) ==
  CASE c = "restore" -> at.phase = "rollback" /\ Linux /\ disk.bak # NoBackup
    [] OTHER         -> TRUE
\* Slip: the backup is moved back without asking whether there is one.
RestoresAlways(c) ==
  CASE c = "rmZip"  -> disk.zip
    [] c = "rmDir"  -> disk.dir
    [] c = "restore" -> at.phase = "rollback" /\ Linux

Applies(c) ==
  CASE c = "rmZip"  -> disk.zip
    [] c = "rmDir"  -> disk.dir
    [] c = "restore" -> at.phase = "rollback" /\ Linux /\ disk.bak # NoBackup

Sweeping == \/ Running("clean")
            \/ Running("rollback")

\* A command of the clean-up, when it is needed and succeeds or is not needed.
Sweep == /\ Sweeping /\ at.i <= Len(Sweeps)
         /\ LET c == Sweeps[at.i]
                execute == Applies(c) /\ Executes
            IN  /\ execute => Can(c)
                /\ disk' = IF execute THEN Done(c) ELSE disk
         /\ Goto(at.phase, at.i + 1)
         /\ UNCHANGED <<status, failed>>

\* One that fails, because it cannot succeed or just this once, calls exit_fail in turn,
\* and so the clean-up from its beginning.
SweepFails == /\ Sweeping /\ at.i <= Len(Sweeps)
              /\ Executes /\ Applies(Sweeps[at.i])
              /\ failed' = IF at.phase = "clean" THEN Sweeps[at.i] ELSE failed
              /\ Goto("rollback", 1)
              /\ UNCHANGED <<disk, status>>

Finish == /\ Sweeping /\ at.i > Len(Sweeps)
          /\ status' = IF at.phase = "clean" THEN "installed" ELSE "aborted"
          /\ UNCHANGED <<disk, at, failed>>

----------------------------------------------------------------------------
(* The user: an interrupt, for which the script sets no trap, and changes to *)
(* sources.list between two runs.                                            *)

Kill == /\ Running(at.phase)
        /\ disk' \in IF at.phase = "plan" /\ Executes THEN Broken(Command) ELSE {disk}
        /\ status' = "killed"
        /\ UNCHANGED <<at, failed>>

Edit == /\ status # "running"
        /\ disk.list.rev < MaxRev
        /\ disk' = [disk EXCEPT !.list.rev = @ + 1]
        /\ UNCHANGED <<sys, status, at, opts, yes, failed, start, runs>>

Stop == status # "running" /\ runs = MaxRuns /\ UNCHANGED vars

Script == Pass \/ Answer \/ Refuse \/ Execute \/ Fail \/ Sweep \/ SweepFails \/ Finish

Next == Start \/ Script \/ Kill \/ Edit \/ Stop

SweepAt(i) == Sweep /\ at.i = i

\* A started clean-up goes on, and a command of it that can succeed does not fail each
\* time it is tried; nothing else is promised.
Spec == /\ Init /\ [][Next]_vars
        /\ WF_vars(Sweep \/ SweepFails \/ Finish)
        /\ \A i \in DOMAIN Sweeps : SF_vars(SweepAt(i))

----------------------------------------------------------------------------
(* The state is well typed; in particular sources.list always exists. *)
TypeOK ==
  /\ sys \in Systems
  /\ disk \in Disks /\ start \in Disks
  /\ status \in {"none", "running", "refused", "installed", "aborted", "killed"}
  /\ at \in [phase : {"checks", "plan", "clean", "rollback"}, i : 1..14]
  /\ opts \in Options
  /\ yes \subseteq {Checks[i] : i \in DOMAIN Checks}
  /\ runs \in 0..MaxRuns

(* A run that gives up leaves sources.list as it was when the run began and    *)
(* no backup behind, at whatever command it failed and however often the      *)
(* rollback itself had to be repeated: provided that no backup of an earlier  *)
(* run was lying around, which would be restored in its place, and that the   *)
(* command that failed was not the copy to the backup (cleanup_error).        *)
RollbackExact ==
  status = "aborted" /\ start.bak = NoBackup /\ failed # "backup"
    => disk.bak = NoBackup /\ disk.list.llvm = start.list.llvm
       /\ disk.list.rev >= start.list.rev

(* A run that ends with "Installed. Enjoy!" and a clean directory has copied   *)
(* everything, a scopc is found, and under apt LLVM was installed, although    *)
(* the check with findscopc stops nothing.                                     *)
InstalledComplete ==
  status = "installed" /\ ~opts.dry
    => /\ disk.prefix = "whole" /\ disk.found
       /\ ~disk.zip /\ ~disk.dir
       /\ Apt => disk.deps /\ disk.list.llvm > start.list.llvm

(* A dry run, clean-up included, changes nothing (FLAG_D; "-d: Dry run").      *)
DryRunHarmless == [][status = "running" /\ opts.dry => disk' = disk]_vars

(* Nothing is changed before the user has agreed to every known trouble: an    *)
(* architecture, or a version less than the least one as numbers go, that is   *)
(* not supported, a scopc already there, and the final question (vercomp and   *)
(* the order of the checks).                                                   *)
Number(v) == Field(v, 1) * 10000 + Field(v, 2) * 100 + Field(v, 3)
NothingUnasked ==
  status = "running" /\ at.phase # "checks"
    => /\ "ready" \in yes
       /\ ~sys.x64 => "arch" \in yes
       /\ start.found => "found" \in yes
       /\ sys.version # << >> /\ Number(sys.version) < Number(Least) => "version" \in yes

RollsBack == status = "running" /\ at.phase = "rollback"

(* A rollback comes to its end when the user may do what it takes: become root *)
(* and remove files here (exit_fail, cleanup_error, execmd call each other).   *)
UserAborts == RollsBack /\ opts.sudo /\ opts.cwd ~> ~RollsBack

(* "Failed with return code $?. Abort.": whoever starts the script, a run that *)
(* failed comes to its end (execmd).                                           *)
Aborts == RollsBack ~> ~RollsBack

=============================================================================
