-------------------------- MODULE InstallerProofs --------------------------
(***************************************************************************)
(* For every machine and any number of runs: what a failed run leaves of   *)
(* /etc/apt/sources.list, what a successful one has installed, that nothing*)
(* is done unasked, and that a dry run does nothing.                       *)
(***************************************************************************)
EXTENDS Installer, TLAPS

\* sources.list is as it was, and nothing was saved.
Untouched == disk.bak = NoBackup /\ disk.list = start.list

\* It is as it was, or there is a copy of it.
Saved == \/ Untouched
         \/ Apt /\ disk.bak = start.list

\* What each part of the script may rely on, if no backup was there when it started.
Course ==
  /\ at.phase = "checks" => Untouched
  /\ at.phase = "plan" =>
       /\ Saved
       /\ ~opts.dry /\ Apt /\ at.i > 3 => disk.bak = start.list
       /\ ~opts.dry /\ Apt /\ at.i <= 3 => Untouched
       /\ opts.dry \/ ~Apt => Untouched
  /\ at.phase = "clean" => Saved /\ (opts.dry => Untouched)
  /\ at.phase = "rollback" /\ failed # "backup" => Saved /\ (at.i > 3 => Untouched)

Copies   == [rev : Nat, llvm : Int]
AnyDisks == [list : Copies, bak : Copies \cup {NoBackup}, index : BOOLEAN, deps : BOOLEAN, zip : BOOLEAN,
             dir : BOOLEAN, prefix : {"none", "part", "whole"}, found : BOOLEAN]

\* Parts of the script and numbers of commands; the disk as a record; the exits.
Shape ==
  /\ sys \in Systems /\ opts \in Options
  /\ at \in [phase : {"checks", "plan", "clean", "rollback"}, i : Nat \ {0}]
  /\ at.phase = "checks" => at.i \in 1..7
  /\ at.phase = "plan" => at.i \in 1..14
  /\ at.phase = "rollback" => ~opts.dry
  /\ disk \in AnyDisks /\ start \in AnyDisks

RInv == /\ Shape
        /\ status = "running" /\ start.bak = NoBackup => Course
        /\ RollbackExact
----------------------------------------------------------------------------
\* Where in the plan sources.list is saved and changed.
LEMMA PlanOrder ==
  /\ Len(Plan) = 14
  /\ \A i \in 1..14 : /\ Plan[i] = "backup" => Apt /\ i = 3
                      /\ Plan[i] = "append" => Apt /\ i = 4
                      /\ Plan[i] \notin {"restore", "rmZip", "rmDir"}
  /\ Apt => Plan[3] = "backup"
<1>1. /\ Len(AptPlan) = 14 /\ AptPlan[3] = "backup"
      /\ \A i \in 1..14 : /\ AptPlan[i] = "backup" => i = 3
                          /\ AptPlan[i] = "append" => i = 4
                          /\ AptPlan[i] \notin {"restore", "rmZip", "rmDir"}
  BY DEF AptPlan
<1>2. /\ Len(BrewPlan) = 14
      /\ \A i \in 1..14 : BrewPlan[i] \notin {"backup", "append", "restore", "rmZip", "rmDir"}
  BY DEF BrewPlan
<1>. QED  BY <1>1, <1>2 DEF Plan

\* What a command that succeeds does to sources.list and its backup.
LEMMA DoneLists ==
  ASSUME disk \in AnyDisks, opts \in Options, NEW c,
         c = "restore" => disk.bak # NoBackup
  PROVE  /\ Done(c) \in AnyDisks
         /\ c \notin {"backup", "append", "restore"}
              => Done(c).list = disk.list /\ Done(c).bak = disk.bak
         /\ c = "backup" => Done(c).list = disk.list /\ Done(c).bak = disk.list
         /\ c = "append" => Done(c).bak = disk.bak
         /\ c = "restore" => Done(c).list = disk.bak /\ Done(c).bak = NoBackup
<1>1. CASE c \notin {"backup", "append", "restore"}
  <2>1. CASE c = "update"
    <3>1. (disk.list.llvm > 0) \in BOOLEAN OBVIOUS
    <3>. QED  BY <2>1, <3>1 DEF Done, AnyDisks
  <2>2. CASE c = "copy"
    <3>1. (disk.found \/ opts.onpath) \in BOOLEAN BY DEF AnyDisks, Options
    <3>. QED  BY <2>2, <3>1 DEF Done, AnyDisks
  <2>3. CASE c \in {"packages", "download", "unzip", "rmZip", "rmDir"}
    <3>1. CASE c = "packages" BY <3>1 DEF Done, AnyDisks
    <3>2. CASE c = "download" BY <3>2 DEF Done, AnyDisks
    <3>3. CASE c = "unzip" BY <3>3 DEF Done, AnyDisks
    <3>4. CASE c = "rmZip" BY <3>4 DEF Done, AnyDisks
    <3>5. CASE c = "rmDir" BY <3>5 DEF Done, AnyDisks
    <3>. QED  BY <2>3, <3>1, <3>2, <3>3, <3>4, <3>5
  <2>4. CASE c \notin {"update", "copy", "packages", "download", "unzip", "rmZip", "rmDir"}
    BY <1>1, <2>4 DEF Done
  <2>. QED  BY <2>1, <2>2, <2>3, <2>4
<1>2. CASE c = "backup" BY <1>2 DEF Done, AnyDisks
<1>3. CASE c = "append"
  <2> DEFINE longer == [disk.list EXCEPT !.llvm = @ + 1]
  <2>1. longer \in Copies BY DEF AnyDisks, Copies
  <2>2. Done(c) = [disk EXCEPT !.list = longer] BY <1>3 DEF Done, AnyDisks
  <2>. HIDE DEF longer
  <2>. QED  BY <1>3, <2>1, <2>2 DEF AnyDisks
<1>4. CASE c = "restore"
  <2>1. disk.bak \in Copies BY <1>4 DEF AnyDisks
  <2>2. Done(c) = [disk EXCEPT !.list = disk.bak, !.bak = NoBackup] BY <1>4 DEF Done
  <2>. QED  BY <1>4, <2>1, <2>2 DEF AnyDisks
<1>. QED  BY <1>1, <1>2, <1>3, <1>4

\* ... and one that fails.
LEMMA BrokenLists ==
  ASSUME disk \in AnyDisks, opts \in Options, NEW c, NEW d \in Broken(c)
  PROVE  /\ d \in AnyDisks
         /\ c \notin {"backup", "append"} => d.list = disk.list /\ d.bak = disk.bak
         /\ c = "backup" => d.list = disk.list
         /\ c = "append" => d.bak = disk.bak
<1>1. CASE d = disk BY <1>1
<1>2. CASE d # disk
  <2>1. CASE c = "backup"
    <3>1. Torn \in Copies BY DEF Torn, Copies
    <3>2. d = [disk EXCEPT !.bak = Torn] BY <1>2, <2>1 DEF Broken, Su
    <3>. QED  BY <2>1, <3>1, <3>2 DEF AnyDisks
  <2>2. CASE c = "copy"
    <3>1. PICK f \in {disk.found, disk.found \/ opts.onpath} :
            d = [disk EXCEPT !.prefix = "part", !.found = f]
      BY <1>2, <2>2 DEF Broken, Su
    <3>2. f \in BOOLEAN BY DEF AnyDisks, Options
    <3>. QED  BY <2>2, <3>1, <3>2 DEF AnyDisks
  <2>3. CASE c \notin {"backup", "copy"}
    <3>1. c \in {"update", "append", "download", "unzip"} /\ d = Done(c)
      BY <1>2, <2>3 DEF Broken
    <3>. QED  BY <3>1, DoneLists
  <2>. QED  BY <2>1, <2>2, <2>3
<1>. QED  BY <1>1, <1>2

----------------------------------------------------------------------------
\* At first no run has begun.
LEMMA RInvInit == Init => RInv
<1> SUFFICES ASSUME Init PROVE RInv OBVIOUS
<1>1. disk.list = [rev |-> 1, llvm |-> 0] /\ disk.bak = NoBackup /\ start = disk BY DEF Init
<1>2. disk \in AnyDisks
  <2>1. [rev |-> 1, llvm |-> 0] \in Copies BY DEF Copies
  <2>. QED  BY <2>1 DEF Init, AnyDisks
<1>3. Shape BY <1>1, <1>2 DEF Init, Shape, Options
<1>. QED  BY <1>3 DEF Init, RInv, RollbackExact

\* The checks change nothing.
LEMMA CheckStep ==
  ASSUME RInv, Pass \/ Answer \/ Refuse
  PROVE  RInv'
<1>1. /\ status = "running" /\ at.phase = "checks" /\ at.i \in 1..7
      /\ sys' = sys /\ disk' = disk /\ opts' = opts /\ failed' = failed /\ start' = start
  BY DEF RInv, Shape, Pass, Answer, Refuse, Checking
<1>2. \/ status' = status /\ NextCheck
      \/ status' = "refused" /\ at' = at
  BY DEF Pass, Answer, Refuse
<1>3. at' \in {at, [phase |-> "plan", i |-> 1], [phase |-> "checks", i |-> at.i + 1]}
      /\ (at'.phase = "checks" => at'.i \in 1..7)
      /\ (at'.phase = "plan" => at'.i \in 1..14)
  BY <1>1, <1>2 DEF NextCheck, Goto, Checks
<1>4. Shape'
  <2>1. at' \in [phase : {"checks", "plan", "clean", "rollback"}, i : Nat \ {0}]
        /\ at'.phase # "rollback"
    BY <1>1, <1>3 DEF RInv, Shape
  <2>. QED  BY <1>1, <1>3, <2>1 DEF RInv, Shape
<1>5. status' = "running" /\ start'.bak = NoBackup => Course'
  BY <1>1, <1>3 DEF RInv, Course, Untouched, Saved, Apt
<1>6. RollbackExact' BY <1>1, <1>2 DEF RollbackExact
<1>. QED  BY <1>4, <1>5, <1>6 DEF RInv

\* A command of the plan succeeds: "append" comes after "backup".
LEMMA ExecuteStep ==
  ASSUME RInv, Execute
  PROVE  RInv'
<1>1. /\ status = "running" /\ status' = status /\ at.phase = "plan" /\ at.i \in 1..14
      /\ sys' = sys /\ opts' = opts /\ failed' = failed /\ start' = start
      /\ disk \in AnyDisks /\ opts \in Options
  BY DEF RInv, Shape, Execute, Running
<1>2. at' = IF at.i = 14 THEN [phase |-> "clean", i |-> 1]
                         ELSE [phase |-> "plan", i |-> at.i + 1]
  BY PlanOrder DEF Execute, NextCommand, Goto
<1>3. /\ at' \in [phase : {"checks", "plan", "clean", "rollback"}, i : Nat \ {0}]
      /\ at'.phase \in {"plan", "clean"}
      /\ at'.phase = "plan" => at'.i = at.i + 1 /\ at'.i \in 1..14
      /\ at'.phase = "clean" => at.i = 14
  BY <1>1, <1>2
<1>4. disk' = IF opts.dry THEN disk ELSE Done(Plan[at.i])
  BY DEF Execute, Executes, Command
<1>5. /\ disk' \in AnyDisks
      /\ opts.dry \/ at.i \notin {3, 4} \/ ~Apt
           => disk'.list = disk.list /\ disk'.bak = disk.bak
      /\ ~opts.dry /\ Apt /\ at.i = 3 => disk'.list = disk.list /\ disk'.bak = disk.list
      /\ ~opts.dry /\ at.i = 4 => disk'.bak = disk.bak
  BY <1>1, <1>4, DoneLists, PlanOrder
<1>6. Shape' BY <1>1, <1>3, <1>5 DEF RInv, Shape
<1>7. ASSUME start.bak = NoBackup
      PROVE  Course'
  <2>1. /\ Saved
        /\ ~opts.dry /\ Apt /\ at.i > 3 => disk.bak = start.list
        /\ ~opts.dry /\ Apt /\ at.i <= 3 => Untouched
        /\ opts.dry \/ ~Apt => Untouched
    BY <1>1, <1>7 DEF RInv, Course
  <2>2. opts.dry \/ ~Apt => Untouched'
    BY <1>1, <1>5, <2>1 DEF Untouched
  <2>3. ~opts.dry /\ Apt /\ at.i >= 3 => disk'.bak = start.list
    BY <1>1, <1>5, <2>1 DEF Untouched
  <2>4. ~opts.dry /\ Apt /\ at.i < 3 => Untouched'
    BY <1>1, <1>5, <2>1 DEF Untouched
  <2>5. Saved'
    BY <1>1, <2>2, <2>3, <2>4 DEF Saved, Apt
  <2>6. (Apt <=> Apt') /\ (at.i + 1 > 3 <=> at.i >= 3) /\ (at.i + 1 <= 3 <=> at.i < 3)
    BY <1>1 DEF Apt
  <2>7. CASE at'.phase = "plan"
    BY <1>1, <1>3, <2>2, <2>3, <2>4, <2>5, <2>6, <2>7 DEF Course
  <2>8. CASE at'.phase = "clean"
    BY <1>1, <2>2, <2>5, <2>8 DEF Course
  <2>. QED  BY <1>3, <2>7, <2>8
<1>8. RollbackExact' BY <1>1 DEF RollbackExact
<1>. QED  BY <1>1, <1>6, <1>7, <1>8 DEF RInv

\* A command of the plan fails.
LEMMA FailStep ==
  ASSUME RInv, Fail
  PROVE  RInv'
<1>1. /\ status = "running" /\ status' = status /\ at.phase = "plan" /\ at.i \in 1..14
      /\ sys' = sys /\ opts' = opts /\ start' = start /\ ~opts.dry
      /\ disk \in AnyDisks /\ opts \in Options
      /\ failed' = Plan[at.i] /\ disk' \in Broken(Plan[at.i])
      /\ at' = [phase |-> "rollback", i |-> 1]
  BY DEF RInv, Shape, Fail, Running, Executes, Command, Goto
<1>2. /\ disk' \in AnyDisks
      /\ Plan[at.i] \notin {"backup", "append"} => disk'.list = disk.list /\ disk'.bak = disk.bak
      /\ Plan[at.i] = "append" => disk'.bak = disk.bak
  BY <1>1, BrokenLists
<1>3. Shape'
  BY <1>1, <1>2 DEF RInv, Shape
<1>4. ASSUME start.bak = NoBackup, failed' # "backup"
      PROVE  Saved'
  <2>1. Saved /\ (Apt /\ at.i > 3 => disk.bak = start.list)
    BY <1>1, <1>4 DEF RInv, Course
  <2>2. CASE Plan[at.i] = "append"
    <3>1. Apt /\ at.i = 4 BY <1>1, <2>2, PlanOrder
    <3>. QED  BY <1>1, <1>2, <2>1, <2>2, <3>1 DEF Saved, Apt
  <2>3. CASE Plan[at.i] # "append"
    BY <1>1, <1>2, <1>4, <2>1, <2>3 DEF Saved, Untouched, Apt
  <2>. QED  BY <2>2, <2>3
<1>5. start'.bak = NoBackup => Course'
  BY <1>1, <1>4 DEF Course
<1>6. RollbackExact' BY <1>1 DEF RollbackExact
<1>. QED  BY <1>3, <1>5, <1>6 DEF RInv

\* The commands of the clean-up that are not "restore" leave the lists alone.
LEMMA SweepNames ==
  \A i \in 1..3 : Sweeps[i] \in {"rmZip", "rmDir", "restore"}
BY DEF Sweeps

\* A command of the clean-up; after the last one of a rollback the backup is back in place.
LEMMA SweepStep ==
  ASSUME RInv, Sweep
  PROVE  RInv'
<1>1. /\ status = "running" /\ status' = status /\ at.phase \in {"clean", "rollback"}
      /\ at.i \in 1..3 /\ start.list # NoBackup
      /\ sys' = sys /\ opts' = opts /\ start' = start /\ failed' = failed
      /\ disk \in AnyDisks /\ opts \in Options
      /\ at' = [phase |-> at.phase, i |-> at.i + 1]
      /\ at.phase = "rollback" => ~opts.dry
  <2>1. \A l \in Copies : l # NoBackup BY DEF Copies, NoBackup
  <2>2. start.list # NoBackup BY <2>1 DEF RInv, Shape, AnyDisks
  <2>. QED  BY <2>2 DEF RInv, Shape, Sweep, Sweeping, Running, Sweeps, Goto
<1> DEFINE c == Sweeps[at.i]
<1>2. disk' = IF Applies(c) /\ ~opts.dry THEN Done(c) ELSE disk
  BY DEF Sweep, Executes
<1>3. at.i = 3 => c = "restore" BY DEF Sweeps
<1>4. Applies("restore") <=> at.phase = "rollback" /\ Linux /\ disk.bak # NoBackup
  BY DEF Applies
<1>. HIDE DEF c
<1>5. disk' \in AnyDisks BY <1>1, <1>2, <1>4, DoneLists
<1>6. Shape' BY <1>1, <1>5 DEF RInv, Shape
<1>7. ASSUME start.bak = NoBackup, at.phase = "clean" \/ failed # "backup"
      PROVE  Saved' /\ (opts.dry => disk' = disk)
             /\ (at.phase = "rollback" /\ at.i = 3 => Untouched')
  <2>1. Saved BY <1>1, <1>7 DEF RInv, Course
  <2>2. opts.dry => disk' = disk BY <1>2
  <2>3. CASE c = "restore" /\ Applies(c) /\ ~opts.dry
    <3>1. disk'.list = disk.bak /\ disk'.bak = NoBackup /\ disk.bak # NoBackup
      BY <1>1, <1>2, <1>4, <2>3, DoneLists
    <3>2. Untouched' BY <1>1, <2>1, <3>1 DEF Saved, Untouched
    <3>. QED  BY <2>2, <3>2 DEF Saved
  <2>4. CASE ~(c = "restore" /\ Applies(c) /\ ~opts.dry)
    <3>1. disk'.list = disk.list /\ disk'.bak = disk.bak
      <4>1. c \notin {"backup", "append"} BY <1>1, SweepNames DEF c
      <4>. QED  BY <1>1, <1>2, <2>4, <4>1, DoneLists
    <3>2. Saved' BY <1>1, <2>1, <3>1 DEF Saved, Untouched, Apt
    <3>3. at.phase = "rollback" /\ at.i = 3 => Untouched'
      BY <1>1, <1>3, <1>4, <2>1, <2>4, <3>1 DEF Saved, Untouched, Apt, Linux
    <3>. QED  BY <2>2, <3>2, <3>3
  <2>. QED  BY <2>3, <2>4
<1>8. start'.bak = NoBackup => Course'
  <2>1. at.phase = "clean" /\ start.bak = NoBackup /\ opts.dry => Untouched
    BY <1>1 DEF RInv, Course
  <2>2. at.i + 1 > 3 => at.i = 3 BY <1>1
  <2>. QED  BY <1>1, <1>7, <2>1, <2>2 DEF Course, Untouched
<1>9. RollbackExact' BY <1>1 DEF RollbackExact
<1>. QED  BY <1>6, <1>8, <1>9 DEF RInv

\* A command of the clean-up fails: what was saved still is.
LEMMA SweepFailsStep ==
  ASSUME RInv, SweepFails
  PROVE  RInv'
<1>1. /\ status = "running" /\ status' = status /\ at.phase \in {"clean", "rollback"}
      /\ sys' = sys /\ opts' = opts /\ start' = start /\ disk' = disk /\ ~opts.dry
      /\ at' = [phase |-> "rollback", i |-> 1]
      /\ at.phase = "rollback" => failed' = failed
  BY DEF SweepFails, Sweeping, Running, Goto, Executes
<1>2. Shape' BY <1>1 DEF RInv, Shape
<1>3. start'.bak = NoBackup => Course'
  BY <1>1 DEF RInv, Course, Saved, Untouched, Apt
<1>4. RollbackExact' BY <1>1 DEF RollbackExact
<1>. QED  BY <1>2, <1>3, <1>4 DEF RInv

\* The script ends, by itself or by the user.
LEMMA EndStep ==
  ASSUME RInv, Finish \/ Kill
  PROVE  RInv'
<1>1. /\ status = "running" /\ status' # "running" /\ at' = at
      /\ sys' = sys /\ opts' = opts /\ start' = start /\ failed' = failed
      /\ disk \in AnyDisks /\ opts \in Options
  BY DEF RInv, Shape, Finish, Sweeping, Kill, Running
<1>2. disk' \in AnyDisks
  <2>1. CASE Finish BY <1>1, <2>1 DEF Finish
  <2>2. CASE Kill
    <3>1. disk' = disk \/ disk' \in Broken(Command) BY <2>2 DEF Kill
    <3>. QED  BY <1>1, <3>1, BrokenLists
  <2>. QED  BY <2>1, <2>2
<1>3. Shape' BY <1>1, <1>2 DEF RInv, Shape
<1>4. RollbackExact'
  <2>1. CASE status' = "aborted" /\ start.bak = NoBackup /\ failed # "backup"
    <3>1. Finish /\ at.phase = "rollback" /\ at.i > 3 /\ disk' = disk
      BY <2>1 DEF Finish, Kill, Sweeping, Running, Sweeps
    <3>2. Untouched BY <1>1, <2>1, <3>1 DEF RInv, Course
    <3>3. disk.list.rev \in Nat BY <1>1 DEF AnyDisks, Copies
    <3>. QED  BY <1>1, <3>1, <3>2, <3>3 DEF RollbackExact, Untouched
  <2>2. CASE ~(status' = "aborted" /\ start.bak = NoBackup /\ failed # "backup")
    BY <1>1, <2>2 DEF RollbackExact
  <2>. QED  BY <2>1, <2>2
<1>. QED  BY <1>1, <1>3, <1>4 DEF RInv

\* A new run sees what the last one left.
LEMMA StartStep ==
  ASSUME RInv, Start
  PROVE  RInv'
<1>1. /\ status' = "running" /\ sys' = sys /\ disk' = disk /\ start' = disk
      /\ opts' \in Options /\ at' = [phase |-> "checks", i |-> 1]
  BY DEF Start, Goto
<1>2. Shape' BY <1>1 DEF RInv, Shape
<1>3. start'.bak = NoBackup => Course' BY <1>1 DEF Course, Untouched
<1>4. RollbackExact' BY <1>1 DEF RollbackExact
<1>. QED  BY <1>2, <1>3, <1>4 DEF RInv

\* The user's own changes come on top of what a run left.
LEMMA EditStep ==
  ASSUME RInv, Edit
  PROVE  RInv'
<1>1. /\ status' # "running" /\ status' = status /\ sys' = sys /\ start' = start /\ opts' = opts
      /\ at' = at /\ failed' = failed /\ disk \in AnyDisks /\ start \in AnyDisks
  BY DEF RInv, Shape, Edit
<1> DEFINE l == [disk.list EXCEPT !.rev = @ + 1]
<1>2. disk.list \in Copies /\ start.list \in Copies BY <1>1 DEF AnyDisks
<1>3. l \in Copies /\ l.rev = disk.list.rev + 1 /\ l.llvm = disk.list.llvm BY <1>2 DEF Copies
<1>4. disk' = [disk EXCEPT !.list = l] BY <1>1 DEF Edit, AnyDisks
<1>. HIDE DEF l
<1>5. disk' \in AnyDisks /\ disk'.list = l /\ disk'.bak = disk.bak
  BY <1>1, <1>3, <1>4 DEF AnyDisks
<1>6. Shape' BY <1>1, <1>5 DEF RInv, Shape
<1>7. disk.list.rev >= start.list.rev => l.rev >= start.list.rev
  BY <1>2, <1>3 DEF Copies
<1>8. RollbackExact' BY <1>1, <1>3, <1>5, <1>7 DEF RInv, RollbackExact
<1>. QED  BY <1>1, <1>6, <1>8 DEF RInv

(* On every machine, after any number of runs that were finished, refused,    *)
(* aborted or killed, a run of install.sh that gives up leaves sources.list   *)
(* as it found it, under the conditions RollbackExact names.                  *)
THEOREM Rollback == Spec => []RollbackExact
<1>1. Init => RInv BY RInvInit
<1>2. RInv /\ [Next]_vars => RInv'
  <2> SUFFICES ASSUME RInv, [Next]_vars PROVE RInv' OBVIOUS
  <2>1. CASE Start BY <2>1, StartStep
  <2>2. CASE Pass \/ Answer \/ Refuse BY <2>2, CheckStep
  <2>3. CASE Execute BY <2>3, ExecuteStep
  <2>4. CASE Fail BY <2>4, FailStep
  <2>5. CASE Sweep BY <2>5, SweepStep
  <2>6. CASE SweepFails BY <2>6, SweepFailsStep
  <2>7. CASE Finish \/ Kill BY <2>7, EndStep
  <2>8. CASE Edit BY <2>8, EditStep
  <2>9. CASE UNCHANGED vars
    BY <2>9 DEF vars, RInv, Shape, Course, Saved, Untouched, RollbackExact, Apt
  <2>. QED
    BY <2>1, <2>2, <2>3, <2>4, <2>5, <2>6, <2>7, <2>8, <2>9 DEF Next, Script, Stop
<1>3. RInv => RollbackExact BY DEF RInv
<1>. QED  BY <1>1, <1>2, <1>3, PTL DEF Spec
----------------------------------------------------------------------------
(* The ranges of the variables.  A run appends to sources.list at most once,  *)
(* so the lines of LLVM in it, or in its backup, are never more than the runs. *)

Within ==
  /\ disk.list.llvm <= runs /\ disk.bak.llvm <= runs
  /\ status = "running" /\ (at.phase = "checks" \/ (at.phase = "plan" /\ at.i <= 4))
       => disk.list.llvm < runs

Places ==
  /\ at \in [phase : {"checks", "plan", "clean", "rollback"}, i : 1..14]
  /\ at.phase = "checks" => at.i \in 1..7
  /\ at.phase \in {"clean", "rollback"} => at.i \in 1..4

TInv == TypeOK /\ Within /\ Places

(* What a run that is not dry has done when it reaches a place of the script. *)
Progress ==
  /\ at.phase = "checks" => disk = start
  /\ at.phase = "plan" /\ ~opts.dry =>
       /\ Apt /\ at.i <= 4 => disk.list.llvm = start.list.llvm
       /\ Apt /\ at.i > 4  => disk.list.llvm > start.list.llvm
       /\ Apt /\ at.i > 6  => disk.deps
       /\ at.i > 11        => disk.prefix = "whole"
  /\ at.phase = "clean" /\ ~opts.dry =>
       /\ Apt => disk.deps /\ disk.list.llvm > start.list.llvm
       /\ disk.prefix = "whole" /\ disk.found
       /\ at.i > 1 => ~disk.zip
       /\ at.i > 2 => ~disk.dir

\* The check number j is behind the run.
Past(j) == at.phase # "checks" \/ at.i > j

Asked == /\ Past(2) /\ start.found => "found" \in yes
         /\ Past(3) /\ ~sys.x64    => "arch" \in yes
         /\ Past(5) /\ TooOld      => "version" \in yes
         /\ Past(7)                => "ready" \in yes

PInv == /\ TInv
        /\ status = "running" => Progress /\ Asked
        /\ InstalledComplete

----------------------------------------------------------------------------
\* A disk within the bounds is a disk.
LEMMA DisksAny == Disks \subseteq AnyDisks
<1>1. Lists \subseteq Copies
  BY BoundsAssumption DEF Lists, Copies
<1> QED
  BY <1>1 DEF Disks, AnyDisks

\* What a command that succeeds does to the rest of the disk.
LEMMA DoneRest ==
  ASSUME disk \in Disks, NEW c
  PROVE  /\ c = "packages" => Done(c).deps
         /\ c # "packages" => Done(c).deps = disk.deps
         /\ c = "copy" => Done(c).prefix = "whole"
         /\ c # "copy" => Done(c).prefix = disk.prefix /\ Done(c).found = disk.found
         /\ c = "rmZip" => ~Done(c).zip
         /\ c \notin {"rmZip", "download"} => Done(c).zip = disk.zip
         /\ c = "rmDir" => ~Done(c).dir
         /\ c \notin {"rmDir", "unzip"} => Done(c).dir = disk.dir
<1>1. CASE c \in {"packages", "copy", "rmZip", "download", "rmDir", "unzip"}
  BY <1>1 DEF Done, Disks
<1>2. CASE c \in {"update", "backup", "append", "restore"}
  BY <1>2 DEF Done, Disks
<1>3. CASE c \notin {"packages", "copy", "rmZip", "download", "rmDir", "unzip", "update", "backup", "append", "restore"}
  BY <1>3 DEF Done
<1> QED
  BY <1>1, <1>2, <1>3

\* ... and to sources.list, within the bounds.
LEMMA DoneWithin ==
  ASSUME disk \in Disks, opts \in Options, NEW c,
         c = "append" => disk.list.llvm < MaxRuns, c = "restore" => disk.bak # NoBackup
  PROVE  /\ Done(c) \in Disks
         /\ c = "append" => Done(c).list.llvm = disk.list.llvm + 1
<1>1. disk.list \in Lists /\ disk.bak \in Lists \cup {NoBackup}
  BY DEF Disks
<1>2. CASE c = "append"
  <2> DEFINE longer == [disk.list EXCEPT !.llvm = @ + 1]
  <2>1. longer \in Lists /\ longer.llvm = disk.list.llvm + 1
    BY <1>1, <1>2, BoundsAssumption DEF Lists
  <2>2. Done(c) = [disk EXCEPT !.list = longer]
    BY <1>2 DEF Done, Disks
  <2> HIDE DEF longer
  <2> QED
    BY <1>2, <2>1, <2>2 DEF Disks
<1>3. CASE c = "update"
  <2>1. (disk.list.llvm > 0) \in BOOLEAN
    OBVIOUS
  <2> QED
    BY <1>3, <2>1 DEF Done, Disks
<1>4. CASE c = "copy"
  <2>1. (disk.found \/ opts.onpath) \in BOOLEAN
    BY DEF Disks, Options
  <2> QED
    BY <1>4, <2>1 DEF Done, Disks
<1>5. CASE c = "backup"
  BY <1>1, <1>5 DEF Done, Disks
<1>6. CASE c = "restore"
  <2>1. disk.bak \in Lists
    BY <1>1, <1>6
  <2> QED
    BY <1>6, <2>1 DEF Done, Disks
<1>7. CASE c \in {"packages", "rmZip", "download", "rmDir", "unzip"}
  <2>1. CASE c = "packages"
    BY <2>1 DEF Done, Disks
  <2>2. CASE c = "rmZip"
    BY <2>2 DEF Done, Disks
  <2>3. CASE c = "download"
    BY <2>3 DEF Done, Disks
  <2>4. CASE c = "rmDir"
    BY <2>4 DEF Done, Disks
  <2>5. CASE c = "unzip"
    BY <2>5 DEF Done, Disks
  <2> QED
    BY <1>7, <2>1, <2>2, <2>3, <2>4, <2>5
<1>8. CASE c \notin {"packages", "copy", "rmZip", "download", "rmDir", "unzip", "update", "backup", "append", "restore"}
  BY <1>8 DEF Done
<1> QED
  BY <1>2, <1>3, <1>4, <1>5, <1>6, <1>7, <1>8

\* ... and one that fails.
LEMMA BrokenWithin ==
  ASSUME disk \in Disks, opts \in Options, NEW c, NEW d \in Broken(c),
         c = "append" => disk.list.llvm < MaxRuns
  PROVE  /\ d \in Disks
         /\ c # "append" => d.list = disk.list
         /\ c = "append" => d.list.llvm <= disk.list.llvm + 1
         /\ d.bak = disk.bak \/ d.bak = Torn
<1>0. disk.list.llvm \in Nat
  BY BoundsAssumption DEF Disks, Lists
<1>1. CASE d = disk
  BY <1>0, <1>1
<1>2. CASE d # disk
  <2>1. CASE c = "backup"
    <3>1. Torn \in Lists
      BY BoundsAssumption DEF Torn, Lists
    <3>2. d = [disk EXCEPT !.bak = Torn]
      BY <1>2, <2>1 DEF Broken, Su
    <3> QED
      BY <2>1, <3>1, <3>2 DEF Disks
  <2>2. CASE c = "copy"
    <3>1. PICK f \in {disk.found, disk.found \/ opts.onpath} :
            d = [disk EXCEPT !.prefix = "part", !.found = f]
      BY <1>2, <2>2 DEF Broken, Su
    <3>2. f \in BOOLEAN
      BY DEF Disks, Options
    <3> QED
      BY <2>2, <3>1, <3>2 DEF Disks
  <2>3. CASE c \notin {"backup", "copy"}
    <3>1. c \in {"update", "append", "download", "unzip"} /\ d = Done(c)
      BY <1>2, <2>3 DEF Broken
    <3>2. d \in Disks /\ (c = "append" => d.list.llvm = disk.list.llvm + 1)
      BY <3>1, DoneWithin
    <3>3. d.bak = disk.bak /\ (c # "append" => d.list = disk.list)
      BY <3>1, DisksAny, DoneLists
    <3> QED
      BY <1>0, <3>2, <3>3
  <2> QED
    BY <2>1, <2>2, <2>3
<1> QED
  BY <1>1, <1>2

\* The copies hold as many lines of LLVM as a number says.
LEMMA Lines ==
  ASSUME TInv
  PROVE  /\ disk.list.llvm \in Nat /\ disk.bak.llvm \in Nat /\ start.list.llvm \in Nat
         /\ runs \in Nat /\ runs <= MaxRuns /\ MaxRuns \in Nat /\ MaxRev \in Nat \ {0}
         /\ disk.list.rev \in Nat
         /\ Torn.llvm = 0 /\ NoBackup.llvm = 0
<1>1. disk.list \in Lists /\ start.list \in Lists /\ disk.bak \in Lists \cup {NoBackup}
  BY DEF TInv, TypeOK, Disks
<1>2. NoBackup.llvm = 0 /\ Torn.llvm = 0
  BY DEF NoBackup, Torn
<1> QED
  BY <1>1, <1>2, BoundsAssumption DEF TInv, TypeOK, Lists

\* The first field decides which of two numbers is less, as long as the second has two digits.
LEMMA FirstField ==
  ASSUME NEW a \in Nat, NEW b \in Nat, NEW c \in Nat, NEW x \in Nat, NEW y \in Nat,
         y < 100, a * 10000 + b * 100 + c < x * 10000 + y * 100
  PROVE  a <= x /\ (a = x => b < y)
OBVIOUS

\* A version that is less, as numbers go, than the least one is too old for vercomp:
\* a first field that differs and is less, and no earlier one that is more.
LEMMA OldFound ==
  ASSUME sys \in Systems, sys.version # << >>, Number(sys.version) < Number(Least)
  PROVE  TooOld
<1> DEFINE v == sys.version
           L == Least
           F(i) == Field(v, i)
           G(i) == Field(L, i)
<1>1. v \in Seq(Nat)
  BY SystemsAssumption DEF System
<1>2. L \in {<<17, 4>>, <<9>>, <<10, 12>>}
  BY DEF Least
<1>3. \A i \in Nat \ {0} : F(i) \in Nat
  BY <1>1 DEF Field
<1>4. /\ Len(L) \in {1, 2} /\ 1 <= Len(L) /\ G(1) \in Nat /\ G(2) \in Nat /\ G(3) = 0
      /\ G(2) < 100
      /\ Len(L) = 1 => G(2) = 0
  <2>1. CASE L = <<17, 4>>
    BY <2>1 DEF Field
  <2>2. CASE L = <<9>>
    BY <2>2 DEF Field
  <2>3. CASE L = <<10, 12>>
    BY <2>3 DEF Field
  <2> QED
    BY <1>2, <2>1, <2>2, <2>3
<1>5. F(1) < G(1) \/ (F(1) = G(1) /\ F(2) < G(2) /\ Len(L) = 2)
  <2>1. F(1) \in Nat /\ F(2) \in Nat /\ F(3) \in Nat
    BY <1>3
  <2>2. F(1) * 10000 + F(2) * 100 + F(3) < G(1) * 10000 + G(2) * 100 + G(3)
    BY DEF Number
  <2> HIDE DEF F, G, L, v
  <2>3. G(1) \in Nat /\ G(2) \in Nat /\ G(3) = 0 /\ G(2) < 100 /\ (Len(L) = 1 => G(2) = 0) /\ Len(L) \in {1, 2}
    BY <1>4
  <2>4. F(1) * 10000 + F(2) * 100 + F(3) < G(1) * 10000 + G(2) * 100
    BY <2>2, <2>3
  <2>5. F(1) <= G(1) /\ (F(1) = G(1) => F(2) < G(2))
    <3> DEFINE a == F(1)  b == F(2)  c == F(3)  x == G(1)  y == G(2)
    <3>1. /\ a \in Nat /\ b \in Nat /\ c \in Nat /\ x \in Nat /\ y \in Nat /\ y < 100
          /\ a * 10000 + b * 100 + c < x * 10000 + y * 100
      BY <2>1, <2>3, <2>4
    <3> HIDE DEF a, b, c, x, y
    <3>2. a <= x /\ (a = x => b < y)
      BY ONLY <3>1, FirstField
    <3> QED
      BY <3>2 DEF a, b, x, y
  <2> QED
    BY <2>1, <2>3, <2>5
<1>6. PICK k \in {1, 2} : /\ F(k) < G(k) /\ \A i \in 1..(k - 1) : F(i) = G(i)
                          /\ k <= Len(L)
  <2> HIDE DEF F, G, L
  <2>1. CASE F(1) < G(1)
    <3>1. 1 <= Len(L)
      BY <1>4
    <3>2. \A i \in 1..(1 - 1) : F(i) = G(i)
      OBVIOUS
    <3> QED
      BY <2>1, <3>1, <3>2
  <2>2. CASE F(1) = G(1) /\ F(2) < G(2) /\ Len(L) = 2
    BY <2>2
  <2> QED
    BY <1>5, <2>1, <2>2
<1> DEFINE fields == 1..(Len(v) + Len(L))
           same(n) == \A i \in 1..n : F(i) = G(i)
<1>7. Len(v) \in Nat /\ k \in fields
  BY <1>1, <1>4, <1>6
<1>8. \E i \in fields : same(i - 1) /\ F(i) < G(i)
  BY <1>6, <1>7
<1>9. ~\E i \in fields : same(i - 1) /\ F(i) > G(i)
  <2> SUFFICES ASSUME NEW i \in fields, same(i - 1), F(i) > G(i)
               PROVE  FALSE
    OBVIOUS
  <2>0. i \in Nat \ {0} /\ F(k) \in Nat /\ G(k) \in Nat /\ F(i) \in Nat
    <3>1. i \in Nat \ {0}
      BY <1>7
    <3> HIDE DEF F, G, fields
    <3>2. F(k) \in Nat /\ F(i) \in Nat
      BY <1>3, <3>1
    <3>3. G(k) \in Nat
      BY <1>4
    <3> QED
      BY <3>1, <3>2, <3>3
  <2> HIDE DEF F, G
  <2>1. CASE i < k
    BY <1>4, <1>6, <2>0, <2>1
  <2>2. CASE i = k
    BY <1>6, <2>0, <2>2
  <2>3. CASE i > k
    BY <1>6, <2>0, <2>3
  <2> QED
    BY <1>6, <2>0, <2>1, <2>2, <2>3
<1>10. VerComp(v, L) = 2
  BY <1>8, <1>9 DEF VerComp
<1> QED
  BY <1>10 DEF TooOld

----------------------------------------------------------------------------
\* Where in the plan what is needed is done.
LEMMA PlanRest ==
  /\ \A i \in 1..14 : /\ Plan[i] = "copy" <=> i = 11
                      /\ Plan[i] = "version" <=> i = 14
                      /\ Apt => (Plan[i] = "append" <=> i = 4)
                      /\ Apt => (Plan[i] = "packages" <=> i = 6)
                      /\ Plan[i] \notin {"restore", "rmZip", "rmDir"}
                      /\ Plan[i] = "append" => i = 4
<1>1. \A i \in 1..14 : /\ AptPlan[i] = "copy" <=> i = 11
                       /\ AptPlan[i] = "version" <=> i = 14
                       /\ AptPlan[i] = "append" <=> i = 4
                       /\ AptPlan[i] = "packages" <=> i = 6
  BY DEF AptPlan
<1>2. \A i \in 1..14 : /\ BrewPlan[i] = "copy" <=> i = 11
                       /\ BrewPlan[i] = "version" <=> i = 14
  BY DEF BrewPlan
<1> QED
  BY <1>1, <1>2, PlanOrder DEF Plan

\* The names of the checks.
LEMMA CheckNames ==
  /\ Len(Checks) = 7
  /\ Checks[2] = "found" /\ Checks[3] = "arch" /\ Checks[5] = "version" /\ Checks[7] = "ready"
  /\ \A i \in 1..7 : Checks[i] \in {Checks[j] : j \in DOMAIN Checks}
BY DEF Checks

\* At first no run has begun.
LEMMA PInvInit == Init => PInv
<1> SUFFICES ASSUME Init PROVE PInv
  OBVIOUS
<1>1. /\ disk.list = [rev |-> 1, llvm |-> 0] /\ disk.bak = NoBackup /\ start = disk /\ runs = 0
      /\ status = "none" /\ at = [phase |-> "checks", i |-> 1] /\ yes = {}
  BY DEF Init
<1>2. [rev |-> 1, llvm |-> 0] \in Lists
  BY BoundsAssumption DEF Lists
<1>3. disk \in Disks
  BY <1>2 DEF Init, Disks
<1>4. opts \in Options /\ sys \in Systems
  BY DEF Init, Options
<1>5. TypeOK
  BY <1>1, <1>3, <1>4, BoundsAssumption DEF TypeOK
<1>6. disk.list.llvm = 0 /\ disk.bak.llvm = 0
  BY <1>1 DEF NoBackup
<1>7. Within /\ Places
  BY <1>1, <1>6 DEF Within, Places
<1> QED
  BY <1>1, <1>5, <1>7 DEF PInv, TInv, InstalledComplete

\* A new run sees what the last one left.
LEMMA StartStays ==
  ASSUME PInv, Start
  PROVE  PInv'
<1>1. /\ status' = "running" /\ runs' = runs + 1 /\ sys' = sys /\ disk' = disk /\ start' = disk
      /\ opts' \in Options /\ yes' = {} /\ at' = [phase |-> "checks", i |-> 1] /\ runs < MaxRuns
  BY DEF Start, Goto
<1>2. /\ disk.list.llvm \in Nat /\ disk.bak.llvm \in Nat /\ runs \in Nat /\ MaxRuns \in Nat
      /\ disk.list.llvm <= runs /\ disk.bak.llvm <= runs
  BY Lines DEF PInv, TInv, Within
<1>3. TypeOK'
  BY <1>1, <1>2 DEF PInv, TInv, TypeOK
<1>4. Within' /\ Places'
  BY <1>1, <1>2 DEF Within, Places
<1>5. Progress' /\ Asked'
  BY <1>1 DEF Progress, Asked, Past
<1> QED
  BY <1>1, <1>3, <1>4, <1>5 DEF PInv, TInv, InstalledComplete

\* A check that is passed found no trouble, or the user has agreed.
LEMMA CheckStays ==
  ASSUME PInv, Pass \/ Answer
  PROVE  PInv'
<1>1. /\ status = "running" /\ status' = status /\ at.phase = "checks" /\ at.i \in 1..7
      /\ sys' = sys /\ disk' = disk /\ opts' = opts /\ start' = start /\ runs' = runs
  BY DEF PInv, TInv, Places, Pass, Answer, Checking
<1>2. at' = IF at.i = 7 THEN [phase |-> "plan", i |-> 1] ELSE [phase |-> "checks", i |-> at.i + 1]
  BY CheckNames DEF Pass, Answer, NextCheck, Goto
<1>3. \/ Verdict(Checks[at.i]) = "ok" /\ yes' = yes
      \/ yes' = yes \cup {Checks[at.i]}
  BY DEF Pass, Answer, Checking
<1>4. disk = start /\ Asked
  BY <1>1 DEF PInv, Progress
<1>5. /\ at' \in [phase : {"checks", "plan", "clean", "rollback"}, i : 1..14]
      /\ at'.phase \in {"checks", "plan"}
      /\ at'.phase = "checks" => at'.i \in 1..7
      /\ at'.phase = "plan" => at'.i = 1
  BY <1>1, <1>2
<1>6. TInv'
  <2>1. TypeOK'
    BY <1>1, <1>3, <1>5, CheckNames DEF PInv, TInv, TypeOK
  <2>2. Within'
    BY <1>1, <1>5 DEF PInv, TInv, Within
  <2>3. Places'
    BY <1>5 DEF Places
  <2> QED
    BY <2>1, <2>2, <2>3 DEF TInv
<1>7. Progress'
  <2>1. at'.phase = "plan" => at'.i <= 4 /\ ~(at'.i > 4) /\ ~(at'.i > 6) /\ ~(at'.i > 11)
    BY <1>5
  <2> QED
    BY <1>1, <1>4, <1>5, <2>1 DEF Progress
<1>8. Asked'
  <2>1. \A j \in 1..7 : Past(j)' => Past(j) \/ at.i = j
    BY <1>1, <1>2 DEF Past
  <2>2. yes \subseteq yes' /\ (TooOld' <=> TooOld)
    BY <1>1, <1>3 DEF TooOld, Least
  <2>3. at.i = 2 /\ start.found => "found" \in yes'
    BY <1>3, <1>4, CheckNames DEF Verdict
  <2>4. at.i = 3 /\ ~sys.x64 => "arch" \in yes'
    BY <1>3, CheckNames DEF Verdict
  <2>5. at.i = 5 /\ TooOld => "version" \in yes'
    BY <1>3, CheckNames DEF Verdict
  <2>6. at.i = 7 => "ready" \in yes'
    BY <1>3, CheckNames DEF Verdict
  <2> QED
    BY <1>1, <1>4, <2>1, <2>2, <2>3, <2>4, <2>5, <2>6 DEF Asked
<1> QED
  BY <1>1, <1>6, <1>7, <1>8 DEF PInv, InstalledComplete

\* A run that is refused has changed nothing.
LEMMA RefuseStays ==
  ASSUME PInv, Refuse
  PROVE  PInv'
<1>1. /\ status' = "refused" /\ UNCHANGED <<sys, disk, opts, start, runs, at, yes>>
  BY DEF Refuse, Checking
<1>2. TypeOK'
  BY <1>1 DEF PInv, TInv, TypeOK
<1>3. Within' /\ Places'
  BY <1>1 DEF PInv, TInv, Within, Places
<1> QED
  BY <1>1, <1>2, <1>3 DEF PInv, TInv, InstalledComplete

\* Once the checks are behind a run, what was asked stays asked.
LEMMA AskedOn ==
  ASSUME Asked, at.phase # "checks", at'.phase # "checks", UNCHANGED <<sys, start, yes>>
  PROVE  Asked'
<1>1. TooOld' <=> TooOld
  BY DEF TooOld, Least
<1> QED
  BY <1>1 DEF Asked, Past

\* A command of the plan succeeds.
LEMMA ExecuteStays ==
  ASSUME PInv, Execute
  PROVE  PInv'
<1>1. /\ status = "running" /\ status' = status /\ at.phase = "plan" /\ at.i \in 1..14
      /\ sys' = sys /\ opts' = opts /\ start' = start /\ yes' = yes /\ runs' = runs
      /\ disk \in Disks /\ disk \in AnyDisks /\ opts \in Options
  BY DisksAny DEF PInv, TInv, TypeOK, Places, Execute, Running
<1>2. at' = IF at.i = 14 THEN [phase |-> "clean", i |-> 1]
                         ELSE [phase |-> "plan", i |-> at.i + 1]
  BY PlanOrder DEF Execute, NextCommand, Goto
<1>3. /\ at' \in [phase : {"checks", "plan", "clean", "rollback"}, i : 1..14]
      /\ at'.phase \in {"plan", "clean"}
      /\ at'.phase = "plan" => at'.i = at.i + 1
      /\ at'.phase = "clean" => at.i = 14 /\ at'.i = 1
  BY <1>1, <1>2
<1> DEFINE c == Plan[at.i]
<1>4. disk' = (IF opts.dry THEN disk ELSE Done(c)) /\ (~opts.dry => Can(c))
  BY DEF Execute, Executes, Command
<1>5. /\ c = "copy" <=> at.i = 11
      /\ c = "version" <=> at.i = 14
      /\ Apt => (c = "append" <=> at.i = 4) /\ (c = "packages" <=> at.i = 6)
      /\ c \notin {"restore", "rmZip", "rmDir"} /\ (c = "append" => at.i = 4)
  BY <1>1, PlanRest
<1> HIDE DEF c
<1>6. /\ disk.list.llvm \in Nat /\ disk.bak.llvm \in Nat /\ start.list.llvm \in Nat /\ runs \in Nat
      /\ runs <= MaxRuns /\ MaxRuns \in Nat
      /\ disk.list.llvm <= runs /\ disk.bak.llvm <= runs /\ (at.i <= 4 => disk.list.llvm < runs)
  BY <1>1, Lines DEF PInv, TInv, Within
<1>7. c = "append" => disk.list.llvm < MaxRuns
  BY <1>5, <1>6
<1>8. /\ disk' \in Disks
      /\ ~opts.dry /\ c = "append" => disk'.list.llvm = disk.list.llvm + 1
      /\ opts.dry \/ c # "append" => disk'.list.llvm = disk.list.llvm
      /\ disk'.bak = disk.bak \/ disk'.bak = disk.list
  <2>1. CASE opts.dry
    BY <1>1, <1>4, <2>1
  <2>2. CASE ~opts.dry
    <3>1. Done(c) \in Disks /\ (c = "append" => Done(c).list.llvm = disk.list.llvm + 1)
      BY <1>1, <1>5, <1>7, DoneWithin
    <3>2. /\ c # "append" => Done(c).list = disk.list
          /\ Done(c).bak = disk.bak \/ Done(c).bak = disk.list
      BY <1>1, <1>5, DoneLists
    <3> QED
      BY <1>4, <2>2, <3>1, <3>2
  <2> QED
    BY <2>1, <2>2
<1>9. TInv'
  <2>1. TypeOK'
    BY <1>1, <1>3, <1>8 DEF PInv, TInv, TypeOK
  <2>2. Within'
    <3>1. disk'.list.llvm <= runs
      BY <1>5, <1>6, <1>8
    <3>2. disk'.bak.llvm <= runs
      BY <1>6, <1>8
    <3>3. ASSUME at'.phase = "plan", at'.i <= 4
          PROVE  disk'.list.llvm < runs
      <4>1. at.i <= 3
        BY <1>1, <1>3, <3>3
      <4> QED
        BY <1>1, <1>5, <1>6, <1>8, <4>1
    <3> QED
      BY <1>1, <1>3, <3>1, <3>2, <3>3 DEF Within
  <2>3. Places'
    BY <1>3 DEF Places
  <2> QED
    BY <2>1, <2>2, <2>3 DEF TInv
<1>10. Progress'
  <2>1. CASE opts.dry
    BY <1>1, <1>3, <2>1 DEF Progress
  <2>2. CASE ~opts.dry
    <3>1. /\ Apt /\ at.i <= 4 => disk.list.llvm = start.list.llvm
          /\ Apt /\ at.i > 4  => disk.list.llvm > start.list.llvm
          /\ Apt /\ at.i > 6  => disk.deps
          /\ at.i > 11        => disk.prefix = "whole"
      BY <1>1, <2>2 DEF PInv, Progress
    <3>2. Apt' <=> Apt
      BY <1>1 DEF Apt
    <3>3. Apt /\ at.i < 4 => disk'.list.llvm = start.list.llvm
      BY <1>1, <1>5, <1>8, <3>1
    <3>4. Apt /\ at.i >= 4 => disk'.list.llvm > start.list.llvm
      <4>1. CASE at.i = 4
        BY <1>5, <1>6, <1>8, <2>2, <3>1, <4>1
      <4>2. CASE at.i > 4
        BY <1>5, <1>8, <3>1, <4>2
      <4> QED
        BY <1>1, <4>1, <4>2
    <3>5. Apt /\ at.i >= 6 => disk'.deps
      BY <1>1, <1>4, <1>5, <2>2, <3>1, DoneRest
    <3>6. at.i >= 11 => disk'.prefix = "whole"
      BY <1>1, <1>4, <1>5, <2>2, <3>1, DoneRest
    <3>7. CASE at'.phase = "plan"
      <4>1. /\ at'.i <= 4 => at.i < 4
            /\ at'.i > 4 => at.i >= 4
            /\ at'.i > 6 => at.i >= 6
            /\ at'.i > 11 => at.i >= 11
        BY <1>1, <1>3, <3>7
      <4> QED
        BY <1>1, <3>2, <3>3, <3>4, <3>5, <3>6, <3>7, <4>1 DEF Progress
    <3>8. CASE at'.phase = "clean"
      <4>1. at.i = 14 /\ at'.i = 1
        BY <1>3, <3>8
      <4>2. disk'.found
        BY <1>1, <1>4, <1>5, <2>2, <4>1, DoneRest DEF Can
      <4>3. at.i >= 4 /\ at.i >= 6 /\ at.i >= 11 /\ ~(at'.i > 1) /\ ~(at'.i > 2)
        BY <4>1
      <4> QED
        BY <1>1, <3>2, <3>4, <3>5, <3>6, <3>8, <4>2, <4>3 DEF Progress
    <3> QED
      BY <1>3, <3>7, <3>8
  <2> QED
    BY <2>1, <2>2
<1>11. Asked'
  BY <1>1, <1>3, AskedOn DEF PInv
<1> QED
  BY <1>1, <1>9, <1>10, <1>11 DEF PInv, InstalledComplete

\* A command of the plan fails, or the user ends the script in the middle of one.
LEMMA BrokenStays ==
  ASSUME PInv, at.phase = "plan", status = "running", disk' \in Broken(Plan[at.i]),
         UNCHANGED <<sys, opts, start, runs>>
  PROVE  /\ disk' \in Disks
         /\ disk'.list.llvm <= runs /\ disk'.bak.llvm <= runs
<1>1. disk \in Disks /\ opts \in Options /\ at.i \in 1..14
  BY DEF PInv, TInv, TypeOK, Places
<1>2. /\ disk.list.llvm \in Nat /\ disk.bak.llvm \in Nat /\ runs \in Nat /\ Torn.llvm = 0
      /\ runs <= MaxRuns /\ MaxRuns \in Nat
      /\ disk.list.llvm <= runs /\ disk.bak.llvm <= runs /\ (at.i <= 4 => disk.list.llvm < runs)
  BY <1>1, Lines DEF PInv, TInv, Within
<1>3. Plan[at.i] = "append" => at.i = 4
  BY <1>1, PlanRest
<1>4. Plan[at.i] = "append" => disk.list.llvm < MaxRuns
  BY <1>2, <1>3
<1>5. /\ disk' \in Disks
      /\ Plan[at.i] # "append" => disk'.list = disk.list
      /\ Plan[at.i] = "append" => disk'.list.llvm <= disk.list.llvm + 1
      /\ disk'.bak = disk.bak \/ disk'.bak = Torn
  BY <1>1, <1>4, BrokenWithin
<1>6. disk'.list.llvm \in Nat
  BY <1>2, <1>5 DEF Disks, Lists
<1> QED
  BY <1>2, <1>3, <1>5, <1>6

\* A command of the plan fails.
LEMMA FailStays ==
  ASSUME PInv, Fail
  PROVE  PInv'
<1>1. /\ status = "running" /\ status' = status /\ at.phase = "plan"
      /\ UNCHANGED <<sys, opts, start, yes, runs>>
      /\ disk' \in Broken(Plan[at.i]) /\ at' = [phase |-> "rollback", i |-> 1]
  BY DEF Fail, Running, Command, Goto
<1>2. disk' \in Disks /\ disk'.list.llvm <= runs /\ disk'.bak.llvm <= runs
  BY <1>1, BrokenStays
<1>3. TypeOK'
  BY <1>1, <1>2 DEF PInv, TInv, TypeOK
<1>4. Within' /\ Places'
  BY <1>1, <1>2 DEF Within, Places
<1>5. Progress'
  BY <1>1 DEF Progress
<1>6. Asked'
  BY <1>1, AskedOn DEF PInv
<1> QED
  BY <1>1, <1>3, <1>4, <1>5, <1>6 DEF PInv, TInv, InstalledComplete

\* A command of the clean-up succeeds or is not needed.
LEMMA SweepStays ==
  ASSUME PInv, Sweep
  PROVE  PInv'
<1>1. /\ status = "running" /\ status' = status /\ at.phase \in {"clean", "rollback"}
      /\ at.i \in 1..3 /\ UNCHANGED <<sys, opts, start, yes, runs>>
      /\ disk \in Disks /\ disk \in AnyDisks /\ opts \in Options
      /\ at' = [phase |-> at.phase, i |-> at.i + 1]
  BY DisksAny DEF PInv, TInv, TypeOK, Places, Sweep, Sweeping, Running, Sweeps, Goto
<1> DEFINE c == Sweeps[at.i]
<1>2. disk' = IF Applies(c) /\ ~opts.dry THEN Done(c) ELSE disk
  BY DEF Sweep, Executes
<1>3. /\ c \in {"rmZip", "rmDir", "restore"}
      /\ at.i = 1 <=> c = "rmZip"
      /\ at.i = 2 <=> c = "rmDir"
  BY <1>1 DEF Sweeps
<1> HIDE DEF c
<1>4. /\ Applies("restore") <=> at.phase = "rollback" /\ Linux /\ disk.bak # NoBackup
      /\ Applies("rmZip") <=> disk.zip
      /\ Applies("rmDir") <=> disk.dir
  BY DEF Applies, PInv, TInv, TypeOK, Disks
<1>5. /\ disk.list.llvm \in Nat /\ disk.bak.llvm \in Nat /\ runs \in Nat /\ NoBackup.llvm = 0
      /\ disk.list.llvm <= runs /\ disk.bak.llvm <= runs
  BY Lines DEF PInv, TInv, Within
<1>6. disk' \in Disks /\ disk'.list.llvm <= runs /\ disk'.bak.llvm <= runs
      /\ (c # "restore" => disk'.list = disk.list)
      /\ (at.phase = "clean" => disk'.list = disk.list)
  <2>1. CASE Applies(c) /\ ~opts.dry
    <3>1. c = "restore" => disk.bak # NoBackup
      BY <1>4, <2>1
    <3>2. Done(c) \in Disks
      BY <1>1, <1>3, <3>1, DoneWithin
    <3>3. /\ c # "restore" => Done(c).list = disk.list /\ Done(c).bak = disk.bak
          /\ c = "restore" => Done(c).list = disk.bak /\ Done(c).bak = NoBackup
      BY <1>1, <1>3, <3>1, DoneLists
    <3> QED
      BY <1>2, <1>3, <1>4, <1>5, <2>1, <3>2, <3>3
  <2>2. CASE ~(Applies(c) /\ ~opts.dry)
    BY <1>1, <1>2, <1>5, <2>2
  <2> QED
    BY <2>1, <2>2
<1>7. TInv'
  <2>1. /\ at' \in [phase : {"checks", "plan", "clean", "rollback"}, i : 1..14]
        /\ at'.phase \in {"clean", "rollback"} /\ at'.i \in 1..4
    BY <1>1
  <2>2. TypeOK'
    BY <1>1, <1>6, <2>1 DEF PInv, TInv, TypeOK
  <2> QED
    BY <1>1, <1>6, <2>1, <2>2 DEF TInv, Within, Places
<1>8. Progress'
  <2>1. CASE at.phase = "rollback" \/ opts.dry
    BY <1>1, <2>1 DEF Progress
  <2>2. CASE at.phase = "clean" /\ ~opts.dry
    <3>1. /\ Apt => disk.deps /\ disk.list.llvm > start.list.llvm
          /\ disk.prefix = "whole" /\ disk.found
          /\ at.i > 1 => ~disk.zip
          /\ at.i > 2 => ~disk.dir
      BY <1>1, <2>2 DEF PInv, Progress
    <3>2. /\ disk'.deps = disk.deps /\ disk'.prefix = disk.prefix /\ disk'.found = disk.found
          /\ c # "rmZip" => disk'.zip = disk.zip
          /\ c # "rmDir" => disk'.dir = disk.dir
      BY <1>1, <1>2, <1>3, DoneRest
    <3>3. c = "rmZip" => ~disk'.zip
      BY <1>1, <1>2, <1>4, <2>2, DoneRest
    <3>4. c = "rmDir" => ~disk'.dir
      BY <1>1, <1>2, <1>4, <2>2, DoneRest
    <3>5. ~disk'.zip
      BY <1>1, <1>3, <3>1, <3>2, <3>3
    <3>6. at.i >= 2 => ~disk'.dir
      BY <1>1, <1>3, <3>1, <3>2, <3>4
    <3>7. at'.i > 2 => at.i >= 2
      BY <1>1
    <3>8. Apt' <=> Apt
      BY <1>1 DEF Apt
    <3> QED
      BY <1>1, <1>6, <2>2, <3>1, <3>2, <3>5, <3>6, <3>7, <3>8 DEF Progress
  <2> QED
    BY <1>1, <2>1, <2>2
<1>9. Asked'
  BY <1>1, AskedOn DEF PInv
<1> QED
  BY <1>1, <1>7, <1>8, <1>9 DEF PInv, InstalledComplete

\* A command of the clean-up fails.
LEMMA SweepFailsStays ==
  ASSUME PInv, SweepFails
  PROVE  PInv'
<1>1. /\ status = "running" /\ status' = status /\ at.phase \in {"clean", "rollback"}
      /\ UNCHANGED <<sys, disk, opts, start, yes, runs>>
      /\ at' = [phase |-> "rollback", i |-> 1]
  BY DEF SweepFails, Sweeping, Running, Goto
<1>2. TypeOK'
  BY <1>1 DEF PInv, TInv, TypeOK
<1>3. Within' /\ Places'
  BY <1>1 DEF PInv, TInv, Within, Places
<1>4. Progress'
  BY <1>1 DEF Progress
<1>5. Asked'
  BY <1>1, AskedOn DEF PInv
<1> QED
  BY <1>1, <1>2, <1>3, <1>4, <1>5 DEF PInv, TInv, InstalledComplete

\* The script is at its end.
LEMMA FinishStays ==
  ASSUME PInv, Finish
  PROVE  PInv'
<1>1. /\ status = "running" /\ at.phase \in {"clean", "rollback"} /\ at.i > 3
      /\ status' = IF at.phase = "clean" THEN "installed" ELSE "aborted"
      /\ UNCHANGED <<sys, disk, opts, start, yes, runs, at>>
  BY DEF Finish, Sweeping, Running, Sweeps
<1>2. TypeOK'
  BY <1>1 DEF PInv, TInv, TypeOK
<1>3. Within' /\ Places'
  BY <1>1 DEF PInv, TInv, Within, Places
<1>4. InstalledComplete'
  <2>1. at.i > 1 /\ at.i > 2
    BY <1>1 DEF PInv, TInv, Places
  <2> QED
    BY <1>1, <2>1 DEF PInv, Progress, InstalledComplete, Apt
<1> QED
  BY <1>1, <1>2, <1>3, <1>4 DEF PInv, TInv

\* The user ends the script.
LEMMA KillStays ==
  ASSUME PInv, Kill
  PROVE  PInv'
<1>1. /\ status = "running" /\ status' = "killed"
      /\ UNCHANGED <<sys, opts, start, yes, runs, at>>
      /\ disk' = disk \/ (at.phase = "plan" /\ disk' \in Broken(Plan[at.i]))
  BY DEF Kill, Running, Command
<1>2. disk' \in Disks /\ disk'.list.llvm <= runs /\ disk'.bak.llvm <= runs
  <2>1. CASE disk' = disk
    BY <2>1 DEF PInv, TInv, TypeOK, Within
  <2> QED
    BY <1>1, <2>1, BrokenStays
<1>3. TypeOK'
  BY <1>1, <1>2 DEF PInv, TInv, TypeOK
<1>4. Within' /\ Places'
  BY <1>1, <1>2 DEF PInv, TInv, Within, Places
<1> QED
  BY <1>1, <1>3, <1>4 DEF PInv, TInv, InstalledComplete

\* The user changes sources.list.
LEMMA EditStays ==
  ASSUME PInv, Edit
  PROVE  PInv'
<1> DEFINE l == [disk.list EXCEPT !.rev = @ + 1]
<1>1. /\ status # "running" /\ disk \in Disks /\ disk.list.rev < MaxRev
      /\ UNCHANGED <<sys, status, at, opts, yes, start, runs>>
      /\ disk' = [disk EXCEPT !.list = l]
  BY DEF PInv, TInv, TypeOK, Edit, Disks
<1>2. l \in Lists /\ l.llvm = disk.list.llvm
  <2>1. disk.list \in Lists
    BY <1>1 DEF Disks
  <2> QED
    BY <1>1, <2>1, BoundsAssumption DEF Lists
<1> HIDE DEF l
<1>3. /\ disk' \in Disks /\ disk'.list.llvm = disk.list.llvm /\ disk'.bak = disk.bak
      /\ disk'.prefix = disk.prefix /\ disk'.found = disk.found /\ disk'.zip = disk.zip
      /\ disk'.dir = disk.dir /\ disk'.deps = disk.deps
  BY <1>1, <1>2 DEF Disks
<1>4. TypeOK'
  BY <1>1, <1>3 DEF PInv, TInv, TypeOK
<1>5. Within' /\ Places'
  BY <1>1, <1>3 DEF PInv, TInv, Within, Places
<1>6. InstalledComplete'
  BY <1>1, <1>3 DEF PInv, InstalledComplete, Apt
<1> QED
  BY <1>1, <1>4, <1>5, <1>6 DEF PInv, TInv

\* Every step keeps what the theorems below are read off from.
LEMMA PInvAlways == Spec => []PInv
<1>1. PInv /\ [Next]_vars => PInv'
  <2> SUFFICES ASSUME PInv, [Next]_vars PROVE PInv'
    OBVIOUS
  <2>1. CASE UNCHANGED vars
    <3>1. UNCHANGED <<sys, disk, status, at, opts, yes, failed, start, runs>>
      BY <2>1 DEF vars
    <3>2. TInv'
      BY <3>1 DEF PInv, TInv, TypeOK, Within, Places
    <3>3. Progress' <=> Progress
      BY <3>1 DEF Progress, Apt
    <3>4. Asked' <=> Asked
      BY <3>1 DEF Asked, Past, TooOld, Least
    <3>5. InstalledComplete'
      BY <3>1 DEF PInv, InstalledComplete, Apt
    <3> QED
      BY <3>1, <3>2, <3>3, <3>4, <3>5 DEF PInv
  <2>2. CASE Script
    BY <2>2, CheckStays, RefuseStays, ExecuteStays, FailStays, SweepStays, SweepFailsStays, FinishStays
       DEF Script
  <2> QED
    BY <2>1, <2>2, StartStays, KillStays, EditStays DEF Next, Stop
<1> QED
  BY <1>1, PInvInit, PTL DEF Spec

(* On every machine and in any number of runs the variables stay in their      *)
(* ranges: sources.list is always there, and never has more lines of LLVM      *)
(* than there were runs of the script.                                         *)
THEOREM InstallerTypes == Spec => []TypeOK
<1>1. PInv => TypeOK
  BY DEF PInv, TInv
<1> QED
  BY <1>1, PInvAlways, PTL

(* "Installed. Enjoy!" is said, on every machine and after whatever earlier    *)
(* runs have left, only where everything was copied and a scopc is found.      *)
THEOREM Complete == Spec => []InstalledComplete
<1>1. PInv => InstalledComplete
  BY DEF PInv
<1> QED
  BY <1>1, PInvAlways, PTL

(* For every version a system may report, of whatever length: no command runs  *)
(* before the user has agreed to each trouble that the checks must see.        *)
THEOREM Unasked == Spec => []NothingUnasked
<1>1. PInv => NothingUnasked
  <2> SUFFICES ASSUME PInv, status = "running", at.phase # "checks"
               PROVE  NothingUnasked!2
    BY DEF NothingUnasked
  <2>1. Asked /\ Past(2) /\ Past(3) /\ Past(5) /\ Past(7) /\ sys \in Systems
    BY DEF PInv, TInv, TypeOK, Past
  <2> QED
    BY <2>1, OldFound DEF Asked
<1> QED
  BY <1>1, PInvAlways, PTL

(* A dry run changes nothing: neither the commands, nor a clean-up, nor a      *)
(* signal in the middle of one.                                                *)
THEOREM DryRun == Spec => DryRunHarmless
<1>1. [Next]_vars => (status = "running" /\ opts.dry => disk' = disk)
  <2> SUFFICES ASSUME [Next]_vars, status = "running", opts.dry PROVE disk' = disk
    OBVIOUS
  <2>1. CASE Pass \/ Answer \/ Refuse
    BY <2>1 DEF Pass, Answer, Refuse, Checking
  <2>2. CASE Execute \/ Fail
    BY <2>2 DEF Execute, Fail, Executes
  <2>3. CASE Sweep \/ SweepFails \/ Finish
    BY <2>3 DEF Sweep, SweepFails, Finish, Executes
  <2>4. CASE Kill
    BY <2>4 DEF Kill, Executes
  <2>5. CASE Start \/ Edit
    BY <2>5 DEF Start, Edit
  <2> QED
    BY <2>1, <2>2, <2>3, <2>4, <2>5 DEF Next, Script, Stop, vars
<1> QED
  BY <1>1, PTL DEF Spec, DryRunHarmless


=============================================================================
