---------------------------- MODULE DriverProofs ----------------------------
(***************************************************************************)
(* What scopc keeps for any number of compilers, output paths, temporary   *)
(* names and jobs.  The inductive invariant says which file each stage of  *)
(* a compiler owns: the names mkstemp made are apart, so nothing that      *)
(* another compiler writes reaches the file that llc or clang reads next.  *)
(***************************************************************************)
EXTENDS Driver, TLAPS

\* Every file name has contents, and there is one of each path per compiler.
Shape == /\ DOMAIN files = Names
         /\ used \subseteq Temps
         /\ pc \in [Procs -> {"cli", "parse", "translate", "emit", "asm", "llc", "clang", "exited"}]
         /\ ir \in [Procs -> Names] /\ as \in [Procs -> Names]
         /\ exit \in [Procs -> 0..Running]
         /\ \A p \in Procs : job[p] \in Jobs[p]
         /\ \A f \in Names : files[f].kind \in {"none", "ast", "ir", "asm", "obj"}

\* A compiler gets to a stage only with what the stages before let through.
Passed ==
  \A p \in Procs :
    /\ pc[p] \notin {"cli", "exited"} => job[p].cli = "run" /\ job[p].opens
    /\ pc[p] \in {"translate", "emit", "asm", "llc", "clang"} =>
         job[p].front # "parse" /\ job[p].type # "ast"
    /\ pc[p] \in {"emit", "asm", "llc", "clang"} => job[p].front = "ok"
    /\ pc[p] \in {"asm", "llc", "clang"} => job[p].type \in {"asm", "obj"}
    /\ pc[p] = "clang" => job[p].type = "obj"

\* irpath and asmpath are the output, or a name mkstemp made for this compiler.
OwnNames ==
  \A p \in Procs : /\ ir[p] = Out(job[p].out) \/ \E t \in used : ir[p] = <<t, ".ll">>
                   /\ \/ as[p] = Out(job[p].out)
                      \/ /\ pc[p] \in {"llc", "clang", "exited"} /\ job[p].type # "asm"
                         /\ \E t \in used : as[p] = <<t, ".s">>
                   /\ pc[p] \in {"asm", "llc", "clang"} => \E t \in used : ir[p] = <<t, ".ll">>
                   /\ pc[p] \in {"llc", "clang"} /\ job[p].type = "obj" => \E t \in used : as[p] = <<t, ".s">>

\* No two compilers have the same temporary file.
Apart ==
  \A p, q \in Procs : p # q => /\ ir[p] = ir[q] => ir[p][2] = ""
                               /\ as[p] = as[q] => as[p][2] = ""

\* The assembly file of a name that is still free has not been written.
FreshFiles == \A t \in Temps \ used : files[<<t, ".s">>].kind # "asm"

\* What llc and clang read was made from the source of their own compiler.
OwnFiles ==
  \A p \in Procs :
    /\ pc[p] \in {"asm", "llc"} => files[ir[p]].src = job[p].src
    /\ pc[p] \in {"llc", "clang"} /\ job[p].type = "obj" /\ files[as[p]].kind = "asm" =>
         files[as[p]].src = job[p].src

DInv == Shape /\ Passed /\ OwnNames /\ Apart /\ FreshFiles /\ OwnFiles /\ OutputFromSource /\ RefusalReported

----------------------------------------------------------------------------
\* What a job of the compiler p can be.
LEMMA JobFacts ==
  ASSUME \A p \in Procs : job[p] \in Jobs[p], NEW p \in Procs
  PROVE  /\ job[p].cli \in {"help", "version", "usage", "run"}
         /\ job[p].front \in {"parse", "translate", "entry", "verify", "ok"}
         /\ job[p].type \in Types
         /\ job[p].out \in Paths
         /\ Out(job[p].out) \in Names
<1>1. job[p] \in Job
  BY JobsAssumption
<1> QED
  BY <1>1 DEF Job, Out, Names

\* Names with different suffixes, or of different files, are different.
LEMMA NamesApart ==
  \A a, b : /\ <<a, ".ll">> # Out(b) /\ <<a, ".s">> # Out(b) /\ <<a, ".ll">> # <<b, ".s">>
            /\ <<a, ".ll">> = <<b, ".ll">> => a = b
            /\ <<a, ".s">> = <<b, ".s">> => a = b
            /\ Out(a) = Out(b) => a = b
BY DEF Out

\* The names of temporary files and of outputs are names of files.
LEMMA NamesOf ==
  /\ \A t \in Temps : <<t, ".ll">> \in Names /\ <<t, ".s">> \in Names
  /\ \A o \in Paths : Out(o) \in Names
BY DEF Names, Out

\* Writing changes no other file, and a file that is not the output for sure.
LEMMA WriteFacts ==
  ASSUME DOMAIN files = Names, NEW p, NEW f \in Names, NEW c, Write(p, f, c)
  PROVE  /\ DOMAIN files' = Names
         /\ \A g \in Names : g # f => files'[g] = files[g]
         /\ files'[f] = c \/ files'[f] = files[f]
         /\ f # Out(job[p].out) => files'[f] = c
BY DEF Write

\* The byte of a small negative value.
LEMMA BelowZero == \A n \in 1..255 : (-n) % 256 = 256 - n
OBVIOUS

\* The value main returns reaches the parent as a byte; -1 does not become zero.
LEMMA ExitFacts ==
  /\ ExitStatus(0) = 0 /\ ExitStatus(1) = 1 /\ ExitStatus(-1) = 255
  /\ ExitStatus(1 * 256) = 0 /\ ExitStatus(11) = 11
<1>1. (-1) % 256 = 255
  BY BelowZero
<1> QED
  BY <1>1 DEF ExitStatus

\* A step of p that writes no file and makes no name keeps all that is said of files.
LEMMA QuietStep ==
  ASSUME DInv, NEW p \in Procs, NEW l, pc' = [pc EXCEPT ![p] = l], pc[p] \in {"cli", "parse", "translate"} \/ l = "exited",
         l \in {"parse", "translate", "emit", "exited"},
         exit' \in [Procs -> 0..Running], UNCHANGED <<job, ir, as, files, used>>
  PROVE  Shape' /\ OwnNames' /\ Apart' /\ FreshFiles' /\ OwnFiles' /\ OutputFromSource'
<1> USE DEF DInv, Shape
<1>1. \A q \in Procs : \/ pc'[q] = pc[q]
                       \/ pc'[q] \notin {"asm", "llc", "clang"} /\ pc[q] \notin {"llc", "clang", "exited"}
                       \/ pc'[q] = "exited"
  <2>1. pc'[p] = l /\ \A q \in Procs : q # p => pc'[q] = pc[q]
    OBVIOUS
  <2> QED
    BY <2>1
<1>2. OwnNames'
  BY <1>1 DEF OwnNames
<1>3. OwnFiles'
  BY <1>1 DEF OwnFiles
<1>4. Shape'
  OBVIOUS
<1>5. Apart' /\ FreshFiles'
  BY DEF Apart, FreshFiles
<1>6. OutputFromSource'
  BY DEF OutputFromSource
<1> QED
  BY <1>2, <1>3, <1>4, <1>5, <1>6

\* A compiler of an accepted program writes its output and ends.
LEMMA OutputStep ==
  ASSUME DInv, NEW p \in Procs, NEW c, c.kind = job[p].type, c.src = job[p].src,
         ~Rejected(job[p]), Write(p, Out(job[p].out), c), Exit(p, 0),
         UNCHANGED <<job, ir, as, used>>
  PROVE  DInv'
<1>a. /\ Shape /\ Passed /\ OwnNames /\ Apart /\ FreshFiles /\ OwnFiles
      /\ OutputFromSource /\ RefusalReported
  BY DEF DInv
<1>b. /\ DOMAIN files = Names /\ used \subseteq Temps /\ \A q \in Procs : job[q] \in Jobs[q]
      /\ UNCHANGED <<job, ir, as, used>>
  BY <1>a DEF Shape
<1> DEFINE f == Out(job[p].out)
<1>1. pc' = [pc EXCEPT ![p] = "exited"] /\ exit' \in [Procs -> 0..Running]
  BY <1>a, ExitFacts DEF Exit, Running, Shape
<1>2. c.kind \in {"none", "ast", "ir", "asm", "obj"}
  BY <1>b, JobFacts DEF Types
<1>3. f \in Names /\ DOMAIN files' = Names /\ (\A g \in Names : g # f => files'[g] = files[g])
        /\ (files'[f] = c \/ files'[f] = files[f])
  BY <1>b, JobFacts, WriteFacts
<1>4. \A t \in Temps : /\ <<t, ".s">> \in Names /\ files'[<<t, ".s">>] = files[<<t, ".s">>]
                       /\ <<t, ".ll">> \in Names /\ files'[<<t, ".ll">>] = files[<<t, ".ll">>]
  <2> SUFFICES ASSUME NEW t \in Temps, NEW x \in {".s", ".ll"}
               PROVE  <<t, x>> \in Names /\ files'[<<t, x>>] = files[<<t, x>>]
    OBVIOUS
  <2>1. <<t, x>> \in Names /\ <<t, x>> # f
    BY NamesOf, NamesApart
  <2> QED
    BY <1>3, <2>1
<1>5. \A o \in Paths : Out(o) \in Names /\ (o # job[p].out => files'[Out(o)] = files[Out(o)])
  BY <1>3, NamesOf, NamesApart
<1>6. \A q \in Procs : pc'[q] # "exited" => pc'[q] = pc[q]
  BY <1>a, <1>1 DEF Shape
<1>7. Shape'
  <2>1. \A g \in Names : files'[g].kind \in {"none", "ast", "ir", "asm", "obj"}
    BY <1>a, <1>2, <1>3 DEF Shape
  <2> QED
    BY <1>a, <1>b, <1>1, <1>3, <2>1 DEF Shape
<1>8. Passed'
  BY <1>a, <1>b, <1>6 DEF Passed
<1>9. OwnNames' /\ Apart'
  <2>1. Apart'
    BY <1>a, <1>b DEF Apart
  <2> SUFFICES ASSUME NEW q \in Procs
               PROVE  OwnNames!(q)'
    BY <2>1 DEF OwnNames
  <2>2. job' = job /\ ir' = ir /\ as' = as /\ used' = used /\ OwnNames!(q)
    BY <1>a, <1>b DEF OwnNames
  <2>3. pc'[q] # "exited" => pc'[q] = pc[q]
    BY <1>6
  <2>4. CASE pc'[q] = "exited"
    BY <2>2, <2>4, <1>8, <1>a, <1>1, <1>3, <1>b DEF Shape
  <2>5. CASE pc'[q] = pc[q]
    BY <2>2, <2>5
  <2> QED
    BY <2>3, <2>4, <2>5
<1>10. FreshFiles'
  BY <1>a, <1>b, <1>4 DEF FreshFiles
<1>11. OwnFiles'
  <2> SUFFICES ASSUME NEW q \in Procs
               PROVE  OwnFiles!(q)'
    BY DEF OwnFiles
  <2>1. CASE pc'[q] \in {"asm", "llc", "clang"}
    <3>0. job' = job /\ ir' = ir /\ as' = as /\ OwnFiles!(q)
      BY <1>a, <1>b DEF OwnFiles
    <3>1. pc'[q] = pc[q] /\ job[q].type \in {"asm", "obj"}
      BY <1>a, <1>6, <2>1 DEF Passed
    <3>2. files'[ir[q]] = files[ir[q]]
      <4>1. \E t \in used : ir[q] = <<t, ".ll">>
        BY <1>a, <2>1, <3>1 DEF OwnNames
      <4>2. PICK t \in Temps : ir[q] = <<t, ".ll">>
        BY <1>b, <4>1
      <4>3. files'[<<t, ".ll">>] = files[<<t, ".ll">>]
        BY <1>4
      <4> QED
        BY <4>2, <4>3, Zenon
    <3>3. CASE pc'[q] \in {"llc", "clang"} /\ job[q].type = "obj"
      <4>1. files'[as[q]] = files[as[q]]
        <5>1. \E t \in used : as[q] = <<t, ".s">>
          BY <1>a, <3>1, <3>3 DEF OwnNames
        <5>2. PICK t \in Temps : as[q] = <<t, ".s">>
          BY <1>b, <5>1
        <5>3. files'[<<t, ".s">>] = files[<<t, ".s">>]
          BY <1>4
        <5> QED
          BY <5>2, <5>3, Zenon
      <4> QED
        BY <3>0, <3>1, <3>2, <4>1
    <3> QED
      BY <3>0, <3>1, <3>2, <3>3
  <2> QED
    BY <2>1
<1>12. OutputFromSource'
  <2> SUFFICES ASSUME NEW o \in Paths
               PROVE  OutputFromSource!(o)'
    BY DEF OutputFromSource
  <2>1. CASE files'[Out(o)] = files[Out(o)]
    BY <1>a, <1>b, <2>1 DEF OutputFromSource
  <2>2. CASE o = job[p].out /\ files'[Out(o)] = c
    BY <1>b, <2>2
  <2> QED
    BY <1>3, <1>5, <2>1, <2>2
<1>13. RefusalReported'
  BY <1>a, <1>b DEF RefusalReported, Exit, Shape
<1> QED
  BY <1>7, <1>8, <1>9, <1>10, <1>11, <1>12, <1>13 DEF DInv

\* The command line and the input file.
LEMMA CliInv ==
  ASSUME DInv, NEW p \in Procs, Cli(p)
  PROVE  DInv'
<1> USE DEF DInv, Shape
<1>1. PICK l \in {"parse", "exited"} : pc' = [pc EXCEPT ![p] = l]
  BY DEF Cli, Exit, Go
<1>2. exit' \in [Procs -> 0..Running]
  BY ExitFacts DEF Cli, Exit, Go, Running
<1>3. Passed'
  BY <1>1, JobFacts DEF Cli, Exit, Go, Passed
<1>4. RefusalReported'
  BY JobFacts, ExitFacts DEF Cli, Exit, Go, RefusalReported, Rejected, Running
<1> QED
  BY <1>1, <1>2, <1>3, <1>4, QuietStep DEF Cli

\* translateAST, createMainRet and verify.
LEMMA TranslateInv ==
  ASSUME DInv, NEW p \in Procs, Translate(p)
  PROVE  DInv'
<1> USE DEF DInv, Shape
<1>1. PICK l \in {"emit", "exited"} : pc' = [pc EXCEPT ![p] = l]
  BY DEF Translate, Exit, Go
<1>2. exit' \in [Procs -> 0..Running]
  BY ExitFacts DEF Translate, Exit, Go, Running
<1>3. Passed'
  BY <1>1, JobFacts DEF Translate, Refused, Exit, Go, Passed
<1>4. RefusalReported'
  BY ExitFacts DEF Translate, Exit, Go, RefusalReported, Rejected
<1> QED
  BY <1>1, <1>2, <1>3, <1>4, QuietStep DEF Translate

\* Parsing; with -t ast the printed program is the output.
LEMMA ParseInv ==
  ASSUME DInv, NEW p \in Procs, Parse(p)
  PROVE  DInv'
<1> USE DEF DInv, Shape
<1>1. PICK l \in {"translate", "exited"} : pc' = [pc EXCEPT ![p] = l]
  BY DEF Parse, Exit, Go
<1>2. exit' \in [Procs -> 0..Running]
  BY ExitFacts DEF Parse, Exit, Go, Running
<1>3. Passed'
  BY <1>1, JobFacts DEF Parse, Exit, Go, Passed
<1>4. RefusalReported'
  BY ExitFacts DEF Parse, Exit, Go, RefusalReported, Rejected
<1>5. CASE UNCHANGED files
  BY <1>1, <1>2, <1>3, <1>4, <1>5, QuietStep DEF Parse
<1>6. CASE /\ job[p].front # "parse" /\ job[p].type = "ast" /\ Exit(p, 0)
           /\ Write(p, Out(job[p].out), File("ast", job[p].src))
  BY <1>6, OutputStep DEF Parse, File, Rejected
<1> QED
  BY <1>5, <1>6 DEF Parse

\* The IR goes to the output, or to a file whose name nobody else has.
LEMMA EmitIRInv ==
  ASSUME DInv, NEW p \in Procs, EmitIR(p)
  PROVE  DInv'
<1>a. /\ Shape /\ Passed /\ OwnNames /\ Apart /\ FreshFiles /\ OwnFiles
      /\ OutputFromSource /\ RefusalReported
  BY DEF DInv
<1>1. CASE /\ job[p].type = "ir" /\ Write(p, Out(job[p].out), File("ir", job[p].src))
           /\ Exit(p, 0) /\ UNCHANGED <<ir, used>>
  BY <1>a, <1>1, OutputStep DEF EmitIR, File, Rejected, Passed
<1>2. ASSUME NEW t \in TmpFiles, job[p].type # "ir", ir' = [ir EXCEPT ![p] = <<t, ".ll">>],
             used' = used \cup {t}, Write(p, <<t, ".ll">>, File("ir", job[p].src)), Go(p, "asm")
      PROVE  DInv'
  <2> DEFINE f == <<t, ".ll">>
  <2>1. t \in Temps /\ t \notin used /\ f \in Names /\ f # Out(job[p].out)
    BY <1>a DEF TmpFiles, Names, Out
  <2>2. DOMAIN files' = Names /\ (\A g \in Names : g # f => files'[g] = files[g])
          /\ files'[f] = File("ir", job[p].src)
    <3>1. DOMAIN files = Names /\ Write(p, f, File("ir", job[p].src))
      BY <1>a, <1>2 DEF Shape
    <3> HIDE DEF f
    <3> QED
      BY <2>1, <3>1, WriteFacts
  <2>3. files'[f].kind = "ir" /\ files'[f].src = job[p].src
    BY <2>2 DEF File
  <2>4. UNCHANGED <<job, as, exit>> /\ pc' = [pc EXCEPT ![p] = "asm"] /\ pc[p] = "emit"
    BY <1>2 DEF EmitIR, Go
  <2>5. /\ ir'[p] = f /\ pc'[p] = "asm"
        /\ \A q \in Procs : q # p => ir'[q] = ir[q] /\ pc'[q] = pc[q]
    BY <1>a, <1>2, <2>4 DEF Shape
  <2>b. \A q \in Procs : job[q].type \in Types /\ ir[q] \in Names /\ as[q] \in Names
    BY <1>a, JobFacts DEF Shape
  <2>6. \A q \in Procs : ir[q] # f /\ as[q] # f
    <3> SUFFICES ASSUME NEW q \in Procs
                 PROVE  ir[q] # f /\ as[q] # f
      OBVIOUS
    <3>1. ir[q] = Out(job[q].out) \/ \E u \in used : ir[q] = <<u, ".ll">>
      BY <1>a DEF OwnNames
    <3>2. as[q] = Out(job[q].out) \/ \E u \in used : as[q] = <<u, ".s">>
      BY <1>a DEF OwnNames
    <3> QED
      BY <2>1, <3>1, <3>2, NamesApart
  <2>7. Shape'
    BY <1>a, <1>2, <2>1, <2>2, <2>3, <2>4 DEF Shape
  <2>8. Passed'
    <3> SUFFICES ASSUME NEW q \in Procs
                 PROVE  Passed!(q)'
      BY DEF Passed
    <3>0. job' = job /\ Passed!(q)
      BY <1>a, <2>4 DEF Passed
    <3>1. CASE q = p
      <4>1. pc'[q] = "asm" /\ pc[q] = "emit" /\ job[q].type # "ir" /\ job[q].type \in Types
        BY <1>2, <2>4, <2>5, <2>b, <3>1
      <4> QED
        BY <3>0, <4>1 DEF Types
    <3>2. CASE q # p
      <4>1. pc'[q] = pc[q]
        BY <2>5, <3>2
      <4> QED
        BY <3>0, <4>1
    <3> QED
      BY <3>1, <3>2
  <2>9. OwnNames'
    <3> SUFFICES ASSUME NEW q \in Procs
                 PROVE  OwnNames!(q)'
      BY DEF OwnNames
    <3>0. job' = job /\ as' = as /\ OwnNames!(q) /\ used \subseteq used' /\ t \in used'
      BY <1>a, <1>2, <2>4 DEF OwnNames
    <3>1. CASE q = p
      <4>1. ir'[q] = f /\ pc'[q] = "asm" /\ pc[q] = "emit"
        BY <2>4, <2>5, <3>1
      <4> QED
        BY <3>0, <4>1
    <3>2. CASE q # p
      <4>1. ir'[q] = ir[q] /\ pc'[q] = pc[q]
        BY <2>5, <3>2
      <4> QED
        BY <3>0, <4>1
    <3> QED
      BY <3>1, <3>2
  <2>10. Apart'
    <3> SUFFICES ASSUME NEW x \in Procs, NEW y \in Procs, x # y
                 PROVE  Apart!(x, y)'
      BY DEF Apart
    <3>1. as'[x] = as'[y] => as'[x][2] = ""
      BY <1>a, <2>4 DEF Apart
    <3>2. CASE x # p /\ y # p
      <4>1. ir'[x] = ir[x] /\ ir'[y] = ir[y]
        BY <2>5, <3>2
      <4>2. ir[x] = ir[y] => ir[x][2] = ""
        BY <1>a DEF Apart
      <4> QED
        BY <3>1, <4>1, <4>2
    <3>3. CASE x = p \/ y = p
      BY <2>5, <2>6, <3>1, <3>3
    <3> QED
      BY <3>2, <3>3
  <2>11. FreshFiles'
    BY <1>a, <1>2, <2>2, NamesApart, NamesOf DEF FreshFiles
  <2>12. OwnFiles'
    <3>1. \A q \in Procs : files'[as[q]] = files[as[q]] /\ files'[ir[q]] = files[ir[q]]
      BY <2>2, <2>6, <2>b
    <3> SUFFICES ASSUME NEW q \in Procs
                 PROVE  OwnFiles!(q)'
      BY DEF OwnFiles
    <3>2. CASE q = p
      BY <2>3, <2>4, <2>5, <3>2
    <3>3. CASE q # p
      <4>1. /\ job' = job /\ pc'[q] = pc[q]
            /\ files'[ir'[q]] = files[ir[q]] /\ files'[as'[q]] = files[as[q]]
        BY <2>4, <2>5, <3>1, <3>3
      <4>2. OwnFiles!(q)
        BY <1>a DEF OwnFiles
      <4> QED
        BY <4>1, <4>2
    <3> QED
      BY <3>2, <3>3
  <2>13. OutputFromSource'
    <3>1. \A o \in Paths : files'[Out(o)] = files[Out(o)]
      BY <2>2, NamesApart, NamesOf
    <3> QED
      BY <1>a, <2>4, <3>1 DEF OutputFromSource
  <2>14. RefusalReported'
    BY <1>a, <2>4 DEF RefusalReported
  <2> QED
    BY <2>7, <2>8, <2>9, <2>10, <2>11, <2>12, <2>13, <2>14 DEF DInv
<1> QED
  BY <1>1, <1>2 DEF EmitIR

\* The assembly goes to the output, or to a file whose name nobody else has.
LEMMA AsmPathInv ==
  ASSUME DInv, NEW p \in Procs, AsmPath(p)
  PROVE  DInv'
<1>a. /\ Shape /\ Passed /\ OwnNames /\ Apart /\ FreshFiles /\ OwnFiles
      /\ OutputFromSource /\ RefusalReported
  BY DEF DInv
<1>1. /\ UNCHANGED <<job, ir, files, exit>> /\ pc' = [pc EXCEPT ![p] = "llc"] /\ pc[p] = "asm"
      /\ \A q \in Procs : q # p => pc'[q] = pc[q]
  BY <1>a DEF AsmPath, Go, Shape
<1>2. Passed'
  BY <1>a, <1>1, JobFacts DEF Passed, Shape
<1>3. OutputFromSource'
  BY <1>a, <1>1 DEF OutputFromSource
<1>4. RefusalReported'
  BY <1>a, <1>1 DEF RefusalReported
<1>5. CASE job[p].type = "asm" /\ UNCHANGED <<as, used>>
  <2>1. Shape'
    BY <1>a, <1>1, <1>5 DEF Shape
  <2>2. OwnNames'
    BY <1>a, <1>1, <1>5 DEF OwnNames
  <2>3. Apart' /\ FreshFiles'
    BY <1>a, <1>1, <1>5 DEF Apart, FreshFiles
  <2>4. OwnFiles'
    BY <1>a, <1>1, <1>5 DEF OwnFiles
  <2> QED
    BY <1>2, <1>3, <1>4, <2>1, <2>2, <2>3, <2>4 DEF DInv
<1>6. ASSUME NEW t \in TmpFiles, job[p].type # "asm", as' = [as EXCEPT ![p] = <<t, ".s">>],
             used' = used \cup {t}
      PROVE  DInv'
  <2> DEFINE f == <<t, ".s">>
  <2>1. t \in Temps /\ t \notin used /\ f \in Names /\ files[f].kind # "asm"
    BY <1>a DEF TmpFiles, Names, FreshFiles
  <2>2. as'[p] = f /\ \A q \in Procs : q # p => as'[q] = as[q]
    BY <1>a, <1>6 DEF Shape
  <2>3. \A q \in Procs : as[q] # f
    BY <1>a, <2>1, NamesApart DEF OwnNames
  <2>4. Shape'
    BY <1>a, <1>1, <1>6, <2>1 DEF Shape
  <2>5. OwnNames'
    <3> SUFFICES ASSUME NEW q \in Procs
                 PROVE  OwnNames!(q)'
      BY DEF OwnNames
    <3>0. job' = job /\ ir' = ir /\ OwnNames!(q) /\ used \subseteq used' /\ t \in used'
      BY <1>a, <1>1, <1>6 DEF OwnNames
    <3>1. CASE q = p
      <4>1. as'[q] = f /\ pc'[q] = "llc" /\ pc[q] = "asm" /\ job[q].type # "asm"
        BY <1>a, <1>1, <1>6, <2>2, <3>1 DEF Shape
      <4> QED
        BY <3>0, <4>1
    <3>2. CASE q # p
      <4>1. as'[q] = as[q] /\ pc'[q] = pc[q]
        BY <1>1, <2>2, <3>2
      <4> QED
        BY <3>0, <4>1
    <3> QED
      BY <3>1, <3>2
  <2>6. Apart'
    <3> SUFFICES ASSUME NEW x \in Procs, NEW y \in Procs, x # y
                 PROVE  Apart!(x, y)'
      BY DEF Apart
    <3>1. ir'[x] = ir'[y] => ir'[x][2] = ""
      BY <1>a, <1>1 DEF Apart
    <3>2. CASE x # p /\ y # p
      <4>1. as'[x] = as[x] /\ as'[y] = as[y]
        BY <2>2, <3>2
      <4>2. as[x] = as[y] => as[x][2] = ""
        BY <1>a DEF Apart
      <4> QED
        BY <3>1, <4>1, <4>2
    <3>3. CASE x = p \/ y = p
      BY <2>2, <2>3, <3>1, <3>3
    <3> QED
      BY <3>2, <3>3
  <2>7. FreshFiles'
    BY <1>a, <1>1, <1>6 DEF FreshFiles
  <2>8. OwnFiles'
    <3> SUFFICES ASSUME NEW q \in Procs
                 PROVE  OwnFiles!(q)'
      BY DEF OwnFiles
    <3>0. job' = job /\ ir' = ir /\ files' = files /\ OwnFiles!(q)
      BY <1>a, <1>1 DEF OwnFiles
    <3>1. CASE q = p
      <4>1. pc[q] = "asm" /\ as'[q] = f
        BY <1>1, <2>2, <3>1
      <4> QED
        BY <2>1, <3>0, <4>1
    <3>2. CASE q # p
      <4>1. pc'[q] = pc[q] /\ as'[q] = as[q]
        BY <1>1, <2>2, <3>2
      <4> QED
        BY <3>0, <4>1
    <3> QED
      BY <3>1, <3>2
  <2> QED
    BY <1>2, <1>3, <1>4, <2>4, <2>5, <2>6, <2>7, <2>8 DEF DInv
<1> QED
  BY <1>5, <1>6 DEF AsmPath

\* A compiler of an accepted program that ends with its files as they are.
LEMMA EndStep ==
  ASSUME DInv, NEW p \in Procs, NEW n \in {0, -1, 1 * 256, 11}, Exit(p, n),
         ~Rejected(job[p]), UNCHANGED <<job, ir, as, files, used>>
  PROVE  DInv'
<1>1. pc' = [pc EXCEPT ![p] = "exited"] /\ exit' \in [Procs -> 0..Running]
  BY ExitFacts DEF Exit, Running, DInv, Shape
<1>2. Passed'
  BY <1>1 DEF Passed, DInv, Shape
<1>3. RefusalReported'
  BY DEF RefusalReported, Exit, DInv, Shape
<1> QED
  BY <1>1, <1>2, <1>3, QuietStep DEF DInv

\* llc reads this compiler's IR, and writes where only this compiler reads.
LEMMA LlcInv ==
  ASSUME DInv, NEW p \in Procs, Llc(p)
  PROVE  DInv'
<1>a. /\ Shape /\ Passed /\ OwnNames /\ Apart /\ FreshFiles /\ OwnFiles
      /\ OutputFromSource /\ RefusalReported
  BY DEF DInv
<1> DEFINE c == File("asm", files[ir[p]].src)
<1>1. c.kind = "asm" /\ c.src = job[p].src
  BY <1>a DEF Llc, OwnFiles, File
<1>2. ~Rejected(job[p]) /\ job[p].type \in {"asm", "obj"} /\ pc[p] = "llc"
  BY <1>a DEF Llc, Passed, Rejected
<1>3. CASE job[p].type = "asm"
  <2>1. as[p] = Out(job[p].out) /\ Exit(p, 0)
    BY <1>a, <1>3 DEF Llc, OwnNames
  <2> HIDE DEF c
  <2>2. CASE Write(p, as[p], c)
    BY <1>1, <1>2, <1>3, <2>1, <2>2, OutputStep DEF Llc
  <2>3. CASE UNCHANGED files
    BY <1>2, <2>1, <2>3, EndStep DEF Llc
  <2> QED
    BY <2>2, <2>3 DEF Llc, c
<1>4. CASE job[p].type = "obj"
  <2>1. PICK t \in used : as[p] = <<t, ".s">>
    BY <1>a, <1>2, <1>4 DEF OwnNames
  <2>2. /\ UNCHANGED <<job, ir, as, used, exit>> /\ pc' = [pc EXCEPT ![p] = "clang"]
        /\ pc'[p] = "clang" /\ \A q \in Procs : q # p => pc'[q] = pc[q]
    BY <1>a, <1>4 DEF Llc, Go, Shape
  <2>3. t \in Temps /\ as[p] \in Names /\ as[p] # Out(job[p].out)
    BY <1>a, <2>1, NamesApart, NamesOf DEF Shape
  <2>4. /\ DOMAIN files' = Names /\ \A g \in Names : g # as[p] => files'[g] = files[g]
        /\ files'[as[p]] = c \/ files'[as[p]] = files[as[p]]
    <3>1. DOMAIN files = Names
      BY <1>a DEF Shape
    <3>2. CASE Write(p, as[p], c)
      BY <2>3, <3>1, <3>2 DEF Write
    <3> QED
      BY <3>1, <3>2 DEF Llc
  <2> HIDE DEF c
  <2>5. Shape'
    BY <1>a, <1>1, <2>2, <2>3, <2>4 DEF Shape
  <2>6. Passed'
    BY <1>a, <1>2, <1>4, <2>2 DEF Passed
  <2>7. OwnNames'
    BY <1>a, <1>2, <1>4, <2>2 DEF OwnNames
  <2>8. Apart'
    BY <1>a, <2>2 DEF Apart
  <2>9. FreshFiles'
    <3>1. \A u \in Temps \ used : files'[<<u, ".s">>] = files[<<u, ".s">>]
      BY <2>1, <2>4, NamesApart, NamesOf
    <3> QED
      BY <1>a, <2>2, <3>1 DEF FreshFiles
  <2>10. OwnFiles'
    <3> SUFFICES ASSUME NEW q \in Procs
                 PROVE  OwnFiles!(q)'
      BY DEF OwnFiles
    <3>1. CASE q = p
      BY <1>a, <1>1, <1>2, <1>4, <2>2, <2>4, <3>1 DEF OwnFiles
    <3>2. CASE q # p
      <4>1. as[q] # as[p]
        <5>1. as[p][2] = ".s"
          BY <2>1
        <5> QED
          BY <1>a, <3>2, <5>1 DEF Apart
      <4>2. ir[q] # as[p]
        <5>1. ir[q] = Out(job[q].out) \/ \E u \in used : ir[q] = <<u, ".ll">>
          BY <1>a DEF OwnNames
        <5> QED
          BY <2>1, <5>1, NamesApart
      <4>3. files'[as[q]] = files[as[q]] /\ files'[ir[q]] = files[ir[q]]
        BY <1>a, <2>4, <4>1, <4>2 DEF Shape
      <4> QED
        BY <1>a, <2>2, <3>2, <4>3 DEF OwnFiles
    <3> QED
      BY <3>1, <3>2
  <2>11. OutputFromSource'
    <3>1. \A o \in Paths : files'[Out(o)] = files[Out(o)]
      BY <2>1, <2>4, NamesApart, NamesOf
    <3> QED
      BY <1>a, <2>2, <3>1 DEF OutputFromSource
  <2>12. RefusalReported'
    BY <1>a, <2>2 DEF RefusalReported
  <2> QED
    BY <2>5, <2>6, <2>7, <2>8, <2>9, <2>10, <2>11, <2>12 DEF DInv
<1> QED
  BY <1>2, <1>3, <1>4

\* clang links what this compiler's llc wrote, or fails.
LEMMA ClangInv ==
  ASSUME DInv, NEW p \in Procs, Clang(p)
  PROVE  DInv'
<1>1. ~Rejected(job[p]) /\ job[p].type = "obj" /\ pc[p] = "clang"
  BY DEF Clang, DInv, Passed, Rejected
<1>2. CASE files[as[p]].kind = "asm" /\ Exit(p, 0)
           /\ Write(p, Out(job[p].out), [File("obj", files[as[p]].src) EXCEPT !.libs = LinkerFlags(job[p].libs)])
  <2> DEFINE c == [File("obj", files[as[p]].src) EXCEPT !.libs = LinkerFlags(job[p].libs)]
  <2>1. c.kind = "obj" /\ c.src = files[as[p]].src
    BY DEF File
  <2>2. files[as[p]].src = job[p].src
    BY <1>1, <1>2 DEF DInv, OwnFiles
  <2>3. Write(p, Out(job[p].out), c)
    BY <1>2
  <2> HIDE DEF c
  <2> QED
    BY <1>1, <1>2, <2>1, <2>2, <2>3, OutputStep DEF Clang
<1>3. CASE UNCHANGED files /\ \E status \in {-1, 1 * 256, 11} : Exit(p, status)
  BY <1>1, <1>3, EndStep DEF Clang
<1> QED
  BY <1>2, <1>3 DEF Clang

\* The first states satisfy the invariant.
LEMMA DriverInit == Init => DInv
<1> SUFFICES ASSUME Init PROVE DInv
  OBVIOUS
<1>1. \A p \in Procs : job[p] \in Jobs[p]
  BY DEF Init
<1>2. \A p \in Procs : pc[p] = "cli" /\ ir[p] = Out(job[p].out) /\ as[p] = Out(job[p].out) /\ exit[p] = Running
  BY DEF Init
<1>3. used \subseteq Temps
  BY OldAssumption DEF Init
<1>4. Shape
  <2>1. \A p \in Procs : Out(job[p].out) \in Names
    BY <1>1, JobFacts
  <2>2. \A f \in Names : files[f] \in {File("ir", 0), File("obj", 0), NoFile}
    BY DEF Init
  <2>3. \A f \in Names : files[f].kind \in {"none", "ast", "ir", "asm", "obj"}
    BY <2>2 DEF File, NoFile
  <2>4. ir \in [Procs -> Names] /\ as \in [Procs -> Names]
    BY <2>1 DEF Init
  <2>5. DOMAIN files = Names
    BY DEF Init
  <2>6. exit \in [Procs -> 0..Running]
    <3>1. Running \in 0..Running
      BY DEF Running
    <3> QED
      BY <3>1 DEF Init
  <2> QED
    BY <1>1, <1>3, <2>3, <2>4, <2>5, <2>6 DEF Init, Shape
<1>5. Passed
  BY <1>2 DEF Passed
<1>6. OwnNames
  BY <1>2 DEF OwnNames
<1>a. OwnFiles
  BY <1>2 DEF OwnFiles
<1>b. RefusalReported
  <2>1. Running # 0
    BY DEF Running
  <2> QED
    BY <1>2, <2>1 DEF RefusalReported
<1>c. Apart
  <2>1. \A o : Out(o)[2] = ""
    BY DEF Out
  <2>2. \A p \in Procs : ir[p][2] = "" /\ as[p][2] = ""
    <3> SUFFICES ASSUME NEW p \in Procs PROVE ir[p][2] = "" /\ as[p][2] = ""
      OBVIOUS
    <3>1. ir[p] = Out(job[p].out) /\ as[p] = Out(job[p].out)
      BY <1>2
    <3>2. Out(job[p].out)[2] = ""
      BY <2>1
    <3> QED
      BY <3>1, <3>2, Zenon
  <2> QED
    BY <2>2 DEF Apart
<1>7. FreshFiles
  BY NamesOf DEF Init, FreshFiles, File, NoFile
<1>8. OutputFromSource
  BY NamesOf DEF Init, OutputFromSource, File, NoFile, Out
<1> QED
  BY <1>4, <1>5, <1>6, <1>7, <1>8, <1>a, <1>b, <1>c DEF DInv

\* Every step keeps the invariant.
LEMMA DriverStep == DInv /\ [Next]_vars => DInv'
<1> SUFFICES ASSUME DInv, [Next]_vars PROVE DInv'
  OBVIOUS
<1>1. ASSUME NEW p \in Procs, Step(p) PROVE DInv'
  BY <1>1, CliInv, ParseInv, TranslateInv, EmitIRInv, AsmPathInv, LlcInv, ClangInv DEF Step
<1>2. CASE UNCHANGED vars
  <2>1. UNCHANGED <<job, pc, ir, as, files, used, exit>>
    BY <1>2 DEF vars
  <2>2. Shape' /\ Passed'
    BY <2>1 DEF DInv, Shape, Passed
  <2>3. OwnNames' /\ Apart' /\ FreshFiles'
    BY <2>1 DEF DInv, OwnNames, Apart, FreshFiles
  <2>4. OwnFiles'
    BY <2>1 DEF DInv, OwnFiles
  <2>5. OutputFromSource' /\ RefusalReported'
    BY <2>1 DEF DInv, OutputFromSource, RefusalReported
  <2> QED
    BY <2>2, <2>3, <2>4, <2>5 DEF DInv
<1> QED
  BY <1>1, <1>2 DEF Next, Finished

\* The invariant that the theorems below are read off from.
LEMMA DriverInv == Spec => []DInv
BY DriverInit, DriverStep, PTL DEF Spec

\* Every variable stays in its range: a path handed to llc or clang is the name of
\* a file, and an exit status is a byte.
THEOREM DriverTypes == Spec => []TypeOK
<1>1. DInv => TypeOK
  BY DEF DInv, Shape, TypeOK
<1> QED
  BY <1>1, DriverInv, PTL

\* Whatever compilers run at the same time, and whatever names earlier ones have
\* left, what stands at an output path was there before or was made from the
\* source of an accepted program whose compiler was asked for just that.
THEOREM OutputsFromSource == Spec => []OutputFromSource
<1>1. DInv => OutputFromSource
  BY DEF DInv
<1> QED
  BY <1>1, DriverInv, PTL

\* A program the front end refuses never ends with a status of zero.
THEOREM RefusalsReported == Spec => []RefusalReported
<1>1. DInv => RefusalReported
  BY DEF DInv
<1> QED
  BY <1>1, DriverInv, PTL

=============================================================================
