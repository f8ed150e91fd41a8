------------------------- MODULE HeaderCacheProofs -------------------------
(* What holds of the header cache for any compilers, headers and programs.   *)
EXTENDS HeaderCache, TLAPS

\* Each structure returned is the module that is kept under its path.
KeptAsReturned == \A p \in Procs : \A s \in got[p] : loaded[p][s.of] = s.funs /\ s.funs # Missing

\* A file that a script has opened stays.
Opened == \A p \in Procs : pc[p] \in {"fill", "rest", "read"} => cache[Base[Wanted(p)]] # Missing

Inv == TypeOK /\ KeptAsReturned /\ Opened

\* The next import of a compiler that has one to do is of a header.
LEMMA WantedHeader ==
  ASSUME TypeOK, NEW p \in Procs, todo[p] # << >>
  PROVE  /\ Wanted(p) \in Headers /\ Tail(todo[p]) \in Seq(Headers)
         /\ Base[Wanted(p)] \in Files
         /\ Decls[Wanted(p)] \in SUBSET Funs
BY DeclsAssumption DEF TypeOK, Wanted, Files

\* A set of functions is not the mark of a missing file.
LEMMA FunsExist == ASSUME NEW c \in SUBSET Funs PROVE c # Missing
BY FunsAssumption DEF Missing

\* What may be in a file after a write is a set of functions.
LEMMA WrittenType ==
  ASSUME NEW f \in Files, NEW part \in SUBSET Funs, NEW h, cache[f] \in SUBSET Funs,
         NEW c \in Written(f, part, h)
  PROVE  c \in SUBSET Funs
BY DEF Written

\* The cache is empty or holds what earlier compilers left.
LEMMA InitHolds == Init => Inv
<1>. SUFFICES ASSUME Init PROVE Inv OBVIOUS
<1>1. TypeOK
  <2>1. loaded \in [Procs -> [Headers -> {Missing} \cup SUBSET Funs]] BY DEF Init
  <2>. QED  BY <2>1, WantsAssumption DEF Init, TypeOK
<1>2. KeptAsReturned /\ Opened BY DEF Init, KeptAsReturned, Opened
<1>. QED  BY <1>1, <1>2 DEF Inv

\* A step of the script of p that writes its file and leaves what is loaded alone.
LEMMA ScriptStep ==
  ASSUME Inv, NEW p \in Procs, todo[p] # << >>, NEW c \in SUBSET Funs, NEW l \in {"fill", "rest", "read"},
         cache' = [cache EXCEPT ![Base[Wanted(p)]] = c], pc' = [pc EXCEPT ![p] = l],
         put' \in [Procs -> SUBSET Funs], todo' = todo, loaded' = loaded, got' = got, failed' = failed
  PROVE  Inv'
<1>. USE DEF Inv
<1>1. Base[Wanted(p)] \in Files BY WantedHeader
<1>2. cache' \in [Files -> {Missing} \cup SUBSET Funs] BY <1>1 DEF TypeOK
<1>3. TypeOK' BY <1>2 DEF TypeOK
<1>4. KeptAsReturned' BY DEF KeptAsReturned
<1>5. Opened'
  <2>. SUFFICES ASSUME NEW q \in Procs, pc'[q] \in {"fill", "rest", "read"}
                PROVE  cache'[Base[Head(todo[q])]] # Missing
    BY DEF Opened, Wanted
  <2>1. todo[q] # << >> BY DEF TypeOK
  <2>2. Base[Head(todo[q])] \in Files BY <2>1, WantedHeader DEF Wanted
  <2>3. c # Missing BY FunsExist
  <2>4. CASE q = p BY <2>3, <2>4, <1>1 DEF TypeOK, Wanted
  <2>5. CASE q # p
    <3>1. cache[Base[Head(todo[q])]] # Missing BY <2>5 DEF Opened, TypeOK, Wanted
    <3>. QED  BY <3>1, <2>2, <2>3, <1>1 DEF TypeOK, Wanted
  <2>. QED  BY <2>4, <2>5
<1>. QED  BY <1>3, <1>4, <1>5

\* An import of the module kept under its path, or of the first one under it.
LEMMA ImportStep ==
  ASSUME Inv, NEW p \in Procs, todo[p] # << >>, NEW m \in SUBSET Funs, Import(p, Wanted(p), m),
         loaded[p][Wanted(p)] \in {m, Missing}
  PROVE  Inv'
<1>. USE DEF Inv
<1>. DEFINE h == Wanted(p)
<1>1. h \in Headers /\ Tail(todo[p]) \in Seq(Headers) BY WantedHeader
<1>2. m # Missing BY FunsExist
<1>3. /\ loaded' = [loaded EXCEPT ![p][h] = m]
      /\ got' = [got EXCEPT ![p] = @ \cup {[of |-> h, funs |-> m]}]
      /\ todo' = [todo EXCEPT ![p] = Tail(@)]
      /\ pc' = [pc EXCEPT ![p] = "idle"]
      /\ cache' = cache /\ put' = put /\ failed' = failed
  BY DEF Import, Go
<1>. HIDE DEF h
<1>4. [of |-> h, funs |-> m] \in Structure BY <1>1 DEF Structure
<1>5. TypeOK'
  <2>1. loaded' \in [Procs -> [Headers -> {Missing} \cup SUBSET Funs]] BY <1>3, <1>1 DEF TypeOK
  <2>2. got' \in [Procs -> SUBSET Structure] BY <1>3, <1>4 DEF TypeOK
  <2>3. todo' \in [Procs -> Seq(Headers)] /\ pc' \in [Procs -> {"idle", "fill", "rest", "read", "error"}]
    BY <1>1, <1>3 DEF TypeOK
  <2>4. \A q \in Procs : pc'[q] \in {"fill", "rest", "read"} => todo'[q] # << >> BY <1>3 DEF TypeOK
  <2>. QED  BY <1>3, <2>1, <2>2, <2>3, <2>4 DEF TypeOK
<1>6. KeptAsReturned'
  <2>. SUFFICES ASSUME NEW q \in Procs, NEW s \in got'[q]
                PROVE  loaded'[q][s.of] = s.funs /\ s.funs # Missing
    BY DEF KeptAsReturned
  <2>1. CASE s \in got[q]
    <3>1. loaded[q][s.of] = s.funs /\ s.funs # Missing /\ s.of \in Headers
      BY <2>1 DEF KeptAsReturned, TypeOK, Structure
    <3>2. CASE q = p /\ s.of = h BY <3>1, <3>2, <1>1, <1>3 DEF TypeOK, h
    <3>3. CASE ~(q = p /\ s.of = h) BY <3>1, <3>3, <1>1, <1>3 DEF TypeOK
    <3>. QED  BY <3>2, <3>3
  <2>2. CASE s \notin got[q]
    <3>1. q = p /\ s = [of |-> h, funs |-> m] BY <2>2, <1>3 DEF TypeOK
    <3>. QED  BY <3>1, <1>1, <1>2, <1>3 DEF TypeOK
  <2>. QED  BY <2>1, <2>2
<1>7. Opened' BY <1>3 DEF Opened, TypeOK, Wanted
<1>. QED  BY <1>5, <1>6, <1>7

\* Every step keeps the invariant.
LEMMA StepHolds == ASSUME Inv, [Next]_vars PROVE Inv'
<1>. USE DEF Inv
<1>1. ASSUME NEW p \in Procs, Truncate(p) PROVE Inv'
  <2>1. todo[p] # << >> BY <1>1 DEF Truncate
  <2>2. put' \in [Procs -> SUBSET Funs] BY <1>1 DEF Truncate, TypeOK
  <2>3. {} \in SUBSET Funs OBVIOUS
  <2>. QED  BY <1>1, <2>1, <2>2, <2>3, ScriptStep DEF Truncate, Go
<1>2. ASSUME NEW p \in Procs, Fill(p) PROVE Inv'
  <2>1. todo[p] # << >> /\ Wanted(p) \in Headers /\ Base[Wanted(p)] \in Files /\ Decls[Wanted(p)] \in SUBSET Funs
    BY <1>2, WantedHeader DEF Fill, TypeOK
  <2>2. cache[Base[Wanted(p)]] \in SUBSET Funs BY <1>2, <2>1 DEF Fill, TypeOK, Opened
  <2>3. PICK part \in SUBSET Decls[Wanted(p)] :
          /\ \E c \in Written(Base[Wanted(p)], part, Wanted(p)) : cache' = [cache EXCEPT ![Base[Wanted(p)]] = c]
          /\ put' = [put EXCEPT ![p] = part]
    BY <1>2 DEF Fill
  <2>4. PICK c \in Written(Base[Wanted(p)], part, Wanted(p)) : cache' = [cache EXCEPT ![Base[Wanted(p)]] = c]
    BY <2>3
  <2>5. c \in SUBSET Funs BY <2>1, <2>2, WrittenType
  <2>6. put' \in [Procs -> SUBSET Funs] BY <2>1, <2>3 DEF TypeOK
  <2>. QED  BY <1>2, <2>1, <2>4, <2>5, <2>6, ScriptStep DEF Fill, Go
<1>3. ASSUME NEW p \in Procs, Rest(p) PROVE Inv'
  <2>1. todo[p] # << >> /\ Wanted(p) \in Headers /\ Base[Wanted(p)] \in Files /\ Decls[Wanted(p)] \in SUBSET Funs
    BY <1>3, WantedHeader DEF Rest, TypeOK
  <2>2. cache[Base[Wanted(p)]] \in SUBSET Funs BY <1>3, <2>1 DEF Rest, TypeOK, Opened
  <2>3. PICK c \in Written(Base[Wanted(p)], Decls[Wanted(p)] \ put[p], Wanted(p)) :
          cache' = [cache EXCEPT ![Base[Wanted(p)]] = c]
    BY <1>3 DEF Rest
  <2>4. Decls[Wanted(p)] \ put[p] \in SUBSET Funs BY <2>1
  <2>5. c \in SUBSET Funs BY <2>1, <2>2, <2>4, WrittenType
  <2>6. put' \in [Procs -> SUBSET Funs] BY <1>3, <2>1 DEF Rest, TypeOK
  <2>. QED  BY <1>3, <2>1, <2>3, <2>5, <2>6, ScriptStep DEF Rest, Go
<1>4. ASSUME NEW p \in Procs, ScriptFails(p) PROVE Inv'
  <2>1. TypeOK' BY <1>4 DEF ScriptFails, Go, TypeOK
  <2>2. KeptAsReturned' BY <1>4 DEF ScriptFails, KeptAsReturned
  <2>3. Opened' BY <1>4 DEF ScriptFails, Go, Opened, TypeOK, Wanted
  <2>. QED  BY <2>1, <2>2, <2>3
<1>5. ASSUME NEW p \in Procs, Reuse(p) PROVE Inv'
  <2>1. todo[p] # << >> /\ Wanted(p) \in Headers BY <1>5, WantedHeader DEF Reuse, TypeOK
  <2>2. Import(p, Wanted(p), loaded[p][Wanted(p)]) /\ loaded[p][Wanted(p)] # Missing
    BY <1>5 DEF Reuse, Loaded
  <2>3. loaded[p][Wanted(p)] \in SUBSET Funs BY <2>1, <2>2 DEF TypeOK
  <2>. QED  BY <2>1, <2>2, <2>3, ImportStep
<1>6. ASSUME NEW p \in Procs, Load(p) PROVE Inv'
  <2>1. todo[p] # << >> /\ Wanted(p) \in Headers BY <1>6, WantedHeader DEF Load, TypeOK
  <2>2. cache[Wanted(p)] \in SUBSET Funs BY <1>6, <2>1 DEF Load, TypeOK, Files
  <2>3. loaded[p][Wanted(p)] = Missing BY <1>6 DEF Load, Loaded
  <2>. QED  BY <1>6, <2>1, <2>2, <2>3, ImportStep DEF Load
<1>7. ASSUME NEW p \in Procs, LoadFails(p) PROVE Inv'
  <2>1. TypeOK' BY <1>7 DEF LoadFails, Go, TypeOK
  <2>2. KeptAsReturned' BY <1>7 DEF LoadFails, KeptAsReturned
  <2>3. Opened' BY <1>7 DEF LoadFails, Go, Opened, TypeOK, Wanted
  <2>. QED  BY <2>1, <2>2, <2>3
<1>8. CASE UNCHANGED vars
  <2>1. TypeOK' BY <1>8 DEF vars, TypeOK
  <2>. QED  BY <1>8, <2>1 DEF vars, KeptAsReturned, Opened, Wanted
<1>. QED  BY <1>1, <1>2, <1>3, <1>4, <1>5, <1>6, <1>7, <1>8 DEF Next, Step, Finished

\* The state of the cache and of the compilers stays well typed: in particular no
\* script writes into a file that is not there.
THEOREM HeaderTypes == Spec => []TypeOK
<1>1. Inv => TypeOK BY DEF Inv
<1>. QED  BY <1>1, InitHolds, StepHolds, PTL DEF Spec

\* For any number of compilers, whatever their scripts do to the cache in
\* between, importIR gives a translator the same structure for the same header.
THEOREM StableImports == Spec => []ImportsStable
<1>1. Inv => ImportsStable BY DEF Inv, KeptAsReturned, ImportsStable
<1>. QED  BY <1>1, InitHolds, StepHolds, PTL DEF Spec

----------------------------------------------------------------------------
\* Only the files that a script writes are ever there.
OnlyWritten == \A f \in Files : (\A h \in Headers : Base[h] # f) => cache[f] = Missing

\* A compiler that is alone, and whose script did not fail, finds what its own
\* script wrote: nothing, then a part, then all of the header's declarations.
Undisturbed(p) ==
  /\ pc[p] = "fill" => cache[Base[Wanted(p)]] = {} /\ put[p] = {}
  /\ pc[p] = "rest" => cache[Base[Wanted(p)]] = put[p] /\ put[p] \subseteq Decls[Wanted(p)]
  /\ pc[p] = "read" => cache[Base[Wanted(p)]] = Decls[Wanted(p)]
  /\ pc[p] = "error" => Base[Wanted(p)] # Wanted(p)
  /\ \A h \in Headers : loaded[p][h] # Missing => Decls[h] \subseteq loaded[p][h]
  /\ \A s \in got[p] : Decls[s.of] \subseteq s.funs

AInv == Inv /\ OnlyWritten /\ \A p \in Procs : Alone(p) /\ ~failed[p] => Undisturbed(p)

\* A file under the path of a header in a directory is never there.
LEMMA PathMissing ==
  ASSUME OnlyWritten, NEW h \in Headers, Base[h] # h
  PROVE  cache[h] = Missing
<1>1. \A g \in Headers : Base[g] # h
  BY BasenameAssumption
<1>. QED  BY <1>1 DEF OnlyWritten, Files

\* A write into an empty file, and one that goes on behind what was written.
LEMMA WrittenAlone ==
  ASSUME NEW f, NEW part, NEW h, NEW c \in Written(f, part, h), cache[f] \subseteq Decls[h]
  PROVE  c = part \cup cache[f]
BY DEF Written

\* A script writes the file of its header's basename only.
LEMMA OnlyWrittenStays ==
  ASSUME Inv, OnlyWritten, [Next]_vars
  PROVE  OnlyWritten'
<1>1. ASSUME NEW p \in Procs, NEW c, todo[p] # << >>, cache' = [cache EXCEPT ![Base[Wanted(p)]] = c]
      PROVE  OnlyWritten'
  <2>1. Wanted(p) \in Headers BY <1>1, WantedHeader DEF Inv
  <2>2. \A f \in Files : f # Base[Wanted(p)] => cache'[f] = cache[f] BY <1>1 DEF Inv, TypeOK
  <2>. QED  BY <2>1, <2>2 DEF OnlyWritten
<1>2. CASE cache' = cache BY <1>2 DEF OnlyWritten
<1>3. ASSUME NEW p \in Procs, Truncate(p) \/ Fill(p) \/ Rest(p)
      PROVE  OnlyWritten'
  <2>1. todo[p] # << >> BY <1>3 DEF Truncate, Fill, Rest, Inv, TypeOK
  <2>2. \E c : cache' = [cache EXCEPT ![Base[Wanted(p)]] = c] BY <1>3 DEF Truncate, Fill, Rest
  <2>. QED  BY <1>1, <2>1, <2>2
<1>4. ASSUME NEW p \in Procs, ScriptFails(p) \/ Reuse(p) \/ Load(p) \/ LoadFails(p)
      PROVE  cache' = cache
  BY <1>4 DEF ScriptFails, Reuse, Load, LoadFails, Import
<1>. QED  BY <1>2, <1>3, <1>4 DEF Next, Step, Finished, vars

\* No compiler is alone after a step of another one.
LEMMA AloneSteps ==
  ASSUME Inv, NEW p \in Procs, NEW q \in Procs, Step(q), Alone(p)'
  PROVE  q = p /\ Alone(p)
<1>1. CASE Reuse(q) \/ Load(q)
  <2>1. PICK m : Import(q, Wanted(q), m) BY <1>1 DEF Reuse, Load
  <2>2. got'[q] # {} /\ \A r \in Procs : r # q => got'[r] = got[r] /\ pc'[r] = pc[r]
    BY <2>1 DEF Import, Go, Inv, TypeOK
  <2>. QED  BY <2>2 DEF Alone
<1>2. CASE Truncate(q) \/ Fill(q) \/ Rest(q) \/ ScriptFails(q) \/ LoadFails(q)
  <2>1. pc'[q] # "idle" /\ \A r \in Procs : r # q => got'[r] = got[r] /\ pc'[r] = pc[r]
    BY <1>2 DEF Truncate, Fill, Rest, ScriptFails, LoadFails, Go, Inv, TypeOK
  <2>. QED  BY <2>1 DEF Alone
<1>. QED  BY <1>1, <1>2 DEF Step

\* A step of a compiler that is alone.
LEMMA UndisturbedStays ==
  ASSUME AInv, NEW p \in Procs, Step(p), Undisturbed(p), ~failed'[p]
  PROVE  Undisturbed(p)'
<1>1. CASE Truncate(p)
  <2>1. todo[p] # << >> /\ Base[Wanted(p)] \in Files
    BY <1>1, WantedHeader DEF Truncate, AInv, Inv
  <2>2. /\ cache'[Base[Wanted(p)]] = {} /\ put'[p] = {} /\ pc'[p] = "fill"
        /\ Wanted(p)' = Wanted(p) /\ loaded' = loaded /\ got' = got
    BY <1>1, <2>1 DEF Truncate, Go, AInv, Inv, TypeOK, Wanted
  <2>. QED  BY <2>2 DEF Undisturbed
<1>2. CASE Fill(p)
  <2>1. todo[p] # << >> /\ Base[Wanted(p)] \in Files
    BY <1>2, WantedHeader DEF Fill, AInv, Inv, TypeOK
  <2>2. PICK part \in SUBSET Decls[Wanted(p)] :
          /\ \E c \in Written(Base[Wanted(p)], part, Wanted(p)) : cache' = [cache EXCEPT ![Base[Wanted(p)]] = c]
          /\ put' = [put EXCEPT ![p] = part]
    BY <1>2 DEF Fill
  <2>3. PICK c \in Written(Base[Wanted(p)], part, Wanted(p)) : cache' = [cache EXCEPT ![Base[Wanted(p)]] = c]
    BY <2>2
  <2>4. cache[Base[Wanted(p)]] = {} BY <1>2 DEF Fill, Undisturbed
  <2>5. c = part BY <2>4, WrittenAlone
  <2>6. /\ cache'[Base[Wanted(p)]] = part /\ put'[p] = part /\ pc'[p] = "rest"
        /\ Wanted(p)' = Wanted(p) /\ loaded' = loaded /\ got' = got
    BY <1>2, <2>1, <2>2, <2>3, <2>5 DEF Fill, Go, AInv, Inv, TypeOK, Wanted
  <2>. QED  BY <2>6 DEF Undisturbed
<1>3. CASE Rest(p)
  <2>1. todo[p] # << >> /\ Base[Wanted(p)] \in Files
    BY <1>3, WantedHeader DEF Rest, AInv, Inv, TypeOK
  <2>2. PICK c \in Written(Base[Wanted(p)], Decls[Wanted(p)] \ put[p], Wanted(p)) :
          cache' = [cache EXCEPT ![Base[Wanted(p)]] = c]
    BY <1>3 DEF Rest
  <2>3. cache[Base[Wanted(p)]] = put[p] /\ put[p] \subseteq Decls[Wanted(p)]
    BY <1>3 DEF Rest, Undisturbed
  <2>4. c = (Decls[Wanted(p)] \ put[p]) \cup cache[Base[Wanted(p)]] BY <2>3, WrittenAlone
  <2>5. c = Decls[Wanted(p)] BY <2>3, <2>4
  <2>6. /\ cache'[Base[Wanted(p)]] = Decls[Wanted(p)] /\ pc'[p] = "read"
        /\ Wanted(p)' = Wanted(p) /\ loaded' = loaded /\ got' = got
    BY <1>3, <2>1, <2>2, <2>5 DEF Rest, Go, AInv, Inv, TypeOK, Wanted
  <2>. QED  BY <2>6 DEF Undisturbed
<1>4. CASE ScriptFails(p)
  BY <1>4 DEF ScriptFails, AInv, Inv, TypeOK
<1>5. CASE LoadFails(p)
  <2>1. todo[p] # << >> /\ Wanted(p) \in Headers
    BY <1>5, WantedHeader DEF LoadFails, AInv, Inv, TypeOK
  <2>2. cache[Base[Wanted(p)]] = Decls[Wanted(p)] BY <1>5 DEF LoadFails, Undisturbed
  <2>3. Base[Wanted(p)] # Wanted(p) BY <1>5, <2>1, <2>2 DEF LoadFails
  <2>4. pc'[p] = "error" /\ Wanted(p)' = Wanted(p) /\ loaded' = loaded /\ got' = got
    BY <1>5 DEF LoadFails, Go, AInv, Inv, TypeOK, Wanted
  <2>. QED  BY <2>3, <2>4 DEF Undisturbed
<1>6. CASE Reuse(p) \/ Load(p)
  <2>1. todo[p] # << >> /\ Wanted(p) \in Headers
    BY <1>6, WantedHeader DEF Reuse, Load, AInv, Inv, TypeOK
  <2>. DEFINE h == Wanted(p)
  <2>2. PICK m : Import(p, h, m) /\ Decls[h] \subseteq m
    <3>1. CASE Reuse(p)
      <4>1. Import(p, h, loaded[p][h]) /\ loaded[p][h] # Missing BY <3>1 DEF Reuse, Loaded
      <4>. QED  BY <2>1, <4>1 DEF Undisturbed
    <3>2. CASE Load(p)
      <4>1. Base[h] = h BY <2>1, <3>2, PathMissing DEF Load, AInv
      <4>2. cache[h] = Decls[h] BY <3>2, <4>1 DEF Load, Undisturbed
      <4>. QED  BY <3>2, <4>2 DEF Load
    <3>. QED  BY <1>6, <3>1, <3>2
  <2>. HIDE DEF h
  <2>3. /\ loaded' = [loaded EXCEPT ![p][h] = m] /\ pc'[p] = "idle"
        /\ got'[p] = got[p] \cup {[of |-> h, funs |-> m]}
    BY <2>2 DEF Import, Go, AInv, Inv, TypeOK
  <2>4. \A g \in Headers : loaded'[p][g] = IF g = h THEN m ELSE loaded[p][g]
    BY <2>3 DEF AInv, Inv, TypeOK
  <2>5. \A g \in Headers : loaded'[p][g] # Missing => Decls[g] \subseteq loaded'[p][g]
    BY <2>2, <2>4 DEF Undisturbed
  <2>6. \A s \in got'[p] : Decls[s.of] \subseteq s.funs
    BY <2>2, <2>3 DEF Undisturbed
  <2>. QED  BY <2>3, <2>5, <2>6 DEF Undisturbed
<1>. QED  BY <1>1, <1>2, <1>3, <1>4, <1>5, <1>6 DEF Step

\* A script that has failed has failed for good.
LEMMA FailedStays ==
  ASSUME Inv, NEW p \in Procs, NEW q \in Procs, Step(p), failed[q]
  PROVE  failed'[q]
<1>1. CASE Reuse(p) \/ Load(p) BY <1>1 DEF Reuse, Load, Import
<1>2. CASE ScriptFails(p) BY <1>2 DEF ScriptFails, Inv, TypeOK
<1>. QED  BY <1>1, <1>2 DEF Step, Truncate, Fill, Rest, LoadFails

\* A compiler that runs alone gets all declarations of every header it imports,
\* whatever the headers and whatever earlier compilers left in the cache; it stops
\* only at a header in a directory.
THEOREM AloneGetsAll == Spec => []HeaderAlone
<1>1. Init => AInv
  <2>. SUFFICES ASSUME Init PROVE AInv OBVIOUS
  <2>1. OnlyWritten BY DEF Init, OnlyWritten
  <2>2. \A p \in Procs : Undisturbed(p) BY DEF Init, Undisturbed
  <2>. QED  BY <2>1, <2>2, InitHolds DEF AInv
<1>2. AInv /\ [Next]_vars => AInv'
  <2>. SUFFICES ASSUME AInv, [Next]_vars PROVE AInv' OBVIOUS
  <2>1. Inv' /\ OnlyWritten' BY StepHolds, OnlyWrittenStays DEF AInv
  <2>2. ASSUME NEW p \in Procs, Alone(p)', ~failed'[p] PROVE Undisturbed(p)'
    <3>1. CASE UNCHANGED vars BY <2>2, <3>1 DEF vars, AInv, Alone, Undisturbed, Wanted
    <3>2. ASSUME NEW q \in Procs, Step(q) PROVE Undisturbed(p)'
      <4>1. q = p /\ Alone(p) BY <2>2, <3>2, AloneSteps DEF AInv
      <4>2. ~failed[p] BY <2>2, <3>2, FailedStays DEF AInv
      <4>3. Undisturbed(p) BY <4>1, <4>2 DEF AInv
      <4>. QED  BY <2>2, <3>2, <4>1, <4>3, UndisturbedStays
    <3>. QED  BY <3>1, <3>2 DEF Next, Finished
  <2>. QED  BY <2>1, <2>2 DEF AInv
<1>3. AInv => HeaderAlone BY DEF AInv, Undisturbed, HeaderAlone
<1>. QED  BY <1>1, <1>2, <1>3, PTL DEF Spec

=============================================================================
