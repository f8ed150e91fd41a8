---------------------------- MODULE HeaderCache ----------------------------
(***************************************************************************)
(* @import#c: translator::importCHeader runs the script scopion-h2ir,      *)
(* which leaves the declarations of a C header as LLVM IR in a cache under *)
(* the user's home, and translator::importIR reads them back from there.   *)
(*                                                                         *)
(* The cache is shared by every compiler the user runs, under make -j say, *)
(* and nothing guards it: each import rewrites its file, first to nothing, *)
(* then chunk by chunk as the script's pipeline delivers.                  *)
(*                                                                         *)
(* A header is the path given to #c, a cached file the set of functions    *)
(* declared in it.                                                         *)
(***************************************************************************)
EXTENDS Naturals, Sequences

CONSTANTS
  Procs,    \* compilers running at the same time
  Headers,  \* header paths, as written after #c:
  Base,     \* the basename of each header
  Funs,     \* names of functions
  Decls,    \* the functions each header declares
  Wants     \* for each compiler, the headers its program imports, in order

\* In place of the contents of a file that does not exist.
Missing == {"no file"}

ASSUME FunsAssumption  == "no file" \notin Funs
ASSUME BaseAssumption  == Headers \subseteq DOMAIN Base
\* A basename has no directory left to take off.
ASSUME BasenameAssumption == \A h \in Headers : Base[h] \in Headers => Base[Base[h]] = Base[h]
ASSUME DeclsAssumption == Decls \in [Headers -> SUBSET Funs]
ASSUME WantsAssumption == Wants \in [Procs -> Seq(Headers)]

\* Files of the cache, by their path below it: the script writes one by the
\* header's basename, importIR looks for one by the header's path.
Files == Headers \cup {Base[h] : h \in Headers}

VARIABLES
  cache,   \* what is in each file of the cache
  pc,      \* where each compiler is
  todo,    \* the imports each compiler has still to do
  put,     \* what the script running for each compiler has written so far
  loaded,  \* loaded_map_ of each compiler's translator
  got,     \* the structures its imports returned, each with its header
  failed   \* the script's clang has failed for this compiler

vars == <<cache, pc, todo, put, loaded, got, failed>>

\* Earlier compilers have left anything in the files the script writes.
Init == /\ cache \in [Files -> {Missing} \cup SUBSET Funs]
        /\ \A f \in Files : (\A h \in Headers : Base[h] # f) => cache[f] = Missing
        /\ pc = [p \in Procs |-> "idle"]
        /\ todo = Wants
        /\ put = [p \in Procs |-> {}]
        /\ loaded = [p \in Procs |-> [h \in Headers |-> Missing]]
        /\ got = [p \in Procs |-> {}]
        /\ failed = [p \in Procs |-> FALSE]

Wanted(p) == Head(todo[p])
Go(p, l)  == pc' = [pc EXCEPT ![p] = l]

----------------------------------------------------------------------------
(* scopion-h2ir.                                                            *)

\* The shell opens, and empties, the cache file before the pipeline that fills
\* it runs.  The script runs whether or not the header is loaded.
Truncate(p) == /\ pc[p] = "idle"
               /\ todo[p] # << >>
               /\ cache' = [cache EXCEPT ![Base[Wanted(p)]] = {}]
               /\ put' = [put EXCEPT ![p] = {}]
               /\ Go(p, "fill")
               /\ UNCHANGED <<todo, loaded, got, failed>>

\* What the file may hold after the declarations in part are written: those of
\* another header, written by another script, may be overwritten in place.
Written(f, part, h) == {part \cup kept : kept \in {k \in SUBSET cache[f] : cache[f] \cap Decls[h] \subseteq k}}

\* The pipeline writes some of the declarations and goes on.
Fill(p) == /\ pc[p] = "fill"
           /\ \E part \in SUBSET Decls[Wanted(p)] \ {Decls[Wanted(p)]} :
                /\ \E c \in Written(Base[Wanted(p)], part, Wanted(p)) :
                     cache' = [cache EXCEPT ![Base[Wanted(p)]] = c]
                /\ put' = [put EXCEPT ![p] = part]
           /\ Go(p, "rest")
           /\ UNCHANGED <<todo, loaded, got, failed>>

\* The pipeline is over: the rest is written, behind what another script may have emptied.
Rest(p) == /\ pc[p] \in {"fill", "rest"}
           /\ \E c \in Written(Base[Wanted(p)], Decls[Wanted(p)] \ put[p], Wanted(p)) :
                cache' = [cache EXCEPT ![Base[Wanted(p)]] = c]
           /\ put' = [put EXCEPT ![p] = Decls[Wanted(p)]]
           /\ Go(p, "read")
           /\ UNCHANGED <<todo, loaded, got, failed>>

\* clang fails; its messages go to /dev/null, its status nowhere, the empty file stays.
ScriptFails(p) == /\ pc[p] = "fill"
                  /\ failed' = [failed EXCEPT ![p] = TRUE]
                  /\ Go(p, "read")
                  /\ UNCHANGED <<cache, todo, put, loaded, got>>

----------------------------------------------------------------------------
(* importIR.                                                                *)

\* Slip: the module is moved out of loaded_map_ and not put back.
NeverLoaded(p, h) == {}

\* Slip: a module loaded before is taken whatever its path.
AnyLoaded(p, h) == {loaded[p][g] : g \in Headers} \ {Missing}

\* Slip: loaded_map_[path] without the count, which makes an entry of its own.
LoadedUnchecked(p, h) == {loaded[p][h]}

\* loaded_map_[path], if it is there.
Loaded(p, h) == {loaded[p][h]} \ {Missing}

\* The import returns the functions of module, which stays in loaded_map_.
Import(p, h, module) == /\ loaded' = [loaded EXCEPT ![p][h] = module]
                        /\ got' = [got EXCEPT ![p] = @ \cup {[of |-> h, funs |-> module]}]
                        /\ todo' = [todo EXCEPT ![p] = Tail(@)]
                        /\ Go(p, "idle")
                        /\ UNCHANGED <<cache, put, failed>>

Reuse(p) == /\ pc[p] = "read"
            /\ \E module \in Loaded(p, Wanted(p)) : Import(p, Wanted(p), module)

Load(p) == /\ pc[p] = "read"
           /\ Loaded(p, Wanted(p)) = {}
           /\ cache[Wanted(p)] # Missing
           /\ Import(p, Wanted(p), cache[Wanted(p)])

\* Slip: a failed import is tried again.
RetryLoad(p) == /\ pc[p] = "read"
                /\ Loaded(p, Wanted(p)) = {}
                /\ cache[Wanted(p)] \notin {{}} \cup {Decls[h] : h \in Headers}
                /\ Go(p, "idle")
                /\ UNCHANGED <<cache, todo, put, loaded, got, failed>>

\* There is no such file, or what is in it is not whole.
LoadFails(p) == /\ pc[p] = "read"
                /\ Loaded(p, Wanted(p)) = {}
                /\ cache[Wanted(p)] \notin {{}} \cup {Decls[h] : h \in Headers}
                /\ Go(p, "error")
                /\ UNCHANGED <<cache, todo, put, loaded, got, failed>>

Over(p) == pc[p] = "error" \/ (pc[p] = "idle" /\ todo[p] = << >>)

Finished == /\ \A p \in Procs : Over(p)
            /\ UNCHANGED vars

Step(p) == Truncate(p) \/ Fill(p) \/ Rest(p) \/ ScriptFails(p) \/ Reuse(p) \/ Load(p) \/ LoadFails(p)

Next == (\E p \in Procs : Step(p)) \/ Finished

\* Every process, of a compiler or of a script, is scheduled.
Spec == Init /\ [][Next]_vars /\ \A p \in Procs : WF_vars(Step(p))

----------------------------------------------------------------------------
Structure == [of : Headers, funs : SUBSET Funs]

TypeOK == /\ cache \in [Files -> {Missing} \cup SUBSET Funs]
          /\ pc \in [Procs -> {"idle", "fill", "rest", "read", "error"}]
          /\ todo \in [Procs -> Seq(Headers)]
          /\ \A p \in Procs : pc[p] \in {"fill", "rest", "read"} => todo[p] # << >>
          /\ put \in [Procs -> SUBSET Funs]
          /\ loaded \in [Procs -> [Headers -> {Missing} \cup SUBSET Funs]]
          /\ got \in [Procs -> SUBSET Structure]
          /\ failed \in [Procs -> BOOLEAN]

\* No other compiler has begun an import.
Alone(p) == \A q \in Procs \ {p} : pc[q] = "idle" /\ got[q] = {}

\* A compiler that is alone gets all declarations of every header, whatever earlier
\* ones left in the cache, and fails only for a header in a directory, which the
\* script files under its basename and importIR looks for under its path.
HeaderAlone ==
  \A p \in Procs : Alone(p) /\ ~failed[p] =>
    /\ pc[p] = "error" => Base[Wanted(p)] # Wanted(p)
    /\ \A s \in got[p] : Decls[s.of] \subseteq s.funs

\* "Returns a structure contains all function declarations in the file"
\* (docs/Literal.md:126), whenever the script has done its work.
HeaderReturned ==
  \A p \in Procs : ~failed[p] => /\ pc[p] # "error"
                                 /\ \A s \in got[p] : Decls[s.of] \subseteq s.funs

\* The survey pass and the real pass of a body, and every later call, get the
\* same structure from the same @import#c, whatever other compilers do to the
\* cache in between: importIR reads a file once.
ImportsStable ==
  \A p \in Procs : \A s, t \in got[p] : s.of = t.of => s.funs = t.funs

\* Every compiler gets past its imports.
ImportsEnd == <>(\A p \in Procs : Over(p))

=============================================================================
