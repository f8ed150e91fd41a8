------------------------------- MODULE Values -------------------------------
(***************************************************************************)
(* How the translator keeps variables and structures: assembly::value with  *)
(* its table of members, copied as a whole (value.hpp), and the memory the  *)
(* program allocates.  The statements of one function, each translated and,  *)
(* as there is one path through them, carried out.                          *)
(*                                                                         *)
(* A location is a slot followed by field numbers; mem has the locations    *)
(* that hold an integer.  Members are numbers in the order of std::map.     *)
(* A value's record: k, lazy and const (its type), at (llvm_value_, when it  *)
(* is a pointer), n (an integer that was loaded, or which function), sym and *)
(* fld (symbols_, fields_) and par: whether parent_ is set, which makes      *)
(* copyFull write to the table of a literal nobody reads any more.          *)
(***************************************************************************)
EXTENDS Naturals, Sequences, FiniteSets, SequencesExt, TLC

CONSTANTS Statements, MaxStatements,
          Careful    \* the program keeps to the assignments the tables can follow

VARIABLES syms,   \* thisScope_->symbols()
          mem,    \* location -> integer
          top,    \* slots allocated
          dead,   \* slots of functions that have returned
          muts,   \* the variables declared with #mut, for the refinement
          stmt, count, over    \* as in Language

vars == <<syms, mem, top, dead, muts, stmt, count, over>>

Junk == 99    \* what a dead slot may hold

EmptyValue == [k |-> "int", lazy |-> FALSE, const |-> FALSE, at |-> << >>, n |-> 0,
               sym |-> << >>, fld |-> << >>, par |-> FALSE]
Bad == [EmptyValue EXCEPT !.k = "bad"]    \* an error was thrown

\* The locations under p, as field numbers.
Layout(m, p) == {SubSeq(l, Len(p) + 1, Len(l)) : l \in {l \in DOMAIN m : IsPrefix(p, l)}}

\* The integers under from, moved to the location to.
Moved(m, from, to) ==
  [l \in {to \o q : q \in Layout(m, from)} |-> m[from \o SubSeq(l, Len(to) + 1, Len(l))]]

----------------------------------------------------------------------------
(* Reading.                                                                 *)

\* Slip: the member keeps the pointer it had when its structure was built.
DotStale(v, m) == IF v.k # "struct" \/ m \notin DOMAIN v.sym THEN Bad ELSE v.sym[m]

\* dot: a pointer into this structure replaces the one in the table.
dot(v, m) ==
  IF v.k # "struct" \/ m \notin DOMAIN v.sym THEN Bad
  ELSE IF v.sym[m].lazy THEN v.sym[m]
  ELSE [v.sym[m] EXCEPT !.at = v.at \o <<v.fld[m]>>]

\* at, with a constant index; elements are counted from 1 here.
at(v, i) ==
  IF i \notin DOMAIN v.sym THEN Bad
  ELSE IF v.sym[i].lazy THEN v.sym[i]
  ELSE [v.sym[i] EXCEPT !.at = v.at \o <<i - 1>>]

Step(v, m) == IF v.k = "array" THEN at(v, m) ELSE dot(v, m)

RECURSIVE Along(_, _)
Along(v, path) == IF path = << >> THEN v ELSE Along(Step(v, Head(path)), Tail(path))

\* A variable or a member that is to be assigned.
LVal(x, path) == IF x \in DOMAIN syms THEN Along(syms[x], path) ELSE Bad

\* An integer that is read is loaded; everything else is passed as a pointer.
Loaded(v) == IF v.k = "int" THEN [v EXCEPT !.n = mem[v.at], !.at = << >>] ELSE v

Atom(e) ==
  CASE e.t = "int"  -> [EmptyValue EXCEPT !.n = e.n]
    [] e.t = "fun"  -> [EmptyValue EXCEPT !.k = "fun", !.lazy = TRUE, !.n = e.n]
    [] e.t = "read" -> Loaded(LVal(e.x, e.path))

\* A lazy member has no field.
FieldIndex(vals, m) == Cardinality({k \in DOMAIN vals : k < m /\ ~vals[k].lazy})

\* The integers that a value puts at the location to.
Contents(m, v, to) == CASE v.lazy     -> << >>
                        [] v.k = "int" -> to :> v.n
                        [] OTHER       -> Moved(m, v.at, to)

\* structure: a slot, the members moved into it, and the table of them.
structure(of) ==
  LET vals == [m \in DOMAIN of |-> Atom(of[m])]
      solid == {m \in DOMAIN of : ~vals[m].lazy}
      Place(m) == <<top + 1, FieldIndex(vals, m)>>
  IN IF \E m \in DOMAIN of : vals[m].k = "bad" THEN [v |-> Bad, put |-> << >>]
     ELSE [v |-> [EmptyValue EXCEPT !.k = "struct", !.at = <<top + 1>>,
                    !.fld = [m \in solid |-> FieldIndex(vals, m)],
                    !.sym = [m \in DOMAIN of |->
                               IF vals[m].lazy THEN [vals[m] EXCEPT !.par = TRUE]
                               ELSE [vals[m] EXCEPT !.par = TRUE, !.at = Place(m), !.n = 0]]],
           put |-> LET part == [m \in solid |-> Contents(mem, vals[m], Place(m))]
                   IN [l \in UNION {DOMAIN part[m] : m \in solid} |->
                         part[CHOOSE m \in solid : l \in DOMAIN part[m]][l]]]

\* array: all elements have the type of the first.  Structures and arrays never
\* do, because a pointer to the element is compared with what it points to.
array(of) ==
  LET vals == [i \in DOMAIN of |-> Atom(of[i])]
      solid == {i \in DOMAIN of : ~vals[i].lazy}
  IN IF \E i \in DOMAIN of : vals[i].k \notin {"int", "fun"} \/ vals[i].k # vals[1].k
       THEN [v |-> Bad, put |-> << >>]
       ELSE [v |-> [EmptyValue EXCEPT !.k = "array", !.at = <<top + 1>>,
                      !.sym = [i \in DOMAIN of |->
                                 IF vals[i].lazy THEN [vals[i] EXCEPT !.par = TRUE]
                                 ELSE [vals[i] EXCEPT !.par = TRUE, !.at = <<top + 1, i - 1>>, !.n = 0]]],
             put |-> [l \in {<<top + 1, i - 1>> : i \in solid} |-> vals[l[2] + 1].n]]

\* The value of an expression and what evaluating it puts into memory.
Translated(e) == CASE e.t \in {"struct", "ret"} -> structure(e.of)
                   [] e.t = "array"             -> array(e.of)
                   [] OTHER                     -> [v |-> Atom(e), put |-> << >>]

----------------------------------------------------------------------------
(* Assigning.                                                               *)

RECURSIVE Type(_)
\* The LLVM type: structures of the same layout share one.
Type(v) == CASE v.k = "struct" -> <<"struct", {<<v.fld[m], Type(v.sym[m])>> : m \in DOMAIN v.fld}>>
             [] v.k = "array"  -> <<"array", [i \in DOMAIN v.sym |-> Type(v.sym[i])]>>
             [] OTHER          -> <<v.k>>

\* Slip: the types are not compared.
FitsAny(dest, src) == src.lazy \/ ~dest.lazy

\* copyFull: a lazy value is not stored; anything else needs a location of its type.
Fits(dest, src) == src.lazy \/ (~dest.lazy /\ Type(dest) = Type(src))

\* Slip: a structure is entered with the place it was copied from.
EnteredAtSource(src, place) == IF src.lazy \/ src.at # << >> THEN src ELSE [src EXCEPT !.at = place, !.n = 0]

\* The value that is entered in the table: what was assigned, at the new place.
Entered(src, place) == IF src.lazy THEN src ELSE [src EXCEPT !.at = place, !.n = 0]

\* A memcpy out of a dead slot finds what it held, or something else.
AfterReturn(m, v) == IF v.at # << >> /\ v.at[1] \in dead'
                       THEN {m, [l \in DOMAIN m |-> IF l[1] = v.at[1] THEN Junk ELSE m[l]]}
                       ELSE {m}

\* The signature of a value: its members by name and the functions among them.
RECURSIVE Signature(_)
Signature(v) == CASE v.k = "fun"    -> <<"fun", v.n>>
                  [] v.k = "int"    -> <<"int">>
                  [] v.k = "bad"    -> <<"bad">>
                  [] OTHER          -> <<v.k, [m \in DOMAIN v.sym |-> Signature(v.sym[m])]>>

\* What a careful program keeps to: no structure comes out of a call, and a
\* target whose table the translator does not reach is given what it has.
Foreseen(s, dest, src) ==
  Careful => /\ s.e.t # "ret"
             /\ (dest.par \/ s.t = "either") => Signature(src) = Signature(dest)

Begin(s) == /\ ~over /\ count < MaxStatements
            /\ stmt' = s /\ count' = count + 1 /\ UNCHANGED over
            /\ top' = top + 2
            /\ dead' = IF s.e.t = "ret" THEN dead \cup {top + 1} ELSE dead

\* assign to a name that is not in the table.
Declare(s) ==
  LET r == Translated(s.e)
      slot == <<top + 2>>
  IN /\ s.t = "set" /\ s.x \notin DOMAIN syms
     /\ Begin(s) /\ r.v.k # "bad" /\ Foreseen(s, EmptyValue, r.v)
     /\ syms' = (s.x :> Entered([r.v EXCEPT !.const = ~s.mut], slot)) @@ syms
     /\ \E m \in AfterReturn(r.put @@ mem, r.v) : mem' = Contents(m, r.v, slot) @@ m
     /\ muts' = IF s.mut THEN muts \cup {s.x} ELSE muts

\* assign to a variable that is there: the new value keeps its own const flag,
\* and is entered under the name only when the old one has no parent_.
Reassign(s) ==
  LET r == Translated(s.e)
      old == LVal(s.x, << >>)
  IN /\ s.t = "set" /\ s.x \in DOMAIN syms
     /\ Begin(s) /\ r.v.k # "bad" /\ Foreseen(s, old, r.v)
     /\ ~old.const /\ Fits(old, r.v)
     /\ syms' = IF old.par THEN syms ELSE [syms EXCEPT ![s.x] = Entered(r.v, old.at)]
     /\ \E m \in AfterReturn(r.put @@ mem, r.v) : mem' = Contents(m, r.v, old.at) @@ m
     /\ UNCHANGED muts

\* assign to a member: its parent_ is the literal its structure was built from.
AssignMember(s) ==
  LET r == Translated(s.e)
      old == LVal(s.x, s.path)
  IN /\ s.t = "member"
     /\ Begin(s) /\ r.v.k # "bad" /\ old.k # "bad" /\ Foreseen(s, old, r.v)
     /\ ~old.const /\ Fits(old, r.v)
     /\ \E m \in AfterReturn(r.put @@ mem, r.v) : mem' = Contents(m, r.v, old.at) @@ m
     /\ UNCHANGED <<syms, muts>>

\* assign to a conditional: the location chosen at run time, with neither a
\* name nor a const flag.  Both sides are integers: the pointer to a structure
\* does not fit the slot the translator makes for it.
AssignEither(s) ==
  LET r == Translated(s.e)
      old == LVal(IF s.then THEN s.x ELSE s.y, << >>)
  IN /\ s.t = "either" /\ {s.x, s.y} \subseteq DOMAIN syms
     /\ syms[s.x].k = "int" /\ syms[s.y].k = "int"
     /\ Begin(s) /\ r.v.k # "bad" /\ Foreseen(s, old, r.v)
     /\ Fits(old, r.v)
     /\ mem' = Contents(r.put @@ mem, r.v, old.at) @@ r.put @@ mem
     /\ UNCHANGED <<syms, muts>>

\* An error is thrown and the program is given up.
Refuse(s) ==
  LET r == Translated(s.e)
      old == LVal(s.x, IF s.t = "member" THEN s.path ELSE << >>)
      declares == s.t = "set" /\ s.x \notin DOMAIN syms
  IN /\ ~over /\ count < MaxStatements
     /\ \/ r.v.k = "bad"
        \/ ~declares /\ old.k = "bad"
        \/ s.t = "either" /\ (old.k = "fun" \/ old.k # LVal(s.y, << >>).k)
        \/ ~declares /\ s.t # "either" /\ old.const
        \/ ~declares /\ ~Fits(old, r.v)
     /\ over' = TRUE
     /\ UNCHANGED <<syms, mem, top, dead, muts, stmt, count>>

Init == /\ syms = << >> /\ mem = << >> /\ top = 0 /\ dead = {} /\ muts = {}
        /\ stmt = << >> /\ count = 0 /\ over = FALSE

Next == \E s \in Statements : \/ Declare(s) \/ Reassign(s) \/ AssignMember(s) \/ AssignEither(s) \/ Refuse(s)

Spec == Init /\ [][Next]_vars

----------------------------------------------------------------------------
(* The language's view: what a variable evaluates to.                       *)

RECURSIVE Denotes(_)
Denotes(v) == CASE v.k = "int"    -> [k |-> "int", n |-> mem[v.at], of |-> << >>]
                [] v.k = "fun"    -> [k |-> "fun", n |-> v.n, of |-> << >>]
                [] OTHER          -> [k |-> v.k, n |-> 0, of |-> [m \in DOMAIN v.sym |-> Denotes(Step(v, m))]]

L == INSTANCE Language WITH env <- [x \in DOMAIN syms |-> [mut |-> x \in muts, val |-> Denotes(syms[x])]]

----------------------------------------------------------------------------
(* Properties.                                                              *)

RECURSIVE Shape(_)
\* The locations that the tables of v tell of.
Shape(v) == CASE v.k = "int"    -> {<< >>}
              [] v.k = "struct" -> UNION {{<<v.fld[m]>> \o q : q \in Shape(v.sym[m])} : m \in DOMAIN v.fld}
              [] v.k = "array"  -> {<<i - 1>> : i \in {j \in DOMAIN v.sym : ~v.sym[j].lazy}}
              [] OTHER          -> {}

RECURSIVE Numbered(_)
\* The members of v, and theirs, that are not lazy are numbered from 0 without a gap.
Numbered(v) ==
  /\ v.k = "struct" => v.fld = [m \in {m \in DOMAIN v.sym : ~v.sym[m].lazy} |-> FieldIndex(v.sym, m)]
  /\ \A m \in DOMAIN v.sym : Numbered(v.sym[m])

\* No two variables share a slot, however they were copied from each other, and the
\* number of a member counts the members in memory only.
TypeOK ==
  /\ \A x \in DOMAIN syms : /\ syms[x].k \in {"int", "fun", "struct", "array"}
                            /\ syms[x].lazy = (syms[x].k = "fun")
                            /\ ~syms[x].lazy => Len(syms[x].at) = 1 /\ syms[x].at[1] \in 1..top
                            /\ Numbered(syms[x])
  /\ \A x, y \in {z \in DOMAIN syms : ~syms[z].lazy} : x # y => syms[x].at # syms[y].at
  /\ \A l \in DOMAIN mem : l[1] \in 1..top
  /\ muts \subseteq DOMAIN syms /\ dead \subseteq 1..top /\ over \in BOOLEAN

\* The members and field numbers that the translator goes by, which are copied
\* from value to value and entered or not, tell exactly the layout of the
\* memory behind every variable.
TablesMatchMemory ==
  \A x \in DOMAIN syms : ~syms[x].lazy => Layout(mem, syms[x].at) = Shape(syms[x])

\* Every statement does to the variables what the language says it does, and
\* to no other: no read-only variable is assigned by its name, no copy is
\* changed with its original, no assignment is lost.
Implements == L!LSpec

\* examples/retstruct.scc: the structure a function returns has the members it
\* was returned with.
ReturnedIntact ==
  (count > 0 /\ ~over /\ stmt.e.t = "ret") =>
    \A m \in DOMAIN stmt.e.of : Denotes(syms[stmt.x]).of[m].n = stmt.e.of[m].n

=============================================================================
