-------------------------------- MODULE Flow --------------------------------
(***************************************************************************)
(* Which programs compile, read off their text.  The translator never      *)
(* looks for unreachable code or for a missing return: what it makes of    *)
(* them is settled by the order in which it creates blocks and is noticed  *)
(* only by the LLVM verifier.  This module says in terms of the source     *)
(* lines what that comes to, for programs in which no function is given to *)
(* a function; TLC compares it with what Codegen builds.                   *)
(***************************************************************************)
EXTENDS Codegen

\* A walk through lines: whether control can leave them at the end, the types
\* returned on the way, the functions bound, and whether all functions evaluated
\* are sound; what the last line gives, whether one gave a ret_table (tab) or a
\* null value before that (bare), and whether evaluating a function is fatal.
Begin(env) == [end |-> "open", rets |-> {}, env |-> env, sound |-> TRUE,
               val |-> "null", tab |-> FALSE, bare |-> FALSE, fatal |-> FALSE]

Closed(w, t) == [w EXCEPT !.end = "closed", !.rets = @ \cup {t}]
Also(w, v)   == [w EXCEPT !.rets = @ \cup v.rets, !.sound = @ /\ v.sound, !.fatal = @ \/ v.fatal]
Gives(w, v)  == [w EXCEPT !.val = v, !.tab = @ \/ v = "table", !.bare = @ \/ (v = "null" /\ ~w.tab)]

\* What a name holds: nothing, a number, or the function of a body.
Holds(k, b) == [k |-> k, b |-> b]
Nothing     == [x \in Names |-> Holds("none", prog.top)]
Start(b)    == [x \in Names |-> Holds(IF x = prog.param[b] THEN "number" ELSE "none", b)]

RECURSIVE Walk(_, _, _, _)
RECURSIVE Step(_, _, _, _)

\* The walk through the lines of body b from line i on, in the function of body
\* h.body.  h.split: an import is translated with a builder of its own, as the code does.
Walk(w, b, i, h) ==
  IF i > Len(prog.body[b]) THEN w ELSE Walk(Step(w, prog.body[b][i], h, FALSE), b, i + 1, h)

Evaluated(b, split) == Walk(Begin(Start(b)), b, 1, [body |-> b, split |-> split])
TypeOfBody(b) == LET r == Evaluated(b, TRUE).rets IN IF r = {} THEN Void ELSE CHOOSE t \in r : TRUE

\* Every path returns, or none does; a void value cannot be returned.
SoundBody(b, split) == LET w == Evaluated(b, split)
                       IN /\ w.sound
                          /\ Void \notin w.rets
                          /\ w.end = IF w.rets = {} THEN "open" ELSE "closed"

\* A line of the body, or of a function evaluated for it, gives a null value
\* where the survey still looks for a ret_table.
FatalBody(b) == LET w == Evaluated(b, TRUE) IN w.bare \/ w.fatal

\* A line for which no code is written may stand anywhere: naming a lazy
\* function, and binding one to a name that is already taken.
Silent(w, l) == \/ l.op = "use" /\ w.env[l.x].k = "lazy"
                \/ l.op = "fun" /\ ~prog.eager[l.a] /\ w.env[l.x].k # "none"

\* Nothing else may follow a point that control does not leave.  imported: a line
\* that moves on to another block leaves the importer behind.
Step(w, l, h, imported) ==
  LET inner(b) == Walk(Begin(w.env), b, 1, h)
      callee   == w.env[l.x]
      file     == Step(Begin(Nothing), prog.body[l.a][1], h, h.split)
      eval(v, b)  == [v EXCEPT !.sound = @ /\ SoundBody(b, h.split), !.fatal = @ \/ FatalBody(b)]
      called(v)   == IF callee.k = "lazy" THEN eval(v, callee.b) ELSE v
      result      == IF callee.k \in {"lazy", "eager"} THEN TypeOfBody(callee.b) ELSE Void
      bind(k)     == [w EXCEPT !.env[l.x] = Holds(k, l.a)]
      moved(e)    == IF e = "open" /\ imported THEN "broken" ELSE e
      table(b)    == IF Evaluated(b, h.split).tab THEN "table" ELSE "plain"
      value == CASE l.op \in {"ret", "retself", "retcall"}   -> "table"
                 [] l.op = "use" /\ callee.k = "eager"       -> table(callee.b)
                 [] l.op = "fun" /\ prog.eager[l.a]          -> table(l.a)
                 [] l.op = "scope"                           -> inner(l.a).val
                 [] l.op = "import"                          -> file.val
                 [] OTHER                                    -> "plain"
      next ==
        CASE l.op = "ret"             -> Closed(w, l.ty)
          [] l.op = "retself"         -> Closed(w, DeclaredType(h.body))
          [] l.op \in {"set", "heap"} -> bind("number")
          [] l.op = "fun"             -> IF prog.eager[l.a] THEN eval(bind("eager"), l.a) ELSE bind("lazy")
          [] l.op = "call"            -> called(w)
          [] l.op = "retcall"         -> called(Closed(w, result))
          [] l.op = "scope"           -> [Also(w, inner(l.a)) EXCEPT !.end = moved(inner(l.a).end)]
          [] l.op = "cond"            -> LET ends == {inner(l.a).end, inner(l.b).end}
                                         IN [Also(Also(w, inner(l.a)), inner(l.b)) EXCEPT
                                               !.end = IF "broken" \in ends THEN "broken"
                                                       ELSE IF "open" \in ends THEN moved("open")
                                                       ELSE "closed"]
          [] l.op = "select"          -> [w EXCEPT !.end = moved("open")]
          [] l.op = "import"          -> [Also(w, file) EXCEPT !.end = file.end]
          [] OTHER                    -> w
      placed == IF w.end # "open" /\ ~Silent(w, l) THEN [next EXCEPT !.end = "broken"] ELSE next
  IN Gives(placed, value)

Clean(split) == /\ SoundBody(prog.top, split)
                /\ TypeOfBody(prog.top) \in {Void, I32} \/ prog.notEntry

AllLines == UNION {{prog.body[b][i] : i \in DOMAIN prog.body[b]} : b \in Bodies}
FirstOrder == ~\E l \in AllLines : \E m \in AllLines : m.op = "fun" /\ m.x = l.y

\* module::verify accepts exactly the programs in which nothing follows a return,
\* a function that returns anywhere returns on every path, and no imported
\* expression branches: nothing else the translator does to the insert point,
\* through any nesting of calls, scopes and conditionals, makes the IR invalid.
\* The compiler does not get that far exactly if the value of an empty scope is the
\* first thing a function offers its survey (evaluator.cpp:186-187).
\* (For programs in which no function is given to a function.)
VerifyExact ==
  FirstOrder =>
    /\ status \in {"ok", "bug"} => ~FatalBody(prog.top) /\ (status = "ok") = Clean(TRUE)
    /\ status = "crash" /\ ~Asks => FatalBody(prog.top)

\* An @import#m stands for the top level value of the file (docs/Literal.md:120):
\* a program is refused as invalid IR only if it would be with the expression in
\* place of the import.  translator::import does not bring the insert point back.
ImportReturnsValue == status = "bug" => ~Clean(FALSE)

\* Translation comes to an end, and within the stack, when no function is given a
\* function: with a verdict, an error, or a null pointer followed.
Termination == FirstOrder => <>(status \in {"ok", "bug", "error", "crash"})

=============================================================================
