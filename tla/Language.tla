------------------------------ MODULE Language ------------------------------
(***************************************************************************)
(* What assignment means to the programmer of scopion (docs/Literal.md,     *)
(* examples/assign.scc): a variable holds a value of its own, an integer, a *)
(* function, a structure or an array, and an assignment changes the one     *)
(* variable, or the one member, it names.                                   *)
(*                                                                         *)
(* A statement is [t, x, path, y, mut, then, e]:                            *)
(*   "set"     x = e, or x#mut = e when it declares x                       *)
(*   "member"  x.path = e                                                   *)
(*   "either"  (then ? x : y) = e                                           *)
(* and an expression [t, n, x, path, of] an integer n, a function n, what    *)
(* x.path is, a structure, an array or the call of a function that returns  *)
(* a structure.                                                             *)
(***************************************************************************)
EXTENDS Naturals, Sequences

CONSTANTS Statements, MaxStatements

VARIABLES env,    \* the variables: whether each is mutable, and its value
          stmt,   \* the statement carried out last
          count,  \* how many have been
          over    \* whether the program was refused

lvars == <<env, stmt, count, over>>

IntVal(n)     == [k |-> "int", n |-> n, of |-> << >>]
FunVal(n)     == [k |-> "fun", n |-> n, of |-> << >>]
Compound(k, of) == [k |-> k, n |-> 0, of |-> of]

RECURSIVE Within(_, _)
\* The path leads somewhere in v.
Within(v, path) == path = << >> \/ (Head(path) \in DOMAIN v.of /\ Within(v.of[Head(path)], Tail(path)))

RECURSIVE Part(_, _)
Part(v, path) == IF path = << >> THEN v ELSE Part(v.of[Head(path)], Tail(path))

RECURSIVE With(_, _, _)
With(v, path, w) ==
  IF path = << >> THEN w ELSE [v EXCEPT !.of[Head(path)] = With(@, Tail(path), w)]

AtomDefined(e) == e.t = "read" => e.x \in DOMAIN env /\ Within(env[e.x].val, e.path)
Defined(e) == IF e.t \in {"struct", "array", "ret"} THEN \A m \in DOMAIN e.of : AtomDefined(e.of[m]) ELSE AtomDefined(e)

AtomVal(e) == CASE e.t = "int"  -> IntVal(e.n)
                [] e.t = "fun"  -> FunVal(e.n)
                [] e.t = "read" -> Part(env[e.x].val, e.path)
Val(e) == IF e.t \in {"struct", "array", "ret"}
            THEN Compound(IF e.t = "array" THEN "array" ELSE "struct", [m \in DOMAIN e.of |-> AtomVal(e.of[m])])
            ELSE AtomVal(e)

Declared(x, mut, v) == [z \in DOMAIN env \cup {x} |-> IF z = x THEN [mut |-> mut, val |-> v] ELSE env[z]]

Carried(s) == /\ stmt' = s /\ count' = count + 1 /\ UNCHANGED over
              /\ Defined(s.e)
              /\ CASE s.t = "set" /\ s.x \notin DOMAIN env -> env' = Declared(s.x, s.mut, Val(s.e))
                   [] s.t = "set" /\ s.x \in DOMAIN env ->
                        env[s.x].mut /\ env' = [env EXCEPT ![s.x].val = Val(s.e)]
                   [] s.t = "member" ->
                        /\ s.x \in DOMAIN env /\ Within(env[s.x].val, s.path)
                        /\ env' = [env EXCEPT ![s.x].val = With(@, s.path, Val(s.e))]
                   [] s.t = "either" ->
                        /\ {s.x, s.y} \subseteq DOMAIN env
                        /\ env' = [env EXCEPT ![IF s.then THEN s.x ELSE s.y].val = Val(s.e)]

\* The compiler may refuse a statement, and then the program means nothing.
Refused == ~over /\ over' = TRUE /\ UNCHANGED <<env, stmt, count>>

LInit == env = << >> /\ stmt = << >> /\ count = 0 /\ over = FALSE

LNext == (~over /\ \E s \in Statements : Carried(s)) \/ Refused

LSpec == LInit /\ [][LNext]_lvars

=============================================================================
