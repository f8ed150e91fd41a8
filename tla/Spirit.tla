------------------------------- MODULE Spirit -------------------------------
(***************************************************************************)
(* What Boost.Spirit X3 does with the rules of Grammar: the skipper, the    *)
(* terminals, the semantic actions and an interpreter of the combinators.   *)
(***************************************************************************)
EXTENDS Grammar, FiniteSets, FiniteSetsExt

Starts(t, i, s) == /\ i + Len(s) <= Len(t) + 1
                   /\ \A k \in 1..Len(s) : t[i + k - 1] = s[k]

\* The end of the run of characters of S that begins at i.
RunEnd(t, i, S) == CHOOSE k \in i..(Len(t) + 1) :
                     /\ k = Len(t) + 1 \/ t[k] \notin S
                     /\ \A j \in i..(k - 1) : t[j] \in S

RECURSIVE Skip(_, _)
\* space_comment: over blanks and comments; 0 when a comment is not closed,
\* which is an expectation failure at the end of the text.
Skip(t, i) ==
  LET CommentTo(close) ==
        LET ends == {k \in (i + 2)..Len(t) : Starts(t, k, close)}
        IN IF ends = {} THEN 0 ELSE Skip(t, Min(ends) + Len(close))
  IN CASE i > Len(t)                    -> i
       [] Starts(t, i, <<"/", "/">>)    -> CommentTo(<<"NL">>)
       [] Starts(t, i, <<"/", "*">>)    -> CommentTo(<<"*", "/">>)
       [] t[i] \in Space                -> Skip(t, i + 1)
       [] OTHER                         -> i

Ok(at, val, attr) == [r |-> "ok", at |-> at, val |-> val, attr |-> attr]
No(val)           == [r |-> "no", val |-> val]
Throw(at)         == [r |-> "throw", at |-> at]

----------------------------------------------------------------------------
(* Terminals, at j, where the skipper has stopped.                          *)

RECURSIVE Content(_, _, _)
\* The characters up to the quote q, in which \q stands for q.
Content(t, j, q) ==
  CASE j > Len(t) \/ t[j] = q    -> [at |-> j, s |-> << >>]
    [] Starts(t, j, <<"\\", q>>) -> LET c == Content(t, j + 2, q) IN [c EXCEPT !.s = <<q>> \o @]
    [] OTHER                     -> LET c == Content(t, j + 1, q) IN [c EXCEPT !.s = <<t[j]>> \o @]

Escapes == [n |-> "NL", t |-> "TAB", b |-> "BS", f |-> "FF", r |-> "CR", v |-> "VT", a |-> "BEL"]

\* Slip: the escapes of a letter are left as they are.
RECURSIVE unescapeNot(_)
unescapeNot(s) ==
  CASE Len(s) > 1 /\ s[1] = "\\" /\ s[2] = "\\" -> <<"\\">> \o unescapeNot(SubSeq(s, 3, Len(s)))
    [] s = << >>                                -> << >>
    [] OTHER                                    -> <<s[1]>> \o unescapeNot(Tail(s))

RECURSIVE unescape(_)
unescape(s) ==
  CASE Len(s) > 1 /\ s[1] = "\\" ->
         <<IF s[2] \in DOMAIN Escapes THEN Escapes[s[2]] ELSE s[2]>> \o unescape(SubSeq(s, 3, Len(s)))
    [] s = << >> -> << >>
    [] OTHER     -> <<s[1]>> \o unescape(Tail(s))

\* x3::lexeme skips before it stops skipping, so blanks after the quote are lost.
Quoted(t, j, q, val) ==
  IF ~Starts(t, j, <<q>>) THEN No(val)
  ELSE LET k == Skip(t, j + 1)
           c == Content(t, k, q)
       IN CASE k = 0          -> Throw(Len(t) + 1)
            [] c.at > Len(t)  -> No(val)
            [] OTHER          -> Ok(c.at + 1, val, <<IF q = "\"" THEN unescape(c.s) ELSE c.s>>)

Pairable == {"<", ">", "&", "|"}
Equable  == {"!", "=", "<", ">"}
Single   == {"-", "+", "*", "/", "%", "<", ">", "&", "|", "^", "~", "!"}

\* struct_key: the first alternative that matches, but a character that = may
\* follow must be followed by it.
Key(t, j, val) ==
  LET Take(n) == Ok(j + n, val, <<SubSeq(t, j, j + n - 1)>>)
      c == IF j > Len(t) THEN "" ELSE t[j]
      d == IF j >= Len(t) THEN "" ELSE t[j + 1]
  IN CASE c \in Alpha                                   -> Take(RunEnd(t, j, Alnum \cup {"_"}) - j)
       [] c \in Pairable /\ d \in Pairable              -> Take(2)
       [] c \in Equable                                 -> IF d = "=" THEN Take(2) ELSE Throw(j + 1)
       [] c \in Single                                  -> Take(1)
       [] <<c, d>> \in {<<"[", "]">>, <<"(", ")">>}     -> Take(2)
       [] OTHER                                         -> No(val)

\* x3::int_, strict_double and bool_: numbers have a sign of their own, and
\* neither inf, nan, true nor false has to be a whole word.
Number(t, j, val, real) ==
  LET s == IF j <= Len(t) /\ t[j] \in {"+", "-"} THEN j + 1 ELSE j
      d == RunEnd(t, s, Digit)
      e == IF real THEN RunEnd(t, d + 1, Digit) ELSE d
      named == {w \in {<<"n", "a", "n">>, <<"i", "n", "f">>} : Starts(t, s, w)}
  IN CASE real /\ named # {}                                    -> Ok(s + 3, val, <<SubSeq(t, j, s + 2)>>)
       [] s > Len(t)                                            -> No(val)
       [] ~real /\ d > s                                        -> Ok(d, val, <<SubSeq(t, j, d - 1)>>)
       [] real /\ Starts(t, d, <<".">>) /\ (d > s \/ e > d + 1) -> Ok(e, val, <<SubSeq(t, j, e - 1)>>)
       [] OTHER                                                 -> No(val)

Booleans == {<<"t", "r", "u", "e">>, <<"f", "a", "l", "s", "e">>}

Word(t, j, val) ==
  IF j <= Len(t) /\ t[j] \in Alpha
    THEN LET e == RunEnd(t, j, Alnum \cup {"_"}) IN Ok(e, val, <<SubSeq(t, j, e - 1)>>)
    ELSE No(val)

Token(c, t, j, val) ==
  CASE c = "word"       -> Word(t, j, val)
    [] c = "string"     -> Quoted(t, j, "\"", val)
    [] c = "raw_string" -> Quoted(t, j, "'", val)
    [] c = "key"        -> Key(t, j, val)
    [] c = "int"        -> Number(t, j, val, FALSE)
    [] c = "real"       -> Number(t, j, val, TRUE)
    [] c = "bool"       -> LET w == {b \in Booleans : Starts(t, j, b)}
                           IN IF w = {} THEN No(val)
                              ELSE LET b == CHOOSE b \in w : TRUE IN Ok(j + Len(b), val, <<b>>)
    [] c = "pre"        -> IF ~Starts(t, j, <<"@">>) THEN No(val)
                           ELSE LET w == Word(t, j + 1, val)
                                IN IF w.r = "no" THEN Throw(j + 1) ELSE Ok(w.at, val, <<SubSeq(t, j, w.at - 1)>>)
    [] c = "aval"       -> LET e == RunEnd(t, j, Alnum \cup {"-", "_", ".", "/", "*", "[", "]", "{", "}"})
                           IN Ok(e, val, <<SubSeq(t, j, e - 1)>>)

----------------------------------------------------------------------------
(* Semantic actions: the new x3::_val.                                      *)

One == Leaf("integer", <<"1">>)

\* Slip: the operand that is read again is marked as assigned to.
StepMarked(op, x) == Node("assign", <<set_lval(x), Node(op, <<set_lval(x), One>>)>>)

\* assign_op of inc and dec: the operand is written down twice.
Step(op, x) == Node("assign", <<set_lval(x), Node(op, <<x, One>>)>>)

\* Slip: the piped value is the callee.
PipeSwapped(val, x) == Node("call", <<val, Node("arglist", <<x>>)>>)

assign_pipe(val, x) == Node("call", <<x, Node("arglist", <<val>>)>>)

assign_op(op, val, a) ==
  CASE op = "assign"                 -> Node(op, <<set_lval(val), a[1]>>)
    [] op = "call"                   -> Node(op, <<set_to_call(val), Node("arglist", a[1])>>)
    [] op = "inc"                    -> Step("add", a[1])
    [] op = "dec"                    -> Step("sub", a[1])
    [] op \in {"ret", "lnot", "inot"} -> Node(op, <<a[1]>>)
    [] OTHER                         -> Node(op, <<val>> \o a)

\* std::map: a key that is written twice keeps the second value.  The members
\* are in the order of the text; only the set of them matters here.
assign_struct(items) ==
  LET n == Len(items) \div 2
      kept == {i \in 1..n : \A j \in (i + 1)..n : items[2 * j - 1].id # items[2 * i - 1].id}
      nth[m \in 0..n] == IF m = 0 THEN << >>
                         ELSE nth[m - 1] \o (IF m \in kept THEN <<items[2 * m - 1], items[2 * m]>> ELSE << >>)
  IN Node("structure", nth[n])

Action(e, val, a) ==
  CASE e.f = "assign"     -> a[1]
    [] e.f = "as"         -> Leaf(e.op, a[1])
    [] e.f = "op"         -> assign_op(e.op, val, a)
    [] e.f = "pipe"       -> assign_pipe(val, a[1])
    [] e.f = "func"       -> Node("function", <<Node("arguments", a[1]), Node("lines", a[2])>>)
    [] e.f = "short_func" -> Node("function", <<Node("arguments", a[1]), Node("lines", <<a[2]>>)>>)
    [] e.f = "struct"     -> assign_struct(a[1])
    [] e.f \in {"array", "scope"} -> Node(e.f, a[1])
    [] e.f = "attr"       -> set_attr(val, a[1].id, IF Len(a) = 2 THEN a[2].id ELSE << >>)

----------------------------------------------------------------------------
(* The interpreter.  What a rule makes of a text depends on the position     *)
(* alone; tab holds the results of the rules at the positions from i on, so  *)
(* that a rule tried again at the same place, as X3 does, is looked up.      *)

RECURSIVE Run(_, _, _, _, _)
RECURSIVE Each(_, _, _, _, _, _)
RECURSIVE FirstOf(_, _, _, _, _)
RECURSIVE Repeat(_, _, _, _, _, _)

Each(es, t, i, val, attr, tab) ==
  IF es = << >> THEN Ok(i, val, attr)
  ELSE LET r == Run(Head(es), t, i, val, tab)
       IN IF r.r = "ok" THEN Each(Tail(es), t, r.at, r.val, attr \o r.attr, tab) ELSE r

FirstOf(es, t, i, val, tab) ==
  IF es = << >> THEN No(val)
  ELSE LET r == Run(Head(es), t, i, val, tab)
       IN IF r.r = "no" THEN FirstOf(Tail(es), t, i, r.val, tab) ELSE r

\* The attribute of a repetition is the list of what it has collected.
Repeat(e, t, i, val, attr, tab) ==
  LET r == Run(e, t, i, val, tab)
  IN CASE r.r = "ok" -> Repeat(e, t, r.at, r.val, attr \o r.attr, tab)
       [] r.r = "no" -> Ok(i, r.val, <<attr>>)
       [] OTHER      -> r

Run(e, t, i, val, tab) ==
  LET j == Skip(t, i)
  IN CASE e.k \in {"lit", "but", "tok"} /\ j = 0 -> Throw(Len(t) + 1)
       [] e.k = "lit"  -> IF Starts(t, j, e.s) THEN Ok(j + Len(e.s), val, << >>) ELSE No(val)
       [] e.k = "but"  -> IF Starts(t, j, e.s) /\ ~Starts(t, j, e.long) THEN Ok(j + Len(e.s), val, << >>) ELSE No(val)
       [] e.k = "tok"  -> Token(e.c, t, j, val)
       [] e.k = "must" -> LET r == Run(e.e, t, i, val, tab)
                          IN IF r.r = "no" THEN Throw(IF e.e = R("struct_key") \/ e.e.k = "lit" THEN j ELSE i) ELSE r
       [] e.k = "seq"  -> Each(e.es, t, i, val, << >>, tab)
       [] e.k = "alt"  -> FirstOf(e.es, t, i, val, tab)
       [] e.k = "star" -> Repeat(e.e, t, i, val, << >>, tab)
       [] e.k = "opt"  -> LET r == Run(e.e, t, i, val, tab) IN IF r.r = "no" THEN Ok(i, r.val, << >>) ELSE r
       [] e.k = "do"   -> LET r == Run(e.e, t, i, val, tab)
                          IN IF r.r = "ok" THEN Ok(r.at, Action(e, r.val, r.attr), << >>) ELSE r
       [] e.k = "rule" -> LET r == tab[i][e.n]
                          IN CASE r.r = "ok" -> Ok(r.at, val, <<r.val>>)
                               [] r.r = "no" -> No(val)
                               [] OTHER      -> r

\* Slip: an expectation failure is not made into a scopion::error.
NoHandler(first, r) == r

\* expression::on_error: first is the beginning of the innermost expression.
on_error(first, r) == [r |-> "error", at |-> r.at, first |-> first]

\* A rule starts with a fresh x3::_val.
RuleAt(n, t, i, tab) ==
  LET r == Run(Rule[n], t, i, Nothing, tab)
  IN IF r.r = "throw" /\ n = "expression" THEN on_error(i, r) ELSE r

\* The rules, each after those it begins with, in groups that one
\* evaluation fills.
Groups ==
  <<<<"attribute_val", "identifier", "variable", "string", "raw_string", "pre_variable", "struct_key">>,
    <<"structure", "array", "function", "short_function", "scope", "primary">>,
    <<"dot_expr", "attr_expr", "call_expr", "post_sinop_expr", "pre_sinop_expr", "pow_expr", "mul_expr">>,
    <<"add_expr", "shift_expr", "cmp_expr", "iand_expr", "ixor_expr", "ior_expr", "land_expr">>,
    <<"lor_expr", "cond_expr", "assign_expr", "pipe_expr", "ret_expr", "expression">>>>

RECURSIVE Filled(_, _, _, _)
Filled(names, t, i, tb) ==
  IF names = << >> THEN tb
  ELSE Filled(Tail(names), t, i, [tb EXCEPT ![i][Head(names)] = RuleAt(Head(names), t, i, tb)])

=============================================================================
