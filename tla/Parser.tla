------------------------------- MODULE Parser -------------------------------
(***************************************************************************)
(* parser::parse on one text, and the location of an error.  The text is    *)
(* written down from a form that says what it stands for:                   *)
(*   "chain"   operators between the operands a, b, c, ..., those from lo   *)
(*             to hi between parentheses when lo < hi                       *)
(*   "string"  a string literal of the content s                            *)
(*   "key"     a structure whose only key customizes the operator op        *)
(*   "tokens"  any tokens                                                   *)
(***************************************************************************)
EXTENDS Spirit, SequencesExt, TLC

CONSTANT Forms

VARIABLES form,    \* what is being parsed
          tab,     \* the results of the rules at the positions reached
          holder,  \* rangePathHolder: the text that locations refer to
          out      \* what parse returns

vars == <<form, tab, holder, out>>


----------------------------------------------------------------------------
(* The text of a form.                                                      *)

Operand == <<"a", "b", "c", "d">>

Symbol == CustomStr @@ [assign |-> <<"=">>, pipe |-> <<"-", ">">>]

\* The character that is written for each character of a string literal.
Escaped(s) == FlattenSeq([k \in DOMAIN s |->
                CASE s[k] \in {"\\", "\""} -> <<"\\", s[k]>>
                  [] s[k] = "TAB"          -> <<"\\", "t">>
                  [] OTHER                 -> <<s[k]>>])

Text(f) ==
  CASE f.f = "chain"  ->
         LET Part(k) == (IF k = f.lo /\ f.lo < f.hi THEN <<"(">> ELSE << >>) \o <<Operand[k]>>
                        \o (IF k = f.hi /\ f.lo < f.hi THEN <<")">> ELSE << >>)
         IN FlattenSeq([k \in 1..(Len(f.ops) + 1) |->
                          Part(k) \o (IF k <= Len(f.ops) THEN Symbol[f.ops[k]] ELSE << >>)])
    [] f.f = "string" -> <<"\"">> \o Escaped(f.s) \o <<"\"">>
    [] f.f = "key"    -> <<"[">> \o CustomStr[f.op] \o <<":", "a", "]">>
    [] f.f = "tokens" -> FlattenSeq(f.toks)

code == Text(form)

----------------------------------------------------------------------------
(* locationInfo of a failure at position at, in the text from first on.     *)

\* Slip: the column is counted from the beginning of the expression.
FromFirst(first, at) ==
  LET eol == Min({k \in at..(Len(code) + 1) : k = Len(code) + 1 \/ code[k] = "NL"})
      sol == Max({k \in first..at : k = first \/ code[k - 1] = "NL"})
  IN [k |-> "located", at |-> at, row |-> Cardinality({k \in first..(at - 1) : code[k] = "NL"}) + 1,
      line |-> SubSeq(code, sol, eol - 1), distance |-> at - first]

locationInfo(first, at) ==
  LET eol == Min({k \in at..(Len(code) + 1) : k = Len(code) + 1 \/ code[k] = "NL"})
      sol == Max({k \in first..at : k = first \/ code[k - 1] = "NL"})
  IN [k |-> "located", at |-> at, row |-> Cardinality({k \in first..(at - 1) : code[k] = "NL"}) + 1,
      line |-> SubSeq(code, sol, eol - 1), distance |-> at - sol]

----------------------------------------------------------------------------
Outer == "outer"    \* the range and the path of whoever called before

Init == /\ form \in Forms
        /\ tab = << >>
        /\ holder = Outer
        /\ out = [k |-> "none"]

\* The range and the path of this text are put down.
Enter == /\ holder = Outer /\ out.k = "none"
         /\ holder' = "this"
         /\ UNCHANGED <<form, tab, out>>

\* phrase_parse, from the end of the text to its beginning.
Fill ==
  LET i == Len(code) + 1 - Cardinality(DOMAIN tab)
      unknown == [n \in DOMAIN Rule |-> No(Nothing)]
  IN /\ holder = "this" /\ i > 0 /\ out.k = "none"
     /\ \E one \in {Filled(Groups[1], code, i, (i :> unknown) @@ tab)} :
        \E two \in {Filled(Groups[2], code, i, one)} :
        \E three \in {Filled(Groups[3], code, i, two)} :
        \E four \in {Filled(Groups[4], code, i, three)} :
          tab' = Filled(Groups[5], code, i, four)
     /\ UNCHANGED <<form, holder, out>>

Result ==
  LET r == tab[1].expression
      end == Skip(code, r.at)
  IN CASE r.r = "ok" /\ end > Len(code) -> [k |-> "tree", tree |-> r.val]
       [] r.r = "ok" /\ end = 0         -> [k |-> "uncaught"]
       [] r.r \in {"ok", "no"}          -> [k |-> "plain"]
       [] r.r = "error"                 -> locationInfo(r.first, r.at)
       [] OTHER                         -> [k |-> "uncaught"]

\* Slip: the holder is emptied and not put back.
EmptyHolder == /\ 1 \in DOMAIN tab /\ out.k = "none"
               /\ out' = Result
               /\ holder' = IF Result.k = "uncaught" THEN holder ELSE "empty"
               /\ tab' = << >>
               /\ UNCHANGED form

\* The skipper runs once more after the expression; an exception that is not
\* a scopion::error passes the code that puts the holder back.
parse == /\ 1 \in DOMAIN tab /\ out.k = "none"
         /\ out' = Result
         /\ holder' = IF Result.k = "uncaught" THEN holder ELSE Outer
         /\ tab' = << >>
         /\ UNCHANGED form

Next == Enter \/ Fill \/ parse

Spec == Init /\ [][Next]_vars

----------------------------------------------------------------------------
(* What the tree of a text must be.                                         *)

\* docs/Operator.md: the table of precedences; assignment is right-to-left.
Precedence ==
  [pow |-> 12, mul |-> 11, div |-> 11, add |-> 10, sub |-> 10, rem |-> 10, shl |-> 9, shr |-> 9,
   gt |-> 8, lt |-> 8, gtq |-> 8, ltq |-> 8, eeq |-> 8, neq |-> 8, iand |-> 7, ixor |-> 6, ior |-> 5,
   land |-> 4, lor |-> 3, assign |-> 1, pipe |-> 0]

Combine(op, l, r) ==
  CASE op = "assign" -> Node(op, <<set_lval(l), r>>)
    [] op = "pipe"   -> Node("call", <<r, Node("arglist", <<l>>)>>)
    [] OTHER         -> Node(op, <<l, r>>)

RECURSIVE TableTree(_, _, _)
\* The tree of the operands from x to y: the operator that binds least, the
\* last of those that associate to the left, is the root.  Between the
\* parentheses nothing outside counts, and outside nothing between them.
TableTree(f, x, y) ==
  IF x = y THEN Leaf("variable", <<Operand[x]>>)
  ELSE LET inside == f.lo <= x /\ y <= f.hi
           open == {k \in x..(y - 1) : inside \/ f.lo >= f.hi \/ k < f.lo \/ k >= f.hi}
           low == {k \in open : \A m \in open : Precedence[f.ops[k]] <= Precedence[f.ops[m]]}
           k == IF \E m \in low : f.ops[m] = "assign" THEN Min(low) ELSE Max(low)
       IN Combine(f.ops[k], TableTree(f, x, k), TableTree(f, k + 1, y))

RECURSIVE LeavesOf(_)
\* The words of a tree in the order of the text; a call that a pipe made has
\* its argument first.
LeavesOf(e) ==
  IF e.a = << >> THEN IF e.id = << >> THEN << >> ELSE <<e.id>>
  ELSE LET kids == IF e.n = "call" /\ ~e.a[1].call THEN Reverse(e.a) ELSE e.a
       IN FlattenSeq([k \in DOMAIN kids |-> LeavesOf(kids[k])])

RECURSIVE FlagsRight(_)
FlagsRight(e) ==
  \A k \in DOMAIN e.a : /\ e.a[k].lval = (k = 1 /\ e.n = "assign")
                        /\ (e.a[k].call => k = 1 /\ e.n = "call")
                        /\ FlagsRight(e.a[k])

RECURSIVE NodesOf(_)
NodesOf(e) == {e} \cup UNION {NodesOf(e.a[k]) : k \in DOMAIN e.a}

Parsed == out.k = "tree"

----------------------------------------------------------------------------
(* Properties.                                                              *)

\* The table is filled for a suffix of the text, and parse returns a tree, an
\* error with or without a place, or an exception.
TypeOK ==
  /\ form.f \in {"chain", "string", "key", "tokens"}
  /\ \E i \in 1..(Len(code) + 1) : DOMAIN tab \in {{}, i..(Len(code) + 1)}
  /\ \A i \in DOMAIN tab : \A n \in DOMAIN Rule : tab[i][n].r \in {"ok", "no", "throw", "error"}
  /\ holder \in {Outer, "this"}
  /\ out.k \in {"none", "tree", "plain", "located", "uncaught"}

\* Operators written one after another group as docs/Operator.md tells, also
\* where one symbol begins another (| || |>, - ->, > >= >>): the order of the
\* alternatives of cmp_expr, iand_expr, ior_expr and add_expr.
PrecedenceAsTable ==
  (out.k # "none" /\ form.f = "chain" /\ form.lo >= form.hi) =>
    out = [k |-> "tree", tree |-> TableTree(form, 1, Len(form.ops) + 1)]

\* Parentheses around an expression with an operator group it and leave no
\* other trace, though function_def and short_function_def begin with the same
\* parenthesis, are tried before it and read its first identifier as an argument.
GroupingExact ==
  (out.k # "none" /\ form.f = "chain" /\ form.lo < form.hi) =>
    out = [k |-> "tree", tree |-> TableTree(form, 1, Len(form.ops) + 1)]

\* A tree that is returned has every word of the text once and in its place:
\* an alternative that was given up half-way (primary_def, assign_expr_def,
\* post_sinop_expr_def) leaves nothing behind.
TextOrder ==
  (Parsed /\ form.f = "tokens"
    /\ ~\E k \in DOMAIN code : \E s \in {<<"+", "+">>, <<"-", "-">>, <<"#">>} : Starts(code, k, s)) =>
    LET Letters(s) == SelectSeq(s, LAMBDA c : c \in Alnum)
    IN Letters(FlattenSeq(LeavesOf(out.tree))) = Letters(code)

\* What is assigned to is marked, and nothing else is: not the operand that
\* ++ and -- read as well as write (assign_op<inc, 1>), and what is called is
\* marked only under a call.
FlagsExact == Parsed => ~out.tree.lval /\ ~out.tree.call /\ FlagsRight(out.tree)

\* No text makes an array without elements: the translator looks at the first
\* element of an array before it asks whether there is one (translator.cpp:411),
\* and only the order of the alternatives of primary_def keeps [] from it.
NoEmptyArray == Parsed => \A e \in NodesOf(out.tree) : e.n = "array" => e.a # << >>

\* No exception of the grammar or of the skipper, which fails inside a comment
\* that is not closed, leaves parse: whoever called finds the holder as it was.
ErrorsReported == out.k # "none" => out.k # "uncaught" /\ holder = Outer

\* The caret is under the character the message says was found, in one line of
\* the text, or just past that line where the failure is at its end.
CaretOnCulprit ==
  out.k = "located" =>
    /\ \A k \in DOMAIN out.line : out.line[k] # "NL"
    /\ out.distance <= Len(out.line)
    /\ IF out.distance = Len(out.line)
         THEN out.at = Len(code) + 1 \/ code[out.at] = "NL"
         ELSE out.line[out.distance + 1] = code[out.at]

\* A string literal stands for the content it was written from, quotes, tabs and
\* backslashes included, unless the content begins with what the skipper eats
\* or ends in a backslash, which string_def takes for an escaped quote.
StringRoundTrip ==
  (out.k # "none" /\ form.f = "string"
    /\ Skip(form.s, 1) = 1
    /\ (form.s # << >> => form.s[Len(form.s)] # "\\")) =>
    out = [k |-> "tree", tree |-> Leaf("string", form.s)]

\* docs/Operator.md:6-26: an operator with "Yes" under "Customizability" can be
\* given a meaning by a structure, which names it with a key of its own.
OperatorsCustomizable ==
  (out.k # "none" /\ form.f = "key") =>
    out = [k |-> "tree",
           tree |-> Node("structure", <<Leaf("struct_key", CustomStr[form.op]), Leaf("variable", <<"a">>)>>)]

=============================================================================
