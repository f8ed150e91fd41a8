------------------------------ MODULE Grammar ------------------------------
(***************************************************************************)
(* The grammar of scopion (lib/parser/parser.cpp), a Boost.Spirit X3 grammar *)
(* as data, and the tree it builds.  Spirit gives the rules their meaning.  *)
(*                                                                         *)
(* A text is a sequence of characters, each a one-letter string; "NL" is a  *)
(* line feed.  A result is a record whose r is                             *)
(*   "ok"     parsed up to, not including, position at                      *)
(*   "no"     failed; the caller may try something else                     *)
(*   "throw"  an x3::expectation_failure raised at position at              *)
(*   "error"  the same after expression::on_error has made it a             *)
(*            scopion::error; first is where that expression began          *)
(* val is x3::_val of the rule being parsed, which X3 does not put back     *)
(* when an alternative fails; attr is the list of attributes collected.     *)
(***************************************************************************)
EXTENDS Naturals, Sequences

Alpha == {"a", "b", "c", "d", "e", "f", "i", "l", "n", "r", "s", "t", "u"}
Digit == {"0", "1"}
Alnum == Alpha \cup Digit
Space == {" ", "NL"}

----------------------------------------------------------------------------
(* The tree.  Flags are those of ast::attribute: lval, to_call (call) and    *)
(* the attributes written with # (at).                                      *)

Node(n, a)  == [n |-> n, a |-> a, id |-> << >>, lval |-> FALSE, call |-> FALSE, at |-> {}]
Leaf(n, id) == [Node(n, << >>) EXCEPT !.id = id]
Nothing     == Node("nothing", << >>)

set_lval(e)    == [e EXCEPT !.lval = TRUE]
set_to_call(e) == [e EXCEPT !.call = TRUE]
set_attr(e, k, v) == [e EXCEPT !.at = {p \in @ : p[1] # k} \cup {<<k, v>>}]

\* Op::str of the operators whose is_customizable is true.
CustomStr ==
  [add |-> <<"+">>, sub |-> <<"-">>, pow |-> <<"*", "*">>, mul |-> <<"*">>, div |-> <<"/">>,
   rem |-> <<"%">>, shl |-> <<"<", "<">>, shr |-> <<">", ">">>, iand |-> <<"&">>, ior |-> <<"|">>,
   ixor |-> <<"^">>, land |-> <<"&", "&">>, lor |-> <<"|", "|">>, eeq |-> <<"=", "=">>,
   neq |-> <<"!", "=">>, gt |-> <<">">>, lt |-> <<"<">>, gtq |-> <<">", "=">>, ltq |-> <<"<", "=">>,
   call |-> <<"(", ")">>, at |-> <<"[", "]">>, lnot |-> <<"!">>, inot |-> <<"~">>,
   inc |-> <<"+", "+">>, dec |-> <<"-", "-">>]

----------------------------------------------------------------------------
(* X3's combinators.                                                        *)

Lit(s)       == [k |-> "lit", s |-> s]
Tok(c)       == [k |-> "tok", c |-> c]
R(n)         == [k |-> "rule", n |-> n]
Must(e)      == [k |-> "must", e |-> e]            \* a > b is a >> expect[b]
Then(es)     == [k |-> "seq", es |-> es]           \* a >> b
Alt(es)      == [k |-> "alt", es |-> es]           \* a | b
Star(e)      == [k |-> "star", e |-> e]            \* *a
Opt(e)       == [k |-> "opt", e |-> e]             \* -a
But(s, long) == [k |-> "but", s |-> s, long |-> long]
Do(f, e)     == [k |-> "do", f |-> f, op |-> "", e |-> e]
DoOp(op, e)  == [k |-> "do", f |-> "op", op |-> op, e |-> e]
As(n, e)     == [k |-> "do", f |-> "as", op |-> n, e |-> e]

Assign(e) == Do("assign", e)

----------------------------------------------------------------------------
(* The rules, by their names in the source.                                 *)

Comma == Opt(Lit(<<",">>))
Attribute == Do("attr", Then(<<Lit(<<"#">>), R("identifier"), Opt(Then(<<Lit(<<":">>), Must(R("attribute_val"))>>))>>))

identifier_def    == Then(<<As("identifier", Tok("word")), Star(Attribute)>>)
variable_def      == As("variable", Tok("word"))
string_def        == As("string", Tok("string"))
raw_string_def    == As("string", Tok("raw_string"))
pre_variable_def  == As("pre_variable", Tok("pre"))
struct_key_def    == As("struct_key", Tok("key"))
attribute_val_def == As("attribute_val", Tok("aval"))

array_def == Do("array", Then(<<Lit(<<"[">>), Must(Star(Then(<<R("expression"), Comma>>))), Must(Lit(<<"]">>))>>))

structure_def ==
  Do("struct", Then(<<Lit(<<"[">>),
                      Star(Then(<<R("struct_key"), Lit(<<":">>), R("expression"), Comma>>)),
                      Lit(<<"]">>)>>))

Arguments == Then(<<Lit(<<"(">>), Must(Star(Then(<<R("identifier"), Comma>>)))>>)
Body      == Star(Then(<<R("expression"), Lit(<<";">>)>>))

\* Slip: a function must close its parenthesis once it has opened one.
MustClose ==
  Do("func", Then(<<Arguments, Must(Lit(<<")">>)), Lit(<<"{">>), Must(Body), Must(Lit(<<"}">>))>>))

function_def ==
  Do("func", Then(<<Arguments, Lit(<<")">>), Lit(<<"{">>), Must(Body), Must(Lit(<<"}">>))>>))

short_function_def ==
  Do("short_func", Then(<<Arguments, Lit(<<")">>), Must(R("expression"))>>))

scope_def == Do("scope", Then(<<Lit(<<"{">>), Must(Body), Must(Lit(<<"}">>))>>))

Grouped == Assign(Then(<<Lit(<<"(">>), R("expression"), Lit(<<")">>)>>))

\* Slip: an array is tried before a structure.
ArrayFirst ==
  Alt(<<As("decimal", Tok("real")), As("integer", Tok("int")), As("boolean", Tok("bool")),
        Assign(R("string")), Assign(R("raw_string")), Assign(R("variable")), Assign(R("pre_variable")),
        Assign(R("array")), Assign(R("structure")), Assign(R("function")),
        Assign(R("short_function")), Assign(R("scope")), Grouped>>)

primary_def ==
  Alt(<<As("decimal", Tok("real")), As("integer", Tok("int")), As("boolean", Tok("bool")),
        Assign(R("string")), Assign(R("raw_string")), Assign(R("variable")), Assign(R("pre_variable")),
        Assign(R("structure")), Assign(R("array")), Assign(R("function")),
        Assign(R("short_function")), Assign(R("scope")), Grouped>>)

Chain(sub, alts) == Then(<<Assign(R(sub)), Star(Alt(alts))>>)
Infix(op, s, sub) == DoOp(op, Then(<<s, Must(R(sub))>>))

dot_expr_def ==
  Chain("primary", <<Infix("odot", Lit(<<".", ":">>), "struct_key"),
                     Infix("adot", Lit(<<".", "=">>), "struct_key"),
                     DoOp("dot", Then(<<Lit(<<".">>), R("struct_key")>>))>>)

attr_expr_def == Chain("dot_expr", <<Attribute>>)

call_expr_def ==
  Chain("attr_expr",
        <<DoOp("call", Then(<<Lit(<<"(">>), Must(Star(Then(<<R("expression"), Comma>>))), Must(Lit(<<")">>))>>)),
          DoOp("at", Then(<<Lit(<<"[">>), Must(R("expression")), Must(Lit(<<"]">>))>>))>>)

post_sinop_expr_def ==
  Alt(<<DoOp("inc", Then(<<R("call_expr"), Lit(<<"+", "+">>)>>)),
        DoOp("dec", Then(<<R("call_expr"), Lit(<<"-", "-">>)>>)),
        Assign(R("call_expr"))>>)

pre_sinop_expr_def ==
  Alt(<<Assign(R("post_sinop_expr")),
        Infix("lnot", Lit(<<"!">>), "post_sinop_expr"),
        Infix("inot", Lit(<<"~">>), "post_sinop_expr"),
        Infix("inc", Lit(<<"+", "+">>), "post_sinop_expr"),
        Infix("dec", Lit(<<"-", "-">>), "post_sinop_expr")>>)

pow_expr_def == Chain("pre_sinop_expr", <<Infix("pow", Lit(<<"*", "*">>), "pre_sinop_expr")>>)

mul_expr_def == Chain("pow_expr", <<Infix("mul", Lit(<<"*">>), "pow_expr"),
                                    Infix("div", Lit(<<"/">>), "pow_expr")>>)

add_expr_def == Chain("mul_expr", <<Infix("add", Lit(<<"+">>), "mul_expr"),
                                    DoOp("sub", Then(<<Lit(<<"-">>), R("mul_expr")>>)),
                                    Infix("rem", Lit(<<"%">>), "mul_expr")>>)

shift_expr_def == Chain("add_expr", <<Infix("shr", Lit(<<">", ">">>), "add_expr"),
                                      Infix("shl", Lit(<<"<", "<">>), "add_expr")>>)

\* Slip: > is taken without looking for >=.
GreaterFirst == Chain("shift_expr",
  <<Infix("gt", Lit(<<">">>), "shift_expr"), Infix("lt", But(<<"<">>, <<"<", "=">>), "shift_expr"),
    Infix("gtq", Lit(<<">", "=">>), "shift_expr"), Infix("ltq", Lit(<<"<", "=">>), "shift_expr"),
    Infix("eeq", Lit(<<"=", "=">>), "shift_expr"), Infix("neq", Lit(<<"!", "=">>), "shift_expr")>>)

cmp_expr_def == Chain("shift_expr",
  <<Infix("gt", But(<<">">>, <<">", "=">>), "shift_expr"), Infix("lt", But(<<"<">>, <<"<", "=">>), "shift_expr"),
    Infix("gtq", Lit(<<">", "=">>), "shift_expr"), Infix("ltq", Lit(<<"<", "=">>), "shift_expr"),
    Infix("eeq", Lit(<<"=", "=">>), "shift_expr"), Infix("neq", Lit(<<"!", "=">>), "shift_expr")>>)

iand_expr_def == Chain("cmp_expr", <<Infix("iand", But(<<"&">>, <<"&", "&">>), "cmp_expr")>>)
ixor_expr_def == Chain("iand_expr", <<Infix("ixor", Lit(<<"^">>), "iand_expr")>>)
ior_expr_def  == Chain("ixor_expr", <<Infix("ior", But(<<"|">>, <<"|", "|">>), "ixor_expr")>>)
land_expr_def == Chain("ior_expr", <<Infix("land", Lit(<<"&", "&">>), "ior_expr")>>)
lor_expr_def  == Chain("land_expr", <<Infix("lor", Lit(<<"|", "|">>), "land_expr")>>)

cond_expr_def ==
  Chain("lor_expr", <<DoOp("cond", Then(<<Lit(<<"?">>), Must(R("lor_expr")), Must(Lit(<<":">>)), Must(R("lor_expr"))>>))>>)

assign_expr_def ==
  Alt(<<Then(<<Assign(R("cond_expr")), Lit(<<"=">>), DoOp("assign", R("assign_expr"))>>),
        Assign(R("cond_expr"))>>)

pipe_expr_def == Chain("assign_expr", <<Do("pipe", Then(<<Lit(<<"-", ">">>), Must(R("assign_expr"))>>))>>)

ret_expr_def == Alt(<<Assign(R("pipe_expr")), Infix("ret", Lit(<<"|", ">">>), "pipe_expr")>>)

expression_def == Assign(R("ret_expr"))

Rule ==
  [identifier |-> identifier_def, variable |-> variable_def, string |-> string_def, raw_string |-> raw_string_def,
   pre_variable |-> pre_variable_def, struct_key |-> struct_key_def, attribute_val |-> attribute_val_def,
   array |-> array_def, structure |-> structure_def, function |-> function_def,
   short_function |-> short_function_def, scope |-> scope_def, primary |-> primary_def,
   dot_expr |-> dot_expr_def, attr_expr |-> attr_expr_def, call_expr |-> call_expr_def,
   post_sinop_expr |-> post_sinop_expr_def, pre_sinop_expr |-> pre_sinop_expr_def,
   pow_expr |-> pow_expr_def, mul_expr |-> mul_expr_def, add_expr |-> add_expr_def,
   shift_expr |-> shift_expr_def, cmp_expr |-> cmp_expr_def, iand_expr |-> iand_expr_def,
   ixor_expr |-> ixor_expr_def, ior_expr |-> ior_expr_def, land_expr |-> land_expr_def,
   lor_expr |-> lor_expr_def, cond_expr |-> cond_expr_def, assign_expr |-> assign_expr_def,
   pipe_expr |-> pipe_expr_def, ret_expr |-> ret_expr_def, expression |-> expression_def]

=============================================================================
