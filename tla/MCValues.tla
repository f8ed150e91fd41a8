------------------------------ MODULE MCValues ------------------------------
(***************************************************************************)
(* The statements on which Values is checked.                              *)
(***************************************************************************)
EXTENDS Values

Expr(t, n, x, path, of) == [t |-> t, n |-> n, x |-> x, path |-> path, of |-> of]
Num(n)       == Expr("int", n, "", << >>, << >>)
Fun(n)       == Expr("fun", n, "", << >>, << >>)
Read(x, p)   == Expr("read", 0, x, p, << >>)
Struct(of)   == Expr("struct", 0, "", << >>, of)
Array(of)    == Expr("array", 0, "", << >>, of)
Returned(of) == Expr("ret", 0, "", << >>, of)

Stmt(t, x, path, y, mut, then, e) ==
  [t |-> t, x |-> x, path |-> path, y |-> y, mut |-> mut, then |-> then, e |-> e]

\* The variable a is declared with #mut, b with or without.
Literals == {Num(1), Fun(1), Struct(<<Num(1), Num(2)>>), Struct(<<Fun(1), Num(3)>>), Struct(<<Fun(2), Num(4)>>),
             Struct(<<Read("a", << >>), Num(5)>>), Struct(2 :> Num(6)),
             Array(<<Num(1), Num(2)>>), Array(<<Fun(1), Fun(2)>>), Array(<<Read("a", << >>)>>)}
Reads == {Read("a", << >>), Read("b", << >>), Read("b", <<1>>), Read("b", <<2>>), Read("b", <<1, 2>>)}

MCStatements ==
  {Stmt("set", "a", << >>, "", TRUE, FALSE, e) : e \in Literals \cup Reads}
  \cup {Stmt("set", "b", << >>, "", mut, FALSE, e) : mut \in BOOLEAN, e \in Literals \cup {Read("a", << >>)}}
  \cup {Stmt("member", "a", <<2>>, "", FALSE, FALSE, e) : e \in {Num(7), Fun(1), Read("b", <<1, 2>>)}}
  \cup {Stmt("member", "b", p, "", FALSE, FALSE, e) :
          p \in {<<1>>, <<2>>, <<1, 2>>}, e \in {Num(7), Fun(1), Read("a", << >>)}}
  \cup {Stmt("either", "a", << >>, "b", FALSE, then, e) : then \in BOOLEAN, e \in {Num(8), Fun(1)}}

ReturnStatements == {Stmt("set", "a", << >>, "", TRUE, FALSE, e) :
                       e \in {Num(1), Struct(<<Num(1)>>), Returned(<<Num(1)>>), Read("a", <<1>>)}}

=============================================================================
