---------------------------- MODULE ProgramText ----------------------------
(* Shorthand for the lines and bodies of the programs that TLC enumerates.   *)
EXTENDS Flow

L(op)            == [op |-> op, x |-> None, y |-> None, a |-> 1, b |-> 1, ty |-> I32]
On(op, n)        == [L(op) EXCEPT !.x = n]
CallOn(op, n, m) == [L(op) EXCEPT !.x = n, !.y = m]
Literal(n, c)    == [L("fun") EXCEPT !.x = n, !.a = c]
RetOf(t)         == [L("ret") EXCEPT !.ty = t]
Encl(op, c, d)   == [L(op) EXCEPT !.a = c, !.b = d]

\* The bodies of at most n lines out of ls.
UpTo(n, ls) == UNION {[1..k -> ls] : k \in 0..n}

\* A file holds one expression.
OneExpression(p) ==
  \A b \in DOMAIN p : \A i \in DOMAIN p[b] : p[b][i].op = "import" => Len(p[p[b][i].a]) = 1

=============================================================================
