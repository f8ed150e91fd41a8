----------------------------- MODULE MCCodegen -----------------------------
(* Programs of one function made of scopes, conditionals, returns, imports   *)
(* and variables (Control), programs in which functions are given to         *)
(* functions (Higher), and programs of nested functions, none of which is    *)
(* given a function (Call).                                                  *)
EXTENDS ProgramText

MCNames == {"x", "f", "g"}
MCTypes == {Void, I32, "double"}
MCBodies == 1..4

----------------------------------------------------------------------------
(* Body 1 encloses bodies 2 and 3, body 2 encloses body 3.                   *)

Block3 == UpTo(1, {RetOf(I32), On("set", "x"), L("select")})
Block2 == UpTo(2, {RetOf(I32), On("set", "x"), Encl("scope", 3, 3)})
            \cup UpTo(1, {RetOf("double"), On("use", "x"), L("select"), L("bad"), L("retself")})
Main == UpTo(2, {RetOf(I32), On("set", "x"), On("use", "x"), Encl("scope", 2, 2),
                 Encl("cond", 2, 3), L("select"), L("retself")})
          \cup UpTo(1, {Encl("import", 2, 2)})
          \cup {<<Encl("import", 3, 3), l>> : l \in {RetOf(I32), On("use", "x")}}

ControlPrograms ==
  [body : {p \in Main \X Block2 \X Block3 \X {<< >>} : OneExpression(p)},
   param : {[b \in MCBodies |-> None]}, eager : {[b \in MCBodies |-> TRUE]},
   rettype : {<<r, r, r, None>> : r \in {None, I32}}, top : {1}, notEntry : {FALSE}]

----------------------------------------------------------------------------
(* Body 1 binds body 2, which takes a parameter, to f and body 3 to g, and   *)
(* calls them on each other and on themselves, also from the scope 4.        *)

Calls == {CallOn(op, x, y) : op \in {"call", "retcall"}, x \in {"f", "g"}, y \in {"f", "g"}}

\* Functions are bound, then called once or twice; or they are called in a scope.
Binder == {<<Literal("f", 2), Literal("g", 3)>> \o s :
            s \in UpTo(1, Calls) \cup {<<CallOn("call", "f", "g"), CallOn("retcall", "g", "f")>>}}
Inside == {<<Literal("f", 2), Literal("g", 3), Encl("scope", 4, 4)>>}
Block4 == {<<c>> : c \in Calls} \cup {<<Literal("f", 2), CallOn("call", "f", "g")>>,
                                      <<Literal("f", 3), CallOn("retcall", "g", "f")>>}

\* The parameter of bodies 2 and 3 is f.
Taker == {<<CallOn("call", "f", "f")>>, <<On("retcall", "f")>>, <<CallOn("retcall", "f", "g")>>,
          <<Literal("g", 3), CallOn("retcall", "g", "f")>>, <<Literal("g", 3), CallOn("call", "f", "g")>>,
          <<RetOf(I32)>>}
Given == {<<RetOf(I32)>>, <<On("use", "f")>>, <<CallOn("retcall", "f", "f")>>, <<On("retcall", "f")>>}

HigherPrograms ==
  [body : (Binder \X Taker \X Given \X {<< >>}) \cup (Inside \X Taker \X Given \X Block4),
   param : {<<None, "f", q, None>> : q \in {None, "f"}},
   eager : {<<TRUE, FALSE, e, TRUE>> : e \in BOOLEAN},
   rettype : {[b \in MCBodies |-> None]}, top : {1}, notEntry : {FALSE}]

----------------------------------------------------------------------------
(* Body 1 binds body 2 to f and calls it, also from the scope 3; body 2 may  *)
(* bind body 3 as a function of its own.                                     *)

\* Imports of header files, with and without #link:gc.
Headers == {L("header"), L("link"), L("gclink")}

Outer == UpTo(3, {Literal("f", 2), On("call", "f"), CallOn("retcall", "f", "x"),
                  Encl("scope", 3, 3), On("heap", "x")})
           \cup {<<Literal("f", 2), l, m>> : l \in {On("set", "f"), Literal("f", 3), Literal("f", 2)},
                                             m \in {On("use", "f"), On("call", "f"), On("retcall", "f")}}
           \cup {<<l, m>> : l \in Headers, m \in {On("heap", "x"), Encl("scope", 3, 3)}}
           \cup {<<L("header"), L("link"), On("heap", "x")>>, <<On("heap", "x"), L("link"), RetOf(I32)>>}
Middle == UpTo(1, {RetOf(I32), L("retself"), On("use", "x"), On("call", "f")})
            \cup {<<On("heap", "x"), RetOf(I32)>>, <<Literal("f", 3), On("call", "f")>>,
                  <<Literal("f", 3), On("retcall", "f")>>, <<Encl("scope", 3, 3), RetOf(I32)>>,
                  <<RetOf(I32), Encl("scope", 3, 3)>>}
Inner  == {<< >>, <<RetOf(I32)>>, <<Literal("f", 2), On("call", "f")>>, <<On("heap", "x")>>}

\* Literals are nested: body 3 holds body 2 only where body 2 does not hold body 3.
Nested(p) == ~(\E i \in DOMAIN p[2] : p[2][i].a = 3) \/ ~(\E i \in DOMAIN p[3] : p[3][i].a = 2)

\* The parameter of body 2, whether bodies 2 and 3 are eager, the return type of body 2, not-entry.
Variants == {<<None, TRUE, None, FALSE>>, <<None, FALSE, None, FALSE>>, <<"x", FALSE, None, FALSE>>,
             <<"x", TRUE, None, TRUE>>, <<"x", FALSE, I32, FALSE>>}

CallPrograms ==
  {[body |-> p, param |-> <<None, v[1], None, None>>, eager |-> <<TRUE, v[2], v[2], TRUE>>,
    rettype |-> <<None, v[3], None, None>>, top |-> 1, notEntry |-> v[4]]
     : p \in {q \in Outer \X Middle \X Inner \X {<< >>} : Nested(q)}, v \in Variants}

MCPrograms == ControlPrograms \cup HigherPrograms \cup CallPrograms

=============================================================================
