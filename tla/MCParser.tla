------------------------------ MODULE MCParser ------------------------------
(***************************************************************************)
(* The texts on which Parser is checked.                                   *)
(***************************************************************************)
EXTENDS Parser

Chain2(o, p, lo, hi) == [f |-> "chain", ops |-> <<o, p>>, lo |-> lo, hi |-> hi]

\* One operator of each level of the table.
OnePerLevel == {"pow", "div", "sub", "shl", "gt", "iand", "ior", "lor", "assign", "pipe"}

MaxContent == 3
StringChars == {"a", "n", "\\", "\"", " ", "/", "NL", "TAB"}

Tokens == {<<c>> : c \in {"a", "1", "(", ")", "[", "]", "{", "}", ";", "-", "!", ".", "=", "?", ":", ",",
                          "\"", "'", "@", "#", "NL"}}
          \cup {<<"+", "+">>, <<"-", ">">>, <<"|", ">">>, <<"/", "*">>, <<"/", "/">>}

MaxTokens == 3

\* The lines of a function, an expression of its own each.
LineTokens == {<<c>> : c \in {"a", ";", "=", "!", "?", ":", "NL"}} \cup {<<"-", ">">>}

Lines(toks) == <<<<"(">>, <<")">>, <<"{">>>> \o toks \o <<<<"}">>>>

KeyForms == {[f |-> "key", op |-> op] : op \in DOMAIN CustomStr}

MCForms ==
  {Chain2(o, p, 0, 0) : o \in DOMAIN Precedence, p \in DOMAIN Precedence}
  \cup {Chain2(o, p, g, g + 1) : o \in OnePerLevel, p \in OnePerLevel, g \in {1, 2}}
  \cup {[f |-> "string", s |-> s] : s \in UNION {[1..n -> StringChars] : n \in 0..MaxContent}}
  \cup {[f |-> "tokens", toks |-> s] : s \in UNION {[1..n -> Tokens] : n \in 1..MaxTokens}}
  \cup {[f |-> "tokens", toks |-> Lines(s)] : s \in [1..4 -> LineTokens]}
  \cup KeyForms

=============================================================================
