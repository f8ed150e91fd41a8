------------------------------ MODULE MCDriver ------------------------------
(* Two compilers: all that can happen to one while another, for a program of  *)
(* its own, runs through the whole pipeline.                                  *)
EXTENDS Driver

MCPaths == {"a", "b"}

Plain == [cli |-> "run", opens |-> TRUE, front |-> "ok", src |-> 1, type |-> "obj",
          out |-> "a", writable |-> TRUE, libs |-> <<2, 1, 2>>]

Every == {[Plain EXCEPT !.cli = c] : c \in {"help", "version", "usage"}}
           \cup {[Plain EXCEPT !.opens = FALSE]}
           \cup {[Plain EXCEPT !.front = f, !.type = t, !.writable = w] :
                   f \in {"parse", "translate", "entry", "verify", "ok"}, t \in Types, w \in BOOLEAN}
Other == {[Plain EXCEPT !.src = 2, !.type = t, !.out = o] : t \in {"asm", "obj"}, o \in MCPaths}

MCJobs    == <<Every, Other>>
AloneJobs == <<{Plain}>>

=============================================================================
