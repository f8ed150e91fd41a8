----------------------------- MODULE MCHeaders -----------------------------
(* Two compilers that import the same headers, each header twice as the      *)
(* survey and the real pass do, one of them also one in a directory.         *)
EXTENDS HeaderCache

MCHeads  == {"io", "dir/io", "math"}
MCBase   == [h \in MCHeads |-> IF h = "dir/io" THEN "io" ELSE h]
MCFuns   == {"puts", "open", "sin"}
MCDecls  == [h \in MCHeads |-> CASE h = "io" -> {"puts", "open"}
                                 [] h = "dir/io" -> {"open"}
                                 [] OTHER -> {"sin"}]

TwoWants   == [p \in {1, 2} |-> IF p = 1 THEN <<"io", "io">> ELSE <<"io", "math">>]
MixedWants == [p \in {1, 2} |-> IF p = 1 THEN <<"io", "math", "io">> ELSE <<"io", "dir/io">>]

=============================================================================
