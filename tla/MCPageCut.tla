----------------------------- MODULE MCPageCut -----------------------------
(* Pages of the four kinds for TLC. *)
EXTENDS PageCut

Pieces ==
  [home |-> [list |-> 2, sep |-> 3, end |-> 2, x |-> 4],
   dz   |-> ("gone" :> 1) @@ ("h1" :> 2) @@ ("/h1" :> 2) @@ ("p" :> 1) @@ ("blank" :> 2) @@ ("x" :> 2),
   user |-> ("error" :> 1) @@ ("meta" :> 2) @@ ("img" :> 2) @@ ("quote" :> 1) @@ ("link" :> 2)
            @@ ("/a" :> 1) @@ ("default" :> 2) @@ ("blank" :> 1) @@ ("x" :> 2),
   qsbk |-> ("article" :> 2) @@ ("apos" :> 1) @@ ("img" :> 1) @@ ("alt" :> 1) @@ ("quote" :> 1)
            @@ ("content" :> 2) @@ ("/div" :> 1) @@ ("x" :> 2)]

\* Text, and the first article: what is before it is dropped.
Starts == [t \in DOMAIN Pieces |-> IF t = "qsbk" THEN <<"x", "article">> ELSE <<"x">>]

Lengths == [home |-> 10, dz |-> 7, user |-> 9, qsbk |-> 11]
=============================================================================
