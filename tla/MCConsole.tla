----------------------------- MODULE MCConsole -----------------------------
(* Model values for checking Console.                                      *)
EXTENDS Console

CONSTANTS c1, c2, i1

\* One browser that sends every frame and runs up to three requests ahead;
\* two browsers that compete for the console, one of them reading.
MCScripts ==
  {[c \in {c1, c2} |-> IF c = c1 THEN [window |-> 3, sends |-> Requests] ELSE None],
   [c \in {c1, c2} |-> IF c = c1 THEN [window |-> 1, sends |-> {"read"}]
                                 ELSE [window |-> 0, sends |-> {}]]}
=============================================================================
