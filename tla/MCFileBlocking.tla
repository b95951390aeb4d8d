--------------------------- MODULE MCFileBlocking ---------------------------
(* Instances of FileBlocking for TLC.                                      *)
EXTENDS FileBlocking, TLC

CONSTANTS c1, c2

Two == {c1, c2}

Arguments(kind, n, size) == [kind |-> kind, n |-> n, size |-> size]
Pair(a, b) == c1 :> a @@ c2 :> b

(* Equal sizes, different sizes, clients with the same files, and a client *)
(* that sends nothing.                                                     *)
SomeConfs ==
  { Pair(Arguments("large", 2, 1), Arguments("small", 2, 1)),
    Pair(Arguments("large", 2, 1), Arguments("small", 2, 2)),
    Pair(Arguments("small", 2, 1), Arguments("small", 2, 1)),
    Pair(Arguments("large", 2, 1), Arguments("large", 1, 1)),
    Pair(Arguments("large", 0, 1), Arguments("small", 1, 1)) }

=============================================================================
