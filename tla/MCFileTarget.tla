---------------------------- MODULE MCFileTarget ----------------------------
(* Instances of FileTarget for TLC.                                        *)
EXTENDS FileTarget, TLC

CONSTANTS c1, c2

Two == {c1, c2}

Arguments(kind, depth, n, fn) == [kind |-> kind, depth |-> depth, n |-> n, fn |-> fn]

Pair(a, b) == c1 :> a @@ c2 :> b

(* The threads of one process; two processes with different numbers of     *)
(* writes; one of each kind, one with as many writes as its completion     *)
(* ring takes without a refusal; one whose writes overflow the completion  *)
(* ring; one without files and one without requests.                       *)
SomeConfs ==
  { Pair(Arguments("mt", 1, 2, 2), Arguments("mt", 1, 2, 2)),
    Pair(Arguments("expr", 2, 2, 1), Arguments("expr", 2, 1, 1)),
    Pair(Arguments("expr", 1, 3, 2), Arguments("large", 1, 1, 1)),
    Pair(Arguments("large", 1, 4, 1), Arguments("large", 1, 1, 1)),
    Pair(Arguments("expr", 1, 1, 0), Arguments("large", 1, 0, 1)) }

=============================================================================
