---------------------------- MODULE MCLocalTests ----------------------------
(* Instances of LocalTests for TLC.                                        *)
EXTENDS LocalTests

Test(kind, n, depth, fn) == [kind |-> kind, n |-> n, depth |-> depth, fn |-> fn]

(* Enough writes to overflow the completion ring of a depth of one, and to *)
(* fill an AIO context of three with batches of two.                       *)
EachTest ==
  { Test("poll", 5, 1, 1), Test("large", 5, 1, 1), Test("ml", 4, 1, 2),
    Test("mt", 3, 1, 2), Test("aio", 5, 2, 1), Test("aios", 5, 2, 1),
    Test("lb", 3, 1, 1), Test("sb", 3, 1, 1) }

=============================================================================
