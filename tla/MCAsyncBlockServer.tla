------------------------- MODULE MCAsyncBlockServer -------------------------
(* Instances of AsyncBlockServer for TLC.                                  *)
EXTENDS AsyncBlockServer

CONSTANTS a, b, c

ThreeCalls == {a, b, c}
OneCall == {a}

=============================================================================
