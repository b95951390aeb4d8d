--------------------------- MODULE MCBlockService ---------------------------
(* Instances of BlockService for TLC.                                      *)
EXTENDS BlockService, TLC

CONSTANTS w1, w2, r1

SomeClients == {w1, w2, r1}
SomeOp == w1 :> "write" @@ w2 :> "write" @@ r1 :> "read"

Request(start, size, data) == [start |-> start, size |-> size, data |-> data]

(* With blocks of 2 and a count of 2 bits: a part of the last block of the *)
(* device, whole blocks before it, size 0, and a size beyond the count,    *)
(* whose data is longer than the buffer for it.                            *)
SomeRequests ==
  { Request(4, 3, 3), Request(3, 4, 4), Request(0, 0, 0), Request(0, 9, 9) }

(* The writers are alike.                                                  *)
Symmetric == Permutations({w1, w2})

=============================================================================
