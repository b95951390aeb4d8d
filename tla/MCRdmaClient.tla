---------------------------- MODULE MCRdmaClient ----------------------------
(* Instances of RdmaClient for TLC: the .cfg files give the sizes.         *)
EXTENDS RdmaClient

(* malloc returned a cleared block.                                        *)
CleanHeap == {[queued |-> 0, curOffset |-> 0, ioCompleted |-> 0]}

=============================================================================
