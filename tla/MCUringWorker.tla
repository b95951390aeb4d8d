---------------------------- MODULE MCUringWorker ----------------------------
(* Instances of UringWorker for TLC: the .cfg files give the sizes.        *)
EXTENDS UringWorker

(* malloc returned a cleared block.                                        *)
CleanHeap == {[queued |-> 0, curOffset |-> 0, ioCompleted |-> 0]}

(* Or one in which the place of io_completed was used before.              *)
UsedHeap == CleanHeap \cup {[queued |-> 0, curOffset |-> 0, ioCompleted |-> 2]}

=============================================================================
