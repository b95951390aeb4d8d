----------------------------- MODULE UringEngine -----------------------------
(***************************************************************************)
(* The io_uring half of a worker of benchmark.cc: how one block write is   *)
(* prepared, batched, submitted and reaped.  do_io_io_uring (lines         *)
(* 166-202) and reap_rdma_cq (lines 563-601) contain the same statements;  *)
(* both are modelled by the actions below, and the modules UringWorker and *)
(* RdmaClient put their own loop around them.                              *)
(*                                                                         *)
(* The submission ring, the requests in the kernel and the completion ring *)
(* are external (liburing and the kernel); they are modelled from the way  *)
(* the worker uses them.                                                   *)
(***************************************************************************)
EXTENDS Integers, Sequences

CONSTANTS
  QD,         \* io_uring_queue_depth
  SqEntries,  \* slots of the submission ring the kernel makes for QD
  Batch,      \* io_uring_batch_submit
  Bs,         \* bs, the size of one write
  FileSize,   \* file_size
  UInt,       \* how many values an unsigned has: 2^32
  Heap,       \* what the fields that launch_worker leaves unset may hold
  Runtime     \* bound on the turns of a thread's loop within -runtime seconds

(* The kernel rounds the queue depth up and refuses 0.  Nothing relates    *)
(* Batch to QD: parse_args accepts any pair.                               *)
ASSUME EngineAssumption ==
  /\ QD \in Nat \ {0}
  /\ SqEntries \in Nat /\ SqEntries >= QD
  /\ Batch \in Nat
  /\ Bs \in Nat \ {0}
  /\ FileSize \in Nat /\ FileSize >= Bs
  /\ UInt \in Nat /\ UInt > QD
  /\ Heap \subseteq [queued : 0 .. (UInt - 1), curOffset : Nat, ioCompleted : Nat]
  /\ Heap # {}

ASSUME RuntimeAssumption == Runtime \in Nat

VARIABLES
  epc,          \* the step of the block write in progress ("idle": none)
  call,         \* the arguments and the count of reap_io_uring_cq
  free,         \* free_io_units_io_uring
  queued,       \* io_uring_sqe_queued
  curOffset,    \* cur_offset
  ioCompleted,  \* io_completed
  sq,           \* entries prepared in the submission ring, not submitted
  inflight,     \* entries the kernel has accepted and not completed
  cq            \* results in the completion ring, oldest first

fields == <<free, queued, curOffset, ioCompleted>>
ring   == <<sq, inflight, cq>>
engineVars == <<epc, call, fields, ring>>

Results == {"ok", "err"}     \* cqe->res >= 0, cqe->res < 0
NoCall  == [min |-> 0, reaped |-> 0, ret |-> "idle"]

(* Only the first word of the worker is cleared (memset of sizeof(worker), *)
(* the size of a pointer) and only the fields assigned by name are set, so *)
(* three of them start with what the heap block held, h.                   *)
EngineInit(h) ==
  /\ epc = "idle"
  /\ call = NoCall
  /\ free = QD
  /\ queued = h.queued
  /\ curOffset = h.curOffset
  /\ ioCompleted = h.ioCompleted
  /\ sq = 0
  /\ inflight = 0
  /\ cq = <<>>

-----------------------------------------------------------------------------
(* Preparing a write.                                                      *)

NextOffsetPlain(off) == IF off + Bs >= FileSize THEN 0 ELSE off + Bs

(* The offset of the write after the one at off.                           *)
NextOffset(off) == IF off + Bs + Bs >= FileSize THEN 0 ELSE off + Bs

(* The worker starts to write one block.                                   *)
BeginWrite ==
  /\ epc = "idle"
  /\ epc' = "getsqe"
  /\ UNCHANGED <<call, fields, ring>>

(* reap_io_uring_cq(worker, min), called before the step ret.              *)
CallReap(min, ret) ==
  /\ epc' = "reap"
  /\ call' = [min |-> min, reaped |-> 0, ret |-> ret]

PrepareNoDebit ==
  /\ epc = "getsqe"
  /\ IF sq < SqEntries
     THEN /\ sq' = sq + 1
          /\ curOffset' = NextOffset(curOffset)
          /\ queued' = (queued + 1) % UInt
          /\ epc' = IF queued' = Batch THEN "submit" ELSE "units"
          /\ UNCHANGED <<call, free, ioCompleted, inflight, cq>>
     ELSE CallReap(0, "getsqe") /\ UNCHANGED <<fields, ring>>

(* io_uring_get_sqe.  A slot is there: the write is prepared in it and     *)
(* counted.  NULL: reap what there is and ask again.                       *)
Prepare ==
  /\ epc = "getsqe"
  /\ IF sq < SqEntries
     THEN /\ sq' = sq + 1
          /\ curOffset' = NextOffset(curOffset)
          /\ free' = free - 1
          /\ queued' = (queued + 1) % UInt
          /\ epc' = IF queued' = Batch THEN "submit" ELSE "units"
          /\ UNCHANGED <<call, ioCompleted, inflight, cq>>
     ELSE CallReap(0, "getsqe") /\ UNCHANGED <<fields, ring>>

-----------------------------------------------------------------------------
(* Submitting a batch: while (io_uring_sqe_queued != 0) io_uring_submit.   *)

SubmitAllCounted(k) ==
  /\ epc = "submit"
  /\ queued # 0
  /\ k \in 1 .. sq
  /\ sq' = sq - k
  /\ inflight' = inflight + k
  /\ queued' = 0
  /\ UNCHANGED <<epc, call, free, curOffset, ioCompleted, cq>>

(* io_uring_submit returns k > 0.                                          *)
Submit(k) ==
  /\ epc = "submit"
  /\ queued # 0
  /\ k \in 1 .. sq
  /\ sq' = sq - k
  /\ inflight' = inflight + k
  /\ queued' = (queued - k) % UInt
  /\ UNCHANGED <<epc, call, free, curOffset, ioCompleted, cq>>

(* io_uring_submit returns 0 or an error: "im busy", reap and retry.       *)
SubmitBusy ==
  /\ epc = "submit"
  /\ queued # 0
  /\ CallReap(0, "submit")
  /\ UNCHANGED <<fields, ring>>

SubmitDone ==
  /\ epc = "submit"
  /\ queued = 0
  /\ epc' = "units"
  /\ UNCHANGED <<call, fields, ring>>

-----------------------------------------------------------------------------
(* The worker stops when it has no unit left until one comes back.         *)

HasUnits ==
  /\ epc = "units"
  /\ free # 0
  /\ epc' = "idle"
  /\ UNCHANGED <<call, fields, ring>>

NoUnitsIgnored ==
  /\ epc = "units"
  /\ free = 0
  /\ CallReap(0, "idle")
  /\ UNCHANGED <<fields, ring>>

NoUnits ==
  /\ epc = "units"
  /\ free = 0
  /\ CallReap(1, "idle")
  /\ UNCHANGED <<fields, ring>>

-----------------------------------------------------------------------------
(* reap_io_uring_cq.                                                       *)

(* One turn of io_uring_for_each_cqe.                                      *)
ReapCqe ==
  /\ epc = "reap"
  /\ cq # <<>> /\ Head(cq) = "ok"
  /\ cq' = Tail(cq)
  /\ call' = [call EXCEPT !.reaped = @ + 1]
  /\ ioCompleted' = ioCompleted + 1
  /\ free' = free + 1
  /\ UNCHANGED <<epc, queued, curOffset, sq, inflight>>

(* cqe->res < 0: return -1 without marking the entry seen, and every       *)
(* caller goes to its err label, which ends the thread.                    *)
ReapError ==
  /\ epc = "reap"
  /\ cq # <<>> /\ Head(cq) = "err"
  /\ epc' = "err"
  /\ UNCHANGED <<call, fields, ring>>

(* The ring is empty and min entries were reaped.  Short of min the loop   *)
(* polls again and changes nothing.                                        *)
ReapReturn ==
  /\ epc = "reap"
  /\ cq = <<>>
  /\ call.reaped >= call.min
  /\ epc' = call.ret
  /\ UNCHANGED <<call, fields, ring>>

-----------------------------------------------------------------------------
(* The kernel finishes some accepted write; a short write is no error.     *)
Complete ==
  /\ inflight > 0
  /\ inflight' = inflight - 1
  /\ \E r \in Results : cq' = Append(cq, r)
  /\ UNCHANGED <<epc, call, fields, sq>>

EngineStep ==
  \/ Prepare
  \/ \E k \in 1 .. sq : Submit(k)
  \/ SubmitBusy \/ SubmitDone
  \/ HasUnits \/ NoUnits
  \/ ReapCqe \/ ReapError \/ ReapReturn

-----------------------------------------------------------------------------
EngineTypeOK ==
  /\ epc \in {"idle", "getsqe", "submit", "units", "reap", "err"}
  /\ call \in [min : {0, 1}, reaped : Nat, ret : {"idle", "getsqe", "submit"}]
  /\ free \in Nat
  /\ queued \in 0 .. (UInt - 1)
  /\ curOffset \in Nat
  /\ ioCompleted \in Nat
  /\ sq \in Nat
  /\ inflight \in Nat
  /\ cq \in Seq(Results)

(* Every unit of the queue depth is at exactly one place: free, in a       *)
(* prepared entry, in the kernel or in an unreaped completion.  No unit is *)
(* lost or returned twice on any path through submit, retry and reap.      *)
UnitsConserved == free + sq + inflight + Len(cq) = QD

(* io_uring_get_sqe never returns NULL, so the retry loop around it is     *)
(* never entered, whatever the batch size.                                 *)
SqeAvailable == epc = "getsqe" => free > 0 /\ sq < SqEntries

(* reap_io_uring_cq(worker, 1) spins until a completion arrives.  While it *)
(* is short of its minimum there is one to come: the writes it waits for   *)
(* are in the kernel and not still in the unsubmitted batch.               *)
NoStuckReap ==
  epc = "reap" /\ call.reaped < call.min => inflight + Len(cq) > 0

(* The submit loop only retries while the ring holds entries to submit:    *)
(* io_uring_sqe_queued counts the prepared entries exactly.                *)
QueuedIsPrepared == queued = sq

(* Every write lies inside the test file.                                  *)
OffsetsInFile == epc = "getsqe" => curOffset + Bs <= FileSize

(* The ring is used as a bounded queue of QD units.                        *)
Credits == INSTANCE IoCredits WITH
             Depth <- QD, credits <- free, prepared <- sq,
             pending <- inflight, completed <- Len(cq)

ImplementsCredits == Credits!Spec

=============================================================================
