------------------------------ MODULE RdmaClient ------------------------------
(***************************************************************************)
(* The client of the user-space RDMA benchmark (do_io_user_rdma with       *)
(* -client, from the start of its loop): it posts RDMA reads of the        *)
(* server's data pool, reaps their completions with reap_rdma_cq, and      *)
(* writes each block that arrives to the test file through UringEngine.    *)
(* The adapter (the queue pair, its completion queue and the completion    *)
(* channel) is external and modelled from the verbs the code calls.        *)
(***************************************************************************)
EXTENDS UringEngine, FiniteSets

CONSTANTS
  RQD,        \* rdma_queue_depth
  Modes,      \* of BOOLEAN: with or without -event
  PollBatch,  \* POLL_BATCH
  ReapFreq,   \* RDMA_REAP_FREQ
  PoolSize    \* rmt_buf.size, the size of both data pools

ASSUME ClientAssumption ==
  /\ RQD \in Nat \ {0}
  /\ Modes \subseteq BOOLEAN
  /\ PollBatch \in Nat \ {0}
  /\ ReapFreq \in Nat \ {0}
  /\ PoolSize \in Nat /\ PoolSize >= Bs

VARIABLES
  event,    \* -event: sleep on completion events instead of polling
  rpc,      \* where the client thread is
  rleft,    \* iterations the runtime still allows
  rcall,    \* arguments and count of reap_rdma_cq
  posted,   \* rdma_wr_posted
  offset,   \* the local offset of the next read
  rfree,    \* free_io_units_rdma
  flying,   \* blocks of the posted reads, oldest first
  rcq,      \* the RDMA completion queue
  armed,    \* the completion queue will raise an event
  events,   \* events in the completion channel
  wc,       \* polled completions not yet handled
  polled,   \* what ibv_poll_cq returned for them
  iov,      \* the block the one iovec on the stack points at
  meant,    \* the block each write was prepared for, oldest first
  taken     \* the block each write was taken from by the kernel

loopVars == <<rleft, posted, offset, rfree>>
nicVars  == <<flying, rcq, armed, events>>
reapVars == <<rcall, wc, polled>>
iovVars  == <<iov, meant, taken>>
clientVars == <<engineVars, event, rpc, loopVars, nicVars, reapVars, iovVars>>

NoBlock == -1

(* The thread has returned or has gone to its err label.                   *)
Ended == rpc \in {"done", "err"} \/ epc = "err"

(* rdma_handshake leaves the queue empty and armed.                        *)
ClientInit ==
  /\ \E h \in Heap : EngineInit(h)
  /\ event \in Modes
  /\ rpc = "loop"
  /\ rleft = Runtime
  /\ rcall = [min |-> 0, got |-> 0, ret |-> "loop"]
  /\ posted = 0
  /\ offset = 0
  /\ rfree = RQD
  /\ flying = <<>> /\ rcq = <<>>
  /\ armed = TRUE /\ events = 0
  /\ wc = <<>> /\ polled = 0
  /\ iov = NoBlock /\ meant = <<>> /\ taken = <<>>

-----------------------------------------------------------------------------
(* The loop of do_io_user_rdma.                                            *)

WaitStep == IF event THEN "event" ELSE "poll"

(* reap_rdma_cq(worker, min, wc), called before the step ret.              *)
CallReapRdma(min, ret) ==
  /\ rpc' = WaitStep
  /\ rcall' = [min |-> min, got |-> 0, ret |-> ret]

NextPoolOffsetShort(off) == IF off + Bs + Bs + Bs >= PoolSize THEN 0 ELSE off + Bs

NextPoolOffsetPlain(off) == IF off + Bs >= PoolSize THEN 0 ELSE off + Bs

(* The next block of the pool.                                             *)
NextPoolOffset(off) == IF off + Bs + Bs >= PoolSize THEN 0 ELSE off + Bs

(* Reads the queue pair still accounts for: the slot of a work request is  *)
(* free again once its completion has been polled.                         *)
InQp == Len(flying) + Len(rcq)

(* One turn up to the periodic reap.  The send queue has RQD slots; a post *)
(* beyond that fails and ends the thread.                                  *)
PostRead ==
  /\ rpc = "loop"
  /\ rleft > 0
  /\ rleft' = rleft - 1
  /\ offset' = NextPoolOffset(offset)
  /\ posted' = posted + 1
  /\ IF InQp < RQD
     THEN /\ flying' = Append(flying, offset)
          /\ IF posted' % ReapFreq = 0
             THEN CallReapRdma(0, "debit")
             ELSE rpc' = "debit" /\ UNCHANGED rcall
     ELSE /\ rpc' = "err"
          /\ UNCHANGED <<flying, rcall>>
  /\ UNCHANGED <<engineVars, event, rfree, rcq, armed, events, wc, polled, iovVars>>

(* ibv_post_send fails for another reason.                                 *)
PostFails ==
  /\ rpc = "loop"
  /\ rleft > 0
  /\ rleft' = rleft - 1
  /\ offset' = NextPoolOffset(offset)
  /\ posted' = posted + 1
  /\ rpc' = "err"
  /\ UNCHANGED <<engineVars, event, rfree, nicVars, reapVars, iovVars>>

DebitNoReap ==
  /\ rpc = "debit"
  /\ rfree' = rfree - 1
  /\ rpc' = "loop"
  /\ UNCHANGED <<engineVars, event, rleft, posted, offset, rcall, nicVars, wc, polled, iovVars>>

(* The unit of the read is taken only now, after the periodic reap.        *)
Debit ==
  /\ rpc = "debit"
  /\ rfree' = rfree - 1
  /\ IF rfree' = 0
     THEN CallReapRdma(1, "loop")
     ELSE rpc' = "loop" /\ UNCHANGED rcall
  /\ UNCHANGED <<engineVars, event, rleft, posted, offset, nicVars, wc, polled, iovVars>>

(* runtime_exceeded; stopped = true.                                       *)
StopClient ==
  /\ rpc = "loop"
  /\ rpc' = "end"
  /\ UNCHANGED <<engineVars, event, loopVars, nicVars, reapVars, iovVars>>

(* rdma_client_terminate posts one more request and the thread returns; a  *)
(* failed post is only reported.                                           *)
Terminate ==
  /\ rpc = "end"
  /\ rpc' = "done"
  /\ UNCHANGED <<engineVars, event, loopVars, nicVars, reapVars, iovVars>>

-----------------------------------------------------------------------------
(* reap_rdma_cq.                                                           *)

(* ibv_get_cq_event blocks until the channel holds an event.               *)
GetEvent ==
  /\ rpc = "event"
  /\ events > 0
  /\ events' = events - 1
  /\ rpc' = "notify"
  /\ UNCHANGED <<engineVars, event, loopVars, flying, rcq, armed, reapVars, iovVars>>

ReqNotifySkipped ==
  /\ rpc = "notify"
  /\ rpc' = "poll"
  /\ UNCHANGED <<engineVars, event, loopVars, nicVars, reapVars, iovVars>>

ReqNotify ==
  /\ rpc = "notify"
  /\ armed' = TRUE
  /\ rpc' = "poll"
  /\ UNCHANGED <<engineVars, event, loopVars, flying, rcq, events, reapVars, iovVars>>

(* ibv_poll_cq takes up to POLL_BATCH completions.                         *)
Poll ==
  /\ rpc = "poll"
  /\ rcq # <<>>
  /\ polled' = IF Len(rcq) < PollBatch THEN Len(rcq) ELSE PollBatch
  /\ wc' = SubSeq(rcq, 1, polled')
  /\ rcq' = SubSeq(rcq, polled' + 1, Len(rcq))
  /\ rpc' = "each"
  /\ UNCHANGED <<engineVars, event, loopVars, flying, armed, events, rcall, iovVars>>

(* ibv_poll_cq finds nothing: go again, or return to the caller.  The      *)
(* event count given to ibv_ack_cq_events is left out: it only matters     *)
(* when the queue is destroyed, which the program never does.              *)
PollEmpty ==
  /\ rpc = "poll"
  /\ rcq = <<>>
  /\ rpc' = IF rcall.got < rcall.min THEN WaitStep ELSE rcall.ret
  /\ UNCHANGED <<engineVars, event, loopVars, nicVars, reapVars, iovVars>>

(* The next polled read succeeded: its block is written to the file.       *)
WriteBlock ==
  /\ rpc = "each" /\ wc # <<>> /\ Head(wc).status = "ok"
  /\ BeginWrite
  /\ UNCHANGED <<event, rpc, loopVars, nicVars, reapVars, iovVars>>

(* wc[i].status is not IBV_WC_SUCCESS: reap_rdma_cq returns -1.            *)
ReadFailed ==
  /\ rpc = "each" /\ epc = "idle" /\ wc # <<>> /\ Head(wc).status = "err"
  /\ rpc' = "err"
  /\ UNCHANGED <<engineVars, event, loopVars, nicVars, reapVars, iovVars>>

(* The verbs of the waiting steps may fail: reap_rdma_cq returns -1.       *)
VerbFailed ==
  /\ ~Ended
  /\ rpc \in {"event", "notify", "poll"}
  /\ rpc' = "err"
  /\ UNCHANGED <<engineVars, event, loopVars, nicVars, reapVars, iovVars>>

BatchHandledOne ==
  /\ rpc = "each" /\ epc = "idle" /\ wc = <<>>
  /\ rcall' = [rcall EXCEPT !.got = @ + polled]
  /\ rfree' = rfree + 1
  /\ polled' = 0
  /\ rpc' = "poll"
  /\ UNCHANGED <<engineVars, event, rleft, posted, offset, nicVars, wc, iovVars>>

(* All polled completions are handled; their units come back together.     *)
BatchHandled ==
  /\ rpc = "each" /\ epc = "idle" /\ wc = <<>>
  /\ rcall' = [rcall EXCEPT !.got = @ + polled]
  /\ rfree' = rfree + polled
  /\ polled' = 0
  /\ rpc' = "poll"
  /\ UNCHANGED <<engineVars, event, rleft, posted, offset, nicVars, wc, iovVars>>

PrepareBlockStaleIov ==
  /\ Prepare
  /\ IF sq < SqEntries
     THEN /\ meant' = Append(meant, Head(wc).block)
          /\ wc' = Tail(wc)
          /\ UNCHANGED <<iov, taken>>
     ELSE UNCHANGED <<iovVars, wc>>
  /\ UNCHANGED <<event, rpc, loopVars, nicVars, rcall, polled>>

(* The entry points at the iovec, and the iovec, which all entries share,  *)
(* now at the block.                                                       *)
PrepareBlock ==
  /\ Prepare
  /\ IF sq < SqEntries
     THEN /\ iov' = Head(wc).block
          /\ meant' = Append(meant, Head(wc).block)
          /\ wc' = Tail(wc)
          /\ UNCHANGED taken
     ELSE UNCHANGED <<iovVars, wc>>
  /\ UNCHANGED <<event, rpc, loopVars, nicVars, rcall, polled>>

(* The kernel reads the iovec of an entry when it accepts the entry.       *)
SubmitBlocks ==
  /\ \E k \in 1 .. sq : Submit(k) /\ taken' = taken \o [j \in 1 .. k |-> iov]
  /\ UNCHANGED <<event, rpc, loopVars, nicVars, reapVars, iov, meant>>

BlockStep ==
  /\ SubmitBusy \/ SubmitDone \/ HasUnits \/ NoUnits \/ ReapCqe \/ ReapError \/ ReapReturn
  /\ UNCHANGED <<event, rpc, loopVars, nicVars, reapVars, iovVars>>

-----------------------------------------------------------------------------
(* The adapter finishes the oldest read: a reliable connection completes   *)
(* its requests in order.  An armed queue raises one event.                *)
ReadDone ==
  /\ flying # <<>>
  /\ \E st \in Results :
       rcq' = Append(rcq, [block |-> Head(flying), status |-> st])
  /\ flying' = Tail(flying)
  /\ events' = IF armed THEN events + 1 ELSE events
  /\ armed' = FALSE
  /\ UNCHANGED <<engineVars, event, rpc, loopVars, reapVars, iovVars>>

(* The kernel finishes a write.                                            *)
WriteDone == Complete /\ UNCHANGED <<event, rpc, loopVars, nicVars, reapVars, iovVars>>

(* After the end only the adapter and the kernel still move.               *)
AllQuiet == Ended /\ flying = <<>> /\ inflight = 0 /\ UNCHANGED clientVars

Client ==
  /\ ~Ended
  /\ \/ PostRead \/ Debit \/ StopClient \/ Terminate
     \/ GetEvent \/ ReqNotify \/ Poll \/ PollEmpty \/ WriteBlock \/ ReadFailed
     \/ BatchHandled
     \/ PrepareBlock \/ SubmitBlocks \/ BlockStep

ClientNext == Client \/ (~Ended /\ PostFails) \/ VerbFailed \/ ReadDone \/ WriteDone \/ AllQuiet

ClientSpec == ClientInit /\ [][ClientNext]_clientVars

(* The client is scheduled, no call has to fail, the kernel accepts a      *)
(* batch in the end, and adapter and kernel finish what they accepted.     *)
ClientFairness ==
  /\ WF_clientVars(Client)
  /\ SF_clientVars(SubmitBlocks)
  /\ WF_clientVars(ReadDone)
  /\ WF_clientVars(WriteDone)

ClientFairSpec == ClientSpec /\ ClientFairness

-----------------------------------------------------------------------------
(* Properties.                                                             *)

Blocks == 0 .. (PoolSize - 1)
Wc == [block : Blocks, status : Results]

(* Each variable has its type.                                             *)
ClientTypeOK ==
  /\ EngineTypeOK
  /\ event \in Modes
  /\ rpc \in {"loop", "debit", "event", "notify", "poll", "each", "end", "done", "err"}
  /\ rleft \in 0 .. Runtime
  /\ rcall \in [min : {0, 1}, got : Nat, ret : {"debit", "loop"}]
  /\ posted \in Nat
  /\ offset \in Blocks
  /\ rfree \in Nat
  /\ flying \in Seq(Blocks)
  /\ rcq \in Seq(Wc)
  /\ armed \in BOOLEAN
  /\ events \in Nat
  /\ wc \in Seq(Wc)
  /\ polled \in Nat
  /\ iov \in Blocks \cup {NoBlock}
  /\ meant \in Seq(Blocks)
  /\ taken \in Seq(Blocks)

InReap == rpc \in {"event", "notify", "poll", "each"}

(* A read is posted before its unit is taken.                              *)
Undebited == rpc = "debit" \/ (InReap /\ rcall.ret = "debit")

(* The RDMA units: free, posted, completed or in the batch being handled.  *)
(* Between a post and its debit one read is ahead of the count.            *)
RdmaUnitsConserved ==
  rpc # "err" =>
    rfree + InQp + polled = RQD + (IF Undebited THEN 1 ELSE 0)

(* The send queue never overflows, although the reap in the middle of a    *)
(* turn lets the count of free units pass the queue depth; and there is a  *)
(* slot left for the request of rdma_client_terminate.                     *)
PostFits == rpc \in {"loop", "end"} => InQp < RQD

(* The client never sleeps on an event that cannot come: with an empty     *)
(* channel the queue is armed, no completion has slipped in unseen, and a  *)
(* read is on its way.                                                     *)
NoLostWakeup ==
  rpc = "event" /\ events = 0 => armed /\ rcq = <<>> /\ flying # <<>>

(* No block of the pool is the target of two reads that are not yet        *)
(* handled, if the pool has a block for every unit.                        *)
Unhandled == [i \in 1 .. Len(flying) |-> flying[i]]
             \o [i \in 1 .. Len(rcq) |-> rcq[i].block]
             \o [i \in 1 .. Len(wc) |-> wc[i].block]
BlocksDistinct ==
  \A i, j \in 1 .. Len(Unhandled) : Unhandled[i] = Unhandled[j] => i = j

(* Every read stays inside the data pools.                                 *)
ReadsInPool == \A i \in 1 .. Len(flying) : flying[i] + Bs <= PoolSize

(* The position of the last write of the batch that write i belongs to.    *)
BatchEnd(i) == i + (Batch - 1) - ((i - 1) % Batch)

(* The writes of a batch share one iovec, so that all of them, in however  *)
(* many pieces and after however many refusals the kernel takes them, are  *)
(* made from the block of the last one, which is there by then, and never  *)
(* from a block of another batch.  Only a batch of one writes each block   *)
(* that was read.                                                          *)
BatchFromLast ==
  \A i \in 1 .. Len(taken) :
    BatchEnd(i) <= Len(meant) /\ taken[i] = meant[BatchEnd(i)]

(* The client comes to its end: no wait in the two nested reap loops lasts *)
(* for ever.                                                               *)
ClientEnds == <>Ended

=============================================================================
