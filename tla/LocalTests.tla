----------------------------- MODULE LocalTests -----------------------------
(***************************************************************************)
(* The tests of file_rw_nvmeof.cc, but for test_small_io_uring, which is   *)
(* in SmallFiles.  The asynchronous ones share one shape: a thread issues  *)
(* N writes, a completion thread it has started counts N completions, the  *)
(* first one joins the second and prints a total.  They differ in how they *)
(* get a slot, what they do with a refused submission, and in whether they *)
(* join at all:                                                            *)
(*   poll       test_large_io_uring_poll                                   *)
(*   large      test_large_io_uring                                        *)
(*   ml, mt     test_io_uring_exp_contention, ..._multithreads_large       *)
(*   aio, aios  test_large_aio, test_small_aio                             *)
(* The blocking tests issue their writes themselves:                       *)
(*   lb, sb     test_large_blocking, test_small_blocking                   *)
(*                                                                         *)
(* io_uring, the AIO context and the file system are external.             *)
(***************************************************************************)
EXTENDS Integers, Sequences, FiniteSets

CONSTANTS
  Tests,     \* the tests and their arguments: kind, n, depth, fn
  Ctx,       \* requests an AIO context holds (io_setup)
  MaxFails   \* bound on the calls of io_getevents that fail

Kinds == {"poll", "large", "ml", "mt", "aio", "aios", "lb", "sb"}
TestType == [kind : Kinds, n : Nat \ {0}, depth : Nat \ {0}, fn : Nat \ {0}]

ASSUME TestsAssumption ==
  /\ Tests \subseteq TestType
  /\ Ctx \in Nat \ {0}
  /\ MaxFails \in Nat

Threads == {1, 2}      \* numthreads: two in mt, else thread 1 is main

VARIABLES
  test,      \* the test that runs
  crashed,   \* std::terminate: a joinable thread was destroyed
  pc,        \* pc[t]: the issuing thread
  issued,    \* issued[t]: its counter i, or cnt
  sq,        \* sq[t]: files of the prepared requests that were not submitted
  inflight,  \* inflight[t]: files of the requests in the kernel
  cq,        \* cq[t]: completions, oldest first
  written,   \* written[t]: files of the finished writes, one entry for each
  qpc,       \* qpc[t]: the completion thread
  seen,      \* seen[t]: completions it has counted
  lost,      \* lost[t]: requests that io_submit refused
  open,      \* open[t]: small files that are open
  freed,     \* freed[t]: iocbs that were deleted
  fails      \* failed calls of io_getevents

issuerVars == <<pc, issued, lost>>
ringVars   == <<sq, inflight, cq, written>>
threadVars == <<qpc, seen, freed, fails>>
vars == <<test, crashed, issuerVars, ringVars, threadVars, open>>

Aio   == test.kind \in {"aio", "aios"}
Spins == test.kind \in {"ml", "mt"}
Blocking == test.kind \in {"lb", "sb"}

Active == IF test.kind = "mt" THEN Threads ELSE {1}

Init ==
  /\ test \in Tests
  /\ crashed = FALSE
  /\ pc = [t \in Threads |-> IF t \in Active THEN "init" ELSE "none"]
  /\ issued = [t \in Threads |-> 0]
  /\ sq = [t \in Threads |-> <<>>]
  /\ inflight = [t \in Threads |-> <<>>]
  /\ cq = [t \in Threads |-> <<>>]
  /\ written = [t \in Threads |-> <<>>]
  /\ qpc = [t \in Threads |-> "none"]
  /\ seen = [t \in Threads |-> 0]
  /\ lost = [t \in Threads |-> 0]
  /\ open = [t \in Threads |-> {}]
  /\ freed = [t \in Threads |-> 0]
  /\ fails = 0

(* The file of the i-th write.                                             *)
Target(i) ==
  CASE Spins -> i % test.fn
    [] test.kind \in {"aios", "sb"} -> i
    [] OTHER -> 0

-----------------------------------------------------------------------------
(* Before the writes.                                                      *)

Goto(t, step) == pc' = [pc EXCEPT ![t] = step]

(* The ring or context, a buffer and the completion thread; poll and large *)
(* open their file first, aio, ml and mt afterwards.                       *)
Setup(t) ==
  /\ pc[t] = "init" /\ ~Blocking
  /\ qpc' = [qpc EXCEPT ![t] = "wait"]
  /\ Goto(t, IF test.kind \in {"aio", "ml", "mt"} THEN "open" ELSE "issue")
  /\ UNCHANGED <<test, crashed, issued, lost, ringVars, seen, freed, fails, open>>

(* The blocking tests only need a buffer, and the large one its file.      *)
SetupBlocking(t) ==
  /\ pc[t] = "init" /\ Blocking
  /\ Goto(t, "issue")
  /\ UNCHANGED <<test, crashed, issued, lost, ringVars, threadVars, open>>

SetupFails(t) ==
  /\ pc[t] = "init"
  /\ Goto(t, "returned")
  /\ UNCHANGED <<test, crashed, issued, lost, ringVars, threadVars, open>>

OpenFiles(t) ==
  /\ pc[t] = "open"
  /\ Goto(t, "issue")
  /\ UNCHANGED <<test, crashed, issued, lost, ringVars, threadVars, open>>

(* A return while the completion thread is joinable.                       *)
Terminate ==
  /\ crashed' = TRUE
  /\ UNCHANGED <<test, issuerVars, ringVars, threadVars, open>>

More(t) == pc[t] = "issue" /\ issued[t] < test.n

(* open fails, or io_uring_sqring_wait in the poll test.                   *)
CallFails(t) ==
  /\ \/ pc[t] = "open"
     \/ More(t) /\ test.kind \in {"poll", "aios"}
  /\ Terminate

-----------------------------------------------------------------------------
(* Blocking writes.                                                        *)

(* write, and for a small file open before it.                             *)
WriteBlocking(t) ==
  /\ Blocking /\ More(t) /\ open[t] = {}
  /\ written' = [written EXCEPT ![t] = Append(@, Target(issued[t]))]
  /\ IF test.kind = "sb"
     THEN open' = [open EXCEPT ![t] = {Target(issued[t])}] /\ UNCHANGED issued
     ELSE issued' = [issued EXCEPT ![t] = @ + 1] /\ UNCHANGED open
  /\ UNCHANGED <<test, crashed, pc, lost, sq, inflight, cq, threadVars>>

CloseSmall(t) ==
  /\ Blocking /\ More(t) /\ open[t] # {}
  /\ open' = [open EXCEPT ![t] = {}]
  /\ issued' = [issued EXCEPT ![t] = @ + 1]
  /\ UNCHANGED <<test, crashed, pc, lost, ringVars, threadVars>>

(* open, write or close fails: the test returns without a total, and a     *)
(* small file that was opened stays so.                                    *)
BlockingFails(t) ==
  /\ Blocking /\ More(t)
  /\ Goto(t, "returned")
  /\ \/ UNCHANGED open
     \/ test.kind = "sb" /\ open[t] = {} /\ open' = [open EXCEPT ![t] = {Target(issued[t])}]
  /\ UNCHANGED <<test, crashed, issued, lost, ringVars, threadVars>>

-----------------------------------------------------------------------------
(* Writing through io_uring.                                               *)

SlotFree(t) == Len(sq[t]) < test.depth

(* A submission is refused while the completion ring overflows.            *)
Refused(t) == Len(cq[t]) > 2 * test.depth

(* Hand over what is prepared, or leave it there.  Nobody looks at the     *)
(* result of io_uring_submit.                                              *)
SubmitUring(t, all) ==
  IF Refused(t)
  THEN sq' = [sq EXCEPT ![t] = all] /\ UNCHANGED inflight
  ELSE /\ sq' = [sq EXCEPT ![t] = <<>>]
       /\ inflight' = [inflight EXCEPT ![t] = @ \o all]

(* One turn of the loop.  Without a slot ml and mt ask again and poll      *)
(* waits in io_uring_sqring_wait: neither is a step.                       *)
IssueUring(t) ==
  /\ ~Aio /\ ~Blocking /\ More(t) /\ SlotFree(t)
  /\ issued' = [issued EXCEPT ![t] = @ + 1]
  /\ LET all == Append(sq[t], Target(issued[t]))
     IN  IF test.kind = "poll"
         THEN sq' = [sq EXCEPT ![t] = all] /\ UNCHANGED inflight
         ELSE SubmitUring(t, all)
  /\ UNCHANGED <<test, crashed, pc, lost, cq, written, threadVars, open>>

(* "Could not get SQE": the large test returns.                            *)
NoSlot(t) ==
  /\ test.kind = "large" /\ More(t) /\ ~SlotFree(t)
  /\ Terminate

(* IORING_SETUP_SQPOLL: a kernel thread takes the entries.                 *)
SqThread(t) ==
  /\ test.kind = "poll" /\ sq[t] # <<>> /\ ~Refused(t)
  /\ sq' = [sq EXCEPT ![t] = Tail(@)]
  /\ inflight' = [inflight EXCEPT ![t] = Append(@, Head(sq[t]))]
  /\ UNCHANGED <<test, crashed, issuerVars, cq, written, threadVars, open>>

-----------------------------------------------------------------------------
(* Writing through AIO.                                                    *)

(* A new iocb; the small test opens the file for it.                       *)
PrepareAio(t) ==
  /\ Aio /\ More(t) /\ SlotFree(t)
  /\ issued' = [issued EXCEPT ![t] = @ + 1]
  /\ sq' = [sq EXCEPT ![t] = Append(@, Target(issued[t]))]
  /\ open' = IF test.kind = "aios"
             THEN [open EXCEPT ![t] = @ \cup {Target(issued[t])}] ELSE open
  /\ UNCHANGED <<test, crashed, pc, lost, inflight, cq, written, threadVars>>

Room(t) == Ctx - (Len(inflight[t]) + Len(cq[t]))

(* io_submit takes what the context has room for.  Its result is stored    *)
(* and never read, so the rest of the batch is dropped.                    *)
SubmitAio(t) ==
  /\ Aio /\ pc[t] = "issue" /\ sq[t] # <<>>
  /\ ~SlotFree(t) \/ issued[t] = test.n
  /\ LET k == IF Len(sq[t]) <= Room(t) THEN Len(sq[t]) ELSE Room(t)
     IN  /\ inflight' = [inflight EXCEPT ![t] = @ \o SubSeq(sq[t], 1, k)]
         /\ lost' = [lost EXCEPT ![t] = @ + (Len(sq[t]) - k)]
  /\ sq' = [sq EXCEPT ![t] = <<>>]
  /\ UNCHANGED <<test, crashed, pc, issued, cq, written, threadVars, open>>

-----------------------------------------------------------------------------
(* After the writes.                                                       *)

(* The loop ends.  In the large test the join is commented out; the        *)
(* blocking tests have no thread.                                          *)
LoopEnds(t) ==
  /\ pc[t] = "issue" /\ issued[t] = test.n
  /\ Aio => sq[t] = <<>>
  /\ Goto(t, IF test.kind = "large" \/ Blocking THEN "total" ELSE "join")
  /\ UNCHANGED <<test, crashed, issued, lost, ringVars, threadVars, open>>

JoinSkipped(t) ==
  /\ pc[t] = "join"
  /\ Goto(t, "total")
  /\ UNCHANGED <<test, crashed, issued, lost, ringVars, threadVars, open>>

(* The completion thread has returned before it had counted all.           *)
GaveUp(t) == qpc[t] = "gaveup"

(* cq_thread.join() does not tell how the thread ended.                    *)
Join(t) ==
  /\ pc[t] = "join"
  /\ qpc[t] = "done" \/ GaveUp(t)
  /\ Goto(t, "total")
  /\ UNCHANGED <<test, crashed, issued, lost, ringVars, threadVars, open>>

(* The total is printed and the ring or context destroyed.  The large test *)
(* then destroys its joinable thread.                                      *)
Finish(t) ==
  /\ pc[t] = "total"
  /\ IF test.kind = "large"
     THEN Terminate
     ELSE /\ Goto(t, "done")
          /\ UNCHANGED <<test, crashed, issued, lost, ringVars, threadVars, open>>

-----------------------------------------------------------------------------
(* The completion threads.                                                 *)

CountedLong(t, k) ==
  /\ seen' = [seen EXCEPT ![t] = @ + k]
  /\ qpc' = [qpc EXCEPT ![t] = IF seen[t] + k > test.n THEN "done" ELSE "wait"]
  /\ cq' = [cq EXCEPT ![t] = SubSeq(@, k + 1, Len(@))]

(* k completions are counted and taken from the ring.                     *)
Counted(t, k) ==
  /\ seen' = [seen EXCEPT ![t] = @ + k]
  /\ qpc' = [qpc EXCEPT ![t] = IF seen[t] + k >= test.n THEN "done" ELSE "wait"]
  /\ cq' = [cq EXCEPT ![t] = SubSeq(@, k + 1, Len(@))]

(* io_uring_wait_cqe.  A failed write makes the poll test's thread return; *)
(* the others only report it.                                              *)
CqSeen(t) ==
  /\ ~Aio /\ qpc[t] = "wait" /\ cq[t] # <<>>
  /\ IF test.kind = "poll" /\ Head(cq[t]).res = "err"
     THEN qpc' = [qpc EXCEPT ![t] = "gaveup"] /\ UNCHANGED <<seen, cq>>
     ELSE Counted(t, 1)
  /\ UNCHANGED <<test, crashed, issuerVars, sq, inflight, written, freed, fails, open>>

(* io_uring_wait_cqe itself fails: the thread returns.                     *)
CqGivesUp(t) ==
  /\ ~Aio /\ qpc[t] = "wait"
  /\ qpc' = [qpc EXCEPT ![t] = "gaveup"]
  /\ UNCHANGED <<test, crashed, issuerVars, ringVars, seen, freed, fails, open>>

GetEventsOne(t) ==
  /\ Aio /\ qpc[t] = "wait" /\ cq[t] # <<>>
  /\ LET k == IF Len(cq[t]) < test.depth THEN Len(cq[t]) ELSE test.depth
     IN  /\ Counted(t, k)
         /\ freed' = [freed EXCEPT ![t] = @ + 1]
         /\ open' = [open EXCEPT ![t] = @ \ {Head(cq[t]).file}]
  /\ UNCHANGED <<test, crashed, issuerVars, sq, inflight, written, fails>>

(* io_getevents returns up to queue_depth events, which are deleted; the   *)
(* small test closes their files.  The thread is not woken before half of  *)
(* them are there or 10 ms have passed: a time, and no condition.          *)
GetEvents(t) ==
  /\ Aio /\ qpc[t] = "wait" /\ cq[t] # <<>>
  /\ LET k == IF Len(cq[t]) < test.depth THEN Len(cq[t]) ELSE test.depth
     IN  /\ Counted(t, k)
         /\ freed' = [freed EXCEPT ![t] = @ + k]
         /\ open' = [open EXCEPT ![t] = @ \ {cq[t][i].file : i \in 1 .. k}]
  /\ UNCHANGED <<test, crashed, issuerVars, sq, inflight, written, fails>>

(* io_getevents returns a negative error, which is added to the count.     *)
GetEventsFails(t) ==
  /\ Aio /\ qpc[t] = "wait" /\ fails < MaxFails
  /\ fails' = fails + 1
  /\ seen' = [seen EXCEPT ![t] = @ - 1]
  /\ UNCHANGED <<test, crashed, issuerVars, ringVars, qpc, freed, open>>

(* Only the poll test goes another way when a write has failed.            *)
Results == IF test.kind = "poll" THEN {"ok", "err"} ELSE {"ok"}

(* The kernel finishes any request.                                        *)
Complete(t) ==
  \E i \in 1 .. Len(inflight[t]), r \in Results :
    /\ inflight' = [inflight EXCEPT ![t] =
                      SubSeq(@, 1, i - 1) \o SubSeq(@, i + 1, Len(@))]
    /\ written' = [written EXCEPT ![t] = Append(@, inflight[t][i])]
    /\ cq' = [cq EXCEPT ![t] = Append(@, [file |-> inflight[t][i], res |-> r])]
    /\ UNCHANGED <<test, crashed, issuerVars, sq, threadVars, open>>

-----------------------------------------------------------------------------
Issuer(t) ==
  \/ Setup(t) \/ SetupBlocking(t) \/ OpenFiles(t)
  \/ WriteBlocking(t) \/ CloseSmall(t)
  \/ IssueUring(t) \/ NoSlot(t) \/ PrepareAio(t) \/ SubmitAio(t)
  \/ LoopEnds(t) \/ Join(t) \/ Finish(t)

CqThread(t) == CqSeen(t) \/ GetEvents(t)
Kernel(t)   == SqThread(t) \/ Complete(t)

(* What the two threads do when a call fails.                              *)
Fails(t) ==
  \/ SetupFails(t) \/ CallFails(t) \/ BlockingFails(t)
  \/ CqGivesUp(t) \/ GetEventsFails(t)

Next ==
  ~crashed /\ \E t \in Active : Issuer(t) \/ CqThread(t) \/ Kernel(t) \/ Fails(t)

Spec == Init /\ [][Next]_vars

(* Both threads of a test are scheduled, and the kernel works on; no call  *)
(* has to fail.                                                            *)
FairSpec ==
  /\ Spec
  /\ \A t \in Threads :
       /\ WF_vars(~crashed /\ t \in Active /\ Issuer(t))
       /\ WF_vars(~crashed /\ t \in Active /\ CqThread(t))
       /\ WF_vars(~crashed /\ t \in Active /\ Kernel(t))

-----------------------------------------------------------------------------
(* Properties.                                                             *)

Completion == [file : Nat, res : {"ok", "err"}]

(* Each variable has its type.                                             *)
TypeOK ==
  /\ test \in Tests
  /\ crashed \in BOOLEAN
  /\ pc \in [Threads -> {"none", "init", "open", "issue", "join", "total", "done", "returned"}]
  /\ issued \in [Threads -> Nat]
  /\ sq \in [Threads -> Seq(Nat)]
  /\ inflight \in [Threads -> Seq(Nat)]
  /\ cq \in [Threads -> Seq(Completion)]
  /\ written \in [Threads -> Seq(Nat)]
  /\ qpc \in [Threads -> {"none", "wait", "done", "gaveup"}]
  /\ seen \in [Threads -> Int]
  /\ lost \in [Threads -> Nat]
  /\ open \in [Threads -> SUBSET Nat]
  /\ freed \in [Threads -> Nat]
  /\ fails \in 0 .. MaxFails

Times(s, f) == Cardinality({i \in 1 .. Len(s) : s[i] = f})

(* When a test that joins its thread prints "total data written is N *     *)
(* buffer_size", all N writes have been finished, each file got its share, *)
(* and none was refused on the way: unless the completion thread has given *)
(* up, at a failed io_uring_wait_cqe or, in the poll test, a failed write. *)
TotalIsWritten ==
  \A t \in Active :
    pc[t] \in {"total", "done"} /\ test.kind # "large" /\ ~GaveUp(t) =>
      \A f \in 0 .. test.n :
        Times(written[t], f) = Cardinality({i \in 0 .. test.n - 1 : Target(i) = f})

(* An AIO test that ends has deleted every request and closed every file   *)
(* it made, although refused ones are dropped: it does not end then.       *)
AioClean ==
  \A t \in Active :
    Aio /\ pc[t] = "done" => freed[t] = test.n /\ open[t] = {}

(* Requests that nobody will submit any more: an AIO batch was cut short,  *)
(* a refused io_uring_submit is the last one, or the completions that keep *)
(* the kernel thread of the poll test from its entries stay unseen.        *)
Stranded(t) ==
  \/ lost[t] > 0
  \/ Spins /\ sq[t] # <<>> /\ (pc[t] = "join" \/ ~SlotFree(t))
  \/ GaveUp(t) /\ Refused(t) /\ ~SlotFree(t)

(* Every test comes to its end, unless a request was refused and never     *)
(* submitted again, or a failed io_getevents has spoilt the count: then    *)
(* the test may wait for ever, and the code has nothing to end the wait.   *)
TestEnds ==
  <>[](\/ crashed
       \/ \A t \in Active : pc[t] \in {"done", "returned"}
       \/ \E t \in Active : Stranded(t)
       \/ fails > 0)

=============================================================================
