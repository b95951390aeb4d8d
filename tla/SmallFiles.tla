----------------------------- MODULE SmallFiles -----------------------------
(***************************************************************************)
(* AppendManySmallFilesAsync of file_target.cc, called by test_small_async *)
(* of file_initiator.cc, and test_small_io_uring of file_rw_nvmeof.cc,     *)
(* which does the same for local files.  Each request opens a file and     *)
(* puts two entries into the ring, a write and a close linked behind it; a *)
(* completion thread counts them.  In the service it also frees the buffer *)
(* that an entry's user data points at; the local test writes all files    *)
(* from one buffer and sets no user data.                                  *)
(*                                                                         *)
(* The user data of the close is never set: it is whatever the slot of the *)
(* ring held when the entry was prepared.                                  *)
(***************************************************************************)
EXTENDS Integers, Sequences, FiniteSets

CONSTANTS
  Programs,  \* of {"service", "local"}: who writes the files
  Depth,     \* queue_depth
  Cap,       \* the slots of the ring: Depth rounded up to a power of two
  Files      \* Files[p]: the number of small files that p writes

(* A ring of more than one slot has an even number of them.  Without files *)
(* the service would open an empty name and end at the failure.            *)
ASSUME SmallAssumption ==
  /\ Programs \subseteq {"service", "local"}
  /\ Depth \in Nat \ {0}
  /\ Cap \in Nat /\ Cap >= Depth
  /\ Cap = 1 \/ Cap % 2 = 0
  /\ Files \in [Programs -> Nat \ {0}]

VARIABLES
  program,  \* the one that runs
  wire,     \* requests the client has written and the handler has not read
  sent,     \* requests the client has written
  hpc,      \* the handler thread
  cur,      \* the request it works on
  tail,     \* entries taken from the submission ring so far
  data,     \* data[s]: the user data left in slot s, 0 for none
  pending,  \* prepared entries, oldest first
  state,    \* state[r]: how far the write and the close of request r are
  closeUd,  \* closeUd[r]: the user data of the close of request r
  cq,       \* user data of the unseen completions
  seen,     \* completions the completion thread has counted
  gaveUp,   \* io_uring_wait_cqe failed and the completion thread returned
  freed     \* freed[r]: how often the buffer of request r was freed

handlerVars == <<program, hpc, cur, tail, data, closeUd>>
vars == <<wire, sent, handlerVars, pending, state, cq, seen, gaveUp, freed>>

N == Files[program]
Requests == 1 .. N

Slot(t) == t % Cap

Local == program = "local"

Init ==
  /\ program \in Programs
  /\ wire = 0 /\ sent = 0
  /\ hpc = "init"
  /\ cur = 0
  /\ tail = 0
  /\ data = [s \in 0 .. Cap - 1 |-> 0]
  /\ pending = <<>>
  /\ state = [r \in Requests |-> "none"]
  /\ closeUd = [r \in Requests |-> 0]
  /\ cq = <<>>
  /\ seen = 0 /\ gaveUp = FALSE
  /\ freed = [r \in Requests |-> 0]

-----------------------------------------------------------------------------
(* A handler that returns early destroys a joinable std::thread, which     *)
(* ends the service.                                                       *)
Up == hpc # "crashed"

(* The client writes its requests and ends the stream.                     *)
ClientWrite ==
  /\ Up /\ ~Local
  /\ sent < N
  /\ sent' = sent + 1
  /\ wire' = wire + 1
  /\ UNCHANGED <<handlerVars, pending, state, cq, seen, gaveUp, freed>>

(* The ring is set up and the completion thread started.                   *)
InitRing ==
  /\ hpc = "init"
  /\ hpc' = "read"
  /\ UNCHANGED <<program, wire, sent, cur, tail, data, closeUd, pending, state, cq, seen, gaveUp, freed>>

(* io_uring_queue_init_params fails before there is a thread: an error     *)
(* status for the client.  open or posix_memalign fails after: the end.    *)
CallFails ==
  /\ \/ hpc = "init" /\ hpc' = "error"
     \/ hpc = "write" /\ hpc' = "crashed"
  /\ UNCHANGED <<program, wire, sent, cur, tail, data, closeUd, pending, state, cq, seen, gaveUp, freed>>

(* The handler reads a request and opens its file.                         *)
ReadRequest ==
  /\ hpc = "read"
  /\ wire > 0
  /\ wire' = wire - 1
  /\ cur' = cur + 1
  /\ hpc' = "write"
  /\ UNCHANGED <<program, sent, tail, data, closeUd, pending, state, cq, seen, gaveUp, freed>>

StreamEnds ==
  /\ hpc = "read"
  /\ wire = 0 /\ sent = N
  /\ hpc' = "join"
  /\ UNCHANGED <<program, wire, sent, cur, tail, data, closeUd, pending, state, cq, seen, gaveUp, freed>>

(* The loop of the local test: open the next file, or join the thread.     *)
NextFile ==
  /\ hpc = "read"
  /\ IF cur < N THEN hpc' = "write" /\ cur' = cur + 1 ELSE hpc' = "join" /\ cur' = cur
  /\ UNCHANGED <<program, wire, sent, tail, data, closeUd, pending, state, cq, seen, gaveUp, freed>>

(* The loops around io_uring_get_sqe spin until a slot is free.            *)
SlotFree == Len(pending) < Cap

(* The buffer is allocated and filled; the write carries it as user data.  *)
PrepareWrite ==
  /\ hpc = "write"
  /\ SlotFree
  /\ data' = [data EXCEPT ![Slot(tail)] = cur]
  /\ tail' = tail + 1
  /\ pending' = Append(pending, [op |-> "write", req |-> cur])
  /\ hpc' = "close"
  /\ UNCHANGED <<program, wire, sent, cur, closeUd, state, cq, seen, gaveUp, freed>>

(* The local test sets no user data.                                       *)
PrepareLocalWrite ==
  /\ hpc = "write"
  /\ SlotFree
  /\ tail' = tail + 1
  /\ pending' = Append(pending, [op |-> "write", req |-> cur])
  /\ hpc' = "close"
  /\ UNCHANGED <<program, wire, sent, cur, data, closeUd, state, cq, seen, gaveUp, freed>>

PrepareCloseSameData ==
  /\ hpc = "close"
  /\ SlotFree
  /\ closeUd' = [closeUd EXCEPT ![cur] = cur]
  /\ tail' = tail + 1
  /\ pending' = Append(pending, [op |-> "close", req |-> cur])
  /\ hpc' = "submit"
  /\ UNCHANGED <<program, wire, sent, cur, data, state, cq, seen, gaveUp, freed>>

(* io_uring_prep_close leaves the user data of the slot as it was.         *)
PrepareClose ==
  /\ hpc = "close"
  /\ SlotFree
  /\ closeUd' = [closeUd EXCEPT ![cur] = data[Slot(tail)]]
  /\ tail' = tail + 1
  /\ pending' = Append(pending, [op |-> "close", req |-> cur])
  /\ hpc' = "submit"
  /\ UNCHANGED <<program, wire, sent, cur, data, state, cq, seen, gaveUp, freed>>

(* The result of io_uring_submit is ignored; it is refused while the       *)
(* completion ring overflows.                                              *)
Submit ==
  /\ hpc = "submit"
  /\ hpc' = "read"
  /\ IF Len(cq) > 2 * Cap
     THEN UNCHANGED <<pending, state>>
     ELSE /\ pending' = <<>>
          /\ state' = [r \in Requests |->
               IF \E i \in 1 .. Len(pending) : pending[i].req = r
               THEN "submitted" ELSE state[r]]
  /\ UNCHANGED <<program, wire, sent, cur, tail, data, closeUd, cq, seen, gaveUp, freed>>

JoinEarly ==
  /\ hpc = "join"
  /\ hpc' = "replied"
  /\ UNCHANGED <<program, wire, sent, cur, tail, data, closeUd, pending, state, cq, seen, gaveUp, freed>>

(* cq_thread.join(), io_uring_queue_exit and the reply, or the total.  The *)
(* completion thread has counted all it waits for, or given up.            *)
JoinAndReply ==
  /\ hpc = "join"
  /\ seen = 2 * N \/ gaveUp
  /\ hpc' = "replied"
  /\ UNCHANGED <<program, wire, sent, cur, tail, data, closeUd, pending, state, cq, seen, gaveUp, freed>>

-----------------------------------------------------------------------------
CqThreadHalf ==
  /\ Up /\ ~gaveUp
  /\ seen < N
  /\ cq # <<>>
  /\ cq' = Tail(cq)
  /\ seen' = seen + 1
  /\ freed' = [r \in Requests |-> IF r = Head(cq) THEN freed[r] + 1 ELSE freed[r]]
  /\ UNCHANGED <<wire, sent, handlerVars, pending, state, gaveUp>>

(* One turn of the completion thread: a failed entry is only reported, and *)
(* non-null user data is freed.                                            *)
CqThread ==
  /\ Up /\ ~gaveUp
  /\ seen < 2 * N
  /\ cq # <<>>
  /\ cq' = Tail(cq)
  /\ seen' = seen + 1
  /\ freed' = [r \in Requests |-> IF r = Head(cq) THEN freed[r] + 1 ELSE freed[r]]
  /\ UNCHANGED <<wire, sent, handlerVars, pending, state, gaveUp>>

(* io_uring_wait_cqe fails: the completion thread returns.  The handler    *)
(* does not hear of it.                                                    *)
CqGivesUp ==
  /\ hpc \notin {"init", "error", "crashed"}
  /\ seen < 2 * N /\ ~gaveUp
  /\ gaveUp' = TRUE
  /\ UNCHANGED <<wire, sent, handlerVars, pending, state, cq, seen, freed>>

-----------------------------------------------------------------------------
(* The kernel.                                                             *)

(* IOSQE_IO_LINK on the write: the close starts after the write.           *)
Linked(r) == state[r] \in {"written", "failed"}

(* The write ends, well or badly.                                          *)
WriteEnds(r) ==
  /\ state[r] = "submitted"
  /\ \E how \in {"written", "failed"} : state' = [state EXCEPT ![r] = how]
  /\ cq' = Append(cq, IF Local THEN 0 ELSE r)
  /\ UNCHANGED <<wire, sent, handlerVars, pending, seen, gaveUp, freed>>

(* The close is carried out, or cancelled when its write failed: the file  *)
(* then stays open, and the completion comes all the same.                 *)
CloseEnds(r) ==
  /\ Linked(r)
  /\ state' = [state EXCEPT ![r] = IF @ = "written" THEN "closed" ELSE "leaked"]
  /\ cq' = Append(cq, closeUd[r])
  /\ UNCHANGED <<wire, sent, handlerVars, pending, seen, gaveUp, freed>>

Kernel == Up /\ \E r \in Requests : WriteEnds(r) \/ CloseEnds(r)

-----------------------------------------------------------------------------
(* AppendManySmallFilesAsync.                                              *)
Handler ==
  ~Local /\ (\/ InitRing \/ ReadRequest \/ StreamEnds
             \/ PrepareWrite \/ PrepareClose \/ Submit \/ JoinAndReply)

(* test_small_io_uring.                                                    *)
LocalTest ==
  Local /\ (\/ InitRing \/ NextFile
            \/ PrepareLocalWrite \/ PrepareClose \/ Submit \/ JoinAndReply)

Next == ClientWrite \/ Handler \/ LocalTest \/ CallFails \/ CqThread \/ CqGivesUp \/ Kernel

Spec == Init /\ [][Next]_vars

(* The client, both threads and the kernel make progress; no call has to   *)
(* fail.                                                                   *)
FairSpec ==
  /\ Spec /\ WF_vars(ClientWrite) /\ WF_vars(Handler \/ LocalTest)
  /\ WF_vars(CqThread) /\ WF_vars(Kernel)

-----------------------------------------------------------------------------
(* Properties.                                                             *)

(* Each variable has its type.                                             *)
TypeOK ==
  /\ program \in Programs
  /\ wire \in 0 .. N /\ sent \in 0 .. N
  /\ hpc \in {"init", "read", "write", "close", "submit", "join", "replied", "error", "crashed"}
  /\ cur \in 0 .. N
  /\ tail \in 0 .. 2 * N
  /\ data \in [0 .. Cap - 1 -> 0 .. N]
  /\ pending \in Seq([op : {"write", "close"}, req : Requests])
  /\ state \in [Requests -> {"none", "submitted", "written", "failed", "closed", "leaked"}]
  /\ closeUd \in [Requests -> 0 .. N]
  /\ cq \in Seq(0 .. N)
  /\ seen \in 0 .. 2 * N /\ gaveUp \in BOOLEAN
  /\ freed \in [Requests -> Nat]

(* No buffer is freed before its write has ended, and none twice, although *)
(* a close may inherit user data: a request takes two slots and the ring   *)
(* has an even number of them, so a close never gets a slot that held the  *)
(* buffer of a write.                                                      *)
FreedSafely ==
  \A r \in Requests :
    /\ freed[r] <= 1
    /\ freed[r] > 0 => state[r] \notin {"none", "submitted"}

(* When the client is answered, or the local test prints its total, every  *)
(* file was closed after its write had ended, or left open because the     *)
(* write failed, and every buffer of the service is free again: unless the *)
(* completion thread gave up, when the answer is OK all the same.          *)
ReplyMeansEnded ==
  hpc = "replied" /\ ~gaveUp =>
    \A r \in Requests :
      /\ state[r] \in {"closed", "leaked"}
      /\ ~Local => freed[r] = 1

(* The entries of a refused io_uring_submit wait for the next one.  The    *)
(* handler is stranded when there is none: it waits for their completions, *)
(* or spins for a slot that only a submission frees.                       *)
Stranded ==
  /\ pending # <<>>
  /\ hpc = "join" \/ (hpc \in {"write", "close"} /\ ~SlotFree)

(* The client is answered, or the service has failed, or the handler is    *)
(* stranded.                                                               *)
Answered == <>(hpc \in {"replied", "error", "crashed"} \/ Stranded)

=============================================================================
