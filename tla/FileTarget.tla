----------------------------- MODULE FileTarget -----------------------------
(***************************************************************************)
(* The gRPC file service of file_target.cc with its asynchronous large     *)
(* file handlers (AppendOneLargeFileAsync, AppendOneLargeFileAsyncExpr)    *)
(* and the clients of file_initiator.cc that call them.  Every stream has  *)
(* a handler thread and a ring, and a completion thread that the handler   *)
(* starts and joins.  All of them read the parameters in the one service   *)
(* object, which any client may overwrite at any time.                     *)
(*                                                                         *)
(* gRPC streams, io_uring and the file system are external.                *)
(***************************************************************************)
EXTENDS Integers, Sequences, FiniteSets

CONSTANTS
  Clients,    \* the streams; client and stream are identified
  Confs,      \* what the clients may be started with
  MaxFiles    \* the largest -fn among them

(* The tests: test_large_async, test_large_async_expr, and one thread of   *)
(* test_large_async_multithreads.                                          *)
Kinds == {"large", "expr", "mt"}
ConfType == [kind : Kinds, depth : Nat \ {0}, n : Nat, fn : Nat]

ASSUME TargetAssumption ==
  /\ IsFiniteSet(Clients)
  /\ Confs \subseteq [Clients -> ConfType]
  /\ MaxFiles \in Nat \ {0}
  /\ \A f \in Confs, c \in Clients : f[c].fn <= MaxFiles
  \* The threads are of one process, with its arguments.
  /\ \A f \in Confs, c, d \in Clients :
       f[c].kind = "mt" /\ f[d].kind = "mt" => f[c] = f[d]

VARIABLES
  conf,      \* conf[c]: the arguments of client c
  server,    \* "up", or "crashed" by an uncaught condition, or "failed"
             \* after a system call that failed
  prm,       \* the members queue_depth, N and fn of the service
  dummy,     \* the counter that numbers the experiment's files
  cpc,       \* cpc[c]: the client
  sent,      \* sent[c]: requests the client has written
  wire,      \* wire[c]: requests on the stream
  hpc,       \* hpc[c]: the handler thread
  files,     \* files[c]: how many files it has opened, and its nonce
  count,     \* count[c]: the handler's local n
  sq,        \* sq[c]: targets of the prepared, unsubmitted writes
  cap,       \* cap[c]: slots of the submission ring
  inflight,  \* inflight[c]: targets of the writes in the kernel
  cq,        \* cq[c]: number of unseen completions
  written,   \* written[c][i]: completed writes to file i
  qpc,       \* qpc[c]: the completion thread
  seen,      \* seen[c]: completions it has counted
  disturbed  \* disturbed[c]: another client set other parameters meanwhile

clientVars  == <<cpc, sent>>
handlerVars == <<hpc, files, count, sq, cap>>
ringVars    == <<inflight, cq, written>>
threadVars  == <<qpc, seen>>
vars == <<conf, disturbed, server, prm, dummy, clientVars, wire, handlerVars, ringVars, threadVars>>

(* Targets: a file of the handler, or a slot past the end of its array.    *)
Slots == 0 .. MaxFiles - 1

Init ==
  /\ conf \in Confs
  /\ disturbed = [c \in Clients |-> FALSE]
  /\ server = "up"
  /\ prm = [depth |-> 0, n |-> 0, fn |-> 0]
  /\ dummy = 0
  /\ cpc = [c \in Clients |-> "params"]
  /\ sent = [c \in Clients |-> 0]
  /\ wire = [c \in Clients |-> 0]
  /\ hpc = [c \in Clients |-> "none"]
  /\ files = [c \in Clients |-> [n |-> 0, nonce |-> -1]]
  /\ count = [c \in Clients |-> 0]
  /\ sq = [c \in Clients |-> <<>>]
  /\ cap = [c \in Clients |-> 0]
  /\ inflight = [c \in Clients |-> <<>>]
  /\ cq = [c \in Clients |-> 0]
  /\ written = [c \in Clients |-> [i \in Slots |-> 0]]
  /\ qpc = [c \in Clients |-> "none"]
  /\ seen = [c \in Clients |-> 0]

-----------------------------------------------------------------------------
(* The clients of file_initiator.cc.                                       *)

Plain(c) == conf[c].kind = "large"    \* AppendOneLargeFileAsync

ClientGoto(c, step) == cpc' = [cpc EXCEPT ![c] = step]

ClientParamsNoFiles(c) == [depth |-> conf[c].depth, n |-> conf[c].n, fn |-> 0]

(* What a client sends.  set_target_params, used by the plain tests, sets  *)
(* no nfiles, so the service gets 0.                                       *)
ClientParams(c) ==
  [depth |-> conf[c].depth, n |-> conf[c].n,
   fn |-> IF Plain(c) THEN 0 ELSE conf[c].fn]

Running == {"open", "write", "await"}

(* SetParameters overwrites the members of the service one after the       *)
(* other: calls of two clients may mix, and whoever runs then, or goes on  *)
(* to run, with parameters that are not its own is disturbed.              *)
SetParameter(step) ==
  /\ prm' = step
  /\ disturbed' = [d \in Clients |->
       disturbed[d] \/ (cpc'[d] \in Running /\ prm' # ClientParams(d))]
  /\ UNCHANGED <<conf, server, dummy, sent, wire, handlerVars, ringVars, threadVars>>

(* The threads of test_large_async_multithreads are not there before it    *)
(* has set the parameters, once for all.                                   *)
Peers(c) == {d \in Clients : d = c \/ (conf[c].kind = "mt" /\ conf[d].kind = "mt")}

SetDepth(c) ==
  /\ \A d \in Peers(c) : cpc[d] = "params"
  /\ ClientGoto(c, "setN")
  /\ SetParameter([prm EXCEPT !.depth = ClientParams(c).depth])

SetN(c) ==
  /\ cpc[c] = "setN"
  /\ ClientGoto(c, "setFn")
  /\ SetParameter([prm EXCEPT !.n = ClientParams(c).n])

SetFn(c) ==
  /\ cpc[c] = "setFn"
  /\ cpc' = [d \in Clients |-> IF d \in Peers(c) THEN "open" ELSE cpc[d]]
  /\ SetParameter([prm EXCEPT !.fn = ClientParams(c).fn])

(* The stream is opened and its handler starts.                            *)
OpenStream(c) ==
  /\ cpc[c] = "open"
  /\ ClientGoto(c, "write")
  /\ hpc' = [hpc EXCEPT ![c] = "init"]
  /\ UNCHANGED <<conf, disturbed, server, prm, dummy, sent, wire, files, count, sq, cap, ringVars, threadVars>>

Write(c) ==
  /\ cpc[c] = "write"
  /\ sent[c] < conf[c].n
  /\ sent' = [sent EXCEPT ![c] = @ + 1]
  /\ wire' = [wire EXCEPT ![c] = @ + 1]
  /\ UNCHANGED <<conf, disturbed, server, prm, dummy, cpc, handlerVars, ringVars, threadVars>>

WritesDone(c) ==
  /\ cpc[c] = "write"
  /\ sent[c] = conf[c].n
  /\ ClientGoto(c, "await")
  /\ UNCHANGED <<conf, disturbed, server, prm, dummy, sent, wire, handlerVars, ringVars, threadVars>>

(* Read the reply and Finish.                                              *)
Finish(c) ==
  /\ cpc[c] = "await"
  /\ hpc[c] \in {"replied", "error"}
  /\ ClientGoto(c, IF hpc[c] = "replied" THEN "done" ELSE "failed")
  /\ UNCHANGED <<conf, disturbed, server, prm, dummy, sent, wire, handlerVars, ringVars, threadVars>>

-----------------------------------------------------------------------------
(* The handlers.                                                           *)

HandlerGoto(c, step) == hpc' = [hpc EXCEPT ![c] = step]

(* The ring is set up for the depth of the moment, and the completion      *)
(* thread started.                                                         *)
InitRing(c) ==
  /\ hpc[c] = "init"
  /\ cap' = [cap EXCEPT ![c] = prm.depth]
  /\ qpc' = [qpc EXCEPT ![c] = "test"]
  /\ HandlerGoto(c, IF Plain(c) THEN "first" ELSE "files")
  /\ UNCHANGED <<conf, disturbed, server, prm, dummy, clientVars, wire, files, count, sq, ringVars, seen>>

InitRingFails(c) ==
  /\ hpc[c] = "init"
  /\ HandlerGoto(c, "error")
  /\ UNCHANGED <<conf, disturbed, server, prm, dummy, clientVars, wire, files, count, sq, cap, ringVars, threadVars>>

(* A handler that returns after it has started the completion thread       *)
(* destroys a joinable std::thread: std::terminate.                        *)
Terminate(how) ==
  /\ server' = how
  /\ UNCHANGED <<conf, disturbed, prm, dummy, clientVars, wire, handlerVars, ringVars, threadVars>>

(* open or posix_memalign fails.                                           *)
CallFails(c) ==
  /\ hpc[c] \in {"first", "files", "append"}
  /\ Terminate("failed")

(* AppendOneLargeFileAsync opens the file of the first request.            *)
FirstRequest(c) ==
  /\ hpc[c] = "first"
  /\ wire[c] > 0
  /\ wire' = [wire EXCEPT ![c] = @ - 1]
  /\ files' = [files EXCEPT ![c].n = 1]
  /\ HandlerGoto(c, "append")
  /\ UNCHANGED <<conf, disturbed, server, prm, dummy, clientVars, count, sq, cap, ringVars, threadVars>>

(* A client without requests: the Read that fails is not noticed, and an   *)
(* empty name cannot be opened.                                            *)
NoFirstRequest(c) ==
  /\ hpc[c] = "first"
  /\ wire[c] = 0
  /\ cpc[c] = "await"
  /\ Terminate("crashed")

(* AppendOneLargeFileAsyncExpr opens fn files of its own.                  *)
OpenFiles(c) ==
  /\ hpc[c] = "files"
  /\ files' = [files EXCEPT ![c] = [n |-> prm.fn, nonce |-> dummy]]
  /\ dummy' = dummy + 1
  /\ HandlerGoto(c, "read")
  /\ UNCHANGED <<conf, disturbed, server, prm, clientVars, wire, count, sq, cap, ringVars, threadVars>>

ReadRequest(c) ==
  /\ hpc[c] = "read"
  /\ wire[c] > 0
  /\ wire' = [wire EXCEPT ![c] = @ - 1]
  /\ HandlerGoto(c, "append")
  /\ UNCHANGED <<conf, disturbed, server, prm, dummy, clientVars, files, count, sq, cap, ringVars, threadVars>>

(* Read returns false after WritesDone and the last request.               *)
StreamEnds(c) ==
  /\ hpc[c] = "read"
  /\ wire[c] = 0
  /\ cpc[c] = "await"
  /\ HandlerGoto(c, "join")
  /\ UNCHANGED <<conf, disturbed, server, prm, dummy, clientVars, wire, files, count, sq, cap, ringVars, threadVars>>

TargetFirst(c) == 0

(* The file a write goes to: n++ % fn with the fn of the moment.           *)
Target(c) == IF Plain(c) THEN 0 ELSE count[c] % prm.fn

(* io_uring_submit is refused while the completion ring, twice the         *)
(* submission ring, overflows; the handler does not look at its result.    *)
Refused(c) == cq[c] > 2 * cap[c]

CanAppend(c) ==
  /\ Len(sq[c]) < cap[c]
  /\ ~Plain(c) => prm.fn > 0

(* One request: a slot, a buffer, the copy, the write and the submission   *)
(* of all that is prepared.                                                *)
AppendRequest(c) ==
  /\ hpc[c] = "append"
  /\ CanAppend(c)
  /\ count' = [count EXCEPT ![c] = @ + 1]
  /\ LET all == Append(sq[c], Target(c))
     IN  IF Refused(c)
         THEN sq' = [sq EXCEPT ![c] = all] /\ UNCHANGED inflight
         ELSE /\ sq' = [sq EXCEPT ![c] = <<>>]
              /\ inflight' = [inflight EXCEPT ![c] = @ \o all]
  /\ HandlerGoto(c, "read")
  /\ UNCHANGED <<conf, disturbed, server, prm, dummy, clientVars, wire, files, cap, cq, written, threadVars>>

(* io_uring_get_sqe returns NULL and the handler returns, or fn is 0 and   *)
(* the division faults.                                                    *)
AppendCrashes(c) ==
  /\ hpc[c] = "append"
  /\ ~CanAppend(c)
  /\ Terminate("crashed")

(* cq_thread.join() does not tell whether the thread counted N or gave up. *)
Join(c) ==
  /\ hpc[c] = "join"
  /\ qpc[c] \in {"done", "gaveup"}
  /\ HandlerGoto(c, "exit")
  /\ UNCHANGED <<conf, disturbed, server, prm, dummy, clientVars, wire, files, count, sq, cap, ringVars, threadVars>>

(* io_uring_queue_exit, the files are closed, the reply is written.        *)
Reply(c) ==
  /\ hpc[c] = "exit"
  /\ HandlerGoto(c, "replied")
  /\ inflight' = [inflight EXCEPT ![c] = <<>>]
  /\ UNCHANGED <<conf, disturbed, server, prm, dummy, clientVars, wire, files, count, sq, cap, cq, written, threadVars>>

-----------------------------------------------------------------------------
(* The completion thread of a handler.                                     *)

CqTestShort(c) ==
  /\ qpc[c] = "test"
  /\ qpc' = [qpc EXCEPT ![c] = IF seen[c] + 1 < prm.n THEN "wait" ELSE "done"]
  /\ UNCHANGED <<conf, disturbed, server, prm, dummy, clientVars, wire, handlerVars, ringVars, seen>>

CqTestLong(c) ==
  /\ qpc[c] = "test"
  /\ qpc' = [qpc EXCEPT ![c] = IF seen[c] <= prm.n THEN "wait" ELSE "done"]
  /\ UNCHANGED <<conf, disturbed, server, prm, dummy, clientVars, wire, handlerVars, ringVars, seen>>

(* i < N, with the N of the moment.                                        *)
CqTest(c) ==
  /\ qpc[c] = "test"
  /\ qpc' = [qpc EXCEPT ![c] = IF seen[c] < prm.n THEN "wait" ELSE "done"]
  /\ UNCHANGED <<conf, disturbed, server, prm, dummy, clientVars, wire, handlerVars, ringVars, seen>>

(* io_uring_wait_cqe; a failed write is only reported; the buffer is freed *)
(* and the completion marked seen.                                         *)
CqReap(c) ==
  /\ qpc[c] = "wait"
  /\ cq[c] > 0
  /\ cq' = [cq EXCEPT ![c] = @ - 1]
  /\ seen' = [seen EXCEPT ![c] = @ + 1]
  /\ qpc' = [qpc EXCEPT ![c] = "test"]
  /\ UNCHANGED <<conf, disturbed, server, prm, dummy, clientVars, wire, handlerVars, inflight, written>>

(* io_uring_wait_cqe fails: the thread returns.                            *)
CqGivesUp(c) ==
  /\ qpc[c] = "wait"
  /\ qpc' = [qpc EXCEPT ![c] = "gaveup"]
  /\ UNCHANGED <<conf, disturbed, server, prm, dummy, clientVars, wire, handlerVars, ringVars, seen>>

(* The kernel finishes the writes of one ring in any order.                *)
Complete(c) ==
  \E i \in 1 .. Len(inflight[c]) :
    /\ inflight' = [inflight EXCEPT ![c] =
                      SubSeq(@, 1, i - 1) \o SubSeq(@, i + 1, Len(@))]
    /\ written' = [written EXCEPT ![c][inflight[c][i]] = @ + 1]
    /\ cq' = [cq EXCEPT ![c] = @ + 1]
    /\ UNCHANGED <<conf, disturbed, server, prm, dummy, clientVars, wire, handlerVars, threadVars>>

-----------------------------------------------------------------------------
Client(c) ==
  \/ SetDepth(c) \/ SetN(c) \/ SetFn(c) \/ OpenStream(c)
  \/ Write(c) \/ WritesDone(c) \/ Finish(c)

Handler(c) ==
  \/ InitRing(c)
  \/ FirstRequest(c) \/ NoFirstRequest(c) \/ OpenFiles(c) \/ ReadRequest(c) \/ StreamEnds(c)
  \/ AppendRequest(c) \/ AppendCrashes(c) \/ Join(c) \/ Reply(c)

CqThread(c) == CqTest(c) \/ CqReap(c)

Up == server = "up"

Next ==
  Up /\ \E c \in Clients :
    \/ Client(c) \/ Handler(c) \/ CqThread(c) \/ Complete(c)
    \/ InitRingFails(c) \/ CallFails(c) \/ CqGivesUp(c)

Spec == Init /\ [][Next]_vars

(* Every thread of every process is scheduled, and the kernel finishes     *)
(* every write it has accepted.  No call has to fail.                      *)
Fairness ==
  \A c \in Clients :
    /\ WF_vars(Up /\ Client(c))
    /\ WF_vars(Up /\ Handler(c))
    /\ WF_vars(Up /\ CqThread(c))
    /\ WF_vars(Up /\ Complete(c))

FairSpec == Spec /\ Fairness

-----------------------------------------------------------------------------
(* Properties.                                                             *)

(* Each variable has its type.                                             *)
TypeOK ==
  /\ conf \in Confs
  /\ disturbed \in [Clients -> BOOLEAN]
  /\ server \in {"up", "crashed", "failed"}
  /\ prm \in [depth : Nat, n : Nat, fn : Nat]
  /\ dummy \in Nat
  /\ cpc \in [Clients -> {"params", "setN", "setFn", "open", "write", "await", "done", "failed"}]
  /\ sent \in [Clients -> Nat]
  /\ wire \in [Clients -> Nat]
  /\ hpc \in [Clients -> {"none", "init", "first", "files", "read", "append", "join",
                          "exit", "replied", "error"}]
  /\ files \in [Clients -> [n : Nat, nonce : Nat \cup {-1}]]
  /\ count \in [Clients -> Nat]
  /\ sq \in [Clients -> Seq(Slots)]
  /\ cap \in [Clients -> Nat]
  /\ inflight \in [Clients -> Seq(Slots)]
  /\ cq \in [Clients -> Nat]
  /\ written \in [Clients -> [Slots -> Nat]]
  /\ qpc \in [Clients -> {"none", "test", "wait", "done", "gaveup"}]
  /\ seen \in [Clients -> Nat]

Files(c) == IF Plain(c) THEN 1 ELSE conf[c].fn

(* A call with the parameters its client asked for, with a file to write   *)
(* to, and with no more writes than the completion ring takes without a    *)
(* refused submission.  The file of the plain call is that of its first    *)
(* request.                                                                *)
Regular(c) ==
  /\ ~disturbed[c]
  /\ Files(c) > 0 /\ (Plain(c) => conf[c].n > 0)
  /\ conf[c].n <= 2 * conf[c].depth + 1

(* No request brings the service down, unless the parameters of a running  *)
(* call were changed, it asks for no files or its writes overflow the      *)
(* completion ring: a handler always finds a slot and a file.              *)
ServerUp == server = "crashed" => \E c \in Clients : ~Regular(c)

(* The ring on the handler's stack is not torn down under its completion   *)
(* thread, whatever other clients do; and if they do nothing to this call, *)
(* the handler leaves no write unsubmitted and, unless the completion      *)
(* thread gave up, none in the kernel or unseen: no buffer leaks and none  *)
(* is freed under a write.                                                 *)
RingDrained ==
  \A c \in Clients : hpc[c] = "exit" =>
    /\ qpc[c] \in {"done", "gaveup"}
    /\ Regular(c) => sq[c] = <<>>
    /\ Regular(c) /\ qpc[c] = "done" => inflight[c] = <<>> /\ cq[c] = 0

(* When a client is told that its append succeeded, the stream was read to *)
(* its end and the kernel is done with the -n writes it asked for, dealt   *)
(* to its files in turn, unless another client set other parameters while  *)
(* it ran or io_uring_wait_cqe failed: the answer is the same then.        *)
(* Whether the writes went well the service does not look at.              *)
ReplyMeansWritten ==
  \A c \in Clients : cpc[c] = "done" =>
    /\ count[c] = conf[c].n
    /\ Regular(c) /\ qpc[c] = "done" =>
         \A i \in 0 .. Files(c) - 1 :
           written[c][i] = Cardinality({k \in 0 .. conf[c].n - 1 : k % Files(c) = i})

(* Every regular call is answered as long as the service runs.             *)
AllAnswered ==
  \A c \in Clients : <>(~Up \/ ~Regular(c) \/ cpc[c] \in {"done", "failed"})

=============================================================================
