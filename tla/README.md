# Verification of the NVMe-oF / RDMA storage benchmarks

TLA+ models, TLC runs and TLAPS proofs for the programs under `src/src/` of
nvmeof-project: a set of benchmark programs that compare ways to write a remote
disk (NVMe over Fabrics with io_uring, user-space RDMA, gRPC and TCP services).
Paths below are relative to `src/src/`.

## 1. The system

| Component | Code | State it keeps | Operations | Hard behaviour |
|---|---|---|---|---|
| io_uring worker | `benchmark.cc` 52-211, 761-875 | `io_worker`: free units, batch counter, file offset, completions; one ring | prepare, batch, submit, reap, stop; monitor thread; `main` | partial or refused submission, blocking reap, unsynchronised monitor, uninitialised fields |
| RDMA client | `benchmark.cc` 524-633, 709-758 | units of the queue pair, offset in the pool, completion queue and channel, and a whole io_uring worker | post read, periodic reap, blocking reap, write of every block | events racing with rearming, two nested reap loops, a shared iovec |
| RDMA connection, server | `benchmark.cc` 213-522, 635-682 | event channel, completion queue, token | setup, handshake, end | start order of two processes, left-over events, a failing peer |
| File service, large files | `file_target.cc` 54-70, 156-325; `file_initiator.cc` 31-46, 169-322 | parameters in one service object, per stream a ring and a completion thread | `SetParameters`, two streaming handlers, three clients | parameters changed under running handlers, early returns past a live thread, a completion thread that returns before all is written |
| File service, small files | `file_target.cc` 328-421; `file_initiator.cc` 131-167 | a ring whose slots keep old user data | write linked with close per request | stale user data, spin for a slot, failed links |
| File service, blocking handlers | `file_target.cc` 72-154; `file_initiator.cc` 57-128 | the shared `buffer_size`, a file per call | append and answer in lock step | a size that changes between allocation, copy and write; one large file truncated by every call; short writes |
| Local file tests | `file_rw_nvmeof.cc` | a ring or an AIO context | asynchronous and blocking tests | refused requests that are dropped, a completion thread that is not joined |
| Asynchronous block service | `net.h` 607-820; `block_initiator.cc` | call objects, a completion queue | CREATE, PROCESS, FINISH | life time of objects, cancelled calls |
| Synchronous block service, device set-up | `net.h` 420-584; `nvme.h` 41-79 | static NVMe arguments, identify data | read or write blocks | static arguments shared by concurrent handlers, block arithmetic in 16 bits, an ignored set-up error |
| TCP connection | `net.h` 301-409; `block_target.cc` 18-66 | a socket | init, send, receive, close | partial sends and receives, a peer that closes or breaks at any byte |
| Statistics | `GetStat`, `ResetStat` in both services | sums of times | read, clear | none that another operation depends on |
| Block writes from the command line | `block_rw_nvmeof.cc` | one argument record | a loop of ioctls | arithmetic only |

All but the last two are modelled. How they interact: `main` of `benchmark.cc`
starts one worker and one monitor, which share the `io_worker` without a lock. An RDMA
worker calls the io_uring code for each block it has read. The RDMA client and
server are two processes that only meet through the connection manager and the
fabric. The handlers of the file service are gRPC threads that share the
service object with `SetParameters`; each handler shares a ring with its own
completion thread. The asynchronous block service's only daemon thread and gRPC
share call objects through tags. The synchronous one runs every call on a
thread of its own, and all calls of an operation share one static record. The
two ends of a TCP connection only share a stream of bytes.

What makes each one correct:

* worker: no unit of the queue depth is lost or returned twice; a slot is always
  found; a blocking reap always has something to wait for; writes stay in the
  file; the benchmark ends;
* RDMA client: no wakeup is lost, the send queue never overflows, two pending
  reads never share a block, each block that was read is written. The last one does
  not hold in the code for a batch above one (the default is 32): the writes of a
  batch share one iovec, so all of them are made from the block of the last one.
  `BatchFromLast` states exactly what is written;
* connection: the client knows the pool before it reads, the server stays while
  it is read, no stale event ends it;
* file service: the answer means that the kernel is done with the writes; a ring
  outlives its thread and is empty when torn down; every client is answered;
* small files: a buffer is freed once and after its write, the answer comes after
  all of them;
* blocking handlers: what is acknowledged is on the file, in its place and once;
  no copy or write passes the end of a buffer;
* local tests: the printed total was handed to the kernel and finished, nothing is
  left behind;
* asynchronous block service: there is always an object for the next call, and no
  tag of a deleted object is ever used;
* synchronous block service: a good answer means that exactly the blocks of the
  request were written, from its data; no buffer is overrun, leaked or freed
  twice;
* TCP connection: whole messages, in order, however the stream is cut; "done"
  means that all blocks were written.

`PROJECT.json` lists the hazards of the code, each at its line with the
properties aimed at it.

## 2. Modules

    IoCredits            abstract: a queue with Depth units
      ^ implemented by
    UringEngine          prepare / batch / submit / reap, one block write
      ^ extended by
    UringWorker          main + worker + monitor
    RdmaClient           RDMA reads feeding the engine

    RdmaConnection       both ends of the connection
    FileTarget           file service, large files, asynchronous
    SmallFiles           file service, small files, asynchronous, and the local
                         test that does the same
    FileBlocking         file service, blocking handlers
    LocalTests           the other local tests
    AsyncBlockServer     call objects of the asynchronous block service
    BlockService         synchronous block service and device set-up
    MessageChannel       abstract: whole messages in both directions
      ^ implemented by
    TcpConnection        send and recv loops, the target that writes blocks

    *Proofs              theorems about the modules they extend:
                         BenchmarkProofs (UringWorker and RdmaClient),
                         ConnectionProofs (TcpConnection and, as an instance,
                         RdmaConnection), FileTargetProofs, SmallFilesProofs,
                         FileBlockingProofs, LocalTestsProofs,
                         AsyncBlockProofs, BlockServiceProofs
    MC*                  instances for TLC

### UringEngine, UringWorker

`do_io_io_uring` and `reap_rdma_cq` contain the same statements for one block
write; they are modelled once. `epc` is the place inside them, `call` the
arguments and local count of `reap_io_uring_cq`, `free`, `queued`, `curOffset`
and `ioCompleted` the fields of `io_worker`. `sq`, `inflight` and `cq` are the
external ring. One action per statement group: `Prepare` (get a slot, prepare,
count), `Submit(k)` and `SubmitBusy` (one turn of the retry loop), `NoUnits`
(blocking reap), `ReapCqe`, `ReapError`, `ReapReturn`, and the kernel's
`Complete`, which may come between any two of them. `queued` wraps at `UInt`.
The three fields that `launch_worker` leaves unset (its `memset` clears the size of a
pointer) start with what the block of `malloc` held: `Heap` is a set of records with
a value for `queued`, `curOffset` and `ioCompleted`, and the variable `heap` of
`UringWorker` is the one chosen.

`UringWorker` adds `main` (launch, join), the worker's set-up and its loop, and
the monitor, whose two reads (`io_completed`, then `start_time`) are two steps.
The second `pthread_join` uses a thread id that has been overwritten with 0 and
does not wait; `Join` ends the process. With a leftover in `io_completed` the monitor
may report before the start time is set; `ReportHasClock` says that it can then only
report the leftover itself, and nothing early in a cleared block.

### RdmaClient

Extends the engine by the loop of `do_io_user_rdma` and by `reap_rdma_cq`:
`PostRead`, `Debit` (the unit is taken after the periodic reap, as in the
code), `GetEvent`, `ReqNotify`, `Poll`, `PollEmpty`, then the writes of the
polled blocks. `event`, chosen at the start, selects sleeping on the completion
channel or polling. `PostFails` is an `ibv_post_send` that fails for any reason but a
full queue; both end the thread.
A block is its offset in the pool; `iov` is the one iovec on the stack, which the
kernel reads when it accepts an entry. Two histories are compared: `meant` has the
block each write was prepared for (`PrepareBlock`), `taken` the one it was made from
(`SubmitBlocks`). The adapter is external: reads of a reliable connection complete in order, and an
armed queue raises one event.

### RdmaConnection

Both processes from `rdma_setup` to the end of the server, with the connection
manager's event channels, one completion queue per side, the token and the last
request. Any call can fail on either side at any time (`Fail`). The opcode of
the last request is never set in the code, so `TransferAndTerminate` chooses
whether the server will notice it. The transfer itself is `RdmaClient`.

### FileTarget, SmallFiles

`FileTarget` has one record per stream: the client (`cpc`, `sent`), the stream
(`wire`), the handler (`hpc`, its opened files, its local `n`), its ring and its
completion thread. `prm` holds the members that `SetParameters` assigns and that
handlers and threads read again at every use. The assignments are steps of their own
(`SetDepth`, `SetN`, `SetFn`), so two clients that set parameters at the same time may
leave a mix of both. `conf` is what the clients were
started with; the threads of `test_large_async_multithreads` are clients of kind
"mt", whose parameters are set once for all before any of them opens its stream. A
handler that finds no slot, divides by a zero `fn`, or opens the empty name of a client
without requests (`NoFirstRequest`) makes `server` "crashed"; an early return
because a system call failed makes it "failed" (both end the process, since a
joinable thread is destroyed). A submission is refused while the completion ring
overflows, and the code ignores the result. When `io_uring_wait_cqe` fails, the
completion thread returns (`CqGivesUp`); the handler joins it all the same, tears the
ring down and answers OK.

`disturbed[c]` is a history variable: c's call ran while the parameters were not the
ones it asked for, because another client has set others, or a mix was left. The
properties promise the full behaviour to a
`Regular` call (not disturbed, with at least one file, a plain one with at least one
request, and with no more writes than
the completion ring takes), also beside calls that are not regular, and say what is left for the
others. `RingDrained` and `ReplyMeansWritten` say what still holds when the
completion thread gave up: that it has ended before the ring goes away, that nothing
is left unsubmitted, and that the stream was read to its end. The answer does not tell
the client that its writes may still be under way.

`SmallFiles` models the ring slot by slot, because `PrepareClose` leaves the
slot's old user data in place and the completion thread frees what it finds
there. `program` is the gRPC handler or `test_small_io_uring`, which
prepares the same linked pairs but sets no user data at all. `Cap` is the ring that the
kernel makes of `Depth`, rounded up to a power of two; the model only uses that it is 1
or even. `gaveUp` and `CqGivesUp` are the failed `io_uring_wait_cqe`, as in
`FileTarget`. A refused `io_uring_submit` leaves its entries to the next one;
`Stranded` is the handler that never makes a next one, because it already joins or
because it spins for a slot. `Answered` names that state as the only way, apart from
failed calls, in which a client goes without an answer.

### FileBlocking

Client and handler of a stream take turns: one request, one reply. `bufSize` is
the member that `Alloc`, `Copy` and `Write` read one after the other; `Start` of
another client may set it between any two of them. A copy or write past the end
of a buffer (or past the data of the request) puts the client into `corrupt`,
where the model stops. `OpenLarge` truncates the one large file. The first
`Read` of the large handler is not looked at, so a call without requests goes on
with an empty one. `disturbed[c]` records that another size was set during c's
call or that its writes were truncated away.

### AsyncBlockServer

Call objects with the states of the code, the daemon (`Process`, `Delete`,
`AssertFails`) and gRPC (`Match`, `SendReply`) as external. A cancelled call
gives its tag back with `ok` false. The client is `block_initiator.cc`: it starts
a call, asks for its end and waits for the tag.

### BlockService

One call at a time for each client, one thread for each call, one argument
record `args[op]` for each operation, filled field by field. Buffers are numbered
by the call that allocated them; `heap` has their sizes and whose data they hold,
`disk` the call each block was last written by. `Nlb` is the number of blocks in
`NlbMod` (65536 in the code). Use of a buffer that is gone or too small leads to
"corrupt", a division by an unset block size to "fault"; both end the model.
`overlap[c]` records that another call of the same operation ran during c's.

### TcpConnection

Both ends of a connection from `init` to `close`. A byte is a pair of message and
position; `wire[e]` holds the bytes on their way to e, at most `Capacity`.
`SendPiece` and `RecvPiece` are one turn of the loops and move any number of
bytes. The peer may close, crash or be cut off at any point; `::send` then loses
the bytes, fails, or kills the process with SIGPIPE, and `::recv` gives 0 or an
error. The failing paths of `init` return what `close` returns, so a failed
`connect` looks like a success and the program goes on with a closed socket. The
target is `test_write_throughput_random` of `block_target.cc`; the initiator, and
the caller that closes the target's connection, are external.

The refinement: `MessageChannel` has `sent`, `delivered` and `closed`. `accepted`
and `received` record what `send` and `recv` returned `len` for; `Decode` turns a
received buffer back into a message, so a buffer put together wrongly maps to no
message and to no step of the channel.

### LocalTests

The blocking tests write by themselves. The asynchronous tests of
`file_rw_nvmeof.cc` have one shape, an issuing thread
and a completion thread around a ring or an AIO context, and differ in a few
places; `test` says which one runs, and the actions branch where the tests do:
how a slot is waited for, what happens to a refused submission (io_uring keeps
it, AIO drops it), what a failed completion does, whether the thread is joined.
`test_large_io_uring`, whose join is commented out, always ends in
`std::terminate` and is exempt from `TotalIsWritten`. A completion thread that returns
early (`GaveUp`), because `io_uring_wait_cqe` failed (`CqGivesUp`) or, in the poll test,
a write did, is joined like any other, and the total is printed with writes under way:
`TotalIsWritten` exempts exactly these. `Stranded` are the waits that nothing ends:
requests that were refused and are not submitted again, and in the poll test a full
ring whose completions nobody takes any more. No action of `Fails` is fair, so they are
not ended by a call that happens to fail.

## 3. Runs

| Run | Instance | What it shows |
|---|---|---|
| `worker_ok` | depth 3, ring 4, batch 2, 7 turns, file of 7 with blocks of 2, a cleared worker or one with a leftover `io_completed` | units, slots, batch counter, offsets, loss at the end, monitor, refinement of `IoCredits`, the process ends |
| `final_number` | depth 2, batch 1 | **violated**: the number that the comment at `benchmark.cc:786` promises is not calculated |
| `rdma` | events or polling, RDMA depth 3, poll batch 2, batch 2, 7 turns, a pool of 3 usable blocks and a rest | units, send queue, wakeups, distinct blocks inside the pool, every batch is written from its last block and never from another batch's, the client ends |
| `connection` | both processes, any failure | server stays while it is read, no stale event, both end |
| `target` | two threads of one process; two experiments with 2 and 1 writes; an experiment and a plain client; a client whose writes overflow the completion ring; a client that asks for no files and one without requests; `io_uring_queue_init_params`, `open`, `posix_memalign` and `io_uring_wait_cqe` may fail | a regular call does not bring the service down, drains its ring and its answer means written unless its completion thread gave up, and is answered; no ring goes away under its thread |
| `small_files` | depth 2 (a ring of 2), 4 requests to the handler or 5 files of the local test; failing calls | buffers and the answer, though slots are reused and the last submissions may be refused |
| `local_tests` | eight tests of 3 to 5 writes, depth 1 or 2, an AIO context of 3 | a printed total means finished writes unless the completion thread gave up, AIO leaves nothing behind, a test ends unless it is stranded |
| `async_server` | 3 calls, 4 objects, cancellation | no dangling tag, every client ends with its answer, no leak |
| `async_cancel` | 1 call | **violated**: the assertion on `ok` fails for a cancelled call |
| `block_service` | 2 writers, 1 reader, 3 calls, blocks of 2, 6 blocks, a count of 2 bits, sizes 0, 3, 4 and 9 | exact blocks from the call's own data, who can damage memory, no buffer left |
| `file_blocking` | 2 clients, large or small, 0 to 2 requests, equal and different sizes | what is acknowledged is on the file, who can overrun, every client ends |
| `tcp` | 3 blocks of 3 bytes, an answer of 2, 4 bytes under way | refinement of `MessageChannel`, blocks as sent, "done" means written, both ends end |

The two violated properties state a comment and an assertion; the findings quote
them.

Bounds. `Runtime` (turns of a loop within `-runtime` seconds) is above twice the
queue depth, so that units run out, come back and run out again and offsets wrap
at the end of file or pool. `UInt` is a small word size: `queued` would wrap
early if it could go below zero. `MaxObjs` is one more than the calls, which is
all the code can create. `Ctx` and `MaxFails` are small so that AIO batches are refused and a call of
`io_getevents` fails. `MaxFiles` bounds the files of a client of `FileTarget` and `MaxN` the requests of a
client of `FileBlocking`; both are 2 in the runs and any number in the proofs. Small files in a
ring of two make every slot serve several times; four of them give eight completions, more
than the completion ring of four holds, so that submissions are refused and the handler
is stranded. In `block_service` 3 calls are enough for two that overlap and one that
follows them; `NlbMod` of 4 makes a size of 0 and a size of 9 wrap. In `tcp` a
block is longer than half of `Capacity`, so that every cut of two neighbouring
messages happens. Two streams are enough for any pair of them to interfere; a handler never
sees more than the parameters of the moment. Model values are declared
symmetric in `block_service` only, where no liveness is checked.

Deadlock is not checked where the program really stops: after the last call of
the finite set of clients, or after a process has ended. `UringWorker` and
`RdmaClient` have an explicit stuttering step at their end instead, so a
deadlock anywhere else would be reported.

Fairness. Threads are scheduled by the operating system, the kernel and the
adapter finish what they accepted, gRPC delivers (weak fairness of each). For
io_uring, a submission may be refused for a while but is accepted again and
again (strong fairness of the accepted submission only): the worker itself reaps
between its tries, which is what frees the ring. No failing call is forced by
fairness (`VerbFailed`, `PostFails`, `Fail`, `CallFails`, `CqGivesUp`, `Fails` of
`LocalTests`, `Crash`, `Break`), and
the end of the runtime needs none: the number of turns is finite. In
`FileBlocking` and `TcpConnection` one process is one fair action
that includes its failing calls: a failure only leads to an earlier end. An EINTR
is a stuttering step, and fairness says that it does not go on for ever.

## 4. Proofs

Every theorem holds for all values of the constants that satisfy the assumption
named in the module that declares them. `PROJECT.json` lists the theorems; here is
what each group shows and why its invariant had to be strengthened. TLC checked
every strengthened invariant on the instance of its run before it was proved.

### The benchmark worker (BenchmarkProofs)

For every queue depth, ring, batch and block size, file size, word size and
runtime:

* for every configuration and every content of the heap: `TypeCorrect`,
  `Conservation`, `SlotAlways`, `Refinement` (the worker implements `IoCredits`) and
  `ClockBeforeReport` (the number reported before the start time is set is what the
  heap held in `io_completed`, and nothing is reported if that was 0);
* for a worker whose batch counter and file offset are cleared and a batch of 1 up to
  the queue depth (`Configured`): `NoStuck`, `BatchExact`, `InsideFile`, `LossBounded`.

`EngineAssumption` and `RuntimeAssumption` say that the depth is positive, that the
ring has at least as many slots as the depth (the kernel rounds up), that a block
fits the file and that the depth fits an unsigned.

`UnitsConserved` alone does not give `TypeOK`: `Prepare` would take a unit below
zero. What is needed is that a write is begun only with a unit in hand. `UnitAtHand`
says this for the places "idle" and "getsqe" and for the reaps that return to them:
inside `reap_io_uring_cq(worker, 1)` the free units are exactly the ones it has
returned itself, so it cannot come back without one. `EngineInv`, the conjunction of
types, conservation and `UnitAtHand`, is inductive for every configuration;
`SafeInv` adds the types of the threads. `SqeAvailable` follows from it and the ring
size.

`NoStuckReap` needs more: that a batch was submitted before the units ran out.
`BatchInv` says that `queued` equals `sq` and is below `Batch` outside the submit
loop, so with `Batch <= QD` and `free = 0` at least one unit is in the kernel or
completed. `OffsetInv` bounds the offset. `CleanInv` is their conjunction with
the fact that the worker stops at "idle".

`Conservation`, `BatchExact` and `LossBounded` are not listed by a run:
they are proved for every instance, and the run checks what they are for
(`ImplementsCredits`, `NoStuckReap`, `ProcessEnds`).

The engine's actions are proved once, at the beginning of `BenchmarkProofs`; the
worker and the client lift them to their threads, one step per action.

### The RDMA client (BenchmarkProofs)

`ClientInv` has the types, `EngineInv`, the RDMA units and `IovInv` (the writes
prepared are the writes taken and the entries of the submission ring, and the iovec
points at the block of the last one prepared); it is inductive for every depth, poll batch, reap frequency, pool and runtime
and in both modes. From it: `ClientTypeCorrect`, `RdmaConservation`, `SendQueueFits`,
`ClientSlotAlways` and `ClientRefinement`. The strengthening that the
units need is again a unit in hand: the loop is only reached with one free unit, and
a blocking reap that returns to the loop has returned at least one, although the
unit of the read just posted has not been debited yet.

Four more invariants are inductive relative to `ClientInv`. `WakeInv` follows one
turn of `ibv_get_cq_event`, `ibv_req_notify_cq`, `ibv_poll_cq`: between the event and
the rearming the queue is still to be polled, so a completion that comes in between
is found (`WakeupKept`). `PoolInv` gives `InsidePool`. `WindowInv` says that the reads
not yet handled are the last ones posted, in order, and that the n-th read uses block
`n % Rotation`; with at least `RQD` blocks in the rotation (`RoomForUnits`) they are
distinct (`NoSharedBlock`). Without that hypothesis the code reads two blocks into
the same memory. `ClientWritesSafe` has the hypothesis `Configured` of the worker.

`AlignInv`, also for `Configured`, says where the batches end: outside the submit loop
only whole batches were taken, and inside it the last write prepared completes a batch,
so that the iovec points at the block of that batch's last write. With the arithmetic of `NextMultiple`, `BatchEndIs`
and `BatchEndAfter` this gives `BatchWrittenFromLast`, over partial and refused
submissions: write i is made from the block of the last write of its batch. It says at
once that a batch of one writes what was read and that a larger one does not.

### File service, large files (FileTargetProofs)

For any finite set of clients, each with a depth of at least one and any numbers of
writes and files, 0 included: `TargetTypeCorrect`, `ServiceStays`,
`RingAlwaysDrained`, `ReplyAfterWrites`. The last two say what is left of them when the
completion thread of the call gave up. `TargetAssumption` bounds the files of a
client by `MaxFiles` and says that the threads of one process have its arguments.

`Protocol(c)` ties client, handler and completion thread of a call together and holds
whatever other clients do: no request and no completion is lost, and a thread is
joined before its ring goes away. For a regular call, `ParamsKept` says that the
service still has its parameters while it runs (the only use of `disturbed`), and
`RingInv` that nothing was refused, that the completion thread stops only at n, and
that for every file the writes made plus the ones under way are those dealt to it.
The counting lemmas `PendingAdd`, `PendingTake` and `DueAdd` carry the last part.

### File service, small files (SmallFilesProofs)

`SmallTypeCorrect`, `BuffersFreedSafely`, `ReplyAfterEnd`, for every positive number of
files and every queue depth, service and local test, with failing calls and refused
submissions. `ReplyAfterEnd` excepts a completion thread that gave up.
The point is a parity argument: every request takes two slots and the ring has an
even number, so user data only ever lies in even slots and a close, always in an
odd one, carries none. A depth of 1 gives a ring of one slot, in which no close is
ever prepared. Counting then shows that 2N completions are one per write and one per
close.

### File service, blocking handlers (FileBlockingProofs)

`BlockingTypeCorrect`, `WithinBuffers`, `AckedIsOnFile`, for any finite set of clients
with any numbers of requests and sizes. Two things can overrun a buffer, and
`WithinBuffers` names both: another size set under a running call, and a large call
without requests, which copies from an empty one. `Lockstep` lists the six stages of the exchange between a client
and its handler, `SizeInv` says that `buffer_size` and the buffer of an undisturbed
call have the size it asked for, and `FileInv` which of its writes the files hold at
each stage. `CountMine` counts the writes of a call through a bijection with its
requests.

### Block services (AsyncBlockProofs, BlockServiceProofs)

Asynchronous: `ServerTypeCorrect` and `TagsAlive`, for any finite set of calls.
`TagInv` says where a tag may be in each status and that at most one object waits for
a call; `CallInv` that different objects serve different calls, so by a pigeonhole
argument there is always an object left to create.

Synchronous: `BlockTypeCorrect`, `BufferReturned`, `WritesExact`, `MemoryWhole`, for
any clients, requests, block size and width of the count. `Apart` keeps the calls'
numbers and the buffers of the two operations apart; `OwnInv` says that what a call
without overlap has done so far is still in the arguments, in its buffer and on the
disk. `OtherCalls` shows that no step of another call changes that. `NlbExact` is the
arithmetic of the rounded block count: exact whenever the size is positive and fits.

### TCP connection (ConnectionProofs)

`TcpTypeCorrect`, `BlocksAsSent` and `TcpRefinement`, for every number of blocks, every
size of block and answer, every capacity, and every way the stream is cut, broken or
closed. `TcpAssumption` only says that the numbers are natural and the sizes and the
capacity positive.

Neither property is inductive. A byte has a place in the stream of its direction,
`q * length + k` for byte k after q whole messages. `FlowInv` says that the bytes on
the wire are those at the places that follow what the receiver has, without a gap, up
to what the sender has handed over. `PrefixInv` says that the buffer of an end that
receives holds the beginning of its next message; so when `recv` returns `len`, it is
that message. `SyncInv` says that the target is at most one write behind its receives,
and `ProgramInv` where each end is after how many messages. The target goes on writing
after a failed `recv`; `SyncInv` gives up the count exactly there, and needs that the
stream was empty and the initiator gone.

For the refinement, `Decode` is the inverse of `Bytes` on the buffers that the
invariant allows, so each step that appends to `accepted` or `received` is a step of
`MessageChannel`, each end's first exit from a connection is its `Close`, and every
other step stutters.

### RDMA connection (ConnectionProofs)

`RdmaTypeCorrect`, `ServerWaitsForEnd`, `EndIsPolled` and `SleeperIsArmed`. The module
has no constants and 225 states, which TLC enumerates too; the proof says why. `QueueInv` accounts for the
events and completions of each side at every place of its program (an event of the
handshake that was not taken would wake the server too early), and `RequestInv` ties
the token and the last request to the two programs: the request is delivered only to a
server that has rearmed its queue.

### Local tests (LocalTestsProofs)

`LocalTypeCorrect`, `TotalsAreWritten` and `AioLeavesNothing`, for every set of tests
with any number of writes, depth, number of files and context size, with any number of
refused submissions and failing calls. `ThreadInv` holds for each issuing thread on its
own (`Frame`: the threads of a test share nothing):

* `CountInv`: the requests that are written, in the kernel, prepared or lost are the
  ones the loop has made; and while none is lost, each file has as many of them as the
  loop has dealt to it. `TimesJoin`, `TimesTake` and `ShareAdd` carry that part;
* `SeenInv`: the completion thread has counted no more than what has left the ring, a
  failed `io_getevents` can only lower its count, and it ends only at N or by giving up
  (at a failed `io_uring_wait_cqe` or, in the poll test, a failed write);
* `AioInv`: the context is never above its limit, a request is deleted exactly when its
  completion is taken, and, while nothing is lost, every open file still has a request
  or a completion.

A thread that has joined one that did not give up has therefore seen N completions of at most N requests: none
is lost, and nothing is prepared, in the kernel or in the ring any more (`AllDone`).
This is why a test that drops a refused request never prints a wrong total: it does not
end.

### Only model-checked

* All liveness (`ProcessEnds`, `ClientEnds`, `BothEnd`, `AllAnswered`, `Answered`,
  `CallsAnswered`, `NoLeak`, `ClientsEnd`, `ConnectedEnd`, `TestEnds`): the prover has no
  fairness or `ENABLED`.
* The two violated properties, which are about the code as it is.

Every invariant and both refinements that a passing run checks are proved.

`TypeOK` is listed by the run `worker_ok` only; in the other modules with proofs it is
part of the inductive invariant and proved for every instance.

## 5. What is not modelled

* Contents of buffers beyond whose data they hold, and sizes outside
  `FileBlocking` and `BlockService`. In particular the address that the RDMA
  client writes from (`wr_id` is the server's address of the block,
  `benchmark.cc:726`). The asynchronous handlers read `buffer_size` several times
  as the blocking ones do.
* `GetStat`, `ResetStat` and the sums of times they read and clear. Handlers add to
  them without a lock; only a printed number can be wrong.
* The buffers of the blocking handlers, which are never freed.
* The results of completed large-file writes: the code only logs a failure, and a
  write counts as made when its completion has come.
* A small-file test or service call without files, and a depth of 0.
* Failing calls before the loop of the RDMA client's thread (`benchmark.cc` 684-708):
  the thread ends before it has begun.
* Configurations the code does not guard against are hypotheses of the checks and
  recorded as hazards: a batch above the queue depth and a worker that is not
  cleared (the benchmark then never ends), more writes than the completion ring
  holds or a plain client beside an experiment (the file service then hangs or
  faults), other parameters set under a running call, overlapping calls of the
  synchronous block service (they share buffers), a depth of one in the small-file handler (it spins), a refused
  submission that is the last one (the handler or the test waits for ever).
* The use of a worker freed by `launch_worker` (`benchmark.cc:780`): it has no
  defined outcome; the model ends the process.
* The number of blocks in `block_target.cc:30`, which counts from 0 but is one too
  high for its length: the device's answer is not defined, the model lets the
  write succeed or fail.
* Network failures that hit one direction of a TCP connection only.
* Argument parsing, printing and timing; shell scripts and measured data; the
  vendored `third_party` libraries; the RDMA connection class that is commented
  out in `net.h`; the handlers of the asynchronous block service for reads and
  statistics, which are never created; `block_rw_nvmeof.cc`, one loop of ioctls in
  one thread with the arithmetic of `BlockService`.

## 6. Plan

Done, in this order: IoCredits, UringEngine, UringWorker with their proofs,
RdmaClient, RdmaConnection, FileTarget, SmallFiles, AsyncBlockServer, LocalTests,
BlockService, FileBlocking, MessageChannel and TcpConnection.

Proofs, in this order: UringWorker, RdmaClient, SmallFiles, AsyncBlockServer,
BlockService, FileBlocking, FileTarget, TcpConnection with its refinement,
RdmaConnection, LocalTests.

Left:

1. What a call that is not regular still guarantees in FileTarget and BlockService,
   stated as properties of its own.
2. Action properties of the services (an answer is final, a file never loses an
   acknowledged write) from the invariants that are proved.
