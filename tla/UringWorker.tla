----------------------------- MODULE UringWorker -----------------------------
(***************************************************************************)
(* The NVMe-oF benchmark of benchmark.cc (the mode without -user-rdma):    *)
(* main launches a worker and a monitor thread and joins them; the worker  *)
(* runs do_io_io_uring, whose I/O path is UringEngine; the monitor runs    *)
(* calculate_stats and reads the worker's fields without synchronisation.  *)
(***************************************************************************)
EXTENDS UringEngine

VARIABLES
  heap,      \* what the worker's memory held before launch_worker
  pc,        \* the worker thread: "setup", "run", "done" or "failed"
  left,      \* iterations the runtime still allows
  stopped,   \* worker->stopped
  clockSet,  \* worker->start_time has been assigned
  main,      \* main: "launch", "join", then "exited" or "crashed"
  mon,       \* the monitor: "none", "loop", "sampled" or "done"
  sample,    \* the monitor's local io_completed
  report     \* the last number it printed, and the clock it was based on

workerVars == <<heap, pc, left, stopped, clockSet>>
otherVars  == <<main, mon, sample, report>>
vars == <<engineVars, workerVars, otherVars>>

Running == main \in {"launch", "join"}

Init ==
  /\ heap \in Heap
  /\ EngineInit(heap)
  /\ pc = "setup"
  /\ left = Runtime
  /\ stopped = FALSE
  /\ clockSet = FALSE
  /\ main = "launch"
  /\ mon = "none"
  /\ sample = 0
  /\ report = [count |-> 0, clock |-> FALSE]

-----------------------------------------------------------------------------
(* The worker thread.                                                      *)

SetupNoClock ==
  /\ Running
  /\ pc = "setup"
  /\ pc' = "run"
  /\ UNCHANGED <<engineVars, heap, left, stopped, clockSet, otherVars>>

(* open, fstat, fallocate, io_uring_queue_init_params, memalign, and then  *)
(* the start time.                                                         *)
Setup ==
  /\ Running
  /\ pc = "setup"
  /\ clockSet' = TRUE
  /\ pc' = "run"
  /\ UNCHANGED <<engineVars, heap, left, stopped, otherVars>>

(* Any of the calls of Setup fails: goto err.                              *)
SetupFails ==
  /\ Running
  /\ pc = "setup"
  /\ pc' = "failed"
  /\ UNCHANGED <<engineVars, heap, left, stopped, clockSet, otherVars>>

(* runtime_exceeded is false: one more turn of the loop.                   *)
LoopTurn ==
  /\ Running
  /\ pc = "run"
  /\ left > 0
  /\ left' = left - 1
  /\ BeginWrite
  /\ UNCHANGED <<heap, pc, stopped, clockSet, otherVars>>

(* runtime_exceeded is true.  Writes still prepared or in the kernel are   *)
(* left behind.                                                            *)
Stop ==
  /\ Running
  /\ pc = "run" /\ epc = "idle"
  /\ pc' = "done"
  /\ stopped' = TRUE
  /\ UNCHANGED <<engineVars, heap, left, clockSet, otherVars>>

WriteStep ==
  /\ Running
  /\ pc = "run"
  /\ EngineStep
  /\ UNCHANGED <<workerVars, otherVars>>

(* The kernel.                                                             *)
KernelStep ==
  /\ Running
  /\ Complete
  /\ UNCHANGED <<workerVars, otherVars>>

(* pthread_exit at err, or the return after the loop.                      *)
WorkerExited == pc \in {"done", "failed"} \/ epc = "err"

-----------------------------------------------------------------------------
(* main.                                                                   *)

(* launch_worker set the affinity; the monitor is started.                 *)
Launch ==
  /\ main = "launch"
  /\ main' = "join"
  /\ mon' = "loop"
  /\ UNCHANGED <<engineVars, workerVars, sample, report>>

(* set_worker_cpu fails: the worker is freed under the running thread and  *)
(* main goes on with NULL, which it dereferences for worker->tid.          *)
LaunchFails ==
  /\ main = "launch"
  /\ main' = "crashed"
  /\ UNCHANGED <<engineVars, workerVars, mon, sample, report>>

(* The worker is joined.  monitor_thread holds the 0 that pthread_create   *)
(* returned, so the second join does not wait for the monitor: it fails or *)
(* faults, and either ends the process.                                    *)
Join ==
  /\ main = "join"
  /\ WorkerExited
  /\ main' \in {"exited", "crashed"}
  /\ UNCHANGED <<engineVars, workerVars, mon, sample, report>>

-----------------------------------------------------------------------------
(* calculate_stats.                                                        *)

(* stopped is false; read io_completed.                                    *)
Sample ==
  /\ Running
  /\ mon = "loop" /\ ~stopped
  /\ sample' = ioCompleted
  /\ mon' = "sampled"
  /\ UNCHANGED <<engineVars, workerVars, main, report>>

(* Read start_time and print, unless there is nothing to divide.  The      *)
(* duration is 0 in the first millisecond: duration_ms == 0 is a choice.   *)
Report ==
  /\ Running
  /\ mon = "sampled"
  /\ mon' = "loop"
  /\ \/ sample # 0 /\ report' = [count |-> sample, clock |-> clockSet]
     \/ UNCHANGED report
  /\ UNCHANGED <<engineVars, workerVars, main, sample>>

MonitorEnds ==
  /\ Running
  /\ mon = "loop" /\ stopped
  /\ mon' = "done"
  /\ UNCHANGED <<engineVars, workerVars, main, sample, report>>

-----------------------------------------------------------------------------
WorkerThread == Setup \/ SetupFails \/ LoopTurn \/ Stop \/ WriteStep
MainThread   == Launch \/ LaunchFails \/ Join
Monitor      == Sample \/ Report \/ MonitorEnds

(* Nothing runs once the process is gone.                                  *)
Gone == ~Running /\ UNCHANGED vars

Next == WorkerThread \/ KernelStep \/ MainThread \/ Monitor \/ Gone

(* io_uring_submit is accepted again and again, though it may be refused   *)
(* for a while.                                                            *)
SubmitAccepted ==
  /\ Running
  /\ pc = "run"
  /\ \E k \in 1 .. sq : Submit(k)
  /\ UNCHANGED <<workerVars, otherVars>>

(* Every thread is scheduled and the kernel finishes every write.          *)
Fairness ==
  /\ WF_vars(WorkerThread)
  /\ SF_vars(SubmitAccepted)
  /\ WF_vars(KernelStep)
  /\ WF_vars(MainThread)

Spec == Init /\ [][Next]_vars

FairSpec == Spec /\ Fairness

-----------------------------------------------------------------------------
(* Properties.                                                             *)

(* Each variable has its type.                                             *)
TypeOK ==
  /\ EngineTypeOK
  /\ heap \in Heap
  /\ pc \in {"setup", "run", "done", "failed"}
  /\ left \in 0 .. Runtime
  /\ stopped \in BOOLEAN
  /\ clockSet \in BOOLEAN
  /\ main \in {"launch", "join", "exited", "crashed"}
  /\ mon \in {"none", "loop", "sampled", "done"}
  /\ sample \in Nat
  /\ report \in [count : Nat, clock : BOOLEAN]

(* What the worker leaves behind when the runtime is over: fewer writes    *)
(* than a batch were prepared and never submitted.                         *)
BoundedLoss == pc = "done" => sq < Batch

(* The monitor reports a count of its worker's own completions only with a *)
(* duration measured from its start_time.  Without the start_time it can   *)
(* only report a count that the memory held before, which launch_worker    *)
(* does not clear: none if the memory was clear.                           *)
ReportHasClock ==
  report.count # 0 => report.clock \/ report.count = heap.ioCompleted

(* A benchmark with a runtime comes to its end: the worker gets out of its *)
(* retry and reap loops, and main joins it.                                *)
ProcessEnds == <>[](~Running)

(* The comment on calculate_stats: the accurate number is calculated when  *)
(* the worker terminates.                                                  *)
FinalNumberAccurate ==
  main = "exited" /\ stopped => report.count = ioCompleted

=============================================================================
