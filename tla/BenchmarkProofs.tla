-------------------------- MODULE BenchmarkProofs --------------------------
(***************************************************************************)
(* Theorems about benchmark.cc: the io_uring path, the worker of the mode  *)
(* without -user-rdma, and the RDMA client, for every value of their       *)
(* constants.                                                              *)
(*                                                                         *)
(* The path is proved once: the lemmas of the first part are about         *)
(* EngineMove, any step of it, whatever thread takes it.  EngineInv is     *)
(* inductive for every configuration; BatchInv needs a zero                *)
(* io_uring_sqe_queued and a batch that fits the queue depth.  The second  *)
(* part adds the threads of UringWorker, the third those of RdmaClient:    *)
(* ClientInv (types, units and the history of the blocks) is inductive by  *)
(* itself; WakeInv, PoolInv, WindowInv and, in a well-configured client,   *)
(* AlignInv are inductive relative to it.                                  *)
(***************************************************************************)
EXTENDS UringWorker, RdmaClient, TLAPS

(* The io_uring path.                                                      *)

EngineMove == BeginWrite \/ EngineStep \/ Complete \/ UNCHANGED engineVars

(* While reap_io_uring_cq(worker, 1) runs, the units it has returned are   *)
(* all the free ones, so it cannot return without one.                     *)
UnitAtHand ==
  /\ epc \in {"idle", "getsqe"} => free > 0
  /\ epc = "reap" =>
       \/ call.ret = "submit" /\ call.min = 0
       \/ call.ret = "getsqe" /\ call.min = 0 /\ free > 0
       \/ call.ret = "idle" /\ call.min = 1 /\ free = call.reaped

EngineInv == EngineTypeOK /\ UnitsConserved /\ UnitAtHand

(* The remainder of an unsigned counter is in its range, and a value in    *)
(* the range is its own remainder.                                         *)
LEMMA UIntRange ==
  \A n \in Int : /\ n % UInt \in 0 .. (UInt - 1)
                 /\ n \in 0 .. (UInt - 1) => n % UInt = n
BY EngineAssumption DEF EngineAssumption

(* What one completion does to the ring of completions.                    *)
LEMMA CqLengths ==
  ASSUME cq \in Seq(Results)
  PROVE  /\ Len(cq) \in Nat
         /\ cq = <<>> <=> Len(cq) = 0
         /\ \A r \in Results : /\ Append(cq, r) \in Seq(Results)
                               /\ Len(Append(cq, r)) = Len(cq) + 1
         /\ cq # <<>> => /\ Tail(cq) \in Seq(Results)
                         /\ Len(Tail(cq)) = Len(cq) - 1
OBVIOUS

(* A new worker has all its units, whatever the heap held.                 *)
LEMMA EngineInitInv == ASSUME NEW h \in Heap, EngineInit(h) PROVE EngineInv
<1> USE EngineAssumption DEF EngineAssumption, EngineInit
<1>0. h.queued \in 0 .. (UInt - 1) /\ h.curOffset \in Nat /\ h.ioCompleted \in Nat
  OBVIOUS
<1>1. EngineTypeOK
  BY <1>0 DEF EngineTypeOK, NoCall, Results
<1>2. UnitsConserved
  BY DEF UnitsConserved
<1>3. UnitAtHand
  BY DEF UnitAtHand, NoCall
<1> QED
  BY <1>1, <1>2, <1>3 DEF EngineInv

(* Every step of the io_uring path keeps the types, the sum of the units   *)
(* and the unit the next write will take.                                  *)
LEMMA EngineMoveInv == EngineInv /\ EngineMove => EngineInv'
<1> SUFFICES ASSUME EngineInv, EngineMove PROVE EngineInv'
  OBVIOUS
<1> USE DEF EngineInv, EngineTypeOK, UnitsConserved, UnitAtHand, fields, ring, CallReap
<1>0. /\ cq \in Seq(Results)
      /\ Len(cq) \in Nat
      /\ cq = <<>> <=> Len(cq) = 0
  BY CqLengths
<1>1. CASE BeginWrite
  BY <1>1 DEF BeginWrite
<1>2. CASE Prepare
  <2>1. sq < SqEntries
    BY <1>0, <1>2, EngineAssumption DEF Prepare, EngineAssumption
  <2>2. NextOffset(curOffset) \in Nat
    BY EngineAssumption DEF NextOffset, EngineAssumption
  <2>3. queued' \in 0 .. (UInt - 1)
    <3>1. queued + 1 \in Int /\ queued' = (queued + 1) % UInt
      BY <1>2, <2>1, EngineAssumption DEF Prepare, EngineAssumption
    <3> QED
      BY ONLY <3>1, UIntRange
  <2> QED
    BY <1>0, <1>2, <2>1, <2>2, <2>3 DEF Prepare
<1>3. ASSUME NEW k \in 1 .. sq, Submit(k) PROVE EngineInv'
  <2>1. queued' \in 0 .. (UInt - 1)
    <3>1. queued - k \in Int /\ queued' = (queued - k) % UInt
      BY <1>3, EngineAssumption DEF Submit, EngineAssumption
    <3> QED
      BY ONLY <3>1, UIntRange
  <2> QED
    BY <1>0, <1>3, <2>1 DEF Submit
<1>4. CASE SubmitBusy
  BY <1>4 DEF SubmitBusy
<1>5. CASE SubmitDone
  BY <1>5 DEF SubmitDone
<1>6. CASE HasUnits
  BY <1>6 DEF HasUnits
<1>7. CASE NoUnits
  BY <1>7 DEF NoUnits
<1>8. CASE ReapCqe
  <2>1. cq' \in Seq(Results) /\ Len(cq') = Len(cq) - 1
    BY <1>8, CqLengths DEF ReapCqe
  <2>2. /\ call' \in [min : {0, 1}, reaped : Nat, ret : {"idle", "getsqe", "submit"}]
        /\ call'.min = call.min /\ call'.ret = call.ret
        /\ call'.reaped = call.reaped + 1
    <3>1. /\ call \in [min : {0, 1}, reaped : Nat, ret : {"idle", "getsqe", "submit"}]
          /\ call' = [call EXCEPT !.reaped = call.reaped + 1]
      BY <1>8 DEF ReapCqe
    <3> QED
      BY ONLY <3>1
  <2>3. UNCHANGED <<epc, queued, curOffset, sq, inflight>> /\ free' = free + 1
        /\ ioCompleted' = ioCompleted + 1
    BY <1>8 DEF ReapCqe
  <2> QED
    BY <1>0, <2>1, <2>2, <2>3
<1>9. CASE ReapError
  BY <1>9 DEF ReapError
<1>10. CASE ReapReturn
  BY <1>0, <1>10 DEF ReapReturn
<1>11. CASE Complete
  <2>1. cq' \in Seq(Results) /\ Len(cq') = Len(cq) + 1
    BY <1>11, CqLengths DEF Complete
  <2>2. inflight' = inflight - 1 /\ inflight > 0 /\ UNCHANGED <<epc, call, fields, sq>>
    BY <1>11 DEF Complete
  <2> QED
    BY <1>0, <2>1, <2>2
<1>12. CASE UNCHANGED engineVars
  BY <1>12 DEF engineVars
<1> QED
  BY <1>1, <1>2, <1>3, <1>4, <1>5, <1>6, <1>7, <1>8, <1>9, <1>10, <1>11, <1>12
     DEF EngineMove, EngineStep

-----------------------------------------------------------------------------
(* A new worker is an IoCredits queue with all its units free.             *)
LEMMA EngineInitCredits == ASSUME NEW h, EngineInit(h) PROVE Credits!Init
BY DEF EngineInit, Credits!Init

(* Every step of the io_uring path is a step of IoCredits or leaves its    *)
(* four numbers alone.                                                     *)
LEMMA EngineMoveCredits ==
  EngineInv /\ EngineMove => [Credits!Next]_(Credits!creditVars)
<1> SUFFICES ASSUME EngineInv, EngineMove
             PROVE  Credits!Next \/ UNCHANGED Credits!creditVars
  OBVIOUS
<1> USE DEF EngineInv, EngineTypeOK, Credits!creditVars, fields, ring, CallReap
<1>0. cq \in Seq(Results)
  OBVIOUS
<1>1. CASE BeginWrite
  BY <1>1 DEF BeginWrite
<1>2. CASE Prepare
  BY <1>2 DEF Prepare, UnitAtHand, Credits!Next, Credits!Acquire
<1>3. ASSUME NEW k \in 1 .. sq, Submit(k)
      PROVE  Credits!Next \/ UNCHANGED Credits!creditVars
  BY <1>3 DEF Submit, Credits!Next, Credits!HandOver
<1>4. CASE SubmitBusy \/ SubmitDone \/ HasUnits \/ NoUnits \/ ReapError \/ ReapReturn
  BY <1>4 DEF SubmitBusy, SubmitDone, HasUnits, NoUnits, ReapError, ReapReturn
<1>5. CASE ReapCqe
  <2>1. Len(cq) > 0 /\ Len(cq') = Len(cq) - 1
    BY <1>0, <1>5, CqLengths DEF ReapCqe
  <2> QED
    BY <1>5, <2>1 DEF ReapCqe, Credits!Next, Credits!Collect
<1>6. CASE Complete
  <2>1. Len(cq') = Len(cq) + 1
    BY <1>0, <1>6, CqLengths DEF Complete
  <2> QED
    BY <1>6, <2>1 DEF Complete, Credits!Next, Credits!Finish
<1>7. CASE UNCHANGED engineVars
  BY <1>7 DEF engineVars
<1> QED
  BY <1>1, <1>2, <1>3, <1>4, <1>5, <1>6, <1>7 DEF EngineMove, EngineStep

-----------------------------------------------------------------------------
(* The configurations in which the batch counter and the offset start      *)
(* right and a batch can be filled from the units there are.               *)
Configured ==
  /\ \A h \in Heap : h.queued = 0 /\ h.curOffset = 0
  /\ Batch \in 1 .. QD

(* The batch counter is exact, and short of a batch except in the submit   *)
(* loop.                                                                   *)
BatchInv ==
  /\ QueuedIsPrepared
  /\ epc \in {"idle", "getsqe", "units"} => queued < Batch
  /\ epc = "reap" /\ call.ret # "submit" => queued < Batch

(* A cleared worker has an empty batch.                                    *)
LEMMA EngineInitBatch == ASSUME Configured, NEW h \in Heap, EngineInit(h) PROVE BatchInv
BY DEF Configured, EngineInit, BatchInv, QueuedIsPrepared, NoCall

(* Every step of the io_uring path keeps the batch counter exact.          *)
LEMMA EngineMoveBatch ==
  Configured /\ EngineInv /\ BatchInv /\ EngineMove => BatchInv'
<1> SUFFICES ASSUME Configured, EngineInv, BatchInv, EngineMove PROVE BatchInv'
  OBVIOUS
<1> USE DEF EngineInv, EngineTypeOK, BatchInv, QueuedIsPrepared, fields, ring, CallReap
<1>0. /\ Batch \in Nat /\ Batch > 0 /\ QD \in Nat /\ QD < UInt /\ UInt \in Nat
      /\ Len(cq) \in Nat
  BY EngineAssumption, CqLengths DEF Configured, EngineAssumption
<1>1. CASE BeginWrite
  BY <1>1 DEF BeginWrite
<1>2. CASE Prepare
  <2>1. CASE sq < SqEntries
    <3>1. queued + 1 \in 0 .. (UInt - 1)
      BY <1>0, <1>2 DEF Prepare, UnitAtHand, UnitsConserved
    <3>2. queued' = (queued + 1) % UInt
      BY <1>2, <2>1 DEF Prepare
    <3>3. queued' = queued + 1
      BY ONLY <3>1, <3>2, UIntRange, <1>0
    <3> QED
      BY <1>0, <1>2, <2>1, <3>3 DEF Prepare
  <2> QED
    BY <1>2, <2>1 DEF Prepare
<1>3. ASSUME NEW k \in 1 .. sq, Submit(k) PROVE BatchInv'
  <2>1. queued - k \in 0 .. (UInt - 1)
    BY <1>0, <1>3 DEF Submit
  <2>2. queued' = (queued - k) % UInt
    BY <1>3 DEF Submit
  <2>3. queued' = queued - k
    BY ONLY <2>1, <2>2, UIntRange, <1>0
  <2> QED
    BY <1>0, <1>3, <2>3 DEF Submit
<1>4. CASE SubmitBusy
  BY <1>4 DEF SubmitBusy
<1>5. CASE SubmitDone
  BY <1>0, <1>5 DEF SubmitDone
<1>6. CASE HasUnits \/ NoUnits
  BY <1>6 DEF HasUnits, NoUnits
<1>7. CASE ReapCqe
  <2>1. call'.ret = call.ret
    <3>1. /\ call \in [min : {0, 1}, reaped : Nat, ret : {"idle", "getsqe", "submit"}]
          /\ call' = [call EXCEPT !.reaped = call.reaped + 1]
      BY <1>7 DEF ReapCqe
    <3> QED
      BY ONLY <3>1
  <2> QED
    BY <1>7, <2>1 DEF ReapCqe
<1>8. CASE ReapError
  BY <1>8 DEF ReapError
<1>9. CASE ReapReturn
  BY <1>9 DEF ReapReturn
<1>10. CASE Complete
  BY <1>10 DEF Complete
<1>11. CASE UNCHANGED engineVars
  BY <1>11 DEF engineVars
<1> QED
  BY <1>1, <1>2, <1>3, <1>4, <1>5, <1>6, <1>7, <1>8, <1>9, <1>10, <1>11
     DEF EngineMove, EngineStep

(* The invariants give the two safety properties of the loops: a slot is   *)
(* always found, and what reap waits for is on its way.                    *)
LEMMA SlotFound == EngineInv => SqeAvailable
<1> SUFFICES ASSUME EngineInv PROVE SqeAvailable
  OBVIOUS
<1>1. Len(cq) \in Nat
  BY CqLengths DEF EngineInv, EngineTypeOK
<1> QED
  BY <1>1, EngineAssumption
     DEF EngineInv, EngineTypeOK, UnitsConserved, UnitAtHand, SqeAvailable, EngineAssumption

(* A reap that still waits has a write in the kernel or in the ring.       *)
LEMMA ReapHasSource == Configured /\ EngineInv /\ BatchInv => NoStuckReap
<1> SUFFICES ASSUME Configured, EngineInv, BatchInv,
                    epc = "reap", call.reaped < call.min
             PROVE  inflight + Len(cq) > 0
  BY DEF NoStuckReap
<1>1. Len(cq) \in Nat
  BY CqLengths DEF EngineInv, EngineTypeOK
<1>2. call.reaped \in Nat
  BY DEF EngineInv, EngineTypeOK
<1>3. call.ret = "idle" /\ call.min = 1 /\ free = 0
  BY <1>2 DEF EngineInv, UnitAtHand
<1>4. sq < Batch /\ Batch <= QD /\ QD \in Nat
  BY <1>3, EngineAssumption
     DEF BatchInv, QueuedIsPrepared, Configured, EngineAssumption
<1>5. free + sq + inflight + Len(cq) = QD /\ sq \in Nat /\ inflight \in Nat /\ Batch \in Nat
  BY EngineAssumption DEF EngineInv, EngineTypeOK, UnitsConserved, EngineAssumption
<1> QED
  BY ONLY <1>1, <1>3, <1>4, <1>5

-----------------------------------------------------------------------------
(* The offset of the next write leaves room for the write.                 *)
OffsetInv == curOffset + Bs <= FileSize

(* The file holds at least one write.                                      *)
LEMMA EngineInitOffset == ASSUME Configured, NEW h \in Heap, EngineInit(h) PROVE OffsetInv
BY EngineAssumption DEF Configured, EngineInit, OffsetInv, EngineAssumption

(* The wrap at the end of the file keeps the next write inside it.         *)
LEMMA EngineMoveOffset == EngineInv /\ OffsetInv /\ EngineMove => OffsetInv'
<1> SUFFICES ASSUME EngineInv, OffsetInv, EngineMove PROVE OffsetInv'
  OBVIOUS
<1>1. NextOffset(curOffset) + Bs <= FileSize
  BY EngineAssumption
     DEF NextOffset, EngineAssumption, EngineInv, EngineTypeOK, OffsetInv
<1>2. curOffset' \in {curOffset, NextOffset(curOffset)}
  BY DEF EngineMove, EngineStep, BeginWrite, Prepare, Submit, SubmitBusy, SubmitDone,
         HasUnits, NoUnits, ReapCqe, ReapError, ReapReturn, Complete, fields, engineVars
<1> QED
  BY <1>1, <1>2 DEF OffsetInv

-----------------------------------------------------------------------------
(* The worker without RDMA.                                                *)

SafeInv == TypeOK /\ EngineInv

(* The threads move the io_uring path only by its own steps.               *)
LEMMA NextMovesEngine == [Next]_vars => EngineMove
BY DEF Next, vars, WorkerThread, Setup, SetupFails, LoopTurn, Stop, WriteStep, KernelStep,
       MainThread, Launch, LaunchFails, Join, Monitor, Sample, Report, MonitorEnds, Gone,
       EngineMove

(* Types hold at the start.                                                *)
LEMMA InitSafe == Init => SafeInv
<1> SUFFICES ASSUME Init PROVE SafeInv
  OBVIOUS
<1>1. EngineInv
  BY EngineInitInv DEF Init
<1>2. left \in 0 .. Runtime /\ sample \in Nat
  BY RuntimeAssumption DEF RuntimeAssumption, Init
<1>3. report \in [count : Nat, clock : BOOLEAN]
  BY Zenon DEF Init
<1>4. EngineTypeOK
  BY <1>1 DEF EngineInv
<1> QED
  BY <1>1, <1>2, <1>3, <1>4, Zenon DEF SafeInv, TypeOK, Init

(* Types, unit accounting and the unit at hand are preserved by each step  *)
(* of each thread, of the kernel and of main.                              *)
LEMMA NextSafe == SafeInv /\ [Next]_vars => SafeInv'
<1> SUFFICES ASSUME SafeInv, [Next]_vars PROVE SafeInv'
  OBVIOUS
<1>1. EngineInv'
  BY NextMovesEngine, EngineMoveInv DEF SafeInv
<1>2. EngineTypeOK'
  BY <1>1 DEF EngineInv
<1>3. /\ pc' \in {"setup", "run", "done", "failed"}
      /\ main' \in {"launch", "join", "exited", "crashed"}
      /\ mon' \in {"none", "loop", "sampled", "done"}
  BY DEF SafeInv, TypeOK, Next, vars, workerVars, otherVars, WorkerThread, Setup, SetupFails,
         LoopTurn, Stop, WriteStep, KernelStep, MainThread, Launch, LaunchFails, Join,
         Monitor, Sample, Report, MonitorEnds, Gone
<1>4. left' \in 0 .. Runtime /\ sample' \in Nat /\ heap' \in Heap
  BY RuntimeAssumption
     DEF SafeInv, TypeOK, EngineTypeOK, Next, vars, workerVars, otherVars, WorkerThread,
         Setup, SetupFails, LoopTurn, Stop, WriteStep, KernelStep, MainThread, Launch,
         LaunchFails, Join, Monitor, Sample, Report, MonitorEnds, Gone, RuntimeAssumption
<1>5. stopped' \in BOOLEAN /\ clockSet' \in BOOLEAN
  BY Zenon
     DEF SafeInv, TypeOK, Next, vars, workerVars, otherVars, WorkerThread, Setup, SetupFails,
         LoopTurn, Stop, WriteStep, KernelStep, MainThread, Launch, LaunchFails, Join,
         Monitor, Sample, Report, MonitorEnds, Gone
<1>6. report' \in [count : Nat, clock : BOOLEAN]
  <2>1. UNCHANGED report \/ report' = [count |-> sample, clock |-> clockSet]
    BY DEF Next, vars, otherVars, WorkerThread, Setup, SetupFails, LoopTurn, Stop, WriteStep,
           KernelStep, MainThread, Launch, LaunchFails, Join, Monitor, Sample, Report,
           MonitorEnds, Gone
  <2>2. /\ report \in [count : Nat, clock : BOOLEAN]
        /\ sample \in Nat
        /\ clockSet \in BOOLEAN
    BY DEF SafeInv, TypeOK
  <2>3. CASE UNCHANGED report
    BY <2>2, <2>3
  <2>4. CASE report' = [count |-> sample, clock |-> clockSet]
    BY <2>2, <2>4, Zenon
  <2> QED
    BY <2>1, <2>3, <2>4
<1> QED
  BY <1>1, <1>2, <1>3, <1>4, <1>5, <1>6, Zenon DEF SafeInv, TypeOK

(* SafeInv holds throughout every run.                                     *)
LEMMA SafeAlways == Spec => []SafeInv
BY InitSafe, NextSafe, PTL DEF Spec

-----------------------------------------------------------------------------
(* Type correctness of the benchmark, whatever its arguments: in           *)
(* particular free_io_units_io_uring, an unsigned, is never taken below 0. *)
THEOREM TypeCorrect == Spec => []TypeOK
<1>1. SafeInv => TypeOK
  BY DEF SafeInv
<1> QED
  BY <1>1, SafeAlways, PTL

(* No unit is lost or returned twice, whatever the batch size and whatever *)
(* the unset fields held.                                                  *)
THEOREM Conservation == Spec => []UnitsConserved
<1>1. SafeInv => UnitsConserved
  BY DEF SafeInv, EngineInv
<1> QED
  BY <1>1, SafeAlways, PTL

(* io_uring_get_sqe always finds a slot: the branch that reaps and retries *)
(* is dead code for every queue depth and batch size.                      *)
THEOREM SlotAlways == Spec => []SqeAvailable
<1>1. SafeInv => SqeAvailable
  BY SlotFound DEF SafeInv
<1> QED
  BY <1>1, SafeAlways, PTL

(* The benchmark's use of the ring implements the abstract bounded queue.  *)
THEOREM Refinement == Spec => ImplementsCredits
<1>1. Init => Credits!Init
  BY EngineInitCredits DEF Init
<1>2. SafeInv /\ [Next]_vars => [Credits!Next]_(Credits!creditVars)
  BY NextMovesEngine, EngineMoveCredits DEF SafeInv
<1> QED
  BY <1>1, <1>2, SafeAlways, PTL DEF Spec, ImplementsCredits, Credits!Spec

-----------------------------------------------------------------------------
(* Until the clock is set nothing is written, and the count is what the    *)
(* memory held.                                                            *)
ClockInv ==
  /\ ~clockSet => /\ pc \in {"setup", "failed"}
                  /\ ioCompleted = heap.ioCompleted
                  /\ sample \in {0, heap.ioCompleted}
  /\ ReportHasClock

(* Every number the monitor prints came from a loop that began by setting  *)
(* the clock or was in the memory before, whatever it held and whatever    *)
(* the arguments.                                                          *)
THEOREM ClockBeforeReport == Spec => []ReportHasClock
<1>1. Init => ClockInv
  BY DEF Init, EngineInit, ClockInv, ReportHasClock
<1>2. ClockInv /\ [Next]_vars => ClockInv'
  <2> SUFFICES ASSUME ClockInv, [Next]_vars PROVE ClockInv'
    OBVIOUS
  <2>1. (~clockSet => /\ pc \in {"setup", "failed"}
                      /\ ioCompleted = heap.ioCompleted
                      /\ sample \in {0, heap.ioCompleted})'
    BY DEF ClockInv, Next, vars, engineVars, fields, workerVars, otherVars, WorkerThread, Setup,
           SetupFails, LoopTurn, BeginWrite, Stop, WriteStep, KernelStep, Complete, MainThread,
           Launch, LaunchFails, Join, Monitor, Sample, Report, MonitorEnds, Gone
  <2>2. /\ UNCHANGED heap
        /\ UNCHANGED report \/ (sample # 0 /\ report' = [count |-> sample, clock |-> clockSet])
    BY DEF Next, vars, workerVars, otherVars, WorkerThread, Setup, SetupFails, LoopTurn, Stop,
           WriteStep, KernelStep, MainThread, Launch, LaunchFails, Join, Monitor, Sample, Report,
           MonitorEnds, Gone
  <2>3. ReportHasClock'
    BY <2>2 DEF ClockInv, ReportHasClock
  <2> QED
    BY <2>1, <2>3 DEF ClockInv
<1>3. ClockInv => ReportHasClock
  BY DEF ClockInv
<1> QED
  BY <1>1, <1>2, <1>3, PTL DEF Spec

-----------------------------------------------------------------------------
(* The invariant of the well-configured benchmark.  The worker stops only  *)
(* between two writes.                                                     *)
CleanInv ==
  /\ SafeInv
  /\ BatchInv
  /\ OffsetInv
  /\ pc = "done" => epc = "idle"

(* A cleared worker starts in the invariant.                               *)
LEMMA InitClean == Configured /\ Init => CleanInv
<1> SUFFICES ASSUME Configured, Init PROVE CleanInv
  OBVIOUS
<1>1. SafeInv /\ BatchInv /\ OffsetInv
  BY InitSafe, EngineInitBatch, EngineInitOffset DEF Init
<1> QED
  BY <1>1 DEF CleanInv, Init

(* Each step keeps it.                                                     *)
LEMMA NextClean == Configured /\ CleanInv /\ [Next]_vars => CleanInv'
<1> SUFFICES ASSUME Configured, CleanInv, [Next]_vars PROVE CleanInv'
  OBVIOUS
<1>1. SafeInv'
  BY NextSafe DEF CleanInv
<1>2. BatchInv' /\ OffsetInv'
  BY NextMovesEngine, EngineMoveBatch, EngineMoveOffset DEF CleanInv, SafeInv
<1>3. (pc = "done" => epc = "idle")'
  BY DEF CleanInv, Next, vars, engineVars, workerVars, WorkerThread, Setup, SetupFails,
         LoopTurn, Stop, WriteStep, KernelStep, Complete, MainThread, Launch, LaunchFails,
         Join, Monitor, Sample, Report, MonitorEnds, Gone
<1> QED
  BY <1>1, <1>2, <1>3 DEF CleanInv

(* The invariant holds throughout a well-configured run.                   *)
LEMMA CleanAlways ==
  ASSUME Configured
  PROVE  Spec => []CleanInv
<1>1. Init => CleanInv
  BY InitClean
<1>2. CleanInv /\ [Next]_vars => CleanInv'
  BY NextClean
<1> QED
  BY <1>1, <1>2, PTL DEF Spec

(* In a well-configured benchmark reap_io_uring_cq never spins for a       *)
(* completion that cannot come.                                            *)
THEOREM NoStuck ==
  ASSUME Configured
  PROVE  Spec => []NoStuckReap
<1>1. CleanInv => NoStuckReap
  BY ReapHasSource DEF CleanInv, SafeInv
<1> QED
  BY <1>1, CleanAlways, PTL

(* In a well-configured benchmark the submit loop ends exactly when the    *)
(* ring has been handed to the kernel.                                     *)
THEOREM BatchExact ==
  ASSUME Configured
  PROVE  Spec => []QueuedIsPrepared
<1>1. CleanInv => QueuedIsPrepared
  BY DEF CleanInv, BatchInv
<1> QED
  BY <1>1, CleanAlways, PTL

(* In a well-configured benchmark no write passes the end of the file.     *)
THEOREM InsideFile ==
  ASSUME Configured
  PROVE  Spec => []OffsetsInFile
<1>1. CleanInv => OffsetsInFile
  BY DEF CleanInv, OffsetInv, OffsetsInFile
<1> QED
  BY <1>1, CleanAlways, PTL

(* In a well-configured benchmark the end of the runtime drops less than a *)
(* batch of prepared writes.                                               *)
THEOREM LossBounded ==
  ASSUME Configured
  PROVE  Spec => []BoundedLoss
<1>1. CleanInv => BoundedLoss
  BY DEF CleanInv, BatchInv, QueuedIsPrepared, BoundedLoss
<1> QED
  BY <1>1, CleanAlways, PTL

-----------------------------------------------------------------------------
(* The RDMA client.                                                        *)

-----------------------------------------------------------------------------
(* Sequences used as queues.                                               *)

(* What taking the oldest element leaves.                                  *)
LEMMA TailFacts ==
  ASSUME NEW S, NEW s \in Seq(S), s # <<>>
  PROVE  /\ Len(s) \in Nat /\ Len(s) > 0
         /\ Head(s) \in S /\ Head(s) = s[1]
         /\ Tail(s) \in Seq(S)
         /\ Len(Tail(s)) = Len(s) - 1
         /\ \A i \in 1 .. (Len(s) - 1) : Tail(s)[i] = s[i + 1]
OBVIOUS

(* What adding an element does.                                            *)
LEMMA AppendFacts ==
  ASSUME NEW S, NEW s \in Seq(S), NEW e \in S
  PROVE  /\ Append(s, e) \in Seq(S)
         /\ Len(s) \in Nat
         /\ Len(Append(s, e)) = Len(s) + 1
         /\ \A i \in 1 .. Len(s) : Append(s, e)[i] = s[i]
         /\ Append(s, e)[Len(s) + 1] = e
         /\ Append(s, e) # <<>>
OBVIOUS

(* What taking a batch off the front leaves, and what it takes.            *)
LEMMA SplitFacts ==
  ASSUME NEW S, NEW s \in Seq(S), NEW k \in 0 .. Len(s)
  PROVE  /\ Len(s) \in Nat
         /\ SubSeq(s, 1, k) \in Seq(S)
         /\ Len(SubSeq(s, 1, k)) = k
         /\ \A i \in 1 .. k : SubSeq(s, 1, k)[i] = s[i]
         /\ SubSeq(s, k + 1, Len(s)) \in Seq(S)
         /\ Len(SubSeq(s, k + 1, Len(s))) = Len(s) - k
         /\ \A i \in 1 .. (Len(s) - k) : SubSeq(s, k + 1, Len(s))[i] = s[k + i]
OBVIOUS

(* What adding copies of one element does.                                 *)
LEMMA CopiesFacts ==
  ASSUME NEW S, NEW s \in Seq(S), NEW e \in S, NEW k \in Nat
  PROVE  /\ Len(s) \in Nat
         /\ s \o [j \in 1 .. k |-> e] \in Seq(S)
         /\ Len(s \o [j \in 1 .. k |-> e]) = Len(s) + k
         /\ \A i \in 1 .. Len(s) : (s \o [j \in 1 .. k |-> e])[i] = s[i]
         /\ \A i \in (Len(s) + 1) .. (Len(s) + k) : (s \o [j \in 1 .. k |-> e])[i] = e
<1> DEFINE t == [j \in 1 .. k |-> e]
<1>1. t \in Seq(S) /\ Len(t) = k /\ \A j \in 1 .. k : t[j] = e
  OBVIOUS
<1> HIDE DEF t
<1>2. /\ Len(s) \in Nat
      /\ s \o t \in Seq(S)
      /\ Len(s \o t) = Len(s) + k
      /\ \A i \in 1 .. Len(s) : (s \o t)[i] = s[i]
      /\ \A i \in (Len(s) + 1) .. (Len(s) + k) : (s \o t)[i] = t[i - Len(s)]
  BY <1>1
<1>3. \A i \in (Len(s) + 1) .. (Len(s) + k) : t[i - Len(s)] = e
  <2> SUFFICES ASSUME NEW i \in (Len(s) + 1) .. (Len(s) + k) PROVE t[i - Len(s)] = e
    OBVIOUS
  <2>1. i - Len(s) \in 1 .. k
    BY <1>2
  <2> QED
    BY <1>1, <2>1
<1> QED
  BY <1>2, <1>3 DEF t

(* Only the empty sequence has length 0.                                   *)
LEMMA EmptyFacts ==
  ASSUME NEW S, NEW s \in Seq(S)
  PROVE  Len(s) \in Nat /\ (s = <<>> <=> Len(s) = 0)
OBVIOUS

-----------------------------------------------------------------------------
(* The client moves the io_uring path only by its own steps.               *)
LEMMA ClientMovesEngine == [ClientNext]_clientVars => EngineMove
BY DEF ClientNext, clientVars, Client, PostRead, CallReapRdma, Debit, StopClient, Terminate,
       GetEvent, ReqNotify,
       Poll, PollEmpty, WriteBlock, ReadFailed, BatchHandled, PrepareBlock, SubmitBlocks,
       BlockStep, PostFails, VerbFailed, ReadDone, WriteDone, AllQuiet, EngineMove, EngineStep

-----------------------------------------------------------------------------
(* The units at each step of the thread: it has one whenever it is about   *)
(* to post or to debit, and a blocking reap starts with none, so that what *)
(* it has got is what is free.                                             *)
UnitInv ==
  /\ rpc \in {"loop", "debit", "end"} => rfree > 0
  /\ InReap =>
       \/ rcall.ret = "debit" /\ rcall.min = 0 /\ rfree > 0
       \/ rcall.ret = "loop" /\ rcall.min = 1 /\ rfree = rcall.got
  /\ rpc \notin {"each", "err"} => polled = 0
  /\ rpc # "err" => Len(wc) <= polled

(* The prepared writes that the kernel has not taken are those in the      *)
(* submission ring, the iovec points at the block of the last of them, and *)
(* a write that is being prepared has its completion at hand.              *)
IovInv ==
  /\ Len(meant) = Len(taken) + sq
  /\ meant # <<>> => meant[Len(meant)] = iov
  /\ epc = "getsqe" \/ (epc = "reap" /\ call.ret = "getsqe") => wc # <<>>

(* The types of the variables that RdmaClient adds to the engine's.        *)
ClientTypes ==
  /\ rpc \in {"loop", "debit", "event", "notify", "poll", "each", "end", "done", "err"}
  /\ rleft \in 0 .. Runtime
  /\ rcall \in [min : {0, 1}, got : Nat, ret : {"debit", "loop"}]
  /\ posted \in Nat
  /\ offset \in Blocks
  /\ rfree \in Nat
  /\ flying \in Seq(Blocks)
  /\ rcq \in Seq(Wc)
  /\ events \in Nat
  /\ wc \in Seq(Wc)
  /\ polled \in Nat
  /\ iov \in Blocks \cup {NoBlock}
  /\ meant \in Seq(Blocks)
  /\ taken \in Seq(Blocks)

ClientInv == EngineInv /\ ClientTypes /\ UnitInv /\ RdmaUnitsConserved /\ IovInv

(* The client starts with all units, an empty queue and an empty ring.     *)
LEMMA InitClient == ClientInit => ClientInv
<1> SUFFICES ASSUME ClientInit PROVE ClientInv
  OBVIOUS
<1>1. EngineInv
  BY EngineInitInv DEF ClientInit
<1>2. ClientTypes
  BY EngineAssumption, ClientAssumption, RuntimeAssumption
     DEF ClientInit, ClientTypes, Blocks, EngineAssumption, ClientAssumption
<1>3. UnitInv /\ RdmaUnitsConserved
  BY ClientAssumption
     DEF ClientInit, UnitInv, InReap, RdmaUnitsConserved, InQp, Undebited, ClientAssumption
<1>4. IovInv
  BY DEF ClientInit, EngineInit, IovInv
<1> QED
  BY <1>1, <1>2, <1>3, <1>4 DEF ClientInv

(* The rotation through the pool stays in the pool.                        *)
LEMMA PoolStep ==
  ASSUME offset \in Blocks
  PROVE  NextPoolOffset(offset) \in Blocks
BY EngineAssumption, ClientAssumption
   DEF Blocks, NextPoolOffset, EngineAssumption, ClientAssumption

(* Each step keeps the types, the units and the history of the blocks.     *)
LEMMA NextClient == ClientInv /\ [ClientNext]_clientVars => ClientInv'
<1> SUFFICES ASSUME ClientInv, [ClientNext]_clientVars PROVE ClientInv'
  OBVIOUS
<1>0. EngineInv'
  BY ClientMovesEngine, EngineMoveInv DEF ClientInv
<1> SUFFICES (ClientTypes /\ UnitInv /\ RdmaUnitsConserved /\ IovInv)'
  BY <1>0 DEF ClientInv
<1>a. /\ rcq \in Seq(Wc) /\ wc \in Seq(Wc) /\ flying \in Seq(Blocks)
      /\ meant \in Seq(Blocks) /\ taken \in Seq(Blocks) /\ sq \in Nat
      /\ Len(rcq) \in Nat /\ Len(wc) \in Nat /\ Len(flying) \in Nat
      /\ Len(meant) \in Nat /\ Len(taken) \in Nat
      /\ rcq = <<>> <=> Len(rcq) = 0
      /\ wc = <<>> <=> Len(wc) = 0
      /\ RQD \in Nat /\ RQD > 0 /\ PollBatch \in Nat /\ PollBatch > 0 /\ Runtime \in Nat
  BY EmptyFacts, ClientAssumption, RuntimeAssumption
     DEF ClientInv, ClientTypes, EngineInv, EngineTypeOK, ClientAssumption
<1> USE DEF ClientInv, ClientTypes, UnitInv, RdmaUnitsConserved, IovInv, InReap, Undebited,
            InQp, nicVars, loopVars, reapVars, iovVars, engineVars, fields, ring,
            CallReapRdma, WaitStep
<1>1. CASE PostRead
  <2>1. InQp < RQD
    BY <1>a, <1>1 DEF PostRead
  <2>2. /\ flying' = Append(flying, offset) 
        /\ flying' \in Seq(Blocks) /\ Len(flying') = Len(flying) + 1
    <3>1. flying' = Append(flying, offset) /\ offset \in Blocks
      BY <1>1, <2>1 DEF PostRead
    <3> QED
      BY ONLY <1>a, <3>1, AppendFacts
  <2>3. offset' \in Blocks
    BY <1>1, PoolStep DEF PostRead
  <2>4. /\ rpc = "loop" /\ rleft > 0 /\ rleft' = rleft - 1 /\ posted' = posted + 1
        /\ UNCHANGED <<engineVars, event, rfree, rcq, armed, events, wc, polled, iovVars>>
    BY <1>1 DEF PostRead
  <2>5. \/ rpc' = "debit" /\ UNCHANGED rcall
        \/ /\ rpc' \in {"event", "poll"}
           /\ rcall' = [min |-> 0, got |-> 0, ret |-> "debit"]
    BY <1>1, <2>1 DEF PostRead
  <2>6. ClientTypes'
    BY <1>a, <2>2, <2>3, <2>4, <2>5
  <2>7. UnitInv'
    BY <1>a, <2>4, <2>5
  <2>8. RdmaUnitsConserved'
    <3>1. Undebited' /\ ~Undebited
      BY <2>4, <2>5
    <3>2. rfree + (Len(flying) + Len(rcq)) + polled = RQD
      BY <1>a, <2>4, <3>1
    <3>3. UNCHANGED <<rfree, rcq, polled>> /\ rfree \in Nat /\ polled \in Nat
      BY <2>4
    <3>4. rfree' + (Len(flying') + Len(rcq')) + polled' = RQD + 1
      BY ONLY <1>a, <2>2, <3>2, <3>3
    <3> QED
      BY <3>1, <3>4 DEF RdmaUnitsConserved, InQp
  <2>9. IovInv'
    BY <2>4
  <2> QED
    BY <2>6, <2>7, <2>8, <2>9
<1>2. CASE Debit
  BY <1>a, <1>2 DEF Debit
<1>3. CASE StopClient \/ Terminate
  BY <1>a, <1>3 DEF StopClient, Terminate
<1>4. CASE GetEvent \/ ReqNotify
  <2>1. /\ (rpc = "event" /\ rpc' = "notify") \/ (rpc = "notify" /\ rpc' = "poll")
        /\ UNCHANGED <<engineVars, event, loopVars, flying, rcq, reapVars, iovVars>>
        /\ events' \in Nat
    BY <1>4 DEF GetEvent, ReqNotify
  <2> QED
    BY <1>a, <2>1
<1>5. CASE Poll
  <2>1. polled' \in 1 .. Len(rcq)
    BY <1>a, <1>5 DEF Poll
  <2>2. /\ wc' \in Seq(Wc) /\ Len(wc') = polled'
        /\ rcq' \in Seq(Wc) /\ Len(rcq') = Len(rcq) - polled'
        /\ wc' # <<>>
    <3>1. wc' = SubSeq(rcq, 1, polled') /\ rcq' = SubSeq(rcq, polled' + 1, Len(rcq))
      BY <1>5 DEF Poll
    <3>2. polled' \in 0 .. Len(rcq)
      BY <1>a, <2>1
    <3>3. /\ wc' \in Seq(Wc) /\ Len(wc') = polled'
          /\ rcq' \in Seq(Wc) /\ Len(rcq') = Len(rcq) - polled'
      BY ONLY <1>a, <3>1, <3>2, SplitFacts
    <3> QED
      BY <2>1, <3>3, EmptyFacts
  <2>3. rpc = "poll" /\ rpc' = "each"
        /\ UNCHANGED <<engineVars, event, loopVars, flying, rcall, iovVars>>
    BY <1>5 DEF Poll
  <2>4. ClientTypes'
    BY <1>a, <1>5, <2>1, <2>2, <2>3 DEF Poll
  <2>5. UnitInv' /\ RdmaUnitsConserved'
    BY <1>a, <2>1, <2>2, <2>3
  <2>6. IovInv'
    BY <2>2, <2>3
  <2> QED
    BY <2>4, <2>5, <2>6
<1>6. CASE PollEmpty
  BY <1>a, <1>6 DEF PollEmpty
<1>7. CASE WriteBlock
  BY <1>a, <1>7 DEF WriteBlock, BeginWrite
<1>8. CASE ReadFailed \/ VerbFailed
  BY <1>a, <1>8 DEF ReadFailed, VerbFailed
<1>16. CASE PostFails
  <2>1. offset' \in Blocks
    BY <1>16, PoolStep DEF PostFails
  <2>2. rleft' \in 0 .. Runtime /\ posted' \in Nat
    BY <1>a, <1>16 DEF PostFails
  <2>3. rpc' = "err" /\ UNCHANGED <<engineVars, rfree, nicVars, reapVars, iovVars>>
    BY <1>16 DEF PostFails
  <2> QED
    BY <2>1, <2>2, <2>3
<1>9. CASE BatchHandled
  <2>1. /\ rcall' \in [min : {0, 1}, got : Nat, ret : {"debit", "loop"}]
        /\ rcall'.min = rcall.min /\ rcall'.ret = rcall.ret
        /\ rcall'.got = rcall.got + polled
    <3>1. /\ rcall \in [min : {0, 1}, got : Nat, ret : {"debit", "loop"}]
          /\ rcall' = [rcall EXCEPT !.got = rcall.got + polled]
          /\ polled \in Nat
      BY <1>9 DEF BatchHandled
    <3> QED
      BY ONLY <3>1
  <2>2. /\ rpc = "each" /\ rpc' = "poll" /\ wc = <<>>
        /\ rfree' = rfree + polled /\ polled' = 0
        /\ UNCHANGED <<engineVars, event, rleft, posted, offset, nicVars, wc, iovVars>>
    BY <1>9 DEF BatchHandled
  <2>3. ClientTypes'
    BY <1>a, <2>1, <2>2
  <2>4. UnitInv'
    <3>1. \/ rcall.ret = "debit" /\ rcall.min = 0 /\ rfree > 0
          \/ rcall.ret = "loop" /\ rcall.min = 1 /\ rfree = rcall.got
      BY <2>2
    <3>2. rfree \in Nat /\ polled \in Nat /\ rcall.got \in Nat /\ Len(wc) = 0
      BY <1>a, <2>2
    <3>3. \/ rcall'.ret = "debit" /\ rcall'.min = 0 /\ rfree' > 0
          \/ rcall'.ret = "loop" /\ rcall'.min = 1 /\ rfree' = rcall'.got
      BY ONLY <2>1, <2>2, <3>1, <3>2
    <3> QED
      BY <2>2, <3>2, <3>3
  <2>5. RdmaUnitsConserved'
    BY <1>a, <2>1, <2>2
  <2>6. IovInv'
    BY <2>2
  <2> QED
    BY <2>3, <2>4, <2>5, <2>6
<1>10. CASE ~Ended /\ PrepareBlock
  <2>1. sq < SqEntries /\ wc # <<>>
    BY <1>10, SlotFound DEF PrepareBlock, Prepare, SqeAvailable
  <2>2. /\ Tail(wc) \in Seq(Wc) /\ Len(Tail(wc)) = Len(wc) - 1
        /\ Head(wc).block \in Blocks
    <3>1. Head(wc) \in Wc /\ Tail(wc) \in Seq(Wc) /\ Len(Tail(wc)) = Len(wc) - 1
      BY ONLY <1>a, <2>1, TailFacts
    <3> QED
      BY <3>1 DEF Wc
  <2>3. /\ iov' = Head(wc).block /\ wc' = Tail(wc)
        /\ meant' = Append(meant, Head(wc).block) /\ taken' = taken
        /\ sq' = sq + 1 /\ epc' \in {"submit", "units"}
        /\ rpc # "err"
        /\ UNCHANGED <<event, rpc, loopVars, nicVars, rcall, polled>>
    BY <1>10, <2>1 DEF PrepareBlock, Prepare, Ended
  <2>4. /\ meant' \in Seq(Blocks) /\ Len(meant') = Len(meant) + 1
        /\ meant'[Len(meant')] = iov'
    BY ONLY <1>a, <2>2, <2>3, AppendFacts
  <2>5. IovInv'
    BY <1>a, <2>3, <2>4
  <2>6. ClientTypes'
    BY <2>2, <2>3, <2>4
  <2>7. UnitInv' /\ RdmaUnitsConserved'
    BY <1>a, <2>2, <2>3
  <2> QED
    BY <2>5, <2>6, <2>7
<1>11. CASE SubmitBlocks
  <2>1. PICK k \in 1 .. sq : Submit(k) /\ taken' = taken \o [j \in 1 .. k |-> iov]
    BY <1>11 DEF SubmitBlocks
  <2>2. /\ epc = "submit" /\ epc' = "submit" /\ sq' = sq - k
        /\ UNCHANGED <<event, rpc, loopVars, nicVars, reapVars, iov, meant>>
    BY <1>11, <2>1 DEF SubmitBlocks, Submit
  <2>3. iov \in Blocks
    <3>1. Len(meant) \in 1 .. Len(meant)
      BY <1>a, <2>1
    <3>2. meant[Len(meant)] \in Blocks /\ meant # <<>>
      BY ONLY <1>a, <3>1, EmptyFacts
    <3> QED
      BY <3>2
  <2>4. taken' \in Seq(Blocks) /\ Len(taken') = Len(taken) + k
    <3>1. k \in Nat
      BY <1>a, <2>1
    <3> QED
      BY ONLY <1>a, <2>1, <2>3, <3>1, CopiesFacts
  <2>6. ClientTypes' /\ UnitInv' /\ RdmaUnitsConserved'
    BY <2>2, <2>4
  <2>5. Len(meant) = Len(taken') + sq'
    <3>1. Len(meant) = Len(taken) + sq
      OBVIOUS
    <3>2. Len(taken') = Len(taken) + k /\ sq' = sq - k /\ k \in 1 .. sq
      BY <2>1, <2>2, <2>4
    <3> QED
      BY ONLY <1>a, <3>1, <3>2
  <2>7. IovInv'
    BY <2>2, <2>5
  <2> QED
    BY <2>6, <2>7
<1>12. CASE BlockStep
  <2>1. UNCHANGED <<event, rpc, loopVars, nicVars, reapVars, iovVars>>
    BY <1>12 DEF BlockStep
  <2>2. UNCHANGED sq
    BY <1>12 DEF BlockStep, SubmitBusy, SubmitDone, HasUnits, NoUnits, ReapCqe, ReapError,
                 ReapReturn
  <2>3. (epc = "getsqe" \/ (epc = "reap" /\ call.ret = "getsqe") => wc # <<>>)'
    <3>1. CASE SubmitBusy \/ SubmitDone \/ HasUnits \/ NoUnits
      BY <2>1, <3>1 DEF SubmitBusy, SubmitDone, HasUnits, NoUnits, CallReap
    <3>2. CASE ReapCqe
      <4>1. call'.ret = call.ret
        BY <3>2 DEF ReapCqe, EngineInv, EngineTypeOK
      <4> QED
        BY <2>1, <3>2, <4>1 DEF ReapCqe
    <3>3. CASE ReapError \/ ReapReturn
      BY <2>1, <3>3 DEF ReapError, ReapReturn
    <3> QED
      BY <1>12, <3>1, <3>2, <3>3 DEF BlockStep
  <2> QED
    BY <2>1, <2>2, <2>3
<1>13. CASE ReadDone
  <2>1. PICK st \in Results : rcq' = Append(rcq, [block |-> Head(flying), status |-> st])
    BY <1>13 DEF ReadDone
  <2>2. /\ flying' = Tail(flying) /\ flying # <<>>
        /\ events' \in {events, events + 1}
        /\ UNCHANGED <<engineVars, event, rpc, loopVars, reapVars, iovVars>>
    BY <1>13 DEF ReadDone
  <2>3. /\ Head(flying) \in Blocks
        /\ flying' \in Seq(Blocks) /\ Len(flying') = Len(flying) - 1
    BY ONLY <1>a, <2>2, TailFacts
  <2>4. [block |-> Head(flying), status |-> st] \in Wc
    BY <2>3 DEF Wc
  <2>5. rcq' \in Seq(Wc) /\ Len(rcq') = Len(rcq) + 1
    BY ONLY <1>a, <2>1, <2>4, AppendFacts
  <2>6. ClientTypes'
    BY <2>2, <2>3, <2>5
  <2>7. UnitInv' /\ IovInv'
    BY <2>2
  <2>8. RdmaUnitsConserved'
    <3>1. InQp' = InQp
      BY <1>a, <2>3, <2>5
    <3>2. Undebited' <=> Undebited
      BY <2>2
    <3> QED
      BY <2>2, <3>1, <3>2
  <2> QED
    BY <2>6, <2>7, <2>8
<1>14. CASE WriteDone
  BY <1>a, <1>14 DEF WriteDone, Complete
<1>15. CASE AllQuiet \/ UNCHANGED clientVars
  BY <1>a, <1>15 DEF AllQuiet, clientVars
<1> QED
  BY <1>1, <1>2, <1>3, <1>4, <1>5, <1>6, <1>7, <1>8, <1>9, <1>10, <1>11, <1>12, <1>13, <1>14,
     <1>15, <1>16 DEF ClientNext, Client

(* ClientInv holds throughout every run.                                   *)
LEMMA ClientAlways == ClientSpec => []ClientInv
BY InitClient, NextClient, PTL DEF ClientSpec

-----------------------------------------------------------------------------
(* Type correctness of the client.  In particular neither count of free    *)
(* units, both unsigned in the code, is ever taken below 0.                *)
THEOREM ClientTypeCorrect == ClientSpec => []ClientTypeOK
<1> DEFINE BoolInv == event \in Modes /\ armed \in BOOLEAN
<1>1. ClientInit => BoolInv
  BY Zenon DEF ClientInit
<1>2. BoolInv /\ [ClientNext]_clientVars => BoolInv'
  <2> SUFFICES ASSUME BoolInv, [ClientNext]_clientVars PROVE BoolInv'
    OBVIOUS
  <2>1. UNCHANGED event
    BY DEF ClientNext, clientVars, Client, PostRead, Debit, StopClient, Terminate,
           GetEvent, ReqNotify, Poll,
           PollEmpty, WriteBlock, ReadFailed, BatchHandled, PrepareBlock, SubmitBlocks,
           BlockStep, PostFails, VerbFailed, ReadDone, WriteDone, AllQuiet
  <2>2. UNCHANGED armed \/ armed' = TRUE \/ armed' = FALSE
    BY Zenon DEF ClientNext, clientVars, nicVars, Client, PostRead, Debit, StopClient, Terminate,
           GetEvent, ReqNotify,
           Poll, PollEmpty, WriteBlock, ReadFailed, BatchHandled, PrepareBlock, SubmitBlocks,
           BlockStep, PostFails, VerbFailed, ReadDone, WriteDone, AllQuiet
  <2> QED
    BY <2>1, <2>2, Zenon
<1>3. ClientInv /\ BoolInv => ClientTypeOK
  BY Zenon DEF ClientInv, ClientTypes, EngineInv, ClientTypeOK
<1> QED
  BY <1>1, <1>2, <1>3, ClientAlways, PTL DEF ClientSpec

(* No RDMA unit is lost or returned twice, whatever the order of           *)
(* completions, polls and debits.                                          *)
THEOREM RdmaConservation == ClientSpec => []RdmaUnitsConserved
<1>1. ClientInv => RdmaUnitsConserved
  BY DEF ClientInv
<1> QED
  BY <1>1, ClientAlways, PTL

(* The send queue has a slot for every read and for the last request:      *)
(* although a unit is debited only after its read is posted, the thread    *)
(* never posts without one.                                                *)
THEOREM SendQueueFits == ClientSpec => []PostFits
<1>1. ClientInv => PostFits
  <2> SUFFICES ASSUME ClientInv, rpc \in {"loop", "end"} PROVE InQp < RQD
    BY DEF PostFits
  <2>1. Len(flying) \in Nat /\ Len(rcq) \in Nat /\ RQD \in Nat
    BY EmptyFacts, ClientAssumption DEF ClientInv, ClientTypes, ClientAssumption
  <2> QED
    BY <2>1 DEF ClientInv, ClientTypes, UnitInv, RdmaUnitsConserved, Undebited, InReap, InQp
<1> QED
  BY <1>1, ClientAlways, PTL

(* The io_uring path inside reap_rdma_cq always finds a slot.              *)
THEOREM ClientSlotAlways == ClientSpec => []SqeAvailable
<1>1. ClientInv => SqeAvailable
  BY SlotFound DEF ClientInv
<1> QED
  BY <1>1, ClientAlways, PTL

(* The client's use of the ring implements the abstract bounded queue.     *)
THEOREM ClientRefinement == ClientSpec => ImplementsCredits
<1>1. ClientInit => Credits!Init
  BY EngineInitCredits DEF ClientInit
<1>2. ClientInv /\ [ClientNext]_clientVars => [Credits!Next]_(Credits!creditVars)
  BY ClientMovesEngine, EngineMoveCredits DEF ClientInv
<1> QED
  BY <1>1, <1>2, ClientAlways, PTL DEF ClientSpec, ImplementsCredits, Credits!Spec

(* In a well-configured client the reap inside reap_rdma_cq never spins    *)
(* for a write that was not submitted, the batch counter is exact, and no  *)
(* write passes the end of the test file.                                  *)
THEOREM ClientWritesSafe ==
  ASSUME Configured
  PROVE  ClientSpec => [](NoStuckReap /\ QueuedIsPrepared /\ OffsetsInFile)
<1> DEFINE Inv == BatchInv /\ OffsetInv
<1>1. ClientInit => Inv
  BY EngineInitBatch, EngineInitOffset DEF ClientInit
<1>2. ClientInv /\ Inv /\ [ClientNext]_clientVars => Inv'
  BY ClientMovesEngine, EngineMoveBatch, EngineMoveOffset DEF ClientInv
<1>3. ClientInv /\ Inv => NoStuckReap /\ QueuedIsPrepared /\ OffsetsInFile
  BY ReapHasSource DEF ClientInv, BatchInv, OffsetInv, OffsetsInFile
<1> QED
  BY <1>1, <1>2, <1>3, ClientAlways, PTL DEF ClientSpec

-----------------------------------------------------------------------------
(* What the sleeping client relies on.  From ibv_req_notify_cq until the   *)
(* next event is taken, the queue is armed or an event is pending; and     *)
(* once the queue has been polled empty, a new completion comes with an    *)
(* event.  The client goes to sleep only while reads are outstanding.      *)
WakeInv ==
  /\ rpc \in {"event", "notify"} => event
  /\ rpc = "event" => rcall.got < rcall.min \/ (rcall.ret = "debit" /\ rfree <= RQD)
  /\ event /\ rpc \notin {"notify", "err"} => armed \/ events > 0
  /\ event /\ rpc \notin {"notify", "poll", "each", "err"} => rcq = <<>> \/ events > 0

(* rdma_handshake has armed the empty queue.                               *)
LEMMA InitWake == ClientInit => WakeInv
BY DEF ClientInit, WakeInv

(* Each step keeps the wake-up on its way.                                 *)
LEMMA NextWake == ClientInv /\ WakeInv /\ [ClientNext]_clientVars => WakeInv'
<1> SUFFICES ASSUME ClientInv, WakeInv, [ClientNext]_clientVars PROVE WakeInv'
  OBVIOUS
<1>a. /\ events \in Nat /\ RQD \in Nat /\ RQD > 0
      /\ Len(flying) \in Nat /\ Len(rcq) \in Nat /\ polled \in Nat /\ rfree \in Nat
  BY EmptyFacts, ClientAssumption, RuntimeAssumption DEF ClientInv, ClientTypes, ClientAssumption
<1> USE DEF WakeInv, nicVars, loopVars, reapVars, CallReapRdma, WaitStep
<1>1. CASE PostRead
  <2>1. rfree <= RQD
    BY <1>a, <1>1 DEF PostRead, ClientInv, RdmaUnitsConserved, Undebited, InReap, InQp
  <2> QED
    BY <1>a, <1>1, <2>1 DEF PostRead
<1>2. CASE Debit
  BY <1>a, <1>2 DEF Debit
<1>3. CASE StopClient \/ Terminate
  BY <1>3 DEF StopClient, Terminate
<1>4. CASE GetEvent
  BY <1>a, <1>4 DEF GetEvent
<1>5. CASE ReqNotify
  BY <1>5 DEF ReqNotify
<1>6. CASE Poll
  BY <1>6 DEF Poll
<1>7. CASE PollEmpty
  BY <1>7 DEF PollEmpty, ClientInv, ClientTypes
<1>8. CASE ReadFailed \/ PostFails \/ VerbFailed
  BY <1>8 DEF ReadFailed, PostFails, VerbFailed
<1>9. CASE BatchHandled
  BY <1>9 DEF BatchHandled
<1>10. CASE WriteBlock \/ PrepareBlock \/ SubmitBlocks \/ BlockStep \/ WriteDone
  BY <1>10 DEF WriteBlock, PrepareBlock, SubmitBlocks, BlockStep, WriteDone
<1>11. CASE ReadDone
  BY <1>a, <1>11 DEF ReadDone
<1>12. CASE AllQuiet \/ UNCHANGED clientVars
  BY <1>12 DEF AllQuiet, clientVars
<1> QED
  BY <1>1, <1>2, <1>3, <1>4, <1>5, <1>6, <1>7, <1>8, <1>9, <1>10, <1>11, <1>12
     DEF ClientNext, Client

(* The client never sleeps on an event that cannot come.                   *)
THEOREM WakeupKept == ClientSpec => []NoLostWakeup
<1>1. ClientInv /\ WakeInv => NoLostWakeup
  <2> SUFFICES ASSUME ClientInv, WakeInv, rpc = "event", events = 0
               PROVE  armed /\ rcq = <<>> /\ flying # <<>>
    BY DEF NoLostWakeup
  <2>1. armed /\ rcq = <<>>
    BY DEF WakeInv
  <2>2. /\ Len(flying) \in Nat /\ RQD \in Nat /\ RQD > 0
        /\ flying = <<>> <=> Len(flying) = 0
        /\ Len(rcq) = 0
    BY <2>1, EmptyFacts, ClientAssumption DEF ClientInv, ClientTypes, ClientAssumption
  <2>3. CASE rcall.ret = "debit"
    BY <2>2, <2>3 DEF ClientInv, ClientTypes, WakeInv, UnitInv, RdmaUnitsConserved, Undebited,
                      InReap, InQp
  <2>4. CASE rcall.ret = "loop"
    BY <2>2, <2>4 DEF ClientInv, ClientTypes, WakeInv, UnitInv, RdmaUnitsConserved, Undebited,
                      InReap, InQp
  <2> QED
    BY <2>1, <2>3, <2>4 DEF ClientInv, ClientTypes
<1> QED
  BY <1>1, InitWake, NextWake, ClientAlways, PTL DEF ClientSpec

-----------------------------------------------------------------------------
(* The next read and every read on its way fit into the pool.              *)
PoolInv == offset + Bs <= PoolSize /\ ReadsInPool

(* The pool holds at least one block.                                      *)
LEMMA InitPool == ClientInit => PoolInv
BY EngineAssumption, ClientAssumption
   DEF ClientInit, PoolInv, ReadsInPool, EngineAssumption, ClientAssumption

(* Each step keeps the reads in the pool.                                  *)
LEMMA NextPool == ClientInv /\ PoolInv /\ [ClientNext]_clientVars => PoolInv'
<1> SUFFICES ASSUME ClientInv, PoolInv, [ClientNext]_clientVars PROVE PoolInv'
  OBVIOUS
<1>a. flying \in Seq(Blocks) /\ offset \in Blocks
  BY DEF ClientInv, ClientTypes
<1> USE DEF PoolInv, ReadsInPool
<1>1. CASE PostRead
  <2>1. offset' + Bs <= PoolSize
    BY <1>1, <1>a, EngineAssumption, ClientAssumption
       DEF PostRead, NextPoolOffset, Blocks, EngineAssumption, ClientAssumption
  <2>2. CASE flying' = Append(flying, offset)
    <3>1. /\ Len(flying) \in Nat /\ Len(flying') = Len(flying) + 1
          /\ \A i \in 1 .. Len(flying) : flying'[i] = flying[i]
          /\ flying'[Len(flying) + 1] = offset
      BY ONLY <1>a, <2>2, AppendFacts
    <3> QED
      BY <2>1, <3>1
  <2> QED
    BY <1>1, <2>1, <2>2 DEF PostRead
<1>4. CASE PostFails
  BY <1>4, <1>a, EngineAssumption, ClientAssumption
     DEF PostFails, NextPoolOffset, nicVars, Blocks, EngineAssumption, ClientAssumption
<1>2. CASE ReadDone
  <2>1. /\ Len(flying) \in Nat /\ Len(flying') = Len(flying) - 1
        /\ \A i \in 1 .. (Len(flying) - 1) : flying'[i] = flying[i + 1]
    BY <1>2, <1>a, TailFacts DEF ReadDone
  <2> QED
    BY <1>2, <2>1 DEF ReadDone, loopVars
<1>3. CASE UNCHANGED <<offset, flying>>
  BY <1>3
<1> QED
  BY <1>1, <1>2, <1>3, <1>4
     DEF ClientNext, clientVars, nicVars, loopVars, Client, Debit, StopClient, Terminate,
         GetEvent, ReqNotify,
         Poll, PollEmpty, WriteBlock, ReadFailed, BatchHandled, PrepareBlock, SubmitBlocks,
         BlockStep, VerbFailed, WriteDone, AllQuiet

(* No read passes the end of the data pools, whatever their size.          *)
THEOREM InsidePool == ClientSpec => []ReadsInPool
<1>1. PoolInv => ReadsInPool
  BY DEF PoolInv
<1> QED
  BY <1>1, InitPool, NextPool, ClientAlways, PTL DEF ClientSpec

-----------------------------------------------------------------------------
(* Division with remainder, for a divisor that is not a numeral.           *)

(* Quotient and remainder.                                                 *)
LEMMA DivMod ==
  ASSUME NEW n \in Nat, NEW N \in Nat \ {0}
  PROVE  /\ n \div N \in Nat
         /\ n % N \in 0 .. (N - 1)
         /\ n = N * (n \div N) + (n % N)
OBVIOUS

(* Different multiples of N are at least N apart.                          *)
LEMMA MulApart ==
  ASSUME NEW N \in Nat, NEW p \in Nat, NEW q \in Nat, p < q
  PROVE  N * p + N <= N * q
<1>1. N * (q - p - 1) >= 0
  <2>1. q - p - 1 \in Nat
    OBVIOUS
  <2> QED
    BY <2>1
<1>2. N * (q - p - 1) = N * q - N * p - N
  OBVIOUS
<1> QED
  BY <1>1, <1>2

(* Quotient and remainder are unique.                                      *)
LEMMA DivModUnique ==
  ASSUME NEW N \in Nat \ {0}, NEW p \in Nat, NEW q \in Nat,
         NEW r \in 0 .. (N - 1), NEW s \in 0 .. (N - 1),
         N * p + r = N * q + s
  PROVE  p = q /\ r = s
<1>1. ~(p < q) /\ ~(q < p)
  BY MulApart
<1> QED
  BY <1>1

(* The remainder of the next number.                                       *)
LEMMA NextMod ==
  ASSUME NEW n \in Nat, NEW N \in Nat \ {0}
  PROVE  (n + 1) % N = IF n % N = N - 1 THEN 0 ELSE (n % N) + 1
<1> DEFINE q == n \div N
           r == n % N
           m == n + 1
           p == m \div N
           s == m % N
<1>1. q \in Nat /\ r \in 0 .. (N - 1) /\ n = N * q + r
  BY DivMod
<1>2. m \in Nat /\ m = n + 1
  OBVIOUS
<1> HIDE DEF m
<1>3. p \in Nat /\ s \in 0 .. (N - 1) /\ m = N * p + s
  BY <1>2, DivMod
<1> HIDE DEF q, r, p, s
<1>4. s = IF r = N - 1 THEN 0 ELSE r + 1
  <2>1. CASE r = N - 1
    <3>1. N * p + s = N * (q + 1) + 0 /\ q + 1 \in Nat /\ 0 \in 0 .. (N - 1)
      BY <1>1, <1>2, <1>3, <2>1
    <3>2. s = 0
      BY ONLY <1>3, <3>1, DivModUnique, N \in Nat \ {0}
    <3> QED
      BY <2>1, <3>2
  <2>2. CASE r # N - 1
    <3>1. N * p + s = N * q + (r + 1) /\ r + 1 \in 0 .. (N - 1)
      BY <1>1, <1>2, <1>3, <2>2
    <3>2. s = r + 1
      BY ONLY <1>1, <1>3, <3>1, DivModUnique, N \in Nat \ {0}
    <3> QED
      BY <2>2, <3>2
  <2> QED
    BY <2>1, <2>2
<1> QED
  BY <1>4 DEF s, m, r

(* Numbers less than N apart have different remainders.                    *)
LEMMA ModDistinct ==
  ASSUME NEW N \in Nat \ {0}, NEW m \in Nat, NEW n \in Nat, m < n, n < m + N
  PROVE  m % N # n % N
<1> SUFFICES ASSUME m % N = n % N PROVE FALSE
  OBVIOUS
<1>1. /\ m = N * (m \div N) + (m % N) /\ m \div N \in Nat
      /\ n = N * (n \div N) + (n % N) /\ n \div N \in Nat
  BY DivMod
<1>2. n - m = N * (n \div N) - N * (m \div N)
  BY <1>1
<1>3. (m \div N) < (n \div N) \/ (m \div N) = (n \div N) \/ (n \div N) < (m \div N)
  BY <1>1
<1> QED
  BY <1>1, <1>2, <1>3, MulApart

-----------------------------------------------------------------------------
(* The rotation through the pool: how many blocks it uses, and the offset  *)
(* of the n-th read, counted from 0.                                       *)
Rotation == IF PoolSize = Bs THEN 1 ELSE (PoolSize - 1) \div Bs
BlockOf(n) == Bs * (n % Rotation)

(* The reads not yet handled are the last ones posted, in order: those in  *)
(* flight are the newest, then the completed ones, then the polled batch.  *)
Window(n) ==
  /\ InQp + Len(wc) <= n
  /\ InQp + Len(wc) <= RQD
  /\ \A i \in 1 .. Len(flying) : flying[i] = BlockOf(n - Len(flying) + i - 1)
  /\ \A i \in 1 .. Len(rcq) : rcq[i].block = BlockOf(n - InQp + i - 1)
  /\ \A i \in 1 .. Len(wc) : wc[i].block = BlockOf(n - InQp - Len(wc) + i - 1)

(* n reads were posted: all that were counted, while no post has failed.   *)
WindowInv ==
  \E n \in Nat : Window(n) /\ (rpc # "err" => n = posted /\ offset = BlockOf(posted))

(* The rotation has at least one block, and its last block is where        *)
(* NextPoolOffset wraps.                                                   *)
LEMMA RotationWraps ==
  /\ Rotation \in Nat \ {0}
  /\ \A m \in 0 .. (Rotation - 1) :
       Bs * m + Bs + Bs >= PoolSize <=> m = Rotation - 1
<1>1. Bs \in Nat \ {0} /\ PoolSize \in Nat /\ PoolSize >= Bs
  BY EngineAssumption, ClientAssumption DEF EngineAssumption, ClientAssumption
<1>2. CASE PoolSize = Bs
  BY <1>1, <1>2 DEF Rotation
<1>3. CASE PoolSize # Bs
  <2> DEFINE q == (PoolSize - 1) \div Bs
             r == (PoolSize - 1) % Bs
  <2>1. q \in Nat /\ PoolSize - 1 = Bs * q + r /\ r \in 0 .. (Bs - 1)
    <3>1. PoolSize - 1 \in Nat
      BY <1>1
    <3> QED
      BY <1>1, <3>1, DivMod
  <2>2. Rotation = q
    BY <1>3 DEF Rotation
  <2> HIDE DEF q, r
  <2>3. q # 0
    BY <1>1, <1>3, <2>1
  <2>4. ASSUME NEW m \in 0 .. (q - 1)
        PROVE  Bs * m + Bs + Bs >= PoolSize <=> m = q - 1
    <3>1. CASE m = q - 1
      <4>1. Bs * m + Bs = Bs * q
        BY <1>1, <2>1, <3>1
      <4> QED
        BY <1>1, <2>1, <3>1, <4>1
    <3>2. CASE m # q - 1
      <4>1. m \in Nat /\ q - 1 \in Nat /\ m < q - 1
        BY <2>1, <2>3, <3>2
      <4>2. Bs * m + Bs <= Bs * (q - 1)
        BY <1>1, <4>1, MulApart
      <4>3. Bs * (q - 1) = Bs * q - Bs
        BY <1>1, <2>1
      <4> QED
        BY <1>1, <2>1, <3>2, <4>1, <4>2, <4>3
    <3> QED
      BY <3>1, <3>2
  <2> QED
    BY <2>1, <2>2, <2>3, <2>4
<1> QED
  BY <1>2, <1>3

(* The read after the n-th goes to the next block of the rotation.         *)
LEMMA BlockNext ==
  ASSUME NEW n \in Nat
  PROVE  BlockOf(n + 1) = NextPoolOffset(BlockOf(n))
<1> DEFINE r == n % Rotation
<1>1. Rotation \in Nat \ {0}
  BY RotationWraps
<1>2. r \in 0 .. (Rotation - 1)
  BY <1>1, DivMod
<1>3. (n + 1) % Rotation = IF r = Rotation - 1 THEN 0 ELSE r + 1
  BY <1>1, NextMod
<1>4. Bs * r + Bs + Bs >= PoolSize <=> r = Rotation - 1
  BY <1>2, RotationWraps
<1>5. Bs \in Nat /\ PoolSize \in Nat
  BY EngineAssumption, ClientAssumption DEF EngineAssumption, ClientAssumption
<1> HIDE DEF r
<1>6. CASE r = Rotation - 1
  BY <1>3, <1>4, <1>5, <1>6 DEF BlockOf, NextPoolOffset, r
<1>7. CASE r # Rotation - 1
  <2>1. Bs * (r + 1) = Bs * r + Bs
    BY <1>1, <1>2, <1>5
  <2> QED
    BY <1>3, <1>4, <1>7, <2>1 DEF BlockOf, NextPoolOffset, r
<1> QED
  BY <1>6, <1>7

(* Reads less than a rotation apart go to different blocks.                *)
LEMMA BlocksApart ==
  ASSUME NEW m \in Nat, NEW n \in Nat, m < n, n < m + Rotation
  PROVE  BlockOf(m) # BlockOf(n)
<1>1. Rotation \in Nat \ {0} /\ Bs \in Nat \ {0}
  BY RotationWraps, EngineAssumption DEF EngineAssumption
<1>2. m % Rotation \in Nat /\ n % Rotation \in Nat
  BY <1>1, DivMod
<1>3. m % Rotation # n % Rotation
  BY <1>1, ModDistinct
<1> DEFINE x == m % Rotation
           y == n % Rotation
<1> HIDE DEF x, y
<1>4. x \in Nat /\ y \in Nat /\ x # y
  BY <1>2, <1>3 DEF x, y
<1>5. Bs * x # Bs * y
  BY <1>1, <1>4, MulApart
<1> QED
  BY <1>5 DEF BlockOf, x, y

(* Nothing is outstanding at the start.                                    *)
LEMMA InitWindow == ClientInit => WindowInv
<1> SUFFICES ASSUME ClientInit PROVE WindowInv
  OBVIOUS
<1>1. 0 % Rotation = 0
  BY RotationWraps
<1>2. BlockOf(0) = 0
  BY <1>1, EngineAssumption DEF BlockOf, EngineAssumption
<1>3. Window(0) /\ offset = BlockOf(0) /\ posted = 0 /\ 0 \in Nat
  BY <1>2, ClientAssumption DEF ClientInit, Window, InQp, ClientAssumption
<1> QED
  BY <1>3 DEF WindowInv

(* Each step keeps the reads in order.                                     *)
LEMMA NextWindow == ClientInv /\ WindowInv /\ [ClientNext]_clientVars => WindowInv'
<1> SUFFICES ASSUME ClientInv, WindowInv, [ClientNext]_clientVars PROVE WindowInv'
  OBVIOUS
<1>a. /\ rcq \in Seq(Wc) /\ wc \in Seq(Wc) /\ flying \in Seq(Blocks)
      /\ Len(rcq) \in Nat /\ Len(wc) \in Nat /\ Len(flying) \in Nat
      /\ RQD \in Nat /\ PollBatch \in Nat /\ PollBatch > 0
      /\ posted \in Nat /\ offset \in Blocks /\ rfree \in Nat /\ polled \in Nat
  BY EmptyFacts, ClientAssumption DEF ClientInv, ClientTypes, ClientAssumption
<1>n. PICK n \in Nat : Window(n) /\ (rpc # "err" => n = posted /\ offset = BlockOf(posted))
  BY DEF WindowInv
<1>b. /\ InQp \in Nat /\ posted \in Nat /\ n \in Nat
      /\ Len(rcq) \in Nat /\ Len(wc) \in Nat /\ Len(flying) \in Nat
  BY <1>a DEF InQp
<1>1. CASE PostRead
  <2>1. /\ InQp < RQD /\ rpc = "loop" /\ Len(wc) = 0
    BY <1>a, <1>1 DEF PostRead, ClientInv, UnitInv, RdmaUnitsConserved, Undebited, InReap, InQp
  <2>2. /\ flying' = Append(flying, offset) /\ offset' = NextPoolOffset(offset)
        /\ posted' = posted + 1 /\ UNCHANGED <<rcq, wc>>
    BY <1>1, <2>1 DEF PostRead
  <2>3. /\ Len(flying') = Len(flying) + 1
        /\ \A i \in 1 .. Len(flying) : flying'[i] = flying[i]
        /\ flying'[Len(flying) + 1] = offset
    BY ONLY <1>a, <2>2, AppendFacts
  <2>4. offset' = BlockOf(posted')
    BY <1>a, <1>n, <2>1, <2>2, BlockNext
  <2>5. \A i \in 1 .. Len(flying') : flying'[i] = BlockOf(posted' - Len(flying') + i - 1)
    <3> SUFFICES ASSUME NEW i \in 1 .. Len(flying')
                 PROVE  flying'[i] = BlockOf(posted' - Len(flying') + i - 1)
      OBVIOUS
    <3>1. posted' - Len(flying') + i - 1 = posted - Len(flying) + i - 1
      <4>1. posted' = posted + 1 /\ Len(flying') = Len(flying) + 1 /\ i \in Int
        BY <2>2, <2>3
      <4> QED
        BY ONLY <1>b, <4>1
    <3>2. CASE i = Len(flying) + 1
      <4>1. posted - Len(flying) + i - 1 = posted
        BY ONLY <1>b, <3>2
      <4> QED
        BY <1>n, <2>1, <2>3, <3>1, <3>2, <4>1
    <3>3. CASE i # Len(flying) + 1
      <4>1. i \in 1 .. Len(flying)
        BY <1>a, <2>3, <3>3
      <4> QED
        BY <1>n, <2>1, <2>3, <3>1, <4>1 DEF Window
    <3> QED
      BY <3>2, <3>3
  <2>6. \A i \in 1 .. Len(rcq') : rcq'[i].block = BlockOf(posted' - InQp' + i - 1)
    <3>1. posted' - InQp' = posted - InQp
      BY <1>a, <2>2, <2>3 DEF InQp
    <3> QED
      BY <1>n, <2>1, <2>2, <3>1 DEF Window
  <2>7. InQp' + Len(wc') <= posted' /\ InQp' + Len(wc') <= RQD
    BY <1>a, <1>n, <2>1, <2>2, <2>3 DEF InQp, Window
  <2>8. 1 .. Len(wc') = {}
    BY <2>1, <2>2
  <2>9. \A m \in Nat : m = posted' => Window(m)'
    BY <2>5, <2>6, <2>7, <2>8 DEF Window
  <2>10. posted' \in Nat
    BY <1>a, <2>2
  <2> QED
    BY <2>4, <2>9, <2>10 DEF WindowInv
<1>2. CASE Poll
  <2>1. PICK k \in 0 .. Len(rcq) :
          wc' = SubSeq(rcq, 1, k) /\ rcq' = SubSeq(rcq, k + 1, Len(rcq))
    <3>1. polled' \in 0 .. Len(rcq)
      BY <1>a, <1>2 DEF Poll
    <3>2. wc' = SubSeq(rcq, 1, polled') /\ rcq' = SubSeq(rcq, polled' + 1, Len(rcq))
      BY <1>2 DEF Poll
    <3> QED
      BY <3>1, <3>2
  <2>2. UNCHANGED <<flying, posted, offset>>
    BY <1>2 DEF Poll, loopVars
  <2>3. /\ Len(wc') = k /\ Len(rcq') = Len(rcq) - k
        /\ \A i \in 1 .. k : wc'[i] = rcq[i]
        /\ \A i \in 1 .. (Len(rcq) - k) : rcq'[i] = rcq[k + i]
    BY ONLY <1>a, <2>1, SplitFacts
  <2>4. InQp' = InQp - k /\ InQp \in Nat
    BY <1>a, <2>2, <2>3 DEF InQp
  <2>5. \A i \in 1 .. Len(rcq') : rcq'[i].block = BlockOf(n - InQp' + i - 1)
    <3> SUFFICES ASSUME NEW i \in 1 .. Len(rcq')
                 PROVE  rcq'[i].block = BlockOf(n - InQp' + i - 1)
      OBVIOUS
    <3>1. k + i \in 1 .. Len(rcq) /\ rcq'[i] = rcq[k + i]
      BY <1>a, <2>3
    <3>2. n - InQp' + i - 1 = n - InQp + (k + i) - 1
      <4>1. InQp' = InQp - k /\ i \in Int /\ k \in Int
        BY <2>2, <2>4
      <4> QED
        BY ONLY <1>b, <4>1
    <3> QED
      BY <1>n, <3>1, <3>2 DEF Window
  <2>6. \A i \in 1 .. Len(wc') : wc'[i].block = BlockOf(n - InQp' - Len(wc') + i - 1)
    <3> SUFFICES ASSUME NEW i \in 1 .. Len(wc')
                 PROVE  wc'[i].block = BlockOf(n - InQp' - Len(wc') + i - 1)
      OBVIOUS
    <3>1. i \in 1 .. Len(rcq) /\ wc'[i] = rcq[i]
      BY <1>a, <2>3
    <3>2. n - InQp' - Len(wc') + i - 1 = n - InQp + i - 1
      <4>1. InQp' = InQp - k /\ Len(wc') = k /\ i \in Int /\ k \in Int
        BY <2>2, <2>3, <2>4
      <4> QED
        BY ONLY <1>b, <4>1
    <3> QED
      BY <1>n, <3>1, <3>2 DEF Window
  <2>7. InQp' + Len(wc') <= n /\ InQp' + Len(wc') <= RQD
    BY <1>a, <1>n, <2>2, <2>3, <2>4 DEF Window
  <2>8. Window(n)'
    BY <1>n, <2>2, <2>5, <2>6, <2>7 DEF Window
  <2>9. rpc # "err"
    BY <1>2 DEF Poll
  <2> QED
    BY <1>n, <2>2, <2>8, <2>9 DEF WindowInv
<1>3. CASE PrepareBlock
  <2>1. sq < SqEntries /\ wc # <<>>
    BY <1>3, SlotFound DEF PrepareBlock, Prepare, SqeAvailable, ClientInv, IovInv
  <2>2. /\ wc' = Tail(wc) /\ UNCHANGED <<flying, rcq, posted, offset>>
    BY <1>3, <2>1 DEF PrepareBlock, nicVars, loopVars
  <2>3. /\ Len(wc') = Len(wc) - 1
        /\ \A i \in 1 .. (Len(wc) - 1) : wc'[i] = wc[i + 1]
    BY ONLY <1>a, <2>1, <2>2, TailFacts
  <2>4. InQp' = InQp /\ InQp \in Nat
    BY <1>a, <2>2 DEF InQp
  <2>5. \A i \in 1 .. Len(wc') : wc'[i].block = BlockOf(n - InQp' - Len(wc') + i - 1)
    <3> SUFFICES ASSUME NEW i \in 1 .. Len(wc')
                 PROVE  wc'[i].block = BlockOf(n - InQp' - Len(wc') + i - 1)
      OBVIOUS
    <3>1. i + 1 \in 1 .. Len(wc) /\ wc'[i] = wc[i + 1]
      BY <1>a, <2>3
    <3>2. n - InQp' - Len(wc') + i - 1 = n - InQp - Len(wc) + (i + 1) - 1
      <4>1. InQp' = InQp /\ Len(wc') = Len(wc) - 1 /\ i \in Int
        BY <2>2, <2>3, <2>4
      <4> QED
        BY ONLY <1>b, <4>1
    <3> QED
      BY <1>n, <3>1, <3>2 DEF Window
  <2>6. InQp' + Len(wc') <= n /\ InQp' + Len(wc') <= RQD
    BY <1>a, <1>n, <2>2, <2>3, <2>4 DEF Window
  <2>7. Window(n)'
    BY <1>n, <2>2, <2>4, <2>5, <2>6 DEF Window
  <2>8. rpc' = rpc
    BY <1>3 DEF PrepareBlock
  <2> QED
    BY <1>n, <2>2, <2>7, <2>8 DEF WindowInv
<1>4. CASE ReadDone
  <2>1. PICK st \in Results : rcq' = Append(rcq, [block |-> Head(flying), status |-> st])
    BY <1>4 DEF ReadDone
  <2> DEFINE e == [block |-> Head(flying), status |-> st]
  <2>2. flying' = Tail(flying) /\ flying # <<>> /\ UNCHANGED <<wc, posted, offset>>
    BY <1>4 DEF ReadDone, loopVars, reapVars
  <2>3. /\ Head(flying) \in Blocks /\ Head(flying) = flying[1]
        /\ Len(flying) > 0
        /\ Len(flying') = Len(flying) - 1
        /\ \A i \in 1 .. (Len(flying) - 1) : flying'[i] = flying[i + 1]
    BY ONLY <1>a, <2>2, TailFacts
  <2>4. e \in Wc /\ e.block = flying[1]
    BY <2>3 DEF Wc
  <2> HIDE DEF e
  <2>5. /\ Len(rcq') = Len(rcq) + 1
        /\ \A i \in 1 .. Len(rcq) : rcq'[i] = rcq[i]
        /\ rcq'[Len(rcq) + 1] = e
    <3>1. rcq' = Append(rcq, e)
      BY <2>1 DEF e
    <3> QED
      BY ONLY <1>a, <3>1, <2>4, AppendFacts
  <2>6. InQp' = InQp /\ InQp \in Nat /\ InQp = Len(flying) + Len(rcq)
    BY <1>a, <2>3, <2>5 DEF InQp
  <2>7. \A i \in 1 .. Len(rcq') : rcq'[i].block = BlockOf(n - InQp' + i - 1)
    <3> SUFFICES ASSUME NEW i \in 1 .. Len(rcq')
                 PROVE  rcq'[i].block = BlockOf(n - InQp' + i - 1)
      OBVIOUS
    <3>1. CASE i = Len(rcq) + 1
      <4>1. n - InQp' + i - 1 = n - Len(flying) + 1 - 1 /\ 1 \in 1 .. Len(flying)
        BY <1>a, <2>2, <2>3, <2>6, <3>1
      <4> QED
        BY <1>n, <2>4, <2>5, <3>1, <4>1 DEF Window
    <3>2. CASE i # Len(rcq) + 1
      <4>1. i \in 1 .. Len(rcq)
        BY <1>a, <2>5, <3>2
      <4> QED
        BY <1>n, <2>2, <2>5, <2>6, <4>1 DEF Window
    <3> QED
      BY <3>1, <3>2
  <2>8. \A i \in 1 .. Len(flying') : flying'[i] = BlockOf(n - Len(flying') + i - 1)
    <3> SUFFICES ASSUME NEW i \in 1 .. Len(flying')
                 PROVE  flying'[i] = BlockOf(n - Len(flying') + i - 1)
      OBVIOUS
    <3>1. i + 1 \in 1 .. Len(flying) /\ flying'[i] = flying[i + 1]
      BY <1>a, <2>3
    <3>2. n - Len(flying') + i - 1 = n - Len(flying) + (i + 1) - 1
      <4>1. Len(flying') = Len(flying) - 1 /\ i \in Int
        BY <2>2, <2>3
      <4> QED
        BY ONLY <1>b, <4>1
    <3> QED
      BY <1>n, <3>1, <3>2 DEF Window
  <2>9. UNCHANGED <<Len(wc), InQp, posted, offset, wc>>
    BY <2>2, <2>6
  <2>10. Window(n)'
    BY <1>n, <2>7, <2>8, <2>9 DEF Window
  <2>11. rpc' = rpc
    BY <1>4 DEF ReadDone
  <2> QED
    BY <1>n, <2>2, <2>10, <2>11 DEF WindowInv
<1>5. CASE UNCHANGED <<flying, rcq, wc>> /\ rpc' = "err"
  <2>1. Window(n)'
    BY <1>n, <1>5 DEF Window, InQp
  <2> QED
    BY <1>n, <1>5, <2>1 DEF WindowInv
<1>6. CASE UNCHANGED <<flying, rcq, wc, posted, offset>> /\ (rpc = "err" => rpc' = "err")
  <2>1. Window(n)'
    BY <1>n, <1>6 DEF Window, InQp
  <2> QED
    BY <1>n, <1>6, <2>1 DEF WindowInv
<1> QED
  BY <1>1, <1>2, <1>3, <1>4, <1>5, <1>6
     DEF ClientNext, clientVars, nicVars, loopVars, reapVars, Client, Ended, Debit, StopClient,
         Terminate, GetEvent, ReqNotify, PollEmpty, WriteBlock, ReadFailed, BatchHandled,
         SubmitBlocks, BlockStep, PostFails, VerbFailed, WriteDone, AllQuiet

(* The pool has a block for every unit.                                    *)
RoomForUnits == RQD <= Rotation

(* With a block for every unit, no block is the target of two reads whose  *)
(* data has not been taken over yet.                                       *)
THEOREM NoSharedBlock ==
  ASSUME RoomForUnits
  PROVE  ClientSpec => []BlocksDistinct
<1>1. ClientInv /\ WindowInv => BlocksDistinct
  <2> SUFFICES ASSUME ClientInv, WindowInv PROVE BlocksDistinct
    OBVIOUS
  <2>m. PICK m \in Nat : Window(m)
    BY DEF WindowInv
  <2>a. /\ Len(rcq) \in Nat /\ Len(wc) \in Nat /\ Len(flying) \in Nat
        /\ RQD \in Nat /\ Rotation \in Nat /\ m \in Nat
        /\ InQp = Len(flying) + Len(rcq)
    BY EmptyFacts, ClientAssumption, RotationWraps
       DEF ClientInv, ClientTypes, ClientAssumption, InQp
  <2> DEFINE f == [i \in 1 .. Len(flying) |-> flying[i]]
             r == [i \in 1 .. Len(rcq) |-> rcq[i].block]
             w == [i \in 1 .. Len(wc) |-> wc[i].block]
             n(p) == IF p <= Len(flying) THEN m - Len(flying) + p - 1
                     ELSE IF p <= InQp THEN m - InQp + (p - Len(flying)) - 1
                     ELSE m - InQp - Len(wc) + (p - InQp) - 1
  <2>1. /\ Len(Unhandled) = InQp + Len(wc)
        /\ \A p \in 1 .. Len(Unhandled) :
             Unhandled[p] = IF p <= Len(flying) THEN flying[p]
                            ELSE IF p <= InQp THEN rcq[p - Len(flying)].block
                            ELSE wc[p - InQp].block
    <3>1. /\ f \in Seq(Blocks) /\ Len(f) = Len(flying)
          /\ r \in Seq(Blocks) /\ Len(r) = Len(rcq)
          /\ w \in Seq(Blocks) /\ Len(w) = Len(wc)
      <4>1. /\ \A i \in 1 .. Len(flying) : flying[i] \in Blocks
            /\ \A i \in 1 .. Len(rcq) : rcq[i] \in Wc
            /\ \A i \in 1 .. Len(wc) : wc[i] \in Wc
        BY <2>a DEF ClientInv, ClientTypes
      <4>2. /\ \A i \in 1 .. Len(rcq) : rcq[i].block \in Blocks
            /\ \A i \in 1 .. Len(wc) : wc[i].block \in Blocks
        BY <4>1 DEF Wc
      <4>3. f \in Seq(Blocks) /\ Len(f) = Len(flying)
        BY ONLY <2>a, <4>1
      <4>4. r \in Seq(Blocks) /\ Len(r) = Len(rcq)
        BY ONLY <2>a, <4>2
      <4>5. w \in Seq(Blocks) /\ Len(w) = Len(wc)
        BY ONLY <2>a, <4>2
      <4> QED
        BY <4>3, <4>4, <4>5
    <3> QED
      BY <2>a, <3>1 DEF Unhandled
  <2>2. \A p \in 1 .. (InQp + Len(wc)) : /\ Unhandled[p] = BlockOf(n(p))
                                         /\ n(p) \in (m - InQp - Len(wc)) .. (m - 1)
    <3> SUFFICES ASSUME NEW p \in 1 .. (InQp + Len(wc))
                 PROVE  /\ Unhandled[p] = BlockOf(n(p))
                        /\ n(p) \in (m - InQp - Len(wc)) .. (m - 1)
      OBVIOUS
    <3>1. CASE p <= Len(flying)
      BY <2>m, <2>a, <2>1, <3>1 DEF Window
    <3>2. CASE p > Len(flying) /\ p <= InQp
      <4>1. p - Len(flying) \in 1 .. Len(rcq)
        BY <2>a, <3>2
      <4>2. n(p) = m - InQp + (p - Len(flying)) - 1
        BY <2>a, <3>2
      <4>3. Unhandled[p] = rcq[p - Len(flying)].block
        BY <2>a, <2>1, <3>2
      <4>4. rcq[p - Len(flying)].block = BlockOf(n(p))
        BY <2>m, <4>1, <4>2 DEF Window
      <4> QED
        BY <2>a, <4>1, <4>2, <4>3, <4>4
    <3>3. CASE p > InQp
      <4>1. p - InQp \in 1 .. Len(wc) /\ p > Len(flying)
        BY <2>a, <3>3
      <4>2. n(p) = m - InQp - Len(wc) + (p - InQp) - 1
        BY <2>a, <3>3, <4>1
      <4>3. Unhandled[p] = wc[p - InQp].block
        BY <2>a, <2>1, <3>3, <4>1
      <4>4. wc[p - InQp].block = BlockOf(n(p))
        BY <2>m, <4>1, <4>2 DEF Window
      <4> QED
        BY <2>a, <4>1, <4>2, <4>3, <4>4
    <3> QED
      BY <2>a, <3>1, <3>2, <3>3
  <2>3. ASSUME NEW p \in 1 .. (InQp + Len(wc)), NEW q \in 1 .. (InQp + Len(wc)), p # q
        PROVE  Unhandled[p] # Unhandled[q]
    <3>1. n(p) # n(q)
      BY <2>a, <2>3
    <3> HIDE DEF n
    <3>2. n(p) \in Nat /\ n(q) \in Nat /\ n(p) < n(q) + Rotation /\ n(q) < n(p) + Rotation
      <4>1. /\ InQp + Len(wc) <= m /\ InQp + Len(wc) <= Rotation
        BY <2>m, <2>a, RoomForUnits DEF Window, RoomForUnits
      <4>2. /\ n(p) \in (m - InQp - Len(wc)) .. (m - 1)
            /\ n(q) \in (m - InQp - Len(wc)) .. (m - 1)
        BY <2>2
      <4> QED
        BY ONLY <2>a, <4>1, <4>2
    <3>3. BlockOf(n(p)) # BlockOf(n(q))
      BY <3>1, <3>2, BlocksApart
    <3> QED
      BY <2>2, <3>3
  <2> QED
    BY <2>1, <2>3 DEF BlocksDistinct
<1> QED
  BY <1>1, InitWindow, NextWindow, ClientAlways, PTL DEF ClientSpec

(* The batches of the client's writes.                                     *)

(* The multiple of N after n is N further on.                              *)
LEMMA NextMultiple ==
  ASSUME NEW N \in Nat \ {0}, NEW n \in Nat, n % N = 0
  PROVE  (n + N) % N = 0
<1>1. PICK p \in Nat : n = N * p + 0
  <2>1. n \div N \in Nat /\ n = N * (n \div N) + (n % N)
    BY DivMod
  <2> QED
    BY <2>1
<1>2. PICK m \in Nat : m = n + N
  OBVIOUS
<1>3. PICK q \in Nat : m = N * q + (m % N) /\ m % N \in 0 .. (N - 1)
  BY DivMod
<1>4. m = N * (p + 1) + 0
  BY <1>1, <1>2
<1>5. m % N = 0
  <2>1. p + 1 \in Nat /\ 0 \in 0 .. (N - 1) /\ N * q + (m % N) = N * (p + 1) + 0
    BY <1>3, <1>4
  <2> QED
    BY <1>3, <2>1, DivModUnique
<1> QED
  BY <1>2, <1>5

(* The last write of the batch that ends with write n is n.                *)
LEMMA BatchEndIs ==
  ASSUME Batch \in Nat \ {0}, NEW n \in Nat, n % Batch = 0,
         NEW i \in Nat, i >= 1, n - Batch < i, i <= n
  PROVE  BatchEnd(i) = n
<1> DEFINE p == n \div Batch
           r == i - 1 + Batch - n
           q == (i - 1) \div Batch
           s == (i - 1) % Batch
<1>1. p \in Nat /\ n = Batch * p
  BY DivMod
<1>2. r \in 0 .. (Batch - 1)
  OBVIOUS
<1>3. q \in Nat /\ s \in 0 .. (Batch - 1) /\ i - 1 = Batch * q + s
  <2>1. i - 1 \in Nat
    OBVIOUS
  <2> QED
    BY <2>1, DivMod
<1> HIDE DEF p, q, s
<1>4. p # 0
  <2>1. Batch * 0 = 0
    OBVIOUS
  <2> QED
    BY <1>1, <2>1
<1>5. PICK t \in Nat : Batch * t + r = Batch * q + s
  <2>1. p - 1 \in Nat
    BY <1>1, <1>4
  <2>2. Batch * (p - 1) = n - Batch
    BY <1>1
  <2> QED
    BY <1>3, <2>1, <2>2
<1> HIDE DEF r
<1>6. r = s
  BY <1>2, <1>3, <1>5, DivModUnique
<1> QED
  BY <1>6 DEF r, s, BatchEnd

(* A write's batch ends no earlier than the write.                         *)
LEMMA BatchEndAfter ==
  ASSUME Batch \in Nat \ {0}, NEW i \in Nat, i >= 1
  PROVE  BatchEnd(i) \in Nat /\ BatchEnd(i) >= i
<1>1. i - 1 \in Nat
  OBVIOUS
<1>2. (i - 1) % Batch \in 0 .. (Batch - 1)
  BY <1>1, DivMod
<1> QED
  BY <1>2 DEF BatchEnd

(* The client is in the submit loop, or reaps in it.                       *)
InSubmit == epc = "submit" \/ (epc = "reap" /\ call.ret = "submit")

(* The submit loop is entered with a full batch and left with none: in it  *)
(* whole batches have been prepared, outside it whole batches have been    *)
(* taken.                                                                  *)
AlignInv ==
  /\ InSubmit => Len(meant) % Batch = 0 /\ sq <= Batch
  /\ ~InSubmit /\ epc # "err" => Len(taken) % Batch = 0
  /\ BatchFromLast

(* A step that prepares nothing and submits nothing leaves the loop as it  *)
(* is, ends the thread, or leaves the loop with the batch submitted.       *)
LEMMA LoopKept ==
  ASSUME EngineTypeOK, BatchInv,
         \/ BeginWrite \/ SubmitBusy \/ SubmitDone \/ HasUnits \/ NoUnits
         \/ ReapCqe \/ ReapError \/ ReapReturn \/ Complete \/ UNCHANGED engineVars
  PROVE  /\ sq' = sq
         /\ \/ (InSubmit' <=> InSubmit) /\ (epc = "err" => epc' = "err")
            \/ epc' = "err" /\ ~InSubmit'
            \/ sq = 0 /\ epc # "err"
<1> USE DEF InSubmit, fields, ring, CallReap
<1>1. CASE ReapCqe
  <2>1. call'.ret = call.ret
    BY <1>1 DEF ReapCqe, EngineTypeOK
  <2> QED
    BY <1>1, <2>1 DEF ReapCqe
<1>2. CASE SubmitDone
  BY <1>2 DEF SubmitDone, BatchInv, QueuedIsPrepared
<1>3. CASE ReapReturn
  BY <1>3 DEF ReapReturn, EngineTypeOK
<1>4. CASE SubmitBusy \/ NoUnits
  <2>1. sq' = sq /\ epc' = "reap"
    BY <1>4 DEF SubmitBusy, NoUnits
  <2> QED
    BY <1>4, <2>1 DEF SubmitBusy, NoUnits
<1>5. CASE BeginWrite \/ HasUnits \/ ReapError \/ Complete \/ UNCHANGED engineVars
  BY <1>5 DEF BeginWrite, HasUnits, ReapError, Complete, engineVars
<1> QED
  BY <1>1, <1>2, <1>3, <1>4, <1>5

(* At the start nothing is prepared.                                       *)
LEMMA InitAlign == Configured /\ ClientInit => AlignInv
<1> SUFFICES ASSUME Configured, ClientInit PROVE AlignInv
  OBVIOUS
<1>1. epc = "idle" /\ Len(taken) = 0
  BY DEF ClientInit, EngineInit
<1>2. Batch \in Nat \ {0}
  BY EngineAssumption DEF Configured, EngineAssumption
<1>3. 0 % Batch = 0
  BY <1>2
<1> QED
  BY <1>1, <1>3 DEF AlignInv, InSubmit, BatchFromLast

(* Each step keeps the batches apart.                                      *)
LEMMA NextAlign ==
  ASSUME Configured, ClientInv, BatchInv, BatchInv', AlignInv, [ClientNext]_clientVars
  PROVE  AlignInv'
<1>a. /\ Batch \in Nat \ {0}
      /\ meant \in Seq(Blocks) /\ taken \in Seq(Blocks)
      /\ Len(meant) \in Nat /\ Len(taken) \in Nat
      /\ sq \in Nat /\ Len(meant) = Len(taken) + sq
  BY EngineAssumption
     DEF Configured, EngineAssumption, ClientInv, ClientTypes, EngineInv, EngineTypeOK, IovInv
<1>1. CASE PrepareBlock
  <2>1. sq < SqEntries /\ wc # <<>> /\ epc = "getsqe"
    BY <1>1, SlotFound DEF PrepareBlock, Prepare, SqeAvailable, ClientInv, IovInv
  <2>2. /\ taken' = taken /\ sq' = sq + 1
        /\ epc' = IF queued' = Batch THEN "submit" ELSE "units"
        /\ meant' = Append(meant, Head(wc).block)
    BY <1>1, <2>1 DEF PrepareBlock, Prepare
  <2>3. Head(wc).block \in Blocks
    <3>1. Head(wc) \in Wc
      BY <2>1, TailFacts DEF ClientInv, ClientTypes
    <3> QED
      BY <3>1 DEF Wc
  <2>4. /\ Len(meant') = Len(meant) + 1
        /\ \A i \in 1 .. Len(meant) : meant'[i] = meant[i]
    BY ONLY <1>a, <2>2, <2>3, AppendFacts
  <2>5. Len(taken) % Batch = 0
    BY <2>1 DEF AlignInv, InSubmit
  <2>6. queued' = sq + 1
    BY <2>2 DEF BatchInv, QueuedIsPrepared
  <2>7. InSubmit' => Len(meant') % Batch = 0 /\ sq' <= Batch
    <3>1. SUFFICES ASSUME InSubmit' PROVE Len(meant') % Batch = 0 /\ sq' <= Batch
      OBVIOUS
    <3>2. sq + 1 = Batch
      BY <2>2, <2>6, <3>1 DEF InSubmit
    <3>3. Len(meant') = Len(taken) + Batch
      BY <1>a, <2>4, <3>2
    <3> QED
      BY <1>a, <2>2, <2>5, <3>2, <3>3, NextMultiple
  <2>8. BatchFromLast'
    <3>1. SUFFICES ASSUME NEW i \in 1 .. Len(taken)
                   PROVE  (BatchEnd(i) <= Len(meant) /\ taken[i] = meant[BatchEnd(i)])'
      BY <2>2 DEF BatchFromLast
    <3>2. BatchEnd(i) <= Len(meant) /\ taken[i] = meant[BatchEnd(i)]
      BY DEF AlignInv, BatchFromLast
    <3>3. BatchEnd(i) \in 1 .. Len(meant)
      BY <1>a, <3>2, BatchEndAfter
    <3>4. BatchEnd(i)' = BatchEnd(i)
      BY DEF BatchEnd
    <3> QED
      BY <1>a, <2>2, <2>4, <3>2, <3>3, <3>4
  <2> QED
    BY <2>2, <2>5, <2>7, <2>8 DEF AlignInv
<1>2. CASE SubmitBlocks
  <2>1. PICK k \in 1 .. sq : Submit(k) /\ taken' = taken \o [j \in 1 .. k |-> iov]
    BY <1>2 DEF SubmitBlocks
  <2>2. /\ epc = "submit" /\ epc' = "submit" /\ sq' = sq - k
        /\ meant' = meant
    BY <1>2, <2>1 DEF Submit, SubmitBlocks
  <2>3. Len(meant) % Batch = 0 /\ sq <= Batch /\ Len(meant) >= 1
    BY <1>a, <2>1, <2>2 DEF AlignInv, InSubmit
  <2>4. iov = meant[Len(meant)] /\ iov \in Blocks
    <3>1. meant # <<>> /\ meant[Len(meant)] \in Blocks
      BY <1>a, <2>3
    <3> QED
      BY <3>1 DEF ClientInv, IovInv
  <2>5. /\ Len(taken') = Len(taken) + k
        /\ \A i \in 1 .. Len(taken) : taken'[i] = taken[i]
        /\ \A i \in (Len(taken) + 1) .. (Len(taken) + k) : taken'[i] = iov
    <3>1. k \in Nat
      BY <1>a
    <3> QED
      BY ONLY <1>a, <2>1, <2>4, <3>1, CopiesFacts
  <2>6. BatchFromLast'
    <3>1. SUFFICES ASSUME NEW i \in 1 .. (Len(taken) + k)
                   PROVE  BatchEnd(i) <= Len(meant) /\ taken'[i] = meant[BatchEnd(i)]
      BY <2>2, <2>5 DEF BatchFromLast, BatchEnd
    <3>2. CASE i \in 1 .. Len(taken)
      BY <2>5, <3>2 DEF AlignInv, BatchFromLast
    <3>3. CASE i \in (Len(taken) + 1) .. (Len(taken) + k)
      <4>1. i \in Nat /\ i >= 1 /\ Len(meant) - Batch < i /\ i <= Len(meant)
        BY <1>a, <2>3, <3>3
      <4>2. BatchEnd(i) = Len(meant)
        BY <1>a, <2>3, <4>1, BatchEndIs
      <4> QED
        BY <1>a, <2>4, <2>5, <3>3, <4>2
    <3> QED
      BY <1>a, <3>2, <3>3
  <2>7. InSubmit' /\ sq' <= Batch /\ Len(meant') % Batch = 0
    BY <1>a, <2>2, <2>3 DEF InSubmit
  <2> QED
    BY <2>6, <2>7 DEF AlignInv
<1>3. CASE /\ UNCHANGED <<meant, taken>>
           /\ \/ BeginWrite \/ SubmitBusy \/ SubmitDone \/ HasUnits \/ NoUnits
              \/ ReapCqe \/ ReapError \/ ReapReturn \/ Complete \/ UNCHANGED engineVars
  <2>1. EngineTypeOK
    BY DEF ClientInv, EngineInv
  <2>2. /\ sq' = sq
        /\ \/ (InSubmit' <=> InSubmit) /\ (epc = "err" => epc' = "err")
           \/ epc' = "err" /\ ~InSubmit'
           \/ sq = 0 /\ epc # "err"
    BY <1>3, <2>1, LoopKept
  <2>3. BatchFromLast'
    BY <1>3 DEF AlignInv, BatchFromLast, BatchEnd
  <2>4. sq = 0 /\ epc # "err" => Len(meant) = Len(taken) /\ Len(taken) % Batch = 0
    BY <1>a DEF AlignInv
  <2>5. /\ InSubmit' => Len(meant) % Batch = 0 /\ sq <= Batch
        /\ ~InSubmit' /\ epc' # "err" => Len(taken) % Batch = 0
    BY <1>a, <2>2, <2>4 DEF AlignInv
  <2> QED
    BY <1>3, <2>2, <2>3, <2>5 DEF AlignInv
<1> QED
  BY <1>1, <1>2, <1>3
     DEF ClientNext, clientVars, iovVars, Client, PostRead, Debit, StopClient, Terminate,
         GetEvent, ReqNotify, Poll, PollEmpty, WriteBlock, ReadFailed, BatchHandled, BlockStep,
         PostFails, VerbFailed, ReadDone, WriteDone, AllQuiet

(* In a client whose batch fits the queue depth and whose counter starts   *)
(* at 0, however the kernel takes a batch, each of its writes is made from *)
(* the block of the batch's last one (the iovec of benchmark.cc:571-573 is *)
(* shared), and from no other batch's.                                     *)
THEOREM BatchWrittenFromLast ==
  ASSUME Configured
  PROVE  ClientSpec => []BatchFromLast
<1>1. ClientInit => BatchInv /\ AlignInv
  BY Configured, EngineInitBatch, InitAlign DEF ClientInit
<1>2. ClientInv /\ BatchInv /\ AlignInv /\ [ClientNext]_clientVars => (BatchInv /\ AlignInv)'
  <2>1. ClientInv /\ BatchInv /\ [ClientNext]_clientVars => BatchInv'
    BY Configured, ClientMovesEngine, EngineMoveBatch DEF ClientInv
  <2>2. ClientInv /\ BatchInv /\ BatchInv' /\ AlignInv /\ [ClientNext]_clientVars => AlignInv'
    BY Configured, NextAlign
  <2> QED
    BY <2>1, <2>2
<1>3. AlignInv => BatchFromLast
  BY DEF AlignInv
<1> QED
  BY <1>1, <1>2, <1>3, ClientAlways, PTL DEF ClientSpec

=============================================================================
