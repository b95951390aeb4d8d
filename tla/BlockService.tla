---------------------------- MODULE BlockService ----------------------------
(***************************************************************************)
(* The synchronous block service of net.h (GRPCSyncServer): ReadBlock and  *)
(* WriteBlock turn a request of some bytes into one NVMe command for whole *)
(* logical blocks.  gRPC runs every call on a thread of its own, but each  *)
(* operation fills one static argument record, so two calls of the same    *)
(* operation share it.                                                     *)
(*                                                                         *)
(* gRPC, the device and the heap are external.  An access to memory that   *)
(* is not allocated leaves the service "corrupt", where anything could     *)
(* follow and the model stops.  The timing sums are left out.              *)
(***************************************************************************)
EXTENDS Integers, Sequences, FiniteSets

CONSTANTS
  Clients,    \* client processes, each with one call at a time
  Op,         \* Op[c]: "read" or "write", the operation client c calls
  Requests,   \* requests: start_block, size and the length of data
  MaxCalls,   \* bound on the calls that are made
  Lbs,        \* the logical block size of the device
  Blocks,     \* its number of logical blocks
  Unset,      \* what logical_block_size may hold when it is not set
  NlbMod      \* 2^16 in the code: nlb is a __u16

ASSUME BlockAssumption ==
  /\ Op \in [Clients -> {"read", "write"}]
  /\ Requests \subseteq [start : Nat, size : Nat, data : Nat]
  /\ MaxCalls \in Nat
  /\ Lbs \in Nat \ {0} /\ Blocks \in Nat \ {0} /\ NlbMod \in Nat \ {0}
  /\ Unset \subseteq Nat

VARIABLES
  server,   \* "start", "up", "down" when run() has returned, "fault" after
            \* a division by zero, or "corrupt"
  lbs,      \* config.logical_block_size
  args,     \* args[op]: the static nvme_io_args of an operation
  pc,       \* pc[c]: where the handler of client c's call is
  req,      \* req[c]: the request of the call
  calls,    \* calls made so far
  id,       \* id[c]: the number of the call, and of the buffer it allocates
  len,      \* len[c]: actual_len
  err,      \* err[c]: the result of the command
  reply,    \* reply[c]: end_block
  heap,     \* heap[b]: buffer b: its size, and whose data it holds
  disk,     \* disk[b]: the call whose data block b holds
  overlap   \* overlap[c]: another call of the operation ran meanwhile

callVars == <<pc, req, calls, id, len, err, reply, overlap>>
vars == <<server, lbs, args, callVars, heap, disk>>

None == 0
Buffers == 1 .. MaxCalls
Dead == [size |-> 0, live |-> FALSE, from |-> None]
NoReq == [start |-> 0, size |-> 0, data |-> 0]

Init ==
  /\ server = "start"
  /\ lbs \in Unset
  /\ args = [op \in {"read", "write"} |-> [slba |-> 0, nlb |-> 0, len |-> 0, data |-> None]]
  /\ pc = [c \in Clients |-> "idle"]
  /\ req = [c \in Clients |-> NoReq]
  /\ calls = 0
  /\ id = [c \in Clients |-> None]
  /\ len = [c \in Clients |-> 0]
  /\ err = [c \in Clients |-> FALSE]
  /\ reply = [c \in Clients |-> 0]
  /\ heap = [b \in Buffers |-> Dead]
  /\ disk = [b \in 0 .. Blocks - 1 |-> None]
  /\ overlap = [c \in Clients |-> FALSE]

-----------------------------------------------------------------------------
(* The constructor and run().                                              *)

(* init_device_config: each of its calls may fail, and it returns 0 all    *)
(* the same.                                                               *)
Config == lbs' = Lbs \/ UNCHANGED lbs

(* Only the device's descriptor is looked at before the service starts.    *)
Start ==
  /\ server = "start"
  /\ \/ server' = "up" /\ Config
     \/ server' = "down" /\ UNCHANGED lbs
  /\ UNCHANGED <<args, callVars, heap, disk>>

-----------------------------------------------------------------------------
(* The handlers.                                                           *)

Goto(c, step) == pc' = [pc EXCEPT ![c] = step]
Args(c) == args[Op[c]]
Set(c, field, val) == args' = [args EXCEPT ![Op[c]][field] = val]

(* A call arrives, and gRPC gives it a thread.                             *)
Call(c, r) ==
  /\ pc[c] = "idle"
  /\ calls < MaxCalls
  /\ calls' = calls + 1
  /\ id' = [id EXCEPT ![c] = calls']
  /\ req' = [req EXCEPT ![c] = r]
  /\ LET same == {d \in Clients \ {c} : Op[d] = Op[c] /\ pc[d] # "idle"}
     IN  overlap' = [d \in Clients |->
                       IF d = c THEN same # {} ELSE overlap[d] \/ d \in same]
  /\ Goto(c, "slba")
  /\ UNCHANGED <<server, lbs, args, len, err, reply, heap, disk>>

SetSlba(c) ==
  /\ pc[c] = "slba"
  /\ Set(c, "slba", req[c].start)
  /\ Goto(c, "nlb")
  /\ UNCHANGED <<server, lbs, req, calls, id, len, err, reply, overlap, heap, disk>>

NlbNoMinus(size) == (size \div lbs) % NlbMod

(* The number of blocks, counted from 0, in 16 bits.                       *)
Nlb(size) ==
  (IF size % lbs # 0 THEN size \div lbs ELSE size \div lbs - 1) % NlbMod

SetNlb(c) ==
  /\ pc[c] = "nlb"
  /\ IF lbs = 0
     THEN server' = "fault" /\ UNCHANGED <<args, pc>>
     ELSE /\ Set(c, "nlb", Nlb(req[c].size))
          /\ Goto(c, "len")
          /\ UNCHANGED server
  /\ UNCHANGED <<lbs, req, calls, id, len, err, reply, overlap, heap, disk>>

SetLenShort(c) ==
  /\ pc[c] = "len"
  /\ len' = [len EXCEPT ![c] = Args(c).nlb * lbs]
  /\ Set(c, "len", len'[c])
  /\ Goto(c, "new")
  /\ UNCHANGED <<server, lbs, req, calls, id, err, reply, overlap, heap, disk>>

(* actual_len, and args.data_len.                                          *)
SetLen(c) ==
  /\ pc[c] = "len"
  /\ len' = [len EXCEPT ![c] = (Args(c).nlb + 1) * lbs]
  /\ Set(c, "len", len'[c])
  /\ Goto(c, "new")
  /\ UNCHANGED <<server, lbs, req, calls, id, err, reply, overlap, heap, disk>>

(* args.data = new char[actual_len].                                       *)
Alloc(c) ==
  /\ pc[c] = "new"
  /\ heap' = [heap EXCEPT ![id[c]] = [size |-> len[c], live |-> TRUE, from |-> None]]
  /\ Set(c, "data", id[c])
  /\ Goto(c, "copy")
  /\ UNCHANGED <<server, lbs, req, calls, id, len, err, reply, overlap, disk>>

Buffer(c) == heap[Args(c).data]

Corrupt ==
  /\ server' = "corrupt"
  /\ UNCHANGED <<lbs, args, callVars, heap, disk>>

(* memcpy takes all of the request's data: buffer_size is computed for it  *)
(* and not used.                                                           *)
Copy(c) ==
  /\ pc[c] = "copy"
  /\ IF Buffer(c).live /\ req[c].data <= Buffer(c).size
     THEN /\ heap' = [heap EXCEPT ![Args(c).data].from = id[c]]
          /\ Goto(c, "io")
          /\ UNCHANGED <<server, lbs, args, req, calls, id, len, err, reply, overlap, disk>>
     ELSE Corrupt

Range(c) == Args(c).slba .. Args(c).slba + Args(c).nlb

(* The device takes a command for blocks it has, of the right length; and  *)
(* may fail.                                                               *)
Accepts(c) == Range(c) \subseteq DOMAIN disk /\ Args(c).len = (Args(c).nlb + 1) * Lbs

(* nvme_write or nvme_read.                                                *)
Io(c) ==
  /\ pc[c] = "io"
  /\ IF ~(Buffer(c).live /\ Args(c).len <= Buffer(c).size)
     THEN Corrupt
     ELSE /\ \/ /\ Accepts(c)
                /\ err' = [err EXCEPT ![c] = FALSE]
                /\ disk' = [b \in DOMAIN disk |->
                     IF Op[c] = "write" /\ b \in Range(c) THEN Buffer(c).from ELSE disk[b]]
             \/ err' = [err EXCEPT ![c] = TRUE] /\ UNCHANGED disk
          /\ Goto(c, "delete")
          /\ UNCHANGED <<server, lbs, args, req, calls, id, len, reply, overlap, heap>>

FreeOnSuccess(c) ==
  /\ pc[c] = "delete"
  /\ heap' = IF err[c] THEN heap ELSE [heap EXCEPT ![Args(c).data] = Dead]
  /\ Goto(c, "return")
  /\ UNCHANGED <<server, lbs, args, req, calls, id, len, err, reply, overlap, disk>>

(* delete[] args.data.                                                     *)
Free(c) ==
  /\ pc[c] = "delete"
  /\ IF Buffer(c).live
     THEN /\ heap' = [heap EXCEPT ![Args(c).data] = Dead]
          /\ Goto(c, "return")
          /\ UNCHANGED <<server, lbs, args, req, calls, id, len, err, reply, overlap, disk>>
     ELSE Corrupt

(* The status, and for a good one end_block.                               *)
Return(c) ==
  /\ pc[c] = "return"
  /\ reply' = [reply EXCEPT ![c] = IF err[c] THEN @ ELSE req[c].start + Args(c).nlb]
  /\ Goto(c, "returned")
  /\ UNCHANGED <<server, lbs, args, req, calls, id, len, err, overlap, heap, disk>>

(* The client has its answer and may call again.                           *)
Answered(c) ==
  /\ pc[c] = "returned"
  /\ Goto(c, "idle")
  /\ req' = [req EXCEPT ![c] = NoReq]
  /\ id' = [id EXCEPT ![c] = None]
  /\ len' = [len EXCEPT ![c] = 0]
  /\ err' = [err EXCEPT ![c] = FALSE]
  /\ reply' = [reply EXCEPT ![c] = 0]
  /\ overlap' = [overlap EXCEPT ![c] = FALSE]
  /\ UNCHANGED <<server, lbs, args, calls, heap, disk>>

Handler(c) ==
  \/ SetSlba(c) \/ SetNlb(c) \/ SetLen(c) \/ Alloc(c) \/ Copy(c) \/ Io(c) \/ Free(c)
  \/ Return(c) \/ Answered(c)

Up == server = "up"

Next ==
  \/ Start
  \/ Up /\ \E c \in Clients : Handler(c) \/ \E r \in Requests : Call(c, r)

Spec == Init /\ [][Next]_vars

-----------------------------------------------------------------------------
(* Properties.                                                             *)

BufferType == [size : Nat, live : BOOLEAN, from : 0 .. MaxCalls]
ArgsType == [slba : Nat, nlb : 0 .. NlbMod - 1, len : Nat,
             data : 0 .. MaxCalls]

(* Each variable has its type.                                             *)
TypeOK ==
  /\ server \in {"start", "up", "down", "fault", "corrupt"}
  /\ lbs \in Nat
  /\ args \in [{"read", "write"} -> ArgsType]
  /\ pc \in [Clients -> {"idle", "slba", "nlb", "len", "new", "copy", "io", "delete",
                         "return", "returned"}]
  /\ req \in [Clients -> Requests \cup {NoReq}]
  /\ calls \in 0 .. MaxCalls
  /\ id \in [Clients -> 0 .. MaxCalls]
  /\ len \in [Clients -> Nat]
  /\ err \in [Clients -> BOOLEAN]
  /\ reply \in [Clients -> Nat]
  /\ heap \in [Buffers -> BufferType]
  /\ disk \in [0 .. Blocks - 1 -> 0 .. MaxCalls]
  /\ overlap \in [Clients -> BOOLEAN]

(* A call on a configured device, alone in its operation, whose data fits  *)
(* the size it gives, and whose blocks can be counted in nlb.              *)
Regular(c) ==
  /\ lbs = Lbs
  /\ ~overlap[c]
  /\ req[c].size \in 1 .. NlbMod * Lbs
  /\ req[c].data <= req[c].size

(* The blocks that the bytes of a request lie in.                          *)
Cover(r) == {b \in 0 .. r.start + r.size : (b - r.start) * Lbs \in 0 .. r.size - 1}

(* A good answer to a write means that exactly the blocks of the request   *)
(* were written, from its own data, and names the last of them.  Readers   *)
(* may run at the same time, and calls that shared their arguments may     *)
(* have run before.                                                        *)
WriteExact ==
  \A c \in Clients :
    pc[c] = "returned" /\ Op[c] = "write" /\ Regular(c) /\ ~err[c] =>
      /\ {b \in DOMAIN disk : disk[b] = id[c]} = Cover(req[c])
      /\ reply[c] \in Cover(req[c]) /\ reply[c] + 1 \notin Cover(req[c])

(* Only an irregular call that is still running can damage memory: it uses *)
(* another call's buffer, or copies past the end of its own.               *)
NoCorruption ==
  server = "corrupt" => \E c \in Clients : pc[c] # "idle" /\ ~Regular(c)

(* A call returns its buffer, with a good answer or a bad one, unless      *)
(* calls have overlapped and lost each other's pointers.                   *)
NoBufferLeft ==
  \A c \in Clients : pc[c] = "returned" /\ ~overlap[c] => ~heap[id[c]].live

=============================================================================
