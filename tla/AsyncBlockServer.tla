-------------------------- MODULE AsyncBlockServer --------------------------
(***************************************************************************)
(* The asynchronous block service of net.h (GRPCAsyncServer::run with its  *)
(* one active RPCHandler): call objects that move through CREATE, PROCESS  *)
(* and FINISH, driven by the tags that a daemon thread takes from a        *)
(* completion queue; and block_initiator.cc, which makes one call and      *)
(* waits for its end.  gRPC is external: it matches arriving calls with    *)
(* requested objects, sends replies, and queues the object's tag.          *)
(***************************************************************************)
EXTENDS Integers, Sequences, FiniteSets

CONSTANTS
  Calls,    \* the calls that clients make
  MaxObjs   \* bound on the objects that are ever created

ASSUME ServerAssumption ==
  /\ IsFiniteSet(Calls)
  /\ MaxObjs \in Nat /\ MaxObjs > Cardinality(Calls)

VARIABLES
  status,     \* status[o]: of call object o; "new" before it is created
  call,       \* call[o]: the call it serves, or none
  requested,  \* objects that wait for a call in gRPC, oldest first
  finishing,  \* objects whose reply is being sent
  cq,         \* the completion queue: tag and ok
  rpc,        \* rpc[c]: the call, up to its "answered" or "cancelled"
  client,     \* client[c]: the caller
  server      \* "up", or "aborted" by a failed assertion

vars == <<status, call, requested, finishing, cq, rpc, client, server>>

Objs == 1 .. MaxObjs
NoCall == "none"

(* run() and exec(): the daemon creates the first object, whose proceed()  *)
(* requests a call at once.                                                *)
Init ==
  /\ status = [o \in Objs |-> IF o = 1 THEN "PROCESS" ELSE "new"]
  /\ call = [o \in Objs |-> NoCall]
  /\ requested = <<1>>
  /\ finishing = {}
  /\ cq = <<>>
  /\ rpc = [c \in Calls |-> "idle"]
  /\ client = [c \in Calls |-> "start"]
  /\ server = "up"

-----------------------------------------------------------------------------
(* Clients and gRPC.                                                       *)

(* PrepareAsyncWriteBlock, StartCall, and Finish, which asks for the tag.  *)
ClientCalls(c) ==
  /\ client[c] = "start"
  /\ client' = [client EXCEPT ![c] = "next"]
  /\ rpc' = [rpc EXCEPT ![c] = "sent"]
  /\ UNCHANGED <<status, call, requested, finishing, cq, server>>

(* cq.Next gives the tag back when the call has ended, well or badly; ok   *)
(* is always true for Finish.                                              *)
ClientEnds(c) ==
  /\ client[c] = "next"
  /\ \/ rpc[c] = "answered" /\ client' = [client EXCEPT ![c] = "ok"]
     \/ /\ rpc[c] = "cancelled" \/ (server = "aborted" /\ rpc[c] # "answered")
        /\ client' = [client EXCEPT ![c] = "failed"]
  /\ UNCHANGED <<status, call, requested, finishing, cq, rpc, server>>

(* Another client of the service may give up its call.                     *)
ClientCancels(c) ==
  /\ rpc[c] \in {"sent", "matched"}
  /\ rpc' = [rpc EXCEPT ![c] = "cancelled"]
  /\ UNCHANGED <<status, call, requested, finishing, cq, client, server>>

(* A call meets the oldest requested object.                               *)
Match(c) ==
  /\ rpc[c] = "sent"
  /\ requested # <<>>
  /\ rpc' = [rpc EXCEPT ![c] = "matched"]
  /\ call' = [call EXCEPT ![Head(requested)] = c]
  /\ cq' = Append(cq, [tag |-> Head(requested), ok |-> TRUE])
  /\ requested' = Tail(requested)
  /\ UNCHANGED <<status, finishing, client, server>>

(* The reply is sent, or cannot be because the call was cancelled.         *)
SendReply(o) ==
  /\ o \in finishing
  /\ finishing' = finishing \ {o}
  /\ cq' = Append(cq, [tag |-> o, ok |-> rpc[call[o]] = "matched"])
  /\ rpc' = [rpc EXCEPT ![call[o]] = IF @ = "matched" THEN "answered" ELSE @]
  /\ UNCHANGED <<status, call, requested, client, server>>

-----------------------------------------------------------------------------
(* The daemon of RPCHandler::exec.                                         *)

NextTag == Head(cq).tag
Fresh == CHOOSE o \in Objs : status[o] = "new"

(* GPR_ASSERT(ok) fails.                                                   *)
AssertFails ==
  /\ cq # <<>> /\ ~Head(cq).ok
  /\ server' = "aborted"
  /\ UNCHANGED <<status, call, requested, finishing, cq, rpc, client>>

ProcessNoSuccessor ==
  /\ cq # <<>> /\ Head(cq).ok
  /\ status[NextTag] = "PROCESS"
  /\ status' = [status EXCEPT ![NextTag] = "FINISH"]
  /\ finishing' = finishing \cup {NextTag}
  /\ cq' = Tail(cq)
  /\ UNCHANGED <<call, requested, rpc, client, server>>

ProcessReusesSelf ==
  /\ cq # <<>> /\ Head(cq).ok
  /\ status[NextTag] = "PROCESS"
  /\ status' = [status EXCEPT ![NextTag] = "PROCESS"]
  /\ requested' = Append(requested, NextTag)
  /\ finishing' = finishing \cup {NextTag}
  /\ cq' = Tail(cq)
  /\ UNCHANGED <<call, rpc, client, server>>

(* proceed() in PROCESS: a successor is created, which requests the next   *)
(* call; then the reply is handed to gRPC.                                 *)
Process ==
  /\ cq # <<>> /\ Head(cq).ok
  /\ status[NextTag] = "PROCESS"
  /\ status' = [status EXCEPT ![Fresh] = "PROCESS", ![NextTag] = "FINISH"]
  /\ requested' = Append(requested, Fresh)
  /\ finishing' = finishing \cup {NextTag}
  /\ cq' = Tail(cq)
  /\ UNCHANGED <<call, rpc, client, server>>

DeleteForgotten ==
  /\ cq # <<>> /\ Head(cq).ok
  /\ status[NextTag] = "FINISH"
  /\ cq' = Tail(cq)
  /\ UNCHANGED <<status, call, requested, finishing, rpc, client, server>>

(* proceed() in FINISH: delete this.                                       *)
Delete ==
  /\ cq # <<>> /\ Head(cq).ok
  /\ status[NextTag] = "FINISH"
  /\ status' = [status EXCEPT ![NextTag] = "deleted"]
  /\ cq' = Tail(cq)
  /\ UNCHANGED <<call, requested, finishing, rpc, client, server>>

-----------------------------------------------------------------------------
Up == server = "up"
Daemon == Up /\ (AssertFails \/ Process \/ Delete)
Grpc   == Up /\ ((\E c \in Calls : Match(c)) \/ \E o \in Objs : SendReply(o))
Users  == \E c \in Calls : ClientCalls(c) \/ ClientEnds(c)
Cancel == Up /\ \E c \in Calls : ClientCancels(c)

Next == Daemon \/ Grpc \/ Users \/ Cancel

Spec == Init /\ [][Next]_vars

(* The daemon and the clients are scheduled, gRPC delivers calls and       *)
(* replies and tells a client when the service is gone.  Nobody has to     *)
(* cancel.                                                                 *)
FairSpec == Spec /\ WF_vars(Daemon) /\ WF_vars(Grpc) /\ WF_vars(Users)

-----------------------------------------------------------------------------
(* Properties.                                                             *)

(* Each variable has its type.                                             *)
TypeOK ==
  /\ status \in [Objs -> {"new", "PROCESS", "FINISH", "deleted"}]
  /\ call \in [Objs -> Calls \cup {NoCall}]
  /\ requested \in Seq(Objs)
  /\ finishing \subseteq Objs
  /\ cq \in Seq([tag : Objs, ok : BOOLEAN])
  /\ rpc \in [Calls -> {"idle", "sent", "matched", "answered", "cancelled"}]
  /\ client \in [Calls -> {"start", "next", "ok", "failed"}]
  /\ server \in {"up", "aborted"}

(* A tag in the queue or in gRPC is that of a live object, and an object   *)
(* is only at one of these places: none is used after delete this, and     *)
(* none is deleted twice.                                                  *)
Places(o) ==
  Cardinality({i \in 1 .. Len(cq) : cq[i].tag = o})
  + Cardinality({i \in 1 .. Len(requested) : requested[i] = o})
  + (IF o \in finishing THEN 1 ELSE 0)

NoDanglingTag ==
  \A o \in Objs : Places(o) = IF status[o] \in {"PROCESS", "FINISH"} THEN 1 ELSE 0

(* GPR_ASSERT(ok) in the daemon's loop: it holds for every tag.            *)
AssertOk == server = "up"

(* Every client comes to its end, and with an answer unless its call was   *)
(* cancelled or a cancelled one has taken the service down: there is       *)
(* always an object to take the next call.                                 *)
CallsAnswered ==
  \A c \in Calls :
    <>(\/ client[c] = "ok"
       \/ client[c] = "failed" /\ (rpc[c] = "cancelled" \/ server = "aborted"))

(* Objects of answered calls are deleted in the end, and one is left to    *)
(* take the next call.                                                     *)
NoLeak ==
  <>[](\/ server = "aborted"
       \/ Cardinality({o \in Objs : status[o] \in {"PROCESS", "FINISH"}}) = 1)

=============================================================================
