---------------------------- MODULE RdmaConnection ----------------------------
(***************************************************************************)
(* The life of the connection of the user-space RDMA benchmark, seen from  *)
(* both processes: rdma_setup, rdma_handshake (the server sends a token    *)
(* that tells the client where its data pool is), the transfer, and the    *)
(* end that rdma_client_terminate announces to the server.  The transfer   *)
(* itself is the module RdmaClient; here it is one step of the client.     *)
(*                                                                         *)
(* The connection manager and the adapters are external, modelled from the *)
(* calls: an event channel per side, and a completion queue that raises    *)
(* one event each time it was armed.                                       *)
(***************************************************************************)
EXTENDS Integers, Sequences

Sides == {"client", "server"}
Other(s) == IF s = "client" THEN "server" ELSE "client"

VARIABLES
  stage,   \* stage[s]: the step of the worker thread of side s
  cm,      \* cm[s]: events in cm_channel, oldest first
  cqes,    \* cqes[s]: completions in the queue
  armed,   \* armed[s]: the queue will raise an event
  evs,     \* evs[s]: events in comp_channel
  token,   \* the token: "none", "sent", "delivered", "acked" or "failed"
  end      \* the request of rdma_client_terminate: "none", "posted", "delivered" or "void"

cqVars == <<cqes, armed, evs>>
rdmaVars == <<stage, cm, cqVars, token, end>>

RdmaInit ==
  /\ stage = [s \in Sides |-> "start"]
  /\ cm = [s \in Sides |-> <<>>]
  /\ cqes = [s \in Sides |-> 0]
  /\ armed = [s \in Sides |-> FALSE]
  /\ evs = [s \in Sides |-> 0]
  /\ token = "none"
  /\ end = "none"

MoveTo(s, step) == stage' = [stage EXCEPT ![s] = step]

SideGone(s) == stage[s] \in {"done", "err"}

Notify(s, event) == cm' = [cm EXCEPT ![s] = Append(@, event)]

(* A completion enters the queue of side s.                                *)
Arrive(s) ==
  /\ cqes' = [cqes EXCEPT ![s] = @ + 1]
  /\ evs' = [evs EXCEPT ![s] = IF armed[s] THEN @ + 1 ELSE @]
  /\ armed' = [armed EXCEPT ![s] = FALSE]

(* get_next_channel_event: the expected event lets side s go on, any other *)
(* one makes it fail.                                                      *)
NextChannelEvent(s, at, event, step) ==
  /\ stage[s] = at
  /\ cm[s] # <<>>
  /\ cm' = [cm EXCEPT ![s] = Tail(@)]
  /\ MoveTo(s, IF Head(cm[s]) = event THEN step ELSE "err")
  /\ UNCHANGED <<cqVars, token, end>>

-----------------------------------------------------------------------------
(* rdma_setup.                                                             *)

(* The server: channel, id, bind and listen.                               *)
RdmaListen ==
  /\ stage["server"] = "start"
  /\ MoveTo("server", "listening")
  /\ UNCHANGED <<cm, cqVars, token, end>>

(* rdma_setup waits for the client.                                        *)
ConnectRequest == NextChannelEvent("server", "listening", "CONNECT_REQUEST", "alloc")

(* The client: channel, id, address and route.                             *)
Resolve ==
  /\ stage["client"] = "start"
  /\ MoveTo("client", "alloc")
  /\ UNCHANGED <<cm, cqVars, token, end>>

(* Protection domain, channel, queue, its first ibv_req_notify_cq, pair.   *)
Alloc(s) ==
  /\ stage[s] = "alloc"
  /\ armed' = [armed EXCEPT ![s] = TRUE]
  /\ MoveTo(s, "connect")
  /\ UNCHANGED <<cm, cqes, evs, token, end>>

-----------------------------------------------------------------------------
(* rdma_handshake.                                                         *)

(* rdma_connect reaches a listening server or is rejected.                 *)
RdmaConnect ==
  /\ stage["client"] = "connect"
  /\ MoveTo("client", "connecting")
  /\ IF stage["server"] = "listening"
     THEN Notify("server", "CONNECT_REQUEST")
     ELSE Notify("client", "REJECTED")
  /\ UNCHANGED <<cqVars, token, end>>

(* rdma_accept.                                                            *)
RdmaAccept ==
  /\ stage["server"] = "connect"
  /\ MoveTo("server", "accepting")
  /\ IF SideGone("client") THEN UNCHANGED cm ELSE Notify("client", "ESTABLISHED")
  /\ UNCHANGED <<cqVars, token, end>>

(* The client's side is up, and its answer brings up the server's.         *)
ClientEstablished ==
  /\ stage["client"] = "connecting"
  /\ cm["client"] # <<>>
  /\ IF Head(cm["client"]) = "ESTABLISHED"
     THEN /\ MoveTo("client", "established")
          /\ cm' = [s \in Sides |-> IF s = "client" THEN Tail(cm[s])
                                    ELSE Append(cm[s], "ESTABLISHED")]
     ELSE /\ MoveTo("client", "err")
          /\ cm' = [cm EXCEPT !["client"] = Tail(@)]
  /\ UNCHANGED <<cqVars, token, end>>

(* The server waits for the client's answer.                               *)
ServerEstablished == NextChannelEvent("server", "accepting", "ESTABLISHED", "established")

(* The client posts the receive for the token only now; the server may be  *)
(* faster.                                                                 *)
PostTokenRecv ==
  /\ stage["client"] = "established"
  /\ MoveTo("client", "event")
  /\ UNCHANGED <<cm, cqVars, token, end>>

(* The server registers its pool and sends the token.                      *)
SendToken ==
  /\ stage["server"] = "established"
  /\ token' = "sent"
  /\ MoveTo("server", "event")
  /\ UNCHANGED <<cm, cqVars, end>>

TokenEventSkipped(s) ==
  /\ stage[s] = "event"
  /\ MoveTo(s, "notify")
  /\ UNCHANGED <<cm, cqVars, token, end>>

(* Both wait in ibv_get_cq_event, rearm the queue, and poll.               *)
TokenEvent(s) ==
  /\ stage[s] = "event"
  /\ evs[s] > 0
  /\ evs' = [evs EXCEPT ![s] = @ - 1]
  /\ MoveTo(s, "notify")
  /\ UNCHANGED <<cm, cqes, armed, token, end>>

TokenNotifySkipped(s) ==
  /\ stage[s] = "notify"
  /\ MoveTo(s, "poll")
  /\ UNCHANGED <<cm, cqVars, token, end>>

TokenNotify(s) ==
  /\ stage[s] = "notify"
  /\ armed' = [armed EXCEPT ![s] = TRUE]
  /\ MoveTo(s, "poll")
  /\ UNCHANGED <<cm, cqes, evs, token, end>>

(* The completion is polled; one with an error status ends the handshake.  *)
TokenPoll(s) ==
  /\ stage[s] = "poll"
  /\ cqes[s] > 0
  /\ cqes' = [cqes EXCEPT ![s] = @ - 1]
  /\ MoveTo(s, IF token = "failed" THEN "err" ELSE "ready")
  /\ UNCHANGED <<cm, armed, evs, token, end>>

-----------------------------------------------------------------------------
(* do_io_user_rdma.                                                        *)

(* The client's whole transfer, then rdma_client_terminate.  The opcode    *)
(* and flags of end_wr are never set, so what is posted is a send by luck, *)
(* a request that breaks the pair (which completes the server's receive    *)
(* too), or one that the server never notices.  The thread returns without *)
(* waiting for it.                                                         *)
TransferAndTerminate ==
  /\ stage["client"] = "ready"
  /\ end' \in {"posted", "void"}
  /\ MoveTo("client", "done")
  /\ UNCHANGED <<cm, cqVars, token>>

PostEndRecvNoSleep ==
  /\ stage["server"] = "ready"
  /\ MoveTo("server", "done")
  /\ UNCHANGED <<cm, cqVars, token, end>>

(* The server posts the receive for the end and sleeps.                    *)
PostEndRecv ==
  /\ stage["server"] = "ready"
  /\ MoveTo("server", "waiting")
  /\ UNCHANGED <<cm, cqVars, token, end>>

EndEvent ==
  /\ stage["server"] = "waiting"
  /\ evs["server"] > 0
  /\ evs' = [evs EXCEPT !["server"] = @ - 1]
  /\ MoveTo("server", "ending")
  /\ UNCHANGED <<cm, cqes, armed, token, end>>

(* ibv_poll_cq must return one completion; its status is not looked at.    *)
EndPoll ==
  /\ stage["server"] = "ending"
  /\ MoveTo("server", IF cqes["server"] > 0 THEN "done" ELSE "err")
  /\ cqes' = [cqes EXCEPT !["server"] = IF @ > 0 THEN @ - 1 ELSE @]
  /\ UNCHANGED <<cm, armed, evs, token, end>>

-----------------------------------------------------------------------------
(* The fabric.                                                             *)

TokenRecvPosted == stage["client"] \in {"event", "notify", "poll"}

(* A send that finds no receive is retried for ever (rnr_retry_count 7).   *)
DeliverToken ==
  /\ token = "sent" /\ TokenRecvPosted
  /\ token' = "delivered"
  /\ Arrive("client")
  /\ UNCHANGED <<stage, cm, end>>

AckToken ==
  /\ token = "delivered"
  /\ token' = "acked"
  /\ Arrive("server")
  /\ UNCHANGED <<stage, cm, end>>

(* The client is gone: the server's send completes with an error.          *)
TokenFails ==
  /\ token = "sent" /\ SideGone("client")
  /\ token' = "failed"
  /\ Arrive("server")
  /\ UNCHANGED <<stage, cm, end>>

DeliverEnd ==
  /\ end = "posted" /\ stage["server"] = "waiting"
  /\ end' = "delivered"
  /\ Arrive("server")
  /\ UNCHANGED <<stage, cm, token>>

(* A failing call or a dead process.  The connection manager tells the     *)
(* peer, which listens to it only before the handshake's token.            *)
Fail(s) ==
  /\ ~SideGone(s)
  /\ MoveTo(s, "err")
  /\ IF SideGone(Other(s)) THEN UNCHANGED cm ELSE Notify(Other(s), "DISCONNECTED")
  /\ UNCHANGED <<cqVars, token, end>>

(* The client's process ends before its last request left the adapter.     *)
EndLost ==
  /\ end = "posted"
  /\ end' = "void"
  /\ UNCHANGED <<stage, cm, cqVars, token>>

-----------------------------------------------------------------------------
Thread(s) ==
  \/ s = "server" /\ (RdmaListen \/ ConnectRequest \/ RdmaAccept \/ ServerEstablished
                        \/ SendToken \/ PostEndRecv \/ EndEvent \/ EndPoll)
  \/ s = "client" /\ (Resolve \/ RdmaConnect \/ ClientEstablished \/ PostTokenRecv
                        \/ TransferAndTerminate)
  \/ Alloc(s) \/ TokenEvent(s) \/ TokenNotify(s) \/ TokenPoll(s)

Fabric == DeliverToken \/ AckToken \/ TokenFails \/ DeliverEnd

Fault == EndLost \/ \E s \in Sides : Fail(s)

RdmaNext == (\E s \in Sides : Thread(s)) \/ Fabric \/ Fault

RdmaSpec == RdmaInit /\ [][RdmaNext]_rdmaVars

(* Threads are scheduled and the fabric delivers what it can.              *)
RdmaFairSpec == RdmaSpec /\ WF_rdmaVars(Fabric) /\ \A s \in Sides : WF_rdmaVars(Thread(s))

-----------------------------------------------------------------------------
(* Properties.                                                             *)

Steps == {"start", "listening", "alloc", "connect", "connecting", "accepting",
          "established", "event", "notify", "poll", "ready", "waiting", "ending",
          "done", "err"}

(* Each variable has its type.                                             *)
RdmaTypeOK ==
  /\ stage \in [Sides -> Steps]
  /\ cm \in [Sides -> Seq({"CONNECT_REQUEST", "REJECTED", "ESTABLISHED", "DISCONNECTED"})]
  /\ cqes \in [Sides -> 0 .. 2]
  /\ armed \in [Sides -> BOOLEAN]
  /\ evs \in [Sides -> 0 .. 2]
  /\ token \in {"none", "sent", "delivered", "acked", "failed"}
  /\ end \in {"none", "posted", "delivered", "void"}

(* The server does not go away by itself while the client reads its pool:  *)
(* it ends normally only after the client's last request.                  *)
ServerOutlivesReads ==
  stage["server"] = "done" => end = "delivered" /\ SideGone("client")

(* ibv_poll_cq finds the completion that raised the server's last event:   *)
(* no event of the handshake is left over.                                 *)
EndEventIsReal == stage["server"] = "ending" => cqes["server"] = 1

(* The server never sleeps on a queue that holds a completion or will      *)
(* raise no event.                                                         *)
ServerCanWake ==
  stage["server"] = "waiting" /\ evs["server"] = 0 => armed["server"] /\ cqes["server"] = 0

(* Once the server has accepted, both sides come to their end, unless one  *)
(* of them fails or the last request never reaches the server.             *)
BothEnd ==
  stage["server"] = "connect" ~>
    \/ stage["client"] = "done" /\ stage["server"] = "done"
    \/ \E s \in Sides : stage[s] = "err"
    \/ end = "void"

=============================================================================
