---------------------------- MODULE TcpConnection ----------------------------
(***************************************************************************)
(* TCPConnection of net.h (init, send, recv, close) between the target of  *)
(* block_target.cc (test_write_throughput_random), which receives N blocks *)
(* and writes each to the device, and an initiator that sends them and     *)
(* waits for "done".  TCP is a stream of bytes: ::send and ::recv move any *)
(* part of what they are asked for, and the loops around them must make    *)
(* whole messages of the parts.                                            *)
(*                                                                         *)
(* The initiator, the caller of the target's test, TCP and the device are  *)
(* external.  A byte is the message it belongs to and its place in it.  An *)
(* EINTR, or a ::send of 0 bytes, changes nothing and is repeated: it is a *)
(* stuttering step.                                                        *)
(***************************************************************************)
EXTENDS Integers, Sequences

CONSTANTS
  N,         \* blocks the target expects
  Size,      \* data_size, the bytes of a block
  DoneSize,  \* the bytes of "done": 5 in the code
  Capacity   \* bytes TCP holds for a receiver before ::send has to wait

ASSUME TcpAssumption ==
  /\ N \in Nat \ {0} /\ Size \in Nat \ {0} /\ DoneSize \in Nat \ {0}
  /\ Capacity \in Nat \ {0}

VARIABLES
  listening,  \* the target's listening socket takes connections
  link,       \* the TCP connection: "none", "up" or "broken"
  sock,       \* sock[e]: peer_sock: "none" (not set), "open" or "closed"
  pc,         \* pc[e]: the call end e is in, or its end
  left,       \* left[e]: bytes the call still has to move
  buffer,     \* buffer[e]: the receive buffer
  wire,       \* wire[e]: the bytes on their way to e
  accepted,   \* accepted[e]: the messages for which send returned len
  received,   \* received[e]: the buffers with which recv returned len
  blocks      \* the buffers the target has written to the device

vars == <<listening, link, sock, pc, left, buffer, wire, accepted, received, blocks>>

Ends == {"initiator", "target"}
Peer(e) == IF e = "target" THEN "initiator" ELSE "target"

(* Messages 1 .. N are the blocks.                                         *)
Done == N + 1
Messages == 1 .. N + 1
Bytes(m) == [k \in 1 .. IF m = Done THEN DoneSize ELSE Size |-> <<m, k>>]
Junk == <<0, 0>>

OutLen(e) == IF e = "target" THEN DoneSize ELSE Size
InLen(e) == OutLen(Peer(e))
Current(e) == IF e = "target" THEN Done ELSE Len(accepted[e]) + 1

Init ==
  /\ listening = FALSE
  /\ link = "none"
  /\ sock = [e \in Ends |-> "none"]
  /\ pc = [e \in Ends |-> "init"]
  /\ left = [e \in Ends |-> 0]
  /\ buffer = [e \in Ends |-> [k \in 1 .. InLen(e) |-> Junk]]
  /\ wire = [e \in Ends |-> <<>>]
  /\ accepted = [e \in Ends |-> <<>>]
  /\ received = [e \in Ends |-> <<>>]
  /\ blocks = <<>>

Ended(e) == pc[e] \in {"ended", "killed"}
Gone(e) == sock[e] = "closed" \/ Ended(e)
Usable(e) == sock[e] = "open" /\ link = "up"

-----------------------------------------------------------------------------
(* The calls an end makes, one after the other.                            *)

Goto(e, call) ==
  /\ pc' = [pc EXCEPT ![e] = call]
  /\ left' = [left EXCEPT ![e] =
       CASE call = "send" -> OutLen(e) [] call = "recv" -> InLen(e) [] OTHER -> 0]

(* Only a negative result of recv ends the target's loop; a short one does *)
(* not.  What it sends then is not looked at.                              *)
RecvReturns(e, result) ==
  Goto(e, IF e = "initiator" THEN "close" ELSE IF result = "error" THEN "send" ELSE "write")

SendReturns(e, result) ==
  Goto(e, IF e = "target" \/ result = "error" THEN "close"
          ELSE IF Current(e) < N THEN "send" ELSE "recv")

-----------------------------------------------------------------------------
(* init, as target: bind and listen, then accept.                          *)

Listen ==
  /\ pc["target"] = "init"
  /\ listening' = TRUE
  /\ Goto("target", "accept")
  /\ UNCHANGED <<link, sock, buffer, wire, accepted, received, blocks>>

Accept ==
  /\ pc["target"] = "accept" /\ link = "up"
  /\ sock' = [sock EXCEPT !["target"] = "open"]
  /\ listening' = FALSE
  /\ Goto("target", "recv")
  /\ UNCHANGED <<link, buffer, wire, accepted, received, blocks>>

(* A failure closes peer_sock and returns the result of that.  Before      *)
(* accept, peer_sock has no value: its close may even succeed, and init    *)
(* then returns 0.                                                         *)
TargetInitFails ==
  /\ \/ pc["target"] = "init" /\ \E call \in {"recv", "ended"} : Goto("target", call)
     \/ pc["target"] = "accept" /\ Goto("target", "ended")
  /\ listening' = FALSE
  /\ UNCHANGED <<link, sock, buffer, wire, accepted, received, blocks>>

(* init, as initiator.  When connect fails, the close of the socket        *)
(* succeeds and init returns 0.                                            *)
Connect ==
  /\ pc["initiator"] = "init"
  /\ \/ /\ listening
        /\ sock' = [sock EXCEPT !["initiator"] = "open"]
        /\ link' = "up"
     \/ sock' = [sock EXCEPT !["initiator"] = "closed"] /\ UNCHANGED link
  /\ Goto("initiator", "send")
  /\ UNCHANGED <<listening, buffer, wire, accepted, received, blocks>>

-----------------------------------------------------------------------------
(* send.                                                                   *)

SomeBytes(e, from, k) == SubSeq(Bytes(Current(e)), from + 1, from + k)

(* One ::send that takes k bytes.  What is sent to a peer that is gone is  *)
(* lost.                                                                   *)
SendPiece(e) ==
  /\ pc[e] = "send" /\ Usable(e)
  /\ \E k \in 1 .. left[e] :
       /\ \/ Gone(Peer(e)) /\ UNCHANGED wire
          \/ /\ ~Gone(Peer(e)) /\ Len(wire[Peer(e)]) + k <= Capacity
             /\ wire' = [wire EXCEPT ![Peer(e)] = @ \o SomeBytes(e, OutLen(e) - left[e], k)]
       /\ IF k < left[e]
          THEN left' = [left EXCEPT ![e] = @ - k] /\ UNCHANGED <<pc, accepted>>
          ELSE /\ accepted' = [accepted EXCEPT ![e] = Append(@, Current(e))]
               /\ SendReturns(e, "all")
  /\ UNCHANGED <<listening, link, sock, buffer, received, blocks>>

(* ::send fails: send returns -1.                                          *)
SendFails(e) ==
  /\ pc[e] = "send"
  /\ ~Usable(e) \/ Gone(Peer(e))
  /\ SendReturns(e, "error")
  /\ UNCHANGED <<listening, link, sock, buffer, wire, accepted, received, blocks>>

(* The process is ended by SIGPIPE, which nobody handles.                  *)
SigPipe(e) ==
  /\ pc[e] = "send" /\ sock[e] = "open"
  /\ link = "broken" \/ Gone(Peer(e))
  /\ sock' = [sock EXCEPT ![e] = "closed"]
  /\ Goto(e, "killed")
  /\ UNCHANGED <<listening, link, buffer, wire, accepted, received, blocks>>

-----------------------------------------------------------------------------
(* recv.                                                                   *)

Filled(e, from, k) ==
  [j \in DOMAIN buffer[e] |->
     IF j - from \in 1 .. k THEN wire[e][j - from] ELSE buffer[e][j]]

RecvPieceNoAdvance(e) ==
  /\ pc[e] = "recv" /\ Usable(e)
  /\ \E k \in 1 .. left[e] :
       /\ k <= Len(wire[e])
       /\ wire' = [wire EXCEPT ![e] = SubSeq(@, k + 1, Len(@))]
       /\ buffer' = [buffer EXCEPT ![e] = Filled(e, 0, k)]
       /\ IF k < left[e]
          THEN left' = [left EXCEPT ![e] = @ - k] /\ UNCHANGED <<pc, received>>
          ELSE /\ received' = [received EXCEPT ![e] = Append(@, buffer'[e])]
               /\ RecvReturns(e, "all")
  /\ UNCHANGED <<listening, link, sock, accepted, blocks>>

(* One ::recv that gives k bytes.                                          *)
RecvPiece(e) ==
  /\ pc[e] = "recv" /\ Usable(e)
  /\ \E k \in 1 .. left[e] :
       /\ k <= Len(wire[e])
       /\ wire' = [wire EXCEPT ![e] = SubSeq(@, k + 1, Len(@))]
       /\ buffer' = [buffer EXCEPT ![e] = Filled(e, InLen(e) - left[e], k)]
       /\ IF k < left[e]
          THEN left' = [left EXCEPT ![e] = @ - k] /\ UNCHANGED <<pc, received>>
          ELSE /\ received' = [received EXCEPT ![e] = Append(@, buffer'[e])]
               /\ RecvReturns(e, "all")
  /\ UNCHANGED <<listening, link, sock, accepted, blocks>>

RecvClosedIgnored(e) == FALSE

(* ::recv gives 0: the peer has closed.  recv returns what it has, which   *)
(* may be nothing.                                                         *)
RecvClosed(e) ==
  /\ pc[e] = "recv" /\ Usable(e)
  /\ wire[e] = <<>> /\ Gone(Peer(e))
  /\ RecvReturns(e, "short")
  /\ UNCHANGED <<listening, link, sock, buffer, wire, accepted, received, blocks>>

(* ::recv fails: recv returns -1.                                          *)
RecvFails(e) ==
  /\ pc[e] = "recv" /\ ~Usable(e)
  /\ RecvReturns(e, "error")
  /\ UNCHANGED <<listening, link, sock, buffer, wire, accepted, received, blocks>>

-----------------------------------------------------------------------------
(* The target's device, and the ends of the processes.                     *)

WriteErrorBreaks ==
  /\ pc["target"] = "write"
  /\ \/ /\ blocks' = Append(blocks, buffer["target"])
        /\ Goto("target", IF Len(blocks') < N THEN "recv" ELSE "send")
     \/ Goto("target", "send") /\ UNCHANGED blocks
  /\ UNCHANGED <<listening, link, sock, buffer, wire, accepted, received>>

(* nvme_write.  After an error the test returns at once.                   *)
WriteBlock ==
  /\ pc["target"] = "write"
  /\ \/ /\ blocks' = Append(blocks, buffer["target"])
        /\ Goto("target", IF Len(blocks') < N THEN "recv" ELSE "send")
     \/ Goto("target", "close") /\ UNCHANGED blocks
  /\ UNCHANGED <<listening, link, sock, buffer, wire, accepted, received>>

(* close, and the process ends.                                            *)
Close(e) ==
  /\ pc[e] = "close"
  /\ sock' = [sock EXCEPT ![e] = "closed"]
  /\ Goto(e, "ended")
  /\ UNCHANGED <<listening, link, buffer, wire, accepted, received, blocks>>

(* A process ends at any point of its transfer.                            *)
Crash(e) ==
  /\ ~Ended(e) /\ sock[e] = "open"
  /\ sock' = [sock EXCEPT ![e] = "closed"]
  /\ Goto(e, "killed")
  /\ UNCHANGED <<listening, link, buffer, wire, accepted, received, blocks>>

(* The connection is reset or times out: what is under way is lost.        *)
Break ==
  /\ link = "up"
  /\ link' = "broken"
  /\ wire' = [e \in Ends |-> <<>>]
  /\ UNCHANGED <<listening, sock, pc, left, buffer, accepted, received, blocks>>

-----------------------------------------------------------------------------
Transfer(e) ==
  \/ SendPiece(e) \/ SendFails(e) \/ SigPipe(e)
  \/ RecvPiece(e) \/ RecvClosed(e) \/ RecvFails(e)
  \/ Close(e)

Process(e) ==
  \/ Transfer(e)
  \/ e = "target" /\ (Listen \/ Accept \/ TargetInitFails \/ WriteBlock)
  \/ e = "initiator" /\ Connect

Next == Break \/ \E e \in Ends : Process(e) \/ Crash(e)

Spec == Init /\ [][Next]_vars

(* The processes are scheduled, and TCP moves what it can.                 *)
FairSpec == Spec /\ \A e \in Ends : WF_vars(Process(e))

-----------------------------------------------------------------------------
(* Properties.                                                             *)

Byte == {<<m, k>> : m \in Messages, k \in 1 .. Size + DoneSize} \cup {Junk}
Buffers == [1 .. Size -> Byte] \cup [1 .. DoneSize -> Byte]

(* Each variable has its type.                                             *)
TypeOK ==
  /\ listening \in BOOLEAN
  /\ link \in {"none", "up", "broken"}
  /\ sock \in [Ends -> {"none", "open", "closed"}]
  /\ pc \in [Ends -> {"init", "accept", "send", "recv", "write", "close", "ended", "killed"}]
  /\ left \in [Ends -> 0 .. Size + DoneSize]
  /\ buffer \in [Ends -> Buffers] /\ \A e \in Ends : DOMAIN buffer[e] = 1 .. InLen(e)
  /\ wire \in [Ends -> Seq(Byte)]
  /\ accepted \in [Ends -> Seq(Messages)]
  /\ received \in [Ends -> Seq(Buffers)]
  /\ blocks \in Seq(Buffers)

(* The message a buffer holds; 0 when it holds none.                       *)
Decode(b) == IF \E m \in Messages : b = Bytes(m) THEN b[1][1] ELSE 0

Channel == INSTANCE MessageChannel WITH
  sent <- accepted,
  delivered <- [e \in Ends |-> [i \in DOMAIN received[e] |-> Decode(received[e][i])]],
  closed <- [e \in Ends |-> sock[e] = "closed"]

(* The loops of send and recv make a channel of whole messages out of the  *)
(* stream of bytes, however it is cut up, broken or closed.                *)
ImplementsChannel == Channel!Spec

(* The target writes the blocks it was sent, in their order and without a  *)
(* mix of two; only when the initiator went away early does it write what  *)
(* is left in its buffer.  An initiator that gets "done" knows that all N  *)
(* blocks were written, although the target also sends it after a failed   *)
(* recv.  They are all written to block 0 of the device.                   *)
WrittenAsSent ==
  /\ \A i \in 1 .. Len(blocks) :
       blocks[i] = Bytes(i) \/ (Gone("initiator") /\ Len(accepted["initiator"]) < i)
  /\ received["initiator"] # <<>> => blocks = [i \in 1 .. N |-> Bytes(i)]

(* Once there is a connection both processes end, whoever fails first: no  *)
(* end waits for bytes that the other does not send.                       *)
ConnectedEnd == (link = "up") ~> (Ended("initiator") /\ Ended("target"))

=============================================================================
