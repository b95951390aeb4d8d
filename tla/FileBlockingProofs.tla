------------------------- MODULE FileBlockingProofs -------------------------
(***************************************************************************)
(* Proofs about the blocking handlers of the file service, for every set   *)
(* of clients and all their arguments: a call that no other client         *)
(* disturbs stays within its buffer and its request, and what it is        *)
(* answered for is on the file once and in its place.                      *)
(*                                                                         *)
(* Neither is inductive.  Lockstep says how far a client and its handler   *)
(* can be apart, SizeInv that buffer_size and the buffer of an undisturbed *)
(* call are of the size it asked for, and FileInv which writes of it the   *)
(* files hold at each step of its handler.                                 *)
(***************************************************************************)
EXTENDS FileBlocking, FiniteSetTheorems, TLAPS

Busy(c) == hpc[c] \in {"openlarge", "opensmall", "alloc", "copy", "write", "close", "reply"}
Waiting(c) == hpc[c] \in {"first", "read"}
Message(c) == [no |-> sent[c], data |-> conf[c].size]

(* The client and the stream of a call that has requests, at each stage of *)
(* the exchange: before the stream, between two requests, with a request   *)
(* under way, handled, or answered, and after the handler's end.           *)
Closed(c) == /\ cpc[c] \in {"params", "open"} /\ hpc[c] = "none"
             /\ sent[c] = 0 /\ got[c] = 0 /\ request[c].no = 0
             /\ wire[c] = <<>> /\ replies[c] = 0
Idle(c) == /\ cpc[c] \in {"loop", "finish"} /\ Waiting(c)
           /\ sent[c] = got[c] /\ request[c].no = got[c]
           /\ wire[c] = <<>> /\ replies[c] = 0
Asked(c) == /\ cpc[c] = "reply" /\ Waiting(c)
            /\ sent[c] = got[c] + 1 /\ request[c].no = got[c]
            /\ wire[c] = <<Message(c)>> /\ replies[c] = 0
Handled(c) == /\ cpc[c] = "reply" /\ Busy(c)
              /\ sent[c] = got[c] + 1 /\ request[c] = Message(c)
              /\ wire[c] = <<>> /\ replies[c] = 0
Answered(c) == /\ cpc[c] = "reply" /\ hpc[c] = "read"
               /\ sent[c] = got[c] + 1 /\ request[c].no = sent[c]
               /\ wire[c] = <<>> /\ replies[c] = 1
Over(c) == /\ cpc[c] \notin {"params", "open"} /\ Returned(c)
           /\ got[c] <= sent[c] /\ wire[c] = <<>> /\ replies[c] = 0

Lockstep(c) ==
  /\ sent[c] <= conf[c].n /\ request[c].no <= conf[c].n
  /\ cpc[c] = "finish" => sent[c] = conf[c].n
  /\ hpc[c] = "first" => request[c].no = 0
  /\ conf[c].n = 0 => wire[c] = <<>>
  /\ cpc[c] \in {"params", "open"} <=> hpc[c] = "none"
  /\ cpc[c] \in {"ok", "failed"} => Returned(c)
  /\ conf[c].n > 0 =>
       Closed(c) \/ Idle(c) \/ Asked(c) \/ Handled(c) \/ Answered(c) \/ Over(c)

(* The sizes of a call that nobody has disturbed.                          *)
SizeInv(c) ==
  ~disturbed[c] => /\ Running(c) => bufSize = conf[c].size
                   /\ hpc[c] \in {"copy", "write"} => buffer[c] = conf[c].size

(* What the handler of c has answered, and the writes of c on file f.      *)
Acked(c) == got[c] + replies[c]
Home(c, k) == IF Large(c) THEN LargeFile ELSE k
By(c, f, i) == i \in 1 .. Len(file[f]) /\ file[f][i].who = c
OnFile(c, k) ==
  \E i \in 1 .. Len(file[Home(c, k)]) :
    /\ By(c, Home(c, k), i)
    /\ file[Home(c, k)][i].no = k /\ (file[Home(c, k)][i].full \/ Large(c))

FileInv(c) ==
  Regular(c) =>
    /\ \A f \in Names : \A i \in 1 .. Len(file[f]) : By(c, f, i) =>
         /\ file[f][i].no \in 1 .. Acked(c) + 1 /\ f = Home(c, file[f][i].no)
         /\ file[f][i].no = Acked(c) + 1 => hpc[c] \in {"close", "reply", "bad"}
    /\ \A f \in Names : \A i, j \in 1 .. Len(file[f]) :
         By(c, f, i) /\ By(c, f, j) /\ file[f][i].no = file[f][j].no => i = j
    /\ \A k \in 1 .. Acked(c) : OnFile(c, k)
    /\ hpc[c] \in {"close", "reply"} => OnFile(c, Acked(c) + 1)

BlockingInv ==
  /\ TypeOK
  /\ NoOverrun
  /\ \A c \in Clients : Lockstep(c) /\ SizeInv(c) /\ FileInv(c)

-----------------------------------------------------------------------------
(* The types of what belongs to one client.                                *)
LEMMA ClientTypes ==
  ASSUME TypeOK, NEW c \in Clients
  PROVE  /\ conf[c].n \in Nat /\ conf[c].size \in Nat \ {0} /\ conf[c].n <= MaxN
         /\ conf[c].kind \in {"large", "small"}
         /\ MaxN \in Nat
         /\ bufSize \in Nat /\ sent[c] \in Nat /\ got[c] \in Nat /\ replies[c] \in Nat
         /\ wire[c] \in Seq([no : Nat, data : Nat])
         /\ request[c] \in [no : Nat, data : Nat]
         /\ request[c].no \in Nat /\ request[c].data \in Nat
         /\ fd[c] \in BOOLEAN /\ buffer[c] \in Nat /\ disturbed[c] \in BOOLEAN
<1>1. conf \in Confs /\ conf \in [Clients -> ConfType]
  BY BlockingAssumption DEF TypeOK
<1>2. conf[c] \in ConfType /\ conf[c].n <= MaxN /\ MaxN \in Nat
  BY <1>1, BlockingAssumption
<1>3. conf[c].n \in Nat /\ conf[c].size \in Nat \ {0} /\ conf[c].kind \in {"large", "small"}
  BY <1>2 DEF ConfType
<1>4. request[c] \in [no : Nat, data : Nat]
  BY DEF TypeOK
<1>5. request[c].no \in Nat /\ request[c].data \in Nat
  BY <1>4
<1> QED
  BY <1>2, <1>3, <1>4, <1>5 DEF TypeOK

(* A step of one client or handler leaves the others where they are, and   *)
(* nobody's call is ever undisturbed again.                                *)
LEMMA OthersKeep ==
  ASSUME TypeOK, NEW c \in Clients, Client(c) \/ Handler(c), NEW d \in Clients, d # c
  PROVE  /\ cpc'[d] = cpc[d] /\ sent'[d] = sent[d] /\ got'[d] = got[d]
         /\ wire'[d] = wire[d] /\ replies'[d] = replies[d]
         /\ hpc'[d] = hpc[d] /\ request'[d] = request[d] /\ fd'[d] = fd[d]
         /\ buffer'[d] = buffer[d]
<1>1. CASE Start(c)
  BY <1>1 DEF Start, TypeOK, ClientGoto, streamVars, handlerVars
<1>2. CASE OpenStream(c)
  BY <1>2 DEF OpenStream, TypeOK, ClientGoto, streamVars
<1>3. CASE WriteRequest(c)
  BY <1>3 DEF WriteRequest, TypeOK, ClientGoto, handlerVars
<1>4. CASE ReadReply(c)
  BY <1>4 DEF ReadReply, TypeOK, ClientGoto, handlerVars
<1>5. CASE WritesDone(c)
  BY <1>5 DEF WritesDone, TypeOK, ClientGoto, streamVars, handlerVars
<1>6. CASE Finish(c)
  BY <1>6 DEF Finish, TypeOK, ClientGoto, streamVars, handlerVars
<1>7. CASE FirstRequest(c)
  BY <1>7 DEF FirstRequest, TypeOK, Goto, Receive, clientVars
<1>8. CASE OpenLarge(c)
  BY <1>8 DEF OpenLarge, TypeOK, Goto, clientVars, streamVars
<1>9. CASE NextRequest(c)
  BY <1>9 DEF NextRequest, TypeOK, Goto, Receive, clientVars
<1>10. CASE OpenSmall(c)
  BY <1>10 DEF OpenSmall, TypeOK, Goto, clientVars, streamVars
<1>11. CASE Alloc(c)
  BY <1>11 DEF Alloc, TypeOK, Goto, clientVars, streamVars
<1>12. CASE CallFails(c)
  BY <1>12 DEF CallFails, TypeOK, Goto, clientVars, streamVars
<1>13. CASE Copy(c)
  BY <1>13 DEF Copy, TypeOK, Goto, Corrupt, clientVars, streamVars, handlerVars
<1>14. CASE Write(c)
  <2>1. CASE bufSize > buffer[c]
    BY <1>14, <2>1 DEF Write, Corrupt, clientVars, streamVars, handlerVars
  <2>2. CASE ~(bufSize > buffer[c])
    <3>1. /\ UNCHANGED <<clientVars, streamVars, request, fd, buffer>>
          /\ \E step : Goto(c, step)
      BY <1>14, <2>2 DEF Write
    <3> QED
      BY <3>1 DEF TypeOK, Goto, clientVars, streamVars
  <2> QED
    BY <2>1, <2>2
<1>15. CASE Close(c)
  BY <1>15 DEF Close, TypeOK, Goto, clientVars, streamVars
<1>16. CASE Reply(c)
  BY <1>16 DEF Reply, TypeOK, Goto, clientVars, streamVars
<1> QED
  BY <1>1, <1>2, <1>3, <1>4, <1>5, <1>6, <1>7, <1>8, <1>9, <1>10, <1>11, <1>12, <1>13, <1>14,
     <1>15, <1>16 DEF Client, Handler

(* Nobody's arguments change, and no call is undisturbed again.            *)
LEMMA StaysDisturbed ==
  ASSUME TypeOK, NEW c \in Clients, Client(c) \/ Handler(c), NEW d \in Clients
  PROVE  conf' = conf /\ (disturbed[d] => disturbed'[d])
<1>1. CASE Start(c)
  BY <1>1 DEF Start
<1>2. CASE OpenLarge(c)
  BY <1>2 DEF OpenLarge
<1>3. CASE ~Start(c) /\ ~OpenLarge(c)
  <2>1. UNCHANGED <<conf, disturbed>>
    BY <1>3 DEF Client, Handler, OpenStream, WriteRequest, ReadReply, WritesDone, Finish,
                FirstRequest, NextRequest, OpenSmall, Alloc, CallFails, Copy, Write, Corrupt,
                Close, Reply
  <2> QED
    BY <2>1
<1> QED
  BY <1>1, <1>2, <1>3

(* The sequences of one or no request.                                     *)
LEMMA ShortFacts ==
  ASSUME NEW e
  PROVE  /\ Append(<<>>, e) = <<e>> /\ <<e>> # <<>>
         /\ Head(<<e>>) = e /\ Tail(<<e>>) = <<>>
OBVIOUS

Stages(c) == Closed(c) \/ Idle(c) \/ Asked(c) \/ Handled(c) \/ Answered(c) \/ Over(c)

(* A step of a client or of its handler takes the call from one stage to   *)
(* another.                                                                *)
LEMMA OwnLockstep ==
  ASSUME TypeOK, NEW c \in Clients, Lockstep(c), Client(c) \/ Handler(c)
  PROVE  Lockstep(c)'
<1> USE ShortFacts
<1>0. /\ conf[c].n \in Nat /\ sent[c] \in Nat /\ got[c] \in Nat /\ replies[c] \in Nat
      /\ request[c].no \in Nat /\ NoRequest.no = 0
  BY ClientTypes DEF NoRequest
<1>1. CASE Start(c)
  <2>1. /\ cpc[c] = "params" /\ cpc'[c] = "open"
        /\ UNCHANGED <<conf, sent, got, wire, replies, hpc, request>>
    BY <1>1 DEF Start, TypeOK, ClientGoto, streamVars, handlerVars
  <2> QED
    BY <1>0, <2>1 DEF Lockstep, Closed, Idle, Asked, Handled, Answered, Over, Returned
<1>2. CASE OpenStream(c)
  <2>1. /\ cpc[c] = "open" /\ cpc'[c] = "loop" /\ hpc'[c] \in {"first", "read"}
        /\ UNCHANGED <<conf, sent, got, wire, replies, request>>
    BY <1>2 DEF OpenStream, TypeOK, ClientGoto, streamVars
  <2>2. conf[c].n > 0 => Idle(c)'
    BY <1>0, <2>1 DEF Lockstep, Closed, Idle, Asked, Handled, Answered, Over, Returned, Waiting
  <2>3. request[c].no = 0
    BY <1>0, <2>1 DEF Lockstep, Closed, Idle, Asked, Handled, Answered, Over
  <2> QED
    BY <1>0, <2>1, <2>2, <2>3 DEF Lockstep, Returned
<1>3. CASE WriteRequest(c)
  <2>1. /\ cpc[c] = "loop" /\ cpc'[c] = "reply" /\ sent[c] < conf[c].n
        /\ sent'[c] = sent[c] + 1
        /\ UNCHANGED <<conf, got, replies, hpc, request>>
    BY <1>3 DEF WriteRequest, TypeOK, ClientGoto, handlerVars
  <2>2. wire'[c] = IF Returned(c) THEN wire[c] ELSE Append(wire[c], Message(c)')
    BY <1>3, <2>1 DEF WriteRequest, TypeOK, Message
  <2>3. Idle(c) \/ Over(c)
    BY <1>0, <2>1 DEF Lockstep, Closed, Idle, Asked, Handled, Answered, Over
  <2>4. CASE Idle(c)
    <3>1. Asked(c)'
      BY <2>1, <2>2, <2>4, <1>0 DEF Idle, Asked, Waiting, Returned
    <3> QED
      BY <3>1, <2>1, <1>0 DEF Lockstep
  <2>5. CASE Over(c)
    <3>1. Over(c)'
      BY <2>1, <2>2, <2>5, <1>0 DEF Over, Returned
    <3> QED
      BY <3>1, <2>1, <1>0 DEF Lockstep
  <2> QED
    BY <2>3, <2>4, <2>5
<1>4. CASE ReadReply(c)
  <2>1. /\ cpc[c] = "reply" /\ cpc'[c] = "loop"
        /\ UNCHANGED <<conf, sent, wire, hpc, request>>
        /\ \/ replies[c] > 0 /\ replies'[c] = replies[c] - 1 /\ got'[c] = got[c] + 1
           \/ replies[c] = 0 /\ Returned(c) /\ UNCHANGED <<replies, got>>
    BY <1>4 DEF ReadReply, TypeOK, ClientGoto, handlerVars
  <2>2. conf[c].n > 0 => Stages(c)'
    <3>1. conf[c].n > 0 => Answered(c) \/ Over(c)
      BY <1>0, <2>1 DEF Lockstep, Closed, Idle, Asked, Handled, Answered, Over, Returned,
                        Waiting, Busy
    <3>2. Answered(c) => Idle(c)'
      BY <1>0, <2>1 DEF Answered, Idle, Waiting, Returned
    <3>3. Over(c) => Over(c)'
      BY <1>0, <2>1 DEF Over, Returned
    <3> QED
      BY <3>1, <3>2, <3>3, <2>1 DEF Stages
  <2> QED
    BY <1>0, <2>1, <2>2 DEF Lockstep, Stages
<1>5. CASE WritesDone(c)
  <2>1. /\ cpc[c] = "loop" /\ cpc'[c] = "finish" /\ sent[c] = conf[c].n
        /\ UNCHANGED <<conf, sent, got, wire, replies, hpc, request>>
    BY <1>5 DEF WritesDone, TypeOK, ClientGoto, streamVars, handlerVars
  <2> QED
    BY <1>0, <2>1 DEF Lockstep, Closed, Idle, Asked, Handled, Answered, Over, Returned, Waiting
<1>6. CASE Finish(c)
  <2>1. /\ cpc[c] = "finish" /\ cpc'[c] \in {"ok", "failed"} /\ Returned(c)
        /\ UNCHANGED <<conf, sent, got, wire, replies, hpc, request>>
    BY <1>6 DEF Finish, TypeOK, ClientGoto, streamVars, handlerVars
  <2>2. conf[c].n > 0 => Over(c)'
    BY <1>0, <2>1 DEF Lockstep, Closed, Idle, Asked, Handled, Answered, Over, Returned, Waiting
  <2> QED
    BY <1>0, <2>1, <2>2 DEF Lockstep, Returned
<1>7. CASE FirstRequest(c) \/ NextRequest(c)
  <2>1. /\ Waiting(c) /\ UNCHANGED <<conf, cpc, sent, got, replies>>
        /\ hpc[c] = "first" => hpc'[c] = "openlarge"
        /\ hpc'[c] \in {"openlarge", "opensmall", "alloc", "good"}
    BY <1>7 DEF FirstRequest, NextRequest, TypeOK, Goto, clientVars, Waiting
  <2>2. \/ wire[c] # <<>> /\ request'[c] = Head(wire[c]) /\ wire'[c] = Tail(wire[c]) /\ Busy(c)'
        \/ /\ StreamEnded(c) /\ UNCHANGED <<request, wire>>
           /\ hpc[c] = "read" => hpc'[c] = "good"
    BY <1>7 DEF FirstRequest, NextRequest, TypeOK, Goto, Receive, Busy
  <2>3. CASE wire[c] # <<>> /\ request'[c] = Head(wire[c]) /\ wire'[c] = Tail(wire[c]) /\ Busy(c)'
    <3>1. Asked(c) /\ conf[c].n > 0
      BY <1>0, <2>1, <2>3 DEF Lockstep, Closed, Idle, Asked, Handled, Answered, Over, Waiting,
                              Returned
    <3>2. Handled(c)'
      BY <3>1, <2>1, <2>3 DEF Asked, Handled, Message
    <3>3. request'[c].no = sent[c]
      BY <3>1, <2>3 DEF Asked, Message
    <3> QED
      BY <3>1, <3>2, <3>3, <2>1, <2>3, <1>0 DEF Lockstep, Handled, Busy, Returned
  <2>4. CASE /\ StreamEnded(c) /\ UNCHANGED <<request, wire>>
             /\ hpc[c] = "read" => hpc'[c] = "good"
    <3>1. cpc[c] = "finish"
      BY <2>4 DEF StreamEnded
    <3>2. conf[c].n > 0 => hpc[c] = "read" /\ Idle(c)
      BY <1>0, <2>1, <3>1 DEF Lockstep, Closed, Idle, Asked, Handled, Answered, Over, Waiting,
                              Returned
    <3>3. conf[c].n > 0 => Over(c)'
      BY <3>1, <3>2, <2>1, <2>4, <1>0 DEF Idle, Over, Returned
    <3> QED
      BY <3>1, <3>3, <2>1, <2>4, <1>0 DEF Lockstep
  <2> QED
    BY <2>2, <2>3, <2>4
<1>8. CASE OpenLarge(c) \/ OpenSmall(c) \/ Alloc(c) \/ CallFails(c) \/ Copy(c) \/ Write(c) \/ Close(c)
  <2>1. /\ hpc[c] \in {"openlarge", "opensmall", "alloc", "copy", "write", "close"}
        /\ Busy(c)' \/ hpc'[c] = "bad"
        /\ UNCHANGED <<conf, cpc, sent, got, wire, replies, request>>
    <3>1. CASE OpenLarge(c) \/ OpenSmall(c) \/ Alloc(c) \/ CallFails(c) \/ Close(c)
      BY <3>1 DEF OpenLarge, OpenSmall, Alloc, CallFails, Close, TypeOK, Goto, Busy,
                  clientVars, streamVars
    <3>2. CASE Copy(c)
      BY <3>2 DEF Copy, Corrupt, TypeOK, Goto, Busy, clientVars, streamVars, handlerVars
    <3>3. CASE Write(c)
      <4>1. CASE bufSize > buffer[c]
        BY <3>3, <4>1 DEF Write, Corrupt, Busy, clientVars, streamVars, handlerVars
      <4>2. CASE ~(bufSize > buffer[c])
        <5>1. /\ hpc[c] = "write"
              /\ UNCHANGED <<conf, clientVars, streamVars, request>>
              /\ \E step \in {"bad", "reply", "close"} : Goto(c, step)
          BY <3>3, <4>2 DEF Write
        <5> QED
          BY <5>1 DEF TypeOK, Goto, Busy, clientVars, streamVars
      <4> QED
        BY <4>1, <4>2
    <3> QED
      BY <1>8, <3>1, <3>2, <3>3
  <2>2. conf[c].n > 0 => Handled(c)
    BY <1>0, <2>1 DEF Lockstep, Closed, Idle, Asked, Handled, Answered, Over, Waiting, Returned
  <2>3. conf[c].n > 0 => Handled(c)' \/ Over(c)'
    BY <2>1, <2>2, <1>0 DEF Handled, Over, Returned, Message
  <2> QED
    BY <1>0, <2>1, <2>3 DEF Lockstep, Busy, Returned
<1>9. CASE Reply(c)
  <2>1. /\ hpc[c] = "reply" /\ hpc'[c] = "read" /\ replies'[c] = replies[c] + 1
        /\ UNCHANGED <<conf, cpc, sent, got, wire, request>>
    BY <1>9 DEF Reply, TypeOK, Goto, clientVars
  <2>2. conf[c].n > 0 => Handled(c)
    BY <1>0, <2>1 DEF Lockstep, Closed, Idle, Asked, Handled, Answered, Over, Waiting, Returned
  <2>3. conf[c].n > 0 => Answered(c)'
    BY <1>0, <2>1, <2>2 DEF Handled, Answered, Message
  <2> QED
    BY <1>0, <2>1, <2>3 DEF Lockstep, Returned
<1> QED
  BY <1>1, <1>2, <1>3, <1>4, <1>5, <1>6, <1>7, <1>8, <1>9 DEF Client, Handler

(* So does a step of any other.                                            *)
LEMMA LockstepStep ==
  ASSUME TypeOK, NEW c \in Clients, Client(c) \/ Handler(c), NEW d \in Clients, Lockstep(d)
  PROVE  Lockstep(d)'
<1>1. CASE d = c
  BY <1>1, OwnLockstep
<1>2. CASE d # c
  <2>1. /\ cpc'[d] = cpc[d] /\ sent'[d] = sent[d] /\ got'[d] = got[d]
        /\ wire'[d] = wire[d] /\ replies'[d] = replies[d]
        /\ hpc'[d] = hpc[d] /\ request'[d] = request[d]
    BY <1>2, OthersKeep
  <2>2. conf' = conf
    BY StaysDisturbed
  <2> QED
    BY <2>1, <2>2 DEF Lockstep, Closed, Idle, Asked, Handled, Answered, Over, Waiting, Busy,
                      Returned, Message
<1> QED
  BY <1>1, <1>2

(* How far the replies of a call can be.                                   *)
LEMMA AckedBound ==
  ASSUME TypeOK, NEW c \in Clients, Lockstep(c), conf[c].n > 0
  PROVE  /\ Acked(c) \in Nat /\ Acked(c) <= conf[c].n /\ Acked(c) \in Names
         /\ replies[c] \in 0 .. 1 /\ (replies[c] = 1 => hpc[c] = "read")
         /\ Busy(c) => /\ request[c].no = Acked(c) + 1 /\ request[c].data = conf[c].size
                       /\ request[c].no \in Names \ {0}
<1>0. /\ conf[c].n \in Nat /\ sent[c] \in Nat /\ got[c] \in Nat /\ replies[c] \in Nat
      /\ request[c].no \in Nat /\ conf[c].n <= MaxN /\ MaxN \in Nat
  BY ClientTypes
<1>1. /\ Acked(c) \in Nat /\ Acked(c) <= conf[c].n
      /\ replies[c] \in 0 .. 1 /\ (replies[c] = 1 => hpc[c] = "read")
  <2>1. sent[c] <= conf[c].n
    BY DEF Lockstep
  <2>2. CASE Answered(c)
    BY <1>0, <2>1, <2>2 DEF Answered, Acked
  <2>3. CASE ~Answered(c)
    <3>1. replies[c] = 0 /\ got[c] <= sent[c]
      BY <1>0, <2>3 DEF Lockstep, Closed, Idle, Asked, Handled, Over
    <3> QED
      BY <1>0, <2>1, <3>1 DEF Acked
  <2> QED
    BY <2>2, <2>3
<1>2. Busy(c) => Handled(c)
  BY DEF Busy, Lockstep, Closed, Idle, Asked, Handled, Answered, Over, Waiting, Returned
<1>3. Busy(c) => request[c].no = Acked(c) + 1 /\ request[c].data = conf[c].size
  BY <1>0, <1>2 DEF Handled, Message, Acked
<1>4. request[c].no <= conf[c].n
  BY DEF Lockstep
<1> QED
  BY <1>0, <1>1, <1>3, <1>4 DEF Names

-----------------------------------------------------------------------------
(* What adding a write to a file does.                                     *)
LEMMA AppendFacts ==
  ASSUME NEW S, NEW s \in Seq(S), NEW e \in S
  PROVE  /\ Append(s, e) \in Seq(S)
         /\ Len(s) \in Nat
         /\ Len(Append(s, e)) = Len(s) + 1
         /\ \A i \in 1 .. Len(s) : Append(s, e)[i] = s[i]
         /\ Append(s, e)[Len(s) + 1] = e
OBVIOUS

(* What taking the first request leaves.                                   *)
LEMMA TailFacts ==
  ASSUME NEW S, NEW s \in Seq(S), s # <<>>
  PROVE  Head(s) \in S /\ Tail(s) \in Seq(S)
OBVIOUS

(* The empty sequence.                                                     *)
LEMMA EmptyFacts ==
  ASSUME NEW S
  PROVE  <<>> \in Seq(S) /\ Len(<<>>) = 0
OBVIOUS

(* A write is of a request and to a file that exists.                      *)
LEMMA TargetExists ==
  ASSUME TypeOK, NEW c \in Clients, Lockstep(c)
  PROVE  Target(c) \in Names
<1>1. /\ conf[c].n \in Nat /\ conf[c].n <= MaxN /\ request[c].no \in Nat /\ MaxN \in Nat
      /\ request[c].no <= conf[c].n
  BY ClientTypes DEF Lockstep
<1> QED
  BY <1>1 DEF Target, LargeFile, Names

(* A step of a client or of its handler keeps the types.                   *)
LEMMA TypeStep ==
  ASSUME TypeOK, NEW c \in Clients, Lockstep(c), Client(c) \/ Handler(c)
  PROVE  TypeOK'
<1> DEFINE Requests == [no : Nat, data : Nat]
<1>0. /\ conf[c].n \in Nat /\ conf[c].size \in Nat /\ sent[c] \in Nat /\ got[c] \in Nat
      /\ replies[c] \in Nat /\ wire[c] \in Seq(Requests) /\ bufSize \in Nat
  BY ClientTypes
<1>1. CASE Start(c)
  BY <1>1, <1>0 DEF Start, TypeOK, ClientGoto, streamVars, handlerVars
<1>2. CASE OpenStream(c)
  BY <1>2 DEF OpenStream, TypeOK, ClientGoto, streamVars
<1>3. CASE WriteRequest(c)
  <2>1. sent' \in [Clients -> Nat] /\ sent'[c] \in Nat
    BY <1>3 DEF WriteRequest, TypeOK
  <2>2. [no |-> sent'[c], data |-> conf[c].size] \in Requests
    BY <2>1, <1>0
  <2>3. Append(wire[c], [no |-> sent'[c], data |-> conf[c].size]) \in Seq(Requests)
    BY <2>2, <1>0, AppendFacts
  <2>4. wire' \in [Clients -> Seq(Requests)]
    BY <1>3, <2>3 DEF WriteRequest, TypeOK
  <2> QED
    BY <1>3, <2>1, <2>4 DEF WriteRequest, TypeOK, ClientGoto, handlerVars
<1>4. CASE ReadReply(c)
  <2>1. replies' \in [Clients -> Nat] /\ got' \in [Clients -> Nat]
    <3>1. CASE /\ replies[c] > 0 /\ replies' = [replies EXCEPT ![c] = @ - 1]
               /\ got' = [got EXCEPT ![c] = @ + 1]
      <4>1. replies[c] - 1 \in Nat /\ got[c] + 1 \in Nat
        BY <1>0, <3>1
      <4> QED
        BY <3>1, <4>1 DEF TypeOK
    <3> QED
      BY <1>4, <3>1 DEF ReadReply, TypeOK
  <2> QED
    BY <1>4, <2>1 DEF ReadReply, TypeOK, ClientGoto, handlerVars
<1>5. CASE WritesDone(c)
  BY <1>5 DEF WritesDone, TypeOK, ClientGoto, streamVars, handlerVars
<1>6. CASE Finish(c)
  BY <1>6 DEF Finish, TypeOK, ClientGoto, streamVars, handlerVars
<1>7. CASE FirstRequest(c) \/ NextRequest(c)
  <2>1. Receive(c) \/ UNCHANGED <<request, wire>>
    BY <1>7 DEF FirstRequest, NextRequest
  <2>2. request' \in [Clients -> Requests] /\ wire' \in [Clients -> Seq(Requests)]
    <3>1. wire[c] # <<>> => Head(wire[c]) \in Requests /\ Tail(wire[c]) \in Seq(Requests)
      BY <1>0, TailFacts
    <3>2. CASE Receive(c)
      BY <3>1, <3>2 DEF Receive, TypeOK
    <3> QED
      BY <2>1, <3>2 DEF TypeOK
  <2>3. fd' \in [Clients -> BOOLEAN]
    BY <1>7 DEF FirstRequest, NextRequest, TypeOK
  <2>4. /\ UNCHANGED <<conf, corrupt, bufSize, cpc, sent, got, replies, buffer, file, disturbed>>
        /\ \E step \in {"openlarge", "alloc", "opensmall", "good"} : Goto(c, step)
    BY <1>7 DEF FirstRequest, NextRequest, clientVars
  <2> QED
    BY <2>2, <2>3, <2>4 DEF TypeOK, Goto
<1>8. CASE OpenLarge(c)
  <2>1. file' \in [Names -> Seq(Entry)]
    <3>1. <<>> \in Seq(Entry) /\ file \in [Names -> Seq(Entry)]
      BY EmptyFacts DEF TypeOK
    <3>2. file' = [file EXCEPT ![LargeFile] = <<>>] \/ file' = file
      BY <1>8 DEF OpenLarge
    <3> QED
      BY <3>1, <3>2
  <2>2. disturbed' \in [Clients -> BOOLEAN]
    BY <1>8 DEF OpenLarge, TypeOK
  <2> QED
    BY <1>8, <2>1, <2>2 DEF OpenLarge, TypeOK, Goto, clientVars, streamVars
<1>9. CASE OpenSmall(c)
  BY <1>9 DEF OpenSmall, TypeOK, Goto, clientVars, streamVars
<1>10. CASE Alloc(c)
  BY <1>10 DEF Alloc, TypeOK, Goto, clientVars, streamVars
<1>11. CASE CallFails(c)
  BY <1>11 DEF CallFails, TypeOK, Goto, clientVars, streamVars
<1>12. CASE Copy(c)
  BY <1>12 DEF Copy, TypeOK, Goto, Corrupt, clientVars, streamVars, handlerVars
<1>13. CASE Write(c)
  <2>1. CASE Corrupt(c)
    BY <2>1 DEF Corrupt, TypeOK, clientVars, streamVars, handlerVars
  <2>2. CASE ~Corrupt(c)
    <3>1. /\ UNCHANGED <<conf, corrupt, bufSize, clientVars, streamVars, request, fd, buffer,
                         disturbed>>
          /\ \E step \in {"bad", "reply", "close"} : Goto(c, step)
          /\ \/ UNCHANGED file
             \/ \E full \in BOOLEAN :
                  file' = [file EXCEPT ![Target(c)] =
                             Append(@, [who |-> c, no |-> request[c].no, full |-> full])]
      BY <1>13, <2>2 DEF Write
    <3>2. file' \in [Names -> Seq(Entry)]
      <4>1. ASSUME NEW full \in BOOLEAN,
                   file' = [file EXCEPT ![Target(c)] =
                              Append(@, [who |-> c, no |-> request[c].no, full |-> full])]
            PROVE  file' \in [Names -> Seq(Entry)]
        <5>1. request[c].no \in Nat
          BY ClientTypes
        <5>2. [who |-> c, no |-> request[c].no, full |-> full] \in Entry
          BY <5>1 DEF Entry
        <5>3. Target(c) \in Names /\ file \in [Names -> Seq(Entry)]
          BY TargetExists DEF TypeOK
        <5>4. Append(file[Target(c)], [who |-> c, no |-> request[c].no, full |-> full])
                \in Seq(Entry)
          BY <5>2, <5>3, AppendFacts
        <5> QED
          BY <4>1, <5>3, <5>4
      <4> QED
        BY <3>1, <4>1 DEF TypeOK
    <3> QED
      BY <3>1, <3>2 DEF TypeOK, Goto, clientVars, streamVars
  <2> QED
    BY <2>1, <2>2
<1>14. CASE Close(c)
  BY <1>14 DEF Close, TypeOK, Goto, clientVars, streamVars
<1>15. CASE Reply(c)
  <2>1. replies' \in [Clients -> Nat]
    BY <1>15, <1>0 DEF Reply, TypeOK
  <2> QED
    BY <1>15, <2>1 DEF Reply, TypeOK, Goto, clientVars, streamVars
<1> QED
  BY <1>1, <1>2, <1>3, <1>4, <1>5, <1>6, <1>7, <1>8, <1>9, <1>10, <1>11, <1>12, <1>13, <1>14,
     <1>15 DEF Client, Handler

-----------------------------------------------------------------------------
(* Whoever changes buffer_size disturbs the running calls of another size. *)
LEMMA SizeStep ==
  ASSUME TypeOK, NEW c \in Clients, Client(c) \/ Handler(c),
         NEW d \in Clients, Lockstep(d), SizeInv(d)
  PROVE  SizeInv(d)'
<1> SUFFICES ASSUME ~disturbed'[d]
             PROVE  /\ Running(d)' => bufSize' = conf'[d].size
                    /\ hpc'[d] \in {"copy", "write"} => buffer'[d] = conf'[d].size
  BY DEF SizeInv
<1>0. ~disturbed[d] /\ conf' = conf
  BY StaysDisturbed
<1>1. /\ Running(d) => bufSize = conf[d].size
      /\ hpc[d] \in {"copy", "write"} => buffer[d] = conf[d].size
  BY <1>0 DEF SizeInv
<1>2. hpc[d] \notin {"none", "good", "bad"} => Running(d)
  BY DEF Lockstep, Running, Returned
<1>3. CASE Start(c)
  <2>1. /\ bufSize' = conf[c].size /\ UNCHANGED <<hpc, buffer>>
        /\ cpc' = [cpc EXCEPT ![c] = "open"]
        /\ ~(Running(d) /\ conf[d].size # conf[c].size)
    BY <1>3, <1>0 DEF Start, ClientGoto, handlerVars
  <2>2. Running(d)' => Running(d) \/ d = c
    BY <2>1 DEF Running, TypeOK
  <2> QED
    BY <1>0, <1>1, <2>1, <2>2
<1>4. CASE Alloc(c)
  <2>1. /\ hpc[c] = "alloc" /\ UNCHANGED <<bufSize, cpc>>
        /\ buffer' = [buffer EXCEPT ![c] = bufSize]
        /\ hpc' = [hpc EXCEPT ![c] = "copy"]
    BY <1>4 DEF Alloc, Goto, clientVars
  <2>2. CASE d = c
    <3>1. Running(d) /\ buffer'[d] = bufSize
      BY <2>1, <2>2, <1>2 DEF TypeOK
    <3> QED
      BY <1>0, <1>1, <2>1, <3>1
  <2>3. CASE d # c
    BY <1>0, <1>1, <2>1, <2>3 DEF Running, TypeOK
  <2> QED
    BY <2>2, <2>3
<1>5. CASE ~Start(c) /\ ~Alloc(c)
  <2>1. UNCHANGED <<bufSize, buffer>>
    BY <1>5 DEF Client, Handler, OpenStream, WriteRequest, ReadReply, WritesDone, Finish,
                FirstRequest, OpenLarge, NextRequest, OpenSmall, CallFails, Copy, Write,
                Corrupt, Close, Reply, handlerVars
  <2>2. Running(d)' => Running(d)
    BY <1>5 DEF Client, Handler, OpenStream, WriteRequest, ReadReply, WritesDone, Finish,
                FirstRequest, OpenLarge, NextRequest, OpenSmall, CallFails, Copy, Write,
                Corrupt, Close, Reply, clientVars, ClientGoto, Running, TypeOK
  <2>3. hpc'[d] \in {"copy", "write"} => hpc[d] \in {"copy", "write"}
    <3>1. CASE d # c
      BY <3>1, OthersKeep
    <3>2. CASE d = c
      BY <3>2, <1>5 DEF Client, Handler, OpenStream, WriteRequest, ReadReply, WritesDone, Finish,
                FirstRequest, OpenLarge, NextRequest, OpenSmall, CallFails, Copy, Write,
                Corrupt, Close, Reply, handlerVars, Goto, TypeOK
    <3> QED
      BY <3>1, <3>2
  <2> QED
    BY <1>0, <1>1, <2>1, <2>2, <2>3
<1> QED
  BY <1>3, <1>4, <1>5

(* Only the copy and the write of a disturbed call pass an end.            *)
LEMMA OverrunStep ==
  ASSUME TypeOK, NEW c \in Clients, Client(c) \/ Handler(c), Lockstep(c), SizeInv(c), corrupt = {}
  PROVE  NoOverrun'
<1>1. CASE Corrupt(c) /\ (Copy(c) \/ Write(c))
  <2>1. /\ corrupt' = {c} /\ UNCHANGED <<conf, bufSize, disturbed>>
    BY <1>1 DEF Corrupt
  <2>2. /\ hpc[c] \in {"copy", "write"}
        /\ ~(bufSize <= buffer[c] /\ bufSize <= request[c].data)
    <3>1. CASE Copy(c)
      <4>1. hpc'[c] # "write"
        BY <1>1, <3>1 DEF Corrupt, Copy, handlerVars
      <4> QED
        BY <3>1, <4>1 DEF Copy, Goto, TypeOK
    <3>2. CASE Write(c)
      <4>1. hpc' = hpc /\ hpc[c] = "write"
        BY <1>1, <3>2 DEF Corrupt, Write, handlerVars
      <4>2. ~(bufSize > buffer[c]) => hpc'[c] \in {"bad", "reply", "close"}
        BY <3>2 DEF Write, Goto, TypeOK
      <4> QED
        BY <4>1, <4>2, ClientTypes
    <3> QED
      BY <1>1, <3>1, <3>2
  <2>3. ASSUME Regular(c) PROVE FALSE
    <3>1. ~disturbed[c] /\ conf[c].n > 0
      BY <2>3 DEF Regular
    <3>2. Busy(c) /\ Running(c)
      BY <2>2 DEF Busy, Running, Lockstep, Returned
    <3>3. bufSize = conf[c].size /\ buffer[c] = conf[c].size
      BY <3>1, <3>2, <2>2 DEF SizeInv
    <3>4. request[c].data = conf[c].size
      BY <3>1, <3>2, AckedBound
    <3> QED
      BY <3>3, <3>4, <2>2, ClientTypes
  <2> QED
    BY <2>1, <2>3 DEF NoOverrun, Regular
<1>2. CASE ~(Corrupt(c) /\ (Copy(c) \/ Write(c)))
  <2>1. corrupt' = {}
    BY <1>2 DEF Client, Handler, Start, OpenStream, WriteRequest, ReadReply, WritesDone, Finish,
                FirstRequest, OpenLarge, NextRequest, OpenSmall, Alloc, CallFails, Copy, Write,
                Close, Reply
  <2> QED
    BY <2>1 DEF NoOverrun
<1> QED
  BY <1>1, <1>2

-----------------------------------------------------------------------------
(* A step that leaves the files alone keeps what they hold of a call that  *)
(* is answered for no more.                                                *)
LEMMA FileKept ==
  ASSUME NEW d \in Clients, FileInv(d), conf' = conf, file' = file,
         Acked(d)' = Acked(d), disturbed[d] => disturbed'[d],
         hpc'[d] \in {"close", "reply"} => hpc[d] \in {"close", "reply"},
         hpc[d] \in {"close", "reply", "bad"} => hpc'[d] \in {"close", "reply", "bad"}
  PROVE  FileInv(d)'
<1> SUFFICES ASSUME Regular(d)'
             PROVE  FileInv(d)'
  BY DEF FileInv
<1>1. Regular(d)
  BY DEF Regular
<1>2. \A k : OnFile(d, k)' <=> OnFile(d, k)
  BY DEF OnFile, By, Home, Large
<1>3. \A f, i : By(d, f, i)' <=> By(d, f, i)
  BY DEF By
<1>4. \A k : Home(d, k)' = Home(d, k)
  BY DEF Home, Large
<1> QED
  BY <1>1, <1>2, <1>3, <1>4 DEF FileInv

(* Truncating the large file disturbs every call that has written to it.   *)
LEMMA FileTruncated ==
  ASSUME TypeOK, NEW c \in Clients, OpenLarge(c), file' # file,
         NEW d \in Clients, Lockstep(d), FileInv(d)
  PROVE  FileInv(d)'
<1> SUFFICES ASSUME Regular(d)'
             PROVE  FileInv(d)'
  BY DEF FileInv
<1>1. /\ hpc[c] = "openlarge" /\ hpc' = [hpc EXCEPT ![c] = "alloc"]
      /\ UNCHANGED <<conf, got, replies>>
      /\ file' = [file EXCEPT ![LargeFile] = <<>>]
      /\ disturbed' = [e \in Clients |->
             disturbed[e] \/ \E i \in 1 .. Len(file[LargeFile]) : file[LargeFile][i].who = e]
  BY DEF OpenLarge, Goto, clientVars, streamVars
<1>2. ~disturbed[d] /\ \A i : ~By(d, LargeFile, i)
  BY <1>1 DEF Regular, By
<1>3. Regular(d) /\ conf[d].n > 0
  BY <1>1, <1>2 DEF Regular
<1>4. /\ Acked(d) \in Nat /\ Acked(d) <= conf[d].n /\ conf[d].n \in Nat
      /\ conf[d].n <= MaxN /\ MaxN \in Nat /\ Acked(d)' = Acked(d)
  BY <1>1, <1>3, AckedBound, ClientTypes DEF Acked
<1>5. file \in [Names -> Seq(Entry)] /\ LargeFile = 0 /\ LargeFile \in Names
  BY <1>4 DEF TypeOK, LargeFile, Names
<1>6. /\ Len(file'[LargeFile]) = 0
      /\ \A f \in Names \ {0} : file'[f] = file[f]
  BY <1>1, <1>5, EmptyFacts
<1>7. \A f \in Names : \A i : By(d, f, i)' => f # 0 /\ By(d, f, i)
  BY <1>5, <1>6 DEF By
<1>8. \A k : Home(d, k)' = Home(d, k) /\ (Large(d)' <=> Large(d))
  BY <1>1 DEF Home, Large
<1>9. \A k \in 1 .. Acked(d) : OnFile(d, k)'
  <2> SUFFICES ASSUME NEW k \in 1 .. Acked(d) PROVE OnFile(d, k)'
    OBVIOUS
  <2>1. PICK i \in 1 .. Len(file[Home(d, k)]) :
           /\ By(d, Home(d, k), i)
           /\ file[Home(d, k)][i].no = k /\ (file[Home(d, k)][i].full \/ Large(d))
    BY <1>3 DEF FileInv, OnFile
  <2>2. ~Large(d) /\ Home(d, k) = k
    BY <2>1, <1>2 DEF Home
  <2>3. k \in Names \ {0}
    BY <1>4 DEF Names
  <2>4. file'[k] = file[k]
    BY <2>3, <1>6
  <2>5. Home(d, k)' = k /\ file'[Home(d, k)'] = file[Home(d, k)]
    BY <2>2, <2>4, <1>8
  <2> QED
    BY <2>1, <2>2, <2>5, <1>8 DEF OnFile, By
<1>10. /\ hpc'[d] \notin {"close", "reply"} \/ (d # c /\ hpc'[d] = hpc[d])
       /\ hpc[d] \in {"close", "reply", "bad"} => hpc'[d] = hpc[d]
  BY <1>1 DEF TypeOK
<1>11. \A f \in Names : \A i \in 1 .. Len(file'[f]) : By(d, f, i)' =>
         /\ file'[f][i].no \in 1 .. Acked(d)' + 1 /\ f = Home(d, file'[f][i].no)
         /\ file'[f][i].no = Acked(d)' + 1 => hpc'[d] \in {"close", "reply", "bad"}
  BY <1>3, <1>4, <1>6, <1>7, <1>8, <1>10 DEF FileInv
<1>12. \A f \in Names : \A i, j \in 1 .. Len(file'[f]) :
         By(d, f, i)' /\ By(d, f, j)' /\ file'[f][i].no = file'[f][j].no => i = j
  BY <1>3, <1>6, <1>7 DEF FileInv
<1>13. ASSUME hpc'[d] \in {"close", "reply"} PROVE OnFile(d, Acked(d) + 1)'
  <2>1. hpc[d] \in {"close", "reply"} /\ Busy(d)
    BY <1>10, <1>13 DEF Busy
  <2>2. Acked(d) + 1 \in Names \ {0}
    BY <2>1, <1>3, AckedBound
  <2> DEFINE k == Acked(d) + 1
  <2>3. OnFile(d, k)
    BY <2>1, <1>3 DEF FileInv
  <2>4. PICK i \in 1 .. Len(file[Home(d, k)]) :
           /\ By(d, Home(d, k), i)
           /\ file[Home(d, k)][i].no = k /\ (file[Home(d, k)][i].full \/ Large(d))
    BY <2>3 DEF OnFile
  <2>5. ~Large(d) /\ Home(d, k) = k
    BY <2>4, <1>2 DEF Home
  <2>6. file'[k] = file[k]
    BY <2>2, <1>6
  <2>7. Home(d, k)' = k /\ file'[k] = file[Home(d, k)]
    BY <2>5, <2>6, <1>8, <1>4
  <2>8. k' = k
    BY <1>4
  <2>9. OnFile(d, k)'
    BY <2>4, <2>5, <2>7, <2>8, <1>8 DEF OnFile, By
  <2> QED
    BY <2>8, <2>9, <1>4
<1> QED
  BY <1>4, <1>8, <1>9, <1>11, <1>12, <1>13 DEF FileInv, Home

(* A write adds one entry, at the end of its handler's file.               *)
LEMMA Appended ==
  ASSUME TypeOK, NEW c \in Clients, Lockstep(c), NEW full \in BOOLEAN,
         file' = [file EXCEPT ![Target(c)] =
                    Append(@, [who |-> c, no |-> request[c].no, full |-> full])]
  PROVE  /\ Target(c) \in Names
         /\ \A f \in Names : \A i \in 1 .. Len(file[f]) :
              i \in 1 .. Len(file'[f]) /\ file'[f][i] = file[f][i]
         /\ \A f \in Names : \A i \in 1 .. Len(file'[f]) :
              \/ i \in 1 .. Len(file[f])
              \/ f = Target(c) /\ i = Len(file[f]) + 1
         /\ Len(file[Target(c)]) + 1 \in 1 .. Len(file'[Target(c)])
         /\ file'[Target(c)][Len(file[Target(c)]) + 1] =
              [who |-> c, no |-> request[c].no, full |-> full]
<1> DEFINE e == [who |-> c, no |-> request[c].no, full |-> full]
           t == Target(c)
<1>1. t \in Names /\ file \in [Names -> Seq(Entry)] /\ request[c].no \in Nat
  BY TargetExists, ClientTypes DEF TypeOK
<1>2. e \in Entry /\ file[t] \in Seq(Entry)
  BY <1>1 DEF Entry
<1> HIDE DEF e, t
<1>3. /\ Len(file[t]) \in Nat
      /\ Len(Append(file[t], e)) = Len(file[t]) + 1
      /\ \A i \in 1 .. Len(file[t]) : Append(file[t], e)[i] = file[t][i]
      /\ Append(file[t], e)[Len(file[t]) + 1] = e
  BY <1>2, AppendFacts
<1>4. file' = [file EXCEPT ![t] = Append(@, e)]
  BY DEF e, t
<1>5. /\ file'[t] = Append(file[t], e)
      /\ \A f \in Names : f # t => file'[f] = file[f]
  BY <1>1, <1>4
<1>6. \A f \in Names : Len(file[f]) \in Nat
  BY <1>1
<1>7. \A f \in Names : \A i \in 1 .. Len(file[f]) :
              i \in 1 .. Len(file'[f]) /\ file'[f][i] = file[f][i]
  BY <1>3, <1>5
<1>8. \A f \in Names : \A i \in 1 .. Len(file'[f]) :
              \/ i \in 1 .. Len(file[f])
              \/ f = t /\ i = Len(file[f]) + 1
  BY <1>3, <1>5
<1>9. Len(file[t]) + 1 \in 1 .. Len(file'[t]) /\ file'[t][Len(file[t]) + 1] = e
  BY <1>3, <1>5
<1> QED
  BY <1>1, <1>7, <1>8, <1>9 DEF e, t

(* It is the handler's next one, and nobody else's.                        *)
LEMMA FileWritten ==
  ASSUME TypeOK, NEW c \in Clients, Write(c), file' # file, Lockstep(c),
         NEW d \in Clients, Lockstep(d), FileInv(d)
  PROVE  FileInv(d)'
<1> SUFFICES ASSUME Regular(d)'
             PROVE  FileInv(d)'
  BY DEF FileInv
<1>1. PICK full \in BOOLEAN :
        /\ file' = [file EXCEPT ![Target(c)] =
                      Append(@, [who |-> c, no |-> request[c].no, full |-> full])]
        /\ Goto(c, IF ~full /\ ~ShortIsGood(c) THEN "bad"
                   ELSE IF Large(c) THEN "reply" ELSE "close")
  BY DEF Write, Corrupt
<1>2. hpc[c] = "write" /\ UNCHANGED <<conf, got, replies, disturbed>>
  BY DEF Write, Corrupt, clientVars, streamVars
<1> DEFINE t == Target(c)
           new == Len(file[t]) + 1
           e == [who |-> c, no |-> request[c].no, full |-> full]
<1>3. /\ t \in Names
      /\ \A f \in Names : \A i \in 1 .. Len(file[f]) :
           i \in 1 .. Len(file'[f]) /\ file'[f][i] = file[f][i]
      /\ \A f \in Names : \A i \in 1 .. Len(file'[f]) :
           i \in 1 .. Len(file[f]) \/ (f = t /\ i = new)
      /\ new \in 1 .. Len(file'[t])
      /\ file'[t][new] = e
  BY <1>1, Appended
<1>4. e.who = c /\ e.no = request[c].no /\ e.full = full
  OBVIOUS
<1>5. Regular(d) /\ conf[d].n > 0
  BY <1>2 DEF Regular
<1>6. /\ Acked(d) \in Nat /\ Acked(d)' = Acked(d)
      /\ \A k : Home(d, k)' = Home(d, k) /\ (Large(d)' <=> Large(d))
  BY <1>2, <1>5, AckedBound DEF Acked, Home, Large
<1>7. new \notin 1 .. Len(file[t])
  BY <1>3 DEF TypeOK
<1>8. ASSUME NEW k \in 1 .. Acked(d) + 1, OnFile(d, k), Home(d, k) \in Names
      PROVE  OnFile(d, k)'
  <2>1. PICK i \in 1 .. Len(file[Home(d, k)]) :
           /\ By(d, Home(d, k), i)
           /\ file[Home(d, k)][i].no = k /\ (file[Home(d, k)][i].full \/ Large(d))
    BY <1>8 DEF OnFile
  <2>2. /\ i \in 1 .. Len(file'[Home(d, k)])
        /\ file'[Home(d, k)][i] = file[Home(d, k)][i]
    BY <1>8, <2>1, <1>3
  <2>3. Home(d, k)' = Home(d, k) /\ (Large(d)' <=> Large(d))
    BY <1>6
  <2> QED
    BY <2>1, <2>2, <2>3 DEF OnFile, By
<1>9. \A k \in 1 .. Acked(d) : Home(d, k) \in Names
  <2>1. Acked(d) <= conf[d].n /\ conf[d].n \in Nat /\ conf[d].n <= MaxN /\ MaxN \in Nat
    BY <1>5, AckedBound, ClientTypes
  <2> QED
    BY <1>6, <2>1 DEF Home, Names, LargeFile
<1>10. \A k \in 1 .. Acked(d) : OnFile(d, k)'
  BY <1>5, <1>6, <1>8, <1>9 DEF FileInv
<1>11. CASE d # c
  <2>1. hpc'[d] = hpc[d]
    BY <1>11, <1>1 DEF Goto, TypeOK
  <2>2. \A f \in Names : \A i : By(d, f, i)' => By(d, f, i) /\ file'[f][i] = file[f][i]
    BY <1>3, <1>4, <1>11 DEF By
  <2>3. \A f \in Names : \A i \in 1 .. Len(file'[f]) : By(d, f, i)' =>
         /\ file'[f][i].no \in 1 .. Acked(d) + 1 /\ f = Home(d, file'[f][i].no)
         /\ file'[f][i].no = Acked(d) + 1 => hpc'[d] \in {"close", "reply", "bad"}
    BY <1>5, <2>1, <2>2 DEF FileInv, By
  <2>4. \A f \in Names : \A i, j \in 1 .. Len(file'[f]) :
         By(d, f, i)' /\ By(d, f, j)' /\ file'[f][i].no = file'[f][j].no => i = j
    BY <1>5, <2>2 DEF FileInv, By
  <2>5. ASSUME hpc'[d] \in {"close", "reply"} PROVE OnFile(d, Acked(d) + 1)'
    <3>1. Busy(d) /\ OnFile(d, Acked(d) + 1)
      BY <2>1, <2>5, <1>5 DEF Busy, FileInv
    <3>2. Acked(d) + 1 \in Names /\ 0 \in Names
      BY <3>1, <1>5, AckedBound, ClientTypes DEF Names
    <3>3. Home(d, Acked(d) + 1) \in Names
      BY <3>2 DEF Home, LargeFile
    <3>4. Acked(d) + 1 \in 1 .. Acked(d) + 1
      BY <1>6
    <3>5. \A k \in 1 .. Acked(d) + 1 : k = Acked(d) + 1 => OnFile(d, k)'
      BY <3>1, <3>3, <1>8
    <3>6. \A k : k = Acked(d) + 1 => OnFile(d, k)'
      BY <3>4, <3>5
    <3> QED
      BY <3>6, <1>6
  <2> QED
    BY <1>6, <1>10, <2>3, <2>4, <2>5 DEF FileInv, Home
<1>12. CASE d = c
  <2>1. Busy(c)
    BY <1>2 DEF Busy
  <2>2. request[c].no = Acked(c) + 1 /\ t = Home(c, Acked(c) + 1)
    BY <2>1, <1>5, <1>12, AckedBound DEF Target, Home
  <2>3. hpc'[c] \in {"close", "reply", "bad"}
    BY <1>1 DEF Goto, TypeOK
  <2>4. hpc'[c] \in {"close", "reply"} => full \/ Large(c)
    BY <1>1 DEF Goto, TypeOK, ShortIsGood
  <2>5. \A f \in Names : \A i : By(c, f, i)' =>
           \/ By(c, f, i) /\ file'[f][i] = file[f][i]
           \/ f = t /\ i = new /\ file'[f][i].no = Acked(c) + 1
    BY <1>3, <1>4, <2>2 DEF By
  <2>6. \A f \in Names : \A i \in 1 .. Len(file[f]) : By(c, f, i) =>
           file[f][i].no \in 1 .. Acked(c) /\ f = Home(c, file[f][i].no)
    BY <1>2, <1>5, <1>6, <1>12 DEF FileInv
  <2>7. \A f \in Names : \A i \in 1 .. Len(file'[f]) : By(d, f, i)' =>
         /\ file'[f][i].no \in 1 .. Acked(d) + 1 /\ f = Home(d, file'[f][i].no)
         /\ file'[f][i].no = Acked(d) + 1 => hpc'[d] \in {"close", "reply", "bad"}
    <3> SUFFICES ASSUME NEW f \in Names, NEW i \in 1 .. Len(file'[f]), By(c, f, i)'
                 PROVE  file'[f][i].no \in 1 .. Acked(c) + 1 /\ f = Home(c, file'[f][i].no)
      BY <1>12, <2>3
    <3>1. CASE By(c, f, i) /\ file'[f][i] = file[f][i]
      BY <3>1, <2>6, <1>6, <1>12 DEF By
    <3>2. CASE f = t /\ i = new /\ file'[f][i].no = Acked(c) + 1
      BY <3>2, <2>2, <1>6, <1>12
    <3> QED
      BY <3>1, <3>2, <2>5
  <2>8. \A f \in Names : \A i, j \in 1 .. Len(file'[f]) :
         By(d, f, i)' /\ By(d, f, j)' /\ file'[f][i].no = file'[f][j].no => i = j
    <3> SUFFICES ASSUME NEW f \in Names, NEW i \in 1 .. Len(file'[f]),
                        NEW j \in 1 .. Len(file'[f]), By(c, f, i)', By(c, f, j)',
                        file'[f][i].no = file'[f][j].no
                 PROVE  i = j
      BY <1>12
    <3>1. ASSUME NEW k \in 1 .. Len(file'[f]), By(c, f, k), file'[f][k] = file[f][k]
          PROVE  file'[f][k].no # Acked(c) + 1 /\ k \in 1 .. Len(file[f])
      BY <3>1, <2>6, <1>6, <1>12 DEF By
    <3>2. CASE By(c, f, i) /\ file'[f][i] = file[f][i] /\ By(c, f, j) /\ file'[f][j] = file[f][j]
      BY <3>1, <3>2, <1>5, <1>12 DEF FileInv
    <3>3. CASE i = new /\ j = new
      BY <3>3
    <3> QED
      BY <3>1, <3>2, <3>3, <2>5
  <2>9. ASSUME hpc'[d] \in {"close", "reply"} PROVE OnFile(d, Acked(d) + 1)'
    <3>1. full \/ Large(c)
      BY <2>4, <2>9, <1>12
    <3>2. \A k : k = Acked(c) + 1 => OnFile(c, k)'
      <4> SUFFICES ASSUME NEW k, k = Acked(c) + 1 PROVE OnFile(c, k)'
        OBVIOUS
      <4>1. Home(c, k)' = t /\ (Large(c)' <=> Large(c))
        BY <2>2, <1>6, <1>12
      <4>2. /\ new \in 1 .. Len(file'[t])
            /\ file'[t][new].who = c /\ file'[t][new].no = k
            /\ file'[t][new].full \/ Large(c)'
        BY <1>3, <1>4, <2>2, <3>1, <4>1
      <4> HIDE DEF t, new, e
      <4> QED
        BY <4>1, <4>2 DEF OnFile, By
    <3> QED
      BY <3>2, <1>6, <1>12
  <2> QED
    BY <1>6, <1>10, <2>7, <2>8, <2>9 DEF FileInv, Home
<1> QED
  BY <1>11, <1>12

(* Only open, write and reply change what a call has on the files, or what *)
(* it is answered for.                                                     *)
LEMMA FileStep ==
  ASSUME TypeOK, NEW c \in Clients, Client(c) \/ Handler(c), Lockstep(c),
         NEW d \in Clients, Lockstep(d), FileInv(d)
  PROVE  FileInv(d)'
<1>0. conf' = conf /\ (disturbed[d] => disturbed'[d])
  BY StaysDisturbed
<1>1. CASE file' # file
  <2>1. OpenLarge(c) \/ Write(c)
    BY <1>1 DEF Client, Handler, Start, OpenStream, WriteRequest, ReadReply, WritesDone, Finish,
                FirstRequest, NextRequest, OpenSmall, Alloc, CallFails, Copy, Corrupt, Close,
                Reply
  <2> QED
    BY <1>1, <2>1, FileTruncated, FileWritten
<1>2. CASE file' = file /\ d # c
  <2>1. hpc'[d] = hpc[d] /\ got'[d] = got[d] /\ replies'[d] = replies[d]
    BY <1>2, OthersKeep
  <2>2. Acked(d)' = Acked(d)
    BY <2>1 DEF Acked
  <2> QED
    BY <1>0, <1>2, <2>1, <2>2, FileKept
<1>3. CASE file' = file /\ d = c /\ ~Reply(c)
  <2>1. Acked(c)' = Acked(c)
    <3>0. got[c] \in Nat /\ replies[c] \in Nat
      BY ClientTypes
    <3>1. CASE ReadReply(c)
      <4>1. \/ replies'[c] = replies[c] - 1 /\ got'[c] = got[c] + 1
            \/ replies'[c] = replies[c] /\ got'[c] = got[c]
        BY <3>1 DEF ReadReply, TypeOK
      <4> QED
        BY <3>0, <4>1 DEF Acked
    <3>2. CASE ~ReadReply(c)
      <4>1. UNCHANGED <<got, replies>>
        BY <1>3, <3>2 DEF Client, Handler, Start, OpenStream, WriteRequest, WritesDone, Finish,
                FirstRequest, OpenLarge, NextRequest, OpenSmall, Alloc, CallFails, Copy, Write,
                Corrupt, Close, clientVars, streamVars
      <4> QED
        BY <4>1 DEF Acked
    <3> QED
      BY <3>1, <3>2
  <2>2. /\ hpc'[c] \in {"close", "reply"} => hpc[c] \in {"close", "reply"}
        /\ hpc[c] \in {"close", "reply", "bad"} => hpc'[c] \in {"close", "reply", "bad"}
    <3>1. CASE Client(c)
      <4>1. CASE OpenStream(c)
        <5>1. hpc[c] = "none" /\ hpc'[c] \in {"first", "read"}
          BY <4>1 DEF OpenStream, TypeOK, Lockstep
        <5> QED
          BY <5>1
      <4>2. CASE ~OpenStream(c)
        BY <3>1, <4>2 DEF Client, Start, WriteRequest, ReadReply, WritesDone, Finish,
                          handlerVars
      <4> QED
        BY <4>1, <4>2
    <3>2. CASE Write(c)
      <4>1. file' = file
        BY <1>3
      <4>2. ASSUME NEW full \in BOOLEAN
            PROVE  file' # [file EXCEPT ![Target(c)] =
                              Append(@, [who |-> c, no |-> request[c].no, full |-> full])]
        <5> SUFFICES ASSUME file' = [file EXCEPT ![Target(c)] =
                              Append(@, [who |-> c, no |-> request[c].no, full |-> full])]
                     PROVE  FALSE
          OBVIOUS
        <5>1. /\ Target(c) \in Names
              /\ Len(file[Target(c)]) + 1 \in 1 .. Len(file'[Target(c)])
          BY Appended
        <5>2. Len(file[Target(c)]) \in Nat
          BY <5>1 DEF TypeOK
        <5> QED
          BY <4>1, <5>1, <5>2
      <4>3. hpc[c] = "write" /\ (hpc' = hpc \/ hpc'[c] = "bad")
        BY <3>2, <4>2 DEF Write, Corrupt, handlerVars, Goto, TypeOK
      <4> QED
        BY <4>3
    <3>3. CASE Handler(c) /\ ~Write(c)
      <4>1. CASE Copy(c)
        BY <4>1 DEF Copy, Corrupt, handlerVars, Goto, TypeOK
      <4>2. CASE ~Copy(c)
        BY <3>3, <4>2, <1>3 DEF Handler, FirstRequest, OpenLarge, NextRequest, OpenSmall, Alloc,
                CallFails, Close, Goto, TypeOK
      <4> QED
        BY <4>1, <4>2
    <3> QED
      BY <3>1, <3>2, <3>3
  <2> QED
    BY <1>0, <1>3, <2>1, <2>2, FileKept
<1>4. CASE d = c /\ Reply(c)
  <2> SUFFICES ASSUME Regular(c)'
               PROVE  FileInv(c)'
    BY <1>4 DEF FileInv
  <2>1. /\ hpc[c] = "reply" /\ hpc'[c] = "read" /\ replies'[c] = replies[c] + 1
        /\ UNCHANGED <<conf, got, file, disturbed>>
    BY <1>4 DEF Reply, Goto, clientVars, TypeOK
  <2>2. Acked(c) \in Nat /\ Acked(c)' = Acked(c) + 1
    BY <2>1, ClientTypes DEF Acked
  <2>3. Regular(c)
    BY <2>1 DEF Regular
  <2>4. /\ \A k : OnFile(c, k)' <=> OnFile(c, k)
        /\ \A k : Home(c, k)' = Home(c, k)
        /\ \A f, i : By(c, f, i)' <=> By(c, f, i)
    BY <2>1 DEF OnFile, By, Home, Large
  <2>5. \A k \in 1 .. Acked(c) + 1 : OnFile(c, k)
    <3>1. \A k \in 1 .. Acked(c) + 1 : k \in 1 .. Acked(c) \/ k = Acked(c) + 1
      BY <2>2
    <3> QED
      BY <3>1, <2>1, <2>3, <1>4 DEF FileInv
  <2>6. \A f \in Names : \A i \in 1 .. Len(file[f]) : By(c, f, i) =>
          /\ file[f][i].no \in 1 .. (Acked(c) + 1) + 1 /\ f = Home(c, file[f][i].no)
          /\ file[f][i].no # (Acked(c) + 1) + 1
    BY <2>2, <2>3, <1>4 DEF FileInv
  <2>7. \A f \in Names : \A i, j \in 1 .. Len(file[f]) :
          By(c, f, i) /\ By(c, f, j) /\ file[f][i].no = file[f][j].no => i = j
    BY <2>3, <1>4 DEF FileInv
  <2> QED
    BY <2>1, <2>2, <2>4, <2>5, <2>6, <2>7 DEF FileInv
<1> QED
  BY <1>1, <1>2, <1>3, <1>4 DEF Reply

-----------------------------------------------------------------------------
(* The invariant holds before the first client starts.                     *)
LEMMA InitBlocking == Init => BlockingInv
<1> SUFFICES ASSUME Init PROVE BlockingInv
  OBVIOUS
<1>1. TypeOK
  <2>1. conf \in Confs /\ MaxN \in Nat
    BY BlockingAssumption DEF Init
  <2>2. NoRequest \in [no : Nat, data : Nat]
    BY DEF NoRequest
  <2>3. <<>> \in Seq(Entry) /\ <<>> \in Seq([no : Nat, data : Nat])
    BY EmptyFacts
  <2> QED
    BY <2>1, <2>2, <2>3 DEF Init, TypeOK
<1>2. NoOverrun
  BY DEF Init, NoOverrun
<1>3. ASSUME NEW c \in Clients PROVE Lockstep(c) /\ SizeInv(c) /\ FileInv(c)
  <2>1. conf[c].n \in Nat
    BY <1>1, ClientTypes
  <2>2. /\ cpc[c] = "params" /\ hpc[c] = "none" /\ sent[c] = 0 /\ got[c] = 0 /\ replies[c] = 0
        /\ request[c].no = 0 /\ wire[c] = <<>>
    BY DEF Init, NoRequest
  <2>3. Lockstep(c)
    BY <2>1, <2>2 DEF Lockstep, Closed, Returned
  <2>4. SizeInv(c)
    BY <2>2 DEF SizeInv, Running
  <2>5. \A f \in Names : file[f] = <<>> /\ Len(file[f]) = 0
    BY EmptyFacts DEF Init
  <2>6. Acked(c) = 0
    BY <2>2 DEF Acked
  <2>7. \A f \in Names : \A i : ~By(c, f, i)
    BY <2>5 DEF By
  <2>8. FileInv(c)
    BY <2>2, <2>6, <2>7 DEF FileInv
  <2> QED
    BY <2>3, <2>4, <2>8
<1> QED
  BY <1>1, <1>2, <1>3 DEF BlockingInv

(* Every step keeps the invariant, of the call it belongs to and of all    *)
(* others.                                                                 *)
LEMMA NextBlocking == BlockingInv /\ [Next]_vars => BlockingInv'
<1> SUFFICES ASSUME BlockingInv, [Next]_vars PROVE BlockingInv'
  OBVIOUS
<1>0. TypeOK /\ \A d \in Clients : Lockstep(d) /\ SizeInv(d) /\ FileInv(d)
  BY DEF BlockingInv
<1>1. CASE Next
  <2>1. PICK c \in Clients : corrupt = {} /\ (Client(c) \/ Handler(c))
    BY <1>1 DEF Next
  <2>2. TypeOK'
    BY <1>0, <2>1, TypeStep
  <2>3. NoOverrun'
    BY <1>0, <2>1, OverrunStep
  <2>4. \A d \in Clients : Lockstep(d)'
    BY <1>0, <2>1, LockstepStep
  <2>5. \A d \in Clients : SizeInv(d)'
    BY <1>0, <2>1, SizeStep
  <2>6. \A d \in Clients : FileInv(d)'
    BY <1>0, <2>1, FileStep
  <2> QED
    BY <2>2, <2>3, <2>4, <2>5, <2>6 DEF BlockingInv
<1>2. CASE UNCHANGED vars
  <2>1. UNCHANGED <<conf, corrupt, bufSize, cpc, sent, got, wire, replies, hpc, request, fd,
                    buffer, file, disturbed>>
    BY <1>2 DEF vars, clientVars, streamVars, handlerVars
  <2>2. TypeOK'
    BY <1>0, <2>1 DEF TypeOK
  <2>3. NoOverrun'
    BY <2>1 DEF BlockingInv, NoOverrun, Regular
  <2>4. ASSUME NEW d \in Clients PROVE Lockstep(d)' /\ SizeInv(d)' /\ FileInv(d)'
    <3>1. Lockstep(d)'
      BY <1>0, <2>1 DEF Lockstep, Closed, Idle, Asked, Handled, Answered, Over, Waiting, Busy,
                        Message, Returned
    <3>2. SizeInv(d)'
      BY <1>0, <2>1 DEF SizeInv, Running
    <3>3. Acked(d)' = Acked(d)
      BY <2>1 DEF Acked
    <3> QED
      BY <1>0, <2>1, <3>1, <3>2, <3>3, FileKept
  <2> QED
    BY <2>2, <2>3, <2>4 DEF BlockingInv
<1> QED
  BY <1>1, <1>2

(* The invariant always holds.                                             *)
LEMMA BlockingAlways == Spec => []BlockingInv
BY InitBlocking, NextBlocking, PTL DEF Spec

-----------------------------------------------------------------------------
(* The clients, the streams, the handlers and the files keep their types:  *)
(* a small handler names no file beyond the requests of its client.        *)
THEOREM BlockingTypeCorrect == Spec => []TypeOK
<1>1. BlockingInv => TypeOK
  BY DEF BlockingInv
<1> QED
  BY <1>1, BlockingAlways, PTL

(* The memcpy and the write of a handler stay within its buffer and its    *)
(* request, although both take the length from the shared buffer_size at   *)
(* another time than the allocation did: for any number of clients with    *)
(* any arguments, unless another size was set under the running call.      *)
THEOREM WithinBuffers == Spec => []NoOverrun
<1>1. BlockingInv => NoOverrun
  BY DEF BlockingInv
<1> QED
  BY <1>1, BlockingAlways, PTL

(* The writes of a call are counted by their request numbers.              *)
LEMMA CountMine ==
  ASSUME BlockingInv, NEW c \in Clients, Regular(c)
  PROVE  Cardinality(Mine(c)) \in got[c] .. got[c] + 1
<1> DEFINE No == [x \in Mine(c) |-> file[x[1]][x[2]].no]
           a == Acked(c)
<1>0. TypeOK /\ Lockstep(c) /\ FileInv(c) /\ conf[c].n > 0
  BY DEF BlockingInv, Regular
<1>1. /\ a \in Nat /\ got[c] \in Nat /\ replies[c] \in 0 .. 1 /\ a = got[c] + replies[c]
      /\ replies[c] = 1 => hpc[c] = "read"
  BY <1>0, AckedBound, ClientTypes DEF Acked
<1>2. \A x \in Mine(c) : /\ x[1] \in Names /\ x[2] \in 1 .. Len(file[x[1]]) /\ x = <<x[1], x[2]>>
                         /\ By(c, x[1], x[2])
  BY DEF Mine, Places, By
<1>3. \A f \in Names : \A i \in 1 .. Len(file[f]) : By(c, f, i) => <<f, i>> \in Mine(c)
  BY DEF Mine, Places, By
<1>4. \A x \in Mine(c) : /\ No[x] \in 1 .. a + 1 /\ x[1] = Home(c, No[x])
                         /\ No[x] = a + 1 => hpc[c] \in {"close", "reply", "bad"}
  BY <1>0, <1>2 DEF FileInv
<1>5. \A x, y \in Mine(c) : No[x] = No[y] => x = y
  <2> SUFFICES ASSUME NEW x \in Mine(c), NEW y \in Mine(c), No[x] = No[y] PROVE x = y
    OBVIOUS
  <2>1. x[1] = y[1]
    BY <1>4
  <2>2. x[2] = y[2]
    BY <2>1, <1>0, <1>2 DEF FileInv
  <2> QED
    BY <2>1, <2>2, <1>2
<1>6. \A k \in 1 .. a : \E x \in Mine(c) : No[x] = k
  <2> SUFFICES ASSUME NEW k \in 1 .. a PROVE \E x \in Mine(c) : No[x] = k
    OBVIOUS
  <2>1. PICK i \in 1 .. Len(file[Home(c, k)]) :
           By(c, Home(c, k), i) /\ file[Home(c, k)][i].no = k
    BY <1>0 DEF FileInv, OnFile
  <2>2. Home(c, k) \in Names
    <3>1. a <= conf[c].n /\ conf[c].n \in Nat /\ conf[c].n <= MaxN /\ MaxN \in Nat
      BY <1>0, AckedBound, ClientTypes
    <3> QED
      BY <1>1, <3>1 DEF Home, Names, LargeFile
  <2>3. <<Home(c, k), i>> \in Mine(c)
    BY <2>1, <2>2, <1>3
  <2>4. No[<<Home(c, k), i>>] = k
    BY <2>1, <2>3
  <2> QED
    BY <2>3, <2>4
<1> HIDE DEF No, a
<1>7. ASSUME NEW b \in Nat, \A x \in Mine(c) : No[x] \in 1 .. b,
             \A k \in 1 .. b : \E x \in Mine(c) : No[x] = k
      PROVE  Cardinality(Mine(c)) = b
  <2>1. ExistsBijection(1 .. b, Mine(c))
    <3> DEFINE g == [k \in 1 .. b |-> CHOOSE x \in Mine(c) : No[x] = k]
    <3>1. \A k \in 1 .. b : g[k] \in Mine(c) /\ No[g[k]] = k
      BY <1>7
    <3>2. g \in [1 .. b -> Mine(c)]
      BY <3>1
    <3>3. \A x \in Mine(c) : g[No[x]] = x /\ No[x] \in 1 .. b
      BY <3>1, <1>5, <1>7
    <3> HIDE DEF g
    <3>4. DOMAIN g = 1 .. b
      BY <3>2
    <3>5. IsInjective(g)
      BY <3>1, <3>4 DEF IsInjective
    <3>6. g \in Bijection(1 .. b, Mine(c))
      BY <3>2, <3>3, <3>5 DEF Bijection, Injection, Surjection
    <3> QED
      BY <3>6 DEF ExistsBijection
  <2>2. IsFiniteSet(1 .. b) /\ Cardinality(1 .. b) = b
    <3>1. 1 \in Int /\ b \in Int
      BY <1>7
    <3>2. IsFiniteSet(1 .. b) /\ Cardinality(1 .. b) = IF 1 > b THEN 0 ELSE b - 1 + 1
      BY <3>1, FS_Interval
    <3> QED
      BY <3>2, <1>7
  <2> QED
    BY <2>1, <2>2, FS_Bijection
<1>8. CASE \E x \in Mine(c) : No[x] = a + 1
  <2>1. \A k \in 1 .. a + 1 : k \in 1 .. a \/ k = a + 1
    BY <1>1
  <2>2. a + 1 \in Nat
    BY <1>1
  <2>3. Cardinality(Mine(c)) = a + 1
    BY <1>4, <1>6, <1>7, <1>8, <2>1, <2>2
  <2>4. replies[c] = 0
    BY <1>1, <1>4, <1>8
  <2> QED
    BY <1>1, <2>3, <2>4
<1>9. CASE ~\E x \in Mine(c) : No[x] = a + 1
  <2>1. \A x \in Mine(c) : No[x] \in 1 .. a
    BY <1>1, <1>4, <1>9
  <2>2. Cardinality(Mine(c)) = a
    BY <1>1, <1>6, <1>7, <2>1
  <2> QED
    BY <1>1, <2>2
<1> QED
  BY <1>8, <1>9

(* What an undisturbed client has replies for is on the file, in its place *)
(* and once, for any number of clients: the lock step of test_*_blocking   *)
(* and the handlers' loops keep requests, writes and replies together.     *)
THEOREM AckedIsOnFile == Spec => []AckedOnFile
<1>1. BlockingInv => AckedOnFile
  <2> SUFFICES ASSUME BlockingInv, NEW c \in Clients, Regular(c), NEW k \in 1 .. got[c],
                      NEW f, f = IF Large(c) THEN LargeFile ELSE k
               PROVE  Cardinality({i \in 1 .. Len(file[f]) :
                        /\ file[f][i].who = c /\ file[f][i].no = k
                        /\ file[f][i].full \/ Large(c)}) = 1
    BY CountMine DEF AckedOnFile
  <2> DEFINE S == {i \in 1 .. Len(file[f]) :
                     /\ file[f][i].who = c /\ file[f][i].no = k
                     /\ file[f][i].full \/ Large(c)}
  <2>0. TypeOK /\ Lockstep(c) /\ FileInv(c) /\ conf[c].n > 0
    BY DEF BlockingInv, Regular
  <2>1. /\ Acked(c) \in Nat /\ Acked(c) <= conf[c].n /\ got[c] \in Nat /\ replies[c] \in Nat
        /\ conf[c].n \in Nat /\ conf[c].n <= MaxN /\ MaxN \in Nat
    BY <2>0, AckedBound, ClientTypes
  <2>2. k \in 1 .. Acked(c)
    BY <2>1 DEF Acked
  <2>3. f = Home(c, k) /\ f \in Names
    BY <2>1, <2>2 DEF Home, Names, LargeFile
  <2>4. PICK i \in 1 .. Len(file[f]) :
          By(c, f, i) /\ file[f][i].no = k /\ (file[f][i].full \/ Large(c))
    BY <2>0, <2>2, <2>3 DEF FileInv, OnFile
  <2>5. i \in S /\ \A j \in S : j = i
    BY <2>0, <2>3, <2>4 DEF FileInv, By
  <2> HIDE DEF S
  <2>6. S = {i}
    BY <2>5
  <2>7. Cardinality(S) = 1
    BY <2>6, FS_Singleton
  <2> QED
    BY <2>7 DEF S
<1> QED
  BY <1>1, BlockingAlways, PTL

=============================================================================
