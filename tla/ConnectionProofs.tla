-------------------------- MODULE ConnectionProofs --------------------------
(***************************************************************************)
(* Proofs about the two connections.  For TCPConnection, for every number  *)
(* and size of messages: the loops of send and recv implement the channel  *)
(* of whole messages, and the target writes the blocks as they were sent.  *)
(* For the RDMA connection, the three safety properties of its server.     *)
(*                                                                         *)
(* TCP's properties are not inductive.  A byte on the wire is identified   *)
(* by its place in the stream of its direction.  FlowInv says that the     *)
(* bytes on the wire follow those that the receiver has, without a gap, up *)
(* to those that the sender has handed over; PrefixInv that a receiver's   *)
(* buffer holds the beginning of its next message; and SyncInv that the    *)
(* target is at most one write behind its receives until the initiator is  *)
(* gone and the stream is empty.                                           *)
(***************************************************************************)
EXTENDS TcpConnection, RdmaConnection, TLAPS

(* The i-th message of an end.                                             *)
Nth(e, i) == IF e = "target" THEN Done ELSE i

(* The bytes that the loop in recv has handed to its caller or placed in   *)
(* the buffer.                                                             *)
Place(e) ==
  Len(received[e]) * InLen(e) + (IF pc[e] = "recv" THEN InLen(e) - left[e] ELSE 0)

(* The target has written what it has received, or is about to.            *)
Synced == Len(blocks) = IF pc["target"] = "write" THEN Len(received["target"]) - 1
                        ELSE Len(received["target"])

(* The end may still receive.                                              *)
Open(e) ==
  /\ link = "up"
  /\ IF e = "target" THEN pc[e] \in {"accept", "recv", "write"} /\ Synced
     ELSE pc[e] \in {"send", "recv"}

(* Byte b is the one at place x of the stream of end p.                    *)
At(p, x, b) ==
  \E q \in Nat, k \in 1 .. OutLen(p) :
    b = <<Nth(p, q + 1), k>> /\ q * OutLen(p) + k = x

(* The bytes that were handed over to the receiver or to TCP.              *)
Front(e) == Place(e) + Len(wire[e])

FlowInv(e) ==
  Open(e) =>
    /\ \A j \in 1 .. Len(wire[e]) : At(Peer(e), Place(e) + j, wire[e][j])
    /\ Len(accepted[Peer(e)]) * InLen(e) <= Front(e)
    /\ Front(e) < (Len(accepted[Peer(e)]) + 1) * InLen(e)
    /\ pc[Peer(e)] = "send" =>
         Front(e) = Len(accepted[Peer(e)]) * InLen(e) + (InLen(e) - left[Peer(e)])

PrefixInv(e) ==
  /\ pc[e] = "recv" =>
       \A j \in 1 .. InLen(e) - left[e] :
         buffer[e][j] = <<Nth(Peer(e), Len(received[e]) + 1), j>>
  /\ Len(received[e]) <= Len(accepted[Peer(e)])
  /\ \A i \in 1 .. Len(received[e]) : received[e][i] = Bytes(Nth(Peer(e), i))

SyncInv ==
  /\ pc["target"] \in {"recv", "write"} =>
       \/ Synced
       \/ /\ Gone("initiator") /\ wire["target"] = <<>>
          /\ Len(accepted["initiator"]) <= Len(received["target"])
          /\ Len(received["target"]) <= Len(blocks)
  /\ pc["target"] = "write" /\ Synced => buffer["target"] = Bytes(Len(received["target"]))
  /\ \A i \in 1 .. Len(blocks) :
       blocks[i] = Bytes(i) \/ (Gone("initiator") /\ Len(accepted["initiator"]) < i)

(* How far an end is in its program.                                       *)
EndInv(e) ==
  /\ pc[e] = "send" => left[e] \in 1 .. OutLen(e)
  /\ pc[e] = "recv" => left[e] \in 1 .. InLen(e)
  /\ \A i \in 1 .. Len(accepted[e]) : accepted[e][i] = Nth(e, i)
  /\ sock[e] = "open" => link # "none"
  /\ link = "none" => wire[e] = <<>> /\ accepted[e] = <<>> /\ received[e] = <<>>

(* How far the two are together.                                           *)
ProgramInv ==
  /\ \A e \in Ends : EndInv(e)
  /\ listening => pc["target"] = "accept"
  /\ pc["initiator"] \notin {"accept", "write"}
  /\ pc["initiator"] = "init" => link = "none" /\ sock["initiator"] = "none"
  /\ link = "up" /\ pc["initiator"] \in {"send", "recv"} => sock["initiator"] = "open"
  /\ pc["target"] \in {"init", "accept"} =>
       sock["target"] = "none" /\ blocks = <<>> /\ received["target"] = <<>>
  /\ link # "none" /\ sock["target"] = "none" => pc["target"] \in {"accept", "ended"}
  /\ sock["target"] = "closed" => Ended("target")
  /\ Len(accepted["initiator"]) <= N
  /\ pc["initiator"] = "send" => Len(accepted["initiator"]) < N
  /\ pc["initiator"] = "recv" => Len(accepted["initiator"]) = N
  /\ received["initiator"] # <<>> =>
       /\ Len(accepted["initiator"]) = N
       /\ Len(blocks) = N
       /\ pc["initiator"] \in {"close", "ended", "killed"}
  /\ Len(accepted["target"]) <= 1
  /\ accepted["target"] # <<>> => pc["target"] \in {"close", "ended", "killed"}
  /\ Len(blocks) <= N
  /\ pc["target"] \in {"recv", "write"} => Len(blocks) < N
  /\ pc["target"] = "send" /\ Usable("target") => Len(blocks) = N
  /\ wire["initiator"] # <<>> => Len(blocks) = N
  /\ pc["initiator"] = "recv" /\ left["initiator"] < DoneSize => Len(blocks) = N

TcpInv ==
  /\ TypeOK
  /\ ProgramInv
  /\ SyncInv
  /\ \A e \in Ends : FlowInv(e) /\ PrefixInv(e)

-----------------------------------------------------------------------------
(* Places in a stream of messages of one length.                           *)

(* One message more.                                                       *)
LEMMA MulSucc == \A a, L \in Nat : (a + 1) * L = a * L + L
OBVIOUS

(* A number of messages has a number of bytes.                             *)
LEMMA MulNat == \A a, L \in Nat : a * L \in Nat
OBVIOUS

(* More messages have more bytes.                                          *)
LEMMA MulLeq ==
  ASSUME NEW a \in Nat, NEW b \in Nat, NEW L \in Nat, a <= b
  PROVE  a * L <= b * L
OBVIOUS

(* Whole messages before a place in message b + 1 are at most b.           *)
LEMMA Less ==
  ASSUME NEW a \in Nat, NEW b \in Nat, NEW L \in Nat, a * L < (b + 1) * L
  PROVE  a <= b
<1> SUFFICES ASSUME b + 1 <= a PROVE FALSE
  OBVIOUS
<1>1. (b + 1) * L <= a * L
  BY MulLeq
<1>2. (b + 1) * L \in Nat /\ a * L \in Nat
  BY MulNat
<1> QED
  BY <1>1, <1>2

(* A place in the stream is a place in one message.                        *)
LEMMA Unique ==
  ASSUME NEW L \in Nat, NEW a \in Nat, NEW b \in Nat, NEW k \in 1 .. L, NEW l \in 1 .. L,
         a * L + k = b * L + l
  PROVE  a = b /\ k = l
<1>1. a * L \in Nat /\ b * L \in Nat /\ (a + 1) * L = a * L + L /\ (b + 1) * L = b * L + L
  BY MulSucc, MulNat
<1>2. a * L < (b + 1) * L /\ b * L < (a + 1) * L
  BY <1>1
<1>3. a <= b /\ b <= a
  BY <1>2, Less
<1> QED
  BY <1>3, <1>1

(* k more bytes of a message of L bytes of which l are left.               *)
LEMMA MoreBytes ==
  ASSUME NEW x \in Nat, NEW L \in Nat, NEW l \in 1 .. L, NEW k \in 1 .. l
  PROVE  /\ x <= x + (L - l) + k
         /\ k < l => x + (L - l) + k < x + L /\ x + (L - l) + k = x + (L - (l - k))
         /\ k = l => x + (L - l) + k = x + L
OBVIOUS

-----------------------------------------------------------------------------
(* Sequences.                                                              *)

(* What adding an element does.                                            *)
LEMMA AppendFacts ==
  ASSUME NEW S, NEW s \in Seq(S), NEW x \in S
  PROVE  /\ Append(s, x) \in Seq(S)
         /\ Len(s) \in Nat
         /\ Len(Append(s, x)) = Len(s) + 1
         /\ \A i \in 1 .. Len(s) : Append(s, x)[i] = s[i]
         /\ Append(s, x)[Len(s) + 1] = x
         /\ Append(s, x) # <<>>
OBVIOUS

(* Two sequences put together.                                             *)
LEMMA ConcatFacts ==
  ASSUME NEW S, NEW s \in Seq(S), NEW t \in Seq(S)
  PROVE  /\ s \o t \in Seq(S)
         /\ Len(s) \in Nat /\ Len(t) \in Nat
         /\ Len(s \o t) = Len(s) + Len(t)
         /\ \A i \in 1 .. Len(s) : (s \o t)[i] = s[i]
         /\ \A i \in 1 .. Len(t) : (s \o t)[Len(s) + i] = t[i]
OBVIOUS

(* What is left when k elements are taken off the front.                   *)
LEMMA RestFacts ==
  ASSUME NEW S, NEW s \in Seq(S), NEW k \in 1 .. Len(s)
  PROVE  /\ SubSeq(s, k + 1, Len(s)) \in Seq(S)
         /\ Len(s) \in Nat
         /\ Len(SubSeq(s, k + 1, Len(s))) = Len(s) - k
         /\ \A i \in 1 .. Len(s) - k : SubSeq(s, k + 1, Len(s))[i] = s[k + i]
OBVIOUS

(* A part of a sequence.                                                   *)
LEMMA SliceFacts ==
  ASSUME NEW S, NEW s \in Seq(S), NEW f \in Nat, NEW k \in Nat, k > 0, f + k <= Len(s)
  PROVE  /\ SubSeq(s, f + 1, f + k) \in Seq(S)
         /\ Len(SubSeq(s, f + 1, f + k)) = k
         /\ \A i \in 1 .. k : SubSeq(s, f + 1, f + k)[i] = s[f + i]
OBVIOUS

(* Only the empty sequence has length 0.                                   *)
LEMMA EmptyFacts ==
  ASSUME NEW S, NEW s \in Seq(S)
  PROVE  /\ Len(s) \in Nat /\ (s = <<>> <=> Len(s) = 0)
         /\ <<>> \in Seq(S) /\ Len(<<>>) = 0
OBVIOUS

-----------------------------------------------------------------------------
(* The ends and their messages.                                            *)

(* There are two ends, with messages of one length in each direction.      *)
LEMMA EndFacts ==
  ASSUME NEW e \in Ends
  PROVE  /\ Peer(e) \in Ends /\ Peer(e) # e /\ Peer(Peer(e)) = e
         /\ OutLen(e) = InLen(Peer(e)) /\ InLen(e) = OutLen(Peer(e))
         /\ InLen(e) \in Nat /\ InLen(e) > 0 /\ InLen(e) <= Size + DoneSize
         /\ OutLen(e) \in Nat /\ OutLen(e) > 0 /\ OutLen(e) <= Size + DoneSize
         /\ \A d \in Ends : d # e => d = Peer(e)
BY TcpAssumption DEF TcpAssumption, Ends, Peer, InLen, OutLen

(* The bytes of the i-th message of an end.                                *)
LEMMA BytesFacts ==
  ASSUME NEW e \in Ends, NEW i \in Nat, Nth(e, i) \in Messages, e = "initiator" => i <= N
  PROVE  /\ Bytes(Nth(e, i)) \in Seq(Byte)
         /\ Bytes(Nth(e, i)) \in Buffers
         /\ DOMAIN Bytes(Nth(e, i)) = 1 .. OutLen(e)
         /\ Len(Bytes(Nth(e, i))) = OutLen(e)
         /\ \A k \in 1 .. OutLen(e) : Bytes(Nth(e, i))[k] = <<Nth(e, i), k>>
<1> DEFINE m == Nth(e, i)
<1>0. N \in Nat /\ Size \in Nat \ {0} /\ DoneSize \in Nat \ {0}
  BY TcpAssumption DEF TcpAssumption
<1>1. (IF m = Done THEN DoneSize ELSE Size) = OutLen(e)
  BY <1>0 DEF Nth, Done, OutLen, Ends
<1>2. Bytes(m) = [k \in 1 .. OutLen(e) |-> <<m, k>>]
  BY <1>1 DEF Bytes
<1>3. OutLen(e) \in {Size, DoneSize} /\ OutLen(e) \in Nat
  BY <1>0 DEF OutLen
<1>4. \A k \in 1 .. OutLen(e) : <<m, k>> \in Byte
  BY <1>0, <1>3 DEF Byte
<1>5. Bytes(m) \in [1 .. OutLen(e) -> Byte]
  BY <1>2, <1>4
<1>6. Bytes(m) \in Seq(Byte) /\ Len(Bytes(m)) = OutLen(e)
  BY <1>2, <1>3, <1>5
<1> QED
  BY <1>2, <1>3, <1>5, <1>6 DEF Buffers

(* Two buffers with the same bytes are the same.                           *)
LEMMA SameBuffer ==
  ASSUME NEW a \in Buffers, NEW b \in Buffers, DOMAIN a = DOMAIN b,
         \A i \in DOMAIN a : a[i] = b[i]
  PROVE  a = b
<1>1. /\ a \in [1 .. Size -> Byte] \/ a \in [1 .. DoneSize -> Byte]
      /\ b \in [1 .. Size -> Byte] \/ b \in [1 .. DoneSize -> Byte]
  BY DEF Buffers
<1>2. a = [i \in DOMAIN a |-> a[i]] /\ b = [i \in DOMAIN b |-> b[i]]
  BY <1>1
<1>3. [i \in DOMAIN a |-> a[i]] = [i \in DOMAIN b |-> b[i]]
  OBVIOUS
<1> QED
  BY <1>2, <1>3, Zenon

Calls == {"init", "accept", "send", "recv", "write", "close", "ended", "killed"}

(* What a call changes when it begins.                                     *)
LEMMA GotoFacts ==
  ASSUME TypeOK, NEW e \in Ends, NEW call \in Calls, Goto(e, call)
  PROVE  /\ pc' \in [Ends -> Calls] /\ left' \in [Ends -> 0 .. Size + DoneSize]
         /\ pc'[e] = call
         /\ call = "send" => left'[e] = OutLen(e)
         /\ call = "recv" => left'[e] = InLen(e)
         /\ pc'[Peer(e)] = pc[Peer(e)] /\ left'[Peer(e)] = left[Peer(e)]
<1>1. /\ Size \in Nat /\ DoneSize \in Nat /\ OutLen(e) \in 0 .. Size + DoneSize
      /\ InLen(e) \in 0 .. Size + DoneSize /\ 0 \in 0 .. Size + DoneSize
  BY TcpAssumption, EndFacts DEF TcpAssumption
<1> DEFINE l == CASE call = "send" -> OutLen(e) [] call = "recv" -> InLen(e) [] OTHER -> 0
<1>2. /\ l \in 0 .. Size + DoneSize
      /\ call = "send" => l = OutLen(e)
      /\ call = "recv" => l = InLen(e)
  BY <1>1
<1>3. pc' = [pc EXCEPT ![e] = call] /\ left' = [left EXCEPT ![e] = l]
  BY DEF Goto
<1> HIDE DEF l
<1> QED
  BY <1>2, <1>3, EndFacts DEF TypeOK, Calls

(* The message that an end is sending.                                     *)
LEMMA CurrentFacts ==
  ASSUME TypeOK, ProgramInv, NEW e \in Ends, pc[e] = "send"
  PROVE  /\ Len(accepted[e]) \in Nat
         /\ Current(e) = Nth(e, Len(accepted[e]) + 1)
         /\ Current(e) \in Messages
         /\ e = "initiator" => Len(accepted[e]) + 1 <= N
<1>1. Len(accepted[e]) \in Nat /\ N \in Nat
  BY TcpAssumption, EmptyFacts DEF TypeOK, TcpAssumption
<1>2. e = "initiator" => Len(accepted[e]) < N
  BY DEF ProgramInv, EndInv
<1> QED
  BY <1>1, <1>2 DEF Current, Nth, Done, Messages, Ends

(* The bytes of one ::send.                                                *)
LEMMA PieceFacts ==
  ASSUME TypeOK, ProgramInv, NEW e \in Ends, pc[e] = "send", NEW k \in 1 .. left[e]
  PROVE  LET from == OutLen(e) - left[e]
             piece == SomeBytes(e, from, k)
         IN  /\ piece \in Seq(Byte) /\ Len(piece) = k
             /\ left[e] \in 1 .. OutLen(e)
             /\ \A i \in 1 .. k : piece[i] = <<Current(e), from + i>>
<1> DEFINE from == OutLen(e) - left[e]
           m == Nth(e, Len(accepted[e]) + 1)
<1>1. left[e] \in 1 .. OutLen(e) /\ OutLen(e) \in Nat
  BY EndFacts DEF ProgramInv, EndInv
<1>2. /\ Bytes(m) \in Seq(Byte) /\ Len(Bytes(m)) = OutLen(e) /\ Current(e) = m
      /\ \A j \in 1 .. OutLen(e) : Bytes(m)[j] = <<m, j>>
  BY CurrentFacts, BytesFacts
<1>3. from \in Nat /\ from + k <= OutLen(e) /\ k \in Nat /\ k > 0
  BY <1>1
<1> HIDE DEF m, from
<1>5. /\ SubSeq(Bytes(m), from + 1, from + k) \in Seq(Byte)
      /\ Len(SubSeq(Bytes(m), from + 1, from + k)) = k
      /\ \A i \in 1 .. k : SubSeq(Bytes(m), from + 1, from + k)[i] = Bytes(m)[from + i]
  BY <1>2, <1>3, SliceFacts
<1>6. SomeBytes(e, from, k) = SubSeq(Bytes(m), from + 1, from + k)
  BY <1>2 DEF SomeBytes
<1>7. \A i \in 1 .. k : SomeBytes(e, from, k)[i] = <<Current(e), from + i>>
  <2> SUFFICES ASSUME NEW i \in 1 .. k PROVE SomeBytes(e, from, k)[i] = <<Current(e), from + i>>
    OBVIOUS
  <2>1. from + i \in 1 .. OutLen(e)
    BY <1>1, <1>3
  <2> QED
    BY <2>1, <1>2, <1>5, <1>6
<1> QED
  BY <1>1, <1>5, <1>6, <1>7 DEF from

-----------------------------------------------------------------------------
(* The two steps that move bytes.                                          *)

(* A ::send of k bytes: where they go, and what the loop does next.        *)
Sent(e, k) ==
  /\ \/ Gone(Peer(e)) /\ UNCHANGED wire
     \/ /\ ~Gone(Peer(e)) /\ wire'[e] = wire[e]
        /\ wire'[Peer(e)] = wire[Peer(e)] \o SomeBytes(e, OutLen(e) - left[e], k)
  /\ \/ /\ k < left[e] /\ left'[e] = left[e] - k /\ UNCHANGED <<pc, accepted>>
     \/ /\ k = left[e]
        /\ accepted'[e] = Append(accepted[e], Nth(e, Len(accepted[e]) + 1))
        /\ pc'[e] = IF e = "target" THEN "close"
                    ELSE IF Len(accepted[e]) + 1 < N THEN "send" ELSE "recv"
        /\ pc'[e] = "send" => left'[e] = OutLen(e)
        /\ pc'[e] = "recv" => left'[e] = InLen(e)
  /\ pc'[Peer(e)] = pc[Peer(e)] /\ left'[Peer(e)] = left[Peer(e)]
  /\ accepted'[Peer(e)] = accepted[Peer(e)]
  /\ UNCHANGED <<listening, link, sock, buffer, received, blocks>>

(* It keeps the types.                                                     *)
LEMMA SendFacts ==
  ASSUME TypeOK, ProgramInv, NEW e \in Ends, SendPiece(e)
  PROVE  TypeOK' /\ \E k \in 1 .. left[e] : Sent(e, k)
<1> DEFINE p == Peer(e)
           from == OutLen(e) - left[e]
<1>0. pc[e] = "send" /\ UNCHANGED <<listening, link, sock, buffer, received, blocks>>
  BY DEF SendPiece
<1>1. PICK k \in 1 .. left[e] :
        /\ \/ Gone(p) /\ UNCHANGED wire
           \/ /\ ~Gone(p)
              /\ wire' = [wire EXCEPT ![p] = @ \o SomeBytes(e, from, k)]
        /\ IF k < left[e]
           THEN left' = [left EXCEPT ![e] = @ - k] /\ UNCHANGED <<pc, accepted>>
           ELSE /\ accepted' = [accepted EXCEPT ![e] = Append(@, Current(e))]
                /\ SendReturns(e, "all")
  BY Zenon DEF SendPiece
<1>2. p \in Ends /\ p # e /\ (\A d \in Ends : d # e => d = p)
  BY EndFacts
<1>3. /\ SomeBytes(e, from, k) \in Seq(Byte) /\ left[e] \in 1 .. OutLen(e)
      /\ OutLen(e) \in Nat /\ OutLen(e) <= Size + DoneSize
  BY <1>0, PieceFacts, EndFacts
<1>4. /\ Len(accepted[e]) \in Nat /\ Current(e) = Nth(e, Len(accepted[e]) + 1)
      /\ Current(e) \in Messages
  BY <1>0, CurrentFacts
<1>5. wire' \in [Ends -> Seq(Byte)]
  <2>1. wire[p] \in Seq(Byte) /\ wire \in [Ends -> Seq(Byte)]
    BY <1>2 DEF TypeOK
  <2>2. wire[p] \o SomeBytes(e, from, k) \in Seq(Byte)
    BY <2>1, <1>3, ConcatFacts
  <2> HIDE DEF p, from
  <2> QED
    BY <1>1, <1>2, <2>1, <2>2
<1>6. \/ Gone(p) /\ UNCHANGED wire
      \/ /\ ~Gone(p) /\ wire'[e] = wire[e]
         /\ wire'[p] = wire[p] \o SomeBytes(e, from, k)
  <2>1. wire \in [Ends -> Seq(Byte)]
    BY DEF TypeOK
  <2> HIDE DEF p, from
  <2> QED
    BY <1>1, <1>2, <2>1
<1>7. CASE k < left[e]
  <2>1. left' = [left EXCEPT ![e] = @ - k] /\ UNCHANGED <<pc, accepted>>
    BY <1>1, <1>3, <1>7
  <2>2. left' \in [Ends -> 0 .. Size + DoneSize]
    BY <2>1, <1>3, <1>7, TcpAssumption DEF TypeOK, TcpAssumption
  <2>3. Sent(e, k)
    BY <1>0, <1>2, <1>6, <1>7, <2>1 DEF Sent, TypeOK
  <2> QED
    BY <1>0, <1>5, <2>1, <2>2, <2>3 DEF TypeOK
<1>8. CASE k = left[e]
  <2>1. accepted' = [accepted EXCEPT ![e] = Append(@, Current(e))] /\ SendReturns(e, "all")
    BY <1>1, <1>3, <1>8
  <2>2. Append(accepted[e], Current(e)) \in Seq(Messages) /\ accepted \in [Ends -> Seq(Messages)]
    BY <1>4, AppendFacts DEF TypeOK
  <2>3. accepted' \in [Ends -> Seq(Messages)]
    BY <2>1, <2>2
  <2> DEFINE next == IF e = "target" THEN "close"
                     ELSE IF Len(accepted[e]) + 1 < N THEN "send" ELSE "recv"
  <2>4. Goto(e, next) /\ next \in Calls
    <3>1. e # "target" => Current(e) = Len(accepted[e]) + 1
      BY DEF Current
    <3> QED
      BY <2>1, <3>1 DEF SendReturns, Calls
  <2>5. /\ pc' \in [Ends -> Calls] /\ left' \in [Ends -> 0 .. Size + DoneSize]
        /\ pc'[e] = next
        /\ next = "send" => left'[e] = OutLen(e)
        /\ next = "recv" => left'[e] = InLen(e)
        /\ pc'[p] = pc[p] /\ left'[p] = left[p]
    BY <2>4, GotoFacts
  <2>6. accepted'[p] = accepted[p] /\ accepted'[e] = Append(accepted[e], Current(e))
    BY <1>2, <2>1, <2>2
  <2>7. Sent(e, k)
    BY <1>0, <1>2, <1>4, <1>6, <1>8, <2>5, <2>6 DEF Sent
  <2> QED
    BY <1>0, <1>5, <2>3, <2>5, <2>7 DEF TypeOK, Calls
<1> QED
  BY <1>3, <1>7, <1>8

(* A ::recv of k bytes: what comes into the buffer, and what recv returns. *)
Got(e, k) ==
  /\ k <= Len(wire[e]) /\ left[e] \in 1 .. InLen(e)
  /\ wire'[Peer(e)] = wire[Peer(e)]
  /\ wire'[e] = SubSeq(wire[e], k + 1, Len(wire[e]))
  /\ buffer'[Peer(e)] = buffer[Peer(e)] /\ DOMAIN buffer'[e] = 1 .. InLen(e)
  /\ \A j \in 1 .. InLen(e) :
       buffer'[e][j] = IF j - (InLen(e) - left[e]) \in 1 .. k
                       THEN wire[e][j - (InLen(e) - left[e])] ELSE buffer[e][j]
  /\ \/ /\ k < left[e] /\ left'[e] = left[e] - k /\ UNCHANGED <<pc, received>>
     \/ /\ k = left[e] /\ received'[e] = Append(received[e], buffer'[e])
        /\ pc'[e] = IF e = "target" THEN "write" ELSE "close"
  /\ pc'[Peer(e)] = pc[Peer(e)] /\ left'[Peer(e)] = left[Peer(e)]
  /\ received'[Peer(e)] = received[Peer(e)]
  /\ UNCHANGED <<listening, link, sock, accepted, blocks>>

(* It keeps the types.                                                     *)
LEMMA RecvFacts ==
  ASSUME TypeOK, ProgramInv, NEW e \in Ends, RecvPiece(e)
  PROVE  TypeOK' /\ \E k \in 1 .. left[e] : Got(e, k)
<1> DEFINE p == Peer(e)
           from == InLen(e) - left[e]
<1>0. pc[e] = "recv" /\ UNCHANGED <<listening, link, sock, accepted, blocks>>
  BY DEF RecvPiece
<1>1. PICK k \in 1 .. left[e] :
        /\ k <= Len(wire[e])
        /\ wire' = [wire EXCEPT ![e] = SubSeq(@, k + 1, Len(@))]
        /\ buffer' = [buffer EXCEPT ![e] = Filled(e, from, k)]
        /\ IF k < left[e]
           THEN left' = [left EXCEPT ![e] = @ - k] /\ UNCHANGED <<pc, received>>
           ELSE /\ received' = [received EXCEPT ![e] = Append(@, buffer'[e])]
                /\ RecvReturns(e, "all")
  BY Zenon DEF RecvPiece
<1>2. p \in Ends /\ p # e /\ (\A d \in Ends : d # e => d = p)
  BY EndFacts
<1>3. /\ left[e] \in 1 .. InLen(e) /\ InLen(e) \in Nat /\ InLen(e) <= Size + DoneSize
      /\ from \in Nat
  BY <1>0, EndFacts DEF ProgramInv, EndInv
<1>4. /\ wire \in [Ends -> Seq(Byte)] /\ wire[e] \in Seq(Byte) /\ k \in 1 .. Len(wire[e])
      /\ buffer[e] \in Buffers /\ DOMAIN buffer[e] = 1 .. InLen(e)
      /\ buffer \in [Ends -> Buffers]
  BY <1>1, EmptyFacts DEF TypeOK
<1>5. SubSeq(wire[e], k + 1, Len(wire[e])) \in Seq(Byte)
  BY <1>4, RestFacts
<1>6. /\ wire' \in [Ends -> Seq(Byte)] /\ wire'[p] = wire[p]
      /\ wire'[e] = SubSeq(wire[e], k + 1, Len(wire[e]))
  BY <1>1, <1>2, <1>4, <1>5
<1>7. Filled(e, from, k) \in [1 .. InLen(e) -> Byte]
  <2>1. buffer[e] \in [1 .. InLen(e) -> Byte]
    BY <1>4 DEF Buffers
  <2>2. \A i \in 1 .. Len(wire[e]) : wire[e][i] \in Byte
    BY <1>4
  <2>3. \A j \in 1 .. InLen(e) :
          (IF j - from \in 1 .. k THEN wire[e][j - from] ELSE buffer[e][j]) \in Byte
    BY <1>3, <1>4, <2>1, <2>2
  <2> QED
    BY <1>4, <2>3 DEF Filled
<1>8. Filled(e, from, k) \in Buffers
  BY <1>7 DEF Buffers, InLen, OutLen
<1>9. /\ buffer' \in [Ends -> Buffers] /\ buffer'[p] = buffer[p]
      /\ buffer'[e] = Filled(e, from, k)
  BY <1>1, <1>2, <1>4, <1>8
<1>10. /\ DOMAIN buffer'[e] = 1 .. InLen(e)
       /\ \A d \in Ends : DOMAIN buffer'[d] = 1 .. InLen(d)
  BY <1>2, <1>7, <1>9 DEF TypeOK
<1>11. \A j \in 1 .. InLen(e) :
         buffer'[e][j] = IF j - from \in 1 .. k THEN wire[e][j - from] ELSE buffer[e][j]
  BY <1>4, <1>9 DEF Filled
<1>12. CASE k < left[e]
  <2>1. left' = [left EXCEPT ![e] = @ - k] /\ UNCHANGED <<pc, received>>
    BY <1>1, <1>3, <1>12
  <2>2. left' \in [Ends -> 0 .. Size + DoneSize]
    BY <2>1, <1>3, <1>12, TcpAssumption DEF TypeOK, TcpAssumption
  <2>3. left'[e] = left[e] - k /\ left'[p] = left[p]
    BY <1>2, <2>1 DEF TypeOK
  <2>4. Got(e, k)
    BY <1>0, <1>1, <1>3, <1>6, <1>9, <1>10, <1>11, <1>12, <2>1, <2>3 DEF Got
  <2> QED
    BY <1>0, <1>6, <1>9, <1>10, <2>1, <2>2, <2>4 DEF TypeOK
<1>13. CASE k = left[e]
  <2>1. received' = [received EXCEPT ![e] = Append(@, buffer'[e])] /\ RecvReturns(e, "all")
    BY <1>1, <1>3, <1>13
  <2>2. /\ received \in [Ends -> Seq(Buffers)] /\ received[e] \in Seq(Buffers)
        /\ buffer'[e] \in Buffers
    BY <1>8, <1>9 DEF TypeOK
  <2>3. Append(received[e], buffer'[e]) \in Seq(Buffers)
    BY <2>2, AppendFacts
  <2>4. received' \in [Ends -> Seq(Buffers)]
    BY <2>1, <2>2, <2>3
  <2> DEFINE next == IF e = "target" THEN "write" ELSE "close"
  <2>5. Goto(e, next) /\ next \in Calls
    BY <2>1 DEF RecvReturns, Calls, Ends
  <2>6. /\ pc' \in [Ends -> Calls] /\ left' \in [Ends -> 0 .. Size + DoneSize]
        /\ pc'[e] = next /\ pc'[p] = pc[p] /\ left'[p] = left[p]
    BY <2>5, GotoFacts
  <2>7. received'[p] = received[p] /\ received'[e] = Append(received[e], buffer'[e])
    BY <1>2, <2>1, <2>2
  <2>8. Got(e, k)
    BY <1>0, <1>1, <1>3, <1>6, <1>9, <1>10, <1>11, <1>13, <2>6, <2>7 DEF Got
  <2> QED
    BY <1>0, <1>6, <1>9, <1>10, <2>4, <2>6, <2>8 DEF TypeOK, Calls
<1> QED
  BY <1>3, <1>12, <1>13

-----------------------------------------------------------------------------
(* The other steps leave the bytes where they are.                         *)

Still == UNCHANGED <<buffer, wire, accepted, received>>

(* Begin(e, call): end e begins a call and moves no byte.                  *)
Begin(e, call) ==
  /\ Still
  /\ pc'[e] = call /\ pc'[Peer(e)] = pc[Peer(e)] /\ left'[Peer(e)] = left[Peer(e)]
  /\ call = "send" => left'[e] = OutLen(e)
  /\ call = "recv" => left'[e] = InLen(e)

(* A call that begins keeps the types.                                     *)
LEMMA BeginFacts ==
  ASSUME TypeOK, NEW e \in Ends, NEW call \in Calls, Goto(e, call), Still,
         listening' \in BOOLEAN, link' \in {"none", "up", "broken"},
         sock' \in [Ends -> {"none", "open", "closed"}], blocks' \in Seq(Buffers)
  PROVE  TypeOK' /\ Begin(e, call)
<1>1. /\ pc' \in [Ends -> Calls] /\ left' \in [Ends -> 0 .. Size + DoneSize]
      /\ pc'[e] = call /\ pc'[Peer(e)] = pc[Peer(e)] /\ left'[Peer(e)] = left[Peer(e)]
      /\ call = "send" => left'[e] = OutLen(e)
      /\ call = "recv" => left'[e] = InLen(e)
  BY GotoFacts
<1> QED
  BY <1>1 DEF TypeOK, Begin, Still, Calls

(* The calls that the other steps begin.                                   *)
LEMMA OtherFacts ==
  ASSUME TypeOK, ProgramInv, NEW e \in Ends
  PROVE  /\ Listen => TypeOK' /\ Begin("target", "accept")
         /\ Accept => TypeOK' /\ Begin("target", "recv")
         /\ TargetInitFails =>
              /\ TypeOK'
              /\ \/ Begin("target", "ended")
                 \/ pc["target"] = "init" /\ Begin("target", "recv")
         /\ Connect => TypeOK' /\ Begin("initiator", "send")
         /\ SendFails(e) => TypeOK' /\ Begin(e, "close")
         /\ SigPipe(e) \/ Crash(e) => TypeOK' /\ Begin(e, "killed")
         /\ Close(e) => TypeOK' /\ Begin(e, "ended")
         /\ RecvClosed(e) => TypeOK' /\ Begin(e, IF e = "target" THEN "write" ELSE "close")
         /\ RecvFails(e) => TypeOK' /\ Begin(e, IF e = "target" THEN "send" ELSE "close")
<1>1. Calls = {"init", "accept", "send", "recv", "write", "close", "ended", "killed"}
  BY DEF Calls
<1>2. "target" \in Ends /\ "initiator" \in Ends
  BY DEF Ends
<1>3. Listen => TypeOK' /\ Begin("target", "accept")
  BY <1>1, <1>2, BeginFacts DEF Listen, Still, TypeOK
<1>4. Accept => TypeOK' /\ Begin("target", "recv")
  <2>1. Accept => /\ Still /\ listening' \in BOOLEAN /\ link' \in {"none", "up", "broken"}
                  /\ sock' \in [Ends -> {"none", "open", "closed"}]
                  /\ blocks' \in Seq(Buffers) /\ Goto("target", "recv")
    BY DEF Accept, Still, TypeOK
  <2> QED
    BY <1>1, <1>2, <2>1, BeginFacts
<1>5. ASSUME TargetInitFails
      PROVE  /\ TypeOK'
             /\ \/ Begin("target", "ended")
                \/ pc["target"] = "init" /\ Begin("target", "recv")
  <2>1. /\ Still /\ listening' \in BOOLEAN /\ link' \in {"none", "up", "broken"}
        /\ sock' \in [Ends -> {"none", "open", "closed"}] /\ blocks' \in Seq(Buffers)
    BY <1>5 DEF TargetInitFails, Still, TypeOK
  <2>2. Goto("target", "ended") \/ (pc["target"] = "init" /\ Goto("target", "recv"))
    BY <1>5 DEF TargetInitFails
  <2> QED
    BY <1>1, <1>2, <2>1, <2>2, BeginFacts
<1>6. Connect => TypeOK' /\ Begin("initiator", "send")
  BY <1>1, <1>2, BeginFacts DEF Connect, Still, TypeOK
<1>7. SendFails(e) => TypeOK' /\ Begin(e, "close")
  BY <1>1, BeginFacts DEF SendFails, SendReturns, Still, TypeOK
<1>8. SigPipe(e) => TypeOK' /\ Begin(e, "killed")
  BY <1>1, BeginFacts DEF SigPipe, Still, TypeOK
<1>9. Crash(e) => TypeOK' /\ Begin(e, "killed")
  BY <1>1, BeginFacts DEF Crash, Still, TypeOK
<1>10. Close(e) => TypeOK' /\ Begin(e, "ended")
  BY <1>1, BeginFacts DEF Close, Still, TypeOK
<1>11. RecvClosed(e) => TypeOK' /\ Begin(e, IF e = "target" THEN "write" ELSE "close")
  <2> DEFINE next == IF e = "target" THEN "write" ELSE "close"
  <2>1. next \in Calls /\ (RecvClosed(e) => Goto(e, next))
    BY <1>1 DEF RecvClosed, RecvReturns, Ends
  <2> HIDE DEF next
  <2>2. RecvClosed(e) => TypeOK' /\ Begin(e, next)
    BY <2>1, BeginFacts DEF RecvClosed, Still, TypeOK
  <2> QED
    BY <2>2 DEF next
<1>12. RecvFails(e) => TypeOK' /\ Begin(e, IF e = "target" THEN "send" ELSE "close")
  <2> DEFINE next == IF e = "target" THEN "send" ELSE "close"
  <2>1. next \in Calls /\ (RecvFails(e) => Goto(e, next))
    BY <1>1 DEF RecvFails, RecvReturns, Ends
  <2> HIDE DEF next
  <2>2. RecvFails(e) => TypeOK' /\ Begin(e, next)
    BY <2>1, BeginFacts DEF RecvFails, Still, TypeOK
  <2> QED
    BY <2>2 DEF next
<1> QED
  BY <1>3, <1>4, <1>5, <1>6, <1>7, <1>8, <1>9, <1>10, <1>11, <1>12

(* nvme_write: the block is added, or the test ends.                       *)
LEMMA WriteFacts ==
  ASSUME TypeOK, ProgramInv, WriteBlock
  PROVE  /\ TypeOK'
         /\ pc["target"] = "write"
         /\ UNCHANGED <<listening, link, sock>>
         /\ \/ /\ blocks' = Append(blocks, buffer["target"])
               /\ Begin("target", IF Len(blocks) + 1 < N THEN "recv" ELSE "send")
            \/ UNCHANGED blocks /\ Begin("target", "close")
<1>1. "target" \in Ends /\ buffer["target"] \in Buffers /\ blocks \in Seq(Buffers)
  BY DEF Ends, TypeOK
<1>2. /\ Append(blocks, buffer["target"]) \in Seq(Buffers)
      /\ Len(Append(blocks, buffer["target"])) = Len(blocks) + 1
  BY <1>1, AppendFacts
<1>3. /\ Still /\ listening' \in BOOLEAN /\ link' \in {"none", "up", "broken"}
      /\ sock' \in [Ends -> {"none", "open", "closed"}]
      /\ pc["target"] = "write" /\ UNCHANGED <<listening, link, sock>>
  BY DEF WriteBlock, Still, TypeOK
<1>4. CASE UNCHANGED blocks /\ Goto("target", "close")
  <2>1. TypeOK' /\ Begin("target", "close")
    BY <1>1, <1>3, <1>4, BeginFacts DEF Calls
  <2> QED
    BY <1>3, <1>4, <2>1
<1>5. CASE /\ blocks' = Append(blocks, buffer["target"])
           /\ Goto("target", IF Len(blocks') < N THEN "recv" ELSE "send")
  <2> DEFINE next == IF Len(blocks) + 1 < N THEN "recv" ELSE "send"
  <2>1. next \in Calls /\ Goto("target", next)
    BY <1>2, <1>5 DEF Calls
  <2>2. blocks' \in Seq(Buffers)
    BY <1>2, <1>5
  <2> HIDE DEF next
  <2>3. TypeOK' /\ Begin("target", next)
    BY <1>1, <1>3, <2>1, <2>2, BeginFacts
  <2> QED
    BY <1>3, <1>5, <2>3 DEF next
<1> QED
  BY <1>4, <1>5 DEF WriteBlock

-----------------------------------------------------------------------------
(* How far the ends are.                                                   *)

(* The parts of the types that the steps below use.                        *)
LEMMA Sizes ==
  ASSUME TypeOK
  PROVE  /\ N \in Nat /\ N > 0 /\ Size \in Nat /\ DoneSize \in Nat /\ Size > 0 /\ DoneSize > 0
         /\ Len(blocks) \in Nat /\ (blocks = <<>> <=> Len(blocks) = 0)
         /\ \A e \in Ends : /\ Len(accepted[e]) \in Nat
                            /\ (accepted[e] = <<>> <=> Len(accepted[e]) = 0)
                            /\ Len(received[e]) \in Nat
                            /\ (received[e] = <<>> <=> Len(received[e]) = 0)
                            /\ Len(wire[e]) \in Nat
                            /\ (wire[e] = <<>> <=> Len(wire[e]) = 0)
                            /\ left[e] \in Int
<1>1. Size \in Nat /\ DoneSize \in Nat /\ N \in Nat /\ N > 0 /\ Size > 0 /\ DoneSize > 0
  BY TcpAssumption DEF TcpAssumption
<1>2. blocks \in Seq(Buffers) /\ \A e \in Ends : /\ accepted[e] \in Seq(Messages)
                                                 /\ received[e] \in Seq(Buffers)
                                                 /\ wire[e] \in Seq(Byte)
                                                 /\ left[e] \in 0 .. Size + DoneSize
  BY DEF TypeOK
<1> QED
  BY <1>1, <1>2, EmptyFacts

(* The steps that move no byte, but for the write.                         *)
LEMMA ProgramOther ==
  ASSUME TypeOK, ProgramInv, NEW e \in Ends,
         Listen \/ Accept \/ TargetInitFails \/ Connect \/ SendFails(e) \/ SigPipe(e) \/ Crash(e)
           \/ Close(e) \/ RecvClosed(e) \/ RecvFails(e)
  PROVE  ProgramInv'
<1>0. "target" \in Ends /\ "initiator" \in Ends /\ e \in {"initiator", "target"}
  BY DEF Ends
<1> USE DEF Peer, InLen, OutLen
<1>1. CASE Listen
  <2>1. /\ pc["target"] = "init" /\ listening' = TRUE
        /\ UNCHANGED <<link, sock, blocks>> /\ Begin("target", "accept")
    BY <1>0, <1>1, OtherFacts DEF Listen
  <2> QED
    BY <1>0, <2>1, Sizes DEF Begin, Still, ProgramInv, EndInv, Ended, Usable, Ends
<1>2. CASE Accept
  <2>1. /\ pc["target"] = "accept" /\ link = "up" /\ listening' = FALSE
        /\ UNCHANGED <<link, blocks>> /\ Begin("target", "recv")
        /\ sock'["target"] = "open" /\ sock'["initiator"] = sock["initiator"]
    BY <1>0, <1>2, OtherFacts DEF Accept, Ends, TypeOK
  <2> QED
    BY <1>0, <2>1, Sizes DEF Begin, Still, ProgramInv, EndInv, Ended, Usable, Ends
<1>3. CASE TargetInitFails
  <2>1. /\ pc["target"] \in {"init", "accept"} /\ listening' = FALSE
        /\ UNCHANGED <<link, sock, blocks>>
    BY <1>3 DEF TargetInitFails
  <2>2. \/ Begin("target", "ended")
        \/ pc["target"] = "init" /\ Begin("target", "recv")
    BY <1>3, OtherFacts
  <2> QED
    BY <1>0, <2>1, <2>2, Sizes DEF Begin, Still, ProgramInv, EndInv, Ended, Usable, Ends
<1>4. CASE Connect
  <2>1. /\ pc["initiator"] = "init" /\ UNCHANGED <<listening, blocks>>
        /\ Begin("initiator", "send") /\ sock'["target"] = sock["target"]
        /\ \/ listening /\ sock'["initiator"] = "open" /\ link' = "up"
           \/ sock'["initiator"] = "closed" /\ UNCHANGED link
    BY <1>0, <1>4, OtherFacts DEF Connect, Ends, TypeOK
  <2> QED
    BY <1>0, <2>1, Sizes DEF Begin, Still, ProgramInv, EndInv, Ended, Usable, Ends
<1>5. CASE SendFails(e)
  <2>1. /\ pc[e] = "send" /\ UNCHANGED <<listening, link, sock, blocks>>
        /\ Begin(e, "close")
    BY <1>0, <1>5, OtherFacts DEF SendFails
  <2>2. CASE e = "initiator"
    BY <1>0, <2>1, <2>2, Sizes DEF Begin, Still, ProgramInv, EndInv, Ended, Usable, Ends
  <2>3. CASE e = "target"
    BY <1>0, <2>1, <2>3, Sizes DEF Begin, Still, ProgramInv, EndInv, Ended, Usable, Ends
  <2> QED
    BY <1>0, <2>2, <2>3
<1>6. CASE SigPipe(e)
  <2>1. /\ pc[e] = "send" /\ UNCHANGED <<listening, link, blocks>> /\ Begin(e, "killed")
        /\ sock'[e] = "closed" /\ sock'[Peer(e)] = sock[Peer(e)]
    BY <1>0, <1>6, OtherFacts DEF SigPipe, Ends, TypeOK
  <2>2. CASE e = "initiator"
    BY <1>0, <2>1, <2>2, Sizes DEF Begin, Still, ProgramInv, EndInv, Ended, Usable, Ends
  <2>3. CASE e = "target"
    BY <1>0, <2>1, <2>3, Sizes DEF Begin, Still, ProgramInv, EndInv, Ended, Usable, Ends
  <2> QED
    BY <1>0, <2>2, <2>3
<1>7. CASE Crash(e)
  <2>1. /\ ~Ended(e) /\ sock[e] = "open" /\ UNCHANGED <<listening, link, blocks>>
        /\ sock'[e] = "closed" /\ sock'[Peer(e)] = sock[Peer(e)] /\ Begin(e, "killed")
    BY <1>0, <1>7, OtherFacts DEF Crash, Ends, TypeOK
  <2>2. CASE e = "initiator"
    BY <1>0, <2>1, <2>2, Sizes DEF Begin, Still, ProgramInv, EndInv, Ended, Usable, Ends
  <2>3. CASE e = "target"
    BY <1>0, <2>1, <2>3, Sizes DEF Begin, Still, ProgramInv, EndInv, Ended, Usable, Ends
  <2> QED
    BY <1>0, <2>2, <2>3
<1>8. CASE Close(e)
  <2>1. /\ pc[e] = "close" /\ UNCHANGED <<listening, link, blocks>> /\ Begin(e, "ended")
        /\ sock'[e] = "closed" /\ sock'[Peer(e)] = sock[Peer(e)]
    BY <1>0, <1>8, OtherFacts DEF Close, Ends, TypeOK
  <2>2. CASE e = "initiator"
    BY <1>0, <2>1, <2>2, Sizes DEF Begin, Still, ProgramInv, EndInv, Ended, Usable, Ends
  <2>3. CASE e = "target"
    BY <1>0, <2>1, <2>3, Sizes DEF Begin, Still, ProgramInv, EndInv, Ended, Usable, Ends
  <2> QED
    BY <1>0, <2>2, <2>3
<1>9. CASE RecvClosed(e)
  <2>1. /\ pc[e] = "recv" /\ UNCHANGED <<listening, link, sock, blocks>>
        /\ Begin(e, IF e = "target" THEN "write" ELSE "close")
    BY <1>0, <1>9, OtherFacts DEF RecvClosed
  <2>2. CASE e = "initiator"
    BY <1>0, <2>1, <2>2, Sizes DEF Begin, Still, ProgramInv, EndInv, Ended, Usable, Ends
  <2>3. CASE e = "target"
    BY <1>0, <2>1, <2>3, Sizes DEF Begin, Still, ProgramInv, EndInv, Ended, Usable, Ends
  <2> QED
    BY <1>0, <2>2, <2>3
<1>10. CASE RecvFails(e)
  <2>1. /\ pc[e] = "recv" /\ ~Usable(e) /\ UNCHANGED <<listening, link, sock, blocks>>
        /\ Begin(e, IF e = "target" THEN "send" ELSE "close")
    BY <1>0, <1>10, OtherFacts DEF RecvFails
  <2>2. CASE e = "initiator"
    BY <1>0, <2>1, <2>2, Sizes DEF Begin, Still, ProgramInv, EndInv, Ended, Usable, Ends
  <2>3. CASE e = "target"
    BY <1>0, <2>1, <2>3, Sizes DEF Begin, Still, ProgramInv, EndInv, Ended, Usable, Ends
  <2> QED
    BY <1>0, <2>2, <2>3
<1> QED
  BY <1>1, <1>2, <1>3, <1>4, <1>5, <1>6, <1>7, <1>8, <1>9, <1>10

(* The write: the target has all N blocks when it goes on to "done".       *)
LEMMA ProgramWrite ==
  ASSUME TypeOK, ProgramInv, WriteBlock
  PROVE  ProgramInv'
<1> USE DEF Peer, InLen, OutLen
<1>1. "target" \in Ends /\ "initiator" \in Ends /\ buffer["target"] \in Buffers
  BY DEF Ends, TypeOK
<1>2. pc["target"] = "write" /\ UNCHANGED <<listening, link, sock>>
  BY WriteFacts
<1>3. CASE UNCHANGED blocks /\ Begin("target", "close")
  BY <1>1, <1>2, <1>3, Sizes DEF Begin, Still, ProgramInv, EndInv, Ended, Usable, Ends
<1>4. CASE /\ blocks' = Append(blocks, buffer["target"])
           /\ Begin("target", IF Len(blocks) + 1 < N THEN "recv" ELSE "send")
  <2>1. Len(blocks') = Len(blocks) + 1
    BY <1>1, <1>4, AppendFacts DEF TypeOK
  <2>2. Len(blocks) < N /\ Len(blocks) \in Nat /\ N \in Nat
    BY <1>2, Sizes DEF ProgramInv, EndInv
  <2>3. IF Len(blocks) + 1 < N THEN pc'["target"] = "recv" ELSE pc'["target"] = "send"
    BY <1>4 DEF Begin
  <2>4. /\ pc'["initiator"] = pc["initiator"] /\ left'["initiator"] = left["initiator"] /\ Still
        /\ pc'["target"] = "send" => left'["target"] = DoneSize
        /\ pc'["target"] = "recv" => left'["target"] = Size
    BY <1>4 DEF Begin
  <2> QED
    BY <1>1, <1>2, <2>1, <2>2, <2>3, <2>4, Sizes DEF Still, ProgramInv, EndInv, Ended, Usable, Ends
<1> QED
  BY <1>3, <1>4, WriteFacts

(* The connection breaks.                                                  *)
LEMMA BreakFacts ==
  ASSUME TypeOK, ProgramInv, Break
  PROVE  TypeOK' /\ ProgramInv'
<1>1. /\ link = "up" /\ link' = "broken" /\ \A e \in Ends : wire'[e] = <<>>
      /\ UNCHANGED <<listening, sock, pc, left, buffer, accepted, received, blocks>>
  BY DEF Break
<1>2. wire' \in [Ends -> Seq(Byte)]
  BY EmptyFacts DEF Break
<1>3. TypeOK'
  BY <1>1, <1>2 DEF TypeOK
<1>4. "target" \in Ends /\ "initiator" \in Ends
  BY DEF Ends
<1>5. ProgramInv'
  BY <1>1, <1>4, Sizes DEF ProgramInv, EndInv, Ended, Usable
<1> QED
  BY <1>3, <1>5

(* A ::send.                                                               *)
LEMMA ProgramSend ==
  ASSUME TypeOK, ProgramInv, NEW e \in Ends, SendPiece(e)
  PROVE  ProgramInv'
<1>0. "target" \in Ends /\ "initiator" \in Ends /\ e \in {"initiator", "target"}
  BY DEF Ends
<1>1. PICK k \in 1 .. left[e] : Sent(e, k)
  BY SendFacts
<1>2. pc[e] = "send" /\ Usable(e) /\ link = "up" /\ sock[e] = "open"
  BY DEF SendPiece, Usable
<1>3. TypeOK'
  BY SendFacts
<1>4. left[e] \in 1 .. OutLen(e) /\ OutLen(e) \in Nat /\ InLen(e) \in Nat \ {0}
  BY <1>2, EndFacts DEF ProgramInv, EndInv
<1>5. /\ accepted[e] \in Seq(Messages)
      /\ Nth(e, Len(accepted[e]) + 1) \in Messages
      /\ Len(accepted[e]) \in Nat
      /\ \A i \in 1 .. Len(accepted[e]) : accepted[e][i] = Nth(e, i)
  BY <1>2, CurrentFacts DEF TypeOK, ProgramInv, EndInv
<1>6. /\ \A i \in 1 .. Len(accepted'[e]) : accepted'[e][i] = Nth(e, i)
      /\ \/ UNCHANGED <<pc, accepted>> /\ left'[e] = left[e] - k /\ k < left[e]
         \/ /\ Len(accepted'[e]) = Len(accepted[e]) + 1
            /\ pc'[e] = IF e = "target" THEN "close"
                        ELSE IF Len(accepted[e]) + 1 < N THEN "send" ELSE "recv"
            /\ pc'[e] = "send" => left'[e] = OutLen(e)
            /\ pc'[e] = "recv" => left'[e] = InLen(e)
  <2>1. CASE k < left[e]
    BY <1>1, <1>4, <1>5, <2>1 DEF Sent
  <2>2. CASE k = left[e]
    <3>1. accepted'[e] = Append(accepted[e], Nth(e, Len(accepted[e]) + 1))
      BY <1>1, <1>4, <2>2 DEF Sent
    <3>2. /\ Len(accepted'[e]) = Len(accepted[e]) + 1
          /\ \A i \in 1 .. Len(accepted[e]) : accepted'[e][i] = accepted[e][i]
          /\ accepted'[e][Len(accepted[e]) + 1] = Nth(e, Len(accepted[e]) + 1)
      BY <1>5, <3>1, AppendFacts
    <3>3. \A i \in 1 .. Len(accepted'[e]) : accepted'[e][i] = Nth(e, i)
      <4> SUFFICES ASSUME NEW i \in 1 .. Len(accepted[e]) + 1 PROVE accepted'[e][i] = Nth(e, i)
        BY <3>2
      <4> QED
        BY <1>5, <3>2
    <3> QED
      BY <1>1, <1>4, <2>2, <3>2, <3>3 DEF Sent
  <2> QED
    BY <1>4, <2>1, <2>2
<1>7. /\ UNCHANGED <<listening, link, sock, received, blocks>>
      /\ pc'[Peer(e)] = pc[Peer(e)] /\ left'[Peer(e)] = left[Peer(e)]
      /\ accepted'[Peer(e)] = accepted[Peer(e)] /\ wire'[e] = wire[e]
  BY <1>1 DEF Sent
<1>8. e = "target" => Len(blocks) = N
  BY <1>2 DEF ProgramInv, EndInv
<1>9. \A d \in Ends : EndInv(d)'
  <2>1. EndInv(e)'
    BY <1>2, <1>4, <1>6, <1>7 DEF EndInv
  <2>2. EndInv(Peer(e))'
    <3>1. EndInv(Peer(e)) /\ Peer(e) \in Ends
      BY EndFacts DEF ProgramInv
    <3> QED
      BY <1>2, <1>7, <3>1 DEF EndInv
  <2> QED
    BY <2>1, <2>2, EndFacts
<1>10. CASE e = "initiator"
  <2>1. received["initiator"] = <<>> /\ Len(accepted["initiator"]) < N
    BY <1>2, <1>10 DEF ProgramInv
  <2> QED
    BY <1>0, <1>2, <1>4, <1>6, <1>7, <1>9, <1>10, <2>1, Sizes
       DEF ProgramInv, Ended, Usable, Peer, InLen, OutLen
<1>11. CASE e = "target"
  <2>1. Len(accepted["target"]) = 0
    BY <1>0, <1>2, <1>11, Sizes DEF ProgramInv
  <2>2. /\ pc'["initiator"] = pc["initiator"] /\ left'["initiator"] = left["initiator"]
        /\ accepted'["initiator"] = accepted["initiator"]
    BY <1>7, <1>11 DEF Peer
  <2>3. /\ Len(accepted'["target"]) <= 1 /\ pc'["target"] \in {"send", "close"}
        /\ accepted'["target"] # <<>> => pc'["target"] = "close"
    <3>1. CASE UNCHANGED <<pc, accepted>>
      BY <1>0, <1>2, <1>11, <2>1, <3>1, Sizes
    <3>2. CASE Len(accepted'[e]) = Len(accepted[e]) + 1 /\ pc'[e] = "close"
      BY <1>11, <2>1, <3>2
    <3> QED
      BY <1>6, <1>11, <3>1, <3>2
  <2> QED
    BY <1>0, <1>2, <1>7, <1>8, <1>9, <1>11, <2>2, <2>3, Sizes DEF ProgramInv, Ended, Usable
<1> QED
  BY <1>0, <1>10, <1>11

(* A ::recv.                                                               *)
LEMMA ProgramRecv ==
  ASSUME TypeOK, ProgramInv, NEW e \in Ends, RecvPiece(e)
  PROVE  ProgramInv'
<1>0. "target" \in Ends /\ "initiator" \in Ends /\ e \in {"initiator", "target"}
  BY DEF Ends
<1>1. PICK k \in 1 .. left[e] : Got(e, k)
  BY RecvFacts
<1>2. pc[e] = "recv" /\ link = "up" /\ sock[e] = "open"
  BY DEF RecvPiece, Usable
<1>3. /\ left[e] \in 1 .. InLen(e) /\ InLen(e) \in Nat /\ Peer(e) \in Ends
      /\ EndInv(e) /\ EndInv(Peer(e))
  BY <1>2, EndFacts DEF ProgramInv, EndInv
<1>4. /\ UNCHANGED <<listening, link, sock, accepted, blocks>>
      /\ pc'[Peer(e)] = pc[Peer(e)] /\ left'[Peer(e)] = left[Peer(e)]
      /\ received'[Peer(e)] = received[Peer(e)] /\ wire'[Peer(e)] = wire[Peer(e)]
  BY <1>1 DEF Got
<1>5. \/ /\ UNCHANGED <<pc, received>> /\ left'[e] \in 1 .. InLen(e)
      \/ pc'[e] = IF e = "target" THEN "write" ELSE "close"
  BY <1>1, <1>3 DEF Got
<1>6. wire[e] # <<>>
  <2>1. Len(wire[e]) > 0 /\ Len(wire[e]) \in Nat
    BY <1>1, <1>3, Sizes DEF Got
  <2> QED
    BY <2>1, Sizes
<1>7. \A d \in Ends : EndInv(d)'
  <2>1. EndInv(e)'
    BY <1>2, <1>3, <1>4, <1>5 DEF EndInv
  <2>2. EndInv(Peer(e))'
    BY <1>2, <1>3, <1>4 DEF EndInv
  <2> QED
    BY <2>1, <2>2, EndFacts
<1>8. CASE e = "initiator"
  <2>1. Len(blocks) = N /\ Len(accepted["initiator"]) = N /\ received["initiator"] = <<>>
    BY <1>2, <1>6, <1>8 DEF ProgramInv
  <2>2. /\ pc'["target"] = pc["target"] /\ received'["target"] = received["target"]
    BY <1>4, <1>8 DEF Peer
  <2> QED
    BY <1>0, <1>2, <1>4, <1>5, <1>7, <1>8, <2>1, <2>2, Sizes DEF ProgramInv, Ended, Usable
<1>9. CASE e = "target"
  <2>1. /\ pc'["initiator"] = pc["initiator"] /\ received'["initiator"] = received["initiator"]
        /\ wire'["initiator"] = wire["initiator"] /\ left'["initiator"] = left["initiator"]
        /\ pc'["target"] \in {"recv", "write"} /\ pc["target"] = "recv"
    BY <1>2, <1>4, <1>5, <1>9 DEF Peer
  <2> QED
    BY <1>0, <1>2, <1>4, <1>7, <1>9, <2>1, Sizes DEF ProgramInv, Ended, Usable
<1> QED
  BY <1>0, <1>8, <1>9

-----------------------------------------------------------------------------
(* The bytes on the wire.                                                  *)

(* A place in the stream is a number.                                      *)
LEMMA PlaceFacts ==
  ASSUME TypeOK, ProgramInv, NEW e \in Ends
  PROVE  /\ Place(e) \in Nat /\ Front(e) \in Nat /\ Len(received[e]) * InLen(e) \in Nat
         /\ Front(e) = Place(e) + Len(wire[e])
         /\ pc[e] = "recv" => Place(e) = Len(received[e]) * InLen(e) + (InLen(e) - left[e])
         /\ pc[e] # "recv" => Place(e) = Len(received[e]) * InLen(e)
<1>1. Len(received[e]) \in Nat /\ InLen(e) \in Nat /\ Len(wire[e]) \in Nat
  BY Sizes, EndFacts
<1>2. pc[e] = "recv" => InLen(e) - left[e] \in Nat
  BY <1>1 DEF ProgramInv, EndInv
<1> DEFINE m == Len(received[e]) * InLen(e)
<1>3. m \in Nat
  BY <1>1, MulNat
<1>4. Place(e) = m + (IF pc[e] = "recv" THEN InLen(e) - left[e] ELSE 0)
  BY DEF Place
<1> HIDE DEF m
<1>5. /\ Place(e) \in Nat
      /\ pc[e] = "recv" => Place(e) = m + (InLen(e) - left[e])
      /\ pc[e] # "recv" => Place(e) = m
  BY <1>2, <1>3, <1>4
<1>6. Front(e) \in Nat /\ Front(e) = Place(e) + Len(wire[e])
  BY <1>1, <1>5 DEF Front
<1> QED
  BY <1>3, <1>5, <1>6 DEF m

(* Only what comes over the wire ends a receive of the whole message, and  *)
(* only a target that is not behind its receives still gets something.     *)
LEMMA ReceiverOpen ==
  ASSUME TypeOK, SyncInv, NEW e \in Ends, pc[e] = "recv", Usable(e), wire[e] # <<>>
  PROVE  Open(e)
BY DEF SyncInv, Open, Usable, Ends

(* An end that may still receive is not gone.                              *)
LEMMA OpenNotGone ==
  ASSUME TypeOK, ProgramInv, NEW e \in Ends, Open(e)
  PROVE  ~Gone(e)
BY DEF ProgramInv, Open, Gone, Ended, Ends

(* The byte at place r * InLen + i of the stream is byte i of message      *)
(* r + 1.                                                                  *)
LEMMA ByteFacts ==
  ASSUME NEW e \in Ends, NEW r \in Nat, NEW i \in 1 .. InLen(e), NEW b,
         At(Peer(e), r * InLen(e) + i, b)
  PROVE  b = <<Nth(Peer(e), r + 1), i>>
<1>1. InLen(e) = OutLen(Peer(e)) /\ InLen(e) \in Nat
  BY EndFacts
<1>2. PICK q \in Nat, k \in 1 .. InLen(e) :
        b = <<Nth(Peer(e), q + 1), k>> /\ q * InLen(e) + k = r * InLen(e) + i
  BY <1>1 DEF At
<1>3. q = r /\ k = i
  BY <1>1, <1>2, Unique
<1> QED
  BY <1>2, <1>3

(* The buffer after a ::recv: the message has its next k bytes.            *)
LEMMA GotBytes ==
  ASSUME TypeOK, ProgramInv, NEW e \in Ends, FlowInv(e), PrefixInv(e), Open(e),
         pc[e] = "recv", NEW k \in 1 .. left[e], Got(e, k)
  PROVE  \A j \in 1 .. InLen(e) - left[e] + k :
           buffer'[e][j] = <<Nth(Peer(e), Len(received[e]) + 1), j>>
<1> DEFINE r == Len(received[e])
           from == InLen(e) - left[e]
           m == r * InLen(e)
<1>1. InLen(e) \in Nat /\ left[e] \in 1 .. InLen(e) /\ r \in Nat /\ Len(wire[e]) \in Nat
  BY EndFacts, Sizes DEF Got
<1>2. k <= Len(wire[e]) /\ m \in Nat /\ Place(e) = m + from /\ from \in Nat
  <2>1. k <= Len(wire[e])
    BY DEF Got
  <2>2. m \in Nat /\ Place(e) = m + from
    BY PlaceFacts, MulNat, <1>1
  <2>3. from \in Nat
    BY <1>1
  <2> QED
    BY <2>1, <2>2, <2>3
<1>3. \A j \in 1 .. InLen(e) :
        buffer'[e][j] = IF j - from \in 1 .. k THEN wire[e][j - from] ELSE buffer[e][j]
  BY DEF Got
<1>4. \A j \in 1 .. from : buffer[e][j] = <<Nth(Peer(e), r + 1), j>>
  BY DEF PrefixInv
<1>5. from + k <= InLen(e) /\ k \in Nat
  BY <1>1
<1> HIDE DEF r, from
<1>6. ASSUME NEW j \in 1 .. from + k
      PROVE  buffer'[e][j] = <<Nth(Peer(e), r + 1), j>>
  <2>1. j \in 1 .. InLen(e)
    BY <1>1, <1>2, <1>5
  <2>2. CASE j <= from
    <3>1. ~(j - from \in 1 .. k) /\ j \in 1 .. from
      BY <1>2, <2>2
    <3> QED
      BY <1>3, <1>4, <2>1, <3>1
  <2>3. CASE from < j
    <3>1. j - from \in 1 .. k /\ j - from \in 1 .. Len(wire[e])
      BY <1>1, <1>2, <1>5, <2>3
    <3>2. At(Peer(e), Place(e) + (j - from), wire[e][j - from])
      BY <3>1 DEF FlowInv
    <3> HIDE DEF m
    <3>3. Place(e) + (j - from) = m + j
      BY <1>2, <2>1
    <3>4. At(Peer(e), r * InLen(e) + j, wire[e][j - from])
      BY <3>2, <3>3 DEF m
    <3>5. wire[e][j - from] = <<Nth(Peer(e), r + 1), j>>
      BY <1>1, <2>1, <3>4, ByteFacts
    <3> QED
      BY <1>3, <2>1, <3>1, <3>5
  <2> QED
    BY <1>2, <2>2, <2>3
<1> QED
  BY <1>6 DEF r, from

(* A receive that ends with its last byte gives the next message whole,    *)
(* and its sender has sent it.                                             *)
LEMMA WholeMessage ==
  ASSUME TypeOK, ProgramInv, NEW e \in Ends, FlowInv(e), PrefixInv(e), Open(e),
         pc[e] = "recv", NEW k \in 1 .. left[e], Got(e, k), k = left[e], TypeOK'
  PROVE  LET m == Nth(Peer(e), Len(received[e]) + 1)
         IN  /\ Len(received[e]) + 1 <= Len(accepted[Peer(e)])
             /\ accepted[Peer(e)][Len(received[e]) + 1] = m
             /\ m \in Messages
             /\ buffer'[e] = Bytes(m)
<1> DEFINE r == Len(received[e])
           a == Len(accepted[Peer(e)])
           L == InLen(e)
           m == Nth(Peer(e), r + 1)
<1>1. /\ L \in Nat /\ L > 0 /\ left[e] \in 1 .. L /\ r \in Nat /\ a \in Nat
      /\ Peer(e) \in Ends /\ OutLen(Peer(e)) = L /\ Len(wire[e]) \in Nat
  BY EndFacts, Sizes DEF Got
<1>2. r + 1 <= a
  <2>1. Front(e) < (a + 1) * L
    BY Zenon DEF FlowInv
  <2>2. /\ r * L \in Nat /\ Front(e) = Place(e) + Len(wire[e]) /\ Front(e) \in Nat
        /\ Place(e) = r * L + (L - left[e])
    BY PlaceFacts
  <2>3. (r + 1) * L = r * L + L /\ (a + 1) * L \in Nat
    BY <1>1, MulSucc, MulNat
  <2>4. left[e] <= Len(wire[e])
    BY DEF Got
  <2> DEFINE x == r * L
             y == (r + 1) * L
             z == (a + 1) * L
  <2>5. /\ x \in Nat /\ y = x + L /\ Place(e) = x + (L - left[e])
        /\ Front(e) < z /\ z \in Nat
    BY <2>1, <2>2, <2>3
  <2> HIDE DEF x, y, z, L
  <2>6. y < z
    BY <1>1, <2>2, <2>4, <2>5
  <2>7. r + 1 \in Nat /\ (r + 1) * L < (a + 1) * L
    BY <1>1, <2>6 DEF y, z
  <2> HIDE DEF r, a
  <2> QED
    BY <1>1, <2>7, Less
<1>3. r + 1 \in 1 .. a
  BY <1>1, <1>2
<1>4. accepted[Peer(e)][r + 1] = m
  BY <1>1, <1>3 DEF ProgramInv, EndInv
<1>5. m \in Messages
  <2>1. accepted[Peer(e)] \in Seq(Messages)
    BY <1>1 DEF TypeOK
  <2> QED
    BY <1>3, <1>4, <2>1
<1>6. Peer(e) = "initiator" => r + 1 <= N
  <2>1. Len(accepted["initiator"]) <= N /\ N \in Nat
    BY Sizes DEF ProgramInv
  <2> QED
    BY <1>1, <1>2, <2>1
<1>7. /\ Bytes(m) \in Buffers /\ DOMAIN Bytes(m) = 1 .. L
      /\ \A i \in 1 .. L : Bytes(m)[i] = <<m, i>>
  BY <1>1, <1>5, <1>6, BytesFacts
<1>8. \A j \in 1 .. L : buffer'[e][j] = <<m, j>>
  <2>1. L - left[e] + k = L
    BY <1>1
  <2> QED
    BY <2>1, GotBytes
<1>9. DOMAIN buffer'[e] = 1 .. L /\ buffer'[e] \in Buffers
  BY DEF Got, TypeOK
<1> HIDE DEF m, r, a, L
<1>10. buffer'[e] = Bytes(m)
  <2>1. \A i \in DOMAIN buffer'[e] : buffer'[e][i] = Bytes(m)[i]
    BY <1>7, <1>8, <1>9
  <2>2. DOMAIN buffer'[e] = DOMAIN Bytes(m)
    BY <1>7, <1>9
  <2> QED
    BY <1>7, <1>9, <2>1, <2>2, SameBuffer
<1> QED
  BY <1>2, <1>4, <1>5, <1>10 DEF m, r, a

-----------------------------------------------------------------------------
(* The buffers and what recv has returned.                                 *)

(* A step that moves no byte.                                              *)
LEMMA PrefixOther ==
  ASSUME TypeOK, NEW e \in Ends, PrefixInv(e),
         UNCHANGED <<buffer, accepted, received>>,
         pc'[e] = "recv" =>
           \/ pc[e] = "recv" /\ left'[e] = left[e]
           \/ left'[e] = InLen(e)
  PROVE  PrefixInv(e)'
<1>1. InLen(e) \in Nat
  BY EndFacts
<1>2. CASE pc'[e] = "recv" /\ left'[e] = InLen(e)
  <2>1. ~\E j \in 1 .. InLen(e) - left'[e] : TRUE
    BY <1>1, <1>2
  <2> QED
    BY <1>2, <2>1 DEF PrefixInv
<1>3. CASE pc'[e] = "recv" => pc[e] = "recv" /\ left'[e] = left[e]
  BY <1>3 DEF PrefixInv
<1> QED
  BY <1>2, <1>3

(* A ::send.                                                               *)
LEMMA PrefixSend ==
  ASSUME TypeOK, ProgramInv, NEW e \in Ends, SendPiece(e), NEW d \in Ends, PrefixInv(d)
  PROVE  PrefixInv(d)'
<1>1. PICK k \in 1 .. left[e] : Sent(e, k)
  BY SendFacts
<1>2. /\ pc[e] = "send" /\ UNCHANGED <<buffer, received>>
      /\ pc'[Peer(e)] = pc[Peer(e)] /\ left'[Peer(e)] = left[Peer(e)]
      /\ accepted'[Peer(e)] = accepted[Peer(e)]
      /\ pc'[e] = "recv" => left'[e] = InLen(e)
  BY <1>1 DEF Sent, SendPiece
<1>3. Peer(e) \in Ends /\ Peer(Peer(e)) = e /\ (d # e => d = Peer(e)) /\ InLen(d) \in Nat
  BY EndFacts
<1>4. CASE d = e
  <2>1. pc'[e] = "recv" => ~\E j \in 1 .. InLen(e) - left'[e] : TRUE
    BY <1>2, <1>3, <1>4
  <2> QED
    BY <1>2, <1>4, <2>1 DEF PrefixInv
<1>5. CASE d = Peer(e)
  <2>1. Len(accepted[e]) <= Len(accepted'[e])
    <3>1. CASE UNCHANGED accepted
      BY <3>1, Sizes
    <3>2. CASE accepted'[e] = Append(accepted[e], Nth(e, Len(accepted[e]) + 1))
      BY <1>2, <3>2, CurrentFacts, AppendFacts DEF TypeOK
    <3> QED
      BY <1>1, <3>1, <3>2 DEF Sent
  <2>2. Len(received[d]) <= Len(accepted[e]) /\ Peer(d) = e
    BY <1>3, <1>5 DEF PrefixInv
  <2>3. Len(accepted'[e]) \in Nat
    BY SendFacts DEF TypeOK
  <2>4. Len(received'[d]) <= Len(accepted'[Peer(d)])
    BY <1>2, <1>3, <2>1, <2>2, <2>3, Sizes
  <2> QED
    BY <1>2, <1>5, <2>4 DEF PrefixInv
<1> QED
  BY <1>3, <1>4, <1>5

(* A ::recv.                                                               *)
LEMMA PrefixRecv ==
  ASSUME TypeOK, ProgramInv, SyncInv, NEW e \in Ends, RecvPiece(e),
         FlowInv(e), NEW d \in Ends, PrefixInv(d)
  PROVE  PrefixInv(d)'
<1>1. PICK k \in 1 .. left[e] : Got(e, k)
  BY RecvFacts
<1>2. /\ pc[e] = "recv" /\ Usable(e) /\ left[e] \in 1 .. InLen(e) /\ InLen(e) \in Nat
      /\ pc'[Peer(e)] = pc[Peer(e)] /\ left'[Peer(e)] = left[Peer(e)]
      /\ received'[Peer(e)] = received[Peer(e)] /\ buffer'[Peer(e)] = buffer[Peer(e)]
      /\ UNCHANGED accepted
  BY <1>1, EndFacts DEF Got, RecvPiece
<1>3. Open(e)
  <2>1. k \in 1 .. Len(wire[e]) /\ Len(wire[e]) \in Nat
    BY <1>1, <1>2, Sizes DEF Got
  <2>2. wire[e] # <<>>
    BY <2>1, Sizes
  <2> QED
    BY <1>2, <2>2, ReceiverOpen
<1>4. d # e => d = Peer(e)
  BY EndFacts
<1>5. CASE d = Peer(e)
  BY <1>2, <1>5 DEF PrefixInv
<1>6. CASE d = e /\ k < left[e]
  <2>1. left'[e] = left[e] - k /\ UNCHANGED <<pc, received>>
    BY <1>1, <1>2, <1>6 DEF Got
  <2>2. InLen(e) - left'[e] = InLen(e) - left[e] + k
    BY <1>2, <2>1
  <2>3. \A j \in 1 .. InLen(e) - left[e] + k :
          buffer'[e][j] = <<Nth(Peer(e), Len(received[e]) + 1), j>>
    BY <1>1, <1>2, <1>3, <1>6, GotBytes
  <2> QED
    BY <1>2, <1>6, <2>1, <2>2, <2>3 DEF PrefixInv
<1>7. CASE d = e /\ k = left[e]
  <2> DEFINE r == Len(received[e])
             m == Nth(Peer(e), r + 1)
  <2>1. received'[e] = Append(received[e], buffer'[e]) /\ pc'[e] \in {"write", "close"}
    BY <1>1, <1>2, <1>7 DEF Got
  <2>2. TypeOK'
    BY RecvFacts
  <2>3. r + 1 <= Len(accepted[Peer(e)]) /\ buffer'[e] = Bytes(m)
    BY <1>1, <1>2, <1>3, <1>7, <2>2, WholeMessage
  <2>4. received[e] \in Seq(Buffers) /\ buffer'[e] \in Buffers /\ r \in Nat
    BY <2>2, Sizes DEF TypeOK
  <2>5. /\ Len(received'[e]) = r + 1
        /\ \A i \in 1 .. r : received'[e][i] = received[e][i]
        /\ received'[e][r + 1] = Bytes(m)
    BY <2>1, <2>3, <2>4, AppendFacts
  <2>6. \A i \in 1 .. Len(received'[e]) : received'[e][i] = Bytes(Nth(Peer(e), i))
    <3> SUFFICES ASSUME NEW i \in 1 .. r + 1
                 PROVE  received'[e][i] = Bytes(Nth(Peer(e), i))
      BY <2>5
    <3>1. CASE i = r + 1
      BY <2>5, <3>1
    <3>2. CASE i \in 1 .. r
      BY <1>7, <2>5, <3>2 DEF PrefixInv
    <3> QED
      BY <2>4, <3>1, <3>2
  <2> QED
    BY <1>2, <1>7, <2>1, <2>3, <2>5, <2>6 DEF PrefixInv
<1> QED
  BY <1>1, <1>2, <1>4, <1>5, <1>6, <1>7

-----------------------------------------------------------------------------
(* The bytes on the wire, step by step.                                    *)

(* Nothing changes for the direction to d when no byte moves on it, the    *)
(* receiver stays where it is in the stream and the sender does not begin. *)
LEMMA FlowSame ==
  ASSUME NEW d \in Ends, FlowInv(d), Open(d)' => Open(d), Open(d)' => Place(d)' = Place(d),
         wire'[d] = wire[d], accepted'[Peer(d)] = accepted[Peer(d)],
         Open(d)' /\ pc'[Peer(d)] = "send" =>
           pc[Peer(d)] = "send" /\ left'[Peer(d)] = left[Peer(d)]
  PROVE  FlowInv(d)'
<1> SUFFICES ASSUME Open(d)'
             PROVE  /\ \A j \in 1 .. Len(wire'[d]) : At(Peer(d), Place(d)' + j, wire'[d][j])
                    /\ Len(accepted'[Peer(d)]) * InLen(d) <= Front(d)'
                    /\ Front(d)' < (Len(accepted'[Peer(d)]) + 1) * InLen(d)
                    /\ pc'[Peer(d)] = "send" =>
                         Front(d)' = Len(accepted'[Peer(d)]) * InLen(d)
                                       + (InLen(d) - left'[Peer(d)])
  BY DEF FlowInv, At
<1>1. Front(d)' = Front(d) /\ Place(d)' = Place(d)
  BY DEF Front
<1> QED
  BY <1>1, Zenon DEF FlowInv

(* A ::send puts its bytes where the stream ends.                          *)
LEMMA FlowSend ==
  ASSUME TypeOK, ProgramInv, NEW e \in Ends, SendPiece(e), FlowInv(Peer(e))
  PROVE  FlowInv(Peer(e))'
<1> DEFINE p == Peer(e)
           a == Len(accepted[e])
           L == OutLen(e)
           from == L - left[e]
           w == wire[p]
<1>1. PICK k \in 1 .. left[e] : Sent(e, k)
  BY SendFacts
<1>2. /\ p \in Ends /\ Peer(p) = e /\ InLen(p) = L /\ L \in Nat /\ L > 0
      /\ pc[e] = "send" /\ left[e] \in 1 .. L /\ a \in Nat /\ from \in Nat
      /\ Len(w) \in Nat /\ w \in Seq(Byte)
  <2>1. p \in Ends /\ Peer(p) = e /\ InLen(p) = L /\ L \in Nat /\ L > 0
    BY EndFacts
  <2>2. pc[e] = "send" /\ left[e] \in 1 .. L
    BY DEF SendPiece, ProgramInv, EndInv
  <2>3. a \in Nat /\ Len(w) \in Nat /\ w \in Seq(Byte)
    BY <2>1, Sizes DEF TypeOK
  <2> QED
    BY <2>1, <2>2, <2>3
<1>3. /\ (Open(p)' <=> Open(p)) /\ Place(p)' = Place(p) /\ Place(p) \in Nat
      /\ Front(p) = Place(p) + Len(w)
  <2>1. /\ UNCHANGED <<listening, link, sock, buffer, received, blocks>>
        /\ pc'[p] = pc[p] /\ left'[p] = left[p]
    BY <1>1 DEF Sent
  <2>2. Place(p)' = Place(p)
    BY <2>1 DEF Place
  <2>3. Open(p)' <=> Open(p)
    BY <2>1 DEF Open, Synced
  <2> QED
    BY <1>2, <2>2, <2>3, PlaceFacts
<1> SUFFICES ASSUME Open(p)'
             PROVE  /\ \A j \in 1 .. Len(wire'[p]) : At(Peer(p), Place(p)' + j, wire'[p][j])
                    /\ Len(accepted'[Peer(p)]) * InLen(p) <= Front(p)'
                    /\ Front(p)' < (Len(accepted'[Peer(p)]) + 1) * InLen(p)
                    /\ pc'[Peer(p)] = "send" =>
                         Front(p)' = Len(accepted'[Peer(p)]) * InLen(p)
                                       + (InLen(p) - left'[Peer(p)])
  BY DEF FlowInv, At
<1> SUFFICES /\ \A j \in 1 .. Len(wire'[p]) : At(e, Place(p) + j, wire'[p][j])
             /\ Len(accepted'[e]) * L <= Front(p)'
             /\ Front(p)' < (Len(accepted'[e]) + 1) * L
             /\ pc'[e] = "send" => Front(p)' = Len(accepted'[e]) * L + (L - left'[e])
  BY <1>2, <1>3, Zenon
<1>4. /\ wire'[p] = w \o SomeBytes(e, from, k)
  BY <1>1, <1>2, <1>3, OpenNotGone DEF Sent
<1>5. /\ SomeBytes(e, from, k) \in Seq(Byte) /\ Len(SomeBytes(e, from, k)) = k
      /\ \A i \in 1 .. k : SomeBytes(e, from, k)[i] = <<Nth(e, a + 1), from + i>>
  BY <1>2, PieceFacts, CurrentFacts
<1>6. /\ Len(wire'[p]) = Len(w) + k
      /\ \A j \in 1 .. Len(w) : wire'[p][j] = w[j]
      /\ \A i \in 1 .. k : wire'[p][Len(w) + i] = <<Nth(e, a + 1), from + i>>
  <2> DEFINE s == SomeBytes(e, from, k)
  <2>1. /\ Len(w \o s) = Len(w) + k
        /\ \A j \in 1 .. Len(w) : (w \o s)[j] = w[j]
        /\ \A i \in 1 .. k : (w \o s)[Len(w) + i] = s[i]
    <3>1. s \in Seq(Byte) /\ Len(s) = k /\ w \in Seq(Byte)
      BY <1>2, <1>5 DEF s
    <3> HIDE DEF s, w
    <3>0. \A u, v \in Seq(Byte) :
            /\ Len(u \o v) = Len(u) + Len(v)
            /\ \A j \in 1 .. Len(u) : (u \o v)[j] = u[j]
            /\ \A i \in 1 .. Len(v) : (u \o v)[Len(u) + i] = v[i]
      BY ConcatFacts
    <3>2. /\ Len(w \o s) = Len(w) + Len(s)
          /\ \A j \in 1 .. Len(w) : (w \o s)[j] = w[j]
          /\ \A i \in 1 .. Len(s) : (w \o s)[Len(w) + i] = s[i]
      BY <3>1, <3>0, Zenon
    <3> QED
      BY <3>1, <3>2, Zenon
  <2> QED
    BY <1>4, <1>5, <2>1 DEF s
<1> DEFINE x == a * L
<1>7. Front(p) = x + from /\ x \in Nat
  BY <1>2, <1>3, MulNat DEF FlowInv
<1>8. Front(p)' = Place(p) + (Len(w) + k)
  BY <1>3, <1>6 DEF Front
<1>9. \A j \in 1 .. Len(w) : At(e, Place(p) + j, w[j])
  BY <1>2, <1>3 DEF FlowInv
<1>10. \A j \in 1 .. Len(wire'[p]) : At(e, Place(p) + j, wire'[p][j])
  <2> SUFFICES ASSUME NEW j \in 1 .. Len(w) + k PROVE At(e, Place(p) + j, wire'[p][j])
    BY <1>6
  <2>1. CASE j \in 1 .. Len(w)
    BY <1>6, <1>9, <2>1
  <2>2. CASE Len(w) < j
    <3> DEFINE i == j - Len(w)
    <3> HIDE DEF from, x, L, a, w
    <3>1. i \in 1 .. k /\ j = Len(w) + i
      BY <1>2, <2>2
    <3>2. from + i \in 1 .. L
      BY <1>2, <3>1 DEF from
    <3>3. wire'[p][j] = <<Nth(e, a + 1), from + i>>
      BY <1>6, <3>1
    <3>4. x + (from + i) = Place(p) + j
      BY <1>2, <1>3, <1>7, <3>1
    <3> HIDE DEF i
    <3> QED
      BY <1>2, <3>2, <3>3, <3>4 DEF At, x, L
  <2> QED
    BY <1>2, <2>1, <2>2
<1>11. (a + 1) * L = x + L /\ (a + 1 + 1) * L = (a + 1) * L + L
  <2>1. a \in Nat /\ a + 1 \in Nat /\ L \in Nat
    BY <1>2
  <2> HIDE DEF a, L
  <2> QED
    BY <2>1, MulSucc
<1>12. Front(p)' = x + (L - left[e]) + k
  <2>1. Front(p)' = x + from + k
    <3> HIDE DEF x, from, w
    <3> QED
      BY <1>2, <1>3, <1>7, <1>8
  <2> QED
    BY <2>1
<1>13. CASE k < left[e]
  <2>1. left'[e] = left[e] - k /\ UNCHANGED <<pc, accepted>>
    BY <1>1, <1>2, <1>13 DEF Sent
  <2> DEFINE y == (a + 1) * L
  <2>2. y = x + L
    BY <1>11
  <2> HIDE DEF x, y, L
  <2>3. x <= Front(p)' /\ Front(p)' < y /\ Front(p)' = x + (L - left'[e])
    <3>1. L \in Nat /\ left[e] \in 1 .. L /\ k \in 1 .. left[e] /\ x \in Nat
      BY <1>2, <1>7
    <3> DEFINE f == x + (L - left[e]) + k
    <3>2. x <= f /\ f < x + L /\ f = x + (L - (left[e] - k))
      BY <1>13, <3>1, MoreBytes
    <3> HIDE DEF f
    <3> QED
      BY <1>12, <2>1, <2>2, <3>2 DEF f
  <2> QED
    BY <1>10, <2>1, <2>3 DEF x, y, L
<1>14. CASE k = left[e]
  <2>1. /\ accepted'[e] = Append(accepted[e], Nth(e, a + 1))
        /\ pc'[e] = "send" => left'[e] = L
    BY <1>1, <1>2, <1>14 DEF Sent
  <2>2. Len(accepted'[e]) = a + 1
    BY <1>2, <2>1, CurrentFacts, AppendFacts DEF TypeOK
  <2> DEFINE y == (a + 1) * L
             z == (a + 1 + 1) * L
  <2>3. y = x + L /\ z = y + L
    BY <1>11
  <2> HIDE DEF x, y, z, L
  <2>4. y <= Front(p)' /\ Front(p)' < z /\ (pc'[e] = "send" => Front(p)' = y + (L - left'[e]))
    BY <1>2, <1>7, <1>12, <1>14, <2>1, <2>3, MoreBytes
  <2> QED
    BY <1>10, <2>2, <2>4 DEF y, z, L
<1> QED
  BY <1>2, <1>13, <1>14

(* A ::send does not move the bytes that come to its own end.              *)
LEMMA FlowSendOther ==
  ASSUME TypeOK, ProgramInv, NEW e \in Ends, SendPiece(e), FlowInv(e)
  PROVE  FlowInv(e)'
<1>1. PICK k \in 1 .. left[e] : Sent(e, k)
  BY SendFacts
<1>2. /\ pc[e] = "send" /\ UNCHANGED <<link, sock, received, blocks>>
      /\ wire'[e] = wire[e] /\ accepted'[Peer(e)] = accepted[Peer(e)]
      /\ pc'[Peer(e)] = pc[Peer(e)] /\ left'[Peer(e)] = left[Peer(e)]
      /\ pc'[e] = "recv" => left'[e] = InLen(e)
      /\ e = "target" => pc'[e] \in {"send", "close"}
  BY <1>1 DEF Sent, SendPiece
<1>3. Open(e)' => Open(e)
  BY <1>2 DEF Open
<1>4. Place(e)' = Place(e)
  <2>1. /\ Place(e)' = Len(received[e]) * InLen(e)
                         + (IF pc'[e] = "recv" THEN InLen(e) - left'[e] ELSE 0)
        /\ Place(e) = Len(received[e]) * InLen(e) + 0
    BY <1>2 DEF Place
  <2>2. (IF pc'[e] = "recv" THEN InLen(e) - left'[e] ELSE 0) = 0
    BY <1>2, EndFacts
  <2> QED
    BY <2>1, <2>2
<1> QED
  BY <1>2, <1>3, <1>4, FlowSame

(* A ::recv takes its bytes from the front of the stream.                  *)
LEMMA FlowRecv ==
  ASSUME TypeOK, ProgramInv, SyncInv, NEW e \in Ends, RecvPiece(e), FlowInv(e)
  PROVE  FlowInv(e)'
<1> DEFINE L == InLen(e)
           r == Len(received[e])
           w == wire[e]
           p == Peer(e)
<1>1. PICK k \in 1 .. left[e] : Got(e, k)
  BY RecvFacts
<1>2. /\ pc[e] = "recv" /\ Usable(e) /\ left[e] \in 1 .. L /\ L \in Nat
      /\ wire'[e] = SubSeq(w, k + 1, Len(w)) /\ UNCHANGED <<link, sock, accepted, blocks>>
      /\ pc'[p] = pc[p] /\ left'[p] = left[p]
  BY <1>1, EndFacts DEF Got, RecvPiece
<1>3. w \in Seq(Byte) /\ Len(w) \in Nat /\ k \in 1 .. Len(w) /\ r \in Nat
  BY <1>1, <1>2, Sizes DEF Got, TypeOK
<1>4. Open(e)
  <2>1. w # <<>>
    BY <1>3, Sizes
  <2> QED
    BY <1>2, <2>1, ReceiverOpen
<1>5. /\ Len(wire'[e]) = Len(w) - k
      /\ \A i \in 1 .. Len(w) - k : wire'[e][i] = w[k + i]
  <2>1. \A u \in Seq(Byte) : \A n \in 1 .. Len(u) :
          /\ Len(SubSeq(u, n + 1, Len(u))) = Len(u) - n
          /\ \A i \in 1 .. Len(u) - n : SubSeq(u, n + 1, Len(u))[i] = u[n + i]
    BY RestFacts
  <2> QED
    BY <1>2, <1>3, <2>1, Zenon
<1> DEFINE x == r * L
<1>6. /\ Place(e) = x + (L - left[e]) /\ x \in Nat /\ Place(e) \in Nat
      /\ Front(e) = Place(e) + Len(w)
  BY <1>2, PlaceFacts
<1>7. Open(e)' => Place(e)' = Place(e) + k
  <2>1. CASE k < left[e]
    <3>1. left'[e] = left[e] - k /\ UNCHANGED <<pc, received>>
      BY <1>1, <1>2, <2>1 DEF Got
    <3>2. Place(e)' = x + (L - left'[e])
      BY <1>2, <3>1 DEF Place
    <3> HIDE DEF x, L
    <3> QED
      BY <1>2, <1>6, <3>1, <3>2
  <2>2. CASE k = left[e]
    <3>1. /\ received'[e] = Append(received[e], buffer'[e])
          /\ pc'[e] = IF e = "target" THEN "write" ELSE "close"
      BY <1>1, <1>2, <2>2 DEF Got
    <3>2. Len(received'[e]) = r + 1
      <4>1. TypeOK'
        BY RecvFacts
      <4>2. received[e] \in Seq(Buffers) /\ buffer'[e] \in Buffers
        BY <4>1 DEF TypeOK
      <4> QED
        BY <3>1, <4>2, AppendFacts
    <3>3. Place(e)' = (r + 1) * L + 0
      BY <3>1, <3>2 DEF Place
    <3>4. (r + 1) * L = x + L
      BY <1>2, <1>3, MulSucc
    <3>5. Place(e)' = x + L + 0
      BY <3>3, <3>4
    <3> HIDE DEF x, L
    <3> QED
      BY <1>2, <1>6, <2>2, <3>5
  <2> QED
    BY <1>2, <2>1, <2>2
<1> SUFFICES ASSUME Open(e)'
             PROVE  /\ \A j \in 1 .. Len(wire'[e]) : At(p, Place(e)' + j, wire'[e][j])
                    /\ Len(accepted'[p]) * L <= Front(e)'
                    /\ Front(e)' < (Len(accepted'[p]) + 1) * L
                    /\ pc'[p] = "send" =>
                         Front(e)' = Len(accepted'[p]) * L + (L - left'[p])
  BY DEF FlowInv, At
<1>8. Front(e)' = Front(e)
  <2>1. Front(e)' = Place(e) + k + (Len(w) - k)
    BY <1>5, <1>7 DEF Front
  <2> HIDE DEF w
  <2> QED
    BY <1>3, <1>6, <2>1
<1>9. \A j \in 1 .. Len(wire'[e]) : At(p, Place(e)' + j, wire'[e][j])
  <2> SUFFICES ASSUME NEW j \in 1 .. Len(w) - k
               PROVE  At(p, Place(e)' + j, wire'[e][j])
    BY <1>5
  <2> HIDE DEF w
  <2>1. k + j \in 1 .. Len(w) /\ Place(e) + (k + j) = Place(e)' + j
    BY <1>3, <1>6, <1>7
  <2>2. At(p, Place(e) + (k + j), w[k + j])
    BY <1>4, <2>1 DEF FlowInv, w
  <2>3. wire'[e][j] = w[k + j]
    BY <1>5
  <2> QED
    BY <2>1, <2>2, <2>3
<1>10. /\ Len(accepted[p]) * L <= Front(e)
       /\ Front(e) < (Len(accepted[p]) + 1) * L
       /\ pc[p] = "send" => Front(e) = Len(accepted[p]) * L + (L - left[p])
  BY <1>4, Zenon DEF FlowInv
<1> QED
  BY <1>2, <1>8, <1>9, <1>10, Zenon

(* A ::recv does not move the bytes that its own end has sent.             *)
LEMMA FlowRecvOther ==
  ASSUME TypeOK, ProgramInv, NEW e \in Ends, RecvPiece(e), FlowInv(Peer(e))
  PROVE  FlowInv(Peer(e))'
<1>1. PICK k \in 1 .. left[e] : Got(e, k)
  BY RecvFacts
<1>2. /\ pc[e] = "recv" /\ pc'[e] # "send" /\ UNCHANGED <<link, sock, accepted, blocks>>
      /\ wire'[Peer(e)] = wire[Peer(e)] /\ received'[Peer(e)] = received[Peer(e)]
      /\ pc'[Peer(e)] = pc[Peer(e)] /\ left'[Peer(e)] = left[Peer(e)]
  BY <1>1 DEF Got, RecvPiece
<1>3. Peer(e) \in Ends /\ Peer(Peer(e)) = e
  BY EndFacts
<1>4. Open(Peer(e))' => Open(Peer(e))
  BY <1>2 DEF Open, Synced
<1>5. Place(Peer(e))' = Place(Peer(e))
  BY <1>2 DEF Place
<1> QED
  BY <1>2, <1>3, <1>4, <1>5, FlowSame

(* The beginning of a call that sends nothing new to an end that receives. *)
LEMMA FlowBegin ==
  ASSUME TypeOK, NEW e \in Ends, NEW call, Begin(e, call), UNCHANGED link,
         UNCHANGED blocks \/ e = "target",
         Open(e)' => Open(e) /\ pc[e] # "recv",
         call # "send" \/ ~Open(Peer(e))',
         NEW d \in Ends, FlowInv(d)
  PROVE  FlowInv(d)'
<1>1. /\ Still /\ pc'[e] = call /\ pc'[Peer(e)] = pc[Peer(e)] /\ left'[Peer(e)] = left[Peer(e)]
      /\ call = "recv" => left'[e] = InLen(e)
  BY DEF Begin
<1>2. Peer(e) \in Ends /\ Peer(Peer(e)) = e /\ (d # e => d = Peer(e)) /\ InLen(e) \in Nat
  BY EndFacts
<1>3. CASE d = e
  <2>1. Open(e)' => Place(e)' = Place(e)
    <3> SUFFICES ASSUME Open(e)' PROVE Place(e)' = Place(e)
      OBVIOUS
    <3>1. /\ Place(e)' = Len(received[e]) * InLen(e)
                           + (IF pc'[e] = "recv" THEN InLen(e) - left'[e] ELSE 0)
          /\ Place(e) = Len(received[e]) * InLen(e) + 0
      BY <1>1 DEF Place, Still
    <3>2. (IF pc'[e] = "recv" THEN InLen(e) - left'[e] ELSE 0) = 0
      BY <1>1, <1>2
    <3> QED
      BY <3>1, <3>2
  <2> QED
    BY <1>1, <1>3, <2>1, FlowSame DEF Still
<1>4. CASE d = Peer(e)
  <2>1. Place(d)' = Place(d)
    BY <1>1, <1>4 DEF Place, Still
  <2>2. Open(d)' => Open(d)
    BY <1>1, <1>4 DEF Open, Synced, Still, Peer, Ends
  <2> QED
    BY <1>1, <1>2, <1>4, <2>1, <2>2, FlowSame DEF Still
<1> QED
  BY <1>2, <1>3, <1>4

(* The steps that move no byte, but for the write.                         *)
LEMMA FlowOther ==
  ASSUME TypeOK, ProgramInv, SyncInv, NEW e \in Ends,
         Listen \/ Accept \/ TargetInitFails \/ SendFails(e) \/ SigPipe(e) \/ Crash(e)
           \/ Close(e) \/ RecvClosed(e) \/ RecvFails(e),
         NEW d \in Ends, FlowInv(d)
  PROVE  FlowInv(d)'
<1>0. "target" \in Ends /\ "initiator" \in Ends /\ e \in {"initiator", "target"}
  BY DEF Ends
<1>1. CASE Listen
  <2>1. /\ pc["target"] = "init" /\ UNCHANGED <<link, blocks>> /\ Begin("target", "accept")
    BY <1>1, OtherFacts DEF Listen
  <2>2. link = "none"
    BY <2>1 DEF ProgramInv
  <2>3. ~Open("target")'
    BY <2>1, <2>2 DEF Open
  <2> QED
    BY <1>0, <2>1, <2>3, FlowBegin
<1>2. CASE Accept
  <2>1. /\ pc["target"] = "accept" /\ link = "up" /\ UNCHANGED <<link, blocks>>
        /\ Begin("target", "recv")
    BY <1>2, OtherFacts DEF Accept
  <2>2. Open("target")
    BY <2>1, Sizes DEF Open, Synced, ProgramInv
  <2> QED
    BY <1>0, <2>1, <2>2, FlowBegin
<1>3. CASE TargetInitFails
  <2>1. UNCHANGED <<link, blocks>>
    BY <1>3 DEF TargetInitFails
  <2>2. CASE Begin("target", "ended")
    <3>1. ~Open("target")'
      BY <2>2 DEF Open, Begin
    <3> QED
      BY <1>0, <2>1, <2>2, <3>1, FlowBegin
  <2>3. CASE pc["target"] = "init" /\ Begin("target", "recv")
    <3>1. link = "none"
      BY <2>3 DEF ProgramInv
    <3>2. ~Open("target")'
      BY <2>1, <3>1 DEF Open
    <3> QED
      BY <1>0, <2>1, <2>3, <3>2, FlowBegin
  <2> QED
    BY <1>3, <2>2, <2>3, OtherFacts
<1>4. CASE SendFails(e) \/ SigPipe(e) \/ Crash(e) \/ Close(e)
  <2>1. PICK call \in {"close", "killed", "ended"} : Begin(e, call)
    BY <1>4, OtherFacts
  <2>2. ~Open(e)' /\ call # "send"
    BY <1>0, <2>1 DEF Open, Begin
  <2>3. UNCHANGED <<link, blocks>>
    BY <1>4 DEF SendFails, SigPipe, Crash, Close
  <2> QED
    BY <2>1, <2>2, <2>3, FlowBegin
<1>5. CASE RecvClosed(e)
  <2> DEFINE call == IF e = "target" THEN "write" ELSE "close"
  <2>1. pc[e] = "recv" /\ UNCHANGED <<link, blocks>> /\ Begin(e, call)
    BY <1>5, OtherFacts DEF RecvClosed
  <2>2. ~Open(e)'
    <3>1. CASE e = "initiator"
      BY <2>1, <3>1 DEF Open, Begin
    <3>2. CASE e = "target"
      <4>1. pc'["target"] = "write" /\ received' = received
        BY <2>1, <3>2 DEF Begin, Still
      <4>2. Len(received["target"]) <= Len(blocks)
        BY <1>0, <2>1, <3>2, Sizes DEF SyncInv, Synced
      <4>3. Len(blocks') # Len(received'["target"]) - 1
        BY <1>0, <2>1, <4>1, <4>2, Sizes
      <4> QED
        BY <3>2, <4>1, <4>3 DEF Open, Synced
    <3> QED
      BY <1>0, <3>1, <3>2
  <2> QED
    BY <2>1, <2>2, FlowBegin
<1>6. CASE RecvFails(e)
  <2> DEFINE call == IF e = "target" THEN "send" ELSE "close"
  <2>1. pc[e] = "recv" /\ ~Usable(e) /\ UNCHANGED <<link, blocks>> /\ Begin(e, call)
    BY <1>6, OtherFacts DEF RecvFails
  <2>2. ~Open(e)'
    BY <1>0, <2>1 DEF Open, Begin
  <2>3. e = "target" => link # "up"
    BY <2>1 DEF ProgramInv, Usable, Ended, TypeOK
  <2>4. call # "send" \/ ~Open(Peer(e))'
    BY <1>0, <2>1, <2>3 DEF Open
  <2> QED
    BY <2>1, <2>2, <2>4, FlowBegin
<1> QED
  BY <1>1, <1>2, <1>3, <1>4, <1>5, <1>6

(* A new connection is empty.                                              *)
LEMMA FlowConnect ==
  ASSUME TypeOK, ProgramInv, Connect, NEW d \in Ends
  PROVE  FlowInv(d)'
<1>1. /\ pc["initiator"] = "init" /\ link = "none" /\ Begin("initiator", "send")
      /\ listening \/ link' = "none"
  BY OtherFacts DEF Connect, ProgramInv
<1>2. \A e \in Ends : wire[e] = <<>> /\ accepted[e] = <<>> /\ received[e] = <<>>
  BY <1>1 DEF ProgramInv, EndInv
<1>3. /\ Peer(d) \in Ends /\ InLen(d) \in Nat /\ InLen(d) > 0 /\ "target" \in Ends
      /\ InLen(d) = OutLen(Peer(d))
  BY EndFacts DEF Ends
<1> SUFFICES ASSUME Open(d)' PROVE FlowInv(d)'
  BY DEF FlowInv
<1>4. pc["target"] = "accept"
  BY <1>1 DEF Open, ProgramInv
<1>5. /\ pc'["initiator"] = "send" /\ pc'["target"] = "accept"
      /\ left'["initiator"] = OutLen("initiator") /\ Still
  BY <1>1, <1>4 DEF Begin, Peer
<1>6. pc'[d] # "recv" /\ (pc'[Peer(d)] = "send" => left'[Peer(d)] = InLen(d))
  BY <1>3, <1>5 DEF Ends
<1>7. wire'[d] = <<>> /\ accepted'[Peer(d)] = <<>> /\ received'[d] = <<>> /\ Len(<<>>) = 0
  BY <1>2, <1>3, <1>5 DEF Still
<1>8. Len(wire'[d]) = 0 /\ Len(accepted'[Peer(d)]) = 0 /\ Len(received'[d]) = 0
  BY <1>7
<1>9. Place(d)' = 0 /\ Front(d)' = 0
  <2>1. Place(d)' = 0 * InLen(d) + 0
    BY <1>6, <1>8 DEF Place
  <2>2. 0 * InLen(d) = 0
    BY <1>3
  <2>3. Place(d)' = 0
    BY <2>1, <2>2
  <2> QED
    BY <1>8, <2>3 DEF Front
<1>10. /\ 0 * InLen(d) <= 0 /\ 0 < (0 + 1) * InLen(d)
       /\ pc'[Peer(d)] = "send" => 0 = 0 * InLen(d) + (InLen(d) - left'[Peer(d)])
  BY <1>3, <1>6
<1>11. ~\E j \in 1 .. Len(wire'[d]) : TRUE
  BY <1>8
<1> QED
  BY <1>8, <1>9, <1>10, <1>11 DEF FlowInv

(* The write: the target begins "done" with the stream back empty.         *)
LEMMA FlowWrite ==
  ASSUME TypeOK, ProgramInv, SyncInv, WriteBlock, NEW d \in Ends, FlowInv(d)
  PROVE  FlowInv(d)'
<1>0. "target" \in Ends /\ "initiator" \in Ends /\ buffer["target"] \in Buffers
  BY DEF Ends, TypeOK
<1>1. pc["target"] = "write" /\ UNCHANGED link
  BY WriteFacts
<1>2. CASE UNCHANGED blocks /\ Begin("target", "close")
  <2>1. ~Open("target")'
    BY <1>2 DEF Open, Begin
  <2> QED
    BY <1>0, <1>1, <1>2, <2>1, FlowBegin
<1>3. ASSUME blocks' = Append(blocks, buffer["target"]), NEW call \in {"recv", "send"},
             Begin("target", call)
      PROVE  FlowInv(d)'
  <2>1. Len(blocks') = Len(blocks) + 1
    BY <1>0, <1>3, AppendFacts DEF TypeOK
  <2>2. Open("target")' => Open("target") /\ pc["target"] # "recv"
    <3> SUFFICES ASSUME Open("target")' PROVE Open("target")
      BY <1>1
    <3>1. link = "up" /\ pc'["target"] = "recv" /\ Len(blocks') = Len(received'["target"])
      BY <1>1, <1>3 DEF Open, Synced, Begin
    <3>2. Len(blocks) = Len(received["target"]) - 1
      BY <1>0, <1>3, <2>1, <3>1, Sizes DEF Begin, Still
    <3> QED
      BY <1>1, <3>1, <3>2 DEF Open, Synced
  <2>3. CASE d = "target" \/ call # "send"
    <3>1. CASE call # "send"
      BY <1>0, <1>1, <1>3, <2>2, <3>1, FlowBegin
    <3>2. CASE d = "target"
      <4>1. /\ pc'["target"] = call /\ pc'["initiator"] = pc["initiator"] /\ Still
            /\ left'["initiator"] = left["initiator"]
            /\ call = "recv" => left'["target"] = InLen("target")
        BY <1>3 DEF Begin, Peer
      <4>2. Place("target")' = Place("target")
        <5>1. /\ Place("target")' = Len(received["target"]) * InLen("target")
                   + (IF call = "recv" THEN InLen("target") - left'["target"] ELSE 0)
              /\ Place("target") = Len(received["target"]) * InLen("target") + 0
          BY <1>1, <4>1 DEF Place, Still
        <5>2. (IF call = "recv" THEN InLen("target") - left'["target"] ELSE 0) = 0
          BY <1>0, <4>1, EndFacts
        <5> QED
          BY <5>1, <5>2
      <4> QED
        BY <1>0, <2>2, <3>2, <4>1, <4>2, FlowSame DEF Still, Peer
    <3> QED
      BY <2>3, <3>1, <3>2
  <2>4. CASE d = "initiator" /\ call = "send"
    <3>1. /\ Peer(d) = "target" /\ InLen(d) = DoneSize /\ DoneSize \in Nat /\ DoneSize > 0
          /\ OutLen("target") = DoneSize
      BY <2>4, Sizes DEF Peer, InLen, OutLen
    <3>2. Len(blocks) < N /\ Len(blocks) \in Nat /\ N \in Nat
      BY <1>1, Sizes DEF ProgramInv
    <3>3. /\ wire["initiator"] = <<>> /\ received["initiator"] = <<>>
          /\ accepted["target"] = <<>>
          /\ pc["initiator"] = "recv" => left["initiator"] = DoneSize
      BY <1>0, <1>1, <3>2, Sizes DEF ProgramInv, EndInv, InLen, OutLen, Peer
    <3>4. /\ Still /\ pc'["initiator"] = pc["initiator"]
          /\ left'["initiator"] = left["initiator"]
          /\ left'["target"] = DoneSize
      BY <1>3, <2>4, <3>1 DEF Begin, Peer
    <3>5. Len(wire'[d]) = 0 /\ Len(accepted'[Peer(d)]) = 0 /\ Len(received'[d]) = 0
      BY <2>4, <3>1, <3>3, <3>4 DEF Still
    <3>6. Place(d)' = 0 /\ Front(d)' = 0
      <4>1. /\ Place(d)' = 0 * DoneSize
                 + (IF pc["initiator"] = "recv" THEN DoneSize - left["initiator"] ELSE 0)
            /\ 0 * DoneSize = 0
        BY <2>4, <3>1, <3>4, <3>5 DEF Place
      <4>2. (IF pc["initiator"] = "recv" THEN DoneSize - left["initiator"] ELSE 0) = 0
        BY <3>1, <3>3
      <4>3. Place(d)' = 0
        BY <4>1, <4>2
      <4> QED
        BY <3>5, <4>3 DEF Front
    <3>7. /\ 0 * DoneSize <= 0 /\ 0 < (0 + 1) * DoneSize
          /\ 0 = 0 * DoneSize + (DoneSize - left'["target"])
      BY <3>1, <3>4
    <3>8. ~\E j \in 1 .. Len(wire'[d]) : TRUE
      BY <3>5
    <3> QED
      BY <3>1, <3>5, <3>6, <3>7, <3>8 DEF FlowInv
  <2> QED
    BY <2>3, <2>4 DEF Ends
<1> QED
  BY <1>2, <1>3, WriteFacts

-----------------------------------------------------------------------------
(* The target is in step with its receives.                                *)

(* Steps that leave the target's data alone and do not bring back an       *)
(* initiator that is gone.                                                 *)
LEMMA SyncSame ==
  ASSUME SyncInv, UNCHANGED blocks, buffer'["target"] = buffer["target"],
         received'["target"] = received["target"],
         Gone("initiator") => /\ Gone("initiator")'
                              /\ accepted'["initiator"] = accepted["initiator"]
                              /\ wire["target"] = <<>> => wire'["target"] = <<>>,
         pc'["target"] = pc["target"] \/ pc'["target"] \notin {"recv", "write"}
  PROVE  SyncInv'
<1>1. CASE pc'["target"] = pc["target"]
  <2>1. Synced' <=> Synced
    BY <1>1 DEF Synced
  <2> QED
    BY <1>1, <2>1 DEF SyncInv
<1>2. CASE pc'["target"] \notin {"recv", "write"}
  BY <1>2 DEF SyncInv
<1> QED
  BY <1>1, <1>2

(* A ::send.                                                               *)
LEMMA SyncSend ==
  ASSUME TypeOK, ProgramInv, SyncInv, NEW e \in Ends, SendPiece(e)
  PROVE  SyncInv'
<1>1. PICK k \in 1 .. left[e] : Sent(e, k)
  BY SendFacts
<1>2. /\ pc[e] = "send" /\ sock[e] = "open" /\ UNCHANGED <<sock, buffer, received, blocks>>
      /\ pc'[Peer(e)] = pc[Peer(e)] /\ accepted'[Peer(e)] = accepted[Peer(e)]
      /\ wire'[e] = wire[e]
      /\ e = "target" => pc'[e] \in {"send", "close"}
  BY <1>1 DEF Sent, SendPiece, Usable
<1>3. CASE e = "initiator"
  <2>1. ~Gone("initiator")
    BY <1>2, <1>3 DEF Gone, Ended
  <2> QED
    BY <1>2, <1>3, <2>1, SyncSame DEF Peer
<1>4. CASE e = "target"
  <2>1. Gone("initiator") => Gone("initiator")'
    BY <1>2, <1>4 DEF Gone, Ended, Peer
  <2> QED
    BY <1>2, <1>4, <2>1, SyncSame DEF Peer
<1> QED
  BY <1>3, <1>4 DEF Ends

(* A ::recv.                                                               *)
LEMMA SyncRecv ==
  ASSUME TypeOK, ProgramInv, SyncInv, NEW e \in Ends, RecvPiece(e), FlowInv(e), PrefixInv(e)
  PROVE  SyncInv'
<1>1. PICK k \in 1 .. left[e] : Got(e, k)
  BY RecvFacts
<1>2. /\ pc[e] = "recv" /\ Usable(e) /\ UNCHANGED <<sock, accepted, blocks>>
      /\ pc'[Peer(e)] = pc[Peer(e)] /\ received'[Peer(e)] = received[Peer(e)]
      /\ wire'[Peer(e)] = wire[Peer(e)] /\ buffer'[Peer(e)] = buffer[Peer(e)]
      /\ k <= Len(wire[e]) /\ left[e] \in 1 .. InLen(e)
  BY <1>1 DEF Got, RecvPiece
<1>3. CASE e = "initiator"
  <2>1. ~Gone("initiator")
    BY <1>2, <1>3 DEF Gone, Ended, Usable
  <2> QED
    BY <1>2, <1>3, <2>1, SyncSame DEF Peer
<1>4. CASE e = "target"
  <2>1. Open("target") /\ Synced
    <3>1. Len(wire[e]) \in Nat /\ Len(wire[e]) > 0
      BY <1>2, Sizes, EndFacts
    <3>2. wire[e] # <<>>
      BY <3>1, Sizes
    <3>3. Open("target")
      BY <1>2, <1>4, <3>2, ReceiverOpen
    <3> QED
      BY <3>3 DEF Open
  <2>2. Gone("initiator") => Gone("initiator")'
    BY <1>2, <1>4 DEF Gone, Ended, Peer
  <2>3. \A i \in 1 .. Len(blocks) :
          blocks[i] = Bytes(i) \/ (Gone("initiator") /\ Len(accepted["initiator"]) < i)
    BY DEF SyncInv
  <2>4. CASE k < left[e]
    <3>1. UNCHANGED <<pc, received>>
      BY <1>1, <1>2, <2>4, EndFacts DEF Got
    <3>2. Synced'
      BY <1>2, <2>1, <3>1 DEF Synced
    <3> QED
      BY <1>2, <1>4, <2>2, <2>3, <3>1, <3>2 DEF SyncInv
  <2>5. CASE k = left[e]
    <3>1. /\ received'["target"] = Append(received["target"], buffer'["target"])
          /\ pc'["target"] = "write"
      BY <1>1, <1>2, <1>4, <2>5, EndFacts DEF Got
    <3>2. TypeOK'
      BY RecvFacts
    <3>3. Len(received'["target"]) = Len(received["target"]) + 1
      <4>1. received["target"] \in Seq(Buffers) /\ buffer'["target"] \in Buffers
        BY <3>2 DEF TypeOK, Ends
      <4> QED
        BY <3>1, <4>1, AppendFacts
    <3>4. buffer'["target"] = Bytes(Len(received["target"]) + 1)
      <4>1. buffer'[e] = Bytes(Nth(Peer(e), Len(received[e]) + 1))
        BY <1>1, <1>2, <1>4, <2>1, <2>5, <3>2, WholeMessage
      <4> QED
        BY <1>4, <4>1 DEF Nth, Peer
    <3>5. Synced'
      <4>1. Len(blocks) = Len(received["target"]) /\ Len(received["target"]) \in Nat
        BY <1>2, <1>4, <2>1, Sizes DEF Synced, Ends
      <4> QED
        BY <1>2, <3>1, <3>3, <4>1 DEF Synced
    <3> QED
      BY <1>2, <2>2, <2>3, <3>1, <3>3, <3>4, <3>5 DEF SyncInv
  <2> QED
    BY <1>1, <1>2, <2>4, <2>5, EndFacts
<1> QED
  BY <1>3, <1>4 DEF Ends

(* A target that begins to receive has nothing behind it.                  *)
LEMMA SyncFirst ==
  ASSUME TypeOK, ProgramInv, SyncInv, pc["target"] \in {"init", "accept"},
         Begin("target", "recv"), UNCHANGED <<blocks>>
  PROVE  SyncInv'
<1>1. blocks = <<>> /\ received["target"] = <<>> /\ "target" \in Ends
  BY DEF ProgramInv, Ends
<1>2. Len(blocks') = 0 /\ Len(received'["target"]) = 0 /\ pc'["target"] = "recv"
  BY <1>1, Sizes DEF Begin, Still
<1>3. Synced'
  BY <1>2 DEF Synced
<1>4. ~\E i \in 1 .. Len(blocks') : TRUE
  BY <1>2
<1> QED
  BY <1>2, <1>3, <1>4 DEF SyncInv

(* Where the target has its next receive end early, the initiator is gone  *)
(* and has nothing on the wire.                                            *)
LEMMA SyncClosed ==
  ASSUME TypeOK, ProgramInv, SyncInv, RecvClosed("target"), FlowInv("target")
  PROVE  SyncInv'
<1> DEFINE a == Len(accepted["initiator"])
           r == Len(received["target"])
           L == InLen("target")
<1>0. "target" \in Ends /\ "initiator" \in Ends /\ Peer("target") = "initiator"
  BY DEF Ends, Peer
<1>1. /\ pc["target"] = "recv" /\ link = "up" /\ wire["target"] = <<>> /\ Gone("initiator")
      /\ UNCHANGED <<sock, blocks>>
  BY <1>0 DEF RecvClosed, Usable
<1>2. Still /\ pc'["target"] = "write" /\ pc'["initiator"] = pc["initiator"]
  BY <1>0, OtherFacts DEF Begin
<1>3. r \in Nat /\ a \in Nat /\ L \in Nat /\ Len(blocks) \in Nat /\ left["target"] \in 1 .. L
  BY <1>0, <1>1, Sizes, EndFacts DEF ProgramInv, EndInv
<1>4. a <= r /\ r <= Len(blocks)
  <2>1. CASE Synced
    <3>1. Open("target")
      BY <1>1, <2>1 DEF Open
    <3>2. a * L <= Front("target")
      BY <1>0, <3>1 DEF FlowInv
    <3>3. /\ Front("target") = Place("target") + Len(wire["target"])
          /\ Place("target") = r * L + (L - left["target"]) /\ r * L \in Nat
      BY <1>0, <1>1, PlaceFacts
    <3>4. Len(wire["target"]) = 0
      BY <1>0, <1>1, Sizes
    <3>5. (r + 1) * L = r * L + L /\ a * L \in Nat
      BY <1>3, MulSucc, MulNat
    <3> DEFINE x == r * L
               y == a * L
               z == (r + 1) * L
    <3>6. /\ y <= Front("target") /\ Front("target") = x + (L - left["target"]) + 0
          /\ x \in Nat /\ y \in Nat /\ z = x + L
      BY <3>2, <3>3, <3>4, <3>5
    <3> HIDE DEF x, y, z, L
    <3>7. y < z
      BY <1>3, <3>6
    <3>8. a * L < (r + 1) * L
      BY <3>7 DEF y, z
    <3>9. a <= r
      <4> HIDE DEF a, r
      <4> QED
        BY <1>3, <3>8, Less
    <3> QED
      BY <1>1, <1>3, <2>1, <3>9 DEF Synced
  <2>2. CASE ~Synced
    BY <1>1, <2>2 DEF SyncInv
  <2> QED
    BY <2>1, <2>2
<1>5. Gone("initiator")'
  BY <1>1, <1>2 DEF Gone, Ended
<1>6. ~Synced'
  BY <1>1, <1>2, <1>3, <1>4 DEF Synced, Still
<1>7. \A i \in 1 .. Len(blocks) :
        blocks[i] = Bytes(i) \/ (Gone("initiator") /\ Len(accepted["initiator"]) < i)
  BY DEF SyncInv
<1> QED
  BY <1>1, <1>2, <1>4, <1>5, <1>6, <1>7 DEF SyncInv, Still

(* The steps that move no byte, but for the write.                         *)
LEMMA SyncOther ==
  ASSUME TypeOK, ProgramInv, SyncInv, FlowInv("target"), NEW e \in Ends,
         Listen \/ Accept \/ TargetInitFails \/ Connect \/ SendFails(e) \/ SigPipe(e) \/ Crash(e)
           \/ Close(e) \/ RecvClosed(e) \/ RecvFails(e)
  PROVE  SyncInv'
<1>0. "target" \in Ends /\ "initiator" \in Ends /\ e \in {"initiator", "target"}
  BY DEF Ends
<1>1. CASE Listen
  <2>1. UNCHANGED <<sock, blocks>> /\ Begin("target", "accept")
    BY <1>1, OtherFacts DEF Listen
  <2>2. Gone("initiator") => Gone("initiator")'
    BY <2>1 DEF Gone, Ended, Begin, Peer
  <2> QED
    BY <2>1, <2>2, SyncSame DEF Begin, Still
<1>2. CASE Accept
  <2>1. pc["target"] = "accept" /\ UNCHANGED blocks /\ Begin("target", "recv")
    BY <1>2, OtherFacts DEF Accept
  <2> QED
    BY <2>1, SyncFirst
<1>3. CASE TargetInitFails
  <2>1. UNCHANGED <<sock, blocks>>
    BY <1>3 DEF TargetInitFails
  <2>2. CASE Begin("target", "ended")
    <3>1. Gone("initiator") => Gone("initiator")'
      BY <2>1, <2>2 DEF Gone, Ended, Begin, Peer
    <3> QED
      BY <2>1, <2>2, <3>1, SyncSame DEF Begin, Still
  <2>3. CASE pc["target"] = "init" /\ Begin("target", "recv")
    BY <2>1, <2>3, SyncFirst
  <2> QED
    BY <1>3, <2>2, <2>3, OtherFacts
<1>4. CASE Connect
  <2>1. pc["initiator"] = "init" /\ UNCHANGED blocks /\ Begin("initiator", "send")
    BY <1>4, OtherFacts DEF Connect
  <2>2. ~Gone("initiator")
    BY <2>1 DEF ProgramInv, Gone, Ended
  <2> QED
    BY <2>1, <2>2, SyncSame DEF Begin, Still, Peer
<1>5. CASE RecvClosed(e) /\ e = "target"
  BY <1>5, SyncClosed
<1>6. CASE \/ SendFails(e) \/ SigPipe(e) \/ Crash(e) \/ Close(e) \/ RecvFails(e)
           \/ RecvClosed(e) /\ e = "initiator"
  <2>1. PICK call \in {"close", "killed", "ended", "send"} :
          Begin(e, call) /\ (call = "send" => e = "target")
    <3>1. CASE SendFails(e) \/ SigPipe(e) \/ Crash(e) \/ Close(e)
      BY <3>1, OtherFacts
    <3>2. CASE RecvFails(e)
      BY <3>2, OtherFacts
    <3>3. CASE RecvClosed(e) /\ e = "initiator"
      BY <3>3, OtherFacts
    <3> QED
      BY <1>6, <3>1, <3>2, <3>3
  <2>2. /\ UNCHANGED blocks
        /\ sock["initiator"] = "closed" => sock'["initiator"] = "closed"
        /\ ~Ended(e)
    <3>1. CASE SendFails(e) \/ RecvFails(e) \/ RecvClosed(e)
      BY <3>1 DEF SendFails, RecvFails, RecvClosed, Ended
    <3>2. CASE SigPipe(e) \/ Crash(e) \/ Close(e)
      BY <1>0, <3>2 DEF SigPipe, Crash, Close, Ended, TypeOK
    <3> QED
      BY <1>6, <3>1, <3>2
  <2>3. Gone("initiator") => Gone("initiator")'
    <3>1. CASE e = "initiator"
      BY <2>2, <3>1 DEF Gone
    <3>2. CASE e = "target"
      BY <2>1, <2>2, <3>2 DEF Gone, Ended, Begin, Peer
    <3> QED
      BY <1>0, <3>1, <3>2
  <2>4. pc'["target"] = pc["target"] \/ pc'["target"] \notin {"recv", "write"}
    BY <1>0, <2>1 DEF Begin, Peer
  <2> QED
    BY <2>1, <2>2, <2>3, <2>4, SyncSame DEF Begin, Still
<1> QED
  BY <1>0, <1>1, <1>2, <1>3, <1>4, <1>5, <1>6

(* The write.                                                              *)
LEMMA SyncWrite ==
  ASSUME TypeOK, ProgramInv, SyncInv, WriteBlock
  PROVE  SyncInv'
<1> DEFINE r == Len(received["target"])
           n == Len(blocks)
<1>0. "target" \in Ends /\ buffer["target"] \in Buffers /\ blocks \in Seq(Buffers)
  BY DEF Ends, TypeOK
<1>1. pc["target"] = "write" /\ UNCHANGED sock
  BY WriteFacts
<1>2. CASE UNCHANGED blocks /\ Begin("target", "close")
  <2>1. Gone("initiator") => Gone("initiator")'
    BY <1>1, <1>2 DEF Gone, Ended, Begin, Peer
  <2> QED
    BY <1>2, <2>1, SyncSame DEF Begin, Still
<1>3. ASSUME blocks' = Append(blocks, buffer["target"]), NEW call \in {"recv", "send"},
             Begin("target", call)
      PROVE  SyncInv'
  <2>1. /\ Len(blocks') = n + 1 /\ (\A i \in 1 .. n : blocks'[i] = blocks[i])
        /\ blocks'[n + 1] = buffer["target"] /\ n \in Nat /\ r \in Nat
    BY <1>0, <1>3, AppendFacts, Sizes
  <2>2. Still /\ pc'["target"] = call /\ pc'["initiator"] = pc["initiator"]
    BY <1>3 DEF Begin, Peer
  <2>3. Gone("initiator")' <=> Gone("initiator")
    BY <1>1, <2>2 DEF Gone, Ended
  <2>4. \A i \in 1 .. n :
          blocks[i] = Bytes(i) \/ (Gone("initiator") /\ Len(accepted["initiator"]) < i)
    BY DEF SyncInv
  <2>5. CASE Synced
    <3>1. n + 1 = r /\ buffer["target"] = Bytes(r)
      BY <1>1, <2>1, <2>5 DEF Synced, SyncInv
    <3>2. Synced'
      BY <2>1, <2>2, <3>1 DEF Synced, Still
    <3>3. \A i \in 1 .. n + 1 : blocks'[i] = Bytes(i)
                                  \/ (Gone("initiator") /\ Len(accepted["initiator"]) < i)
      BY <2>1, <2>4, <3>1
    <3> QED
      BY <2>1, <2>2, <2>3, <3>2, <3>3 DEF SyncInv, Still
  <2>6. CASE ~Synced
    <3>1. /\ Gone("initiator") /\ wire["target"] = <<>>
          /\ Len(accepted["initiator"]) <= r /\ r <= n
      BY <1>1, <2>6 DEF SyncInv
    <3>2. Len(accepted["initiator"]) < n + 1 /\ r <= n + 1
      BY <2>1, <3>1, Sizes DEF Ends
    <3>3. \A i \in 1 .. n + 1 : blocks'[i] = Bytes(i)
                                  \/ (Gone("initiator") /\ Len(accepted["initiator"]) < i)
      BY <2>1, <2>4, <3>1, <3>2
    <3> QED
      BY <2>1, <2>2, <2>3, <3>1, <3>2, <3>3 DEF SyncInv, Still
  <2> QED
    BY <2>5, <2>6
<1> QED
  BY <1>2, <1>3, WriteFacts

-----------------------------------------------------------------------------
(* The inductive invariant.                                                *)

(* The beginning.                                                          *)
LEMMA TcpInit ==
  ASSUME Init
  PROVE  TcpInv
<1>0. Size \in Nat /\ DoneSize \in Nat /\ N \in Nat /\ N > 0
  BY TcpAssumption DEF TcpAssumption
<1>1. \A e \in Ends : [k \in 1 .. InLen(e) |-> Junk] \in Buffers
  <2>1. Junk \in Byte
    BY DEF Byte
  <2> QED
    BY <2>1 DEF Buffers, InLen, OutLen
<1>2. /\ \A e \in Ends : /\ sock[e] = "none" /\ pc[e] = "init" /\ left[e] = 0 /\ wire[e] = <<>>
                         /\ accepted[e] = <<>> /\ received[e] = <<>>
                         /\ buffer[e] = [k \in 1 .. InLen(e) |-> Junk]
      /\ listening = FALSE /\ link = "none" /\ blocks = <<>>
  BY DEF Init
<1>3. TypeOK
  <2>1. wire \in [Ends -> Seq(Byte)] /\ accepted \in [Ends -> Seq(Messages)]
    BY DEF Init
  <2>2. received \in [Ends -> Seq(Buffers)] /\ blocks \in Seq(Buffers)
    BY DEF Init
  <2>3. buffer \in [Ends -> Buffers] /\ \A e \in Ends : DOMAIN buffer[e] = 1 .. InLen(e)
    BY <1>1, <1>2 DEF Init
  <2>4. left \in [Ends -> 0 .. Size + DoneSize]
    BY <1>0 DEF Init
  <2> QED
    BY <2>1, <2>2, <2>3, <2>4 DEF Init, TypeOK
<1>4. "target" \in Ends /\ "initiator" \in Ends
  BY DEF Ends
<1>5. Len(<<>>) = 0
  OBVIOUS
<1>6. ProgramInv
  <2>1. ASSUME NEW e \in Ends
        PROVE  EndInv(e)
    <3>1. /\ Len(accepted[e]) = 0 /\ pc[e] = "init" /\ sock[e] = "none" /\ wire[e] = <<>>
          /\ accepted[e] = <<>> /\ received[e] = <<>>
      BY <1>2, <1>5
    <3>2. \A i \in 1 .. Len(accepted[e]) : accepted[e][i] = Nth(e, i)
      BY <3>1
    <3> QED
      BY <3>1, <3>2 DEF EndInv
  <2>2. Len(accepted["initiator"]) = 0 /\ Len(accepted["target"]) = 0 /\ Len(blocks) = 0
    BY <1>2, <1>4, <1>5
  <2>3. /\ pc["initiator"] = "init" /\ pc["target"] = "init" /\ wire["initiator"] = <<>>
        /\ sock["initiator"] = "none" /\ sock["target"] = "none"
        /\ received["initiator"] = <<>> /\ received["target"] = <<>>
        /\ accepted["target"] = <<>>
    BY <1>2, <1>4
  <2> QED
    BY <1>0, <1>2, <1>4, <2>1, <2>2, <2>3 DEF ProgramInv
<1>7. SyncInv
  <2>1. Len(blocks) = 0
    BY <1>2, <1>5
  <2>2. pc["target"] = "init"
    BY <1>2, <1>4
  <2> QED
    BY <2>1, <2>2 DEF SyncInv
<1>8. \A e \in Ends : FlowInv(e) /\ PrefixInv(e)
  <2> SUFFICES ASSUME NEW e \in Ends PROVE FlowInv(e) /\ PrefixInv(e)
    OBVIOUS
  <2>1. ~Open(e)
    BY <1>2 DEF Open
  <2>2. Len(received[e]) = 0 /\ Len(accepted[Peer(e)]) = 0 /\ pc[e] = "init"
    BY <1>2, <1>5, EndFacts
  <2> QED
    BY <2>1, <2>2 DEF FlowInv, PrefixInv
<1> QED
  BY <1>3, <1>6, <1>7, <1>8 DEF TcpInv

(* Every step.                                                             *)
LEMMA TcpStep ==
  ASSUME TcpInv, [Next]_vars
  PROVE  TcpInv'
<1>0. /\ TypeOK /\ ProgramInv /\ SyncInv /\ (\A d \in Ends : FlowInv(d) /\ PrefixInv(d))
      /\ "target" \in Ends /\ "initiator" \in Ends
  BY DEF TcpInv, Ends
<1>1. ASSUME NEW e \in Ends, SendPiece(e)
      PROVE  TcpInv'
  <2>1. TypeOK' /\ ProgramInv' /\ SyncInv'
    BY <1>0, <1>1, SendFacts, ProgramSend, SyncSend
  <2>2. \A d \in Ends : PrefixInv(d)'
    BY <1>0, <1>1, PrefixSend
  <2>3. FlowInv(e)' /\ FlowInv(Peer(e))'
    BY <1>0, <1>1, EndFacts, FlowSend, FlowSendOther
  <2>4. \A d \in Ends : FlowInv(d)'
    BY <2>3, EndFacts
  <2> QED
    BY <2>1, <2>2, <2>4 DEF TcpInv
<1>2. ASSUME NEW e \in Ends, RecvPiece(e)
      PROVE  TcpInv'
  <2>1. TypeOK' /\ ProgramInv' /\ SyncInv'
    BY <1>0, <1>2, RecvFacts, ProgramRecv, SyncRecv
  <2>2. \A d \in Ends : PrefixInv(d)'
    BY <1>0, <1>2, PrefixRecv
  <2>3. FlowInv(e)' /\ FlowInv(Peer(e))'
    BY <1>0, <1>2, EndFacts, FlowRecv, FlowRecvOther
  <2>4. \A d \in Ends : FlowInv(d)'
    BY <2>3, EndFacts
  <2> QED
    BY <2>1, <2>2, <2>4 DEF TcpInv
<1>3. ASSUME NEW e \in Ends, NEW call, Begin(e, call), NEW d \in Ends
      PROVE  PrefixInv(d)'
  <2>1. CASE d = e
    BY <1>0, <1>3, <2>1, PrefixOther DEF Begin, Still
  <2>2. CASE d = Peer(e)
    BY <1>0, <1>3, <2>2, PrefixOther DEF Begin, Still
  <2> QED
    BY <2>1, <2>2, EndFacts
<1>4. ASSUME NEW e \in Ends,
             Listen \/ Accept \/ TargetInitFails \/ Connect \/ SendFails(e) \/ SigPipe(e)
               \/ Crash(e) \/ Close(e) \/ RecvClosed(e) \/ RecvFails(e)
      PROVE  TcpInv'
  <2>1. TypeOK' /\ \E d \in Ends, call \in Calls : Begin(d, call)
    <3>1. CASE Listen \/ Accept \/ TargetInitFails \/ Connect
      BY <1>0, <3>1, OtherFacts DEF Calls
    <3>2. CASE SendFails(e) \/ SigPipe(e) \/ Crash(e) \/ Close(e)
      BY <1>0, <3>2, OtherFacts DEF Calls
    <3>3. CASE RecvClosed(e) \/ RecvFails(e)
      BY <1>0, <3>3, OtherFacts DEF Calls
    <3> QED
      BY <1>4, <3>1, <3>2, <3>3
  <2>2. ProgramInv' /\ SyncInv'
    BY <1>0, <1>4, ProgramOther, SyncOther
  <2>3. \A d \in Ends : PrefixInv(d)'
    BY <1>3, <2>1
  <2>4. \A d \in Ends : FlowInv(d)'
    BY <1>0, <1>4, FlowOther, FlowConnect
  <2> QED
    BY <2>1, <2>2, <2>3, <2>4 DEF TcpInv
<1>5. ASSUME WriteBlock
      PROVE  TcpInv'
  <2>1. TypeOK' /\ \E call \in Calls : Begin("target", call)
    BY <1>0, <1>5, WriteFacts DEF Calls
  <2>2. ProgramInv' /\ SyncInv'
    BY <1>0, <1>5, ProgramWrite, SyncWrite
  <2>3. \A d \in Ends : PrefixInv(d)' /\ FlowInv(d)'
    BY <1>0, <1>3, <1>5, <2>1, FlowWrite
  <2> QED
    BY <2>1, <2>2, <2>3 DEF TcpInv
<1>6. ASSUME Break
      PROVE  TcpInv'
  <2>1. TypeOK' /\ ProgramInv'
    BY <1>0, <1>6, BreakFacts
  <2>2. /\ link' = "broken" /\ wire'["target"] = <<>>
        /\ UNCHANGED <<sock, pc, left, buffer, accepted, received, blocks>>
    BY <1>0, <1>6 DEF Break
  <2>3. Gone("initiator") => Gone("initiator")'
    BY <2>2 DEF Gone, Ended
  <2>4. SyncInv'
    BY <1>0, <2>2, <2>3, SyncSame
  <2>5. \A d \in Ends : FlowInv(d)' /\ PrefixInv(d)'
    BY <1>0, <2>2, PrefixOther DEF FlowInv, Open
  <2> QED
    BY <2>1, <2>4, <2>5 DEF TcpInv
<1>7. CASE UNCHANGED vars
  <2>1. UNCHANGED <<listening, link, sock, pc, left, buffer, wire, accepted, received, blocks>>
    BY <1>7 DEF vars
  <2>2. TypeOK' /\ ProgramInv'
    BY <1>0, <2>1 DEF TypeOK, ProgramInv, EndInv, Usable, Ended
  <2>3. SyncInv'
    BY <1>0, <2>1 DEF SyncInv, Synced, Gone, Ended
  <2>4. ASSUME NEW d \in Ends
        PROVE  FlowInv(d)' /\ PrefixInv(d)'
    <3>1. Place(d)' = Place(d) /\ (Open(d)' <=> Open(d))
      BY <2>1 DEF Place, Open, Synced
    <3>2. FlowInv(d)'
      BY <1>0, <2>1, <3>1, FlowSame
    <3>3. PrefixInv(d)'
      BY <1>0, <2>1, PrefixOther
    <3> QED
      BY <3>2, <3>3
  <2> QED
    BY <2>2, <2>3, <2>4 DEF TcpInv
<1> QED
  BY <1>0, <1>1, <1>2, <1>4, <1>5, <1>6, <1>7 DEF Next, Process, Transfer

(* TcpInv is an invariant.                                                 *)
LEMMA TcpAlways == Spec => []TcpInv
<1>1. Init => TcpInv
  BY TcpInit
<1>2. TcpInv /\ [Next]_vars => TcpInv'
  BY TcpStep
<1> QED
  BY <1>1, <1>2, PTL DEF Spec

(* Each variable of the connection has its type, for every number and size *)
(* of blocks and every capacity of TCP.                                    *)
THEOREM TcpTypeCorrect == Spec => []TypeOK
<1>1. TcpInv => TypeOK
  BY DEF TcpInv
<1> QED
  BY <1>1, TcpAlways, PTL

(* The target writes the blocks it was sent, in their order and without a  *)
(* mix of two, until the initiator is gone; and the initiator receives     *)
(* "done" only when all N are written.                                     *)
THEOREM BlocksAsSent == Spec => []WrittenAsSent
<1>1. TcpInv => WrittenAsSent
  <2> SUFFICES ASSUME TcpInv PROVE WrittenAsSent
    OBVIOUS
  <2>1. \A i \in 1 .. Len(blocks) :
          blocks[i] = Bytes(i) \/ (Gone("initiator") /\ Len(accepted["initiator"]) < i)
    BY DEF TcpInv, SyncInv
  <2>2. ASSUME received["initiator"] # <<>>
        PROVE  blocks = [i \in 1 .. N |-> Bytes(i)]
    <3>1. Len(accepted["initiator"]) = N /\ Len(blocks) = N /\ N \in Nat
      BY <2>2, Sizes DEF TcpInv, ProgramInv
    <3>2. \A i \in 1 .. N : blocks[i] = Bytes(i)
      BY <2>1, <3>1
    <3>3. blocks \in Seq(Buffers)
      BY DEF TcpInv, TypeOK
    <3>4. blocks = [i \in 1 .. N |-> blocks[i]]
      BY <3>1, <3>3
    <3> QED
      BY <3>2, <3>4
  <2> QED
    BY <2>1, <2>2 DEF WrittenAsSent
<1> QED
  BY <1>1, TcpAlways, PTL

-----------------------------------------------------------------------------
(* The channel of whole messages.                                          *)

Delivered == [e \in Ends |-> [i \in DOMAIN received[e] |-> Decode(received[e][i])]]
Closed == [e \in Ends |-> sock[e] = "closed"]

(* The bytes of a message tell which one it is.                            *)
LEMMA DecodeBytes ==
  ASSUME NEW m \in Messages
  PROVE  Decode(Bytes(m)) = m
<1>1. Bytes(m)[1] = <<m, 1>>
  BY TcpAssumption DEF TcpAssumption, Bytes
<1>2. \E n \in Messages : Bytes(m) = Bytes(n)
  OBVIOUS
<1> QED
  BY <1>1, <1>2 DEF Decode

(* One more buffer is one more message.                                    *)
LEMMA DeliveredAppend ==
  ASSUME NEW s \in Seq(Buffers), NEW b \in Buffers
  PROVE  [i \in DOMAIN Append(s, b) |-> Decode(Append(s, b)[i])]
           = Append([i \in DOMAIN s |-> Decode(s[i])], Decode(b))
<1> DEFINE t == Append(s, b)
           f == [i \in DOMAIN s |-> Decode(s[i])]
           g == [i \in DOMAIN t |-> Decode(t[i])]
           S == {Decode(x) : x \in Buffers}
<1>1. /\ t \in Seq(Buffers) /\ Len(s) \in Nat /\ Len(t) = Len(s) + 1
      /\ \A i \in 1 .. Len(s) : t[i] = s[i]
      /\ t[Len(s) + 1] = b
  BY AppendFacts
<1>2. DOMAIN s = 1 .. Len(s) /\ DOMAIN t = 1 .. Len(s) + 1
  BY <1>1
<1>3. \A i \in 1 .. Len(s) : s[i] \in Buffers
  OBVIOUS
<1>4. f \in [1 .. Len(s) -> S] /\ Decode(b) \in S
  BY <1>2, <1>3
<1>5. f \in Seq(S) /\ Len(f) = Len(s)
  BY <1>1, <1>2, <1>4
<1>6. /\ Append(f, Decode(b)) \in Seq(S) /\ Len(Append(f, Decode(b))) = Len(s) + 1
      /\ \A i \in 1 .. Len(s) : Append(f, Decode(b))[i] = f[i]
      /\ Append(f, Decode(b))[Len(s) + 1] = Decode(b)
  <2> HIDE DEF f, S
  <2> QED
    BY <1>4, <1>5, AppendFacts
<1>7. \A i \in 1 .. Len(s) + 1 : g[i] = Append(f, Decode(b))[i]
  <2> SUFFICES ASSUME NEW i \in 1 .. Len(s) + 1 PROVE g[i] = Append(f, Decode(b))[i]
    OBVIOUS
  <2>1. g[i] = Decode(t[i])
    BY <1>2
  <2>2. CASE i \in 1 .. Len(s)
    <3>1. f[i] = Decode(s[i]) /\ t[i] = s[i]
      BY <1>1, <1>2, <2>2
    <3> QED
      BY <1>6, <2>1, <2>2, <3>1
  <2>3. CASE i = Len(s) + 1
    BY <1>1, <1>6, <2>1, <2>3
  <2> QED
    BY <1>1, <2>2, <2>3
<1>8. Append(f, Decode(b)) = [i \in 1 .. Len(s) + 1 |-> Append(f, Decode(b))[i]]
  BY <1>6
<1>9. g = [i \in 1 .. Len(s) + 1 |-> g[i]]
  BY <1>2
<1> HIDE DEF f, g, t
<1>10. g = Append(f, Decode(b))
  BY <1>7, <1>8, <1>9
<1> QED
  BY <1>10 DEF f, g, t

(* A ::send completes a message of the channel or is not seen.             *)
LEMMA ChannelSend ==
  ASSUME TcpInv, NEW e \in Ends, SendPiece(e)
  PROVE  Channel!Next \/ UNCHANGED Channel!vars
<1>1. TypeOK /\ ProgramInv
  BY DEF TcpInv
<1>2. /\ pc[e] = "send" /\ sock[e] = "open" /\ UNCHANGED <<sock, received>>
  BY DEF SendPiece, Usable
<1>3. UNCHANGED <<Delivered, Closed>> /\ ~Closed[e]
  BY <1>2 DEF Delivered, Closed
<1>4. \/ UNCHANGED accepted
      \/ accepted' = [accepted EXCEPT ![e] = Append(@, Current(e))]
  BY DEF SendPiece
<1>5. CASE UNCHANGED accepted
  BY <1>3, <1>5 DEF Channel!vars, Delivered, Closed
<1>6. CASE accepted' = [accepted EXCEPT ![e] = Append(@, Current(e))]
  <2>1. Current(e) \in Messages
    BY <1>1, <1>2, CurrentFacts
  <2>2. Channel!Send(e, Current(e))
    BY <1>3, <1>6 DEF Channel!Send, Delivered, Closed
  <2> QED
    BY <2>1, <2>2 DEF Channel!Next
<1> QED
  BY <1>4, <1>5, <1>6

(* A ::recv delivers the next message of the channel or is not seen.       *)
LEMMA ChannelRecv ==
  ASSUME TcpInv, NEW e \in Ends, RecvPiece(e)
  PROVE  Channel!Next \/ UNCHANGED Channel!vars
<1>1. TypeOK /\ ProgramInv /\ SyncInv /\ FlowInv(e) /\ PrefixInv(e)
  BY DEF TcpInv
<1>2. pc[e] = "recv" /\ Usable(e) /\ sock[e] = "open" /\ UNCHANGED <<sock, accepted>>
  BY DEF RecvPiece, Usable
<1>3. PICK k \in 1 .. left[e] : Got(e, k)
  BY <1>1, RecvFacts
<1>4. UNCHANGED Closed /\ ~Closed[e]
  BY <1>2 DEF Closed
<1>5. CASE UNCHANGED received
  BY <1>2, <1>4, <1>5 DEF Channel!vars, Delivered, Closed
<1>6. CASE k = left[e]
  <2> DEFINE r == Len(received[e])
             m == Nth(Peer(e), r + 1)
  <2>1. Open(e)
    <3>1. k <= Len(wire[e]) /\ Len(wire[e]) \in Nat /\ left[e] \in 1 .. InLen(e)
      BY <1>1, <1>3, Sizes DEF Got
    <3>2. wire[e] # <<>>
      BY <1>1, <1>6, <3>1, Sizes, EndFacts
    <3> QED
      BY <1>1, <1>2, <3>2, ReceiverOpen
  <2>2. TypeOK'
    BY <1>1, RecvFacts
  <2>3. /\ r + 1 <= Len(accepted[Peer(e)]) /\ accepted[Peer(e)][r + 1] = m
        /\ m \in Messages /\ buffer'[e] = Bytes(m)
    BY <1>1, <1>2, <1>3, <1>6, <2>1, <2>2, WholeMessage
  <2>4. /\ received'[e] = Append(received[e], buffer'[e])
        /\ received'[Peer(e)] = received[Peer(e)]
    BY <1>3, <1>6, <2>2 DEF Got, TypeOK
  <2>5. received[e] \in Seq(Buffers) /\ buffer'[e] \in Buffers /\ r \in Nat
    BY <1>1, <2>2, Sizes DEF TypeOK
  <2>6. Delivered'[e] = Append(Delivered[e], m)
    <3>1. Delivered'[e] = [i \in DOMAIN received'[e] |-> Decode(received'[e][i])]
      BY DEF Delivered, Decode, Bytes
    <3>2. Delivered[e] = [i \in DOMAIN received[e] |-> Decode(received[e][i])]
      BY DEF Delivered
    <3>3. [i \in DOMAIN Append(received[e], buffer'[e]) |->
             Decode(Append(received[e], buffer'[e])[i])]
            = Append([i \in DOMAIN received[e] |-> Decode(received[e][i])], Decode(buffer'[e]))
      BY <2>5, DeliveredAppend
    <3>4. Decode(buffer'[e]) = m
      BY <2>3, DecodeBytes
    <3> QED
      BY <2>4, <3>1, <3>2, <3>3, <3>4, Zenon
  <2>7. Delivered'[Peer(e)] = Delivered[Peer(e)] /\ Peer(e) \in Ends /\ Peer(e) # e
    BY <2>4, EndFacts DEF Delivered
  <2>8. Delivered' = [Delivered EXCEPT ![e] = Append(@, m)]
    <3>1. /\ Delivered' = [d \in Ends |-> Delivered'[d]]
          /\ Delivered = [d \in Ends |-> Delivered[d]]
      BY DEF Delivered
    <3>2. \A d \in Ends : d = e \/ d = Peer(e)
      BY EndFacts
    <3> HIDE DEF m
    <3> QED
      BY <2>6, <2>7, <3>1, <3>2
  <2>9. Len(Delivered[e]) = r
    <3>1. Delivered[e] = [i \in 1 .. r |-> Decode(received[e][i])]
      BY <2>5 DEF Delivered
    <3> QED
      BY <2>5, <3>1
  <2>10. Channel!Deliver(e)
    <3>1. Len(Delivered[e]) + 1 <= Len(accepted[Peer(e)])
      BY <2>3, <2>9
    <3>2. Delivered' = [Delivered EXCEPT ![e] =
                          Append(@, accepted[Peer(e)][Len(Delivered[e]) + 1])]
      BY <2>3, <2>8, <2>9
    <3> QED
      BY <1>2, <1>4, <3>1, <3>2 DEF Channel!Deliver, Delivered, Closed
  <2> QED
    BY <2>10 DEF Channel!Next
<1> QED
  BY <1>3, <1>5, <1>6 DEF Got

(* An end of a socket closes the channel; the other steps are not seen.    *)
LEMMA ChannelOther ==
  ASSUME TcpInv, NEW e \in Ends,
         \/ Listen \/ Accept \/ TargetInitFails \/ Connect \/ SendFails(e) \/ SigPipe(e)
         \/ Crash(e) \/ Close(e) \/ RecvClosed(e) \/ RecvFails(e) \/ WriteBlock \/ Break
  PROVE  Channel!Next \/ UNCHANGED Channel!vars
<1>0. "target" \in Ends /\ "initiator" \in Ends /\ TypeOK /\ ProgramInv
  BY DEF Ends, TcpInv
<1>1. UNCHANGED <<accepted, received>>
  BY DEF Listen, Accept, TargetInitFails, Connect, SendFails, SigPipe, Crash, Close,
         RecvClosed, RecvFails, WriteBlock, Break
<1>2. UNCHANGED Delivered
  BY <1>1 DEF Delivered
<1>3. sock \in [Ends -> {"none", "open", "closed"}]
  BY <1>0 DEF TypeOK
<1>4. UNCHANGED Closed \/ \E d \in Ends : Closed' = [Closed EXCEPT ![d] = TRUE]
  <2>1. CASE UNCHANGED sock
    BY <2>1 DEF Closed
  <2>2. ASSUME NEW d \in Ends, sock' = [sock EXCEPT ![d] = "closed"]
        PROVE  Closed' = [Closed EXCEPT ![d] = TRUE]
    BY <1>3, <2>2 DEF Closed
  <2>3. CASE Accept
    <3>1. sock["target"] = "none" /\ sock' = [sock EXCEPT !["target"] = "open"]
      BY <1>0, <2>3 DEF Accept, ProgramInv
    <3> QED
      BY <1>0, <1>3, <3>1 DEF Closed
  <2>4. CASE sock["initiator"] = "none" /\ sock' = [sock EXCEPT !["initiator"] = "open"]
    BY <1>0, <1>3, <2>4 DEF Closed
  <2>5. Connect => \/ sock' = [sock EXCEPT !["initiator"] = "closed"]
                   \/ /\ sock["initiator"] = "none"
                      /\ sock' = [sock EXCEPT !["initiator"] = "open"]
    BY <1>0 DEF Connect, ProgramInv
  <2>6. SigPipe(e) \/ Crash(e) \/ Close(e) => sock' = [sock EXCEPT ![e] = "closed"]
    BY DEF SigPipe, Crash, Close
  <2>7. (Listen \/ TargetInitFails \/ SendFails(e) \/ RecvClosed(e) \/ RecvFails(e)
           \/ WriteBlock \/ Break) => UNCHANGED sock
    BY DEF Listen, TargetInitFails, SendFails, RecvClosed, RecvFails, WriteBlock, Break
  <2> QED
    BY <1>0, <2>1, <2>2, <2>3, <2>4, <2>5, <2>6, <2>7
<1>5. CASE UNCHANGED Closed
  BY <1>1, <1>2, <1>5 DEF Channel!vars, Delivered, Closed
<1>6. ASSUME NEW d \in Ends, Closed' = [Closed EXCEPT ![d] = TRUE]
      PROVE  Channel!Next
  <2>1. Channel!Close(d)
    BY <1>1, <1>2, <1>6 DEF Channel!Close, Delivered, Closed
  <2> QED
    BY <2>1 DEF Channel!Next
<1> QED
  BY <1>4, <1>5, <1>6

(* However TCP cuts up the stream and whoever fails, send and recv of      *)
(* TCPConnection are a channel of whole messages: each recv that returns   *)
(* len returns the next message the peer's send accepted.                  *)
THEOREM TcpRefinement == Spec => ImplementsChannel
<1>1. Init => Channel!Init
  <2> SUFFICES ASSUME Init PROVE Channel!Init
    OBVIOUS
  <2>1. \A e \in Ends : [i \in DOMAIN received[e] |-> Decode(received[e][i])] = <<>>
    BY DEF Init
  <2> QED
    BY <2>1 DEF Init, Channel!Init
<1>2. TcpInv /\ [Next]_vars => [Channel!Next]_(Channel!vars)
  <2> SUFFICES ASSUME TcpInv, [Next]_vars PROVE Channel!Next \/ UNCHANGED Channel!vars
    OBVIOUS
  <2>1. CASE UNCHANGED vars
    BY <2>1 DEF vars, Channel!vars
  <2>2. CASE Next
    <3>1. "target" \in Ends /\ "initiator" \in Ends
      BY DEF Ends
    <3> QED
      BY <2>2, <3>1, ChannelSend, ChannelRecv, ChannelOther DEF Next, Process, Transfer
  <2> QED
    BY <2>1, <2>2
<1> QED
  BY <1>1, <1>2, TcpAlways, PTL DEF Spec, ImplementsChannel, Channel!Spec

-----------------------------------------------------------------------------
(* The RDMA connection.  Its properties hold because the server's queue    *)
(* and its channel of events agree with the step the server is at and with *)
(* what has become of its two requests, the token and the end.             *)

(* The server's queue holds c completions, its channel v events.           *)
Queue(c, v, arm) ==
  cqes["server"] = c /\ evs["server"] = v /\ armed["server"] = arm

(* Both requests complete once: the first is polled before the second.     *)
QueueInv ==
  /\ stage["server"] \in {"start", "listening", "alloc"} =>
       token = "none" /\ Queue(0, 0, FALSE)
  /\ stage["server"] \in {"connect", "accepting", "established"} =>
       token = "none" /\ Queue(0, 0, TRUE)
  /\ stage["server"] = "event" =>
       \/ token \in {"sent", "delivered"} /\ Queue(0, 0, TRUE)
       \/ token \in {"acked", "failed"} /\ Queue(1, 1, FALSE)
  /\ stage["server"] = "notify" => token \in {"acked", "failed"} /\ Queue(1, 0, FALSE)
  /\ stage["server"] = "poll" => token \in {"acked", "failed"} /\ Queue(1, 0, TRUE)
  /\ stage["server"] \in {"ready", "waiting", "ending", "done"} => token = "acked"
  /\ stage["server"] = "ready" => Queue(0, 0, TRUE)
  /\ stage["server"] = "waiting" =>
       IF end = "delivered" THEN Queue(1, 1, FALSE) ELSE Queue(0, 0, TRUE)
  /\ stage["server"] = "ending" => end = "delivered" /\ Queue(1, 0, FALSE)
  /\ stage["server"] = "done" => end = "delivered"

(* The requests and their completions.                                     *)
RequestInv ==
  /\ end # "none" => stage["client"] = "done"
  /\ end = "delivered" => stage["server"] \in {"waiting", "ending", "done", "err"}
  /\ token \in {"none", "sent", "failed"} => cqes["client"] = 0 /\ evs["client"] = 0
  /\ token \in {"none", "sent", "delivered"} => cqes["server"] = 0 /\ evs["server"] = 0
  /\ \A s \in Sides : cqes[s] <= 1 /\ evs[s] <= 1

RdmaInv == RdmaTypeOK /\ QueueInv /\ RequestInv

(* The beginning.                                                          *)
LEMMA RdmaBegins ==
  ASSUME RdmaInit
  PROVE  RdmaInv
<1>1. "client" \in Sides /\ "server" \in Sides
  BY DEF Sides
<1>2. RdmaTypeOK
  BY DEF RdmaInit, RdmaTypeOK, Steps
<1>3. QueueInv
  BY <1>1 DEF RdmaInit, QueueInv, Queue
<1>4. RequestInv
  BY <1>1 DEF RdmaInit, RequestInv
<1> QED
  BY <1>2, <1>3, <1>4 DEF RdmaInv

(* A step of the connection manager adds an event or takes one.            *)
LEMMA EventFacts ==
  ASSUME RdmaTypeOK, NEW s \in Sides
  PROVE  LET E == {"CONNECT_REQUEST", "REJECTED", "ESTABLISHED", "DISCONNECTED"}
         IN  /\ \A x \in E : [cm EXCEPT ![s] = Append(@, x)] \in [Sides -> Seq(E)]
             /\ cm[s] # <<>> => [cm EXCEPT ![s] = Tail(@)] \in [Sides -> Seq(E)]
<1> DEFINE E == {"CONNECT_REQUEST", "REJECTED", "ESTABLISHED", "DISCONNECTED"}
<1>1. cm \in [Sides -> Seq(E)] /\ cm[s] \in Seq(E)
  BY DEF RdmaTypeOK
<1>2. (\A x \in E : Append(cm[s], x) \in Seq(E)) /\ (cm[s] # <<>> => Tail(cm[s]) \in Seq(E))
  <2> HIDE DEF E
  <2> QED
    BY <1>1
<1> HIDE DEF E
<1>3. /\ \A x \in E : [cm EXCEPT ![s] = Append(@, x)] \in [Sides -> Seq(E)]
      /\ cm[s] # <<>> => [cm EXCEPT ![s] = Tail(@)] \in [Sides -> Seq(E)]
  BY <1>1, <1>2
<1> QED
  BY <1>3 DEF E

(* The steps of the connection manager and of the failures, which leave    *)
(* queues and requests alone.                                              *)
LEMMA RdmaManager ==
  ASSUME RdmaInv, NEW s \in Sides,
         \/ RdmaListen \/ ConnectRequest \/ Resolve \/ RdmaConnect \/ RdmaAccept
         \/ ClientEstablished \/ ServerEstablished \/ PostTokenRecv
         \/ PostEndRecv \/ Fail(s)
  PROVE  RdmaInv'
<1> USE DEF MoveTo, SideGone, Notify, Other, cqVars
<1>0. /\ "client" \in Sides /\ "server" \in Sides /\ s \in {"client", "server"}
      /\ RdmaTypeOK /\ QueueInv /\ RequestInv
  BY DEF Sides, RdmaInv
<1>1. UNCHANGED <<cqes, armed, evs, token, end>>
  BY DEF RdmaListen, ConnectRequest, Resolve, RdmaConnect, RdmaAccept,
         ClientEstablished, ServerEstablished, PostTokenRecv,
         PostEndRecv, Fail, NextChannelEvent
<1>2. PICK d \in Sides, step \in Steps :
        /\ stage' = [stage EXCEPT ![d] = step]
        /\ stage[d] # "done"
        /\ step # "done"
        /\ d = "server" =>
             \/ step = "err"
             \/ stage[d] = "start" /\ step = "listening"
             \/ stage[d] = "listening" /\ step = "alloc"
             \/ stage[d] = "connect" /\ step = "accepting"
             \/ stage[d] = "accepting" /\ step = "established"
             \/ stage[d] = "ready" /\ step = "waiting"
  <2> USE DEF Steps
  <2>1. CASE RdmaListen \/ RdmaAccept \/ PostEndRecv
    BY <1>0, <2>1 DEF RdmaListen, RdmaAccept, PostEndRecv
  <2>2. CASE Resolve \/ RdmaConnect \/ PostTokenRecv
    BY <1>0, <2>2 DEF Resolve, RdmaConnect, PostTokenRecv
  <2>3. CASE ConnectRequest \/ ServerEstablished
    BY <1>0, <2>3 DEF ConnectRequest, ServerEstablished, NextChannelEvent
  <2>4. CASE ClientEstablished
    BY <1>0, <2>4 DEF ClientEstablished
  <2>5. CASE Fail(s)
    BY <1>0, <2>5 DEF Fail
  <2> QED
    BY <2>1, <2>2, <2>3, <2>4, <2>5
<1> DEFINE E == {"CONNECT_REQUEST", "REJECTED", "ESTABLISHED", "DISCONNECTED"}
<1>3. cm' \in [Sides -> Seq(E)]
  <2>1. cm \in [Sides -> Seq(E)]
    BY <1>0 DEF RdmaTypeOK
  <2>2. CASE ClientEstablished
    <3>1. \A c \in Sides : /\ Append(cm[c], "ESTABLISHED") \in Seq(E)
                           /\ cm[c] # <<>> => Tail(cm[c]) \in Seq(E)
      BY <2>1
    <3>2. [c \in Sides |-> IF c = "client" THEN Tail(cm[c])
                           ELSE Append(cm[c], "ESTABLISHED")] \in [Sides -> Seq(E)]
      <4>1. cm["client"] # <<>>
        BY <2>2 DEF ClientEstablished
      <4> HIDE DEF E
      <4> QED
        BY <3>1, <4>1
    <3>3. [cm EXCEPT !["client"] = Tail(@)] \in [Sides -> Seq(E)]
      BY <1>0, <2>2, EventFacts DEF ClientEstablished
    <3> HIDE DEF E
    <3> QED
      BY <2>2, <3>2, <3>3 DEF ClientEstablished
  <2>3. CASE RdmaListen \/ Resolve \/ PostTokenRecv \/ PostEndRecv
    BY <2>1, <2>3 DEF RdmaListen, Resolve, PostTokenRecv, PostEndRecv
  <2>4. CASE ConnectRequest \/ ServerEstablished
    BY <1>0, <2>4, EventFacts
       DEF ConnectRequest, ServerEstablished, NextChannelEvent
  <2>5. CASE RdmaConnect \/ RdmaAccept
    <3>1. /\ [cm EXCEPT !["server"] = Append(@, "CONNECT_REQUEST")] \in [Sides -> Seq(E)]
          /\ [cm EXCEPT !["client"] = Append(@, "REJECTED")] \in [Sides -> Seq(E)]
          /\ [cm EXCEPT !["client"] = Append(@, "ESTABLISHED")] \in [Sides -> Seq(E)]
      BY <1>0, EventFacts
    <3> HIDE DEF E
    <3> QED
      BY <2>1, <2>5, <3>1 DEF RdmaConnect, RdmaAccept
  <2>6. CASE Fail(s)
    <3>1. Other(s) \in Sides
      BY <1>0
    <3>2. [cm EXCEPT ![Other(s)] = Append(@, "DISCONNECTED")] \in [Sides -> Seq(E)]
      BY <1>0, <3>1, EventFacts
    <3> HIDE DEF E, Other
    <3> QED
      BY <2>1, <2>6, <3>2 DEF Fail
  <2> QED
    BY <2>2, <2>3, <2>4, <2>5, <2>6
<1>4. RdmaTypeOK'
  BY <1>0, <1>1, <1>2, <1>3 DEF RdmaTypeOK
<1>5. CASE d = "client"
  <2>1. /\ stage'["server"] = stage["server"]
        /\ stage["client"] = "done" => stage'["client"] = "done"
    BY <1>0, <1>2, <1>5 DEF RdmaTypeOK
  <2>2. QueueInv'
    BY <1>0, <1>1, <2>1 DEF QueueInv, Queue
  <2>3. RequestInv'
    BY <1>0, <1>1, <2>1 DEF RequestInv
  <2> QED
    BY <1>4, <2>2, <2>3 DEF RdmaInv
<1>6. CASE d = "server"
  <2>1. stage'["client"] = stage["client"] /\ stage'["server"] = step
    BY <1>0, <1>2, <1>6 DEF RdmaTypeOK
  <2>2. stage["server"] = "ready" => end # "delivered"
    BY <1>0 DEF RequestInv
  <2>3. QueueInv'
    BY <1>0, <1>1, <1>2, <1>6, <2>1, <2>2 DEF QueueInv, Queue
  <2>4. RequestInv'
    BY <1>0, <1>1, <1>2, <1>6, <2>1 DEF RequestInv
  <2> QED
    BY <1>4, <2>3, <2>4 DEF RdmaInv
<1> QED
  BY <1>0, <1>5, <1>6 DEF Sides

(* A completion arrives in the queue of side s.                            *)
LEMMA ArriveFacts ==
  ASSUME RdmaInv, NEW s \in Sides, Arrive(s), cqes[s] = 0, evs[s] = 0
  PROVE  /\ cqes' \in [Sides -> 0 .. 2] /\ evs' \in [Sides -> 0 .. 2]
         /\ armed' \in [Sides -> BOOLEAN]
         /\ cqes'[s] = 1 /\ armed'[s] = FALSE /\ evs'[s] = IF armed[s] THEN 1 ELSE 0
         /\ \A d \in Sides :
              d # s => cqes'[d] = cqes[d] /\ evs'[d] = evs[d] /\ armed'[d] = armed[d]
<1>1. /\ cqes \in [Sides -> 0 .. 2] /\ evs \in [Sides -> 0 .. 2]
      /\ armed \in [Sides -> BOOLEAN]
  BY DEF RdmaInv, RdmaTypeOK
<1>2. cqes' = [cqes EXCEPT ![s] = 1] /\ evs' = [evs EXCEPT ![s] = IF armed[s] THEN 1 ELSE 0]
  BY <1>1 DEF Arrive
<1>3. armed' = [armed EXCEPT ![s] = FALSE]
  BY DEF Arrive
<1> QED
  BY <1>1, <1>2, <1>3

(* The fabric.                                                             *)
LEMMA RdmaFabric ==
  ASSUME RdmaInv,
         \/ DeliverToken \/ AckToken \/ TokenFails \/ DeliverEnd
         \/ EndLost
  PROVE  RdmaInv'
<1>0. /\ "client" \in Sides /\ "server" \in Sides
      /\ Sides = {"client", "server"} /\ "client" # "server"
      /\ RdmaTypeOK /\ QueueInv /\ RequestInv
  BY DEF Sides, RdmaInv
<1>1. CASE DeliverToken
  <2>1. /\ token = "sent" /\ token' = "delivered" /\ Arrive("client")
        /\ UNCHANGED <<stage, cm, end>>
    BY <1>1 DEF DeliverToken
  <2>2. cqes["client"] = 0 /\ evs["client"] = 0
    BY <1>0, <2>1 DEF RequestInv
  <2>3. /\ cqes' \in [Sides -> 0 .. 2] /\ evs' \in [Sides -> 0 .. 2]
        /\ armed' \in [Sides -> BOOLEAN]
        /\ cqes'["client"] = 1 /\ evs'["client"] <= 1
        /\ cqes'["server"] = cqes["server"] /\ evs'["server"] = evs["server"]
        /\ armed'["server"] = armed["server"]
    <3>1. evs'["client"] = IF armed["client"] THEN 1 ELSE 0
      BY <1>0, <2>1, <2>2, ArriveFacts
    <3>2. evs'["client"] <= 1
      BY <3>1
    <3> QED
      BY <1>0, <2>1, <2>2, <3>2, ArriveFacts
  <2>4. RdmaTypeOK'
    BY <1>0, <2>1, <2>3 DEF RdmaTypeOK
  <2>5. QueueInv'
    BY <1>0, <2>1, <2>3 DEF QueueInv, Queue
  <2>6. RequestInv'
    BY <1>0, <2>1, <2>3 DEF RequestInv
  <2> QED
    BY <2>4, <2>5, <2>6 DEF RdmaInv
<1>2. CASE AckToken \/ TokenFails
  <2>1. /\ token \in {"sent", "delivered"} /\ token' \in {"acked", "failed"}
        /\ token' = "failed" => token = "sent"
        /\ Arrive("server") /\ UNCHANGED <<stage, cm, end>>
    BY <1>2 DEF AckToken, TokenFails
  <2>2. cqes["server"] = 0 /\ evs["server"] = 0
    BY <1>0, <2>1 DEF RequestInv
  <2>3. /\ cqes' \in [Sides -> 0 .. 2] /\ evs' \in [Sides -> 0 .. 2]
        /\ armed' \in [Sides -> BOOLEAN]
        /\ cqes'["server"] = 1 /\ evs'["server"] = IF armed["server"] THEN 1 ELSE 0
        /\ armed'["server"] = FALSE
        /\ cqes'["client"] = cqes["client"] /\ evs'["client"] = evs["client"]
    BY <1>0, <2>1, <2>2, ArriveFacts
  <2>4. RdmaTypeOK'
    BY <1>0, <2>1, <2>3 DEF RdmaTypeOK
  <2>5. QueueInv'
    <3>1. stage["server"] \in {"event", "err", "connecting"}
      BY <1>0, <2>1 DEF QueueInv, RdmaTypeOK, Steps
    <3>2. stage["server"] = "event" => armed["server"] = TRUE
      BY <1>0, <2>1 DEF QueueInv, Queue
    <3> QED
      BY <2>1, <2>3, <3>1, <3>2 DEF QueueInv, Queue
  <2>6. RequestInv'
    BY <1>0, <2>1, <2>3 DEF RequestInv
  <2> QED
    BY <2>4, <2>5, <2>6 DEF RdmaInv
<1>3. CASE DeliverEnd
  <2>1. /\ end = "posted" /\ end' = "delivered" /\ stage["server"] = "waiting"
        /\ Arrive("server") /\ UNCHANGED <<stage, cm, token>>
    BY <1>3 DEF DeliverEnd
  <2>2. Queue(0, 0, TRUE) /\ token = "acked" /\ stage["client"] = "done"
    BY <1>0, <2>1 DEF QueueInv, RequestInv
  <2>3. /\ cqes' \in [Sides -> 0 .. 2] /\ evs' \in [Sides -> 0 .. 2]
        /\ armed' \in [Sides -> BOOLEAN]
        /\ cqes'["server"] = 1 /\ evs'["server"] = 1 /\ armed'["server"] = FALSE
        /\ cqes'["client"] = cqes["client"] /\ evs'["client"] = evs["client"]
    BY <1>0, <2>1, <2>2, ArriveFacts DEF Queue
  <2>4. RdmaTypeOK'
    BY <1>0, <2>1, <2>3 DEF RdmaTypeOK
  <2>5. QueueInv' /\ RequestInv'
    BY <1>0, <2>1, <2>2, <2>3 DEF QueueInv, Queue, RequestInv
  <2> QED
    BY <2>4, <2>5 DEF RdmaInv
<1>4. CASE EndLost
  <2>1. end = "posted" /\ end' = "void" /\ UNCHANGED <<stage, cm, cqes, armed, evs, token>>
    BY <1>4 DEF EndLost, cqVars
  <2>2. RdmaTypeOK'
    BY <1>0, <2>1 DEF RdmaTypeOK
  <2>3. QueueInv' /\ RequestInv'
    BY <1>0, <2>1 DEF QueueInv, Queue, RequestInv
  <2> QED
    BY <2>2, <2>3 DEF RdmaInv
<1> QED
  BY <1>1, <1>2, <1>3, <1>4

(* The steps of the threads at their queues and requests.                  *)
LEMMA RdmaThread ==
  ASSUME RdmaInv, NEW s \in Sides,
         \/ Alloc(s) \/ SendToken \/ TokenEvent(s) \/ TokenNotify(s)
         \/ TokenPoll(s) \/ TransferAndTerminate \/ EndEvent \/ EndPoll
  PROVE  RdmaInv'
<1> USE DEF MoveTo, cqVars
<1>0. /\ "client" \in Sides /\ "server" \in Sides /\ s \in {"client", "server"}
      /\ Sides = {"client", "server"}
      /\ RdmaTypeOK /\ QueueInv /\ RequestInv
  BY DEF Sides, RdmaInv
<1>1. RdmaTypeOK'
  <2>1. CASE Alloc(s) \/ TokenNotify(s)
    BY <1>0, <2>1 DEF Alloc, TokenNotify, RdmaTypeOK, Steps
  <2>2. CASE SendToken \/ TransferAndTerminate
    BY <1>0, <2>2 DEF SendToken, TransferAndTerminate, RdmaTypeOK, Steps
  <2>3. CASE TokenEvent(s)
    BY <1>0, <2>3 DEF TokenEvent, RdmaTypeOK, Steps
  <2>4. CASE TokenPoll(s)
    BY <1>0, <2>4 DEF TokenPoll, RdmaTypeOK, Steps
  <2>5. CASE EndEvent
    BY <1>0, <2>5 DEF EndEvent, RdmaTypeOK, Steps
  <2>6. CASE EndPoll
    BY <1>0, <2>6 DEF EndPoll, RdmaTypeOK, Steps
  <2> QED
    BY <2>1, <2>2, <2>3, <2>4, <2>5, <2>6
<1>2. QueueInv' /\ RequestInv'
  <2> USE DEF QueueInv, Queue, RequestInv, RdmaTypeOK
  <2>1. CASE Alloc(s)
    BY <1>0, <2>1 DEF Alloc
  <2>2. CASE SendToken
    BY <1>0, <2>2 DEF SendToken
  <2>3. CASE TokenEvent(s)
    BY <1>0, <2>3 DEF TokenEvent
  <2>4. CASE TokenNotify(s)
    BY <1>0, <2>4 DEF TokenNotify
  <2>5. CASE TokenPoll(s)
    BY <1>0, <2>5 DEF TokenPoll
  <2>6. CASE TransferAndTerminate
    BY <1>0, <2>6 DEF TransferAndTerminate
  <2>7. CASE EndEvent
    BY <1>0, <2>7 DEF EndEvent
  <2>8. CASE EndPoll
    BY <1>0, <2>8 DEF EndPoll
  <2> QED
    BY <2>1, <2>2, <2>3, <2>4, <2>5, <2>6, <2>7, <2>8
<1> QED
  BY <1>1, <1>2 DEF RdmaInv

(* RdmaInv is an invariant.                                                *)
LEMMA RdmaAlways == RdmaSpec => []RdmaInv
<1>1. RdmaInit => RdmaInv
  BY RdmaBegins
<1>2. RdmaInv /\ [RdmaNext]_(rdmaVars) => RdmaInv'
  <2> SUFFICES ASSUME RdmaInv, [RdmaNext]_(rdmaVars) PROVE RdmaInv'
    OBVIOUS
  <2>1. CASE UNCHANGED rdmaVars
    BY <2>1 DEF rdmaVars, cqVars, RdmaInv, QueueInv, Queue, RequestInv, RdmaTypeOK
  <2>2. CASE RdmaNext
    <3>1. Sides # {}
      BY DEF Sides
    <3> QED
      BY <2>2, <3>1, RdmaManager, RdmaFabric, RdmaThread
         DEF RdmaNext, Thread, Fabric, Fault
  <2> QED
    BY <2>1, <2>2
<1> QED
  BY <1>1, <1>2, PTL DEF RdmaSpec

(* Each variable of the RDMA connection has its type; in particular no     *)
(* queue ever holds more completions than requests were posted.            *)
THEOREM RdmaTypeCorrect == RdmaSpec => []RdmaTypeOK
<1>1. RdmaInv => RdmaTypeOK
  BY DEF RdmaInv
<1> QED
  BY <1>1, RdmaAlways, PTL

(* The server does not go away by itself while the client reads its pool.  *)
THEOREM ServerWaitsForEnd == RdmaSpec => []ServerOutlivesReads
<1>1. RdmaInv => ServerOutlivesReads
  BY DEF RdmaInv, QueueInv, RequestInv, ServerOutlivesReads, SideGone
<1> QED
  BY <1>1, RdmaAlways, PTL

(* The event that ends the server's sleep is that of its last receive, and *)
(* the one completion it polls is there.                                   *)
THEOREM EndIsPolled == RdmaSpec => []EndEventIsReal
<1>1. RdmaInv => EndEventIsReal
  BY DEF RdmaInv, QueueInv, Queue, EndEventIsReal
<1> QED
  BY <1>1, RdmaAlways, PTL

(* The server never sleeps on a queue that holds a completion already or   *)
(* will raise no event.                                                    *)
THEOREM SleeperIsArmed == RdmaSpec => []ServerCanWake
<1>1. RdmaInv => ServerCanWake
  BY DEF RdmaInv, QueueInv, Queue, ServerCanWake
<1> QED
  BY <1>1, RdmaAlways, PTL

=============================================================================
