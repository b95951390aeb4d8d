-------------------------- MODULE FileTargetProofs --------------------------
(***************************************************************************)
(* Proofs about the asynchronous large file handlers, for every set of     *)
(* clients and all their arguments: no regular call brings the service     *)
(* down, no ring is torn down in use, and when a client gets its reply the *)
(* kernel is done with its writes, unless the completion thread gave up.   *)
(*                                                                         *)
(* None of the three is inductive.  Protocol ties the client, the handler  *)
(* and the completion thread of a call together and says that no request   *)
(* and no completion is lost; it holds whatever the other clients do.      *)
(* ParamsKept and RingInv are about regular calls: the service still has   *)
(* their parameters, so the ring has their depth, every submission is      *)
(* taken, the completion thread counts to their N, and the writes are      *)
(* dealt to their files in turn.                                           *)
(***************************************************************************)
EXTENDS FileTarget, FiniteSetTheorems, TLAPS

(* Where a client is that has not set its parameters.                      *)
Before == {"params", "setN", "setFn"}

(* The requests that a handler has read and not prepared, none or one.     *)
InHand(c) == IF hpc[c] = "append" THEN 1 ELSE 0

Protocol(c) ==
  /\ sent[c] <= conf[c].n
  /\ wire[c] + count[c] + InHand(c) = sent[c]
  /\ cpc[c] \in Before \cup {"open"} <=> hpc[c] = "none"
  /\ cpc[c] \in Before \cup {"open"} => sent[c] = 0
  /\ cpc[c] \in {"await", "done"} => sent[c] = conf[c].n
  /\ cpc[c] = "done" => hpc[c] = "replied"
  /\ cpc[c] = "failed" => hpc[c] = "error"
  /\ hpc[c] \in {"join", "exit", "replied"} => wire[c] = 0 /\ cpc[c] \in {"await", "done"}
  /\ qpc[c] = "none" <=> hpc[c] \in {"none", "init", "error"}
  /\ hpc[c] \in {"exit", "replied"} => qpc[c] \in {"done", "gaveup"}
  /\ hpc[c] = "first" => Plain(c) /\ count[c] = 0
  /\ hpc[c] \in {"none", "init", "files"} => count[c] = 0
  /\ hpc[c] # "replied" => count[c] = Len(sq[c]) + Len(inflight[c]) + cq[c] + seen[c]

(* The threads of test_large_async_multithreads start together.            *)
Together ==
  \A c, d \in Clients : conf[c].kind = "mt" /\ conf[d].kind = "mt" =>
    (cpc[c] \in Before <=> cpc[d] \in Before)

(* The writes under way to file i, and those of the first m requests that  *)
(* are due to it.                                                          *)
Pending(s, i) == {j \in 1 .. Len(s) : s[j] = i}
Due(c, m, i) == {k \in 0 .. m - 1 : k % Files(c) = i}

(* A call that is regular.                                                 *)
ParamsKept(c) == cpc[c] \in Running => prm = ClientParams(c)

RingInv(c) ==
  /\ sq[c] = <<>>
  /\ qpc[c] # "none" => cap[c] = conf[c].depth
  /\ qpc[c] = "done" => seen[c] >= conf[c].n
  /\ hpc[c] \in {"exit", "replied"} /\ qpc[c] = "done" => inflight[c] = <<>> /\ cq[c] = 0
  /\ hpc[c] # "replied" \/ qpc[c] = "done" => \A i \in Slots :
       written[c][i] + Cardinality(Pending(inflight[c], i)) = Cardinality(Due(c, count[c], i))

TargetInv ==
  /\ TypeOK
  /\ prm.fn <= MaxFiles
  /\ Together
  /\ ServerUp
  /\ \A c \in Clients : Protocol(c) /\ (Regular(c) => ParamsKept(c) /\ RingInv(c))

Step(c) ==
  \/ Client(c) \/ Handler(c) \/ CqThread(c) \/ Complete(c)
  \/ InitRingFails(c) \/ CallFails(c) \/ CqGivesUp(c)

-----------------------------------------------------------------------------
(* The types of what belongs to one call.                                  *)
LEMMA CallTypes ==
  ASSUME TypeOK, NEW c \in Clients
  PROVE  /\ conf[c] \in ConfType
         /\ conf[c].kind \in Kinds /\ conf[c].depth \in Nat \ {0} /\ conf[c].n \in Nat
         /\ conf[c].fn \in Nat /\ conf[c].fn <= MaxFiles /\ MaxFiles \in Nat \ {0}
         /\ prm.depth \in Nat /\ prm.n \in Nat /\ prm.fn \in Nat
         /\ sent[c] \in Nat /\ wire[c] \in Nat /\ count[c] \in Nat /\ cap[c] \in Nat
         /\ cq[c] \in Nat /\ seen[c] \in Nat
         /\ sq[c] \in Seq(Slots) /\ inflight[c] \in Seq(Slots)
         /\ Len(sq[c]) \in Nat /\ Len(inflight[c]) \in Nat
         /\ written[c] \in [Slots -> Nat]
<1>1. conf \in Confs /\ conf \in [Clients -> ConfType]
  BY TargetAssumption DEF TypeOK
<1>2. conf[c] \in ConfType /\ conf[c].fn <= MaxFiles /\ MaxFiles \in Nat \ {0}
  BY <1>1, TargetAssumption
<1>3. /\ conf[c].kind \in Kinds /\ conf[c].depth \in Nat \ {0} /\ conf[c].n \in Nat
      /\ conf[c].fn \in Nat
  BY <1>2 DEF ConfType
<1>4. prm.depth \in Nat /\ prm.n \in Nat /\ prm.fn \in Nat
  BY DEF TypeOK
<1>5. sq[c] \in Seq(Slots) /\ inflight[c] \in Seq(Slots)
  BY DEF TypeOK
<1>6. Len(sq[c]) \in Nat /\ Len(inflight[c]) \in Nat
  BY <1>5
<1> QED
  BY <1>2, <1>3, <1>4, <1>5, <1>6 DEF TypeOK

(* The parameters that a client asks for.                                  *)
LEMMA ParamTypes ==
  ASSUME TypeOK, NEW c \in Clients
  PROVE  /\ ClientParams(c) \in [depth : Nat, n : Nat, fn : Nat]
         /\ ClientParams(c).depth = conf[c].depth /\ ClientParams(c).n = conf[c].n
         /\ ClientParams(c).fn = IF Plain(c) THEN 0 ELSE conf[c].fn
         /\ ClientParams(c).fn <= MaxFiles
         /\ Files(c) \in Nat /\ (~Plain(c) => Files(c) = ClientParams(c).fn)
         /\ Files(c) <= MaxFiles
BY CallTypes DEF ClientParams, Files

(* What the sequences of targets are after one more, and after joining.    *)
LEMMA AppendFacts ==
  ASSUME NEW S, NEW s \in Seq(S), NEW e \in S
  PROVE  /\ Append(s, e) \in Seq(S)
         /\ Len(s) \in Nat
         /\ Len(Append(s, e)) = Len(s) + 1
OBVIOUS

(* Two sequences put together.                                             *)
LEMMA ConcatFacts ==
  ASSUME NEW S, NEW s \in Seq(S), NEW t \in Seq(S)
  PROVE  /\ s \o t \in Seq(S)
         /\ Len(s) \in Nat /\ Len(t) \in Nat
         /\ Len(s \o t) = Len(s) + Len(t)
         /\ \A j \in 1 .. Len(s) + Len(t) :
              (s \o t)[j] = IF j <= Len(s) THEN s[j] ELSE t[j - Len(s)]
OBVIOUS

(* The empty sequence is the only one of length 0.                         *)
LEMMA EmptyFacts ==
  ASSUME NEW S
  PROVE  /\ <<>> \in Seq(S) /\ Len(<<>>) = 0
         /\ \A s \in Seq(S) : Len(s) = 0 => s = <<>>
OBVIOUS

(* Adding one target at the end.                                           *)
LEMMA AddFacts ==
  ASSUME NEW S, NEW s \in Seq(S), NEW e \in S
  PROVE  /\ s \o Append(<<>>, e) \in Seq(S)
         /\ Len(s) \in Nat
         /\ Len(s \o Append(<<>>, e)) = Len(s) + 1
         /\ \A j \in 1 .. Len(s) : (s \o Append(<<>>, e))[j] = s[j]
         /\ (s \o Append(<<>>, e))[Len(s) + 1] = e
OBVIOUS

Without(s, i) == SubSeq(s, 1, i - 1) \o SubSeq(s, i + 1, Len(s))

(* Taking one target out of the middle.                                    *)
LEMMA WithoutFacts ==
  ASSUME NEW S, NEW s \in Seq(S), NEW i \in 1 .. Len(s)
  PROVE  /\ Without(s, i) \in Seq(S)
         /\ Len(s) \in Nat
         /\ Len(Without(s, i)) = Len(s) - 1
         /\ \A j \in 1 .. i - 1 : Without(s, i)[j] = s[j]
         /\ \A j \in i .. Len(s) - 1 : Without(s, i)[j] = s[j + 1]
<1> DEFINE a == SubSeq(s, 1, i - 1)
           b == SubSeq(s, i + 1, Len(s))
<1>0. Len(s) \in Nat
  OBVIOUS
<1>1. a \in Seq(S) /\ Len(a) = i - 1 /\ \A j \in 1 .. i - 1 : a[j] = s[j]
  BY <1>0
<1>2. b \in Seq(S) /\ Len(b) = Len(s) - i /\ \A j \in 1 .. Len(s) - i : b[j] = s[i + j]
  BY <1>0
<1> HIDE DEF a, b
<1>3. /\ a \o b \in Seq(S) /\ Len(a \o b) = Len(a) + Len(b)
      /\ \A j \in 1 .. Len(a) + Len(b) :
           (a \o b)[j] = IF j <= Len(a) THEN a[j] ELSE b[j - Len(a)]
  BY <1>1, <1>2, ConcatFacts
<1>4. \A j \in 1 .. i - 1 : (a \o b)[j] = s[j]
  <2> SUFFICES ASSUME NEW j \in 1 .. i - 1 PROVE (a \o b)[j] = s[j]
    OBVIOUS
  <2>1. j \in 1 .. Len(a) + Len(b) /\ j <= Len(a)
    BY <1>0, <1>1, <1>2
  <2> QED
    BY <2>1, <1>1, <1>3
<1>6. \A j \in i .. Len(s) - 1 : (a \o b)[j] = s[j + 1]
  <2> SUFFICES ASSUME NEW j \in i .. Len(s) - 1 PROVE (a \o b)[j] = s[j + 1]
    OBVIOUS
  <2>1. /\ j \in 1 .. Len(a) + Len(b) /\ ~(j <= Len(a))
        /\ j - Len(a) \in 1 .. Len(s) - i /\ i + (j - Len(a)) = j + 1
    BY <1>0, <1>1, <1>2
  <2> QED
    BY <2>1, <1>2, <1>3
<1>7. Len(a) + Len(b) = Len(s) - 1
  BY <1>0, <1>1, <1>2
<1>5. Without(s, i) = a \o b
  BY DEF Without, a, b
<1> QED
  BY <1>0, <1>3, <1>4, <1>5, <1>6, <1>7

(* A step changes only what belongs to its own call; SetFn also            *)
(* starts the other threads of its process.                                *)
LEMMA OthersKeep ==
  ASSUME TypeOK, NEW c \in Clients, Step(c), NEW d \in Clients, d # c
  PROVE  /\ sent'[d] = sent[d] /\ wire'[d] = wire[d]
         /\ hpc'[d] = hpc[d] /\ files'[d] = files[d] /\ count'[d] = count[d]
         /\ sq'[d] = sq[d] /\ cap'[d] = cap[d] /\ inflight'[d] = inflight[d]
         /\ cq'[d] = cq[d] /\ written'[d] = written[d] /\ qpc'[d] = qpc[d] /\ seen'[d] = seen[d]
<1> USE DEF TypeOK, handlerVars, ringVars, threadVars, clientVars, HandlerGoto, SetParameter
<1>1. CASE Client(c)
  BY <1>1 DEF Client, SetDepth, SetN, SetFn, OpenStream, Write, WritesDone, Finish
<1>2. CASE InitRing(c) \/ InitRingFails(c)
  BY <1>2 DEF InitRing, InitRingFails
<1>3. CASE FirstRequest(c) \/ OpenFiles(c)
  BY <1>3 DEF FirstRequest, OpenFiles
<1>4. CASE ReadRequest(c) \/ StreamEnds(c) \/ Join(c) \/ Reply(c)
  BY <1>4 DEF ReadRequest, StreamEnds, Join, Reply
<1>5. CASE AppendRequest(c)
  BY <1>5 DEF AppendRequest
<1>6. CASE AppendCrashes(c) \/ CallFails(c) \/ NoFirstRequest(c)
  BY <1>6 DEF AppendCrashes, CallFails, NoFirstRequest, Terminate
<1>7. CASE CqTest(c) \/ CqReap(c) \/ CqGivesUp(c)
  BY <1>7 DEF CqTest, CqReap, CqGivesUp
<1>8. CASE Complete(c)
  BY <1>8 DEF Complete
<1> QED
  BY <1>1, <1>2, <1>3, <1>4, <1>5, <1>6, <1>7, <1>8 DEF Step, Handler, CqThread

(* Nobody's arguments change, and no call is undisturbed again.            *)
LEMMA StaysDisturbed ==
  ASSUME TypeOK, NEW c \in Clients, Step(c), NEW d \in Clients
  PROVE  conf' = conf /\ (disturbed[d] => disturbed'[d]) /\ (Regular(d)' => Regular(d))
<1>1. conf' = conf /\ (disturbed[d] => disturbed'[d])
  <2>1. CASE SetDepth(c) \/ SetN(c) \/ SetFn(c)
    BY <2>1 DEF SetDepth, SetN, SetFn, SetParameter
  <2>2. CASE ~SetDepth(c) /\ ~SetN(c) /\ ~SetFn(c)
    <3>1. UNCHANGED <<conf, disturbed>>
      BY <2>2 DEF Step, Client, Handler, CqThread, OpenStream, Write, WritesDone, Finish,
                  InitRing, InitRingFails, FirstRequest, NoFirstRequest, OpenFiles, ReadRequest,
                  StreamEnds, AppendRequest, AppendCrashes, CallFails, Terminate, Join, Reply,
                  CqTest, CqReap, CqGivesUp, Complete
    <3> QED
      BY <3>1
  <2> QED
    BY <2>1, <2>2
<1>2. Regular(d)' => Regular(d)
  BY <1>1 DEF Regular, Files, Plain
<1> QED
  BY <1>1, <1>2

-----------------------------------------------------------------------------
(* A write goes to a slot.                                                 *)
LEMMA TargetSlot ==
  ASSUME TypeOK, NEW c \in Clients, prm.fn <= MaxFiles, CanAppend(c)
  PROVE  Target(c) \in Slots
<1>1. /\ MaxFiles \in Nat \ {0} /\ prm.fn \in Nat /\ count[c] \in Nat
  BY CallTypes
<1>2. CASE Plain(c)
  BY <1>1, <1>2 DEF Target, Slots
<1>3. CASE ~Plain(c)
  <2>1. prm.fn > 0
    BY <1>3 DEF CanAppend
  <2>2. (count[c] % prm.fn) \in 0 .. prm.fn - 1
    BY <1>1, <2>1
  <2>3. Target(c) = (count[c] % prm.fn)
    BY <1>3 DEF Target
  <2> HIDE DEF Target
  <2> QED
    BY <1>1, <2>2, <2>3 DEF Slots
<1> QED
  BY <1>2, <1>3

(* An assignment to one call's variable.                                   *)
LEMMA ExceptType ==
  ASSUME NEW D, NEW S, NEW f \in [D -> S], NEW x \in D, NEW v \in S
  PROVE  [f EXCEPT ![x] = v] \in [D -> S]
OBVIOUS

(* A step of a call keeps the types and the bound on the number of files.  *)
LEMMA TypeStep ==
  ASSUME TypeOK, NEW c \in Clients, Step(c), prm.fn <= MaxFiles
  PROVE  TypeOK' /\ prm'.fn <= MaxFiles
<1> USE DEF handlerVars, ringVars, threadVars, clientVars
<1>0. /\ sent[c] \in Nat /\ wire[c] \in Nat /\ count[c] \in Nat /\ cap[c] \in Nat
      /\ cq[c] \in Nat /\ seen[c] \in Nat /\ prm.depth \in Nat /\ prm.fn \in Nat
      /\ sq[c] \in Seq(Slots) /\ inflight[c] \in Seq(Slots) /\ written[c] \in [Slots -> Nat]
  BY CallTypes
<1>1. CASE SetDepth(c) \/ SetN(c) \/ SetFn(c)
  <2>1. prm' \in [depth : Nat, n : Nat, fn : Nat] /\ prm'.fn <= MaxFiles
    <3>1. /\ ClientParams(c).depth \in Nat /\ ClientParams(c).n \in Nat
          /\ ClientParams(c).fn \in Nat /\ ClientParams(c).fn <= MaxFiles
      BY ParamTypes
    <3>2. prm \in [depth : Nat, n : Nat, fn : Nat]
      BY DEF TypeOK
    <3>3. \/ prm' = [prm EXCEPT !.depth = ClientParams(c).depth]
          \/ prm' = [prm EXCEPT !.n = ClientParams(c).n]
          \/ prm' = [prm EXCEPT !.fn = ClientParams(c).fn]
      BY <1>1 DEF SetDepth, SetN, SetFn, SetParameter
    <3> HIDE DEF ClientParams
    <3> QED
      BY <3>1, <3>2, <3>3
  <2>2. cpc' \in [Clients -> Before \cup {"open", "write", "await", "done", "failed"}]
    <3>1. CASE SetDepth(c) \/ SetN(c)
      <4>1. cpc' = [cpc EXCEPT ![c] = "setN"] \/ cpc' = [cpc EXCEPT ![c] = "setFn"]
        BY <3>1 DEF SetDepth, SetN, ClientGoto
      <4>2. cpc \in [Clients -> Before \cup {"open", "write", "await", "done", "failed"}]
        BY DEF Before, TypeOK
      <4>3. {"setN", "setFn"} \subseteq Before
        BY DEF Before
      <4> QED
        BY <4>1, <4>2, <4>3, ExceptType
    <3>2. CASE SetFn(c)
      <4>1. \A d \in Clients : cpc[d] \in Before \cup {"open", "write", "await", "done", "failed"}
        BY DEF TypeOK, Before
      <4> QED
        BY <3>2, <4>1 DEF SetFn
    <3> QED
      BY <1>1, <3>1, <3>2
  <2>3. disturbed' \in [Clients -> BOOLEAN]
    BY <1>1 DEF SetDepth, SetN, SetFn, SetParameter
  <2>4. UNCHANGED <<conf, server, dummy, sent, wire, handlerVars, ringVars, threadVars>>
    BY <1>1 DEF SetDepth, SetN, SetFn, SetParameter
  <2> QED
    BY <2>1, <2>2, <2>3, <2>4 DEF TypeOK, Before
<1>2. CASE OpenStream(c) \/ WritesDone(c) \/ Finish(c)
  BY <1>2 DEF OpenStream, WritesDone, Finish, ClientGoto, TypeOK
<1>3. CASE Write(c)
  <2>1. sent[c] + 1 \in Nat /\ wire[c] + 1 \in Nat
    BY <1>0
  <2>2. sent \in [Clients -> Nat] /\ wire \in [Clients -> Nat]
    BY DEF TypeOK
  <2>3. sent' = [sent EXCEPT ![c] = sent[c] + 1] /\ wire' = [wire EXCEPT ![c] = wire[c] + 1]
    BY <1>3 DEF Write
  <2>4. sent' \in [Clients -> Nat] /\ wire' \in [Clients -> Nat]
    BY <2>1, <2>2, <2>3, ExceptType
  <2> QED
    BY <1>3, <2>4 DEF Write, TypeOK
<1>4. CASE InitRing(c) \/ InitRingFails(c)
  BY <1>4, <1>0 DEF InitRing, InitRingFails, HandlerGoto, TypeOK
<1>5. CASE FirstRequest(c)
  <2>1. wire[c] - 1 \in Nat
    BY <1>5, <1>0 DEF FirstRequest
  <2>2. wire' \in [Clients -> Nat]
    BY <1>5, <2>1 DEF FirstRequest, TypeOK
  <2>3. files' \in [Clients -> [n : Nat, nonce : Nat \cup {-1}]]
    BY <1>5 DEF FirstRequest, TypeOK
  <2> QED
    BY <1>5, <2>2, <2>3 DEF FirstRequest, HandlerGoto, TypeOK
<1>6. CASE OpenFiles(c)
  <2>1. files' \in [Clients -> [n : Nat, nonce : Nat \cup {-1}]]
    BY <1>6, <1>0 DEF OpenFiles, TypeOK
  <2> QED
    <3>1. dummy' \in Nat
      BY <1>6 DEF OpenFiles, TypeOK
    <3>2. /\ UNCHANGED <<conf, disturbed, server, prm, clientVars, wire, count, sq, cap, ringVars,
                         threadVars>>
          /\ HandlerGoto(c, "read")
      BY <1>6 DEF OpenFiles
    <3> QED
      BY <2>1, <3>1, <3>2 DEF HandlerGoto, TypeOK
<1>7. CASE ReadRequest(c)
  <2>1. wire[c] - 1 \in Nat
    BY <1>7, <1>0 DEF ReadRequest
  <2>2. wire' \in [Clients -> Nat]
    BY <1>7, <2>1 DEF ReadRequest, TypeOK
  <2> QED
    BY <1>7, <2>2 DEF ReadRequest, HandlerGoto, TypeOK
<1>8. CASE StreamEnds(c) \/ Join(c)
  BY <1>8 DEF StreamEnds, Join, HandlerGoto, TypeOK
<1>9. CASE Reply(c)
  <2>1. <<>> \in Seq(Slots)
    BY EmptyFacts
  <2> QED
    BY <1>9, <2>1 DEF Reply, HandlerGoto, TypeOK
<1>10. CASE AppendRequest(c)
  <2> DEFINE all == Append(sq[c], Target(c))
  <2>1. Target(c) \in Slots
    BY <1>10, TargetSlot DEF AppendRequest
  <2>2. all \in Seq(Slots)
    BY <2>1, <1>0, AppendFacts
  <2> HIDE DEF all
  <2>3. inflight[c] \o all \in Seq(Slots) /\ <<>> \in Seq(Slots)
    BY <2>2, <1>0, ConcatFacts, EmptyFacts
  <2>4. \/ sq' = [sq EXCEPT ![c] = all] /\ UNCHANGED inflight
        \/ /\ sq' = [sq EXCEPT ![c] = <<>>]
           /\ inflight' = [inflight EXCEPT ![c] = @ \o all]
    BY <1>10 DEF AppendRequest, all
  <2>5. sq' \in [Clients -> Seq(Slots)] /\ inflight' \in [Clients -> Seq(Slots)]
    <3>1. sq \in [Clients -> Seq(Slots)] /\ inflight \in [Clients -> Seq(Slots)]
      BY DEF TypeOK
    <3>2. CASE sq' = [sq EXCEPT ![c] = all] /\ UNCHANGED inflight
      BY <2>2, <3>1, <3>2, ExceptType
    <3>3. CASE /\ sq' = [sq EXCEPT ![c] = <<>>]
               /\ inflight' = [inflight EXCEPT ![c] = inflight[c] \o all]
      BY <2>3, <3>1, <3>3, ExceptType
    <3> QED
      BY <2>4, <3>2, <3>3
  <2>6. count' \in [Clients -> Nat]
    <3>1. count[c] + 1 \in Nat /\ count \in [Clients -> Nat]
      BY <1>0 DEF TypeOK
    <3>2. count' = [count EXCEPT ![c] = count[c] + 1]
      BY <1>10 DEF AppendRequest
    <3> QED
      BY <3>1, <3>2, ExceptType
  <2>7. /\ UNCHANGED <<conf, disturbed, server, prm, dummy, clientVars, wire, files, cap, cq,
                       written, threadVars>>
        /\ HandlerGoto(c, "read")
    BY <1>10 DEF AppendRequest
  <2> QED
    BY <2>5, <2>6, <2>7 DEF HandlerGoto, TypeOK
<1>11. CASE AppendCrashes(c) \/ CallFails(c) \/ NoFirstRequest(c)
  BY <1>11 DEF AppendCrashes, CallFails, NoFirstRequest, Terminate, TypeOK
<1>12. CASE CqTest(c) \/ CqGivesUp(c)
  BY <1>12 DEF CqTest, CqGivesUp, TypeOK
<1>13. CASE CqReap(c)
  <2>1. cq[c] - 1 \in Nat
    BY <1>13, <1>0 DEF CqReap
  <2>2. cq' \in [Clients -> Nat] /\ seen' \in [Clients -> Nat]
    BY <1>13, <2>1, <1>0 DEF CqReap, TypeOK
  <2> QED
    BY <1>13, <2>2 DEF CqReap, TypeOK
<1>14. CASE Complete(c)
  <2>1. PICK i \in 1 .. Len(inflight[c]) :
          /\ inflight' = [inflight EXCEPT ![c] = Without(@, i)]
          /\ written' = [written EXCEPT ![c][inflight[c][i]] = @ + 1]
          /\ cq' = [cq EXCEPT ![c] = @ + 1]
          /\ UNCHANGED <<conf, disturbed, server, prm, dummy, clientVars, wire, handlerVars,
                         threadVars>>
    BY <1>14 DEF Complete, Without
  <2>2. Without(inflight[c], i) \in Seq(Slots) /\ inflight[c][i] \in Slots
    BY <1>0, WithoutFacts
  <2>3. inflight' \in [Clients -> Seq(Slots)]
    BY <2>1, <2>2 DEF TypeOK
  <2>4. written' \in [Clients -> [Slots -> Nat]]
    <3> DEFINE w == [written[c] EXCEPT ![inflight[c][i]] = written[c][inflight[c][i]] + 1]
    <3>1. written[c][inflight[c][i]] + 1 \in Nat
      <4>1. \A x \in Slots : written[c][x] + 1 \in Nat
        BY ONLY <1>0
      <4> QED
        BY <2>2, <4>1
    <3>2. w \in [Slots -> Nat]
      <4>1. inflight[c][i] \in Slots /\ written[c] \in [Slots -> Nat]
        BY <2>2, <1>0
      <4> QED
        BY <3>1, <4>1, ExceptType
    <3>3. written \in [Clients -> [Slots -> Nat]]
      BY DEF TypeOK
    <3>4. written' = [written EXCEPT ![c] = w]
      BY <2>1
    <3> HIDE DEF w
    <3> QED
      BY <3>2, <3>3, <3>4, ExceptType
  <2>5. cq' \in [Clients -> Nat]
    <3>1. cq[c] + 1 \in Nat /\ cq \in [Clients -> Nat] /\ cq' = [cq EXCEPT ![c] = cq[c] + 1]
      BY <2>1, <1>0 DEF TypeOK
    <3> QED
      BY <3>1, ExceptType
  <2> QED
    BY <2>1, <2>3, <2>4, <2>5 DEF TypeOK
<1> QED
  BY <1>1, <1>2, <1>3, <1>4, <1>5, <1>6, <1>7, <1>8, <1>9, <1>10, <1>11, <1>12, <1>13, <1>14
     DEF Step, Client, Handler, CqThread

(* The threads start together.                                             *)
LEMMA TogetherStep ==
  ASSUME TypeOK, Together, NEW c \in Clients, Step(c)
  PROVE  Together'
<1>0. conf' = conf
  BY StaysDisturbed
<1>1. CASE SetFn(c)
  <2>1. \A d \in Clients : conf[d].kind = "mt" =>
          IF conf[c].kind = "mt" THEN cpc'[d] = "open" ELSE cpc'[d] = cpc[d]
    BY <1>1 DEF SetFn, Peers
  <2> QED
    BY <1>0, <2>1 DEF Together, Before
<1>2. CASE ~SetFn(c)
  <2>1. \A d \in Clients : cpc'[d] \in Before <=> cpc[d] \in Before
    BY <1>2 DEF Step, Client, Handler, CqThread, SetDepth, SetN, SetParameter, Peers, OpenStream,
                Write, WritesDone, Finish, InitRing, InitRingFails, FirstRequest, NoFirstRequest,
                OpenFiles, ReadRequest, StreamEnds, AppendRequest, AppendCrashes, CallFails,
                Terminate, Join, Reply, CqTest, CqReap, CqGivesUp, Complete, ClientGoto,
                clientVars, Before, TypeOK
  <2> QED
    BY <1>0, <2>1 DEF Together
<1> QED
  BY <1>1, <1>2

(* Where the other clients are after a step.                               *)
LEMMA OthersGo ==
  ASSUME TypeOK, Together, NEW c \in Clients, Step(c), NEW d \in Clients, d # c
  PROVE  cpc'[d] = cpc[d] \/ (cpc[d] \in Before /\ cpc'[d] = "open")
<1>1. CASE SetFn(c)
  BY <1>1 DEF SetFn, Peers, Together, Before
<1>2. CASE ~SetFn(c)
  BY <1>2 DEF Step, Client, Handler, CqThread, SetDepth, SetN, SetParameter, OpenStream,
              Write, WritesDone, Finish, InitRing, InitRingFails, FirstRequest, NoFirstRequest,
              OpenFiles, ReadRequest, StreamEnds, AppendRequest, AppendCrashes, CallFails,
              Terminate, Join, Reply, CqTest, CqReap, CqGivesUp, Complete, ClientGoto,
              clientVars, TypeOK
<1> QED
  BY <1>1, <1>2

-----------------------------------------------------------------------------
(* How the counts of a ring's writes add up.                               *)
LEMMA Sums ==
  \A a, b \in Nat :
    /\ (a + 1) + b = a + b + 1
    /\ 0 + (b + (a + 1)) = a + b + 1
OBVIOUS

(* The lengths of the ring's sequences under AppendRequest and Complete.   *)
LEMMA AppendLengths ==
  ASSUME TypeOK, NEW c \in Clients, AppendRequest(c), prm.fn <= MaxFiles
  PROVE  Len(sq'[c]) + Len(inflight'[c]) = Len(sq[c]) + Len(inflight[c]) + 1
<1> DEFINE all == Append(sq[c], Target(c))
<1>0. sq[c] \in Seq(Slots) /\ inflight[c] \in Seq(Slots) /\ Target(c) \in Slots
  BY CallTypes, TargetSlot DEF AppendRequest
<1>1. all \in Seq(Slots) /\ Len(sq[c]) \in Nat /\ Len(all) = Len(sq[c]) + 1
  BY <1>0, AppendFacts
<1>2. /\ Len(inflight[c]) \in Nat
      /\ Len(inflight[c] \o all) = Len(inflight[c]) + Len(all)
      /\ Len(<<>>) = 0
  BY <1>0, <1>1, ConcatFacts, EmptyFacts
<1>3. \/ sq'[c] = all /\ inflight'[c] = inflight[c]
      \/ sq'[c] = <<>> /\ inflight'[c] = inflight[c] \o all
  BY DEF AppendRequest, TypeOK
<1> HIDE DEF all
<1>4. CASE sq'[c] = all /\ inflight'[c] = inflight[c]
  <2>1. Len(sq'[c]) = Len(sq[c]) + 1 /\ Len(inflight'[c]) = Len(inflight[c])
    BY <1>1, <1>4
  <2>2. (Len(sq[c]) + 1) + Len(inflight[c]) = Len(sq[c]) + Len(inflight[c]) + 1
    BY ONLY <1>1, <1>2, Sums, Zenon
  <2> QED
    BY ONLY <2>1, <2>2, Zenon
<1>5. CASE sq'[c] = <<>> /\ inflight'[c] = inflight[c] \o all
  <2>1. Len(sq'[c]) = 0 /\ Len(inflight'[c]) = Len(inflight[c]) + (Len(sq[c]) + 1)
    BY <1>1, <1>2, <1>5
  <2>2. 0 + (Len(inflight[c]) + (Len(sq[c]) + 1)) = Len(sq[c]) + Len(inflight[c]) + 1
    BY ONLY <1>1, <1>2, Sums, Zenon
  <2> QED
    BY ONLY <2>1, <2>2, Zenon
<1> QED
  BY <1>3, <1>4, <1>5

(* What a completion of the kernel changes, for its own call only.         *)
LEMMA CompleteFacts ==
  ASSUME TypeOK, NEW c \in Clients, Complete(c)
  PROVE  \E i \in 1 .. Len(inflight[c]) :
           /\ inflight[c][i] \in Slots
           /\ inflight'[c] = Without(inflight[c], i)
           /\ Len(inflight'[c]) = Len(inflight[c]) - 1 /\ Len(inflight[c]) \in Nat
           /\ cq'[c] = cq[c] + 1
           /\ \A x \in Slots : written'[c][x] =
                IF x = inflight[c][i] THEN written[c][x] + 1 ELSE written[c][x]
           /\ UNCHANGED <<conf, disturbed, server, prm, dummy, clientVars, wire, handlerVars,
                          threadVars>>
<1>1. PICK i \in 1 .. Len(inflight[c]) :
        /\ inflight' = [inflight EXCEPT ![c] = Without(@, i)]
        /\ written' = [written EXCEPT ![c][inflight[c][i]] = @ + 1]
        /\ cq' = [cq EXCEPT ![c] = @ + 1]
        /\ UNCHANGED <<conf, disturbed, server, prm, dummy, clientVars, wire, handlerVars,
                       threadVars>>
  BY DEF Complete, Without
<1>2. inflight'[c] = Without(inflight[c], i) /\ cq'[c] = cq[c] + 1
  BY <1>1 DEF TypeOK
<1>3. inflight[c] \in Seq(Slots) /\ inflight[c][i] \in Slots
  BY <1>1, CallTypes
<1>4. Len(Without(inflight[c], i)) = Len(inflight[c]) - 1 /\ Len(inflight[c]) \in Nat
  BY <1>3, WithoutFacts
<1>5. \A x \in Slots : written'[c][x] =
        IF x = inflight[c][i] THEN written[c][x] + 1 ELSE written[c][x]
  <2>1. written' = [written EXCEPT ![c] =
          [written[c] EXCEPT ![inflight[c][i]] = written[c][inflight[c][i]] + 1]]
    BY <1>1
  <2>2. written'[c] = [written[c] EXCEPT ![inflight[c][i]] = written[c][inflight[c][i]] + 1]
    BY <2>1 DEF TypeOK
  <2>3. written[c] \in [Slots -> Nat]
    BY CallTypes
  <2> QED
    BY <2>2, <2>3
<1>6. WITNESS i \in 1 .. Len(inflight[c])
<1> QED
  BY <1>1, <1>2, <1>3, <1>4, <1>5

(* A step of a call keeps its client, its handler and its completion       *)
(* thread together.                                                        *)
LEMMA OwnProtocol ==
  ASSUME TypeOK, NEW c \in Clients, Step(c), prm.fn <= MaxFiles, Protocol(c)
  PROVE  Protocol(c)'
<1> USE DEF handlerVars, ringVars, threadVars, clientVars
<1>0. /\ conf[c].n \in Nat /\ sent[c] \in Nat /\ wire[c] \in Nat /\ count[c] \in Nat
      /\ cq[c] \in Nat /\ seen[c] \in Nat /\ Len(sq[c]) \in Nat /\ Len(inflight[c]) \in Nat
  BY CallTypes
<1>1. CASE SetDepth(c) \/ SetN(c) \/ SetFn(c)
  <2>1. cpc[c] \in Before /\ cpc'[c] \in Before \cup {"open"}
    BY <1>1 DEF SetDepth, SetN, SetFn, Peers, ClientGoto, Before, TypeOK
  <2>2. UNCHANGED <<conf, sent, wire, handlerVars, ringVars, threadVars>>
    BY <1>1 DEF SetDepth, SetN, SetFn, SetParameter
  <2> QED
    BY <2>1, <2>2 DEF Protocol, InHand, Plain, Before
<1>2. CASE OpenStream(c)
  <2>1. /\ cpc[c] = "open" /\ cpc'[c] = "write" /\ hpc'[c] = "init"
        /\ UNCHANGED <<conf, sent, wire, count, sq, ringVars, threadVars>>
    BY <1>2 DEF OpenStream, ClientGoto, TypeOK
  <2> QED
    BY <2>1 DEF Protocol, InHand, Plain, Before
<1>3. CASE Write(c)
  <2>1. /\ cpc[c] = "write" /\ sent[c] < conf[c].n
        /\ sent'[c] = sent[c] + 1 /\ wire'[c] = wire[c] + 1
        /\ UNCHANGED <<conf, cpc, handlerVars, ringVars, threadVars>>
    BY <1>3 DEF Write, TypeOK
  <2>2. InHand(c)' = InHand(c) /\ InHand(c) \in Nat
    BY <2>1 DEF InHand
  <2>3. wire[c] + count[c] + InHand(c) = sent[c]
    BY DEF Protocol
  <2>4. count'[c] = count[c]
    BY <2>1
  <2>5. wire'[c] + count'[c] + InHand(c)' = sent'[c] /\ sent'[c] <= conf[c].n
    <3> DEFINE w == wire[c]
               n == count[c]
               h == InHand(c)
               s == sent[c]
               m == conf[c].n
    <3>1. /\ w \in Nat /\ n \in Nat /\ h \in Nat /\ s \in Nat /\ m \in Nat
          /\ w + n + h = s /\ s < m
      BY <1>0, <2>1, <2>2, <2>3
    <3>2. wire'[c] = w + 1 /\ count'[c] = n /\ InHand(c)' = h /\ sent'[c] = s + 1
      BY <2>1, <2>2, <2>4
    <3> HIDE DEF w, n, h, s, m
    <3>3. (w + 1) + n + h = s + 1 /\ s + 1 <= m
      BY ONLY <3>1
    <3> QED
      BY ONLY <3>2, <3>3, Zenon DEF m
  <2>6. hpc'[c] = hpc[c] /\ cpc'[c] = "write"
    BY <2>1
  <2> QED
    BY <2>1, <2>5, <2>6 DEF Protocol, Plain, Before
<1>4. CASE WritesDone(c)
  <2>1. /\ cpc[c] = "write" /\ cpc'[c] = "await" /\ sent[c] = conf[c].n
        /\ UNCHANGED <<conf, sent, wire, handlerVars, ringVars, threadVars>>
    BY <1>4 DEF WritesDone, ClientGoto, TypeOK
  <2> QED
    BY <2>1 DEF Protocol, InHand, Plain, Before
<1>5. CASE Finish(c)
  <2>1. /\ cpc[c] = "await"
        /\ \/ hpc[c] = "replied" /\ cpc'[c] = "done"
           \/ hpc[c] = "error" /\ cpc'[c] = "failed"
        /\ UNCHANGED <<conf, sent, wire, handlerVars, ringVars, threadVars>>
    BY <1>5 DEF Finish, ClientGoto, TypeOK
  <2> QED
    BY <2>1 DEF Protocol, InHand, Plain, Before
<1>6. CASE InitRing(c)
  <2>1. /\ hpc[c] = "init" /\ qpc'[c] = "test"
        /\ hpc'[c] = IF Plain(c) THEN "first" ELSE "files"
        /\ UNCHANGED <<conf, cpc, sent, wire, count, sq, ringVars, seen>>
    BY <1>6 DEF InitRing, HandlerGoto, TypeOK
  <2> QED
    BY <2>1 DEF Protocol, InHand, Plain, Before
<1>7. CASE InitRingFails(c)
  <2>1. /\ hpc[c] = "init" /\ hpc'[c] = "error"
        /\ UNCHANGED <<conf, cpc, sent, wire, count, sq, ringVars, threadVars>>
    BY <1>7 DEF InitRingFails, HandlerGoto, TypeOK
  <2> QED
    BY <2>1 DEF Protocol, InHand, Plain, Before
<1>8. CASE FirstRequest(c) \/ ReadRequest(c)
  <2>1. /\ hpc[c] \in {"first", "read"} /\ hpc'[c] = "append"
        /\ wire[c] > 0 /\ wire'[c] = wire[c] - 1
        /\ UNCHANGED <<conf, cpc, sent, count, sq, ringVars, threadVars>>
    BY <1>8 DEF FirstRequest, ReadRequest, HandlerGoto, TypeOK
  <2>2. InHand(c)' = 1 /\ InHand(c) = 0 /\ count'[c] = count[c] /\ sent'[c] = sent[c]
    BY <2>1 DEF InHand
  <2>3. wire[c] + count[c] + InHand(c) = sent[c]
    BY DEF Protocol
  <2>4. wire'[c] + count'[c] + InHand(c)' = sent'[c]
    BY ONLY <1>0, <2>1, <2>2, <2>3
  <2> QED
    BY <2>1, <2>4 DEF Protocol, Plain, Before
<1>9. CASE OpenFiles(c)
  <2>1. /\ hpc[c] = "files" /\ hpc'[c] = "read"
        /\ UNCHANGED <<conf, cpc, sent, wire, count, sq, ringVars, threadVars>>
    BY <1>9 DEF OpenFiles, HandlerGoto, TypeOK
  <2> QED
    BY <2>1 DEF Protocol, InHand, Plain, Before
<1>10. CASE StreamEnds(c)
  <2>1. /\ hpc[c] = "read" /\ hpc'[c] = "join" /\ wire[c] = 0 /\ cpc[c] = "await"
        /\ UNCHANGED <<conf, cpc, sent, wire, count, sq, ringVars, threadVars>>
    BY <1>10 DEF StreamEnds, HandlerGoto, TypeOK
  <2> QED
    BY <2>1 DEF Protocol, InHand, Plain, Before
<1>11. CASE AppendRequest(c)
  <2>1. /\ hpc[c] = "append" /\ hpc'[c] = "read" /\ count'[c] = count[c] + 1
        /\ UNCHANGED <<conf, cpc, sent, wire, cq, threadVars>>
    BY <1>11 DEF AppendRequest, HandlerGoto, TypeOK
  <2>2. Len(sq'[c]) + Len(inflight'[c]) = Len(sq[c]) + Len(inflight[c]) + 1
    BY <1>11, AppendLengths
  <2>3. count[c] = Len(sq[c]) + Len(inflight[c]) + cq[c] + seen[c]
    BY <2>1 DEF Protocol
  <2>4. count'[c] = Len(sq'[c]) + Len(inflight'[c]) + cq'[c] + seen'[c]
    <3>1. count'[c] = Len(sq[c]) + Len(inflight[c]) + 1 + cq[c] + seen[c]
      <4>1. count'[c] = count[c] + 1
        BY <2>1
      <4> DEFINE a == Len(sq[c])
                 b == Len(inflight[c])
                 p == cq[c]
                 q == seen[c]
      <4>2. a \in Nat /\ b \in Nat /\ p \in Nat /\ q \in Nat
        BY <1>0
      <4> HIDE DEF a, b, p, q
      <4>3. (a + b + p + q) + 1 = a + b + 1 + p + q
        BY ONLY <4>2
      <4> QED
        BY ONLY <4>1, <4>3, <2>3 DEF a, b, p, q
    <3> QED
      <4>1. cq'[c] = cq[c] /\ seen'[c] = seen[c]
        BY <2>1
      <4> QED
        BY ONLY <3>1, <4>1, <2>2, Zenon
  <2>5. wire'[c] + count'[c] + 0 = sent'[c]
    BY <2>1, <1>0 DEF Protocol, InHand, Plain, Before
  <2> QED
    BY <2>1, <2>4, <2>5 DEF Protocol, InHand, Plain, Before
<1>12. CASE AppendCrashes(c) \/ CallFails(c) \/ NoFirstRequest(c)
  <2>1. UNCHANGED <<conf, clientVars, wire, handlerVars, ringVars, threadVars>>
    BY <1>12 DEF AppendCrashes, CallFails, NoFirstRequest, Terminate
  <2> QED
    BY <2>1 DEF Protocol, InHand, Plain, Before
<1>13. CASE Join(c)
  <2>1. /\ hpc[c] = "join" /\ hpc'[c] = "exit" /\ qpc[c] \in {"done", "gaveup"}
        /\ UNCHANGED <<conf, cpc, sent, wire, count, sq, ringVars, threadVars>>
    BY <1>13 DEF Join, HandlerGoto, TypeOK
  <2> QED
    BY <2>1 DEF Protocol, InHand, Plain, Before
<1>14. CASE Reply(c)
  <2>1. /\ hpc[c] = "exit" /\ hpc'[c] = "replied"
        /\ UNCHANGED <<conf, cpc, sent, wire, count, sq, cq, threadVars>>
    BY <1>14 DEF Reply, HandlerGoto, TypeOK
  <2> QED
    BY <2>1 DEF Protocol, InHand, Plain, Before
<1>15. CASE CqTest(c) \/ CqGivesUp(c)
  <2>1. /\ qpc[c] \in {"test", "wait"} /\ qpc'[c] \in {"wait", "done", "gaveup"}
        /\ UNCHANGED <<conf, cpc, sent, wire, handlerVars, ringVars, seen>>
    BY <1>15 DEF CqTest, CqGivesUp, TypeOK
  <2> QED
    BY <2>1 DEF Protocol, InHand, Plain, Before
<1>16. CASE CqReap(c)
  <2>1. /\ qpc[c] = "wait" /\ qpc'[c] = "test" /\ cq[c] > 0
        /\ cq'[c] = cq[c] - 1 /\ seen'[c] = seen[c] + 1
        /\ UNCHANGED <<conf, cpc, sent, wire, handlerVars, inflight>>
    BY <1>16 DEF CqReap, TypeOK
  <2>2. Len(sq'[c]) + Len(inflight'[c]) + cq'[c] + seen'[c]
          = Len(sq[c]) + Len(inflight[c]) + cq[c] + seen[c]
    <3>1. /\ Len(sq'[c]) = Len(sq[c]) /\ Len(inflight'[c]) = Len(inflight[c])
          /\ cq'[c] = cq[c] - 1 /\ seen'[c] = seen[c] + 1
      BY <2>1
    <3> DEFINE a == Len(sq[c])
               b == Len(inflight[c])
               p == cq[c]
               q == seen[c]
    <3>2. a \in Nat /\ b \in Nat /\ p \in Nat /\ q \in Nat
      BY <1>0
    <3> HIDE DEF a, b, p, q
    <3>3. a + b + (p - 1) + (q + 1) = a + b + p + q
      BY ONLY <3>2
    <3> QED
      BY ONLY <3>1, <3>3 DEF a, b, p, q
  <2> QED
    BY <2>1, <2>2 DEF Protocol, InHand, Plain, Before
<1>17. CASE Complete(c)
  <2>1. /\ Len(inflight'[c]) = Len(inflight[c]) - 1 /\ cq'[c] = cq[c] + 1
        /\ UNCHANGED <<conf, cpc, sent, wire, handlerVars, threadVars>>
    BY <1>17, CompleteFacts
  <2>2. Len(sq'[c]) + Len(inflight'[c]) + cq'[c] + seen'[c]
          = Len(sq[c]) + Len(inflight[c]) + cq[c] + seen[c]
    <3>1. /\ Len(sq'[c]) = Len(sq[c]) /\ Len(inflight'[c]) = Len(inflight[c]) - 1
          /\ cq'[c] = cq[c] + 1 /\ seen'[c] = seen[c]
      BY <2>1
    <3> DEFINE a == Len(sq[c])
               b == Len(inflight[c])
               p == cq[c]
               q == seen[c]
    <3>2. a \in Nat /\ b \in Nat /\ p \in Nat /\ q \in Nat
      BY <1>0
    <3> HIDE DEF a, b, p, q
    <3>3. a + (b - 1) + (p + 1) + q = a + b + p + q
      BY ONLY <3>2
    <3> QED
      BY ONLY <3>1, <3>3 DEF a, b, p, q
  <2> QED
    BY <2>1, <2>2 DEF Protocol, InHand, Plain, Before
<1> QED
  BY <1>1, <1>2, <1>3, <1>4, <1>5, <1>6, <1>7, <1>8, <1>9, <1>10, <1>11, <1>12, <1>13, <1>14,
     <1>15, <1>16, <1>17 DEF Step, Client, Handler, CqThread

(* A step of one call keeps the protocol of every call.                    *)
LEMMA ProtocolStep ==
  ASSUME TypeOK, Together, NEW c \in Clients, Step(c), prm.fn <= MaxFiles,
         NEW d \in Clients, Protocol(d)
  PROVE  Protocol(d)'
<1>1. CASE d = c
  BY <1>1, OwnProtocol
<1>2. CASE d # c
  <2>1. /\ sent'[d] = sent[d] /\ wire'[d] = wire[d] /\ hpc'[d] = hpc[d] /\ count'[d] = count[d]
        /\ sq'[d] = sq[d] /\ inflight'[d] = inflight[d] /\ cq'[d] = cq[d] /\ qpc'[d] = qpc[d]
        /\ seen'[d] = seen[d]
    BY <1>2, OthersKeep
  <2>2. conf' = conf
    BY StaysDisturbed
  <2>3. cpc'[d] = cpc[d] \/ (cpc[d] \in Before /\ cpc'[d] = "open")
    BY <1>2, OthersGo
  <2> QED
    BY <2>1, <2>2, <2>3 DEF Protocol, InHand, Plain, Before
<1> QED
  BY <1>1, <1>2

-----------------------------------------------------------------------------
(* Counting.  The writes under way to a file are finitely many.            *)
LEMMA PendingFinite ==
  ASSUME NEW s \in Seq(Slots), NEW i
  PROVE  IsFiniteSet(Pending(s, i)) /\ Cardinality(Pending(s, i)) \in Nat
<1>1. 1 \in Int /\ Len(s) \in Int
  OBVIOUS
<1>2. IsFiniteSet(1 .. Len(s)) /\ Pending(s, i) \in SUBSET (1 .. Len(s))
  BY <1>1, FS_Interval DEF Pending
<1>3. IsFiniteSet(Pending(s, i))
  BY <1>2, FS_Subset
<1> QED
  BY <1>3, FS_CardinalityType

(* One more write counts for its own file.                                 *)
LEMMA PendingAdd ==
  ASSUME NEW s \in Seq(Slots), NEW e \in Slots, NEW i \in Slots
  PROVE  Cardinality(Pending(s \o Append(<<>>, e), i)) =
           IF e = i THEN Cardinality(Pending(s, i)) + 1 ELSE Cardinality(Pending(s, i))
<1> DEFINE t == s \o Append(<<>>, e)
<1>1. /\ t \in Seq(Slots) /\ Len(s) \in Nat /\ Len(t) = Len(s) + 1
      /\ \A j \in 1 .. Len(s) : t[j] = s[j]
      /\ t[Len(s) + 1] = e
  BY AddFacts
<1> HIDE DEF t
<1>2. IsFiniteSet(Pending(s, i)) /\ Len(s) + 1 \notin Pending(s, i)
  <2>1. IsFiniteSet(Pending(s, i))
    BY PendingFinite
  <2>2. Len(s) + 1 \notin Pending(s, i)
    BY <1>1 DEF Pending
  <2> QED
    BY <2>1, <2>2
<1>3. \A j : j \in 1 .. Len(t) <=> j \in 1 .. Len(s) \/ j = Len(s) + 1
  BY <1>1
<1>4. CASE e = i
  <2>1. Pending(t, i) = Pending(s, i) \cup {Len(s) + 1}
    BY <1>1, <1>3, <1>4 DEF Pending
  <2>2. Cardinality(Pending(s, i) \cup {Len(s) + 1}) = Cardinality(Pending(s, i)) + 1
    BY <1>2, FS_AddElement
  <2> QED
    BY <1>4, <2>1, <2>2 DEF t
<1>5. CASE e # i
  <2>1. Pending(t, i) = Pending(s, i)
    BY <1>1, <1>3, <1>5 DEF Pending
  <2> QED
    BY <1>5, <2>1 DEF t
<1> QED
  BY <1>4, <1>5

(* A write that is taken out counted for its own file.                     *)
LEMMA PendingTake ==
  ASSUME NEW s \in Seq(Slots), NEW k \in 1 .. Len(s), NEW i \in Slots
  PROVE  Cardinality(Pending(s, i)) =
           IF s[k] = i THEN Cardinality(Pending(Without(s, k), i)) + 1
           ELSE Cardinality(Pending(Without(s, k), i))
<1> DEFINE t == Without(s, k)
           R == Pending(s, i) \ {k}
           g == [j \in Pending(t, i) |-> IF j < k THEN j ELSE j + 1]
<1>1. /\ t \in Seq(Slots) /\ Len(s) \in Nat /\ Len(t) = Len(s) - 1
      /\ \A j \in 1 .. k - 1 : t[j] = s[j]
      /\ \A j \in k .. Len(s) - 1 : t[j] = s[j + 1]
  BY WithoutFacts
<1> HIDE DEF t
<1>2. \A j \in Pending(t, i) : j \in 1 .. Len(s) - 1 /\ t[j] = i
  BY <1>1 DEF Pending
<1>3. \A j \in Pending(t, i) : g[j] \in R
  <2> SUFFICES ASSUME NEW j \in Pending(t, i) PROVE g[j] \in R
    OBVIOUS
  <2>1. CASE j < k
    <3>1. j \in 1 .. k - 1 /\ j \in 1 .. Len(s)
      BY <1>1, <1>2, <2>1
    <3>2. s[j] = i
      BY <3>1, <1>1, <1>2
    <3> QED
      BY <2>1, <3>1, <3>2 DEF Pending
  <2>2. CASE ~(j < k)
    <3>1. j \in k .. Len(s) - 1 /\ j + 1 \in 1 .. Len(s) /\ j + 1 # k
      BY <1>1, <1>2, <2>2
    <3>2. s[j + 1] = i
      BY <3>1, <1>1, <1>2
    <3> QED
      BY <2>2, <3>1, <3>2 DEF Pending
  <2> QED
    BY <2>1, <2>2
<1>4. g \in [Pending(t, i) -> R]
  BY <1>3
<1>5. IsInjective(g)
  <2>1. \A j, l \in Pending(t, i) : g[j] = g[l] => j = l
    BY <1>1, <1>2
  <2> QED
    BY <2>1 DEF IsInjective
<1>6. \A r \in R : \E j \in Pending(t, i) : g[j] = r
  <2> SUFFICES ASSUME NEW r \in R PROVE \E j \in Pending(t, i) : g[j] = r
    OBVIOUS
  <2>1. r \in 1 .. Len(s) /\ r # k /\ s[r] = i
    BY DEF Pending
  <2>2. CASE r < k
    <3>1. r \in 1 .. k - 1 /\ r \in 1 .. Len(t)
      BY <1>1, <2>1, <2>2
    <3>2. r \in Pending(t, i)
      BY <3>1, <1>1, <2>1 DEF Pending
    <3> QED
      BY <2>2, <3>2
  <2>3. CASE r > k
    <3>1. r - 1 \in k .. Len(s) - 1 /\ r - 1 \in 1 .. Len(t) /\ (r - 1) + 1 = r /\ ~(r - 1 < k)
      BY <1>1, <2>1, <2>3
    <3>2. r - 1 \in Pending(t, i)
      BY <3>1, <1>1, <2>1 DEF Pending
    <3>3. g[r - 1] = r
      BY <3>1, <3>2
    <3> QED
      BY <3>2, <3>3
  <2> QED
    BY <2>1, <2>2, <2>3, <1>1
<1> HIDE DEF g
<1>7. ExistsBijection(Pending(t, i), R)
  <2>1. g \in Bijection(Pending(t, i), R)
    BY <1>4, <1>5, <1>6 DEF Bijection, Injection, Surjection
  <2> QED
    BY <2>1 DEF ExistsBijection
<1>8. IsFiniteSet(Pending(t, i)) /\ Cardinality(Pending(t, i)) \in Nat
  BY <1>1, PendingFinite
<1>9. IsFiniteSet(R) /\ Cardinality(R) = Cardinality(Pending(t, i))
  BY <1>7, <1>8, FS_Bijection
<1>10. CASE s[k] = i
  <2>1. Pending(s, i) = R \cup {k} /\ k \notin R
    BY <1>10 DEF Pending
  <2>2. Cardinality(R \cup {k}) = Cardinality(R) + 1
    BY <1>9, <2>1, FS_AddElement
  <2> HIDE DEF R
  <2> QED
    BY <1>9, <1>10, <2>1, <2>2 DEF t
<1>11. CASE s[k] # i
  <2>1. Pending(s, i) = R
    BY <1>11 DEF Pending
  <2> HIDE DEF R
  <2> QED
    BY <1>9, <1>11, <2>1 DEF t
<1> QED
  BY <1>10, <1>11

(* One more request is due to one file.                                    *)
LEMMA DueAdd ==
  ASSUME NEW c \in Clients, NEW m \in Nat, NEW i \in Slots
  PROVE  Cardinality(Due(c, m + 1, i)) =
           IF (m % Files(c)) = i THEN Cardinality(Due(c, m, i)) + 1
           ELSE Cardinality(Due(c, m, i))
<1>1. IsFiniteSet(0 .. m - 1)
  BY FS_Interval
<1>2. Due(c, m, i) \in SUBSET (0 .. m - 1)
  BY DEF Due
<1>3. IsFiniteSet(Due(c, m, i))
  BY <1>1, <1>2, FS_Subset
<1>4. m \notin Due(c, m, i)
  BY DEF Due
<1>5. \A k : k \in 0 .. (m + 1) - 1 <=> k \in 0 .. m - 1 \/ k = m
  OBVIOUS
<1>6. CASE (m % Files(c)) = i
  <2>1. Due(c, m + 1, i) = Due(c, m, i) \cup {m}
    BY <1>5, <1>6 DEF Due
  <2>2. Cardinality(Due(c, m, i) \cup {m}) = Cardinality(Due(c, m, i)) + 1
    BY <1>3, <1>4, FS_AddElement
  <2> QED
    BY <1>6, <2>1, <2>2
<1>7. CASE (m % Files(c)) # i
  <2>1. Due(c, m + 1, i) = Due(c, m, i)
    BY <1>5, <1>7 DEF Due
  <2> QED
    BY <1>7, <2>1
<1> QED
  BY <1>6, <1>7

-----------------------------------------------------------------------------
(* Whoever overwrites a parameter disturbs the calls that run with others. *)
LEMMA ParamsStep ==
  ASSUME TypeOK, NEW c \in Clients, Step(c), NEW d \in Clients, Regular(d)', ParamsKept(d)
  PROVE  ParamsKept(d)'
<1>0. conf' = conf /\ ClientParams(d)' = ClientParams(d)
  BY StaysDisturbed DEF ClientParams, Plain
<1>1. CASE SetDepth(c) \/ SetN(c) \/ SetFn(c)
  <2>1. cpc'[d] \in Running => prm' = ClientParams(d)
    BY <1>1 DEF SetDepth, SetN, SetFn, SetParameter, Regular
  <2> QED
    BY <1>0, <2>1 DEF ParamsKept
<1>2. CASE ~SetDepth(c) /\ ~SetN(c) /\ ~SetFn(c)
  <2>1. prm' = prm
    BY <1>2 DEF Step, Client, Handler, CqThread, OpenStream, Write, WritesDone, Finish,
                InitRing, InitRingFails, FirstRequest, NoFirstRequest, OpenFiles, ReadRequest,
                StreamEnds, AppendRequest, AppendCrashes, CallFails, Terminate, Join, Reply,
                CqTest, CqReap, CqGivesUp, Complete
  <2>2. cpc'[d] \in Running => cpc[d] \in Running
    BY <1>2 DEF Step, Client, Handler, CqThread, OpenStream, Write, WritesDone, Finish,
                InitRing, InitRingFails, FirstRequest, NoFirstRequest, OpenFiles, ReadRequest,
                StreamEnds, AppendRequest, AppendCrashes, CallFails, Terminate, Join, Reply,
                CqTest, CqReap, CqGivesUp, Complete, ClientGoto, clientVars, Running, TypeOK
  <2> QED
    BY <1>0, <2>1, <2>2 DEF ParamsKept
<1> QED
  BY <1>1, <1>2

(* A regular call that is to append finds a slot and a file, and its       *)
(* submission is taken.                                                    *)
LEMMA AppendGood ==
  ASSUME TypeOK, NEW c \in Clients, Protocol(c), Regular(c), ParamsKept(c), RingInv(c),
         hpc[c] = "append"
  PROVE  CanAppend(c) /\ ~Refused(c) /\ Target(c) = (count[c] % Files(c))
<1>0. /\ conf[c].n \in Nat /\ sent[c] \in Nat /\ wire[c] \in Nat /\ count[c] \in Nat
      /\ conf[c].depth \in Nat \ {0} /\ cq[c] \in Nat /\ seen[c] \in Nat
      /\ Len(sq[c]) \in Nat /\ Len(inflight[c]) \in Nat
  BY CallTypes
<1>1. prm = ClientParams(c)
  BY DEF Protocol, ParamsKept, Running, Before, TypeOK
<1>2. sq[c] = <<>> /\ cap[c] = conf[c].depth
  BY DEF Protocol, RingInv
<1>3. Len(sq[c]) = 0
  BY <1>2, EmptyFacts
<1>4. wire[c] + count[c] + 1 = sent[c] /\ sent[c] <= conf[c].n
  BY DEF Protocol, InHand
<1>5. count[c] = Len(sq[c]) + Len(inflight[c]) + cq[c] + seen[c]
  BY DEF Protocol
<1>6. conf[c].n <= 2 * conf[c].depth + 1 /\ Files(c) > 0
  BY DEF Regular
<1>7. cq[c] <= 2 * conf[c].depth
  <2> DEFINE a == Len(sq[c])
             b == Len(inflight[c])
  <2>1. a \in Nat /\ b \in Nat /\ count[c] = a + b + cq[c] + seen[c]
    BY <1>0, <1>5
  <2>2. /\ cq[c] \in Nat /\ seen[c] \in Nat /\ wire[c] \in Nat /\ conf[c].n \in Nat
        /\ conf[c].depth \in Nat /\ count[c] \in Nat
    BY <1>0
  <2> HIDE DEF a, b
  <2> QED
    BY ONLY <2>1, <2>2, <1>4, <1>6
<1>8. ~Plain(c) => prm.fn = Files(c)
  BY <1>1, ParamTypes
<1>9. CanAppend(c)
  BY <1>0, <1>2, <1>3, <1>6, <1>8 DEF CanAppend
<1>10. ~Refused(c)
  BY <1>0, <1>2, <1>7 DEF Refused
<1>11. Target(c) = (count[c] % Files(c))
  <2>1. CASE Plain(c)
    BY <2>1, <1>0 DEF Target, Files
  <2>2. CASE ~Plain(c)
    BY <2>2, <1>8 DEF Target
  <2> QED
    BY <2>1, <2>2
<1> QED
  BY <1>9, <1>10, <1>11

(* What is due depends on the arguments only.                              *)
LEMMA DueSame ==
  ASSUME NEW c \in Clients, conf' = conf
  PROVE  \A m, i : Due(c, m, i)' = Due(c, m, i)
BY DEF Due, Files, Plain

(* A step of a regular call keeps its ring as promised.                    *)
LEMMA OwnRing ==
  ASSUME TypeOK, NEW c \in Clients, Step(c), prm.fn <= MaxFiles, Protocol(c),
         Regular(c), ParamsKept(c), RingInv(c)
  PROVE  RingInv(c)'
<1> USE DEF handlerVars, ringVars, threadVars, clientVars
<1>0. /\ conf[c].n \in Nat /\ sent[c] \in Nat /\ wire[c] \in Nat /\ count[c] \in Nat
      /\ cq[c] \in Nat /\ seen[c] \in Nat /\ Len(sq[c]) \in Nat /\ Len(inflight[c]) \in Nat
      /\ inflight[c] \in Seq(Slots) /\ written[c] \in [Slots -> Nat]
  BY CallTypes
<1>c. conf' = conf /\ \A m, i : Due(c, m, i)' = Due(c, m, i)
  BY StaysDisturbed, DueSame
<1> DEFINE Counted == hpc[c] # "replied" \/ qpc[c] = "done" => \A i \in Slots :
             written[c][i] + Cardinality(Pending(inflight[c], i))
               = Cardinality(Due(c, count[c], i))
<1>1. CASE Client(c)
  <2>1. UNCHANGED <<files, count, sq, cap, ringVars, threadVars>>
    BY <1>1 DEF Client, SetDepth, SetN, SetFn, SetParameter, OpenStream, Write,
                WritesDone, Finish
  <2>2. hpc'[c] = hpc[c] \/ hpc'[c] \notin {"exit", "replied"}
    BY <1>1 DEF Client, SetDepth, SetN, SetFn, SetParameter, OpenStream, Write,
                WritesDone, Finish, TypeOK
  <2>3. Counted'
    <3>1. hpc[c] # "replied" \/ hpc'[c] = hpc[c]
      BY <1>1 DEF Client, SetDepth, SetN, SetFn, SetParameter, OpenStream, Write,
                  WritesDone, Finish, Protocol, Before, TypeOK
    <3> QED
      BY <1>c, <2>1, <2>2, <3>1 DEF RingInv, Pending
  <2> QED
    BY <1>c, <2>1, <2>2, <2>3 DEF RingInv
<1>2. CASE InitRing(c)
  <2>1. /\ hpc[c] = "init" /\ hpc'[c] \in {"first", "files"} /\ qpc'[c] = "test"
        /\ cap'[c] = prm.depth
        /\ UNCHANGED <<count, sq, ringVars, seen>>
    BY <1>2 DEF InitRing, HandlerGoto, TypeOK
  <2>2. cap'[c] = conf[c].depth
    <3>1. prm = ClientParams(c)
      BY <2>1 DEF Protocol, ParamsKept, Running, Before, TypeOK
    <3> QED
      BY <2>1, <3>1, ParamTypes
  <2>3. Counted'
    BY <1>c, <2>1 DEF RingInv, Pending
  <2> QED
    BY <1>c, <2>1, <2>2, <2>3 DEF RingInv
<1>3. CASE \/ InitRingFails(c) \/ FirstRequest(c) \/ OpenFiles(c) \/ ReadRequest(c)
           \/ StreamEnds(c) \/ AppendCrashes(c) \/ CallFails(c) \/ NoFirstRequest(c)
  <2>1. UNCHANGED <<count, sq, cap, ringVars, threadVars>>
    BY <1>3 DEF InitRingFails, FirstRequest, OpenFiles, ReadRequest, StreamEnds, AppendCrashes,
                CallFails, NoFirstRequest, Terminate
  <2>2. hpc'[c] = hpc[c] \/ hpc'[c] \notin {"exit", "replied"}
    BY <1>3 DEF InitRingFails, FirstRequest, OpenFiles, ReadRequest, StreamEnds, AppendCrashes,
                CallFails, NoFirstRequest, Terminate, HandlerGoto, TypeOK
  <2>3. Counted'
    <3>1. hpc[c] # "replied" \/ hpc'[c] = hpc[c]
      BY <1>3 DEF InitRingFails, FirstRequest, OpenFiles, ReadRequest, StreamEnds, AppendCrashes,
                  CallFails, NoFirstRequest, Terminate, HandlerGoto, TypeOK
    <3> QED
      BY <1>c, <2>1, <2>2, <3>1 DEF RingInv, Pending
  <2> QED
    BY <1>c, <2>1, <2>2, <2>3 DEF RingInv
<1>4. CASE AppendRequest(c)
  <2>1. /\ hpc[c] = "append" /\ hpc'[c] = "read" /\ count'[c] = count[c] + 1
        /\ UNCHANGED <<cap, cq, written, threadVars>>
    BY <1>4 DEF AppendRequest, HandlerGoto, TypeOK
  <2>2. ~Refused(c) /\ Target(c) = (count[c] % Files(c)) /\ CanAppend(c)
    BY <2>1, AppendGood
  <2>3. Target(c) \in Slots
    BY <2>2, TargetSlot
  <2>4. sq'[c] = <<>> /\ inflight'[c] = inflight[c] \o Append(<<>>, Target(c))
    <3>1. sq[c] = <<>>
      BY DEF RingInv
    <3>2. sq'[c] = <<>> /\ inflight'[c] = inflight[c] \o Append(sq[c], Target(c))
      BY <1>4, <2>2 DEF AppendRequest, TypeOK
    <3> QED
      BY <3>1, <3>2
  <2>5. ASSUME NEW i \in Slots
        PROVE  written'[c][i] + Cardinality(Pending(inflight'[c], i))
                 = Cardinality(Due(c, count[c] + 1, i))
    <3> DEFINE w == written[c][i]
               p == Cardinality(Pending(inflight[c], i))
               p2 == Cardinality(Pending(inflight'[c], i))
               u == Cardinality(Due(c, count[c], i))
               u2 == Cardinality(Due(c, count[c] + 1, i))
    <3>1. w + p = u /\ w \in Nat /\ p \in Nat
      BY <1>0, <2>1, PendingFinite DEF RingInv
    <3>2. p2 = IF Target(c) = i THEN p + 1 ELSE p
      BY <2>3, <2>4, <1>0, PendingAdd
    <3>3. u2 = IF Target(c) = i THEN u + 1 ELSE u
      BY <2>2, <1>0, DueAdd
    <3>4. written'[c][i] = w
      BY <2>1
    <3> HIDE DEF w, p, p2, u, u2
    <3>5. w + p2 = u2
      BY ONLY <3>1, <3>2, <3>3
    <3> QED
      BY <3>4, <3>5 DEF p2, u2
  <2>6. Counted'
    <3>1. \A i : Due(c, count[c], i)' = Due(c, count[c] + 1, i)
      BY <1>c, <2>1 DEF Due, Files, Plain
    <3>2. \A i : Pending(inflight[c], i)' = Pending(inflight'[c], i)
      BY DEF Pending
    <3> QED
      BY <2>5, <3>1, <3>2
  <2> QED
    BY <1>c, <2>1, <2>4, <2>6 DEF RingInv
<1>5. CASE Join(c)
  <2>1. /\ hpc[c] = "join" /\ hpc'[c] = "exit"
        /\ UNCHANGED <<count, sq, cap, ringVars, threadVars>>
    BY <1>5 DEF Join, HandlerGoto, TypeOK
  <2>2. qpc[c] = "done" => seen[c] >= conf[c].n
    BY <2>1 DEF RingInv
  <2>3. count[c] = Len(sq[c]) + Len(inflight[c]) + cq[c] + seen[c] /\ count[c] <= conf[c].n
    <3>1. wire[c] + count[c] + 0 = sent[c] /\ sent[c] <= conf[c].n
      BY <2>1 DEF Protocol, InHand
    <3>2. count[c] = Len(sq[c]) + Len(inflight[c]) + cq[c] + seen[c]
      BY <2>1 DEF Protocol
    <3>3. count[c] <= conf[c].n
      BY ONLY <3>1, <1>0
    <3> QED
      BY <3>2, <3>3
  <2>4. ASSUME qpc[c] = "done" PROVE Len(inflight[c]) = 0 /\ cq[c] = 0
    <3> DEFINE a == Len(sq[c])
               b == Len(inflight[c])
    <3>1. /\ a \in Nat /\ b \in Nat /\ cq[c] \in Nat /\ seen[c] \in Nat /\ conf[c].n \in Nat
          /\ count[c] = a + b + cq[c] + seen[c] /\ count[c] <= conf[c].n
      BY <1>0, <2>3
    <3> HIDE DEF a, b
    <3>2. b = 0 /\ cq[c] = 0
      BY ONLY <3>1, <2>2, <2>4
    <3> QED
      BY <3>2 DEF b
  <2>5. qpc[c] = "done" => inflight[c] = <<>>
    BY <2>4, <1>0, EmptyFacts
  <2>6. Counted'
    BY <1>c, <2>1 DEF RingInv, Pending
  <2> QED
    BY <1>c, <2>1, <2>4, <2>5, <2>6 DEF RingInv
<1>6. CASE Reply(c)
  <2>1. /\ hpc[c] = "exit" /\ hpc'[c] = "replied" /\ inflight'[c] = <<>>
        /\ UNCHANGED <<count, sq, cap, cq, written, threadVars>>
    BY <1>6 DEF Reply, HandlerGoto, TypeOK
  <2>2. qpc[c] = "done" => inflight[c] = <<>> /\ cq[c] = 0
    BY <2>1 DEF RingInv
  <2>3. Counted'
    BY <1>c, <2>1, <2>2 DEF RingInv, Pending
  <2> QED
    BY <1>c, <2>1, <2>2, <2>3 DEF RingInv
<1>7. CASE CqTest(c)
  <2>1. /\ qpc[c] = "test" /\ qpc'[c] = IF seen[c] < prm.n THEN "wait" ELSE "done"
        /\ UNCHANGED <<handlerVars, ringVars, seen>>
    BY <1>7 DEF CqTest, TypeOK
  <2>2. prm = ClientParams(c)
    BY <2>1 DEF Protocol, ParamsKept, Running, Before, TypeOK
  <2>3. prm.n = conf[c].n
    BY <2>2, ParamTypes
  <2>4. qpc'[c] = "done" => seen[c] >= conf[c].n
    BY <2>1, <2>3, <1>0
  <2>6. hpc[c] \notin {"exit", "replied"}
    BY <2>1 DEF Protocol
  <2>5. Counted'
    BY <1>c, <2>1, <2>6 DEF RingInv, Pending
  <2> QED
    BY <1>c, <2>1, <2>4, <2>5, <2>6 DEF RingInv
<1>8. CASE CqReap(c)
  <2>1. /\ qpc[c] = "wait" /\ qpc'[c] = "test"
        /\ UNCHANGED <<handlerVars, inflight, written>>
    BY <1>8 DEF CqReap, TypeOK
  <2>2. hpc[c] \notin {"exit", "replied"}
    BY <2>1 DEF Protocol
  <2>3. Counted'
    BY <1>c, <2>1, <2>2 DEF RingInv, Pending
  <2> QED
    BY <1>c, <2>1, <2>2, <2>3 DEF RingInv
<1>10. CASE CqGivesUp(c)
  <2>1. /\ qpc[c] = "wait" /\ qpc'[c] = "gaveup"
        /\ UNCHANGED <<handlerVars, ringVars, seen>>
    BY <1>10 DEF CqGivesUp, TypeOK
  <2>2. hpc[c] \notin {"exit", "replied"}
    BY <2>1 DEF Protocol
  <2>3. Counted'
    BY <1>c, <2>1, <2>2 DEF RingInv, Pending
  <2> QED
    BY <1>c, <2>1, <2>2, <2>3 DEF RingInv
<1>9. CASE Complete(c)
  <2>1. PICK k \in 1 .. Len(inflight[c]) :
          /\ inflight[c][k] \in Slots
          /\ inflight'[c] = Without(inflight[c], k)
          /\ \A x \in Slots : written'[c][x] =
               IF x = inflight[c][k] THEN written[c][x] + 1 ELSE written[c][x]
          /\ UNCHANGED <<conf, clientVars, wire, handlerVars, threadVars>>
    BY <1>9, CompleteFacts
  <2>2. ~(hpc[c] \in {"exit", "replied"} /\ qpc[c] = "done")
    <3>1. inflight[c] # <<>>
      BY <2>1, EmptyFacts
    <3> QED
      BY <3>1 DEF RingInv
  <2>3. ASSUME hpc[c] # "replied" \/ qpc[c] = "done", NEW i \in Slots
        PROVE  written'[c][i] + Cardinality(Pending(inflight'[c], i))
                 = Cardinality(Due(c, count[c], i))
    <3> DEFINE w == written[c][i]
               w2 == written'[c][i]
               p == Cardinality(Pending(inflight[c], i))
               p2 == Cardinality(Pending(Without(inflight[c], k), i))
               u == Cardinality(Due(c, count[c], i))
    <3>1. w + p = u /\ w \in Nat
      BY <1>0, <2>3 DEF RingInv
    <3>2. p = IF inflight[c][k] = i THEN p2 + 1 ELSE p2
      BY <2>1, <1>0, PendingTake
    <3>3. p2 \in Nat
      BY <1>0, <2>1, WithoutFacts, PendingFinite
    <3>4. w2 = IF inflight[c][k] = i THEN w + 1 ELSE w
      BY <2>1
    <3> HIDE DEF w, p, p2, u, w2
    <3>5. w2 + p2 = u
      BY ONLY <3>1, <3>2, <3>3, <3>4
    <3> QED
      BY <3>5, <2>1 DEF w2, p2, u
  <2>4. Counted'
    <3>1. \A i : Pending(inflight[c], i)' = Pending(inflight'[c], i)
      BY DEF Pending
    <3>2. \A i : Due(c, count[c], i)' = Due(c, count[c], i)
      BY <1>c, <2>1 DEF Due, Files, Plain
    <3> QED
      BY <2>1, <2>3, <3>1, <3>2
  <2> QED
    BY <1>c, <2>1, <2>2, <2>4 DEF RingInv
<1> QED
  BY <1>1, <1>2, <1>3, <1>4, <1>5, <1>6, <1>7, <1>8, <1>9, <1>10 DEF Step, Handler, CqThread

(* A step of one call keeps the ring of every regular call.                *)
LEMMA RingStep ==
  ASSUME TypeOK, NEW c \in Clients, Step(c), prm.fn <= MaxFiles,
         NEW d \in Clients, Protocol(d), Regular(d), ParamsKept(d), RingInv(d)
  PROVE  RingInv(d)'
<1>1. CASE d = c
  BY <1>1, OwnRing
<1>2. CASE d # c
  <2>1. /\ hpc'[d] = hpc[d] /\ count'[d] = count[d] /\ sq'[d] = sq[d] /\ cap'[d] = cap[d]
        /\ inflight'[d] = inflight[d] /\ cq'[d] = cq[d] /\ written'[d] = written[d]
        /\ qpc'[d] = qpc[d] /\ seen'[d] = seen[d]
    BY <1>2, OthersKeep
  <2>2. conf' = conf
    BY StaysDisturbed
  <2>3. \A i : Due(d, count[d], i)' = Due(d, count[d], i)
    BY <2>1, <2>2 DEF Due, Files, Plain
  <2>4. \A i : Pending(inflight[d], i)' = Pending(inflight[d], i)
    BY <2>1 DEF Pending
  <2> QED
    BY <2>1, <2>2, <2>3, <2>4 DEF RingInv
<1> QED
  BY <1>1, <1>2

(* Only an irregular call can bring the service down.                      *)
LEMMA CrashStep ==
  ASSUME TypeOK, ServerUp, Up, NEW c \in Clients, Step(c), Protocol(c),
         Regular(c) => ParamsKept(c) /\ RingInv(c)
  PROVE  ServerUp'
<1>1. CASE AppendCrashes(c)
  <2>1. ~Regular(c)
    BY <1>1, AppendGood DEF AppendCrashes
  <2>2. ~Regular(c)'
    BY <2>1, StaysDisturbed
  <2> QED
    BY <2>2 DEF ServerUp
<1>2. CASE NoFirstRequest(c)
  <2>1. hpc[c] = "first" /\ wire[c] = 0 /\ cpc[c] = "await"
    BY <1>2 DEF NoFirstRequest
  <2>2. Plain(c) /\ count[c] = 0 /\ InHand(c) = 0 /\ sent[c] = conf[c].n
    BY <2>1 DEF Protocol, InHand
  <2>3. conf[c].n = 0
    BY <2>1, <2>2 DEF Protocol
  <2>4. ~Regular(c)'
    BY <2>2, <2>3, StaysDisturbed DEF Regular
  <2> QED
    BY <2>4 DEF ServerUp
<1>3. CASE ~AppendCrashes(c) /\ ~NoFirstRequest(c)
  <2>1. server' # "crashed"
    BY <1>3 DEF Up, Step, Client, Handler, CqThread, SetDepth, SetN, SetFn, SetParameter,
                OpenStream, Write, WritesDone, Finish, InitRing, InitRingFails, FirstRequest,
                OpenFiles, ReadRequest, StreamEnds, AppendRequest, CallFails, Terminate, Join,
                Reply, CqTest, CqReap, CqGivesUp, Complete
  <2> QED
    BY <2>1 DEF ServerUp
<1> QED
  BY <1>1, <1>2, <1>3

-----------------------------------------------------------------------------
(* The invariant holds when the service starts.                            *)
LEMMA InitTarget == Init => TargetInv
<1> SUFFICES ASSUME Init PROVE TargetInv
  OBVIOUS
<1>0. MaxFiles \in Nat \ {0}
  BY TargetAssumption
<1>1. TypeOK
  <2>1. <<>> \in Seq(Slots)
    BY EmptyFacts
  <2>2. [n |-> 0, nonce |-> -1] \in [n : Nat, nonce : Nat \cup {-1}]
    OBVIOUS
  <2>3. [depth |-> 0, n |-> 0, fn |-> 0] \in [depth : Nat, n : Nat, fn : Nat]
    OBVIOUS
  <2> QED
    BY <2>1, <2>2, <2>3 DEF Init, TypeOK
<1>2. prm.fn <= MaxFiles
  BY <1>0 DEF Init
<1>3. Together /\ ServerUp
  BY DEF Init, Together, ServerUp
<1>4. ASSUME NEW c \in Clients PROVE Protocol(c) /\ ParamsKept(c) /\ RingInv(c)
  <2>1. /\ cpc[c] = "params" /\ sent[c] = 0 /\ wire[c] = 0 /\ hpc[c] = "none" /\ count[c] = 0
        /\ sq[c] = <<>> /\ inflight[c] = <<>> /\ cq[c] = 0 /\ qpc[c] = "none" /\ seen[c] = 0
        /\ \A i \in Slots : written[c][i] = 0
    BY DEF Init
  <2>2. conf[c].n \in Nat /\ Len(<<>>) = 0
    BY <1>1, CallTypes, EmptyFacts
  <2>3. Protocol(c)
    BY <2>1, <2>2 DEF Protocol, InHand, Before
  <2>4. \A i : Pending(<<>>, i) = {} /\ Due(c, 0, i) = {}
    <3>1. \A j : j \notin 1 .. 0 /\ j \notin 0 .. 0 - 1
      OBVIOUS
    <3> QED
      BY <2>2, <3>1 DEF Pending, Due
  <2>5. Cardinality({}) = 0
    BY FS_EmptySet
  <2>6. RingInv(c)
    <3>1. \A i : Cardinality(Pending(<<>>, i)) = 0 /\ Cardinality(Due(c, 0, i)) = 0
      BY <2>4, <2>5, Zenon
    <3> QED
      BY <2>1, <3>1 DEF RingInv
  <2> QED
    BY <2>1, <2>3, <2>6 DEF ParamsKept, Running
<1> QED
  BY <1>1, <1>2, <1>3, <1>4 DEF TargetInv

(* Every step keeps the invariant.                                         *)
LEMMA NextTarget == TargetInv /\ [Next]_vars => TargetInv'
<1> SUFFICES ASSUME TargetInv, [Next]_vars PROVE TargetInv'
  OBVIOUS
<1>0. /\ TypeOK /\ prm.fn <= MaxFiles /\ Together /\ ServerUp
      /\ \A d \in Clients : Protocol(d) /\ (Regular(d) => ParamsKept(d) /\ RingInv(d))
  BY DEF TargetInv
<1>1. CASE Next
  <2>1. PICK c \in Clients : Up /\ Step(c)
    BY <1>1 DEF Next, Step
  <2>2. TypeOK' /\ prm'.fn <= MaxFiles
    BY <1>0, <2>1, TypeStep
  <2>3. Together'
    BY <1>0, <2>1, TogetherStep
  <2>4. ServerUp'
    BY <1>0, <2>1, CrashStep
  <2>5. \A d \in Clients : Protocol(d)'
    BY <1>0, <2>1, ProtocolStep
  <2>6. \A d \in Clients : Regular(d)' => Regular(d)
    BY <1>0, <2>1, StaysDisturbed
  <2>7. \A d \in Clients : Regular(d)' => ParamsKept(d)'
    BY <1>0, <2>1, <2>6, ParamsStep
  <2>8. \A d \in Clients : Regular(d)' => RingInv(d)'
    BY <1>0, <2>1, <2>6, RingStep
  <2> QED
    BY <2>2, <2>3, <2>4, <2>5, <2>7, <2>8 DEF TargetInv
<1>2. CASE UNCHANGED vars
  <2>1. UNCHANGED <<conf, disturbed, server, prm, dummy, cpc, sent, wire, hpc, files, count, sq,
                    cap, inflight, cq, written, qpc, seen>>
    BY <1>2 DEF vars, clientVars, handlerVars, ringVars, threadVars
  <2>2. TypeOK' /\ prm'.fn <= MaxFiles /\ Together'
    BY <1>0, <2>1 DEF TypeOK, Together
  <2>3. ServerUp'
    BY <1>0, <2>1 DEF ServerUp, Regular, Files, Plain
  <2>4. ASSUME NEW d \in Clients
        PROVE  Protocol(d)' /\ (Regular(d)' => ParamsKept(d)' /\ RingInv(d)')
    <3>1. Protocol(d)'
      BY <1>0, <2>1 DEF Protocol, InHand, Plain
    <3>2. Regular(d)' => Regular(d)
      BY <2>1 DEF Regular, Files, Plain
    <3>3. ParamsKept(d) => ParamsKept(d)'
      BY <2>1 DEF ParamsKept, ClientParams, Plain
    <3>4. /\ \A i : Due(d, count[d], i)' = Due(d, count[d], i)
          /\ \A i : Pending(inflight[d], i)' = Pending(inflight[d], i)
      BY <2>1 DEF Due, Files, Plain, Pending
    <3>5. RingInv(d) => RingInv(d)'
      BY <2>1, <3>4 DEF RingInv
    <3> QED
      BY <1>0, <3>1, <3>2, <3>3, <3>5
  <2> QED
    BY <2>2, <2>3, <2>4 DEF TargetInv
<1> QED
  BY <1>1, <1>2

(* The invariant always holds.                                             *)
LEMMA TargetAlways == Spec => []TargetInv
BY InitTarget, NextTarget, PTL DEF Spec

-----------------------------------------------------------------------------
(* The service, its handlers, their rings and the clients keep their       *)
(* types: every write goes to a slot of the handler's files.               *)
THEOREM TargetTypeCorrect == Spec => []TypeOK
<1>1. TargetInv => TypeOK
  BY DEF TargetInv
<1> QED
  BY <1>1, TargetAlways, PTL

(* Only an irregular call brings the service down: whatever the clients    *)
(* and their arguments, a handler whose parameters are kept finds a slot   *)
(* in its ring and a file to write to.                                     *)
THEOREM ServiceStays == Spec => []ServerUp
<1>1. TargetInv => ServerUp
  BY DEF TargetInv
<1> QED
  BY <1>1, TargetAlways, PTL

(* io_uring_queue_exit never runs under the completion thread, and for a   *)
(* regular call not before all its writes are submitted and, unless        *)
(* io_uring_wait_cqe failed, done and seen.                                *)
THEOREM RingAlwaysDrained == Spec => []RingDrained
<1>1. TargetInv => RingDrained
  BY DEF TargetInv, RingDrained, Protocol, RingInv
<1> QED
  BY <1>1, TargetAlways, PTL

(* A client that gets OK has had all its requests read, and if its call is *)
(* regular and io_uring_wait_cqe did not fail, the kernel is done with all *)
(* its writes, dealt to its files in turn, for every number of files,      *)
(* requests and clients.                                                   *)
THEOREM ReplyAfterWrites == Spec => []ReplyMeansWritten
<1>1. TargetInv => ReplyMeansWritten
  <2> SUFFICES ASSUME TargetInv, NEW c \in Clients, cpc[c] = "done"
               PROVE  /\ count[c] = conf[c].n
                      /\ Regular(c) /\ qpc[c] = "done" =>
                           \A i \in 0 .. Files(c) - 1 :
                             written[c][i] =
                               Cardinality({k \in 0 .. conf[c].n - 1 : k % Files(c) = i})
    BY DEF ReplyMeansWritten
  <2>0. TypeOK /\ Protocol(c) /\ (Regular(c) => RingInv(c))
    BY DEF TargetInv
  <2>1. /\ count[c] \in Nat /\ conf[c].n \in Nat /\ written[c] \in [Slots -> Nat]
        /\ Files(c) \in Nat /\ Files(c) <= MaxFiles /\ MaxFiles \in Nat
    BY <2>0, CallTypes, ParamTypes
  <2>2. wire[c] = 0 /\ sent[c] = conf[c].n /\ InHand(c) = 0 /\ hpc[c] = "replied"
    BY <2>0 DEF Protocol, InHand
  <2>3. count[c] = conf[c].n
    BY <2>0, <2>1, <2>2 DEF Protocol
  <2>4. ASSUME Regular(c), qpc[c] = "done", NEW i \in 0 .. Files(c) - 1
        PROVE  written[c][i] = Cardinality({k \in 0 .. conf[c].n - 1 : k % Files(c) = i})
    <3>1. i \in Slots
      BY <2>1 DEF Slots
    <3>2. inflight[c] = <<>>
      BY <2>0, <2>2, <2>4 DEF RingInv
    <3>3. written[c][i] + Cardinality(Pending(<<>>, i)) = Cardinality(Due(c, conf[c].n, i))
      BY <2>0, <2>3, <2>4, <3>1, <3>2 DEF RingInv
    <3>4. Pending(<<>>, i) = {}
      <4>1. \A j : j \notin 1 .. 0
        OBVIOUS
      <4>2. Len(<<>>) = 0
        BY EmptyFacts
      <4> QED
        BY <4>1, <4>2 DEF Pending
    <3>5. Cardinality({}) = 0 /\ written[c][i] \in Nat
      BY <2>1, <3>1, FS_EmptySet
    <3>6. written[c][i] = Cardinality(Due(c, conf[c].n, i))
      <4> DEFINE w == written[c][i]
                 p == Cardinality(Pending(<<>>, i))
                 u == Cardinality(Due(c, conf[c].n, i))
      <4>1. w + p = u /\ w \in Nat
        BY <3>3, <3>5
      <4>2. p = 0
        BY <3>4, <3>5, Zenon
      <4> HIDE DEF w, p, u
      <4>3. w = u
        BY ONLY <4>1, <4>2
      <4> QED
        BY <4>3 DEF w, u
    <3> QED
      BY <3>6 DEF Due
  <2> QED
    BY <2>3, <2>4
<1> QED
  BY <1>1, TargetAlways, PTL

=============================================================================
