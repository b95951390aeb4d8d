-------------------------- MODULE AsyncBlockProofs --------------------------
(***************************************************************************)
(* Proofs about the asynchronous block service, for every set of calls: no *)
(* tag of the completion queue or of gRPC points at a deleted object.      *)
(*                                                                         *)
(* The property is not inductive.  TagInv says where the tag of an object  *)
(* can be in each status, and that only one object waits for a call or     *)
(* holds one that is not processed.  CallInv says that the objects serve   *)
(* different calls; so there are less of them than objects may be made,    *)
(* and a successor can always be created.                                  *)
(***************************************************************************)
EXTENDS AsyncBlockServer, FiniteSetTheorems, TLAPS

Live(o) == status[o] \in {"PROCESS", "FINISH"}
Queued(o) == \E i \in 1 .. Len(cq) : cq[i].tag = o

(* Each live object is at one place, which fits its status.                *)
TagInv ==
  /\ \A i, j \in 1 .. Len(cq) : cq[i].tag = cq[j].tag => i = j
  /\ \A i \in 1 .. Len(cq) : Live(cq[i].tag) /\ cq[i].tag \notin finishing
  /\ requested = <<>> \/ \E o \in Objs : /\ requested = <<o>>
                                         /\ status[o] = "PROCESS" /\ ~Queued(o)
  /\ \A o \in finishing : status[o] = "FINISH"
  /\ \A o \in Objs : Live(o) => o \in finishing \/ Queued(o) \/ requested = <<o>>
  /\ \A o, p \in Objs : status[o] = "PROCESS" /\ status[p] = "PROCESS" => o = p

(* The objects that have met a call, each its own; a call that is not made *)
(* has met none.                                                           *)
Served(o) == status[o] \in {"FINISH", "deleted"} \/ Queued(o)

CallInv ==
  /\ \A o \in Objs : Served(o) => /\ call[o] \in Calls
                                  /\ rpc[call[o]] \in {"matched", "answered", "cancelled"}
  /\ \A o, p \in Objs : Served(o) /\ Served(p) /\ call[o] = call[p] => o = p
  /\ \A c \in Calls : client[c] = "start" => rpc[c] = "idle"

ServerInv == TypeOK /\ TagInv /\ CallInv

-----------------------------------------------------------------------------
(* What taking the oldest tag leaves.                                      *)
LEMMA TailFacts ==
  ASSUME NEW S, NEW s \in Seq(S), s # <<>>
  PROVE  /\ Len(s) \in Nat /\ Len(s) > 0
         /\ Head(s) \in S /\ Head(s) = s[1]
         /\ Tail(s) \in Seq(S)
         /\ Len(Tail(s)) = Len(s) - 1
         /\ \A i \in 1 .. (Len(s) - 1) : Tail(s)[i] = s[i + 1]
OBVIOUS

(* What adding a tag does.                                                 *)
LEMMA AppendFacts ==
  ASSUME NEW S, NEW s \in Seq(S), NEW e \in S
  PROVE  /\ Append(s, e) \in Seq(S)
         /\ Len(s) \in Nat
         /\ Len(Append(s, e)) = Len(s) + 1
         /\ \A i \in 1 .. Len(s) : Append(s, e)[i] = s[i]
         /\ Append(s, e)[Len(s) + 1] = e
OBVIOUS

(* The queues of one or no object.                                         *)
LEMMA ShortFacts ==
  ASSUME NEW S, NEW e \in S
  PROVE  /\ <<>> \in Seq(S) /\ <<e>> \in Seq(S)
         /\ Len(<<>>) = 0 /\ Len(<<e>>) = 1
         /\ <<e>>[1] = e /\ Head(<<e>>) = e /\ Tail(<<e>>) = <<>>
         /\ Append(<<>>, e) = <<e>> /\ <<e>> # <<>>
         /\ \A f : <<e>> = <<f>> => e = f
OBVIOUS

Tags == [tag : Objs, ok : BOOLEAN]

(* The tags in the queue are tags of objects.                              *)
LEMMA QueueTags ==
  ASSUME cq \in Seq(Tags)
  PROVE  \A i \in 1 .. Len(cq) : cq[i] \in Tags /\ cq[i].tag \in Objs /\ cq[i].ok \in BOOLEAN
<1>1. \A i \in 1 .. Len(cq) : cq[i] \in Tags
  OBVIOUS
<1> QED
  BY ONLY <1>1 DEF Tags

(* Taking the head off the queue takes its tag away and no other.          *)
LEMMA Dequeue ==
  ASSUME TypeOK, TagInv, cq # <<>>, cq' = Tail(cq)
  PROVE  /\ NextTag \in Objs /\ Live(NextTag) /\ NextTag \notin finishing /\ Queued(NextTag)
         /\ requested # <<NextTag>>
         /\ cq' \in Seq(Tags)
         /\ \A o \in Objs : Queued(o)' <=> Queued(o) /\ o # NextTag
         /\ \A i, j \in 1 .. Len(cq') : cq'[i].tag = cq'[j].tag => i = j
         /\ \A i \in 1 .. Len(cq') : cq'[i].tag \in Objs
<1>0. cq \in Seq(Tags)
  BY DEF TypeOK, Tags
<1>1. /\ Len(cq) \in Nat /\ Len(cq) > 0
      /\ Head(cq) = cq[1] /\ cq' \in Seq(Tags) /\ Len(cq') = Len(cq) - 1
      /\ \A i \in 1 .. (Len(cq) - 1) : cq'[i] = cq[i + 1]
  BY <1>0, TailFacts
<1>2. 1 \in 1 .. Len(cq) /\ NextTag = cq[1].tag
  BY <1>1 DEF NextTag
<1>3. NextTag \in Objs /\ Live(NextTag) /\ NextTag \notin finishing /\ Queued(NextTag)
  BY <1>0, <1>2, QueueTags DEF TagInv, Queued
<1>4. \A i \in 1 .. Len(cq') : i + 1 \in 1 .. Len(cq) /\ cq'[i] = cq[i + 1] /\ i + 1 # 1
  BY <1>1
<1>5. \A i, j \in 1 .. Len(cq) : cq[i].tag = cq[j].tag => i = j
  BY DEF TagInv
<1>6. \A o \in Objs : Queued(o)' <=> Queued(o) /\ o # NextTag
  <2> SUFFICES ASSUME NEW o \in Objs PROVE Queued(o)' <=> Queued(o) /\ o # NextTag
    OBVIOUS
  <2>1. ASSUME Queued(o)' PROVE Queued(o) /\ o # NextTag
    <3>1. PICK i \in 1 .. Len(cq') : cq'[i].tag = o
      BY <2>1 DEF Queued
    <3>2. i + 1 \in 1 .. Len(cq) /\ cq[i + 1].tag = o /\ i + 1 # 1
      BY <3>1, <1>4
    <3> QED
      BY <3>2, <1>2, <1>5 DEF Queued
  <2>2. ASSUME Queued(o), o # NextTag PROVE Queued(o)'
    <3>1. PICK k \in 1 .. Len(cq) : cq[k].tag = o
      BY <2>2 DEF Queued
    <3>2. k # 1
      BY <3>1, <2>2, <1>2
    <3>3. k - 1 \in 1 .. Len(cq') /\ (k - 1) + 1 = k
      BY <3>1, <3>2, <1>1
    <3>4. cq'[k - 1] = cq[k]
      BY <3>3, <1>4
    <3> QED
      BY <3>1, <3>3, <3>4 DEF Queued
  <2> QED
    BY <2>1, <2>2
<1>7. \A i, j \in 1 .. Len(cq') : cq'[i].tag = cq'[j].tag => i = j
  <2> SUFFICES ASSUME NEW i \in 1 .. Len(cq'), NEW j \in 1 .. Len(cq'), cq'[i].tag = cq'[j].tag
               PROVE  i = j
    OBVIOUS
  <2>1. /\ i + 1 \in 1 .. Len(cq) /\ cq'[i] = cq[i + 1]
        /\ j + 1 \in 1 .. Len(cq) /\ cq'[j] = cq[j + 1]
    BY <1>4
  <2>2. i + 1 = j + 1
    BY <2>1, <1>5
  <2> QED
    BY <2>2, <1>1
<1>8. \A i \in 1 .. Len(cq') : cq'[i].tag \in Objs
  BY <1>4, <1>0, QueueTags
<1>9. requested # <<NextTag>>
  <2> SUFFICES ASSUME requested = <<NextTag>> PROVE FALSE
    OBVIOUS
  <2>1. requested # <<>>
    OBVIOUS
  <2>2. PICK o \in Objs : requested = <<o>> /\ ~Queued(o)
    BY <2>1 DEF TagInv
  <2> QED
    BY <2>2, <1>3
<1> QED
  BY <1>1, <1>3, <1>6, <1>7, <1>8, <1>9

(* Queueing the tag of an object that is not queued.                       *)
LEMMA Enqueue ==
  ASSUME TypeOK, TagInv, NEW o \in Objs, ~Queued(o), NEW ok \in BOOLEAN,
         cq' = Append(cq, [tag |-> o, ok |-> ok])
  PROVE  /\ cq' \in Seq(Tags)
         /\ \A p \in Objs : Queued(p)' <=> Queued(p) \/ p = o
         /\ \A i, j \in 1 .. Len(cq') : cq'[i].tag = cq'[j].tag => i = j
         /\ \A i \in 1 .. Len(cq') : cq'[i].tag \in Objs
<1>0. cq \in Seq(Tags) /\ [tag |-> o, ok |-> ok] \in Tags
  BY DEF TypeOK, Tags
<1>1. /\ cq' \in Seq(Tags) /\ Len(cq) \in Nat /\ Len(cq') = Len(cq) + 1
      /\ \A i \in 1 .. Len(cq) : cq'[i] = cq[i]
      /\ cq'[Len(cq) + 1] = [tag |-> o, ok |-> ok]
  BY <1>0, AppendFacts
<1>2. cq'[Len(cq) + 1].tag = o
  BY <1>1
<1>3. \A i \in 1 .. Len(cq') : \/ i \in 1 .. Len(cq) /\ cq'[i] = cq[i]
                               \/ i = Len(cq) + 1 /\ cq'[i].tag = o
  BY <1>1, <1>2
<1>4. \A i \in 1 .. Len(cq) : i \in 1 .. Len(cq') /\ cq'[i] = cq[i] /\ cq[i].tag # o
  BY <1>1 DEF Queued
<1>5. \A p \in Objs : Queued(p)' <=> Queued(p) \/ p = o
  <2> SUFFICES ASSUME NEW p \in Objs PROVE Queued(p)' <=> Queued(p) \/ p = o
    OBVIOUS
  <2>1. Queued(p)' => Queued(p) \/ p = o
    BY <1>3 DEF Queued
  <2>2. Queued(p) => Queued(p)'
    BY <1>4 DEF Queued
  <2>3. Queued(o)'
    <3>1. Len(cq) + 1 \in 1 .. Len(cq')
      BY <1>1
    <3> QED
      BY <1>2, <3>1 DEF Queued
  <2> QED
    BY <2>1, <2>2, <2>3
<1>6. \A i, j \in 1 .. Len(cq') : cq'[i].tag = cq'[j].tag => i = j
  BY <1>3, <1>4 DEF TagInv
<1>7. \A i \in 1 .. Len(cq') : cq'[i].tag \in Objs
  BY <1>3, <1>0, QueueTags
<1> QED
  BY <1>1, <1>5, <1>6, <1>7

(* When a call is processed there is an object left for the successor.     *)
LEMMA FreshExists ==
  ASSUME ServerInv, NEW t \in Objs, status[t] = "PROCESS", Queued(t)
  PROVE  Fresh \in Objs /\ status[Fresh] = "new"
<1>1. \E o \in Objs : status[o] = "new"
  <2> SUFFICES ASSUME \A o \in Objs : status[o] # "new" PROVE FALSE
    OBVIOUS
  <2>1. \A o \in Objs : Served(o)
    BY DEF ServerInv, TypeOK, TagInv, Served
  <2>2. call \in [Objs -> Calls]
    BY <2>1 DEF ServerInv, TypeOK, CallInv
  <2>3. IsFiniteSet(Calls) /\ MaxObjs \in Nat /\ MaxObjs > Cardinality(Calls)
    BY ServerAssumption DEF ServerAssumption
  <2>4. Cardinality(Calls) \in Nat
    BY <2>3, FS_CardinalityType
  <2>5. IsFiniteSet(Objs) /\ Cardinality(Objs) = MaxObjs
    <3>1. IsFiniteSet(1 .. MaxObjs)
          /\ Cardinality(1 .. MaxObjs) = (IF 1 > MaxObjs THEN 0 ELSE MaxObjs - 1 + 1)
      BY <2>3, FS_Interval
    <3> QED
      BY <2>3, <2>4, <3>1 DEF Objs
  <2>6. \E o, p \in Objs : o # p /\ call[o] = call[p]
    BY <2>2, <2>3, <2>4, <2>5, FS_PigeonHole
  <2> QED
    BY <2>1, <2>6 DEF ServerInv, CallInv
<1> QED
  BY <1>1 DEF Fresh

-----------------------------------------------------------------------------
(* The daemon starts with one object, which waits for a call.              *)
LEMMA InitServer == Init => ServerInv
<1> SUFFICES ASSUME Init PROVE ServerInv
  OBVIOUS
<1>0. MaxObjs \in Nat /\ MaxObjs > 0
  <2>1. IsFiniteSet(Calls) /\ MaxObjs \in Nat /\ MaxObjs > Cardinality(Calls)
    BY ServerAssumption DEF ServerAssumption
  <2>2. Cardinality(Calls) \in Nat
    BY <2>1, FS_CardinalityType
  <2> QED
    BY <2>1, <2>2
<1>1. 1 \in Objs
  BY <1>0 DEF Objs
<1>2. <<>> \in Seq([tag : Objs, ok : BOOLEAN]) /\ <<1>> \in Seq(Objs)
  BY <1>1
<1>3. TypeOK
  BY <1>1, <1>2 DEF Init, TypeOK
<1>4. \A o \in Objs : ~Queued(o) /\ (status[o] \in {"PROCESS", "FINISH", "deleted"} => o = 1)
                     /\ status[o] \notin {"FINISH", "deleted"}
  BY <1>1 DEF Init, Queued
<1>5. status[1] = "PROCESS" /\ requested = <<1>> /\ finishing = {} /\ cq = <<>>
  BY <1>1 DEF Init
<1>6. TagInv
  BY <1>1, <1>4, <1>5 DEF TagInv, Live
<1>7. CallInv
  BY <1>4 DEF Init, CallInv, Served
<1> QED
  BY <1>3, <1>6, <1>7 DEF ServerInv

(* What a client does changes only its call.                               *)
LEMMA ClientStep ==
  ASSUME ServerInv, NEW c \in Calls, ClientCalls(c) \/ ClientEnds(c) \/ ClientCancels(c)
  PROVE  ServerInv'
<1>u. UNCHANGED <<status, call, requested, finishing, cq, server>>
  BY DEF ClientCalls, ClientEnds, ClientCancels
<1>1. TypeOK'
  BY <1>u DEF ServerInv, TypeOK, ClientCalls, ClientEnds, ClientCancels
<1>2. TagInv'
  BY <1>u DEF ServerInv, TagInv, Live, Queued
<1>3. CallInv'
  <2>1. \A o \in Objs : Served(o)' <=> Served(o)
    BY <1>u DEF Served, Queued
  <2>2. \A d \in Calls : rpc[d] \in {"matched", "answered", "cancelled"}
                         => rpc'[d] \in {"matched", "answered", "cancelled"}
    BY DEF ServerInv, TypeOK, CallInv, ClientCalls, ClientEnds, ClientCancels
  <2>3. (\A d \in Calls : client[d] = "start" => rpc[d] = "idle")'
    BY DEF ServerInv, TypeOK, CallInv, ClientCalls, ClientEnds, ClientCancels
  <2> QED
    BY <1>u, <2>1, <2>2, <2>3 DEF ServerInv, CallInv
<1> QED
  BY <1>1, <1>2, <1>3 DEF ServerInv

(* A call that meets the waiting object has met none before.               *)
LEMMA MatchStep ==
  ASSUME ServerInv, NEW c \in Calls, Match(c)
  PROVE  ServerInv'
<1>0. TypeOK /\ TagInv /\ CallInv
  BY DEF ServerInv
<1>1. PICK o \in Objs : requested = <<o>> /\ status[o] = "PROCESS" /\ ~Queued(o)
  BY <1>0 DEF Match, TagInv
<1>2. Head(requested) = o /\ Tail(requested) = <<>>
  BY <1>1, ShortFacts
<1>m. /\ rpc[c] = "sent" /\ rpc' = [rpc EXCEPT ![c] = "matched"]
      /\ call' = [call EXCEPT ![o] = c]
      /\ cq' = Append(cq, [tag |-> o, ok |-> TRUE])
      /\ requested' = <<>>
      /\ UNCHANGED <<status, finishing, client, server>>
  BY <1>2 DEF Match
<1>q. /\ cq' \in Seq(Tags)
      /\ \A p \in Objs : Queued(p)' <=> Queued(p) \/ p = o
      /\ \A i, j \in 1 .. Len(cq') : cq'[i].tag = cq'[j].tag => i = j
      /\ \A i \in 1 .. Len(cq') : cq'[i].tag \in Objs
  BY <1>0, <1>1, <1>m, Enqueue
<1>f. o \notin finishing
  BY <1>0, <1>1 DEF TagInv
<1>3. TypeOK'
  <2>1. /\ rpc' \in [Calls -> {"idle", "sent", "matched", "answered", "cancelled"}]
        /\ call' \in [Objs -> Calls \cup {NoCall}]
    BY <1>0, <1>m DEF TypeOK
  <2>2. requested' \in Seq(Objs)
    BY <1>m
  <2> QED
    BY <1>0, <1>m, <1>q, <2>1, <2>2 DEF TypeOK, Tags
<1>4. TagInv'
  <2>1. \A p \in Objs : Queued(p)' => Live(p) /\ p \notin finishing
    BY <1>0, <1>1, <1>q, <1>f DEF TagInv, Live, Queued
  <2>2. \A i \in 1 .. Len(cq') : Live(cq'[i].tag) /\ cq'[i].tag \notin finishing
    BY <2>1, <1>q DEF Queued
  <2>3. \A p \in Objs : Live(p) => p \in finishing \/ Queued(p)'
    <3> SUFFICES ASSUME NEW p \in Objs, Live(p), p \notin finishing PROVE Queued(p)'
      OBVIOUS
    <3>1. Queued(p) \/ requested = <<p>>
      BY <1>0 DEF TagInv
    <3>2. requested = <<p>> => p = o
      BY <1>1, ShortFacts
    <3> QED
      BY <1>q, <3>1, <3>2
  <2>4. \A p \in Objs : Live(p)' <=> Live(p)
    BY <1>m DEF Live
  <2>5. (\A i \in 1 .. Len(cq) : Live(cq[i].tag) /\ cq[i].tag \notin finishing)'
    BY <2>2, <1>m DEF Live
  <2>6. (\A p \in Objs : Live(p) => p \in finishing \/ Queued(p) \/ requested = <<p>>)'
    BY <2>3, <2>4, <1>m
  <2> QED
    BY <1>0, <1>m, <1>q, <2>5, <2>6 DEF TagInv
<1>5. CallInv'
  <2>1. \A p \in Objs : Served(p)' <=> Served(p) \/ p = o
    BY <1>m, <1>q DEF Served
  <2>2. call'[o] = c /\ \A p \in Objs : p # o => call'[p] = call[p]
    BY <1>0, <1>m DEF TypeOK
  <2>3. rpc'[c] = "matched" /\ \A d \in Calls : d # c => rpc'[d] = rpc[d]
    BY <1>0, <1>m DEF TypeOK
  <2>4. \A p \in Objs : Served(p) => call[p] # c /\ call[p] \in Calls
    BY <1>0, <1>m DEF CallInv
  <2>5. ~Served(o)
    BY <1>1 DEF Served
  <2>6. (\A p \in Objs : Served(p) =>
           call[p] \in Calls /\ rpc[call[p]] \in {"matched", "answered", "cancelled"})'
    <3> SUFFICES ASSUME NEW p \in Objs, Served(p)'
                 PROVE  /\ call'[p] \in Calls
                        /\ rpc'[call'[p]] \in {"matched", "answered", "cancelled"}
      OBVIOUS
    <3>1. CASE p = o
      BY <3>1, <2>2, <2>3
    <3>2. CASE p # o
      <4>1. Served(p) /\ call'[p] = call[p]
        BY <3>2, <2>1, <2>2
      <4> QED
        BY <1>0, <4>1, <2>3, <2>4 DEF CallInv
    <3> QED
      BY <3>1, <3>2
  <2>7. (\A p, r \in Objs : Served(p) /\ Served(r) /\ call[p] = call[r] => p = r)'
    <3> SUFFICES ASSUME NEW p \in Objs, NEW r \in Objs, Served(p)', Served(r)',
                        call'[p] = call'[r]
                 PROVE  p = r
      OBVIOUS
    <3>1. CASE p = o /\ r # o
      BY <3>1, <2>1, <2>2, <2>4
    <3>2. CASE p # o /\ r = o
      BY <3>2, <2>1, <2>2, <2>4
    <3>3. CASE p # o /\ r # o
      BY <1>0, <3>3, <2>1, <2>2 DEF CallInv
    <3> QED
      BY <3>1, <3>2, <3>3
  <2>8. (\A d \in Calls : client[d] = "start" => rpc[d] = "idle")'
    BY <1>0, <1>m, <2>3 DEF CallInv
  <2> QED
    BY <2>6, <2>7, <2>8 DEF CallInv
<1> QED
  BY <1>3, <1>4, <1>5 DEF ServerInv

(* A reply that is sent, or cannot be, brings the tag of a live object.    *)
LEMMA ReplyStep ==
  ASSUME ServerInv, NEW o \in Objs, SendReply(o)
  PROVE  ServerInv'
<1>0. TypeOK /\ TagInv /\ CallInv
  BY DEF ServerInv
<1>1. o \in finishing /\ status[o] = "FINISH"
  BY <1>0 DEF SendReply, TagInv
<1>2. ~Queued(o)
  BY <1>0, <1>1 DEF TagInv, Queued
<1>3. Served(o) /\ call[o] \in Calls
  BY <1>0, <1>1 DEF Served, CallInv
<1>m. /\ finishing' = finishing \ {o}
      /\ rpc' = [rpc EXCEPT ![call[o]] = IF @ = "matched" THEN "answered" ELSE @]
      /\ UNCHANGED <<status, call, requested, client, server>>
  BY DEF SendReply
<1>a. /\ (rpc[call[o]] = "matched") \in BOOLEAN
      /\ cq' = Append(cq, [tag |-> o, ok |-> (rpc[call[o]] = "matched")])
  BY DEF SendReply
<1>q. /\ cq' \in Seq(Tags)
      /\ \A p \in Objs : Queued(p)' <=> Queued(p) \/ p = o
      /\ \A i, j \in 1 .. Len(cq') : cq'[i].tag = cq'[j].tag => i = j
      /\ \A i \in 1 .. Len(cq') : cq'[i].tag \in Objs
  BY <1>0, <1>2, <1>a, Enqueue
<1>r. /\ rpc' \in [Calls -> {"idle", "sent", "matched", "answered", "cancelled"}]
      /\ \A d \in Calls : rpc'[d] = rpc[d] \/ (rpc[d] = "matched" /\ rpc'[d] = "answered")
  BY <1>0, <1>3, <1>m DEF TypeOK
<1>4. TypeOK'
  BY <1>0, <1>m, <1>q, <1>r DEF TypeOK, Tags
<1>5. TagInv'
  <2>1. \A p \in Objs : Queued(p)' => Live(p) /\ p \notin finishing'
    BY <1>0, <1>1, <1>q, <1>m DEF TagInv, Live, Queued
  <2>2. (\A i \in 1 .. Len(cq) : Live(cq[i].tag) /\ cq[i].tag \notin finishing)'
    BY <2>1, <1>q, <1>m DEF Queued, Live
  <2>3. requested = <<>> \/ \E p \in Objs : /\ requested = <<p>>
                                            /\ status[p] = "PROCESS" /\ ~Queued(p)'
    BY <1>0, <1>1, <1>q DEF TagInv
  <2>4. (\A p \in Objs : Live(p) => p \in finishing \/ Queued(p) \/ requested = <<p>>)'
    BY <1>0, <1>q, <1>m DEF TagInv, Live
  <2>5. (requested = <<>> \/ \E p \in Objs : /\ requested = <<p>>
                                            /\ status[p] = "PROCESS" /\ ~Queued(p))'
    BY <2>3, <1>m
  <2> QED
    BY <1>0, <1>m, <1>q, <2>2, <2>4, <2>5 DEF TagInv
<1>6. CallInv'
  <2>1. \A p \in Objs : Served(p)' <=> Served(p)
    BY <1>m, <1>q, <1>3 DEF Served
  <2> QED
    BY <1>0, <1>m, <1>r, <2>1 DEF CallInv
<1> QED
  BY <1>4, <1>5, <1>6 DEF ServerInv

(* A processed call leaves its object to gRPC and a new one for the next.  *)
LEMMA ProcessStep == ServerInv /\ Process => ServerInv'
<1> SUFFICES ASSUME ServerInv, Process PROVE ServerInv'
  OBVIOUS
<1> DEFINE t == NextTag
           f == Fresh
<1>0. TypeOK /\ TagInv /\ CallInv
  BY DEF ServerInv
<1>m. /\ cq # <<>> /\ cq' = Tail(cq)
      /\ status[t] = "PROCESS"
      /\ status' = [status EXCEPT ![f] = "PROCESS", ![t] = "FINISH"]
      /\ requested' = Append(requested, f)
      /\ finishing' = finishing \cup {t}
      /\ UNCHANGED <<call, rpc, client, server>>
  BY DEF Process
<1>q. /\ t \in Objs /\ t \notin finishing /\ Queued(t)
      /\ requested # <<t>>
      /\ cq' \in Seq(Tags)
      /\ \A o \in Objs : Queued(o)' <=> Queued(o) /\ o # t
      /\ \A i, j \in 1 .. Len(cq') : cq'[i].tag = cq'[j].tag => i = j
      /\ \A i \in 1 .. Len(cq') : cq'[i].tag \in Objs
  BY <1>0, <1>m, Dequeue
<1>f. f \in Objs /\ status[f] = "new"
  BY <1>m, <1>q, FreshExists
<1> HIDE DEF t, f
<1>g. f # t /\ ~Queued(f) /\ f \notin finishing
  BY <1>0, <1>f, <1>m DEF TagInv, Queued, Live
<1>e. requested = <<>>
  <2> SUFFICES ASSUME requested # <<>> PROVE FALSE
    OBVIOUS
  <2>1. PICK o \in Objs : requested = <<o>> /\ status[o] = "PROCESS"
    BY <1>0 DEF TagInv
  <2>2. o = t
    BY <1>0, <1>m, <1>q, <2>1 DEF TagInv
  <2> QED
    BY <1>q, <2>1, <2>2
<1>h. requested' = <<f>>
  BY <1>e, <1>f, <1>m, ShortFacts
<1>s. /\ status' \in [Objs -> {"new", "PROCESS", "FINISH", "deleted"}]
      /\ status'[f] = "PROCESS" /\ status'[t] = "FINISH"
      /\ \A o \in Objs : o # f /\ o # t => status'[o] = status[o]
  BY <1>0, <1>f, <1>g, <1>q, <1>m DEF TypeOK
<1>1. TypeOK'
  <2>1. requested' \in Seq(Objs)
    BY <1>f, <1>h
  <2>2. finishing' \subseteq Objs
    BY <1>0, <1>m, <1>q DEF TypeOK
  <2> QED
    BY <1>0, <1>m, <1>q, <1>s, <2>1, <2>2 DEF TypeOK, Tags
<1>2. TagInv'
  <2>1. \A o \in Objs : Queued(o)' => Live(o)' /\ o \notin finishing'
    <3> SUFFICES ASSUME NEW o \in Objs, Queued(o)' PROVE Live(o)' /\ o \notin finishing'
      OBVIOUS
    <3>1. Queued(o) /\ o # t /\ o # f
      BY <1>q, <1>g
    <3>2. status[o] \in {"PROCESS", "FINISH"} /\ o \notin finishing
      BY <1>0, <3>1 DEF TagInv, Queued, Live
    <3>3. status'[o] = status[o] /\ o \notin finishing'
      BY <1>m, <1>s, <3>1, <3>2
    <3> QED
      BY <3>2, <3>3 DEF Live
  <2>2. (\A i \in 1 .. Len(cq) : Live(cq[i].tag) /\ cq[i].tag \notin finishing)'
    BY <2>1, <1>q DEF Queued
  <2>3. (\E o \in Objs : requested = <<o>> /\ status[o] = "PROCESS" /\ ~Queued(o))'
    BY <1>f, <1>g, <1>h, <1>q, <1>s
  <2>4. (\A o \in finishing : status[o] = "FINISH")'
    <3> SUFFICES ASSUME NEW o \in finishing' PROVE status'[o] = "FINISH"
      OBVIOUS
    <3>1. CASE o = t
      BY <1>s, <3>1
    <3>2. CASE o # t
      <4>1. o \in finishing /\ o \in Objs /\ o # f
        BY <1>0, <1>m, <1>g, <3>2 DEF TypeOK
      <4> QED
        BY <1>0, <1>s, <3>2, <4>1 DEF TagInv
    <3> QED
      BY <3>1, <3>2
  <2>5. (\A o \in Objs : Live(o) => o \in finishing \/ Queued(o) \/ requested = <<o>>)'
    <3> SUFFICES ASSUME NEW o \in Objs, Live(o)', o # t, o # f
                 PROVE  o \in finishing' \/ Queued(o)'
      BY <1>h, <1>m
    <3>1. Live(o)
      BY <1>s DEF Live
    <3>2. o \in finishing \/ Queued(o) \/ requested = <<o>>
      BY <1>0, <3>1 DEF TagInv
    <3>3. requested # <<o>>
      BY <1>e
    <3> QED
      BY <1>m, <1>q, <3>2, <3>3
  <2>6. (\A o, p \in Objs : status[o] = "PROCESS" /\ status[p] = "PROCESS" => o = p)'
    <3> SUFFICES ASSUME NEW o \in Objs, status'[o] = "PROCESS" PROVE o = f
      BY <1>f
    <3>1. o # t
      BY <1>s
    <3>2. o # f => status[o] = "PROCESS"
      BY <1>s, <3>1
    <3> QED
      BY <1>0, <1>m, <1>q, <3>1, <3>2 DEF TagInv
  <2> QED
    BY <1>q, <2>2, <2>3, <2>4, <2>5, <2>6 DEF TagInv
<1>3. CallInv'
  <2>1. \A o \in Objs : Served(o)' => Served(o)
    <3> SUFFICES ASSUME NEW o \in Objs, Served(o)' PROVE Served(o)
      OBVIOUS
    <3>1. CASE o = t
      BY <3>1, <1>q DEF Served
    <3>2. CASE o # t
      <4>1. o # f
        BY <1>s, <1>g, <1>q DEF Served
      <4> QED
        BY <1>s, <1>q, <3>2, <4>1 DEF Served
    <3> QED
      BY <3>1, <3>2
  <2> QED
    BY <1>0, <1>m, <2>1 DEF CallInv
<1> QED
  BY <1>1, <1>2, <1>3 DEF ServerInv

(* Only an object whose tag is taken from the queue is deleted.            *)
LEMMA DeleteStep == ServerInv /\ Delete => ServerInv'
<1> SUFFICES ASSUME ServerInv, Delete PROVE ServerInv'
  OBVIOUS
<1> DEFINE t == NextTag
<1>0. TypeOK /\ TagInv /\ CallInv
  BY DEF ServerInv
<1>m. /\ cq # <<>> /\ cq' = Tail(cq)
      /\ status[t] = "FINISH"
      /\ status' = [status EXCEPT ![t] = "deleted"]
      /\ UNCHANGED <<call, requested, finishing, rpc, client, server>>
  BY DEF Delete
<1>q. /\ t \in Objs /\ t \notin finishing /\ Queued(t)
      /\ requested # <<t>>
      /\ cq' \in Seq(Tags)
      /\ \A o \in Objs : Queued(o)' <=> Queued(o) /\ o # t
      /\ \A i, j \in 1 .. Len(cq') : cq'[i].tag = cq'[j].tag => i = j
      /\ \A i \in 1 .. Len(cq') : cq'[i].tag \in Objs
  BY <1>0, <1>m, Dequeue
<1> HIDE DEF t
<1>s. /\ status' \in [Objs -> {"new", "PROCESS", "FINISH", "deleted"}]
      /\ status'[t] = "deleted"
      /\ \A o \in Objs : o # t => status'[o] = status[o]
  BY <1>0, <1>q, <1>m DEF TypeOK
<1>1. TypeOK'
  BY <1>0, <1>m, <1>q, <1>s DEF TypeOK, Tags
<1>2. TagInv'
  <2>1. \A o \in Objs : Queued(o)' => Live(o)' /\ o \notin finishing'
    <3> SUFFICES ASSUME NEW o \in Objs, Queued(o)' PROVE Live(o)' /\ o \notin finishing'
      OBVIOUS
    <3>1. Queued(o) /\ o # t
      BY <1>q
    <3>2. status[o] \in {"PROCESS", "FINISH"} /\ o \notin finishing
      BY <1>0, <3>1 DEF TagInv, Queued, Live
    <3> QED
      BY <1>m, <1>s, <3>1, <3>2 DEF Live
  <2>2. (\A i \in 1 .. Len(cq) : Live(cq[i].tag) /\ cq[i].tag \notin finishing)'
    BY <2>1, <1>q DEF Queued
  <2>3. (requested = <<>> \/ \E o \in Objs : /\ requested = <<o>>
                                            /\ status[o] = "PROCESS" /\ ~Queued(o))'
    <3>1. CASE requested = <<>>
      BY <1>m, <3>1
    <3>2. CASE requested # <<>>
      <4>1. PICK o \in Objs : requested = <<o>> /\ status[o] = "PROCESS" /\ ~Queued(o)
        BY <1>0, <3>2 DEF TagInv
      <4>2. o # t
        BY <1>m, <4>1
      <4> QED
        BY <1>m, <1>q, <1>s, <4>1, <4>2
    <3> QED
      BY <3>1, <3>2
  <2>4. (\A o \in finishing : status[o] = "FINISH")'
    BY <1>0, <1>m, <1>q, <1>s DEF TagInv, TypeOK
  <2>5. (\A o \in Objs : Live(o) => o \in finishing \/ Queued(o) \/ requested = <<o>>)'
    BY <1>0, <1>m, <1>q, <1>s DEF TagInv, Live
  <2>6. (\A o, p \in Objs : status[o] = "PROCESS" /\ status[p] = "PROCESS" => o = p)'
    <3>1. \A o \in Objs : status'[o] = "PROCESS" => status[o] = "PROCESS"
      BY <1>s
    <3> QED
      BY <1>0, <3>1 DEF TagInv
  <2> QED
    BY <1>q, <2>2, <2>3, <2>4, <2>5, <2>6 DEF TagInv
<1>3. CallInv'
  <2>1. \A o \in Objs : Served(o)' => Served(o)
    BY <1>m, <1>q, <1>s DEF Served
  <2> QED
    BY <1>0, <1>m, <2>1 DEF CallInv
<1> QED
  BY <1>1, <1>2, <1>3 DEF ServerInv

(* Every step keeps the invariant.                                         *)
LEMMA NextServer == ServerInv /\ [Next]_vars => ServerInv'
<1> SUFFICES ASSUME ServerInv, [Next]_vars PROVE ServerInv'
  OBVIOUS
<1>1. CASE AssertFails \/ UNCHANGED vars
  BY <1>1 DEF AssertFails, vars, ServerInv, TypeOK, TagInv, CallInv, Live, Queued, Served
<1>2. CASE Process
  BY <1>2, ProcessStep
<1>3. CASE Delete
  BY <1>3, DeleteStep
<1>4. CASE Grpc
  BY <1>4, MatchStep, ReplyStep DEF Grpc
<1>5. CASE Users \/ Cancel
  BY <1>5, ClientStep DEF Users, Cancel
<1> QED
  BY <1>1, <1>2, <1>3, <1>4, <1>5 DEF Next, Daemon

(* The invariant always holds.                                             *)
LEMMA ServerAlways == Spec => []ServerInv
BY InitServer, NextServer, PTL DEF Spec

-----------------------------------------------------------------------------
(* The variables of GRPCAsyncServer keep their types; in particular the    *)
(* successor that proceed() creates is always a new object.                *)
THEOREM ServerTypeCorrect == Spec => []TypeOK
<1>1. ServerInv => TypeOK
  BY DEF ServerInv
<1> QED
  BY <1>1, ServerAlways, PTL

(* Where an object is, as a number of places.                              *)
LEMMA PlacesOf ==
  ASSUME ServerInv, NEW o \in Objs
  PROVE  Places(o) = IF Live(o) THEN 1 ELSE 0
<1>0. TypeOK /\ TagInv
  BY DEF ServerInv
<1> DEFINE inCq  == {i \in 1 .. Len(cq) : cq[i].tag = o}
           inReq == {i \in 1 .. Len(requested) : requested[i] = o}
<1>1. Cardinality(inCq) = IF Queued(o) THEN 1 ELSE 0
  <2>1. CASE Queued(o)
    <3>1. PICK k \in 1 .. Len(cq) : cq[k].tag = o
      BY <2>1 DEF Queued
    <3>2. inCq = {k}
      BY <1>0, <3>1 DEF TagInv
    <3> QED
      BY <2>1, <3>2, FS_Singleton
  <2>2. CASE ~Queued(o)
    <3>1. inCq = {}
      BY <2>2 DEF Queued
    <3> QED
      BY <2>2, <3>1, FS_EmptySet
  <2> QED
    BY <2>1, <2>2
<1>2. Cardinality(inReq) = IF requested = <<o>> THEN 1 ELSE 0
  <2>1. CASE requested = <<o>>
    <3>1. inReq = {1}
      BY <2>1
    <3> QED
      BY <2>1, <3>1, FS_Singleton
  <2>2. CASE requested # <<o>>
    <3>1. inReq = {}
      <4>1. CASE requested = <<>>
        BY <4>1
      <4>2. CASE \E p \in Objs : requested = <<p>>
        <5>1. PICK p \in Objs : requested = <<p>>
          BY <4>2
        <5>2. p # o
          BY <2>2, <5>1
        <5>3. Len(requested) = 1 /\ requested[1] = p
          BY <5>1
        <5> QED
          BY <5>2, <5>3
      <4> QED
        BY <1>0, <4>1, <4>2 DEF TagInv
    <3> QED
      BY <2>2, <3>1, FS_EmptySet
  <2> QED
    BY <2>1, <2>2
<1>3. Places(o) = (IF Queued(o) THEN 1 ELSE 0) + (IF requested = <<o>> THEN 1 ELSE 0)
                  + (IF o \in finishing THEN 1 ELSE 0)
  BY <1>1, <1>2 DEF Places
<1>4. requested = <<o>> => status[o] = "PROCESS" /\ ~Queued(o)
  <2> SUFFICES ASSUME requested = <<o>> PROVE status[o] = "PROCESS" /\ ~Queued(o)
    OBVIOUS
  <2>1. requested # <<>>
    OBVIOUS
  <2>2. PICK p \in Objs : requested = <<p>> /\ status[p] = "PROCESS" /\ ~Queued(p)
    BY <1>0, <2>1 DEF TagInv
  <2>3. p = o
    BY <2>2
  <2> QED
    BY <2>2, <2>3
<1>5. Queued(o) => Live(o) /\ o \notin finishing
  BY <1>0 DEF TagInv, Queued
<1>6. o \in finishing => status[o] = "FINISH"
  BY <1>0 DEF TagInv
<1>7. Live(o) => o \in finishing \/ Queued(o) \/ requested = <<o>>
  BY <1>0 DEF TagInv
<1> QED
  BY <1>3, <1>4, <1>5, <1>6, <1>7 DEF Live

(* A live call object's tag is in exactly one place, the completion queue  *)
(* or gRPC, and that of a deleted object in none: delete this in proceed() *)
(* is never followed by a use of the object, for any number of calls.      *)
THEOREM TagsAlive == Spec => []NoDanglingTag
<1>1. ServerInv => NoDanglingTag
  BY PlacesOf DEF NoDanglingTag, Live
<1> QED
  BY <1>1, ServerAlways, PTL

=============================================================================
