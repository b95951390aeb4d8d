-------------------------- MODULE SmallFilesProofs --------------------------
(***************************************************************************)
(* Proofs about the small files, in the service and in the local test, for *)
(* every number of files and every queue depth: no buffer is freed early   *)
(* or twice, and an answer means that all files have ended, unless the     *)
(* completion thread has given up.                                         *)
(*                                                                         *)
(* SmallInv is inductive.  Its argument has four parts.  Phase: the tail   *)
(* of the ring is odd exactly when a close is prepared.  SlotInv: so the   *)
(* user data of odd slots is never set, and no close carries a buffer; in  *)
(* a ring of one slot no close is ever prepared.  StateInv: a request is   *)
(* submitted once.  FreeInv and CountInv: a buffer is in at most one       *)
(* completion, and the completions are as many as the steps that ended.    *)
(***************************************************************************)
EXTENDS SmallFiles, FiniteSetTheorems, TLAPS

(* Where the handler thread is in its loop, and what it has taken.         *)
Phase ==
  /\ hpc = "init" => cur = 0 /\ tail = 0
  /\ hpc \in {"read", "submit", "join", "replied"} => tail = 2 * cur
  /\ hpc \in {"write", "close", "submit"} => cur > 0
  /\ hpc = "write" => tail = 2 * cur - 2
  /\ hpc = "close" => tail = 2 * cur - 1 /\ pending # <<>>
  /\ ~Local => cur + wire = sent

(* Only the slots of writes have held user data.                           *)
SlotInv ==
  /\ Cap # 1 => \A s \in 0 .. Cap - 1 : s % 2 = 1 => data[s] = 0
  /\ \A r \in Requests : closeUd[r] = 0

(* The kernel has no request that is still to be prepared or submitted.    *)
StateInv ==
  /\ \A i \in 1 .. Len(pending) : pending[i].req <= cur /\ state[pending[i].req] = "none"
  /\ \A r \in Requests : r > cur => state[r] = "none"
  /\ hpc \in {"write", "close", "submit"} => state[cur] = "none"

(* The requests whose write has ended, and those whose close has.          *)
Written == {r \in Requests : state[r] \in {"written", "failed", "closed", "leaked"}}
Closed  == {r \in Requests : state[r] \in {"closed", "leaked"}}

(* The buffer of an ended write is in one completion or freed.             *)
FreeInv ==
  /\ \A r \in Requests : freed[r] \in {0, 1} /\ (freed[r] = 1 => r \in Written)
  /\ \A i \in 1 .. Len(cq) : cq[i] # 0 => cq[i] \in Written /\ freed[cq[i]] = 0
  /\ \A i, j \in 1 .. Len(cq) : cq[i] = cq[j] /\ cq[i] # 0 => i = j
  /\ ~Local => \A r \in Written : freed[r] = 1 \/ \E i \in 1 .. Len(cq) : cq[i] = r

(* There is a completion for every write and every close that has ended.   *)
CountInv ==
  /\ seen + Len(cq) = Cardinality(Written) + Cardinality(Closed)
  /\ hpc = "replied" => seen = 2 * N \/ gaveUp

SmallInv == TypeOK /\ Phase /\ SlotInv /\ StateInv /\ FreeInv /\ CountInv

-----------------------------------------------------------------------------
(* What taking the oldest completion leaves.                               *)
LEMMA TailFacts ==
  ASSUME NEW S, NEW s \in Seq(S), s # <<>>
  PROVE  /\ Len(s) \in Nat /\ Len(s) > 0
         /\ Head(s) \in S /\ Head(s) = s[1]
         /\ Tail(s) \in Seq(S)
         /\ Len(Tail(s)) = Len(s) - 1
         /\ \A i \in 1 .. (Len(s) - 1) : Tail(s)[i] = s[i + 1]
OBVIOUS

(* What adding an element does.                                            *)
LEMMA AppendFacts ==
  ASSUME NEW S, NEW s \in Seq(S), NEW e \in S
  PROVE  /\ Append(s, e) \in Seq(S)
         /\ Len(s) \in Nat
         /\ Len(Append(s, e)) = Len(s) + 1
         /\ \A i \in 1 .. Len(s) : Append(s, e)[i] = s[i]
         /\ Append(s, e)[Len(s) + 1] = e
         /\ Append(s, e) # <<>>
OBVIOUS

(* The elements of a sequence, and the sequence without any.               *)
LEMMA SeqFacts ==
  ASSUME NEW S, NEW s \in Seq(S)
  PROVE  /\ \A i \in 1 .. Len(s) : s[i] \in S
         /\ Len(s) \in Nat
         /\ s = <<>> <=> Len(s) = 0
         /\ <<>> \in Seq(S)
OBVIOUS

(* Changing one value of a function keeps its type.                        *)
LEMMA ExceptType ==
  ASSUME NEW S, NEW T, NEW f \in [S -> T], NEW x, NEW v \in T
  PROVE  [f EXCEPT ![x] = v] \in [S -> T]
OBVIOUS

(* In a ring of more than one slot, a slot is odd when the tail is.        *)
LEMMA SlotParity ==
  ASSUME NEW t \in Nat
  PROVE  /\ Slot(t) \in 0 .. Cap - 1
         /\ Cap # 1 => Slot(t) % 2 = t % 2
<1>1. Cap \in Nat /\ Cap > 0 /\ (Cap # 1 => Cap % 2 = 0)
  BY SmallAssumption DEF SmallAssumption
<1>2. t % Cap \in 0 .. Cap - 1 /\ t \div Cap \in Int /\ t = Cap * (t \div Cap) + (t % Cap)
  BY <1>1
<1>3. ASSUME Cap # 1 PROVE (t % Cap) % 2 = t % 2
  <2>1. PICK k \in Int : Cap = 2 * k
    BY <1>1, <1>3
  <2>2. PICK m \in Int : m = k * (t \div Cap)
    BY <1>2, <2>1
  <2>3. t = 2 * m + (t % Cap)
    BY <1>2, <2>1, <2>2
  <2>4. PICK r \in 0 .. Cap - 1 : r = t % Cap
    BY <1>2
  <2>5. r \in Int /\ t = 2 * m + r
    BY <1>1, <2>3, <2>4
  <2>6. r % 2 = t % 2
    BY ONLY <2>2, <2>5
  <2> QED
    BY <2>4, <2>6
<1> QED
  BY <1>2, <1>3 DEF Slot

(* The number of files of the program that runs.                           *)
LEMMA CountType == program \in Programs => N \in Nat /\ N > 0
BY SmallAssumption DEF SmallAssumption, N

(* The ended requests are finitely many.                                   *)
LEMMA EndedFinite ==
  ASSUME TypeOK
  PROVE  /\ IsFiniteSet(Requests) /\ Cardinality(Requests) = N
         /\ IsFiniteSet(Written) /\ Cardinality(Written) \in 0 .. N
         /\ IsFiniteSet(Closed) /\ Cardinality(Closed) \in 0 .. N
<1>0. N \in Nat /\ N > 0
  BY CountType DEF TypeOK
<1>1. IsFiniteSet(Requests) /\ Cardinality(Requests) = N
  <2>1. IsFiniteSet(1 .. N) /\ Cardinality(1 .. N) = (IF 1 > N THEN 0 ELSE N - 1 + 1)
    BY <1>0, FS_Interval
  <2> QED
    BY <1>0, <2>1 DEF Requests
<1>2. Written \in SUBSET Requests /\ Closed \in SUBSET Requests
  BY DEF Written, Closed
<1>3. IsFiniteSet(Written) /\ Cardinality(Written) <= Cardinality(Requests)
  BY <1>1, <1>2, FS_Subset
<1>4. IsFiniteSet(Closed) /\ Cardinality(Closed) <= Cardinality(Requests)
  BY <1>1, <1>2, FS_Subset
<1>5. Cardinality(Written) \in Nat /\ Cardinality(Closed) \in Nat
  BY <1>3, <1>4, FS_CardinalityType
<1> QED
  BY <1>0, <1>1, <1>3, <1>4, <1>5

-----------------------------------------------------------------------------
(* A ring that has just been set up is empty.                              *)
LEMMA InitSmall == Init => SmallInv
<1> SUFFICES ASSUME Init PROVE SmallInv
  OBVIOUS
<1>0. N \in Nat /\ N > 0
  BY CountType DEF Init
<1>1. TypeOK
  <2>1. <<>> \in Seq(0 .. N) /\ <<>> \in Seq([op : {"write", "close"}, req : Requests])
    OBVIOUS
  <2>2. 0 \in 0 .. N /\ 0 \in 0 .. 2 * N /\ 0 \in Nat
    BY <1>0
  <2>3. /\ data \in [0 .. Cap - 1 -> 0 .. N] /\ closeUd \in [Requests -> 0 .. N]
        /\ freed \in [Requests -> Nat]
    BY <2>2 DEF Init
  <2> QED
    BY <2>1, <2>2, <2>3 DEF Init, TypeOK
<1>2. Phase
  BY DEF Init, Phase
<1>3. SlotInv
  BY DEF Init, SlotInv
<1>4. StateInv
  BY DEF Init, StateInv
<1>5. Written = {} /\ Closed = {}
  BY DEF Init, Written, Closed
<1>6. FreeInv
  BY <1>5 DEF Init, FreeInv
<1>7. CountInv
  BY <1>5, FS_EmptySet DEF Init, CountInv
<1> QED
  BY <1>1, <1>2, <1>3, <1>4, <1>6, <1>7 DEF SmallInv

(* The steps that leave the ring, the kernel and the completions alone.    *)
Quiet ==
  \/ ClientWrite \/ InitRing \/ CallFails \/ JoinAndReply \/ CqGivesUp
  \/ ~Local /\ (ReadRequest \/ StreamEnds)
  \/ Local /\ NextFile

(* They keep the invariant: a new request is one the kernel does not know. *)
LEMMA QuietStep == SmallInv /\ Quiet => SmallInv'
<1> SUFFICES ASSUME SmallInv, Quiet PROVE SmallInv'
  OBVIOUS
<1>0. N \in Nat /\ N > 0
  BY CountType DEF SmallInv, TypeOK
<1>t. /\ wire \in 0 .. N /\ sent \in 0 .. N /\ cur \in 0 .. N /\ tail \in 0 .. 2 * N
      /\ seen \in 0 .. 2 * N
  BY DEF SmallInv, TypeOK
<1>u. UNCHANGED <<program, tail, data, closeUd, pending, state, cq, seen, freed>>
  BY DEF Quiet, ClientWrite, InitRing, CallFails, ReadRequest, StreamEnds, NextFile,
         JoinAndReply, CqGivesUp, handlerVars
<1>l. Local' = Local /\ N' = N /\ Requests' = Requests
  BY <1>u DEF Local, N, Requests
<1>g. gaveUp' \in BOOLEAN /\ (gaveUp => gaveUp')
  BY DEF SmallInv, TypeOK, Quiet, ClientWrite, InitRing, CallFails, ReadRequest, StreamEnds,
         NextFile, JoinAndReply, CqGivesUp
<1>1. TypeOK'
  <2> DEFINE Steps == {"init", "read", "write", "close", "submit", "join", "replied", "error",
                       "crashed"}
  <2>0. hpc \in Steps
    BY DEF SmallInv, TypeOK
  <2>1. wire' \in 0 .. N /\ sent' \in 0 .. N /\ hpc' \in Steps
    <3>1. CASE ClientWrite
      <4>1. wire' = wire + 1 /\ sent' = sent + 1 /\ sent < N /\ hpc' = hpc
        BY <3>1 DEF ClientWrite, handlerVars
      <4>2. wire <= sent
        BY <1>t, <3>1 DEF SmallInv, Phase, ClientWrite
      <4> QED
        BY <1>0, <1>t, <2>0, <4>1, <4>2
    <3>2. CASE ReadRequest
      BY <3>2, <1>0, <1>t DEF ReadRequest
    <3>3. CASE InitRing \/ CallFails \/ JoinAndReply \/ StreamEnds \/ NextFile
      BY <3>3, <1>t DEF InitRing, CallFails, JoinAndReply, StreamEnds, NextFile
    <3>4. CASE CqGivesUp
      BY <3>4, <1>t, <2>0 DEF CqGivesUp, handlerVars
    <3> QED
      BY <3>1, <3>2, <3>3, <3>4 DEF Quiet
  <2>2. cur' \in 0 .. N
    BY <1>0, <1>t DEF SmallInv, Quiet, ClientWrite, InitRing, CallFails, ReadRequest,
       StreamEnds, NextFile, JoinAndReply, CqGivesUp, handlerVars, Phase
  <2> QED
    BY <1>u, <1>l, <1>g, <2>1, <2>2 DEF SmallInv, TypeOK
<1>2. Phase'
  BY <1>0, <1>t, <1>u, <1>l DEF SmallInv, Phase, Quiet, ClientWrite, InitRing, CallFails,
     ReadRequest, StreamEnds, NextFile, JoinAndReply, CqGivesUp, handlerVars
<1>3. SlotInv'
  BY <1>u, <1>l DEF SmallInv, SlotInv
<1>4. StateInv'
  <2>1. /\ cur' \in Nat /\ cur' >= cur
        /\ hpc' \in {"write", "close", "submit"} =>
             cur' = cur + 1 \/ (cur' = cur /\ hpc \in {"write", "close", "submit"})
    BY <1>0, <1>t DEF Quiet, ClientWrite, InitRing, CallFails, ReadRequest, StreamEnds,
       NextFile, JoinAndReply, CqGivesUp, handlerVars
  <2>2. cur' \in 0 .. N
    BY <1>1, <1>l DEF TypeOK
  <2>3. \A i \in 1 .. Len(pending) : pending[i].req \in Nat
    <3>1. pending \in Seq([op : {"write", "close"}, req : Requests])
      BY DEF SmallInv, TypeOK
    <3>2. \A i \in 1 .. Len(pending) : pending[i] \in [op : {"write", "close"}, req : Requests]
      BY ONLY <3>1, SeqFacts
    <3>3. \A i \in 1 .. Len(pending) : pending[i].req \in Requests
      BY ONLY <3>2
    <3> QED
      BY ONLY <3>3, <1>0 DEF Requests
  <2>4. \A i \in 1 .. Len(pending) :
          pending[i].req <= cur' /\ state[pending[i].req] = "none"
    BY <1>t, <2>1, <2>3 DEF SmallInv, StateInv
  <2>5. \A r \in Requests : r > cur' => state[r] = "none"
    BY <1>0, <1>t, <2>1 DEF SmallInv, StateInv, Requests
  <2>6. hpc' \in {"write", "close", "submit"} => state[cur'] = "none"
    <3>1. CASE cur' = cur + 1
      BY <1>0, <1>t, <2>2, <3>1 DEF SmallInv, StateInv, Requests
    <3>2. CASE cur' = cur /\ hpc \in {"write", "close", "submit"}
      BY <3>2 DEF SmallInv, StateInv
    <3> QED
      BY <2>1, <3>1, <3>2
  <2> QED
    BY <1>u, <1>l, <2>4, <2>5, <2>6 DEF StateInv
<1>5. Written' = Written /\ Closed' = Closed
  BY <1>u, <1>l DEF Written, Closed
<1>6. FreeInv'
  BY <1>u, <1>l, <1>5 DEF SmallInv, FreeInv
<1>7. CountInv'
  <2>1. hpc' = "replied" => hpc = "replied" \/ seen = 2 * N \/ gaveUp
    BY DEF Quiet, ClientWrite, InitRing, CallFails, ReadRequest, StreamEnds, NextFile,
           JoinAndReply, CqGivesUp, handlerVars
  <2> QED
    BY <1>u, <1>l, <1>g, <1>5, <2>1 DEF SmallInv, CountInv
<1> QED
  BY <1>1, <1>2, <1>3, <1>4, <1>6, <1>7 DEF SmallInv

(* Preparing a write uses an even slot.                                    *)
LEMMA WriteStep == SmallInv /\ (PrepareWrite \/ PrepareLocalWrite) => SmallInv'
<1> SUFFICES ASSUME SmallInv, PrepareWrite \/ PrepareLocalWrite PROVE SmallInv'
  OBVIOUS
<1>0. N \in Nat /\ N > 0
  BY CountType DEF SmallInv, TypeOK
<1>h. hpc = "write"
  BY DEF PrepareWrite, PrepareLocalWrite
<1>t. /\ cur \in 0 .. N /\ cur > 0 /\ tail = 2 * cur - 2 /\ tail \in Nat
      /\ hpc = "write" /\ hpc' = "close" /\ tail' = tail + 1
      /\ pending' = Append(pending, [op |-> "write", req |-> cur])
  <2>1. cur \in 0 .. N /\ tail \in 0 .. 2 * N
    BY DEF SmallInv, TypeOK
  <2>2. cur > 0 /\ tail = 2 * cur - 2
    BY <1>h DEF SmallInv, Phase
  <2>3. /\ hpc' = "close" /\ tail' = tail + 1
        /\ pending' = Append(pending, [op |-> "write", req |-> cur])
    BY DEF PrepareWrite, PrepareLocalWrite
  <2> QED
    BY <1>0, <1>h, <2>1, <2>2, <2>3
<1>u. UNCHANGED <<program, wire, sent, cur, closeUd, state, cq, seen, freed, gaveUp>>
  BY DEF PrepareWrite, PrepareLocalWrite
<1>l. Local' = Local /\ N' = N /\ Requests' = Requests
  BY <1>u DEF Local, N, Requests
<1>p. /\ [op |-> "write", req |-> cur] \in [op : {"write", "close"}, req : Requests]
      /\ pending \in Seq([op : {"write", "close"}, req : Requests])
  BY <1>0, <1>t DEF Requests, SmallInv, TypeOK
<1>q. /\ pending' \in Seq([op : {"write", "close"}, req : Requests])
      /\ pending' # <<>>
      /\ Len(pending) \in Nat /\ Len(pending') = Len(pending) + 1
      /\ \A i \in 1 .. Len(pending) : pending'[i] = pending[i]
      /\ pending'[Len(pending) + 1] = [op |-> "write", req |-> cur]
  BY <1>t, <1>p, AppendFacts
<1>s. data' = data \/ data' = [data EXCEPT ![Slot(tail)] = cur]
  BY DEF PrepareWrite, PrepareLocalWrite
<1>d. data \in [0 .. Cap - 1 -> 0 .. N]
  BY DEF SmallInv, TypeOK
<1>1. TypeOK'
  <2>1. data' \in [0 .. Cap - 1 -> 0 .. N]
    BY <1>s, <1>d, <1>t
  <2>2. tail' \in 0 .. 2 * N
    BY <1>0, <1>t
  <2> QED
    BY <1>t, <1>u, <1>l, <1>q, <2>1, <2>2 DEF SmallInv, TypeOK
<1>2. Phase'
  BY <1>0, <1>t, <1>u, <1>l, <1>q DEF SmallInv, Phase
<1>3. SlotInv'
  <2>1. tail % 2 = 0
    BY <1>t
  <2>2. Cap # 1 => Slot(tail) % 2 = 0
    BY <1>t, <2>1, SlotParity
  <2>3. Cap # 1 => \A s \in 0 .. Cap - 1 : s % 2 = 1 => data'[s] = 0
    <3> SUFFICES ASSUME Cap # 1, NEW s \in 0 .. Cap - 1, s % 2 = 1 PROVE data'[s] = 0
      OBVIOUS
    <3>1. s # Slot(tail)
      BY <2>2
    <3>2. data[s] = 0
      BY DEF SmallInv, SlotInv
    <3> QED
      BY <1>s, <1>d, <3>1, <3>2
  <2> QED
    BY <1>u, <1>l, <2>3 DEF SmallInv, SlotInv
<1>4. StateInv'
  <2>1. \A i \in 1 .. Len(pending') :
          pending'[i].req <= cur /\ state[pending'[i].req] = "none"
    <3> SUFFICES ASSUME NEW i \in 1 .. Len(pending')
                 PROVE  pending'[i].req <= cur /\ state[pending'[i].req] = "none"
      OBVIOUS
    <3>1. CASE i \in 1 .. Len(pending)
      BY <3>1, <1>q DEF SmallInv, StateInv
    <3>2. CASE i = Len(pending) + 1
      BY <3>2, <1>q, <1>t DEF SmallInv, StateInv
    <3> QED
      BY <3>1, <3>2, <1>q
  <2>2. state[cur] = "none" /\ \A r \in Requests : r > cur => state[r] = "none"
    BY <1>t DEF SmallInv, StateInv
  <2> QED
    BY <1>u, <1>l, <2>1, <2>2 DEF StateInv
<1>5. Written' = Written /\ Closed' = Closed
  BY <1>u, <1>l DEF Written, Closed
<1>6. FreeInv'
  BY <1>u, <1>l, <1>5 DEF SmallInv, FreeInv
<1>7. CountInv'
  BY <1>t, <1>u, <1>l, <1>5 DEF SmallInv, CountInv
<1> QED
  BY <1>1, <1>2, <1>3, <1>4, <1>6, <1>7 DEF SmallInv

(* Preparing a close uses an odd slot, which holds no user data.           *)
LEMMA CloseStep == SmallInv /\ PrepareClose => SmallInv'
<1> SUFFICES ASSUME SmallInv, PrepareClose PROVE SmallInv'
  OBVIOUS
<1>0. N \in Nat /\ N > 0
  BY CountType DEF SmallInv, TypeOK
<1>t. /\ cur \in 0 .. N /\ cur > 0 /\ tail = 2 * cur - 1 /\ tail \in Nat
      /\ hpc = "close" /\ hpc' = "submit" /\ tail' = tail + 1
      /\ pending # <<>> /\ Len(pending) < Cap
      /\ pending' = Append(pending, [op |-> "close", req |-> cur])
      /\ closeUd' = [closeUd EXCEPT ![cur] = data[Slot(tail)]]
  BY DEF SmallInv, TypeOK, Phase, PrepareClose, SlotFree
<1>u. UNCHANGED <<program, wire, sent, cur, data, state, cq, seen, freed, gaveUp>>
  BY DEF PrepareClose
<1>l. Local' = Local /\ N' = N /\ Requests' = Requests
  BY <1>u DEF Local, N, Requests
<1>p. /\ [op |-> "close", req |-> cur] \in [op : {"write", "close"}, req : Requests]
      /\ pending \in Seq([op : {"write", "close"}, req : Requests])
  BY <1>0, <1>t DEF Requests, SmallInv, TypeOK
<1>q. /\ pending' \in Seq([op : {"write", "close"}, req : Requests])
      /\ Len(pending) \in Nat /\ Len(pending') = Len(pending) + 1
      /\ \A i \in 1 .. Len(pending) : pending'[i] = pending[i]
      /\ pending'[Len(pending) + 1] = [op |-> "close", req |-> cur]
  BY <1>t, <1>p, AppendFacts
<1>c. Cap # 1
  BY <1>t, <1>p, TailFacts
<1>s. /\ Slot(tail) \in 0 .. Cap - 1
      /\ Slot(tail) % 2 = tail % 2
  BY <1>c, <1>t, SlotParity
<1>z. data[Slot(tail)] = 0
  <2>1. tail % 2 = 1
    BY <1>t
  <2> QED
    BY <1>c, <1>s, <2>1 DEF SmallInv, SlotInv
<1>e. closeUd \in [Requests -> 0 .. N]
  BY DEF SmallInv, TypeOK
<1>1. TypeOK'
  <2>1. closeUd' \in [Requests -> 0 .. N]
    <3>1. closeUd' = [closeUd EXCEPT ![cur] = 0]
      BY <1>t, <1>z
    <3>2. 0 \in 0 .. N
      BY <1>0
    <3> QED
      BY ONLY <3>1, <3>2, <1>e, ExceptType
  <2>2. tail' \in 0 .. 2 * N
    BY <1>0, <1>t
  <2> QED
    BY <1>t, <1>u, <1>l, <1>q, <2>1, <2>2 DEF SmallInv, TypeOK
<1>2. Phase'
  BY <1>0, <1>t, <1>u, <1>l DEF SmallInv, Phase
<1>3. SlotInv'
  <2>1. \A r \in Requests : closeUd'[r] = 0
    BY <1>e, <1>t, <1>z DEF SmallInv, SlotInv
  <2> QED
    BY <1>u, <1>l, <2>1 DEF SmallInv, SlotInv
<1>4. StateInv'
  <2>1. \A i \in 1 .. Len(pending') :
          pending'[i].req <= cur /\ state[pending'[i].req] = "none"
    <3> SUFFICES ASSUME NEW i \in 1 .. Len(pending')
                 PROVE  pending'[i].req <= cur /\ state[pending'[i].req] = "none"
      OBVIOUS
    <3>1. CASE i \in 1 .. Len(pending)
      BY <3>1, <1>q DEF SmallInv, StateInv
    <3>2. CASE i = Len(pending) + 1
      BY <3>2, <1>q, <1>t DEF SmallInv, StateInv
    <3> QED
      BY <3>1, <3>2, <1>q
  <2>2. state[cur] = "none" /\ \A r \in Requests : r > cur => state[r] = "none"
    BY <1>t DEF SmallInv, StateInv
  <2> QED
    BY <1>u, <1>l, <2>1, <2>2 DEF StateInv
<1>5. Written' = Written /\ Closed' = Closed
  BY <1>u, <1>l DEF Written, Closed
<1>6. FreeInv'
  BY <1>u, <1>l, <1>5 DEF SmallInv, FreeInv
<1>7. CountInv'
  BY <1>t, <1>u, <1>l, <1>5 DEF SmallInv, CountInv
<1> QED
  BY <1>1, <1>2, <1>3, <1>4, <1>6, <1>7 DEF SmallInv

(* A submission hands over requests that have not been handed over before. *)
LEMMA SubmitStep == SmallInv /\ Submit => SmallInv'
<1> SUFFICES ASSUME SmallInv, Submit PROVE SmallInv'
  OBVIOUS
<1>0. N \in Nat /\ N > 0
  BY CountType DEF SmallInv, TypeOK
<1>t. /\ cur \in 0 .. N /\ tail = 2 * cur /\ hpc = "submit" /\ hpc' = "read"
      /\ state \in [Requests -> {"none", "submitted", "written", "failed", "closed", "leaked"}]
      /\ pending \in Seq([op : {"write", "close"}, req : Requests])
  BY DEF SmallInv, TypeOK, Phase, Submit
<1>u. UNCHANGED <<program, wire, sent, cur, tail, data, closeUd, cq, seen, freed, gaveUp>>
  BY DEF Submit
<1>l. Local' = Local /\ N' = N /\ Requests' = Requests
  BY <1>u DEF Local, N, Requests
<1>s. \/ UNCHANGED <<pending, state>>
      \/ /\ pending' = <<>>
         /\ state' = [r \in Requests |-> IF \E i \in 1 .. Len(pending) : pending[i].req = r
                                         THEN "submitted" ELSE state[r]]
  BY DEF Submit
<1>r. \A r \in Requests :
        state'[r] = state[r] \/ (state[r] = "none" /\ state'[r] = "submitted" /\ r <= cur)
  <2> SUFFICES ASSUME NEW r \in Requests, state'[r] # state[r]
               PROVE  state[r] = "none" /\ state'[r] = "submitted" /\ r <= cur
    OBVIOUS
  <2>1. PICK i \in 1 .. Len(pending) : pending[i].req = r
    BY <1>s, <1>t
  <2>2. state'[r] = "submitted"
    BY <1>s, <1>t, <2>1
  <2> QED
    BY <2>1, <2>2 DEF SmallInv, StateInv
<1>1. TypeOK'
  <2>1. state' \in [Requests -> {"none", "submitted", "written", "failed", "closed", "leaked"}]
    <3>1. CASE UNCHANGED <<pending, state>>
      BY <1>t, <3>1
    <3>2. CASE state' = [r \in Requests |-> IF \E i \in 1 .. Len(pending) : pending[i].req = r
                                            THEN "submitted" ELSE state[r]]
      BY ONLY <1>t, <3>2
    <3> QED
      BY <1>s, <3>1, <3>2
  <2>2. pending' \in Seq([op : {"write", "close"}, req : Requests])
    <3>1. <<>> \in Seq([op : {"write", "close"}, req : Requests])
      OBVIOUS
    <3>2. pending' = pending \/ pending' = <<>>
      BY <1>s
    <3> QED
      BY <3>1, <3>2, <1>t
  <2> QED
    BY <1>t, <1>u, <1>l, <2>1, <2>2 DEF SmallInv, TypeOK
<1>2. Phase'
  BY <1>t, <1>u, <1>l DEF SmallInv, Phase
<1>3. SlotInv'
  BY <1>u, <1>l DEF SmallInv, SlotInv
<1>4. StateInv'
  <2>1. \A i \in 1 .. Len(pending') :
          pending'[i].req <= cur /\ state'[pending'[i].req] = "none"
    <3>1. CASE UNCHANGED <<pending, state>>
      BY <3>1 DEF SmallInv, StateInv
    <3>2. CASE pending' = <<>>
      BY <3>2
    <3> QED
      BY <1>s, <3>1, <3>2
  <2>2. \A r \in Requests : r > cur => state'[r] = "none"
    <3> SUFFICES ASSUME NEW r \in Requests, r > cur PROVE state'[r] = "none"
      OBVIOUS
    <3>1. ~(r <= cur)
      BY <1>0, <1>t DEF Requests
    <3> QED
      BY <1>r, <3>1 DEF SmallInv, StateInv
  <2>3. hpc' \notin {"write", "close", "submit"}
    BY <1>t
  <2> QED
    BY <1>u, <1>l, <2>1, <2>2, <2>3 DEF StateInv
<1>5. Written' = Written /\ Closed' = Closed
  BY <1>r, <1>l DEF Written, Closed
<1>6. FreeInv'
  BY <1>u, <1>l, <1>5 DEF SmallInv, FreeInv
<1>7. CountInv'
  BY <1>t, <1>u, <1>l, <1>5 DEF SmallInv, CountInv
<1> QED
  BY <1>1, <1>2, <1>3, <1>4, <1>6, <1>7 DEF SmallInv

(* The completion thread frees the buffer of an ended write, once.         *)
LEMMA CqStep == SmallInv /\ CqThread => SmallInv'
<1> SUFFICES ASSUME SmallInv, CqThread PROVE SmallInv'
  OBVIOUS
<1>0. N \in Nat /\ N > 0
  BY CountType DEF SmallInv, TypeOK
<1>t. /\ seen \in Nat /\ seen < 2 * N /\ seen' = seen + 1
      /\ cq # <<>> /\ cq \in Seq(0 .. N) /\ cq' = Tail(cq)
      /\ freed \in [Requests -> Nat]
      /\ freed' = [r \in Requests |-> IF r = Head(cq) THEN freed[r] + 1 ELSE freed[r]]
  BY <1>0 DEF SmallInv, TypeOK, CqThread
<1>u. UNCHANGED <<wire, sent, program, hpc, cur, tail, data, closeUd, pending, state, gaveUp>>
  BY DEF CqThread, handlerVars
<1>l. Local' = Local /\ N' = N /\ Requests' = Requests
  BY <1>u DEF Local, N, Requests
<1>q. /\ Len(cq) \in Nat /\ Len(cq) > 0
      /\ Head(cq) \in 0 .. N /\ Head(cq) = cq[1]
      /\ cq' \in Seq(0 .. N)
      /\ Len(cq') = Len(cq) - 1
      /\ \A i \in 1 .. (Len(cq) - 1) : cq'[i] = cq[i + 1]
  BY <1>t, TailFacts
<1>f. \A r \in Requests : freed'[r] = IF r = cq[1] THEN freed[r] + 1 ELSE freed[r]
  BY <1>t, <1>q
<1>i. \A i \in 1 .. Len(cq') : i + 1 \in 1 .. Len(cq) /\ cq'[i] = cq[i + 1] /\ i + 1 # 1
  BY <1>q
<1>1. TypeOK'
  <2>1. freed' \in [Requests -> Nat]
    BY ONLY <1>t
  <2>2. seen' \in 0 .. 2 * N
    BY <1>0, <1>t
  <2> QED
    BY <1>q, <1>u, <1>l, <2>1, <2>2 DEF SmallInv, TypeOK
<1>2. Phase'
  BY <1>u, <1>l DEF SmallInv, Phase
<1>3. SlotInv'
  BY <1>u, <1>l DEF SmallInv, SlotInv
<1>4. StateInv'
  BY <1>u, <1>l DEF SmallInv, StateInv
<1>5. Written' = Written /\ Closed' = Closed
  BY <1>u, <1>l DEF Written, Closed
<1>6. FreeInv'
  <2>0. /\ \A r \in Requests : freed[r] \in {0, 1} /\ (freed[r] = 1 => r \in Written)
        /\ \A i \in 1 .. Len(cq) : cq[i] # 0 => cq[i] \in Written /\ freed[cq[i]] = 0
        /\ \A i, j \in 1 .. Len(cq) : cq[i] = cq[j] /\ cq[i] # 0 => i = j
        /\ ~Local => \A r \in Written : freed[r] = 1 \/ \E i \in 1 .. Len(cq) : cq[i] = r
    BY DEF SmallInv, FreeInv
  <2>z. 1 \in 1 .. Len(cq) /\ 0 \notin Requests /\ Written \subseteq Requests
    BY <1>q DEF Requests, Written
  <2>1. \A r \in Requests : freed'[r] \in {0, 1} /\ (freed'[r] = 1 => r \in Written)
    <3> SUFFICES ASSUME NEW r \in Requests
                 PROVE  freed'[r] \in {0, 1} /\ (freed'[r] = 1 => r \in Written)
      OBVIOUS
    <3>1. CASE r = cq[1]
      <4>1. cq[1] # 0 /\ r \in Written /\ freed[r] = 0
        BY <2>0, <2>z, <3>1
      <4> QED
        BY <1>f, <3>1, <4>1
    <3>2. CASE r # cq[1]
      BY <1>f, <2>0, <3>2
    <3> QED
      BY <3>1, <3>2
  <2>2. \A i \in 1 .. Len(cq') : cq'[i] # 0 => cq'[i] \in Written /\ freed'[cq'[i]] = 0
    <3> SUFFICES ASSUME NEW i \in 1 .. Len(cq'), cq'[i] # 0
                 PROVE  cq'[i] \in Written /\ freed'[cq'[i]] = 0
      OBVIOUS
    <3>1. i + 1 \in 1 .. Len(cq) /\ cq'[i] = cq[i + 1] /\ i + 1 # 1
      BY <1>i
    <3>2. cq[i + 1] \in Written /\ freed[cq[i + 1]] = 0
      BY <2>0, <3>1
    <3>3. cq[i + 1] # cq[1]
      BY <2>0, <2>z, <3>1
    <3> QED
      BY <1>f, <2>z, <3>1, <3>2, <3>3
  <2>3. \A i, j \in 1 .. Len(cq') : cq'[i] = cq'[j] /\ cq'[i] # 0 => i = j
    <3> SUFFICES ASSUME NEW i \in 1 .. Len(cq'), NEW j \in 1 .. Len(cq'),
                        cq'[i] = cq'[j], cq'[i] # 0
                 PROVE  i = j
      OBVIOUS
    <3>1. /\ i + 1 \in 1 .. Len(cq) /\ cq'[i] = cq[i + 1]
          /\ j + 1 \in 1 .. Len(cq) /\ cq'[j] = cq[j + 1]
      BY <1>i
    <3>2. cq[i + 1] = cq[j + 1] /\ cq[i + 1] # 0
      BY <3>1
    <3>3. i + 1 = j + 1
      BY <2>0, <3>1, <3>2
    <3> QED
      BY <3>3, <1>q
  <2>4. ~Local => \A r \in Written : freed'[r] = 1 \/ \E i \in 1 .. Len(cq') : cq'[i] = r
    <3> SUFFICES ASSUME ~Local, NEW r \in Written
                 PROVE  freed'[r] = 1 \/ \E i \in 1 .. Len(cq') : cq'[i] = r
      OBVIOUS
    <3>0. r \in Requests
      BY <2>z
    <3>1. CASE r = cq[1]
      <4>1. r # 0
        BY <3>0, <2>z
      <4>2. freed[r] = 0
        BY <2>0, <2>z, <3>1, <4>1
      <4> QED
        BY <1>f, <3>0, <3>1, <4>2
    <3>2. CASE r # cq[1] /\ freed[r] = 1
      BY <1>f, <3>0, <3>2
    <3>3. CASE r # cq[1] /\ freed[r] # 1
      <4>1. PICK k \in 1 .. Len(cq) : cq[k] = r
        BY <2>0, <3>3
      <4>2. k - 1 \in 1 .. Len(cq') /\ (k - 1) + 1 = k
        BY <4>1, <3>3, <1>q
      <4>3. cq'[k - 1] = r
        BY <1>i, <4>1, <4>2
      <4> QED
        BY <4>2, <4>3
    <3> QED
      BY <3>1, <3>2, <3>3
  <2> QED
    BY <2>1, <2>2, <2>3, <2>4, <1>5, <1>l DEF FreeInv
<1>7. CountInv'
  <2>1. hpc # "replied"
    BY <1>t DEF SmallInv, CountInv, CqThread
  <2>2. seen' + Len(cq') = seen + Len(cq)
    BY <1>t, <1>q
  <2> QED
    BY <1>u, <1>l, <1>5, <2>1, <2>2 DEF SmallInv, CountInv
<1> QED
  BY <1>1, <1>2, <1>3, <1>4, <1>6, <1>7 DEF SmallInv

(* A write that ends puts its buffer into one completion.                  *)
LEMMA WriteEndsStep ==
  ASSUME NEW q \in Requests, SmallInv, WriteEnds(q)
  PROVE  SmallInv'
<1>0. N \in Nat /\ N > 0
  BY CountType DEF SmallInv, TypeOK
<1> DEFINE States == {"none", "submitted", "written", "failed", "closed", "leaked"}
           ud == IF Local THEN 0 ELSE q
<1>t. /\ state \in [Requests -> States] /\ cq \in Seq(0 .. N)
      /\ cur \in 0 .. N
      /\ q # 0 /\ q \in Nat /\ ud \in 0 .. N
  BY <1>0 DEF SmallInv, TypeOK, Requests
<1>s. PICK how \in {"written", "failed"} : state' = [state EXCEPT ![q] = how]
  BY DEF WriteEnds
<1>a. state[q] = "submitted" /\ cq' = Append(cq, ud)
  BY DEF WriteEnds
<1>u. UNCHANGED <<wire, sent, program, hpc, cur, tail, data, closeUd, pending, seen, freed, gaveUp>>
  BY DEF WriteEnds, handlerVars
<1>l. Local' = Local /\ N' = N /\ Requests' = Requests
  BY <1>u DEF Local, N, Requests
<1>q. /\ Len(cq) \in Nat /\ cq' \in Seq(0 .. N) /\ Len(cq') = Len(cq) + 1
      /\ \A i \in 1 .. Len(cq) : cq'[i] = cq[i]
      /\ cq'[Len(cq) + 1] = ud
  BY <1>t, <1>a, AppendFacts
<1>r. /\ state'[q] \in {"written", "failed"}
      /\ \A r \in Requests : r # q => state'[r] = state[r]
  BY <1>s, <1>t
<1>1. TypeOK'
  <2>1. state' \in [Requests -> States]
    BY <1>s, <1>t
  <2> QED
    BY <1>u, <1>l, <1>q, <2>1 DEF SmallInv, TypeOK
<1>2. Phase'
  BY <1>u, <1>l DEF SmallInv, Phase
<1>3. SlotInv'
  BY <1>u, <1>l DEF SmallInv, SlotInv
<1>4. StateInv'
  <2>1. \A r \in Requests : state[r] = "none" => state'[r] = "none"
    BY <1>a, <1>r
  <2>2. \A i \in 1 .. Len(pending) : pending[i].req \in Requests
    <3>1. pending \in Seq([op : {"write", "close"}, req : Requests])
      BY DEF SmallInv, TypeOK
    <3>2. \A i \in 1 .. Len(pending) : pending[i] \in [op : {"write", "close"}, req : Requests]
      BY ONLY <3>1, SeqFacts
    <3> QED
      BY ONLY <3>2
  <2>3. hpc \in {"write", "close", "submit"} => cur \in Requests
    BY <1>0, <1>t DEF SmallInv, Phase, Requests
  <2> QED
    BY <1>u, <1>l, <2>1, <2>2, <2>3 DEF SmallInv, StateInv
<1>5. Written' = Written \cup {q} /\ q \notin Written /\ Closed' = Closed
  <2>1. q \notin Written /\ q \notin Closed
    BY <1>a DEF Written, Closed
  <2>2. Closed' = Closed
    BY <1>l, <1>r, <2>1 DEF Closed
  <2>3. Written' = Written \cup {q}
    BY <1>l, <1>r, <2>1 DEF Written
  <2> QED
    BY <2>1, <2>2, <2>3
<1>6. FreeInv'
  <2>0. /\ \A r \in Requests : freed[r] \in {0, 1} /\ (freed[r] = 1 => r \in Written)
        /\ \A i \in 1 .. Len(cq) : cq[i] # 0 => cq[i] \in Written /\ freed[cq[i]] = 0
        /\ \A i, j \in 1 .. Len(cq) : cq[i] = cq[j] /\ cq[i] # 0 => i = j
        /\ ~Local => \A r \in Written : freed[r] = 1 \/ \E i \in 1 .. Len(cq) : cq[i] = r
    BY DEF SmallInv, FreeInv
  <2>i. \A i \in 1 .. Len(cq') : \/ i \in 1 .. Len(cq) /\ cq'[i] = cq[i]
                                 \/ i = Len(cq) + 1 /\ cq'[i] = ud
    BY <1>q
  <2>n. \A i \in 1 .. Len(cq) : cq[i] # q
    BY <2>0, <1>5, <1>t
  <2>1. \A r \in Requests : freed[r] \in {0, 1} /\ (freed[r] = 1 => r \in Written')
    BY <2>0, <1>5
  <2>2. \A i \in 1 .. Len(cq') : cq'[i] # 0 => cq'[i] \in Written' /\ freed[cq'[i]] = 0
    <3> SUFFICES ASSUME NEW i \in 1 .. Len(cq'), cq'[i] # 0
                 PROVE  cq'[i] \in Written' /\ freed[cq'[i]] = 0
      OBVIOUS
    <3>1. freed[q] = 0
      BY <2>0, <1>5
    <3>2. CASE i \in 1 .. Len(cq) /\ cq'[i] = cq[i]
      BY <2>0, <3>2, <1>5
    <3>3. CASE i = Len(cq) + 1 /\ cq'[i] = ud
      BY <3>1, <3>3, <1>5
    <3> QED
      BY <2>i, <3>2, <3>3
  <2>3. \A i, j \in 1 .. Len(cq') : cq'[i] = cq'[j] /\ cq'[i] # 0 => i = j
    <3> SUFFICES ASSUME NEW i \in 1 .. Len(cq'), NEW j \in 1 .. Len(cq'),
                        cq'[i] = cq'[j], cq'[i] # 0
                 PROVE  i = j
      OBVIOUS
    <3> HIDE DEF ud
    <3>1. ud = 0 \/ ud = q
      BY DEF ud
    <3> QED
      BY <2>0, <2>i, <2>n, <3>1
  <2>4. ~Local => \A r \in Written' : freed[r] = 1 \/ \E i \in 1 .. Len(cq') : cq'[i] = r
    <3> SUFFICES ASSUME ~Local, NEW r \in Written'
                 PROVE  freed[r] = 1 \/ \E i \in 1 .. Len(cq') : cq'[i] = r
      OBVIOUS
    <3>1. CASE r = q
      <4>1. Len(cq) + 1 \in 1 .. Len(cq') /\ cq'[Len(cq) + 1] = r
        BY <1>q, <3>1
      <4> QED
        BY <4>1
    <3>2. CASE r \in Written /\ freed[r] # 1
      <4>1. PICK k \in 1 .. Len(cq) : cq[k] = r
        BY <2>0, <3>2
      <4>2. k \in 1 .. Len(cq') /\ cq'[k] = r
        BY <4>1, <1>q
      <4> QED
        BY <4>2
    <3> QED
      BY <3>1, <3>2, <1>5
  <2> QED
    BY <2>1, <2>2, <2>3, <2>4, <1>l, <1>u DEF FreeInv
<1>7. CountInv'
  <2>1. Cardinality(Written') = Cardinality(Written) + 1
    BY <1>5, EndedFinite, FS_AddElement DEF SmallInv
  <2>2. Cardinality(Written) \in Nat /\ Cardinality(Closed) \in Nat
    BY EndedFinite DEF SmallInv
  <2>3. seen + Len(cq) = Cardinality(Written) + Cardinality(Closed) /\ seen \in Nat
    BY DEF SmallInv, CountInv, TypeOK
  <2>l. Len(cq') = Len(cq) + 1 /\ Len(cq) \in Nat
    BY <1>q
  <2>4. seen + Len(cq') = Cardinality(Written') + Cardinality(Closed)
    BY ONLY <2>1, <2>2, <2>3, <2>l
  <2> QED
    BY <1>u, <1>l, <1>5, <2>4 DEF SmallInv, CountInv
<1> QED
  BY <1>1, <1>2, <1>3, <1>4, <1>6, <1>7 DEF SmallInv

(* A close that ends carries no buffer.                                    *)
LEMMA CloseEndsStep ==
  ASSUME NEW q \in Requests, SmallInv, CloseEnds(q)
  PROVE  SmallInv'
<1>0. N \in Nat /\ N > 0
  BY CountType DEF SmallInv, TypeOK
<1> DEFINE States == {"none", "submitted", "written", "failed", "closed", "leaked"}
<1>t. /\ state \in [Requests -> States] /\ cq \in Seq(0 .. N)
      /\ cur \in 0 .. N /\ 0 \in 0 .. N
  BY <1>0 DEF SmallInv, TypeOK, Requests
<1>s. state[q] \in {"written", "failed"}
  BY DEF CloseEnds, Linked
<1>a. cq' = Append(cq, 0)
  BY DEF CloseEnds, SmallInv, SlotInv
<1>u. UNCHANGED <<wire, sent, program, hpc, cur, tail, data, closeUd, pending, seen, freed, gaveUp>>
  BY DEF CloseEnds, handlerVars
<1>l. Local' = Local /\ N' = N /\ Requests' = Requests
  BY <1>u DEF Local, N, Requests
<1>q. /\ Len(cq) \in Nat /\ cq' \in Seq(0 .. N) /\ Len(cq') = Len(cq) + 1
      /\ \A i \in 1 .. Len(cq) : cq'[i] = cq[i]
      /\ cq'[Len(cq) + 1] = 0
  BY <1>t, <1>a, AppendFacts
<1>r. /\ state' \in [Requests -> States]
      /\ state'[q] \in {"closed", "leaked"}
      /\ \A r \in Requests : r # q => state'[r] = state[r]
  BY <1>s, <1>t DEF CloseEnds
<1>1. TypeOK'
  BY <1>u, <1>l, <1>q, <1>r DEF SmallInv, TypeOK
<1>2. Phase'
  BY <1>u, <1>l DEF SmallInv, Phase
<1>3. SlotInv'
  BY <1>u, <1>l DEF SmallInv, SlotInv
<1>4. StateInv'
  <2>1. \A r \in Requests : state[r] = "none" => state'[r] = "none"
    BY <1>s, <1>r
  <2>2. \A i \in 1 .. Len(pending) : pending[i].req \in Requests
    <3>1. pending \in Seq([op : {"write", "close"}, req : Requests])
      BY DEF SmallInv, TypeOK
    <3>2. \A i \in 1 .. Len(pending) : pending[i] \in [op : {"write", "close"}, req : Requests]
      BY ONLY <3>1, SeqFacts
    <3> QED
      BY ONLY <3>2
  <2>3. hpc \in {"write", "close", "submit"} => cur \in Requests
    BY <1>0, <1>t DEF SmallInv, Phase, Requests
  <2> QED
    BY <1>u, <1>l, <2>1, <2>2, <2>3 DEF SmallInv, StateInv
<1>5. Closed' = Closed \cup {q} /\ q \notin Closed /\ Written' = Written
  <2>1. q \in Written /\ q \notin Closed
    BY <1>s DEF Written, Closed
  <2>2. Written' = Written
    BY <1>l, <1>r, <2>1 DEF Written
  <2>3. Closed' = Closed \cup {q}
    BY <1>l, <1>r, <2>1 DEF Closed
  <2> QED
    BY <2>1, <2>2, <2>3
<1>6. FreeInv'
  <2>0. /\ \A r \in Requests : freed[r] \in {0, 1} /\ (freed[r] = 1 => r \in Written)
        /\ \A i \in 1 .. Len(cq) : cq[i] # 0 => cq[i] \in Written /\ freed[cq[i]] = 0
        /\ \A i, j \in 1 .. Len(cq) : cq[i] = cq[j] /\ cq[i] # 0 => i = j
        /\ ~Local => \A r \in Written : freed[r] = 1 \/ \E i \in 1 .. Len(cq) : cq[i] = r
    BY DEF SmallInv, FreeInv
  <2>i. \A i \in 1 .. Len(cq') : cq'[i] # 0 => i \in 1 .. Len(cq) /\ cq'[i] = cq[i]
    BY <1>q
  <2>j. \A i \in 1 .. Len(cq) : i \in 1 .. Len(cq') /\ cq'[i] = cq[i]
    BY <1>q
  <2>2. \A i \in 1 .. Len(cq') : cq'[i] # 0 => cq'[i] \in Written /\ freed[cq'[i]] = 0
    BY <2>0, <2>i
  <2>3. \A i, j \in 1 .. Len(cq') : cq'[i] = cq'[j] /\ cq'[i] # 0 => i = j
    BY <2>0, <2>i
  <2>4. ~Local => \A r \in Written : freed[r] = 1 \/ \E i \in 1 .. Len(cq') : cq'[i] = r
    BY <2>0, <2>j
  <2> QED
    BY <2>0, <2>2, <2>3, <2>4, <1>l, <1>u, <1>5 DEF FreeInv
<1>7. CountInv'
  <2>1. Cardinality(Closed') = Cardinality(Closed) + 1
    BY <1>5, EndedFinite, FS_AddElement DEF SmallInv
  <2>2. Cardinality(Written) \in Nat /\ Cardinality(Closed) \in Nat
    BY EndedFinite DEF SmallInv
  <2>3. seen + Len(cq) = Cardinality(Written) + Cardinality(Closed) /\ seen \in Nat
    BY DEF SmallInv, CountInv, TypeOK
  <2>l. Len(cq') = Len(cq) + 1 /\ Len(cq) \in Nat
    BY <1>q
  <2>4. seen + Len(cq') = Cardinality(Written) + Cardinality(Closed')
    BY ONLY <2>1, <2>2, <2>3, <2>l
  <2> QED
    BY <1>u, <1>l, <1>5, <2>4 DEF SmallInv, CountInv
<1> QED
  BY <1>1, <1>2, <1>3, <1>4, <1>6, <1>7 DEF SmallInv

(* Every step keeps the invariant.                                         *)
LEMMA NextSmall == SmallInv /\ [Next]_vars => SmallInv'
<1> SUFFICES ASSUME SmallInv, [Next]_vars PROVE SmallInv'
  OBVIOUS
<1>1. CASE Quiet
  BY <1>1, QuietStep
<1>2. CASE PrepareWrite \/ PrepareLocalWrite
  BY <1>2, WriteStep
<1>3. CASE PrepareClose
  BY <1>3, CloseStep
<1>4. CASE Submit
  BY <1>4, SubmitStep
<1>5. CASE CqThread
  BY <1>5, CqStep
<1>6. CASE Kernel
  BY <1>6, WriteEndsStep, CloseEndsStep DEF Kernel
<1>7. CASE UNCHANGED vars
  BY <1>7 DEF vars, handlerVars, SmallInv, TypeOK, Phase, SlotInv, StateInv, FreeInv, CountInv,
     Written, Closed, Local, N, Requests
<1> QED
  BY <1>1, <1>2, <1>3, <1>4, <1>5, <1>6, <1>7 DEF Next, Handler, LocalTest, Quiet

(* The invariant always holds.                                             *)
LEMMA SmallAlways == Spec => []SmallInv
BY InitSmall, NextSmall, PTL DEF Spec

-----------------------------------------------------------------------------
(* The variables of AppendManySmallFilesAsync and of test_small_io_uring   *)
(* keep their types: no more requests, ring entries and completions than   *)
(* there are files.                                                        *)
THEOREM SmallTypeCorrect == Spec => []TypeOK
<1>1. SmallInv => TypeOK
  BY DEF SmallInv
<1> QED
  BY <1>1, SmallAlways, PTL

(* The completion thread frees no buffer before its write has ended, and   *)
(* none twice, although io_uring_prep_close leaves the user data of its    *)
(* slot as it was: for every number of files and every queue depth.        *)
THEOREM BuffersFreedSafely == Spec => []FreedSafely
<1>1. SmallInv => FreedSafely
  <2> SUFFICES ASSUME SmallInv, NEW r \in Requests
               PROVE  freed[r] <= 1 /\ (freed[r] > 0 => state[r] \notin {"none", "submitted"})
    BY DEF FreedSafely
  <2>1. freed[r] \in {0, 1} /\ (freed[r] = 1 => r \in Written)
    BY DEF SmallInv, FreeInv
  <2> QED
    BY <2>1 DEF Written
<1> QED
  BY <1>1, SmallAlways, PTL

(* When the reply is sent, or the total printed, every file has ended and  *)
(* every buffer of the service is free, unless io_uring_wait_cqe failed:   *)
(* the two completions of each file are all that 2 * N can be made of.     *)
THEOREM ReplyAfterEnd == Spec => []ReplyMeansEnded
<1>1. SmallInv => ReplyMeansEnded
  <2> SUFFICES ASSUME SmallInv, hpc = "replied", ~gaveUp
               PROVE  \A r \in Requests : /\ state[r] \in {"closed", "leaked"}
                                          /\ ~Local => freed[r] = 1
    BY DEF ReplyMeansEnded
  <2>1. seen = 2 * N /\ seen + Len(cq) = Cardinality(Written) + Cardinality(Closed)
    BY DEF SmallInv, CountInv
  <2>2. cq \in Seq(0 .. N)
    BY DEF SmallInv, TypeOK
  <2>3. Len(cq) \in Nat
    BY <2>2
  <2>4. N \in Nat
    BY CountType DEF SmallInv, TypeOK
  <2>5. Cardinality(Written) = N /\ Cardinality(Closed) = N /\ Len(cq) = 0
    BY <2>1, <2>3, <2>4, EndedFinite DEF SmallInv
  <2>6. Written \in SUBSET Requests /\ Closed \in SUBSET Requests
    BY DEF Written, Closed
  <2>7. Written = Requests /\ Closed = Requests
    BY <2>5, <2>6, EndedFinite, FS_Subset DEF SmallInv
  <2>8. \A r \in Requests : state[r] \in {"closed", "leaked"}
    BY <2>7 DEF Closed
  <2>9. ~Local => \A r \in Requests : freed[r] = 1
    BY <2>5, <2>7 DEF SmallInv, FreeInv
  <2> QED
    BY <2>8, <2>9
<1> QED
  BY <1>1, SmallAlways, PTL

=============================================================================
