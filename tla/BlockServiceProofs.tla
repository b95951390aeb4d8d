------------------------- MODULE BlockServiceProofs -------------------------
(***************************************************************************)
(* Proofs about the synchronous block service, for every block size, every *)
(* set of requests and any number of clients: a call that is alone in its  *)
(* operation keeps its arguments and its buffer, so it writes exactly the  *)
(* blocks of its request, frees its buffer and damages no memory.          *)
(*                                                                         *)
(* BlockInv is inductive.  Apart: the calls have numbers of their own, and *)
(* no call's buffer is reached from the other operation's arguments.       *)
(* OwnInv: the steps that a lone call has made are still in the arguments, *)
(* in its buffer and on the disk.  OtherCalls is the heart of the proof:   *)
(* what another call does disturbs none of this.                           *)
(***************************************************************************)
EXTENDS BlockService, TLAPS

Ops == {"read", "write"}
Running(c) == pc[c] # "idle"
Alone(c) == Running(c) /\ ~overlap[c]

(* No call before the service is up.                                       *)
StartInv == server = "start" => \A c \in Clients : ~Running(c)

(* Calls have different numbers, and buffers keep to their operation.      *)
Apart ==
  /\ \A c \in Clients : Running(c) => id[c] \in 1 .. calls
  /\ \A c, d \in Clients : Running(c) /\ Running(d) /\ c # d => id[c] # id[d]
  /\ \A op \in Ops : /\ args[op].data <= calls
                     /\ \A c \in Clients : Running(c) /\ Op[c] # op => args[op].data # id[c]
  /\ \A c \in Clients : pc[c] \in {"copy", "io", "delete"} => Args(c).data # None
  /\ \A b \in Buffers : heap[b].from <= calls
  /\ \A b \in DOMAIN disk : disk[b] <= calls
  /\ \A c, d \in Clients : Alone(c) /\ Running(d) /\ c # d => Op[c] # Op[d]

(* The steps after each assignment of a handler.                           *)
PastLen == {"new", "copy", "io", "delete", "return", "returned"}
PastNlb == {"len"} \cup PastLen
PastSlba == {"nlb"} \cup PastNlb

(* The arguments of a call are those of its own request.                   *)
ArgsOwn(c) ==
  /\ pc[c] \in PastSlba => Args(c).slba = req[c].start
  /\ pc[c] \in PastNlb => lbs # 0 /\ Args(c).nlb = Nlb(req[c].size)
  /\ pc[c] \in PastLen => len[c] = (Args(c).nlb + 1) * lbs /\ Args(c).len = len[c]

(* Its buffer is live from new to delete, and has the length it asked for. *)
BufferOwn(c) ==
  /\ pc[c] \in {"copy", "io", "delete"} =>
       Args(c).data = id[c] /\ heap[id[c]].live /\ heap[id[c]].size = len[c]
  /\ pc[c] \in {"return", "returned"} => ~heap[id[c]].live

(* Its data is in its buffer only, and on the disk only where it wrote it. *)
DataOwn(c) ==
  /\ \A b \in Buffers : heap[b].from = id[c] => b = id[c]
  /\ pc[c] = "io" => heap[id[c]].from = id[c]
  /\ Op[c] = "write" /\ pc[c] \in {"slba", "nlb", "len", "new", "copy", "io"} =>
       \A b \in DOMAIN disk : disk[b] # id[c]
  /\ Op[c] = "write" /\ pc[c] \in {"delete", "return", "returned"} /\ ~err[c] =>
       /\ Range(c) \subseteq DOMAIN disk
       /\ \A b \in DOMAIN disk : disk[b] = id[c] <=> b \in Range(c)
  /\ pc[c] = "returned" /\ ~err[c] => reply[c] = req[c].start + Args(c).nlb

OwnInv == \A c \in Clients : Alone(c) => ArgsOwn(c) /\ BufferOwn(c) /\ DataOwn(c)

BlockInv == TypeOK /\ StartInv /\ Apart /\ OwnInv

-----------------------------------------------------------------------------
(* The number of blocks.                                                   *)

(* Quotient and remainder.                                                 *)
LEMMA DivMod ==
  ASSUME NEW n \in Nat, NEW L \in Nat \ {0}
  PROVE  /\ n \div L \in Nat
         /\ n % L \in 0 .. (L - 1)
         /\ n = L * (n \div L) + (n % L)
         /\ n < L => n % L = n
OBVIOUS

(* Different multiples of L are at least L apart.                          *)
LEMMA MulApart ==
  ASSUME NEW L \in Nat, NEW p \in Nat, NEW q \in Nat, p < q
  PROVE  L * p + L <= L * q
<1>1. L * (q - p - 1) >= 0
  <2>1. q - p - 1 \in Nat
    OBVIOUS
  <2> QED
    BY <2>1
<1>2. L * (q - p - 1) = L * q - L * p - L
  OBVIOUS
<1> QED
  BY <1>1, <1>2

(* For a size that nlb can count, nlb is the number of the last block that *)
(* the size reaches into, whether the size is a multiple of the block or   *)
(* not.                                                                    *)
LEMMA NlbExact ==
  ASSUME NEW size \in 1 .. NlbMod * Lbs, lbs = Lbs
  PROVE  /\ Nlb(size) \in Nat
         /\ Lbs * Nlb(size) < size
         /\ size <= Lbs * Nlb(size) + Lbs
<1>0. Lbs \in Nat \ {0} /\ NlbMod \in Nat \ {0}
  BY BlockAssumption DEF BlockAssumption
<1>s. size \in Nat /\ size > 0 /\ size <= Lbs * NlbMod
  BY <1>0
<1> DEFINE q == size \div Lbs
           r == size % Lbs
           n == IF r # 0 THEN q ELSE q - 1
<1>1. q \in Nat /\ r \in 0 .. (Lbs - 1) /\ size = Lbs * q + r
  BY <1>0, <1>s, DivMod
<1>2. Nlb(size) = n % NlbMod
  BY DEF Nlb
<1> HIDE DEF q, r
<1>3. n \in Nat /\ Lbs * n < size /\ size <= Lbs * n + Lbs
  <2>1. CASE r # 0
    BY <1>0, <1>1, <2>1
  <2>2. CASE r = 0
    <3>1. q # 0
      BY <1>0, <1>s, <1>1, <2>2
    <3>2. Lbs * (q - 1) = Lbs * q - Lbs
      BY <1>0, <1>1
    <3> QED
      BY <1>0, <1>1, <2>2, <3>1, <3>2
  <2> QED
    BY <2>1, <2>2
<1> HIDE DEF n
<1>4. n < NlbMod
  <2> SUFFICES ASSUME n >= NlbMod PROVE FALSE
    BY <1>0, <1>3
  <2>1. CASE n = NlbMod
    BY <1>0, <1>s, <1>3, <2>1
  <2>2. CASE n > NlbMod
    <3>1. Lbs * NlbMod + Lbs <= Lbs * n
      BY <1>0, <1>3, <2>2, MulApart
    <3> QED
      BY <1>0, <1>s, <1>3, <3>1
  <2> QED
    BY <1>0, <1>3, <2>1, <2>2
<1>5. Nlb(size) = n
  BY <1>0, <1>2, <1>3, <1>4, DivMod
<1> QED
  BY <1>3, <1>5

(* The blocks of the command are the blocks that the bytes lie in.         *)
LEMMA CoverRange ==
  ASSUME NEW r \in [start : Nat, size : Nat, data : Nat],
         r.size \in 1 .. NlbMod * Lbs, lbs = Lbs
  PROVE  Cover(r) = r.start .. r.start + Nlb(r.size)
<1>0. Lbs \in Nat \ {0}
  BY BlockAssumption DEF BlockAssumption
<1> DEFINE s == r.start
           z == r.size
           n == Nlb(r.size)
<1>1. s \in Nat /\ z \in Nat
  OBVIOUS
<1>2. n \in Nat /\ Lbs * n < z /\ z <= Lbs * n + Lbs
  BY NlbExact
<1> HIDE DEF s, z, n
<1>3. ASSUME NEW b \in 0 .. s + z, (b - s) * Lbs \in 0 .. z - 1
      PROVE  b \in s .. s + n
  <2> DEFINE k == b - s
  <2>1. k \in Int /\ Lbs * k >= 0 /\ Lbs * k < z
    BY <1>0, <1>1, <1>3
  <2>2. k >= 0
    <3> SUFFICES ASSUME k < 0 PROVE FALSE
      BY <2>1
    <3>1. -k \in Nat /\ -k > 0
      BY <2>1
    <3>2. Lbs * 0 + Lbs <= Lbs * (-k)
      BY <1>0, <3>1, MulApart
    <3> QED
      BY <1>0, <2>1, <3>2
  <2>3. k <= n
    <3> SUFFICES ASSUME k > n PROVE FALSE
      BY <1>2, <2>1
    <3>1. Lbs * n + Lbs <= Lbs * k
      BY <1>0, <1>2, <2>1, <2>2, MulApart
    <3> QED
      BY <1>0, <1>1, <1>2, <2>1, <3>1
  <2> QED
    BY <1>1, <1>2, <1>3, <2>2, <2>3
<1>4. ASSUME NEW b \in s .. s + n
      PROVE  b \in 0 .. s + z /\ (b - s) * Lbs \in 0 .. z - 1
  <2> DEFINE k == b - s
  <2>1. k \in Nat /\ k <= n
    BY <1>1, <1>2, <1>4
  <2>2. Lbs * k <= Lbs * n /\ Lbs * k \in Nat /\ Lbs * n \in Nat
    <3>1. CASE k = n
      BY <1>0, <1>2, <2>1, <3>1
    <3>2. CASE k < n
      <4>1. Lbs * k + Lbs <= Lbs * n
        BY <1>0, <1>2, <2>1, <3>2, MulApart
      <4>2. Lbs * k \in Nat /\ Lbs * n \in Nat
        BY <1>0, <1>2, <2>1
      <4> QED
        BY <1>0, <4>1, <4>2
    <3> QED
      BY <1>2, <2>1, <3>1, <3>2
  <2>3. (b - s) * Lbs \in 0 .. z - 1
    BY <1>0, <1>1, <1>2, <2>1, <2>2
  <2>4. n <= Lbs * n
    <3>1. CASE n = 0
      BY <3>1, <1>0
    <3>2. CASE n # 0
      <4>1. n * (Lbs - 1) >= 0
        <5>1. Lbs - 1 \in Nat
          BY <1>0
        <5> QED
          BY <5>1, <1>2
      <4> QED
        BY <4>1, <1>0, <1>2
    <3> QED
      BY <3>1, <3>2
  <2>5. n < z
    <3>1. n \in Int /\ z \in Int /\ Lbs * n \in Int /\ n <= Lbs * n /\ Lbs * n < z
      BY <1>0, <1>1, <1>2, <2>4
    <3> QED
      BY ONLY <3>1
  <2>6. b \in 0 .. s + z
    <3>1. s \in Nat /\ z \in Nat /\ n \in Nat /\ b \in s .. s + n
      BY <1>1, <1>2
    <3> QED
      BY ONLY <2>5, <3>1
  <2> QED
    BY <2>3, <2>6
<1>5. Cover(r) = {b \in 0 .. s + z : (b - s) * Lbs \in 0 .. z - 1}
  BY DEF Cover, s, z
<1>6. Cover(r) = s .. s + n
  BY <1>3, <1>4, <1>5, <1>1, <1>2
<1> QED
  BY <1>6 DEF s, n

-----------------------------------------------------------------------------
(* What one call leaves to the others.                                     *)

(* A step of client d changes nothing of another client's call, only the   *)
(* arguments of d's operation, only buffers that d allocated or finds in   *)
(* these arguments, and the disk only as a write.                          *)
Touches(d) ==
  /\ lbs' = lbs
  /\ \A c \in Clients \ {d} :
       /\ pc'[c] = pc[c] /\ req'[c] = req[c] /\ id'[c] = id[c] /\ len'[c] = len[c]
       /\ err'[c] = err[c] /\ reply'[c] = reply[c]
       /\ ~overlap'[c] => ~overlap[c]
       /\ Alone(c)' => Op[c] # Op[d]
  /\ \A op \in Ops : op # Op[d] => args'[op] = args[op]
  /\ heap' # heap => Running(d)
  /\ \A b \in Buffers :
       \/ heap'[b] = heap[b]
       \/ b \in {id[d], args[Op[d]].data} /\ heap'[b].from \in {None, id[d]}
  /\ disk' = disk \/ (Op[d] = "write" /\ DOMAIN disk' = DOMAIN disk)

(* A call that is alone keeps what it has, whatever another call does.     *)
LEMMA OtherCalls ==
  ASSUME BlockInv, NEW d \in Clients, Touches(d), NEW c \in Clients, c # d, Alone(c)'
  PROVE  ArgsOwn(c)' /\ BufferOwn(c)' /\ DataOwn(c)'
<1>0. TypeOK /\ Apart /\ OwnInv
  BY DEF BlockInv
<1>1. /\ lbs' = lbs /\ pc'[c] = pc[c] /\ req'[c] = req[c] /\ id'[c] = id[c] /\ len'[c] = len[c]
      /\ err'[c] = err[c] /\ reply'[c] = reply[c] /\ Op[c] # Op[d] /\ ~overlap[c]
  BY DEF Touches, Alone
<1>2. Alone(c) /\ Running(c)
  BY <1>1 DEF Alone, Running
<1>3. Op[c] \in Ops /\ Op[d] \in Ops
  BY BlockAssumption DEF BlockAssumption, Ops
<1>4. args'[Op[c]] = args[Op[c]] /\ Args(c)' = Args(c)
  BY <1>1, <1>3 DEF Touches, Args
<1>5. args[Op[d]].data # id[c]
  BY <1>0, <1>1, <1>2, <1>3 DEF Apart
<1>6. /\ ArgsOwn(c) /\ BufferOwn(c) /\ DataOwn(c)
      /\ id[c] \in Buffers /\ id[c] # None
  <2>1. id[c] \in 1 .. calls /\ calls \in 0 .. MaxCalls /\ MaxCalls \in Nat
    BY <1>0, <1>2, BlockAssumption DEF Apart, TypeOK, BlockAssumption
  <2> QED
    BY <1>0, <1>2, <2>1 DEF OwnInv, Buffers, None
<1>7. \A b \in Buffers : \/ heap'[b] = heap[b]
                         \/ b # id[c] /\ heap'[b].from # id[c]
  <2> SUFFICES ASSUME NEW b \in Buffers, heap'[b] # heap[b]
               PROVE  b # id[c] /\ heap'[b].from # id[c]
    OBVIOUS
  <2>1. Running(d)
    BY DEF Touches
  <2>2. id[d] # id[c]
    BY <1>0, <1>2, <2>1 DEF Apart
  <2>3. b \in {id[d], args[Op[d]].data} /\ heap'[b].from \in {None, id[d]}
    BY DEF Touches
  <2> QED
    BY <2>2, <2>3, <1>5, <1>6
<1>8. heap'[id[c]] = heap[id[c]]
  BY <1>6, <1>7
<1>9. ArgsOwn(c)'
  BY <1>1, <1>4, <1>6 DEF ArgsOwn, Nlb
<1>10. BufferOwn(c)'
  BY <1>1, <1>4, <1>6, <1>8 DEF BufferOwn
<1>11. DataOwn(c)'
  <2>1. \A b \in Buffers : heap'[b].from = id[c] => b = id[c]
    BY <1>6, <1>7 DEF DataOwn
  <2>2. pc[c] = "io" => heap'[id[c]].from = id[c]
    BY <1>6, <1>8 DEF DataOwn
  <2>3. Op[c] = "write" => disk' = disk
    BY <1>1 DEF Touches
  <2>4. Range(c)' = Range(c)
    BY <1>4 DEF Range
  <2>5. Op[c] = "write" /\ pc[c] \in {"slba", "nlb", "len", "new", "copy", "io"} =>
          \A b \in DOMAIN disk' : disk'[b] # id[c]
    BY <1>6, <2>3 DEF DataOwn
  <2>6. Op[c] = "write" /\ pc[c] \in {"delete", "return", "returned"} /\ ~err[c] =>
          /\ Range(c) \subseteq DOMAIN disk'
          /\ \A b \in DOMAIN disk' : disk'[b] = id[c] <=> b \in Range(c)
    BY <1>6, <2>3 DEF DataOwn
  <2>7. pc[c] = "returned" /\ ~err[c] => reply[c] = req[c].start + Args(c).nlb
    BY <1>6 DEF DataOwn
  <2> QED
    BY <1>1, <1>4, <2>1, <2>2, <2>4, <2>5, <2>6, <2>7 DEF DataOwn
<1> QED
  BY <1>9, <1>10, <1>11

(* So a step of d keeps the invariant when it keeps it for d itself.       *)
LEMMA StepOf ==
  ASSUME BlockInv, NEW d \in Clients, server = "up", TypeOK', Apart', Touches(d),
         server' # "start", Alone(d)' => ArgsOwn(d)' /\ BufferOwn(d)' /\ DataOwn(d)'
  PROVE  BlockInv'
<1>1. OwnInv'
  BY OtherCalls DEF OwnInv
<1>2. StartInv'
  BY DEF StartInv
<1> QED
  BY <1>1, <1>2 DEF BlockInv

(* The numbers of calls stay apart in the steps of a handler.              *)
LEMMA ApartKept ==
  ASSUME BlockInv, NEW d \in Clients, Running(d), Running(d)',
         \A c \in Clients \ {d} : pc'[c] = pc[c],
         UNCHANGED <<calls, id, overlap>>,
         \A op \in Ops : \/ args'[op].data = args[op].data
                         \/ op = Op[d] /\ args'[op].data = id[d],
         pc'[d] \in {"copy", "io", "delete"} => args'[Op[d]].data # None,
         \A b \in Buffers : heap'[b].from \in {heap[b].from, None, id[d]},
         DOMAIN disk' = DOMAIN disk,
         \A b \in DOMAIN disk : disk'[b] = disk[b] \/ \E x \in Buffers : disk'[b] = heap[x].from
  PROVE  Apart'
<1>0. TypeOK /\ Apart
  BY DEF BlockInv
<1>1. calls \in Nat /\ id[d] \in 1 .. calls
  BY <1>0, BlockAssumption DEF TypeOK, Apart, BlockAssumption
<1>2. \A c \in Clients : (Running(c)' <=> Running(c)) /\ (Alone(c)' <=> Alone(c))
  BY DEF Running, Alone
<1>3. \A c \in Clients : Op[c] \in Ops
  BY BlockAssumption DEF BlockAssumption, Ops
<1>4. (\A op \in Ops :
         /\ args[op].data <= calls
         /\ \A c \in Clients : Running(c) /\ Op[c] # op => args[op].data # id[c])'
  <2> SUFFICES ASSUME NEW op \in Ops
               PROVE  /\ args'[op].data <= calls
                      /\ \A c \in Clients : Running(c) /\ Op[c] # op => args'[op].data # id[c]
    BY <1>2
  <2>1. CASE args'[op].data = args[op].data
    BY <1>0, <2>1 DEF Apart
  <2>2. CASE op = Op[d] /\ args'[op].data = id[d]
    BY <1>0, <1>1, <2>2 DEF Apart
  <2> QED
    BY <2>1, <2>2
<1>5. (\A c \in Clients : pc[c] \in {"copy", "io", "delete"} => Args(c).data # None)'
  <2> SUFFICES ASSUME NEW c \in Clients, pc'[c] \in {"copy", "io", "delete"}
               PROVE  args'[Op[c]].data # None
    BY DEF Args
  <2>1. CASE c = d
    BY <2>1
  <2>2. CASE c # d
    <3>1. args[Op[c]].data # None
      BY <1>0, <2>2 DEF Apart, Args
    <3>2. id[d] # None
      BY <1>1 DEF None
    <3> QED
      BY <1>3, <3>1, <3>2
  <2> QED
    BY <2>1, <2>2
<1>6. (\A b \in Buffers : heap[b].from <= calls)'
  <2>1. None <= calls /\ id[d] <= calls
    BY <1>1 DEF None
  <2> QED
    BY <1>0, <2>1 DEF Apart
<1>7. (\A b \in DOMAIN disk : disk[b] <= calls)'
  BY <1>0 DEF Apart
<1> QED
  BY <1>0, <1>2, <1>4, <1>5, <1>6, <1>7 DEF Apart

(* A step of a handler keeps the invariant when it keeps the types, keeps  *)
(* to its own operation and its own buffer, and keeps its own part.        *)
LEMMA HandlerStep ==
  ASSUME BlockInv, NEW d \in Clients, server = "up", server' # "start", Running(d), Running(d)',
         TypeOK', UNCHANGED <<lbs, req, calls, id, overlap>>,
         \A c \in Clients \ {d} : /\ pc'[c] = pc[c] /\ len'[c] = len[c]
                                 /\ err'[c] = err[c] /\ reply'[c] = reply[c],
         \A op \in Ops : op # Op[d] => args'[op] = args[op],
         args'[Op[d]].data \in {args[Op[d]].data, id[d]},
         pc'[d] \in {"copy", "io", "delete"} => args'[Op[d]].data # None,
         \A b \in Buffers :
           \/ heap'[b] = heap[b]
           \/ b \in {id[d], args[Op[d]].data} /\ heap'[b].from \in {None, id[d]},
         \/ disk' = disk
         \/ /\ Op[d] = "write" /\ DOMAIN disk' = DOMAIN disk
            /\ \A b \in DOMAIN disk :
                 disk'[b] = disk[b] \/ \E x \in Buffers : disk'[b] = heap[x].from,
         Alone(d) => ArgsOwn(d)' /\ BufferOwn(d)' /\ DataOwn(d)'
  PROVE  BlockInv'
<1>1. Apart'
  <2>1. \A op \in Ops : \/ args'[op].data = args[op].data
                        \/ op = Op[d] /\ args'[op].data = id[d]
    OBVIOUS
  <2>2. \A b \in Buffers : heap'[b].from \in {heap[b].from, None, id[d]}
    OBVIOUS
  <2>3. /\ DOMAIN disk' = DOMAIN disk
        /\ \A b \in DOMAIN disk : disk'[b] = disk[b] \/ \E x \in Buffers : disk'[b] = heap[x].from
    OBVIOUS
  <2> QED
    BY <2>1, <2>2, <2>3, ApartKept
<1>2. Touches(d)
  <2>1. \A c \in Clients \ {d} : Alone(c)' => Op[c] # Op[d]
    BY DEF Alone, Running, BlockInv, Apart
  <2> QED
    BY <2>1 DEF Touches
<1>3. Alone(d)' => Alone(d)
  BY DEF Alone
<1> QED
  BY <1>1, <1>2, <1>3, StepOf

(* Setting one field of the arguments leaves the others.                   *)
LEMMA SetFields ==
  ASSUME TypeOK, NEW d \in Clients, NEW v
  PROVE  LET a == args[Op[d]]
             b == args'[Op[d]]
         IN  /\ Set(d, "slba", v) /\ v \in Nat =>
                  /\ args' \in [Ops -> ArgsType]
                  /\ b.slba = v /\ b.nlb = a.nlb /\ b.len = a.len /\ b.data = a.data
                  /\ \A op \in Ops : op # Op[d] => args'[op] = args[op]
             /\ Set(d, "nlb", v) /\ v \in 0 .. NlbMod - 1 =>
                  /\ args' \in [Ops -> ArgsType]
                  /\ b.slba = a.slba /\ b.nlb = v /\ b.len = a.len /\ b.data = a.data
                  /\ \A op \in Ops : op # Op[d] => args'[op] = args[op]
             /\ Set(d, "len", v) /\ v \in Nat =>
                  /\ args' \in [Ops -> ArgsType]
                  /\ b.slba = a.slba /\ b.nlb = a.nlb /\ b.len = v /\ b.data = a.data
                  /\ \A op \in Ops : op # Op[d] => args'[op] = args[op]
             /\ Set(d, "data", v) /\ v \in 0 .. MaxCalls =>
                  /\ args' \in [Ops -> ArgsType]
                  /\ b.slba = a.slba /\ b.nlb = a.nlb /\ b.len = a.len /\ b.data = v
                  /\ \A op \in Ops : op # Op[d] => args'[op] = args[op]
<1>1. args \in [Ops -> ArgsType] /\ Op[d] \in Ops
  BY BlockAssumption DEF BlockAssumption, Ops, TypeOK
<1> QED
  BY <1>1 DEF Set, ArgsType

(* The facts about a running call that its steps use.                      *)
LEMMA CallFacts ==
  ASSUME BlockInv, NEW d \in Clients, Running(d)
  PROVE  /\ TypeOK /\ Op[d] \in Ops
         /\ req[d] \in [start : Nat, size : Nat, data : Nat]
         /\ req[d].start \in Nat /\ req[d].size \in Nat /\ req[d].data \in Nat
         /\ id[d] \in Buffers /\ id[d] # None /\ id[d] \in 0 .. MaxCalls
         /\ Alone(d) => ArgsOwn(d) /\ BufferOwn(d) /\ DataOwn(d)
         /\ pc[d] \in {"copy", "io", "delete"} => Args(d).data \in Buffers
<1>1. TypeOK /\ Apart /\ OwnInv /\ Op[d] \in Ops
  BY BlockAssumption DEF BlockInv, BlockAssumption, Ops
<1>2. req[d] \in [start : Nat, size : Nat, data : Nat]
  BY <1>1, BlockAssumption DEF BlockAssumption, TypeOK, NoReq
<1>3. req[d].start \in Nat /\ req[d].size \in Nat /\ req[d].data \in Nat
  BY <1>2
<1>4. id[d] \in Buffers /\ id[d] # None /\ id[d] \in 0 .. MaxCalls
  <2>1. id[d] \in 1 .. calls /\ calls \in 0 .. MaxCalls /\ MaxCalls \in Nat
    BY <1>1, BlockAssumption DEF Apart, TypeOK, BlockAssumption
  <2> QED
    BY <2>1 DEF Buffers, None
<1>5. pc[d] \in {"copy", "io", "delete"} => Args(d).data \in Buffers
  <2>1. args[Op[d]].data \in 0 .. MaxCalls /\ MaxCalls \in Nat
    BY <1>1, BlockAssumption DEF TypeOK, ArgsType, BlockAssumption, Ops
  <2>2. pc[d] \in {"copy", "io", "delete"} => Args(d).data # 0
    BY <1>1 DEF Apart, None
  <2> QED
    BY <2>1, <2>2 DEF Buffers, Args
<1> QED
  BY <1>1, <1>2, <1>3, <1>4, <1>5 DEF OwnInv

-----------------------------------------------------------------------------
(* The steps of the handlers.                                              *)

(* args.slba.                                                              *)
LEMMA SlbaStep ==
  ASSUME BlockInv, NEW d \in Clients, server = "up", SetSlba(d)
  PROVE  BlockInv'
<1>1. pc[d] = "slba" /\ Running(d) /\ TypeOK
  BY DEF SetSlba, Running, BlockInv
<1>u. UNCHANGED <<server, lbs, req, calls, id, len, err, reply, overlap, heap, disk>>
  BY DEF SetSlba
<1>p. pc' = [pc EXCEPT ![d] = "nlb"] /\ pc'[d] = "nlb" /\ \A c \in Clients \ {d} : pc'[c] = pc[c]
  BY <1>1 DEF SetSlba, Goto, TypeOK
<1>a. /\ args' \in [Ops -> ArgsType]
      /\ args'[Op[d]].slba = req[d].start /\ args'[Op[d]].data = args[Op[d]].data
      /\ \A op \in Ops : op # Op[d] => args'[op] = args[op]
  BY <1>1, CallFacts, SetFields DEF SetSlba
<1>2. TypeOK'
  BY <1>1, <1>u, <1>p, <1>a DEF TypeOK, Ops
<1>3. Alone(d) => ArgsOwn(d)' /\ BufferOwn(d)' /\ DataOwn(d)'
  <2> SUFFICES ASSUME Alone(d) PROVE ArgsOwn(d)' /\ BufferOwn(d)' /\ DataOwn(d)'
    OBVIOUS
  <2>1. ArgsOwn(d) /\ BufferOwn(d) /\ DataOwn(d)
    BY <1>1, CallFacts
  <2>2. ArgsOwn(d)'
    BY <1>p, <1>u, <1>a DEF ArgsOwn, Args, PastSlba, PastNlb, PastLen
  <2>3. BufferOwn(d)'
    BY <1>p DEF BufferOwn
  <2>4. DataOwn(d)'
    BY <2>1, <1>1, <1>p, <1>u DEF DataOwn
  <2> QED
    BY <2>2, <2>3, <2>4
<1>4. Running(d)' /\ pc'[d] \notin {"copy", "io", "delete"}
  BY <1>p DEF Running
<1> QED
  BY <1>1, <1>2, <1>3, <1>4, <1>u, <1>p, <1>a, HandlerStep

(* args.nlb, or the end of the service when the block size is 0.           *)
LEMMA NlbStep ==
  ASSUME BlockInv, NEW d \in Clients, server = "up", SetNlb(d)
  PROVE  BlockInv'
<1>1. pc[d] = "nlb" /\ Running(d) /\ TypeOK
  BY DEF SetNlb, Running, BlockInv
<1>u. UNCHANGED <<lbs, req, calls, id, len, err, reply, overlap, heap, disk>>
  BY DEF SetNlb
<1>2. CASE lbs = 0
  <2>1. server' = "fault" /\ UNCHANGED <<args, pc>>
    BY <1>2 DEF SetNlb
  <2>2. TypeOK' /\ StartInv'
    BY <1>1, <1>u, <2>1 DEF TypeOK, StartInv
  <2>3. Apart'
    BY <1>u, <2>1 DEF BlockInv, Apart, Running, Alone, Args
  <2>4. OwnInv'
    BY <1>u, <2>1 DEF BlockInv, OwnInv, Running, Alone, Args, ArgsOwn, BufferOwn, DataOwn, Nlb,
       Range
  <2> QED
    BY <2>2, <2>3, <2>4 DEF BlockInv
<1>3. CASE lbs # 0
  <2>0. server' = server /\ Set(d, "nlb", Nlb(req[d].size)) /\ Goto(d, "len")
    BY <1>3 DEF SetNlb
  <2>n. Nlb(req[d].size) \in 0 .. NlbMod - 1
    <3>1. req[d].size \in Nat /\ lbs \in Nat \ {0} /\ NlbMod \in Nat \ {0}
      BY <1>1, <1>3, CallFacts, BlockAssumption DEF TypeOK, BlockAssumption
    <3>2. req[d].size \div lbs \in Nat
      BY <3>1, DivMod
    <3> QED
      BY <3>1, <3>2 DEF Nlb
  <2>p. /\ pc' = [pc EXCEPT ![d] = "len"] /\ pc'[d] = "len"
        /\ \A c \in Clients \ {d} : pc'[c] = pc[c]
    BY <1>1, <2>0 DEF Goto, TypeOK
  <2>a. /\ args' \in [Ops -> ArgsType]
        /\ args'[Op[d]].slba = args[Op[d]].slba
        /\ args'[Op[d]].nlb = Nlb(req[d].size)
        /\ args'[Op[d]].data = args[Op[d]].data
        /\ \A op \in Ops : op # Op[d] => args'[op] = args[op]
    BY <1>1, <2>0, <2>n, CallFacts, SetFields
  <2>1. TypeOK'
    BY <1>1, <1>u, <2>0, <2>p, <2>a DEF TypeOK, Ops
  <2>2. Alone(d) => ArgsOwn(d)' /\ BufferOwn(d)' /\ DataOwn(d)'
    <3> SUFFICES ASSUME Alone(d) PROVE ArgsOwn(d)' /\ BufferOwn(d)' /\ DataOwn(d)'
      OBVIOUS
    <3>1. ArgsOwn(d) /\ BufferOwn(d) /\ DataOwn(d)
      BY <1>1, CallFacts
    <3>2. Nlb(req[d].size)' = Nlb(req[d].size)
      BY <1>u DEF Nlb
    <3>3. ArgsOwn(d)'
      BY <1>1, <1>3, <1>u, <2>p, <2>a, <3>1, <3>2 DEF ArgsOwn, Args, PastSlba, PastNlb, PastLen
    <3>4. BufferOwn(d)'
      BY <2>p DEF BufferOwn
    <3>5. DataOwn(d)'
      BY <3>1, <1>1, <1>u, <2>p DEF DataOwn
    <3> QED
      BY <3>3, <3>4, <3>5
  <2>3. Running(d)' /\ pc'[d] \notin {"copy", "io", "delete"}
    BY <2>p DEF Running
  <2> QED
    BY <1>1, <1>u, <2>0, <2>1, <2>2, <2>3, <2>p, <2>a, HandlerStep
<1> QED
  BY <1>2, <1>3

(* actual_len and args.data_len.                                           *)
LEMMA LenStep ==
  ASSUME BlockInv, NEW d \in Clients, server = "up", SetLen(d)
  PROVE  BlockInv'
<1>1. pc[d] = "len" /\ Running(d) /\ TypeOK
  BY DEF SetLen, Running, BlockInv
<1>u. UNCHANGED <<server, lbs, req, calls, id, err, reply, overlap, heap, disk>>
  BY DEF SetLen
<1>v. (Args(d).nlb + 1) * lbs \in Nat
  <2>1. Args(d).nlb \in 0 .. NlbMod - 1 /\ NlbMod \in Nat /\ lbs \in Nat
    BY <1>1, CallFacts, BlockAssumption DEF TypeOK, ArgsType, Args, Ops, BlockAssumption
  <2>2. Args(d).nlb + 1 \in Nat
    BY <2>1
  <2> QED
    BY <2>1, <2>2
<1>p. pc' = [pc EXCEPT ![d] = "new"] /\ pc'[d] = "new" /\ \A c \in Clients \ {d} : pc'[c] = pc[c]
  BY <1>1 DEF SetLen, Goto, TypeOK
<1>l. /\ len' \in [Clients -> Nat] /\ len'[d] = (Args(d).nlb + 1) * lbs
      /\ \A c \in Clients \ {d} : len'[c] = len[c]
  BY <1>1, <1>v DEF SetLen, TypeOK
<1>a. /\ args' \in [Ops -> ArgsType]
      /\ args'[Op[d]].slba = args[Op[d]].slba /\ args'[Op[d]].nlb = args[Op[d]].nlb
      /\ args'[Op[d]].len = len'[d] /\ args'[Op[d]].data = args[Op[d]].data
      /\ \A op \in Ops : op # Op[d] => args'[op] = args[op]
  BY <1>1, <1>v, <1>l, SetFields DEF SetLen
<1>2. TypeOK'
  BY <1>1, <1>u, <1>p, <1>a, <1>l DEF TypeOK, Ops
<1>3. Alone(d) => ArgsOwn(d)' /\ BufferOwn(d)' /\ DataOwn(d)'
  <2> SUFFICES ASSUME Alone(d) PROVE ArgsOwn(d)' /\ BufferOwn(d)' /\ DataOwn(d)'
    OBVIOUS
  <2>1. ArgsOwn(d) /\ BufferOwn(d) /\ DataOwn(d)
    BY <1>1, CallFacts
  <2>n. Nlb(req[d].size)' = Nlb(req[d].size)
    BY <1>u DEF Nlb
  <2>2. ArgsOwn(d)'
    BY <2>1, <2>n, <1>1, <1>p, <1>u, <1>a, <1>l DEF ArgsOwn, Args, PastSlba, PastNlb, PastLen
  <2>3. BufferOwn(d)'
    BY <1>p DEF BufferOwn
  <2>4. DataOwn(d)'
    BY <2>1, <1>1, <1>p, <1>u DEF DataOwn
  <2> QED
    BY <2>2, <2>3, <2>4
<1>4. Running(d)' /\ pc'[d] \notin {"copy", "io", "delete"}
  BY <1>p DEF Running
<1> QED
  BY <1>1, <1>2, <1>3, <1>4, <1>u, <1>p, <1>a, <1>l, HandlerStep

(* args.data = new char[actual_len].                                       *)
LEMMA AllocStep ==
  ASSUME BlockInv, NEW d \in Clients, server = "up", Alloc(d)
  PROVE  BlockInv'
<1>1. pc[d] = "new" /\ Running(d) /\ TypeOK
  BY DEF Alloc, Running, BlockInv
<1>i. id[d] \in Buffers /\ id[d] # None /\ id[d] \in 0 .. MaxCalls
  BY <1>1, CallFacts
<1>u. UNCHANGED <<server, lbs, req, calls, id, len, err, reply, overlap, disk>>
  BY DEF Alloc
<1>p. pc' = [pc EXCEPT ![d] = "copy"] /\ pc'[d] = "copy" /\ \A c \in Clients \ {d} : pc'[c] = pc[c]
  BY <1>1 DEF Alloc, Goto, TypeOK
<1>a. /\ args' \in [Ops -> ArgsType]
      /\ args'[Op[d]].slba = args[Op[d]].slba /\ args'[Op[d]].nlb = args[Op[d]].nlb
      /\ args'[Op[d]].len = args[Op[d]].len /\ args'[Op[d]].data = id[d]
      /\ \A op \in Ops : op # Op[d] => args'[op] = args[op]
  BY <1>1, <1>i, SetFields DEF Alloc
<1>h. /\ heap' \in [Buffers -> BufferType]
      /\ heap'[id[d]] = [size |-> len[d], live |-> TRUE, from |-> None]
      /\ \A b \in Buffers : b # id[d] => heap'[b] = heap[b]
  <2>1. heap' = [heap EXCEPT ![id[d]] = [size |-> len[d], live |-> TRUE, from |-> None]]
    BY DEF Alloc
  <2>2. [size |-> len[d], live |-> TRUE, from |-> None] \in BufferType
    <3>1. len[d] \in Nat /\ 0 \in 0 .. MaxCalls
      BY <1>1, BlockAssumption DEF TypeOK, BlockAssumption
    <3> QED
      BY <3>1 DEF BufferType, None
  <2>3. heap \in [Buffers -> BufferType]
    BY <1>1 DEF TypeOK
  <2> QED
    BY <1>i, <2>1, <2>2, <2>3
<1>g. heap'[id[d]].size = len[d] /\ heap'[id[d]].live /\ heap'[id[d]].from = None
  BY <1>h
<1>2. TypeOK'
  BY <1>1, <1>u, <1>p, <1>a, <1>h DEF TypeOK, Ops
<1>3. Alone(d) => ArgsOwn(d)' /\ BufferOwn(d)' /\ DataOwn(d)'
  <2> SUFFICES ASSUME Alone(d) PROVE ArgsOwn(d)' /\ BufferOwn(d)' /\ DataOwn(d)'
    OBVIOUS
  <2>1. ArgsOwn(d) /\ BufferOwn(d) /\ DataOwn(d)
    BY <1>1, CallFacts
  <2>n. Nlb(req[d].size)' = Nlb(req[d].size)
    BY <1>u DEF Nlb
  <2>2. ArgsOwn(d)'
    BY <2>1, <2>n, <1>1, <1>p, <1>u, <1>a DEF ArgsOwn, Args, PastSlba, PastNlb, PastLen
  <2>3. BufferOwn(d)'
    BY <1>p, <1>a, <1>g, <1>u DEF BufferOwn, Args
  <2>4. DataOwn(d)'
    <3>1. \A b \in Buffers : heap'[b].from = id[d] => b = id[d]
      BY <2>1, <1>h, <1>g, <1>i DEF DataOwn
    <3> QED
      BY <2>1, <3>1, <1>1, <1>p, <1>u DEF DataOwn
  <2> QED
    BY <2>2, <2>3, <2>4
<1>4. Running(d)' /\ args'[Op[d]].data # None
  BY <1>p, <1>a, <1>i DEF Running
<1>5. \A b \in Buffers :
        \/ heap'[b] = heap[b]
        \/ b \in {id[d], args[Op[d]].data} /\ heap'[b].from \in {None, id[d]}
  BY <1>h, <1>g
<1> QED
  BY <1>1, <1>2, <1>3, <1>4, <1>5, <1>u, <1>p, <1>a, HandlerStep

(* A damaged service stands still.                                         *)
LEMMA CorruptStep == BlockInv /\ Corrupt => BlockInv'
<1> SUFFICES ASSUME BlockInv, Corrupt PROVE BlockInv'
  OBVIOUS
<1>u. server' = "corrupt" /\ UNCHANGED <<lbs, args, pc, req, calls, id, len, err, reply, overlap, heap, disk>>
  BY DEF Corrupt, callVars
<1>1. TypeOK' /\ StartInv'
  BY <1>u DEF BlockInv, TypeOK, StartInv
<1>2. Apart'
  BY <1>u DEF BlockInv, Apart, Running, Alone, Args
<1>3. OwnInv'
  BY <1>u DEF BlockInv, OwnInv, Running, Alone, Args, ArgsOwn, BufferOwn, DataOwn, Nlb, Range
<1> QED
  BY <1>1, <1>2, <1>3 DEF BlockInv

(* memcpy into the buffer that the arguments name.                         *)
LEMMA CopyStep ==
  ASSUME BlockInv, NEW d \in Clients, server = "up", Copy(d)
  PROVE  BlockInv'
<1>1. pc[d] = "copy" /\ Running(d) /\ TypeOK
  BY DEF Copy, Running, BlockInv
<1>2. CASE Corrupt
  BY <1>2, CorruptStep
<1>3. CASE ~Corrupt
  <2>0. /\ heap' = [heap EXCEPT ![Args(d).data].from = id[d]]
        /\ Goto(d, "io")
        /\ UNCHANGED <<server, lbs, args, req, calls, id, len, err, reply, overlap, disk>>
    BY <1>3 DEF Copy
  <2>i. id[d] \in Buffers /\ id[d] # None /\ id[d] \in 0 .. MaxCalls /\ Args(d).data \in Buffers
    BY <1>1, CallFacts
  <2>p. /\ pc' = [pc EXCEPT ![d] = "io"] /\ pc'[d] = "io"
        /\ \A c \in Clients \ {d} : pc'[c] = pc[c]
    BY <1>1, <2>0 DEF Goto, TypeOK
  <2> DEFINE x == Args(d).data
  <2>h. /\ heap' \in [Buffers -> BufferType]
        /\ heap'[x].from = id[d] /\ heap'[x].size = heap[x].size /\ heap'[x].live = heap[x].live
        /\ \A b \in Buffers : b # x => heap'[b] = heap[b]
    <3>1. heap \in [Buffers -> BufferType] /\ heap' = [heap EXCEPT ![x].from = id[d]] /\ x \in Buffers
      BY <1>1, <2>0, <2>i DEF TypeOK
    <3> HIDE DEF x
    <3> QED
      BY <2>i, <3>1 DEF BufferType
  <2>1. TypeOK'
    BY <1>1, <2>0, <2>p, <2>h DEF TypeOK
  <2>2. Alone(d) => ArgsOwn(d)' /\ BufferOwn(d)' /\ DataOwn(d)'
    <3> SUFFICES ASSUME Alone(d) PROVE ArgsOwn(d)' /\ BufferOwn(d)' /\ DataOwn(d)'
      OBVIOUS
    <3>1. ArgsOwn(d) /\ BufferOwn(d) /\ DataOwn(d)
      BY <1>1, CallFacts
    <3>n. Nlb(req[d].size)' = Nlb(req[d].size) /\ Args(d)' = Args(d)
      BY <2>0 DEF Nlb, Args
    <3>x. x = id[d] /\ heap[id[d]].live /\ heap[id[d]].size = len[d]
      BY <1>1, <3>1 DEF BufferOwn
    <3>2. ArgsOwn(d)'
      BY <3>1, <3>n, <1>1, <2>p, <2>0 DEF ArgsOwn, PastSlba, PastNlb, PastLen
    <3>3. BufferOwn(d)'
      BY <3>n, <3>x, <2>p, <2>h, <2>0 DEF BufferOwn
    <3>4. DataOwn(d)'
      <4>1. \A b \in Buffers : heap'[b].from = id[d] => b = id[d]
        BY <3>1, <3>x, <2>h DEF DataOwn
      <4>2. heap'[id[d]].from = id[d]
        BY <3>x, <2>h
      <4> QED
        BY <3>1, <4>1, <4>2, <1>1, <2>p, <2>0 DEF DataOwn
    <3> QED
      BY <3>2, <3>3, <3>4
  <2>3. Running(d)' /\ args'[Op[d]].data # None
    <3>1. x # None
      BY <2>i, BlockAssumption DEF Buffers, None, BlockAssumption
    <3> QED
      BY <2>p, <2>0, <3>1 DEF Running, Args
  <2>4. \A b \in Buffers :
          \/ heap'[b] = heap[b]
          \/ b \in {id[d], args[Op[d]].data} /\ heap'[b].from \in {None, id[d]}
    BY <2>h DEF Args
  <2> QED
    BY <1>1, <2>0, <2>1, <2>2, <2>3, <2>4, <2>p, HandlerStep
<1> QED
  BY <1>2, <1>3

(* nvme_write or nvme_read, done by the device or refused.                 *)
LEMMA IoStep ==
  ASSUME BlockInv, NEW d \in Clients, server = "up", Io(d)
  PROVE  BlockInv'
<1>1. pc[d] = "io" /\ Running(d) /\ TypeOK
  BY DEF Io, Running, BlockInv
<1>2. CASE Corrupt
  BY <1>2, CorruptStep
<1>3. CASE ~Corrupt
  <2>0. /\ \/ /\ Accepts(d)
              /\ err' = [err EXCEPT ![d] = FALSE]
              /\ disk' = [b \in DOMAIN disk |->
                   IF Op[d] = "write" /\ b \in Range(d) THEN Buffer(d).from ELSE disk[b]]
           \/ err' = [err EXCEPT ![d] = TRUE] /\ UNCHANGED disk
        /\ Goto(d, "delete")
        /\ UNCHANGED <<server, lbs, args, req, calls, id, len, reply, overlap, heap>>
    BY <1>3 DEF Io
  <2>i. Args(d).data \in Buffers /\ Op[d] \in Ops
    BY <1>1, CallFacts
  <2>p. /\ pc' = [pc EXCEPT ![d] = "delete"] /\ pc'[d] = "delete"
        /\ \A c \in Clients \ {d} : pc'[c] = pc[c]
    BY <1>1, <2>0 DEF Goto, TypeOK
  <2>e. /\ err' \in [Clients -> BOOLEAN]
        /\ \A c \in Clients \ {d} : err'[c] = err[c]
        /\ \/ err'[d] = FALSE /\ Accepts(d)
              /\ disk' = [b \in DOMAIN disk |->
                   IF Op[d] = "write" /\ b \in Range(d) THEN Buffer(d).from ELSE disk[b]]
           \/ err'[d] = TRUE /\ disk' = disk
    BY <1>1, <2>0 DEF TypeOK
  <2>d. /\ disk' \in [0 .. Blocks - 1 -> 0 .. MaxCalls]
        /\ DOMAIN disk' = DOMAIN disk /\ DOMAIN disk = 0 .. Blocks - 1
        /\ disk' = disk \/ Op[d] = "write"
        /\ \A b \in DOMAIN disk : disk'[b] = disk[b] \/ disk'[b] = heap[Args(d).data].from
    <3>1. disk \in [0 .. Blocks - 1 -> 0 .. MaxCalls] /\ heap \in [Buffers -> BufferType]
      BY <1>1 DEF TypeOK
    <3>2. Buffer(d).from \in 0 .. MaxCalls
      BY <2>i, <3>1 DEF Buffer, BufferType
    <3>3. disk' = disk \/ disk' = [b \in DOMAIN disk |->
                   IF Op[d] = "write" /\ b \in Range(d) THEN Buffer(d).from ELSE disk[b]]
      BY <2>e
    <3> QED
      BY <3>1, <3>2, <3>3 DEF Buffer
  <2>1. TypeOK'
    BY <1>1, <2>0, <2>p, <2>e, <2>d DEF TypeOK
  <2>2. Alone(d) => ArgsOwn(d)' /\ BufferOwn(d)' /\ DataOwn(d)'
    <3> SUFFICES ASSUME Alone(d) PROVE ArgsOwn(d)' /\ BufferOwn(d)' /\ DataOwn(d)'
      OBVIOUS
    <3>1. ArgsOwn(d) /\ BufferOwn(d) /\ DataOwn(d)
      BY <1>1, CallFacts
    <3>n. Nlb(req[d].size)' = Nlb(req[d].size) /\ Args(d)' = Args(d) /\ Range(d)' = Range(d)
      BY <2>0 DEF Nlb, Args, Range
    <3>2. ArgsOwn(d)'
      BY <3>1, <3>n, <1>1, <2>p, <2>0 DEF ArgsOwn, PastSlba, PastNlb, PastLen
    <3>3. BufferOwn(d)'
      BY <3>1, <3>n, <1>1, <2>p, <2>0 DEF BufferOwn
    <3>4. DataOwn(d)'
      <4>1. Buffer(d).from = id[d]
        BY <1>1, <3>1 DEF DataOwn, BufferOwn, Buffer
      <4>2. Op[d] = "write" /\ ~err'[d] =>
              /\ Range(d) \subseteq DOMAIN disk
              /\ \A b \in DOMAIN disk : disk'[b] = id[d] <=> b \in Range(d)
        <5> SUFFICES ASSUME Op[d] = "write", ~err'[d]
                     PROVE  /\ Range(d) \subseteq DOMAIN disk
                            /\ \A b \in DOMAIN disk : disk'[b] = id[d] <=> b \in Range(d)
          OBVIOUS
        <5>1. /\ Accepts(d)
              /\ disk' = [b \in DOMAIN disk |->
                            IF Op[d] = "write" /\ b \in Range(d) THEN Buffer(d).from ELSE disk[b]]
          BY <2>e
        <5>2. \A b \in DOMAIN disk : disk[b] # id[d]
          BY <1>1, <3>1 DEF DataOwn
        <5>3. Range(d) \subseteq DOMAIN disk
          BY <5>1 DEF Accepts
        <5>4. \A b \in DOMAIN disk : disk'[b] = id[d] <=> b \in Range(d)
          BY <5>1, <5>2, <4>1
        <5> QED
          BY <5>3, <5>4
      <4>3. \A b \in Buffers : heap'[b].from = id[d] => b = id[d]
        BY <3>1, <2>0 DEF DataOwn
      <4> QED
        BY <3>n, <4>2, <4>3, <2>p, <2>0, <2>d DEF DataOwn
    <3> QED
      BY <3>2, <3>3, <3>4
  <2>3. Running(d)' /\ args'[Op[d]].data # None
    <3>1. Args(d).data # None
      BY <2>i, BlockAssumption DEF Buffers, None, BlockAssumption
    <3> QED
      BY <2>p, <2>0, <3>1 DEF Running, Args
  <2>4. \/ disk' = disk
        \/ /\ Op[d] = "write" /\ DOMAIN disk' = DOMAIN disk
           /\ \A b \in DOMAIN disk :
                disk'[b] = disk[b] \/ \E x \in Buffers : disk'[b] = heap[x].from
    BY <2>i, <2>d
  <2> QED
    BY <1>1, <2>0, <2>1, <2>2, <2>3, <2>4, <2>p, <2>e, HandlerStep
<1> QED
  BY <1>2, <1>3

(* delete[] args.data.                                                     *)
LEMMA FreeStep ==
  ASSUME BlockInv, NEW d \in Clients, server = "up", Free(d)
  PROVE  BlockInv'
<1>1. pc[d] = "delete" /\ Running(d) /\ TypeOK
  BY DEF Free, Running, BlockInv
<1>2. CASE Corrupt
  BY <1>2, CorruptStep
<1>3. CASE ~Corrupt
  <2>0. /\ heap' = [heap EXCEPT ![Args(d).data] = Dead]
        /\ Goto(d, "return")
        /\ UNCHANGED <<server, lbs, args, req, calls, id, len, err, reply, overlap, disk>>
    BY <1>3 DEF Free
  <2>i. Args(d).data \in Buffers /\ id[d] # None
    BY <1>1, CallFacts
  <2>p. /\ pc' = [pc EXCEPT ![d] = "return"] /\ pc'[d] = "return"
        /\ \A c \in Clients \ {d} : pc'[c] = pc[c]
    BY <1>1, <2>0 DEF Goto, TypeOK
  <2> DEFINE x == Args(d).data
  <2>h. /\ heap' \in [Buffers -> BufferType]
        /\ heap'[x] = Dead
        /\ \A b \in Buffers : b # x => heap'[b] = heap[b]
    <3>1. heap \in [Buffers -> BufferType] /\ heap' = [heap EXCEPT ![x] = Dead] /\ x \in Buffers
      BY <1>1, <2>0, <2>i DEF TypeOK
    <3>2. Dead \in BufferType
      <4>1. 0 \in 0 .. MaxCalls
        BY BlockAssumption DEF BlockAssumption
      <4> QED
        BY <4>1 DEF Dead, BufferType, None
    <3> HIDE DEF x
    <3> QED
      BY <3>1, <3>2
  <2>f. Dead.from = None /\ ~Dead.live
    BY DEF Dead
  <2>1. TypeOK'
    BY <1>1, <2>0, <2>p, <2>h DEF TypeOK
  <2>2. Alone(d) => ArgsOwn(d)' /\ BufferOwn(d)' /\ DataOwn(d)'
    <3> SUFFICES ASSUME Alone(d) PROVE ArgsOwn(d)' /\ BufferOwn(d)' /\ DataOwn(d)'
      OBVIOUS
    <3>1. ArgsOwn(d) /\ BufferOwn(d) /\ DataOwn(d)
      BY <1>1, CallFacts
    <3>n. Nlb(req[d].size)' = Nlb(req[d].size) /\ Args(d)' = Args(d) /\ Range(d)' = Range(d)
      BY <2>0 DEF Nlb, Args, Range
    <3>x. x = id[d]
      BY <1>1, <3>1 DEF BufferOwn
    <3>2. ArgsOwn(d)'
      BY <3>1, <3>n, <1>1, <2>p, <2>0 DEF ArgsOwn, PastSlba, PastNlb, PastLen
    <3>3. BufferOwn(d)'
      <4>1. ~heap'[id[d]].live
        BY <3>x, <2>h, <2>f
      <4> QED
        BY <4>1, <2>p, <2>0 DEF BufferOwn
    <3>4. DataOwn(d)'
      <4>1. \A b \in Buffers : heap'[b].from = id[d] => b = id[d]
        BY <3>1, <3>x, <2>h DEF DataOwn
      <4> QED
        BY <3>1, <3>n, <4>1, <1>1, <2>p, <2>0 DEF DataOwn
    <3> QED
      BY <3>2, <3>3, <3>4
  <2>3. Running(d)' /\ pc'[d] \notin {"copy", "io", "delete"}
    BY <2>p DEF Running
  <2>4. \A b \in Buffers :
          \/ heap'[b] = heap[b]
          \/ b \in {id[d], args[Op[d]].data} /\ heap'[b].from \in {None, id[d]}
    BY <2>h, <2>f DEF Args
  <2> QED
    BY <1>1, <2>0, <2>1, <2>2, <2>3, <2>4, <2>p, HandlerStep
<1> QED
  BY <1>2, <1>3

(* The status and end_block.                                               *)
LEMMA ReturnStep ==
  ASSUME BlockInv, NEW d \in Clients, server = "up", Return(d)
  PROVE  BlockInv'
<1>1. pc[d] = "return" /\ Running(d) /\ TypeOK
  BY DEF Return, Running, BlockInv
<1>u. UNCHANGED <<server, lbs, args, req, calls, id, len, err, overlap, heap, disk>>
  BY DEF Return
<1>p. pc' = [pc EXCEPT ![d] = "returned"] /\ pc'[d] = "returned"
      /\ \A c \in Clients \ {d} : pc'[c] = pc[c]
  BY <1>1 DEF Return, Goto, TypeOK
<1>r. /\ reply' \in [Clients -> Nat]
      /\ ~err[d] => reply'[d] = req[d].start + Args(d).nlb
      /\ \A c \in Clients \ {d} : reply'[c] = reply[c]
  <2>1. req[d].start + Args(d).nlb \in Nat
    <3>1. Args(d).nlb \in 0 .. NlbMod - 1 /\ NlbMod \in Nat /\ req[d].start \in Nat
      BY <1>1, CallFacts, BlockAssumption DEF TypeOK, ArgsType, Args, Ops, BlockAssumption
    <3> QED
      BY <3>1
  <2>2. reply' = [reply EXCEPT ![d] = IF err[d] THEN @ ELSE req[d].start + Args(d).nlb]
    BY DEF Return
  <2>3. reply \in [Clients -> Nat]
    BY <1>1 DEF TypeOK
  <2> QED
    BY ONLY <2>1, <2>2, <2>3, d \in Clients
<1>2. TypeOK'
  BY <1>1, <1>u, <1>p, <1>r DEF TypeOK
<1>3. Alone(d) => ArgsOwn(d)' /\ BufferOwn(d)' /\ DataOwn(d)'
  <2> SUFFICES ASSUME Alone(d) PROVE ArgsOwn(d)' /\ BufferOwn(d)' /\ DataOwn(d)'
    OBVIOUS
  <2>1. ArgsOwn(d) /\ BufferOwn(d) /\ DataOwn(d)
    BY <1>1, CallFacts
  <2>n. Nlb(req[d].size)' = Nlb(req[d].size) /\ Args(d)' = Args(d) /\ Range(d)' = Range(d)
    BY <1>u DEF Nlb, Args, Range
  <2>2. ArgsOwn(d)'
    BY <2>1, <2>n, <1>1, <1>p, <1>u DEF ArgsOwn, PastSlba, PastNlb, PastLen
  <2>3. BufferOwn(d)'
    BY <2>1, <2>n, <1>1, <1>p, <1>u DEF BufferOwn
  <2>4. DataOwn(d)'
    BY <2>1, <2>n, <1>1, <1>p, <1>u, <1>r DEF DataOwn
  <2> QED
    BY <2>2, <2>3, <2>4
<1>4. Running(d)' /\ pc'[d] \notin {"copy", "io", "delete"}
  BY <1>p DEF Running
<1> QED
  BY <1>1, <1>2, <1>3, <1>4, <1>u, <1>p, <1>r, HandlerStep

(* The client takes its answer.                                            *)
LEMMA AnsweredStep ==
  ASSUME BlockInv, NEW d \in Clients, server = "up", Answered(d)
  PROVE  BlockInv'
<1>0. TypeOK /\ Apart /\ OwnInv
  BY DEF BlockInv
<1>1. pc[d] = "returned" /\ Running(d)
  BY DEF Answered, Running
<1>u. UNCHANGED <<server, lbs, args, calls, heap, disk>>
  BY DEF Answered
<1>d. pc'[d] = "idle"
  BY <1>0 DEF Answered, Goto, TypeOK
<1>c. \A c \in Clients \ {d} :
        /\ pc'[c] = pc[c] /\ req'[c] = req[c] /\ id'[c] = id[c] /\ len'[c] = len[c]
        /\ reply'[c] = reply[c]
  BY <1>0 DEF Answered, Goto, TypeOK
<1>e. \A c \in Clients \ {d} : err'[c] = err[c] /\ overlap'[c] = overlap[c]
  BY <1>0 DEF Answered, TypeOK
<1>2. TypeOK'
  <2>1. /\ pc' \in [Clients -> {"idle", "slba", "nlb", "len", "new", "copy", "io", "delete",
                               "return", "returned"}]
        /\ req' \in [Clients -> Requests \cup {NoReq}]
    BY <1>0 DEF Answered, Goto, TypeOK
  <2>2. /\ id' \in [Clients -> 0 .. MaxCalls] /\ len' \in [Clients -> Nat]
        /\ reply' \in [Clients -> Nat]
    BY <1>0, BlockAssumption DEF Answered, TypeOK, None, BlockAssumption
  <2>3. err' \in [Clients -> BOOLEAN] /\ overlap' \in [Clients -> BOOLEAN]
    BY <1>0 DEF Answered, TypeOK
  <2> QED
    BY <1>0, <1>u, <2>1, <2>2, <2>3 DEF TypeOK
<1>3. \A c \in Clients : Running(c)' => c # d /\ Running(c)
  BY <1>d, <1>c DEF Running
<1>4. \A c \in Clients : Alone(c)' => c # d /\ Alone(c)
  BY <1>3, <1>e DEF Alone
<1>5. Apart'
  <2>1. (\A c \in Clients : Running(c) => id[c] \in 1 .. calls)'
    BY <1>0, <1>3, <1>c, <1>u DEF Apart
  <2>2. (\A c, e \in Clients : Running(c) /\ Running(e) /\ c # e => id[c] # id[e])'
    BY <1>0, <1>3, <1>c DEF Apart
  <2>3. (\A op \in Ops :
           /\ args[op].data <= calls
           /\ \A c \in Clients : Running(c) /\ Op[c] # op => args[op].data # id[c])'
    BY <1>0, <1>3, <1>c, <1>u DEF Apart
  <2>4. (\A c \in Clients : pc[c] \in {"copy", "io", "delete"} => Args(c).data # None)'
    BY <1>0, <1>d, <1>c, <1>u DEF Apart, Args
  <2>5. (\A c, e \in Clients : Alone(c) /\ Running(e) /\ c # e => Op[c] # Op[e])'
    BY <1>0, <1>3, <1>4 DEF Apart
  <2>6. (\A b \in Buffers : heap[b].from <= calls)' /\ (\A b \in DOMAIN disk : disk[b] <= calls)'
    BY <1>0, <1>u DEF Apart
  <2> QED
    BY <2>1, <2>2, <2>3, <2>4, <2>5, <2>6 DEF Apart
<1>6. Touches(d)
  <2>1. \A c \in Clients \ {d} : Alone(c)' => Op[c] # Op[d]
    BY <1>0, <1>1, <1>4 DEF Apart
  <2> QED
    BY <1>u, <1>c, <1>e, <2>1 DEF Touches
<1>7. ~Alone(d)'
  BY <1>4
<1> QED
  BY <1>2, <1>5, <1>6, <1>7, <1>u, StepOf

(* A new call has a number that nothing carries yet; the calls of its      *)
(* operation that run are no longer alone.                                 *)
LEMMA CallStep ==
  ASSUME BlockInv, NEW d \in Clients, server = "up", NEW r \in Requests, Call(d, r)
  PROVE  BlockInv'
<1>0. TypeOK /\ Apart /\ OwnInv
  BY DEF BlockInv
<1>u. UNCHANGED <<server, lbs, args, len, err, reply, heap, disk>>
  BY DEF Call
<1>n. calls \in Nat /\ calls < MaxCalls /\ calls' = calls + 1 /\ calls' \in 0 .. MaxCalls
      /\ MaxCalls \in Nat
  BY <1>0, BlockAssumption DEF Call, TypeOK, BlockAssumption
<1>i. id' = [id EXCEPT ![d] = calls + 1]
  BY <1>n DEF Call
<1>d. pc[d] = "idle" /\ pc'[d] = "slba" /\ id'[d] = calls + 1 /\ ~Running(d)
  BY <1>0, <1>i DEF Call, Goto, TypeOK, Running
<1>c. \A c \in Clients \ {d} : pc'[c] = pc[c] /\ req'[c] = req[c] /\ id'[c] = id[c]
  BY <1>0, <1>i DEF Call, Goto, TypeOK
<1> DEFINE same == {c \in Clients \ {d} : Op[c] = Op[d] /\ pc[c] # "idle"}
<1>o. overlap' = [c \in Clients |-> IF c = d THEN same # {} ELSE overlap[c] \/ c \in same]
  BY DEF Call
<1> HIDE DEF same
<1>e. /\ ~overlap'[d] => same = {}
      /\ \A c \in Clients \ {d} : ~overlap'[c] => ~overlap[c] /\ c \notin same
  BY <1>o
<1>2. TypeOK'
  <2>1. overlap' \in [Clients -> BOOLEAN]
    <3>1. \A c \in Clients : (IF c = d THEN same # {} ELSE overlap[c] \/ c \in same) \in BOOLEAN
      OBVIOUS
    <3> QED
      BY <1>o, <3>1
  <2>2. id' \in [Clients -> 0 .. MaxCalls]
    <3>1. calls + 1 \in 0 .. MaxCalls
      BY <1>n
    <3> QED
      BY <1>0, <1>i, <3>1 DEF TypeOK
  <2>3. /\ pc' \in [Clients -> {"idle", "slba", "nlb", "len", "new", "copy", "io", "delete",
                               "return", "returned"}]
        /\ req' \in [Clients -> Requests \cup {NoReq}]
    BY <1>0 DEF Call, Goto, TypeOK
  <2> QED
    BY <1>0, <1>u, <1>n, <2>1, <2>2, <2>3 DEF TypeOK
<1>3. \A c \in Clients : c # d => (Running(c)' <=> Running(c)) /\ (Alone(c)' => Alone(c))
  BY <1>c, <1>e DEF Running, Alone
<1>4. /\ \A c \in Clients : Running(c) => id[c] \in 1 .. calls
      /\ \A op \in Ops : args[op].data <= calls /\ args[op].data \in Nat
      /\ \A b \in Buffers : heap[b].from <= calls /\ heap[b].from \in Nat
      /\ \A b \in DOMAIN disk : disk[b] <= calls /\ disk[b] \in Nat
  <2>1. \A op \in Ops : args[op].data \in Nat
    BY <1>0, <1>n DEF TypeOK, ArgsType, Ops
  <2>2. \A b \in Buffers : heap[b].from \in Nat
    BY <1>0, <1>n DEF TypeOK, BufferType
  <2>3. \A b \in DOMAIN disk : disk[b] \in Nat
    <3>1. disk \in [0 .. Blocks - 1 -> 0 .. MaxCalls]
      BY <1>0 DEF TypeOK
    <3>2. \A b \in DOMAIN disk : disk[b] \in 0 .. MaxCalls
      BY ONLY <3>1
    <3> QED
      BY ONLY <3>2, <1>n
  <2> QED
    BY <1>0, <2>1, <2>2, <2>3 DEF Apart
<1>5. \A c \in Clients : c # d /\ Alone(c)' => Op[c] # Op[d]
  BY <1>3, <1>e DEF Alone, Running, same
<1>6. Alone(d)' => \A c \in Clients : c # d /\ Running(c) => Op[c] # Op[d]
  BY <1>e DEF Alone, Running, same
<1>7. Apart'
  <2>1. (\A c \in Clients : Running(c) => id[c] \in 1 .. calls)'
    BY <1>3, <1>4, <1>c, <1>d, <1>n
  <2>2. (\A c, e \in Clients : Running(c) /\ Running(e) /\ c # e => id[c] # id[e])'
    <3>1. \A c \in Clients : c # d /\ Running(c) => id[c] # calls + 1
      BY <1>4, <1>n
    <3> QED
      BY <1>0, <1>3, <1>c, <1>d, <3>1 DEF Apart
  <2>3. (\A op \in Ops :
           /\ args[op].data <= calls
           /\ \A c \in Clients : Running(c) /\ Op[c] # op => args[op].data # id[c])'
    <3> SUFFICES ASSUME NEW op \in Ops
                 PROVE  /\ args[op].data <= calls'
                        /\ \A c \in Clients : Running(c)' /\ Op[c] # op => args[op].data # id'[c]
      BY <1>u
    <3>1. args[op].data <= calls + 1 /\ args[op].data # calls + 1
      BY <1>4, <1>n
    <3> QED
      BY <1>0, <1>3, <1>c, <1>d, <1>n, <3>1 DEF Apart
  <2>4. (\A c \in Clients : pc[c] \in {"copy", "io", "delete"} => Args(c).data # None)'
    BY <1>0, <1>d, <1>c, <1>u DEF Apart, Args
  <2>5. (\A c, e \in Clients : Alone(c) /\ Running(e) /\ c # e => Op[c] # Op[e])'
    <3> SUFFICES ASSUME NEW c \in Clients, NEW e \in Clients, Alone(c)', Running(e)', c # e
                 PROVE  Op[c] # Op[e]
      OBVIOUS
    <3>1. CASE c = d
      BY <3>1, <1>3, <1>6
    <3>2. CASE e = d
      BY <3>2, <1>5
    <3>3. CASE c # d /\ e # d
      BY <3>3, <1>0, <1>3 DEF Apart
    <3> QED
      BY <3>1, <3>2, <3>3
  <2>6. (\A b \in Buffers : heap[b].from <= calls)' /\ (\A b \in DOMAIN disk : disk[b] <= calls)'
    BY <1>4, <1>n, <1>u
  <2> QED
    BY <2>1, <2>2, <2>3, <2>4, <2>5, <2>6 DEF Apart
<1>8. Touches(d)
  BY <1>u, <1>c, <1>e, <1>5 DEF Touches
<1>9. ArgsOwn(d)' /\ BufferOwn(d)' /\ DataOwn(d)'
  <2>1. ArgsOwn(d)' /\ BufferOwn(d)'
    BY <1>d DEF ArgsOwn, BufferOwn, PastSlba, PastNlb, PastLen
  <2>2. /\ \A b \in Buffers : heap[b].from # calls + 1
        /\ \A b \in DOMAIN disk : disk[b] # calls + 1
    BY <1>4, <1>n
  <2>3. DataOwn(d)'
    BY <1>d, <1>u, <2>2 DEF DataOwn
  <2> QED
    BY <2>1, <2>3
<1> QED
  BY <1>2, <1>7, <1>8, <1>9, <1>u, StepOf

-----------------------------------------------------------------------------
(* A service that is being set up has no call, no buffer and no data.      *)
LEMMA InitBlock == Init => BlockInv
<1> SUFFICES ASSUME Init PROVE BlockInv
  OBVIOUS
<1>n. MaxCalls \in Nat /\ 0 \in 0 .. MaxCalls /\ NlbMod \in Nat \ {0} /\ 0 \in 0 .. NlbMod - 1
  BY BlockAssumption DEF BlockAssumption
<1>1. TypeOK
  <2>1. args \in [{"read", "write"} -> ArgsType]
    BY <1>n DEF Init, ArgsType, None
  <2>2. heap \in [Buffers -> BufferType]
    BY <1>n DEF Init, BufferType, Dead, None
  <2>3. lbs \in Nat /\ disk \in [0 .. Blocks - 1 -> 0 .. MaxCalls]
    BY <1>n, BlockAssumption DEF Init, BlockAssumption, None
  <2> QED
    BY <1>n, <2>1, <2>2, <2>3 DEF Init, TypeOK, None
<1>2. \A c \in Clients : ~Running(c) /\ pc[c] = "idle"
  BY DEF Init, Running
<1>3. Apart
  <2>1. \A op \in Ops : args[op].data = 0
    BY DEF Init, Ops, None
  <2>2. \A b \in Buffers : heap[b].from = 0
    BY DEF Init, Dead, None
  <2>3. \A b \in DOMAIN disk : disk[b] = 0
    BY DEF Init, None
  <2>4. calls = 0
    BY DEF Init
  <2> QED
    BY <1>2, <2>1, <2>2, <2>3, <2>4 DEF Apart, Alone
<1>4. OwnInv /\ StartInv
  BY <1>2 DEF OwnInv, StartInv, Alone
<1> QED
  BY <1>1, <1>3, <1>4 DEF BlockInv

(* The service starts before there is a call.                              *)
LEMMA StartStep == BlockInv /\ Start => BlockInv'
<1> SUFFICES ASSUME BlockInv, Start PROVE BlockInv'
  OBVIOUS
<1>u. /\ server' \in {"up", "down"} /\ lbs' \in {Lbs, lbs}
      /\ UNCHANGED <<args, pc, req, calls, id, len, err, reply, overlap, heap, disk>>
  BY DEF Start, Config, callVars
<1>1. \A c \in Clients : ~Running(c)
  BY DEF BlockInv, StartInv, Start
<1>2. TypeOK' /\ StartInv'
  BY <1>u, BlockAssumption DEF BlockInv, TypeOK, StartInv, BlockAssumption
<1>3. Apart'
  BY <1>u DEF BlockInv, Apart, Running, Alone, Args
<1>4. OwnInv'
  BY <1>1, <1>u DEF OwnInv, Alone, Running
<1> QED
  BY <1>2, <1>3, <1>4 DEF BlockInv

(* Every step keeps the invariant.                                         *)
LEMMA NextBlock == BlockInv /\ [Next]_vars => BlockInv'
<1> SUFFICES ASSUME BlockInv, [Next]_vars PROVE BlockInv'
  OBVIOUS
<1>1. CASE Start
  BY <1>1, StartStep
<1>2. CASE Up /\ \E c \in Clients : Handler(c)
  BY <1>2, SlbaStep, NlbStep, LenStep, AllocStep, CopyStep, IoStep, FreeStep, ReturnStep,
     AnsweredStep DEF Up, Handler
<1>3. CASE Up /\ \E c \in Clients, r \in Requests : Call(c, r)
  BY <1>3, CallStep DEF Up
<1>4. CASE UNCHANGED vars
  <2>u. UNCHANGED <<server, lbs, args, pc, req, calls, id, len, err, reply, overlap, heap, disk>>
    BY <1>4 DEF vars, callVars
  <2>1. TypeOK' /\ StartInv'
    BY <2>u DEF BlockInv, TypeOK, StartInv, Running
  <2>2. Apart'
    BY <2>u DEF BlockInv, Apart, Running, Alone, Args
  <2>3. OwnInv'
    BY <2>u DEF BlockInv, OwnInv, Running, Alone, Args, ArgsOwn, BufferOwn, DataOwn, Nlb, Range
  <2> QED
    BY <2>1, <2>2, <2>3 DEF BlockInv
<1> QED
  BY <1>1, <1>2, <1>3, <1>4 DEF Next

(* The invariant always holds.                                             *)
LEMMA BlockAlways == Spec => []BlockInv
BY InitBlock, NextBlock, PTL DEF Spec

-----------------------------------------------------------------------------
(* The variables of GRPCSyncServer keep their types: nlb stays in its 16   *)
(* bits and end_block and data_len are numbers.                            *)
THEOREM BlockTypeCorrect == Spec => []TypeOK
<1>1. BlockInv => TypeOK
  BY DEF BlockInv
<1> QED
  BY <1>1, BlockAlways, PTL

(* A call that was alone in its operation has deleted its buffer when it   *)
(* returns, with a good status or a bad one.                               *)
THEOREM BufferReturned == Spec => []NoBufferLeft
<1>1. BlockInv => NoBufferLeft
  BY DEF BlockInv, OwnInv, NoBufferLeft, Alone, Running, BufferOwn
<1> QED
  BY <1>1, BlockAlways, PTL

(* A good answer to a regular write means that exactly the blocks that its *)
(* bytes lie in hold its data, and end_block is the last of them: for      *)
(* every logical block size and every size that nlb can count.             *)
THEOREM WritesExact == Spec => []WriteExact
<1>1. BlockInv => WriteExact
  <2> SUFFICES ASSUME BlockInv, NEW c \in Clients,
                      pc[c] = "returned", Op[c] = "write", Regular(c), ~err[c]
               PROVE  /\ {b \in DOMAIN disk : disk[b] = id[c]} = Cover(req[c])
                      /\ reply[c] \in Cover(req[c]) /\ reply[c] + 1 \notin Cover(req[c])
    BY DEF WriteExact
  <2>1. Alone(c) /\ Running(c)
    BY DEF Regular, Alone, Running
  <2>2. /\ ArgsOwn(c) /\ DataOwn(c) /\ req[c] \in [start : Nat, size : Nat, data : Nat]
        /\ req[c].start \in Nat
    BY <2>1, CallFacts
  <2>3. Args(c).slba = req[c].start /\ Args(c).nlb = Nlb(req[c].size)
    BY <2>2 DEF ArgsOwn, PastSlba, PastNlb, PastLen
  <2>4. Range(c) = req[c].start .. req[c].start + Nlb(req[c].size)
    BY <2>3 DEF Range
  <2>5. Cover(req[c]) = req[c].start .. req[c].start + Nlb(req[c].size)
    BY <2>2, CoverRange DEF Regular
  <2>6. Nlb(req[c].size) \in Nat
    BY NlbExact DEF Regular
  <2>7. /\ Range(c) \subseteq DOMAIN disk
        /\ \A b \in DOMAIN disk : disk[b] = id[c] <=> b \in Range(c)
        /\ reply[c] = req[c].start + Args(c).nlb
    BY <2>2 DEF DataOwn
  <2>8. {b \in DOMAIN disk : disk[b] = id[c]} = Range(c)
    BY <2>7
  <2>9. reply[c] \in Cover(req[c]) /\ reply[c] + 1 \notin Cover(req[c])
    BY <2>2, <2>3, <2>5, <2>6, <2>7
  <2> QED
    BY <2>4, <2>5, <2>8, <2>9
<1> QED
  BY <1>1, BlockAlways, PTL

(* A regular call never leaves its buffer: it finds it live, as long as    *)
(* its data and as long as the command says.                               *)
LEMMA RegularFits ==
  ASSUME BlockInv, NEW d \in Clients, Regular(d), pc[d] \in {"copy", "io", "delete"}
  PROVE  Buffer(d).live /\ req[d].data <= Buffer(d).size /\ Args(d).len <= Buffer(d).size
<1>1. Alone(d) /\ Running(d)
  BY DEF Regular, Alone, Running
<1>2. /\ ArgsOwn(d) /\ BufferOwn(d) /\ req[d].size \in Nat /\ req[d].data \in Nat
      /\ len[d] \in Nat
  BY <1>1, CallFacts DEF BlockInv, TypeOK
<1>3. Buffer(d).live /\ Buffer(d).size = len[d]
  BY <1>2 DEF BufferOwn, Buffer
<1>4. Args(d).len = len[d] /\ len[d] = (Nlb(req[d].size) + 1) * lbs
  BY <1>2 DEF ArgsOwn, PastSlba, PastNlb, PastLen
<1>5. lbs = Lbs /\ Lbs \in Nat /\ req[d].data <= req[d].size
  BY BlockAssumption DEF Regular, BlockAssumption
<1>6. Nlb(req[d].size) \in Nat /\ req[d].size <= Lbs * Nlb(req[d].size) + Lbs
  BY NlbExact DEF Regular
<1>7. len[d] = Lbs * Nlb(req[d].size) + Lbs
  BY <1>4, <1>5, <1>6
<1>8. req[d].data <= len[d]
  BY <1>2, <1>5, <1>6, <1>7
<1> QED
  BY <1>2, <1>3, <1>4, <1>8

(* Each step keeps memory whole, unless it is one of an irregular call.    *)
LEMMA NextWhole == BlockInv /\ NoCorruption /\ [Next]_vars => NoCorruption'
<1> SUFFICES ASSUME BlockInv, NoCorruption, [Next]_vars, server' = "corrupt"
             PROVE  \E c \in Clients : pc'[c] # "idle" /\ ~Regular(c)'
  BY DEF NoCorruption
<1>1. CASE server = "corrupt"
  <2>1. UNCHANGED vars
    BY <1>1 DEF Next, Start, Up
  <2>2. PICK c \in Clients : pc[c] # "idle" /\ ~Regular(c)
    BY <1>1 DEF NoCorruption
  <2>3. UNCHANGED <<lbs, pc, req, overlap>>
    BY <2>1 DEF vars, callVars
  <2> QED
    BY <2>2, <2>3 DEF Regular
<1>2. CASE server # "corrupt"
  <2>1. PICK c \in Clients : /\ pc[c] \in {"copy", "io", "delete"} /\ Corrupt
                            /\ ~(/\ Buffer(c).live /\ req[c].data <= Buffer(c).size
                                 /\ Args(c).len <= Buffer(c).size)
    BY <1>2 DEF Next, Start, Up, Handler, Call, SetSlba, SetNlb, SetLen, Alloc, Copy, Io, Free,
       Return, Answered, vars, Corrupt
  <2>2. ~Regular(c)
    BY <2>1, RegularFits
  <2>3. UNCHANGED <<lbs, pc, req, overlap>>
    BY <2>1 DEF Corrupt, callVars
  <2> QED
    BY <2>1, <2>2, <2>3 DEF Regular
<1> QED
  BY <1>1, <1>2

(* Regular calls damage no memory, whatever runs in the other operation:   *)
(* only a call that shares its arguments, whose data is longer than its    *)
(* size, whose size nlb cannot count, or on a device whose block size was  *)
(* not read, can make the service corrupt.                                 *)
THEOREM MemoryWhole == Spec => []NoCorruption
<1>1. Init => NoCorruption
  BY DEF Init, NoCorruption
<1> QED
  BY <1>1, NextWhole, BlockAlways, PTL DEF Spec

=============================================================================
