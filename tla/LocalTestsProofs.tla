-------------------------- MODULE LocalTestsProofs --------------------------
(***************************************************************************)
(* Proofs about the local tests: what a test that joins its thread prints  *)
(* has been written, and an AIO test leaves nothing behind, for every test *)
(* and every depth, number of writes and size of the context.              *)
(*                                                                         *)
(* A thread's requests are somewhere: written, in the kernel, prepared, or *)
(* lost.  CountInv keeps their number and, while none is lost, how many of *)
(* them go to each file; SeenInv bounds what the completion thread has     *)
(* counted by what has left the completion ring.  A thread that has seen N *)
(* has therefore accounted for all of them; one that gave up has not.      *)
(***************************************************************************)
EXTENDS LocalTests, FiniteSetTheorems, TLAPS

(* The writes that the loop has made: while a small file is open, the one  *)
(* of this turn too.                                                       *)
Made(t) == issued[t] + (IF Blocking /\ open[t] # {} THEN 1 ELSE 0)

(* The share of file f in the first k writes.                              *)
Share(k, f) == Cardinality({i \in 0 .. k - 1 : Target(i) = f})

CountInv(t) ==
  /\ issued[t] <= test.n
  /\ Blocking /\ open[t] # {} => pc[t] = "issue" /\ issued[t] < test.n
  /\ Len(written[t]) + Len(inflight[t]) + Len(sq[t]) + lost[t] = Made(t)
  /\ lost[t] = 0 => \A f \in Nat :
       Times(written[t], f) + Times(inflight[t], f) + Times(sq[t], f) = Share(Made(t), f)

SeenInv(t) ==
  /\ ~Blocking => seen[t] <= Len(written[t]) - Len(cq[t])
  /\ qpc[t] = "done" => seen[t] >= test.n
  /\ pc[t] \in {"total", "done"} /\ test.kind # "large" =>
       IF Blocking THEN issued[t] = test.n ELSE qpc[t] \in {"done", "gaveup"}

BlockingInv(t) ==
  Blocking => /\ sq[t] = <<>> /\ inflight[t] = <<>> /\ cq[t] = <<>>
              /\ lost[t] = 0 /\ qpc[t] = "none"

(* A file of the small test is open until its completion is taken.         *)
Under(t) == {sq[t][i] : i \in 1 .. Len(sq[t])}
              \cup {inflight[t][i] : i \in 1 .. Len(inflight[t])}
              \cup {cq[t][i].file : i \in 1 .. Len(cq[t])}

AioInv(t) ==
  Aio => /\ qpc[t] # "gaveup"
         /\ Len(inflight[t]) + Len(cq[t]) <= Ctx
         /\ freed[t] = Len(written[t]) - Len(cq[t])
         /\ lost[t] = 0 => open[t] \subseteq Under(t)

ThreadInv(t) ==
  pc[t] # "returned" => CountInv(t) /\ SeenInv(t) /\ BlockingInv(t) /\ AioInv(t)

LocalInv == TypeOK /\ \A t \in Threads : ThreadInv(t)

-----------------------------------------------------------------------------
(* Counting.                                                               *)

(* A file occurs finitely often in a sequence.                             *)
LEMMA TimesFinite ==
  ASSUME NEW s \in Seq(Nat), NEW f
  PROVE  IsFiniteSet({i \in 1 .. Len(s) : s[i] = f}) /\ Times(s, f) \in Nat
<1>1. 1 \in Int /\ Len(s) \in Int
  OBVIOUS
<1>2. IsFiniteSet(1 .. Len(s)) /\ {i \in 1 .. Len(s) : s[i] = f} \in SUBSET (1 .. Len(s))
  BY <1>1, FS_Interval
<1>3. IsFiniteSet({i \in 1 .. Len(s) : s[i] = f})
  BY <1>2, FS_Subset
<1> QED
  BY <1>3, FS_CardinalityType DEF Times

(* No file occurs in the empty sequence.                                   *)
LEMMA TimesEmpty ==
  ASSUME NEW f
  PROVE  Times(<<>>, f) = 0
<1>1. {i \in 1 .. Len(<<>>) : <<>>[i] = f} = {}
  OBVIOUS
<1> QED
  BY <1>1, FS_EmptySet DEF Times

(* The elements of a sequence that has got one more.                       *)
LEMMA AppendFacts ==
  ASSUME NEW s \in Seq(Nat), NEW x \in Nat
  PROVE  /\ Append(s, x) \in Seq(Nat) /\ Len(s) \in Nat /\ Len(Append(s, x)) = Len(s) + 1
         /\ \A j \in 1 .. Len(s) : Append(s, x)[j] = s[j]
         /\ Append(s, x)[Len(s) + 1] = x
OBVIOUS

(* An element that is appended counts for its own file.                    *)
LEMMA TimesAppend ==
  ASSUME NEW s \in Seq(Nat), NEW x \in Nat, NEW f
  PROVE  Times(Append(s, x), f) = Times(s, f) + (IF x = f THEN 1 ELSE 0)
<1> DEFINE u == Append(s, x)
           S == {i \in 1 .. Len(s) : s[i] = f}
           U == {i \in 1 .. Len(u) : u[i] = f}
<1>1. /\ Len(s) \in Nat /\ Len(u) = Len(s) + 1
      /\ \A j \in 1 .. Len(s) : u[j] = s[j]
      /\ u[Len(s) + 1] = x
  BY AppendFacts
<1> HIDE DEF u
<1>2. IsFiniteSet(S) /\ Times(s, f) = Cardinality(S) /\ Cardinality(S) \in Nat
  BY TimesFinite DEF Times
<1>3. Len(s) + 1 \notin S
  BY <1>1
<1>4. \A j : j \in 1 .. Len(u) <=> j \in 1 .. Len(s) \/ j = Len(s) + 1
  BY <1>1
<1>5. CASE x = f
  <2>1. U = S \cup {Len(s) + 1}
    BY <1>1, <1>4, <1>5
  <2>2. Cardinality(S \cup {Len(s) + 1}) = Cardinality(S) + 1
    BY <1>2, <1>3, FS_AddElement
  <2> QED
    BY <1>2, <1>5, <2>1, <2>2 DEF Times, u
<1>6. CASE x # f
  <2>1. U = S
    BY <1>1, <1>4, <1>6
  <2>2. Times(u, f) = Times(s, f)
    BY <2>1 DEF Times
  <2> QED
    BY <1>2, <1>6, <2>2 DEF u
<1> QED
  BY <1>5, <1>6

(* The elements of two sequences in a row.                                 *)
LEMMA JoinFacts ==
  ASSUME NEW s \in Seq(Nat), NEW u \in Seq(Nat)
  PROVE  /\ s \o u \in Seq(Nat) /\ Len(s) \in Nat /\ Len(u) \in Nat
         /\ Len(s \o u) = Len(s) + Len(u)
         /\ \A j \in 1 .. Len(s) : (s \o u)[j] = s[j]
         /\ \A j \in 1 .. Len(u) : (s \o u)[Len(s) + j] = u[j]
OBVIOUS

(* A file occurs in two sequences in a row as often as in both.            *)
LEMMA TimesJoin ==
  ASSUME NEW s \in Seq(Nat), NEW u \in Seq(Nat), NEW f
  PROVE  Times(s \o u, f) = Times(s, f) + Times(u, f)
<1> DEFINE w == s \o u
           m == Len(s)
           S == {i \in 1 .. Len(s) : s[i] = f}
           U == {i \in 1 .. Len(u) : u[i] = f}
           V == {i \in m + 1 .. m + Len(u) : w[i] = f}
           W == {i \in 1 .. Len(w) : w[i] = f}
           g == [i \in U |-> m + i]
<1>1. /\ w \in Seq(Nat) /\ m \in Nat /\ Len(u) \in Nat /\ Len(w) = m + Len(u)
      /\ \A j \in 1 .. m : w[j] = s[j]
      /\ \A j \in 1 .. Len(u) : w[m + j] = u[j]
  BY JoinFacts
<1>2. IsFiniteSet(S) /\ IsFiniteSet(U) /\ Times(s, f) = Cardinality(S)
      /\ Times(u, f) = Cardinality(U)
      /\ Times(w, f) = Cardinality(W)
  BY TimesFinite DEF Times
<1> HIDE DEF w
<1>3. \A j \in U : g[j] \in V
  BY <1>1
<1>4. \A j, l \in U : g[j] = g[l] => j = l
  BY <1>1
<1>5. \A v \in V : \E j \in U : g[j] = v
  <2> SUFFICES ASSUME NEW v \in V PROVE \E j \in U : g[j] = v
    OBVIOUS
  <2>1. v \in m + 1 .. m + Len(u) /\ w[v] = f
    OBVIOUS
  <2>2. v - m \in 1 .. Len(u) /\ m + (v - m) = v
    BY <1>1, <2>1
  <2>3. u[v - m] = f
    BY <1>1, <2>1, <2>2
  <2> QED
    BY <2>2, <2>3
<1>6. ExistsBijection(U, V)
  <2>1. g \in [U -> V]
    BY <1>3
  <2> HIDE DEF g
  <2>2. g \in Bijection(U, V)
    BY <2>1, <1>4, <1>5 DEF Bijection, Injection, Surjection, IsInjective
  <2> QED
    BY <2>2 DEF ExistsBijection
<1>7. IsFiniteSet(V) /\ Cardinality(V) = Cardinality(U)
  BY <1>2, <1>6, FS_Bijection
<1>8. W = S \cup V /\ S \cap V = {}
  <2>1. S \cap V = {}
    BY <1>1
  <2>2. \A j : j \in 1 .. Len(w) <=> j \in 1 .. m \/ j \in m + 1 .. m + Len(u)
    BY <1>1
  <2>3. W = S \cup V
    BY <1>1, <2>2
  <2> QED
    BY <2>1, <2>3
<1> HIDE DEF S, U, V, W
<1>9. Cardinality(S \cup V) = Cardinality(S) + Cardinality(V) - Cardinality(S \cap V)
  BY <1>2, <1>7, FS_Union
<1>10. Cardinality(S \cap V) = 0 /\ Cardinality(S) \in Nat /\ Cardinality(V) \in Nat
  BY <1>2, <1>7, <1>8, FS_EmptySet, FS_CardinalityType
<1> QED
  BY <1>2, <1>7, <1>8, <1>9, <1>10 DEF w

(* Taking an element out of a sequence.                                    *)
LEMMA SplitFacts ==
  ASSUME NEW s \in Seq(Nat), NEW k \in 1 .. Len(s)
  PROVE  LET a == SubSeq(s, 1, k - 1)
             b == SubSeq(s, k + 1, Len(s))
             w == Append(a, s[k]) \o b
         IN  /\ a \in Seq(Nat) /\ b \in Seq(Nat) /\ s[k] \in Nat /\ w \in Seq(Nat)
             /\ Len(a) = k - 1 /\ Len(b) = Len(s) - k /\ Len(w) = Len(s)
             /\ \A j \in 1 .. Len(s) : w[j] = s[j]
<1> DEFINE a == SubSeq(s, 1, k - 1)
           b == SubSeq(s, k + 1, Len(s))
           c == Append(a, s[k])
           w == c \o b
<1>1. /\ a \in Seq(Nat) /\ Len(a) = k - 1 /\ s[k] \in Nat
      /\ \A j \in 1 .. k - 1 : a[j] = s[j]
  OBVIOUS
<1>2. /\ b \in Seq(Nat) /\ Len(b) = Len(s) - k
      /\ \A j \in 1 .. Len(s) - k : b[j] = s[k + j]
  OBVIOUS
<1> HIDE DEF a, b
<1>3. /\ c \in Seq(Nat) /\ Len(c) = k
      /\ \A j \in 1 .. k : c[j] = s[j]
  BY <1>1
<1> HIDE DEF c
<1>4. /\ w \in Seq(Nat) /\ Len(w) = Len(c) + Len(b)
      /\ \A j \in 1 .. Len(c) : w[j] = c[j]
      /\ \A j \in 1 .. Len(b) : w[Len(c) + j] = b[j]
  BY <1>2, <1>3, JoinFacts
<1> HIDE DEF w
<1>5. ASSUME NEW j \in 1 .. Len(s)
      PROVE  w[j] = s[j]
  <2>1. CASE j <= k
    BY <2>1, <1>3, <1>4
  <2>2. CASE j > k
    <3>1. j - k \in 1 .. Len(b) /\ Len(c) + (j - k) = j /\ k + (j - k) = j
      BY <2>2, <1>2, <1>3
    <3> QED
      BY <3>1, <1>2, <1>4
  <2> QED
    BY <2>1, <2>2
<1>6. Len(w) = Len(s)
  BY <1>2, <1>3, <1>4
<1> QED
  BY <1>1, <1>2, <1>4, <1>5, <1>6 DEF a, b, c, w

(* An element that is taken out counted for its own file.                  *)
LEMMA TimesTake ==
  ASSUME NEW s \in Seq(Nat), NEW k \in 1 .. Len(s), NEW f
  PROVE  Times(s, f) =
           Times(SubSeq(s, 1, k - 1) \o SubSeq(s, k + 1, Len(s)), f)
             + (IF s[k] = f THEN 1 ELSE 0)
<1> DEFINE a == SubSeq(s, 1, k - 1)
           b == SubSeq(s, k + 1, Len(s))
           x == s[k]
           w == Append(a, x) \o b
<1>1. /\ a \in Seq(Nat) /\ b \in Seq(Nat) /\ x \in Nat /\ Len(w) = Len(s)
      /\ \A j \in 1 .. Len(s) : w[j] = s[j]
  BY SplitFacts
<1>2. Times(w, f) = Times(s, f)
  <2> HIDE DEF a, b, x, w
  <2>1. {i \in 1 .. Len(w) : w[i] = f} = {i \in 1 .. Len(s) : s[i] = f}
    BY <1>1
  <2> QED
    BY <2>1 DEF Times
<1> HIDE DEF a, b, x
<1>3. Append(a, x) \in Seq(Nat)
  BY <1>1
<1>4. Times(Append(a, x) \o b, f) = Times(Append(a, x), f) + Times(b, f)
  BY <1>1, <1>3, TimesJoin
<1>5. Times(a \o b, f) = Times(a, f) + Times(b, f)
  BY <1>1, TimesJoin
<1>6. Times(Append(a, x), f) = Times(a, f) + (IF x = f THEN 1 ELSE 0)
  BY <1>1, TimesAppend
<1>7. Times(a, f) \in Nat /\ Times(b, f) \in Nat
  BY <1>1, TimesFinite
<1>8. Times(s, f) = Times(a \o b, f) + (IF x = f THEN 1 ELSE 0)
  <2> DEFINE one == IF x = f THEN 1 ELSE 0
  <2>1. one \in Nat
    OBVIOUS
  <2> HIDE DEF one
  <2>2. Times(Append(a, x), f) = Times(a, f) + one
    BY <1>6 DEF one
  <2>3. Times(s, f) = Times(a \o b, f) + one
    BY <1>2, <1>4, <1>5, <2>2, <1>7, <2>1
  <2> QED
    BY <2>3 DEF one
<1> QED
  BY <1>8 DEF a, b, x

(* The tests and their arguments.                                          *)
LEMMA TestFacts ==
  ASSUME test \in Tests
  PROVE  /\ test.kind \in Kinds /\ test.n \in Nat /\ test.n > 0
         /\ test.depth \in Nat /\ test.depth > 0 /\ test.fn \in Nat /\ test.fn > 0
         /\ Ctx \in Nat /\ Ctx > 0 /\ MaxFails \in Nat
<1>1. test \in TestType
  BY TestsAssumption DEF TestsAssumption
<1> QED
  BY <1>1, TestsAssumption DEF TestsAssumption, TestType

(* A write goes to a file.                                                 *)
LEMMA TargetType ==
  ASSUME test \in Tests, NEW i \in Nat
  PROVE  Target(i) \in Nat
<1>1. test.fn \in Nat /\ test.fn > 0
  BY TestFacts
<1>2. i % test.fn \in Nat
  BY <1>1
<1> QED
  BY <1>2 DEF Target

(* The share of a file is a number.                                        *)
LEMMA ShareFinite ==
  ASSUME NEW k \in Nat, NEW f
  PROVE  IsFiniteSet({i \in 0 .. k - 1 : Target(i) = f}) /\ Share(k, f) \in Nat
<1>1. IsFiniteSet(0 .. k - 1)
  BY FS_Interval
<1>2. {i \in 0 .. k - 1 : Target(i) = f} \in SUBSET (0 .. k - 1)
  OBVIOUS
<1>3. IsFiniteSet({i \in 0 .. k - 1 : Target(i) = f})
  BY <1>1, <1>2, FS_Subset
<1> QED
  BY <1>3, FS_CardinalityType DEF Share

(* The next write belongs to the share of its file.                        *)
LEMMA ShareAdd ==
  ASSUME NEW k \in Nat, NEW f
  PROVE  Share(k + 1, f) = Share(k, f) + (IF Target(k) = f THEN 1 ELSE 0)
<1> DEFINE S == {i \in 0 .. k - 1 : Target(i) = f}
           U == {i \in 0 .. (k + 1) - 1 : Target(i) = f}
<1>1. IsFiniteSet(S) /\ Share(k, f) = Cardinality(S) /\ Share(k, f) \in Nat
  BY ShareFinite DEF Share
<1>2. k \notin S
  OBVIOUS
<1>3. \A j : j \in 0 .. (k + 1) - 1 <=> j \in 0 .. k - 1 \/ j = k
  OBVIOUS
<1>4. CASE Target(k) = f
  <2>1. U = S \cup {k}
    BY <1>3, <1>4
  <2>2. Cardinality(S \cup {k}) = Cardinality(S) + 1
    BY <1>1, <1>2, FS_AddElement
  <2> QED
    BY <1>1, <1>4, <2>1, <2>2 DEF Share
<1>5. CASE Target(k) # f
  <2>1. U = S
    BY <1>3, <1>5
  <2>2. Share(k + 1, f) = Share(k, f)
    BY <2>1 DEF Share
  <2> QED
    BY <1>1, <1>5, <2>2
<1> QED
  BY <1>4, <1>5

(* Nothing is due before the first write.                                  *)
LEMMA ShareZero ==
  ASSUME NEW f
  PROVE  Share(0, f) = 0
<1>1. {i \in 0 .. 0 - 1 : Target(i) = f} = {}
  OBVIOUS
<1> QED
  BY <1>1, FS_EmptySet DEF Share

(* The shares are those of the test, which never changes.                  *)
LEMMA ShareSame ==
  ASSUME test' = test, NEW k, NEW f
  PROVE  Share(k, f)' = Share(k, f)
<1>1. \A i : Target(i)' = Target(i)
  BY DEF Target, Spins
<1>2. {i \in 0 .. k - 1 : Target(i)' = f} = {i \in 0 .. k - 1 : Target(i) = f}
  BY <1>1
<1> QED
  BY <1>2 DEF Share

-----------------------------------------------------------------------------
(* Types.                                                                  *)

(* What is left of the completion ring when k are taken.                   *)
LEMMA RestFacts ==
  ASSUME NEW S, NEW s \in Seq(S), NEW k \in 1 .. Len(s)
  PROVE  /\ SubSeq(s, k + 1, Len(s)) \in Seq(S)
         /\ Len(SubSeq(s, k + 1, Len(s))) = Len(s) - k
         /\ \A i \in 1 .. Len(s) - k : SubSeq(s, k + 1, Len(s))[i] = s[k + i]
OBVIOUS

(* The first k of the prepared requests.                                   *)
LEMMA FirstFacts ==
  ASSUME NEW s \in Seq(Nat), NEW k \in 0 .. Len(s)
  PROVE  /\ SubSeq(s, 1, k) \in Seq(Nat) /\ Len(SubSeq(s, 1, k)) = k
         /\ \A i \in 1 .. k : SubSeq(s, 1, k)[i] = s[i]
OBVIOUS

(* The types hold initially.                                               *)
LEMMA InitTypes ==
  ASSUME Init
  PROVE  TypeOK
<1>1. test \in Tests /\ MaxFails \in Nat
  BY TestFacts DEF Init
<1>2. pc \in [Threads -> {"none", "init", "open", "issue", "join", "total", "done", "returned"}]
  BY DEF Init
<1>3. /\ sq \in [Threads -> Seq(Nat)] /\ inflight \in [Threads -> Seq(Nat)]
      /\ cq \in [Threads -> Seq(Completion)] /\ written \in [Threads -> Seq(Nat)]
  BY DEF Init
<1>4. /\ issued \in [Threads -> Nat] /\ seen \in [Threads -> Int] /\ lost \in [Threads -> Nat]
      /\ freed \in [Threads -> Nat] /\ open \in [Threads -> SUBSET Nat]
      /\ qpc \in [Threads -> {"none", "wait", "done", "gaveup"}]
  BY DEF Init
<1>5. crashed \in BOOLEAN
  BY DEF Init
<1>6. fails \in 0 .. MaxFails
  BY <1>1 DEF Init
<1> QED
  BY <1>1, <1>2, <1>3, <1>4, <1>5, <1>6 DEF TypeOK

(* Active threads are threads.                                             *)
LEMMA ActiveThreads == Active \subseteq Threads
BY DEF Active, Threads

-----------------------------------------------------------------------------
(* Steps.                                                                  *)

(* A step of thread t leaves the other one alone.                          *)
Others(t) ==
  \A u \in Threads \ {t} :
    /\ pc'[u] = pc[u] /\ issued'[u] = issued[u] /\ lost'[u] = lost[u]
    /\ sq'[u] = sq[u] /\ inflight'[u] = inflight[u] /\ cq'[u] = cq[u]
    /\ written'[u] = written[u] /\ qpc'[u] = qpc[u] /\ seen'[u] = seen[u]
    /\ freed'[u] = freed[u] /\ open'[u] = open[u]

(* A thread whose state is as before keeps its invariant.                  *)
LEMMA Frame ==
  ASSUME test' = test, NEW t \in Threads, ThreadInv(t),
         pc'[t] = pc[t], issued'[t] = issued[t], lost'[t] = lost[t],
         sq'[t] = sq[t], inflight'[t] = inflight[t], cq'[t] = cq[t],
         written'[t] = written[t], qpc'[t] = qpc[t], seen'[t] = seen[t],
         freed'[t] = freed[t], open'[t] = open[t]
  PROVE  ThreadInv(t)'
<1>1. (Blocking' <=> Blocking) /\ (Aio' <=> Aio) /\ Made(t)' = Made(t)
  BY DEF Blocking, Aio, Made
<1>2. \A k, f : Share(k, f)' = Share(k, f)
  BY ShareSame
<1>3. CountInv(t) => CountInv(t)'
  BY <1>1, <1>2 DEF CountInv
<1>4. SeenInv(t) => SeenInv(t)'
  BY <1>1 DEF SeenInv
<1>5. BlockingInv(t) => BlockingInv(t)'
  BY <1>1 DEF BlockingInv
<1>6. AioInv(t) => AioInv(t)'
  BY <1>1 DEF AioInv, Under
<1> QED
  BY <1>3, <1>4, <1>5, <1>6 DEF ThreadInv

(* It is enough to look at the thread that has made the step.              *)
LEMMA StepOf ==
  ASSUME LocalInv, NEW t \in Threads, test' = test, TypeOK', Others(t), ThreadInv(t)'
  PROVE  LocalInv'
<1>1. ASSUME NEW u \in Threads PROVE ThreadInv(u)'
  <2>1. CASE u = t
    BY <2>1
  <2>2. CASE u # t
    <3>1. ThreadInv(u)
      BY DEF LocalInv
    <3> QED
      BY <2>2, <3>1, Frame DEF Others
  <2> QED
    BY <2>1, <2>2
<1> QED
  BY <1>1 DEF LocalInv

(* Where an issuing thread can be.                                         *)
Steps == {"none", "init", "open", "issue", "join", "total", "done", "returned"}

(* A step of the program counter, with what it must have found.            *)
MoveTo(t, step) ==
  /\ Goto(t, step) /\ pc[t] # "returned"
  /\ \/ qpc' = qpc
     \/ ~Blocking /\ qpc' = [qpc EXCEPT ![t] = "wait"] /\ step \notin {"total", "done"}
  /\ Blocking /\ open[t] # {} => step \in {"issue", "returned"}
  /\ step \in {"total", "done"} /\ test.kind # "large" =>
       IF Blocking THEN issued[t] = test.n ELSE qpc[t] \in {"done", "gaveup"}
  /\ UNCHANGED <<test, crashed, issued, lost, ringVars, seen, freed, fails, open>>

(* Such a step keeps the invariant.                                        *)
LEMMA Moves ==
  ASSUME LocalInv, NEW t \in Threads, NEW step \in Steps, MoveTo(t, step)
  PROVE  LocalInv'
<1> USE DEF ringVars, MoveTo
<1>1. TypeOK /\ ThreadInv(t)
  BY DEF LocalInv
<1>2. TypeOK'
  BY <1>1 DEF TypeOK, Goto, Steps
<1>3. /\ pc'[t] = step
      /\ \/ qpc'[t] = qpc[t]
         \/ ~Blocking /\ qpc'[t] = "wait" /\ step \notin {"total", "done"}
      /\ \A u \in Threads \ {t} : pc'[u] = pc[u] /\ qpc'[u] = qpc[u]
  <2>1. DOMAIN pc = Threads /\ DOMAIN qpc = Threads
    BY <1>1 DEF TypeOK
  <2>2. pc' = [pc EXCEPT ![t] = step]
    BY DEF Goto
  <2> HIDE DEF MoveTo
  <2>3. pc'[t] = step /\ \A u \in Threads \ {t} : pc'[u] = pc[u]
    BY <2>1, <2>2
  <2>4. CASE qpc' = qpc
    BY <2>3, <2>4
  <2>5. CASE ~Blocking /\ qpc' = [qpc EXCEPT ![t] = "wait"] /\ step \notin {"total", "done"}
    BY <2>1, <2>3, <2>5
  <2> QED
    BY <2>4, <2>5 DEF MoveTo
<1>4. Others(t)
  BY <1>3 DEF Others
<1>5. ASSUME step # "returned" PROVE ThreadInv(t)'
  <2>1. (Blocking' <=> Blocking) /\ (Aio' <=> Aio) /\ Made(t)' = Made(t)
    BY DEF Blocking, Aio, Made
  <2>2. \A k, f : Share(k, f)' = Share(k, f)
    BY ShareSame
  <2>3. CountInv(t)'
    BY <1>1, <1>3, <1>5, <2>1, <2>2 DEF ThreadInv, CountInv
  <2>4. SeenInv(t)'
    BY <1>1, <1>3, <1>5, <2>1 DEF ThreadInv, SeenInv
  <2>5. BlockingInv(t)'
    BY <1>1, <1>3, <1>5, <2>1 DEF ThreadInv, BlockingInv
  <2>6. AioInv(t)'
    <3>1. AioInv(t) /\ Under(t)' = Under(t)
      BY <1>1 DEF ThreadInv, Under
    <3> QED
      BY <1>3, <2>1, <3>1 DEF AioInv
  <2> QED
    BY <2>3, <2>4, <2>5, <2>6 DEF ThreadInv
<1>6. ThreadInv(t)'
  BY <1>3, <1>5 DEF ThreadInv
<1> QED
  BY <1>2, <1>4, <1>6, StepOf

(* Before and after the writes, and when the thread is joined.             *)
LEMMA ControlSteps ==
  ASSUME LocalInv, NEW t \in Threads,
         \/ Setup(t) \/ SetupBlocking(t) \/ SetupFails(t) \/ OpenFiles(t)
         \/ LoopEnds(t) \/ Join(t)
  PROVE  LocalInv'
<1>1. TypeOK /\ ThreadInv(t)
  BY DEF LocalInv
<1>2. CASE Setup(t)
  <2>1. PICK step \in {"open", "issue"} : Goto(t, step)
    BY <1>2 DEF Setup
  <2>2. MoveTo(t, step)
    BY <1>2, <2>1 DEF Setup, MoveTo
  <2> QED
    BY <2>2, Moves DEF Steps
<1>3. CASE SetupBlocking(t)
  <2>1. /\ Goto(t, "issue") /\ pc[t] # "returned" /\ qpc' = qpc
        /\ UNCHANGED <<test, crashed, issued, lost, ringVars, seen, freed, fails, open>>
    BY <1>3 DEF SetupBlocking, threadVars
  <2>2. MoveTo(t, "issue")
    BY <2>1 DEF MoveTo
  <2> QED
    BY <2>2, Moves DEF Steps
<1>4. CASE SetupFails(t)
  <2>1. /\ Goto(t, "returned") /\ pc[t] # "returned" /\ qpc' = qpc
        /\ UNCHANGED <<test, crashed, issued, lost, ringVars, seen, freed, fails, open>>
    BY <1>4 DEF SetupFails, threadVars
  <2>2. MoveTo(t, "returned")
    BY <2>1 DEF MoveTo
  <2> QED
    BY <2>2, Moves DEF Steps
<1>5. CASE OpenFiles(t)
  <2>1. /\ Goto(t, "issue") /\ pc[t] # "returned" /\ qpc' = qpc
        /\ UNCHANGED <<test, crashed, issued, lost, ringVars, seen, freed, fails, open>>
    BY <1>5 DEF OpenFiles, threadVars
  <2>2. MoveTo(t, "issue")
    BY <2>1 DEF MoveTo
  <2> QED
    BY <2>2, Moves DEF Steps
<1>6. CASE LoopEnds(t)
  <2>1. PICK step \in {"total", "join"} :
          /\ Goto(t, step)
          /\ step = "total" => test.kind = "large" \/ Blocking
    BY <1>6 DEF LoopEnds
  <2>2. issued[t] = test.n /\ pc[t] = "issue" /\ test.n \in Nat
    BY <1>1, <1>6, TestFacts DEF LoopEnds, TypeOK
  <2>3. ~(Blocking /\ open[t] # {})
    <3>1. Blocking /\ open[t] # {} => issued[t] < test.n
      BY <1>1, <2>2 DEF ThreadInv, CountInv
    <3> QED
      BY <2>2, <3>1
  <2>4. /\ pc[t] # "returned" /\ qpc' = qpc
        /\ UNCHANGED <<test, crashed, issued, lost, ringVars, seen, freed, fails, open>>
    BY <1>6, <2>2 DEF LoopEnds, threadVars
  <2>5. step \in {"total", "done"} /\ test.kind # "large" =>
           IF Blocking THEN issued[t] = test.n ELSE qpc[t] \in {"done", "gaveup"}
    BY <2>1, <2>2
  <2>6. MoveTo(t, step)
    BY <2>1, <2>3, <2>4, <2>5 DEF MoveTo
  <2> QED
    BY <2>6, Moves DEF Steps
<1>7. CASE Join(t)
  <2>1. ~(Blocking /\ open[t] # {}) /\ ~Blocking
    BY <1>1, <1>7 DEF Join, GaveUp, ThreadInv, CountInv, BlockingInv
  <2>2. /\ Goto(t, "total") /\ pc[t] # "returned" /\ qpc' = qpc /\ qpc[t] \in {"done", "gaveup"}
        /\ UNCHANGED <<test, crashed, issued, lost, ringVars, seen, freed, fails, open>>
    BY <1>7 DEF Join, GaveUp, threadVars
  <2>3. MoveTo(t, "total")
    BY <2>1, <2>2 DEF MoveTo
  <2> QED
    BY <2>3, Moves DEF Steps
<1> QED
  BY <1>2, <1>3, <1>4, <1>5, <1>6, <1>7

(* std::terminate leaves everything as it is.                              *)
LEMMA TerminateStep ==
  ASSUME LocalInv, Terminate
  PROVE  LocalInv'
<1> USE DEF Terminate, issuerVars, ringVars, threadVars
<1>1. TypeOK'
  <2>1. crashed' \in BOOLEAN
    OBVIOUS
  <2> QED
    BY <2>1 DEF LocalInv, TypeOK
<1>2. ASSUME NEW t \in Threads PROVE ThreadInv(t)'
  <2>1. ThreadInv(t)
    BY DEF LocalInv
  <2> QED
    BY <2>1, Frame
<1> QED
  BY <1>1, <1>2 DEF LocalInv

(* A stuttering step too.                                                  *)
LEMMA Stutter ==
  ASSUME LocalInv, UNCHANGED vars
  PROVE  LocalInv'
<1> USE DEF vars, issuerVars, ringVars, threadVars
<1>1. TypeOK'
  BY DEF LocalInv, TypeOK
<1>2. ASSUME NEW t \in Threads PROVE ThreadInv(t)'
  <2>1. ThreadInv(t)
    BY DEF LocalInv
  <2> QED
    BY <2>1, Frame
<1> QED
  BY <1>1, <1>2 DEF LocalInv

(* The total is printed, and the test ends or is terminated.               *)
LEMMA FinishStep ==
  ASSUME LocalInv, NEW t \in Threads, Finish(t)
  PROVE  LocalInv'
<1>1. CASE test.kind = "large"
  BY <1>1, TerminateStep DEF Finish
<1>2. CASE test.kind # "large"
  <2>1. pc[t] = "total" /\ ThreadInv(t)
    BY DEF Finish, LocalInv
  <2>2. /\ Goto(t, "done") /\ qpc' = qpc
        /\ UNCHANGED <<test, crashed, issued, lost, ringVars, seen, freed, fails, open>>
    BY <1>2 DEF Finish, threadVars
  <2>3. /\ ~(Blocking /\ open[t] # {})
        /\ IF Blocking THEN issued[t] = test.n ELSE qpc[t] \in {"done", "gaveup"}
    BY <1>2, <2>1 DEF ThreadInv, CountInv, SeenInv
  <2>4. MoveTo(t, "done")
    BY <2>1, <2>2, <2>3 DEF MoveTo
  <2> QED
    BY <2>4, Moves DEF Steps
<1> QED
  BY <1>1, <1>2

(* A call fails and the thread returns with its own thread joinable, or    *)
(* the large test finds no slot.                                           *)
LEMMA ReturnSteps ==
  ASSUME LocalInv, NEW t \in Threads, CallFails(t) \/ NoSlot(t)
  PROVE  LocalInv'
BY TerminateStep DEF CallFails, NoSlot

-----------------------------------------------------------------------------
(* Steps that move requests.                                               *)

(* The state of one thread.                                                *)
LEMMA ThreadTypes ==
  ASSUME TypeOK, NEW t \in Threads
  PROVE  /\ test \in Tests /\ issued[t] \in Nat /\ lost[t] \in Nat
         /\ sq[t] \in Seq(Nat) /\ inflight[t] \in Seq(Nat) /\ written[t] \in Seq(Nat)
         /\ cq[t] \in Seq(Completion) /\ seen[t] \in Int /\ freed[t] \in Nat
         /\ open[t] \in SUBSET Nat /\ Made(t) \in Nat
         /\ Len(sq[t]) \in Nat /\ Len(inflight[t]) \in Nat
         /\ Len(written[t]) \in Nat /\ Len(cq[t]) \in Nat
<1>1. /\ test \in Tests /\ issued[t] \in Nat /\ lost[t] \in Nat
      /\ sq[t] \in Seq(Nat) /\ inflight[t] \in Seq(Nat) /\ written[t] \in Seq(Nat)
      /\ cq[t] \in Seq(Completion) /\ seen[t] \in Int /\ freed[t] \in Nat
      /\ open[t] \in SUBSET Nat
  BY DEF TypeOK
<1>2. Made(t) \in Nat
  BY <1>1 DEF Made
<1> QED
  BY <1>1, <1>2

(* Sequences with the same elements hold a file equally often.             *)
LEMMA TimesSame ==
  ASSUME NEW s, NEW u, NEW f, Len(s) = Len(u), \A j \in 1 .. Len(s) : s[j] = u[j]
  PROVE  Times(s, f) = Times(u, f)
<1>1. {i \in 1 .. Len(s) : s[i] = f} = {i \in 1 .. Len(u) : u[i] = f}
  OBVIOUS
<1> QED
  BY <1>1 DEF Times

(* The first element of a sequence counted for its own file.               *)
LEMMA TimesTail ==
  ASSUME NEW s \in Seq(Nat), s # <<>>, NEW f
  PROVE  /\ Head(s) \in Nat /\ Tail(s) \in Seq(Nat) /\ Len(Tail(s)) = Len(s) - 1
         /\ Times(s, f) = Times(Tail(s), f) + (IF Head(s) = f THEN 1 ELSE 0)
<1> DEFINE a == SubSeq(s, 1, 1 - 1)
           b == SubSeq(s, 1 + 1, Len(s))
<1>1. /\ Head(s) \in Nat /\ Tail(s) \in Seq(Nat) /\ Len(Tail(s)) = Len(s) - 1
      /\ Head(s) = s[1] /\ 1 \in 1 .. Len(s)
      /\ \A j \in 1 .. Len(s) - 1 : Tail(s)[j] = s[j + 1]
  OBVIOUS
<1>2. /\ a \in Seq(Nat) /\ b \in Seq(Nat) /\ Len(a) = 0 /\ Len(b) = Len(s) - 1
      /\ \A j \in 1 .. Len(s) - 1 : b[j] = s[j + 1]
  BY <1>1
<1>3. Times(s, f) = Times(a \o b, f) + (IF s[1] = f THEN 1 ELSE 0)
  BY <1>1, TimesTake
<1> HIDE DEF a, b
<1>4. Times(a \o b, f) = Times(Tail(s), f)
  <2>1. /\ Len(a \o b) = Len(a) + Len(b)
        /\ \A j \in 1 .. Len(b) : (a \o b)[Len(a) + j] = b[j]
    BY <1>2, JoinFacts
  <2>2. \A j \in 1 .. Len(s) - 1 : (a \o b)[j] = Tail(s)[j]
    BY <1>1, <1>2, <2>1
  <2>3. Len(a \o b) = Len(Tail(s)) /\ Len(a \o b) = Len(s) - 1
    BY <1>1, <1>2, <2>1
  <2> QED
    BY <2>2, <2>3, TimesSame
<1> QED
  BY <1>1, <1>3, <1>4

(* The requests of one thread that have not been lost, by file.            *)
Held(t, f) == Times(written[t], f) + Times(inflight[t], f) + Times(sq[t], f)

(* They are a number.                                                      *)
LEMMA HeldType ==
  ASSUME TypeOK, NEW t \in Threads, NEW f
  PROVE  /\ Times(written[t], f) \in Nat /\ Times(inflight[t], f) \in Nat
         /\ Times(sq[t], f) \in Nat /\ Held(t, f) \in Nat
<1>1. /\ Times(written[t], f) \in Nat /\ Times(inflight[t], f) \in Nat
      /\ Times(sq[t], f) \in Nat
  BY ThreadTypes, TimesFinite
<1> QED
  BY <1>1 DEF Held

(* All requests of one thread.                                             *)
Number(t) == Len(written[t]) + Len(inflight[t]) + Len(sq[t]) + lost[t]

(* What a step adds to each part of them.                                  *)
Shift(t, dw, di, ds, dl) ==
  /\ Len(written'[t]) = Len(written[t]) + dw /\ Len(inflight'[t]) = Len(inflight[t]) + di
  /\ Len(sq'[t]) = Len(sq[t]) + ds /\ lost'[t] = lost[t] + dl

(* How that adds up.                                                       *)
LEMMA Lengths ==
  ASSUME TypeOK, NEW t \in Threads,
         NEW dw \in Int, NEW di \in Int, NEW ds \in Int, NEW dl \in Int,
         Shift(t, dw, di, ds, dl)
  PROVE  Number(t)' = Number(t) + (dw + di + ds + dl) /\ Number(t) \in Nat
<1> DEFINE w == Len(written[t])
           w1 == Len(written'[t])
           i == Len(inflight[t])
           i1 == Len(inflight'[t])
           s == Len(sq[t])
           s1 == Len(sq'[t])
           l == lost[t]
           l1 == lost'[t]
<1>1. w \in Nat /\ i \in Nat /\ s \in Nat /\ l \in Nat
  BY ThreadTypes
<1>2. w1 = w + dw /\ i1 = i + di /\ s1 = s + ds /\ l1 = l + dl
  BY DEF Shift
<1> HIDE DEF w, w1, i, i1, s, s1, l, l1
<1>3. w1 + i1 + s1 + l1 = w + i + s + l + (dw + di + ds + dl)
  BY <1>1, <1>2
<1>4. w + i + s + l \in Nat
  BY <1>1
<1> QED
  BY <1>3, <1>4 DEF Number, w, w1, i, i1, s, s1, l, l1

(* What a step adds to the requests of each part for one file.             *)
FileShift(t, f, dw, di, ds) ==
  /\ Times(written'[t], f) = Times(written[t], f) + dw
  /\ Times(inflight'[t], f) = Times(inflight[t], f) + di
  /\ Times(sq'[t], f) = Times(sq[t], f) + ds

(* How that adds up.                                                       *)
LEMMA Shares ==
  ASSUME TypeOK, NEW t \in Threads, NEW f \in Nat,
         NEW dw \in Int, NEW di \in Int, NEW ds \in Int, FileShift(t, f, dw, di, ds)
  PROVE  Held(t, f)' = Held(t, f) + (dw + di + ds)
<1> DEFINE w == Times(written[t], f)
           w1 == Times(written'[t], f)
           i == Times(inflight[t], f)
           i1 == Times(inflight'[t], f)
           s == Times(sq[t], f)
           s1 == Times(sq'[t], f)
<1>1. w \in Nat /\ i \in Nat /\ s \in Nat
  BY HeldType
<1>2. w1 = w + dw /\ i1 = i + di /\ s1 = s + ds
  BY DEF FileShift
<1> HIDE DEF w, w1, i, i1, s, s1
<1>3. w1 + i1 + s1 = w + i + s + (dw + di + ds)
  BY <1>1, <1>2
<1> QED
  BY <1>3 DEF Held, w, w1, i, i1, s, s1

(* A step that moves requests about, or makes the next one.                *)
Accounted(t, made) ==
  /\ test' = test
  /\ Made(t)' = Made(t) + made
  /\ Number(t)' = Number(t) + made
  /\ lost'[t] = 0 =>
       /\ lost[t] = 0
       /\ \A f \in Nat :
            Held(t, f)' = Held(t, f) + (IF made = 1 /\ Target(Made(t)) = f THEN 1 ELSE 0)

(* Such a step keeps the count.                                            *)
LEMMA Counts ==
  ASSUME TypeOK, NEW t \in Threads, CountInv(t), NEW made \in {0, 1}, Accounted(t, made),
         issued'[t] <= test.n,
         Blocking /\ open'[t] # {} => pc'[t] = "issue" /\ issued'[t] < test.n
  PROVE  CountInv(t)'
<1>1. Made(t) \in Nat /\ test' = test
  BY ThreadTypes DEF Accounted
<1>2. ASSUME NEW f \in Nat, lost'[t] = 0
      PROVE  Held(t, f)' = Share(Made(t), f)'
  <2>1. Held(t, f) = Share(Made(t), f)
    BY <1>2 DEF Accounted, CountInv, Held
  <2>2. CASE made = 0
    <3>1. Held(t, f)' = Held(t, f) + 0 /\ Made(t)' = Made(t) + 0
      BY <1>2, <2>2 DEF Accounted
    <3>2. Held(t, f)' = Share(Made(t), f) /\ Made(t)' = Made(t)
      BY <1>1, <2>1, <3>1, HeldType
    <3> QED
      BY <1>1, <3>2, ShareSame
  <2>3. CASE made = 1
    <3>1. Held(t, f)' = Held(t, f) + (IF Target(Made(t)) = f THEN 1 ELSE 0)
      BY <1>2, <2>3 DEF Accounted
    <3>2. Made(t)' = Made(t) + 1
      BY <2>3 DEF Accounted
    <3>3. Held(t, f)' = Share(Made(t) + 1, f)
      BY <1>1, <2>1, <3>1, ShareAdd
    <3> QED
      BY <1>1, <3>2, <3>3, ShareSame
  <2> QED
    BY <2>2, <2>3
<1>3. Number(t)' = Made(t)'
  BY DEF Accounted, CountInv, Number
<1>4. Blocking' <=> Blocking
  BY <1>1 DEF Blocking
<1> QED
  BY <1>1, <1>2, <1>3, <1>4 DEF CountInv, Held, Number

(* The blocking tests write by themselves.                                 *)
LEMMA WriteBlockingStep ==
  ASSUME LocalInv, NEW t \in Threads, WriteBlocking(t)
  PROVE  LocalInv'
<1> DEFINE x == Target(issued[t])
<1>1. TypeOK /\ pc[t] = "issue" /\ issued[t] < test.n /\ Blocking /\ open[t] = {}
  BY DEF LocalInv, WriteBlocking, More
<1>2. CountInv(t) /\ SeenInv(t) /\ BlockingInv(t) /\ AioInv(t)
  BY <1>1 DEF LocalInv, ThreadInv
<1>3. x \in Nat /\ issued[t] \in Nat /\ written[t] \in Seq(Nat) /\ test.n \in Nat
  BY <1>1, ThreadTypes, TargetType, TestFacts
<1> HIDE DEF x
<1>4. /\ test' = test /\ crashed' = crashed /\ pc' = pc /\ lost' = lost
      /\ sq' = sq /\ inflight' = inflight /\ cq' = cq
      /\ UNCHANGED <<qpc, seen, freed, fails>>
      /\ written' = [written EXCEPT ![t] = Append(@, x)]
      /\ IF test.kind = "sb"
         THEN open' = [open EXCEPT ![t] = {x}] /\ issued' = issued
         ELSE issued' = [issued EXCEPT ![t] = @ + 1] /\ open' = open
  BY DEF WriteBlocking, threadVars, x
<1>5. TypeOK'
  <2>1. Append(written[t], x) \in Seq(Nat) /\ {x} \in SUBSET Nat /\ issued[t] + 1 \in Nat
    BY <1>3
  <2>2. written' \in [Threads -> Seq(Nat)]
    BY <1>1, <1>4, <2>1 DEF TypeOK
  <2>3. open' \in [Threads -> SUBSET Nat] /\ issued' \in [Threads -> Nat]
    BY <1>1, <1>4, <2>1 DEF TypeOK
  <2> QED
    BY <1>1, <1>4, <2>2, <2>3 DEF TypeOK
<1>6. /\ DOMAIN written = Threads /\ DOMAIN open = Threads /\ DOMAIN issued = Threads
  BY <1>1 DEF TypeOK
<1>7. Others(t)
  BY <1>4, <1>6 DEF Others
<1>8. written'[t] = Append(written[t], x)
  BY <1>4, <1>6
<1>9. \/ open'[t] # {} /\ issued'[t] = issued[t]
      \/ open'[t] = {} /\ issued'[t] = issued[t] + 1
  BY <1>1, <1>4, <1>6
<1>10. (Blocking' <=> Blocking) /\ (Aio' <=> Aio) /\ ~Aio
  BY <1>1, <1>4 DEF Blocking, Aio
<1>11. Made(t) = issued[t] /\ Made(t)' = issued[t] + 1
  BY <1>1, <1>3, <1>9, <1>10 DEF Made
<1>12. Accounted(t, 1)
  <2>1. \A f \in Nat : Held(t, f)' = Held(t, f) + (IF Target(Made(t)) = f THEN 1 ELSE 0)
    <3> SUFFICES ASSUME NEW f \in Nat
                 PROVE  Held(t, f)' = Held(t, f) + (IF x = f THEN 1 ELSE 0)
      BY <1>11 DEF x
    <3>1. Times(written'[t], f) = Times(written[t], f) + (IF x = f THEN 1 ELSE 0)
      BY <1>3, <1>8, TimesAppend
    <3> QED
      BY <1>1, <1>4, <3>1, HeldType DEF Held
  <2>2. /\ Len(written'[t]) = Len(written[t]) + 1 /\ Len(inflight'[t]) = Len(inflight[t]) + 0
        /\ Len(sq'[t]) = Len(sq[t]) + 0 /\ lost'[t] = lost[t] + 0
    BY <1>1, <1>3, <1>4, <1>8, ThreadTypes
  <2>3. Number(t)' = Number(t) + 1
    <3>1. Shift(t, 1, 0, 0, 0)
      BY <2>2 DEF Shift
    <3>2. Number(t)' = Number(t) + (1 + 0 + 0 + 0)
      BY <1>1, <3>1, Lengths
    <3> QED
      BY <3>2
  <2>4. test' = test /\ lost'[t] = lost[t] /\ Made(t)' = Made(t) + 1
    BY <1>4, <1>11
  <2> QED
    BY <2>1, <2>3, <2>4 DEF Accounted
<1>13. CountInv(t)'
  <2>1. issued'[t] <= test.n
    BY <1>1, <1>3, <1>9
  <2>2. open'[t] # {} => pc'[t] = "issue" /\ issued'[t] < test.n
    BY <1>1, <1>4, <1>9
  <2> QED
    BY <1>1, <1>2, <1>12, <2>1, <2>2, Counts
<1>14. SeenInv(t)' /\ BlockingInv(t)' /\ AioInv(t)'
  BY <1>1, <1>2, <1>4, <1>10 DEF SeenInv, BlockingInv, AioInv
<1>15. ThreadInv(t)'
  BY <1>13, <1>14 DEF ThreadInv
<1> QED
  BY <1>4, <1>5, <1>7, <1>15, StepOf

(* The small file is closed and the next turn begins.                      *)
LEMMA CloseSmallStep ==
  ASSUME LocalInv, NEW t \in Threads, CloseSmall(t)
  PROVE  LocalInv'
<1>1. TypeOK /\ pc[t] = "issue" /\ issued[t] < test.n /\ Blocking /\ open[t] # {}
  BY DEF LocalInv, CloseSmall, More
<1>2. CountInv(t) /\ SeenInv(t) /\ BlockingInv(t) /\ AioInv(t)
  BY <1>1 DEF LocalInv, ThreadInv
<1>3. issued[t] \in Nat /\ test.n \in Nat
  BY <1>1, ThreadTypes, TestFacts
<1>4. /\ test' = test /\ crashed' = crashed /\ pc' = pc /\ lost' = lost
      /\ sq' = sq /\ inflight' = inflight /\ cq' = cq /\ written' = written
      /\ UNCHANGED <<qpc, seen, freed, fails>>
      /\ open' = [open EXCEPT ![t] = {}]
      /\ issued' = [issued EXCEPT ![t] = @ + 1]
  BY DEF CloseSmall, threadVars, ringVars
<1>5. TypeOK'
  BY <1>1, <1>4 DEF TypeOK
<1>6. DOMAIN open = Threads /\ DOMAIN issued = Threads
  BY <1>1 DEF TypeOK
<1>7. Others(t)
  BY <1>4, <1>6 DEF Others
<1>8. open'[t] = {} /\ issued'[t] = issued[t] + 1
  BY <1>4, <1>6
<1>9. (Blocking' <=> Blocking) /\ (Aio' <=> Aio) /\ ~Aio
  BY <1>1, <1>4 DEF Blocking, Aio
<1>10. Made(t) = issued[t] + 1 /\ Made(t)' = issued[t] + 1
  BY <1>1, <1>3, <1>8, <1>9 DEF Made
<1>11. Accounted(t, 0)
  <2>1. \A f \in Nat : Held(t, f)' = Held(t, f) + 0
    BY <1>1, <1>4, HeldType DEF Held
  <2>2. /\ Len(written'[t]) = Len(written[t]) + 0 /\ Len(inflight'[t]) = Len(inflight[t]) + 0
        /\ Len(sq'[t]) = Len(sq[t]) + 0 /\ lost'[t] = lost[t] + 0
    BY <1>1, <1>4, ThreadTypes
  <2>3. Number(t)' = Number(t) + 0
    <3>1. Shift(t, 0, 0, 0, 0)
      BY <2>2 DEF Shift
    <3>2. Number(t)' = Number(t) + (0 + 0 + 0 + 0)
      BY <1>1, <3>1, Lengths
    <3> QED
      BY <3>2
  <2>4. test' = test /\ lost'[t] = lost[t] /\ Made(t)' = Made(t) + 0
    BY <1>3, <1>4, <1>10
  <2> QED
    BY <2>1, <2>3, <2>4 DEF Accounted
<1>12. CountInv(t)'
  <2>1. issued'[t] <= test.n
    BY <1>1, <1>3, <1>8
  <2> QED
    BY <1>1, <1>2, <1>8, <1>11, <2>1, Counts
<1>13. SeenInv(t)' /\ BlockingInv(t)' /\ AioInv(t)'
  BY <1>1, <1>2, <1>4, <1>9 DEF SeenInv, BlockingInv, AioInv
<1>14. ThreadInv(t)'
  BY <1>12, <1>13 DEF ThreadInv
<1> QED
  BY <1>4, <1>5, <1>7, <1>14, StepOf

(* A blocking test that fails has no total to answer for.                  *)
LEMMA BlockingFailsStep ==
  ASSUME LocalInv, NEW t \in Threads, BlockingFails(t)
  PROVE  LocalInv'
<1>1. TypeOK
  BY DEF LocalInv
<1>2. issued[t] \in Nat /\ Target(issued[t]) \in Nat
  BY <1>1, ThreadTypes, TargetType
<1>3. /\ pc' = [pc EXCEPT ![t] = "returned"]
      /\ open' = open \/ open' = [open EXCEPT ![t] = {Target(issued[t])}]
      /\ UNCHANGED <<test, crashed, issued, lost, sq, inflight, cq, written>>
      /\ UNCHANGED <<qpc, seen, freed, fails>>
  BY DEF BlockingFails, Goto, ringVars, threadVars
<1>4. TypeOK'
  <2>1. open' \in [Threads -> SUBSET Nat]
    <3>1. open \in [Threads -> SUBSET Nat] /\ {Target(issued[t])} \in SUBSET Nat
      BY <1>1, <1>2 DEF TypeOK
    <3>2. [open EXCEPT ![t] = {Target(issued[t])}] \in [Threads -> SUBSET Nat]
      BY <3>1
    <3> QED
      BY <1>3, <3>1, <3>2
  <2>2. pc' \in [Threads -> Steps]
    BY <1>1, <1>3 DEF TypeOK, Steps
  <2> QED
    BY <1>1, <1>3, <2>1, <2>2 DEF TypeOK, Steps
<1>5. DOMAIN open = Threads /\ DOMAIN pc = Threads
  BY <1>1 DEF TypeOK
<1>6. Others(t)
  BY <1>3, <1>5 DEF Others
<1>7. ThreadInv(t)'
  BY <1>3, <1>5 DEF ThreadInv
<1> QED
  BY <1>3, <1>4, <1>6, <1>7, StepOf

(* A request is prepared, and handed over with the ones that were waiting, *)
(* or waits with them.                                                     *)
LEMMA IssueUringStep ==
  ASSUME LocalInv, NEW t \in Threads, IssueUring(t)
  PROVE  LocalInv'
<1> DEFINE x == Target(issued[t])
           all == Append(sq[t], x)
<1>1. TypeOK /\ pc[t] = "issue" /\ issued[t] < test.n /\ ~Blocking /\ ~Aio
  BY DEF LocalInv, IssueUring, More
<1>2. CountInv(t) /\ SeenInv(t) /\ BlockingInv(t) /\ AioInv(t)
  BY <1>1 DEF LocalInv, ThreadInv
<1>3. /\ x \in Nat /\ issued[t] \in Nat /\ test.n \in Nat
      /\ sq[t] \in Seq(Nat) /\ inflight[t] \in Seq(Nat)
  BY <1>1, ThreadTypes, TargetType, TestFacts
<1> HIDE DEF x
<1>4. /\ test' = test /\ crashed' = crashed /\ pc' = pc /\ lost' = lost
      /\ cq' = cq /\ written' = written /\ open' = open
      /\ UNCHANGED <<qpc, seen, freed, fails>>
      /\ issued' = [issued EXCEPT ![t] = @ + 1]
  BY DEF IssueUring, threadVars
<1>5. \/ sq' = [sq EXCEPT ![t] = all] /\ inflight' = inflight
      \/ /\ sq' = [sq EXCEPT ![t] = <<>>]
         /\ inflight' = [inflight EXCEPT ![t] = @ \o all]
  BY DEF IssueUring, SubmitUring, x
<1>6. /\ all \in Seq(Nat) /\ inflight[t] \o all \in Seq(Nat)
      /\ Len(all) = Len(sq[t]) + 1 /\ Len(inflight[t] \o all) = Len(inflight[t]) + Len(all)
  BY <1>3, AppendFacts, JoinFacts
<1> HIDE DEF all
<1>7. TypeOK'
  <2>1. sq' \in [Threads -> Seq(Nat)] /\ inflight' \in [Threads -> Seq(Nat)]
    <3>1. CASE sq' = [sq EXCEPT ![t] = all] /\ inflight' = inflight
      BY <1>1, <1>6, <3>1 DEF TypeOK
    <3>2. CASE /\ sq' = [sq EXCEPT ![t] = <<>>]
               /\ inflight' = [inflight EXCEPT ![t] = @ \o all]
      BY <1>1, <1>6, <3>2 DEF TypeOK
    <3> QED
      BY <1>5, <3>1, <3>2
  <2>2. issued' \in [Threads -> Nat]
    BY <1>1, <1>4 DEF TypeOK
  <2> QED
    BY <1>1, <1>4, <2>1, <2>2 DEF TypeOK
<1>8. DOMAIN sq = Threads /\ DOMAIN inflight = Threads /\ DOMAIN issued = Threads
  BY <1>1 DEF TypeOK
<1>9. Others(t) /\ issued'[t] = issued[t] + 1
  BY <1>4, <1>5, <1>8 DEF Others
<1>10. \/ sq'[t] = all /\ inflight'[t] = inflight[t]
       \/ sq'[t] = <<>> /\ inflight'[t] = inflight[t] \o all
  BY <1>5, <1>8
<1>11. (Blocking' <=> Blocking) /\ (Aio' <=> Aio)
  BY <1>4 DEF Blocking, Aio
<1>12. Made(t) = issued[t] /\ Made(t)' = issued[t] + 1
  BY <1>1, <1>3, <1>9, <1>11 DEF Made
<1>13. Accounted(t, 1)
  <2>1. \A f \in Nat : Held(t, f)' = Held(t, f) + (IF Target(Made(t)) = f THEN 1 ELSE 0)
    <3> SUFFICES ASSUME NEW f \in Nat
                 PROVE  Held(t, f)' = Held(t, f) + (IF x = f THEN 1 ELSE 0)
      BY <1>12 DEF x
    <3>1. Times(all, f) = Times(sq[t], f) + (IF x = f THEN 1 ELSE 0)
      BY <1>3, TimesAppend DEF all
    <3>2. Times(inflight[t] \o all, f) = Times(inflight[t], f) + Times(all, f)
      BY <1>3, <1>6, TimesJoin
    <3>3. Times(<<>>, f) = 0
      BY TimesEmpty
    <3>4. written'[t] = written[t]
      BY <1>4
    <3>5. CASE sq'[t] = all /\ inflight'[t] = inflight[t]
      BY <1>1, <3>1, <3>4, <3>5, HeldType DEF Held
    <3>6. CASE sq'[t] = <<>> /\ inflight'[t] = inflight[t] \o all
      BY <1>1, <3>1, <3>2, <3>3, <3>4, <3>6, HeldType DEF Held
    <3> QED
      BY <1>10, <3>5, <3>6
  <2>2. Number(t)' = Number(t) + 1
    <3>1. /\ Len(sq[t]) \in Nat /\ Len(inflight[t]) \in Nat /\ lost[t] \in Nat
          /\ Len(written[t]) \in Nat
      BY <1>1, ThreadTypes
    <3>2. Len(written'[t]) = Len(written[t]) + 0 /\ lost'[t] = lost[t] + 0
      BY <1>4, <3>1
    <3>3. CASE sq'[t] = all /\ inflight'[t] = inflight[t]
      <4>1. Len(sq'[t]) = Len(sq[t]) + 1 /\ Len(inflight'[t]) = Len(inflight[t]) + 0
        BY <1>6, <3>1, <3>3
      <4>2. Shift(t, 0, 0, 1, 0)
        BY <3>2, <4>1 DEF Shift
      <4>3. Number(t)' = Number(t) + (0 + 0 + 1 + 0)
        BY <1>1, <4>2, Lengths
      <4> QED
        BY <4>3
    <3>4. CASE sq'[t] = <<>> /\ inflight'[t] = inflight[t] \o all
      <4> DEFINE n == Len(sq[t])
      <4>1. Len(sq'[t]) = 0 /\ n \in Nat
        BY <3>1, <3>4
      <4>2. Len(inflight'[t]) = Len(inflight[t]) + (n + 1)
        BY <1>6, <3>4
      <4> HIDE DEF n
      <4> DEFINE up == n + 1
                 down == 0 - n
      <4>3. up \in Int /\ down \in Int /\ 0 + up + down + 0 = 1 /\ n + down = 0
        BY <4>1
      <4> HIDE DEF up, down
      <4>4. Len(sq'[t]) = n + down /\ Len(inflight'[t]) = Len(inflight[t]) + up
        BY <4>1, <4>2, <4>3 DEF up
      <4>5. Shift(t, 0, up, down, 0)
        BY <3>2, <4>4 DEF Shift, n
      <4>6. Number(t)' = Number(t) + (0 + up + down + 0)
        BY <1>1, <4>3, <4>5, Lengths
      <4> QED
        BY <4>3, <4>6
    <3> QED
      BY <1>10, <3>3, <3>4
  <2>3. test' = test /\ lost'[t] = lost[t] /\ Made(t)' = Made(t) + 1
    BY <1>4, <1>12
  <2> QED
    BY <2>1, <2>2, <2>3 DEF Accounted
<1>14. CountInv(t)'
  <2>1. issued'[t] <= test.n
    BY <1>1, <1>3, <1>9
  <2> QED
    BY <1>1, <1>2, <1>13, <2>1, Counts
<1>15. SeenInv(t)' /\ BlockingInv(t)' /\ AioInv(t)'
  BY <1>1, <1>2, <1>4, <1>11 DEF SeenInv, BlockingInv, AioInv
<1>16. ThreadInv(t)'
  BY <1>14, <1>15 DEF ThreadInv
<1> QED
  BY <1>4, <1>7, <1>9, <1>16, StepOf

(* The kernel thread of the poll test takes a request.                     *)
LEMMA SqThreadStep ==
  ASSUME LocalInv, NEW t \in Threads, SqThread(t)
  PROVE  LocalInv'
<1> DEFINE x == Head(sq[t])
<1>1. TypeOK /\ ~Blocking /\ ~Aio /\ sq[t] # <<>>
  BY DEF LocalInv, SqThread, Blocking, Aio
<1>2. /\ sq[t] \in Seq(Nat) /\ inflight[t] \in Seq(Nat) /\ Len(sq[t]) \in Nat
      /\ Len(inflight[t]) \in Nat /\ lost[t] \in Nat /\ Len(written[t]) \in Nat
  BY <1>1, ThreadTypes
<1>3. x \in Nat /\ Tail(sq[t]) \in Seq(Nat) /\ Len(Tail(sq[t])) = Len(sq[t]) - 1
  BY <1>1, <1>2, TimesTail
<1>4. /\ test' = test /\ crashed' = crashed
      /\ UNCHANGED <<pc, issued, lost, cq, written, qpc, seen, freed, fails, open>>
      /\ sq' = [sq EXCEPT ![t] = Tail(@)]
      /\ inflight' = [inflight EXCEPT ![t] = Append(@, x)]
  BY DEF SqThread, issuerVars, threadVars
<1>5. Append(inflight[t], x) \in Seq(Nat) /\ Len(Append(inflight[t], x)) = Len(inflight[t]) + 1
  BY <1>2, <1>3, AppendFacts
<1> HIDE DEF x
<1>6. TypeOK'
  <2>1. sq' \in [Threads -> Seq(Nat)] /\ inflight' \in [Threads -> Seq(Nat)]
    BY <1>1, <1>3, <1>4, <1>5 DEF TypeOK
  <2> QED
    BY <1>1, <1>4, <2>1 DEF TypeOK
<1>7. DOMAIN sq = Threads /\ DOMAIN inflight = Threads
  BY <1>1 DEF TypeOK
<1>8. Others(t) /\ sq'[t] = Tail(sq[t]) /\ inflight'[t] = Append(inflight[t], x)
  BY <1>4, <1>7 DEF Others
<1>9. (Blocking' <=> Blocking) /\ (Aio' <=> Aio) /\ Made(t)' = Made(t)
  BY <1>4 DEF Blocking, Aio, Made
<1>10. Accounted(t, 0)
  <2>1. \A f \in Nat : Held(t, f)' = Held(t, f) + 0
    <3> SUFFICES ASSUME NEW f \in Nat PROVE Held(t, f)' = Held(t, f) + 0
      OBVIOUS
    <3>1. Times(sq[t], f) = Times(Tail(sq[t]), f) + (IF x = f THEN 1 ELSE 0)
      BY <1>1, <1>2, TimesTail DEF x
    <3>2. Times(inflight'[t], f) = Times(inflight[t], f) + (IF x = f THEN 1 ELSE 0)
      BY <1>2, <1>3, <1>8, TimesAppend
    <3> DEFINE one == IF x = f THEN 1 ELSE 0
    <3>3. Times(Tail(sq[t]), f) \in Nat
      BY <1>3, TimesFinite
    <3>4. one \in Int
      OBVIOUS
    <3>5. one \in Int /\ 0 - one \in Int /\ 0 + one + (0 - one) = 0
      BY <3>4
    <3> HIDE DEF one
    <3>6. Times(sq'[t], f) = Times(sq[t], f) + (0 - one)
      <4> DEFINE a == Times(sq[t], f)
                 b == Times(sq'[t], f)
      <4>1. a = b + one /\ b \in Nat
        BY <1>8, <3>1, <3>3 DEF one
      <4> HIDE DEF a, b
      <4>2. b = a + (0 - one)
        BY <3>5, <4>1
      <4> QED
        BY <4>2 DEF a, b
    <3>7. Times(written'[t], f) = Times(written[t], f) + 0
      BY <1>1, <1>4, HeldType
    <3>8. FileShift(t, f, 0, one, 0 - one)
      BY <3>2, <3>6, <3>7 DEF FileShift, one
    <3>9. Held(t, f)' = Held(t, f) + (0 + one + (0 - one))
      BY <1>1, <3>5, <3>8, Shares
    <3> QED
      BY <3>5, <3>9
  <2>2. Number(t)' = Number(t) + 0
    <3>1. Len(written'[t]) = Len(written[t]) + 0 /\ lost'[t] = lost[t] + 0
      BY <1>2, <1>4
    <3>2. Len(inflight'[t]) = Len(inflight[t]) + 1
      BY <1>5, <1>8
    <3>3. Len(sq'[t]) = Len(sq[t]) + (0 - 1)
      BY <1>2, <1>3, <1>8
    <3>4. Shift(t, 0, 1, 0 - 1, 0)
      BY <3>1, <3>2, <3>3 DEF Shift
    <3>5. Number(t)' = Number(t) + (0 + 1 + (0 - 1) + 0)
      BY <1>1, <3>4, Lengths
    <3> QED
      BY <3>5
  <2>3. Made(t)' = Made(t) + 0
    BY <1>1, <1>9, ThreadTypes
  <2> QED
    BY <1>4, <2>1, <2>2, <2>3 DEF Accounted
<1>11. ASSUME pc[t] # "returned" PROVE ThreadInv(t)'
  <2>1. CountInv(t) /\ SeenInv(t) /\ BlockingInv(t) /\ AioInv(t)
    BY <1>11 DEF LocalInv, ThreadInv
  <2>2. CountInv(t)'
    BY <1>1, <1>4, <1>10, <2>1, Counts DEF CountInv
  <2>3. SeenInv(t)' /\ BlockingInv(t)' /\ AioInv(t)'
    BY <1>1, <1>4, <1>9, <2>1 DEF SeenInv, BlockingInv, AioInv
  <2> QED
    BY <2>2, <2>3 DEF ThreadInv
<1>12. ThreadInv(t)'
  BY <1>4, <1>11 DEF ThreadInv
<1> QED
  BY <1>4, <1>6, <1>8, <1>12, StepOf

(* The files of the requests of one thread, and where each is.             *)
LEMMA UnderFacts ==
  ASSUME NEW t, NEW f
  PROVE  f \in Under(t) <=>
           \/ \E i \in 1 .. Len(sq[t]) : f = sq[t][i]
           \/ \E i \in 1 .. Len(inflight[t]) : f = inflight[t][i]
           \/ \E i \in 1 .. Len(cq[t]) : f = cq[t][i].file
BY DEF Under

(* The same after the step.                                                *)
LEMMA UnderFactsNext ==
  ASSUME NEW t, NEW f
  PROVE  f \in Under(t)' <=>
           \/ \E i \in 1 .. Len(sq'[t]) : f = sq'[t][i]
           \/ \E i \in 1 .. Len(inflight'[t]) : f = inflight'[t][i]
           \/ \E i \in 1 .. Len(cq'[t]) : f = cq'[t][i].file
BY DEF Under

(* The elements of a sequence that has lost one.                           *)
LEMMA RemoveFacts ==
  ASSUME NEW s \in Seq(Nat), NEW k \in 1 .. Len(s)
  PROVE  LET r == SubSeq(s, 1, k - 1) \o SubSeq(s, k + 1, Len(s))
         IN  /\ r \in Seq(Nat) /\ Len(r) = Len(s) - 1 /\ s[k] \in Nat
             /\ \A j \in 1 .. Len(s) : j # k => \E l \in 1 .. Len(r) : r[l] = s[j]
<1> DEFINE a == SubSeq(s, 1, k - 1)
           b == SubSeq(s, k + 1, Len(s))
           r == a \o b
<1>1. /\ a \in Seq(Nat) /\ Len(a) = k - 1 /\ s[k] \in Nat
      /\ \A j \in 1 .. k - 1 : a[j] = s[j]
  OBVIOUS
<1>2. /\ b \in Seq(Nat) /\ Len(b) = Len(s) - k
      /\ \A j \in 1 .. Len(s) - k : b[j] = s[k + j]
  OBVIOUS
<1> HIDE DEF a, b
<1>3. /\ r \in Seq(Nat) /\ Len(r) = Len(a) + Len(b)
      /\ \A j \in 1 .. Len(a) : r[j] = a[j]
      /\ \A j \in 1 .. Len(b) : r[Len(a) + j] = b[j]
  BY <1>1, <1>2, JoinFacts
<1> HIDE DEF r
<1>4. Len(s) \in Nat /\ Len(r) = Len(s) - 1
  BY <1>1, <1>2, <1>3
<1>5. ASSUME NEW j \in 1 .. Len(s), j # k
      PROVE  \E l \in 1 .. Len(r) : r[l] = s[j]
  <2>1. CASE j < k
    <3>1. j \in 1 .. k - 1 /\ j \in 1 .. Len(r) /\ j \in 1 .. Len(a)
      BY <1>1, <1>4, <2>1
    <3> QED
      BY <1>1, <1>3, <3>1
  <2>2. CASE j > k
    <3>1. j - k \in 1 .. Len(b) /\ k + (j - k) = j /\ Len(a) + (j - k) = j - 1
      BY <1>1, <1>2, <2>2
    <3>2. j - 1 \in 1 .. Len(r)
      BY <1>4, <2>2
    <3>3. r[j - 1] = s[j]
      BY <1>2, <1>3, <3>1
    <3> QED
      BY <3>2, <3>3
  <2> QED
    BY <1>5, <2>1, <2>2
<1> QED
  BY <1>1, <1>3, <1>4, <1>5 DEF r, a, b

(* A completion that is put behind the others.                             *)
LEMMA EnqueueFacts ==
  ASSUME NEW s \in Seq(Completion), NEW c \in Completion
  PROVE  /\ Append(s, c) \in Seq(Completion) /\ Len(s) \in Nat
         /\ Len(Append(s, c)) = Len(s) + 1
         /\ \A j \in 1 .. Len(s) : Append(s, c)[j] = s[j]
         /\ Append(s, c)[Len(s) + 1] = c
         /\ s # <<>> => Append(s, c) # <<>> /\ Head(Append(s, c)) = Head(s)
<1>1. /\ Append(s, c) \in Seq(Completion) /\ Len(s) \in Nat
      /\ Len(Append(s, c)) = Len(s) + 1
      /\ \A j \in 1 .. Len(s) : Append(s, c)[j] = s[j]
      /\ Append(s, c)[Len(s) + 1] = c
  OBVIOUS
<1>2. ASSUME s # <<>> PROVE Append(s, c) # <<>> /\ Head(Append(s, c)) = Head(s)
  <2>1. 1 \in 1 .. Len(s) /\ Head(s) = s[1]
    BY <1>2
  <2>2. Append(s, c) # <<>> /\ Head(Append(s, c)) = Append(s, c)[1]
    BY <1>1
  <2> QED
    BY <1>1, <2>1, <2>2
<1> QED
  BY <1>1, <1>2

(* The kernel finishes a request.                                          *)
LEMMA CompleteStep ==
  ASSUME LocalInv, NEW t \in Threads, Complete(t)
  PROVE  LocalInv'
<1>1. TypeOK
  BY DEF LocalInv
<1>2. PICK i \in 1 .. Len(inflight[t]), r \in Results :
        /\ inflight' = [inflight EXCEPT ![t] =
                          SubSeq(@, 1, i - 1) \o SubSeq(@, i + 1, Len(@))]
        /\ written' = [written EXCEPT ![t] = Append(@, inflight[t][i])]
        /\ cq' = [cq EXCEPT ![t] = Append(@, [file |-> inflight[t][i], res |-> r])]
        /\ UNCHANGED <<test, crashed, issuerVars, sq, threadVars, open>>
  BY Zenon DEF Complete
<1> DEFINE s == inflight[t]
           x == s[i]
           rest == SubSeq(s, 1, i - 1) \o SubSeq(s, i + 1, Len(s))
           c == [file |-> x, res |-> r]
<1>3. /\ s \in Seq(Nat) /\ written[t] \in Seq(Nat) /\ cq[t] \in Seq(Completion)
      /\ Len(s) \in Nat /\ Len(written[t]) \in Nat /\ Len(cq[t]) \in Nat
      /\ Len(sq[t]) \in Nat /\ lost[t] \in Nat
  BY <1>1, ThreadTypes
<1>4. /\ rest \in Seq(Nat) /\ Len(rest) = Len(s) - 1 /\ x \in Nat
      /\ \A j \in 1 .. Len(s) : j # i => \E l \in 1 .. Len(rest) : rest[l] = s[j]
  BY <1>3, RemoveFacts
<1>5. c \in Completion
  BY <1>4 DEF Completion, Results
<1>6. /\ inflight' = [inflight EXCEPT ![t] = rest]
      /\ written' = [written EXCEPT ![t] = Append(@, x)]
      /\ cq' = [cq EXCEPT ![t] = Append(@, c)]
      /\ UNCHANGED <<test, crashed, pc, issued, lost, sq, qpc, seen, freed, fails, open>>
  BY <1>2 DEF issuerVars, threadVars
<1>7. \A f \in Nat : Times(s, f) = Times(rest, f) + (IF x = f THEN 1 ELSE 0)
  BY <1>3, TimesTake
<1> HIDE DEF s, x, rest, c
<1>8. TypeOK'
  <2>1. Append(written[t], x) \in Seq(Nat) /\ Append(cq[t], c) \in Seq(Completion)
    BY <1>3, <1>4, <1>5
  <2>2. inflight' \in [Threads -> Seq(Nat)] /\ written' \in [Threads -> Seq(Nat)]
    BY <1>1, <1>4, <1>6, <2>1 DEF TypeOK
  <2>3. cq' \in [Threads -> Seq(Completion)]
    BY <1>1, <1>6, <2>1 DEF TypeOK
  <2> QED
    BY <1>1, <1>6, <2>2, <2>3 DEF TypeOK
<1>9. DOMAIN inflight = Threads /\ DOMAIN written = Threads /\ DOMAIN cq = Threads
  BY <1>1 DEF TypeOK
<1>10. /\ Others(t) /\ inflight'[t] = rest /\ written'[t] = Append(written[t], x)
       /\ cq'[t] = Append(cq[t], c)
  BY <1>6, <1>9 DEF Others
<1>11. (Blocking' <=> Blocking) /\ (Aio' <=> Aio) /\ Made(t)' = Made(t)
  BY <1>6 DEF Blocking, Aio, Made
<1>12. Len(written'[t]) = Len(written[t]) + 1 /\ Len(cq'[t]) = Len(cq[t]) + 1
  BY <1>3, <1>4, <1>5, <1>10, AppendFacts, EnqueueFacts
<1>13. Len(inflight'[t]) = Len(inflight[t]) - 1
  BY <1>4, <1>10 DEF s
<1>14. Accounted(t, 0)
  <2>1. \A f \in Nat : Held(t, f)' = Held(t, f) + 0
    <3> SUFFICES ASSUME NEW f \in Nat PROVE Held(t, f)' = Held(t, f) + 0
      OBVIOUS
    <3> DEFINE one == IF x = f THEN 1 ELSE 0
    <3>1. Times(written'[t], f) = Times(written[t], f) + one
      BY <1>3, <1>4, <1>10, TimesAppend
    <3>2. Times(rest, f) \in Nat
      BY <1>4, TimesFinite
    <3>3. one \in Int
      OBVIOUS
    <3>4. Times(s, f) = Times(rest, f) + one
      BY <1>7
    <3> HIDE DEF one
    <3>5. 0 - one \in Int /\ one + (0 - one) + 0 = 0
      BY <3>3
    <3>6. Times(rest, f) = Times(s, f) + (0 - one)
      <4> DEFINE a == Times(s, f)
                 b == Times(rest, f)
      <4>1. a = b + one /\ b \in Nat
        BY <3>2, <3>4
      <4> HIDE DEF a, b
      <4>2. b = a + (0 - one)
        BY <3>3, <4>1
      <4> QED
        BY <4>2 DEF a, b
    <3>7. Times(sq'[t], f) = Times(sq[t], f) + 0
      BY <1>1, <1>6, HeldType
    <3>8. FileShift(t, f, one, 0 - one, 0)
      BY <1>10, <3>1, <3>6, <3>7 DEF FileShift, s
    <3>9. Held(t, f)' = Held(t, f) + (one + (0 - one) + 0)
      BY <1>1, <3>3, <3>5, <3>8, Shares
    <3> QED
      BY <3>5, <3>9
  <2>2. Number(t)' = Number(t) + 0
    <3>1. Len(sq'[t]) = Len(sq[t]) + 0 /\ lost'[t] = lost[t] + 0
      BY <1>3, <1>6
    <3>2. Len(inflight'[t]) = Len(inflight[t]) + (0 - 1)
      BY <1>3, <1>13 DEF s
    <3>3. Shift(t, 1, 0 - 1, 0, 0)
      BY <1>12, <3>1, <3>2 DEF Shift
    <3>4. Number(t)' = Number(t) + (1 + (0 - 1) + 0 + 0)
      BY <1>1, <3>3, Lengths
    <3> QED
      BY <3>4
  <2>3. Made(t)' = Made(t) + 0
    BY <1>1, <1>11, ThreadTypes
  <2> QED
    BY <1>6, <2>1, <2>2, <2>3 DEF Accounted
<1>15. ASSUME pc[t] # "returned" PROVE ThreadInv(t)'
  <2>1. CountInv(t) /\ SeenInv(t) /\ BlockingInv(t) /\ AioInv(t)
    BY <1>15 DEF LocalInv, ThreadInv
  <2>2. CountInv(t)'
    BY <1>1, <1>6, <1>14, <2>1, Counts DEF CountInv
  <2>3. ~Blocking
    <3>1. Len(s) # 0
      BY <1>3 DEF s
    <3> QED
      BY <2>1, <3>1 DEF BlockingInv, s
  <2>4. Len(written'[t]) - Len(cq'[t]) = Len(written[t]) - Len(cq[t])
    <3> DEFINE a == Len(written[t])
               b == Len(cq[t])
    <3>1. a \in Nat /\ b \in Nat
      BY <1>3
    <3> HIDE DEF a, b
    <3>2. (a + 1) - (b + 1) = a - b
      BY <3>1
    <3> QED
      BY <1>12, <3>2 DEF a, b
  <2>6. SeenInv(t)' /\ BlockingInv(t)'
    BY <1>6, <1>11, <2>1, <2>3, <2>4 DEF SeenInv, BlockingInv
  <2>7. AioInv(t)'
    <3>1. Len(inflight'[t]) + Len(cq'[t]) = Len(inflight[t]) + Len(cq[t])
      <4> DEFINE a == Len(inflight[t])
                 b == Len(cq[t])
      <4>1. a \in Nat /\ b \in Nat
        BY <1>3 DEF s
      <4> HIDE DEF a, b
      <4>2. (a - 1) + (b + 1) = a + b
        BY <4>1
      <4> QED
        BY <1>12, <1>13, <4>2 DEF a, b
    <3>2. ASSUME NEW f, f \in Under(t) PROVE f \in Under(t)'
      <4>1. CASE \E j \in 1 .. Len(sq[t]) : f = sq[t][j]
        BY <1>6, <4>1, UnderFactsNext
      <4>2. CASE \E j \in 1 .. Len(s) : f = s[j]
        <5>1. PICK j \in 1 .. Len(s) : f = s[j]
          BY <4>2
        <5>2. CASE j = i
          <6>1. cq'[t][Len(cq[t]) + 1] = c /\ c.file = f
            BY <1>3, <1>5, <1>10, <5>1, <5>2, EnqueueFacts DEF c, x
          <6>2. Len(cq[t]) + 1 \in 1 .. Len(cq'[t])
            BY <1>3, <1>12
          <6> QED
            BY <6>1, <6>2, UnderFactsNext
        <5>3. CASE j # i
          BY <1>4, <1>10, <5>1, <5>3, UnderFactsNext
        <5> QED
          BY <5>2, <5>3
      <4>3. CASE \E j \in 1 .. Len(cq[t]) : f = cq[t][j].file
        <5>1. PICK j \in 1 .. Len(cq[t]) : f = cq[t][j].file
          BY <4>3
        <5>2. cq'[t][j] = cq[t][j] /\ j \in 1 .. Len(cq'[t])
          BY <1>3, <1>5, <1>10, <1>12, EnqueueFacts
        <5> QED
          BY <5>1, <5>2, UnderFactsNext
      <4> QED
        BY <3>2, <4>1, <4>2, <4>3, UnderFacts DEF s
    <3> QED
      BY <1>6, <1>11, <2>1, <2>4, <3>1, <3>2 DEF AioInv
  <2> QED
    BY <2>2, <2>6, <2>7 DEF ThreadInv
<1>16. ThreadInv(t)'
  BY <1>6, <1>15 DEF ThreadInv
<1> QED
  BY <1>6, <1>8, <1>10, <1>16, StepOf

-----------------------------------------------------------------------------
(* Steps of AIO.                                                           *)

(* A request is prepared, and its small file opened.                       *)
LEMMA PrepareAioStep ==
  ASSUME LocalInv, NEW t \in Threads, PrepareAio(t)
  PROVE  LocalInv'
<1> DEFINE x == Target(issued[t])
<1>1. TypeOK /\ pc[t] = "issue" /\ issued[t] < test.n /\ Aio
  BY DEF LocalInv, PrepareAio, More
<1>2. CountInv(t) /\ SeenInv(t) /\ BlockingInv(t) /\ AioInv(t)
  BY <1>1 DEF LocalInv, ThreadInv
<1>3. /\ x \in Nat /\ issued[t] \in Nat /\ test.n \in Nat /\ sq[t] \in Seq(Nat)
      /\ Len(sq[t]) \in Nat /\ Len(inflight[t]) \in Nat /\ lost[t] \in Nat
      /\ Len(written[t]) \in Nat
  BY <1>1, ThreadTypes, TargetType, TestFacts
<1> HIDE DEF x
<1>4. /\ UNCHANGED <<test, crashed, pc, lost, inflight, cq, written, qpc, seen, freed, fails>>
      /\ issued' = [issued EXCEPT ![t] = @ + 1]
      /\ sq' = [sq EXCEPT ![t] = Append(@, x)]
      /\ open' = IF test.kind = "aios" THEN [open EXCEPT ![t] = @ \cup {x}] ELSE open
  BY DEF PrepareAio, threadVars, x
<1>5. /\ Append(sq[t], x) \in Seq(Nat) /\ Len(Append(sq[t], x)) = Len(sq[t]) + 1
      /\ \A j \in 1 .. Len(sq[t]) : Append(sq[t], x)[j] = sq[t][j]
      /\ Append(sq[t], x)[Len(sq[t]) + 1] = x
  BY <1>3, AppendFacts
<1>6. TypeOK'
  <2>1. sq' \in [Threads -> Seq(Nat)] /\ issued' \in [Threads -> Nat]
    BY <1>1, <1>4, <1>5 DEF TypeOK
  <2>2. open' \in [Threads -> SUBSET Nat]
    <3>1. open \in [Threads -> SUBSET Nat] /\ open[t] \cup {x} \in SUBSET Nat
      BY <1>1, <1>3 DEF TypeOK
    <3>2. [open EXCEPT ![t] = @ \cup {x}] \in [Threads -> SUBSET Nat]
      BY <3>1
    <3> QED
      BY <1>4, <3>1, <3>2
  <2> QED
    BY <1>1, <1>4, <2>1, <2>2 DEF TypeOK
<1>7. DOMAIN sq = Threads /\ DOMAIN issued = Threads /\ DOMAIN open = Threads
  BY <1>1 DEF TypeOK
<1>8. Others(t) /\ sq'[t] = Append(sq[t], x) /\ issued'[t] = issued[t] + 1
  BY <1>4, <1>7 DEF Others
<1>9. open'[t] \subseteq open[t] \cup {x}
  BY <1>4, <1>7
<1>10. (Blocking' <=> Blocking) /\ (Aio' <=> Aio) /\ ~Blocking
  BY <1>1, <1>4 DEF Blocking, Aio
<1>11. Made(t) = issued[t] /\ Made(t)' = issued[t] + 1
  BY <1>3, <1>8, <1>10 DEF Made
<1>12. Accounted(t, 1)
  <2>1. \A f \in Nat : Held(t, f)' = Held(t, f) + (IF Target(Made(t)) = f THEN 1 ELSE 0)
    <3> SUFFICES ASSUME NEW f \in Nat
                 PROVE  Held(t, f)' = Held(t, f) + (IF x = f THEN 1 ELSE 0)
      BY <1>11 DEF x
    <3>1. Times(sq'[t], f) = Times(sq[t], f) + (IF x = f THEN 1 ELSE 0)
      BY <1>3, <1>8, TimesAppend
    <3> QED
      BY <1>1, <1>4, <3>1, HeldType DEF Held
  <2>2. Number(t)' = Number(t) + 1
    <3>1. /\ Len(written'[t]) = Len(written[t]) + 0 /\ lost'[t] = lost[t] + 0
          /\ Len(inflight'[t]) = Len(inflight[t]) + 0
      BY <1>3, <1>4
    <3>2. Len(sq'[t]) = Len(sq[t]) + 1
      BY <1>5, <1>8
    <3>3. Shift(t, 0, 0, 1, 0)
      BY <3>1, <3>2 DEF Shift
    <3>4. Number(t)' = Number(t) + (0 + 0 + 1 + 0)
      BY <1>1, <3>3, Lengths
    <3> QED
      BY <3>4
  <2>3. test' = test /\ lost'[t] = lost[t] /\ Made(t)' = Made(t) + 1
    BY <1>4, <1>11
  <2> QED
    BY <2>1, <2>2, <2>3 DEF Accounted
<1>13. CountInv(t)'
  <2>1. issued'[t] <= test.n
    BY <1>1, <1>3, <1>8
  <2> QED
    BY <1>1, <1>2, <1>10, <1>12, <2>1, Counts
<1>14. SeenInv(t)' /\ BlockingInv(t)'
  BY <1>1, <1>2, <1>4, <1>10 DEF SeenInv, BlockingInv
<1>15. AioInv(t)'
  <2>1. ASSUME NEW f, f \in Under(t) \cup {x} PROVE f \in Under(t)'
    <3>1. CASE f = x
      <4>1. Len(sq[t]) + 1 \in 1 .. Len(sq'[t]) /\ sq'[t][Len(sq[t]) + 1] = x
        BY <1>3, <1>5, <1>8
      <4> QED
        BY <3>1, <4>1, UnderFactsNext
    <3>2. CASE \E j \in 1 .. Len(sq[t]) : f = sq[t][j]
      <4>1. PICK j \in 1 .. Len(sq[t]) : f = sq[t][j]
        BY <3>2
      <4>2. sq'[t][j] = f /\ j \in 1 .. Len(sq'[t])
        BY <1>3, <1>5, <1>8, <4>1
      <4> QED
        BY <4>2, UnderFactsNext
    <3>3. CASE \/ \E i \in 1 .. Len(inflight[t]) : f = inflight[t][i]
               \/ \E i \in 1 .. Len(cq[t]) : f = cq[t][i].file
      BY <1>4, <3>3, UnderFactsNext
    <3> QED
      BY <2>1, <3>1, <3>2, <3>3, UnderFacts
  <2>2. lost[t] = 0 => open'[t] \subseteq Under(t)'
    BY <1>1, <1>2, <1>9, <2>1 DEF AioInv
  <2> QED
    BY <1>1, <1>2, <1>4, <1>10, <2>2 DEF AioInv
<1>16. ThreadInv(t)'
  BY <1>13, <1>14, <1>15 DEF ThreadInv
<1> QED
  BY <1>4, <1>6, <1>8, <1>16, StepOf

(* io_submit takes what there is room for and the rest is lost.            *)
LEMMA SubmitAioStep ==
  ASSUME LocalInv, NEW t \in Threads, SubmitAio(t)
  PROVE  LocalInv'
<1> DEFINE n == Len(sq[t])
           m == Room(t)
           k == IF n <= m THEN n ELSE m
           head == SubSeq(sq[t], 1, k)
<1>1. TypeOK /\ pc[t] = "issue" /\ Aio
  BY DEF LocalInv, SubmitAio
<1>2. CountInv(t) /\ SeenInv(t) /\ BlockingInv(t) /\ AioInv(t)
  BY <1>1 DEF LocalInv, ThreadInv
<1>3. /\ sq[t] \in Seq(Nat) /\ inflight[t] \in Seq(Nat) /\ n \in Nat
      /\ Len(inflight[t]) \in Nat /\ lost[t] \in Nat /\ Len(written[t]) \in Nat
      /\ Len(cq[t]) \in Nat /\ Ctx \in Nat
  BY <1>1, ThreadTypes, TestFacts
<1>4. m \in Nat /\ m = Ctx - (Len(inflight[t]) + Len(cq[t]))
  <2> DEFINE a == Len(inflight[t])
             b == Len(cq[t])
  <2>1. a + b <= Ctx /\ a \in Nat /\ b \in Nat /\ m = Ctx - (a + b)
    BY <1>1, <1>2, <1>3 DEF AioInv, Room
  <2> HIDE DEF a, b, m
  <2>2. m \in Nat
    BY <1>3, <2>1
  <2> QED
    BY <2>1, <2>2 DEF a, b
<1> HIDE DEF n, m
<1>5. k \in Nat /\ k <= n /\ k <= m /\ n - k \in Nat /\ k \in 0 .. n
  <2>1. n \in Nat /\ m \in Nat
    BY <1>3, <1>4
  <2> QED
    BY <2>1
<1>6. /\ UNCHANGED <<test, crashed, pc, issued, cq, written, qpc, seen, freed, fails, open>>
      /\ inflight' = [inflight EXCEPT ![t] = @ \o head]
      /\ lost' = [lost EXCEPT ![t] = @ + (n - k)]
      /\ sq' = [sq EXCEPT ![t] = <<>>]
  BY DEF SubmitAio, threadVars, n, m
<1> HIDE DEF k
<1>7. /\ head \in Seq(Nat) /\ Len(head) = k
      /\ \A i \in 1 .. k : head[i] = sq[t][i]
  BY <1>3, <1>5, FirstFacts DEF n
<1> HIDE DEF head
<1>8. /\ inflight[t] \o head \in Seq(Nat)
      /\ Len(inflight[t] \o head) = Len(inflight[t]) + Len(head)
      /\ \A j \in 1 .. Len(inflight[t]) : (inflight[t] \o head)[j] = inflight[t][j]
      /\ \A j \in 1 .. Len(head) : (inflight[t] \o head)[Len(inflight[t]) + j] = head[j]
  BY <1>3, <1>7, JoinFacts
<1>9. TypeOK'
  <2>1. sq' \in [Threads -> Seq(Nat)] /\ inflight' \in [Threads -> Seq(Nat)]
    BY <1>1, <1>6, <1>8 DEF TypeOK
  <2>2. lost' \in [Threads -> Nat]
    BY <1>1, <1>5, <1>6 DEF TypeOK
  <2> QED
    BY <1>1, <1>6, <2>1, <2>2 DEF TypeOK
<1>10. DOMAIN sq = Threads /\ DOMAIN inflight = Threads /\ DOMAIN lost = Threads
  BY <1>1 DEF TypeOK
<1>11. /\ Others(t) /\ sq'[t] = <<>> /\ inflight'[t] = inflight[t] \o head
       /\ lost'[t] = lost[t] + (n - k)
  BY <1>6, <1>10 DEF Others
<1>12. (Blocking' <=> Blocking) /\ (Aio' <=> Aio) /\ Made(t)' = Made(t) /\ ~Blocking
  BY <1>1, <1>6 DEF Blocking, Aio, Made
<1>13. lost'[t] = 0 => lost[t] = 0 /\ k = n
  BY <1>3, <1>5, <1>11
<1>14. Accounted(t, 0)
  <2>1. ASSUME lost'[t] = 0, NEW f \in Nat PROVE Held(t, f)' = Held(t, f) + 0
    <3> DEFINE a == Times(sq[t], f)
    <3>1. Times(head, f) = a
      <4>1. Len(head) = Len(sq[t]) /\ \A j \in 1 .. Len(head) : head[j] = sq[t][j]
        BY <1>7, <1>13, <2>1 DEF n
      <4> QED
        BY <4>1, TimesSame
    <3>2. Times(inflight'[t], f) = Times(inflight[t], f) + a
      BY <1>3, <1>7, <1>11, <3>1, TimesJoin
    <3>3. Times(sq'[t], f) = 0 /\ a \in Nat
      BY <1>1, <1>11, TimesEmpty, HeldType
    <3>4. Times(written'[t], f) = Times(written[t], f) + 0
      BY <1>1, <1>6, HeldType
    <3> HIDE DEF a
    <3> DEFINE down == 0 - a
    <3>5. 0 = a + down /\ down \in Int /\ 0 + a + down = 0
      BY <3>3
    <3> HIDE DEF down
    <3>6. FileShift(t, f, 0, a, down)
      <4>1. Times(sq'[t], f) = a + down
        BY <3>3, <3>5
      <4> QED
        BY <3>2, <3>4, <4>1 DEF FileShift, a
    <3>7. Held(t, f)' = Held(t, f) + (0 + a + down)
      BY <1>1, <3>3, <3>5, <3>6, Shares
    <3> QED
      BY <3>5, <3>7
  <2>2. Number(t)' = Number(t) + 0
    <3>1. Len(written'[t]) = Len(written[t]) + 0
      BY <1>3, <1>6
    <3>2. Len(inflight'[t]) = Len(inflight[t]) + k
      BY <1>7, <1>8, <1>11
    <3>3. Len(sq'[t]) = 0
      BY <1>11
    <3> DEFINE down == 0 - n
               drop == n - k
    <3>4. 0 = n + down /\ 0 + k + down + drop = 0 /\ down \in Int /\ drop \in Int
      BY <1>3, <1>5
    <3>5. Shift(t, 0, k, down, drop)
      <4>1. Len(sq'[t]) = n + down
        BY <3>3, <3>4
      <4>2. lost'[t] = lost[t] + drop
        BY <1>11
      <4> HIDE DEF down, drop
      <4> QED
        BY <3>1, <3>2, <4>1, <4>2 DEF Shift, n
    <3> HIDE DEF down, drop
    <3>6. Number(t)' = Number(t) + (0 + k + down + drop)
      BY <1>1, <1>5, <3>4, <3>5, Lengths
    <3> QED
      BY <3>4, <3>6
  <2>3. Made(t)' = Made(t) + 0
    BY <1>1, <1>12, ThreadTypes
  <2> QED
    BY <1>6, <1>13, <2>1, <2>2, <2>3 DEF Accounted
<1>15. CountInv(t)'
  BY <1>1, <1>2, <1>6, <1>12, <1>14, Counts DEF CountInv
<1>16. SeenInv(t)' /\ BlockingInv(t)'
  BY <1>1, <1>2, <1>6, <1>12 DEF SeenInv, BlockingInv
<1>17. AioInv(t)'
  <2>1. Len(inflight'[t]) + Len(cq'[t]) <= Ctx
    <3> DEFINE a == Len(inflight[t])
               b == Len(cq[t])
    <3>1. a \in Nat /\ b \in Nat /\ m = Ctx - (a + b)
      BY <1>3, <1>4
    <3> HIDE DEF a, b
    <3>2. (a + k) + b <= Ctx
      BY <1>3, <1>5, <3>1
    <3>3. Len(inflight'[t]) = a + k /\ Len(cq'[t]) = b
      BY <1>6, <1>7, <1>8, <1>11 DEF a, b
    <3> QED
      BY <3>2, <3>3
  <2>2. ASSUME lost'[t] = 0, NEW f, f \in Under(t) PROVE f \in Under(t)'
    <3>1. CASE \E j \in 1 .. Len(sq[t]) : f = sq[t][j]
      <4>1. PICK j \in 1 .. Len(sq[t]) : f = sq[t][j]
        BY <3>1
      <4>2. j \in 1 .. k /\ j \in 1 .. Len(head) /\ j \in Nat
        BY <1>3, <1>7, <1>13, <2>2 DEF n
      <4>3. Len(inflight[t]) + j \in 1 .. Len(inflight'[t])
        BY <1>3, <1>8, <1>11, <4>2
      <4>4. inflight'[t][Len(inflight[t]) + j] = f
        BY <1>7, <1>8, <1>11, <4>1, <4>2
      <4> QED
        BY <4>3, <4>4, UnderFactsNext
    <3>2. CASE \E j \in 1 .. Len(inflight[t]) : f = inflight[t][j]
      <4>1. PICK j \in 1 .. Len(inflight[t]) : f = inflight[t][j]
        BY <3>2
      <4>2. j \in 1 .. Len(inflight'[t])
        BY <1>3, <1>5, <1>7, <1>8, <1>11
      <4>3. inflight'[t][j] = f
        BY <1>8, <1>11, <4>1
      <4> QED
        BY <4>2, <4>3, UnderFactsNext
    <3>3. CASE \E j \in 1 .. Len(cq[t]) : f = cq[t][j].file
      BY <1>6, <3>3, UnderFactsNext
    <3> QED
      BY <2>2, <3>1, <3>2, <3>3, UnderFacts
  <2>3. lost'[t] = 0 => open'[t] \subseteq Under(t)'
    <3>1. open'[t] = open[t] /\ (lost[t] = 0 => open[t] \subseteq Under(t))
      BY <1>1, <1>2, <1>6 DEF AioInv
    <3> QED
      BY <1>13, <2>2, <3>1
  <2>4. freed'[t] = Len(written'[t]) - Len(cq'[t]) /\ qpc'[t] # "gaveup"
    BY <1>1, <1>2, <1>6 DEF AioInv
  <2> QED
    BY <2>1, <2>3, <2>4 DEF AioInv
<1>18. ThreadInv(t)'
  BY <1>15, <1>16, <1>17 DEF ThreadInv
<1> QED
  BY <1>6, <1>9, <1>11, <1>18, StepOf

-----------------------------------------------------------------------------
(* Steps of the completion thread.                                         *)

(* It counts k completions and takes them from the ring.                   *)
LEMMA CountedKeeps ==
  ASSUME TypeOK, NEW t \in Threads, NEW k \in 1 .. Len(cq[t]), Counted(t, k),
         UNCHANGED <<test, pc, issued, lost, sq, inflight, written>>,
         qpc[t] = "wait", ~Blocking, CountInv(t), SeenInv(t)
  PROVE  CountInv(t)' /\ SeenInv(t)' /\ BlockingInv(t)'
<1>1. (Blocking' <=> Blocking) /\ Made(t)' = Made(t)
  BY DEF Blocking, Made
<1>2. \A j, f : Share(j, f)' = Share(j, f)
  BY ShareSame
<1>3. CountInv(t)'
  BY <1>1, <1>2 DEF CountInv
<1>4. DOMAIN seen = Threads /\ DOMAIN qpc = Threads /\ DOMAIN cq = Threads
  BY DEF TypeOK
<1>5. /\ seen'[t] = seen[t] + k /\ cq'[t] = SubSeq(cq[t], k + 1, Len(cq[t]))
      /\ qpc'[t] = IF seen[t] + k >= test.n THEN "done" ELSE "wait"
  BY <1>4 DEF Counted
<1>6. /\ seen[t] \in Int /\ Len(written[t]) \in Nat /\ Len(cq[t]) \in Nat
      /\ cq[t] \in Seq(Completion) /\ k \in Nat
  BY ThreadTypes
<1>7. Len(cq'[t]) = Len(cq[t]) - k
  BY <1>5, <1>6, RestFacts
<1>8. seen'[t] <= Len(written[t]) - Len(cq'[t])
  <2> DEFINE w == Len(written[t])
             c == Len(cq[t])
             s == seen[t]
  <2>1. w \in Nat /\ c \in Nat /\ s \in Int /\ s <= w - c
    BY <1>6 DEF SeenInv
  <2> HIDE DEF w, c, s
  <2>2. s + k <= w - (c - k)
    BY <1>6, <2>1
  <2> QED
    BY <1>5, <1>7, <2>2 DEF w, c, s
<1>9. SeenInv(t)'
  <2>1. qpc'[t] = "done" => seen'[t] >= test.n
    BY <1>5
  <2>2. pc'[t] \in {"total", "done"} => test.kind = "large"
    BY DEF SeenInv
  <2> QED
    BY <1>1, <1>8, <2>1, <2>2 DEF SeenInv
<1>10. BlockingInv(t)'
  BY <1>1 DEF BlockingInv
<1> QED
  BY <1>3, <1>9, <1>10

(* The types after k completions are counted.                              *)
LEMMA CountedTypes ==
  ASSUME TypeOK, NEW t \in Threads, NEW k \in 1 .. Len(cq[t]), Counted(t, k)
  PROVE  /\ seen' \in [Threads -> Int] /\ qpc' \in [Threads -> {"none", "wait", "done", "gaveup"}]
         /\ cq' \in [Threads -> Seq(Completion)]
         /\ \A u \in Threads \ {t} : seen'[u] = seen[u] /\ qpc'[u] = qpc[u] /\ cq'[u] = cq[u]
<1>1. cq[t] \in Seq(Completion) /\ seen[t] \in Int
  BY ThreadTypes
<1>2. SubSeq(cq[t], k + 1, Len(cq[t])) \in Seq(Completion)
  BY <1>1, RestFacts
<1>3. /\ seen \in [Threads -> Int] /\ qpc \in [Threads -> {"none", "wait", "done", "gaveup"}]
      /\ cq \in [Threads -> Seq(Completion)]
  BY DEF TypeOK
<1>4. cq' \in [Threads -> Seq(Completion)] /\ \A u \in Threads \ {t} : cq'[u] = cq[u]
  BY <1>2, <1>3 DEF Counted
<1>5. seen' \in [Threads -> Int] /\ \A u \in Threads \ {t} : seen'[u] = seen[u]
  BY <1>1, <1>3 DEF Counted
<1>6. qpc' \in [Threads -> {"none", "wait", "done", "gaveup"}] /\ \A u \in Threads \ {t} : qpc'[u] = qpc[u]
  BY <1>3 DEF Counted
<1> QED
  BY <1>4, <1>5, <1>6

(* A completion thread of io_uring gives up.                               *)
LEMMA GiveUpStep ==
  ASSUME LocalInv, NEW t \in Threads, ~Aio, qpc[t] = "wait",
         qpc' = [qpc EXCEPT ![t] = "gaveup"],
         UNCHANGED <<test, crashed, pc, issued, lost, sq, inflight, cq, written, seen, freed,
                     fails, open>>
  PROVE  LocalInv'
<1>1. TypeOK /\ DOMAIN qpc = Threads
  BY DEF LocalInv, TypeOK
<1>2. (Blocking' <=> Blocking) /\ (Aio' <=> Aio) /\ Made(t)' = Made(t)
  BY DEF Blocking, Aio, Made
<1>3. TypeOK'
  BY <1>1 DEF TypeOK
<1>4. Others(t) /\ qpc'[t] = "gaveup"
  BY <1>1 DEF Others
<1>5. \A j, f : Share(j, f)' = Share(j, f)
  BY ShareSame
<1>6. ASSUME pc[t] # "returned" PROVE ThreadInv(t)'
  <2>1. CountInv(t) /\ SeenInv(t) /\ BlockingInv(t)
    BY <1>6 DEF LocalInv, ThreadInv
  <2>2. CountInv(t)'
    BY <1>2, <1>5, <2>1 DEF CountInv
  <2>3. SeenInv(t)' /\ BlockingInv(t)'
    BY <1>2, <1>4, <2>1 DEF SeenInv, BlockingInv
  <2> QED
    BY <1>2, <2>2, <2>3 DEF ThreadInv, AioInv
<1>7. ThreadInv(t)'
  BY <1>6 DEF ThreadInv
<1> QED
  BY <1>3, <1>4, <1>7, StepOf

(* A completion of io_uring is counted, or the poll test's thread returns. *)
LEMMA CqSeenStep ==
  ASSUME LocalInv, NEW t \in Threads, CqSeen(t)
  PROVE  LocalInv'
<1>1. TypeOK /\ ~Aio /\ qpc[t] = "wait" /\ cq[t] # <<>>
  BY DEF LocalInv, CqSeen
<1>2. UNCHANGED <<test, crashed, pc, issued, lost, sq, inflight, written, freed, fails, open>>
  BY DEF CqSeen, issuerVars
<1>3. cq[t] \in Seq(Completion) /\ 1 \in 1 .. Len(cq[t])
  <2>1. cq[t] \in Seq(Completion)
    BY <1>1, ThreadTypes
  <2> QED
    BY <1>1, <2>1
<1>4. ASSUME pc[t] # "returned"
      PROVE  CountInv(t) /\ SeenInv(t) /\ BlockingInv(t) /\ ~Blocking
  <2>1. CountInv(t) /\ SeenInv(t) /\ BlockingInv(t)
    BY <1>4 DEF LocalInv, ThreadInv
  <2> QED
    BY <1>1, <2>1 DEF BlockingInv
<1>5. AioInv(t)'
  BY <1>1, <1>2 DEF AioInv, Aio
<1>6. CASE test.kind = "poll" /\ Head(cq[t]).res = "err"
  <2>1. qpc' = [qpc EXCEPT ![t] = "gaveup"] /\ seen' = seen /\ cq' = cq
    BY <1>6 DEF CqSeen
  <2> QED
    BY <1>1, <1>2, <2>1, GiveUpStep
<1>7. CASE ~(test.kind = "poll" /\ Head(cq[t]).res = "err")
  <2>1. Counted(t, 1)
    BY <1>7 DEF CqSeen
  <2>2. /\ seen' \in [Threads -> Int] /\ qpc' \in [Threads -> {"none", "wait", "done", "gaveup"}]
        /\ cq' \in [Threads -> Seq(Completion)]
        /\ \A u \in Threads \ {t} : seen'[u] = seen[u] /\ qpc'[u] = qpc[u] /\ cq'[u] = cq[u]
    BY <1>1, <1>3, <2>1, CountedTypes
  <2>3. TypeOK'
    BY <1>1, <1>2, <2>2 DEF TypeOK
  <2>4. Others(t)
    BY <1>2, <2>2 DEF Others
  <2>5. ASSUME pc[t] # "returned" PROVE ThreadInv(t)'
    <3>1. CountInv(t)' /\ SeenInv(t)' /\ BlockingInv(t)'
      BY <1>1, <1>2, <1>3, <1>4, <2>1, <2>5, CountedKeeps
    <3> QED
      BY <1>5, <3>1 DEF ThreadInv
  <2>6. ThreadInv(t)'
    BY <1>2, <2>5 DEF ThreadInv
  <2> QED
    BY <1>2, <2>3, <2>4, <2>6, StepOf
<1> QED
  BY <1>6, <1>7

(* Events of AIO are counted, their requests deleted and files closed.     *)
LEMMA GetEventsStep ==
  ASSUME LocalInv, NEW t \in Threads, GetEvents(t)
  PROVE  LocalInv'
<1> DEFINE c == Len(cq[t])
           k == IF c < test.depth THEN c ELSE test.depth
           files == {cq[t][i].file : i \in 1 .. k}
<1>1. TypeOK /\ Aio /\ ~Blocking /\ qpc[t] = "wait" /\ cq[t] # <<>>
  BY DEF LocalInv, GetEvents, Aio, Blocking
<1>2. /\ UNCHANGED <<test, crashed, pc, issued, lost, sq, inflight, written, fails>>
      /\ Counted(t, k)
      /\ freed' = [freed EXCEPT ![t] = @ + k]
      /\ open' = [open EXCEPT ![t] = @ \ files]
  BY DEF GetEvents, issuerVars
<1>3. /\ cq[t] \in Seq(Completion) /\ c \in Nat /\ freed[t] \in Nat
      /\ Len(inflight[t]) \in Nat /\ Len(written[t]) \in Nat
  BY <1>1, ThreadTypes
<1>4. test.depth \in Nat /\ test.depth > 0 /\ Ctx \in Nat
  BY <1>1, TestFacts DEF TypeOK
<1>5. c > 0
  BY <1>1, <1>3
<1> HIDE DEF c
<1>6. k \in 1 .. c /\ k \in Nat
  BY <1>3, <1>4, <1>5
<1> HIDE DEF k, files
<1>7. /\ seen' \in [Threads -> Int] /\ qpc' \in [Threads -> {"none", "wait", "done", "gaveup"}]
      /\ cq' \in [Threads -> Seq(Completion)]
      /\ \A u \in Threads \ {t} : seen'[u] = seen[u] /\ qpc'[u] = qpc[u] /\ cq'[u] = cq[u]
  BY <1>1, <1>2, <1>6, CountedTypes DEF c
<1>8. TypeOK'
  <2>1. freed' \in [Threads -> Nat]
    BY <1>1, <1>2, <1>6 DEF TypeOK
  <2>2. open' \in [Threads -> SUBSET Nat]
    <3>1. open \in [Threads -> SUBSET Nat] /\ open[t] \ files \in SUBSET Nat
      BY <1>1 DEF TypeOK
    <3> QED
      BY <1>2, <3>1
  <2> QED
    BY <1>1, <1>2, <1>7, <2>1, <2>2 DEF TypeOK
<1>9. DOMAIN freed = Threads /\ DOMAIN open = Threads /\ DOMAIN cq = Threads
  BY <1>1 DEF TypeOK
<1>10. Others(t) /\ freed'[t] = freed[t] + k /\ open'[t] = open[t] \ files
  BY <1>2, <1>7, <1>9 DEF Others
<1>11. /\ cq'[t] = SubSeq(cq[t], k + 1, Len(cq[t])) /\ Len(cq'[t]) = c - k
       /\ \A i \in 1 .. c - k : cq'[t][i] = cq[t][k + i]
  <2>1. cq'[t] = SubSeq(cq[t], k + 1, Len(cq[t]))
    BY <1>2, <1>9 DEF Counted
  <2>2. /\ Len(SubSeq(cq[t], k + 1, Len(cq[t]))) = Len(cq[t]) - k
        /\ \A i \in 1 .. Len(cq[t]) - k : SubSeq(cq[t], k + 1, Len(cq[t]))[i] = cq[t][k + i]
    BY <1>3, <1>6, RestFacts DEF c
  <2> QED
    BY <2>1, <2>2 DEF c
<1>12. (Blocking' <=> Blocking) /\ (Aio' <=> Aio)
  BY <1>2 DEF Blocking, Aio
<1>13. ASSUME pc[t] # "returned" PROVE ThreadInv(t)'
  <2>1. CountInv(t) /\ SeenInv(t) /\ AioInv(t)
    BY <1>13 DEF LocalInv, ThreadInv
  <2>2. CountInv(t)' /\ SeenInv(t)' /\ BlockingInv(t)'
    BY <1>1, <1>2, <1>6, <2>1, CountedKeeps DEF c
  <2>3. Len(inflight'[t]) + Len(cq'[t]) <= Ctx /\ freed'[t] = Len(written'[t]) - Len(cq'[t])
    <3> DEFINE a == Len(inflight[t])
               w == Len(written[t])
    <3>1. a \in Nat /\ w \in Nat /\ a + c <= Ctx /\ freed[t] = w - c
      BY <1>1, <1>3, <2>1 DEF AioInv, c
    <3> HIDE DEF a, w
    <3>2. a + (c - k) <= Ctx /\ freed[t] + k = w - (c - k)
      BY <1>3, <1>4, <1>6, <3>1
    <3>3. Len(inflight'[t]) = a /\ Len(written'[t]) = w
      BY <1>2 DEF a, w
    <3> QED
      BY <1>10, <1>11, <3>2, <3>3
  <2>4. ASSUME NEW f, f \in Under(t), f \notin files PROVE f \in Under(t)'
    <3>1. CASE \/ \E i \in 1 .. Len(sq[t]) : f = sq[t][i]
               \/ \E i \in 1 .. Len(inflight[t]) : f = inflight[t][i]
      BY <1>2, <3>1, UnderFactsNext
    <3>2. CASE \E i \in 1 .. c : f = cq[t][i].file
      <4>1. PICK i \in 1 .. c : f = cq[t][i].file
        BY <3>2
      <4>2. i \notin 1 .. k
        BY <2>4, <4>1 DEF files
      <4>3. i - k \in 1 .. c - k /\ k + (i - k) = i
        BY <1>3, <1>6, <4>2
      <4>4. cq'[t][i - k] = cq[t][i]
        BY <1>11, <4>3
      <4> QED
        BY <1>11, <4>1, <4>3, <4>4, UnderFactsNext
    <3> QED
      BY <2>4, <3>1, <3>2, UnderFacts DEF c
  <2>5. lost'[t] = 0 => open'[t] \subseteq Under(t)'
    <3>1. lost[t] = 0 => open[t] \subseteq Under(t)
      BY <1>1, <2>1 DEF AioInv
    <3> QED
      BY <1>2, <1>10, <2>4, <3>1
  <2>6. qpc'[t] # "gaveup"
    <3>1. DOMAIN qpc = Threads
      BY <1>1 DEF TypeOK
    <3> QED
      BY <1>2, <3>1 DEF Counted
  <2>7. AioInv(t)'
    BY <2>3, <2>5, <2>6 DEF AioInv
  <2> QED
    BY <2>2, <2>7 DEF ThreadInv
<1>14. ThreadInv(t)'
  BY <1>2, <1>13 DEF ThreadInv
<1> QED
  BY <1>2, <1>8, <1>10, <1>14, StepOf

(* A failed io_getevents lowers the count.                                 *)
LEMMA GetEventsFailsStep ==
  ASSUME LocalInv, NEW t \in Threads, GetEventsFails(t)
  PROVE  LocalInv'
<1>1. TypeOK /\ Aio /\ ~Blocking /\ qpc[t] = "wait" /\ fails < MaxFails
  BY DEF LocalInv, GetEventsFails, Aio, Blocking
<1>2. /\ UNCHANGED <<test, crashed, pc, issued, lost, sq, inflight, cq, written, qpc, freed, open>>
      /\ seen' = [seen EXCEPT ![t] = @ - 1] /\ fails' = fails + 1
  BY DEF GetEventsFails, issuerVars, ringVars
<1>3. seen[t] \in Int /\ Len(written[t]) \in Nat /\ Len(cq[t]) \in Nat
  BY <1>1, ThreadTypes
<1>4. TypeOK'
  <2>1. seen' \in [Threads -> Int]
    BY <1>1, <1>2 DEF TypeOK
  <2>2. fails' \in 0 .. MaxFails
    BY <1>1, <1>2, TestFacts DEF TypeOK
  <2> QED
    BY <1>1, <1>2, <2>1, <2>2 DEF TypeOK
<1>5. DOMAIN seen = Threads
  BY <1>1 DEF TypeOK
<1>6. Others(t) /\ seen'[t] = seen[t] - 1
  BY <1>2, <1>5 DEF Others
<1>7. (Blocking' <=> Blocking) /\ (Aio' <=> Aio) /\ Made(t)' = Made(t)
  BY <1>2 DEF Blocking, Aio, Made
<1>8. \A j, f : Share(j, f)' = Share(j, f)
  BY <1>2, ShareSame
<1>9. ASSUME pc[t] # "returned" PROVE ThreadInv(t)'
  <2>1. CountInv(t) /\ SeenInv(t) /\ AioInv(t)
    BY <1>9 DEF LocalInv, ThreadInv
  <2>2. CountInv(t)'
    BY <1>2, <1>7, <1>8, <2>1 DEF CountInv
  <2>3. seen'[t] <= Len(written[t]) - Len(cq[t])
    <3> DEFINE w == Len(written[t])
               c == Len(cq[t])
    <3>1. w \in Nat /\ c \in Nat /\ seen[t] <= w - c
      BY <1>1, <1>3, <2>1 DEF SeenInv
    <3> HIDE DEF w, c
    <3>2. seen'[t] <= w - c
      BY <1>3, <1>6, <3>1
    <3> QED
      BY <3>2 DEF w, c
  <2>4. SeenInv(t)' /\ BlockingInv(t)'
    BY <1>1, <1>2, <1>7, <2>1, <2>3 DEF SeenInv, BlockingInv
  <2>5. AioInv(t)'
    <3>1. Under(t)' = Under(t)
      BY <1>2 DEF Under
    <3> QED
      BY <1>2, <1>7, <2>1, <3>1 DEF AioInv
  <2> QED
    BY <2>2, <2>4, <2>5 DEF ThreadInv
<1>10. ThreadInv(t)'
  BY <1>2, <1>9 DEF ThreadInv
<1> QED
  BY <1>2, <1>4, <1>6, <1>10, StepOf

-----------------------------------------------------------------------------
(* The invariant and what follows from it.                                 *)

(* It holds when a test starts.                                            *)
LEMMA InitInv ==
  ASSUME Init
  PROVE  LocalInv
<1>1. TypeOK
  BY InitTypes
<1>2. ASSUME NEW t \in Threads PROVE ThreadInv(t)
  <2>1. /\ issued[t] = 0 /\ lost[t] = 0 /\ open[t] = {} /\ sq[t] = <<>> /\ inflight[t] = <<>>
        /\ cq[t] = <<>> /\ written[t] = <<>> /\ qpc[t] = "none" /\ seen[t] = 0 /\ freed[t] = 0
        /\ pc[t] \in {"none", "init"}
    BY DEF Init
  <2>2. Made(t) = 0 /\ Len(<<>>) = 0
    BY <2>1 DEF Made
  <2>3. test.n \in Nat /\ Ctx \in Nat
    BY <1>1, TestFacts DEF TypeOK
  <2>4. \A f \in Nat : Times(<<>>, f) = 0 /\ Share(0, f) = 0
    BY TimesEmpty, ShareZero
  <2>5. CountInv(t)
    BY <2>1, <2>2, <2>3, <2>4 DEF CountInv
  <2>6. SeenInv(t) /\ BlockingInv(t)
    BY <2>1, <2>2 DEF SeenInv, BlockingInv
  <2>7. AioInv(t)
    BY <2>1, <2>2, <2>3 DEF AioInv
  <2> QED
    BY <2>5, <2>6, <2>7 DEF ThreadInv
<1> QED
  BY <1>1, <1>2 DEF LocalInv

(* Every step keeps it.                                                    *)
LEMMA NextInv ==
  ASSUME LocalInv, [Next]_vars
  PROVE  LocalInv'
<1>1. CASE UNCHANGED vars
  BY <1>1, Stutter
<1>2. CASE Next
  <2>1. PICK t \in Threads : Issuer(t) \/ CqThread(t) \/ Kernel(t) \/ Fails(t)
    BY <1>2, ActiveThreads DEF Next
  <2>2. CASE \/ Setup(t) \/ SetupBlocking(t) \/ SetupFails(t) \/ OpenFiles(t)
             \/ LoopEnds(t) \/ Join(t)
    BY <2>2, ControlSteps
  <2>3. CASE CallFails(t) \/ NoSlot(t)
    BY <2>3, ReturnSteps
  <2>4. CASE WriteBlocking(t)
    BY <2>4, WriteBlockingStep
  <2>5. CASE CloseSmall(t)
    BY <2>5, CloseSmallStep
  <2>6. CASE BlockingFails(t)
    BY <2>6, BlockingFailsStep
  <2>7. CASE IssueUring(t)
    BY <2>7, IssueUringStep
  <2>8. CASE PrepareAio(t)
    BY <2>8, PrepareAioStep
  <2>9. CASE SubmitAio(t)
    BY <2>9, SubmitAioStep
  <2>10. CASE Finish(t)
    BY <2>10, FinishStep
  <2>11. CASE CqSeen(t)
    BY <2>11, CqSeenStep
  <2>12. CASE GetEvents(t)
    BY <2>12, GetEventsStep
  <2>13. CASE GetEventsFails(t)
    BY <2>13, GetEventsFailsStep
  <2>14. CASE SqThread(t)
    BY <2>14, SqThreadStep
  <2>15. CASE Complete(t)
    BY <2>15, CompleteStep
  <2>16. CASE CqGivesUp(t)
    BY <2>16, GiveUpStep DEF CqGivesUp, issuerVars, ringVars
  <2> QED
    BY <2>1, <2>2, <2>3, <2>4, <2>5, <2>6, <2>7, <2>8, <2>9, <2>10, <2>11, <2>12,
       <2>13, <2>14, <2>15, <2>16 DEF Issuer, CqThread, Kernel, Fails
<1> QED
  BY <1>1, <1>2

(* The invariant is one of every test.                                     *)
LEMMA Invariant == Spec => []LocalInv
<1>1. Init => LocalInv
  BY InitInv
<1>2. LocalInv /\ [Next]_vars => LocalInv'
  BY NextInv
<1> QED
  BY <1>1, <1>2, PTL DEF Spec

(* A thread that prints its total has nothing left under way.              *)
LEMMA AllDone ==
  ASSUME LocalInv, NEW t \in Threads, pc[t] \in {"total", "done"},
         test.kind # "large", ~GaveUp(t)
  PROVE  /\ Len(written[t]) = test.n /\ Len(inflight[t]) = 0 /\ Len(sq[t]) = 0
         /\ Len(cq[t]) = 0 /\ lost[t] = 0 /\ Made(t) = test.n
<1> DEFINE w == Len(written[t])
           i == Len(inflight[t])
           s == Len(sq[t])
           c == Len(cq[t])
           l == lost[t]
<1>1. TypeOK /\ CountInv(t) /\ SeenInv(t) /\ BlockingInv(t)
  BY DEF LocalInv, ThreadInv
<1>2. /\ w \in Nat /\ i \in Nat /\ s \in Nat /\ c \in Nat /\ l \in Nat
      /\ issued[t] \in Nat /\ seen[t] \in Int /\ test.n \in Nat
  BY <1>1, ThreadTypes, TestFacts
<1>3. Made(t) = issued[t]
  BY <1>1, <1>2 DEF CountInv, Made
<1>4. w + i + s + l = issued[t] /\ issued[t] <= test.n
  BY <1>1, <1>3 DEF CountInv
<1>5. CASE Blocking
  <2>1. issued[t] = test.n /\ i = 0 /\ s = 0 /\ c = 0 /\ l = 0
    BY <1>1, <1>5 DEF SeenInv, BlockingInv
  <2> HIDE DEF w, i, s, c, l
  <2>2. w = test.n
    BY <1>2, <1>4, <2>1
  <2> QED
    BY <1>3, <2>1, <2>2 DEF w, i, s, c, l
<1>6. CASE ~Blocking
  <2>1. seen[t] <= w - c /\ seen[t] >= test.n
    BY <1>1, <1>6 DEF SeenInv, GaveUp
  <2> HIDE DEF w, i, s, c, l
  <2>2. w = test.n /\ i = 0 /\ s = 0 /\ c = 0 /\ l = 0 /\ issued[t] = test.n
    BY <1>2, <1>4, <2>1
  <2> QED
    BY <1>3, <2>2 DEF w, i, s, c, l
<1> QED
  BY <1>5, <1>6

(* The variables keep their types, whatever the tests and their arguments. *)
THEOREM LocalTypeCorrect == Spec => []TypeOK
<1>1. LocalInv => TypeOK
  BY DEF LocalInv
<1> QED
  BY <1>1, Invariant, PTL

(* When a test that joins its thread prints its total, every one of the N  *)
(* writes is finished, each file has its share and no request was refused, *)
(* for every N, depth, number of files and size of the context: unless the *)
(* completion thread has given up.                                         *)
THEOREM TotalsAreWritten == Spec => []TotalIsWritten
<1>1. LocalInv => TotalIsWritten
  <2> SUFFICES ASSUME LocalInv, NEW t \in Active, pc[t] \in {"total", "done"},
                      test.kind # "large", ~GaveUp(t), NEW f \in 0 .. test.n
               PROVE  Times(written[t], f) = Share(test.n, f)
    BY DEF TotalIsWritten, Share
  <2>1. t \in Threads /\ TypeOK /\ CountInv(t)
    BY ActiveThreads DEF LocalInv, ThreadInv
  <2>2. test.n \in Nat /\ f \in Nat
    BY <2>1, TestFacts DEF TypeOK
  <2>3. /\ Len(inflight[t]) = 0 /\ Len(sq[t]) = 0 /\ lost[t] = 0 /\ Made(t) = test.n
    BY <2>1, AllDone
  <2>4. inflight[t] = <<>> /\ sq[t] = <<>>
    <3>1. inflight[t] \in Seq(Nat) /\ sq[t] \in Seq(Nat)
      BY <2>1, ThreadTypes
    <3> QED
      BY <2>3, <3>1
  <2>5. Times(written[t], f) + Times(inflight[t], f) + Times(sq[t], f) = Share(test.n, f)
    BY <2>1, <2>2, <2>3 DEF CountInv
  <2>6. Times(inflight[t], f) = 0 /\ Times(sq[t], f) = 0 /\ Times(written[t], f) \in Nat
    BY <2>1, <2>4, TimesEmpty, HeldType
  <2> QED
    BY <2>5, <2>6
<1> QED
  BY <1>1, Invariant, PTL

(* An AIO test that ends has deleted all its requests and closed all its   *)
(* files, for every N, depth and size of the context.                      *)
THEOREM AioLeavesNothing == Spec => []AioClean
<1>1. LocalInv => AioClean
  <2> SUFFICES ASSUME LocalInv, NEW t \in Active, Aio, pc[t] = "done"
               PROVE  freed[t] = test.n /\ open[t] = {}
    BY DEF AioClean
  <2>1. t \in Threads /\ TypeOK /\ AioInv(t)
    BY ActiveThreads DEF LocalInv, ThreadInv
  <2>2. test.kind # "large" /\ ~GaveUp(t)
    BY <2>1 DEF Aio, GaveUp, AioInv
  <2>3. /\ Len(written[t]) = test.n /\ Len(inflight[t]) = 0 /\ Len(sq[t]) = 0
        /\ Len(cq[t]) = 0 /\ lost[t] = 0
    BY <2>1, <2>2, AllDone
  <2>4. freed[t] = test.n - 0
    BY <2>1, <2>3 DEF AioInv
  <2>5. test.n \in Nat
    BY <2>1, TestFacts DEF TypeOK
  <2>6. Under(t) = {}
    BY <2>3 DEF Under
  <2>7. open[t] = {}
    BY <2>1, <2>3, <2>6 DEF AioInv
  <2> QED
    BY <2>4, <2>5, <2>7
<1> QED
  BY <1>1, Invariant, PTL

=============================================================================
