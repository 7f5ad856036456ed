----------------------- MODULE CryptoAdmissionProofs -----------------------
(***************************************************************************)
(* Proofs about CryptoAdmission, for any number of jobs and any limits:    *)
(* permits are conserved, so the execution and the queue limit hold.       *)
(***************************************************************************)
EXTENDS CryptoAdmission, FiniteSetTheorems, SequenceTheorems, TLAPS

Holding == {"granted", "running", "detached"}
Positioned == {"enqueue", "waiting", "granted"}

\* How many jobs are at one of the program counters S in f.
Count(f, S) == Cardinality({j \in Jobs : f[j] \in S})

\* One when the program counter l is in S.
One(l, S) == IF l \in S THEN 1 ELSE 0

\* The queue holds exactly the jobs that wait, each once.
QueueInv ==
    /\ \A i, k \in DOMAIN queue : queue[i] = queue[k] => i = k
    /\ \A j \in Jobs : pc[j] = "waiting" <=> \E i \in DOMAIN queue : queue[i] = j

\* The inductive invariant.
AdmissionInv == TypeOK /\ QueueInv /\ PermitsConserved
-----------------------------------------------------------------------------
\* What is left of a limit lies between zero and the limit.
LEMMA PartInRange ==
    ASSUME NEW a \in Nat, NEW b \in Nat, NEW m \in Nat, a + b = m
    PROVE  a \in 0 .. m
  OBVIOUS

\* A count of jobs is a natural number: Jobs is finite.
LEMMA CountType ==
    ASSUME NEW f, NEW S
    PROVE  Count(f, S) \in Nat /\ IsFiniteSet({j \in Jobs : f[j] \in S})
<1>1. IsFiniteSet({j \in Jobs : f[j] \in S})
  BY AdmissionAssumption, FS_Subset
<1> QED  BY <1>1, FS_CardinalityType DEF Count

\* What moving one job does to a count.
LEMMA MoveCount ==
    ASSUME NEW f \in [Jobs -> PCs], NEW j \in Jobs, NEW l \in PCs, NEW S
    PROVE  Count([f EXCEPT ![j] = l], S)
             = Count(f, S) + One(l, S) - One(f[j], S)
<1> DEFINE g == [f EXCEPT ![j] = l]
           F == {k \in Jobs : f[k] \in S}
           G == {k \in Jobs : g[k] \in S}
<1>0. IsFiniteSet(F) /\ IsFiniteSet(G) /\ Count(f, S) \in Nat /\ Count(g, S) \in Nat
  BY CountType
<1>a. Count(f, S) = Cardinality(F) /\ Count(g, S) = Cardinality(G)
  BY DEF Count
<1>1. CASE l \in S /\ f[j] \in S
  <2>1. F = G
    BY <1>1
  <2> HIDE DEF F, G, g
  <2>2. Count(g, S) = Count(f, S)
    BY <1>a, <2>1
  <2> QED  BY <1>0, <1>1, <2>2 DEF g, One
<1>2. CASE l \in S /\ f[j] \notin S
  <2>1. G = F \cup {j} /\ j \notin F
    BY <1>2
  <2>2. Cardinality(F \cup {j}) = Cardinality(F) + 1
    BY <1>0, <2>1, FS_AddElement
  <2> HIDE DEF F, G, g
  <2>3. Count(g, S) = Count(f, S) + 1
    BY <1>a, <2>1, <2>2
  <2> QED  BY <1>0, <1>2, <2>3 DEF g, One
<1>3. CASE l \notin S /\ f[j] \in S
  <2>1. G = F \ {j} /\ j \in F
    BY <1>3
  <2>2. Cardinality(F \ {j}) = Cardinality(F) - 1
    BY <1>0, <2>1, FS_RemoveElement
  <2> HIDE DEF F, G, g
  <2>3. Count(g, S) = Count(f, S) - 1
    BY <1>a, <2>1, <2>2
  <2> QED  BY <1>0, <1>3, <2>3 DEF g, One
<1>4. CASE l \notin S /\ f[j] \notin S
  <2>1. F = G
    BY <1>4
  <2> HIDE DEF F, G, g
  <2>2. Count(g, S) = Count(f, S)
    BY <1>a, <2>1
  <2> QED  BY <1>0, <1>4, <2>2 DEF g, One
<1> QED  BY <1>1, <1>2, <1>3, <1>4

\* The queue without one of its members.
LEMMA WithoutOK ==
    ASSUME NEW q \in Seq(Jobs), NEW j \in Jobs,
           \A i, k \in DOMAIN q : q[i] = q[k] => i = k,
           \E i \in DOMAIN q : q[i] = j
    PROVE  /\ Without(q, j) \in Seq(Jobs)
           /\ \A i, k \in DOMAIN Without(q, j) :
                 Without(q, j)[i] = Without(q, j)[k] => i = k
           /\ \A k \in Jobs : (\E i \in DOMAIN Without(q, j) : Without(q, j)[i] = k)
                                <=> k # j /\ \E i \in DOMAIN q : q[i] = k
<1> DEFINE p == CHOOSE i \in DOMAIN q : q[i] = j
           r == [i \in 1 .. Len(q) - 1 |-> IF i < p THEN q[i] ELSE q[i + 1]]
<1>1. p \in DOMAIN q /\ q[p] = j
  OBVIOUS
<1>2. DOMAIN q = 1 .. Len(q) /\ Len(q) \in Nat /\ \A i \in 1 .. Len(q) : q[i] \in Jobs
  OBVIOUS
<1>3. Without(q, j) = r
  BY DEF Without
<1> HIDE DEF p
<1>4. Len(q) - 1 \in Nat
  BY <1>1, <1>2
<1>5. r \in [1 .. Len(q) - 1 -> Jobs]
  BY <1>1, <1>2
<1>6. r \in Seq(Jobs)
  BY <1>4, <1>5, IsASeq
<1>7. \A i, k \in DOMAIN r : r[i] = r[k] => i = k
  BY <1>1, <1>2
<1>8. ASSUME NEW k \in Jobs
      PROVE  (\E i \in DOMAIN r : r[i] = k) <=> k # j /\ \E i \in DOMAIN q : q[i] = k
  <2>1. ASSUME NEW i \in DOMAIN r, r[i] = k
        PROVE  k # j /\ \E m \in DOMAIN q : q[m] = k
    BY <1>1, <1>2, <2>1
  <2>2. ASSUME NEW m \in DOMAIN q, q[m] = k, k # j
        PROVE  \E i \in DOMAIN r : r[i] = k
    <3>1. CASE m < p
      <4>1. m \in DOMAIN r /\ r[m] = k
        BY <3>1, <2>2, <1>1, <1>2
      <4> QED  BY <4>1
    <3>2. CASE m > p
      <4>1. m - 1 \in DOMAIN r /\ r[m - 1] = k
        BY <3>2, <2>2, <1>1, <1>2
      <4> QED  BY <4>1
    <3> QED  BY <3>1, <3>2, <2>2, <1>1, <1>2
  <2> QED  BY <2>1, <2>2
<1> HIDE DEF r
<1> QED  BY <1>3, <1>6, <1>7, <1>8
-----------------------------------------------------------------------------
\* PermitsConserved in terms of Count.
LEMMA Conserved ==
    PermitsConserved <=> /\ available + Count(pc, Holding) = Max
                         /\ positions + Count(pc, Positioned) = Queued
  BY DEF PermitsConserved, In, Count, Holding, Positioned

\* A step that moves one job and exchanges its permits accordingly.
LEMMA OneMove ==
    ASSUME AdmissionInv, NEW j \in Jobs, NEW l \in PCs, pc' = [pc EXCEPT ![j] = l],
           available' \in Nat, positions' \in Nat,
           available' = available + One(pc[j], Holding) - One(l, Holding),
           positions' = positions + One(pc[j], Positioned) - One(l, Positioned)
    PROVE  /\ available' \in 0 .. Max /\ positions' \in 0 .. Queued
           /\ pc' \in [Jobs -> PCs]
           /\ PermitsConserved'
<1>1. pc \in [Jobs -> PCs] /\ pc' \in [Jobs -> PCs] /\ available \in Nat /\ positions \in Nat
  BY DEF AdmissionInv, TypeOK
<1>2. /\ Count(pc', Holding) = Count(pc, Holding) + One(l, Holding) - One(pc[j], Holding)
      /\ Count(pc', Positioned)
           = Count(pc, Positioned) + One(l, Positioned) - One(pc[j], Positioned)
  <2>1. \A S : Count([pc EXCEPT ![j] = l], S) = Count(pc, S) + One(l, S) - One(pc[j], S)
    <3>1. pc \in [Jobs -> PCs]
      BY <1>1, Zenon
    <3> QED  BY <3>1, MoveCount, ZenonT(60)
  <2> QED  BY <2>1, Zenon
<1>3. /\ Count(pc, Holding) \in Nat /\ Count(pc, Positioned) \in Nat
      /\ Count(pc', Holding) \in Nat /\ Count(pc', Positioned) \in Nat
  BY CountType
<1>4. available + Count(pc, Holding) = Max /\ positions + Count(pc, Positioned) = Queued
  BY Conserved DEF AdmissionInv
<1>5. /\ One(l, Holding) \in 0 .. 1 /\ One(pc[j], Holding) \in 0 .. 1
      /\ One(l, Positioned) \in 0 .. 1 /\ One(pc[j], Positioned) \in 0 .. 1
  BY DEF One
<1>6. available' + Count(pc', Holding) = Max /\ positions' + Count(pc', Positioned) = Queued
  BY <1>1, <1>2, <1>3, <1>4, <1>5
<1>7. available' \in 0 .. Max /\ positions' \in 0 .. Queued
  BY <1>3, <1>6, AdmissionAssumption
<1>8. PermitsConserved'
  BY <1>6 DEF PermitsConserved, In, Count, Holding, Positioned
<1> QED  BY <1>1, <1>7, <1>8

\* The queue is untouched by a job that neither waits nor starts to.
LEMMA QueueKept ==
    ASSUME AdmissionInv, NEW j \in Jobs, NEW l \in PCs, pc' = [pc EXCEPT ![j] = l],
           pc[j] # "waiting", l # "waiting", queue' = queue
    PROVE  queue' \in Seq(Jobs) /\ QueueInv'
  BY DEF AdmissionInv, TypeOK, QueueInv

\* A job that begins to wait joins the semaphore's queue (Enqueue).
LEMMA QueueJoined ==
    ASSUME AdmissionInv, NEW j \in Jobs, pc' = [pc EXCEPT ![j] = "waiting"],
           pc[j] # "waiting", queue' = Append(queue, j)
    PROVE  queue' \in Seq(Jobs) /\ QueueInv'
<1>1. queue \in Seq(Jobs) /\ pc \in [Jobs -> PCs] /\ Len(queue) \in Nat
  BY DEF AdmissionInv, TypeOK
<1>2. queue' \in Seq(Jobs) /\ Len(queue') = Len(queue) + 1
  BY <1>1
<1>3. \A i \in DOMAIN queue' : queue'[i] = IF i <= Len(queue) THEN queue[i] ELSE j
  BY <1>1
<1>4. \A i \in DOMAIN queue : queue[i] # j
  BY DEF AdmissionInv, QueueInv
<1>5. DOMAIN queue = 1 .. Len(queue) /\ DOMAIN queue' = 1 .. Len(queue) + 1
  BY <1>1, <1>2
<1>6. \A i, k \in DOMAIN queue' : queue'[i] = queue'[k] => i = k
  BY <1>1, <1>3, <1>4, <1>5 DEF AdmissionInv, QueueInv
<1>7. ASSUME NEW k \in Jobs
      PROVE  pc'[k] = "waiting" <=> \E i \in DOMAIN queue' : queue'[i] = k
  <2>1. CASE k = j
    <3>1. Len(queue) + 1 \in DOMAIN queue' /\ queue'[Len(queue) + 1] = j
      BY <1>1, <1>3, <1>5
    <3> QED  BY <2>1, <3>1, <1>1
  <2>2. CASE k # j
    <3>1. (\E i \in DOMAIN queue' : queue'[i] = k) <=> \E i \in DOMAIN queue : queue[i] = k
      BY <2>2, <1>1, <1>3, <1>5
    <3> QED  BY <2>2, <3>1, <1>1 DEF AdmissionInv, QueueInv
  <2> QED  BY <2>1, <2>2
<1> QED  BY <1>2, <1>6, <1>7 DEF QueueInv

\* A waiter whose deadline passes or whose caller goes away leaves the queue.
LEMMA QueueLeft ==
    ASSUME AdmissionInv, NEW j \in Jobs, NEW l \in PCs, pc' = [pc EXCEPT ![j] = l],
           pc[j] = "waiting", l # "waiting", queue' = Without(queue, j)
    PROVE  queue' \in Seq(Jobs) /\ QueueInv'
<1>1. queue \in Seq(Jobs) /\ pc \in [Jobs -> PCs]
  BY DEF AdmissionInv, TypeOK
<1>2. /\ \A i, k \in DOMAIN queue : queue[i] = queue[k] => i = k
      /\ \E i \in DOMAIN queue : queue[i] = j
  BY DEF AdmissionInv, QueueInv
<1>3. /\ queue' \in Seq(Jobs)
      /\ \A i, k \in DOMAIN queue' : queue'[i] = queue'[k] => i = k
      /\ \A k \in Jobs : (\E i \in DOMAIN queue' : queue'[i] = k)
                             <=> k # j /\ \E i \in DOMAIN queue : queue[i] = k
  BY <1>1, <1>2, WithoutOK
<1>4. \A k \in Jobs : pc'[k] = "waiting" <=> k # j /\ pc[k] = "waiting"
  BY <1>1
<1> QED  BY <1>3, <1>4 DEF AdmissionInv, QueueInv

\* A released permit that goes to the longest waiter.
LEMMA HandOverOK ==
    ASSUME AdmissionInv, NEW j \in Jobs, pc[j] \in Holding, HandOver(j, "idle"),
           positions' = positions + One(pc[j], Positioned)
    PROVE  AdmissionInv'
<1>0. /\ pc \in [Jobs -> PCs] /\ available \in Nat /\ positions \in Nat
      /\ queue \in Seq(Jobs) /\ pc[j] # "waiting"
  BY DEF AdmissionInv, TypeOK, Holding
<1>a. /\ One(pc[j], Holding) = 1 /\ One("idle", Holding) = 0 /\ One("idle", Positioned) = 0
      /\ One("granted", Holding) = 1 /\ One("waiting", Holding) = 0
      /\ One("granted", Positioned) = 1 /\ One("waiting", Positioned) = 1
      /\ One(pc[j], Positioned) \in 0 .. 1
  BY DEF One, Holding, Positioned
<1>1. CASE queue = << >>
  <2>1. available' = available + 1 /\ pc' = [pc EXCEPT ![j] = "idle"] /\ queue' = queue
    BY <1>1 DEF HandOver
  <2>2. available' \in Nat /\ positions' \in Nat
    BY <2>1, <1>0, <1>a
  <2>3. /\ available' = available + One(pc[j], Holding) - One("idle", Holding)
        /\ positions' = positions + One(pc[j], Positioned) - One("idle", Positioned)
    BY <2>1, <1>0, <1>a
  <2>4. "idle" \in PCs
    BY DEF PCs
  <2> QED  BY <2>1, <2>2, <2>3, <2>4, <1>0, OneMove, QueueKept DEF AdmissionInv, TypeOK
<1>2. CASE queue # << >>
  <2> DEFINE h == Head(queue)
             f == [pc EXCEPT ![j] = "idle"]
  <2>1. available' = available /\ queue' = Tail(queue)
        /\ pc' = [f EXCEPT ![h] = "granted"]
    BY <1>2 DEF HandOver
  <2>2. h \in Jobs /\ h = queue[1] /\ 1 \in DOMAIN queue
    BY <1>0, <1>2
  <2> HIDE DEF h
  <2>3. pc[h] = "waiting" /\ h # j
    BY <2>2, <1>0 DEF AdmissionInv, QueueInv
  <2>4. f \in [Jobs -> PCs] /\ f[h] = "waiting" /\ pc' \in [Jobs -> PCs]
    BY <2>1, <2>2, <2>3, <1>0 DEF PCs
  <2>5. \A S : Count(f, S) = Count(pc, S) + One("idle", S) - One(pc[j], S)
    <3>1. "idle" \in PCs
      BY DEF PCs
    <3> QED  BY <1>0, <3>1, MoveCount, Zenon
  <2> HIDE DEF f
  <2>6. \A S : Count(pc', S) = Count(f, S) + One("granted", S) - One("waiting", S)
    <3>1. "granted" \in PCs
      BY DEF PCs
    <3>2. \A S : Count([f EXCEPT ![h] = "granted"], S)
                    = Count(f, S) + One("granted", S) - One(f[h], S)
      BY <2>2, <2>4, <3>1, MoveCount, Zenon
    <3>3. f[h] = "waiting"
      BY <2>4
    <3> QED  BY <2>1, <3>2, <3>3, Zenon
  <2>7. /\ Count(pc', Holding) = Count(f, Holding) + 1 - 0
        /\ Count(pc', Positioned) = Count(f, Positioned) + 1 - 1
        /\ Count(f, Holding) = Count(pc, Holding) + 0 - 1
        /\ Count(f, Positioned) = Count(pc, Positioned) + 0 - One(pc[j], Positioned)
    BY <2>5, <2>6, <1>a, Zenon
  <2>8. /\ Count(pc, Holding) \in Nat /\ Count(pc, Positioned) \in Nat
        /\ Count(pc', Holding) \in Nat /\ Count(pc', Positioned) \in Nat
        /\ Count(f, Holding) \in Nat /\ Count(f, Positioned) \in Nat
    BY CountType
  <2>9. available + Count(pc, Holding) = Max /\ positions + Count(pc, Positioned) = Queued
    BY Conserved DEF AdmissionInv
  <2>10. available' + Count(pc', Holding) = Max /\ positions' + Count(pc', Positioned) = Queued
    <3> DEFINE ch == Count(pc, Holding)
               cp == Count(pc, Positioned)
               fh == Count(f, Holding)
               fp == Count(f, Positioned)
               gh == Count(pc', Holding)
               gp == Count(pc', Positioned)
               x  == One(pc[j], Positioned)
    <3>1. gh = fh + 1 - 0 /\ gp = fp + 1 - 1 /\ fh = ch + 0 - 1 /\ fp = cp + 0 - x
      BY <2>7
    <3>2. ch \in Nat /\ cp \in Nat /\ gh \in Nat /\ gp \in Nat /\ fh \in Nat /\ fp \in Nat
      BY <2>8
    <3>3. available + ch = Max /\ positions + cp = Queued /\ x \in 0 .. 1
      BY <2>9, <1>a
    <3>4. available' = available /\ positions' = positions + x
      BY <2>1
    <3> HIDE DEF ch, cp, fh, fp, gh, gp, x
    <3>5. available' + gh = Max /\ positions' + gp = Queued
      BY <1>0, <3>1, <3>2, <3>3, <3>4, AdmissionAssumption
    <3> QED  BY <3>5 DEF gh, gp
  <2>11. available' \in 0 .. Max /\ positions' \in 0 .. Queued
    <3> DEFINE gh == Count(pc', Holding)
               gp == Count(pc', Positioned)
               x  == One(pc[j], Positioned)
    <3>1. gh \in Nat /\ gp \in Nat
      BY <2>8
    <3>2. available' + gh = Max /\ positions' + gp = Queued
      BY <2>10
    <3>3. available' = available /\ positions' = positions + x /\ x \in 0 .. 1
      BY <2>1, <1>a
    <3> HIDE DEF gh, gp, x
    <3>4. available' \in Nat /\ positions' \in Nat
      BY <1>0, <3>3
    <3>5. Max \in Nat /\ Queued \in Nat
      BY AdmissionAssumption
    <3>6. available' \in 0 .. Max
      BY <3>1, <3>2, <3>4, <3>5, PartInRange
    <3>7. positions' \in 0 .. Queued
      BY <3>1, <3>2, <3>4, <3>5, PartInRange
    <3> QED  BY <3>6, <3>7
  <2>12. PermitsConserved'
    BY <2>10 DEF PermitsConserved, In, Count, Holding, Positioned
  <2>13. queue' \in Seq(Jobs) /\ QueueInv'
    <3>1. /\ queue' \in Seq(Jobs) /\ Len(queue) \in Nat /\ Len(queue) >= 1
          /\ DOMAIN queue' = 1 .. Len(queue) - 1 /\ DOMAIN queue = 1 .. Len(queue)
      BY <2>1, <1>0, <1>2
    <3>2. \A i \in DOMAIN queue' : queue'[i] = queue[i + 1]
      BY <2>1, <1>0, <1>2
    <3>3. \A i, k \in DOMAIN queue : queue[i] = queue[k] => i = k
      BY DEF AdmissionInv, QueueInv
    <3>4. \A i, k \in DOMAIN queue' : queue'[i] = queue'[k] => i = k
      BY <3>1, <3>2, <3>3
    <3>5. \A k \in Jobs : pc'[k] = "waiting" <=> k # h /\ pc[k] = "waiting"
      BY <2>1, <2>2, <2>3, <1>0 DEF f
    <3>6. ASSUME NEW k \in Jobs
          PROVE  (\E i \in DOMAIN queue' : queue'[i] = k)
                    <=> k # h /\ \E i \in DOMAIN queue : queue[i] = k
      <4>1. ASSUME NEW i \in DOMAIN queue', queue'[i] = k
            PROVE  k # h /\ \E m \in DOMAIN queue : queue[m] = k
        <5>1. i + 1 \in DOMAIN queue /\ queue[i + 1] = k /\ i + 1 # 1
          BY <4>1, <3>1, <3>2
        <5> QED  BY <5>1, <3>3, <2>2
      <4>2. ASSUME NEW m \in DOMAIN queue, queue[m] = k, k # h
            PROVE  \E i \in DOMAIN queue' : queue'[i] = k
        <5>1. m # 1
          BY <4>2, <2>2
        <5>2. m - 1 \in DOMAIN queue' /\ (m - 1) + 1 = m
          BY <4>2, <5>1, <3>1
        <5> QED  BY <4>2, <5>2, <3>2
      <4> QED  BY <4>1, <4>2
    <3> QED  BY <3>1, <3>4, <3>5, <3>6 DEF AdmissionInv, QueueInv
  <2> QED  BY <2>4, <2>11, <2>12, <2>13 DEF AdmissionInv, TypeOK
<1> QED  BY <1>1, <1>2
-----------------------------------------------------------------------------
\* Every step of acquire, run and the closures keeps the invariant.
LEMMA AdmissionStep == AdmissionInv /\ [Next]_vars => AdmissionInv'
<1> SUFFICES ASSUME AdmissionInv, [Next]_vars PROVE AdmissionInv'
  OBVIOUS
<1>0. pc \in [Jobs -> PCs] /\ available \in Nat /\ positions \in Nat
  BY DEF AdmissionInv, TypeOK
<1>a. \A l \in PCs : One(l, Holding) = (IF l \in {"granted", "running", "detached"} THEN 1 ELSE 0)
                    /\ One(l, Positioned) = (IF l \in {"enqueue", "waiting", "granted"} THEN 1 ELSE 0)
  BY DEF One, Holding, Positioned
<1>1. CASE UNCHANGED vars
  BY <1>1 DEF vars, AdmissionInv, TypeOK, QueueInv, PermitsConserved, In
<1>2. ASSUME NEW j \in Jobs,
             \/ TryExecution(j) \/ TryPosition(j) \/ Enqueue(j) \/ Admit(j)
             \/ Timeout(j) \/ CancelWaiting(j) \/ CancelRunning(j) \/ Finish(j)
      PROVE  AdmissionInv'
  <2>a. ASSUME NEW l \in PCs, pc' = [pc EXCEPT ![j] = l],
               available' \in Nat, positions' \in Nat,
               available' = available + One(pc[j], Holding) - One(l, Holding),
               positions' = positions + One(pc[j], Positioned) - One(l, Positioned),
               queue' \in Seq(Jobs) /\ QueueInv'
        PROVE  AdmissionInv'
    BY <2>a, OneMove DEF AdmissionInv, TypeOK
  <2>1. CASE TryExecution(j)
    <3>1. CASE available > 0
      <4>1. queue' \in Seq(Jobs) /\ QueueInv'
        BY <2>1, <3>1, QueueKept DEF TryExecution, Goto, PCs
      <4> QED  BY <2>1, <3>1, <4>1, <2>a, <1>0, <1>a DEF TryExecution, Goto, PCs
    <3>2. CASE ~(available > 0)
      <4>1. queue' \in Seq(Jobs) /\ QueueInv'
        BY <2>1, <3>2, QueueKept DEF TryExecution, Goto, PCs
      <4> QED  BY <2>1, <3>2, <4>1, <2>a, <1>0, <1>a DEF TryExecution, Goto, PCs
    <3> QED  BY <3>1, <3>2
  <2>2. CASE TryPosition(j)
    <3>1. CASE positions > 0
      <4>1. queue' \in Seq(Jobs) /\ QueueInv'
        BY <2>2, <3>1, QueueKept DEF TryPosition, Goto, PCs
      <4> QED  BY <2>2, <3>1, <4>1, <2>a, <1>0, <1>a DEF TryPosition, Goto, PCs
    <3>2. CASE ~(positions > 0)
      <4>1. queue' \in Seq(Jobs) /\ QueueInv'
        BY <2>2, <3>2, QueueKept DEF TryPosition, Goto, PCs
      <4> QED  BY <2>2, <3>2, <4>1, <2>a, <1>0, <1>a DEF TryPosition, Goto, PCs
    <3> QED  BY <3>1, <3>2
  <2>3. CASE Enqueue(j)
    <3>1. CASE available > 0
      <4>1. queue' \in Seq(Jobs) /\ QueueInv'
        BY <2>3, <3>1, QueueKept DEF Enqueue, Goto, PCs
      <4> QED  BY <2>3, <3>1, <4>1, <2>a, <1>0, <1>a DEF Enqueue, Goto, PCs
    <3>2. CASE ~(available > 0)
      <4>1. queue' \in Seq(Jobs) /\ QueueInv'
        BY <2>3, <3>2, QueueJoined DEF Enqueue, Goto
      <4> QED  BY <2>3, <3>2, <4>1, <2>a, <1>0, <1>a DEF Enqueue, Goto, PCs
    <3> QED  BY <3>1, <3>2
  <2>4. CASE Admit(j)
    <3>1. queue' \in Seq(Jobs) /\ QueueInv'
      BY <2>4, QueueKept DEF Admit, Goto, PCs
    <3> QED  BY <2>4, <3>1, <2>a, <1>0, <1>a DEF Admit, Goto, PCs
  <2>5. ASSUME pc[j] = "waiting", queue' = Without(queue, j), positions' = positions + 1,
               pc' = [pc EXCEPT ![j] = "idle"], available' = available
        PROVE  AdmissionInv'
    <3>1. queue' \in Seq(Jobs) /\ QueueInv'
      BY <2>5, QueueLeft DEF PCs
    <3> QED  BY <2>5, <3>1, <2>a, <1>0, <1>a DEF PCs
  <2>6. CASE Timeout(j)
    BY <2>6, <2>5 DEF Timeout, Goto
  <2>7. CASE CancelWaiting(j)
    <3>1. CASE pc[j] = "waiting"
      BY <2>7, <3>1, <2>5 DEF CancelWaiting, Goto
    <3>2. CASE pc[j] = "granted" /\ HandOver(j, "idle")
      BY <2>7, <3>2, <1>0, <1>a, HandOverOK DEF CancelWaiting, Holding, PCs
    <3> QED  BY <2>7, <3>1, <3>2 DEF CancelWaiting
  <2>8. CASE CancelRunning(j)
    <3>1. queue' \in Seq(Jobs) /\ QueueInv'
      BY <2>8, QueueKept DEF CancelRunning, Goto, PCs
    <3> QED  BY <2>8, <3>1, <2>a, <1>0, <1>a DEF CancelRunning, Goto, PCs
  <2>9. CASE Finish(j)
    <3>1. pc[j] \in Holding /\ One(pc[j], Positioned) = 0
      BY <2>9 DEF Finish, Holding, One, Positioned
    <3> QED  BY <2>9, <3>1, <1>0, HandOverOK DEF Finish
  <2> QED  BY <1>2, <2>1, <2>2, <2>3, <2>4, <2>6, <2>7, <2>8, <2>9
<1> QED  BY <1>1, <1>2 DEF Next

\* A new CryptoLimiter, all permits free, satisfies the invariant.
LEMMA AdmissionInit == Init => AdmissionInv
<1> SUFFICES ASSUME Init PROVE AdmissionInv
  OBVIOUS
<1>1. TypeOK
  BY AdmissionAssumption DEF Init, TypeOK, PCs
<1>2. QueueInv
  BY DEF Init, QueueInv
<1>3. In({"granted", "running", "detached"}) = {} /\ In({"enqueue", "waiting", "granted"}) = {}
  BY DEF Init, In
<1>4. Cardinality({}) = 0
  BY FS_EmptySet
<1>5. PermitsConserved
  <2>1. available = Max /\ positions = Queued /\ Max \in Nat /\ Queued \in Nat
    BY AdmissionAssumption DEF Init
  <2>2. /\ Cardinality(In({"granted", "running", "detached"})) = 0
        /\ Cardinality(In({"enqueue", "waiting", "granted"})) = 0
    BY <1>3, <1>4, Zenon
  <2> QED  BY <2>1, <2>2 DEF PermitsConserved
<1> QED  BY <1>1, <1>2, <1>5 DEF AdmissionInv

\* Permits are conserved through timeouts, cancellations and detached closures,
\* whatever the limits and the number of jobs.
THEOREM PermitsConservedHolds == Spec => []PermitsConserved
<1>1. AdmissionInv => PermitsConserved
  BY DEF AdmissionInv
<1> QED  BY <1>1, AdmissionInit, AdmissionStep, PTL DEF Spec

\* Never more closures run than VECTIS_MAX_CONCURRENT_CRYPTO, the detached ones
\* included.
THEOREM ExecutionBoundedHolds == Spec => []ExecutionBounded
<1>1. AdmissionInv => ExecutionBounded
  <2> SUFFICES ASSUME AdmissionInv PROVE ExecutionBounded
    OBVIOUS
  <2>1. In({"running", "detached"}) \subseteq In({"granted", "running", "detached"})
    BY DEF In
  <2>2. IsFiniteSet(In({"granted", "running", "detached"}))
    BY AdmissionAssumption, FS_Subset DEF In
  <2>3. Cardinality(In({"running", "detached"})) <= Cardinality(In({"granted", "running", "detached"}))
    BY <2>1, <2>2, FS_Subset
  <2>4. /\ Cardinality(In({"running", "detached"})) \in Nat
        /\ Cardinality(In({"granted", "running", "detached"})) \in Nat
    BY <2>1, <2>2, FS_Subset, FS_CardinalityType
  <2>5. available \in Nat /\ available + Cardinality(In({"granted", "running", "detached"})) = Max
    BY DEF AdmissionInv, TypeOK, PermitsConserved
  <2> QED  BY <2>3, <2>4, <2>5, AdmissionAssumption DEF ExecutionBounded
<1> QED  BY <1>1, AdmissionInit, AdmissionStep, PTL DEF Spec

\* Never more callers wait than VECTIS_MAX_QUEUED_CRYPTO.
THEOREM QueueBoundedHolds == Spec => []QueueBounded
<1>1. AdmissionInv => QueueBounded
  <2> SUFFICES ASSUME AdmissionInv PROVE QueueBounded
    OBVIOUS
  <2>1. Cardinality(In({"enqueue", "waiting", "granted"})) \in Nat
    <3>1. IsFiniteSet(In({"enqueue", "waiting", "granted"}))
      BY AdmissionAssumption, FS_Subset DEF In
    <3> QED  BY <3>1, FS_CardinalityType
  <2>2. positions \in Nat /\ positions + Cardinality(In({"enqueue", "waiting", "granted"})) = Queued
    BY DEF AdmissionInv, TypeOK, PermitsConserved
  <2> QED  BY <2>1, <2>2, AdmissionAssumption DEF QueueBounded
<1> QED  BY <1>1, AdmissionInit, AdmissionStep, PTL DEF Spec
=============================================================================
