-------------------------- MODULE SchedulerProofs --------------------------
(***************************************************************************)
(* The safety properties of Scheduler, for every set of PCBs, table size,  *)
(* set of priorities and bound on pids, also with the processes of         *)
(* SchedulerClients.                                                       *)
(***************************************************************************)
EXTENDS SchedulerClients, FiniteSetTheorems, WellFoundedInduction, TLAPS

\* Time for the leaves that unfold the larger actions.
USE SMTT(30), ZenonT(30)

\* A non-empty set of naturals has a least element.
LEMMA LeastNatural ==
  ASSUME NEW T \in SUBSET Nat, T # {}
  PROVE  \E n \in T : \A m \in T : n <= m
<1>1. \E n \in T : \A m \in T : ~(<<m, n>> \in OpToRel(<, Nat))
  BY NatLessThanWellFounded, WFMin, Zenon
<1>2. PICK n \in T : \A m \in T : ~(<<m, n>> \in OpToRel(<, Nat))
  BY <1>1, Zenon
<1>3. ASSUME NEW m \in T PROVE n <= m
  <2>1. ~(m < n)
    BY <1>2, Zenon DEF OpToRel
  <2>2. QED BY <2>1
<1>4. QED BY <1>3

Injective(q) == \A i, j \in DOMAIN q : q[i] = q[j] => i = j

----------------------------------------------------------------------------
(* Lemmas about the queue operators. *)

\* A queue of PCBs holds PCBs only.
LEMMA ElemsType ==
  ASSUME NEW q \in Seq(Pcbs)
  PROVE  Elems(q) \subseteq Pcbs
BY DEF Elems

\* Enqueuing adds one process, once.
LEMMA EnqueueProperties ==
  ASSUME NEW q \in Seq(Pcbs), Injective(q), NEW p \in Pcbs \ Elems(q)
  PROVE  /\ Enqueue(q, p) \in Seq(Pcbs)
         /\ Injective(Enqueue(q, p))
         /\ Elems(Enqueue(q, p)) = Elems(q) \cup {p}
<1> DEFINE n == Len(q)
           e == Append(q, p)
<1>1. n \in Nat /\ DOMAIN q = 1..n /\ e \in Seq(Pcbs) /\ DOMAIN e = 1..(n + 1)
  OBVIOUS
<1>2. \A i \in 1..n : e[i] = q[i]
  OBVIOUS
<1>3. e[n + 1] = p
  OBVIOUS
<1> HIDE DEF n, e
<1>4. \A i \in 1..(n + 1) : i \in 1..n \/ i = n + 1
  BY <1>1
<1>5. Injective(e)
  BY <1>1, <1>2, <1>3, <1>4 DEF Injective, Elems
<1>6. Elems(e) = Elems(q) \cup {p}
  <2>1. \A x \in Elems(e) : x \in Elems(q) \cup {p}
    BY <1>1, <1>2, <1>3, <1>4 DEF Elems
  <2>2. \A i \in 1..n : i \in 1..(n + 1)
    BY <1>1
  <2>3. n + 1 \in 1..(n + 1)
    BY <1>1
  <2>4. \A x \in Elems(q) \cup {p} : x \in Elems(e)
    BY <1>1, <1>2, <1>3, <2>2, <2>3 DEF Elems
  <2>5. QED BY <2>1, <2>4
<1>7. QED BY <1>1, <1>5, <1>6 DEF e, Enqueue

\* Dequeuing removes exactly the process it is given and keeps the order.
LEMMA DequeueProperties ==
  ASSUME NEW q \in Seq(Pcbs), Injective(q), NEW p \in Elems(q)
  PROVE  /\ Dequeue(q, p) \in Seq(Pcbs)
         /\ Injective(Dequeue(q, p))
         /\ Elems(Dequeue(q, p)) = Elems(q) \ {p}
<1> DEFINE k == CHOOSE i \in DOMAIN q : q[i] = p
           n == Len(q)
           d == [i \in 1..(n - 1) |-> IF i < k THEN q[i] ELSE q[i + 1]]
<1>1. n \in Nat /\ DOMAIN q = 1..n /\ \A i \in 1..n : q[i] \in Pcbs
  OBVIOUS
<1>2. k \in 1..n /\ q[k] = p
  BY <1>1 DEF Elems
<1>3. Dequeue(q, p) = d
  BY DEF Dequeue, Elems
<1> HIDE DEF k, n, d
<1>4. n - 1 \in Nat
  BY <1>1, <1>2
<1>5. d \in Seq(Pcbs) /\ DOMAIN d = 1..(n - 1)
  <2>1. \A i \in 1..(n - 1) : (IF i < k THEN q[i] ELSE q[i + 1]) \in Pcbs
    BY <1>1, <1>2
  <2>2. d \in [1..(n - 1) -> Pcbs]
    BY <2>1 DEF d
  <2>3. QED BY <1>4, <2>2
<1>6. \A i \in 1..(n - 1) : d[i] = IF i < k THEN q[i] ELSE q[i + 1]
  BY DEF d
<1>7. Injective(d)
  <2>1. ASSUME NEW i \in 1..(n - 1), NEW j \in 1..(n - 1), d[i] = d[j]
        PROVE  i = j
    BY <1>1, <1>2, <1>6, <2>1 DEF Injective
  <2>2. QED BY <2>1, <1>5 DEF Injective
<1>8. Elems(d) = Elems(q) \ {p}
  <2>1. ASSUME NEW x \in Elems(d) PROVE x \in Elems(q) \ {p}
    <3>1. PICK i \in 1..(n - 1) : x = d[i]
      BY <1>5 DEF Elems
    <3>2. PICK j \in 1..n : x = q[j] /\ j # k
      <4>1. CASE i < k
        BY <4>1, <3>1, <1>1, <1>2, <1>6
      <4>2. CASE ~(i < k)
        <5>1. i + 1 \in 1..n /\ i + 1 # k /\ x = q[i + 1]
          BY <4>2, <3>1, <1>1, <1>2, <1>6
        <5>2. QED BY <5>1
      <4>3. QED BY <4>1, <4>2
    <3>3. QED BY <3>2, <1>1, <1>2 DEF Elems, Injective
  <2>2. ASSUME NEW x \in Elems(q) \ {p} PROVE x \in Elems(d)
    <3>1. PICK i \in 1..n : x = q[i] /\ i # k
      BY <1>1, <1>2 DEF Elems
    <3>2. CASE i < k
      <4>1. i \in 1..(n - 1) /\ d[i] = x
        BY <3>1, <3>2, <1>1, <1>2, <1>6
      <4>2. QED BY <4>1, <1>5 DEF Elems
    <3>3. CASE ~(i < k)
      <4>1. i - 1 \in 1..(n - 1) /\ d[i - 1] = x
        BY <3>1, <3>3, <1>1, <1>2, <1>6
      <4>2. QED BY <4>1, <1>5 DEF Elems
    <3>4. QED BY <3>2, <3>3
  <2>3. QED BY <2>1, <2>2
<1>9. QED BY <1>3, <1>5, <1>7, <1>8

\* Rotating permutes the queue.
LEMMA RotateProperties ==
  ASSUME NEW q \in Seq(Pcbs), Injective(q), NEW k \in DOMAIN q
  PROVE  /\ Rotate(q, k) \in Seq(Pcbs)
         /\ Injective(Rotate(q, k))
         /\ Elems(Rotate(q, k)) = Elems(q)
<1> DEFINE n == Len(q)
           r == Rotate(q, k)
<1>1. n \in Nat /\ DOMAIN q = 1..n /\ \A i \in 1..n : q[i] \in Pcbs
  OBVIOUS
<1>2. k \in 1..n
  BY <1>1
<1>3. r = [i \in 1..n |-> IF i + k <= n THEN q[i + k] ELSE q[i + k - n]]
  BY DEF Rotate
<1> HIDE DEF n, r
<1>4. \A i \in 1..n : r[i] = IF i + k <= n THEN q[i + k] ELSE q[i + k - n]
  BY <1>3
<1>5. r \in Seq(Pcbs) /\ DOMAIN r = 1..n
  <2>1. \A i \in 1..n : (IF i + k <= n THEN q[i + k] ELSE q[i + k - n]) \in Pcbs
    BY <1>1, <1>2
  <2>2. r \in [1..n -> Pcbs]
    BY <1>3, <2>1
  <2>3. QED BY <1>1, <2>2
<1>6. Injective(r)
  <2>1. ASSUME NEW i \in 1..n, NEW j \in 1..n, r[i] = r[j] PROVE i = j
    <3> DEFINE at(m) == IF m + k <= n THEN m + k ELSE m + k - n
    <3>1. at(i) \in 1..n /\ at(j) \in 1..n
      BY <1>1, <1>2
    <3>2. q[at(i)] = q[at(j)]
      BY <1>4, <2>1
    <3>3. at(i) = at(j)
      BY <3>1, <3>2, <1>1 DEF Injective
    <3>4. QED BY <3>3, <1>1, <1>2
  <2>2. QED BY <2>1, <1>5 DEF Injective
<1>7. Elems(r) = Elems(q)
  <2>1. ASSUME NEW x \in Elems(r) PROVE x \in Elems(q)
    <3>1. PICK i \in 1..n : x = r[i]
      BY <1>5 DEF Elems
    <3>2. CASE i + k <= n
      <4>1. i + k \in 1..n /\ x = q[i + k]
        BY <3>1, <3>2, <1>1, <1>2, <1>4
      <4>2. QED BY <4>1, <1>1 DEF Elems
    <3>3. CASE ~(i + k <= n)
      <4>1. i + k - n \in 1..n /\ x = q[i + k - n]
        BY <3>1, <3>3, <1>1, <1>2, <1>4
      <4>2. QED BY <4>1, <1>1 DEF Elems
    <3>4. QED BY <3>2, <3>3
  <2>2. ASSUME NEW x \in Elems(q) PROVE x \in Elems(r)
    <3>1. PICK i \in 1..n : x = q[i]
      BY <1>1 DEF Elems
    <3>2. CASE i > k
      <4>1. i - k \in 1..n /\ r[i - k] = x
        BY <3>1, <3>2, <1>1, <1>2, <1>4
      <4>2. QED BY <4>1, <1>5 DEF Elems
    <3>3. CASE ~(i > k)
      <4>1. PICK m \in 1..n : m = i - k + n
        BY <3>3, <1>1, <1>2
      <4>2. ~(m + k <= n) /\ m + k - n = i
        BY <4>1, <3>3, <1>1, <1>2
      <4>3. r[m] = x
        BY <4>2, <3>1, <1>4
      <4>4. QED BY <4>3, <1>5 DEF Elems
    <3>4. QED BY <3>2, <3>3
  <2>3. QED BY <2>1, <2>2, Zenon
<1>8. QED BY <1>5, <1>6, <1>7 DEF r

\* If some queued process is READY, the first such process exists.
LEMMA FirstReadyExists ==
  ASSUME NEW q \in Seq(Pcbs), NEW st,
         NEW i \in DOMAIN q, st[q[i]] = "READY"
  PROVE  \E k \in DOMAIN q : IsFirstReady(q, st, k)
<1> DEFINE T == {j \in DOMAIN q : st[q[j]] = "READY"}
<1>1. DOMAIN q = 1..Len(q) /\ Len(q) \in Nat
  OBVIOUS
<1>2. T \in SUBSET Nat /\ T # {}
  BY <1>1
<1>3. PICK k \in T : \A m \in T : k <= m
  BY <1>2, LeastNatural, Zenon
<1>4. \A j \in 1..(k - 1) : st[q[j]] # "READY"
  <2>1. SUFFICES ASSUME NEW j \in 1..(k - 1), st[q[j]] = "READY" PROVE FALSE
    OBVIOUS
  <2>2. j \in DOMAIN q
    BY <1>1
  <2>3. QED BY <1>1, <1>3, <2>1, <2>2
<1>5. QED BY <1>3, <1>4 DEF IsFirstReady

\* pick_next permutes the queue; it returns a READY process of the queue if
\* there is one and NULL otherwise.
LEMMA PickNextProperties ==
  ASSUME NEW q \in Seq(Pcbs), Injective(q), NEW st
  PROVE  /\ PickNext(q, st).queue \in Seq(Pcbs)
         /\ Injective(PickNext(q, st).queue)
         /\ Elems(PickNext(q, st).queue) = Elems(q)
         /\ PickNext(q, st).next # NULL =>
              /\ PickNext(q, st).next \in Elems(q)
              /\ st[PickNext(q, st).next] = "READY"
         /\ (\E p \in Elems(q) : st[p] = "READY") => PickNext(q, st).next # NULL
<1>1. CASE \E i \in DOMAIN q : st[q[i]] = "READY"
  <2> DEFINE k == CHOOSE i \in DOMAIN q : IsFirstReady(q, st, i)
  <2>1. k \in DOMAIN q /\ IsFirstReady(q, st, k)
    BY <1>1, FirstReadyExists
  <2>2. PickNext(q, st) = [next |-> q[k], queue |-> Rotate(q, k)]
    BY <1>1 DEF PickNext
  <2> HIDE DEF k
  <2>3. q[k] \in Elems(q) /\ st[q[k]] = "READY" /\ q[k] \in Pcbs
    BY <2>1 DEF Elems, IsFirstReady
  <2>4. q[k] # NULL
    BY <2>3, PcbAssumption
  <2>5. QED BY <2>1, <2>2, <2>3, <2>4, RotateProperties
<1>2. CASE ~\E i \in DOMAIN q : st[q[i]] = "READY"
  <2>1. PickNext(q, st) = [next |-> NULL, queue |-> q]
    BY <1>2 DEF PickNext
  <2>2. QED BY <1>2, <2>1 DEF Elems
<1>3. QED BY <1>1, <1>2

----------------------------------------------------------------------------
(* Who is in front of a process. *)

\* x is in front of p.
LEMMA AheadIs ==
  ASSUME NEW q, NEW p, NEW x
  PROVE  x \in AheadOf(q, p) <=> \E i, j \in DOMAIN q : q[i] = p /\ q[j] = x /\ j < i
BY Zenon DEF AheadOf

\* Enqueuing puts nobody in front of a process of the queue.
LEMMA EnqueueAhead ==
  ASSUME NEW q \in Seq(Pcbs), NEW y \in Pcbs \ Elems(q), NEW p \in Elems(q)
  PROVE  AheadOf(Enqueue(q, y), p) \subseteq AheadOf(q, p)
<1> DEFINE n == Len(q)
           e == Append(q, y)
<1>1. n \in Nat /\ DOMAIN q = 1..n /\ DOMAIN e = 1..(n + 1)
      /\ (\A i \in 1..n : e[i] = q[i]) /\ e[n + 1] = y
  OBVIOUS
<1> HIDE DEF n, e
<1>2. p # y
  BY Zenon
<1>3. ASSUME NEW x \in AheadOf(e, p) PROVE x \in AheadOf(q, p)
  <2>1. PICK i, j \in DOMAIN e : e[i] = p /\ e[j] = x /\ j < i
    BY AheadIs
  <2>2. i # n + 1
    BY <1>1, <1>2, <2>1
  <2>3. i \in 1..n /\ j \in 1..n
    BY <1>1, <2>1, <2>2
  <2>4. q[i] = p /\ q[j] = x
    BY <1>1, <2>1, <2>3
  <2> QED BY <1>1, <2>1, <2>3, <2>4, AheadIs, Zenon
<1> QED BY <1>3, Zenon DEF e, Enqueue

\* Dequeuing puts nobody in front of anybody.
LEMMA DequeueAhead ==
  ASSUME NEW q \in Seq(Pcbs), NEW y \in Elems(q), NEW p
  PROVE  AheadOf(Dequeue(q, y), p) \subseteq AheadOf(q, p)
<1> DEFINE k == CHOOSE i \in DOMAIN q : q[i] = y
           n == Len(q)
           d == [i \in 1..(n - 1) |-> IF i < k THEN q[i] ELSE q[i + 1]]
           at(i) == IF i < k THEN i ELSE i + 1
<1>1. n \in Nat /\ DOMAIN q = 1..n
  OBVIOUS
<1>2. k \in 1..n
  BY <1>1 DEF Elems
<1>3. Dequeue(q, y) = d
  BY DEF Dequeue, Elems
<1>4. DOMAIN d = 1..(n - 1) /\ \A i \in 1..(n - 1) : d[i] = IF i < k THEN q[i] ELSE q[i + 1]
  OBVIOUS
<1> HIDE DEF k, n, d
<1>5. ASSUME NEW x \in AheadOf(d, p) PROVE x \in AheadOf(q, p)
  <2>1. PICK i, j \in DOMAIN d : d[i] = p /\ d[j] = x /\ j < i
    BY AheadIs
  <2>2. i \in 1..(n - 1) /\ j \in 1..(n - 1)
    BY <1>4, <2>1
  <2>3. at(i) \in 1..n /\ at(j) \in 1..n /\ at(j) < at(i)
    BY <1>1, <1>2, <2>1, <2>2
  <2>4. q[at(i)] = p /\ q[at(j)] = x
    BY <1>4, <2>1, <2>2
  <2> HIDE DEF at
  <2> QED BY <1>1, <2>3, <2>4, AheadIs, Zenon
<1> QED BY <1>3, <1>5, Zenon

\* Turning the queue by k puts nobody in front of a process behind position k.
LEMMA RotateAhead ==
  ASSUME NEW q \in Seq(Pcbs), Injective(q), NEW k \in DOMAIN q, NEW i \in DOMAIN q, k < i
  PROVE  AheadOf(Rotate(q, k), q[i]) \subseteq AheadOf(q, q[i])
<1> DEFINE n == Len(q)
           r == Rotate(q, k)
<1>1. n \in Nat /\ DOMAIN q = 1..n /\ k \in 1..n /\ i \in 1..n
  OBVIOUS
<1>2. DOMAIN r = 1..n /\ \A m \in 1..n : r[m] = IF m + k <= n THEN q[m + k] ELSE q[m + k - n]
  BY DEF Rotate
<1>3. Injective(r)
  BY RotateProperties
<1> HIDE DEF n, r
<1>4. i - k \in 1..n /\ r[i - k] = q[i]
  BY <1>1, <1>2
<1>5. ASSUME NEW x \in AheadOf(r, q[i]) PROVE x \in AheadOf(q, q[i])
  <2>1. PICK m, j \in DOMAIN r : r[m] = q[i] /\ r[j] = x /\ j < m
    BY AheadIs
  <2>2. m = i - k
    BY <1>2, <1>3, <1>4, <2>1, Zenon DEF Injective
  <2>3. j \in 1..n /\ j + k \in 1..n /\ j + k < i
    BY <1>1, <1>2, <2>1, <2>2
  <2>4. q[j + k] = x
    BY <1>1, <1>2, <2>1, <2>3
  <2> QED BY <1>1, <2>3, <2>4, AheadIs, Zenon
<1> QED BY <1>5, Zenon DEF r

\* pick_next puts nobody in front of a READY process it does not return.
LEMMA PickNextAhead ==
  ASSUME NEW q \in Seq(Pcbs), Injective(q), NEW st, NEW p \in Elems(q), st[p] = "READY",
         PickNext(q, st).next # p
  PROVE  AheadOf(PickNext(q, st).queue, p) \subseteq AheadOf(q, p)
<1> DEFINE k == CHOOSE j \in DOMAIN q : IsFirstReady(q, st, j)
<1>1. PICK i \in DOMAIN q : q[i] = p
  BY DEF Elems
<1>2. k \in DOMAIN q /\ IsFirstReady(q, st, k)
  BY <1>1, FirstReadyExists
<1>3. PickNext(q, st) = [next |-> q[k], queue |-> Rotate(q, k)]
  BY <1>1 DEF PickNext
<1> HIDE DEF k
<1>4. k # i
  BY <1>1, <1>3
<1>5. k < i
  <2>1. k \in 1..Len(q) /\ i \in 1..Len(q) /\ Len(q) \in Nat
    BY <1>1, <1>2
  <2>2. \A j \in 1..(k - 1) : st[q[j]] # "READY"
    BY <1>2 DEF IsFirstReady
  <2> QED BY <1>1, <1>4, <2>1, <2>2
<1> QED BY <1>1, <1>2, <1>3, <1>5, RotateAhead

----------------------------------------------------------------------------
(* The inductive invariant: the properties support each other, and what the *)
(* shell relies on while it is preempted ties them together.                *)

IInv ==
  /\ TypeOK
  /\ RunningIsCurrent
  /\ ListsPartitionLive
  /\ TableTracksLive
  /\ ZombiesAreDead
  /\ IdleSchedulable
  /\ SpawnWindow
  /\ PidsUnique
  /\ ExitNeverReturns

\* The state after boot satisfies it.
LEMMA InitIInv == Init => IInv
<1> SUFFICES ASSUME Init PROVE IInv
  OBVIOUS
<1> USE PcbAssumption, BoundAssumption DEF Init
<1>1. Elems(queue) = {idle_pcb} /\ DOMAIN queue = {1} /\ queue \in Seq(Pcbs)
  BY DEF Elems
<1>2. Live = {idle_pcb}
  BY DEF Live
<1>3. TypeOK
  BY <1>1 DEF TypeOK, States, ShellPcs
<1>4. RunningIsCurrent
  BY DEF RunningIsCurrent
<1>5. ListsPartitionLive
  BY <1>1, <1>2 DEF ListsPartitionLive, Unlinked
<1>6. TableTracksLive
  <2>1. Cardinality({idle_pcb}) = 1
    BY FS_Singleton
  <2>2. QED BY <1>2, <2>1 DEF TableTracksLive, Unregistered
<1>7. ZombiesAreDead /\ IdleSchedulable
  BY <1>1 DEF ZombiesAreDead, IdleSchedulable
<1>8. SpawnWindow
  BY <1>1 DEF SpawnWindow
<1>9. PidsUnique /\ ExitNeverReturns
  BY <1>2 DEF PidsUnique, ExitNeverReturns
<1>10. QED BY <1>3, <1>4, <1>5, <1>6, <1>7, <1>8, <1>9 DEF IInv

----------------------------------------------------------------------------
(* Preservation by the actions of the shell. *)

\* A pid taken for nothing keeps the invariant.
LEMMA PidTakenIInv ==
  ASSUME IInv, next_pid' = next_pid + 1,
         UNCHANGED <<current, queue, zombies, proc_table, state, pid, parent_pid,
                     priority, ticks_remaining, sleep_ticks, user_entry, ring,
                     shell_pc, shell_pcb, machine>>
  PROVE  IInv'
<1>2. TypeOK /\ next_pid \in Nat
  BY DEF IInv, TypeOK
<1>3. next_pid' \in Nat
  BY <1>2
<1>4. TypeOK'
  BY <1>2, <1>3, Zenon DEF TypeOK
<1>5. PidsUnique'
  <2>1. Live' = Live
    BY DEF Live
  <2>2. \A p \in Live : pid[p] \in Nat /\ pid[p] < next_pid
    BY <1>2 DEF IInv, PidsUnique, TypeOK, Live
  <2>3. \A p \in Live' : pid'[p] < next_pid'
    BY <1>2, <2>1, <2>2
  <2>4. \A p, q \in Live' : pid'[p] = pid'[q] => p = q
    BY <2>1 DEF IInv, PidsUnique
  <2>5. QED BY <2>3, <2>4 DEF PidsUnique
<1>6. (RunningIsCurrent /\ ListsPartitionLive /\ TableTracksLive)'
  BY DEF IInv, RunningIsCurrent, ListsPartitionLive, TableTracksLive, Live,
         Elems, Unlinked, Unregistered
<1>7. (ZombiesAreDead /\ IdleSchedulable /\ SpawnWindow /\ ExitNeverReturns)'
  BY DEF IInv, ZombiesAreDead, IdleSchedulable, SpawnWindow, ExitNeverReturns, Elems
<1>8. QED BY <1>4, <1>5, <1>6, <1>7 DEF IInv

\* process_create giving up for want of frames only consumes a pid.
LEMMA CreateOutOfFramesIInv == IInv /\ CreateOutOfFrames => IInv'
<1> SUFFICES ASSUME IInv, CreateOutOfFrames PROVE IInv'
  OBVIOUS
<1>1. /\ next_pid' = next_pid + 1
      /\ UNCHANGED <<current, queue, zombies, proc_table, state, pid, parent_pid,
                     priority, ticks_remaining, sleep_ticks, user_entry, ring,
                     shell_pc, shell_pcb, machine>>
  BY DEF CreateOutOfFrames, TakePid, lists, pcb
<1>2. QED BY <1>1, PidTakenIInv

\* process_create fills the fresh PCB with values of the right types.
LEMMA CreateAndEnqueueTypeOK ==
  ASSUME NEW p \in Pcbs, NEW prio \in Priorities, TypeOK, CreateAndEnqueue(p, prio),
         queue' \in Seq(Pcbs)
  PROVE  TypeOK'
<1>1. next_pid' \in Nat /\ pid' \in [Pcbs -> Nat]
  BY DEF TypeOK, CreateAndEnqueue, TakePid
<1>2. parent_pid' \in [Pcbs -> Nat]
  BY DEF TypeOK, CreateAndEnqueue
<1>3. (IF prio = 0 THEN 1 ELSE prio) \in Nat
  BY BoundAssumption
<1>4. priority' \in [Pcbs -> Nat] /\ ticks_remaining' \in [Pcbs -> Nat]
  BY <1>3 DEF TypeOK, CreateAndEnqueue
<1>5. state' \in [Pcbs -> States] /\ shell_pc' \in ShellPcs
  BY DEF TypeOK, States, ShellPcs, CreateAndEnqueue
<1>6. /\ shell_pcb' \in Pcbs \cup {NULL}
      /\ UNCHANGED <<current, zombies, proc_table, sleep_ticks, user_entry, ring,
                     machine>>
  BY DEF CreateAndEnqueue
<1>7. QED BY <1>1, <1>2, <1>4, <1>5, <1>6, Zenon DEF TypeOK

\* process_create putting the fresh PCB on the ready queue keeps the invariant.
LEMMA CreateAndEnqueueIInv ==
  ASSUME NEW p \in Pcbs, NEW prio \in Priorities, IInv, CreateAndEnqueue(p, prio)
  PROVE  IInv'
<1> USE PcbAssumption, BoundAssumption DEF TakePid, IInv, CreateAndEnqueue, ShellAt
<1>1. p \notin Elems(queue) /\ p \notin zombies /\ p # current /\ p # idle_pcb
  BY DEF ListsPartitionLive, Live, IdleSchedulable, Elems, RunningIsCurrent, TypeOK
<1>2. /\ queue' \in Seq(Pcbs)
      /\ Elems(queue') = Elems(queue) \cup {p}
      /\ Injective(queue')
  BY <1>1, EnqueueProperties, Zenon DEF TypeOK, ListsPartitionLive, Injective
<1>3. Live' = Live \cup {p}
  BY DEF Live, TypeOK
<1>4. Unlinked = {} /\ Unlinked' = {} /\ Unregistered = {} /\ Unregistered' = {p}
  BY DEF Unlinked, Unregistered
<1>5. TypeOK'
  BY <1>2, CreateAndEnqueueTypeOK, Zenon
<1>6. RunningIsCurrent'
  BY <1>1 DEF RunningIsCurrent, TypeOK
<1>7. ListsPartitionLive'
  BY <1>1, <1>2, <1>3, <1>4 DEF ListsPartitionLive, Injective
<1>8. TableTracksLive'
  BY <1>1, <1>3, <1>4 DEF TableTracksLive, Live
<1>9. ZombiesAreDead'
  BY <1>1, <1>2 DEF ZombiesAreDead, TypeOK
<1>10. IdleSchedulable'
  BY <1>1, <1>2 DEF IdleSchedulable, TypeOK
<1>11. SpawnWindow'
  BY <1>1, <1>2 DEF SpawnWindow, TypeOK
<1>12. PidsUnique'
  <2>1. \A x \in Live : x # p /\ pid'[x] = pid[x] /\ pid[x] < next_pid
    BY DEF PidsUnique, TypeOK, Live
  <2>2. pid'[p] = next_pid /\ next_pid' = next_pid + 1 /\ next_pid \in Nat
    BY DEF TypeOK
  <2>3. \A x \in Live : pid[x] \in Nat
    BY DEF TypeOK, Live
  <2>4. \A x \in Live' : pid'[x] < next_pid'
    BY <1>3, <2>1, <2>2, <2>3
  <2>5. ASSUME NEW x \in Live', NEW y \in Live', pid'[x] = pid'[y] PROVE x = y
    BY <1>3, <2>1, <2>2, <2>3, <2>5 DEF PidsUnique
  <2>6. QED BY <2>4, <2>5 DEF PidsUnique
<1>13. ExitNeverReturns'
  BY DEF ExitNeverReturns
<1>14. QED BY <1>5, <1>6, <1>7, <1>8, <1>9, <1>10, <1>11, <1>12, <1>13

\* Registering the new process keeps the table within its bound.
LEMMA TableAddIInv == IInv /\ TableAdd => IInv'
<1> SUFFICES ASSUME IInv, TableAdd PROVE IInv'
  OBVIOUS
<1> USE PcbAssumption, BoundAssumption DEF IInv, TableAdd, ShellAt, pcb
<1>1. shell_pcb \in Pcbs /\ shell_pcb \in Live /\ shell_pcb # idle_pcb
  BY Zenon DEF SpawnWindow, TypeOK, Live, Elems
<1>2. TypeOK'
  BY <1>1 DEF TypeOK, ShellPcs
<1>3. Live' = Live /\ Elems(queue') = Elems(queue)
  BY DEF Live, Elems
<1>4. TableTracksLive'
  <2>1. IsFiniteSet(proc_table) /\ Cardinality(proc_table) \in Nat
    BY FS_Subset, FS_CardinalityType DEF TypeOK
  <2>2. Cardinality(proc_table') <= MAX_PROCESSES
    <3>1. Cardinality(proc_table') \in {Cardinality(proc_table), Cardinality(proc_table) + 1}
      BY <2>1, FS_AddElement, Zenon
    <3>2. QED BY <2>1, <3>1
  <2>3. proc_table' = Live' \ Unregistered'
    BY <1>1, <1>3 DEF TableTracksLive, Unregistered
  <2>4. QED BY <2>2, <2>3 DEF TableTracksLive
<1>5. (RunningIsCurrent /\ ListsPartitionLive)'
  BY <1>3 DEF RunningIsCurrent, ListsPartitionLive, Unlinked
<1>6. (ZombiesAreDead /\ IdleSchedulable /\ SpawnWindow)'
  BY <1>3 DEF ZombiesAreDead, IdleSchedulable, SpawnWindow
<1>7. (PidsUnique /\ ExitNeverReturns)'
  BY <1>3 DEF PidsUnique, ExitNeverReturns
<1>8. QED BY <1>2, <1>4, <1>5, <1>6, <1>7

\* What dequeuing the PCB of a spawn in progress does to the lists.
LEMMA UnlinkFacts ==
  ASSUME IInv, current = idle_pcb, shell_pc \in {"enqueued", "failed"},
         queue' = Dequeue(queue, shell_pcb)
  PROVE  /\ shell_pcb \in Pcbs /\ shell_pcb \in Live
         /\ shell_pcb # idle_pcb /\ shell_pcb # current
         /\ shell_pcb \notin zombies
         /\ queue' \in Seq(Pcbs)
         /\ Injective(queue')
         /\ Elems(queue') = Elems(queue) \ {shell_pcb}
<1> USE DEF IInv
<1>1. shell_pcb \in Elems(queue) /\ shell_pcb # idle_pcb
  BY DEF SpawnWindow
<1>2. queue \in Seq(Pcbs) /\ Injective(queue)
  BY DEF TypeOK, ListsPartitionLive, Injective
<1>3. shell_pcb \in Pcbs /\ shell_pcb \in Live /\ shell_pcb \notin zombies
  BY <1>1, <1>2 DEF ListsPartitionLive, Live
<1>4. QED BY <1>1, <1>2, <1>3, DequeueProperties

\* A full process_table leaves the fresh PCB queued, about to be torn down.
LEMMA TableFullIInv == IInv /\ TableFull => IInv'
<1> SUFFICES ASSUME IInv, TableFull PROVE IInv'
  OBVIOUS
<1> USE DEF IInv, TableFull, ShellAt, pcb
<1>1. /\ shell_pcb \in Pcbs /\ shell_pcb \in Live
      /\ shell_pcb # idle_pcb /\ shell_pcb # current
      /\ shell_pcb \notin zombies
      /\ queue' \in Seq(Pcbs)
      /\ Injective(queue')
      /\ Elems(queue') = Elems(queue) \ {shell_pcb}
  BY UnlinkFacts
<1>2. Live' = Live
  BY DEF Live
<1>3. TypeOK'
  BY <1>1 DEF TypeOK, ShellPcs
<1>4. RunningIsCurrent' /\ PidsUnique' /\ ExitNeverReturns'
  BY <1>2 DEF RunningIsCurrent, PidsUnique, ExitNeverReturns
<1>5. ListsPartitionLive'
  <2>1. zombies' = zombies /\ Unlinked = {} /\ Unlinked' = {shell_pcb}
    BY DEF Unlinked
  <2>2. Elems(queue) \cap zombies = {} /\ Live = Elems(queue) \cup zombies
    BY <2>1 DEF ListsPartitionLive
  <2>3. shell_pcb \in Elems(queue)
    BY DEF SpawnWindow
  <2> HIDE DEF IInv
  <2> QED BY <1>1, <1>2, <2>1, <2>2, <2>3 DEF ListsPartitionLive, Injective
<1>6. TableTracksLive'
  BY <1>2 DEF TableTracksLive, Unregistered
<1>7. ZombiesAreDead' /\ IdleSchedulable'
  BY <1>1 DEF ZombiesAreDead, IdleSchedulable
<1>8. SpawnWindow'
  BY <1>1 DEF SpawnWindow, RunningIsCurrent
<1>9. QED BY <1>3, <1>4, <1>5, <1>6, <1>7, <1>8

\* Taking the untabled PCB off the queue and freeing it keeps the invariant.
LEMMA TearDownIInv == IInv /\ TearDown => IInv'
<1> SUFFICES ASSUME IInv, TearDown PROVE IInv'
  OBVIOUS
<1> USE PcbAssumption DEF IInv, TearDown, ShellAt, lists
<1>1. /\ shell_pcb \in Pcbs /\ shell_pcb # idle_pcb /\ state[shell_pcb] = "READY"
      /\ shell_pcb \notin Elems(queue) \cup zombies
      /\ shell_pcb \notin proc_table
  BY DEF SpawnWindow, TypeOK, ListsPartitionLive, Unlinked, TableTracksLive, Unregistered
<1>2. Live' = Live \ {shell_pcb} /\ Elems(queue') = Elems(queue)
  <2>1. state \in [Pcbs -> States]
    BY DEF TypeOK
  <2>2. state' = [state EXCEPT ![shell_pcb] = "FREE"] /\ queue' = queue
    OBVIOUS
  <2> HIDE DEF IInv, TearDown
  <2> QED BY <1>1, <2>1, <2>2 DEF Live, Elems
<1>3. TypeOK'
  BY Zenon DEF TypeOK, ShellPcs, States
<1>4. RunningIsCurrent' /\ ExitNeverReturns'
  BY <1>1 DEF RunningIsCurrent, ExitNeverReturns, TypeOK
<1>5. ListsPartitionLive'
  BY <1>1, <1>2 DEF ListsPartitionLive, Unlinked
<1>6. TableTracksLive'
  BY <1>1, <1>2 DEF TableTracksLive, Unregistered
<1>7. ZombiesAreDead' /\ IdleSchedulable'
  BY <1>1, <1>2 DEF ZombiesAreDead, IdleSchedulable, TypeOK
<1>8. SpawnWindow'
  BY <1>1, <1>2 DEF SpawnWindow, TypeOK
<1>9. PidsUnique'
  BY <1>1, <1>2, Zenon DEF PidsUnique, TypeOK, Live
<1>10. QED BY <1>3, <1>4, <1>5, <1>6, <1>7, <1>8, <1>9

\* A failed ELF load only moves the shell on to scheduler_mark_zombie.
LEMMA LoadFailsIInv == IInv /\ LoadFails => IInv'
<1> SUFFICES ASSUME IInv, LoadFails PROVE IInv'
  OBVIOUS
<1> USE PcbAssumption DEF IInv, LoadFails, ShellAt, lists, pcb
<1>1. shell_pcb \in Pcbs /\ shell_pcb # idle_pcb /\ shell_pcb \in Live
  BY DEF SpawnWindow, TypeOK, Live
<1>2. Live' = Live /\ Elems(queue') = Elems(queue)
  <2>1. state \in [Pcbs -> States]
    BY DEF TypeOK
  <2>2. state' = [state EXCEPT ![shell_pcb] = "ZOMBIE"] /\ queue' = queue
    OBVIOUS
  <2>3. state[shell_pcb] # "FREE"
    BY <1>1 DEF Live
  <2> HIDE DEF IInv, LoadFails
  <2> QED BY <1>1, <2>1, <2>2, <2>3 DEF Live, Elems
<1>3. TypeOK'
  <2>1. state' \in [Pcbs -> States] /\ shell_pc' \in ShellPcs
    BY Zenon DEF TypeOK, ShellPcs, States
  <2>2. TypeOK /\ UNCHANGED <<current, queue, zombies, proc_table, pid, parent_pid,
                              priority, ticks_remaining, sleep_ticks, user_entry, ring,
                              next_pid, shell_pcb, machine>>
    OBVIOUS
  <2> HIDE DEF IInv, LoadFails
  <2> QED BY <2>1, <2>2, Zenon DEF TypeOK
<1>4. RunningIsCurrent' /\ ExitNeverReturns' /\ PidsUnique'
  BY <1>1, <1>2 DEF RunningIsCurrent, ExitNeverReturns, TypeOK, PidsUnique
<1>5. ListsPartitionLive' /\ TableTracksLive'
  BY <1>1, <1>2 DEF ListsPartitionLive, Unlinked, TableTracksLive, Unregistered
<1>6. ZombiesAreDead' /\ IdleSchedulable'
  BY <1>1, <1>2 DEF ZombiesAreDead, IdleSchedulable, TypeOK
<1>7. SpawnWindow'
  BY <1>1, <1>2 DEF SpawnWindow, TypeOK
<1>8. QED BY <1>3, <1>4, <1>5, <1>6, <1>7

\* scheduler_mark_zombie taking the PCB out of the ready queue keeps the invariant.
LEMMA MarkZombieUnlinkIInv == IInv /\ MarkZombieUnlink => IInv'
<1> SUFFICES ASSUME IInv, MarkZombieUnlink PROVE IInv'
  OBVIOUS
<1> USE DEF IInv, MarkZombieUnlink, ShellAt, pcb
<1>1. /\ shell_pcb \in Pcbs /\ shell_pcb \in Live
      /\ shell_pcb # idle_pcb /\ shell_pcb # current
      /\ shell_pcb \notin zombies
      /\ queue' \in Seq(Pcbs)
      /\ Injective(queue')
      /\ Elems(queue') = Elems(queue) \ {shell_pcb}
  BY UnlinkFacts
<1>2. Live' = Live
  BY DEF Live
<1>3. TypeOK'
  BY <1>1 DEF TypeOK, ShellPcs
<1>4. RunningIsCurrent' /\ PidsUnique' /\ ExitNeverReturns'
  BY <1>2 DEF RunningIsCurrent, PidsUnique, ExitNeverReturns
<1>5. ListsPartitionLive'
  <2>1. zombies' = zombies /\ Unlinked = {} /\ Unlinked' = {shell_pcb}
    BY DEF Unlinked
  <2>2. Elems(queue) \cap zombies = {} /\ Live = Elems(queue) \cup zombies
    BY <2>1 DEF ListsPartitionLive
  <2>3. shell_pcb \in Elems(queue)
    BY DEF SpawnWindow
  <2> HIDE DEF IInv
  <2> QED BY <1>1, <1>2, <2>1, <2>2, <2>3 DEF ListsPartitionLive, Injective
<1>6. TableTracksLive'
  BY <1>2 DEF TableTracksLive, Unregistered
<1>7. ZombiesAreDead' /\ IdleSchedulable'
  BY <1>1 DEF ZombiesAreDead, IdleSchedulable
<1>8. SpawnWindow'
  BY <1>1 DEF SpawnWindow
<1>9. QED BY <1>3, <1>4, <1>5, <1>6, <1>7, <1>8

\* scheduler_mark_zombie pushing the PCB on the zombie list keeps the invariant.
LEMMA MarkZombiePushIInv == IInv /\ MarkZombiePush => IInv'
<1> SUFFICES ASSUME IInv, MarkZombiePush PROVE IInv'
  OBVIOUS
<1> USE PcbAssumption DEF IInv, MarkZombiePush, ShellAt, pcb
<1>1. /\ shell_pcb \in Pcbs /\ shell_pcb # idle_pcb /\ state[shell_pcb] = "ZOMBIE"
      /\ shell_pcb \notin Elems(queue) \cup zombies
  BY DEF SpawnWindow, TypeOK, ListsPartitionLive, Unlinked
<1>2. Live' = Live /\ Elems(queue') = Elems(queue)
  BY DEF Live, Elems
<1>3. TypeOK'
  BY <1>1 DEF TypeOK, ShellPcs
<1>4. RunningIsCurrent' /\ PidsUnique' /\ ExitNeverReturns' /\ IdleSchedulable'
  BY <1>2 DEF RunningIsCurrent, PidsUnique, ExitNeverReturns, IdleSchedulable
<1>5. ListsPartitionLive' /\ TableTracksLive'
  BY <1>1, <1>2 DEF ListsPartitionLive, Unlinked, TableTracksLive, Unregistered
<1>6. ZombiesAreDead'
  BY <1>1, <1>2 DEF ZombiesAreDead
<1>7. SpawnWindow'
  BY <1>2 DEF SpawnWindow
<1>8. QED BY <1>3, <1>4, <1>5, <1>6, <1>7

\* A finished ELF load only publishes the entry point.
LEMMA LoadSucceedsIInv == IInv /\ LoadSucceeds => IInv'
<1> SUFFICES ASSUME IInv, LoadSucceeds PROVE IInv'
  OBVIOUS
<1> USE PcbAssumption DEF IInv, LoadSucceeds, ShellAt, lists
<1>1. shell_pcb \in Pcbs /\ shell_pcb # NULL /\ state[shell_pcb] \in {"READY", "RUNNING"}
  BY DEF SpawnWindow, TypeOK
<1>2. Live' = Live /\ Elems(queue') = Elems(queue)
  BY DEF Live, Elems
<1>3. TypeOK'
  BY Zenon DEF TypeOK, ShellPcs
<1>4. RunningIsCurrent' /\ PidsUnique' /\ ExitNeverReturns' /\ IdleSchedulable'
  BY <1>2 DEF RunningIsCurrent, PidsUnique, ExitNeverReturns, IdleSchedulable
<1>5. ListsPartitionLive' /\ TableTracksLive' /\ ZombiesAreDead'
  BY <1>2 DEF ListsPartitionLive, Unlinked, TableTracksLive, Unregistered, ZombiesAreDead
<1>6. SpawnWindow'
  BY <1>1, <1>2 DEF SpawnWindow, TypeOK
<1>7. QED BY <1>3, <1>4, <1>5, <1>6

\* The shell reporting the new pid changes no list and no table.
LEMMA ReportSpawnIInv == IInv /\ ReportSpawn => IInv'
<1> SUFFICES ASSUME IInv, ReportSpawn PROVE IInv'
  OBVIOUS
<1> USE PcbAssumption DEF IInv, ReportSpawn, ShellAt, lists, pcb
<1>1. Live' = Live /\ Elems(queue') = Elems(queue)
  BY DEF Live, Elems
<1>2. TypeOK'
  BY Zenon DEF TypeOK, ShellPcs
<1>3. RunningIsCurrent' /\ PidsUnique' /\ ExitNeverReturns' /\ IdleSchedulable'
  BY <1>1 DEF RunningIsCurrent, PidsUnique, ExitNeverReturns, IdleSchedulable
<1>4. ListsPartitionLive' /\ TableTracksLive' /\ ZombiesAreDead' /\ SpawnWindow'
  BY <1>1 DEF ListsPartitionLive, Unlinked, TableTracksLive, Unregistered,
              ZombiesAreDead, SpawnWindow
<1>5. QED BY <1>2, <1>3, <1>4

\* The first run of a process entering ring 3 changes no list and no table.
LEMMA EnterUsermodeIInv == IInv /\ EnterUsermode => IInv'
<1> SUFFICES ASSUME IInv, EnterUsermode PROVE IInv'
  OBVIOUS
<1> USE PcbAssumption DEF IInv, EnterUsermode, lists, shell
<1>1. Live' = Live /\ Elems(queue') = Elems(queue)
  BY DEF Live, Elems
<1>2. TypeOK'
  BY Zenon DEF TypeOK
<1>3. RunningIsCurrent' /\ PidsUnique' /\ ExitNeverReturns' /\ IdleSchedulable'
  BY <1>1 DEF RunningIsCurrent, PidsUnique, ExitNeverReturns, IdleSchedulable
<1>4. ListsPartitionLive' /\ TableTracksLive' /\ ZombiesAreDead'
  BY <1>1 DEF ListsPartitionLive, Unlinked, TableTracksLive, Unregistered,
              ZombiesAreDead
<1>5. SpawnWindow'
  BY <1>1, Zenon DEF SpawnWindow, TypeOK
<1>6. QED BY <1>2, <1>3, <1>4, <1>5

----------------------------------------------------------------------------
(* Preservation by the actions that schedule. *)

\* The running process is on the run queue.
LEMMA CurrentQueued == IInv => current \in Elems(queue)
<1> SUFFICES ASSUME IInv PROVE current \in Elems(queue)
  OBVIOUS
<1>1. state[current] = "RUNNING" /\ current \in Live
  BY DEF IInv, RunningIsCurrent, TypeOK, Live
<1>2. current \notin zombies /\ current \notin Unlinked
  BY <1>1, Zenon DEF IInv, ZombiesAreDead, SpawnWindow, Unlinked
<1>3. QED BY <1>1, <1>2 DEF IInv, ListsPartitionLive

\* A step that picks: afterwards the process picked runs, the one it displaced
\* has the state `left', and the others have the states st.
Rescheduled(q, st, left) ==
  /\ queue' \in Seq(Pcbs)
  /\ Injective(queue')
  /\ Elems(queue') = Elems(q)
  /\ current' \in Elems(q)
  /\ current' # current => st[current'] = "READY"
  /\ state' = [p \in Pcbs |-> IF p = current' THEN "RUNNING"
                              ELSE IF p = current THEN left ELSE st[p]]
  /\ ticks_remaining' \in [Pcbs -> Nat]

\* What a yield leaves behind: who runs, and the ready queue as a rotation.
LEMMA SysYieldFacts ==
  ASSUME IInv, SysYield
  PROVE  Rescheduled(queue, state, "READY")
<1> DEFINE pick == PickNext(queue, state)
<1>1. queue \in Seq(Pcbs) /\ Injective(queue)
  BY DEF IInv, TypeOK, ListsPartitionLive, Injective
<1>2. /\ pick.queue \in Seq(Pcbs) /\ Injective(pick.queue)
      /\ Elems(pick.queue) = Elems(queue)
      /\ pick.next # NULL => pick.next \in Elems(queue) /\ state[pick.next] = "READY"
  BY <1>1, PickNextProperties, Zenon
<1>3. Elems(queue) \subseteq Pcbs
  BY <1>1, ElemsType
<1>4. current \in Elems(queue)
  BY CurrentQueued
<1>5. state \in [Pcbs -> States] /\ state[current] = "RUNNING" /\ current \in Pcbs
  BY DEF IInv, TypeOK, RunningIsCurrent
<1>6. queue' = pick.queue
  BY Zenon DEF SysYield, Yield
<1> HIDE DEF pick
<1>7. CASE pick.next # NULL /\ pick.next # current
  <2>1. DoSwitch(pick.next, state, ticks_remaining)
    BY <1>7 DEF SysYield, Yield, pick
  <2>2. QED BY <1>2, <1>3, <1>5, <1>6, <1>7, <2>1, Zenon DEF Rescheduled, DoSwitch, IInv, TypeOK
<1>8. CASE ~(pick.next # NULL /\ pick.next # current)
  <2>1. state' = state /\ current' = current /\ ticks_remaining' = ticks_remaining
    BY <1>8 DEF SysYield, Yield, pick
  <2>2. QED BY <1>2, <1>4, <1>5, <1>6, <2>1 DEF Rescheduled, IInv, TypeOK
<1>9. QED BY <1>7, <1>8

\* sys_yield, with the switch it makes, keeps the invariant.
LEMMA SysYieldIInv == IInv /\ SysYield => IInv'
<1> SUFFICES ASSUME IInv, SysYield PROVE IInv'
  OBVIOUS
<1>1. Rescheduled(queue, state, "READY")
  BY SysYieldFacts
<1>2. UNCHANGED <<zombies, proc_table, pid, parent_pid, priority, sleep_ticks,
                  user_entry, ring, next_pid, shell_pc, shell_pcb, machine>>
  BY DEF SysYield, pcb, shell
<1>3. current \in Elems(queue)
  BY CurrentQueued
<1> USE PcbAssumption DEF IInv, Rescheduled
<1>4. Elems(queue) \subseteq Live /\ Elems(queue) \subseteq Pcbs
  BY DEF ListsPartitionLive, Live
<1>5. Live' = Live
  BY <1>1, <1>3, <1>4, Zenon DEF Live, TypeOK
<1>6. TypeOK'
  BY <1>1, <1>2, <1>4, Zenon DEF TypeOK, States
<1>7. RunningIsCurrent'
  BY <1>1, <1>4 DEF RunningIsCurrent
<1>8. ListsPartitionLive'
  BY <1>1, <1>2, <1>5 DEF ListsPartitionLive, Unlinked, Injective
<1>9. TableTracksLive' /\ PidsUnique' /\ ExitNeverReturns'
  BY <1>2, <1>5 DEF TableTracksLive, Unregistered, PidsUnique, ExitNeverReturns
<1>10. ZombiesAreDead'
  BY <1>1, <1>2, <1>3, <1>4, Zenon DEF ZombiesAreDead, ListsPartitionLive, TypeOK
<1>11. IdleSchedulable'
  BY <1>1, <1>4 DEF IdleSchedulable, TypeOK
<1>12. SpawnWindow'
  <2>1. shell_pc \in {"enqueued", "loading"} =>
          state'[shell_pcb] \in {"READY", "RUNNING"} /\ shell_pcb \in Elems(queue')
    BY <1>1, <1>4, Zenon DEF SpawnWindow, TypeOK
  <2>2. shell_pc \in {"failed", "teardown", "unlinked"} =>
          shell_pcb \in Pcbs /\ shell_pcb # current /\ state[shell_pcb] # "RUNNING"
    BY DEF SpawnWindow, TypeOK, RunningIsCurrent
  <2>3. shell_pc \in {"failed", "teardown", "unlinked"} => shell_pcb # current'
    <3>1. SUFFICES ASSUME shell_pc \in {"failed", "teardown", "unlinked"},
                          shell_pcb = current' PROVE FALSE
      OBVIOUS
    <3>2. CASE shell_pc = "failed"
      \* its state is ZOMBIE, and only a READY process is picked
      BY <3>1, <3>2, <2>2, <1>1, Zenon DEF SpawnWindow
    <3>3. CASE shell_pc # "failed"
      BY <3>1, <3>3, <1>1 DEF ListsPartitionLive, Unlinked
    <3>4. QED BY <3>2, <3>3
  <2>4. QED BY <1>1, <1>2, <2>1, <2>2, <2>3, Zenon DEF SpawnWindow, TypeOK
<1>13. QED BY <1>6, <1>7, <1>8, <1>9, <1>10, <1>11, <1>12

\* The idle process waits READY in the queue whenever another one exits, so
\* the yield in process_exit always switches away.
LEMMA SysExitFacts ==
  ASSUME IInv, SysExit
  PROVE  /\ current \in Elems(queue) /\ current # idle_pcb
         /\ Rescheduled(Dequeue(queue, current), state, "ZOMBIE")
         /\ Elems(queue') = Elems(queue) \ {current}
         /\ current' # current
         /\ machine' = machine
<1> DEFINE st == [state EXCEPT ![current] = "ZOMBIE"]
           q == Dequeue(queue, current)
           pick == PickNext(q, st)
<1>1. current \in Elems(queue) /\ current # idle_pcb
  BY CurrentQueued DEF SysExit
<1>2. queue \in Seq(Pcbs) /\ Injective(queue)
  BY DEF IInv, TypeOK, ListsPartitionLive, Injective
<1>3. q \in Seq(Pcbs) /\ Injective(q) /\ Elems(q) = Elems(queue) \ {current}
  BY <1>1, <1>2, DequeueProperties
<1>4. state \in [Pcbs -> States] /\ current \in Pcbs /\ idle_pcb \in Pcbs
  BY PcbAssumption DEF IInv, TypeOK
<1>5. idle_pcb \in Elems(q) /\ st[idle_pcb] = "READY"
  BY <1>1, <1>3, <1>4 DEF IInv, IdleSchedulable, RunningIsCurrent
<1>6. SysExit => queue' = pick.queue /\
        (pick.next # NULL /\ pick.next # current => DoSwitch(pick.next, st, ticks_remaining))
  BY Zenon DEF SysExit, Yield
<1> HIDE DEF q, st
<1>7. /\ pick.queue \in Seq(Pcbs) /\ Injective(pick.queue)
      /\ Elems(pick.queue) = Elems(q)
      /\ pick.next # NULL => pick.next \in Elems(q) /\ st[pick.next] = "READY"
      /\ pick.next # NULL
  BY <1>3, <1>5, PickNextProperties
<1> HIDE DEF pick
<1>8. pick.next # current /\ pick.next \in Pcbs
  <2>1. Elems(queue) \subseteq Pcbs
    BY <1>2 DEF Elems
  <2>2. QED BY <1>3, <1>7, <2>1
<1>9. DoSwitch(pick.next, st, ticks_remaining)
  BY <1>6, <1>7, <1>8
<1>10. current' = pick.next /\ machine' = machine
  BY <1>8, <1>9 DEF DoSwitch, SysExit
<1>11. Rescheduled(q, state, "ZOMBIE")
  BY <1>4, <1>6, <1>7, <1>8, <1>9, Zenon DEF Rescheduled, DoSwitch, IInv, TypeOK, st
<1>12. QED BY <1>1, <1>3, <1>8, <1>10, <1>11 DEF q, Rescheduled

\* process_exit, which switches away from the zombie for good, keeps the invariant.
LEMMA SysExitIInv == IInv /\ SysExit => IInv'
<1> SUFFICES ASSUME IInv, SysExit PROVE IInv'
  OBVIOUS
<1>1. /\ current \in Elems(queue) /\ current # idle_pcb
      /\ queue' \in Seq(Pcbs) /\ Injective(queue')
      /\ Elems(queue') = Elems(queue) \ {current}
      /\ current' \in Elems(queue) /\ current' # current
      /\ state[current'] = "READY"
      /\ state' = [p \in Pcbs |-> IF p = current' THEN "RUNNING"
                                  ELSE IF p = current THEN "ZOMBIE" ELSE state[p]]
      /\ ticks_remaining' \in [Pcbs -> Nat]
      /\ machine' = machine
  BY SysExitFacts DEF Rescheduled
<1>2. UNCHANGED <<proc_table, pid, parent_pid, priority, sleep_ticks,
                  user_entry, ring, next_pid, shell_pc, shell_pcb>>
      /\ zombies' = zombies \cup {current}
  BY DEF SysExit, pcb, shell
<1>3. user_entry[current]
  BY <1>1 DEF SysExit, InSyscallContext, IInv, SpawnWindow, TypeOK
<1> USE PcbAssumption DEF IInv
<1>4. Elems(queue) \subseteq Live /\ Elems(queue) \subseteq Pcbs
  BY DEF ListsPartitionLive, Live
<1>5. Live' = Live
  BY <1>1, <1>4, Zenon DEF Live, TypeOK
<1>6. TypeOK'
  BY <1>1, <1>2, <1>4, Zenon DEF TypeOK, States
<1>7. RunningIsCurrent'
  BY <1>1, <1>4 DEF RunningIsCurrent
<1>8. current \notin Unlinked
  BY <1>1 DEF ListsPartitionLive
<1>9. ListsPartitionLive'
  <2>1. Unlinked' = Unlinked
    BY <1>2 DEF Unlinked
  <2>2. QED BY <1>1, <1>2, <1>5, <1>8, <2>1 DEF ListsPartitionLive, Injective
<1>10. TableTracksLive' /\ PidsUnique' /\ ExitNeverReturns'
  BY <1>1, <1>2, <1>5 DEF TableTracksLive, Unregistered, PidsUnique, ExitNeverReturns
<1>11. ZombiesAreDead'
  BY <1>1, <1>2, <1>4, Zenon DEF ZombiesAreDead, ListsPartitionLive, TypeOK
<1>12. IdleSchedulable'
  BY <1>1, <1>4 DEF IdleSchedulable, TypeOK
<1>13. SpawnWindow'
  <2>1. shell_pc \notin {"prompt", "report"} => shell_pcb \in Pcbs /\ shell_pcb # current
    BY <1>3 DEF SpawnWindow, TypeOK, ShellPcs
  <2>2. shell_pc \in {"failed", "teardown", "unlinked"} => shell_pcb # current'
    BY <1>1 DEF SpawnWindow, ListsPartitionLive, Unlinked
  <2>3. QED BY <1>1, <1>2, <1>4, <2>1, <2>2, Zenon DEF SpawnWindow, TypeOK, Live
<1>14. QED BY <1>6, <1>7, <1>9, <1>10, <1>11, <1>12, <1>13

\* What a timer tick leaves behind once it has reaped, woken and perhaps switched.
LEMMA TickFacts ==
  ASSUME IInv, Tick
  PROVE  /\ Rescheduled(queue, TickStates, "READY")
         /\ Orphans \subseteq zombies
         /\ \A p \in Woken : p \in Elems(queue) /\ state[p] = "BLOCKED"
<1> DEFINE st == TickStates
           tr0 == Freed(ticks_remaining, Orphans, 0)
           tr == [tr0 EXCEPT ![current] = IF @ > 0 THEN @ - 1 ELSE 0]
           pick == PickNext(queue, st)
<1>1. queue \in Seq(Pcbs) /\ Injective(queue)
  BY DEF IInv, TypeOK, ListsPartitionLive, Injective
<1>2. Elems(queue) \subseteq Pcbs
  BY <1>1, ElemsType
<1>3. current \in Elems(queue) /\ current \in Pcbs /\ state[current] = "RUNNING"
  BY <1>2, CurrentQueued DEF IInv, RunningIsCurrent
<1>4. Orphans \subseteq zombies
  BY DEF Orphans
<1>5. \A p \in Woken : p \in Elems(queue) /\ state[p] = "BLOCKED"
  BY DEF Woken, Asleep
<1>6. st[current] = "RUNNING"
  BY <1>3, <1>4, <1>5 DEF TickStates, IInv, ZombiesAreDead
<1>7. tr0 \in [Pcbs -> Nat]
  BY DEF IInv, TypeOK, Freed
<1>8. tr \in [Pcbs -> Nat]
  BY <1>3, <1>7
<1>9. IF tr[current] = 0 /\ Len(queue) > 0
      THEN /\ queue' = pick.queue
           /\ IF pick.next # NULL /\ pick.next # current
              THEN DoSwitch(pick.next, st, tr)
              ELSE /\ ticks_remaining' = [tr EXCEPT ![current] = priority[current]]
                   /\ state' = st
                   /\ current' = current
      ELSE /\ state' = st
           /\ ticks_remaining' = tr
           /\ queue' = queue
           /\ current' = current
  BY Zenon DEF Tick, TickStates, TickTicks
<1> HIDE DEF tr, tr0, st
<1>10. /\ pick.queue \in Seq(Pcbs) /\ Injective(pick.queue)
       /\ Elems(pick.queue) = Elems(queue)
       /\ pick.next # NULL => pick.next \in Elems(queue) /\ st[pick.next] = "READY"
  BY <1>1, PickNextProperties, Zenon
<1> HIDE DEF pick
<1>11. /\ queue' \in Seq(Pcbs) /\ Injective(queue')
       /\ Elems(queue') = Elems(queue)
  BY <1>1, <1>9, <1>10
<1>12. priority \in [Pcbs -> Nat]
  BY DEF IInv, TypeOK
<1>13. DOMAIN st = Pcbs /\ st = [p \in Pcbs |-> st[p]]
  BY DEF st, TickStates
<1>14. CASE DoSwitch(pick.next, st, tr) /\ pick.next # NULL /\ pick.next # current
  <2>1. pick.next \in Pcbs
    BY <1>2, <1>10, <1>14
  <2>2. state' = [p \in Pcbs |-> IF p = current' THEN "RUNNING"
                                 ELSE IF p = current THEN "READY" ELSE st[p]]
    BY <1>3, <1>6, <1>13, <1>14, <2>1 DEF DoSwitch
  <2>3. ticks_remaining' \in [Pcbs -> Nat]
    BY <1>8, <1>12, <1>14, <2>1 DEF DoSwitch
  <2>4. current' = pick.next
    BY <1>14 DEF DoSwitch
  <2>5. QED BY <1>4, <1>5, <1>10, <1>11, <1>14, <2>2, <2>3, <2>4 DEF Rescheduled, st
<1>15. CASE current' = current /\ state' = st
  <2>1. state' = [p \in Pcbs |-> IF p = current' THEN "RUNNING"
                                 ELSE IF p = current THEN "READY" ELSE st[p]]
    BY <1>6, <1>13, <1>15
  <2>2. ticks_remaining' \in [Pcbs -> Nat]
    BY <1>3, <1>8, <1>9, <1>12 DEF DoSwitch
  <2>3. QED BY <1>3, <1>4, <1>5, <1>11, <1>15, <2>1, <2>2 DEF Rescheduled, st
<1>16. QED BY <1>9, <1>14, <1>15

\* scheduler_tick, reaping, waking and switching in one interrupt, keeps the invariant.
LEMMA TickIInv == IInv /\ Tick => IInv'
<1> SUFFICES ASSUME IInv, Tick PROVE IInv'
  OBVIOUS
<1>1. /\ queue' \in Seq(Pcbs) /\ Injective(queue')
      /\ Elems(queue') = Elems(queue)
      /\ current' \in Elems(queue)
      /\ current' # current => TickStates[current'] = "READY"
      /\ state' = [p \in Pcbs |-> IF p = current' THEN "RUNNING"
                                  ELSE IF p = current THEN "READY" ELSE TickStates[p]]
      /\ ticks_remaining' \in [Pcbs -> Nat]
      /\ Orphans \subseteq zombies
      /\ \A p \in Woken : p \in Elems(queue) /\ state[p] = "BLOCKED"
  BY TickFacts, Zenon DEF Rescheduled
<1>2. /\ UNCHANGED <<next_pid, shell_pc, shell_pcb, machine>>
      /\ zombies' = zombies \ Orphans
      /\ proc_table' = proc_table \ Orphans
      /\ pid' = Freed(pid, Orphans, 0)
      /\ user_entry' = Freed(user_entry, Orphans, FALSE)
      /\ ring' = Freed(ring, Orphans, 0)
  BY DEF Tick, ReapAndWake, shell
<1>3. current \in Elems(queue)
  BY CurrentQueued
<1> USE PcbAssumption DEF IInv
<1>4. Elems(queue) \subseteq Live /\ Elems(queue) \subseteq Pcbs
  BY DEF ListsPartitionLive, Live
<1>5. Orphans \cap Elems(queue) = {} /\ Orphans \cap Unlinked = {}
  BY <1>1, Zenon DEF ListsPartitionLive
<1>6. \A p \in Pcbs : TickStates[p] = IF p \in Orphans THEN "FREE"
                                      ELSE IF p \in Woken THEN "READY" ELSE state[p]
  BY DEF TickStates
<1>7. Live' = Live \ Orphans
  BY <1>1, <1>3, <1>4, <1>5, <1>6, Zenon DEF Live
<1>8. TypeOK'
  <2>1. state' \in [Pcbs -> States]
    BY <1>1, <1>6, Zenon DEF TypeOK, States
  <2>2. /\ parent_pid' \in [Pcbs -> Nat] /\ priority' \in [Pcbs -> Nat]
        /\ pid' \in [Pcbs -> Nat] /\ user_entry' \in [Pcbs -> BOOLEAN]
        /\ ring' \in [Pcbs -> {0, 3}]
    BY Zenon DEF Tick, ReapAndWake, Freed, TypeOK
  <2>3. sleep_ticks' \in [Pcbs -> Nat]
    <3>1. \A p \in Pcbs : Asleep(p) => sleep_ticks[p] - 1 \in Nat
      <4>1. SUFFICES ASSUME NEW p \in Pcbs, Asleep(p) PROVE sleep_ticks[p] - 1 \in Nat
        OBVIOUS
      <4>2. sleep_ticks[p] > 0
        BY <4>1, Zenon DEF Asleep
      <4>3. sleep_ticks[p] \in Nat
        BY DEF TypeOK
      <4>4. QED BY <4>2, <4>3
    <3>2. sleep_ticks' = [p \in Pcbs |-> IF p \in Orphans THEN 0
                                         ELSE IF Asleep(p) THEN sleep_ticks[p] - 1
                                         ELSE sleep_ticks[p]]
      BY DEF Tick, ReapAndWake
    <3>3. QED BY <3>1, <3>2 DEF TypeOK
  <2>4. QED BY <1>1, <1>2, <1>4, <2>1, <2>2, <2>3, Zenon DEF TypeOK
<1>9. RunningIsCurrent'
  BY <1>1, <1>4, <1>6 DEF RunningIsCurrent
<1>10. ListsPartitionLive'
  <2>1. Unlinked' = Unlinked
    BY <1>2 DEF Unlinked
  <2>2. QED BY <1>1, <1>2, <1>5, <1>7, <2>1, Zenon DEF ListsPartitionLive, Injective
<1>11. TableTracksLive'
  <2>1. proc_table' = Live' \ Unregistered'
    BY <1>2, <1>7 DEF TableTracksLive, Unregistered
  <2>2. IsFiniteSet(proc_table) /\ Cardinality(proc_table) \in Nat
    BY FS_Subset, FS_CardinalityType DEF TypeOK
  <2>3. Cardinality(proc_table') \in Nat /\ Cardinality(proc_table') <= Cardinality(proc_table)
    BY <1>2, <2>2, FS_Subset, FS_CardinalityType
  <2>4. QED BY <2>1, <2>2, <2>3, BoundAssumption DEF TableTracksLive
<1>12. PidsUnique'
  <2>1. \A p \in Live' : p \in Live /\ pid'[p] = pid[p]
    BY <1>2, <1>7 DEF Freed, Live
  <2>2. QED BY <1>2, <2>1 DEF PidsUnique
<1>13. ExitNeverReturns'
  BY <1>2 DEF ExitNeverReturns
<1>14. ZombiesAreDead'
  <2>1. \A z \in zombies' : state'[z] = "ZOMBIE" /\ z # current'
    BY <1>1, <1>2, <1>3, <1>6, Zenon DEF ZombiesAreDead, ListsPartitionLive, TypeOK
  <2>2. \A p \in Elems(queue') : state'[p] = "ZOMBIE" => state[p] = "ZOMBIE"
    BY <1>1, <1>4, <1>6
  <2>3. QED BY <1>1, <1>2, <2>1, <2>2, Zenon DEF ZombiesAreDead
<1>15. IdleSchedulable'
  BY <1>1, <1>4, <1>5, <1>6 DEF IdleSchedulable
<1>16. SpawnWindow'
  <2>1. shell_pc \notin {"prompt", "report"} =>
          shell_pcb \in Pcbs /\ shell_pcb \notin Orphans /\ shell_pcb \notin Woken
    BY <1>1, <1>5, Zenon DEF SpawnWindow, TypeOK, ShellPcs, Unlinked
  <2>2. shell_pc \in {"enqueued", "loading"} =>
          state'[shell_pcb] \in {"READY", "RUNNING"} /\ shell_pcb \in Elems(queue')
    BY <1>1, <1>6, <2>1, Zenon DEF SpawnWindow
  <2>3. shell_pc \in {"failed", "teardown", "unlinked"} =>
          shell_pcb # current /\ shell_pcb # current'
    <3>1. shell_pc \in {"failed", "teardown", "unlinked"} => shell_pcb # current
      BY <2>1 DEF SpawnWindow, RunningIsCurrent
    <3>2. shell_pc = "failed" => shell_pcb # current'
      BY <1>1, <1>6, <2>1, <3>1 DEF SpawnWindow
    <3>3. shell_pc \in {"teardown", "unlinked"} => shell_pcb # current'
      BY <1>1 DEF ListsPartitionLive, Unlinked
    <3>4. QED BY <3>1, <3>2, <3>3
  <2>4. shell_pc \in {"failed", "teardown", "unlinked"} => state'[shell_pcb] = state[shell_pcb]
    BY <1>1, <1>6, <2>1, <2>3
  <2>5. \A p \in Pcbs : /\ ring'[p] = 3 => user_entry'[p]
                        /\ state'[p] = "FREE" => ~user_entry'[p]
    <3>1. SUFFICES ASSUME NEW p \in Pcbs
                   PROVE  /\ ring'[p] = 3 => user_entry'[p]
                          /\ state'[p] = "FREE" => ~user_entry'[p]
      OBVIOUS
    <3>2. CASE p \in Orphans
      <4>1. ring'[p] = 0 /\ user_entry'[p] = FALSE
        BY <3>2, <1>2 DEF Freed
      <4>2. QED BY <4>1
    <3>3. CASE p \notin Orphans
      <4>1. ring'[p] = ring[p] /\ user_entry'[p] = user_entry[p]
        BY <3>3, <1>2 DEF Freed
      <4>2. state'[p] = "FREE" => state[p] = "FREE"
        BY <3>3, <1>1, <1>6
      <4>3. QED BY <4>1, <4>2 DEF SpawnWindow
    <3>4. QED BY <3>2, <3>3
  <2>6. shell_pc \notin {"prompt", "report"} => ~user_entry'[shell_pcb]
    BY <1>2, <2>1, Zenon DEF Freed, SpawnWindow
  <2>7. QED BY <1>1, <1>2, <2>2, <2>4, <2>5, <2>6, Zenon DEF SpawnWindow
<1>17. QED BY <1>8, <1>9, <1>10, <1>11, <1>12, <1>13, <1>14, <1>15, <1>16

----------------------------------------------------------------------------
(* Preservation by the processes that sleep and start others. *)

\* A process that goes to sleep always finds a successor, for the reason an
\* exiting one does.
LEMMA SysSleepFacts ==
  ASSUME IInv, NEW n \in Nat, SysSleep(n)
  PROVE  /\ current # idle_pcb /\ user_entry[current]
         /\ Rescheduled(queue, state, "BLOCKED")
         /\ current' # current
<1> DEFINE st == [state EXCEPT ![current] = "BLOCKED"]
           pick == PickNext(queue, st)
<1>1. current # idle_pcb /\ ring[current] = 3 /\ current \in Pcbs
  BY DEF SysSleep, InSyscallContext, IInv, TypeOK
<1>2. user_entry[current]
  BY <1>1 DEF IInv, SpawnWindow
<1>3. queue \in Seq(Pcbs) /\ Injective(queue)
  BY DEF IInv, TypeOK, ListsPartitionLive, Injective
<1>4. state \in [Pcbs -> States] /\ idle_pcb \in Pcbs
  BY PcbAssumption DEF IInv, TypeOK
<1>5. idle_pcb \in Elems(queue) /\ st[idle_pcb] = "READY"
  BY <1>1, <1>4 DEF IInv, IdleSchedulable, RunningIsCurrent
<1>6. st[current] = "BLOCKED"
  BY <1>1, <1>4
<1>7. queue' = pick.queue /\
      (pick.next # NULL /\ pick.next # current => DoSwitch(pick.next, st, ticks_remaining))
  BY DEF SysSleep, Yield
<1>8. \A p \in Pcbs : p # current => st[p] = state[p]
  BY <1>4
<1>9. st \in [Pcbs -> States]
  BY <1>4, Zenon DEF States
<1> HIDE DEF st
<1>10. /\ pick.queue \in Seq(Pcbs) /\ Injective(pick.queue)
       /\ Elems(pick.queue) = Elems(queue)
       /\ pick.next # NULL => pick.next \in Elems(queue) /\ st[pick.next] = "READY"
       /\ pick.next # NULL
  BY <1>3, <1>5, PickNextProperties
<1> HIDE DEF pick
<1>11. pick.next # current /\ pick.next \in Pcbs
  BY <1>3, <1>6, <1>10, ElemsType
<1>12. DoSwitch(pick.next, st, ticks_remaining)
  BY <1>7, <1>10, <1>11
<1>13. current' = pick.next /\ state[pick.next] = "READY"
  BY <1>8, <1>10, <1>11, <1>12 DEF DoSwitch
<1>14. state' = [p \in Pcbs |-> IF p = current' THEN "RUNNING"
                                ELSE IF p = current THEN "BLOCKED" ELSE state[p]]
  BY <1>1, <1>6, <1>8, <1>9, <1>11, <1>12, <1>13, Zenon DEF DoSwitch
<1>15. ticks_remaining' \in [Pcbs -> Nat]
  BY <1>11, <1>12 DEF DoSwitch, IInv, TypeOK
<1> QED BY <1>1, <1>2, <1>7, <1>10, <1>11, <1>13, <1>14, <1>15 DEF Rescheduled

\* A process that goes to sleep stays in the queue and keeps the invariant.
LEMMA SysSleepIInv ==
  ASSUME IInv, NEW n \in Nat, SysSleep(n)
  PROVE  IInv'
<1>1. /\ current # idle_pcb /\ user_entry[current]
      /\ Rescheduled(queue, state, "BLOCKED")
      /\ current' # current
  BY SysSleepFacts
<1>2. UNCHANGED <<zombies, proc_table, pid, parent_pid, priority, user_entry, ring,
                  next_pid, shell_pc, shell_pcb, machine>>
  BY DEF SysSleep, shell
<1>3. current \in Elems(queue)
  BY CurrentQueued
<1> USE PcbAssumption DEF IInv, Rescheduled
<1>4. Elems(queue) \subseteq Live /\ Elems(queue) \subseteq Pcbs
  BY DEF ListsPartitionLive, Live
<1>5. Live' = Live
  BY <1>1, <1>3, <1>4, Zenon DEF Live, TypeOK
<1>6. TypeOK'
  <2>1. sleep_ticks' \in [Pcbs -> Nat]
    BY DEF SysSleep, TypeOK
  <2>2. state' \in [Pcbs -> States]
    BY <1>1, Zenon DEF TypeOK, States
  <2> QED BY <1>1, <1>2, <1>4, <2>1, <2>2, Zenon DEF TypeOK
<1>7. RunningIsCurrent'
  BY <1>1, <1>4 DEF RunningIsCurrent
<1>8. ListsPartitionLive'
  BY <1>1, <1>2, <1>5 DEF ListsPartitionLive, Unlinked, Injective
<1>9. TableTracksLive' /\ PidsUnique' /\ ExitNeverReturns'
  BY <1>2, <1>5 DEF TableTracksLive, Unregistered, PidsUnique, ExitNeverReturns
<1>10. ZombiesAreDead'
  BY <1>1, <1>2, <1>3, <1>4, Zenon DEF ZombiesAreDead, ListsPartitionLive, TypeOK
<1>11. IdleSchedulable'
  BY <1>1, <1>4 DEF IdleSchedulable, TypeOK
<1>12. SpawnWindow'
  <2>1. shell_pc \notin {"prompt", "report"} => shell_pcb \in Pcbs /\ shell_pcb # current
    BY <1>1 DEF SpawnWindow, TypeOK, ShellPcs
  <2>2. shell_pc \in {"failed", "teardown", "unlinked"} => shell_pcb # current'
    BY <1>1 DEF SpawnWindow, ListsPartitionLive, Unlinked
  <2> QED BY <1>1, <1>2, <1>4, <2>1, <2>2, Zenon DEF SpawnWindow, TypeOK, Live
<1> QED BY <1>6, <1>7, <1>8, <1>9, <1>10, <1>11, <1>12

\* A process started by another one is queued, registered and ready to enter
\* ring 3 in one step, also while the shell is inside a spawn of its own.
LEMMA SysSpawnIInv ==
  ASSUME IInv, NEW p \in Pcbs, NEW prio \in Priorities, SysSpawn(p, prio)
  PROVE  IInv'
<1>1. CASE ~(Cardinality(proc_table) < MAX_PROCESSES)
  <2>1. /\ next_pid' = next_pid + 1
        /\ UNCHANGED <<current, queue, zombies, proc_table, state, pid, parent_pid,
                       priority, ticks_remaining, sleep_ticks, user_entry, ring,
                       shell_pc, shell_pcb, machine>>
    BY <1>1, Zenon DEF SysSpawn
  <2> QED BY <2>1, PidTakenIInv
<1>2. CASE Cardinality(proc_table) < MAX_PROCESSES
  <2> DEFINE pr == IF prio = 0 THEN 1 ELSE prio
  <2>1. /\ state[p] = "FREE"
        /\ next_pid' = next_pid + 1
        /\ state' = [state EXCEPT ![p] = "READY"]
        /\ pid' = [pid EXCEPT ![p] = next_pid]
        /\ parent_pid' = [parent_pid EXCEPT ![p] = pid[current]]
        /\ priority' = [priority EXCEPT ![p] = pr]
        /\ ticks_remaining' = [ticks_remaining EXCEPT ![p] = pr]
        /\ user_entry' = [user_entry EXCEPT ![p] = TRUE]
        /\ queue' = Enqueue(queue, p)
        /\ proc_table' = proc_table \cup {p}
        /\ UNCHANGED <<current, zombies, sleep_ticks, ring, shell_pc, shell_pcb, machine>>
    BY <1>2, Zenon DEF SysSpawn
  <2> HIDE DEF pr
  <2> USE PcbAssumption, BoundAssumption DEF IInv
  <2>2. p \notin Elems(queue) /\ p \notin zombies /\ p \notin Unlinked /\ p \notin Live
    BY <2>1 DEF ListsPartitionLive, Live
  <2>3. p # current /\ p # idle_pcb
    BY <2>1, <2>2 DEF IdleSchedulable, RunningIsCurrent, TypeOK
  <2>4. shell_pc \notin {"prompt", "report"} => shell_pcb # p /\ shell_pcb \in Pcbs
    <3>1. shell_pc \in {"enqueued", "loading", "failed"} => shell_pcb # p
      BY <2>2, Zenon DEF SpawnWindow
    <3>2. shell_pc \in {"teardown", "unlinked"} => shell_pcb # p
      BY <2>2 DEF Unlinked
    <3> QED BY <3>1, <3>2 DEF TypeOK, ShellPcs, SpawnWindow
  <2>5. /\ queue' \in Seq(Pcbs)
        /\ Elems(queue') = Elems(queue) \cup {p}
        /\ Injective(queue')
    BY <2>1, <2>2, EnqueueProperties, Zenon DEF TypeOK, ListsPartitionLive, Injective
  <2>6. Live' = Live \cup {p}
    BY <2>1 DEF Live, TypeOK
  <2>7. Unlinked' = Unlinked /\ Unregistered' = Unregistered /\ p \notin Unregistered
    BY <2>1, <2>4 DEF Unlinked, Unregistered
  <2>8. TypeOK'
    <3>1. next_pid' \in Nat /\ pid' \in [Pcbs -> Nat]
      BY <2>1 DEF TypeOK
    <3>2. parent_pid' \in [Pcbs -> Nat]
      BY <2>1 DEF TypeOK
    <3>3. pr \in Nat
      BY BoundAssumption DEF pr
    <3>4. priority' \in [Pcbs -> Nat] /\ ticks_remaining' \in [Pcbs -> Nat]
      BY <2>1, <3>3 DEF TypeOK
    <3>5. state' \in [Pcbs -> States]
      BY <2>1 DEF TypeOK, States
    <3>6. user_entry' \in [Pcbs -> BOOLEAN] /\ proc_table' \subseteq Pcbs
      BY <2>1 DEF TypeOK
    <3> QED BY <2>1, <2>5, <3>1, <3>2, <3>4, <3>5, <3>6, Zenon DEF TypeOK
  <2>9. RunningIsCurrent'
    BY <2>1, <2>3 DEF RunningIsCurrent, TypeOK
  <2>10. ListsPartitionLive'
    BY <2>1, <2>2, <2>5, <2>6, <2>7 DEF ListsPartitionLive, Injective
  <2>11. TableTracksLive'
    <3>1. IsFiniteSet(proc_table) /\ Cardinality(proc_table) \in Nat
      <4>1. proc_table \subseteq Pcbs
        BY DEF TypeOK
      <4> HIDE DEF IInv
      <4> QED BY <4>1, FS_Subset, FS_CardinalityType
    <3>2. Cardinality(proc_table') \in {Cardinality(proc_table), Cardinality(proc_table) + 1}
      BY <2>1, <3>1, FS_AddElement, Zenon
    <3>3. Cardinality(proc_table') <= MAX_PROCESSES
      BY <1>2, <3>1, <3>2
    <3>4. proc_table' = Live' \ Unregistered'
      BY <2>1, <2>6, <2>7, Zenon DEF TableTracksLive
    <3> QED BY <3>3, <3>4 DEF TableTracksLive
  <2>12. ZombiesAreDead'
    BY <2>1, <2>2, <2>5 DEF ZombiesAreDead, TypeOK
  <2>13. IdleSchedulable'
    BY <2>1, <2>3, <2>5 DEF IdleSchedulable, TypeOK
  <2>14. SpawnWindow'
    <3>1. \A x \in Pcbs : x # p => user_entry'[x] = user_entry[x] /\ state'[x] = state[x]
      BY <2>1 DEF TypeOK
    <3>2. \A x \in Pcbs : /\ ring'[x] = 3 => user_entry'[x]
                          /\ state'[x] = "FREE" => ~user_entry'[x]
      <4>1. user_entry'[p] = TRUE /\ state'[p] = "READY"
        BY <2>1 DEF TypeOK
      <4> QED BY <2>1, <3>1, <4>1, Zenon DEF SpawnWindow
    <3> QED BY <2>1, <2>4, <2>5, <3>1, <3>2, Zenon DEF SpawnWindow
  <2>15. PidsUnique'
    <3>1. \A x \in Live : x # p /\ pid'[x] = pid[x] /\ pid[x] < next_pid /\ pid[x] \in Nat
      BY <2>1, <2>2 DEF PidsUnique, TypeOK, Live
    <3>2. pid'[p] = next_pid /\ next_pid \in Nat
      BY <2>1 DEF TypeOK
    <3>3. \A x \in Live' : pid'[x] < next_pid'
      BY <2>1, <2>6, <3>1, <3>2
    <3>4. ASSUME NEW x \in Live', NEW y \in Live', pid'[x] = pid'[y] PROVE x = y
      BY <2>6, <3>1, <3>2, <3>4 DEF PidsUnique
    <3> QED BY <3>3, <3>4 DEF PidsUnique
  <2>16. ExitNeverReturns'
    BY <2>1 DEF ExitNeverReturns
  <2> QED BY <2>8, <2>9, <2>10, <2>11, <2>12, <2>13, <2>14, <2>15, <2>16
<1> QED BY <1>1, <1>2

----------------------------------------------------------------------------
(* The theorems. *)

\* Every step of the scheduler, and stuttering, keeps the invariant.
LEMMA NextIInv == IInv /\ [Next]_vars => IInv'
<1> SUFFICES ASSUME IInv, [Next]_vars PROVE IInv'
  OBVIOUS
<1>1. CASE Tick
  BY <1>1, TickIInv
<1>2. CASE ProcessStep
  BY <1>2, EnterUsermodeIInv, SysYieldIInv, SysExitIInv DEF ProcessStep
<1>3. CASE ShellStep
  <2>1. CASE CreateOutOfFrames
    BY <2>1, CreateOutOfFramesIInv
  <2>2. CASE \E p \in Pcbs, prio \in Priorities : CreateAndEnqueue(p, prio)
    BY <2>2, CreateAndEnqueueIInv
  <2>3. CASE SpawnStep
    BY <2>3, TableAddIInv, TableFullIInv, TearDownIInv, LoadSucceedsIInv, LoadFailsIInv,
       MarkZombieUnlinkIInv, MarkZombiePushIInv, ReportSpawnIInv DEF SpawnStep
  <2>4. QED BY <1>3, <2>1, <2>2, <2>3 DEF ShellStep
<1>4. CASE UNCHANGED vars
  <2>1. UNCHANGED <<current, queue, zombies, proc_table, state, ticks_remaining, pid,
                    parent_pid, priority, sleep_ticks, user_entry, ring, next_pid,
                    shell_pc, shell_pcb, machine>>
    BY <1>4 DEF vars, lists, pcb, shell
  <2>2. Live' = Live /\ Elems(queue') = Elems(queue) /\ Unlinked' = Unlinked
        /\ Unregistered' = Unregistered
    BY <2>1 DEF Live, Elems, Unlinked, Unregistered
  <2>3. TypeOK'
    BY <2>1 DEF IInv, TypeOK
  <2>4. (RunningIsCurrent /\ ListsPartitionLive /\ TableTracksLive)'
    BY <2>1, <2>2 DEF IInv, RunningIsCurrent, ListsPartitionLive, TableTracksLive
  <2>5. (ZombiesAreDead /\ IdleSchedulable /\ SpawnWindow)'
    BY <2>1, <2>2, Zenon DEF IInv, ZombiesAreDead, IdleSchedulable, SpawnWindow
  <2>6. (PidsUnique /\ ExitNeverReturns)'
    BY <2>1, <2>2 DEF IInv, PidsUnique, ExitNeverReturns
  <2>7. QED BY <2>3, <2>4, <2>5, <2>6 DEF IInv
<1>5. QED BY <1>1, <1>2, <1>3, <1>4 DEF Next

\* The same with processes that sleep and start others.
LEMMA ClientNextIInv == IInv /\ [ClientNext]_vars => IInv'
<1> SUFFICES ASSUME IInv, [ClientNext]_vars PROVE IInv'
  OBVIOUS
<1>1. CASE [Next]_vars
  BY <1>1, NextIInv
<1>2. CASE \E n \in 1..MaxSleep : SysSleep(n)
  <2>1. \A n \in 1..MaxSleep : n \in Nat
    BY SleepAssumption
  <2> QED BY <1>2, <2>1, SysSleepIInv
<1>3. CASE \E p \in Pcbs, prio \in Priorities : SysSpawn(p, prio)
  BY <1>3, SysSpawnIInv
<1> QED BY <1>1, <1>2, <1>3 DEF ClientNext

\* Every reachable state satisfies the inductive invariant.
THEOREM Invariance == Spec => []IInv
BY InitIInv, NextIInv, PTL DEF Spec

\* Every variable keeps its type, for every value of the constants.
THEOREM TypeCorrect == Spec => []TypeOK
BY Invariance, PTL DEF IInv

\* Exactly the current process is RUNNING.
THEOREM RunningUnique == Spec => []RunningIsCurrent
BY Invariance, PTL DEF IInv

\* A PCB is linked once, on one list, exactly while it is allocated.
THEOREM ListsPartition == Spec => []ListsPartitionLive
BY Invariance, PTL DEF IInv

\* proc_table registers exactly the allocated processes, within its bound.
THEOREM TableCorrect == Spec => []TableTracksLive
BY Invariance, PTL DEF IInv

\* Only processes that are dead and off the CPU wait for the reaper.
THEOREM ReaperSafe == Spec => []ZombiesAreDead
BY Invariance, PTL DEF IInv

\* Between two steps of a spawn its PCB is neither freed nor run to completion.
THEOREM SpawnUndisturbed == Spec => []SpawnWindow
BY Invariance, PTL DEF IInv

\* process_exit never comes back to the process that called it.
THEOREM ExitFinal == Spec => []ExitNeverReturns
BY Invariance, PTL DEF IInv

\* A pid names at most one allocated process.
THEOREM PidsDistinct == Spec => []PidsUnique
BY Invariance, PTL DEF IInv

\* No step frees the process that executes it or the one that runs next.
THEOREM RunningNeverFreed == Spec => NeverFreesTheRunning
<1> DEFINE Keeps == \A p \in Pcbs : state[p] # "FREE" /\ state'[p] = "FREE"
                                      => p # current /\ p # current'
<1>1. IInv /\ IInv' /\ [Next]_vars => [Keeps]_vars
  <2> SUFFICES ASSUME IInv, IInv', Next,
                      NEW p \in Pcbs, state[p] # "FREE", state'[p] = "FREE"
               PROVE  p # current /\ p # current'
    OBVIOUS
  <2>1. p # current'
    BY DEF IInv, RunningIsCurrent
  <2>2. p # current
    <3>1. CASE Tick
      <4>1. state' = [x \in Pcbs |-> IF x = current' THEN "RUNNING"
                        ELSE IF x = current THEN "READY" ELSE TickStates[x]]
        BY <3>1, TickFacts DEF Rescheduled
      <4>2. QED BY <4>1
    <3>2. CASE SysYield
      BY <3>2, SysYieldFacts DEF Rescheduled
    <3>3. CASE SysExit
      BY <3>3, SysExitFacts DEF Rescheduled
    <3>4. CASE EnterUsermode \/ ShellStep
      <4>1. current' = current
        BY <3>4, Zenon DEF TakePid, EnterUsermode, ShellStep, SpawnStep, CreateOutOfFrames, CreateAndEnqueue,
           TableAdd, TableFull, TearDown, LoadSucceeds, LoadFails, MarkZombieUnlink,
           MarkZombiePush, ReportSpawn
      <4>2. QED BY <4>1, <2>1
    <3>5. QED BY <3>1, <3>2, <3>3, <3>4 DEF Next, ProcessStep
  <2>3. QED BY <2>1, <2>2
<1>2. QED BY <1>1, Invariance, PTL DEF Spec, NeverFreesTheRunning

\* The invariant does not depend on the kernel's present lack of sleeping and
\* spawning processes.
THEOREM ClientsInvariance == ClientSpec => []IInv
BY InitIInv, ClientNextIInv, PTL DEF ClientSpec

----------------------------------------------------------------------------
(* Round robin. *)

\* A yield puts nobody in front of a process that was READY and still is.
LEMMA YieldAhead ==
  ASSUME NEW q \in Seq(Pcbs), Injective(q), NEW st \in [Pcbs -> States], Yield(q, st),
         NEW p \in Elems(q), st[p] = "READY", p # current, state'[p] # "RUNNING"
  PROVE  AheadOf(queue', p) \subseteq AheadOf(q, p)
<1> DEFINE pick == PickNext(q, st)
<1>1. queue' = pick.queue
  BY Zenon DEF Yield
<1>2. p \in Pcbs /\ p # NULL
  BY ElemsType, PcbAssumption
<1>3. pick.next # p
  <2>1. SUFFICES ASSUME pick.next = p PROVE FALSE
    OBVIOUS
  <2>2. DoSwitch(p, st, ticks_remaining)
    BY <1>2, <2>1 DEF Yield
  <2> QED BY <1>2, <2>2 DEF DoSwitch
<1> QED BY <1>1, <1>3, PickNextAhead

\* No step puts anybody in front of a process that was READY and still is.
LEMMA NextAhead ==
  ASSUME IInv, ClientNext, NEW p \in Elems(queue), state[p] = "READY", state'[p] = "READY"
  PROVE  AheadOf(queue', p) \subseteq AheadOf(queue, p)
<1>1. queue \in Seq(Pcbs) /\ Injective(queue) /\ Elems(queue) \subseteq Pcbs /\ p \in Pcbs
  BY ElemsType DEF IInv, TypeOK, ListsPartitionLive, Injective
<1>2. p # current /\ current \in Elems(queue)
  BY CurrentQueued DEF IInv, RunningIsCurrent, TypeOK
<1>3. state \in [Pcbs -> States] /\ current \in Pcbs
  BY DEF IInv, TypeOK
<1>4. CASE Tick
  <2> DEFINE st == TickStates
  <2>1. p \notin Orphans
    BY Zenon DEF Orphans, IInv, ListsPartitionLive
  <2>2. st[p] = "READY"
    BY <1>1, <2>1, Zenon DEF TickStates
  <2>3. CASE queue' = queue
    BY <2>3
  <2>4. CASE queue' # queue
    <3> DEFINE pick == PickNext(queue, st)
    <3>1. /\ queue' = pick.queue
          /\ pick.next # NULL /\ pick.next # current => DoSwitch(pick.next, st, TickTicks)
      BY <1>4, <2>4, Zenon DEF Tick
    <3>2. pick.next # p
      <4>1. SUFFICES ASSUME pick.next = p PROVE FALSE
        OBVIOUS
      <4>2. DoSwitch(p, st, TickTicks)
        BY <1>1, <1>2, <3>1, <4>1, PcbAssumption
      <4>3. DOMAIN st = Pcbs
        BY DEF TickStates
      <4> HIDE DEF st
      <4>4. state'[p] = "RUNNING"
        BY <1>1, <4>2, <4>3 DEF DoSwitch
      <4> QED BY <4>4
    <3> HIDE DEF st
    <3> QED BY <1>1, <2>2, <3>1, <3>2, PickNextAhead, Zenon
  <2> QED BY <2>3, <2>4
<1>5. CASE SysYield
  BY <1>1, <1>2, <1>3, <1>5, YieldAhead DEF SysYield
<1>6. CASE SysExit
  <2> DEFINE q == Dequeue(queue, current)
             st == [state EXCEPT ![current] = "ZOMBIE"]
  <2>1. q \in Seq(Pcbs) /\ Injective(q) /\ Elems(q) = Elems(queue) \ {current}
    BY <1>1, <1>2, DequeueProperties
  <2>2. st \in [Pcbs -> States] /\ st[p] = "READY"
    BY <1>1, <1>2, <1>3 DEF States
  <2>3. Yield(q, st)
    BY <1>6 DEF SysExit
  <2>4. p \in Elems(q)
    BY <1>2, <2>1
  <2> HIDE DEF q, st
  <2>5. AheadOf(queue', p) \subseteq AheadOf(q, p)
    BY <1>2, <2>1, <2>2, <2>3, <2>4, YieldAhead
  <2>6. AheadOf(q, p) \subseteq AheadOf(queue, p)
    BY <1>1, <1>2, DequeueAhead DEF q
  <2> QED BY <2>5, <2>6
<1>7. CASE \E n \in 1..MaxSleep : SysSleep(n)
  <2> DEFINE st == [state EXCEPT ![current] = "BLOCKED"]
  <2>1. st \in [Pcbs -> States] /\ st[p] = "READY"
    BY <1>1, <1>2, <1>3 DEF States
  <2>2. Yield(queue, st)
    BY <1>7 DEF SysSleep
  <2> HIDE DEF st
  <2> QED BY <1>1, <1>2, <2>1, <2>2, YieldAhead
<1>8. ASSUME NEW y \in Pcbs, state[y] = "FREE", queue' = Enqueue(queue, y)
      PROVE  AheadOf(queue', p) \subseteq AheadOf(queue, p)
  <2>1. y \notin Elems(queue)
    BY <1>8 DEF IInv, ListsPartitionLive, Live
  <2> QED BY <1>1, <1>8, <2>1, EnqueueAhead
<1>9. CASE \E y \in Pcbs, prio \in Priorities : SysSpawn(y, prio)
  <2>1. PICK y \in Pcbs, prio \in Priorities : SysSpawn(y, prio)
    BY <1>9
  <2>2. state[y] = "FREE" /\ (queue' = Enqueue(queue, y) \/ queue' = queue)
    BY <2>1, Zenon DEF SysSpawn
  <2> QED BY <1>8, <2>2
<1>10. CASE \E y \in Pcbs, prio \in Priorities : CreateAndEnqueue(y, prio)
  <2>1. PICK y \in Pcbs, prio \in Priorities : CreateAndEnqueue(y, prio)
    BY <1>10
  <2>2. state[y] = "FREE" /\ queue' = Enqueue(queue, y)
    BY <2>1 DEF CreateAndEnqueue
  <2> QED BY <1>8, <2>2
<1>11. CASE TableFull \/ MarkZombieUnlink
  <2>1. queue' = Dequeue(queue, shell_pcb) /\ shell_pc \in {"enqueued", "failed"}
    BY <1>11 DEF TableFull, MarkZombieUnlink, ShellAt
  <2>2. shell_pcb \in Elems(queue)
    BY <2>1 DEF IInv, SpawnWindow
  <2> QED BY <1>1, <2>1, <2>2, DequeueAhead
<1>12. CASE \/ EnterUsermode \/ CreateOutOfFrames \/ TableAdd \/ TearDown
            \/ LoadSucceeds \/ LoadFails \/ MarkZombiePush \/ ReportSpawn
  <2>1. queue' = queue
    BY <1>12, Zenon DEF EnterUsermode, CreateOutOfFrames, TableAdd, TearDown, LoadSucceeds,
       LoadFails, MarkZombiePush, ReportSpawn, lists
  <2> QED BY <2>1
<1> QED BY <1>4, <1>5, <1>6, <1>7, <1>9, <1>10, <1>11, <1>12
        DEF ClientNext, Next, ProcessStep, ShellStep, SpawnStep

\* A process that waits READY is never overtaken, for every number of processes
\* and whatever they do.
THEOREM RoundRobin == Spec => NoOvertaking
<1>1. IInv /\ [Next]_vars =>
        [\A p \in Elems(queue) : state[p] = "READY" /\ state'[p] = "READY"
           => AheadOf(queue', p) \subseteq AheadOf(queue, p)]_vars
  BY NextAhead DEF ClientNext
<1> QED BY <1>1, Invariance, PTL DEF Spec, NoOvertaking

\* The same with processes that sleep and start others: also a sleeper that is
\* woken does not overtake.
THEOREM ClientsRoundRobin == ClientSpec => NoOvertaking
<1>1. IInv /\ [ClientNext]_vars =>
        [\A p \in Elems(queue) : state[p] = "READY" /\ state'[p] = "READY"
           => AheadOf(queue', p) \subseteq AheadOf(queue, p)]_vars
  BY NextAhead
<1> QED BY <1>1, ClientsInvariance, PTL DEF ClientSpec, NoOvertaking

----------------------------------------------------------------------------
(* Zombies are kept for their parents. *)

\* Every parent was registered when it started a child: a process the shell is
\* still creating, or will not get into the table, is nobody's parent.
Parents ==
  /\ pid[idle_pcb] = 0
  /\ \A z \in Live : parent_pid[z] < next_pid
  /\ shell_pc \in {"enqueued", "teardown"} => \A z \in Live : parent_pid[z] # pid[shell_pcb]

\* The PCB of a spawn in progress is allocated.
LEMMA SpawnedLive ==
  ASSUME IInv, shell_pc \in {"enqueued", "teardown"}
  PROVE  shell_pcb \in Live /\ shell_pcb \in Pcbs
BY Zenon DEF IInv, SpawnWindow, ListsPartitionLive, Unlinked, Live

\* Steps that write no pid.
LEMMA ParentsSame ==
  ASSUME IInv, Parents, UNCHANGED <<pid, parent_pid>>, next_pid' \in {next_pid, next_pid + 1},
         Live' \subseteq Live,
         shell_pc' \in {"enqueued", "teardown"} =>
           shell_pc \in {"enqueued", "teardown"} /\ shell_pcb' = shell_pcb
  PROVE  Parents'
<1>1. next_pid \in Nat /\ parent_pid \in [Pcbs -> Nat] /\ Live \subseteq Pcbs
  BY DEF IInv, TypeOK, Live
<1>2. ASSUME NEW z \in Live' PROVE parent_pid'[z] < next_pid'
  <2>1. parent_pid[z] < next_pid /\ parent_pid[z] \in Nat
    BY <1>1 DEF Parents
  <2> QED BY <1>1, <2>1
<1>3. shell_pc' \in {"enqueued", "teardown"} => \A z \in Live' : parent_pid'[z] # pid'[shell_pcb']
  BY Zenon DEF Parents
<1> QED BY <1>2, <1>3 DEF Parents

\* The steps that schedule allocate nothing.
LEMMA RescheduledLive ==
  ASSUME IInv, NEW q, NEW left, Elems(q) \subseteq Elems(queue), Rescheduled(q, state, left)
  PROVE  Live' \subseteq Live
<1>1. Elems(queue) \subseteq Live /\ current \in Elems(queue)
  BY CurrentQueued DEF IInv, ListsPartitionLive
<1> QED BY <1>1, Zenon DEF Rescheduled, Live

\* A tick frees processes and writes no pid of another.
LEMMA TickParents ==
  ASSUME IInv, Parents, Tick
  PROVE  Parents'
<1>1. /\ pid' = Freed(pid, Orphans, 0) /\ parent_pid' = Freed(parent_pid, Orphans, 0)
      /\ UNCHANGED <<next_pid, shell_pc, shell_pcb>>
  BY DEF Tick, ReapAndWake, shell
<1>2. ASSUME NEW z \in Live' PROVE z \in Live /\ z \notin Orphans /\ z \in Pcbs
  <2>1. /\ state' = [p \in Pcbs |-> IF p = current' THEN "RUNNING"
                                    ELSE IF p = current THEN "READY" ELSE TickStates[p]]
        /\ current' \in Elems(queue) /\ Orphans \subseteq zombies
        /\ \A p \in Woken : p \in Elems(queue)
    BY TickFacts DEF Rescheduled
  <2>2. z \in Pcbs /\ state'[z] # "FREE"
    BY DEF Live
  <2>3. Elems(queue) \subseteq Live /\ Elems(queue) \cap zombies = {} /\ current \in Elems(queue)
    BY CurrentQueued DEF IInv, ListsPartitionLive
  <2>4. CASE z = current \/ z = current'
    BY <2>1, <2>2, <2>3, <2>4
  <2>5. CASE z # current /\ z # current'
    <3>1. TickStates[z] # "FREE"
      BY <2>1, <2>2, <2>5
    <3> QED BY <2>1, <2>2, <2>3, <3>1 DEF TickStates, Live
  <2> QED BY <2>4, <2>5
<1>3. \A z \in Pcbs : z \notin Orphans => pid'[z] = pid[z] /\ parent_pid'[z] = parent_pid[z]
  BY <1>1, Zenon DEF Freed
<1>4. pid'[idle_pcb] = 0
  BY <1>1, PcbAssumption DEF Freed, Parents
<1>5. shell_pc \in {"enqueued", "teardown"} => pid'[shell_pcb] = pid[shell_pcb]
  <2>1. shell_pc \in {"enqueued", "teardown"} => shell_pcb \in Pcbs /\ shell_pcb \notin zombies
    BY SpawnedLive, Zenon DEF IInv, SpawnWindow, ListsPartitionLive, Unlinked
  <2> QED BY <1>3, <2>1 DEF Orphans
<1>6. \A z \in Live' : parent_pid'[z] < next_pid'
  BY <1>1, <1>2, <1>3 DEF Parents
<1>7. shell_pc' \in {"enqueued", "teardown"} => \A z \in Live' : parent_pid'[z] # pid'[shell_pcb']
  BY <1>1, <1>2, <1>3, <1>5, Zenon DEF Parents
<1> QED BY <1>4, <1>6, <1>7, Zenon DEF Parents

\* A new process gets the pid of a registered process as its parent's.
LEMMA BornParents ==
  ASSUME IInv, Parents, NEW p \in Pcbs, state[p] = "FREE",
         state' = [state EXCEPT ![p] = "READY"], pid' = [pid EXCEPT ![p] = next_pid],
         parent_pid' = [parent_pid EXCEPT ![p] = pid[current]], next_pid' = next_pid + 1,
         \/ shell_pc = "prompt" /\ shell_pcb' = p
         \/ UNCHANGED <<shell_pc, shell_pcb>> /\ user_entry[current]
  PROVE  Parents'
<1>1. /\ next_pid \in Nat /\ parent_pid \in [Pcbs -> Nat] /\ pid \in [Pcbs -> Nat]
      /\ state \in [Pcbs -> States] /\ Live \subseteq Pcbs /\ current \in Pcbs
  BY DEF IInv, TypeOK, Live
<1>2. Live' = Live \cup {p} /\ p \notin Live /\ current \in Live /\ idle_pcb \in Live
  BY <1>1, CurrentQueued, PcbAssumption DEF Live, IInv, ListsPartitionLive, IdleSchedulable
<1>3. pid[current] < next_pid
  BY <1>2, Zenon DEF IInv, PidsUnique
<1>4. \A z \in Live : pid'[z] = pid[z] /\ parent_pid'[z] = parent_pid[z]
  BY <1>1, <1>2
<1>5. pid'[p] = next_pid /\ parent_pid'[p] = pid[current]
  BY <1>1
<1>6. ASSUME NEW z \in Live' PROVE parent_pid'[z] < next_pid /\ parent_pid'[z] \in Nat
  <2>1. CASE z = p
    BY <1>1, <1>3, <1>5, <2>1
  <2>2. CASE z \in Live
    BY <1>1, <1>4, <2>2 DEF Parents
  <2> QED BY <1>2, <2>1, <2>2
<1>7. \A z \in Live' : parent_pid'[z] < next_pid'
  BY <1>1, <1>6
<1>8. pid'[idle_pcb] = 0
  BY <1>2, <1>4 DEF Parents
<1>9. ASSUME shell_pc' \in {"enqueued", "teardown"}, NEW z \in Live'
      PROVE  parent_pid'[z] # pid'[shell_pcb']
  <2>1. CASE shell_pcb' = p
    BY <1>1, <1>5, <1>6, <2>1
  <2>2. CASE shell_pcb' # p
    <3>1. UNCHANGED <<shell_pc, shell_pcb>> /\ user_entry[current]
      BY <2>2
    <3>2. shell_pcb \in Live /\ shell_pcb # current
      BY <1>9, <3>1, SpawnedLive DEF IInv, SpawnWindow
    <3>3. pid'[shell_pcb'] = pid[shell_pcb]
      BY <1>4, <3>1, <3>2
    <3>4. pid[shell_pcb] # pid[current]
      BY <1>2, <3>2 DEF IInv, PidsUnique
    <3>5. z \in Live => parent_pid[z] # pid[shell_pcb]
      BY <1>9, <3>1 DEF Parents
    <3> QED BY <1>2, <1>4, <1>5, <3>3, <3>4, <3>5
  <2> QED BY <2>1, <2>2
<1> QED BY <1>7, <1>8, <1>9 DEF Parents

\* Parents stays true.
LEMMA NextParents ==
  ASSUME IInv, Parents, [ClientNext]_vars
  PROVE  Parents'
<1> USE DEF pcb, shell, lists
<1>1. CASE Tick
  BY <1>1, TickParents
<1>2. CASE SysYield \/ SysExit \/ \E n \in 1..MaxSleep : SysSleep(n)
  <2>1. UNCHANGED <<pid, parent_pid, next_pid, shell_pc, shell_pcb>>
    BY <1>2, Zenon DEF SysYield, SysExit, SysSleep
  <2>2. Live' \subseteq Live
    <3>1. CASE SysYield
      BY <3>1, SysYieldFacts, RescheduledLive
    <3>2. CASE SysExit
      <4>1. Rescheduled(Dequeue(queue, current), state, "ZOMBIE")
        BY <3>2, SysExitFacts
      <4>2. queue \in Seq(Pcbs) /\ Injective(queue) /\ current \in Elems(queue)
        BY CurrentQueued DEF IInv, TypeOK, ListsPartitionLive, Injective
      <4>3. Elems(Dequeue(queue, current)) \subseteq Elems(queue)
        BY <4>2, DequeueProperties
      <4> QED BY <4>1, <4>3, RescheduledLive
    <3>3. CASE \E n \in 1..MaxSleep : SysSleep(n)
      <4>1. \A n \in 1..MaxSleep : n \in Nat
        BY SleepAssumption
      <4>2. Rescheduled(queue, state, "BLOCKED")
        BY <3>3, <4>1, SysSleepFacts
      <4> QED BY <4>2, RescheduledLive
    <3> QED BY <1>2, <3>1, <3>2, <3>3
  <2> QED BY <2>1, <2>2, ParentsSame
<1>3. CASE \E p \in Pcbs, prio \in Priorities : CreateAndEnqueue(p, prio)
  <2>1. PICK p \in Pcbs, prio \in Priorities : CreateAndEnqueue(p, prio)
    BY <1>3
  <2> QED BY <2>1, BornParents, Zenon DEF CreateAndEnqueue, ShellAt, TakePid
<1>4. CASE \E p \in Pcbs, prio \in Priorities : SysSpawn(p, prio)
  <2>1. PICK p \in Pcbs, prio \in Priorities : SysSpawn(p, prio)
    BY <1>4
  <2>2. user_entry[current]
    BY <2>1 DEF SysSpawn, InSyscallContext, IInv, SpawnWindow, TypeOK
  <2>3. next_pid' = next_pid + 1 /\ UNCHANGED <<shell_pc, shell_pcb>> /\ state[p] = "FREE"
    BY <2>1 DEF SysSpawn
  <2>4. CASE Cardinality(proc_table) < MAX_PROCESSES
    <3>1. /\ state' = [state EXCEPT ![p] = "READY"] /\ pid' = [pid EXCEPT ![p] = next_pid]
          /\ parent_pid' = [parent_pid EXCEPT ![p] = pid[current]]
      BY <2>1, <2>4, Zenon DEF SysSpawn
    <3> QED BY <2>2, <2>3, <3>1, BornParents, Zenon
  <2>5. CASE ~(Cardinality(proc_table) < MAX_PROCESSES)
    <3>1. UNCHANGED <<state, pid, parent_pid>>
      BY <2>1, <2>5, Zenon DEF SysSpawn
    <3> QED BY <2>3, <3>1, ParentsSame DEF Live
  <2> QED BY <2>4, <2>5
<1>5. CASE TearDown
  <2>1. /\ shell_pcb \in Pcbs /\ shell_pcb # idle_pcb /\ shell_pc' = "prompt"
        /\ pid' = [pid EXCEPT ![shell_pcb] = 0]
        /\ parent_pid' = [parent_pid EXCEPT ![shell_pcb] = 0]
        /\ state' = [state EXCEPT ![shell_pcb] = "FREE"] /\ next_pid' = next_pid
    BY <1>5, SpawnedLive, Zenon DEF TearDown, ShellAt, IInv, SpawnWindow
  <2>2. /\ pid \in [Pcbs -> Nat] /\ parent_pid \in [Pcbs -> Nat] /\ state \in [Pcbs -> States]
        /\ idle_pcb \in Pcbs
    BY PcbAssumption DEF IInv, TypeOK
  <2>3. pid'[idle_pcb] = 0
    BY <2>1, <2>2 DEF Parents
  <2>4. ASSUME NEW z \in Live' PROVE z \in Live /\ parent_pid'[z] = parent_pid[z]
    BY <2>1, <2>2 DEF Live
  <2> QED BY <2>1, <2>3, <2>4 DEF Parents
<1>6. CASE \/ EnterUsermode \/ CreateOutOfFrames \/ TableAdd \/ TableFull \/ LoadSucceeds
           \/ MarkZombieUnlink \/ MarkZombiePush \/ ReportSpawn \/ UNCHANGED vars
  <2>1. /\ UNCHANGED <<pid, parent_pid, state>>
        /\ next_pid' \in {next_pid, next_pid + 1}
        /\ shell_pc' \in {"enqueued", "teardown"} =>
             shell_pc \in {"enqueued", "teardown"} /\ shell_pcb' = shell_pcb
    BY <1>6, Zenon DEF EnterUsermode, CreateOutOfFrames, TableAdd, TableFull, LoadSucceeds,
       MarkZombieUnlink, MarkZombiePush, ReportSpawn, ShellAt, TakePid, vars
  <2>2. Live' = Live
    BY <2>1 DEF Live
  <2> QED BY <2>1, <2>2, ParentsSame
<1>7. CASE LoadFails
  <2>1. /\ UNCHANGED <<pid, parent_pid, next_pid>> /\ shell_pc' = "failed"
        /\ state' = [state EXCEPT ![shell_pcb] = "ZOMBIE"]
        /\ state[shell_pcb] # "FREE"
    BY <1>7, Zenon DEF LoadFails, ShellAt, IInv, SpawnWindow
  <2>2. Live' \subseteq Live
    BY <2>1, Zenon DEF Live, IInv, TypeOK
  <2> QED BY <2>1, <2>2, ParentsSame
<1> QED BY <1>1, <1>2, <1>3, <1>4, <1>5, <1>6, <1>7
        DEF ClientNext, Next, ProcessStep, ShellStep, SpawnStep

\* The reaper finds the parent that may wait in the table.
LEMMA ParentFound ==
  ASSUME IInv, Parents, NEW z \in zombies, ParentMayWait(z)
  PROVE  IsPidAlive(parent_pid[z])
<1>1. PICK p \in Live \ {idle_pcb} : state[p] # "ZOMBIE" /\ pid[p] = parent_pid[z]
  BY DEF ParentMayWait
<1>2. idle_pcb \in Live /\ z \in Live
  BY DEF IInv, ListsPartitionLive, IdleSchedulable
<1>3. pid[p] # 0
  BY <1>1, <1>2 DEF IInv, PidsUnique, Parents
<1>4. p \notin Unregistered
  BY <1>1, <1>2 DEF Unregistered, Parents
<1>5. p \in proc_table
  BY <1>1, <1>4 DEF IInv, TableTracksLive
<1> QED BY <1>1, <1>3, <1>5 DEF IsPidAlive

\* A step that keeps every zombie with its pid.
LEMMA NextKeepsZombies ==
  ASSUME IInv, Parents, [ClientNext]_vars, NEW z \in zombies, ParentMayWait(z)
  PROVE  z \in zombies' /\ pid'[z] = pid[z]
<1> USE DEF pcb, shell, lists
<1>1. z \in Pcbs /\ state[z] = "ZOMBIE" /\ pid \in [Pcbs -> Nat]
  BY DEF IInv, TypeOK, ZombiesAreDead
<1>2. CASE Tick
  <2>1. z \notin Orphans
    BY ParentFound DEF Orphans
  <2>2. zombies' = zombies \ Orphans /\ pid' = Freed(pid, Orphans, 0)
    BY <1>2 DEF Tick, ReapAndWake
  <2> QED BY <1>1, <2>1, <2>2 DEF Freed
<1>3. CASE \E p \in Pcbs, prio \in Priorities : CreateAndEnqueue(p, prio) \/ SysSpawn(p, prio)
  <2>1. PICK p \in Pcbs, prio \in Priorities : CreateAndEnqueue(p, prio) \/ SysSpawn(p, prio)
    BY <1>3
  <2>2. /\ state[p] = "FREE" /\ zombies' = zombies
        /\ pid' = [pid EXCEPT ![p] = next_pid] \/ pid' = pid
    BY <2>1, Zenon DEF CreateAndEnqueue, SysSpawn
  <2> QED BY <1>1, <2>2
<1>4. CASE TearDown
  <2>1. pid' = [pid EXCEPT ![shell_pcb] = 0] /\ zombies' = zombies /\ state[shell_pcb] = "READY"
    BY <1>4 DEF TearDown, ShellAt, IInv, SpawnWindow
  <2> QED BY <1>1, <2>1
<1>5. CASE \/ SysYield \/ SysExit \/ \E n \in 1..MaxSleep : SysSleep(n)
           \/ EnterUsermode \/ CreateOutOfFrames \/ TableAdd \/ TableFull \/ LoadSucceeds
           \/ LoadFails \/ MarkZombieUnlink \/ MarkZombiePush \/ ReportSpawn \/ UNCHANGED vars
  <2>1. pid' = pid /\ zombies \subseteq zombies'
    BY <1>5, Zenon DEF SysYield, SysExit, SysSleep, EnterUsermode, CreateOutOfFrames, TableAdd,
       TableFull, LoadSucceeds, LoadFails, MarkZombieUnlink, MarkZombiePush, ReportSpawn, vars
  <2> QED BY <2>1
<1> QED BY <1>2, <1>3, <1>4, <1>5
        DEF ClientNext, Next, ProcessStep, ShellStep, SpawnStep

\* A zombie is not reaped while its parent is alive, whoever starts processes.
THEOREM ParentCanWait == ClientSpec => ZombieKeptForParent
<1>1. Init => Parents
  BY PcbAssumption DEF Init, Parents, Live
<1>2. ClientSpec => [](IInv /\ Parents)
  <2>1. IInv /\ Parents /\ [ClientNext]_vars => (IInv /\ Parents)'
    BY ClientNextIInv, NextParents
  <2> QED BY <1>1, <2>1, InitIInv, PTL DEF ClientSpec
<1>3. IInv /\ Parents /\ [ClientNext]_vars =>
        [\A z \in zombies : ParentMayWait(z) => z \in zombies' /\ pid'[z] = pid[z]]_vars
  BY NextKeepsZombies
<1> QED BY <1>2, <1>3, PTL DEF ClientSpec, ZombieKeptForParent
=============================================================================
