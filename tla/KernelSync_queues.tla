--------------------------- MODULE KernelSync_queues ---------------------------
(***************************************************************************)
(* Lemmas on the ready queue: what each of its operations does to a queue  *)
(* of the ready threads, whatever the threads, cores and priorities.       *)
(***************************************************************************)
EXTENDS KernelSync, WellFoundedInduction, FiniteSetTheorems, TLAPS

\* A set of naturals that is not empty has a least element, which Min finds.
LEMMA MinIsLeast ==
    ASSUME NEW S \in SUBSET Nat, S # {}
    PROVE  Min(S) \in S /\ \A y \in S : Min(S) <= y
<1> DEFINE R == OpToRel(<, Nat)
<1>1. IsWellFoundedOn(R, Nat)
    BY Zenon, NatLessThanWellFounded
<1>2. \A x, y \in Nat : <<x, y>> \in R <=> x < y
    BY DEF OpToRel
<1> HIDE DEF R
<1>3. PICK x \in S : \A y \in S : ~(<<y, x>> \in R)
    BY Zenon, <1>1, WFMin
<1>4. ASSUME NEW y \in S PROVE x <= y
    <2>1. x \in Nat /\ y \in Nat /\ ~(<<y, x>> \in R)
        BY <1>3
    <2>2. ~(y < x)
        BY <1>2, <2>1
    <2>3. QED
        BY <2>1, <2>2
<1>5. QED
    BY Zenon, <1>4 DEF Min

(***************************************************************************)
(* A queue of the elements of E, each of them once.                        *)
(***************************************************************************)
IsQueueOf(s, E) ==
    /\ s \in Seq(Threads)
    /\ \A i \in DOMAIN s : s[i] \in E
    /\ \A i, j \in DOMAIN s : s[i] = s[j] => i = j
    /\ \A e \in E : \E i \in DOMAIN s : s[i] = e

\* push_back adds an element that is not there.
LEMMA QueueAppend ==
    ASSUME NEW s, NEW E, IsQueueOf(s, E), NEW t \in Threads, t \notin E
    PROVE  IsQueueOf(Append(s, t), E \cup {t})
<1> DEFINE w == Append(s, t)
<1>1. s \in Seq(Threads) /\ DOMAIN s = 1..Len(s) /\ Len(s) \in Nat
    BY DEF IsQueueOf
<1>2. /\ w \in Seq(Threads) /\ Len(w) = Len(s) + 1 /\ DOMAIN w = 1..(Len(s) + 1)
      /\ \A i \in 1..Len(s) : w[i] = s[i]
      /\ w[Len(s) + 1] = t
    BY <1>1
<1> HIDE DEF w
<1>3. \A i \in DOMAIN w : w[i] \in E \cup {t}
    BY <1>1, <1>2 DEF IsQueueOf
<1>4. ASSUME NEW i \in DOMAIN w, NEW j \in DOMAIN w, w[i] = w[j] PROVE i = j
    BY <1>1, <1>2, <1>4 DEF IsQueueOf
<1>5. ASSUME NEW e \in E \cup {t} PROVE \E i \in DOMAIN w : w[i] = e
    BY <1>1, <1>2 DEF IsQueueOf
<1>6. QED
    BY <1>2, <1>3, <1>4, <1>5 DEF IsQueueOf, w

\* push_front adds an element that is not there.
LEMMA QueuePrepend ==
    ASSUME NEW s, NEW E, IsQueueOf(s, E), NEW t \in Threads, t \notin E
    PROVE  IsQueueOf(<<t>> \o s, E \cup {t})
<1> DEFINE w == <<t>> \o s
<1>1. s \in Seq(Threads) /\ DOMAIN s = 1..Len(s) /\ Len(s) \in Nat
    BY DEF IsQueueOf
<1>2. /\ w \in Seq(Threads) /\ Len(w) = Len(s) + 1 /\ DOMAIN w = 1..(Len(s) + 1)
      /\ \A i \in 2..(Len(s) + 1) : w[i] = s[i - 1]
      /\ w[1] = t
    BY <1>1
<1> HIDE DEF w
<1>3. \A i \in DOMAIN w : i = 1 \/ (i \in 2..(Len(s) + 1) /\ i - 1 \in DOMAIN s)
    BY <1>1, <1>2
<1>4. \A i \in DOMAIN w : w[i] \in E \cup {t}
    BY <1>2, <1>3 DEF IsQueueOf
<1>5. ASSUME NEW i \in DOMAIN w, NEW j \in DOMAIN w, w[i] = w[j] PROVE i = j
    <2>1. i \in Int /\ j \in Int
        BY <1>2
    <2>2. CASE i = 1 \/ j = 1
        BY <1>2, <1>3, <1>5, <2>2 DEF IsQueueOf
    <2>3. CASE i # 1 /\ j # 1
        <3>1. i - 1 = j - 1
            BY <1>2, <1>3, <1>5, <2>3 DEF IsQueueOf
        <3>2. QED
            BY <2>1, <3>1
    <2>4. QED
        BY <2>2, <2>3
<1>6. ASSUME NEW e \in E \cup {t} PROVE \E i \in DOMAIN w : w[i] = e
    <2>1. CASE e = t
        BY <1>1, <1>2, <2>1
    <2>2. CASE e \in E
        <3>1. PICK k \in DOMAIN s : s[k] = e
            BY <2>2 DEF IsQueueOf
        <3>2. k + 1 \in DOMAIN w /\ k + 1 \in 2..(Len(s) + 1) /\ (k + 1) - 1 = k
            BY <1>1, <1>2
        <3>3. w[k + 1] = e
            BY <1>2, <3>1, <3>2
        <3>4. QED
            BY <3>2, <3>3
    <2>3. QED
        BY <2>1, <2>2
<1>7. QED
    BY <1>2, <1>4, <1>5, <1>6 DEF IsQueueOf, w

\* The index that remove() finds.
LEMMA FirstIndexUnique ==
    ASSUME NEW s, NEW E, IsQueueOf(s, E), NEW k \in DOMAIN s
    PROVE  FirstIndex(s, s[k]) = k
<1>1. DOMAIN s = 1..Len(s) /\ Len(s) \in Nat
    BY DEF IsQueueOf
<1>2. \A j \in 1..(k - 1) : s[j] # s[k]
    BY <1>1 DEF IsQueueOf
<1>3. \A i \in DOMAIN s : s[i] = s[k] => i = k
    BY DEF IsQueueOf
<1>4. QED
    BY <1>2, <1>3 DEF FirstIndex

\* remove() takes an element away.
LEMMA QueueWithout ==
    ASSUME NEW s, NEW E, IsQueueOf(s, E), NEW t \in E
    PROVE  IsQueueOf(Without(s, t), E \ {t})
<1> DEFINE w == Without(s, t)
<1>1. s \in Seq(Threads) /\ DOMAIN s = 1..Len(s) /\ Len(s) \in Nat
    BY DEF IsQueueOf
<1>2. PICK k \in DOMAIN s : s[k] = t
    BY DEF IsQueueOf
<1>3. w = [i \in 1..(Len(s) - 1) |-> IF i < k THEN s[i] ELSE s[i + 1]]
    BY <1>2, FirstIndexUnique DEF Without
<1> HIDE DEF w
<1>4. Len(s) - 1 \in Nat /\ k \in 1..Len(s)
    BY <1>1, <1>2
<1>5. \A i \in 1..(Len(s) - 1) : /\ i \in DOMAIN s /\ i + 1 \in DOMAIN s
                                 /\ s[i] \in Threads /\ s[i + 1] \in Threads
    BY <1>1, <1>4
<1>6. w \in [1..(Len(s) - 1) -> Threads]
    BY <1>3, <1>5
<1>7. w \in Seq(Threads) /\ DOMAIN w = 1..(Len(s) - 1)
    BY <1>4, <1>6
<1>8. \A i \in DOMAIN w : /\ i < k => w[i] = s[i]
                          /\ ~(i < k) => w[i] = s[i + 1]
    BY <1>3, <1>7
<1>9. ASSUME NEW i \in DOMAIN w PROVE w[i] \in E \ {t}
    <2>1. i \in Int /\ i \in DOMAIN s /\ i + 1 \in DOMAIN s /\ i \in 1..(Len(s) - 1)
        BY <1>5, <1>7
    <2>2. CASE i < k
        <3>1. i # k
            BY <1>4, <2>1, <2>2
        <3>2. QED
            BY <1>2, <1>8, <2>1, <2>2, <3>1 DEF IsQueueOf
    <2>3. CASE ~(i < k)
        <3>1. i + 1 # k
            BY <1>4, <2>1, <2>3
        <3>2. QED
            BY <1>2, <1>8, <2>1, <2>3, <3>1 DEF IsQueueOf
    <2>4. QED
        BY <2>2, <2>3
<1>10. ASSUME NEW i \in DOMAIN w, NEW j \in DOMAIN w, w[i] = w[j] PROVE i = j
    <2>1. /\ i \in Int /\ i \in DOMAIN s /\ i + 1 \in DOMAIN s
          /\ j \in Int /\ j \in DOMAIN s /\ j + 1 \in DOMAIN s
        BY <1>5, <1>7
    <2>2. \A x, y \in DOMAIN s : s[x] = s[y] => x = y
        BY DEF IsQueueOf
    <2>3. CASE i < k /\ j < k
        BY <1>8, <1>10, <2>1, <2>2, <2>3
    <2>4. CASE i < k /\ ~(j < k)
        <3>1. i = j + 1
            BY <1>8, <1>10, <2>1, <2>2, <2>4
        <3>2. QED
            BY <1>4, <2>1, <2>4, <3>1
    <2>5. CASE ~(i < k) /\ j < k
        <3>1. i + 1 = j
            BY <1>8, <1>10, <2>1, <2>2, <2>5
        <3>2. QED
            BY <1>4, <2>1, <2>5, <3>1
    <2>6. CASE ~(i < k) /\ ~(j < k)
        <3>1. i + 1 = j + 1
            BY <1>8, <1>10, <2>1, <2>2, <2>6
        <3>2. QED
            BY <2>1, <3>1
    <2>7. QED
        BY <2>3, <2>4, <2>5, <2>6
<1>11. ASSUME NEW e \in E \ {t} PROVE \E i \in DOMAIN w : w[i] = e
    <2>1. PICK m \in DOMAIN s : s[m] = e
        BY DEF IsQueueOf
    <2>2. m # k /\ m \in Int /\ m \in 1..Len(s)
        BY <1>1, <1>2, <2>1
    <2>3. CASE m < k
        <3>1. m \in DOMAIN w
            BY <1>4, <1>7, <2>2, <2>3
        <3>2. QED
            BY <1>8, <2>1, <2>3, <3>1
    <2>4. CASE m > k
        <3>1. m - 1 \in DOMAIN w /\ ~(m - 1 < k) /\ (m - 1) + 1 = m
            BY <1>4, <1>7, <2>2, <2>4
        <3>2. w[m - 1] = s[m]
            BY <1>8, <3>1
        <3>3. QED
            BY <2>1, <3>1, <3>2
    <2>5. QED
        BY <1>4, <2>2, <2>3, <2>4
<1>12. QED
    BY <1>7, <1>9, <1>10, <1>11 DEF IsQueueOf, w

\* pop_front takes the first element away.
LEMMA QueueTail ==
    ASSUME NEW s, NEW E, IsQueueOf(s, E), s # <<>>
    PROVE  Head(s) \in E /\ IsQueueOf(Tail(s), E \ {Head(s)})
<1>1. s \in Seq(Threads) /\ DOMAIN s = 1..Len(s) /\ Len(s) \in Nat /\ Len(s) > 0
    BY DEF IsQueueOf
<1>2. 1 \in DOMAIN s /\ Head(s) = s[1]
    BY <1>1
<1>3. Head(s) \in E
    BY <1>2 DEF IsQueueOf
<1> DEFINE w == Tail(s)
<1>4. /\ w \in Seq(Threads) /\ DOMAIN w = 1..(Len(s) - 1)
      /\ \A i \in 1..(Len(s) - 1) : w[i] = s[i + 1]
    BY <1>1
<1> HIDE DEF w
<1>5. \A i \in DOMAIN w : i \in Int /\ i + 1 \in DOMAIN s /\ i + 1 # 1 /\ w[i] = s[i + 1]
    BY <1>1, <1>4
<1>6. \A i \in DOMAIN w : w[i] \in E \ {Head(s)}
    BY <1>2, <1>5 DEF IsQueueOf
<1>7. ASSUME NEW i \in DOMAIN w, NEW j \in DOMAIN w, w[i] = w[j] PROVE i = j
    <2>1. i + 1 = j + 1
        BY <1>5, <1>7 DEF IsQueueOf
    <2>2. QED
        BY <1>5, <2>1
<1>8. ASSUME NEW e \in E \ {Head(s)} PROVE \E i \in DOMAIN w : w[i] = e
    <2>1. PICK m \in DOMAIN s : s[m] = e
        BY DEF IsQueueOf
    <2>2. m # 1
        BY <1>2, <2>1
    <2>3. m - 1 \in DOMAIN w /\ (m - 1) + 1 = m
        BY <1>1, <1>4, <2>2
    <2>4. w[m - 1] = e
        BY <1>5, <2>1, <2>3
    <2>5. QED
        BY <2>3, <2>4
<1>9. QED
    BY <1>3, <1>4, <1>6, <1>7, <1>8 DEF IsQueueOf, w

(***************************************************************************)
(* ready_queue as a function of the statuses and the priorities.           *)
(***************************************************************************)
ReadyAt(c, p, st, pr) == {t \in Threads : st[t] = "Ready" /\ CoreOf[t] = c /\ pr[t] = p}

QueueOK(rd, st, pr) ==
    /\ rd \in [Cores -> [Prios -> Seq(Threads)]]
    /\ st \in [Threads -> Statuses] /\ pr \in [Threads -> Prios]
    /\ \A c \in Cores, p \in Prios : IsQueueOf(rd[c][p], ReadyAt(c, p, st, pr))

\* Changing one level of one core.
LEMMA LevelExcept ==
    ASSUME NEW rd \in [Cores -> [Prios -> Seq(Threads)]], NEW c \in Cores, NEW p \in Prios,
           NEW s \in Seq(Threads)
    PROVE  LET r2 == [rd EXCEPT ![c][p] = s]
           IN  /\ r2 \in [Cores -> [Prios -> Seq(Threads)]]
               /\ r2[c][p] = s
               /\ \A d \in Cores, q \in Prios : d # c \/ q # p => r2[d][q] = rd[d][q]
OBVIOUS

\* A thread that becomes ready joins the level of its priority.
LEMMA PushOK ==
    ASSUME NEW rd, NEW st, NEW pr, QueueOK(rd, st, pr), NEW t \in Threads, st[t] # "Ready",
           NEW p \in Prios, NEW s,
           s = Append(rd[CoreOf[t]][p], t) \/ s = <<t>> \o rd[CoreOf[t]][p]
    PROVE  QueueOK([rd EXCEPT ![CoreOf[t]][p] = s], [st EXCEPT ![t] = "Ready"],
                   [pr EXCEPT ![t] = p])
<1> DEFINE r2 == [rd EXCEPT ![CoreOf[t]][p] = s]
           s2 == [st EXCEPT ![t] = "Ready"]
           p2 == [pr EXCEPT ![t] = p]
<1>1. CoreOf[t] \in Cores
    BY KernelAssumption
<1>2. s2 \in [Threads -> Statuses] /\ p2 \in [Threads -> Prios]
    BY DEF QueueOK, Statuses
<1>3. IsQueueOf(rd[CoreOf[t]][p], ReadyAt(CoreOf[t], p, st, pr))
    BY <1>1 DEF QueueOK
<1>a. t \notin ReadyAt(CoreOf[t], p, st, pr)
    BY DEF ReadyAt
<1>4. IsQueueOf(s, ReadyAt(CoreOf[t], p, st, pr) \cup {t})
    <2>1. IsQueueOf(Append(rd[CoreOf[t]][p], t), ReadyAt(CoreOf[t], p, st, pr) \cup {t})
        BY <1>3, <1>a, QueueAppend
    <2>2. IsQueueOf(<<t>> \o rd[CoreOf[t]][p], ReadyAt(CoreOf[t], p, st, pr) \cup {t})
        BY <1>3, <1>a, QueuePrepend
    <2>3. QED
        BY ZenonT(60), <2>1, <2>2
<1>5. s \in Seq(Threads)
    BY <1>4 DEF IsQueueOf
<1>6. /\ r2 \in [Cores -> [Prios -> Seq(Threads)]] /\ r2[CoreOf[t]][p] = s
      /\ \A d \in Cores, q \in Prios : d # CoreOf[t] \/ q # p => r2[d][q] = rd[d][q]
    BY <1>1, <1>5, LevelExcept DEF QueueOK
<1>7. ReadyAt(CoreOf[t], p, s2, p2) = ReadyAt(CoreOf[t], p, st, pr) \cup {t}
    BY DEF ReadyAt, QueueOK
<1>8. ASSUME NEW d \in Cores, NEW q \in Prios, d # CoreOf[t] \/ q # p
      PROVE  ReadyAt(d, q, s2, p2) = ReadyAt(d, q, st, pr)
    BY <1>8 DEF ReadyAt, QueueOK
<1> HIDE DEF r2, s2, p2
<1>9. ASSUME NEW d \in Cores, NEW q \in Prios PROVE IsQueueOf(r2[d][q], ReadyAt(d, q, s2, p2))
    <2>1. CASE d = CoreOf[t] /\ q = p
        BY Zenon, <1>4, <1>6, <1>7, <2>1
    <2>2. CASE d # CoreOf[t] \/ q # p
        BY <1>6, <1>8, <2>2 DEF QueueOK
    <2>3. QED
        BY <2>1, <2>2
<1>10. QED
    BY Zenon, <1>2, <1>6, <1>9 DEF QueueOK, r2, s2, p2

\* push_back of a thread that becomes ready.
LEMMA PushBackOK ==
    ASSUME NEW rd, NEW st, NEW pr, QueueOK(rd, st, pr), NEW t \in Threads, st[t] # "Ready",
           NEW p \in Prios
    PROVE  QueueOK(PushBack(rd, t, p), [st EXCEPT ![t] = "Ready"], [pr EXCEPT ![t] = p])
<1> DEFINE s == Append(rd[CoreOf[t]][p], t)
<1>1. QueueOK([rd EXCEPT ![CoreOf[t]][p] = s], [st EXCEPT ![t] = "Ready"], [pr EXCEPT ![t] = p])
    <2> HIDE DEF s
    <2>1. s = Append(rd[CoreOf[t]][p], t)
        BY DEF s
    <2>2. QED
        BY Zenon, <2>1, PushOK
<1>2. QED
    BY SMTT(60), <1>1 DEF PushBack

\* A thread that is no longer ready leaves its level.
LEMMA TakeOK ==
    ASSUME NEW rd, NEW st, NEW pr, QueueOK(rd, st, pr), NEW t \in Threads, st[t] = "Ready",
           NEW v \in Statuses, v # "Ready", NEW s,
           IsQueueOf(s, ReadyAt(CoreOf[t], pr[t], st, pr) \ {t})
    PROVE  QueueOK([rd EXCEPT ![CoreOf[t]][pr[t]] = s], [st EXCEPT ![t] = v], pr)
<1> DEFINE r2 == [rd EXCEPT ![CoreOf[t]][pr[t]] = s]
           s2 == [st EXCEPT ![t] = v]
<1>1. CoreOf[t] \in Cores /\ pr[t] \in Prios
    BY KernelAssumption DEF QueueOK
<1>2. s2 \in [Threads -> Statuses]
    BY DEF QueueOK
<1>3. s \in Seq(Threads)
    BY DEF IsQueueOf
<1>4. /\ r2 \in [Cores -> [Prios -> Seq(Threads)]] /\ r2[CoreOf[t]][pr[t]] = s
      /\ \A d \in Cores, q \in Prios : d # CoreOf[t] \/ q # pr[t] => r2[d][q] = rd[d][q]
    BY <1>1, <1>3, LevelExcept DEF QueueOK
<1>5. ReadyAt(CoreOf[t], pr[t], s2, pr) = ReadyAt(CoreOf[t], pr[t], st, pr) \ {t}
    BY DEF ReadyAt, QueueOK
<1>6. ASSUME NEW d \in Cores, NEW q \in Prios, d # CoreOf[t] \/ q # pr[t]
      PROVE  ReadyAt(d, q, s2, pr) = ReadyAt(d, q, st, pr)
    BY <1>6 DEF ReadyAt, QueueOK
<1> HIDE DEF r2, s2
<1>7. ASSUME NEW d \in Cores, NEW q \in Prios PROVE IsQueueOf(r2[d][q], ReadyAt(d, q, s2, pr))
    <2>1. CASE d = CoreOf[t] /\ q = pr[t]
        BY Zenon, <1>4, <1>5, <2>1
    <2>2. CASE d # CoreOf[t] \/ q # pr[t]
        BY <1>4, <1>6, <2>2 DEF QueueOK
    <2>3. QED
        BY <2>1, <2>2
<1>8. QED
    BY ZenonT(60), <1>2, <1>4, <1>7 DEF QueueOK, r2, s2

\* remove() of a ready thread.
LEMMA RemoveOK ==
    ASSUME NEW rd, NEW st, NEW pr, QueueOK(rd, st, pr), NEW t \in Threads, st[t] = "Ready",
           NEW v \in Statuses, v # "Ready"
    PROVE  QueueOK([rd EXCEPT ![CoreOf[t]][pr[t]] = Without(rd[CoreOf[t]][pr[t]], t)],
                   [st EXCEPT ![t] = v], pr)
<1>1. CoreOf[t] \in Cores /\ pr[t] \in Prios
    BY KernelAssumption DEF QueueOK
<1>2. IsQueueOf(rd[CoreOf[t]][pr[t]], ReadyAt(CoreOf[t], pr[t], st, pr))
    BY <1>1 DEF QueueOK
<1>3. t \in ReadyAt(CoreOf[t], pr[t], st, pr)
    BY DEF ReadyAt
<1>4. QED
    BY Zenon, <1>2, <1>3, QueueWithout, TakeOK

\* pop_first and pop_first_better of a level that is not empty.
LEMMA PopOK ==
    ASSUME NEW rd, NEW st, NEW pr, QueueOK(rd, st, pr), NEW c \in Cores, NEW p \in Prios,
           rd[c][p] # <<>>, NEW t, t = Head(rd[c][p]), NEW v \in Statuses, v # "Ready"
    PROVE  /\ t \in Threads /\ st[t] = "Ready" /\ CoreOf[t] = c /\ pr[t] = p
           /\ QueueOK([rd EXCEPT ![c][p] = Tail(rd[c][p])], [st EXCEPT ![t] = v], pr)
<1>1. IsQueueOf(rd[c][p], ReadyAt(c, p, st, pr))
    BY DEF QueueOK
<1>2. t \in ReadyAt(c, p, st, pr) /\ IsQueueOf(Tail(rd[c][p]), ReadyAt(c, p, st, pr) \ {t})
    BY <1>1, QueueTail
<1>3. t \in Threads /\ st[t] = "Ready" /\ CoreOf[t] = c /\ pr[t] = p
    BY <1>2 DEF ReadyAt
<1>4. QueueOK([rd EXCEPT ![c][p] = Tail(rd[c][p])], [st EXCEPT ![t] = v], pr)
    BY Zenon, <1>2, <1>3, TakeOK
<1>5. QED
    BY <1>3, <1>4

\* A thread that is not ready may change its priority.
LEMMA OtherPriorityOK ==
    ASSUME NEW rd, NEW st, NEW pr, QueueOK(rd, st, pr), NEW t \in Threads, st[t] # "Ready",
           NEW p \in Prios
    PROVE  QueueOK(rd, st, [pr EXCEPT ![t] = p])
<1> DEFINE p2 == [pr EXCEPT ![t] = p]
<1>1. p2 \in [Threads -> Prios]
    BY DEF QueueOK
<1>2. ASSUME NEW d \in Cores, NEW q \in Prios PROVE ReadyAt(d, q, st, p2) = ReadyAt(d, q, st, pr)
    BY DEF ReadyAt, QueueOK
<1> HIDE DEF p2
<1>3. QED
    BY Zenon, <1>1, <1>2 DEF QueueOK, p2

\* A thread that is not ready may change its status to another one.
LEMMA OtherStatusOK ==
    ASSUME NEW rd, NEW st, NEW pr, QueueOK(rd, st, pr), NEW t \in Threads, st[t] # "Ready",
           NEW v \in Statuses, v # "Ready"
    PROVE  QueueOK(rd, [st EXCEPT ![t] = v], pr)
<1> DEFINE s2 == [st EXCEPT ![t] = v]
<1>1. s2 \in [Threads -> Statuses]
    BY DEF QueueOK
<1>2. ASSUME NEW d \in Cores, NEW q \in Prios PROVE ReadyAt(d, q, s2, pr) = ReadyAt(d, q, st, pr)
    BY DEF ReadyAt, QueueOK
<1> HIDE DEF s2
<1>3. QED
    BY Zenon, <1>1, <1>2 DEF QueueOK, s2

\* Changing a thread's priority, which moves a ready thread to its new level.
LEMMA ChangePriorityOK ==
    ASSUME NEW t \in Threads, NEW p \in Prios, QueueOK(ready, status, prio),
           ready' = IF status[t] = "Ready" THEN PushBack(RemoveReady(ready, t), t, p) ELSE ready,
           prio' = [prio EXCEPT ![t] = p]
    PROVE  QueueOK(ready', status, prio')
<1>1. CASE status[t] # "Ready"
    BY Zenon, <1>1, OtherPriorityOK
<1>2. CASE status[t] = "Ready"
    <2> DEFINE r1 == RemoveReady(ready, t)
               s1 == [status EXCEPT ![t] = "WaitSleep"]
    <2>1. QueueOK(r1, s1, prio)
        <3>1. "WaitSleep" \in Statuses
            BY DEF Statuses
        <3>2. QED
            BY <1>2, <3>1, RemoveOK DEF RemoveReady
    <2>2. ready' = PushBack(r1, t, p)
        BY <1>2
    <2>3. s1[t] # "Ready" /\ [s1 EXCEPT ![t] = "Ready"] = status
        BY Zenon, <1>2 DEF QueueOK
    <2> HIDE DEF r1, s1
    <2>4. QueueOK(PushBack(r1, t, p), [s1 EXCEPT ![t] = "Ready"], [prio EXCEPT ![t] = p])
        BY Zenon, <2>1, <2>3, PushBackOK
    <2>5. QED
        BY Zenon, <2>2, <2>3, <2>4
<1>3. QED
    BY <1>1, <1>2
================================================================================
