------------------------ MODULE ThreadQueueList_proofs ------------------------
(***************************************************************************)
(* For every number of levels: the list of levels stays sorted and         *)
(* complete, no walk leaves it, and the queue implements ReadyQueueSpec.   *)
(***************************************************************************)
EXTENDS ThreadQueueList, TLAPS

\* remove() leaves a queue of the same items.
LEMMA WithoutType ==
    ASSUME NEW S, NEW s \in Seq(S), NEW x
    PROVE  Without(s, x) \in Seq(S)
<1>1. CASE \E i \in DOMAIN s : s[i] = x
    <2>1. Len(s) - 1 \in Nat
        BY <1>1
    <2>2. Without(s, x) = [i \in 1..(Len(s) - 1) |-> IF i < FirstIndex(s, x) THEN s[i] ELSE s[i + 1]]
        BY <1>1 DEF Without
    <2>3. \A i \in 1..(Len(s) - 1) : s[i] \in S /\ s[i + 1] \in S
        BY <2>1
    <2>4. Without(s, x) \in [1..(Len(s) - 1) -> S]
        BY <2>2, <2>3
    <2>5. QED
        BY <2>1, <2>4
<1>2. CASE ~\E i \in DOMAIN s : s[i] = x
    BY <1>2 DEF Without
<1>3. QED
    BY <1>1, <1>2

\* A new element that does not come between a and its successor changes nothing.
LEMMA NextElsewhere ==
    ASSUME NEW S \in SUBSET Nat, NEW a \in Int, NEW q, NEW p \in Nat,
           IsNextIn(S, a, q), p <= a \/ (\E r \in S : a < r /\ r < p)
    PROVE  IsNextIn(S \cup {p}, a, q)
<1>1. CASE q = Null /\ \A r \in S : r <= a
    <2>1. p <= a
        <3>1. ASSUME NEW r \in S, a < r PROVE FALSE
            BY <1>1, <3>1
        <3>2. QED
            BY <3>1
    <2>2. QED
        BY <1>1, <2>1 DEF IsNextIn
<1>2. CASE q \in S /\ q > a /\ \A r \in S : r > a => q <= r
    <2>1. q \in Nat /\ \A r \in S : r \in Nat
        BY <1>2
    <2>2. p > a => q <= p
        BY <1>2, <2>1
    <2>3. QED
        BY <1>2, <2>1, <2>2 DEF IsNextIn
<1>3. QED
    BY <1>1, <1>2 DEF IsNextIn

\* A new element that comes next after a takes over a's successor.
LEMMA NextBetween ==
    ASSUME NEW S \in SUBSET Nat, NEW a \in Int, NEW q, NEW p \in Nat,
           IsNextIn(S, a, q), a < p, \A r \in S : r <= a \/ r > p
    PROVE  IsNextIn(S \cup {p}, a, p) /\ IsNextIn(S \cup {p}, p, q)
<1>1. \A r \in S : r \in Nat
    OBVIOUS
<1>2. IsNextIn(S \cup {p}, a, p)
    BY <1>1 DEF IsNextIn
<1>3. CASE q = Null /\ \A r \in S : r <= a
    <2>1. \A r \in S \cup {p} : r <= p
        BY <1>1, <1>3
    <2>2. QED
        BY <1>2, <1>3, <2>1 DEF IsNextIn
<1>4. CASE q \in S /\ q > a /\ \A r \in S : r > a => q <= r
    <2>1. q \in Nat /\ q > p
        BY <1>1, <1>4
    <2>2. \A r \in S \cup {p} : r > p => q <= r
        BY <1>1, <1>4
    <2>3. QED
        BY <1>2, <1>4, <2>1, <2>2 DEF IsNextIn
<1>5. QED
    BY <1>3, <1>4 DEF IsNextIn

\* What prepare() does to the list: it adds one level, and the list stays
\* sorted and complete.
LEMMA PrepareLinks ==
    ASSUME TypeOK, LevelsLinked, NEW p \in Levels, prepare(p)
    PROVE  /\ linked' = linked \cup {p}
           /\ first' \in Levels \cup {Null} /\ next' \in [Levels -> Levels \cup {Null, Unlinked}]
           /\ LevelsLinked'
<1> USE QueueAssumption DEF Null, Unlinked
<1>0. p \in Nat /\ linked \in SUBSET Nat /\ \A r \in linked : r \in Nat
    BY DEF linked, Levels
<1>1. CASE next[p] # Unlinked
    BY <1>1 DEF prepare, TypeOK, linked, LevelsLinked, IsNextIn
<1>2. CASE next[p] = Unlinked /\ \A i \in 0..(p - 1) : next[i] = Unlinked
    <2>1. first' = p /\ next' = [next EXCEPT ![p] = first]
        BY <1>2 DEF prepare, TypeOK, Levels
    <2>2. linked' = linked \cup {p}
        BY <2>1 DEF linked, TypeOK, Levels
    <2>3. \A r \in linked : r > p
        BY <1>2 DEF linked, TypeOK, Levels
    <2>4. /\ next'[p] = first
          /\ \A q \in linked : q # p /\ next'[q] = next[q]
        BY <2>1, <1>2 DEF TypeOK, linked, Levels
    <2>5. IsNextIn(linked \cup {p}, -1, p) /\ IsNextIn(linked \cup {p}, p, first)
        BY <1>0, <2>3, NextBetween DEF LevelsLinked
    <2>6. \A q \in linked : IsNextIn(linked \cup {p}, q, next[q])
        BY <1>0, <2>3, NextElsewhere DEF LevelsLinked
    <2>7. LevelsLinked'
        BY <2>1, <2>2, <2>4, <2>5, <2>6 DEF LevelsLinked
    <2>8. QED
        BY <2>1, <2>2, <2>7 DEF TypeOK
<1>3. ASSUME next[p] = Unlinked, NEW i \in 0..(p - 1), next[i] # Unlinked,
             \A j \in (i + 1)..(p - 1) : next[j] = Unlinked,
             next' = [next EXCEPT ![p] = next[i], ![i] = p], first' = first
      PROVE  /\ linked' = linked \cup {p}
             /\ first' \in Levels \cup {Null} /\ next' \in [Levels -> Levels \cup {Null, Unlinked}]
             /\ LevelsLinked'
    <2>1. /\ i \in linked /\ i < p /\ p \notin linked
          /\ \A r \in linked : r <= i \/ r > p
        BY <1>3 DEF linked, TypeOK, Levels
    <2>2. linked' = linked \cup {p}
        BY <1>3 DEF linked, TypeOK, Levels
    <2>3. i \in Levels /\ i # p /\ next \in [Levels -> Levels \cup {Null, Unlinked}]
        BY <2>1 DEF TypeOK, linked, Levels
    <2>4. /\ next'[p] = next[i] /\ next'[i] = p
          /\ \A q \in Levels : q # p /\ q # i => next'[q] = next[q]
        BY <2>3, <1>3
    <2>5. IsNextIn(linked \cup {p}, -1, first)
        <3>1. -1 < i /\ i < p
            BY <1>0, <2>1
        <3>2. QED
            BY <1>0, <2>1, <3>1, NextElsewhere DEF LevelsLinked
    <2>6. IsNextIn(linked \cup {p}, i, p) /\ IsNextIn(linked \cup {p}, p, next[i])
        BY <1>0, <2>1, NextBetween DEF LevelsLinked
    <2>7. ASSUME NEW q \in linked, q # i
          PROVE  IsNextIn(linked \cup {p}, q, next[q])
        <3>1. p <= q \/ (q < i /\ i < p)
            BY <1>0, <2>1, <2>7
        <3>2. IsNextIn(linked, q, next[q])
            BY DEF LevelsLinked
        <3>3. QED
            BY <1>0, <2>1, <3>1, <3>2, NextElsewhere
    <2>8. \A q \in linked : q \in Levels
        BY DEF linked
    <2>9. \A q \in linked' : IsNextIn(linked', q, next'[q])
        BY <2>1, <2>2, <2>4, <2>5, <2>6, <2>7, <2>8
    <2>10. LevelsLinked'
        BY <1>3, <2>2, <2>5, <2>9 DEF LevelsLinked
    <2>11. QED
        BY <1>3, <2>2, <2>3, <2>10 DEF TypeOK
<1>4. QED
    BY <1>1, <1>2, <1>3 DEF prepare

Inv == TypeOK /\ LevelsLinked /\ WalkInvariant

\* The queue starts empty, with no level linked.
LEMMA InitInv == Init => Inv
<1> SUFFICES ASSUME Init PROVE Inv
    OBVIOUS
<1> USE QueueAssumption DEF Init
<1>1. linked = {}
    BY DEF linked, Levels, Unlinked
<1>2. TypeOK
    BY DEF TypeOK, Levels, Null, Unlinked
<1>3. LevelsLinked /\ WalkInvariant
    BY <1>1 DEF LevelsLinked, IsNextIn, WalkInvariant, Null
<1>4. QED
    BY <1>2, <1>3 DEF Inv

\* The operations that only change the queues, and the walks, leave the list alone.
LEMMA SameLinks ==
    ASSUME LevelsLinked, UNCHANGED <<first, next>>
    PROVE  linked' = linked /\ LevelsLinked'
<1>1. linked' = linked
    BY DEF linked
<1>2. QED
    BY <1>1 DEF LevelsLinked

\* The cursor of a walk that goes on is a linked level.
LEMMA WalkingLinked ==
    ASSUME Inv, Walking
    PROVE  cur \in linked /\ cur \in Levels /\ walk # "none"
BY DEF Inv, Walking, WalkInvariant, linked

\* Every operation and every step of a walk keeps the invariant.
LEMMA NextInv == Inv /\ [Next]_vars => Inv'
<1> SUFFICES ASSUME Inv, [Next]_vars PROVE Inv'
    OBVIOUS
<1> USE QueueAssumption
<1>0. TypeOK /\ LevelsLinked /\ WalkInvariant
    BY DEF Inv
<1>1. ASSUME NEW p \in Levels, Prepare(p) PROVE Inv'
    <2>1. walk' = "none" /\ UNCHANGED <<data, walk, cur, stop, out>> /\ prepare(p)
        BY <1>1 DEF Prepare, Idle
    <2>2. QED
        BY <1>0, <2>1, PrepareLinks DEF Inv, TypeOK, WalkInvariant
<1>2. ASSUME NEW p \in Levels, NEW t \in Items, push_front(p, t) \/ push_back(p, t) \/ remove(p, t)
      PROVE  Inv'
    <2>1. walk' = "none" /\ UNCHANGED <<first, next, walk, cur, stop, out>>
        BY <1>2 DEF push_front, push_back, remove, Idle
    <2>2. data[p] \in Seq(Items)
        BY <1>0 DEF TypeOK
    <2>3. <<t>> \o data[p] \in Seq(Items) /\ Append(data[p], t) \in Seq(Items)
        BY <2>2
    <2>4. Without(data[p], t) \in Seq(Items)
        BY <2>2, WithoutType
    <2>5. data' \in [Levels -> Seq(Items)]
        BY <1>0, <1>2, <2>3, <2>4 DEF push_front, push_back, remove, TypeOK
    <2>6. QED
        BY <1>0, <2>1, <2>5, SameLinks DEF Inv, TypeOK, WalkInvariant
<1>3. ASSUME NEW p \in Levels, NEW q \in Levels, NEW t \in Items, move(t, p, q) PROVE Inv'
    <2>1. walk' = "none" /\ UNCHANGED <<walk, cur, stop, out>> /\ prepare(q)
        BY <1>3 DEF move, Idle
    <2> DEFINE d == [data EXCEPT ![p] = Without(data[p], t)]
    <2>2. d \in [Levels -> Seq(Items)]
        BY <1>0, WithoutType DEF TypeOK
    <2>3. data' = [d EXCEPT ![q] = Append(d[q], t)]
        BY <1>3 DEF move
    <2> HIDE DEF d
    <2>4. Append(d[q], t) \in Seq(Items)
        BY <2>2
    <2>5. data' \in [Levels -> Seq(Items)]
        BY <2>2, <2>3, <2>4
    <2>6. QED
        BY <1>0, <2>1, <2>5, PrepareLinks DEF Inv, TypeOK, WalkInvariant
<1>4. ASSUME pop_first \/ (\E p \in Levels : pop_first_better(p)) PROVE Inv'
    <2>1. cur' = first /\ UNCHANGED <<first, next, data, out>>
        BY <1>4 DEF pop_first, pop_first_better
    <2>2. walk' \in {"first", "better"} /\ stop' \in 0..N
        BY <1>4 DEF pop_first, pop_first_better, Levels
    <2>3. TypeOK'
        BY <1>0, <2>1, <2>2 DEF TypeOK
    <2>4. linked' = linked /\ LevelsLinked'
        BY <1>0, <2>1, SameLinks
    <2>5. linked \in SUBSET Nat
        BY DEF linked, Levels
    <2>6. /\ (first = Null /\ linked = {}) \/ first \in linked
          /\ \A q \in linked : first <= q
        <3>1. IsNextIn(linked, -1, first)
            BY <1>0 DEF LevelsLinked
        <3>2. QED
            BY <2>5, <3>1 DEF IsNextIn, Null
    <2>7. /\ walk' = "better" => stop' \in linked
          /\ walk' = "first" => stop' = N
        BY <1>4 DEF pop_first, pop_first_better
    <2>8. ASSUME NEW q \in linked PROVE ~(first = Null \/ q < first)
        <3>1. first \in linked /\ first <= q
            BY <2>6
        <3>2. q \in Nat /\ first \in Nat
            BY <2>5, <3>1
        <3>3. QED
            BY <3>1, <3>2 DEF Null
    <2>9. walk' = "better" => first \in linked /\ first <= stop'
        BY <2>6, <2>7
    <2>10. WalkInvariant'
        BY <2>1, <2>4, <2>6, <2>7, <2>8, <2>9 DEF WalkInvariant
    <2>11. QED
        BY <2>3, <2>4, <2>10 DEF Inv
<1>5. ASSUME WalkTakes PROVE Inv'
    <2>1. cur \in Levels /\ data[cur] \in Seq(Items) /\ data[cur] # <<>>
        BY <1>0, <1>5, WalkingLinked DEF WalkTakes, TypeOK
    <2>2. Head(data[cur]) \in Items /\ Tail(data[cur]) \in Seq(Items)
        BY <2>1
    <2>3. data' \in [Levels -> Seq(Items)] /\ out' \in Items \cup {NoItem}
        BY <1>0, <1>5, <2>1, <2>2 DEF WalkTakes, TypeOK
    <2>4. walk' = "none" /\ cur' = Null /\ stop' = 0 /\ UNCHANGED <<first, next>>
        BY <1>5 DEF WalkTakes
    <2>5. QED
        BY <1>0, <2>3, <2>4, SameLinks DEF Inv, TypeOK, WalkInvariant
<1>6. ASSUME WalkNext PROVE Inv'
    <2>1. cur \in linked /\ cur \in Levels /\ walk # "none"
        BY <1>6, WalkingLinked DEF WalkNext
    <2>2. cur' = next[cur] /\ data[cur] = <<>> /\ UNCHANGED <<first, next, data, walk, stop, out>>
        BY <1>6 DEF WalkNext
    <2>3. linked' = linked /\ LevelsLinked'
        BY <1>0, <2>2, SameLinks
    <2>a. \A q \in linked : q \in Nat
        BY DEF linked, Levels
    <2>4. IsNextIn(linked, cur, next[cur])
        BY <1>0, <2>1 DEF LevelsLinked
    <2>5. \A q \in linked : q < cur => data[q] = <<>>
        BY <1>0, <2>1 DEF WalkInvariant
    <2>6. next[cur] = Null \/ next[cur] \in linked
        BY <2>4 DEF IsNextIn
    <2>7. ASSUME NEW q \in linked, next[cur] = Null \/ q < next[cur] PROVE data[q] = <<>>
        <3>1. q <= cur
            BY <2>1, <2>a, <2>4, <2>7 DEF IsNextIn, Null
        <3>2. q < cur \/ q = cur
            BY <2>1, <2>a, <3>1
        <3>3. QED
            BY <2>2, <2>5, <3>2
    <2>8. ASSUME walk = "better" PROVE stop \in linked /\ next[cur] \in linked /\ next[cur] <= stop
        <3>1. stop \in linked /\ cur < stop
            BY <1>0, <1>6, <2>1, <2>8 DEF WalkInvariant, WalkNext, Walking
        <3>2. QED
            BY <2>1, <2>a, <2>4, <3>1 DEF IsNextIn, Null
    <2>9. walk = "first" => stop = N
        BY <1>0, <2>1 DEF WalkInvariant
    <2>10. WalkInvariant'
        BY <2>2, <2>3, <2>6, <2>7, <2>8, <2>9 DEF WalkInvariant
    <2>11. TypeOK'
        BY <1>0, <2>1, <2>2 DEF TypeOK
    <2>12. QED
        BY <2>3, <2>10, <2>11 DEF Inv
<1>7. ASSUME WalkEnds PROVE Inv'
    BY <1>0, <1>7, SameLinks DEF WalkEnds, Inv, TypeOK, WalkInvariant
<1>8. ASSUME UNCHANGED vars PROVE Inv'
    BY <1>0, <1>8, SameLinks DEF vars, Inv, TypeOK, WalkInvariant
<1>9. QED
    BY <1>1, <1>2, <1>3, <1>4, <1>5, <1>6, <1>7, <1>8 DEF Next

\* The list of levels is always sorted and complete: next_nonempty is the next
\* used level and first the best one.
THEOREM SortedLevels == Spec => []LevelsLinked
<1>1. Inv => LevelsLinked
    BY DEF Inv
<1>2. QED
    BY <1>1, InitInv, NextInv, PTL DEF Spec

\* No pop dereferences the null pointer or the unlinked tag.
THEOREM SafeWalks == Spec => []NoWildPointer
<1>1. Inv => NoWildPointer
    BY WalkingLinked DEF NoWildPointer
<1>2. QED
    BY <1>1, InitInv, NextInv, PTL DEF Spec

\* A walk takes from the level that the scheduler's view calls the first, and it
\* ends with nothing only if that view has nothing better.
LEMMA WalkPops ==
    ASSUME Inv
    PROVE  /\ WalkTakes => cur < stop /\ IsFirstLevel(cur, linked, data)
           /\ WalkEnds => NoneBetter(stop, linked, data)
<1> USE QueueAssumption
<1>1. WalkInvariant /\ \A q \in linked : q \in Nat /\ q < N
    BY DEF Inv, linked, Levels
<1>2. ASSUME WalkTakes PROVE cur < stop /\ IsFirstLevel(cur, linked, data)
    <2>1. cur \in linked /\ walk # "none" /\ data[cur] # <<>> /\ Walking
        BY <1>2, WalkingLinked DEF WalkTakes
    <2>2. cur < stop
        BY <1>1, <2>1 DEF Walking, WalkInvariant
    <2>3. \A q \in linked : q < cur => data[q] = <<>>
        BY <1>1, <2>1 DEF WalkInvariant
    <2>4. QED
        BY <2>1, <2>2, <2>3 DEF IsFirstLevel
<1>3. ASSUME WalkEnds PROVE NoneBetter(stop, linked, data)
    <2>1. walk # "none" /\ ~Walking /\ walk \in {"none", "first", "better"}
        BY <1>3 DEF WalkEnds, Inv, TypeOK
    <2>2. CASE walk = "first"
        <3>1. cur = Null
            BY <2>1, <2>2 DEF Walking
        <3>2. QED
            BY <1>1, <2>1, <3>1 DEF WalkInvariant, NoneBetter
    <2>3. CASE walk = "better"
        <3>1. stop \in linked /\ cur \in linked /\ cur <= stop /\ ~(cur < stop)
            BY <1>1, <2>1, <2>3 DEF WalkInvariant, Walking
        <3>2. cur = stop
            BY <1>1, <3>1
        <3>3. QED
            BY <1>1, <2>1, <3>2 DEF WalkInvariant, NoneBetter
    <2>4. QED
        BY <2>1, <2>2, <2>3
<1>4. QED
    BY <1>2, <1>3

\* Every step is one step of the scheduler's view, or a stutter of a walk.
LEMMA NextRefines == Inv /\ [Next]_vars => [RQ!Next]_RQ!avars
<1> SUFFICES ASSUME Inv, [Next]_vars PROVE [RQ!Next]_<<linked, data, out>>
    BY DEF RQ!avars
<1> USE QueueAssumption
<1>0. TypeOK /\ LevelsLinked /\ WalkInvariant /\ RQ!Levels = Levels
    BY DEF Inv, Levels, RQ!Levels
<1>a. ASSUME NEW s, NEW x PROVE RQ!Without(s, x) = Without(s, x)
    BY DEF Without, RQ!Without, FirstIndex, RQ!FirstIndex
<1>1. ASSUME NEW p \in Levels, Prepare(p) PROVE [RQ!Next]_<<linked, data, out>>
    <2>1. linked' = linked \cup {p} /\ UNCHANGED <<data, out>>
        BY <1>0, <1>1, PrepareLinks DEF Prepare, Idle
    <2>2. QED
        BY <1>0, <2>1 DEF RQ!Next, RQ!Prepare
<1>2. ASSUME NEW p \in Levels, NEW t \in Items, push_front(p, t) \/ push_back(p, t)
      PROVE  RQ!Next
    <2>1. linked' = linked /\ p \in linked /\ out' = out
        BY <1>0, <1>2, SameLinks DEF push_front, push_back, Idle
    <2>2. RQ!Push(p, <<t>> \o data[p]) \/ RQ!Push(p, Append(data[p], t))
        BY <1>2, <2>1 DEF push_front, push_back, RQ!Push
    <2>3. QED
        BY <1>0, <2>2 DEF RQ!Next
<1>3. ASSUME NEW p \in Levels, NEW t \in Items, remove(p, t) PROVE RQ!Next
    <2>1. linked' = linked /\ out' = out
        BY <1>0, <1>3, SameLinks DEF remove, Idle
    <2>2. RQ!Remove(p, t)
        BY <1>a, <1>3, <2>1 DEF remove, RQ!Remove
    <2>3. QED
        BY <1>0, <2>2 DEF RQ!Next
<1>4. ASSUME NEW p \in Levels, NEW q \in Levels, NEW t \in Items, move(t, p, q) PROVE RQ!Next
    <2>1. linked' = linked \cup {q} /\ out' = out
        BY <1>0, <1>4, PrepareLinks DEF move, Idle
    <2>2. RQ!Move(t, p, q)
        BY <1>a, <1>4, <2>1 DEF move, RQ!Move
    <2>3. QED
        BY <1>0, <2>2 DEF RQ!Next
<1>5. ASSUME WalkTakes PROVE RQ!Next
    <2>1. /\ linked' = linked /\ cur \in Levels
          /\ cur < stop /\ IsFirstLevel(cur, linked, data) /\ stop \in 0..N
        BY <1>0, <1>5, SameLinks, WalkPops, WalkingLinked DEF WalkTakes, TypeOK
    <2>2. RQ!Pop(stop)
        BY <1>0, <1>5, <2>1 DEF WalkTakes, RQ!Pop, IsFirstLevel, RQ!IsFirstLevel
    <2>3. QED
        BY <2>1, <2>2 DEF RQ!Next
<1>6. ASSUME WalkEnds PROVE RQ!Next
    <2>1. linked' = linked /\ NoneBetter(stop, linked, data) /\ stop \in 0..N
        BY <1>0, <1>6, SameLinks, WalkPops DEF WalkEnds, TypeOK
    <2>2. RQ!Pop(stop)
        BY <1>6, <2>1 DEF WalkEnds, RQ!Pop, NoneBetter, RQ!NoneBetter
    <2>3. QED
        BY <2>1, <2>2 DEF RQ!Next
<1>7. ASSUME WalkNext \/ pop_first \/ (\E p \in Levels : pop_first_better(p)) \/ UNCHANGED vars
      PROVE  UNCHANGED <<linked, data, out>>
    <2>1. UNCHANGED <<first, next, data, out>>
        BY <1>7 DEF WalkNext, pop_first, pop_first_better, vars
    <2>2. QED
        BY <1>0, <2>1, SameLinks
<1>8. QED
    BY <1>1, <1>2, <1>3, <1>4, <1>5, <1>6, <1>7 DEF Next

\* The linked levels implement the scheduler's view of the ready queue: pops are
\* atomic, best level first, oldest thread first.
THEOREM QueueRefinement == Spec => ImplementsReadyQueue
<1>1. Init => RQ!Init
    BY QueueAssumption DEF Init, RQ!Init, RQ!Levels, Levels, linked, Unlinked
<1>2. QED
    BY <1>1, InitInv, NextInv, NextRefines, PTL DEF Spec, ImplementsReadyQueue, RQ!Spec
=============================================================================
