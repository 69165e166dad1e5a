--------------------------- MODULE ThreadQueueList ---------------------------
(***************************************************************************)
(* Common::ThreadQueueList: one deque per priority level; the levels that  *)
(* were ever used are linked in order through next_nonempty, so that a pop *)
(* skips the others.  A pop walks the list, one step per level it visits.  *)
(* Pointers are the indexes that ToIndex saves: Null is -2, the tag of a   *)
(* level that was never used is -1.                                        *)
(***************************************************************************)
EXTENDS ReadyQueue

CONSTANTS
    N,          \* NUM_QUEUES
    Items,      \* thread pointers
    NoItem,     \* T()
    MaxLen      \* bound: threads in one level

ASSUME QueueAssumption == N \in Nat \ {0} /\ MaxLen \in Nat /\ NoItem \notin Items

VARIABLES
    first, next, data,
    walk,       \* the pop that is walking: "none", "first" or "better"
    cur, stop,  \* its cursor and where it stops
    out         \* what the last pop returned

vars == <<first, next, data, walk, cur, stop, out>>

Levels   == 0..(N - 1)
Null     == -2
Unlinked == -1
linked   == {p \in Levels : next[p] # Unlinked}

Init ==
    /\ first = Null /\ next = [p \in Levels |-> Unlinked]
    /\ data = [p \in Levels |-> <<>>]
    /\ walk = "none" /\ cur = Null /\ stop = 0 /\ out = NoItem

\* Mutant of prepare.
prepare_CutsTail(p) ==
    IF next[p] # Unlinked
    THEN UNCHANGED <<first, next>>
    ELSE \/ /\ \A i \in 0..(p - 1) : next[i] = Unlinked
            /\ first' = p /\ next' = [next EXCEPT ![p] = first]
         \/ \E i \in 0..(p - 1) :
            /\ next[i] # Unlinked /\ \A j \in (i + 1)..(p - 1) : next[j] = Unlinked
            /\ next' = [next EXCEPT ![p] = Null, ![i] = p]
            /\ UNCHANGED first

\* prepare() and link(): a level used for the first time is linked behind the
\* nearest better one, or becomes the first.
prepare(p) ==
    IF next[p] # Unlinked
    THEN UNCHANGED <<first, next>>
    ELSE \/ /\ \A i \in 0..(p - 1) : next[i] = Unlinked
            /\ first' = p /\ next' = [next EXCEPT ![p] = first]
         \/ \E i \in 0..(p - 1) :
            /\ next[i] # Unlinked /\ \A j \in (i + 1)..(p - 1) : next[j] = Unlinked
            /\ next' = [next EXCEPT ![p] = next[i], ![i] = p]
            /\ UNCHANGED first

(***************************************************************************)
(* The operations.  The scheduler pushes to prepared levels only, and a    *)
(* thread that is not in the queue (LevelsPrepared and                     *)
(* ReadyQueueConsistent of KernelSync).                                    *)
(***************************************************************************)
Idle == walk = "none" /\ UNCHANGED <<walk, cur, stop, out>>
Absent(t) == \A p \in Levels : \A i \in DOMAIN data[p] : data[p][i] # t

Prepare(p) == Idle /\ prepare(p) /\ UNCHANGED data

push_front(p, t) ==
    /\ Idle /\ p \in linked /\ Absent(t) /\ Len(data[p]) < MaxLen
    /\ data' = [data EXCEPT ![p] = <<t>> \o @]
    /\ UNCHANGED <<first, next>>

push_back(p, t) ==
    /\ Idle /\ p \in linked /\ Absent(t) /\ Len(data[p]) < MaxLen
    /\ data' = [data EXCEPT ![p] = Append(@, t)]
    /\ UNCHANGED <<first, next>>

remove(p, t) ==
    /\ Idle
    /\ data' = [data EXCEPT ![p] = Without(@, t)]
    /\ UNCHANGED <<first, next>>

move(t, p, q) ==
    /\ Idle /\ \E i \in DOMAIN data[p] : data[p][i] = t
    /\ p # q => Len(data[q]) < MaxLen
    /\ data' = LET d == [data EXCEPT ![p] = Without(@, t)] IN [d EXCEPT ![q] = Append(@, t)]
    /\ prepare(q)

pop_first ==
    /\ walk = "none" /\ walk' = "first" /\ cur' = first /\ stop' = N
    /\ UNCHANGED <<first, next, data, out>>

\* Mutant of pop_first_better.
pop_first_better_AnyLevel(p) ==
    /\ walk = "none"
    /\ walk' = "better" /\ cur' = first /\ stop' = p
    /\ UNCHANGED <<first, next, data, out>>

\* Called with the level of the running thread, which is linked.
pop_first_better(p) ==
    /\ walk = "none" /\ p \in linked
    /\ walk' = "better" /\ cur' = first /\ stop' = p
    /\ UNCHANGED <<first, next, data, out>>

\* The condition of the loop: cur # nullptr, or cur < stop.
Walking == (walk = "first" /\ cur # Null) \/ (walk = "better" /\ cur < stop)

\* Mutant of WalkTakes.
WalkTakes_Last ==
    /\ Walking /\ data[cur] # <<>>
    /\ out' = data[cur][Len(data[cur])]
    /\ data' = [data EXCEPT ![cur] = SubSeq(@, 1, Len(@) - 1)]
    /\ walk' = "none" /\ cur' = Null /\ stop' = 0
    /\ UNCHANGED <<first, next>>

WalkTakes ==
    /\ Walking /\ data[cur] # <<>>
    /\ out' = Head(data[cur])
    /\ data' = [data EXCEPT ![cur] = Tail(@)]
    /\ walk' = "none" /\ cur' = Null /\ stop' = 0
    /\ UNCHANGED <<first, next>>

WalkNext ==
    /\ Walking /\ data[cur] = <<>>
    /\ cur' = next[cur]
    /\ UNCHANGED <<first, next, data, walk, stop, out>>

WalkEnds ==
    /\ walk # "none" /\ ~Walking
    /\ out' = NoItem
    /\ walk' = "none" /\ cur' = Null /\ stop' = 0
    /\ UNCHANGED <<first, next, data>>

Next ==
    \/ \E p \in Levels :
        \/ Prepare(p) \/ pop_first_better(p)
        \/ \E t \in Items :
            \/ push_front(p, t) \/ push_back(p, t) \/ remove(p, t)
            \/ \E q \in Levels : move(t, p, q)
    \/ pop_first \/ WalkTakes \/ WalkNext \/ WalkEnds

Spec == Init /\ [][Next]_vars

-----------------------------------------------------------------------------
\* q is the least element of S above p, or Null if there is none.
IsNextIn(S, p, q) ==
    \/ q = Null /\ \A r \in S : r <= p
    \/ q \in S /\ q > p /\ \A r \in S : r > p => q <= r

\* Type correctness.
TypeOK ==
    /\ first \in Levels \cup {Null} /\ next \in [Levels -> Levels \cup {Null, Unlinked}]
    /\ data \in [Levels -> Seq(Items)]
    /\ walk \in {"none", "first", "better"} /\ cur \in Levels \cup {Null, Unlinked}
    /\ stop \in 0..N /\ out \in Items \cup {NoItem}

\* The list visits the used levels in order, whatever the order in which they
\* were first used: next_nonempty is the next used level, first the best one.
LevelsLinked ==
    /\ IsNextIn(linked, -1, first)
    /\ \A p \in linked : IsNextIn(linked, p, next[p])

\* No walk dereferences the null pointer or the unlinked tag: pop_first_better
\* compares pointers, and both compare below every level.
NoWildPointer == Walking => cur \in linked

\* A walk stands at a linked level with only empty levels before it, or past all.
WalkInvariant ==
    walk # "none" =>
        /\ cur = Null \/ cur \in linked
        /\ \A q \in linked : (cur = Null \/ q < cur) => data[q] = <<>>
        /\ walk = "better" => stop \in linked /\ cur \in linked /\ cur <= stop
        /\ walk = "first" => stop = N

\* The whole queue implements the scheduler's view of it, pops being atomic.
RQ == INSTANCE ReadyQueueSpec WITH prepared <- linked
ImplementsReadyQueue == RQ!Spec
=============================================================================
