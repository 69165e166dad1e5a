---------------------------- MODULE ReadyQueueSpec ----------------------------
(***************************************************************************)
(* The ready queue as the scheduler sees it: every operation is one step,  *)
(* a pop takes the head of the best prepared level.                        *)
(***************************************************************************)
EXTENDS ReadyQueue

CONSTANTS N, Items, NoItem

Levels == 0..(N - 1)

VARIABLES prepared, data, out

avars == <<prepared, data, out>>

Init ==
    /\ prepared = {} /\ data = [p \in Levels |-> <<>>] /\ out = NoItem

Prepare(p) ==
    /\ prepared' = prepared \cup {p}
    /\ UNCHANGED <<data, out>>

Push(p, s) ==
    /\ p \in prepared
    /\ data' = [data EXCEPT ![p] = s]
    /\ UNCHANGED <<prepared, out>>

Remove(p, t) ==
    /\ data' = [data EXCEPT ![p] = Without(@, t)]
    /\ UNCHANGED <<prepared, out>>

Move(t, p, q) ==
    /\ prepared' = prepared \cup {q}
    /\ data' = LET d == [data EXCEPT ![p] = Without(@, t)] IN [d EXCEPT ![q] = Append(@, t)]
    /\ UNCHANGED out

\* The head of the best level that is better than limit, or nothing.
Pop(limit) ==
    /\ \/ \E p \in Levels :
            /\ p < limit /\ IsFirstLevel(p, prepared, data)
            /\ out' = Head(data[p])
            /\ data' = [data EXCEPT ![p] = Tail(@)]
       \/ NoneBetter(limit, prepared, data) /\ out' = NoItem /\ UNCHANGED data
    /\ UNCHANGED prepared

Next ==
    \/ \E p \in Levels : Prepare(p)
    \/ \E p \in Levels, t \in Items :
        \/ Remove(p, t) \/ \E q \in Levels : Move(t, p, q)
        \/ Push(p, <<t>> \o data[p]) \/ Push(p, Append(data[p], t))
    \/ \E limit \in 0..N : Pop(limit)

Spec == Init /\ [][Next]_avars
=============================================================================
