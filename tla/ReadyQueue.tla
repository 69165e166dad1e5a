------------------------------ MODULE ReadyQueue ------------------------------
(***************************************************************************)
(* What Common::ThreadQueueList promises to the scheduler, as operators on *)
(* its value: the set of levels that have been prepared, and one FIFO      *)
(* queue per level.  Level 0 is the best.  ThreadQueueList.tla shows that  *)
(* the linked levels of the code compute the same.                         *)
(***************************************************************************)
EXTENDS Integers, Sequences

\* The index of the first occurrence of x in s.
FirstIndex(s, x) == CHOOSE i \in DOMAIN s : s[i] = x /\ \A j \in 1..(i - 1) : s[j] # x

\* remove(): no level holds a thread twice, so that dropping the first
\* occurrence drops them all.
Without(s, x) ==
    IF \E i \in DOMAIN s : s[i] = x
    THEN [i \in 1..(Len(s) - 1) |-> IF i < FirstIndex(s, x) THEN s[i] ELSE s[i + 1]]
    ELSE s

\* The level pop_first takes from: the best prepared one that is not empty.
IsFirstLevel(p, prepared, data) ==
    /\ p \in prepared /\ data[p] # <<>>
    /\ \A q \in prepared : q < p => data[q] = <<>>

\* pop_first_better(limit) has nothing to offer.
NoneBetter(limit, prepared, data) ==
    \A p \in prepared : p < limit => data[p] = <<>>
=============================================================================
