------------------------------- MODULE HandleMap -------------------------------
(***************************************************************************)
(* What a handle table promises a process: a map from the handles that are *)
(* open to kernel objects, with room for MAX_COUNT of them.  A new handle  *)
(* is none of the open ones; closing a handle leaves the others alone.     *)
(***************************************************************************)
EXTENDS Naturals, FiniteSets

CONSTANTS Handles, Objects, MAX_COUNT

VARIABLE map

Without(h) == [k \in (DOMAIN map) \ {h} |-> map[k]]

Init == map = [h \in {} |-> CHOOSE o \in Objects : TRUE]

Create(h, o) ==
    /\ Cardinality(DOMAIN map) < MAX_COUNT
    /\ h \notin DOMAIN map
    /\ map' = [k \in DOMAIN map \cup {h} |-> IF k = h THEN o ELSE map[k]]

Close(h) == h \in DOMAIN map /\ map' = Without(h)

Clear == map' = [h \in {} |-> CHOOSE o \in Objects : TRUE]

Next ==
    \/ \E h \in Handles, o \in Objects : Create(h, o)
    \/ \E h \in Handles : Close(h)
    \/ Clear

Spec == Init /\ [][Next]_map
=============================================================================
