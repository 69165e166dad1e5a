----------------------------- MODULE MCKernelSync -----------------------------
(***************************************************************************)
(* Small instances of KernelSync.                                          *)
(***************************************************************************)
EXTENDS KernelSync, TLC

CONSTANTS t1, t2, t3, m1, m2, e1, x1, pr1, pr2

OneCore == [t \in Threads |-> 0]
TwoCores == [t \in Threads |-> IF t = t1 THEN 0 ELSE 1]
OneProcess == [t \in Threads |-> pr1]
TwoProcesses == [t \in Threads |-> IF t = t1 THEN pr1 ELSE pr2]
OneShotEvents == [e \in Events |-> "OneShot"]
PulseEvents == [e \in Events |-> "Pulse"]
MutexLists == {<<m1>>, <<m2>>}
EventLists == {<<e1>>}
CoreLists == {<<m1>>, <<e1>>, <<m1, e1>>, <<t2>>}
MixedLists == {<<m1>>, <<m1, e1, x1>>}
\* The main thread is told apart by Init, the others and the mutexes by nothing.
Symmetry == Permutations(Threads \ {t1}) \cup Permutations(Mutexes)
=============================================================================
