---------------------------- MODULE WaitingThreads -----------------------------
(***************************************************************************)
(* What IPC sessions and address arbiters see of threads: their status and *)
(* the wakeup that WakeAfterDelay has scheduled for them.  Which of the    *)
(* threads that may run does run, and when, is left open.                  *)
(***************************************************************************)
EXTENDS Naturals, Sequences, FiniteSets

CONSTANTS
    Clients,            \* threads of a process that connects to a port
    Servers             \* threads of the process that serves it

Threads == Clients \cup Servers

VARIABLES
    status,     \* "run" (Ready or Running), "ipc", "sync", "arb" or "dead"
    wakeup      \* threads with a wakeup event

threadVars == <<status, wakeup>>

\* A thread that was resumed before its wakeup is Ready until SwitchContext cancels that.
CanRun(t) == status[t] = "run" /\ t \notin wakeup

\* ResumeFromWait of several threads; it ignores a dead one.
ResumeFromWait(S) ==
    [t \in Threads |-> IF t \in S /\ status[t] # "dead" THEN "run" ELSE status[t]]

ThreadsInit == status = [t \in Threads |-> "run"] /\ wakeup = {}

SwitchContext(t) ==
    /\ status[t] = "run" /\ t \in wakeup
    /\ wakeup' = wakeup \ {t}
    /\ UNCHANGED status
=============================================================================
