------------------------------ MODULE ThreadWaits ------------------------------
(***************************************************************************)
(* A client process, whose threads share sessions and an address arbiter,  *)
(* and a server process: the two kinds of waits together with timeouts,    *)
(* context switches and the termination of either process.                 *)
(***************************************************************************)
EXTENDS Sessions, AddressArbiter

vars == <<threadVars, sessionVars, arbiterVars>>

Init == ThreadsInit /\ SessionsInit /\ ArbiterInit

\* ThreadWakeupCallback.
Timeout(t) ==
    /\ t \in wakeup
    /\ wakeup' = wakeup \ {t}
    /\ status' = ResumeFromWait({t})
    /\ IF status[t] = "arb" THEN WakeUp(t) ELSE UNCHANGED arbiterVars
    /\ UNCHANGED sessionVars

\* TerminateProcess: Thread::Stop of all its threads, which neither a session nor an arbiter
\* hears of.  The handles are closed later, when nothing refers to the process any more.
Terminate(process) ==
    /\ \E t \in process : status[t] # "dead"
    /\ status' = [t \in Threads |-> IF t \in process THEN "dead" ELSE status[t]]
    /\ wakeup' = wakeup \ process
    /\ wait_objects' = [t \in Servers |-> IF t \in process THEN {} ELSE wait_objects[t]]
    /\ UNCHANGED <<client, handle, pending_sessions, pending, handling, asked, left, arbiterVars>>
    /\ ServersDestroyed

Next ==
    \/ Ipc /\ UNCHANGED arbiterVars
    \/ ArbitrateAddress /\ UNCHANGED sessionVars
    \/ \E t \in Threads : SwitchContext(t) /\ UNCHANGED <<sessionVars, arbiterVars>>
    \/ \E t \in Threads : Timeout(t)
    \/ Terminate(Clients) \/ Terminate(Servers)

Spec == Init /\ [][Next]_vars
=============================================================================
