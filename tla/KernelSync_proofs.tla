--------------------------- MODULE KernelSync_proofs ---------------------------
(***************************************************************************)
(* For all threads, cores, priorities and objects: the ready queue holds   *)
(* exactly the ready threads, at their priorities, on their cores, and a   *)
(* core only runs a thread that is neither waiting nor queued.             *)
(***************************************************************************)
EXTENDS KernelSync_actions

(***************************************************************************)
(* A thread that blocks leaves Running, not the ready queue: for this the  *)
(* invariant says what the core whose turn it is may be running.           *)
(***************************************************************************)
SliceInv == left \in SUBSET Cores /\ torun \in SUBSET Cores /\ SliceRunsCurrent

\* The least core of a set of cores is one of them.
LEMMA LeastCore ==
    ASSUME NEW S \in SUBSET Cores, S # {}
    PROVE  Min(S) \in S
BY MinIsLeast, KernelAssumption

\* The thread that makes an SVC is running, or was stopped.
LEMMA SvcThread ==
    ASSUME SliceInv, NEW name, NEW t, Svc(name, t)
    PROVE  Cpu \in torun /\ Cpu \in Cores /\ status[t] \in {"Running", "Dead"}
<1>1. Cpu \in torun
    BY SMTT(60), LeastCore DEF SliceInv, Svc, Cpu
<1>2. QED
    BY <1>1, KernelAssumption DEF SliceInv, SliceRunsCurrent, Settled, Svc

\* WaitSynchronization and SleepThread block a thread that is not queued.
LEMMA BlockInv ==
    ASSUME Inv, SliceInv, NEW t \in Threads,
           \/ \E objs \in WaitLists, all \in BOOLEAN, timed \in BOOLEAN :
                WaitSynchSleeps(t, objs, all, timed)
           \/ \E timed \in BOOLEAN : SleepThread(t, timed)
    PROVE  Inv'
<1>1. /\ status[t] # "Ready"
      /\ UNCHANGED <<nominal, prio, ready, mprio, held, holder, pending, table, waiters, current>>
    BY ZenonT(60), SvcThread DEF WaitSynchSleeps, SleepThread, objVars, queueVars, loopVars
<1>2. \E v \in Statuses \ {"Ready"} : status' = [status EXCEPT ![t] = v]
    BY Zenon DEF WaitSynchSleeps, SleepThread, Statuses, Waiting
<1>3. QueueOK(ready', status', prio')
    <2>1. PICK v \in Statuses \ {"Ready"} : status' = [status EXCEPT ![t] = v]
        BY Zenon, <1>2
    <2>2. QueueOK(ready, [status EXCEPT ![t] = v], prio)
        BY <1>1, OtherStatusOK DEF Inv
    <2>3. QED
        BY <1>1, <2>1, <2>2
<1>4. waitObjs' \in [Threads -> Seq(Objects)] /\ work' \in Seq(CallType)
    <2>1. ASSUME NEW objs \in WaitLists, NEW all \in BOOLEAN, NEW timed \in BOOLEAN,
                 WaitSynchSleeps(t, objs, all, timed)
          PROVE  waitObjs' \in [Threads -> Seq(Objects)] /\ work' \in Seq(CallType)
        <3>1. waitObjs' = [waitObjs EXCEPT ![t] = objs] /\ work' = CallEach("add", objs, t)
            BY ZenonT(60), <2>1 DEF WaitSynchSleeps
        <3>2. objs \in Seq(Objects) /\ "add" \in Ops
            BY KernelAssumption DEF Ops
        <3>3. work' \in Seq(CallType)
            BY <3>1, <3>2, CallsOfType
        <3>4. waitObjs' \in [Threads -> Seq(Objects)]
            BY <3>1, <3>2 DEF Inv, WaitTypes
        <3>5. QED
            BY SMTT(60), <3>3, <3>4
    <2>2. ASSUME NEW timed \in BOOLEAN, SleepThread(t, timed)
          PROVE  waitObjs' \in [Threads -> Seq(Objects)] /\ work' \in Seq(CallType)
        BY <2>2 DEF SleepThread, Inv, WaitTypes
    <2>3. QED
        BY <2>1, <2>2
<1>5. QED
    BY ZenonT(60), <1>1, <1>3, <1>4 DEF Inv, BoostTypes, WaitTypes, CurrentOK

\* SwitchContext takes the next thread out of the queue and puts the one that
\* ran back.
LEMMA SwitchOK ==
    ASSUME Inv, NEW c \in Cores, NEW p \in Prios, ready[c][p] # <<>>, SwitchTo(c, p), UNCHANGED prio
    PROVE  /\ QueueOK(ready', status', prio') /\ CurrentOK'
           /\ \E next \in Threads :
                /\ status[next] = "Ready" /\ CoreOf[next] = c /\ status'[next] = "Running"
                /\ current' = [current EXCEPT ![c] = next]
                /\ \A u \in Threads : u # next /\ u # current[c] => status'[u] = status[u]
<1> DEFINE next == Head(ready[c][p])
           prev == current[c]
           rest == [ready EXCEPT ![c][p] = Tail(ready[c][p])]
           st   == [status EXCEPT ![next] = "Running"]
<1>1. "Running" \in Statuses /\ "Running" # "Ready" /\ QueueOK(ready, status, prio)
    BY DEF Statuses, Inv
<1>2. next \in Threads /\ status[next] = "Ready" /\ CoreOf[next] = c /\ QueueOK(rest, st, prio)
    <2>1. next = Head(ready[c][p])
        OBVIOUS
    <2> HIDE DEF next
    <2>2. QED
        BY <1>1, <2>1, PopOK
<1>3. /\ ready' = IF IsRunning(c) THEN PushFront(rest, prev) ELSE rest
      /\ status' = [u \in Threads |-> CASE u = next -> "Running"
                                        [] IsRunning(c) /\ u = prev -> "Ready"
                                        [] OTHER -> status[u]]
      /\ current' = [current EXCEPT ![c] = next]
    BY DEF SwitchTo
<1> HIDE DEF next, rest
<1>4. CurrentOK'
    <2>1. current' \in [Cores -> Threads \cup {NoThread}]
        BY SMTT(60), <1>2, <1>3 DEF Inv, CurrentOK
    <2>2. ASSUME NEW d \in Cores, current'[d] # NoThread PROVE CoreOf[current'[d]] = d
        <3>1. CASE d = c
            BY <1>2, <1>3, <3>1 DEF Inv, CurrentOK
        <3>2. CASE d # c
            BY <1>3, <2>2, <3>2 DEF Inv, CurrentOK
        <3>3. QED
            BY <3>1, <3>2
    <2>3. QED
        BY <2>1, <2>2 DEF CurrentOK
<1>5. QueueOK(ready', status', prio')
    <2>1. CASE ~IsRunning(c)
        <3>1. status' = st /\ ready' = rest
            BY ZenonT(60), <1>3, <2>1, <1>1 DEF QueueOK
        <3>2. QED
            BY <1>2, <3>1
    <2>2. CASE IsRunning(c)
        <3>1. prev \in Threads /\ CoreOf[prev] = c /\ status[prev] = "Running" /\ prev # next
            BY <1>2, <2>2 DEF IsRunning, Inv, CurrentOK
        <3>2. st[prev] # "Ready" /\ status' = [st EXCEPT ![prev] = "Ready"]
            BY ZenonT(60), <1>1, <1>2, <1>3, <2>2, <3>1 DEF QueueOK
        <3>3. prio[prev] \in Prios /\ [prio EXCEPT ![prev] = prio[prev]] = prio
            BY <1>1, <3>1 DEF QueueOK
        <3> DEFINE s == <<prev>> \o rest[CoreOf[prev]][prio[prev]]
        <3>4. ready' = [rest EXCEPT ![CoreOf[prev]][prio[prev]] = s]
            BY <1>3, <2>2 DEF PushFront
        <3>5. s = <<prev>> \o rest[CoreOf[prev]][prio[prev]]
            OBVIOUS
        <3> HIDE DEF s, st, prev
        <3>6. QueueOK([rest EXCEPT ![CoreOf[prev]][prio[prev]] = s], [st EXCEPT ![prev] = "Ready"],
                      [prio EXCEPT ![prev] = prio[prev]])
            BY ZenonT(60), <1>2, <3>1, <3>2, <3>3, <3>5, PushOK
        <3>7. QED
            BY <3>2, <3>3, <3>4, <3>6
    <2>3. QED
        BY <2>1, <2>2
<1>6. status'[next] = "Running" /\ \A u \in Threads : u # next /\ u # current[c] => status'[u] = status[u]
    <2> DEFINE f(u) == CASE u = next -> "Running"
                          [] IsRunning(c) /\ u = prev -> "Ready"
                          [] OTHER -> status[u]
    <2>1. status' = [u \in Threads |-> f(u)]
        BY <1>3
    <2>2. f(next) = "Running" /\ \A u \in Threads : u # next /\ u # current[c] => f(u) = status[u]
        BY <1>2 DEF IsRunning
    <2> HIDE DEF f
    <2>3. QED
        BY <1>2, <2>1, <2>2
<1>7. QED
    BY ZenonT(60), <1>2, <1>3, <1>4, <1>5, <1>6

\* Reschedule.
LEMMA RescheduleInv ==
    ASSUME Inv, SliceInv, Reschedule
    PROVE  Inv'
<1> DEFINE c == Min(left)
<1>1. /\ c \in Cores /\ RescheduleCore(c)
      /\ UNCHANGED <<nominal, prio, mprio, held, holder, pending, table, waitObjs, waiters, work>>
    BY SMTT(60), LeastCore DEF Reschedule, SliceInv, objVars
<1> HIDE DEF c
<1>2. QueueOK(ready', status', prio') /\ CurrentOK'
    <2>1. CASE UNCHANGED <<ready, status, current>>
        BY <1>1, <2>1 DEF Inv, CurrentOK
    <2>2. CASE UNCHANGED <<ready, status>> /\ current' = [current EXCEPT ![c] = NoThread]
        BY SMTT(60), <1>1, <2>2 DEF Inv, CurrentOK
    <2>3. ASSUME NEW p \in Prios, IsFirstLevel(p, prepared[c], ready[c]), SwitchTo(c, p)
          PROVE  QueueOK(ready', status', prio') /\ CurrentOK'
        BY ZenonT(60), <1>1, <2>3, SwitchOK DEF IsFirstLevel
    <2>4. QED
        BY ZenonT(60), <1>1, <2>1, <2>2, <2>3 DEF RescheduleCore
<1>3. QED
    BY <1>1, <1>2 DEF Inv, BoostTypes, WaitTypes

(***************************************************************************)
(* What the cores run.                                                     *)
(***************************************************************************)
\* A step between two reschedules that takes no thread out of Running or Dead.
LEMMA SliceKept ==
    ASSUME Inv, SliceInv, UNCHANGED loopVars, halt /\ stage = "run" => halt',
           \A u \in Threads : status[u] \in {"Running", "Dead"} => status'[u] \in {"Running", "Dead"}
    PROVE  SliceInv'
<1>1. ASSUME NEW c \in Cores, Settled(c) PROVE Settled(c)'
    BY SMTT(60), <1>1 DEF Settled, Inv, CurrentOK, loopVars
<1>2. QED
    BY ZenonT(60), <1>1 DEF SliceInv, SliceRunsCurrent, loopVars, Cpu

\* Handlers and SVCs, but for those that block.
LEMMA StepSlice ==
    ASSUME Inv, SliceInv,
           \/ Handler
           \/ \E t \in Threads :
                \/ \E objs \in WaitLists, all \in BOOLEAN : WaitSynchAcquires(t, objs, all)
                \/ \E m \in Mutexes : ReleaseMutex(t, m)
                \/ \E x \in Semaphores, n \in -MaxCount..MaxCount : ReleaseSemaphore(t, x, n)
                \/ \E e \in Events : SignalEvent(t, e) \/ ClearEvent(t, e)
                \/ \E u \in Threads, p \in Prios : SetThreadPriority(t, u, p)
                \/ \E u \in Threads, p \in Prios, tls \in BOOLEAN : CreateThread(t, u, p, tls)
                \/ ExitThread(t)
                \/ \E pr \in Processes : TerminateProcess(t, pr)
    PROVE  SliceInv'
<1>a. ASSUME Handler PROVE UNCHANGED loopVars /\ (PrepareReschedule \/ UNCHANGED halt)
    BY <1>a, Zenon DEF Handler, AcquireMutex, AcquireEvent, AcquireSemaphore, AcquireThread, AddWaitingThread,
           RemoveWaitingThread, UpdatePending, ResumeFromWait, WakeupNext, WakeupDone, StopThread,
           ReleaseOneMutex, ReleaseDone
<1>b. ASSUME NEW t \in Threads, NEW objs \in WaitLists, NEW all \in BOOLEAN, WaitSynchAcquires(t, objs, all)
      PROVE  UNCHANGED loopVars /\ (PrepareReschedule \/ UNCHANGED halt)
    BY <1>b, Zenon DEF WaitSynchAcquires
<1>c. ASSUME NEW t \in Threads, NEW m \in Mutexes, ReleaseMutex(t, m)
      PROVE  UNCHANGED loopVars /\ (PrepareReschedule \/ UNCHANGED halt)
    BY <1>c, Zenon DEF ReleaseMutex
<1>d. ASSUME NEW t \in Threads, NEW u \in Threads, NEW p \in Prios, SetThreadPriority(t, u, p)
      PROVE  UNCHANGED loopVars /\ (PrepareReschedule \/ UNCHANGED halt)
    BY <1>d, Zenon DEF SetThreadPriority
<1>e. ASSUME NEW t \in Threads, NEW u \in Threads, NEW p \in Prios, NEW tls \in BOOLEAN,
             CreateThread(t, u, p, tls)
      PROVE  UNCHANGED loopVars /\ (PrepareReschedule \/ UNCHANGED halt)
    BY <1>e, Zenon DEF CreateThread
<1>f. ASSUME NEW t \in Threads, NEW pr \in Processes, TerminateProcess(t, pr)
      PROVE  UNCHANGED loopVars /\ (PrepareReschedule \/ UNCHANGED halt)
    BY <1>f, Zenon DEF TerminateProcess
<1>h. ASSUME NEW t \in Threads,
             \/ \E x \in Semaphores, n \in -MaxCount..MaxCount : ReleaseSemaphore(t, x, n)
             \/ \E e \in Events : SignalEvent(t, e) \/ ClearEvent(t, e)
             \/ ExitThread(t)
      PROVE  UNCHANGED loopVars /\ (PrepareReschedule \/ UNCHANGED halt)
    BY <1>h, Zenon DEF ReleaseSemaphore, SignalEvent, ClearEvent, ExitThread
<1>1. UNCHANGED loopVars /\ (PrepareReschedule \/ UNCHANGED halt)
    BY <1>a, <1>b, <1>c, <1>d, <1>e, <1>f, <1>h
<1>2. halt /\ stage = "run" => halt'
    BY ZenonT(60), <1>1 DEF PrepareReschedule
<1>3. \/ UNCHANGED status
      \/ \E u \in Threads : /\ status[u] \notin {"Running", "Dead"} \/ StopThread
                            /\ \E v \in {"Ready", "Dormant", "Dead"} :
                                /\ StopThread => v = "Dead"
                                /\ status' = [status EXCEPT ![u] = v]
    <2>1. CASE ResumeFromWait
        <3>1. Head(work).thr \in Threads
            BY ZenonT(60), <2>1, WorkHead DEF ResumeFromWait, Calls
        <3>2. QED
            BY ZenonT(60), <2>1, <3>1 DEF ResumeFromWait, Waiting, StopThread, Calls
    <2>2. CASE StopThread
        <3>1. Head(work).thr \in Threads
            BY ZenonT(60), <2>2, WorkHead DEF StopThread, Calls
        <3>2. QED
            BY ZenonT(60), <2>2, <3>1 DEF StopThread
    <2>3. ASSUME NEW t \in Threads, NEW u \in Threads, NEW p \in Prios, NEW tls \in BOOLEAN,
                 CreateThread(t, u, p, tls)
          PROVE  /\ status[u] = "Free" /\ ~StopThread
                 /\ \E v \in {"Ready", "Dormant"} : status' = [status EXCEPT ![u] = v]
        BY ZenonT(60), <2>3 DEF CreateThread, Svc, StopThread, Calls
    <2>4. CASE /\ ~ResumeFromWait /\ ~StopThread
               /\ \A t, u \in Threads, p \in Prios, tls \in BOOLEAN : ~CreateThread(t, u, p, tls)
        BY ZenonT(60), <2>4 DEF Handler, AcquireMutex, AcquireEvent, AcquireSemaphore, AcquireThread,
               AddWaitingThread, RemoveWaitingThread, UpdatePending, WakeupNext, WakeupDone,
               ReleaseOneMutex, ReleaseDone, WaitSynchAcquires, ReleaseMutex, ReleaseSemaphore,
               SignalEvent, ClearEvent, SetThreadPriority, ExitThread, TerminateProcess, threadVars
    <2>5. QED
        BY <2>1, <2>2, <2>3, <2>4
<1>4. \A u \in Threads : status[u] \in {"Running", "Dead"} => status'[u] \in {"Running", "Dead"}
    BY <1>3 DEF Inv, QueueOK
<1>5. QED
    BY ZenonT(60), <1>1, <1>2, <1>4, SliceKept

\* A thread that blocks is halted.
LEMMA BlockSlice ==
    ASSUME Inv, SliceInv, NEW t \in Threads,
           \/ \E objs \in WaitLists, all \in BOOLEAN, timed \in BOOLEAN :
                WaitSynchSleeps(t, objs, all, timed)
           \/ \E timed \in BOOLEAN : SleepThread(t, timed)
    PROVE  SliceInv'
<1>1. /\ stage = "run" /\ t = current[Cpu] /\ halt' /\ UNCHANGED loopVars
      /\ \A u \in Threads \ {t} : status'[u] = status[u]
    BY ZenonT(60) DEF WaitSynchSleeps, SleepThread, Svc, PrepareReschedule, Inv, QueueOK
<1>2. Cpu \in Cores
    BY ZenonT(60), SvcThread DEF WaitSynchSleeps, SleepThread
<1>3. CoreOf[t] = Cpu
    BY <1>1, <1>2, KernelAssumption DEF Inv, CurrentOK
<1>4. ASSUME NEW c \in Cores, c # Cpu, Settled(c) PROVE Settled(c)'
    <2>1. current[c] = NoThread \/ (current[c] \in Threads /\ current[c] # t)
        BY ZenonT(60), <1>3, <1>4, KernelAssumption DEF Inv, CurrentOK
    <2>2. QED
        BY <1>1, <1>4, <2>1 DEF Settled, loopVars
<1>5. Cpu' = Cpu
    BY ZenonT(60), <1>1 DEF Cpu, loopVars
<1>6. QED
    BY ZenonT(60), <1>1, <1>4, <1>5 DEF SliceInv, SliceRunsCurrent, loopVars

\* RunLoop, AdvanceAll, RunCores, EndSlice and the timing callbacks.
LEMMA LoopSlice ==
    ASSUME Inv, SliceInv,
           \/ RunLoop \/ AdvanceAll \/ RunCores \/ EndSlice
           \/ \E t \in Threads : ThreadWakeupCallback(t)
    PROVE  SliceInv'
<1>1. UNCHANGED <<status, current>>
    BY Zenon DEF RunLoop, AdvanceAll, RunCores, EndSlice, ThreadWakeupCallback, threadVars
<1>2. \A c \in Cores : Settled(c)' <=> Settled(c)
    BY <1>1 DEF Settled
<1>3. CASE RunLoop
    <2>1. PICK late \in SUBSET Cores : left' = late /\ \E r \in {{}} \cup {{c} : c \in late} : torun' = r
        BY <1>3 DEF RunLoop
    <2>2. left' \in SUBSET Cores /\ torun' \in SUBSET Cores /\ torun' \ left' = {} /\ stage' = "advance"
        BY <1>3, <2>1 DEF RunLoop
    <2>3. QED
        BY <2>2 DEF SliceInv, SliceRunsCurrent
<1>4. CASE AdvanceAll
    BY <1>4 DEF AdvanceAll, SliceInv, SliceRunsCurrent
<1>5. CASE RunCores
    BY <1>2, <1>5 DEF RunCores, SliceInv, SliceRunsCurrent
<1>6. CASE EndSlice
    <2>1. torun' = torun \ {Cpu} /\ stage = "run" /\ stage' \in {"run", "end"} /\ left' \in SUBSET Cores
        BY <1>6 DEF EndSlice, SliceInv
    <2>2. \A c \in torun' : Settled(c)'
        BY <1>2, <2>1 DEF SliceInv, SliceRunsCurrent
    <2>3. QED
        BY SMTT(60), <2>1, <2>2 DEF SliceInv, SliceRunsCurrent
<1>7. ASSUME NEW t \in Threads, ThreadWakeupCallback(t) PROVE SliceInv'
    <2>1. stage = "advance" /\ stage' \in {"advance", "thrown"} /\ UNCHANGED <<left, torun>>
        BY <1>7 DEF ThreadWakeupCallback
    <2>2. QED
        BY SMTT(60), <1>2, <2>1 DEF SliceInv, SliceRunsCurrent
<1>8. QED
    BY <1>3, <1>4, <1>5, <1>6, <1>7

\* Reschedule settles the core it is called for and leaves the others alone.
LEMMA RescheduleSlice ==
    ASSUME Inv, SliceInv, Reschedule
    PROVE  SliceInv'
<1>1. PICK c \in Cores : /\ c \in left /\ RescheduleCore(c) /\ stage \in {"advance", "end"}
                         /\ left' = left \ {c} /\ UNCHANGED <<stage, torun, prio>>
    BY SMTT(60), LeastCore DEF Reschedule, SliceInv
<1>2. Settled(c)' /\ \A d \in Cores \ {c} : Settled(d) => Settled(d)'
    <2>1. CASE IsRunning(c) /\ UNCHANGED <<status, current>>
        BY SMTT(60), <2>1 DEF Settled, IsRunning
    <2>2. CASE UNCHANGED status /\ current' = [current EXCEPT ![c] = NoThread]
        BY <1>1, <2>2 DEF Settled, Inv, CurrentOK
    <2>3. ASSUME NEW p \in Prios, IsFirstLevel(p, prepared[c], ready[c]), SwitchTo(c, p)
          PROVE  Settled(c)' /\ \A d \in Cores \ {c} : Settled(d) => Settled(d)'
        <3>1. PICK next \in Threads :
                /\ status[next] = "Ready" /\ CoreOf[next] = c /\ status'[next] = "Running"
                /\ current' = [current EXCEPT ![c] = next]
                /\ \A u \in Threads : u # next /\ u # current[c] => status'[u] = status[u]
            BY ZenonT(60), <1>1, <2>3, SwitchOK DEF IsFirstLevel
        <3>2. Settled(c)'
            BY <1>1, <3>1 DEF Settled, Inv, CurrentOK
        <3>3. ASSUME NEW d \in Cores \ {c}, Settled(d) PROVE Settled(d)'
            <4>1. current'[d] = current[d]
                BY SMTT(60), <1>1, <3>1 DEF Inv, CurrentOK
            <4>2. CASE current[d] # NoThread
                <5>1. current[d] \in Threads /\ current[d] # next /\ current[d] # current[c]
                    BY <1>1, <3>1, <4>2 DEF Inv, CurrentOK
                <5>2. QED
                    BY <3>1, <3>3, <4>1, <5>1 DEF Settled
            <4>3. QED
                BY SMTT(60), <4>1, <4>2 DEF Settled
        <3>4. QED
            BY <3>2, <3>3
    <2>4. QED
        BY ZenonT(60), <1>1, <2>1, <2>2, <2>3 DEF RescheduleCore
<1>3. QED
    BY <1>1, <1>2 DEF SliceInv, SliceRunsCurrent

(***************************************************************************)
(* The theorems.                                                           *)
(***************************************************************************)
IInv == Inv /\ SliceInv

\* Emulation starts with the main thread in the queue, or asleep.
LEMMA InitIInv == Init => IInv
<1> SUFFICES ASSUME Init PROVE IInv
    OBVIOUS
<1>1. BoostTypes
    <2>1. Lowest \in Prios
        BY KernelAssumption DEF Prios
    <2>2. QED
        BY ZenonT(60), <2>1, KernelAssumption DEF Init, BoostTypes
<1>2. WaitTypes
    BY KernelAssumption DEF Init, WaitTypes
<1>3. CurrentOK
    BY DEF Init, CurrentOK
<1>4. QueueOK(ready, status, prio)
    <2>1. PICK delayed \in BOOLEAN :
            /\ status = [t \in Threads |-> IF t # MainThread THEN "Free"
                                           ELSE IF delayed THEN "WaitSleep" ELSE "Ready"]
            /\ ready = [c \in Cores |-> [p \in Prios |->
                           IF c = CoreOf[MainThread] /\ p = MainPriority /\ ~delayed
                           THEN <<MainThread>> ELSE <<>>]]
        BY Zenon DEF Init
    <2>2. status \in [Threads -> Statuses] /\ prio \in [Threads -> Prios]
        BY <2>1, KernelAssumption DEF Init, Statuses
    <2>3. ready \in [Cores -> [Prios -> Seq(Threads)]]
        BY SMTT(60), <2>1, KernelAssumption
    <2>4. ASSUME NEW c \in Cores, NEW p \in Prios
          PROVE  IsQueueOf(ready[c][p], ReadyAt(c, p, status, prio))
        <3>1. CASE c = CoreOf[MainThread] /\ p = MainPriority /\ ~delayed
            <4>1. ready[c][p] = <<MainThread>>
                BY SMTT(60), <2>1, <3>1
            <4>2. ReadyAt(c, p, status, prio) = {MainThread}
                BY <2>1, <3>1, KernelAssumption DEF ReadyAt, Init
            <4>3. MainThread \in Threads
                BY KernelAssumption
            <4>4. IsQueueOf(<<MainThread>>, {MainThread})
                BY <4>3 DEF IsQueueOf
            <4>5. QED
                BY <4>1, <4>2, <4>4
        <3>2. CASE ~(c = CoreOf[MainThread] /\ p = MainPriority /\ ~delayed)
            <4>1. ready[c][p] = <<>>
                BY SMTT(60), <2>1, <3>2
            <4>2. ReadyAt(c, p, status, prio) = {}
                BY <2>1, <3>2 DEF ReadyAt, Init
            <4>3. IsQueueOf(<<>>, {})
                BY DEF IsQueueOf
            <4>4. QED
                BY <4>1, <4>2, <4>3
        <3>3. QED
            BY ZenonT(60), <3>1, <3>2
    <2>5. QED
        BY <2>2, <2>3, <2>4 DEF QueueOK
<1>5. SliceInv
    BY DEF Init, SliceInv, SliceRunsCurrent
<1>6. QED
    BY <1>1, <1>2, <1>3, <1>4, <1>5 DEF IInv, Inv

\* Every step keeps the invariant.
LEMMA NextIInv == IInv /\ [Next]_vars => IInv'
<1> SUFFICES ASSUME Inv, SliceInv, [Next]_vars PROVE Inv' /\ SliceInv'
    BY DEF IInv
<1>1. CASE Handler
    <2>1. SliceInv'
        BY SMTT(60), <1>1, StepSlice
    <2>2. Inv'
        BY <1>1, AcquireMutexInv, SimpleCallsInv, WaitListInv, ResumeInv, PlansInv, StopInv,
           ReleaseAllInv DEF Handler
    <2>3. QED
        BY <2>1, <2>2
<1>2. CASE RunLoop \/ AdvanceAll \/ RunCores \/ EndSlice
    <2>1. SliceInv'
        BY SMTT(60), <1>2, LoopSlice
    <2>2. UNCHANGED <<status, prio, ready, nominal, mprio, held, holder, pending, table, waitObjs,
                      waiters, current, work>>
        BY ZenonT(60), <1>2 DEF RunLoop, AdvanceAll, RunCores, EndSlice, threadVars, objVars, queueVars
    <2>3. work' \in Seq(CallType)
        BY <2>2 DEF Inv, WaitTypes
    <2>4. QED
        BY <2>1, <2>2, <2>3, PlanOK
<1>3. CASE Reschedule
    BY <1>3, RescheduleInv, RescheduleSlice
<1>4. ASSUME NEW t \in Threads, ThreadWakeupCallback(t) PROVE Inv' /\ SliceInv'
    BY <1>4, PlansInv, LoopSlice
<1>5. ASSUME NEW t \in Threads, Program(t) PROVE Inv' /\ SliceInv'
    <2>1. CASE \/ \E objs \in WaitLists, all \in BOOLEAN, timed \in BOOLEAN :
                    WaitSynchSleeps(t, objs, all, timed)
               \/ \E timed \in BOOLEAN : SleepThread(t, timed)
        BY <2>1, BlockInv, BlockSlice
    <2>2. CASE \/ \E objs \in WaitLists, all \in BOOLEAN : WaitSynchAcquires(t, objs, all)
               \/ \E x \in Semaphores, n \in -MaxCount..MaxCount : ReleaseSemaphore(t, x, n)
               \/ \E e \in Events : SignalEvent(t, e) \/ ClearEvent(t, e)
               \/ ExitThread(t)
        BY <2>2, PlansInv, StepSlice
    <2>3. CASE \E m \in Mutexes : ReleaseMutex(t, m)
        BY <2>3, ReleaseMutexInv, StepSlice
    <2>4. CASE \/ \E u \in Threads, p \in Prios : SetThreadPriority(t, u, p)
               \/ \E u \in Threads, p \in Prios, tls \in BOOLEAN : CreateThread(t, u, p, tls)
        BY <2>4, SetPriorityInv, CreateInv, StepSlice
    <2>5. CASE \E pr \in Processes : TerminateProcess(t, pr)
        BY <2>5, TerminateInv, StepSlice
    <2>6. QED
        BY ZenonT(60), <1>5, <2>1, <2>2, <2>3, <2>4, <2>5 DEF Program
<1>6. CASE UNCHANGED vars
    <2>1. UNCHANGED <<status, prio, ready, nominal, mprio, held, holder, pending, table, waitObjs,
                      waiters, current, work>> /\ UNCHANGED loopVars /\ UNCHANGED halt
        BY <1>6 DEF vars, threadVars, objVars, queueVars, loopVars
    <2>2. work' \in Seq(CallType)
        BY SMTT(60), <2>1 DEF Inv, WaitTypes
    <2>3. QED
        BY <2>1, <2>2, PlanOK, SliceKept
<1>7. QED
    BY <1>1, <1>2, <1>3, <1>4, <1>5, <1>6 DEF Next, Loop

\* The invariant says what the scheduler needs of its queue.
LEMMA QueueOKImplies == Inv => ReadyQueueConsistent
<1> SUFFICES ASSUME Inv PROVE ReadyQueueConsistent
    OBVIOUS
<1>1. ASSUME NEW c \in Cores, NEW p \in Prios
      PROVE  IsQueueOf(ready[c][p], ReadyAt(c, p, status, prio))
    BY SMTT(60) DEF Inv, QueueOK
<1>2. ASSUME NEW c \in Cores, NEW p \in Prios, NEW i \in DOMAIN ready[c][p]
      PROVE  LET t == ready[c][p][i]
             IN  /\ status[t] = "Ready" /\ prio[t] = p /\ CoreOf[t] = c
                 /\ \A j \in DOMAIN ready[c][p] : ready[c][p][j] = t => j = i
    <2>1. PICK s : s = ready[c][p]
        OBVIOUS
    <2>2. IsQueueOf(s, ReadyAt(c, p, status, prio))
        BY <1>1, <2>1, Zenon
    <2>3. s[i] \in ReadyAt(c, p, status, prio) /\ \A j \in DOMAIN s : s[j] = s[i] => j = i
        BY <1>2, <2>1, <2>2, ZenonT(60) DEF IsQueueOf
    <2>4. status[s[i]] = "Ready" /\ prio[s[i]] = p /\ CoreOf[s[i]] = c
        BY <2>3, Zenon DEF ReadyAt
    <2>5. QED
        BY <2>1, <2>3, <2>4, Zenon
<1>3. ASSUME NEW t \in Threads, status[t] = "Ready"
      PROVE  \E i \in DOMAIN ready[CoreOf[t]][prio[t]] : ready[CoreOf[t]][prio[t]][i] = t
    <2>1. CoreOf[t] \in Cores /\ prio[t] \in Prios
        BY KernelAssumption DEF Inv, QueueOK
    <2>2. t \in ReadyAt(CoreOf[t], prio[t], status, prio)
        BY <1>3 DEF ReadyAt
    <2>3. QED
        BY ZenonT(60), <1>1, <2>1, <2>2 DEF IsQueueOf
<1>4. QED
    BY ZenonT(60), <1>2, <1>3 DEF ReadyQueueConsistent

\* ready_queue holds exactly the ready threads, each once, at its priority and
\* on its core, whatever the programs and the timing do.
THEOREM QueueOfReadyThreads == Spec => []ReadyQueueConsistent
<1>1. IInv => ReadyQueueConsistent
    BY QueueOKImplies DEF IInv
<1>2. QED
    BY <1>1, InitIInv, NextIInv, PTL DEF Spec

\* A core never runs a thread that is waiting or queued: a thread that blocks is
\* halted before its next SVC, and no other core or callback can take it back.
THEOREM CoresRunSettledThreads == Spec => []SliceRunsCurrent
<1>1. IInv => SliceRunsCurrent
    BY DEF IInv, SliceInv
<1>2. QED
    BY <1>1, InitIInv, NextIInv, PTL DEF Spec
=============================================================================
