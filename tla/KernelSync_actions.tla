-------------------------- MODULE KernelSync_actions ---------------------------
(***************************************************************************)
(* The invariant Inv of the kernel's state, and a lemma for each kind of   *)
(* step: it keeps the types, the current threads and the ready queue.      *)
(***************************************************************************)
EXTENDS KernelSync_queues

(***************************************************************************)
(* The inductive invariant: the types that the priorities depend on, the   *)
(* core of every current thread, and the ready queue.                      *)
(***************************************************************************)
BoostTypes ==
    /\ nominal \in [Threads -> Prios] /\ mprio \in [Mutexes -> Prios]
    /\ held \in [Threads -> SUBSET Mutexes] /\ holder \in [Mutexes -> Threads \cup {NoThread}]

WaitTypes ==
    /\ pending \in [Threads -> SUBSET Mutexes] /\ table \in SUBSET Threads
    /\ waitObjs \in [Threads -> Seq(Objects)] /\ waiters \in [Objects -> Seq(Threads)]
    /\ work \in Seq(CallType)

CurrentOK ==
    /\ current \in [Cores -> Threads \cup {NoThread}]
    /\ \A c \in Cores : current[c] # NoThread => CoreOf[current[c]] = c

Inv == BoostTypes /\ WaitTypes /\ CurrentOK /\ QueueOK(ready, status, prio)

\* The best priority is a priority.
LEMMA BestPriorityType ==
    ASSUME NEW nom \in Prios, NEW mp \in [Mutexes -> Prios], NEW ms \in SUBSET Mutexes
    PROVE  BestPriority(nom, ms, mp) \in Prios
<1> DEFINE S == {nom} \cup {mp[m] : m \in ms}
<1>1. S \in SUBSET Prios /\ S # {}
    OBVIOUS
<1>2. S \in SUBSET Nat
    BY <1>1, KernelAssumption DEF Prios
<1>3. BestPriority(nom, ms, mp) = Min(S)
    BY DEF BestPriority
<1> HIDE DEF S
<1>4. QED
    BY Zenon, <1>1, <1>2, <1>3, MinIsLeast

\* So is the best priority of the waiting threads.
LEMMA WaitersPriorityType ==
    ASSUME prio \in [Threads -> Prios], NEW ws \in Seq(Threads)
    PROVE  Min({Lowest} \cup {prio[w] : w \in ToSet(ws)}) \in Prios
<1> DEFINE S == {Lowest} \cup {prio[w] : w \in ToSet(ws)}
<1>1. ToSet(ws) \subseteq Threads
    BY DEF ToSet
<1>2. Lowest \in Prios
    BY KernelAssumption DEF Prios
<1>3. S \in SUBSET Prios /\ S # {}
    BY <1>1, <1>2
<1>4. S \in SUBSET Nat
    BY <1>3, KernelAssumption DEF Prios
<1> HIDE DEF S
<1>5. Min(S) \in Prios
    BY Zenon, <1>3, <1>4, MinIsLeast
<1>6. QED
    BY <1>5 DEF S

\* Boosting a thread keeps the ready queue.
LEMMA BoostOK ==
    ASSUME NEW t \in Threads, NEW p \in Prios, QueueOK(ready, status, prio), BoostPriority(t, p),
           UNCHANGED status
    PROVE  QueueOK(ready', status', prio')
<1>1. QueueOK(ready', status, prio')
    BY Zenon, ChangePriorityOK DEF BoostPriority
<1>2. QED
    BY <1>1

\* Mutex::UpdatePriority keeps the ready queue and the types.
LEMMA UpdateMutexOK ==
    ASSUME Inv, NEW m \in Mutexes, NEW ws \in Seq(Threads), UpdateMutexPriority(m, ws),
           UNCHANGED <<status, nominal, held, holder>>
    PROVE  QueueOK(ready', status', prio') /\ BoostTypes'
<1> DEFINE best == Min({Lowest} \cup {prio[w] : w \in ToSet(ws)})
           h    == holder[m]
<1>1. best \in Prios
    BY ZenonT(60), WaitersPriorityType DEF Inv, QueueOK
<1>2. CASE h = NoThread \/ best = mprio[m]
    <2>1. UNCHANGED <<mprio, prio, ready>>
        BY <1>2 DEF UpdateMutexPriority, queueVars
    <2>2. QED
        BY <2>1 DEF Inv, BoostTypes
<1>3. CASE ~(h = NoThread \/ best = mprio[m])
    <2>1. /\ mprio' = [mprio EXCEPT ![m] = best]
          /\ BoostPriority(h, BestPriority(nominal[h], held[h], mprio'))
        BY <1>3 DEF UpdateMutexPriority
    <2>2. h \in Threads
        BY <1>3 DEF Inv, BoostTypes
    <2> HIDE DEF best, h
    <2>3. mprio' \in [Mutexes -> Prios]
        BY <1>1, <2>1 DEF Inv, BoostTypes
    <2>4. nominal[h] \in Prios /\ held[h] \in SUBSET Mutexes
        BY <2>2 DEF Inv, BoostTypes
    <2>5. BestPriority(nominal[h], held[h], mprio') \in Prios
        BY <2>3, <2>4, BestPriorityType
    <2>6. QueueOK(ready', status', prio')
        BY <2>1, <2>2, <2>5, BoostOK DEF Inv
    <2>7. QED
        BY <2>3, <2>6 DEF Inv, BoostTypes
<1>4. QED
    BY <1>2, <1>3

\* The calls of a handler are of their type.
LEMMA CallOfType ==
    ASSUME NEW op \in Ops, NEW o \in Objects, NEW t \in Threads, op = "update" => o \in Mutexes
    PROVE  Call(op, o, t) \in CallType
BY DEF Call, CallType

\* So are those over a list of objects.
LEMMA CallsOfType ==
    ASSUME NEW op \in Ops, op # "update", NEW objs \in Seq(Objects), NEW t \in Threads
    PROVE  CallEach(op, objs, t) \in Seq(CallType)
<1>1. Len(objs) \in Nat /\ DOMAIN objs = 1..Len(objs)
    OBVIOUS
<1>2. \A i \in 1..Len(objs) : Call(op, objs[i], t) \in CallType
    BY <1>1, CallOfType
<1>3. CallEach(op, objs, t) \in [1..Len(objs) -> CallType]
    BY <1>1, <1>2 DEF CallEach
<1>4. QED
    BY <1>1, <1>3

\* What a handler still has to do, after the call it makes now.
LEMMA WorkHead ==
    ASSUME Inv, work # <<>>
    PROVE  /\ Tail(work) \in Seq(CallType)
           /\ Head(work).obj \in Objects /\ Head(work).thr \in Threads
           /\ Head(work).op = "update" => Head(work).obj \in Mutexes
<1>1. work \in Seq(CallType)
    BY DEF Inv, WaitTypes
<1>2. Head(work) \in CallType /\ Tail(work) \in Seq(CallType)
    BY <1>1
<1>3. QED
    BY <1>2 DEF CallType

\* A step that only plans calls.
LEMMA PlanOK ==
    ASSUME Inv, work' \in Seq(CallType),
           UNCHANGED <<status, prio, ready, nominal, mprio, held, holder, pending, table, waitObjs,
                       waiters, current>>
    PROVE  Inv'
BY DEF Inv, BoostTypes, WaitTypes, CurrentOK

\* Calls that acquire something other than a mutex, and the end of a wakeup.
LEMMA SimpleCallsInv ==
    ASSUME Inv, AcquireEvent \/ AcquireSemaphore \/ AcquireThread \/ WakeupDone
    PROVE  Inv'
<1>1. /\ work # <<>> /\ work' = Tail(work)
      /\ UNCHANGED <<status, prio, ready, nominal, mprio, held, holder, pending, table, waitObjs,
                     waiters, current>>
    BY SMTT(60) DEF AcquireEvent, AcquireSemaphore, AcquireThread, WakeupDone, Calls, threadVars, queueVars,
           loopVars, objVars
<1>2. QED
    BY <1>1, WorkHead, PlanOK

\* SVCs and callbacks that plan wakeups, acquisitions or removals.
LEMMA PlansInv ==
    ASSUME Inv,
           \/ WakeupNext
           \/ \E t \in Threads : ThreadWakeupCallback(t) \/ ExitThread(t)
           \/ \E t \in Threads, e \in Events : SignalEvent(t, e) \/ ClearEvent(t, e)
           \/ \E t \in Threads, x \in Semaphores, n \in -MaxCount..MaxCount : ReleaseSemaphore(t, x, n)
           \/ \E t \in Threads, objs \in WaitLists, all \in BOOLEAN : WaitSynchAcquires(t, objs, all)
    PROVE  Inv'
<1>1. UNCHANGED <<status, prio, ready, nominal, mprio, held, holder, pending, table, waitObjs,
                  waiters, current>>
    BY Zenon DEF WakeupNext, ThreadWakeupCallback, ExitThread, SignalEvent, ClearEvent, ReleaseSemaphore,
           WaitSynchAcquires, threadVars, queueVars, loopVars, objVars
<1>2. work \in Seq(CallType) /\ Threads \subseteq Objects
    BY DEF Inv, WaitTypes, Objects
<1>3. {"acquire", "remove", "resume", "wakeup", "stop"} \subseteq Ops
    BY DEF Ops
<1>4. CASE WakeupNext
    <2>1. work # <<>> /\ Head(work).obj \in Objects
        BY ZenonT(60), <1>4, WorkHead DEF WakeupNext, Calls
    <2>2. PICK i \in DOMAIN waiters[Head(work).obj] :
            LET o == Head(work).obj
                t == waiters[o][i]
            IN  work' = (IF status[t] = "WaitSynchAll" THEN CallEach("acquire", waitObjs[t], t)
                         ELSE <<Call("acquire", o, t)>>)
                        \o CallEach("remove", waitObjs[t], t)
                        \o <<Call("resume", t, t)>> \o work
        BY ZenonT(60), <1>4 DEF WakeupNext
    <2> DEFINE o == Head(work).obj
               t == waiters[o][i]
               a == IF status[t] = "WaitSynchAll" THEN CallEach("acquire", waitObjs[t], t)
                    ELSE <<Call("acquire", o, t)>>
    <2>3. waiters[o] \in Seq(Threads)
        BY <2>1 DEF Inv, WaitTypes
    <2>4. t \in Threads
        BY SMTT(60), <2>3
    <2>5. work' = a \o CallEach("remove", waitObjs[t], t) \o <<Call("resume", t, t)>> \o work
        BY ZenonT(60), <2>2
    <2> HIDE DEF t, o
    <2>6. waitObjs[t] \in Seq(Objects) /\ o \in Objects /\ t \in Objects
        BY <1>2, <2>1, <2>4 DEF Inv, WaitTypes, o
    <2>7. /\ CallEach("acquire", waitObjs[t], t) \in Seq(CallType)
          /\ CallEach("remove", waitObjs[t], t) \in Seq(CallType)
        BY <1>3, <2>4, <2>6, CallsOfType
    <2>8. Call("acquire", o, t) \in CallType /\ Call("resume", t, t) \in CallType
        BY <1>3, <2>4, <2>6, CallOfType
    <2>9. a \in Seq(CallType) /\ <<Call("resume", t, t)>> \in Seq(CallType)
        BY <2>7, <2>8
    <2> HIDE DEF a
    <2>10. work' \in Seq(CallType)
        BY <1>2, <2>5, <2>7, <2>9
    <2>11. QED
        BY SMTT(60), <1>1, <2>10, PlanOK
<1>5. ASSUME NEW t \in Threads, ThreadWakeupCallback(t) PROVE Inv'
    <2>1. waitObjs[t] \in Seq(Objects) /\ t \in Objects
        BY <1>2 DEF Inv, WaitTypes
    <2>2. CallEach("remove", waitObjs[t], t) \in Seq(CallType) /\ <<Call("resume", t, t)>> \in Seq(CallType)
        BY <1>3, <2>1, CallsOfType, CallOfType
    <2>3. <<>> \in Seq(CallType)
        OBVIOUS
    <2> DEFINE r == IF status[t] \in Waiting THEN CallEach("remove", waitObjs[t], t) ELSE <<>>
    <2>a. r \in Seq(CallType)
        BY SMTT(60), <2>2, <2>3
    <2>b. work' = work \/ work' = r \o <<Call("resume", t, t)>>
        BY <1>5 DEF ThreadWakeupCallback
    <2> HIDE DEF r
    <2>c. r \o <<Call("resume", t, t)>> \in Seq(CallType)
        BY <2>2, <2>a
    <2>4. work' \in Seq(CallType)
        BY <1>2, <2>b, <2>c
    <2>5. QED
        BY <1>1, <2>4, PlanOK
<1>6. ASSUME NEW t \in Threads, ExitThread(t) PROVE Inv'
    <2>1. Call("stop", t, t) \in CallType
        BY <1>2, <1>3, CallOfType
    <2>2. QED
        BY <1>1, <1>6, <2>1, PlanOK DEF ExitThread
<1>7. ASSUME NEW t \in Threads, NEW o \in Objects, work' = <<Call("wakeup", o, t)>> PROVE Inv'
    <2>1. Call("wakeup", o, t) \in CallType
        BY <1>3, CallOfType
    <2>2. QED
        BY <1>1, <1>7, <2>1, PlanOK
<1>8. ASSUME NEW t \in Threads, NEW objs \in WaitLists, NEW all \in BOOLEAN,
             WaitSynchAcquires(t, objs, all)
      PROVE  Inv'
    <2>1. objs \in Seq(Objects)
        BY KernelAssumption
    <2>2. CallEach("acquire", objs, t) \in Seq(CallType)
        BY <1>3, <2>1, CallsOfType
    <2>3. \A i \in DOMAIN objs : Call("acquire", objs[i], t) \in CallType
        BY <1>3, <2>1, CallOfType
    <2>a. \/ work' = CallEach("acquire", objs, t)
          \/ \E i \in DOMAIN objs : work' = <<Call("acquire", objs[i], t)>>
        BY <1>8, Zenon DEF WaitSynchAcquires
    <2>b. \A c \in CallType : <<c>> \in Seq(CallType)
        OBVIOUS
    <2>4. work' \in Seq(CallType)
        BY Zenon, <2>2, <2>3, <2>a, <2>b
    <2>5. QED
        BY <1>1, <2>4, PlanOK
<1>9. ASSUME work' = work PROVE Inv'
    BY <1>1, <1>2, <1>9, PlanOK
<1>10. QED
    BY ZenonT(60), <1>4, <1>5, <1>6, <1>7, <1>8, <1>9 DEF SignalEvent, ClearEvent, ReleaseSemaphore, Objects

\* Mutex::Acquire: a new holder takes over the boost.
LEMMA AcquireMutexInv ==
    ASSUME Inv, AcquireMutex
    PROVE  Inv'
<1> DEFINE m == Head(work).obj
           t == Head(work).thr
<1>1. /\ Tail(work) \in Seq(CallType) /\ t \in Threads /\ m \in Mutexes
    BY WorkHead DEF AcquireMutex, Calls
<1>2. /\ work' = Tail(work)
      /\ UNCHANGED <<status, nominal, pending, table, waitObjs, waiters, current>>
    BY DEF AcquireMutex, threadVars, loopVars
<1>3. CASE lock[m] = 0
    <2>1. /\ mprio' = [mprio EXCEPT ![m] = prio[t]]
          /\ held' = [held EXCEPT ![t] = @ \cup {m}]
          /\ holder' = [holder EXCEPT ![m] = t]
          /\ BoostPriority(t, BestPriority(nominal[t], held'[t], mprio'))
        BY <1>3 DEF AcquireMutex
    <2> HIDE DEF m, t
    <2>2. prio[t] \in Prios /\ nominal[t] \in Prios
        BY <1>1 DEF Inv, BoostTypes, QueueOK
    <2>3. mprio' \in [Mutexes -> Prios]
        BY <1>1, <2>1, <2>2 DEF Inv, BoostTypes
    <2>4. held' \in [Threads -> SUBSET Mutexes]
        BY <1>1, <2>1 DEF Inv, BoostTypes
    <2>5. holder' \in [Mutexes -> Threads \cup {NoThread}]
        BY <1>1, <2>1 DEF Inv, BoostTypes
    <2>6. BestPriority(nominal[t], held'[t], mprio') \in Prios
        BY <1>1, <2>2, <2>3, <2>4, BestPriorityType
    <2>7. QueueOK(ready', status', prio')
        BY <1>1, <1>2, <2>1, <2>6, BoostOK DEF Inv
    <2>8. QED
        BY <1>1, <1>2, <2>3, <2>4, <2>5, <2>7 DEF Inv, BoostTypes, WaitTypes, CurrentOK
<1>4. CASE lock[m] # 0
    <2>1. UNCHANGED <<mprio, held, holder, prio, ready>>
        BY Zenon, <1>4 DEF AcquireMutex, queueVars
    <2>2. QED
        BY <1>1, <1>2, <2>1, PlanOK
<1>5. QED
    BY <1>3, <1>4

\* A list without one of its elements is still a list.
LEMMA WithoutType ==
    ASSUME NEW s \in Seq(Threads), NEW x
    PROVE  Without(s, x) \in Seq(Threads)
<1>1. CASE ~\E i \in DOMAIN s : s[i] = x
    BY <1>1 DEF Without
<1>2. CASE \E i \in DOMAIN s : s[i] = x
    <2>1. Len(s) \in Nat /\ Len(s) > 0 /\ Len(s) - 1 \in Nat /\ DOMAIN s = 1..Len(s)
        BY <1>2
    <2>2. \A i \in 1..(Len(s) - 1) : s[i] \in Threads /\ s[i + 1] \in Threads
        BY <2>1
    <2>3. Without(s, x) \in [1..(Len(s) - 1) -> Threads]
        BY <1>2, <2>2 DEF Without
    <2>4. QED
        BY <2>1, <2>3
<1>3. QED
    BY <1>1, <1>2

\* Joining or leaving a wait list, and being told of a waiter's new priority.
LEMMA WaitListInv ==
    ASSUME Inv, AddWaitingThread \/ RemoveWaitingThread \/ UpdatePending
    PROVE  Inv'
<1> DEFINE o == Head(work).obj
           t == Head(work).thr
<1>1. /\ Tail(work) \in Seq(CallType) /\ t \in Threads /\ o \in Objects
      /\ UpdatePending => o \in Mutexes
    BY WorkHead DEF AddWaitingThread, RemoveWaitingThread, UpdatePending, Calls
<1>2. /\ work' = Tail(work)
      /\ UNCHANGED <<status, nominal, held, holder, table, waitObjs, current>>
    BY DEF AddWaitingThread, RemoveWaitingThread, UpdatePending, threadVars, loopVars, objVars
<1>3. waiters[o] \in Seq(Threads)
    BY SMTT(60), <1>1 DEF Inv, WaitTypes
<1>4. PICK ws \in Seq(Threads) :
        /\ waiters' = [waiters EXCEPT ![o] = ws]
        /\ \/ pending' = pending
           \/ o \in Mutexes /\ pending' = [pending EXCEPT ![t] = @ \cup {o}]
           \/ pending' = [pending EXCEPT ![t] = @ \ {o}]
        /\ (o \in Mutexes /\ UpdateMutexPriority(o, ws)) \/ UNCHANGED <<mprio, prio, ready>>
    <2>1. CASE AddWaitingThread
        <3> DEFINE ws == IF t \in ToSet(waiters[o]) THEN waiters[o] ELSE Append(waiters[o], t)
        <3>1. ws \in Seq(Threads)
            BY <1>1, <1>3
        <3>2. /\ waiters' = [waiters EXCEPT ![o] = ws]
              /\ IF o \in Mutexes
                 THEN /\ pending' = [pending EXCEPT ![t] = @ \cup {o}]
                      /\ UpdateMutexPriority(o, ws)
                 ELSE UNCHANGED <<pending, mprio, queueVars>>
            BY <2>1 DEF AddWaitingThread
        <3> HIDE DEF ws, o, t
        <3>3. QED
            BY <3>1, <3>2, Zenon DEF queueVars
    <2>2. CASE RemoveWaitingThread
        <3>1. Without(waiters[o], t) \in Seq(Threads)
            BY SMTT(60), <1>3, WithoutType
        <3> DEFINE ws == Without(waiters[o], t)
        <3>2. /\ waiters' = [waiters EXCEPT ![o] = ws]
              /\ IF o \in Mutexes
                 THEN /\ pending' = [pending EXCEPT ![t] = @ \ {o}]
                      /\ UpdateMutexPriority(o, ws)
                 ELSE UNCHANGED <<pending, mprio, queueVars>>
            BY <2>2 DEF RemoveWaitingThread
        <3> HIDE DEF ws, o, t
        <3>3. QED
            BY <3>1, <3>2, Zenon DEF queueVars, ws
    <2>3. CASE UpdatePending
        <3>1. waiters' = [waiters EXCEPT ![o] = waiters[o]] /\ pending' = pending
            BY <2>3 DEF UpdatePending, Inv, WaitTypes
        <3>2. o \in Mutexes /\ UpdateMutexPriority(o, waiters[o])
            BY <1>1, <2>3 DEF UpdatePending
        <3>3. QED
            BY ZenonT(60), <1>3, <3>1, <3>2
    <2>4. QED
        BY ZenonT(60), <2>1, <2>2, <2>3
<1> HIDE DEF o, t
<1>5. waiters' \in [Objects -> Seq(Threads)]
    BY <1>1, <1>4 DEF Inv, WaitTypes
<1>6. pending' \in [Threads -> SUBSET Mutexes]
    BY Zenon, <1>1, <1>4 DEF Inv, WaitTypes
<1>7. QueueOK(ready', status', prio') /\ BoostTypes'
    <2>1. CASE o \in Mutexes /\ UpdateMutexPriority(o, ws)
        BY <1>2, <2>1, UpdateMutexOK
    <2>2. CASE UNCHANGED <<mprio, prio, ready>>
        BY <1>2, <2>2 DEF Inv, BoostTypes
    <2>3. QED
        BY <1>4, <2>1, <2>2
<1>8. QED
    BY <1>1, <1>2, <1>5, <1>6, <1>7 DEF Inv, WaitTypes, CurrentOK

\* ResumeFromWait puts a waiting thread in the queue, and no other.
LEMMA ResumeInv ==
    ASSUME Inv, ResumeFromWait
    PROVE  Inv'
<1> DEFINE t == Head(work).thr
<1>1. Tail(work) \in Seq(CallType) /\ t \in Threads
    BY WorkHead DEF ResumeFromWait, Calls
<1>2. /\ work' = Tail(work) /\ waitObjs' = [waitObjs EXCEPT ![t] = <<>>]
      /\ UNCHANGED <<nominal, prio, mprio, held, holder, pending, table, waiters, current>>
    BY DEF ResumeFromWait, loopVars, objVars
<1>3. \/ UNCHANGED <<ready, status>>
      \/ /\ status[t] # "Ready"
         /\ ready' = PushBack(ready, t, prio[t]) /\ status' = [status EXCEPT ![t] = "Ready"]
    BY DEF ResumeFromWait, Waiting
<1> HIDE DEF t
<1>4. prio[t] \in Prios /\ [prio EXCEPT ![t] = prio[t]] = prio
    BY <1>1 DEF Inv, QueueOK
<1>5. QueueOK(ready', status', prio')
    <2>1. CASE UNCHANGED <<ready, status>>
        BY <1>2, <2>1 DEF Inv
    <2>2. CASE /\ status[t] # "Ready"
               /\ ready' = PushBack(ready, t, prio[t]) /\ status' = [status EXCEPT ![t] = "Ready"]
        <3>1. QueueOK(PushBack(ready, t, prio[t]), [status EXCEPT ![t] = "Ready"],
                      [prio EXCEPT ![t] = prio[t]])
            BY ZenonT(60), <1>1, <1>4, <2>2, PushBackOK DEF Inv
        <3>2. QED
            BY <1>2, <1>4, <2>2, <3>1
    <2>3. QED
        BY <1>3, <2>1, <2>2
<1>6. waitObjs' \in [Threads -> Seq(Objects)]
    BY <1>1, <1>2 DEF Inv, WaitTypes
<1>7. QED
    BY <1>1, <1>2, <1>5, <1>6 DEF Inv, BoostTypes, WaitTypes, CurrentOK

\* Thread::Stop takes a ready thread out of the queue.
LEMMA StopInv ==
    ASSUME Inv, StopThread
    PROVE  Inv'
<1> DEFINE t == Head(work).thr
<1>1. Tail(work) \in Seq(CallType) /\ t \in Threads
    BY ZenonT(60), WorkHead DEF StopThread, Calls
<1>2. /\ work' = <<Call("wakeup", t, t)>> \o CallEach("remove", waitObjs[t], t)
                 \o <<Call("release", t, t)>> \o Tail(work)
      /\ ready' = IF status[t] = "Ready" THEN RemoveReady(ready, t) ELSE ready
      /\ status' = [status EXCEPT ![t] = "Dead"]
      /\ table' = table \ {t}
      /\ UNCHANGED <<nominal, prio, mprio, held, holder, pending, waitObjs, waiters, current>>
    BY DEF StopThread, loopVars, objVars
<1> HIDE DEF t
<1>3. QueueOK(ready', status', prio')
    <2>1. "Dead" \in Statuses /\ "Dead" # "Ready"
        BY DEF Statuses
    <2>2. CASE status[t] = "Ready"
        BY Zenon, <1>1, <1>2, <2>1, <2>2, RemoveOK DEF Inv, RemoveReady
    <2>3. CASE status[t] # "Ready"
        BY Zenon, <1>1, <1>2, <2>1, <2>3, OtherStatusOK DEF Inv
    <2>4. QED
        BY <2>2, <2>3
<1>4. t \in Objects /\ waitObjs[t] \in Seq(Objects) /\ {"wakeup", "remove", "release"} \subseteq Ops
    BY <1>1 DEF Inv, WaitTypes, Objects, Ops
<1>5. /\ <<Call("wakeup", t, t)>> \in Seq(CallType) /\ <<Call("release", t, t)>> \in Seq(CallType)
      /\ CallEach("remove", waitObjs[t], t) \in Seq(CallType)
    BY <1>1, <1>4, CallOfType, CallsOfType
<1>6. work' \in Seq(CallType)
    BY <1>1, <1>2, <1>5
<1>7. table' \in SUBSET Threads
    BY <1>2 DEF Inv, WaitTypes
<1>8. QED
    BY <1>2, <1>3, <1>6, <1>7 DEF Inv, BoostTypes, WaitTypes, CurrentOK

\* Letting go of the mutexes of a thread that is stopped.
LEMMA ReleaseAllInv ==
    ASSUME Inv, ReleaseOneMutex \/ ReleaseDone
    PROVE  Inv'
<1> DEFINE t == Head(work).thr
<1>1. work # <<>> /\ Tail(work) \in Seq(CallType) /\ t \in Threads
    BY WorkHead DEF ReleaseOneMutex, ReleaseDone, Calls
<1>2. /\ UNCHANGED <<status, nominal, prio, ready, mprio, pending, table, waiters, current>>
    BY DEF ReleaseOneMutex, ReleaseDone, threadVars, queueVars, loopVars
<1>3. CASE ReleaseOneMutex
    <2>1. PICK m \in held[t] : /\ holder' = [holder EXCEPT ![m] = NoThread]
                               /\ work' = <<Call("wakeup", m, t)>> \o work
        BY ZenonT(60), <1>3 DEF ReleaseOneMutex
    <2>2. UNCHANGED <<held, waitObjs>>
        BY <1>3 DEF ReleaseOneMutex, threadVars
    <2> HIDE DEF t
    <2>3. m \in Mutexes /\ m \in Objects /\ "wakeup" \in Ops
        BY <1>1 DEF Inv, BoostTypes, Objects, Ops
    <2>4. holder' \in [Mutexes -> Threads \cup {NoThread}]
        BY <2>1, <2>3 DEF Inv, BoostTypes
    <2>5. Call("wakeup", m, t) \in CallType
        BY <1>1, <2>3, CallOfType
    <2>6. work' \in Seq(CallType)
        BY <2>1, <2>5 DEF Inv, WaitTypes
    <2>7. QED
        BY <1>2, <2>2, <2>4, <2>6 DEF Inv, BoostTypes, WaitTypes, CurrentOK
<1>4. CASE ReleaseDone
    <2>1. /\ held' = [held EXCEPT ![t] = {}] /\ waitObjs' = [waitObjs EXCEPT ![t] = <<>>]
          /\ work' = Tail(work) /\ UNCHANGED holder
        BY <1>4 DEF ReleaseDone
    <2> HIDE DEF t
    <2>2. held' \in [Threads -> SUBSET Mutexes]
        BY <1>1, <2>1 DEF Inv, BoostTypes
    <2>3. waitObjs' \in [Threads -> Seq(Objects)]
        BY <1>1, <2>1 DEF Inv, WaitTypes
    <2>4. QED
        BY <1>1, <1>2, <2>1, <2>2, <2>3 DEF Inv, BoostTypes, WaitTypes, CurrentOK
<1>5. QED
    BY <1>3, <1>4

\* ReleaseMutex ends the boost.
LEMMA ReleaseMutexInv ==
    ASSUME Inv, NEW t \in Threads, NEW m \in Mutexes, ReleaseMutex(t, m)
    PROVE  Inv'
<1>1. UNCHANGED <<status, nominal, mprio, pending, table, waitObjs, waiters, current>>
    BY DEF ReleaseMutex, threadVars, loopVars
<1>2. CASE lock[m] = 1
    <2>1. /\ held' = [held EXCEPT ![t] = @ \ {m}]
          /\ BoostPriority(t, BestPriority(nominal[t], held'[t], mprio))
          /\ holder' = [holder EXCEPT ![m] = NoThread]
          /\ work' = <<Call("wakeup", m, t)>>
        BY <1>2 DEF ReleaseMutex
    <2>2. held' \in [Threads -> SUBSET Mutexes]
        BY <2>1 DEF Inv, BoostTypes
    <2>3. holder' \in [Mutexes -> Threads \cup {NoThread}]
        BY <2>1 DEF Inv, BoostTypes
    <2>4. BestPriority(nominal[t], held'[t], mprio) \in Prios
        BY <2>2, BestPriorityType DEF Inv, BoostTypes
    <2>5. QueueOK(ready', status', prio')
        BY <1>1, <2>1, <2>4, BoostOK DEF Inv
    <2>6. m \in Objects /\ "wakeup" \in Ops
        BY DEF Objects, Ops
    <2>7. Call("wakeup", m, t) \in CallType
        BY <2>6, CallOfType
    <2>8. work' \in Seq(CallType)
        BY <2>1, <2>7
    <2>9. QED
        BY <1>1, <2>2, <2>3, <2>5, <2>8 DEF Inv, BoostTypes, WaitTypes, CurrentOK
<1>3. CASE lock[m] # 1
    <2>1. UNCHANGED <<held, prio, ready, holder, work>>
        BY <1>3 DEF ReleaseMutex, queueVars
    <2>2. work' \in Seq(CallType)
        BY <2>1 DEF Inv, WaitTypes
    <2>3. QED
        BY <1>1, <2>1, <2>2, PlanOK
<1>4. QED
    BY <1>2, <1>3

\* The orders of a finite set are lists of its elements.
LEMMA OrdersOfType ==
    ASSUME NEW T, IsFiniteSet(T), NEW S \in SUBSET T, NEW s \in SetToSeqs(S)
    PROVE  s \in Seq(T)
<1>1. Cardinality(S) \in Nat
    BY FS_Subset, FS_CardinalityType
<1>2. s \in [1..Cardinality(S) -> T]
    BY SMTT(60) DEF SetToSeqs
<1>3. QED
    BY <1>1, <1>2

\* SetThreadPriority moves a ready thread to its new level.
LEMMA SetPriorityInv ==
    ASSUME Inv, NEW t \in Threads, NEW u \in Threads, NEW p \in Prios, SetThreadPriority(t, u, p)
    PROVE  Inv'
<1> DEFINE best == BestPriority(p, held[u], mprio)
<1>1. /\ ready' = IF status[u] = "Ready" THEN PushBack(RemoveReady(ready, u), u, best) ELSE ready
      /\ prio' = [prio EXCEPT ![u] = best]
      /\ nominal' = [nominal EXCEPT ![u] = p]
      /\ UNCHANGED <<status, mprio, held, holder, pending, table, waitObjs, waiters, current>>
    BY ZenonT(60) DEF SetThreadPriority, objVars, loopVars
<1>2. PICK ms \in SetToSeqs(pending[u]) : work' = CallEach("update", ms, u)
    BY Zenon DEF SetThreadPriority
<1>3. best \in Prios
    BY SMTT(60), BestPriorityType DEF Inv, BoostTypes
<1> HIDE DEF best
<1>4. QueueOK(ready', status', prio')
    BY ZenonT(60), <1>1, <1>3, ChangePriorityOK DEF Inv
<1>5. nominal' \in [Threads -> Prios]
    BY ZenonT(60), <1>1 DEF Inv, BoostTypes
<1>6. ms \in Seq(Mutexes)
    <2>1. pending[u] \in SUBSET Mutexes
        BY DEF Inv, WaitTypes
    <2>2. QED
        BY ZenonT(60), <1>2, <2>1, OrdersOfType, KernelAssumption
<1>7. \A m \in Mutexes : Call("update", m, u) \in CallType
    BY CallOfType DEF Objects, Ops
<1>8. Len(ms) \in Nat /\ DOMAIN ms = 1..Len(ms) /\ \A i \in 1..Len(ms) : ms[i] \in Mutexes
    BY <1>6
<1>9. CallEach("update", ms, u) \in [1..Len(ms) -> CallType]
    BY <1>7, <1>8 DEF CallEach
<1>10. work' \in Seq(CallType)
    BY SMTT(60), <1>2, <1>8, <1>9
<1>11. QED
    BY ZenonT(60), <1>1, <1>4, <1>5, <1>10 DEF Inv, BoostTypes, WaitTypes, CurrentOK

\* CreateThread puts the new thread in the queue, unless it stays Dormant.
LEMMA CreateInv ==
    ASSUME Inv, NEW t \in Threads, NEW u \in Threads, NEW p \in Prios, NEW tls \in BOOLEAN,
           CreateThread(t, u, p, tls)
    PROVE  Inv'
<1>1. /\ status[u] = "Free" /\ table' = table \cup {u}
      /\ prio' = [prio EXCEPT ![u] = p] /\ nominal' = [nominal EXCEPT ![u] = p]
      /\ UNCHANGED <<mprio, held, holder, pending, waitObjs, waiters, current, work>>
    BY DEF CreateThread, objVars, loopVars
<1>2. QueueOK(ready', status', prio')
    <2>1. CASE tls
        <3>1. ready' = PushBack(ready, u, p) /\ status' = [status EXCEPT ![u] = "Ready"]
            BY Zenon, <2>1 DEF CreateThread
        <3>2. QueueOK(PushBack(ready, u, p), [status EXCEPT ![u] = "Ready"], [prio EXCEPT ![u] = p])
            BY ZenonT(60), <1>1, PushBackOK DEF Inv
        <3>3. QED
            BY <1>1, <3>1, <3>2
    <2>2. CASE ~tls
        <3>1. ready' = ready /\ status' = [status EXCEPT ![u] = "Dormant"]
            BY Zenon, <2>2 DEF CreateThread
        <3>2. QueueOK(ready, status, [prio EXCEPT ![u] = p])
            BY Zenon, <1>1, OtherPriorityOK DEF Inv
        <3>3. "Dormant" \in Statuses /\ "Dormant" # "Ready" /\ status[u] # "Ready"
            BY <1>1 DEF Statuses
        <3>4. QueueOK(ready, [status EXCEPT ![u] = "Dormant"], [prio EXCEPT ![u] = p])
            BY Zenon, <3>2, <3>3, OtherStatusOK
        <3>5. QED
            BY <1>1, <3>1, <3>4
    <2>3. QED
        BY <2>1, <2>2
<1>3. nominal' \in [Threads -> Prios] /\ table' \in SUBSET Threads
    BY <1>1 DEF Inv, BoostTypes, WaitTypes
<1>4. QED
    BY SMTT(60), <1>1, <1>2, <1>3 DEF Inv, BoostTypes, WaitTypes, CurrentOK

\* TerminateProcess plans to stop the threads of the process.
LEMMA TerminateInv ==
    ASSUME Inv, NEW t \in Threads, NEW pr \in Processes, TerminateProcess(t, pr)
    PROVE  Inv'
<1> DEFINE victims == {v \in Threads : ProcessOf[v] = pr /\ (v \in table \/ v = current[CoreOf[v]])}
<1>1. PICK s \in SetToSeqs(victims) : work' = [i \in DOMAIN s |-> Call("stop", s[i], s[i])]
    BY ZenonT(60) DEF TerminateProcess
<1>2. victims \in SUBSET Threads
    OBVIOUS
<1> HIDE DEF victims
<1>3. s \in Seq(Threads)
    BY Zenon, <1>1, <1>2, OrdersOfType, KernelAssumption
<1>4. \A v \in Threads : Call("stop", v, v) \in CallType
    BY CallOfType DEF Objects, Ops
<1>5. Len(s) \in Nat /\ DOMAIN s = 1..Len(s) /\ \A i \in 1..Len(s) : s[i] \in Threads
    BY <1>3
<1>6. work' \in [1..Len(s) -> CallType]
    BY <1>1, <1>4, <1>5
<1>7. work' \in Seq(CallType)
    BY SMTT(60), <1>5, <1>6
<1>8. UNCHANGED <<status, prio, ready, nominal, mprio, held, holder, pending, table, waitObjs,
                  waiters, current>>
    BY Zenon DEF TerminateProcess, threadVars, queueVars, loopVars, objVars
<1>9. QED
    BY <1>7, <1>8, PlanOK
================================================================================
