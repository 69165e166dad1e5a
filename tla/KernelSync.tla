------------------------------ MODULE KernelSync ------------------------------
(***************************************************************************)
(* The HLE kernel's threads, scheduler and wait objects: ThreadManager and *)
(* Thread, WaitObject with Mutex, Event, Semaphore and Thread (a thread    *)
(* can be waited for), the SVCs that use them, and the order in which      *)
(* System::RunLoop reschedules and runs the emulated cores.                *)
(*                                                                         *)
(* All of it runs on one host thread.  An SVC or a timing callback that    *)
(* loops over objects or threads leaves the calls it still has to make in  *)
(* work; while work is not empty nothing else happens, so that a handler   *)
(* is atomic for every other actor, and each call is a step of its own.    *)
(***************************************************************************)
EXTENDS ReadyQueue, FiniteSets, FiniteSetsExt, SequencesExt

CONSTANTS
    Threads, Mutexes, Events, Semaphores,
    Cores,          \* core ids: 0..n
    CoreOf,         \* Thread::core_id
    Processes, ProcessOf,
    ResetType,      \* of each event: "OneShot", "Sticky" or "Pulse"
    Lowest,         \* ThreadPrioLowest
    MainThread,     \* the thread that exists when emulation starts
    MainPriority,   \* its priority
    Svcs,           \* the SVCs the emulated programs use
    WaitLists,      \* the object lists they wait for
    MaxLocks,       \* bound: recursive locks of one mutex
    MaxCount        \* max_count of the semaphores; bound: no count falls below -MaxCount

Objects   == Mutexes \cup Events \cup Semaphores \cup Threads
Prios     == 0..Lowest
NoThread  == "none"
Waiting   == {"WaitSynchAny", "WaitSynchAll"}
Statuses  == Waiting \cup {"Free", "Dormant", "Running", "Ready", "WaitSleep", "Dead"}

ASSUME KernelAssumption ==
    /\ Lowest \in Nat /\ MainPriority \in Prios
    /\ Cores \subseteq Nat /\ IsFiniteSet(Cores) /\ Cores # {}
    /\ CoreOf \in [Threads -> Cores] /\ ProcessOf \in [Threads -> Processes]
    /\ ResetType \in [Events -> {"OneShot", "Sticky", "Pulse"}]
    /\ MainThread \in Threads /\ IsFiniteSet(Threads) /\ NoThread \notin Threads
    /\ WaitLists \subseteq Seq(Objects)
    /\ MaxLocks \in Nat \ {0} /\ MaxCount \in Nat \ {0}
    /\ IsFiniteSet(Mutexes)
    /\ Mutexes \cap Threads = {} /\ Events \cap Threads = {} /\ Semaphores \cap Threads = {}
    /\ Mutexes \cap Events = {} /\ Mutexes \cap Semaphores = {} /\ Events \cap Semaphores = {}

VARIABLES
    status,         \* Thread::status ("Free": not created yet)
    nominal,        \* Thread::nominal_priority
    prio,           \* Thread::current_priority
    held,           \* Thread::held_mutexes
    pending,        \* Thread::pending_mutexes
    waitObjs,       \* Thread::wait_objects
    callback,       \* Thread::wakeup_callback is set
    result,         \* what the thread's last wait returned
    table,          \* wakeup_callback_table, and thread_list
    exited,         \* the processes with status Exited
    waiters,        \* WaitObject::waiting_threads
    lock, holder, mprio,    \* Mutex::lock_count, holding_thread, priority
    signaled,       \* Event::signaled
    count,          \* Semaphore::available_count
    taken,          \* history: what a waiting thread has been given
    ready, prepared,        \* ThreadManager::ready_queue of each core
    current,        \* ThreadManager::current_thread of each core
    armed,          \* threads with a ThreadWakeup event in core_timing
    stage, left, torun,     \* where RunLoop is: its stage, cores left in it, cores to run
    halt,           \* the running core's jit was halted
    resched,        \* System::reschedule_pending
    work            \* the calls the current handler still has to make

threadVars == <<status, nominal, callback, result, table, exited, waitObjs>>
objVars    == <<lock, holder, signaled, count, held, taken>>
queueVars  == <<prio, ready, prepared>>
loopVars   == <<stage, left, torun, current>>
vars == <<threadVars, objVars, queueVars, loopVars, mprio, pending, waiters, armed,
          halt, resched, work>>

Call(op, o, t) == [op |-> op, obj |-> o, thr |-> t]
CallEach(op, objs, t) == [i \in DOMAIN objs |-> Call(op, objs[i], t)]

\* SetupMainThread: the application's first thread is ready, or sleeps first
\* when delay_start_for_lle_modules is set.
Init ==
    /\ \E delayed \in BOOLEAN :
        /\ status = [t \in Threads |-> IF t # MainThread THEN "Free"
                                       ELSE IF delayed THEN "WaitSleep" ELSE "Ready"]
        /\ armed = IF delayed THEN {MainThread} ELSE {}
        /\ ready = [c \in Cores |-> [p \in Prios |->
                       IF c = CoreOf[MainThread] /\ p = MainPriority /\ ~delayed
                       THEN <<MainThread>> ELSE <<>>]]
    /\ nominal = [t \in Threads |-> MainPriority] /\ prio = [t \in Threads |-> MainPriority]
    /\ held = [t \in Threads |-> {}] /\ pending = [t \in Threads |-> {}]
    /\ waitObjs = [t \in Threads |-> <<>>]
    /\ callback = [t \in Threads |-> FALSE] /\ result = [t \in Threads |-> "none"]
    /\ table = {MainThread} /\ exited = {} /\ taken = [t \in Threads |-> {}]
    /\ waiters = [o \in Objects |-> <<>>]
    /\ lock = [m \in Mutexes |-> 0] /\ holder = [m \in Mutexes |-> NoThread]
    /\ mprio = [m \in Mutexes |-> Lowest]
    /\ signaled = [e \in Events |-> FALSE] /\ count = [x \in Semaphores |-> 0]
    /\ prepared = [c \in Cores |-> IF c = CoreOf[MainThread] THEN {MainPriority} ELSE {}]
    /\ current = [c \in Cores |-> NoThread]
    /\ stage = "end" /\ left = {} /\ torun = {}
    /\ halt = FALSE /\ resched = FALSE
    /\ work = <<>>

(***************************************************************************)
(* ready_queue and priorities.                                             *)
(***************************************************************************)
RemoveReady(rq, t) == [rq EXCEPT ![CoreOf[t]][prio[t]] = Without(@, t)]
PushBack(rq, t, p) == [rq EXCEPT ![CoreOf[t]][p] = Append(@, t)]
PushFront(rq, t) == [rq EXCEPT ![CoreOf[t]][prio[t]] = <<t>> \o @]

\* Mutant of BoostPriority.
BoostPriority_NoMove(t, p) ==
    /\ ready' = ready
    /\ prepared' = [prepared EXCEPT ![CoreOf[t]] = @ \cup {p}]
    /\ prio' = [prio EXCEPT ![t] = p]

\* Mutant of BoostPriority.
BoostPriority_NoPrepare(t, p) ==
    /\ ready' = IF status[t] = "Ready" THEN PushBack(RemoveReady(ready, t), t, p) ELSE ready
    /\ prepared' = IF status[t] = "Ready"
                   THEN [prepared EXCEPT ![CoreOf[t]] = @ \cup {p}] ELSE prepared
    /\ prio' = [prio EXCEPT ![t] = p]

\* Thread::BoostPriority: move() a ready thread to the back of its new level,
\* prepare() the level for any other.
BoostPriority(t, p) ==
    /\ ready' = IF status[t] = "Ready" THEN PushBack(RemoveReady(ready, t), t, p) ELSE ready
    /\ prepared' = [prepared EXCEPT ![CoreOf[t]] = @ \cup {p}]
    /\ prio' = [prio EXCEPT ![t] = p]

\* The best of a thread's nominal priority and of the mutexes it holds.
BestPriority(nom, ms, mp) == Min({nom} \cup {mp[m] : m \in ms})

\* Mutex::UpdatePriority with ws the mutex's waiting threads.
UpdateMutexPriority(m, ws) ==
    LET best == Min({Lowest} \cup {prio[w] : w \in ToSet(ws)})
        h    == holder[m]
    IN  IF h = NoThread \/ best = mprio[m]
        THEN UNCHANGED <<mprio, queueVars>>
        ELSE /\ mprio' = [mprio EXCEPT ![m] = best]
             /\ BoostPriority(h, BestPriority(nominal[h], held[h], mprio'))

\* KernelSystem::PrepareReschedule
PrepareReschedule ==
    /\ resched' = TRUE
    /\ halt' = (stage = "run")

(***************************************************************************)
(* The calls a handler makes.                                              *)
(***************************************************************************)
Calls(op) == work # <<>> /\ Head(work).op = op

\* The virtual ShouldWait of each kind of object.
ShouldWait(o, t) ==
    CASE o \in Mutexes    -> lock[o] > 0 /\ t # holder[o]
      [] o \in Events     -> ~signaled[o]
      [] o \in Semaphores -> count[o] <= 0
      [] OTHER            -> status[o] # "Dead"

\* A waiting thread acquires o, which is worth something if o is available.
Take(o, t) ==
    taken' = IF status[t] \in Waiting /\ ~ShouldWait(o, t)
             THEN [taken EXCEPT ![t] = @ \cup {o}] ELSE taken

\* Mutex::Acquire
AcquireMutex ==
    /\ Calls("acquire") /\ Head(work).obj \in Mutexes
    /\ LET m == Head(work).obj
           t == Head(work).thr
       IN  /\ lock' = [lock EXCEPT ![m] = @ + 1]
           /\ IF lock[m] = 0
              THEN /\ mprio' = [mprio EXCEPT ![m] = prio[t]]
                   /\ held' = [held EXCEPT ![t] = @ \cup {m}]
                   /\ holder' = [holder EXCEPT ![m] = t]
                   /\ BoostPriority(t, BestPriority(nominal[t], held'[t], mprio'))
                   /\ PrepareReschedule
              ELSE UNCHANGED <<mprio, held, holder, queueVars, halt, resched>>
           /\ Take(m, t)
    /\ work' = Tail(work)
    /\ UNCHANGED <<threadVars, signaled, count, loopVars, pending, waiters, armed>>

\* Event::Acquire
AcquireEvent ==
    /\ Calls("acquire") /\ Head(work).obj \in Events
    /\ LET e == Head(work).obj
       IN  /\ signaled' = [signaled EXCEPT ![e] = @ /\ ResetType[e] # "OneShot"]
           /\ Take(e, Head(work).thr)
    /\ work' = Tail(work)
    /\ UNCHANGED <<threadVars, lock, holder, count, held, queueVars, loopVars, mprio,
                   pending, waiters, armed, halt, resched>>

\* Semaphore::Acquire
AcquireSemaphore ==
    /\ Calls("acquire") /\ Head(work).obj \in Semaphores
    /\ LET x == Head(work).obj
       IN  /\ count' = [count EXCEPT ![x] = IF @ <= 0 THEN @ ELSE @ - 1]
           /\ Take(x, Head(work).thr)
    /\ work' = Tail(work)
    /\ UNCHANGED <<threadVars, lock, holder, signaled, held, queueVars, loopVars, mprio,
                   pending, waiters, armed, halt, resched>>

\* Thread::Acquire takes nothing.
AcquireThread ==
    /\ Calls("acquire") /\ Head(work).obj \in Threads
    /\ Take(Head(work).obj, Head(work).thr)
    /\ work' = Tail(work)
    /\ UNCHANGED <<threadVars, lock, holder, signaled, count, held, queueVars, loopVars, mprio,
                   pending, waiters, armed, halt, resched>>

\* WaitObject::AddWaitingThread and Mutex's override.
AddWaitingThread ==
    /\ Calls("add")
    /\ LET o  == Head(work).obj
           t  == Head(work).thr
           ws == IF t \in ToSet(waiters[o]) THEN waiters[o] ELSE Append(waiters[o], t)
       IN  /\ waiters' = [waiters EXCEPT ![o] = ws]
           /\ IF o \in Mutexes
              THEN /\ pending' = [pending EXCEPT ![t] = @ \cup {o}]
                   /\ UpdateMutexPriority(o, ws)
              ELSE UNCHANGED <<pending, mprio, queueVars>>
    /\ work' = Tail(work)
    /\ UNCHANGED <<threadVars, objVars, loopVars, armed, halt, resched>>

\* WaitObject::RemoveWaitingThread and Mutex's override.
RemoveWaitingThread ==
    /\ Calls("remove")
    /\ LET o  == Head(work).obj
           t  == Head(work).thr
           ws == Without(waiters[o], t)
       IN  /\ waiters' = [waiters EXCEPT ![o] = ws]
           /\ IF o \in Mutexes
              THEN /\ pending' = [pending EXCEPT ![t] = @ \ {o}]
                   /\ UpdateMutexPriority(o, ws)
              ELSE UNCHANGED <<pending, mprio, queueVars>>
    /\ work' = Tail(work)
    /\ UNCHANGED <<threadVars, objVars, loopVars, armed, halt, resched>>

\* A mutex the thread waits for is told of the thread's new priority.
UpdatePending ==
    /\ Calls("update")
    /\ UpdateMutexPriority(Head(work).obj, waiters[Head(work).obj])
    /\ work' = Tail(work)
    /\ UNCHANGED <<threadVars, objVars, loopVars, pending, waiters, armed, halt, resched>>

\* Mutant of ResumeFromWait.
ResumeFromWait_NotSleep ==
    /\ Calls("resume")
    /\ LET t == Head(work).thr
       IN  /\ waitObjs' = [waitObjs EXCEPT ![t] = <<>>]
           /\ taken' = [taken EXCEPT ![t] = {}]
           /\ IF status[t] \in Waiting
              THEN /\ callback' = [callback EXCEPT ![t] = FALSE]
                   /\ ready' = PushBack(ready, t, prio[t])
                   /\ status' = [status EXCEPT ![t] = "Ready"]
                   /\ PrepareReschedule
              ELSE UNCHANGED <<callback, ready, status, halt, resched>>
    /\ work' = Tail(work)
    /\ UNCHANGED <<nominal, result, table, exited, lock, holder, signaled, count, held, prio,
                   prepared, loopVars, mprio, pending, waiters, armed>>

\* wait_objects.clear() and Thread::ResumeFromWait.
ResumeFromWait ==
    /\ Calls("resume")
    /\ LET t == Head(work).thr
       IN  /\ waitObjs' = [waitObjs EXCEPT ![t] = <<>>]
           /\ taken' = [taken EXCEPT ![t] = {}]
           /\ IF status[t] \in Waiting \cup {"WaitSleep"}
              THEN /\ callback' = [callback EXCEPT ![t] = FALSE]
                   /\ ready' = PushBack(ready, t, prio[t])
                   /\ status' = [status EXCEPT ![t] = "Ready"]
                   /\ PrepareReschedule
              ELSE UNCHANGED <<callback, ready, status, halt, resched>>
    /\ work' = Tail(work)
    /\ UNCHANGED <<nominal, result, table, exited, lock, holder, signaled, count, held, prio,
                   prepared, loopVars, mprio, pending, waiters, armed>>

(***************************************************************************)
(* Waking up.                                                              *)
(***************************************************************************)
\* A waiter of o that could go on.
CanWake(o, t) ==
    /\ ~ShouldWait(o, t)
    /\ status[t] = "WaitSynchAll" => \A x \in ToSet(waitObjs[t]) : ~ShouldWait(x, t)

\* WaitObject::GetHighestPriorityReadyThread: the first of the best.
IsHighestPriorityReady(o, i) ==
    /\ i \in DOMAIN waiters[o] /\ CanWake(o, waiters[o][i])
    /\ \A j \in DOMAIN waiters[o] :
        CanWake(o, waiters[o][j]) =>
            \/ prio[waiters[o][i]] < prio[waiters[o][j]]
            \/ prio[waiters[o][i]] = prio[waiters[o][j]] /\ i <= j

\* Mutant of WakeupNext.
WakeupNext_AcquiresOne ==
    /\ Calls("wakeup")
    /\ \E i \in DOMAIN waiters[Head(work).obj] :
        LET o == Head(work).obj
            t == waiters[o][i]
        IN  /\ IsHighestPriorityReady(o, i)
            /\ work' = <<Call("acquire", o, t)>>
                       \o CallEach("remove", waitObjs[t], t)
                       \o <<Call("resume", t, t)>> \o work
            /\ result' = IF callback[t] THEN [result EXCEPT ![t] = "success"] ELSE result
    /\ UNCHANGED <<status, nominal, callback, table, exited, waitObjs, objVars, queueVars,
                   loopVars, mprio, pending, waiters, armed, halt, resched>>

\* One turn of WakeupAllWaitingThreads' loop: the thread acquires this object,
\* or all of its objects, gets its result, leaves all wait lists and resumes.
WakeupNext ==
    /\ Calls("wakeup")
    /\ \E i \in DOMAIN waiters[Head(work).obj] :
        LET o == Head(work).obj
            t == waiters[o][i]
        IN  /\ IsHighestPriorityReady(o, i)
            /\ work' = (IF status[t] = "WaitSynchAll" THEN CallEach("acquire", waitObjs[t], t)
                        ELSE <<Call("acquire", o, t)>>)
                       \o CallEach("remove", waitObjs[t], t)
                       \o <<Call("resume", t, t)>> \o work
            /\ result' = IF callback[t] THEN [result EXCEPT ![t] = "success"] ELSE result
    /\ UNCHANGED <<status, nominal, callback, table, exited, waitObjs, objVars, queueVars,
                   loopVars, mprio, pending, waiters, armed, halt, resched>>

\* The loop ends; Event's override clears a pulse.
WakeupDone ==
    /\ Calls("wakeup")
    /\ LET o == Head(work).obj
       IN  /\ \A i \in DOMAIN waiters[o] : ~CanWake(o, waiters[o][i])
           /\ signaled' = IF o \in Events /\ ResetType[o] = "Pulse"
                          THEN [signaled EXCEPT ![o] = FALSE] ELSE signaled
    /\ work' = Tail(work)
    /\ UNCHANGED <<threadVars, lock, holder, count, held, taken, queueVars, loopVars, mprio,
                   pending, waiters, armed, halt, resched>>

(***************************************************************************)
(* Thread::Stop and ReleaseThreadMutexes.                                  *)
(***************************************************************************)
\* Mutant of StopThread.
StopThread_KeepsWaiting ==
    /\ Calls("stop")
    /\ LET t == Head(work).thr
       IN  /\ armed' = armed \ {t}
           /\ table' = table \ {t}
           /\ ready' = IF status[t] = "Ready" THEN RemoveReady(ready, t) ELSE ready
           /\ status' = [status EXCEPT ![t] = "Dead"]
           /\ work' = <<Call("wakeup", t, t)>> \o <<Call("release", t, t)>> \o Tail(work)
    /\ UNCHANGED <<nominal, callback, result, exited, waitObjs, objVars, prio, prepared, loopVars,
                   mprio, pending, waiters, halt, resched>>

\* Mutant of StopThread.
StopThread_KeepsMutexes ==
    /\ Calls("stop")
    /\ LET t == Head(work).thr
       IN  /\ armed' = armed \ {t}
           /\ table' = table \ {t}
           /\ ready' = IF status[t] = "Ready" THEN RemoveReady(ready, t) ELSE ready
           /\ status' = [status EXCEPT ![t] = "Dead"]
           /\ work' = <<Call("wakeup", t, t)>> \o CallEach("remove", waitObjs[t], t) \o Tail(work)
    /\ UNCHANGED <<nominal, callback, result, exited, waitObjs, objVars, prio, prepared, loopVars,
                   mprio, pending, waiters, halt, resched>>

\* Thread::Stop
StopThread ==
    /\ Calls("stop")
    /\ LET t == Head(work).thr
       IN  /\ armed' = armed \ {t}
           /\ table' = table \ {t}
           /\ ready' = IF status[t] = "Ready" THEN RemoveReady(ready, t) ELSE ready
           /\ status' = [status EXCEPT ![t] = "Dead"]
           /\ work' = <<Call("wakeup", t, t)>> \o CallEach("remove", waitObjs[t], t)
                      \o <<Call("release", t, t)>> \o Tail(work)
    /\ UNCHANGED <<nominal, callback, result, exited, waitObjs, objVars, prio, prepared, loopVars,
                   mprio, pending, waiters, halt, resched>>

\* wait_objects is cleared and the mutexes are let go, in the order of the set.
ReleaseOneMutex ==
    /\ Calls("release")
    /\ \E m \in held[Head(work).thr] :
        /\ holder[m] = Head(work).thr
        /\ lock' = [lock EXCEPT ![m] = 0]
        /\ holder' = [holder EXCEPT ![m] = NoThread]
        /\ work' = <<Call("wakeup", m, Head(work).thr)>> \o work
    /\ UNCHANGED <<threadVars, signaled, count, held, taken, queueVars, loopVars, mprio, pending,
                   waiters, armed, halt, resched>>

ReleaseDone ==
    /\ Calls("release")
    /\ \A m \in held[Head(work).thr] : holder[m] # Head(work).thr
    /\ held' = [held EXCEPT ![Head(work).thr] = {}]
    /\ waitObjs' = [waitObjs EXCEPT ![Head(work).thr] = <<>>]
    /\ work' = Tail(work)
    /\ UNCHANGED <<status, nominal, callback, result, table, exited, lock, holder, signaled, count,
                   taken, queueVars, loopVars, mprio, pending, waiters, armed, halt, resched>>

(***************************************************************************)
(* SVCs of the thread that runs on the core whose turn it is.              *)
(***************************************************************************)
Cpu == Min(torun)

Svc(name, t) ==
    /\ stage = "run" /\ torun # {} /\ work = <<>> /\ ~halt
    /\ t = current[Cpu] /\ t \in Threads /\ name \in Svcs

\* A program gets no handle for a thread whose creation failed.
HasHandle(o) == o \in Threads => status[o] \notin {"Free", "Dormant"}

Arm(t, timed) == armed' = IF timed THEN armed \cup {t} ELSE armed

\* WaitSynchronization1 and N find enough objects available.
WaitSynchAcquires(t, objs, all) ==
    /\ Svc("wait", t)
    /\ \A o \in ToSet(objs) : HasHandle(o)
    /\ \A m \in ToSet(objs) \cap Mutexes : holder[m] = t => lock[m] < MaxLocks
    /\ IF all
       THEN /\ \A o \in ToSet(objs) : ~ShouldWait(o, t)
            /\ work' = CallEach("acquire", objs, t)
       ELSE \E i \in DOMAIN objs :
            /\ ~ShouldWait(objs[i], t) /\ \A j \in 1..(i - 1) : ShouldWait(objs[j], t)
            /\ work' = <<Call("acquire", objs[i], t)>>
    /\ result' = [result EXCEPT ![t] = "success"]
    /\ UNCHANGED <<status, nominal, callback, table, exited, waitObjs, objVars, queueVars,
                   loopVars, mprio, pending, waiters, armed, halt, resched>>

\* ... or put the thread to sleep (with a timeout of 0 they only return).
WaitSynchSleeps(t, objs, all, timed) ==
    /\ Svc("wait", t)
    /\ \A o \in ToSet(objs) : HasHandle(o)
    /\ \A m \in ToSet(objs) \cap Mutexes : holder[m] = t => lock[m] < MaxLocks
    /\ IF all THEN \E o \in ToSet(objs) : ShouldWait(o, t)
              ELSE \A o \in ToSet(objs) : ShouldWait(o, t)
    /\ status' = [status EXCEPT ![t] = IF all THEN "WaitSynchAll" ELSE "WaitSynchAny"]
    /\ waitObjs' = [waitObjs EXCEPT ![t] = objs]
    /\ Arm(t, timed)
    /\ callback' = [callback EXCEPT ![t] = TRUE]
    /\ result' = [result EXCEPT ![t] = "timeout"]
    /\ work' = CallEach("add", objs, t)
    /\ PrepareReschedule
    /\ UNCHANGED <<nominal, table, exited, objVars, queueVars, loopVars, mprio, pending, waiters>>

\* Mutant of ReleaseMutex.
ReleaseMutex_Silently(t, m) ==
    /\ Svc("mutex", t) /\ holder[m] = t /\ lock[m] > 0
    /\ lock' = [lock EXCEPT ![m] = @ - 1]
    /\ IF lock[m] = 1
       THEN /\ held' = [held EXCEPT ![t] = @ \ {m}]
            /\ BoostPriority(t, BestPriority(nominal[t], held'[t], mprio))
            /\ holder' = [holder EXCEPT ![m] = NoThread]
            /\ UNCHANGED work
            /\ PrepareReschedule
       ELSE UNCHANGED <<held, queueVars, holder, work, halt, resched>>
    /\ UNCHANGED <<threadVars, signaled, count, taken, loopVars, mprio, pending, waiters, armed>>

\* ReleaseMutex by the holder; anyone else gets an error.
ReleaseMutex(t, m) ==
    /\ Svc("mutex", t) /\ holder[m] = t /\ lock[m] > 0
    /\ lock' = [lock EXCEPT ![m] = @ - 1]
    /\ IF lock[m] = 1
       THEN /\ held' = [held EXCEPT ![t] = @ \ {m}]
            /\ BoostPriority(t, BestPriority(nominal[t], held'[t], mprio))
            /\ holder' = [holder EXCEPT ![m] = NoThread]
            /\ work' = <<Call("wakeup", m, t)>>
            /\ PrepareReschedule
       ELSE UNCHANGED <<held, queueVars, holder, work, halt, resched>>
    /\ UNCHANGED <<threadVars, signaled, count, taken, loopVars, mprio, pending, waiters, armed>>

\* Semaphore::Release checks that the count stays within max_count; nothing
\* checks that release_count is positive.
ReleaseSemaphore(t, x, n) ==
    /\ Svc("semaphore", t) /\ count[x] + n <= MaxCount /\ count[x] + n >= -MaxCount
    /\ count' = [count EXCEPT ![x] = @ + n]
    /\ work' = <<Call("wakeup", x, t)>>
    /\ UNCHANGED <<threadVars, lock, holder, signaled, held, taken, queueVars, loopVars, mprio,
                   pending, waiters, armed, halt, resched>>

\* Event::Signal
SignalEvent(t, e) ==
    /\ Svc("event", t)
    /\ signaled' = [signaled EXCEPT ![e] = TRUE]
    /\ work' = <<Call("wakeup", e, t)>>
    /\ UNCHANGED <<threadVars, lock, holder, count, held, taken, queueVars, loopVars, mprio,
                   pending, waiters, armed, halt, resched>>

ClearEvent(t, e) ==
    /\ Svc("event", t) /\ signaled[e]
    /\ signaled' = [signaled EXCEPT ![e] = FALSE]
    /\ UNCHANGED <<threadVars, lock, holder, count, held, taken, queueVars, loopVars, mprio,
                   pending, waiters, armed, halt, resched, work>>

\* Mutant of SleepThread.
SleepThread_RunsOn(t, timed) ==
    /\ Svc("sleep", t)
    /\ status' = [status EXCEPT ![t] = "WaitSleep"]
    /\ Arm(t, timed)
    /\ UNCHANGED <<nominal, callback, result, table, exited, waitObjs, objVars, queueVars,
                   loopVars, mprio, pending, waiters, halt, resched, work>>

\* SleepThread: with a timeout, or for ever.
SleepThread(t, timed) ==
    /\ Svc("sleep", t)
    /\ status' = [status EXCEPT ![t] = "WaitSleep"]
    /\ Arm(t, timed)
    /\ PrepareReschedule
    /\ UNCHANGED <<nominal, callback, result, table, exited, waitObjs, objVars, queueVars,
                   loopVars, mprio, pending, waiters, work>>

\* SetPriority, then UpdatePriority, then the mutexes the thread waits for.
SetThreadPriority(t, u, p) ==
    /\ Svc("priority", t) /\ HasHandle(u)
    /\ LET best == BestPriority(p, held[u], mprio)
       IN  /\ ready' = IF status[u] = "Ready"
                       THEN PushBack(RemoveReady(ready, u), u, best) ELSE ready
           /\ prepared' = [prepared EXCEPT ![CoreOf[u]] = @ \cup {p, best}]
           /\ prio' = [prio EXCEPT ![u] = best]
    /\ nominal' = [nominal EXCEPT ![u] = p]
    /\ \E ms \in SetToSeqs(pending[u]) : work' = CallEach("update", ms, u)
    /\ PrepareReschedule
    /\ UNCHANGED <<status, callback, result, table, exited, waitObjs, objVars, loopVars, mprio,
                   pending, waiters, armed>>

\* KernelSystem::CreateThread for a thread of the caller's process, or for the
\* main thread of a process that is being started (SetupMainThread).  Without
\* memory for its TLS the thread stays Dormant, but listed, and the SVC returns
\* an error; SetupMainThread does not survive that.
CreateThread(t, u, p, tls) ==
    /\ Svc("create", t) /\ status[u] = "Free"
    /\ \/ ProcessOf[u] = ProcessOf[t]
       \/ tls /\ \A v \in Threads : ProcessOf[v] = ProcessOf[u] => status[v] = "Free"
    /\ prepared' = [prepared EXCEPT ![CoreOf[u]] = @ \cup {p}]
    /\ prio' = [prio EXCEPT ![u] = p] /\ nominal' = [nominal EXCEPT ![u] = p]
    /\ table' = table \cup {u}
    /\ IF tls
       THEN /\ ready' = PushBack(ready, u, p)
            /\ status' = [status EXCEPT ![u] = "Ready"]
            /\ PrepareReschedule
       ELSE /\ status' = [status EXCEPT ![u] = "Dormant"]
            /\ UNCHANGED <<ready, halt, resched>>
    /\ UNCHANGED <<callback, result, exited, waitObjs, objVars, loopVars, mprio, pending, waiters,
                   armed, work>>

\* ExitCurrentThread: Stop, then PrepareReschedule.
ExitThread(t) ==
    /\ Svc("exit", t)
    /\ work' = <<Call("stop", t, t)>>
    /\ PrepareReschedule
    /\ UNCHANGED <<threadVars, objVars, queueVars, loopVars, mprio, pending, waiters, armed>>

\* TerminateProcess and ExitProcess, which assert that the process has not
\* exited: the listed threads of each core in turn, then the core's current
\* thread, even if it was stopped before.
TerminateProcess(t, pr) ==
    /\ Svc("terminate", t) /\ pr \notin exited
    /\ \E v \in Threads : ProcessOf[v] = pr /\ status[v] # "Free"
    /\ exited' = exited \cup {pr}
    /\ LET victims == {v \in Threads : ProcessOf[v] = pr /\ (v \in table \/ v = current[CoreOf[v]])}
       IN  /\ \E s \in SetToSeqs(victims) :
               /\ \A i, j \in DOMAIN s : i < j =>
                   \/ CoreOf[s[i]] < CoreOf[s[j]]
                   \/ CoreOf[s[i]] = CoreOf[s[j]] /\ s[i] # current[CoreOf[s[i]]]
               /\ work' = [i \in DOMAIN s |-> Call("stop", s[i], s[i])]
           /\ IF \E v \in victims : v = current[CoreOf[v]]
              THEN PrepareReschedule ELSE UNCHANGED <<halt, resched>>
    /\ UNCHANGED <<status, nominal, callback, result, table, waitObjs, objVars, queueVars,
                   loopVars, mprio, pending, waiters, armed>>

(***************************************************************************)
(* RunLoop.  Advance fires the due events of a core, Reschedule follows.   *)
(***************************************************************************)
\* ThreadWakeupCallback; table.at() throws for a thread that is not in it.
ThreadWakeupCallback(t) ==
    /\ stage = "advance" /\ work = <<>> /\ t \in armed
    /\ left # {} /\ CoreOf[t] = Min(left)
    /\ armed' = armed \ {t}
    /\ IF t \notin table
       THEN stage' = "thrown" /\ UNCHANGED <<result, work>>
       ELSE /\ UNCHANGED stage
            /\ result' = IF status[t] \in Waiting /\ callback[t]
                         THEN [result EXCEPT ![t] = "timeout"] ELSE result
            /\ work' = (IF status[t] \in Waiting THEN CallEach("remove", waitObjs[t], t) ELSE <<>>)
                       \o <<Call("resume", t, t)>>
    /\ UNCHANGED <<status, nominal, callback, table, exited, waitObjs, objVars, queueVars, left,
                   torun, current, mprio, pending, waiters, halt, resched>>

\* PopNextReadyThread: something better than a running thread ...
IsRunning(c) == current[c] # NoThread /\ status[current[c]] = "Running"

\* SwitchContext from the current thread of core c to another one, the head of
\* level p; a running thread goes back to the front of its level.
SwitchTo(c, p) ==
    LET next == Head(ready[c][p])
        prev == current[c]
        rest == [ready EXCEPT ![c][p] = Tail(@)]
    IN  /\ ready' = IF IsRunning(c) THEN PushFront(rest, prev) ELSE rest
        /\ status' = [u \in Threads |-> CASE u = next -> "Running"
                                          [] IsRunning(c) /\ u = prev -> "Ready"
                                          [] OTHER -> status[u]]
        /\ armed' = armed \ {next}
        /\ current' = [current EXCEPT ![c] = next]

\* ThreadManager::Reschedule of core c.
RescheduleCore(c) ==
    \/ /\ IsRunning(c) /\ NoneBetter(prio[current[c]], prepared[c], ready[c])
       /\ armed' = armed \ {current[c]}
       /\ UNCHANGED <<ready, status, current>>
    \/ /\ ~IsRunning(c) /\ NoneBetter(Lowest + 1, prepared[c], ready[c])
       /\ current' = [current EXCEPT ![c] = NoThread]
       /\ UNCHANGED <<ready, status, armed>>
    \/ \E p \in Prios :
       /\ IsFirstLevel(p, prepared[c], ready[c])
       /\ IsRunning(c) => p < prio[current[c]]
       /\ SwitchTo(c, p)

Reschedule ==
    /\ stage \in {"advance", "end"} /\ left # {} /\ work = <<>>
    /\ RescheduleCore(Min(left))
    /\ left' = left \ {Min(left)}
    /\ UNCHANGED <<nominal, callback, result, table, exited, waitObjs, objVars, prio, prepared,
                   stage, torun, mprio, pending, waiters, halt, resched, work>>

\* The cores that are late are advanced and rescheduled; the latest of them is
\* then run alone, unless the delays are too small to matter.
RunLoop ==
    /\ stage = "end" /\ left = {}
    /\ stage' = "advance"
    /\ \E late \in SUBSET Cores \ {Cores} :
        left' = late /\ \E run \in {{}} \cup {{c} : c \in late} : torun' = run
    /\ UNCHANGED <<threadVars, objVars, queueVars, current, mprio, pending, waiters, armed, halt,
                   resched, work>>

\* No core is to be run alone: all are advanced, rescheduled and run.
AdvanceAll ==
    /\ stage = "advance" /\ left = {} /\ torun = {} /\ work = <<>>
    /\ left' = Cores /\ torun' = Cores
    /\ UNCHANGED <<threadVars, objVars, queueVars, stage, current, mprio, pending, waiters, armed,
                   halt, resched, work>>

RunCores ==
    /\ stage = "advance" /\ left = {} /\ torun # {} /\ work = <<>>
    /\ stage' = "run"
    /\ UNCHANGED <<threadVars, objVars, queueVars, left, torun, current, mprio, pending, waiters,
                   armed, halt, resched, work>>

\* A core's slice is over; after the last one System::Reschedule.  An idle core
\* asks for it.
EndSlice ==
    /\ stage = "run" /\ torun # {} /\ work = <<>>
    /\ halt' = FALSE
    /\ torun' = torun \ {Cpu}
    /\ LET pend == resched \/ current[Cpu] = NoThread
       IN  IF torun' = {}
           THEN stage' = "end" /\ left' = (IF pend THEN Cores ELSE {}) /\ resched' = FALSE
           ELSE UNCHANGED <<stage, left>> /\ resched' = pend
    /\ UNCHANGED <<threadVars, objVars, queueVars, current, mprio, pending, waiters, armed, work>>

-----------------------------------------------------------------------------
Handler ==
    \/ AcquireMutex \/ AcquireEvent \/ AcquireSemaphore \/ AcquireThread
    \/ AddWaitingThread \/ RemoveWaitingThread \/ UpdatePending \/ ResumeFromWait
    \/ WakeupNext \/ WakeupDone \/ StopThread \/ ReleaseOneMutex \/ ReleaseDone

Program(t) ==
    \/ \E objs \in WaitLists, all \in BOOLEAN :
        \/ WaitSynchAcquires(t, objs, all)
        \/ \E timed \in BOOLEAN : WaitSynchSleeps(t, objs, all, timed)
    \/ \E m \in Mutexes : ReleaseMutex(t, m)
    \/ \E x \in Semaphores, n \in -MaxCount..MaxCount : ReleaseSemaphore(t, x, n)
    \/ \E e \in Events : SignalEvent(t, e) \/ ClearEvent(t, e)
    \/ \E timed \in BOOLEAN : SleepThread(t, timed)
    \/ \E u \in Threads, p \in Prios :
        SetThreadPriority(t, u, p) \/ \E tls \in BOOLEAN : CreateThread(t, u, p, tls)
    \/ ExitThread(t)
    \/ \E pr \in Processes : TerminateProcess(t, pr)

Loop == RunLoop \/ AdvanceAll \/ RunCores \/ EndSlice \/ Reschedule

Next ==
    \/ Handler \/ Loop
    \/ \E t \in Threads : Program(t) \/ ThreadWakeupCallback(t)

Spec == Init /\ [][Next]_vars

(***************************************************************************)
(* A handler and RunLoop go on; a slice ends, since its ticks run out      *)
(* whatever the program does; late cores catch up, since the global time   *)
(* stands still while one runs alone; a wakeup that stays due is fired,    *)
(* because Advance fires all due events of a core before its reschedule.   *)
(***************************************************************************)
Fairness ==
    /\ WF_vars(Handler) /\ WF_vars(Loop) /\ SF_vars(EndSlice)
    /\ SF_vars(RunLoop /\ torun' = {})
    /\ \A t \in Threads : SF_vars(ThreadWakeupCallback(t))

FairSpec == Spec /\ Fairness

-----------------------------------------------------------------------------
Ops == {"acquire", "add", "remove", "update", "resume", "wakeup", "stop", "release"}

\* Only a mutex is told of a new priority.
CallType ==
    {c \in [op : Ops, obj : Objects, thr : Threads] : c.op = "update" => c.obj \in Mutexes}

\* ready_queue holds exactly the ready threads, each once, at its current
\* priority and on its own core.  push_back and push_front trust this: a thread
\* left behind at an old priority is never found by remove() again.
ReadyQueueConsistent ==
    /\ \A c \in Cores, p \in Prios : \A i \in DOMAIN ready[c][p] :
        LET t == ready[c][p][i]
        IN  /\ status[t] = "Ready" /\ prio[t] = p /\ CoreOf[t] = c
            /\ \A j \in DOMAIN ready[c][p] : ready[c][p][j] = t => j = i
    /\ \A t \in Threads :
        status[t] = "Ready" => \E i \in DOMAIN ready[CoreOf[t]][prio[t]] :
                                   ready[CoreOf[t]][prio[t]][i] = t

\* The level of every created thread is linked: a thread pushed to a level that
\* is not would never be found, and pop_first_better would run off the list.
LevelsPrepared ==
    \A t \in Threads : status[t] # "Free" => prio[t] \in prepared[CoreOf[t]]

\* Core c's current thread is what its scheduler chose, or was stopped since.
Settled(c) == current[c] = NoThread \/ status[current[c]] \in {"Running", "Dead"}

\* A core that has been rescheduled runs a thread that is not waiting, ready or
\* queued: a thread that blocks is halted at once, and nothing that the cores
\* before it or the timing callbacks do takes a core's thread from under it.
SliceRunsCurrent ==
    /\ stage = "advance" => \A c \in torun \ left : Settled(c)
    /\ stage = "run" => \A c \in torun : (c = Cpu /\ halt) \/ Settled(c)

\* Between handlers wait lists and threads agree: the assertions "Inconsistent
\* thread statuses in waiting_threads" and "Thread is waking up while waiting
\* for objects" hold, and pending_mutexes are the mutexes waited for.
WaitListsConsistent ==
    /\ \A o \in Objects : (work = <<>> \/ (Calls("wakeup") /\ Head(work).obj = o)) =>
        \A i \in DOMAIN waiters[o] :
            status[waiters[o][i]] \in Waiting /\ o \in ToSet(waitObjs[waiters[o][i]])
    /\ work = <<>> => \A t \in Threads :
        /\ status[t] \notin Waiting => waitObjs[t] = <<>>
        /\ \A o \in ToSet(waitObjs[t]) : t \in ToSet(waiters[o])
        /\ pending[t] = ToSet(waitObjs[t]) \cap Mutexes

\* Between handlers a mutex and its holder agree, and no dead thread holds one.
MutexOwnership ==
    work = <<>> => \A m \in Mutexes :
        /\ lock[m] > 0 <=> holder[m] # NoThread
        /\ holder[m] # NoThread => status[holder[m]] # "Dead"
        /\ \A t \in Threads : m \in held[t] <=> holder[m] = t

\* Between handlers no thread waits for a mutex whose holder runs at a lower
\* priority ("This prevents priority inversion via priority inheritance").
NoPriorityInversion ==
    work = <<>> => \A m \in Mutexes : \A w \in ToSet(waiters[m]) :
        holder[m] # NoThread => prio[holder[m]] <= prio[w]

\* No wakeup is lost: between handlers no waiting thread could go on, whatever
\* object was signalled, released or ended last and in whatever order.
NoLostWakeup ==
    work = <<>> => \A o \in Objects : \A i \in DOMAIN waiters[o] : ~CanWake(o, waiters[o][i])

\* WaitSynchronization is all or nothing, however signals, releases, thread
\* exits and the timeout interleave.  A thread that resumes with success was
\* given every object of its list (wait_all) or exactly one of them, each while
\* it was available; one that resumes with a timeout was given none; and a
\* timeout that comes after the wakeup does not change the result.
WaitIsAllOrNothing ==
    [][\A t \in Threads :
        /\ status[t] \in Waiting /\ status'[t] = "Ready" =>
            IF result[t] # "success"
            THEN taken[t] = {}
            ELSE /\ status[t] = "WaitSynchAll" => taken[t] = ToSet(waitObjs[t])
                 /\ status[t] = "WaitSynchAny" => \E o \in ToSet(waitObjs[t]) : taken[t] = {o}
        /\ status[t] = "Ready" => result'[t] = result[t]]_vars

\* "Running threads from exiting processes is unimplemented": no SVC is called
\* by a thread of a process that has exited.
ExitedProcessesAreQuiet ==
    stage = "run" /\ torun # {} /\ work = <<>> /\ ~halt /\ current[Cpu] # NoThread =>
        ProcessOf[current[Cpu]] \notin exited

\* A timed wait or sleep ends.
TimedWaitEnds ==
    \A t \in Threads : (t \in armed /\ status[t] \in Waiting \cup {"WaitSleep"})
                           ~> (status[t] \notin Waiting \cup {"WaitSleep"})
=============================================================================
