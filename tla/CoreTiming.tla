------------------------------ MODULE CoreTiming -------------------------------
(***************************************************************************)
(* Emulated time: Core::Timing with one Timer per core (event_queue,       *)
(* ts_queue, slices), System::RunLoop's rounds over the cores, the kernel  *)
(* timers, thread sleeps and the host threads of RunAsync that schedule    *)
(* events, and what their callbacks do.                                    *)
(*                                                                         *)
(* Only differences of ticks matter (Timing starts from a random tick), so *)
(* each round of RunLoop counts them from the slowest core again.  A core  *)
(* has one thread, of the same number; which of several a core would run   *)
(* is KernelSync's subject.                                                *)
(***************************************************************************)
EXTENDS Integers, Sequences, FiniteSets

CONSTANTS
    NumCores,
    MAX_SLICE_LENGTH,
    MinDelay,           \* min_delay: the desync that RunLoop tolerates
    MaxOvershoot,       \* ticks by which the JIT may overshoot a slice
    Timers,             \* kernel timers
    Delays,             \* cycles of sleeps and timers; a sleep may also be of 0 cycles
    MaxSkew             \* bound on what a torn or stale GetTicks is off, in slices

Cores == 0..(NumCores - 1)

ASSUME TimingAssumption ==
    /\ NumCores \in Nat \ {0} /\ MAX_SLICE_LENGTH \in Nat \ {0}
    /\ MinDelay \in Nat /\ MaxOvershoot \in Nat /\ MaxSkew \in Nat
    /\ Delays \subseteq Nat \ {0}
    /\ Timers \cap Cores = {}

VARIABLES
    event_queue,        \* per core, a heap: a set of events
    ts_queue,           \* per core
    executed_ticks, slice_length, downcount,
    pc,                 \* RunLoop: "delayed", "synced", "slices", "run", "svc", or "thrown"
    idx,                \* the core that RunLoop's loops are at
    draining,           \* in the loop of Advance: is_timer_sane
    max_slice,
    catching_up,        \* RunLoop took the branch for delayed cores
    thread,             \* per core: "run", "ready", "sleep" (a sleep or a wait with a timeout),
                        \* "async" (RunAsync), "stopped" (dead, but still current) or "dead"
    table,              \* wakeup_callback_table: the threads that were not stopped
    unclean,            \* history: the threads that Stop found current on another core, or
                        \* with a host thread or its event on their way
    host,               \* per core: the host thread of its RunAsync works
    interval,           \* interval_delay of each timer
    due                 \* history: when each timer ought to fire next, {} if it is not set

sliceVars == <<executed_ticks, slice_length, downcount>>
loopVars  == <<pc, idx, draining, max_slice, catching_up>>
threadVars == <<thread, table, unclean>>
userVars  == <<threadVars, host, interval, due>>
vars == <<event_queue, ts_queue, sliceVars, loopVars, userVars>>

Lower(a, b) == IF a < b THEN a ELSE b
Higher(a, b) == IF a < b THEN b ELSE a

GetTicks(c) == executed_ticks[c] + slice_length[c] - downcount[c]
GetGlobalTicks == CHOOSE t \in {GetTicks(c) : c \in Cores} : \A c \in Cores : GetTicks(c) <= t
Slowest == CHOOSE t \in {GetTicks(c) : c \in Cores} : \A c \in Cores : t <= GetTicks(c)

(***************************************************************************)
(* The heap.  fifo_order is the number of events in the queue that were    *)
(* pushed earlier: like event_fifo_id it orders the events of one time.    *)
(***************************************************************************)
Event(time, of, origin) == [time |-> time, of |-> of, origin |-> origin, fifo_order |-> 0]

Push(q, e) == q \cup {[e EXCEPT !.fifo_order = Cardinality(q)]}

Without(q, gone) ==
    {[e EXCEPT !.fifo_order = Cardinality({x \in q \ gone : x.fifo_order < e.fifo_order})]
        : e \in q \ gone}

Front(q) == CHOOSE e \in q : \A x \in q :
                e.time < x.time \/ (e.time = x.time /\ e.fifo_order <= x.fifo_order)

\* UnscheduleEvent of some threads or timers: on all cores, but not in the ts_queues.
Unscheduled(of) ==
    [c \in Cores |-> Without(event_queue[c], {e \in event_queue[c] : e.of \in of})]

\* Mutant of ScheduleEvent: without ForceExceptionCheck.
ScheduleEvent_KeepsSlice(queues, cycles, of) ==
    /\ event_queue' = [queues EXCEPT ![idx] = Push(@, Event(GetTicks(idx) + cycles, of, "core"))]
    /\ UNCHANGED <<slice_length, downcount>>

\* ScheduleEvent on the running core; queues is what the handler left of event_queue.
\* ForceExceptionCheck shortens the slice, unless the timer is sane (in Advance).
ScheduleEvent(queues, cycles, of) ==
    LET cut == IF draining THEN 0 ELSE Higher(0, downcount[idx] - cycles)
    IN  /\ event_queue' = [queues EXCEPT ![idx] = Push(@, Event(GetTicks(idx) + cycles, of, "core"))]
        /\ slice_length' = [slice_length EXCEPT ![idx] = @ - cut]
        /\ downcount' = [downcount EXCEPT ![idx] = @ - cut]

Init ==
    /\ event_queue = [c \in Cores |-> {}] /\ ts_queue = [c \in Cores |-> <<>>]
    /\ executed_ticks = [c \in Cores |-> 0]
    /\ slice_length = [c \in Cores |-> MAX_SLICE_LENGTH]
    /\ downcount = [c \in Cores |-> MAX_SLICE_LENGTH]
    /\ pc = "delayed" /\ idx = 0 /\ draining = FALSE /\ max_slice = 0 /\ catching_up = FALSE
    /\ thread = [c \in Cores |-> "run"] /\ table = Cores /\ unclean = {}
    /\ host = [c \in Cores |-> FALSE]
    /\ interval = [t \in Timers |-> 0] /\ due = [t \in Timers |-> {}]

(***************************************************************************)
(* Timer::Advance on core idx, event by event.                             *)
(***************************************************************************)
\* RunLoop's loops call Advance on a core that is behind, or on every core.
AtAdvance ==
    /\ ~draining /\ idx \in Cores
    /\ pc = "synced" \/ (pc = "delayed" /\ GetTicks(idx) < GetGlobalTicks)

MoveEvent ==
    /\ AtAdvance /\ ts_queue[idx] # <<>>
    /\ event_queue' = [event_queue EXCEPT ![idx] = Push(@, Head(ts_queue[idx]))]
    /\ ts_queue' = [ts_queue EXCEPT ![idx] = Tail(@)]
    /\ UNCHANGED <<sliceVars, loopVars, userVars>>

CountTicks ==
    /\ AtAdvance /\ ts_queue[idx] = <<>>
    /\ executed_ticks' = [executed_ticks EXCEPT ![idx] = GetTicks(idx)]
    /\ slice_length' = [slice_length EXCEPT ![idx] = 0]
    /\ downcount' = [downcount EXCEPT ![idx] = 0]
    /\ draining' = TRUE
    /\ UNCHANGED <<event_queue, ts_queue, pc, idx, max_slice, catching_up, userVars>>

IsDue(c) == event_queue[c] # {} /\ Front(event_queue[c]).time <= executed_ticks[c]

Sleepers == {c \in Cores : thread[c] = "sleep"}

\* ResumeFromWait of several threads, whose wakeup events stay scheduled.
Resumed(woken) == [c \in Cores |-> IF c \in woken THEN "ready" ELSE thread[c]]

\* Mutant of FireTimer: the next interval counts from the late signal.
FireTimer_Drifts(woken) ==
    LET e == Front(event_queue[idx])
        rest == [event_queue EXCEPT ![idx] = Without(@, {e})]
    IN  /\ draining /\ IsDue(idx) /\ e.of \in Timers
        /\ thread' = Resumed(woken)
        /\ IF interval[e.of] # 0
           THEN /\ ScheduleEvent(rest, interval[e.of], e.of)
                /\ due' = [due EXCEPT ![e.of] = {x + interval[e.of] : x \in @}]
           ELSE /\ event_queue' = rest
                /\ due' = [due EXCEPT ![e.of] = {}]
                /\ UNCHANGED <<slice_length, downcount>>
        /\ UNCHANGED <<ts_queue, executed_ticks, loopVars, table, unclean, host, interval>>

\* Mutant of FireTimer: interval_delay is not compared with 0.
FireTimer_Again(woken) ==
    LET e == Front(event_queue[idx])
        rest == [event_queue EXCEPT ![idx] = Without(@, {e})]
        cycles_late == executed_ticks[idx] - e.time
    IN  /\ draining /\ IsDue(idx) /\ e.of \in Timers
        /\ thread' = Resumed(woken)
        /\ ScheduleEvent(rest, interval[e.of] - cycles_late, e.of)
        /\ due' = [due EXCEPT ![e.of] = {x + interval[e.of] : x \in @}]
        /\ UNCHANGED <<ts_queue, executed_ticks, loopVars, table, unclean, host, interval>>

\* TimerCallback: Timer::Signal(cycles_late), which wakes some of the waiting threads.
FireTimer(woken) ==
    LET e == Front(event_queue[idx])
        rest == [event_queue EXCEPT ![idx] = Without(@, {e})]
        cycles_late == executed_ticks[idx] - e.time
    IN  /\ draining /\ IsDue(idx) /\ e.of \in Timers
        /\ thread' = Resumed(woken)
        /\ IF interval[e.of] # 0
           THEN /\ ScheduleEvent(rest, interval[e.of] - cycles_late, e.of)
                /\ due' = [due EXCEPT ![e.of] = {x + interval[e.of] : x \in @}]
           ELSE /\ event_queue' = rest
                /\ due' = [due EXCEPT ![e.of] = {}]
                /\ UNCHANGED <<slice_length, downcount>>
        /\ UNCHANGED <<ts_queue, executed_ticks, loopVars, table, unclean, host, interval>>

\* ThreadWakeupCallback; wakeup_callback_table.at() throws for a stopped thread.
FireWakeup ==
    LET e == Front(event_queue[idx])
    IN  /\ draining /\ IsDue(idx) /\ e.of \in Cores
        /\ event_queue' = [event_queue EXCEPT ![idx] = Without(@, {e})]
        /\ IF e.of \notin table
           THEN pc' = "thrown" /\ draining' = FALSE /\ UNCHANGED thread
           ELSE thread' = Resumed({e.of} \cap {c \in Cores : thread[c] # "run"})
                /\ UNCHANGED <<pc, draining>>
        /\ UNCHANGED <<ts_queue, sliceVars, idx, max_slice, catching_up,
                       table, unclean, host, interval, due>>

\* ThreadManager::Reschedule on some cores: SwitchContext cancels the wakeup of the thread.
Rescheduled(cores) ==
    [c \in Cores |-> CASE c \in cores /\ thread[c] = "ready" -> "run"
                       [] c \in cores /\ thread[c] = "stopped" -> "dead"
                       [] OTHER -> thread[c]]
\* Mutant of AfterSwitch: SwitchContext cancels no wakeup.
AfterSwitch_KeepsWakeups(cores) == event_queue

AfterSwitch(cores) ==
    [c \in Cores |-> Without(event_queue[c],
        {e \in event_queue[c] : e.of \in cores /\ thread[e.of] = "ready"})]

\* q: what Reschedule left of the core's event_queue.
GetMaxSliceLength(c, q) ==
    IF q = {} THEN MAX_SLICE_LENGTH ELSE Front(q).time - executed_ticks[c]

SetNextSlice(c, q, max_slice_length) ==
    LET length == IF q = {} THEN max_slice_length
                  ELSE Lower(Front(q).time - executed_ticks[c], max_slice_length)
    IN  /\ slice_length' = [slice_length EXCEPT ![c] = length]
        /\ downcount' = [downcount EXCEPT ![c] = length]

\* The end of Advance, and what RunLoop does next with the core.
EndAdvance ==
    LET left == AfterSwitch({idx})
    IN  /\ draining /\ ~IsDue(idx)
        /\ draining' = FALSE
        /\ idx' = idx + 1
        /\ event_queue' = left
        /\ thread' = Rescheduled({idx})
        /\ IF pc = "delayed"
           THEN /\ SetNextSlice(idx, left[idx], GetGlobalTicks - GetTicks(idx))
                /\ UNCHANGED max_slice
           ELSE /\ max_slice' = Lower(max_slice, GetMaxSliceLength(idx, left[idx]))
                /\ UNCHANGED <<slice_length, downcount>>
        /\ UNCHANGED <<ts_queue, executed_ticks, pc, catching_up,
                       table, unclean, host, interval, due>>

(***************************************************************************)
(* The rest of RunLoop.                                                    *)
(***************************************************************************)
\* A core that is not behind.
SkipCore ==
    /\ pc = "delayed" /\ ~draining /\ idx \in Cores /\ GetTicks(idx) = GetGlobalTicks
    /\ idx' = idx + 1
    /\ UNCHANGED <<event_queue, ts_queue, sliceVars, pc, draining, max_slice, catching_up, userVars>>

\* Mutant of CatchUp: delayed cores never catch up.
CatchUp_Never ==
    /\ pc = "delayed" /\ idx = NumCores
    /\ pc' = "synced" /\ idx' = 0 /\ max_slice' = MAX_SLICE_LENGTH
    /\ UNCHANGED <<event_queue, ts_queue, sliceVars, draining, catching_up, userVars>>

\* max_delay > min_delay: only the first of the slowest cores runs.
CatchUp ==
    /\ pc = "delayed" /\ idx = NumCores
    /\ IF GetGlobalTicks - Slowest > MinDelay
       THEN /\ pc' = "run" /\ catching_up' = TRUE
            /\ idx' = CHOOSE c \in Cores : GetTicks(c) = Slowest
                                           /\ \A d \in Cores : GetTicks(d) = Slowest => c <= d
            /\ UNCHANGED max_slice
       ELSE /\ pc' = "synced" /\ idx' = 0 /\ max_slice' = MAX_SLICE_LENGTH
            /\ UNCHANGED catching_up
    /\ UNCHANGED <<event_queue, ts_queue, sliceVars, draining, userVars>>

\* All cores were advanced, or the core before has run.
StartSlice ==
    \E c \in Cores :
        /\ (pc = "synced" /\ idx = NumCores /\ c = 0) \/ (pc = "slices" /\ idx = c)
        /\ SetNextSlice(c, event_queue[c], max_slice)
        /\ pc' = "run" /\ idx' = c
        /\ UNCHANGED <<event_queue, ts_queue, executed_ticks, draining, max_slice, catching_up, userVars>>

\* Ticks are counted from the slowest core in the next round.
Rebased(t) == t - Slowest

\* All cores have run, or the delayed one has: the Reschedule that ends RunLoop.
EndRound ==
    /\ pc = "slices" /\ idx = NumCores
    /\ pc' = "delayed" /\ idx' = 0 /\ catching_up' = FALSE
    /\ thread' = Rescheduled(Cores)
    /\ event_queue' = [c \in Cores |-> {[e EXCEPT !.time = Rebased(@)] : e \in AfterSwitch(Cores)[c]}]
    /\ ts_queue' = [c \in Cores |-> [i \in DOMAIN ts_queue[c] |->
                       [ts_queue[c][i] EXCEPT !.time = Rebased(@)]]]
    /\ executed_ticks' = [c \in Cores |-> Rebased(executed_ticks[c])]
    /\ due' = [t \in Timers |-> {Rebased(x) : x \in due[t]}]
    /\ max_slice' = 0
    /\ UNCHANGED <<slice_length, downcount, draining, table, unclean, host, interval>>

\* The core has run: RunLoop goes on with the next one, which may run as long.
EndRun ==
    /\ pc' = "slices"
    /\ IF catching_up
       THEN idx' = NumCores /\ UNCHANGED max_slice
       ELSE idx' = idx + 1 /\ max_slice' = slice_length'[idx] - downcount'[idx]
    /\ UNCHANGED <<draining, catching_up>>

\* The cores whose current_thread executes code: a stopped one does until it is rescheduled.
Executing == {c \in Cores : thread[c] \in {"run", "stopped"}}

\* Without a thread to run, the rest of the slice is idled away.
Idle ==
    /\ pc = "run" /\ idx \notin Executing
    /\ downcount' = [downcount EXCEPT ![idx] = 0]
    /\ UNCHANGED <<event_queue, ts_queue, executed_ticks, slice_length, userVars>>
    /\ EndRun

\* ARM_Interface::Run executes a stretch of code, AddTicks, up to an SVC or the end.
Execute(ticks) ==
    /\ pc = "run" /\ idx \in Executing
    /\ ticks <= downcount[idx] + MaxOvershoot
    /\ downcount' = [downcount EXCEPT ![idx] = @ - ticks]
    /\ pc' = "svc"
    /\ UNCHANGED <<event_queue, ts_queue, executed_ticks, slice_length, idx, draining, max_slice,
                   catching_up, userVars>>

(***************************************************************************)
(* SVCs of the executing thread.                                           *)
(***************************************************************************)
\* Run goes on after the SVC, or PrepareReschedule or the end of the slice ended it.
Resume(halts) ==
    IF halts \/ downcount'[idx] <= 0
    THEN EndRun
    ELSE pc' = "run" /\ UNCHANGED <<idx, draining, max_slice, catching_up>>

\* Any other code: it may signal objects that threads wait for, and so wake them.
Signal(woken, halts) ==
    /\ pc = "svc" /\ (woken # {} => halts)
    /\ thread' = Resumed(woken)
    /\ UNCHANGED <<event_queue, ts_queue, sliceVars, table, unclean, host, interval, due>>
    /\ Resume(halts)

\* Timer::Set: Cancel, then for initial = 0 Signal(0), which wakes some of the waiting threads.
SetTimer(t, initial, every, woken, halts) ==
    LET cycles == IF initial = 0 THEN every ELSE initial
    IN  /\ pc = "svc" /\ (woken # {} => initial = 0 /\ halts)
        /\ interval' = [interval EXCEPT ![t] = every]
        /\ thread' = Resumed(woken)
        /\ IF cycles = 0
           THEN /\ event_queue' = Unscheduled({t})
                /\ due' = [due EXCEPT ![t] = {}]
                /\ UNCHANGED <<slice_length, downcount>>
           ELSE /\ ScheduleEvent(Unscheduled({t}), cycles, t)
                /\ due' = [due EXCEPT ![t] = {GetTicks(idx) + cycles}]
        /\ UNCHANGED <<ts_queue, executed_ticks, table, unclean, host>>
        /\ Resume(halts)

\* Timer::Cancel, also from ~Timer.
CancelTimer(t, halts) ==
    /\ pc = "svc"
    /\ event_queue' = Unscheduled({t})
    /\ due' = [due EXCEPT ![t] = {}]
    /\ UNCHANGED <<ts_queue, sliceVars, threadVars, host, interval>>
    /\ Resume(halts)

\* A sleep, or any wait with a timeout: WakeAfterDelay on the running core.
Sleep(cycles) ==
    /\ pc = "svc"
    /\ thread' = [thread EXCEPT ![idx] = "sleep"]
    /\ ScheduleEvent(event_queue, cycles, idx)
    /\ UNCHANGED <<ts_queue, executed_ticks, table, unclean, host, interval, due>>
    /\ Resume(TRUE)

\* A service request that RunAsync hands to a host thread.
RunAsync ==
    /\ pc = "svc" /\ ~host[idx]
    /\ thread' = [thread EXCEPT ![idx] = "async"]
    /\ host' = [host EXCEPT ![idx] = TRUE]
    /\ UNCHANGED <<event_queue, ts_queue, sliceVars, table, unclean, interval, due>>
    /\ Resume(TRUE)

\* A host thread is about to wake the thread, or has scheduled its wakeup.
Awaited(c) ==
    host[c] \/ \E d \in Cores : \E i \in DOMAIN ts_queue[d] : ts_queue[d][i].of = c

\* Mutant of Stop: the threads' wakeups stay scheduled.
Stop_KeepsWakeups(victims, woken, halts) ==
    /\ pc = "svc" /\ (woken # {} \/ idx \in victims => halts)
    /\ thread' = [c \in Cores |-> IF c \notin victims THEN Resumed(woken)[c]
                                  ELSE IF c # idx /\ c \in Executing THEN "stopped" ELSE "dead"]
    /\ table' = table \ victims
    /\ unclean' = unclean \cup {c \in victims : Awaited(c) \/ (c # idx /\ c \in Executing)}
    /\ UNCHANGED <<event_queue, ts_queue, sliceVars, host, interval, due>>
    /\ Resume(halts)

\* Thread::Stop, of the executing thread (ExitThread) or of the threads of a process that it
\* terminates; it wakes some of the threads that wait for theirs or for their mutexes.
Stop(victims, woken, halts) ==
    /\ pc = "svc" /\ (woken # {} \/ idx \in victims => halts)
    /\ thread' = [c \in Cores |-> IF c \notin victims THEN Resumed(woken)[c]
                                  ELSE IF c # idx /\ c \in Executing THEN "stopped" ELSE "dead"]
    /\ event_queue' = Unscheduled(victims)
    /\ table' = table \ victims
    /\ unclean' = unclean \cup {c \in victims : Awaited(c) \/ (c # idx /\ c \in Executing)}
    /\ UNCHANGED <<ts_queue, sliceVars, host, interval, due>>
    /\ Resume(halts)

\* The host thread has its result: WakeAfterDelay(0, true).  It reads the timer's fields
\* while the emulation thread writes them.
HostWakes(c, skew) ==
    /\ host[c] /\ pc # "thrown"
    /\ host' = [host EXCEPT ![c] = FALSE]
    /\ ts_queue' = [ts_queue EXCEPT ![c] = Append(@,
           Event(GetTicks(c) + skew * MAX_SLICE_LENGTH + 2 * MAX_SLICE_LENGTH, c, "host"))]
    /\ UNCHANGED <<event_queue, sliceVars, loopVars, threadVars, interval, due>>

Svc ==
    \/ \E halts \in BOOLEAN :
        \/ \E woken \in SUBSET Sleepers :
            \/ Signal(woken, halts)
            \/ \E t \in Timers, initial, every \in Delays \cup {0} :
                   SetTimer(t, initial, every, woken, halts)
        \/ \E t \in Timers : CancelTimer(t, halts)
        \/ \E victims \in SUBSET (table \cup {idx}) : victims # {} /\
               \E woken \in SUBSET (Sleepers \ victims) : Stop(victims, woken, halts)
    \/ \E cycles \in Delays \cup {0} : Sleep(cycles)
    \/ RunAsync

\* The longest slice: of a delayed core.
Longest == MinDelay + MAX_SLICE_LENGTH + NumCores * MaxOvershoot

Emulation ==
    \/ MoveEvent \/ CountTicks \/ FireWakeup \/ EndAdvance
    \/ \E woken \in SUBSET Sleepers : FireTimer(woken)
    \/ SkipCore \/ CatchUp \/ StartSlice \/ EndRound \/ Idle
    \/ \E ticks \in 1..(Longest + MaxOvershoot) : Execute(ticks)
    \/ Svc

Host == \E c \in Cores, skew \in -MaxSkew..MaxSkew : HostWakes(c, skew)

Next == Emulation \/ Host

Spec == Init /\ [][Next]_vars

\* RunLoop is called again and again, and a host thread gets its result in the end.
FairSpec == Spec /\ WF_vars(Emulation)
                 /\ \A c \in Cores : WF_vars(\E skew \in -MaxSkew..MaxSkew : HostWakes(c, skew))

--------------------------------------------------------------------------------
Scheduled == UNION {event_queue[c] : c \in Cores}
Pending(c) == {i \in DOMAIN ts_queue[c] : ts_queue[c][i].of = c}
Wakeups(c) == {e \in event_queue[c] : e.of = c}

\* An event that was scheduled on the emulation thread is late by no more than the JIT
\* overshoots, however the rounds, catch-ups and halts of RunLoop fall.
LateByOvershoot ==
    \A c \in Cores : \A e \in event_queue[c] :
        e.origin = "core" /\ pc # "thrown" => GetTicks(c) - e.time <= MaxOvershoot

\* A timer has exactly one event, on one core, when it is set, and none otherwise; a
\* periodic timer does not drift, though each of its events may fire late.
TimersOnSchedule ==
    \A t \in Timers :
        /\ {e.time : e \in {x \in Scheduled : x.of = t}} = due[t]
        /\ \A c, d \in Cores : \A e \in event_queue[c], x \in event_queue[d] :
               e.of = t /\ x.of = t => c = d /\ e = x

\* A running thread has no wakeup on its way (ResumeFromWait's assertion "has already
\* resumed"), a sleeping one has exactly one, on its core, and one in RunAsync has its host
\* thread or exactly one event.
OneWakeup ==
    pc # "thrown" => \A c \in Cores :
        /\ thread[c] = "run" => ~host[c] /\ Pending(c) = {} /\ \A e \in Scheduled : e.of # c
        /\ thread[c] = "sleep" => ~host[c] /\ Pending(c) = {} /\ Cardinality(Wakeups(c)) = 1
        /\ thread[c] = "async" =>
               (IF host[c] THEN 1 ELSE 0) + Cardinality(Pending(c)) + Cardinality(Wakeups(c)) = 1

\* Thread::Stop ends a thread for good ("Cancel any outstanding wakeup events for this
\* thread") if it is neither current on another core nor waiting for a host thread: such a
\* thread never executes or waits again, and no event of its, for which
\* wakeup_callback_table.at() would throw, is or comes into any queue.
StopIsFinal ==
    \A c \in Cores \ (table \cup unclean) :
        thread[c] = "dead" /\ ~Awaited(c) /\ \A e \in Scheduled : e.of # c

\* The cores drift apart by no more than what RunLoop tolerates, one slice, and an
\* overshoot per core: max_slice hands the overshoot of a core on to the next one.
DesyncBounded == pc # "thrown" => GetGlobalTicks - Slowest <= Longest

\* A sleep ends and a host thread's result arrives, on whatever core and whatever the other
\* cores do.
SleepersWake ==
    \A c \in Cores : thread[c] \in {"sleep", "async"} ~>
                         (thread[c] \notin {"sleep", "async"} \/ pc = "thrown")
=============================================================================
