--------------------------- MODULE CoreTiming_proofs ---------------------------
(***************************************************************************)
(* For any cores, timers and delays: what Thread::Stop ends for good.      *)
(* Times play no part in the argument, so nothing is said of their type.   *)
(***************************************************************************)
EXTENDS CoreTiming, TLAPS

Statuses == {"run", "ready", "sleep", "async", "stopped", "dead"}

\* The threads that Stop found neither current on another core nor awaited by a host thread.
Final == Cores \ (table \cup unclean)

\* An event is a record with these four fields.
IsEvent(e) ==
    e = [time |-> e.time, of |-> e.of, origin |-> e.origin, fifo_order |-> e.fifo_order]

\* e is an event of something that has not ended for good.
Allowed(e) == IsEvent(e) /\ e.of \notin Final

\* e stands for the same wakeup or timer as an event of q.
From(e, q) == IsEvent(e) /\ \E x \in q : x.of = e.of

Queues ==
    /\ event_queue = [c \in Cores |-> event_queue[c]]
    /\ \A c \in Cores : \A e \in event_queue[c] : Allowed(e)

HostQueues == \E S : (\A e \in S : Allowed(e)) /\ ts_queue \in [Cores -> Seq(S)]

Threads ==
    /\ thread \in [Cores -> Statuses] /\ host \in [Cores -> BOOLEAN]
    /\ \A c \in Final : thread[c] = "dead" /\ host[c] = FALSE

\* An SVC is made by an executing thread, and Advance works on a core.
Control ==
    /\ pc = "svc" => idx \in Executing
    /\ draining => pc \in {"delayed", "synced"} /\ idx \in Cores

IInv == Queues /\ HostQueues /\ Threads /\ Control

--------------------------------------------------------------------------------
\* Taking events out of a heap renumbers the others.
LEMMA WithoutFrom ==
    ASSUME NEW q, \A e \in q : IsEvent(e), NEW gone, NEW x \in Without(q, gone)
    PROVE  From(x, q \ gone)
  <1>1. PICK e \in q \ gone : x = [e EXCEPT !.fifo_order =
                                     Cardinality({y \in q \ gone : y.fifo_order < e.fifo_order})]
    BY DEF Without
  <1>2. IsEvent(e) BY <1>1
  <1> QED BY <1>1, <1>2 DEF From, IsEvent

\* Pushing an event numbers it.
LEMMA PushFrom ==
    ASSUME NEW q, NEW e, IsEvent(e), NEW x \in Push(q, e)
    PROVE  x \in q \/ From(x, {e})
  <1> SUFFICES ASSUME x \notin q PROVE From(x, {e}) OBVIOUS
  <1>1. x = [e EXCEPT !.fifo_order = Cardinality(q)] BY DEF Push
  <1> QED BY <1>1 DEF From, IsEvent

\* An event as ScheduleEvent makes it.
LEMMA EventIsEvent ==
    ASSUME NEW time, NEW of, NEW origin
    PROVE  IsEvent(Event(time, of, origin)) /\ Event(time, of, origin).of = of
  BY DEF IsEvent, Event

\* What a step has to keep that stops no thread: its events are allowed, or stand for events
\* that the core had before.
LEMMA StepIInv ==
    ASSUME IInv, UNCHANGED <<table, unclean>>, Threads', HostQueues', Control',
           event_queue' = [c \in Cores |-> event_queue'[c]],
           \A d \in Cores : \A x \in event_queue'[d] : Allowed(x) \/ From(x, event_queue[d])
    PROVE  IInv'
  <1>1. Final' = Final BY DEF Final
  <1>2. \A x : Allowed(x)' <=> Allowed(x) BY <1>1 DEF Allowed
  <1>3. ASSUME NEW d \in Cores, NEW x \in event_queue'[d] PROVE Allowed(x)
    <2>1. CASE From(x, event_queue[d])
      <3>1. PICK e \in event_queue[d] : e.of = x.of BY <2>1 DEF From
      <3>2. Allowed(e) BY <3>1 DEF IInv, Queues
      <3> QED BY <2>1, <3>1, <3>2 DEF From, Allowed
    <2> QED BY <1>3, <2>1
  <1>4. Queues' BY <1>2, <1>3 DEF Queues
  <1> QED BY <1>4 DEF IInv

\* The queues of host events that a step leaves alone.
LEMMA SameHostQueues ==
    ASSUME IInv, UNCHANGED <<ts_queue, table, unclean>>
    PROVE  HostQueues'
  <1>1. Final' = Final BY DEF Final
  <1> QED BY <1>1 DEF IInv, HostQueues, Allowed

\* The event queues of a step that leaves them alone.
LEMMA SameEvents ==
    ASSUME IInv, event_queue' = event_queue
    PROVE  /\ event_queue' = [c \in Cores |-> event_queue'[c]]
           /\ \A d \in Cores : \A x \in event_queue'[d] : Allowed(x)
  BY DEF IInv, Queues

\* A step that leaves the queues and the threads alone.
LEMMA QuietStep ==
    ASSUME IInv, UNCHANGED <<event_queue, ts_queue, threadVars, host>>, Control'
    PROVE  IInv'
  <1>1. UNCHANGED <<event_queue, ts_queue, thread, table, unclean, host>> BY DEF threadVars
  <1>2. Final' = Final BY <1>1 DEF Final
  <1>3. Threads' BY <1>1, <1>2 DEF IInv, Threads
  <1> QED BY <1>1, <1>3, SameHostQueues, SameEvents, StepIInv

\* After an SVC no SVC is made.
LEMMA ResumeLeaves == ASSUME IInv, pc = "svc", NEW halts, Resume(halts) PROVE Control'
  <1>1. draining' = draining /\ pc' \in {"slices", "run"} BY DEF Resume, EndRun
  <1>2. ~draining BY DEF IInv, Control
  <1> QED BY <1>1, <1>2 DEF Control

\* UnscheduleEvent keeps the events of others.
LEMMA UnscheduledFrom ==
    ASSUME IInv, NEW of
    PROVE  /\ Unscheduled(of) = [c \in Cores |-> Unscheduled(of)[c]]
           /\ \A d \in Cores : \A x \in Unscheduled(of)[d] :
                From(x, event_queue[d]) /\ x.of \notin of
  <1>1. ASSUME NEW d \in Cores, NEW x \in Unscheduled(of)[d]
        PROVE  From(x, event_queue[d]) /\ x.of \notin of
    <2>1. x \in Without(event_queue[d], {e \in event_queue[d] : e.of \in of})
      BY <1>1 DEF Unscheduled
    <2>2. From(x, event_queue[d] \ {e \in event_queue[d] : e.of \in of})
      BY <2>1, WithoutFrom DEF IInv, Queues, Allowed
    <2> QED BY <2>2 DEF From
  <1>2. Unscheduled(of) = [c \in Cores |-> Unscheduled(of)[c]] BY DEF Unscheduled
  <1> QED BY <1>1, <1>2

\* What ScheduleEvent adds to the queues that the handler has left.
LEMMA ScheduleFrom ==
    ASSUME NEW queues, queues = [c \in Cores |-> queues[c]], NEW cycles, NEW of,
           ScheduleEvent(queues, cycles, of), of \notin Final
    PROVE  /\ event_queue' = [c \in Cores |-> event_queue'[c]]
           /\ \A d \in Cores : \A x \in event_queue'[d] : x \in queues[d] \/ Allowed(x)
  <1> DEFINE new == Event(GetTicks(idx) + cycles, of, "core")
  <1>1. event_queue' = [queues EXCEPT ![idx] = Push(queues[idx], new)] BY DEF ScheduleEvent
  <1>2. IsEvent(new) /\ new.of = of BY EventIsEvent
  <1> HIDE DEF new
  <1>3. \A x \in Push(queues[idx], new) : x \in queues[idx] \/ From(x, {new}) BY <1>2, PushFrom
  <1>4. event_queue' = [c \in Cores |-> IF c = idx THEN Push(queues[idx], new) ELSE queues[c]]
    BY <1>1
  <1>5. \A x : From(x, {new}) => Allowed(x) BY <1>2 DEF From, Allowed
  <1> QED BY <1>3, <1>4, <1>5

\* Threads that are resumed had not ended, and nothing else changes.
LEMMA ResumedThreads ==
    ASSUME IInv, NEW woken, woken \cap Final = {}, thread' = Resumed(woken),
           UNCHANGED <<table, unclean, host>>
    PROVE  Threads'
  <1>1. Final' = Final /\ Final \subseteq Cores BY DEF Final
  <1>2. thread' \in [Cores -> Statuses] BY DEF IInv, Threads, Resumed, Statuses
  <1>3. \A c \in Final : thread'[c] = thread[c] BY <1>1 DEF Resumed
  <1> QED BY <1>1, <1>2, <1>3 DEF IInv, Threads

\* Sleeping threads have not ended.
LEMMA SleepersNotFinal == IInv => Sleepers \cap Final = {}
  BY DEF IInv, Threads, Sleepers

\* SwitchContext on some cores takes away events and revives no thread.
LEMMA SwitchFrom ==
    ASSUME IInv, NEW cores, thread' = Rescheduled(cores), UNCHANGED <<table, unclean, host>>
    PROVE  /\ Threads'
           /\ AfterSwitch(cores) = [c \in Cores |-> AfterSwitch(cores)[c]]
           /\ \A d \in Cores : \A x \in AfterSwitch(cores)[d] : From(x, event_queue[d])
  <1>1. Threads'
    <2>1. Final' = Final /\ Final \subseteq Cores BY DEF Final
    <2>2. thread' \in [Cores -> Statuses] BY DEF IInv, Threads, Rescheduled, Statuses
    <2>3. \A c \in Final : thread'[c] = thread[c] BY <2>1 DEF IInv, Threads, Rescheduled
    <2> QED BY <2>1, <2>2, <2>3 DEF IInv, Threads
  <1>2. AfterSwitch(cores) = [c \in Cores |-> AfterSwitch(cores)[c]] BY DEF AfterSwitch
  <1>3. ASSUME NEW d \in Cores, NEW x \in AfterSwitch(cores)[d]
        PROVE  From(x, event_queue[d])
    <2>1. PICK gone : x \in Without(event_queue[d], gone) BY <1>3 DEF AfterSwitch
    <2>2. From(x, event_queue[d] \ gone) BY <2>1, WithoutFrom DEF IInv, Queues, Allowed
    <2> QED BY <2>2 DEF From
  <1> QED BY <1>1, <1>2, <1>3

--------------------------------------------------------------------------------
\* The initial state.
LEMMA InitIInv == Init => IInv
  <1> SUFFICES ASSUME Init PROVE IInv OBVIOUS
  <1>1. Queues BY DEF Init, Queues
  <1>2. HostQueues
    <2>1. ts_queue \in [Cores -> Seq({})] BY DEF Init
    <2> QED BY <2>1 DEF HostQueues
  <1>3. Threads BY DEF Init, Threads, Statuses, Final
  <1>4. Control BY DEF Init, Control
  <1> QED BY <1>1, <1>2, <1>3, <1>4 DEF IInv

\* Timer::Advance moves the events of ts_queue.
LEMMA MoveEventStep == ASSUME IInv, MoveEvent PROVE IInv'
  <1>1. PICK S : (\A e \in S : Allowed(e)) /\ ts_queue \in [Cores -> Seq(S)]
    BY DEF IInv, HostQueues
  <1>2. /\ idx \in Cores /\ ts_queue[idx] # <<>>
        /\ UNCHANGED <<thread, table, unclean, host, pc, idx, draining>>
        /\ event_queue' = [event_queue EXCEPT ![idx] = Push(event_queue[idx], Head(ts_queue[idx]))]
        /\ ts_queue' = [ts_queue EXCEPT ![idx] = Tail(ts_queue[idx])]
    BY DEF MoveEvent, AtAdvance, userVars, threadVars, loopVars
  <1>3. Head(ts_queue[idx]) \in S /\ Tail(ts_queue[idx]) \in Seq(S) BY <1>1, <1>2
  <1>4. Final' = Final BY <1>2 DEF Final
  <1>5. HostQueues'
    <2>1. ts_queue' \in [Cores -> Seq(S)] BY <1>1, <1>2, <1>3
    <2> QED BY <1>1, <1>4, <2>1 DEF HostQueues, Allowed
  <1> DEFINE h == Head(ts_queue[idx])
  <1>6. Allowed(h) BY <1>1, <1>3
  <1>7. event_queue' = [c \in Cores |-> IF c = idx THEN Push(event_queue[idx], h) ELSE event_queue[c]]
    BY <1>2 DEF IInv, Queues
  <1> HIDE DEF h
  <1>8. \A x \in Push(event_queue[idx], h) : Allowed(x)
    <2>1. \A x \in Push(event_queue[idx], h) : x \in event_queue[idx] \/ From(x, {h})
      BY <1>6, PushFrom DEF Allowed
    <2>2. \A x : From(x, {h}) => Allowed(x) BY <1>6 DEF From, Allowed
    <2> QED BY <1>2, <2>1, <2>2 DEF IInv, Queues
  <1>9. \A d \in Cores : \A x \in event_queue'[d] : Allowed(x) BY <1>7, <1>8 DEF IInv, Queues
  <1>10. Threads' /\ Control' BY <1>2, <1>4 DEF IInv, Threads, Control, Executing
  <1>11. event_queue' = [c \in Cores |-> event_queue'[c]] BY <1>7
  <1> QED BY <1>2, <1>5, <1>9, <1>10, <1>11, StepIInv

\* Taking one event off the heap of core idx.
LEMMA RestFrom ==
    ASSUME IInv, NEW e, NEW rest, rest = [event_queue EXCEPT ![idx] = Without(event_queue[idx], {e})]
    PROVE  /\ rest = [c \in Cores |-> rest[c]]
           /\ \A d \in Cores : \A x \in rest[d] : From(x, event_queue[d])
  <1>1. rest = [c \in Cores |-> IF c = idx THEN Without(event_queue[idx], {e}) ELSE event_queue[c]]
    BY DEF IInv, Queues
  <1>2. ASSUME NEW d \in Cores, NEW x \in rest[d] PROVE From(x, event_queue[d])
    <2>1. CASE d # idx
      <3>1. x \in event_queue[d] BY <1>1, <1>2, <2>1
      <3> QED BY <3>1 DEF From, IInv, Queues, Allowed
    <2>2. CASE d = idx
      <3>1. x \in Without(event_queue[d], {e}) BY <1>1, <1>2, <2>2
      <3>2. From(x, event_queue[d] \ {e}) BY <3>1, <2>2, WithoutFrom DEF IInv, Queues, Allowed
      <3> QED BY <3>2 DEF From
    <2> QED BY <2>1, <2>2
  <1>3. rest = [c \in Cores |-> rest[c]] BY <1>1
  <1> QED BY <1>2, <1>3

\* TimerCallback.
LEMMA FireTimerStep ==
    ASSUME IInv, NEW woken \in SUBSET Sleepers, FireTimer(woken) PROVE IInv'
  <1> DEFINE e == Front(event_queue[idx])
             rest == [event_queue EXCEPT ![idx] = Without(event_queue[idx], {e})]
  <1>1. /\ draining /\ e.of \in Timers /\ thread' = Resumed(woken)
        /\ UNCHANGED <<ts_queue, table, unclean, host, pc, idx, draining>>
        /\ \/ ScheduleEvent(rest, interval[e.of] - (executed_ticks[idx] - e.time), e.of)
           \/ event_queue' = rest
    BY DEF FireTimer, loopVars
  <1>2. /\ rest = [c \in Cores |-> rest[c]]
        /\ \A d \in Cores : \A x \in rest[d] : From(x, event_queue[d])
    BY RestFrom
  <1> HIDE DEF e, rest
  <1>3. Threads' BY <1>1, ResumedThreads, SleepersNotFinal
  <1>4. e.of \notin Final BY <1>1, TimingAssumption DEF Final
  <1>5. HostQueues' BY <1>1, SameHostQueues
  <1>6. Control' BY <1>1 DEF IInv, Control
  <1>7. CASE event_queue' = rest BY <1>1, <1>2, <1>3, <1>5, <1>6, <1>7, StepIInv
  <1>8. CASE ScheduleEvent(rest, interval[e.of] - (executed_ticks[idx] - e.time), e.of)
    <2>1. /\ event_queue' = [c \in Cores |-> event_queue'[c]]
          /\ \A d \in Cores : \A x \in event_queue'[d] : x \in rest[d] \/ Allowed(x)
      BY <1>2, <1>4, <1>8, ScheduleFrom
    <2> QED BY <1>1, <1>2, <1>3, <1>5, <1>6, <2>1, StepIInv
  <1> QED BY <1>1, <1>7, <1>8

\* ThreadWakeupCallback resumes only threads of wakeup_callback_table.
LEMMA FireWakeupStep == ASSUME IInv, FireWakeup PROVE IInv'
  <1> DEFINE e == Front(event_queue[idx])
             woken == {e.of} \cap {c \in Cores : thread[c] # "run"}
  <1>1. /\ event_queue' = [event_queue EXCEPT ![idx] = Without(event_queue[idx], {e})]
        /\ draining /\ UNCHANGED <<ts_queue, table, unclean, host, idx>>
        /\ \/ thread' = thread /\ pc' = "thrown" /\ draining' = FALSE
           \/ e.of \in table /\ thread' = Resumed(woken) /\ UNCHANGED <<pc, draining>>
    BY DEF FireWakeup
  <1>2. e.of \in table => woken \cap Final = {} BY DEF Final
  <1>3. /\ event_queue' = [c \in Cores |-> event_queue'[c]]
        /\ \A d \in Cores : \A x \in event_queue'[d] : From(x, event_queue[d])
    BY <1>1, RestFrom
  <1> HIDE DEF e, woken
  <1>4. Threads'
    <2>1. CASE thread' = thread
      <3>1. Final' = Final BY <1>1 DEF Final
      <3> QED BY <1>1, <2>1, <3>1 DEF IInv, Threads
    <2>2. CASE e.of \in table /\ thread' = Resumed(woken) BY <1>1, <1>2, <2>2, ResumedThreads
    <2> QED BY <1>1, <2>1, <2>2
  <1>5. HostQueues' BY <1>1, SameHostQueues
  <1>6. Control' BY <1>1 DEF IInv, Control
  <1> QED BY <1>1, <1>3, <1>4, <1>5, <1>6, StepIInv

\* The end of Advance, with its Reschedule.
LEMMA EndAdvanceStep == ASSUME IInv, EndAdvance PROVE IInv'
  <1>1. /\ event_queue' = AfterSwitch({idx}) /\ thread' = Rescheduled({idx})
        /\ draining /\ draining' = FALSE /\ UNCHANGED <<ts_queue, pc, table, unclean, host>>
    BY DEF EndAdvance
  <1>2. HostQueues' BY <1>1, SameHostQueues
  <1>3. /\ Threads' /\ event_queue' = [c \in Cores |-> event_queue'[c]]
        /\ \A d \in Cores : \A x \in event_queue'[d] : From(x, event_queue[d])
    BY <1>1, SwitchFrom
  <1>4. Control' BY <1>1 DEF IInv, Control
  <1> QED BY <1>1, <1>2, <1>3, <1>4, StepIInv

\* Counting ticks from another time changes no event otherwise.
LEMMA RebasedEvent ==
    ASSUME NEW e, IsEvent(e), NEW time
    PROVE  LET x == [e EXCEPT !.time = time] IN IsEvent(x) /\ x.of = e.of
  BY DEF IsEvent

\* The end of a round of RunLoop.
LEMMA EndRoundStep == ASSUME IInv, EndRound PROVE IInv'
  <1> DEFINE left == AfterSwitch(Cores)
  <1>1. /\ thread' = Rescheduled(Cores) /\ UNCHANGED <<table, unclean, host, draining>>
        /\ event_queue' = [c \in Cores |-> {[e EXCEPT !.time = Rebased(e.time)] : e \in left[c]}]
        /\ ts_queue' = [c \in Cores |-> [i \in DOMAIN ts_queue[c] |->
                           [ts_queue[c][i] EXCEPT !.time = Rebased(ts_queue[c][i].time)]]]
        /\ pc = "slices" /\ pc' = "delayed"
    BY DEF EndRound
  <1>2. Threads' /\ \A d \in Cores : \A x \in left[d] : From(x, event_queue[d])
    BY <1>1, SwitchFrom
  <1> HIDE DEF left
  <1>3. event_queue' = [c \in Cores |-> event_queue'[c]] BY <1>1
  <1>4. ASSUME NEW d \in Cores, NEW x \in event_queue'[d] PROVE From(x, event_queue[d])
    <2>1. PICK e \in left[d] : x = [e EXCEPT !.time = Rebased(e.time)] BY <1>1, <1>4
    <2>2. From(e, event_queue[d]) BY <1>2
    <2>3. IsEvent(x) /\ x.of = e.of BY <2>1, <2>2, RebasedEvent DEF From
    <2> QED BY <2>2, <2>3 DEF From
  <1>5. HostQueues'
    <2>1. PICK S : (\A e \in S : Allowed(e)) /\ ts_queue \in [Cores -> Seq(S)]
      BY DEF IInv, HostQueues
    <2> DEFINE R == {[e EXCEPT !.time = Rebased(e.time)] : e \in S}
    <2>2. \A x \in R : Allowed(x)
      <3> SUFFICES ASSUME NEW e \in S PROVE Allowed([e EXCEPT !.time = Rebased(e.time)]) OBVIOUS
      <3>1. Allowed(e) BY <2>1
      <3> QED BY <3>1, RebasedEvent DEF Allowed
    <2>3. ASSUME NEW c \in Cores PROVE ts_queue'[c] \in Seq(R)
      <3> DEFINE q == ts_queue[c]
      <3>1. q \in Seq(S) BY <2>1
      <3>2. ts_queue'[c] = [i \in DOMAIN q |-> [q[i] EXCEPT !.time = Rebased(q[i].time)]] BY <1>1
      <3> HIDE DEF q
      <3>3. Len(q) \in Nat /\ DOMAIN q = 1..Len(q) /\ \A i \in 1..Len(q) : q[i] \in S BY <3>1
      <3>4. \A i \in 1..Len(q) : [q[i] EXCEPT !.time = Rebased(q[i].time)] \in R BY <3>3
      <3> HIDE DEF R
      <3>5. ts_queue'[c] \in [1..Len(q) -> R] BY <3>2, <3>3, <3>4, Zenon
      <3> QED BY <3>3, <3>5
    <2> HIDE DEF R
    <2>4. ts_queue' = [c \in Cores |-> ts_queue'[c]] BY <1>1
    <2>5. ts_queue' \in [Cores -> Seq(R)] BY <2>3, <2>4
    <2>6. Final' = Final BY <1>1 DEF Final
    <2> QED BY <2>2, <2>5, <2>6 DEF HostQueues, Allowed
  <1>6. Control' BY <1>1 DEF IInv, Control
  <1> QED BY <1>1, <1>2, <1>3, <1>4, <1>5, <1>6, StepIInv

\* Any SVC that only wakes threads.
LEMMA SignalStep ==
    ASSUME IInv, NEW woken \in SUBSET Sleepers, NEW halts, Signal(woken, halts) PROVE IInv'
  <1>1. /\ thread' = Resumed(woken) /\ UNCHANGED <<event_queue, ts_queue, table, unclean, host>>
        /\ pc = "svc" /\ Resume(halts)
    BY DEF Signal
  <1>2. Threads' BY <1>1, ResumedThreads, SleepersNotFinal
  <1> QED BY <1>1, <1>2, ResumeLeaves, SameHostQueues, SameEvents, StepIInv

\* Timer::Set.
LEMMA SetTimerStep ==
    ASSUME IInv, NEW t \in Timers, NEW initial, NEW every, NEW woken \in SUBSET Sleepers, NEW halts,
           SetTimer(t, initial, every, woken, halts)
    PROVE  IInv'
  <1> DEFINE cycles == IF initial = 0 THEN every ELSE initial
             rest == Unscheduled({t})
  <1>1. /\ thread' = Resumed(woken) /\ UNCHANGED <<ts_queue, table, unclean, host>>
        /\ event_queue' = rest \/ ScheduleEvent(rest, cycles, t)
        /\ pc = "svc" /\ Resume(halts)
    BY DEF SetTimer
  <1>2. /\ rest = [c \in Cores |-> rest[c]]
        /\ \A d \in Cores : \A x \in rest[d] : From(x, event_queue[d])
    BY UnscheduledFrom
  <1> HIDE DEF cycles, rest
  <1>3. Threads' BY <1>1, ResumedThreads, SleepersNotFinal
  <1>4. HostQueues' /\ Control' BY <1>1, SameHostQueues, ResumeLeaves
  <1>5. t \notin Final BY TimingAssumption DEF Final
  <1>6. CASE event_queue' = rest BY <1>1, <1>2, <1>3, <1>4, <1>6, StepIInv
  <1>7. CASE ScheduleEvent(rest, cycles, t)
    <2>1. /\ event_queue' = [c \in Cores |-> event_queue'[c]]
          /\ \A d \in Cores : \A x \in event_queue'[d] : x \in rest[d] \/ Allowed(x)
      BY <1>2, <1>5, <1>7, ScheduleFrom
    <2> QED BY <1>1, <1>2, <1>3, <1>4, <2>1, StepIInv
  <1> QED BY <1>1, <1>6, <1>7

\* Timer::Cancel.
LEMMA CancelTimerStep ==
    ASSUME IInv, NEW t \in Timers, NEW halts, CancelTimer(t, halts) PROVE IInv'
  <1>1. /\ UNCHANGED <<thread, table, unclean, ts_queue, host>> /\ event_queue' = Unscheduled({t})
        /\ pc = "svc" /\ Resume(halts)
    BY DEF CancelTimer, threadVars
  <1>2. Final' = Final BY <1>1 DEF Final
  <1>3. Threads' BY <1>1, <1>2 DEF IInv, Threads
  <1>4. HostQueues' /\ Control' BY <1>1, SameHostQueues, ResumeLeaves
  <1>5. /\ event_queue' = [c \in Cores |-> event_queue'[c]]
        /\ \A d \in Cores : \A x \in event_queue'[d] : From(x, event_queue[d])
    BY <1>1, UnscheduledFrom
  <1> QED BY <1>1, <1>3, <1>4, <1>5, StepIInv

\* A thread that makes an SVC has not ended for good.
LEMMA CallerNotFinal == IInv /\ pc = "svc" => idx \in Cores /\ idx \notin Final
  BY DEF IInv, Control, Threads, Executing

\* A sleep, of a stopped thread too: the event is of the thread that executes.
LEMMA SleepStep == ASSUME IInv, NEW cycles, Sleep(cycles) PROVE IInv'
  <1>1. /\ thread' = [thread EXCEPT ![idx] = "sleep"]
        /\ UNCHANGED <<ts_queue, table, unclean, host>>
        /\ ScheduleEvent(event_queue, cycles, idx) /\ pc = "svc" /\ Resume(TRUE)
    BY DEF Sleep
  <1>2. idx \in Cores /\ idx \notin Final BY <1>1, CallerNotFinal
  <1>3. Final' = Final BY <1>1 DEF Final
  <1>4. Threads' BY <1>1, <1>2, <1>3 DEF IInv, Threads, Statuses
  <1>5. HostQueues' /\ Control' BY <1>1, SameHostQueues, ResumeLeaves
  <1>6. /\ event_queue' = [c \in Cores |-> event_queue'[c]]
        /\ \A d \in Cores : \A x \in event_queue'[d] : x \in event_queue[d] \/ Allowed(x)
    BY <1>1, <1>2, ScheduleFrom DEF IInv, Queues
  <1> QED BY <1>1, <1>4, <1>5, <1>6, StepIInv DEF IInv, Queues

\* RunAsync.
LEMMA RunAsyncStep == ASSUME IInv, RunAsync PROVE IInv'
  <1>1. /\ thread' = [thread EXCEPT ![idx] = "async"] /\ host' = [host EXCEPT ![idx] = TRUE]
        /\ UNCHANGED <<event_queue, ts_queue, table, unclean>> /\ pc = "svc" /\ Resume(TRUE)
    BY DEF RunAsync
  <1>2. idx \in Cores /\ idx \notin Final BY <1>1, CallerNotFinal
  <1>3. Final' = Final BY <1>1 DEF Final
  <1>4. Threads' BY <1>1, <1>2, <1>3 DEF IInv, Threads, Statuses
  <1> QED BY <1>1, <1>4, ResumeLeaves, SameHostQueues, SameEvents, StepIInv

\* Thread::Stop: a thread that has now ended for good was not awaited, does not execute, and
\* has no event left.
LEMMA StopStep ==
    ASSUME IInv, NEW victims, NEW woken \in SUBSET (Sleepers \ victims), NEW halts,
           Stop(victims, woken, halts)
    PROVE  IInv'
  <1>1. /\ thread' = [c \in Cores |-> IF c \notin victims THEN Resumed(woken)[c]
                        ELSE IF c # idx /\ c \in Executing THEN "stopped" ELSE "dead"]
        /\ event_queue' = Unscheduled(victims) /\ UNCHANGED <<ts_queue, host>>
        /\ table' = table \ victims
        /\ unclean' = unclean \cup {c \in victims : Awaited(c) \/ (c # idx /\ c \in Executing)}
        /\ pc = "svc" /\ Resume(halts)
    BY DEF Stop
  <1>2. ASSUME NEW c \in Final'
        PROVE  /\ c \in Cores
               /\ c \notin victims => c \in Final
               /\ c \in victims => ~Awaited(c) /\ ~(c # idx /\ c \in Executing)
    BY <1>1, <1>2 DEF Final
  <1>3. Threads'
    <2>1. thread' \in [Cores -> Statuses]
      <3>1. \A c \in Cores : Resumed(woken)[c] \in Statuses
        BY DEF IInv, Threads, Resumed, Statuses
      <3> QED BY <1>1, <3>1 DEF Statuses
    <2>2. ASSUME NEW c \in Final' PROVE thread'[c] = "dead" /\ host'[c] = FALSE
      <3>1. CASE c \in victims
        <4>1. thread'[c] = "dead" BY <1>1, <1>2, <3>1
        <4>2. host[c] = FALSE BY <1>2, <3>1 DEF Awaited, IInv, Threads
        <4> QED BY <1>1, <4>1, <4>2
      <3>2. CASE c \notin victims
        <4>1. c \in Final /\ c \in Cores BY <1>2, <3>2
        <4>2. thread[c] = "dead" /\ host[c] = FALSE BY <4>1 DEF IInv, Threads
        <4>3. c \notin woken BY <4>1, SleepersNotFinal
        <4>4. thread'[c] = thread[c] BY <1>1, <3>2, <4>1, <4>3 DEF Resumed
        <4> QED BY <1>1, <4>2, <4>4
      <3> QED BY <3>1, <3>2
    <2> QED BY <1>1, <2>1, <2>2 DEF IInv, Threads
  <1>4. HostQueues'
    <2>1. PICK S : (\A e \in S : Allowed(e)) /\ ts_queue \in [Cores -> Seq(S)]
      BY DEF IInv, HostQueues
    <2> DEFINE R == {e \in S : e.of \notin Final'}
    <2>2. \A e \in R : Allowed(e)' BY <2>1 DEF Allowed
    <2>3. ASSUME NEW d \in Cores PROVE ts_queue[d] \in Seq(R)
      <3> DEFINE q == ts_queue[d]
      <3>1. q \in Seq(S) BY <2>1
      <3>2. Len(q) \in Nat /\ DOMAIN q = 1..Len(q) /\ \A i \in 1..Len(q) : q[i] \in S BY <3>1
      <3>3. ASSUME NEW i \in 1..Len(q) PROVE q[i] \in R
        <4>1. q[i] \in S /\ Allowed(q[i]) BY <2>1, <3>2
        <4>2. Awaited(q[i].of) BY <3>2 DEF Awaited
        <4>3. q[i].of \notin Final' BY <1>2, <4>1, <4>2 DEF Allowed
        <4> QED BY <4>1, <4>3
      <3>4. q = [i \in 1..Len(q) |-> q[i]] BY <3>1, <3>2
      <3> HIDE DEF q, R
      <3>5. q \in [1..Len(q) -> R] BY <3>3, <3>4
      <3>6. q \in Seq(R) BY <3>2, <3>5
      <3> QED BY <3>6 DEF q
    <2> HIDE DEF R
    <2>4. ts_queue' \in [Cores -> Seq(R)] BY <1>1, <2>1, <2>3
    <2> QED BY <2>2, <2>4 DEF HostQueues
  <1>5. Queues'
    <2>1. /\ event_queue' = [d \in Cores |-> event_queue'[d]]
          /\ \A d \in Cores : \A x \in event_queue'[d] :
                From(x, event_queue[d]) /\ x.of \notin victims
      BY <1>1, UnscheduledFrom
    <2>2. ASSUME NEW d \in Cores, NEW x \in event_queue'[d] PROVE Allowed(x)'
      <3>1. PICK e \in event_queue[d] : e.of = x.of BY <2>1, <2>2 DEF From
      <3>2. x.of \notin Final BY <3>1 DEF IInv, Queues, Allowed
      <3>3. x.of \notin Final' BY <1>2, <2>1, <2>2, <3>2
      <3>4. IsEvent(x) BY <2>1, <2>2 DEF From
      <3> QED BY <3>3, <3>4 DEF Allowed
    <2> QED BY <2>1, <2>2 DEF Queues
  <1>6. Control' BY <1>1, ResumeLeaves
  <1> QED BY <1>3, <1>4, <1>5, <1>6 DEF IInv

\* A host thread's WakeAfterDelay.
LEMMA HostWakesStep == ASSUME IInv, NEW c \in Cores, NEW skew, HostWakes(c, skew) PROVE IInv'
  <1> DEFINE e == Event(GetTicks(c) + skew * MAX_SLICE_LENGTH + 2 * MAX_SLICE_LENGTH, c, "host")
  <1>1. /\ ts_queue' = [ts_queue EXCEPT ![c] = Append(ts_queue[c], e)]
        /\ host' = [host EXCEPT ![c] = FALSE] /\ host[c]
        /\ UNCHANGED <<event_queue, thread, table, unclean, pc, idx, draining>>
    BY DEF HostWakes, threadVars, loopVars
  <1>2. Final' = Final BY <1>1 DEF Final
  <1>3. Allowed(e) BY <1>1, EventIsEvent DEF Allowed, IInv, Threads
  <1> HIDE DEF e
  <1>4. HostQueues'
    <2>1. PICK S : (\A x \in S : Allowed(x)) /\ ts_queue \in [Cores -> Seq(S)]
      BY DEF IInv, HostQueues
    <2> DEFINE R == S \cup {e}
    <2>2. \A x \in R : Allowed(x) BY <1>3, <2>1
    <2>3. ts_queue' \in [Cores -> Seq(R)]
      <3>1. \A q \in Seq(S) : q \in Seq(R) OBVIOUS
      <3>2. e \in R OBVIOUS
      <3> HIDE DEF R
      <3>3. Append(ts_queue[c], e) \in Seq(R) BY <2>1, <3>1, <3>2
      <3> QED BY <1>1, <2>1, <3>1, <3>3
    <2> HIDE DEF R
    <2> QED BY <1>2, <2>2, <2>3 DEF HostQueues, Allowed
  <1>5. Threads' BY <1>1, <1>2 DEF IInv, Threads
  <1>6. Control' BY <1>1 DEF IInv, Control, Executing
  <1> QED BY <1>1, <1>4, <1>5, <1>6, SameEvents, StepIInv

--------------------------------------------------------------------------------
\* The steps of RunLoop that neither touch a queue nor a thread.
LEMMA LoopStep ==
    ASSUME IInv, CountTicks \/ SkipCore \/ CatchUp \/ StartSlice \/ Idle
                 \/ \E ticks \in 1..(Longest + MaxOvershoot) : Execute(ticks)
    PROVE  IInv'
  <1>1. UNCHANGED <<event_queue, ts_queue, threadVars, host>>
    BY DEF CountTicks, SkipCore, CatchUp, StartSlice, Idle, Execute, userVars
  <1>2. NumCores \notin Cores BY TimingAssumption DEF Cores
  <1>3. Control'
    <2>1. CASE CountTicks BY <2>1 DEF CountTicks, AtAdvance, Control
    <2>2. CASE SkipCore BY <2>2 DEF SkipCore, Control
    <2>3. CASE CatchUp BY <1>2, <2>3 DEF CatchUp, IInv, Control
    <2>4. CASE StartSlice BY <1>2, <2>4 DEF StartSlice, IInv, Control
    <2>5. CASE Idle BY <2>5 DEF Idle, EndRun, IInv, Control
    <2>6. CASE \E ticks \in 1..(Longest + MaxOvershoot) : Execute(ticks)
      <3>1. PICK ticks : Execute(ticks) BY <2>6
      <3>2. /\ pc = "run" /\ pc' = "svc" /\ idx \in Executing
            /\ UNCHANGED <<idx, draining, thread>>
        BY <3>1 DEF Execute, userVars, threadVars
      <3> QED BY <3>2 DEF IInv, Control, Executing
    <2> QED BY <2>1, <2>2, <2>3, <2>4, <2>5, <2>6
  <1> QED BY <1>1, <1>3, QuietStep

\* Every step keeps the invariant.
LEMMA NextIInv == IInv /\ [Next]_vars => IInv'
  <1> SUFFICES ASSUME IInv, [Next]_vars PROVE IInv' OBVIOUS
  <1>1. CASE Emulation
    <2>1. CASE Svc
      BY <2>1, SignalStep, SetTimerStep, CancelTimerStep, SleepStep, RunAsyncStep, StopStep DEF Svc
    <2> QED BY <1>1, <2>1, LoopStep, MoveEventStep, FireWakeupStep, EndAdvanceStep, FireTimerStep,
               EndRoundStep DEF Emulation
  <1>2. CASE Host BY <1>2, HostWakesStep DEF Host
  <1>3. CASE UNCHANGED vars
    <2>1. UNCHANGED <<event_queue, ts_queue, threadVars, host, thread, pc, idx, draining>>
      BY <1>3 DEF vars, userVars, threadVars, loopVars
    <2>2. Control' BY <2>1 DEF IInv, Control, Executing
    <2> QED BY <2>1, <2>2, QuietStep
  <1> QED BY <1>1, <1>2, <1>3 DEF Next

\* The invariant says more than the property.
LEMMA IInvStopIsFinal == IInv => StopIsFinal
  <1> SUFFICES ASSUME IInv, NEW c \in Final
               PROVE  thread[c] = "dead" /\ ~Awaited(c) /\ \A e \in Scheduled : e.of # c
    BY DEF StopIsFinal, Final
  <1>1. thread[c] = "dead" /\ ~host[c] BY DEF IInv, Threads
  <1>2. ASSUME NEW d \in Cores, NEW i \in DOMAIN ts_queue[d] PROVE ts_queue[d][i].of # c
    <2>1. PICK S : (\A e \in S : Allowed(e)) /\ ts_queue \in [Cores -> Seq(S)]
      BY DEF IInv, HostQueues
    <2>2. ts_queue[d] \in Seq(S) BY <2>1
    <2>3. ts_queue[d][i] \in S BY <1>2, <2>2
    <2> QED BY <2>1, <2>3 DEF Allowed
  <1>3. \A e \in Scheduled : e.of # c BY DEF IInv, Queues, Allowed, Scheduled
  <1> QED BY <1>1, <1>2, <1>3 DEF Awaited

\* Whatever the cores, timers and delays, and however late or torn the ticks are that a host
\* thread reads: a thread that Thread::Stop finds neither current on another core nor waiting
\* for a host thread never executes again, and no wakeup of it is scheduled again.
THEOREM StoppedThreadsStayStopped == Spec => []StopIsFinal
  BY InitIInv, NextIInv, IInvStopIsFinal, PTL DEF Spec
=============================================================================
