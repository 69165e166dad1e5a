# Verification of the Citra VR port

This directory is a TLA+ development kept beside the emulator's sources. It models the parts
of the program in which several threads, emulated cores, timing callbacks or processes meet,
checks them with TLC on small instances, and proves the most important of their invariants
with TLAPS for all instances. `PROJECT.json` maps every definition to the source lines it
stands for and lists the runs, the mutants that show that each property can fail, the
findings, the hazards and the theorems.

## 1. The system

citra_vr is a 3DS emulator whose renderer feeds an OpenXR compositor. One host thread (the
main thread) runs the whole emulated machine: `System::RunLoop` runs the emulated ARM cores
one after the other, and the high-level-emulated kernel, its timing callbacks and the
services run inside it. A second host thread, the XR thread, runs the OpenXR event and frame
loop. The two meet in the frame hand-off, in a few atomics, in the Save signal and in two
mutexes. When the user picks another ROM, the process writes sentinel files, ends, and starts
its successor from them.

### Inventory

| Part | State | Operations | What makes it hard | Modelled in |
|---|---|---|---|---|
| Frame hand-off (`vk_present_window.cpp`, `emu_window_vr_win.cpp`, `VrFrameSubmitter.cpp`, `VrApp::Frame`) | frame slots, publish slot, claimed serial, `present_done` fences, `vr_handoff` semaphores, ring of command buffers, busy and queue mutexes | GetRenderFrame, CopyToSwapchain, AcquireLatestFrame, Begin/Submit, ConsumeRenderer, RunLoop's Save | two threads and two GPU queues interleave; Vulkan calls fail half-way; a wait without a timeout | `VrHandoff`, `PublishSlot` |
| Process and session (`citra_vr.cpp`, `VrApp.cpp`) | `exit_requested`, `mExitRequested`, session state, menu, sentinel files | main loop, pause gate, PollEvents, menu actions, join, relaunch, shutdown | exit, pause and relaunch race with a main thread inside RunLoop; kills; failed writes | `VrMain` |
| Kernel threads and scheduler (`thread.cpp`, `svc.cpp`, `core.cpp`) | thread status, priorities, ready queue and current thread of each core, wakeup table and events | Reschedule, SwitchContext, Sleep, Stop, ResumeFromWait, WakeAfterDelay, wakeup callback, RunLoop's rounds | cores in turn act on each other's threads; timeouts race signals | `KernelSync`, `ReadyQueue` |
| Wait objects (`wait_object.cpp`, `mutex.cpp`, `event.cpp`, `semaphore.cpp`) | waiting lists, lock counts, holders, signals, counts | WaitSynchronization1/N, Acquire, Release, Signal, WakeupAllWaitingThreads | wait-all, priority inheritance, termination of holders and waiters | `KernelSync` |
| ThreadQueueList (`thread_queue_list.h`) | linked priority levels | push, pop, pop_first_better, remove, move, prepare | pointer walk over lazily linked levels | `ThreadQueueList`, `ReadyQueueSpec` |
| Emulated time (`core_timing.cpp`, `timer.cpp`, RunLoop, `WakeAfterDelay`) | event heap and ts_queue of each core, slices, ticks, kernel timers | ScheduleEvent, UnscheduleEvent, MoveEvents, Advance, SetNextSlice, Timer::Set/Cancel/Signal, RunAsync's host thread | cores drift and overshoot; events are cancelled, late or come from another host thread | `CoreTiming` |
| Handle table (`handle_table.cpp`) | objects, generations, free list | Create, Duplicate, Close, Clear | a free list inside the generations; wrap-around | `HandleTable`, `HandleMap` |
| Kernel objects and limits (`svc.cpp`, `resource_limit.cpp`, destructors) | references, m_current_values, memory_used | svcCreate..., DuplicateHandle, CloseHandle, end of the process | creations that fail late; destruction by the last of several kinds of references | `ProcessObjects` |
| IPC sessions and ports (`server_session.cpp`, `client_session.cpp`, `server_port.cpp`, `client_port.cpp`) | endpoints, pending requests, currently_handling, active_sessions | CreateSessionToPort, AcceptSession, SendSyncRequest, ReplyAndReceive, CloseHandle | endpoints close and processes end while requests are queued or served | `Sessions` |
| Address arbiter (`address_arbiter.cpp`) | waiting_threads | ArbitrateAddress, timeout callback | timeouts and late wakeups race signals | `AddressArbiter` |
| Kernel memory, services, applets, video, audio, network, front-ends, loaders | — | — | mostly data; a few protocols (room membership, GSP interrupts, the Vulkan scheduler's worker) | not modelled, see section 9 |

The complete list, with the reason for each part that is left out, is `components` in
`PROJECT.json`; the hazards, each at its source line and with the properties that would catch
it, are in `hazards`.

## 2. Modules

    PublishSlot      abstract: a one-place slot that is claimed, filled, taken and freed
      ^ refined by   VrHandoff           (theorem PublishSlotRefinement)
      ^ used by      VrMain              (INSTANCE: the main thread waits for the slot)
    ReadyQueue       operators on sequences shared by the two queue models
    ReadyQueueSpec   abstract: one FIFO per priority level, atomic pops
      ^ refined by   ThreadQueueList     (theorem QueueRefinement)
    KernelSync       threads, scheduler, wait objects, RunLoop; uses the queue as ReadyQueueSpec
                     presents it
    MCKernelSync     instances of KernelSync for TLC
    CoreTiming       event heaps, slices, timers, wakeups and the cores' clocks
    HandleMap        abstract: a map from open handles to objects
      ^ refined by   HandleTable         (theorem TableImplementsMap)
    ProcessObjects   EXTENDS HandleTable: SVCs, references, destructors, limits
    MCProcessObjects symmetry for TLC
    WaitingThreads   what sessions and arbiters see of a thread
      ^ extended by  Sessions, AddressArbiter
    ThreadWaits      EXTENDS both: a client and a server process with timeouts and termination
    MCThreadWaits    priorities and symmetry for TLC
    *_proofs, KernelSync_queues, KernelSync_actions
                     theorems and lemmas with their proofs

Composition is of two kinds. By abstraction: `VrMain` sees the hand-off as `PublishSlot`, and
`KernelSync` sees the ready queue as `ReadyQueueSpec`; both abstractions are proved to be
implemented. And by conjunction: `ProcessObjects` adds the kernel objects to every step of the
handle table, and `ThreadWaits` puts sessions and an arbiter beside each other on the same
threads.

### VrHandoff

Actors: main thread (`mpc`), XR thread (`xpc`) and GPU. `TakeFreeFrame`, `WaitPresentDone`,
`DrawFrame`, `ClaimPublishSlot`, `SubmitHandoff`, `PublishFrame` are RenderToWindow with
GetRenderFrame and CopyToSwapchain, cut at the points where the code waits or takes a lock;
`BeginSlice` and `EndSlice` enclose them, and `TakeSaveSignal` to `SaveDone` are RunLoop's
`Signal::Save`. `BeginXrFrame` to `EndXrFrame` are one VrApp::Frame. The layers that are not
initialised yet (`lazy`) paint through the submitter first (`InitLayer`), the menu's layer also
waits for the queue (`DrainQueue`), and in every frame the menu and the dimmer may paint again
(`UiSubmit`); all of them use the ring of command buffers that the blit of the game's image uses.
The GPU retires the jobs of each queue in order: a draw, the empty submission that signals
`vr_handoff`, a blit that waits for it, the fence signal, a UI layer. A Vulkan call in `Faults`
may fail, and the action then follows the code's error path; `lost` is history, the frames that
were claimed without a queued signal of their `present_done`. A section under `VrQueueMutex` is
one step, because nothing in it waits; only vkDeviceWaitIdle holds the mutex over a wait
(`qmutex`). The model is that of the headless window, the one citra_vr creates; the desktop
present thread is not started there.

### VrMain

`mpc` is the main thread between Phase 5 and Phase 7 of main(): loop head, pause gate, RunLoop,
the two waits of a VBlank (`WaitPresentDone` for the oldest frame, `WaitPublishSlot`), join,
relaunch. The three reads of the loop head (`exit_requested`, menu, on-head) are at most two
steps, since a change between them is what the races are about. `frames` is `present_done` of
the frame slots in the order in which the renderer uses them: "done", "sent" to the XR thread,
or "lost" with a blit that failed or was dropped. `xpc` is the XR thread: event drain, frame,
user input. The runtime moves the session along the transitions of the OpenXR specification
(`SessionMoves`, external) and queues events. `romFile` and `slotFile` are next_rom.txt and
next_load_slot.txt; `asked` is what this process's user picked (history), `args` what the process
was started with. `Relaunch` is Phase 7; the process it starts runs main() up to its XR thread,
or returns before that when something cannot be initialised (`StartProcess`, fault "start").
`clean` is a history variable: no process was killed with a sentinel on disk, and no sentinel
failed to be written, since both files were last deleted. `Kill` ends a process at any point;
`StartAgain` is the user's next start, by the .bat file, which deletes old sentinels, or in any
other way.

### KernelSync

Everything runs on one host thread, so an SVC or callback is atomic for everyone else. Handlers
that loop (WakeupAllWaitingThreads, Stop, ReleaseThreadMutexes, TerminateProcess, wait-all
acquisition) put the calls they still have to make into `work`, and nothing else is enabled
while `work` is not empty: the order of the calls, and the state each of them sees, is that of
the code, and the properties that hold only between handlers say `work = <<>>`. boost's
flat_set of mutexes and the list of a process's threads are iterated in an order that depends
on pointers; the model takes any order. A thread that is created without thread-local storage
stays Dormant: it is in the thread list, has a priority and a prepared level, and is never made
ready. `exited` are the processes whose status is Exited; TerminateProcess stops their threads
but, as in the code, not the slice of a core that has one of them as its current thread.
`taken` is history: what a waiting thread has been given so far, for WaitIsAllOrNothing.
RunLoop is `stage`, `left`, `torun`: late cores are
advanced and rescheduled and the latest runs alone; otherwise all cores are advanced,
rescheduled and run in order; then System::Reschedule. Ticks are abstracted: which core is late
and when a scheduled wakeup is due is any choice. `armed` is the set of ThreadWakeup events
that are scheduled; WakeAfterDelay, UnscheduleEvent and the callback change it.

### ThreadQueueList

`first` and `next` are the pointers as the indexes ToIndex gives them (-2 null, -1 the tag of an
unused level). A pop is a walk with one step per level, so that what a pop meets on its way is
a state. `pop_first_better` is called with a linked level, as ThreadManager does.

### CoreTiming

One action per loop body of RunLoop and of Timer::Advance: `MoveEvent` empties a ts_queue,
`CountTicks` starts the loop over due events (`draining`, the code's is_timer_sane),
`FireTimer` and `FireWakeup` are the two callbacks, `EndAdvance` is the Reschedule and
SetNextSlice that RunLoop does next with that core. `CatchUp` is the branch for a core that is
behind; `StartSlice`, `Execute` and `EndRun` are ARM_Interface::Run up to an SVC or the end of
the slice, with an overshoot of at most `MaxOvershoot` ticks. ScheduleEvent includes
ForceExceptionCheck, which shortens the running slice. `SetTimer` with an initial delay of 0
signals at once and wakes waiting threads, as Timer::Set does; a sleep may be of 0 cycles. `Stop`
is Thread::Stop of the executing thread or of the threads of a process that it terminates: they
leave `table`, the wakeup_callback_table, but one that is current on another core ("stopped")
executes until that core is rescheduled. `unclean` is history, the threads that Stop found in
such a state or with a host thread still to wake them. `HostWakes` is the host thread of
RunAsync: it reads a core's ticks while the emulation thread writes them, so what it reads may
be off by `MaxSkew` slices either way. Only differences of ticks matter, so the end of each
round counts them again from the slowest core; `fifo_order` is the rank of an event among the
queued ones, which orders them as the ever-growing counter of the code does.

KernelSync's `armed` is the view from the scheduler of what CoreTiming has in its queues; each
model chooses freely what the other computes (which thread a core runs, when a wakeup is due).

### HandleTable and ProcessObjects

A handle is the record of its three bit fields; GetSlot loses bit 31, as the cast to u16 does.
`issued` is history: the latest GenLimit - 1 handles and which of them were closed. The refinement
of `HandleMap` maps each valid handle with bit 31 clear to its object.

ProcessObjects runs every creating SVC to its end: reservation in the ResourceLimit, object,
handle, and each point at which it returns an error. An object dies in the step that removes its
last reference (a slot, thread_list, a core that executes it, a thread's wait_objects or held
mutexes), and `Destroy` does what its destructor does. A mutex that is created locked is held at
once, so that it lives on even if the table had no slot for its handle. A thread may be created,
refused for its entry point after the reservation, or left without thread-local storage and
then in thread_list but not in `runnable`. `TerminateProcess` stops all threads once (`status`
becomes "exited"); those that are current on other cores stay in `runnable`, make SVCs and may
exit a second time (`ExitThread`) until `SwitchAway`, and only then `EndProcess` clears the table.
`unreleased` and `refused` count reservations and memory that the code's error paths leave behind,
less the reservations that a thread releases twice.

### Sessions, AddressArbiter and ThreadWaits

A thread is "run" (Ready or Running), "ipc", "sync", "arb" or "dead", and may have a scheduled
wakeup that outlives the wait it was for until SwitchContext cancels it; which ready thread runs
is left open. A server session lives as long as a handle, the port or a waiting thread refers to
it, and every action ends with `ServersDestroyed`, the ~ServerSession of those it leaves without
a reference. `asked` (which session a client's last request went to), `left` (sessions that were
replied to while requests were pending) and `arrived` (order of arrival at the arbiter) are
history.

## 3. Runs

| Run | Instance | Checks |
|---|---|---|
| handoff | 2 frames, ring of 2, 1 UI submission per frame; vkBeginCommandBuffer, the blit and the fence submission may fail | RendererHasExclusiveFrame, HandoffSemaphoreProtocol, SaveIsQuiescent, ImplementsPublishSlot, OnlyLostFramesStick, PublishSlotFreed, SaveCompletes |
| handoff_drop | 2 frames, ring of 3, 1 UI submission, no fault | RendererGetsFrame: **violated** |
| main_process | 2 ROMs, 1 save slot, 2 frames, all inputs, stops and faults | SessionCallsPaired, RelaunchAsAsked, MenuPauses |
| main_exit | 2 ROMs, 1 save slot, 2 frames; menu, ROM and state picked; no stop, no fault | LoadExits: **violated** |
| queue_list | 5 levels, 2 threads, at most 2 in a level | LevelsLinked, NoWildPointer, ImplementsReadyQueue |
| kernel_objects | 3 threads of 2 processes, 1 core, 2 priorities; mutex, pulse event, semaphore; creation, termination, priorities | ReadyQueueConsistent, NoLostWakeup, MutexOwnership, WaitListsConsistent, WaitIsAllOrNothing |
| kernel_cores | 2 threads on 2 cores, mutex, one-shot event, join, sleep, exit | LevelsPrepared, SliceRunsCurrent, TimedWaitEnds |
| kernel_zombie | 2 threads of 2 processes on 2 cores, termination | ExitedProcessesAreQuiet: **violated** |
| kernel_inversion | 3 threads, 1 core, 2 mutexes, 2 priorities | NoPriorityInversion: **violated** |
| process_objects | 2 slots, 3 generations, 2 objects of 4 kinds, limit 2, 1 failed creation | FreeListConsistent, NoStaleHandle, LimitCountsObjects, MemoryAccounted, ImplementsHandleMap |
| timing | 2 cores, 1 timer, slices of 2 ticks, overshoot 1, skew 1 | LateByOvershoot, TimersOnSchedule, OneWakeup, StopIsFinal, DesyncBounded, SleepersWake |
| thread_waits | 3 client and 2 server threads, 3 session objects, at most 2 sessions, 2 addresses | PortCountsSessions, RequestersWait, NoLostRequest, ArbiterListsWaiters, CallLifecycle, BestIsResumed |

### Bounds, and why they are enough

* Hand-off: a frame's life involves one other frame at most (the one the renderer draws while
  the first is published or blitted), so two slots reach every overlap; a ring of two wraps.
  handoff_drop has the code's ring of 3, because a dropped blit depends on it. One UI submission
  per frame already shares the ring. The three faults stand for the three error paths that differ
  in what they leave behind: a slot whose fence was reset and is never signalled (begin), a
  recording without a submission (blit), a submitted blit without its fence signal (signal).
* Process: two ROMs tell a stale sentinel from a new one; one save slot is told apart from
  none. Two frames (`NumFrames`) let one be lost or on its way while the other is waited for. Two
  queued session events (`MaxEvents`) let a STOPPING and an EXITING be drained together; main_exit
  has no such stop and needs one.
* Queue list: five levels are enough for a level to be linked before, between and behind
  others; `MaxLen` bounds a level's deque.
* Kernel: three threads give a holder and two waiters, a chain of two mutexes, or a terminated
  process with two threads. `MaxLocks` bounds recursive locking, `MaxCount` is a semaphore's
  max_count. Two priorities (`Lowest = 1`) are enough for a boost and its end. Symmetry is used on
  the threads other than the main thread and on the mutexes in kernel_objects and
  kernel_inversion, where neither the set of wait lists nor the assignment of processes and cores
  tells them apart and no liveness property is checked.
* Timing: a slice of two ticks has an inside for an event of one tick to fall into; an
  overshoot of one tick equals the timer's interval, so that a periodic timer can be a whole
  period late; with `MinDelay` 1 both the catch-up and the common branch of RunLoop are taken.
* Handles: two slots give a free list of length 0 to 2 in both orders; three generations
  (`GenLimit` 4) wrap within a run. Two objects and a limit of 2 let the slots, the limit and the
  generations run out separately. `MaxFailed` bounds the failed creations that are counted, of all
  kinds together; one shifts a counter for good. Objects are symmetric.
* Waits: with `MaxSessions` 2 a third session object is in use only after another has ended.
  Two clients can ask the same session while the third closes it or signals; two servers can
  wait for the same session. Servers, sessions, addresses and the two clients of equal priority
  are symmetric; no liveness property is checked there.

Deadlock is checked except where the system may stop: threads that hang on a lost frame or a ring
slot whose fence is never signalled (handoff), a citra_vr process that hangs or that nobody starts
again (main_process, main_exit), an emulation that an exception has ended (timing), a process that
has ended (process_objects), two processes that have ended or wait for ever (thread_waits).

### Fairness

* `VrHandoff`: both threads and the GPU go on while they can. Strong fairness says that the
  runtime keeps asking for rendered frames, that `try_to_lock` of the busy mutex succeeds now
  and then, that the main thread gets this mutex, which is free whenever the XR thread is in
  xrWaitFrame, and that a slice ends, which MAX_SLICE_LENGTH bounds.
* `VrMain`: the main thread, the XR thread and the runtime go on; user input is never forced.
* `KernelSync`: handlers and RunLoop go on; a slice ends whatever the program does; late cores
  catch up, because the global time does not move while a core runs alone; a wakeup that is
  scheduled becomes due and Advance fires it. No program is assumed to do anything.
* `CoreTiming`: RunLoop is called again and again (weak fairness of the emulation as a whole, so
  which SVC a thread makes is never forced), and each host thread gets its result in the end.

## 4. Properties, by the question they answer

Frame ownership: *RendererHasExclusiveFrame*, *HandoffSemaphoreProtocol* (a binary semaphore is
never waited for twice or signalled twice), *OnlyLostFramesStick*, *PublishSlotFreed*,
*RendererGetsFrame* (violated). Saves: *SaveIsQuiescent* (no blit of a renderer image is recorded
or queued while the state is written), *SaveCompletes*. Process: *SessionCallsPaired*,
*MenuPauses*, *RelaunchAsAsked*, *LoadExits* (violated). Queue: *LevelsLinked*,
*NoWildPointer*, *ReadyQueueConsistent*, *LevelsPrepared*. Waiting:
*NoLostWakeup*, *WaitListsConsistent* (the assertions of wait_object.cpp and thread.cpp),
*WaitIsAllOrNothing* (a wait that succeeds was given all it asked for, one that times out
nothing), *TimedWaitEnds*. Priorities: *NoPriorityInversion* (violated). Termination:
*MutexOwnership*, *SliceRunsCurrent*, *StopIsFinal* (a stopped thread neither executes nor is
woken), *ExitedProcessesAreQuiet* (violated). Time:
*LateByOvershoot*, *TimersOnSchedule* (no drift, no second event), *OneWakeup* (the assertion "has
already resumed"), *DesyncBounded*, *SleepersWake*. Handles and objects:
*FreeListConsistent*, *NoStaleHandle*, *ImplementsHandleMap*, *LimitCountsObjects*,
*MemoryAccounted*. IPC: *PortCountsSessions*, *RequestersWait*,
*NoLostRequest*, *CallLifecycle* (a call is sent, served and answered once, or lost with its
session). Arbiter: *ArbiterListsWaiters* (the assertion "Inconsistent AddressArbiter state"),
*BestIsResumed*.

## 5. What the code does that its comments rule out

1. **handoff_drop** (`VrApp.cpp:391`). When the ring slot is still in flight, VrApp::Frame drops
   the blit of a frame that it has already claimed. The publish slot is released, but nothing
   signals the frame's `present_done`; the renderer waits for it without a timeout when the
   frame comes round.
2. **kernel_zombie** (`thread.cpp:212`). TerminateProcess stops a thread that is current on a core
   whose slice is still to come in this round. That core is not rescheduled first and runs it
   dead, although `svc.cpp:2244` says "Running threads from exiting processes is unimplemented".
   If it sleeps, the wakeup finds no entry in `wakeup_callback_table` and `at()` throws.
3. **kernel_inversion** (`mutex.cpp:117`). The boost that a waiting thread gives to the holder of a
   mutex is not passed on to the holder of a mutex which that thread waits for itself, so a chain
   of two mutexes inverts priorities; `thread.h:202` says that boosting "prevents priority
   inversion via priority inheritance".
4. **main_exit** (`citra_vr.cpp:905`). A ROM or state picked in the menu sets `exit_requested` and
   hides the menu, and the XR thread's loop ends. A main thread that passes the pause gate, or is
   inside RunLoop already, then waits without a timeout for the publish slot or for a frame that
   only the XR thread would give back; the process neither exits nor starts its successor,
   although `run_citra_vr.bat:86` says that it "exits cleanly".

Other behaviour that the models show, stated as the exceptions that the properties name:

* *PublishSlotFreed*, *SaveCompletes*: a failed Begin, or a Submit that fails before its fence is
  queued, leaves the ring slot's fence reset; the next waiting Begin on that slot never returns
  (`XrHangs`).
* *RelaunchAsAsked* holds while `clean`: sentinels of a killed process are
  obeyed by the next one unless the .bat file started it.
* *LimitCountsObjects*: CreateSemaphore and CreateThread check an argument after they reserved a
  unit and do not release it; shared memory that exists when its process ends is not released; a
  stopped thread that still executes and exits releases its unit a second time.
* *MemoryAccounted*: a CreateMemoryBlock whose mapping is refused destroys a half-made object as
  if it had linear memory, and memory_used, a u32, goes down by a block that was never counted.
* *StopIsFinal* excepts `unclean` threads: one that is current on another core goes on (finding
  2), and UnscheduleEvent does not look into ts_queue, so the wakeup of a RunAsync outlives a
  thread that is stopped meanwhile, and the callback's `at()` throws.
* *NoLostRequest*: a server that replies to a session without receiving from it again does not
  wake another server thread that waits for it, although a request is pending (`left`).
* *CallLifecycle*: a client in SendSyncRequest is not woken when an endpoint of its session is
  destroyed; a server session may be held only by a server that waits for it, and then ends with
  the request that wakes this server.
* A mutex records the boosted priority of the thread that acquires it (`mutex.cpp:59`), so that a
  boost can outlive its cause although `thread.h:208` calls it temporary.
* Stopping a thread that got no thread-local storage writes outside tls_slots; the models go on as
  if the write had hit nothing.

## 6. What is proved

All theorems hold for every value of the constants that satisfies the module's ASSUME: numbers
of frames, ring slots, UI submissions and sets of failing calls; numbers of levels and sets of
threads; finite sets of threads, cores and mutexes, any other objects, any wait lists; table
sizes and generation limits; finite sets of sessions, and any threads, addresses, timers and
delays.

**VrHandoff_proofs.**
*TypeCorrect*: `TypeOK` with "the renderer's current frame is a frame while it is between
GetRenderFrame and the callback".
*ExclusiveFrame*: RendererHasExclusiveFrame alone is not inductive, since what keeps the
renderer out is the `present_done` fence, which is signalled by the last job of the frame. The
invariant `FrameInOnePlace` says that every frame is in at most one of these places: done,
owned by the renderer, published, held by the XR thread, in the VR queue, or in the graphics
queue as the empty submission of a detached window; and that the signal is the last job of its
frame in the VR queue.
*QuiescentSave*: `BusyOwned` (who is at which point owns `VrCoreBusyMutex`) and "in a save the
VR queue holds only UI jobs", which vkDeviceWaitIdle establishes and the mutex keeps.
*PublishSlotRefinement*: under `SlotInv`, which ties `publish_pending` to the claimed serial and
to the positions of the two threads, every step is a step of PublishSlot or a stutter.

**ThreadQueueList_proofs.**
*SortedLevels*: linking a new level behind the nearest better linked one keeps "next is the next
linked level" for all levels. *SafeWalks* needs `WalkInvariant`: a walk stands at a linked
level, all levels before it are empty, and it does not pass the level where it stops, which is
linked; without the last conjunct the pointer comparison of pop_first_better would run into
null. *QueueRefinement*: a step that takes an element is an atomic pop of the best non-empty
level, and walking steps are stutters.

**KernelSync_proofs.**
*QueueOfReadyThreads* (ReadyQueueConsistent). The inductive invariant is `Inv`: the types that
priorities depend on (`BoostTypes`, `WaitTypes`, so that a computed boost is a level), that a
core's current thread belongs to it (`CurrentOK`), and `QueueOK`, the property written with
occurrences so that pushing, removing, moving and popping have one lemma each (module
`KernelSync_queues`); `KernelSync_actions` follows the actions of KernelSync one by one.
*CoresRunSettledThreads* (SliceRunsCurrent) adds `SliceInv`. A thread that a core will still run
is Running or Dead: whoever blocks halts its own core at once, no action of another core makes
a running thread ready or waiting, and only Stop touches it, making it Dead. That last case is
the one that the run kernel_zombie is about.

**HandleTable_proofs** (about TableSpec, the table alone, with any sequence of operations).
*FreeListAlwaysConsistent*: the chain of free slots is a witness that each operation extends,
shortens or rebuilds. *ClosedHandlesStayInvalid*: `IssuedOK` says that the age of an issued handle
is the distance of its generation from next_generation, modulo the wrap; so two handles of the
same generation are GenLimit - 1 creations apart. *TableImplementsMap*: a new handle is none of
the open ones because its slot was free, and the number of open handles is that of used slots.

**ThreadWaits_proofs.** *RequestersAlwaysWait*: RequestersWait is inductive together with
`WakeupOfHle` (a thread in WaitIPC that has a wakeup waits for an HLE reply, so that a timeout
never takes a requester away from its session) and `ClosedIsIdle`. The theorem has one
hypothesis, `[]ArbiterListsWaiters`: a signal resumes the threads that the arbiter lists, and if
one of them were in WaitIPC it would break the invariant. That hypothesis is checked by TLC in
thread_waits only: ResumeN is a recursive function over filtered sequences.
*PortAlwaysCounts* has no hypothesis: each action changes the set of server sessions that exist by
the one it adds and the ones `Destroyed` names.

**CoreTiming_proofs.** *StoppedThreadsStayStopped* (StopIsFinal). `Final` are the threads that
Thread::Stop found neither current on another core nor awaited by a host thread. That none of them
executes or has a wakeup in an event heap is not inductive: a ts_queue could bring one in, a host
thread could be about to, and a resumed thread could be one of them. The invariant `IInv` adds that
no event of a `Final` thread is in a ts_queue (`HostQueues`), that no host thread works for one and
that its thread is dead (`Threads`), and where RunLoop is (`Control`): an SVC is made by a thread
that executes, and Advance drains only in RunLoop's first two loops, on a core. Times play no
part in it, so it holds whatever the ticks are, torn reads included.

## 7. What is only model-checked

Liveness (fairness and ENABLED are outside the prover). HandoffSemaphoreProtocol; every
property of VrMain; of KernelSync everything but the two theorems: NoLostWakeup,
WaitListsConsistent, MutexOwnership, LevelsPrepared, WaitIsAllOrNothing; of CoreTiming everything
but StopIsFinal; the properties of ProcessObjects that are not the table's; NoLostRequest,
CallLifecycle, BestIsResumed and, as said above, ArbiterListsWaiters. What ResumeN computes is a
recursion over data, which the prover cannot do by induction.

## 8. Abstractions to keep in mind

* The models stand for about 3000 lines of source, out of some 235,000 of the emulator and 400,000
  with the libraries it carries: less than two per cent. They are the lines in which threads,
  cores, processes and callbacks meet; what the models say holds for those lines only.
* Memory is sequentially consistent: the atomics of the hand-off are used with mutexes or
  carry a single flag each.
* GPU queues retire jobs in order and never lose a device.
* In KernelSync a wait list has no duplicates; of thread-local storage only the failure to get it
  is modelled; contexts and the plugin loader's `can_schedule` are left out. Resource
  limits, WaitIPC, WaitArb and timers have models of their own, so a single wait for, say, a mutex
  and a session together is in none of them.
* In CoreTiming a core has one thread; in ThreadWaits any ready thread may run next.
* Sessions: one port, served by another process, so the branch of ClientPort::Connect for a
  port with an HLE handler (`client_port.cpp:35`) is not taken; a duplicated endpoint is one
  endpoint. Of HLE sessions only the delay of the reply is modelled.
* Clock scaling of a core is 1. A sleep may be of 0 ticks; a timer's interval of 1 to 3 ns, which
  is 0 ticks and makes Advance loop without end (`timer.cpp:96`), is excluded by `Delays`.
* A save state is a step; what it serializes is not modelled.

## 9. Not modelled

* **Computations on data.** Instruction semantics (dynarmic, dyncom), shaders and rasterization,
  the surface cache, audio, file formats, cryptography, the translation of IPC command buffers:
  large functions from data to data with hardly any control that is shared between actors. A model
  of them would be the program again.
* **Kernel memory** (`vm_manager.cpp`, `memory.cpp`): splitting and merging of memory areas and page
  tables is arithmetic on intervals; of its effects ProcessObjects has the accounting of shared
  memory.
* **HLE services and applets.** Their other half is the emulated program or firmware, which is not
  in this repository; a model would have to invent it. RunAsync, through which they leave the
  emulation thread, is in CoreTiming.
* **Load, Reset and Shutdown signals; start-up and title loading.** citra_vr sends a
  Load only before it starts the XR thread (for another state it starts a new process) and
  never the other two; start-up is sequential.
* **VR launcher.** A straight line that starts citra_vr and returns.
* **Multiplayer, web service, RPC, GDB stub, cheats, movies.** Independent of the VR port and of
  the emulated kernel's correctness; citra_vr creates a room member but joins no room.
* **Queues and workers of the common library.** They appear as sequences where a model uses
  one. Their correctness is a question of memory orders, which TLA+ interleavings do not have.
* **User interfaces and input.** Presentation, and sampling of devices.
