-------------------------------- MODULE VrMain --------------------------------
(***************************************************************************)
(* The life of a citra_vr process: the main thread's emulation loop, the   *)
(* XR thread's event and frame loop, the OpenXR session they share, and    *)
(* the sentinel files through which one process starts the next.           *)
(*                                                                         *)
(* The hand-off of a frame is the abstract PublishSlot, which VrHandoff    *)
(* implements.  A RunLoop slice (at most 20000 ticks) contains at most one *)
(* VBlank, at which the main thread waits for the oldest frame and then    *)
(* for the slot.                                                           *)
(***************************************************************************)
EXTENDS Naturals, Sequences

CONSTANTS
    Roms,           \* ROM files
    SaveSlots,      \* save-state slots
    Inputs,         \* what the user may do in the headset
    Stops,          \* how the runtime may end the session
    Faults,         \* what may fail outside the program
    NumFrames,      \* frame slots of the headless swapchain (3 in vk_swapchain.cpp)
    MaxEvents       \* bound: session events queued by the runtime

NoRom  == "none"
NoSlot == "none"

ASSUME MainAssumption ==
    /\ NoRom \notin Roms /\ NoSlot \notin SaveSlots
    /\ Inputs \subseteq {"menu", "save", "quit", "rom", "state"}
    /\ Stops \subseteq {"stop", "exit", "loss", "instance_loss"}
    /\ Faults \subseteq
        {"write", "kill", "spawn", "missing", "start", "begin", "wait", "blit", "throw"}
    /\ NumFrames \in Nat \ {0}
    /\ MaxEvents \in Nat \ {0}

VARIABLES
    mpc,            \* main thread
    xpc,            \* XR thread
    slot,           \* the publish slot (PublishSlot)
    frames,         \* present_done of each frame, in the order the renderer uses them:
                    \* signalled ("done"), left to the XR thread ("sent"), or lost
    exit,           \* exit_requested
    appExit,        \* VrApp::mExitRequested
    running,        \* VrApp::mIsSessionRunning
    onHead,         \* VrApp::mHmdOnHead
    menu,           \* ImGuiLayer::IsVisible
    save,           \* System::current_signal is Save
    session,        \* the runtime's session state (external)
    events,         \* session events not yet polled (external)
    begun,          \* between xrBeginSession and xrEndSession (external)
    args,           \* ROM and --loadslot of this process
    asked,          \* what the user asked this process to start next
    romFile,        \* next_rom.txt
    slotFile,       \* next_load_slot.txt
    clean           \* history: no process was killed with a sentinel on disk and no
                    \* sentinel failed to be written, since both were last deleted

appVars  == <<exit, appExit, running, onHead, menu, save>>
rtVars   == <<session, events, begun>>
fileVars == <<romFile, slotFile, clean>>
procVars == <<args, asked>>
pubVars  == <<slot, frames>>
vars     == <<mpc, xpc, pubVars, appVars, rtVars, fileVars, procVars>>

Pub == INSTANCE PublishSlot

Request(rom, s) == [rom |-> rom, slot |-> s]
NoRequest == Request(NoRom, NoSlot)

Init ==
    /\ mpc = "head" /\ xpc = "poll" /\ slot = "empty"
    /\ frames = [i \in 1 .. NumFrames |-> "done"]
    /\ exit = FALSE /\ appExit = FALSE /\ running = FALSE /\ onHead = TRUE
    /\ menu = FALSE /\ save = FALSE
    /\ session = "idle" /\ events = <<>> /\ begun = FALSE
    /\ \E r \in Roms : args = Request(r, NoSlot)
    /\ asked = NoRequest
    /\ romFile = NoRom /\ slotFile = NoSlot /\ clean = TRUE

\* main() of a new process with these arguments, up to the start of its XR
\* thread, or to a `return -1' on the way; the process it replaces is gone.
StartProcess(a, ok) ==
    /\ ok \/ "start" \in Faults
    /\ mpc' = IF ok THEN "head" ELSE "exited"
    /\ xpc' = IF ok THEN "poll" ELSE "done"
    /\ slot' = "empty" /\ frames' = [i \in 1 .. NumFrames |-> "done"]
    /\ exit' = FALSE /\ appExit' = FALSE /\ running' = FALSE /\ onHead' = TRUE
    /\ menu' = FALSE /\ save' = FALSE
    /\ session' = "idle" /\ events' = <<>> /\ begun' = FALSE
    /\ args' = a /\ asked' = NoRequest

(***************************************************************************)
(* Main thread.                                                            *)
(***************************************************************************)
MainUnchanged == UNCHANGED <<xpc, appExit, running, onHead, menu, rtVars, fileVars, procVars>>

\* while (!exit_requested): the loop goes round, or ends with Phase 6a's store.
CheckExit ==
    /\ mpc = "head"
    /\ mpc' = IF exit THEN "join" ELSE "gate"
    /\ UNCHANGED <<pubVars, exit, save>> /\ MainUnchanged

\* Mutant: only the headset pauses the emulation.
Gate_IgnoresMenu ==
    /\ mpc = "gate"
    /\ mpc' = IF ~onHead THEN "head" ELSE "run"
    /\ UNCHANGED <<pubVars, exit, save>> /\ MainUnchanged

\* Pause while the menu is visible or the headset is off the head.
Gate ==
    /\ mpc = "gate"
    /\ mpc' = IF menu \/ ~onHead THEN "head" ELSE "run"
    /\ UNCHANGED <<pubVars, exit, save>> /\ MainUnchanged

\* RunLoop serves Signal::Save instead of running a slice.
RunSave ==
    /\ mpc = "run" /\ save
    /\ save' = FALSE
    /\ mpc' = "head"
    /\ UNCHANGED <<pubVars, exit>> /\ MainUnchanged

\* RunLoop runs a slice with or without a VBlank ...
RunSlice(vblank) ==
    /\ mpc = "run" /\ ~save
    /\ mpc' = IF vblank THEN "fence" ELSE "head"
    /\ UNCHANGED <<pubVars, exit, save>> /\ MainUnchanged

\* ... at which GetRenderFrame waits, without a timeout, for the oldest frame.
WaitPresentDone ==
    /\ mpc = "fence" /\ Head(frames) = "done"
    /\ mpc' = "pubwait"
    /\ UNCHANGED <<pubVars, exit, save>> /\ MainUnchanged

\* ShutdownRequested ends the loop at its head, an exception at once.
RunEnds(throws) ==
    /\ mpc = "run" /\ ~save
    /\ throws => "throw" \in Faults
    /\ exit' = TRUE
    /\ mpc' = IF throws THEN "join" ELSE "head"
    /\ UNCHANGED <<pubVars, save>> /\ MainUnchanged

\* CopyToSwapchain waits for the publish slot, without a timeout ...
WaitPublishSlot ==
    /\ mpc = "pubwait" /\ Pub!Claim
    /\ mpc' = "publish"
    /\ UNCHANGED <<frames, exit, save>> /\ MainUnchanged

\* ... and publishes the frame, which becomes the youngest; the slice ends.
PublishFrame ==
    /\ mpc = "publish" /\ Pub!Publish
    /\ frames' = Append(Tail(frames), "sent")
    /\ mpc' = "head"
    /\ UNCHANGED <<exit, save>> /\ MainUnchanged

\* Mutant: Phase 7 does not wait for the XR thread.
JoinXrThread_NoJoin ==
    /\ mpc = "join"
    /\ exit' = TRUE
    /\ mpc' = "relaunch"
    /\ UNCHANGED <<pubVars, save>> /\ MainUnchanged

\* Phase 6a: exit_requested and join.
JoinXrThread ==
    /\ mpc = "join" /\ xpc = "done"
    /\ exit' = TRUE
    /\ mpc' = "relaunch"
    /\ UNCHANGED <<pubVars, save>> /\ MainUnchanged

\* Phase 7: the sentinels are read and deleted, and a child is started with
\* them; ExitProcess ends this process.
Relaunch(ok) ==
    /\ mpc = "relaunch" /\ romFile # NoRom
    /\ romFile' = NoRom /\ slotFile' = NoSlot /\ clean' = TRUE
    /\ StartProcess(Request(romFile, slotFile), ok)

\* Phase 7 without a sentinel, with one that names a missing ROM, or with a
\* CreateProcess that fails; then Phase 6b.
Shutdown ==
    /\ mpc = "relaunch"
    /\ \/ romFile = NoRom /\ UNCHANGED fileVars
       \/ /\ romFile # NoRom /\ Faults \cap {"missing", "spawn"} # {}
          /\ romFile' = NoRom /\ slotFile' = NoSlot /\ clean' = TRUE
    /\ mpc' = "exited"
    /\ UNCHANGED <<xpc, pubVars, appVars, rtVars, procVars>>

\* The user starts the program again, not through run_citra_vr.bat (which
\* deletes both sentinels first).
StartAgain(r, byBat, ok) ==
    /\ mpc = "exited"
    /\ StartProcess(Request(r, NoSlot), ok)
    /\ IF byBat THEN romFile' = NoRom /\ slotFile' = NoSlot /\ clean' = TRUE ELSE UNCHANGED fileVars

\* The process is killed or crashes.
Kill ==
    /\ "kill" \in Faults /\ mpc # "exited"
    /\ mpc' = "exited" /\ xpc' = "done"
    /\ clean' = (clean /\ romFile = NoRom /\ slotFile = NoSlot)
    /\ UNCHANGED <<pubVars, appVars, rtVars, romFile, slotFile, procVars>>

(***************************************************************************)
(* XR thread: PollEvents, then Frame or a short sleep.                     *)
(***************************************************************************)
XrUnchanged == UNCHANGED <<mpc, args>>

XrLoopHead ==
    /\ xpc = "poll"
    /\ xpc' = IF exit THEN "done" ELSE "drain"
    /\ UNCHANGED <<pubVars, appVars, rtVars, fileVars, asked>> /\ XrUnchanged

\* Mutant: STOPPING leaves mIsSessionRunning set.
HandleSessionStateChanged_Runs(ev, ok) ==
    /\ begun' = CASE ev = "ready" -> ok [] ev = "stopping" -> FALSE [] OTHER -> begun
    /\ running' = CASE ev = "ready" -> running \/ ok
                    [] ev \in {"exiting", "loss"} -> FALSE
                    [] OTHER -> running
    /\ onHead' = CASE ev = "focused" -> TRUE [] ev = "visible" -> FALSE [] OTHER -> onHead
    /\ appExit' = (appExit \/ ev \in {"exiting", "loss"})

\* READY calls xrBeginSession, which may fail; STOPPING calls xrEndSession.
HandleSessionStateChanged(ev, ok) ==
    /\ begun' = CASE ev = "ready" -> ok [] ev = "stopping" -> FALSE [] OTHER -> begun
    /\ running' = CASE ev = "ready" -> running \/ ok
                    [] ev \in {"stopping", "exiting", "loss"} -> FALSE
                    [] OTHER -> running
    /\ onHead' = CASE ev = "focused" -> TRUE [] ev = "visible" -> FALSE [] OTHER -> onHead
    /\ appExit' = (appExit \/ ev \in {"exiting", "loss"})

PollEvent(ok) ==
    /\ xpc = "drain" /\ events # <<>> /\ Head(events) # "instance_loss"
    /\ ok \/ "begin" \in Faults
    /\ events' = Tail(events)
    /\ HandleSessionStateChanged(Head(events), ok)
    /\ UNCHANGED <<xpc, pubVars, exit, menu, save, session, fileVars, asked>> /\ XrUnchanged

\* INSTANCE_LOSS_PENDING ends PollEvents, and the thread, at once.
PollInstanceLoss ==
    /\ xpc = "drain" /\ events # <<>> /\ Head(events) = "instance_loss"
    /\ events' = Tail(events)
    /\ appExit' = TRUE /\ exit' = TRUE
    /\ xpc' = "done"
    /\ UNCHANGED <<pubVars, running, onHead, menu, save, session, begun, fileVars, asked>> /\ XrUnchanged

\* PollEvents returned: leave, render a frame, or sleep for 2 ms.
PollDone ==
    /\ xpc = "drain" /\ events = <<>>
    /\ exit' = (exit \/ appExit)
    /\ xpc' = IF appExit THEN "done" ELSE IF running THEN "frame" ELSE "poll"
    /\ UNCHANGED <<pubVars, appExit, running, onHead, menu, save, rtVars, fileVars, asked>>
    /\ XrUnchanged

\* xrWaitFrame failed: Frame returns at once.
WaitFrameFails ==
    /\ xpc = "frame" /\ "wait" \in Faults
    /\ xpc' = "poll"
    /\ UNCHANGED <<pubVars, appVars, rtVars, fileVars, asked>> /\ XrUnchanged

ShouldRender == session \in {"visible", "focused"}

\* AcquireLatestFrame: a published frame is taken when the runtime wants one.
TakeFrame ==
    /\ xpc = "frame" /\ ShouldRender /\ Pub!Take
    /\ xpc' = "consume"
    /\ UNCHANGED <<frames, appVars, rtVars, fileVars, asked>> /\ XrUnchanged

NoFrameToTake ==
    /\ xpc = "frame" /\ (slot # "full" \/ ~ShouldRender)
    /\ xpc' = "ui"
    /\ UNCHANGED <<pubVars, appVars, rtVars, fileVars, asked>> /\ XrUnchanged

\* The blit signals present_done unless it is dropped or fails; the slot is
\* given back in either case.
ConsumeRenderer(blit) ==
    /\ xpc = "consume" /\ Pub!Release
    /\ blit \/ "blit" \in Faults
    /\ frames' = [frames EXCEPT ![NumFrames] = IF blit THEN "done" ELSE "lost"]
    /\ xpc' = "ui"
    /\ UNCHANGED <<appVars, rtVars, fileVars, asked>> /\ XrUnchanged

\* A frame without a menu action; xrEndFrame.
NoInput ==
    /\ xpc = "ui"
    /\ xpc' = "poll"
    /\ UNCHANGED <<pubVars, appVars, rtVars, fileVars, asked>> /\ XrUnchanged

InputPossible(input) == xpc = "ui" /\ ShouldRender /\ input \in Inputs

\* The wrist Menu button.
ToggleMenu ==
    /\ InputPossible("menu")
    /\ menu' = ~menu
    /\ xpc' = "poll"
    /\ UNCHANGED <<pubVars, exit, appExit, running, onHead, save, rtVars, fileVars, asked>>
    /\ XrUnchanged

\* The Save button and the quick-save chord.
RequestSave ==
    /\ InputPossible("save")
    /\ save' = TRUE /\ menu' = FALSE
    /\ xpc' = "poll"
    /\ UNCHANGED <<pubVars, exit, appExit, running, onHead, rtVars, fileVars, asked>>
    /\ XrUnchanged

Quit ==
    /\ InputPossible("quit") /\ menu
    /\ appExit' = TRUE
    /\ xpc' = "poll"
    /\ UNCHANGED <<pubVars, exit, running, onHead, menu, save, rtVars, fileVars, asked>>
    /\ XrUnchanged

\* SetOnLoadRom's callback; a sentinel that cannot be opened is not written.
LoadRom(r, written) ==
    /\ InputPossible("rom") /\ menu
    /\ written \/ "write" \in Faults
    /\ clean' = (clean /\ written)
    /\ romFile' = IF written THEN r ELSE romFile
    /\ asked' = Request(r, NoSlot)
    /\ exit' = TRUE /\ menu' = FALSE
    /\ xpc' = "poll"
    /\ UNCHANGED <<pubVars, appExit, running, onHead, save, rtVars, slotFile>> /\ XrUnchanged

\* SetOnLoadState's callback writes the ROM sentinel ...
LoadStateRom(s, written) ==
    /\ InputPossible("state") /\ menu
    /\ written \/ "write" \in Faults
    /\ clean' = (clean /\ written)
    /\ romFile' = IF written THEN args.rom ELSE romFile
    /\ asked' = Request(args.rom, s)
    /\ xpc' = "writeslot"
    /\ UNCHANGED <<pubVars, appVars, rtVars, slotFile>> /\ XrUnchanged

\* ... then the slot sentinel, and requests the exit.
LoadStateSlot(written) ==
    /\ xpc = "writeslot"
    /\ written \/ "write" \in Faults
    /\ clean' = (clean /\ written)
    /\ slotFile' = IF written THEN asked.slot ELSE slotFile
    /\ exit' = TRUE /\ menu' = FALSE
    /\ xpc' = "poll"
    /\ UNCHANGED <<pubVars, appExit, running, onHead, save, rtVars, romFile, asked>> /\ XrUnchanged

(***************************************************************************)
(* The OpenXR runtime (external): it moves the session between its states  *)
(* and queues an event for each.  It waits for xrBeginSession in READY and *)
(* for xrEndSession in STOPPING.  Only the XR thread reads what it does,   *)
(* so an event that arrives while PollEvents drains the queue is taken to  *)
(* have arrived before it or to arrive after it.                           *)
(***************************************************************************)
SessionMoves ==
    {<<"idle", "ready">>, <<"ready", "synchronized">>, <<"synchronized", "visible">>,
     <<"visible", "focused">>, <<"focused", "visible">>}
    \cup (IF "stop" \in Stops
          THEN {<<"visible", "synchronized">>, <<"synchronized", "stopping">>, <<"stopping", "idle">>}
          ELSE {})
    \cup (IF "exit" \in Stops THEN {<<"idle", "exiting">>} ELSE {})
    \cup ({"idle", "ready", "synchronized", "visible", "focused"}
          \X (Stops \cap {"loss", "instance_loss"}))

RuntimeStep ==
    /\ mpc # "exited" /\ xpc # "drain" /\ Len(events) < MaxEvents
    /\ \E s \in {m[2] : m \in SessionMoves} :
        /\ <<session, s>> \in SessionMoves
        /\ session = "ready" /\ s = "synchronized" => begun
        /\ session = "stopping" => ~begun
        /\ session' = s /\ events' = Append(events, s)
    /\ UNCHANGED <<mpc, xpc, pubVars, begun, appVars, fileVars, procVars>>

MainStep ==
    \/ CheckExit \/ Gate \/ RunSave \/ WaitPresentDone \/ WaitPublishSlot \/ PublishFrame
    \/ JoinXrThread \/ Shutdown
    \/ \E b \in BOOLEAN : RunSlice(b) \/ RunEnds(b) \/ Relaunch(b)

XrStep ==
    \/ XrLoopHead \/ PollInstanceLoss \/ PollDone \/ WaitFrameFails
    \/ TakeFrame \/ NoFrameToTake
    \/ \E ok \in BOOLEAN : PollEvent(ok) \/ ConsumeRenderer(ok)
    \/ NoInput \/ ToggleMenu \/ RequestSave \/ Quit
    \/ \E r \in Roms, written \in BOOLEAN : LoadRom(r, written)
    \/ \E s \in SaveSlots, written \in BOOLEAN : LoadStateRom(s, written)
    \/ \E written \in BOOLEAN : LoadStateSlot(written)

Next ==
    \/ MainStep \/ XrStep \/ RuntimeStep \/ Kill
    \/ \E r \in Roms, byBat, ok \in BOOLEAN : StartAgain(r, byBat, ok)

Spec == Init /\ [][Next]_vars

(***************************************************************************)
(* Both threads run on while they can and the runtime brings the session   *)
(* up.                                                                     *)
(***************************************************************************)
Fairness ==
    /\ WF_vars(MainStep) /\ WF_vars(XrStep) /\ WF_vars(RuntimeStep)

FairSpec == Spec /\ Fairness

-----------------------------------------------------------------------------
\* The OpenXR session calls are well paired: frames are only waited for, begun
\* and ended between xrBeginSession and xrEndSession, and READY and STOPPING
\* never begin a session twice or end one that was not begun.
SessionCallsPaired ==
    /\ xpc \in {"frame", "consume", "ui", "writeslot"} => begun
    /\ xpc = "drain" /\ events # <<>> =>
        (Head(events) = "ready" => ~begun) /\ (Head(events) = "stopping" => begun)

\* A process that starts its successor passes on exactly what its own user
\* asked for: the ROM, and the slot only if a slot was asked for ("Doing the
\* relaunch here too means it works regardless of how we were started"); unless
\* the sentinels are those of a process that was killed or could not write them.
RelaunchAsAsked ==
    [][mpc = "relaunch" /\ mpc' = "head" /\ clean => args' = asked]_vars

\* "citra_vr writes these when the user picks a ROM or a save-state Load slot from
\* the in-VR menu, then exits cleanly": the exit that LoadRom or LoadState
\* requests ends the process or starts its successor.
LoadExits == asked # NoRequest /\ exit ~> mpc = "exited" \/ ~exit

\* The menu pauses the emulation: while it stays open and the XR thread renders,
\* the main thread starts no further slice ("skip RunLoop so the emulated CPU/GPU
\* stop advancing"), and one that waited for the publish slot has got out of
\* RunLoop; only a frame that never comes back may keep it there.
MenuPauses ==
    <>[](menu /\ ShouldRender) /\ []<>(xpc = "ui")
        => <>[](mpc \notin {"run", "pubwait", "publish"} /\ (mpc = "fence" => Head(frames) = "lost"))
=============================================================================
