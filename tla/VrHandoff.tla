------------------------------ MODULE VrHandoff ------------------------------
(***************************************************************************)
(* The hand-off of finished 3DS frames from the emulator's Vulkan renderer *)
(* (main thread, PresentWindow) to the OpenXR compositor (XR thread,       *)
(* VrApp::Frame), together with the two GPU queues they submit to.         *)
(*                                                                         *)
(* Three actors interleave: the main thread (`mpc'), the XR thread (`xpc') *)
(* and the GPU, which retires the jobs of each queue in submission order.  *)
(* A section that the code runs under VrQueueMutex is one step guarded by  *)
(* `qmutex = "none"'; only vkDeviceWaitIdle holds that mutex over a wait.  *)
(***************************************************************************)
EXTENDS Naturals, Sequences

CONSTANTS
    NumFrames,      \* frame slots of the headless swapchain (3 in vk_swapchain.cpp)
    InFlight,       \* kInFlightFrames: command buffers of VrFrameSubmitter
    UiPerFrame,     \* menu and dimmer submissions in one XR frame
    Faults          \* the Vulkan calls that may fail (wait: a fence cannot be read)

ASSUME HandoffAssumption ==
    /\ NumFrames \in Nat \ {0}
    /\ InFlight \in Nat \ {0}
    /\ UiPerFrame \in Nat
    /\ Faults \subseteq {"wait", "begin", "blit", "end", "submit", "signal"}

Frames  == 1 .. NumFrames
NoFrame == 0
Slots   == 0 .. InFlight - 1

\* Layers whose Init paints an image: the menu's, which also waits for the
\* queue, and all others.
Layers  == {"shapes", "imgui"}

VARIABLES
    mpc,            \* main thread: position in RenderToWindow / RunLoop's Save
    cur,            \* Frame* of RenderToWindow
    free,           \* PresentWindow::free_queue
    pending,        \* PresentWindow::publish_pending
    attached,       \* PresentWindow::frame_publish_callback is set
    signal,         \* System::current_signal is Save
    xpc,            \* XR thread: position in VrApp::Frame
    src,            \* the frame claimed by this VrApp::Frame
    lazy,           \* layers that are not initialised yet
    lost,           \* history: frames claimed without a queued signal of present_done
    ui,             \* UI submissions left in this VrApp::Frame
    latest,         \* EmuWindow_VR_Win::mLatestFrame
    claimed,        \* mLatestFrame.serial = mLastClaimedSerial
    busy,           \* owner of VrCoreBusyMutex
    qmutex,         \* owner of VrQueueMutex over a blocking wait
    done,           \* Frame::present_done fences
    renderReady,    \* Frame::render_ready binary semaphores
    handoff,        \* Frame::vr_handoff binary semaphores
    gq, vq,         \* jobs submitted to the graphics and the VR queue
    slotFence,      \* VrFrameSubmitter::mFences
    current,        \* VrFrameSubmitter::mCurrent
    recording       \* VrFrameSubmitter::mRecording

mainVars == <<mpc, cur, free, attached>>
xrVars   == <<xpc, src, ui, lazy, lost>>
pubVars  == <<pending, latest, claimed>>
lockVars == <<busy, qmutex, signal>>
gpuVars  == <<done, renderReady, handoff, gq, vq>>
subVars  == <<slotFence, current, recording>>
vars     == <<mainVars, xrVars, pubVars, lockVars, gpuVars, subVars>>

Job(op, f, s) == [op |-> op, frame |-> f, slot |-> s]

Init ==
    /\ mpc = "idle" /\ cur = NoFrame
    /\ free = [i \in Frames |-> i]
    /\ attached = FALSE
    /\ xpc = "off" /\ src = NoFrame /\ ui = 0 /\ lazy = Layers /\ lost = {}
    /\ pending = FALSE /\ latest = NoFrame /\ claimed = TRUE
    /\ busy = "none" /\ qmutex = "none" /\ signal = FALSE
    /\ done = [f \in Frames |-> TRUE]
    /\ renderReady = [f \in Frames |-> FALSE]
    /\ handoff = [f \in Frames |-> FALSE]
    /\ gq = <<>> /\ vq = <<>>
    /\ slotFence = [s \in Slots |-> TRUE]
    /\ current = 0 /\ recording = FALSE

(***************************************************************************)
(* Main thread: RendererVulkan::RenderToWindow.                            *)
(***************************************************************************)

\* RunLoop finds no signal and runs the cores for a slice ...
BeginSlice ==
    /\ mpc = "idle" /\ ~signal
    /\ mpc' = "slice"
    /\ UNCHANGED <<cur, free, attached, xrVars, pubVars, lockVars, gpuVars, subVars>>

\* ... in which any number of VBlanks fall.
EndSlice ==
    /\ mpc = "slice"
    /\ mpc' = "idle"
    /\ UNCHANGED <<cur, free, attached, xrVars, pubVars, lockVars, gpuVars, subVars>>

\* At a VBlank GetRenderFrame takes the oldest free frame ...
TakeFreeFrame ==
    /\ mpc = "slice" /\ free # <<>>
    /\ cur' = Head(free)
    /\ free' = Tail(free)
    /\ mpc' = "fence"
    /\ UNCHANGED <<attached, xrVars, pubVars, lockVars, gpuVars, subVars>>

\* Mutant: the frame is reused without waiting for the compositor's blit.
WaitPresentDone_NoWait ==
    /\ mpc = "fence"
    /\ done' = [done EXCEPT ![cur] = FALSE]
    /\ mpc' = "draw"
    /\ UNCHANGED <<cur, free, attached, renderReady, handoff, gq, vq,
                   xrVars, pubVars, lockVars, subVars>>

\* ... and waits without a timeout for its present_done fence, which it resets.
WaitPresentDone ==
    /\ mpc = "fence" /\ done[cur]
    /\ done' = [done EXCEPT ![cur] = FALSE]
    /\ mpc' = "draw"
    /\ UNCHANGED <<cur, free, attached, renderReady, handoff, gq, vq,
                   xrVars, pubVars, lockVars, subVars>>

\* (RecreateFrame,) DrawScreens, Flush(render_ready) and WaitWorker.
DrawFrame ==
    /\ mpc = "draw" /\ qmutex = "none"
    /\ gq' = Append(gq, Job("draw", cur, 0))
    /\ mpc' = "pubwait"
    /\ UNCHANGED <<cur, free, attached, done, renderReady, handoff, vq,
                   xrVars, pubVars, lockVars, subVars>>

\* Mutant: a frame is handed off while the previous one is still pending.
ClaimPublishSlot_NoWait ==
    /\ mpc = "pubwait"
    /\ pending' = TRUE
    /\ mpc' = "handoff"
    /\ UNCHANGED <<cur, free, attached, latest, claimed,
                   xrVars, lockVars, gpuVars, subVars>>

\* CopyToSwapchain (headless) waits for the publish slot and takes it.
ClaimPublishSlot ==
    /\ mpc = "pubwait" /\ ~pending
    /\ pending' = TRUE
    /\ mpc' = "handoff"
    /\ UNCHANGED <<cur, free, attached, latest, claimed,
                   xrVars, lockVars, gpuVars, subVars>>

\* With a consumer: the no-op that turns render_ready into vr_handoff.
SubmitHandoff ==
    /\ mpc = "handoff" /\ attached /\ qmutex = "none"
    /\ gq' = Append(gq, Job("handoff", cur, 0))
    /\ mpc' = "callback"
    /\ UNCHANGED <<cur, free, attached, done, renderReady, handoff, vq,
                   xrVars, pubVars, lockVars, subVars>>

\* frame_publish_callback = EmuWindow_VR_Win::PublishFrame; then Present
\* returns the frame to free_queue, while the XR thread still has to read it.
PublishFrame ==
    /\ mpc = "callback"
    /\ latest' = cur /\ claimed' = FALSE
    /\ free' = Append(free, cur)
    /\ cur' = NoFrame /\ mpc' = "slice"
    /\ UNCHANGED <<attached, pending, xrVars, lockVars, gpuVars, subVars>>

\* Without a consumer the no-op signals present_done itself.
RecycleDetached ==
    /\ mpc = "handoff" /\ ~attached /\ qmutex = "none"
    /\ gq' = Append(gq, Job("noop", cur, 0))
    /\ pending' = FALSE
    /\ free' = Append(free, cur)
    /\ cur' = NoFrame /\ mpc' = "slice"
    /\ UNCHANGED <<attached, latest, claimed, done, renderReady, handoff, vq,
                   xrVars, lockVars, subVars>>

\* citra_vr.cpp binds the EmuWindow to the renderer, then starts the XR thread.
BindToRenderer ==
    /\ mpc = "idle" /\ ~attached
    /\ attached' = TRUE
    /\ xpc' = "frame"
    /\ UNCHANGED <<mpc, cur, free, src, ui, lazy, lost, pubVars, lockVars, gpuVars, subVars>>

(***************************************************************************)
(* Main thread: RunLoop handling Signal::Save under VrCoreBusyMutex.       *)
(***************************************************************************)
\* RunLoop fetches the signal and clears it before it asks for the mutex.
TakeSaveSignal ==
    /\ mpc = "idle" /\ signal
    /\ signal' = FALSE
    /\ mpc' = "lockbusy"
    /\ UNCHANGED <<cur, free, attached, busy, qmutex, xrVars, pubVars, gpuVars, subVars>>

\* Mutant: the save runs without VrCoreBusyMutex.
SaveLockBusy_NoLock ==
    /\ mpc = "lockbusy"
    /\ mpc' = "lockqueue"
    /\ UNCHANGED <<cur, free, attached, lockVars, xrVars, pubVars, gpuVars, subVars>>

SaveLockBusy ==
    /\ mpc = "lockbusy" /\ busy = "none"
    /\ busy' = "main"
    /\ mpc' = "lockqueue"
    /\ UNCHANGED <<cur, free, attached, qmutex, signal, xrVars, pubVars, gpuVars, subVars>>

\* VrWaitIdleThunk holds VrQueueMutex while the device drains.
SaveLockQueue ==
    /\ mpc = "lockqueue" /\ qmutex = "none"
    /\ qmutex' = "main"
    /\ mpc' = "waitidle"
    /\ UNCHANGED <<cur, free, attached, busy, signal, xrVars, pubVars, gpuVars, subVars>>

SaveDeviceIdle ==
    /\ mpc = "waitidle" /\ gq = <<>> /\ vq = <<>>
    /\ qmutex' = "none"
    /\ mpc' = "saving"
    /\ UNCHANGED <<cur, free, attached, busy, signal, xrVars, pubVars, gpuVars, subVars>>

SaveDone ==
    /\ mpc = "saving"
    /\ busy' = "none"
    /\ mpc' = "idle"
    /\ UNCHANGED <<cur, free, attached, qmutex, signal, xrVars, pubVars, gpuVars, subVars>>

(***************************************************************************)
(* XR thread: VrApp::Frame.                                                *)
(***************************************************************************)

\* Mutant of Submit: present_done is not signalled.
Submit_NoSignal(outcome, jobs) ==
    /\ outcome = "ok" \/ outcome \in Faults
    /\ recording' = FALSE
    /\ current' = (current + 1) % InFlight
    /\ vq' = Append(vq, Head(jobs))

\* VrFrameSubmitter::Submit of an open recording.  The outcome names the first
\* Vulkan call that fails: vkEndCommandBuffer, the first or the second
\* vkQueueSubmit; mCurrent advances unless vkEndCommandBuffer failed.
Submit(outcome, jobs) ==
    /\ outcome = "ok" \/ outcome \in Faults
    /\ recording' = FALSE
    /\ current' = IF outcome = "end" THEN current ELSE (current + 1) % InFlight
    /\ vq' = CASE outcome = "ok" -> vq \o jobs
               [] outcome = "signal" -> Append(vq, Head(jobs))
               [] OTHER -> vq

\* Begin(block = true), which waits for its slot without a timeout, a recording
\* and Submit().  With outcome "wait" Begin returns null at once.
Paint(outcome) ==
    \/ /\ outcome = "wait" /\ (recording \/ outcome \in Faults)
       /\ UNCHANGED <<vq, subVars>>
    \/ /\ outcome # "wait" /\ ~recording /\ slotFence[current] /\ qmutex = "none"
       /\ slotFence' = [slotFence EXCEPT ![current] = FALSE]
       /\ \/ outcome = "begin" /\ outcome \in Faults /\ UNCHANGED <<vq, current, recording>>
          \/ outcome # "begin" /\ Submit(outcome, <<Job("ui", NoFrame, current)>>)

PaintOutcomes == {"ok", "wait", "begin", "end", "submit"}

\* xrWaitFrame and xrBeginFrame; layers that are not initialised come first.
BeginXrFrame ==
    /\ xpc = "frame"
    /\ ui' = UiPerFrame
    /\ xpc' = IF "shapes" \in lazy THEN "shapes" ELSE IF "imgui" \in lazy THEN "imgui" ELSE "lock"
    /\ UNCHANGED <<src, lazy, lost, mainVars, pubVars, lockVars, gpuVars, subVars>>

\* Init of a layer paints its image; after a failure the next frame tries again.
InitLayer(layer, outcome) ==
    /\ xpc = layer
    /\ Paint(outcome)
    /\ lazy' = IF outcome = "ok" THEN lazy \ {layer} ELSE lazy
    /\ xpc' = CASE layer = "shapes" /\ "imgui" \in lazy -> "imgui"
                [] layer = "imgui" /\ outcome = "ok"    -> "drain"
                [] OTHER                                -> "lock"
    /\ UNCHANGED <<src, ui, lost, done, renderReady, handoff, gq, mainVars, pubVars, lockVars>>

\* ImGuiLayer::Init waits for its font upload with vkQueueWaitIdle.
DrainQueue ==
    /\ xpc = "drain" /\ vq = <<>>
    /\ xpc' = "lock"
    /\ UNCHANGED <<src, ui, lazy, lost, mainVars, pubVars, lockVars, gpuVars, subVars>>

\* std::try_to_lock may also fail when the mutex is free; an owned lock is held
\* to the end of Frame.
TryLockBusy(shouldRender, owns) ==
    /\ xpc = "lock"
    /\ owns => busy = "none"
    /\ busy' = IF owns THEN "xr" ELSE busy
    /\ xpc' = IF shouldRender /\ owns THEN "claim" ELSE "ui"
    /\ UNCHANGED <<src, ui, lazy, lost, qmutex, signal, mainVars, pubVars, gpuVars, subVars>>

\* Mutant: the same frame is handed out again.
AcquireLatestFrame_Again ==
    /\ xpc = "claim"
    /\ IF latest = NoFrame
       THEN xpc' = "ui" /\ UNCHANGED <<src, claimed>>
       ELSE xpc' = "begin" /\ src' = latest /\ claimed' = TRUE
    /\ UNCHANGED <<ui, lazy, lost, pending, latest, mainVars, lockVars, gpuVars, subVars>>

\* AcquireLatestFrame: a frame is returned at most once.
AcquireLatestFrame ==
    /\ xpc = "claim"
    /\ IF latest = NoFrame \/ claimed
       THEN xpc' = "ui" /\ UNCHANGED <<src, claimed>>
       ELSE xpc' = "begin" /\ src' = latest /\ claimed' = TRUE
    /\ UNCHANGED <<ui, lazy, lost, pending, latest, mainVars, lockVars, gpuVars, subVars>>

\* Begin(block = false) finds its slot busy, or vkGetFenceStatus fails: the
\* blit is dropped.
BeginDropped ==
    /\ xpc = "begin"
    /\ recording \/ ~slotFence[current] \/ "wait" \in Faults
    /\ xpc' = "consume"
    /\ lost' = lost \cup {src}
    /\ UNCHANGED <<src, ui, lazy, mainVars, pubVars, lockVars, gpuVars, subVars>>

\* Begin(block = false) resets the slot's fence before it starts recording.
BeginBlit(ok) ==
    /\ xpc = "begin" /\ ~recording /\ slotFence[current]
    /\ ok \/ "begin" \in Faults
    /\ slotFence' = [slotFence EXCEPT ![current] = FALSE]
    /\ recording' = ok
    /\ xpc' = IF ok THEN "blit" ELSE "consume"
    /\ lost' = IF ok THEN lost ELSE lost \cup {src}
    /\ UNCHANGED <<src, ui, lazy, current, mainVars, pubVars, lockVars, gpuVars>>

\* GameQuadLayer::Blit returned false: nothing is submitted.
BlitFailed ==
    /\ xpc = "blit" /\ "blit" \in Faults
    /\ xpc' = "consume"
    /\ lost' = lost \cup {src}
    /\ UNCHANGED <<src, ui, lazy, mainVars, pubVars, lockVars, gpuVars, subVars>>

\* The game blit waits for vr_handoff; an empty second submission signals
\* present_done.
SubmitBlit(outcome) ==
    /\ xpc = "blit" /\ qmutex = "none"
    /\ Submit(outcome, <<Job("blit", src, current), Job("signal", src, 0)>>)
    /\ lost' = IF outcome = "ok" THEN lost ELSE lost \cup {src}
    /\ xpc' = "consume"
    /\ UNCHANGED <<src, ui, lazy, slotFence, done, renderReady, handoff, gq,
                   mainVars, pubVars, lockVars>>

\* Mutant: the publish slot is not released.
ConsumeRenderer_Keeps ==
    /\ xpc = "consume"
    /\ src' = NoFrame
    /\ xpc' = "ui"
    /\ UNCHANGED <<ui, lazy, lost, pubVars, mainVars, lockVars, gpuVars, subVars>>

\* ConsumeRenderer -> NotifyFrameConsumed, whatever became of the blit.
ConsumeRenderer ==
    /\ xpc = "consume"
    /\ pending' = FALSE
    /\ src' = NoFrame
    /\ xpc' = "ui"
    /\ UNCHANGED <<ui, lazy, lost, latest, claimed, mainVars, lockVars, gpuVars, subVars>>

\* A layer that repaints (ImGuiLayer, DimLayer), or gives up.
UiSubmit(outcome) ==
    /\ xpc = "ui" /\ ui > 0
    /\ ui' = ui - 1
    /\ Paint(outcome)
    /\ UNCHANGED <<xpc, src, lazy, lost, done, renderReady, handoff, gq,
                   mainVars, pubVars, lockVars>>

\* Nothing to repaint this frame.
UiSkip ==
    /\ xpc = "ui" /\ ui > 0
    /\ ui' = ui - 1
    /\ UNCHANGED <<xpc, src, lazy, lost, mainVars, pubVars, lockVars, gpuVars, subVars>>

\* The menu's Save button: System::SendSignal(Signal::Save, slot).
SendSaveSignal ==
    /\ xpc = "ui" /\ ~signal
    /\ signal' = TRUE
    /\ UNCHANGED <<xpc, src, ui, lazy, lost, busy, qmutex, mainVars, pubVars, gpuVars, subVars>>

\* Mutant: VrCoreBusyMutex stays locked.
EndXrFrame_KeepsLock ==
    /\ xpc = "ui" /\ ui = 0 /\ qmutex = "none"
    /\ xpc' = "frame"
    /\ UNCHANGED <<src, ui, lazy, lost, lockVars, mainVars, pubVars, gpuVars, subVars>>

\* xrEndFrame under VrQueueMutex; leaving Frame releases VrCoreBusyMutex.
EndXrFrame ==
    /\ xpc = "ui" /\ ui = 0 /\ qmutex = "none"
    /\ busy' = IF busy = "xr" THEN "none" ELSE busy
    /\ xpc' = "frame"
    /\ UNCHANGED <<src, ui, lazy, lost, qmutex, signal, mainVars, pubVars, gpuVars, subVars>>

(***************************************************************************)
(* The GPU (external): each queue retires its jobs in order; a job waits   *)
(* for its semaphore, consumes it, and signals a semaphore or a fence.     *)
(***************************************************************************)
GraphicsQueueStep ==
    LET f == Head(gq).frame IN
    /\ gq # <<>>
    /\ gq' = Tail(gq)
    /\ \/ /\ Head(gq).op = "draw"
          /\ renderReady' = [renderReady EXCEPT ![f] = TRUE]
          /\ UNCHANGED <<handoff, done>>
       \/ /\ Head(gq).op = "handoff" /\ renderReady[f]
          /\ renderReady' = [renderReady EXCEPT ![f] = FALSE]
          /\ handoff' = [handoff EXCEPT ![f] = TRUE]
          /\ UNCHANGED done
       \/ /\ Head(gq).op = "noop" /\ renderReady[f]
          /\ renderReady' = [renderReady EXCEPT ![f] = FALSE]
          /\ done' = [done EXCEPT ![f] = TRUE]
          /\ UNCHANGED handoff
    /\ UNCHANGED <<vq, mainVars, xrVars, pubVars, lockVars, subVars>>

VrQueueStep ==
    LET j == Head(vq) IN
    /\ vq # <<>>
    /\ vq' = Tail(vq)
    /\ \/ /\ j.op = "blit" /\ handoff[j.frame]
          /\ handoff' = [handoff EXCEPT ![j.frame] = FALSE]
          /\ slotFence' = [slotFence EXCEPT ![j.slot] = TRUE]
          /\ UNCHANGED done
       \/ /\ j.op = "signal"
          /\ done' = [done EXCEPT ![j.frame] = TRUE]
          /\ UNCHANGED <<handoff, slotFence>>
       \/ /\ j.op = "ui"
          /\ slotFence' = [slotFence EXCEPT ![j.slot] = TRUE]
          /\ UNCHANGED <<handoff, done>>
    /\ UNCHANGED <<renderReady, gq, current, recording,
                   mainVars, xrVars, pubVars, lockVars>>

Main ==
    \/ BeginSlice \/ EndSlice \/ TakeFreeFrame \/ WaitPresentDone \/ DrawFrame
    \/ ClaimPublishSlot \/ SubmitHandoff \/ PublishFrame \/ RecycleDetached \/ BindToRenderer
    \/ TakeSaveSignal \/ SaveLockBusy \/ SaveLockQueue \/ SaveDeviceIdle \/ SaveDone

Xr ==
    \/ BeginXrFrame
    \/ \E layer \in Layers, outcome \in PaintOutcomes : InitLayer(layer, outcome)
    \/ DrainQueue
    \/ \E shouldRender, owns \in BOOLEAN : TryLockBusy(shouldRender, owns)
    \/ AcquireLatestFrame \/ BeginDropped
    \/ \E ok \in BOOLEAN : BeginBlit(ok)
    \/ BlitFailed
    \/ \E outcome \in {"ok", "end", "submit", "signal"} : SubmitBlit(outcome)
    \/ \E outcome \in PaintOutcomes : UiSubmit(outcome)
    \/ ConsumeRenderer \/ UiSkip \/ SendSaveSignal \/ EndXrFrame

Gpu == GraphicsQueueStep \/ VrQueueStep

Next == Main \/ Xr \/ Gpu

Spec == Init /\ [][Next]_vars

(***************************************************************************)
(* Each thread runs on while it can and the GPU retires what it is given;  *)
(* the runtime asks again and again for a rendered frame while the session *)
(* is visible, std::try_to_lock succeeds again and again, and the main     *)
(* thread gets VrCoreBusyMutex, which is free while xrWaitFrame blocks.  A *)
(* slice has a bounded number of ticks (MAX_SLICE_LENGTH), so it ends.     *)
(***************************************************************************)
Fairness ==
    /\ WF_vars(Main) /\ WF_vars(Xr)
    /\ SF_vars(TryLockBusy(TRUE, TRUE)) /\ SF_vars(SaveLockBusy) /\ SF_vars(EndSlice)
    /\ WF_vars(GraphicsQueueStep) /\ WF_vars(VrQueueStep)

FairSpec == Spec /\ Fairness

-----------------------------------------------------------------------------
JobType == [op : {"draw", "handoff", "noop", "blit", "signal", "ui"},
            frame : Frames \cup {NoFrame}, slot : Slots]

\* Type correctness of the hand-off state.
TypeOK ==
    /\ mpc \in {"idle", "slice", "fence", "draw", "pubwait", "handoff", "callback",
                "lockbusy", "lockqueue", "waitidle", "saving"}
    /\ cur \in Frames \cup {NoFrame}
    /\ free \in Seq(Frames)
    /\ xpc \in {"off", "frame", "drain", "lock", "claim", "begin", "blit", "consume", "ui"} \cup Layers
    /\ lazy \subseteq Layers /\ lost \subseteq Frames \cup {NoFrame}
    /\ src \in Frames \cup {NoFrame}
    /\ ui \in 0 .. UiPerFrame
    /\ latest \in Frames \cup {NoFrame}
    /\ pending \in BOOLEAN /\ attached \in BOOLEAN /\ signal \in BOOLEAN
    /\ claimed \in BOOLEAN /\ recording \in BOOLEAN
    /\ busy \in {"none", "main", "xr"} /\ qmutex \in {"none", "main"}
    /\ done \in [Frames -> BOOLEAN]
    /\ renderReady \in [Frames -> BOOLEAN]
    /\ handoff \in [Frames -> BOOLEAN]
    /\ gq \in Seq(JobType) /\ vq \in Seq(JobType)
    /\ slotFence \in [Slots -> BOOLEAN]
    /\ current \in Slots

JobsIn(q, op, f) == {i \in DOMAIN q : q[i].op = op /\ q[i].frame = f}

RendererOwns(f) == cur = f /\ mpc \in {"draw", "pubwait", "handoff", "callback"}

\* The XR thread may record a blit of the frame and submit it.
XrHolds(f) == src = f /\ xpc \in {"begin", "blit"}

\* The frame is published and AcquireLatestFrame would return it.
Published(f) == latest = f /\ ~claimed

\* From the moment GetRenderFrame returns a frame until it is published, nobody
\* else can touch its image: the XR thread does not hold it and cannot claim
\* it, and no blit of it and no fence signal for it is queued
\* (vk_present_window.cpp, GetRenderFrame: "all frame resources are free").
RendererHasExclusiveFrame ==
    \A f \in Frames : RendererOwns(f) =>
        /\ ~XrHolds(f) /\ ~Published(f)
        /\ \A i \in DOMAIN vq : vq[i].frame # f

\* The binary semaphore vr_handoff: the signal a blit waits for was submitted
\* before the blit, it is waited for once, and it is never signalled again
\* before that wait (CopyToSwapchain's sync chain and AcquireLatestFrame).
HandoffSemaphoreProtocol ==
    \A f \in Frames :
        /\ \A i, j \in JobsIn(vq, "blit", f) : i = j
        /\ JobsIn(vq, "blit", f) # {} => handoff[f] # (JobsIn(gq, "handoff", f) # {})
        /\ ~(handoff[f] /\ JobsIn(gq, "handoff", f) # {})

\* While RunLoop saves the state under VrCoreBusyMutex no blit of a renderer
\* image is queued or being recorded (core.cpp: the wait-idle hook makes sure
\* "the GPU isn't still reading the images").
SaveIsQuiescent ==
    mpc = "saving" =>
        /\ xpc \notin {"claim", "begin", "blit", "consume"}
        /\ \A i \in DOMAIN vq : vq[i].op = "ui"

\* The publish slot as its two users see it.
SlotView ==
    CASE ~pending -> "empty"
      [] pending /\ mpc \in {"handoff", "callback"} -> "filling"
      [] pending /\ mpc \notin {"handoff", "callback"} /\ ~claimed -> "full"
      [] OTHER -> "taken"

Slot == INSTANCE PublishSlot WITH slot <- SlotView

\* publish_pending, mLatestFrame and mLastClaimedSerial, which three mutexes
\* protect separately, together implement one slot that goes round between the
\* renderer and the XR thread: no frame is taken twice, overwritten before it
\* is taken, or released by a thread that does not hold it.
ImplementsPublishSlot == Slot!Spec

\* GetRenderFrame's wait for present_done ends: "the renderer only recycles the
\* frame slot after our blit completes" and "Even if the blit failed we must
\* still release the publish slot, otherwise the renderer thread will deadlock"
\* (VrApp.cpp).
RendererGetsFrame == (mpc = "fence") ~> (mpc = "draw")

\* RenderToWindow waits for a fence that nothing will signal.
RendererHangs == mpc = "fence" /\ cur \in lost

\* VrApp::Frame waits in Begin for a slot that is not on its way: the Begin or
\* Submit that reset its fence failed.
XrHangs ==
    /\ xpc \in Layers \cup {"ui"}
    /\ ~recording /\ ~slotFence[current]
    /\ \A i \in DOMAIN vq : vq[i].op = "signal" \/ vq[i].slot # current

\* The only frames the renderer does not get back are those whose blit was
\* dropped: every other frame that was claimed is signalled, whatever happened
\* to the frames and to the paintings around it.
OnlyLostFramesStick == (mpc = "fence" /\ cur \notin lost) ~> (mpc = "draw")

\* The renderer waiting in CopyToSwapchain for the publish slot gets it, unless
\* the XR thread hangs: a dropped blit and a failed one release it too.
PublishSlotFreed == (mpc = "pubwait") ~> (mpc = "handoff" \/ XrHangs)

\* A save requested from the menu is performed, although the XR thread takes
\* VrCoreBusyMutex in every frame, its menu paints through the same ring and
\* the renderer waits for the XR thread: only a thread that hangs prevents it.
SaveCompletes == signal ~> (mpc = "saving" \/ RendererHangs \/ XrHangs)
=============================================================================
