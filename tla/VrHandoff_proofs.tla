--------------------------- MODULE VrHandoff_proofs ---------------------------
(***************************************************************************)
(* Proofs about VrHandoff for every number of frames, every ring depth,    *)
(* every number of UI submissions and every set of failing Vulkan calls.   *)
(*                                                                         *)
(* A frame is, at any time, in at most one of six places: its present_done *)
(* fence is signalled, the renderer owns it, it is published, the XR       *)
(* thread holds it, the VR queue has jobs for it, or the graphics queue    *)
(* has the no-op that signals its fence.  FrameInOnePlace says so, and is  *)
(* inductive together with the order of the jobs in the queues.            *)
(***************************************************************************)
EXTENDS VrHandoff, TLAPS

-----------------------------------------------------------------------------
(* Queues of jobs. *)

HasJob(q, f)     == \E i \in DOMAIN q : q[i].frame = f
HasNoop(q, f)    == \E i \in DOMAIN q : q[i].frame = f /\ q[i].op = "noop"
OneNoop(q, f)    == \A i, j \in DOMAIN q :
                        (q[i].frame = f /\ q[i].op = "noop" /\ q[j].frame = f /\ q[j].op = "noop")
                        => i = j
SignalLast(q, f) == \A i, j \in DOMAIN q :
                        (q[i].frame = f /\ q[j].frame = f /\ q[j].op = "signal") => i <= j

\* Where the elements of the tail of a queue come from.
LEMMA TailElements ==
  ASSUME NEW S, NEW q \in Seq(S), q # <<>>
  PROVE  /\ Tail(q) \in Seq(S) /\ Head(q) \in S /\ Head(q) = q[1] /\ 1 \in DOMAIN q
         /\ \A i \in DOMAIN Tail(q) : i \in Nat /\ i >= 1 /\ i + 1 \in DOMAIN q /\ Tail(q)[i] = q[i + 1]
  OBVIOUS

\* Where the elements of an extended queue come from.
LEMMA AppendElements ==
  ASSUME NEW S, NEW q \in Seq(S), NEW e \in S
  PROVE  /\ Append(q, e) \in Seq(S)
         /\ \A i \in DOMAIN q : i \in Nat /\ i <= Len(q)
         /\ \A i \in DOMAIN Append(q, e) :
                \/ i \in DOMAIN q /\ Append(q, e)[i] = q[i]
                \/ i = Len(q) + 1 /\ Append(q, e)[i] = e
  OBVIOUS

\* Retiring the head of a queue adds no job; retiring a signal or the no-op of
\* a frame leaves none behind.
LEMMA RetireJob ==
  ASSUME NEW q \in Seq(JobType), q # <<>>, NEW f
  PROVE  /\ HasJob(Tail(q), f) => HasJob(q, f)
         /\ HasNoop(Tail(q), f) => HasNoop(q, f)
         /\ OneNoop(q, f) => OneNoop(Tail(q), f)
         /\ SignalLast(q, f) => SignalLast(Tail(q), f)
         /\ HasJob(q, Head(q).frame)
         /\ Head(q).op = "noop" => HasNoop(q, Head(q).frame)
         /\ SignalLast(q, f) /\ Head(q).op = "signal" /\ Head(q).frame = f => ~HasJob(Tail(q), f)
         /\ OneNoop(q, f) /\ Head(q).op = "noop" /\ Head(q).frame = f => ~HasNoop(Tail(q), f)
<1> USE TailElements
<1>1. HasJob(Tail(q), f) => HasJob(q, f) BY DEF HasJob
<1>2. HasNoop(Tail(q), f) => HasNoop(q, f) BY DEF HasNoop
<1>3. OneNoop(q, f) => OneNoop(Tail(q), f) BY DEF OneNoop
<1>4. SignalLast(q, f) => SignalLast(Tail(q), f) BY DEF SignalLast
<1>5. HasJob(q, Head(q).frame) BY DEF HasJob
<1>6. Head(q).op = "noop" => HasNoop(q, Head(q).frame) BY DEF HasNoop
<1>7. SignalLast(q, f) /\ Head(q).op = "signal" /\ Head(q).frame = f => ~HasJob(Tail(q), f)
  BY DEF SignalLast, HasJob
<1>8. OneNoop(q, f) /\ Head(q).op = "noop" /\ Head(q).frame = f => ~HasNoop(Tail(q), f)
  BY DEF OneNoop, HasNoop
<1> QED BY <1>1, <1>2, <1>3, <1>4, <1>5, <1>6, <1>7, <1>8

\* Submitting a job adds that job and nothing else.
LEMMA SubmitJob ==
  ASSUME NEW q \in Seq(JobType), NEW e \in JobType, NEW f
  PROVE  /\ HasJob(Append(q, e), f) => HasJob(q, f) \/ e.frame = f
         /\ HasNoop(Append(q, e), f) => HasNoop(q, f) \/ (e.frame = f /\ e.op = "noop")
         /\ OneNoop(q, f) /\ ~HasNoop(q, f) => OneNoop(Append(q, e), f)
         /\ OneNoop(q, f) /\ ~(e.frame = f /\ e.op = "noop") => OneNoop(Append(q, e), f)
         /\ SignalLast(q, f) /\ e.frame # f => SignalLast(Append(q, e), f)
         /\ ~HasJob(q, f) => SignalLast(Append(q, e), f)
<1> USE AppendElements
<1>1. HasJob(Append(q, e), f) => HasJob(q, f) \/ e.frame = f BY DEF HasJob
<1>2. HasNoop(Append(q, e), f) => HasNoop(q, f) \/ (e.frame = f /\ e.op = "noop") BY DEF HasNoop
<1>3. OneNoop(q, f) /\ ~HasNoop(q, f) => OneNoop(Append(q, e), f) BY DEF OneNoop, HasNoop
<1>4. OneNoop(q, f) /\ ~(e.frame = f /\ e.op = "noop") => OneNoop(Append(q, e), f) BY DEF OneNoop
<1>5. SignalLast(q, f) /\ e.frame # f => SignalLast(Append(q, e), f) BY DEF SignalLast
<1>6. ~HasJob(q, f) => SignalLast(Append(q, e), f) BY DEF SignalLast, HasJob
<1> QED BY <1>1, <1>2, <1>3, <1>4, <1>5, <1>6

\* Submit's pair of jobs, the blit of a frame and the signal of its fence.
LEMMA SubmitPair ==
  ASSUME NEW q \in Seq(JobType), NEW a \in JobType, NEW b \in JobType, NEW f,
         a.op # "signal"
  PROVE  /\ q \o <<a, b>> \in Seq(JobType)
         /\ HasJob(q \o <<a, b>>, f) => HasJob(q, f) \/ a.frame = f \/ b.frame = f
         /\ SignalLast(q, f) /\ a.frame # f /\ b.frame # f => SignalLast(q \o <<a, b>>, f)
         /\ ~HasJob(q, f) => SignalLast(q \o <<a, b>>, f)
<1> DEFINE p == Append(q, a)
<1>1. q \o <<a, b>> = Append(p, b) OBVIOUS
<1>2. p \in Seq(JobType) OBVIOUS
<1>3. ~HasJob(q, f) => SignalLast(Append(p, b), f)
  <2> SUFFICES ASSUME ~HasJob(q, f), NEW i \in DOMAIN Append(p, b), NEW j \in DOMAIN Append(p, b),
                      Append(p, b)[i].frame = f, Append(p, b)[j].frame = f,
                      Append(p, b)[j].op = "signal"
               PROVE  i <= j
    BY DEF SignalLast
  <2>1. j = Len(p) + 1 BY <1>2, AppendElements DEF HasJob
  <2> QED BY <2>1, <1>2
<1> HIDE DEF p
<1>4. HasJob(p, f) => HasJob(q, f) \/ a.frame = f BY SubmitJob DEF p
<1>5. SignalLast(q, f) /\ a.frame # f => SignalLast(p, f) BY SubmitJob DEF p
<1>6. HasJob(Append(p, b), f) => HasJob(p, f) \/ b.frame = f BY SubmitJob, <1>2
<1>7. SignalLast(p, f) /\ b.frame # f => SignalLast(Append(p, b), f) BY SubmitJob, <1>2
<1>8. Append(p, b) \in Seq(JobType) BY <1>2
<1> QED BY <1>1, <1>3, <1>4, <1>5, <1>6, <1>7, <1>8
-----------------------------------------------------------------------------
(* Type correctness, with the fact that a drawing renderer has a frame. *)

CurIsFrame == mpc \in {"fence", "draw", "pubwait", "handoff", "callback"} => cur \in Frames

TypeInv == TypeOK /\ CurIsFrame

\* Setting one fence or semaphore leaves a function to the Booleans.
LEMMA BoolExcept ==
  ASSUME NEW S, NEW d \in [S -> BOOLEAN], NEW x, NEW b \in BOOLEAN
  PROVE  [d EXCEPT ![x] = b] \in [S -> BOOLEAN]
  OBVIOUS

\* The ring index of Submit, taken modulo kInFlightFrames, is in the ring.
LEMMA ModRange == ASSUME NEW n \in Nat \ {0}, NEW a \in Nat PROVE a % n \in 0 .. n - 1
  OBVIOUS

\* What a job consists of.
LEMMA JobTyped ==
  ASSUME NEW op \in {"draw", "handoff", "noop", "blit", "signal", "ui"},
         NEW f \in Frames \cup {NoFrame}, NEW s \in Slots
  PROVE  Job(op, f, s) \in JobType /\ Job(op, f, s).op = op /\ Job(op, f, s).frame = f
  BY DEF Job, JobType

\* The ring has a first slot.
LEMMA ZeroSlot == 0 \in Slots
  BY HandoffAssumption DEF Slots

\* A submission keeps the types of the ring and of the VR queue.
LEMMA SubmitTyped ==
  ASSUME TypeOK, NEW outcome, NEW n \in {1, 2}, NEW a \in JobType, NEW b \in JobType,
         a.op # "signal", Submit(outcome, IF n = 1 THEN <<a>> ELSE <<a, b>>)
  PROVE  recording' \in BOOLEAN /\ current' \in Slots /\ vq' \in Seq(JobType)
<1>1. current' \in Slots
  BY HandoffAssumption, ModRange DEF Submit, TypeOK, Slots
<1>2. vq' \in Seq(JobType)
  <2>1. vq \in Seq(JobType) BY DEF TypeOK
  <2>2. Append(vq, a) \in Seq(JobType) /\ vq \o <<a>> = Append(vq, a) BY <2>1
  <2>3. vq \o <<a, b>> \in Seq(JobType) BY <2>1, SubmitPair
  <2>4. Head(<<a>>) = a /\ Head(<<a, b>>) = a OBVIOUS
  <2> QED BY <2>1, <2>2, <2>3, <2>4 DEF Submit
<1>3. recording' \in BOOLEAN BY DEF Submit
<1> QED BY <1>1, <1>2, <1>3

\* So does a layer's painting, which adds at most its own job to the queue.
LEMMA PaintTyped ==
  ASSUME TypeOK, NEW outcome, Paint(outcome)
  PROVE  /\ recording' \in BOOLEAN /\ current' \in Slots /\ vq' \in Seq(JobType)
         /\ slotFence' \in [Slots -> BOOLEAN]
         /\ vq' = vq \/ vq' = Append(vq, Job("ui", NoFrame, current))
<1> DEFINE a == Job("ui", NoFrame, current)
<1>1. vq \in Seq(JobType) /\ current \in Slots /\ recording \in BOOLEAN BY DEF TypeOK
<1>2. a \in JobType /\ a.op # "signal" BY <1>1, JobTyped
<1>3. slotFence' \in [Slots -> BOOLEAN] BY BoolExcept DEF Paint, subVars, TypeOK
<1>4. UNCHANGED <<vq, current, recording>> \/ Submit(outcome, <<a>>) BY Zenon DEF Paint, subVars
<1>5. CASE UNCHANGED <<vq, current, recording>> BY <1>1, <1>3, <1>5
<1>6. CASE Submit(outcome, <<a>>)
  <2>1. Submit(outcome, IF 1 = 1 THEN <<a>> ELSE <<a, a>>) BY <1>6
  <2>2. vq' = vq \/ vq' = Append(vq, a) BY <1>1, <1>2, <1>6 DEF Submit
  <2>3. vq' = vq \/ vq' = Append(vq, Job("ui", NoFrame, current)) BY <2>2
  <2> HIDE DEF a
  <2>4. recording' \in BOOLEAN /\ current' \in Slots /\ vq' \in Seq(JobType)
    BY <2>1, <1>2, SubmitTyped
  <2> QED BY <2>3, <2>4, <1>3
<1> QED BY <1>4, <1>5, <1>6

\* The state built by the constructors is well typed.
LEMMA TypeInit == Init => TypeInv
<1> SUFFICES ASSUME Init PROVE TypeInv OBVIOUS
<1>1. [i \in 1 .. NumFrames |-> i] \in Seq(1 .. NumFrames) BY HandoffAssumption
<1>2. pending \in BOOLEAN /\ attached \in BOOLEAN /\ signal \in BOOLEAN /\ recording \in BOOLEAN
  BY DEF Init
<1>3. /\ done \in [Frames -> BOOLEAN] /\ renderReady \in [Frames -> BOOLEAN]
      /\ handoff \in [Frames -> BOOLEAN] /\ slotFence \in [Slots -> BOOLEAN]
  BY DEF Init
<1> QED
  BY <1>1, <1>2, <1>3, HandoffAssumption
  DEF Init, TypeInv, TypeOK, CurIsFrame, Frames, NoFrame, Slots

\* Every step of the renderer, the XR thread and the GPU keeps the types.
LEMMA TypeNext == TypeInv /\ [Next]_vars => TypeInv'
<1> SUFFICES ASSUME TypeInv, [Next]_vars PROVE TypeInv' OBVIOUS
<1> USE DEF TypeInv, TypeOK, CurIsFrame, mainVars, xrVars, pubVars, lockVars, gpuVars, subVars
<1>1. CASE BeginSlice BY <1>1 DEF BeginSlice
<1>2. CASE EndSlice BY <1>2 DEF EndSlice
<1>3. CASE TakeFreeFrame BY <1>3 DEF TakeFreeFrame
<1>4. CASE WaitPresentDone BY <1>4, BoolExcept DEF WaitPresentDone
<1>5. CASE DrawFrame BY <1>5, JobTyped, ZeroSlot DEF DrawFrame
<1>6. CASE ClaimPublishSlot BY <1>6 DEF ClaimPublishSlot
<1>7. CASE SubmitHandoff BY <1>7, JobTyped, ZeroSlot DEF SubmitHandoff
<1>8. CASE PublishFrame
  <2>1. claimed' \in BOOLEAN BY <1>8 DEF PublishFrame
  <2> QED BY <2>1, <1>8 DEF PublishFrame
<1>9. CASE RecycleDetached
  <2>1. pending' \in BOOLEAN BY <1>9 DEF RecycleDetached
  <2> QED BY <2>1, <1>9, JobTyped, ZeroSlot DEF RecycleDetached
<1>10. CASE BindToRenderer BY <1>10 DEF BindToRenderer
<1>11. CASE TakeSaveSignal
  <2>1. signal' \in BOOLEAN BY <1>11 DEF TakeSaveSignal
  <2> QED BY <2>1, <1>11 DEF TakeSaveSignal
<1>12. CASE SaveLockBusy BY <1>12 DEF SaveLockBusy
<1>13. CASE SaveLockQueue BY <1>13 DEF SaveLockQueue
<1>14. CASE SaveDeviceIdle BY <1>14 DEF SaveDeviceIdle
<1>15. CASE SaveDone BY <1>15 DEF SaveDone
<1>16. CASE BeginXrFrame BY <1>16, HandoffAssumption DEF BeginXrFrame, Layers
<1>30. ASSUME NEW layer \in Layers, NEW outcome, InitLayer(layer, outcome) PROVE TypeInv'
  <2>1. Paint(outcome) BY <1>30 DEF InitLayer
  <2>2. /\ recording' \in BOOLEAN /\ current' \in Slots /\ vq' \in Seq(JobType)
        /\ slotFence' \in [Slots -> BOOLEAN]
    BY <2>1, PaintTyped
  <2>3. lazy' \subseteq Layers /\ xpc' \in {"imgui", "drain", "lock"} BY <1>30 DEF InitLayer
  <2> QED BY <2>2, <2>3, <1>30 DEF InitLayer, Layers
<1>31. CASE DrainQueue BY <1>31 DEF DrainQueue
<1>32. ASSUME NEW shouldRender \in BOOLEAN, NEW owns \in BOOLEAN, TryLockBusy(shouldRender, owns)
       PROVE  TypeInv'
  BY <1>32 DEF TryLockBusy
<1>17. CASE AcquireLatestFrame
  <2>1. claimed' \in BOOLEAN BY <1>17 DEF AcquireLatestFrame
  <2> QED BY <2>1, <1>17 DEF AcquireLatestFrame
<1>18. CASE BeginDropped BY <1>18 DEF BeginDropped
<1>19. ASSUME NEW ok \in BOOLEAN, BeginBlit(ok) PROVE TypeInv'
  BY <1>19, BoolExcept DEF BeginBlit
<1>20. CASE BlitFailed BY <1>20 DEF BlitFailed
<1>21. ASSUME NEW outcome, SubmitBlit(outcome) PROVE TypeInv'
  <2> DEFINE a == Job("blit", src, current)
             b == Job("signal", src, 0)
  <2>1. a \in JobType /\ b \in JobType /\ a.op # "signal" BY JobTyped, ZeroSlot
  <2>2. Submit(outcome, IF 2 = 1 THEN <<a>> ELSE <<a, b>>) BY <1>21 DEF SubmitBlit
  <2> HIDE DEF a, b
  <2>3. recording' \in BOOLEAN /\ current' \in Slots /\ vq' \in Seq(JobType)
    BY <2>1, <2>2, SubmitTyped
  <2> QED BY <2>3, <1>21 DEF SubmitBlit
<1>22. ASSUME NEW outcome, UiSubmit(outcome) PROVE TypeInv'
  <2>1. Paint(outcome) BY <1>22 DEF UiSubmit
  <2>2. /\ recording' \in BOOLEAN /\ current' \in Slots /\ vq' \in Seq(JobType)
        /\ slotFence' \in [Slots -> BOOLEAN]
    BY <2>1, PaintTyped
  <2>3. ui' \in 0 .. UiPerFrame BY <1>22, HandoffAssumption DEF UiSubmit
  <2> QED BY <2>2, <2>3, <1>22 DEF UiSubmit
<1>23. CASE ConsumeRenderer
  <2>1. pending' \in BOOLEAN BY <1>23 DEF ConsumeRenderer
  <2> QED BY <2>1, <1>23 DEF ConsumeRenderer
<1>24. CASE UiSkip BY <1>24, HandoffAssumption DEF UiSkip
<1>25. CASE SendSaveSignal BY <1>25 DEF SendSaveSignal
<1>26. CASE EndXrFrame BY <1>26 DEF EndXrFrame
<1>27. CASE GraphicsQueueStep
  <2>1. /\ done' \in [Frames -> BOOLEAN] /\ renderReady' \in [Frames -> BOOLEAN]
        /\ handoff' \in [Frames -> BOOLEAN]
    BY <1>27, BoolExcept DEF GraphicsQueueStep
  <2>2. gq' \in Seq(JobType) BY <1>27 DEF GraphicsQueueStep
  <2> QED BY <2>1, <2>2, <1>27 DEF GraphicsQueueStep
<1>28. CASE VrQueueStep
  <2>1. /\ done' \in [Frames -> BOOLEAN] /\ handoff' \in [Frames -> BOOLEAN]
        /\ slotFence' \in [Slots -> BOOLEAN]
    BY <1>28, BoolExcept DEF VrQueueStep
  <2>2. vq' \in Seq(JobType) BY <1>28 DEF VrQueueStep
  <2> QED BY <2>1, <2>2, <1>28 DEF VrQueueStep
<1>29. CASE UNCHANGED vars BY <1>29 DEF vars
<1> QED
  BY <1>1, <1>2, <1>3, <1>4, <1>5, <1>6, <1>7, <1>8, <1>9, <1>10, <1>11, <1>12, <1>13, <1>14,
     <1>15, <1>16, <1>17, <1>18, <1>19, <1>20, <1>21, <1>22, <1>23, <1>24, <1>25, <1>26, <1>27,
     <1>28, <1>29, <1>30, <1>31, <1>32 DEF Next, Main, Xr, Gpu
\* Every variable keeps its type: the ring index of VrFrameSubmitter stays in
\* the ring, and a drawing renderer always has a frame.
THEOREM TypeCorrect == Spec => []TypeOK
<1>1. TypeInv /\ [Next]_vars => TypeInv' BY TypeNext
<1>2. Init => TypeInv BY TypeInit
<1>3. TypeInv => TypeOK BY DEF TypeInv
<1> QED BY <1>1, <1>2, <1>3, PTL DEF Spec

-----------------------------------------------------------------------------
(* A frame is in one place at a time. *)

InOnePlace(f) ==
    /\ done[f] => ~RendererOwns(f) /\ ~Published(f) /\ ~XrHolds(f) /\ ~HasJob(vq, f) /\ ~HasNoop(gq, f)
    /\ RendererOwns(f) => ~Published(f) /\ ~XrHolds(f) /\ ~HasJob(vq, f) /\ ~HasNoop(gq, f)
    /\ Published(f) => ~XrHolds(f) /\ ~HasJob(vq, f) /\ ~HasNoop(gq, f)
    /\ XrHolds(f) => ~HasJob(vq, f) /\ ~HasNoop(gq, f)
    /\ HasJob(vq, f) => ~HasNoop(gq, f)
    /\ OneNoop(gq, f)
    /\ SignalLast(vq, f)

FrameInOnePlace == \A f \in Frames : InOnePlace(f)

\* At first every fence is signalled and nothing else holds a frame.
LEMMA PlaceInit == Init => FrameInOnePlace
  BY DEF Init, FrameInOnePlace, InOnePlace, RendererOwns, Published, XrHolds, HasJob, HasNoop,
         OneNoop, SignalLast, Frames, NoFrame

\* A step that leaves the fence, the queues and the three owners of a frame
\* alone, or only takes a place away, keeps it in one place.
LEMMA PlaceFrame ==
  ASSUME NEW f, InOnePlace(f), UNCHANGED <<done, gq, vq>>,
         RendererOwns(f)' => RendererOwns(f), Published(f)' => Published(f), XrHolds(f)' => XrHolds(f)
  PROVE  InOnePlace(f)'
  BY DEF InOnePlace, HasJob, HasNoop, OneNoop, SignalLast

\* Every step moves a frame from one place to another, or loses it.
LEMMA PlaceNext == TypeInv /\ FrameInOnePlace /\ [Next]_vars => FrameInOnePlace'
<1> SUFFICES ASSUME TypeInv, [Next]_vars, NEW f \in Frames, InOnePlace(f) PROVE InOnePlace(f)'
  BY DEF FrameInOnePlace, Frames
<1> USE DEF mainVars, xrVars, pubVars, lockVars, gpuVars, subVars, RendererOwns, Published, XrHolds
<1>q. gq \in Seq(JobType) /\ vq \in Seq(JobType) /\ done \in [Frames -> BOOLEAN] BY DEF TypeInv, TypeOK
<1>t. /\ cur \in Frames \cup {NoFrame} /\ src \in Frames \cup {NoFrame} /\ current \in Slots
      /\ 0 \in Slots /\ NoFrame \in Frames \cup {NoFrame}
  BY ZeroSlot DEF TypeInv, TypeOK
<1>n. f # NoFrame BY DEF Frames, NoFrame
<1>1. CASE BeginSlice BY <1>1, PlaceFrame DEF BeginSlice
<1>2. CASE EndSlice BY <1>2, PlaceFrame DEF EndSlice
<1>3. CASE TakeFreeFrame BY <1>3, PlaceFrame DEF TakeFreeFrame
<1>4. CASE WaitPresentDone
  <2>1. done[cur] /\ (f = cur => ~done'[f]) /\ (f # cur => done'[f] = done[f])
    BY <1>4, <1>q DEF WaitPresentDone
  <2> QED BY <2>1, <1>4 DEF WaitPresentDone, InOnePlace
<1>5. CASE DrawFrame
  <2> DEFINE a == Job("draw", cur, 0)
  <2>1. a \in JobType /\ a.op = "draw" BY JobTyped, <1>t
  <2>2. gq' = Append(gq, a) BY <1>5 DEF DrawFrame
  <2> HIDE DEF a
  <2>3. (HasNoop(gq', f) => HasNoop(gq, f)) /\ (OneNoop(gq, f) => OneNoop(gq', f))
    BY <2>1, <2>2, <1>q, SubmitJob
  <2> QED BY <2>3, <1>5 DEF DrawFrame, InOnePlace
<1>6. CASE ClaimPublishSlot BY <1>6, PlaceFrame DEF ClaimPublishSlot
<1>7. CASE SubmitHandoff
  <2> DEFINE a == Job("handoff", cur, 0)
  <2>1. a \in JobType /\ a.op = "handoff" BY JobTyped, <1>t
  <2>2. gq' = Append(gq, a) BY <1>7 DEF SubmitHandoff
  <2> HIDE DEF a
  <2>3. (HasNoop(gq', f) => HasNoop(gq, f)) /\ (OneNoop(gq, f) => OneNoop(gq', f))
    BY <2>1, <2>2, <1>q, SubmitJob
  <2> QED BY <2>3, <1>7 DEF SubmitHandoff, InOnePlace
<1>8. CASE PublishFrame BY <1>8, <1>n DEF PublishFrame, InOnePlace
<1>9. CASE RecycleDetached
  <2> DEFINE a == Job("noop", cur, 0)
  <2>1. a \in JobType /\ a.op = "noop" /\ a.frame = cur BY JobTyped, <1>t
  <2>2. gq' = Append(gq, a) BY <1>9 DEF RecycleDetached
  <2> HIDE DEF a
  <2>3. (HasNoop(gq', f) => HasNoop(gq, f) \/ f = cur)
        /\ (OneNoop(gq, f) /\ (f = cur => ~HasNoop(gq, f)) => OneNoop(gq', f))
    BY <2>1, <2>2, <1>q, SubmitJob
  <2> QED BY <2>3, <1>9, <1>n DEF RecycleDetached, InOnePlace
<1>10. CASE BindToRenderer BY <1>10, PlaceFrame DEF BindToRenderer
<1>11. CASE TakeSaveSignal BY <1>11, PlaceFrame DEF TakeSaveSignal
<1>12. CASE SaveLockBusy BY <1>12, PlaceFrame DEF SaveLockBusy
<1>13. CASE SaveLockQueue BY <1>13, PlaceFrame DEF SaveLockQueue
<1>14. CASE SaveDeviceIdle BY <1>14, PlaceFrame DEF SaveDeviceIdle
<1>15. CASE SaveDone BY <1>15, PlaceFrame DEF SaveDone
<1>16. CASE BeginXrFrame BY <1>16, PlaceFrame DEF BeginXrFrame
<1>p. ASSUME NEW outcome, Paint(outcome),
             UNCHANGED <<done, gq, mpc, cur, latest, claimed>>, XrHolds(f)' => XrHolds(f)
      PROVE  InOnePlace(f)'
  <2> DEFINE a == Job("ui", NoFrame, current)
  <2>1. a \in JobType /\ a.frame = NoFrame BY JobTyped, <1>t
  <2>2. vq' = vq \/ vq' = Append(vq, a) BY <1>p, PaintTyped DEF TypeInv
  <2> HIDE DEF a
  <2>3. /\ HasJob(vq', f) => HasJob(vq, f)
        /\ SignalLast(vq, f) => SignalLast(vq', f)
    <3>1. CASE vq' = vq BY <3>1
    <3>2. CASE vq' = Append(vq, a) BY <3>2, <2>1, <1>q, <1>n, SubmitJob
    <3> QED BY <3>1, <3>2, <2>2
  <2> QED BY <2>3, <1>p DEF InOnePlace
<1>30. ASSUME NEW layer \in Layers, NEW outcome, InitLayer(layer, outcome) PROVE InOnePlace(f)'
  <2>1. xpc' \notin {"begin", "blit"} BY <1>30 DEF InitLayer
  <2> QED BY <2>1, <1>30, <1>p DEF InitLayer
<1>31. CASE DrainQueue BY <1>31, PlaceFrame DEF DrainQueue
<1>32. ASSUME NEW shouldRender \in BOOLEAN, NEW owns \in BOOLEAN, TryLockBusy(shouldRender, owns)
       PROVE  InOnePlace(f)'
  BY <1>32, PlaceFrame DEF TryLockBusy
<1>17. CASE AcquireLatestFrame BY <1>17 DEF AcquireLatestFrame, InOnePlace
<1>18. CASE BeginDropped BY <1>18, PlaceFrame DEF BeginDropped
<1>19. ASSUME NEW ok \in BOOLEAN, BeginBlit(ok) PROVE InOnePlace(f)'
  BY <1>19, PlaceFrame DEF BeginBlit
<1>20. CASE BlitFailed BY <1>20, PlaceFrame DEF BlitFailed
<1>21. ASSUME NEW outcome, SubmitBlit(outcome) PROVE InOnePlace(f)'
  <2> DEFINE a == Job("blit", src, current)
             b == Job("signal", src, 0)
  <2>1. a \in JobType /\ b \in JobType /\ a.op = "blit" /\ a.frame = src /\ b.frame = src
    BY JobTyped, <1>t
  <2>2. vq' = vq \/ vq' = Append(vq, a) \/ vq' = vq \o <<a, b>>
    BY <1>21 DEF SubmitBlit, Submit
  <2> HIDE DEF a, b
  <2>3. /\ HasJob(vq', f) => HasJob(vq, f) \/ f = src
        /\ SignalLast(vq, f) /\ (f = src => ~HasJob(vq, f)) => SignalLast(vq', f)
    <3>1. CASE vq' = vq BY <3>1
    <3>2. CASE vq' = Append(vq, a) BY <3>2, <2>1, <1>q, SubmitJob
    <3>3. CASE vq' = vq \o <<a, b>> BY <3>3, <2>1, <1>q, SubmitPair
    <3> QED BY <3>1, <3>2, <3>3, <2>2
  <2> QED BY <2>3, <1>21 DEF SubmitBlit, InOnePlace
<1>22. ASSUME NEW outcome, UiSubmit(outcome) PROVE InOnePlace(f)'
  BY <1>22, <1>p DEF UiSubmit
<1>23. CASE ConsumeRenderer BY <1>23, PlaceFrame DEF ConsumeRenderer
<1>24. CASE UiSkip BY <1>24, PlaceFrame DEF UiSkip
<1>25. CASE SendSaveSignal BY <1>25, PlaceFrame DEF SendSaveSignal
<1>26. CASE EndXrFrame BY <1>26, PlaceFrame DEF EndXrFrame
<1>27. CASE GraphicsQueueStep
  <2>1. gq # <<>> /\ gq' = Tail(gq) BY <1>27 DEF GraphicsQueueStep
  <2>2. /\ HasNoop(gq', f) => HasNoop(gq, f)
        /\ OneNoop(gq, f) => OneNoop(gq', f)
        /\ OneNoop(gq, f) /\ Head(gq).op = "noop" /\ Head(gq).frame = f
           => HasNoop(gq, f) /\ ~HasNoop(gq', f)
    BY <2>1, <1>q, RetireJob
  <2>3. done'[f] => done[f] \/ (Head(gq).op = "noop" /\ Head(gq).frame = f)
    BY <1>27, <1>q DEF GraphicsQueueStep
  <2> QED BY <2>2, <2>3, <1>27 DEF GraphicsQueueStep, InOnePlace
<1>28. CASE VrQueueStep
  <2>1. vq # <<>> /\ vq' = Tail(vq) BY <1>28 DEF VrQueueStep
  <2>2. /\ HasJob(vq', f) => HasJob(vq, f)
        /\ SignalLast(vq, f) => SignalLast(vq', f)
        /\ SignalLast(vq, f) /\ Head(vq).op = "signal" /\ Head(vq).frame = f
           => HasJob(vq, f) /\ ~HasJob(vq', f)
    BY <2>1, <1>q, RetireJob
  <2>3. done'[f] => done[f] \/ (Head(vq).op = "signal" /\ Head(vq).frame = f)
    BY <1>28, <1>q DEF VrQueueStep
  <2> QED BY <2>2, <2>3, <1>28 DEF VrQueueStep, InOnePlace
<1>29. CASE UNCHANGED vars BY <1>29, PlaceFrame DEF vars
<1> QED
  BY <1>1, <1>2, <1>3, <1>4, <1>5, <1>6, <1>7, <1>8, <1>9, <1>10, <1>11, <1>12, <1>13, <1>14,
     <1>15, <1>16, <1>17, <1>18, <1>19, <1>20, <1>21, <1>22, <1>23, <1>24, <1>25, <1>26, <1>27,
     <1>28, <1>29, <1>30, <1>31, <1>32 DEF Next, Main, Xr, Gpu

\* While the renderer owns a frame (from GetRenderFrame to the publish callback)
\* the XR thread does not hold it, cannot claim it, and the VR queue has no job
\* that reads its image or signals its fence.
THEOREM ExclusiveFrame == Spec => []RendererHasExclusiveFrame
<1> DEFINE IInv == TypeInv /\ FrameInOnePlace
<1>1. Init => IInv BY TypeInit, PlaceInit
<1>2. IInv /\ [Next]_vars => IInv' BY TypeNext, PlaceNext
<1>3. IInv => RendererHasExclusiveFrame
  BY DEF FrameInOnePlace, InOnePlace, RendererHasExclusiveFrame, HasJob
<1> QED BY <1>1, <1>2, <1>3, PTL DEF Spec

-----------------------------------------------------------------------------
(* A save is quiescent. *)

BusyOwned ==
    /\ mpc \in {"lockqueue", "waitidle", "saving"} => busy = "main"
    /\ xpc \in {"claim", "begin", "blit", "consume"} => busy = "xr"

OnlyUi(q) == \A i \in DOMAIN q : q[i].op = "ui"

SaveInv == BusyOwned /\ (mpc = "saving" => OnlyUi(vq))

\* UI submissions and retirements keep a queue free of game jobs.
LEMMA OnlyUiQueue ==
  ASSUME NEW q \in Seq(JobType), OnlyUi(q), NEW e \in JobType
  PROVE  /\ e.op = "ui" => OnlyUi(Append(q, e))
         /\ q # <<>> => OnlyUi(Tail(q))
  BY TailElements, AppendElements DEF OnlyUi

\* VrCoreBusyMutex separates a save from the hand-off in every step.
LEMMA SaveNext == TypeInv /\ SaveInv /\ [Next]_vars => SaveInv'
<1> SUFFICES ASSUME TypeInv, SaveInv, [Next]_vars PROVE SaveInv' OBVIOUS
<1>1. BusyOwned'
  BY DEF SaveInv, BusyOwned, TypeInv, TypeOK, Next, Main, Xr, Gpu, vars, mainVars, xrVars, pubVars,
         lockVars, gpuVars, subVars, BeginSlice, EndSlice, TakeFreeFrame, WaitPresentDone, DrawFrame,
         ClaimPublishSlot, SubmitHandoff, PublishFrame, RecycleDetached, BindToRenderer,
         TakeSaveSignal, SaveLockBusy, SaveLockQueue, SaveDeviceIdle, SaveDone, BeginXrFrame, InitLayer,
         DrainQueue, TryLockBusy, AcquireLatestFrame, BeginDropped, BeginBlit, BlitFailed, SubmitBlit, UiSubmit,
         ConsumeRenderer, UiSkip, SendSaveSignal, EndXrFrame, GraphicsQueueStep, VrQueueStep
<1>2. ASSUME mpc' = "saving" PROVE OnlyUi(vq')
  <2> USE DEF mainVars, xrVars, pubVars, lockVars, gpuVars, subVars
  <2>q. vq \in Seq(JobType) /\ current \in Slots BY DEF TypeInv, TypeOK
  <2>1. CASE SaveDeviceIdle BY <2>1 DEF SaveDeviceIdle, OnlyUi
  <2>2. CASE mpc = "saving" /\ ~SaveDeviceIdle
    <3>1. OnlyUi(vq) /\ busy = "main" /\ xpc # "blit" BY <2>2 DEF SaveInv, BusyOwned
    <3>2. ASSUME NEW outcome, Paint(outcome) PROVE OnlyUi(vq')
      <4> DEFINE a == Job("ui", NoFrame, current)
      <4>1. a \in JobType /\ a.op = "ui" BY JobTyped, <2>q
      <4>2. vq' = vq \/ vq' = Append(vq, a) BY <3>2, PaintTyped DEF TypeInv
      <4> HIDE DEF a
      <4> QED BY <4>1, <4>2, <3>1, <2>q, OnlyUiQueue
    <3>3. CASE VrQueueStep
      <4>1. vq # <<>> /\ vq' = Tail(vq) BY <3>3 DEF VrQueueStep
      <4>2. vq[1] \in JobType BY <4>1, <2>q
      <4> QED BY <4>1, <4>2, <3>1, <2>q, OnlyUiQueue
    <3>4. CASE UNCHANGED vq BY <3>4, <3>1
    <3>5. \/ UNCHANGED vq \/ VrQueueStep \/ \E outcome : Paint(outcome)
      BY <3>1, <2>2
      DEF Next, Main, Xr, Gpu, vars, BeginSlice, EndSlice, TakeFreeFrame, WaitPresentDone, DrawFrame,
          ClaimPublishSlot, SubmitHandoff, PublishFrame, RecycleDetached, BindToRenderer,
          TakeSaveSignal, SaveLockBusy, SaveLockQueue, SaveDone, BeginXrFrame, InitLayer,
          DrainQueue, TryLockBusy, AcquireLatestFrame, BeginDropped, BeginBlit, BlitFailed, SubmitBlit, UiSubmit,
          ConsumeRenderer, UiSkip, SendSaveSignal, EndXrFrame, GraphicsQueueStep
    <3> QED BY <3>2, <3>3, <3>4, <3>5
  <2>3. SaveDeviceIdle \/ mpc = "saving"
    BY <1>2
    DEF Next, Main, Xr, Gpu, vars, BeginSlice, EndSlice, TakeFreeFrame, WaitPresentDone, DrawFrame,
        ClaimPublishSlot, SubmitHandoff, PublishFrame, RecycleDetached, BindToRenderer,
        TakeSaveSignal, SaveLockBusy, SaveLockQueue, SaveDone, BeginXrFrame, InitLayer,
        DrainQueue, TryLockBusy, AcquireLatestFrame, BeginDropped, BeginBlit, BlitFailed, SubmitBlit, UiSubmit,
        ConsumeRenderer, UiSkip, SendSaveSignal, EndXrFrame, GraphicsQueueStep, VrQueueStep
  <2> QED BY <2>1, <2>2, <2>3
<1> QED BY <1>1, <1>2 DEF SaveInv

\* While RunLoop writes a save state no blit of a renderer image is queued or
\* being recorded: VrCoreBusyMutex keeps the XR thread out of the hand-off and
\* vkDeviceWaitIdle has drained the blits submitted before.
THEOREM QuiescentSave == Spec => []SaveIsQuiescent
<1> DEFINE IInv == TypeInv /\ SaveInv
<1>1. Init => SaveInv BY DEF Init, SaveInv, BusyOwned
<1>2. Init => IInv BY <1>1, TypeInit
<1>3. IInv /\ [Next]_vars => IInv' BY TypeNext, SaveNext
<1>4. IInv => SaveIsQuiescent BY DEF SaveInv, BusyOwned, OnlyUi, SaveIsQuiescent
<1> QED BY <1>2, <1>3, <1>4, PTL DEF Spec

-----------------------------------------------------------------------------
(* The hand-off implements the publish slot. *)

Filling == mpc \in {"handoff", "callback"}

SlotInv ==
    /\ Filling => pending /\ claimed
    /\ ~claimed => pending
    /\ xpc \in {"begin", "blit", "consume"} => pending /\ claimed /\ ~Filling

\* Every step keeps the three flags of the publish slot consistent, and is a
\* step of the abstract slot or leaves it alone.
LEMMA SlotStep ==
  ASSUME TypeInv, SlotInv, [Next]_vars
  PROVE  SlotInv' /\ [Slot!Next]_SlotView
<1> USE DEF SlotInv, Filling, mainVars, xrVars, pubVars, lockVars, gpuVars, subVars
<1>b. pending \in BOOLEAN /\ claimed \in BOOLEAN BY DEF TypeInv, TypeOK
<1>1. CASE UNCHANGED pubVars /\ (Filling <=> Filling')
           /\ (xpc' \in {"begin", "blit", "consume"} => xpc \in {"begin", "blit", "consume"})
  <2>1. SlotInv' BY <1>1
  <2>2. SlotView' = SlotView BY <1>1 DEF SlotView
  <2> QED BY <2>1, <2>2
<1>2. CASE ClaimPublishSlot
  <2>1. SlotInv' BY <1>2 DEF ClaimPublishSlot
  <2>2. SlotView = "empty" /\ SlotView' = "filling" BY <1>2 DEF ClaimPublishSlot, SlotView
  <2> QED BY <2>1, <2>2 DEF Slot!Next, Slot!Claim, Slot!Move
<1>3. CASE PublishFrame
  <2>1. SlotInv' BY <1>3 DEF PublishFrame
  <2>2. SlotView = "filling" /\ SlotView' = "full" BY <1>3 DEF PublishFrame, SlotView
  <2> QED BY <2>1, <2>2 DEF Slot!Next, Slot!Publish, Slot!Move
<1>4. CASE RecycleDetached
  <2>1. SlotInv' BY <1>4 DEF RecycleDetached
  <2>2. SlotView = "filling" /\ SlotView' = "empty" BY <1>4 DEF RecycleDetached, SlotView
  <2> QED BY <2>1, <2>2 DEF Slot!Next, Slot!Recycle, Slot!Move
<1>5. CASE AcquireLatestFrame
  <2>1. CASE latest = NoFrame \/ claimed
    <3>1. UNCHANGED pubVars /\ UNCHANGED mpc /\ xpc' = "ui" BY <2>1, <1>5 DEF AcquireLatestFrame
    <3> QED BY <3>1, <1>1
  <2>2. CASE ~(latest = NoFrame \/ claimed)
    <3>1. SlotInv' BY <2>2, <1>5 DEF AcquireLatestFrame
    <3>2. SlotView = "full" /\ SlotView' = "taken" BY <2>2, <1>5 DEF AcquireLatestFrame, SlotView
    <3> QED BY <3>1, <3>2 DEF Slot!Next, Slot!Take, Slot!Move
  <2> QED BY <2>1, <2>2
<1>6. CASE ConsumeRenderer
  <2>1. SlotInv' BY <1>6 DEF ConsumeRenderer
  <2>2. SlotView = "taken" /\ SlotView' = "empty" BY <1>6 DEF ConsumeRenderer, SlotView
  <2> QED BY <2>1, <2>2 DEF Slot!Next, Slot!Release, Slot!Move
<1>7. \/ ClaimPublishSlot \/ PublishFrame \/ RecycleDetached \/ AcquireLatestFrame \/ ConsumeRenderer
      \/ UNCHANGED pubVars /\ (Filling <=> Filling')
         /\ (xpc' \in {"begin", "blit", "consume"} => xpc \in {"begin", "blit", "consume"})
  BY DEF Next, Main, Xr, Gpu, vars, BeginSlice, EndSlice, TakeFreeFrame, WaitPresentDone, DrawFrame,
         SubmitHandoff, BindToRenderer, TakeSaveSignal, SaveLockBusy, SaveLockQueue, SaveDeviceIdle,
         SaveDone, BeginXrFrame, InitLayer, DrainQueue, TryLockBusy, BeginDropped, BeginBlit,
         BlitFailed, SubmitBlit, UiSubmit, UiSkip,
         SendSaveSignal, EndXrFrame, GraphicsQueueStep, VrQueueStep
<1> QED BY <1>1, <1>2, <1>3, <1>4, <1>5, <1>6, <1>7

\* publish_pending, the latest frame and its claimed serial implement the
\* abstract publish slot: its initial state maps to the empty slot and every
\* step to a step of the slot or to a stutter.
THEOREM PublishSlotRefinement == Spec => ImplementsPublishSlot
<1> DEFINE IInv == TypeInv /\ SlotInv
<1>1. Init => SlotInv /\ SlotView = "empty" BY DEF Init, SlotInv, Filling, SlotView
<1>2. Init => IInv BY <1>1, TypeInit
<1>3. IInv /\ [Next]_vars => IInv' BY TypeNext, SlotStep
<1>4. IInv /\ [Next]_vars => [Slot!Next]_SlotView BY SlotStep
<1> QED BY <1>1, <1>2, <1>3, <1>4, PTL DEF Spec, ImplementsPublishSlot, Slot!Spec
=============================================================================
