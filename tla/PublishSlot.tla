------------------------------ MODULE PublishSlot ------------------------------
(***************************************************************************)
(* What the publish slot between PresentWindow and EmuWindow_VR_Win        *)
(* promises to its two users: one frame at a time goes round from the      *)
(* renderer, which waits for the slot, to the XR thread, which takes each  *)
(* published frame once and then gives the slot back.                      *)
(***************************************************************************)
VARIABLE slot   \* publish_pending together with who holds the published frame

SlotStates == {"empty", "filling", "full", "taken"}

Move(from, to) == slot = from /\ slot' = to

\* CopyToSwapchain waits for ~publish_pending and sets it.
Claim == Move("empty", "filling")

\* frame_publish_callback: the frame is up for AcquireLatestFrame.
Publish == Move("filling", "full")

\* No consumer attached: the frame is recycled at once.
Recycle == Move("filling", "empty")

\* AcquireLatestFrame returns the frame, once.
Take == Move("full", "taken")

\* ConsumeRenderer -> NotifyFrameConsumed.
Release == Move("taken", "empty")

Next == Claim \/ Publish \/ Recycle \/ Take \/ Release

Spec == slot = "empty" /\ [][Next]_slot
=============================================================================
