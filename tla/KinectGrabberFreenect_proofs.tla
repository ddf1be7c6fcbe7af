-------------------- MODULE KinectGrabberFreenect_proofs --------------------
(***************************************************************************)
(* Safety of KinectGrabberFreenect for any number of frames.  The device,  *)
(* the GUI thread and the event thread share two buffers, m_Mutex, got and *)
(* the queue of events; the invariant says what each of them promises.     *)
(***************************************************************************)
EXTENDS KinectGrabberFreenect, TLAPS

USE MaxFramesAssumption

\* The depth frames whose callback has filled a buffer.
Finished == IF tpc \in {"lock", "fill"} THEN depthSeq - 1 ELSE depthSeq

\* m_Mutex brackets the copy in the GUI thread and the fill in the event thread.
LockInv ==
  /\ mutex = "gui" <=> gpc = "copy"
  /\ mutex = "thread" <=> tpc \in {"fill", "post"}

\* The event thread lives inside Start .. Stop, its callbacks inside its life.
LifeInv ==
  /\ thread = "alive" => phase \in {"started", "joining"}
  /\ tpc # "test" => thread = "alive"
  /\ tpc \in {"lock", "fill", "post"} => depthSeq > 0
  /\ phase \in {"new", "joining"} => gpc = "idle"
  /\ phase = "new" => ~got

\* With a frame to grab, the current buffer holds the newest finished one; it
\* stays whole while it is copied, and is newer than the picture.
BufferInv ==
  /\ got /\ gpc # "copy" /\ tpc # "fill" => buffers[index] = Finished /\ Finished > 0
  /\ gpc = "copy" => buffers[taken] = Finished /\ Finished > 0
  /\ image <= Finished

IInv == TypeOK /\ LockInv /\ LifeInv /\ BufferInv /\ NewFrameIsAnnounced

LEMMA InitInv == Init => IInv
<1>1. Init => FlagsOK
  BY Zenon DEF Init, FlagsOK
<1>2. QED
  BY <1>1 DEF Init, IInv, TypeOK, LockInv, LifeInv, BufferInv, NewFrameIsAnnounced, Finished

\* The flags stay Boolean.
LEMMA FlagsStep ==
  ASSUME FlagsOK, [Next]_vars
  PROVE  FlagsOK'
<1> USE DEF FlagsOK, depth, color
<1>1. CASE Start
  BY <1>1, Zenon DEF Start
<1>2. CASE Stop
  BY <1>2, Zenon DEF Stop
<1>3. CASE Joined
  BY <1>3, Zenon DEF Joined
<1>4. CASE Release
  BY <1>4, Zenon DEF Release
<1>5. CASE DeleteUnstopped
  BY <1>5, Zenon DEF DeleteUnstopped
<1>6. CASE Forget
  BY <1>6, Zenon DEF Forget
<1>7. CASE OnDepthFrame
  BY <1>7, Zenon DEF OnDepthFrame
<1>8. CASE GrabDepthFrame
  BY <1>8, Zenon DEF GrabDepthFrame
<1>9. CASE CopyDepth
  BY <1>9, Zenon DEF CopyDepth
<1>10. CASE SendDepth
  BY <1>10, Zenon DEF SendDepth
<1>11. CASE OnColorFrame
  BY <1>11, Zenon DEF OnColorFrame
<1>12. CASE TestDestroy
  BY <1>12, Zenon DEF TestDestroy
<1>13. CASE EventsProcessed
  BY <1>13, Zenon DEF EventsProcessed
<1>14. CASE DepthCallback
  BY <1>14, Zenon DEF DepthCallback
<1>15. CASE LockDepth
  BY <1>15, Zenon DEF LockDepth
<1>16. CASE FillDepth
  BY <1>16, Zenon DEF FillDepth
<1>17. CASE PostDepth
  BY <1>17, Zenon DEF PostDepth
<1>18. CASE VideoPacket
  BY <1>18, Zenon DEF VideoPacket
<1>19. CASE VideoCallback
  BY <1>19, Zenon DEF VideoCallback
<1>20. CASE UNCHANGED vars
  BY <1>20, Zenon DEF vars
<1>21. QED
  BY <1>1, <1>2, <1>3, <1>4, <1>5, <1>6, <1>7, <1>8, <1>9, <1>10,
     <1>11, <1>12, <1>13, <1>14, <1>15, <1>16, <1>17, <1>18, <1>19, <1>20
  DEF Next, StopContinues, HandlerContinues, FrameEvent, ThreadStep, DeviceStep

\* The invariant is inductive.
LEMMA InvStep ==
  ASSUME IInv, [Next]_vars
  PROVE  IInv'
<1> FlagsOK'
  BY FlagsStep DEF IInv, TypeOK
<1> USE DEF IInv, TypeOK, LockInv, LifeInv, BufferInv, NewFrameIsAnnounced, Finished,
            HandlersRun, Grabbing, depth, color
<1>1. CASE Start
  BY <1>1 DEF Start
<1>2. CASE Stop
  BY <1>2 DEF Stop
<1>3. CASE Joined
  BY <1>3 DEF Joined
<1>4. CASE Release
  BY <1>4 DEF Release
<1>5. CASE DeleteUnstopped
  BY <1>5 DEF DeleteUnstopped
<1>6. CASE Forget
  BY <1>6 DEF Forget
<1>7. CASE OnDepthFrame
  BY <1>7 DEF OnDepthFrame
<1>8. CASE GrabDepthFrame
  BY <1>8 DEF GrabDepthFrame
<1>9. CASE CopyDepth
  BY <1>9 DEF CopyDepth
<1>10. CASE SendDepth
  BY <1>10 DEF SendDepth
<1>11. CASE OnColorFrame
  BY <1>11 DEF OnColorFrame
<1>12. CASE TestDestroy
  BY <1>12 DEF TestDestroy
<1>13. CASE EventsProcessed
  BY <1>13 DEF EventsProcessed
<1>14. CASE DepthCallback
  BY <1>14 DEF DepthCallback
<1>15. CASE LockDepth
  BY <1>15 DEF LockDepth
<1>16. CASE FillDepth
  BY <1>16 DEF FillDepth
<1>17. CASE PostDepth
  BY <1>17 DEF PostDepth
<1>18. CASE VideoPacket
  BY <1>18 DEF VideoPacket
<1>19. CASE VideoCallback
  BY <1>19 DEF VideoCallback
<1>20. CASE UNCHANGED vars
  BY <1>20 DEF vars
<1> HIDE DEF IInv
<1>21. QED
  BY <1>1, <1>2, <1>3, <1>4, <1>5, <1>6, <1>7, <1>8, <1>9, <1>10,
     <1>11, <1>12, <1>13, <1>14, <1>15, <1>16, <1>17, <1>18, <1>19, <1>20
  DEF Next, StopContinues, HandlerContinues, FrameEvent, ThreadStep, DeviceStep

\* The inductive invariant holds in every reachable state.
THEOREM Invariance == Spec => []IInv
  BY InitInv, InvStep, PTL DEF Spec

\* Every variable keeps to its type, for any number of frames.
THEOREM TypeCorrect == Spec => []TypeOK
<1>1. IInv => TypeOK
  BY DEF IInv
<1>2. QED
  BY Invariance, <1>1, PTL

\* What GrabDepthFrame copies is the newest finished frame, whole.
THEOREM GrabbedNewest == Spec => []GrabbedBufferIsNewest
<1>1. IInv => GrabbedBufferIsNewest
  BY DEF IInv, TypeOK, LockInv, BufferInv, Finished, GrabbedBufferIsNewest
<1>2. QED
  BY Invariance, <1>1, PTL

\* A finished frame nobody has grabbed has an event that is still to be handled.
THEOREM FrameAnnounced == Spec => []NewFrameIsAnnounced
<1>1. IInv => NewFrameIsAnnounced
  BY DEF IInv
<1>2. QED
  BY Invariance, <1>1, PTL

\* No callback runs without a device and buffers.
THEOREM BuffersForCallbacks == Spec => []CallbacksHaveBuffers
<1>1. IInv => CallbacksHaveBuffers
  BY DEF IInv, LifeInv, CallbacksHaveBuffers
<1>2. QED
  BY Invariance, <1>1, PTL

\* Only CopyDepth changes the depth picture, and never to an older frame.
LEMMA PictureStep ==
  ASSUME IInv, [Next]_vars
  PROVE  [image' >= image]_vars
<1> USE DEF IInv, TypeOK
<1>1. CASE CopyDepth
  BY <1>1 DEF CopyDepth, BufferInv
<1>2. CASE ~CopyDepth
  BY <1>2 DEF Next, StopContinues, HandlerContinues, FrameEvent, ThreadStep, DeviceStep,
    vars, depth, color, Start, Stop, Joined, Release, DeleteUnstopped, Forget,
    OnDepthFrame, GrabDepthFrame, SendDepth, OnColorFrame, TestDestroy, EventsProcessed,
    DepthCallback, LockDepth, FillDepth, PostDepth, VideoPacket, VideoCallback
<1>3. QED
  BY <1>1, <1>2

\* The depth picture never goes back to an older frame.
THEOREM PictureForward == Spec => PictureMovesForward
  BY Invariance, PictureStep, PTL DEF Spec, PictureMovesForward
=============================================================================
