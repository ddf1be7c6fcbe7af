----------------------- MODULE KinectGrabberFreenect -----------------------
(***************************************************************************)
(* One life of a src/wxKinectHelper/KinectGrabberFreenect.cpp object: the  *)
(* event thread runs libfreenect's callbacks, which fill buffers and post  *)
(* frame events; the GUI thread handles the events (KinectTestMainFrame's  *)
(* OnDepthFrame and OnColorFrame) and starts and stops the grabber.        *)
(*                                                                         *)
(* m_Device, the DeviceHash entry and the buffers exist from Start to the  *)
(* end of Stop: `phase' stands for the three.                              *)
(***************************************************************************)
EXTENDS Naturals

CONSTANT MaxFrames            \* bound: frames of each kind the device delivers

ASSUME MaxFramesAssumption == MaxFrames \in Nat

VARIABLES
  phase,        \* where the GUI thread is in the life of the grabber
  gpc,          \* where it is in a frame event handler
  thread,       \* m_thread: "none" when NULL
  tpc,          \* where the event thread is in Entry or in a callback
  cancel,       \* wxThread::Delete was called
  mutex,        \* owner of m_Mutex
  buffers,      \* m_DepthBuffers: frame each one holds whole, 0 for none
  index,        \* m_DepthBufferIndex
  taken,        \* GrabDepthFrame's local bufferIndex
  got,          \* m_GotDepth
  video,        \* frame m_VideoBuffer holds whole, 0 for none
  depthEvents,  \* pending KINECT_DEPTH_FRAME_RECEIVED events
  colorEvents,  \* pending KINECT_COLOR_FRAME_RECEIVED events
  image,        \* frame m_CurrentImage shows, 0 while it is black
  colorImage,   \* frame m_ColorImage shows, 0 when it is black or torn
  depthSeq,     \* history: depth frames delivered
  videoSeq      \* history: video frames begun

vars == <<phase, gpc, thread, tpc, cancel, mutex, buffers, index, taken, got,
          video, depthEvents, colorEvents, image, colorImage, depthSeq, videoSeq>>

depth == <<buffers, index, taken, got, image>>
color == <<video, colorEvents, colorImage, videoSeq>>

Init ==
  /\ phase = "new" /\ gpc = "idle" /\ thread = "none" /\ tpc = "test"
  /\ cancel = FALSE /\ mutex = "none"
  /\ buffers = [i \in 0..1 |-> 0] /\ index = 0 /\ taken = 0 /\ got = FALSE
  /\ video = 0 /\ depthEvents = 0 /\ colorEvents = 0 /\ image = 0
  /\ colorImage = 0 /\ depthSeq = 0 /\ videoSeq = 0

-----------------------------------------------------------------------------
(* Start and Stop (GUI thread)                                             *)

\* No callback can run before the last line, Run().  When there is no context,
\* thread or device, Start fails and StartGrabbing deletes the grabber.
Start ==
  /\ phase = "new"
  /\ \/ thread' = "alive" /\ phase' = "started"
     \/ phase' = "deleted" /\ UNCHANGED thread
  /\ UNCHANGED <<gpc, tpc, cancel, mutex, depth, color, depthEvents, depthSeq>>

\* StopGrabbing calls Stop only on a grabber that IsStarted; Stop -> StopThread
\* -> Delete sets the cancel flag and waits for the thread.
Stop ==
  /\ phase = "started" /\ gpc = "idle" /\ thread = "alive"
  /\ cancel' = TRUE /\ phase' = "joining"
  /\ UNCHANGED <<gpc, thread, tpc, mutex, depth, color, depthEvents, depthSeq>>

\* The thread has ended: m_thread is deleted; wxYield then runs what is pending.
Joined ==
  /\ phase = "joining" /\ thread = "ended"
  /\ thread' = "none" /\ phase' = "yield"
  /\ UNCHANGED <<gpc, tpc, cancel, mutex, depth, color, depthEvents, depthSeq>>

\* The rest of Stop closes the device and frees the buffers; StopGrabbing then
\* deletes the grabber and sets m_Grabber to NULL.
Release ==
  /\ phase = "yield" /\ gpc = "idle"
  /\ phase' = "deleted"
  /\ UNCHANGED <<gpc, thread, tpc, cancel, mutex, depth, color, depthEvents,
                 depthSeq>>

\* The thread ended by itself: IsStarted is false and StopGrabbing deletes the
\* grabber without Stop.  The destructor deletes m_thread and yields ...
DeleteUnstopped ==
  /\ phase = "started" /\ gpc = "idle" /\ thread = "ended"
  /\ thread' = "none" /\ phase' = "deleting"
  /\ UNCHANGED <<gpc, tpc, cancel, mutex, depth, color, depthEvents, depthSeq>>

\* ... and device, hash entry and buffers stay behind.
Forget ==
  /\ phase = "deleting" /\ gpc = "idle"
  /\ phase' = "leaked"
  /\ UNCHANGED <<gpc, thread, tpc, cancel, mutex, depth, color, depthEvents,
                 depthSeq>>

-----------------------------------------------------------------------------
(* Frame event handlers (GUI thread), from the event loop or from wxYield. *)

HandlersRun == gpc = "idle" /\ phase \notin {"new", "joining"}

\* m_Grabber is set and m_Device is not NULL.
Grabbing == phase \in {"started", "yield", "deleting"}

\* OnDepthFrame, called with the next event: nothing without a grabber.
OnDepthFrame ==
  /\ HandlersRun /\ depthEvents > 0
  /\ depthEvents' = depthEvents - 1
  /\ gpc' = IF Grabbing THEN "lock" ELSE "idle"
  /\ UNCHANGED <<phase, thread, tpc, cancel, mutex, depth, color, depthSeq>>

GrabDepthFrame_NoLock ==
  /\ gpc = "lock"
  /\ IF got /\ thread = "alive"
     THEN /\ taken' = index /\ index' = 1 - index
          /\ gpc' = "copy" /\ UNCHANGED mutex
     ELSE gpc' = "send" /\ UNCHANGED <<mutex, taken, index>>
  /\ UNCHANGED <<phase, thread, tpc, cancel, buffers, got, image, color,
                 depthEvents, depthSeq>>

GrabDepthFrame_IndexGrows ==
  /\ gpc = "lock" /\ mutex = "none"
  /\ IF got /\ thread = "alive"
     THEN /\ taken' = index /\ index' = index + 1
          /\ mutex' = "gui" /\ gpc' = "copy"
     ELSE gpc' = "send" /\ UNCHANGED <<mutex, taken, index>>
  /\ UNCHANGED <<phase, thread, tpc, cancel, buffers, got, image, color,
                 depthEvents, depthSeq>>

GrabDepthFrame_NotUnlocked ==
  /\ gpc = "lock" /\ mutex = "none"
  /\ mutex' = "gui"
  /\ IF got /\ thread = "alive"
     THEN taken' = index /\ index' = 1 - index /\ gpc' = "copy"
     ELSE gpc' = "send" /\ UNCHANGED <<taken, index>>
  /\ UNCHANGED <<phase, thread, tpc, cancel, buffers, got, image, color,
                 depthEvents, depthSeq>>

\* Under m_Mutex: without a new frame or a live thread nothing is grabbed, else
\* the buffers are swapped.
GrabDepthFrame ==
  /\ gpc = "lock" /\ mutex = "none"
  /\ IF got /\ thread = "alive"
     THEN /\ taken' = index /\ index' = 1 - index
          /\ mutex' = "gui" /\ gpc' = "copy"
     ELSE gpc' = "send" /\ UNCHANGED <<mutex, taken, index>>
  /\ UNCHANGED <<phase, thread, tpc, cancel, buffers, got, image, color,
                 depthEvents, depthSeq>>

CopyDepth ==
  /\ gpc = "copy"
  /\ image' = buffers[taken] /\ got' = FALSE
  /\ mutex' = IF mutex = "gui" THEN "none" ELSE mutex
  /\ gpc' = "send"
  /\ UNCHANGED <<phase, thread, tpc, cancel, buffers, index, taken, color,
                 depthEvents, depthSeq>>

SendDepth_FlagClearedLate ==
  /\ gpc = "send"
  /\ got' = FALSE /\ gpc' = "idle"
  /\ UNCHANGED <<phase, thread, tpc, cancel, mutex, buffers, index, taken, image,
                 color, depthEvents, depthSeq>>

\* The rest of OnDepthFrame repaints and offers m_CurrentImage to the sender,
\* whatever GrabDepthFrame returned.
SendDepth ==
  /\ gpc = "send"
  /\ gpc' = "idle"
  /\ UNCHANGED <<phase, thread, tpc, cancel, mutex, depth, color, depthEvents,
                 depthSeq>>

\* OnColorFrame copies m_VideoBuffer without m_Mutex, whole or not.
OnColorFrame ==
  /\ HandlersRun /\ colorEvents > 0
  /\ colorEvents' = colorEvents - 1
  /\ colorImage' = IF Grabbing THEN video ELSE colorImage
  /\ UNCHANGED <<phase, gpc, thread, tpc, cancel, mutex, depth, video,
                 depthEvents, depthSeq, videoSeq>>

-----------------------------------------------------------------------------
(* The event thread: Entry, freenect_process_events and the callbacks.     *)

TestDestroy ==
  /\ thread = "alive" /\ tpc = "test"
  /\ IF cancel THEN thread' = "ended" /\ UNCHANGED tpc
               ELSE tpc' = "events" /\ UNCHANGED thread
  /\ UNCHANGED <<phase, gpc, cancel, mutex, depth, color, depthEvents, depthSeq>>

\* freenect_process_events returns; a negative status ends Entry.
EventsProcessed ==
  /\ thread = "alive" /\ tpc = "events"
  /\ \/ tpc' = "test" /\ UNCHANGED thread
     \/ tpc' = "test" /\ thread' = "ended"
  /\ UNCHANGED <<phase, gpc, cancel, mutex, depth, color, depthEvents, depthSeq>>

\* The device has a whole depth frame, in libfreenect's memory.
DepthCallback ==
  /\ tpc = "events" /\ depthSeq < MaxFrames
  /\ depthSeq' = depthSeq + 1 /\ tpc' = "lock"
  /\ UNCHANGED <<phase, gpc, thread, cancel, mutex, depth, color, depthEvents>>

LockDepth ==
  /\ tpc = "lock" /\ mutex = "none"
  /\ mutex' = "thread" /\ tpc' = "fill"
  /\ buffers' = [buffers EXCEPT ![index] = 0]
  /\ UNCHANGED <<phase, gpc, thread, cancel, index, taken, got, image, color,
                 depthEvents, depthSeq>>

\* Pixel by pixel into the buffer that is not grabbed next.
FillDepth ==
  /\ tpc = "fill"
  /\ buffers' = [buffers EXCEPT ![index] = depthSeq]
  /\ got' = TRUE /\ tpc' = "post"
  /\ UNCHANGED <<phase, gpc, thread, cancel, mutex, index, taken, image, color,
                 depthEvents, depthSeq>>

PostDepth_OnlyFirst ==
  /\ tpc = "post"
  /\ depthEvents' = IF depthSeq = 1 THEN depthEvents + 1 ELSE depthEvents
  /\ mutex' = "none" /\ tpc' = "events"
  /\ UNCHANGED <<phase, gpc, thread, cancel, depth, color, depthSeq>>

PostDepth ==
  /\ tpc = "post"
  /\ depthEvents' = depthEvents + 1
  /\ mutex' = "none" /\ tpc' = "events"
  /\ UNCHANGED <<phase, gpc, thread, cancel, depth, color, depthSeq>>

\* libfreenect writes the next video frame straight into m_VideoBuffer ...
VideoPacket ==
  /\ thread = "alive" /\ tpc = "events"
  /\ videoSeq < MaxFrames /\ (video # 0 \/ videoSeq = 0)
  /\ videoSeq' = videoSeq + 1 /\ video' = 0
  /\ UNCHANGED <<phase, gpc, thread, tpc, cancel, mutex, depth, depthEvents,
                 colorEvents, colorImage, depthSeq>>

\* ... and calls back when it is whole.
VideoCallback ==
  /\ thread = "alive" /\ tpc = "events" /\ video = 0 /\ videoSeq > 0
  /\ video' = videoSeq /\ colorEvents' = colorEvents + 1
  /\ UNCHANGED <<phase, gpc, thread, tpc, cancel, mutex, depth, depthEvents,
                 colorImage, depthSeq, videoSeq>>

-----------------------------------------------------------------------------
StopContinues    == Joined \/ Release \/ Forget
HandlerContinues == GrabDepthFrame \/ CopyDepth \/ SendDepth
FrameEvent       == OnDepthFrame \/ OnColorFrame
ThreadStep == \/ TestDestroy \/ EventsProcessed \/ LockDepth \/ FillDepth \/ PostDepth
DeviceStep == DepthCallback \/ VideoPacket \/ VideoCallback

Next == \/ Start \/ Stop \/ DeleteUnstopped \/ StopContinues
        \/ HandlerContinues \/ FrameEvent \/ ThreadStep \/ DeviceStep

\* Both threads are scheduled, the GUI thread takes its events, and
\* freenect_process_events returns.  Nothing forces a frame, a Start or a Stop.
Fairness == /\ WF_vars(StopContinues) /\ WF_vars(HandlerContinues)
            /\ WF_vars(OnDepthFrame) /\ WF_vars(ThreadStep)

Spec     == Init /\ [][Next]_vars
FairSpec == Spec /\ Fairness

-----------------------------------------------------------------------------
FlagsOK == cancel \in BOOLEAN /\ got \in BOOLEAN

TypeOK ==
  /\ phase \in {"new", "started", "joining", "yield", "deleting", "deleted", "leaked"}
  /\ gpc \in {"idle", "lock", "copy", "send"}
  /\ thread \in {"none", "alive", "ended"}
  /\ tpc \in {"test", "events", "lock", "fill", "post"}
  /\ FlagsOK
  /\ mutex \in {"none", "gui", "thread"}
  /\ depthSeq \in 0..MaxFrames /\ videoSeq \in 0..MaxFrames
  /\ buffers \in [0..1 -> 0..depthSeq] /\ index \in 0..1 /\ taken \in 0..1
  /\ image \in 0..depthSeq
  /\ video \in 0..videoSeq /\ colorImage \in 0..videoSeq
  /\ depthEvents \in Nat /\ colorEvents \in Nat

\* GrabDepthFrame copies a buffer that holds the newest finished depth frame,
\* whole: no callback writes it meanwhile (cpp:46-51, 81-98).
GrabbedBufferIsNewest ==
  gpc = "copy" => buffers[taken] # 0
                  /\ buffers[taken] = IF tpc = "lock" THEN depthSeq - 1 ELSE depthSeq

\* The depth picture never goes back to an older frame, although the buffer that
\* is not current holds one (cpp:47-51).
PictureMovesForward == [][image' >= image]_vars

\* While the grabber runs, a finished frame that nobody has grabbed is announced
\* by an event that is still to be handled: the last frame of a burst is not
\* left behind (cpp:98-104, KinectTestMainFrame.cpp:373).
NewFrameIsAnnounced ==
  got /\ phase = "started" /\ thread = "alive"
    => depthEvents > 0 \/ tpc = "post" \/ gpc \in {"lock", "copy"}

\* Callbacks run only while the device is open and the buffers are allocated:
\* Stop joins the thread before it frees anything (cpp:180-189).
CallbacksHaveBuffers ==
  thread = "alive" \/ tpc \in {"lock", "fill", "post"} => phase \in {"started", "joining"}

\* Every depth frame is shown, or a newer one in its place, unless the grabber is
\* stopped or its thread fails first.
DepthFrameIsShown ==
  \A n \in 1..MaxFrames :
    (tpc = "post" /\ depthSeq = n)
      ~> (image >= n \/ phase # "started" \/ thread # "alive")

\* Stop returns: the GUI thread, which waits for the event thread, holds no lock
\* a callback needs (cpp:176-196, 207-214).
StopReturns == phase = "joining" ~> phase = "deleted"
=============================================================================
