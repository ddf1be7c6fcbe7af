-------------------------- MODULE KinectGrabberMSW --------------------------
(***************************************************************************)
(* One life of a src/wxKinectHelper/KinectGrabberMSW.cpp object.  Its      *)
(* thread waits for the Kinect SDK's three manual-reset events, the first  *)
(* in the array first, reads the frame that is there into a buffer and     *)
(* posts an event; the GUI thread's handlers copy the buffers without a    *)
(* lock.                                                                   *)
(*                                                                         *)
(* The SDK is external: it signals a stream's event while it holds frames  *)
(* of the stream that were not read, and may drop older ones.              *)
(***************************************************************************)
EXTENDS Naturals

CONSTANT MaxFrames            \* bound: frames of each stream

ASSUME MaxFramesAssumption == MaxFrames \in Nat

\* The order of eventHandles.
Depth    == 1
Color    == 2
Skeleton == 3
Streams == {Depth, Color, Skeleton}

VARIABLES
  phase,      \* where the GUI thread is in the life of the grabber
  gpc,        \* stream whose handler is copying, 0 for none
  copied,     \* what the buffer held when the copy began
  thread,     \* m_thread: "none" when NULL
  tpc,        \* where the thread is in Entry
  cur,        \* stream the thread reads
  cancel,     \* wxThread::Delete was called
  handles,    \* event handles created and not closed
  named,      \* those the three members name
  delivered,  \* frames of each stream the SDK got from the sensor
  read,       \* number of the last one GetNextFrame returned
  buffer,     \* frame each buffer holds whole, 0 for none
  events,     \* pending KINECT_..._FRAME_RECEIVED events
  image       \* frame each picture shows, 0 when black, empty or torn

gui    == <<phase, gpc, copied>>
entry  == <<thread, tpc, cur, cancel>>
sdk    == <<delivered, read>>
frames == <<buffer, events, image>>

vars == <<gui, entry, handles, named, sdk, frames>>

Zero == [s \in Streams |-> 0]

Init ==
  /\ phase = "new" /\ gpc = 0 /\ copied = 0
  /\ thread = "none" /\ tpc = "test" /\ cur = Depth /\ cancel = FALSE
  /\ handles = {} /\ named = {}
  /\ delivered = Zero /\ read = Zero /\ buffer = Zero /\ events = Zero /\ image = Zero

-----------------------------------------------------------------------------
(* The GUI thread: Start, Stop and the destructor                          *)

\* Without a sensor or a thread Start fails before the events are created; when a
\* stream does not open, after it.  Run is the last thing it does.
Start ==
  /\ phase = "new"
  /\ \/ phase' = "started" /\ thread' = "alive" /\ handles' = Streams /\ named' = Streams
     \/ phase' = "failed" /\ handles' \in {{}, Streams} /\ named' = handles'
        /\ UNCHANGED thread
  /\ UNCHANGED <<gpc, copied, tpc, cur, cancel, sdk, frames>>

Stop_ClosesFirst ==
  /\ phase = "started" /\ gpc = 0
  /\ phase' = "joining" /\ cancel' = TRUE /\ handles' = {}
  /\ UNCHANGED <<gpc, copied, thread, tpc, cur, named, sdk, frames>>

\* StopThread sets the cancel flag and waits for the thread ...
Stop ==
  /\ phase = "started" /\ gpc = 0
  /\ phase' = "joining" /\ cancel' = TRUE
  /\ UNCHANGED <<gpc, copied, thread, tpc, cur, handles, named, sdk, frames>>

\* ... deletes it, and wxYield runs what is pending.
Joined ==
  /\ phase = "joining" /\ thread = "ended"
  /\ thread' = "none" /\ phase' = "yield"
  /\ UNCHANGED <<gpc, copied, tpc, cur, cancel, handles, named, sdk, frames>>

\* The rest of Stop clears the pictures and closes the events.
CloseEvents ==
  /\ phase = "yield" /\ gpc = 0
  /\ phase' = "stopped"
  /\ buffer' = [buffer EXCEPT ![Depth] = 0, ![Color] = 0]
  /\ handles' = handles \ named /\ named' = {}
  /\ UNCHANGED <<gpc, copied, entry, sdk, events, image>>

\* The destructor yields once more, frees the buffers and shuts the sensor down.
\* A grabber that did not start is deleted without Stop.
Delete ==
  /\ phase \in {"stopped", "failed"} /\ gpc = 0
  /\ phase' = "deleted" /\ thread' = "none"
  /\ UNCHANGED <<gpc, copied, tpc, cur, cancel, handles, named, sdk, frames>>

-----------------------------------------------------------------------------
(* Frame event handlers (GUI thread), from the event loop or from wxYield  *)

HandlersRun == gpc = 0 /\ phase \in {"started", "yield", "stopped", "failed"}

BeginGrab_AnyTime(s) ==
  /\ HandlersRun
  /\ events' = [events EXCEPT ![s] = @ - 1]
  /\ gpc' = s /\ copied' = buffer[s]
  /\ UNCHANGED <<phase, entry, handles, named, sdk, buffer, image>>

\* GrabDepthFrame and GrabColorFrame copy the buffer; OnSkeletonFrame draws what
\* GrabSkeletonFrame points to, or nothing when no thread runs.
BeginGrab(s) ==
  /\ HandlersRun /\ events[s] > 0
  /\ events' = [events EXCEPT ![s] = @ - 1]
  /\ IF s = Skeleton /\ thread # "alive"
     THEN image' = [image EXCEPT ![s] = 0] /\ UNCHANGED <<gpc, copied>>
     ELSE gpc' = s /\ copied' = buffer[s] /\ UNCHANGED image
  /\ UNCHANGED <<phase, entry, handles, named, sdk, buffer>>

\* The copy is torn when the thread wrote to the buffer meanwhile.
EndGrab ==
  /\ gpc # 0
  /\ image' = [image EXCEPT ![gpc] = IF buffer[gpc] = copied THEN copied ELSE 0]
  /\ gpc' = 0 /\ copied' = 0
  /\ UNCHANGED <<phase, entry, handles, named, sdk, buffer, events>>

-----------------------------------------------------------------------------
(* The SDK and the grabber's thread                                        *)

Deliver(s) ==
  /\ phase \in {"started", "joining"} /\ delivered[s] < MaxFrames
  /\ delivered' = [delivered EXCEPT ![s] = @ + 1]
  /\ UNCHANGED <<gui, entry, handles, named, read, frames>>

Signalled(s) == read[s] < delivered[s]

TestDestroy ==
  /\ thread = "alive" /\ tpc = "test"
  /\ IF cancel THEN thread' = "ended" /\ UNCHANGED tpc
               ELSE tpc' = "wait" /\ UNCHANGED thread
  /\ UNCHANGED <<gui, cur, cancel, handles, named, sdk, frames>>

\* WaitForMultipleObjects: the lowest index that is signalled, or the timeout.
Wait ==
  /\ thread = "alive" /\ tpc = "wait"
  /\ \/ \E s \in Streams : /\ Signalled(s) /\ \A t \in Streams : t < s => ~Signalled(t)
                           /\ cur' = s /\ tpc' = "read"
     \/ tpc' = "test" /\ UNCHANGED cur
  /\ UNCHANGED <<gui, thread, cancel, handles, named, sdk, frames>>

\* GetNextFrame returns a frame or fails.  A picture that cannot be locked is not
\* copied but announced; a skeleton frame that shows nobody is dropped.
ReadFrame ==
  /\ thread = "alive" /\ tpc = "read"
  /\ \/ \E n \in 1..MaxFrames :
          /\ read[cur] < n /\ n <= delivered[cur]
          /\ read' = [read EXCEPT ![cur] = n]
          /\ \/ tpc' = "write" /\ buffer' = [buffer EXCEPT ![cur] = 0]
             \/ UNCHANGED buffer /\ tpc' = IF cur = Skeleton THEN "test" ELSE "post"
     \/ tpc' = "test" /\ UNCHANGED <<read, buffer>>
  /\ UNCHANGED <<gui, thread, cur, cancel, handles, named, delivered, events, image>>

WriteBuffer_NotPosted ==
  /\ thread = "alive" /\ tpc = "write"
  /\ buffer' = [buffer EXCEPT ![cur] = read[cur]]
  /\ tpc' = "test"
  /\ UNCHANGED <<gui, thread, cur, cancel, handles, named, sdk, events, image>>

\* ReadDepthLockedRect, ReadColorLockedRect or ConvertFrame.
WriteBuffer ==
  /\ thread = "alive" /\ tpc = "write"
  /\ buffer' = [buffer EXCEPT ![cur] = read[cur]]
  /\ tpc' = "post"
  /\ UNCHANGED <<gui, thread, cur, cancel, handles, named, sdk, events, image>>

Post_OnlyFirst ==
  /\ thread = "alive" /\ tpc = "post"
  /\ events' = IF read[cur] = 1 THEN [events EXCEPT ![cur] = @ + 1] ELSE events
  /\ tpc' = "test"
  /\ UNCHANGED <<gui, thread, cur, cancel, handles, named, sdk, buffer, image>>

Post ==
  /\ thread = "alive" /\ tpc = "post"
  /\ events' = [events EXCEPT ![cur] = @ + 1]
  /\ tpc' = "test"
  /\ UNCHANGED <<gui, thread, cur, cancel, handles, named, sdk, buffer, image>>

-----------------------------------------------------------------------------
StopContinues == Joined \/ CloseEvents \/ Delete
ThreadStep    == TestDestroy \/ Wait \/ ReadFrame \/ WriteBuffer \/ Post

Next == \/ Start \/ Stop \/ StopContinues
        \/ (\E s \in Streams : BeginGrab(s) \/ Deliver(s)) \/ EndGrab \/ ThreadStep

\* Both threads are scheduled, the GUI thread takes its events, and the waits of
\* 100 and 200 ms end.  Nothing forces a frame, a Start or a Stop.
Fairness == /\ WF_vars(StopContinues) /\ WF_vars(EndGrab) /\ WF_vars(ThreadStep)
            /\ \A s \in Streams : WF_vars(BeginGrab(s))

Spec     == Init /\ [][Next]_vars
FairSpec == Spec /\ Fairness

-----------------------------------------------------------------------------
FlagOK == cancel \in BOOLEAN

\* Types; events are never counted below zero.
TypeOK ==
  /\ phase \in {"new", "started", "joining", "yield", "stopped", "failed", "deleted"}
  /\ gpc \in 0..3 /\ copied \in 0..MaxFrames
  /\ thread \in {"none", "alive", "ended"}
  /\ tpc \in {"test", "wait", "read", "write", "post"} /\ cur \in Streams
  /\ FlagOK
  /\ handles \subseteq Streams /\ named \subseteq Streams
  /\ delivered \in [Streams -> 0..MaxFrames] /\ read \in [Streams -> 0..MaxFrames]
  /\ buffer \in [Streams -> 0..MaxFrames] /\ image \in [Streams -> 0..MaxFrames]
  /\ events \in [Streams -> Nat]

\* The thread waits for three events that exist, until it ends; a grabber that was
\* started and stopped leaves none behind (cpp:114-130).
HandlesOutliveThread ==
  /\ thread = "alive" => handles = Streams
  /\ phase = "stopped" => handles = {}

\* A torn picture does not stay.  While the grabber runs, a picture whose events
\* have all been handled is what the buffer holds, whole, unless the thread is
\* writing the next one or has it to announce (cpp:55-67, 215-243).
QuietPictureIsWhole ==
  phase = "started" =>
    \A s \in Streams :
      events[s] = 0 /\ gpc # s /\ ~(tpc \in {"write", "post"} /\ cur = s) => image[s] = buffer[s]

\* A frame that was read is shown, or a newer one in its place, unless the grabber
\* is stopped first.
FrameIsShown ==
  \A s \in Streams, n \in 1..MaxFrames :
    (tpc = "post" /\ cur = s /\ buffer[s] = n) ~> (image[s] >= n \/ phase # "started")
=============================================================================
