------------------------ MODULE KinectTestMainFrame ------------------------
(***************************************************************************)
(* The GUI thread of src/KinectTest/KinectTestMainFrame.cpp: StartGrabbing *)
(* and StopGrabbing create, start, stop and delete grabbers and senders.   *)
(*                                                                         *)
(* Stopping a grabber calls wxYield twice (KinectGrabberFreenect.cpp:224,  *)
(* KinectGrabberMSW.cpp:212: in Stop and in the destructor), and wxYield   *)
(* dispatches what the user clicked and what grabbers posted meanwhile: a  *)
(* handler runs inside the handler.  Calls are numbered 1 (from the event  *)
(* loop) and 2 (from call 1's wxYield); a wxYield inside call 2 dispatches *)
(* nothing.  Grabber n and sender n are made by the n-th StartGrabbing.    *)
(*                                                                         *)
(* What the grabber's threads do is in KinectGrabberFreenect, what the     *)
(* sender does in KinectDataSender.  A use of freed memory either crashes  *)
(* or does what it would have done on the live object.                     *)
(***************************************************************************)
EXTENDS Naturals

CONSTANTS
  Backends,     \* the grabbers the program may be built with
  MaxClicks     \* bound: clicks of the user

ASSUME ConstantsAssumption ==
  /\ Backends \subseteq {"freenect", "msw"}
  /\ MaxClicks \in Nat

Ids == 1..MaxClicks

VARIABLES
  backend,        \* KinectGrabberFreenect or KinectGrabberMSW
  calls,          \* number of calls being executed
  pc,             \* pc[c]: where call c is
  this,           \* this[c]: the grabber call c is stopping or deleting
  then,           \* then[c]: what call c does after StopGrabbing
  m_Grabber,      \* 0 when NULL
  exists,         \* grabbers constructed and not deleted
  thread,         \* m_thread of each grabber
  registered,     \* grabbers whose device is open (and in DeviceHash)
  m_DataSender,   \* 0 when NULL
  senders,        \* sender threads that have not ended
  told,           \* senders Stop was called on
  skeleton,       \* a KINECT_SKELETON_FRAME_RECEIVED event is pending
  clicks,         \* clicks so far
  created,        \* grabbers created so far
  closed,         \* the main frame has been deleted
  crashed,
  reentered,      \* history: a click was handled inside a wxYield
  failed          \* history: an event thread ended by itself

call    == <<calls, pc, this, then>>
grabber == <<m_Grabber, exists, thread, registered>>
sender  == <<m_DataSender, senders, told>>
history == <<reentered, failed>>

vars == <<backend, call, grabber, sender, skeleton, clicks, created, closed,
          crashed, history>>

Init ==
  /\ backend \in Backends
  /\ calls = 0 /\ pc = [c \in 1..2 |-> "test"] /\ this = [c \in 1..2 |-> 0]
  /\ then = [c \in 1..2 |-> "return"]
  /\ m_Grabber = 0 /\ exists = {} /\ registered = {}
  /\ thread = [g \in Ids |-> "none"]
  /\ m_DataSender = 0 /\ senders = {} /\ told = {}
  /\ skeleton = FALSE /\ clicks = 0 /\ created = 0
  /\ closed = FALSE /\ crashed = FALSE /\ reentered = FALSE /\ failed = FALSE

-----------------------------------------------------------------------------
(* Dispatching                                                             *)

Dispatching_AnyYield == \/ calls = 0 /\ ~closed
                        \/ calls > 0 /\ pc[calls] \in {"stopping", "deleting"}

\* The GUI thread takes the next event in the event loop or in a wxYield.
Dispatching == \/ calls = 0 /\ ~closed
               \/ calls = 1 /\ pc[1] \in {"stopping", "deleting"}

Running(c) == calls = c /\ ~crashed

Enter(next) ==
  /\ calls' = calls + 1
  /\ pc' = [pc EXCEPT ![calls + 1] = "test"]
  /\ then' = [then EXCEPT ![calls + 1] = next]
  /\ UNCHANGED this

\* Stop or Refresh call StopGrabbing ("return"), Start or a choice in the list
\* StartGrabbing ("create").  No window is left to click while the frame dies.
Click(next) ==
  /\ Dispatching /\ ~crashed /\ clicks < MaxClicks
  /\ calls = 1 => then[1] # "quit"
  /\ clicks' = clicks + 1
  /\ reentered' = (reentered \/ calls = 1)
  /\ Enter(next)
  /\ UNCHANGED <<backend, grabber, sender, skeleton, created, closed, crashed, failed>>

\* ~KinectTestMainFrame
CloseFrame ==
  /\ calls = 0 /\ ~closed /\ ~crashed
  /\ Enter("quit")
  /\ UNCHANGED <<backend, grabber, sender, skeleton, clicks, created, closed,
                 crashed, history>>

\* GrabSkeletonFrame is NULL unless the grabber runs; OnSkeletonFrame copies
\* from it whenever there is a sender.
OnSkeletonFrame ==
  /\ Dispatching /\ ~crashed /\ skeleton
  /\ skeleton' = FALSE
  /\ crashed' = /\ m_Grabber # 0 /\ m_DataSender # 0
                /\ thread[m_Grabber] # "alive" \/ m_Grabber \notin registered
  /\ UNCHANGED <<backend, call, grabber, sender, clicks, created, closed, history>>

-----------------------------------------------------------------------------
(* StopGrabbing, and StartGrabbing, which begins with it                   *)

IsStarted(g) == thread[g] = "alive" /\ (backend = "freenect" => g \in registered)

Goto(c, label) == pc' = [pc EXCEPT ![c] = label]

\* wxDELETE(m_Grabber): the destructor ends the thread and yields; m_Grabber is
\* set to NULL only afterwards.
BeginDelete(c) ==
  IF m_Grabber = 0
  THEN Goto(c, "sender") /\ UNCHANGED <<this, thread>>
  ELSE /\ Goto(c, "deleting") /\ this' = [this EXCEPT ![c] = m_Grabber]
       /\ thread' = [thread EXCEPT ![m_Grabber] = "none"]

TestGrabber_WaitsForEnded(c) ==
  /\ Running(c) /\ pc[c] = "test"
  /\ m_Grabber # 0 => thread[m_Grabber] # "ended"
  /\ IF m_Grabber # 0 /\ IsStarted(m_Grabber)
     THEN /\ Goto(c, "stopping") /\ this' = [this EXCEPT ![c] = m_Grabber]
          /\ thread' = [thread EXCEPT ![m_Grabber] = "none"]
     ELSE BeginDelete(c)
  /\ UNCHANGED <<backend, calls, then, m_Grabber, exists, registered, sender,
                 skeleton, clicks, created, closed, crashed, history>>

\* A started grabber is stopped first; Stop joins its thread and yields.
TestGrabber(c) ==
  /\ Running(c) /\ pc[c] = "test"
  /\ IF m_Grabber # 0 /\ IsStarted(m_Grabber)
     THEN /\ Goto(c, "stopping") /\ this' = [this EXCEPT ![c] = m_Grabber]
          /\ thread' = [thread EXCEPT ![m_Grabber] = "none"]
     ELSE BeginDelete(c)
  /\ UNCHANGED <<backend, calls, then, m_Grabber, exists, registered, sender,
                 skeleton, clicks, created, closed, crashed, history>>

\* The grabber whose memory call c goes on using: once it is deleted, the memory
\* may belong to the grabber made since.
Memory(c) == IF this[c] \in exists THEN {this[c]} ELSE {this[c], m_Grabber} \ {0}

\* The rest of Stop closes the device; StopGrabbing goes on to delete.
CloseDevice(c) ==
  /\ Running(c) /\ pc[c] = "stopping"
  /\ \E g \in Memory(c) : registered' = registered \ {g}
  /\ crashed' \in (IF this[c] \in exists THEN {FALSE} ELSE BOOLEAN)
  /\ BeginDelete(c)
  /\ UNCHANGED <<backend, calls, then, m_Grabber, exists, sender, skeleton, clicks,
                 created, closed, history>>

DeleteGrabber_PointerStays(c) ==
  /\ Running(c) /\ pc[c] = "deleting"
  /\ \E g \in Memory(c) : exists' = exists \ {g}
  /\ crashed' \in (IF this[c] \in exists THEN {FALSE} ELSE BOOLEAN)
  /\ Goto(c, "sender")
  /\ UNCHANGED <<backend, calls, this, then, m_Grabber, thread, registered, sender,
                 skeleton, clicks, created, closed, history>>

\* The rest of wxDELETE: a grabber that is already gone is freed twice.
DeleteGrabber(c) ==
  /\ Running(c) /\ pc[c] = "deleting"
  /\ \E g \in Memory(c) : exists' = exists \ {g}
  /\ crashed' \in (IF this[c] \in exists THEN {FALSE} ELSE BOOLEAN)
  /\ m_Grabber' = 0 /\ Goto(c, "sender")
  /\ UNCHANGED <<backend, calls, this, then, thread, registered, sender, skeleton,
                 clicks, created, closed, history>>

Leave ==
  /\ calls' = calls - 1 /\ pc' = [pc EXCEPT ![calls] = "test"]
  /\ this' = [this EXCEPT ![calls] = 0] /\ then' = [then EXCEPT ![calls] = "return"]

\* The end of StopGrabbing, which returns to its caller.
ForgetSender(c) ==
  /\ m_DataSender' = 0 /\ closed' = (closed \/ then[c] = "quit")
  /\ IF then[c] = "create" THEN Goto(c, "create") /\ UNCHANGED <<calls, this, then>>
                           ELSE Leave

StopSender_OnlyForgets(c) ==
  /\ Running(c) /\ pc[c] = "sender"
  /\ ForgetSender(c)
  /\ UNCHANGED <<backend, grabber, senders, told, skeleton, clicks, created, crashed,
                 history>>

\* A sender that runs is told to end: Stop, and Delete below.  A detached thread
\* that has ended has deleted its object, and IsRunning reads freed memory.
StopSender(c) ==
  /\ Running(c) /\ pc[c] = "sender"
  /\ \/ /\ m_DataSender \in senders
        /\ told' = told \cup {m_DataSender} /\ Goto(c, "deletesender")
        /\ UNCHANGED <<calls, this, then, m_DataSender, closed, crashed>>
     \/ /\ m_DataSender \notin senders /\ ForgetSender(c)
        /\ crashed' \in (IF m_DataSender = 0 THEN {FALSE} ELSE BOOLEAN)
        /\ UNCHANGED told
  /\ UNCHANGED <<backend, grabber, senders, skeleton, clicks, created, history>>

\* wxThread::Delete does not wait for a detached thread, which may have ended and
\* deleted itself since Stop.
DeleteSender(c) ==
  /\ Running(c) /\ pc[c] = "deletesender"
  /\ ForgetSender(c)
  /\ crashed' \in (IF m_DataSender \in senders THEN {FALSE} ELSE BOOLEAN)
  /\ UNCHANGED <<backend, grabber, senders, told, skeleton, clicks, created, history>>

\* Without a thread for the sender, StartGrabbing calls Run through NULL.
CreateSenderFails(c) ==
  /\ Running(c) /\ pc[c] = "create"
  /\ crashed' = TRUE
  /\ UNCHANGED <<backend, call, grabber, sender, skeleton, clicks, created, closed,
                 history>>

\* The rest of StartGrabbing; a grabber that does not start is stopped again.
Create(c) ==
  /\ Running(c) /\ pc[c] = "create"
  /\ LET n == created + 1 IN
     /\ created' = n /\ m_DataSender' = n /\ senders' = senders \cup {n}
     /\ UNCHANGED told /\ m_Grabber' = n /\ exists' = exists \cup {n}
     /\ \/ /\ thread' = [thread EXCEPT ![n] = "alive"]
           /\ registered' = registered \cup {n} /\ Leave
        \/ /\ Goto(c, "test") /\ then' = [then EXCEPT ![c] = "return"]
           /\ UNCHANGED <<calls, this, thread, registered>>
  /\ UNCHANGED <<backend, skeleton, clicks, closed, crashed, history>>

-----------------------------------------------------------------------------
(* Event threads of the grabbers                                           *)

\* freenect_process_events fails: the thread ends, nothing is told.
ThreadFails(g) ==
  /\ backend = "freenect" /\ thread[g] = "alive" /\ ~crashed
  /\ thread' = [thread EXCEPT ![g] = "ended"] /\ failed' = TRUE
  /\ UNCHANGED <<backend, call, m_Grabber, exists, registered, sender, skeleton,
                 clicks, created, closed, crashed, reentered>>

ReadSkeletonFrame(g) ==
  /\ backend = "msw" /\ thread[g] = "alive" /\ ~closed /\ ~crashed
  /\ skeleton' = TRUE
  /\ UNCHANGED <<backend, call, grabber, sender, clicks, created, closed, crashed,
                 history>>

\* All grabbers share one libfreenect context, so any event thread gets the
\* frames of every open device; DeviceHash may name a deleted grabber.  After
\* the frame is gone any callback posts to a deleted handler.
CallbackOnDeleted(g) ==
  /\ thread[g] = "alive" /\ ~crashed
  /\ closed \/ (backend = "freenect" /\ ~(registered \subseteq exists))
  /\ crashed' = TRUE
  /\ UNCHANGED <<backend, call, grabber, sender, skeleton, clicks, created, closed,
                 history>>

-----------------------------------------------------------------------------
(* Sender threads                                                          *)

\* After Stop a sender may end (KinectDataSender: it need not); before, when it
\* cannot make its event_base or its connection.  Its object is deleted with it.
SenderEnds(n) ==
  /\ n \in senders /\ ~crashed
  /\ senders' = senders \ {n}
  /\ UNCHANGED <<backend, call, grabber, m_DataSender, told, skeleton, clicks, created,
                 closed, crashed, history>>

\* OnDepthFrame passes the frame to a sender that is no more.
OnDepthFrameWithoutSender ==
  /\ Dispatching /\ ~crashed
  /\ m_Grabber # 0 /\ m_DataSender \notin senders \cup {0}
  /\ crashed' = TRUE
  /\ UNCHANGED <<backend, call, grabber, sender, skeleton, clicks, created, closed,
                 history>>

-----------------------------------------------------------------------------
Continue(c) == \/ TestGrabber(c) \/ CloseDevice(c) \/ DeleteGrabber(c)
               \/ StopSender(c) \/ DeleteSender(c) \/ Create(c) \/ CreateSenderFails(c)
UserEvent   == CloseFrame \/ \E next \in {"return", "create"} : Click(next)
EventThread == \E g \in Ids : ThreadFails(g) \/ ReadSkeletonFrame(g) \/ CallbackOnDeleted(g)

Next == \/ UserEvent \/ OnSkeletonFrame \/ OnDepthFrameWithoutSender
        \/ EventThread \/ \E n \in Ids : SenderEnds(n)
        \/ \E c \in 1..2 : Continue(c)

\* The GUI thread goes on with the call it is in; nobody has to click and no sender
\* has to end.
Fairness == WF_vars(\E c \in 1..2 : Continue(c))

Spec     == Init /\ [][Next]_vars
FairSpec == Spec /\ Fairness

-----------------------------------------------------------------------------
FlagsOK == /\ skeleton \in BOOLEAN /\ closed \in BOOLEAN /\ crashed \in BOOLEAN
           /\ reentered \in BOOLEAN /\ failed \in BOOLEAN

TypeOK ==
  /\ backend \in Backends
  /\ calls \in 0..2
  /\ pc \in [1..2 -> {"test", "stopping", "deleting", "sender", "deletesender", "create"}]
  /\ this \in [1..2 -> 0..MaxClicks]
  /\ then \in [1..2 -> {"return", "create", "quit"}]
  /\ m_Grabber \in 0..MaxClicks /\ exists \subseteq Ids /\ registered \subseteq Ids
  /\ thread \in [Ids -> {"none", "alive", "ended"}]
  /\ m_DataSender \in 0..MaxClicks /\ senders \subseteq Ids /\ told \subseteq Ids
  /\ clicks \in 0..MaxClicks /\ created \in 0..MaxClicks
  /\ FlagsOK

\* Whenever an event handler may run, in a wxYield too and whatever calls were
\* nested, m_Grabber is NULL or a grabber that is not deleted: OnDepthFrame and
\* the others test it for NULL and use it (cpp:298, 372, 394, 416).
GrabberPointerIsValid == Dispatching /\ m_Grabber # 0 => m_Grabber \in exists

\* A sender that runs and was not told to end is the one m_DataSender names, even
\* when StartGrabbing is entered from the wxYield of another call (cpp:270, 314).
SenderIsOwned == senders \ told \subseteq {m_DataSender}

\* Unless a click is handled inside a wxYield, there is at most the grabber
\* m_Grabber names: none is orphaned with its thread running (cpp:277, 298).
GrabberIsOwned == ~reentered => exists \subseteq {m_Grabber}

\* Unless a click is handled inside a wxYield or a thread has failed, a device
\* that is open, and may call back, belongs to a grabber that exists.
OpenDeviceHasGrabber == ~reentered /\ ~failed => registered \subseteq exists

\* When the frame is gone and m_KinectHelper shuts libfreenect down (cpp:118-119),
\* no device is open, no event thread runs and every sender that still runs was
\* told to end, with the same two exceptions.  (Whether such a sender ends is
\* KinectDataSender's matter: StopEndsSender fails there.)
QuitTellsAll ==
  closed /\ ~reentered /\ ~failed
    => registered = {} /\ senders \subseteq told /\ \A g \in Ids : thread[g] # "alive"

\* Every grabber, event thread and open device has an owner that will end it, and
\* every sender one that will tell it to, or has told it.
NothingIsOrphaned ==
  SenderIsOwned /\ GrabberIsOwned /\ OpenDeviceHasGrabber /\ QuitTellsAll

\* StartGrabbing and StopGrabbing return to the event loop, whatever runs inside
\* their wxYields.
CallsReturn == calls > 0 ~> calls = 0 \/ crashed
=============================================================================
