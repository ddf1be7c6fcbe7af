-------------------------- MODULE KinectDataSender --------------------------
(***************************************************************************)
(* The client side of the link (src/KinectTest/KinectDataSender.cpp): the  *)
(* GUI thread offers frames and stops the sender, a detached thread runs   *)
(* Entry(), and libevent's HTTP client answers or fails the requests.      *)
(*                                                                         *)
(* Two threads share plain members without a common lock, so every read or *)
(* write of a member another thread may touch is a step of its own; runs   *)
(* of thread-local code are merged into the step before them.              *)
(***************************************************************************)
EXTENDS Naturals, Sequences

CONSTANT MaxFrames            \* bound: SendKinectData calls that are accepted

ASSUME MaxFramesAssumption == MaxFrames \in Nat

VARIABLES
  gpc,        \* where the GUI thread is in SendKinectData, Stop or Delete
  spc,        \* where the sender thread is in Entry or Send
  job,        \* what Send was called with: the greeting or m_rawData
  cs,         \* owner of the critical section m_cs
  connected,  \* m_bConnected
  prepared,   \* m_bDataPrepared
  rawData,    \* frame whose bytes m_rawData holds whole, 0 when NULL or partial
  payload,    \* frame whose bytes were copied into the request, 0 for none
  conn,       \* the pointer _evhttp_connection
  alive,      \* the evhttp_connection object exists
  link,       \* its TCP connection is established (libevent's evcon->state)
  pending,    \* a request is queued on it whose callback has not run
  stuck,      \* a connect() that failed at once left it in EVCON_CONNECTING with
              \* nothing under way: what is queued on it now stays there
  cancel,     \* wxThread::Delete was called: TestDestroy() returns true
  crashed,    \* undefined behaviour has killed the process
  accepted,   \* history: frames SendKinectData accepted
  handed      \* history: frames evhttp_make_request took, in order

vars == <<gpc, spc, job, cs, connected, prepared, rawData, payload, conn,
          alive, link, pending, stuck, cancel, crashed, accepted, handed>>

sharedFlags == <<connected, prepared>>
http        == <<conn, alive, link, pending, stuck>>
history     == <<accepted, handed>>

GuiPcs  == {"idle", "enter", "copy", "notify",                  \* SendKinectData
            "closed", "discard", "stopnotify",                 \* Stop
            "delete", "done"}
SendPcs == {"send", "make", "request", "dispatch", "after"}
SpcSet  == {"new", "loop", "wait", "waiting", "woken", "lock", "unlock",
            "exit", "done"} \cup SendPcs

Constructed_BufferNotSet ==
  /\ rawData = 1 /\ prepared = FALSE
  /\ connected \in BOOLEAN /\ conn \in {"garbage", "null"}

\* The constructor sets m_rawData and m_bDataPrepared only: m_bConnected and
\* _evhttp_connection hold whatever the heap held.
Constructed ==
  /\ rawData = 0 /\ prepared = FALSE
  /\ connected \in BOOLEAN /\ conn \in {"garbage", "null"}

Init ==
  /\ Constructed
  /\ gpc = "idle" /\ spc = "new" /\ job = "none" /\ cs = "none"
  /\ payload = 0
  /\ alive = FALSE /\ link = FALSE /\ pending = FALSE /\ stuck = FALSE
  /\ cancel = FALSE /\ crashed = FALSE
  /\ accepted = 0 /\ handed = <<>>

-----------------------------------------------------------------------------
(* The GUI thread: SendKinectData, Stop, wxThread::Delete.                 *)

\* The test at the top, outside m_cs.  A call it refuses changes nothing.
SendKinectData ==
  /\ gpc = "idle" /\ connected /\ ~prepared /\ accepted < MaxFrames
  /\ gpc' = "enter"
  /\ UNCHANGED <<spc, job, cs, sharedFlags, rawData, payload, http, cancel,
                 crashed, history>>

\* Takes m_cs, frees the old buffer; the new one is not filled yet.
ReplaceBuffer ==
  /\ gpc = "enter" /\ cs = "none"
  /\ gpc' = "copy" /\ cs' = "gui" /\ rawData' = 0
  /\ UNCHANGED <<spc, job, sharedFlags, payload, http, cancel, crashed, history>>

Publish ==
  /\ gpc = "copy"
  /\ accepted' = accepted + 1
  /\ rawData' = accepted' /\ prepared' = TRUE
  /\ gpc' = "notify"
  /\ UNCHANGED <<spc, job, cs, connected, payload, http, cancel, crashed, handed>>

\* wxCondition::Broadcast reaches a thread that waits now, and no other.
Wake == spc' = IF spc = "waiting" THEN "woken" ELSE spc

Notify_NoBroadcast ==
  /\ gpc = "notify"
  /\ cs' = "none" /\ gpc' = "idle"
  /\ UNCHANGED <<spc, job, sharedFlags, rawData, payload, http, cancel, crashed,
                 history>>

Notify ==
  /\ gpc = "notify"
  /\ Wake
  /\ cs' = "none" /\ gpc' = "idle"
  /\ UNCHANGED <<job, sharedFlags, rawData, payload, http, cancel, crashed, history>>

\* Stop -> CloseHTTPConnection: frees the connection with the requests queued
\* on it; their callbacks do not run.  A wild pointer has no benign outcome.
Stop ==
  /\ gpc = "idle" /\ conn # "garbage"
  /\ IF conn = "set"
     THEN /\ alive' = FALSE /\ link' = FALSE /\ pending' = FALSE /\ stuck' = FALSE
          /\ gpc' = "closed"
     ELSE gpc' = "discard" /\ UNCHANGED <<alive, link, pending, stuck>>
  /\ UNCHANGED <<spc, job, cs, sharedFlags, rawData, payload, conn, cancel,
                 crashed, history>>

ForgetConnection ==
  /\ gpc = "closed"
  /\ conn' = "null" /\ gpc' = "discard"
  /\ UNCHANGED <<spc, job, cs, sharedFlags, rawData, payload, alive, link,
                 pending, stuck, cancel, crashed, history>>

Discard_FreesBuffer ==
  /\ gpc = "discard"
  /\ prepared' = FALSE /\ rawData' = 0 /\ gpc' = "stopnotify"
  /\ UNCHANGED <<spc, job, cs, connected, payload, http, cancel, crashed, history>>

Discard ==
  /\ gpc = "discard"
  /\ prepared' = FALSE /\ gpc' = "stopnotify"
  /\ UNCHANGED <<spc, job, cs, connected, rawData, payload, http, cancel,
                 crashed, history>>

StopNotify_NoBroadcast ==
  /\ gpc = "stopnotify"
  /\ gpc' = "delete"
  /\ UNCHANGED <<spc, job, cs, sharedFlags, rawData, payload, http, cancel,
                 crashed, history>>

StopNotify ==
  /\ gpc = "stopnotify"
  /\ Wake
  /\ gpc' = "delete"
  /\ UNCHANGED <<job, cs, sharedFlags, rawData, payload, http, cancel, crashed,
                 history>>

Delete ==
  /\ gpc = "delete"
  /\ cancel' = TRUE /\ gpc' = "done"
  /\ UNCHANGED <<spc, job, cs, sharedFlags, rawData, payload, http, crashed,
                 history>>

-----------------------------------------------------------------------------
(* The sender thread: Entry and Send.                                      *)

\* event_base_new and evhttp_connection_base_new may each fail.
Start ==
  /\ spc = "new"
  /\ \/ conn' = "set" /\ alive' = TRUE /\ connected' = FALSE /\ spc' = "loop"
     \/ conn' \in {conn, "null"} /\ spc' = "exit" /\ UNCHANGED <<alive, connected>>
  /\ UNCHANGED <<gpc, job, cs, prepared, rawData, payload, link, pending, stuck,
                 cancel, crashed, history>>

Loop ==
  /\ spc = "loop"
  /\ \/ (cancel \/ conn = "null") /\ spc' = "exit" /\ UNCHANGED job
     \/ ~cancel /\ conn # "null" /\ connected /\ spc' = "wait" /\ UNCHANGED job
     \/ ~cancel /\ conn # "null" /\ ~connected /\ spc' = "send" /\ job' = "connect"
  /\ UNCHANGED <<gpc, cs, sharedFlags, rawData, payload, http, cancel, crashed,
                 history>>

\* Entering Wait tests nothing: m_bDataPrepared was not looked at under a lock.
\* m_mutexSend is not held at the first call, so that Wait may report an error.
Wait ==
  /\ spc = "wait"
  /\ spc' \in {"waiting", "loop"}
  /\ UNCHANGED <<gpc, job, cs, sharedFlags, rawData, payload, http, cancel,
                 crashed, history>>

\* A condition variable may wake its waiter without a Broadcast.
SpuriousWakeup ==
  /\ spc = "waiting"
  /\ spc' = "woken"
  /\ UNCHANGED <<gpc, job, cs, sharedFlags, rawData, payload, http, cancel,
                 crashed, history>>

Woken ==
  /\ spc = "woken"
  /\ spc' = IF prepared THEN "lock" ELSE "loop"
  /\ UNCHANGED <<gpc, job, cs, sharedFlags, rawData, payload, http, cancel,
                 crashed, history>>

Lock_ClearsFlagEarly ==
  /\ spc = "lock" /\ cs = "none"
  /\ cs' = "sender" /\ job' = "frame" /\ spc' = "send" /\ prepared' = FALSE
  /\ UNCHANGED <<gpc, connected, rawData, payload, http, cancel, crashed, history>>

Lock ==
  /\ spc = "lock" /\ cs = "none"
  /\ cs' = "sender" /\ job' = "frame" /\ spc' = "send"
  /\ UNCHANGED <<gpc, sharedFlags, rawData, payload, http, cancel, crashed,
                 history>>

\* First test of _evhttp_connection, then evbuffer_add copies the bytes; when
\* it fails Send gives up without a request.
FillRequest ==
  /\ spc = "send"
  /\ \/ spc' = "after" /\ UNCHANGED payload
     \/ /\ conn # "null"
        /\ payload' = IF job = "frame" THEN rawData ELSE 0
        /\ spc' = "make"
  /\ UNCHANGED <<gpc, job, cs, sharedFlags, rawData, http, cancel, crashed,
                 history>>

RecheckConnection ==
  /\ spc = "make"
  /\ spc' = IF conn = "null" THEN "after" ELSE "request"
  /\ UNCHANGED <<gpc, job, cs, sharedFlags, rawData, payload, http, cancel,
                 crashed, history>>

\* evhttp_make_request: -1 without a callback when a socket for a new TCP
\* connection cannot be had; a stuck connection takes the request all the same.
\* On a freed connection the benign outcome is a request nobody will answer.
MakeRequest ==
  /\ spc = "request" /\ conn # "null"
  /\ \/ alive /\ pending' = TRUE
        /\ handed' = IF job = "frame" THEN Append(handed, payload) ELSE handed
     \/ ~(alive /\ (link \/ stuck)) /\ UNCHANGED <<pending, handed>>
  /\ spc' = "dispatch"
  /\ UNCHANGED <<gpc, job, cs, sharedFlags, rawData, payload, conn, alive, link,
                 stuck, cancel, crashed, accepted>>

\* _OnRequestDone, run by event_base_dispatch in the sender's thread: with a
\* request when a response came (the connection may then be kept or closed) and
\* also when the TCP connection was refused or timed out; with NULL otherwise.
\* A connect() that fails at once calls it before evhttp_connection_connect sets
\* EVCON_CONNECTING for good.
OnRequestDone ==
  /\ spc = "dispatch" /\ pending /\ ~stuck
  /\ \/ connected' = TRUE /\ link' \in BOOLEAN /\ UNCHANGED stuck
     \/ connected' = FALSE /\ link' = FALSE /\ UNCHANGED stuck
     \/ connected' = FALSE /\ ~link /\ stuck' = TRUE /\ UNCHANGED link
  /\ pending' = FALSE
  /\ UNCHANGED <<gpc, spc, job, cs, prepared, rawData, payload, conn, alive,
                 cancel, crashed, history>>

\* The loop ends by loopexit, or because no event is left to wait for: a request
\* on a stuck connection has none.
DispatchReturns ==
  /\ spc = "dispatch" /\ (~pending \/ stuck)
  /\ spc' = "after"
  /\ UNCHANGED <<gpc, job, cs, sharedFlags, rawData, payload, http, cancel,
                 crashed, history>>

FinishSend ==
  /\ spc = "after"
  /\ IF job = "frame"
     THEN prepared' = FALSE /\ spc' = "unlock"
     ELSE spc' = "loop" /\ UNCHANGED prepared
  /\ UNCHANGED <<gpc, job, cs, connected, rawData, payload, http, cancel,
                 crashed, history>>

Unlock ==
  /\ spc = "unlock"
  /\ cs' = "none" /\ spc' = "loop"
  /\ UNCHANGED <<gpc, job, sharedFlags, rawData, payload, http, cancel, crashed,
                 history>>

\* event_base_free; a detached wxThread then deletes itself.
Exit ==
  /\ spc = "exit"
  /\ spc' = "done"
  /\ UNCHANGED <<gpc, job, cs, sharedFlags, rawData, payload, http, cancel,
                 crashed, history>>

-----------------------------------------------------------------------------
(* Undefined behaviour.  The actions above are its benign outcome (memory   *)
(* that was freed still reads as it did); the two below end the process.    *)

\* evhttp_make_request is called with a connection Stop has freed or nulled.
UseFreedConnection ==
  /\ spc = "request" /\ ~alive
  /\ crashed' = TRUE
  /\ UNCHANGED <<gpc, spc, job, cs, sharedFlags, rawData, payload, http, cancel,
                 history>>

\* Stop frees an uninitialised pointer, or frees the connection under the
\* running event loop (libevent has no locks here: evthread_use_* is never
\* called), or the GUI thread uses a sender that has deleted itself.
GuiCrash ==
  /\ gpc # "done"
  /\ \/ gpc = "idle" /\ conn = "garbage"
     \/ gpc = "idle" /\ alive /\ spc = "dispatch"
     \/ spc = "done"
  /\ crashed' = TRUE
  /\ UNCHANGED <<gpc, spc, job, cs, sharedFlags, rawData, payload, http, cancel,
                 history>>

-----------------------------------------------------------------------------
\* What the GUI thread goes on with once it has entered a call.
GuiContinues == ReplaceBuffer \/ Publish \/ Notify \/ ForgetConnection
                \/ Discard \/ StopNotify \/ Delete

SenderStep == Start \/ Loop \/ Wait \/ Woken \/ Lock \/ FillRequest
              \/ RecheckConnection \/ MakeRequest \/ UseFreedConnection
              \/ OnRequestDone \/ DispatchReturns \/ FinishSend \/ Unlock \/ Exit

Next == ~crashed /\ (\/ SendKinectData \/ Stop \/ GuiContinues
                     \/ SenderStep \/ SpuriousWakeup \/ GuiCrash)

\* Threads are scheduled, and libevent's connect, read and write timeouts end
\* every request that is under way.  Nothing forces a GUI call, a spurious wakeup or a crash.
Fairness == WF_vars(~crashed /\ GuiContinues) /\ WF_vars(~crashed /\ SenderStep)

Spec     == Init /\ [][Next]_vars
FairSpec == Spec /\ Fairness

-----------------------------------------------------------------------------
FlagsOK ==
  /\ connected \in BOOLEAN /\ prepared \in BOOLEAN
  /\ alive \in BOOLEAN /\ link \in BOOLEAN /\ pending \in BOOLEAN /\ stuck \in BOOLEAN
  /\ cancel \in BOOLEAN /\ crashed \in BOOLEAN

TypeOK ==
  /\ FlagsOK
  /\ gpc \in GuiPcs /\ spc \in SpcSet
  /\ job \in {"none", "connect", "frame"}
  /\ cs \in {"none", "gui", "sender"}
  /\ conn \in {"garbage", "set", "null"}
  /\ accepted \in 0..MaxFrames
  /\ rawData \in 0..accepted /\ payload \in 0..accepted
  /\ handed \in Seq(0..MaxFrames)

\* Every frame request carries the bytes of one whole frame: the sender never
\* copies m_rawData while SendKinectData replaces it (m_cs, cpp:51 and 108).
HandedFramesAreWhole == \A i \in DOMAIN handed : handed[i] # 0

\* No frame is sent twice and none overtakes another, whatever spurious wakeups
\* and stale m_bDataPrepared values do (cpp:50-53, 107).
HandedOnceInOrder == \A i, j \in DOMAIN handed : i < j => handed[i] < handed[j]

\* SendKinectData, called from paint events, never blocks on m_cs while the
\* sender holds it across the network: m_bDataPrepared stays set until then.
GuiNeverWaitsForNetwork == ~(gpc = "enter" /\ cs = "sender" /\ spc \in SendPcs)

\* An accepted frame is not overwritten before it was sent or thrown away.
AcceptedFrameIsKept == [][rawData' # rawData => ~prepared]_vars

\* The sender has seen m_bDataPrepared and has not yet passed the frame on.
FrameInHand == \/ spc = "lock"
               \/ job = "frame" /\ spc \in {"send", "make", "request"}

\* The two threads together implement the one-place mailbox: m_bDataPrepared
\* says whether it is full, m_rawData what is in it.
Mailbox == INSTANCE FrameMailbox
             WITH slot  <- IF prepared THEN rawData ELSE 0,
                  taken <- IF FrameInHand THEN rawData ELSE 0

ImplementsMailbox == Mailbox!Spec

\* A frame published while the sender is already waiting is taken or dropped,
\* and the slot is free again (cpp:114-115, 48-53).
FrameForWaiterIsTaken ==
  (gpc = "notify" /\ spc = "waiting") ~> (~prepared \/ crashed)

\* Stop's broadcast ends a sender that is already waiting, although the cancel
\* flag is set only afterwards: the connection it closed stands for it (cpp:45,
\* 148).  (A Stop that ran before Entry had closed none.)
StopEndsWaiter ==
  (gpc = "stopnotify" /\ spc = "waiting" /\ conn = "null") ~> (spc = "done" \/ crashed)

-----------------------------------------------------------------------------
(* What the tests and libevent's documentation expect and the code does not *)
(* keep.                                                                     *)

\* An accepted frame is sent or dropped in the end (ServerTest.cpp:33 sends
\* one and leaves).  Violated: the Broadcast may come before Wait.
AcceptedFrameIsReleased == prepared ~> (~prepared \/ crashed)

\* Stop and Delete end the thread (ServerTest.cpp:40-41).  Violated: the only
\* Broadcast may come before Wait.
StopEndsSender == (gpc = "done") ~> (spc = "done" \/ crashed)

\* After a frame was sent, the thread object outlives the GUI's calls on it
\* (ServerTest.cpp:40-41 calls Delete after Stop).  Violated: Stop makes the
\* detached thread finish and delete itself.
SenderOutlivesItsCalls == handed # <<>> => (spc = "done" => gpc = "done")

\* The connection is freed only while no loop runs on its base (event2/thread.h
\* asks for locks otherwise).  Violated: Stop does not wait for Send.
FreedOutsideDispatch == [][alive /\ ~alive' => spc # "dispatch"]_vars
=============================================================================
