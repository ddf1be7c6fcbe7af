# wxKinectHelper: a verification development

TLA+ models of the repository's own program: a wxWidgets client that grabs
frames from a Kinect and posts them over HTTP, and a server that looks for
objects in them. Each module is translated from the source; `PROJECT.json` maps
every definition to the lines it stands for. TLC checks small instances, TLAPS
proves the safety properties for every value of the constants.

Paths in the modules' comments are those of the component (`cpp:48` is line 48
of the module's own source file).

## 1. The system

```
 Kinect --frames--> grabber thread --events--> GUI thread --SendKinectData--> sender thread
                    (freenect | MSW)           (KinectTestMainFrame)           (KinectDataSender)
                                                                                    | HTTP POST
 main() --Stop, GetStatus--> server thread (KinectServer, libevent) <----------------+
                                   | ProcessDepthFrame
                                   v
                             PclObjectDetector::Detect --condition--> worker thread
```

| component | state | operations | hard behaviour | what makes it correct |
|---|---|---|---|---|
| **KinectDataSender** (`KinectTest`) | one frame slot `m_rawData`/`m_bDataPrepared`, `m_bConnected`, `_evhttp_connection`, `m_cs`, a condition variable | `SendKinectData`, `Stop`, `Delete` (GUI); `Entry`, `Send`, `_OnRequestDone` (thread) | plain members shared by two threads, a wait without a predicate under the mutex, a detached thread that deletes itself, requests that fail or time out | whole frames, each once, in order; the GUI never waits for the network; accepted frames are sent or dropped; Stop ends the thread |
| **KinectServer, ServerMain** | `_status`, `_evbase`, `_evhttp`, libevent's break flag | `Execute`, `_OnRequest`, `Stop`, `GetStatus`; `main` | Stop from another thread on a libevent without locks; polling the status instead of joining | every request is answered or its connection closed; Stop ends the loop; nothing is deleted under the thread |
| **PclObjectDetector, PclSegmentation** | cloud, object vector, `m_mutexFill`, condition, stop flag | `Detect`, `GetObjectVector`, destructor; `DetectionWorker` | try_lock drops frames, notify without a waiter, join of a sleeping worker | newest whole frame is detected; results never go back; a busy worker is joined |
| **KinectGrabberFreenect** | two depth buffers and an index, `m_GotDepth`, video buffer, device, `m_Mutex` | `Start`, `Stop`, `GrabDepthFrame`, `GrabColorFrame`; `Entry`, `DepthCallback`, `VideoCallback` | double buffering against a thread, events that outrun or outlive frames, join from the GUI thread | the newest whole depth frame is shown; none is left unannounced; no callback after Stop |
| **KinectGrabberMSW** | buffers, three event handles, skeleton | as above with the Kinect SDK | unlocked buffers; three events waited for lowest index first; handles closed by `Stop` | a torn picture does not stay; the last frame of a stream is shown; no handle is closed under the thread |
| **KinectTestMainFrame** | `m_Grabber`, `m_DataSender`, images | `StartGrabbing`, `StopGrabbing`, frame handlers, destructor | `wxYield` inside `Stop` and the destructor re-enters the handlers | no handler meets a deleted grabber; every thread and device has an owner that ends it, every sender one that tells it to end |
| **KinectTypes** | `VideoFrame`: header, data | two constructors, sizes, `IsOK` | 32-bit arithmetic, a size check against the wrong size | what is encoded is decoded |
| data processors | last frames, object list | `Process*Frame` | object lifetime at shutdown | one frame kept at a time |
| **evhttp** (`libevent/http.c`, the part the link uses) | client: connection object with state, socket, queue of requests; server: one connection object per accepted socket | `evhttp_make_request`, `evhttp_connection_free`, the bufferevent callbacks of both ends | a refused, lost or timed-out connection at any step; requests made in a callback; assertions that kill the process | one callback for each request, with its own reply; handled at most once; no assertion fails |
| **event loop** (`libevent/event.c`, `minheap-internal.h`) | three lists of events, a heap of timeouts, `event_count`, cached time, break and exit flags | `event_add`, `event_del`, `event_base_loop`, `event_base_loopexit`, `event_base_loopbreak` | callbacks that add and delete events which are active at the same time; a persistent event's periods; an event that is ready and timed out at once | the lists agree; an event is called only while it is asked for and for a cause; every cause is served; the loop ends when nothing is left or it was told to, and says which |
| ObjectDetector | none | `LocateObject` | ratio test over approximate neighbours | not modelled |
| KinectHelper, SkeletonPainter | none of their own | forwarding, drawing | - | not modelled |
| KinectHandlerThread, HttpHeader, find_obj.cpp | - | in no CMake target, or commented out | - | not modelled |
| libjson, and the rest of libevent 2.0.16 | vendored | | | not modelled |

Interactions: the grabber posts `wxCommandEvent`s to the main frame
(`AddPendingEvent`), whose handlers call back into the grabber and hand the
picture to the sender; the sender posts to the server with libevent's HTTP
client; the server calls its data processor synchronously; the processor feeds
the detector. Shared state without a common lock exists in every pair.

The hazards this gives rise to are listed in `PROJECT.json` under `hazards`,
each at its line and with the properties that would catch it.

## 2. Modules

A module models one component with a step for each access to a member that
another thread may touch; runs of thread-local code are merged into the step
before. `MCx` instantiates `x` for TLC, `x_proofs` holds its theorems
(`MCDepthDetection` and `DepthDetection_proofs` serve `VideoFrame` and
`PclObjectDetector`, which share no variable: a behaviour of the run is one of either).

### KinectDataSender, FrameMailbox

GUI thread (`gpc`): `SendKinectData` tests `m_bConnected` and `m_bDataPrepared`;
`ReplaceBuffer`, `Publish` and `Notify` are the copy under `m_cs`, the flag and
the broadcast; `Stop` frees the connection (`ForgetConnection` clears the
pointer), `Discard` drops the slot, `StopNotify` broadcasts; `Delete` is
`wxThread::Delete`. Sender thread (`spc`): `Start` makes the event base and
sends the greeting; `Loop`, `Wait`, `Woken`, `Lock` ... `Unlock` is the loop of
`Entry`, `FillRequest`, `RecheckConnection`, `MakeRequest`, `OnRequestDone`,
`DispatchReturns`, `FinishSend` one `Send`. A frame is its number.
The constructor leaves `m_bConnected` and the connection pointer unset, so
`Init` leaves them open. A `connect()` that fails at once leaves the connection
`stuck` (section 6, 3): a request made on it stays queued (`pending`) and
`event_base_dispatch` returns at once, finding no event to wait for. Using freed or garbage memory is an outcome of its
own (`GuiCrash`, `UseFreedConnection`) next to the one where nothing happens.

`FrameMailbox` is what the sender promises: a mailbox with one place. The slot
is `m_rawData` while `m_bDataPrepared`, the frame in hand is the one between the
test of the flag and `evhttp_make_request` (`ImplementsMailbox`).

### KinectServer

`main` (`mpc`): start the thread, wait for a key, `Stop` (`ForgetHttp`,
`LoopBreak`), poll, delete. The thread (`tpc`): `Begin` ... `SetStopped` are the
lines of `Execute` (`Bind` and `SetCallback` read `_evhttp` one after the other, and
a Stop may come between), with `event_base_loop` as `Dispatch`, `LoopTurn`, the wait,
`Accept`, `Hangup`, `OnRequest`. Clients connect, ask with any packet type and
leave. The data processor is one step that accepts or refuses; it may be
interrupted by `main`. libevent was built without `evthread_use`, so a break
request only sets a flag; whether closing the listening socket ends a blocked
wait is the constant `ClosingEndsWait` (select on Windows: yes, epoll: no).

### PclObjectDetector

The caller of `Detect` and of the destructor (`fpc`), the worker (`wpc`), a
reader (`rpc`). `m_mutexMonitorWorker` is locked by the worker alone and is no
variable. The geometry is one step under `m_mutexFill`.

### KinectGrabberFreenect

One life of a grabber (`phase`: new, started, joining, yield, deleted; or
deleting, leaked when its thread had died), frame handlers of the GUI thread
(`gpc`), the event thread (`tpc`). A buffer is the number of the frame it holds
whole, 0 while it is written. The colour buffer is written by libfreenect with
no lock at all, so a torn colour picture is a state of the model; nothing
promises otherwise and no property is stated.

### KinectGrabberMSW

One life of a grabber again, with three streams (`Depth`, `Color`, `Skeleton`, in
the order of `eventHandles`). The thread (`tpc`) tests for `Delete`, waits
(`Wait`: the lowest signalled index, or the time-out), reads (`ReadFrame`: the
frame, a newer one, or a failure), writes a buffer (`WriteBuffer`) and posts. The
handlers `BeginGrab` and `EndGrab` copy a buffer without a lock: the picture is
torn when the buffer changed in between. `Start` may fail before or after the
events are created. The SDK is external: it holds an event signalled while it has
frames of the stream that were not read.

### HttpLink, HttpClient, HttpServer, HttpExchange, RequestReply

`HttpLink` has the TCP connections: in each direction a sequence of message
parts (line, headers, body). `HttpClient` is an `evhttp_connection` of
`evhttp_make_request`: `state`, its bufferevent (`fd`, `connecting`, `reading`,
`writing`, `out`), the queue, `EVHTTP_CON_CLOSEDETECT`. Its actions are the
callbacks as libevent calls them (`ConnectionMade`, `ConnectFails`,
`ConnectError`, `ClientWrite`, `ClientRead`, `ClientError`) and the user's calls;
`Connect`, `Fail`, `Done`, `Dispatch`, `Reset`, `ErrorCb` are the functions they
call. A `connect()` that fails at once calls the error callback inside
`evhttp_connection_connect`, which then fails that request and connects for the
next: `Outcomes` are the ways this recursion can end. A failed assertion
(`event_errx`, `EVUTIL_ASSERT`) sets `aborted`: `ClientWrite` tests those of
`evhttp_write_connectioncb`, `ClientRead` has the `event_errx` of `evhttp_read_cb`. `HttpServer` is the other end: an
accepted connection reads a request part by part, hands it to `_OnRequest`, writes
the reply and reads the next. `HttpExchange` joins the two and loses connections
at any step; errors and timeouts are the same event at the end that notices.

`RequestReply` is what the two promise together: a request is handled at most
once, its callback runs at most once, with the reply to this very request or
with an error, and an error says nothing about whether it was handled
(`ImplementsRequestReply`).

### MinHeap, EventLoop, EventApi

`MinHeap` is the array with the index every event keeps, which `erase` trusts; the
two loops that move a hole through it are recursive functions of the hole's place.
`EventLoop` has the three lists an event can be on and the loop with a step for
each phase (`Poll`, `Dispatch`, `Expire`, `ProcessActive`, `CallbackReturns`) and for
each way to end: `NoEvents`, `Broken` (on `event_break`, or on `event_gotterm`, which
the once-events of `event_base_loopexit` set, as `_OnRequestDone` asks for after
every request) and `DispatchFails`; `retval` is what it returned.
`event_add`, `event_del` and `event_active` work on the lists as a record, so that
a step of the loop calls them in the code's order. What a callback does is any
sequence of `EventAdd`, `EventDel` and `LoopExit`; `LoopBreak` may come at any time,
also too early. `EventApi` is what event.h promises a user who knows of no list:
callbacks come for a reason, at the right time, and never for an event that was
deleted or already called; to add an event again replaces its timeout, or clears it.
`call` is the last call the program made, so that the two agree on what was asked
for and an event the loop lost could not pass for one that was deleted; `now` is the
time a new timeout counts from, which the loop may have read a while ago.
`ImplementsEventApi` holds for programs that add no event without a timeout when it
has one (`DropsTimeouts` = FALSE), and fails for the others (section 6, 4).

### KinectTestMainFrame

The GUI thread's call stack, two deep: call 2 runs inside a `wxYield` of call 1,
and a `wxYield` of call 2 dispatches nothing, because wxWidgets refuses
recursive yields. `TestGrabber`, `CloseDevice`, `DeleteGrabber`, `StopSender`,
`DeleteSender`, `Create` are the pieces of `StopGrabbing` and `StartGrabbing` between two points
where something else may run. A call that goes on with a deleted grabber
crashes, works on free memory without harm, or works on the grabber that now
owns the memory (`Memory`). A sender that runs is told to end (`told`) and ends
when it does (`SenderEnds`), perhaps never: that is `KinectDataSender`'s matter, where
`StopEndsSender` fails. Using one that has ended, and so deleted itself, is a use of
freed memory again. Both backends are checked (`Backends`).

### VideoFrame

One depth picture on its way: `Grab` (sensor value to pixel), `Send` (header),
`Process` (size check, distance of the point). Pixels are three bytes computed
as the two grabbers compute them; all pixels of the picture are alike.

## 3. Runs

| run | bounds | shows |
|---|---|---|
| `sender` | 3 accepted frames | type; the GUI never blocks behind the network; the mailbox refinement (whole frames, once, in order); a sleeping sender is always woken by a frame and by Stop |
| `server` | 2 clients, 3 requests, `ClosingEndsWait` | type; main deletes nothing early once Stop found the base; every request ends; a Stop ends a loop that is blocked in its wait, on such a platform |
| `depth` | freenect 0..2047, SDK 0..40000, sides 1..2, `StructSize` 18; 3 frames detected | frames arrive; SDK distances are exact modulo 4096 mm; freenect values 9..64 only are clustered. Then: type; newest whole frame; results never go back; a waiting worker takes the frame; a busy one is joined |
| `grabber` | 3 frames of each kind | type; the buffer that is grabbed is newest and whole; no frame is left without an event; frames are shown; Stop returns |
| `mswgrabber` | 2 frames of each stream | type; no event is closed under the thread; a picture at rest is whole and newest; a frame that was read is shown |
| `mainframe` | 4 clicks, both backends | type; `m_Grabber` is NULL or alive whenever a handler may run; a sender nobody told to end is the one `m_DataSender` names; grabbers and devices have an owner, unless a click is handled inside a `wxYield` (or an event thread failed); with the same exceptions quitting leaves no device open and no event thread, and has told every sender to end; calls return |
| `http` | 3 requests, 2 connections | type; no assertion fails; a request handled late has failed before; the refinement; every request is answered, unless a connect attempt failed at once |
| `eventloop` | a persistent and a one-shot socket event, a loop exit, timeouts 0 and 1, 3 calls, clock 1..2 | type (lists, count and heap agree); the refinement; every caused event is called; no timeout that has passed waits for another turn; the loop returns only for the reason its result names, and does when there is one. `MCEventLoop` also checks `MinHeap` on every heap of up to six events |
| `sender_lostwakeup` | 1 frame | violated, see section 6 |
| `server_stop` | 1 client, 1 request, epoll | violated, see section 6 |
| `http_stuck` | 2 requests, 1 connection | violated, see section 6 |
| `eventloop_readd` | a one-shot socket event, a loop exit, 2 calls, `DropsTimeouts` | violated, see section 6 |

Why these bounds are enough to see the interesting cases: three frames give a
frame in the slot, one being sent and one refused at the door (sender), one in
the cloud, one in the vector and one dropped (detector), two buffers and a
picture that all differ (grabber). Two clients give a request in `_OnRequest`
while another socket is ready. Two frames per stream are enough to tear a
picture, to skip a frame and to have a newer one on the way. Three requests on
two connections give one in progress, one queued and one made in a callback, a
connection that is lost under them and a second one where the rest goes on while
the server is still reading from the first. Two socket events and an exit give an
event that deletes or re-adds another that is active in the same turn, one that is ready and timed out at once,
and an exit with others still active; three calls reach add, re-add and delete, and
with the tick of the clock a timeout that passes and is due again. (With clock 1..3, 634 120
states, the safety properties were checked too; the run keeps the size at which
liveness is quick.) Four clicks give a
complete start and stop with a nested pair, so that freed memory can belong to a
later grabber. In
`depth` the scaled `StructSize` puts sizes 15, 18 and 24 below, at and above
the limit, and 40000 goes past the 4096 mm where the pixel's top bit is lost.
`Word` is 1000 there: no picture of the program comes near 2^32, and the theorem
has the general statement.

Every run has `CHECK_DEADLOCK FALSE`: the program may stop, and may wait for a
user, a client or a frame for ever.

## 4. Fairness

* Threads are scheduled: weak fairness of each thread's own steps, and of the
  GUI thread going on with the call it is in. libevent's timeouts (50 s on the
  client's connections) end every request, so `DispatchReturns` and
  `OnRequestDone` are among them; the server sets no timeout and gets none.
* A thread that competes for a mutex gets it in the end (strong fairness of
  `LockFill` in the detector), and a server loop that keeps turning serves every
  socket that stays ready (strong fairness per client), because one wait returns
  all of them and `event_process_active` runs them before the next.
* evhttp's client runs only while `Send` runs the loop: its fairness holds while a
  request is queued or callbacks of a failed attempt are due. Every wait of a
  bufferevent has a timeout (50 s), so a step is always possible: `ClientError`
  and `ConnectFails` are the timeout when nothing else happens. The server's loop
  runs all the time, fair to each connection; it sets no timeout.
* The event loop is entered again when it has returned, its callbacks return, and
  the clock goes on to its bound. Its wait need not succeed. Sockets need not become ready, and the program
  need not call anything. The same in the SDK grabber: its waits end after 100
  and 200 ms, no frame has to come.
* Not fair: calls from the user, clicks, keys, clients, frames of the device,
  spurious wakeups, crashes, failing threads.

In the safety theorems fairness plays no part.

## 5. Proofs

All proofs are in `*_proofs` modules, about `Spec`, for every value of the
constants (the bounds included, which are any natural number). The invariants
the runs check are not inductive; each proof strengthens them to an `IInv`.

* **Sender** - `LockInv` (who holds `m_cs` follows from the two program
  counters), `SlotInv` and `HandedInv`. The argument: it is the flag
  `m_bDataPrepared`, not `m_cs`, that keeps the threads apart. From the test in
  `Woken` until `FinishSend` the flag stays set (or Stop has passed its own
  discard), so `SendKinectData` turns frames away and the slot holds the newest
  accepted frame; what was handed over is older. `Refinement` shows that every
  step is a step or a stutter of `FrameMailbox`.
* **Server** - `StatusInv` (Stopped only before the first and after the last step
  of `Execute`; the base pointer is set only between) and `FoundInv` (a Stop that
  found the base saw Execute running, so the poll waits for its end).
* **Detector** - `LockInv` and `CloudInv`: outside the critical section that
  rebuilds it the cloud is that of the newest frame, and the object vector is
  never newer than the cloud nor older than what a reader got.
* **Grabber** - `LockInv`, `LifeInv` (the event thread lives inside Start..Stop)
  and `BufferInv` (with `m_GotDepth` the current buffer holds the newest finished
  frame; swapping the index keeps the callback off the one being copied).
* **SDK grabber** - `LifeInv` (the thread lives between `Start` and the join, and
  the handles with it) and `QuietInv`: a buffer that is not being written and has
  no event pending is what its picture shows, or what the handler that is copying
  began with. This is what stands in for the missing lock.
* **evhttp** - `ClientInv` (which states have a socket, which have a request),
  `LinkInv` and `RequestInv`. The argument is a count: the parts of a request in
  the client's buffer, on the wire and in the server's hands are at most three,
  those of a reply at most two, there is no reply while a part of the request is
  left, and neither on an idle connection. So a callback always finds the request
  it is for, and a connection that watches for its end is idle. `SeqInv` adds the
  numbers of the requests, in every buffer of every connection, old ones included:
  a connection carries parts of one request at most, which no other carries and
  nobody handled; what is queued is newer than all that was ever sent; a request
  on a connection that was lost has failed, unless the connection object itself
  was freed; a reply on the way is that of the request at the head of the queue.
  From it follow that only failed requests are overtaken (`OnlyFailedAreOvertaken`)
  and that each step is a step or a stutter of `RequestReply` (`Refinement`).
* **Main frame** - `StackInv` (who called whom), `ClickInv` (grabbers made plus
  grabbers due never exceed clicks), `PointerInv`, `OwnerInv`, `DeviceInv`.
  `m_Grabber` is valid and senders are owned even with nested calls, because
  `wxDELETE` and the last lines of `StopGrabbing` run with nothing between them;
  the others need that no click was nested. An owned sender is one that was told
  to end or that `m_DataSender` names; that a told one ends is not claimed.
* **Video frame** - lemmas about `Size`, `IsOK`, `Decode` and the pixels, and
  `PathInv`: each value comes from the one before it.

* **Event loop** - first the heap (`PushKeepsHeap`, `EraseKeepsHeap`, `TopIsLeast`),
  for any number of events and any times. A shift is a recursive function of the
  hole's place; that such a function exists and unfolds to one move and the shift
  from the next place is `HolePathExists`, because each move goes to a place of
  smaller rank (a smaller place going up, a larger one going down). Then, instead of
  an induction, the least place from which a shift would not end in order is shown
  not to exist (`LeastNumber`): when the last event of the array is about to fill a
  hole (`Filling`), the array without it is in order, and each move keeps that, with
  every other event knowing its place. Erase goes up only when the last event is less
  than the hole's parent, and then everything below the hole is no less than it.
  Second the lists: a record of the base's lists that agree with each other and with
  the counter (`IsBase`) is one again after each list operator called as the code
  calls it - insert for an event that is not on the list, remove for one that is -
  and so after `AddUntil`, `DelInternal`, `PersistClosure` and the others, whatever
  lists they start from. `LoopInv` is the type invariant with `Stages` (the place in
  the loop says whether a callback runs and the queue is filled) and `Causes`, without
  which nothing holds after a callback: an active event is active for its socket and
  still watched, or for its timeout, which has passed, and then it is on no other list.
  It is `Causes` that keeps an event from being called for a timeout it was given
  anew, and that makes each step one of `EventApi` or none (`KeepsThePromise`, under the
  hypothesis `~DropsTimeouts`, without which the run `eventloop_readd` refutes it).
  `LoopKeepsItsOrder`, which the run checks, joins `NoTimeoutIsLeft` (`NoneIsLeft`:
  a turn that passes its timeouts leaves none that has passed) and
  `LoopEndsForAReason` (`EndsForAReason`: the result names the reason; that the
  counter at zero means no event is asked for follows from the lists agreeing).

Some theorems state properties no run lists: they hold for every value of the
constants, and the definitions stay in the modules for who wants to see them fail
when the code changes (`HandedFramesAreWhole`, `HandedOnceInOrder` and `AcceptedFrameIsKept` of the
sender, `StatusIsTrue` of the server, `CallbacksHaveBuffers` and the order of pictures in the
freenect grabber, the parts of `NothingIsOrphaned` and of
`DepthReachesCloud`).

Only model-checked is everything with `~>`, because liveness under fairness and
ENABLED are out of the prover's reach (`FrameForWaiterIsTaken`, `StopEndsWaiter`,
`RequestEnds`, `StopEndsBlockedLoop`, `FrameForWaiterIsDetected`,
`BusyWorkerIsJoined`, `DepthFrameIsShown`, `FrameIsShown`, `StopReturns`,
`CallsReturn`, `AnsweredUnlessHopeless`, `CausedEventIsCalled`, `LoopEndsInTime`).
Every other property of a passing run is a theorem.

Assumptions: those on the constants (each module's ASSUME: the bounds are natural
numbers, sets are what their comments say), and what section 7 says of memory and compilers.

## 6. Where the code does not do what it says

Four have a run that fails on one property (`PROJECT.json`, `findings`):

1. **Lost wakeup** (`KinectDataSender.cpp:48`, run `sender_lostwakeup`). The
   thread looks at `m_bDataPrepared` and then waits, and nothing makes the two
   atomic: `m_mutexSend` is not held by `SendKinectData`. A frame published in
   between stays in the slot, and every later one is refused.
2. **Server stop** (`KinectServer.cpp:113`, run `server_stop`). Three causes:
   `event_base_loopbreak` does not wake a blocked loop; the loop clears the flag
   when it starts, so an early break is forgotten; and a `Stop` before `Execute`
   finds no base.
3. **A connection that never connects** (`http.c:2210`, run `http_stuck`).
   `connect()` may fail at once; the error callback then runs inside
   `evhttp_connection_connect`, which sets `EVCON_CONNECTING` afterwards although
   no attempt is under way. Requests made from then on are queued and never called
   back, against event2/http.h:394. For the sender this means that each later
   `Send` finds a loop with no event, returns at once, and no frame gets
   through again.
4. **A timeout that is not cleared** (`event.c:2049`, run `eventloop_readd`).
   event2/event.h:919-921 says that `event_add()` "clears the old timeout if the
   timeout argument is NULL". `event_add_internal` touches the timeout only when it
   is given one: the event stays in the heap and is called when the old timeout
   passes. A persistent event keeps `ev_io_timeout` too, over `event_del` as well.
   Nothing in the program adds an event like this.

More in the models, with the definition that states it where there is one; put it
in a cfg to see it fail:

* **Lost stop** (`KinectDataSender.cpp:80`, `StopEndsSender`): the window of the lost
  wakeup swallows Stop's only broadcast.
* **Self-deletion** (`:12`, `SenderOutlivesItsCalls`): the detached thread may
  delete itself between `Stop` and `Delete`, or inside `Stop`.
* **Freed under the loop** (`:147`, `FreedOutsideDispatch`): `Stop` frees the
  connection while the sender thread dispatches events on it.
* **Server deleted under its thread** (`ServerMain.cpp:40`, `DeletedAfterThread`):
  `_status` is `Stopped` from the constructor on.
* **event_add on an active event** (`event.c:2032-2097`): an event that its own
  timeout made active, and that gets a new timeout, moves to the heap but is not
  inserted again, so its socket is no longer watched until the next call.
* **timeout_next** (`event.c`) subtracts the time the last turn cached, so a wait is
  longer by as much as the callbacks took; a persistent event with a timeout of
  zero is not added again.

Modelled without a property, as no document or test speaks about it: clicks
handled inside `wxYield` can stop or delete a grabber twice; a failed event thread
leaves the device open and in `DeviceHash`; torn colour pictures (freenect) and
torn pictures of every kind while frames come (SDK); `m_bConnected` set by a failed
attempt.

## 7. What is not modelled, and why

* Memory ordering: plain `bool`s and pointers are read and written atomically
  and in program order. On weaker machines there are more behaviours.
* **Most of libevent.** The repository carries some 60000 lines of it: evdns, OpenSSL
  and IOCP backends, rate limits, filters, RPC, tagging, HTTP parsing, evbuffer
  chains, the select, poll, epoll, kqueue and devpoll backends. The program reaches
  none of the first group, and of parsing and chains only the fact that a message
  arrives in parts or not. What it does run - connections, requests, the loop, its
  timeouts - is modelled.
* Of `http.c`: `evhttp_cancel_request`, chunked and close-delimited replies,
  `Expect`, `Connection: close`, virtual hosts, `retry_max` (0 here), the timed
  bodies of a request larger than one read. Replies that are not well formed: what
  `ClientRead` takes is a line and then headers, so `AssertionsHold` speaks of the
  connection's states and not of the parser. A request made inside an error callback
  of a `connect()` that failed at once.
* Of `event.c`: signals, common timeouts, deferred callbacks, several priorities,
  `timeout_correct` (only without a monotonic clock), `event_base_once` but for
  `event_base_loopexit` without a time.
* **ObjectDetector.** `LocateObject` is one sequential computation on floating-point
  SURF descriptors; the search is FLANN's (approximate by design), the homography
  OpenCV's. What is left is a ratio test. Two things are worth knowing: with fewer
  than two descriptors in an image `knnSearch` is asked for two neighbours that do
  not exist, and the naive search has no caller in the build CMake makes.
* **Data processors.** Their bookkeeping is sequential and is called from one thread;
  what matters about them, that the request handler waits for them and that main
  may delete them under it, is in `KinectServer`. Destroying one through a base
  class without a virtual destructor is undefined at once: nothing to explore.
* **PclSegmentation's geometry**: only that a result exists. The 2 m filter of
  `FindClusters` works on voxels; a voxel is taken for its points. A cluster
  without points is skipped in `m_objects` and not in `m_models`
  (`PclObjectDetector.cpp:73`), so printed names may shift.
* Pixels other than depth, JSON, painting, the device list, configuration.
* In the main frame: `StartGrabbing` calls `Run` through NULL when the sender
  cannot be created; a skeleton event handled inside or after `Stop` copies from
  NULL; a frame closed from inside a nested `wxYield`, which has no window left to
  click.
* In the SDK grabber: the events leak when `Start` fails after creating them (the
  outcome is in the model, no property speaks of it), and a depth stream that is
  always signalled starves the others, lowest index first: nothing promises that
  it does not.
* `ext_thread`'s `Join`, `Kill` and mutex wrappers, KinectHandlerThread,
  HttpHeader, find_obj.cpp: no caller, or no target. KinectHelper and
  SkeletonPainter forward and draw.

## 8. Plan

Order: the concurrency of the link first, then the server, the detector, the
grabbers and the main frame, then the data, then the library under the link.

1. `KinectDataSender` + `FrameMailbox` - done, refinement proved.
2. `KinectServer` - done, safety proved.
3. `PclObjectDetector` - done, safety proved.
4. `KinectGrabberFreenect`, `KinectTestMainFrame`, `KinectGrabberMSW` - done,
   safety proved.
5. `VideoFrame` - done, proved.
6. `HttpLink`, `HttpClient`, `HttpServer`, `HttpExchange` + `RequestReply` - done,
   types, assertions, order and refinement proved.
7. `MinHeap`, `EventLoop` + `EventApi` - done, the heap, safety and refinement proved.

What could follow: the end-to-end composition of sender, link and detector under
one abstract specification, and `evhttp_cancel_request` once the program uses it.

## 9. Running

`tlc -config X.cfg MC<module>` for a run (the cfg and module are in
`PROJECT.json`), `tlapm <module>_proofs.tla` for the proofs.
