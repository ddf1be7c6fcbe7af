----------------------------- MODULE HttpClient -----------------------------
(***************************************************************************)
(* An outgoing evhttp_connection of src/libevent/http.c on its bufferevent *)
(* (bufferevent_sock.c), as KinectDataSender uses one: requests are queued *)
(* on it, the first is sent over a TCP connection that is made when it is  *)
(* needed and kept afterwards, and each request's callback tells how it    *)
(* ended.                                                                  *)
(*                                                                         *)
(* One thread makes the requests and runs the event loop, so a handler is  *)
(* one step, with every call it makes.  An exception is the loop that runs *)
(* the callbacks of several requests, which may make requests themselves.  *)
(* A failed EVUTIL_ASSERT or event_errx ends the process.  The program     *)
(* never calls evhttp_connection_set_retries, so retry_max is 0 and        *)
(* evhttp_connection_retry never runs.                                     *)
(***************************************************************************)
EXTENDS HttpLink

VARIABLES
  state,        \* evcon->state, or "freed"
  fd,           \* the connection of evcon->fd, 0 when there is none yet
  connecting,   \* a connect() is under way: the bufferevent's `connecting'
  reading,      \* EV_READ is enabled
  writing,      \* EV_WRITE is enabled and there is output
  out,          \* parts in the bufferevent's output buffer
  response,     \* request whose reply's status line was read, 0 for none
  closedetect,  \* EVHTTP_CON_CLOSEDETECT
  queue,        \* evcon->requests
  failing,      \* the copy of it whose callbacks evhttp_connection_cb_cleanup runs
  made,         \* history: evhttp_make_request calls, numbered from 1
  answer,       \* history: how each request's callback was called
  replyOf,      \* history: the request whose reply it was called with
  hopeless,     \* history: a connect attempt failed before it was under way
  aborted       \* an assertion has failed

bev     == <<fd, connecting, reading, writing, out, response>>
answers == <<answer, replyOf>>
client  == <<state, bev, closedetect, queue, failing, made, answers, hopeless,
             aborted>>

States == {"disconnected", "connecting", "idle", "writing", "firstline", "headers",
           "freed"}

evhttp_connected == state \notin {"disconnected", "connecting"}

ClientInit ==
  /\ state = "disconnected" /\ fd = 0 /\ connecting = FALSE
  /\ reading = FALSE /\ writing = FALSE /\ out = <<>> /\ response = 0
  /\ closedetect = FALSE /\ queue = <<>> /\ failing = <<>>
  /\ made = 0 /\ answer = [r \in Requests |-> "none"]
  /\ replyOf = [r \in Requests |-> 0] /\ hopeless = FALSE /\ aborted = FALSE

-----------------------------------------------------------------------------
(* What the handlers below call.  lost: requests whose callback gets NULL. *)

Answered(rs, how) == [r \in Requests |-> IF r \in rs THEN how ELSE answer[r]]

CloseSocket_KeepsOutput ==
  /\ fd' = 0 /\ reading' = FALSE /\ writing' = FALSE /\ out' = out /\ response' = 0

\* evhttp_connection_reset closes the socket and empties both buffers; the flag
\* EVHTTP_CON_CLOSEDETECT is left as it is.
CloseSocket ==
  /\ fd' = 0 /\ reading' = FALSE /\ writing' = FALSE /\ out' = <<>> /\ response' = 0

Reset == CloseSocket /\ state' = "disconnected" /\ connecting' = FALSE

\* evhttp_connection_connect on the queue q.  connect() may fail at once: the
\* error callback then fails the first request and connects for the next, k of
\* them in all, before the outer call sets EVCON_CONNECTING.  ok: in the end an
\* attempt is under way; it may also be that there is no socket to connect.
Connect(q, lost, k, ok) ==
  /\ CloseSocket
  /\ connecting' = ok
  /\ state' = IF ok \/ k > 0 THEN "connecting" ELSE "disconnected"
  /\ queue' = SubSeq(q, k + 1, Len(q))
  /\ answer' = Answered(lost \cup {q[i] : i \in 1..k}, "error")
  /\ hopeless' = (hopeless \/ ~ok)

Outcomes(q) ==
  {o \in (0..Len(q)) \X BOOLEAN :
     /\ (o[2] => o[1] < Len(q))
     /\ (o[1] > 0 => ~closedetect)}

Abort == /\ aborted' = TRUE
         /\ UNCHANGED <<state, bev, closedetect, queue, failing, made, answers, hopeless>>

Dispatch_KeepsDetectClose(r) ==
  /\ closedetect' = closedetect /\ reading' = FALSE
  /\ state' = "writing" /\ writing' = TRUE /\ out' = out \o RequestParts(r)

\* evhttp_request_dispatch: the connection stops reading while it writes.
Dispatch(r) ==
  /\ closedetect' = FALSE /\ reading' = FALSE
  /\ state' = "writing" /\ writing' = TRUE /\ out' = out \o RequestParts(r)

\* evhttp_connection_fail: the next request in the queue gets a new connection.
Fail ==
  IF queue = <<>> THEN Abort
  ELSE LET lost == {Head(queue)}  q == Tail(queue) IN
       /\ UNCHANGED <<closedetect, failing, made, replyOf, aborted>>
       /\ \/ /\ q = <<>> /\ Reset
             /\ queue' = q /\ answer' = Answered(lost, "error") /\ UNCHANGED hopeless
          \/ q # <<>> /\ \E o \in Outcomes(q) : Connect(q, lost, o[1], o[2])

\* evhttp_error_cb, outside EVCON_CONNECTING: a read error of a connection in close
\* detection resets it, any other error fails the request in progress.
ErrorCb ==
  IF ~closedetect THEN Fail
  ELSE IF state # "idle" THEN Abort
  ELSE /\ Reset /\ closedetect' = FALSE
       /\ UNCHANGED <<queue, failing, made, answers, hopeless, aborted>>

-----------------------------------------------------------------------------
(* Calls of the user                                                       *)

Usable == state # "freed" /\ ~aborted

Enqueue_AtHead(q, r) == <<r>> \o q

Enqueue(q, r) == Append(q, r)

\* evhttp_make_request, from the user's thread or from a callback.
MakeRequest ==
  /\ Usable /\ made < MaxRequests
  /\ made' = made + 1
  /\ UNCHANGED <<failing, replyOf, link>>
  /\ LET r == made + 1  q == Enqueue(queue, r) IN
     \/ /\ state = "disconnected"
        /\ \E o \in Outcomes(q) \ {<<0, FALSE>>} : Connect(q, {}, o[1], o[2])
        /\ UNCHANGED <<closedetect, aborted>>
     \/ /\ state = "disconnected"              \* no socket: -1 is returned
        /\ Reset /\ answer' = Answered({r}, "refused") /\ hopeless' = TRUE
        /\ UNCHANGED <<closedetect, queue, aborted>>
     \/ /\ state = "disconnected" /\ closedetect      \* evhttp_error_cb asserts that it is idle
        /\ aborted' = TRUE
        /\ UNCHANGED <<state, bev, closedetect, queue, answer, hopeless>>
     \/ /\ state = "connecting" \/ (evhttp_connected /\ queue # <<>>)
        /\ queue' = q
        /\ UNCHANGED <<state, bev, closedetect, answer, hopeless, aborted>>
     \/ /\ evhttp_connected /\ queue = <<>>
        /\ IF state = "idle" THEN Dispatch(r) /\ UNCHANGED <<fd, connecting, response, aborted>>
                             ELSE aborted' = TRUE /\ UNCHANGED <<state, bev, closedetect>>
        /\ queue' = q /\ UNCHANGED <<answer, hopeless>>

\* evhttp_connection_free: requests are freed, their callbacks do not run.
FreeConnection ==
  /\ Usable /\ failing = <<>>
  /\ CloseSocket /\ state' = "freed" /\ connecting' = FALSE
  /\ queue' = <<>>
  /\ UNCHANGED <<closedetect, failing, made, answers, hopeless, aborted, link>>

-----------------------------------------------------------------------------
(* Events while connecting                                                 *)

InLoop == Usable /\ failing = <<>>

\* evhttp_connection_cb with BEV_EVENT_CONNECTED.
ConnectionMade ==
  /\ InLoop /\ connecting /\ opened < MaxConnections
  /\ opened' = opened + 1 /\ fd' = opened + 1 /\ connecting' = FALSE
  /\ IF queue = <<>> THEN state' = "idle" /\ UNCHANGED <<reading, writing, out, closedetect>>
                     ELSE Dispatch(Head(queue))
  /\ UNCHANGED <<up, down, response, queue, failing, made, answers, hopeless, aborted>>

\* evhttp_connection_cb_cleanup, after a refusal or a timeout: the queue is copied.
ConnectFails ==
  /\ InLoop /\ connecting
  /\ Reset /\ queue' = <<>> /\ failing' = queue
  /\ UNCHANGED <<closedetect, made, answers, hopeless, aborted, link>>

\* Its loop over the copy: the callbacks get a request without a reply, and may
\* make requests on the connection.
CleanupCallback ==
  /\ Usable /\ failing # <<>>
  /\ answer' = Answered({Head(failing)}, "unconnected") /\ failing' = Tail(failing)
  /\ UNCHANGED <<state, bev, closedetect, queue, made, replyOf, hopeless, aborted, link>>

\* Any other error of the attempt: evhttp_error_cb.
ConnectError ==
  /\ InLoop /\ connecting
  /\ UNCHANGED link
  /\ IF closedetect THEN Abort ELSE Fail

-----------------------------------------------------------------------------
(* Events of an established connection                                     *)

\* bufferevent_writecb: what the socket takes; when all is written
\* evhttp_write_connectioncb, which asserts that it writes for a request, starts to
\* read the reply.
ClientWrite ==
  /\ InLoop /\ fd # 0 /\ writing
  /\ \E n \in 1..Len(out) :
       /\ up' = [up EXCEPT ![fd] = @ \o SubSeq(out, 1, n)]
       /\ out' = SubSeq(out, n + 1, Len(out))
       /\ \/ n < Len(out) /\ UNCHANGED <<state, writing, reading, aborted>>
          \/ /\ n = Len(out) /\ queue # <<>> /\ state = "writing"
             /\ state' = "firstline" /\ writing' = FALSE /\ reading' = TRUE /\ UNCHANGED aborted
          \/ /\ n = Len(out) /\ ~(queue # <<>> /\ state = "writing")
             /\ aborted' = TRUE /\ UNCHANGED <<state, writing, reading>>
  /\ UNCHANGED <<opened, down, fd, connecting, response, closedetect, queue, failing,
                 made, answers, hopeless>>

\* evhttp_connection_done: the connection goes to the next request or is watched.
Done ==
  LET r == Head(queue)  q == Tail(queue) IN
  /\ queue' = q
  /\ answer' = Answered({r}, "reply") /\ replyOf' = [replyOf EXCEPT ![r] = response]
  /\ response' = 0
  /\ IF q # <<>> THEN Dispatch(Head(q))
     ELSE state' = "idle" /\ closedetect' = TRUE /\ reading' = TRUE /\ UNCHANGED <<writing, out>>
  /\ UNCHANGED <<fd, connecting, failing, made, hopeless, aborted>>

\* bufferevent_readcb and evhttp_read_cb: the status line, the headers, and with
\* them the end of the reply; bytes nobody asked for reset an idle connection and
\* are an error in the states that do not read.
ClientRead ==
  /\ InLoop /\ fd # 0 /\ reading /\ down[fd] # <<>>
  /\ down' = [down EXCEPT ![fd] = Tail(@)]
  /\ UNCHANGED <<opened, up>>
  /\ LET part == Head(down[fd]) IN
     \/ /\ state = "firstline" /\ part[2] = "line"
        /\ state' = "headers" /\ response' = part[1]
        /\ UNCHANGED <<fd, connecting, reading, writing, out, closedetect, queue, failing,
                       made, answers, hopeless, aborted>>
     \/ state = "headers" /\ part[2] = "headers" /\ Done
     \/ /\ state = "idle" /\ Reset
        /\ UNCHANGED <<closedetect, queue, failing, made, answers, hopeless, aborted>>
     \/ state \in {"disconnected", "connecting", "writing"} /\ Abort

ClientError_OnlyWriting ==
  /\ InLoop /\ fd # 0 /\ writing
  /\ UNCHANGED link
  /\ ErrorCb

\* Timeout, end of file or error while reading or writing.
ClientError ==
  /\ InLoop /\ fd # 0 /\ (reading \/ writing)
  /\ UNCHANGED link
  /\ ErrorCb

ClientEvent == ConnectionMade \/ ConnectFails \/ ConnectError
               \/ ClientWrite \/ ClientRead \/ ClientError

ClientNext == MakeRequest \/ FreeConnection \/ CleanupCallback \/ ClientEvent

\* KinectDataSender::Send runs the loop until its request's callback has run, and
\* nobody runs it between requests.  A loop that has nothing else to do waits for
\* the timeout of what it does.
ClientFairness == WF_<<client, link>>(CleanupCallback \/ (queue # <<>> /\ ClientEvent))

FlagsOK ==
  /\ connecting \in BOOLEAN /\ reading \in BOOLEAN /\ writing \in BOOLEAN
  /\ closedetect \in BOOLEAN /\ hopeless \in BOOLEAN /\ aborted \in BOOLEAN

ClientTypeOK ==
  /\ state \in States /\ fd \in 0..MaxConnections /\ FlagsOK
  /\ out \in Seq(Parts) /\ response \in 0..MaxRequests
  /\ queue \in Seq(Requests) /\ failing \in Seq(Requests)
  /\ made \in 0..MaxRequests
  /\ answer \in [Requests -> {"none", "error", "unconnected", "refused", "reply"}]
  /\ replyOf \in [Requests -> 0..MaxRequests]
=============================================================================
