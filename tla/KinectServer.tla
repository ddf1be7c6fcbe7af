---------------------------- MODULE KinectServer ----------------------------
(***************************************************************************)
(* The server process: main() of src/KinectServer/ServerMain.cpp, the      *)
(* thread that runs KinectServer::Execute, libevent's loop and HTTP server *)
(* as the two use them, and clients that connect, ask and leave.           *)
(*                                                                         *)
(* main and the thread share _status, _evbase and _evhttp without a lock,  *)
(* and libevent was never told about threads (no evthread_use call): its     *)
(* calls do not exclude each other and a blocked loop is not notified.     *)
(***************************************************************************)
EXTENDS Naturals, FiniteSets

CONSTANTS
  Clients,          \* HTTP clients
  MaxRequests,      \* bound: requests sent to the server
  ClosingEndsWait   \* closing a socket ends a wait on it: select on Windows
                    \* does, epoll on Linux does not

ASSUME ConstantsAssumption == MaxRequests \in Nat /\ ClosingEndsWait \in BOOLEAN

\* The Kinect-Data header, by what _OnRequest does with it.
Frames  == {"color", "depth", "skeleton"}
Packets == Frames \cup {"init", "unsupported"}

VARIABLES
  mpc,        \* where main() is
  tpc,        \* where the server thread is in Execute and event_base_loop
  status,     \* _status
  evbase,     \* the pointer _evbase ("null" or "set")
  baseAlive,  \* the event_base exists
  break,      \* its event_break flag
  evhttp,     \* the pointer _evhttp
  httpAlive,  \* the evhttp object exists
  bound,      \* its listening socket is open
  closed,     \* a socket was closed under the wait the thread is blocked in
  conn,       \* per client: its connection
  packet,     \* per client: what its request carries
  current,    \* the client whose request is in _OnRequest, as a set
  objects,    \* which of the objects main() allocated still exist
  crashed,    \* undefined behaviour has killed the process
  found,      \* history: Stop found an event base
  sent        \* history: number of requests sent

vars == <<mpc, tpc, status, evbase, baseAlive, break, evhttp, httpAlive, bound,
          closed, conn, packet, current, objects, crashed, found, sent>>

base    == <<evbase, baseAlive>>
server  == <<evhttp, httpAlive, bound>>
clients == <<conn, packet, sent>>

Constructed_BaseNotSet ==
  status = "Stopped" /\ evbase = "garbage" /\ evhttp = "null"

Constructed == status = "Stopped" /\ evbase = "null" /\ evhttp = "null"

Init ==
  /\ Constructed
  /\ mpc = "main" /\ tpc = "none"
  /\ baseAlive = FALSE /\ break = FALSE
  /\ httpAlive = FALSE /\ bound = FALSE /\ closed = FALSE
  /\ conn = [c \in Clients |-> "away"]
  /\ packet = [c \in Clients |-> "init"]
  /\ current = {}
  /\ objects = {"server", "processor"}
  /\ crashed = FALSE /\ found = FALSE /\ sent = 0

-----------------------------------------------------------------------------
(* main()                                                                  *)

StartThread ==
  /\ mpc = "main"
  /\ mpc' = "getchar" /\ tpc' = "begin"
  /\ UNCHANGED <<status, base, break, server, closed, clients, current, objects,
                 crashed, found>>

\* Stop(), called when a key was pressed: evhttp_free closes the listening
\* socket and every connection, with the requests that are on them.
Stop ==
  /\ mpc = "getchar"
  /\ found' = (evbase = "set")
  /\ \/ evbase = "null" /\ mpc' = "poll"
        /\ UNCHANGED <<httpAlive, bound, closed, conn>>
     \/ evbase = "set" /\ evhttp = "null" /\ mpc' = "break"
        /\ UNCHANGED <<httpAlive, bound, closed, conn>>
     \/ evbase = "set" /\ evhttp = "set" /\ mpc' = "forget"
        /\ httpAlive' = FALSE /\ bound' = FALSE
        /\ closed' = (tpc = "blocked")
        /\ conn' = [c \in Clients |-> "away"]
  /\ UNCHANGED <<tpc, status, base, break, evhttp, packet, current, objects,
                 crashed, sent>>

ForgetHttp ==
  /\ mpc = "forget"
  /\ evhttp' = "null" /\ mpc' = "break"
  /\ UNCHANGED <<tpc, status, base, break, httpAlive, bound, closed, clients,
                 current, objects, crashed, found>>

\* event_base_loopbreak sets the flag; without thread support it wakes nobody.
LoopBreak ==
  /\ mpc = "break"
  /\ break' = (break \/ evbase = "set")
  /\ mpc' = "poll"
  /\ UNCHANGED <<tpc, status, base, server, closed, clients, current, objects,
                 crashed, found>>

PollStatus ==
  /\ mpc = "poll" /\ status = "Stopped"
  /\ mpc' = "delete"
  /\ UNCHANGED <<tpc, status, base, break, server, closed, clients, current,
                 objects, crashed, found>>

DeleteServer ==
  /\ mpc = "delete" /\ "server" \in objects
  /\ objects' = objects \ {"server"}
  /\ UNCHANGED <<mpc, tpc, status, base, break, server, closed, clients, current,
                 crashed, found>>

\* delete dataProc; return 0 ends the process, its sockets and its threads.
DeleteProcessorAndReturn ==
  /\ mpc = "delete" /\ "server" \notin objects
  /\ objects' = {} /\ mpc' = "exited"
  /\ conn' = [c \in Clients |-> "away"] /\ bound' = FALSE
  /\ UNCHANGED <<tpc, status, base, break, evhttp, httpAlive, closed, packet,
                 current, crashed, found, sent>>

-----------------------------------------------------------------------------
(* The server thread: Execute, and event_base_loop inside it.              *)

Begin_StatusNotSet ==
  /\ tpc = "begin"
  /\ tpc' = "newbase"
  /\ UNCHANGED <<mpc, status, base, break, server, closed, clients, current,
                 objects, crashed, found>>

Begin ==
  /\ tpc = "begin"
  /\ status' = "Running" /\ tpc' = "newbase"
  /\ UNCHANGED <<mpc, base, break, server, closed, clients, current, objects,
                 crashed, found>>

NewBase ==
  /\ tpc = "newbase"
  /\ \/ evbase' = "set" /\ baseAlive' = TRUE /\ tpc' = "newhttp"
     \/ tpc' = "finish" /\ UNCHANGED base
  /\ UNCHANGED <<mpc, status, break, server, closed, clients, current, objects,
                 crashed, found>>

NewHttp ==
  /\ tpc = "newhttp"
  /\ \/ evhttp' = "set" /\ httpAlive' = TRUE /\ tpc' = "bind"
     \/ tpc' = "finish" /\ UNCHANGED <<evhttp, httpAlive>>
  /\ UNCHANGED <<mpc, status, base, break, bound, closed, clients, current,
                 objects, crashed, found>>

\* evhttp_bind_socket; when it fails the evhttp object is left behind.
Bind ==
  /\ tpc = "bind" /\ evhttp = "set"
  /\ \/ bound' = httpAlive /\ tpc' = "setcb"
     \/ tpc' = "finish" /\ UNCHANGED bound
  /\ UNCHANGED <<mpc, status, base, break, evhttp, httpAlive, closed, clients,
                 current, objects, crashed, found>>

\* evhttp_set_gencb, which reads _evhttp once more.
SetCallback ==
  /\ tpc = "setcb" /\ evhttp = "set"
  /\ tpc' = "dispatch"
  /\ UNCHANGED <<mpc, status, base, break, server, closed, clients, current,
                 objects, crashed, found>>

\* event_base_loop begins by clearing event_break, whoever set it.
Dispatch ==
  /\ tpc = "dispatch"
  /\ break' = FALSE /\ tpc' = "loop"
  /\ UNCHANGED <<mpc, status, base, server, closed, clients, current, objects,
                 crashed, found>>

\* One turn of the loop: leave on event_break or when no event is left.
HasEvents == bound \/ \E c \in Clients : conn[c] # "away"

LoopTurn ==
  /\ tpc = "loop"
  /\ tpc' = IF break \/ ~HasEvents THEN "finish" ELSE "blocked"
  /\ closed' = FALSE
  /\ UNCHANGED <<mpc, status, base, break, server, clients, current, objects,
                 crashed, found>>

Accept(c) ==
  /\ tpc = "blocked" /\ conn[c] = "connecting"
  /\ conn' = [conn EXCEPT ![c] = "open"] /\ tpc' = "loop"
  /\ UNCHANGED <<mpc, status, base, break, server, closed, packet, current,
                 objects, crashed, found, sent>>

Hangup(c) ==
  /\ tpc = "blocked" /\ conn[c] = "left"
  /\ conn' = [conn EXCEPT ![c] = "away"] /\ tpc' = "loop"
  /\ UNCHANGED <<mpc, status, base, break, server, closed, packet, current,
                 objects, crashed, found, sent>>

OnRequest_UnsupportedNotAnswered(c) ==
  /\ tpc = "blocked" /\ conn[c] = "asking"
  /\ current' = IF packet[c] = "unsupported" THEN {} ELSE {c}
  /\ tpc' = CASE packet[c] \in Frames -> "process"
              [] packet[c] = "init" -> "reply"
              [] OTHER -> "loop"
  /\ UNCHANGED <<mpc, status, base, break, server, closed, clients, objects,
                 crashed, found>>

\* _OnRequest up to the call of the data processor, whose result is ignored.
OnRequest(c) ==
  /\ tpc = "blocked" /\ conn[c] = "asking"
  /\ current' = {c}
  /\ tpc' = IF packet[c] \in Frames THEN "process" ELSE "reply"
  /\ UNCHANGED <<mpc, status, base, break, server, closed, clients, objects,
                 crashed, found>>

Processed ==
  /\ tpc = "process"
  /\ tpc' = "reply"
  /\ UNCHANGED <<mpc, status, base, break, server, closed, clients, current,
                 objects, crashed, found>>

\* evhttp_send_reply(HTTP_OK), for every packet type, known or not; the
\* connection may be gone by now.
SendReply ==
  /\ tpc = "reply"
  /\ conn' = [c \in Clients |-> IF c \in current /\ conn[c] = "asking"
                                 THEN "open" ELSE conn[c]]
  /\ current' = {} /\ tpc' = "loop"
  /\ UNCHANGED <<mpc, status, base, break, server, closed, packet, objects,
                 crashed, found, sent>>

\* The wait fails because a socket it was given is closed: the loop returns -1.
WaitFails ==
  /\ tpc = "blocked" /\ closed /\ ClosingEndsWait
  /\ tpc' = "finish"
  /\ UNCHANGED <<mpc, status, base, break, server, closed, clients, current,
                 objects, crashed, found>>

FreeBase ==
  /\ tpc = "finish"
  /\ IF evbase = "set" THEN baseAlive' = FALSE /\ tpc' = "forget"
                       ELSE tpc' = "stopped" /\ UNCHANGED baseAlive
  /\ UNCHANGED <<mpc, status, evbase, break, server, closed, clients, current,
                 objects, crashed, found>>

ForgetBase ==
  /\ tpc = "forget"
  /\ evbase' = "null" /\ tpc' = "stopped"
  /\ UNCHANGED <<mpc, status, baseAlive, break, server, closed, clients, current,
                 objects, crashed, found>>

SetStopped_StatusStays ==
  /\ tpc = "stopped"
  /\ tpc' = "done"
  /\ UNCHANGED <<mpc, status, base, break, server, closed, clients, current,
                 objects, crashed, found>>

SetStopped ==
  /\ tpc = "stopped"
  /\ status' = "Stopped" /\ tpc' = "done"
  /\ UNCHANGED <<mpc, base, break, server, closed, clients, current, objects,
                 crashed, found>>

-----------------------------------------------------------------------------
(* Clients (KinectDataSender, or anything else that speaks HTTP).          *)

Connect(c) ==
  /\ bound /\ conn[c] = "away"
  /\ conn' = [conn EXCEPT ![c] = "connecting"]
  /\ UNCHANGED <<mpc, tpc, status, base, break, server, closed, packet, current,
                 objects, crashed, found, sent>>

Ask(c, p) ==
  /\ conn[c] = "open" /\ sent < MaxRequests
  /\ conn' = [conn EXCEPT ![c] = "asking"]
  /\ packet' = [packet EXCEPT ![c] = p]
  /\ sent' = sent + 1
  /\ UNCHANGED <<mpc, tpc, status, base, break, server, closed, current, objects,
                 crashed, found>>

\* Closes its connection, or gives up on the answer.
Leave(c) ==
  /\ conn[c] \in {"connecting", "open", "asking"}
  /\ conn' = [conn EXCEPT ![c] = "left"]
  /\ UNCHANGED <<mpc, tpc, status, base, break, server, closed, packet, current,
                 objects, crashed, found, sent>>

-----------------------------------------------------------------------------
(* Undefined behaviour that ends the process; going on is the other outcome. *)

\* Stop frees the HTTP server inside the thread's own libevent call, or either
\* call of Stop reaches a base that was freed.
MainCrash ==
  /\ \/ mpc = "getchar" /\ evbase = "set" /\ evhttp = "set"
        /\ tpc \in {"bind", "setcb", "loop", "process", "reply"}
     \/ mpc \in {"getchar", "break"} /\ evbase = "set" /\ ~baseAlive
  /\ crashed' = TRUE
  /\ UNCHANGED <<mpc, tpc, status, base, break, server, closed, clients, current,
                 objects, found>>

\* The thread uses a deleted server or processor, an evhttp that Stop has freed
\* or nulled, or answers a request that Stop has freed.
ThreadCrash ==
  /\ \/ "server" \notin objects /\ tpc \notin {"none", "done"}
     \/ tpc \in {"bind", "setcb"} /\ ~(evhttp = "set" /\ httpAlive)
     \/ tpc = "reply" /\ \E c \in current : conn[c] = "away"
  /\ crashed' = TRUE
  /\ UNCHANGED <<mpc, tpc, status, base, break, server, closed, clients, current,
                 objects, found>>

-----------------------------------------------------------------------------
Running == ~crashed /\ mpc # "exited"

MainContinues == ForgetHttp \/ LoopBreak \/ PollStatus \/ DeleteServer
                 \/ DeleteProcessorAndReturn

ThreadStep == \/ Begin \/ NewBase \/ NewHttp \/ Bind \/ SetCallback \/ Dispatch
              \/ LoopTurn \/ Processed \/ SendReply \/ WaitFails
              \/ FreeBase \/ ForgetBase \/ SetStopped
              \/ tpc \in {"bind", "setcb"} /\ ThreadCrash

LoopEvent(c) == Accept(c) \/ Hangup(c) \/ OnRequest(c)

ClientStep == \E c \in Clients : \/ Connect(c) \/ Leave(c)
                                 \/ \E p \in Packets : Ask(c, p)

Next == Running /\ (\/ StartThread \/ Stop \/ MainContinues \/ MainCrash
                    \/ ThreadStep \/ ThreadCrash
                    \/ \E c \in Clients : LoopEvent(c)
                    \/ ClientStep)

\* Both threads are scheduled.  A loop that keeps turning serves every socket
\* that stays ready: one wait returns them all and event_process_active runs
\* them before the next.  No key has to be pressed, no client has to act.
Fairness == /\ WF_vars(Running /\ MainContinues)
            /\ WF_vars(Running /\ ThreadStep)
            /\ \A c \in Clients : SF_vars(Running /\ LoopEvent(c))

Spec     == Init /\ [][Next]_vars
FairSpec == Spec /\ Fairness

-----------------------------------------------------------------------------
FlagsOK ==
  /\ baseAlive \in BOOLEAN /\ break \in BOOLEAN /\ httpAlive \in BOOLEAN
  /\ bound \in BOOLEAN /\ closed \in BOOLEAN
  /\ crashed \in BOOLEAN /\ found \in BOOLEAN

TypeOK ==
  /\ FlagsOK
  /\ mpc \in {"main", "getchar", "forget", "break", "poll", "delete", "exited"}
  /\ tpc \in {"none", "begin", "newbase", "newhttp", "bind", "setcb", "dispatch",
              "loop", "blocked", "process", "reply", "finish", "forget", "stopped", "done"}
  /\ status \in {"Running", "Stopped"}
  /\ evbase \in {"null", "set"} /\ evhttp \in {"null", "set"}
  /\ conn \in [Clients -> {"away", "connecting", "open", "asking", "left"}]
  /\ packet \in [Clients -> Packets]
  /\ current \subseteq Clients
  /\ objects \subseteq {"server", "processor"}
  /\ sent \in 0..MaxRequests

\* main() polls _status instead of joining the thread.  That is enough once
\* Stop has found an event base: the objects go only after Execute has ended
\* (ServerMain.cpp:35-41, KinectServer.cpp:31, 49).
FoundBaseIsWaitedFor ==
  found /\ (mpc \in {"delete", "exited"} \/ objects # {"server", "processor"})
    => tpc = "done"

\* GetStatus tells the truth: Running covers everything between the first and
\* the last step of Execute, the release of the event base included.
StoppedMeansOutside ==
  status = "Stopped" => tpc \in {"none", "begin", "done"}

\* Every request is answered or its connection closed, whatever it carries.
RequestEnds == \A c \in Clients : conn[c] = "asking" ~> (conn[c] # "asking" \/ crashed)

\* A loop that is told to break while it is not blocked ends.
BreakEndsTurn ==
  (break /\ tpc \in {"loop", "process", "reply"}) ~> (status = "Stopped" \/ crashed)

\* Where closing a socket ends the wait on it (Windows), a Stop that finds the
\* loop blocked ends the server and then the program.
StopEndsBlockedLoop ==
  (mpc = "forget" /\ tpc = "blocked") ~> (mpc = "exited" \/ crashed)

-----------------------------------------------------------------------------
(* What ServerMain.cpp relies on and the code does not keep.               *)

\* main() waits until the server has stopped (ServerMain.cpp:36) and the thread
\* has an exit condition (ext_thread.h:60-62).  Violated: see the README.
StopLeadsToStopped == mpc = "poll" ~> (status = "Stopped" \/ crashed)

\* delete server comes after the thread has ended (ServerMain.cpp:36-40).
\* Violated: before Execute has run, _status is Stopped as well.
DeletedAfterThread == "server" \notin objects => tpc = "done"
=============================================================================
