---------------------------- MODULE HttpExchange ----------------------------
(***************************************************************************)
(* evhttp's client and server joined: KinectDataSender's requests over the *)
(* connections of HttpLink to KinectServer.                                *)
(***************************************************************************)
EXTENDS HttpClient, HttpServer, FiniteSets

vars == <<client, server, link>>

Init == LinkInit /\ ClientInit /\ ServerInit

\* The client has one socket: every other connection it has closed.
ClosedByClient(c) == c <= opened /\ c # fd

\* All that was sent is read before the end of the file.
ServerEof(c) == Live(c) /\ ClosedByClient(c) /\ up[c] = <<>> /\ Drop(c)

ServerStep(c) == Accept(c) \/ ServerRead(c) \/ ServerWrite(c) \/ ServerEof(c)

Next ==
  \/ ClientNext /\ UNCHANGED server
  \/ \E c \in Connections : (ServerStep(c) \/ ServerError(c)) /\ UNCHANGED client

\* Execute runs the server's loop all the time and _OnRequest returns.
Fairness == ClientFairness
            /\ \A c \in Connections : WF_<<server, link>>(ServerStep(c))

Spec     == Init /\ [][Next]_vars
FairSpec == Spec /\ Fairness

-----------------------------------------------------------------------------
\* Types of the joined state.
TypeOK == LinkTypeOK /\ ClientTypeOK /\ ServerTypeOK

\* No EVUTIL_ASSERT and no event_errx about the state of the outgoing connection is
\* reached: a failure and a finished write find the request they are for (http.c:704,
\* 1110), only a connection that writes finishes writing (1112) and only one that
\* reads or is idle is read (1093), one that closes under detection is idle (1368),
\* and so is one that is given a request (1207).
AssertionsHold == ~aborted

\* A request is handled after a later one only when its own callback has already
\* reported that it failed.
OvertakenHasFailed ==
  \A i, j \in DOMAIN handled :
    (i < j /\ handled[i] > handled[j]) => answer[handled[j]] = "error"

\* evhttp as a whole: at most one handling and one callback for each request, and
\* the reply the callback gets is the reply to its request (http.c:771, 698, 1282).
Promise == INSTANCE RequestReply
             WITH times <- [r \in Requests |-> Cardinality({i \in DOMAIN handled : handled[i] = r})]
ImplementsRequestReply == Promise!Spec

\* "The callback is executed when the request completed or an error occurred"
\* (event2/http.h:392), unless the user frees the connection.
RequestIsAnswered ==
  \A r \in Requests : made >= r ~> answer[r] # "none" \/ state = "freed" \/ aborted

\* The same, for a connection none of whose attempts failed before it was under
\* way: every error, refusal and timeout ends in a callback (http.c:1282, 1323).
AnsweredUnlessHopeless ==
  \A r \in Requests : made >= r ~> answer[r] # "none" \/ state = "freed" \/ aborted \/ hopeless
=============================================================================
