------------------------ MODULE HttpExchange_proofs ------------------------
(***************************************************************************)
(* Safety of HttpExchange for any number of requests and connections: no   *)
(* assertion of http.c fails, the requests are handled in order but for    *)
(* those that failed, and client and server together implement             *)
(* RequestReply.                                                           *)
(***************************************************************************)
EXTENDS HttpExchange, SequenceTheorems, FiniteSetTheorems, TLAPS

\* A connection object has a socket exactly when it is connected, a request
\* exactly when it is busy, and watches for the end only when it is idle.
ClientInv ==
  /\ state \in {"disconnected", "connecting", "freed"} => fd = 0
  /\ state \in {"idle", "writing", "firstline", "headers"} => fd # 0
  /\ fd = 0 => out = <<>>
  /\ connecting => state = "connecting" /\ queue # <<>>
  /\ state = "idle" => closedetect /\ queue = <<>>
  /\ closedetect => state \in {"idle", "freed"}
  /\ state \in {"writing", "firstline", "headers"} => queue # <<>>
  /\ reading => state \in {"idle", "firstline", "headers"}
  /\ writing => state = "writing"

\* Parts of the request on connection c the server has read, and parts it may
\* still read; parts of the reply the client has still to read.
Read(s)   == IF s = "headers" THEN 1 ELSE IF s = "body" THEN 2 ELSE 0
Unread(c) == Len(up[c]) + Read(sstate[c])
Reply(c)  == Len(sout[c]) + Len(down[c])

\* One request and one reply at a time, and none on an idle connection: what the
\* client then reads is nothing but the end of the connection.
LinkInv ==
  /\ fd <= opened
  /\ \A c \in Connections :
       c > opened => Len(up[c]) = 0 /\ Reply(c) = 0 /\ sstate[c] = "none"
  /\ fd # 0 =>
       /\ Len(out) + Unread(fd) <= 3 /\ Reply(fd) <= 2
       /\ Len(out) + Unread(fd) > 0 => Reply(fd) = 0
       /\ state = "headers" => Len(out) + Unread(fd) = 0 /\ Reply(fd) <= 1
       /\ state = "idle" => Len(out) + Unread(fd) = 0 /\ Reply(fd) = 0

IInv == TypeOK /\ ClientInv /\ LinkInv /\ ~aborted

-----------------------------------------------------------------------------
(* Sequences                                                               *)

\* Cutting a sequence in two.
LEMMA Cut ==
  ASSUME NEW S, NEW s \in Seq(S), NEW n \in 0..Len(s)
  PROVE  /\ SubSeq(s, 1, n) \in Seq(S) /\ Len(SubSeq(s, 1, n)) = n
         /\ SubSeq(s, n + 1, Len(s)) \in Seq(S) /\ Len(SubSeq(s, n + 1, Len(s))) = Len(s) - n
<1>1. Len(s) \in Nat /\ \A i \in 1..Len(s) : s[i] \in S
  BY LenProperties, ElementOfSeq
<1>2. \A i \in 1..n : s[i] \in S
  BY <1>1
<1>3. \A i \in (n + 1)..Len(s) : s[i] \in S
  BY <1>1
<1>4. SubSeq(s, 1, n) \in Seq(S) /\ Len(SubSeq(s, 1, n)) = n
  <2>1. 1 \in Int /\ n \in Int
    BY <1>1
  <2> QED
    BY <1>1, <1>2, <2>1, SubSeqProperties
<1>5. SubSeq(s, n + 1, Len(s)) \in Seq(S) /\ Len(SubSeq(s, n + 1, Len(s))) = Len(s) - n
  <2>1. n + 1 \in Int /\ Len(s) \in Int
    BY <1>1
  <2> QED
    BY <1>1, <1>3, <2>1, SubSeqProperties
<1>6. QED
  BY <1>4, <1>5

\* A sequence is empty when its length is 0.
LEMMA EmptyLen ==
  ASSUME NEW S, NEW s \in Seq(S)
  PROVE  Len(s) \in Nat /\ (s = <<>> <=> Len(s) = 0)
  BY EmptySeq, LenProperties

\* What is left of a queue is a queue.
LEMMA Rest ==
  ASSUME NEW S, NEW s \in Seq(S), NEW n \in 0..Len(s)
  PROVE  SubSeq(s, n + 1, Len(s)) \in Seq(S)
         /\ (n < Len(s) => SubSeq(s, n + 1, Len(s)) # <<>>)
<1>1. SubSeq(s, n + 1, Len(s)) \in Seq(S) /\ Len(SubSeq(s, n + 1, Len(s))) = Len(s) - n
  BY Cut
<1>2. Len(s) \in Nat
  BY LenProperties
<1>3. SubSeq(s, n + 1, Len(s)) = <<>> <=> Len(s) - n = 0
  BY <1>1, EmptyLen
<1>4. QED
  BY <1>1, <1>2, <1>3

\* A request has three parts and a reply two.
LEMMA MessageParts ==
  ASSUME NEW r \in Requests
  PROVE  /\ RequestParts(r) \in Seq(Parts) /\ Len(RequestParts(r)) = 3
         /\ ReplyParts(r) \in Seq(Parts) /\ Len(ReplyParts(r)) = 2
  BY DEF RequestParts, ReplyParts, Parts

-----------------------------------------------------------------------------
(* What the handlers' helpers do                                           *)

Answers == [Requests -> {"none", "error", "unconnected", "refused", "reply"}]

\* The connection has no socket; an attempt to get one is for a request.
Unconnected ==
  /\ fd' = 0 /\ out' = <<>> /\ response' = 0 /\ state' \in {"disconnected", "connecting", "freed"}
  /\ connecting' => state' = "connecting" /\ queue' # <<>>
  /\ ~reading' /\ ~writing'
  /\ queue' \in Seq(Requests) /\ answer' \in Answers

LEMMA AnsweredType ==
  ASSUME answer \in Answers, NEW rs, NEW how \in {"error", "unconnected", "refused", "reply"}
  PROVE  Answered(rs, how) \in Answers
  BY DEF Answered, Answers

LEMMA ConnectResult ==
  ASSUME answer \in Answers, NEW q \in Seq(Requests), NEW lost, NEW k \in 0..Len(q),
         NEW ok \in BOOLEAN, ok => k < Len(q), Connect(q, lost, k, ok)
  PROVE  Unconnected
<1>1. queue' \in Seq(Requests) /\ (k < Len(q) => queue' # <<>>)
  BY Rest DEF Connect
<1>2. answer' \in Answers
  BY AnsweredType DEF Connect
<1>3. connecting' => ok
  BY DEF Connect
<1>4. state' = (IF ok \/ k > 0 THEN "connecting" ELSE "disconnected")
  BY DEF Connect
<1>5. fd' = 0 /\ out' = <<>> /\ response' = 0 /\ ~reading' /\ ~writing'
  BY DEF Connect, CloseSocket
<1>6. QED
  BY <1>1, <1>2, <1>3, <1>4, <1>5 DEF Unconnected

LEMMA OutcomeType ==
  ASSUME NEW q \in Seq(Requests), NEW o \in Outcomes(q)
  PROVE  o[1] \in 0..Len(q) /\ o[2] \in BOOLEAN /\ (o[2] => o[1] < Len(q))
  BY DEF Outcomes

\* evhttp_connection_fail finds the request it is for.
LEMMA FailResult ==
  ASSUME answer \in Answers, queue \in Seq(Requests), queue # <<>>, Fail
  PROVE  Unconnected /\ UNCHANGED <<closedetect, failing, made, replyOf, aborted>>
<1> DEFINE q == Tail(queue)
<1>1. q \in Seq(Requests)
  BY HeadTailProperties
<1>2. UNCHANGED <<closedetect, failing, made, replyOf, aborted>>
  BY DEF Fail
<1>3. CASE q = <<>> /\ Reset /\ queue' = q /\ answer' = Answered({Head(queue)}, "error")
  <2>1. fd' = 0 /\ out' = <<>> /\ response' = 0 /\ state' = "disconnected" /\ ~connecting'
        /\ ~reading' /\ ~writing'
    BY <1>3 DEF Reset, CloseSocket
  <2>2. queue' \in Seq(Requests) /\ answer' \in Answers
    BY <1>1, <1>3, AnsweredType
  <2>3. QED
    BY <1>2, <2>1, <2>2 DEF Unconnected
<1>4. ASSUME NEW o \in Outcomes(q), Connect(q, {Head(queue)}, o[1], o[2])
      PROVE  Unconnected
  BY <1>1, <1>4, OutcomeType, ConnectResult
<1>5. QED
  BY <1>2, <1>3, <1>4 DEF Fail

\* Without a socket there is nothing the invariant asks of the connections.
LEMMA UnconnectedStep ==
  ASSUME IInv, FlagsOK', Unconnected, state' # "freed" => ~closedetect',
         failing' \in Seq(Requests), made' \in 0..MaxRequests, replyOf' = replyOf,
         ~aborted', UNCHANGED <<server, link>>
  PROVE  IInv'
<1> USE HttpLinkAssumption
<1>0. <<>> \in Seq(Parts) /\ 0 \in 0..MaxConnections /\ 0 \in 0..MaxRequests
  BY EmptySeq
<1>1. ClientTypeOK'
  BY <1>0 DEF IInv, TypeOK, ClientTypeOK, Unconnected, States, Answers
<1>2. LinkTypeOK' /\ ServerTypeOK'
  BY DEF IInv, TypeOK, LinkTypeOK, ServerTypeOK, server, link
<1>3. ClientInv'
  BY DEF ClientInv, Unconnected
<1>4. LinkInv'
  BY DEF IInv, TypeOK, LinkTypeOK, LinkInv, Unread, Reply, server, link, Unconnected
<1>5. QED
  BY <1>1, <1>2, <1>3, <1>4 DEF IInv, TypeOK
-----------------------------------------------------------------------------
(* The flags stay Boolean.                                                 *)

LEMMA ConnectFlags ==
  ASSUME FlagsOK, NEW q, NEW lost, NEW o \in Outcomes(q), Connect(q, lost, o[1], o[2])
  PROVE  /\ connecting' \in BOOLEAN /\ reading' \in BOOLEAN /\ writing' \in BOOLEAN
         /\ hopeless' \in BOOLEAN
<1>1. o[2] \in BOOLEAN
  BY DEF Outcomes
<1>2. QED
  BY <1>1, Zenon DEF FlagsOK, Connect, CloseSocket

LEMMA AbortFlags ==
  ASSUME FlagsOK, Abort
  PROVE  FlagsOK'
  BY Zenon DEF FlagsOK, Abort, bev

LEMMA FailFlags ==
  ASSUME FlagsOK, Fail
  PROVE  FlagsOK'
<1>1. CASE queue = <<>>
  BY <1>1, AbortFlags, Zenon DEF Fail
<1>2. CASE queue # <<>>
  <2> DEFINE q == Tail(queue)
  <2>1. UNCHANGED <<closedetect, aborted>>
    BY <1>2, Zenon DEF Fail
  <2>2. CASE Reset /\ UNCHANGED hopeless
    BY <2>1, <2>2, Zenon DEF Reset, CloseSocket, FlagsOK
  <2>3. ASSUME NEW o \in Outcomes(q), Connect(q, {Head(queue)}, o[1], o[2])
        PROVE  FlagsOK'
    BY <2>1, <2>3, ConnectFlags, Zenon DEF FlagsOK
  <2>4. QED
    BY <1>2, <2>2, <2>3, Zenon DEF Fail
<1>3. QED
  BY <1>1, <1>2

LEMMA DispatchFlags ==
  ASSUME FlagsOK, NEW r, Dispatch(r), UNCHANGED <<connecting, hopeless, aborted>>
  PROVE  FlagsOK'
  BY Zenon DEF FlagsOK, Dispatch

LEMMA MakeRequestFlags ==
  ASSUME FlagsOK, MakeRequest
  PROVE  FlagsOK'
<1> DEFINE r == made + 1
           q == Enqueue(queue, r)
<1>1. ASSUME NEW o \in Outcomes(q), Connect(q, {}, o[1], o[2]), UNCHANGED <<closedetect, aborted>>
      PROVE  FlagsOK'
  BY <1>1, ConnectFlags, Zenon DEF FlagsOK
<1>2. CASE Reset /\ hopeless' = TRUE /\ UNCHANGED <<closedetect, aborted>>
  BY <1>2, Zenon DEF FlagsOK, Reset, CloseSocket
<1>3. CASE aborted' = TRUE /\ UNCHANGED <<bev, closedetect, hopeless>>
  BY <1>3, Zenon DEF FlagsOK, bev
<1>4. CASE UNCHANGED <<bev, closedetect, hopeless, aborted>>
  BY <1>4, Zenon DEF FlagsOK, bev
<1>5. CASE Dispatch(r) /\ UNCHANGED <<connecting, hopeless, aborted>>
  BY <1>5, DispatchFlags, Zenon
<1>6. QED
  BY <1>1, <1>2, <1>3, <1>4, <1>5, Zenon DEF MakeRequest

LEMMA DoneFlags ==
  ASSUME FlagsOK, Done
  PROVE  FlagsOK'
<1>1. UNCHANGED <<connecting, hopeless, aborted>>
  BY Zenon DEF Done
<1>2. CASE Dispatch(Head(Tail(queue)))
  BY <1>1, <1>2, DispatchFlags, Zenon
<1>3. CASE closedetect' = TRUE /\ reading' = TRUE /\ UNCHANGED writing
  BY <1>1, <1>3, Zenon DEF FlagsOK
<1>4. QED
  BY <1>2, <1>3, Zenon DEF Done

LEMMA ErrorFlags ==
  ASSUME FlagsOK, ErrorCb
  PROVE  FlagsOK'
<1>1. CASE ~closedetect
  BY <1>1, FailFlags, Zenon DEF ErrorCb
<1>2. CASE closedetect /\ state # "idle"
  BY <1>2, AbortFlags, Zenon DEF ErrorCb
<1>3. CASE closedetect /\ state = "idle"
  BY <1>3, Zenon DEF ErrorCb, Reset, CloseSocket, FlagsOK
<1>4. QED
  BY <1>1, <1>2, <1>3, Zenon

LEMMA FlagsStep ==
  ASSUME FlagsOK, ClientNext
  PROVE  FlagsOK'
<1>1. CASE MakeRequest
  BY <1>1, MakeRequestFlags, Zenon
<1>2. CASE FreeConnection
  BY <1>2, Zenon DEF FlagsOK, FreeConnection, CloseSocket
<1>3. CASE CleanupCallback
  BY <1>3, Zenon DEF FlagsOK, CleanupCallback, bev
<1>4. CASE ConnectionMade
  <2>1. connecting' = FALSE /\ UNCHANGED <<hopeless, aborted>>
    BY <1>4, Zenon DEF ConnectionMade
  <2>2. CASE UNCHANGED <<reading, writing, closedetect>>
    BY <2>1, <2>2, Zenon DEF FlagsOK
  <2>3. CASE Dispatch(Head(queue))
    BY <2>1, <2>3, Zenon DEF FlagsOK, Dispatch
  <2>4. QED
    BY <1>4, <2>2, <2>3, Zenon DEF ConnectionMade
<1>5. CASE ConnectFails
  BY <1>5, Zenon DEF FlagsOK, ConnectFails, Reset, CloseSocket
<1>6. CASE ConnectError
  BY <1>6, FailFlags, AbortFlags, Zenon DEF ConnectError
<1>7. CASE ClientWrite
  <2>1. UNCHANGED <<connecting, closedetect, hopeless>>
    BY <1>7, Zenon DEF ClientWrite
  <2>2. CASE writing' = FALSE /\ reading' = TRUE /\ UNCHANGED aborted
    BY <2>1, <2>2, Zenon DEF FlagsOK
  <2>3. CASE UNCHANGED <<writing, reading, aborted>>
    BY <2>1, <2>3, Zenon DEF FlagsOK
  <2>4. CASE aborted' = TRUE /\ UNCHANGED <<writing, reading>>
    BY <2>1, <2>4, Zenon DEF FlagsOK
  <2>5. QED
    BY <1>7, <2>2, <2>3, <2>4, Zenon DEF ClientWrite
<1>8. CASE ClientRead
  <2>1. CASE UNCHANGED <<connecting, reading, writing, closedetect, hopeless, aborted>>
    BY <2>1, Zenon DEF FlagsOK
  <2>2. CASE Done
    BY <2>2, DoneFlags, Zenon
  <2>3. CASE Reset /\ UNCHANGED <<closedetect, hopeless, aborted>>
    BY <2>3, Zenon DEF FlagsOK, Reset, CloseSocket
  <2>4. QED
    BY <1>8, <2>1, <2>2, <2>3, AbortFlags, Zenon DEF ClientRead
<1>9. CASE ClientError
  BY <1>9, ErrorFlags, Zenon DEF ClientError
<1>10. QED
  BY <1>1, <1>2, <1>3, <1>4, <1>5, <1>6, <1>7, <1>8, <1>9, Zenon DEF ClientNext, ClientEvent
-----------------------------------------------------------------------------
(* Steps of the client                                                     *)

LEMMA EnqueueType ==
  ASSUME NEW q \in Seq(Requests), NEW r \in Requests
  PROVE  Enqueue(q, r) \in Seq(Requests) /\ Enqueue(q, r) # <<>>
<1>1. Enqueue(q, r) \in Seq(Requests) /\ Len(Enqueue(q, r)) = Len(q) + 1 /\ Len(q) \in Nat
  BY LenProperties DEF Enqueue
<1>2. QED
  BY <1>1, EmptyLen

LEMMA DispatchResult ==
  ASSUME out = <<>>, NEW r \in Requests, Dispatch(r)
  PROVE  /\ state' = "writing" /\ ~closedetect' /\ ~reading'
         /\ out' \in Seq(Parts) /\ Len(out') = 3
<1>1. <<>> \in Seq(Parts) /\ Len(<<>>) = 0
  BY EmptySeq
<1>2. RequestParts(r) \in Seq(Parts) /\ Len(RequestParts(r)) = 3
  BY MessageParts
<1>3. out' = <<>> \o RequestParts(r)
  BY DEF Dispatch
<1>4. out' \in Seq(Parts) /\ Len(out') = 3
  BY <1>1, <1>2, <1>3, ConcatProperties
<1>5. QED
  BY <1>4 DEF Dispatch

\* What the invariant says of the types, for the steps below.
LEMMA Types ==
  ASSUME IInv
  PROVE  /\ state \in States /\ fd \in 0..MaxConnections /\ out \in Seq(Parts)
         /\ queue \in Seq(Requests) /\ failing \in Seq(Requests)
         /\ made \in 0..MaxRequests /\ response \in 0..MaxRequests
         /\ answer \in Answers /\ replyOf \in [Requests -> 0..MaxRequests]
         /\ opened \in 0..MaxConnections
         /\ up \in [Connections -> Seq(Parts)] /\ down \in [Connections -> Seq(Parts)]
         /\ sout \in [Connections -> Seq(Parts)]
         /\ sreq \in [Connections -> 0..MaxRequests] /\ handled \in Seq(Requests)
         /\ sstate \in [Connections ->
                          {"none", "firstline", "headers", "body", "writing", "freed"}]
  BY DEF IInv, TypeOK, LinkTypeOK, ClientTypeOK, ServerTypeOK, Answers

\* And the numbers behind LinkInv.
LEMMA Numbers ==
  ASSUME IInv
  PROVE  /\ MaxRequests \in Nat /\ MaxConnections \in Nat /\ Len(out) \in Nat
         /\ \A c \in Connections : /\ Len(up[c]) \in Nat /\ Len(down[c]) \in Nat
                                   /\ Len(sout[c]) \in Nat
                                   /\ Unread(c) \in Nat /\ Reply(c) \in Nat
<1>1. Len(out) \in Nat
  BY Types, LenProperties
<1>2. ASSUME NEW c \in Connections
      PROVE  /\ Len(up[c]) \in Nat /\ Len(down[c]) \in Nat /\ Len(sout[c]) \in Nat
             /\ Unread(c) \in Nat /\ Reply(c) \in Nat
  <2>1. up[c] \in Seq(Parts) /\ down[c] \in Seq(Parts) /\ sout[c] \in Seq(Parts)
    BY Types
  <2>2. Len(up[c]) \in Nat /\ Len(down[c]) \in Nat /\ Len(sout[c]) \in Nat
    BY <2>1, LenProperties
  <2>3. Read(sstate[c]) \in Nat
    BY DEF Read
  <2>4. Unread(c) \in Nat
    BY <2>2, <2>3 DEF Unread
  <2>5. Reply(c) \in Nat
    <3>1. Reply(c) = Len(sout[c]) + Len(down[c])
      BY DEF Reply
    <3>2. \A m, n \in Nat : m + n \in Nat
      OBVIOUS
    <3>3. QED
      BY <2>2, <3>1, <3>2
  <2>6. QED
    BY <2>2, <2>4, <2>5
<1>3. QED
  BY <1>1, <1>2, HttpLinkAssumption

LEMMA MakeRequestStep ==
  ASSUME IInv, FlagsOK', MakeRequest, UNCHANGED server
  PROVE  IInv'
<1> DEFINE r == made + 1
           q == Enqueue(queue, r)
<1>1. r \in Requests /\ made' = r /\ made' \in 0..MaxRequests
  BY Types, Numbers DEF MakeRequest, Requests
<1>2. q \in Seq(Requests) /\ q # <<>>
  BY <1>1, Types, EnqueueType
<1>3. state # "freed" /\ ~aborted /\ UNCHANGED <<failing, replyOf, link>>
  BY DEF MakeRequest, Usable
<1>4. ASSUME state = "disconnected", NEW o \in Outcomes(q), Connect(q, {}, o[1], o[2]),
             UNCHANGED <<closedetect, aborted>>
      PROVE  IInv'
  <2>1. Unconnected
    BY <1>2, <1>4, Types, OutcomeType, ConnectResult
  <2>2. ~closedetect' /\ ~aborted'
    BY <1>3, <1>4 DEF IInv, ClientInv
  <2>3. QED
    BY <1>1, <1>3, <2>1, <2>2, Types, UnconnectedStep
<1>5. CASE /\ state = "disconnected" /\ Reset /\ answer' = Answered({r}, "refused")
           /\ UNCHANGED <<closedetect, queue, aborted>>
  <2>1. Unconnected
    <3>1. fd' = 0 /\ out' = <<>> /\ response' = 0 /\ state' = "disconnected" /\ ~connecting'
          /\ ~reading' /\ ~writing'
      BY <1>5 DEF Reset, CloseSocket
    <3>2. queue' \in Seq(Requests) /\ answer' \in Answers
      BY <1>5, Types, AnsweredType
    <3>3. QED
      BY <3>1, <3>2 DEF Unconnected
  <2>2. ~closedetect' /\ ~aborted'
    BY <1>3, <1>5 DEF IInv, ClientInv
  <2>3. QED
    BY <1>1, <1>3, <2>1, <2>2, Types, UnconnectedStep
<1>6. CASE state = "disconnected" /\ closedetect
  BY <1>6 DEF IInv, ClientInv
<1>7. CASE /\ state = "connecting" \/ (evhttp_connected /\ queue # <<>>)
           /\ queue' = q
           /\ UNCHANGED <<state, bev, closedetect, answer, hopeless, aborted>>
  <2>1. UNCHANGED <<state, fd, connecting, reading, writing, out, response, closedetect,
                    answer, aborted>>
    BY <1>7 DEF bev
  <2>2. ClientTypeOK' /\ LinkTypeOK' /\ ServerTypeOK'
    BY <1>1, <1>2, <1>3, <1>7, <2>1, Types
    DEF ClientTypeOK, LinkTypeOK, ServerTypeOK, link, server, Answers
  <2>3. ClientInv'
    BY <1>2, <1>7, <2>1 DEF IInv, ClientInv, evhttp_connected
  <2>4. LinkInv'
    BY <1>3, <2>1 DEF IInv, LinkInv, Unread, Reply, link, server
  <2>5. QED
    BY <1>3, <2>1, <2>2, <2>3, <2>4 DEF IInv, TypeOK
<1>8. CASE /\ evhttp_connected /\ queue = <<>> /\ state = "idle"
           /\ Dispatch(r) /\ UNCHANGED <<fd, connecting, response, aborted>>
           /\ queue' = q /\ UNCHANGED <<answer, hopeless>>
  <2>1. fd # 0 /\ Len(out) = 0 /\ Unread(fd) = 0 /\ Reply(fd) = 0 /\ ~connecting
        /\ fd \in Connections /\ fd <= opened
    BY <1>8, Types, Numbers DEF IInv, ClientInv, LinkInv, Connections
  <2>2. out = <<>>
    BY <2>1, Types, EmptyLen
  <2>3. state' = "writing" /\ ~closedetect' /\ ~reading' /\ out' \in Seq(Parts) /\ Len(out') = 3
    BY <1>1, <1>8, <2>2, DispatchResult
  <2>4. ClientTypeOK' /\ LinkTypeOK' /\ ServerTypeOK'
    BY <1>1, <1>2, <1>3, <1>8, <2>3, Types
    DEF ClientTypeOK, LinkTypeOK, ServerTypeOK, link, server, Answers, States
  <2>5. ClientInv'
    BY <1>2, <1>8, <2>1, <2>3 DEF ClientInv
  <2>6. fd' = fd /\ opened' = opened /\ up' = up /\ down' = down
        /\ sout' = sout /\ sstate' = sstate
    BY <1>3, <1>8 DEF link, server
  <2>7. LinkInv'
    <3>1. \A c \in Connections : Unread(c)' = Unread(c) /\ Reply(c)' = Reply(c)
      BY <2>6 DEF Unread, Reply
    <3>2. Unread(fd)' = 0 /\ Reply(fd)' = 0
      BY <2>1, <2>6 DEF Unread, Reply
    <3>3. QED
      BY <2>1, <2>3, <2>6, <3>1, <3>2 DEF IInv, LinkInv
  <2>8. QED
    BY <1>3, <1>8, <2>4, <2>5, <2>7 DEF IInv, TypeOK
<1>9. CASE evhttp_connected /\ queue = <<>> /\ state # "idle"
  BY <1>3, <1>9, Types DEF IInv, ClientInv, evhttp_connected, States
<1>10. QED
  BY <1>3, <1>4, <1>5, <1>6, <1>7, <1>8, <1>9 DEF MakeRequest

LEMMA FreeConnectionStep ==
  ASSUME IInv, FlagsOK', FreeConnection, UNCHANGED server
  PROVE  IInv'
<1>1. state' = "freed" /\ fd' = 0 /\ out' = <<>> /\ response' = 0 /\ ~connecting' /\ queue' = <<>>
      /\ ~reading' /\ ~writing'
  BY DEF FreeConnection, CloseSocket
<1>2. <<>> \in Seq(Requests)
  BY EmptySeq
<1>3. UNCHANGED <<failing, made, answer, replyOf, aborted, link>> /\ ~aborted
  BY DEF FreeConnection, answers, Usable
<1>4. Unconnected
  BY <1>1, <1>2, <1>3, Types DEF Unconnected
<1>5. QED
  BY <1>1, <1>3, <1>4, Types, UnconnectedStep

LEMMA CleanupCallbackStep ==
  ASSUME IInv, FlagsOK', CleanupCallback, UNCHANGED server
  PROVE  IInv'
<1>1. UNCHANGED <<state, fd, connecting, reading, writing, out, response, closedetect, queue,
                  made, replyOf, aborted, link>>
  BY DEF CleanupCallback, bev
<1>2. answer' \in Answers
  BY Types, AnsweredType DEF CleanupCallback
<1>3. failing' \in Seq(Requests)
  BY Types, HeadTailProperties DEF CleanupCallback
<1>4. ClientTypeOK' /\ LinkTypeOK' /\ ServerTypeOK'
  BY <1>1, <1>2, <1>3, Types DEF ClientTypeOK, LinkTypeOK, ServerTypeOK, link, server, Answers
<1>5. ClientInv'
  BY <1>1 DEF IInv, ClientInv
<1>6. LinkInv'
  BY <1>1 DEF IInv, LinkInv, Unread, Reply, link, server
<1>7. QED
  BY <1>1, <1>4, <1>5, <1>6 DEF IInv, TypeOK

\* A connection no one has used is quiet.
LEMMA Quiet ==
  ASSUME IInv, NEW c \in Connections, c > opened
  PROVE  Unread(c) = 0 /\ Reply(c) = 0
<1>1. Len(up[c]) = 0 /\ Reply(c) = 0 /\ sstate[c] = "none"
  BY DEF IInv, LinkInv
<1>2. Read(sstate[c]) = 0
  BY <1>1 DEF Read
<1>3. QED
  BY <1>1, <1>2 DEF Unread

LEMMA ConnectionMadeStep ==
  ASSUME IInv, FlagsOK', ConnectionMade, UNCHANGED server
  PROVE  IInv'
<1> DEFINE c == opened + 1
<1>1. c \in Connections /\ c > opened /\ c # 0 /\ c \in 0..MaxConnections
  <2>1. opened \in 0..MaxConnections /\ MaxConnections \in Nat
    BY Types, Numbers
  <2>2. opened < MaxConnections
    BY DEF ConnectionMade
  <2>3. QED
    BY <2>1, <2>2 DEF Connections
<1>2. queue # <<>> /\ out = <<>> /\ ~aborted /\ ~closedetect
  BY DEF ConnectionMade, IInv, ClientInv, InLoop, Usable
<1>3. opened' = c /\ fd' = c /\ ~connecting' /\ Dispatch(Head(queue))
      /\ up' = up /\ down' = down /\ sout' = sout /\ sstate' = sstate
      /\ sreq' = sreq /\ handled' = handled
      /\ UNCHANGED <<response, queue, failing, made, answers, aborted>>
  BY <1>2 DEF ConnectionMade, server
<1>4. Head(queue) \in Requests
  BY <1>2, Types, HeadTailProperties
<1>5. state' = "writing" /\ ~closedetect' /\ ~reading' /\ out' \in Seq(Parts) /\ Len(out') = 3
  BY <1>2, <1>3, <1>4, DispatchResult
<1>6. ClientTypeOK' /\ LinkTypeOK' /\ ServerTypeOK'
  BY <1>1, <1>3, <1>5, Types
  DEF ClientTypeOK, LinkTypeOK, ServerTypeOK, answers, Answers, States
<1>7. ClientInv'
  BY <1>1, <1>2, <1>3, <1>5 DEF ClientInv
<1>8. LinkInv'
  <2>1. \A x \in Connections : Unread(x)' = Unread(x) /\ Reply(x)' = Reply(x)
    BY <1>3 DEF Unread, Reply
  <2>2. Unread(fd)' = 0 /\ Reply(fd)' = 0
    BY <1>1, <1>3, Quiet DEF Unread, Reply
  <2>3. \A x \in Connections :
          x > opened' => Len(up[x])' = 0 /\ Reply(x)' = 0 /\ sstate[x]' = "none"
    BY <1>3, <2>1, Types DEF IInv, LinkInv, Connections
  <2>4. QED
    BY <1>1, <1>3, <1>5, <2>2, <2>3 DEF LinkInv
<1>9. QED
  BY <1>2, <1>3, <1>6, <1>7, <1>8 DEF IInv, TypeOK

LEMMA ConnectFailsStep ==
  ASSUME IInv, FlagsOK', ConnectFails, UNCHANGED server
  PROVE  IInv'
<1>1. fd' = 0 /\ out' = <<>> /\ response' = 0 /\ state' = "disconnected" /\ ~connecting'
      /\ queue' = <<>> /\ failing' = queue /\ ~reading' /\ ~writing'
      /\ UNCHANGED <<closedetect, made, answer, replyOf, aborted, link>>
  BY DEF ConnectFails, Reset, CloseSocket, answers
<1>2. <<>> \in Seq(Requests)
  BY EmptySeq
<1>3. Unconnected
  BY <1>1, <1>2, Types DEF Unconnected
<1>4. ~closedetect /\ ~aborted
  BY DEF ConnectFails, IInv, ClientInv
<1>5. QED
  BY <1>1, <1>3, <1>4, Types, UnconnectedStep

LEMMA ConnectErrorStep ==
  ASSUME IInv, FlagsOK', ConnectError, UNCHANGED server
  PROVE  IInv'
<1>1. ~closedetect /\ ~aborted /\ queue # <<>>
  BY DEF ConnectError, IInv, ClientInv
<1>2. Fail /\ UNCHANGED link
  BY <1>1 DEF ConnectError
<1>3. Unconnected /\ UNCHANGED <<closedetect, failing, made, replyOf, aborted>>
  BY <1>1, <1>2, Types, FailResult
<1>4. QED
  BY <1>1, <1>2, <1>3, Types, UnconnectedStep

LEMMA ClientErrorStep ==
  ASSUME IInv, FlagsOK', ClientError, UNCHANGED server
  PROVE  IInv'
<1>1. state # "freed" /\ ~aborted /\ fd # 0 /\ UNCHANGED link /\ ErrorCb
  BY DEF ClientError, InLoop, Usable
<1>2. state \in {"idle", "writing", "firstline", "headers"}
  BY <1>1, Types DEF IInv, ClientInv, States
<1>3. CASE ~closedetect
  <2>1. queue # <<>> /\ Fail
    BY <1>1, <1>2, <1>3 DEF IInv, ClientInv, ErrorCb
  <2>2. Unconnected /\ UNCHANGED <<closedetect, failing, made, replyOf, aborted>>
    BY <2>1, Types, FailResult
  <2>3. QED
    BY <1>1, <1>3, <2>2, Types, UnconnectedStep
<1>4. CASE closedetect
  <2>1. state = "idle"
    BY <1>1, <1>4 DEF IInv, ClientInv
  <2>2. fd' = 0 /\ out' = <<>> /\ response' = 0 /\ state' = "disconnected" /\ ~connecting'
        /\ ~closedetect' /\ ~reading' /\ ~writing'
        /\ UNCHANGED <<queue, failing, made, answer, replyOf, aborted>>
    BY <1>4, <2>1, <1>1 DEF ErrorCb, Reset, CloseSocket, answers
  <2>3. Unconnected
    BY <2>2, Types DEF Unconnected
  <2>4. QED
    BY <1>1, <2>2, <2>3, Types, UnconnectedStep
<1>5. QED
  BY <1>3, <1>4

\* The callback of a finished write is called for a request that was being written.
LEMMA WritesARequest ==
  ASSUME IInv, ClientWrite
  PROVE  /\ state = "writing" /\ ~aborted /\ aborted' = aborted
         /\ \/ UNCHANGED <<state, writing, reading>>
            \/ state' = "firstline" /\ ~writing' /\ reading'
<1>1. writing /\ ~aborted
  BY DEF ClientWrite, InLoop, Usable
<1>2. state = "writing" /\ queue # <<>>
  BY <1>1 DEF IInv, ClientInv
<1>3. QED
  BY <1>1, <1>2 DEF ClientWrite

LEMMA ClientWriteStep ==
  ASSUME IInv, FlagsOK', ClientWrite, UNCHANGED server
  PROVE  IInv'
<1> DEFINE c == fd
<1>1. c \in Connections /\ c # 0 /\ ~aborted /\ state # "freed"
  BY Types, Numbers DEF ClientWrite, InLoop, Usable, Connections
<1>2. PICK n \in 1..Len(out) :
        /\ up' = [up EXCEPT ![c] = @ \o SubSeq(out, 1, n)]
        /\ out' = SubSeq(out, n + 1, Len(out))
        /\ state' \in {"firstline", state}
  BY DEF ClientWrite
<1>3. n \in 0..Len(out) /\ n > 0 /\ Len(out) \in Nat /\ Len(out) > 0
  BY <1>2, Numbers
<1>4. SubSeq(out, 1, n) \in Seq(Parts) /\ Len(SubSeq(out, 1, n)) = n
      /\ out' \in Seq(Parts) /\ Len(out') = Len(out) - n
  BY <1>2, <1>3, Types, Cut
<1>5. up[c] \in Seq(Parts)
  BY <1>1, Types
<1>6. up'[c] \in Seq(Parts) /\ Len(up'[c]) = Len(up[c]) + n
      /\ \A x \in Connections : x # c => up'[x] = up[x]
  BY <1>1, <1>2, <1>4, <1>5, Types, ConcatProperties
<1>7. up' \in [Connections -> Seq(Parts)]
  BY <1>1, <1>2, <1>6, Types
<1>8. /\ state = "writing" /\ aborted' = aborted
      /\ \/ UNCHANGED <<state, writing, reading>>
         \/ state' = "firstline" /\ ~writing' /\ reading'
  BY WritesARequest
<1>9. fd' = fd /\ opened' = opened /\ down' = down /\ sout' = sout /\ sstate' = sstate
      /\ UNCHANGED <<connecting, response, closedetect, queue, failing, made, answers,
                     aborted, sreq, handled>>
  BY <1>8 DEF ClientWrite, server
<1>10. ClientTypeOK' /\ LinkTypeOK' /\ ServerTypeOK'
  BY <1>2, <1>4, <1>7, <1>9, Types
  DEF ClientTypeOK, LinkTypeOK, ServerTypeOK, answers, Answers, States
<1>11. ClientInv'
  BY <1>1, <1>2, <1>8, <1>9 DEF IInv, ClientInv
<1>12. LinkInv'
  <2>1. \A x \in Connections : Reply(x)' = Reply(x) /\ (x # c => Unread(x)' = Unread(x))
    BY <1>6, <1>9 DEF Unread, Reply
  <2>2. Unread(c) \in Nat /\ Len(up[c]) \in Nat
    BY <1>1, Numbers
  <2>3. Unread(fd)' = Unread(fd) + n /\ Reply(fd)' = Reply(fd)
    <3>1. Read(sstate[c]) \in Nat
      BY DEF Read
    <3>2. QED
      BY <1>1, <1>3, <1>6, <1>9, <2>1, <2>2, <3>1 DEF Unread
  <2>4. Len(out') + Unread(fd)' = Len(out) + Unread(fd)
    BY <1>3, <1>4, <2>2, <2>3
  <2>5. \A x \in Connections :
          x > opened' => Len(up[x])' = 0 /\ Reply(x)' = 0 /\ sstate[x]' = "none"
    BY <1>1, <1>6, <1>9, <2>1, Types DEF IInv, LinkInv, Connections
  <2>6. QED
    BY <1>1, <1>2, <1>8, <1>9, <2>3, <2>4, <2>5 DEF IInv, LinkInv
<1>13. QED
  BY <1>1, <1>9, <1>10, <1>11, <1>12 DEF IInv, TypeOK

\* Bytes are read only in a state that asked for them.
LEMMA ReadsWhenAsked ==
  ASSUME IInv, ClientRead
  PROVE  state \in {"idle", "firstline", "headers"} /\ reading /\ ~writing
<1>1. reading
  BY DEF ClientRead
<1>2. QED
  BY <1>1 DEF IInv, ClientInv

LEMMA ClientReadStep ==
  ASSUME IInv, FlagsOK', ClientRead, UNCHANGED server
  PROVE  IInv'
<1> DEFINE c    == fd
           part == Head(down[c])
<1>1. c \in Connections /\ c # 0 /\ ~aborted /\ down[c] # <<>>
  BY Types, Numbers DEF ClientRead, InLoop, Usable, Connections
<1>2. down[c] \in Seq(Parts) /\ Len(down[c]) \in Nat /\ Len(down[c]) > 0 /\ Len(sout[c]) \in Nat
  BY <1>1, Types, Numbers, EmptyLen
<1>3. down' = [down EXCEPT ![c] = Tail(@)] /\ fd' = (IF state = "idle" THEN 0 ELSE fd)
      /\ UNCHANGED <<opened, up, sreq, handled, sstate, sout, failing, made, aborted>>
  BY ReadsWhenAsked DEF ClientRead, Done, Reset, CloseSocket, server, answers
<1>4. part \in Parts /\ Tail(down[c]) \in Seq(Parts) /\ Len(Tail(down[c])) = Len(down[c]) - 1
  BY <1>1, <1>2, HeadTailProperties
<1>5. down' \in [Connections -> Seq(Parts)] /\ down'[c] = Tail(down[c])
      /\ \A x \in Connections : x # c => down'[x] = down[x]
  BY <1>1, <1>3, <1>4, Types
<1>6. Reply(c) > 0
  <2>1. Reply(c) = Len(sout[c]) + Len(down[c])
    BY DEF Reply
  <2>2. \A m, n \in Nat : n > 0 => m + n > 0
    OBVIOUS
  <2>3. QED
    BY <1>2, <2>1, <2>2
<1>7. Len(out) + Unread(c) = 0 /\ Reply(c) <= 2 /\ state # "idle" /\ fd <= opened
      /\ (state = "headers" => Reply(c) <= 1)
      /\ Len(out) \in Nat /\ Unread(c) \in Nat /\ Reply(c) \in Nat
  <2>1. Len(out) \in Nat /\ Unread(c) \in Nat /\ Reply(c) \in Nat
    BY <1>1, Numbers
  <2>2. /\ fd <= opened /\ Reply(c) <= 2
        /\ Len(out) + Unread(c) > 0 => Reply(c) = 0
        /\ state = "headers" => Reply(c) <= 1
        /\ state = "idle" => Reply(c) = 0
    BY <1>1 DEF IInv, LinkInv
  <2>3. QED
    BY <1>6, <2>1, <2>2
<1>8. /\ fd' = fd /\ Reply(fd)' = Reply(fd) - 1 /\ Unread(fd)' = Unread(fd)
      /\ \A x \in Connections : x # fd => Reply(x)' = Reply(x) /\ Unread(x)' = Unread(x)
  <2>1. fd' = fd
    BY <1>3, <1>7
  <2>2. Unread(fd)' = Unread(fd)
    BY <1>3, <2>1 DEF Unread
  <2>3. Reply(fd)' = Len(sout[fd]) + Len(down'[fd])
    BY <1>3, <2>1 DEF Reply
  <2>4. Reply(fd)' = Reply(fd) - 1
    <3>1. Len(down'[fd]) = Len(down[fd]) - 1
      BY <1>4, <1>5
    <3>2. \A m, n \in Nat : m + (n - 1) = (m + n) - 1
      OBVIOUS
    <3>3. Reply(fd) = Len(sout[fd]) + Len(down[fd])
      BY DEF Reply
    <3>4. QED
      BY <1>2, <2>3, <3>1, <3>2, <3>3
  <2>5. \A x \in Connections : x # fd => Reply(x)' = Reply(x) /\ Unread(x)' = Unread(x)
    BY <1>3, <1>5 DEF Unread, Reply
  <2>6. QED
    BY <2>1, <2>2, <2>4, <2>5
<1>9. out = <<>> /\ Unread(c) = 0
  BY <1>7, Types, EmptyLen
<1>10. \A x \in Connections :
         x > opened' => Len(up[x])' = 0 /\ Reply(x)' = 0 /\ sstate[x]' = "none"
  BY <1>1, <1>3, <1>7, <1>8, Types DEF IInv, LinkInv, Connections
<1>11. LinkTypeOK' /\ ServerTypeOK' /\ fd' = c
  BY <1>3, <1>5, <1>8, Types DEF LinkTypeOK, ServerTypeOK
<1>12. CASE /\ state = "firstline" /\ state' = "headers" /\ response' = part[1]
            /\ UNCHANGED <<fd, connecting, reading, writing, out, closedetect, queue,
                           failing, made, answers, aborted>>
  <2>1. response' \in 0..MaxRequests
    BY <1>4, <1>12, Numbers DEF Parts, Requests
  <2>2. ClientTypeOK'
    BY <1>12, <2>1, Types DEF ClientTypeOK, answers, Answers, States
  <2>3. ClientInv'
    BY <1>1, <1>12, ReadsWhenAsked DEF IInv, ClientInv
  <2>4. Unread(fd)' = Unread(c) /\ Reply(fd)' = Reply(c) - 1
    BY <1>8
  <2>5. LinkInv'
    BY <1>1, <1>3, <1>7, <1>9, <1>10, <1>11, <1>12, <2>4 DEF LinkInv
  <2>6. QED
    BY <1>1, <1>3, <1>11, <2>2, <2>3, <2>5 DEF IInv, TypeOK
<1>13. CASE state = "headers" /\ Done
  <2> DEFINE r == Head(queue)
             q == Tail(queue)
  <2>1. queue # <<>> /\ ~connecting
    BY <1>13 DEF IInv, ClientInv
  <2>2. r \in Requests /\ q \in Seq(Requests)
    BY <2>1, Types, HeadTailProperties
  <2>3. queue' = q /\ response' = 0 /\ ~connecting' /\ UNCHANGED <<fd, failing, made, aborted>>
    BY <1>13, <2>1 DEF Done
  <2>4. answer' \in Answers /\ replyOf' \in [Requests -> 0..MaxRequests]
    BY <1>13, <2>2, Types, AnsweredType DEF Done
  <2>5. 0 \in 0..MaxRequests
    BY Numbers
  <2>6. Unread(fd)' = 0 /\ Reply(fd)' = 0
    <3>1. Reply(fd) = 1
      BY <1>6, <1>7, <1>13
    <3>2. QED
      BY <1>8, <1>9, <3>1
  <2>7. CASE q # <<>>
    <3>1. Head(q) \in Requests /\ Dispatch(Head(q))
      BY <1>13, <2>2, <2>7, HeadTailProperties DEF Done
    <3>2. state' = "writing" /\ ~closedetect' /\ ~reading' /\ out' \in Seq(Parts) /\ Len(out') = 3
      BY <1>9, <3>1, DispatchResult
    <3>3. ClientTypeOK'
      BY <1>3, <1>11, <2>2, <2>3, <2>4, <2>5, <3>2, Types DEF ClientTypeOK, Answers, States
    <3>4. ClientInv'
      BY <1>1, <2>3, <2>7, <3>2 DEF ClientInv
    <3>5. LinkInv'
      BY <1>1, <1>3, <1>7, <1>10, <1>11, <2>6, <3>2 DEF LinkInv
    <3>6. QED
      BY <1>1, <1>3, <1>11, <3>3, <3>4, <3>5 DEF IInv, TypeOK
  <2>8. CASE q = <<>>
    <3>1. state' = "idle" /\ closedetect' /\ out' = out /\ ~writing'
      BY <1>13, <2>8, ReadsWhenAsked DEF Done
    <3>2. ClientTypeOK'
      BY <1>3, <1>11, <2>2, <2>3, <2>4, <2>5, <3>1, Types DEF ClientTypeOK, Answers, States
    <3>3. ClientInv'
      BY <1>1, <1>9, <2>3, <2>8, <3>1 DEF ClientInv
    <3>4. LinkInv'
      BY <1>1, <1>3, <1>7, <1>9, <1>10, <1>11, <2>6, <3>1 DEF LinkInv
    <3>5. QED
      BY <1>1, <1>3, <1>11, <3>2, <3>3, <3>4 DEF IInv, TypeOK
  <2>9. QED
    BY <2>7, <2>8
<1>14. QED
  BY <1>7, <1>12, <1>13, ReadsWhenAsked DEF ClientRead

-----------------------------------------------------------------------------
(* Steps of the server                                                     *)

\* The server takes parts away from a connection, or answers all of a request.
Serves(c) ==
  /\ Unread(c)' \in Nat /\ Reply(c)' \in Nat
  /\ \/ Unread(c)' <= Unread(c) /\ Reply(c)' <= Reply(c)
     \/ Unread(c) >= 3 /\ Unread(c)' = Unread(c) - 3 /\ (fd = c => Reply(c)' = 2)

LEMMA ServesStep ==
  ASSUME IInv, NEW c \in Connections, sstate[c] # "none" \/ c <= opened, Serves(c),
         UNCHANGED <<client, opened>>, LinkTypeOK', ServerTypeOK',
         \A x \in Connections : x # c => /\ up'[x] = up[x] /\ down'[x] = down[x]
                                         /\ sstate'[x] = sstate[x] /\ sout'[x] = sout[x]
  PROVE  IInv'
<1>1. state' = state /\ fd' = fd /\ out' = out /\ opened' = opened /\ aborted' = aborted
      /\ UNCHANGED <<connecting, reading, writing, response, closedetect, queue, failing,
                     made, answer, replyOf, hopeless>>
  BY DEF client, bev, answers
<1>2. ClientTypeOK' /\ ClientInv' /\ ~aborted'
  <2>1. FlagsOK'
    BY <1>1, Zenon DEF IInv, TypeOK, ClientTypeOK, FlagsOK
  <2>2. ClientTypeOK'
    BY <1>1, <2>1 DEF IInv, TypeOK, ClientTypeOK
  <2>3. QED
    BY <1>1, <2>2 DEF IInv, ClientInv
<1>3. c <= opened
  BY Types, Numbers DEF IInv, LinkInv, Connections
<1>4. \A x \in Connections : x # c => Unread(x)' = Unread(x) /\ Reply(x)' = Reply(x)
  BY DEF Unread, Reply
<1>5. ASSUME NEW x \in Connections, x > opened'
      PROVE  Len(up[x])' = 0 /\ Reply(x)' = 0 /\ sstate[x]' = "none"
  <2>1. x > opened /\ x # c
    BY <1>1, <1>3, <1>5, Types DEF Connections
  <2>2. Len(up[x]) = 0 /\ Reply(x) = 0 /\ sstate[x] = "none"
    BY <2>1 DEF IInv, LinkInv
  <2>3. QED
    BY <1>4, <2>1, <2>2
<1>6. LinkInv'
  <2>1. CASE fd # c
    <3>1. fd # 0 => fd \in Connections
      BY Types, Numbers DEF Connections
    <3>2. fd # 0 => Unread(fd)' = Unread(fd) /\ Reply(fd)' = Reply(fd)
      BY <1>1, <2>1, <3>1 DEF Unread, Reply
    <3>3. QED
      BY <1>1, <1>5, <3>2 DEF IInv, LinkInv
  <2>2. CASE fd = c
    <3>1. Unread(fd)' = Unread(c)' /\ Reply(fd)' = Reply(c)'
      BY <1>1, <2>2 DEF Unread, Reply
    <3>2. /\ Len(out) \in Nat /\ Unread(c) \in Nat /\ Reply(c) \in Nat /\ c # 0
      BY Numbers DEF Connections
    <3>3. /\ Len(out) + Unread(c) <= 3 /\ Reply(c) <= 2
          /\ Len(out) + Unread(c) > 0 => Reply(c) = 0
          /\ state = "headers" => Len(out) + Unread(c) = 0 /\ Reply(c) <= 1
          /\ state = "idle" => Len(out) + Unread(c) = 0 /\ Reply(c) = 0
      BY <2>2, <3>2 DEF IInv, LinkInv
    <3>4. /\ Len(out') + Unread(fd)' <= 3 /\ Reply(fd)' <= 2
          /\ Len(out') + Unread(fd)' > 0 => Reply(fd)' = 0
          /\ state' = "headers" => Len(out') + Unread(fd)' = 0 /\ Reply(fd)' <= 1
          /\ state' = "idle" => Len(out') + Unread(fd)' = 0 /\ Reply(fd)' = 0
      <4>1. out' = out /\ state' = state /\ Unread(c)' \in Nat /\ Reply(c)' \in Nat
        BY <1>1 DEF Serves
      <4>2. CASE Unread(c)' <= Unread(c) /\ Reply(c)' <= Reply(c)
        BY <3>1, <3>2, <3>3, <4>1, <4>2
      <4>3. CASE Unread(c) >= 3 /\ Unread(c)' = Unread(c) - 3 /\ Reply(c)' = 2
        <5>1. Len(out) = 0 /\ Unread(c) = 3
          BY <3>2, <3>3, <4>3
        <5>2. Unread(c)' = 0
          BY <4>3, <5>1
        <5>3. state \notin {"headers", "idle"}
          BY <3>2, <3>3, <5>1
        <5>4. Len(out') + Unread(fd)' = 0
          BY <3>1, <4>1, <5>1, <5>2
        <5>5. Reply(fd)' = 2
          BY <3>1, <4>3
        <5>6. QED
          BY <4>1, <5>3, <5>4, <5>5
      <4>4. QED
        BY <2>2, <4>2, <4>3 DEF Serves
    <3>5. QED
      BY <1>1, <1>3, <1>5, <2>2, <3>4 DEF LinkInv
  <2>3. QED
    BY <2>1, <2>2
<1>7. QED
  BY <1>2, <1>6 DEF IInv, TypeOK

LEMMA SumNat == \A m, n \in Nat : m + n \in Nat
  OBVIOUS

\* The parts on a connection in the next state, as numbers.
LEMMA NextNumbers ==
  ASSUME NEW c \in Connections, LinkTypeOK', ServerTypeOK'
  PROVE  /\ Unread(c)' = Len(up'[c]) + Read(sstate'[c])
         /\ Reply(c)' = Len(sout'[c]) + Len(down'[c])
         /\ Len(up'[c]) \in Nat /\ Len(sout'[c]) \in Nat /\ Len(down'[c]) \in Nat
         /\ Unread(c)' \in Nat /\ Reply(c)' \in Nat
<1>1. Unread(c)' = Len(up'[c]) + Read(sstate'[c]) /\ Reply(c)' = Len(sout'[c]) + Len(down'[c])
  BY DEF Unread, Reply
<1>2. up'[c] \in Seq(Parts) /\ sout'[c] \in Seq(Parts) /\ down'[c] \in Seq(Parts)
  BY DEF LinkTypeOK, ServerTypeOK
<1>3. Len(up'[c]) \in Nat /\ Len(sout'[c]) \in Nat /\ Len(down'[c]) \in Nat
  BY <1>2, LenProperties
<1>4. Read(sstate'[c]) \in Nat
  BY DEF Read
<1>5. QED
  BY <1>1, <1>3, <1>4, SumNat

LEMMA AcceptStep ==
  ASSUME IInv, NEW c \in Connections, Accept(c), UNCHANGED client
  PROVE  IInv' /\ Serves(c)
<1>1. c <= opened /\ sstate[c] = "none" /\ sstate'[c] \in {"firstline", "freed"}
      /\ UNCHANGED <<sreq, sout, handled, opened, up, down>>
      /\ \A x \in Connections : x # c => sstate'[x] = sstate[x]
  BY Types DEF Accept, link
<1>2. LinkTypeOK' /\ ServerTypeOK'
  BY <1>1, Types DEF Accept, LinkTypeOK, ServerTypeOK
<1>3. Read(sstate[c]) = 0 /\ Read(sstate'[c]) = 0
  BY <1>1 DEF Read
<1>4. Unread(c)' = Unread(c) /\ Reply(c)' = Reply(c)
  BY <1>1, <1>3 DEF Unread, Reply
<1>5. Serves(c)
  BY <1>4, Numbers DEF Serves
<1>6. QED
  BY <1>1, <1>2, <1>5, ServesStep

\* What Take takes.
LEMMA TakeResult ==
  ASSUME IInv, NEW c \in Connections, NEW part, Take(c, part)
  PROVE  /\ Head(up[c]) \in Parts /\ up' \in [Connections -> Seq(Parts)]
         /\ Len(up[c]) > 0 /\ Len(up'[c]) = Len(up[c]) - 1
         /\ \A x \in Connections : x # c => up'[x] = up[x]
         /\ opened' = opened /\ down' = down
<1>1. up[c] \in Seq(Parts) /\ up[c] # <<>> /\ up' = [up EXCEPT ![c] = Tail(@)]
      /\ opened' = opened /\ down' = down
  BY Types DEF Take
<1>2. Head(up[c]) \in Parts /\ Tail(up[c]) \in Seq(Parts) /\ Len(Tail(up[c])) = Len(up[c]) - 1
  BY <1>1, HeadTailProperties
<1>3. Len(up[c]) > 0
  BY <1>1, EmptyLen
<1>4. QED
  BY <1>1, <1>2, <1>3, Types

LEMMA ReadFirstLineStep ==
  ASSUME IInv, NEW c \in Connections, ReadFirstLine(c), UNCHANGED client
  PROVE  IInv' /\ Serves(c)
<1>1. sstate[c] = "firstline" /\ Take(c, "line") /\ UNCHANGED <<sout, handled>>
      /\ sstate' = [sstate EXCEPT ![c] = "headers"]
      /\ sreq' = [sreq EXCEPT ![c] = Head(up[c])[1]]
  BY DEF ReadFirstLine
<1>2. Head(up[c])[1] \in 0..MaxRequests
  BY <1>1, TakeResult, Numbers DEF Parts, Requests
<1>3. LinkTypeOK' /\ ServerTypeOK'
  BY <1>1, <1>2, TakeResult, Types DEF LinkTypeOK, ServerTypeOK
<1>4. sstate'[c] = "headers" /\ \A x \in Connections : x # c => sstate'[x] = sstate[x]
  BY <1>1, Types
<1>5. Read(sstate[c]) = 0 /\ Read(sstate'[c]) = 1
  BY <1>1, <1>4 DEF Read
<1>6. Len(up[c]) \in Nat /\ Len(up'[c]) = Len(up[c]) - 1 /\ Unread(c) = Len(up[c]) + Read(sstate[c])
  BY <1>1, TakeResult, Numbers DEF Unread
<1>7. Unread(c)' = Unread(c)
  <2>1. Unread(c)' = Len(up'[c]) + Read(sstate'[c])
    BY <1>3, NextNumbers
  <2>2. \A n \in Nat : (n - 1) + 1 = n + 0
    OBVIOUS
  <2>3. QED
    BY <1>5, <1>6, <2>1, <2>2
<1>8. Reply(c)' = Reply(c)
  BY <1>1, TakeResult DEF Reply
<1>9. Serves(c)
  BY <1>7, <1>8, Numbers DEF Serves
<1>10. QED
  BY <1>1, <1>3, <1>4, <1>9, TakeResult, ServesStep

LEMMA ReadHeaderStep ==
  ASSUME IInv, NEW c \in Connections, ReadHeader(c), UNCHANGED client
  PROVE  IInv' /\ Serves(c)
<1>1. sstate[c] = "headers" /\ Take(c, "headers") /\ UNCHANGED <<sreq, sout, handled>>
      /\ sstate' = [sstate EXCEPT ![c] = "body"]
  BY DEF ReadHeader
<1>2. LinkTypeOK' /\ ServerTypeOK'
  BY <1>1, TakeResult, Types DEF LinkTypeOK, ServerTypeOK
<1>3. sstate'[c] = "body" /\ \A x \in Connections : x # c => sstate'[x] = sstate[x]
  BY <1>1, Types
<1>4. Read(sstate[c]) = 1 /\ Read(sstate'[c]) = 2
  BY <1>1, <1>3 DEF Read
<1>5. Len(up[c]) \in Nat /\ Len(up'[c]) = Len(up[c]) - 1 /\ Unread(c) = Len(up[c]) + Read(sstate[c])
  BY <1>1, TakeResult, Numbers DEF Unread
<1>6. Unread(c)' = Unread(c)
  <2>1. Unread(c)' = Len(up'[c]) + Read(sstate'[c])
    BY <1>2, NextNumbers
  <2>2. \A n \in Nat : (n - 1) + 2 = n + 1
    OBVIOUS
  <2>3. QED
    BY <1>4, <1>5, <2>1, <2>2
<1>7. Reply(c)' = Reply(c)
  BY <1>1, TakeResult DEF Reply
<1>8. Serves(c)
  BY <1>6, <1>7, Numbers DEF Serves
<1>9. QED
  BY <1>1, <1>2, <1>3, <1>8, TakeResult, ServesStep

\* An incoming connection reads headers and body of a request it knows.
RequestInv == \A c \in Connections : sstate[c] \in {"headers", "body"} => sreq[c] \in Requests

LEMMA ReadBodyStep ==
  ASSUME IInv, RequestInv, NEW c \in Connections, ReadBody(c), UNCHANGED client
  PROVE  IInv' /\ Serves(c)
<1>1. sstate[c] = "body" /\ Take(c, "body") /\ UNCHANGED sreq
      /\ sstate' = [sstate EXCEPT ![c] = "writing"]
      /\ handled' = Append(handled, sreq[c])
      /\ sout' = [sout EXCEPT ![c] = ReplyParts(sreq[c])]
  BY DEF ReadBody
<1>2. sreq[c] \in Requests
  BY <1>1 DEF RequestInv
<1>3. ReplyParts(sreq[c]) \in Seq(Parts) /\ Len(ReplyParts(sreq[c])) = 2
  BY <1>2, MessageParts
<1>4. LinkTypeOK' /\ ServerTypeOK'
  <2>1. handled' \in Seq(Requests)
    BY <1>1, <1>2, Types
  <2>2. sout' \in [Connections -> Seq(Parts)]
    BY <1>1, <1>3, Types
  <2>3. QED
    BY <1>1, <2>1, <2>2, TakeResult, Types DEF LinkTypeOK, ServerTypeOK
<1>5. sstate'[c] = "writing" /\ sout'[c] = ReplyParts(sreq[c])
      /\ \A x \in Connections : x # c => sstate'[x] = sstate[x] /\ sout'[x] = sout[x]
  BY <1>1, Types
<1>6. Read(sstate[c]) = 2 /\ Read(sstate'[c]) = 0
  BY <1>1, <1>5 DEF Read
<1>7. Len(up[c]) \in Nat /\ Len(up[c]) > 0 /\ Len(up'[c]) = Len(up[c]) - 1
      /\ Unread(c) = Len(up[c]) + Read(sstate[c])
  BY <1>1, TakeResult, Numbers DEF Unread
<1>8. Unread(c) >= 3 /\ Unread(c)' = Unread(c) - 3
  <2>1. Unread(c)' = Len(up'[c]) + Read(sstate'[c])
    BY <1>4, NextNumbers
  <2>2. \A n \in Nat : n > 0 => n + 2 >= 3 /\ (n - 1) + 0 = (n + 2) - 3
    OBVIOUS
  <2>3. QED
    BY <1>6, <1>7, <2>1, <2>2
<1>9. fd = c => Reply(c)' = 2
  <2>1. Len(out) \in Nat /\ Unread(c) \in Nat /\ Len(sout[c]) \in Nat /\ Len(down[c]) \in Nat
        /\ c # 0
    BY Numbers DEF Connections
  <2>2. fd = c => Reply(c) = 0
    BY <1>8, <2>1 DEF IInv, LinkInv
  <2>3. Reply(c) = Len(sout[c]) + Len(down[c])
    BY DEF Reply
  <2>4. \A m, n \in Nat : m + n = 0 => 2 + n = 2
    OBVIOUS
  <2>5. fd = c => 2 + Len(down[c]) = 2
    BY <2>1, <2>2, <2>3, <2>4
  <2>6. Reply(c)' = 2 + Len(down[c])
    BY <1>1, <1>3, <1>4, <1>5, NextNumbers, TakeResult
  <2>7. QED
    BY <2>5, <2>6
<1>10. Serves(c)
  BY <1>4, <1>8, <1>9, NextNumbers DEF Serves
<1>11. QED
  BY <1>1, <1>4, <1>5, <1>10, TakeResult, ServesStep

\* bufferevent_writecb moves parts of the reply, it makes none.
LEMMA ServerWriteStep ==
  ASSUME IInv, NEW c \in Connections, ServerWrite(c), UNCHANGED client
  PROVE  IInv' /\ Serves(c)
<1>1. sout[c] \in Seq(Parts) /\ down[c] \in Seq(Parts) /\ Len(sout[c]) \in Nat
      /\ Len(down[c]) \in Nat
  BY Types, Numbers
<1>2. PICK n \in 1..Len(sout[c]) :
        /\ down' = [down EXCEPT ![c] = @ \o SubSeq(sout[c], 1, n)]
        /\ sout' = [sout EXCEPT ![c] = SubSeq(@, n + 1, Len(@))]
        /\ \/ sstate' = [sstate EXCEPT ![c] = "firstline"] /\ sreq' = [sreq EXCEPT ![c] = 0]
           \/ UNCHANGED <<sstate, sreq>>
  BY DEF ServerWrite
<1>3. sstate[c] = "writing" /\ UNCHANGED <<opened, up, handled>>
  BY DEF ServerWrite
<1>4. n \in 0..Len(sout[c])
  BY <1>1, <1>2
<1>5. SubSeq(sout[c], 1, n) \in Seq(Parts) /\ Len(SubSeq(sout[c], 1, n)) = n
      /\ SubSeq(sout[c], n + 1, Len(sout[c])) \in Seq(Parts)
      /\ Len(SubSeq(sout[c], n + 1, Len(sout[c]))) = Len(sout[c]) - n
  BY <1>1, <1>4, Cut
<1>6. down'[c] \in Seq(Parts) /\ Len(down'[c]) = Len(down[c]) + n
  BY <1>1, <1>2, <1>5, Types, ConcatProperties
<1>7. sout'[c] \in Seq(Parts) /\ Len(sout'[c]) = Len(sout[c]) - n
  BY <1>2, <1>5, Types
<1>8. /\ sstate'[c] \in {"firstline", "writing"}
      /\ \A x \in Connections : x # c => /\ sstate'[x] = sstate[x] /\ sout'[x] = sout[x]
                                         /\ down'[x] = down[x]
  BY <1>2, <1>3, Types
<1>9. LinkTypeOK' /\ ServerTypeOK'
  <2>1. down' \in [Connections -> Seq(Parts)] /\ sout' \in [Connections -> Seq(Parts)]
    BY <1>2, <1>6, <1>7, Types
  <2>2. sreq' \in [Connections -> 0..MaxRequests]
    <3>1. sreq \in [Connections -> 0..MaxRequests] /\ 0 \in 0..MaxRequests
      BY Types, Numbers
    <3>2. CASE sreq' = [sreq EXCEPT ![c] = 0]
      BY <3>1, <3>2
    <3>3. CASE sreq' = sreq
      BY <3>1, <3>3
    <3>4. QED
      BY <1>2, <3>2, <3>3
  <2>3. sstate' \in [Connections ->
                       {"none", "firstline", "headers", "body", "writing", "freed"}]
    BY <1>2, Types
  <2>4. QED
    BY <1>3, <2>1, <2>2, <2>3, Types DEF LinkTypeOK, ServerTypeOK
<1>10. Unread(c)' = Unread(c)
  <2>1. Read(sstate[c]) = 0 /\ Read(sstate'[c]) = 0
    BY <1>3, <1>8 DEF Read
  <2>2. QED
    BY <1>3, <2>1 DEF Unread
<1>11. Reply(c)' = Reply(c)
  <2>1. Reply(c)' = Len(sout'[c]) + Len(down'[c])
    BY <1>9, NextNumbers
  <2>2. Reply(c) = Len(sout[c]) + Len(down[c])
    BY DEF Reply
  <2>3. n \in Nat
    BY <1>1, <1>2
  <2>4. \A i, j, k \in Nat : (i - k) + (j + k) = i + j
    OBVIOUS
  <2>5. (Len(sout[c]) - n) + (Len(down[c]) + n) = Len(sout[c]) + Len(down[c])
    BY <1>1, <2>3, <2>4
  <2>6. Len(sout'[c]) + Len(down'[c]) = (Len(sout[c]) - n) + (Len(down[c]) + n)
    BY <1>6, <1>7
  <2>7. QED
    BY <2>1, <2>2, <2>5, <2>6
<1>12. Serves(c)
  BY <1>10, <1>11, Numbers DEF Serves
<1>13. QED
  BY <1>3, <1>8, <1>9, <1>12, ServesStep

LEMMA DropStep ==
  ASSUME IInv, NEW c \in Connections, Live(c), Drop(c), UNCHANGED client
  PROVE  IInv' /\ Serves(c)
<1>1. sstate[c] # "none" /\ sstate' = [sstate EXCEPT ![c] = "freed"]
      /\ sreq' = [sreq EXCEPT ![c] = 0] /\ sout' = [sout EXCEPT ![c] = <<>>]
      /\ UNCHANGED <<handled, opened, up, down>>
  BY DEF Live, Drop, link
<1>2. <<>> \in Seq(Parts) /\ Len(<<>>) = 0
  BY EmptySeq
<1>3. LinkTypeOK' /\ ServerTypeOK'
  BY <1>1, <1>2, Types, Numbers DEF LinkTypeOK, ServerTypeOK
<1>4. sstate'[c] = "freed" /\ sout'[c] = <<>>
      /\ \A x \in Connections : x # c => sstate'[x] = sstate[x] /\ sout'[x] = sout[x]
  BY <1>1, Types
<1>5. Unread(c)' <= Unread(c)
  <2>1. Read(sstate'[c]) = 0 /\ Read(sstate[c]) \in Nat
    BY <1>4 DEF Read
  <2>2. Unread(c)' = Len(up[c]) + 0 /\ Unread(c) = Len(up[c]) + Read(sstate[c])
    BY <1>1, <1>3, <2>1, NextNumbers DEF Unread
  <2>3. \A m, n \in Nat : m + 0 <= m + n
    OBVIOUS
  <2>4. QED
    BY <2>1, <2>2, <2>3, Numbers
<1>6. Reply(c)' <= Reply(c)
  <2>1. Reply(c)' = 0 + Len(down[c]) /\ Reply(c) = Len(sout[c]) + Len(down[c])
    BY <1>1, <1>2, <1>3, <1>4, NextNumbers DEF Reply
  <2>2. \A m, n \in Nat : 0 + n <= m + n
    OBVIOUS
  <2>3. QED
    BY <2>1, <2>2, Numbers
<1>7. Serves(c)
  BY <1>3, <1>5, <1>6, NextNumbers DEF Serves
<1>8. QED
  BY <1>1, <1>3, <1>4, <1>7, ServesStep

LEMMA ServerStepsKeepIInv ==
  ASSUME IInv, RequestInv, NEW c \in Connections, ServerStep(c) \/ ServerError(c),
         UNCHANGED client
  PROVE  IInv'
<1>1. CASE Accept(c)
  BY <1>1, AcceptStep
<1>2. CASE ServerRead(c)
  BY <1>2, ReadFirstLineStep, ReadHeaderStep, ReadBodyStep DEF ServerRead
<1>3. CASE ServerWrite(c)
  BY <1>3, ServerWriteStep
<1>4. CASE ServerEof(c) \/ ServerError(c)
  BY <1>4, DropStep DEF ServerEof, ServerError
<1>5. QED
  BY <1>1, <1>2, <1>3, <1>4 DEF ServerStep

\* Only reading a status line moves a connection to "headers", with the request of
\* the part it reads.
LEMMA ServerStepsKeepRequestInv ==
  ASSUME IInv, RequestInv, NEW c \in Connections, ServerStep(c) \/ ServerError(c)
  PROVE  RequestInv'
<1> DEFINE Ok(x) == sstate'[x] \in {"headers", "body"} => sreq'[x] \in Requests
<1>1. CASE Accept(c)
  <2>1. sreq' = sreq /\ sstate'[c] \notin {"headers", "body"}
        /\ \A x \in Connections : x # c => sstate'[x] = sstate[x]
    BY <1>1, Types DEF Accept
  <2>2. QED
    BY <2>1 DEF RequestInv
<1>2. CASE ReadFirstLine(c)
  <2>1. Head(up[c])[1] \in Requests
    BY <1>2, TakeResult DEF ReadFirstLine, Parts
  <2>2. sreq'[c] \in Requests
        /\ \A x \in Connections : x # c => sstate'[x] = sstate[x] /\ sreq'[x] = sreq[x]
    BY <1>2, <2>1, Types DEF ReadFirstLine
  <2>3. QED
    BY <2>2 DEF RequestInv
<1>3. CASE ReadHeader(c)
  <2>1. sreq' = sreq /\ sstate[c] = "headers"
        /\ \A x \in Connections : x # c => sstate'[x] = sstate[x]
    BY <1>3, Types DEF ReadHeader
  <2>2. QED
    BY <2>1 DEF RequestInv
<1>4. CASE ReadBody(c)
  <2>1. sreq' = sreq /\ sstate'[c] = "writing"
        /\ \A x \in Connections : x # c => sstate'[x] = sstate[x]
    BY <1>4, Types DEF ReadBody
  <2>2. QED
    BY <2>1 DEF RequestInv
<1>5. CASE ServerWrite(c)
  <2>1. sstate'[c] \in {"writing", "firstline"}
        /\ \A x \in Connections : x # c => sstate'[x] = sstate[x] /\ sreq'[x] = sreq[x]
    BY <1>5, Types DEF ServerWrite
  <2>2. QED
    BY <2>1 DEF RequestInv
<1>6. CASE ServerEof(c) \/ ServerError(c)
  <2>1. sstate'[c] = "freed"
        /\ \A x \in Connections : x # c => sstate'[x] = sstate[x] /\ sreq'[x] = sreq[x]
    BY <1>6, Types DEF ServerEof, ServerError, Drop
  <2>2. QED
    BY <2>1 DEF RequestInv
<1>7. QED
  BY <1>1, <1>2, <1>3, <1>4, <1>5, <1>6 DEF ServerStep, ServerRead

-----------------------------------------------------------------------------
(* The theorems                                                            *)

LEMMA InitInv ==
  ASSUME Init
  PROVE  IInv /\ RequestInv
<1> USE HttpLinkAssumption DEF Init
<1>1. FlagsOK
  BY Zenon DEF ClientInit, FlagsOK
<1>2. <<>> \in Seq(Parts) /\ <<>> \in Seq(Requests) /\ Len(<<>>) = 0
      /\ 0 \in 0..MaxRequests /\ 0 \in 0..MaxConnections
  BY EmptySeq
<1>3. TypeOK
  <2>1. ClientTypeOK
    BY <1>1, <1>2 DEF ClientInit, ClientTypeOK, States, Answers
  <2>2. LinkTypeOK /\ ServerTypeOK
    BY <1>2 DEF LinkInit, LinkTypeOK, ServerInit, ServerTypeOK
  <2>3. QED
    BY <2>1, <2>2 DEF TypeOK
<1>4. ClientInv /\ ~aborted
  BY DEF ClientInit, ClientInv
<1>5. LinkInv
  BY <1>2 DEF ClientInit, LinkInit, ServerInit, LinkInv, Reply
<1>6. RequestInv
  BY DEF ServerInit, RequestInv
<1>7. QED
  BY <1>3, <1>4, <1>5, <1>6 DEF IInv

LEMMA StepInv ==
  ASSUME IInv, RequestInv, [Next]_vars
  PROVE  (IInv /\ RequestInv)'
<1>1. CASE ClientNext /\ UNCHANGED server
  <2>1. FlagsOK'
    BY <1>1, FlagsStep DEF IInv, TypeOK, ClientTypeOK
  <2>2. IInv'
    BY <1>1, <2>1, MakeRequestStep, FreeConnectionStep, CleanupCallbackStep,
       ConnectionMadeStep, ConnectFailsStep, ConnectErrorStep, ClientErrorStep,
       ClientWriteStep, ClientReadStep
    DEF ClientNext, ClientEvent
  <2>3. RequestInv'
    BY <1>1 DEF RequestInv, server
  <2>4. QED
    BY <2>2, <2>3
<1>2. ASSUME NEW c \in Connections, (ServerStep(c) \/ ServerError(c)) /\ UNCHANGED client
      PROVE  (IInv /\ RequestInv)'
  BY <1>2, ServerStepsKeepIInv, ServerStepsKeepRequestInv
<1>3. CASE UNCHANGED vars
  <2>1. UNCHANGED <<client, server, link>>
    BY <1>3 DEF vars
  <2>2. FlagsOK'
    BY <2>1, Zenon DEF IInv, TypeOK, ClientTypeOK, FlagsOK, client, bev
  <2>3. TypeOK'
    BY <2>1, <2>2 DEF IInv, TypeOK, ClientTypeOK, LinkTypeOK, ServerTypeOK, client, bev,
       answers, server, link
  <2>4. ClientInv' /\ LinkInv' /\ ~aborted' /\ RequestInv'
    BY <2>1 DEF IInv, ClientInv, LinkInv, RequestInv, Unread, Reply, client, bev, server, link
  <2>5. QED
    BY <2>3, <2>4 DEF IInv
<1>4. QED
  BY <1>1, <1>2, <1>3 DEF Next

\* The inductive invariant: in every state the connection object of
\* KinectDataSender has a socket exactly in the states of http.c that use one, a
\* request exactly when it is busy, and at most one request and one reply on its
\* way, none of them when it is idle.
THEOREM Invariance == Spec => [](IInv /\ RequestInv)
<1>1. Init => IInv /\ RequestInv
  BY InitInv
<1>2. IInv /\ RequestInv /\ [Next]_vars => (IInv /\ RequestInv)'
  BY StepInv
<1>3. QED
  BY <1>1, <1>2, PTL DEF Spec

\* The states of evhttp's connections, their queues and their buffers have the
\* types of http-internal.h.
THEOREM TypeCorrect == Spec => []TypeOK
<1>1. IInv => TypeOK
  BY DEF IInv
<1>2. QED
  BY <1>1, Invariance, PTL

\* No EVUTIL_ASSERT and no event_errx about the outgoing connection's state (http.c:704,
\* 1093, 1110, 1112, 1207, 1368) is reached, whatever the order of reads, writes,
\* errors, timeouts and requests: a write that ends finds the request it wrote, bytes
\* that arrive find a connection that reads, and close detection an idle one.
THEOREM NoAssertionFails == Spec => []AssertionsHold
<1>1. IInv => AssertionsHold
  BY DEF IInv, AssertionsHold
<1>2. QED
  BY <1>1, Invariance, PTL

-----------------------------------------------------------------------------
(* The order of requests.                                                  *)

\* Requests with parts on a connection the server has not handled; all that are
\* handled or on their way.
Nums(s)   == {s[i][1] : i \in DOMAIN s}
Items(s)  == {s[i] : i \in DOMAIN s}
Asked(c)  == IF sstate[c] \in {"headers", "body"} THEN {sreq[c]} ELSE {}
Flight(c) == Nums(up[c]) \cup Asked(c) \cup (IF c = fd THEN Nums(out) ELSE {})
Known     == Items(handled) \cup UNION {Flight(c) : c \in Connections}

Sorted(s) == \A i, j \in DOMAIN s : i < j => s[i] < s[j]

\* Requests are queued in the order they are made, and each has no answer yet.
QueueInv ==
  /\ Sorted(queue) /\ Sorted(failing)
  /\ \A r \in Items(queue) \cup Items(failing) : r <= made /\ answer[r] = "none"
  /\ Items(queue) \cap Items(failing) = {}
  /\ \A r \in Requests : r > made => answer[r] = "none"

\* A connection carries one request, which no other carries and nobody handled;
\* what waits in the queue was made after all that was ever sent.
FlightInv ==
  /\ \A c \in Connections : Unread(c) <= 3
  /\ \A c \in Connections : \A r, q \in Flight(c) : r = q
  /\ \A c, d \in Connections : c # d => Flight(c) \cap Flight(d) = {}
  /\ \A c \in Connections : Flight(c) \cap Items(handled) = {}
  /\ \A q \in Known : q <= made
  /\ fd # 0 => \A r \in Flight(fd) : queue # <<>> /\ r = Head(queue)
  /\ \A q \in Known, r \in Items(queue) : q < r \/ (q = r /\ fd # 0 /\ r = Head(queue))

\* A request on a connection that was lost has failed, or it is the newest of a
\* connection object that was freed.
OrderInv ==
  /\ \A c \in Connections : \A r \in Flight(c) :
       answer[r] = "error" \/ ((c = fd \/ state = "freed") /\ \A q \in Known : q <= r)
  /\ OvertakenHasFailed

\* What comes back is the reply to the request at the head of the queue.
ReplyInv ==
  /\ \A i, j \in DOMAIN handled : handled[i] = handled[j] => i = j
  /\ fd # 0 => /\ \A r \in Nums(sout[fd]) \cup Nums(down[fd]) :
                    queue # <<>> /\ r = Head(queue) /\ r \in Items(handled)
               /\ state = "headers" =>
                    queue # <<>> /\ response = Head(queue) /\ response \in Items(handled)

SeqInv == QueueInv /\ FlightInv /\ OrderInv /\ ReplyInv

-----------------------------------------------------------------------------
(* The numbers in a sequence of parts                                      *)

LEMMA NumsEmpty == Nums(<<>>) = {} /\ Items(<<>>) = {}
  BY DEF Nums, Items

LEMMA ItemsType ==
  ASSUME NEW S, NEW s \in Seq(S)
  PROVE  /\ Len(s) \in Nat /\ DOMAIN s = 1..Len(s) /\ Items(s) \subseteq S
         /\ \A i \in 1..Len(s) : s[i] \in S
  BY ElementOfSeq, LenProperties DEF Items

LEMMA NumsType ==
  ASSUME NEW s \in Seq(Parts)
  PROVE  Nums(s) \subseteq Requests
  BY ElementOfSeq, LenProperties DEF Nums, Parts

LEMMA NumsTail ==
  ASSUME NEW s \in Seq(Parts), s # <<>>
  PROVE  Nums(Tail(s)) \subseteq Nums(s) /\ Head(s)[1] \in Nums(s)
<1>1. Len(s) \in Nat /\ DOMAIN s = 1..Len(s) /\ Len(s) > 0
  BY LenProperties, EmptyLen
<1>2. Head(s) = s[1] /\ 1 \in 1..Len(s)
  BY <1>1, HeadTailProperties
<1>3. Tail(s) \in Seq(Parts) /\ DOMAIN Tail(s) = 1..(Len(s) - 1)
  BY <1>1, HeadTailProperties, LenProperties
<1>4. \A i \in 1..(Len(s) - 1) : Tail(s)[i] = s[i + 1] /\ i + 1 \in 1..Len(s)
  BY <1>1, HeadTailProperties
<1>5. QED
  BY <1>1, <1>2, <1>3, <1>4 DEF Nums

\* What the two parts of a cut sequence hold.
LEMMA CutElements ==
  ASSUME NEW S, NEW s \in Seq(S), NEW n \in 0..Len(s)
  PROVE  /\ Len(s) \in Nat /\ DOMAIN s = 1..Len(s)
         /\ DOMAIN SubSeq(s, 1, n) = 1..n /\ DOMAIN SubSeq(s, n + 1, Len(s)) = 1..(Len(s) - n)
         /\ \A i \in 1..n : SubSeq(s, 1, n)[i] = s[i]
         /\ \A i \in 1..(Len(s) - n) : SubSeq(s, n + 1, Len(s))[i] = s[n + i]
<1>1. Len(s) \in Nat /\ DOMAIN s = 1..Len(s) /\ \A i \in 1..Len(s) : s[i] \in S
  BY LenProperties, ElementOfSeq
<1>2. \A i \in 1..n : SubSeq(s, 1, n)[i] = s[i]
  <2>1. (\A i \in 1..n : s[i] \in S) /\ 1 \in Int /\ n \in Int
    BY <1>1
  <2>2. \A i \in 1..(n - 1 + 1) : SubSeq(s, 1, n)[i] = s[1 + i - 1]
    BY <2>1, SubSeqProperties
  <2>3. QED
    BY <1>1, <2>2
<1>3. \A i \in 1..(Len(s) - n) : SubSeq(s, n + 1, Len(s))[i] = s[n + i]
  <2>1. (\A i \in (n + 1)..Len(s) : s[i] \in S) /\ n + 1 \in Int /\ Len(s) \in Int
    BY <1>1
  <2>2. \A i \in 1..(Len(s) - (n + 1) + 1) : SubSeq(s, n + 1, Len(s))[i] = s[(n + 1) + i - 1]
    BY <2>1, SubSeqProperties
  <2>3. QED
    BY <1>1, <2>2
<1>4. DOMAIN SubSeq(s, 1, n) = 1..n /\ DOMAIN SubSeq(s, n + 1, Len(s)) = 1..(Len(s) - n)
  BY Cut, LenProperties
<1>5. QED
  BY <1>1, <1>2, <1>3, <1>4

LEMMA NumsCut ==
  ASSUME NEW s \in Seq(Parts), NEW n \in 0..Len(s)
  PROVE  Nums(SubSeq(s, 1, n)) \subseteq Nums(s)
         /\ Nums(SubSeq(s, n + 1, Len(s))) \subseteq Nums(s)
  BY CutElements DEF Nums

LEMMA NumsConcat ==
  ASSUME NEW s \in Seq(Parts), NEW t \in Seq(Parts)
  PROVE  Nums(s \o t) \subseteq Nums(s) \cup Nums(t)
<1>1. Len(s) \in Nat /\ DOMAIN s = 1..Len(s) /\ Len(t) \in Nat /\ DOMAIN t = 1..Len(t)
  BY LenProperties
<1>2. DOMAIN (s \o t) = 1..(Len(s) + Len(t))
  BY <1>1, ConcatProperties, LenProperties
<1>3. \A i \in 1..(Len(s) + Len(t)) :
        (s \o t)[i] = IF i <= Len(s) THEN s[i] ELSE t[i - Len(s)]
  BY ConcatProperties
<1>4. ASSUME NEW i \in 1..(Len(s) + Len(t))
      PROVE  (s \o t)[i][1] \in Nums(s) \cup Nums(t)
  <2>1. CASE i <= Len(s)
    BY <1>1, <1>3, <2>1 DEF Nums
  <2>2. CASE ~(i <= Len(s))
    <3>1. i - Len(s) \in 1..Len(t)
      BY <1>1, <2>2
    <3>2. QED
      BY <1>1, <1>3, <2>2, <3>1 DEF Nums
  <2>3. QED
    BY <2>1, <2>2
<1>5. QED
  BY <1>2, <1>4 DEF Nums

LEMMA NumsMessages ==
  ASSUME NEW r \in Requests
  PROVE  Nums(RequestParts(r)) = {r} /\ Nums(ReplyParts(r)) = {r}
<1>1. DOMAIN RequestParts(r) = 1..3 /\ DOMAIN ReplyParts(r) = 1..2
  BY DEF RequestParts, ReplyParts
<1>2. \A i \in 1..3 : RequestParts(r)[i][1] = r
  BY DEF RequestParts
<1>3. \A i \in 1..2 : ReplyParts(r)[i][1] = r
  BY DEF ReplyParts
<1>4. QED
  BY <1>1, <1>2, <1>3 DEF Nums

-----------------------------------------------------------------------------
(* What is on its way, and where it may go                                 *)

LEMMA KnownIs ==
  /\ \A q : q \in Known <=> q \in Items(handled) \/ \E c \in Connections : q \in Flight(c)
  /\ \A q : q \in Known' <=> q \in Items(handled)' \/ \E c \in Connections : q \in Flight(c)'
<1>1. \A q : q \in Known <=> q \in Items(handled) \/ \E c \in Connections : q \in Flight(c)
  BY DEF Known
<1>2. Known' = Items(handled)' \cup UNION {Flight(c)' : c \in Connections}
  BY DEF Known
<1>3. QED
  BY <1>1, <1>2

LEMMA KnownType ==
  ASSUME IInv, RequestInv
  PROVE  /\ \A c \in Connections : Flight(c) \subseteq Requests
         /\ Known \subseteq Requests /\ Items(handled) \subseteq Requests
         /\ Items(queue) \subseteq Requests /\ made \in Nat
<1>1. \A c \in Connections : Nums(up[c]) \subseteq Requests
  BY Types, NumsType
<1>2. \A c \in Connections : Asked(c) \subseteq Requests
  BY DEF RequestInv, Asked
<1>3. Nums(out) \subseteq Requests
  BY Types, NumsType
<1>4. Items(handled) \subseteq Requests /\ Items(queue) \subseteq Requests
  BY Types, ElementOfSeq, LenProperties DEF Items
<1>5. \A c \in Connections : Flight(c) \subseteq Requests
  BY <1>1, <1>2, <1>3 DEF Flight
<1>6. made \in Nat
  BY Types, HttpLinkAssumption
<1>7. QED
  BY <1>4, <1>5, <1>6, KnownIs

\* Steps in which nothing new is sent on a connection or handled.
LEMMA FlightShrinks ==
  ASSUME IInv, RequestInv, SeqInv, QueueInv',
         fd' = fd, handled' = handled, state = "freed" => state' = "freed",
         \A c \in Connections : Flight(c)' \subseteq Flight(c) /\ Unread(c)' <= 3,
         made' \in Nat, made <= made',
         \A r \in Requests : answer[r] = "error" => answer'[r] = "error",
         \A r \in Items(queue)' : r \in Items(queue) \/ (r \in Nat /\ r > made),
         queue # <<>> => queue' # <<>> /\ Head(queue') = Head(queue),
         fd # 0 => \A r \in Nums(sout'[fd]) \cup Nums(down'[fd]) :
                      r \in Nums(sout[fd]) \cup Nums(down[fd]),
         fd # 0 /\ state' = "headers" =>
           queue' # <<>> /\ response' = Head(queue') /\ response' \in Items(handled)
  PROVE  SeqInv'
<1>1. Items(handled)' = Items(handled)
  BY DEF Items
<1>2. \A q \in Known' : q \in Known /\ q \in Nat /\ q <= made
  BY <1>1, KnownIs, KnownType DEF SeqInv, FlightInv, Requests
<1>3. FlightInv'
  <2>1. \A c \in Connections : Unread(c)' <= 3
    OBVIOUS
  <2>2. \A c \in Connections : \A r, q \in Flight(c)' : r = q
    BY DEF SeqInv, FlightInv
  <2>3. \A c, d \in Connections : c # d => Flight(c)' \cap Flight(d)' = {}
    BY DEF SeqInv, FlightInv
  <2>4. \A c \in Connections : Flight(c)' \cap Items(handled)' = {}
    BY <1>1 DEF SeqInv, FlightInv
  <2>5. \A q \in Known' : q <= made'
    BY <1>2, KnownType
  <2>6. fd' # 0 => \A r \in Flight(fd)' : queue' # <<>> /\ r = Head(queue')
    <3>1. fd # 0 => fd \in Connections
      BY Types DEF Connections
    <3>2. fd # 0 => \A r \in Flight(fd)' : r \in Flight(fd)
      BY <3>1
    <3>3. fd # 0 => \A r \in Flight(fd) : queue # <<>> /\ r = Head(queue)
      BY DEF SeqInv, FlightInv
    <3>4. QED
      BY <3>2, <3>3
  <2>7. \A q \in Known', r \in Items(queue)' :
          q < r \/ (q = r /\ fd' # 0 /\ r = Head(queue'))
    <3> SUFFICES ASSUME NEW q \in Known', NEW r \in Items(queue)'
                 PROVE  q < r \/ (q = r /\ fd' # 0 /\ r = Head(queue'))
      OBVIOUS
    <3>1. CASE r \in Items(queue)
      <4>1. q < r \/ (q = r /\ fd # 0 /\ r = Head(queue))
        BY <1>2, <3>1 DEF SeqInv, FlightInv
      <4>2. queue # <<>>
        BY <3>1, NumsEmpty
      <4>3. QED
        BY <4>1, <4>2
    <3>2. CASE r \in Nat /\ r > made
      BY <1>2, <3>2, KnownType
    <3>3. QED
      BY <3>1, <3>2
  <2>8. QED
    BY <2>1, <2>2, <2>3, <2>4, <2>5, <2>6, <2>7 DEF FlightInv
<1>4. OrderInv'
  <2>1. ASSUME NEW c \in Connections, NEW r \in Flight(c)'
        PROVE  answer'[r] = "error"
               \/ ((c = fd' \/ state' = "freed") /\ \A q \in Known' : q <= r)
    <3>1. r \in Flight(c) /\ r \in Requests
      BY <2>1, KnownType
    <3>2. CASE answer[r] = "error"
      BY <3>1, <3>2
    <3>3. CASE (c = fd \/ state = "freed") /\ \A q \in Known : q <= r
      BY <1>2, <3>3
    <3>4. QED
      BY <3>1, <3>2, <3>3 DEF SeqInv, OrderInv
  <2>2. OvertakenHasFailed'
    <3>1. \A j \in DOMAIN handled : handled[j] \in Requests
      BY KnownType DEF Items
    <3>2. QED
      BY <3>1 DEF SeqInv, OrderInv, OvertakenHasFailed
  <2>3. QED
    BY <2>1, <2>2 DEF OrderInv
<1>5. ReplyInv'
  <2>1. \A i, j \in DOMAIN handled' : handled'[i] = handled'[j] => i = j
    BY DEF SeqInv, ReplyInv
  <2>2. fd' # 0 => \A r \in Nums(sout'[fd']) \cup Nums(down'[fd']) :
                     queue' # <<>> /\ r = Head(queue') /\ r \in Items(handled')
    <3>1. fd # 0 => \A r \in Nums(sout[fd]) \cup Nums(down[fd]) :
                      queue # <<>> /\ r = Head(queue) /\ r \in Items(handled)
      BY DEF SeqInv, ReplyInv
    <3>2. QED
      BY <1>1, <3>1
  <2>3. QED
    BY <1>1, <2>1, <2>2 DEF ReplyInv
<1>6. QED
  BY <1>3, <1>4, <1>5 DEF SeqInv

\* The connection is closed: what it carried has failed, or its object is freed.
LEMMA FlightLost ==
  ASSUME IInv, RequestInv, SeqInv, QueueInv', state # "freed", fd' = 0, out' = <<>>,
         UNCHANGED <<server, link>>,
         made' \in Nat, made <= made',
         \A r \in Requests : answer[r] = "error" => answer'[r] = "error",
         \A r \in Items(queue)' : r \in Items(queue) \/ (r \in Nat /\ r > made),
         fd # 0 /\ queue # <<>> => Head(queue) \notin Items(queue)',
         fd # 0 => \A r \in Flight(fd) : answer'[r] = "error" \/ state' = "freed"
  PROVE  SeqInv'
<1>1. handled' = handled /\ Items(handled)' = Items(handled) /\ up' = up /\ sstate' = sstate
      /\ sreq' = sreq
  BY DEF Items, server, link
<1>2. \A c \in Connections : Flight(c)' \subseteq Flight(c) /\ Unread(c)' = Unread(c)
  <2>1. Nums(out') = {}
    BY NumsEmpty
  <2>2. \A c \in Connections : Asked(c)' = Asked(c) /\ Unread(c)' = Unread(c)
    BY <1>1 DEF Asked, Unread
  <2>3. QED
    BY <1>1, <2>1, <2>2 DEF Flight
<1>3. \A q \in Known' : q \in Known /\ q \in Nat /\ q <= made
  BY <1>1, <1>2, KnownIs, KnownType DEF SeqInv, FlightInv, Requests
<1>4. FlightInv'
  <2>1. \A c \in Connections : Unread(c)' <= 3
    BY <1>2 DEF SeqInv, FlightInv
  <2>2. \A c \in Connections : \A r, q \in Flight(c)' : r = q
    BY <1>2 DEF SeqInv, FlightInv
  <2>3. \A c, d \in Connections : c # d => Flight(c)' \cap Flight(d)' = {}
    BY <1>2 DEF SeqInv, FlightInv
  <2>4. \A c \in Connections : Flight(c)' \cap Items(handled)' = {}
    BY <1>1, <1>2 DEF SeqInv, FlightInv
  <2>5. \A q \in Known' : q <= made'
    BY <1>3, KnownType
  <2>6. ASSUME NEW q \in Known', NEW r \in Items(queue)'
        PROVE  q < r
    <3>1. CASE r \in Items(queue)
      <4>1. q < r \/ (q = r /\ fd # 0 /\ r = Head(queue))
        BY <1>3, <2>6, <3>1 DEF SeqInv, FlightInv
      <4>2. queue # <<>>
        BY <3>1, NumsEmpty
      <4>3. QED
        BY <2>6, <4>1, <4>2
    <3>2. CASE r \in Nat /\ r > made
      BY <1>3, <2>6, <3>2, KnownType
    <3>3. QED
      BY <2>6, <3>1, <3>2
  <2>7. QED
    BY <2>1, <2>2, <2>3, <2>4, <2>5, <2>6 DEF FlightInv
<1>5. OrderInv'
  <2>1. ASSUME NEW c \in Connections, NEW r \in Flight(c)'
        PROVE  answer'[r] = "error"
               \/ ((c = fd' \/ state' = "freed") /\ \A q \in Known' : q <= r)
    <3>1. r \in Flight(c) /\ r \in Requests
      BY <1>2, <2>1, KnownType
    <3>2. CASE answer[r] = "error"
      BY <3>1, <3>2
    <3>3. CASE c = fd /\ \A q \in Known : q <= r
      <4>1. fd # 0
        BY <3>3 DEF Connections
      <4>2. answer'[r] = "error" \/ state' = "freed"
        BY <3>1, <3>3, <4>1
      <4>3. QED
        BY <1>3, <3>3, <4>2
    <3>4. QED
      BY <3>1, <3>2, <3>3 DEF SeqInv, OrderInv
  <2>2. OvertakenHasFailed'
    <3>1. \A j \in DOMAIN handled : handled[j] \in Requests
      BY KnownType DEF Items
    <3>2. QED
      BY <1>1, <3>1 DEF SeqInv, OrderInv, OvertakenHasFailed
  <2>3. QED
    BY <2>1, <2>2 DEF OrderInv
<1>6. ReplyInv'
  BY <1>1 DEF SeqInv, ReplyInv
<1>7. QED
  BY <1>4, <1>5, <1>6 DEF SeqInv

\* Requests whose callback reports that there is no reply had no answer before.
FailsSome(how) ==
  \E rs \in SUBSET (1..made') :
    (\A r \in rs : answer[r] = "none") /\ answer' = Answered(rs, how)

\* What evhttp_connection_connect makes of a queue.
LEMMA ConnectQueue ==
  ASSUME QueueInv, answer \in Answers, failing \in Seq(Requests),
         made \in Nat, made' \in Nat, made <= made',
         NEW q \in Seq(Requests), Sorted(q),
         \A r \in Items(q) : r <= made' /\ answer[r] = "none",
         Items(q) \cap Items(failing) = {}, failing' = failing,
         NEW lost \in SUBSET Requests, lost \cap Items(q) = {}, lost \cap Items(failing) = {},
         \A r \in lost : r <= made' /\ answer[r] = "none",
         NEW k \in 0..Len(q), queue' = SubSeq(q, k + 1, Len(q)),
         answer' = Answered(lost \cup {q[i] : i \in 1..k}, "error")
  PROVE  /\ QueueInv' /\ FailsSome("error")
         /\ Items(queue)' \subseteq Items(q)
         /\ \A r \in Requests : answer[r] = "error" => answer'[r] = "error"
         /\ \A r \in lost : answer'[r] = "error"
<1> DEFINE rs == lost \cup {q[i] : i \in 1..k}
<1>1. /\ Len(q) \in Nat /\ DOMAIN q = 1..Len(q) /\ DOMAIN queue' = 1..(Len(q) - k)
      /\ \A i \in 1..(Len(q) - k) : queue'[i] = q[k + i] /\ k + i \in 1..Len(q)
  BY CutElements
<1>2. \A i \in 1..Len(q) : q[i] \in Requests
  BY <1>1, ElementOfSeq
<1>3. \A i \in 1..k : q[i] \in Items(q)
  BY <1>1 DEF Items
<1>4. rs \subseteq Requests /\ \A r \in rs : r <= made' /\ answer[r] = "none"
  BY <1>1, <1>2, <1>3
<1>5. \A i \in DOMAIN queue' : queue'[i] \in Items(q)
  BY <1>1 DEF Items
<1>6. Items(queue)' \subseteq Items(q)
  BY <1>5 DEF Items
<1>7. \A r \in Items(queue)' : r \notin rs
  <2>1. ASSUME NEW i \in 1..(Len(q) - k), NEW j \in 1..k
        PROVE  queue'[i] # q[j]
    <3>1. q[j] < q[k + i]
      <4>1. j \in DOMAIN q /\ k + i \in DOMAIN q /\ j < k + i
        BY <1>1
      <4>2. QED
        BY <4>1 DEF Sorted
    <3>2. q[j] \in Nat /\ q[k + i] \in Nat /\ queue'[i] = q[k + i]
      BY <1>1, <1>2 DEF Requests
    <3>3. QED
      BY <3>1, <3>2
  <2>2. ASSUME NEW r \in Items(queue)'
        PROVE  r \notin rs
    <3>1. r \notin lost
      BY <1>6
    <3>2. PICK i \in 1..(Len(q) - k) : r = queue'[i]
      BY <1>1 DEF Items
    <3>3. r \notin {q[j] : j \in 1..k}
      BY <2>1, <3>2
    <3>4. QED
      BY <3>1, <3>3
  <2>3. QED
    BY <2>2
<1>8. answer' = [r \in Requests |-> IF r \in rs THEN "error" ELSE answer[r]]
  BY DEF Answered
<1>9. Sorted(queue)'
  <2>1. ASSUME NEW i \in DOMAIN queue', NEW j \in DOMAIN queue', i < j
        PROVE  queue'[i] < queue'[j]
    <3>1. queue'[i] = q[k + i] /\ queue'[j] = q[k + j]
      BY <1>1
    <3>2. k + i \in DOMAIN q /\ k + j \in DOMAIN q /\ k + i < k + j
      BY <1>1, <2>1
    <3>3. q[k + i] < q[k + j]
      BY <3>2 DEF Sorted
    <3>4. QED
      BY <3>1, <3>3
  <2>2. QED
    BY <2>1 DEF Sorted
<1>10. QueueInv'
  <2>1. Sorted(failing)' /\ Items(failing)' = Items(failing)
    BY DEF QueueInv, Sorted, Items
  <2>2. \A r \in Items(queue)' : r <= made' /\ answer'[r] = "none"
    <3>1. \A r \in Items(q) : r \in Requests
      BY <1>1, <1>2 DEF Items
    <3> HIDE DEF rs
    <3>2. QED
      BY <1>6, <1>7, <1>8, <3>1
  <2>3. \A r \in Items(failing) : r \notin rs /\ answer[r] = "none" /\ r <= made
    BY <1>3 DEF QueueInv
  <2>4. \A r \in Items(failing) : answer'[r] = "none" /\ r <= made'
    <3>1. \A r \in Items(failing) : r \in Requests /\ r \in Nat
      <4>1. Items(failing) \subseteq Requests
        BY ItemsType
      <4>2. Requests \subseteq Nat
        BY DEF Requests
      <4>3. QED
        BY <4>1, <4>2
    <3> HIDE DEF rs
    <3>2. QED
      BY <1>8, <2>3, <3>1
  <2>5. \A r \in Requests : r > made' => answer'[r] = "none"
    <3>1. \A r \in Requests : r > made' => r > made /\ ~(r <= made')
      BY DEF Requests
    <3>2. \A r \in Requests : r > made => answer[r] = "none"
      BY DEF QueueInv
    <3> HIDE DEF rs
    <3>3. QED
      BY <1>4, <1>8, <3>1, <3>2
  <2>6. Items(queue)' \cap Items(failing)' = {}
    BY <1>6, <2>1
  <2>7. QED
    BY <1>9, <2>1, <2>2, <2>4, <2>5, <2>6 DEF QueueInv
<1>11. FailsSome("error")
  <2> HIDE DEF rs
  <2>1. rs \in SUBSET (1..made')
    BY <1>4 DEF Requests
  <2>2. answer' = Answered(rs, "error")
    BY <1>8 DEF Answered
  <2>3. QED
    BY <1>4, <2>1, <2>2 DEF FailsSome
<1>12. QED
  <2>1. lost \subseteq rs
    OBVIOUS
  <2> HIDE DEF rs
  <2>2. QED
    BY <1>4, <1>6, <1>8, <1>10, <1>11, <2>1

LEMMA SortedTail ==
  ASSUME NEW s \in Seq(Requests), s # <<>>, Sorted(s)
  PROVE  /\ Tail(s) \in Seq(Requests) /\ Sorted(Tail(s)) /\ Items(Tail(s)) \subseteq Items(s)
         /\ Head(s) \in Items(s) /\ \A r \in Items(Tail(s)) : Head(s) < r
         /\ Len(Tail(s)) < Len(s)
<1>1. Len(s) \in Nat /\ DOMAIN s = 1..Len(s) /\ Len(s) > 0
  BY ItemsType, EmptyLen
<1>2. Head(s) = s[1] /\ 1 \in 1..Len(s)
  BY <1>1
<1>3. Tail(s) \in Seq(Requests) /\ Len(Tail(s)) = Len(s) - 1
      /\ \A i \in 1..Len(Tail(s)) : Tail(s)[i] = s[i + 1]
  BY HeadTailProperties
<1>4. DOMAIN Tail(s) = 1..(Len(s) - 1)
  BY <1>3, LenProperties
<1>5. \A i \in 1..(Len(s) - 1) : Tail(s)[i] = s[i + 1] /\ i + 1 \in 1..Len(s) /\ 1 < i + 1
  BY <1>1, <1>3
<1>6. Sorted(Tail(s))
  <2>1. \A i, j \in 1..(Len(s) - 1) : i < j => i + 1 < j + 1
    BY <1>1
  <2>2. QED
    BY <1>1, <1>4, <1>5, <2>1 DEF Sorted
<1>7. Items(Tail(s)) \subseteq Items(s) /\ Head(s) \in Items(s)
  BY <1>1, <1>2, <1>4, <1>5 DEF Items
<1>8. \A i \in 1..(Len(s) - 1) : s[1] < s[i + 1]
  BY <1>1, <1>2, <1>5 DEF Sorted
<1>9. \A r \in Items(Tail(s)) : Head(s) < r
  BY <1>2, <1>4, <1>5, <1>8 DEF Items
<1>10. QED
  BY <1>1, <1>3, <1>6, <1>7, <1>9

\* A request that failed took its connection with it.
LEMMA FailOrder ==
  ASSUME IInv, RequestInv, SeqInv, queue # <<>>, state # "freed", Fail, UNCHANGED <<server, link>>
  PROVE  SeqInv' /\ FailsSome("error") /\ UNCHANGED <<made, replyOf>>
<1> DEFINE q    == Tail(queue)
           lost == {Head(queue)}
<1>1. UNCHANGED <<closedetect, failing, made, replyOf, aborted>>
  BY DEF Fail
<1>2. q \in Seq(Requests) /\ Sorted(q) /\ Items(q) \subseteq Items(queue)
      /\ Head(queue) \in Items(queue) /\ \A r \in Items(q) : Head(queue) < r
  BY Types, SortedTail DEF SeqInv, QueueInv
<1>3. Head(queue) \in Requests /\ Head(queue) \in Nat /\ Head(queue) \notin Items(q)
  BY <1>2, KnownType DEF Requests
<1>4. \A r \in Items(queue) : r <= made' /\ answer[r] = "none" /\ r \notin Items(failing)
  BY <1>1 DEF SeqInv, QueueInv
<1>5. made \in Nat /\ made' = made /\ fd' = 0 /\ out' = <<>>
  <2>1. Unconnected
    BY Types, FailResult
  <2>2. QED
    BY <1>1, <2>1, KnownType DEF Unconnected
<1>6. PICK k \in 0..Len(q) :
        /\ queue' = SubSeq(q, k + 1, Len(q))
        /\ answer' = Answered(lost \cup {q[i] : i \in 1..k}, "error")
  <2>1. CASE q = <<>> /\ queue' = q /\ answer' = Answered(lost, "error")
    <3>1. 0 \in 0..Len(q) /\ SubSeq(q, 0 + 1, Len(q)) = <<>>
      BY <2>1, SubSeqEmpty
    <3>2. lost \cup {q[i] : i \in 1..0} = lost
      OBVIOUS
    <3>3. QED
      BY <2>1, <3>1, <3>2
  <2>2. ASSUME NEW o \in Outcomes(q), Connect(q, lost, o[1], o[2])
        PROVE  \E k \in 0..Len(q) :
                 /\ queue' = SubSeq(q, k + 1, Len(q))
                 /\ answer' = Answered(lost \cup {q[i] : i \in 1..k}, "error")
    BY <1>2, <2>2, OutcomeType DEF Connect
  <2>3. QED
    BY <2>1, <2>2 DEF Fail
<1>7. /\ QueueInv' /\ FailsSome("error") /\ Items(queue)' \subseteq Items(q)
      /\ \A r \in Requests : answer[r] = "error" => answer'[r] = "error"
      /\ \A r \in lost : answer'[r] = "error"
  <2>1. lost \in SUBSET Requests /\ lost \cap Items(q) = {} /\ lost \cap Items(failing) = {}
        /\ \A r \in lost : r <= made' /\ answer[r] = "none"
    BY <1>2, <1>3, <1>4
  <2>2. Items(q) \cap Items(failing) = {} /\ \A r \in Items(q) : r <= made' /\ answer[r] = "none"
    BY <1>2, <1>4
  <2>3. QueueInv /\ failing' = failing /\ made <= made' /\ made' \in Nat
    BY <1>1, <1>5 DEF SeqInv
  <2> HIDE DEF q, lost
  <2>4. QED
    BY <1>2, <1>5, <1>6, <2>1, <2>2, <2>3, Types, ConnectQueue
<1>8. fd # 0 => \A r \in Flight(fd) : answer'[r] = "error"
  <2>1. fd # 0 => \A r \in Flight(fd) : r = Head(queue)
    BY DEF SeqInv, FlightInv
  <2>2. QED
    BY <1>7, <2>1
<1>9. SeqInv'
  BY <1>2, <1>3, <1>5, <1>7, <1>8, FlightLost
<1>10. QED
  BY <1>1, <1>7, <1>9

LEMMA HeadFirst ==
  ASSUME NEW s \in Seq(Requests), s # <<>>, Sorted(s)
  PROVE  Head(s) \in Items(s) /\ \A r \in Items(s) : r = Head(s) \/ Head(s) < r
<1>1. Len(s) \in Nat /\ DOMAIN s = 1..Len(s) /\ Len(s) > 0 /\ Head(s) = s[1]
  BY ItemsType, EmptyLen
<1>2. \A i \in 1..Len(s) : s[i] = s[1] \/ s[1] < s[i]
  <2>1. \A i \in 1..Len(s) : i = 1 \/ 1 < i
    BY <1>1
  <2>2. QED
    BY <1>1, <2>1 DEF Sorted
<1>3. QED
  BY <1>1, <1>2 DEF Items

\* Without parts to read there is nothing in flight.
LEMMA NoFlight ==
  ASSUME IInv, NEW c \in Connections
  PROVE  /\ Unread(c) = 0 => Nums(up[c]) = {} /\ Asked(c) = {}
         /\ Reply(c) = 0 => Nums(sout[c]) = {} /\ Nums(down[c]) = {}
<1>1. Len(up[c]) \in Nat /\ Len(sout[c]) \in Nat /\ Len(down[c]) \in Nat
  BY Numbers
<1>2. ASSUME Unread(c) = 0
      PROVE  Nums(up[c]) = {} /\ Asked(c) = {}
  <2>1. Read(sstate[c]) \in Nat
    BY DEF Read
  <2>2. Unread(c) = Len(up[c]) + Read(sstate[c])
    BY DEF Unread
  <2>3. \A m, n \in Nat : m + n = 0 => m = 0 /\ n = 0
    OBVIOUS
  <2>4. Len(up[c]) = 0 /\ Read(sstate[c]) = 0
    BY <1>1, <1>2, <2>1, <2>2, <2>3
  <2>5. up[c] = <<>>
    BY <2>4, Types, EmptyLen
  <2>6. QED
    BY <2>4, <2>5, NumsEmpty DEF Read, Asked
<1>3. ASSUME Reply(c) = 0
      PROVE  Nums(sout[c]) = {} /\ Nums(down[c]) = {}
  <2>1. Reply(c) = Len(sout[c]) + Len(down[c])
    BY DEF Reply
  <2>2. \A m, n \in Nat : m + n = 0 => m = 0 /\ n = 0
    OBVIOUS
  <2>3. Len(sout[c]) = 0 /\ Len(down[c]) = 0
    BY <1>1, <1>3, <2>1, <2>2
  <2>4. sout[c] = <<>> /\ down[c] = <<>>
    BY <2>3, Types, EmptyLen
  <2>5. QED
    BY <2>4, NumsEmpty
<1>4. QED
  BY <1>2, <1>3

\* The next request is sent on a connection that carries nothing.
LEMMA FlightStarts ==
  ASSUME IInv, RequestInv, SeqInv, QueueInv', UNCHANGED <<server, up>>,
         state # "freed", state' = "writing", fd' \in Connections, fd = 0 \/ fd = fd',
         queue' # <<>>, queue' \in Seq(Requests), out' = RequestParts(Head(queue')),
         made' \in Nat, made <= made', \A q \in Known : q < Head(queue'),
         Nums(up[fd']) = {}, Asked(fd') = {}, Nums(sout[fd']) = {}, Nums(down'[fd']) = {},
         \A r \in Requests : answer[r] = "error" => answer'[r] = "error"
  PROVE  SeqInv'
<1> DEFINE h == Head(queue')
<1>1. handled' = handled /\ Items(handled)' = Items(handled) /\ up' = up /\ sstate' = sstate
      /\ sreq' = sreq /\ sout' = sout
  BY DEF Items, server
<1>2. h \in Items(queue)' /\ h \in Requests /\ h \in Nat /\ h <= made'
      /\ \A r \in Items(queue)' : r \in Nat /\ (r = h \/ h < r)
  <2>1. Sorted(queue')
    BY DEF QueueInv, Sorted
  <2>2. Items(queue)' = Items(queue')
    BY DEF Items
  <2>3. h \in Items(queue') /\ \A r \in Items(queue') : r = h \/ h < r
    BY <2>1, HeadFirst
  <2>4. Items(queue') \subseteq Requests
    BY ItemsType
  <2>5. h <= made'
    BY <2>2, <2>3 DEF QueueInv
  <2>6. QED
    BY <2>2, <2>3, <2>4, <2>5 DEF Requests
<1>3. \A c \in Connections : Asked(c)' = Asked(c) /\ Unread(c)' = Unread(c)
  BY <1>1 DEF Asked, Unread
<1>4. \A c \in Connections : c # fd' => Flight(c)' = Flight(c)
  BY <1>1, <1>3 DEF Flight, Connections
<1>5. Flight(fd)' = {h}
  <2>1. Nums(out') = {h}
    BY <1>2, NumsMessages
  <2>2. Asked(fd)' = {}
    BY <1>1 DEF Asked
  <2>3. QED
    BY <1>1, <2>1, <2>2 DEF Flight
<1>6. \A q \in Known : q \in Nat /\ q < h /\ q <= made
  BY KnownType DEF SeqInv, FlightInv, Requests
<1>7. \A q \in Known' : q = h \/ q \in Known
  BY <1>1, <1>4, <1>5, KnownIs
<1>8. (\A q \in Items(handled) : q \in Known) /\ \A c \in Connections : \A q \in Flight(c) : q \in Known
  BY KnownIs
<1>9. h \notin Items(handled) /\ \A c \in Connections : h \notin Flight(c)
  BY <1>2, <1>6, <1>8
<1>10. FlightInv'
  <2>1. \A c \in Connections : Unread(c)' <= 3
    BY <1>3 DEF SeqInv, FlightInv
  <2>2. \A c \in Connections : \A r, q \in Flight(c)' : r = q
    BY <1>4, <1>5 DEF SeqInv, FlightInv
  <2>3. \A c, d \in Connections : c # d => Flight(c)' \cap Flight(d)' = {}
    BY <1>4, <1>5, <1>9 DEF SeqInv, FlightInv
  <2>4. \A c \in Connections : Flight(c)' \cap Items(handled)' = {}
    BY <1>1, <1>4, <1>5, <1>9 DEF SeqInv, FlightInv
  <2>5. \A q \in Known' : q <= made'
    BY <1>2, <1>6, <1>7, KnownType
  <2>6. \A r \in Flight(fd)' : queue' # <<>> /\ r = Head(queue')
    BY <1>5
  <2>7. \A q \in Known', r \in Items(queue)' :
          q < r \/ (q = r /\ fd' # 0 /\ r = Head(queue'))
    <3>1. fd' # 0
      BY DEF Connections
    <3>2. QED
      BY <1>2, <1>6, <1>7, <3>1
  <2>8. QED
    BY <2>1, <2>2, <2>3, <2>4, <2>5, <2>6, <2>7 DEF FlightInv
<1>11. OrderInv'
  <2>1. ASSUME NEW c \in Connections, NEW r \in Flight(c)'
        PROVE  answer'[r] = "error"
               \/ ((c = fd' \/ state' = "freed") /\ \A q \in Known' : q <= r)
    <3>1. CASE c = fd'
      BY <1>2, <1>5, <1>6, <1>7, <2>1, <3>1
    <3>2. CASE c # fd'
      <4>1. r \in Flight(c) /\ r \in Requests /\ c # fd
        BY <1>4, <2>1, <3>2, KnownType DEF Connections
      <4>2. answer[r] = "error"
        BY <4>1 DEF SeqInv, OrderInv
      <4>3. QED
        BY <4>1, <4>2
    <3>3. QED
      BY <3>1, <3>2
  <2>2. OvertakenHasFailed'
    <3>1. \A j \in DOMAIN handled : handled[j] \in Requests
      BY KnownType DEF Items
    <3>2. QED
      BY <1>1, <3>1 DEF SeqInv, OrderInv, OvertakenHasFailed
  <2>3. QED
    BY <2>1, <2>2 DEF OrderInv
<1>12. ReplyInv'
  BY <1>1 DEF SeqInv, ReplyInv
<1>13. QED
  BY <1>10, <1>11, <1>12 DEF SeqInv

\* The last reply was read and the connection is idle.
LEMMA FlightEnds ==
  ASSUME IInv, RequestInv, SeqInv, QueueInv', UNCHANGED <<server, up, out, fd, made>>,
         fd # 0, Flight(fd) = {}, queue' = <<>>, state' = "idle", state # "freed",
         Nums(sout[fd]) = {}, Nums(down'[fd]) = {},
         \A r \in Requests : answer[r] = "error" => answer'[r] = "error"
  PROVE  SeqInv'
<1>1. handled' = handled /\ Items(handled)' = Items(handled) /\ up' = up /\ sstate' = sstate
      /\ sreq' = sreq /\ sout' = sout
  BY DEF Items, server
<1>2. \A c \in Connections : Flight(c)' = Flight(c) /\ Unread(c)' = Unread(c)
  BY <1>1 DEF Flight, Asked, Unread
<1>3. \A q : q \in Known' <=> q \in Known
  BY <1>1, <1>2, KnownIs
<1>4. Items(queue)' = {}
  BY NumsEmpty DEF Items
<1>5. FlightInv'
  <2>1. \A c \in Connections : Unread(c)' <= 3
    BY <1>2 DEF SeqInv, FlightInv
  <2>2. \A c \in Connections : \A r, q \in Flight(c)' : r = q
    BY <1>2 DEF SeqInv, FlightInv
  <2>3. \A c, d \in Connections : c # d => Flight(c)' \cap Flight(d)' = {}
    BY <1>2 DEF SeqInv, FlightInv
  <2>4. \A c \in Connections : Flight(c)' \cap Items(handled)' = {}
    BY <1>1, <1>2 DEF SeqInv, FlightInv
  <2>5. \A q \in Known' : q <= made'
    BY <1>3 DEF SeqInv, FlightInv
  <2>6. Flight(fd)' = {}
    <3>1. fd \in Connections
      BY Types DEF Connections
    <3>2. QED
      BY <1>2, <3>1
  <2>7. QED
    BY <1>4, <2>1, <2>2, <2>3, <2>4, <2>5, <2>6 DEF FlightInv
<1>6. OrderInv'
  <2>1. ASSUME NEW c \in Connections, NEW r \in Flight(c)'
        PROVE  answer'[r] = "error"
    <3>1. r \in Flight(c) /\ r \in Requests /\ c # fd
      BY <1>2, <2>1, KnownType
    <3>2. answer[r] = "error"
      BY <3>1 DEF SeqInv, OrderInv
    <3>3. QED
      BY <3>1, <3>2
  <2>2. OvertakenHasFailed'
    <3>1. \A j \in DOMAIN handled : handled[j] \in Requests
      BY KnownType DEF Items
    <3>2. QED
      BY <1>1, <3>1 DEF SeqInv, OrderInv, OvertakenHasFailed
  <2>3. QED
    BY <2>1, <2>2 DEF OrderInv
<1>7. ReplyInv'
  BY <1>1 DEF SeqInv, ReplyInv
<1>8. QED
  BY <1>5, <1>6, <1>7 DEF SeqInv

-----------------------------------------------------------------------------
(* Steps of the client, seen from the requests                             *)

\* At most a request is made, and some get their callback, without a reply.
Tells == /\ made' \in {made, made + 1} /\ made' <= MaxRequests /\ replyOf' = replyOf
         /\ \E how \in {"error", "unconnected", "refused"} : FailsSome(how)

LEMMA NoAnswers ==
  ASSUME IInv, UNCHANGED answer
  PROVE  FailsSome("error")
<1>1. answer' = Answered({}, "error")
  BY Types DEF Answered, Answers
<1>2. QED
  BY <1>1 DEF FailsSome

\* A request is made: it is newer than all others.
LEMMA NewRequest ==
  ASSUME IInv, RequestInv, SeqInv, made < MaxRequests
  PROVE  /\ made + 1 \in Requests /\ made + 1 \in Nat /\ answer[made + 1] = "none"
         /\ Append(queue, made + 1) \in Seq(Requests) /\ Sorted(Append(queue, made + 1))
         /\ Items(Append(queue, made + 1)) = Items(queue) \cup {made + 1}
         /\ Append(queue, made + 1) # <<>>
         /\ Head(Append(queue, made + 1)) = IF queue = <<>> THEN made + 1 ELSE Head(queue)
         /\ made + 1 \notin Items(queue) /\ made + 1 \notin Items(failing)
         /\ \A q \in Known : q < made + 1
<1> DEFINE r == made + 1
           q == Append(queue, r)
<1>1. made \in Nat /\ r \in Requests /\ r \in Nat /\ r > made
  BY KnownType, HttpLinkAssumption DEF Requests
<1>2. queue \in Seq(Requests) /\ Len(queue) \in Nat /\ DOMAIN queue = 1..Len(queue)
      /\ Items(queue) \subseteq Requests /\ \A i \in 1..Len(queue) : queue[i] \in Requests
  BY Types, ItemsType
<1>3. q \in Seq(Requests) /\ Len(q) = Len(queue) + 1 /\ q[Len(queue) + 1] = r
      /\ \A i \in 1..Len(queue) : q[i] = queue[i]
  BY <1>1, <1>2, AppendProperties
<1>4. DOMAIN q = 1..(Len(queue) + 1)
  BY <1>3, LenProperties
<1>5. \A i \in 1..Len(queue) : queue[i] <= made
  BY <1>2 DEF SeqInv, QueueInv, Items
<1>6. Sorted(q)
  <2>1. ASSUME NEW i \in DOMAIN q, NEW j \in DOMAIN q, i < j
        PROVE  q[i] < q[j]
    <3>1. i \in 1..Len(queue)
      BY <1>2, <1>4, <2>1
    <3>2. CASE j \in 1..Len(queue)
      BY <1>2, <1>3, <2>1, <3>1, <3>2 DEF SeqInv, QueueInv, Sorted
    <3>3. CASE j = Len(queue) + 1
      <4>1. queue[i] \in Nat /\ queue[i] <= made
        BY <1>2, <1>5, <3>1 DEF Requests
      <4>2. QED
        BY <1>1, <1>3, <3>1, <3>3, <4>1
    <3>4. QED
      BY <1>2, <1>4, <3>2, <3>3
  <2>2. QED
    BY <2>1 DEF Sorted
<1>7. Items(q) = Items(queue) \cup {r}
  <2>1. \A i \in 1..(Len(queue) + 1) : i \in 1..Len(queue) \/ i = Len(queue) + 1
    BY <1>2
  <2>2. Len(queue) + 1 \in 1..(Len(queue) + 1) /\ \A i \in 1..Len(queue) : i \in 1..(Len(queue) + 1)
    BY <1>2
  <2> HIDE DEF q, r
  <2>3. QED
    BY <1>2, <1>3, <1>4, <2>1, <2>2 DEF Items
<1>8. q # <<>> /\ Head(q) = IF queue = <<>> THEN r ELSE Head(queue)
  <2>1. q # <<>>
    BY <1>1, <1>2, AppendProperties
  <2>2. Head(q) = q[1]
    BY <1>3, <2>1
  <2>3. CASE queue = <<>>
    BY <1>3, <2>2, <2>3
  <2>4. CASE queue # <<>>
    <3>1. Len(queue) > 0
      BY <1>2, <2>4, EmptyLen
    <3>2. 1 \in 1..Len(queue) /\ Head(queue) = queue[1]
      BY <1>2, <2>4, <3>1
    <3>3. QED
      BY <1>3, <2>2, <2>4, <3>2
  <2>5. QED
    BY <2>1, <2>3, <2>4
<1>9. answer[r] = "none" /\ r \notin Items(queue) /\ r \notin Items(failing)
  <2>1. \A i \in Items(queue) \cup Items(failing) : i <= made
    BY DEF SeqInv, QueueInv
  <2>2. ~(r <= made)
    BY <1>1
  <2>3. answer[r] = "none"
    BY <1>1 DEF SeqInv, QueueInv
  <2>4. QED
    BY <2>1, <2>2, <2>3
<1>10. \A k \in Known : k < r
  BY <1>1, KnownType DEF SeqInv, FlightInv, Requests
<1>11. QED
  BY <1>1, <1>3, <1>6, <1>7, <1>8, <1>9, <1>10

\* The queue it joins is a good one.
LEMMA JoinQueue ==
  ASSUME IInv, RequestInv, SeqInv, made < MaxRequests, made' = made + 1,
         queue' = Append(queue, made + 1), UNCHANGED <<answer, failing>>
  PROVE  QueueInv'
<1>1. Items(queue)' = Items(queue) \cup {made + 1} /\ Items(failing)' = Items(failing)
      /\ Sorted(queue)' /\ Sorted(failing)'
  BY NewRequest DEF Items, Sorted, SeqInv, QueueInv
<1>2. made \in Nat
  BY KnownType
<1>3. \A r \in Items(queue) \cup Items(failing) : r \in Nat /\ r <= made /\ answer[r] = "none"
  <2>1. Items(queue) \subseteq Requests /\ Items(failing) \subseteq Requests
    BY Types, ItemsType
  <2>2. QED
    BY <2>1 DEF SeqInv, QueueInv, Requests
<1>4. \A r \in Items(queue)' \cup Items(failing)' : r <= made' /\ answer'[r] = "none"
  BY <1>1, <1>2, <1>3, NewRequest
<1>5. Items(queue)' \cap Items(failing)' = {}
  BY <1>1, NewRequest DEF SeqInv, QueueInv
<1>6. \A r \in Requests : r > made' => answer'[r] = "none"
  BY <1>2 DEF SeqInv, QueueInv, Requests
<1>7. QED
  BY <1>1, <1>4, <1>5, <1>6 DEF QueueInv

LEMMA MakeRequestOrder ==
  ASSUME IInv, RequestInv, SeqInv, MakeRequest, UNCHANGED server
  PROVE  SeqInv' /\ Tells
<1> DEFINE r == made + 1
           q == Append(queue, r)
<1>1. made < MaxRequests /\ made' = r /\ state # "freed" /\ UNCHANGED <<failing, replyOf, link>>
      /\ made \in Nat /\ r \in Nat /\ made <= r /\ r <= MaxRequests /\ q = Enqueue(queue, r)
  BY KnownType, HttpLinkAssumption DEF MakeRequest, Usable, Enqueue
<1>2. /\ r \in Requests /\ answer[r] = "none" /\ q \in Seq(Requests) /\ Sorted(q)
      /\ Items(q) = Items(queue) \cup {r} /\ q # <<>>
      /\ Head(q) = IF queue = <<>> THEN r ELSE Head(queue)
      /\ r \notin Items(queue) /\ r \notin Items(failing) /\ \A k \in Known : k < r
  BY <1>1, NewRequest
<1>3. \A k \in Items(q) : k <= made' /\ answer[k] = "none" /\ k \notin Items(failing)
  <2>1. \A k \in Items(queue) : k \in Nat /\ k <= made /\ answer[k] = "none" /\ k \notin Items(failing)
    BY KnownType DEF SeqInv, QueueInv, Requests
  <2>2. QED
    BY <1>1, <1>2, <2>1
<1>4. (\E how \in {"error", "unconnected", "refused"} : FailsSome(how)) => Tells
  BY <1>1 DEF Tells
<1>5. state = "disconnected" => fd = 0
  BY DEF IInv, ClientInv
<1> HIDE DEF r, q
<1>6. CASE state = "disconnected" /\ \E o \in Outcomes(q) \ {<<0, FALSE>>} : Connect(q, {}, o[1], o[2])
  <2>1. PICK k \in 0..Len(q) : queue' = SubSeq(q, k + 1, Len(q)) /\ fd' = 0 /\ out' = <<>>
          /\ answer' = Answered({} \cup {q[i] : i \in 1..k}, "error")
    BY <1>2, <1>6, OutcomeType DEF Connect, CloseSocket
  <2>2. {} \in SUBSET Requests /\ {} \cap Items(q) = {} /\ {} \cap Items(failing) = {}
    OBVIOUS
  <2>3. QueueInv /\ Items(q) \cap Items(failing) = {} /\ failing' = failing
        /\ made \in Nat /\ made' \in Nat /\ made <= made'
        /\ \A j \in Items(q) : j <= made' /\ answer[j] = "none"
    BY <1>1, <1>3 DEF SeqInv
  <2>4. QueueInv' /\ FailsSome("error") /\ Items(queue)' \subseteq Items(q)
        /\ \A j \in Requests : answer[j] = "error" => answer'[j] = "error"
    <3>1. \A j \in {} : j <= made' /\ answer[j] = "none"
      OBVIOUS
    <3>2. answer \in Answers /\ failing \in Seq(Requests)
      BY Types
    <3>3. q \in Seq(Requests) /\ Sorted(q)
      BY <1>2
    <3>4. QED
      BY <2>1, <2>2, <2>3, <3>1, <3>2, <3>3, ConnectQueue
  <2>5. \A j \in Items(queue)' : j \in Items(queue) \/ (j \in Nat /\ j > made)
    BY <1>1, <1>2, <2>4 DEF r
  <2>6. SeqInv'
    BY <1>1, <1>5, <1>6, <2>1, <2>4, <2>5, FlightLost
  <2>7. QED
    BY <1>4, <2>4, <2>6
<1>7. CASE state = "disconnected" /\ Reset /\ answer' = Answered({r}, "refused") /\ UNCHANGED queue
  <2>1. fd' = 0 /\ out' = <<>>
    BY <1>7 DEF Reset, CloseSocket
  <2>2. answer' = [k \in Requests |-> IF k = r THEN "refused" ELSE answer[k]]
    BY <1>7 DEF Answered
  <2>3. QueueInv'
    <3>1. Items(queue)' = Items(queue) /\ Items(failing)' = Items(failing)
          /\ Sorted(queue)' /\ Sorted(failing)'
      BY <1>1, <1>7 DEF Items, Sorted, SeqInv, QueueInv
    <3>2. Items(queue) \subseteq Requests /\ Items(failing) \subseteq Requests
      BY Types, ItemsType
    <3>3. \A k \in Items(queue) \cup Items(failing) : k <= made' /\ answer'[k] = "none"
      <4>1. \A k \in Items(queue) \cup Items(failing) : k <= made /\ answer[k] = "none" /\ k # r
        BY <1>2 DEF SeqInv, QueueInv
      <4>2. QED
        BY <1>1, <2>2, <3>2, <4>1 DEF Requests
    <3>4. \A k \in Requests : k > made' => answer'[k] = "none"
      BY <1>1, <2>2 DEF SeqInv, QueueInv, Requests
    <3>5. QED
      BY <3>1, <3>3, <3>4 DEF SeqInv, QueueInv
  <2>4. FailsSome("refused")
    BY <1>1, <1>2, <1>7 DEF FailsSome, Requests
  <2>5. \A k \in Requests : answer[k] = "error" => answer'[k] = "error"
    BY <1>2, <2>2
  <2>6. SeqInv'
    <3>1. Items(queue)' = Items(queue)
      BY <1>7 DEF Items
    <3>2. QED
      BY <1>1, <1>5, <1>7, <2>1, <2>3, <2>5, <3>1, FlightLost
  <2>7. QED
    BY <1>4, <2>4, <2>6
<1>8. CASE state = "disconnected" /\ closedetect
  BY <1>8 DEF IInv, ClientInv
<1>9. CASE /\ state = "connecting" \/ (evhttp_connected /\ queue # <<>>)
           /\ queue' = q
           /\ UNCHANGED <<state, bev, closedetect, answer, hopeless, aborted>>
  <2>1. fd' = fd /\ out' = out /\ response' = response /\ state' = state /\ answer' = answer
    BY <1>9 DEF bev
  <2>2. QueueInv'
    BY <1>1, <1>9, JoinQueue DEF r, q
  <2>3. \A c \in Connections : Flight(c)' = Flight(c) /\ Unread(c)' <= 3
    <3>1. up' = up /\ sstate' = sstate /\ sreq' = sreq
      BY <1>1 DEF link, server
    <3>2. \A c \in Connections : Unread(c)' = Unread(c) /\ Unread(c) <= 3
      BY <3>1 DEF Unread, SeqInv, FlightInv
    <3>3. QED
      BY <2>1, <3>1, <3>2 DEF Flight, Asked
  <2>4. Items(queue)' = Items(q)
    BY <1>9 DEF Items
  <2>5. sout' = sout /\ down' = down /\ handled' = handled
    BY <1>1 DEF server, link
  <2>6. fd # 0 /\ state' = "headers" =>
          queue' # <<>> /\ response' = Head(queue') /\ response' \in Items(handled)
    <3>1. fd # 0 /\ state = "headers" =>
            queue # <<>> /\ response = Head(queue) /\ response \in Items(handled)
      BY DEF SeqInv, ReplyInv
    <3>2. QED
      BY <1>2, <1>9, <2>1, <3>1
  <2>7. \A k \in Items(queue)' : k \in Items(queue) \/ (k \in Nat /\ k > made)
    BY <1>1, <1>2, <2>4 DEF r
  <2>8. queue # <<>> => queue' # <<>> /\ Head(queue') = Head(queue)
    BY <1>2, <1>9
  <2>9. SeqInv'
    BY <1>1, <2>1, <2>2, <2>3, <2>5, <2>6, <2>7, <2>8, FlightShrinks
  <2>10. QED
    BY <1>4, <2>1, <2>9, NoAnswers
<1>10. CASE /\ evhttp_connected /\ queue = <<>> /\ state = "idle"
            /\ Dispatch(r) /\ UNCHANGED <<fd, connecting, response, aborted>>
            /\ queue' = q /\ UNCHANGED <<answer, hopeless>>
  <2>1. fd # 0 /\ Len(out) = 0 /\ Unread(fd) = 0 /\ Reply(fd) = 0 /\ fd \in Connections
    BY <1>10, Types, Numbers DEF IInv, ClientInv, LinkInv, Connections
  <2>2. out = <<>>
    BY <2>1, Types, EmptyLen
  <2>3. RequestParts(r) \in Seq(Parts)
    BY <1>2, MessageParts
  <2>4. state' = "writing" /\ out' = RequestParts(r)
    BY <1>10, <2>2, <2>3, ConcatEmptySeq DEF Dispatch
  <2>5. QueueInv'
    BY <1>1, <1>10, JoinQueue DEF r, q
  <2>6. Nums(up[fd]) = {} /\ Asked(fd) = {} /\ Nums(sout[fd]) = {} /\ Nums(down[fd]) = {}
    BY <2>1, NoFlight
  <2>7. Head(queue') = r /\ queue' # <<>> /\ queue' \in Seq(Requests)
    BY <1>2, <1>10
  <2>8. fd' = fd /\ up' = up /\ down' = down /\ answer' = answer
    BY <1>1, <1>10 DEF link
  <2>9. SeqInv'
    BY <1>1, <1>2, <1>10, <2>1, <2>4, <2>5, <2>6, <2>7, <2>8, FlightStarts
  <2>10. QED
    BY <1>4, <2>8, <2>9, NoAnswers
<1>11. CASE evhttp_connected /\ queue = <<>> /\ state # "idle"
  BY <1>1, <1>11, Types DEF IInv, ClientInv, evhttp_connected, States
<1>12. QED
  BY <1>1, <1>6, <1>7, <1>8, <1>9, <1>10, <1>11 DEF MakeRequest, r


LEMMA SameQueue ==
  ASSUME SeqInv, UNCHANGED <<queue, failing, answer, made>>
  PROVE  QueueInv'
  BY DEF SeqInv, QueueInv, Sorted, Items

LEMMA NothingTold ==
  ASSUME IInv, UNCHANGED <<made, answer, replyOf>>
  PROVE  Tells
<1>1. FailsSome("error")
  BY NoAnswers
<1>2. made' <= MaxRequests
  BY Types, HttpLinkAssumption
<1>3. QED
  BY <1>1, <1>2 DEF Tells

LEMMA FailureTold ==
  ASSUME IInv, UNCHANGED <<made, replyOf>>, NEW how \in {"error", "unconnected", "refused"},
         FailsSome(how)
  PROVE  Tells
<1>1. made' <= MaxRequests
  BY Types, HttpLinkAssumption
<1>2. QED
  BY <1>1 DEF Tells

LEMMA FreeConnectionOrder ==
  ASSUME IInv, RequestInv, SeqInv, FreeConnection, UNCHANGED server
  PROVE  SeqInv' /\ Tells
<1>1. fd' = 0 /\ out' = <<>> /\ state' = "freed" /\ state # "freed" /\ queue' = <<>>
      /\ UNCHANGED <<failing, made, answer, replyOf, server, link>>
  BY DEF FreeConnection, Usable, CloseSocket, answers
<1>2. made \in Nat /\ made' \in Nat /\ made <= made'
  BY <1>1, KnownType
<1>3. Items(queue)' = {}
  BY <1>1, NumsEmpty DEF Items
<1>4. QueueInv'
  <2>1. Sorted(queue)' /\ Sorted(failing)' /\ Items(failing)' = Items(failing)
    BY <1>1 DEF SeqInv, QueueInv, Sorted, Items
  <2>2. QED
    BY <1>1, <1>3, <2>1 DEF SeqInv, QueueInv
<1>5. SeqInv'
  BY <1>1, <1>2, <1>3, <1>4, FlightLost
<1>6. QED
  BY <1>1, <1>5, NothingTold

LEMMA CleanupCallbackOrder ==
  ASSUME IInv, RequestInv, SeqInv, CleanupCallback, UNCHANGED server
  PROVE  SeqInv' /\ Tells
<1> DEFINE h == Head(failing)
<1>1. failing # <<>> /\ answer' = Answered({h}, "unconnected") /\ failing' = Tail(failing)
      /\ fd' = fd /\ out' = out /\ response' = response
      /\ UNCHANGED <<state, queue, made, replyOf, server, link>>
  BY DEF CleanupCallback, bev
<1>2. /\ Sorted(Tail(failing)) /\ Items(Tail(failing)) \subseteq Items(failing)
      /\ h \in Items(failing) /\ \A r \in Items(Tail(failing)) : h < r
  BY <1>1, Types, SortedTail DEF SeqInv, QueueInv
<1>3. Items(failing) \subseteq Requests /\ Items(queue) \subseteq Requests
  BY Types, ItemsType
<1>4. h \in Requests /\ h \in Nat /\ h <= made /\ answer[h] = "none" /\ h \notin Items(queue)
      /\ h \notin Items(Tail(failing))
  BY <1>2, <1>3 DEF SeqInv, QueueInv, Requests
<1>5. answer' = [r \in Requests |-> IF r = h THEN "unconnected" ELSE answer[r]]
  BY <1>1 DEF Answered
<1>6. Items(failing)' = Items(Tail(failing)) /\ Items(queue)' = Items(queue)
      /\ Sorted(queue)' /\ Sorted(failing)'
  BY <1>1, <1>2 DEF Items, Sorted, SeqInv, QueueInv
<1>7. made \in Nat
  BY KnownType
<1>8. QueueInv'
  <2> HIDE DEF h
  <2>1. \A r \in Items(queue) \cup Items(Tail(failing)) : r <= made /\ answer[r] = "none" /\ r # h
    BY <1>2, <1>4 DEF SeqInv, QueueInv
  <2>2. \A r \in Items(queue)' \cup Items(failing)' : r <= made' /\ answer'[r] = "none"
    BY <1>1, <1>2, <1>3, <1>5, <1>6, <2>1
  <2>3. \A r \in Requests : r > made' => answer'[r] = "none"
    <3>1. \A r \in Requests : r > made => r # h /\ answer[r] = "none"
      BY <1>4, <1>7 DEF SeqInv, QueueInv, Requests
    <3>2. QED
      BY <1>1, <1>5, <3>1
  <2>4. Items(queue)' \cap Items(failing)' = {}
    BY <1>2, <1>6 DEF SeqInv, QueueInv
  <2>5. QED
    BY <1>6, <2>2, <2>3, <2>4 DEF QueueInv
<1>9. \A c \in Connections : Flight(c)' = Flight(c) /\ Unread(c)' <= 3
  <2>1. up' = up /\ sstate' = sstate /\ sreq' = sreq
    BY <1>1 DEF link, server
  <2>2. QED
    BY <1>1, <2>1 DEF Flight, Asked, Unread, SeqInv, FlightInv
<1>10. sout' = sout /\ down' = down /\ handled' = handled
  BY <1>1 DEF server, link
<1>11. \A r \in Requests : answer[r] = "error" => answer'[r] = "error"
  BY <1>4, <1>5
<1>12. fd # 0 /\ state' = "headers" =>
          queue' # <<>> /\ response' = Head(queue') /\ response' \in Items(handled)
  BY <1>1 DEF SeqInv, ReplyInv
<1>13. SeqInv'
  <2> HIDE DEF h
  <2>1. made' \in Nat /\ made <= made'
    BY <1>1, <1>7
  <2>2. QED
    BY <1>1, <1>6, <1>8, <1>9, <1>10, <1>11, <1>12, <2>1, FlightShrinks
<1>14. FailsSome("unconnected")
  <2>1. h \in 1..made' /\ \A r \in {h} : answer[r] = "none"
    BY <1>1, <1>4, <1>7 DEF Requests
  <2> HIDE DEF h
  <2>2. {h} \in SUBSET (1..made')
    BY <2>1
  <2>3. answer' = Answered({h}, "unconnected")
    BY <1>1 DEF h
  <2>4. QED
    BY <2>1, <2>2, <2>3 DEF FailsSome
<1>15. QED
  BY <1>1, <1>13, <1>14, FailureTold

LEMMA ConnectFailsOrder ==
  ASSUME IInv, RequestInv, SeqInv, ConnectFails, UNCHANGED server
  PROVE  SeqInv' /\ Tells
<1>1. fd' = 0 /\ out' = <<>> /\ state # "freed" /\ fd = 0 /\ queue' = <<>> /\ failing' = queue
      /\ UNCHANGED <<made, answer, replyOf, server, link>>
  BY DEF ConnectFails, InLoop, Usable, Reset, CloseSocket, answers, IInv, ClientInv
<1>2. made \in Nat /\ made' \in Nat /\ made <= made'
  BY <1>1, KnownType
<1>3. Items(queue)' = {} /\ Items(failing)' = Items(queue)
  BY <1>1, NumsEmpty DEF Items
<1>4. QueueInv'
  <2>1. Sorted(queue)' /\ Sorted(failing)'
    BY <1>1 DEF SeqInv, QueueInv, Sorted
  <2>2. QED
    BY <1>1, <1>3, <2>1 DEF SeqInv, QueueInv
<1>5. SeqInv'
  BY <1>1, <1>2, <1>3, <1>4, FlightLost
<1>6. QED
  BY <1>1, <1>5, NothingTold

LEMMA ConnectionMadeOrder ==
  ASSUME IInv, RequestInv, SeqInv, ConnectionMade, UNCHANGED server
  PROVE  SeqInv' /\ Tells
<1> DEFINE c == opened + 1
<1>1. c \in Connections /\ c > opened
  <2>1. opened \in 0..MaxConnections /\ MaxConnections \in Nat
    BY Types, Numbers
  <2>2. opened < MaxConnections
    BY DEF ConnectionMade
  <2>3. QED
    BY <2>1, <2>2 DEF Connections
<1>2. queue # <<>> /\ out = <<>> /\ fd = 0 /\ state # "freed"
  BY DEF ConnectionMade, IInv, ClientInv, InLoop, Usable
<1>3. fd' = c /\ Dispatch(Head(queue))
      /\ UNCHANGED <<up, down, queue, failing, made, answer, replyOf, server>>
  BY <1>2 DEF ConnectionMade, answers
<1>4. queue \in Seq(Requests) /\ Head(queue) \in Requests
  BY <1>2, Types, HeadTailProperties
<1>5. state' = "writing" /\ out' = RequestParts(Head(queue))
  <2>1. RequestParts(Head(queue)) \in Seq(Parts)
    BY <1>4, MessageParts
  <2>2. QED
    BY <1>2, <1>3, <2>1, ConcatEmptySeq DEF Dispatch
<1>6. Unread(c) = 0 /\ Reply(c) = 0
  BY <1>1, Quiet DEF Unread, Reply
<1>7. Nums(up[c]) = {} /\ Asked(c) = {} /\ Nums(sout[c]) = {} /\ Nums(down[c]) = {}
  BY <1>1, <1>6, NoFlight
<1>8. \A q \in Known : q < Head(queue)
  <2>1. Head(queue) \in Items(queue)
    BY <1>2, <1>4, HeadFirst DEF SeqInv, QueueInv
  <2>2. QED
    BY <1>2, <2>1 DEF SeqInv, FlightInv
<1>9. QueueInv'
  BY <1>3, SameQueue
<1>10. SeqInv'
  <2> HIDE DEF c
  <2>1. queue' = queue /\ queue' # <<>> /\ queue' \in Seq(Requests) /\ down' = down
        /\ answer' = answer /\ up' = up
    BY <1>2, <1>3, <1>4
  <2>2. made' \in Nat /\ made <= made'
    BY <1>3, KnownType
  <2>3. QED
    BY <1>1, <1>2, <1>3, <1>5, <1>7, <1>8, <1>9, <2>1, <2>2, FlightStarts
<1>11. QED
  BY <1>3, <1>10, NothingTold

LEMMA ConnectErrorOrder ==
  ASSUME IInv, RequestInv, SeqInv, ConnectError, UNCHANGED server
  PROVE  SeqInv' /\ Tells
<1>1. ~closedetect /\ queue # <<>> /\ state # "freed"
  BY DEF ConnectError, IInv, ClientInv, InLoop, Usable
<1>2. Fail /\ UNCHANGED <<server, link>>
  BY <1>1 DEF ConnectError
<1>3. SeqInv' /\ FailsSome("error") /\ UNCHANGED <<made, replyOf>>
  BY <1>1, <1>2, FailOrder
<1>4. QED
  BY <1>3, FailureTold

LEMMA ClientErrorOrder ==
  ASSUME IInv, RequestInv, SeqInv, ClientError, UNCHANGED server
  PROVE  SeqInv' /\ Tells
<1>1. state # "freed" /\ fd # 0 /\ UNCHANGED link /\ ErrorCb
  BY DEF ClientError, InLoop, Usable
<1>2. CASE ~closedetect
  <2>1. queue # <<>> /\ Fail
    BY <1>1, <1>2, Types DEF IInv, ClientInv, ErrorCb, States
  <2>2. SeqInv' /\ FailsSome("error") /\ UNCHANGED <<made, replyOf>>
    BY <1>1, <2>1, FailOrder
  <2>3. QED
    BY <2>2, FailureTold
<1>3. CASE closedetect
  <2>1. state = "idle" /\ queue = <<>>
    BY <1>1, <1>3 DEF IInv, ClientInv
  <2>2. fd' = 0 /\ out' = <<>> /\ UNCHANGED <<queue, failing, made, answer, replyOf>>
    BY <1>1, <1>3, <2>1 DEF ErrorCb, Reset, CloseSocket, answers
  <2>3. Items(queue)' = {}
    BY <2>1, <2>2, NumsEmpty DEF Items
  <2>4. fd # 0 => \A r \in Flight(fd) : answer'[r] = "error" \/ state' = "freed"
    BY <2>1 DEF SeqInv, FlightInv
  <2>5. QueueInv' /\ made' \in Nat /\ made <= made'
    BY <2>2, SameQueue, KnownType
  <2>6. SeqInv'
    BY <1>1, <2>2, <2>3, <2>4, <2>5, FlightLost
  <2>7. QED
    BY <2>2, <2>6, NothingTold
<1>4. QED
  BY <1>2, <1>3


LEMMA ClientWriteOrder ==
  ASSUME IInv, IInv', RequestInv, SeqInv, ClientWrite, UNCHANGED server
  PROVE  SeqInv' /\ Tells
<1>1. fd \in Connections /\ fd # 0 /\ state # "freed"
  BY Types, Numbers DEF ClientWrite, InLoop, Usable, Connections
<1>2. PICK n \in 1..Len(out) :
        /\ up' = [up EXCEPT ![fd] = @ \o SubSeq(out, 1, n)]
        /\ out' = SubSeq(out, n + 1, Len(out))
        /\ state' \in {"firstline", state}
  BY DEF ClientWrite
<1>3. n \in 0..Len(out) /\ Len(out) \in Nat /\ Len(out) > 0
  BY <1>2, Numbers
<1>4. state # "headers"
  BY <1>1, <1>3, Numbers DEF IInv, LinkInv
<1>5. UNCHANGED <<fd, down, response, queue, failing, made, answer, replyOf, server>>
      /\ sout' = sout /\ sstate' = sstate /\ sreq' = sreq /\ handled' = handled
  BY DEF ClientWrite, answers, server
<1>6. SubSeq(out, 1, n) \in Seq(Parts) /\ Nums(SubSeq(out, 1, n)) \subseteq Nums(out)
      /\ Nums(out') \subseteq Nums(out)
  BY <1>2, <1>3, Types, NumsCut, Cut
<1>7. up[fd] \in Seq(Parts) /\ up'[fd] = up[fd] \o SubSeq(out, 1, n)
      /\ \A c \in Connections : c # fd => up'[c] = up[c]
  BY <1>1, <1>2, Types
<1>8. Nums(up'[fd]) \subseteq Nums(up[fd]) \cup Nums(out)
  <2>1. Nums(up[fd] \o SubSeq(out, 1, n)) \subseteq Nums(up[fd]) \cup Nums(SubSeq(out, 1, n))
    BY <1>6, <1>7, NumsConcat
  <2>2. Nums(up'[fd]) = Nums(up[fd] \o SubSeq(out, 1, n))
    BY <1>7
  <2>3. QED
    BY <1>6, <2>1, <2>2
<1>9. ASSUME NEW c \in Connections
      PROVE  Flight(c)' \subseteq Flight(c) /\ Unread(c)' <= 3
  <2>1. Asked(c)' = Asked(c)
    BY <1>5 DEF Asked
  <2>2. CASE c = fd
    <3>1. Flight(c)' = Nums(up'[fd]) \cup Asked(fd) \cup Nums(out')
      BY <1>5, <2>1, <2>2 DEF Flight
    <3>2. Flight(c) = Nums(up[fd]) \cup Asked(fd) \cup Nums(out)
      BY <2>2 DEF Flight
    <3>3. (Len(out) + Unread(fd) <= 3)'
      BY <1>1, <1>5 DEF IInv, LinkInv
    <3>4. Unread(c)' \in Nat /\ Len(out)' \in Nat
      <4>1. LinkTypeOK' /\ ServerTypeOK' /\ ClientTypeOK'
        BY DEF IInv, TypeOK
      <4>2. Unread(c)' \in Nat
        BY <4>1, NextNumbers
      <4>3. Len(out)' \in Nat
        BY <4>1, LenProperties DEF ClientTypeOK
      <4>4. QED
        BY <4>2, <4>3
    <3>5. Unread(fd)' = Unread(c)'
      BY <1>5, <2>2 DEF Unread
    <3>6. QED
      BY <1>6, <1>8, <3>1, <3>2, <3>3, <3>4, <3>5
  <2>3. CASE c # fd
    <3>1. Flight(c)' = Flight(c) /\ Unread(c)' = Unread(c)
      BY <1>5, <1>7, <2>1, <2>3 DEF Flight, Unread
    <3>2. QED
      BY <3>1 DEF SeqInv, FlightInv
  <2>4. QED
    BY <2>2, <2>3
<1>10. QueueInv' /\ Items(queue)' = Items(queue)
  BY <1>5, SameQueue DEF Items
<1>11. state' # "headers"
  BY <1>2, <1>4
<1>12. made' \in Nat /\ made <= made'
  BY <1>5, KnownType
<1>13. SeqInv'
  BY <1>1, <1>5, <1>9, <1>10, <1>11, <1>12, FlightShrinks
<1>14. QED
  BY <1>5, <1>13, NothingTold

\* What the client reads comes from a connection that carries nothing else.
LEMMA ReadsReply ==
  ASSUME IInv, ClientRead, UNCHANGED server
  PROVE  /\ fd \in Connections /\ fd # 0 /\ fd' = fd /\ state \notin {"idle", "freed"}
         /\ out = <<>> /\ Unread(fd) = 0
         /\ Head(down[fd])[1] \in Nums(down[fd]) /\ Nums(down'[fd]) \subseteq Nums(down[fd])
         /\ state = "headers" => Nums(sout[fd]) = {} /\ Nums(down'[fd]) = {}
         /\ UNCHANGED <<up, failing, made, server>>
<1>1. fd \in Connections /\ fd # 0 /\ down[fd] # <<>> /\ state # "freed"
  BY Types, Numbers DEF ClientRead, InLoop, Usable, Connections
<1>2. down[fd] \in Seq(Parts) /\ Len(down[fd]) \in Nat /\ Len(down[fd]) > 0 /\ Len(sout[fd]) \in Nat
  BY <1>1, Types, Numbers, EmptyLen
<1>3. down' = [down EXCEPT ![fd] = Tail(@)] /\ fd' = (IF state = "idle" THEN 0 ELSE fd)
      /\ UNCHANGED <<up, failing, made, server>>
  BY ReadsWhenAsked DEF ClientRead, Done, Reset, CloseSocket, answers
<1>4. Reply(fd) = Len(sout[fd]) + Len(down[fd])
  BY DEF Reply
<1>5. Reply(fd) > 0
  <2>1. \A m, n \in Nat : n > 0 => m + n > 0
    OBVIOUS
  <2>2. QED
    BY <1>2, <1>4, <2>1
<1>6. Len(out) + Unread(fd) = 0 /\ state # "idle" /\ (state = "headers" => Reply(fd) <= 1)
      /\ Len(out) \in Nat /\ Unread(fd) \in Nat
  <2>1. Len(out) \in Nat /\ Unread(fd) \in Nat /\ Reply(fd) \in Nat
    BY <1>1, Numbers
  <2>2. /\ Len(out) + Unread(fd) > 0 => Reply(fd) = 0
        /\ state = "headers" => Reply(fd) <= 1
        /\ state = "idle" => Reply(fd) = 0
    BY <1>1 DEF IInv, LinkInv
  <2>3. QED
    BY <1>5, <2>1, <2>2
<1>7. out = <<>> /\ Unread(fd) = 0
  BY <1>6, Types, EmptyLen
<1>8. Head(down[fd])[1] \in Nums(down[fd]) /\ down'[fd] = Tail(down[fd])
      /\ Nums(Tail(down[fd])) \subseteq Nums(down[fd])
  BY <1>1, <1>2, <1>3, Types, NumsTail
<1>9. ASSUME state = "headers"
      PROVE  Nums(sout[fd]) = {} /\ Nums(down'[fd]) = {}
  <2>1. \A m, n \in Nat : n > 0 /\ m + n <= 1 => m = 0 /\ n = 1
    OBVIOUS
  <2>2. Len(sout[fd]) = 0 /\ Len(down[fd]) = 1
    BY <1>2, <1>4, <1>6, <1>9, <2>1
  <2>3. sout[fd] = <<>>
    BY <1>1, <2>2, Types, EmptyLen
  <2>4. Tail(down[fd]) \in Seq(Parts) /\ Len(Tail(down[fd])) = 0
    BY <1>1, <1>2, <2>2, HeadTailProperties
  <2>5. Tail(down[fd]) = <<>>
    BY <2>4, EmptyLen
  <2>6. QED
    BY <1>8, <2>3, <2>5, NumsEmpty
<1>10. QED
  BY <1>1, <1>3, <1>6, <1>7, <1>8, <1>9

\* The request at the head of the queue was handled and gets its own reply.
Replies == \E r \in Items(handled) :
             /\ answer[r] = "none" /\ made' = made
             /\ answer' = [answer EXCEPT ![r] = "reply"]
             /\ replyOf' = [replyOf EXCEPT ![r] = r]

LEMMA DoneOrder ==
  ASSUME IInv, RequestInv, SeqInv, ClientRead, UNCHANGED server, state = "headers", Done
  PROVE  SeqInv' /\ Replies
<1> DEFINE r == Head(queue)
           q == Tail(queue)
<1>1. /\ fd \in Connections /\ fd # 0 /\ fd' = fd /\ out = <<>> /\ Unread(fd) = 0
      /\ Nums(sout[fd]) = {} /\ Nums(down'[fd]) = {}
      /\ UNCHANGED <<up, failing, made, server>>
  BY ReadsReply
<1>2. queue # <<>> /\ response = r /\ r \in Items(handled)
  BY <1>1 DEF SeqInv, ReplyInv
<1>3. q \in Seq(Requests) /\ Sorted(q) /\ Items(q) \subseteq Items(queue) /\ r \in Items(queue)
      /\ \A x \in Items(q) : r < x
  BY <1>2, Types, SortedTail DEF SeqInv, QueueInv
<1>4. r \in Requests /\ r \in Nat /\ r <= made /\ answer[r] = "none" /\ r \notin Items(failing)
  BY <1>3, KnownType DEF SeqInv, QueueInv, Requests
<1>5. queue' = q /\ answer' = Answered({r}, "reply") /\ replyOf' = [replyOf EXCEPT ![r] = r]
  BY <1>2 DEF Done
<1>6. answer' = [k \in Requests |-> IF k = r THEN "reply" ELSE answer[k]]
  BY <1>5 DEF Answered
<1>7. Replies
  <2>1. answer' = [answer EXCEPT ![r] = "reply"]
    BY <1>6, Types DEF Answers
  <2>2. QED
    BY <1>1, <1>2, <1>4, <1>5, <2>1 DEF Replies
<1>8. made \in Nat /\ made' = made
  BY <1>1, KnownType
<1>9. QueueInv'
  <2>1. Items(queue)' = Items(q) /\ Items(failing)' = Items(failing)
        /\ Sorted(queue)' /\ Sorted(failing)'
    BY <1>1, <1>3, <1>5 DEF Items, Sorted, SeqInv, QueueInv
  <2>2. Items(queue) \subseteq Requests /\ Items(failing) \subseteq Requests
    BY Types, ItemsType
  <2>3. r \notin Items(q)
    BY <1>3, <1>4
  <2> HIDE DEF r, q
  <2>4. \A k \in Items(q) \cup Items(failing) : k <= made /\ answer[k] = "none" /\ k # r
    BY <1>3, <1>4, <2>3 DEF SeqInv, QueueInv
  <2>5. \A k \in Items(queue)' \cup Items(failing)' : k <= made' /\ answer'[k] = "none"
    BY <1>3, <1>6, <1>8, <2>1, <2>2, <2>4
  <2>6. \A k \in Requests : k > made' => answer'[k] = "none"
    <3>1. \A k \in Requests : k > made => k # r /\ answer[k] = "none"
      BY <1>4, <1>8 DEF SeqInv, QueueInv, Requests
    <3>2. QED
      BY <1>6, <1>8, <3>1
  <2>7. Items(queue)' \cap Items(failing)' = {}
    BY <1>3, <2>1 DEF SeqInv, QueueInv
  <2>8. QED
    BY <2>1, <2>5, <2>6, <2>7 DEF QueueInv
<1>10. \A k \in Requests : answer[k] = "error" => answer'[k] = "error"
  BY <1>4, <1>6
<1>11. Nums(up[fd]) = {} /\ Asked(fd) = {} /\ Nums(out) = {}
  BY <1>1, NoFlight, NumsEmpty
<1>12. CASE q # <<>>
  <2>1. Head(q) \in Requests /\ Dispatch(Head(q))
    BY <1>3, <1>12, HeadTailProperties DEF Done
  <2>2. RequestParts(Head(q)) \in Seq(Parts)
    BY <2>1, MessageParts
  <2>3. state' = "writing" /\ out' = RequestParts(Head(q))
    BY <1>1, <2>1, <2>2, ConcatEmptySeq DEF Dispatch
  <2>4. \A k \in Known : k < Head(q)
    <3>1. Head(q) \in Nat
      <4> HIDE DEF q
      <4>1. QED
        BY <2>1 DEF Requests
    <3>2. \A m, n \in Nat : m < n => m # n
      OBVIOUS
    <3> HIDE DEF r, q
    <3>3. Head(q) \in Items(q)
      BY <1>3, <1>12, HeadFirst
    <3>4. r < Head(q) /\ Head(q) \in Items(queue)
      BY <1>3, <3>3
    <3>5. Head(q) # r
      BY <1>4, <3>1, <3>2, <3>4
    <3>6. QED
      BY <3>4, <3>5 DEF SeqInv, FlightInv, r
  <2>5. SeqInv'
    <3> HIDE DEF q
    <3>1. queue' # <<>> /\ queue' \in Seq(Requests) /\ out' = RequestParts(Head(queue'))
          /\ \A k \in Known : k < Head(queue')
      BY <1>3, <1>5, <1>12, <2>3, <2>4
    <3>2. made' \in Nat /\ made <= made' /\ up' = up
      BY <1>1, <1>8
    <3>3. QED
      BY <1>1, <1>9, <1>10, <1>11, <2>3, <3>1, <3>2, FlightStarts
  <2>6. QED
    BY <1>7, <2>5
<1>13. CASE q = <<>>
  <2>1. state' = "idle" /\ out' = out /\ queue' = <<>>
    BY <1>5, <1>13 DEF Done
  <2>2. Flight(fd) = {}
    BY <1>11 DEF Flight
  <2>3. SeqInv'
    BY <1>1, <1>9, <1>10, <2>1, <2>2, FlightEnds
  <2>4. QED
    BY <1>7, <2>3
<1>14. QED
  BY <1>12, <1>13

LEMMA ClientReadOrder ==
  ASSUME IInv, RequestInv, SeqInv, ClientRead, UNCHANGED server
  PROVE  SeqInv' /\ (Tells \/ Replies)
<1>1. /\ fd \in Connections /\ fd # 0 /\ fd' = fd /\ state \notin {"idle", "freed"}
      /\ Head(down[fd])[1] \in Nums(down[fd]) /\ Nums(down'[fd]) \subseteq Nums(down[fd])
      /\ UNCHANGED <<up, failing, made, server>>
  BY ReadsReply
<1>2. CASE /\ state' = "headers" /\ response' = Head(down[fd])[1]
           /\ UNCHANGED <<out, queue, answer, replyOf>>
  <2>1. queue # <<>> /\ Head(down[fd])[1] = Head(queue) /\ Head(queue) \in Items(handled)
    BY <1>1 DEF SeqInv, ReplyInv
  <2>2. \A c \in Connections : Flight(c)' = Flight(c) /\ Unread(c)' <= 3
    <3>1. up' = up /\ sstate' = sstate /\ sreq' = sreq /\ out' = out
      BY <1>1, <1>2 DEF server
    <3>2. QED
      BY <1>1, <3>1 DEF Flight, Asked, Unread, SeqInv, FlightInv
  <2>3. QueueInv' /\ Items(queue)' = Items(queue) /\ made' \in Nat /\ made <= made'
    BY <1>1, <1>2, SameQueue, KnownType DEF Items
  <2>4. handled' = handled /\ sout' = sout
    BY <1>1 DEF server
  <2>5. SeqInv'
    BY <1>1, <1>2, <2>1, <2>2, <2>3, <2>4, FlightShrinks
  <2>6. QED
    BY <1>1, <1>2, <2>5, NothingTold
<1>3. CASE state = "headers" /\ Done
  BY <1>3, DoneOrder
<1>4. QED
  BY <1>1, <1>2, <1>3, ReadsWhenAsked DEF ClientRead, answers


-----------------------------------------------------------------------------
(* Steps of the server, seen from the requests                             *)

\* The server takes parts of requests away from c, and sends on parts of replies.
LEMMA ServerShrinks ==
  ASSUME IInv, RequestInv, SeqInv, NEW c \in Connections, Serves(c), UNCHANGED <<client, handled>>,
         Nums(up'[c]) \cup Asked(c)' \subseteq Nums(up[c]) \cup Asked(c),
         Nums(sout'[c]) \cup Nums(down'[c]) \subseteq Nums(sout[c]) \cup Nums(down[c]),
         \A x \in Connections : x # c => /\ up'[x] = up[x] /\ down'[x] = down[x] /\ sout'[x] = sout[x]
                                         /\ sstate'[x] = sstate[x] /\ sreq'[x] = sreq[x]
  PROVE  SeqInv'
<1>1. UNCHANGED <<state, fd, out, response, queue, failing, made, answer, replyOf>>
  BY DEF client, bev, answers
<1>2. ASSUME NEW x \in Connections
      PROVE  Flight(x)' \subseteq Flight(x) /\ Unread(x)' <= 3
  <2>1. CASE x = c
    <3>1. Flight(x)' \subseteq Flight(x)
      BY <1>1, <2>1 DEF Flight
    <3>2. Unread(c)' <= Unread(c) /\ Unread(c)' \in Nat /\ Unread(c) \in Nat /\ Unread(c) <= 3
      BY Numbers DEF Serves, SeqInv, FlightInv
    <3>3. QED
      BY <2>1, <3>1, <3>2
  <2>2. CASE x # c
    BY <1>1, <2>2 DEF Flight, Asked, Unread, SeqInv, FlightInv
  <2>3. QED
    BY <2>1, <2>2
<1>3. QueueInv' /\ Items(queue)' = Items(queue) /\ made' \in Nat /\ made <= made'
  BY <1>1, SameQueue, KnownType DEF Items
<1>4. fd # 0 => \A r \in Nums(sout'[fd]) \cup Nums(down'[fd]) :
                   r \in Nums(sout[fd]) \cup Nums(down[fd])
  <2>1. fd # 0 => fd \in Connections
    BY Types DEF Connections
  <2>2. QED
    BY <2>1
<1>5. fd # 0 /\ state' = "headers" =>
        queue' # <<>> /\ response' = Head(queue') /\ response' \in Items(handled)
  BY <1>1 DEF SeqInv, ReplyInv
<1>6. QED
  BY <1>1, <1>2, <1>3, <1>4, <1>5, FlightShrinks

LEMMA AcceptOrder ==
  ASSUME IInv, RequestInv, SeqInv, NEW c \in Connections, Accept(c), UNCHANGED client
  PROVE  SeqInv'
<1>1. Serves(c)
  BY AcceptStep
<1>2. sstate'[c] \in {"firstline", "freed"} /\ UNCHANGED <<sreq, sout, handled, up, down>>
      /\ \A x \in Connections : x # c => sstate'[x] = sstate[x]
  BY Types DEF Accept, link
<1>3. Asked(c)' = {}
  BY <1>2 DEF Asked
<1>4. QED
  BY <1>1, <1>2, <1>3, ServerShrinks

\* A part is read.
LEMMA TakeNums ==
  ASSUME IInv, NEW c \in Connections, NEW part, Take(c, part)
  PROVE  Nums(up'[c]) \subseteq Nums(up[c]) /\ Head(up[c])[1] \in Nums(up[c])
<1>1. up[c] \in Seq(Parts) /\ up[c] # <<>> /\ up'[c] = Tail(up[c])
  BY Types DEF Take
<1>2. QED
  BY <1>1, NumsTail

LEMMA ReadFirstLineOrder ==
  ASSUME IInv, RequestInv, SeqInv, NEW c \in Connections, ReadFirstLine(c), UNCHANGED client
  PROVE  SeqInv'
<1>1. Serves(c)
  BY ReadFirstLineStep
<1>2. Take(c, "line") /\ UNCHANGED <<sout, handled>>
      /\ sstate'[c] = "headers" /\ sreq'[c] = Head(up[c])[1]
      /\ \A x \in Connections : x # c => sstate'[x] = sstate[x] /\ sreq'[x] = sreq[x]
  BY Types DEF ReadFirstLine
<1>3. Asked(c)' = {Head(up[c])[1]}
  BY <1>2 DEF Asked
<1>4. Nums(up'[c]) \cup Asked(c)' \subseteq Nums(up[c]) \cup Asked(c)
  BY <1>2, <1>3, TakeNums
<1>5. QED
  BY <1>1, <1>2, <1>4, TakeResult, ServerShrinks

LEMMA ReadHeaderOrder ==
  ASSUME IInv, RequestInv, SeqInv, NEW c \in Connections, ReadHeader(c), UNCHANGED client
  PROVE  SeqInv'
<1>1. Serves(c)
  BY ReadHeaderStep
<1>2. Take(c, "headers") /\ UNCHANGED <<sreq, sout, handled>>
      /\ sstate[c] = "headers" /\ sstate'[c] = "body"
      /\ \A x \in Connections : x # c => sstate'[x] = sstate[x]
  BY Types DEF ReadHeader
<1>3. Asked(c)' = Asked(c)
  BY <1>2 DEF Asked
<1>4. QED
  BY <1>1, <1>2, <1>3, TakeNums, TakeResult, ServerShrinks

LEMMA ServerWriteOrder ==
  ASSUME IInv, RequestInv, SeqInv, NEW c \in Connections, ServerWrite(c), UNCHANGED client
  PROVE  SeqInv'
<1>1. Serves(c)
  BY ServerWriteStep
<1>2. sout[c] \in Seq(Parts) /\ down[c] \in Seq(Parts) /\ Len(sout[c]) \in Nat
  BY Types, Numbers
<1>3. PICK n \in 1..Len(sout[c]) :
        /\ down' = [down EXCEPT ![c] = @ \o SubSeq(sout[c], 1, n)]
        /\ sout' = [sout EXCEPT ![c] = SubSeq(@, n + 1, Len(@))]
        /\ \/ sstate' = [sstate EXCEPT ![c] = "firstline"] /\ sreq' = [sreq EXCEPT ![c] = 0]
           \/ UNCHANGED <<sstate, sreq>>
  BY DEF ServerWrite
<1>4. n \in 0..Len(sout[c])
  BY <1>2, <1>3
<1>5. SubSeq(sout[c], 1, n) \in Seq(Parts) /\ Nums(SubSeq(sout[c], 1, n)) \subseteq Nums(sout[c])
      /\ Nums(SubSeq(sout[c], n + 1, Len(sout[c]))) \subseteq Nums(sout[c])
  BY <1>2, <1>4, NumsCut, Cut
<1>6. down'[c] = down[c] \o SubSeq(sout[c], 1, n) /\ sout'[c] = SubSeq(sout[c], n + 1, Len(sout[c]))
  BY <1>3, Types
<1>7. Nums(down[c] \o SubSeq(sout[c], 1, n)) \subseteq Nums(down[c]) \cup Nums(SubSeq(sout[c], 1, n))
  BY <1>2, <1>5, NumsConcat
<1>8. Nums(sout'[c]) \cup Nums(down'[c]) \subseteq Nums(sout[c]) \cup Nums(down[c])
  BY <1>5, <1>6, <1>7
<1>9. sstate[c] = "writing" /\ sstate'[c] \in {"firstline", "writing"} /\ UNCHANGED <<up, handled>>
      /\ \A x \in Connections : x # c => /\ down'[x] = down[x] /\ sout'[x] = sout[x]
                                         /\ sstate'[x] = sstate[x] /\ sreq'[x] = sreq[x]
  BY <1>3, Types DEF ServerWrite
<1>10. Asked(c)' = {} /\ Asked(c) = {}
  BY <1>9 DEF Asked
<1>11. QED
  BY <1>1, <1>8, <1>9, <1>10, ServerShrinks

LEMMA DropOrder ==
  ASSUME IInv, RequestInv, SeqInv, NEW c \in Connections, Live(c), Drop(c), UNCHANGED client
  PROVE  SeqInv'
<1>1. Serves(c)
  BY DropStep
<1>2. sstate'[c] = "freed" /\ sout'[c] = <<>> /\ UNCHANGED <<handled, up, down>>
      /\ \A x \in Connections : x # c => /\ sout'[x] = sout[x]
                                         /\ sstate'[x] = sstate[x] /\ sreq'[x] = sreq[x]
  BY Types DEF Drop, link
<1>3. Asked(c)' = {} /\ Nums(sout'[c]) = {}
  BY <1>2, NumsEmpty DEF Asked
<1>4. QED
  BY <1>1, <1>2, <1>3, ServerShrinks

\* A request is handled that was made and not handled before.
Handles == \E r \in Requests :
             /\ r \notin Items(handled) /\ r <= made
             /\ handled' = Append(handled, r) /\ UNCHANGED <<made, answer, replyOf>>

LEMMA ReadBodyOrder ==
  ASSUME IInv, IInv', RequestInv, SeqInv, NEW c \in Connections, ReadBody(c), UNCHANGED client
  PROVE  SeqInv' /\ Handles
<1> DEFINE r == sreq[c]
<1>1. Serves(c) /\ UNCHANGED <<state, fd, out, response, queue, failing, made, answer, replyOf>>
  BY ReadBodyStep DEF client, bev, answers
<1>2. sstate[c] = "body" /\ sstate'[c] = "writing" /\ Take(c, "body")
      /\ handled' = Append(handled, r) /\ sout'[c] = ReplyParts(r)
      /\ \A x \in Connections : x # c => /\ sstate'[x] = sstate[x] /\ sout'[x] = sout[x]
                                         /\ sreq'[x] = sreq[x] /\ up'[x] = up[x]
  BY Types, TakeResult DEF ReadBody
<1>3. r \in Requests /\ r \in Nat /\ r \in Flight(c) /\ r \in Known
  BY <1>2, KnownIs DEF RequestInv, Requests, Asked, Flight
<1>4. r \notin Items(handled) /\ r <= made
  BY <1>3 DEF SeqInv, FlightInv
<1>5. Len(handled) \in Nat /\ DOMAIN handled = 1..Len(handled)
      /\ DOMAIN handled' = 1..(Len(handled) + 1) /\ handled'[Len(handled) + 1] = r
      /\ \A i \in 1..Len(handled) : handled'[i] = handled[i]
  <2>1. handled \in Seq(Requests)
    BY Types
  <2>2. handled' \in Seq(Requests) /\ Len(handled') = Len(handled) + 1
        /\ handled'[Len(handled) + 1] = r
        /\ \A i \in 1..Len(handled) : handled'[i] = handled[i]
    BY <1>2, <1>3, <2>1, AppendProperties
  <2>3. QED
    BY <2>1, <2>2, LenProperties
<1>6. Items(handled)' = Items(handled) \cup {r}
  <2> HIDE DEF r
  <2>1. \A i \in 1..(Len(handled) + 1) : i \in 1..Len(handled) \/ i = Len(handled) + 1
    BY <1>5
  <2>2. Len(handled) + 1 \in 1..(Len(handled) + 1)
        /\ \A i \in 1..Len(handled) : i \in 1..(Len(handled) + 1)
    BY <1>5
  <2>3. QED
    BY <1>5, <2>1, <2>2 DEF Items
<1>7. up'[c] = <<>> /\ (c = fd => out = <<>>)
  <2>1. Len(up[c]) + 2 <= 3 /\ (c = fd => Len(out) + (Len(up[c]) + 2) <= 3)
    <3>1. Unread(c) = Len(up[c]) + 2
      BY <1>2 DEF Unread, Read
    <3>2. Unread(c) <= 3
      BY DEF SeqInv, FlightInv
    <3>3. c = fd => Len(out) + Unread(c) <= 3
      BY DEF IInv, LinkInv, Connections
    <3>4. QED
      BY <3>1, <3>2, <3>3
  <2>2. Len(up[c]) > 0 /\ Len(up'[c]) = Len(up[c]) - 1 /\ up'[c] \in Seq(Parts)
        /\ Len(up[c]) \in Nat /\ Len(out) \in Nat
    BY <1>2, TakeResult, Numbers
  <2>3. \A l, m \in Nat : l > 0 /\ l + 2 <= 3 => l - 1 = 0 /\ (m + (l + 2) <= 3 => m = 0)
    OBVIOUS
  <2>4. Len(up'[c]) = 0 /\ (c = fd => Len(out) = 0)
    <3>1. Len(up[c]) - 1 = 0 /\ (Len(out) + (Len(up[c]) + 2) <= 3 => Len(out) = 0)
      BY <2>1, <2>2, <2>3
    <3>2. QED
      BY <2>1, <2>2, <3>1
  <2>5. QED
    BY <2>2, <2>4, Types, EmptyLen
<1>8. Flight(c)' = {} /\ \A x \in Connections : x # c => Flight(x)' = Flight(x)
  <2>1. Asked(c)' = {}
    BY <1>2 DEF Asked
  <2>2. Flight(c)' = {}
    BY <1>1, <1>7, <2>1, NumsEmpty DEF Flight
  <2>3. \A x \in Connections : x # c => Asked(x)' = Asked(x)
    BY <1>2 DEF Asked
  <2>4. QED
    BY <1>1, <1>2, <2>2, <2>3 DEF Flight
<1>9. \A q \in Known' : q \in Known
  <2> HIDE DEF r
  <2>1. QED
    BY <1>3, <1>6, <1>8, KnownIs
<1>10. QueueInv' /\ Items(queue)' = Items(queue) /\ made \in Nat
  BY <1>1, SameQueue, KnownType DEF Items
<1>11. FlightInv'
  <2> HIDE DEF r
  <2>1. ASSUME NEW x \in Connections
        PROVE  Unread(x)' <= 3
    <3>1. CASE x = c
      BY <1>1, <3>1, Numbers DEF Serves, SeqInv, FlightInv
    <3>2. CASE x # c
      BY <1>2, <3>2 DEF Unread, SeqInv, FlightInv
    <3>3. QED
      BY <3>1, <3>2
  <2>2. \A x \in Connections : \A p, q \in Flight(x)' : p = q
    BY <1>8 DEF SeqInv, FlightInv
  <2>3. \A x, y \in Connections : x # y => Flight(x)' \cap Flight(y)' = {}
    BY <1>8 DEF SeqInv, FlightInv
  <2>4. \A x \in Connections : Flight(x)' \cap Items(handled)' = {}
    BY <1>3, <1>6, <1>8 DEF SeqInv, FlightInv
  <2>5. \A q \in Known' : q <= made'
    BY <1>1, <1>9 DEF SeqInv, FlightInv
  <2>6. fd' # 0 => \A q \in Flight(fd)' : queue' # <<>> /\ q = Head(queue')
    <3>1. fd # 0 => fd \in Connections
      BY Types DEF Connections
    <3>2. fd # 0 => \A q \in Flight(fd)' : q \in Flight(fd)
      BY <1>1, <1>8, <3>1
    <3>3. QED
      BY <1>1, <3>2 DEF SeqInv, FlightInv
  <2>7. \A q \in Known', p \in Items(queue)' :
          q < p \/ (q = p /\ fd' # 0 /\ p = Head(queue'))
    BY <1>1, <1>9, <1>10 DEF SeqInv, FlightInv
  <2>8. QED
    BY <2>1, <2>2, <2>3, <2>4, <2>5, <2>6, <2>7 DEF FlightInv
<1>12. OrderInv'
  <2>1. \A x \in Connections : \A q \in Flight(x)' :
          answer'[q] = "error" \/ ((x = fd' \/ state' = "freed") /\ \A k \in Known' : k <= q)
    BY <1>1, <1>8, <1>9 DEF SeqInv, OrderInv
  <2>2. \A i, j \in 1..(Len(handled) + 1) :
          (i < j /\ handled'[i] > handled'[j]) => answer'[handled'[j]] = "error"
    <3>1. ASSUME NEW i \in 1..(Len(handled) + 1), NEW j \in 1..(Len(handled) + 1), i < j,
                 handled'[i] > handled'[j]
          PROVE  answer[handled'[j]] = "error"
      <4>1. i \in 1..Len(handled)
        BY <1>5, <3>1
      <4>2. CASE j \in 1..Len(handled)
        BY <1>5, <3>1, <4>1, <4>2 DEF SeqInv, OrderInv, OvertakenHasFailed
      <4>3. CASE j = Len(handled) + 1
        <5>1. handled[i] \in Items(handled)
          BY <1>5, <4>1 DEF Items
        <5>2. handled[i] \in Known /\ handled[i] \in Requests
          BY <5>1, KnownIs, KnownType
        <5>3. handled[i] \in Nat /\ handled[i] > r /\ handled'[j] = r
          BY <1>5, <3>1, <4>1, <4>3, <5>2 DEF Requests
        <5>4. ~(handled[i] <= r)
          BY <1>3, <5>3
        <5>5. QED
          BY <1>3, <5>2, <5>3, <5>4 DEF SeqInv, OrderInv
      <4>4. QED
        BY <1>5, <4>2, <4>3
    <3>2. QED
      BY <1>1, <3>1
  <2>3. QED
    BY <1>5, <2>1, <2>2 DEF OrderInv, OvertakenHasFailed
<1>13. ReplyInv'
  <2>1. \A i, j \in 1..(Len(handled) + 1) : handled'[i] = handled'[j] => i = j
    <3>1. \A i \in 1..Len(handled) : handled'[i] # r
      BY <1>4, <1>5 DEF Items
    <3>2. \A i, j \in 1..Len(handled) : handled'[i] = handled'[j] => i = j
      BY <1>5 DEF SeqInv, ReplyInv
    <3>3. \A i \in 1..(Len(handled) + 1) : i \in 1..Len(handled) \/ i = Len(handled) + 1
      BY <1>5
    <3>4. QED
      BY <1>5, <3>1, <3>2, <3>3
  <2>2. fd' # 0 => \A q \in Nums(sout'[fd']) \cup Nums(down'[fd']) :
                     queue' # <<>> /\ q = Head(queue') /\ q \in Items(handled)'
    <3>1. fd # 0 => fd \in Connections
      BY Types DEF Connections
    <3>2. Nums(sout'[c]) = {r} /\ \A x \in Connections : down'[x] = down[x]
      BY <1>2, <1>3, NumsMessages, TakeResult
    <3>3. fd = c => queue # <<>> /\ r = Head(queue)
      BY <1>3 DEF SeqInv, FlightInv, Connections
    <3>4. fd # 0 => \A q \in Nums(sout[fd]) \cup Nums(down[fd]) :
                      queue # <<>> /\ q = Head(queue) /\ q \in Items(handled)
      BY DEF SeqInv, ReplyInv
    <3>5. fd # 0 => \A q \in Nums(sout'[fd]) \cup Nums(down'[fd]) :
                      q \in Nums(sout[fd]) \cup Nums(down[fd]) \/ (fd = c /\ q = r)
      BY <1>2, <3>1, <3>2
    <3> HIDE DEF r
    <3>6. QED
      BY <1>1, <1>6, <3>3, <3>4, <3>5
  <2>3. fd' # 0 /\ state' = "headers" =>
          queue' # <<>> /\ response' = Head(queue') /\ response' \in Items(handled)'
    BY <1>1, <1>6 DEF SeqInv, ReplyInv
  <2>4. Items(handled') = Items(handled)'
    BY DEF Items
  <2>5. QED
    BY <1>5, <2>1, <2>2, <2>3, <2>4 DEF ReplyInv
<1>14. Handles
  BY <1>1, <1>2, <1>3, <1>4 DEF Handles
<1>15. QED
  BY <1>10, <1>11, <1>12, <1>13, <1>14 DEF SeqInv


-----------------------------------------------------------------------------
(* Order and the promise of evhttp                                         *)

LEMMA ClientOrder ==
  ASSUME IInv, IInv', RequestInv, SeqInv, ClientNext, UNCHANGED server
  PROVE  SeqInv' /\ (Tells \/ Replies)
  BY MakeRequestOrder, FreeConnectionOrder, CleanupCallbackOrder, ConnectionMadeOrder,
     ConnectFailsOrder, ConnectErrorOrder, ClientErrorOrder, ClientWriteOrder, ClientReadOrder
  DEF ClientNext, ClientEvent

LEMMA ServerOrder ==
  ASSUME IInv, IInv', RequestInv, SeqInv, NEW c \in Connections,
         ServerStep(c) \/ ServerError(c), UNCHANGED client
  PROVE  SeqInv' /\ (Handles \/ UNCHANGED <<handled, made, answer, replyOf>>)
<1>1. UNCHANGED <<made, answer, replyOf>>
  BY DEF client, answers
<1>2. CASE Accept(c)
  BY <1>1, <1>2, AcceptOrder DEF Accept
<1>3. CASE ReadFirstLine(c)
  BY <1>1, <1>3, ReadFirstLineOrder DEF ReadFirstLine
<1>4. CASE ReadHeader(c)
  BY <1>1, <1>4, ReadHeaderOrder DEF ReadHeader
<1>5. CASE ReadBody(c)
  BY <1>5, ReadBodyOrder
<1>6. CASE ServerWrite(c)
  BY <1>1, <1>6, ServerWriteOrder DEF ServerWrite
<1>7. CASE ServerEof(c) \/ ServerError(c)
  BY <1>1, <1>7, DropOrder DEF ServerEof, ServerError, Drop
<1>8. QED
  BY <1>2, <1>3, <1>4, <1>5, <1>6, <1>7 DEF ServerStep, ServerRead

LEMMA InitOrder ==
  ASSUME Init
  PROVE  SeqInv
<1>1. queue = <<>> /\ failing = <<>> /\ handled = <<>> /\ out = <<>> /\ fd = 0 /\ made = 0
      /\ answer = [r \in Requests |-> "none"]
      /\ \A c \in Connections : up[c] = <<>> /\ sstate[c] = "none"
  BY DEF Init, ClientInit, LinkInit, ServerInit
<1>2. Items(queue) = {} /\ Items(failing) = {} /\ Items(handled) = {} /\ DOMAIN handled = {}
      /\ Sorted(queue) /\ Sorted(failing)
  BY <1>1, NumsEmpty DEF Sorted
<1>3. \A c \in Connections : Flight(c) = {} /\ Unread(c) <= 3
  <2>1. Nums(out) = {} /\ \A c \in Connections : Nums(up[c]) = {} /\ Asked(c) = {}
    BY <1>1, NumsEmpty DEF Asked
  <2>2. \A c \in Connections : Flight(c) = {}
    BY <2>1 DEF Flight
  <2>3. \A c \in Connections : Len(up[c]) = 0 /\ Read(sstate[c]) = 0
    BY <1>1 DEF Read
  <2>4. QED
    BY <2>2, <2>3 DEF Unread
<1>4. \A q : q \notin Known
  BY <1>2, <1>3, KnownIs
<1>5. QueueInv /\ FlightInv
  BY <1>1, <1>2, <1>3, <1>4 DEF QueueInv, FlightInv
<1>6. OrderInv /\ ReplyInv
  BY <1>1, <1>2, <1>3 DEF OrderInv, OvertakenHasFailed, ReplyInv
<1>7. QED
  BY <1>5, <1>6 DEF SeqInv

LEMMA StepOrder ==
  ASSUME IInv, RequestInv, SeqInv, [Next]_vars
  PROVE  SeqInv'
<1>1. IInv'
  BY StepInv
<1>2. CASE ClientNext /\ UNCHANGED server
  BY <1>1, <1>2, ClientOrder
<1>3. ASSUME NEW c \in Connections, (ServerStep(c) \/ ServerError(c)) /\ UNCHANGED client
      PROVE  SeqInv'
  BY <1>1, <1>3, ServerOrder
<1>4. CASE UNCHANGED vars
  <2>1. UNCHANGED <<state, fd, out, response, queue, failing, made, answer, replyOf>>
        /\ UNCHANGED <<up, down, sstate, sreq, sout, handled>>
    BY <1>4 DEF vars, client, bev, answers, server, link
  <2>2. \A c \in Connections : Flight(c)' = Flight(c) /\ Unread(c)' <= 3
    BY <2>1 DEF Flight, Asked, Unread, SeqInv, FlightInv
  <2>3. QueueInv' /\ Items(queue)' = Items(queue) /\ made' \in Nat /\ made <= made'
    BY <2>1, SameQueue, KnownType DEF Items
  <2>4. fd # 0 /\ state' = "headers" =>
          queue' # <<>> /\ response' = Head(queue') /\ response' \in Items(handled)
    BY <2>1 DEF SeqInv, ReplyInv
  <2>5. QED
    BY <2>1, <2>2, <2>3, <2>4, FlightShrinks
<1>5. QED
  BY <1>2, <1>3, <1>4 DEF Next

\* The order in which requests are queued, sent, handled and answered.
THEOREM Ordered == Spec => [](IInv /\ RequestInv /\ SeqInv)
<1>1. Init => IInv /\ RequestInv /\ SeqInv
  BY InitInv, InitOrder
<1>2. IInv /\ RequestInv /\ SeqInv /\ [Next]_vars => (IInv /\ RequestInv /\ SeqInv)'
  BY StepInv, StepOrder
<1>3. QED
  BY <1>1, <1>2, PTL DEF Spec

\* The server handles requests in the order they were made, except those whose
\* callback has already reported an error.
THEOREM OnlyFailedAreOvertaken == Spec => []OvertakenHasFailed
<1>1. SeqInv => OvertakenHasFailed
  BY DEF SeqInv, OrderInv
<1>2. QED
  BY <1>1, Ordered, PTL

-----------------------------------------------------------------------------
(* evhttp as a whole implements RequestReply                               *)

Times(s) == [r \in Requests |-> Cardinality({i \in DOMAIN s : s[i] = r})]

\* Without repetitions, a request was handled once or not at all.
LEMMA TimesOf ==
  ASSUME NEW s, \A i, j \in DOMAIN s : s[i] = s[j] => i = j, NEW r \in Requests
  PROVE  Times(s)[r] = IF r \in Items(s) THEN 1 ELSE 0
<1> DEFINE I == {i \in DOMAIN s : s[i] = r}
<1>1. Times(s)[r] = Cardinality(I)
  BY DEF Times
<1>2. CASE r \in Items(s)
  <2>1. PICK k \in DOMAIN s : s[k] = r
    BY <1>2 DEF Items
  <2>2. I = {k}
    BY <2>1
  <2>3. QED
    BY <1>1, <1>2, <2>2, FS_Singleton
<1>3. CASE r \notin Items(s)
  <2>1. I = {}
    BY <1>3 DEF Items
  <2>2. QED
    BY <1>1, <1>3, <2>1, FS_EmptySet
<1>4. QED
  BY <1>2, <1>3

LEMMA TimesOnce ==
  ASSUME IInv, RequestInv, IInv', SeqInv, SeqInv', NEW r \in Requests, r \notin Items(handled),
         handled' = Append(handled, r)
  PROVE  Times(handled)[r] = 0 /\ Times(handled') = [Times(handled) EXCEPT ![r] = 1]
<1>1. \A q \in Requests : Times(handled)[q] = IF q \in Items(handled) THEN 1 ELSE 0
  BY TimesOf DEF SeqInv, ReplyInv
<1>2. \A q \in Requests : Times(handled')[q] = IF q \in Items(handled') THEN 1 ELSE 0
  BY TimesOf DEF SeqInv, ReplyInv
<1>3. Items(handled') = Items(handled) \cup {r}
  <2>1. handled \in Seq(Requests) /\ Len(handled) \in Nat /\ DOMAIN handled = 1..Len(handled)
    BY Types, LenProperties
  <2>2. handled' \in Seq(Requests) /\ Len(handled') = Len(handled) + 1
        /\ handled'[Len(handled) + 1] = r
        /\ \A i \in 1..Len(handled) : handled'[i] = handled[i]
    BY <2>1, AppendProperties
  <2>3. DOMAIN handled' = 1..(Len(handled) + 1)
    BY <2>2, LenProperties
  <2>4. \A i \in 1..(Len(handled) + 1) : i \in 1..Len(handled) \/ i = Len(handled) + 1
    BY <2>1
  <2>5. Len(handled) + 1 \in 1..(Len(handled) + 1)
        /\ \A i \in 1..Len(handled) : i \in 1..(Len(handled) + 1)
    BY <2>1
  <2>6. QED
    BY <2>1, <2>2, <2>3, <2>4, <2>5 DEF Items
<1>4. \A q \in Requests : Times(handled')[q] = IF q = r THEN 1 ELSE Times(handled)[q]
  BY <1>1, <1>2, <1>3
<1>5. Times(handled') = [Times(handled) EXCEPT ![r] = 1]
  BY <1>4 DEF Times
<1>6. QED
  BY <1>1, <1>5

LEMMA SameTimes ==
  ASSUME UNCHANGED handled
  PROVE  UNCHANGED [r \in Requests |-> Cardinality({i \in DOMAIN handled : handled[i] = r})]
  OBVIOUS

LEMMA TellsPromise ==
  ASSUME IInv, Tells, UNCHANGED handled
  PROVE  Promise!MakeOrFail
<1>1. PICK how \in {"error", "unconnected", "refused"}, rs \in SUBSET (1..made') :
        (\A r \in rs : answer[r] = "none") /\ answer' = Answered(rs, how)
  BY DEF Tells, FailsSome
<1>2. answer' = [r \in Promise!Requests |-> IF r \in rs THEN how ELSE answer[r]]
  BY <1>1 DEF Answered, Requests, Promise!Requests
<1>3. made' \in {made, made + 1} \cap (0..MaxRequests) /\ replyOf' = replyOf
  BY Types, HttpLinkAssumption DEF Tells
<1>4. QED
  BY <1>1, <1>2, <1>3, SameTimes DEF Promise!MakeOrFail

LEMMA RepliesPromise ==
  ASSUME SeqInv, RequestInv, IInv, Replies, UNCHANGED handled
  PROVE  \E r \in Promise!Requests : Promise!Reply(r)
<1>1. PICK r \in Items(handled) :
        /\ answer[r] = "none" /\ made' = made
        /\ answer' = [answer EXCEPT ![r] = "reply"]
        /\ replyOf' = [replyOf EXCEPT ![r] = r]
  BY DEF Replies
<1>2. r \in Requests
  BY KnownType
<1>3. Times(handled)[r] = 1
  BY <1>1, <1>2, TimesOf DEF SeqInv, ReplyInv
<1>4. Promise!Reply(r)
  BY <1>1, <1>3, SameTimes DEF Promise!Reply, Times
<1>5. QED
  BY <1>2, <1>4 DEF Requests, Promise!Requests

LEMMA HandlesPromise ==
  ASSUME IInv, RequestInv, IInv', SeqInv, SeqInv', Handles
  PROVE  \E r \in Promise!Requests : Promise!Handle(r)
<1>1. PICK r \in Requests :
        /\ r \notin Items(handled) /\ r <= made
        /\ handled' = Append(handled, r) /\ UNCHANGED <<made, answer, replyOf>>
  BY DEF Handles
<1>2. Times(handled)[r] = 0 /\ Times(handled') = [Times(handled) EXCEPT ![r] = 1]
  BY <1>1, TimesOnce
<1>3. Promise!Handle(r)
  BY <1>1, <1>2 DEF Promise!Handle, Times
<1>4. QED
  BY <1>1, <1>3 DEF Requests, Promise!Requests

LEMMA InitPromise ==
  ASSUME Init
  PROVE  Promise!Init
<1>1. handled = <<>> /\ made = 0 /\ answer = [r \in Requests |-> "none"]
      /\ replyOf = [r \in Requests |-> 0]
  BY DEF Init, ClientInit, ServerInit
<1>2. \A r \in Requests : {i \in DOMAIN handled : handled[i] = r} = {}
  BY <1>1
<1>3. \A r \in Requests : Cardinality({i \in DOMAIN handled : handled[i] = r}) = 0
  BY <1>2, FS_EmptySet
<1>4. [r \in Requests |-> Cardinality({i \in DOMAIN handled : handled[i] = r})]
      = [r \in Requests |-> 0]
  BY <1>3
<1>5. QED
  BY <1>1, <1>4 DEF Promise!Init, Requests, Promise!Requests

LEMMA StepPromise ==
  ASSUME IInv, RequestInv, SeqInv, [Next]_vars
  PROVE  [Promise!Next]_(Promise!vars)
<1>1. IInv' /\ SeqInv'
  BY StepInv, StepOrder
<1>2. CASE ClientNext /\ UNCHANGED server
  <2>1. handled' = handled
    BY <1>2 DEF server
  <2>2. Tells \/ Replies
    BY <1>1, <1>2, ClientOrder
  <2>3. QED
    BY <2>1, <2>2, TellsPromise, RepliesPromise DEF Promise!Next
<1>3. ASSUME NEW c \in Connections, (ServerStep(c) \/ ServerError(c)) /\ UNCHANGED client
      PROVE  [Promise!Next]_(Promise!vars)
  <2>1. Handles \/ UNCHANGED <<handled, made, answer, replyOf>>
    BY <1>1, <1>3, ServerOrder
  <2>2. CASE Handles
    BY <1>1, <2>2, HandlesPromise DEF Promise!Next
  <2>3. CASE UNCHANGED <<handled, made, answer, replyOf>>
    BY <2>3, SameTimes DEF Promise!vars
  <2>4. QED
    BY <2>1, <2>2, <2>3
<1>4. CASE UNCHANGED vars
  <2>1. UNCHANGED <<handled, made, answer, replyOf>>
    BY <1>4 DEF vars, client, answers, server
  <2>2. QED
    BY <2>1, SameTimes DEF Promise!vars
<1>5. QED
  BY <1>2, <1>3, <1>4 DEF Next

\* Client, server and connections together implement RequestReply: a request is
\* handled at most once, its callback is called at most once, and with no other
\* reply than its own (http.c:698, 771, 1282).
THEOREM Refinement == Spec => ImplementsRequestReply
<1>1. Init => Promise!Init
  BY InitPromise
<1>2. IInv /\ RequestInv /\ SeqInv /\ [Next]_vars => [Promise!Next]_(Promise!vars)
  BY StepPromise
<1>3. QED
  BY <1>1, <1>2, Ordered, PTL DEF Spec, ImplementsRequestReply, Promise!Spec
=============================================================================
