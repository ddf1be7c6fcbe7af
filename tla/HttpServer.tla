----------------------------- MODULE HttpServer -----------------------------
(***************************************************************************)
(* The incoming evhttp_connections of KinectServer's evhttp                *)
(* (src/libevent/http.c): one per accepted TCP connection, each reads a    *)
(* request, hands it to KinectServer::_OnRequest, writes the reply and     *)
(* reads the next one.  _OnRequest replies before it returns.              *)
(***************************************************************************)
EXTENDS HttpLink

VARIABLES
  sstate,     \* state of each incoming connection; "none" before it is accepted
  sreq,       \* request it is reading or answering, 0 for none
  sout,       \* parts of the reply in its output buffer
  handled     \* history: requests handed to _OnRequest, in order

server == <<sstate, sreq, sout, handled>>

ServerInit ==
  /\ sstate = [c \in Connections |-> "none"]
  /\ sreq = [c \in Connections |-> 0] /\ sout = [c \in Connections |-> <<>>]
  /\ handled = <<>>

\* accept_socket_cb and evhttp_get_request; without memory or a peer name the
\* socket is closed again.
Accept(c) ==
  /\ c <= opened /\ sstate[c] = "none"
  /\ \E s \in {"firstline", "freed"} : sstate' = [sstate EXCEPT ![c] = s]
  /\ UNCHANGED <<sreq, sout, handled, link>>

\* The next part of what is read on c.
Take(c, part) ==
  /\ up[c] # <<>> /\ part = Head(up[c])[2]
  /\ up' = [up EXCEPT ![c] = Tail(@)]
  /\ UNCHANGED <<opened, down>>

ReadFirstLine_NoRequest(c) ==
  /\ sstate[c] = "firstline" /\ Take(c, "line")
  /\ sstate' = [sstate EXCEPT ![c] = "headers"]
  /\ UNCHANGED <<sreq, sout, handled>>

\* evhttp_read_firstline, on the request of evhttp_associate_new_request_...
ReadFirstLine(c) ==
  /\ sstate[c] = "firstline" /\ Take(c, "line")
  /\ sstate' = [sstate EXCEPT ![c] = "headers"]
  /\ sreq' = [sreq EXCEPT ![c] = Head(up[c])[1]]
  /\ UNCHANGED <<sout, handled>>

\* evhttp_read_header: a POST has a body.
ReadHeader(c) ==
  /\ sstate[c] = "headers" /\ Take(c, "headers")
  /\ sstate' = [sstate EXCEPT ![c] = "body"]
  /\ UNCHANGED <<sreq, sout, handled>>

\* evhttp_read_body and evhttp_connection_done: evhttp_handle_request calls
\* _OnRequest, which sends the reply.
ReadBody(c) ==
  /\ sstate[c] = "body" /\ Take(c, "body")
  /\ sstate' = [sstate EXCEPT ![c] = "writing"]
  /\ handled' = Append(handled, sreq[c])
  /\ sout' = [sout EXCEPT ![c] = ReplyParts(sreq[c])] /\ UNCHANGED sreq

ServerRead(c) == ReadFirstLine(c) \/ ReadHeader(c) \/ ReadBody(c)

\* bufferevent_writecb, and evhttp_send_done when all is written: the connection
\* is kept and reads the next request.
ServerWrite(c) ==
  /\ sstate[c] = "writing"
  /\ \E n \in 1..Len(sout[c]) :
       /\ down' = [down EXCEPT ![c] = @ \o SubSeq(sout[c], 1, n)]
       /\ sout' = [sout EXCEPT ![c] = SubSeq(@, n + 1, Len(@))]
       /\ IF n = Len(sout[c])
          THEN sstate' = [sstate EXCEPT ![c] = "firstline"] /\ sreq' = [sreq EXCEPT ![c] = 0]
          ELSE UNCHANGED <<sstate, sreq>>
  /\ UNCHANGED <<opened, up, handled>>

Live(c) == sstate[c] \notin {"none", "freed"}

\* evhttp_connection_fail on an incoming connection: evhttp_connection_free.
Drop(c) ==
  /\ sstate' = [sstate EXCEPT ![c] = "freed"]
  /\ sreq' = [sreq EXCEPT ![c] = 0] /\ sout' = [sout EXCEPT ![c] = <<>>]
  /\ UNCHANGED <<handled, link>>

\* Timeout or error while reading or writing.
ServerError(c) == Live(c) /\ Drop(c)

ServerTypeOK ==
  /\ sstate \in [Connections -> {"none", "firstline", "headers", "body", "writing", "freed"}]
  /\ sreq \in [Connections -> 0..MaxRequests]
  /\ sout \in [Connections -> Seq(Parts)]
  /\ handled \in Seq(Requests)
=============================================================================
