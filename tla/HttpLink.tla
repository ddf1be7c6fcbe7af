------------------------------ MODULE HttpLink ------------------------------
(***************************************************************************)
(* The TCP connections between evhttp's client and evhttp's server, as the *)
(* two see them: each connection carries the parts of the messages written *)
(* to it, in order.  A loss of the connection is an error event at an end  *)
(* (HttpClient, HttpServer); what was under way then is never read.        *)
(***************************************************************************)
EXTENDS Naturals, Sequences

CONSTANTS
  MaxRequests,      \* bound: requests made on the client's connection object
  MaxConnections    \* bound: TCP connections that are established

ASSUME HttpLinkAssumption == MaxRequests \in Nat /\ MaxConnections \in Nat

Requests    == 1..MaxRequests
Connections == 1..MaxConnections

VARIABLES
  opened,     \* connections 1..opened have been established
  up,         \* up[c]: parts written by the client and not read by the server
  down        \* down[c]: parts written by the server and not read by the client

link == <<opened, up, down>>

\* KinectDataSender::Send posts a body with its headers; the server answers 200
\* with Content-Length: 0.
RequestParts(r) == << <<r, "line">>, <<r, "headers">>, <<r, "body">> >>
ReplyParts(r)   == << <<r, "line">>, <<r, "headers">> >>

Parts == Requests \X {"line", "headers", "body"}

LinkInit ==
  /\ opened = 0
  /\ up = [c \in Connections |-> <<>>] /\ down = [c \in Connections |-> <<>>]

LinkTypeOK ==
  /\ opened \in 0..MaxConnections
  /\ up \in [Connections -> Seq(Parts)] /\ down \in [Connections -> Seq(Parts)]
=============================================================================
