---------------------------- MODULE RequestReply ----------------------------
(***************************************************************************)
(* What evhttp's client and server promise together: a request that was    *)
(* made is handled at most once; its callback is called at most once, with *)
(* the reply to this request, which was handled before, or with the news   *)
(* that there is none.  A request that failed may have been handled, or be *)
(* handled later.                                                          *)
(***************************************************************************)
EXTENDS Naturals

CONSTANT MaxRequests

Requests == 1..MaxRequests

VARIABLES
  made,       \* requests 1..made have been made
  times,      \* how often the server has handled each request
  answer,     \* "none", "error", "unconnected", "refused" or "reply"
  replyOf     \* the request whose reply it is

vars == <<made, times, answer, replyOf>>

Init ==
  /\ made = 0 /\ times = [r \in Requests |-> 0]
  /\ answer = [r \in Requests |-> "none"] /\ replyOf = [r \in Requests |-> 0]

Handle(r) ==
  /\ r <= made /\ times[r] = 0
  /\ times' = [times EXCEPT ![r] = 1]
  /\ UNCHANGED <<made, answer, replyOf>>

Reply(r) ==
  /\ times[r] = 1 /\ answer[r] = "none"
  /\ answer' = [answer EXCEPT ![r] = "reply"] /\ replyOf' = [replyOf EXCEPT ![r] = r]
  /\ UNCHANGED <<made, times>>

\* Several requests may fail together, the one being made among them.
MakeOrFail ==
  /\ made' \in {made, made + 1} \cap (0..MaxRequests)
  /\ \E rs \in SUBSET (1..made'), how \in {"error", "unconnected", "refused"} :
       /\ \A r \in rs : answer[r] = "none"
       /\ answer' = [r \in Requests |-> IF r \in rs THEN how ELSE answer[r]]
  /\ UNCHANGED <<times, replyOf>>

Next == MakeOrFail \/ \E r \in Requests : Handle(r) \/ Reply(r)

Spec == Init /\ [][Next]_vars
=============================================================================
