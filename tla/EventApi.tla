------------------------------ MODULE EventApi ------------------------------
(***************************************************************************)
(* What event_add, event_del and event_base_loop promise a program         *)
(* (event2/event.h:908-943), whatever lists and heaps they keep: an event's *)
(* callback runs only while the event is asked for, because its socket was *)
(* found ready since, or because its timeout has passed; an event that is  *)
(* not persistent is then no longer asked for, a persistent timeout comes  *)
(* again one period after the time it was due.  To add an event again      *)
(* replaces its timeout by the new one or by none (event2/event.h:919-921). *)
(***************************************************************************)
EXTENDS Integers

CONSTANTS Events, Persist, Intervals, NoEvent

VARIABLES
  asked,      \* the events added and neither deleted nor done
  due,        \* when an event's timeout passes; 0 for none
  period,     \* the timeout a persistent event was last added with
  ready,      \* the events whose sockets are readable
  noticed,    \* the events asked for that the loop has found ready
  calling,    \* the event whose callback runs, or NoEvent
  clock,
  now,        \* the time the loop goes by: the clock, or what it read of it
  calls,      \* how often event_add and event_del were called
  call        \* the last of these calls

vars == <<asked, due, period, ready, noticed, calling, clock, now, calls, call>>

NULL == -1     \* no timeout

Init ==
  /\ asked = {} /\ noticed = {} /\ ready = {} /\ calling = NoEvent
  /\ due = [e \in Events |-> 0] /\ period = [e \in Events |-> 0]
  /\ clock = 1 /\ now = 1
  /\ calls = 0 /\ call = [fn |-> "none", ev |-> NoEvent, tv |-> NULL]

Called(fn, e, tv) == calls' = calls + 1 /\ call' = [fn |-> fn, ev |-> e, tv |-> tv]

\* The event's old timeout is replaced, or cleared.
Add(e, tv) ==
  /\ Called("event_add", e, tv) /\ asked' = asked \cup {e}
  /\ due' = [due EXCEPT ![e] = IF tv = NULL THEN 0 ELSE now + tv]
  /\ period' = IF e \in Persist THEN [period EXCEPT ![e] = IF tv = NULL THEN 0 ELSE tv]
               ELSE period
  /\ UNCHANGED <<ready, noticed, calling, clock>>

Del(e) ==
  /\ Called("event_del", e, NULL)
  /\ asked' = asked \ {e} /\ noticed' = noticed \ {e} /\ due' = [due EXCEPT ![e] = 0]
  /\ UNCHANGED <<period, ready, calling, clock>>

\* Once its timeout has passed, an event is called for that and nothing else.
Overdue(e) == due[e] # 0 /\ due[e] <= clock

Notice(S) ==
  /\ S \subseteq asked \cap ready
  /\ noticed' = noticed \cup S
  /\ UNCHANGED <<asked, due, period, ready, calling, clock, calls, call>>

Expire(e) ==
  /\ Overdue(e) /\ noticed' = noticed \ {e}
  /\ UNCHANGED <<asked, due, period, ready, calling, clock, calls, call>>

Call(e) ==
  /\ calling = NoEvent /\ e \in asked
  /\ calling' = e /\ noticed' = noticed \ {e}
  /\ \/ /\ Overdue(e)
        /\ IF e \in Persist /\ period[e] > 0
           THEN asked' = asked /\ due' = [due EXCEPT ![e] = @ + period[e]]
           ELSE asked' = asked \ {e} /\ due' = [due EXCEPT ![e] = 0]
     \/ /\ e \in noticed
        /\ IF e \in Persist
           THEN /\ asked' = asked
                /\ IF period[e] > 0
                   THEN due' = [due EXCEPT ![e] = now + period[e]]
                   ELSE due' = due
           ELSE asked' = asked \ {e} /\ due' = [due EXCEPT ![e] = 0]
  /\ UNCHANGED <<period, ready, clock, calls, call>>

Return ==
  /\ calling # NoEvent /\ calling' = NoEvent
  /\ UNCHANGED <<asked, due, period, ready, noticed, clock, calls, call>>

Environment ==
  /\ clock' \in {clock, clock + 1}
  /\ UNCHANGED <<asked, due, period, noticed, calling, calls, call>>

Next ==
  /\ \/ \E e \in Events, tv \in Intervals \cup {NULL} : Add(e, tv)
     \/ \E e \in Events : Del(e) \/ Expire(e) \/ Call(e)
     \/ \E S \in SUBSET Events : Notice(S)
     \/ Return \/ Environment
  /\ now' \in now..clock'

Spec == Init /\ [][Next]_vars
=============================================================================
