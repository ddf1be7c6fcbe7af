----------------------------- MODULE EventLoop -----------------------------
(***************************************************************************)
(* libevent's event_base_loop (event.c) with the lists an event can be on: *)
(* watched by the kernel (EVLIST_INSERTED), active (EVLIST_ACTIVE), in the *)
(* heap of timeouts (EVLIST_TIMEOUT).  The sender's and the server's       *)
(* threads run this loop; the events are those of their sockets.  What a   *)
(* callback does to the events, its own and others that are active too, is *)
(* any sequence of event_add, event_del and event_base_loopexit.           *)
(* One priority, no signals, no common timeouts, no deferred callbacks, a  *)
(* monotonic clock: the program uses nothing else.                         *)
(***************************************************************************)
EXTENDS MinHeap, FiniteSets, SequencesExt

CONSTANTS
  Events,       \* the events of one base
  IO,           \* those with a descriptor (EV_READ or EV_WRITE); the others only time out
  Persist,      \* those with EV_PERSIST
  Exits,        \* the once-events of event_base_loopexit: bound on those that are pending
  Intervals,    \* the timeouts the program passes to event_add
  DropsTimeouts,\* whether the program adds an event that has a timeout without one
  NoEvent,
  MaxOps,       \* bound: calls of event_add, event_del and event_base_loopexit
  MaxClock      \* bound: the last time of the clock

ASSUME EventLoopAssumption ==
  /\ IO \subseteq Events /\ Persist \subseteq Events /\ NoEvent \notin Events
  /\ Exits \subseteq Events \ (IO \cup Persist) /\ DropsTimeouts \in BOOLEAN /\ 0 \in Intervals
  /\ IsFiniteSet(Events) /\ Intervals \subseteq Nat /\ MaxOps \in Nat /\ MaxClock \in Nat \ {0}

VARIABLES
  inserted,     \* events with EVLIST_INSERTED
  active,       \* activequeues[0]
  heap,         \* timeheap, with the events' min_heap_idx
  timeout,      \* ev_timeout
  interval,     \* ev_io_timeout
  res,          \* ev_res
  eventCount,   \* event_count
  eventBreak,   \* event_break
  gotterm,      \* event_gotterm
  retval,       \* what event_base_loop returned last; 0 while it runs
  loop,         \* where event_base_loop is
  current,      \* the event whose callback runs
  deadline,     \* when dispatch's wait ends; Forever for no timeout
  tvCache,      \* tv_cache; 0 when cleared
  clock,        \* CLOCK_MONOTONIC
  ready,        \* events whose descriptors are ready (level triggered)
  ops,          \* calls made
  call          \* the last of them

lists == <<inserted, active, heap, timeout, interval, res, eventCount>>
ends  == <<eventBreak, gotterm, retval>>
world == <<clock, ready>>
calls == <<ops, call>>
vars  == <<lists, ends, loop, current, deadline, tvCache, world, calls>>

Forever == MaxClock + 1
NULL    == -1        \* event_add's timeout, when it has none
Now     == IF tvCache # 0 THEN tvCache ELSE clock      \* gettime
Flags(e) == {q \in {"inserted", "active", "timeout"} :
               \/ q = "inserted" /\ e \in inserted
               \/ q = "active" /\ Contains(active, e)
               \/ q = "timeout" /\ InHeap(heap, e)}

TypeOK ==
  /\ inserted \subseteq IO
  /\ active \in Seq(Events) /\ IsInjective(active)
  /\ IsHeap(heap, Events, timeout)
  /\ timeout \in [Events -> Nat] /\ interval \in [Events -> Intervals \cup {0}]
  /\ res \in [Events -> SUBSET {"io", "timeout"}]
  /\ eventCount = Cardinality(inserted) + Len(active) + Size(heap)
  /\ eventBreak \in BOOLEAN /\ gotterm \in BOOLEAN /\ retval \in {-1, 0, 1}
  /\ current \in Events \cup {NoEvent}
  /\ loop \in {"none", "top", "dispatch", "timeouts", "active", "callback"}
  /\ deadline \in 0..Forever /\ tvCache \in 0..clock /\ clock \in 1..MaxClock
  /\ ready \subseteq IO /\ ops \in 0..MaxOps
  /\ call \in [fn : {"none", "event_add", "event_del"}, ev : Events \cup {NoEvent},
              tv : Intervals \cup {NULL}]

Init ==
  /\ inserted = {} /\ active = <<>> /\ heap = EmptyHeap(Events)
  /\ timeout = [e \in Events |-> 0] /\ interval = [e \in Events |-> 0]
  /\ res = [e \in Events |-> {}] /\ eventCount = 0
  /\ eventBreak = FALSE /\ gotterm = FALSE /\ retval = 0
  /\ loop = "none" /\ current = NoEvent /\ deadline = 0 /\ tvCache = 0
  /\ clock = 1 /\ ready = {}
  /\ ops = 0 /\ call = [fn |-> "none", ev |-> NoEvent, tv |-> NULL]

-----------------------------------------------------------------------------
(***************************************************************************)
(* event_add, event_del and event_active work on the lists as a record, so *)
(* that one step of the loop can call them in the code's order.            *)
(***************************************************************************)
Base == [inserted |-> inserted, active |-> active, heap |-> heap, timeout |-> timeout,
         interval |-> interval, res |-> res, count |-> eventCount]

Becomes(b) ==
  /\ inserted' = b.inserted /\ active' = b.active /\ heap' = b.heap
  /\ timeout' = b.timeout /\ interval' = b.interval /\ res' = b.res /\ eventCount' = b.count

\* TAILQ_REMOVE
Without(s, e) == RemoveAt(s, CHOOSE i \in DOMAIN s : s[i] = e)

\* event_queue_insert, event_queue_remove
Watch(b, e)    == [b EXCEPT !.inserted = @ \cup {e}, !.count = @ + 1]
Unwatch_StaysCounted(b, e) == [b EXCEPT !.inserted = @ \ {e}]
Unwatch(b, e)  == [b EXCEPT !.inserted = @ \ {e}, !.count = @ - 1]
Activate(b, e) == [b EXCEPT !.active = Append(@, e), !.count = @ + 1]
Deactivate(b, e) == [b EXCEPT !.active = Without(@, e), !.count = @ - 1]
Schedule(b, e, t) ==
  LET key == [b.timeout EXCEPT ![e] = t]
  IN [b EXCEPT !.timeout = key, !.heap = Push(@, e, key), !.count = @ + 1]
Unschedule(b, e)  == [b EXCEPT !.heap = Erase(@, e, b.timeout), !.count = @ - 1]

IsActive(b, e) == Contains(b.active, e)

AddUntil_ScheduledTwice(b, e, t) ==
  LET b1 == IF e \in IO /\ e \notin b.inserted /\ ~IsActive(b, e) THEN Watch(b, e) ELSE b
      b2 == IF IsActive(b1, e) /\ "timeout" \in b1.res[e] THEN Deactivate(b1, e) ELSE b1
  IN Schedule(b2, e, t)

\* event_add_internal with a timeout that ends at t.  An event that is active is
\* not inserted, also when its timeout made it active and is replaced here.
AddUntil(b, e, t) ==
  LET b1 == IF e \in IO /\ e \notin b.inserted /\ ~IsActive(b, e) THEN Watch(b, e) ELSE b
      b2 == IF InHeap(b1.heap, e) THEN Unschedule(b1, e) ELSE b1
      b3 == IF IsActive(b2, e) /\ "timeout" \in b2.res[e] THEN Deactivate(b2, e) ELSE b2
  IN Schedule(b3, e, t)

\* event_add_internal without a timeout: one that is scheduled stays.
AddForever(b, e) ==
  IF e \in IO /\ e \notin b.inserted /\ ~IsActive(b, e) THEN Watch(b, e) ELSE b

DelInternal_KeepsActive(b, e) ==
  LET b1 == IF InHeap(b.heap, e) THEN Unschedule(b, e) ELSE b
  IN IF e \in b1.inserted THEN Unwatch(b1, e) ELSE b1

\* event_del_internal
DelInternal(b, e) ==
  LET b1 == IF InHeap(b.heap, e) THEN Unschedule(b, e) ELSE b
      b2 == IF IsActive(b1, e) THEN Deactivate(b1, e) ELSE b1
  IN IF e \in b2.inserted THEN Unwatch(b2, e) ELSE b2

\* event_active_nolock
ActiveNolock(b, e, why) ==
  IF IsActive(b, e) THEN [b EXCEPT !.res[e] = @ \cup {why}]
  ELSE Activate([b EXCEPT !.res[e] = {why}], e)

\* event_persist_closure: a timeout comes again one interval after it was due.
PersistClosure(b, e) ==
  IF b.interval[e] = 0 THEN b
  ELSE AddUntil(b, e, b.interval[e] + IF "timeout" \in b.res[e] THEN b.timeout[e] ELSE Now)

-----------------------------------------------------------------------------
(***************************************************************************)
(* event_base_loop.                                                        *)
(***************************************************************************)
Leave == loop' = "none" /\ tvCache' = 0

Enter ==
  /\ loop = "none" /\ loop' = "top" /\ tvCache' = 0
  /\ eventBreak' = FALSE /\ gotterm' = FALSE /\ retval' = 0
  /\ UNCHANGED <<lists, current, deadline, world, calls>>

Broken ==
  /\ loop = "top" /\ (gotterm \/ eventBreak) /\ Leave
  /\ UNCHANGED <<lists, ends, current, deadline, world, calls>>

NoEvents ==
  /\ loop = "top" /\ ~gotterm /\ ~eventBreak /\ eventCount = 0 /\ active = <<>>
  /\ Leave /\ retval' = 1
  /\ UNCHANGED <<lists, eventBreak, gotterm, current, deadline, world, calls>>

TimeoutNext_NoTimeout == IF active # <<>> THEN clock ELSE Forever

\* timeout_next reads the time the last turn cached: the wait is longer by as
\* much as the callbacks took.  A wait beyond the bound ends with the clock.
TimeoutNext ==
  IF active # <<>> THEN clock
  ELSE IF Size(heap) = 0 THEN Forever
  ELSE LET wait == timeout[HeapTop(heap)] - Now
           end  == IF wait > 0 THEN clock + wait ELSE clock
       IN IF end > MaxClock THEN MaxClock ELSE end

Poll ==
  /\ loop = "top" /\ ~gotterm /\ ~eventBreak /\ ~(eventCount = 0 /\ active = <<>>)
  /\ deadline' = TimeoutNext /\ tvCache' = 0 /\ loop' = "dispatch"
  /\ UNCHANGED <<lists, ends, current, world, calls>>

\* The kernel reports what is watched and ready, in any order, and evmap_io_active
\* makes it active: ActiveNolock for each, in one step.
Dispatch ==
  /\ loop = "dispatch" /\ (inserted \cap ready # {} \/ clock >= deadline)
  /\ LET found == inserted \cap ready
         new   == {e \in found : ~Contains(active, e)}
     IN /\ \E order \in SetToSeqs(new) : active' = active \o order
        /\ res' = [e \in Events |-> IF e \in new THEN {"io"}
                                   ELSE IF e \in found THEN res[e] \cup {"io"} ELSE res[e]]
        /\ eventCount' = eventCount + Cardinality(new)
  /\ UNCHANGED <<inserted, heap, timeout, interval>>
  /\ tvCache' = clock /\ loop' = "timeouts" /\ deadline' = 0
  /\ UNCHANGED <<ends, current, world, calls>>

\* epoll_wait ends with EINTR: a signal came before an event did.
Interrupted ==
  /\ loop = "dispatch" /\ inserted \cap ready = {}
  /\ tvCache' = clock /\ loop' = "timeouts" /\ deadline' = 0
  /\ UNCHANGED <<lists, ends, current, world, calls>>

\* The backend's wait returns -1, for any other error.
DispatchFails ==
  /\ loop = "dispatch" /\ Leave /\ retval' = -1 /\ deadline' = 0
  /\ UNCHANGED <<lists, eventBreak, gotterm, current, world, calls>>

IsDue_Later == IF Size(heap) = 0 THEN FALSE ELSE timeout[HeapTop(heap)] < Now

\* timeout_process, one event of its loop at a time
IsDue == IF Size(heap) = 0 THEN FALSE ELSE timeout[HeapTop(heap)] <= Now

Expire ==
  /\ loop = "timeouts" /\ IsDue
  /\ LET e == HeapTop(heap) IN Becomes(ActiveNolock(DelInternal(Base, e), e, "timeout"))
  /\ UNCHANGED <<ends, loop, current, deadline, tvCache, world, calls>>

Expired ==
  /\ loop = "timeouts" /\ ~IsDue
  /\ loop' = IF active # <<>> THEN "active" ELSE "top"
  /\ UNCHANGED <<lists, ends, current, deadline, tvCache, world, calls>>

\* event_process_active_single_queue: the event at the head, and its callback
ProcessActive ==
  /\ loop = "active" /\ loop' = "callback"
  /\ LET e == Head(active) IN
       /\ current' = e
       /\ Becomes(IF e \in Persist THEN PersistClosure(Deactivate(Base, e), e)
                  ELSE DelInternal(Base, e))
  /\ UNCHANGED <<ends, deadline, tvCache, world, calls>>

\* event_loopexit_cb only sets event_gotterm, which is looked at when the queue
\* is empty; event_break is looked at here too.
CallbackReturns ==
  /\ loop = "callback" /\ current' = NoEvent
  /\ gotterm' = (gotterm \/ current \in Exits)
  /\ loop' = IF eventBreak \/ active = <<>> THEN "top" ELSE "active"
  /\ UNCHANGED <<lists, eventBreak, retval, deadline, tvCache, world, calls>>

-----------------------------------------------------------------------------
(***************************************************************************)
(* The program, in a callback or outside the loop; sockets and the clock.  *)
(***************************************************************************)
MayCall == ops < MaxOps /\ (loop = "none" \/ (loop = "callback" /\ current \notin Exits))

Called(fn, e, tv) == ops' = ops + 1 /\ call' = [fn |-> fn, ev |-> e, tv |-> tv]

Remember(b, e, i) == IF e \in Persist THEN [b EXCEPT !.interval[e] = i] ELSE b

\* No timeout is set for it, nor left over from an earlier event_add.
Timeless(e) ==
  interval[e] = 0 /\ ~InHeap(heap, e) /\ ~(Contains(active, e) /\ "timeout" \in res[e])

\* An event without a descriptor is never added without a timeout, a persistent
\* one never with a timeout of zero (_bufferevent_add_event).
EventAdd(e) ==
  /\ MayCall
  /\ \/ /\ e \in IO /\ (DropsTimeouts \/ Timeless(e))
        /\ Called("event_add", e, NULL) /\ Becomes(AddForever(Base, e))
     \/ \E i \in Intervals :
          /\ e \in Persist => i > 0
          /\ Called("event_add", e, i) /\ Becomes(Remember(AddUntil(Base, e, Now + i), e, i))
  /\ UNCHANGED <<ends, loop, current, deadline, tvCache, world>>

EventDel(e) ==
  /\ MayCall /\ Called("event_del", e, NULL)
  /\ Becomes(DelInternal(Base, e))
  /\ UNCHANGED <<ends, loop, current, deadline, tvCache, world>>

\* event_base_loopexit without a time: event_base_once adds an event of its own,
\* with a timeout of zero.
LoopExit(x) ==
  /\ MayCall /\ Flags(x) = {} /\ Called("event_add", x, 0)
  /\ Becomes(AddUntil(Base, x, Now))
  /\ UNCHANGED <<ends, loop, current, deadline, tvCache, world>>

\* event_base_loopbreak, from a callback or another thread, which may be too early
LoopBreak ==
  /\ ~eventBreak /\ eventBreak' = TRUE
  /\ UNCHANGED <<lists, gotterm, retval, loop, current, deadline, tvCache, world, calls>>

\* A callback reads what its socket holds, or writes until it is full.
Drain ==
  /\ loop = "callback" /\ current \in ready /\ ready' = ready \ {current}
  /\ UNCHANGED <<lists, ends, loop, current, deadline, tvCache, clock, calls>>

BecomesReady(e) ==
  /\ e \notin ready /\ ready' = ready \cup {e}
  /\ UNCHANGED <<lists, ends, loop, current, deadline, tvCache, clock, calls>>

Tick ==
  /\ clock < MaxClock /\ clock' = clock + 1
  /\ UNCHANGED <<lists, ends, loop, current, deadline, tvCache, ready, calls>>

LoopStep ==
  \/ Enter \/ Broken \/ NoEvents \/ Poll \/ Dispatch
  \/ Expire \/ Expired \/ ProcessActive \/ CallbackReturns

Next ==
  \/ Enter \/ Broken \/ NoEvents \/ Poll \/ Dispatch \/ Interrupted \/ DispatchFails
  \/ Expire \/ Expired \/ ProcessActive \/ CallbackReturns
  \/ LoopBreak \/ Drain \/ Tick
  \/ \E e \in Events \ Exits : EventAdd(e) \/ EventDel(e)
  \/ \E x \in Exits : LoopExit(x)
  \/ \E e \in IO : BecomesReady(e)

Spec == Init /\ [][Next]_vars

\* The thread runs, calls the loop again when it has returned, and its
\* callbacks return; time passes.  Sockets and calls owe nothing, and the wait
\* may fail.
FairSpec == Spec /\ WF_vars(LoopStep) /\ WF_vars(Tick)

-----------------------------------------------------------------------------
(***************************************************************************)
(* Properties.                                                             *)
(***************************************************************************)
\* An event is asked for while it is on any list; a timeout that made it active
\* is still to be delivered.
Asked == {e \in Events : Flags(e) # {}}
DueAt(e) == IF InHeap(heap, e) \/ (Contains(active, e) /\ "timeout" \in res[e])
            THEN timeout[e] ELSE 0
Noticed == {e \in Events : Contains(active, e) /\ "io" \in res[e]}

Api == INSTANCE EventApi WITH
  asked <- Asked, due <- [e \in Events |-> DueAt(e)], period <- interval,
  noticed <- Noticed, calling <- current, calls <- ops, now <- Now

\* The lists and the loop keep event.h's promise (event2/event.h:908-943): no
\* callback of an event that is deleted or was called once, none without a
\* cause, no timeout early, periods without drift, no event dropped but by
\* event_del - whatever callbacks do to events that are active at the same time.
\* Where the program adds an event that has a timeout without one, they do not:
\* event_add_internal keeps the old timeout, event2/event.h:919-921 clears it.
ImplementsEventApi == Api!Spec

WillRun(e) ==
  \/ Contains(active, e)
  \/ e \in inserted \cap ready
  \/ InHeap(heap, e) /\ timeout[e] <= MaxClock

\* No event stays active, ready or timed for ever: it is called, unless the program
\* deletes it, gives it another timeout or takes its readiness away, or breaks
\* the loop, or the wait fails: no busy event keeps another from its turn, and
\* what an exit from the loop leaves active is called when the program comes back
\* (event_process_active, timeout_process).
CausedEventIsCalled ==
  \A e \in Events : []<>(current = e \/ ~WillRun(e) \/ eventBreak \/ retval = -1)

\* The loop lets no timeout wait for another turn: when it leaves the timeouts,
\* those that have passed are all active (timeout_process).
NoTimeoutIsLeft ==
  [][loop = "timeouts" /\ loop' # "timeouts" =>
       \A e \in Events : InHeap(heap, e) => timeout[e] > Now]_vars

\* What the loop returns says why (event2/event.h, event_base_loop): 1 when no
\* event is asked for, whatever the counter says (event_haveevents), 0 when it
\* was broken or an exit's callback has run, -1 when the wait failed.  After a
\* break in a callback it calls nothing else (event_base_loopbreak).
LoopEndsForAReason ==
  [][/\ loop # "none" /\ loop' = "none" =>
          \/ retval' = 1 /\ Asked = {}
          \/ retval' = 0 /\ (eventBreak \/ gotterm)
          \/ retval' = -1 /\ loop = "dispatch"
     /\ eventBreak /\ loop = "callback" => loop' \in {"callback", "top"}]_vars

\* What event_base_loop owes its caller from one turn to the next: timeout_process
\* leaves no timeout that has passed, and the loop returns for no reason but those
\* that its result names.
LoopKeepsItsOrder == NoTimeoutIsLeft /\ LoopEndsForAReason

\* It does return once no event is asked for or a callback has broken it, unless
\* an event is added again first; and once event_base_loopexit was called in it, or
\* before it, however many other events are active, ready or timed.
LoopEndsInTime ==
  /\ (loop # "none" /\ (Asked = {} \/ (eventBreak /\ loop = "callback")))
       ~> (loop = "none" \/ (Asked # {} /\ ~eventBreak))
  /\ \A x \in Exits : (loop # "none" /\ Flags(x) # {}) ~> loop = "none"
=============================================================================
