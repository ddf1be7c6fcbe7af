---------------------------- MODULE MCEventLoop ----------------------------
(***************************************************************************)
(* A base with a persistent socket event, as bufferevents and listeners    *)
(* use them, a socket event that is called once, and the once-event of     *)
(* event_base_loopexit.  Three events make a heap too small for most of    *)
(* minheap-internal.h, so what its operations compute is checked here for  *)
(* every heap of up to six events.                                         *)
(***************************************************************************)
EXTENDS EventLoop

\* Events pushed in the order of the array: every heap can be built like this.
Filled(key) == FoldLeft(LAMBDA h, e : Push(h, e, key), EmptyHeap(DOMAIN key),
                        [i \in DOMAIN key |-> i])

Holds(h, S, key) == IsHeap(h, DOMAIN key, key) /\ Range(h.p) = S /\ Size(h) = Cardinality(S)

\* Push and Erase keep the order, the events and each event's place; the last
\* event, which fills the gap, may come from another branch and move up.
ASSUME HeapIsSound ==
  \A n \in 1..6 : \A key \in [1..n -> 1..3] :
    LET h == Filled(key) IN
    /\ Holds(h, 1..n, key)
    /\ \A e \in 1..n : key[HeapTop(h)] <= key[e] /\ Holds(Erase(h, e, key), (1..n) \ {e}, key)
=============================================================================
