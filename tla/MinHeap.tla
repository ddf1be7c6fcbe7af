------------------------------ MODULE MinHeap ------------------------------
(***************************************************************************)
(* libevent's heap of timeouts (minheap-internal.h): the array p and, in   *)
(* every event, the place it has in the array (ev_timeout_pos.min_heap_idx) *)
(* - which erase trusts.  Places count from 1; an idx of 0 is the code's   *)
(* -1.  A heap is compared by key, the events' ev_timeout.  The loops that *)
(* move a hole are recursive functions of its place: the moves after the   *)
(* first read only what that one has not written.                          *)
(***************************************************************************)
EXTENDS Integers, Sequences

EmptyHeap(S) == [p |-> <<>>, idx |-> [e \in S |-> 0]]

Size(h)      == Len(h.p)
HeapTop(h)   == h.p[1]
InHeap(h, e) == h.idx[e] # 0

\* (s->p[hole] = e)->min_heap_idx = hole
Put(h, hole, e) == [p |-> [h.p EXCEPT ![hole] = e], idx |-> [h.idx EXCEPT ![e] = hole]]

ShiftUp(h, hole, e, key) ==
  LET up[i \in DOMAIN h.p] ==
        IF i > 1 /\ key[h.p[i \div 2]] > key[e]
        THEN Put(up[i \div 2], i, h.p[i \div 2]) ELSE Put(h, i, e)
  IN up[hole]

\* n is s->n; the array may still hold one element more.
MinChild(h, n, i, key) ==
  IF 2 * i = n \/ key[h.p[2 * i + 1]] > key[h.p[2 * i]] THEN 2 * i ELSE 2 * i + 1

ShiftDown(h, n, hole, e, key) ==
  LET Child(i) == MinChild(h, n, i, key)
      down[i \in DOMAIN h.p] ==
        IF 2 * i <= n /\ key[e] > key[h.p[Child(i)]]
        THEN Put(down[Child(i)], i, h.p[Child(i)]) ELSE Put(h, i, e)
  IN down[hole]

Push(h, e, key) == ShiftUp([h EXCEPT !.p = Append(@, e)], Size(h) + 1, e, key)

Erase(h, e, key) ==
  LET n == Size(h) - 1  last == h.p[Size(h)]  hole == h.idx[e]
      moved == IF hole > 1 /\ key[h.p[hole \div 2]] > key[last]
               THEN ShiftUp(h, hole, last, key) ELSE ShiftDown(h, n, hole, last, key)
  IN [p |-> SubSeq(moved.p, 1, n), idx |-> [moved.idx EXCEPT ![e] = 0]]

\* What the two operations must keep: no event is due before its parent, and
\* every event knows its place.
IsHeap(h, S, key) ==
  /\ h \in [p : Seq(S), idx : [S -> Nat]]
  /\ \A i \in 2..Size(h) : key[h.p[i \div 2]] <= key[h.p[i]]
  /\ \A i \in 1..Size(h) : h.idx[h.p[i]] = i
  /\ \A e \in S : InHeap(h, e) => h.idx[e] <= Size(h) /\ h.p[h.idx[e]] = e
=============================================================================
