-------------------------- MODULE EventLoop_proofs --------------------------
(***************************************************************************)
(* Safety of EventLoop for any number of events, any times and any         *)
(* sequence of calls.  First the heap: push and erase keep it in order and *)
(* every event's place in it true.  Then the lists: each operator, called  *)
(* as the code calls it, keeps them and the counter in agreement; so does  *)
(* each step of the loop.  With the cause of every active event that is an *)
(* inductive invariant, and under it EventLoop implements EventApi.        *)
(***************************************************************************)
EXTENDS EventLoop, SequenceTheorems, FiniteSetTheorems, TLAPS

-----------------------------------------------------------------------------
(* The heap                                                                *)

\* The principle the heap's loops are argued with: a set of numbers has a least one.
LEMMA LeastNumber ==
  ASSUME NEW S \in SUBSET Nat, S # {}
  PROVE  \E m \in S : \A k \in S : m <= k
<1> DEFINE R == OpToRel(<, Nat)
<1>1. PICK m \in S : \A k \in S : ~(<<k, m>> \in R)
  <2>1. IsWellFoundedOn(R, Nat)
    BY NatLessThanWellFounded
  <2> HIDE DEF R
  <2> QED
    BY <2>1, WFMin
<1>2. \A j, k \in Nat : j < k => <<j, k>> \in R
  BY DEF OpToRel
<1> HIDE DEF R
<1>3. \A k \in S : ~(k < m)
  BY <1>1, <1>2
<1> QED
  BY <1>3

\* f[i] is the heap that results when the hole is at i: it moves from a place in
\* moves to next[i], where val[i] was, and from another place not at all.
IsHolePath(f, D, moves, next, val, base) ==
  /\ f = [i \in D |-> f[i]]
  /\ \A i \in D : f[i] = IF i \in moves THEN Put(f[next[i]], i, val[i]) ELSE base[i]

\* A hole that only moves to places of a smaller rank, from a place in moves to
\* next[i], defines the heap that results at every place.
LEMMA HolePathExists ==
  ASSUME NEW D, NEW moves \in SUBSET D, NEW next, NEW val, NEW base,
         NEW rank, NEW n \in Nat,
         \A i \in D : rank[i] \in 0..(n - 1),
         \A i \in moves : next[i] \in D /\ rank[next[i]] < rank[i]
  PROVE  \E f : IsHolePath(f, D, moves, next, val, base)
<1> DEFINE Upto(r) == {i \in D : rank[i] < r}
           Step(f, i) == IF i \in moves THEN Put(f[next[i]], i, val[i]) ELSE base[i]
           Bad == {r \in Nat : ~ \E f : f = [i \in Upto(r) |-> Step(f, i)]}
<1>1. ASSUME NEW r \in Bad, \A s \in Bad : r <= s
      PROVE  FALSE
  <2>1. r # 0
    <3>1. Upto(0) = {}
      OBVIOUS
    <3> DEFINE f == [i \in {} |-> 0]
    <3>2. f = [i \in Upto(0) |-> Step(f, i)]
      BY <3>1
    <3> QED
      BY <3>2
  <2>2. r - 1 \in Nat /\ r - 1 \notin Bad
    <3>1. r \in Nat
      OBVIOUS
    <3> HIDE DEF Bad
    <3> QED
      BY <3>1, <1>1, <2>1
  <2>3. PICK g : g = [i \in Upto(r - 1) |-> Step(g, i)]
    BY <2>2
  <2> DEFINE f == [i \in Upto(r) |-> Step(g, i)]
  <2>4. ASSUME NEW i \in Upto(r) 
        PROVE  Step(f, i) = Step(g, i)
    <3>1. CASE i \in moves
      <4>1. next[i] \in Upto(r - 1)
        BY <3>1, <1>1
      <4>2. next[i] \in Upto(r)
        BY <4>1
      <4>3. g[next[i]] = Step(g, next[i]) /\ f[next[i]] = Step(g, next[i])
        BY <4>1, <4>2, <2>3
      <4> QED
        BY <4>3
    <3>2. CASE i \notin moves
      BY <3>2
    <3> QED
      BY <3>1, <3>2
  <2>5. f = [i \in Upto(r) |-> Step(f, i)]
    BY <2>4
  <2> QED
    BY <2>5, <1>1
<1>2. Bad = {}
  <2> HIDE DEF Bad
  <2>1. Bad \in SUBSET Nat
    BY DEF Bad
  <2> QED
    BY <2>1, <1>1, LeastNumber
<1>3. Upto(n) = D
  OBVIOUS
<1>4. \E f : f = [i \in Upto(n) |-> Step(f, i)]
  BY <1>2
<1>5. PICK f : f = [i \in D |-> Step(f, i)]
  BY <1>3, <1>4
<1>6. f = [i \in D |-> f[i]] /\ \A i \in D : f[i] = Step(f, i)
  <2> HIDE DEF Step
  <2> QED
    BY <1>5
<1> QED
  BY <1>6 DEF IsHolePath

\* A place's parent.
LEMMA HalfRange ==
  \A i \in Nat : i > 1 => /\ i \div 2 \in Nat /\ 1 <= i \div 2 /\ i \div 2 < i
                          /\ 2 * (i \div 2) <= i /\ i <= 2 * (i \div 2) + 1
OBVIOUS

\* ShiftUp is its own loop: one move, and the loop from the parent.
LEMMA ShiftUpStep ==
  ASSUME NEW h, NEW N \in Nat, DOMAIN h.p = 1..N, NEW e, NEW key, NEW i \in 1..N
  PROVE  ShiftUp(h, i, e, key) =
           IF i > 1 /\ key[h.p[i \div 2]] > key[e]
           THEN Put(ShiftUp(h, i \div 2, e, key), i, h.p[i \div 2]) ELSE Put(h, i, e)
<1> DEFINE moves == {j \in 1..N : j > 1 /\ key[h.p[j \div 2]] > key[e]}
           next  == [j \in 1..N |-> j \div 2]
           val   == [j \in 1..N |-> h.p[j \div 2]]
           base  == [j \in 1..N |-> Put(h, j, e)]
           up    == CHOOSE f : f = [j \in DOMAIN h.p |->
                                      IF j > 1 /\ key[h.p[j \div 2]] > key[e]
                                      THEN Put(f[j \div 2], j, h.p[j \div 2]) ELSE Put(h, j, e)]
<1>1. \E f : IsHolePath(f, 1..N, moves, next, val, base)
  <2> DEFINE D == 1..N
             n == N + 1
             rank == [j \in 1..N |-> j]
  <2>1. \A j \in D : rank[j] \in 0..(n - 1)
    OBVIOUS
  <2>2. \A j \in moves : next[j] \in D /\ rank[next[j]] < rank[j]
    BY HalfRange
  <2>3. moves \in SUBSET D /\ n \in Nat
    OBVIOUS
  <2> HIDE DEF rank, moves, next, val, base
  <2> QED
    BY <2>1, <2>2, <2>3, HolePathExists
<1>2. up = [j \in 1..N |-> IF j > 1 /\ key[h.p[j \div 2]] > key[e]
                           THEN Put(up[j \div 2], j, h.p[j \div 2]) ELSE Put(h, j, e)]
  <2>1. PICK f : IsHolePath(f, 1..N, moves, next, val, base)
    BY <1>1
  <2>2. f = [j \in DOMAIN h.p |-> IF j > 1 /\ key[h.p[j \div 2]] > key[e]
                            THEN Put(f[j \div 2], j, h.p[j \div 2]) ELSE Put(h, j, e)]
    BY <2>1 DEF IsHolePath
  <2> QED
    BY <2>2
<1>3. \A j : ShiftUp(h, j, e, key) = up[j]
  BY DEF ShiftUp
<1> HIDE DEF up
<1> QED
  BY <1>2, <1>3

\* ShiftDown is its own loop too.
LEMMA ShiftDownStep ==
  ASSUME NEW h, NEW N \in Nat, DOMAIN h.p = 1..N, NEW n \in 0..N, NEW e, NEW key, NEW i \in 1..N
  PROVE  ShiftDown(h, n, i, e, key) =
           IF 2 * i <= n /\ key[e] > key[h.p[MinChild(h, n, i, key)]]
           THEN Put(ShiftDown(h, n, MinChild(h, n, i, key), e, key), i, h.p[MinChild(h, n, i, key)])
           ELSE Put(h, i, e)
<1> DEFINE Child(j) == MinChild(h, n, j, key)
           moves == {j \in 1..N : 2 * j <= n /\ key[e] > key[h.p[Child(j)]]}
           next  == [j \in 1..N |-> Child(j)]
           val   == [j \in 1..N |-> h.p[Child(j)]]
           base  == [j \in 1..N |-> Put(h, j, e)]
           down  == CHOOSE f : f = [j \in DOMAIN h.p |->
                                      IF 2 * j <= n /\ key[e] > key[h.p[Child(j)]]
                                      THEN Put(f[Child(j)], j, h.p[Child(j)]) ELSE Put(h, j, e)]
<1>1. \E f : IsHolePath(f, 1..N, moves, next, val, base)
  <2> DEFINE rank == [j \in 1..N |-> N - j]
  <2>1. \A j \in 1..N : rank[j] \in 0..((N + 1) - 1)
    OBVIOUS
  <2>2. \A j \in moves : next[j] \in 1..N /\ rank[next[j]] < rank[j]
    BY DEF MinChild
  <2>3. moves \in SUBSET (1..N) /\ N + 1 \in Nat
    OBVIOUS
  <2> HIDE DEF rank, moves, next, val, base
  <2> QED
    BY <2>1, <2>2, <2>3, HolePathExists
<1>2. down = [j \in 1..N |-> IF 2 * j <= n /\ key[e] > key[h.p[Child(j)]]
                             THEN Put(down[Child(j)], j, h.p[Child(j)]) ELSE Put(h, j, e)]
  <2>1. PICK f : IsHolePath(f, 1..N, moves, next, val, base)
    BY <1>1
  <2>2. f = [j \in DOMAIN h.p |-> IF 2 * j <= n /\ key[e] > key[h.p[Child(j)]]
                                  THEN Put(f[Child(j)], j, h.p[Child(j)]) ELSE Put(h, j, e)]
    BY <2>1 DEF IsHolePath
  <2> QED
    BY <2>2
<1>3. \A j : ShiftDown(h, n, j, e, key) = down[j]
  BY DEF ShiftDown
<1> HIDE DEF down
<1> QED
  BY <1>2, <1>3

\* An array p and places idx when the last event e is about to fill a hole: e's
\* own place may be out of date, every other event knows its place.
Filling(p, idx, N, S, e) ==
  /\ p \in [1..N -> S] /\ idx \in [S -> 0..N]
  /\ e \in S /\ p[N] = e
  /\ \A j \in 1..(N - 1) : p[j] # e /\ idx[p[j]] = j
  /\ \A x \in S \ {e} : idx[x] # 0 => p[idx[x]] = x

Ordered(p, key, n) == \A j \in 2..n : key[p[j \div 2]] <= key[p[j]]

\* e and the events that were at the places P now fill the places Q, as q and qdx
\* say; the others stay where they were.
Places(p, idx, q, qdx, e, S, P, Q) ==
  /\ \A j \in Q : qdx[q[j]] = j /\ (q[j] = e \/ idx[q[j]] \in P)
  /\ \A x \in S : (x = e \/ idx[x] \in P) => qdx[x] \in Q /\ q[qdx[x]] = x
  /\ \A x \in S : ~(x = e \/ idx[x] \in P) => qdx[x] = idx[x]

\* What ShiftUp with a hole at i makes of them.
ShiftedUp(p, idx, q, qdx, i, e, key, N, S) ==
  /\ q \in [1..N -> S] /\ qdx \in [S -> 0..N]
  /\ \A j \in (i + 1)..N : q[j] = p[j]
  /\ \A j \in 1..(i - 1) : key[q[j]] <= key[p[j]]
  /\ q[i] = IF i > 1 /\ key[p[i \div 2]] > key[e] THEN p[i \div 2] ELSE e
  /\ Ordered(q, key, i)
  /\ Places(p, idx, q, qdx, e, S, 1..(i - 1), 1..i)

\* ShiftUp's loop ends: the event fills the hole.
LEMMA UpStops ==
  ASSUME NEW N \in Nat, NEW S, NEW e, NEW p, NEW idx, Filling(p, idx, N, S, e),
         NEW key \in [S -> Nat], Ordered(p, key, N - 1),
         NEW i \in 1..N, ~(i > 1 /\ key[p[i \div 2]] > key[e]),
         NEW q, NEW qdx, q = [p EXCEPT ![i] = e], qdx = [idx EXCEPT ![e] = i]
  PROVE  ShiftedUp(p, idx, q, qdx, i, e, key, N, S)
<1>1. /\ p \in [1..N -> S] /\ idx \in [S -> 0..N] /\ e \in S
      /\ q \in [1..N -> S] /\ qdx \in [S -> 0..N]
  BY DEF Filling
<1>2. q[i] = e /\ \A j \in 1..N : j # i => q[j] = p[j]
  BY <1>1
<1>3. qdx[e] = i /\ \A y \in S : y # e => qdx[y] = idx[y]
  BY <1>1
<1>4. Ordered(q, key, i)
  <2> SUFFICES ASSUME NEW j \in 2..i PROVE key[q[j \div 2]] <= key[q[j]]
    BY DEF Ordered
  <2> DEFINE k == j \div 2
  <2>1. k \in 1..N /\ k < j /\ j \in 1..N
    BY HalfRange
  <2>2. j = i => ~(key[p[k]] > key[e])
    OBVIOUS
  <2>3. j # i => key[p[k]] <= key[p[j]]
    BY DEF Ordered
  <2> SUFFICES key[q[k]] <= key[q[j]]
    OBVIOUS
  <2> HIDE DEF k
  <2>4. CASE j = i
    BY <2>1, <2>2, <2>4, <1>1, <1>2
  <2>5. CASE j # i
    <3>1. k # i /\ j # i
      BY <2>1, <2>5
    <3>2. q[k] = p[k] /\ q[j] = p[j]
      BY <2>1, <3>1, <1>2
    <3> QED
      BY <3>2, <2>3, <2>5
  <2> QED
    BY <2>4, <2>5
<1>5. Places(p, idx, q, qdx, e, S, 1..(i - 1), 1..i)
  <2>1. ASSUME NEW j \in 1..i
        PROVE  qdx[q[j]] = j /\ (q[j] = e \/ idx[q[j]] \in 1..(i - 1))
    <3>1. CASE j = i
      BY <3>1, <1>2, <1>3
    <3>2. CASE j # i
      <4>1. j \in 1..(N - 1) /\ j \in 1..(i - 1) /\ p[j] \in S /\ q[j] = p[j]
        BY <3>2, <1>1, <1>2
      <4>2. p[j] # e /\ idx[p[j]] = j
        BY <4>1 DEF Filling
      <4> QED
        BY <4>1, <4>2, <1>3
    <3> QED
      BY <3>1, <3>2
  <2>2. ASSUME NEW x \in S, x = e \/ idx[x] \in 1..(i - 1)
        PROVE  qdx[x] \in 1..i /\ q[qdx[x]] = x
    <3>1. CASE x = e
      BY <3>1, <1>2, <1>3
    <3>2. CASE x # e
      <4>1. qdx[x] = idx[x] /\ p[idx[x]] = x
        BY <3>2, <2>2, <1>3 DEF Filling
      <4>2. q[idx[x]] = p[idx[x]]
        BY <1>2, <3>2, <2>2
      <4> QED
        BY <3>2, <4>1, <4>2, <2>2
    <3> QED
      BY <3>1, <3>2
  <2>3. \A x \in S : ~(x = e \/ idx[x] \in 1..(i - 1)) => qdx[x] = idx[x]
    BY <1>3
  <2> QED
    BY <2>1, <2>2, <2>3 DEF Places
<1>6. \A j \in (i + 1)..N : q[j] = p[j]
  BY <1>2
<1>7. \A j \in 1..(i - 1) : key[q[j]] <= key[p[j]]
  BY <1>1, <1>2
<1>8. q[i] = IF i > 1 /\ key[p[i \div 2]] > key[e] THEN p[i \div 2] ELSE e
  BY <1>2
<1> QED
  BY <1>1, <1>4, <1>5, <1>6, <1>7, <1>8 DEF ShiftedUp

\* ShiftUp's loop moves the parent down, and the hole up to the parent's place.
LEMMA UpMoves ==
  ASSUME NEW N \in Nat, NEW S, NEW e, NEW p, NEW idx, Filling(p, idx, N, S, e),
         NEW key \in [S -> Nat], Ordered(p, key, N - 1),
         NEW i \in 2..N, NEW k \in Nat, 2 * k <= i, i <= 2 * k + 1,
         NEW y, y = p[k], key[y] > key[e],
         NEW o, NEW odx, ShiftedUp(p, idx, o, odx, k, e, key, N, S),
         NEW q, NEW qdx, q = [o EXCEPT ![i] = y], qdx = [odx EXCEPT ![y] = i]
  PROVE  ShiftedUp(p, idx, q, qdx, i, e, key, N, S)
<1>1. k \in 1..(N - 1) /\ k \in 1..N /\ k < i /\ i \in 1..N /\ i \in 0..N
  OBVIOUS
<1>2. k = i \div 2
  BY HalfRange
<1>3. /\ p \in [1..N -> S] /\ idx \in [S -> 0..N] /\ e \in S
      /\ o \in [1..N -> S] /\ odx \in [S -> 0..N]
  BY DEF Filling, ShiftedUp
<1>4. y \in S /\ y # e /\ idx[y] = k
  BY <1>1, <1>3 DEF Filling
<1>5. q \in [1..N -> S] /\ qdx \in [S -> 0..N]
  BY <1>1, <1>3, <1>4
<1>6. q[i] = y /\ \A j \in 1..N : j # i => q[j] = o[j]
  BY <1>3
<1>7. qdx[y] = i /\ \A x \in S : x # y => qdx[x] = odx[x]
  BY <1>3, <1>4
<1>8. /\ \A j \in (k + 1)..N : o[j] = p[j]
      /\ \A j \in 1..(k - 1) : key[o[j]] <= key[p[j]]
      /\ Ordered(o, key, k)
      /\ Places(p, idx, o, odx, e, S, 1..(k - 1), 1..k)
  BY DEF ShiftedUp
<1>9. key[o[k]] <= key[y]
  <2>1. o[k] = IF k > 1 /\ key[p[k \div 2]] > key[e] THEN p[k \div 2] ELSE e
    BY DEF ShiftedUp
  <2>2. CASE o[k] = e
    BY <2>2, <1>3, <1>4
  <2>3. CASE k > 1 /\ o[k] = p[k \div 2]
    BY <2>3, <1>1 DEF Ordered
  <2> QED
    BY <2>1, <2>2, <2>3
<1>10. \A j \in (i + 1)..N : q[j] = p[j]
  BY <1>1, <1>6, <1>8
<1>11. \A j \in 1..(i - 1) : key[o[j]] <= key[p[j]]
  <2> SUFFICES ASSUME NEW j \in 1..(i - 1) PROVE key[o[j]] <= key[p[j]]
    OBVIOUS
  <2>1. CASE j < k
    BY <2>1, <1>8
  <2>2. CASE j = k
    BY <2>2, <1>9
  <2>3. CASE j > k
    <3>1. o[j] = p[j] /\ p[j] \in S
      BY <2>3, <1>1, <1>3, <1>8
    <3> QED
      BY <3>1
  <2> QED
    BY <2>1, <2>2, <2>3, <1>1
<1>12. \A j \in 1..(i - 1) : key[q[j]] <= key[p[j]]
  BY <1>6, <1>11
<1>13. Ordered(q, key, i)
  <2> SUFFICES ASSUME NEW j \in 2..i PROVE key[q[j \div 2]] <= key[q[j]]
    BY DEF Ordered
  <2> DEFINE m == j \div 2
  <2>1. m \in 1..(j - 1) /\ (j > k /\ j < i => m <= k) /\ (j = i => m = k)
    BY HalfRange
  <2> SUFFICES key[q[m]] <= key[q[j]]
    OBVIOUS
  <2>2. j <= k => key[o[m]] <= key[o[j]]
    BY <1>8 DEF Ordered
  <2>3. j < i => key[p[m]] <= key[p[j]]
    BY DEF Ordered
  <2> HIDE DEF m
  <2>4. q[m] = o[m] /\ key[o[m]] <= key[p[m]]
    BY <2>1, <1>6, <1>11
  <2>5. CASE j <= k
    BY <2>5, <2>2, <2>4, <1>1, <1>6
  <2>6. CASE k < j /\ j < i
    <3>0. j \in 1..N /\ j \in (k + 1)..N /\ m \in 1..N
      BY <2>1, <2>6, <1>1
    <3>1. q[j] = p[j]
      BY <3>0, <2>6, <1>6, <1>8
    <3>2. key[o[m]] \in Nat /\ key[p[m]] \in Nat /\ key[p[j]] \in Nat
      BY <3>0, <1>3
    <3> QED
      BY <3>1, <3>2, <2>3, <2>4, <2>6
  <2>7. CASE j = i
    BY <2>7, <2>1, <2>4, <1>6, <1>9
  <2> QED
    BY <2>5, <2>6, <2>7
<1>14. Places(p, idx, q, qdx, e, S, 1..(i - 1), 1..i)
  <2>1. ASSUME NEW j \in 1..i
        PROVE  qdx[q[j]] = j /\ (q[j] = e \/ idx[q[j]] \in 1..(i - 1))
    <3>1. CASE j = i
      BY <3>1, <1>1, <1>4, <1>6, <1>7
    <3>2. CASE j <= k
      <4>0. j \in 1..N /\ j # i
        BY <3>2, <1>1
      <4>1. q[j] = o[j] /\ o[j] \in S
        BY <4>0, <1>3, <1>6
      <4>2. odx[o[j]] = j /\ (o[j] = e \/ idx[o[j]] \in 1..(k - 1))
        BY <3>2, <1>8 DEF Places
      <4>3. o[j] # y
        BY <4>2, <1>4
      <4> QED
        BY <4>1, <4>2, <4>3, <1>1, <1>7
    <3>3. CASE k < j /\ j < i
      <4>0. j \in 1..N /\ j \in (k + 1)..N /\ j \in 1..(N - 1) /\ j # i
        BY <3>3, <1>1
      <4>1. q[j] = p[j] /\ p[j] \in S /\ j \in 1..(N - 1)
        BY <4>0, <1>3, <1>6, <1>8
      <4>2. p[j] # e /\ idx[p[j]] = j
        BY <4>1 DEF Filling
      <4>3. odx[p[j]] = idx[p[j]]
        BY <4>1, <4>2, <3>3, <1>8 DEF Places
      <4>4. p[j] # y
        BY <4>2, <3>3, <1>4
      <4> QED
        BY <4>1, <4>2, <4>3, <4>4, <3>3, <1>1, <1>7
    <3> QED
      BY <3>1, <3>2, <3>3
  <2>2. ASSUME NEW x \in S, x = e \/ idx[x] \in 1..(i - 1)
        PROVE  qdx[x] \in 1..i /\ q[qdx[x]] = x
    <3>1. CASE x = y
      BY <3>1, <1>6, <1>7
    <3>2. CASE x # y /\ (x = e \/ idx[x] \in 1..(k - 1))
      <4>1. odx[x] \in 1..k /\ o[odx[x]] = x
        BY <3>2, <1>8 DEF Places
      <4> QED
        BY <4>1, <3>2, <1>1, <1>6, <1>7
    <3>3. CASE x # y /\ x # e /\ idx[x] \in k..(i - 1)
      <4>0. idx[x] # 0
        BY <3>3, <1>1
      <4>1. p[idx[x]] = x
        BY <4>0, <3>3 DEF Filling
      <4>2. idx[x] # k /\ idx[x] \in (k + 1)..(i - 1) /\ idx[x] \in (k + 1)..N
        BY <4>1, <3>3, <1>1
      <4>3. odx[x] = idx[x]
        BY <3>3, <4>2, <1>1, <1>8 DEF Places
      <4>4. q[idx[x]] = p[idx[x]]
        <5>1. o[idx[x]] = p[idx[x]]
          BY <4>2, <1>8
        <5>2. idx[x] \in 1..N /\ idx[x] # i
          BY <4>2, <1>1
        <5> QED
          BY <5>1, <5>2, <1>6
      <4>5. qdx[x] = idx[x]
        BY <4>3, <3>3, <1>7
      <4> QED
        BY <4>1, <4>2, <4>4, <4>5, <1>1
    <3> QED
      BY <3>1, <3>2, <3>3, <2>2, <1>1
  <2>3. ASSUME NEW x \in S, ~(x = e \/ idx[x] \in 1..(i - 1))
        PROVE  qdx[x] = idx[x]
    <3>1. x # y
      BY <2>3, <1>1, <1>4
    <3>2. odx[x] = idx[x]
      BY <2>3, <1>1, <1>8 DEF Places
    <3> QED
      BY <3>1, <3>2, <1>7
  <2> QED
    BY <2>1, <2>2, <2>3 DEF Places
<1>15. q[i] = IF i > 1 /\ key[p[i \div 2]] > key[e] THEN p[i \div 2] ELSE e
  BY <1>2, <1>6
<1> QED
  BY <1>5, <1>10, <1>12, <1>13, <1>14, <1>15 DEF ShiftedUp

\* The two fields are all there is of a heap.
IsArray(r) == r = [p |-> r.p, idx |-> r.idx]

\* From any hole ShiftUp ends in an array in order; there is no least hole from which
\* it does not.
LEMMA ShiftUpResult ==
  ASSUME NEW N \in Nat, NEW S, NEW e, NEW h, Filling(h.p, h.idx, N, S, e),
         NEW key \in [S -> Nat], Ordered(h.p, key, N - 1), NEW hole \in 1..N,
         NEW r, r = ShiftUp(h, hole, e, key)
  PROVE  /\ ShiftedUp(h.p, h.idx, r.p, r.idx, hole, e, key, N, S)
         /\ IsArray(r)
<1> DEFINE R(i) == ShiftUp(h, i, e, key)
           Good(i) == /\ ShiftedUp(h.p, h.idx, R(i).p, R(i).idx, i, e, key, N, S)
                      /\ IsArray(R(i))
           Bad == {i \in 1..N : ~Good(i)}
<1>1. DOMAIN h.p = 1..N
  BY DEF Filling
<1>2. ASSUME NEW i \in 1..N, \A j \in 1..N : j < i => Good(j)
      PROVE  Good(i)
  <2>1. R(i) = IF i > 1 /\ key[h.p[i \div 2]] > key[e]
               THEN Put(R(i \div 2), i, h.p[i \div 2]) ELSE Put(h, i, e)
    BY <1>1, ShiftUpStep
  <2>2. CASE i > 1 /\ key[h.p[i \div 2]] > key[e]
    <3> DEFINE k == i \div 2
    <3>1. k \in 1..N /\ k < i /\ k \in Nat /\ 2 * k <= i /\ i <= 2 * k + 1 /\ i \in 2..N
      BY <2>2, HalfRange
    <3>2. Good(k)
      BY <3>1, <1>2
    <3>3. R(i) = Put(R(k), i, h.p[k]) /\ key[h.p[k]] > key[e]
      BY <2>1, <2>2
    <3> HIDE DEF k, R
    <3>4. R(i).p = [R(k).p EXCEPT ![i] = h.p[k]] /\ R(i).idx = [R(k).idx EXCEPT ![h.p[k]] = i]
          /\ IsArray(R(i))
      BY <3>3 DEF Put, IsArray
    <3>5. ShiftedUp(h.p, h.idx, R(i).p, R(i).idx, i, e, key, N, S)
      BY <3>1, <3>2, <3>3, <3>4, UpMoves
    <3> QED
      BY <3>4, <3>5
  <2>3. CASE ~(i > 1 /\ key[h.p[i \div 2]] > key[e])
    <3>1. R(i) = Put(h, i, e)
      BY <2>1, <2>3
    <3> HIDE DEF R
    <3>2. R(i).p = [h.p EXCEPT ![i] = e] /\ R(i).idx = [h.idx EXCEPT ![e] = i]
          /\ IsArray(R(i))
      BY <3>1 DEF Put, IsArray
    <3>3. ShiftedUp(h.p, h.idx, R(i).p, R(i).idx, i, e, key, N, S)
      BY <3>2, <2>3, UpStops
    <3> QED
      BY <3>2, <3>3
  <2> QED
    BY <2>2, <2>3
<1> HIDE DEF Good
<1>3. Bad = {}
  <2>1. Bad \in SUBSET Nat
    OBVIOUS
  <2>2. ASSUME NEW i \in Bad, \A j \in Bad : i <= j
        PROVE  FALSE
    BY <1>2, <2>2
  <2> HIDE DEF Bad
  <2> QED
    BY <2>1, <2>2, LeastNumber
<1>4. Good(hole)
  BY <1>3
<1> QED
  BY <1>4 DEF Good

\* What ShiftDown with a hole at i makes of them.
ShiftedDown(p, idx, q, qdx, i, e, key, N, S) ==
  /\ q \in [1..N -> S] /\ qdx \in [S -> 0..N]
  /\ \A j \in 1..(i - 1) : q[j] = p[j]
  /\ \A j \in (i + 1)..(N - 1) : key[p[j]] <= key[q[j]]
  /\ q[i] = e \/ \E c \in 2..(N - 1) : c \div 2 = i /\ q[i] = p[c]
  /\ \A j \in 2..(N - 1) : j \div 2 >= i => key[q[j \div 2]] <= key[q[j]]
  /\ Places(p, idx, q, qdx, e, S, (i + 1)..(N - 1), i..(N - 1))

\* ShiftDown's loop ends: the event fills the hole.
LEMMA DownStops ==
  ASSUME NEW N \in Nat, NEW S, NEW e, NEW p, NEW idx, Filling(p, idx, N, S, e),
         NEW key \in [S -> Nat], Ordered(p, key, N - 1),
         NEW i \in 1..(N - 1), \A j \in 2..(N - 1) : j \div 2 = i => key[e] <= key[p[j]],
         NEW q, NEW qdx, q = [p EXCEPT ![i] = e], qdx = [idx EXCEPT ![e] = i]
  PROVE  ShiftedDown(p, idx, q, qdx, i, e, key, N, S)
<1>1. /\ p \in [1..N -> S] /\ idx \in [S -> 0..N] /\ e \in S
      /\ i \in 1..N /\ i \in 0..N
  BY DEF Filling
<1>2. q[i] = e /\ \A j \in 1..N : j # i => q[j] = p[j]
  BY <1>1
<1>3. qdx[e] = i /\ \A y \in S : y # e => qdx[y] = idx[y]
  BY <1>1
<1>4. q \in [1..N -> S] /\ qdx \in [S -> 0..N]
  BY <1>1
<1>5. \A j \in 2..(N - 1) : j \div 2 >= i => key[q[j \div 2]] <= key[q[j]]
  <2> SUFFICES ASSUME NEW j \in 2..(N - 1), j \div 2 >= i
               PROVE  key[q[j \div 2]] <= key[q[j]]
    OBVIOUS
  <2> DEFINE k == j \div 2
  <2>1. k \in 1..N /\ k < j /\ j \in 1..N /\ k >= i
    BY HalfRange
  <2>2. k = i => key[e] <= key[p[j]]
    OBVIOUS
  <2>3. key[p[k]] <= key[p[j]]
    BY DEF Ordered
  <2> SUFFICES key[q[k]] <= key[q[j]]
    OBVIOUS
  <2> HIDE DEF k
  <2>4. q[j] = p[j]
    <3>1. j # i
      BY <2>1
    <3> QED
      BY <2>1, <3>1, <1>2
  <2>5. CASE k = i
    BY <2>2, <2>4, <2>5, <1>2
  <2>6. CASE k # i
    BY <2>1, <2>3, <2>4, <2>6, <1>2
  <2> QED
    BY <2>5, <2>6
<1>6. Places(p, idx, q, qdx, e, S, (i + 1)..(N - 1), i..(N - 1))
  <2>1. ASSUME NEW j \in i..(N - 1)
        PROVE  qdx[q[j]] = j /\ (q[j] = e \/ idx[q[j]] \in (i + 1)..(N - 1))
    <3>1. CASE j = i
      BY <3>1, <1>2, <1>3
    <3>2. CASE j # i
      <4>0. j \in 1..(N - 1) /\ j \in (i + 1)..(N - 1) /\ j \in 1..N
        BY <3>2
      <4>1. p[j] \in S /\ q[j] = p[j]
        BY <4>0, <3>2, <1>1, <1>2
      <4>2. p[j] # e /\ idx[p[j]] = j
        BY <4>0 DEF Filling
      <4> QED
        BY <4>0, <4>1, <4>2, <1>3
    <3> QED
      BY <3>1, <3>2
  <2>2. ASSUME NEW x \in S, x = e \/ idx[x] \in (i + 1)..(N - 1)
        PROVE  qdx[x] \in i..(N - 1) /\ q[qdx[x]] = x
    <3>1. CASE x = e
      BY <3>1, <1>2, <1>3
    <3>2. CASE x # e
      <4>0. idx[x] # 0 /\ idx[x] \in 1..N /\ idx[x] # i /\ idx[x] \in i..(N - 1)
        BY <3>2, <2>2
      <4>1. qdx[x] = idx[x] /\ p[idx[x]] = x
        BY <3>2, <4>0, <1>3 DEF Filling
      <4>2. q[idx[x]] = p[idx[x]]
        BY <1>2, <4>0
      <4> QED
        BY <4>0, <4>1, <4>2
    <3> QED
      BY <3>1, <3>2
  <2>3. \A x \in S : ~(x = e \/ idx[x] \in (i + 1)..(N - 1)) => qdx[x] = idx[x]
    BY <1>3
  <2> QED
    BY <2>1, <2>2, <2>3 DEF Places
<1>7. \A j \in 1..(i - 1) : q[j] = p[j]
  BY <1>1, <1>2
<1>8. \A j \in (i + 1)..(N - 1) : key[p[j]] <= key[q[j]]
  <2> SUFFICES ASSUME NEW j \in (i + 1)..(N - 1) PROVE key[p[j]] <= key[q[j]]
    OBVIOUS
  <2>1. j \in 1..N /\ j # i
    OBVIOUS
  <2>2. q[j] = p[j] /\ p[j] \in S
    BY <2>1, <1>1, <1>2
  <2> QED
    BY <2>2
<1> QED
  BY <1>2, <1>4, <1>5, <1>6, <1>7, <1>8 DEF ShiftedDown

\* ShiftDown's loop moves the lesser child up, and the hole down to its place.
LEMMA DownMoves ==
  ASSUME NEW N \in Nat, NEW S, NEW e, NEW p, NEW idx, Filling(p, idx, N, S, e),
         NEW key \in [S -> Nat], Ordered(p, key, N - 1),
         NEW i \in 1..(N - 1), NEW c \in 2..(N - 1), 2 * i <= c, c <= 2 * i + 1,
         NEW y, y = p[c], key[e] > key[y],
         \A j \in 2..(N - 1) : j \div 2 = i => key[y] <= key[p[j]],
         NEW o, NEW odx, ShiftedDown(p, idx, o, odx, c, e, key, N, S),
         NEW q, NEW qdx, q = [o EXCEPT ![i] = y], qdx = [odx EXCEPT ![y] = i]
  PROVE  ShiftedDown(p, idx, q, qdx, i, e, key, N, S)
<1>1. i < c /\ c \in 1..N /\ i \in 1..N /\ i \in 0..N
  OBVIOUS
<1>2. c \div 2 = i
  BY HalfRange
<1>3. /\ p \in [1..N -> S] /\ idx \in [S -> 0..N] /\ e \in S
      /\ o \in [1..N -> S] /\ odx \in [S -> 0..N]
  BY DEF Filling, ShiftedDown
<1>4. y \in S /\ y # e /\ idx[y] = c
  <2>1. c \in 1..(N - 1)
    OBVIOUS
  <2> QED
    BY <2>1, <1>1, <1>3 DEF Filling
<1>5. q \in [1..N -> S] /\ qdx \in [S -> 0..N]
  BY <1>1, <1>3, <1>4
<1>6. q[i] = y /\ \A j \in 1..N : j # i => q[j] = o[j]
  BY <1>1, <1>3
<1>7. qdx[y] = i /\ \A x \in S : x # y => qdx[x] = odx[x]
  BY <1>3, <1>4
<1>8. /\ \A j \in 1..(c - 1) : o[j] = p[j]
      /\ \A j \in (c + 1)..(N - 1) : key[p[j]] <= key[o[j]]
      /\ Places(p, idx, o, odx, e, S, (c + 1)..(N - 1), c..(N - 1))
  BY DEF ShiftedDown
<1>9. key[y] <= key[o[c]]
  <2>1. CASE o[c] = e
    BY <2>1, <1>3, <1>4
  <2>2. CASE \E d \in 2..(N - 1) : d \div 2 = c /\ o[c] = p[d]
    BY <2>2 DEF Ordered
  <2> QED
    BY <2>1, <2>2 DEF ShiftedDown
<1>10. \A j \in 1..(i - 1) : q[j] = p[j]
  <2> SUFFICES ASSUME NEW j \in 1..(i - 1) PROVE q[j] = p[j]
    OBVIOUS
  <2>1. j \in 1..N /\ j # i /\ j \in 1..(c - 1)
    BY <1>1
  <2> QED
    BY <2>1, <1>6, <1>8
<1>11. \A j \in (i + 1)..(N - 1) : key[p[j]] <= key[o[j]]
  <2> SUFFICES ASSUME NEW j \in (i + 1)..(N - 1) PROVE key[p[j]] <= key[o[j]]
    OBVIOUS
  <2>1. CASE j > c
    BY <2>1, <1>8
  <2>2. CASE j = c
    BY <2>2, <1>9
  <2>3. CASE j < c
    <3>0. j \in 1..(c - 1) /\ j \in 1..N
      BY <2>3
    <3>1. o[j] = p[j] /\ p[j] \in S
      BY <3>0, <1>3, <1>8
    <3> QED
      BY <3>1
  <2> QED
    BY <2>1, <2>2, <2>3
<1>12. \A j \in (i + 1)..(N - 1) : q[j] = o[j]
  <2> SUFFICES ASSUME NEW j \in (i + 1)..(N - 1) PROVE q[j] = o[j]
    OBVIOUS
  <2>1. j \in 1..N /\ j # i
    OBVIOUS
  <2> QED
    BY <2>1, <1>6
<1>13. \A j \in 2..(N - 1) : j \div 2 >= i => key[q[j \div 2]] <= key[q[j]]
  <2> SUFFICES ASSUME NEW j \in 2..(N - 1), j \div 2 >= i
               PROVE  key[q[j \div 2]] <= key[q[j]]
    OBVIOUS
  <2> DEFINE m == j \div 2
  <2>1. m \in 1..(j - 1) /\ m >= i /\ j \in (i + 1)..(N - 1) /\ (m # i => j > c)
    BY HalfRange
  <2>2. m = i => key[y] <= key[p[j]]
    OBVIOUS
  <2>3. m >= c => key[o[m]] <= key[o[j]]
    BY DEF ShiftedDown
  <2>4. key[p[m]] <= key[p[j]]
    BY DEF Ordered
  <2> SUFFICES key[q[m]] <= key[q[j]]
    OBVIOUS
  <2> HIDE DEF m
  <2>5. q[j] = o[j] /\ key[p[j]] <= key[o[j]]
    BY <2>1, <1>11, <1>12
  <2>6. key[p[m]] \in Nat /\ key[p[j]] \in Nat /\ key[o[j]] \in Nat /\ key[y] \in Nat
    <3>1. m \in 1..N /\ j \in 1..N
      BY <2>1
    <3> QED
      BY <3>1, <1>3, <1>4
  <2>7. CASE m = i
    BY <2>2, <2>5, <2>6, <2>7, <1>6
  <2>8. CASE m # i /\ m < c
    <3>1. m \in (i + 1)..(N - 1) /\ m \in 1..(c - 1)
      BY <2>1, <2>8
    <3>2. q[m] = p[m]
      BY <3>1, <1>8, <1>12
    <3> QED
      BY <3>2, <2>4, <2>5, <2>6
  <2>9. CASE m >= c
    <3>1. m \in (i + 1)..(N - 1)
      BY <2>1, <2>9, <1>1
    <3> QED
      BY <3>1, <2>3, <2>5, <2>9, <1>12
  <2> QED
    BY <2>7, <2>8, <2>9, <2>1
<1>14. Places(p, idx, q, qdx, e, S, (i + 1)..(N - 1), i..(N - 1))
  <2>1. ASSUME NEW j \in i..(N - 1)
        PROVE  qdx[q[j]] = j /\ (q[j] = e \/ idx[q[j]] \in (i + 1)..(N - 1))
    <3>1. CASE j = i
      BY <3>1, <1>1, <1>4, <1>6, <1>7
    <3>2. CASE j >= c
      <4>0. j \in c..(N - 1) /\ j \in 1..N /\ j # i
        BY <3>2
      <4>1. q[j] = o[j] /\ o[j] \in S
        BY <4>0, <1>3, <1>6
      <4>2. odx[o[j]] = j /\ (o[j] = e \/ idx[o[j]] \in (c + 1)..(N - 1))
        BY <4>0, <1>8 DEF Places
      <4>3. o[j] # y
        BY <4>2, <1>4
      <4> QED
        BY <4>1, <4>2, <4>3, <1>1, <1>7
    <3>3. CASE i < j /\ j < c
      <4>0. j \in 1..N /\ j \in 1..(c - 1) /\ j \in 1..(N - 1) /\ j # i /\ j \in (i + 1)..(N - 1)
        BY <3>3
      <4>1. q[j] = p[j] /\ p[j] \in S
        BY <4>0, <1>3, <1>6, <1>8
      <4>2. p[j] # e /\ idx[p[j]] = j
        BY <4>0 DEF Filling
      <4>3. odx[p[j]] = idx[p[j]]
        BY <4>0, <4>1, <4>2, <3>3, <1>8 DEF Places
      <4>4. p[j] # y
        BY <4>2, <3>3, <1>4
      <4> QED
        BY <4>0, <4>1, <4>2, <4>3, <4>4, <1>7
    <3> QED
      BY <3>1, <3>2, <3>3
  <2>2. ASSUME NEW x \in S, x = e \/ idx[x] \in (i + 1)..(N - 1)
        PROVE  qdx[x] \in i..(N - 1) /\ q[qdx[x]] = x
    <3>1. CASE x = y
      BY <3>1, <1>1, <1>6, <1>7
    <3>2. CASE x # y /\ (x = e \/ idx[x] \in (c + 1)..(N - 1))
      <4>1. odx[x] \in c..(N - 1) /\ o[odx[x]] = x
        BY <3>2, <1>8 DEF Places
      <4>2. qdx[x] = odx[x] /\ odx[x] \in 1..N /\ odx[x] # i
        BY <4>1, <3>2, <1>1, <1>7
      <4>3. q[odx[x]] = o[odx[x]]
        BY <4>2, <1>6
      <4> QED
        BY <4>1, <4>2, <4>3, <1>1
    <3>3. CASE x # y /\ x # e /\ idx[x] \in (i + 1)..c
      <4>0. idx[x] # 0
        BY <3>3
      <4>1. p[idx[x]] = x
        BY <4>0, <3>3 DEF Filling
      <4>2. idx[x] # c /\ idx[x] \in 1..(c - 1) /\ idx[x] \in 1..N /\ idx[x] # i
            /\ idx[x] \in i..(N - 1)
        BY <4>1, <3>3, <1>1
      <4>3. odx[x] = idx[x]
        BY <3>3, <4>2, <1>1, <1>8 DEF Places
      <4>4. q[idx[x]] = p[idx[x]]
        BY <4>2, <1>6, <1>8
      <4>5. qdx[x] = idx[x]
        BY <4>3, <3>3, <1>7
      <4> QED
        BY <4>1, <4>2, <4>4, <4>5
    <3> QED
      BY <3>1, <3>2, <3>3, <2>2
  <2>3. ASSUME NEW x \in S, ~(x = e \/ idx[x] \in (i + 1)..(N - 1))
        PROVE  qdx[x] = idx[x]
    <3>1. x # y
      BY <2>3, <1>1, <1>4
    <3>2. ~(x = e \/ idx[x] \in (c + 1)..(N - 1))
      BY <2>3, <1>1
    <3>3. odx[x] = idx[x]
      BY <3>2, <1>8 DEF Places
    <3> QED
      BY <3>1, <3>3, <1>7
  <2> QED
    BY <2>1, <2>2, <2>3 DEF Places
<1>15. \A j \in (i + 1)..(N - 1) : key[p[j]] <= key[q[j]]
  BY <1>11, <1>12
<1> QED
  BY <1>2, <1>5, <1>6, <1>10, <1>13, <1>14, <1>15 DEF ShiftedDown

\* min_child of a place that has children is the lesser of them.
LEMMA MinChildLeast ==
  ASSUME NEW N \in Nat, NEW S, NEW h, h.p \in [1..N -> S], NEW key \in [S -> Nat],
         NEW i \in 1..(N - 1), 2 * i <= N - 1
  PROVE  LET c == MinChild(h, N - 1, i, key)
         IN  /\ c \in 2..(N - 1) /\ 2 * i <= c /\ c <= 2 * i + 1
             /\ \A j \in 2..(N - 1) : j \div 2 = i => key[h.p[c]] <= key[h.p[j]]
<1> DEFINE c == MinChild(h, N - 1, i, key)
<1>1. /\ 2 * i \in 1..N /\ h.p[2 * i] \in S
      /\ 2 * i # N - 1 => h.p[2 * i + 1] \in S
  OBVIOUS
<1>2. c \in 2..(N - 1) /\ 2 * i <= c /\ c <= 2 * i + 1
  BY DEF MinChild
<1>3. ASSUME NEW j \in 2..(N - 1), j \div 2 = i
      PROVE  key[h.p[c]] <= key[h.p[j]]
  <2>1. j = 2 * i \/ (j = 2 * i + 1 /\ 2 * i # N - 1)
    BY <1>3, HalfRange
  <2>2. /\ key[h.p[2 * i]] \in Nat
        /\ 2 * i # N - 1 => key[h.p[2 * i + 1]] \in Nat
    BY <1>1
  <2>3. c = IF 2 * i = N - 1 \/ key[h.p[2 * i + 1]] > key[h.p[2 * i]] THEN 2 * i ELSE 2 * i + 1
    BY DEF MinChild
  <2> HIDE DEF c
  <2>4. CASE 2 * i = N - 1
    BY <2>1, <2>2, <2>3, <2>4
  <2>5. CASE 2 * i # N - 1
    BY <2>1, <2>2, <2>3, <2>5
  <2> QED
    BY <2>4, <2>5
<1> QED
  BY <1>2, <1>3

\* From any hole ShiftDown ends in an array in order; there is no last hole from which
\* it does not.
LEMMA ShiftDownResult ==
  ASSUME NEW N \in Nat, NEW S, NEW e, NEW h, Filling(h.p, h.idx, N, S, e),
         NEW key \in [S -> Nat], Ordered(h.p, key, N - 1), NEW hole \in 1..(N - 1),
         NEW r, r = ShiftDown(h, N - 1, hole, e, key)
  PROVE  ShiftedDown(h.p, h.idx, r.p, r.idx, hole, e, key, N, S)
<1> DEFINE R(i) == ShiftDown(h, N - 1, i, e, key)
           Good(i) == ShiftedDown(h.p, h.idx, R(i).p, R(i).idx, i, e, key, N, S)
           Bad == {d \in 1..N : N - d \in 1..(N - 1) /\ ~Good(N - d)}
<1>1. DOMAIN h.p = 1..N /\ h.p \in [1..N -> S] /\ e \in S
  BY DEF Filling
<1>2. ASSUME NEW i \in 1..(N - 1), \A j \in 1..(N - 1) : j > i => Good(j)
      PROVE  Good(i)
  <2> DEFINE c == MinChild(h, N - 1, i, key)
  <2>1. R(i) = IF 2 * i <= N - 1 /\ key[e] > key[h.p[c]]
               THEN Put(R(c), i, h.p[c]) ELSE Put(h, i, e)
    <3>1. N - 1 \in 0..N /\ i \in 1..N
      OBVIOUS
    <3> QED
      BY <1>1, <3>1, ShiftDownStep
  <2>2. 2 * i <= N - 1 => /\ c \in 2..(N - 1) /\ 2 * i <= c /\ c <= 2 * i + 1
                          /\ \A j \in 2..(N - 1) : j \div 2 = i => key[h.p[c]] <= key[h.p[j]]
    BY <1>1, MinChildLeast
  <2> HIDE DEF c, R
  <2>3. CASE 2 * i <= N - 1 /\ key[e] > key[h.p[c]]
    <3>1. c \in 1..(N - 1) /\ c > i
      BY <2>2, <2>3
    <3>2. Good(c)
      BY <3>1, <1>2
    <3>3. R(i) = Put(R(c), i, h.p[c])
      BY <2>1, <2>3
    <3>4. R(i).p = [R(c).p EXCEPT ![i] = h.p[c]] /\ R(i).idx = [R(c).idx EXCEPT ![h.p[c]] = i]
      BY <3>3 DEF Put
    <3>5. ShiftedDown(h.p, h.idx, R(i).p, R(i).idx, i, e, key, N, S)
      BY <2>2, <2>3, <3>1, <3>2, <3>4, DownMoves
    <3> QED
      BY <3>5
  <2>4. CASE ~(2 * i <= N - 1 /\ key[e] > key[h.p[c]])
    <3>1. R(i) = Put(h, i, e)
      BY <2>1, <2>4
    <3>2. R(i).p = [h.p EXCEPT ![i] = e] /\ R(i).idx = [h.idx EXCEPT ![e] = i]
      BY <3>1 DEF Put
    <3>3. ASSUME NEW j \in 2..(N - 1), j \div 2 = i
          PROVE  key[e] <= key[h.p[j]]
      <4>1. 2 * i <= j /\ 2 * i <= N - 1
        BY <3>3, HalfRange
      <4>2. key[h.p[c]] <= key[h.p[j]] /\ ~(key[e] > key[h.p[c]])
        BY <4>1, <2>2, <2>4, <3>3
      <4>3. c \in 1..N /\ j \in 1..N
        BY <4>1, <2>2
      <4>4. key[e] \in Nat /\ key[h.p[c]] \in Nat /\ key[h.p[j]] \in Nat
        BY <4>3, <1>1
      <4> QED
        BY <4>2, <4>4
    <3>4. ShiftedDown(h.p, h.idx, R(i).p, R(i).idx, i, e, key, N, S)
      BY <3>2, <3>3, DownStops
    <3> QED
      BY <3>4
  <2> QED
    BY <2>3, <2>4
<1> HIDE DEF Good
<1>3. Bad = {}
  <2>1. Bad \in SUBSET Nat
    OBVIOUS
  <2>2. ASSUME NEW d \in Bad, \A s \in Bad : d <= s
        PROVE  FALSE
    <3>1. ASSUME NEW j \in 1..(N - 1), j > N - d
          PROVE  Good(j)
      <4>1. N - j \in 1..N /\ N - (N - j) = j /\ ~(d <= N - j)
        BY <3>1
      <4>2. N - j \notin Bad
        <5> HIDE DEF Bad
        <5> QED
          BY <4>1, <2>2
      <4> QED
        BY <4>1, <4>2
    <3>2. N - d \in 1..(N - 1)
      OBVIOUS
    <3> QED
      BY <3>1, <3>2, <1>2
  <2> HIDE DEF Bad
  <2> QED
    BY <2>1, <2>2, LeastNumber
<1>4. Good(hole)
  <2>1. N - hole \in 1..N /\ N - (N - hole) = hole
    OBVIOUS
  <2> QED
    BY <2>1, <1>3
<1> QED
  BY <1>4 DEF Good

\* A heap without its sequences: the array is a function on 1..n.
LEMMA HeapFacts ==
  ASSUME NEW S, NEW key, NEW h, IsHeap(h, S, key)
  PROVE  /\ h.p \in Seq(S) /\ Size(h) \in Nat /\ h.p \in [1..Size(h) -> S]
         /\ h.idx \in [S -> 0..Size(h)]
         /\ Ordered(h.p, key, Size(h))
         /\ \A i \in 1..Size(h) : h.p[i] \in S /\ h.idx[h.p[i]] = i
         /\ \A x \in S : h.idx[x] # 0 => h.idx[x] \in 1..Size(h) /\ h.p[h.idx[x]] = x
<1>1. h.p \in Seq(S) /\ h.idx \in [S -> Nat]
  BY DEF IsHeap
<1>2. Size(h) \in Nat /\ h.p \in [1..Size(h) -> S]
  BY <1>1, LenProperties DEF Size
<1>3. \A x \in S : h.idx[x] # 0 => h.idx[x] \in 1..Size(h) /\ h.p[h.idx[x]] = x
  BY <1>1, <1>2 DEF IsHeap, InHeap
<1>4. h.idx \in [S -> 0..Size(h)]
  BY <1>1, <1>2, <1>3
<1> QED
  BY <1>1, <1>2, <1>3, <1>4 DEF IsHeap, Ordered

\* An array is a sequence.
LEMMA ArraySize ==
  ASSUME NEW S, NEW h, NEW n \in Nat, h.p \in [1..n -> S]
  PROVE  h.p \in Seq(S) /\ Size(h) = n
<1>1. h.p \in Seq(S)
  BY SeqDef
<1>2. Len(h.p) = n
  BY <1>1, LenProperties
<1> QED
  BY <1>1, <1>2 DEF Size

\* What HeapFacts says of a heap makes one.
LEMMA FactsHeap ==
  ASSUME NEW S, NEW key, NEW h, NEW n \in Nat,
         IsArray(h), h.p \in [1..n -> S], h.idx \in [S -> Nat],
         Ordered(h.p, key, n), \A i \in 1..n : h.idx[h.p[i]] = i,
         \A x \in S : h.idx[x] # 0 => h.idx[x] \in 1..n /\ h.p[h.idx[x]] = x
  PROVE  IsHeap(h, S, key)
<1>1. h.p \in Seq(S) /\ Size(h) = n
  BY ArraySize
<1>2. h \in [p : Seq(S), idx : [S -> Nat]]
  BY <1>1 DEF IsArray
<1>3. \A x \in S : InHeap(h, x) => h.idx[x] <= Size(h) /\ h.p[h.idx[x]] = x
  BY <1>1 DEF InHeap
<1>4. /\ \A i \in 2..Size(h) : key[h.p[i \div 2]] <= key[h.p[i]]
      /\ \A i \in 1..Size(h) : h.idx[h.p[i]] = i
  BY <1>1 DEF Ordered
<1> QED
  BY <1>2, <1>3, <1>4 DEF IsHeap

\* min_heap_push of an event that is not in the heap keeps it a heap, of one event
\* more, for any number of events and any times (minheap-internal.h:71-77).
THEOREM PushKeepsHeap ==
  ASSUME NEW S, NEW key \in [S -> Nat], NEW h, IsHeap(h, S, key),
         NEW e \in S, ~InHeap(h, e)
  PROVE  /\ IsHeap(Push(h, e, key), S, key)
         /\ Size(Push(h, e, key)) = Size(h) + 1
         /\ \A x \in S : InHeap(Push(h, e, key), x) <=> InHeap(h, x) \/ x = e
<1> DEFINE n == Size(h)
           N == n + 1
           g == [h EXCEPT !.p = Append(@, e)]
           r == ShiftUp(g, N, e, key)
<1>1. /\ h.p \in Seq(S) /\ n \in Nat /\ h.p \in [1..n -> S]
      /\ h.idx \in [S -> 0..n]
      /\ Ordered(h.p, key, n)
      /\ \A i \in 1..n : h.p[i] \in S /\ h.idx[h.p[i]] = i
      /\ \A x \in S : h.idx[x] # 0 => h.idx[x] \in 1..n /\ h.p[h.idx[x]] = x
  BY HeapFacts
<1>2. g.p = Append(h.p, e) /\ g.idx = h.idx
  BY DEF IsHeap
<1>3. h.idx[e] = 0
  BY DEF InHeap
<1>4. Len(h.p) = n
  BY DEF Size
<1> HIDE DEF n, g
<1>5. /\ g.p \in [1..N -> S] /\ g.p[N] = e
      /\ \A i \in 1..n : g.p[i] = h.p[i]
  <2> DEFINE a == Append(h.p, e)
  <2>1. /\ a \in Seq(S) /\ Len(a) = N
        /\ \A i \in 1..n : a[i] = h.p[i]
        /\ a[N] = e
    BY <1>1, <1>4
  <2>2. a \in [1..N -> S]
    BY <2>1, LenProperties
  <2>3. g.p = a
    BY <1>2
  <2> HIDE DEF N, a
  <2>4. g.p \in [1..N -> S] /\ g.p[N] = e
    BY <2>1, <2>2, <2>3
  <2>5. \A i \in 1..n : g.p[i] = h.p[i]
    BY <2>1, <2>3
  <2> QED
    BY <2>4, <2>5
<1>6. Filling(g.p, g.idx, N, S, e)
  <2>1. \A j \in 1..(N - 1) : g.p[j] # e /\ g.idx[g.p[j]] = j
    <3>1. \A j \in 1..n : g.p[j] = h.p[j] /\ h.p[j] \in S /\ g.idx[h.p[j]] = j /\ j # 0
      BY <1>1, <1>2, <1>5
    <3>2. g.idx[e] = 0
      BY <1>2, <1>3
    <3>3. N - 1 = n
      BY <1>1
    <3> HIDE DEF N
    <3> QED
      BY <3>1, <3>2, <3>3
  <2>2. ASSUME NEW x \in S \ {e}, g.idx[x] # 0
        PROVE  g.p[g.idx[x]] = x
    <3>1. g.idx[x] \in 1..n /\ h.p[g.idx[x]] = x
      BY <1>1, <1>2, <2>2
    <3> QED
      BY <1>5, <3>1
  <2>3. g.idx \in [S -> 0..N]
    BY <1>1, <1>2
  <2> QED
    BY <1>5, <2>1, <2>2, <2>3 DEF Filling
<1>7. Ordered(g.p, key, N - 1)
  <2> SUFFICES ASSUME NEW j \in 2..(N - 1) PROVE key[g.p[j \div 2]] <= key[g.p[j]]
    BY DEF Ordered
  <2> DEFINE m == j \div 2
  <2>1. m \in 1..n /\ j \in 1..n
    BY <1>1, HalfRange
  <2>2. key[h.p[m]] <= key[h.p[j]]
    BY <1>1 DEF Ordered
  <2> SUFFICES key[g.p[m]] <= key[g.p[j]]
    OBVIOUS
  <2> HIDE DEF m
  <2> QED
    BY <2>1, <2>2, <1>5
<1>8. N \in Nat /\ N \in 1..N
  BY <1>1
<1> HIDE DEF N
<1>9. ShiftedUp(g.p, g.idx, r.p, r.idx, N, e, key, N, S) /\ IsArray(r)
  <2>1. r = ShiftUp(g, N, e, key)
    OBVIOUS
  <2> HIDE DEF r
  <2>2. ShiftedUp(g.p, g.idx, r.p, r.idx, N, e, key, N, S)
    BY <2>1, <1>6, <1>7, <1>8, ShiftUpResult
  <2>3. IsArray(r)
    BY <2>1, <1>6, <1>7, <1>8, ShiftUpResult
  <2> QED
    BY <2>2, <2>3
<1> HIDE DEF r
<1>10. /\ r.p \in [1..N -> S] /\ r.idx \in [S -> 0..N] /\ Ordered(r.p, key, N)
       /\ Places(g.p, g.idx, r.p, r.idx, e, S, 1..(N - 1), 1..N)
  BY <1>9 DEF ShiftedUp
<1>11. \A x \in S : h.idx[x] # 0 => h.idx[x] \in 1..(N - 1)
  BY <1>1 DEF N
<1>12. \A i \in 1..N : r.idx[r.p[i]] = i
  BY <1>10 DEF Places
<1>13. \A x \in S : h.idx[x] # 0 \/ x = e => r.idx[x] \in 1..N /\ r.p[r.idx[x]] = x
  BY <1>2, <1>10, <1>11 DEF Places
<1>14. \A x \in S : ~(h.idx[x] # 0 \/ x = e) => r.idx[x] = 0
  <2>1. \A x \in S : h.idx[x] \in 1..(N - 1) => h.idx[x] # 0
    BY <1>8
  <2> QED
    BY <2>1, <1>2, <1>10 DEF Places
<1>15. IsHeap(r, S, key)
  <2>1. r.idx \in [S -> Nat]
    BY <1>8, <1>10
  <2>3. /\ IsArray(r) /\ r.p \in [1..N -> S]
        /\ Ordered(r.p, key, N) /\ \A i \in 1..N : r.idx[r.p[i]] = i
    BY <1>9, <1>10, <1>12
  <2>2. \A x \in S : r.idx[x] # 0 => r.idx[x] \in 1..N /\ r.p[r.idx[x]] = x
    BY <1>13, <1>14
  <2> QED
    BY <2>1, <2>2, <2>3, <1>8, FactsHeap
<1>16. Size(r) = N
  BY <1>8, <1>10, ArraySize
<1>17. \A x \in S : r.idx[x] # 0 <=> (h.idx[x] # 0 \/ x = e)
  BY <1>8, <1>13, <1>14
<1>18. Push(h, e, key) = r
  BY DEF Push, r, N, n, g
<1> QED
  BY <1>15, <1>16, <1>17, <1>18 DEF InHeap, N, n

\* r is the array q on 1..n, with x in no place any more.
IsCut(r, q, qdx, x, n, S) ==
  /\ IsArray(r) /\ r.p \in [1..n -> S] /\ \A i \in 1..n : r.p[i] = q[i]
  /\ r.idx \in [S -> Nat] /\ r.idx[x] = 0 /\ \A y \in S : y # x => r.idx[y] = qdx[y]

\* When the last event has found its place, erase makes the array one shorter.
LEMMA CutResult ==
  ASSUME NEW n \in Nat, NEW S, NEW q \in [1..(n + 1) -> S],
         NEW qdx \in [S -> Nat], NEW x \in S,
         NEW r, r = [p |-> SubSeq(q, 1, n), idx |-> [qdx EXCEPT ![x] = 0]]
  PROVE  IsCut(r, q, qdx, x, n, S)
<1>1. q \in Seq(S) /\ Len(q) = n + 1
  <2>1. n + 1 \in Nat
    OBVIOUS
  <2>2. q \in Seq(S)
    BY <2>1, SeqDef
  <2> QED
    BY <2>1, <2>2, LenProperties
<1> DEFINE a == SubSeq(q, 1, n)
<1>2. a \in Seq(S) /\ Len(a) = n /\ \A i \in 1..n : a[i] = q[i]
  BY <1>1
<1>3. a \in [1..n -> S]
  BY <1>2, LenProperties
<1>4. r.p = a /\ r.idx = [qdx EXCEPT ![x] = 0]
  OBVIOUS
<1>5. IsArray(r)
  BY DEF IsArray
<1> HIDE DEF a
<1>6. r.p \in [1..n -> S] /\ \A i \in 1..n : r.p[i] = q[i]
  BY <1>2, <1>3, <1>4
<1> QED
  BY <1>4, <1>5, <1>6 DEF IsCut

\* Erasing x leaves a hole, which last and the events at the places Q fill.
Refilled(p, idx, q, qdx, last, x, hole, Q, n, S, key) ==
  /\ Filling(p, idx, n + 1, S, last) /\ idx[last] = n + 1
  /\ hole \in 1..n /\ idx[x] = hole /\ Q \subseteq 1..n /\ hole \in Q
  /\ Places(p, idx, q, qdx, last, S, Q \ {hole}, Q)
  /\ \A j \in 1..n : j \notin Q => q[j] = p[j]
  /\ Ordered(q, key, n)

\* Cut off at the end, what the moves have made is a heap.
LEMMA EraseResult ==
  ASSUME NEW n \in Nat, NEW S, NEW key, NEW p, NEW idx, NEW q, NEW qdx, NEW last,
         NEW x \in S, NEW hole, NEW Q, NEW r,
         Refilled(p, idx, q, qdx, last, x, hole, Q, n, S, key), IsCut(r, q, qdx, x, n, S)
  PROVE  /\ IsHeap(r, S, key) /\ Size(r) = n
         /\ \A y \in S : r.idx[y] # 0 <=> (idx[y] # 0 /\ y # x)
<1> DEFINE N == n + 1
<1>0. /\ Filling(p, idx, N, S, last) /\ idx[last] = N
      /\ hole \in 1..n /\ idx[x] = hole /\ Q \subseteq 1..n /\ hole \in Q
      /\ Places(p, idx, q, qdx, last, S, Q \ {hole}, Q)
      /\ \A j \in 1..n : j \notin Q => q[j] = p[j]
      /\ Ordered(q, key, n) /\ N = n + 1 /\ N - 1 = n
  BY DEF Refilled
<1> USE <1>0
<1> HIDE DEF N
<1>1. /\ p \in [1..N -> S] /\ idx \in [S -> 0..N] /\ last \in S
      /\ \A i \in 1..n : p[i] # last /\ idx[p[i]] = i
      /\ \A y \in S : y # last /\ idx[y] # 0 => p[idx[y]] = y
  BY DEF Filling
<1>2. \A j \in 1..n : p[j] \in S
  BY <1>1
<1>3. /\ IsArray(r) /\ r.p \in [1..n -> S] /\ r.idx \in [S -> Nat] /\ r.idx[x] = 0
      /\ \A i \in 1..n : r.p[i] = q[i] /\ r.p[i] \in S
      /\ \A y \in S : y # x => r.idx[y] = qdx[y]
  BY DEF IsCut
<1>4. \A j \in Q : qdx[q[j]] = j /\ (q[j] = last \/ idx[q[j]] \in Q \ {hole})
  BY DEF Places
<1>5. \A y \in S : y = last \/ idx[y] \in Q \ {hole} => qdx[y] \in Q /\ q[qdx[y]] = y
  BY DEF Places
<1>6. \A y \in S : ~(y = last \/ idx[y] \in Q \ {hole}) => qdx[y] = idx[y]
  BY DEF Places
<1>7. 0 \notin Q /\ hole # 0 /\ hole # N /\ x # last
  OBVIOUS
<1>8. ASSUME NEW i \in 1..n
      PROVE  r.idx[r.p[i]] = i
  <2>1. r.p[i] = q[i] /\ q[i] \in S
    BY <1>3
  <2>2. CASE i \in Q
    <3>1. q[i] # x
      BY <2>2, <1>4, <1>7
    <3> QED
      BY <2>1, <2>2, <3>1, <1>3, <1>4
  <2>3. CASE i \notin Q
    <3>1. q[i] = p[i] /\ idx[q[i]] = i /\ q[i] # last
      BY <2>3, <1>1
    <3>2. q[i] # x
      BY <2>3, <3>1
    <3>3. qdx[q[i]] = i
      BY <2>1, <2>3, <3>1, <1>6
    <3> QED
      BY <2>1, <3>2, <3>3, <1>3
  <2> QED
    BY <2>2, <2>3
<1>9. ASSUME NEW y \in S, y # x, idx[y] # 0
      PROVE  r.idx[y] \in 1..n /\ r.p[r.idx[y]] = y
  <2>1. r.idx[y] = qdx[y]
    BY <1>3, <1>9
  <2>2. CASE y = last \/ idx[y] \in Q \ {hole}
    <3>1. qdx[y] \in Q /\ q[qdx[y]] = y
      BY <2>2, <1>5
    <3>2. qdx[y] \in 1..n
      BY <3>1
    <3> QED
      BY <2>1, <3>1, <3>2, <1>3
  <2>3. CASE ~(y = last \/ idx[y] \in Q \ {hole})
    <3>1. qdx[y] = idx[y] /\ idx[y] \in 0..N /\ p[idx[y]] = y
      BY <2>3, <1>1, <1>6, <1>9
    <3>2. idx[y] # hole
      <4>1. p[hole] # last /\ idx[p[hole]] = hole /\ p[hole] \in S /\ p[hole] = x
        BY <1>1, <1>2, <1>7
      <4> QED
        BY <3>1, <4>1, <1>9
    <3>3. idx[y] # N
      <4>1. p[N] = last
        BY DEF Filling
      <4> QED
        BY <3>1, <4>1, <2>3
    <3>4. idx[y] \in 1..n
      <4>1. \A k \in 0..N : k # N /\ k # 0 => k \in 1..n
        OBVIOUS
      <4> QED
        BY <3>1, <3>3, <4>1, <1>9
    <3>5. q[idx[y]] = p[idx[y]]
      BY <2>3, <3>2, <3>4
    <3> QED
      BY <2>1, <3>1, <3>4, <3>5, <1>3
  <2> QED
    BY <2>2, <2>3
<1>10. ASSUME NEW y \in S, y = x \/ idx[y] = 0
       PROVE  r.idx[y] = 0
  <2>1. CASE y = x
    BY <2>1, <1>3
  <2>2. CASE y # x /\ idx[y] = 0
    <3>1. y # last
      BY <2>2
    <3>2. qdx[y] = idx[y]
      BY <2>2, <3>1, <1>6, <1>7
    <3> QED
      BY <2>2, <3>2, <1>3
  <2> QED
    BY <2>1, <2>2, <1>10
<1>11. Ordered(r.p, key, n)
  <2> SUFFICES ASSUME NEW j \in 2..n PROVE key[r.p[j \div 2]] <= key[r.p[j]]
    BY DEF Ordered
  <2> DEFINE m == j \div 2
  <2>1. m \in 1..n /\ j \in 1..n
    BY HalfRange
  <2>2. key[q[m]] <= key[q[j]]
    BY DEF Ordered
  <2> SUFFICES key[r.p[m]] <= key[r.p[j]]
    OBVIOUS
  <2> HIDE DEF m
  <2> QED
    BY <2>1, <2>2, <1>3
<1>12. \A y \in S : r.idx[y] # 0 => r.idx[y] \in 1..n /\ r.p[r.idx[y]] = y
  BY <1>9, <1>10
<1>13. IsHeap(r, S, key)
  <2>1. \A i \in 1..n : r.idx[r.p[i]] = i
    BY <1>8
  <2> QED
    BY <2>1, <1>3, <1>11, <1>12, FactsHeap
<1>14. Size(r) = n
  BY <1>3, ArraySize
<1>15. \A y \in S : r.idx[y] # 0 <=> (idx[y] # 0 /\ y # x)
  <2>1. \A y \in S : r.idx[y] \in 1..n => r.idx[y] # 0
    OBVIOUS
  <2> QED
    BY <2>1, <1>9, <1>10
<1> QED
  BY <1>13, <1>14, <1>15

\* The heap that erase works on: its last event is about to fill the hole.
LEMMA EraseStarts ==
  ASSUME NEW S, NEW key, NEW h, IsHeap(h, S, key), NEW N, N = Size(h), N > 0
  PROVE  /\ N \in Nat /\ h.p[N] \in S /\ h.idx[h.p[N]] = N
         /\ Filling(h.p, h.idx, N, S, h.p[N]) /\ Ordered(h.p, key, N)
<1>1. /\ N \in Nat /\ h.p \in [1..N -> S]
      /\ h.idx \in [S -> 0..N]
      /\ Ordered(h.p, key, N)
      /\ \A i \in 1..N : h.p[i] \in S /\ h.idx[h.p[i]] = i
      /\ \A x \in S : h.idx[x] # 0 => h.p[h.idx[x]] = x
  BY HeapFacts
<1>2. N \in 1..N
  BY <1>1
<1>3. \A j \in 1..(N - 1) : h.p[j] # h.p[N] /\ h.idx[h.p[j]] = j
  <2>1. \A j \in 1..(N - 1) : j \in 1..N /\ j # N
    BY <1>1
  <2> QED
    BY <2>1, <1>1, <1>2
<1> QED
  BY <1>1, <1>2, <1>3 DEF Filling

\* The last event is less than the hole's parent: it moves up.
LEMMA EraseUp ==
  ASSUME NEW n \in Nat, NEW N, N = n + 1, NEW S, NEW key \in [S -> Nat],
         NEW p, NEW idx, NEW last, Filling(p, idx, N, S, last), Ordered(p, key, N),
         NEW hole \in 1..n, hole > 1, key[p[hole \div 2]] > key[last],
         NEW q, NEW qdx, ShiftedUp(p, idx, q, qdx, hole, last, key, N, S)
  PROVE  /\ Ordered(q, key, n) /\ \A j \in 1..n : j \notin 1..hole => q[j] = p[j]
         /\ Places(p, idx, q, qdx, last, S, (1..hole) \ {hole}, 1..hole)
<1>1. /\ p \in [1..N -> S] /\ q \in [1..N -> S]
      /\ \A j \in (hole + 1)..N : q[j] = p[j]
      /\ \A j \in 1..(hole - 1) : key[q[j]] <= key[p[j]]
      /\ q[hole] = p[hole \div 2]
      /\ Places(p, idx, q, qdx, last, S, 1..(hole - 1), 1..hole)
  BY DEF ShiftedUp, Filling
<1>2. \A j \in 1..N : key[p[j]] \in Nat /\ key[q[j]] \in Nat
  BY <1>1
<1>3. key[q[hole]] <= key[p[hole]]
  BY <1>1 DEF Ordered
<1>4. \A j \in 1..hole : key[q[j]] <= key[p[j]]
  BY <1>1, <1>3
<1>5. Ordered(q, key, n)
  <2> SUFFICES ASSUME NEW j \in 2..n PROVE key[q[j \div 2]] <= key[q[j]]
    BY DEF Ordered
  <2> DEFINE m == j \div 2
  <2>1. m \in 1..n /\ j \in 1..n /\ m < j
    BY HalfRange
  <2>2. key[p[m]] <= key[p[j]]
    BY DEF Ordered
  <2>3. j <= hole => key[q[m]] <= key[q[j]]
    BY DEF Ordered, ShiftedUp
  <2> SUFFICES key[q[m]] <= key[q[j]]
    OBVIOUS
  <2> HIDE DEF m
  <2>4. CASE j > hole
    <3>1. q[j] = p[j]
      BY <2>4, <1>1
    <3>2. key[q[m]] <= key[p[m]]
      <4>1. CASE m <= hole
        BY <4>1, <2>1, <1>4
      <4>2. CASE m > hole
        <5>1. m \in (hole + 1)..N /\ m \in 1..N
          BY <4>2, <2>1
        <5> QED
          BY <5>1, <1>1, <1>2
      <4> QED
        BY <4>1, <4>2, <2>1
    <3>3. m \in 1..N /\ j \in 1..N
      BY <2>1
    <3> QED
      BY <3>1, <3>2, <3>3, <2>2, <1>2
  <2> QED
    BY <2>3, <2>4
<1>6. (1..hole) \ {hole} = 1..(hole - 1)
  OBVIOUS
<1>7. \A j \in 1..n : j \notin 1..hole => j \in (hole + 1)..N
  OBVIOUS
<1> QED
  BY <1>1, <1>5, <1>6, <1>7

\* It is not: it stays or moves down.
LEMMA EraseDown ==
  ASSUME NEW n \in Nat, NEW N, N = n + 1, NEW S, NEW key \in [S -> Nat],
         NEW p, NEW idx, NEW last, Filling(p, idx, N, S, last), Ordered(p, key, N),
         NEW hole \in 1..n, ~(hole > 1 /\ key[p[hole \div 2]] > key[last]),
         NEW q, NEW qdx, ShiftedDown(p, idx, q, qdx, hole, last, key, N, S)
  PROVE  /\ Ordered(q, key, n) /\ \A j \in 1..n : j \notin hole..n => q[j] = p[j]
         /\ Places(p, idx, q, qdx, last, S, (hole..n) \ {hole}, hole..n)
<1>0. N - 1 = n
  OBVIOUS
<1>1. /\ p \in [1..N -> S] /\ q \in [1..N -> S] /\ last \in S
      /\ \A j \in 1..(hole - 1) : q[j] = p[j]
      /\ \A j \in (hole + 1)..n : key[p[j]] <= key[q[j]]
      /\ Places(p, idx, q, qdx, last, S, (hole + 1)..n, hole..n)
  BY <1>0 DEF ShiftedDown, Filling
<1>2. (\A j \in 1..N : key[p[j]] \in Nat /\ key[q[j]] \in Nat) /\ key[last] \in Nat
  BY <1>1
<1>3. hole > 1 => key[p[hole \div 2]] <= key[q[hole]]
  <2> SUFFICES ASSUME hole > 1 PROVE key[p[hole \div 2]] <= key[q[hole]]
    OBVIOUS
  <2> DEFINE m == hole \div 2
  <2>1. m \in 1..N /\ hole \in 1..N /\ hole \in 2..N
    BY HalfRange
  <2>2. key[p[m]] <= key[p[hole]]
    BY <2>1 DEF Ordered
  <2>3. ~(key[p[m]] > key[last])
    OBVIOUS
  <2>4. q[hole] = last \/ \E c \in 2..n : c \div 2 = hole /\ q[hole] = p[c]
    BY <1>0 DEF ShiftedDown
  <2>5. \A c \in 2..n : c \div 2 = hole => key[p[hole]] <= key[p[c]] /\ c \in 1..N
    BY DEF Ordered
  <2> SUFFICES key[p[m]] <= key[q[hole]]
    OBVIOUS
  <2> HIDE DEF m
  <2>6. CASE q[hole] = last
    BY <2>1, <2>3, <2>6, <1>2
  <2>7. CASE \E c \in 2..n : c \div 2 = hole /\ q[hole] = p[c]
    <3>1. PICK c \in 2..n : c \div 2 = hole /\ q[hole] = p[c]
      BY <2>7
    <3>2. key[p[hole]] <= key[p[c]] /\ key[p[c]] \in Nat
      BY <3>1, <2>5, <1>2
    <3>3. key[p[m]] \in Nat /\ key[p[hole]] \in Nat
      BY <2>1, <1>2
    <3> QED
      BY <3>1, <3>2, <3>3, <2>2
  <2> QED
    BY <2>4, <2>6, <2>7
<1>4. Ordered(q, key, n)
  <2> SUFFICES ASSUME NEW j \in 2..n PROVE key[q[j \div 2]] <= key[q[j]]
    BY DEF Ordered
  <2> DEFINE m == j \div 2
  <2>1. m \in 1..n /\ j \in 1..n /\ m < j
    BY HalfRange
  <2>2. key[p[m]] <= key[p[j]]
    BY DEF Ordered
  <2>3. m >= hole => key[q[m]] <= key[q[j]]
    BY <1>0 DEF ShiftedDown
  <2>4. j = hole => key[p[m]] <= key[q[j]]
    BY <1>3
  <2> SUFFICES key[q[m]] <= key[q[j]]
    OBVIOUS
  <2> HIDE DEF m
  <2>5. CASE m < hole
    <3>1. q[m] = p[m]
      BY <2>1, <2>5, <1>1
    <3>2. key[p[j]] <= key[q[j]] \/ j = hole
      <4>1. CASE j < hole
        <5>1. j \in 1..N /\ q[j] = p[j]
          BY <4>1, <2>1, <1>1
        <5> QED
          BY <5>1, <1>2
      <4>2. CASE j > hole
        BY <4>2, <2>1, <1>1
      <4> QED
        BY <4>1, <4>2, <2>1
    <3>3. m \in 1..N /\ j \in 1..N
      BY <2>1
    <3> QED
      BY <3>1, <3>2, <3>3, <2>2, <2>4, <1>2
  <2> QED
    BY <2>1, <2>3, <2>5
<1>5. (hole..n) \ {hole} = (hole + 1)..n
  OBVIOUS
<1>6. \A j \in 1..n : j \notin hole..n => j \in 1..(hole - 1)
  OBVIOUS
<1> QED
  BY <1>1, <1>4, <1>5, <1>6

\* The last event itself is erased.
LEMMA EraseLast ==
  ASSUME NEW n \in Nat, NEW N, N = n + 1, NEW S, NEW key, NEW p, NEW idx, NEW x,
         Filling(p, idx, N, S, x), idx[x] = N, Ordered(p, key, N),
         NEW r, IsCut(r, p, idx, x, n, S)
  PROVE  /\ IsHeap(r, S, key) /\ Size(r) = n
         /\ \A y \in S : r.idx[y] # 0 <=> (idx[y] # 0 /\ y # x)
<1>1. /\ p \in [1..N -> S] /\ idx \in [S -> 0..N] /\ x \in S /\ p[N] = x
      /\ \A i \in 1..n : p[i] # x /\ idx[p[i]] = i /\ p[i] \in S
      /\ \A y \in S : y # x /\ idx[y] # 0 => p[idx[y]] = y
  BY DEF Filling
<1>2. /\ IsArray(r) /\ r.p \in [1..n -> S] /\ r.idx \in [S -> Nat] /\ r.idx[x] = 0
      /\ \A i \in 1..n : r.p[i] = p[i] /\ r.p[i] \in S
      /\ \A y \in S : y # x => r.idx[y] = idx[y]
  BY DEF IsCut
<1>3. \A i \in 1..n : r.idx[r.p[i]] = i
  BY <1>1, <1>2
<1>4. ASSUME NEW y \in S, y # x, idx[y] # 0
      PROVE  r.idx[y] \in 1..n /\ r.p[r.idx[y]] = y
  <2>1. r.idx[y] = idx[y] /\ p[idx[y]] = y /\ idx[y] \in 0..N
    BY <1>1, <1>2, <1>4
  <2>2. idx[y] # N
    BY <2>1, <1>1, <1>4
  <2>3. idx[y] \in 1..n
    BY <2>1, <2>2, <1>4
  <2> QED
    BY <2>1, <2>3, <1>2
<1>5. \A y \in S : r.idx[y] # 0 => r.idx[y] \in 1..n /\ r.p[r.idx[y]] = y
  BY <1>2, <1>4
<1>6. Ordered(r.p, key, n)
  <2> SUFFICES ASSUME NEW j \in 2..n PROVE key[r.p[j \div 2]] <= key[r.p[j]]
    BY DEF Ordered
  <2> DEFINE m == j \div 2
  <2>1. m \in 1..n /\ j \in 1..n
    BY HalfRange
  <2>2. key[p[m]] <= key[p[j]]
    BY DEF Ordered
  <2> SUFFICES key[r.p[m]] <= key[r.p[j]]
    OBVIOUS
  <2> HIDE DEF m
  <2> QED
    BY <2>1, <2>2, <1>2
<1>7. IsHeap(r, S, key)
  BY <1>2, <1>3, <1>5, <1>6, FactsHeap
<1>8. Size(r) = n
  BY <1>2, ArraySize
<1> QED
  BY <1>2, <1>7, <1>8

\* min_heap_erase takes out that one event, wherever it is, and what is left is a
\* heap in which every event knows its place (minheap-internal.h:96-115).
THEOREM EraseKeepsHeap ==
  ASSUME NEW S, NEW key \in [S -> Nat], NEW h, IsHeap(h, S, key),
         NEW x \in S, InHeap(h, x)
  PROVE  /\ IsHeap(Erase(h, x, key), S, key)
         /\ Size(Erase(h, x, key)) = Size(h) - 1
         /\ \A y \in S : InHeap(Erase(h, x, key), y) <=> InHeap(h, y) /\ y # x
<1> DEFINE N == Size(h)  n == N - 1  last == h.p[N]  hole == h.idx[x]
           up == hole > 1 /\ key[h.p[hole \div 2]] > key[last]
           r == Erase(h, x, key)
           Good == /\ IsHeap(r, S, key) /\ Size(r) = n
                   /\ \A y \in S : r.idx[y] # 0 <=> (h.idx[y] # 0 /\ y # x)
<1>1. hole # 0 /\ hole \in 1..N /\ h.p[hole] = x /\ N \in Nat /\ N > 0
  BY HeapFacts DEF InHeap
<1>2. /\ last \in S /\ h.idx[last] = N
      /\ Filling(h.p, h.idx, N, S, last) /\ Ordered(h.p, key, N)
  BY <1>1, EraseStarts
<1>3. n \in Nat /\ N = n + 1 /\ N - 1 = n /\ N \in 1..N /\ DOMAIN h.p = 1..N
  BY <1>1, <1>2 DEF Filling
<1>4. Ordered(h.p, key, N - 1)
  BY <1>2, <1>3 DEF Ordered
<1>5. up => r = [p |-> SubSeq(ShiftUp(h, hole, last, key).p, 1, n),
                 idx |-> [ShiftUp(h, hole, last, key).idx EXCEPT ![x] = 0]]
  BY DEF Erase
<1>6. ~up => r = [p |-> SubSeq(ShiftDown(h, n, hole, last, key).p, 1, n),
                  idx |-> [ShiftDown(h, n, hole, last, key).idx EXCEPT ![x] = 0]]
  BY DEF Erase
<1> SUFFICES Good
  BY DEF InHeap
<1> HIDE DEF r
<1>7. CASE hole = N
  <2>1. x = last
    BY <1>1, <1>7
  <2>2. ~up
    <3>1. N > 1 => N \in 2..N
      BY <1>1
    <3>2. N > 1 => key[h.p[N \div 2]] <= key[last]
      BY <3>1, <1>2 DEF Ordered
    <3>3. N > 1 => N \div 2 \in 1..N /\ N \div 2 \in DOMAIN h.p
      BY <1>1, <1>3, HalfRange
    <3>4. N > 1 => key[h.p[N \div 2]] \in Nat /\ key[last] \in Nat
      BY <3>3, <1>2 DEF Filling
    <3> QED
      BY <1>7, <3>2, <3>4
  <2> DEFINE m == ShiftDown(h, n, hole, last, key)
  <2>3. m = Put(h, N, x)
    <3>1. ~(2 * N <= n)
      BY <1>1
    <3>2. n \in 0..N
      BY <1>3
    <3> QED
      BY <2>1, <3>1, <3>2, <1>3, <1>7, ShiftDownStep
  <2>4. m.p = h.p /\ m.idx = h.idx
    <3>1. m.p = [h.p EXCEPT ![N] = x] /\ m.idx = [h.idx EXCEPT ![x] = N]
      BY <2>3 DEF Put
    <3> QED
      BY <3>1, <2>1, <1>2, <1>3, <1>7 DEF Filling
  <2>5. r = [p |-> SubSeq(h.p, 1, n), idx |-> [h.idx EXCEPT ![x] = 0]]
    BY <2>2, <2>4, <1>6
  <2>6. h.p \in [1..(n + 1) -> S] /\ h.idx \in [S -> Nat]
    BY <1>2, <1>3 DEF Filling
  <2>7. IsCut(r, h.p, h.idx, x, n, S)
    BY <2>5, <2>6, <1>3, CutResult
  <2>8. Filling(h.p, h.idx, N, S, x) /\ h.idx[x] = N
    BY <2>1, <1>2
  <2> QED
    BY <2>7, <2>8, <1>2, <1>3, EraseLast
<1>8. CASE hole # N /\ up
  <2> DEFINE m == ShiftUp(h, hole, last, key)
  <2>1. hole \in 1..n
    BY <1>1, <1>3, <1>8
  <2>2. ShiftedUp(h.p, h.idx, m.p, m.idx, hole, last, key, N, S)
    BY <1>1, <1>2, <1>4, ShiftUpResult
  <2>3. m.p \in [1..(n + 1) -> S] /\ m.idx \in [S -> Nat]
    BY <2>2, <1>3 DEF ShiftedUp
  <2>4. r = [p |-> SubSeq(m.p, 1, n), idx |-> [m.idx EXCEPT ![x] = 0]]
    BY <1>5, <1>8
  <2> HIDE DEF m
  <2>5. IsCut(r, m.p, m.idx, x, n, S)
    BY <2>3, <2>4, <1>3, CutResult
  <2>6. /\ Ordered(m.p, key, n) /\ \A j \in 1..n : j \notin 1..hole => m.p[j] = h.p[j]
        /\ Places(h.p, h.idx, m.p, m.idx, last, S, (1..hole) \ {hole}, 1..hole)
    BY <2>1, <2>2, <1>2, <1>3, <1>8, EraseUp
  <2> DEFINE Q == 1..hole
  <2>7. Q \subseteq 1..n /\ hole \in Q
    BY <2>1, <1>3
  <2>8. Places(h.p, h.idx, m.p, m.idx, last, S, Q \ {hole}, Q)
    BY <2>6
  <2>9. \A j \in 1..n : j \notin Q => m.p[j] = h.p[j]
    BY <2>6
  <2>10. Refilled(h.p, h.idx, m.p, m.idx, last, x, hole, Q, n, S, key)
    <3> HIDE DEF hole, n, N, last, Q
    <3>1. hole = h.idx[x]
      BY DEF hole
    <3> QED
      BY <2>1, <2>6, <2>7, <2>8, <2>9, <3>1, <1>2, <1>3 DEF Refilled
  <2> HIDE DEF hole, n, N, last, Q
  <2> QED
    BY <2>5, <2>10, <1>3, EraseResult
<1>9. CASE hole # N /\ ~up
  <2> DEFINE m == ShiftDown(h, n, hole, last, key)
  <2>1. hole \in 1..n
    BY <1>1, <1>3, <1>9
  <2>2. ShiftedDown(h.p, h.idx, m.p, m.idx, hole, last, key, N, S)
    BY <1>1, <1>2, <1>3, <1>4, <2>1, ShiftDownResult
  <2>3. m.p \in [1..(n + 1) -> S] /\ m.idx \in [S -> Nat]
    <3>1. m.p \in [1..N -> S] /\ m.idx \in [S -> 0..N]
      BY <2>2 DEF ShiftedDown
    <3> QED
      BY <3>1, <1>3
  <2>4. r = [p |-> SubSeq(m.p, 1, n), idx |-> [m.idx EXCEPT ![x] = 0]]
    BY <1>6, <1>9
  <2> HIDE DEF m
  <2>5. IsCut(r, m.p, m.idx, x, n, S)
    BY <2>3, <2>4, <1>3, CutResult
  <2>6. /\ Ordered(m.p, key, n) /\ \A j \in 1..n : j \notin hole..n => m.p[j] = h.p[j]
        /\ Places(h.p, h.idx, m.p, m.idx, last, S, (hole..n) \ {hole}, hole..n)
    BY <2>1, <2>2, <1>2, <1>3, <1>9, EraseDown
  <2> DEFINE Q == hole..n
  <2>7. Q \subseteq 1..n /\ hole \in Q
    BY <2>1, <1>3
  <2>8. Places(h.p, h.idx, m.p, m.idx, last, S, Q \ {hole}, Q)
    BY <2>6
  <2>9. \A j \in 1..n : j \notin Q => m.p[j] = h.p[j]
    BY <2>6
  <2>10. Refilled(h.p, h.idx, m.p, m.idx, last, x, hole, Q, n, S, key)
    <3> HIDE DEF hole, n, N, last, Q
    <3>1. hole = h.idx[x]
      BY DEF hole
    <3> QED
      BY <2>1, <2>6, <2>7, <2>8, <2>9, <3>1, <1>2, <1>3 DEF Refilled
  <2> HIDE DEF hole, n, N, last, Q
  <2> QED
    BY <2>5, <2>10, <1>3, EraseResult
<1> QED
  BY <1>7, <1>8, <1>9

\* An event that is not in the heap may change its time.
LEMMA RekeyHeap ==
  ASSUME NEW S, NEW key \in [S -> Nat], NEW h, IsHeap(h, S, key),
         NEW x \in S, ~InHeap(h, x), NEW t
  PROVE  IsHeap(h, S, [key EXCEPT ![x] = t])
<1> DEFINE k == [key EXCEPT ![x] = t]
<1>1. \A i \in 1..Size(h) : h.p[i] \in S /\ h.p[i] # x
  <2>1. /\ Size(h) \in Nat /\ h.idx[x] = 0
        /\ \A i \in 1..Size(h) : h.p[i] \in S /\ h.idx[h.p[i]] = i
    BY HeapFacts DEF InHeap
  <2> QED
    BY <2>1
<1>2. \A i \in 1..Size(h) : k[h.p[i]] = key[h.p[i]]
  BY <1>1
<1>3. ASSUME NEW i \in 2..Size(h)
      PROVE  k[h.p[i \div 2]] <= k[h.p[i]]
  <2>1. i \div 2 \in 1..Size(h) /\ i \in 1..Size(h)
    BY HeapFacts, HalfRange
  <2>2. key[h.p[i \div 2]] <= key[h.p[i]]
    BY DEF IsHeap
  <2> QED
    BY <2>1, <2>2, <1>2
<1> HIDE DEF k
<1>4. IsHeap(h, S, k)
  BY <1>3 DEF IsHeap
<1> QED
  BY <1>4 DEF k

\* No event of the heap is due before its top, which is all that timeout_next and
\* timeout_process look at (min_heap_top).
THEOREM TopIsLeast ==
  ASSUME NEW S, NEW key \in [S -> Nat], NEW h, IsHeap(h, S, key),
         NEW x \in S, InHeap(h, x)
  PROVE  Size(h) > 0 /\ HeapTop(h) \in S /\ key[HeapTop(h)] <= key[x]
<1> DEFINE N == Size(h)
           Bad == {i \in 1..N : ~(key[h.p[1]] <= key[h.p[i]])}
<1>1. /\ N \in Nat /\ Ordered(h.p, key, N)
      /\ \A i \in 1..N : h.p[i] \in S
      /\ h.idx[x] \in 1..N /\ h.p[h.idx[x]] = x
  BY HeapFacts DEF InHeap
<1>2. \A i \in 1..N : key[h.p[i]] \in Nat
  BY <1>1
<1> HIDE DEF N
<1>3. Bad = {}
  <2> SUFFICES ASSUME Bad # {} PROVE FALSE
    OBVIOUS
  <2>1. Bad \subseteq Nat
    BY <1>1
  <2>2. PICK i \in Bad : \A j \in Bad : i <= j
    BY <2>1, LeastNumber
  <2>3. i \in 1..N /\ ~(key[h.p[1]] <= key[h.p[i]])
    OBVIOUS
  <2>4. i # 1
    BY <2>3, <1>1, <1>2
  <2> DEFINE m == i \div 2
  <2>5. m \in 1..N /\ m < i /\ i \in 2..N
    BY <2>3, <2>4, <1>1, HalfRange
  <2>6. key[h.p[m]] <= key[h.p[i]]
    BY <2>5, <1>1 DEF Ordered
  <2> HIDE DEF m
  <2>7. key[h.p[1]] <= key[h.p[m]]
    BY <2>2, <2>5
  <2>8. 1 \in 1..N
    BY <2>5, <1>1
  <2> QED
    BY <2>3, <2>5, <2>6, <2>7, <2>8, <1>2
<1>4. N > 0 /\ 1 \in 1..N
  BY <1>1
<1> QED
  BY <1>1, <1>3, <1>4 DEF HeapTop, N

-----------------------------------------------------------------------------
(* The queue of active events                                              *)

\* The queue of active events: what insert, remove and a batch of inserts do.
LEMMA AppendQueue ==
  ASSUME NEW S, NEW s \in Seq(S), IsInjective(s), NEW e \in S, ~Contains(s, e),
         NEW r, r = Append(s, e)
  PROVE  /\ r \in Seq(S) /\ IsInjective(r) /\ Len(r) = Len(s) + 1
         /\ \A x : Contains(r, x) <=> Contains(s, x) \/ x = e
<1> DEFINE n == Len(s)
<1>1. /\ r \in Seq(S) /\ Len(r) = n + 1 /\ n \in Nat
      /\ \A i \in 1..n : r[i] = s[i]
      /\ r[n + 1] = e
  BY AppendProperties, LenProperties
<1>2. \A i \in 1..n : s[i] # e
  BY DEF Contains
<1>3. \A i, j \in 1..n : s[i] = s[j] => i = j
  BY LenProperties DEF IsInjective
<1>4. DOMAIN r = 1..(n + 1)
  BY <1>1, LenProperties
<1> HIDE DEF n
<1>5. \A i \in 1..(n + 1) : i \in 1..n \/ i = n + 1
  BY <1>1
<1>6. \A i, j \in 1..(n + 1) : r[i] = r[j] => i = j
  BY <1>1, <1>2, <1>3, <1>5
<1>7. \A x : (\E i \in 1..(n + 1) : r[i] = x) <=> (\E i \in 1..n : s[i] = x) \/ x = e
  <2>1. \A i \in 1..n : i \in 1..(n + 1)
    BY <1>1
  <2>2. n + 1 \in 1..(n + 1)
    BY <1>1
  <2> QED
    BY <1>1, <1>5, <2>1, <2>2
<1>8. IsInjective(r)
  BY <1>4, <1>6 DEF IsInjective
<1> QED
  BY <1>1, <1>7, <1>8 DEF Contains, n

\* TAILQ_REMOVE takes one event out.
LEMMA WithoutQueue ==
  ASSUME NEW S, NEW s \in Seq(S), IsInjective(s), NEW e \in S, Contains(s, e),
         NEW r, r = Without(s, e)
  PROVE  /\ r \in Seq(S) /\ IsInjective(r) /\ Len(r) = Len(s) - 1
         /\ \A x : Contains(r, x) <=> Contains(s, x) /\ x # e
<1> DEFINE n == Len(s)
           k == CHOOSE i \in DOMAIN s : s[i] = e
           a == SubSeq(s, 1, k - 1)
           b == SubSeq(s, k + 1, n)
<1>1. n \in Nat /\ DOMAIN s = 1..n /\ \A i \in 1..n : s[i] \in S
  BY LenProperties, ElementOfSeq
<1>2. k \in 1..n /\ s[k] = e
  BY <1>1 DEF Contains
<1>3. r = a \o b
  BY DEF Without, RemoveAt
<1>4. \A i, j \in 1..n : s[i] = s[j] => i = j
  BY <1>1 DEF IsInjective
<1> HIDE DEF k, n
<1>5. /\ a \in Seq(S) /\ Len(a) = k - 1
      /\ \A i \in 1..(k - 1) : a[i] = s[i]
  <2>1. /\ 1 \in Int /\ k - 1 \in Int /\ \A i \in 1..(k - 1) : s[i] \in S
    BY <1>1, <1>2
  <2> HIDE DEF a
  <2>2. a = SubSeq(s, 1, k - 1)
    BY DEF a
  <2>3. /\ a \in Seq(S) /\ Len(a) = IF 1 <= k - 1 THEN k - 1 - 1 + 1 ELSE 0
        /\ \A i \in 1..(k - 1 - 1 + 1) : a[i] = s[1 + i - 1]
    BY <2>1, <2>2, SubSeqProperties
  <2> QED
    BY <2>3, <1>1, <1>2
<1>6. /\ b \in Seq(S) /\ Len(b) = n - k
      /\ \A i \in 1..(n - k) : b[i] = s[k + i]
  <2>1. /\ k + 1 \in Int /\ n \in Int /\ \A i \in (k + 1)..n : s[i] \in S
    BY <1>1, <1>2
  <2> HIDE DEF b
  <2>2. b = SubSeq(s, k + 1, n)
    BY DEF b
  <2>3. /\ b \in Seq(S) /\ Len(b) = IF k + 1 <= n THEN n - (k + 1) + 1 ELSE 0
        /\ \A i \in 1..(n - (k + 1) + 1) : b[i] = s[(k + 1) + i - 1]
    BY <2>1, <2>2, SubSeqProperties
  <2> QED
    BY <2>3, <1>1, <1>2
<1> HIDE DEF a, b
<1>7. /\ r \in Seq(S) /\ Len(r) = n - 1
      /\ \A i \in 1..(n - 1) : r[i] = IF i < k THEN s[i] ELSE s[i + 1]
  <2>1. /\ r \in Seq(S) /\ Len(r) = Len(a) + Len(b)
        /\ \A i \in 1..(Len(a) + Len(b)) : r[i] = IF i <= Len(a) THEN a[i] ELSE b[i - Len(a)]
    BY <1>3, <1>5, <1>6, ConcatProperties
  <2>2. /\ Len(r) = n - 1
        /\ \A i \in 1..(n - 1) : r[i] = IF i <= k - 1 THEN a[i] ELSE b[i - (k - 1)]
    BY <2>1, <1>5, <1>6, <1>1, <1>2
  <2>3. ASSUME NEW i \in 1..(n - 1)
        PROVE  r[i] = IF i < k THEN s[i] ELSE s[i + 1]
    <3>1. CASE i < k
      <4>1. i \in 1..(k - 1)
        BY <3>1, <1>2
      <4> QED
        BY <3>1, <4>1, <2>2, <1>5
    <3>2. CASE ~(i < k)
      <4> DEFINE j == i - (k - 1)
      <4>1. j \in 1..(n - k) /\ k + j = i + 1 /\ ~(i <= k - 1)
        BY <3>2, <1>1, <1>2
      <4>2. r[i] = b[j]
        BY <4>1, <2>2
      <4> HIDE DEF j
      <4> QED
        BY <3>2, <4>1, <4>2, <1>6
    <3> QED
      BY <3>1, <3>2
  <2> QED
    BY <2>1, <2>2, <2>3
<1>8. DOMAIN r = 1..(n - 1)
  BY <1>7, LenProperties
<1>9. \A i, j \in 1..(n - 1) : r[i] = r[j] => i = j
  <2> SUFFICES ASSUME NEW i \in 1..(n - 1), NEW j \in 1..(n - 1), r[i] = r[j]
               PROVE  i = j
    OBVIOUS
  <2> DEFINE f == IF i < k THEN i ELSE i + 1
             g == IF j < k THEN j ELSE j + 1
  <2>1. f \in 1..n /\ g \in 1..n /\ r[i] = s[f] /\ r[j] = s[g]
    BY <1>1, <1>2, <1>7
  <2>2. f = g
    <3> HIDE DEF f, g
    <3> QED
      BY <2>1, <1>4
  <2> QED
    BY <2>2, <1>2
<1>10. ASSUME NEW x
       PROVE  (\E i \in 1..(n - 1) : r[i] = x) <=> (\E i \in 1..n : s[i] = x) /\ x # e
  <2>1. ASSUME NEW i \in 1..(n - 1), r[i] = x
        PROVE  (\E j \in 1..n : s[j] = x) /\ x # e
    <3> DEFINE f == IF i < k THEN i ELSE i + 1
    <3>1. f \in 1..n /\ x = s[f] /\ f # k
      BY <2>1, <1>1, <1>2, <1>7
    <3> HIDE DEF f
    <3> QED
      BY <3>1, <1>2, <1>4
  <2>2. ASSUME NEW j \in 1..n, s[j] = x, x # e
        PROVE  \E i \in 1..(n - 1) : r[i] = x
    <3> DEFINE i == IF j < k THEN j ELSE j - 1
    <3>1. j # k
      BY <2>2, <1>2
    <3>2. i \in 1..(n - 1) /\ (IF i < k THEN i ELSE i + 1) = j
      BY <3>1, <1>1, <1>2
    <3>3. r[i] = s[j]
      <4> HIDE DEF i
      <4> QED
        BY <3>2, <1>7
    <3> QED
      BY <2>2, <3>2, <3>3
  <2> QED
    BY <2>1, <2>2
<1>11. IsInjective(r)
  BY <1>8, <1>9 DEF IsInjective
<1> QED
  BY <1>7, <1>10, <1>11 DEF Contains, n

\* Two queues without a common event, one behind the other.
LEMMA ConcatQueue ==
  ASSUME NEW S, NEW s \in Seq(S), IsInjective(s), NEW t \in Seq(S), IsInjective(t),
         \A x : ~(Contains(s, x) /\ Contains(t, x)), NEW r, r = s \o t
  PROVE  /\ r \in Seq(S) /\ IsInjective(r) /\ Len(r) = Len(s) + Len(t)
         /\ \A x : Contains(r, x) <=> Contains(s, x) \/ Contains(t, x)
<1> DEFINE m == Len(s)  n == Len(t)
<1>1. /\ r \in Seq(S) /\ Len(r) = m + n /\ m \in Nat /\ n \in Nat
      /\ \A i \in 1..(m + n) : r[i] = IF i <= m THEN s[i] ELSE t[i - m]
  BY ConcatProperties, LenProperties
<1>2. \A i \in 1..m, j \in 1..n : s[i] # t[j]
  BY DEF Contains
<1>3. \A i, j \in 1..m : s[i] = s[j] => i = j
  BY LenProperties DEF IsInjective
<1>4. \A i, j \in 1..n : t[i] = t[j] => i = j
  BY LenProperties DEF IsInjective
<1>5. DOMAIN r = 1..(m + n)
  BY <1>1, LenProperties
<1> HIDE DEF m, n
<1>6. \A i \in 1..(m + n) : \/ i \in 1..m /\ r[i] = s[i]
                            \/ i - m \in 1..n /\ r[i] = t[i - m] /\ i = m + (i - m)
  BY <1>1
<1>7. \A i, j \in 1..(m + n) : r[i] = r[j] => i = j
  <2> SUFFICES ASSUME NEW i \in 1..(m + n), NEW j \in 1..(m + n), r[i] = r[j]
               PROVE  i = j
    OBVIOUS
  <2> DEFINE f == i - m  g == j - m
  <2>1. \/ i \in 1..m /\ r[i] = s[i]
        \/ f \in 1..n /\ r[i] = t[f] /\ i = m + f
    BY <1>6
  <2>2. \/ j \in 1..m /\ r[j] = s[j]
        \/ g \in 1..n /\ r[j] = t[g] /\ j = m + g
    BY <1>6
  <2> HIDE DEF f, g
  <2> QED
    BY <2>1, <2>2, <1>2, <1>3, <1>4
<1>8. ASSUME NEW x
      PROVE  (\E i \in 1..(m + n) : r[i] = x)
               <=> (\E i \in 1..m : s[i] = x) \/ (\E i \in 1..n : t[i] = x)
  <2>1. \A i \in 1..m : i \in 1..(m + n) /\ r[i] = s[i]
    BY <1>1
  <2>2. \A i \in 1..n : m + i \in 1..(m + n) /\ r[m + i] = t[i]
    <3> SUFFICES ASSUME NEW i \in 1..n PROVE m + i \in 1..(m + n) /\ r[m + i] = t[i]
      OBVIOUS
    <3>1. m + i \in 1..(m + n) /\ ~(m + i <= m) /\ (m + i) - m = i
      BY <1>1
    <3> QED
      BY <3>1, <1>1
  <2>3. ASSUME NEW i \in 1..(m + n), r[i] = x
        PROVE  (\E j \in 1..m : s[j] = x) \/ (\E j \in 1..n : t[j] = x)
    BY <2>3, <1>6
  <2> QED
    BY <2>1, <2>2, <2>3
<1>9. IsInjective(r)
  BY <1>5, <1>7 DEF IsInjective
<1> QED
  BY <1>1, <1>8, <1>9 DEF Contains, m, n

\* The head of a queue is in it.
LEMMA HeadQueue ==
  ASSUME NEW S, NEW s \in Seq(S), s # <<>>
  PROVE  Head(s) \in S /\ Contains(s, Head(s))
<1>1. Head(s) = s[1] /\ Len(s) \in Nat /\ Len(s) # 0
  BY EmptySeq, LenProperties
<1>2. 1 \in 1..Len(s)
  BY <1>1
<1> QED
  BY <1>1, <1>2, HeadTailProperties DEF Contains

\* A queue with nothing in it is empty.
LEMMA EmptyQueue ==
  ASSUME NEW S, NEW s \in Seq(S), \A x \in S : ~Contains(s, x)
  PROVE  s = <<>>
BY HeadQueue

-----------------------------------------------------------------------------
(* The lists as a record: what each operator on it does                    *)

\* A base as a record, and the updates of its fields.
Watched  == SUBSET IO
Queues   == Seq(Events)
Heaps    == [p : Seq(Events), idx : [Events -> Nat]]
Times    == [Events -> Nat]
Periods  == [Events -> Intervals \cup {0}]
Reasons  == [Events -> SUBSET {"io", "timeout"}]

IsRecord(b) ==
  b \in [inserted : Watched, active : Queues, heap : Heaps, timeout : Times,
         interval : Periods, res : Reasons, count : Int]

SameBut(b, r) == r.timeout = b.timeout /\ r.interval = b.interval /\ r.res = b.res

\* What each operator writes, and that it writes nothing else.
LEMMA WatchFields ==
  ASSUME NEW b, IsRecord(b), NEW e,
         b.inserted \cup {e} \in Watched, b.count + 1 \in Int, NEW r, r = Watch(b, e)
  PROVE  /\ IsRecord(r)
         /\ SameBut(b, r) /\ r.inserted = b.inserted \cup {e} /\ r.count = b.count + 1
         /\ r.active = b.active /\ r.heap = b.heap
BY DEF IsRecord, SameBut, Watch

LEMMA UnwatchFields ==
  ASSUME NEW b, IsRecord(b), NEW e,
         b.inserted \ {e} \in Watched, b.count - 1 \in Int, NEW r, r = Unwatch(b, e)
  PROVE  /\ IsRecord(r)
         /\ SameBut(b, r) /\ r.inserted = b.inserted \ {e} /\ r.count = b.count - 1
         /\ r.active = b.active /\ r.heap = b.heap
BY DEF IsRecord, SameBut, Unwatch

LEMMA ActivateFields ==
  ASSUME NEW b, IsRecord(b), NEW e,
         Append(b.active, e) \in Queues, b.count + 1 \in Int, NEW r, r = Activate(b, e)
  PROVE  /\ IsRecord(r)
         /\ SameBut(b, r) /\ r.inserted = b.inserted /\ r.count = b.count + 1
         /\ r.active = Append(b.active, e) /\ r.heap = b.heap
BY DEF IsRecord, SameBut, Activate

LEMMA DeactivateFields ==
  ASSUME NEW b, IsRecord(b), NEW e,
         Without(b.active, e) \in Queues, b.count - 1 \in Int, NEW r, r = Deactivate(b, e)
  PROVE  /\ IsRecord(r)
         /\ SameBut(b, r) /\ r.inserted = b.inserted /\ r.count = b.count - 1
         /\ r.active = Without(b.active, e) /\ r.heap = b.heap
BY DEF IsRecord, SameBut, Deactivate

LEMMA UnscheduleFields ==
  ASSUME NEW b, IsRecord(b), NEW e,
         Erase(b.heap, e, b.timeout) \in Heaps, b.count - 1 \in Int, NEW r, r = Unschedule(b, e)
  PROVE  /\ IsRecord(r)
         /\ SameBut(b, r) /\ r.inserted = b.inserted /\ r.count = b.count - 1
         /\ r.active = b.active /\ r.heap = Erase(b.heap, e, b.timeout)
BY DEF IsRecord, SameBut, Unschedule

LEMMA ScheduleFields ==
  ASSUME NEW b, IsRecord(b), NEW e, NEW t, NEW key, key = [b.timeout EXCEPT ![e] = t],
         key \in Times, Push(b.heap, e, key) \in Heaps, b.count + 1 \in Int,
         NEW r, r = Schedule(b, e, t)
  PROVE  /\ IsRecord(r)
         /\ r.interval = b.interval /\ r.res = b.res /\ r.inserted = b.inserted
         /\ r.count = b.count + 1 /\ r.active = b.active /\ r.timeout = key
         /\ r.heap = Push(b.heap, e, key)
BY DEF IsRecord, Schedule

\* What holds of a base's lists between two steps of the code that works on them.
IsBase(b) ==
  /\ IsRecord(b)
  /\ IsInjective(b.active)
  /\ IsHeap(b.heap, Events, b.timeout)
  /\ b.count = Cardinality(b.inserted) + Len(b.active) + Size(b.heap)

Scheduled(b, e) == InHeap(b.heap, e)

\* What a base's fields are.
LEMMA BaseFields ==
  ASSUME NEW b, IsBase(b)
  PROVE  /\ b.inserted \subseteq IO /\ IO \subseteq Events
         /\ IsFiniteSet(b.inserted) /\ Cardinality(b.inserted) \in Nat
         /\ b.active \in Seq(Events) /\ IsInjective(b.active) /\ Len(b.active) \in Nat
         /\ IsHeap(b.heap, Events, b.timeout) /\ Size(b.heap) \in Nat
         /\ b.timeout \in [Events -> Nat] /\ b.count \in Int
         /\ b.interval \in [Events -> Intervals \cup {0}]
         /\ b.res \in [Events -> SUBSET {"io", "timeout"}]
         /\ b.count = Cardinality(b.inserted) + Len(b.active) + Size(b.heap)
<1>1. /\ b.inserted \subseteq IO /\ b.active \in Seq(Events) /\ IsInjective(b.active)
      /\ IsHeap(b.heap, Events, b.timeout)
      /\ b.timeout \in [Events -> Nat] /\ b.count \in Int
      /\ b.interval \in [Events -> Intervals \cup {0}]
      /\ b.res \in [Events -> SUBSET {"io", "timeout"}]
      /\ b.count = Cardinality(b.inserted) + Len(b.active) + Size(b.heap)
  BY DEF IsBase, IsRecord, Watched, Queues, Times, Periods, Reasons
<1>2. IO \subseteq Events /\ b.inserted \subseteq Events /\ IsFiniteSet(Events)
  BY <1>1, EventLoopAssumption
<1>3. IsFiniteSet(b.inserted) /\ Cardinality(b.inserted) \in Nat
  BY <1>2, FS_Subset, FS_CardinalityType
<1>4. Len(b.active) \in Nat
  BY <1>1, LenProperties
<1>5. Size(b.heap) \in Nat
  BY <1>1, HeapFacts
<1> QED
  BY <1>1, <1>2, <1>3, <1>4, <1>5

\* Each list operator keeps the lists and the counter in agreement when it is called as
\* the code calls it: insert for what is not on the list, remove for what is.
LEMMA WatchBase ==
  ASSUME NEW b, IsBase(b), NEW e \in IO, e \notin b.inserted, NEW r, r = Watch(b, e)
  PROVE  /\ IsBase(r) /\ SameBut(b, r) /\ r.inserted = b.inserted \cup {e}
         /\ \A x \in Events : IsActive(r, x) <=> IsActive(b, x)
         /\ \A x \in Events : Scheduled(r, x) <=> Scheduled(b, x)
<1>1. Cardinality(b.inserted \cup {e}) = Cardinality(b.inserted) + 1
  BY BaseFields, FS_AddElement
<1>2. b.inserted \cup {e} \in Watched /\ b.count + 1 \in Int
  BY BaseFields DEF Watched
<1>3. IsRecord(r) /\ SameBut(b, r) /\ r.inserted = b.inserted \cup {e}
      /\ r.count = b.count + 1 /\ r.active = b.active /\ r.heap = b.heap
  BY <1>2, WatchFields DEF IsBase
<1>4. IsBase(r)
  <2>1. /\ b.count = Cardinality(b.inserted) + Len(b.active) + Size(b.heap)
        /\ Cardinality(b.inserted) \in Nat /\ Len(b.active) \in Nat /\ Size(b.heap) \in Nat
        /\ IsInjective(b.active) /\ IsHeap(b.heap, Events, b.timeout)
    BY BaseFields
  <2>2. r.count = Cardinality(r.inserted) + Len(r.active) + Size(r.heap)
    BY <1>1, <1>3, <2>1
  <2> QED
    BY <1>1, <1>3, <2>1, <2>2 DEF IsBase, SameBut
<1> QED
  BY <1>3, <1>4 DEF IsActive, Scheduled

LEMMA UnwatchBase ==
  ASSUME NEW b, IsBase(b), NEW e \in b.inserted, NEW r, r = Unwatch(b, e)
  PROVE  /\ IsBase(r) /\ SameBut(b, r) /\ r.inserted = b.inserted \ {e}
         /\ \A x \in Events : IsActive(r, x) <=> IsActive(b, x)
         /\ \A x \in Events : Scheduled(r, x) <=> Scheduled(b, x)
<1>1. Cardinality(b.inserted \ {e}) = Cardinality(b.inserted) - 1
  BY BaseFields, FS_RemoveElement
<1>2. b.inserted \ {e} \in Watched /\ b.count - 1 \in Int
  BY BaseFields DEF Watched
<1>3. IsRecord(r) /\ SameBut(b, r) /\ r.inserted = b.inserted \ {e}
      /\ r.count = b.count - 1 /\ r.active = b.active /\ r.heap = b.heap
  BY <1>2, UnwatchFields DEF IsBase
<1>4. IsBase(r)
  <2>1. /\ b.count = Cardinality(b.inserted) + Len(b.active) + Size(b.heap)
        /\ Cardinality(b.inserted) \in Nat /\ Len(b.active) \in Nat /\ Size(b.heap) \in Nat
        /\ IsInjective(b.active) /\ IsHeap(b.heap, Events, b.timeout)
    BY BaseFields
  <2>2. r.count = Cardinality(r.inserted) + Len(r.active) + Size(r.heap)
    BY <1>1, <1>3, <2>1
  <2> QED
    BY <1>1, <1>3, <2>1, <2>2 DEF IsBase, SameBut
<1> QED
  BY <1>3, <1>4 DEF IsActive, Scheduled

LEMMA ActivateBase ==
  ASSUME NEW b, IsBase(b), NEW e \in Events, ~IsActive(b, e), NEW r, r = Activate(b, e)
  PROVE  /\ IsBase(r) /\ SameBut(b, r) /\ r.inserted = b.inserted
         /\ \A x \in Events : IsActive(r, x) <=> IsActive(b, x) \/ x = e
         /\ \A x \in Events : Scheduled(r, x) <=> Scheduled(b, x)
<1> DEFINE a == Append(b.active, e)
<1>0. b.active \in Seq(Events) /\ IsInjective(b.active) /\ ~Contains(b.active, e)
  BY BaseFields DEF IsActive
<1>1. /\ a \in Seq(Events) /\ IsInjective(a) /\ Len(a) = Len(b.active) + 1
      /\ \A x : Contains(a, x) <=> Contains(b.active, x) \/ x = e
  <2> DEFINE s == b.active
  <2>1. s \in Seq(Events) /\ IsInjective(s) /\ ~Contains(s, e) /\ a = Append(s, e)
    BY <1>0
  <2> HIDE DEF s, a
  <2>2. /\ a \in Seq(Events) /\ IsInjective(a) /\ Len(a) = Len(s) + 1
        /\ \A x : Contains(a, x) <=> Contains(s, x) \/ x = e
    BY <2>1, AppendQueue
  <2> QED
    BY <2>2 DEF s
<1>2. Append(b.active, e) \in Queues /\ b.count + 1 \in Int
  BY BaseFields, <1>1 DEF Queues
<1>3. IsRecord(r) /\ SameBut(b, r) /\ r.inserted = b.inserted
      /\ r.count = b.count + 1 /\ r.active = a /\ r.heap = b.heap
  BY <1>2, ActivateFields DEF IsBase
<1>4. IsBase(r)
  <2>1. /\ b.count = Cardinality(b.inserted) + Len(b.active) + Size(b.heap)
        /\ Cardinality(b.inserted) \in Nat /\ Len(b.active) \in Nat /\ Size(b.heap) \in Nat
        /\ IsInjective(b.active) /\ IsHeap(b.heap, Events, b.timeout)
    BY BaseFields
  <2>2. r.count = Cardinality(r.inserted) + Len(r.active) + Size(r.heap)
    BY <1>1, <1>3, <2>1
  <2> QED
    BY <1>1, <1>3, <2>1, <2>2 DEF IsBase, SameBut
<1> QED
  BY <1>3, <1>4, <1>1 DEF IsActive, Scheduled

LEMMA DeactivateBase ==
  ASSUME NEW b, IsBase(b), NEW e \in Events, IsActive(b, e), NEW r, r = Deactivate(b, e)
  PROVE  /\ IsBase(r) /\ SameBut(b, r) /\ r.inserted = b.inserted
         /\ \A x \in Events : IsActive(r, x) <=> IsActive(b, x) /\ x # e
         /\ \A x \in Events : Scheduled(r, x) <=> Scheduled(b, x)
<1> DEFINE a == Without(b.active, e)
<1>0. b.active \in Seq(Events) /\ IsInjective(b.active) /\ Contains(b.active, e)
  BY BaseFields DEF IsActive
<1>1. /\ a \in Seq(Events) /\ IsInjective(a) /\ Len(a) = Len(b.active) - 1
      /\ \A x : Contains(a, x) <=> Contains(b.active, x) /\ x # e
  BY <1>0, WithoutQueue
<1>2. Without(b.active, e) \in Queues /\ b.count - 1 \in Int
  BY BaseFields, <1>1 DEF Queues
<1>3. IsRecord(r) /\ SameBut(b, r) /\ r.inserted = b.inserted
      /\ r.count = b.count - 1 /\ r.active = a /\ r.heap = b.heap
  BY <1>2, DeactivateFields DEF IsBase
<1>4. IsBase(r)
  <2>1. /\ b.count = Cardinality(b.inserted) + Len(b.active) + Size(b.heap)
        /\ Cardinality(b.inserted) \in Nat /\ Len(b.active) \in Nat /\ Size(b.heap) \in Nat
        /\ IsInjective(b.active) /\ IsHeap(b.heap, Events, b.timeout)
    BY BaseFields
  <2>2. r.count = Cardinality(r.inserted) + Len(r.active) + Size(r.heap)
    BY <1>1, <1>3, <2>1
  <2> QED
    BY <1>1, <1>3, <2>1, <2>2 DEF IsBase, SameBut
<1> QED
  BY <1>3, <1>4, <1>1 DEF IsActive, Scheduled

LEMMA UnscheduleBase ==
  ASSUME NEW b, IsBase(b), NEW e \in Events, Scheduled(b, e), NEW r, r = Unschedule(b, e)
  PROVE  /\ IsBase(r) /\ SameBut(b, r) /\ r.inserted = b.inserted
         /\ \A x \in Events : IsActive(r, x) <=> IsActive(b, x)
         /\ \A x \in Events : Scheduled(r, x) <=> Scheduled(b, x) /\ x # e
<1> DEFINE h == Erase(b.heap, e, b.timeout)
<1>0. b.timeout \in [Events -> Nat] /\ IsHeap(b.heap, Events, b.timeout) /\ InHeap(b.heap, e)
  BY BaseFields DEF Scheduled
<1>1. /\ IsHeap(h, Events, b.timeout) /\ Size(h) = Size(b.heap) - 1
      /\ \A x \in Events : InHeap(h, x) <=> InHeap(b.heap, x) /\ x # e
  BY <1>0, EraseKeepsHeap
<1>2. h \in Heaps /\ b.count - 1 \in Int
  BY BaseFields, <1>1 DEF IsHeap, Heaps
<1>3. IsRecord(r) /\ SameBut(b, r) /\ r.inserted = b.inserted
      /\ r.count = b.count - 1 /\ r.active = b.active /\ r.heap = h
  BY <1>2, UnscheduleFields DEF IsBase
<1>4. IsBase(r)
  <2>1. /\ b.count = Cardinality(b.inserted) + Len(b.active) + Size(b.heap)
        /\ Cardinality(b.inserted) \in Nat /\ Len(b.active) \in Nat /\ Size(b.heap) \in Nat
        /\ IsInjective(b.active) /\ IsHeap(b.heap, Events, b.timeout)
    BY BaseFields
  <2>2. r.count = Cardinality(r.inserted) + Len(r.active) + Size(r.heap)
    BY <1>1, <1>3, <2>1
  <2> QED
    BY <1>1, <1>3, <2>1, <2>2 DEF IsBase, SameBut
<1> QED
  BY <1>3, <1>4, <1>1 DEF IsActive, Scheduled

LEMMA ScheduleBase ==
  ASSUME NEW b, IsBase(b), NEW e \in Events, ~Scheduled(b, e), NEW t \in Nat,
         NEW r, r = Schedule(b, e, t)
  PROVE  /\ IsBase(r) /\ r.interval = b.interval /\ r.res = b.res
         /\ r.inserted = b.inserted /\ r.timeout = [b.timeout EXCEPT ![e] = t]
         /\ \A x \in Events : IsActive(r, x) <=> IsActive(b, x)
         /\ \A x \in Events : Scheduled(r, x) <=> Scheduled(b, x) \/ x = e
<1> DEFINE key == [b.timeout EXCEPT ![e] = t]
           h == Push(b.heap, e, key)
<1>0. /\ key \in [Events -> Nat] /\ key \in Times /\ IsHeap(b.heap, Events, key)
      /\ ~InHeap(b.heap, e) /\ key = [b.timeout EXCEPT ![e] = t]
  <2>1. b.timeout \in [Events -> Nat] /\ IsHeap(b.heap, Events, b.timeout) /\ ~InHeap(b.heap, e)
    BY BaseFields DEF Scheduled
  <2> QED
    BY <2>1, RekeyHeap DEF Times
<1> HIDE DEF key
<1>1. /\ IsHeap(h, Events, key) /\ Size(h) = Size(b.heap) + 1
      /\ \A x \in Events : InHeap(h, x) <=> InHeap(b.heap, x) \/ x = e
  BY <1>0, PushKeepsHeap
<1>2. h \in Heaps /\ b.count + 1 \in Int
  BY <1>1, BaseFields DEF IsHeap, Heaps
<1>3. /\ IsRecord(r) /\ r.interval = b.interval /\ r.res = b.res /\ r.inserted = b.inserted
      /\ r.count = b.count + 1 /\ r.active = b.active /\ r.timeout = key /\ r.heap = h
  BY <1>0, <1>2, ScheduleFields DEF IsBase
<1>4. IsBase(r)
  <2>1. /\ b.count = Cardinality(b.inserted) + Len(b.active) + Size(b.heap)
        /\ Cardinality(b.inserted) \in Nat /\ Len(b.active) \in Nat /\ Size(b.heap) \in Nat
        /\ IsInjective(b.active)
    BY BaseFields
  <2>2. r.count = Cardinality(r.inserted) + Len(r.active) + Size(r.heap)
    BY <1>1, <1>3, <2>1
  <2> QED
    BY <1>1, <1>3, <2>1, <2>2 DEF IsBase
<1> QED
  BY <1>0, <1>1, <1>3, <1>4 DEF IsActive, Scheduled

\* What event_add, event_del and event_active do to any lists that agree.
LEMMA AddForeverBase ==
  ASSUME NEW b, IsBase(b), NEW e \in Events, NEW r, r = AddForever(b, e)
  PROVE  /\ IsBase(r) /\ SameBut(b, r)
         /\ r.inserted = IF e \in IO /\ ~IsActive(b, e) THEN b.inserted \cup {e} ELSE b.inserted
         /\ \A x \in Events : IsActive(r, x) <=> IsActive(b, x)
         /\ \A x \in Events : Scheduled(r, x) <=> Scheduled(b, x)
<1>1. CASE e \in IO /\ e \notin b.inserted /\ ~IsActive(b, e)
  <2>1. r = Watch(b, e)
    BY <1>1 DEF AddForever
  <2> QED
    BY <1>1, <2>1, WatchBase
<1>2. CASE ~(e \in IO /\ e \notin b.inserted /\ ~IsActive(b, e))
  <2>1. r = b
    BY <1>2 DEF AddForever
  <2>2. e \in IO /\ ~IsActive(b, e) => b.inserted = b.inserted \cup {e}
    BY <1>2
  <2> QED
    BY <2>1, <2>2 DEF SameBut
<1> QED
  BY <1>1, <1>2

\* Take e out of the heap if it is there.
LEMMA UnscheduledBase ==
  ASSUME NEW b, IsBase(b), NEW e \in Events,
         NEW r, r = IF InHeap(b.heap, e) THEN Unschedule(b, e) ELSE b
  PROVE  /\ IsBase(r) /\ SameBut(b, r) /\ r.inserted = b.inserted
         /\ \A x \in Events : IsActive(r, x) <=> IsActive(b, x)
         /\ \A x \in Events : Scheduled(r, x) <=> Scheduled(b, x) /\ x # e
<1>1. CASE Scheduled(b, e)
  <2>1. r = Unschedule(b, e)
    BY <1>1 DEF Scheduled
  <2> QED
    BY <1>1, <2>1, UnscheduleBase
<1>2. CASE ~Scheduled(b, e)
  <2>1. r = b
    BY <1>2 DEF Scheduled
  <2> QED
    BY <1>2, <2>1 DEF SameBut
<1> QED
  BY <1>1, <1>2

\* event_add with a timeout: an event that is active because of the old one is not
\* active any more.
LEMMA AddUntilBase ==
  ASSUME NEW b, IsBase(b), NEW e \in Events, NEW t \in Nat, NEW r, r = AddUntil(b, e, t)
  PROVE  /\ IsBase(r) /\ r.interval = b.interval /\ r.res = b.res
         /\ r.timeout = [b.timeout EXCEPT ![e] = t]
         /\ r.inserted = IF e \in IO /\ ~IsActive(b, e) THEN b.inserted \cup {e} ELSE b.inserted
         /\ \A x \in Events : IsActive(r, x)
                                <=> IsActive(b, x) /\ ~(x = e /\ "timeout" \in b.res[e])
         /\ \A x \in Events : Scheduled(r, x) <=> Scheduled(b, x) \/ x = e
<1> DEFINE b1 == AddForever(b, e)
           b2 == IF InHeap(b1.heap, e) THEN Unschedule(b1, e) ELSE b1
           b3 == IF IsActive(b2, e) /\ "timeout" \in b2.res[e] THEN Deactivate(b2, e) ELSE b2
<1>1. r = Schedule(b3, e, t)
  BY DEF AddUntil, AddForever
<1>2. /\ IsBase(b1) /\ SameBut(b, b1)
      /\ b1.inserted = IF e \in IO /\ ~IsActive(b, e) THEN b.inserted \cup {e} ELSE b.inserted
      /\ \A x \in Events : IsActive(b1, x) <=> IsActive(b, x)
      /\ \A x \in Events : Scheduled(b1, x) <=> Scheduled(b, x)
  BY AddForeverBase
<1> HIDE DEF b1
<1>3. /\ IsBase(b2) /\ SameBut(b1, b2) /\ b2.inserted = b1.inserted
      /\ \A x \in Events : IsActive(b2, x) <=> IsActive(b1, x)
      /\ \A x \in Events : Scheduled(b2, x) <=> Scheduled(b1, x) /\ x # e
  BY <1>2, UnscheduledBase
<1> HIDE DEF b2
<1>4. /\ IsBase(b3) /\ SameBut(b2, b3) /\ b3.inserted = b2.inserted
      /\ \A x \in Events : IsActive(b3, x)
                             <=> IsActive(b2, x) /\ ~(x = e /\ "timeout" \in b2.res[e])
      /\ \A x \in Events : Scheduled(b3, x) <=> Scheduled(b2, x)
  <2>1. CASE IsActive(b2, e) /\ "timeout" \in b2.res[e]
    <3>1. b3 = Deactivate(b2, e)
      BY <2>1
    <3> HIDE DEF b3
    <3>2. /\ IsBase(b3) /\ SameBut(b2, b3) /\ b3.inserted = b2.inserted
          /\ \A x \in Events : IsActive(b3, x) <=> IsActive(b2, x) /\ x # e
          /\ \A x \in Events : Scheduled(b3, x) <=> Scheduled(b2, x)
      BY <1>3, <2>1, <3>1, DeactivateBase
    <3> QED
      BY <2>1, <3>2
  <2>2. CASE ~(IsActive(b2, e) /\ "timeout" \in b2.res[e])
    <3>1. b3 = b2
      BY <2>2
    <3> QED
      BY <1>3, <2>2, <3>1 DEF SameBut
  <2> QED
    BY <2>1, <2>2
<1> HIDE DEF b3
<1>5. ~Scheduled(b3, e)
  BY <1>3, <1>4
<1>6. /\ IsBase(r) /\ r.interval = b3.interval /\ r.res = b3.res
      /\ r.inserted = b3.inserted /\ r.timeout = [b3.timeout EXCEPT ![e] = t]
      /\ \A x \in Events : IsActive(r, x) <=> IsActive(b3, x)
      /\ \A x \in Events : Scheduled(r, x) <=> Scheduled(b3, x) \/ x = e
  BY <1>1, <1>4, <1>5, ScheduleBase
<1>7. b3.interval = b.interval /\ b3.res = b.res /\ b3.timeout = b.timeout /\ b2.res = b.res
  BY <1>2, <1>3, <1>4 DEF SameBut
<1>8. \A x \in Events : IsActive(r, x) <=> IsActive(b, x) /\ ~(x = e /\ "timeout" \in b.res[e])
  BY <1>2, <1>3, <1>4, <1>6, <1>7
<1>9. \A x \in Events : Scheduled(r, x) <=> Scheduled(b, x) \/ x = e
  BY <1>2, <1>3, <1>4, <1>6
<1> QED
  BY <1>2, <1>3, <1>4, <1>6, <1>7, <1>8, <1>9

\* event_del: the event is on no list.
LEMMA DelInternalBase ==
  ASSUME NEW b, IsBase(b), NEW e \in Events, NEW r, r = DelInternal(b, e)
  PROVE  /\ IsBase(r) /\ SameBut(b, r) /\ r.inserted = b.inserted \ {e}
         /\ \A x \in Events : IsActive(r, x) <=> IsActive(b, x) /\ x # e
         /\ \A x \in Events : Scheduled(r, x) <=> Scheduled(b, x) /\ x # e
<1> DEFINE b1 == IF InHeap(b.heap, e) THEN Unschedule(b, e) ELSE b
           b2 == IF IsActive(b1, e) THEN Deactivate(b1, e) ELSE b1
<1>1. r = IF e \in b2.inserted THEN Unwatch(b2, e) ELSE b2
  BY DEF DelInternal
<1>2. /\ IsBase(b1) /\ SameBut(b, b1) /\ b1.inserted = b.inserted
      /\ \A x \in Events : IsActive(b1, x) <=> IsActive(b, x)
      /\ \A x \in Events : Scheduled(b1, x) <=> Scheduled(b, x) /\ x # e
  BY UnscheduledBase
<1> HIDE DEF b1
<1>3. /\ IsBase(b2) /\ SameBut(b1, b2) /\ b2.inserted = b1.inserted
      /\ \A x \in Events : IsActive(b2, x) <=> IsActive(b1, x) /\ x # e
      /\ \A x \in Events : Scheduled(b2, x) <=> Scheduled(b1, x)
  <2>1. CASE IsActive(b1, e)
    <3>1. b2 = Deactivate(b1, e)
      BY <2>1
    <3> HIDE DEF b2
    <3> QED
      BY <1>2, <2>1, <3>1, DeactivateBase
  <2>2. CASE ~IsActive(b1, e)
    <3>1. b2 = b1
      BY <2>2
    <3> QED
      BY <1>2, <2>2, <3>1 DEF SameBut
  <2> QED
    BY <2>1, <2>2
<1> HIDE DEF b2
<1>4. /\ IsBase(r) /\ SameBut(b2, r) /\ r.inserted = b2.inserted \ {e}
      /\ \A x \in Events : IsActive(r, x) <=> IsActive(b2, x)
      /\ \A x \in Events : Scheduled(r, x) <=> Scheduled(b2, x)
  <2>1. CASE e \in b2.inserted
    <3>1. r = Unwatch(b2, e)
      BY <1>1, <2>1
    <3> QED
      BY <1>3, <2>1, <3>1, UnwatchBase
  <2>2. CASE e \notin b2.inserted
    <3>1. r = b2 /\ b2.inserted = b2.inserted \ {e}
      BY <1>1, <2>2
    <3> QED
      BY <1>3, <3>1 DEF SameBut
  <2> QED
    BY <2>1, <2>2
<1>5. SameBut(b, r)
  BY <1>2, <1>3, <1>4 DEF SameBut
<1> QED
  BY <1>2, <1>3, <1>4, <1>5

\* What a step writes that is not on a list.
LEMMA IntervalFields ==
  ASSUME NEW b, IsRecord(b), NEW v \in Periods, NEW r, r = [b EXCEPT !.interval = v]
  PROVE  /\ IsRecord(r) /\ r.inserted = b.inserted /\ r.active = b.active /\ r.heap = b.heap
         /\ r.timeout = b.timeout /\ r.res = b.res /\ r.count = b.count /\ r.interval = v
BY DEF IsRecord

\* event_active_nolock of an event that is not active.
LEMMA ActiveNolockBase ==
  ASSUME NEW b, IsBase(b), NEW e \in Events, ~IsActive(b, e), NEW why \in {"io", "timeout"},
         NEW r, r = ActiveNolock(b, e, why)
  PROVE  /\ IsBase(r) /\ r.timeout = b.timeout /\ r.interval = b.interval
         /\ r.inserted = b.inserted /\ r.res = [b.res EXCEPT ![e] = {why}]
         /\ \A x \in Events : IsActive(r, x) <=> IsActive(b, x) \/ x = e
         /\ \A x \in Events : Scheduled(r, x) <=> Scheduled(b, x)
<1> DEFINE s == [b.res EXCEPT ![e] = {why}]
           g == [b EXCEPT !.res[e] = {why}]
<1>1. r = Activate(g, e)
  BY DEF ActiveNolock
<1>2. s \in Reasons
  BY BaseFields DEF Reasons
<1>3. s = [b.res EXCEPT ![e] = {why}] /\ g = [b EXCEPT !.res[e] = {why}]
  OBVIOUS
<1> HIDE DEF s, g
<1>4. /\ IsRecord(g) /\ g.inserted = b.inserted /\ g.active = b.active /\ g.heap = b.heap
      /\ g.timeout = b.timeout /\ g.interval = b.interval /\ g.count = b.count /\ g.res = s
  BY <1>2, <1>3 DEF IsBase, IsRecord
<1>5. IsBase(g) /\ \A x \in Events : IsActive(g, x) <=> IsActive(b, x)
  BY <1>4 DEF IsBase, IsActive
<1>6. \A x \in Events : Scheduled(g, x) <=> Scheduled(b, x)
  BY <1>4 DEF Scheduled
<1>7. /\ IsBase(r) /\ SameBut(g, r) /\ r.inserted = g.inserted
      /\ \A x \in Events : IsActive(r, x) <=> IsActive(g, x) \/ x = e
      /\ \A x \in Events : Scheduled(r, x) <=> Scheduled(g, x)
  BY <1>1, <1>5, ActivateBase
<1> QED
  BY <1>3, <1>4, <1>5, <1>6, <1>7 DEF SameBut

\* A persistent event remembers its period.
LEMMA RememberBase ==
  ASSUME NEW b, IsBase(b), NEW e \in Events, NEW i \in Intervals, NEW r, r = Remember(b, e, i)
  PROVE  /\ IsBase(r) /\ r.inserted = b.inserted /\ r.timeout = b.timeout /\ r.res = b.res
         /\ r.interval = IF e \in Persist THEN [b.interval EXCEPT ![e] = i] ELSE b.interval
         /\ \A x \in Events : IsActive(r, x) <=> IsActive(b, x)
         /\ \A x \in Events : Scheduled(r, x) <=> Scheduled(b, x)
<1>1. CASE e \in Persist
  <2> DEFINE v == [b.interval EXCEPT ![e] = i]
  <2>1. v \in Periods
    BY BaseFields DEF Periods
  <2>2. r = [b EXCEPT !.interval = v]
    BY <1>1 DEF Remember
  <2>3. v = [b.interval EXCEPT ![e] = i]
    OBVIOUS
  <2> HIDE DEF v
  <2>4. /\ IsRecord(r) /\ r.inserted = b.inserted /\ r.active = b.active /\ r.heap = b.heap
        /\ r.timeout = b.timeout /\ r.res = b.res /\ r.count = b.count /\ r.interval = v
    BY <2>1, <2>2, IntervalFields DEF IsBase
  <2>5. IsBase(r)
    BY <2>4 DEF IsBase
  <2> QED
    BY <1>1, <2>3, <2>4, <2>5 DEF IsActive, Scheduled
<1>2. CASE e \notin Persist
  <2>1. r = b
    BY <1>2 DEF Remember
  <2> QED
    BY <1>2, <2>1
<1> QED
  BY <1>1, <1>2

-----------------------------------------------------------------------------
(* What each step does to the lists                                        *)

\* TypeOK's conjuncts about the lists.
Lists ==
  /\ inserted \subseteq IO
  /\ active \in Seq(Events) /\ IsInjective(active)
  /\ IsHeap(heap, Events, timeout)
  /\ timeout \in [Events -> Nat] /\ interval \in [Events -> Intervals \cup {0}]
  /\ res \in [Events -> SUBSET {"io", "timeout"}]
  /\ eventCount = Cardinality(inserted) + Len(active) + Size(heap)

\* The callback and the queue that the loop's place promises.
Stages ==
  /\ loop = "callback" <=> current # NoEvent
  /\ loop = "active" => active # <<>>

\* Why an event is active: its socket, which is still watched, or its timeout,
\* which has passed and which it was taken off the other lists for.
Causes ==
  \A e \in Events :
    /\ InHeap(heap, e) => timeout[e] >= 1
    /\ Contains(active, e) =>
         \/ res[e] = {"io"} /\ e \in inserted
         \/ /\ res[e] = {"timeout"} /\ e \notin inserted /\ ~InHeap(heap, e)
            /\ 1 <= timeout[e] /\ timeout[e] <= clock

LoopInv == TypeOK /\ Stages /\ Causes

\* The lists' part of the type invariant.
LEMMA TypeOKLists == TypeOK => Lists
BY DEF TypeOK, Lists

\* gettime returns a time that has been.
LEMMA ClockFacts ==
  ASSUME TypeOK
  PROVE  Now \in 1..clock /\ clock \in 1..MaxClock /\ Now \in Nat /\ clock \in Nat
BY EventLoopAssumption DEF TypeOK, Now

\* The program's lists are a base; what becomes of a base becomes of them.
LEMMA BaseView ==
  ASSUME Lists
  PROVE  /\ IsBase(Base) /\ Base.inserted = inserted /\ Base.timeout = timeout
         /\ Base.interval = interval /\ Base.res = res
         /\ \A x \in Events : IsActive(Base, x) <=> Contains(active, x)
         /\ \A x \in Events : Scheduled(Base, x) <=> InHeap(heap, x)
<1>1. /\ Base.inserted = inserted /\ Base.active = active /\ Base.heap = heap
      /\ Base.timeout = timeout /\ Base.interval = interval /\ Base.res = res
      /\ Base.count = eventCount
  BY DEF Base
<1>2. /\ inserted \in Watched /\ active \in Queues /\ heap \in Heaps /\ timeout \in Times
      /\ interval \in Periods /\ res \in Reasons /\ eventCount \in Int
  <2>1. Cardinality(inserted) \in Nat
    BY EventLoopAssumption, FS_Subset, FS_CardinalityType DEF Lists
  <2>2. Len(active) \in Nat /\ Size(heap) \in Nat
    BY HeapFacts, LenProperties DEF Lists
  <2> QED
    BY <2>1, <2>2 DEF Lists, Watched, Queues, Heaps, Times, Periods, Reasons, IsHeap
<1>3. IsRecord(Base)
  BY <1>2 DEF IsRecord, Base
<1>4. IsBase(Base)
  BY <1>1, <1>3 DEF IsBase, Lists
<1> QED
  BY <1>1, <1>4 DEF IsActive, Scheduled

LEMMA BecomesView ==
  ASSUME NEW r, IsBase(r), Becomes(r)
  PROVE  /\ Lists' /\ inserted' = r.inserted /\ timeout' = r.timeout
         /\ interval' = r.interval /\ res' = r.res
         /\ \A x \in Events : Contains(active', x) <=> IsActive(r, x)
         /\ \A x \in Events : InHeap(heap', x) <=> Scheduled(r, x)
<1>1. /\ inserted' = r.inserted /\ active' = r.active /\ heap' = r.heap
      /\ timeout' = r.timeout /\ interval' = r.interval /\ res' = r.res /\ eventCount' = r.count
  BY DEF Becomes
<1>2. Lists'
  BY <1>1, BaseFields DEF Lists
<1> QED
  BY <1>1, <1>2 DEF IsActive, Scheduled

\* What each step does to the lists.
LEMMA DelEffect ==
  ASSUME Lists, NEW e \in Events, Becomes(DelInternal(Base, e))
  PROVE  /\ Lists' /\ inserted' = inserted \ {e} /\ timeout' = timeout
         /\ interval' = interval /\ res' = res
         /\ \A x \in Events : Contains(active', x) <=> Contains(active, x) /\ x # e
         /\ \A x \in Events : InHeap(heap', x) <=> InHeap(heap, x) /\ x # e
<1> DEFINE b == Base  r == DelInternal(b, e)
<1>1. /\ IsBase(b) /\ b.inserted = inserted /\ b.timeout = timeout
      /\ b.interval = interval /\ b.res = res
      /\ \A x \in Events : IsActive(b, x) <=> Contains(active, x)
      /\ \A x \in Events : Scheduled(b, x) <=> InHeap(heap, x)
  BY BaseView
<1>2. Becomes(r)
  OBVIOUS
<1> HIDE DEF b
<1>3. /\ IsBase(r) /\ SameBut(b, r) /\ r.inserted = b.inserted \ {e}
      /\ \A x \in Events : IsActive(r, x) <=> IsActive(b, x) /\ x # e
      /\ \A x \in Events : Scheduled(r, x) <=> Scheduled(b, x) /\ x # e
  BY <1>1, DelInternalBase
<1> HIDE DEF r
<1>4. /\ Lists' /\ inserted' = r.inserted /\ timeout' = r.timeout
      /\ interval' = r.interval /\ res' = r.res
      /\ \A x \in Events : Contains(active', x) <=> IsActive(r, x)
      /\ \A x \in Events : InHeap(heap', x) <=> Scheduled(r, x)
  BY <1>2, <1>3, BecomesView
<1> QED
  BY <1>1, <1>3, <1>4 DEF SameBut

\* event_add without a timeout watches the event, unless it is active.
LEMMA AddForeverEffect ==
  ASSUME Lists, NEW e \in Events, Becomes(AddForever(Base, e))
  PROVE  /\ Lists' /\ timeout' = timeout /\ interval' = interval /\ res' = res
         /\ inserted' = IF e \in IO /\ ~Contains(active, e) THEN inserted \cup {e} ELSE inserted
         /\ \A x \in Events : Contains(active', x) <=> Contains(active, x)
         /\ \A x \in Events : InHeap(heap', x) <=> InHeap(heap, x)
<1> DEFINE b == Base  r == AddForever(b, e)
<1>1. /\ IsBase(b) /\ b.inserted = inserted /\ b.timeout = timeout
      /\ b.interval = interval /\ b.res = res
      /\ \A x \in Events : IsActive(b, x) <=> Contains(active, x)
      /\ \A x \in Events : Scheduled(b, x) <=> InHeap(heap, x)
  BY BaseView
<1>2. Becomes(r)
  OBVIOUS
<1> HIDE DEF b
<1>3. /\ IsBase(r) /\ SameBut(b, r)
      /\ r.inserted = IF e \in IO /\ ~IsActive(b, e) THEN b.inserted \cup {e} ELSE b.inserted
      /\ \A x \in Events : IsActive(r, x) <=> IsActive(b, x)
      /\ \A x \in Events : Scheduled(r, x) <=> Scheduled(b, x)
  BY <1>1, AddForeverBase
<1> HIDE DEF r
<1>4. /\ Lists' /\ inserted' = r.inserted /\ timeout' = r.timeout
      /\ interval' = r.interval /\ res' = r.res
      /\ \A x \in Events : Contains(active', x) <=> IsActive(r, x)
      /\ \A x \in Events : InHeap(heap', x) <=> Scheduled(r, x)
  BY <1>2, <1>3, BecomesView
<1> QED
  BY <1>1, <1>3, <1>4 DEF SameBut

\* event_add with a timeout.
LEMMA AddUntilEffect ==
  ASSUME Lists, NEW e \in Events, NEW i \in Intervals, NEW t \in Nat,
         Becomes(Remember(AddUntil(Base, e, t), e, i))
  PROVE  /\ Lists' /\ res' = res /\ timeout' = [timeout EXCEPT ![e] = t]
         /\ interval' = IF e \in Persist THEN [interval EXCEPT ![e] = i] ELSE interval
         /\ inserted' = IF e \in IO /\ ~Contains(active, e) THEN inserted \cup {e} ELSE inserted
         /\ \A x \in Events : Contains(active', x)
                                <=> Contains(active, x) /\ ~(x = e /\ "timeout" \in res[e])
         /\ \A x \in Events : InHeap(heap', x) <=> InHeap(heap, x) \/ x = e
<1> DEFINE b == Base  c == AddUntil(b, e, t)  r == Remember(c, e, i)
<1>1. /\ IsBase(b) /\ b.inserted = inserted /\ b.timeout = timeout
      /\ b.interval = interval /\ b.res = res
      /\ \A x \in Events : IsActive(b, x) <=> Contains(active, x)
      /\ \A x \in Events : Scheduled(b, x) <=> InHeap(heap, x)
  BY BaseView
<1>2. Becomes(r)
  OBVIOUS
<1> HIDE DEF b
<1>3. /\ IsBase(c) /\ c.interval = b.interval /\ c.res = b.res
      /\ c.timeout = [b.timeout EXCEPT ![e] = t]
      /\ c.inserted = IF e \in IO /\ ~IsActive(b, e) THEN b.inserted \cup {e} ELSE b.inserted
      /\ \A x \in Events : IsActive(c, x)
                             <=> IsActive(b, x) /\ ~(x = e /\ "timeout" \in b.res[e])
      /\ \A x \in Events : Scheduled(c, x) <=> Scheduled(b, x) \/ x = e
  BY <1>1, AddUntilBase
<1> HIDE DEF c
<1>4. /\ IsBase(r) /\ r.inserted = c.inserted /\ r.timeout = c.timeout /\ r.res = c.res
      /\ r.interval = IF e \in Persist THEN [c.interval EXCEPT ![e] = i] ELSE c.interval
      /\ \A x \in Events : IsActive(r, x) <=> IsActive(c, x)
      /\ \A x \in Events : Scheduled(r, x) <=> Scheduled(c, x)
  BY <1>3, RememberBase
<1> HIDE DEF r
<1>5. /\ Lists' /\ inserted' = r.inserted /\ timeout' = r.timeout
      /\ interval' = r.interval /\ res' = r.res
      /\ \A x \in Events : Contains(active', x) <=> IsActive(r, x)
      /\ \A x \in Events : InHeap(heap', x) <=> Scheduled(r, x)
  BY <1>2, <1>4, BecomesView
<1> QED
  BY <1>1, <1>3, <1>4, <1>5

\* timeout_process: the event is active, for its timeout, and on no other list.
LEMMA ExpireEffect ==
  ASSUME Lists, NEW e \in Events, Becomes(ActiveNolock(DelInternal(Base, e), e, "timeout"))
  PROVE  /\ Lists' /\ inserted' = inserted \ {e} /\ timeout' = timeout
         /\ interval' = interval /\ res' = [res EXCEPT ![e] = {"timeout"}]
         /\ \A x \in Events : Contains(active', x) <=> Contains(active, x) \/ x = e
         /\ \A x \in Events : InHeap(heap', x) <=> InHeap(heap, x) /\ x # e
<1> DEFINE b == Base  c == DelInternal(b, e)  r == ActiveNolock(c, e, "timeout")
<1>1. /\ IsBase(b) /\ b.inserted = inserted /\ b.timeout = timeout
      /\ b.interval = interval /\ b.res = res
      /\ \A x \in Events : IsActive(b, x) <=> Contains(active, x)
      /\ \A x \in Events : Scheduled(b, x) <=> InHeap(heap, x)
  BY BaseView
<1>2. Becomes(r)
  OBVIOUS
<1> HIDE DEF b
<1>3. /\ IsBase(c) /\ SameBut(b, c) /\ c.inserted = b.inserted \ {e}
      /\ \A x \in Events : IsActive(c, x) <=> IsActive(b, x) /\ x # e
      /\ \A x \in Events : Scheduled(c, x) <=> Scheduled(b, x) /\ x # e
  BY <1>1, DelInternalBase
<1> HIDE DEF c
<1>4. /\ IsBase(r) /\ r.timeout = c.timeout /\ r.interval = c.interval
      /\ r.inserted = c.inserted /\ r.res = [c.res EXCEPT ![e] = {"timeout"}]
      /\ \A x \in Events : IsActive(r, x) <=> IsActive(c, x) \/ x = e
      /\ \A x \in Events : Scheduled(r, x) <=> Scheduled(c, x)
  <2>1. ~IsActive(c, e) /\ "timeout" \in {"io", "timeout"}
    BY <1>3
  <2> QED
    BY <1>3, <2>1, ActiveNolockBase
<1> HIDE DEF r
<1>5. /\ Lists' /\ inserted' = r.inserted /\ timeout' = r.timeout
      /\ interval' = r.interval /\ res' = r.res
      /\ \A x \in Events : Contains(active', x) <=> IsActive(r, x)
      /\ \A x \in Events : InHeap(heap', x) <=> Scheduled(r, x)
  BY <1>2, <1>4, BecomesView
<1> QED
  BY <1>1, <1>3, <1>4, <1>5 DEF SameBut

\* A persistent event leaves the queue; one with a period starts it again.
LEMMA PersistEffect ==
  ASSUME Lists, Now \in Nat, NEW e \in Events, Contains(active, e),
         Becomes(PersistClosure(Deactivate(Base, e), e))
  PROVE  LET again == interval[e] # 0
             t == interval[e] + (IF "timeout" \in res[e] THEN timeout[e] ELSE Now)
         IN  /\ Lists' /\ interval' = interval /\ res' = res
             /\ timeout' = IF again THEN [timeout EXCEPT ![e] = t] ELSE timeout
             /\ inserted' = IF again /\ e \in IO THEN inserted \cup {e} ELSE inserted
             /\ \A x \in Events : Contains(active', x) <=> Contains(active, x) /\ x # e
             /\ \A x \in Events : InHeap(heap', x) <=> InHeap(heap, x) \/ (again /\ x = e)
<1> DEFINE b == Base  c == Deactivate(b, e)  r == PersistClosure(c, e)
           again == interval[e] # 0
           t == interval[e] + (IF "timeout" \in res[e] THEN timeout[e] ELSE Now)
<1>1. /\ IsBase(b) /\ b.inserted = inserted /\ b.timeout = timeout
      /\ b.interval = interval /\ b.res = res
      /\ \A x \in Events : IsActive(b, x) <=> Contains(active, x)
      /\ \A x \in Events : Scheduled(b, x) <=> InHeap(heap, x)
  BY BaseView
<1>2. Becomes(r)
  OBVIOUS
<1> HIDE DEF b
<1>3. /\ IsBase(c) /\ SameBut(b, c) /\ c.inserted = b.inserted
      /\ \A x \in Events : IsActive(c, x) <=> IsActive(b, x) /\ x # e
      /\ \A x \in Events : Scheduled(c, x) <=> Scheduled(b, x)
  BY <1>1, DeactivateBase
<1>4. c.interval = interval /\ c.res = res /\ c.timeout = timeout /\ c.inserted = inserted
  BY <1>1, <1>3 DEF SameBut
<1> HIDE DEF c
<1>5. interval[e] \in Nat /\ t \in Nat
  <2>1. interval[e] \in Nat /\ timeout[e] \in Nat
    <3>1. interval \in [Events -> Intervals \cup {0}] /\ timeout \in [Events -> Nat]
      BY DEF Lists
    <3>2. Intervals \subseteq Nat
      BY EventLoopAssumption
    <3>3. interval[e] \in Intervals \cup {0} /\ timeout[e] \in Nat
      BY <3>1
    <3> HIDE DEF t, again
    <3>4. interval[e] \in Intervals => interval[e] \in Nat
      BY <3>2
    <3> QED
      BY <3>3, <3>4
  <2> QED
    BY <2>1
<1>6. r = IF again THEN AddUntil(c, e, t) ELSE c
  BY <1>4 DEF PersistClosure
<1> HIDE DEF r, t
<1>7. /\ IsBase(r) /\ r.interval = interval /\ r.res = res
      /\ r.timeout = IF again THEN [timeout EXCEPT ![e] = t] ELSE timeout
      /\ r.inserted = IF again /\ e \in IO THEN inserted \cup {e} ELSE inserted
      /\ \A x \in Events : IsActive(r, x) <=> IsActive(c, x)
      /\ \A x \in Events : Scheduled(r, x) <=> Scheduled(c, x) \/ (again /\ x = e)
  <2>1. CASE again
    <3>1. r = AddUntil(c, e, t)
      BY <1>6, <2>1
    <3>2. /\ IsBase(r) /\ r.interval = c.interval /\ r.res = c.res
          /\ r.timeout = [c.timeout EXCEPT ![e] = t]
          /\ r.inserted = IF e \in IO /\ ~IsActive(c, e) THEN c.inserted \cup {e} ELSE c.inserted
          /\ \A x \in Events : IsActive(r, x)
                                 <=> IsActive(c, x) /\ ~(x = e /\ "timeout" \in c.res[e])
          /\ \A x \in Events : Scheduled(r, x) <=> Scheduled(c, x) \/ x = e
      BY <3>1, <1>3, <1>5, AddUntilBase
    <3> HIDE DEF again
    <3> QED
      BY <2>1, <3>2, <1>3, <1>4
  <2>2. CASE ~again
    <3>1. r = c
      BY <1>6, <2>2
    <3> QED
      BY <2>2, <3>1, <1>3, <1>4
  <2> QED
    BY <2>1, <2>2
<1>8. /\ Lists' /\ inserted' = r.inserted /\ timeout' = r.timeout
      /\ interval' = r.interval /\ res' = r.res
      /\ \A x \in Events : Contains(active', x) <=> IsActive(r, x)
      /\ \A x \in Events : InHeap(heap', x) <=> Scheduled(r, x)
  BY <1>2, <1>7, BecomesView
<1>9. /\ Lists' /\ interval' = interval /\ res' = res
      /\ timeout' = IF again THEN [timeout EXCEPT ![e] = t] ELSE timeout
      /\ inserted' = IF again /\ e \in IO THEN inserted \cup {e} ELSE inserted
      /\ \A x \in Events : Contains(active', x) <=> Contains(active, x) /\ x # e
      /\ \A x \in Events : InHeap(heap', x) <=> InHeap(heap, x) \/ (again /\ x = e)
  BY <1>1, <1>3, <1>7, <1>8
<1> QED
  BY <1>9 DEF t

\* epoll_dispatch: what is watched and ready is active, once.
LEMMA DispatchEffect ==
  ASSUME Lists, Dispatch
  PROVE  LET found == inserted \cap ready
             new   == {e \in found : ~Contains(active, e)}
         IN  /\ Lists' /\ inserted' = inserted /\ timeout' = timeout /\ interval' = interval
             /\ heap' = heap
             /\ res' = [e \in Events |-> IF e \in new THEN {"io"}
                                       ELSE IF e \in found THEN res[e] \cup {"io"} ELSE res[e]]
             /\ \A x : Contains(active, x) => Contains(active', x)
             /\ \A x : Contains(active', x) => Contains(active, x) \/ x \in new
<1> DEFINE found == inserted \cap ready
           new   == {e \in found : ~Contains(active, e)}
<1>1. /\ inserted' = inserted /\ timeout' = timeout /\ interval' = interval /\ heap' = heap
      /\ res' = [e \in Events |-> IF e \in new THEN {"io"}
                                ELSE IF e \in found THEN res[e] \cup {"io"} ELSE res[e]]
      /\ eventCount' = eventCount + Cardinality(new)
  BY DEF Dispatch
<1>2. PICK order \in SetToSeqs(new) : active' = active \o order
  BY DEF Dispatch
<1>3. new \subseteq Events /\ \A x \in new : ~Contains(active, x)
  BY EventLoopAssumption DEF Lists
<1> HIDE DEF found, new
<1>4. Cardinality(new) \in Nat
  BY <1>3, EventLoopAssumption, FS_Subset, FS_CardinalityType
<1>5. /\ order \in [1..Cardinality(new) -> new]
      /\ \A i, j \in 1..Cardinality(new) : i # j => order[i] # order[j]
  BY DEF SetToSeqs
<1>6. order \in Seq(Events) /\ Len(order) = Cardinality(new) /\ IsInjective(order)
  <2>1. order \in [1..Cardinality(new) -> Events]
    BY <1>3, <1>5
  <2>2. order \in Seq(Events)
    BY <1>4, <2>1, SeqDef
  <2>3. Len(order) = Cardinality(new)
    BY <1>4, <1>5, <2>2, LenProperties
  <2> QED
    BY <1>5, <2>2, <2>3 DEF IsInjective
<1>7. \A x : Contains(order, x) => x \in new
  BY <1>5, <1>6 DEF Contains
<1>8. \A x : ~(Contains(active, x) /\ Contains(order, x))
  BY <1>3, <1>7
<1>9. /\ active' \in Seq(Events) /\ IsInjective(active') /\ Len(active') = Len(active) + Len(order)
      /\ \A x : Contains(active', x) <=> Contains(active, x) \/ Contains(order, x)
  <2> DEFINE s == active  q == active'
  <2>1. s \in Seq(Events) /\ IsInjective(s) /\ q = s \o order
    BY <1>2 DEF Lists
  <2>2. \A x : ~(Contains(s, x) /\ Contains(order, x))
    BY <1>8
  <2> HIDE DEF s, q
  <2>3. /\ q \in Seq(Events) /\ IsInjective(q) /\ Len(q) = Len(s) + Len(order)
        /\ \A x : Contains(q, x) <=> Contains(s, x) \/ Contains(order, x)
    <3>1. order \in Seq(Events) /\ IsInjective(order)
      BY <1>6
    <3>2. q \in Seq(Events)
      BY <2>1, <2>2, <3>1, ConcatQueue
    <3>3. IsInjective(q)
      BY <2>1, <2>2, <3>1, ConcatQueue
    <3>4. Len(q) = Len(s) + Len(order)
      BY <2>1, <2>2, <3>1, ConcatQueue
    <3>5. ASSUME NEW x
          PROVE  Contains(q, x) <=> Contains(s, x) \/ Contains(order, x)
      BY <2>1, <2>2, <3>1, ConcatQueue
    <3> QED
      BY <3>2, <3>3, <3>4, <3>5
  <2> QED
    BY <2>3 DEF s, q
<1>10. res' \in [Events -> SUBSET {"io", "timeout"}]
  <2>1. res \in [Events -> SUBSET {"io", "timeout"}]
    BY DEF Lists
  <2> QED
    BY <1>1, <2>1
<1>11. eventCount' = Cardinality(inserted) + Len(active') + Size(heap)
  <2>1. Cardinality(inserted) \in Nat /\ Size(heap) \in Nat /\ Len(active) \in Nat
    BY EventLoopAssumption, FS_Subset, FS_CardinalityType, HeapFacts, LenProperties DEF Lists
  <2>2. eventCount = Cardinality(inserted) + Len(active) + Size(heap)
    BY DEF Lists
  <2> QED
    BY <1>1, <1>4, <1>6, <1>9, <2>1, <2>2
<1>12. Lists'
  BY <1>1, <1>9, <1>10, <1>11 DEF Lists
<1> QED
  BY <1>1, <1>7, <1>9, <1>12 DEF found, new

\* TypeOK's other conjuncts.
Control ==
  /\ eventBreak \in BOOLEAN /\ gotterm \in BOOLEAN /\ retval \in {-1, 0, 1}
  /\ current \in Events \cup {NoEvent}
  /\ loop \in {"none", "top", "dispatch", "timeouts", "active", "callback"}
  /\ deadline \in 0..Forever /\ tvCache \in 0..clock /\ clock \in 1..MaxClock
  /\ ready \subseteq IO /\ ops \in 0..MaxOps
  /\ call \in [fn : {"none", "event_add", "event_del"}, ev : Events \cup {NoEvent},
              tv : Intervals \cup {NULL}]

\* The type invariant's two halves.
LEMMA TypeOKParts == TypeOK <=> Lists /\ Control
BY DEF TypeOK, Lists, Control

\* While the lists stay and time passes, the causes hold.
LEMMA SameLists ==
  ASSUME Lists, Causes, UNCHANGED lists, clock' >= clock, clock \in Nat, clock' \in Nat
  PROVE  Lists' /\ Causes'
<1>1. /\ inserted' = inserted /\ active' = active /\ heap' = heap /\ timeout' = timeout
      /\ interval' = interval /\ res' = res /\ eventCount' = eventCount
  BY DEF lists
<1>2. Lists'
  BY <1>1 DEF Lists
<1>3. timeout \in [Events -> Nat]
  BY DEF Lists
<1>4. Causes'
  BY <1>1, <1>3 DEF Causes
<1> QED
  BY <1>2, <1>4

-----------------------------------------------------------------------------
(* The inductive invariant                                                 *)

\* The inductive invariant: at first,
LEMMA InitInv == Init => LoopInv
<1> SUFFICES ASSUME Init PROVE LoopInv
  OBVIOUS
<1>1. /\ inserted = {} /\ active = <<>> /\ heap = EmptyHeap(Events) /\ eventCount = 0
      /\ timeout = [e \in Events |-> 0] /\ interval = [e \in Events |-> 0]
      /\ res = [e \in Events |-> {}] /\ loop = "none" /\ current = NoEvent
  BY DEF Init
<1>2. heap.p = <<>> /\ heap.idx = [e \in Events |-> 0] /\ Size(heap) = 0
  BY <1>1 DEF EmptyHeap, Size
<1>3. heap \in [p : Seq(Events), idx : [Events -> Nat]]
  BY <1>1 DEF EmptyHeap
<1>4. \A e \in Events : ~InHeap(heap, e)
  BY <1>2 DEF InHeap
<1>5. IsHeap(heap, Events, timeout)
  BY <1>2, <1>3, <1>4 DEF IsHeap
<1>6. active \in Seq(Events) /\ Len(active) = 0 /\ IsInjective(active)
  BY <1>1 DEF IsInjective
<1>7. \A e \in Events : ~Contains(active, e)
  BY <1>6 DEF Contains
<1>8. eventCount = Cardinality(inserted) + Len(active) + Size(heap)
  BY <1>1, <1>2, <1>6, FS_EmptySet
<1>9. Lists
  BY <1>1, <1>5, <1>6, <1>8 DEF Lists
<1>10. Control
  <2>1. MaxClock \in Nat /\ MaxClock >= 1 /\ MaxOps \in Nat
    BY EventLoopAssumption
  <2>2. 0 \in 0..Forever /\ 1 \in 1..MaxClock /\ 0 \in 0..1 /\ 0 \in 0..MaxOps
    BY <2>1 DEF Forever
  <2> QED
    BY <2>2 DEF Init, Control
<1>11. Stages
  BY <1>1 DEF Stages
<1>12. Causes
  BY <1>4, <1>7 DEF Causes
<1> QED
  BY <1>9, <1>10, <1>11, <1>12, TypeOKParts DEF LoopInv

\* When dispatch's wait ends.
LEMMA DeadlineType ==
  ASSUME TypeOK
  PROVE  TimeoutNext \in 0..Forever
<1>1. Now \in Nat /\ clock \in 1..MaxClock /\ MaxClock \in Nat
  BY ClockFacts, EventLoopAssumption
<1>2. Size(heap) # 0 => timeout[HeapTop(heap)] \in Nat
  <2>1. /\ Size(heap) \in Nat /\ timeout \in [Events -> Nat]
        /\ \A i \in 1..Size(heap) : heap.p[i] \in Events
    BY TypeOKLists, HeapFacts DEF Lists
  <2> QED
    BY <2>1 DEF HeapTop
<1> DEFINE wait == timeout[HeapTop(heap)] - Now
           end == IF wait > 0 THEN clock + wait ELSE clock
<1>3. Size(heap) # 0 => end \in Nat
  BY <1>1, <1>2
<1>4. TimeoutNext = IF active # <<>> THEN clock ELSE IF Size(heap) = 0 THEN Forever
                    ELSE IF end > MaxClock THEN MaxClock ELSE end
  BY DEF TimeoutNext
<1> HIDE DEF end
<1> QED
  <2>1. clock \in 0..Forever /\ Forever \in 0..Forever /\ MaxClock \in 0..Forever
    BY <1>1 DEF Forever
  <2>2. Size(heap) # 0 /\ ~(end > MaxClock) => end \in 0..Forever
    BY <1>1, <1>3 DEF Forever
  <2> QED
    BY <1>4, <2>1, <2>2

\* what it gives,
LEMMA Facts ==
  ASSUME LoopInv
  PROVE  /\ Lists /\ Control /\ Stages /\ Causes /\ TypeOK
         /\ Now \in 1..clock /\ clock \in 1..MaxClock /\ clock \in Nat
         /\ MaxClock \in Nat /\ MaxOps \in Nat
BY TypeOKParts, ClockFacts, EventLoopAssumption DEF LoopInv

\* what it takes,
LEMMA Parts ==
  ASSUME Lists', Control', Stages', Causes'
  PROVE  LoopInv'
BY TypeOKParts, PTL DEF LoopInv

\* A step that leaves the lists alone.
LEMMA QuietStep ==
  ASSUME LoopInv, UNCHANGED lists, clock' >= clock, Control', Stages'
  PROVE  LoopInv'
<1>1. Lists' /\ Causes'
  <2>1. Lists /\ Causes /\ clock \in Nat
    BY Facts
  <2>2. clock' \in Nat
    BY EventLoopAssumption DEF Control
  <2> QED
    BY <2>1, <2>2, SameLists
<1> QED
  BY <1>1, Parts

\* What a call does to the loop's own variables.
LEMMA CallControl ==
  ASSUME LoopInv, MayCall, NEW fn \in {"event_add", "event_del"}, NEW e \in Events,
         NEW tv \in Intervals \cup {NULL}, Called(fn, e, tv),
         UNCHANGED <<ends, loop, current, deadline, tvCache, world>>
  PROVE  Control' /\ Stages' /\ clock' = clock
<1>1. Control /\ Stages /\ MaxOps \in Nat
  BY Facts
<1>2. /\ UNCHANGED <<eventBreak, gotterm, retval, loop, current, deadline, tvCache, clock, ready>>
      /\ ops < MaxOps /\ ops' = ops + 1 /\ call' = [fn |-> fn, ev |-> e, tv |-> tv]
      /\ loop \in {"none", "callback"}
  BY DEF MayCall, Called, ends, world
<1>3. ops' \in 0..MaxOps
  BY <1>1, <1>2 DEF Control
<1>4. call' \in [fn : {"none", "event_add", "event_del"}, ev : Events \cup {NoEvent},
                tv : Intervals \cup {NULL}]
  BY <1>2
<1>5. Control'
  BY <1>1, <1>2, <1>3, <1>4 DEF Control, Forever, NULL
<1>6. Stages'
  BY <1>1, <1>2 DEF Stages
<1> QED
  BY <1>2, <1>5, <1>6

\* and one lemma for each call and step that changes the lists.
LEMMA AddInv ==
  ASSUME LoopInv, NEW e \in Events, EventAdd(e)
  PROVE  LoopInv'
<1>1. /\ Lists /\ Control /\ Stages /\ Causes /\ Now \in 1..clock /\ clock \in Nat
      /\ timeout \in [Events -> Nat]
  BY Facts DEF Lists
<1>2. Control' /\ Stages' /\ clock' = clock
  <2>1. \E tv \in Intervals \cup {NULL} : Called("event_add", e, tv)
    BY DEF EventAdd
  <2>2. MayCall /\ UNCHANGED <<ends, loop, current, deadline, tvCache, world>>
    BY DEF EventAdd
  <2> QED
    BY <2>1, <2>2, CallControl
<1>5. ASSUME Becomes(AddForever(Base, e))
      PROVE  Lists' /\ Causes'
  <2>1. /\ Lists' /\ timeout' = timeout /\ interval' = interval /\ res' = res
        /\ inserted' = IF e \in IO /\ ~Contains(active, e) THEN inserted \cup {e} ELSE inserted
        /\ \A x \in Events : Contains(active', x) <=> Contains(active, x)
        /\ \A x \in Events : InHeap(heap', x) <=> InHeap(heap, x)
    BY <1>1, <1>5, AddForeverEffect
  <2>2. Causes'
    BY <1>1, <1>2, <2>1 DEF Causes
  <2> QED
    BY <2>1, <2>2
<1>6. ASSUME NEW i \in Intervals, Becomes(Remember(AddUntil(Base, e, Now + i), e, i))
      PROVE  Lists' /\ Causes'
  <2> DEFINE t == Now + i
  <2>1. t \in Nat /\ t >= 1
    BY <1>1, EventLoopAssumption
  <2>2. Becomes(Remember(AddUntil(Base, e, t), e, i))
    BY <1>6
  <2> HIDE DEF t
  <2>3. /\ Lists' /\ res' = res /\ timeout' = [timeout EXCEPT ![e] = t]
        /\ inserted' = IF e \in IO /\ ~Contains(active, e) THEN inserted \cup {e} ELSE inserted
        /\ \A x \in Events : Contains(active', x)
                               <=> Contains(active, x) /\ ~(x = e /\ "timeout" \in res[e])
        /\ \A x \in Events : InHeap(heap', x) <=> InHeap(heap, x) \/ x = e
    BY <1>1, <2>1, <2>2, AddUntilEffect
  <2>4. Causes'
    <3> SUFFICES ASSUME NEW x \in Events
                 PROVE  /\ InHeap(heap', x) => timeout'[x] >= 1
                        /\ Contains(active', x) =>
                             \/ res'[x] = {"io"} /\ x \in inserted'
                             \/ /\ res'[x] = {"timeout"} /\ x \notin inserted' /\ ~InHeap(heap', x)
                                /\ 1 <= timeout'[x] /\ timeout'[x] <= clock'
      BY DEF Causes
    <3>1. CASE x = e
      <4>1. timeout'[x] = t
        BY <1>1, <2>3, <3>1
      <4>2. Contains(active', x) => res[x] = {"io"} /\ x \in inserted
        BY <1>1, <2>3, <3>1 DEF Causes
      <4> QED
        BY <2>1, <2>3, <4>1, <4>2
    <3>2. CASE x # e
      <4>1. timeout'[x] = timeout[x]
        BY <1>1, <2>3, <3>2
      <4> QED
        BY <1>1, <1>2, <2>3, <3>2, <4>1 DEF Causes
    <3> QED
      BY <3>1, <3>2
  <2> QED
    BY <2>3, <2>4
<1>7. Lists' /\ Causes'
  <2>1. \/ Becomes(AddForever(Base, e))
        \/ \E i \in Intervals : Becomes(Remember(AddUntil(Base, e, Now + i), e, i))
    BY DEF EventAdd
  <2> QED
    BY <1>5, <1>6, <2>1
<1> QED
  BY <1>2, <1>7, Parts

\* event_base_loopexit adds an event like another, with a timeout of zero.
LEMMA ExitIsAdd ==
  ASSUME LoopInv, NEW x \in Exits, LoopExit(x)
  PROVE  x \in Events /\ EventAdd(x)
<1>1. x \in Events /\ x \notin Persist /\ 0 \in Intervals
  BY EventLoopAssumption
<1>2. Now + 0 = Now
  BY Facts
<1>3. Remember(AddUntil(Base, x, Now), x, 0) = AddUntil(Base, x, Now)
  BY <1>1 DEF Remember
<1>4. Becomes(Remember(AddUntil(Base, x, Now + 0), x, 0))
  BY <1>2, <1>3 DEF LoopExit
<1> QED
  BY <1>1, <1>4 DEF LoopExit, EventAdd

LEMMA DelInv ==
  ASSUME LoopInv, NEW e \in Events, EventDel(e)
  PROVE  LoopInv'
<1>1. Lists /\ Control /\ Stages /\ Causes /\ timeout \in [Events -> Nat]
  BY Facts DEF Lists
<1>2. Control' /\ Stages' /\ clock' = clock
  <2>1. MayCall /\ UNCHANGED <<ends, loop, current, deadline, tvCache, world>>
    BY DEF EventDel
  <2>2. Called("event_del", e, NULL)
    BY DEF EventDel
  <2> QED
    BY <2>1, <2>2, CallControl
<1>5. /\ Lists' /\ inserted' = inserted \ {e} /\ timeout' = timeout /\ res' = res
      /\ \A x \in Events : Contains(active', x) <=> Contains(active, x) /\ x # e
      /\ \A x \in Events : InHeap(heap', x) <=> InHeap(heap, x) /\ x # e
  BY <1>1, DelEffect DEF EventDel
<1>6. Causes'
  BY <1>1, <1>2, <1>5 DEF Causes
<1> QED
  BY <1>2, <1>5, <1>6, Parts

LEMMA DispatchInv ==
  ASSUME LoopInv, Dispatch
  PROVE  LoopInv'
<1> DEFINE found == inserted \cap ready
           new   == {e \in found : ~Contains(active, e)}
<1>1. /\ Lists /\ Control /\ Stages /\ Causes /\ timeout \in [Events -> Nat]
      /\ inserted \subseteq Events
  BY Facts, EventLoopAssumption DEF Lists
<1>2. /\ loop = "dispatch" /\ loop' = "timeouts" /\ current' = current /\ clock' = clock
      /\ tvCache' = clock /\ deadline' = 0
      /\ UNCHANGED <<eventBreak, gotterm, retval, ready, ops, call>>
  BY DEF Dispatch, world, ends, calls
<1>3. Control'
  BY <1>1, <1>2, Facts DEF Control, Forever
<1>4. Stages'
  BY <1>1, <1>2 DEF Stages
<1>5. /\ Lists' /\ inserted' = inserted /\ timeout' = timeout /\ heap' = heap
      /\ res' = [e \in Events |-> IF e \in new THEN {"io"}
                                ELSE IF e \in found THEN res[e] \cup {"io"} ELSE res[e]]
      /\ \A x : Contains(active', x) => Contains(active, x) \/ x \in new
  BY <1>1, DispatchEffect
<1>6. Causes'
  <2> SUFFICES ASSUME NEW x \in Events
               PROVE  /\ InHeap(heap', x) => timeout'[x] >= 1
                      /\ Contains(active', x) =>
                           \/ res'[x] = {"io"} /\ x \in inserted'
                           \/ /\ res'[x] = {"timeout"} /\ x \notin inserted' /\ ~InHeap(heap', x)
                              /\ 1 <= timeout'[x] /\ timeout'[x] <= clock'
    BY DEF Causes
  <2>1. InHeap(heap', x) => timeout'[x] >= 1
    BY <1>1, <1>5 DEF Causes
  <2>2. CASE x \in new
    BY <1>5, <2>1, <2>2
  <2>3. CASE x \notin new
    <3>1. res'[x] = IF x \in found THEN res[x] \cup {"io"} ELSE res[x]
      BY <1>5, <2>3
    <3>2. Contains(active', x) => Contains(active, x)
      BY <1>5, <2>3
    <3>3. /\ InHeap(heap, x) => timeout[x] >= 1
          /\ Contains(active, x) =>
               \/ res[x] = {"io"} /\ x \in inserted
               \/ /\ res[x] = {"timeout"} /\ x \notin inserted /\ ~InHeap(heap, x)
                  /\ 1 <= timeout[x] /\ timeout[x] <= clock
      BY <1>1 DEF Causes
    <3> HIDE DEF new
    <3> QED
      BY <1>2, <1>5, <2>1, <3>1, <3>2, <3>3
  <2> QED
    BY <2>2, <2>3
<1> QED
  BY <1>3, <1>4, <1>5, <1>6, Parts

\* The event that is due is in the heap.
LEMMA TopFacts ==
  ASSUME Lists, IsDue
  PROVE  /\ HeapTop(heap) \in Events /\ InHeap(heap, HeapTop(heap))
         /\ timeout[HeapTop(heap)] <= Now
<1>1. /\ Size(heap) \in Nat
      /\ \A i \in 1..Size(heap) : heap.p[i] \in Events /\ heap.idx[heap.p[i]] = i
  BY HeapFacts DEF Lists
<1>2. Size(heap) # 0 /\ timeout[HeapTop(heap)] <= Now
  BY DEF IsDue
<1>3. 1 \in 1..Size(heap)
  BY <1>1, <1>2
<1> QED
  BY <1>1, <1>2, <1>3 DEF HeapTop, InHeap

LEMMA ExpireInv ==
  ASSUME LoopInv, Expire
  PROVE  LoopInv'
<1> DEFINE e == HeapTop(heap)
<1>1. /\ Lists /\ Control /\ Stages /\ Causes /\ timeout \in [Events -> Nat]
      /\ res \in [Events -> SUBSET {"io", "timeout"}]
      /\ Now \in 1..clock /\ clock \in Nat
  BY Facts DEF Lists
<1>2. /\ loop = "timeouts" /\ UNCHANGED <<loop, current, clock, tvCache, deadline>>
      /\ UNCHANGED <<eventBreak, gotterm, retval, ready, ops, call>> /\ IsDue
      /\ Becomes(ActiveNolock(DelInternal(Base, e), e, "timeout"))
  BY DEF Expire, world, ends, calls
<1>3. Control'
  BY <1>1, <1>2, Facts DEF Control, Forever
<1>4. Stages'
  BY <1>1, <1>2 DEF Stages
<1>5. e \in Events /\ InHeap(heap, e) /\ timeout[e] <= Now
  BY <1>1, <1>2, TopFacts
<1> HIDE DEF e
<1>6. /\ Lists' /\ inserted' = inserted \ {e} /\ timeout' = timeout
      /\ res' = [res EXCEPT ![e] = {"timeout"}]
      /\ \A x \in Events : Contains(active', x) <=> Contains(active, x) \/ x = e
      /\ \A x \in Events : InHeap(heap', x) <=> InHeap(heap, x) /\ x # e
  BY <1>1, <1>2, <1>5, ExpireEffect
<1>7. timeout[e] >= 1 /\ timeout[e] <= clock
  BY <1>1, <1>5 DEF Causes
<1>8. Causes'
  <2> SUFFICES ASSUME NEW x \in Events
               PROVE  /\ InHeap(heap', x) => timeout'[x] >= 1
                      /\ Contains(active', x) =>
                           \/ res'[x] = {"io"} /\ x \in inserted'
                           \/ /\ res'[x] = {"timeout"} /\ x \notin inserted' /\ ~InHeap(heap', x)
                              /\ 1 <= timeout'[x] /\ timeout'[x] <= clock'
    BY DEF Causes
  <2>1. CASE x = e
    <3>1. res'[x] = {"timeout"}
      BY <1>1, <1>6, <2>1
    <3> QED
      BY <1>2, <1>6, <1>7, <2>1, <3>1
  <2>2. CASE x # e
    <3>1. res'[x] = res[x]
      BY <1>1, <1>6, <2>2
    <3> QED
      BY <1>1, <1>2, <1>6, <2>2, <3>1 DEF Causes
  <2> QED
    BY <2>1, <2>2
<1> QED
  BY <1>3, <1>4, <1>6, <1>8, Parts

LEMMA ProcessInv ==
  ASSUME LoopInv, ProcessActive
  PROVE  LoopInv'
<1> DEFINE e == Head(active)
<1>1. /\ Lists /\ Control /\ Stages /\ Causes /\ timeout \in [Events -> Nat]
      /\ Now \in 1..clock /\ clock \in Nat
  BY Facts DEF Lists
<1>2. /\ loop = "active" /\ loop' = "callback" /\ current' = e
      /\ UNCHANGED <<clock, tvCache, deadline, eventBreak, gotterm, retval, ready, ops, call>>
      /\ Becomes(IF e \in Persist THEN PersistClosure(Deactivate(Base, e), e)
                 ELSE DelInternal(Base, e))
  BY DEF ProcessActive, world, ends, calls
<1>3. e \in Events /\ Contains(active, e)
  BY <1>1, <1>2, HeadQueue DEF Lists, Stages
<1> HIDE DEF e
<1>4. Control'
  BY <1>1, <1>2, <1>3, Facts DEF Control, Forever
<1>5. Stages'
  BY <1>2, <1>3, EventLoopAssumption DEF Stages
<1>6. CASE e \in Persist
  <2> DEFINE again == interval[e] # 0
             t == interval[e] + (IF "timeout" \in res[e] THEN timeout[e] ELSE Now)
  <2>1. /\ Lists' /\ res' = res
        /\ timeout' = IF again THEN [timeout EXCEPT ![e] = t] ELSE timeout
        /\ inserted' = IF again /\ e \in IO THEN inserted \cup {e} ELSE inserted
        /\ \A x \in Events : Contains(active', x) <=> Contains(active, x) /\ x # e
        /\ \A x \in Events : InHeap(heap', x) <=> InHeap(heap, x) \/ (again /\ x = e)
    <3>1. Becomes(PersistClosure(Deactivate(Base, e), e))
      BY <1>2, <1>6
    <3>2. Now \in Nat
      BY <1>1
    <3> QED
      BY <1>1, <1>3, <3>1, <3>2, PersistEffect
  <2>2. again => t >= 1
    <3>1. interval[e] \in Intervals \cup {0} /\ timeout[e] \in Nat
      BY <1>1, <1>3 DEF Lists
    <3>2. interval[e] \in Nat
      <4>1. Intervals \cup {0} \subseteq Nat
        BY EventLoopAssumption
      <4> HIDE DEF again, t
      <4> QED
        BY <3>1, <4>1
    <3> QED
      BY <1>1, <3>1, <3>2
  <2> HIDE DEF again, t
  <2>3. Causes'
    <3> SUFFICES ASSUME NEW x \in Events
                 PROVE  /\ InHeap(heap', x) => timeout'[x] >= 1
                        /\ Contains(active', x) =>
                             \/ res'[x] = {"io"} /\ x \in inserted'
                             \/ /\ res'[x] = {"timeout"} /\ x \notin inserted' /\ ~InHeap(heap', x)
                                /\ 1 <= timeout'[x] /\ timeout'[x] <= clock'
      BY DEF Causes
    <3>1. CASE x = e
      <4>1. timeout'[x] = IF again THEN t ELSE timeout[x]
        BY <1>1, <2>1, <3>1
      <4>2. InHeap(heap, x) => timeout[x] >= 1
        BY <1>1 DEF Causes
      <4> QED
        BY <2>1, <2>2, <3>1, <4>1, <4>2
    <3>2. CASE x # e
      <4>1. timeout'[x] = timeout[x]
        BY <1>1, <2>1, <3>2
      <4>2. x \in inserted' <=> x \in inserted
        BY <2>1, <3>2
      <4> QED
        BY <1>1, <1>2, <2>1, <3>2, <4>1, <4>2 DEF Causes
    <3> QED
      BY <3>1, <3>2
  <2> QED
    BY <1>4, <1>5, <2>1, <2>3, Parts
<1>7. CASE e \notin Persist
  <2>1. Becomes(DelInternal(Base, e))
    BY <1>2, <1>7
  <2>2. /\ Lists' /\ inserted' = inserted \ {e} /\ timeout' = timeout /\ res' = res
        /\ \A x \in Events : Contains(active', x) <=> Contains(active, x) /\ x # e
        /\ \A x \in Events : InHeap(heap', x) <=> InHeap(heap, x) /\ x # e
    BY <1>1, <1>3, <2>1, DelEffect
  <2>3. Causes'
    BY <1>1, <1>2, <2>2 DEF Causes
  <2> QED
    BY <1>4, <1>5, <2>2, <2>3, Parts
<1> QED
  BY <1>6, <1>7

\* The steps that leave the lists alone.
QuietAction ==
  \/ Enter \/ Broken \/ NoEvents \/ Poll \/ Interrupted \/ DispatchFails \/ Expired
  \/ CallbackReturns \/ LoopBreak \/ Drain \/ Tick \/ \E e \in IO : BecomesReady(e)

LEMMA QuietLists == QuietAction => UNCHANGED lists
BY DEF QuietAction, Enter, Broken, NoEvents, Poll, Interrupted, DispatchFails, Expired,
       CallbackReturns, LoopBreak, Drain, Tick, BecomesReady

\* They keep the loop's own variables in order,
LEMMA QuietControl ==
  ASSUME LoopInv, QuietAction
  PROVE  Control' /\ clock' >= clock
<1>1. /\ Control /\ TypeOK /\ clock \in 1..MaxClock /\ clock \in Nat /\ MaxClock \in Nat
  BY Facts
<1>2. 0 \in 0..clock /\ clock \in 0..clock /\ 0 \in 0..Forever
  BY <1>1 DEF Forever
<1>3. CASE Enter
  <2>1. /\ eventBreak' = FALSE /\ gotterm' = FALSE /\ retval' = 0 /\ tvCache' = 0 /\ loop' = "top"
        /\ UNCHANGED <<current, deadline, clock, ready, ops, call>>
    BY <1>3 DEF Enter, world, calls
  <2> QED
    <3>1. /\ eventBreak' \in BOOLEAN /\ gotterm' \in BOOLEAN /\ retval' \in {-1, 0, 1}
          /\ tvCache' \in 0..clock' /\ clock' \in 1..MaxClock
      BY <1>1, <1>2, <2>1
    <3>2. /\ loop' \in {"none", "top", "dispatch", "timeouts", "active", "callback"}
          /\ current' \in Events \cup {NoEvent} /\ ready' \subseteq IO
      BY <1>1, <2>1 DEF Control
    <3>3. /\ deadline' \in 0..Forever /\ ops' \in 0..MaxOps
          /\ call' \in [fn : {"none", "event_add", "event_del"}, ev : Events \cup {NoEvent},
                      tv : Intervals \cup {NULL}]
      BY <1>1, <2>1 DEF Control
    <3> QED
      BY <1>1, <2>1, <3>1, <3>2, <3>3 DEF Control, Forever, NULL
<1>4. CASE Broken
  BY <1>1, <1>2, <1>4 DEF Broken, Leave, Control, world, ends, calls, Forever, NULL
<1>5. CASE NoEvents
  BY <1>1, <1>2, <1>5 DEF NoEvents, Leave, Control, world, ends, calls, Forever, NULL
<1>6. CASE Poll
  <2>1. TimeoutNext \in 0..Forever
    BY <1>1, DeadlineType
  <2>2. /\ deadline' \in 0..Forever /\ tvCache' = 0 /\ loop' = "dispatch"
        /\ UNCHANGED <<eventBreak, gotterm, retval, current, clock, ready, ops, call>>
    BY <1>6, <2>1 DEF Poll, world, ends, calls
  <2> QED
    BY <1>1, <1>2, <2>2 DEF Control, Forever, NULL
<1>7. CASE Interrupted
  BY <1>1, <1>2, <1>7 DEF Interrupted, Control, world, ends, calls, Forever, NULL
<1>8. CASE Expired
  BY <1>1, <1>2, <1>8 DEF Expired, Control, world, ends, calls, Forever, NULL
<1>9. CASE CallbackReturns
  BY <1>1, <1>2, <1>9 DEF CallbackReturns, Control, world, ends, calls, Forever, NULL
<1>10. CASE LoopBreak
  BY <1>1, <1>2, <1>10 DEF LoopBreak, Control, world, ends, calls, Forever, NULL
<1>11. CASE Drain
  BY <1>1, <1>2, <1>11 DEF Drain, Control, ends, calls, Forever, NULL
<1>12. CASE Tick
  <2>1. clock' \in 1..MaxClock /\ clock' >= clock /\ \A k \in 0..clock : k \in 0..clock'
    BY <1>1, <1>12 DEF Tick
  <2> QED
    BY <1>1, <1>12, <2>1 DEF Tick, Control, ends, calls, Forever, NULL
<1>13. CASE \E e \in IO : BecomesReady(e)
  BY <1>1, <1>2, <1>13 DEF BecomesReady, Control, ends, calls, Forever, NULL
<1>14. CASE DispatchFails
  BY <1>1, <1>2, <1>14 DEF DispatchFails, Leave, Control, world, calls, Forever, NULL
<1> QED
  BY <1>3, <1>4, <1>5, <1>6, <1>7, <1>8, <1>9, <1>10, <1>11, <1>12, <1>13, <1>14
     DEF QuietAction

\* and the callback and the queue where the loop's place wants them.
LEMMA QuietStages ==
  ASSUME LoopInv, QuietAction
  PROVE  Stages'
<1>1. Stages
  BY Facts
<1>2. active' = active
  BY QuietLists DEF lists
<1> QED
  BY <1>1, <1>2 DEF QuietAction, Stages, Enter, Broken, NoEvents, Leave, Poll, Interrupted,
       DispatchFails, Expired, CallbackReturns, LoopBreak, Drain, Tick, BecomesReady

\* A step of something else.
LEMMA StutterInv ==
  ASSUME LoopInv, UNCHANGED vars
  PROVE  LoopInv'
<1>1. Control /\ Stages /\ clock \in Nat
  BY Facts
<1>2. /\ UNCHANGED lists
      /\ UNCHANGED <<active, eventBreak, gotterm, retval, loop, current, deadline, tvCache,
                      clock, ready, ops, call>>
  BY DEF vars, world, lists, ends, calls
<1>3. Control' /\ Stages'
  BY <1>1, <1>2 DEF Control, Stages, Forever, NULL
<1> QED
  BY <1>1, <1>2, <1>3, QuietStep

\* The invariant is inductive.
LEMMA InvStep ==
  ASSUME LoopInv, [Next]_vars
  PROVE  LoopInv'
<1>1. CASE QuietAction
  BY <1>1, QuietLists, QuietControl, QuietStages, QuietStep
<1>2. CASE UNCHANGED vars
  BY <1>2, StutterInv
<1>3. ASSUME NEW e \in Events, EventAdd(e) \/ EventDel(e)
      PROVE  LoopInv'
  BY <1>3, AddInv, DelInv
<1>4. ASSUME NEW x \in Exits, LoopExit(x)
      PROVE  LoopInv'
  BY <1>4, ExitIsAdd, AddInv
<1> QED
  BY <1>1, <1>2, <1>3, <1>4, DispatchInv, ExpireInv, ProcessInv DEF Next, QuietAction

-----------------------------------------------------------------------------
(* The theorems                                                            *)

\* The lists, the counter and the heap agree after any sequence of callbacks, calls
\* and turns of the loop (event_queue_insert, event_queue_remove, min_heap_push,
\* min_heap_erase), and with them the loop knows why each active event is.
THEOREM Invariant == Spec => []LoopInv
<1>1. Init => LoopInv
  BY InitInv
<1>2. LoopInv /\ [Next]_vars => LoopInv'
  BY InvStep
<1> QED
  BY <1>1, <1>2, PTL DEF Spec

\* The same for every number of events and all the times and intervals they have.
THEOREM TypeCorrect == Spec => []TypeOK
<1>1. LoopInv => TypeOK
  BY DEF LoopInv
<1> QED
  BY <1>1, Invariant, PTL

\* timeout_process stops at the first event that is not due, and the heap has no
\* other that is.
THEOREM NoneIsLeft == Spec => NoTimeoutIsLeft
<1> DEFINE A == loop = "timeouts" /\ loop' # "timeouts" =>
                  \A e \in Events : InHeap(heap, e) => timeout[e] > Now
<1>1. LoopInv /\ [Next]_vars => [A]_vars
  <2> SUFFICES ASSUME LoopInv, [Next]_vars, loop = "timeouts", loop' # "timeouts",
                      NEW e \in Events, InHeap(heap, e)
               PROVE  timeout[e] > Now
    OBVIOUS
  <2>1. ~IsDue
    BY DEF Next, vars, Enter, Broken, NoEvents, Leave, Poll, Dispatch, Interrupted,
           DispatchFails, Expire,
           Expired, ProcessActive, CallbackReturns, LoopBreak, Drain, Tick, EventAdd, EventDel,
           LoopExit, BecomesReady
  <2>2. /\ IsHeap(heap, Events, timeout) /\ timeout \in [Events -> Nat] /\ Now \in Nat
    BY Facts, ClockFacts DEF Lists
  <2>3. Size(heap) > 0 /\ HeapTop(heap) \in Events /\ timeout[HeapTop(heap)] <= timeout[e]
    BY <2>2, TopIsLeast
  <2>4. ~(timeout[HeapTop(heap)] <= Now)
    BY <2>1, <2>3 DEF IsDue
  <2>5. timeout[HeapTop(heap)] \in Nat /\ timeout[e] \in Nat
    BY <2>2, <2>3
  <2> QED
    BY <2>2, <2>3, <2>4, <2>5
<1>2. Spec => [][A]_vars
  BY <1>1, Invariant, PTL DEF Spec
<1> QED
  BY <1>2 DEF NoTimeoutIsLeft

\* The loop's condition to return reads one counter, the promise is about lists.
LEMMA NothingCounted ==
  ASSUME Lists, eventCount = 0
  PROVE  Asked = {}
<1>1. /\ Cardinality(inserted) \in Nat /\ Len(active) \in Nat /\ Size(heap) \in Nat
      /\ IsFiniteSet(inserted)
  BY EventLoopAssumption, FS_Subset, FS_CardinalityType, HeapFacts, LenProperties DEF Lists
<1>2. Cardinality(inserted) = 0 /\ Len(active) = 0 /\ Size(heap) = 0
  BY <1>1 DEF Lists
<1>3. inserted = {}
  BY <1>1, <1>2, FS_EmptySet
<1>4. \A e \in Events : ~Contains(active, e)
  BY <1>2 DEF Contains
<1>5. \A e \in Events : ~InHeap(heap, e)
  <2>1. \A e \in Events : heap.idx[e] # 0 => heap.idx[e] \in 1..Size(heap)
    BY HeapFacts DEF Lists
  <2> QED
    BY <1>2, <2>1 DEF InHeap
<1> QED
  BY <1>3, <1>4, <1>5 DEF Asked, Flags

\* While it runs it has no result.
Running == loop # "none" => retval = 0

LEMMA NoResultYet == Spec => []Running
<1>1. Init => Running
  BY DEF Init, Running
<1>2. Running /\ [Next]_vars => Running'
  <2> SUFFICES ASSUME Running, [Next]_vars PROVE Running'
    OBVIOUS
  <2>1. CASE Enter \/ Broken \/ NoEvents \/ DispatchFails
    BY <2>1 DEF Running, Enter, Broken, NoEvents, DispatchFails, Leave
  <2>2. CASE ~(Enter \/ Broken \/ NoEvents \/ DispatchFails)
    <3>1. retval' = retval /\ (loop' # "none" => loop # "none")
      BY <2>2 DEF Next, vars, ends, Poll, Dispatch, Interrupted, Expire, Expired, ProcessActive,
           CallbackReturns, LoopBreak, Drain, Tick, EventAdd, EventDel, LoopExit, BecomesReady
    <3> QED
      BY <3>1 DEF Running
  <2> QED
    BY <2>1, <2>2
<1> QED
  BY <1>1, <1>2, PTL DEF Spec

\* What event_base_loop returns is why: 1 only when nothing is asked for, since the
\* counter it looks at is zero only when every list is empty (event_haveevents), 0 only
\* when it was broken or told to exit, -1 only when the wait failed.
THEOREM EndsForAReason == Spec => LoopEndsForAReason
<1> DEFINE Reason == \/ retval' = 1 /\ Asked = {}
                     \/ retval' = 0 /\ (eventBreak \/ gotterm)
                     \/ retval' = -1 /\ loop = "dispatch"
           A == /\ loop # "none" /\ loop' = "none" => Reason
                /\ eventBreak /\ loop = "callback" => loop' \in {"callback", "top"}
<1>1. LoopInv /\ Running /\ [Next]_vars => [A]_vars
  <2> SUFFICES ASSUME LoopInv, Running, [Next]_vars PROVE A \/ UNCHANGED vars
    OBVIOUS
  <2>1. ASSUME loop # "none", loop' = "none"
        PROVE  Reason
    <3>1. Broken \/ NoEvents \/ DispatchFails
      BY <2>1 DEF Next, vars, Enter, Broken, NoEvents, Leave, Poll, Dispatch, Interrupted,
           DispatchFails, Expire, Expired, ProcessActive, CallbackReturns, LoopBreak, Drain, Tick,
           EventAdd, EventDel, LoopExit, BecomesReady
    <3>2. Lists
      BY Facts
    <3>3. CASE Broken
      BY <2>1, <3>3 DEF Broken, Running, ends
    <3>4. CASE NoEvents
      BY <3>2, <3>4, NothingCounted DEF NoEvents
    <3>5. CASE DispatchFails
      BY <3>5 DEF DispatchFails
    <3> QED
      BY <3>1, <3>3, <3>4, <3>5
  <2>2. ASSUME eventBreak, loop = "callback"
        PROVE  loop' \in {"callback", "top"}
    BY <2>2 DEF Next, vars, Enter, Broken, NoEvents, Leave, Poll, Dispatch, Interrupted,
           DispatchFails, Expire,
           Expired, ProcessActive, CallbackReturns, LoopBreak, Drain, Tick, EventAdd, EventDel,
           LoopExit, BecomesReady
  <2> QED
    BY <2>1, <2>2
<1>2. Spec => [][A]_vars
  BY <1>1, Invariant, NoResultYet, PTL DEF Spec
<1> QED
  BY <1>2 DEF LoopEndsForAReason

\* The loop neither leaves a timeout that has passed nor returns for a reason that its
\* result does not name.
THEOREM KeepsItsOrder == Spec => LoopKeepsItsOrder
  BY NoneIsLeft, EndsForAReason DEF LoopKeepsItsOrder

-----------------------------------------------------------------------------
(* The refinement                                                          *)

\* What event.h's user sees of the lists, as a map.
Due == [e \in Events |-> DueAt(e)]

Timed(e) == InHeap(heap, e) \/ (Contains(active, e) /\ "timeout" \in res[e])

\* Asked, Noticed and Due event by event, before a step and after it.
LEMMA View ==
  /\ \A x \in Events : x \in Asked <=> x \in inserted \/ Contains(active, x) \/ InHeap(heap, x)
  /\ \A x \in Events : x \in Noticed <=> Contains(active, x) /\ "io" \in res[x]
  /\ \A x \in Events : Due[x] = IF Timed(x) THEN timeout[x] ELSE 0
  /\ Asked \subseteq Events /\ Noticed \subseteq Events /\ Due = [x \in Events |-> Due[x]]
BY DEF Asked, Noticed, Due, DueAt, Timed, Flags

LEMMA ViewNext ==
  /\ \A x \in Events : x \in Asked' <=> x \in inserted' \/ Contains(active', x) \/ InHeap(heap', x)
  /\ \A x \in Events : x \in Noticed' <=> Contains(active', x) /\ "io" \in res'[x]
  /\ \A x \in Events : Due'[x] = IF Timed(x)' THEN timeout'[x] ELSE 0
  /\ Asked' \subseteq Events /\ Noticed' \subseteq Events /\ Due' = [x \in Events |-> Due'[x]]
BY DEF Asked, Noticed, Due, DueAt, Timed, Flags

\* They are the same when they are so for each event.
LEMMA AskedSame ==
  ASSUME \A x \in Events : x \in Asked' <=> x \in Asked
  PROVE  Asked' = Asked
BY View, ViewNext

LEMMA NoticedSame ==
  ASSUME \A x \in Events : x \in Noticed' <=> x \in Noticed
  PROVE  Noticed' = Noticed
BY View, ViewNext

LEMMA DueSame ==
  ASSUME \A x \in Events : Due'[x] = Due[x]
  PROVE  Due' = Due
BY View, ViewNext

\* One event's time changes.
LEMMA DueOnly ==
  ASSUME NEW e \in Events, NEW t, Due'[e] = t, \A x \in Events : x # e => Due'[x] = Due[x]
  PROVE  Due' = [Due EXCEPT ![e] = t]
<1> DEFINE d == Due  f == Due'
<1>1. d = [x \in Events |-> d[x]] /\ f = [x \in Events |-> f[x]]
  BY View, ViewNext
<1>2. f[e] = t /\ \A x \in Events : x # e => f[x] = d[x]
  OBVIOUS
<1> HIDE DEF d, f
<1>3. f = [d EXCEPT ![e] = t]
  BY <1>1, <1>2
<1> QED
  BY <1>3 DEF d, f

\* The time the loop goes by never goes back, nor past the clock.
LEMMA TimeGoesOn ==
  ASSUME LoopInv, [Next]_vars
  PROVE  Now' \in Now..clock'
<1>1. tvCache \in 0..clock /\ clock \in Nat /\ clock >= 1
  BY Facts DEF Control
<1>2. \/ tvCache' = tvCache /\ clock' = clock
      \/ tvCache' \in {0, clock} /\ clock' = clock
      \/ tvCache' = tvCache /\ clock' = clock + 1
  BY DEF Next, vars, world, Enter, Broken, NoEvents, Leave, Poll, Dispatch, Interrupted,
       DispatchFails, Expire, Expired, ProcessActive, CallbackReturns, LoopBreak, Drain, Tick,
       EventAdd, EventDel, LoopExit, BecomesReady
<1> QED
  BY <1>1, <1>2 DEF Now

\* The steps that leave the lists alone, and the calls.
LEMMA QuietApi ==
  ASSUME LoopInv, QuietAction, Now' \in Now..clock'
  PROVE  Api!Next
<1>1. /\ inserted' = inserted /\ active' = active /\ heap' = heap /\ timeout' = timeout
      /\ interval' = interval /\ res' = res
  BY QuietLists DEF lists
<1>2. Asked' = Asked /\ Noticed' = Noticed /\ Due' = Due
  BY <1>1 DEF Asked, Noticed, Due, DueAt, Flags
<1>3. loop = "callback" <=> current # NoEvent
  BY Facts DEF Stages
<1>4. ops' = ops /\ call' = call
  BY DEF QuietAction, Enter, Broken, NoEvents, Poll, Interrupted, DispatchFails, Expired,
       CallbackReturns, LoopBreak, Drain, Tick, BecomesReady, calls
<1>5. CASE CallbackReturns
  <2>1. current # NoEvent /\ current' = NoEvent /\ clock' = clock /\ ready' = ready
    BY <1>3, <1>5 DEF CallbackReturns, world
  <2> QED
    BY <1>1, <1>2, <1>4, <2>1 DEF Api!Next, Api!Return, Due
<1>6. CASE ~CallbackReturns
  <2>1. current' = current /\ clock' \in {clock, clock + 1}
    BY <1>6 DEF QuietAction, Enter, Broken, NoEvents, Poll, Interrupted, DispatchFails, Expired,
         LoopBreak, Drain, Tick, BecomesReady, world
  <2> QED
    BY <1>1, <1>2, <1>4, <2>1 DEF Api!Next, Api!Environment, Due
<1> QED
  BY <1>5, <1>6

\* event_add is Add: without a timeout it clears none, when the program never adds an
\* event without one that has one.
LEMMA AddApi ==
  ASSUME LoopInv, ~DropsTimeouts, NEW e \in Events, EventAdd(e), Now' \in Now..clock'
  PROVE  Api!Next
<1>1. /\ Lists /\ Causes /\ Now \in 1..clock /\ clock \in Nat /\ timeout \in [Events -> Nat]
      /\ interval = [x \in Events |-> interval[x]] /\ inserted \subseteq IO
  BY Facts DEF Lists
<1>2. current' = current /\ clock' = clock /\ ready' = ready
  BY DEF EventAdd, world
<1>3. ASSUME e \in IO, Timeless(e), Called("event_add", e, NULL), Becomes(AddForever(Base, e))
      PROVE  Api!Next
  <2>1. /\ timeout' = timeout /\ interval' = interval /\ res' = res
        /\ inserted' = IF e \in IO /\ ~Contains(active, e) THEN inserted \cup {e} ELSE inserted
        /\ \A x \in Events : Contains(active', x) <=> Contains(active, x)
        /\ \A x \in Events : InHeap(heap', x) <=> InHeap(heap, x)
    BY <1>1, <1>3, AddForeverEffect
  <2>2. Due' = [Due EXCEPT ![e] = 0]
    <3>1. \A x \in Events : Timed(x)' <=> Timed(x)
      BY <2>1 DEF Timed
    <3>2. \A x \in Events : Due'[x] = Due[x]
      BY <2>1, <3>1, View, ViewNext
    <3>3. Due[e] = 0
      BY <1>3, View DEF Timeless, Timed
    <3> QED
      BY <3>2, <3>3, DueOnly
  <2>3. Noticed' = Noticed
    <3>1. \A x \in Events : x \in Noticed' <=> x \in Noticed
      BY <2>1, View, ViewNext
    <3> QED
      BY <3>1, NoticedSame
  <2>4. Asked' = Asked \cup {e}
    <3>1. \A x \in Events : x \in Asked' <=> x \in Asked \/ x = e
      BY <1>3, <2>1, View, ViewNext
    <3> QED
      BY <3>1, View, ViewNext
  <2>5. interval' = IF e \in Persist THEN [interval EXCEPT ![e] = 0] ELSE interval
    <3>1. interval[e] = 0
      BY <1>3 DEF Timeless
    <3> QED
      BY <1>1, <2>1, <3>1
  <2>6. Api!Add(e, NULL)
    BY <1>2, <1>3, <2>2, <2>3, <2>4, <2>5 DEF Api!Add, Api!Called, Called, Api!NULL, NULL, Due
  <2> QED
    BY <2>6 DEF Api!Next, Api!NULL, NULL
<1>4. ASSUME NEW i \in Intervals, Called("event_add", e, i),
             Becomes(Remember(AddUntil(Base, e, Now + i), e, i))
      PROVE  Api!Next
  <2> DEFINE t == Now + i
  <2>1. t \in Nat
    BY <1>1, EventLoopAssumption
  <2>2. Becomes(Remember(AddUntil(Base, e, t), e, i))
    BY <1>4
  <2> HIDE DEF t
  <2>3. /\ res' = res /\ timeout' = [timeout EXCEPT ![e] = t]
        /\ interval' = IF e \in Persist THEN [interval EXCEPT ![e] = i] ELSE interval
        /\ inserted' = IF e \in IO /\ ~Contains(active, e) THEN inserted \cup {e} ELSE inserted
        /\ \A x \in Events : Contains(active', x)
                               <=> Contains(active, x) /\ ~(x = e /\ "timeout" \in res[e])
        /\ \A x \in Events : InHeap(heap', x) <=> InHeap(heap, x) \/ x = e
    BY <1>1, <2>1, <2>2, AddUntilEffect
  <2>4. Asked' = Asked \cup {e}
    <3>1. \A x \in Events : x \in Asked' <=> x \in Asked \/ x = e
      BY <2>3, View, ViewNext
    <3> QED
      BY <3>1, View, ViewNext
  <2>5. Due' = [Due EXCEPT ![e] = t]
    <3>1. Due'[e] = t
      BY <1>1, <2>3, ViewNext DEF Timed
    <3>2. ASSUME NEW x \in Events, x # e
          PROVE  Due'[x] = Due[x]
      <4>1. (Timed(x)' <=> Timed(x)) /\ timeout'[x] = timeout[x]
        BY <1>1, <2>3, <3>2 DEF Timed
      <4> QED
        BY <4>1, View, ViewNext
    <3> QED
      BY <3>1, <3>2, DueOnly
  <2>6. Noticed' = Noticed
    <3>1. Contains(active, e) /\ "io" \in res[e] => ~("timeout" \in res[e])
      BY <1>1 DEF Causes
    <3>2. \A x \in Events : x \in Noticed' <=> x \in Noticed
      BY <2>3, <3>1, View, ViewNext
    <3> QED
      BY <3>2, NoticedSame
  <2>7. Api!Add(e, i)
    <3>1. Due' = [Due EXCEPT ![e] = Now + i]
      BY <2>5 DEF t
    <3>2. i # NULL
      BY EventLoopAssumption DEF NULL
    <3> QED
      BY <1>2, <1>4, <2>3, <2>4, <2>6, <3>1, <3>2
         DEF Api!Add, Api!Called, Called, Api!NULL, NULL, Due
  <2> QED
    BY <2>7 DEF Api!Next
<1>5. \/ e \in IO /\ Timeless(e) /\ Called("event_add", e, NULL) /\ Becomes(AddForever(Base, e))
      \/ \E i \in Intervals : /\ Called("event_add", e, i)
                             /\ Becomes(Remember(AddUntil(Base, e, Now + i), e, i))
  BY DEF EventAdd
<1> QED
  BY <1>3, <1>4, <1>5

\* event_del is Del.
LEMMA DelApi ==
  ASSUME LoopInv, NEW e \in Events, EventDel(e), Now' \in Now..clock'
  PROVE  Api!Next
<1>1. Lists
  BY Facts
<1>2. current' = current /\ clock' = clock /\ ready' = ready
  BY DEF EventDel, world
<1>3. /\ inserted' = inserted \ {e} /\ timeout' = timeout /\ interval' = interval /\ res' = res
      /\ \A x \in Events : Contains(active', x) <=> Contains(active, x) /\ x # e
      /\ \A x \in Events : InHeap(heap', x) <=> InHeap(heap, x) /\ x # e
  BY <1>1, DelEffect DEF EventDel
<1>4. Asked' = Asked \ {e}
  <2>1. \A x \in Events : x \in Asked' <=> x \in Asked /\ x # e
    BY <1>3, View, ViewNext
  <2> QED
    BY <2>1, View, ViewNext
<1>5. Noticed' = Noticed \ {e}
  <2>1. \A x \in Events : x \in Noticed' <=> x \in Noticed /\ x # e
    BY <1>3, View, ViewNext
  <2> QED
    BY <2>1, View, ViewNext
<1>6. Due' = [Due EXCEPT ![e] = 0]
  <2>1. Due'[e] = 0
    BY <1>3, ViewNext DEF Timed
  <2>2. \A x \in Events : x # e => (Timed(x)' <=> Timed(x))
    BY <1>3 DEF Timed
  <2>3. \A x \in Events : x # e => Due'[x] = Due[x]
    BY <1>3, <2>2, View, ViewNext
  <2> QED
    BY <2>1, <2>3, DueOnly
<1>7. Api!Del(e)
  BY <1>2, <1>3, <1>4, <1>5, <1>6 DEF EventDel, Api!Del, Api!Called, Called, Api!NULL, NULL, Due
<1> QED
  BY <1>7 DEF Api!Next

\* The loop's own steps.
LEMMA DispatchApi ==
  ASSUME LoopInv, Dispatch, Now' \in Now..clock'
  PROVE  Api!Next
<1> DEFINE found == inserted \cap ready
           new   == {e \in found : ~Contains(active, e)}
           S     == {x \in found : Contains(active', x)}
<1>1. Lists /\ Causes /\ found \subseteq Events
  BY Facts, EventLoopAssumption DEF Lists
<1>2. current' = current /\ clock' = clock /\ ready' = ready /\ UNCHANGED <<ops, call>>
  BY DEF Dispatch, world, calls
<1>3. /\ inserted' = inserted /\ timeout' = timeout /\ interval' = interval /\ heap' = heap
      /\ res' = [e \in Events |-> IF e \in new THEN {"io"}
                                ELSE IF e \in found THEN res[e] \cup {"io"} ELSE res[e]]
      /\ \A x : Contains(active, x) => Contains(active', x)
      /\ \A x : Contains(active', x) => Contains(active, x) \/ x \in new
  BY <1>1, DispatchEffect
<1>4. \A x \in Events : /\ x \in new <=> x \in found /\ ~Contains(active, x)
                        /\ x \in new => res'[x] = {"io"}
                        /\ x \in found /\ x \notin new => res'[x] = res[x] \cup {"io"}
                        /\ x \notin found => res'[x] = res[x]
                        /\ x \in found <=> x \in inserted /\ x \in ready
                        /\ x \in S <=> x \in found /\ Contains(active', x)
  BY <1>3
<1>5. S \subseteq Events /\ S \subseteq ready
  BY <1>1
<1> HIDE DEF found, new, S
<1>6. Asked' = Asked
  <2>1. \A x \in Events : x \in Asked' <=> x \in Asked
    BY <1>3, <1>4, View, ViewNext
  <2> QED
    BY <2>1, AskedSame
<1>7. Due' = Due
  <2>1. \A x \in Events : Timed(x)' <=> Timed(x)
    BY <1>3, <1>4 DEF Timed
  <2>2. \A x \in Events : Due'[x] = Due[x]
    BY <1>3, <2>1, View, ViewNext
  <2> QED
    BY <2>2, DueSame
<1>8. Noticed' = Noticed \cup S
  <2>1. ASSUME NEW x \in Events
        PROVE  x \in Noticed' <=> x \in Noticed \/ x \in S
    <3>1. CASE x \in new
      BY <1>3, <1>4, <3>1, View, ViewNext
    <3>2. CASE x \notin new /\ x \in found
      BY <1>3, <1>4, <3>2, View, ViewNext
    <3>3. CASE x \notin new /\ x \notin found
      BY <1>3, <1>4, <3>3, View, ViewNext
    <3> QED
      BY <3>1, <3>2, <3>3
  <2> QED
    BY <1>5, <2>1, View, ViewNext
<1>9. S \subseteq Asked \cap ready
  BY <1>4, <1>5, View
<1>10. Api!Notice(S)
  BY <1>2, <1>3, <1>6, <1>7, <1>8, <1>9 DEF Api!Notice, Due
<1> QED
  BY <1>5, <1>10 DEF Api!Next

\* timeout_process's loop, one event: Expire.
LEMMA ExpireApi ==
  ASSUME LoopInv, Expire, Now' \in Now..clock'
  PROVE  Api!Next
<1> DEFINE e == HeapTop(heap)
<1>1. /\ Lists /\ Causes /\ timeout \in [Events -> Nat]
      /\ res \in [Events -> SUBSET {"io", "timeout"}]
      /\ Now \in 1..clock /\ clock \in Nat
  BY Facts DEF Lists
<1>2. /\ current' = current /\ clock' = clock /\ ready' = ready /\ IsDue
      /\ UNCHANGED <<ops, call>>
      /\ Becomes(ActiveNolock(DelInternal(Base, e), e, "timeout"))
  BY DEF Expire, world, calls
<1>3. e \in Events /\ InHeap(heap, e) /\ timeout[e] <= Now
  BY <1>1, <1>2, TopFacts
<1> HIDE DEF e
<1>4. /\ inserted' = inserted \ {e} /\ timeout' = timeout /\ interval' = interval
      /\ res' = [res EXCEPT ![e] = {"timeout"}]
      /\ \A x \in Events : Contains(active', x) <=> Contains(active, x) \/ x = e
      /\ \A x \in Events : InHeap(heap', x) <=> InHeap(heap, x) /\ x # e
  BY <1>1, <1>2, <1>3, ExpireEffect
<1>5. timeout[e] >= 1 /\ timeout[e] <= clock /\ timeout[e] \in Nat
  BY <1>1, <1>3 DEF Causes
<1>6. res'[e] = {"timeout"} /\ \A x \in Events : x # e => res'[x] = res[x]
  BY <1>1, <1>3, <1>4
<1>7. Asked' = Asked
  <2>1. \A x \in Events : x \in Asked' <=> x \in Asked
    BY <1>3, <1>4, View, ViewNext
  <2> QED
    BY <2>1, AskedSame
<1>8. Due' = Due
  <2>1. \A x \in Events : Timed(x)' <=> Timed(x)
    BY <1>3, <1>4, <1>6 DEF Timed
  <2>2. \A x \in Events : Due'[x] = Due[x]
    BY <1>4, <2>1, View, ViewNext
  <2> QED
    BY <2>2, DueSame
<1>9. Noticed' = Noticed \ {e}
  <2>1. \A x \in Events : x \in Noticed' <=> x \in Noticed /\ x # e
    BY <1>4, <1>6, View, ViewNext
  <2> QED
    BY <2>1, View, ViewNext
<1>10. Due[e] # 0 /\ Due[e] <= clock
  BY <1>3, <1>5, View DEF Timed
<1>11. Api!Expire(e)
  BY <1>2, <1>4, <1>7, <1>8, <1>9, <1>10 DEF Api!Expire, Api!Overdue, Due
<1> QED
  BY <1>3, <1>11 DEF Api!Next

\* A callback of a persistent event: with a period its timeout starts again, from
\* the time it was due or from now.
LEMMA PersistApi ==
  ASSUME LoopInv, current = NoEvent, NEW e \in Events, Contains(active, e), e \in Persist,
         current' = e, clock' = clock, ready' = ready, UNCHANGED <<ops, call>>,
         Becomes(PersistClosure(Deactivate(Base, e), e))
  PROVE  Api!Call(e)
<1> DEFINE again == interval[e] # 0
           t == interval[e] + (IF "timeout" \in res[e] THEN timeout[e] ELSE Now)
<1>1. /\ Lists /\ Causes /\ timeout \in [Events -> Nat] /\ Now \in 1..clock
      /\ Now \in Nat /\ clock \in Nat
  BY Facts DEF Lists
<1>2. /\ interval' = interval /\ res' = res
      /\ timeout' = IF again THEN [timeout EXCEPT ![e] = t] ELSE timeout
      /\ inserted' = IF again /\ e \in IO THEN inserted \cup {e} ELSE inserted
      /\ \A x \in Events : Contains(active', x) <=> Contains(active, x) /\ x # e
      /\ \A x \in Events : InHeap(heap', x) <=> InHeap(heap, x) \/ (again /\ x = e)
  BY <1>1, PersistEffect
<1>3. interval[e] \in Nat
  <2>1. interval[e] \in Intervals \cup {0}
    BY <1>1 DEF Lists
  <2>2. Intervals \cup {0} \subseteq Nat
    BY EventLoopAssumption
  <2> HIDE DEF again, t
  <2> QED
    BY <2>1, <2>2
<1>4. again <=> interval[e] > 0
  BY <1>3
<1>5. t = IF "timeout" \in res[e] THEN interval[e] + timeout[e] ELSE interval[e] + Now
  OBVIOUS
<1>6. e \in Asked
  BY View
<1>7. Noticed' = Noticed \ {e}
  <2>1. \A x \in Events : x \in Noticed' <=> x \in Noticed /\ x # e
    BY <1>2, View, ViewNext
  <2> QED
    BY <2>1, View, ViewNext
<1> HIDE DEF again, t
<1>8. \A x \in Events : x # e => Due'[x] = Due[x]
  <2>1. ASSUME NEW x \in Events, x # e
        PROVE  Due'[x] = Due[x]
    <3>1. (Timed(x)' <=> Timed(x)) /\ timeout'[x] = timeout[x]
      BY <1>1, <1>2, <2>1 DEF Timed
    <3> QED
      BY <3>1, View, ViewNext
  <2> QED
    BY <2>1
<1>9. \A x \in Events : x # e => (x \in Asked' <=> x \in Asked)
  BY <1>2, View, ViewNext
<1>10. CASE res[e] = {"timeout"}
  <2>1. e \notin inserted /\ ~InHeap(heap, e) /\ 1 <= timeout[e] /\ timeout[e] <= clock
    BY <1>1, <1>10 DEF Causes
  <2>2. Due[e] = timeout[e]
    BY <1>10, View DEF Timed
  <2>3. Due[e] # 0 /\ Due[e] <= clock
    BY <1>1, <2>1, <2>2
  <2>4. CASE again
    <3>1. e \in Asked'
      BY <1>2, <2>4, ViewNext
    <3>2. Asked' = Asked
      BY <1>6, <1>9, <3>1, AskedSame
    <3>3. Due'[e] = Due[e] + interval[e]
      <4>1. Due'[e] = t
        BY <1>1, <1>2, <2>4, ViewNext DEF Timed
      <4>2. timeout[e] \in Nat
        BY <1>1
      <4> QED
        BY <1>3, <1>5, <1>10, <2>2, <4>1, <4>2
    <3>4. Due' = [Due EXCEPT ![e] = Due[e] + interval[e]]
      BY <1>8, <3>3, DueOnly
    <3>5. Due' = [Due EXCEPT ![e] = @ + interval[e]]
      BY <3>4
    <3> QED
      BY <1>2, <1>4, <1>6, <1>7, <2>3, <2>4, <3>2, <3>5 DEF Api!Call, Api!Overdue, Due
  <2>5. CASE ~again
    <3>1. e \notin Asked'
      BY <1>2, <2>1, <2>5, ViewNext
    <3>2. Asked' = Asked \ {e}
      BY <1>9, <3>1, View, ViewNext
    <3>3. Due'[e] = 0
      BY <1>2, <2>1, <2>5, ViewNext DEF Timed
    <3>4. Due' = [Due EXCEPT ![e] = 0]
      BY <1>8, <3>3, DueOnly
    <3> QED
      BY <1>2, <1>4, <1>6, <1>7, <2>3, <2>5, <3>2, <3>4 DEF Api!Call, Api!Overdue, Due
  <2> QED
    BY <2>4, <2>5
<1>11. CASE res[e] = {"io"} /\ e \in inserted
  <2>1. e \in Noticed
    BY <1>11, View
  <2>2. e \in Asked'
    BY <1>2, <1>11, ViewNext
  <2>3. Asked' = Asked
    BY <1>6, <1>9, <2>2, AskedSame
  <2>4. CASE again
    <3>1. Due'[e] = Now + interval[e]
      <4>1. Due'[e] = t
        BY <1>1, <1>2, <2>4, ViewNext DEF Timed
      <4> QED
        BY <1>1, <1>3, <1>5, <1>11, <4>1
    <3>2. Due' = [Due EXCEPT ![e] = Now + interval[e]]
      BY <1>8, <3>1, DueOnly
    <3> QED
      BY <1>2, <1>4, <1>6, <1>7, <2>1, <2>3, <2>4, <3>2 DEF Api!Call, Due
  <2>5. CASE ~again
    <3>1. Due'[e] = Due[e]
      BY <1>2, <1>11, <2>5, View, ViewNext DEF Timed
    <3>2. Due' = Due
      BY <1>8, <3>1, DueSame
    <3> QED
      BY <1>2, <1>4, <1>6, <1>7, <2>1, <2>3, <2>5, <3>2 DEF Api!Call, Due
  <2> QED
    BY <2>4, <2>5
<1> QED
  BY <1>1, <1>10, <1>11 DEF Causes

\* A callback of any other event: it is on no list any more.
LEMMA OnceApi ==
  ASSUME LoopInv, current = NoEvent, NEW e \in Events, Contains(active, e), e \notin Persist,
         current' = e, clock' = clock, ready' = ready, UNCHANGED <<ops, call>>, Becomes(DelInternal(Base, e))
  PROVE  Api!Call(e)
<1>1. Lists /\ Causes /\ clock \in Nat /\ timeout \in [Events -> Nat]
  BY Facts DEF Lists
<1>2. /\ inserted' = inserted \ {e} /\ timeout' = timeout /\ interval' = interval /\ res' = res
      /\ \A x \in Events : Contains(active', x) <=> Contains(active, x) /\ x # e
      /\ \A x \in Events : InHeap(heap', x) <=> InHeap(heap, x) /\ x # e
  BY <1>1, DelEffect
<1>3. e \in Asked
  BY View
<1>4. Asked' = Asked \ {e}
  <2>1. \A x \in Events : x \in Asked' <=> x \in Asked /\ x # e
    BY <1>2, View, ViewNext
  <2> QED
    BY <2>1, View, ViewNext
<1>5. Noticed' = Noticed \ {e}
  <2>1. \A x \in Events : x \in Noticed' <=> x \in Noticed /\ x # e
    BY <1>2, View, ViewNext
  <2> QED
    BY <2>1, View, ViewNext
<1>6. Due' = [Due EXCEPT ![e] = 0]
  <2>1. Due'[e] = 0
    BY <1>2, ViewNext DEF Timed
  <2>2. \A x \in Events : x # e => (Timed(x)' <=> Timed(x))
    BY <1>2 DEF Timed
  <2>3. \A x \in Events : x # e => Due'[x] = Due[x]
    BY <1>2, <2>2, View, ViewNext
  <2> QED
    BY <2>1, <2>3, DueOnly
<1>7. e \in Noticed \/ (Due[e] # 0 /\ Due[e] <= clock)
  <2>1. CASE res[e] = {"io"}
    BY <2>1, View
  <2>2. CASE res[e] = {"timeout"} /\ 1 <= timeout[e] /\ timeout[e] <= clock
    <3>1. Due[e] = timeout[e] /\ timeout[e] \in Nat
      BY <1>1, <2>2, View DEF Timed
    <3> QED
      BY <1>1, <2>2, <3>1
  <2> QED
    BY <1>1, <2>1, <2>2 DEF Causes
<1> QED
  BY <1>2, <1>3, <1>4, <1>5, <1>6, <1>7 DEF Api!Call, Api!Overdue, Due

\* event_process_active_single_queue, one event: Call.
LEMMA ProcessApi ==
  ASSUME LoopInv, ProcessActive, Now' \in Now..clock'
  PROVE  Api!Next
<1> DEFINE e == Head(active)
<1>1. Lists /\ Stages
  BY Facts
<1>2. /\ loop = "active" /\ current' = e /\ clock' = clock /\ ready' = ready
      /\ UNCHANGED <<ops, call>>
      /\ Becomes(IF e \in Persist THEN PersistClosure(Deactivate(Base, e), e)
                 ELSE DelInternal(Base, e))
  BY DEF ProcessActive, world, calls
<1>3. e \in Events /\ Contains(active, e) /\ current = NoEvent
  BY <1>1, <1>2, HeadQueue DEF Lists, Stages
<1> HIDE DEF e
<1>4. Api!Call(e)
  BY <1>2, <1>3, PersistApi, OnceApi
<1> QED
  BY <1>3, <1>4 DEF Api!Next

\* A step of something else, and the initial state.
LEMMA StutterApi ==
  ASSUME UNCHANGED vars
  PROVE  UNCHANGED Api!vars
BY DEF vars, lists, world, calls, Now, Api!vars, Asked, Noticed, DueAt, Flags

LEMMA InitApi == Init => Api!Init
<1> SUFFICES ASSUME Init PROVE Api!Init
  OBVIOUS
<1>1. /\ inserted = {} /\ \A x \in Events : ~Contains(active, x) /\ ~InHeap(heap, x)
      /\ interval = [x \in Events |-> 0] /\ ready = {} /\ current = NoEvent /\ clock = 1
      /\ Now = 1 /\ ops = 0 /\ call = [fn |-> "none", ev |-> NoEvent, tv |-> NULL]
  BY DEF Init, EmptyHeap, InHeap, Contains, Now
<1>2. Asked = {} /\ Noticed = {} /\ Due = [x \in Events |-> 0]
  BY <1>1 DEF Asked, Noticed, Due, DueAt, Flags
<1> QED
  BY <1>1, <1>2 DEF Api!Init, Api!NULL, NULL, Due

\* What event.h promises its user holds of the lists, for any events and times, in a
\* program that adds no event without a timeout while it has one: every step of the loop
\* and every call is one step of the promise (event_add_internal, event_del_internal,
\* event_persist_closure, timeout_process).
THEOREM KeepsThePromise == ~DropsTimeouts => (Spec => ImplementsEventApi)
<1> SUFFICES ASSUME ~DropsTimeouts PROVE Spec => ImplementsEventApi
  OBVIOUS
<1>1. LoopInv /\ [Next]_vars => [Api!Next]_(Api!vars)
  <2> SUFFICES ASSUME LoopInv, [Next]_vars PROVE [Api!Next]_(Api!vars)
    OBVIOUS
  <2>1. Now' \in Now..clock'
    BY TimeGoesOn
  <2>2. CASE QuietAction
    BY <2>1, <2>2, QuietApi
  <2>3. CASE UNCHANGED vars
    BY <2>3, StutterApi
  <2>4. ASSUME NEW e \in Events, EventAdd(e) \/ EventDel(e)
        PROVE  Api!Next
    BY <2>1, <2>4, AddApi, DelApi
  <2>5. ASSUME NEW x \in Exits, LoopExit(x)
        PROVE  Api!Next
    BY <2>1, <2>5, ExitIsAdd, AddApi
  <2>6. CASE Dispatch \/ Expire \/ ProcessActive
    BY <2>1, <2>6, DispatchApi, ExpireApi, ProcessApi
  <2> QED
    BY <2>2, <2>3, <2>4, <2>5, <2>6 DEF Next, QuietAction
<1> QED
  BY <1>1, InitApi, Invariant, PTL DEF Spec, ImplementsEventApi, Api!Spec
=============================================================================
