------------------------- MODULE IoWorkQueueProofs -------------------------
(***************************************************************************)
(* For any number of entries, of operations and of ticks of the clock: the *)
(* two lists share the entries whatever the worker is reading, requests    *)
(* are sorted, a request is refused only when the queue is full, and       *)
(* unless the worker has read a half-filled entry each request is          *)
(* completed at most once and no entry is freed before.                    *)
(*                                                                         *)
(* A linked list is stated by the sequence of its entries: a function on   *)
(* 0 .. n - 1 without repetition that the links follow.                    *)
(***************************************************************************)
EXTENDS IoWorkQueue, Induction

-----------------------------------------------------------------------------
(* The walk along a link is well defined.                                  *)

After(e, f) == IF e = NIL THEN NIL ELSE Field(e, f)

ChainFrom(start, f, at, n) ==
  at = [k \in 0 .. n |-> IF k = 0 THEN start ELSE After(at[k - 1], f)]

LEMMA ChainExists ==
  ASSUME NEW start, NEW f
  PROVE  \E at : ChainFrom(start, f, at, NR_MAX_PARALLEL_IO)
<1> DEFINE N == NR_MAX_PARALLEL_IO
           T == {n \in 0 .. N : \E at : ChainFrom(start, f, at, n)}
<1>0. N \in Nat
  BY WorkQueueAssumption
<1>1. 0 \in T
  <2>1. ChainFrom(start, f, [k \in 0 .. 0 |-> start], 0)
    BY DEF ChainFrom
  <2> QED BY <1>0, <2>1
<1>2. ASSUME NEW n \in 0 .. N - 1, n \in T PROVE n + 1 \in T
  <2>1. PICK at : ChainFrom(start, f, at, n)
    BY <1>2
  <2> DEFINE more == [k \in 0 .. n + 1 |-> IF k <= n THEN at[k] ELSE After(at[n], f)]
  <2>2. n \in Nat /\ n + 1 \in 0 .. N
    BY <1>0
  <2>3. \A k \in 0 .. n + 1 : more[k] = IF k = 0 THEN start ELSE After(more[k - 1], f)
    BY <2>1, <2>2 DEF ChainFrom
  <2>4. more = [k \in 0 .. n + 1 |-> more[k]]
    OBVIOUS
  <2> HIDE DEF more
  <2>5. ChainFrom(start, f, more, n + 1)
    BY <2>3, <2>4 DEF ChainFrom
  <2> QED BY <2>2, <2>5
<1> HIDE DEF T
<1>3. N \in 0 .. N
  BY <1>0
<1>4. N \in T
  BY <1>0, <1>1, <1>2, <1>3, InductionTo
<1> QED BY <1>4 DEF T

LEMMA ChainStep ==
  ASSUME NEW start, NEW f
  PROVE  /\ Chain(start, f)[0] = start
         /\ DOMAIN Chain(start, f) = 0 .. NR_MAX_PARALLEL_IO
         /\ \A k \in 0 .. NR_MAX_PARALLEL_IO - 1 :
              Chain(start, f)[k + 1] = After(Chain(start, f)[k], f)
<1> DEFINE F(at) == [k \in 0 .. NR_MAX_PARALLEL_IO |->
                       IF k = 0 THEN start
                       ELSE IF at[k - 1] = NIL THEN NIL ELSE Field(at[k - 1], f)]
<1>1. \A at : ChainFrom(start, f, at, NR_MAX_PARALLEL_IO) <=> at = F(at)
  BY DEF ChainFrom, After
<1>2. \E at : at = F(at)
  BY <1>1, ChainExists
<1>3. Chain(start, f) = CHOOSE at : at = F(at)
  BY DEF Chain
<1> HIDE DEF F
<1>4. Chain(start, f) = F(Chain(start, f))
  BY <1>2, <1>3
<1>5. ChainFrom(start, f, Chain(start, f), NR_MAX_PARALLEL_IO)
  BY <1>1, <1>4
<1>6. NR_MAX_PARALLEL_IO \in Nat
  BY WorkQueueAssumption
<1> QED BY <1>5, <1>6 DEF ChainFrom

-----------------------------------------------------------------------------
(* Lists.                                                                  *)

IsList(g, n) ==
  /\ n \in Nat /\ g \in [0 .. n - 1 -> Entries]
  /\ \A j, k \in 0 .. n - 1 : g[j] = g[k] => j = k

In(e, g, n) == \E k \in 0 .. n - 1 : e = g[k]

(* The links of the entries in the array w run along the list.             *)
Forward(w, g, n) == \A k \in 0 .. n - 1 : w[g[k]].next = IF k = n - 1 THEN NIL ELSE g[k + 1]
Backward(w, g, n) == \A k \in 0 .. n - 1 : w[g[k]].prev = IF k = 0 THEN NIL ELSE g[k - 1]

LEMMA EntriesNotNil == NIL \notin Entries
BY DEF NIL, Entries

LEMMA ListShort ==
  ASSUME NEW g, NEW n, IsList(g, n)
  PROVE  n <= NR_MAX_PARALLEL_IO
<1>0. NR_MAX_PARALLEL_IO \in Nat /\ n \in Nat
  BY WorkQueueAssumption DEF IsList
<1>1. g \in Injection(0 .. n - 1, Entries)
  BY DEF IsList, Injection, IsInjective
<1>2. IsFiniteSet(Entries) /\ Cardinality(Entries) = NR_MAX_PARALLEL_IO
  BY <1>0, FS_Interval, WorkQueueAssumption DEF Entries
<1>3. Cardinality(0 .. n - 1) <= Cardinality(Entries)
  BY <1>1, <1>2, FS_Injection
<1>4. Cardinality(0 .. n - 1) = n
  BY <1>0, FS_Interval
<1> QED BY <1>2, <1>3, <1>4

(* The walk from the head of a list comes by its entries, and ends.        *)
LEMMA ChainIsList ==
  ASSUME NEW g, NEW n, IsList(g, n), Forward(work_queue, g, n)
  PROVE  \A k \in 0 .. NR_MAX_PARALLEL_IO :
           Chain(IF n = 0 THEN NIL ELSE g[0], "next")[k] = IF k < n THEN g[k] ELSE NIL
<1> DEFINE N == NR_MAX_PARALLEL_IO
           start == IF n = 0 THEN NIL ELSE g[0]
           T == {k \in 0 .. N : Chain(start, "next")[k] = IF k < n THEN g[k] ELSE NIL}
<1>0. N \in Nat /\ n \in Nat
  BY WorkQueueAssumption DEF IsList
<1>1. 0 \in T
  BY <1>0, ChainStep
<1>2. ASSUME NEW k \in 0 .. N - 1, k \in T PROVE k + 1 \in T
  <2>1. k \in Nat /\ k + 1 \in 0 .. N
    BY <1>0
  <2>2. Chain(start, "next")[k + 1] = After(Chain(start, "next")[k], "next")
    BY ChainStep
  <2>3. CASE k < n
    <3>1. k \in 0 .. n - 1 /\ (k = n - 1 <=> ~(k + 1 < n))
      BY <1>0, <2>1, <2>3
    <3>2. Chain(start, "next")[k] = g[k] /\ g[k] \in Entries
      BY <1>2, <2>3, <3>1 DEF IsList
    <3>3. work_queue[g[k]].next = IF k = n - 1 THEN NIL ELSE g[k + 1]
      BY <3>1 DEF Forward
    <3>4. After(g[k], "next") = work_queue[g[k]].next
      BY <3>2, EntriesNotNil DEF After, Field
    <3> HIDE DEF start
    <3>5. Chain(start, "next")[k + 1] = IF k + 1 < n THEN g[k + 1] ELSE NIL
      BY <2>2, <3>1, <3>2, <3>3, <3>4
    <3> QED BY <2>1, <3>5
  <2>4. CASE ~(k < n)
    <3>1. ~(k + 1 < n) /\ Chain(start, "next")[k] = NIL
      BY <1>0, <1>2, <2>1, <2>4
    <3>2. Chain(start, "next")[k + 1] = NIL
      BY <2>2, <3>1 DEF After
    <3> QED BY <2>1, <3>1, <3>2
  <2> QED BY <2>3, <2>4
<1> HIDE DEF T
<1>3. 0 .. N \subseteq T
  BY <1>0, <1>1, <1>2, InductionTo
<1> QED BY <1>3 DEF T

(* And so does the walk back from its end.                                 *)
LEMMA ChainIsListBack ==
  ASSUME NEW g, NEW n, IsList(g, n), n > 0, Backward(work_queue, g, n)
  PROVE  \A k \in 0 .. NR_MAX_PARALLEL_IO :
           Chain(g[n - 1], "prev")[k] = IF k < n THEN g[n - 1 - k] ELSE NIL
<1> DEFINE N == NR_MAX_PARALLEL_IO
           C(k) == Chain(g[n - 1], "prev")[k]
           T == {k \in 0 .. N : C(k) = IF k < n THEN g[n - 1 - k] ELSE NIL}
<1>0. N \in Nat /\ n \in Nat /\ n - 1 - 0 = n - 1
  BY WorkQueueAssumption DEF IsList
<1>1. 0 \in T
  BY <1>0, ChainStep
<1>2. ASSUME NEW k \in 0 .. N - 1, k \in T PROVE k + 1 \in T
  <2>1. k \in Nat /\ k + 1 \in 0 .. N
    BY <1>0
  <2>2. C(k + 1) = After(C(k), "prev")
    BY ChainStep
  <2>3. CASE k < n
    <3> DEFINE i == n - 1 - k
    <3>1. i \in 0 .. n - 1 /\ (i = 0 <=> ~(k + 1 < n)) /\ i - 1 = n - 1 - (k + 1)
      BY <1>0, <2>1, <2>3
    <3>2. C(k) = g[i]
      BY <1>2, <2>3
    <3> HIDE DEF i, C
    <3>3. g[i] \in Entries
      BY <3>1 DEF IsList
    <3>4. work_queue[g[i]].prev = IF i = 0 THEN NIL ELSE g[i - 1]
      BY <3>1 DEF Backward
    <3>5. After(g[i], "prev") = work_queue[g[i]].prev
      BY <3>3, EntriesNotNil DEF After, Field
    <3>6. C(k + 1) = IF k + 1 < n THEN g[n - 1 - (k + 1)] ELSE NIL
      BY <2>2, <3>1, <3>2, <3>4, <3>5
    <3> QED BY <2>1, <3>6
  <2>4. CASE ~(k < n)
    <3>1. ~(k + 1 < n) /\ C(k) = NIL
      BY <1>0, <1>2, <2>1, <2>4
    <3>2. C(k + 1) = NIL
      BY <2>2, <3>1 DEF After
    <3> QED BY <2>1, <3>1, <3>2
  <2> QED BY <2>3, <2>4
<1> HIDE DEF T
<1>3. 0 .. N \subseteq T
  BY <1>0, <1>1, <1>2, InductionTo
<1> QED BY <1>3 DEF T

-----------------------------------------------------------------------------
(* What becomes of the sequence of a list when entries come and go.        *)

Dropped(g, n, r) == [k \in 0 .. n - r - 1 |-> g[k + r]]
Joined(h, m, g, r) == [k \in 0 .. m + r - 1 |-> IF k < m THEN h[k] ELSE g[k - m]]
Inserted(g, n, p, x) == [k \in 0 .. n |-> IF k < p THEN g[k] ELSE IF k = p THEN x ELSE g[k - 1]]

(* A link between neighbours stays as long as both ends are left alone.    *)
LEMMA SameForward ==
  ASSUME NEW v, NEW w, NEW g, NEW n, IsList(g, n), Forward(v, g, n),
         \A e \in Entries : In(e, g, n) => w[e].next = v[e].next
  PROVE  Forward(w, g, n)
BY DEF IsList, Forward, In

LEMMA SameBackward ==
  ASSUME NEW v, NEW w, NEW g, NEW n, IsList(g, n), Backward(v, g, n),
         \A e \in Entries : In(e, g, n) => w[e].prev = v[e].prev
  PROVE  Backward(w, g, n)
BY DEF IsList, Backward, In

LEMMA DroppedList ==
  ASSUME NEW g, NEW n, IsList(g, n), NEW r \in 0 .. n
  PROVE  /\ IsList(Dropped(g, n, r), n - r)
         /\ \A k \in 0 .. n - r - 1 : Dropped(g, n, r)[k] = g[k + r]
         /\ \A e : In(e, Dropped(g, n, r), n - r) <=> \E k \in r .. n - 1 : e = g[k]
<1>0. n \in Nat /\ r \in Nat /\ r <= n /\ n - r \in Nat
  BY DEF IsList
<1>1. \A k \in 0 .. n - r - 1 : k + r \in 0 .. n - 1 /\ k + r \in r .. n - 1
  BY <1>0
<1>2. \A k \in 0 .. n - r - 1 : Dropped(g, n, r)[k] = g[k + r]
  BY DEF Dropped
<1>3. Dropped(g, n, r) \in [0 .. n - r - 1 -> Entries]
  BY <1>1 DEF Dropped, IsList
<1>4. ASSUME NEW j \in 0 .. n - r - 1, NEW k \in 0 .. n - r - 1,
             Dropped(g, n, r)[j] = Dropped(g, n, r)[k]
      PROVE  j = k
  <2>1. j + r = k + r
    BY <1>1, <1>2, <1>4 DEF IsList
  <2> QED BY <1>0, <2>1
<1>5. ASSUME NEW k \in r .. n - 1
      PROVE  \E j \in 0 .. n - r - 1 : g[k] = Dropped(g, n, r)[j]
  <2>1. k - r \in 0 .. n - r - 1 /\ (k - r) + r = k
    BY <1>0
  <2> QED BY <1>2, <2>1
<1>6. \A e : In(e, Dropped(g, n, r), n - r) <=> \E k \in r .. n - 1 : e = g[k]
  BY <1>1, <1>2, <1>5 DEF In
<1> QED BY <1>0, <1>2, <1>3, <1>4, <1>6 DEF IsList

LEMMA JoinedList ==
  ASSUME NEW g, NEW n, IsList(g, n), NEW r \in 0 .. n, NEW h, NEW m, IsList(h, m),
         \A e : ~(In(e, g, n) /\ In(e, h, m))
  PROVE  /\ IsList(Joined(h, m, g, r), m + r)
         /\ \A k \in 0 .. m - 1 : k \in 0 .. m + r - 1 /\ Joined(h, m, g, r)[k] = h[k]
         /\ \A k \in 0 .. r - 1 : m + k \in 0 .. m + r - 1 /\ Joined(h, m, g, r)[m + k] = g[k]
         /\ \A e : In(e, Joined(h, m, g, r), m + r) <=> In(e, h, m) \/ \E k \in 0 .. r - 1 : e = g[k]
<1> DEFINE both == Joined(h, m, g, r)
<1>0. n \in Nat /\ r \in Nat /\ r <= n /\ m \in Nat
  BY DEF IsList
<1>1. \A k \in 0 .. m - 1 : k \in 0 .. m + r - 1 /\ both[k] = h[k]
  BY <1>0 DEF Joined
<1>2. \A k \in 0 .. r - 1 : m + k \in 0 .. m + r - 1 /\ both[m + k] = g[k] /\ k \in 0 .. n - 1
  <2> SUFFICES ASSUME NEW k \in 0 .. r - 1
               PROVE  m + k \in 0 .. m + r - 1 /\ both[m + k] = g[k] /\ k \in 0 .. n - 1
    OBVIOUS
  <2>1. m + k \in 0 .. m + r - 1 /\ ~(m + k < m) /\ (m + k) - m = k /\ k \in 0 .. n - 1
    BY <1>0
  <2> QED BY <2>1 DEF Joined
<1>3. \A k \in 0 .. m + r - 1 : \/ k \in 0 .. m - 1 /\ both[k] = h[k]
                                \/ k - m \in 0 .. r - 1 /\ k - m \in 0 .. n - 1 /\ both[k] = g[k - m] /\ ~(k < m)
  BY <1>0 DEF Joined
<1>4. both \in [0 .. m + r - 1 -> Entries]
  <2>1. \A k \in 0 .. m + r - 1 : both[k] \in Entries
    BY <1>3 DEF IsList
  <2> QED BY <2>1 DEF Joined
<1> HIDE DEF both
<1>5. ASSUME NEW a \in 0 .. m + r - 1, NEW b \in 0 .. m + r - 1, both[a] = both[b] PROVE a = b
  <2>1. CASE a \in 0 .. m - 1 /\ both[a] = h[a] /\ b \in 0 .. m - 1 /\ both[b] = h[b]
    BY <1>5, <2>1 DEF IsList
  <2>2. CASE /\ a - m \in 0 .. r - 1 /\ a - m \in 0 .. n - 1 /\ both[a] = g[a - m] /\ ~(a < m)
             /\ b - m \in 0 .. r - 1 /\ b - m \in 0 .. n - 1 /\ both[b] = g[b - m] /\ ~(b < m)
    <3>1. a - m = b - m
      BY <1>5, <2>2 DEF IsList
    <3> QED BY <1>0, <3>1
  <2>3. CASE a \in 0 .. m - 1 /\ both[a] = h[a] /\ b - m \in 0 .. n - 1 /\ both[b] = g[b - m]
    BY <1>5, <2>3 DEF In
  <2>4. CASE b \in 0 .. m - 1 /\ both[b] = h[b] /\ a - m \in 0 .. n - 1 /\ both[a] = g[a - m]
    BY <1>5, <2>4 DEF In
  <2> QED BY <1>3, <2>1, <2>2, <2>3, <2>4
<1>6. m + r - 1 = (m + r) - 1
  BY <1>0
<1>7. \A e : In(e, both, m + r) <=> In(e, h, m) \/ \E k \in 0 .. r - 1 : e = g[k]
  <2>1. ASSUME NEW e, In(e, both, m + r)
        PROVE  In(e, h, m) \/ \E k \in 0 .. r - 1 : e = g[k]
    <3>1. PICK k \in 0 .. m + r - 1 : e = both[k]
      BY <1>6, <2>1 DEF In
    <3> QED BY <1>3, <3>1 DEF In
  <2>2. ASSUME NEW e, In(e, h, m) PROVE In(e, both, m + r)
    BY <1>1, <1>6, <2>2 DEF In
  <2>3. ASSUME NEW k \in 0 .. r - 1 PROVE In(g[k], both, m + r)
    <3>1. m + k \in 0 .. m + r - 1 /\ g[k] = both[m + k]
      BY <1>2
    <3> QED BY <1>6, <3>1 DEF In
  <2> QED BY <2>1, <2>2, <2>3
<1>8. m + r \in Nat
  BY <1>0
<1>9. IsList(both, m + r)
  BY <1>4, <1>5, <1>8, <1>6 DEF IsList
<1> QED BY <1>1, <1>2, <1>7, <1>9 DEF both

LEMMA InsertedList ==
  ASSUME NEW g, NEW n, IsList(g, n), NEW p \in 0 .. n, NEW x \in Entries, ~In(x, g, n)
  PROVE  /\ IsList(Inserted(g, n, p, x), n + 1)
         /\ Inserted(g, n, p, x)[p] = x
         /\ \A k \in 0 .. p - 1 : k \in 0 .. n - 1 /\ Inserted(g, n, p, x)[k] = g[k]
         /\ \A k \in p .. n - 1 : k + 1 \in 0 .. n /\ Inserted(g, n, p, x)[k + 1] = g[k]
         /\ \A e : In(e, Inserted(g, n, p, x), n + 1) <=> In(e, g, n) \/ e = x
<1> DEFINE i == Inserted(g, n, p, x)
<1>0. n \in Nat /\ p \in Nat /\ p <= n
  BY DEF IsList
<1>1. i[p] = x
  BY <1>0 DEF Inserted
<1>2. \A k \in 0 .. p - 1 : k \in 0 .. n - 1 /\ i[k] = g[k]
  BY <1>0 DEF Inserted
<1>3. \A k \in p .. n - 1 : k + 1 \in 0 .. n /\ i[k + 1] = g[k] /\ k \in 0 .. n - 1
  <2> SUFFICES ASSUME NEW k \in p .. n - 1
               PROVE  k + 1 \in 0 .. n /\ i[k + 1] = g[k] /\ k \in 0 .. n - 1
    OBVIOUS
  <2>1. k + 1 \in 0 .. n /\ ~(k + 1 < p) /\ k + 1 # p /\ (k + 1) - 1 = k /\ k \in 0 .. n - 1
    BY <1>0
  <2> QED BY <2>1 DEF Inserted
<1>4. \A k \in 0 .. n : \/ k < p /\ k \in 0 .. n - 1 /\ i[k] = g[k]
                        \/ k = p /\ i[k] = x
                        \/ k > p /\ k - 1 \in p .. n - 1 /\ k - 1 \in 0 .. n - 1 /\ i[k] = g[k - 1]
  BY <1>0 DEF Inserted
<1>5. i \in [0 .. n -> Entries]
  <2>1. \A k \in 0 .. n : i[k] \in Entries
    BY <1>4 DEF IsList
  <2> QED BY <2>1 DEF Inserted
<1> HIDE DEF i
<1>6. ASSUME NEW a \in 0 .. n, NEW b \in 0 .. n, i[a] = i[b] PROVE a = b
  <2>1. CASE a < p /\ a \in 0 .. n - 1 /\ i[a] = g[a]
    <3>1. CASE b < p /\ b \in 0 .. n - 1 /\ i[b] = g[b]
      BY <1>6, <2>1, <3>1 DEF IsList
    <3>2. CASE b = p /\ i[b] = x
      BY <1>6, <2>1, <3>2 DEF In
    <3>3. CASE b > p /\ b - 1 \in p .. n - 1 /\ b - 1 \in 0 .. n - 1 /\ i[b] = g[b - 1]
      <4>1. a = b - 1
        BY <1>6, <2>1, <3>3 DEF IsList
      <4> QED BY <1>0, <2>1, <3>3, <4>1
    <3> QED BY <1>4, <3>1, <3>2, <3>3
  <2>2. CASE a = p /\ i[a] = x
    BY <1>4, <1>6, <2>2 DEF In
  <2>3. CASE a > p /\ a - 1 \in p .. n - 1 /\ a - 1 \in 0 .. n - 1 /\ i[a] = g[a - 1]
    <3>1. CASE b < p /\ b \in 0 .. n - 1 /\ i[b] = g[b]
      <4>1. b = a - 1
        BY <1>6, <2>3, <3>1 DEF IsList
      <4> QED BY <1>0, <2>3, <3>1, <4>1
    <3>2. CASE b = p /\ i[b] = x
      BY <1>6, <2>3, <3>2 DEF In
    <3>3. CASE b > p /\ b - 1 \in p .. n - 1 /\ b - 1 \in 0 .. n - 1 /\ i[b] = g[b - 1]
      <4>1. a - 1 = b - 1
        BY <1>6, <2>3, <3>3 DEF IsList
      <4> QED BY <1>0, <4>1
    <3> QED BY <1>4, <3>1, <3>2, <3>3
  <2> QED BY <1>4, <2>1, <2>2, <2>3
<1>7. n + 1 \in Nat /\ (n + 1) - 1 = n /\ p \in 0 .. n
  BY <1>0
<1>8. IsList(i, n + 1)
  BY <1>5, <1>6, <1>7 DEF IsList
<1>9. \A k \in 0 .. n - 1 : k \in 0 .. p - 1 \/ k \in p .. n - 1
  BY <1>0
<1>10. \A k \in 0 .. p - 1 : k \in 0 .. n
  BY <1>0
<1>11. \A e : In(e, i, n + 1) <=> In(e, g, n) \/ e = x
  BY <1>1, <1>2, <1>3, <1>4, <1>7, <1>9, <1>10 DEF In
<1> QED BY <1>1, <1>2, <1>3, <1>8, <1>11 DEF i

-----------------------------------------------------------------------------
(* The invariant of the lists: where they begin and end, that they share   *)
(* the entries with the dispatcher, and how the requests are sorted.       *)

EntryType ==
  [command_id : {0} \cup Ops, nsecs_target : Times, is_completed : BOOLEAN,
   is_copied : BOOLEAN, is_internal : BOOLEAN, buffs_to_release : {0} \cup Ops,
   prev : {NIL} \cup Entries, next : {NIL} \cup Entries]

Filling == dpc \in {"fill", "fill_links", "fill_kind", "insert"}

BaseOK ==
  /\ TypeOK
  /\ Filling => entry \in Entries /\ op \in [id : Ops, internal : BOOLEAN, target : Times]
  /\ dpc \in {"fill", "fill_links"} => work_queue[entry].next = free_seq
  /\ dpc \in {"fill_kind", "insert"} =>
       work_queue[entry].next = NIL /\ work_queue[entry].prev = NIL
  /\ dpc \in {"fill_links", "fill_kind", "insert"} =>
       work_queue[entry].nsecs_target = op.target
  /\ latest_nsecs <= now

Lists(g, n, h, m) ==
  /\ IsList(g, n) /\ IsList(h, m) /\ m > 0
  /\ \A e : ~(In(e, g, n) /\ In(e, h, m))
  /\ Forward(work_queue, g, n) /\ Backward(work_queue, g, n) /\ Forward(work_queue, h, m)
  /\ io_seq = (IF n = 0 THEN NIL ELSE g[0]) /\ (n > 0 => io_seq_end = g[n - 1])
  /\ free_seq = h[0] /\ free_seq_end = h[m - 1]
  /\ Filling => ~In(entry, g, n) /\ ~In(entry, h, m)
  /\ \A e \in Entries : In(e, g, n) \/ In(e, h, m) \/ (Filling /\ e = entry)

Sorted(g, n) ==
  \A j, k \in 0 .. n - 1 : j < k =>
    \/ work_queue[g[j]].nsecs_target <= work_queue[g[k]].nsecs_target
    \/ work_queue[g[j]].nsecs_target <= latest_nsecs

QueueOK(g, n, h, m) == BaseOK /\ Lists(g, n, h, m) /\ Sorted(g, n)

LEMMA QueueTyped ==
  ASSUME TypeOK
  PROVE  /\ work_queue \in [Entries -> EntryType]
         /\ latest_nsecs \in Nat /\ now \in Nat
         /\ NR_MAX_PARALLEL_IO \in Nat \ {0} /\ MaxTime \in Nat /\ MaxOps \in Nat
         /\ \A t \in Times : t \in Nat
BY WorkQueueAssumption DEF TypeOK, EntryType, Times

LEMMA QueueInit ==
  ASSUME Init
  PROVE  \E h : QueueOK([k \in 0 .. -1 |-> 0], 0, h, NR_MAX_PARALLEL_IO)
<1> DEFINE N == NR_MAX_PARALLEL_IO
           g == [k \in 0 .. -1 |-> 0]
           h == [k \in 0 .. N - 1 |-> k]
<1>0. N \in Nat \ {0} /\ MaxOps \in Nat /\ MaxTime \in Nat
  BY WorkQueueAssumption
<1>1. \A e \in Entries :
        work_queue[e] = [command_id |-> 0, nsecs_target |-> 0, is_completed |-> FALSE,
          is_copied |-> FALSE, is_internal |-> FALSE, buffs_to_release |-> 0,
          prev |-> e - 1, next |-> IF e = N - 1 THEN NIL ELSE e + 1]
  BY DEF Init
<1>2. \A e \in Entries : e - 1 \in {NIL} \cup Entries
                         /\ (IF e = N - 1 THEN NIL ELSE e + 1) \in {NIL} \cup Entries
  BY <1>0 DEF Entries, NIL
<1>3. \A e \in Entries : work_queue[e] \in EntryType
  <2>1. \A p, q \in {NIL} \cup Entries :
          [command_id |-> 0, nsecs_target |-> 0, is_completed |-> FALSE,
           is_copied |-> FALSE, is_internal |-> FALSE, buffs_to_release |-> 0,
           prev |-> p, next |-> q] \in EntryType
    <3>1. 0 \in Times /\ 0 \in {0} \cup Ops
      BY <1>0 DEF Times
    <3> QED BY <3>1 DEF EntryType
  <2> HIDE DEF N
  <2> QED BY <1>1, <1>2, <2>1
<1>4. work_queue \in [Entries -> EntryType]
  BY <1>3 DEF Init
<1>5. 0 \in Entries /\ N - 1 \in Entries /\ 0 \in Times
  BY <1>0 DEF Entries, Times
<1>6. TypeOK
  BY <1>0, <1>4, <1>5 DEF TypeOK, EntryType, Init
<1>7. BaseOK
  BY <1>6 DEF BaseOK, Init, Filling
<1>8. 0 .. -1 = {} /\ 0 .. 0 - 1 = {}
  OBVIOUS
<1>9. IsList(g, 0) /\ \A e : ~In(e, g, 0)
  BY <1>8 DEF IsList, In
<1>10. \A k \in 0 .. N - 1 : h[k] = k /\ k \in Entries
  BY DEF Entries
<1>11. IsList(h, N)
  BY <1>0, <1>10 DEF IsList
<1> HIDE DEF h, g
<1>12. Forward(work_queue, h, N)
  <2> SUFFICES ASSUME NEW k \in 0 .. N - 1
               PROVE  work_queue[h[k]].next = IF k = N - 1 THEN NIL ELSE h[k + 1]
    BY DEF Forward
  <2>1. work_queue[k].next = IF k = N - 1 THEN NIL ELSE k + 1
    <3>1. k \in Entries
      BY <1>10
    <3> DEFINE x == IF k = N - 1 THEN NIL ELSE k + 1
    <3>2. work_queue[k] = [command_id |-> 0, nsecs_target |-> 0, is_completed |-> FALSE,
            is_copied |-> FALSE, is_internal |-> FALSE, buffs_to_release |-> 0,
            prev |-> k - 1, next |-> x]
      BY <1>1, <3>1
    <3> HIDE DEF x
    <3>3. work_queue[k].next = x
      BY <3>2
    <3> QED BY <3>3 DEF x
  <2>2. k # N - 1 => k + 1 \in 0 .. N - 1
    BY <1>0
  <2> QED BY <1>10, <2>1, <2>2
<1>13. Forward(work_queue, g, 0) /\ Backward(work_queue, g, 0) /\ Sorted(g, 0)
  BY <1>8 DEF Forward, Backward, Sorted
<1>14. \A e \in Entries : In(e, h, N)
  BY <1>10 DEF In, Entries
<1>15. 0 \in 0 .. N - 1 /\ N - 1 \in 0 .. N - 1 /\ N > 0
  BY <1>0
<1>16. Lists(g, 0, h, N)
  BY <1>9, <1>10, <1>11, <1>12, <1>13, <1>14, <1>15 DEF Lists, Init, Filling
<1>17. QueueOK(g, 0, h, N)
  BY <1>7, <1>13, <1>16 DEF QueueOK
<1> QED BY <1>17 DEF g

-----------------------------------------------------------------------------
(* Steps that leave the links and the targets of the lists as they are.    *)

SameLink(e) == /\ work_queue'[e].next = work_queue[e].next
               /\ work_queue'[e].prev = work_queue[e].prev
               /\ work_queue'[e].nsecs_target = work_queue[e].nsecs_target

LEMMA ListsKept ==
  ASSUME NEW g, NEW n, NEW h, NEW m, QueueOK(g, n, h, m), UNCHANGED listVars,
         \A e \in Entries : In(e, g, n) \/ In(e, h, m) => SameLink(e),
         Filling' <=> Filling, entry' = entry,
         latest_nsecs' \in Nat, latest_nsecs <= latest_nsecs'
  PROVE  Lists(g, n, h, m)' /\ Sorted(g, n)'
<1>1. IsList(g, n) /\ IsList(h, m)
  BY DEF QueueOK, Lists
<1>2. /\ Forward(work_queue', g, n) /\ Backward(work_queue', g, n)
      /\ Forward(work_queue', h, m)
  BY <1>1, SameForward, SameBackward DEF QueueOK, Lists, SameLink
<1>3. Lists(g, n, h, m)'
  BY <1>2 DEF QueueOK, Lists, listVars
<1>4. \A k \in 0 .. n - 1 :
        /\ work_queue'[g[k]].nsecs_target = work_queue[g[k]].nsecs_target
        /\ work_queue[g[k]].nsecs_target \in Nat
  <2>1. \A k \in 0 .. n - 1 : g[k] \in Entries /\ In(g[k], g, n)
    BY <1>1 DEF IsList, In
  <2>2. \A e \in Entries : work_queue[e].nsecs_target \in Nat
    BY QueueTyped DEF QueueOK, BaseOK, EntryType
  <2> QED BY <2>1, <2>2 DEF SameLink
<1>5. latest_nsecs \in Nat
  BY QueueTyped DEF QueueOK, BaseOK
<1>6. Sorted(g, n)'
  <2> SUFFICES ASSUME NEW j \in 0 .. n - 1, NEW k \in 0 .. n - 1, j < k
               PROVE  \/ work_queue'[g[j]].nsecs_target <= work_queue'[g[k]].nsecs_target
                      \/ work_queue'[g[j]].nsecs_target <= latest_nsecs'
    BY DEF Sorted
  <2>1. \/ work_queue[g[j]].nsecs_target <= work_queue[g[k]].nsecs_target
        \/ work_queue[g[j]].nsecs_target <= latest_nsecs
    BY DEF QueueOK, Sorted
  <2> QED BY <1>4, <1>5, <2>1
<1> QED BY <1>3, <1>6

(* The worker stores two flags of the entry it is at, and nothing else of  *)
(* the queue.                                                              *)
LEMMA WorkerStores ==
  ASSUME TypeOK, latest_nsecs <= now, Worker \/ Tick \/ UNCHANGED vars
  PROVE  /\ TypeOK' /\ latest_nsecs' <= now' /\ latest_nsecs <= latest_nsecs'
         /\ \A e \in Entries :
              /\ SameLink(e)
              /\ work_queue'[e].command_id = work_queue[e].command_id
              /\ work_queue'[e].is_internal = work_queue[e].is_internal
              /\ work_queue'[e].buffs_to_release = work_queue[e].buffs_to_release
         /\ UNCHANGED <<listVars, dispVars>>
<1> USE DEF SameLink
<1>0. /\ work_queue \in [Entries -> EntryType]
      /\ latest_nsecs \in Nat /\ now \in Nat /\ MaxTime \in Nat
  BY QueueTyped
<1>1. CASE StartPass
  BY <1>0, <1>1 DEF StartPass, TypeOK, listVars, dispVars
<1>2. CASE Look
  BY <1>0, <1>2 DEF Look, TypeOK, listVars, dispVars
<1>3. CASE Copy
  <2>1. curr \in Entries
    BY <1>3 DEF TypeOK, Copy
  <2> DEFINE Set(w) == [w EXCEPT !.is_copied = TRUE]
  <2>2. \A w \in EntryType :
          /\ Set(w) \in EntryType
          /\ Set(w).next = w.next
          /\ Set(w).prev = w.prev
          /\ Set(w).nsecs_target = w.nsecs_target
          /\ Set(w).command_id = w.command_id
          /\ Set(w).is_internal = w.is_internal
          /\ Set(w).buffs_to_release = w.buffs_to_release
    BY DEF EntryType
  <2>6. \A e \in Entries : work_queue'[e] =
          IF e = curr THEN Set(work_queue[e]) ELSE work_queue[e]
    BY <1>0, <2>1, <1>3 DEF Copy
  <2>7. work_queue' = [e \in Entries |-> work_queue'[e]]
    BY <1>0, <1>3 DEF Copy
  <2>3. /\ work_queue' \in [Entries -> EntryType]
        /\ \A e \in Entries :
              /\ SameLink(e)
              /\ work_queue'[e].command_id = work_queue[e].command_id
              /\ work_queue'[e].is_internal = work_queue[e].is_internal
              /\ work_queue'[e].buffs_to_release = work_queue[e].buffs_to_release
    <3> HIDE DEF Set
    <3>1. \A e \in Entries : work_queue[e] \in EntryType
      BY <1>0
    <3>2. \A e \in Entries :
            /\ work_queue'[e] \in EntryType
            /\ SameLink(e)
            /\ work_queue'[e].command_id = work_queue[e].command_id
            /\ work_queue'[e].is_internal = work_queue[e].is_internal
            /\ work_queue'[e].buffs_to_release = work_queue[e].buffs_to_release
      BY <2>2, <2>6, <3>1
    <3> QED BY <2>7, <3>2
  <2>4. UNCHANGED <<listVars, now, dispVars, latest_nsecs, curr>> /\ wpc' # "pass" /\ wpc # "pass"
    BY <1>3 DEF Copy
  <2>5. TypeOK'
    BY <2>3, <2>4 DEF TypeOK, EntryType, listVars, dispVars
  <2> QED BY <1>0, <2>3, <2>4, <2>5
<1>4. CASE NotDue
  BY <1>0, <1>4 DEF NotDue, TypeOK, listVars, dispVars
<1>5. CASE Post
  BY <1>0, <1>5 DEF Post, TypeOK, listVars, dispVars
<1>6. CASE Release
  BY <1>0, <1>6 DEF Release, TypeOK, listVars, dispVars
<1>7. CASE Complete
  <2>1. curr \in Entries
    BY <1>7 DEF TypeOK, Complete
  <2> DEFINE Set(w) == [w EXCEPT !.is_completed = TRUE]
  <2>2. \A w \in EntryType :
          /\ Set(w) \in EntryType
          /\ Set(w).next = w.next
          /\ Set(w).prev = w.prev
          /\ Set(w).nsecs_target = w.nsecs_target
          /\ Set(w).command_id = w.command_id
          /\ Set(w).is_internal = w.is_internal
          /\ Set(w).buffs_to_release = w.buffs_to_release
    BY DEF EntryType
  <2>6. \A e \in Entries : work_queue'[e] =
          IF e = curr THEN Set(work_queue[e]) ELSE work_queue[e]
    BY <1>0, <2>1, <1>7 DEF Complete
  <2>7. work_queue' = [e \in Entries |-> work_queue'[e]]
    BY <1>0, <1>7 DEF Complete
  <2>3. /\ work_queue' \in [Entries -> EntryType]
        /\ \A e \in Entries :
              /\ SameLink(e)
              /\ work_queue'[e].command_id = work_queue[e].command_id
              /\ work_queue'[e].is_internal = work_queue[e].is_internal
              /\ work_queue'[e].buffs_to_release = work_queue[e].buffs_to_release
    <3> HIDE DEF Set
    <3>1. \A e \in Entries : work_queue[e] \in EntryType
      BY <1>0
    <3>2. \A e \in Entries :
            /\ work_queue'[e] \in EntryType
            /\ SameLink(e)
            /\ work_queue'[e].command_id = work_queue[e].command_id
            /\ work_queue'[e].is_internal = work_queue[e].is_internal
            /\ work_queue'[e].buffs_to_release = work_queue[e].buffs_to_release
      BY <2>2, <2>6, <3>1
    <3> QED BY <2>7, <3>2
  <2>4. UNCHANGED <<listVars, now, dispVars, latest_nsecs, curr>> /\ wpc' # "pass" /\ wpc # "pass"
    BY <1>7 DEF Complete
  <2>5. TypeOK'
    BY <2>3, <2>4 DEF TypeOK, EntryType, listVars, dispVars
  <2> QED BY <1>0, <2>3, <2>4, <2>5
<1>8. CASE Advance
  <2>1. curr \in Entries
    BY <1>8 DEF TypeOK, Advance
  <2>2. curr' \in {NIL} \cup Entries /\ (wpc' # "pass" => curr' # NIL)
    BY <1>0, <1>8, <2>1 DEF Advance, EntryType, Field
  <2>3. UNCHANGED <<work_queue, listVars, now, dispVars, latest_nsecs>>
    BY <1>8 DEF Advance
  <2>4. TypeOK'
    BY <2>2, <2>3 DEF TypeOK, listVars, dispVars
  <2> QED BY <1>0, <2>3, <2>4
<1>9. CASE Tick
  <2>1. now' \in Times /\ now' >= now
    BY <1>0, <1>9 DEF Tick, Times
  <2>2. UNCHANGED <<work_queue, listVars, dispVars, workerVars>>
    BY <1>9 DEF Tick
  <2>3. TypeOK'
    BY <2>1, <2>2 DEF TypeOK, listVars, dispVars, workerVars
  <2>4. latest_nsecs' = latest_nsecs /\ now' = now + 1 /\ latest_nsecs <= now + 1
    BY <1>0, <1>9 DEF Tick, workerVars
  <2> QED BY <1>0, <2>2, <2>3, <2>4
<1>10. CASE UNCHANGED vars
  BY <1>0, <1>10 DEF vars, TypeOK, listVars, dispVars, workerVars
<1> QED BY <1>1, <1>2, <1>3, <1>4, <1>5, <1>6, <1>7, <1>8, <1>9, <1>10 DEF Worker

LEMMA QueueKept ==
  ASSUME NEW g, NEW n, NEW h, NEW m, QueueOK(g, n, h, m), Worker \/ Tick \/ UNCHANGED vars
  PROVE  QueueOK(g, n, h, m)'
<1>0. TypeOK /\ latest_nsecs <= now
  BY DEF QueueOK, BaseOK
<1>1. /\ TypeOK' /\ latest_nsecs' <= now' /\ latest_nsecs <= latest_nsecs'
      /\ \A e \in Entries : SameLink(e)
      /\ UNCHANGED <<listVars, dispVars>>
  BY <1>0, WorkerStores
<1>2. UNCHANGED <<dpc, entry, op, free_seq>> /\ latest_nsecs' \in Nat
  BY <1>1, WorkQueueAssumption DEF dispVars, listVars, TypeOK, Times
<1>3. BaseOK'
  BY <1>1, <1>2 DEF QueueOK, BaseOK, Filling, SameLink
<1>4. Lists(g, n, h, m)' /\ Sorted(g, n)'
  BY <1>1, <1>2, ListsKept DEF Filling
<1> QED BY <1>3, <1>4 DEF QueueOK

-----------------------------------------------------------------------------
(* The dispatcher takes an entry, or refuses the request.                  *)

LEMMA QueueDrop ==
  ASSUME NEW g, NEW n, NEW h, NEW m, QueueOK(g, n, h, m), NEW internal, Drop(internal)
  PROVE  QueueOK(g, n, h, m)' /\ m = 1 /\ ~Filling
<1>0. TypeOK /\ latest_nsecs \in Nat
  BY QueueTyped DEF QueueOK, BaseOK
<1>1. /\ UNCHANGED <<work_queue, listVars, now, op, entry, targets, workerVars>>
      /\ nr_ops' = nr_ops + 1 /\ nr_ops < MaxOps /\ dpc = "idle" /\ dpc' \in {"idle", "reclaim"}
      /\ work_queue[free_seq].next = NIL
  BY DEF Drop, Field
<1>2. TypeOK'
  <2>1. nr_ops' \in 0 .. MaxOps
    BY <1>0, <1>1, WorkQueueAssumption DEF TypeOK
  <2> QED BY <1>0, <1>1, <2>1 DEF TypeOK, listVars, workerVars
<1>3. BaseOK'
  BY <1>1, <1>2 DEF QueueOK, BaseOK, Filling, workerVars
<1>4. Lists(g, n, h, m)' /\ Sorted(g, n)'
  <2>1. ~Filling /\ ~Filling' /\ entry' = entry /\ UNCHANGED listVars /\ latest_nsecs' = latest_nsecs
    BY <1>1 DEF Filling, workerVars
  <2>2. \A e \in Entries : SameLink(e)
    BY <1>1 DEF SameLink
  <2> QED BY <1>0, <2>1, <2>2, ListsKept
<1>5. m = 1
  <2>1. IsList(h, m) /\ m > 0 /\ Forward(work_queue, h, m) /\ free_seq = h[0]
    BY DEF QueueOK, Lists
  <2>2. m \in Nat /\ 0 \in 0 .. m - 1 /\ (m # 1 => 0 # m - 1 /\ 1 \in 0 .. m - 1) /\ 0 + 1 = 1
    BY <2>1 DEF IsList
  <2>3. work_queue[h[0]].next = IF 0 = m - 1 THEN NIL ELSE h[0 + 1]
    BY <2>1, <2>2 DEF Forward
  <2> QED BY <1>1, <2>1, <2>2, <2>3, EntriesNotNil DEF IsList
<1> QED BY <1>1, <1>3, <1>4, <1>5 DEF QueueOK, Filling

LEMMA ForwardDropped ==
  ASSUME NEW w, NEW g, NEW n, IsList(g, n), Forward(w, g, n), NEW r \in 0 .. n
  PROVE  Forward(w, Dropped(g, n, r), n - r)
<1> SUFFICES ASSUME NEW k \in 0 .. n - r - 1
             PROVE  w[Dropped(g, n, r)[k]].next = IF k = n - r - 1 THEN NIL ELSE Dropped(g, n, r)[k + 1]
  BY DEF Forward
<1>0. n \in Nat /\ r \in Nat
  BY DEF IsList
<1>1. /\ k + r \in 0 .. n - 1 /\ (k + r = n - 1 <=> k = n - r - 1)
      /\ (k # n - r - 1 => k + 1 \in 0 .. n - r - 1) /\ (k + 1) + r = (k + r) + 1
  BY <1>0
<1>2. w[g[k + r]].next = IF k + r = n - 1 THEN NIL ELSE g[(k + r) + 1]
  BY <1>1 DEF Forward
<1>3. \A i \in 0 .. n - r - 1 : Dropped(g, n, r)[i] = g[i + r]
  BY DEF Dropped
<1> QED BY <1>1, <1>2, <1>3

LEMMA QueueAllocate ==
  ASSUME NEW g, NEW n, NEW h, NEW m, QueueOK(g, n, h, m),
         NEW internal \in BOOLEAN, NEW target \in Times, Allocate(internal, target)
  PROVE  QueueOK(g, n, Dropped(h, m, 1), m - 1)' /\ m > 1 /\ entry' = h[0] /\ free_seq' = h[1]
<1> DEFINE d == Dropped(h, m, 1)
<1>0. /\ TypeOK /\ latest_nsecs \in Nat /\ MaxOps \in Nat
      /\ work_queue \in [Entries -> EntryType]
  BY QueueTyped DEF QueueOK, BaseOK
<1>1. /\ UNCHANGED <<work_queue, free_seq_end, io_seq, io_seq_end, now, dropped, workerVars>>
      /\ nr_ops' = nr_ops + 1 /\ nr_ops < MaxOps /\ dpc = "idle" /\ dpc' = "fill"
      /\ op' = [id |-> nr_ops', internal |-> internal, target |-> target]
      /\ work_queue[free_seq].next # NIL
      /\ entry' = free_seq /\ free_seq' = work_queue[free_seq].next
  BY DEF Allocate, Field
<1>2. IsList(h, m) /\ m > 0 /\ Forward(work_queue, h, m) /\ free_seq = h[0] /\ m \in Nat
  BY DEF QueueOK, Lists, IsList
<1>3. m > 1 /\ free_seq' = h[1] /\ 1 \in 0 .. m /\ 1 \in 0 .. m - 1 /\ 0 \in 0 .. m - 1
  <2>1. 0 \in 0 .. m - 1 /\ (0 # m - 1 => 1 \in 0 .. m - 1) /\ (0 # m - 1 <=> m > 1) /\ 0 + 1 = 1
    BY <1>2
  <2>2. work_queue[h[0]].next = IF 0 = m - 1 THEN NIL ELSE h[0 + 1]
    BY <1>2, <2>1 DEF Forward
  <2> QED BY <1>1, <1>2, <2>1, <2>2
<1>4. /\ IsList(d, m - 1) /\ Forward(work_queue, d, m - 1)
      /\ \A k \in 0 .. m - 1 - 1 : d[k] = h[k + 1]
      /\ \A e : In(e, d, m - 1) <=> \E k \in 1 .. m - 1 : e = h[k]
  <2>1. Forward(work_queue, d, m - 1)
    BY <1>2, <1>3, ForwardDropped
  <2>2. /\ IsList(d, m - 1)
        /\ \A e : In(e, d, m - 1) <=> \E k \in 1 .. m - 1 : e = h[k]
    BY <1>2, <1>3, DroppedList
  <2>3. \A k \in 0 .. m - 1 - 1 : d[k] = h[k + 1]
    BY DEF Dropped
  <2> QED BY <2>1, <2>2, <2>3
<1>5. d[0] = h[1] /\ d[m - 1 - 1] = h[m - 1]
  <2>1. /\ m - 1 - 1 \in 0 .. m - 1 - 1 /\ 0 \in 0 .. m - 1 - 1
        /\ (m - 1 - 1) + 1 = m - 1 /\ 0 + 1 = 1
    BY <1>2, <1>3
  <2> HIDE DEF d
  <2> QED BY <1>4, <2>1
<1> HIDE DEF d
<1>6. \A e : In(e, h, m) <=> In(e, d, m - 1) \/ e = h[0]
  <2>1. \A k \in 0 .. m - 1 : k \in 1 .. m - 1 \/ k = 0
    BY <1>2
  <2>2. \A k \in 1 .. m - 1 : k \in 0 .. m - 1
    BY <1>2
  <2> QED BY <1>3, <1>4, <2>1, <2>2 DEF In
<1>7. ~In(h[0], d, m - 1)
  <2>1. ASSUME NEW k \in 1 .. m - 1, h[0] = h[k] PROVE FALSE
    <3>1. k \in 0 .. m - 1 /\ k # 0
      BY <1>2
    <3> QED BY <1>2, <1>3, <2>1, <3>1 DEF IsList
  <2> QED BY <1>4, <2>1
<1>8. h[0] \in Entries /\ h[1] \in Entries
  BY <1>2, <1>3 DEF IsList
<1>9. nr_ops' \in Ops /\ nr_ops' \in 0 .. MaxOps
  BY <1>0, <1>1 DEF TypeOK, Ops
<1>10. TypeOK'
  BY <1>0, <1>1, <1>2, <1>3, <1>8, <1>9 DEF TypeOK, workerVars
<1>11. BaseOK'
  BY <1>1, <1>2, <1>8, <1>9, <1>10 DEF QueueOK, BaseOK, Filling, workerVars
<1>12. Lists(g, n, d, m - 1)'
  <2>1. IsList(g, n) /\ Forward(work_queue, g, n) /\ Backward(work_queue, g, n)
    BY DEF QueueOK, Lists
  <2>2. \A e : ~(In(e, g, n) /\ In(e, d, m - 1))
    BY <1>6 DEF QueueOK, Lists
  <2>3. ~In(h[0], g, n)
    BY <1>6 DEF QueueOK, Lists
  <2>4. io_seq = (IF n = 0 THEN NIL ELSE g[0]) /\ (n > 0 => io_seq_end = g[n - 1]) /\ free_seq_end = h[m - 1]
    BY DEF QueueOK, Lists
  <2>5. Filling' /\ ~Filling
    BY <1>1 DEF Filling
  <2>6. \A e \in Entries : In(e, g, n) \/ In(e, d, m - 1) \/ e = h[0]
    BY <1>6, <2>5 DEF QueueOK, Lists
  <2>7. m - 1 > 0
    BY <1>2, <1>3
  <2> QED BY <1>1, <1>2, <1>3, <1>4, <1>5, <1>7, <2>1, <2>2, <2>3, <2>4, <2>5, <2>6, <2>7 DEF Lists
<1>13. Sorted(g, n)'
  BY <1>1 DEF QueueOK, Sorted, workerVars
<1> QED BY <1>1, <1>2, <1>3, <1>11, <1>12, <1>13 DEF QueueOK, d

-----------------------------------------------------------------------------
(* The stores into the entry being filled.                                 *)

LEMMA FillRequestStores ==
  ASSUME BaseOK, FillRequest
  PROVE  /\ work_queue' \in [Entries -> EntryType]
         /\ \A e \in Entries : e # entry => work_queue'[e] = work_queue[e]
         /\ work_queue'[entry].command_id =
              (IF op.internal THEN work_queue[entry].command_id ELSE op.id)
         /\ work_queue'[entry].nsecs_target = op.target
         /\ ~work_queue'[entry].is_completed
         /\ work_queue'[entry].is_copied = work_queue[entry].is_copied
         /\ work_queue'[entry].is_internal = work_queue[entry].is_internal
         /\ work_queue'[entry].buffs_to_release = work_queue[entry].buffs_to_release
         /\ work_queue'[entry].prev = work_queue[entry].prev
         /\ work_queue'[entry].next = work_queue[entry].next
         /\ entry \in Entries /\ dpc = "fill" /\ dpc' = "fill_links"
         /\ UNCHANGED <<listVars, now, nr_ops, op, entry, dropped, targets, workerVars>>
<1> DEFINE r == [work_queue[entry] EXCEPT
                   !.command_id = IF op.internal THEN work_queue[entry].command_id ELSE op.id,
                   !.nsecs_target = op.target, !.is_completed = FALSE]
<1>1. work_queue \in [Entries -> EntryType] /\ dpc = "fill"
  BY QueueTyped DEF BaseOK, FillRequest
<1>2. entry \in Entries /\ op \in [id : Ops, internal : BOOLEAN, target : Times]
  BY <1>1 DEF BaseOK, Filling
<1>3. work_queue' = [work_queue EXCEPT ![entry] = r]
  BY DEF FillRequest, Field
<1>4. work_queue[entry] \in EntryType
  BY <1>1, <1>2
<1>5. r \in EntryType
  BY <1>2, <1>4 DEF EntryType
<1>6. /\ r.command_id = (IF op.internal THEN work_queue[entry].command_id ELSE op.id)
      /\ r.nsecs_target = op.target /\ ~r.is_completed
      /\ r.is_copied = work_queue[entry].is_copied
      /\ r.is_internal = work_queue[entry].is_internal
      /\ r.buffs_to_release = work_queue[entry].buffs_to_release
      /\ r.prev = work_queue[entry].prev /\ r.next = work_queue[entry].next
  BY <1>2, <1>4 DEF EntryType
<1> HIDE DEF r
<1>7. work_queue' \in [Entries -> EntryType] /\ work_queue'[entry] = r
      /\ \A e \in Entries : e # entry => work_queue'[e] = work_queue[e]
  BY <1>1, <1>2, <1>3, <1>5
<1> QED BY <1>1, <1>2, <1>6, <1>7 DEF FillRequest

LEMMA FillLinksStores ==
  ASSUME BaseOK, FillLinks
  PROVE  /\ work_queue' \in [Entries -> EntryType]
         /\ \A e \in Entries : e # entry => work_queue'[e] = work_queue[e]
         /\ work_queue'[entry].command_id = work_queue[entry].command_id
         /\ work_queue'[entry].nsecs_target = work_queue[entry].nsecs_target
         /\ work_queue'[entry].is_completed = work_queue[entry].is_completed
         /\ work_queue'[entry].is_copied = op.internal
         /\ work_queue'[entry].is_internal = work_queue[entry].is_internal
         /\ work_queue'[entry].buffs_to_release = work_queue[entry].buffs_to_release
         /\ work_queue'[entry].prev = NIL
         /\ work_queue'[entry].next = NIL
         /\ entry \in Entries /\ dpc = "fill_links" /\ dpc' = "fill_kind"
         /\ UNCHANGED <<listVars, now, nr_ops, op, entry, dropped, targets, workerVars>>
<1> DEFINE r == [work_queue[entry] EXCEPT !.is_copied = op.internal, !.prev = NIL, !.next = NIL]
<1>1. work_queue \in [Entries -> EntryType] /\ dpc = "fill_links"
  BY QueueTyped DEF BaseOK, FillLinks
<1>2. entry \in Entries /\ op \in [id : Ops, internal : BOOLEAN, target : Times]
  BY <1>1 DEF BaseOK, Filling
<1>3. work_queue' = [work_queue EXCEPT ![entry] = r]
  BY DEF FillLinks
<1>4. work_queue[entry] \in EntryType
  BY <1>1, <1>2
<1>5. r \in EntryType
  BY <1>2, <1>4 DEF EntryType
<1>6. /\ r.command_id = work_queue[entry].command_id
      /\ r.nsecs_target = work_queue[entry].nsecs_target
      /\ r.is_completed = work_queue[entry].is_completed
      /\ r.is_copied = op.internal
      /\ r.is_internal = work_queue[entry].is_internal
      /\ r.buffs_to_release = work_queue[entry].buffs_to_release
      /\ r.prev = NIL /\ r.next = NIL
  BY <1>2, <1>4 DEF EntryType
<1> HIDE DEF r
<1>7. work_queue' \in [Entries -> EntryType] /\ work_queue'[entry] = r
      /\ \A e \in Entries : e # entry => work_queue'[e] = work_queue[e]
  BY <1>1, <1>2, <1>3, <1>5
<1> QED BY <1>1, <1>2, <1>6, <1>7 DEF FillLinks

LEMMA FillKindStores ==
  ASSUME BaseOK, FillKind
  PROVE  /\ work_queue' \in [Entries -> EntryType]
         /\ \A e \in Entries : e # entry => work_queue'[e] = work_queue[e]
         /\ work_queue'[entry].command_id = work_queue[entry].command_id
         /\ work_queue'[entry].nsecs_target = work_queue[entry].nsecs_target
         /\ work_queue'[entry].is_completed = work_queue[entry].is_completed
         /\ work_queue'[entry].is_copied = work_queue[entry].is_copied
         /\ work_queue'[entry].is_internal = op.internal
         /\ work_queue'[entry].buffs_to_release =
              (IF op.internal THEN op.id ELSE work_queue[entry].buffs_to_release)
         /\ work_queue'[entry].prev = work_queue[entry].prev
         /\ work_queue'[entry].next = work_queue[entry].next
         /\ entry \in Entries /\ dpc = "fill_kind" /\ dpc' = "insert"
         /\ UNCHANGED <<listVars, now, nr_ops, op, entry, dropped, targets, workerVars>>
<1> DEFINE r == [work_queue[entry] EXCEPT
                   !.is_internal = op.internal,
                   !.buffs_to_release =
                     IF op.internal THEN op.id ELSE work_queue[entry].buffs_to_release]
<1>1. work_queue \in [Entries -> EntryType] /\ dpc = "fill_kind"
  BY QueueTyped DEF BaseOK, FillKind
<1>2. entry \in Entries /\ op \in [id : Ops, internal : BOOLEAN, target : Times]
  BY <1>1 DEF BaseOK, Filling
<1>3. work_queue' = [work_queue EXCEPT ![entry] = r]
  BY DEF FillKind, Field
<1>4. work_queue[entry] \in EntryType
  BY <1>1, <1>2
<1>5. r \in EntryType
  BY <1>2, <1>4 DEF EntryType
<1>6. /\ r.command_id = work_queue[entry].command_id
      /\ r.nsecs_target = work_queue[entry].nsecs_target
      /\ r.is_completed = work_queue[entry].is_completed
      /\ r.is_copied = work_queue[entry].is_copied
      /\ r.is_internal = op.internal
      /\ r.buffs_to_release = (IF op.internal THEN op.id ELSE work_queue[entry].buffs_to_release)
      /\ r.prev = work_queue[entry].prev /\ r.next = work_queue[entry].next
  BY <1>2, <1>4 DEF EntryType
<1> HIDE DEF r
<1>7. work_queue' \in [Entries -> EntryType] /\ work_queue'[entry] = r
      /\ \A e \in Entries : e # entry => work_queue'[e] = work_queue[e]
  BY <1>1, <1>2, <1>3, <1>5
<1> QED BY <1>1, <1>2, <1>6, <1>7 DEF FillKind

LEMMA QueueFill ==
  ASSUME NEW g, NEW n, NEW h, NEW m, QueueOK(g, n, h, m),
         FillRequest \/ FillLinks \/ FillKind
  PROVE  QueueOK(g, n, h, m)'
<1>0. BaseOK /\ TypeOK /\ latest_nsecs \in Nat
  BY QueueTyped DEF QueueOK, BaseOK
<1>1. /\ work_queue' \in [Entries -> EntryType]
      /\ \A e \in Entries : e # entry => work_queue'[e] = work_queue[e]
      /\ entry \in Entries /\ Filling /\ Filling'
      /\ UNCHANGED <<listVars, now, nr_ops, op, entry, dropped, targets, workerVars>>
  BY <1>0, FillRequestStores, FillLinksStores, FillKindStores DEF Filling
<1>2. TypeOK'
  BY <1>0, <1>1 DEF TypeOK, EntryType, listVars, workerVars
<1>3. BaseOK'
  <2>1. CASE FillRequest
    BY <1>0, <1>1, <1>2, <2>1, FillRequestStores DEF BaseOK, listVars, workerVars
  <2>2. CASE FillLinks
    BY <1>0, <1>1, <1>2, <2>2, FillLinksStores DEF BaseOK, listVars, workerVars
  <2>3. CASE FillKind
    BY <1>0, <1>1, <1>2, <2>3, FillKindStores DEF BaseOK, listVars, workerVars
  <2> QED BY <2>1, <2>2, <2>3
<1>4. Lists(g, n, h, m)' /\ Sorted(g, n)'
  <2>1. ~In(entry, g, n) /\ ~In(entry, h, m)
    BY <1>1 DEF QueueOK, Lists
  <2>2. \A e \in Entries : In(e, g, n) \/ In(e, h, m) => SameLink(e)
    BY <1>1, <2>1 DEF SameLink
  <2>3. entry' = entry /\ UNCHANGED listVars /\ latest_nsecs' = latest_nsecs
    BY <1>1 DEF workerVars
  <2> QED BY <1>0, <1>1, <2>2, <2>3, ListsKept
<1> QED BY <1>3, <1>4 DEF QueueOK

-----------------------------------------------------------------------------
(* Where a request is inserted: behind it, in the order of the list, come  *)
(* only requests that are due later; before it at least one that is not,   *)
(* unless it goes to the front.                                            *)
Place(g, n, p, target) ==
  /\ p \in 0 .. n
  /\ \A k \in p .. n - 1 : /\ work_queue[g[k]].nsecs_target > latest_nsecs
                           /\ work_queue[g[k]].nsecs_target > target
  /\ p > 0 => \/ work_queue[g[p - 1]].nsecs_target <= latest_nsecs
              \/ work_queue[g[p - 1]].nsecs_target <= target

LEMMA InsertPlace ==
  ASSUME NEW g, NEW n, NEW h, NEW m, QueueOK(g, n, h, m), n > 0, NEW target \in Nat
  PROVE  \E p : Place(g, n, p, target) /\ InsertAfter(target) = IF p = 0 THEN NIL ELSE g[p - 1]
<1> DEFINE N == NR_MAX_PARALLEL_IO
           at == Chain(io_seq_end, "prev")
           t(e) == work_queue[e].nsecs_target
           stop == {k \in DOMAIN at : at[k] = NIL \/ t(at[k]) <= latest_nsecs \/ t(at[k]) <= target}
<1>0. /\ IsList(g, n) /\ Backward(work_queue, g, n) /\ io_seq_end = g[n - 1]
      /\ n \in Nat /\ N \in Nat /\ n <= N /\ latest_nsecs \in Nat
  BY ListShort, QueueTyped DEF QueueOK, Lists, BaseOK, IsList
<1>1. DOMAIN at = 0 .. N
  BY ChainStep
<1>2. \A k \in 0 .. N : at[k] = IF k < n THEN g[n - 1 - k] ELSE NIL
  BY <1>0, ChainIsListBack
<1>3. InsertAfter(target) = at[CHOOSE k \in stop : \A j \in stop : k <= j]
  BY DEF InsertAfter, Field
<1>4. \A k \in 0 .. n - 1 : g[k] \in Entries /\ t(g[k]) \in Nat
  <2>1. \A k \in 0 .. n - 1 : g[k] \in Entries
    BY <1>0 DEF IsList
  <2>2. \A e \in Entries : t(e) \in Nat
    BY QueueTyped DEF QueueOK, BaseOK, EntryType
  <2> QED BY <2>1, <2>2
<1> HIDE DEF at, t
<1>5. stop \subseteq Nat /\ n \in stop
  BY <1>0, <1>1, <1>2
<1>6. PICK i \in stop : \A j \in stop : i <= j
  BY <1>5, LeastNat
<1>7. i \in 0 .. n /\ i \in 0 .. N
  BY <1>0, <1>1, <1>5, <1>6
<1>8. (CHOOSE k \in stop : \A j \in stop : k <= j) = i
  BY <1>5, <1>6
<1>9. n - i \in 0 .. n /\ n - i - 1 = n - 1 - i /\ (n - i = 0 <=> ~(i < n)) /\ (n - i > 0 <=> i < n)
  BY <1>0, <1>7
<1>10. InsertAfter(target) = IF n - i = 0 THEN NIL ELSE g[n - i - 1]
  BY <1>2, <1>3, <1>7, <1>8, <1>9
<1>11. ASSUME NEW k \in (n - i) .. n - 1
       PROVE  t(g[k]) > latest_nsecs /\ t(g[k]) > target
  <2>1. /\ n - 1 - k \in 0 .. N /\ n - 1 - k < n /\ n - 1 - (n - 1 - k) = k
        /\ ~(i <= n - 1 - k) /\ k \in 0 .. n - 1
    BY <1>0, <1>7
  <2>2. at[n - 1 - k] = g[k]
    BY <1>2, <2>1
  <2>3. n - 1 - k \notin stop
    BY <1>6, <2>1
  <2>4. ~(t(g[k]) <= latest_nsecs) /\ ~(t(g[k]) <= target)
    BY <1>1, <2>1, <2>2, <2>3
  <2> QED BY <1>0, <1>4, <2>1, <2>4
<1>12. i < n => t(g[n - i - 1]) <= latest_nsecs \/ t(g[n - i - 1]) <= target
  <2> SUFFICES ASSUME i < n PROVE t(g[n - i - 1]) <= latest_nsecs \/ t(g[n - i - 1]) <= target
    OBVIOUS
  <2>1. at[i] = g[n - i - 1] /\ n - i - 1 \in 0 .. n - 1
    BY <1>0, <1>2, <1>7, <1>9
  <2>2. at[i] # NIL
    BY <1>4, <2>1, EntriesNotNil
  <2> QED BY <1>6, <2>1, <2>2
<1>13. Place(g, n, n - i, target)
  BY <1>9, <1>11, <1>12 DEF Place, t
<1> QED BY <1>10, <1>13

SameData(a, b) ==
  /\ a.command_id = b.command_id /\ a.nsecs_target = b.nsecs_target
  /\ a.is_completed = b.is_completed /\ a.is_copied = b.is_copied
  /\ a.is_internal = b.is_internal /\ a.buffs_to_release = b.buffs_to_release

Behind(g, p) == IF p = 0 THEN NIL ELSE g[p - 1]

(* The stores of the four cases of an insertion, as one.                   *)
InsertStores(g, n, p) ==
  /\ work_queue' \in [Entries -> EntryType]
  /\ \A e \in Entries :
       /\ work_queue'[e].next =
            (IF p > 0 /\ e = Behind(g, p) THEN entry
             ELSE IF p < n /\ e = entry THEN g[p] ELSE work_queue[e].next)
       /\ work_queue'[e].prev =
            (IF p < n /\ e = g[p] THEN entry
             ELSE IF p > 0 /\ e = entry THEN Behind(g, p) ELSE work_queue[e].prev)
       /\ SameData(work_queue'[e], work_queue[e])
  /\ io_seq' = (IF p = 0 THEN entry ELSE io_seq)
  /\ io_seq_end' = (IF p = n THEN entry ELSE io_seq_end)

(* A store to one link of one entry.                                       *)
LEMMA StoreLink ==
  ASSUME NEW w, w \in [Entries -> EntryType], NEW x \in Entries, NEW v \in {NIL} \cup Entries
  PROVE  /\ [w EXCEPT ![x].next = v] \in [Entries -> EntryType]
         /\ [w EXCEPT ![x].prev = v] \in [Entries -> EntryType]
         /\ \A e \in Entries :
              /\ [w EXCEPT ![x].next = v][e] = IF e = x THEN [w[e] EXCEPT !.next = v] ELSE w[e]
              /\ [w EXCEPT ![x].prev = v][e] = IF e = x THEN [w[e] EXCEPT !.prev = v] ELSE w[e]
<1>1. w[x] \in EntryType
  OBVIOUS
<1>2. [w[x] EXCEPT !.next = v] \in EntryType /\ [w[x] EXCEPT !.prev = v] \in EntryType
  BY <1>1 DEF EntryType
<1>3. /\ [w EXCEPT ![x] = [w[x] EXCEPT !.next = v]] \in [Entries -> EntryType]
      /\ [w EXCEPT ![x] = [w[x] EXCEPT !.prev = v]] \in [Entries -> EntryType]
  BY <1>2
<1>4. /\ [w EXCEPT ![x].next = v] = [w EXCEPT ![x] = [w[x] EXCEPT !.next = v]]
      /\ [w EXCEPT ![x].prev = v] = [w EXCEPT ![x] = [w[x] EXCEPT !.prev = v]]
  OBVIOUS
<1> QED BY <1>3, <1>4

SetNext(w, x, v) == [w EXCEPT ![x].next = v]
SetPrev(w, x, v) == [w EXCEPT ![x].prev = v]

LEMMA StoreLinkFields ==
  ASSUME NEW w, w \in [Entries -> EntryType], NEW x \in Entries, NEW v, v = NIL \/ v \in Entries
  PROVE  /\ SetNext(w, x, v) \in [Entries -> EntryType]
         /\ SetPrev(w, x, v) \in [Entries -> EntryType]
         /\ \A e \in Entries :
              /\ SameData(SetNext(w, x, v)[e], w[e])
              /\ SameData(SetPrev(w, x, v)[e], w[e])
              /\ SetNext(w, x, v)[e].next = IF e = x THEN v ELSE w[e].next
              /\ SetPrev(w, x, v)[e].next = w[e].next
              /\ SetNext(w, x, v)[e].prev = w[e].prev
              /\ SetPrev(w, x, v)[e].prev = IF e = x THEN v ELSE w[e].prev
<1> DEFINE wn == SetNext(w, x, v)
           wp == SetPrev(w, x, v)
<1>1. /\ wn \in [Entries -> EntryType] /\ wp \in [Entries -> EntryType]
      /\ \A e \in Entries :
           /\ wn[e] = IF e = x THEN [w[e] EXCEPT !.next = v] ELSE w[e]
           /\ wp[e] = IF e = x THEN [w[e] EXCEPT !.prev = v] ELSE w[e]
  BY StoreLink DEF SetNext, SetPrev
<1> HIDE DEF wn, wp
<1>0. v \in {NIL} \cup Entries
  OBVIOUS
<1>2. \A r \in EntryType :
        /\ SameData([r EXCEPT !.next = v], r) /\ SameData([r EXCEPT !.prev = v], r)
        /\ [r EXCEPT !.next = v].next = v /\ [r EXCEPT !.next = v].prev = r.prev
        /\ [r EXCEPT !.prev = v].prev = v /\ [r EXCEPT !.prev = v].next = r.next
  BY <1>0 DEF EntryType, SameData
<1>3. SUFFICES ASSUME NEW e \in Entries
               PROVE  /\ SameData(wn[e], w[e]) /\ SameData(wp[e], w[e])
                      /\ wn[e].next = (IF e = x THEN v ELSE w[e].next)
                      /\ wp[e].next = w[e].next /\ wn[e].prev = w[e].prev
                      /\ wp[e].prev = (IF e = x THEN v ELSE w[e].prev)
  BY <1>1 DEF wn, wp
<1>4. w[e] \in EntryType
  OBVIOUS
<1>5. CASE e = x
  BY <1>1, <1>2, <1>4, <1>5
<1>6. CASE e # x
  BY <1>1, <1>4, <1>6 DEF SameData
<1> QED BY <1>5, <1>6

LEMMA InsertIsPlaced ==
  ASSUME NEW g, NEW n, NEW h, NEW m, QueueOK(g, n, h, m), Insert
  PROVE  \E p : Place(g, n, p, op.target) /\ InsertStores(g, n, p)
<1>0. /\ BaseOK /\ IsList(g, n) /\ Forward(work_queue, g, n) /\ n \in Nat
      /\ io_seq = (IF n = 0 THEN NIL ELSE g[0]) /\ (n > 0 => io_seq_end = g[n - 1])
      /\ work_queue \in [Entries -> EntryType]
  BY QueueTyped DEF QueueOK, Lists, BaseOK, IsList
<1>1. dpc = "insert" /\ entry \in Entries /\ ~In(entry, g, n) /\ op.target \in Nat
      /\ work_queue[entry].next = NIL
  <2>1. dpc = "insert"
    BY DEF Insert
  <2>2. op.target \in Times
    BY <1>0, <2>1 DEF BaseOK, Filling
  <2> QED BY <1>0, <2>1, <2>2, QueueTyped DEF QueueOK, Lists, BaseOK, Filling
<1>2. \A k \in 0 .. n - 1 : g[k] \in Entries /\ g[k] # NIL /\ g[k] # entry
  BY <1>0, <1>1, EntriesNotNil DEF IsList, In
<1>3. CASE n = 0
  <2>1. Place(g, n, 0, op.target)
    BY <1>3 DEF Place
  <2>2. io_seq = NIL /\ io_seq' = entry /\ io_seq_end' = entry /\ work_queue' = work_queue
    BY <1>0, <1>3 DEF Insert
  <2>3. InsertStores(g, n, 0)
    BY <1>0, <1>3, <2>2 DEF InsertStores, SameData
  <2> QED BY <2>1, <2>3
<1>4. CASE n > 0
  <2>1. PICK p : /\ Place(g, n, p, op.target)
                 /\ InsertAfter(op.target) = IF p = 0 THEN NIL ELSE g[p - 1]
    BY <1>1, <1>4, InsertPlace
  <2> DEFINE after == Behind(g, p)
             x == entry
             w == work_queue
  <2>2. InsertAfter(op.target) = after /\ p \in 0 .. n /\ p \in Nat
    BY <1>0, <2>1 DEF Behind, Place
  <2>3. 0 \in 0 .. n - 1 /\ io_seq = g[0] /\ io_seq \in Entries /\ io_seq # NIL /\ io_seq # x
    BY <1>0, <1>2, <1>4
  <2>4. CASE p = 0
    <3>1. after = NIL /\ io_seq' = x /\ io_seq_end' = io_seq_end
          /\ work_queue' = [w EXCEPT ![io_seq].prev = x, ![x].next = io_seq]
      BY <2>2, <2>3, <2>4 DEF Insert, Behind
    <3> DEFINE w1 == SetPrev(w, io_seq, x)
    <3>2. work_queue' = SetNext(w1, x, io_seq)
      BY <3>1 DEF SetNext, SetPrev
    <3>3. /\ w1 \in [Entries -> EntryType]
          /\ \A e \in Entries : /\ SameData(w1[e], w[e]) /\ w1[e].next = w[e].next
                                /\ w1[e].prev = IF e = io_seq THEN x ELSE w[e].prev
      BY <1>0, <1>1, <2>3, StoreLinkFields
    <3> HIDE DEF w1
    <3>4. /\ work_queue' \in [Entries -> EntryType]
          /\ \A e \in Entries : /\ SameData(work_queue'[e], w1[e]) /\ work_queue'[e].prev = w1[e].prev
                                /\ work_queue'[e].next = IF e = x THEN io_seq ELSE w1[e].next
      BY <1>1, <2>3, <3>2, <3>3, StoreLinkFields
    <3>5. \A e \in Entries : SameData(work_queue'[e], w[e])
      BY <3>3, <3>4 DEF SameData
    <3>6. \A e \in Entries :
            /\ work_queue'[e].next = IF e = x THEN g[0] ELSE w[e].next
            /\ work_queue'[e].prev = IF e = g[0] THEN x ELSE w[e].prev
      BY <2>3, <3>3, <3>4
    <3>7. p < n /\ ~(p > 0) /\ p # n
      BY <1>4, <2>4
    <3>8. InsertStores(g, n, p)
      BY <2>4, <3>1, <3>4, <3>5, <3>6, <3>7 DEF InsertStores
    <3> QED BY <2>1, <3>8
  <2>5. CASE p = n
    <3>1. p - 1 \in 0 .. n - 1 /\ p - 1 = n - 1 /\ p > 0
      BY <1>0, <1>4, <2>5
    <3>2. after = g[p - 1] /\ after \in Entries /\ after # NIL /\ after # x /\ w[after].next = NIL
      BY <1>0, <1>2, <3>1 DEF Behind, Forward
    <3>3. io_seq' = io_seq /\ io_seq_end' = x
          /\ work_queue' = [w EXCEPT ![x].prev = after, ![after].next = x]
      BY <2>2, <2>3, <3>2 DEF Insert, Field
    <3> HIDE DEF after
    <3> DEFINE w1 == SetPrev(w, x, after)
    <3>4. work_queue' = SetNext(w1, after, x)
      BY <3>3 DEF SetNext, SetPrev
    <3>5. /\ w1 \in [Entries -> EntryType]
          /\ \A e \in Entries : /\ SameData(w1[e], w[e]) /\ w1[e].next = w[e].next
                                /\ w1[e].prev = IF e = x THEN after ELSE w[e].prev
      BY <1>0, <1>1, <3>2, StoreLinkFields
    <3> HIDE DEF w1
    <3>6. /\ work_queue' \in [Entries -> EntryType]
          /\ \A e \in Entries : /\ SameData(work_queue'[e], w1[e]) /\ work_queue'[e].prev = w1[e].prev
                                /\ work_queue'[e].next = IF e = after THEN x ELSE w1[e].next
      BY <1>1, <3>2, <3>4, <3>5, StoreLinkFields
    <3>7. InsertStores(g, n, p)
      BY <1>0, <2>2, <2>5, <3>1, <3>3, <3>5, <3>6 DEF InsertStores, SameData, after
    <3> QED BY <2>1, <3>7
  <2>6. CASE p > 0 /\ p < n
    <3>1. p - 1 \in 0 .. n - 1 /\ p - 1 # n - 1 /\ p \in 0 .. n - 1 /\ p - 1 + 1 = p
      BY <1>0, <2>2, <2>6
    <3>2. after = g[p - 1] /\ after \in Entries /\ after # NIL /\ after # x /\ w[after].next = g[p]
      BY <1>0, <1>2, <2>6, <3>1 DEF Behind, Forward
    <3>3. g[p] \in Entries /\ g[p] # NIL /\ g[p] # x
      BY <1>2, <3>1
    <3>4. UNCHANGED <<io_seq, io_seq_end>>
          /\ work_queue' = [w EXCEPT ![x].prev = after, ![x].next = g[p],
                                     ![g[p]].prev = x, ![after].next = x]
      BY <2>2, <2>3, <3>2, <3>3 DEF Insert, Field
    <3>5. g[p] # after
      BY <1>0, <3>1, <3>2 DEF IsList
    <3> HIDE DEF after
    <3> DEFINE w1 == SetPrev(w, x, after)
               w2 == SetNext(w1, x, g[p])
               w3 == SetPrev(w2, g[p], x)
    <3>6. work_queue' = SetNext(w3, after, x)
      BY <3>4 DEF SetNext, SetPrev
    <3>7. /\ w1 \in [Entries -> EntryType]
          /\ \A e \in Entries : /\ SameData(w1[e], w[e]) /\ w1[e].next = w[e].next
                                /\ w1[e].prev = IF e = x THEN after ELSE w[e].prev
      BY <1>0, <1>1, <3>2, StoreLinkFields
    <3> HIDE DEF w1
    <3>8. /\ w2 \in [Entries -> EntryType]
          /\ \A e \in Entries : /\ SameData(w2[e], w1[e]) /\ w2[e].prev = w1[e].prev
                                /\ w2[e].next = IF e = x THEN g[p] ELSE w1[e].next
      BY <1>1, <3>3, <3>7, StoreLinkFields
    <3> HIDE DEF w2
    <3>9. /\ w3 \in [Entries -> EntryType]
          /\ \A e \in Entries : /\ SameData(w3[e], w2[e]) /\ w3[e].next = w2[e].next
                                /\ w3[e].prev = IF e = g[p] THEN x ELSE w2[e].prev
      BY <1>1, <3>3, <3>8, StoreLinkFields
    <3> HIDE DEF w3
    <3>10. /\ work_queue' \in [Entries -> EntryType]
           /\ \A e \in Entries : /\ SameData(work_queue'[e], w3[e]) /\ work_queue'[e].prev = w3[e].prev
                                 /\ work_queue'[e].next = IF e = after THEN x ELSE w3[e].next
      BY <1>1, <3>2, <3>6, <3>9, StoreLinkFields
    <3>11. \A e \in Entries : SameData(work_queue'[e], w[e])
      BY <3>7, <3>8, <3>9, <3>10 DEF SameData
    <3>12. p # 0 /\ p # n
      BY <2>6, <1>0, <2>2
    <3>13. \A e \in Entries :
             /\ work_queue'[e].next = IF e = after THEN x ELSE IF e = x THEN g[p] ELSE w[e].next
             /\ work_queue'[e].prev = IF e = g[p] THEN x ELSE IF e = x THEN after ELSE w[e].prev
      <4> SUFFICES ASSUME NEW e \in Entries
                   PROVE  /\ work_queue'[e].next =
                               (IF e = after THEN x ELSE IF e = x THEN g[p] ELSE w[e].next)
                          /\ work_queue'[e].prev =
                               (IF e = g[p] THEN x ELSE IF e = x THEN after ELSE w[e].prev)
        OBVIOUS
      <4>1. w3[e].next = (IF e = x THEN g[p] ELSE w[e].next)
        BY <3>7, <3>8, <3>9
      <4>2. w3[e].prev = (IF e = g[p] THEN x ELSE IF e = x THEN after ELSE w[e].prev)
        BY <3>7, <3>8, <3>9
      <4> QED BY <3>10, <4>1, <4>2
    <3>14. InsertStores(g, n, p)
      <4>1. after = Behind(g, p)
        BY DEF after
      <4>2. \A e \in Entries :
              /\ work_queue'[e].next =
                   (IF p > 0 /\ e = Behind(g, p) THEN x
                    ELSE IF p < n /\ e = x THEN g[p] ELSE w[e].next)
              /\ work_queue'[e].prev =
                   (IF p < n /\ e = g[p] THEN x
                    ELSE IF p > 0 /\ e = x THEN Behind(g, p) ELSE w[e].prev)
        BY <2>6, <3>13, <4>1
      <4> QED BY <3>4, <3>10, <3>11, <3>12, <4>2 DEF InsertStores
    <3> QED BY <2>1, <3>14
  <2> QED BY <1>0, <2>2, <2>4, <2>5, <2>6
<1> QED BY <1>0, <1>3, <1>4

(* The new request is one more in the list.                                *)
LEMMA QueueInsert ==
  ASSUME NEW g, NEW n, NEW h, NEW m, QueueOK(g, n, h, m), Insert,
         NEW p, Place(g, n, p, op.target), InsertStores(g, n, p), NEW x, x = entry
  PROVE  QueueOK(Inserted(g, n, p, x), n + 1, h, m)'
<1>1. x = entry
  OBVIOUS
<1> DEFINE d == Inserted(g, n, p, x)
<1>2. /\ BaseOK /\ TypeOK /\ latest_nsecs \in Nat /\ work_queue \in [Entries -> EntryType]
      /\ IsList(g, n) /\ Forward(work_queue, g, n) /\ Backward(work_queue, g, n)
      /\ IsList(h, m) /\ Forward(work_queue, h, m) /\ m > 0
      /\ n \in Nat /\ p \in 0 .. n /\ p \in Nat
  BY QueueTyped DEF QueueOK, Lists, BaseOK, IsList, Place
<1>3. /\ dpc = "insert" /\ Filling /\ x \in Entries /\ ~In(x, g, n) /\ ~In(x, h, m)
      /\ op.target \in Nat /\ work_queue[x].next = NIL /\ work_queue[x].prev = NIL
      /\ work_queue[x].nsecs_target = op.target
  <2>1. dpc = "insert" /\ Filling
    BY DEF Insert, Filling
  <2>2. op.target \in Times
    BY <1>2, <2>1 DEF BaseOK
  <2> QED BY <1>1, <1>2, <2>1, <2>2, QueueTyped DEF QueueOK, Lists, BaseOK
<1>4. /\ dpc' \in {"idle", "reclaim"} /\ ~Filling'
      /\ UNCHANGED <<free_seq, free_seq_end, now, nr_ops, op, entry, dropped, targets, workerVars>>
  BY DEF Insert, Filling
<1>5. /\ \A e \in Entries :
           /\ work_queue'[e].next = (IF p > 0 /\ e = Behind(g, p) THEN x
                                     ELSE IF p < n /\ e = x THEN g[p] ELSE work_queue[e].next)
           /\ work_queue'[e].prev = (IF p < n /\ e = g[p] THEN x
                                     ELSE IF p > 0 /\ e = x THEN Behind(g, p) ELSE work_queue[e].prev)
           /\ work_queue'[e].nsecs_target = work_queue[e].nsecs_target
      /\ io_seq' = (IF p = 0 THEN x ELSE io_seq)
      /\ io_seq_end' = (IF p = n THEN x ELSE io_seq_end)
      /\ work_queue' \in [Entries -> EntryType]
  BY <1>1 DEF InsertStores, SameData
<1>6. /\ IsList(d, n + 1) /\ d[p] = x
      /\ \A k \in 0 .. p - 1 : k \in 0 .. n - 1 /\ d[k] = g[k]
      /\ \A k \in p .. n - 1 : k + 1 \in 0 .. n /\ d[k + 1] = g[k]
      /\ \A e : In(e, d, n + 1) <=> In(e, g, n) \/ e = x
  <2> HIDE DEF d
  <2> QED BY <1>2, <1>3, InsertedList DEF d
<1> HIDE DEF d
<1>7. \A k \in 0 .. n - 1 : g[k] \in Entries /\ g[k] # x /\ g[k] # NIL
  BY <1>2, <1>3, EntriesNotNil DEF IsList, In
<1>8. (n + 1) - 1 = n
  BY <1>2
<1>9. \A k \in 0 .. n : \/ k < p - 1 /\ k \in 0 .. p - 1 /\ k + 1 \in 0 .. p - 1 /\ k \in 0 .. n - 1
                        \/ k = p - 1 /\ k \in 0 .. p - 1 /\ k \in 0 .. n - 1 /\ p > 0 /\ k + 1 = p
                        \/ k = p
                        \/ k > p /\ k - 1 \in p .. n - 1 /\ k - 1 \in 0 .. n - 1 /\ (k - 1) + 1 = k
  BY <1>2
<1>10. Forward(work_queue', d, n + 1)
  <2> SUFFICES ASSUME NEW k \in 0 .. n
               PROVE  work_queue'[d[k]].next = IF k = n THEN NIL ELSE d[k + 1]
    BY <1>8 DEF Forward
  <2>1. CASE k < p - 1 /\ k \in 0 .. p - 1 /\ k + 1 \in 0 .. p - 1 /\ k \in 0 .. n - 1
    <3>1. k # n /\ k # n - 1 /\ p - 1 \in 0 .. n - 1 /\ k # p - 1 /\ p > 0 /\ p # 0
      BY <1>2, <2>1
    <3>2. d[k] = g[k] /\ d[k + 1] = g[k + 1]
      BY <1>6, <2>1
    <3>3. g[k] # g[p - 1]
      BY <1>2, <2>1, <3>1 DEF IsList
    <3>4. work_queue'[g[k]].next = work_queue[g[k]].next
      BY <1>5, <1>7, <2>1, <3>1, <3>3 DEF Behind
    <3> QED BY <1>2, <2>1, <3>1, <3>2, <3>4 DEF Forward
  <2>2. CASE k = p - 1 /\ k \in 0 .. p - 1 /\ k \in 0 .. n - 1 /\ p > 0 /\ k + 1 = p
    <3>1. d[k] = g[k] /\ g[k] = Behind(g, p) /\ g[k] \in Entries /\ k # n
      BY <1>2, <1>6, <1>7, <2>2 DEF Behind
    <3> QED BY <1>5, <1>6, <2>2, <3>1
  <2>3. CASE k = p
    <3>1. p > 0 => x # Behind(g, p)
      <4>1. p > 0 => p - 1 \in 0 .. n - 1 /\ p # 0
        BY <1>2
      <4> QED BY <1>7, <4>1 DEF Behind
    <3>2. work_queue'[x].next = IF p < n THEN g[p] ELSE NIL
      BY <1>3, <1>5, <3>1
    <3>3. p < n => p \in p .. n - 1 /\ p # n
      BY <1>2
    <3>4. ~(p < n) => p = n
      BY <1>2
    <3> QED BY <1>6, <2>3, <3>2, <3>3, <3>4
  <2>4. CASE k > p /\ k - 1 \in p .. n - 1 /\ k - 1 \in 0 .. n - 1 /\ (k - 1) + 1 = k
    <3>1. d[k] = g[k - 1]
      BY <1>6, <2>4
    <3>2. p > 0 => g[k - 1] # Behind(g, p)
      <4>1. p > 0 => p - 1 \in 0 .. n - 1 /\ p # 0 /\ p - 1 # k - 1
        BY <1>2, <2>4
      <4> QED BY <1>2, <2>4, <4>1 DEF Behind, IsList
    <3>3. work_queue'[g[k - 1]].next = work_queue[g[k - 1]].next
      BY <1>5, <1>7, <2>4, <3>2
    <3>4. work_queue[g[k - 1]].next = IF k = n THEN NIL ELSE g[k]
      <4>1. k - 1 = n - 1 <=> k = n
        BY <1>2
      <4> QED BY <1>2, <2>4, <4>1 DEF Forward
    <3>5. k # n => k \in p .. n - 1
      BY <1>2, <2>4
    <3> QED BY <1>6, <3>1, <3>3, <3>4, <3>5
  <2> QED BY <1>9, <2>1, <2>2, <2>3, <2>4
<1>11. Backward(work_queue', d, n + 1)
  <2> SUFFICES ASSUME NEW k \in 0 .. n
               PROVE  work_queue'[d[k]].prev = IF k = 0 THEN NIL ELSE d[k - 1]
    BY <1>8 DEF Backward
  <2>1. CASE k < p
    <3>1. k \in 0 .. p - 1 /\ k \in 0 .. n - 1 /\ (k # 0 => k - 1 \in 0 .. p - 1)
      BY <1>2, <2>1
    <3>2. p < n => g[k] # g[p]
      <4>1. p < n => p \in 0 .. n - 1 /\ p # k
        BY <1>2, <2>1
      <4> QED BY <1>2, <3>1, <4>1 DEF IsList
    <3>3. work_queue'[g[k]].prev = work_queue[g[k]].prev
      BY <1>5, <1>7, <3>1, <3>2
    <3> QED BY <1>2, <1>6, <3>1, <3>3 DEF Backward
  <2>2. CASE k = p
    <3>1. p < n => p \in 0 .. n - 1
      BY <1>2
    <3>2. p < n => x # g[p]
      BY <1>7, <3>1
    <3>3. work_queue'[x].prev = IF p > 0 THEN Behind(g, p) ELSE NIL
      BY <1>3, <1>5, <3>2
    <3>4. p > 0 => Behind(g, p) = d[p - 1] /\ p # 0
      <4>1. p > 0 => p - 1 \in 0 .. p - 1 /\ p # 0
        BY <1>2
      <4> QED BY <1>6, <4>1 DEF Behind
    <3>5. ~(p > 0) => p = 0
      BY <1>2
    <3> QED BY <1>6, <2>2, <3>3, <3>4, <3>5
  <2>3. CASE k = p + 1
    <3>1. p < n /\ p \in p .. n - 1 /\ k # 0 /\ k - 1 = p /\ p \in 0 .. n - 1
      BY <1>2, <2>3
    <3>2. d[k] = g[p]
      BY <1>6, <2>3, <3>1
    <3> QED BY <1>5, <1>6, <1>7, <3>1, <3>2
  <2>4. CASE k > p + 1
    <3>1. /\ k - 1 \in p .. n - 1 /\ k - 1 \in 0 .. n - 1 /\ (k - 1) + 1 = k
          /\ k - 2 \in p .. n - 1 /\ (k - 2) + 1 = k - 1 /\ k # 0 /\ k - 1 # 0 /\ k - 1 - 1 = k - 2
          /\ p < n /\ p \in 0 .. n - 1 /\ p # k - 1
      BY <1>2, <2>4
    <3>2. d[k] = g[k - 1] /\ d[k - 1] = g[k - 2]
      BY <1>6, <3>1
    <3>3. g[k - 1] # g[p]
      BY <1>2, <3>1 DEF IsList
    <3>4. work_queue'[g[k - 1]].prev = work_queue[g[k - 1]].prev
      BY <1>5, <1>7, <3>1, <3>3
    <3>5. work_queue[g[k - 1]].prev = g[k - 2]
      BY <1>2, <3>1 DEF Backward
    <3> QED BY <3>1, <3>2, <3>4, <3>5
  <2> QED BY <1>2, <2>1, <2>2, <2>3, <2>4
<1>12. Forward(work_queue', h, m)
  <2>1. \A e \in Entries : In(e, h, m) => work_queue'[e].next = work_queue[e].next
    <3> SUFFICES ASSUME NEW e \in Entries, In(e, h, m)
                 PROVE  work_queue'[e].next = work_queue[e].next
      OBVIOUS
    <3>1. e # x /\ ~In(e, g, n)
      BY <1>3 DEF QueueOK, Lists
    <3>2. p > 0 => e # Behind(g, p)
      <4>1. p > 0 => p - 1 \in 0 .. n - 1 /\ p # 0
        BY <1>2
      <4> QED BY <3>1, <4>1 DEF Behind, In
    <3> QED BY <1>5, <3>1, <3>2
  <2> QED BY <1>2, <2>1, SameForward
<1>13. Lists(d, n + 1, h, m)'
  <2>1. \A e : ~(In(e, d, n + 1) /\ In(e, h, m))
    BY <1>3, <1>6 DEF QueueOK, Lists
  <2>2. io_seq' = d[0] /\ io_seq_end' = d[n]
    <3>1. p # 0 => 0 \in 0 .. p - 1 /\ n > 0
      BY <1>2
    <3>2. p # n => n - 1 \in p .. n - 1 /\ (n - 1) + 1 = n /\ n > 0
      BY <1>2
    <3>3. io_seq = (IF n = 0 THEN NIL ELSE g[0]) /\ (n > 0 => io_seq_end = g[n - 1])
      BY DEF QueueOK, Lists
    <3>4. n > 0 => n # 0
      BY <1>2
    <3> QED BY <1>5, <1>6, <3>1, <3>2, <3>3, <3>4
  <2>3. free_seq' = h[0] /\ free_seq_end' = h[m - 1]
    BY <1>4 DEF QueueOK, Lists
  <2>4. \A e \in Entries : In(e, d, n + 1) \/ In(e, h, m)
    BY <1>1, <1>6 DEF QueueOK, Lists
  <2>5. n + 1 # 0
    BY <1>2
  <2> QED BY <1>2, <1>4, <1>6, <1>8, <1>10, <1>11, <1>12, <2>1, <2>2, <2>3, <2>4, <2>5 DEF Lists
<1>14. Sorted(d, n + 1)'
  <2> DEFINE t(e) == work_queue[e].nsecs_target
             Ok(e, f) == t(e) <= t(f) \/ t(e) <= latest_nsecs
  <2>1. \A e \in Entries : work_queue'[e].nsecs_target = t(e) /\ t(e) \in Nat
    BY <1>2, <1>5, QueueTyped DEF EntryType
  <2>2. t(x) = op.target /\ latest_nsecs' = latest_nsecs
    BY <1>3, <1>4 DEF workerVars
  <2>3. /\ \A k \in p .. n - 1 : t(g[k]) > op.target
        /\ p > 0 => t(g[p - 1]) <= latest_nsecs \/ t(g[p - 1]) <= op.target
    BY DEF Place
  <2>4. \A j, k \in 0 .. n - 1 : j < k => Ok(g[j], g[k])
    BY DEF QueueOK, Sorted
  <2>5. \A k \in 0 .. n - 1 : t(g[k]) \in Nat
    BY <1>7, <2>1
  <2>6. \A k \in 0 .. n : d[k] \in Entries
    BY <1>6, <1>8 DEF IsList
  <2> HIDE DEF t
  <2>7. ASSUME NEW j \in 0 .. n, NEW k \in 0 .. n, j < k PROVE Ok(d[j], d[k])
    <3>1. CASE k < p
      <4>1. j \in 0 .. p - 1 /\ k \in 0 .. p - 1
        BY <1>2, <2>7, <3>1
      <4> QED BY <1>6, <2>4, <2>7, <4>1
    <3>2. CASE k = p
      <4>1. j \in 0 .. p - 1 /\ j \in 0 .. n - 1 /\ p > 0 /\ p - 1 \in 0 .. n - 1 /\ (j # p - 1 => j < p - 1)
        BY <1>2, <2>7, <3>2
      <4>2. d[j] = g[j] /\ d[k] = x
        BY <1>6, <3>2, <4>1
      <4>3. j # p - 1 => Ok(g[j], g[p - 1])
        BY <2>4, <4>1
      <4> QED BY <1>2, <1>3, <2>2, <2>3, <2>5, <4>1, <4>2, <4>3
    <3>3. CASE k > p
      <4>1. k - 1 \in p .. n - 1 /\ (k - 1) + 1 = k /\ k - 1 \in 0 .. n - 1
        BY <1>2, <3>3
      <4>2. d[k] = g[k - 1]
        BY <1>6, <4>1
      <4>3. CASE j < p
        <5>1. j \in 0 .. p - 1 /\ j \in 0 .. n - 1 /\ j < k - 1
          BY <1>2, <3>3, <4>3
        <5> QED BY <1>6, <2>4, <4>1, <4>2, <5>1
      <4>4. CASE j = p
        BY <1>3, <1>6, <2>2, <2>3, <2>5, <4>1, <4>2, <4>4
      <4>5. CASE j > p
        <5>1. j - 1 \in p .. n - 1 /\ (j - 1) + 1 = j /\ j - 1 \in 0 .. n - 1 /\ j - 1 < k - 1
          BY <1>2, <2>7, <4>5
        <5> QED BY <1>6, <2>4, <4>1, <4>2, <5>1
      <4> QED BY <1>2, <4>3, <4>4, <4>5
    <3> QED BY <1>2, <3>1, <3>2, <3>3
  <2> QED BY <1>8, <2>1, <2>2, <2>6, <2>7 DEF Sorted
<1>15. BaseOK'
  <2>1. io_seq' \in {NIL} \cup Entries /\ io_seq_end' \in {NIL} \cup Entries
    BY <1>2, <1>3, <1>5 DEF TypeOK
  <2>2. TypeOK'
    BY <1>2, <1>4, <1>5, <2>1 DEF TypeOK, EntryType, workerVars
  <2> QED BY <1>2, <1>4, <2>2 DEF BaseOK, Filling, workerVars
<1> QED BY <1>13, <1>14, <1>15 DEF QueueOK, d

-----------------------------------------------------------------------------
(* The first r entries in flight go to the end of the free list.           *)

ReclaimStores(g, n, h, m, r) ==
  /\ work_queue' \in [Entries -> EntryType]
  /\ \A e \in Entries :
       /\ work_queue'[e].next =
            (IF r > 0 /\ e = g[r - 1] THEN NIL
             ELSE IF r > 0 /\ e = h[m - 1] THEN g[0] ELSE work_queue[e].next)
       /\ r < n => (r > 0 /\ e = g[r] => work_queue'[e].prev = NIL)
       /\ r = 0 \/ (e # g[0] /\ (r < n => e # g[r])) => work_queue'[e].prev = work_queue[e].prev
       /\ SameData(work_queue'[e], work_queue[e])
  /\ r > 0 => io_seq' = (IF r < n THEN g[r] ELSE NIL)
  /\ r > 0 => free_seq_end' = g[r - 1]
  /\ r = 0 => UNCHANGED <<work_queue, io_seq, free_seq_end>>

Prefix(g, n, r) ==
  /\ r \in 0 .. n
  /\ \A k \in 0 .. r - 1 : Reclaimable(g[k])
  /\ r < n => ~Reclaimable(g[r])

LEMMA ReclaimIsPrefix ==
  ASSUME NEW g, NEW n, NEW h, NEW m, QueueOK(g, n, h, m), Reclaim
  PROVE  \E r : Prefix(g, n, r) /\ ReclaimStores(g, n, h, m, r)
<1> DEFINE N == NR_MAX_PARALLEL_IO
           at == Chain(io_seq, "next")
           stop == {k \in DOMAIN at : at[k] = NIL \/ ~Reclaimable(at[k])}
           nr == CHOOSE k \in stop : \A j \in stop : k <= j
<1>0. /\ IsList(g, n) /\ Forward(work_queue, g, n) /\ io_seq = (IF n = 0 THEN NIL ELSE g[0])
      /\ n \in Nat /\ N \in Nat /\ n <= N /\ work_queue \in [Entries -> EntryType]
      /\ free_seq_end = h[m - 1] /\ h[m - 1] \in Entries
  <2>1. IsList(h, m) /\ m > 0 /\ m \in Nat
    BY DEF QueueOK, Lists, IsList
  <2>2. m - 1 \in 0 .. m - 1
    BY <2>1
  <2>3. h[m - 1] \in Entries
    BY <2>1, <2>2 DEF IsList
  <2> QED BY <2>3, ListShort, QueueTyped DEF QueueOK, Lists, BaseOK, IsList
<1>1. DOMAIN at = 0 .. N
  BY ChainStep
<1>2. \A k \in 0 .. N : at[k] = IF k < n THEN g[k] ELSE NIL
  BY <1>0, ChainIsList
<1>3. /\ dpc = "reclaim" /\ dpc' = "idle"
      /\ IF nr = 0
         THEN UNCHANGED <<work_queue, io_seq, free_seq_end>>
         ELSE /\ io_seq' = at[nr]
              /\ free_seq_end' = at[nr - 1]
              /\ work_queue' =
                   [e \in Entries |->
                      [work_queue[e] EXCEPT
                         !.prev = IF e = at[nr] THEN NIL
                                  ELSE IF e = io_seq THEN free_seq_end ELSE @,
                         !.next = IF e = at[nr - 1] THEN NIL
                                  ELSE IF e = free_seq_end THEN io_seq ELSE @]]
  BY DEF Reclaim
<1> HIDE DEF at
<1>4. stop \subseteq Nat /\ n \in stop
  BY <1>0, <1>1, <1>2
<1>5. PICK r \in stop : \A j \in stop : r <= j
  BY <1>4, LeastNat
<1>6. nr = r
  BY <1>4, <1>5
<1> HIDE DEF nr
<1>7. r \in 0 .. n /\ r \in 0 .. N /\ r \in Nat
  BY <1>0, <1>1, <1>4, <1>5
<1>8. \A k \in 0 .. n - 1 : g[k] \in Entries /\ g[k] # NIL
  BY <1>0, EntriesNotNil DEF IsList
<1>9. Prefix(g, n, r)
  <2>1. ASSUME NEW k \in 0 .. r - 1 PROVE Reclaimable(g[k])
    <3>1. k \in 0 .. N /\ k < n /\ ~(r <= k)
      BY <1>0, <1>7
    <3>2. k \notin stop
      BY <1>5, <3>1
    <3> QED BY <1>1, <1>2, <3>1, <3>2
  <2>2. r < n => ~Reclaimable(g[r])
    <3> SUFFICES ASSUME r < n PROVE ~Reclaimable(g[r])
      OBVIOUS
    <3>1. r \in 0 .. n - 1
      BY <1>0, <1>7
    <3>2. at[r] = g[r] /\ at[r] # NIL
      BY <1>2, <1>7, <1>8, <3>1
    <3> QED BY <1>5, <3>2
  <2> QED BY <1>7, <2>1, <2>2 DEF Prefix
<1>10. CASE r = 0
  <2>1. UNCHANGED <<work_queue, io_seq, free_seq_end>>
    BY <1>3, <1>6, <1>10
  <2>2. ~(r > 0)
    BY <1>10
  <2>3. ReclaimStores(g, n, h, m, r)
    BY <1>0, <1>10, <2>1, <2>2 DEF ReclaimStores, SameData
  <2> QED BY <1>9, <2>3
<1>11. CASE r # 0
  <2>1. r > 0 /\ n > 0 /\ n # 0 /\ r - 1 \in 0 .. N /\ r - 1 < n /\ 0 \in 0 .. n - 1 /\ r - 1 \in 0 .. n - 1
    BY <1>0, <1>7, <1>11
  <2>2. at[r] = (IF r < n THEN g[r] ELSE NIL) /\ at[r - 1] = g[r - 1] /\ io_seq = g[0]
    BY <1>0, <1>2, <1>7, <2>1
  <2> DEFINE rest == IF r < n THEN g[r] ELSE NIL
             To(e) == [work_queue[e] EXCEPT
                         !.prev = IF e = rest THEN NIL
                                  ELSE IF e = g[0] THEN h[m - 1] ELSE @,
                         !.next = IF e = g[r - 1] THEN NIL
                                  ELSE IF e = h[m - 1] THEN g[0] ELSE @]
  <2>3. /\ io_seq' = rest /\ free_seq_end' = g[r - 1]
        /\ work_queue' = [e \in Entries |-> To(e)]
    <3> DEFINE From(e) == [work_queue[e] EXCEPT
                             !.prev = IF e = at[r] THEN NIL
                                      ELSE IF e = io_seq THEN free_seq_end ELSE @,
                             !.next = IF e = at[r - 1] THEN NIL
                                      ELSE IF e = free_seq_end THEN io_seq ELSE @]
    <3>1. io_seq' = at[r] /\ free_seq_end' = at[r - 1] /\ work_queue' = [e \in Entries |-> From(e)]
      BY <1>3, <1>6, <1>11
    <3>2. at[r] = rest /\ at[r - 1] = g[r - 1] /\ io_seq = g[0] /\ free_seq_end = h[m - 1]
      BY <1>0, <2>2
    <3> HIDE DEF rest
    <3>3. \A e \in Entries : From(e) = To(e)
      BY <3>2
    <3> HIDE DEF From, To
    <3> QED BY <3>1, <3>2, <3>3
  <2>4. rest \in {NIL} \cup Entries /\ (r < n => rest = g[r])
    <3>1. r < n => r \in 0 .. n - 1
      BY <1>0, <1>7
    <3> QED BY <1>8, <3>1
  <2>5. g[0] \in Entries /\ g[r - 1] \in Entries
    BY <1>8, <2>1
  <2>6. ASSUME NEW e \in Entries
        PROVE  /\ To(e) \in EntryType
               /\ To(e).next = (IF e = g[r - 1] THEN NIL
                                ELSE IF e = h[m - 1] THEN g[0] ELSE work_queue[e].next)
               /\ To(e).prev = (IF e = rest THEN NIL
                                ELSE IF e = g[0] THEN h[m - 1] ELSE work_queue[e].prev)
               /\ SameData(To(e), work_queue[e])
    <3>1. work_queue[e] \in EntryType
      BY <1>0
    <3>2. PICK p : p = IF e = rest THEN NIL ELSE IF e = g[0] THEN h[m - 1] ELSE work_queue[e].prev
      OBVIOUS
    <3>3. PICK q : q = IF e = g[r - 1] THEN NIL ELSE IF e = h[m - 1] THEN g[0] ELSE work_queue[e].next
      OBVIOUS
    <3>4. p \in {NIL} \cup Entries /\ q \in {NIL} \cup Entries
      BY <1>0, <2>5, <3>1, <3>2, <3>3 DEF EntryType
    <3>5. To(e) = [work_queue[e] EXCEPT !.prev = p, !.next = q]
      BY <3>2, <3>3
    <3> HIDE DEF To
    <3>6. To(e) \in EntryType /\ To(e).next = q /\ To(e).prev = p /\ SameData(To(e), work_queue[e])
      BY <3>1, <3>4, <3>5 DEF EntryType, SameData
    <3> QED BY <3>2, <3>3, <3>6
  <2> HIDE DEF To
  <2>7. work_queue' \in [Entries -> EntryType] /\ \A e \in Entries : work_queue'[e] = To(e)
    BY <2>3, <2>6
  <2>8. ASSUME NEW e \in Entries
        PROVE  /\ work_queue'[e].next =
                    (IF r > 0 /\ e = g[r - 1] THEN NIL
                     ELSE IF r > 0 /\ e = h[m - 1] THEN g[0] ELSE work_queue[e].next)
               /\ r < n => (r > 0 /\ e = g[r] => work_queue'[e].prev = NIL)
               /\ r = 0 \/ (e # g[0] /\ (r < n => e # g[r])) =>
                    work_queue'[e].prev = work_queue[e].prev
               /\ SameData(work_queue'[e], work_queue[e])
    <3>1. e # NIL
      BY EntriesNotNil
    <3> QED BY <1>11, <2>1, <2>4, <2>6, <2>7, <3>1
  <2>9. ReclaimStores(g, n, h, m, r)
    BY <1>11, <2>1, <2>3, <2>7, <2>8 DEF ReclaimStores
  <2> QED BY <1>9, <2>9
<1> QED BY <1>10, <1>11

LEMMA QueueReclaim ==
  ASSUME NEW g, NEW n, NEW h, NEW m, QueueOK(g, n, h, m), Reclaim,
         NEW r, Prefix(g, n, r), ReclaimStores(g, n, h, m, r)
  PROVE  QueueOK(Dropped(g, n, r), n - r, Joined(h, m, g, r), m + r)'
<1> DEFINE d == Dropped(g, n, r)
           both == Joined(h, m, g, r)
           a == n - r
           b == m + r
<1>1. /\ BaseOK /\ TypeOK /\ latest_nsecs \in Nat /\ work_queue \in [Entries -> EntryType]
      /\ IsList(g, n) /\ Forward(work_queue, g, n) /\ Backward(work_queue, g, n)
      /\ IsList(h, m) /\ Forward(work_queue, h, m) /\ m > 0 /\ m \in Nat
      /\ n \in Nat /\ r \in 0 .. n /\ r \in Nat /\ r <= n
      /\ \A e : ~(In(e, g, n) /\ In(e, h, m))
  BY QueueTyped DEF QueueOK, Lists, BaseOK, IsList, Prefix
<1>2. /\ dpc = "reclaim" /\ dpc' = "idle" /\ ~Filling /\ ~Filling'
      /\ UNCHANGED <<free_seq, io_seq_end, now, nr_ops, op, entry, dropped, targets, workerVars>>
  BY DEF Reclaim, Filling
<1>3. /\ io_seq = (IF n = 0 THEN NIL ELSE g[0]) /\ (n > 0 => io_seq_end = g[n - 1])
      /\ free_seq = h[0] /\ free_seq_end = h[m - 1]
      /\ \A e \in Entries : In(e, g, n) \/ In(e, h, m)
  BY <1>2 DEF QueueOK, Lists
<1>4. /\ IsList(d, a)
      /\ \A k \in 0 .. a - 1 : d[k] = g[k + r]
      /\ \A e : In(e, d, a) <=> \E k \in r .. n - 1 : e = g[k]
  <2> HIDE DEF d
  <2> QED BY <1>1, DroppedList DEF d
<1>5. /\ IsList(both, b)
      /\ \A k \in 0 .. m - 1 : k \in 0 .. b - 1 /\ both[k] = h[k]
      /\ \A k \in 0 .. r - 1 : m + k \in 0 .. b - 1 /\ both[m + k] = g[k]
      /\ \A e : In(e, both, b) <=> In(e, h, m) \/ \E k \in 0 .. r - 1 : e = g[k]
  <2>1. m + r - 1 = b - 1
    BY <1>1
  <2>2. /\ IsList(both, b)
        /\ \A k \in 0 .. m - 1 : k \in 0 .. m + r - 1 /\ both[k] = h[k]
        /\ \A k \in 0 .. r - 1 : m + k \in 0 .. m + r - 1 /\ both[m + k] = g[k]
        /\ \A e : In(e, both, b) <=> In(e, h, m) \/ \E k \in 0 .. r - 1 : e = g[k]
    <3> HIDE DEF both
    <3> QED BY <1>1, JoinedList DEF both
  <2> HIDE DEF both, b
  <2> QED BY <2>1, <2>2
<1>6. a \in Nat /\ b \in Nat /\ b > 0 /\ (a = 0 <=> ~(r < n)) /\ b - 1 = m + r - 1
  BY <1>1
<1> HIDE DEF d, both
<1>7. /\ \A k \in 0 .. n - 1 : g[k] \in Entries /\ In(g[k], g, n) /\ ~In(g[k], h, m)
      /\ \A k \in 0 .. m - 1 : h[k] \in Entries /\ In(h[k], h, m) /\ ~In(h[k], g, n)
      /\ m - 1 \in 0 .. m - 1 /\ 0 \in 0 .. m - 1
      /\ r > 0 => 0 \in 0 .. n - 1 /\ r - 1 \in 0 .. n - 1
      /\ r < n => r \in 0 .. n - 1
  <2>1. /\ \A k \in 0 .. n - 1 : g[k] \in Entries /\ In(g[k], g, n)
        /\ \A k \in 0 .. m - 1 : h[k] \in Entries /\ In(h[k], h, m)
    BY <1>1 DEF IsList, In
  <2>2. m - 1 \in 0 .. m - 1 /\ 0 \in 0 .. m - 1
        /\ (r > 0 => 0 \in 0 .. n - 1 /\ r - 1 \in 0 .. n - 1)
        /\ (r < n => r \in 0 .. n - 1)
    BY <1>1
  <2> QED BY <1>1, <2>1, <2>2
<1>8. \A e \in Entries :
        /\ work_queue'[e].next = (IF r > 0 /\ e = g[r - 1] THEN NIL
                                  ELSE IF r > 0 /\ e = h[m - 1] THEN g[0] ELSE work_queue[e].next)
        /\ r < n => (r > 0 /\ e = g[r] => work_queue'[e].prev = NIL)
        /\ r = 0 \/ (e # g[0] /\ (r < n => e # g[r])) => work_queue'[e].prev = work_queue[e].prev
        /\ work_queue'[e].nsecs_target = work_queue[e].nsecs_target
  BY DEF ReclaimStores, SameData
<1>9. /\ io_seq' = (IF a = 0 THEN NIL ELSE g[r])
      /\ free_seq_end' = (IF r = 0 THEN h[m - 1] ELSE g[r - 1])
  <2>1. CASE r = 0
    BY <1>1, <1>3, <1>6, <2>1 DEF ReclaimStores
  <2>2. CASE r # 0
    <3>1. r > 0
      BY <1>1, <2>2
    <3> QED BY <1>6, <2>2, <3>1 DEF ReclaimStores
  <2> QED BY <2>1, <2>2
<1>10. \A k \in 0 .. a - 1 : k + r \in 0 .. n - 1 /\ (k = a - 1 <=> k + r = n - 1)
                             /\ (k + 1) + r = (k + r) + 1 /\ (k - 1) + r = (k + r) - 1
                             /\ (r > 0 => k + r # r - 1 /\ k + r # 0)
                             /\ (k # 0 => k + r # r /\ k + r # 0 /\ k - 1 \in 0 .. a - 1)
                             /\ (k # a - 1 => k + 1 \in 0 .. a - 1)
                             /\ (k = 0 => k + r = r) /\ r < n
  BY <1>1
<1>11. Forward(work_queue', d, a)
  <2> SUFFICES ASSUME NEW k \in 0 .. a - 1
               PROVE  work_queue'[d[k]].next = IF k = a - 1 THEN NIL ELSE d[k + 1]
    BY DEF Forward
  <2>1. d[k] = g[k + r] /\ g[k + r] \in Entries /\ k + r \in 0 .. n - 1
    BY <1>4, <1>7, <1>10
  <2>2. r > 0 => g[k + r] # g[r - 1] /\ g[k + r] # h[m - 1]
    <3>1. r > 0 => g[k + r] # g[r - 1]
      BY <1>1, <1>7, <1>10, <2>1 DEF IsList
    <3>2. g[k + r] # h[m - 1]
      BY <1>7, <2>1
    <3> QED BY <3>1, <3>2
  <2>3. work_queue'[g[k + r]].next = work_queue[g[k + r]].next
    BY <1>8, <2>1, <2>2
  <2>4. work_queue[g[k + r]].next = IF k + r = n - 1 THEN NIL ELSE g[(k + r) + 1]
    BY <1>1, <2>1 DEF Forward
  <2>5. k # a - 1 => d[k + 1] = g[(k + r) + 1]
    BY <1>4, <1>10
  <2> QED BY <1>10, <2>1, <2>3, <2>4, <2>5
<1>12. Backward(work_queue', d, a)
  <2> SUFFICES ASSUME NEW k \in 0 .. a - 1
               PROVE  work_queue'[d[k]].prev = IF k = 0 THEN NIL ELSE d[k - 1]
    BY DEF Backward
  <2>1. d[k] = g[k + r] /\ g[k + r] \in Entries /\ k + r \in 0 .. n - 1 /\ r \in 0 .. n - 1 /\ r < n
    BY <1>4, <1>7, <1>10
  <2>2. work_queue[g[k + r]].prev = IF k + r = 0 THEN NIL ELSE g[(k + r) - 1]
    BY <1>1, <2>1 DEF Backward
  <2>3. CASE r = 0
    <3>1. work_queue'[g[k + r]].prev = work_queue[g[k + r]].prev
      BY <1>8, <2>1, <2>3
    <3>2. k + r = 0 <=> k = 0
      BY <2>3
    <3>3. k # 0 => d[k - 1] = g[(k + r) - 1]
      BY <1>4, <1>10
    <3> QED BY <2>1, <2>2, <3>1, <3>2, <3>3
  <2>4. CASE r # 0 /\ k = 0
    <3>1. k + r = r /\ r > 0
      BY <1>1, <2>4
    <3> QED BY <1>8, <2>1, <2>4, <3>1
  <2>5. CASE r # 0 /\ k # 0
    <3>1. k + r # r /\ k + r # 0 /\ r > 0 /\ 0 \in 0 .. n - 1
      BY <1>1, <1>7, <1>10, <2>5
    <3>2. g[k + r] # g[r] /\ g[k + r] # g[0]
      BY <1>1, <2>1, <3>1 DEF IsList
    <3>3. work_queue'[g[k + r]].prev = work_queue[g[k + r]].prev
      BY <1>8, <2>1, <3>2
    <3>4. d[k - 1] = g[(k + r) - 1]
      BY <1>4, <1>10, <2>5
    <3> QED BY <2>1, <2>2, <2>5, <3>1, <3>3, <3>4
  <2> QED BY <2>3, <2>4, <2>5
<1>13. Forward(work_queue', both, b)
  <2> SUFFICES ASSUME NEW k \in 0 .. b - 1
               PROVE  work_queue'[both[k]].next = IF k = b - 1 THEN NIL ELSE both[k + 1]
    BY DEF Forward
  <2>1. CASE k < m - 1
    <3>1. k \in 0 .. m - 1 /\ k + 1 \in 0 .. m - 1 /\ k # m - 1 /\ k # b - 1
      BY <1>1, <1>6, <2>1
    <3>2. h[k] \in Entries /\ both[k] = h[k] /\ both[k + 1] = h[k + 1]
      BY <1>5, <1>7, <3>1
    <3>3. h[k] # h[m - 1]
      BY <1>1, <1>7, <3>1 DEF IsList
    <3>4. r > 0 => h[k] # g[r - 1]
      BY <1>7, <3>1
    <3>5. work_queue'[h[k]].next = work_queue[h[k]].next
      BY <1>8, <3>2, <3>3, <3>4
    <3>6. work_queue[h[k]].next = h[k + 1]
      BY <1>1, <3>1 DEF Forward
    <3> QED BY <3>1, <3>2, <3>5, <3>6
  <2>2. CASE k = m - 1
    <3>1. both[k] = h[m - 1] /\ h[m - 1] \in Entries /\ work_queue[h[m - 1]].next = NIL
      BY <1>1, <1>5, <1>7, <2>2 DEF Forward
    <3>2. r > 0 => h[m - 1] # g[r - 1]
      BY <1>7
    <3>3. work_queue'[h[m - 1]].next = IF r > 0 THEN g[0] ELSE NIL
      BY <1>8, <3>1, <3>2
    <3>4. r > 0 => k # b - 1 /\ 0 \in 0 .. r - 1 /\ m + 0 = k + 1
      BY <1>1, <1>6, <2>2
    <3>5. ~(r > 0) => k = b - 1
      BY <1>1, <1>6, <2>2
    <3>6. r > 0 => both[k + 1] = g[0]
      BY <1>5, <3>4
    <3> QED BY <3>1, <3>3, <3>4, <3>5, <3>6
  <2>3. CASE k >= m
    <3> DEFINE i == k - m
    <3>1. /\ i \in 0 .. r - 1 /\ i \in 0 .. n - 1 /\ m + i = k /\ r > 0
          /\ (i = r - 1 <=> k = b - 1) /\ m + (i + 1) = k + 1
          /\ (i # r - 1 => i + 1 \in 0 .. r - 1 /\ i # n - 1)
      BY <1>1, <1>6, <2>3
    <3> HIDE DEF i
    <3>2. both[k] = g[i] /\ g[i] \in Entries /\ g[i] # h[m - 1]
      BY <1>5, <1>7, <3>1
    <3>3. CASE i = r - 1
      BY <1>8, <3>1, <3>2, <3>3
    <3>4. CASE i # r - 1
      <4>1. g[i] # g[r - 1]
        BY <1>1, <1>7, <3>1, <3>4 DEF IsList
      <4>2. work_queue'[g[i]].next = work_queue[g[i]].next
        BY <1>8, <3>2, <4>1
      <4>3. work_queue[g[i]].next = g[i + 1]
        BY <1>1, <3>1, <3>4 DEF Forward
      <4>4. both[k + 1] = g[i + 1]
        BY <1>5, <3>1, <3>4
      <4> QED BY <3>1, <3>2, <3>4, <4>2, <4>3, <4>4
    <3> QED BY <3>3, <3>4
  <2> QED BY <1>1, <2>1, <2>2, <2>3
<1>14. Lists(d, a, both, b)'
  <2>1. \A e : In(e, g, n) <=> In(e, d, a) \/ \E k \in 0 .. r - 1 : e = g[k]
    <3>1. \A k \in 0 .. n - 1 : k \in 0 .. r - 1 \/ k \in r .. n - 1
      BY <1>1
    <3>2. /\ \A k \in 0 .. r - 1 : k \in 0 .. n - 1
          /\ \A k \in r .. n - 1 : k \in 0 .. n - 1
      BY <1>1
    <3> QED BY <1>4, <3>1, <3>2 DEF In
  <2>2. ASSUME NEW e, In(e, d, a), In(e, both, b) PROVE FALSE
    <3>1. PICK k \in r .. n - 1 : e = g[k]
      BY <1>4, <2>2
    <3>2. ~In(e, h, m)
      BY <1>1, <2>1, <2>2
    <3>3. PICK i \in 0 .. r - 1 : e = g[i]
      BY <1>5, <2>2, <3>2
    <3>4. i \in 0 .. n - 1 /\ k \in 0 .. n - 1 /\ i # k
      BY <1>1
    <3> QED BY <1>1, <3>1, <3>3, <3>4 DEF IsList
  <2>3. \A e \in Entries : In(e, d, a) \/ In(e, both, b)
    BY <1>3, <1>5, <2>1
  <2>4. a # 0 => d[0] = g[r] /\ d[a - 1] = g[n - 1] /\ n > 0
    <3>1. a # 0 => 0 \in 0 .. a - 1 /\ a - 1 \in 0 .. a - 1 /\ 0 + r = r /\ (a - 1) + r = n - 1 /\ n > 0
      BY <1>1
    <3> HIDE DEF a
    <3> QED BY <1>4, <3>1
  <2>5. both[0] = h[0] /\ both[b - 1] = IF r = 0 THEN h[m - 1] ELSE g[r - 1]
    <3>1. r = 0 => b - 1 = m - 1
      BY <1>1
    <3>2. r # 0 => r - 1 \in 0 .. r - 1 /\ m + (r - 1) = b - 1
      BY <1>1
    <3> HIDE DEF b
    <3> QED BY <1>5, <1>7, <3>1, <3>2
  <2>6. /\ io_seq' = (IF a = 0 THEN NIL ELSE d[0]) /\ (a > 0 => io_seq_end' = d[a - 1])
        /\ free_seq' = both[0] /\ free_seq_end' = both[b - 1]
    <3>1. a > 0 => a # 0
      BY <1>6
    <3> HIDE DEF a, b
    <3> QED BY <1>2, <1>3, <1>9, <2>4, <2>5, <3>1
  <2> HIDE DEF a, b
  <2> QED BY <1>2, <1>4, <1>5, <1>6, <1>11, <1>12, <1>13, <2>2, <2>3, <2>6 DEF Lists
<1>15. Sorted(d, a)'
  <2> DEFINE t(e) == work_queue[e].nsecs_target
  <2>1. \A j, k \in 0 .. n - 1 : j < k => t(g[j]) <= t(g[k]) \/ t(g[j]) <= latest_nsecs
    BY DEF QueueOK, Sorted
  <2>2. \A e \in Entries : work_queue'[e].nsecs_target = t(e)
    BY <1>8
  <2> HIDE DEF t
  <2>3. \A k \in 0 .. a - 1 : work_queue'[d[k]].nsecs_target = t(g[k + r])
    BY <1>4, <1>7, <1>10, <2>2
  <2>4. latest_nsecs' = latest_nsecs
    BY <1>2 DEF workerVars
  <2>5. \A j, k \in 0 .. a - 1 : j < k => j + r < k + r
    BY <1>1
  <2>6. \A j, k \in 0 .. a - 1 : j < k => t(g[j + r]) <= t(g[k + r]) \/ t(g[j + r]) <= latest_nsecs
    BY <1>10, <2>1, <2>5
  <2> HIDE DEF a
  <2> QED BY <2>3, <2>4, <2>6 DEF Sorted
<1>16. BaseOK'
  <2>1. io_seq' \in {NIL} \cup Entries /\ free_seq_end' \in Entries
    <3>1. a # 0 => g[r] \in Entries
      BY <1>6, <1>7
    <3>2. r # 0 => g[r - 1] \in Entries
      BY <1>1, <1>7
    <3> HIDE DEF a
    <3> QED BY <1>7, <1>9, <3>1, <3>2
  <2>2. work_queue' \in [Entries -> EntryType]
    BY DEF ReclaimStores
  <2>3. TypeOK'
    BY <1>1, <1>2, <2>1, <2>2 DEF TypeOK, EntryType, workerVars
  <2> QED BY <1>1, <1>2, <2>3 DEF BaseOK, Filling, workerVars
<1> QED BY <1>14, <1>15, <1>16 DEF QueueOK, d, both

-----------------------------------------------------------------------------
(* What the lists say of the properties.                                   *)

ListsHold == \E g, n, h, m : QueueOK(g, n, h, m)

LEMMA NextCases ==
  ASSUME [Next]_vars
  PROVE  \/ \E internal \in BOOLEAN : Drop(internal)
         \/ \E internal \in BOOLEAN, target \in Times : Allocate(internal, target)
         \/ FillRequest \/ FillLinks \/ FillKind
         \/ Insert
         \/ Reclaim
         \/ Worker \/ Tick \/ UNCHANGED vars
BY DEF Next, Dispatch

(* The entries met from the head of a list are those of the list.          *)
LEMMA LinkedIsList ==
  ASSUME NEW g, NEW n, IsList(g, n), Forward(work_queue, g, n)
  PROVE  \A e : e \in Linked(IF n = 0 THEN NIL ELSE g[0]) <=> In(e, g, n)
<1> DEFINE start == IF n = 0 THEN NIL ELSE g[0]
           C(k) == Chain(start, "next")[k]
<1>0. n \in Nat /\ n <= NR_MAX_PARALLEL_IO /\ NR_MAX_PARALLEL_IO \in Nat
  BY ListShort, WorkQueueAssumption DEF IsList
<1>1. \A k \in 0 .. NR_MAX_PARALLEL_IO : C(k) = IF k < n THEN g[k] ELSE NIL
  BY ChainIsList
<1>2. \A k \in 0 .. n - 1 : g[k] # NIL /\ k < n /\ k \in 0 .. NR_MAX_PARALLEL_IO
  BY <1>0, EntriesNotNil DEF IsList
<1>3. \A k \in 0 .. NR_MAX_PARALLEL_IO : k < n => k \in 0 .. n - 1
  BY <1>0
<1>4. Linked(start) = {C(k) : k \in 0 .. NR_MAX_PARALLEL_IO} \ {NIL}
  BY DEF Linked
<1> HIDE DEF start, C
<1>5. ASSUME NEW e PROVE e \in Linked(start) <=> In(e, g, n)
  <2>1. ASSUME e \in Linked(start) PROVE In(e, g, n)
    <3>1. PICK k \in 0 .. NR_MAX_PARALLEL_IO : e = C(k) /\ e # NIL
      BY <1>4, <2>1
    <3> QED BY <1>1, <1>3, <3>1 DEF In
  <2>2. ASSUME In(e, g, n) PROVE e \in Linked(start)
    <3>1. PICK k \in 0 .. n - 1 : e = g[k]
      BY <2>2 DEF In
    <3> QED BY <1>1, <1>2, <1>4, <3>1
  <2> QED BY <2>1, <2>2
<1> QED BY <1>5 DEF start

LEMMA ListsAre ==
  ASSUME NEW g, NEW n, NEW h, NEW m, QueueOK(g, n, h, m)
  PROVE  /\ \A e : e \in InFlight <=> In(e, g, n)
         /\ \A e : e \in FreeEntries <=> In(e, h, m)
<1>1. /\ IsList(g, n) /\ IsList(h, m) /\ m > 0 /\ m # 0
      /\ Forward(work_queue, g, n) /\ Forward(work_queue, h, m)
      /\ io_seq = (IF n = 0 THEN NIL ELSE g[0]) /\ free_seq = h[0]
  BY DEF QueueOK, Lists, IsList
<1>2. \A e : e \in InFlight <=> In(e, g, n)
  BY <1>1, LinkedIsList DEF InFlight
<1>3. free_seq = IF m = 0 THEN NIL ELSE h[0]
  BY <1>1
<1>4. \A e : e \in FreeEntries <=> In(e, h, m)
  BY <1>1, <1>3, LinkedIsList DEF FreeEntries
<1> QED BY <1>2, <1>4

LEMMA QueueIsTyped == ListsHold => TypeOK
BY DEF ListsHold, QueueOK, BaseOK

LEMMA QueueIsPartitioned == ListsHold => ListsPartitionEntries
<1> SUFFICES ASSUME NEW g, NEW n, NEW h, NEW m, QueueOK(g, n, h, m)
             PROVE  ListsPartitionEntries
  BY DEF ListsHold
<1>1. /\ \A e : e \in InFlight <=> In(e, g, n)
      /\ \A e : e \in FreeEntries <=> In(e, h, m)
  BY ListsAre
<1>2. /\ IsList(g, n) /\ Forward(work_queue, g, n) /\ Backward(work_queue, g, n) /\ n \in Nat
      /\ IsList(h, m) /\ Forward(work_queue, h, m) /\ m > 0 /\ m \in Nat
      /\ io_seq = (IF n = 0 THEN NIL ELSE g[0]) /\ (n > 0 => io_seq_end = g[n - 1])
      /\ free_seq_end = h[m - 1]
  BY DEF QueueOK, Lists, IsList
<1>3. \A e : In(e, g, n) \/ In(e, h, m) => e \in Entries
  BY <1>2 DEF In, IsList
<1>4. BeingFilled = (IF Filling THEN {entry} ELSE {}) /\ (Filling => entry \in Entries)
  BY DEF BeingFilled, Filling, QueueOK, BaseOK
<1>5. InFlight \cup FreeEntries \cup BeingFilled = Entries
  <2>1. \A e \in Entries : In(e, g, n) \/ In(e, h, m) \/ (Filling /\ e = entry)
    BY DEF QueueOK, Lists
  <2> QED BY <1>1, <1>3, <1>4, <2>1
<1>6. InFlight \cap FreeEntries = {}
  <2>1. \A e : ~(In(e, g, n) /\ In(e, h, m))
    BY DEF QueueOK, Lists
  <2> QED BY <1>1, <2>1
<1>7. BeingFilled \cap (InFlight \cup FreeEntries) = {}
  <2>1. Filling => ~In(entry, g, n) /\ ~In(entry, h, m)
    BY DEF QueueOK, Lists
  <2> QED BY <1>1, <1>4, <2>1
<1>8. free_seq_end \in FreeEntries /\ Field(free_seq_end, "next") = NIL
  <2>1. m - 1 \in 0 .. m - 1
    BY <1>2
  <2> QED BY <1>1, <1>2, <2>1 DEF In, Forward, Field
<1>9. ASSUME io_seq # NIL
      PROVE  /\ io_seq_end \in InFlight /\ Field(io_seq_end, "next") = NIL
             /\ Field(io_seq, "prev") = NIL
             /\ \A e \in InFlight : Field(e, "next") # NIL => Field(Field(e, "next"), "prev") = e
  <2>1. n > 0 /\ n # 0 /\ n - 1 \in 0 .. n - 1 /\ 0 \in 0 .. n - 1
    BY <1>2, <1>9
  <2>2. io_seq_end \in InFlight /\ Field(io_seq_end, "next") = NIL /\ Field(io_seq, "prev") = NIL
    BY <1>1, <1>2, <2>1 DEF In, Forward, Backward, Field
  <2>3. ASSUME NEW k \in 0 .. n - 1, work_queue[g[k]].next # NIL
        PROVE  work_queue[work_queue[g[k]].next].prev = g[k]
    <3>1. k # n - 1 /\ work_queue[g[k]].next = g[k + 1]
      BY <1>2, <2>3 DEF Forward
    <3>2. k + 1 \in 0 .. n - 1 /\ k + 1 # 0 /\ (k + 1) - 1 = k
      BY <1>2, <3>1
    <3> QED BY <1>2, <3>1, <3>2 DEF Backward
  <2> QED BY <1>1, <2>2, <2>3 DEF In, Field
<1> QED BY <1>5, <1>6, <1>7, <1>8, <1>9 DEF ListsPartitionEntries

LEMMA QueueIsSorted == ListsHold => SortedUnlessDue
<1> SUFFICES ASSUME NEW g, NEW n, NEW h, NEW m, QueueOK(g, n, h, m)
             PROVE  SortedUnlessDue
  BY DEF ListsHold
<1> DEFINE at == Chain(io_seq, "next")
           t(e) == work_queue[e].nsecs_target
<1>1. /\ IsList(g, n) /\ Forward(work_queue, g, n) /\ n \in Nat
      /\ io_seq = (IF n = 0 THEN NIL ELSE g[0]) /\ NR_MAX_PARALLEL_IO \in Nat
  BY WorkQueueAssumption DEF QueueOK, Lists, IsList
<1>2. /\ DOMAIN at = 0 .. NR_MAX_PARALLEL_IO
      /\ \A k \in 0 .. NR_MAX_PARALLEL_IO : at[k] = IF k < n THEN g[k] ELSE NIL
  BY <1>1, ChainStep, ChainIsList
<1>3. \A j, k \in 0 .. n - 1 : j < k => t(g[j]) <= t(g[k]) \/ t(g[j]) <= latest_nsecs
  BY DEF QueueOK, Sorted
<1>4. SortedUnlessDue <=> \A j, k \in DOMAIN at : j < k /\ at[j] # NIL /\ at[k] # NIL =>
                            t(at[j]) <= t(at[k]) \/ t(at[j]) <= latest_nsecs
  BY DEF SortedUnlessDue, Field
<1> HIDE DEF at, t
<1>5. \A k \in 0 .. NR_MAX_PARALLEL_IO : at[k] # NIL => k \in 0 .. n - 1 /\ at[k] = g[k]
  BY <1>1, <1>2
<1> QED BY <1>2, <1>3, <1>4, <1>5

(* A request is refused while the free list has its last entry only.       *)
LEMMA FullWhenOneIsFree ==
  ASSUME NEW g, NEW n, NEW h, QueueOK(g, n, h, 1), ~Filling
  PROVE  Cardinality(InFlight) = NR_MAX_PARALLEL_IO - 1
<1>0. NR_MAX_PARALLEL_IO \in Nat \ {0}
  BY WorkQueueAssumption
<1>1. /\ \A e : e \in InFlight <=> In(e, g, n)
      /\ \A e : e \in FreeEntries <=> In(e, h, 1)
  BY ListsAre
<1>2. \A e : In(e, h, 1) <=> e = h[0]
  BY DEF In
<1>3. h[0] \in Entries
  BY DEF QueueOK, Lists, IsList
<1>4. \A e : In(e, g, n) => e \in Entries
  BY DEF QueueOK, Lists, IsList, In
<1>5. InFlight = Entries \ {h[0]}
  <2>1. \A e : ~(In(e, g, n) /\ In(e, h, 1))
    BY DEF QueueOK, Lists
  <2>2. \A e \in Entries : In(e, g, n) \/ In(e, h, 1)
    BY DEF QueueOK, Lists
  <2> QED BY <1>1, <1>2, <1>4, <2>1, <2>2
<1>6. IsFiniteSet(Entries) /\ Cardinality(Entries) = NR_MAX_PARALLEL_IO
  BY <1>0, FS_Interval DEF Entries
<1> QED BY <1>3, <1>5, <1>6, FS_RemoveElement

LEMMA DropsOnlyFull == ListsHold /\ [Next]_vars => (dropped' # dropped => Cardinality(InFlight) = NR_MAX_PARALLEL_IO - 1)
<1> SUFFICES ASSUME NEW g, NEW n, NEW h, NEW m, QueueOK(g, n, h, m), [Next]_vars, dropped' # dropped
             PROVE  Cardinality(InFlight) = NR_MAX_PARALLEL_IO - 1
  BY DEF ListsHold
<1>1. PICK internal \in BOOLEAN : Drop(internal)
  BY NextCases DEF Allocate, FillRequest, FillLinks, FillKind, Insert, Reclaim, Worker,
     StartPass, Look, Copy, NotDue, Post, Release, Complete, Advance, Tick, vars, dispVars
<1>2. m = 1 /\ ~Filling
  BY <1>1, QueueDrop
<1> QED BY <1>2, FullWhenOneIsFree

-----------------------------------------------------------------------------
(* What the two threads owe each other, as long as the worker has read no  *)
(* half-filled entry.  G is the set of the entries in flight, H that of    *)
(* the free ones.                                                          *)

Elements(g, n) == {g[k] : k \in 0 .. n - 1}

(* The number of the operation an entry was last filled for.               *)
Id(e) == IF work_queue[e].is_internal THEN work_queue[e].buffs_to_release
         ELSE work_queue[e].command_id

(* Entries whose request is in flight, or filled and about to be.          *)
Live(G) == G \cup IF dpc = "insert" THEN {entry} ELSE {}

(* The worker has answered the request of the entry.                       *)
Done(e) == work_queue[e].is_completed \/ (curr = e /\ wpc = "done")

Counted ==
  /\ posted \in [{0} \cup Ops -> Nat] /\ released \in [{0} \cup Ops -> Nat]
  /\ targets \in [Ops -> Times]
  /\ Filling => op.id = nr_ops /\ nr_ops > 0

OpOK(o) ==
  /\ posted[o] + released[o] <= 1
  /\ posted[o] = 1 => o \in copied /\ targets[o] <= now
  /\ released[o] = 1 => targets[o] <= now
  /\ o > nr_ops => posted[o] + released[o] = 0

LiveEntry(e) ==
  /\ Id(e) \in 1 .. nr_ops
  /\ work_queue[e].nsecs_target = targets[Id(e)]
  /\ Done(e) => work_queue[e].is_copied
  /\ work_queue[e].is_internal =>
       /\ work_queue[e].is_copied
       /\ released[Id(e)] = (IF Done(e) THEN 1 ELSE 0) /\ posted[Id(e)] = 0
  /\ ~work_queue[e].is_internal =>
       /\ posted[Id(e)] = (IF Done(e) THEN 1 ELSE 0) /\ released[Id(e)] = 0
       /\ work_queue[e].is_copied => Id(e) \in copied

(* A free entry is as it came, or its last request was answered; those     *)
(* that were used come last in the free list.                              *)
FreeEntry(e) ==
  IF work_queue[e].is_completed
  THEN /\ IF work_queue[e].is_internal THEN released[Id(e)] = 1 ELSE posted[Id(e)] = 1
       /\ Id(e) \in Ops
       /\ work_queue[e].next # NIL => work_queue[work_queue[e].next].is_completed
  ELSE ~work_queue[e].is_internal /\ work_queue[e].command_id = 0

FillingOK(G) ==
  /\ dpc \in {"fill", "fill_links", "fill_kind"} =>
       /\ posted[nr_ops] = 0 /\ released[nr_ops] = 0 /\ targets[nr_ops] = op.target
       /\ \A e \in G : Id(e) # nr_ops
  /\ dpc = "fill" /\ work_queue[entry].is_completed => work_queue[free_seq].is_completed
  /\ dpc = "fill_links" /\ curr = entry /\ wpc \in {"look", "next"} =>
       work_queue[free_seq].is_completed
  /\ dpc \in {"fill_links", "fill_kind"} =>
       /\ ~work_queue[entry].is_completed
       /\ ~op.internal => work_queue[entry].command_id = op.id
  /\ dpc = "fill_kind" => work_queue[entry].is_copied = op.internal

WorkerOK(G, H) ==
  /\ wpc \in {"look", "next"} =>
       \/ curr \in G
       \/ curr \in H /\ work_queue[curr].is_completed
       \/ curr = entry /\ \/ dpc = "fill" /\ work_queue[curr].is_completed
                          \/ dpc \in {"fill_links", "fill_kind", "insert"}
  /\ wpc \in {"copy", "check", "done"} => curr \in Live(G) /\ ~work_queue[curr].is_completed
  /\ wpc \in {"check", "done"} => work_queue[curr].is_copied
  /\ wpc = "done" => work_queue[curr].nsecs_target <= latest_nsecs

Books(G, H) ==
  /\ \A o \in Ops : OpOK(o)
  /\ \A e \in Live(G) : LiveEntry(e)
  /\ \A e, f \in Live(G) : e # f => Id(e) # Id(f)
  /\ \A e \in H : FreeEntry(e)

Answered(G, H) == Books(G, H) /\ FillingOK(G) /\ WorkerOK(G, H)

(* What of the lists these facts rest on.                                  *)
Sets(G, H) ==
  /\ BaseOK
  /\ G \subseteq Entries /\ H \subseteq Entries /\ G \cap H = {}
  /\ Filling => entry \notin G /\ entry \notin H
  /\ free_seq \in H /\ (io_seq # NIL => io_seq \in G)
  /\ \A e \in G : work_queue[e].next \in G \cup {NIL}
  /\ \A e \in H : work_queue[e].next \in H \cup {NIL}

LEMMA InElements ==
  ASSUME NEW g, NEW n
  PROVE  \A e : e \in Elements(g, n) <=> In(e, g, n)
BY DEF Elements, In

LEMMA QueueSets ==
  ASSUME NEW g, NEW n, NEW h, NEW m, QueueOK(g, n, h, m)
  PROVE  Sets(Elements(g, n), Elements(h, m))
<1>1. /\ BaseOK /\ IsList(g, n) /\ Forward(work_queue, g, n) /\ n \in Nat
      /\ IsList(h, m) /\ Forward(work_queue, h, m) /\ m > 0 /\ m \in Nat
      /\ io_seq = (IF n = 0 THEN NIL ELSE g[0]) /\ free_seq = h[0]
      /\ \A e : ~(In(e, g, n) /\ In(e, h, m))
      /\ Filling => ~In(entry, g, n) /\ ~In(entry, h, m)
  BY DEF QueueOK, Lists, IsList
<1>2. ASSUME NEW f, NEW c, IsList(f, c), Forward(work_queue, f, c)
      PROVE  /\ Elements(f, c) \subseteq Entries
             /\ \A e \in Elements(f, c) : work_queue[e].next \in Elements(f, c) \cup {NIL}
  <2>1. Elements(f, c) \subseteq Entries
    BY <1>2 DEF Elements, IsList
  <2>2. ASSUME NEW k \in 0 .. c - 1 PROVE work_queue[f[k]].next \in Elements(f, c) \cup {NIL}
    <3>1. work_queue[f[k]].next = IF k = c - 1 THEN NIL ELSE f[k + 1]
      BY <1>2 DEF Forward
    <3>2. k # c - 1 => k + 1 \in 0 .. c - 1
      BY <1>2 DEF IsList
    <3> QED BY <3>1, <3>2 DEF Elements
  <2> QED BY <2>1, <2>2 DEF Elements
<1>3. h[0] \in Elements(h, m) /\ (n # 0 => g[0] \in Elements(g, n))
  <2>1. 0 \in 0 .. m - 1 /\ (n # 0 => 0 \in 0 .. n - 1)
    BY <1>1
  <2> QED BY <2>1 DEF Elements
<1>4. Elements(g, n) \cap Elements(h, m) = {}
  BY <1>1, InElements
<1>5. Filling => entry \notin Elements(g, n) /\ entry \notin Elements(h, m)
  BY <1>1, InElements
<1>6. /\ Elements(g, n) \subseteq Entries /\ Elements(h, m) \subseteq Entries
      /\ \A e \in Elements(g, n) : work_queue[e].next \in Elements(g, n) \cup {NIL}
      /\ \A e \in Elements(h, m) : work_queue[e].next \in Elements(h, m) \cup {NIL}
  BY <1>1, <1>2
<1> HIDE DEF BaseOK
<1> QED BY <1>1, <1>3, <1>4, <1>5, <1>6 DEF Sets

LEMMA LiveIn ==
  ASSUME NEW G, NEW H, Sets(G, H)
  PROVE  /\ Live(G) \subseteq Entries /\ Live(G) \cap H = {}
         /\ dpc # "insert" => Live(G) = G
         /\ dpc = "insert" => Live(G) = G \cup {entry} /\ entry \notin G
<1>1. dpc = "insert" => entry \in Entries /\ entry \notin G /\ entry \notin H
  BY DEF Sets, BaseOK, Filling
<1> QED BY <1>1 DEF Sets, Live

(* Steps that store into no entry and answer nothing.                      *)
LEMMA BooksKept ==
  ASSUME NEW G, NEW H, Sets(G, H), Counted, Books(G, H),
         UNCHANGED <<work_queue, posted, released, copied, dropped>>,
         Live(G)' = Live(G),
         \A e \in Live(G) : Done(e)' <=> Done(e),
         nr_ops <= nr_ops', nr_ops' \in Nat, now <= now', now' \in Nat,
         \A o \in Ops : o <= nr_ops => targets'[o] = targets[o]
  PROVE  Books(G, H)'
<1>0. nr_ops \in Nat /\ now \in Nat /\ MaxOps \in Nat /\ TypeOK /\ Live(G) \subseteq Entries
  BY LiveIn, QueueTyped DEF Sets, BaseOK, TypeOK
<1>1. \A o \in Ops : posted[o] \in Nat /\ released[o] \in Nat /\ o \in Nat
                     /\ (o <= nr_ops => targets[o] \in Nat)
  BY <1>0, QueueTyped DEF Counted, Ops
<1>2. ASSUME NEW o \in Ops PROVE OpOK(o)'
  <2>1. posted[o] \in Nat /\ released[o] \in Nat /\ o \in Nat /\ (o <= nr_ops => targets[o] \in Nat)
    BY <1>1
  <2>2. OpOK(o)
    BY DEF Books
  <2>3. o <= nr_ops => targets'[o] = targets[o]
    OBVIOUS
  <2> QED BY <1>0, <2>1, <2>2, <2>3 DEF OpOK
<1>3. ASSUME NEW e \in Live(G) PROVE LiveEntry(e)' /\ Id(e)' = Id(e)
  <2>1. LiveEntry(e)
    BY DEF Books
  <2>2. Id(e)' = Id(e)
    BY DEF Id
  <2>3. Id(e) \in 1 .. nr_ops /\ Id(e) \in Ops /\ Id(e) <= nr_ops /\ Id(e) \in 1 .. nr_ops'
    <3>1. nr_ops <= MaxOps
      BY <1>0 DEF TypeOK
    <3>2. Id(e) \in 1 .. nr_ops
      BY <2>1 DEF LiveEntry
    <3> QED BY <1>0, <3>1, <3>2 DEF Ops
  <2>4. targets'[Id(e)] = targets[Id(e)]
    BY <2>3
  <2> QED BY <2>1, <2>2, <2>3, <2>4 DEF LiveEntry
<1>4. ASSUME NEW e \in H PROVE FreeEntry(e)'
  <2>1. FreeEntry(e)
    BY DEF Books
  <2> QED BY <2>1 DEF FreeEntry, Id
<1>5. \A e, f \in Live(G) : e # f => Id(e) # Id(f)
  BY DEF Books
<1>6. \A e, f \in Live(G)' : e # f => Id(e)' # Id(f)'
  BY <1>3, <1>5
<1> QED BY <1>2, <1>3, <1>4, <1>6 DEF Books

LEMMA AnsweredLooking ==
  ASSUME NEW G, NEW H, Sets(G, H), Counted, Answered(G, H), ~torn',
         StartPass \/ Look \/ NotDue \/ Advance \/ Tick \/ UNCHANGED vars
  PROVE  Answered(G, H)'
<1>0. /\ TypeOK /\ nr_ops \in Nat /\ now \in Nat /\ latest_nsecs \in Nat /\ latest_nsecs <= now
      /\ Books(G, H) /\ FillingOK(G) /\ WorkerOK(G, H) /\ G \subseteq Entries /\ H \subseteq Entries
      /\ Live(G) \subseteq Entries
  BY LiveIn, QueueTyped DEF Answered, Sets, BaseOK, TypeOK
<1>1. UNCHANGED <<work_queue, listVars, dispVars, posted, released, copied>>
  BY DEF StartPass, Look, NotDue, Advance, Tick, vars, workerVars, listVars, dispVars
<1>2. wpc = "done" => wpc' = "done" /\ curr' = curr
  BY DEF StartPass, Look, NotDue, Advance, Tick, vars, workerVars
<1>3. wpc' = "done" => wpc = "done"
  BY DEF StartPass, Look, NotDue, Advance, Tick, vars, workerVars
<1>4. \A e : Done(e)' <=> Done(e)
  BY <1>1, <1>2, <1>3 DEF Done
<1>5. now <= now' /\ now' \in Nat
  BY <1>0 DEF StartPass, Look, NotDue, Advance, Tick, vars
<1>6. Live(G)' = Live(G)
  BY <1>1 DEF Live, dispVars
<1>7. Books(G, H)'
  <2>1. UNCHANGED <<nr_ops, targets, dropped>>
    BY <1>1 DEF dispVars
  <2> QED BY <1>0, <1>1, <1>4, <1>5, <1>6, <2>1, BooksKept
<1>8. FillingOK(G)' /\ WorkerOK(G, H)'
  <2>0. /\ UNCHANGED <<work_queue, free_seq, dpc, entry, op, nr_ops, posted, released, targets>>
        /\ \A e \in G : Id(e)' = Id(e)
    BY <1>1 DEF dispVars, listVars, Id
  <2>01. Filling => entry \notin G /\ entry \notin H
    BY DEF Sets
  <2>1. CASE StartPass
    <3>1. curr' \in G /\ (Filling => curr' # entry)
      BY <2>01, <2>1 DEF StartPass, Sets
    <3>2. wpc' = "look"
      BY <2>1 DEF StartPass
    <3>3. FillingOK(G)'
      BY <1>0, <2>0, <3>1, <3>2 DEF FillingOK, Filling
    <3> QED BY <2>0, <3>1, <3>2, <3>3 DEF WorkerOK
  <2>2. CASE Look
    <3>1. /\ wpc = "look" /\ curr' = curr
          /\ wpc' = IF work_queue[curr].is_completed THEN "next"
                    ELSE IF work_queue[curr].is_copied THEN "check" ELSE "copy"
          /\ ~(~work_queue[curr].is_completed /\ curr = entry /\ dpc \in {"fill_links", "fill_kind"})
      BY <2>2 DEF Look, Field
    <3>2. FillingOK(G)'
      BY <1>0, <2>0, <3>1 DEF FillingOK
    <3>3. ~work_queue[curr].is_completed => curr \in Live(G)
      BY <1>0, <3>1 DEF WorkerOK, Live
    <3>4. WorkerOK(G, H)'
      BY <1>0, <1>6, <2>0, <3>1, <3>3 DEF WorkerOK
    <3> QED BY <3>2, <3>4
  <2>3. CASE NotDue
    <3>1. wpc = "check" /\ wpc' = "next" /\ curr' = curr /\ curr \in Live(G)
      BY <1>0, <2>3 DEF NotDue, WorkerOK
    <3>2. FillingOK(G)'
      BY <1>0, <2>0, <2>01, <3>1 DEF FillingOK, Filling, Live
    <3> QED BY <2>0, <3>1, <3>2 DEF WorkerOK, Live
  <2>4. CASE Advance
    <3>1. /\ wpc = "next" /\ curr' = work_queue[curr].next
          /\ wpc' = IF curr' = NIL THEN "pass" ELSE "look"
      BY <2>4 DEF Advance, Field
    <3>2. CASE curr' = NIL
      BY <1>0, <2>0, <3>1, <3>2 DEF FillingOK, WorkerOK
    <3>3. CASE curr' # NIL
      <4>1. curr' \in G \/ (curr' \in H /\ work_queue[curr'].is_completed)
        <5>1. CASE curr \in G
          BY <3>1, <3>3, <5>1 DEF Sets
        <5>2. CASE curr \in H /\ work_queue[curr].is_completed
          <6>1. FreeEntry(curr)
            BY <1>0, <5>2 DEF Books
          <6> QED BY <3>1, <3>3, <5>2, <6>1 DEF Sets, FreeEntry
        <5>3. CASE curr = entry /\ dpc = "fill" /\ work_queue[curr].is_completed
          <6>1. work_queue[entry].next = free_seq /\ free_seq \in H
            BY <5>3 DEF Sets, BaseOK
          <6>2. work_queue[free_seq].is_completed
            BY <1>0, <5>3 DEF FillingOK
          <6> QED BY <3>1, <5>3, <6>1, <6>2
        <5>4. CASE curr = entry /\ dpc = "fill_links"
          <6>1. work_queue[entry].next = free_seq /\ free_seq \in H
            BY <5>4 DEF Sets, BaseOK
          <6>2. work_queue[free_seq].is_completed
            BY <1>0, <3>1, <5>4 DEF FillingOK
          <6> QED BY <3>1, <5>4, <6>1, <6>2
        <5>5. CASE curr = entry /\ dpc \in {"fill_kind", "insert"}
          BY <3>1, <3>3, <5>5 DEF Sets, BaseOK
        <5> QED BY <1>0, <3>1, <5>1, <5>2, <5>3, <5>4, <5>5 DEF WorkerOK
      <4>2. Filling => curr' # entry
        BY <2>01, <4>1
      <4>3. FillingOK(G)'
        BY <1>0, <2>0, <4>2 DEF FillingOK, Filling
      <4>4. WorkerOK(G, H)'
        BY <2>0, <3>1, <3>3, <4>1 DEF WorkerOK
      <4> QED BY <4>3, <4>4
    <3> QED BY <3>2, <3>3
  <2>5. CASE Tick \/ UNCHANGED vars
    <3>1. UNCHANGED <<wpc, curr, latest_nsecs>>
      BY <2>5 DEF Tick, vars, workerVars
    <3>2. FillingOK(G)'
      BY <1>0, <2>0, <3>1 DEF FillingOK
    <3> QED BY <1>0, <1>6, <2>0, <3>1, <3>2 DEF WorkerOK
  <2> QED BY <2>1, <2>2, <2>3, <2>4, <2>5
<1> QED BY <1>7, <1>8 DEF Answered

LEMMA FlagStores ==
  ASSUME TypeOK, curr \in Entries
  PROVE  /\ Copy => \A e \in Entries :
              /\ work_queue'[e].is_copied <=> (e = curr \/ work_queue[e].is_copied)
              /\ work_queue'[e].is_completed <=> work_queue[e].is_completed
         /\ Copy \/ Complete => \A e \in Entries : e # curr => work_queue'[e] = work_queue[e]
         /\ Complete => \A e \in Entries :
              /\ work_queue'[e].is_copied <=> work_queue[e].is_copied
              /\ work_queue'[e].is_completed <=> (e = curr \/ work_queue[e].is_completed)
<1>1. work_queue \in [Entries -> EntryType]
  BY QueueTyped
<1> DEFINE Move(w) == [w EXCEPT !.is_copied = TRUE]
           Finish(w) == [w EXCEPT !.is_completed = TRUE]
<1>2. \A w \in EntryType :
        /\ Move(w).is_copied = TRUE /\ Move(w).is_completed = w.is_completed
        /\ Finish(w).is_completed = TRUE /\ Finish(w).is_copied = w.is_copied
        /\ w.is_copied \in BOOLEAN /\ w.is_completed \in BOOLEAN
  BY DEF EntryType
<1>8. Copy \/ Complete => \A e \in Entries : e # curr => work_queue'[e] = work_queue[e]
  BY <1>1 DEF Copy, Complete
<1>3. Copy => \A e \in Entries : work_queue'[e] = IF e = curr THEN Move(work_queue[e]) ELSE work_queue[e]
  BY <1>1 DEF Copy
<1>4. Complete => \A e \in Entries : work_queue'[e] = IF e = curr THEN Finish(work_queue[e]) ELSE work_queue[e]
  BY <1>1 DEF Complete
<1>5. \A e \in Entries : work_queue[e] \in EntryType
  BY <1>1
<1> HIDE DEF Move, Finish
<1>6. ASSUME Copy, NEW e \in Entries
      PROVE  /\ work_queue'[e].is_copied <=> (e = curr \/ work_queue[e].is_copied)
             /\ work_queue'[e].is_completed <=> work_queue[e].is_completed
  <2>1. CASE e = curr
    BY <1>2, <1>3, <1>5, <1>6, <2>1
  <2>2. CASE e # curr
    BY <1>2, <1>3, <1>5, <1>6, <2>2
  <2> QED BY <2>1, <2>2
<1>7. ASSUME Complete, NEW e \in Entries
      PROVE  /\ work_queue'[e].is_copied <=> work_queue[e].is_copied
             /\ work_queue'[e].is_completed <=> (e = curr \/ work_queue[e].is_completed)
  <2>1. CASE e = curr
    BY <1>2, <1>4, <1>5, <1>7, <2>1
  <2>2. CASE e # curr
    BY <1>2, <1>4, <1>5, <1>7, <2>2
  <2> QED BY <2>1, <2>2
<1> QED BY <1>6, <1>7, <1>8

LEMMA AnsweredCopy ==
  ASSUME NEW G, NEW H, Sets(G, H), Counted, Answered(G, H), Copy
  PROVE  Answered(G, H)'
<1>0. /\ TypeOK /\ latest_nsecs <= now
      /\ Books(G, H) /\ FillingOK(G) /\ WorkerOK(G, H) /\ G \subseteq Entries /\ H \subseteq Entries
      /\ Live(G) \subseteq Entries /\ Live(G) \cap H = {} /\ free_seq \in H
  BY LiveIn DEF Answered, Sets, BaseOK
<1>1. /\ wpc = "copy" /\ wpc' = "check"
      /\ UNCHANGED <<listVars, now, dispVars, latest_nsecs, curr, posted, released>>
      /\ copied' = IF work_queue[curr].is_internal THEN copied
                   ELSE copied \cup {work_queue[curr].command_id}
  BY DEF Copy, Field
<1>2. curr \in Live(G) /\ curr \in Entries /\ ~work_queue[curr].is_completed
  BY <1>0, <1>1 DEF WorkerOK
<1>3. \A e \in Entries :
        /\ work_queue'[e].next = work_queue[e].next
        /\ work_queue'[e].nsecs_target = work_queue[e].nsecs_target
        /\ work_queue'[e].command_id = work_queue[e].command_id
        /\ work_queue'[e].is_internal = work_queue[e].is_internal
        /\ work_queue'[e].is_completed <=> work_queue[e].is_completed
        /\ work_queue'[e].is_copied <=> (e = curr \/ work_queue[e].is_copied)
        /\ Id(e)' = Id(e)
        /\ Done(e)' <=> Done(e)
        /\ e # curr => work_queue'[e] = work_queue[e]
  BY <1>0, <1>1, <1>2, WorkerStores, FlagStores DEF Worker, SameLink, Id, Done
<1>4. UNCHANGED <<dpc, entry, op, nr_ops, targets, free_seq>> /\ Live(G)' = Live(G)
  BY <1>1 DEF dispVars, listVars, Live
<1>5. \A o \in Ops : OpOK(o)'
  BY <1>0, <1>1, <1>4 DEF Books, OpOK
<1>6. ASSUME NEW e \in Live(G) PROVE LiveEntry(e)'
  <2>1. LiveEntry(e) /\ e \in Entries
    BY <1>0 DEF Books
  <2>2. ~work_queue[curr].is_internal => Id(curr) \in copied'
    BY <1>1 DEF Id
  <2> QED BY <1>1, <1>3, <1>4, <2>1, <2>2 DEF LiveEntry
<1>7. \A e, f \in Live(G)' : e # f => Id(e)' # Id(f)'
  BY <1>0, <1>3, <1>4 DEF Books
<1>8. ASSUME NEW e \in H PROVE FreeEntry(e)'
  <2>1. FreeEntry(e) /\ e \in Entries /\ work_queue[e].next \in H \cup {NIL}
    BY <1>0 DEF Books, Sets
  <2>2. work_queue[e].next # NIL => work_queue[e].next \in Entries
    BY <1>0, <2>1
  <2> QED BY <1>1, <1>3, <2>1, <2>2 DEF FreeEntry
<1>9. FillingOK(G)'
  <2>1. dpc \in {"fill", "fill_links", "fill_kind"} => curr # entry /\ entry \in Entries
    BY <1>0, <1>2 DEF Live, Sets, Filling, BaseOK
  <2>2. free_seq \in Entries /\ \A e \in G : Id(e)' = Id(e)
    BY <1>0, <1>3
  <2> QED BY <1>0, <1>1, <1>3, <1>4, <2>1, <2>2 DEF FillingOK
<1>10. WorkerOK(G, H)'
  BY <1>1, <1>2, <1>3, <1>4 DEF WorkerOK
<1> QED BY <1>4, <1>5, <1>6, <1>7, <1>8, <1>9, <1>10 DEF Answered, Books

LEMMA AnsweredComplete ==
  ASSUME NEW G, NEW H, Sets(G, H), Counted, Answered(G, H), Complete
  PROVE  Answered(G, H)'
<1>0. /\ TypeOK /\ latest_nsecs <= now
      /\ Books(G, H) /\ FillingOK(G) /\ WorkerOK(G, H) /\ G \subseteq Entries /\ H \subseteq Entries
      /\ Live(G) \subseteq Entries /\ Live(G) \cap H = {} /\ free_seq \in H
  BY LiveIn DEF Answered, Sets, BaseOK
<1>1. /\ wpc = "done" /\ wpc' = "next"
      /\ UNCHANGED <<listVars, now, dispVars, latest_nsecs, curr, copied, posted, released>>
  BY DEF Complete
<1>2. curr \in Live(G) /\ curr \in Entries /\ ~work_queue[curr].is_completed
  BY <1>0, <1>1 DEF WorkerOK
<1>3. \A e \in Entries :
        /\ work_queue'[e].next = work_queue[e].next
        /\ work_queue'[e].nsecs_target = work_queue[e].nsecs_target
        /\ work_queue'[e].command_id = work_queue[e].command_id
        /\ work_queue'[e].is_internal = work_queue[e].is_internal
        /\ work_queue'[e].is_completed <=> (e = curr \/ work_queue[e].is_completed)
        /\ work_queue'[e].is_copied <=> work_queue[e].is_copied
        /\ Id(e)' = Id(e)
        /\ Done(e)' <=> Done(e)
        /\ e # curr => work_queue'[e] = work_queue[e]
  BY <1>0, <1>1, <1>2, WorkerStores, FlagStores DEF Worker, SameLink, Id, Done
<1>4. UNCHANGED <<dpc, entry, op, nr_ops, targets, free_seq>> /\ Live(G)' = Live(G)
  BY <1>1 DEF dispVars, listVars, Live
<1>5. \A o \in Ops : OpOK(o)'
  BY <1>0, <1>1, <1>4 DEF Books, OpOK
<1>6. ASSUME NEW e \in Live(G) PROVE LiveEntry(e)'
  <2>1. LiveEntry(e) /\ e \in Entries
    BY <1>0 DEF Books
  <2> QED BY <1>1, <1>3, <1>4, <2>1 DEF LiveEntry
<1>7. \A e, f \in Live(G)' : e # f => Id(e)' # Id(f)'
  BY <1>0, <1>3, <1>4 DEF Books
<1>8. ASSUME NEW e \in H PROVE FreeEntry(e)'
  <2>1. FreeEntry(e) /\ e \in Entries /\ work_queue[e].next \in H \cup {NIL} /\ e # curr
    BY <1>0, <1>2 DEF Books, Sets
  <2>2. work_queue[e].next # NIL => work_queue[e].next \in Entries
    BY <1>0, <2>1
  <2> QED BY <1>1, <1>3, <2>1, <2>2 DEF FreeEntry
<1>9. FillingOK(G)'
  <2>1. dpc \in {"fill", "fill_links", "fill_kind"} => curr # entry /\ entry \in Entries
    BY <1>0, <1>2 DEF Live, Sets, Filling, BaseOK
  <2>2. free_seq \in Entries /\ \A e \in G : Id(e)' = Id(e)
    BY <1>0, <1>3
  <2> QED BY <1>0, <1>1, <1>3, <1>4, <2>1, <2>2 DEF FillingOK
<1>10. WorkerOK(G, H)'
  BY <1>1, <1>2, <1>3, <1>4 DEF WorkerOK, Live
<1> QED BY <1>4, <1>5, <1>6, <1>7, <1>8, <1>9, <1>10 DEF Answered, Books

(* A command is posted, or a buffer released, once: its entry is the only  *)
(* live one with its number, and no free entry has it.                     *)
LEMMA AnsweredAnswer ==
  ASSUME NEW G, NEW H, Sets(G, H), Counted, Answered(G, H), Post \/ Release
  PROVE  Answered(G, H)'
<1>1. /\ wpc = "check" /\ wpc' = "done" /\ work_queue[curr].nsecs_target <= latest_nsecs
      /\ UNCHANGED <<work_queue, listVars, now, dispVars, latest_nsecs, curr, copied>>
      /\ Post => /\ ~work_queue[curr].is_internal
                 /\ posted' = [posted EXCEPT ![work_queue[curr].command_id] = @ + 1]
                 /\ released' = released
      /\ Release => /\ work_queue[curr].is_internal
                    /\ released' = [released EXCEPT ![work_queue[curr].buffs_to_release] = @ + 1]
                    /\ posted' = posted
  BY DEF Post, Release, Field
<1>0. /\ TypeOK /\ latest_nsecs <= now /\ latest_nsecs \in Nat /\ now \in Nat /\ nr_ops \in 0 .. MaxOps
      /\ MaxOps \in Nat
      /\ Books(G, H) /\ FillingOK(G) /\ WorkerOK(G, H) /\ G \subseteq Entries /\ H \subseteq Entries
      /\ Live(G) \subseteq Entries /\ Live(G) \cap H = {}
      /\ posted \in [{0} \cup Ops -> Nat] /\ released \in [{0} \cup Ops -> Nat]
      /\ targets \in [Ops -> Times]
  BY LiveIn, QueueTyped DEF Answered, Sets, BaseOK, Counted, TypeOK
<1>2. PICK i : i = Id(curr)
  OBVIOUS
<1>3. /\ curr \in Live(G) /\ curr \in Entries /\ ~work_queue[curr].is_completed
      /\ work_queue[curr].is_copied
  BY <1>0, <1>1 DEF WorkerOK
<1>4. LiveEntry(curr) /\ ~Done(curr)
  BY <1>0, <1>1, <1>3 DEF Books, Done
<1>5. i \in Ops /\ i \in 1 .. nr_ops
  BY <1>0, <1>2, <1>4 DEF LiveEntry, Ops
<1>6. posted[i] = 0 /\ released[i] = 0 /\ targets[i] <= now /\ (Post => i \in copied)
  <2>1. posted[i] = 0 /\ released[i] = 0 /\ targets[i] = work_queue[curr].nsecs_target
    BY <1>2, <1>4 DEF LiveEntry
  <2>2. targets[i] \in Nat
    BY <1>0, <1>5, QueueTyped
  <2>3. targets[i] <= now
    BY <1>0, <1>1, <2>1, <2>2
  <2>4. Post => i \in copied
    BY <1>1, <1>2, <1>3, <1>4 DEF LiveEntry
  <2> QED BY <2>1, <2>3, <2>4
<1>7. \A o \in {0} \cup Ops :
        /\ posted'[o] = (IF Post /\ o = i THEN 1 ELSE posted[o])
        /\ released'[o] = (IF ~Post /\ o = i THEN 1 ELSE released[o])
        /\ posted[o] \in Nat /\ released[o] \in Nat
  <2>1. CASE Post
    <3>1. posted' = [posted EXCEPT ![i] = @ + 1] /\ released' = released
      BY <1>1, <1>2, <2>1 DEF Id
    <3> QED BY <1>0, <1>5, <1>6, <2>1, <3>1
  <2>2. CASE ~Post
    <3>1. released' = [released EXCEPT ![i] = @ + 1] /\ posted' = posted
      BY <1>1, <1>2, <2>2 DEF Id
    <3> QED BY <1>0, <1>5, <1>6, <2>2, <3>1
  <2> QED BY <2>1, <2>2
<1>8. /\ UNCHANGED <<dpc, entry, op, nr_ops, targets, free_seq, copied, now, work_queue, curr>>
      /\ Live(G)' = Live(G) /\ \A e : Id(e)' = Id(e)
      /\ \A e : e # curr => (Done(e)' <=> Done(e))
      /\ Done(curr)'
  BY <1>1 DEF dispVars, listVars, Live, Id, Done
<1>9. \A o \in Ops : OpOK(o)'
  <2> SUFFICES ASSUME NEW o \in Ops PROVE OpOK(o)'
    OBVIOUS
  <2>1. OpOK(o) /\ o \in {0} \cup Ops
    BY <1>0 DEF Books
  <2>2. CASE o = i
    <3>1. ~(i > nr_ops)
      BY <1>0, <1>5
    <3>2. posted'[i] = (IF Post THEN 1 ELSE 0) /\ released'[i] = (IF Post THEN 0 ELSE 1)
      BY <1>5, <1>6, <1>7
    <3> QED BY <1>6, <1>8, <2>2, <3>1, <3>2 DEF OpOK
  <2>3. CASE o # i
    <3>1. posted'[o] = posted[o] /\ released'[o] = released[o]
      BY <1>7, <2>1, <2>3
    <3> QED BY <1>8, <2>1, <3>1 DEF OpOK
  <2> QED BY <2>2, <2>3
<1>10. ASSUME NEW e \in Live(G) PROVE LiveEntry(e)'
  <2>1. LiveEntry(e)
    BY <1>0 DEF Books
  <2>2. CASE e = curr
    <3>1. posted'[i] = (IF Post THEN 1 ELSE 0) /\ released'[i] = (IF Post THEN 0 ELSE 1)
      BY <1>5, <1>6, <1>7
    <3>2. work_queue[curr].is_internal <=> ~Post
      BY <1>1
    <3> QED BY <1>2, <1>3, <1>4, <1>8, <2>2, <3>1, <3>2 DEF LiveEntry
  <2>3. CASE e # curr
    <3>1. Id(e) # i
      BY <1>0, <1>2, <1>3, <2>3 DEF Books
    <3>2. Id(e) \in {0} \cup Ops
      BY <1>0, <2>1 DEF LiveEntry, Ops
    <3>3. posted'[Id(e)] = posted[Id(e)] /\ released'[Id(e)] = released[Id(e)]
      BY <1>7, <3>1, <3>2
    <3> QED BY <1>8, <2>1, <2>3, <3>3 DEF LiveEntry
  <2> QED BY <2>2, <2>3
<1>11. \A e, f \in Live(G)' : e # f => Id(e)' # Id(f)'
  BY <1>0, <1>8 DEF Books
<1>12. ASSUME NEW e \in H PROVE FreeEntry(e)'
  <2>1. FreeEntry(e)
    BY <1>0 DEF Books
  <2>2. ASSUME work_queue[e].is_completed
        PROVE  posted'[Id(e)] = posted[Id(e)] /\ released'[Id(e)] = released[Id(e)]
    <3>1. Id(e) \in Ops /\ Id(e) # i
      BY <1>6, <2>1, <2>2 DEF FreeEntry
    <3> QED BY <1>7, <3>1
  <2> QED BY <1>8, <2>1, <2>2 DEF FreeEntry
<1>13. FillingOK(G)'
  <2>1. ASSUME dpc \in {"fill", "fill_links", "fill_kind"}
        PROVE  posted'[nr_ops] = 0 /\ released'[nr_ops] = 0
    <3>1. curr \in G /\ nr_ops # i /\ nr_ops \in {0} \cup Ops
      BY <1>0, <1>2, <1>3, <2>1 DEF Live, FillingOK, Ops
    <3> QED BY <1>0, <1>7, <2>1, <3>1 DEF FillingOK
  <2>2. ~(wpc' \in {"look", "next"})
    BY <1>1
  <2> QED BY <1>0, <1>8, <2>1, <2>2 DEF FillingOK
<1>14. WorkerOK(G, H)'
  BY <1>1, <1>3, <1>8 DEF WorkerOK
<1> QED BY <1>8, <1>9, <1>10, <1>11, <1>12, <1>13, <1>14 DEF Answered, Books

LEMMA AnsweredDrop ==
  ASSUME NEW G, NEW H, Sets(G, H), Counted, Answered(G, H), NEW internal, Drop(internal)
  PROVE  Answered(G, H)'
<1>0. /\ TypeOK /\ nr_ops \in Nat /\ now \in Nat
      /\ Books(G, H) /\ FillingOK(G) /\ WorkerOK(G, H)
  BY QueueTyped DEF Answered, Sets, BaseOK, TypeOK
<1>1. /\ dpc = "idle" /\ dpc' \in {"idle", "reclaim"} /\ nr_ops' = nr_ops + 1
      /\ UNCHANGED <<work_queue, listVars, now, op, entry, targets, workerVars>>
  BY DEF Drop
<1>2. /\ UNCHANGED <<work_queue, posted, released, copied, targets, now, curr, wpc, latest_nsecs>>
      /\ Live(G)' = Live(G) /\ \A e : Done(e)' <=> Done(e)
  BY <1>1 DEF workerVars, Live, Done
<1>3. Books(G, H)'
  <2>1. nr_ops <= nr_ops' /\ nr_ops' \in Nat /\ now <= now' /\ now' \in Nat
    BY <1>0, <1>1, <1>2
  <2>2. TypeOK /\ MaxOps \in Nat /\ Live(G) \subseteq Entries
    BY <1>0, LiveIn, QueueTyped
  <2>3. \A o \in Ops : OpOK(o)'
    <3>1. \A o \in Ops : posted[o] \in Nat /\ released[o] \in Nat /\ o \in Nat /\ OpOK(o)
      BY <1>0 DEF Counted, Ops, Books
    <3> QED BY <1>0, <1>2, <2>1, <3>1 DEF OpOK
  <2>4. \A e : Id(e)' = Id(e)
    BY <1>2 DEF Id
  <2>5. ASSUME NEW e \in Live(G) PROVE LiveEntry(e)'
    <3>1. LiveEntry(e)
      BY <1>0 DEF Books
    <3>2. Id(e) \in 1 .. nr_ops'
      BY <1>0, <2>1, <3>1 DEF LiveEntry
    <3> QED BY <1>2, <2>4, <3>1, <3>2 DEF LiveEntry
  <2>6. \A e \in H : FreeEntry(e)'
    BY <1>0, <1>2, <2>4 DEF Books, FreeEntry
  <2>7. \A e, f \in Live(G)' : e # f => Id(e)' # Id(f)'
    BY <1>0, <1>2, <2>4 DEF Books
  <2> QED BY <1>2, <2>3, <2>5, <2>6, <2>7 DEF Books
<1>4. FillingOK(G)'
  BY <1>1 DEF FillingOK
<1>5. WorkerOK(G, H)'
  BY <1>0, <1>1, <1>2 DEF WorkerOK
<1> QED BY <1>3, <1>4, <1>5 DEF Answered

LEMMA AnsweredAllocate ==
  ASSUME NEW G, NEW H, Sets(G, H), Counted, Answered(G, H),
         NEW internal \in BOOLEAN, NEW target \in Times, Allocate(internal, target),
         NEW x, x = free_seq
  PROVE  Answered(G, H \ {x})'
<1>0. /\ TypeOK /\ nr_ops \in Nat /\ now \in Nat /\ MaxOps \in Nat
      /\ Books(G, H) /\ FillingOK(G) /\ WorkerOK(G, H)
      /\ G \subseteq Entries /\ H \subseteq Entries /\ x \in H /\ G \cap H = {}
      /\ posted \in [{0} \cup Ops -> Nat] /\ released \in [{0} \cup Ops -> Nat]
      /\ targets \in [Ops -> Times]
  BY QueueTyped DEF Answered, Sets, BaseOK, TypeOK, Counted
<1>1. /\ dpc = "idle" /\ dpc' = "fill" /\ nr_ops < MaxOps /\ nr_ops' = nr_ops + 1
      /\ op' = [id |-> nr_ops', internal |-> internal, target |-> target]
      /\ targets' = [targets EXCEPT ![nr_ops'] = target]
      /\ work_queue[x].next # NIL /\ entry' = x /\ free_seq' = work_queue[x].next
      /\ UNCHANGED <<work_queue, now, workerVars>>
  BY DEF Allocate, Field
<1>2. /\ UNCHANGED <<posted, released, copied, curr, wpc, latest_nsecs>>
      /\ Live(G)' = G /\ Live(G) = G
      /\ \A e : (Done(e)' <=> Done(e)) /\ Id(e)' = Id(e)
  BY <1>1 DEF workerVars, Live, Done, Id
<1>3. /\ nr_ops' \in Ops /\ nr_ops' \in Nat /\ targets'[nr_ops'] = target
      /\ \A o \in Ops : o <= nr_ops => targets'[o] = targets[o]
  <2>1. nr_ops' \in Ops /\ nr_ops' \in Nat /\ \A o \in Ops : o <= nr_ops => o # nr_ops'
    BY <1>0, <1>1 DEF Ops
  <2> QED BY <1>0, <1>1, <2>1
<1>4. \A o \in Ops : OpOK(o)'
  <2> SUFFICES ASSUME NEW o \in Ops PROVE OpOK(o)'
    OBVIOUS
  <2>1. posted[o] \in Nat /\ released[o] \in Nat /\ o \in Nat /\ OpOK(o)
    BY <1>0 DEF Ops, Books
  <2> QED BY <1>0, <1>1, <1>2, <1>3, <2>1 DEF OpOK
<1>5. ASSUME NEW e \in G PROVE LiveEntry(e)' /\ Id(e) # nr_ops'
  <2>1. LiveEntry(e)
    BY <1>0, <1>2 DEF Books
  <2>2. Id(e) \in 1 .. nr_ops
    BY <2>1 DEF LiveEntry
  <2>3. Id(e) \in 1 .. nr_ops' /\ Id(e) \in Ops /\ Id(e) <= nr_ops /\ Id(e) # nr_ops'
    BY <1>0, <1>1, <2>2 DEF Ops
  <2> QED BY <1>1, <1>2, <1>3, <2>1, <2>3 DEF LiveEntry
<1>6. \A e, f \in Live(G)' : e # f => Id(e)' # Id(f)'
  BY <1>0, <1>2 DEF Books
<1>7. \A e \in H : FreeEntry(e)'
  BY <1>0, <1>1, <1>2 DEF Books, FreeEntry
<1>8. Books(G, H \ {x})'
  BY <1>2, <1>4, <1>5, <1>6, <1>7 DEF Books
<1>9. FillingOK(G)'
  <2>1. posted[nr_ops'] = 0 /\ released[nr_ops'] = 0
    <3>1. posted[nr_ops'] \in Nat /\ released[nr_ops'] \in Nat /\ OpOK(nr_ops') /\ nr_ops' > nr_ops
      BY <1>0, <1>1, <1>3 DEF Books
    <3> QED BY <3>1 DEF OpOK
  <2>2. work_queue[x].is_completed => work_queue[work_queue[x].next].is_completed
    BY <1>0, <1>1 DEF Books, FreeEntry
  <2>3. \A e \in G : Id(e)' # nr_ops'
    BY <1>2, <1>5
  <2>4. op'.target = target
    BY <1>1
  <2> QED BY <1>1, <1>2, <1>3, <2>1, <2>2, <2>3, <2>4 DEF FillingOK
<1>10. WorkerOK(G, H \ {x})'
  BY <1>0, <1>1, <1>2 DEF WorkerOK
<1> QED BY <1>8, <1>9, <1>10 DEF Answered

(* The stores into the entry, seen by no list.                             *)
LEMMA AnsweredFill ==
  ASSUME NEW G, NEW H, Sets(G, H), Counted, Answered(G, H), FillRequest \/ FillLinks
  PROVE  Answered(G, H)'
<1>0. /\ BaseOK /\ TypeOK /\ entry \notin G /\ entry \notin H /\ free_seq \in H
      /\ Books(G, H) /\ FillingOK(G) /\ WorkerOK(G, H)
      /\ G \subseteq Entries /\ H \subseteq Entries
  BY DEF Answered, Sets, BaseOK, FillRequest, FillLinks, Filling
<1>1. /\ \A e \in Entries : e # entry => work_queue'[e] = work_queue[e]
      /\ entry \in Entries
      /\ UNCHANGED <<listVars, now, nr_ops, op, entry, dropped, targets, workerVars>>
      /\ dpc \in {"fill", "fill_links"} /\ dpc' \in {"fill_links", "fill_kind"}
  BY <1>0, FillRequestStores, FillLinksStores
<1>2. /\ UNCHANGED <<posted, released, copied, curr, wpc, latest_nsecs, free_seq>>
      /\ Live(G)' = G /\ Live(G) = G
  BY <1>1 DEF workerVars, listVars, Live
<1>3. \A e \in G \cup H : /\ e \in Entries /\ e # entry /\ work_queue'[e] = work_queue[e]
                          /\ Id(e)' = Id(e) /\ (Done(e)' <=> Done(e))
  <2> SUFFICES ASSUME NEW e \in G \cup H
               PROVE  /\ e \in Entries /\ e # entry /\ work_queue'[e] = work_queue[e]
                      /\ Id(e)' = Id(e) /\ (Done(e)' <=> Done(e))
    OBVIOUS
  <2>1. e \in Entries /\ e # entry /\ work_queue'[e] = work_queue[e]
    BY <1>0, <1>1
  <2> QED BY <1>2, <2>1 DEF Id, Done
<1>4. Books(G, H)'
  <2>1. \A o \in Ops : OpOK(o)'
    BY <1>0, <1>1, <1>2 DEF Books, OpOK
  <2>2. \A e \in G : LiveEntry(e)'
    BY <1>0, <1>1, <1>2, <1>3 DEF Books, LiveEntry
  <2>3. ASSUME NEW e \in H PROVE FreeEntry(e)'
    <3>1. FreeEntry(e) /\ work_queue[e].next \in H \cup {NIL}
      BY <1>0 DEF Books, Sets
    <3> QED BY <1>2, <1>3, <3>1 DEF FreeEntry
  <2>4. \A e, f \in G : e # f => Id(e)' # Id(f)'
    BY <1>0, <1>2, <1>3 DEF Books
  <2> QED BY <1>2, <2>1, <2>2, <2>3, <2>4 DEF Books
<1>5. WorkerOK(G, H)'
  <2>1. wpc \in {"copy", "check", "done"} => curr \in G
    BY <1>0, <1>2 DEF WorkerOK
  <2>2. work_queue'[free_seq] = work_queue[free_seq]
    BY <1>0, <1>3
  <2> QED BY <1>0, <1>1, <1>2, <1>3, <2>1 DEF WorkerOK
<1>6. FillingOK(G)'
  <2>1. work_queue'[free_seq] = work_queue[free_seq]
    BY <1>0, <1>3
  <2>2. \A e \in G : Id(e)' # nr_ops
    BY <1>0, <1>1, <1>3 DEF FillingOK
  <2>3. CASE FillRequest
    <3>1. /\ dpc = "fill" /\ dpc' = "fill_links" /\ ~work_queue'[entry].is_completed
          /\ ~op.internal => work_queue'[entry].command_id = op.id
      BY <1>0, <2>3, FillRequestStores
    <3>2. curr = entry /\ wpc \in {"look", "next"} => work_queue[free_seq].is_completed
      BY <1>0, <3>1 DEF WorkerOK, FillingOK
    <3> QED BY <1>0, <1>1, <1>2, <2>1, <2>2, <3>1, <3>2 DEF FillingOK
  <2>4. CASE FillLinks
    <3>1. /\ dpc = "fill_links" /\ dpc' = "fill_kind"
          /\ work_queue'[entry].is_completed = work_queue[entry].is_completed
          /\ work_queue'[entry].command_id = work_queue[entry].command_id
          /\ work_queue'[entry].is_copied = op.internal
      BY <1>0, <2>4, FillLinksStores
    <3> QED BY <1>0, <1>1, <1>2, <2>1, <2>2, <3>1 DEF FillingOK
  <2> QED BY <2>3, <2>4
<1> QED BY <1>4, <1>5, <1>6 DEF Answered

(* The last store: the request is live, and not yet answered.              *)
LEMMA AnsweredFillKind ==
  ASSUME NEW G, NEW H, Sets(G, H), Counted, Answered(G, H), FillKind
  PROVE  Answered(G, H)'
<1>1. PICK x : x = entry
  OBVIOUS
<1>0. /\ BaseOK /\ TypeOK /\ x \notin G /\ x \notin H /\ free_seq \in H
      /\ Books(G, H) /\ FillingOK(G) /\ WorkerOK(G, H)
      /\ G \subseteq Entries /\ H \subseteq Entries
      /\ op \in [id : Ops, internal : BOOLEAN, target : Times]
      /\ op.id = nr_ops /\ nr_ops > 0 /\ nr_ops \in Nat
  BY <1>1 DEF Answered, Sets, BaseOK, FillKind, Filling, Counted, TypeOK
<1>2. /\ \A e \in Entries : e # x => work_queue'[e] = work_queue[e]
      /\ x \in Entries /\ entry' = x
      /\ UNCHANGED <<listVars, now, nr_ops, op, dropped, targets, workerVars>>
      /\ dpc = "fill_kind" /\ dpc' = "insert"
  BY <1>0, <1>1, FillKindStores
<1>3. /\ UNCHANGED <<posted, released, copied, curr, wpc, latest_nsecs, free_seq>>
      /\ Live(G)' = G \cup {x} /\ Live(G) = G
  BY <1>2 DEF workerVars, listVars, Live
<1>4. \A e \in G \cup H : /\ e \in Entries /\ e # x /\ work_queue'[e] = work_queue[e]
                          /\ Id(e)' = Id(e) /\ (Done(e)' <=> Done(e))
  <2> SUFFICES ASSUME NEW e \in G \cup H
               PROVE  /\ e \in Entries /\ e # x /\ work_queue'[e] = work_queue[e]
                      /\ Id(e)' = Id(e) /\ (Done(e)' <=> Done(e))
    OBVIOUS
  <2>1. e \in Entries /\ e # x /\ work_queue'[e] = work_queue[e]
    BY <1>0, <1>2
  <2> QED BY <1>3, <2>1 DEF Id, Done
<1>5. /\ work_queue'[x].command_id = work_queue[x].command_id
      /\ work_queue'[x].nsecs_target = op.target
      /\ ~work_queue'[x].is_completed
      /\ work_queue'[x].is_copied = op.internal
      /\ work_queue'[x].is_internal = op.internal
      /\ op.internal => work_queue'[x].buffs_to_release = op.id
      /\ ~op.internal => work_queue'[x].command_id = op.id
  <2>1. /\ work_queue[x].nsecs_target = op.target
        /\ ~work_queue[x].is_completed /\ work_queue[x].is_copied = op.internal
        /\ ~op.internal => work_queue[x].command_id = op.id
    BY <1>0, <1>1, <1>2 DEF BaseOK, FillingOK
  <2> QED BY <1>0, <1>1, <2>1, FillKindStores
<1>6. /\ posted[nr_ops] = 0 /\ released[nr_ops] = 0 /\ targets[nr_ops] = op.target
      /\ \A e \in G : Id(e) # nr_ops
  BY <1>0, <1>2 DEF FillingOK
<1>7. Id(x)' = nr_ops /\ ~Done(x)'
  <2>1. ~(curr = x /\ wpc = "done")
    BY <1>0, <1>3 DEF WorkerOK
  <2> QED BY <1>0, <1>3, <1>5, <2>1 DEF Id, Done
<1>8. Books(G, H)'
  <2>1. \A o \in Ops : OpOK(o)'
    BY <1>0, <1>2, <1>3 DEF Books, OpOK
  <2>2. \A e \in G : LiveEntry(e)'
    BY <1>0, <1>2, <1>3, <1>4 DEF Books, LiveEntry
  <2>3. LiveEntry(x)'
    <3>1. nr_ops \in 1 .. nr_ops
      BY <1>0
    <3> QED BY <1>0, <1>2, <1>3, <1>5, <1>6, <1>7, <3>1 DEF LiveEntry
  <2>4. ASSUME NEW e \in H PROVE FreeEntry(e)'
    <3>1. FreeEntry(e) /\ work_queue[e].next \in H \cup {NIL}
      BY <1>0 DEF Books, Sets
    <3> QED BY <1>3, <1>4, <3>1 DEF FreeEntry
  <2>5. \A e, f \in G \cup {x} : e # f => Id(e)' # Id(f)'
    BY <1>0, <1>3, <1>4, <1>6, <1>7 DEF Books
  <2> QED BY <1>3, <2>1, <2>2, <2>3, <2>4, <2>5 DEF Books
<1>9. FillingOK(G)'
  BY <1>2 DEF FillingOK
<1>10. WorkerOK(G, H)'
  <2>1. wpc \in {"copy", "check", "done"} => curr \in G
    BY <1>0, <1>3 DEF WorkerOK
  <2> QED BY <1>0, <1>1, <1>2, <1>3, <1>4, <2>1 DEF WorkerOK
<1> QED BY <1>8, <1>9, <1>10 DEF Answered

LEMMA AnsweredInsert ==
  ASSUME NEW G, NEW H, Sets(G, H), Counted, Answered(G, H), Insert, NEW x, x = entry,
         \A e \in Entries : SameData(work_queue'[e], work_queue[e]),
         \A e \in H : work_queue'[e].next = work_queue[e].next
  PROVE  Answered(G \cup {x}, H)'
<1>0. /\ BaseOK /\ TypeOK /\ x \in Entries
      /\ Books(G, H) /\ FillingOK(G) /\ WorkerOK(G, H)
      /\ G \subseteq Entries /\ H \subseteq Entries
  BY DEF Answered, Sets, BaseOK, Insert, Filling
<1>1. /\ dpc = "insert" /\ dpc' \in {"idle", "reclaim"}
      /\ UNCHANGED <<now, nr_ops, op, entry, dropped, targets, posted, released, copied, curr, wpc,
                     latest_nsecs>>
  BY DEF Insert, workerVars
<1>2. Live(G) = G \cup {x} /\ Live(G \cup {x})' = G \cup {x} /\ Live(G) \subseteq Entries
  BY <1>0, <1>1 DEF Live
<1>3. \A e \in Entries : Id(e)' = Id(e) /\ (Done(e)' <=> Done(e))
  BY <1>1 DEF Id, Done, SameData
<1>4. \A o \in Ops : OpOK(o)'
  BY <1>0, <1>1 DEF Books, OpOK
<1>5. ASSUME NEW e \in Live(G) PROVE LiveEntry(e)'
  <2>1. LiveEntry(e) /\ e \in Entries
    BY <1>0, <1>2 DEF Books
  <2> QED BY <1>1, <1>3, <2>1 DEF LiveEntry, SameData
<1>6. \A e, f \in Live(G) : e # f => Id(e)' # Id(f)'
  BY <1>0, <1>2, <1>3 DEF Books
<1>7. ASSUME NEW e \in H PROVE FreeEntry(e)'
  <2>1. FreeEntry(e) /\ e \in Entries /\ work_queue[e].next \in H \cup {NIL}
    BY <1>0 DEF Books, Sets
  <2>2. work_queue[e].next # NIL => work_queue[e].next \in Entries
    BY <1>0, <2>1
  <2> QED BY <1>1, <1>3, <2>1, <2>2 DEF FreeEntry, SameData
<1>8. FillingOK(G \cup {x})'
  BY <1>1 DEF FillingOK
<1>9. WorkerOK(G \cup {x}, H)'
  <2>1. curr \in Live(G) \cup H => curr \in Entries
    BY <1>0, <1>2
  <2> QED BY <1>0, <1>1, <1>2, <2>1 DEF WorkerOK, SameData
<1> QED BY <1>2, <1>4, <1>5, <1>6, <1>7, <1>8, <1>9 DEF Answered, Books

(* R is the prefix of the list that the dispatcher takes back.             *)
LEMMA AnsweredReclaim ==
  ASSUME NEW G, NEW H, Sets(G, H), Counted, Answered(G, H), Reclaim,
         NEW R, R \subseteq G, \A e \in R : work_queue[e].is_completed,
         \A e \in Entries : SameData(work_queue'[e], work_queue[e]),
         \A e \in H \cup R : \/ work_queue'[e].next \in R \cup {NIL}
                             \/ e \in H /\ work_queue'[e].next = work_queue[e].next
  PROVE  Answered(G \ R, H \cup R)'
<1>0. /\ TypeOK /\ MaxOps \in Nat /\ nr_ops \in 0 .. MaxOps
      /\ Books(G, H) /\ FillingOK(G) /\ WorkerOK(G, H)
      /\ G \subseteq Entries /\ H \subseteq Entries
  BY QueueTyped DEF Answered, Sets, BaseOK, TypeOK
<1>1. /\ dpc = "reclaim" /\ dpc' = "idle"
      /\ UNCHANGED <<now, nr_ops, op, entry, dropped, targets, posted, released, copied, curr, wpc,
                     latest_nsecs>>
  BY DEF Reclaim, workerVars
<1>2. Live(G) = G /\ Live(G \ R)' = G \ R
  BY <1>1 DEF Live
<1>3. \A e \in Entries : Id(e)' = Id(e) /\ (Done(e)' <=> Done(e))
  BY <1>1 DEF Id, Done, SameData
<1>4. \A o \in Ops : OpOK(o)'
  BY <1>0, <1>1 DEF Books, OpOK
<1>5. ASSUME NEW e \in G PROVE LiveEntry(e)'
  <2>1. LiveEntry(e) /\ e \in Entries
    BY <1>0, <1>2 DEF Books
  <2> QED BY <1>1, <1>3, <2>1 DEF LiveEntry, SameData
<1>6. \A e, f \in G : e # f => Id(e)' # Id(f)'
  BY <1>0, <1>2, <1>3 DEF Books
<1>7. ASSUME NEW e \in H \cup R PROVE FreeEntry(e)'
  <2>1. e \in Entries /\ (work_queue'[e].is_completed <=> work_queue[e].is_completed)
        /\ \A f \in R : f \in Entries /\ work_queue'[f].is_completed
    BY <1>0 DEF SameData
  <2>2. CASE e \in R
    <3>1. LiveEntry(e) /\ Done(e) /\ work_queue[e].is_completed /\ e \notin H
      BY <1>0, <1>2, <2>2 DEF Books, Done, Sets
    <3>2. Id(e) \in Ops
      BY <1>0, <3>1 DEF LiveEntry, Ops
    <3>3. IF work_queue[e].is_internal THEN released[Id(e)] = 1 ELSE posted[Id(e)] = 1
      BY <3>1 DEF LiveEntry
    <3>4. work_queue'[e].next # NIL => work_queue'[work_queue'[e].next].is_completed
      BY <2>1, <2>2, <3>1
    <3>5. work_queue'[e].is_internal <=> work_queue[e].is_internal
      BY <2>1 DEF SameData
    <3> QED BY <1>1, <1>3, <2>1, <3>1, <3>2, <3>3, <3>4, <3>5 DEF FreeEntry
  <2>3. CASE e \in H
    <3>1. FreeEntry(e) /\ work_queue[e].next \in H \cup {NIL}
      BY <1>0, <2>3 DEF Books, Sets
    <3>2. work_queue[e].is_completed /\ work_queue'[e].next # NIL =>
            work_queue'[work_queue'[e].next].is_completed
      <4>1. CASE work_queue'[e].next \in R \cup {NIL}
        BY <2>1, <4>1
      <4>2. CASE work_queue'[e].next = work_queue[e].next
        <5>1. work_queue[e].next # NIL => work_queue[e].next \in Entries
          BY <1>0, <3>1
        <5> QED BY <3>1, <4>2, <5>1 DEF FreeEntry, SameData
      <4> QED BY <2>3, <4>1, <4>2
    <3>3. /\ work_queue'[e].is_internal <=> work_queue[e].is_internal
          /\ work_queue'[e].command_id = work_queue[e].command_id
      BY <2>1 DEF SameData
    <3> QED BY <1>1, <1>3, <2>1, <3>1, <3>2, <3>3 DEF FreeEntry
  <2> QED BY <2>2, <2>3
<1>8. FillingOK(G \ R)'
  BY <1>1 DEF FillingOK
<1>9. WorkerOK(G \ R, H \cup R)'
  <2>1. curr \in G \cup H => SameData(work_queue'[curr], work_queue[curr])
    BY <1>0
  <2> QED BY <1>0, <1>1, <1>2, <2>1 DEF WorkerOK, SameData
<1> QED BY <1>2, <1>4, <1>5, <1>6, <1>7, <1>8, <1>9 DEF Answered, Books

-----------------------------------------------------------------------------
(* The whole invariant.                                                    *)

WorkQueueInv ==
  \E g, n, h, m :
    /\ QueueOK(g, n, h, m)
    /\ Counted
    /\ ~torn => Answered(Elements(g, n), Elements(h, m))

LEMMA CountedKept ==
  ASSUME BaseOK, Counted, [Next]_vars
  PROVE  Counted'
<1>0. /\ TypeOK /\ MaxOps \in Nat /\ nr_ops \in 0 .. MaxOps
      /\ work_queue \in [Entries -> EntryType]
  BY QueueTyped DEF BaseOK, TypeOK
<1>1. CASE \E internal \in BOOLEAN : Drop(internal)
  BY <1>1 DEF Drop, workerVars, Counted, Filling
<1>2. CASE \E internal \in BOOLEAN, target \in Times : Allocate(internal, target)
  <2>1. PICK internal \in BOOLEAN, target \in Times : Allocate(internal, target)
    BY <1>2
  <2>2. /\ UNCHANGED <<posted, released>> /\ nr_ops < MaxOps /\ nr_ops' = nr_ops + 1
        /\ op' = [id |-> nr_ops', internal |-> internal, target |-> target]
        /\ targets' = [targets EXCEPT ![nr_ops'] = target]
    BY <2>1 DEF Allocate, workerVars
  <2>3. nr_ops' \in Ops /\ nr_ops' > 0 /\ op'.id = nr_ops'
    BY <1>0, <2>2 DEF Ops
  <2> QED BY <2>2, <2>3 DEF Counted
<1>3. CASE FillRequest \/ FillLinks \/ FillKind
  <2>1. UNCHANGED <<posted, released, targets, op, nr_ops>> /\ Filling
    BY <1>3 DEF FillRequest, FillLinks, FillKind, workerVars, Filling
  <2> QED BY <2>1 DEF Counted
<1>4. CASE Insert \/ Reclaim
  <2>1. UNCHANGED <<posted, released, targets, op, nr_ops>> /\ ~Filling'
    BY <1>4 DEF Insert, Reclaim, workerVars, Filling
  <2> QED BY <2>1 DEF Counted
<1>5. CASE Worker \/ Tick \/ UNCHANGED vars
  <2>1. UNCHANGED <<targets, op, nr_ops, dpc>>
    BY <1>5 DEF Worker, StartPass, Look, Copy, NotDue, Post, Release, Complete, Advance, Tick,
       vars, dispVars
  <2>2. CASE Post
    <3>1. work_queue[curr].command_id \in {0} \cup Ops
      BY <1>0, <2>2 DEF Post, TypeOK, EntryType
    <3>2. /\ posted' = [posted EXCEPT ![work_queue[curr].command_id] = @ + 1]
          /\ released' = released
      BY <2>2 DEF Post, Field
    <3>3. posted' \in [{0} \cup Ops -> Nat]
      BY <3>1, <3>2 DEF Counted
    <3> QED BY <2>1, <3>2, <3>3 DEF Counted, Filling
  <2>3. CASE Release
    <3>1. work_queue[curr].buffs_to_release \in {0} \cup Ops
      BY <1>0, <2>3 DEF Release, TypeOK, EntryType
    <3>2. /\ released' = [released EXCEPT ![work_queue[curr].buffs_to_release] = @ + 1]
          /\ posted' = posted
      BY <2>3 DEF Release, Field
    <3>3. released' \in [{0} \cup Ops -> Nat]
      BY <3>1, <3>2 DEF Counted
    <3> QED BY <2>1, <3>2, <3>3 DEF Counted, Filling
  <2>4. CASE ~Post /\ ~Release
    <3>1. UNCHANGED <<posted, released>>
      BY <1>5, <2>4 DEF Worker, StartPass, Look, Copy, NotDue, Complete, Advance, Tick,
         vars, workerVars
    <3> QED BY <2>1, <3>1 DEF Counted, Filling
  <2> QED BY <2>2, <2>3, <2>4
<1> QED BY <1>1, <1>2, <1>3, <1>4, <1>5, NextCases

LEMMA TornStays == [Next]_vars /\ torn => torn'
BY NextCases DEF Drop, Allocate, FillRequest, FillLinks, FillKind, Insert, Reclaim, Worker,
   StartPass, Look, Copy, NotDue, Post, Release, Complete, Advance, Tick, vars, workerVars

LEMMA WorkQueueInit ==
  ASSUME Init
  PROVE  WorkQueueInv
<1>1. PICK h : QueueOK([k \in 0 .. -1 |-> 0], 0, h, NR_MAX_PARALLEL_IO)
  BY QueueInit
<1>2. PICK g : g = [k \in 0 .. -1 |-> 0]
  OBVIOUS
<1>3. QueueOK(g, 0, h, NR_MAX_PARALLEL_IO) /\ Elements(g, 0) = {}
  BY <1>1, <1>2 DEF Elements
<1>4. PICK H : H = Elements(h, NR_MAX_PARALLEL_IO)
  OBVIOUS
<1>5. /\ \A e \in Entries : /\ ~work_queue[e].is_completed /\ ~work_queue[e].is_internal
                            /\ work_queue[e].command_id = 0
      /\ posted = [o \in {0} \cup Ops |-> 0] /\ released = [o \in {0} \cup Ops |-> 0]
      /\ targets = [o \in Ops |-> 0]
      /\ dpc = "idle" /\ wpc = "pass"
  BY DEF Init
<1>6. H \subseteq Entries
  BY <1>3, <1>4, QueueSets DEF Sets
<1>7. Counted
  <2>1. 0 \in Times
    BY WorkQueueAssumption DEF Times
  <2> QED BY <1>5, <2>1 DEF Counted, Filling
<1>8. Answered({}, H)
  <2>1. \A o \in Ops : OpOK(o)
    BY <1>5 DEF OpOK
  <2>2. Live({}) = {}
    BY <1>5 DEF Live
  <2>3. \A e \in H : FreeEntry(e)
    BY <1>5, <1>6 DEF FreeEntry
  <2>4. FillingOK({}) /\ WorkerOK({}, H)
    BY <1>5 DEF FillingOK, WorkerOK
  <2> QED BY <2>1, <2>2, <2>3, <2>4 DEF Answered, Books
<1> QED BY <1>3, <1>4, <1>7, <1>8 DEF WorkQueueInv

LEMMA WorkQueueStep ==
  ASSUME WorkQueueInv, [Next]_vars
  PROVE  WorkQueueInv'
<1>1. PICK g, n, h, m : /\ QueueOK(g, n, h, m)
                        /\ Counted
                        /\ ~torn => Answered(Elements(g, n), Elements(h, m))
  BY DEF WorkQueueInv
<1>2. PICK G, H : G = Elements(g, n) /\ H = Elements(h, m)
  OBVIOUS
<1>3. Sets(G, H) /\ BaseOK /\ Counted'
  BY <1>1, <1>2, QueueSets, CountedKept DEF Sets
<1>4. ~torn' => Answered(G, H) /\ ~torn
  BY <1>1, <1>2, TornStays
<1>5. IsList(g, n) /\ IsList(h, m) /\ m > 0 /\ n \in Nat /\ m \in Nat
      /\ \A e : ~(In(e, g, n) /\ In(e, h, m))
  BY <1>1 DEF QueueOK, Lists, IsList
<1>6. SUFFICES \E g1, n1, h1, m1 :
                 /\ QueueOK(g1, n1, h1, m1)'
                 /\ ~torn' => Answered(Elements(g1, n1), Elements(h1, m1))'
  BY <1>3 DEF WorkQueueInv
<1>7. CASE \E internal \in BOOLEAN : Drop(internal)
  <2>1. QueueOK(g, n, h, m)'
    BY <1>1, <1>7, QueueDrop
  <2>2. ~torn' => Answered(G, H)'
    BY <1>1, <1>3, <1>4, <1>7, AnsweredDrop
  <2> QED BY <1>2, <2>1, <2>2
<1>8. CASE \E internal \in BOOLEAN, target \in Times : Allocate(internal, target)
  <2>1. PICK internal \in BOOLEAN, target \in Times : Allocate(internal, target)
    BY <1>8
  <2>2. PICK x : x = free_seq
    OBVIOUS
  <2>3. QueueOK(g, n, Dropped(h, m, 1), m - 1)' /\ m > 1 /\ x = h[0]
    BY <1>1, <2>1, <2>2, QueueAllocate DEF QueueOK, Lists
  <2>4. ~torn' => Answered(G, H \ {x})'
    BY <1>1, <1>3, <1>4, <2>1, <2>2, AnsweredAllocate
  <2>5. Elements(Dropped(h, m, 1), m - 1) = H \ {x}
    <3>1. 1 \in 0 .. m /\ 0 \in 0 .. m - 1
          /\ \A k \in 0 .. m - 1 : k \in 1 .. m - 1 <=> k # 0
      BY <1>5, <2>3
    <3>2. \A e : In(e, Dropped(h, m, 1), m - 1) <=> \E k \in 1 .. m - 1 : e = h[k]
      BY <1>5, <3>1, DroppedList
    <3>3. \A k \in 1 .. m - 1 : k \in 0 .. m - 1
      BY <1>5
    <3>4. \A e : (\E k \in 1 .. m - 1 : e = h[k]) <=> (\E k \in 0 .. m - 1 : e = h[k]) /\ e # h[0]
      BY <1>5, <3>1, <3>3 DEF IsList
    <3>5. \A e : e \in Elements(Dropped(h, m, 1), m - 1) <=> In(e, Dropped(h, m, 1), m - 1)
      BY InElements
    <3>6. \A e : e \in H <=> \E k \in 0 .. m - 1 : e = h[k]
      BY <1>2, InElements DEF In
    <3>7. \A e : e \in Elements(Dropped(h, m, 1), m - 1) <=> e \in H /\ e # x
      BY <2>3, <3>2, <3>4, <3>5, <3>6
    <3> QED BY <3>7
  <2>6. PICK d, b : d = Dropped(h, m, 1) /\ b = m - 1
    OBVIOUS
  <2> QED BY <1>2, <2>3, <2>4, <2>5, <2>6
<1>9. CASE FillRequest \/ FillLinks \/ FillKind
  <2>1. QueueOK(g, n, h, m)'
    BY <1>1, <1>9, QueueFill
  <2>2. ~torn' => Answered(G, H)'
    BY <1>1, <1>3, <1>4, <1>9, AnsweredFill, AnsweredFillKind
  <2> QED BY <1>2, <2>1, <2>2
<1>10. CASE Insert
  <2>1. PICK p : Place(g, n, p, op.target) /\ InsertStores(g, n, p)
    BY <1>1, <1>10, InsertIsPlaced
  <2>2. PICK x : x = entry
    OBVIOUS
  <2>3. PICK d, a : d = Inserted(g, n, p, x) /\ a = n + 1
    OBVIOUS
  <2>4. QueueOK(d, a, h, m)'
    BY <1>1, <1>10, <2>1, <2>2, <2>3, QueueInsert
  <2>5. Elements(d, a) = G \cup {x}
    <3>1. x \in Entries /\ ~In(x, g, n) /\ p \in 0 .. n
      BY <1>1, <1>10, <2>1, <2>2 DEF QueueOK, Lists, BaseOK, Insert, Filling, Place
    <3>2. \A e : In(e, d, a) <=> In(e, g, n) \/ e = x
      BY <1>5, <2>3, <3>1, InsertedList
    <3> QED BY <1>2, <3>2, InElements
  <2>6. \A e \in Entries : SameData(work_queue'[e], work_queue[e])
    BY <2>1 DEF InsertStores
  <2>7. \A e \in H : work_queue'[e].next = work_queue[e].next
    <3>1. Forward(work_queue, h, m) /\ Forward(work_queue', h, m)
      BY <1>1, <2>4 DEF QueueOK, Lists
    <3> QED BY <1>2, <3>1 DEF Forward, Elements
  <2>8. ~torn' => Answered(G \cup {x}, H)'
    BY <1>1, <1>3, <1>4, <1>10, <2>2, <2>6, <2>7, AnsweredInsert
  <2> QED BY <1>2, <2>4, <2>5, <2>8
<1>11. CASE Reclaim
  <2>1. PICK r : Prefix(g, n, r) /\ ReclaimStores(g, n, h, m, r)
    BY <1>1, <1>11, ReclaimIsPrefix
  <2>2. PICK d, a, both, b : /\ d = Dropped(g, n, r) /\ a = n - r
                             /\ both = Joined(h, m, g, r) /\ b = m + r
    OBVIOUS
  <2>3. QueueOK(d, a, both, b)'
    BY <1>1, <1>11, <2>1, <2>2, QueueReclaim
  <2>4. r \in 0 .. n /\ r \in Nat
    BY <1>5, <2>1 DEF Prefix
  <2>5. PICK R : R = {g[k] : k \in 0 .. r - 1}
    OBVIOUS
  <2>6. R \subseteq G /\ \A e \in R : work_queue[e].is_completed
    <3>1. \A k \in 0 .. r - 1 : k \in 0 .. n - 1
      BY <1>5, <2>4
    <3> QED BY <1>2, <2>1, <2>5, <3>1 DEF Prefix, Reclaimable, Field, Elements
  <2>7. Elements(d, a) = G \ R
    <3>1. \A e : In(e, d, a) <=> \E k \in r .. n - 1 : e = g[k]
      BY <1>5, <2>2, <2>4, DroppedList
    <3>2. \A k \in 0 .. n - 1 : k \in 0 .. r - 1 \/ k \in r .. n - 1
      BY <1>5, <2>4
    <3>3. /\ \A k \in r .. n - 1 : k \in 0 .. n - 1 /\ k >= r
          /\ \A k \in 0 .. r - 1 : k \in 0 .. n - 1 /\ ~(k >= r)
      BY <1>5, <2>4
    <3>4. \A j \in 0 .. r - 1, k \in r .. n - 1 : g[j] # g[k]
      BY <1>5, <3>3 DEF IsList
    <3>5. \A e : e \in Elements(d, a) <=> In(e, d, a)
      BY InElements
    <3>6. \A e : e \in G <=> \E k \in 0 .. n - 1 : e = g[k]
      BY <1>2, InElements DEF In
    <3>7. \A e : (\E k \in r .. n - 1 : e = g[k]) <=>
                 (\E k \in 0 .. n - 1 : e = g[k]) /\ ~\E k \in 0 .. r - 1 : e = g[k]
      BY <3>2, <3>3, <3>4
    <3>8. \A e : e \in Elements(d, a) <=> e \in G /\ e \notin R
      BY <2>5, <3>1, <3>5, <3>6, <3>7
    <3> QED BY <3>8
  <2>8. Elements(both, b) = H \cup R
    <3>1. \A e : In(e, both, b) <=> In(e, h, m) \/ \E k \in 0 .. r - 1 : e = g[k]
      BY <1>5, <2>2, <2>4, JoinedList
    <3> QED BY <1>2, <2>5, <3>1, InElements
  <2>9. \A e \in Entries : SameData(work_queue'[e], work_queue[e])
    BY <2>1 DEF ReclaimStores
  <2>10. \A e \in H \cup R : \/ work_queue'[e].next \in R \cup {NIL}
                             \/ e \in H /\ work_queue'[e].next = work_queue[e].next
    <3>1. ASSUME NEW k \in 0 .. r - 1 PROVE work_queue'[g[k]].next \in R \cup {NIL}
      <4>1. Forward(work_queue', both, b)
        BY <2>3 DEF QueueOK, Lists
      <4>2. m + k \in 0 .. b - 1 /\ both[m + k] = g[k]
        <5>1. /\ \A i \in 0 .. r - 1 : m + i \in 0 .. m + r - 1 /\ Joined(h, m, g, r)[m + i] = g[i]
          BY <1>5, <2>4, JoinedList
        <5>2. m + r - 1 = b - 1
          BY <1>5, <2>2, <2>4
        <5> QED BY <2>2, <5>1, <5>2
      <4>3. work_queue'[g[k]].next = IF m + k = b - 1 THEN NIL ELSE both[(m + k) + 1]
        BY <4>1, <4>2 DEF Forward
      <4>4. CASE m + k = b - 1
        BY <4>3, <4>4
      <4>5. CASE m + k # b - 1
        <5>1. k + 1 \in 0 .. r - 1 /\ (m + k) + 1 = m + (k + 1)
          BY <1>5, <2>2, <2>4, <4>5
        <5>2. both[m + (k + 1)] = g[k + 1]
          BY <1>5, <2>2, <2>4, <5>1, JoinedList
        <5> QED BY <2>5, <4>3, <4>5, <5>1, <5>2
      <4> QED BY <4>4, <4>5
    <3>2. ASSUME NEW e \in H
          PROVE  work_queue'[e].next \in R \cup {NIL} \/ work_queue'[e].next = work_queue[e].next
      <4>1. e \in Entries
        BY <1>3 DEF Sets
      <4>2. work_queue'[e].next = (IF r > 0 /\ e = g[r - 1] THEN NIL
                                   ELSE IF r > 0 /\ e = h[m - 1] THEN g[0] ELSE work_queue[e].next)
        BY <2>1, <4>1 DEF ReclaimStores
      <4>3. r > 0 => 0 \in 0 .. r - 1
        BY <2>4
      <4> QED BY <2>5, <4>2, <4>3
    <3> QED BY <2>5, <3>1, <3>2
  <2>11. ~torn' => Answered(G \ R, H \cup R)'
    BY <1>1, <1>3, <1>4, <1>11, <2>6, <2>9, <2>10, AnsweredReclaim
  <2> QED BY <2>3, <2>7, <2>8, <2>11
<1>12. CASE Worker \/ Tick \/ UNCHANGED vars
  <2>1. QueueOK(g, n, h, m)'
    BY <1>1, <1>12, QueueKept
  <2>2. ~torn' => Answered(G, H)'
    BY <1>1, <1>3, <1>4, <1>12, AnsweredLooking, AnsweredCopy, AnsweredComplete, AnsweredAnswer
       DEF Worker
  <2> QED BY <1>2, <2>1, <2>2
<1> QED BY <1>7, <1>8, <1>9, <1>10, <1>11, <1>12, NextCases

LEMMA WorkQueueAlways == Spec => []WorkQueueInv
<1>1. Init => WorkQueueInv
  BY WorkQueueInit
<1>2. WorkQueueInv /\ [Next]_vars => WorkQueueInv'
  BY WorkQueueStep
<1> QED BY <1>1, <1>2, PTL DEF Spec

LEMMA ListsAlwaysHold == Spec => []ListsHold
<1>1. WorkQueueInv => ListsHold
  BY DEF WorkQueueInv, ListsHold
<1> QED BY <1>1, WorkQueueAlways, PTL

(* For any number of entries: every variable of the work queue and of its  *)
(* two threads keeps to its type.                                          *)
THEOREM WorkQueueTyped == Spec => []TypeOK
BY ListsAlwaysHold, QueueIsTyped, PTL

(* Whatever the worker is reading, the two lists and the entry being       *)
(* filled share the entries: the dispatcher's unlinking and relinking      *)
(* (__allocate_work_queue_entry, __insert_req_sorted,                      *)
(* __reclaim_completed_reqs) loses none and puts none in two places.       *)
THEOREM EntriesShared == Spec => []ListsPartitionEntries
BY ListsAlwaysHold, QueueIsPartitioned, PTL

(* __insert_req_sorted keeps the list sorted but for requests that are due *)
(* already.                                                                *)
THEOREM RequestsSorted == Spec => []SortedUnlessDue
BY ListsAlwaysHold, QueueIsSorted, PTL

(* __allocate_work_queue_entry refuses a request only when all entries but *)
(* one are in flight.                                                      *)
THEOREM RefusedWhenFull == Spec => DroppedOnlyWhenFull
<1>1. ListsHold /\ [Next]_vars =>
        [dropped' # dropped => Cardinality(InFlight) = NR_MAX_PARALLEL_IO - 1]_vars
  BY DropsOnlyFull
<1> QED BY <1>1, ListsAlwaysHold, PTL DEF Spec, DroppedOnlyWhenFull

(* Unless the worker has read a half-filled entry, nvmev_io_worker posts   *)
(* the completion of a command at most once, after its data was moved and  *)
(* its target passed, and releases a buffer at most once.                  *)
THEOREM RequestsAnsweredOnce == Spec => []CompletedOnceAndDone
<1>1. WorkQueueInv => CompletedOnceAndDone
  <2> SUFFICES ASSUME WorkQueueInv, ~torn, NEW o \in Ops
               PROVE  /\ posted[o] + released[o] <= 1
                      /\ posted[o] = 1 => o \in copied /\ targets[o] <= now
                      /\ released[o] = 1 => targets[o] <= now
    BY DEF CompletedOnceAndDone
  <2> QED BY DEF WorkQueueInv, Answered, Books, OpOK
<1> QED BY <1>1, WorkQueueAlways, PTL

(* And __reclaim_completed_reqs takes back no entry whose request is still *)
(* to be answered.                                                         *)
THEOREM FreedOnceAnswered == Spec => []FreeEntriesAreDone
<1>1. WorkQueueInv => FreeEntriesAreDone
  <2> SUFFICES ASSUME WorkQueueInv, ~torn, NEW e \in FreeEntries
               PROVE  /\ work_queue[e].command_id # 0 /\ ~work_queue[e].is_internal =>
                           posted[work_queue[e].command_id] = 1
                      /\ work_queue[e].is_internal => released[work_queue[e].buffs_to_release] = 1
    BY DEF FreeEntriesAreDone, Field, Internal
  <2>1. PICK g, n, h, m : QueueOK(g, n, h, m) /\ Answered(Elements(g, n), Elements(h, m))
    BY DEF WorkQueueInv
  <2>2. e \in Elements(h, m)
    BY <2>1, ListsAre, InElements
  <2>3. FreeEntry(e)
    BY <2>1, <2>2 DEF Answered, Books
  <2> QED BY <2>3 DEF FreeEntry, Id
<1> QED BY <1>1, WorkQueueAlways, PTL

=============================================================================
