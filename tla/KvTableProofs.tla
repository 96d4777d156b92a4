--------------------------- MODULE KvTableProofs ---------------------------
(***************************************************************************)
(* For any hash function, any number of slots and of keys, any lengths and *)
(* any capacity: the chains of the table end, a key is found with its last *)
(* value unless the code damaged it, a deleted key stays away, and an      *)
(* iteration is complete.                                                  *)
(*                                                                         *)
(* The lemmas about walks speak of any table; the walk is a recursive      *)
(* function, and what holds along it is proved by induction over its       *)
(* length.                                                                 *)
(***************************************************************************)
EXTENDS KvTable, Induction

-----------------------------------------------------------------------------
(* The walk is well defined.                                               *)

After(t, i) == IF i = -1 \/ IsFree(t, i) THEN -1 ELSE t[i].next_slot

WalkFrom(t, s, w, n) ==
  w = [m \in 0 .. n |-> IF m = 0 THEN s ELSE After(t, w[m - 1])]

LEMMA WalkExists ==
  ASSUME NEW t, NEW s
  PROVE  \E w : WalkFrom(t, s, w, hash_slots)
<1> DEFINE T == {n \in 0 .. hash_slots : \E w : WalkFrom(t, s, w, n)}
<1>1. 0 \in T
  <2>1. WalkFrom(t, s, [m \in 0 .. 0 |-> s], 0)
    BY DEF WalkFrom
  <2> QED BY <2>1, KvAssumption
<1>2. ASSUME NEW n \in 0 .. hash_slots - 1, n \in T PROVE n + 1 \in T
  <2>1. PICK w : WalkFrom(t, s, w, n)
    BY <1>2
  <2> DEFINE v == [m \in 0 .. n + 1 |-> IF m <= n THEN w[m] ELSE After(t, w[n])]
  <2>2. n \in Nat
    BY KvAssumption
  <2>3. \A m \in 0 .. n + 1 :
          v[m] = IF m = 0 THEN s ELSE After(t, v[m - 1])
    BY <2>1, <2>2 DEF WalkFrom
  <2>4. v = [m \in 0 .. n + 1 |-> v[m]]
    OBVIOUS
  <2> HIDE DEF v
  <2>5. WalkFrom(t, s, v, n + 1)
    BY <2>3, <2>4 DEF WalkFrom
  <2>6. n + 1 \in 0 .. hash_slots
    BY KvAssumption
  <2> QED BY <2>5, <2>6
<1> HIDE DEF T
<1>3. hash_slots \in T
  <2>1. hash_slots \in Nat /\ hash_slots \in 0 .. hash_slots
    BY KvAssumption
  <2> QED BY <1>1, <1>2, <2>1, InductionTo
<1> QED BY <1>3 DEF T

LEMMA WalkDef ==
  ASSUME NEW t, NEW s
  PROVE  WalkFrom(t, s, Walk(t, s), hash_slots)
<1> DEFINE F(w) == [n \in 0 .. hash_slots |->
                      IF n = 0 THEN s
                      ELSE IF w[n - 1] = -1 \/ IsFree(t, w[n - 1]) THEN -1
                      ELSE t[w[n - 1]].next_slot]
<1>1. \A w : WalkFrom(t, s, w, hash_slots) <=> w = F(w)
  BY DEF WalkFrom, After
<1>2. \E w : w = F(w)
  BY <1>1, WalkExists
<1>3. Walk(t, s) = CHOOSE w : w = F(w)
  BY DEF Walk
<1> HIDE DEF F
<1>4. Walk(t, s) = F(Walk(t, s))
  BY <1>2, <1>3
<1> QED BY <1>1, <1>4

(* Its equation, step by step.                                             *)
LEMMA WalkStep ==
  ASSUME NEW t, NEW s
  PROVE  /\ Walk(t, s)[0] = s
         /\ \A n \in 0 .. hash_slots - 1 :
              Walk(t, s)[n + 1] = After(t, Walk(t, s)[n])
<1>1. hash_slots \in Nat
  BY KvAssumption
<1>2. WalkFrom(t, s, Walk(t, s), hash_slots)
  BY WalkDef
<1> QED BY <1>1, <1>2 DEF WalkFrom

-----------------------------------------------------------------------------
(* A table is in order when a free slot is empty in every field, and when  *)
(* some ranking of the slots goes down along every link.                   *)

Entry == [key : Keys \cup {Nil}, mem_offset : Nat \cup {-1},
          length : Nat \cup {-1}, next_slot : Slots \cup {-1}]

TableOK(t) ==
  /\ t \in [Slots -> Entry]
  /\ \A s \in Slots : IF IsFree(t, s) THEN t[s] = Empty ELSE t[s].key \in Keys

Descends(t, rank) ==
  /\ rank \in [Slots -> Nat]
  /\ \A s \in Slots : t[s].next_slot # -1 => rank[t[s].next_slot] < rank[s]

Acyclic(t) == \E rank : Descends(t, rank)

Used(t, s) == s \in Slots /\ ~IsFree(t, s)

LEMMA WalkType ==
  ASSUME NEW t, TableOK(t), NEW s \in Slots
  PROVE  \A n \in 0 .. hash_slots : Walk(t, s)[n] \in Slots \cup {-1}
<1> DEFINE T == {n \in 0 .. hash_slots : Walk(t, s)[n] \in Slots \cup {-1}}
<1>1. 0 \in T /\ hash_slots \in Nat
  BY WalkStep, KvAssumption
<1>2. ASSUME NEW n \in 0 .. hash_slots - 1, n \in T PROVE n + 1 \in T
  <2>1. n + 1 \in 0 .. hash_slots
    BY <1>1
  <2>2. Walk(t, s)[n + 1] \in Slots \cup {-1}
    <3>1. CASE Walk(t, s)[n] = -1 \/ IsFree(t, Walk(t, s)[n])
      BY <3>1, WalkStep DEF After
    <3>2. CASE ~(Walk(t, s)[n] = -1 \/ IsFree(t, Walk(t, s)[n]))
      <4>1. Walk(t, s)[n] \in Slots
        BY <1>2, <3>2
      <4>2. t[Walk(t, s)[n]].next_slot \in Slots \cup {-1}
        BY <4>1 DEF TableOK, Entry
      <4> QED BY <3>2, <4>2, WalkStep DEF After
    <3> QED BY <3>1, <3>2
  <2> QED BY <2>1, <2>2
<1> HIDE DEF T
<1>3. 0 .. hash_slots \subseteq T
  BY <1>1, <1>2, InductionTo
<1> QED BY <1>3 DEF T

(* A walk that is at a slot has gone over used slots only.                 *)
LEMMA WalkBefore ==
  ASSUME NEW t, TableOK(t), NEW s \in Slots,
         NEW n \in 0 .. hash_slots - 1, Walk(t, s)[n + 1] # -1
  PROVE  Used(t, Walk(t, s)[n]) /\ Walk(t, s)[n + 1] = t[Walk(t, s)[n]].next_slot
<1>1. n \in 0 .. hash_slots
  BY KvAssumption
<1> QED BY <1>1, WalkStep, WalkType DEF Used, After

LEMMA WalkUsed ==
  ASSUME NEW t, TableOK(t), NEW s \in Slots,
         NEW n \in 0 .. hash_slots, Walk(t, s)[n] # -1
  PROVE  \A m \in 0 .. n : /\ Walk(t, s)[m] \in Slots
                           /\ m < n => Used(t, Walk(t, s)[m])
<1> DEFINE T == {d \in 0 .. n : /\ Walk(t, s)[n - d] \in Slots
                                /\ d > 0 => Used(t, Walk(t, s)[n - d])}
<1>0. hash_slots \in Nat /\ n \in Nat
  BY KvAssumption
<1>1. 0 \in T
  <2>1. n - 0 = n
    BY <1>0
  <2> QED BY <1>0, <2>1, WalkType
<1>2. ASSUME NEW d \in 0 .. n - 1, d \in T PROVE d + 1 \in T
  <2>1. n - (d + 1) \in 0 .. hash_slots - 1 /\ (n - (d + 1)) + 1 = n - d /\ d + 1 \in 0 .. n
    BY <1>0
  <2>2. Walk(t, s)[n - d] # -1
    BY <1>2, KvAssumption DEF Slots
  <2>3. Used(t, Walk(t, s)[n - (d + 1)])
    BY <2>1, <2>2, WalkBefore
  <2> QED BY <2>1, <2>3 DEF Used
<1> HIDE DEF T
<1>3. 0 .. n \subseteq T
  BY <1>0, <1>1, <1>2, InductionTo
<1> SUFFICES ASSUME NEW m \in 0 .. n
             PROVE  Walk(t, s)[m] \in Slots /\ (m < n => Used(t, Walk(t, s)[m]))
  OBVIOUS
<1>4. n - m \in 0 .. n /\ n - (n - m) = m /\ (m < n => n - m > 0)
  BY <1>0
<1>5. n - m \in T
  BY <1>3, <1>4
<1> QED BY <1>4, <1>5 DEF T

(* Ranks go down along it, so it never comes to a slot twice.              *)
LEMMA WalkDown ==
  ASSUME NEW t, TableOK(t), NEW rank, Descends(t, rank), NEW s \in Slots,
         NEW n \in 0 .. hash_slots, Walk(t, s)[n] # -1
  PROVE  \A m \in 0 .. n - 1 : rank[Walk(t, s)[n]] < rank[Walk(t, s)[m]]
<1> DEFINE W(i) == Walk(t, s)[i]
           T == {d \in 0 .. n : d > 0 => rank[W(n)] < rank[W(n - d)]}
<1>0. hash_slots \in Nat /\ n \in Nat
  BY KvAssumption
<1>1. 0 \in T
  BY <1>0
<1>2. ASSUME NEW d \in 0 .. n - 1, d \in T PROVE d + 1 \in T
  <2>1. n - (d + 1) \in 0 .. hash_slots - 1 /\ (n - (d + 1)) + 1 = n - d
        /\ d + 1 \in 0 .. n /\ n - d \in 0 .. n /\ n - (d + 1) \in 0 .. n
    BY <1>0
  <2>2. W(n - d) \in Slots /\ W(n - (d + 1)) \in Slots /\ W(n) \in Slots
    BY <1>0, <2>1, WalkUsed
  <2>3. W(n - d) # -1
    BY <2>2, KvAssumption DEF Slots
  <2>4. W(n - d) = t[W(n - (d + 1))].next_slot
    BY <2>1, <2>3, WalkBefore
  <2>5. rank[W(n - d)] < rank[W(n - (d + 1))]
    BY <2>2, <2>3, <2>4 DEF Descends
  <2>6. rank[W(n)] \in Nat /\ rank[W(n - d)] \in Nat /\ rank[W(n - (d + 1))] \in Nat
    BY <2>2 DEF Descends
  <2>7. d = 0 => n - d = n
    BY <1>0
  <2>8. rank[W(n)] < rank[W(n - (d + 1))]
    <3>1. CASE d = 0
      BY <2>5, <2>7, <3>1
    <3>2. CASE d > 0
      <4>1. rank[W(n)] < rank[W(n - d)]
        BY <1>2, <3>2
      <4> HIDE DEF W
      <4> QED BY <4>1, <2>5, <2>6
    <3> QED BY <3>1, <3>2
  <2> QED BY <2>1, <2>8
<1> HIDE DEF T
<1>3. 0 .. n \subseteq T
  BY <1>0, <1>1, <1>2, InductionTo
<1> SUFFICES ASSUME NEW m \in 0 .. n - 1 PROVE rank[W(n)] < rank[W(m)]
  OBVIOUS
<1>4. n - m \in 0 .. n /\ n - (n - m) = m /\ n - m > 0
  BY <1>0
<1>5. n - m \in T
  BY <1>3, <1>4
<1> QED BY <1>4, <1>5 DEF T

(* It is not longer than there are used slots.                             *)
LEMMA WalkShort ==
  ASSUME NEW t, TableOK(t), Acyclic(t), NEW s \in Slots,
         NEW n \in 0 .. hash_slots, Used(t, Walk(t, s)[n]),
         NEW S, S \subseteq Slots, \A i \in Slots : Used(t, i) => i \in S
  PROVE  n + 1 <= Cardinality(S)
<1> DEFINE W(i) == Walk(t, s)[i]
           f == [m \in 0 .. n |-> W(m)]
<1>0. hash_slots \in Nat /\ n \in Nat
  BY KvAssumption
<1>1. PICK rank : Descends(t, rank)
  BY DEF Acyclic
<1>2. W(n) # -1
  BY KvAssumption DEF Used, Slots
<1>3. \A m \in 0 .. n : Used(t, W(m))
  <2> SUFFICES ASSUME NEW m \in 0 .. n PROVE Used(t, W(m))
    OBVIOUS
  <2>1. m < n => Used(t, W(m))
    BY <1>2, WalkUsed
  <2>2. m = n \/ m < n
    BY <1>0
  <2> QED BY <2>1, <2>2
<1>4. f \in [0 .. n -> S]
  BY <1>3 DEF Used
<1>5. ASSUME NEW j \in 0 .. n, NEW m \in 0 .. n, m < j PROVE W(m) # W(j)
  <2>1. j \in 0 .. hash_slots /\ m \in 0 .. j - 1
    BY <1>0, <1>5
  <2>2. W(j) # -1 /\ W(j) \in Slots
    BY <1>3, KvAssumption DEF Used, Slots
  <2>3. rank[W(j)] < rank[W(m)]
    BY <1>1, <2>1, <2>2, WalkDown
  <2>4. rank[W(j)] \in Nat
    BY <1>1, <2>2 DEF Descends
  <2> QED BY <2>3, <2>4
<1>6. f \in Injection(0 .. n, S)
  <2>1. \A j, m \in 0 .. n : m # j => m < j \/ j < m
    BY <1>0
  <2>2. \A j, m \in 0 .. n : W(m) = W(j) => m = j
    BY <2>1, <1>5
  <2> HIDE DEF W
  <2>3. \A j, m \in 0 .. n : f[m] = f[j] => m = j
    BY <2>2
  <2> QED BY <1>4, <2>3 DEF Injection, IsInjective
<1>7. IsFiniteSet(S)
  <2>1. IsFiniteSet(Slots)
    BY <1>0, FS_Interval DEF Slots
  <2> QED BY <2>1, FS_Subset
<1>8. Cardinality(0 .. n) <= Cardinality(S)
  <2> HIDE DEF f
  <2> QED BY <1>6, <1>7, FS_Injection
<1>9. Cardinality(0 .. n) = n + 1
  BY <1>0, FS_Interval
<1> QED BY <1>8, <1>9

LEMMA WalkEnds ==
  ASSUME NEW t, TableOK(t), Acyclic(t), NEW s \in Slots
  PROVE  /\ ~Used(t, Walk(t, s)[hash_slots])
         /\ \A f \in Slots : IsFree(t, f) =>
              \A n \in 0 .. hash_slots : Used(t, Walk(t, s)[n]) => n + 1 < hash_slots
<1>0. hash_slots \in Nat
  BY KvAssumption
<1>1. IsFiniteSet(Slots) /\ Cardinality(Slots) = hash_slots
  BY <1>0, FS_Interval, KvAssumption DEF Slots
<1>2. ~Used(t, Walk(t, s)[hash_slots])
  <2>1. ~(hash_slots + 1 <= hash_slots) /\ hash_slots \in 0 .. hash_slots
    BY <1>0
  <2> QED BY <1>1, <2>1, WalkShort
<1>3. ASSUME NEW f \in Slots, IsFree(t, f),
             NEW n \in 0 .. hash_slots, Used(t, Walk(t, s)[n])
      PROVE  n + 1 < hash_slots
  <2>1. Cardinality(Slots \ {f}) = hash_slots - 1
    BY <1>1, FS_RemoveElement
  <2>2. \A i \in Slots : Used(t, i) => i \in Slots \ {f}
    BY <1>3 DEF Used
  <2>3. n + 1 <= Cardinality(Slots \ {f})
    BY <1>3, <2>2, WalkShort
  <2> QED BY <1>0, <2>1, <2>3
<1> QED BY <1>2, <1>3

-----------------------------------------------------------------------------
(* What a lookup finds.                                                    *)

Hit(t, k, n) ==
  /\ Walk(t, hash[k])[n] # -1
  /\ ~IsFree(t, Walk(t, hash[k])[n])
  /\ t[Walk(t, hash[k])[n]].key = k

Hits(t, k) == {n \in 0 .. hash_slots : Hit(t, k, n)}

LEMMA FoundDef ==
  ASSUME NEW t, NEW k
  PROVE  Found(t, k) = IF Hits(t, k) = {} THEN -1
                       ELSE Walk(t, hash[k])[CHOOSE n \in Hits(t, k) :
                                               \A m \in Hits(t, k) : n <= m]
BY DEF Found, Hits, Hit

LEMMA FirstHit ==
  ASSUME NEW t, NEW k, Hits(t, k) # {}
  PROVE  \E n \in Hits(t, k) : /\ Found(t, k) = Walk(t, hash[k])[n]
                               /\ \A m \in Hits(t, k) : n <= m
<1>1. Hits(t, k) \subseteq Nat
  BY KvAssumption DEF Hits
<1> QED BY <1>1, LeastNat, FoundDef

LEMMA FoundNothing ==
  ASSUME NEW t, TableOK(t), NEW k \in Keys
  PROVE  Found(t, k) = -1 <=> \A n \in 0 .. hash_slots : ~Hit(t, k, n)
<1>1. Hits(t, k) = {} <=> \A n \in 0 .. hash_slots : ~Hit(t, k, n)
  BY DEF Hits
<1>2. Hits(t, k) = {} => Found(t, k) = -1
  BY FoundDef
<1>3. \A n \in Hits(t, k) : Walk(t, hash[k])[n] # -1
  BY DEF Hits, Hit
<1> QED BY <1>1, <1>2, <1>3, FirstHit

LEMMA FoundFirst ==
  ASSUME NEW t, TableOK(t), NEW k \in Keys, Found(t, k) # -1
  PROVE  \E n \in 0 .. hash_slots :
           /\ Found(t, k) = Walk(t, hash[k])[n] /\ Hit(t, k, n)
           /\ \A m \in 0 .. hash_slots : Hit(t, k, m) => n <= m
<1>1. Hits(t, k) # {}
  BY FoundDef
<1>2. PICK n \in Hits(t, k) : /\ Found(t, k) = Walk(t, hash[k])[n]
                             /\ \A m \in Hits(t, k) : n <= m
  BY <1>1, FirstHit
<1> QED BY <1>2 DEF Hits

(* The slot found is used, and holds the key.                              *)
LEMMA FoundSlot ==
  ASSUME NEW t, TableOK(t), NEW k \in Keys, Found(t, k) # -1
  PROVE  Used(t, Found(t, k)) /\ t[Found(t, k)].key = k
<1>1. PICK n \in 0 .. hash_slots : Found(t, k) = Walk(t, hash[k])[n] /\ Hit(t, k, n)
  BY FoundFirst
<1>2. hash[k] \in Slots
  BY KvAssumption
<1>3. Walk(t, hash[k])[n] \in Slots \cup {-1}
  BY <1>2, WalkType
<1> QED BY <1>1, <1>3 DEF Hit, Used

-----------------------------------------------------------------------------
(* Walks and lookups in two tables.                                        *)

LEMMA WalkAgrees ==
  ASSUME NEW t, NEW u, NEW s, NEW n \in 0 .. hash_slots,
         \A m \in 0 .. n - 1 : After(u, Walk(t, s)[m]) = After(t, Walk(t, s)[m])
  PROVE  \A m \in 0 .. n : Walk(u, s)[m] = Walk(t, s)[m]
<1> DEFINE T == {m \in 0 .. n : Walk(u, s)[m] = Walk(t, s)[m]}
<1>0. hash_slots \in Nat /\ n \in Nat
  BY KvAssumption
<1>1. 0 \in T
  BY <1>0, WalkStep
<1>2. ASSUME NEW m \in 0 .. n - 1, m \in T PROVE m + 1 \in T
  <2>1. m \in 0 .. hash_slots - 1 /\ m + 1 \in 0 .. n
    BY <1>0
  <2>2. Walk(u, s)[m + 1] = Walk(t, s)[m + 1]
    BY <1>2, <2>1, WalkStep
  <2> QED BY <2>1, <2>2
<1> HIDE DEF T
<1>3. 0 .. n \subseteq T
  BY <1>0, <1>1, <1>2, InductionTo
<1> QED BY <1>3 DEF T

LEMMA FoundAgrees ==
  ASSUME NEW t, NEW u, NEW k \in Keys, NEW n \in 0 .. hash_slots,
         Hit(t, k, n), \A m \in 0 .. hash_slots : Hit(t, k, m) => n <= m,
         \A m \in 0 .. n : Walk(u, hash[k])[m] = Walk(t, hash[k])[m],
         \A m \in 0 .. n : Hit(u, k, m) <=> Hit(t, k, m)
  PROVE  Found(u, k) = Walk(t, hash[k])[n]
<1>0. hash_slots \in Nat /\ n \in Nat /\ n \in 0 .. n
  BY KvAssumption
<1>1. n \in Hits(u, k)
  BY <1>0 DEF Hits
<1>2. PICK i \in Hits(u, k) : /\ Found(u, k) = Walk(u, hash[k])[i]
                              /\ \A m \in Hits(u, k) : i <= m
  BY <1>1, FirstHit
<1>3. i \in 0 .. n /\ i \in 0 .. hash_slots /\ Hit(u, k, i)
  BY <1>0, <1>1, <1>2 DEF Hits
<1>4. n <= i
  BY <1>3
<1>5. i = n
  BY <1>0, <1>3, <1>4
<1> QED BY <1>0, <1>2, <1>5

(* The rest of a walk is a walk.                                           *)
LEMMA WalkOn ==
  ASSUME NEW t, NEW s, NEW m \in 0 .. hash_slots
  PROVE  \A i \in 0 .. hash_slots - m : Walk(t, Walk(t, s)[m])[i] = Walk(t, s)[m + i]
<1> DEFINE x == Walk(t, s)[m]
           T == {i \in 0 .. hash_slots - m : Walk(t, x)[i] = Walk(t, s)[m + i]}
<1>0. hash_slots \in Nat /\ m \in Nat /\ hash_slots - m \in Nat /\ m + 0 = m
  BY KvAssumption
<1>1. 0 \in T
  BY <1>0, WalkStep
<1>2. ASSUME NEW i \in 0 .. (hash_slots - m) - 1, i \in T PROVE i + 1 \in T
  <2>1. /\ i \in 0 .. hash_slots - 1 /\ m + i \in 0 .. hash_slots - 1
        /\ (m + i) + 1 = m + (i + 1) /\ i + 1 \in 0 .. hash_slots - m
    BY <1>0
  <2>2. Walk(t, x)[i + 1] = After(t, Walk(t, x)[i])
    BY <2>1, WalkStep
  <2>3. Walk(t, s)[(m + i) + 1] = After(t, Walk(t, s)[m + i])
    BY <2>1, WalkStep
  <2> QED BY <1>2, <2>1, <2>2, <2>3
<1> HIDE DEF T
<1>3. 0 .. (hash_slots - m) \subseteq T
  BY <1>0, <1>1, <1>2, InductionTo
<1> QED BY <1>3 DEF T

-----------------------------------------------------------------------------
(* An update leaves keys, offsets and links as they are.                   *)

LEMMA UpdateFound ==
  ASSUME NEW t, TableOK(t), NEW u, NEW k \in Keys,
         \A s \in Slots : /\ u[s].key = t[s].key /\ u[s].mem_offset = t[s].mem_offset
                          /\ u[s].next_slot = t[s].next_slot
  PROVE  Found(u, k) = Found(t, k)
<1>0. hash_slots \in Nat /\ hash[k] \in Slots
  BY KvAssumption
<1>1. \A n \in 0 .. hash_slots : Walk(t, hash[k])[n] \in Slots \cup {-1}
  BY <1>0, WalkType
<1>2. \A i \in Slots \cup {-1} : After(u, i) = After(t, i)
  BY DEF After, IsFree
<1>3. \A m \in 0 .. hash_slots - 1 :
        After(u, Walk(t, hash[k])[m]) = After(t, Walk(t, hash[k])[m])
  BY <1>0, <1>1, <1>2
<1>4. hash_slots \in 0 .. hash_slots
  BY <1>0
<1>5. \A m \in 0 .. hash_slots : Walk(u, hash[k])[m] = Walk(t, hash[k])[m]
  BY <1>3, <1>4, WalkAgrees
<1>6. \A m \in 0 .. hash_slots : Hit(u, k, m) <=> Hit(t, k, m)
  BY <1>1, <1>5 DEF Hit, IsFree
<1>7. Hits(u, k) = Hits(t, k)
  BY <1>6 DEF Hits
<1>8. CASE Hits(t, k) = {}
  BY <1>7, <1>8, FoundDef
<1>9. CASE Hits(t, k) # {}
  <2>1. PICK n \in Hits(t, k) : /\ Found(t, k) = Walk(t, hash[k])[n]
                                /\ \A m \in Hits(t, k) : n <= m
    BY <1>9, FirstHit
  <2>2. n \in 0 .. hash_slots /\ Hit(t, k, n)
        /\ \A m \in 0 .. hash_slots : Hit(t, k, m) => n <= m
    BY <2>1 DEF Hits
  <2>3. \A m \in 0 .. n : m \in 0 .. hash_slots
    BY <1>0, <2>2
  <2>4. Found(u, k) = Walk(t, hash[k])[n]
    BY <1>5, <1>6, <2>2, <2>3, FoundAgrees
  <2> QED BY <2>1, <2>4
<1> QED BY <1>8, <1>9

-----------------------------------------------------------------------------
(* A slot emptied: every walk ends there.                                  *)

LEMMA EmptiedOK ==
  ASSUME NEW t, TableOK(t), Acyclic(t), NEW x \in Slots
  PROVE  TableOK(Emptied(t, x)) /\ Acyclic(Emptied(t, x))
<1>1. Empty \in Entry
  BY KvAssumption DEF Empty, Entry
<1>2. \A s \in Slots : Emptied(t, x)[s] = IF s = x THEN Empty ELSE t[s]
  BY DEF Emptied, TableOK
<1>3. Emptied(t, x) \in [Slots -> Entry]
  BY <1>1 DEF Emptied, TableOK
<1>4. TableOK(Emptied(t, x))
  BY <1>2, <1>3 DEF TableOK, IsFree, Empty
<1>5. PICK rank : Descends(t, rank)
  BY DEF Acyclic
<1>6. Empty.next_slot = -1
  BY DEF Empty
<1>7. Descends(Emptied(t, x), rank)
  BY <1>2, <1>5, <1>6 DEF Descends
<1> QED BY <1>4, <1>7 DEF Acyclic

LEMMA EmptiedWalk ==
  ASSUME NEW t, TableOK(t), NEW x \in Slots, NEW s \in Slots
  PROVE  \A n \in 0 .. hash_slots :
           Walk(Emptied(t, x), s)[n] # -1 => Walk(Emptied(t, x), s)[n] = Walk(t, s)[n]
<1> DEFINE u == Emptied(t, x)
           T == {n \in 0 .. hash_slots : Walk(u, s)[n] # -1 => Walk(u, s)[n] = Walk(t, s)[n]}
<1>0. hash_slots \in Nat
  BY KvAssumption
<1>1. \A i \in Slots \cup {-1} : After(u, i) = -1 \/ After(u, i) = After(t, i)
  BY DEF Emptied, TableOK, After, IsFree, Empty
<1>2. 0 \in T
  BY <1>0, WalkStep
<1>3. ASSUME NEW n \in 0 .. hash_slots - 1, n \in T PROVE n + 1 \in T
  <2>1. n \in 0 .. hash_slots /\ n + 1 \in 0 .. hash_slots
    BY <1>0
  <2>2. Walk(u, s)[n + 1] = After(u, Walk(u, s)[n]) /\ Walk(t, s)[n + 1] = After(t, Walk(t, s)[n])
    BY WalkStep
  <2>3. After(u, -1) = -1
    BY DEF After
  <2>4. Walk(t, s)[n] \in Slots \cup {-1}
    BY <2>1, WalkType
  <2> HIDE DEF u
  <2>5. Walk(u, s)[n + 1] # -1 => Walk(u, s)[n + 1] = Walk(t, s)[n + 1]
    BY <1>1, <1>3, <2>2, <2>3, <2>4
  <2> QED BY <2>1, <2>5
<1> HIDE DEF T
<1>4. 0 .. hash_slots \subseteq T
  BY <1>0, <1>2, <1>3, InductionTo
<1> QED BY <1>4 DEF T

LEMMA EmptiedHit ==
  ASSUME NEW t, TableOK(t), NEW x \in Slots, NEW j \in Keys,
         NEW n \in 0 .. hash_slots, Hit(Emptied(t, x), j, n)
  PROVE  /\ Hit(t, j, n) /\ Walk(t, hash[j])[n] # x
         /\ Walk(Emptied(t, x), hash[j])[n] = Walk(t, hash[j])[n]
<1>1. hash[j] \in Slots
  BY KvAssumption
<1>2. Walk(Emptied(t, x), hash[j])[n] = Walk(t, hash[j])[n]
  BY <1>1, EmptiedWalk DEF Hit
<1>3. Walk(t, hash[j])[n] \in Slots \cup {-1}
  BY <1>1, WalkType
<1>4. Emptied(t, x)[x] = Empty /\ \A i \in Slots : i # x => Emptied(t, x)[i] = t[i]
  BY DEF Emptied, TableOK
<1> QED BY <1>2, <1>3, <1>4 DEF Hit, IsFree, Empty

(* What is still found is found where it was.                              *)
LEMMA EmptiedFound ==
  ASSUME NEW t, TableOK(t), Acyclic(t), NEW x \in Slots, NEW j \in Keys,
         Found(Emptied(t, x), j) # -1
  PROVE  Found(Emptied(t, x), j) = Found(t, j) /\ Found(t, j) # x
<1> DEFINE u == Emptied(t, x)
<1>0. TableOK(u) /\ hash[j] \in Slots /\ hash_slots \in Nat
  BY EmptiedOK, KvAssumption
<1>1. PICK n \in 0 .. hash_slots : /\ Found(u, j) = Walk(u, hash[j])[n] /\ Hit(u, j, n)
                                   /\ \A m \in 0 .. hash_slots : Hit(u, j, m) => n <= m
  BY <1>0, FoundFirst
<1>2. \A m \in 0 .. n : Walk(u, hash[j])[m] \in Slots
  <2>1. Walk(u, hash[j])[n] # -1
    BY <1>1 DEF Hit
  <2> HIDE DEF u
  <2> QED BY <1>0, <2>1, WalkUsed
<1>3. \A m \in 0 .. n : m \in 0 .. hash_slots
  BY <1>0
<1>4. \A m \in 0 .. n : Walk(u, hash[j])[m] = Walk(t, hash[j])[m]
  <2>1. -1 \notin Slots
    BY DEF Slots
  <2> QED BY <1>0, <1>2, <1>3, <2>1, EmptiedWalk
<1>5. ASSUME NEW m \in 0 .. n PROVE Hit(t, j, m) <=> Hit(u, j, m)
  <2>1. CASE m = n
    BY <1>1, <2>1, EmptiedHit
  <2>2. CASE m < n
    <3>1. Used(u, Walk(u, hash[j])[m])
      <4>1. Walk(u, hash[j])[n] # -1
        BY <1>1 DEF Hit
      <4> HIDE DEF u
      <4> QED BY <1>0, <2>2, <4>1, WalkUsed
    <3>2. u[x] = Empty /\ \A i \in Slots : i # x => u[i] = t[i]
      BY DEF Emptied, TableOK
    <3> HIDE DEF u
    <3> QED BY <1>4, <3>1, <3>2 DEF Used, Hit, IsFree, Empty
  <2> QED BY <1>0, <2>1, <2>2
<1>6. \A m \in 0 .. n : Walk(t, hash[j])[m] = Walk(u, hash[j])[m]
  BY <1>4
<1>7. Found(t, j) = Walk(u, hash[j])[n]
  <2> HIDE DEF u
  <2> QED BY <1>1, <1>5, <1>6, FoundAgrees
<1>8. Walk(u, hash[j])[n] # x
  BY <1>1, EmptiedHit
<1> QED BY <1>1, <1>7, <1>8

(* The deleted key is found no more, not even in a copy behind the slot.   *)
LEMMA EmptiedGone ==
  ASSUME NEW t, TableOK(t), Acyclic(t), NEW k \in Keys, Found(t, k) # -1
  PROVE  Found(Emptied(t, Found(t, k)), k) = -1
<1>1. Found(t, k) \in Slots
  BY FoundSlot DEF Used
<1> QED BY <1>1, EmptiedFound

(* A key is still found whose chain the slot did not cut in front of it.   *)
LEMMA EmptiedStays ==
  ASSUME NEW t, TableOK(t), Acyclic(t), NEW x \in Slots, Used(t, x), NEW j \in Keys,
         Found(t, j) # -1, Found(t, j) # x,
         ~(x \in Chain(t, hash[j]) /\ Found(t, j) \in Chain(t, x))
  PROVE  Found(Emptied(t, x), j) = Found(t, j)
<1> DEFINE u == Emptied(t, x)
<1>0. TableOK(u) /\ hash[j] \in Slots /\ hash_slots \in Nat
  BY EmptiedOK, KvAssumption
<1>1. PICK n \in 0 .. hash_slots : /\ Found(t, j) = Walk(t, hash[j])[n] /\ Hit(t, j, n)
                                   /\ \A m \in 0 .. hash_slots : Hit(t, j, m) => n <= m
  BY FoundFirst
<1>2. \A m \in 0 .. n : Walk(t, hash[j])[m] \in Slots
  <2>1. Walk(t, hash[j])[n] # -1
    BY <1>1 DEF Hit
  <2> QED BY <1>0, <2>1, WalkUsed
<1>3. ASSUME NEW m \in 0 .. n, Walk(t, hash[j])[m] = x PROVE FALSE
  <2>1. m \in 0 .. hash_slots /\ n - m \in 0 .. hash_slots - m /\ n - m \in 0 .. hash_slots
        /\ m + (n - m) = n
    BY <1>0
  <2>2. Walk(t, x)[n - m] = Walk(t, hash[j])[n]
    BY <1>3, <2>1, WalkOn
  <2>3. Used(t, Found(t, j))
    BY FoundSlot
  <2>4. x \in Chain(t, hash[j])
    BY <1>3, <2>1 DEF Chain, Used
  <2>5. Found(t, j) \in Chain(t, x)
    BY <1>1, <2>1, <2>2, <2>3 DEF Chain, Used
  <2> QED BY <2>4, <2>5
<1>4. u[x] = Empty /\ \A i \in Slots : i # x => u[i] = t[i]
  BY DEF Emptied, TableOK
<1>5. \A m \in 0 .. n - 1 : After(u, Walk(t, hash[j])[m]) = After(t, Walk(t, hash[j])[m])
  <2> HIDE DEF u
  <2>1. \A i \in Slots : i # x => After(u, i) = After(t, i)
    BY <1>4 DEF After, IsFree
  <2>2. \A m \in 0 .. n - 1 : m \in 0 .. n
    BY <1>0
  <2> QED BY <1>2, <1>3, <2>1, <2>2
<1>6. \A m \in 0 .. n : Walk(u, hash[j])[m] = Walk(t, hash[j])[m]
  <2> HIDE DEF u
  <2> QED BY <1>5, WalkAgrees
<1>7. \A m \in 0 .. n : Hit(u, j, m) <=> Hit(t, j, m)
  <2> HIDE DEF u
  <2> QED BY <1>2, <1>3, <1>4, <1>6 DEF Hit, IsFree
<1>8. Found(u, j) = Walk(t, hash[j])[n]
  <2> HIDE DEF u
  <2> QED BY <1>1, <1>6, <1>7, FoundAgrees
<1> QED BY <1>1, <1>8

-----------------------------------------------------------------------------
(* A free slot x filled for the key k.  One used slot whose link led to    *)
(* no used slot may have been linked to it.                                *)

Fills(t, u, x, k) ==
  /\ x \in Slots /\ IsFree(t, x) /\ ~IsFree(u, x)
  /\ u[x].key = k /\ u[x].next_slot = -1
  /\ \A s \in Slots \ {x} :
       /\ u[s].key = t[s].key /\ u[s].mem_offset = t[s].mem_offset
       /\ u[s].length = t[s].length
       /\ \/ u[s].next_slot = t[s].next_slot
          \/ Used(t, s) /\ u[s].next_slot = x /\ ~Used(t, t[s].next_slot)

Reaches(t, s, i) == \E n \in 0 .. hash_slots : Walk(t, s)[n] = i

LEMMA FilledAcyclic ==
  ASSUME NEW t, TableOK(t), Acyclic(t), NEW u, NEW x, NEW k, Fills(t, u, x, k)
  PROVE  Acyclic(u)
<1>1. PICK rank : Descends(t, rank)
  BY DEF Acyclic
<1> DEFINE higher == [s \in Slots |-> IF s = x THEN 0 ELSE rank[s] + 1]
<1>2. higher \in [Slots -> Nat]
  BY <1>1 DEF Descends
<1>3. ASSUME NEW s \in Slots, u[s].next_slot # -1
      PROVE  higher[u[s].next_slot] < higher[s]
  <2>1. s # x /\ x \in Slots
    BY <1>3 DEF Fills
  <2>2. higher[x] = 0 /\ higher[s] = rank[s] + 1 /\ rank[s] \in Nat
    BY <1>1, <2>1 DEF Descends
  <2>3. CASE u[s].next_slot = x
    <3> HIDE DEF higher
    <3> QED BY <2>2, <2>3
  <2>4. CASE u[s].next_slot # x
    <3>1. u[s].next_slot = t[s].next_slot
      BY <2>1, <2>4 DEF Fills
    <3>2. t[s].next_slot \in Slots
      BY <1>3, <3>1 DEF TableOK, Entry
    <3>3. rank[t[s].next_slot] < rank[s] /\ rank[t[s].next_slot] \in Nat
      BY <1>1, <1>3, <3>1, <3>2 DEF Descends
    <3>4. higher[t[s].next_slot] = rank[t[s].next_slot] + 1
      BY <2>4, <3>1, <3>2
    <3> HIDE DEF higher
    <3> QED BY <2>2, <3>1, <3>3, <3>4
  <2> QED BY <2>3, <2>4
<1> HIDE DEF higher
<1>4. Descends(u, higher)
  BY <1>2, <1>3 DEF Descends
<1> QED BY <1>4 DEF Acyclic

(* Nothing but the slot filled is reached that was not reached before.     *)
LEMMA FilledWalk ==
  ASSUME NEW t, TableOK(t), NEW u, NEW x, NEW k, Fills(t, u, x, k), NEW s \in Slots
  PROVE  \A n \in 0 .. hash_slots : Walk(u, s)[n] \in {-1, x, Walk(t, s)[n]}
<1> DEFINE T == {n \in 0 .. hash_slots : Walk(u, s)[n] \in {-1, x, Walk(t, s)[n]}}
<1>0. hash_slots \in Nat
  BY KvAssumption
<1>1. 0 \in T
  BY <1>0, WalkStep
<1>2. ASSUME NEW n \in 0 .. hash_slots - 1, n \in T PROVE n + 1 \in T
  <2>1. n \in 0 .. hash_slots /\ n + 1 \in 0 .. hash_slots
    BY <1>0
  <2>2. Walk(u, s)[n + 1] = After(u, Walk(u, s)[n]) /\ Walk(t, s)[n + 1] = After(t, Walk(t, s)[n])
    BY WalkStep
  <2>3. After(u, -1) = -1 /\ After(u, x) = -1
    BY DEF After, Fills
  <2>4. Walk(t, s)[n] \in Slots \cup {-1}
    BY <2>1, WalkType
  <2>5. \A i \in Slots \ {x} : After(u, i) \in {-1, x, After(t, i)}
    BY DEF After, Fills, IsFree
  <2>6. Walk(u, s)[n + 1] \in {-1, x, Walk(t, s)[n + 1]}
    BY <1>2, <2>2, <2>3, <2>4, <2>5
  <2> QED BY <2>1, <2>6
<1> HIDE DEF T
<1>3. 0 .. hash_slots \subseteq T
  BY <1>0, <1>1, <1>2, InductionTo
<1> QED BY <1>3 DEF T

(* And what was reached still is.                                          *)
LEMMA FilledReaches ==
  ASSUME NEW t, TableOK(t), NEW u, NEW x, NEW k, Fills(t, u, x, k), NEW s \in Slots,
         NEW n \in 0 .. hash_slots, Used(t, Walk(t, s)[n])
  PROVE  \A m \in 0 .. n : /\ Walk(u, s)[m] = Walk(t, s)[m] /\ Used(t, Walk(t, s)[m])
                           /\ Walk(t, s)[m] # x
<1>0. hash_slots \in Nat /\ n \in Nat
  BY KvAssumption
<1>1. \A m \in 0 .. n : Used(t, Walk(t, s)[m])
  <2>1. Walk(t, s)[n] # -1
    BY DEF Used, Slots
  <2>2. \A m \in 0 .. n : m < n => Used(t, Walk(t, s)[m])
    BY <2>1, WalkUsed
  <2>3. \A m \in 0 .. n : m < n \/ m = n
    BY <1>0
  <2> QED BY <2>2, <2>3
<1>2. ASSUME NEW m \in 0 .. n - 1
      PROVE  After(u, Walk(t, s)[m]) = After(t, Walk(t, s)[m])
  <2>1. m \in 0 .. n /\ m + 1 \in 0 .. n /\ m \in 0 .. hash_slots - 1
    BY <1>0
  <2>2. Used(t, Walk(t, s)[m]) /\ Used(t, Walk(t, s)[m + 1])
    BY <1>1, <2>1
  <2>3. Walk(t, s)[m + 1] = After(t, Walk(t, s)[m])
    BY <2>1, WalkStep
  <2>4. Walk(t, s)[m] \in Slots \ {x} /\ Walk(t, s)[m] # -1
    BY <2>2 DEF Used, Fills, Slots
  <2>5. After(t, Walk(t, s)[m]) = t[Walk(t, s)[m]].next_slot
    BY <2>2, <2>4 DEF After, Used
  <2>6. After(u, Walk(t, s)[m]) = u[Walk(t, s)[m]].next_slot
    BY <2>2, <2>4 DEF After, Used, Fills, IsFree
  <2> QED BY <2>2, <2>3, <2>4, <2>5, <2>6 DEF Fills
<1>3. \A m \in 0 .. n : Walk(u, s)[m] = Walk(t, s)[m]
  BY <1>2, WalkAgrees
<1>4. \A m \in 0 .. n : Walk(t, s)[m] # x
  BY <1>1 DEF Used, Fills
<1> QED BY <1>1, <1>3, <1>4

LEMMA FilledHit ==
  ASSUME NEW t, TableOK(t), NEW u, NEW x, NEW k, Fills(t, u, x, k), NEW j \in Keys,
         NEW n \in 0 .. hash_slots, Hit(u, j, n)
  PROVE  (Walk(u, hash[j])[n] = x /\ j = k) \/ Hit(t, j, n)
<1>1. hash[j] \in Slots
  BY KvAssumption
<1>2. Walk(u, hash[j])[n] \in {-1, x, Walk(t, hash[j])[n]}
  BY <1>1, FilledWalk
<1>3. Walk(t, hash[j])[n] \in Slots \cup {-1}
  BY <1>1, WalkType
<1>4. Walk(u, hash[j])[n] # -1
  BY DEF Hit
<1>5. CASE Walk(u, hash[j])[n] = x
  BY <1>5 DEF Fills, Hit
<1>6. CASE Walk(u, hash[j])[n] # x
  <2>1. Walk(u, hash[j])[n] = Walk(t, hash[j])[n] /\ Walk(t, hash[j])[n] \in Slots \ {x}
    BY <1>2, <1>3, <1>4, <1>6
  <2> QED BY <2>1, <1>4 DEF Fills, Hit, IsFree
<1> QED BY <1>5, <1>6

(* No other key is affected, and no deleted key comes back.                *)
LEMMA FilledOthers ==
  ASSUME NEW t, TableOK(t), NEW u, TableOK(u), NEW x, NEW k, Fills(t, u, x, k),
         NEW j \in Keys, j # k
  PROVE  Found(u, j) = Found(t, j) /\ (Found(t, j) # -1 => Found(t, j) # x)
<1>0. hash[j] \in Slots /\ hash_slots \in Nat
  BY KvAssumption
<1>1. CASE Found(t, j) = -1
  <2>1. \A n \in 0 .. hash_slots : ~Hit(t, j, n)
    BY <1>1, FoundNothing
  <2>2. \A n \in 0 .. hash_slots : ~Hit(u, j, n)
    BY <2>1, FilledHit
  <2>3. Found(u, j) = -1
    BY <2>2, FoundNothing
  <2> QED BY <1>1, <2>3
<1>2. CASE Found(t, j) # -1
  <2>1. PICK n \in 0 .. hash_slots : /\ Found(t, j) = Walk(t, hash[j])[n] /\ Hit(t, j, n)
                                     /\ \A m \in 0 .. hash_slots : Hit(t, j, m) => n <= m
    BY <1>2, FoundFirst
  <2>2. Used(t, Walk(t, hash[j])[n])
    BY <1>2, <2>1, FoundSlot
  <2>3. \A m \in 0 .. n : /\ Walk(u, hash[j])[m] = Walk(t, hash[j])[m]
                          /\ Used(t, Walk(t, hash[j])[m]) /\ Walk(t, hash[j])[m] # x
    BY <1>0, <2>2, FilledReaches
  <2>4. \A m \in 0 .. n : Hit(u, j, m) <=> Hit(t, j, m)
    BY <2>3 DEF Hit, Used, Fills, IsFree
  <2>5. Found(u, j) = Walk(t, hash[j])[n]
    BY <2>1, <2>3, <2>4, FoundAgrees
  <2>6. n \in 0 .. n
    BY <1>0
  <2> QED BY <2>1, <2>3, <2>5, <2>6
<1> QED BY <1>1, <1>2

(* The key is found in the slot filled, if it is reached.                  *)
LEMMA FilledFound ==
  ASSUME NEW t, TableOK(t), NEW u, TableOK(u), NEW x, NEW k \in Keys, Fills(t, u, x, k),
         Found(t, k) = -1, Reaches(u, hash[k], x)
  PROVE  Found(u, k) = x
<1>1. x # -1
  BY DEF Fills, Slots
<1>2. \E n \in 0 .. hash_slots : Hit(u, k, n)
  BY <1>1 DEF Hit, Fills, Reaches
<1>3. Found(u, k) # -1
  BY <1>2, FoundNothing
<1>4. PICK m \in 0 .. hash_slots : Found(u, k) = Walk(u, hash[k])[m] /\ Hit(u, k, m)
  BY <1>3, FoundFirst
<1>5. ~Hit(t, k, m)
  BY FoundNothing
<1> QED BY <1>4, <1>5, FilledHit

-----------------------------------------------------------------------------
(* find_next_slot and new_mapping_entry.                                   *)

LEMMA TailIsLast ==
  ASSUME NEW t, TableOK(t), NEW s \in Slots, Used(t, s)
  PROVE  \E n \in 0 .. hash_slots :
           /\ Tail(t, s) = Walk(t, s)[n] /\ Used(t, Walk(t, s)[n])
           /\ \A m \in 0 .. hash_slots : m > n => ~Used(t, Walk(t, s)[m])
<1> DEFINE U == {n \in 0 .. hash_slots : Walk(t, s)[n] # -1 /\ ~IsFree(t, Walk(t, s)[n])}
<1>0. hash_slots \in Nat /\ 0 \in 0 .. hash_slots
  BY KvAssumption
<1>1. Tail(t, s) = Walk(t, s)[CHOOSE n \in U : \A m \in U : m <= n]
  BY DEF Tail
<1>2. 0 \in U
  BY <1>0, WalkStep DEF Used, Slots
<1>3. PICK n \in U : Tail(t, s) = Walk(t, s)[n] /\ \A m \in U : m <= n
  <2>1. U \subseteq 0 .. hash_slots /\ U # {}
    BY <1>2
  <2> HIDE DEF U
  <2> QED BY <1>0, <1>1, <2>1, GreatestNat
<1>4. \A m \in 0 .. hash_slots : Walk(t, s)[m] \in Slots \cup {-1}
  BY WalkType
<1>5. \A m \in 0 .. hash_slots : m \in U <=> Used(t, Walk(t, s)[m])
  BY <1>4 DEF Used, Slots
<1>6. \A m \in 0 .. hash_slots : m > n => m \notin U
  <2>1. n \in 0 .. hash_slots
    OBVIOUS
  <2> HIDE DEF U
  <2> QED BY <1>0, <1>3, <2>1
<1> QED BY <1>3, <1>5, <1>6

(* Behind it the walk is over: its link is to a free slot or to none.      *)
LEMMA TailLink ==
  ASSUME NEW t, TableOK(t), Acyclic(t), NEW s \in Slots, Used(t, s),
         NEW f \in Slots, IsFree(t, f)
  PROVE  \E n \in 0 .. hash_slots - 1 :
           /\ Tail(t, s) = Walk(t, s)[n] /\ Used(t, Walk(t, s)[n])
           /\ ~Used(t, t[Tail(t, s)].next_slot)
<1>0. hash_slots \in Nat
  BY KvAssumption
<1>1. PICK n \in 0 .. hash_slots :
        /\ Tail(t, s) = Walk(t, s)[n] /\ Used(t, Walk(t, s)[n])
        /\ \A m \in 0 .. hash_slots : m > n => ~Used(t, Walk(t, s)[m])
  BY TailIsLast
<1>2. n + 1 < hash_slots
  BY <1>1, WalkEnds
<1>3. n \in 0 .. hash_slots - 1 /\ n + 1 \in 0 .. hash_slots /\ n + 1 > n
  BY <1>0, <1>2
<1>4. Walk(t, s)[n + 1] = After(t, Walk(t, s)[n])
  BY <1>3, WalkStep
<1>5. After(t, Walk(t, s)[n]) = t[Walk(t, s)[n]].next_slot
  BY <1>1 DEF After, Used, Slots
<1> QED BY <1>1, <1>3, <1>4, <1>5

LEMMA ModWrap ==
  ASSUME NEW f \in Slots
  PROVE  f % hash_slots = f /\ (f + hash_slots) % hash_slots = f
BY KvAssumption DEF Slots

LEMMA FreeBehindIsFree ==
  ASSUME NEW t, NEW s \in Slots, ~IsFree(t, s), NEW f \in Slots, IsFree(t, f)
  PROVE  FreeBehind(t, s) \in Slots /\ IsFree(t, FreeBehind(t, s))
<1> DEFINE D == {d \in 1 .. hash_slots - 1 : IsFree(t, (s + d) % hash_slots)}
<1>0. hash_slots \in Nat \ {0} /\ s \in 0 .. hash_slots - 1 /\ f \in 0 .. hash_slots - 1 /\ f # s
  BY KvAssumption DEF Slots
<1>1. D # {}
  <2>1. CASE f > s
    <3>1. f - s \in 1 .. hash_slots - 1 /\ s + (f - s) = f
      BY <1>0, <2>1
    <3>2. (s + (f - s)) % hash_slots = f
      BY <3>1, ModWrap
    <3> QED BY <3>1, <3>2
  <2>2. CASE f < s
    <3>1. (f + hash_slots) - s \in 1 .. hash_slots - 1
          /\ s + ((f + hash_slots) - s) = f + hash_slots
      BY <1>0, <2>2
    <3>2. (s + ((f + hash_slots) - s)) % hash_slots = f
      BY <3>1, ModWrap
    <3> QED BY <3>1, <3>2
  <2> QED BY <1>0, <2>1, <2>2
<1>2. FreeBehind(t, s) = (s + CHOOSE d \in D : \A e \in D : d <= e) % hash_slots
  BY DEF FreeBehind
<1>3. (CHOOSE d \in D : \A e \in D : d <= e) \in D
  <2>1. D \subseteq Nat
    OBVIOUS
  <2> HIDE DEF D
  <2> QED BY <1>1, <2>1, LeastNat
<1>4. \E d \in D : FreeBehind(t, s) = (s + d) % hash_slots
  <2> HIDE DEF D
  <2> QED BY <1>2, <1>3
<1>5. PICK d \in D : FreeBehind(t, s) = (s + d) % hash_slots
  BY <1>4
<1>6. (s + d) % hash_slots \in Slots
  <2>1. s + d \in Nat
    BY <1>0
  <2> QED BY <1>0, <2>1 DEF Slots
<1> QED BY <1>5, <1>6

(* The slot a new key is written to.                                       *)
NewSlot(t, k) == IF IsFree(t, hash[k]) THEN hash[k] ELSE FreeBehind(t, Tail(t, hash[k]))

LEMMA NewEntryFills ==
  ASSUME NEW t, TableOK(t), Acyclic(t), NEW k \in Keys, NEW length \in Nat,
         NEW offset \in Nat, \E f \in Slots : IsFree(t, f),
         NEW u, u = NewEntry(t, k, length, offset)
  PROVE  /\ Fills(t, u, NewSlot(t, k), k) /\ TableOK(u)
         /\ u[NewSlot(t, k)].mem_offset = offset /\ u[NewSlot(t, k)].length = length
         /\ Reaches(u, hash[k], NewSlot(t, k))
<1> DEFINE x == NewSlot(t, k)
           home == hash[k]
           filled == [key |-> k, mem_offset |-> offset, length |-> length, next_slot |-> -1]
<1>0. hash_slots \in Nat \ {0} /\ home \in Slots /\ -1 \notin Slots
  BY KvAssumption DEF Slots
<1>1. filled \in Entry
  BY DEF Entry
<1>3. CASE IsFree(t, home)
  <2>1. x = home /\ t[x] = Empty
    BY <1>0, <1>3 DEF NewSlot, TableOK
  <2>2. u = [t EXCEPT ![home].key = k, ![home].mem_offset = offset, ![home].length = length]
    BY <1>3 DEF NewEntry
  <2>3. u = [t EXCEPT ![x] = filled]
    BY <1>0, <2>1, <2>2 DEF TableOK, Empty
  <2>4. Fills(t, u, x, k)
    BY <1>0, <1>3, <2>1, <2>3 DEF Fills, IsFree, TableOK
  <2>5. TableOK(u)
    BY <1>0, <1>1, <2>1, <2>3 DEF TableOK, IsFree
  <2>6. Walk(u, home)[0] = x /\ 0 \in 0 .. hash_slots
    BY <1>0, <2>1, WalkStep
  <2>7. u[x] = filled
    BY <1>0, <2>1, <2>3 DEF TableOK
  <2>8. Reaches(u, home, x)
    BY <2>6 DEF Reaches
  <2> QED BY <2>4, <2>5, <2>7, <2>8
<1>4. CASE ~IsFree(t, home)
  <2> DEFINE p == Tail(t, home)
  <2>1. PICK n \in 0 .. hash_slots - 1 :
          p = Walk(t, home)[n] /\ Used(t, p) /\ ~Used(t, t[p].next_slot)
    BY <1>0, <1>4, TailLink DEF Used
  <2>2. x = FreeBehind(t, p)
    BY <1>4 DEF NewSlot
  <2>3. x \in Slots /\ IsFree(t, x) /\ t[x] = Empty /\ x # p /\ p \in Slots
    BY <2>1, <2>2, FreeBehindIsFree DEF Used, TableOK
  <2>4. u = [[t EXCEPT ![p].next_slot = x] EXCEPT
               ![x].key = k, ![x].mem_offset = offset, ![x].length = length]
    BY <1>4, <2>2 DEF NewEntry, Linked
  <2>5. u = [[t EXCEPT ![p].next_slot = x] EXCEPT ![x] = filled]
    <3> HIDE DEF x, p
    <3> QED BY <2>3, <2>4 DEF TableOK, Empty
  <2> HIDE DEF x, p
  <2>6. /\ u[x] = filled /\ u[p] = [t[p] EXCEPT !.next_slot = x]
        /\ \A s \in Slots : s # x /\ s # p => u[s] = t[s]
    BY <2>3, <2>5 DEF TableOK
  <2>7. t[p] \in Entry
    BY <2>3 DEF TableOK
  <2>8. /\ u[p].next_slot = x /\ u[p].key = t[p].key
        /\ u[p].mem_offset = t[p].mem_offset /\ u[p].length = t[p].length
        /\ u[p] \in Entry
    BY <2>3, <2>6, <2>7 DEF Entry
  <2>9. Fills(t, u, x, k)
    <3>1. ~IsFree(u, x) /\ u[x].key = k /\ u[x].next_slot = -1
      BY <2>6 DEF IsFree
    <3>2. ASSUME NEW s \in Slots \ {x}
          PROVE  /\ u[s].key = t[s].key /\ u[s].mem_offset = t[s].mem_offset
                 /\ u[s].length = t[s].length
                 /\ \/ u[s].next_slot = t[s].next_slot
                    \/ Used(t, s) /\ u[s].next_slot = x /\ ~Used(t, t[s].next_slot)
      <4>1. CASE s = p
        BY <2>1, <2>8, <4>1
      <4>2. CASE s # p
        BY <2>6, <4>2
      <4> QED BY <4>1, <4>2
    <3> QED BY <2>3, <3>1, <3>2 DEF Fills
  <2>10. TableOK(u)
    <3>1. u \in [Slots -> Entry]
      BY <1>1, <2>3, <2>5, <2>6, <2>8 DEF TableOK
    <3>2. ASSUME NEW s \in Slots
          PROVE  IF IsFree(u, s) THEN u[s] = Empty ELSE u[s].key \in Keys
      <4>1. CASE s = x
        BY <2>6, <4>1 DEF IsFree
      <4>2. CASE s = p
        BY <2>1, <2>3, <2>8, <4>2 DEF IsFree, TableOK, Used
      <4>3. CASE s # x /\ s # p
        BY <2>6, <4>3 DEF IsFree, TableOK
      <4> QED BY <4>1, <4>2, <4>3
    <3> QED BY <3>1, <3>2 DEF TableOK
  <2>11. Walk(u, home)[n + 1] = x /\ n + 1 \in 0 .. hash_slots
    <3>1. n \in 0 .. hash_slots /\ n + 1 \in 0 .. hash_slots /\ n \in 0 .. n
      BY <1>0
    <3>2. Walk(u, home)[n] = p
      BY <1>0, <2>1, <2>9, <3>1, FilledReaches
    <3>3. p # -1 /\ ~IsFree(u, p)
      BY <1>0, <2>1, <2>3, <2>8 DEF Used, IsFree
    <3> QED BY <2>8, <3>1, <3>2, <3>3, WalkStep DEF After
  <2>12. u[x].mem_offset = offset /\ u[x].length = length
    BY <2>6
  <2>13. Reaches(u, home, x)
    BY <2>11 DEF Reaches
  <2> QED BY <2>9, <2>10, <2>12, <2>13 DEF x
<1> QED BY <1>3, <1>4

-----------------------------------------------------------------------------
(* The inductive invariant.                                                *)

Has(k) == Found(kv_mapping_table, k) # -1
Value(k) == kv_mapping_table[Found(kv_mapping_table, k)]
End(k) == Value(k).mem_offset + room[k]

KvTypeOK ==
  /\ TableOK(kv_mapping_table) /\ Acyclic(kv_mapping_table)
  /\ latest \in 0 .. storage_size
  /\ storage \in [0 .. storage_size - 1 -> Keys \cup {Nil}]
  /\ stored \in [Keys -> Nat] /\ room \in [Keys -> Nat]

(* The rooms of the keys that are found lie behind each other.             *)
RoomsApart ==
  /\ \A k \in Keys : Has(k) => End(k) <= latest
  /\ \A j, k \in Keys : j # k /\ Has(j) /\ Has(k) =>
       End(j) <= Value(k).mem_offset \/ End(k) <= Value(j).mem_offset

ValuesKept ==
  \A k \in Keys : stored[k] # 0 /\ k \notin damaged =>
    /\ Has(k) /\ (k \notin kept => Value(k).length = stored[k]) /\ stored[k] <= room[k]
    /\ \A c \in Cells(Value(k).mem_offset, stored[k]) : storage[c] = k

(* What an open iterator has still to return lies in front of it.          *)
OpenHandle == [state : {"open"}, prefix : SUBSET Keys, current_pos : 0 .. hash_slots,
               ended : BOOLEAN, seen : SUBSET Keys, due : SUBSET Keys]

HandleOK(h) ==
  h.state = "open" =>
    /\ h \in OpenHandle /\ h.due \subseteq h.prefix
    /\ h.ended => h.current_pos = hash_slots
    /\ \A k \in h.due \ h.seen :
         \E s \in h.current_pos .. hash_slots - 1 :
           Used(kv_mapping_table, s) /\ kv_mapping_table[s].key = k

HandlesOK == /\ DOMAIN iter_handle = 1 .. nr_handles
             /\ iter_handle = [i \in DOMAIN iter_handle |-> iter_handle[i]]
             /\ \A i \in 1 .. nr_handles : HandleOK(iter_handle[i])

HostInv == KvTypeOK /\ RoomsApart /\ ValuesKept /\ DeletedStaysAway

LEMMA KvInit == ASSUME Init PROVE HostInv /\ HandlesOK
<1>0. hash_slots \in Nat \ {0} /\ storage_size \in Nat
  BY KvAssumption
<1>1. Empty \in Entry
  BY DEF Empty, Entry
<1>2. \A s \in Slots : kv_mapping_table[s] = Empty
  BY DEF Init
<1>3. TableOK(kv_mapping_table)
  BY <1>1, <1>2 DEF Init, TableOK, IsFree, Empty
<1>4. Acyclic(kv_mapping_table)
  <2>1. Descends(kv_mapping_table, [s \in Slots |-> 0])
    BY <1>2 DEF Descends, Empty
  <2> QED BY <2>1 DEF Acyclic
<1>5. \A k \in Keys : Found(kv_mapping_table, k) = -1
  <2> SUFFICES ASSUME NEW k \in Keys, Found(kv_mapping_table, k) # -1 PROVE FALSE
    OBVIOUS
  <2>1. Used(kv_mapping_table, Found(kv_mapping_table, k))
    BY <1>3, FoundSlot
  <2> QED BY <1>2, <2>1 DEF Used, IsFree, Empty
<1>6. KvTypeOK
  BY <1>0, <1>3, <1>4 DEF KvTypeOK, Init
<1>7. RoomsApart /\ ValuesKept /\ DeletedStaysAway
  BY <1>5 DEF RoomsApart, ValuesKept, DeletedStaysAway, Has, Init
<1>8. HandlesOK
  BY DEF HandlesOK, HandleOK, Init
<1> QED BY <1>6, <1>7, <1>8 DEF HostInv

-----------------------------------------------------------------------------
(* Stores.                                                                 *)

LEMMA InsertTable ==
  ASSUME KvTypeOK, NEW k \in Keys, NEW length \in Lengths, Insert(k, length)
  PROVE  /\ TableOK(kv_mapping_table') /\ Acyclic(kv_mapping_table')
         /\ Found(kv_mapping_table', k) # -1
         /\ kv_mapping_table'[Found(kv_mapping_table', k)].mem_offset = latest
         /\ kv_mapping_table'[Found(kv_mapping_table', k)].length = length
         /\ \A j \in Keys \ {k} :
              /\ Found(kv_mapping_table', j) = Found(kv_mapping_table, j)
              /\ Found(kv_mapping_table, j) # -1 =>
                   LET s == Found(kv_mapping_table, j) IN
                   /\ kv_mapping_table'[s].mem_offset = kv_mapping_table[s].mem_offset
                   /\ kv_mapping_table'[s].length = kv_mapping_table[s].length
         /\ \A s \in Slots : Used(kv_mapping_table, s) =>
              Used(kv_mapping_table', s) /\ kv_mapping_table'[s].key = kv_mapping_table[s].key
<1> DEFINE t == kv_mapping_table
           x == NewSlot(t, k)
<1>0. TableOK(t) /\ Acyclic(t) /\ Found(t, k) = -1 /\ length \in Nat /\ latest \in Nat
  BY KvAssumption DEF KvTypeOK, Insert
<1>1. PICK f \in Slots : IsFree(t, f)
  BY DEF Insert
<1>2. kv_mapping_table' = NewEntry(t, k, length, latest)
  BY DEF Insert
<1>3. /\ Fills(t, kv_mapping_table', x, k) /\ TableOK(kv_mapping_table')
      /\ kv_mapping_table'[x].mem_offset = latest /\ kv_mapping_table'[x].length = length
      /\ Reaches(kv_mapping_table', hash[k], x)
  <2> HIDE DEF t
  <2>1. \E i \in Slots : IsFree(t, i)
    BY <1>1
  <2>2. Fills(t, kv_mapping_table', x, k) /\ TableOK(kv_mapping_table')
    BY <1>0, <1>2, <2>1, NewEntryFills
  <2>3. kv_mapping_table'[x].mem_offset = latest /\ kv_mapping_table'[x].length = length
    BY <1>0, <1>2, <2>1, NewEntryFills
  <2>4. Reaches(kv_mapping_table', hash[k], x)
    BY <1>0, <1>2, <2>1, NewEntryFills
  <2> QED BY <2>2, <2>3, <2>4
<1> HIDE DEF x, t
<1>4. Acyclic(kv_mapping_table')
  BY <1>0, <1>3, FilledAcyclic
<1>5. Found(kv_mapping_table', k) = x
  BY <1>0, <1>3, FilledFound
<1>6. x \in Slots /\ x # -1
  BY <1>3 DEF Fills, Slots
<1>7. \A j \in Keys \ {k} : /\ Found(kv_mapping_table', j) = Found(t, j)
                            /\ Found(t, j) # -1 => Found(t, j) \in Slots \ {x}
  <2> SUFFICES ASSUME NEW j \in Keys \ {k}
               PROVE  /\ Found(kv_mapping_table', j) = Found(t, j)
                      /\ Found(t, j) # -1 => Found(t, j) \in Slots \ {x}
    OBVIOUS
  <2>1. Found(kv_mapping_table', j) = Found(t, j) /\ (Found(t, j) # -1 => Found(t, j) # x)
    BY <1>0, <1>3, FilledOthers
  <2>2. Found(t, j) # -1 => Found(t, j) \in Slots
    BY <1>0, FoundSlot DEF Used
  <2> QED BY <2>1, <2>2
<1>8. \A s \in Slots \ {x} :
        /\ kv_mapping_table'[s].mem_offset = t[s].mem_offset
        /\ kv_mapping_table'[s].length = t[s].length
        /\ kv_mapping_table'[s].key = t[s].key
  BY <1>3 DEF Fills
<1>9. \A s \in Slots : Used(t, s) =>
        Used(kv_mapping_table', s) /\ kv_mapping_table'[s].key = t[s].key
  <2>1. IsFree(t, x)
    BY <1>3 DEF Fills
  <2> QED BY <1>8, <2>1 DEF Used, IsFree
<1> QED BY <1>3, <1>4, <1>5, <1>6, <1>7, <1>8, <1>9 DEF t

(* The value of a key that is found.                                       *)
LEMMA ValueType ==
  ASSUME KvTypeOK, NEW k \in Keys, Has(k)
  PROVE  Value(k).mem_offset \in Nat /\ room[k] \in Nat /\ End(k) \in Nat
<1>1. Used(kv_mapping_table, Found(kv_mapping_table, k))
  BY FoundSlot DEF KvTypeOK, Has
<1>2. kv_mapping_table[Found(kv_mapping_table, k)] \in Entry
  BY <1>1 DEF KvTypeOK, TableOK, Used
<1>3. Value(k).mem_offset \in Nat /\ room[k] \in Nat
  BY <1>1, <1>2 DEF Value, Entry, Used, IsFree, KvTypeOK
<1> QED BY <1>3 DEF End

(* What storing in the cells of k keeps of the value of j.                 *)
LEMMA CopiedElsewhere ==
  ASSUME KvTypeOK, NEW k \in Keys, NEW offset \in Nat, NEW length \in Nat,
         Copied(k, offset, length), NEW j \in Keys, j # k,
         NEW o \in Nat, NEW l \in Nat, o + l <= storage_size,
         Cells(o, l) \cap Cells(offset, length) = {}, \A c \in Cells(o, l) : storage[c] = j
  PROVE  \A c \in Cells(o, l) : storage'[c] = j
<1> SUFFICES ASSUME NEW c \in Cells(o, l) PROVE storage'[c] = j
  OBVIOUS
<1>1. c \in 0 .. storage_size - 1
  BY KvAssumption DEF Cells
<1>2. c \in DOMAIN storage /\ c \notin Cells(offset, length) /\ storage[c] = j
  BY <1>1 DEF KvTypeOK
<1> QED BY <1>2 DEF Copied

LEMMA CellsApart ==
  ASSUME NEW o \in Nat, NEW l \in Nat, NEW p \in Nat, NEW m \in Nat,
         o + l <= p \/ p + m <= o
  PROVE  Cells(o, l) \cap Cells(p, m) = {}
<1>1. ASSUME NEW c \in Cells(o, l), c \in Cells(p, m) PROVE FALSE
  BY <1>1 DEF Cells
<1> QED BY <1>1

LEMMA CopiedHere ==
  ASSUME KvTypeOK, NEW k \in Keys, NEW offset \in Nat, NEW length \in Nat,
         Copied(k, offset, length), offset + length <= storage_size
  PROVE  /\ \A c \in Cells(offset, length) : storage'[c] = k
         /\ storage' \in [0 .. storage_size - 1 -> Keys \cup {Nil}]
<1>1. DOMAIN storage = 0 .. storage_size - 1
  BY DEF KvTypeOK
<1>2. \A c \in Cells(offset, length) : c \in 0 .. storage_size - 1
  BY KvAssumption DEF Cells
<1>3. storage' = [c \in 0 .. storage_size - 1 |->
                    IF c \in Cells(offset, length) THEN k
                    ELSE IF storage[c] = k THEN Nil ELSE storage[c]]
  BY <1>1 DEF Copied
<1>4. \A c \in 0 .. storage_size - 1 : storage[c] \in Keys \cup {Nil}
  BY DEF KvTypeOK
<1> QED BY <1>2, <1>3, <1>4

(* Iterators are not disturbed as long as used slots stay with their keys. *)
LEMMA HandlesKept ==
  ASSUME HandlesOK, iter_handle' = iter_handle, KvTypeOK,
         \A s \in Slots : Used(kv_mapping_table, s) =>
           Used(kv_mapping_table', s) /\ kv_mapping_table'[s].key = kv_mapping_table[s].key
  PROVE  HandlesOK'
<1> SUFFICES ASSUME NEW i \in 1 .. nr_handles, HandleOK(iter_handle[i])
             PROVE  HandleOK(iter_handle[i])'
  BY DEF HandlesOK
<1>1. \A s : Used(kv_mapping_table, s) => s \in Slots
  BY DEF Used
<1> QED BY <1>1 DEF HandleOK

LEMMA InsertKeeps ==
  ASSUME HostInv, HandlesOK, NEW k \in Keys, NEW length \in Lengths, Insert(k, length)
  PROVE  HostInv' /\ HandlesOK'
<1> DEFINE t == kv_mapping_table
           F(j) == Found(kv_mapping_table', j)
<1>0. KvTypeOK /\ length \in Nat /\ latest \in Nat /\ storage_size \in Nat /\ length # 0
  BY KvAssumption DEF HostInv, KvTypeOK
<1>1. /\ TableOK(kv_mapping_table') /\ Acyclic(kv_mapping_table')
      /\ F(k) # -1
      /\ kv_mapping_table'[F(k)].mem_offset = latest /\ kv_mapping_table'[F(k)].length = length
      /\ \A j \in Keys \ {k} :
           /\ F(j) = Found(t, j)
           /\ Found(t, j) # -1 =>
                LET s == Found(t, j) IN
                /\ kv_mapping_table'[s].mem_offset = t[s].mem_offset
                /\ kv_mapping_table'[s].length = t[s].length
      /\ \A s \in Slots : Used(t, s) =>
              Used(kv_mapping_table', s) /\ kv_mapping_table'[s].key = t[s].key
  BY <1>0, InsertTable
<1>2. /\ latest' = latest + length /\ latest + length <= storage_size
      /\ stored' = [stored EXCEPT ![k] = length] /\ room' = [room EXCEPT ![k] = length]
      /\ kept' = kept \ {k} /\ damaged' = damaged \ {k} /\ iter_handle' = iter_handle
      /\ Copied(k, latest, length)
  BY DEF Insert, Allocated
<1>3. /\ \A c \in Cells(latest, length) : storage'[c] = k
      /\ storage' \in [0 .. storage_size - 1 -> Keys \cup {Nil}]
  BY <1>0, <1>2, CopiedHere
<1>4. KvTypeOK'
  BY <1>0, <1>1, <1>2, <1>3 DEF KvTypeOK
<1>5. /\ stored'[k] = length /\ room'[k] = length
      /\ \A j \in Keys \ {k} : stored'[j] = stored[j] /\ room'[j] = room[j]
  BY <1>0, <1>2 DEF KvTypeOK
<1>6. Has(k)' /\ Value(k)'.mem_offset = latest /\ Value(k)'.length = length /\ End(k)' = latest'
  BY <1>1, <1>2, <1>5 DEF Has, Value, End
<1>7. ASSUME NEW j \in Keys, j # k
      PROVE  /\ Has(j)' <=> Has(j)
             /\ Has(j) => /\ Value(j)'.mem_offset = Value(j).mem_offset
                          /\ Value(j)'.length = Value(j).length /\ End(j)' = End(j)
                          /\ Value(j).mem_offset \in Nat /\ End(j) \in Nat /\ End(j) <= latest
                          /\ Value(j).mem_offset + room[j] = End(j) /\ room[j] \in Nat
  <2>1. Has(j)' <=> Has(j)
    BY <1>1, <1>7 DEF Has
  <2>2. Has(j) => /\ Value(j)'.mem_offset = Value(j).mem_offset
                  /\ Value(j)'.length = Value(j).length
    BY <1>1, <1>7 DEF Has, Value
  <2>3. Has(j) => End(j)' = End(j)
    BY <1>5, <1>7, <2>2 DEF End
  <2>4. Has(j) => Value(j).mem_offset \in Nat /\ End(j) \in Nat /\ room[j] \in Nat
    BY <1>0, ValueType
  <2>5. Has(j) => End(j) <= latest
    BY DEF HostInv, RoomsApart
  <2> QED BY <2>1, <2>2, <2>3, <2>4, <2>5 DEF End
<1> HIDE DEF t, F
<1>8. RoomsApart'
  <2>1. ASSUME NEW j \in Keys, Has(j)' PROVE End(j)' <= latest'
    BY <1>0, <1>2, <1>6, <1>7, <2>1
  <2>2. ASSUME NEW j \in Keys, NEW i \in Keys, j # i, Has(j)', Has(i)'
        PROVE  End(j)' <= Value(i)'.mem_offset \/ End(i)' <= Value(j)'.mem_offset
    <3>1. CASE i = k
      BY <1>6, <1>7, <2>2, <3>1
    <3>2. CASE j = k
      BY <1>6, <1>7, <2>2, <3>2
    <3>3. CASE i # k /\ j # k
      <4>1. End(j) <= Value(i).mem_offset \/ End(i) <= Value(j).mem_offset
        BY <1>7, <2>2, <3>3 DEF HostInv, RoomsApart
      <4> QED BY <1>7, <2>2, <3>3, <4>1
    <3> QED BY <3>1, <3>2, <3>3
  <2> QED BY <2>1, <2>2 DEF RoomsApart
<1>9. ValuesKept'
  <2> SUFFICES ASSUME NEW j \in Keys, stored'[j] # 0, j \notin damaged'
               PROVE  /\ Has(j)' /\ stored'[j] <= room'[j]
                      /\ j \notin kept' => Value(j)'.length = stored'[j]
                      /\ \A c \in Cells(Value(j)'.mem_offset, stored'[j]) : storage'[c] = j
    BY DEF ValuesKept
  <2>1. CASE j = k
    BY <1>0, <1>3, <1>5, <1>6, <2>1
  <2>2. CASE j # k
    <3>1. stored'[j] = stored[j] /\ room'[j] = room[j] /\ stored[j] # 0 /\ j \notin damaged
      BY <1>2, <1>5, <2>2
    <3>2. /\ Has(j) /\ (j \notin kept => Value(j).length = stored[j]) /\ stored[j] <= room[j]
          /\ \A c \in Cells(Value(j).mem_offset, stored[j]) : storage[c] = j
      BY <3>1 DEF HostInv, ValuesKept
    <3>3. stored[j] \in Nat
      BY <1>0 DEF KvTypeOK
    <3>4. /\ Value(j).mem_offset + stored[j] <= latest
          /\ Value(j).mem_offset + stored[j] <= storage_size
      BY <1>0, <1>2, <1>7, <2>2, <3>2, <3>3
    <3>5. Cells(Value(j).mem_offset, stored[j]) \cap Cells(latest, length) = {}
      BY <1>0, <1>7, <2>2, <3>2, <3>3, <3>4 DEF Cells
    <3>6. \A c \in Cells(Value(j).mem_offset, stored[j]) : storage'[c] = j
      BY <1>0, <1>2, <1>7, <2>2, <3>2, <3>3, <3>4, <3>5, CopiedElsewhere
    <3> QED BY <1>2, <1>7, <2>2, <3>1, <3>2, <3>6
  <2> QED BY <2>1, <2>2
<1>10. DeletedStaysAway'
  <2> SUFFICES ASSUME NEW j \in Keys, stored'[j] = 0 PROVE Found(kv_mapping_table', j) = -1
    BY DEF DeletedStaysAway
  <2>1. j # k /\ stored[j] = 0
    BY <1>0, <1>5
  <2>2. ~Has(j)
    BY <2>1 DEF HostInv, DeletedStaysAway, Has
  <2> QED BY <1>7, <2>1, <2>2 DEF Has
<1>11. HandlesOK'
  BY <1>0, <1>1, <1>2, HandlesKept DEF t
<1> QED BY <1>4, <1>8, <1>9, <1>10, <1>11 DEF HostInv

LEMMA OverwriteTable ==
  ASSUME KvTypeOK, NEW k \in Keys, NEW length \in Lengths, NEW batched \in BOOLEAN,
         Overwrite(k, length, batched)
  PROVE  /\ TableOK(kv_mapping_table') /\ Acyclic(kv_mapping_table') /\ Has(k)
         /\ \A j \in Keys :
              /\ Found(kv_mapping_table', j) = Found(kv_mapping_table, j)
              /\ Found(kv_mapping_table, j) # -1 =>
                   LET s == Found(kv_mapping_table, j) IN
                   /\ kv_mapping_table'[s].mem_offset = kv_mapping_table[s].mem_offset
                   /\ kv_mapping_table'[s].length =
                        IF j = k THEN LengthAfter(Value(k), length, batched)
                        ELSE kv_mapping_table[s].length
         /\ \A s \in Slots : Used(kv_mapping_table, s) =>
              Used(kv_mapping_table', s) /\ kv_mapping_table'[s].key = kv_mapping_table[s].key
<1> DEFINE t == kv_mapping_table
           x == Found(t, k)
           l == LengthAfter(t[x], length, batched)
<1>0. TableOK(t) /\ Acyclic(t) /\ length \in Nat /\ x # -1
  BY KvAssumption DEF KvTypeOK, Overwrite
<1>1. Used(t, x) /\ t[x].key = k /\ x \in Slots
  BY <1>0, FoundSlot DEF Used
<1>2. kv_mapping_table' = [t EXCEPT ![x].length = l]
  BY <1>0, <1>1 DEF Overwrite, TableOK
<1> HIDE DEF x, l
<1>3. t \in [Slots -> Entry]
  BY <1>0 DEF TableOK
<1>4. t[x] \in Entry /\ l \in Nat \cup {-1}
  BY <1>0, <1>1, <1>3 DEF Entry, l, LengthAfter
<1>5. /\ kv_mapping_table'[x] = [t[x] EXCEPT !.length = l]
      /\ \A s \in Slots : s # x => kv_mapping_table'[s] = t[s]
  BY <1>1, <1>2, <1>3
<1>6. /\ kv_mapping_table'[x].key = t[x].key
      /\ kv_mapping_table'[x].mem_offset = t[x].mem_offset
      /\ kv_mapping_table'[x].next_slot = t[x].next_slot
      /\ kv_mapping_table'[x].length = l
      /\ kv_mapping_table'[x] \in Entry
  BY <1>4, <1>5 DEF Entry
<1>7. \A s \in Slots : /\ kv_mapping_table'[s].key = t[s].key
                       /\ kv_mapping_table'[s].mem_offset = t[s].mem_offset
                       /\ kv_mapping_table'[s].next_slot = t[s].next_slot
  BY <1>5, <1>6
<1>8. TableOK(kv_mapping_table')
  <2>1. kv_mapping_table' \in [Slots -> Entry]
    BY <1>2, <1>3, <1>5, <1>6
  <2>2. ASSUME NEW s \in Slots
        PROVE  IF IsFree(kv_mapping_table', s) THEN kv_mapping_table'[s] = Empty
               ELSE kv_mapping_table'[s].key \in Keys
    <3>1. CASE s = x
      BY <1>1, <1>6, <3>1 DEF Used, IsFree
    <3>2. CASE s # x
      BY <1>0, <1>5, <3>2 DEF TableOK, IsFree
    <3> QED BY <3>1, <3>2
  <2> QED BY <2>1, <2>2 DEF TableOK
<1>9. Acyclic(kv_mapping_table')
  BY <1>0, <1>7 DEF Acyclic, Descends
<1>10. ASSUME NEW j \in Keys
       PROVE  /\ Found(kv_mapping_table', j) = Found(t, j)
              /\ Found(t, j) # -1 => /\ Found(t, j) \in Slots
                                     /\ j # k => Found(t, j) # x
  <2>1. Found(kv_mapping_table', j) = Found(t, j)
    BY <1>0, <1>7, UpdateFound
  <2>2. Found(t, j) # -1 => Used(t, Found(t, j)) /\ t[Found(t, j)].key = j
    BY <1>0, FoundSlot
  <2> QED BY <1>1, <2>1, <2>2 DEF Used
<1>11. ASSUME NEW j \in Keys, Found(t, j) # -1
       PROVE  /\ kv_mapping_table'[Found(t, j)].mem_offset = t[Found(t, j)].mem_offset
              /\ kv_mapping_table'[Found(t, j)].length =
                   IF j = k THEN LengthAfter(Value(k), length, batched)
                   ELSE t[Found(t, j)].length
  <2>1. CASE j = k
    BY <1>6, <2>1 DEF x, l, Value
  <2>2. CASE j # k
    BY <1>5, <1>10, <1>11, <2>2
  <2> QED BY <2>1, <2>2
<1>12. \A s \in Slots : Used(t, s) =>
         Used(kv_mapping_table', s) /\ kv_mapping_table'[s].key = t[s].key
  BY <1>7 DEF Used, IsFree
<1> QED BY <1>0, <1>8, <1>9, <1>10, <1>11, <1>12 DEF Has, x

LEMMA OverwriteKeeps ==
  ASSUME HostInv, HandlesOK, NEW k \in Keys, NEW length \in Lengths, NEW batched \in BOOLEAN,
         Overwrite(k, length, batched)
  PROVE  HostInv' /\ HandlesOK'
<1> DEFINE t == kv_mapping_table
           F(j) == Found(kv_mapping_table', j)
<1>0. KvTypeOK /\ length \in Nat /\ latest \in Nat /\ storage_size \in Nat /\ length # 0
      /\ Has(k)
  BY KvAssumption DEF HostInv, KvTypeOK, Overwrite, Has
<1>1. /\ TableOK(kv_mapping_table') /\ Acyclic(kv_mapping_table')
      /\ \A j \in Keys :
           /\ F(j) = Found(t, j)
           /\ Found(t, j) # -1 =>
                LET s == Found(t, j) IN
                /\ kv_mapping_table'[s].mem_offset = t[s].mem_offset
                /\ kv_mapping_table'[s].length = IF j = k THEN LengthAfter(Value(k), length, batched)
                                                 ELSE t[s].length
      /\ \A s \in Slots : Used(t, s) =>
              Used(kv_mapping_table', s) /\ kv_mapping_table'[s].key = t[s].key
  BY <1>0, OverwriteTable
<1>2. /\ latest' = latest /\ room' = room /\ iter_handle' = iter_handle
      /\ stored' = [stored EXCEPT ![k] = length]
      /\ kept' = IF LengthAfter(Value(k), length, batched) = length THEN kept \ {k}
                 ELSE kept \cup {k}
      /\ damaged' = damaged \cup SpilledOn(k, Value(k).mem_offset, length)
      /\ Copied(k, Value(k).mem_offset, length)
      /\ Value(k).mem_offset + length <= storage_size
  BY DEF Overwrite, Value
<1>3. /\ Value(k).mem_offset \in Nat
      /\ \A c \in Cells(Value(k).mem_offset, length) : storage'[c] = k
      /\ storage' \in [0 .. storage_size - 1 -> Keys \cup {Nil}]
  BY <1>0, <1>2, ValueType, CopiedHere
<1>4. KvTypeOK'
  BY <1>0, <1>1, <1>2, <1>3 DEF KvTypeOK
<1>5. stored'[k] = length /\ \A j \in Keys \ {k} : stored'[j] = stored[j]
  BY <1>0, <1>2 DEF KvTypeOK
<1>6. ASSUME NEW j \in Keys
      PROVE  /\ Has(j)' <=> Has(j)
             /\ Has(j) => /\ Value(j)'.mem_offset = Value(j).mem_offset /\ End(j)' = End(j)
                          /\ Value(j)'.length = IF j = k THEN LengthAfter(Value(k), length, batched)
                                                ELSE Value(j).length
                          /\ Value(j).mem_offset \in Nat /\ End(j) \in Nat /\ End(j) <= latest
                          /\ Value(j).mem_offset + room[j] = End(j) /\ room[j] \in Nat
  <2>1. Has(j)' <=> Has(j)
    BY <1>1 DEF Has
  <2>2. Has(j) => /\ Value(j)'.mem_offset = Value(j).mem_offset
                  /\ Value(j)'.length = IF j = k THEN LengthAfter(Value(k), length, batched)
                                        ELSE Value(j).length
    BY <1>1 DEF Has, Value
  <2>3. Has(j) => End(j)' = End(j)
    BY <1>2, <2>2 DEF End
  <2>4. Has(j) => Value(j).mem_offset \in Nat /\ End(j) \in Nat /\ room[j] \in Nat
    BY <1>0, ValueType
  <2>5. Has(j) => End(j) <= latest
    BY DEF HostInv, RoomsApart
  <2> QED BY <2>1, <2>2, <2>3, <2>4, <2>5 DEF End
<1> HIDE DEF t, F
<1>7. RoomsApart'
  BY <1>2, <1>6 DEF HostInv, RoomsApart
<1>8. k \notin damaged' => length <= room[k]
  BY <1>2 DEF SpilledOn
<1>9. ValuesKept'
  <2> SUFFICES ASSUME NEW j \in Keys, stored'[j] # 0, j \notin damaged'
               PROVE  /\ Has(j)' /\ stored'[j] <= room'[j]
                      /\ j \notin kept' => Value(j)'.length = stored'[j]
                      /\ \A c \in Cells(Value(j)'.mem_offset, stored'[j]) : storage'[c] = j
    BY DEF ValuesKept
  <2>1. CASE j = k
    BY <1>0, <1>2, <1>3, <1>5, <1>6, <1>8, <2>1
  <2>2. CASE j # k
    <3>1. stored'[j] = stored[j] /\ room'[j] = room[j] /\ stored[j] # 0 /\ j \notin damaged
      BY <1>2, <1>5, <2>2
    <3>2. /\ Has(j) /\ (j \notin kept => Value(j).length = stored[j]) /\ stored[j] <= room[j]
          /\ \A c \in Cells(Value(j).mem_offset, stored[j]) : storage[c] = j
      BY <3>1 DEF HostInv, ValuesKept
    <3>3. stored[j] \in Nat
      BY <1>0 DEF KvTypeOK
    <3>4. Value(j).mem_offset + stored[j] <= storage_size
      BY <1>0, <1>6, <3>2, <3>3 DEF KvTypeOK
    <3>5. Value(j).mem_offset \in Nat
      BY <1>6, <3>2
    <3>6. Cells(Value(j).mem_offset, stored[j]) \cap Cells(Value(k).mem_offset, length) = {}
      <4>1. CASE length <= room[k]
        <5>1. End(j) <= Value(k).mem_offset \/ End(k) <= Value(j).mem_offset
          BY <1>0, <2>2, <3>2 DEF HostInv, RoomsApart
        <5>2. \/ Value(j).mem_offset + stored[j] <= Value(k).mem_offset
              \/ Value(k).mem_offset + length <= Value(j).mem_offset
          BY <1>0, <1>6, <3>2, <3>3, <4>1, <5>1
        <5> QED BY <1>0, <1>3, <3>3, <3>5, <5>2, CellsApart
      <4>2. CASE ~(length <= room[k])
        <5>1. j \notin SpilledOn(k, Value(k).mem_offset, length)
          BY <1>2
        <5> QED BY <2>2, <3>2, <4>2, <5>1 DEF SpilledOn, Has, Value
      <4> QED BY <4>1, <4>2
    <3>7. \A c \in Cells(Value(j).mem_offset, stored[j]) : storage'[c] = j
      BY <1>0, <1>2, <1>3, <2>2, <3>2, <3>3, <3>4, <3>6, <3>5, CopiedElsewhere
    <3>8. j \notin kept' => j \notin kept
      BY <1>2, <2>2
    <3> QED BY <1>6, <2>2, <3>1, <3>2, <3>7, <3>8
  <2> QED BY <2>1, <2>2
<1>10. DeletedStaysAway'
  <2> SUFFICES ASSUME NEW j \in Keys, stored'[j] = 0 PROVE Found(kv_mapping_table', j) = -1
    BY DEF DeletedStaysAway
  <2>1. j # k /\ stored[j] = 0
    BY <1>0, <1>5
  <2>2. ~Has(j)
    BY <2>1 DEF HostInv, DeletedStaysAway, Has
  <2> QED BY <1>6, <2>2 DEF Has
<1>11. HandlesOK'
  BY <1>0, <1>1, <1>2, HandlesKept DEF t
<1> QED BY <1>4, <1>7, <1>9, <1>10, <1>11 DEF HostInv

-----------------------------------------------------------------------------
(* Deletes.                                                                *)

LEMMA DeleteKeeps ==
  ASSUME HostInv, NEW k \in Keys, Delete(k)
  PROVE  HostInv'
<1> DEFINE t == kv_mapping_table
           x == Found(t, k)
           F(j) == Found(kv_mapping_table', j)
<1>0. KvTypeOK /\ TableOK(t) /\ Acyclic(t) /\ Has(k)
  BY DEF HostInv, KvTypeOK, Delete, Has
<1>1. /\ kv_mapping_table' = Emptied(t, x) /\ latest' = latest /\ storage' = storage
      /\ stored' = [stored EXCEPT ![k] = 0] /\ room' = [room EXCEPT ![k] = 0]
      /\ kept' = kept \ {k}
      /\ damaged' = (damaged \ {k}) \cup
           {j \in Keys \ {k} : stored[j] # 0 /\ x \in Chain(t, hash[j]) /\ Found(t, j) \in Chain(t, x)}
  BY DEF Delete
<1>2. Used(t, x) /\ t[x].key = k /\ x \in Slots
  BY <1>0, FoundSlot DEF Has, Used
<1>3. TableOK(kv_mapping_table') /\ Acyclic(kv_mapping_table') /\ F(k) = -1
  <2>1. TableOK(Emptied(t, x)) /\ Acyclic(Emptied(t, x))
    BY <1>0, <1>2, EmptiedOK
  <2>2. Found(Emptied(t, x), k) = -1
    BY <1>0, EmptiedGone DEF Has
  <2> QED BY <1>1, <2>1, <2>2
<1>4. /\ stored'[k] = 0 /\ room'[k] = 0
      /\ \A j \in Keys \ {k} : stored'[j] = stored[j] /\ room'[j] = room[j]
  BY <1>0, <1>1 DEF KvTypeOK
<1>5. KvTypeOK'
  <2>1. TableOK(kv_mapping_table') /\ Acyclic(kv_mapping_table')
    BY <1>3
  <2>2. latest' \in 0 .. storage_size /\ storage' \in [0 .. storage_size - 1 -> Keys \cup {Nil}]
    BY <1>0, <1>1 DEF KvTypeOK
  <2>3. stored' \in [Keys -> Nat] /\ room' \in [Keys -> Nat]
    BY <1>0, <1>1 DEF KvTypeOK
  <2> QED BY <2>1, <2>2, <2>3 DEF KvTypeOK
<1>6. ASSUME NEW j \in Keys, Has(j)'
      PROVE  /\ j # k /\ Has(j) /\ Value(j)' = Value(j) /\ End(j)' = End(j)
  <2>1. F(j) # -1 /\ j # k
    BY <1>3, <1>6 DEF Has
  <2>2. F(j) = Found(t, j) /\ Found(t, j) # x
    BY <1>0, <1>1, <1>2, <2>1, EmptiedFound
  <2>3. Found(t, j) \in Slots
    BY <1>0, <2>1, <2>2, FoundSlot DEF Used
  <2>4. kv_mapping_table'[Found(t, j)] = t[Found(t, j)]
    BY <1>0, <1>1, <2>2, <2>3 DEF Emptied, TableOK
  <2> QED BY <1>4, <2>1, <2>2, <2>4 DEF Has, Value, End
<1>7. RoomsApart'
  <2>1. ASSUME NEW j \in Keys, Has(j)' PROVE End(j)' <= latest'
    BY <1>1, <1>6, <2>1 DEF HostInv, RoomsApart
  <2>2. ASSUME NEW j \in Keys, NEW i \in Keys, j # i, Has(j)', Has(i)'
        PROVE  End(j)' <= Value(i)'.mem_offset \/ End(i)' <= Value(j)'.mem_offset
    BY <1>6, <2>2 DEF HostInv, RoomsApart
  <2> QED BY <2>1, <2>2 DEF RoomsApart
<1>8. ValuesKept'
  <2> SUFFICES ASSUME NEW j \in Keys, stored'[j] # 0, j \notin damaged'
               PROVE  /\ Has(j)' /\ stored'[j] <= room'[j]
                      /\ j \notin kept' => Value(j)'.length = stored'[j]
                      /\ \A c \in Cells(Value(j)'.mem_offset, stored'[j]) : storage'[c] = j
    BY DEF ValuesKept
  <2>1. /\ j # k /\ stored'[j] = stored[j] /\ room'[j] = room[j] /\ j \notin damaged
        /\ j \notin kept' => j \notin kept
    BY <1>1, <1>4
  <2>2. /\ Has(j) /\ (j \notin kept => Value(j).length = stored[j]) /\ stored[j] <= room[j]
        /\ \A c \in Cells(Value(j).mem_offset, stored[j]) : storage[c] = j
    BY <2>1 DEF HostInv, ValuesKept
  <2>3. Found(t, j) # -1 /\ Found(t, j) # x
    BY <1>0, <1>2, <2>1, <2>2, FoundSlot DEF Has
  <2>4. ~(x \in Chain(t, hash[j]) /\ Found(t, j) \in Chain(t, x))
    BY <1>1, <2>1
  <2>5. Found(Emptied(t, x), j) = Found(t, j)
    BY <1>0, <1>2, <2>3, <2>4, EmptiedStays
  <2>6. Has(j)'
    BY <1>1, <2>3, <2>5 DEF Has
  <2> QED BY <1>1, <1>6, <2>1, <2>2, <2>6
<1>9. DeletedStaysAway'
  <2> SUFFICES ASSUME NEW j \in Keys, stored'[j] = 0 PROVE ~Has(j)'
    BY DEF DeletedStaysAway, Has
  <2>1. CASE j = k
    BY <1>6, <2>1
  <2>2. CASE j # k
    BY <1>4, <1>6, <2>2 DEF HostInv, DeletedStaysAway, Has
  <2> QED BY <2>1, <2>2
<1> QED BY <1>5, <1>7, <1>8, <1>9 DEF HostInv

LEMMA DeleteHandles ==
  ASSUME KvTypeOK, HandlesOK, NEW k \in Keys, Delete(k)
  PROVE  HandlesOK'
<1> DEFINE t == kv_mapping_table
           x == Found(t, k)
<1>1. iter_handle' = [i \in 1 .. nr_handles |->
        IF iter_handle[i].state = "open" THEN [iter_handle[i] EXCEPT !.due = @ \ {k}]
        ELSE iter_handle[i]]
  BY DEF Delete
<1>2. t[x].key = k /\ \A s \in Slots : s # x => kv_mapping_table'[s] = t[s]
  BY FoundSlot DEF Delete, Emptied, KvTypeOK, TableOK
<1>3. \A s \in Slots : Used(t, s) /\ s # x =>
        Used(kv_mapping_table', s) /\ kv_mapping_table'[s].key = t[s].key
  BY <1>2 DEF Used, IsFree
<1> HIDE DEF t, x
<1>4. ASSUME NEW i \in 1 .. nr_handles PROVE HandleOK(iter_handle[i])'
  <2> DEFINE h == iter_handle[i]
             g == [h EXCEPT !.due = @ \ {k}]
  <2>1. CASE h.state # "open"
    <3>1. iter_handle'[i] = h
      BY <1>1, <2>1
    <3> QED BY <2>1, <3>1 DEF HandleOK
  <2>2. CASE h.state = "open"
    <3>1. iter_handle'[i] = g
      BY <1>1, <2>2
    <3>2. HandleOK(h)
      BY DEF HandlesOK
    <3> HIDE DEF h
    <3>3. h \in OpenHandle
      BY <2>2, <3>2 DEF HandleOK
    <3>4. /\ g \in OpenHandle /\ g.due = h.due \ {k} /\ g.seen = h.seen /\ g.prefix = h.prefix
          /\ g.current_pos = h.current_pos /\ g.ended = h.ended
      BY <3>3 DEF OpenHandle
    <3>5. g.due \subseteq g.prefix /\ (g.ended => g.current_pos = hash_slots)
      BY <2>2, <3>2, <3>4 DEF HandleOK
    <3>6. ASSUME NEW j \in g.due \ g.seen
          PROVE  \E s \in g.current_pos .. hash_slots - 1 :
                   Used(kv_mapping_table', s) /\ kv_mapping_table'[s].key = j
      <4>1. j \in h.due \ h.seen /\ j # k
        BY <3>4, <3>6
      <4>2. PICK s \in h.current_pos .. hash_slots - 1 : Used(t, s) /\ t[s].key = j
        BY <2>2, <3>2, <4>1 DEF HandleOK, t
      <4>3. s # x /\ s \in Slots
        BY <1>2, <4>1, <4>2 DEF Used
      <4>4. Used(kv_mapping_table', s) /\ kv_mapping_table'[s].key = j
        BY <1>3, <4>2, <4>3
      <4> HIDE DEF g
      <4> QED BY <3>4, <4>2, <4>4
    <3> HIDE DEF g
    <3> QED BY <3>1, <3>4, <3>5, <3>6 DEF HandleOK
  <2> QED BY <2>1, <2>2
<1>5. DOMAIN iter_handle' = 1 .. nr_handles
      /\ iter_handle' = [i \in 1 .. nr_handles |-> iter_handle'[i]]
  BY <1>1
<1> QED BY <1>4, <1>5 DEF HandlesOK

-----------------------------------------------------------------------------
(* Iterators.  Each operation changes one handle.                          *)

LEMMA OneHandle ==
  ASSUME HandlesOK, NEW i \in 1 .. nr_handles, NEW g, HandleOK(g),
         iter_handle' = [iter_handle EXCEPT ![i] = g],
         kv_mapping_table' = kv_mapping_table
  PROVE  HandlesOK'
<1>1. /\ DOMAIN iter_handle' = 1 .. nr_handles
      /\ iter_handle' = [j \in 1 .. nr_handles |-> iter_handle'[j]]
  BY DEF HandlesOK
<1>2. ASSUME NEW j \in 1 .. nr_handles PROVE HandleOK(iter_handle[j])'
  <2>1. iter_handle'[j] = g \/ iter_handle'[j] = iter_handle[j]
    BY DEF HandlesOK
  <2>2. HandleOK(iter_handle[j])
    BY DEF HandlesOK
  <2> QED BY <2>1, <2>2 DEF HandleOK
<1> QED BY <1>1, <1>2 DEF HandlesOK

LEMMA OpenKeeps ==
  ASSUME KvTypeOK, HandlesOK, NEW prefix \in Prefixes, IterOpen(prefix)
  PROVE  HandlesOK'
<1> DEFINE t == kv_mapping_table
           found == {k \in prefix : Found(t, k) # -1}
           g == [state |-> "open", prefix |-> prefix, current_pos |-> 0, ended |-> FALSE,
                 seen |-> {}, due |-> found]
           Unused == {i \in 1 .. nr_handles : iter_handle[i].state = "null"}
           first == CHOOSE i \in Unused : \A j \in Unused : i <= j
<1>0. prefix \subseteq Keys /\ hash_slots \in Nat \ {0}
  BY KvAssumption
<1>1. /\ Unused # {} /\ iter_handle' = [iter_handle EXCEPT ![first] = g]
      /\ kv_mapping_table' = t
  BY DEF IterOpen, tableVars
<1>2. first \in 1 .. nr_handles
  <2>1. Unused \subseteq Nat
    OBVIOUS
  <2>2. first \in Unused
    <3> HIDE DEF Unused
    <3> QED BY <1>1, <2>1, LeastNat
  <2> HIDE DEF first
  <2> QED BY <2>2
<1>3. g \in OpenHandle /\ g.due \subseteq g.prefix /\ ~g.ended
  BY <1>0 DEF OpenHandle
<1>4. ASSUME NEW k \in found
      PROVE  \E s \in 0 .. hash_slots - 1 : Used(t, s) /\ t[s].key = k
  <2>1. Used(t, Found(t, k)) /\ t[Found(t, k)].key = k
    BY <1>0, FoundSlot DEF KvTypeOK
  <2> QED BY <2>1 DEF Used, Slots
<1>5. HandleOK(g)
  <2>1. g.due = found /\ g.seen = {} /\ g.current_pos = 0
    OBVIOUS
  <2> HIDE DEF g, found
  <2> QED BY <1>3, <1>4, <2>1 DEF HandleOK
<1> HIDE DEF first, g
<1> QED BY <1>1, <1>2, <1>5, OneHandle

LEMMA CloseKeeps ==
  ASSUME HandlesOK, NEW i \in 1 .. nr_handles, IterClose(i)
  PROVE  HandlesOK'
<1>1. HandleOK([state |-> "null"])
  BY DEF HandleOK
<1> QED BY <1>1, OneHandle DEF IterClose, tableVars

(* A read goes to the first slot whose key it could not return.            *)
LEMMA ReadKeeps ==
  ASSUME KvTypeOK, HandlesOK, NEW i \in 1 .. nr_handles, IterRead(i)
  PROVE  HandlesOK'
<1> DEFINE t == kv_mapping_table
           h == iter_handle[i]
           Selected == {s \in h.current_pos .. hash_slots - 1 :
                          ~IsFree(t, s) /\ t[s].key \in h.prefix}
           First == {s \in Selected : Cardinality({r \in Selected : r < s}) < iter_keys}
           pos == StopsAt(First, Selected \ First)
           g == [h EXCEPT !.current_pos = pos,
                          !.ended = @ \/ (h.current_pos < hash_slots /\ pos = hash_slots),
                          !.seen = @ \cup {t[s].key : s \in First}]
<1>0. hash_slots \in Nat \ {0}
  BY KvAssumption
<1>1. HandleOK(h) /\ h.state = "open" /\ h \in OpenHandle /\ kv_mapping_table' = t
  BY DEF HandlesOK, IterRead, HandleOK, tableVars
<1>2. h.current_pos \in 0 .. hash_slots /\ h.prefix \subseteq Keys
      /\ h.seen \subseteq Keys /\ h.due \subseteq Keys /\ h.ended \in BOOLEAN
  BY <1>1 DEF OpenHandle
<1>3. iter_handle' = [iter_handle EXCEPT ![i] = g]
  <2>1. iter_handle' = [iter_handle EXCEPT
           ![i].current_pos = pos,
           ![i].ended = @ \/ (h.current_pos < hash_slots /\ pos = hash_slots),
           ![i].seen = @ \cup {t[s].key : s \in First}]
    BY DEF IterRead
  <2> HIDE DEF pos, First
  <2> QED BY <2>1 DEF HandlesOK
<1>4. Selected \subseteq Nat /\ First \subseteq Selected
  BY <1>0, <1>2
<1>5. /\ pos \in h.current_pos .. hash_slots
      /\ pos = hash_slots \/ pos \in Selected \ First
      /\ \A s \in Selected \ First : pos <= s
  <2>1. CASE Selected \ First = {}
    <3>1. pos = hash_slots
      BY <2>1 DEF StopsAt
    <3>2. hash_slots \in h.current_pos .. hash_slots
      BY <1>0, <1>2
    <3> HIDE DEF pos, First, Selected
    <3> QED BY <2>1, <3>1, <3>2
  <2>2. CASE Selected \ First # {}
    <3> DEFINE Rest == Selected \ First
    <3>1. pos = CHOOSE s \in Rest : \A r \in Rest : s <= r
      BY <2>2 DEF StopsAt
    <3>2. Rest \subseteq Nat
      BY <1>4
    <3>3. pos \in Rest /\ \A r \in Rest : pos <= r
      <4> HIDE DEF Rest, pos
      <4> QED BY <2>2, <3>1, <3>2, LeastNat DEF Rest
    <3>4. pos \in h.current_pos .. hash_slots - 1
      <4> HIDE DEF pos, First
      <4> QED BY <3>3
    <3> HIDE DEF pos
    <3> QED BY <1>0, <1>2, <3>3, <3>4
  <2> QED BY <2>1, <2>2
<1>6. \A s \in First : t[s].key \in Keys
  BY <1>2
<1> HIDE DEF First, pos
<1>7. /\ g \in OpenHandle /\ g.due = h.due /\ g.prefix = h.prefix /\ g.current_pos = pos
      /\ g.ended = (h.ended \/ (h.current_pos < hash_slots /\ pos = hash_slots))
      /\ g.seen = h.seen \cup {t[s].key : s \in First}
  <2>1. {t[s].key : s \in First} \subseteq Keys
    BY <1>6
  <2>2. pos \in 0 .. hash_slots
    BY <1>0, <1>2, <1>5
  <2> HIDE DEF h, t
  <2> QED BY <1>1, <1>2, <2>1, <2>2 DEF OpenHandle
<1>8. g.ended => g.current_pos = hash_slots
  <2>1. h.ended => h.current_pos = hash_slots
    BY <1>1 DEF HandleOK
  <2>2. h.current_pos = hash_slots => pos = hash_slots
    BY <1>0, <1>5
  <2> HIDE DEF g, h
  <2> QED BY <1>7, <2>1, <2>2
<1>9. ASSUME NEW k \in g.due \ g.seen
      PROVE  \E s \in g.current_pos .. hash_slots - 1 : Used(t, s) /\ t[s].key = k
  <2>1. k \in h.due \ h.seen /\ k \notin {t[s].key : s \in First}
    BY <1>7, <1>9
  <2>2. PICK s \in h.current_pos .. hash_slots - 1 : Used(t, s) /\ t[s].key = k
    BY <1>1, <2>1 DEF HandleOK
  <2>3. k \in h.prefix
    BY <1>1, <2>1 DEF HandleOK
  <2>4. s \in Selected \ First
    BY <2>1, <2>2, <2>3 DEF Used
  <2>5. pos <= s
    BY <1>5, <2>4
  <2>6. s \in pos .. hash_slots - 1
    BY <1>0, <1>2, <1>5, <2>2, <2>5
  <2> HIDE DEF g
  <2> QED BY <1>7, <2>2, <2>6
<1>10. HandleOK(g)
  <2> HIDE DEF g
  <2> QED BY <1>1, <1>7, <1>8, <1>9 DEF HandleOK
<1> HIDE DEF g
<1> QED BY <1>1, <1>3, <1>10, OneHandle

-----------------------------------------------------------------------------
(* The theorems.                                                           *)

LEMMA KvNext == ASSUME HostInv, HandlesOK, [Next]_vars PROVE HostInv' /\ HandlesOK'
<1>0. KvTypeOK
  BY DEF HostInv
<1>1. ASSUME Store PROVE HostInv' /\ HandlesOK'
  BY <1>1, InsertKeeps, OverwriteKeeps DEF Store
<1>2. ASSUME NEW k \in Keys, Delete(k) PROVE HostInv' /\ HandlesOK'
  BY <1>0, <1>2, DeleteKeeps, DeleteHandles
<1>3. ASSUME UNCHANGED tableVars
      PROVE  HostInv'
  BY <1>3 DEF HostInv, KvTypeOK, RoomsApart, ValuesKept, DeletedStaysAway, Has, Value, End,
     tableVars
<1>4. ASSUME Iterate PROVE HostInv' /\ HandlesOK'
  <2>1. UNCHANGED tableVars
    BY <1>4 DEF Iterate, IterOpen, IterClose, IterRead
  <2>2. HandlesOK'
    BY <1>0, <1>4, OpenKeeps, CloseKeeps, ReadKeeps DEF Iterate
  <2> QED BY <1>3, <2>1, <2>2
<1>5. ASSUME UNCHANGED vars PROVE HostInv' /\ HandlesOK'
  <2>1. UNCHANGED <<tableVars, kv_mapping_table, iter_handle>>
    BY <1>5 DEF vars, tableVars
  <2>2. HostInv'
    BY <1>3, <2>1
  <2>3. HandlesOK'
    BY <2>1 DEF HandlesOK, HandleOK
  <2> QED BY <2>2, <2>3
<1> QED BY <1>1, <1>2, <1>4, <1>5 DEF Next

LEMMA KvInductive == Spec => [](HostInv /\ HandlesOK)
<1>1. Init => HostInv /\ HandlesOK
  BY KvInit
<1>2. HostInv /\ HandlesOK /\ [Next]_vars => (HostInv /\ HandlesOK)'
  BY KvNext
<1> QED BY <1>1, <1>2, PTL DEF Spec

(* get_mapping_entry comes to an end on every chain, after any sequence of *)
(* stores and deletes.                                                     *)
THEOREM LookupsEnd == Spec => []ChainsEnd
<1>1. HostInv => ChainsEnd
  <2> SUFFICES ASSUME HostInv, NEW s \in Slots
               PROVE  LET e == Walk(kv_mapping_table, s)[hash_slots] IN
                      e = -1 \/ IsFree(kv_mapping_table, e)
    BY DEF ChainsEnd
  <2>1. TableOK(kv_mapping_table) /\ Acyclic(kv_mapping_table)
    BY DEF HostInv, KvTypeOK
  <2>2. hash_slots \in 0 .. hash_slots
    BY KvAssumption
  <2>3. ~Used(kv_mapping_table, Walk(kv_mapping_table, s)[hash_slots])
    BY <2>1, WalkEnds
  <2>4. Walk(kv_mapping_table, s)[hash_slots] \in Slots \cup {-1}
    BY <2>1, <2>2, WalkType
  <2> QED BY <2>3, <2>4 DEF Used
<1> QED BY <1>1, KvInductive, PTL

(* What was last stored for a key is found by the lookup of retrieve, all  *)
(* of it, unless the code damaged it; and with its length, unless the last *)
(* update is one for which the code keeps the length of the table.         *)
THEOREM StoredIsFound == Spec => []LastValueIsFound
<1>1. HostInv => LastValueIsFound
  BY DEF HostInv, ValuesKept, LastValueIsFound, Has, Value
<1> QED BY <1>1, KvInductive, PTL

(* A key that was deleted, or never stored, is not found.                  *)
THEOREM DeletedNotFound == Spec => []DeletedStaysAway
<1>1. HostInv => DeletedStaysAway
  BY DEF HostInv
<1> QED BY <1>1, KvInductive, PTL

(* An iterator that has ended has returned all that was due to it.         *)
THEOREM IteratorsComplete == Spec => []IterationIsComplete
<1>1. HandlesOK => IterationIsComplete
  <2> SUFFICES ASSUME HandlesOK, NEW i \in 1 .. nr_handles,
                      iter_handle[i].state = "open", iter_handle[i].ended
               PROVE  iter_handle[i].due \subseteq iter_handle[i].seen
    BY DEF IterationIsComplete
  <2>1. HandleOK(iter_handle[i])
    BY DEF HandlesOK
  <2>2. iter_handle[i].current_pos = hash_slots
    BY <2>1 DEF HandleOK
  <2>3. hash_slots .. hash_slots - 1 = {}
    BY KvAssumption
  <2> QED BY <2>1, <2>2, <2>3 DEF HandleOK
<1> QED BY <1>1, KvInductive, PTL

=============================================================================
