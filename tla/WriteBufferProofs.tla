------------------------- MODULE WriteBufferProofs -------------------------
(***************************************************************************)
(* For any number of partitions, any wordline and any buffer: as long as   *)
(* the host writes whole pages, the space of the write buffer is accounted *)
(* for, and the buffer never has more of it than its size.                 *)
(***************************************************************************)
EXTENDS WriteBuffer, Induction

(* Commands start and end with a page.                                     *)
WholePagesOnly ==
  \A r \in Requests : r.slba % secs_per_pg = 0 /\ r.nr_lba % secs_per_pg = 0

(* Where conv_write is in the command at the head of the queue it serves.   *)
PlaceOK ==
  pc = "write" => /\ req[qid] \in Requests
                  /\ StartLpn(req[qid]) <= lpn /\ lpn <= EndLpn(req[qid])

IInv == TypeOK /\ remaining \in Nat /\ PlaceOK /\ SpaceAccounted

-----------------------------------------------------------------------------
(* A command of whole pages takes the sectors of the pages it writes.      *)
LEMMA PagesOfRequest ==
  ASSUME WholePagesOnly, NEW r \in Requests
  PROVE  /\ r.nr_lba \in Nat /\ StartLpn(r) \in Nat /\ EndLpn(r) \in Nat
         /\ StartLpn(r) <= EndLpn(r)
         /\ r.nr_lba = secs_per_pg * (EndLpn(r) - StartLpn(r) + 1)
<1> DEFINE s == secs_per_pg
           a == r.slba \div s
           b == r.nr_lba \div s
           x == r.slba
           n == r.nr_lba
           q == (x + n - 1) \div s
           m == (x + n - 1) % s
<1>1. s \in Nat \ {0} /\ x \in Nat /\ n \in Nat \ {0}
  BY WriteBufferAssumption DEF Request
<1>2. a \in Nat /\ x = s * a + (x % s) /\ x % s = 0
  BY <1>1, Divided DEF WholePagesOnly
<1>3. b \in Nat /\ n = s * b + (n % s) /\ n % s = 0
  BY <1>1, Divided DEF WholePagesOnly
<1>4. x = s * a /\ n = s * b /\ a \in Nat /\ b \in Nat
  <2> HIDE DEF s, a, b, x, n
  <2>1. s * a \in Int /\ s * b \in Int
    BY <1>1, <1>2, <1>3
  <2> QED BY <1>2, <1>3, <2>1
<1>5. q \in Nat /\ m \in 0 .. s - 1 /\ x + n - 1 = s * q + m
  <2>1. x + n - 1 \in Nat
    BY <1>1
  <2> HIDE DEF s, x, n
  <2> QED BY <1>1, <2>1, Divided
<1> HIDE DEF s, a, b, x, n, q, m
<1>6. b # 0
  <2> SUFFICES ASSUME b = 0 PROVE FALSE
    OBVIOUS
  <2>1. s * b = 0
    BY <1>1
  <2> QED BY <1>1, <1>4, <2>1
<1>7. s * (a + b - 1) = s * a + s * b - s /\ s * a \in Int /\ s * b \in Int
  BY <1>1, <1>4
<1>8. s * (a + b - 1) + (s - 1) = s * q + m
  <2>1. s * q \in Int /\ s * (a + b - 1) \in Int
    BY <1>1, <1>4, <1>5
  <2> QED BY <1>1, <1>4, <1>5, <1>7, <2>1
<1>9. a + b - 1 = q
  <2>1. a + b - 1 \in Nat /\ s - 1 \in 0 .. s - 1
    BY <1>1, <1>4, <1>6
  <2> QED BY <1>1, <1>5, <1>8, <2>1, DividedOnce
<1>10. StartLpn(r) = a /\ EndLpn(r) = q
  BY DEF StartLpn, EndLpn, a, q, x, n, s
<1>11. q - a + 1 = b
  BY <1>4, <1>5, <1>9
<1>12. n = s * (q - a + 1)
  BY <1>4, <1>11
<1>13. a <= q
  BY <1>4, <1>6, <1>9
<1> QED BY <1>1, <1>4, <1>5, <1>10, <1>12, <1>13 DEF n, s

(* The pages that wait, of any partitions at any position.                 *)
Below(f) == {s \in Parts \X (1 .. pgs_per_oneshotpg) : s[2] <= f[s[1]]}
Positions == [Parts -> 0 .. pgs_per_oneshotpg - 1]

LEMMA PartsFinite ==
  /\ IsFiniteSet(Parts) /\ nr_parts \in Nat \ {0} /\ pgs_per_oneshotpg \in Nat \ {0}
  /\ secs_per_pg \in Nat \ {0} /\ size \in Nat \ {0}
  /\ \A f : IsFiniteSet(Below(f)) /\ Cardinality(Below(f)) \in Nat
<1>1. /\ nr_parts \in Nat \ {0} /\ pgs_per_oneshotpg \in Nat \ {0}
      /\ secs_per_pg \in Nat \ {0} /\ size \in Nat \ {0}
  BY WriteBufferAssumption
<1>2. IsFiniteSet(Parts) /\ IsFiniteSet(1 .. pgs_per_oneshotpg)
  <2>1. nr_parts - 1 \in Int /\ pgs_per_oneshotpg \in Int /\ 0 \in Int /\ 1 \in Int
    BY <1>1
  <2> QED BY <2>1, FS_Interval DEF Parts
<1>3. IsFiniteSet(Parts \X (1 .. pgs_per_oneshotpg))
  BY <1>2, FS_Product
<1>4. ASSUME NEW f PROVE IsFiniteSet(Below(f)) /\ Cardinality(Below(f)) \in Nat
  <2>1. Below(f) \in SUBSET (Parts \X (1 .. pgs_per_oneshotpg))
    BY DEF Below
  <2> QED BY <1>3, <2>1, FS_Subset, FS_CardinalityType
<1> QED BY <1>1, <1>2, <1>4

(* A page that does not fill its wordline waits.                           *)
LEMMA OneMoreWaits ==
  ASSUME NEW f \in Positions, NEW p \in Parts, f[p] + 1 # pgs_per_oneshotpg
  PROVE  Cardinality(Below([f EXCEPT ![p] = @ + 1])) = Cardinality(Below(f)) + 1
<1> DEFINE g == [f EXCEPT ![p] = @ + 1]
           P == pgs_per_oneshotpg
           x == <<p, f[p] + 1>>
<1>1. P \in Nat \ {0} /\ f[p] \in 0 .. P - 1
  BY PartsFinite DEF Positions
<1>2. x \in Parts \X (1 .. P) /\ x \notin Below(f)
  BY <1>1 DEF Below
<1>3. \A s : s \in Below(g) <=> s \in Below(f) \cup {x}
  <2> SUFFICES ASSUME NEW s \in Parts \X (1 .. P)
               PROVE  s[2] <= g[s[1]] <=> (s[2] <= f[s[1]] \/ s = x)
    BY <1>2 DEF Below
  <2>1. PICK q \in Parts, k \in 1 .. P : s = <<q, k>>
    OBVIOUS
  <2>2. f[q] \in 0 .. P - 1
    BY DEF Positions
  <2>3. g[q] = IF q = p THEN f[p] + 1 ELSE f[q]
    BY DEF Positions
  <2>4. k <= g[q] <=> (k <= f[q] \/ (q = p /\ k = f[p] + 1))
    BY <1>1, <2>2, <2>3
  <2> QED BY <2>1, <2>4
<1>4. Below(g) = Below(f) \cup {x}
  BY <1>3
<1>5. IsFiniteSet(Below(f))
  BY PartsFinite
<1> HIDE DEF x, g
<1>6. Cardinality(Below(g)) = Cardinality(Below(f)) + 1
  BY <1>2, <1>4, <1>5, FS_AddElement
<1> QED BY <1>6 DEF g

(* The page that fills it takes the others with it.                        *)
LEMMA WordlineLeaves ==
  ASSUME NEW f \in Positions, NEW p \in Parts, f[p] + 1 = pgs_per_oneshotpg
  PROVE  Cardinality(Below([f EXCEPT ![p] = 0]))
           = Cardinality(Below(f)) - (pgs_per_oneshotpg - 1)
<1> DEFINE g == [f EXCEPT ![p] = 0]
           P == pgs_per_oneshotpg
           X == {p} \X (1 .. P - 1)
<1>1. P \in Nat \ {0} /\ f[p] = P - 1
  BY PartsFinite DEF Positions
<1>2. IsFiniteSet(X) /\ Cardinality(X) = P - 1
  <2>1. IsFiniteSet({p}) /\ Cardinality({p}) = 1
    BY FS_Singleton
  <2>2. IsFiniteSet(1 .. P - 1) /\ Cardinality(1 .. P - 1) = P - 1
    <3>1. P - 1 \in Nat /\ 1 \in Int
      BY <1>1
    <3>2. IsFiniteSet(1 .. P - 1)
          /\ Cardinality(1 .. P - 1) = IF 1 > P - 1 THEN 0 ELSE (P - 1) - 1 + 1
      BY <3>1, FS_Interval
    <3> QED BY <3>1, <3>2
  <2> DEFINE Y == 1 .. P - 1
  <2> HIDE DEF Y
  <2>3. IsFiniteSet(Y) /\ Cardinality(Y) = P - 1
    BY <2>2 DEF Y
  <2>4. IsFiniteSet({p} \X Y) /\ Cardinality({p} \X Y) = Cardinality({p}) * Cardinality(Y)
    BY <2>1, <2>3, FS_Product
  <2>5. Cardinality({p} \X Y) = P - 1
    BY <1>1, <2>1, <2>3, <2>4
  <2> QED BY <2>4, <2>5 DEF Y
<1>3. \A s : s \in Below(g) <=> s \in Below(f) \ X
  <2> SUFFICES ASSUME NEW s \in Parts \X (1 .. P)
               PROVE  s[2] <= g[s[1]] <=> (s[2] <= f[s[1]] /\ s \notin X)
    BY DEF Below
  <2>1. PICK q \in Parts, k \in 1 .. P : s = <<q, k>>
    OBVIOUS
  <2>2. f[q] \in 0 .. P - 1
    BY DEF Positions
  <2>3. g[q] = IF q = p THEN 0 ELSE f[q]
    BY DEF Positions
  <2>4. s \in X <=> (q = p /\ k <= P - 1)
    BY <1>1, <2>1
  <2>5. k <= g[q] <=> (k <= f[q] /\ ~(q = p /\ k <= P - 1))
    BY <1>1, <2>2, <2>3
  <2> QED BY <2>1, <2>4, <2>5
<1>4. Below(g) = Below(f) \ X
  BY <1>3
<1>5. Below(f) \cap X = X
  <2>1. \A s \in X : s \in Below(f)
    <3> TAKE s \in X
    <3>1. PICK k \in 1 .. P - 1 : s = <<p, k>>
      OBVIOUS
    <3> QED BY <1>1, <3>1 DEF Below
  <2> QED BY <2>1
<1>6. IsFiniteSet(Below(f))
  BY PartsFinite
<1> HIDE DEF X, g
<1>7. Cardinality(Below(g)) = Cardinality(Below(f)) - Cardinality(X)
  BY <1>4, <1>5, <1>6, FS_Difference
<1> QED BY <1>2, <1>7 DEF g

-----------------------------------------------------------------------------
(* Left is what conv_write has still to write of its command.              *)
Left == IF pc = "write" THEN EndLpn(req[qid]) - lpn + 1 ELSE 0

LEMMA SpaceIs ==
  SpaceAccounted <=>
    remaining + secs_per_pg * (Cardinality(Below(open)) + Left)
      + wordline * pending = size
BY DEF SpaceAccounted, Unprogrammed, Waiting, Below, Left

LEMMA InitInv ==
  ASSUME WholePagesOnly, Init
  PROVE  IInv
<1>1. /\ nr_parts \in Nat \ {0} /\ pgs_per_oneshotpg \in Nat \ {0}
      /\ secs_per_pg \in Nat \ {0} /\ size \in Nat \ {0}
  BY PartsFinite
<1>2. TypeOK
  BY <1>1, WriteBufferAssumption DEF Init, TypeOK, SQs, Parts
<1>3. Cardinality(Below(open)) = 0
  <2>1. \A s : s \notin Below(open)
    <3> SUFFICES ASSUME NEW s \in Parts \X (1 .. pgs_per_oneshotpg), s[2] <= open[s[1]]
                 PROVE  FALSE
      BY DEF Below
    <3>1. PICK q \in Parts, k \in 1 .. pgs_per_oneshotpg : s = <<q, k>>
      OBVIOUS
    <3> QED BY <1>1, <3>1 DEF Init
  <2>2. Below(open) = {}
    BY <2>1
  <2> QED BY <2>2, FS_EmptySet
<1>4. Left = 0 /\ pending = 0 /\ remaining = size
  BY DEF Init, Left
<1>5. secs_per_pg * (0 + 0) = 0 /\ wordline * 0 = 0
  BY <1>1 DEF wordline
<1>6. SpaceAccounted
  BY <1>1, <1>3, <1>4, <1>5, SpaceIs
<1>7. PlaceOK /\ remaining \in Nat
  BY <1>1 DEF Init, PlaceOK
<1> QED BY <1>2, <1>6, <1>7 DEF IInv

(* The sums of an allocation, a page, a full wordline and a release.       *)
LEMMA Sums ==
  ASSUME NEW s \in Nat, NEW P \in Nat, NEW w \in Int, NEW l \in Int, NEW n \in Int
  PROVE  /\ s * (w + l) = s * w + s * l /\ s * w \in Int /\ s * l \in Int
         /\ (s * P) * (n + 1) = (s * P) * n + s * P
         /\ (s * P) * n \in Int /\ s * P \in Int
         /\ s * ((w - (P - 1)) + (l - 1)) = s * (w + l) - s * P
<1>1. s * (w + l) = s * w + s * l /\ s * w \in Int /\ s * l \in Int
  OBVIOUS
<1>2. s * P \in Int
  OBVIOUS
<1>3. (s * P) * (n + 1) = (s * P) * n + s * P /\ (s * P) * n \in Int
  <2> DEFINE q == s * P
  <2> HIDE DEF q
  <2>1. q * (n + 1) = q * n + q /\ q * n \in Int
    BY <1>2 DEF q
  <2> QED BY <2>1 DEF q
<1>4. s * ((w - (P - 1)) + (l - 1)) = s * (w + l) - s * P
  <2> DEFINE t == w + l
  <2>1. (w - (P - 1)) + (l - 1) = t - P /\ t \in Int
    OBVIOUS
  <2> HIDE DEF t
  <2>2. s * (t - P) = s * t - s * P
    BY <2>1
  <2> QED BY <2>1, <2>2 DEF t
<1> QED BY <1>1, <1>2, <1>3, <1>4


(* The dispatcher goes on to a queue.                                      *)
LEMMA QueueAfter ==
  qid \in SQs => NextQueue \in SQs
<1> SUFFICES ASSUME qid \in SQs PROVE NextQueue \in SQs
  OBVIOUS
<1>1. nr_sq \in Nat \ {0} /\ qid \in Nat
  BY WriteBufferAssumption DEF SQs
<1>2. qid % nr_sq \in 0 .. nr_sq - 1
  BY <1>1
<1> QED BY <1>1, <1>2 DEF NextQueue, SQs

LEMMA PageKeeps ==
  ASSUME WholePagesOnly, IInv, WritePage
  PROVE  IInv'
<1> DEFINE p == lpn % nr_parts
           P == pgs_per_oneshotpg
           s == secs_per_pg
           w == Cardinality(Below(open))
           full == open[p] + 1 = P
           r == req[qid]
<1>1. /\ nr_parts \in Nat \ {0} /\ P \in Nat \ {0} /\ s \in Nat \ {0} /\ size \in Nat
      /\ w \in Nat
  BY PartsFinite
<1>2. /\ TypeOK /\ remaining \in Nat /\ SpaceAccounted /\ pc = "write"
      /\ r \in Requests /\ StartLpn(r) <= lpn /\ lpn <= EndLpn(r)
  BY DEF IInv, PlaceOK, WritePage
<1>3. /\ lpn \in Nat /\ pending \in Nat /\ open \in [Parts -> 0 .. P - 1]
      /\ req \in [SQs -> Requests \cup {None}] /\ qid \in SQs
  BY <1>2 DEF TypeOK
<1>4. p \in Parts
  <2>1. p \in 0 .. nr_parts - 1
    BY <1>1, <1>3
  <2> QED BY <2>1 DEF Parts
<1>5. open[p] \in 0 .. P - 1 /\ open \in Positions
  BY <1>3, <1>4 DEF Positions
<1>6. /\ EndLpn(r) \in Nat /\ StartLpn(r) \in Nat
  BY <1>2, PagesOfRequest
<1>7. /\ remaining' = remaining /\ lpn' = lpn + 1
      /\ lpn = EndLpn(r) => /\ req' = [req EXCEPT ![qid] = None] /\ qid' = NextQueue
                            /\ pc' = "visit"
      /\ lpn # EndLpn(r) => req' = req /\ qid' = qid /\ pc' = "write"
  BY <1>2 DEF WritePage, PageDone
<1>8. Left = EndLpn(r) - lpn + 1
  BY <1>2 DEF Left
<1>9. Left' = Left - 1
  <2>2. CASE lpn = EndLpn(r)
    BY <1>3, <1>7, <1>8, <2>2 DEF Left
  <2>3. CASE lpn # EndLpn(r)
    <3>1. Left' = EndLpn(r) - (lpn + 1) + 1
      BY <1>7, <2>3 DEF Left, EndLpn
    <3> QED BY <1>3, <1>6, <1>8, <3>1
  <2> QED BY <2>2, <2>3
<1>10. Left \in Nat
  BY <1>2, <1>3, <1>6, <1>8
<1>11. remaining + s * (w + Left) + (s * P) * pending = size
  BY <1>2, SpaceIs DEF wordline
<1>12. SpaceAccounted' <=>
         remaining' + s * (Cardinality(Below(open')) + Left') + (s * P) * pending' = size
  BY DEF SpaceAccounted, Unprogrammed, Waiting, Below, Left, wordline
<1>13. open' \in Positions /\ pending' \in Nat /\ SpaceAccounted'
  <2>1. s * (w + Left) \in Int /\ (s * P) * pending \in Int
    BY <1>1, <1>3, <1>10, Sums
  <2>2. CASE full
    <3>1. open' = [open EXCEPT ![p] = 0] /\ pending' = pending + 1
      BY <2>2 DEF WritePage
    <3>2. Cardinality(Below(open')) = w - (P - 1)
      BY <1>4, <1>5, <2>2, <3>1, WordlineLeaves
    <3>3. s * ((w - (P - 1)) + (Left - 1)) = s * (w + Left) - s * P
          /\ (s * P) * (pending + 1) = (s * P) * pending + s * P /\ s * P \in Int
      BY <1>1, <1>3, <1>10, Sums
    <3>4. open' \in Positions /\ pending' \in Nat
      <4>1. 0 \in 0 .. P - 1
        BY <1>1
      <4>2. open' \in Positions
        BY <1>5, <3>1, <4>1 DEF Positions
      <4> QED BY <1>3, <3>1, <4>2
    <3> HIDE DEF s, P, w
    <3>5. remaining + s * ((w - (P - 1)) + (Left - 1)) + (s * P) * (pending + 1) = size
      BY <1>1, <1>2, <1>11, <2>1, <3>3
    <3> QED BY <1>7, <1>9, <1>12, <3>1, <3>2, <3>4, <3>5
  <2>3. CASE ~full
    <3>1. open' = [open EXCEPT ![p] = @ + 1] /\ pending' = pending
      BY <2>3 DEF WritePage
    <3>2. Cardinality(Below(open')) = w + 1
      BY <1>4, <1>5, <2>3, <3>1, OneMoreWaits
    <3>3. open' \in Positions
      <4>1. open[p] + 1 \in 0 .. P - 1
        BY <1>1, <1>5, <2>3
      <4>2. open' = [open EXCEPT ![p] = open[p] + 1]
        BY <3>1
      <4> QED BY <1>5, <4>1, <4>2 DEF Positions
    <3> HIDE DEF s, P, w
    <3>4. (w + 1) + (Left - 1) = w + Left
      BY <1>1, <1>10
    <3> QED BY <1>3, <1>7, <1>9, <1>11, <1>12, <3>1, <3>2, <3>3, <3>4
  <2> QED BY <2>2, <2>3
<1>14. TypeOK'
  <2>1. req' \in [SQs -> Requests \cup {None}] /\ qid' \in SQs /\ pc' \in {"visit", "write"}
    BY <1>3, <1>7, QueueAfter
  <2>2. remaining' \in Int /\ lpn' \in Nat
    BY <1>2, <1>3, <1>7
  <2> QED BY <1>13, <2>1, <2>2 DEF TypeOK, Positions
<1>15. PlaceOK'
  <2>1. CASE lpn = EndLpn(r)
    BY <1>7, <2>1 DEF PlaceOK
  <2>2. CASE lpn # EndLpn(r)
    <3>1. /\ req'[qid'] = r /\ lpn + 1 <= EndLpn(r) /\ StartLpn(r) <= lpn + 1
      BY <1>2, <1>3, <1>6, <1>7, <2>2
    <3> QED BY <1>2, <1>7, <2>2, <3>1 DEF PlaceOK
  <2> QED BY <2>1, <2>2
<1> QED BY <1>2, <1>7, <1>13, <1>14, <1>15 DEF IInv

LEMMA SubmitKeeps ==
  ASSUME IInv, NEW q \in SQs, NEW r \in Requests, Submit(q, r)
  PROVE  IInv'
<1>1. /\ TypeOK /\ PlaceOK /\ SpaceAccounted /\ remaining \in Nat
      /\ req[q] = None /\ req' = [req EXCEPT ![q] = r]
      /\ UNCHANGED <<remaining, qid, lpn, open, pending, pc>>
      /\ None \notin Requests
  BY WriteBufferAssumption DEF IInv, Submit
<1>2. TypeOK'
  BY <1>1 DEF TypeOK
<1>3. pc = "write" => req'[qid'] = req[qid]
  BY <1>1 DEF PlaceOK, TypeOK
<1>4. PlaceOK'
  BY <1>1, <1>3 DEF PlaceOK
<1>5. Waiting' = Waiting /\ Unprogrammed' = Unprogrammed
  BY <1>1, <1>3 DEF Unprogrammed, Waiting
<1>6. SpaceAccounted'
  BY <1>1, <1>5 DEF SpaceAccounted
<1> QED BY <1>1, <1>2, <1>4, <1>6 DEF IInv

LEMMA PassKeeps ==
  ASSUME IInv, Pass
  PROVE  IInv'
<1>1. /\ TypeOK /\ SpaceAccounted /\ remaining \in Nat /\ pc = "visit"
      /\ qid' = NextQueue /\ UNCHANGED <<remaining, req, lpn, open, pending, pc>>
  BY DEF IInv, Pass
<1>2. TypeOK' /\ PlaceOK'
  BY <1>1, QueueAfter DEF TypeOK, PlaceOK
<1>3. Waiting' = Waiting /\ Unprogrammed' = Unprogrammed
  BY <1>1 DEF Unprogrammed, Waiting
<1> QED BY <1>1, <1>2, <1>3 DEF IInv, SpaceAccounted

LEMMA AllocateKeeps ==
  ASSUME WholePagesOnly, IInv, Allocate
  PROVE  IInv'
<1> DEFINE s == secs_per_pg
           w == Cardinality(Below(open))
           r == req[qid]
           k == EndLpn(r) - StartLpn(r) + 1
           X == wordline * pending
<1>1. s \in Nat \ {0} /\ size \in Nat /\ w \in Nat
  BY PartsFinite
<1>2. /\ TypeOK /\ remaining \in Nat /\ SpaceAccounted /\ pc = "visit"
      /\ r \in Requests /\ pending \in Nat
  BY DEF IInv, PlaceOK, TypeOK, Allocate
<1>3. /\ r.nr_lba \in Nat /\ StartLpn(r) \in Nat /\ EndLpn(r) \in Nat
      /\ StartLpn(r) <= EndLpn(r) /\ r.nr_lba = s * k
  BY <1>2, PagesOfRequest
<1>4. /\ remaining' = remaining - r.nr_lba /\ remaining >= r.nr_lba /\ pc' = "write"
      /\ req' = req /\ qid' = qid /\ lpn' = StartLpn(r) /\ open' = open /\ pending' = pending
  BY DEF Allocate
<1>5. remaining' \in Nat
  BY <1>2, <1>3, <1>4
<1>6. TypeOK'
  BY <1>2, <1>3, <1>4, <1>5 DEF TypeOK
<1>7. req'[qid'] = r
  BY <1>4
<1>8. PlaceOK'
  BY <1>2, <1>3, <1>4, <1>7 DEF PlaceOK
<1>9. Left = 0 /\ Left' = k
  BY <1>2, <1>4, <1>7 DEF Left
<1>10. remaining + s * (w + 0) + X = size
  BY <1>2, <1>9, SpaceIs
<1>11. X \in Int /\ k \in Int
  <2>1. wordline \in Int
    BY <1>1, PartsFinite DEF wordline
  <2> QED BY <1>2, <1>3, <2>1
<1>12. SpaceAccounted' <=> remaining' + s * (w + k) + X = size
  <2>1. Waiting' = Below(open)
    BY <1>4 DEF Waiting, Below
  <2>2. Unprogrammed' = s * (w + k)
    BY <1>4, <1>7, <1>2, <2>1 DEF Unprogrammed
  <2> QED BY <1>4, <2>2 DEF SpaceAccounted
<1> HIDE DEF s, w, k, X
<1>13. s * (w + k) = s * w + s * k /\ s * w \in Int /\ s * k \in Int /\ s * (w + 0) = s * w
  BY <1>1, <1>11
<1>14. remaining' + s * (w + k) + X = size
  BY <1>1, <1>2, <1>3, <1>4, <1>10, <1>11, <1>13
<1> QED BY <1>5, <1>6, <1>8, <1>12, <1>14 DEF IInv

LEMMA ReleaseKeeps ==
  ASSUME IInv, Release
  PROVE  IInv'
<1>1. TypeOK /\ remaining \in Nat /\ SpaceAccounted /\ PlaceOK /\ pending \in Nat
  BY DEF IInv, TypeOK
<1>2. /\ pending > 0 /\ pending' = pending - 1 /\ remaining' = remaining + wordline
      /\ req' = req /\ qid' = qid /\ lpn' = lpn /\ open' = open /\ pc' = pc
  BY DEF Release
<1>3. wordline \in Nat
  BY PartsFinite DEF wordline
<1>4. TypeOK' /\ remaining' \in Nat
  BY <1>1, <1>2, <1>3 DEF TypeOK
<1>5. PlaceOK'
  BY <1>1, <1>2 DEF PlaceOK
<1>6. Unprogrammed' = Unprogrammed
  <2>1. Waiting' = Waiting
    BY <1>2 DEF Waiting
  <2> QED BY <1>2, <2>1 DEF Unprogrammed
<1>7. wordline * (pending - 1) = wordline * pending - wordline /\ wordline * pending \in Int
  BY <1>1, <1>3
<1>8. Unprogrammed \in Int
  <2>1. Cardinality(Below(open)) \in Nat /\ secs_per_pg \in Nat
    BY PartsFinite
  <2>2. Left \in Int
    <3>1. lpn \in Nat
      BY <1>1 DEF TypeOK
    <3>2. pc = "write" => EndLpn(req[qid]) \in Int
      BY <1>1, WriteBufferAssumption DEF Request, EndLpn, PlaceOK
    <3> QED BY <3>1, <3>2 DEF Left
  <2>3. Unprogrammed = secs_per_pg * (Cardinality(Below(open)) + Left)
    BY DEF Unprogrammed, Waiting, Below, Left
  <2>4. Cardinality(Below(open)) + Left \in Int
    BY <2>1, <2>2
  <2> QED BY <2>1, <2>3, <2>4
<1>9. SpaceAccounted'
  <2>1. size \in Nat /\ remaining + Unprogrammed + wordline * pending = size
    BY <1>1, PartsFinite DEF SpaceAccounted
  <2>2. (remaining + wordline) + Unprogrammed + wordline * (pending - 1) = size
    BY <1>1, <1>3, <1>7, <1>8, <2>1
  <2> QED BY <1>2, <1>6, <2>2 DEF SpaceAccounted, wordline
<1> QED BY <1>4, <1>5, <1>9 DEF IInv

-----------------------------------------------------------------------------
LEMMA InvHolds ==
  ASSUME WholePagesOnly
  PROVE  Spec => []IInv
<1>1. Init => IInv
  BY InitInv
<1>2. IInv /\ [Next]_vars => IInv'
  <2> SUFFICES ASSUME IInv, [Next]_vars PROVE IInv'
    OBVIOUS
  <2>1. ASSUME NEW q \in SQs, NEW r \in Requests, Submit(q, r) PROVE IInv'
    BY <2>1, SubmitKeeps
  <2>6. CASE Pass
    BY <2>6, PassKeeps
  <2>2. CASE Allocate
    BY <2>2, AllocateKeeps
  <2>3. CASE WritePage
    BY <2>3, PageKeeps
  <2>4. CASE Release
    BY <2>4, ReleaseKeeps
  <2>5. CASE UNCHANGED vars
    <3>1. Waiting' = Waiting
      BY <2>5 DEF vars, Waiting
    <3>2. SpaceAccounted' <=> SpaceAccounted
      BY <2>5, <3>1 DEF vars, SpaceAccounted, Unprogrammed
    <3>3. (TypeOK' <=> TypeOK) /\ (PlaceOK' <=> PlaceOK) /\ remaining' = remaining
      BY <2>5 DEF vars, TypeOK, PlaceOK
    <3> QED BY <3>2, <3>3 DEF IInv
  <2> QED BY <2>1, <2>2, <2>3, <2>4, <2>5, <2>6 DEF Next, Dispatch
<1> QED BY <1>1, <1>2, PTL DEF Spec

(* Every sector of the write buffer is remaining, or held by a page that   *)
(* waits for its wordline to fill, or by a wordline being programmed:      *)
(* conv_write, schedule_internal_operation and buffer_release neither lose *)
(* space nor make it up, if commands are whole pages.                      *)
THEOREM SpaceBalances ==
  ASSUME WholePagesOnly
  PROVE  Spec => []SpaceAccounted
<1>1. Spec => []IInv
  BY InvHolds
<1>2. IInv => SpaceAccounted
  BY DEF IInv
<1> QED BY <1>1, <1>2, PTL

(* With commands of whole pages the buffer never has more space than its   *)
(* size, whatever buffer_release adds.  With other commands it has (the    *)
(* run write_buffer_sectors).                                              *)
THEOREM NoMoreThanSize ==
  ASSUME WholePagesOnly
  PROVE  Spec => []RemainingWithinSize
<1>1. Spec => []IInv
  BY InvHolds
<1>2. IInv => RemainingWithinSize
  <2> SUFFICES ASSUME IInv PROVE RemainingWithinSize
    OBVIOUS
  <2>1. /\ TypeOK /\ remaining \in Nat /\ PlaceOK
        /\ remaining + secs_per_pg * (Cardinality(Below(open)) + Left)
             + wordline * pending = size
    BY SpaceIs DEF IInv
  <2>2. /\ secs_per_pg \in Nat /\ size \in Nat /\ wordline \in Nat
        /\ Cardinality(Below(open)) \in Nat /\ pending \in Nat
    BY <2>1, PartsFinite DEF TypeOK, wordline
  <2>3. Left \in Nat
    <3>1. lpn \in Nat
      BY <2>1 DEF TypeOK
    <3>2. pc = "write" => EndLpn(req[qid]) \in Nat
      BY <2>1, PagesOfRequest DEF PlaceOK
    <3> QED BY <2>1, <3>1, <3>2 DEF Left, PlaceOK
  <2> DEFINE U == secs_per_pg * (Cardinality(Below(open)) + Left)
             V == wordline * pending
  <2>4. U \in Nat /\ V \in Nat
    BY <2>2, <2>3
  <2> HIDE DEF U, V
  <2>5. remaining + U + V = size
    BY <2>1 DEF U, V
  <2> QED BY <2>1, <2>2, <2>4, <2>5 DEF RemainingWithinSize
<1> QED BY <1>1, <1>2, PTL

=============================================================================
