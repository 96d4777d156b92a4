---------------------------- MODULE ConvFtlProofs ----------------------------
(***************************************************************************)
(* Theorems about ConvFtl, for every geometry, every number of lines and   *)
(* every GC threshold.  In this order: the walks over the pages of a line, *)
(* type correctness, the inductive invariant, the safety properties it     *)
(* carries, and why the free lines suffice.                                *)
(***************************************************************************)
EXTENDS ConvFtl, FiniteSetTheorems, TLAPS

-----------------------------------------------------------------------------
(***************************************************************************)
(* The walks of ConvFtl over the pages of a line, for every geometry: they *)
(* stay inside the line, and visit its pages in order.                     *)
(***************************************************************************)

(* A multiple of b that is not 0 is at least b.                            *)
LEMMA PositiveMultiple ==
  ASSUME NEW a \in Nat \ {0}, NEW b \in Nat \ {0}, a % b = 0
  PROVE  a >= b
<1>1. CASE a < b
  <2>1. a % b = a
    BY <1>1
  <2> QED BY <2>1
<1> QED BY <1>1

(* A wordline that begins in a block ends in it: a step inside a wordline  *)
(* (or a flash page) does not leave the block.                             *)
LEMMA StaysInBlock ==
  ASSUME NEW a \in Nat, NEW b \in Nat \ {0}, NEW n \in Nat,
         n % b = 0, a <= n, a % b # 0
  PROVE  a < n
BY SMT

(* NextPage, the walk of advance_write_pointer, stays inside the line.     *)
LEMMA NextPageInLine ==
  ASSUME NEW w \in Ppa, ~LastOfLine(w)
  PROVE  NextPage(w) \in Ppa /\ NextPage(w).blk = w.blk
<1> DEFINE p == w.pg + 1
<1>1. /\ p \in Nat \ {0} /\ p <= pgs_per_blk
      /\ pgs_per_oneshotpg \in Nat \ {0} /\ pgs_per_blk \in Nat
      /\ pgs_per_blk % pgs_per_oneshotpg = 0
      /\ nchs \in Nat /\ luns_per_ch \in Nat /\ nchs > 0 /\ luns_per_ch > 0
  BY GeometryAssumption DEF Ppa
<1>2. CASE p % pgs_per_oneshotpg # 0
  <2>1. p < pgs_per_blk
    BY <1>1, <1>2, StaysInBlock
  <2> QED BY <1>1, <1>2, <2>1 DEF NextPage, Ppa
<1>3. CASE p % pgs_per_oneshotpg = 0
  <2>1. p >= pgs_per_oneshotpg
    BY <1>1, <1>3, PositiveMultiple
  <2>2. p - pgs_per_oneshotpg \in 0 .. pgs_per_blk - 1
    BY <1>1, <2>1
  <2>3. CASE w.ch + 1 # nchs
    <3>1. NextPage(w) = [w EXCEPT !.pg = p - pgs_per_oneshotpg, !.ch = @ + 1]
      BY <1>3, <2>3 DEF NextPage
    <3>2. w.ch + 1 \in 0 .. nchs - 1
      BY <1>1, <2>3 DEF Ppa
    <3> HIDE DEF p
    <3> QED BY <2>2, <3>1, <3>2 DEF Ppa
  <2>4. CASE w.ch + 1 = nchs /\ w.lun + 1 # luns_per_ch
    <3>1. NextPage(w) = [w EXCEPT !.pg = p - pgs_per_oneshotpg, !.ch = 0,
                                  !.lun = @ + 1]
      BY <1>3, <2>4 DEF NextPage
    <3>2. w.lun + 1 \in 0 .. luns_per_ch - 1 /\ 0 \in 0 .. nchs - 1
      BY <1>1, <2>4 DEF Ppa
    <3> HIDE DEF p
    <3> QED BY <2>2, <3>1, <3>2 DEF Ppa
  <2>5. CASE w.ch + 1 = nchs /\ w.lun + 1 = luns_per_ch
    <3>1. NextPage(w) = [w EXCEPT !.pg = p, !.ch = 0, !.lun = 0]
      BY <1>3, <2>5 DEF NextPage
    <3>2. p \in 0 .. pgs_per_blk - 1
      BY <1>1, <2>5 DEF LastOfLine, Ppa
    <3>3. 0 \in 0 .. luns_per_ch - 1 /\ 0 \in 0 .. nchs - 1
      BY <1>1
    <3> HIDE DEF p
    <3> QED BY <3>1, <3>2, <3>3 DEF Ppa
  <2> QED BY <2>3, <2>4, <2>5
<1> QED BY <1>2, <1>3

(* What the lemmas below use of the geometry.                              *)
LEMMA Geometry ==
  /\ pgs_per_oneshotpg \in Nat \ {0} /\ pgs_per_flashpg \in Nat \ {0}
  /\ pgs_per_blk \in Nat \ {0} /\ nchs \in Nat \ {0} /\ luns_per_ch \in Nat \ {0}
  /\ pgs_per_blk % pgs_per_oneshotpg = 0
  /\ pgs_per_oneshotpg % pgs_per_flashpg = 0
BY GeometryAssumption

(* A multiple of f smaller than f is 0.                                    *)
LEMMA SmallMultiple ==
  ASSUME NEW f \in Nat \ {0}, NEW e \in Int, f * e >= 0, f * e < f
  PROVE  f * e = 0
<1>1. CASE e >= 1
  <2>1. f * e >= f * 1
    BY <1>1
  <2> QED BY <2>1
<1>2. CASE e <= -1
  <2>1. f * e <= f * (-1)
    BY <1>2
  <2> QED BY <2>1
<1>3. CASE e = 0
  BY <1>3
<1> QED BY <1>1, <1>2, <1>3

(* Quotient and remainder are unique.                                      *)
LEMMA DivUnique ==
  ASSUME NEW k \in Nat \ {0}, NEW m \in Nat, NEW r \in 0 .. k - 1,
         NEW x \in Nat, x = k * m + r
  PROVE  x \div k = m /\ x % k = r
<1> DEFINE Q == x \div k
           R == x % k
<1>2. Q \in Int /\ R \in Int /\ x = k * Q + R /\ 0 <= R /\ R < k
  BY SMT
<1>3. k * (m - Q) = R - r /\ k * (Q - m) = r - R
  <2>1. k * (m - Q) = k * m - k * Q /\ k * (Q - m) = k * Q - k * m
    BY <1>2
  <2>2. k * m + r = k * Q + R
    BY <1>2
  <2>3. k * m \in Int /\ k * Q \in Int
    BY <1>2
  <2> HIDE DEF Q, R
  <2> QED BY <1>2, <2>1, <2>2, <2>3
<1>4. m - Q \in Int /\ Q - m \in Int
  BY <1>2
<1> HIDE DEF Q, R
<1>5. CASE R >= r
  <2>1. k * (m - Q) = 0
    BY <1>2, <1>3, <1>4, <1>5, SmallMultiple
  <2>2. ~(m - Q >= 1) /\ ~(m - Q <= -1)
    <3>1. CASE m - Q >= 1
      <4>1. k * (m - Q) >= k * 1
        BY <1>4, <3>1
      <4> QED BY <2>1, <4>1
    <3>2. CASE m - Q <= -1
      <4>1. k * (m - Q) <= k * (-1)
        BY <1>4, <3>2
      <4> QED BY <2>1, <4>1
    <3> QED BY <3>1, <3>2
  <2>3. m = Q /\ R = r
    BY <1>2, <1>3, <2>1, <2>2
  <2> QED BY <2>3 DEF Q, R
<1>6. CASE R < r
  <2>1. k * (Q - m) = 0
    BY <1>2, <1>3, <1>4, <1>6, SmallMultiple
  <2> QED BY <1>2, <1>3, <1>6, <2>1
<1> QED BY <1>2, <1>5, <1>6

(* Every number is a multiple of k and a remainder.                        *)
LEMMA DivMod ==
  ASSUME NEW k \in Nat \ {0}, NEW p \in Nat
  PROVE  /\ p \div k \in Nat /\ p % k \in 0 .. k - 1
         /\ p = k * (p \div k) + (p % k)
<1> DEFINE Q == p \div k
           R == p % k
<1>1. Q \in Int /\ R \in Int /\ p = k * Q + R /\ 0 <= R /\ R < k
  BY SMT
<1> HIDE DEF Q, R
<1>2. CASE Q <= -1
  <2>1. k * Q <= k * (-1) /\ k * Q \in Int
    BY <1>1, <1>2
  <2> QED BY <1>1, <2>1
<1>3. Q \in Nat /\ R \in 0 .. k - 1 /\ p = k * Q + R
  BY <1>1, <1>2
<1> QED BY <1>3 DEF Q, R

(* f divides its multiples.                                                *)
LEMMA MultipleIsDivisible ==
  ASSUME NEW f \in Nat \ {0}, NEW m \in Nat
  PROVE  (f * m) % f = 0
<1>1. f * m \in Nat /\ f * m = f * m + 0 /\ 0 \in 0 .. f - 1
  OBVIOUS
<1> QED BY <1>1, DivUnique

(* A product of positive numbers is positive.                             *)
LEMMA PositiveProduct ==
  ASSUME NEW a \in Nat \ {0}, NEW b \in Nat \ {0}
  PROVE  a * b \in Nat \ {0}
<1>1. a * b >= a * 1
  BY SMT
<1> QED BY <1>1

(* A line has a page.                                                      *)
LEMMA LineNotEmpty == pgs_per_line \in Nat \ {0}
<1>1. nchs * luns_per_ch \in Nat \ {0}
  BY Geometry, PositiveProduct
<1> DEFINE dies == nchs * luns_per_ch
<1>2. dies \in Nat \ {0}
  BY <1>1
<1> HIDE DEF dies
<1>3. dies * pgs_per_blk \in Nat \ {0}
  BY <1>2, Geometry, PositiveProduct
<1> QED BY <1>3 DEF dies, pgs_per_line

(* A block is a whole number of flash pages.                               *)
LEMMA FlashPagesFillBlock == pgs_per_blk % pgs_per_flashpg = 0
<1> DEFINE k == pgs_per_blk \div pgs_per_oneshotpg
           j == pgs_per_oneshotpg \div pgs_per_flashpg
<1>1. k \in Nat /\ pgs_per_blk = pgs_per_oneshotpg * k
  BY Geometry
<1>2. j \in Nat /\ pgs_per_oneshotpg = pgs_per_flashpg * j
  BY Geometry
<1> HIDE DEF k, j
<1>3. pgs_per_blk = pgs_per_flashpg * (j * k) /\ j * k \in Nat
  BY <1>1, <1>2, Geometry
<1> QED BY <1>3, Geometry, MultipleIsDivisible

(* NextScan, the loops of do_gc, stays inside the victim.                  *)
LEMMA NextScanInLine ==
  ASSUME NEW s \in Ppa, ~LastOfScan(s)
  PROVE  NextScan(s) \in Ppa /\ NextScan(s).blk = s.blk
<1> DEFINE p == s.pg + 1
<1>1. /\ p \in Nat \ {0} /\ p <= pgs_per_blk
      /\ s.pg \in 0 .. pgs_per_blk - 1
      /\ s.lun \in 0 .. luns_per_ch - 1 /\ s.ch \in 0 .. nchs - 1
  BY Geometry DEF Ppa
<1>2. CASE ~EndOfFlashPg(s)
  <2>1. NextScan(s) = [s EXCEPT !.pg = p]
    BY <1>2 DEF NextScan
  <2>2. p \in 0 .. pgs_per_blk - 1
    <3>1. p < pgs_per_blk
      BY <1>1, <1>2, Geometry, FlashPagesFillBlock, StaysInBlock DEF EndOfFlashPg
    <3> QED BY <1>1, <3>1, Geometry
  <2> HIDE DEF p
  <2> QED BY <2>1, <2>2 DEF Ppa
<1>3. CASE EndOfFlashPg(s)
  <2>1. p - pgs_per_flashpg \in 0 .. pgs_per_blk - 1
    <3>1. p >= pgs_per_flashpg
      BY <1>1, <1>3, Geometry, PositiveMultiple DEF EndOfFlashPg
    <3> QED BY <1>1, <3>1, Geometry
  <2>2. 0 \in 0 .. luns_per_ch - 1 /\ 0 \in 0 .. nchs - 1
    BY Geometry
  <2>3. CASE s.lun + 1 # luns_per_ch
    <3>1. NextScan(s) = [s EXCEPT !.pg = p - pgs_per_flashpg, !.lun = @ + 1]
      BY <1>3, <2>3 DEF NextScan
    <3>2. s.lun + 1 \in 0 .. luns_per_ch - 1
      BY <1>1, <2>3, Geometry
    <3> HIDE DEF p
    <3> QED BY <2>1, <3>1, <3>2 DEF Ppa
  <2>4. CASE s.lun + 1 = luns_per_ch /\ s.ch + 1 # nchs
    <3>1. NextScan(s) = [s EXCEPT !.pg = p - pgs_per_flashpg, !.lun = 0,
                                  !.ch = @ + 1]
      BY <1>3, <2>4 DEF NextScan
    <3>2. s.ch + 1 \in 0 .. nchs - 1
      BY <1>1, <2>4, Geometry
    <3> HIDE DEF p
    <3> QED BY <2>1, <2>2, <3>1, <3>2 DEF Ppa
  <2>5. CASE s.lun + 1 = luns_per_ch /\ s.ch + 1 = nchs
    <3>1. NextScan(s) = [s EXCEPT !.pg = p, !.lun = 0, !.ch = 0]
      BY <1>3, <2>5 DEF NextScan
    <3>2. p \in 0 .. pgs_per_blk - 1
      BY <1>1, <2>5, Geometry DEF LastOfScan, EndOfBlock
    <3> HIDE DEF p
    <3> QED BY <2>2, <3>1, <3>2 DEF Ppa
  <2> QED BY <2>3, <2>4, <2>5
<1> QED BY <1>2, <1>3

(* A line is opened at a page of it.                                       *)
LEMMA FirstPageInLine ==
  ASSUME NEW l \in Lines
  PROVE  FirstPage(l) \in Ppa /\ FirstPage(l).blk = l
BY Geometry DEF FirstPage, Ppa

-----------------------------------------------------------------------------
(***************************************************************************)
(* The order of a walk                                                     *)
(***************************************************************************)

(* Page q of die (x, y) comes before page p of die (a, b) in a walk that   *)
(* takes k pages of every die in turn, y running fastest.                  *)
Lex(k, q, x, y, p, a, b) ==
  \/ q \div k < p \div k
  \/ q \div k = p \div k /\ x < a
  \/ q \div k = p \div k /\ x = a /\ y < b
  \/ q \div k = p \div k /\ x = a /\ y = b /\ q < p

(* The groups of k pages: p + 1 opens a group, or is in the group of p.    *)
LEMMA GroupStep ==
  ASSUME NEW k \in Nat \ {0}, NEW p \in Nat
  PROVE  /\ (p + 1) % k # 0 => (p + 1) \div k = p \div k
         /\ (p + 1) % k = 0 => (p + 1) \div k = p \div k + 1
<1> DEFINE Q == p \div k
           R == p % k
<1>0. Q \in Nat /\ R \in 0 .. k - 1 /\ p = k * Q + R
  BY DivMod
<1>1. Q \in Nat /\ R \in 0 .. k - 1 /\ p = k * Q + R /\ k * Q \in Nat
  <2> HIDE DEF Q, R
  <2> QED BY <1>0
<1> HIDE DEF Q, R
<1>2. CASE R + 1 = k
  <2>1. p + 1 = k * (Q + 1) + 0 /\ 0 \in 0 .. k - 1 /\ Q + 1 \in Nat
    <3>1. k * (Q + 1) = k * Q + k
      BY <1>1
    <3> QED BY <1>1, <1>2, <3>1
  <2>2. (p + 1) \div k = Q + 1 /\ (p + 1) % k = 0
    <3> DEFINE x == p + 1
               m == Q + 1
               r == 0
    <3>1. x \in Nat /\ m \in Nat /\ r \in 0 .. k - 1 /\ x = k * m + r
      BY <2>1
    <3> HIDE DEF x, m, r
    <3>2. x \div k = m /\ x % k = r
      BY <3>1, DivUnique
    <3> QED BY <3>2 DEF x, m, r
  <2> QED BY <2>2 DEF Q
<1>3. CASE R + 1 < k
  <2>1. p + 1 = k * Q + (R + 1) /\ R + 1 \in 0 .. k - 1
    BY <1>1, <1>3
  <2>2. (p + 1) \div k = Q /\ (p + 1) % k = R + 1
    <3>1. p + 1 \in Nat
      OBVIOUS
    <3> QED BY <1>1, <2>1, <3>1, DivUnique
  <2>3. R + 1 # 0
    BY <1>1
  <2> QED BY <2>2, <2>3 DEF Q
<1> QED BY <1>1, <1>2, <1>3

(* A group begins at a multiple of k ...                                   *)
LEMMA GroupFirst ==
  ASSUME NEW k \in Nat \ {0}, NEW q \in Nat, NEW p \in Nat,
         p % k = 0, q \div k = p \div k
  PROVE  q >= p
BY SMT

(* ... and ends before the next.                                           *)
LEMMA GroupLast ==
  ASSUME NEW k \in Nat \ {0}, NEW q \in Nat, NEW p \in Nat,
         (p + 1) % k = 0, q \div k <= p \div k
  PROVE  q <= p
<1> DEFINE Q == q \div k
           P == p \div k
<1>1. Q \in Nat /\ P \in Nat /\ q < k * Q + k /\ Q <= P
  BY DivMod
<1>2. (p + 1) \div k = P + 1
  BY GroupStep
<1>3. p + 1 = k * (P + 1) + 0
  <2> DEFINE n == p + 1
  <2>1. n \in Nat /\ n % k = 0 /\ n \div k = P + 1
    BY <1>2
  <2> HIDE DEF n, P
  <2>2. n = k * (n \div k) + (n % k)
    BY <2>1, DivMod
  <2>3. n = k * (P + 1) + 0
    BY <2>1, <2>2
  <2> QED BY <2>3 DEF n
<1> HIDE DEF Q, P
<1>4. k * Q <= k * P /\ k * (P + 1) = k * P + k /\ k * Q \in Nat /\ k * P \in Nat
  BY <1>1
<1> QED BY <1>1, <1>3, <1>4

(* k pages earlier is one group earlier.                                   *)
LEMMA GroupBack ==
  ASSUME NEW k \in Nat \ {0}, NEW p \in Nat, p % k = 0, p >= k
  PROVE  (p - k) % k = 0 /\ (p - k) \div k = p \div k - 1
<1> DEFINE P == p \div k
<1>1. P \in Nat /\ p = k * P
  BY DivMod
<1> HIDE DEF P
<1>2. P >= 1
  <2>1. CASE P = 0
    BY <1>1, <2>1
  <2> QED BY <1>1, <2>1
<1>3. p - k = k * (P - 1) + 0 /\ P - 1 \in Nat /\ 0 \in 0 .. k - 1
  <2>1. k * (P - 1) = k * P - k
    BY <1>1
  <2> QED BY <1>1, <1>2, <2>1
<1>4. (p - k) \div k = P - 1 /\ (p - k) % k = 0
  <2> DEFINE x == p - k
             m == P - 1
             r == 0
  <2>1. x \in Nat /\ m \in Nat /\ r \in 0 .. k - 1 /\ x = k * m + r
    BY <1>3
  <2> HIDE DEF x, m, r
  <2>2. x \div k = m /\ x % k = r
    BY <2>1, DivUnique
  <2> QED BY <2>2 DEF x, m, r
<1> QED BY <1>4 DEF P

(* One step of a walk: from page p of die (a, b) to page p2 of (a2, b2).   *)
WalkStep(k, A, B, p, a, b, p2, a2, b2) ==
  \/ (p + 1) % k # 0 /\ p2 = p + 1 /\ a2 = a /\ b2 = b
  \/ /\ (p + 1) % k = 0 /\ b + 1 # B
     /\ p2 = p + 1 - k /\ a2 = a /\ b2 = b + 1
  \/ /\ (p + 1) % k = 0 /\ b + 1 = B /\ a + 1 # A
     /\ p2 = p + 1 - k /\ a2 = a + 1 /\ b2 = 0
  \/ /\ (p + 1) % k = 0 /\ b + 1 = B /\ a + 1 = A
     /\ p2 = p + 1 /\ a2 = 0 /\ b2 = 0

(* A step of a walk skips no page and comes back to none: what is before   *)
(* the new page is what was before the old one, and the old one.           *)
PassesOnlyIt(k, q, x, y, p, a, b, p2, a2, b2) ==
  Lex(k, q, x, y, p2, a2, b2)
    <=> Lex(k, q, x, y, p, a, b) \/ (q = p /\ x = a /\ y = b)

(* Both walks pass a page for every step they take.                        *)
LEMMA LexStep ==
  ASSUME NEW k \in Nat \ {0}, NEW A \in Nat \ {0}, NEW B \in Nat \ {0},
         NEW q \in Nat, NEW x \in 0 .. A - 1, NEW y \in 0 .. B - 1,
         NEW p \in Nat, NEW a \in 0 .. A - 1, NEW b \in 0 .. B - 1,
         NEW p2, NEW a2, NEW b2,
         WalkStep(k, A, B, p, a, b, p2, a2, b2)
  PROVE  PassesOnlyIt(k, q, x, y, p, a, b, p2, a2, b2)
<1>0. SUFFICES Lex(k, q, x, y, p2, a2, b2)
                 <=> Lex(k, q, x, y, p, a, b) \/ (q = p /\ x = a /\ y = b)
  BY DEF PassesOnlyIt
<1> DEFINE Q == q \div k
           P == p \div k
           P2 == p2 \div k
<1>1. Q \in Int /\ P \in Int
  BY SMT
<1>2. CASE (p + 1) % k # 0
  <2>1. p2 = p + 1 /\ a2 = a /\ b2 = b
    BY <1>2 DEF WalkStep
  <2>2. P2 = P
    BY <1>2, <2>1, GroupStep
  <2> HIDE DEF Q, P, P2
  <2>3. Lex(k, q, x, y, p2, a2, b2) <=>
          \/ Q < P
          \/ Q = P /\ x < a
          \/ Q = P /\ x = a /\ y < b
          \/ Q = P /\ x = a /\ y = b /\ q < p + 1
    BY <2>1, <2>2 DEF Lex, Q, P, P2
  <2>4. Lex(k, q, x, y, p, a, b) <=>
          \/ Q < P
          \/ Q = P /\ x < a
          \/ Q = P /\ x = a /\ y < b
          \/ Q = P /\ x = a /\ y = b /\ q < p
    BY DEF Lex, Q, P
  <2>5. q = p => Q = P
    BY DEF Q, P
  <2> QED BY <1>1, <2>3, <2>4, <2>5
<1>3. CASE (p + 1) % k = 0
  <2>1. p + 1 >= k
    BY <1>3, PositiveMultiple
  <2>2. Q <= P => q <= p
    BY <1>3, GroupLast
  <2>3. (p + 1) \div k = P + 1 /\ (p + 1 - k) \div k = P
        /\ (p + 1 - k) % k = 0 /\ p + 1 - k \in Nat
    <3>1. (p + 1) \div k = P + 1
      BY <1>3, GroupStep
    <3>2. (p + 1 - k) % k = 0 /\ (p + 1 - k) \div k = (p + 1) \div k - 1
      <4> DEFINE n == p + 1
      <4>1. n \in Nat /\ n % k = 0 /\ n >= k
        BY <1>3, <2>1
      <4> HIDE DEF n
      <4>2. (n - k) % k = 0 /\ (n - k) \div k = n \div k - 1
        BY <4>1, GroupBack
      <4> QED BY <4>2 DEF n
    <3>3. p + 1 - k \in Nat
      BY <2>1
    <3> QED BY <1>1, <3>1, <3>2, <3>3
  <2>4. p2 \in Nat /\ p2 % k = 0
    BY <1>3, <2>3 DEF WalkStep
  <2>5. Q = P2 => q >= p2
    BY <2>4, GroupFirst
  <2>6. q = p => Q = P
    BY DEF Q, P
  <2>7. Lex(k, q, x, y, p, a, b) <=>
          \/ Q < P
          \/ Q = P /\ x < a
          \/ Q = P /\ x = a /\ y < b
          \/ Q = P /\ x = a /\ y = b /\ q < p
    BY DEF Lex, Q, P
  <2>8. Lex(k, q, x, y, p2, a2, b2) <=>
          \/ Q < P2
          \/ Q = P2 /\ x < a2
          \/ Q = P2 /\ x = a2 /\ y < b2
          \/ Q = P2 /\ x = a2 /\ y = b2 /\ q < p2
    BY DEF Lex, Q, P2
  <2>9. CASE b + 1 # B
    <3>1. P2 = P /\ a2 = a /\ b2 = b + 1
      BY <1>3, <2>3, <2>9 DEF WalkStep
    <3> HIDE DEF Q, P, P2
    <3> QED BY <1>1, <2>2, <2>4, <2>5, <2>6, <2>7, <2>8, <3>1
  <2>10. CASE b + 1 = B /\ a + 1 # A
    <3>1. P2 = P /\ a2 = a + 1 /\ b2 = 0
      BY <1>3, <2>3, <2>10 DEF WalkStep
    <3> HIDE DEF Q, P, P2
    <3> QED BY <1>1, <2>2, <2>4, <2>5, <2>6, <2>7, <2>8, <2>10, <3>1
  <2>11. CASE b + 1 = B /\ a + 1 = A
    <3>1. P2 = P + 1 /\ a2 = 0 /\ b2 = 0
      BY <1>3, <2>3, <2>11 DEF WalkStep
    <3> HIDE DEF Q, P, P2
    <3> QED BY <1>1, <2>2, <2>4, <2>5, <2>6, <2>7, <2>8, <2>11, <3>1
  <2> QED BY <2>9, <2>10, <2>11
<1> QED BY <1>2, <1>3

(* Every page is before the last page of the last die, or is it.           *)
LEMMA LexLast ==
  ASSUME NEW k \in Nat \ {0}, NEW A \in Nat \ {0}, NEW B \in Nat \ {0},
         NEW n \in Nat \ {0}, n % k = 0, NEW q \in 0 .. n - 1,
         NEW x \in 0 .. A - 1, NEW y \in 0 .. B - 1
  PROVE  Lex(k, q, x, y, n - 1, A - 1, B - 1)
           \/ (q = n - 1 /\ x = A - 1 /\ y = B - 1)
<1> DEFINE Q == q \div k
           P == (n - 1) \div k
<1>1. Q \in Int /\ P \in Int /\ Q <= P
  <2>1. n - 1 \in Nat /\ (n - 1) + 1 = n
    OBVIOUS
  <2>2. ~(P < Q)
    <3>1. n \div k = P + 1
      BY <2>1, GroupStep
    <3>2. CASE P < Q
      <4>1. Q >= n \div k
        BY <3>1, <3>2
      <4>2. q >= n
        BY <4>1, SMT
      <4> QED BY <4>2
    <3> QED BY <3>2
  <2> QED BY <2>2
<1>2. Lex(k, q, x, y, n - 1, A - 1, B - 1) <=>
        \/ Q < P
        \/ Q = P /\ x < A - 1
        \/ Q = P /\ x = A - 1 /\ y < B - 1
        \/ Q = P /\ x = A - 1 /\ y = B - 1 /\ q < n - 1
  BY DEF Lex
<1> HIDE DEF Q, P
<1> QED BY <1>1, <1>2

(* No page is before page 0 of die (0, 0).                                 *)
LEMMA LexFirst ==
  ASSUME NEW k \in Nat \ {0}, NEW q \in Nat, NEW x \in Nat, NEW y \in Nat
  PROVE  ~Lex(k, q, x, y, 0, 0, 0)
<1>1. 0 \div k = 0 /\ q \div k >= 0 /\ q \div k \in Int
  BY SMT
<1> QED BY <1>1 DEF Lex

-----------------------------------------------------------------------------
(***************************************************************************)
(* The two walks of ConvFtl                                                *)
(***************************************************************************)

(* The GC has passed page p of its victim when it stands on page s.        *)
ScanBefore(p, s) == Lex(pgs_per_flashpg, p.pg, p.ch, p.lun, s.pg, s.ch, s.lun)

LEMMA VisitedIsScanBefore ==
  ASSUME NEW p
  PROVE  Visited(p) <=> p.blk = victim /\ (pc = "free" \/ ScanBefore(p, scan))
BY DEF Visited, ScanBefore, Lex, FlashPgOf

LEMMA BeforeIsLex ==
  ASSUME NEW p, NEW w
  PROVE  Before(p, w)
           <=> Lex(pgs_per_oneshotpg, p.pg, p.lun, p.ch, w.pg, w.lun, w.ch)
BY DEF Before, Lex

(* Pages of one line are told apart by die and page.                       *)
LEMMA SamePage ==
  ASSUME NEW p \in Ppa, NEW w \in Ppa, p.blk = w.blk
  PROVE  p = w <=> p.pg = w.pg /\ p.ch = w.ch /\ p.lun = w.lun
BY DEF Ppa

(* advance_write_pointer comes back to no page and skips none.             *)
LEMMA BeforeNextPage ==
  ASSUME NEW w \in Ppa, ~LastOfLine(w), NEW p \in Ppa, p.blk = w.blk
  PROVE  Before(p, NextPage(w)) <=> Before(p, w) \/ p = w
<1> DEFINE n == NextPage(w)
<1>1. /\ p.pg \in Nat /\ p.lun \in 0 .. luns_per_ch - 1 /\ p.ch \in 0 .. nchs - 1
      /\ w.pg \in Nat /\ w.lun \in 0 .. luns_per_ch - 1 /\ w.ch \in 0 .. nchs - 1
  BY Geometry DEF Ppa
<1>2. WalkStep(pgs_per_oneshotpg, luns_per_ch, nchs,
               w.pg, w.lun, w.ch, n.pg, n.lun, n.ch)
  <2>1. w.pg \in Int
    BY <1>1
  <2>2. CASE (w.pg + 1) % pgs_per_oneshotpg # 0
    BY <2>1, <2>2 DEF NextPage, WalkStep, Ppa
  <2>3. CASE (w.pg + 1) % pgs_per_oneshotpg = 0
    <3>1. CASE w.ch + 1 # nchs
      BY <2>1, <2>3, <3>1, Geometry DEF NextPage, WalkStep, Ppa
    <3>2. CASE w.ch + 1 = nchs /\ w.lun + 1 # luns_per_ch
      BY <2>1, <2>3, <3>2, Geometry DEF NextPage, WalkStep, Ppa
    <3>3. CASE w.ch + 1 = nchs /\ w.lun + 1 = luns_per_ch
      BY <2>1, <2>3, <3>3 DEF NextPage, WalkStep, Ppa
    <3> QED BY <3>1, <3>2, <3>3
  <2> QED BY <2>2, <2>3
<1> HIDE DEF n
<1>3. Lex(pgs_per_oneshotpg, p.pg, p.lun, p.ch, n.pg, n.lun, n.ch)
        <=> \/ Lex(pgs_per_oneshotpg, p.pg, p.lun, p.ch, w.pg, w.lun, w.ch)
            \/ p.pg = w.pg /\ p.lun = w.lun /\ p.ch = w.ch
  <2> DEFINE k == pgs_per_oneshotpg
             A == luns_per_ch
             B == nchs
             q == p.pg
             x == p.lun
             y == p.ch
             pg == w.pg
             a == w.lun
             b == w.ch
             p2 == n.pg
             a2 == n.lun
             b2 == n.ch
  <2>1. /\ k \in Nat \ {0} /\ A \in Nat \ {0} /\ B \in Nat \ {0}
        /\ q \in Nat /\ x \in 0 .. A - 1 /\ y \in 0 .. B - 1
        /\ pg \in Nat /\ a \in 0 .. A - 1 /\ b \in 0 .. B - 1
        /\ WalkStep(k, A, B, pg, a, b, p2, a2, b2)
    BY <1>1, <1>2, Geometry
  <2> HIDE DEF k, A, B, q, x, y, pg, a, b, p2, a2, b2
  <2>2. PassesOnlyIt(k, q, x, y, pg, a, b, p2, a2, b2)
    BY <2>1, LexStep
  <2> QED BY <2>2 DEF PassesOnlyIt, k, A, B, q, x, y, pg, a, b, p2, a2, b2
<1>4. p = w <=> p.pg = w.pg /\ p.ch = w.ch /\ p.lun = w.lun
  BY SamePage
<1>5. /\ Before(p, n)
           <=> Lex(pgs_per_oneshotpg, p.pg, p.lun, p.ch, n.pg, n.lun, n.ch)
      /\ Before(p, w)
           <=> Lex(pgs_per_oneshotpg, p.pg, p.lun, p.ch, w.pg, w.lun, w.ch)
  BY BeforeIsLex
<1> QED BY <1>3, <1>4, <1>5 DEF n

(* A line is opened before its first page.                                 *)
LEMMA NothingBeforeFirstPage ==
  ASSUME NEW l, NEW p \in Ppa
  PROVE  ~Before(p, FirstPage(l)) /\ ~ScanBefore(p, FirstPage(l))
<1>1. p.pg \in Nat /\ p.lun \in Nat /\ p.ch \in Nat
  BY Geometry DEF Ppa
<1>2. FirstPage(l).pg = 0 /\ FirstPage(l).ch = 0 /\ FirstPage(l).lun = 0
  BY DEF FirstPage
<1>3. /\ ~Lex(pgs_per_oneshotpg, p.pg, p.lun, p.ch, 0, 0, 0)
      /\ ~Lex(pgs_per_flashpg, p.pg, p.ch, p.lun, 0, 0, 0)
  BY <1>1, LexFirst, Geometry
<1>4. Before(p, FirstPage(l))
        <=> Lex(pgs_per_oneshotpg, p.pg, p.lun, p.ch,
                FirstPage(l).pg, FirstPage(l).lun, FirstPage(l).ch)
  BY BeforeIsLex
<1> QED BY <1>2, <1>3, <1>4 DEF ScanBefore

(* No page is before itself.                                               *)
LEMMA NotBeforeItself ==
  ASSUME NEW w \in Ppa
  PROVE  ~Before(w, w)
<1>1. w.pg \in Nat /\ w.lun \in Nat /\ w.ch \in Nat
  BY Geometry DEF Ppa
<1>2. w.pg \div pgs_per_oneshotpg \in Nat
  BY <1>1, DivMod, Geometry
<1> DEFINE d == w.pg \div pgs_per_oneshotpg
<1>3. ~(d < d)
  <2> HIDE DEF d
  <2> QED BY <1>2 DEF d
<1>4. Before(w, w) <=> \/ d < d
                       \/ d = d /\ w.lun < w.lun
                       \/ d = d /\ w.lun = w.lun /\ w.ch < w.ch
                       \/ d = d /\ w.lun = w.lun /\ w.ch = w.ch /\ w.pg < w.pg
  BY DEF Before
<1> QED BY <1>1, <1>3, <1>4

(* ... and neither does the page the collector stands on.                  *)
LEMMA ScanNotBeforeItself ==
  ASSUME NEW s \in Ppa
  PROVE  ~ScanBefore(s, s)
<1>1. s.pg \in Nat /\ s.lun \in Nat /\ s.ch \in Nat
  BY Geometry DEF Ppa
<1> DEFINE d == s.pg \div pgs_per_flashpg
<1>2. d \in Nat
  BY <1>1, DivMod, Geometry
<1>3. ScanBefore(s, s) <=> \/ d < d
                           \/ d = d /\ s.ch < s.ch
                           \/ d = d /\ s.ch = s.ch /\ s.lun < s.lun
                           \/ d = d /\ s.ch = s.ch /\ s.lun = s.lun /\ s.pg < s.pg
  BY DEF ScanBefore, Lex
<1> HIDE DEF d
<1> QED BY <1>1, <1>2, <1>3

(* When advance_write_pointer leaves a line it has written every page.     *)
LEMMA LineEnd ==
  ASSUME NEW w \in Ppa, LastOfLine(w), NEW p \in Ppa, p.blk = w.blk
  PROVE  Before(p, w) \/ p = w
<1>1. /\ p.pg \in 0 .. pgs_per_blk - 1
      /\ p.lun \in 0 .. luns_per_ch - 1 /\ p.ch \in 0 .. nchs - 1
      /\ w.pg = pgs_per_blk - 1 /\ w.lun = luns_per_ch - 1 /\ w.ch = nchs - 1
  BY DEF Ppa, LastOfLine
<1>2. \/ Lex(pgs_per_oneshotpg, p.pg, p.lun, p.ch,
             pgs_per_blk - 1, luns_per_ch - 1, nchs - 1)
      \/ p.pg = pgs_per_blk - 1 /\ p.lun = luns_per_ch - 1 /\ p.ch = nchs - 1
  BY <1>1, LexLast, Geometry
<1>3. p = w <=> p.pg = w.pg /\ p.ch = w.ch /\ p.lun = w.lun
  BY SamePage
<1>4. Before(p, w) <=> Lex(pgs_per_oneshotpg, p.pg, p.lun, p.ch, w.pg, w.lun, w.ch)
  BY BeforeIsLex
<1> QED BY <1>1, <1>2, <1>3, <1>4

(* The loops of do_gc come back to no page and skip none ...               *)
LEMMA ScanStep ==
  ASSUME NEW s \in Ppa, ~LastOfScan(s), NEW p \in Ppa, p.blk = s.blk
  PROVE  ScanBefore(p, NextScan(s)) <=> ScanBefore(p, s) \/ p = s
<1> DEFINE n == NextScan(s)
<1>1. /\ p.pg \in Nat /\ p.lun \in 0 .. luns_per_ch - 1 /\ p.ch \in 0 .. nchs - 1
      /\ s.pg \in Nat /\ s.lun \in 0 .. luns_per_ch - 1 /\ s.ch \in 0 .. nchs - 1
  BY Geometry DEF Ppa
<1>2. WalkStep(pgs_per_flashpg, nchs, luns_per_ch,
               s.pg, s.ch, s.lun, n.pg, n.ch, n.lun)
  <2>1. s.pg \in Int
    BY <1>1
  <2>2. CASE (s.pg + 1) % pgs_per_flashpg # 0
    BY <2>1, <2>2 DEF NextScan, EndOfFlashPg, WalkStep, Ppa
  <2>3. CASE (s.pg + 1) % pgs_per_flashpg = 0
    <3>1. CASE s.lun + 1 # luns_per_ch
      BY <2>1, <2>3, <3>1, Geometry DEF NextScan, EndOfFlashPg, WalkStep, Ppa
    <3>2. CASE s.lun + 1 = luns_per_ch /\ s.ch + 1 # nchs
      BY <2>1, <2>3, <3>2, Geometry DEF NextScan, EndOfFlashPg, WalkStep, Ppa
    <3>3. CASE s.lun + 1 = luns_per_ch /\ s.ch + 1 = nchs
      BY <2>1, <2>3, <3>3 DEF NextScan, EndOfFlashPg, WalkStep, Ppa
    <3> QED BY <3>1, <3>2, <3>3
  <2> QED BY <2>2, <2>3
<1> HIDE DEF n
<1>3. Lex(pgs_per_flashpg, p.pg, p.ch, p.lun, n.pg, n.ch, n.lun)
        <=> \/ Lex(pgs_per_flashpg, p.pg, p.ch, p.lun, s.pg, s.ch, s.lun)
            \/ p.pg = s.pg /\ p.ch = s.ch /\ p.lun = s.lun
  <2> DEFINE k == pgs_per_flashpg
             A == nchs
             B == luns_per_ch
             q == p.pg
             x == p.ch
             y == p.lun
             pg == s.pg
             a == s.ch
             b == s.lun
             p2 == n.pg
             a2 == n.ch
             b2 == n.lun
  <2>1. /\ k \in Nat \ {0} /\ A \in Nat \ {0} /\ B \in Nat \ {0}
        /\ q \in Nat /\ x \in 0 .. A - 1 /\ y \in 0 .. B - 1
        /\ pg \in Nat /\ a \in 0 .. A - 1 /\ b \in 0 .. B - 1
        /\ WalkStep(k, A, B, pg, a, b, p2, a2, b2)
    BY <1>1, <1>2, Geometry
  <2> HIDE DEF k, A, B, q, x, y, pg, a, b, p2, a2, b2
  <2>2. PassesOnlyIt(k, q, x, y, pg, a, b, p2, a2, b2)
    BY <2>1, LexStep
  <2> QED BY <2>2 DEF PassesOnlyIt, k, A, B, q, x, y, pg, a, b, p2, a2, b2
<1>4. p = s <=> p.pg = s.pg /\ p.ch = s.ch /\ p.lun = s.lun
  BY SamePage
<1> QED BY <1>3, <1>4 DEF ScanBefore, n

(* ... and end when every page has been visited.                           *)
LEMMA ScanEnd ==
  ASSUME NEW s \in Ppa, LastOfScan(s), NEW p \in Ppa, p.blk = s.blk
  PROVE  ScanBefore(p, s) \/ p = s
<1>1. /\ p.pg \in 0 .. pgs_per_blk - 1
      /\ p.lun \in 0 .. luns_per_ch - 1 /\ p.ch \in 0 .. nchs - 1
      /\ s.pg = pgs_per_blk - 1 /\ s.lun = luns_per_ch - 1 /\ s.ch = nchs - 1
  BY DEF Ppa, LastOfScan, EndOfBlock
<1>2. \/ Lex(pgs_per_flashpg, p.pg, p.ch, p.lun,
             pgs_per_blk - 1, nchs - 1, luns_per_ch - 1)
      \/ p.pg = pgs_per_blk - 1 /\ p.ch = nchs - 1 /\ p.lun = luns_per_ch - 1
  BY <1>1, LexLast, Geometry, FlashPagesFillBlock
<1>3. p = s <=> p.pg = s.pg /\ p.ch = s.ch /\ p.lun = s.lun
  BY SamePage
<1> QED BY <1>1, <1>2, <1>3 DEF ScanBefore

-----------------------------------------------------------------------------
(***************************************************************************)
(* Type correctness                                                        *)
(***************************************************************************)

(* What advance_write_pointer leaves, as long as there is a line to take.  *)
LEMMA AdvanceType ==
  ASSUME TypeOK, pc # "oops", NEW t \in IoTypes, NEW vp \in Int,
         NEW full \in SUBSET Lines, NEW victims \in SUBSET Lines,
         AdvanceWritePointer(t, vp, full, victims)
  PROVE  /\ wp' \in [IoTypes -> Ppa \cup {FirstPage(NULL)}]
         /\ ~RunsDry(t) => wp' \in [IoTypes -> Ppa]
         /\ full_line_list' \subseteq Lines
         /\ victim_line_pq' \subseteq Lines
         /\ free_line_list' \in Seq(Lines)
         /\ free_line_cnt' \in Int
<1>1. /\ wp \in [IoTypes -> Ppa] /\ wp[t] \in Ppa /\ wp[t].blk \in Lines
      /\ free_line_list \in Seq(Lines) /\ free_line_cnt \in Int
  BY DEF TypeOK, Ppa
<1>2. CASE ~LastOfLine(wp[t])
  <2>1. NextPage(wp[t]) \in Ppa
    BY <1>1, <1>2, NextPageInLine
  <2> QED BY <1>1, <1>2, <2>1 DEF AdvanceWritePointer
<1>3. CASE LastOfLine(wp[t])
  <2>1. full_line_list' \subseteq Lines /\ victim_line_pq' \subseteq Lines
    BY <1>1, <1>3 DEF AdvanceWritePointer
  <2>2. wp' = [wp EXCEPT ![t] = FirstPage(NextFreeLine)]
    BY <1>3 DEF AdvanceWritePointer
  <2>3. CASE free_line_list = <<>>
    <3>1. NextFreeLine = NULL /\ RunsDry(t)
      BY <1>3, <2>3 DEF NextFreeLine, RunsDry
    <3>2. UNCHANGED <<free_line_list, free_line_cnt>>
      BY <1>3, <2>3 DEF AdvanceWritePointer
    <3> QED BY <1>1, <2>1, <2>2, <3>1, <3>2
  <2>4. CASE free_line_list # <<>>
    <3>1. NextFreeLine \in Lines
      BY <1>1, <2>4 DEF NextFreeLine
    <3>2. FirstPage(NextFreeLine) \in Ppa
      BY <3>1, FirstPageInLine
    <3>3. free_line_list' = Tail(free_line_list) /\ free_line_cnt' = free_line_cnt - 1
      BY <1>3, <2>4 DEF AdvanceWritePointer
    <3> QED BY <1>1, <2>1, <2>2, <2>4, <3>2, <3>3
  <2> QED BY <2>3, <2>4
<1> QED BY <1>2, <1>3

(* The dispatcher's first state.                                           *)
LEMMA InitType == Init => TypeOK
<1> SUFFICES ASSUME Init PROVE TypeOK
  OBVIOUS
<1> DEFINE N == Cardinality(Lines)
<1>1. N \in Nat /\ N >= 3
  BY LinesAssumption, FS_CardinalityType
<1>2. PICK order \in [1 .. N -> Lines] :
        /\ wp = [t \in IoTypes |->
                   FirstPage(order[CASE t = USER_IO -> 1
                                     [] t = GC_IO_HOT -> 2
                                     [] t = GC_IO_COLD -> 3])]
        /\ free_line_list = SubSeq(order, 4, N)
  BY DEF Init
<1>3. wp \in [IoTypes -> Ppa]
  <2>1. order[1] \in Lines /\ order[2] \in Lines /\ order[3] \in Lines
    BY <1>1, <1>2
  <2>2. /\ FirstPage(order[1]) \in Ppa /\ FirstPage(order[2]) \in Ppa
        /\ FirstPage(order[3]) \in Ppa
    BY <2>1, FirstPageInLine
  <2> QED BY <1>2, <2>2 DEF IoTypes, USER_IO, GC_IO_HOT, GC_IO_COLD
<1>4. free_line_list \in Seq(Lines)
  BY <1>1, <1>2
<1>5. pgs_per_line \in Nat \ {0}
  BY LineNotEmpty
<1>6. free_line_cnt \in Int
  BY <1>1 DEF Init
<1>7. /\ maptbl \in [Lpns -> Ppa \cup {UNMAPPED_PPA}]
      /\ rmap \in [Ppa -> Lpns \cup {INVALID_LPN}]
      /\ status \in [Ppa -> {"FREE", "VALID", "INVALID"}]
      /\ vpc \in [Lines -> Int]
      /\ ipc \in [Lines -> Nat]
      /\ full_line_list \subseteq Lines
      /\ victim_line_pq \subseteq Lines
  BY DEF Init
<1>8. /\ write_credits = pgs_per_line /\ credits_to_refill = pgs_per_line
      /\ pc = "write"
  BY DEF Init
<1> QED BY <1>3, <1>4, <1>5, <1>6, <1>7, <1>8 DEF TypeOK, PcType

(* Every step of the dispatcher.                                           *)
LEMMA NextType == TypeOK /\ [Next]_vars => TypeOK'
<1> SUFFICES ASSUME TypeOK, [Next]_vars PROVE TypeOK'
  OBVIOUS
<1> USE DEF IoTypes, USER_IO, GC_IO_HOT, GC_IO_COLD
<1>1. ASSUME NEW lpn \in Lpns, WriteNew(lpn)
      PROVE  TypeOK'
  <2> DEFINE new == wp[USER_IO]
  <2>1. pc = "write" /\ new \in Ppa /\ new.blk \in Lines /\ write_credits - 1 \in Nat
    BY <1>1 DEF WriteNew, TypeOK, Ppa
  <2>2. /\ maptbl' \in [Lpns -> Ppa \cup {UNMAPPED_PPA}]
        /\ rmap' \in [Ppa -> Lpns \cup {INVALID_LPN}]
        /\ status' \in [Ppa -> {"FREE", "VALID", "INVALID"}]
        /\ vpc' \in [Lines -> Int] /\ ipc' \in [Lines -> Nat]
    BY <1>1, <2>1 DEF WriteNew, TypeOK
  <2>3. AdvanceWritePointer(USER_IO, vpc'[new.blk], full_line_list, victim_line_pq)
    BY <1>1 DEF WriteNew
  <2>4. vpc'[new.blk] \in Int
    BY <2>1, <2>2
  <2>5. full_line_list \in SUBSET Lines /\ victim_line_pq \in SUBSET Lines
    BY DEF TypeOK
  <2>6. /\ wp' \in [IoTypes -> Ppa \cup {FirstPage(NULL)}]
        /\ ~RunsDry(USER_IO) => wp' \in [IoTypes -> Ppa]
        /\ full_line_list' \subseteq Lines /\ victim_line_pq' \subseteq Lines
        /\ free_line_list' \in Seq(Lines) /\ free_line_cnt' \in Int
    BY <2>1, <2>3, <2>4, <2>5, AdvanceType
  <2>7. /\ write_credits' = write_credits - 1
        /\ pc' = IF RunsDry(USER_IO) THEN "oops"
                 ELSE IF write_credits' <= 0 THEN "credit" ELSE "write"
        /\ credits_to_refill' = credits_to_refill
    BY <1>1 DEF WriteNew
  <2>8. credits_to_refill \in Nat
    BY DEF TypeOK
  <2> QED BY <2>1, <2>2, <2>6, <2>7, <2>8 DEF TypeOK, PcType
<1>2. ASSUME NEW lpn \in Lpns, Overwrite(lpn)
      PROVE  TypeOK'
  <2> DEFINE new == wp[USER_IO]
             old == maptbl[lpn]
  <2>1. /\ pc = "write" /\ new \in Ppa /\ new.blk \in Lines
        /\ old \in Ppa /\ old.blk \in Lines /\ write_credits - 1 \in Nat
    BY <1>2 DEF Overwrite, TypeOK, Ppa
  <2>2. /\ maptbl' \in [Lpns -> Ppa \cup {UNMAPPED_PPA}]
        /\ rmap' \in [Ppa -> Lpns \cup {INVALID_LPN}]
        /\ status' \in [Ppa -> {"FREE", "VALID", "INVALID"}]
        /\ ipc' \in [Lines -> Nat]
    <3>1. /\ maptbl' = [maptbl EXCEPT ![lpn] = new]
          /\ rmap' = [rmap EXCEPT ![old] = INVALID_LPN, ![new] = lpn]
          /\ status' = [status EXCEPT ![old] = "INVALID", ![new] = "VALID"]
          /\ ipc' = [ipc EXCEPT ![old.blk] = @ + 1]
      BY <1>2 DEF Overwrite
    <3>2. /\ maptbl \in [Lpns -> Ppa \cup {UNMAPPED_PPA}]
          /\ rmap \in [Ppa -> Lpns \cup {INVALID_LPN}]
          /\ status \in [Ppa -> {"FREE", "VALID", "INVALID"}]
          /\ ipc \in [Lines -> Nat]
      BY DEF TypeOK
    <3> HIDE DEF new, old
    <3>3. maptbl' \in [Lpns -> Ppa \cup {UNMAPPED_PPA}]
      BY <2>1, <3>1, <3>2
    <3>4. rmap' \in [Ppa -> Lpns \cup {INVALID_LPN}]
      BY <2>1, <3>1, <3>2
    <3>5. status' \in [Ppa -> {"FREE", "VALID", "INVALID"}]
      BY <2>1, <3>1, <3>2
    <3>6. ipc' \in [Lines -> Nat]
      BY <2>1, <3>1, <3>2
    <3> QED BY <3>3, <3>4, <3>5, <3>6
  <2>3. vpc' \in [Lines -> Int] /\ vpc'[new.blk] \in Int
    <3>1. vpc' = [[vpc EXCEPT ![old.blk] = @ - 1] EXCEPT ![new.blk] = @ + 1]
      BY <1>2 DEF Overwrite
    <3>2. vpc \in [Lines -> Int]
      BY DEF TypeOK
    <3> HIDE DEF new, old
    <3>3. [vpc EXCEPT ![old.blk] = @ - 1] \in [Lines -> Int]
      BY <2>1, <3>2
    <3> QED BY <2>1, <3>1, <3>3
  <2>4. AdvanceWritePointer(USER_IO, vpc'[new.blk],
                            FullAfterInvalid(old.blk), VictimsAfterInvalid(old.blk))
    BY <1>2 DEF Overwrite
  <2>5. /\ FullAfterInvalid(old.blk) \in SUBSET Lines
        /\ VictimsAfterInvalid(old.blk) \in SUBSET Lines
    BY <2>1 DEF TypeOK, FullAfterInvalid, VictimsAfterInvalid
  <2>6. /\ wp' \in [IoTypes -> Ppa \cup {FirstPage(NULL)}]
        /\ ~RunsDry(USER_IO) => wp' \in [IoTypes -> Ppa]
        /\ full_line_list' \subseteq Lines /\ victim_line_pq' \subseteq Lines
        /\ free_line_list' \in Seq(Lines) /\ free_line_cnt' \in Int
    BY <2>1, <2>3, <2>4, <2>5, AdvanceType
  <2>7. /\ write_credits' = write_credits - 1
        /\ pc' = IF RunsDry(USER_IO) THEN "oops"
                 ELSE IF write_credits' <= 0 THEN "credit" ELSE "write"
        /\ credits_to_refill' = credits_to_refill
    BY <1>2 DEF Overwrite
  <2>8. credits_to_refill \in Nat
    BY DEF TypeOK
  <2> QED BY <2>1, <2>2, <2>3, <2>6, <2>7, <2>8 DEF TypeOK, PcType
<1>3. ASSUME NEW r \in Nat
      PROVE  Refilled(r) \in Nat /\ Refilled(r) > 0
  BY DEF Refilled, TypeOK
<1>4. CASE SkipGc
  <2>1. write_credits' \in Nat /\ write_credits' > 0
    BY <1>3, <1>4 DEF SkipGc, TypeOK
  <2> QED BY <1>4, <2>1 DEF SkipGc, TypeOK, PcType, mapVars, lineVars, gcVars
<1>5. CASE NoVictim
  <2>1. write_credits' \in Nat /\ write_credits' > 0
    BY <1>3, <1>5 DEF NoVictim
  <2> QED BY <1>5, <2>1 DEF NoVictim, TypeOK, PcType, mapVars, lineVars, gcVars
<1>6. ASSUME NEW l \in Lines, SelectVictim(l)
      PROVE  TypeOK'
  <2>1. FirstPage(l) \in Ppa
    BY FirstPageInLine
  <2> QED BY <1>6, <2>1 DEF SelectVictim, TypeOK, PcType, mapVars
<1>7. ASSUME NEW s \in Ppa, NEW st \in [Ppa -> {"FREE", "VALID", "INVALID"}]
      PROVE  Erased(st, s) \in [Ppa -> {"FREE", "VALID", "INVALID"}]
  BY DEF Erased
<1>8. CASE GcSkipPage
  <2>1. pc = "gc" /\ scan \in Ppa /\ victim \in Lines
    BY <1>8 DEF GcSkipPage, TypeOK
  <2>2. status' \in [Ppa -> {"FREE", "VALID", "INVALID"}]
    BY <1>7, <1>8, <2>1 DEF GcSkipPage, TypeOK
  <2>3. scan' \in Ppa
    BY <1>8, <2>1, NextScanInLine DEF GcSkipPage
  <2> QED BY <1>8, <2>1, <2>2, <2>3 DEF GcSkipPage, TypeOK, PcType, lineVars
<1>9. ASSUME NEW t \in {GC_IO_HOT, GC_IO_COLD}, GcCopyPage(t)
      PROVE  TypeOK'
  <2> DEFINE new == wp[t]
  <2>1. /\ pc = "gc" /\ scan \in Ppa /\ victim \in Lines
        /\ new \in Ppa /\ new.blk \in Lines /\ t \in IoTypes
    BY <1>9 DEF GcCopyPage, TypeOK, Ppa
  <2>2. /\ maptbl' \in [Lpns -> Ppa \cup {UNMAPPED_PPA}]
        /\ rmap' \in [Ppa -> Lpns \cup {INVALID_LPN}]
        /\ vpc' \in [Lines -> Int] /\ ipc' \in [Lines -> Nat]
    <3> DEFINE lpn == rmap[scan]
    <3>1. /\ maptbl' = [maptbl EXCEPT ![lpn] = new]
          /\ rmap' = [rmap EXCEPT ![new] = lpn]
          /\ vpc' = [vpc EXCEPT ![new.blk] = @ + 1]
          /\ ipc' = ipc
      BY <1>9 DEF GcCopyPage
    <3>2. /\ maptbl \in [Lpns -> Ppa \cup {UNMAPPED_PPA}]
          /\ rmap \in [Ppa -> Lpns \cup {INVALID_LPN}]
          /\ vpc \in [Lines -> Int] /\ ipc \in [Lines -> Nat]
      BY DEF TypeOK
    <3>3. lpn \in Lpns \cup {INVALID_LPN}
      BY <2>1, <3>2
    <3> HIDE DEF new, lpn
    <3>4. maptbl' \in [Lpns -> Ppa \cup {UNMAPPED_PPA}]
      BY <2>1, <3>1, <3>2
    <3>5. rmap' \in [Ppa -> Lpns \cup {INVALID_LPN}]
      BY <2>1, <3>1, <3>2, <3>3
    <3>6. vpc' \in [Lines -> Int]
      BY <2>1, <3>1, <3>2
    <3> QED BY <3>1, <3>2, <3>4, <3>5, <3>6
  <2>3. status' \in [Ppa -> {"FREE", "VALID", "INVALID"}]
    <3>1. [status EXCEPT ![new] = "VALID"] \in [Ppa -> {"FREE", "VALID", "INVALID"}]
      BY <2>1 DEF TypeOK
    <3> QED BY <1>7, <1>9, <2>1, <3>1 DEF GcCopyPage
  <2>4. AdvanceWritePointer(t, vpc'[new.blk], full_line_list, victim_line_pq)
    BY <1>9 DEF GcCopyPage
  <2>5. /\ vpc'[new.blk] \in Int
        /\ full_line_list \in SUBSET Lines /\ victim_line_pq \in SUBSET Lines
    BY <2>1, <2>2 DEF TypeOK
  <2>6. /\ wp' \in [IoTypes -> Ppa \cup {FirstPage(NULL)}]
        /\ ~RunsDry(t) => wp' \in [IoTypes -> Ppa]
        /\ full_line_list' \subseteq Lines /\ victim_line_pq' \subseteq Lines
        /\ free_line_list' \in Seq(Lines) /\ free_line_cnt' \in Int
    BY <2>1, <2>4, <2>5, AdvanceType
  <2>7. /\ pc' = IF RunsDry(t) THEN "oops"
                 ELSE IF LastOfScan(scan) THEN "free" ELSE "gc"
        /\ UNCHANGED <<write_credits, credits_to_refill, victim>>
    BY <1>9 DEF GcCopyPage
  <2>8. scan' \in Ppa
    BY <1>9, <2>1, NextScanInLine DEF GcCopyPage
  <2>9. write_credits \in Nat /\ credits_to_refill \in Nat
    BY DEF TypeOK
  <2> QED BY <2>1, <2>2, <2>3, <2>6, <2>7, <2>8, <2>9 DEF TypeOK, PcType
<1>10. CASE GcFreeLine
  <2>1. victim \in Lines
    BY <1>10 DEF GcFreeLine, TypeOK
  <2>2. write_credits' \in Nat /\ write_credits' > 0
    BY <1>3, <1>10 DEF GcFreeLine, TypeOK
  <2> QED BY <1>10, <2>1, <2>2 DEF GcFreeLine, Cleared, TypeOK, PcType, mapVars
<1>11. CASE UNCHANGED vars
  BY <1>11 DEF vars, mapVars, lineVars, gcVars, TypeOK
<1> QED BY <1>1, <1>2, <1>4, <1>5, <1>6, <1>8, <1>9, <1>10, <1>11
        DEF Next, Write, ForegroundGc, GcStep

(* Whatever the host writes and the GC moves, the FTL's state stays well   *)
(* typed; in particular it never tries to write without a credit, and only *)
(* the dereference of a NULL line leaves a write pointer without a line.   *)
THEOREM TypeCorrect == Spec => []TypeOK
<1>1. Init => TypeOK
  BY InitType
<1>2. TypeOK /\ [Next]_vars => TypeOK'
  BY NextType
<1> QED BY <1>1, <1>2, PTL DEF Spec

-----------------------------------------------------------------------------
(***************************************************************************)
(* The inductive invariant of ConvFtl: the mapping, the line counters and  *)
(* the line lists are consistent in every reachable state.                 *)
(***************************************************************************)

(* Five sets share out the lines.                                          *)
Partition(F, U, Q, O, C) ==
  /\ F \cup U \cup Q \cup O \cup C = Lines
  /\ F \cap U = {} /\ F \cap Q = {} /\ F \cap O = {} /\ F \cap C = {}
  /\ U \cap Q = {} /\ U \cap O = {} /\ U \cap C = {}
  /\ Q \cap O = {} /\ Q \cap C = {}
  /\ O \cap C = {}

(* The line being collected, if any.                                       *)
Collected == IF pc \in {"gc", "free"} THEN {victim} ELSE {}

(* No two write pointers share a line, and no line is twice in the free    *)
(* list, which is as long as free_line_cnt says.                           *)
ListsAreSets ==
  /\ \A t, u \in IoTypes : wp[t].blk = wp[u].blk => t = u
  /\ \A i, j \in DOMAIN free_line_list :
       free_line_list[i] = free_line_list[j] => i = j
  /\ free_line_cnt = Len(free_line_list)

LinesPlaced ==
  /\ Partition(FreeLines, full_line_list, victim_line_pq, OpenLines, Collected)
  /\ ListsAreSets

(* The pages a write pointer has still to come to are free.                *)
OpenPagesFree ==
  \A t \in IoTypes : \A p \in PagesOf(wp[t].blk) :
    ~Before(p, wp[t]) => status[p] = "FREE"

FreeLinesErased == \A l \in FreeLines : \A p \in PagesOf(l) : status[p] = "FREE"

(* mark_page_invalid takes a line with only valid pages for a full one.    *)
QueuedNotFull == \A l \in victim_line_pq : vpc[l] < pgs_per_line

(* The last page the GC visits of the block of p.                          *)
BlockEnd(p) == [p EXCEPT !.pg = pgs_per_blk - 1]

(* Where the GC stands, and what it leaves behind: nothing maps to a page  *)
(* it has visited, and the blocks it has finished are erased.              *)
CollectionOrder ==
  /\ pc \in {"write", "credit"} => victim = NULL
  /\ pc \in {"gc", "free"} => scan.blk = victim
  /\ pc \in {"gc", "free"} =>
       \A p \in PagesOf(victim) : Visited(BlockEnd(p)) => status[p] = "FREE"
  /\ \A p \in Ppa : Visited(p) => \A lpn \in Lpns : maptbl[lpn] # p

(* Nothing but the mapping and the counters is kept once a NULL line has   *)
(* been dereferenced; no step follows.                                     *)
Inv ==
  /\ TypeOK
  /\ MappingConsistent
  /\ LineCountersExact
  /\ pc # "oops" =>
       /\ LinesPlaced
       /\ OpenPagesFree
       /\ FreeLinesErased
       /\ QueuedNotFull
       /\ CollectionOrder

-----------------------------------------------------------------------------
(***************************************************************************)
(* Counting the pages of a line                                            *)
(***************************************************************************)

(* The pages of line l in state v, where st is the state of every page.    *)
InState(st, l, v) == {p \in PagesOf(l) : st[p] = v}
Count(st, l, v) == Cardinality(InState(st, l, v))

(* A line has pgs_per_line pages.                                          *)
LEMMA LineSize ==
  ASSUME NEW l \in Lines
  PROVE  IsFiniteSet(PagesOf(l)) /\ Cardinality(PagesOf(l)) = pgs_per_line
<1> DEFINE C == 0 .. nchs - 1
           U == 0 .. luns_per_ch - 1
           G == 0 .. pgs_per_blk - 1
           T == (C \X U) \X G
           page == [t \in T |-> [blk |-> l, ch |-> t[1][1], lun |-> t[1][2],
                                 pg |-> t[2]]]
<1>1. /\ IsFiniteSet(C) /\ Cardinality(C) = nchs
      /\ IsFiniteSet(U) /\ Cardinality(U) = luns_per_ch
      /\ IsFiniteSet(G) /\ Cardinality(G) = pgs_per_blk
  BY FS_Interval, Geometry
<1>2. IsFiniteSet(C \X U) /\ Cardinality(C \X U) = nchs * luns_per_ch
  <2> HIDE DEF C, U
  <2> QED BY <1>1, FS_Product
<1>3. IsFiniteSet(T) /\ Cardinality(T) = pgs_per_line
  <2>1. IsFiniteSet(T) /\ Cardinality(T) = Cardinality(C \X U) * Cardinality(G)
    <3> DEFINE D == C \X U
    <3>1. IsFiniteSet(D) /\ IsFiniteSet(G)
      BY <1>1, <1>2
    <3> HIDE DEF D, G
    <3>2. IsFiniteSet(D \X G) /\ Cardinality(D \X G) = Cardinality(D) * Cardinality(G)
      BY <3>1, FS_Product
    <3> QED BY <3>2 DEF D
  <2> HIDE DEF C, U, G
  <2> QED BY <1>1, <1>2, <2>1 DEF pgs_per_line
<1>4. page \in Bijection(T, PagesOf(l))
  <2>1. ASSUME NEW t \in T PROVE page[t] \in PagesOf(l)
    BY <2>1 DEF PagesOf, Ppa
  <2>2. ASSUME NEW t \in T, NEW u \in T, page[t] = page[u] PROVE t = u
    <3>1. page[t].ch = page[u].ch /\ page[t].lun = page[u].lun /\ page[t].pg = page[u].pg
      BY <2>2
    <3>2. t[1][1] = u[1][1] /\ t[1][2] = u[1][2] /\ t[2] = u[2]
      BY <3>1
    <3> QED BY <3>2
  <2>3. ASSUME NEW p \in PagesOf(l) PROVE \E t \in T : page[t] = p
    <3>1. p \in Ppa /\ p.blk = l
      BY DEF PagesOf
    <3>2. <<<<p.ch, p.lun>>, p.pg>> \in T
      BY <3>1 DEF Ppa
    <3>3. page[<<<<p.ch, p.lun>>, p.pg>>] = p
      BY <3>1, <3>2 DEF Ppa
    <3> QED BY <3>2, <3>3
  <2>4. page \in [T -> PagesOf(l)]
    BY <2>1
  <2> HIDE DEF T, page
  <2>5. page \in Injection(T, PagesOf(l))
    BY <2>2, <2>4 DEF Injection, IsInjective
  <2>6. page \in Surjection(T, PagesOf(l))
    BY <2>3, <2>4 DEF Surjection
  <2> QED BY <2>5, <2>6 DEF Bijection
<1>5. ExistsBijection(T, PagesOf(l))
  BY <1>4 DEF ExistsBijection
<1> HIDE DEF T
<1> QED BY <1>3, <1>5, FS_Bijection

(* A count is at most the number of pages; if it reaches it, every page of *)
(* the line is in that state.                                              *)
LEMMA CountBound ==
  ASSUME NEW st, NEW l \in Lines, NEW v
  PROVE  /\ IsFiniteSet(InState(st, l, v))
         /\ Count(st, l, v) \in Nat
         /\ Count(st, l, v) <= pgs_per_line
         /\ Count(st, l, v) = pgs_per_line => \A p \in PagesOf(l) : st[p] = v
<1>1. InState(st, l, v) \in SUBSET PagesOf(l)
  BY DEF InState
<1>2. /\ IsFiniteSet(InState(st, l, v))
      /\ Cardinality(InState(st, l, v)) <= pgs_per_line
      /\ Cardinality(InState(st, l, v)) = pgs_per_line => InState(st, l, v) = PagesOf(l)
  BY <1>1, LineSize, FS_Subset
<1>3. Cardinality(InState(st, l, v)) \in Nat
  BY <1>2, FS_CardinalityType
<1> QED BY <1>2, <1>3 DEF Count, InState

(* Page q alone changes its state, to w.                                   *)
Changes(st, st2, q, w) ==
  DOMAIN st = Ppa /\ st[q] # w /\ st2 = [st EXCEPT ![q] = w]

(* It leaves the count of its old state for that of its new one.           *)
LEMMA CountChange ==
  ASSUME NEW st, NEW st2, NEW q \in Ppa, NEW w, Changes(st, st2, q, w),
         NEW l \in Lines, NEW v
  PROVE  Count(st2, l, v) = IF l = q.blk /\ v = w THEN Count(st, l, v) + 1
                            ELSE IF l = q.blk /\ v = st[q] THEN Count(st, l, v) - 1
                            ELSE Count(st, l, v)
<1>1. IsFiniteSet(InState(st, l, v))
  BY CountBound
<1>2. CASE l = q.blk /\ v = w
  <2>1. InState(st2, l, v) = InState(st, l, v) \cup {q} /\ q \notin InState(st, l, v)
    BY <1>2 DEF Changes, InState, PagesOf
  <2>2. Cardinality(InState(st, l, v) \cup {q}) = Cardinality(InState(st, l, v)) + 1
    BY <1>1, <2>1, FS_AddElement
  <2> QED BY <1>2, <2>1, <2>2 DEF Count
<1>3. CASE l = q.blk /\ v # w /\ v = st[q]
  <2>1. InState(st2, l, v) = InState(st, l, v) \ {q} /\ q \in InState(st, l, v)
    BY <1>3 DEF Changes, InState, PagesOf
  <2> QED BY <1>1, <1>3, <2>1, FS_RemoveElement DEF Count
<1>4. CASE l # q.blk \/ (v # w /\ v # st[q])
  <2>1. InState(st2, l, v) = InState(st, l, v)
    BY <1>4 DEF Changes, InState, PagesOf
  <2> QED BY <1>4, <2>1 DEF Count
<1> QED BY <1>2, <1>3, <1>4

(* Lines where no page changes keep their counts.                          *)
LEMMA CountSame ==
  ASSUME NEW st, NEW st2, NEW l, NEW v, \A p \in PagesOf(l) : st2[p] = st[p]
  PROVE  Count(st2, l, v) = Count(st, l, v)
<1>1. InState(st2, l, v) = InState(st, l, v)
  BY DEF InState
<1> QED BY <1>1 DEF Count

(* Every page of a line is free, valid or invalid.                         *)
LEMMA LineCounts ==
  ASSUME TypeOK, NEW l \in Lines
  PROVE  Count(status, l, "VALID") + Count(status, l, "INVALID")
           = pgs_per_line - Count(status, l, "FREE")
<1> DEFINE S == PagesOf(l)
           V == InState(status, l, "VALID")
           I == InState(status, l, "INVALID")
           F == InState(status, l, "FREE")
<1>1. V \cap I = {} /\ (V \cup I) \cap F = {} /\ (V \cup I) \cup F = S
  BY DEF InState, TypeOK, PagesOf
<1>2. /\ IsFiniteSet(V) /\ IsFiniteSet(I) /\ IsFiniteSet(F)
      /\ Cardinality(V) \in Nat /\ Cardinality(I) \in Nat /\ Cardinality(F) \in Nat
  BY CountBound DEF Count
<1>3. Cardinality(S) = pgs_per_line
  BY LineSize
<1> HIDE DEF S, V, I, F
<1>4. IsFiniteSet(V \cup I) /\ Cardinality(V \cup I) = Cardinality(V) + Cardinality(I)
  BY <1>1, <1>2, FS_Union, FS_EmptySet
<1>5. Cardinality(S) = Cardinality(V \cup I) + Cardinality(F)
  <2> DEFINE A == V \cup I
  <2>1. IsFiniteSet(A) /\ A \cap F = {} /\ A \cup F = S
    BY <1>1, <1>4
  <2>2. Cardinality(A) \in Nat
    BY <1>2, <1>4
  <2> HIDE DEF A
  <2>3. Cardinality(A \cup F) = Cardinality(A) + Cardinality(F)
    BY <1>2, <2>1, <2>2, FS_Union, FS_EmptySet
  <2> QED BY <2>1, <2>3 DEF A
<1>6. Cardinality(V) + Cardinality(I) = pgs_per_line - Cardinality(F)
  BY <1>2, <1>3, <1>4, <1>5, LineNotEmpty
<1> QED BY <1>6 DEF Count, V, I, F

(* The counters of a line, as LineCountersExact has them.                  *)
LEMMA CountersAreCounts ==
  LineCountersExact <=>
    \A l \in Lines \ {victim} :
      vpc[l] = Count(status, l, "VALID") /\ ipc[l] = Count(status, l, "INVALID")
BY DEF LineCountersExact, Count, InState

-----------------------------------------------------------------------------
(***************************************************************************)
(* What advance_write_pointer leaves                                       *)
(***************************************************************************)

(* get_next_free_line takes one line off the free list.                    *)
LEMMA TakeFreeLine ==
  ASSUME NEW s \in Seq(Lines), s # <<>>,
         \A i, j \in DOMAIN s : s[i] = s[j] => i = j
  PROVE  /\ Tail(s) \in Seq(Lines) /\ Len(Tail(s)) = Len(s) - 1
         /\ \A i, j \in DOMAIN Tail(s) : Tail(s)[i] = Tail(s)[j] => i = j
         /\ Head(s) \in {s[i] : i \in DOMAIN s}
         /\ {Tail(s)[i] : i \in DOMAIN Tail(s)} = {s[i] : i \in DOMAIN s} \ {Head(s)}
<1> DEFINE r == Tail(s)
<1>1. /\ Len(s) \in Nat \ {0} /\ DOMAIN s = 1 .. Len(s) /\ Head(s) = s[1]
      /\ r \in Seq(Lines) /\ Len(r) = Len(s) - 1 /\ DOMAIN r = 1 .. Len(s) - 1
      /\ \A i \in 1 .. Len(s) - 1 : r[i] = s[i + 1]
  OBVIOUS
<1> HIDE DEF r
<1>2. \A i, j \in DOMAIN r : r[i] = r[j] => i = j
  <2> SUFFICES ASSUME NEW i \in 1 .. Len(s) - 1, NEW j \in 1 .. Len(s) - 1,
                      r[i] = r[j]
               PROVE  i = j
    BY <1>1
  <2>1. s[i + 1] = s[j + 1] /\ i + 1 \in DOMAIN s /\ j + 1 \in DOMAIN s
    BY <1>1
  <2>2. i + 1 = j + 1
    BY <2>1
  <2> QED BY <2>2
<1>3. ASSUME NEW l \in {r[i] : i \in DOMAIN r}
      PROVE  l \in {s[i] : i \in DOMAIN s} \ {Head(s)}
  <2>1. PICK i \in 1 .. Len(s) - 1 : l = s[i + 1]
    BY <1>1, <1>3
  <2>2. i + 1 \in DOMAIN s /\ 1 \in DOMAIN s /\ i + 1 # 1
    BY <1>1
  <2> QED BY <1>1, <2>1, <2>2
<1>4. ASSUME NEW l \in {s[i] : i \in DOMAIN s} \ {Head(s)}
      PROVE  l \in {r[i] : i \in DOMAIN r}
  <2>1. PICK i \in DOMAIN s : l = s[i] /\ i # 1
    BY <1>1, <1>4
  <2>2. i - 1 \in DOMAIN r /\ r[i - 1] = l
    BY <1>1, <2>1
  <2> QED BY <2>2
<1> QED BY <1>1, <1>2, <1>3, <1>4 DEF r

(* A line moves from the open ones to full or victim lines, and a free one *)
(* takes its place: no line is lost and none is in two places.             *)
LEMMA AdvancePlaces ==
  ASSUME TypeOK, pc # "oops", ListsAreSets,
         NEW t \in IoTypes, NEW vp, NEW full, NEW victims, NEW C,
         Partition(FreeLines, full, victims, OpenLines, C),
         AdvanceWritePointer(t, vp, full, victims), ~RunsDry(t)
  PROVE  /\ Partition(FreeLines', full_line_list', victim_line_pq', OpenLines', C)
         /\ ListsAreSets'
         /\ FreeLines' \subseteq FreeLines
         /\ \A u \in IoTypes \ {t} : wp'[u] = wp[u]
         /\ \/ ~LastOfLine(wp[t]) /\ wp'[t] = NextPage(wp[t])
            \/ \E l \in FreeLines : wp'[t] = FirstPage(l)
         /\ victim_line_pq' \subseteq
              victims \cup (IF vp # pgs_per_line THEN {wp[t].blk} ELSE {})
<1> DEFINE w == wp[t]
<1>1. /\ wp \in [IoTypes -> Ppa] /\ w \in Ppa /\ w.blk \in Lines
      /\ free_line_list \in Seq(Lines) /\ free_line_cnt \in Int
  BY DEF TypeOK, Ppa
<1>2. CASE ~LastOfLine(w)
  <2>1. /\ wp' = [wp EXCEPT ![t] = NextPage(w)]
        /\ full_line_list' = full /\ victim_line_pq' = victims
        /\ UNCHANGED <<free_line_list, free_line_cnt>>
    BY <1>2 DEF AdvanceWritePointer
  <2>2. NextPage(w).blk = w.blk
    BY <1>1, <1>2, NextPageInLine
  <2>3. \A u \in IoTypes : wp'[u].blk = wp[u].blk
    <3> HIDE DEF w
    <3>1. ASSUME NEW u \in IoTypes PROVE wp'[u].blk = wp[u].blk
      <4>1. CASE u = t
        BY <1>1, <2>1, <2>2, <4>1 DEF w
      <4>2. CASE u # t
        BY <1>1, <2>1, <4>2
      <4> QED BY <4>1, <4>2
    <3> QED BY <3>1
  <2>4. OpenLines' = OpenLines /\ FreeLines' = FreeLines
    BY <2>1, <2>3 DEF OpenLines, FreeLines
  <2>5. ListsAreSets'
    BY <2>1, <2>3 DEF ListsAreSets
  <2>6. wp'[t] = NextPage(w) /\ \A u \in IoTypes \ {t} : wp'[u] = wp[u]
    BY <1>1, <2>1
  <2> QED BY <1>2, <2>1, <2>4, <2>5, <2>6
<1>3. CASE LastOfLine(w)
  <2> DEFINE h == Head(free_line_list)
  <2>1. free_line_list # <<>>
    BY <1>3 DEF RunsDry
  <2>2. /\ wp' = [wp EXCEPT ![t] = FirstPage(h)]
        /\ free_line_list' = Tail(free_line_list)
        /\ free_line_cnt' = free_line_cnt - 1
    BY <1>3, <2>1 DEF AdvanceWritePointer, NextFreeLine
  <2>3. \/ /\ vp = pgs_per_line
           /\ full_line_list' = full \cup {w.blk} /\ victim_line_pq' = victims
        \/ /\ vp # pgs_per_line
           /\ full_line_list' = full /\ victim_line_pq' = victims \cup {w.blk}
    BY <1>3 DEF AdvanceWritePointer
  <2>4. /\ FreeLines' = FreeLines \ {h} /\ h \in FreeLines
        /\ Len(free_line_list') = Len(free_line_list) - 1
        /\ \A i, j \in DOMAIN free_line_list' :
             free_line_list'[i] = free_line_list'[j] => i = j
    <3> DEFINE s == free_line_list
    <3>1. \A i, j \in DOMAIN s : s[i] = s[j] => i = j
      BY DEF ListsAreSets
    <3>2. /\ Len(Tail(s)) = Len(s) - 1
          /\ \A i, j \in DOMAIN Tail(s) : Tail(s)[i] = Tail(s)[j] => i = j
          /\ h \in {s[i] : i \in DOMAIN s}
          /\ {Tail(s)[i] : i \in DOMAIN Tail(s)} = {s[i] : i \in DOMAIN s} \ {h}
      BY <1>1, <2>1, <3>1, TakeFreeLine
    <3>3. FreeLines = {s[i] : i \in DOMAIN s}
      BY DEF FreeLines
    <3>4. FreeLines' = {Tail(s)[i] : i \in DOMAIN Tail(s)}
      BY <2>2 DEF FreeLines
    <3> HIDE DEF h
    <3> QED BY <2>2, <3>2, <3>3, <3>4
  <2>5. /\ wp'[t] = FirstPage(h) /\ wp'[t].blk = h
        /\ \A u \in IoTypes \ {t} : wp'[u] = wp[u]
    BY <1>1, <2>2 DEF FirstPage
  <2>6. h \notin OpenLines /\ h \in Lines
    BY <2>4 DEF Partition
  <2>7. OpenLines' = (OpenLines \ {w.blk}) \cup {h}
    <3>1. \A u \in IoTypes : wp[u].blk = w.blk <=> u = t
      BY DEF ListsAreSets
    <3> QED BY <2>5, <3>1 DEF OpenLines
  <2>8. ListsAreSets'
    <3>1. \A u \in IoTypes \ {t} : wp'[u].blk # h
      BY <2>5, <2>6 DEF OpenLines
    <3>2. \A u, x \in IoTypes : wp'[u].blk = wp'[x].blk => u = x
      BY <2>5, <3>1 DEF ListsAreSets
    <3>3. free_line_cnt' = Len(free_line_list')
      BY <1>1, <2>2, <2>4 DEF ListsAreSets
    <3> QED BY <2>4, <3>2, <3>3 DEF ListsAreSets
  <2>9. w.blk \in OpenLines /\ w.blk \in Lines
    BY <1>1 DEF OpenLines
  <2> HIDE DEF h, w
  <2>10. Partition(FreeLines', full_line_list', victim_line_pq', OpenLines', C)
    BY <2>3, <2>4, <2>6, <2>7, <2>9 DEF Partition
  <2>11. victim_line_pq' \subseteq
           victims \cup (IF vp # pgs_per_line THEN {w.blk} ELSE {})
    BY <2>3
  <2> QED BY <2>4, <2>5, <2>8, <2>10, <2>11 DEF w
<1> QED BY <1>2, <1>3

(* Every page still to be written stays free, and is not the page that was *)
(* written; so are the pages of the free lines.                            *)
LEMMA AdvancePages ==
  ASSUME TypeOK, pc # "oops", LinesPlaced, OpenPagesFree, FreeLinesErased,
         NEW t \in IoTypes,
         FreeLines' \subseteq FreeLines,
         \A u \in IoTypes \ {t} : wp'[u] = wp[u],
         \/ ~LastOfLine(wp[t]) /\ wp'[t] = NextPage(wp[t])
         \/ \E l \in FreeLines : wp'[t] = FirstPage(l)
  PROVE  /\ \A u \in IoTypes : \A p \in PagesOf(wp'[u].blk) :
              ~Before(p, wp'[u]) => status[p] = "FREE" /\ p # wp[t]
         /\ \A l \in FreeLines' : \A p \in PagesOf(l) :
              status[p] = "FREE" /\ p # wp[t]
<1> DEFINE w == wp[t]
<1>1. w \in Ppa /\ w.blk \in Lines /\ w.blk \in OpenLines
  BY DEF TypeOK, Ppa, OpenLines
<1>2. \A l \in FreeLines : \A p \in PagesOf(l) : status[p] = "FREE" /\ p # w
  <2>1. w.blk \notin FreeLines
    BY <1>1 DEF LinesPlaced, Partition
  <2> QED BY <2>1 DEF FreeLinesErased, PagesOf
<1>3. ASSUME NEW u \in IoTypes \ {t}, NEW p \in PagesOf(wp'[u].blk), ~Before(p, wp'[u])
      PROVE  status[p] = "FREE" /\ p # w
  <2>1. wp'[u] = wp[u] /\ wp[u].blk # w.blk
    BY DEF LinesPlaced, ListsAreSets
  <2>2. status[p] = "FREE"
    BY <1>3, <2>1 DEF OpenPagesFree
  <2> QED BY <2>1, <2>2 DEF PagesOf
<1>4. ASSUME NEW p \in PagesOf(wp'[t].blk), ~Before(p, wp'[t])
      PROVE  status[p] = "FREE" /\ p # w
  <2>1. CASE ~LastOfLine(w) /\ wp'[t] = NextPage(w)
    <3>1. p \in Ppa /\ p.blk = w.blk
      BY <1>1, <2>1, NextPageInLine DEF PagesOf
    <3>2. ~Before(p, w) /\ p # w
      BY <1>1, <1>4, <2>1, <3>1, BeforeNextPage
    <3> QED BY <3>1, <3>2 DEF OpenPagesFree, PagesOf
  <2>2. CASE \E l \in FreeLines : wp'[t] = FirstPage(l)
    <3>1. PICK l \in FreeLines : wp'[t] = FirstPage(l)
      BY <2>2
    <3>2. p \in PagesOf(l)
      BY <3>1 DEF FirstPage
    <3> QED BY <1>2, <3>2
  <2> QED BY <2>1, <2>2
<1> QED BY <1>2, <1>3, <1>4

-----------------------------------------------------------------------------
(***************************************************************************)
(* The steps of conv_write                                                 *)
(***************************************************************************)

(* The page a write pointer points at is a free page of an open line.      *)
LEMMA WritePointerFree ==
  ASSUME TypeOK, pc # "oops", OpenPagesFree, NEW t \in IoTypes
  PROVE  /\ wp[t] \in Ppa /\ wp[t].blk \in Lines /\ wp[t].blk \in OpenLines
         /\ wp[t] \in PagesOf(wp[t].blk)
         /\ status[wp[t]] = "FREE"
<1>1. wp[t] \in Ppa /\ wp[t].blk \in Lines /\ wp[t].blk \in OpenLines
  BY DEF TypeOK, Ppa, OpenLines
<1>2. wp[t] \in PagesOf(wp[t].blk) /\ ~Before(wp[t], wp[t])
  BY <1>1, NotBeforeItself DEF PagesOf
<1> QED BY <1>1, <1>2 DEF OpenPagesFree

(* mark_page_invalid recognises a full line by its count alone: a line     *)
(* with pgs_per_line valid pages is in the full list.                      *)
LEMMA WasFullIsListed ==
  ASSUME Inv, pc = "write", NEW l \in Lines, WasFull(l)
  PROVE  l \in full_line_list
<1>1. /\ LinesPlaced /\ OpenPagesFree /\ FreeLinesErased /\ QueuedNotFull
      /\ TypeOK /\ LineCountersExact /\ victim = NULL
  BY DEF Inv, CollectionOrder
<1>2. l # victim
  BY <1>1, NullAssumption
<1>3. \A p \in PagesOf(l) : status[p] = "VALID"
  BY <1>1, <1>2, CountersAreCounts, CountBound DEF WasFull
<1>4. l \notin OpenLines
  <2>1. ASSUME NEW t \in IoTypes PROVE wp[t].blk # l
    BY <1>1, <1>3, WritePointerFree
  <2> QED BY <2>1 DEF OpenLines
<1>5. l \notin FreeLines
  <2>1. FirstPage(l) \in PagesOf(l)
    BY FirstPageInLine DEF PagesOf
  <2> QED BY <1>1, <1>3, <2>1 DEF FreeLinesErased
<1>6. l \notin victim_line_pq
  <2>1. vpc[l] = pgs_per_line /\ pgs_per_line \in Nat
    BY LineNotEmpty DEF WasFull
  <2> QED BY <1>1, <2>1 DEF QueuedNotFull
<1>7. Collected = {}
  BY DEF Collected
<1> QED BY <1>1, <1>4, <1>5, <1>6, <1>7 DEF LinesPlaced, Partition

(* Outside the collector no page counts as visited.                        *)
LEMMA NothingCollected ==
  ASSUME TypeOK', victim' = NULL, pc' \notin {"gc", "free"}
  PROVE  CollectionOrder'
<1>1. ASSUME NEW p \in Ppa PROVE ~Visited(p)'
  BY NullAssumption DEF Visited, Ppa
<1> QED BY <1>1 DEF CollectionOrder

(* The write of a page that was not mapped.                                *)
LEMMA WriteNewInv ==
  ASSUME Inv, NEW lpn \in Lpns, WriteNew(lpn)
  PROVE  Inv'
<1> DEFINE new == wp[USER_IO]
           vp == vpc'[new.blk]
<1>1. /\ pc = "write" /\ victim = NULL /\ victim' = NULL
      /\ pc' \in {"write", "credit", "oops"}
      /\ pc' # "oops" => ~RunsDry(USER_IO)
  BY DEF WriteNew, Inv, CollectionOrder, gcVars
<1>2. /\ TypeOK /\ MappingConsistent /\ LineCountersExact /\ LinesPlaced
      /\ OpenPagesFree /\ FreeLinesErased /\ QueuedNotFull
  BY <1>1 DEF Inv
<1>3. TypeOK'
  BY <1>2, NextType DEF Next, Write
<1>4. /\ new \in Ppa /\ new.blk \in Lines /\ new.blk \in OpenLines
      /\ status[new] = "FREE" /\ USER_IO \in IoTypes
  BY <1>1, <1>2, WritePointerFree DEF IoTypes
<1>5. /\ maptbl' = [maptbl EXCEPT ![lpn] = new]
      /\ rmap' = [rmap EXCEPT ![new] = lpn]
      /\ status' = [status EXCEPT ![new] = "VALID"]
      /\ vpc' = [vpc EXCEPT ![new.blk] = @ + 1] /\ ipc' = ipc
      /\ AdvanceWritePointer(USER_IO, vp, full_line_list, victim_line_pq)
  BY DEF WriteNew
<1>6. MappingConsistent'
  <2> HIDE DEF new
  <2>1. ASSUME NEW m \in Lpns, maptbl'[m] # UNMAPPED_PPA
        PROVE  status'[maptbl'[m]] = "VALID" /\ rmap'[maptbl'[m]] = m
    <3>1. CASE m = lpn
      BY <1>2, <1>4, <1>5, <3>1 DEF TypeOK
    <3>2. CASE m # lpn
      <4>1. maptbl'[m] = maptbl[m] /\ maptbl[m] \in Ppa
        BY <1>2, <1>5, <2>1, <3>2 DEF TypeOK
      <4>2. status[maptbl[m]] = "VALID" /\ rmap[maptbl[m]] = m
        BY <2>1, <4>1, <1>2 DEF MappingConsistent
      <4>3. maptbl[m] # new
        BY <4>2, <1>4
      <4> QED BY <1>2, <1>5, <4>1, <4>2, <4>3 DEF TypeOK
    <3> QED BY <3>1, <3>2
  <2> QED BY <2>1 DEF MappingConsistent
<1>7. \A l \in Lines : vpc'[l] = Count(status', l, "VALID")
                      /\ ipc'[l] = Count(status', l, "INVALID")
  <2>1. ASSUME NEW l \in Lines
        PROVE  vpc'[l] = Count(status', l, "VALID")
               /\ ipc'[l] = Count(status', l, "INVALID")
    <3>1. vpc[l] = Count(status, l, "VALID") /\ ipc[l] = Count(status, l, "INVALID")
      BY <1>1, <1>2, CountersAreCounts, NullAssumption
    <3>2. DOMAIN status = Ppa /\ DOMAIN vpc = Lines
      BY <1>2 DEF TypeOK
    <3> HIDE DEF new
    <3>3. /\ Count(status', l, "VALID") = IF l = new.blk
                                          THEN Count(status, l, "VALID") + 1
                                          ELSE Count(status, l, "VALID")
          /\ Count(status', l, "INVALID") = Count(status, l, "INVALID")
      <4>1. Changes(status, status', new, "VALID") /\ status[new] # "INVALID"
        BY <1>4, <1>5, <3>2 DEF Changes
      <4>2. ASSUME NEW v
            PROVE  Count(status', l, v) =
                     IF l = new.blk /\ v = "VALID" THEN Count(status, l, v) + 1
                     ELSE IF l = new.blk /\ v = status[new]
                     THEN Count(status, l, v) - 1 ELSE Count(status, l, v)
        BY <1>4, <4>1, CountChange
      <4> QED BY <1>4, <4>1, <4>2
    <3> QED BY <1>5, <3>1, <3>2, <3>3
  <2> QED BY <2>1
<1>8. LineCountersExact'
  BY <1>7 DEF LineCountersExact, Count, InState
<1>9. ASSUME pc' # "oops"
      PROVE  LinesPlaced' /\ OpenPagesFree' /\ FreeLinesErased' /\ QueuedNotFull'
  <2>1. ListsAreSets /\ Partition(FreeLines, full_line_list, victim_line_pq,
                                  OpenLines, {})
    BY <1>1, <1>2 DEF LinesPlaced, Collected
  <2>2. /\ Partition(FreeLines', full_line_list', victim_line_pq', OpenLines', {})
        /\ ListsAreSets'
        /\ FreeLines' \subseteq FreeLines
        /\ \A u \in IoTypes \ {USER_IO} : wp'[u] = wp[u]
        /\ \/ ~LastOfLine(new) /\ wp'[USER_IO] = NextPage(new)
           \/ \E l \in FreeLines : wp'[USER_IO] = FirstPage(l)
        /\ victim_line_pq' \subseteq
             victim_line_pq \cup (IF vp # pgs_per_line THEN {new.blk} ELSE {})
    <3> HIDE DEF vp
    <3> QED BY <1>1, <1>2, <1>4, <1>5, <1>9, <2>1, AdvancePlaces
  <2>3. LinesPlaced'
    BY <1>1, <2>2 DEF LinesPlaced, Collected
  <2>4. /\ \A u \in IoTypes : \A p \in PagesOf(wp'[u].blk) :
             ~Before(p, wp'[u]) => status[p] = "FREE" /\ p # new
        /\ \A l \in FreeLines' : \A p \in PagesOf(l) :
             status[p] = "FREE" /\ p # new
    BY <1>1, <1>2, <1>4, <2>2, AdvancePages
  <2>5. \A p \in Ppa : p # new => status'[p] = status[p]
    BY <1>2, <1>5 DEF TypeOK
  <2>6. OpenPagesFree' /\ FreeLinesErased'
    BY <2>4, <2>5 DEF OpenPagesFree, FreeLinesErased, PagesOf, Before
  <2>7. QueuedNotFull'
    <3>1. ASSUME NEW l \in victim_line_pq' PROVE vpc'[l] < pgs_per_line
      <4>1. CASE l \in victim_line_pq
        <5>1. l # new.blk /\ vpc[l] < pgs_per_line /\ l \in Lines
          BY <1>2, <1>4, <2>1, <4>1 DEF Partition, QueuedNotFull
        <5> QED BY <1>2, <1>5, <5>1 DEF TypeOK
      <4>2. CASE l = new.blk /\ vp # pgs_per_line
        BY <1>4, <1>7, <4>2, CountBound, LineNotEmpty
      <4> QED BY <2>2, <4>1, <4>2
    <3> QED BY <3>1 DEF QueuedNotFull
  <2> QED BY <2>3, <2>6, <2>7
<1>10. pc' # "oops" => CollectionOrder'
  BY <1>1, <1>3, NothingCollected
<1> QED BY <1>3, <1>6, <1>8, <1>9, <1>10 DEF Inv

(* The write of a mapped page: mark_page_invalid on its old page comes     *)
(* first, and may move the line of the old page.                           *)
LEMMA OverwriteInv ==
  ASSUME Inv, NEW lpn \in Lpns, Overwrite(lpn)
  PROVE  Inv'
<1> DEFINE new == wp[USER_IO]
           old == maptbl[lpn]
           vp == vpc'[new.blk]
           full == FullAfterInvalid(old.blk)
           victims == VictimsAfterInvalid(old.blk)
<1>1. /\ pc = "write" /\ victim = NULL /\ victim' = NULL
      /\ pc' \in {"write", "credit", "oops"}
      /\ pc' # "oops" => ~RunsDry(USER_IO)
  BY DEF Overwrite, Inv, CollectionOrder, gcVars
<1>2. /\ TypeOK /\ MappingConsistent /\ LineCountersExact /\ LinesPlaced
      /\ OpenPagesFree /\ FreeLinesErased /\ QueuedNotFull
  BY <1>1 DEF Inv
<1>3. TypeOK'
  BY <1>2, NextType DEF Next, Write
<1>4. /\ new \in Ppa /\ new.blk \in Lines /\ new.blk \in OpenLines
      /\ status[new] = "FREE" /\ USER_IO \in IoTypes
  BY <1>1, <1>2, WritePointerFree DEF IoTypes
<1>5. /\ maptbl' = [maptbl EXCEPT ![lpn] = new]
      /\ rmap' = [rmap EXCEPT ![old] = INVALID_LPN, ![new] = lpn]
      /\ status' = [status EXCEPT ![old] = "INVALID", ![new] = "VALID"]
      /\ vpc' = [[vpc EXCEPT ![old.blk] = @ - 1] EXCEPT ![new.blk] = @ + 1]
      /\ ipc' = [ipc EXCEPT ![old.blk] = @ + 1]
      /\ AdvanceWritePointer(USER_IO, vp, full, victims)
      /\ old # UNMAPPED_PPA
  BY DEF Overwrite
<1>6. /\ old \in Ppa /\ old.blk \in Lines
      /\ status[old] = "VALID" /\ rmap[old] = lpn /\ old # new
  <2>1. old \in Ppa /\ old.blk \in Lines
    BY <1>2, <1>5 DEF TypeOK, Ppa
  <2>2. status[old] = "VALID" /\ rmap[old] = lpn
    BY <1>2, <1>5 DEF MappingConsistent
  <2> QED BY <1>4, <2>1, <2>2
<1>7. /\ status \in [Ppa -> {"FREE", "VALID", "INVALID"}]
      /\ rmap \in [Ppa -> Lpns \cup {INVALID_LPN}]
      /\ maptbl \in [Lpns -> Ppa \cup {UNMAPPED_PPA}]
      /\ vpc \in [Lines -> Int] /\ ipc \in [Lines -> Nat]
  BY <1>2 DEF TypeOK
<1>8. MappingConsistent'
  <2> HIDE DEF new, old
  <2>1. ASSUME NEW m \in Lpns, maptbl'[m] # UNMAPPED_PPA
        PROVE  status'[maptbl'[m]] = "VALID" /\ rmap'[maptbl'[m]] = m
    <3>1. CASE m = lpn
      BY <1>4, <1>5, <1>7, <3>1
    <3>2. CASE m # lpn
      <4>1. maptbl'[m] = maptbl[m] /\ maptbl[m] \in Ppa
        BY <1>5, <1>7, <2>1, <3>2
      <4>2. status[maptbl[m]] = "VALID" /\ rmap[maptbl[m]] = m
        BY <2>1, <4>1, <1>2 DEF MappingConsistent
      <4>3. maptbl[m] # new /\ maptbl[m] # old
        BY <4>2, <3>2, <1>4, <1>6
      <4> QED BY <1>5, <1>7, <4>1, <4>2, <4>3
    <3> QED BY <3>1, <3>2
  <2> QED BY <2>1 DEF MappingConsistent
<1>9. \A l \in Lines :
        /\ vpc'[l] = Count(status', l, "VALID")
        /\ ipc'[l] = Count(status', l, "INVALID")
  <2> DEFINE st == [status EXCEPT ![old] = "INVALID"]
  <2> SUFFICES ASSUME NEW l \in Lines
               PROVE  /\ vpc'[l] = Count(status', l, "VALID")
                      /\ ipc'[l] = Count(status', l, "INVALID")
    OBVIOUS
  <2>1. vpc[l] = Count(status, l, "VALID") /\ ipc[l] = Count(status, l, "INVALID")
    BY <1>1, <1>2, CountersAreCounts, NullAssumption
  <2>2. Count(status, l, "VALID") \in Nat /\ Count(status, l, "INVALID") \in Nat
    BY CountBound
  <2> HIDE DEF new, old
  <2>3. Changes(status, st, old, "INVALID") /\ Changes(st, status', new, "VALID")
        /\ st[new] = "FREE"
    BY <1>4, <1>5, <1>6, <1>7 DEF Changes
  <2> HIDE DEF st
  <2>4. ASSUME NEW v
        PROVE  Count(st, l, v) =
                 IF l = old.blk /\ v = "INVALID" THEN Count(status, l, v) + 1
                 ELSE IF l = old.blk /\ v = status[old]
                 THEN Count(status, l, v) - 1 ELSE Count(status, l, v)
    BY <1>6, <2>3, CountChange
  <2>5. ASSUME NEW v
        PROVE  Count(status', l, v) =
                 IF l = new.blk /\ v = "VALID" THEN Count(st, l, v) + 1
                 ELSE IF l = new.blk /\ v = st[new]
                 THEN Count(st, l, v) - 1 ELSE Count(st, l, v)
    BY <1>4, <2>3, CountChange
  <2>6. Count(st, l, "VALID") =
          IF l = old.blk THEN Count(status, l, "VALID") - 1
          ELSE Count(status, l, "VALID")
    BY <1>6, <2>4
  <2>7. Count(st, l, "INVALID") =
          IF l = old.blk THEN Count(status, l, "INVALID") + 1
          ELSE Count(status, l, "INVALID")
    BY <2>4
  <2>8. /\ Count(status', l, "VALID") =
             IF l = new.blk THEN Count(st, l, "VALID") + 1 ELSE Count(st, l, "VALID")
        /\ Count(status', l, "INVALID") = Count(st, l, "INVALID")
    BY <2>3, <2>5
  <2>9. vpc'[l] = IF l = old.blk
                  THEN IF l = new.blk THEN vpc[l] - 1 + 1 ELSE vpc[l] - 1
                  ELSE IF l = new.blk THEN vpc[l] + 1 ELSE vpc[l]
    BY <1>4, <1>5, <1>6, <1>7
  <2>10. ipc'[l] = IF l = old.blk THEN ipc[l] + 1 ELSE ipc[l]
    BY <1>5, <1>6, <1>7
  <2> QED BY <2>1, <2>2, <2>6, <2>7, <2>8, <2>9, <2>10
<1>10. LineCountersExact'
  BY <1>9 DEF LineCountersExact, Count, InState
<1>11. ASSUME pc' # "oops"
       PROVE  LinesPlaced' /\ OpenPagesFree' /\ FreeLinesErased' /\ QueuedNotFull'
  <2>1. ListsAreSets /\ Partition(FreeLines, full_line_list, victim_line_pq,
                                  OpenLines, {})
    BY <1>1, <1>2 DEF LinesPlaced, Collected
  <2>2. WasFull(old.blk) => old.blk \in full_line_list
    BY <1>1, <1>6, WasFullIsListed
  <2>3. Partition(FreeLines, full, victims, OpenLines, {})
    <3> HIDE DEF old
    <3>1. CASE WasFull(old.blk)
      <4>1. full = full_line_list \ {old.blk} /\ victims = victim_line_pq \cup {old.blk}
        BY <3>1 DEF FullAfterInvalid, VictimsAfterInvalid
      <4> HIDE DEF full, victims
      <4> QED BY <2>1, <2>2, <3>1, <4>1 DEF Partition
    <3>2. CASE ~WasFull(old.blk)
      BY <2>1, <3>2 DEF FullAfterInvalid, VictimsAfterInvalid
    <3> QED BY <3>1, <3>2
  <2>4. /\ Partition(FreeLines', full_line_list', victim_line_pq', OpenLines', {})
        /\ ListsAreSets'
        /\ FreeLines' \subseteq FreeLines
        /\ \A u \in IoTypes \ {USER_IO} : wp'[u] = wp[u]
        /\ \/ ~LastOfLine(new) /\ wp'[USER_IO] = NextPage(new)
           \/ \E l \in FreeLines : wp'[USER_IO] = FirstPage(l)
        /\ victim_line_pq' \subseteq
             victims \cup (IF vp # pgs_per_line THEN {new.blk} ELSE {})
    <3> HIDE DEF vp, full, victims
    <3> QED BY <1>1, <1>2, <1>4, <1>5, <1>11, <2>1, <2>3, AdvancePlaces
  <2>5. LinesPlaced'
    BY <1>1, <2>4 DEF LinesPlaced, Collected
  <2>6. /\ \A u \in IoTypes : \A p \in PagesOf(wp'[u].blk) :
             ~Before(p, wp'[u]) => status[p] = "FREE" /\ p # new
        /\ \A l \in FreeLines' : \A p \in PagesOf(l) :
             status[p] = "FREE" /\ p # new
    BY <1>1, <1>2, <1>4, <2>4, AdvancePages
  <2>7. \A p \in Ppa : p # new /\ status[p] = "FREE" => status'[p] = "FREE"
    <3> HIDE DEF new, old
    <3> QED BY <1>5, <1>6, <1>7
  <2>8. OpenPagesFree' /\ FreeLinesErased'
    BY <2>6, <2>7 DEF OpenPagesFree, FreeLinesErased, PagesOf, Before
  <2>9. QueuedNotFull'
    <3> SUFFICES ASSUME NEW l \in victim_line_pq' PROVE vpc'[l] < pgs_per_line
      BY DEF QueuedNotFull
    <3>1. CASE l \in victims
      <4>1. l # new.blk /\ l \in Lines
        BY <1>4, <2>3, <3>1 DEF Partition
      <4>2. vpc'[l] = IF l = old.blk THEN vpc[l] - 1 ELSE vpc[l]
        <5> HIDE DEF new, old
        <5> QED BY <1>4, <1>5, <1>6, <1>7, <4>1
      <4>3. vpc[l] \in Int /\ pgs_per_line \in Nat
        BY <1>7, <4>1, LineNotEmpty
      <4>4. CASE l \in victim_line_pq
        <5>1. vpc[l] < pgs_per_line
          BY <1>2, <4>4 DEF QueuedNotFull
        <5> QED BY <4>2, <4>3, <5>1
      <4>5. CASE l = old.blk /\ WasFull(l)
        BY <4>2, <4>3, <4>5 DEF WasFull
      <4> QED BY <3>1, <4>4, <4>5 DEF VictimsAfterInvalid
    <3>2. CASE l = new.blk /\ vp # pgs_per_line
      BY <1>4, <1>9, <3>2, CountBound, LineNotEmpty
    <3> QED BY <2>4, <3>1, <3>2
  <2> QED BY <2>5, <2>8, <2>9
<1>12. pc' # "oops" => CollectionOrder'
  BY <1>1, <1>3, NothingCollected
<1> QED BY <1>3, <1>8, <1>10, <1>11, <1>12 DEF Inv

-----------------------------------------------------------------------------
(***************************************************************************)
(* The steps of foreground_gc                                              *)
(***************************************************************************)

(* foreground_gc returns without collecting: credits only.                 *)
LEMMA NoCollectionInv ==
  ASSUME Inv, SkipGc \/ NoVictim
  PROVE  Inv'
<1>1. /\ pc = "credit" /\ pc' = "write"
      /\ UNCHANGED <<maptbl, rmap, status, vpc, ipc, free_line_list, full_line_list,
                    victim_line_pq, free_line_cnt, wp, victim, scan>>
  BY DEF SkipGc, NoVictim, mapVars, lineVars, gcVars
<1>2. /\ TypeOK /\ MappingConsistent /\ LineCountersExact /\ LinesPlaced
      /\ OpenPagesFree /\ FreeLinesErased /\ QueuedNotFull /\ victim = NULL
  BY <1>1 DEF Inv, CollectionOrder
<1>3. TypeOK'
  BY <1>2, NextType DEF Next, ForegroundGc
<1>4. MappingConsistent' /\ LineCountersExact'
  BY <1>1, <1>2 DEF MappingConsistent, LineCountersExact
<1>5. LinesPlaced'
  <2>1. Collected = {} /\ Collected' = {}
    BY <1>1 DEF Collected
  <2>2. FreeLines' = FreeLines /\ OpenLines' = OpenLines /\ ListsAreSets'
    BY <1>1, <1>2 DEF FreeLines, OpenLines, ListsAreSets, LinesPlaced
  <2> QED BY <1>1, <1>2, <2>1, <2>2 DEF LinesPlaced
<1>6. OpenPagesFree'
  BY <1>1, <1>2 DEF OpenPagesFree, Before, PagesOf
<1>7. FreeLinesErased'
  BY <1>1, <1>2 DEF FreeLinesErased, FreeLines, PagesOf
<1>8. QueuedNotFull'
  BY <1>1, <1>2 DEF QueuedNotFull
<1>9. CollectionOrder'
  BY <1>1, <1>2, <1>3, NothingCollected
<1> QED BY <1>3, <1>4, <1>5, <1>6, <1>7, <1>8, <1>9 DEF Inv

(* VisitedIsScanBefore, in the next state.                                 *)
LEMMA VisitedNext ==
  ASSUME NEW p
  PROVE  Visited(p)' <=> p.blk = victim' /\ (pc' = "free" \/ ScanBefore(p, scan'))
BY DEF Visited, ScanBefore, Lex, FlashPgOf

(* A line leaves the victim queue to be collected.                         *)
LEMMA SelectVictimInv ==
  ASSUME Inv, NEW l \in Lines, SelectVictim(l)
  PROVE  Inv'
<1>1. /\ pc = "credit" /\ pc' = "gc" /\ victim' = l /\ scan' = FirstPage(l)
      /\ l \in victim_line_pq /\ victim_line_pq' = victim_line_pq \ {l}
      /\ UNCHANGED <<maptbl, rmap, status, vpc, ipc, free_line_list, full_line_list,
                    free_line_cnt, wp>>
  BY DEF SelectVictim, mapVars
<1>2. /\ TypeOK /\ MappingConsistent /\ LineCountersExact /\ LinesPlaced
      /\ OpenPagesFree /\ FreeLinesErased /\ QueuedNotFull /\ victim = NULL
  BY <1>1 DEF Inv, CollectionOrder
<1>3. TypeOK'
  BY <1>2, NextType DEF Next, ForegroundGc
<1>4. MappingConsistent' /\ LineCountersExact'
  BY <1>1, <1>2, NullAssumption DEF MappingConsistent, LineCountersExact
<1>5. LinesPlaced'
  <2>1. Collected = {} /\ Collected' = {l}
    BY <1>1 DEF Collected
  <2>2. FreeLines' = FreeLines /\ OpenLines' = OpenLines /\ ListsAreSets'
    BY <1>1, <1>2 DEF FreeLines, OpenLines, ListsAreSets, LinesPlaced
  <2>3. Partition(FreeLines, full_line_list, victim_line_pq \ {l}, OpenLines, {l})
    BY <1>1, <1>2, <2>1 DEF LinesPlaced, Partition
  <2> QED BY <1>1, <2>1, <2>2, <2>3 DEF LinesPlaced
<1>6. OpenPagesFree'
  BY <1>1, <1>2 DEF OpenPagesFree, Before, PagesOf
<1>7. FreeLinesErased'
  BY <1>1, <1>2 DEF FreeLinesErased, FreeLines, PagesOf
<1>8. QueuedNotFull'
  BY <1>1, <1>2 DEF QueuedNotFull
<1>9. CollectionOrder'
  <2>1. ASSUME NEW p \in Ppa PROVE ~Visited(p)'
    BY <1>1, VisitedNext, NothingBeforeFirstPage
  <2>2. ASSUME NEW p \in PagesOf(l) PROVE BlockEnd(p) \in Ppa
    BY Geometry DEF BlockEnd, PagesOf, Ppa
  <2>3. scan'.blk = l
    BY <1>1 DEF FirstPage
  <2> QED BY <1>1, <2>1, <2>2, <2>3 DEF CollectionOrder, PagesOf
<1> QED BY <1>3, <1>4, <1>5, <1>6, <1>7, <1>8, <1>9 DEF Inv

-----------------------------------------------------------------------------
(***************************************************************************)
(* The visit of a page by do_gc                                            *)
(***************************************************************************)

(* How a visit moves the scan of the collector.                            *)
ScanMoves ==
  /\ pc = "gc" /\ victim' = victim
  /\ scan' = IF LastOfScan(scan) THEN scan ELSE NextScan(scan)
  /\ pc' # "oops" => pc' = IF LastOfScan(scan) THEN "free" ELSE "gc"

(* It visits one page: the one it stood on.                                *)
LEMMA ScanAdvance ==
  ASSUME TypeOK, CollectionOrder, ScanMoves, pc' # "oops"
  PROVE  /\ scan \in Ppa /\ scan.blk = victim /\ victim \in Lines
         /\ scan'.blk = victim' /\ pc' \in {"gc", "free"}
         /\ \A p \in Ppa : Visited(p)' <=> Visited(p) \/ p = scan
<1>1. /\ scan \in Ppa /\ scan.blk = victim /\ victim \in Lines /\ pc = "gc"
  BY DEF TypeOK, CollectionOrder, ScanMoves
<1>2. scan'.blk = victim' /\ pc' \in {"gc", "free"}
  BY <1>1, NextScanInLine DEF ScanMoves
<1>3. ASSUME NEW p \in Ppa
      PROVE  Visited(p)' <=> Visited(p) \/ p = scan
  <2>1. /\ Visited(p) <=> p.blk = victim /\ ScanBefore(p, scan)
        /\ Visited(p)' <=> p.blk = victim /\ (pc' = "free" \/ ScanBefore(p, scan'))
    BY <1>1, VisitedIsScanBefore, VisitedNext DEF ScanMoves
  <2>2. CASE p.blk # victim
    BY <1>1, <2>1, <2>2
  <2>3. CASE p.blk = victim /\ LastOfScan(scan)
    BY <1>1, <2>1, <2>3, ScanEnd DEF ScanMoves
  <2>4. CASE p.blk = victim /\ ~LastOfScan(scan)
    <3>1. scan' = NextScan(scan) /\ pc' = "gc"
      BY <2>4 DEF ScanMoves
    <3>2. ScanBefore(p, NextScan(scan)) <=> ScanBefore(p, scan) \/ p = scan
      BY <1>1, <2>4, ScanStep
    <3> QED BY <2>1, <2>4, <3>1, <3>2
  <2> QED BY <2>2, <2>3, <2>4
<1> QED BY <1>1, <1>2, <1>3

(* A block is erased when its last page is visited: the others have been.  *)
LEMMA BlockVisited ==
  ASSUME TypeOK, CollectionOrder, pc = "gc", EndOfBlock(scan),
         NEW p \in Ppa, SameBlock(p, scan)
  PROVE  Visited(p) \/ p = scan
<1>1. scan \in Ppa /\ scan.blk = victim
  BY DEF TypeOK, CollectionOrder
<1> DEFINE A == scan.ch + 1
           B == scan.lun + 1
           q == p.pg
           x == p.ch
           y == p.lun
<1>2. /\ A \in Nat \ {0} /\ B \in Nat \ {0} /\ q \in 0 .. pgs_per_blk - 1
      /\ x \in 0 .. A - 1 /\ y \in 0 .. B - 1
      /\ A - 1 = scan.ch /\ B - 1 = scan.lun
      /\ x = scan.ch /\ y = scan.lun /\ scan.pg = pgs_per_blk - 1
  BY <1>1, Geometry DEF Ppa, SameBlock, EndOfBlock
<1> HIDE DEF A, B, q, x, y
<1>3. \/ Lex(pgs_per_flashpg, q, x, y, pgs_per_blk - 1, A - 1, B - 1)
      \/ q = pgs_per_blk - 1
  BY <1>2, LexLast, Geometry, FlashPagesFillBlock
<1>4. ScanBefore(p, scan) \/ p.pg = scan.pg
  BY <1>2, <1>3 DEF ScanBefore, q, x, y
<1>5. p.blk = scan.blk /\ p.ch = scan.ch /\ p.lun = scan.lun
  BY DEF SameBlock
<1>6. p.pg = scan.pg => p = scan
  BY <1>1, <1>5, SamePage
<1> QED BY <1>1, <1>4, <1>5, <1>6, VisitedIsScanBefore

(* The finished blocks of the victim are erased, this one included.        *)
LEMMA ErasedBehind ==
  ASSUME TypeOK, CollectionOrder, ScanMoves, pc' # "oops",
         NEW st \in [Ppa -> {"FREE", "VALID", "INVALID"}],
         \A p \in PagesOf(victim) : st[p] = status[p],
         status' = Erased(st, scan)
  PROVE  \A p \in PagesOf(victim) : Visited(BlockEnd(p))' => status'[p] = "FREE"
<1>1. /\ scan \in Ppa /\ scan.blk = victim /\ pc = "gc"
      /\ \A p \in Ppa : Visited(p)' <=> Visited(p) \/ p = scan
  BY ScanAdvance DEF ScanMoves
<1>2. ASSUME NEW p \in PagesOf(victim), Visited(BlockEnd(p))'
      PROVE  status'[p] = "FREE"
  <2>1. p \in Ppa /\ BlockEnd(p) \in Ppa /\ SameBlock(p, BlockEnd(p))
        /\ BlockEnd(p).pg = pgs_per_blk - 1
    BY Geometry DEF BlockEnd, PagesOf, Ppa, SameBlock
  <2>2. CASE Visited(BlockEnd(p))
    <3>1. status[p] = "FREE"
      BY <1>1, <2>2 DEF CollectionOrder
    <3> QED BY <2>1, <3>1 DEF Erased
  <2>3. CASE BlockEnd(p) = scan
    <3>1. EndOfBlock(scan) /\ SameBlock(p, scan)
      BY <2>1, <2>3 DEF EndOfBlock
    <3> QED BY <2>1, <3>1 DEF Erased
  <2> QED BY <1>1, <1>2, <2>1, <2>2, <2>3
<1> QED BY <1>2

(* A page that is not valid is passed over.                                *)
LEMMA GcSkipPageInv ==
  ASSUME Inv, GcSkipPage
  PROVE  Inv'
<1>1. /\ pc = "gc" /\ pc' \in {"gc", "free"} /\ ScanMoves
      /\ status[scan] # "VALID" /\ status' = Erased(status, scan)
      /\ UNCHANGED <<maptbl, rmap, vpc, ipc, free_line_list, full_line_list,
                    victim_line_pq, free_line_cnt, wp, victim>>
  BY DEF GcSkipPage, ScanMoves, lineVars
<1>2. /\ TypeOK /\ MappingConsistent /\ LineCountersExact /\ LinesPlaced
      /\ OpenPagesFree /\ FreeLinesErased /\ QueuedNotFull /\ CollectionOrder
  BY <1>1 DEF Inv
<1>3. TypeOK'
  BY <1>2, NextType DEF Next, ForegroundGc, GcStep
<1>4. /\ scan \in Ppa /\ scan.blk = victim /\ victim \in Lines
      /\ scan'.blk = victim' /\ pc' # "oops"
      /\ \A p \in Ppa : Visited(p)' <=> Visited(p) \/ p = scan
  BY <1>1, <1>2, ScanAdvance
<1>5. status \in [Ppa -> {"FREE", "VALID", "INVALID"}]
  BY <1>2 DEF TypeOK
<1>6. /\ \A p \in Ppa : p.blk # victim => status'[p] = status[p]
      /\ \A p \in Ppa : status[p] = "FREE" => status'[p] = "FREE"
  BY <1>1, <1>4 DEF Erased, SameBlock
<1>7. ASSUME NEW m \in Lpns, maptbl[m] = scan
      PROVE  FALSE
  <2>1. maptbl[m] # UNMAPPED_PPA
    BY <1>4, <1>7, NullAssumption
  <2> QED BY <1>1, <1>2, <1>7, <2>1 DEF MappingConsistent
<1>8. MappingConsistent'
  <2>1. ASSUME NEW m \in Lpns, maptbl[m] # UNMAPPED_PPA
        PROVE  status'[maptbl[m]] = "VALID" /\ rmap[maptbl[m]] = m
    <3>1. maptbl[m] \in Ppa /\ status[maptbl[m]] = "VALID" /\ rmap[maptbl[m]] = m
      BY <1>2, <2>1 DEF TypeOK, MappingConsistent
    <3>2. ~(EndOfBlock(scan) /\ SameBlock(maptbl[m], scan))
      <4>1. ~Visited(maptbl[m])
        BY <1>2, <3>1 DEF CollectionOrder
      <4> QED BY <1>1, <1>2, <1>7, <3>1, <4>1, BlockVisited
    <3> QED BY <1>1, <3>1, <3>2 DEF Erased
  <2> QED BY <1>1, <2>1 DEF MappingConsistent
<1>9. LineCountersExact'
  <2>1. ASSUME NEW l \in Lines \ {victim}
        PROVE  /\ vpc[l] = Count(status', l, "VALID")
               /\ ipc[l] = Count(status', l, "INVALID")
    <3>1. \A p \in PagesOf(l) : status'[p] = status[p]
      BY <1>6, <2>1 DEF PagesOf
    <3> QED BY <1>2, <3>1, CountersAreCounts, CountSame
  <2> QED BY <1>1, <2>1 DEF LineCountersExact, Count, InState
<1>10. LinesPlaced'
  <2>1. Collected' = Collected
    BY <1>1 DEF Collected
  <2>2. FreeLines' = FreeLines /\ OpenLines' = OpenLines /\ ListsAreSets'
    BY <1>1, <1>2 DEF FreeLines, OpenLines, ListsAreSets, LinesPlaced
  <2> QED BY <1>1, <1>2, <2>1, <2>2 DEF LinesPlaced
<1>11. OpenPagesFree'
  BY <1>1, <1>2, <1>6 DEF OpenPagesFree, Before, PagesOf
<1>12. FreeLinesErased'
  BY <1>1, <1>2, <1>6 DEF FreeLinesErased, FreeLines, PagesOf
<1>13. QueuedNotFull'
  BY <1>1, <1>2 DEF QueuedNotFull
<1>14. CollectionOrder'
  <2>1. \A p \in PagesOf(victim) : Visited(BlockEnd(p))' => status'[p] = "FREE"
    BY <1>1, <1>2, <1>4, <1>5, ErasedBehind
  <2>2. \A p \in PagesOf(victim') : Visited(BlockEnd(p))' => status'[p] = "FREE"
    BY <1>1, <2>1
  <2>3. ASSUME NEW p \in Ppa, Visited(p)', NEW m \in Lpns
        PROVE  maptbl'[m] # p
    BY <1>1, <1>2, <1>4, <1>7, <2>3 DEF CollectionOrder
  <2> QED BY <1>1, <1>4, <2>2, <2>3 DEF CollectionOrder, PagesOf
<1> QED BY <1>3, <1>8, <1>9, <1>10, <1>11, <1>12, <1>13, <1>14 DEF Inv

(* A valid page is written again: nothing maps to the old page any more,   *)
(* and the new one is in another line.                                     *)
LEMMA GcCopyPageInv ==
  ASSUME Inv, NEW t \in {GC_IO_HOT, GC_IO_COLD}, GcCopyPage(t)
  PROVE  Inv'
<1> DEFINE new == wp[t]
           lpn == rmap[scan]
           vp == vpc'[new.blk]
           st == [status EXCEPT ![new] = "VALID"]
<1>1. /\ pc = "gc" /\ pc' \in {"gc", "free", "oops"} /\ ScanMoves
      /\ pc' # "oops" => ~RunsDry(t)
      /\ status[scan] = "VALID" /\ status' = Erased(st, scan)
      /\ maptbl' = [maptbl EXCEPT ![lpn] = new]
      /\ rmap' = [rmap EXCEPT ![new] = lpn]
      /\ vpc' = [vpc EXCEPT ![new.blk] = @ + 1] /\ ipc' = ipc
      /\ AdvanceWritePointer(t, vp, full_line_list, victim_line_pq)
      /\ victim' = victim /\ t \in IoTypes
  BY DEF GcCopyPage, ScanMoves, IoTypes
<1>2. /\ TypeOK /\ MappingConsistent /\ LineCountersExact /\ LinesPlaced
      /\ OpenPagesFree /\ FreeLinesErased /\ QueuedNotFull /\ CollectionOrder
  BY <1>1 DEF Inv
<1>3. TypeOK'
  BY <1>2, NextType DEF Next, ForegroundGc, GcStep
<1>4. /\ scan \in Ppa /\ scan.blk = victim /\ victim \in Lines
      /\ status \in [Ppa -> {"FREE", "VALID", "INVALID"}]
      /\ rmap \in [Ppa -> Lpns \cup {INVALID_LPN}]
      /\ maptbl \in [Lpns -> Ppa \cup {UNMAPPED_PPA}]
      /\ vpc \in [Lines -> Int]
  BY <1>1, <1>2 DEF TypeOK, CollectionOrder
<1>5. /\ new \in Ppa /\ new.blk \in Lines /\ new.blk \in OpenLines
      /\ status[new] = "FREE" /\ new.blk # victim
  <2>1. new.blk \in OpenLines /\ new \in Ppa /\ new.blk \in Lines
        /\ status[new] = "FREE"
    BY <1>1, <1>2, WritePointerFree
  <2>2. victim \in Collected
    BY <1>1 DEF Collected
  <2> QED BY <1>2, <2>1, <2>2 DEF LinesPlaced, Partition
<1> HIDE DEF new
<1>6. /\ st \in [Ppa -> {"FREE", "VALID", "INVALID"}]
      /\ Changes(status, st, new, "VALID")
      /\ st[new] = "VALID" /\ \A p \in Ppa : p # new => st[p] = status[p]
      /\ \A p \in PagesOf(victim) : st[p] = status[p]
  BY <1>4, <1>5 DEF Changes, PagesOf
<1> HIDE DEF st
<1>7. \A p \in Ppa : p.blk # victim => status'[p] = st[p]
  BY <1>1, <1>4 DEF Erased, SameBlock
<1>8. \A p \in Ppa : st[p] = "FREE" => status'[p] = "FREE"
  BY <1>1 DEF Erased
<1>9. ASSUME NEW m \in Lpns, maptbl'[m] # new
      PROVE  /\ maptbl'[m] = maptbl[m] /\ m # lpn /\ maptbl[m] # scan
  <2>1. maptbl'[m] = maptbl[m] /\ m # lpn
    <3> HIDE DEF lpn
    <3> QED BY <1>1, <1>4, <1>9
  <2>2. maptbl[m] = scan => rmap[scan] = m
    BY <1>2, <1>4, NullAssumption DEF MappingConsistent
  <2> QED BY <2>1, <2>2
<1>10. MappingConsistent'
  <2>1. ASSUME NEW m \in Lpns, maptbl'[m] # UNMAPPED_PPA
        PROVE  status'[maptbl'[m]] = "VALID" /\ rmap'[maptbl'[m]] = m
    <3>1. CASE maptbl'[m] = new
      <4>1. m = lpn
        <5>1. CASE m # lpn
          <6>1. maptbl[m] = new
            <7> HIDE DEF lpn
            <7> QED BY <1>1, <1>4, <3>1, <5>1
          <6>2. maptbl[m] # UNMAPPED_PPA
            BY <6>1, <1>5, NullAssumption
          <6> QED BY <1>2, <1>5, <6>1, <6>2 DEF MappingConsistent
        <5> QED BY <5>1
      <4>2. status'[new] = "VALID"
        BY <1>5, <1>6, <1>7
      <4>3. rmap'[new] = lpn
        <5> HIDE DEF lpn
        <5> QED BY <1>1, <1>4, <1>5
      <4> QED BY <3>1, <4>1, <4>2, <4>3
    <3>2. CASE maptbl'[m] # new
      <4>1. maptbl'[m] = maptbl[m] /\ maptbl[m] # scan /\ maptbl[m] # UNMAPPED_PPA
        BY <1>9, <2>1, <3>2
      <4>2. maptbl[m] \in Ppa /\ status[maptbl[m]] = "VALID" /\ rmap[maptbl[m]] = m
        BY <1>2, <1>4, <4>1 DEF MappingConsistent
      <4>3. ~(EndOfBlock(scan) /\ SameBlock(maptbl[m], scan))
        <5>1. ~Visited(maptbl[m])
          BY <1>2, <4>2 DEF CollectionOrder
        <5> QED BY <1>1, <1>2, <4>1, <4>2, <5>1, BlockVisited
      <4>4. st[maptbl[m]] = "VALID"
        BY <1>6, <4>2
      <4>5. status'[maptbl[m]] = "VALID"
        BY <1>1, <4>2, <4>3, <4>4 DEF Erased
      <4>6. rmap'[maptbl[m]] = m
        <5>1. maptbl[m] # new
          BY <3>2, <4>1
        <5> HIDE DEF lpn
        <5> QED BY <1>1, <1>4, <4>2, <5>1
      <4> QED BY <4>1, <4>5, <4>6
    <3> QED BY <3>1, <3>2
  <2> QED BY <2>1 DEF MappingConsistent
<1>11. \A l \in Lines \ {victim} :
         /\ vpc'[l] = Count(status', l, "VALID")
         /\ ipc'[l] = Count(status', l, "INVALID")
  <2> SUFFICES ASSUME NEW l \in Lines \ {victim}
               PROVE  /\ vpc'[l] = Count(status', l, "VALID")
                      /\ ipc'[l] = Count(status', l, "INVALID")
    OBVIOUS
  <2>1. vpc[l] = Count(status, l, "VALID") /\ ipc[l] = Count(status, l, "INVALID")
    BY <1>2, CountersAreCounts
  <2>2. ASSUME NEW v
        PROVE  Count(st, l, v) =
                 IF l = new.blk /\ v = "VALID" THEN Count(status, l, v) + 1
                 ELSE IF l = new.blk /\ v = status[new]
                 THEN Count(status, l, v) - 1 ELSE Count(status, l, v)
    BY <1>5, <1>6, CountChange
  <2>3. /\ Count(st, l, "VALID") = IF l = new.blk THEN Count(status, l, "VALID") + 1
                                   ELSE Count(status, l, "VALID")
        /\ Count(st, l, "INVALID") = Count(status, l, "INVALID")
    BY <1>5, <2>2
  <2>4. \A p \in PagesOf(l) : status'[p] = st[p]
    BY <1>7 DEF PagesOf
  <2>5. Count(status', l, "VALID") = Count(st, l, "VALID")
        /\ Count(status', l, "INVALID") = Count(st, l, "INVALID")
    BY <2>4, CountSame
  <2>6. vpc'[l] = IF l = new.blk THEN vpc[l] + 1 ELSE vpc[l]
    BY <1>1, <1>4, <1>5
  <2>7. ipc'[l] = ipc[l]
    BY <1>1
  <2> QED BY <2>1, <2>3, <2>5, <2>6, <2>7
<1>12. LineCountersExact'
  BY <1>1, <1>11 DEF LineCountersExact, Count, InState
<1>13. ASSUME pc' # "oops"
       PROVE  LinesPlaced' /\ OpenPagesFree' /\ FreeLinesErased' /\ QueuedNotFull'
  <2>1. ListsAreSets /\ Partition(FreeLines, full_line_list, victim_line_pq,
                                  OpenLines, Collected)
    BY <1>2 DEF LinesPlaced
  <2>2. Collected' = Collected
    BY <1>1, <1>13 DEF Collected
  <2>3. /\ Partition(FreeLines', full_line_list', victim_line_pq', OpenLines', Collected)
        /\ ListsAreSets'
        /\ FreeLines' \subseteq FreeLines
        /\ \A u \in IoTypes \ {t} : wp'[u] = wp[u]
        /\ \/ ~LastOfLine(wp[t]) /\ wp'[t] = NextPage(wp[t])
           \/ \E l \in FreeLines : wp'[t] = FirstPage(l)
        /\ victim_line_pq' \subseteq
             victim_line_pq \cup (IF vp # pgs_per_line THEN {wp[t].blk} ELSE {})
    <3> HIDE DEF vp
    <3>1. pc # "oops" /\ ~RunsDry(t)
      BY <1>1, <1>13
    <3> QED BY <1>1, <1>2, <2>1, <3>1, AdvancePlaces
  <2>4. LinesPlaced'
    BY <2>2, <2>3 DEF LinesPlaced
  <2>5. /\ \A u \in IoTypes : \A p \in PagesOf(wp'[u].blk) :
             ~Before(p, wp'[u]) => status[p] = "FREE" /\ p # new
        /\ \A l \in FreeLines' : \A p \in PagesOf(l) :
             status[p] = "FREE" /\ p # new
    BY <1>1, <1>2, <2>3, AdvancePages DEF new
  <2>6. \A p \in Ppa : p # new /\ status[p] = "FREE" => status'[p] = "FREE"
    BY <1>6, <1>8
  <2>7. OpenPagesFree' /\ FreeLinesErased'
    BY <2>5, <2>6 DEF OpenPagesFree, FreeLinesErased, PagesOf, Before
  <2>8. QueuedNotFull'
    <3> SUFFICES ASSUME NEW l \in victim_line_pq' PROVE vpc'[l] < pgs_per_line
      BY DEF QueuedNotFull
    <3>1. CASE l \in victim_line_pq
      <4>1. l # new.blk /\ vpc[l] < pgs_per_line /\ l \in Lines
        BY <1>2, <1>5, <2>1, <3>1 DEF Partition, QueuedNotFull
      <4> QED BY <1>1, <1>4, <4>1
    <3>2. CASE l = new.blk /\ vp # pgs_per_line
      <4>1. l \in Lines \ {victim} /\ vpc'[l] = Count(status', l, "VALID")
        BY <1>5, <1>11, <3>2
      <4>2. Count(status', l, "VALID") \in Nat /\ Count(status', l, "VALID") <= pgs_per_line
        BY <4>1, CountBound
      <4> QED BY <3>2, <4>1, <4>2, LineNotEmpty
    <3> QED BY <2>3, <3>1, <3>2 DEF new
  <2> QED BY <2>4, <2>7, <2>8
<1>14. ASSUME pc' # "oops"
       PROVE  CollectionOrder'
  <2>1. /\ scan'.blk = victim' /\ pc' \in {"gc", "free"}
        /\ \A p \in Ppa : Visited(p)' <=> Visited(p) \/ p = scan
    BY <1>1, <1>2, <1>14, ScanAdvance
  <2>2. \A p \in PagesOf(victim) : Visited(BlockEnd(p))' => status'[p] = "FREE"
    BY <1>1, <1>2, <1>6, <1>14, ErasedBehind
  <2>3. \A p \in PagesOf(victim') : Visited(BlockEnd(p))' => status'[p] = "FREE"
    BY <1>1, <2>2
  <2>4. ASSUME NEW p \in Ppa, Visited(p)', NEW m \in Lpns
        PROVE  maptbl'[m] # p
    <3>1. p.blk = victim
      BY <1>1, <2>4, VisitedNext
    <3>2. CASE maptbl'[m] = new
      BY <1>5, <3>1, <3>2
    <3>3. CASE maptbl'[m] # new
      <4>1. maptbl'[m] = maptbl[m] /\ maptbl[m] # scan
        BY <1>9, <3>3
      <4>2. CASE Visited(p)
        BY <1>2, <4>1, <4>2 DEF CollectionOrder
      <4>3. CASE p = scan
        BY <4>1, <4>3
      <4> QED BY <2>1, <2>4, <4>2, <4>3
    <3> QED BY <3>2, <3>3
  <2> QED BY <2>1, <2>3, <2>4 DEF CollectionOrder, PagesOf
<1> QED BY <1>3, <1>10, <1>12, <1>13, <1>14 DEF Inv

(* mark_line_free: the victim has been erased from its first page to its   *)
(* last, and joins the end of the free list.                               *)
LEMMA GcFreeLineInv ==
  ASSUME Inv, GcFreeLine
  PROVE  Inv'
<1> DEFINE F == free_line_list
           G == Append(F, victim)
<1>1. /\ pc = "free" /\ pc' = "write" /\ victim' = NULL
      /\ vpc' = [vpc EXCEPT ![victim] = 0] /\ ipc' = [ipc EXCEPT ![victim] = 0]
      /\ free_line_list' = G /\ free_line_cnt' = free_line_cnt + 1
      /\ UNCHANGED <<maptbl, rmap, status, full_line_list, victim_line_pq, wp>>
  BY DEF GcFreeLine, mapVars, Cleared
<1>2. /\ TypeOK /\ MappingConsistent /\ LineCountersExact /\ LinesPlaced
      /\ OpenPagesFree /\ FreeLinesErased /\ QueuedNotFull /\ CollectionOrder
  BY <1>1 DEF Inv
<1>3. TypeOK'
  BY <1>2, NextType DEF Next, ForegroundGc, GcStep
<1>4. /\ victim \in Lines /\ F \in Seq(Lines)
      /\ vpc \in [Lines -> Int] /\ ipc \in [Lines -> Nat]
      /\ free_line_cnt \in Int
  BY <1>1, <1>2 DEF TypeOK
<1>5. \A p \in PagesOf(victim) : status[p] = "FREE"
  <2>1. ASSUME NEW p \in PagesOf(victim) PROVE Visited(BlockEnd(p))
    BY <1>1 DEF Visited, BlockEnd, PagesOf, Ppa
  <2> QED BY <1>1, <1>2, <2>1 DEF CollectionOrder
<1>6. MappingConsistent'
  BY <1>1, <1>2 DEF MappingConsistent
<1>7. LineCountersExact'
  <2>1. ASSUME NEW l \in Lines
        PROVE  /\ vpc'[l] = Count(status, l, "VALID")
               /\ ipc'[l] = Count(status, l, "INVALID")
    <3>1. CASE l = victim
      <4>1. InState(status, l, "VALID") = {} /\ InState(status, l, "INVALID") = {}
        BY <1>5, <3>1 DEF InState
      <4> QED BY <1>1, <1>4, <3>1, <4>1, FS_EmptySet DEF Count
    <3>2. CASE l # victim
      <4>1. vpc[l] = Count(status, l, "VALID") /\ ipc[l] = Count(status, l, "INVALID")
        BY <1>2, <3>2, CountersAreCounts
      <4> QED BY <1>1, <1>4, <3>2, <4>1
    <3> QED BY <3>1, <3>2
  <2> QED BY <1>1, <2>1 DEF LineCountersExact, Count, InState
<1>8. /\ Collected = {victim} /\ Collected' = {}
      /\ victim \notin FreeLines /\ victim \notin victim_line_pq
      /\ victim \notin OpenLines
  BY <1>1, <1>2 DEF Collected, LinesPlaced, Partition
<1>9. /\ FreeLines' = FreeLines \cup {victim}
      /\ \A i, j \in DOMAIN G : G[i] = G[j] => i = j
      /\ Len(G) = Len(F) + 1
  <2>1. /\ Len(F) \in Nat /\ DOMAIN F = 1 .. Len(F)
        /\ Len(G) = Len(F) + 1 /\ DOMAIN G = 1 .. Len(F) + 1
        /\ \A i \in 1 .. Len(F) : G[i] = F[i]
        /\ G[Len(F) + 1] = victim
    BY <1>4
  <2>2. \A i \in DOMAIN F : F[i] # victim
    BY <1>8 DEF FreeLines
  <2>3. \A i, j \in DOMAIN F : F[i] = F[j] => i = j
    BY <1>2 DEF LinesPlaced, ListsAreSets
  <2>4. FreeLines' = {G[i] : i \in DOMAIN G}
    BY <1>1 DEF FreeLines
  <2>5. FreeLines = {F[i] : i \in DOMAIN F}
    BY DEF FreeLines
  <2> HIDE DEF F, G
  <2>6. \A i, j \in DOMAIN G : G[i] = G[j] => i = j
    BY <2>1, <2>2, <2>3
  <2>7. {G[i] : i \in DOMAIN G} = {F[i] : i \in DOMAIN F} \cup {victim}
    <3>1. ASSUME NEW i \in DOMAIN G
          PROVE  G[i] \in {F[j] : j \in DOMAIN F} \cup {victim}
      BY <2>1
    <3>2. ASSUME NEW i \in DOMAIN F PROVE F[i] \in {G[j] : j \in DOMAIN G}
      BY <2>1
    <3>3. victim \in {G[j] : j \in DOMAIN G}
      BY <2>1
    <3> QED BY <3>1, <3>2, <3>3
  <2> QED BY <2>1, <2>4, <2>5, <2>6, <2>7
<1> HIDE DEF F, G
<1>10. LinesPlaced'
  <2>1. OpenLines' = OpenLines
    BY <1>1 DEF OpenLines
  <2>2. Partition(FreeLines \cup {victim}, full_line_list, victim_line_pq,
                  OpenLines, {})
    BY <1>2, <1>8 DEF LinesPlaced, Partition
  <2>3. free_line_cnt' = Len(G)
    BY <1>1, <1>2, <1>4, <1>9 DEF LinesPlaced, ListsAreSets, F
  <2>4. ListsAreSets'
    BY <1>1, <1>2, <1>9, <2>3 DEF LinesPlaced, ListsAreSets
  <2> QED BY <1>1, <1>8, <1>9, <2>1, <2>2, <2>4 DEF LinesPlaced
<1>11. OpenPagesFree'
  BY <1>1, <1>2 DEF OpenPagesFree, Before, PagesOf
<1>12. FreeLinesErased'
  BY <1>1, <1>2, <1>5, <1>9 DEF FreeLinesErased, PagesOf
<1>13. QueuedNotFull'
  <2>1. ASSUME NEW l \in victim_line_pq PROVE vpc'[l] < pgs_per_line
    <3>1. l \in Lines /\ l # victim /\ vpc[l] < pgs_per_line
      BY <1>2, <1>8 DEF TypeOK, QueuedNotFull
    <3> QED BY <1>1, <1>4, <3>1
  <2> QED BY <1>1, <2>1 DEF QueuedNotFull
<1>14. CollectionOrder'
  BY <1>1, <1>3, NothingCollected
<1> QED BY <1>3, <1>6, <1>7, <1>10, <1>11, <1>12, <1>13, <1>14 DEF Inv

-----------------------------------------------------------------------------
(***************************************************************************)
(* The theorems                                                            *)
(***************************************************************************)

(* conv_init_ftl: every page is free, and three lines of the free list are *)
(* opened.                                                                 *)
LEMMA InitInv == Init => Inv
<1> SUFFICES ASSUME Init PROVE Inv
  OBVIOUS
<1> DEFINE N == Cardinality(Lines)
           at(t) == CASE t = USER_IO -> 1 [] t = GC_IO_HOT -> 2 [] t = GC_IO_COLD -> 3
<1>1. N \in Nat /\ N >= 3 /\ IsFiniteSet(Lines)
  BY LinesAssumption, FS_CardinalityType
<1>2. PICK order \in [1 .. N -> Lines] :
        /\ \A i, j \in DOMAIN order : order[i] = order[j] => i = j
        /\ wp = [t \in IoTypes |-> FirstPage(order[at(t)])]
        /\ free_line_list = SubSeq(order, 4, N)
  BY DEF Init
<1>3. /\ maptbl = [l \in Lpns |-> UNMAPPED_PPA]
      /\ status = [p \in Ppa |-> "FREE"]
      /\ vpc = [l \in Lines |-> 0] /\ ipc = [l \in Lines |-> 0]
      /\ full_line_list = {} /\ victim_line_pq = {}
      /\ free_line_cnt = N - 3 /\ pc = "write" /\ victim = NULL
  BY DEF Init
<1>4. \A t \in IoTypes : at(t) \in {1, 2, 3}
      /\ \A u \in IoTypes : at(t) = at(u) => t = u
  BY DEF IoTypes, USER_IO, GC_IO_HOT, GC_IO_COLD
<1>5. \A i \in {1, 2, 3} : \E t \in IoTypes : at(t) = i
  BY DEF IoTypes, USER_IO, GC_IO_HOT, GC_IO_COLD
<1> HIDE DEF at
<1>6. DOMAIN order = 1 .. N /\ \A i \in 1 .. N : order[i] \in Lines
  OBVIOUS
<1>7. \A t \in IoTypes : wp[t].blk = order[at(t)] /\ at(t) \in 1 .. N
  BY <1>1, <1>2, <1>4 DEF FirstPage
<1>8. /\ Len(free_line_list) = N - 3 /\ DOMAIN free_line_list = 1 .. N - 3
      /\ \A i \in 1 .. N - 3 : free_line_list[i] = order[i + 3]
  <2>1. order \in Seq(Lines) /\ Len(order) = N
    BY <1>1
  <2> HIDE DEF N
  <2> QED BY <1>1, <1>2, <2>1
<1> HIDE DEF N
<1>9. \A l \in Lines : \E i \in 1 .. N : order[i] = l
  <2>1. order \in Injection(1 .. N, Lines)
    BY <1>2, <1>6 DEF Injection, IsInjective
  <2>2. IsFiniteSet(1 .. N) /\ Cardinality(1 .. N) = N
    BY <1>1, FS_Interval
  <2>3. order \in Surjection(1 .. N, Lines)
    BY <1>1, <2>1, <2>2, FS_Injection DEF N
  <2> QED BY <2>3 DEF Surjection
<1>10. ListsAreSets
  <2>1. \A t, u \in IoTypes : wp[t].blk = wp[u].blk => t = u
    BY <1>2, <1>4, <1>6, <1>7
  <2>2. \A i, j \in DOMAIN free_line_list :
          free_line_list[i] = free_line_list[j] => i = j
    BY <1>1, <1>2, <1>6, <1>8
  <2> QED BY <1>3, <1>8, <2>1, <2>2 DEF ListsAreSets
<1>11. FreeLines \subseteq Lines /\ OpenLines \subseteq Lines
  BY <1>1, <1>6, <1>7, <1>8 DEF FreeLines, OpenLines
<1>12. FreeLines \cap OpenLines = {}
  <2>1. ASSUME NEW t \in IoTypes, NEW i \in 1 .. N - 3
        PROVE  wp[t].blk # free_line_list[i]
    <3>1. at(t) \in {1, 2, 3} /\ wp[t].blk = order[at(t)]
      BY <1>4, <1>7
    <3>2. free_line_list[i] = order[i + 3] /\ i + 3 \in 1 .. N /\ i + 3 > 3
      BY <1>1, <1>8
    <3>3. at(t) \in 1 .. N /\ at(t) # i + 3
      BY <1>1, <3>1, <3>2
    <3> QED BY <1>2, <1>6, <3>1, <3>2, <3>3
  <2> QED BY <1>8, <2>1 DEF FreeLines, OpenLines
<1>13. Lines \subseteq FreeLines \cup OpenLines
  <2>1. ASSUME NEW i \in 1 .. N PROVE order[i] \in FreeLines \cup OpenLines
    <3>1. CASE i \in {1, 2, 3}
      BY <1>5, <1>7, <3>1 DEF OpenLines
    <3>2. CASE i \notin {1, 2, 3}
      <4>1. i - 3 \in 1 .. N - 3 /\ free_line_list[i - 3] = order[i]
        BY <1>1, <1>8, <3>2
      <4> QED BY <1>8, <4>1 DEF FreeLines
    <3> QED BY <3>1, <3>2
  <2> QED BY <1>9, <2>1
<1>14. LinesPlaced
  <2>1. Collected = {}
    BY <1>3 DEF Collected
  <2> QED BY <1>3, <1>10, <1>11, <1>12, <1>13, <2>1 DEF LinesPlaced, Partition
<1>15. LineCountersExact
  <2>1. ASSUME NEW l \in Lines
        PROVE  /\ vpc[l] = Count(status, l, "VALID")
               /\ ipc[l] = Count(status, l, "INVALID")
    <3>1. InState(status, l, "VALID") = {} /\ InState(status, l, "INVALID") = {}
      BY <1>3 DEF InState, PagesOf
    <3> QED BY <1>3, <3>1, FS_EmptySet DEF Count
  <2> QED BY <2>1, CountersAreCounts
<1>16. MappingConsistent
  BY <1>3 DEF MappingConsistent
<1>17. OpenPagesFree /\ FreeLinesErased /\ QueuedNotFull
  BY <1>3 DEF OpenPagesFree, FreeLinesErased, QueuedNotFull, PagesOf
<1>18. CollectionOrder
  BY <1>3, NullAssumption DEF CollectionOrder, Visited, Ppa
<1> QED BY <1>14, <1>15, <1>16, <1>17, <1>18, InitType DEF Inv

(* Every step of the dispatcher in conv_write keeps the invariant.         *)
LEMMA InvInductive == Inv /\ [Next]_vars => Inv'
<1> SUFFICES ASSUME Inv, [Next]_vars PROVE Inv'
  OBVIOUS
<1>1. CASE Write
  BY <1>1, WriteNewInv, OverwriteInv DEF Write
<1>2. CASE SkipGc \/ NoVictim
  BY <1>2, NoCollectionInv
<1>3. CASE \E l \in Lines : SelectVictim(l)
  BY <1>3, SelectVictimInv
<1>4. CASE GcStep
  BY <1>4, GcSkipPageInv, GcCopyPageInv, GcFreeLineInv DEF GcStep
<1>5. CASE UNCHANGED vars
  <2>1. UNCHANGED <<maptbl, rmap, status, vpc, ipc, free_line_list, full_line_list,
                    victim_line_pq, free_line_cnt, wp, pc, victim, scan>>
    BY <1>5 DEF vars, mapVars, lineVars, gcVars
  <2>2. TypeOK' /\ MappingConsistent' /\ LineCountersExact'
    <3>1. TypeOK /\ MappingConsistent /\ LineCountersExact
      BY DEF Inv
    <3>2. TypeOK'
      BY <3>1, NextType
    <3>3. MappingConsistent' /\ LineCountersExact'
      BY <2>1, <3>1 DEF MappingConsistent, LineCountersExact, PagesOf
    <3> QED BY <3>2, <3>3
  <2>3. LinesPlaced <=> LinesPlaced'
    <3>1. FreeLines' = FreeLines /\ OpenLines' = OpenLines /\ Collected' = Collected
      BY <2>1 DEF FreeLines, OpenLines, Collected
    <3>2. ListsAreSets <=> ListsAreSets'
      BY <2>1 DEF ListsAreSets
    <3> QED BY <2>1, <3>1, <3>2 DEF LinesPlaced
  <2>4. OpenPagesFree <=> OpenPagesFree'
    BY <2>1 DEF OpenPagesFree, Before, PagesOf
  <2>5. FreeLinesErased <=> FreeLinesErased'
    BY <2>1 DEF FreeLinesErased, FreeLines, PagesOf
  <2>6. QueuedNotFull <=> QueuedNotFull'
    BY <2>1 DEF QueuedNotFull
  <2>7. CollectionOrder <=> CollectionOrder'
    <3>1. ASSUME NEW p PROVE Visited(p) <=> Visited(p)'
      BY <2>1 DEF Visited, FlashPgOf
    <3> QED BY <2>1, <3>1 DEF CollectionOrder, PagesOf
  <2> QED BY <2>1, <2>2, <2>3, <2>4, <2>5, <2>6, <2>7 DEF Inv
<1> QED BY <1>1, <1>2, <1>3, <1>4, <1>5 DEF Next, ForegroundGc

(* The invariant holds of every execution of conv_write.                   *)
THEOREM InvariantHolds == Spec => []Inv
<1>1. Init => Inv
  BY InitInv
<1>2. Inv /\ [Next]_vars => Inv'
  BY InvInductive
<1> QED BY <1>1, <1>2, PTL DEF Spec

-----------------------------------------------------------------------------
(***************************************************************************)
(* What a read, the collector and the choice of a victim rely on, for every *)
(* geometry, number of lines, threshold and victim policy.                 *)
(***************************************************************************)

(* What conv_read finds through maptbl is the last page conv_write or      *)
(* gc_write_page programmed for that logical page.                         *)
THEOREM MappingSafe == Spec => []MappingConsistent
<1>1. Inv => MappingConsistent
  BY DEF Inv
<1> QED BY <1>1, InvariantHolds, PTL

(* The counters mark_page_valid, mark_page_invalid and mark_line_free keep *)
(* are the numbers of pages, outside the line being collected.             *)
THEOREM CountersExact == Spec => []LineCountersExact
<1>1. Inv => LineCountersExact
  BY DEF Inv
<1> QED BY <1>1, InvariantHolds, PTL

(* A list without repetition has as many elements as entries.              *)
LEMMA FreeLinesCounted ==
  ASSUME TypeOK, ListsAreSets
  PROVE  Cardinality(FreeLines) = Len(free_line_list)
<1> DEFINE s == free_line_list
           n == Len(free_line_list)
<1>1. n \in Nat /\ DOMAIN s = 1 .. n /\ s = [i \in 1 .. n |-> s[i]]
  BY DEF TypeOK
<1>2. FreeLines = {s[i] : i \in DOMAIN s}
  BY DEF FreeLines
<1>3. \A i, j \in DOMAIN s : s[i] = s[j] => i = j
  BY DEF ListsAreSets
<1> HIDE DEF s, n
<1>4. s \in [1 .. n -> FreeLines]
  BY <1>1, <1>2
<1>5. s \in Injection(1 .. n, FreeLines)
  BY <1>1, <1>3, <1>4 DEF Injection, IsInjective
<1>6. s \in Surjection(1 .. n, FreeLines)
  BY <1>1, <1>2, <1>4 DEF Surjection
<1>7. ExistsBijection(1 .. n, FreeLines)
  BY <1>5, <1>6 DEF ExistsBijection, Bijection
<1>8. Cardinality(FreeLines) = n
  BY <1>1, <1>7, FS_CountingElements
<1> QED BY <1>8 DEF n

(* No list operation of the FTL loses a line or lists it twice.            *)
THEOREM LinesInOnePlace == Spec => []EachLineInOnePlace
<1>1. Inv => EachLineInOnePlace
  <2> SUFFICES ASSUME Inv, pc # "oops" PROVE EachLineInOnePlace
    BY DEF EachLineInOnePlace
  <2>1. LinesPlaced /\ ListsAreSets /\ TypeOK
    BY DEF Inv, LinesPlaced
  <2> DEFINE places == <<FreeLines, full_line_list, victim_line_pq, OpenLines,
                         Collected>>
  <2>2. DOMAIN places = {1, 2, 3, 4, 5}
    OBVIOUS
  <2>3. \A l \in Lines : \E i \in DOMAIN places : l \in places[i]
    <3>1. ASSUME NEW l \in Lines
          PROVE  l \in places[1] \/ l \in places[2] \/ l \in places[3]
                 \/ l \in places[4] \/ l \in places[5]
      BY <2>1 DEF LinesPlaced, Partition
    <3> HIDE DEF places
    <3> QED BY <2>2, <3>1
  <2>4. \A i, j \in DOMAIN places : i # j => places[i] \cap places[j] = {}
    <3>1. ASSUME NEW i \in {1, 2, 3, 4, 5}, NEW j \in {1, 2, 3, 4, 5}, i < j
          PROVE  places[i] \cap places[j] = {}
      BY <2>1, <3>1 DEF LinesPlaced, Partition
    <3> HIDE DEF places
    <3>2. ASSUME NEW i \in {1, 2, 3, 4, 5}, NEW j \in {1, 2, 3, 4, 5}, i # j
          PROVE  places[i] \cap places[j] = {}
      <4>1. CASE i < j
        BY <3>1, <4>1
      <4>2. CASE j < i
        <5>1. places[j] \cap places[i] = {}
          BY <3>1, <4>2
        <5> QED BY <5>1
      <4> QED BY <3>2, <4>1, <4>2
    <3> QED BY <2>2, <3>2
  <2>5. Cardinality(FreeLines) = Len(free_line_list)
    BY <2>1, FreeLinesCounted
  <2> QED BY <2>1, <2>3, <2>4, <2>5 DEF EachLineInOnePlace, ListsAreSets, Collected
<1> QED BY <1>1, InvariantHolds, PTL

-----------------------------------------------------------------------------
(***************************************************************************)
(* No page stays valid that nothing maps to                                *)
(***************************************************************************)

(* A page is written for a logical page that no other page keeps: old is   *)
(* the page it leaves, if it had one.                                      *)
Remaps(map2, rmap2, lpn, old, new) ==
  /\ maptbl[lpn] = old
  /\ map2 = [maptbl EXCEPT ![lpn] = new]
  /\ rmap2[new] = lpn
  /\ \A p \in Ppa \ {old, new} : rmap2[p] = rmap[p]

(* Whoever else was mapped still is.                                       *)
LEMMA RemapKeepsOthers ==
  ASSUME TypeOK, NEW map2, NEW rmap2, NEW lpn \in Lpns, NEW old, NEW new \in Ppa,
         Remaps(map2, rmap2, lpn, old, new),
         NEW p \in Ppa \ {old}, p = new \/ (rmap[p] \in Lpns /\ maptbl[rmap[p]] = p)
  PROVE  rmap2[p] \in Lpns /\ map2[rmap2[p]] = p
<1>1. maptbl \in [Lpns -> Ppa \cup {UNMAPPED_PPA}]
  BY DEF TypeOK
<1>2. CASE p = new
  BY <1>1, <1>2 DEF Remaps
<1>3. CASE p # new
  <2>1. rmap2[p] = rmap[p] /\ rmap[p] # lpn
    BY <1>3 DEF Remaps
  <2> QED BY <1>1, <1>3, <2>1 DEF Remaps
<1> QED BY <1>2, <1>3

(* conv_write: the old page, if any, is invalid before the new one counts. *)
LEMMA WriteNoOrphan ==
  ASSUME Inv, NoOrphanPage, NEW lpn \in Lpns, WriteNew(lpn) \/ Overwrite(lpn)
  PROVE  NoOrphanPage'
<1> DEFINE new == wp[USER_IO]
           old == maptbl[lpn]
<1>1. /\ pc = "write" /\ TypeOK /\ OpenPagesFree
      /\ victim = NULL /\ NULL \notin Lines
  BY NullAssumption DEF Inv, WriteNew, Overwrite, CollectionOrder
<1>2. new \in Ppa /\ USER_IO \in IoTypes
  BY <1>1, WritePointerFree DEF IoTypes
<1>3. /\ status \in [Ppa -> {"FREE", "VALID", "INVALID"}]
      /\ rmap \in [Ppa -> Lpns \cup {INVALID_LPN}]
      /\ UNMAPPED_PPA \notin Ppa
  BY <1>1, NullAssumption DEF TypeOK
<1>4. /\ maptbl' = [maptbl EXCEPT ![lpn] = new]
      /\ \/ /\ old = UNMAPPED_PPA
            /\ rmap' = [rmap EXCEPT ![new] = lpn]
            /\ status' = [status EXCEPT ![new] = "VALID"]
         \/ /\ old # UNMAPPED_PPA
            /\ rmap' = [rmap EXCEPT ![old] = INVALID_LPN, ![new] = lpn]
            /\ status' = [status EXCEPT ![old] = "INVALID", ![new] = "VALID"]
  BY DEF WriteNew, Overwrite
<1> HIDE DEF new
<1>5. Remaps(maptbl', rmap', lpn, old, new)
  <2> HIDE DEF old
  <2>1. maptbl[lpn] = old
    BY DEF old
  <2>2. rmap'[new] = lpn
    BY <1>2, <1>3, <1>4
  <2>3. \A p \in Ppa \ {old, new} : rmap'[p] = rmap[p]
    BY <1>3, <1>4
  <2> QED BY <1>4, <2>1, <2>2, <2>3 DEF Remaps
<1>6. ASSUME NEW p \in Ppa, status'[p] = "VALID"
      PROVE  /\ p = new \/ status[p] = "VALID"
             /\ p = old => p = new
  <2> HIDE DEF old
  <2> QED BY <1>2, <1>3, <1>4, <1>6
<1>7. ASSUME NEW p \in Ppa, status'[p] = "VALID"
      PROVE  rmap'[p] \in Lpns /\ maptbl'[rmap'[p]] = p
  <2>1. CASE p = old
    <3>1. maptbl'[lpn] = new
      BY <1>1, <1>4 DEF TypeOK
    <3> QED BY <1>5, <1>6, <1>7, <2>1, <3>1 DEF Remaps
  <2>2. CASE p # old
    <3>1. ~Visited(p)
      BY <1>1 DEF Visited, Ppa
    <3>2. p = new \/ (rmap[p] \in Lpns /\ maptbl[rmap[p]] = p)
      BY <1>1, <1>6, <1>7, <3>1 DEF NoOrphanPage
    <3> HIDE DEF old
    <3> QED BY <1>1, <1>2, <1>5, <2>2, <3>2, RemapKeepsOthers
  <2> QED BY <2>1, <2>2
<1> QED BY <1>7 DEF NoOrphanPage

(* gc_write_page leaves the old page valid, but the collector has now      *)
(* visited it; the erase that ends a block, and mark_line_free, take such  *)
(* pages away.                                                             *)
LEMMA GcNoOrphan ==
  ASSUME Inv, NoOrphanPage, ForegroundGc
  PROVE  NoOrphanPage'
<1>1. CASE SkipGc \/ NoVictim \/ \E l \in Lines : SelectVictim(l)
  <2>1. /\ pc = "credit" /\ UNCHANGED <<maptbl, rmap, status>>
    BY <1>1 DEF SkipGc, NoVictim, SelectVictim, mapVars
  <2>2. ASSUME NEW p \in Ppa PROVE ~Visited(p)
    BY <2>1, NullAssumption DEF Inv, CollectionOrder, Visited, Ppa
  <2> QED BY <2>1, <2>2 DEF NoOrphanPage
<1>2. CASE GcSkipPage
  <2>1. /\ ScanMoves /\ pc = "gc" /\ pc' # "oops" /\ status[scan] # "VALID"
        /\ UNCHANGED <<maptbl, rmap>> /\ status' = Erased(status, scan)
        /\ TypeOK /\ CollectionOrder
    BY <1>2 DEF GcSkipPage, ScanMoves, Inv
  <2>2. \A p \in Ppa : Visited(p)' <=> Visited(p) \/ p = scan
    BY <2>1, ScanAdvance
  <2>3. \A p \in Ppa : status'[p] = "VALID" => status[p] = "VALID"
    BY <2>1 DEF Erased
  <2> QED BY <2>1, <2>2, <2>3 DEF NoOrphanPage
<1>3. ASSUME NEW t \in {GC_IO_HOT, GC_IO_COLD}, GcCopyPage(t)
      PROVE  NoOrphanPage'
  <2> DEFINE new == wp[t]
             lpn == rmap[scan]
             st == [status EXCEPT ![new] = "VALID"]
  <2> SUFFICES ASSUME pc' # "oops" PROVE NoOrphanPage'
    BY DEF NoOrphanPage
  <2>1. /\ ScanMoves /\ pc = "gc" /\ status[scan] = "VALID"
        /\ maptbl' = [maptbl EXCEPT ![lpn] = new]
        /\ rmap' = [rmap EXCEPT ![new] = lpn]
        /\ status' = Erased(st, scan)
        /\ t \in IoTypes
        /\ TypeOK /\ CollectionOrder /\ OpenPagesFree
    BY <1>3 DEF GcCopyPage, ScanMoves, Inv, IoTypes
  <2>2. /\ \A p \in Ppa : Visited(p)' <=> Visited(p) \/ p = scan
        /\ scan \in Ppa /\ scan.blk = victim
    BY <2>1, ScanAdvance
  <2>3. new \in Ppa
    BY <2>1, WritePointerFree
  <2>4. /\ rmap \in [Ppa -> Lpns \cup {INVALID_LPN}]
        /\ status \in [Ppa -> {"FREE", "VALID", "INVALID"}]
    BY <2>1 DEF TypeOK
  <2>5. lpn \in Lpns /\ maptbl[lpn] = scan
    <3>1. ~Visited(scan)
      BY <2>1, <2>2, VisitedIsScanBefore, ScanNotBeforeItself
    <3> QED BY <2>1, <2>2, <3>1 DEF NoOrphanPage
  <2> HIDE DEF new
  <2>6. Remaps(maptbl', rmap', lpn, scan, new)
    <3>1. rmap'[new] = lpn /\ \A p \in Ppa \ {new} : rmap'[p] = rmap[p]
      <4> HIDE DEF lpn
      <4> QED BY <2>1, <2>3, <2>4
    <3> QED BY <2>1, <2>5, <3>1 DEF Remaps
  <2>7. \A p \in Ppa : status'[p] = "VALID" => status[p] = "VALID" \/ p = new
    BY <2>1, <2>4 DEF Erased
  <2>8. ASSUME NEW p \in Ppa, status'[p] = "VALID", ~Visited(p)'
        PROVE  rmap'[p] \in Lpns /\ maptbl'[rmap'[p]] = p
    <3>1. ~Visited(p) /\ p # scan
      BY <2>2, <2>8
    <3>2. p = new \/ (rmap[p] \in Lpns /\ maptbl[rmap[p]] = p)
      BY <2>1, <2>7, <2>8, <3>1 DEF NoOrphanPage
    <3>3. p \in Ppa \ {scan} /\ TypeOK /\ lpn \in Lpns
      BY <2>1, <2>5, <3>1
    <3> HIDE DEF lpn
    <3> QED BY <2>3, <2>6, <3>2, <3>3, RemapKeepsOthers
  <2> QED BY <2>8 DEF NoOrphanPage
<1>4. CASE GcFreeLine
  <2>1. /\ pc = "free" /\ UNCHANGED <<maptbl, rmap, status>> /\ CollectionOrder
    BY <1>4 DEF GcFreeLine, mapVars, Inv
  <2>2. ASSUME NEW p \in Ppa, Visited(p) PROVE status[p] = "FREE"
    <3>1. p \in PagesOf(victim) /\ Visited(BlockEnd(p))
      BY <2>1, <2>2 DEF Visited, BlockEnd, PagesOf, Ppa
    <3> QED BY <2>1, <3>1 DEF CollectionOrder
  <2> QED BY <2>1, <2>2 DEF NoOrphanPage
<1> QED BY <1>1, <1>2, <1>3, <1>4 DEF ForegroundGc, GcStep

(* Both halves of the handler keep pages from being orphaned.              *)
LEMMA NoOrphanInductive == Inv /\ NoOrphanPage /\ [Next]_vars => NoOrphanPage'
<1> SUFFICES ASSUME Inv, NoOrphanPage, [Next]_vars PROVE NoOrphanPage'
  OBVIOUS
<1>1. CASE Write
  BY <1>1, WriteNoOrphan DEF Write
<1>2. CASE ForegroundGc
  BY <1>2, GcNoOrphan
<1>3. CASE UNCHANGED vars
  <2>1. UNCHANGED <<maptbl, rmap, status, pc, victim, scan>>
    BY <1>3 DEF vars, mapVars, gcVars
  <2>2. ASSUME NEW p PROVE Visited(p) <=> Visited(p)'
    BY <2>1 DEF Visited, FlashPgOf
  <2> QED BY <2>1, <2>2 DEF NoOrphanPage
<1> QED BY <1>1, <1>2, <1>3 DEF Next

(* Every valid page is the page of a logical page, or is about to be       *)
(* erased: no space is lost, whatever the host writes.                     *)
THEOREM NoPageOrphaned == Spec => []NoOrphanPage
<1>1. Init => NoOrphanPage
  BY DEF Init, NoOrphanPage
<1>2. Inv /\ NoOrphanPage /\ [Next]_vars => NoOrphanPage'
  BY NoOrphanInductive
<1> QED BY <1>1, <1>2, InvariantHolds, PTL DEF Spec

(* gc_write_page moves the logical page it reads from the reverse mapping  *)
(* of the page it visits, and no other, to a free page of another line.    *)
THEOREM GcMovesOnlyIt == Spec => GcMovesOnlyTheVisitedPage
<1> DEFINE Step == pc # "write" => \A lpn \in Lpns : maptbl'[lpn] # maptbl[lpn] =>
                     /\ maptbl[lpn] = scan
                     /\ maptbl'[lpn].blk # victim
                     /\ status[maptbl'[lpn]] = "FREE"
<1>1. ASSUME Inv, NoOrphanPage, Next PROVE Step
  <2> SUFFICES ASSUME pc # "write", NEW lpn \in Lpns, maptbl'[lpn] # maptbl[lpn]
               PROVE  /\ maptbl[lpn] = scan
                      /\ maptbl'[lpn].blk # victim
                      /\ status[maptbl'[lpn]] = "FREE"
    OBVIOUS
  <2>1. PICK t \in {GC_IO_HOT, GC_IO_COLD} : GcCopyPage(t)
    BY <1>1 DEF Next, Write, WriteNew, Overwrite, ForegroundGc, SkipGc, NoVictim,
         SelectVictim, GcStep, GcSkipPage, GcFreeLine, mapVars
  <2>2. /\ pc = "gc" /\ status[scan] = "VALID" /\ t \in IoTypes
        /\ maptbl' = [maptbl EXCEPT ![rmap[scan]] = wp[t]]
        /\ TypeOK /\ CollectionOrder /\ OpenPagesFree /\ LinesPlaced
    BY <1>1, <2>1 DEF GcCopyPage, Inv, IoTypes
  <2>3. scan \in Ppa /\ maptbl \in [Lpns -> Ppa \cup {UNMAPPED_PPA}]
    BY <2>2 DEF TypeOK
  <2>4. maptbl[rmap[scan]] = scan
    <3>1. ~Visited(scan)
      BY <2>2, <2>3, VisitedIsScanBefore, ScanNotBeforeItself
    <3> QED BY <1>1, <2>2, <2>3, <3>1 DEF NoOrphanPage
  <2>5. lpn = rmap[scan] /\ maptbl'[lpn] = wp[t]
    BY <2>2, <2>3
  <2>6. status[wp[t]] = "FREE" /\ wp[t].blk \in OpenLines
    BY <2>2, WritePointerFree
  <2>7. victim \notin OpenLines
    BY <2>2 DEF LinesPlaced, Partition, Collected
  <2> QED BY <2>4, <2>5, <2>6, <2>7
<1>2. ASSUME UNCHANGED vars PROVE Step
  BY <1>2 DEF vars, mapVars
<1>3. Inv /\ NoOrphanPage /\ [Next]_vars => [Step]_vars
  BY <1>1, <1>2
<1>4. Spec => [][Step]_vars
  <2> HIDE DEF Step
  <2> QED BY <1>3, InvariantHolds, NoPageOrphaned, PTL DEF Spec
<1> QED BY <1>4 DEF GcMovesOnlyTheVisitedPage

-----------------------------------------------------------------------------
(***************************************************************************)
(* Lines are written in order and listed by their counters                 *)
(***************************************************************************)

(* A line in the full list or the victim queue has been written from its   *)
(* first page to its last, is not being collected, and is in the one that  *)
(* its count says.                                                         *)
ClosedLines ==
  /\ victim \notin full_line_list \cup victim_line_pq
  /\ \A l \in full_line_list : vpc[l] = pgs_per_line
  /\ \A l \in victim_line_pq : vpc[l] < pgs_per_line
  /\ \A l \in full_line_list \cup victim_line_pq : \A p \in PagesOf(l) :
       status[p] # "FREE"

(* The pages a write pointer has come from are not free.                   *)
OpenPagesWritten ==
  \A t \in IoTypes : \A p \in PagesOf(wp[t].blk) :
    Before(p, wp[t]) => status[p] # "FREE"

(* No page is free ahead of the collector.                                 *)
VictimWritten ==
  pc = "gc" => \A p \in PagesOf(victim) : ~Visited(p) => status[p] # "FREE"

Order == ClosedLines /\ (pc # "oops" => OpenPagesWritten /\ VictimWritten)

(* advance_write_pointer: the only line it lists is the one it leaves,     *)
(* with every page written and by its count; the line it opens has no page *)
(* before its first.                                                       *)
LEMMA AdvanceCloses ==
  ASSUME TypeOK, pc # "oops", LinesPlaced, OpenPagesWritten,
         NEW t \in IoTypes, NEW vp, NEW full, NEW victims,
         AdvanceWritePointer(t, vp, full, victims),
         \A p \in Ppa : p.blk \in OpenLines /\ status[p] # "FREE" => status'[p] # "FREE",
         status'[wp[t]] # "FREE"
  PROVE  /\ \A l \in full_line_list' : l \in full \/ (l = wp[t].blk /\ vp = pgs_per_line)
         /\ \A l \in victim_line_pq' : l \in victims \/ (l = wp[t].blk /\ vp # pgs_per_line)
         /\ wp[t].blk \in full_line_list' \cup victim_line_pq' =>
              \/ wp[t].blk \in full \cup victims
              \/ \A p \in PagesOf(wp[t].blk) : status'[p] # "FREE"
         /\ ~RunsDry(t) => OpenPagesWritten'
<1> DEFINE w == wp[t]
<1>1. /\ wp \in [IoTypes -> Ppa] /\ w \in Ppa /\ w.blk \in OpenLines
  BY DEF TypeOK, OpenLines
<1>2. ASSUME NEW u \in IoTypes \ {t}, wp'[u] = wp[u], NEW p \in PagesOf(wp'[u].blk),
             Before(p, wp'[u])
      PROVE  status'[p] # "FREE"
  <2>1. p \in PagesOf(wp[u].blk) /\ Before(p, wp[u])
    BY <1>2
  <2>2. p \in Ppa /\ p.blk \in OpenLines
    BY <2>1 DEF PagesOf, OpenLines
  <2> QED BY <2>1, <2>2 DEF OpenPagesWritten
<1>3. CASE ~LastOfLine(w)
  <2>1. /\ wp' = [wp EXCEPT ![t] = NextPage(w)]
        /\ full_line_list' = full /\ victim_line_pq' = victims
    BY <1>3 DEF AdvanceWritePointer
  <2>2. wp'[t] = NextPage(w) /\ \A u \in IoTypes \ {t} : wp'[u] = wp[u]
    BY <1>1, <2>1
  <2>3. ASSUME NEW p \in PagesOf(wp'[t].blk), Before(p, wp'[t])
        PROVE  status'[p] # "FREE"
    <3>1. p \in Ppa /\ p.blk = w.blk
      BY <1>1, <1>3, <2>2, NextPageInLine DEF PagesOf
    <3>2. Before(p, w) \/ p = w
      BY <1>1, <1>3, <2>2, <2>3, <3>1, BeforeNextPage
    <3>3. Before(p, w) => status[p] # "FREE"
      BY <3>1 DEF OpenPagesWritten, PagesOf
    <3> QED BY <1>1, <3>1, <3>2, <3>3
  <2>4. OpenPagesWritten'
    <3>1. ASSUME NEW u \in IoTypes, NEW p \in PagesOf(wp'[u].blk), Before(p, wp'[u])
          PROVE  status'[p] # "FREE"
      BY <1>2, <2>2, <2>3, <3>1
    <3> QED BY <3>1 DEF OpenPagesWritten, PagesOf, Before
  <2> QED BY <2>1, <2>4
<1>4. CASE LastOfLine(w)
  <2>1. \/ /\ vp = pgs_per_line
           /\ full_line_list' = full \cup {w.blk} /\ victim_line_pq' = victims
        \/ /\ vp # pgs_per_line
           /\ full_line_list' = full /\ victim_line_pq' = victims \cup {w.blk}
    BY <1>4 DEF AdvanceWritePointer
  <2>2. ASSUME NEW p \in PagesOf(w.blk) PROVE status'[p] # "FREE"
    <3>1. p \in Ppa /\ p.blk = w.blk
      BY DEF PagesOf
    <3>2. Before(p, w) \/ p = w
      BY <1>1, <1>4, <3>1, LineEnd
    <3> QED BY <1>1, <3>1, <3>2 DEF OpenPagesWritten
  <2>3. ASSUME ~RunsDry(t) PROVE OpenPagesWritten'
    <3>1. wp' = [wp EXCEPT ![t] = FirstPage(NextFreeLine)]
      BY <1>4 DEF AdvanceWritePointer
    <3>2. /\ wp'[t] = FirstPage(NextFreeLine)
          /\ \A u \in IoTypes \ {t} : wp'[u] = wp[u]
      BY <1>1, <3>1
    <3>3. ASSUME NEW u \in IoTypes, NEW p \in PagesOf(wp'[u].blk), Before(p, wp'[u])
          PROVE  status'[p] # "FREE"
      <4>1. p \in Ppa
        BY DEF PagesOf
      <4>2. u # t
        BY <3>2, <3>3, <4>1, NothingBeforeFirstPage
      <4> QED BY <1>2, <3>2, <3>3, <4>2
    <3> QED BY <3>3 DEF OpenPagesWritten, PagesOf, Before
  <2> QED BY <2>1, <2>2, <2>3
<1> QED BY <1>3, <1>4

(* conv_write: the line of the old page is taken off the full list in the  *)
(* step that makes one of its pages invalid, before its count is read      *)
(* again.                                                                  *)
LEMMA WriteOrder ==
  ASSUME Inv, Order, NEW lpn \in Lpns, WriteNew(lpn) \/ Overwrite(lpn)
  PROVE  Order'
<1> DEFINE new == wp[USER_IO]
           old == maptbl[lpn]
           vp == vpc'[new.blk]
           mapped == old # UNMAPPED_PPA
           full == IF mapped THEN FullAfterInvalid(old.blk) ELSE full_line_list
           victims == IF mapped THEN VictimsAfterInvalid(old.blk) ELSE victim_line_pq
<1>1. /\ pc = "write" /\ TypeOK /\ LinesPlaced /\ OpenPagesFree
      /\ OpenPagesWritten /\ ClosedLines
  BY DEF WriteNew, Overwrite, Inv, Order
<1>2. Write
  BY DEF Write
<1>3. Inv' /\ TypeOK'
  BY <1>2, InvInductive DEF Next, Inv
<1>4. /\ new \in Ppa /\ new.blk \in Lines /\ new.blk \in OpenLines
      /\ status[new] = "FREE" /\ USER_IO \in IoTypes
  BY <1>1, WritePointerFree DEF IoTypes
<1>5. /\ AdvanceWritePointer(USER_IO, vp, full, victims)
      /\ victim' = victim /\ victim = NULL
      /\ pc' \in {"write", "credit", "oops"}
      /\ pc' # "oops" => ~RunsDry(USER_IO)
      /\ status' = IF mapped THEN [status EXCEPT ![old] = "INVALID", ![new] = "VALID"]
                   ELSE [status EXCEPT ![new] = "VALID"]
      /\ vpc' = IF mapped
                THEN [[vpc EXCEPT ![old.blk] = @ - 1] EXCEPT ![new.blk] = @ + 1]
                ELSE [vpc EXCEPT ![new.blk] = @ + 1]
  BY DEF WriteNew, Overwrite, gcVars, Inv, CollectionOrder
<1>6. /\ status \in [Ppa -> {"FREE", "VALID", "INVALID"}] /\ vpc \in [Lines -> Int]
      /\ mapped => old \in Ppa /\ old.blk \in Lines
  BY <1>1 DEF TypeOK, Ppa
<1>7. mapped /\ WasFull(old.blk) => old.blk \in full_line_list
  BY <1>1, <1>6, WasFullIsListed
<1>8. /\ full \subseteq full_line_list
      /\ full \cup victims \subseteq full_line_list \cup victim_line_pq
      /\ mapped => old.blk \notin full
      /\ \A l \in victims : l \in victim_line_pq \/ (mapped /\ l = old.blk /\ WasFull(l))
  <2>1. CASE mapped /\ WasFull(old.blk)
    BY <1>7, <2>1 DEF FullAfterInvalid, VictimsAfterInvalid
  <2>2. CASE mapped /\ ~WasFull(old.blk)
    <3>1. old.blk \notin full_line_list
      BY <1>1, <2>2 DEF ClosedLines, WasFull
    <3> QED BY <2>2, <3>1 DEF FullAfterInvalid, VictimsAfterInvalid
  <2>3. CASE ~mapped
    BY <2>3
  <2> QED BY <2>1, <2>2, <2>3
<1>9. new.blk \notin full_line_list \cup victim_line_pq
  BY <1>1, <1>4 DEF LinesPlaced, Partition
<1>10. \A l \in Lines \ {new.blk} :
         vpc'[l] = IF mapped /\ l = old.blk THEN vpc[l] - 1 ELSE vpc[l]
  <2> HIDE DEF new, old, mapped
  <2> QED BY <1>4, <1>5, <1>6
<1>11. /\ \A p \in Ppa : status[p] # "FREE" => status'[p] # "FREE"
       /\ status'[new] # "FREE"
  <2> HIDE DEF new, old, mapped
  <2> QED BY <1>4, <1>5, <1>6
<1>12. vp <= pgs_per_line /\ vp \in Nat /\ pgs_per_line \in Nat
  <2>1. LineCountersExact' /\ new.blk # victim'
    BY <1>3, <1>4, <1>5, NullAssumption DEF Inv
  <2>2. vp = Count(status', new.blk, "VALID")
    BY <1>4, <2>1 DEF LineCountersExact, Count, InState
  <2>3. Count(status', new.blk, "VALID") \in Nat
        /\ Count(status', new.blk, "VALID") <= pgs_per_line
    BY <1>4, CountBound
  <2> QED BY <2>2, <2>3, LineNotEmpty
<1>13. /\ \A l \in full_line_list' : l \in full \/ (l = new.blk /\ vp = pgs_per_line)
       /\ \A l \in victim_line_pq' : l \in victims \/ (l = new.blk /\ vp # pgs_per_line)
       /\ new.blk \in full_line_list' \cup victim_line_pq' =>
            \/ new.blk \in full \cup victims
            \/ \A p \in PagesOf(new.blk) : status'[p] # "FREE"
       /\ ~RunsDry(USER_IO) => OpenPagesWritten'
  <2>1. pc # "oops" /\ AdvanceWritePointer(USER_IO, vp, full, victims)
    BY <1>1, <1>5
  <2> HIDE DEF vp, full, victims
  <2> QED BY <1>1, <1>4, <1>11, <2>1, AdvanceCloses
<1> HIDE DEF full, victims, vp, new, old, mapped
<1>14. ClosedLines'
  <2>1. victim' \notin full_line_list' \cup victim_line_pq'
    BY <1>3, <1>5, NullAssumption DEF TypeOK
  <2>2. ASSUME NEW l \in full_line_list' PROVE vpc'[l] = pgs_per_line
    <3>1. CASE l \in full
      <4>1. l \in Lines \ {new.blk} /\ vpc[l] = pgs_per_line /\ (mapped => l # old.blk)
        BY <1>1, <1>8, <1>9, <3>1 DEF ClosedLines, TypeOK
      <4> QED BY <1>10, <4>1
    <3>2. CASE l = new.blk /\ vp = pgs_per_line
      BY <3>2 DEF vp
    <3> QED BY <1>13, <3>1, <3>2
  <2>3. ASSUME NEW l \in victim_line_pq' PROVE vpc'[l] < pgs_per_line
    <3>1. CASE l \in victims
      <4>1. l \in Lines \ {new.blk} /\ vpc[l] \in Int
        BY <1>1, <1>6, <1>8, <1>9, <3>1 DEF TypeOK
      <4>2. vpc[l] < pgs_per_line \/ (mapped /\ l = old.blk /\ vpc[l] = pgs_per_line)
        BY <1>1, <1>8, <3>1 DEF ClosedLines, WasFull
      <4> QED BY <1>10, <1>12, <4>1, <4>2
    <3>2. CASE l = new.blk /\ vp # pgs_per_line
      BY <1>12, <3>2 DEF vp
    <3> QED BY <1>13, <3>1, <3>2
  <2>4. ASSUME NEW l \in full_line_list' \cup victim_line_pq', NEW p \in PagesOf(l)
        PROVE  status'[p] # "FREE"
    <3>1. p \in Ppa
      BY DEF PagesOf
    <3>2. CASE l \in full \cup victims
      BY <1>1, <1>8, <1>11, <3>1, <3>2 DEF ClosedLines
    <3>3. CASE l = new.blk /\ l \notin full \cup victims
      BY <1>13, <3>3
    <3> QED BY <1>13, <3>2, <3>3
  <2> QED BY <2>1, <2>2, <2>3, <2>4 DEF ClosedLines, PagesOf
<1>15. VictimWritten'
  BY <1>5 DEF VictimWritten
<1> QED BY <1>5, <1>13, <1>14, <1>15 DEF Order

(* The steps around a collection change no page; the line chosen comes     *)
(* from the victim queue, all written.                                     *)
LEMMA AroundCollectionOrder ==
  ASSUME Inv, Order,
         SkipGc \/ NoVictim \/ (\E l \in Lines : SelectVictim(l)) \/ GcFreeLine
  PROVE  Order'
<1>1. /\ UNCHANGED <<status, wp, full_line_list>> /\ pc # "oops"
      /\ TypeOK /\ LinesPlaced /\ ClosedLines /\ OpenPagesWritten
  BY DEF SkipGc, NoVictim, SelectVictim, GcFreeLine, mapVars, lineVars, Inv, Order
<1>2. OpenPagesWritten'
  BY <1>1 DEF OpenPagesWritten, PagesOf, Before
<1>3. CASE SkipGc \/ NoVictim
  <2>1. /\ UNCHANGED <<victim, vpc, victim_line_pq>> /\ pc' = "write"
    BY <1>3 DEF SkipGc, NoVictim, lineVars, gcVars
  <2> QED BY <1>1, <1>2, <2>1 DEF ClosedLines, PagesOf, VictimWritten, Order
<1>4. ASSUME NEW l \in Lines, SelectVictim(l)
      PROVE  Order'
  <2>1. /\ vpc' = vpc /\ victim' = l /\ l \in victim_line_pq
        /\ victim_line_pq' = victim_line_pq \ {l}
    BY <1>4 DEF SelectVictim
  <2>2. l \notin full_line_list
    BY <1>1, <2>1 DEF LinesPlaced, Partition
  <2>3. ClosedLines'
    BY <1>1, <2>1, <2>2 DEF ClosedLines, PagesOf
  <2>4. VictimWritten'
    BY <1>1, <2>1 DEF VictimWritten, ClosedLines, PagesOf
  <2> QED BY <1>2, <2>3, <2>4 DEF Order
<1>5. CASE GcFreeLine
  <2>1. /\ vpc' = [vpc EXCEPT ![victim] = 0] /\ victim' = NULL /\ pc' = "write"
        /\ victim_line_pq' = victim_line_pq
    BY <1>5 DEF GcFreeLine, Cleared
  <2>2. /\ \A l \in full_line_list \cup victim_line_pq : vpc'[l] = vpc[l]
        /\ NULL \notin full_line_list \cup victim_line_pq
    BY <1>1, <2>1, NullAssumption DEF TypeOK, ClosedLines
  <2>3. ClosedLines'
    BY <1>1, <2>1, <2>2 DEF ClosedLines, PagesOf
  <2> QED BY <1>2, <2>1, <2>3 DEF VictimWritten, Order
<1> QED BY <1>3, <1>4, <1>5

(* The erase of a block takes visited pages only: no page ahead of the     *)
(* collector becomes free.                                                 *)
LEMMA VictimStaysWritten ==
  ASSUME TypeOK, CollectionOrder, ScanMoves, pc' # "oops", VictimWritten,
         NEW st, \A p \in PagesOf(victim) : st[p] = status[p],
         status' = Erased(st, scan)
  PROVE  VictimWritten'
<1>1. /\ pc = "gc" /\ victim' = victim
      /\ \A p \in Ppa : Visited(p)' <=> Visited(p) \/ p = scan
  BY ScanAdvance DEF ScanMoves
<1>2. ASSUME NEW p \in PagesOf(victim), ~Visited(p)'
      PROVE  status'[p] # "FREE"
  <2>1. p \in Ppa /\ ~Visited(p) /\ p # scan
    BY <1>1, <1>2 DEF PagesOf
  <2>2. st[p] # "FREE"
    BY <1>1, <2>1 DEF VictimWritten
  <2>3. ~(EndOfBlock(scan) /\ SameBlock(p, scan))
    BY <1>1, <2>1, BlockVisited
  <2> QED BY <2>1, <2>2, <2>3 DEF Erased
<1> QED BY <1>1, <1>2 DEF VictimWritten, PagesOf

(* A page passed over.                                                     *)
LEMMA GcSkipOrder ==
  ASSUME Inv, Order, GcSkipPage
  PROVE  Order'
<1>1. /\ pc = "gc" /\ pc' # "oops" /\ ScanMoves /\ status' = Erased(status, scan)
      /\ UNCHANGED <<vpc, full_line_list, victim_line_pq, wp, victim>>
  BY DEF GcSkipPage, ScanMoves, lineVars
<1>2. /\ TypeOK /\ LinesPlaced /\ CollectionOrder
      /\ ClosedLines /\ OpenPagesWritten /\ VictimWritten
  BY <1>1 DEF Inv, Order
<1>3. VictimWritten'
  BY <1>1, <1>2, VictimStaysWritten
<1>4. \A p \in Ppa : p.blk # victim => status'[p] = status[p]
  BY <1>1, <1>2 DEF Erased, SameBlock, CollectionOrder
<1>5. ClosedLines'
  BY <1>1, <1>2, <1>4 DEF ClosedLines, PagesOf
<1>6. OpenPagesWritten'
  <2>1. \A t \in IoTypes : wp[t].blk # victim
    BY <1>1, <1>2 DEF LinesPlaced, Partition, Collected, OpenLines
  <2> QED BY <1>1, <1>2, <1>4, <2>1 DEF OpenPagesWritten, PagesOf, Before
<1> QED BY <1>3, <1>5, <1>6 DEF Order

(* A page written again, in a line that is not the victim.                 *)
LEMMA GcCopyOrder ==
  ASSUME Inv, Order, NEW t \in {GC_IO_HOT, GC_IO_COLD}, GcCopyPage(t)
  PROVE  Order'
<1> DEFINE new == wp[t]
           vp == vpc'[new.blk]
           st == [status EXCEPT ![new] = "VALID"]
<1>1. /\ pc = "gc" /\ ScanMoves /\ status' = Erased(st, scan)
      /\ vpc' = [vpc EXCEPT ![new.blk] = @ + 1]
      /\ AdvanceWritePointer(t, vp, full_line_list, victim_line_pq)
      /\ victim' = victim /\ t \in IoTypes
      /\ pc' # "oops" => ~RunsDry(t)
  BY DEF GcCopyPage, ScanMoves, IoTypes
<1>2. /\ TypeOK /\ LinesPlaced /\ CollectionOrder /\ OpenPagesFree
      /\ ClosedLines /\ OpenPagesWritten /\ VictimWritten
  BY <1>1 DEF Inv, Order
<1>3. Inv'
  BY InvInductive DEF Next, ForegroundGc, GcStep
<1>4. /\ new \in Ppa /\ new.blk \in Lines /\ new.blk \in OpenLines
      /\ status[new] = "FREE"
  BY <1>1, <1>2, WritePointerFree
<1>5. /\ status \in [Ppa -> {"FREE", "VALID", "INVALID"}] /\ vpc \in [Lines -> Int]
      /\ scan.blk = victim
  BY <1>1, <1>2 DEF TypeOK, CollectionOrder
<1>6. /\ victim \notin OpenLines
      /\ new.blk \notin full_line_list \cup victim_line_pq
  BY <1>1, <1>2, <1>4 DEF LinesPlaced, Partition, Collected
<1> HIDE DEF new
<1>7. /\ \A p \in Ppa : st[p] = IF p = new THEN "VALID" ELSE status[p]
      /\ \A p \in PagesOf(victim) : st[p] = status[p]
  BY <1>4, <1>5, <1>6 DEF PagesOf
<1> HIDE DEF st
<1>8. \A p \in Ppa : p.blk # victim => status'[p] = st[p]
  BY <1>1, <1>5 DEF Erased, SameBlock
<1>9. /\ \A p \in Ppa : p.blk # victim /\ status[p] # "FREE" => status'[p] # "FREE"
      /\ \A p \in Ppa : p.blk \in OpenLines /\ status[p] # "FREE" => status'[p] # "FREE"
      /\ status'[new] # "FREE"
  BY <1>4, <1>6, <1>7, <1>8
<1>10. vp <= pgs_per_line /\ vp \in Nat /\ pgs_per_line \in Nat
  <2>1. LineCountersExact' /\ new.blk # victim'
    BY <1>1, <1>3, <1>4, <1>6 DEF Inv
  <2>2. vp = Count(status', new.blk, "VALID")
    BY <1>4, <2>1 DEF LineCountersExact, Count, InState
  <2>3. Count(status', new.blk, "VALID") \in Nat
        /\ Count(status', new.blk, "VALID") <= pgs_per_line
    BY <1>4, CountBound
  <2> QED BY <2>2, <2>3, LineNotEmpty
<1>11. \A l \in Lines \ {new.blk} : vpc'[l] = vpc[l]
  BY <1>1, <1>4, <1>5
<1>12. /\ \A l \in full_line_list' :
            l \in full_line_list \/ (l = new.blk /\ vp = pgs_per_line)
       /\ \A l \in victim_line_pq' :
            l \in victim_line_pq \/ (l = new.blk /\ vp # pgs_per_line)
       /\ new.blk \in full_line_list' \cup victim_line_pq' =>
            \/ new.blk \in full_line_list \cup victim_line_pq
            \/ \A p \in PagesOf(new.blk) : status'[p] # "FREE"
       /\ ~RunsDry(t) => OpenPagesWritten'
  <2>1. pc # "oops" /\ AdvanceWritePointer(t, vp, full_line_list, victim_line_pq)
    BY <1>1
  <2> HIDE DEF vp
  <2> QED BY <1>1, <1>2, <1>9, <2>1, AdvanceCloses DEF new
<1> HIDE DEF vp
<1>13. ClosedLines'
  <2>1. victim' \notin full_line_list' \cup victim_line_pq'
    BY <1>1, <1>2, <1>4, <1>6, <1>12 DEF ClosedLines
  <2>2. ASSUME NEW l \in full_line_list' PROVE vpc'[l] = pgs_per_line
    <3>1. CASE l \in full_line_list
      BY <1>2, <1>6, <1>11, <3>1 DEF ClosedLines, TypeOK
    <3>2. CASE l = new.blk /\ vp = pgs_per_line
      BY <3>2 DEF vp
    <3> QED BY <1>12, <3>1, <3>2
  <2>3. ASSUME NEW l \in victim_line_pq' PROVE vpc'[l] < pgs_per_line
    <3>1. CASE l \in victim_line_pq
      BY <1>2, <1>6, <1>11, <3>1 DEF ClosedLines, TypeOK
    <3>2. CASE l = new.blk /\ vp # pgs_per_line
      BY <1>10, <3>2 DEF vp
    <3> QED BY <1>12, <3>1, <3>2
  <2>4. ASSUME NEW l \in full_line_list' \cup victim_line_pq', NEW p \in PagesOf(l)
        PROVE  status'[p] # "FREE"
    <3>1. p \in Ppa /\ p.blk = l
      BY DEF PagesOf
    <3>2. CASE l \in full_line_list \cup victim_line_pq
      BY <1>2, <1>9, <3>1, <3>2 DEF ClosedLines
    <3>3. CASE l = new.blk /\ l \notin full_line_list \cup victim_line_pq
      BY <1>12, <3>3
    <3> QED BY <1>12, <3>2, <3>3
  <2> QED BY <2>1, <2>2, <2>3, <2>4 DEF ClosedLines, PagesOf
<1>14. pc' # "oops" => VictimWritten'
  BY <1>1, <1>2, <1>7, VictimStaysWritten
<1> QED BY <1>1, <1>12, <1>13, <1>14 DEF Order

(* Order is inductive, given the invariant.                                *)
LEMMA OrderInductive == Inv /\ Order /\ [Next]_vars => Order'
<1> SUFFICES ASSUME Inv, Order, [Next]_vars PROVE Order'
  OBVIOUS
<1>1. CASE Write
  BY <1>1, WriteOrder DEF Write
<1>2. CASE ForegroundGc
  BY <1>2, AroundCollectionOrder, GcSkipOrder, GcCopyOrder DEF ForegroundGc, GcStep
<1>3. CASE UNCHANGED vars
  <2>1. UNCHANGED <<status, vpc, full_line_list, victim_line_pq, wp, pc, victim, scan>>
    BY <1>3 DEF vars, mapVars, lineVars, gcVars
  <2>2. ASSUME NEW p PROVE Visited(p) <=> Visited(p)'
    BY <2>1 DEF Visited, FlashPgOf
  <2>3. ClosedLines <=> ClosedLines'
    BY <2>1 DEF ClosedLines, PagesOf
  <2>4. OpenPagesWritten <=> OpenPagesWritten'
    BY <2>1 DEF OpenPagesWritten, PagesOf, Before
  <2>5. VictimWritten <=> VictimWritten'
    BY <2>1, <2>2 DEF VictimWritten, PagesOf
  <2> QED BY <2>1, <2>3, <2>4, <2>5 DEF Order
<1> QED BY <1>1, <1>2, <1>3 DEF Next

(* It holds of every execution of conv_write.                              *)
LEMMA OrderHolds == Spec => []Order
<1>1. Init => Order
  <2> SUFFICES ASSUME Init PROVE Order
    OBVIOUS
  <2>1. full_line_list = {} /\ victim_line_pq = {} /\ pc = "write"
    BY DEF Init
  <2>2. ASSUME NEW t \in IoTypes PROVE \E l : wp[t] = FirstPage(l)
    BY DEF Init
  <2>3. OpenPagesWritten
    BY <2>2, NothingBeforeFirstPage DEF OpenPagesWritten, PagesOf
  <2> QED BY <2>1, <2>3 DEF Order, ClosedLines, VictimWritten
<1>2. Inv /\ Order /\ [Next]_vars => Order'
  BY OrderInductive
<1> QED BY <1>1, <1>2, InvariantHolds, PTL DEF Spec

(* The assertions of mark_page_valid and clean_one_flashpg: a page is      *)
(* programmed only when it is free, in the order of the write pointer, and *)
(* the collector never meets a page that was not programmed.               *)
THEOREM ProgrammedOnceInOrder == Spec => []ProgrammedInOrder
<1>1. Inv /\ Order => ProgrammedInOrder
  BY DEF Inv, Order, ProgrammedInOrder, OpenPagesFree, OpenPagesWritten,
         FreeLinesErased, VictimWritten
<1> QED BY <1>1, InvariantHolds, OrderHolds, PTL

(* The pages of a line that was written to its end are valid or invalid.   *)
LEMMA WrittenLineCounts ==
  ASSUME TypeOK, NEW l \in Lines, \A p \in PagesOf(l) : status[p] # "FREE"
  PROVE  Count(status, l, "VALID") + Count(status, l, "INVALID") = pgs_per_line
<1>1. Count(status, l, "FREE") = 0
  <2>1. InState(status, l, "FREE") = {}
    BY DEF InState
  <2> QED BY <2>1, FS_EmptySet DEF Count
<1> QED BY <1>1, LineCounts, LineNotEmpty

(* Full lines hold valid pages only, queued ones an invalid page: what     *)
(* QueuedLinesGainSpace says of the two lists.                             *)
LEMMA ClosedGainSpace == Inv /\ Order => QueuedLinesGainSpace
<1> SUFFICES ASSUME Inv, Order PROVE QueuedLinesGainSpace
  OBVIOUS
<1>1. TypeOK /\ LineCountersExact /\ ClosedLines
  BY DEF Inv, Order
<1>2. ASSUME NEW l \in full_line_list \cup victim_line_pq
      PROVE  vpc[l] + ipc[l] = pgs_per_line /\ vpc[l] \in Int /\ ipc[l] \in Nat
  <2>1. /\ l \in Lines /\ l # victim
        /\ \A p \in PagesOf(l) : status[p] # "FREE"
    BY <1>1 DEF TypeOK, ClosedLines
  <2>2. vpc[l] = Count(status, l, "VALID") /\ ipc[l] = Count(status, l, "INVALID")
    BY <1>1, <2>1, CountersAreCounts
  <2>3. vpc[l] \in Int /\ ipc[l] \in Nat
    BY <1>1, <2>1 DEF TypeOK
  <2> QED BY <1>1, <2>1, <2>2, <2>3, WrittenLineCounts
<1>3. ASSUME NEW l \in victim_line_pq
      PROVE  ipc[l] > 0 /\ vpc[l] + ipc[l] = pgs_per_line
  BY <1>1, <1>2, LineNotEmpty DEF ClosedLines
<1>4. ASSUME NEW l \in full_line_list
      PROVE  ipc[l] = 0 /\ vpc[l] = pgs_per_line
  BY <1>1, <1>2, LineNotEmpty DEF ClosedLines
<1> QED BY <1>3, <1>4 DEF QueuedLinesGainSpace

(* Every victim select_victim_greedy or select_victim_scored may return    *)
(* has an invalid page, so that do_gc gains space and credits.             *)
THEOREM VictimsGainSpace == Spec => []QueuedLinesGainSpace
BY ClosedGainSpace, InvariantHolds, OrderHolds, PTL

-----------------------------------------------------------------------------
(***************************************************************************)
(* The FTL never runs out of lines                                         *)
(*                                                                         *)
(* The argument counts the pages that can still be written without a GC.   *)
(* A user write leaves three lines' worth of them, and a collection never  *)
(* copies more pages than the victim's valid ones, which it gets back with *)
(* the invalid ones, those the refilled credits stand for.                 *)
(***************************************************************************)

(* What the configuration guarantees with a wide margin: the threshold     *)
(* leaves a free line for each write pointer (conv_init_params takes 15%   *)
(* of the lines), and the pages of the host fill six lines less than there *)
(* are (OP_AREA_PERCENT and BLKS_PER_PLN leave it 1600 of 2048).           *)
EnoughLines ==
  /\ gc_thres_lines_high >= 3
  /\ IsFiniteSet(Lpns)
  /\ Cardinality(Lpns) <= (Cardinality(Lines) - 6) * pgs_per_line + 2

(* The pages of the line open under write pointer t still to be written.   *)
Room(t) == pgs_per_line - (vpc[wp[t].blk] + ipc[wp[t].blk])

(* The pages that can be written before a line must be collected.          *)
FreePages ==
  pgs_per_line * free_line_cnt + Room(USER_IO) + Room(GC_IO_HOT) + Room(GC_IO_COLD)

(* The pages the GC has still to copy out of its victim.                   *)
ToCopy == {p \in PagesOf(victim) : status[p] = "VALID" /\ ~Visited(p)}

(* While the host writes there is room for its credits and three lines     *)
(* more; while the GC runs, for the pages to copy and the credits to come. *)
EnoughRoom ==
  /\ pc # "oops" /\ credits_to_refill <= pgs_per_line
  /\ pc \in {"write", "credit"} => FreePages >= 3 * pgs_per_line + write_credits
  /\ pc = "credit" => write_credits = 0
  /\ pc \in {"gc", "free"} =>
       /\ write_credits = 0 /\ credits_to_refill > 0
       /\ FreePages >= 2 * pgs_per_line + credits_to_refill + Cardinality(ToCopy)

(* The victim is no open and no free line.                                 *)
LEMMA NotCollected ==
  ASSUME Inv, pc # "oops", NEW l \in Lines, l \in FreeLines \cup OpenLines
  PROVE  l # victim
<1>1. CASE pc \in {"write", "credit"}
  BY <1>1, NullAssumption DEF Inv, CollectionOrder
<1>2. CASE pc \in {"gc", "free"}
  <2>1. Collected = {victim} /\ FreeLines \cap Collected = {}
        /\ OpenLines \cap Collected = {}
    BY <1>2 DEF Inv, LinesPlaced, Partition, Collected
  <2> QED BY <2>1
<1> QED BY <1>1, <1>2 DEF Inv, TypeOK, PcType

(* An open line has room for a page, and for one only at its end.          *)
LEMMA OpenLineRoom ==
  ASSUME Inv, Order, pc # "oops", NEW t \in IoTypes
  PROVE  /\ Room(t) \in 1 .. pgs_per_line
         /\ LastOfLine(wp[t]) => Room(t) = 1
<1> DEFINE l == wp[t].blk
           F == InState(status, l, "FREE")
<1>1. TypeOK /\ LineCountersExact /\ LinesPlaced /\ OpenPagesFree /\ OpenPagesWritten
  BY DEF Inv, Order
<1>2. wp[t] \in Ppa /\ l \in Lines /\ l \in OpenLines /\ wp[t] \in F
  BY <1>1, WritePointerFree DEF InState
<1>3. l # victim
  BY <1>2, NotCollected
<1>4. vpc[l] = Count(status, l, "VALID") /\ ipc[l] = Count(status, l, "INVALID")
  BY <1>1, <1>2, <1>3, CountersAreCounts
<1>5. Room(t) = pgs_per_line - (pgs_per_line - Cardinality(F))
  BY <1>1, <1>2, <1>4, LineCounts DEF Room, Count
<1>6. IsFiniteSet(F) /\ Cardinality(F) \in Nat /\ Cardinality(F) <= pgs_per_line
  BY <1>2, CountBound DEF Count
<1>7. Room(t) = Cardinality(F)
  BY <1>5, <1>6, LineNotEmpty
<1>8. Cardinality(F) # 0
  BY <1>2, <1>6, FS_EmptySet
<1>9. ASSUME LastOfLine(wp[t]) PROVE Cardinality(F) = 1
  <2>1. ASSUME NEW p \in F PROVE p = wp[t]
    <3>1. p \in Ppa /\ p.blk = l /\ p \in PagesOf(l) /\ status[p] = "FREE"
      BY DEF InState, PagesOf
    <3>2. ~Before(p, wp[t])
      BY <1>1, <3>1 DEF OpenPagesWritten
    <3> QED BY <1>2, <1>9, <3>1, <3>2, LineEnd
  <2>2. F = {wp[t]}
    BY <1>2, <2>1
  <2> QED BY <2>2, FS_Singleton
<1> QED BY <1>6, <1>7, <1>8, <1>9, LineNotEmpty

(* A line just opened is empty.                                            *)
LEMMA FreeLineEmpty ==
  ASSUME Inv, pc # "oops", NEW l \in FreeLines
  PROVE  l \in Lines /\ vpc[l] = 0 /\ ipc[l] = 0
<1>1. TypeOK /\ LineCountersExact /\ LinesPlaced /\ FreeLinesErased
  BY DEF Inv
<1>2. l \in Lines
  BY <1>1 DEF TypeOK, FreeLines
<1>3. vpc[l] = Count(status, l, "VALID") /\ ipc[l] = Count(status, l, "INVALID")
  BY <1>1, <1>2, NotCollected, CountersAreCounts
<1>4. InState(status, l, "VALID") = {} /\ InState(status, l, "INVALID") = {}
  BY <1>1 DEF FreeLinesErased, InState
<1> QED BY <1>2, <1>3, <1>4, FS_EmptySet DEF Count

(* The counters of the free pages are numbers.                             *)
LEMMA FreePagesType ==
  ASSUME Inv, Order, pc # "oops"
  PROVE  /\ pgs_per_line \in Nat \ {0} /\ free_line_cnt \in Nat
         /\ pgs_per_line * free_line_cnt \in Nat
         /\ free_line_cnt = Len(free_line_list)
         /\ FreePages \in Nat
<1>1. free_line_cnt = Len(free_line_list) /\ free_line_cnt \in Nat
  BY DEF Inv, LinesPlaced, ListsAreSets, TypeOK
<1>2. pgs_per_line * free_line_cnt \in Nat
  BY <1>1, LineNotEmpty
<1>3. Room(USER_IO) \in Nat /\ Room(GC_IO_HOT) \in Nat /\ Room(GC_IO_COLD) \in Nat
  BY OpenLineRoom, LineNotEmpty DEF IoTypes
<1> QED BY <1>1, <1>2, <1>3, LineNotEmpty DEF FreePages

(* Writing one page through write pointer t, whatever line it makes        *)
(* advance_write_pointer open, leaves one free page less.                  *)
LEMMA PageTaken ==
  ASSUME Inv, Order, pc # "oops", NEW t \in IoTypes, NEW vp, NEW full, NEW victims,
         AdvanceWritePointer(t, vp, full, victims), ~RunsDry(t),
         \A l \in Lines : vpc'[l] + ipc'[l] =
           (vpc[l] + ipc[l]) + IF l = wp[t].blk THEN 1 ELSE 0
  PROVE  FreePages' = FreePages - 1
<1> DEFINE P == pgs_per_line
           w == wp[t]
<1>1. /\ TypeOK /\ LinesPlaced /\ ListsAreSets /\ w \in Ppa /\ w.blk \in Lines
      /\ wp \in [IoTypes -> Ppa]
      /\ \A u \in IoTypes : wp[u].blk \in Lines /\ wp[u].blk \in OpenLines
  BY DEF Inv, LinesPlaced, TypeOK, Ppa, OpenLines
<1>2. /\ P \in Nat \ {0} /\ free_line_cnt \in Nat /\ P * free_line_cnt \in Nat
      /\ \A u \in IoTypes : Room(u) \in Nat
  BY FreePagesType, OpenLineRoom
<1>3. ASSUME NEW u \in IoTypes \ {t} PROVE Room(u)' = Room(u)
  <2>1. wp'[u] = wp[u] /\ wp[u].blk # w.blk
    BY <1>1 DEF AdvanceWritePointer, ListsAreSets
  <2>2. vpc'[wp[u].blk] + ipc'[wp[u].blk] = (vpc[wp[u].blk] + ipc[wp[u].blk]) + 0
    BY <1>1, <2>1
  <2>3. vpc[wp[u].blk] \in Int /\ ipc[wp[u].blk] \in Int
    BY <1>1 DEF TypeOK
  <2> QED BY <2>1, <2>2, <2>3 DEF Room
<1>4. /\ P * free_line_cnt' \in Int /\ Room(t)' \in Int
      /\ P * free_line_cnt' + Room(t)' = (P * free_line_cnt + Room(t)) - 1
  <2>1. vpc[w.blk] \in Int /\ ipc[w.blk] \in Int
    BY <1>1 DEF TypeOK
  <2>2. CASE ~LastOfLine(w)
    <3>1. wp'[t].blk = w.blk /\ free_line_cnt' = free_line_cnt
      BY <1>1, <2>2, NextPageInLine DEF AdvanceWritePointer
    <3>2. vpc'[w.blk] + ipc'[w.blk] = (vpc[w.blk] + ipc[w.blk]) + 1
      BY <1>1
    <3>3. Room(t)' = Room(t) - 1
      BY <1>2, <2>1, <3>1, <3>2 DEF Room
    <3> QED BY <1>2, <3>1, <3>3
  <2>3. CASE LastOfLine(w)
    <3> DEFINE l == Head(free_line_list)
    <3>1. free_line_list # <<>>
      BY <2>3 DEF RunsDry
    <3>2. l \in FreeLines
      BY <1>1, <3>1, TakeFreeLine DEF TypeOK, ListsAreSets, FreeLines
    <3>3. l \in Lines /\ vpc[l] = 0 /\ ipc[l] = 0 /\ l # w.blk
      BY <1>1, <3>2, FreeLineEmpty DEF LinesPlaced, Partition
    <3> HIDE DEF l
    <3>4. wp'[t].blk = l /\ free_line_cnt' = free_line_cnt - 1
      BY <1>1, <2>3, <3>1 DEF AdvanceWritePointer, NextFreeLine, FirstPage, l
    <3>5. vpc'[l] + ipc'[l] = (vpc[l] + ipc[l]) + 0
      BY <3>3
    <3>6. Room(t)' = P /\ Room(t) = 1
      BY <1>2, <2>3, <3>3, <3>4, <3>5, OpenLineRoom DEF Room
    <3>7. P * (free_line_cnt - 1) = P * free_line_cnt - P
      BY <1>2
    <3> QED BY <1>2, <3>4, <3>6, <3>7
  <2> QED BY <2>2, <2>3
<1> DEFINE A == P * free_line_cnt
<1>5. FreePages = A + Room(USER_IO) + Room(GC_IO_HOT) + Room(GC_IO_COLD)
      /\ FreePages' = A' + Room(USER_IO)' + Room(GC_IO_HOT)' + Room(GC_IO_COLD)'
  BY DEF FreePages
<1>6. A \in Nat /\ A' \in Int /\ Room(t)' \in Int /\ A' + Room(t)' = (A + Room(t)) - 1
  BY <1>2, <1>4
<1> HIDE DEF A
<1>7. CASE t = USER_IO
  <2>1. Room(GC_IO_HOT)' = Room(GC_IO_HOT) /\ Room(GC_IO_COLD)' = Room(GC_IO_COLD)
    BY <1>3, <1>7 DEF IoTypes, USER_IO, GC_IO_HOT, GC_IO_COLD
  <2> QED BY <1>2, <1>5, <1>6, <1>7, <2>1 DEF IoTypes
<1>8. CASE t = GC_IO_HOT
  <2>1. Room(USER_IO)' = Room(USER_IO) /\ Room(GC_IO_COLD)' = Room(GC_IO_COLD)
    BY <1>3, <1>8 DEF IoTypes, USER_IO, GC_IO_HOT, GC_IO_COLD
  <2> QED BY <1>2, <1>5, <1>6, <1>8, <2>1 DEF IoTypes
<1>9. CASE t = GC_IO_COLD
  <2>1. Room(USER_IO)' = Room(USER_IO) /\ Room(GC_IO_HOT)' = Room(GC_IO_HOT)
    BY <1>3, <1>9 DEF IoTypes, USER_IO, GC_IO_HOT, GC_IO_COLD
  <2> QED BY <1>2, <1>5, <1>6, <1>9, <2>1 DEF IoTypes
<1> QED BY <1>7, <1>8, <1>9 DEF IoTypes

(* get_next_free_line comes back empty-handed only when two lines' worth   *)
(* of pages, those of the other write pointers, are all there is.          *)
LEMMA NotDry ==
  ASSUME Inv, Order, pc # "oops", NEW t \in IoTypes,
         FreePages > 2 * pgs_per_line + 1
  PROVE  ~RunsDry(t)
<1> SUFFICES ASSUME RunsDry(t) PROVE FALSE
  OBVIOUS
<1>1. pgs_per_line \in Nat \ {0} /\ free_line_cnt = 0
  BY FreePagesType DEF RunsDry
<1>2. \A u \in IoTypes : Room(u) \in 1 .. pgs_per_line
  BY OpenLineRoom
<1>3. Room(t) = 1
  BY OpenLineRoom DEF RunsDry
<1>4. pgs_per_line * free_line_cnt = 0
  BY <1>1
<1>5. FreePages = Room(USER_IO) + Room(GC_IO_HOT) + Room(GC_IO_COLD)
  BY <1>1, <1>2, <1>4 DEF FreePages, IoTypes
<1> QED BY <1>1, <1>2, <1>3, <1>5 DEF IoTypes

(* conv_write takes a page and a credit.                                   *)
LEMMA WriteRoom ==
  ASSUME Inv, Order, EnoughRoom, NEW lpn \in Lpns, WriteNew(lpn) \/ Overwrite(lpn)
  PROVE  EnoughRoom'
<1> DEFINE new == wp[USER_IO]
<1>1. /\ pc = "write" /\ TypeOK /\ USER_IO \in IoTypes
      /\ write_credits \in Nat \ {0} /\ write_credits' = write_credits - 1
      /\ credits_to_refill' = credits_to_refill
      /\ pc' = IF RunsDry(USER_IO) THEN "oops"
               ELSE IF write_credits' <= 0 THEN "credit" ELSE "write"
  BY DEF WriteNew, Overwrite, Inv, TypeOK, IoTypes
<1>2. FreePages \in Nat /\ pgs_per_line \in Nat \ {0}
      /\ FreePages >= 3 * pgs_per_line + write_credits
  BY <1>1, FreePagesType DEF EnoughRoom
<1>3. ~RunsDry(USER_IO)
  BY <1>1, <1>2, NotDry
<1>4. /\ new.blk \in Lines
      /\ \A l \in Lines : vpc[l] \in Int /\ ipc[l] \in Int
  BY <1>1, WritePointerFree DEF Inv, TypeOK
<1>5. \A l \in Lines : vpc'[l] + ipc'[l] =
        (vpc[l] + ipc[l]) + IF l = new.blk THEN 1 ELSE 0
  <2>1. CASE WriteNew(lpn)
    BY <1>1, <1>4, <2>1 DEF WriteNew, TypeOK
  <2>2. CASE Overwrite(lpn)
    <3> DEFINE old == maptbl[lpn]
               less == [vpc EXCEPT ![old.blk] = @ - 1]
    <3>1. old.blk \in Lines /\ vpc' = [less EXCEPT ![new.blk] = @ + 1]
          /\ ipc' = [ipc EXCEPT ![old.blk] = @ + 1]
      BY <1>1, <2>2 DEF Overwrite, TypeOK, Ppa
    <3> HIDE DEF old
    <3>2. ASSUME NEW l \in Lines
          PROVE  less[l] = vpc[l] - (IF l = old.blk THEN 1 ELSE 0)
                 /\ ipc'[l] = ipc[l] + (IF l = old.blk THEN 1 ELSE 0)
      BY <1>1, <1>4, <3>1 DEF TypeOK
    <3>3. ASSUME NEW l \in Lines
          PROVE  vpc'[l] = less[l] + (IF l = new.blk THEN 1 ELSE 0)
      <4>1. DOMAIN less = Lines /\ less[l] \in Int
        BY <1>1, <1>4, <3>2 DEF TypeOK
      <4> HIDE DEF less
      <4> QED BY <1>4, <3>1, <4>1
    <3> HIDE DEF less, new
    <3> QED BY <1>4, <3>2, <3>3
  <2> QED BY <2>1, <2>2
<1>6. FreePages' = FreePages - 1
  <2>1. \E vp, full, victims : AdvanceWritePointer(USER_IO, vp, full, victims)
    BY DEF WriteNew, Overwrite
  <2> QED BY <1>1, <1>3, <1>5, <2>1, PageTaken
<1>7. pc' \in {"write", "credit"} /\ (pc' = "credit" => write_credits' = 0)
  BY <1>1, <1>3
<1>8. FreePages' >= 3 * pgs_per_line + write_credits'
  BY <1>1, <1>2, <1>6
<1> QED BY <1>1, <1>7, <1>8 DEF EnoughRoom

(* The full lines hold valid pages only, each mapped to by a logical page  *)
(* of its own.                                                             *)
LEMMA FullLinesHoldData ==
  ASSUME Inv, Order, NoOrphanPage, pc = "credit", IsFiniteSet(Lpns)
  PROVE  /\ IsFiniteSet(full_line_list)
         /\ Cardinality(full_line_list) * pgs_per_line <= Cardinality(Lpns)
<1>1. /\ TypeOK /\ LineCountersExact /\ CollectionOrder /\ victim = NULL
      /\ full_line_list \subseteq Lines
  BY DEF Inv, CollectionOrder, TypeOK
<1>2. IsFiniteSet(full_line_list)
  BY <1>1, LinesAssumption, FS_Subset
<1>3. ASSUME NEW p \in Ppa, p.blk \in full_line_list
      PROVE  rmap[p] \in Lpns /\ maptbl[rmap[p]] = p
  <2>1. p.blk \in Lines \ {victim} /\ p \in PagesOf(p.blk)
    BY <1>1, <1>3, NullAssumption DEF PagesOf
  <2>2. Count(status, p.blk, "VALID") = pgs_per_line
    BY <1>1, <1>3, <2>1, CountersAreCounts DEF Order, ClosedLines
  <2>3. status[p] = "VALID"
    BY <2>1, <2>2, CountBound
  <2>4. ~Visited(p)
    BY <1>1, <2>1 DEF Visited
  <2> QED BY <2>3, <2>4 DEF NoOrphanPage
<1>4. CASE full_line_list = {}
  <2>1. Cardinality(full_line_list) = 0 /\ Cardinality(Lpns) \in Nat
    BY <1>4, FS_EmptySet, FS_CardinalityType
  <2> QED BY <1>2, <2>1, LineNotEmpty
<1>5. CASE full_line_list # {}
  <2>1. PICK m \in full_line_list : TRUE
    BY <1>5
  <2> DEFINE place(c) == [c[2] EXCEPT !.blk = c[1]]
             S == full_line_list \X PagesOf(m)
             f == [c \in S |-> rmap[place(c)]]
  <2>2. ASSUME NEW c \in S
        PROVE  /\ place(c) \in Ppa /\ place(c).blk = c[1]
               /\ f[c] \in Lpns /\ maptbl[f[c]] = place(c)
    <3>1. c[1] \in full_line_list /\ c[1] \in Lines /\ c[2] \in Ppa
      BY <1>1 DEF PagesOf
    <3>2. place(c) \in Ppa /\ place(c).blk = c[1]
      BY <3>1 DEF Ppa
    <3> QED BY <1>3, <3>1, <3>2
  <2>3. ASSUME NEW c \in S, NEW d \in S, f[c] = f[d] PROVE c = d
    <3>1. place(c) = place(d)
      BY <2>2, <2>3
    <3>2. /\ c[1] = d[1] /\ c[2] \in Ppa /\ d[2] \in Ppa
          /\ c[2].blk = m /\ d[2].blk = m
      <4>1. c[2] \in PagesOf(m) /\ d[2] \in PagesOf(m)
        BY <2>3
      <4>2. c[1] = place(c).blk /\ d[1] = place(d).blk
        BY <2>2, <2>3
      <4> HIDE DEF place
      <4> QED BY <3>1, <4>1, <4>2 DEF PagesOf
    <3>3. c[2] = [place(c) EXCEPT !.blk = m] /\ d[2] = [place(d) EXCEPT !.blk = m]
      BY <3>2 DEF Ppa
    <3>4. c[2] = d[2]
      BY <3>1, <3>3
    <3> QED BY <3>2, <3>4
  <2>4. f \in Injection(S, Lpns)
    BY <2>2, <2>3 DEF Injection, IsInjective
  <2>5. Cardinality(S) <= Cardinality(Lpns)
    BY <2>4, FS_Injection
  <2>6. Cardinality(S) = Cardinality(full_line_list) * pgs_per_line
    <3> DEFINE M == PagesOf(m)
               U == full_line_list
    <3>1. IsFiniteSet(U) /\ IsFiniteSet(M) /\ Cardinality(M) = pgs_per_line
      BY <1>1, <1>2, <2>1, LineSize
    <3> HIDE DEF M, U
    <3>2. Cardinality(U \X M) = Cardinality(U) * Cardinality(M)
      BY <3>1, FS_Product
    <3> QED BY <3>1, <3>2 DEF M, U
  <2> QED BY <1>2, <2>5, <2>6
<1> QED BY <1>4, <1>5

(* foreground_gc returns without a collection: enough lines are free.      *)
LEMMA SkipGcRoom ==
  ASSUME Inv, Order, EnoughRoom, EnoughLines, SkipGc
  PROVE  EnoughRoom'
<1> DEFINE P == pgs_per_line
<1>1. /\ pc = "credit" /\ pc' = "write" /\ free_line_cnt > gc_thres_lines_high
      /\ credits_to_refill' = credits_to_refill /\ credits_to_refill <= P
      /\ write_credits = 0 /\ write_credits' = Refilled(credits_to_refill)
      /\ credits_to_refill \in Nat
  BY FreePagesType, LinesAssumption
     DEF SkipGc, should_gc_high, EnoughRoom, Inv, TypeOK
<1>2. P \in Nat \ {0} /\ free_line_cnt \in Nat /\ free_line_cnt >= 4
  BY <1>1, FreePagesType, LinesAssumption DEF EnoughLines
<1>3. P * free_line_cnt >= P * 4
  BY <1>2
<1>4. \A u \in IoTypes : Room(u) \in Nat
  BY OpenLineRoom, <1>1
<1>5. FreePages >= 4 * P
  <2> DEFINE A == P * free_line_cnt
  <2>1. A \in Nat /\ A >= 4 * P
    BY <1>2, <1>3
  <2>2. FreePages = A + Room(USER_IO) + Room(GC_IO_HOT) + Room(GC_IO_COLD)
    BY DEF FreePages
  <2> HIDE DEF A
  <2> QED BY <1>2, <1>4, <2>1, <2>2 DEF IoTypes
<1>6. write_credits' \in Nat /\ write_credits' <= P
  BY <1>1, <1>2 DEF Refilled
<1>7. FreePages' = FreePages
  BY DEF SkipGc, lineVars, FreePages, Room
<1>8. FreePages' >= 3 * P + write_credits'
  BY <1>1, <1>2, <1>5, <1>6, <1>7, FreePagesType
<1> QED BY <1>1, <1>8 DEF EnoughRoom

(* There is no line to collect: every closed line is full of data, and the *)
(* host's pages fill only so many.                                         *)
LEMMA NoVictimRoom ==
  ASSUME Inv, Order, NoOrphanPage, EnoughRoom, EnoughLines, NoVictim
  PROVE  EnoughRoom'
<1> DEFINE P == pgs_per_line
           N == Cardinality(Lpns)
           L == Cardinality(Lines)
           U == Cardinality(full_line_list)
<1>1. /\ pc = "credit" /\ pc' = "write" /\ victim_line_pq = {}
      /\ credits_to_refill' = 0 /\ write_credits' = 1
      /\ TypeOK /\ LinesPlaced
  BY DEF NoVictim, Refilled, EnoughRoom, Inv
<1>2. /\ P \in Nat \ {0} /\ free_line_cnt \in Nat /\ P * free_line_cnt \in Nat
      /\ free_line_cnt = Len(free_line_list)
  BY <1>1, FreePagesType
<1>3. /\ IsFiniteSet(full_line_list) /\ U \in Nat /\ N \in Nat /\ L \in Nat
      /\ U * P <= N /\ N <= (L - 6) * P + 2
  BY <1>1, FullLinesHoldData, FS_CardinalityType, LinesAssumption DEF EnoughLines
<1>4. L <= free_line_cnt + U + 3
  <2>1. Lines = (FreeLines \cup full_line_list) \cup OpenLines
    BY <1>1 DEF LinesPlaced, Partition, Collected
  <2>2. Cardinality(FreeLines) = free_line_cnt /\ IsFiniteSet(FreeLines)
    <3>1. FreeLines \subseteq Lines
      BY <2>1
    <3> QED BY <1>1, <1>2, <3>1, FreeLinesCounted, LinesAssumption, FS_Subset
            DEF LinesPlaced
  <2>3. IsFiniteSet(OpenLines) /\ Cardinality(OpenLines) \in Nat
        /\ Cardinality(OpenLines) <= 3
    <3> DEFINE a == wp[USER_IO].blk
               b == wp[GC_IO_HOT].blk
               c == wp[GC_IO_COLD].blk
    <3>1. OpenLines = ({a} \cup {b}) \cup {c}
      BY DEF OpenLines, IoTypes
    <3> HIDE DEF a, b, c
    <3>2. IsFiniteSet({a}) /\ Cardinality({a}) = 1
      BY FS_Singleton
    <3>3. IsFiniteSet({a} \cup {b}) /\ Cardinality({a} \cup {b}) \in {1, 2}
      BY <3>2, FS_AddElement
    <3> DEFINE ab == {a} \cup {b}
    <3>4. IsFiniteSet(ab) /\ Cardinality(ab) \in {1, 2} /\ OpenLines = ab \cup {c}
      BY <3>1, <3>3
    <3> HIDE DEF ab
    <3>5. IsFiniteSet(OpenLines) /\ Cardinality(OpenLines) \in {1, 2, 3}
      BY <3>4, FS_AddElement
    <3> QED BY <3>5
  <2> DEFINE F == FreeLines
             G == full_line_list
             O == OpenLines
  <2>4. /\ IsFiniteSet(F) /\ IsFiniteSet(G) /\ IsFiniteSet(O)
        /\ Cardinality(F) = free_line_cnt /\ Cardinality(G) = U /\ U \in Nat
        /\ Cardinality(O) \in Nat /\ Cardinality(O) <= 3 /\ free_line_cnt \in Nat
        /\ Lines = (F \cup G) \cup O
    BY <1>2, <1>3, <2>1, <2>2, <2>3
  <2> HIDE DEF F, G, O, U
  <2>5. /\ IsFiniteSet(F \cup G) /\ Cardinality(F \cup G) \in Nat
        /\ Cardinality(F \cup G) <= free_line_cnt + U
    <3>1. IsFiniteSet(F \cup G)
          /\ Cardinality(F \cup G) = Cardinality(F) + Cardinality(G) - Cardinality(F \cap G)
      BY <2>4, FS_Union
    <3>2. Cardinality(F \cap G) \in Nat /\ Cardinality(F \cup G) \in Nat
      BY <2>4, <3>1, FS_Intersection, FS_CardinalityType
    <3> QED BY <2>4, <3>1, <3>2
  <2> DEFINE H == F \cup G
  <2>6. /\ IsFiniteSet(H) /\ Cardinality(H) \in Nat
        /\ Cardinality(H) <= free_line_cnt + U /\ Lines = H \cup O
    BY <2>4, <2>5
  <2> HIDE DEF H
  <2>7. Cardinality(H \cup O) = Cardinality(H) + Cardinality(O) - Cardinality(H \cap O)
    BY <2>4, <2>6, FS_Union
  <2>8. Cardinality(H \cap O) \in Nat
    BY <2>6, FS_Intersection, FS_CardinalityType
  <2> QED BY <2>4, <2>6, <2>7, <2>8
<1>5. P * free_line_cnt >= 3 * P - 2
  <2> HIDE DEF P, N, L, U
  <2>1. P * free_line_cnt >= P * (L - U - 3)
    <3>1. free_line_cnt >= L - U - 3
      BY <1>2, <1>3, <1>4
    <3> QED BY <1>2, <1>3, <3>1
  <2>2. P * (L - U - 3) = P * L - U * P - 3 * P
    BY <1>2, <1>3
  <2>3. (L - 6) * P = P * L - 6 * P
    BY <1>2, <1>3
  <2> DEFINE x == P * L
             y == U * P
             z == P * free_line_cnt
  <2>4. x \in Int /\ y \in Int /\ z \in Int /\ z >= (x - y) - 3 * P
        /\ y <= N /\ N <= (x - 6 * P) + 2
    BY <1>2, <1>3, <2>1, <2>2, <2>3
  <2> HIDE DEF x, y, z
  <2>5. z >= 3 * P - 2
    BY <1>2, <1>3, <2>4
  <2> QED BY <2>5 DEF z
<1>6. \A u \in IoTypes : Room(u) \in Nat \ {0}
  BY <1>1, OpenLineRoom
<1>7. FreePages >= 3 * P + 1
  <2> DEFINE A == P * free_line_cnt
  <2>1. A \in Nat /\ A >= 3 * P - 2
    BY <1>2, <1>5
  <2>2. FreePages = A + Room(USER_IO) + Room(GC_IO_HOT) + Room(GC_IO_COLD)
    BY DEF FreePages
  <2> HIDE DEF A
  <2> QED BY <1>2, <1>6, <2>1, <2>2 DEF IoTypes
<1>8. FreePages' = FreePages
  BY DEF NoVictim, lineVars, FreePages, Room
<1>9. FreePages' >= 3 * P + write_credits'
  BY <1>1, <1>7, <1>8
<1> QED BY <1>1, <1>2, <1>9 DEF EnoughRoom

(* The victim's valid pages are copied and its invalid ones refill the     *)
(* credits: together a line's worth.                                       *)
LEMMA SelectVictimRoom ==
  ASSUME Inv, Order, EnoughRoom, NEW l \in Lines, SelectVictim(l)
  PROVE  EnoughRoom'
<1>1. /\ pc = "credit" /\ pc' = "gc" /\ victim' = l /\ scan' = FirstPage(l)
      /\ l \in victim_line_pq /\ credits_to_refill' = ipc[l]
      /\ write_credits = 0 /\ write_credits' = 0 /\ status' = status
      /\ TypeOK /\ LineCountersExact /\ QueuedLinesGainSpace
  BY ClosedGainSpace DEF SelectVictim, EnoughRoom, mapVars, Inv
<1>2. vpc[l] + ipc[l] = pgs_per_line /\ ipc[l] > 0 /\ l # victim
  BY <1>1 DEF QueuedLinesGainSpace, Order, ClosedLines
<1>3. vpc[l] = Count(status, l, "VALID") /\ ipc[l] \in Nat
  BY <1>1, <1>2, CountersAreCounts DEF TypeOK
<1>4. ToCopy' = InState(status, l, "VALID")
  <2>1. ASSUME NEW p \in PagesOf(l) PROVE ~Visited(p)'
    BY <1>1, VisitedNext, NothingBeforeFirstPage DEF PagesOf
  <2> QED BY <1>1, <2>1 DEF ToCopy, InState, PagesOf
<1>5. Cardinality(ToCopy)' = vpc[l] /\ vpc[l] \in Nat
  <2>1. vpc[l] \in Nat
    <3>1. Count(status, l, "VALID") \in Nat
      BY CountBound
    <3> QED BY <1>3, <3>1
  <2>2. Cardinality(ToCopy') = vpc[l]
    BY <1>3, <1>4 DEF Count
  <2> QED BY <2>1, <2>2
<1>6. FreePages' = FreePages
  BY DEF SelectVictim, FreePages, Room
<1>7. FreePages >= 3 * pgs_per_line /\ FreePages \in Nat /\ pgs_per_line \in Nat
  BY <1>1, FreePagesType DEF EnoughRoom
<1>8. FreePages' >= 2 * pgs_per_line + credits_to_refill' + Cardinality(ToCopy)'
  BY <1>1, <1>2, <1>3, <1>5, <1>6, <1>7
<1> QED BY <1>1, <1>2, <1>3, <1>5, <1>7, <1>8 DEF EnoughRoom

(* A step of do_gc adds no page to copy, and the page it visits is no      *)
(* longer one.                                                             *)
LEMMA FewerToCopy ==
  ASSUME TypeOK, CollectionOrder, ScanMoves, pc' # "oops",
         NEW st, status' = Erased(st, scan),
         \A p \in PagesOf(victim) : st[p] = status[p]
  PROVE  /\ IsFiniteSet(ToCopy) /\ Cardinality(ToCopy) \in Nat
         /\ Cardinality(ToCopy)' \in Nat
         /\ Cardinality(ToCopy)' <= Cardinality(ToCopy)
         /\ status[scan] = "VALID" => Cardinality(ToCopy)' <= Cardinality(ToCopy) - 1
<1>1. /\ scan \in Ppa /\ scan.blk = victim /\ victim \in Lines /\ victim' = victim
      /\ \A p \in Ppa : Visited(p)' <=> Visited(p) \/ p = scan
  BY ScanAdvance DEF ScanMoves
<1>2. IsFiniteSet(ToCopy) /\ Cardinality(ToCopy) \in Nat
  <2>1. ToCopy \in SUBSET PagesOf(victim)
    BY DEF ToCopy
  <2> QED BY <1>1, <2>1, LineSize, FS_Subset, FS_CardinalityType
<1>3. ToCopy' \in SUBSET (ToCopy \ {scan})
  <2>1. ASSUME NEW p \in Ppa, p.blk = victim, status'[p] = "VALID"
        PROVE  status[p] = "VALID"
    BY <2>1 DEF Erased, PagesOf
  <2> QED BY <1>1, <2>1 DEF ToCopy, PagesOf
<1>4. /\ IsFiniteSet(ToCopy \ {scan})
      /\ Cardinality(ToCopy \ {scan}) =
           IF scan \in ToCopy THEN Cardinality(ToCopy) - 1 ELSE Cardinality(ToCopy)
  BY <1>2, FS_RemoveElement
<1>5. IsFiniteSet(ToCopy') /\ Cardinality(ToCopy') <= Cardinality(ToCopy \ {scan})
  BY <1>3, <1>4, FS_Subset
<1>6. Cardinality(ToCopy') \in Nat
  BY <1>5, FS_CardinalityType
<1>7. status[scan] = "VALID" => scan \in ToCopy
  <2>1. ~Visited(scan)
    BY <1>1, VisitedIsScanBefore, ScanNotBeforeItself DEF ScanMoves
  <2> QED BY <1>1, <2>1 DEF ToCopy, PagesOf
<1> QED BY <1>2, <1>4, <1>5, <1>6, <1>7

(* A page that is passed over costs nothing.                               *)
LEMMA GcSkipRoom ==
  ASSUME Inv, Order, EnoughRoom, GcSkipPage
  PROVE  EnoughRoom'
<1>1. /\ TypeOK /\ CollectionOrder /\ ScanMoves /\ pc = "gc" /\ pc' \in {"gc", "free"}
      /\ status' = Erased(status, scan) /\ write_credits' = write_credits
      /\ credits_to_refill' = credits_to_refill
  BY DEF GcSkipPage, ScanMoves, Inv
<1>2. Cardinality(ToCopy) \in Nat /\ Cardinality(ToCopy)' \in Nat
      /\ Cardinality(ToCopy)' <= Cardinality(ToCopy)
  BY <1>1, FewerToCopy
<1>3. FreePages' = FreePages
  BY DEF GcSkipPage, lineVars, FreePages, Room
<1>4. /\ write_credits = 0 /\ credits_to_refill > 0 /\ credits_to_refill <= pgs_per_line
      /\ FreePages >= 2 * pgs_per_line + credits_to_refill + Cardinality(ToCopy)
  BY <1>1 DEF EnoughRoom
<1>5. FreePages \in Nat /\ pgs_per_line \in Nat /\ credits_to_refill \in Nat
  BY <1>1, FreePagesType DEF TypeOK
<1>6. FreePages' >= 2 * pgs_per_line + credits_to_refill' + Cardinality(ToCopy)'
  BY <1>1, <1>2, <1>3, <1>4, <1>5
<1> QED BY <1>1, <1>4, <1>6 DEF EnoughRoom

(* A page that is copied takes a free page, and is one less to copy.       *)
LEMMA GcCopyRoom ==
  ASSUME Inv, Order, EnoughRoom, NEW t \in {GC_IO_HOT, GC_IO_COLD}, GcCopyPage(t)
  PROVE  EnoughRoom'
<1> DEFINE new == wp[t]
           st == [status EXCEPT ![new] = "VALID"]
<1>1. /\ TypeOK /\ CollectionOrder /\ LinesPlaced /\ OpenPagesFree /\ t \in IoTypes
      /\ pc = "gc" /\ status[scan] = "VALID" /\ write_credits' = write_credits
      /\ credits_to_refill' = credits_to_refill /\ scan \in Ppa /\ scan.blk = victim
      /\ victim \in Lines
  BY DEF GcCopyPage, Inv, IoTypes, CollectionOrder, TypeOK
<1>2. new \in Ppa /\ new.blk \in Lines /\ new.blk # victim
  BY <1>1, WritePointerFree, NotCollected
<1>3. /\ write_credits = 0 /\ credits_to_refill \in Nat /\ credits_to_refill > 0
      /\ credits_to_refill <= pgs_per_line
      /\ FreePages >= 2 * pgs_per_line + credits_to_refill + Cardinality(ToCopy)
      /\ FreePages \in Nat /\ pgs_per_line \in Nat
  BY <1>1, FreePagesType DEF EnoughRoom, TypeOK
<1>4. Cardinality(ToCopy) \in Nat /\ Cardinality(ToCopy) # 0
  <2>1. scan \in ToCopy
    BY <1>1, VisitedIsScanBefore, ScanNotBeforeItself DEF ToCopy, PagesOf
  <2>2. ToCopy \in SUBSET PagesOf(victim)
    BY DEF ToCopy
  <2>3. IsFiniteSet(ToCopy)
    BY <1>1, <2>2, LineSize, FS_Subset
  <2> QED BY <2>1, <2>3, FS_CardinalityType, FS_EmptySet
<1>5. ~RunsDry(t)
  <2>1. FreePages > 2 * pgs_per_line + 1
    BY <1>3, <1>4
  <2> QED BY <1>1, <2>1, NotDry
<1>6. ScanMoves /\ pc' \in {"gc", "free"} /\ status' = Erased(st, scan)
  BY <1>5 DEF GcCopyPage, ScanMoves
<1>7. \A p \in PagesOf(victim) : st[p] = status[p]
  BY <1>1, <1>2 DEF TypeOK, PagesOf
<1> HIDE DEF st
<1>8. Cardinality(ToCopy)' \in Nat /\ Cardinality(ToCopy)' <= Cardinality(ToCopy) - 1
  BY <1>1, <1>6, <1>7, FewerToCopy
<1>9. FreePages' = FreePages - 1
  <2>1. vpc' = [vpc EXCEPT ![new.blk] = @ + 1] /\ ipc' = ipc
        /\ \E vp, full, victims : AdvanceWritePointer(t, vp, full, victims)
    BY DEF GcCopyPage
  <2>2. \A l \in Lines : vpc'[l] + ipc'[l] =
          (vpc[l] + ipc[l]) + IF l = new.blk THEN 1 ELSE 0
    <3> HIDE DEF new
    <3> QED BY <1>1, <1>2, <2>1 DEF TypeOK
  <2> QED BY <1>1, <1>5, <2>1, <2>2, PageTaken
<1>10. FreePages' >= 2 * pgs_per_line + credits_to_refill' + Cardinality(ToCopy)'
  BY <1>1, <1>3, <1>4, <1>8, <1>9
<1> QED BY <1>1, <1>3, <1>6, <1>10 DEF EnoughRoom

(* mark_line_free gives the line back.                                     *)
LEMMA GcFreeLineRoom ==
  ASSUME Inv, Order, EnoughRoom, GcFreeLine
  PROVE  EnoughRoom'
<1> DEFINE P == pgs_per_line
           r == credits_to_refill
<1>1. /\ TypeOK /\ pc = "free" /\ pc' = "write" /\ free_line_cnt' = free_line_cnt + 1
      /\ wp' = wp /\ vpc' = Cleared(vpc) /\ ipc' = Cleared(ipc)
      /\ write_credits = 0 /\ write_credits' = Refilled(r) /\ r \in Nat /\ r > 0
      /\ r <= P /\ credits_to_refill' = r /\ victim \in Lines
      /\ FreePages >= 2 * P + r + Cardinality(ToCopy)
  BY DEF GcFreeLine, Inv, TypeOK, EnoughRoom
<1>2. P \in Nat /\ free_line_cnt \in Nat /\ FreePages \in Nat
  BY <1>1, FreePagesType
<1>3. Cardinality(ToCopy) \in Nat
  <2>1. ToCopy \in SUBSET PagesOf(victim)
    BY DEF ToCopy
  <2> QED BY <1>1, <2>1, LineSize, FS_Subset, FS_CardinalityType
<1>4. ASSUME NEW u \in IoTypes PROVE Room(u)' = Room(u) /\ Room(u) \in Nat
  <2>1. wp[u].blk \in Lines /\ wp[u].blk # victim
    BY <1>1, NotCollected DEF TypeOK, Ppa, OpenLines
  <2>2. vpc'[wp[u].blk] = vpc[wp[u].blk] /\ ipc'[wp[u].blk] = ipc[wp[u].blk]
    BY <1>1, <2>1 DEF Cleared, TypeOK
  <2> QED BY <1>1, <1>2, <2>2, OpenLineRoom DEF Room
<1>5. FreePages' = FreePages + P
  <2> DEFINE A == P * free_line_cnt
  <2>1. P * (free_line_cnt + 1) = P * free_line_cnt + P
    BY <1>2
  <2>2. A \in Nat /\ A' = A + P
    BY <1>1, <1>2, <2>1
  <2>3. FreePages = A + Room(USER_IO) + Room(GC_IO_HOT) + Room(GC_IO_COLD)
        /\ FreePages' = A' + Room(USER_IO)' + Room(GC_IO_HOT)' + Room(GC_IO_COLD)'
    BY DEF FreePages
  <2> HIDE DEF A
  <2> QED BY <1>2, <1>4, <2>2, <2>3 DEF IoTypes
<1>6. write_credits' = r
  BY <1>1 DEF Refilled
<1>7. FreePages' >= 3 * P + write_credits'
  BY <1>1, <1>2, <1>3, <1>5, <1>6
<1> QED BY <1>1, <1>7 DEF EnoughRoom

(* conv_init_ftl leaves all lines but three free.                          *)
LEMMA InitRoom == EnoughLines /\ Init => EnoughRoom
<1> SUFFICES ASSUME EnoughLines, Init PROVE EnoughRoom
  OBVIOUS
<1> DEFINE P == pgs_per_line
           L == Cardinality(Lines)
<1>1. P \in Nat \ {0} /\ L \in Nat
  BY LineNotEmpty, LinesAssumption, FS_CardinalityType
<1>2. /\ pc = "write" /\ credits_to_refill = P /\ write_credits = P
      /\ free_line_cnt = L - 3
  BY DEF Init
<1>3. L >= 4
  <2>1. Cardinality(Lpns) \in Nat /\ Cardinality(Lpns) <= (L - 6) * P + 2
    BY FS_CardinalityType DEF EnoughLines
  <2> HIDE DEF P, L
  <2>2. CASE L <= 3
    <3>1. (L - 6) * P <= (-3) * P
      BY <1>1, <2>2
    <3> QED BY <1>1, <2>1, <3>1
  <2> QED BY <1>1, <2>2
<1>4. P * free_line_cnt = P * L - 3 * P /\ P * L >= P * 4
  BY <1>1, <1>2, <1>3
<1>5. ASSUME NEW t \in IoTypes PROVE Room(t) = P
  <2>1. wp[t].blk \in Lines
    BY InitType, <1>2 DEF TypeOK, Ppa
  <2>2. vpc[wp[t].blk] = 0 /\ ipc[wp[t].blk] = 0
    BY <2>1 DEF Init
  <2> QED BY <1>1, <2>2 DEF Room
<1>6. FreePages >= 4 * P
  <2> DEFINE A == P * free_line_cnt
  <2>1. A \in Int /\ A >= P
    BY <1>1, <1>2, <1>4
  <2>2. FreePages = A + Room(USER_IO) + Room(GC_IO_HOT) + Room(GC_IO_COLD)
    BY DEF FreePages
  <2> HIDE DEF A
  <2> QED BY <1>1, <1>5, <2>1, <2>2 DEF IoTypes
<1> QED BY <1>1, <1>2, <1>6 DEF EnoughRoom

(* No step of conv_write or do_gc uses up the room.                        *)
LEMMA RoomInductive ==
  EnoughLines /\ Inv /\ Order /\ NoOrphanPage /\ EnoughRoom /\ [Next]_vars
    => EnoughRoom'
<1> SUFFICES ASSUME EnoughLines, Inv, Order, NoOrphanPage, EnoughRoom, [Next]_vars
             PROVE  EnoughRoom'
  OBVIOUS
<1>1. CASE Write
  BY <1>1, WriteRoom DEF Write
<1>2. CASE SkipGc
  BY <1>2, SkipGcRoom
<1>3. CASE NoVictim
  BY <1>3, NoVictimRoom
<1>4. CASE \E l \in Lines : SelectVictim(l)
  BY <1>4, SelectVictimRoom
<1>5. CASE GcStep
  BY <1>5, GcSkipRoom, GcCopyRoom, GcFreeLineRoom DEF GcStep
<1>6. CASE UNCHANGED vars
  <2>1. UNCHANGED <<status, vpc, ipc, free_line_cnt, wp, write_credits,
                    credits_to_refill, pc, victim, scan>>
    BY <1>6 DEF vars, mapVars, lineVars, gcVars
  <2>2. FreePages' = FreePages
    BY <2>1 DEF FreePages, Room
  <2>3. ToCopy' = ToCopy
    <3>1. ASSUME NEW p PROVE Visited(p)' <=> Visited(p)
      BY <2>1 DEF Visited, FlashPgOf
    <3> QED BY <2>1, <3>1 DEF ToCopy, PagesOf
  <2> QED BY <2>1, <2>2, <2>3 DEF EnoughRoom
<1> QED BY <1>1, <1>2, <1>3, <1>4, <1>5, <1>6 DEF Next, ForegroundGc

(* With the thresholds of the configuration, get_next_free_line never      *)
(* comes back empty-handed, neither for conv_write nor for gc_write_page:  *)
(* no NULL line is dereferenced.                                           *)
THEOREM LinesSuffice ==
  ASSUME EnoughLines
  PROVE  Spec => []NeverRunsDry
<1>1. Init => EnoughRoom
  BY InitRoom
<1>2. Inv /\ Order /\ NoOrphanPage /\ EnoughRoom /\ [Next]_vars => EnoughRoom'
  BY RoomInductive
<1>3. EnoughRoom => NeverRunsDry
  BY DEF EnoughRoom, NeverRunsDry
<1> QED BY <1>1, <1>2, <1>3, InvariantHolds, OrderHolds, NoPageOrphaned, PTL DEF Spec

=============================================================================
