----------------------------- MODULE Induction -----------------------------
(***************************************************************************)
(* Induction over naturals in the form of sets: a set takes the place of   *)
(* the predicate, so the lemmas have no operator as a parameter.  They     *)
(* rest on the fact that inclusion is well founded on finite sets.  Then   *)
(* division with remainder, for a divisor that is not known.               *)
(***************************************************************************)
EXTENDS Integers, FiniteSetTheorems, WellFoundedInduction, TLAPS

(* A set of naturals that is not empty has a least element.                *)
LEMMA LeastNat ==
  ASSUME NEW T, T \subseteq Nat, T # {}
  PROVE  \E x \in T : \A y \in T : x <= y
<1> DEFINE Below(x) == 0 .. x - 1
           B == {Below(x) : x \in T}
<1>1. B \subseteq FiniteSubsetsOf(Nat)
  <2> SUFFICES ASSUME NEW x \in T
               PROVE  Below(x) \subseteq Nat /\ IsFiniteSet(Below(x))
    BY DEF FiniteSubsetsOf
  <2>1. IsFiniteSet(0 .. x - 1)
    BY FS_Interval
  <2> QED BY <2>1
<1>2. PICK m \in B : \A c \in B : ~(<<c, m>> \in StrictSubsetOrdering(Nat))
  <2>1. B # {}
    OBVIOUS
  <2> HIDE DEF B
  <2> QED BY <1>1, <2>1, FS_StrictSubsetOrderingWellFounded, WFMin
<1>3. PICK x \in T : m = Below(x)
  BY <1>2
<1>4. ASSUME NEW y \in T, y < x PROVE FALSE
  <2>1. Below(y) \subseteq Below(x) /\ Below(y) # Below(x)
    <3>1. y \in Below(x) /\ y \notin Below(y)
      BY <1>4
    <3>2. \A i \in Below(y) : i \in Below(x)
      BY <1>4
    <3> QED BY <3>1, <3>2
  <2>2. Below(y) \in B /\ Below(x) \in B
    OBVIOUS
  <2>3. Below(y) \in FiniteSubsetsOf(Nat) /\ Below(x) \in FiniteSubsetsOf(Nat)
    BY <1>1, <2>2
  <2> HIDE DEF Below, B
  <2>4. <<Below(y), Below(x)>> \in StrictSubsetOrdering(Nat)
    BY <2>1, <2>3 DEF StrictSubsetOrdering, FiniteSubsetsOf
  <2> QED BY <2>4, <1>2, <1>3, <2>2
<1> QED BY <1>4

(* A bounded one has a greatest element.                                   *)
LEMMA GreatestNat ==
  ASSUME NEW n \in Nat, NEW T, T \subseteq 0 .. n, T # {}
  PROVE  \E x \in T : \A y \in T : y <= x
<1> DEFINE U == {n - y : y \in T}
<1>1. U \subseteq Nat /\ U # {}
  <2>1. \A y \in T : n - y \in Nat
    OBVIOUS
  <2> QED BY <2>1
<1>2. PICK u \in U : \A v \in U : u <= v
  <2> HIDE DEF U
  <2> QED BY <1>1, LeastNat
<1>3. PICK x \in T : u = n - x
  OBVIOUS
<1>4. \A y \in T : n - y \in U
  OBVIOUS
<1>5. ASSUME NEW y \in T PROVE y <= x
  <2>1. u <= n - y
    BY <1>2, <1>4
  <2> QED BY <2>1, <1>3
<1> QED BY <1>5

(* Induction up to n.                                                      *)
LEMMA InductionTo ==
  ASSUME NEW n \in Nat, NEW T, 0 \in T,
         \A k \in 0 .. n - 1 : k \in T => k + 1 \in T
  PROVE  0 .. n \subseteq T
<1> DEFINE U == (0 .. n) \ T
<1> SUFFICES ASSUME U # {} PROVE FALSE
  OBVIOUS
<1>1. U \subseteq Nat
  OBVIOUS
<1>2. PICK x \in U : \A y \in U : x <= y
  <2> HIDE DEF U
  <2> QED BY <1>1, LeastNat
<1>3. x \in 1 .. n
  OBVIOUS
<1>4. x - 1 \in 0 .. n - 1 /\ x - 1 \notin U
  <2>1. ~(x <= x - 1)
    BY <1>3
  <2> HIDE DEF U
  <2> QED BY <1>2, <1>3, <2>1
<1>5. x - 1 \in T
  BY <1>4
<1>6. (x - 1) + 1 = x
  BY <1>3
<1>7. x \in T
  BY <1>4, <1>5, <1>6
<1> QED BY <1>7

(* Induction over all naturals.                                            *)
LEMMA InductionNat ==
  ASSUME NEW T, 0 \in T, \A k \in Nat : k \in T => k + 1 \in T
  PROVE  Nat \subseteq T
<1> SUFFICES ASSUME NEW n \in Nat PROVE n \in T
  OBVIOUS
<1>1. 0 .. n \subseteq T
  BY InductionTo
<1> QED BY <1>1

-----------------------------------------------------------------------------
(* Division.                                                               *)

(* Quotient and remainder are what they are.                               *)
LEMMA Divided ==
  ASSUME NEW a \in Nat, NEW d \in Nat \ {0}
  PROVE  /\ a \div d \in Nat /\ a % d \in 0 .. d - 1
         /\ a = d * (a \div d) + (a % d)
<1>1. a \div d \in Nat
  OBVIOUS
<1>2. a % d \in 0 .. d - 1
  OBVIOUS
<1>3. a = d * (a \div d) + (a % d)
  OBVIOUS
<1> QED BY <1>1, <1>2, <1>3

LEMMA RemainderFits ==
  ASSUME NEW a \in Nat, NEW d \in Nat \ {0}
  PROVE  a % d <= a /\ a % d \in Nat
<1> DEFINE k == a \div d
           r == a % d
<1>1. k \in Nat /\ r \in 0 .. d - 1 /\ a = d * k + r
  BY Divided
<1> HIDE DEF k, r
<1>2. d * k >= 0 /\ d * k \in Int
  BY <1>1
<1>3. r <= a /\ r \in Nat
  BY <1>1, <1>2
<1> QED BY <1>3 DEF r

LEMMA DividedOnce ==
  ASSUME NEW d \in Nat \ {0}, NEW k \in Nat, NEW r \in 0 .. d - 1,
         NEW j \in Nat, NEW s \in 0 .. d - 1, d * k + r = d * j + s
  PROVE  k = j /\ r = s
<1>1. ASSUME NEW x \in Nat, NEW y \in Nat, NEW p \in 0 .. d - 1, NEW q \in 0 .. d - 1,
             d * x + p = d * y + q, x < y
      PROVE  FALSE
  <2> DEFINE e == y - x - 1
  <2>1. e \in Nat /\ y = x + 1 + e
    BY <1>1
  <2>2. d * e >= 0 /\ d * e \in Int /\ d * x \in Int /\ d * y \in Int
    BY <2>1
  <2>3. d * y = d * x + d + d * e
    BY <2>1
  <2> HIDE DEF e
  <2> QED BY <1>1, <2>2, <2>3
<1>2. k = j
  BY <1>1
<1>3. d * k \in Int /\ d * k = d * j
  BY <1>2
<1> QED BY <1>2, <1>3

=============================================================================
