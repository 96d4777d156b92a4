---------------------------- MODULE ZnsFtlProofs ----------------------------
(***************************************************************************)
(* For any number and size of zones, any buffers and any number of queues: *)
(* the counts of open and active zones are exact, write pointers stay in   *)
(* their zones, no counter becomes negative, and no write buffer gains     *)
(* space.                                                                  *)
(*                                                                         *)
(* The first three invariants are proved together.  ZoneInv speaks of the  *)
(* zones, and each operation changes one zone (ZoneChange); RestInv are    *)
(* the types of the buffers and of what the dispatcher remembers.  The     *)
(* space of the write buffers rests on them: a write takes as many pages   *)
(* as its wordlines will release and as wait in addition (TakenIsOwed).    *)
(***************************************************************************)
EXTENDS ZnsFtl, Induction

Resources == {"ACTIVE_ZONE", "OPEN_ZONE", "ZRWA_ZONE"}
LiveZrwa == {z \in Zones : state[z] \in Active /\ zrwav[z]}

ZoneInv ==
  /\ state \in [Zones -> States]
  /\ wp \in [Zones -> Nat]
  /\ zrwav \in [Zones -> BOOLEAN]
  /\ acquired \in [Resources -> 0 .. nr_zones]
  /\ ResourcesMatchStates
  /\ WritePointerFits

Sweeps == [action : Actions, option : BOOLEAN, zid : Zones]

RestInv ==
  /\ remaining \in [Buffers -> Nat]
  /\ pending \in [Buffers -> [Sizes -> 0 .. MaxPending]]
  /\ cmd \in [Queues -> Command \cup {NoCmd}]
  /\ sweep \in Sweeps \cup {NoSweep}
  /\ halted \in BOOLEAN

IInv == ZoneInv /\ RestInv

-----------------------------------------------------------------------------
(* Arithmetic of zones.                                                    *)

(* The zones are finite, there are nr_zones of them.                       *)
LEMMA ZonesFinite ==
  /\ nr_zones \in Nat \ {0} /\ zone_size \in Nat \ {0}
  /\ IsFiniteSet(Zones) /\ Cardinality(Zones) = nr_zones
<1>1. nr_zones \in Nat \ {0} /\ zone_size \in Nat \ {0}
  BY ZnsAssumption
<1>2. 0 \in Int /\ nr_zones - 1 \in Int /\ nr_zones - 1 - 0 + 1 = nr_zones /\ ~(0 > nr_zones - 1)
  BY <1>1
<1> QED BY <1>1, <1>2, FS_Interval DEF Zones

(* Products grow with their first factor.                                  *)
LEMMA ProductGrows ==
  ASSUME NEW a \in Nat, NEW b \in Nat, NEW s \in Nat \ {0}, a < b
  PROVE  (a + 1) * s <= b * s
<1> DEFINE d == b - a - 1
<1>1. d \in Nat /\ b = a + 1 + d
  OBVIOUS
<1>2. d * s >= 0
  BY <1>1
<1>3. b * s = (a + 1) * s + d * s
  BY <1>1
<1> QED BY <1>1, <1>2, <1>3

(* An address lies in the zone between whose ends it is.                   *)
LEMMA ZoneIs ==
  ASSUME NEW z \in Zones, NEW x \in Nat
  PROVE  ZoneOf(x) = z <=> zslba(z) <= x /\ x < EndOf(z)
<1>1. z \in Nat /\ zone_size \in Nat \ {0}
  BY ZonesFinite DEF Zones
<1> DEFINE q == x \div zone_size
<1>2. q \in Nat /\ q * zone_size <= x /\ x < (q + 1) * zone_size
  BY <1>1
<1>3. (q + 1) * zone_size = q * zone_size + zone_size
      /\ (z + 1) * zone_size = z * zone_size + zone_size
  BY <1>1, <1>2
<1>4. z * zone_size \in Nat /\ q * zone_size \in Nat
  BY <1>1, <1>2
<1> HIDE DEF q
<1>5. CASE q = z
  BY <1>2, <1>5 DEF ZoneOf, zslba, EndOf, q
<1>6. CASE q < z
  <2>1. (q + 1) * zone_size <= z * zone_size
    BY <1>1, <1>2, <1>6, ProductGrows
  <2> QED BY <1>1, <1>2, <1>3, <1>4, <1>6, <2>1 DEF ZoneOf, zslba, EndOf, q
<1>7. CASE z < q
  <2>1. (z + 1) * zone_size <= q * zone_size
    BY <1>1, <1>2, <1>7, ProductGrows
  <2> QED BY <1>1, <1>2, <1>3, <1>4, <1>7, <2>1 DEF ZoneOf, zslba, EndOf, q
<1> QED BY <1>1, <1>2, <1>5, <1>6, <1>7

(* A zone ends zone_size behind its start.                                 *)
LEMMA ZoneEnds ==
  ASSUME NEW z \in Zones
  PROVE  zslba(z) \in Nat /\ EndOf(z) \in Nat /\ EndOf(z) = zslba(z) + zone_size /\ zslba(z) < EndOf(z)
<1>1. z \in Nat /\ zone_size \in Nat \ {0}
  BY ZonesFinite DEF Zones
<1>2. z * zone_size \in Nat /\ (z + 1) * zone_size = z * zone_size + zone_size
  BY <1>1
<1> QED BY <1>1, <1>2 DEF zslba, EndOf

(* The last page of a well-formed command is in the zone of its first.     *)
LEMMA CommandInZone ==
  ASSUME NEW c \in Command, WellFormed(c), NEW z \in Zones, ZoneOf(c.slba) = z
  PROVE  zslba(z) <= c.slba /\ c.slba + c.nr <= EndOf(z)
<1>1. c.slba \in Nat /\ c.nr \in Nat /\ c.nr >= 1
  BY ZnsAssumption DEF Command
<1>2. c.slba + c.nr - 1 \in Nat /\ ZoneOf(c.slba + c.nr - 1) = z
  BY <1>1 DEF WellFormed
<1>3. c.slba + c.nr - 1 < EndOf(z) /\ zslba(z) <= c.slba
  BY <1>1, <1>2, ZoneIs
<1> QED BY <1>1, <1>3, ZoneEnds

-----------------------------------------------------------------------------
(* What a change of one zone does to the counts.                           *)

(* Two sets that differ in one element at most.                            *)
LEMMA OneElement ==
  ASSUME NEW A, NEW B, NEW x, IsFiniteSet(A), IsFiniteSet(B), A \ {x} = B \ {x}
  PROVE  Cardinality(B) = Cardinality(A) - One(x \in A) + One(x \in B)
<1>1. Cardinality(A) \in Nat /\ Cardinality(B) \in Nat
  BY FS_CardinalityType
<1>2. Cardinality(A \ {x}) = IF x \in A THEN Cardinality(A) - 1 ELSE Cardinality(A)
  BY FS_RemoveElement
<1>3. Cardinality(B \ {x}) = IF x \in B THEN Cardinality(B) - 1 ELSE Cardinality(B)
  BY FS_RemoveElement
<1> QED BY <1>1, <1>2, <1>3 DEF One

(* The zones in the states of S, and those with a live random write area,  *)
(* are finitely many.                                                      *)
LEMMA CountsBounded ==
  /\ \A S : IsFiniteSet({z \in Zones : state[z] \in S}) /\ In(S) \in 0 .. nr_zones
  /\ IsFiniteSet(LiveZrwa) /\ Cardinality(LiveZrwa) \in 0 .. nr_zones
<1>1. ASSUME NEW T \in SUBSET Zones
      PROVE  IsFiniteSet(T) /\ Cardinality(T) \in 0 .. nr_zones
  <2>1. IsFiniteSet(T) /\ Cardinality(T) <= nr_zones
    BY ZonesFinite, FS_Subset
  <2>2. Cardinality(T) \in Nat
    BY <2>1, FS_CardinalityType
  <2> QED BY <2>1, <2>2, ZonesFinite
<1>2. \A S : {z \in Zones : state[z] \in S} \in SUBSET Zones
  OBVIOUS
<1>3. LiveZrwa \in SUBSET Zones
  BY DEF LiveZrwa
<1> QED BY <1>1, <1>2, <1>3 DEF In

(* An operation that takes one zone to state v with write pointer p and    *)
(* random write area w, and moves the counts accordingly, keeps ZoneInv.   *)
LEMMA ZoneChange ==
  ASSUME ZoneInv, NEW z \in Zones,
         NEW v \in States, NEW p \in Nat, NEW w \in BOOLEAN,
         state' = [state EXCEPT ![z] = v],
         wp' = [wp EXCEPT ![z] = p],
         zrwav' = [zrwav EXCEPT ![z] = w],
         zslba(z) <= p, p <= EndOf(z),
         v \in Active => p < EndOf(z),
         v = "EMPTY" => p = zslba(z) /\ ~w,
         DOMAIN acquired' = Resources, acquired' = [r \in Resources |-> acquired'[r]],
         acquired'["OPEN_ZONE"] = acquired["OPEN_ZONE"] - One(state[z] \in Opened) + One(v \in Opened),
         acquired'["ACTIVE_ZONE"] = acquired["ACTIVE_ZONE"] - One(state[z] \in Active) + One(v \in Active),
         acquired'["ZRWA_ZONE"] \in Int, acquired'["ZRWA_ZONE"] <= nr_zones,
         acquired'["ZRWA_ZONE"] >= acquired["ZRWA_ZONE"] - One(state[z] \in Active /\ zrwav[z])
                                    + One(v \in Active /\ w)
  PROVE  ZoneInv'
<1>1. state' \in [Zones -> States] /\ wp' \in [Zones -> Nat] /\ zrwav' \in [Zones -> BOOLEAN]
  BY DEF ZoneInv
<1>2. /\ state'[z] = v /\ zrwav'[z] = w /\ wp'[z] = p
      /\ \A y \in Zones \ {z} : state'[y] = state[y] /\ zrwav'[y] = zrwav[y] /\ wp'[y] = wp[y]
  BY DEF ZoneInv
<1>3. ASSUME NEW S PROVE In(S)' = In(S) - One(state[z] \in S) + One(v \in S)
  <2> DEFINE A == {y \in Zones : state[y] \in S}
             B == {y \in Zones : state'[y] \in S}
  <2>1. IsFiniteSet(A) /\ IsFiniteSet(B)
    BY ZonesFinite, FS_Subset
  <2>2. A \ {z} = B \ {z}
    BY <1>2
  <2>3. (z \in A <=> state[z] \in S) /\ (z \in B <=> v \in S)
    BY <1>2
  <2>4. In(S) = Cardinality(A) /\ In(S)' = Cardinality(B)
    BY DEF In
  <2> HIDE DEF A, B
  <2>5. Cardinality(B) = Cardinality(A) - One(z \in A) + One(z \in B)
    BY <2>1, <2>2, OneElement
  <2> QED BY <2>3, <2>4, <2>5 DEF One
<1>4. Cardinality(LiveZrwa') = Cardinality(LiveZrwa) - One(state[z] \in Active /\ zrwav[z])
                               + One(v \in Active /\ w)
  <2>1. IsFiniteSet(LiveZrwa) /\ IsFiniteSet(LiveZrwa')
    BY ZonesFinite, FS_Subset DEF LiveZrwa
  <2>2. LiveZrwa \ {z} = LiveZrwa' \ {z}
    BY <1>2 DEF LiveZrwa
  <2>3. (z \in LiveZrwa <=> state[z] \in Active /\ zrwav[z]) /\ (z \in LiveZrwa' <=> v \in Active /\ w)
    BY <1>2 DEF LiveZrwa
  <2>4. Cardinality(LiveZrwa') = Cardinality(LiveZrwa) - One(z \in LiveZrwa) + One(z \in LiveZrwa')
    BY <2>1, <2>2, OneElement
  <2> QED BY <2>3, <2>4 DEF One
<1>5. /\ In(Opened) \in 0 .. nr_zones /\ In(Active) \in 0 .. nr_zones
      /\ Cardinality(LiveZrwa) \in 0 .. nr_zones
  BY CountsBounded
<1>6. In(Opened)' \in 0 .. nr_zones /\ In(Active)' \in 0 .. nr_zones
      /\ Cardinality(LiveZrwa') \in 0 .. nr_zones
  <2>1. ASSUME NEW T \in SUBSET Zones PROVE Cardinality(T) \in 0 .. nr_zones
    <3>1. IsFiniteSet(T) /\ Cardinality(T) <= nr_zones
      BY ZonesFinite, FS_Subset
    <3>2. Cardinality(T) \in Nat
      BY <3>1, FS_CardinalityType
    <3> QED BY <3>1, <3>2, ZonesFinite
  <2>2. \A S : {y \in Zones : state'[y] \in S} \in SUBSET Zones
    OBVIOUS
  <2>3. LiveZrwa' \in SUBSET Zones
    BY DEF LiveZrwa
  <2> QED BY <2>1, <2>2, <2>3 DEF In
<1>7. /\ acquired["OPEN_ZONE"] = In(Opened) /\ acquired["ACTIVE_ZONE"] = In(Active)
      /\ acquired["ZRWA_ZONE"] >= Cardinality(LiveZrwa) /\ acquired["ZRWA_ZONE"] \in Int
  BY DEF ZoneInv, ResourcesMatchStates, LiveZrwa, Resources
<1>8. /\ acquired'["OPEN_ZONE"] = In(Opened)' /\ acquired'["ACTIVE_ZONE"] = In(Active)'
      /\ acquired'["ZRWA_ZONE"] >= Cardinality(LiveZrwa')
  <2>1. In(Opened)' = In(Opened) - One(state[z] \in Opened) + One(v \in Opened)
    BY <1>3
  <2>2. In(Active)' = In(Active) - One(state[z] \in Active) + One(v \in Active)
    BY <1>3
  <2>3. One(state[z] \in Active /\ zrwav[z]) \in Int /\ One(v \in Active /\ w) \in Int
    BY DEF One
  <2> QED BY <1>4, <1>5, <1>6, <1>7, <2>1, <2>2, <2>3
<1>9. acquired' \in [Resources -> 0 .. nr_zones]
  <2>1. \A r \in Resources : acquired'[r] \in 0 .. nr_zones
    BY <1>6, <1>8, ZonesFinite DEF Resources
  <2> QED BY <2>1
<1>10. ResourcesMatchStates'
  BY <1>8 DEF ResourcesMatchStates, LiveZrwa, In
<1>11. WritePointerFits'
  <2> SUFFICES ASSUME NEW y \in Zones
               PROVE  /\ wp'[y] \in zslba(y) .. EndOf(y)
                      /\ state'[y] \in Active => wp'[y] < EndOf(y)
                      /\ state'[y] = "EMPTY" => wp'[y] = zslba(y) /\ ~zrwav'[y]
    BY DEF WritePointerFits
  <2>1. CASE y = z
    BY <1>2, <2>1, ZoneEnds
  <2>2. CASE y # z
    BY <1>2, <2>2 DEF ZoneInv, WritePointerFits
  <2> QED BY <2>1, <2>2
<1> QED BY <1>1, <1>9, <1>10, <1>11 DEF ZoneInv

-----------------------------------------------------------------------------
(* Zone management.                                                        *)

(* What leaves the zones alone keeps ZoneInv.                              *)
LEMMA ZonesUnchanged ==
  ASSUME ZoneInv, UNCHANGED zoneVars
  PROVE  ZoneInv'
BY DEF zoneVars, ZoneInv, ResourcesMatchStates, WritePointerFits, In

(* The values of a zone, for the lemmas about the operations.              *)
LEMMA ZoneFacts ==
  ASSUME ZoneInv, NEW z \in Zones
  PROVE  /\ state[z] \in States /\ wp[z] \in Nat /\ zrwav[z] \in BOOLEAN
         /\ zslba(z) \in Nat /\ EndOf(z) \in Nat /\ zslba(z) < EndOf(z)
         /\ zslba(z) <= wp[z] /\ wp[z] <= EndOf(z)
         /\ state[z] \in Active \cup {"EMPTY"} => wp[z] < EndOf(z)
         /\ state[z] = "EMPTY" => wp[z] = zslba(z) /\ ~zrwav[z]
         /\ \A r \in Resources : acquired[r] \in Int /\ acquired[r] <= nr_zones
         /\ nr_zones \in Nat
BY ZoneEnds, ZonesFinite DEF ZoneInv, WritePointerFits

(* The resources given up by a zone that is no longer active.              *)
LEMMA GivenUpFacts ==
  ASSUME ZoneInv, NEW z \in Zones, acquired' = GivenUp(z)
  PROVE  /\ DOMAIN acquired' = Resources /\ acquired' = [r \in Resources |-> acquired'[r]]
         /\ acquired'["OPEN_ZONE"] = acquired["OPEN_ZONE"] - One(state[z] \in Opened)
         /\ acquired'["ACTIVE_ZONE"] = acquired["ACTIVE_ZONE"] - One(state[z] \in Active)
         /\ acquired'["ZRWA_ZONE"] = acquired["ZRWA_ZONE"] - One(state[z] \in Active /\ zrwav[z])
         /\ acquired'["ZRWA_ZONE"] \in Int /\ acquired'["ZRWA_ZONE"] <= nr_zones
<1>1. DOMAIN acquired = Resources /\ \A r \in Resources : acquired[r] \in Int /\ acquired[r] <= nr_zones
  BY ZoneFacts DEF ZoneInv
<1>2. nr_zones \in Int
  BY ZonesFinite
<1>3. One(state[z] \in Active /\ zrwav[z]) \in Int /\ One(state[z] \in Active /\ zrwav[z]) >= 0
  BY DEF One
<1>4. /\ acquired'["OPEN_ZONE"] = acquired["OPEN_ZONE"] - One(state[z] \in Opened)
      /\ acquired'["ACTIVE_ZONE"] = acquired["ACTIVE_ZONE"] - One(state[z] \in Active)
      /\ acquired'["ZRWA_ZONE"] = acquired["ZRWA_ZONE"] - One(state[z] \in Active /\ zrwav[z])
  BY <1>1 DEF GivenUp, Resources
<1>5. DOMAIN acquired' = Resources /\ acquired' = [r \in Resources |-> acquired'[r]]
  BY <1>1 DEF GivenUp
<1>6. acquired["ZRWA_ZONE"] \in Int /\ acquired["ZRWA_ZONE"] <= nr_zones
  BY <1>1 DEF Resources
<1>7. acquired'["ZRWA_ZONE"] \in Int /\ acquired'["ZRWA_ZONE"] <= nr_zones
  BY <1>2, <1>3, <1>4, <1>6
<1> QED BY <1>4, <1>5, <1>7

(* A zone that gives up its resources leaves the active states.            *)
LEMMA GivenUpKeeps ==
  ASSUME ZoneInv, NEW z \in Zones, acquired' = GivenUp(z),
         NEW v \in States \ Active, NEW p \in Nat, NEW w \in BOOLEAN,
         state' = [state EXCEPT ![z] = v],
         wp' = [wp EXCEPT ![z] = p],
         zrwav' = [zrwav EXCEPT ![z] = w],
         zslba(z) <= p, p <= EndOf(z), v = "EMPTY" => p = zslba(z) /\ ~w
  PROVE  ZoneInv'
<1>1. One(v \in Opened) = 0 /\ One(v \in Active) = 0 /\ One(v \in Active /\ w) = 0
  BY DEF One, Active
<1>2. \A P \in BOOLEAN : One(P) \in Int
  BY DEF One
<1>3. acquired["OPEN_ZONE"] \in Int /\ acquired["ACTIVE_ZONE"] \in Int /\ acquired["ZRWA_ZONE"] \in Int
  BY ZoneFacts DEF Resources
<1>4. /\ acquired'["OPEN_ZONE"] = acquired["OPEN_ZONE"] - One(state[z] \in Opened) + One(v \in Opened)
      /\ acquired'["ACTIVE_ZONE"] = acquired["ACTIVE_ZONE"] - One(state[z] \in Active) + One(v \in Active)
      /\ acquired'["ZRWA_ZONE"] >= acquired["ZRWA_ZONE"] - One(state[z] \in Active /\ zrwav[z])
                                    + One(v \in Active /\ w)
  <2> DEFINE o == One(state[z] \in Opened)
             a == One(state[z] \in Active)
             r == One(state[z] \in Active /\ zrwav[z])
  <2>1. o \in Int /\ a \in Int /\ r \in Int
    BY DEF One
  <2>2. /\ acquired'["OPEN_ZONE"] = acquired["OPEN_ZONE"] - o
        /\ acquired'["ACTIVE_ZONE"] = acquired["ACTIVE_ZONE"] - a
        /\ acquired'["ZRWA_ZONE"] = acquired["ZRWA_ZONE"] - r
    BY GivenUpFacts
  <2> HIDE DEF o, a, r
  <2>3. /\ acquired'["OPEN_ZONE"] = acquired["OPEN_ZONE"] - o + 0
        /\ acquired'["ACTIVE_ZONE"] = acquired["ACTIVE_ZONE"] - a + 0
        /\ acquired'["ZRWA_ZONE"] >= acquired["ZRWA_ZONE"] - r + 0
    BY <1>3, <2>1, <2>2
  <2> QED BY <1>1, <2>3 DEF o, a, r
<1>5. v \in States /\ v \notin Active
  OBVIOUS
<1> QED BY <1>4, <1>5, GivenUpFacts, ZoneChange

(* A zone is closed.                                                       *)
LEMMA CloseKeeps ==
  ASSUME ZoneInv, NEW z \in Zones, Close(z)
  PROVE  ZoneInv' /\ remaining' = remaining
<1>1. CASE state[z] \in Opened
  <2>1. DOMAIN acquired' = Resources /\ acquired' = [r \in Resources |-> acquired'[r]]
    BY <1>1 DEF Close, ZoneInv
  <2>2. acquired'["OPEN_ZONE"] = acquired["OPEN_ZONE"] - 1
        /\ acquired'["ACTIVE_ZONE"] = acquired["ACTIVE_ZONE"]
        /\ acquired'["ZRWA_ZONE"] = acquired["ZRWA_ZONE"]
    BY <1>1 DEF Close, ZoneInv, Resources
  <2>3. wp' = [wp EXCEPT ![z] = wp[z]] /\ zrwav' = [zrwav EXCEPT ![z] = zrwav[z]]
        /\ state' = [state EXCEPT ![z] = "CLOSED"]
    BY <1>1 DEF Close, ZoneInv
  <2>4. acquired["OPEN_ZONE"] \in Int /\ acquired["ACTIVE_ZONE"] \in Int /\ acquired["ZRWA_ZONE"] \in Int
        /\ acquired["ZRWA_ZONE"] <= nr_zones
    BY ZoneFacts DEF Resources
  <2>5. /\ acquired'["OPEN_ZONE"] = acquired["OPEN_ZONE"] - One(state[z] \in Opened) + One("CLOSED" \in Opened)
        /\ acquired'["ACTIVE_ZONE"] = acquired["ACTIVE_ZONE"] - One(state[z] \in Active) + One("CLOSED" \in Active)
        /\ acquired'["ZRWA_ZONE"] >= acquired["ZRWA_ZONE"] - One(state[z] \in Active /\ zrwav[z])
                                     + One("CLOSED" \in Active /\ zrwav[z])
    BY <1>1, <2>2, <2>4 DEF Active, Opened, One
  <2>6. "CLOSED" \in States /\ "CLOSED" # "EMPTY" /\ state[z] \in Active
    BY <1>1 DEF States, Active
  <2>7. ZoneInv'
    BY <2>1, <2>2, <2>3, <2>4, <2>5, <2>6, ZoneFacts, ZoneChange
  <2> QED BY <1>1, <2>7 DEF Close
<1>2. CASE state[z] \notin Opened
  BY <1>2, ZonesUnchanged DEF Close
<1> QED BY <1>1, <1>2

(* A zone is finished.                                                     *)
LEMMA FinishKeeps ==
  ASSUME ZoneInv, NEW z \in Zones, Finish(z)
  PROVE  ZoneInv' /\ remaining' = remaining
<1>1. wp' = [wp EXCEPT ![z] = wp[z]] /\ zrwav' = [zrwav EXCEPT ![z] = zrwav[z]]
      /\ state' = [state EXCEPT ![z] = "FULL"] /\ acquired' = GivenUp(z)
  BY DEF Finish, ZoneInv
<1>2. "FULL" \in States /\ "FULL" \notin Active /\ "FULL" # "EMPTY"
  BY DEF States, Active, Opened
<1>3. ZoneInv'
  BY <1>1, <1>2, GivenUpKeeps, ZoneFacts
<1> QED BY <1>3 DEF Finish

(* A zone is reset.                                                        *)
LEMMA ResetKeeps ==
  ASSUME ZoneInv, NEW z \in Zones, Reset(z)
  PROVE  ZoneInv'
<1>1. wp' = [wp EXCEPT ![z] = zslba(z)] /\ zrwav' = [zrwav EXCEPT ![z] = FALSE]
      /\ state' = [state EXCEPT ![z] = "EMPTY"] /\ acquired' = GivenUp(z)
  BY DEF Reset
<1>2. "EMPTY" \in States /\ "EMPTY" \notin Active
  BY DEF States, Active, Opened
<1>3. zslba(z) \in Nat /\ zslba(z) <= zslba(z) /\ zslba(z) <= EndOf(z) /\ FALSE \in BOOLEAN
  BY ZoneFacts
<1> QED BY <1>1, <1>2, <1>3, GivenUpKeeps

(* A zone is opened, with or without a random write area.                  *)
LEMMA OpenKeeps ==
  ASSUME ZoneInv, NEW z \in Zones, NEW zrwa \in BOOLEAN, Open(z, zrwa)
  PROVE  ZoneInv' /\ remaining' = remaining
<1> DEFINE empty == state[z] = "EMPTY"
           opens == state[z] \notin Opened
           allowed == /\ state[z] # "FULL"
                      /\ empty => ~is_zone_resource_full("ACTIVE_ZONE")
                      /\ empty /\ zrwa => ~is_zone_resource_full("ZRWA_ZONE")
                      /\ opens => ~is_zone_resource_full("OPEN_ZONE")
<1>1. CASE allowed
  <2>1. /\ state' = [state EXCEPT ![z] = "OPENED_EXPL"]
        /\ zrwav' = [zrwav EXCEPT ![z] = zrwav[z] \/ (empty /\ zrwa)]
        /\ wp' = [wp EXCEPT ![z] = wp[z]] /\ remaining' = remaining
    BY <1>1 DEF Open, ZoneInv
  <2>2. DOMAIN acquired' = Resources /\ acquired' = [r \in Resources |-> acquired'[r]]
    BY <1>1 DEF Open, ZoneInv
  <2>3. /\ acquired'["ACTIVE_ZONE"] = acquired["ACTIVE_ZONE"] + One(empty)
        /\ acquired'["OPEN_ZONE"] = acquired["OPEN_ZONE"] + One(opens)
        /\ acquired'["ZRWA_ZONE"] = acquired["ZRWA_ZONE"] + One(empty /\ zrwa)
    BY <1>1 DEF Open, ZoneInv, Resources
  <2>4. acquired'["ZRWA_ZONE"] \in Int /\ acquired'["ZRWA_ZONE"] <= nr_zones
    BY <1>1, <2>3, ZoneFacts DEF is_zone_resource_full, One, Resources
  <2>5. acquired["ACTIVE_ZONE"] \in Int /\ acquired["OPEN_ZONE"] \in Int /\ acquired["ZRWA_ZONE"] \in Int
    BY ZoneFacts DEF Resources
  <2>6. state[z] \in Active \cup {"EMPTY"}
    BY <1>1, ZoneFacts DEF States
  <2>7. ZoneInv'
    <3>1. acquired'["OPEN_ZONE"] = acquired["OPEN_ZONE"] - One(state[z] \in Opened)
                                   + One("OPENED_EXPL" \in Opened)
      BY <2>3, <2>5 DEF One, Opened
    <3>2. acquired'["ACTIVE_ZONE"] = acquired["ACTIVE_ZONE"] - One(state[z] \in Active)
                                     + One("OPENED_EXPL" \in Active)
      BY <2>3, <2>5, <2>6 DEF One, Opened, Active
    <3>3. acquired'["ZRWA_ZONE"] >= acquired["ZRWA_ZONE"] - One(state[z] \in Active /\ zrwav[z])
            + One("OPENED_EXPL" \in Active /\ (zrwav[z] \/ (empty /\ zrwa)))
      <4>1. CASE empty
        BY <2>3, <2>5, <4>1, ZoneFacts DEF One, Opened, Active
      <4>2. CASE ~empty
        BY <2>3, <2>5, <2>6, <4>2 DEF One, Opened, Active
      <4> QED BY <4>1, <4>2
    <3>4. "OPENED_EXPL" \in States /\ "OPENED_EXPL" # "EMPTY"
      BY DEF States, Active, Opened
    <3>5. (zrwav[z] \/ (empty /\ zrwa)) \in BOOLEAN
      OBVIOUS
    <3> HIDE DEF empty, opens, allowed
    <3> QED BY <2>1, <2>2, <2>4, <2>6, <3>1, <3>2, <3>3, <3>4, <3>5, ZoneFacts, ZoneChange
  <2> QED BY <2>1, <2>7
<1>2. CASE ~allowed
  <2>1. UNCHANGED <<zoneVars, remaining>>
    BY <1>2 DEF Open
  <2> QED BY <2>1, ZonesUnchanged
<1> QED BY <1>1, <1>2

(* The random write area of a zone is flushed up to an address.            *)
LEMMA FlushKeeps ==
  ASSUME ZoneInv, NEW slba \in Nat, ZoneOf(slba) \in Zones, FlushExplicit(slba)
  PROVE  ZoneInv' /\ remaining' = remaining
<1> DEFINE z == ZoneOf(slba)
           full == slba + 1 = EndOf(z)
           allowed == /\ zrwav[z] /\ slba >= wp[z] /\ slba < wp[z] + zrwa_size
                      /\ (slba - wp[z] + 1) % zrwafg_size = 0 /\ state[z] \in Active
<1>1. CASE allowed
  <2>1. /\ wp' = [wp EXCEPT ![z] = slba + 1]
        /\ state' = [state EXCEPT ![z] = IF full THEN "FULL" ELSE state[z]]
        /\ acquired' = IF full THEN GivenUp(z) ELSE acquired
        /\ zrwav' = [zrwav EXCEPT ![z] = zrwav[z]] /\ remaining' = remaining
    BY <1>1 DEF FlushExplicit, ZoneInv
  <2>2. zslba(z) <= slba /\ slba < EndOf(z) /\ slba + 1 \in Nat
    BY ZoneIs
  <2>3. state[z] \in Active /\ z \in Zones
    BY <1>1
  <2> HIDE DEF z
  <2>4. CASE full
    <3>1. "FULL" \in States /\ "FULL" \notin Active /\ "FULL" # "EMPTY" /\ slba + 1 = EndOf(z)
      BY <2>4 DEF States, Active, Opened
    <3>2. zslba(z) <= slba + 1 /\ slba + 1 <= EndOf(z) /\ zrwav[z] \in BOOLEAN
      BY <2>2, <2>3, <3>1, ZoneFacts
    <3> QED BY <2>1, <2>2, <2>3, <2>4, <3>1, <3>2, GivenUpKeeps
  <2>5. CASE ~full
    <3>1. slba + 1 < EndOf(z)
      BY <2>2, <2>3, <2>5, ZoneFacts
    <3>2. acquired' = acquired /\ DOMAIN acquired' = Resources
          /\ acquired' = [r \in Resources |-> acquired'[r]]
      BY <2>1, <2>5 DEF ZoneInv
    <3>3. /\ acquired["OPEN_ZONE"] \in Int /\ acquired["ACTIVE_ZONE"] \in Int
          /\ acquired["ZRWA_ZONE"] \in Int /\ acquired["ZRWA_ZONE"] <= nr_zones
      BY <2>3, ZoneFacts DEF Resources
    <3>4. /\ acquired["OPEN_ZONE"] = acquired["OPEN_ZONE"] - One(state[z] \in Opened) + One(state[z] \in Opened)
          /\ acquired["ACTIVE_ZONE"] = acquired["ACTIVE_ZONE"] - One(state[z] \in Active) + One(state[z] \in Active)
          /\ acquired["ZRWA_ZONE"] >= acquired["ZRWA_ZONE"] - One(state[z] \in Active /\ zrwav[z])
                                     + One(state[z] \in Active /\ zrwav[z])
      BY <3>3 DEF One
    <3>5. state[z] \in States /\ state[z] # "EMPTY" /\ zrwav[z] \in BOOLEAN
          /\ state' = [state EXCEPT ![z] = state[z]] /\ zslba(z) <= slba + 1 /\ slba + 1 <= EndOf(z)
      BY <2>1, <2>2, <2>3, <2>5, <3>1, ZoneFacts DEF Active, Opened
    <3> QED BY <2>1, <2>2, <2>3, <3>1, <3>2, <3>3, <3>4, <3>5, ZoneChange
  <2> QED BY <2>1, <2>4, <2>5
<1>2. CASE ~allowed
  <2>1. UNCHANGED <<zoneVars, remaining>>
    BY <1>2 DEF FlushExplicit
  <2> QED BY <2>1, ZonesUnchanged
<1> QED BY <1>1, <1>2

(* Any management command for one zone.                                    *)
LEMMA SendKeeps ==
  ASSUME ZoneInv, remaining \in [Buffers -> Nat],
         NEW action, NEW slba \in Nat, ZoneOf(slba) \in Zones, NEW option \in BOOLEAN,
         Send(action, slba, option)
  PROVE  ZoneInv' /\ remaining' \in [Buffers -> Nat]
<1>1. CASE Close(ZoneOf(slba))
  BY <1>1, CloseKeeps
<1>2. CASE Finish(ZoneOf(slba))
  BY <1>2, FinishKeeps
<1>3. CASE Open(ZoneOf(slba), option)
  BY <1>3, OpenKeeps
<1>4. CASE Reset(ZoneOf(slba))
  BY <1>4, ResetKeeps, ZnsAssumption DEF Reset
<1>5. CASE FlushExplicit(slba)
  BY <1>5, FlushKeeps
<1> QED BY <1>1, <1>2, <1>3, <1>4, <1>5 DEF Send

-----------------------------------------------------------------------------
(* Writes.                                                                 *)

(* A multiple of b that is not 0 is at least b.                            *)
LEMMA PositiveMultiple ==
  ASSUME NEW a \in Nat \ {0}, NEW b \in Nat \ {0}, a % b = 0
  PROVE  a >= b
<1>1. CASE a < b
  <2>1. a % b = a
    BY <1>1
  <2> QED BY <2>1
<1> QED BY <1>1

(* The flush that makes room for a command does not go beyond its end.     *)
LEMMA FlushedFits ==
  ASSUME NEW c \in Command, NEW z \in Zones, wp[z] \in Nat,
         c.slba >= wp[z], c.slba + c.nr <= EndOf(z)
  PROVE  Flushed(c, z) \in Nat /\ wp[z] + Flushed(c, z) <= EndOf(z)
<1> DEFINE elba == c.slba + c.nr - 1
           start == wp[z] + zrwa_size
           t == elba - start + zrwafg_size
           k == t \div zrwafg_size
<1>1. c.slba \in Nat /\ c.nr \in Nat /\ c.nr >= 1
  BY ZnsAssumption DEF Command
<1>2. zrwa_size \in Nat \ {0} /\ zrwafg_size \in Nat \ {0} /\ zrwafg_size <= zrwa_size
  BY ZnsAssumption, PositiveMultiple
<1>3. elba \in Nat /\ elba >= wp[z] /\ elba + 1 <= EndOf(z) /\ start \in Nat /\ EndOf(z) \in Nat
  BY <1>1, <1>2, ZoneEnds
<1>4. CASE elba >= start
  <2>1. t \in Nat
    BY <1>2, <1>3, <1>4
  <2> HIDE DEF t
  <2>2. k \in Nat /\ k * zrwafg_size <= t /\ k * zrwafg_size \in Nat
    BY <1>2, <2>1
  <2>3. Flushed(c, z) = k * zrwafg_size
    BY <1>4 DEF Flushed, t
  <2> HIDE DEF k
  <2>4. wp[z] + t <= EndOf(z)
    BY <1>2, <1>3 DEF t
  <2> QED BY <1>3, <2>1, <2>2, <2>3, <2>4
<1>5. CASE ~(elba >= start) /\ elba = EndOf(z) - 1
  <2>1. Flushed(c, z) = elba - wp[z] + 1
    BY <1>5 DEF Flushed
  <2> QED BY <1>3, <1>5, <2>1
<1>6. CASE ~(elba >= start) /\ elba # EndOf(z) - 1
  <2>1. Flushed(c, z) = 0
    BY <1>6 DEF Flushed
  <2> QED BY <1>3, <2>1
<1> QED BY <1>4, <1>5, <1>6

(* A zone takes n pages, opening if it was not open.                       *)
LEMMA MovedKeeps ==
  ASSUME ZoneInv, NEW z \in Zones, NEW n \in Nat, wp[z] + n <= EndOf(z),
         NEW wasEmpty \in BOOLEAN, NEW opens \in BOOLEAN,
         wasEmpty <=> state[z] = "EMPTY", opens <=> state[z] \notin Opened,
         state[z] \in Active \cup {"EMPTY"},
         Moved(z, n, wasEmpty, opens), zrwav' = zrwav
  PROVE  ZoneInv'
<1> DEFINE full == wp[z] + n = EndOf(z)
           v == IF full THEN "FULL" ELSE IF opens THEN "OPENED_IMPL" ELSE state[z]
           w == zrwav[z]
<1>1. /\ state' = [state EXCEPT ![z] = v] /\ wp' = [wp EXCEPT ![z] = wp[z] + n]
      /\ zrwav' = [zrwav EXCEPT ![z] = w]
  BY DEF Moved, ZoneInv
<1>2. /\ DOMAIN acquired' = Resources /\ acquired' = [r \in Resources |-> acquired'[r]]
      /\ acquired'["OPEN_ZONE"] = acquired["OPEN_ZONE"] + One(opens) - One(full)
      /\ acquired'["ACTIVE_ZONE"] = acquired["ACTIVE_ZONE"] + One(wasEmpty) - One(full)
      /\ acquired'["ZRWA_ZONE"] = acquired["ZRWA_ZONE"]
  BY DEF Moved, ZoneInv, Resources
<1>3. /\ acquired["OPEN_ZONE"] \in Int /\ acquired["ACTIVE_ZONE"] \in Int
      /\ acquired["ZRWA_ZONE"] \in Int /\ acquired["ZRWA_ZONE"] <= nr_zones
  BY ZoneFacts DEF Resources
<1>4. /\ v \in States /\ v # "EMPTY" /\ (v \in Active <=> ~full) /\ (v \in Opened <=> ~full)
      /\ w \in BOOLEAN /\ (state[z] = "EMPTY" => ~w) /\ state[z] \in States
  BY ZoneFacts DEF States, Active, Opened
<1>5. wp[z] + n \in Nat /\ zslba(z) <= wp[z] + n /\ (v \in Active => wp[z] + n < EndOf(z))
  BY <1>4, ZoneFacts
<1>6. acquired'["OPEN_ZONE"] = acquired["OPEN_ZONE"] - One(state[z] \in Opened) + One(v \in Opened)
  <2> HIDE DEF full, v
  <2> QED BY <1>2, <1>3, <1>4 DEF One
<1>7. acquired'["ACTIVE_ZONE"] = acquired["ACTIVE_ZONE"] - One(state[z] \in Active) + One(v \in Active)
  <2>1. state[z] \in Active <=> ~wasEmpty
    BY DEF Active, Opened
  <2> HIDE DEF full, v
  <2> QED BY <1>2, <1>3, <1>4, <2>1 DEF One
<1>8. acquired'["ZRWA_ZONE"] >= acquired["ZRWA_ZONE"] - One(state[z] \in Active /\ zrwav[z])
                                + One(v \in Active /\ w)
  <2>1. zrwav[z] => state[z] \in Active
    BY <1>4
  <2> HIDE DEF full, v
  <2> QED BY <1>2, <1>3, <2>1 DEF One
<1> HIDE DEF full, v, w
<1> QED BY <1>1, <1>2, <1>3, <1>4, <1>5, <1>6, <1>7, <1>8, ZoneChange

(* The wordlines that a write completes are so many.                       *)
LEMMA ProgrammedType ==
  ASSUME NEW z, NEW from \in Nat, NEW n \in Nat
  PROVE  Programmed(z, from, n) \in [Sizes -> Nat]
<1> DEFINE T == {p \in from .. from + n - 1 : (p - zslba(z) + 1) % pgs_per_oneshotpg = 0}
<1>1. IsFiniteSet(from .. from + n - 1)
  BY FS_Interval
<1>2. T \in SUBSET (from .. from + n - 1)
  OBVIOUS
<1>3. IsFiniteSet(T)
  BY <1>1, <1>2, FS_Subset
<1>4. Cardinality(T) \in Nat
  BY <1>3, FS_CardinalityType
<1> QED BY <1>4 DEF Programmed, One

(* More releases to wait for, within the bound.                            *)
LEMMA ScheduleType ==
  ASSUME pending \in [Buffers -> [Sizes -> 0 .. MaxPending]], NEW b \in Buffers,
         NEW p \in [Sizes -> Nat], Schedule(b, p),
         \A y \in Buffers, s \in Sizes : pending'[y][s] <= MaxPending
  PROVE  pending' \in [Buffers -> [Sizes -> 0 .. MaxPending]]
<1>1. MaxPending \in Nat
  BY ZnsAssumption
<1>2. \A s \in Sizes : pending[b][s] + p[s] \in Nat
  BY <1>1
<1>3. pending' = [pending EXCEPT ![b] = [s \in Sizes |-> pending[b][s] + p[s]]]
  BY DEF Schedule
<1>4. pending'[b] = [s \in Sizes |-> pending[b][s] + p[s]]
  BY <1>3
<1>5. \A s \in Sizes : pending'[b][s] \in 0 .. MaxPending
  BY <1>1, <1>2, <1>4
<1>6. pending'[b] \in [Sizes -> 0 .. MaxPending]
  BY <1>4, <1>5
<1>7. \A y \in Buffers \ {b} : pending'[y] = pending[y]
  BY <1>3
<1> QED BY <1>3, <1>6, <1>7

(* The buffers of a zone.                                                  *)
LEMMA BuffersOfZone ==
  ASSUME NEW z \in Zones
  PROVE  WriteBufferOf(z) \in Buffers /\ ZrwaBuffer(z) \in Buffers
BY DEF Buffers

(* A write at the write pointer: done, refused, or put off.                *)
LEMMA SequentialKeeps ==
  ASSUME ZoneInv, RestInv, NEW q \in Queues, NEW c \in Command, NEW z \in Zones, ~zrwav[z],
         WriteSequential(q, c, z), UNCHANGED <<sweep, halted>>,
         \A b \in Buffers, s \in Sizes : pending'[b][s] <= MaxPending
  PROVE  ZoneInv' /\ RestInv'
<1> DEFINE b == WriteBufferOf(z)
<1>1. c.nr \in Nat /\ c.slba \in Nat /\ b \in Buffers /\ remaining[b] \in Nat
  BY ZnsAssumption, BuffersOfZone DEF Command, RestInv
<1>2. CASE remaining[b] < c.nr
  <2>1. cmd' = [cmd EXCEPT ![q] = c] /\ UNCHANGED <<zoneVars, bufVars>>
    BY <1>2 DEF WriteSequential
  <2>2. ZoneInv'
    BY <2>1, ZonesUnchanged
  <2>3. RestInv'
    BY <2>1 DEF RestInv, bufVars
  <2> QED BY <2>2, <2>3
<1>3. CASE ~(remaining[b] < c.nr)
  <2>1. /\ cmd' = [cmd EXCEPT ![q] = NoCmd] /\ zrwav' = zrwav
        /\ remaining' = [remaining EXCEPT ![b] = remaining[b] - c.nr]
    BY <1>3 DEF WriteSequential
  <2>2. remaining[b] - c.nr \in Nat
    BY <1>1, <1>3
  <2>3. remaining' \in [Buffers -> Nat] /\ cmd' \in [Queues -> Command \cup {NoCmd}]
    BY <2>1, <2>2 DEF RestInv
  <2>4. CASE Writable(c, z)
    <3>1. Moved(z, c.nr, state[z] = "EMPTY", state[z] \notin Opened)
          /\ Schedule(b, Programmed(z, wp[z], c.nr))
      BY <1>3, <2>4 DEF WriteSequential
    <3>2. c.slba = wp[z] /\ WellFormed(c) /\ state[z] \in Active \cup {"EMPTY"}
      BY <2>4 DEF Writable
    <3>3. zslba(z) <= c.slba /\ c.slba < EndOf(z)
      BY <3>2, ZoneFacts
    <3>4. ZoneOf(c.slba) = z
      BY <1>1, <3>3, ZoneIs
    <3>5. wp[z] + c.nr <= EndOf(z)
      BY <3>2, <3>4, CommandInZone
    <3>6. ZoneInv'
      BY <1>1, <2>1, <3>1, <3>2, <3>5, MovedKeeps
    <3>7. Programmed(z, wp[z], c.nr) \in [Sizes -> Nat]
      BY <1>1, ZoneFacts, ProgrammedType
    <3>8. pending' \in [Buffers -> [Sizes -> 0 .. MaxPending]]
      BY <1>1, <3>1, <3>7, ScheduleType DEF RestInv
    <3> QED BY <2>3, <3>6, <3>8 DEF RestInv
  <2>5. CASE ~Writable(c, z)
    <3>1. UNCHANGED <<state, wp, acquired, pending>>
      BY <1>3, <2>5 DEF WriteSequential
    <3>2. ZoneInv'
      BY <2>1, <3>1, ZonesUnchanged DEF zoneVars
    <3> QED BY <2>3, <3>1, <3>2 DEF RestInv
  <2> QED BY <2>4, <2>5
<1> QED BY <1>2, <1>3

(* A write to a random write area: refused, done, put off with the zone    *)
(* open, or the end of the machine.                                        *)
LEMMA ZrwaKeeps ==
  ASSUME ZoneInv, RestInv, NEW q \in Queues, NEW c \in Command, NEW z \in Zones, zrwav[z],
         ZoneOf(c.slba) = z, WriteZrwa(q, c, z), UNCHANGED sweep,
         \A b \in Buffers, s \in Sizes : pending'[b][s] <= MaxPending
  PROVE  ZoneInv' /\ RestInv'
<1> DEFINE b == ZrwaBuffer(z)
           n == Flushed(c, z)
           opens == state[z] \notin Opened
           rest == remaining[b] - (IF opens THEN zrwa_size ELSE 0)
<1>1. b \in Buffers /\ remaining[b] \in Nat /\ zrwa_size \in Nat
  BY ZnsAssumption, BuffersOfZone DEF RestInv
<1>2. CASE ~WritableZrwa(c, z)
  <2>1. cmd' = [cmd EXCEPT ![q] = NoCmd] /\ UNCHANGED <<zoneVars, bufVars, halted>>
    BY <1>2 DEF WriteZrwa
  <2>2. ZoneInv'
    BY <2>1, ZonesUnchanged
  <2>3. RestInv'
    BY <2>1 DEF RestInv, bufVars
  <2> QED BY <2>2, <2>3
<1>3. CASE WritableZrwa(c, z) /\ rest < 0
  <2>0. ~(rest >= 0)
    BY <1>1, <1>3
  <2>1. halted' = TRUE /\ UNCHANGED <<zoneVars, bufVars, cmd>>
    BY <1>3, <2>0 DEF WriteZrwa
  <2>2. ZoneInv'
    BY <2>1, ZonesUnchanged
  <2>3. RestInv'
    BY <2>1 DEF RestInv, bufVars
  <2> QED BY <2>2, <2>3
<1>4. CASE WritableZrwa(c, z) /\ ~(rest < 0)
  <2>1. rest \in Nat
    BY <1>1, <1>4
  <2>2. state[z] \in Active
    BY <1>4, ZoneFacts DEF WritableZrwa
  <2>3. n \in Nat /\ wp[z] + n <= EndOf(z)
    <3>1. WellFormed(c) /\ c.slba >= wp[z]
      BY <1>4 DEF WritableZrwa
    <3>2. c.slba + c.nr <= EndOf(z)
      BY <3>1, CommandInZone
    <3>3. wp[z] \in Nat
      BY ZoneFacts
    <3> QED BY <3>1, <3>2, <3>3, FlushedFits
  <2>4. zrwav' = zrwav /\ halted' = halted
    BY <1>1, <1>4 DEF WriteZrwa
  <2>5. (FALSE <=> state[z] = "EMPTY") /\ opens \in BOOLEAN /\ FALSE \in BOOLEAN
    BY <2>2 DEF Active, Opened
  <2>6. CASE n <= rest
    <3>1. /\ remaining' = [remaining EXCEPT ![b] = rest - n]
          /\ Moved(z, n, FALSE, opens)
          /\ Schedule(b, [s \in Sizes |-> IF s = pgs_per_oneshotpg
                                          THEN Programmed(z, wp[z], n)[s] ELSE 0])
          /\ cmd' = [cmd EXCEPT ![q] = NoCmd]
      BY <1>1, <1>4, <2>6 DEF WriteZrwa
    <3>2. rest - n \in Nat
      BY <2>1, <2>3, <2>6
    <3>3. Programmed(z, wp[z], n) \in [Sizes -> Nat]
      BY <2>3, ZoneFacts, ProgrammedType
    <3>4. [s \in Sizes |-> IF s = pgs_per_oneshotpg THEN Programmed(z, wp[z], n)[s] ELSE 0]
            \in [Sizes -> Nat]
      BY <3>3
    <3>5. pending' \in [Buffers -> [Sizes -> 0 .. MaxPending]]
      BY <1>1, <3>1, <3>4, ScheduleType DEF RestInv
    <3> HIDE DEF opens, n, rest
    <3>6. ZoneInv'
      BY <2>2, <2>3, <2>4, <2>5, <3>1, MovedKeeps DEF opens
    <3>7. remaining' \in [Buffers -> Nat]
      BY <3>1, <3>2 DEF RestInv
    <3> QED BY <2>4, <3>1, <3>5, <3>6, <3>7 DEF RestInv
  <2>7. CASE ~(n <= rest)
    <3>1. /\ remaining' = [remaining EXCEPT ![b] = rest]
          /\ Moved(z, 0, FALSE, opens)
          /\ cmd' = [cmd EXCEPT ![q] = c] /\ pending' = pending
      BY <1>1, <1>4, <2>7 DEF WriteZrwa
    <3>2. wp[z] + 0 <= EndOf(z) /\ 0 \in Nat
      BY ZoneFacts
    <3> HIDE DEF opens, n, rest
    <3>3. ZoneInv'
      BY <2>2, <2>4, <2>5, <3>1, <3>2, MovedKeeps DEF opens
    <3>4. remaining' \in [Buffers -> Nat]
      BY <2>1, <3>1 DEF RestInv
    <3> QED BY <2>4, <3>1, <3>3, <3>4 DEF RestInv
  <2> QED BY <2>6, <2>7
<1> QED BY <1>2, <1>3, <1>4

(* Any write, at its first or a later try.                                 *)
LEMMA WriteKeeps ==
  ASSUME IInv, NEW q \in Queues, NEW c \in Command, zns_write(q, c), UNCHANGED sweep
  PROVE  IInv'
<1> DEFINE z == ZoneOf(c.slba)
           a == IF c.op = "append" THEN [c EXCEPT !.slba = wp[z]] ELSE c
<1>1. z \in Zones /\ \A b \in Buffers, s \in Sizes : pending'[b][s] <= MaxPending
  BY DEF zns_write
<1>2. CASE zrwav[z]
  <2>1. WriteZrwa(q, c, z)
    BY <1>2 DEF zns_write
  <2> QED BY <1>1, <1>2, <2>1, ZrwaKeeps DEF IInv
<1>3. CASE ~zrwav[z]
  <2>1. WriteSequential(q, a, z) /\ UNCHANGED halted
    BY <1>3 DEF zns_write
  <2>2. wp[z] \in Nat
    BY <1>1, ZoneFacts DEF IInv
  <2>3. a \in Command
    BY <2>2 DEF Command
  <2> HIDE DEF a, z
  <2> QED BY <1>1, <1>3, <2>1, <2>3, SequentialKeeps DEF IInv
<1> QED BY <1>2, <1>3

-----------------------------------------------------------------------------
(* The space of the write buffers.                                         *)

W == pgs_per_oneshotpg

(* The next number: the quotient grows when there is no remainder.         *)
LEMMA DivideNext ==
  ASSUME NEW a \in Nat, NEW d \in Nat \ {0}
  PROVE  (a + 1) \div d = a \div d + One((a + 1) % d = 0)
<1> DEFINE k == a \div d
           r == a % d
           j == (a + 1) \div d
           s == (a + 1) % d
<1>1. k \in Nat /\ r \in 0 .. d - 1 /\ a = d * k + r
  BY Divided
<1>2. j \in Nat /\ s \in 0 .. d - 1 /\ a + 1 = d * j + s
  <2>1. a + 1 \in Nat
    OBVIOUS
  <2> QED BY <2>1, Divided
<1> HIDE DEF k, r, j, s
<1>3. CASE r + 1 = d
  <2>1. d * (k + 1) = d * k + d /\ d * k \in Int /\ d * (k + 1) \in Int /\ d * j \in Int
    BY <1>1, <1>2
  <2>2. d * (k + 1) + 0 = d * j + s
    BY <1>1, <1>2, <1>3, <2>1
  <2>3. k + 1 = j /\ 0 = s
    <3>1. k + 1 \in Nat /\ 0 \in 0 .. d - 1
      BY <1>1
    <3> QED BY <1>2, <2>2, <3>1, DividedOnce
  <2> QED BY <1>1, <2>3 DEF One, k, j, s
<1>4. CASE r + 1 < d
  <2>1. d * k \in Int /\ d * j \in Int /\ r + 1 \in 0 .. d - 1
    BY <1>1, <1>2, <1>4
  <2>2. d * k + (r + 1) = d * j + s
    BY <1>1, <1>2, <2>1
  <2>3. k = j /\ r + 1 = s
    BY <1>1, <1>2, <2>1, <2>2, DividedOnce
  <2>4. s # 0
    BY <1>1, <2>3
  <2> QED BY <1>1, <2>3, <2>4 DEF One, k, j, s
<1> QED BY <1>1, <1>3, <1>4

(* The wordlines that n pages behind o pages of a zone complete.           *)
LEMMA WordlinesCounted ==
  ASSUME NEW z \in Zones, NEW o \in Nat, NEW n \in Nat
  PROVE  Cardinality({p \in zslba(z) + o .. zslba(z) + o + n - 1 : (p - zslba(z) + 1) % W = 0})
           = (o + n) \div W - o \div W
<1> DEFINE base == zslba(z)
           Set(k) == {p \in base + o .. base + o + k - 1 : (p - base + 1) % W = 0}
           T == {k \in Nat : /\ IsFiniteSet(Set(k))
                             /\ Cardinality(Set(k)) = (o + k) \div W - o \div W}
<1>1. base \in Nat /\ W \in Nat \ {0}
  BY ZoneEnds, ZnsAssumption DEF W
<1> HIDE DEF base
<1>2. 0 \in T
  <2>1. Set(0) = {}
    BY <1>1
  <2>2. o \div W \in Nat /\ o + 0 = o
    BY <1>1, Divided
  <2>3. (o + 0) \div W - o \div W = 0
    BY <2>2
  <2> QED BY <2>1, <2>3, FS_EmptySet
<1>3. ASSUME NEW k \in Nat, k \in T PROVE k + 1 \in T
  <2> DEFINE x == base + o + k
             C == Cardinality(Set(k))
  <2>1. x \in Nat /\ x - base + 1 = o + k + 1 /\ o + k \in Nat
    BY <1>1
  <2>2. IsFiniteSet(Set(k)) /\ C = (o + k) \div W - o \div W
    BY <1>3
  <2>3. x \notin Set(k)
    BY <1>1
  <2>4. (o + k + 1) \div W = (o + k) \div W + One((o + k + 1) % W = 0)
    BY <1>1, <2>1, DivideNext
  <2>5. base + o .. base + o + (k + 1) - 1 = (base + o .. base + o + k - 1) \cup {x}
    BY <1>1
  <2>6. o + (k + 1) = o + k + 1
    OBVIOUS
  <2>7. (o + k) \div W \in Nat /\ o \div W \in Nat
    BY <1>1, <2>1, Divided
  <2>8. Set(k + 1) = IF (o + k + 1) % W = 0 THEN Set(k) \cup {x} ELSE Set(k)
    <3>1. ASSUME NEW p PROVE p \in Set(k + 1) <=> p \in Set(k) \/ (p = x /\ (o + k + 1) % W = 0)
      BY <2>1, <2>5
    <3> HIDE DEF Set, x
    <3>2. CASE (o + k + 1) % W = 0
      BY <3>1, <3>2
    <3>3. CASE (o + k + 1) % W # 0
      BY <3>1, <3>3
    <3> QED BY <3>2, <3>3
  <2> HIDE DEF Set, x
  <2>9. CASE (o + k + 1) % W = 0
    <3>1. IsFiniteSet(Set(k + 1)) /\ Cardinality(Set(k + 1)) = C + 1
      BY <2>2, <2>3, <2>8, <2>9, FS_AddElement
    <3>2. (o + k + 1) \div W = (o + k) \div W + 1
      BY <2>4, <2>9 DEF One
    <3> HIDE DEF C
    <3>3. C + 1 = (o + (k + 1)) \div W - o \div W
      BY <2>2, <2>6, <2>7, <3>2
    <3> QED BY <3>1, <3>3
  <2>10. CASE (o + k + 1) % W # 0
    <3>1. (o + k + 1) \div W = (o + k) \div W
      BY <2>4, <2>7, <2>10 DEF One
    <3> QED BY <2>2, <2>6, <2>8, <2>10, <3>1
  <2> QED BY <2>9, <2>10
<1> HIDE DEF T
<1>4. n \in T
  BY <1>2, <1>3, InductionNat
<1> QED BY <1>4 DEF T, base

(* Pages of a zone that wait for the rest of their wordline.               *)
Waits(w, r, y) == ~r[y] /\ w[y] < EndOf(y)
Filling(w, r, y) == IF Waits(w, r, y) THEN (w[y] - zslba(y)) % W ELSE 0
Tail(w, y) == {y} \X (w[y] - ((w[y] - zslba(y)) % W) .. w[y] - 1)
Waiting(w, r, b) == UNION {Tail(w, y) : y \in {x \in Zones : WriteBufferOf(x) = b /\ Waits(w, r, x)}}
Placed(w, r) == /\ w \in [Zones -> Nat] /\ r \in [Zones -> BOOLEAN]
                /\ \A y \in Zones : zslba(y) <= w[y] /\ w[y] <= EndOf(y)

LEMMA FillingIsNat ==
  ASSUME NEW w, NEW r, Placed(w, r), NEW z \in Zones
  PROVE  Filling(w, r, z) \in Nat
<1>1. w[z] - zslba(z) \in Nat /\ W \in Nat \ {0}
  BY ZoneEnds, ZnsAssumption DEF Placed, W
<1>2. (w[z] - zslba(z)) % W \in Nat
  BY <1>1, Divided
<1> QED BY <1>2 DEF Filling

LEMMA TailCounted ==
  ASSUME NEW w, NEW r, Placed(w, r), NEW y \in Zones
  PROVE  IsFiniteSet(Tail(w, y)) /\ Cardinality(Tail(w, y)) = (w[y] - zslba(y)) % W
<1> DEFINE o == (w[y] - zslba(y)) % W
           p == w[y]
<1>1. W \in Nat \ {0} /\ p \in Nat /\ p - zslba(y) \in Nat
  BY ZoneEnds, ZnsAssumption DEF Placed, W
<1>2. o \in Nat /\ Tail(w, y) = {y} \X (p - o .. p - 1)
  BY <1>1, Divided DEF Tail
<1> HIDE DEF o, p
<1>3. IsFiniteSet(p - o .. p - 1) /\ Cardinality(p - o .. p - 1) = o
  <2>1. p - o \in Int /\ p - 1 \in Int
    BY <1>1, <1>2
  <2>2. Cardinality(p - o .. p - 1) = IF p - o > p - 1 THEN 0 ELSE (p - 1) - (p - o) + 1
    BY <2>1, FS_Interval
  <2>3. (IF p - o > p - 1 THEN 0 ELSE (p - 1) - (p - o) + 1) = o
    BY <1>1, <1>2
  <2> QED BY <2>1, <2>2, <2>3, FS_Interval
<1>4. IsFiniteSet({y}) /\ Cardinality({y}) = 1
  BY FS_Singleton
<1>5. 1 * o = o
  BY <1>2
<1> DEFINE I == p - o .. p - 1
<1>6. IsFiniteSet({y} \X I) /\ Cardinality({y} \X I) = Cardinality({y}) * Cardinality(I)
  <2>1. IsFiniteSet(I)
    BY <1>3
  <2> HIDE DEF I
  <2> QED BY <1>4, <2>1, FS_Product
<1>7. Cardinality({y}) * Cardinality(I) = 1 * o
  BY <1>3, <1>4
<1> HIDE DEF I
<1>8. Cardinality(Tail(w, y)) = o /\ IsFiniteSet(Tail(w, y))
  BY <1>2, <1>5, <1>6, <1>7 DEF I
<1> QED BY <1>8 DEF o

(* One zone changes: so much does the number of waiting pages.             *)
LEMMA WaitingChange ==
  ASSUME NEW w, NEW r, Placed(w, r), NEW v, NEW s, Placed(v, s), NEW z \in Zones,
         \A y \in Zones \ {z} : v[y] = w[y] /\ (s[y] <=> r[y]), NEW b
  PROVE  /\ Cardinality(Waiting(w, r, b)) \in Nat
         /\ Cardinality(Waiting(v, s, b)) = Cardinality(Waiting(w, r, b))
              + (IF WriteBufferOf(z) = b THEN Filling(v, s, z) - Filling(w, r, z) ELSE 0)
<1> DEFINE Others(x, t) == UNION {Tail(x, y) :
             y \in {a \in Zones \ {z} : WriteBufferOf(a) = b /\ Waits(x, t, a)}}
           O == Others(w, r)
           Mine(x, t) == IF WriteBufferOf(z) = b /\ Waits(x, t, z) THEN Tail(x, z) ELSE {}
<1>1. Others(v, s) = O
  <2>1. \A y \in Zones \ {z} : Waits(v, s, y) <=> Waits(w, r, y)
    BY DEF Waits
  <2>2. \A y \in Zones \ {z} : Tail(v, y) = Tail(w, y)
    BY DEF Tail
  <2>3. {a \in Zones \ {z} : WriteBufferOf(a) = b /\ Waits(v, s, a)}
          = {a \in Zones \ {z} : WriteBufferOf(a) = b /\ Waits(w, r, a)}
    BY <2>1
  <2> QED BY <2>2, <2>3
<1>2. \A x, t : Waiting(x, t, b) = Others(x, t) \cup Mine(x, t)
  BY DEF Waiting
<1>3. IsFiniteSet(O)
  <2> DEFINE U == Zones \X (0 .. nr_zones * zone_size)
  <2>1. nr_zones \in Nat /\ zone_size \in Nat \ {0} /\ nr_zones * zone_size \in Nat
    BY ZonesFinite
  <2>2. IsFiniteSet(U)
    <3>1. IsFiniteSet(0 .. nr_zones * zone_size)
      BY <2>1, FS_Interval
    <3> QED BY <3>1, ZonesFinite, FS_Product
  <2>3. ASSUME NEW y \in Zones PROVE Tail(w, y) \subseteq U
    <3>1. w[y] \in Nat /\ zslba(y) \in Nat /\ zslba(y) <= w[y] /\ w[y] <= EndOf(y) /\ W \in Nat \ {0}
      BY ZoneEnds, ZnsAssumption DEF Placed, W
    <3>2. (w[y] - zslba(y)) % W <= w[y] - zslba(y) /\ (w[y] - zslba(y)) % W \in Nat
      <4>1. w[y] - zslba(y) \in Nat
        BY <3>1
      <4> QED BY <3>1, <4>1, RemainderFits
    <3>3. y \in Nat /\ y < nr_zones
      BY <2>1 DEF Zones
    <3>4. EndOf(y) <= nr_zones * zone_size
      BY <2>1, <3>3, ProductGrows DEF EndOf
    <3>5. EndOf(y) \in Nat
      BY ZoneEnds
    <3>6. w[y] - ((w[y] - zslba(y)) % W) .. w[y] - 1 \subseteq 0 .. nr_zones * zone_size
      BY <2>1, <3>1, <3>2, <3>4, <3>5
    <3> QED BY <3>6 DEF Tail
  <2>4. O \subseteq U
    BY <2>3
  <2> HIDE DEF U, O
  <2> QED BY <2>2, <2>4, FS_Subset
<1>4. \A x : O \cap Tail(x, z) = {}
  BY DEF Tail
<1>5. \A x, t : Placed(x, t) =>
        IsFiniteSet(Mine(x, t)) /\ O \cap Mine(x, t) = {}
        /\ Cardinality(Mine(x, t)) = IF WriteBufferOf(z) = b THEN Filling(x, t, z) ELSE 0
  <2> SUFFICES ASSUME NEW x, NEW t, Placed(x, t)
               PROVE  /\ IsFiniteSet(Mine(x, t)) /\ O \cap Mine(x, t) = {}
                      /\ Cardinality(Mine(x, t)) = IF WriteBufferOf(z) = b THEN Filling(x, t, z) ELSE 0
    OBVIOUS
  <2> HIDE DEF O
  <2>1. CASE WriteBufferOf(z) = b /\ Waits(x, t, z)
    BY <1>4, <2>1, TailCounted DEF Filling
  <2>2. CASE ~(WriteBufferOf(z) = b /\ Waits(x, t, z))
    BY <2>2, FS_EmptySet DEF Filling
  <2> QED BY <2>1, <2>2
<1>6. \A x, t : Placed(x, t) => Filling(x, t, z) \in Nat
  BY FillingIsNat
<1> HIDE DEF Others, Mine, O
<1>7. Cardinality(O) \in Nat
  BY <1>3, FS_CardinalityType
<1>8. \A x, t : Placed(x, t) =>
        Cardinality(O \cup Mine(x, t))
          = Cardinality(O) + (IF WriteBufferOf(z) = b THEN Filling(x, t, z) ELSE 0)
  <2> SUFFICES ASSUME NEW x, NEW t, Placed(x, t)
               PROVE  Cardinality(O \cup Mine(x, t))
                        = Cardinality(O) + (IF WriteBufferOf(z) = b THEN Filling(x, t, z) ELSE 0)
    OBVIOUS
  <2>1. /\ IsFiniteSet(Mine(x, t)) /\ O \cap Mine(x, t) = {}
        /\ Cardinality(Mine(x, t)) = IF WriteBufferOf(z) = b THEN Filling(x, t, z) ELSE 0
    BY <1>5
  <2>2. Cardinality(O \cup Mine(x, t)) = Cardinality(O) + Cardinality(Mine(x, t)) - Cardinality({})
    BY <1>3, <2>1, FS_Union
  <2>3. Cardinality({}) = 0 /\ Cardinality(Mine(x, t)) \in Nat
    BY <2>1, FS_EmptySet, FS_CardinalityType
  <2>4. Cardinality(O \cup Mine(x, t)) = Cardinality(O) + Cardinality(Mine(x, t))
    BY <1>7, <2>2, <2>3
  <2> QED BY <2>1, <2>4
<1> DEFINE f == Filling(w, r, z)
           g == Filling(v, s, z)
<1>9. f \in Nat /\ g \in Nat
  BY <1>6
<1>10. Waiting(w, r, b) = O \cup Mine(w, r) /\ Waiting(v, s, b) = O \cup Mine(v, s)
  BY <1>1, <1>2 DEF O
<1>11. /\ Cardinality(Waiting(w, r, b)) = Cardinality(O) + (IF WriteBufferOf(z) = b THEN f ELSE 0)
       /\ Cardinality(Waiting(v, s, b)) = Cardinality(O) + (IF WriteBufferOf(z) = b THEN g ELSE 0)
  BY <1>8, <1>10
<1> HIDE DEF f, g
<1> QED BY <1>7, <1>9, <1>11 DEF f, g

(* What the releases to come give back.                                    *)
Coming(p, b) == W * p[b][W] + IF unaligned_space = 0 THEN 0 ELSE unaligned_space * p[b][unaligned_space]

LEMMA SizesAre ==
  /\ W \in Sizes /\ W \in Nat \ {0} /\ unaligned_space \in 0 .. W - 1 /\ unaligned_space # W
  /\ unaligned_space # 0 => unaligned_space \in Sizes
  /\ \A s \in Sizes : s = W \/ (s = unaligned_space /\ s # 0)
<1>1. W \in Nat \ {0} /\ zone_size \in Nat
  BY ZnsAssumption DEF W
<1>2. unaligned_space \in 0 .. W - 1
  BY <1>1, Divided DEF unaligned_space, W
<1>3. unaligned_space # W
  BY <1>1, <1>2
<1> QED BY <1>1, <1>2, <1>3 DEF Sizes, W

LEMMA ComingIsInt ==
  ASSUME NEW p, p \in [Buffers -> [Sizes -> 0 .. MaxPending]], NEW b \in Buffers
  PROVE  Coming(p, b) \in Int
<1>1. p[b][W] \in Int
  BY SizesAre
<1>2. unaligned_space # 0 => p[b][unaligned_space] \in Int
  BY SizesAre
<1>3. W \in Int /\ unaligned_space \in Int
  BY SizesAre
<1>4. W * p[b][W] \in Int /\ (unaligned_space # 0 => unaligned_space * p[b][unaligned_space] \in Int)
  BY <1>1, <1>2, <1>3
<1> DEFINE x == W * p[b][W]
           y == unaligned_space * p[b][unaligned_space]
<1>5. Coming(p, b) = x + IF unaligned_space = 0 THEN 0 ELSE y
  BY DEF Coming
<1> HIDE DEF x, y
<1> QED BY <1>4, <1>5 DEF x, y

LEMMA InvPlaced == ASSUME IInv PROVE Placed(wp, zrwav)
BY DEF IInv, ZoneInv, WritePointerFits, Placed

(* A step that changes one zone at most and takes as much space as it adds *)
(* to what is to come and what waits.                                      *)
LEMMA SpaceStep ==
  ASSUME IInv, IInv', NoSpaceMadeUp, NEW z \in Zones,
         \A y \in Zones \ {z} : wp'[y] = wp[y] /\ (zrwav'[y] <=> zrwav[y]),
         \A x \in Zones :
           remaining'[WriteBufferOf(x)] + Coming(pending', WriteBufferOf(x))
             + (IF WriteBufferOf(z) = WriteBufferOf(x)
                THEN Filling(wp', zrwav', z) - Filling(wp, zrwav, z) ELSE 0)
           <= remaining[WriteBufferOf(x)] + Coming(pending, WriteBufferOf(x))
  PROVE  NoSpaceMadeUp'
<1> SUFFICES ASSUME NEW x \in Zones
             PROVE  remaining'[WriteBufferOf(x)] + Coming(pending', WriteBufferOf(x))
                      + Cardinality(Waiting(wp', zrwav', WriteBufferOf(x)))
                    <= SizeOf(WriteBufferOf(x))
  BY DEF NoSpaceMadeUp, ToCome, PartlyFilled, Coming, Waiting, Tail, Waits, W
<1> DEFINE b == WriteBufferOf(x)
           c == Cardinality(Waiting(wp, zrwav, b))
           d == Cardinality(Waiting(wp', zrwav', b))
           f == Filling(wp, zrwav, z)
           g == Filling(wp', zrwav', z)
           e == IF WriteBufferOf(z) = b THEN g - f ELSE 0
           t == Coming(pending, b)
           u == Coming(pending', b)
<1>1. remaining[b] + t + c <= SizeOf(b)
  BY DEF NoSpaceMadeUp, ToCome, PartlyFilled, Coming, Waiting, Tail, Waits, W
<1>2. Placed(wp, zrwav)
  BY InvPlaced
<1>3. Placed(wp', zrwav')
  BY DEF IInv, ZoneInv, WritePointerFits, Placed
<1>4. c \in Nat /\ d = c + e
  BY <1>2, <1>3, WaitingChange
<1>5. b \in Buffers
  BY BuffersOfZone
<1>6. t \in Int /\ remaining[b] \in Int
  BY <1>5, ComingIsInt DEF IInv, RestInv
<1>7. u \in Int /\ remaining'[b] \in Int
  <2>1. pending' \in [Buffers -> [Sizes -> 0 .. MaxPending]] /\ remaining' \in [Buffers -> Nat]
    BY DEF IInv, RestInv
  <2> QED BY <1>5, <2>1, ComingIsInt
<1>8. f \in Int /\ g \in Int
  BY <1>2, <1>3, FillingIsNat
<1>9. SizeOf(b) \in Int
  BY ZnsAssumption DEF SizeOf
<1>10. remaining'[b] + u + e <= remaining[b] + t
  OBVIOUS
<1>11. e \in Int
  BY <1>8
<1> HIDE DEF b, c, d, e, t, u
<1>12. remaining'[b] + u + d <= SizeOf(b)
  BY <1>1, <1>4, <1>6, <1>7, <1>9, <1>10, <1>11
<1> QED BY <1>12 DEF b, d, u

(* Filling does not look at the state of the zone.                         *)
LEMMA QuietStep ==
  ASSUME IInv, IInv', NoSpaceMadeUp, NEW z \in Zones,
         \A y \in Zones \ {z} : wp'[y] = wp[y] /\ (zrwav'[y] <=> zrwav[y]),
         Filling(wp', zrwav', z) <= Filling(wp, zrwav, z),
         \A x \in Zones : /\ remaining'[WriteBufferOf(x)] <= remaining[WriteBufferOf(x)]
                          /\ pending'[WriteBufferOf(x)] = pending[WriteBufferOf(x)]
  PROVE  NoSpaceMadeUp'
<1> DEFINE f == Filling(wp, zrwav, z)
           g == Filling(wp', zrwav', z)
<1>1. Placed(wp, zrwav)
  BY InvPlaced
<1>2. Placed(wp', zrwav')
  BY DEF IInv, ZoneInv, WritePointerFits, Placed
<1>3. f \in Int /\ g \in Int /\ g <= f
  BY <1>1, <1>2, FillingIsNat
<1>4. ASSUME NEW x \in Zones
      PROVE  remaining'[WriteBufferOf(x)] + Coming(pending', WriteBufferOf(x))
               + (IF WriteBufferOf(z) = WriteBufferOf(x) THEN g - f ELSE 0)
             <= remaining[WriteBufferOf(x)] + Coming(pending, WriteBufferOf(x))
  <2> DEFINE b == WriteBufferOf(x)
             t == Coming(pending, b)
             m == remaining[b]
             n == remaining'[b]
  <2>1. b \in Buffers
    BY BuffersOfZone
  <2>2. Coming(pending', b) = t
    BY DEF Coming
  <2>3. t \in Int /\ m \in Int
    BY <2>1, ComingIsInt DEF IInv, RestInv
  <2>4. n \in Int /\ n <= m
    BY <2>1 DEF IInv, RestInv
  <2> HIDE DEF b, t, m, n, f, g
  <2>5. n + t + (IF WriteBufferOf(z) = b THEN g - f ELSE 0) <= m + t
    BY <1>3, <2>3, <2>4
  <2> QED BY <2>2, <2>5 DEF b, t, m, n
<1> HIDE DEF f, g
<1> QED BY <1>4, SpaceStep DEF f, g

(* A write buffer is no random write area.                                 *)
LEMMA BuffersDiffer ==
  ASSUME NEW x, NEW z
  PROVE  WriteBufferOf(x) # ZrwaBuffer(z)
BY DEF WriteBufferOf, ZrwaBuffer

(* A management command for a zone.                                        *)
LEMMA SendSpace ==
  ASSUME IInv, IInv', NoSpaceMadeUp, NEW action, NEW slba \in Nat, NEW option,
         ZoneOf(slba) \in Zones, Send(action, slba, option), pending' = pending
  PROVE  NoSpaceMadeUp'
<1> DEFINE z == ZoneOf(slba)
<1>0. z \in Zones /\ wp \in [Zones -> Nat] /\ zrwav \in [Zones -> BOOLEAN] /\ remaining \in [Buffers -> Nat]
  BY DEF IInv, ZoneInv, RestInv
<1>1. Placed(wp, zrwav)
  BY InvPlaced
<1>2. Filling(wp, zrwav, z) \in Nat
  BY <1>0, <1>1, FillingIsNat
<1>3. /\ \A y \in Zones \ {z} : wp'[y] = wp[y] /\ (zrwav'[y] <=> zrwav[y])
      /\ \/ wp'[z] = wp[z] /\ (zrwav[z] => zrwav'[z])
         \/ wp'[z] = zslba(z)
         \/ zrwav'[z]
      /\ \A x \in Zones : remaining'[WriteBufferOf(x)] = remaining[WriteBufferOf(x)]
  <2> HIDE DEF z
  <2>1. CASE Close(z) \/ Finish(z)
    BY <1>0, <2>1 DEF Close, Finish, zoneVars
  <2>2. CASE Open(z, option)
    <3>1. CASE UNCHANGED <<zoneVars, remaining>>
      BY <3>1 DEF zoneVars
    <3>2. CASE UNCHANGED <<wp, remaining>>
               /\ zrwav' = [zrwav EXCEPT ![z] = @ \/ (state[z] = "EMPTY" /\ option)]
      BY <1>0, <3>2
    <3> QED BY <2>2, <3>1, <3>2 DEF Open
  <2>3. CASE Reset(z)
    <3>1. /\ wp' = [wp EXCEPT ![z] = zslba(z)] /\ zrwav' = [zrwav EXCEPT ![z] = FALSE]
          /\ remaining' = [remaining EXCEPT ![ZrwaBuffer(z)] = zrwa_buffer_size]
      BY <2>3 DEF Reset
    <3>2. \A x \in Zones : remaining'[WriteBufferOf(x)] = remaining[WriteBufferOf(x)]
      BY <1>0, <3>1, BuffersDiffer, BuffersOfZone
    <3> QED BY <1>0, <3>1, <3>2
  <2>4. CASE FlushExplicit(slba)
    <3>1. CASE UNCHANGED <<zoneVars, remaining>>
      BY <3>1 DEF zoneVars
    <3>2. CASE zrwav[z] /\ wp' = [wp EXCEPT ![z] = slba + 1] /\ UNCHANGED <<zrwav, remaining>>
      BY <1>0, <3>2
    <3> QED BY <2>4, <3>1, <3>2 DEF FlushExplicit, z
  <2> QED BY <2>1, <2>2, <2>3, <2>4 DEF Send, z
<1>4. Filling(wp', zrwav', z) <= Filling(wp, zrwav, z)
  <2>1. zrwav'[z] \in BOOLEAN
    BY <1>0 DEF IInv, ZoneInv
  <2>2. CASE ~Waits(wp', zrwav', z)
    BY <1>2, <2>2 DEF Filling
  <2>3. CASE wp'[z] = zslba(z)
    <3>1. zslba(z) - zslba(z) = 0 /\ 0 % W = 0
      BY <1>0, ZoneEnds, SizesAre
    <3>2. Filling(wp', zrwav', z) = 0
      BY <2>3, <3>1 DEF Filling
    <3> QED BY <1>2, <3>2
  <2>4. CASE wp'[z] = wp[z] /\ (zrwav[z] => zrwav'[z]) /\ Waits(wp', zrwav', z)
    <3>1. Waits(wp, zrwav, z)
      BY <2>4 DEF Waits
    <3>2. Filling(wp', zrwav', z) = Filling(wp, zrwav, z)
      BY <2>4, <3>1 DEF Filling
    <3> QED BY <1>2, <3>2
  <2> QED BY <1>3, <2>2, <2>3, <2>4 DEF Waits
<1>5. \A x \in Zones : remaining'[WriteBufferOf(x)] <= remaining[WriteBufferOf(x)]
  <2> SUFFICES ASSUME NEW x \in Zones
               PROVE  remaining'[WriteBufferOf(x)] <= remaining[WriteBufferOf(x)]
    OBVIOUS
  <2>1. remaining[WriteBufferOf(x)] \in Int
    BY <1>0, BuffersOfZone
  <2> QED BY <1>3, <2>1
<1> HIDE DEF z
<1> QED BY <1>0, <1>3, <1>4, <1>5, QuietStep

(* No zone changes, and no write buffer has more space than before.        *)
LEMMA NothingMoves ==
  ASSUME IInv, IInv', NoSpaceMadeUp, UNCHANGED <<wp, zrwav, pending>>,
         remaining' = remaining
           \/ \A x \in Zones : remaining'[WriteBufferOf(x)] <= remaining[WriteBufferOf(x)]
  PROVE  NoSpaceMadeUp'
<1>1. 0 \in Zones
  BY ZonesFinite DEF Zones
<1>2. Filling(wp, zrwav, 0) \in Int
  BY <1>1, InvPlaced, FillingIsNat
<1>3. Filling(wp', zrwav', 0) <= Filling(wp, zrwav, 0)
  BY <1>2
<1>4. \A x \in Zones : remaining'[WriteBufferOf(x)] <= remaining[WriteBufferOf(x)]
  <2>1. \A x \in Zones : remaining[WriteBufferOf(x)] \in Int
    BY BuffersOfZone DEF IInv, RestInv
  <2> QED BY <2>1
<1> QED BY <1>1, <1>3, <1>4, QuietStep

(* A write takes n pages and schedules the wordlines it completes: what it *)
(* takes is what is to come and what waits in addition, also when it ends  *)
(* with the zone, in a wordline that is shorter.                           *)
LEMMA TakenIsOwed ==
  ASSUME NEW z \in Zones, NEW w \in Nat, NEW n \in Nat, zslba(z) <= w, w < EndOf(z), w + n <= EndOf(z)
  PROVE  W * Programmed(z, w, n)[W]
           + (IF unaligned_space = 0 THEN 0 ELSE unaligned_space * Programmed(z, w, n)[unaligned_space])
           + (IF w + n < EndOf(z) THEN (w + n - zslba(z)) % W ELSE 0)
         = n + ((w - zslba(z)) % W)
<1> DEFINE base == zslba(z)
           o == w - base
           D == o \div W
           d == o % W
           E == (o + n) \div W
           e == (o + n) % W
           u == unaligned_space
           C == Programmed(z, w, n)[W]
           U == Programmed(z, w, n)[u]
<1>1. base \in Nat /\ EndOf(z) = base + zone_size /\ zone_size \in Nat
  BY ZoneEnds, ZonesFinite
<1>2. o \in Nat /\ o + n \in Nat /\ w = base + o /\ w + n - base = o + n
  BY <1>1
<1>3. W \in Nat \ {0} /\ u \in 0 .. W - 1
  BY SizesAre
<1>4. C = E - D
  <2>1. C = Cardinality({p \in w .. w + n - 1 : (p - base + 1) % W = 0})
    BY SizesAre DEF Programmed, W
  <2> HIDE DEF o, C, D, E, base
  <2>2. C = Cardinality({p \in base + o .. base + o + n - 1 : (p - base + 1) % W = 0})
    BY <1>2, <2>1
  <2>3. C = (o + n) \div W - o \div W
    BY <1>2, <2>2, WordlinesCounted DEF base
  <2> QED BY <2>3 DEF D, E
<1>5. u # 0 => U = One(w + n = EndOf(z))
  BY SizesAre DEF Programmed, W
<1>6. D \in Nat /\ d \in Nat /\ o = W * D + d
  <2> HIDE DEF o
  <2>1. D \in Nat /\ d \in 0 .. W - 1 /\ o = W * D + d
    BY <1>2, <1>3, Divided
  <2> HIDE DEF D, d
  <2>2. d \in Nat
    BY <1>3, <2>1
  <2> QED BY <2>1, <2>2
<1>7. E \in Nat /\ e \in 0 .. W - 1 /\ o + n = W * E + e
  <2> HIDE DEF o
  <2> QED BY <1>2, <1>3, Divided
<1>8. w + n = EndOf(z) => e = u
  <2>1. ASSUME w + n = EndOf(z) PROVE o + n = zone_size
    BY <1>1, <1>2, <2>1
  <2> QED BY <2>1 DEF unaligned_space, W
<1>9. (w - zslba(z)) % W = d /\ (w + n - zslba(z)) % W = e
  BY <1>2
<1> DEFINE X == IF u = 0 THEN 0 ELSE u * U
           Y == IF w + n < EndOf(z) THEN e ELSE 0
<1>10. X + Y = e
  <2> HIDE DEF u, U, e, o
  <2>1. u \in Int /\ e \in Int
    BY <1>3, <1>7
  <2>2. CASE w + n = EndOf(z)
    <3>1. Y = 0
      BY <1>1, <2>2
    <3>2. CASE u = 0
      BY <1>8, <2>2, <3>1, <3>2
    <3>3. CASE u # 0
      <4>1. U = 1
        BY <1>5, <2>2, <3>3 DEF One
      <4>2. u * 1 = u
        BY <2>1
      <4>3. X = u
        BY <3>3, <4>1, <4>2
      <4> HIDE DEF X, Y
      <4> QED BY <1>8, <2>1, <2>2, <3>1, <4>3
    <3> QED BY <3>2, <3>3
  <2>3. CASE w + n # EndOf(z)
    <3>1. Y = e
      BY <1>1, <2>3
    <3>2. CASE u = 0
      <4>1. X = 0
        BY <3>2
      <4> HIDE DEF X, Y
      <4> QED BY <2>1, <3>1, <4>1
    <3>3. CASE u # 0
      <4>1. U = 0
        BY <1>5, <2>3, <3>3 DEF One
      <4>2. u * 0 = 0
        BY <2>1
      <4>3. X = 0
        BY <3>3, <4>1, <4>2
      <4> HIDE DEF X, Y
      <4> QED BY <2>1, <3>1, <4>3
    <3> QED BY <3>2, <3>3
  <2> QED BY <2>2, <2>3
<1>11. X \in Int /\ Y \in Int
  <2>1. Y \in Int
    BY <1>7
  <2>2. X \in Int
    <3>1. u # 0 => U \in Int
      BY <1>5 DEF One
    <3>2. u # 0 => u * U \in Int
      BY <1>3, <3>1
    <3> HIDE DEF U
    <3> QED BY <3>2
  <2> QED BY <2>1, <2>2
<1> HIDE DEF X, Y, e, E, D, d, C, o
<1>12. W * C = W * E - W * D /\ W * E \in Int /\ W * D \in Int
  BY <1>3, <1>4, <1>6, <1>7
<1>13. W * C + X + Y = n + d
  BY <1>2, <1>6, <1>7, <1>10, <1>11, <1>12
<1> QED BY <1>9, <1>13 DEF X, Y, C

(* More releases: so much more is to come.                                 *)
LEMMA ComingGrows ==
  ASSUME pending \in [Buffers -> [Sizes -> 0 .. MaxPending]],
         NEW b \in Buffers, NEW p \in [Sizes -> Nat], Schedule(b, p)
  PROVE  /\ Coming(pending', b) = Coming(pending, b) + W * p[W]
              + (IF unaligned_space = 0 THEN 0 ELSE unaligned_space * p[unaligned_space])
         /\ \A c \in Buffers \ {b} : Coming(pending', c) = Coming(pending, c)
<1> DEFINE u == unaligned_space
           x == pending[b][W]
           y == p[W]
           s == pending[b][u]
           t == p[u]
<1>1. pending' = [pending EXCEPT ![b] = [k \in Sizes |-> pending[b][k] + p[k]]]
  BY DEF Schedule
<1>2. pending'[b][W] = x + y /\ x \in Int /\ y \in Int /\ W \in Int
  BY <1>1, SizesAre
<1>3. u # 0 => pending'[b][u] = s + t /\ s \in Int /\ t \in Int
  BY <1>1, SizesAre
<1>4. u \in Int
  BY SizesAre
<1>5. \A c \in Buffers \ {b} : Coming(pending', c) = Coming(pending, c)
  BY <1>1 DEF Coming
<1> HIDE DEF u, x, y, s, t
<1>6. W * (x + y) = W * x + W * y /\ W * x \in Int /\ W * y \in Int
  BY <1>2
<1>7. u # 0 => u * (s + t) = u * s + u * t /\ u * s \in Int /\ u * t \in Int
  BY <1>3, <1>4
<1>8. /\ Coming(pending', b) = W * (x + y) + IF u = 0 THEN 0 ELSE u * (s + t)
      /\ Coming(pending, b) = W * x + IF u = 0 THEN 0 ELSE u * s
  BY <1>2, <1>3 DEF Coming, u, x, s
<1>9. Coming(pending', b) = Coming(pending, b) + W * y + IF u = 0 THEN 0 ELSE u * t
  <2>1. CASE u = 0
    BY <1>6, <1>8, <2>1
  <2>2. CASE u # 0
    <3> DEFINE A == W * x
               B == W * y
               F == u * s
               G == u * t
    <3>1. Coming(pending', b) = (A + B) + (F + G) /\ Coming(pending, b) = A + F
      BY <1>6, <1>7, <1>8, <2>2
    <3>2. A \in Int /\ B \in Int /\ F \in Int /\ G \in Int
      BY <1>6, <1>7, <2>2
    <3> HIDE DEF A, B, F, G
    <3>3. Coming(pending', b) = Coming(pending, b) + B + G
      BY <3>1, <3>2
    <3> QED BY <2>2, <3>3 DEF B, G
  <2> QED BY <2>1, <2>2
<1> QED BY <1>5, <1>9 DEF u, y, t

LEMMA SequentialSpace ==
  ASSUME IInv, IInv', NoSpaceMadeUp, NEW q \in Queues, NEW c \in Command, NEW z \in Zones, ~zrwav[z],
         WriteSequential(q, c, z)
  PROVE  NoSpaceMadeUp'
<1> DEFINE b == WriteBufferOf(z)
<1>0. /\ c.nr \in Nat /\ b \in Buffers /\ wp \in [Zones -> Nat] /\ wp[z] \in Nat
      /\ remaining \in [Buffers -> Nat] /\ pending \in [Buffers -> [Sizes -> 0 .. MaxPending]]
      /\ zslba(z) <= wp[z]
  BY ZnsAssumption, BuffersOfZone DEF Command, IInv, ZoneInv, RestInv, WritePointerFits
<1>1. CASE remaining[b] < c.nr
  <2>1. UNCHANGED <<zoneVars, bufVars>>
    BY <1>1 DEF WriteSequential
  <2> QED BY <2>1, NothingMoves DEF zoneVars, bufVars
<1>2. CASE ~(remaining[b] < c.nr) /\ ~Writable(c, z)
  <2>1. /\ remaining' = [remaining EXCEPT ![b] = remaining[b] - c.nr]
        /\ UNCHANGED <<wp, zrwav, pending>>
    BY <1>2 DEF WriteSequential
  <2>2. \A x \in Zones : remaining'[WriteBufferOf(x)] <= remaining[WriteBufferOf(x)]
    BY <1>0, <2>1, BuffersOfZone
  <2> QED BY <2>1, <2>2, NothingMoves
<1>3. CASE ~(remaining[b] < c.nr) /\ Writable(c, z)
  <2> DEFINE n == c.nr
             p == Programmed(z, wp[z], n)
  <2>1. /\ remaining' = [remaining EXCEPT ![b] = remaining[b] - n] /\ zrwav' = zrwav
        /\ wp' = [wp EXCEPT ![z] = wp[z] + n] /\ Schedule(b, p)
    BY <1>3 DEF WriteSequential, Moved
  <2>2. wp[z] < EndOf(z)
    BY <1>3, ZoneFacts DEF Writable, IInv
  <2>3. wp'[z] = wp[z] + n /\ wp[z] + n <= EndOf(z)
    <3>1. wp'[z] <= EndOf(z)
      BY DEF IInv, ZoneInv, WritePointerFits
    <3> QED BY <1>0, <2>1, <3>1
  <2>4. p \in [Sizes -> Nat]
    BY <1>0, ProgrammedType
  <2> DEFINE f == Filling(wp, zrwav, z)
             g == Filling(wp', zrwav', z)
             t == Coming(pending, b)
             i == W * p[W]
             j == IF unaligned_space = 0 THEN 0 ELSE unaligned_space * p[unaligned_space]
  <2>5. f = (wp[z] - zslba(z)) % W
    BY <2>2 DEF Filling, Waits
  <2>6. g = IF wp[z] + n < EndOf(z) THEN (wp[z] + n - zslba(z)) % W ELSE 0
    <3>1. wp'[z] - zslba(z) = wp[z] + n - zslba(z)
      BY <1>0, <2>3, ZoneEnds
    <3>2. g = IF wp'[z] < EndOf(z) THEN (wp'[z] - zslba(z)) % W ELSE 0
      BY <2>1 DEF Filling, Waits
    <3> QED BY <2>3, <3>1, <3>2
  <2>7. i + j + g = n + f
    BY <1>0, <2>2, <2>3, <2>5, <2>6, TakenIsOwed
  <2>8. Coming(pending', b) = t + i + j /\ \A y \in Buffers \ {b} : Coming(pending', y) = Coming(pending, y)
    <3> HIDE DEF p
    <3> QED BY <1>0, <2>1, <2>4, ComingGrows
  <2>9. f \in Nat /\ g \in Nat
    <3>1. Placed(wp, zrwav)
      BY InvPlaced
    <3>2. Placed(wp', zrwav')
      BY DEF IInv, ZoneInv, WritePointerFits, Placed
    <3> QED BY <3>1, <3>2, FillingIsNat
  <2>10. i \in Int /\ j \in Int /\ t \in Int
    <3>1. W \in Int /\ p[W] \in Int /\ unaligned_space \in Int
      BY <2>4, SizesAre
    <3>2. unaligned_space # 0 => p[unaligned_space] \in Int
      BY <2>4, SizesAre
    <3> HIDE DEF p
    <3>3. unaligned_space # 0 => unaligned_space * p[unaligned_space] \in Int
      BY <3>1, <3>2
    <3>4. W * p[W] \in Int
      BY <3>1
    <3> QED BY <1>0, <3>3, <3>4, ComingIsInt
  <2>11. \A y \in Zones \ {z} : wp'[y] = wp[y] /\ (zrwav'[y] <=> zrwav[y])
    BY <1>0, <2>1
  <2>12. ASSUME NEW x \in Zones
         PROVE  remaining'[WriteBufferOf(x)] + Coming(pending', WriteBufferOf(x))
                  + (IF WriteBufferOf(z) = WriteBufferOf(x) THEN g - f ELSE 0)
                <= remaining[WriteBufferOf(x)] + Coming(pending, WriteBufferOf(x))
    <3>1. CASE WriteBufferOf(x) = b
      <4> DEFINE m == remaining[b]
      <4>1. m \in Int /\ remaining'[b] = m - n /\ n \in Int
        BY <1>0, <2>1
      <4> HIDE DEF m, n, i, j, f, g, t
      <4>2. (m - n) + (t + i + j) + (g - f) <= m + t
        BY <2>7, <2>9, <2>10, <4>1
      <4> QED BY <2>8, <3>1, <4>1, <4>2 DEF m, t
    <3>2. CASE WriteBufferOf(x) # b
      <4> DEFINE a == WriteBufferOf(x)
                 m == remaining[a]
                 k == Coming(pending, a)
      <4>1. a \in Buffers \ {b}
        BY <3>2, BuffersOfZone
      <4>2. m \in Int /\ remaining'[a] = m
        BY <1>0, <2>1, <4>1
      <4>3. k \in Int /\ Coming(pending', a) = k
        BY <1>0, <2>8, <4>1, ComingIsInt
      <4>4. (IF WriteBufferOf(z) = a THEN g - f ELSE 0) = 0
        BY <3>2
      <4> HIDE DEF m, k
      <4>5. m + k + 0 <= m + k
        BY <4>2, <4>3
      <4> QED BY <4>2, <4>3, <4>4, <4>5 DEF m, k
    <3> QED BY <3>1, <3>2
  <2> QED BY <2>11, <2>12, SpaceStep
<1> QED BY <1>1, <1>2, <1>3

LEMMA ZrwaSpace ==
  ASSUME IInv, IInv', NoSpaceMadeUp, NEW q \in Queues, NEW c \in Command, NEW z \in Zones, zrwav[z],
         WriteZrwa(q, c, z)
  PROVE  NoSpaceMadeUp'
<1> DEFINE b == ZrwaBuffer(z)
<1>0. /\ b \in Buffers /\ wp \in [Zones -> Nat] /\ zrwav \in [Zones -> BOOLEAN]
      /\ remaining \in [Buffers -> Nat] /\ pending \in [Buffers -> [Sizes -> 0 .. MaxPending]]
  BY BuffersOfZone DEF IInv, ZoneInv, RestInv
<1>1. CASE UNCHANGED <<zoneVars, bufVars>>
  BY <1>1, NothingMoves DEF zoneVars, bufVars
<1>2. CASE /\ \E r : remaining' = [remaining EXCEPT ![b] = r]
           /\ \E p : wp' = [wp EXCEPT ![z] = p]
           /\ (\E m : pending' = [pending EXCEPT ![b] = m]) \/ pending' = pending
           /\ zrwav' = zrwav
  <2>1. \A x \in Zones : WriteBufferOf(x) # b /\ WriteBufferOf(x) \in Buffers
    BY BuffersDiffer, BuffersOfZone
  <2>2. \A x \in Zones : /\ remaining'[WriteBufferOf(x)] = remaining[WriteBufferOf(x)]
                         /\ pending'[WriteBufferOf(x)] = pending[WriteBufferOf(x)]
    BY <1>0, <1>2, <2>1
  <2>3. \A x \in Zones : remaining[WriteBufferOf(x)] <= remaining[WriteBufferOf(x)]
    BY <1>0, <2>1
  <2>4. \A y \in Zones \ {z} : wp'[y] = wp[y] /\ (zrwav'[y] <=> zrwav[y])
    BY <1>0, <1>2
  <2>5. Filling(wp, zrwav, z) = 0 /\ Filling(wp', zrwav', z) = 0
    BY <1>2 DEF Filling, Waits
  <2>6. \A x \in Zones : remaining'[WriteBufferOf(x)] <= remaining[WriteBufferOf(x)]
    BY <2>2, <2>3
  <2>7. Filling(wp', zrwav', z) <= Filling(wp, zrwav, z)
    BY <2>5
  <2> QED BY <2>2, <2>4, <2>6, <2>7, QuietStep
<1> QED BY <1>1, <1>2 DEF WriteZrwa, Moved, Schedule

(* A write, first try or later.                                            *)
LEMMA WriteSpace ==
  ASSUME IInv, IInv', NoSpaceMadeUp, NEW q \in Queues, NEW c \in Command, zns_write(q, c)
  PROVE  NoSpaceMadeUp'
<1> DEFINE z == ZoneOf(c.slba)
           a == IF c.op = "append" THEN [c EXCEPT !.slba = wp[z]] ELSE c
<1>1. z \in Zones
  BY DEF zns_write
<1>2. CASE zrwav[z]
  <2>1. WriteZrwa(q, c, z)
    BY <1>2 DEF zns_write
  <2> HIDE DEF z
  <2> QED BY <1>1, <1>2, <2>1, ZrwaSpace
<1>3. CASE ~zrwav[z]
  <2>1. WriteSequential(q, a, z)
    BY <1>3 DEF zns_write
  <2>2. wp[z] \in Nat
    BY <1>1, ZoneFacts DEF IInv
  <2>3. a \in Command
    BY <2>2 DEF Command
  <2> HIDE DEF a, z
  <2> QED BY <1>1, <1>3, <2>1, <2>3, SequentialSpace
<1> QED BY <1>2, <1>3

(* A release gives back what was to come.                                  *)
LEMMA ReleaseSpace ==
  ASSUME IInv, IInv', NoSpaceMadeUp, NEW b \in Buffers, NEW s \in Sizes, ReleaseBuffer(b, s)
  PROVE  NoSpaceMadeUp'
<1> DEFINE u == unaligned_space
           x == pending[b][W]
           y == pending[b][u]
<1>0. /\ wp \in [Zones -> Nat] /\ zrwav \in [Zones -> BOOLEAN] /\ 0 \in Zones
      /\ remaining \in [Buffers -> Nat] /\ pending \in [Buffers -> [Sizes -> 0 .. MaxPending]]
  BY ZonesFinite DEF IInv, ZoneInv, RestInv, Zones
<1>1. /\ pending' = [pending EXCEPT ![b] = [pending[b] EXCEPT ![s] = pending[b][s] - 1]]
      /\ remaining' = [remaining EXCEPT ![b] = remaining[b] + s]
      /\ UNCHANGED <<wp, zrwav>>
  BY DEF ReleaseBuffer, zoneVars
<1>2. s \in Int /\ W \in Int /\ u \in Int /\ (s = W \/ (s = u /\ u # 0)) /\ W # u
  BY SizesAre
<1>3. x \in Int /\ (u # 0 => y \in Int)
  BY <1>0, SizesAre
<1>4. Coming(pending', b) = Coming(pending, b) - s
  <2>1. CASE s = W
    <3>1. pending'[b][W] = x - 1 /\ (u # 0 => pending'[b][u] = y)
      BY <1>0, <1>1, <1>2, <2>1, SizesAre
    <3> DEFINE Y == IF u = 0 THEN 0 ELSE u * y
    <3>2. Coming(pending', b) = W * (x - 1) + Y /\ Coming(pending, b) = W * x + Y
      BY <3>1 DEF Coming
    <3>3. Y \in Int
      <4>1. u # 0 => u * y \in Int
        BY <1>2, <1>3
      <4> HIDE DEF u, y
      <4> QED BY <4>1
    <3> HIDE DEF Y, x, u
    <3>4. W * (x - 1) = W * x - W /\ W * x \in Int
      BY <1>2, <1>3
    <3> QED BY <1>2, <2>1, <3>2, <3>3, <3>4
  <2>2. CASE s = u /\ u # 0
    <3>1. pending'[b][W] = x /\ pending'[b][u] = y - 1
      BY <1>0, <1>1, <1>2, <2>2, SizesAre
    <3>2. Coming(pending', b) = W * x + u * (y - 1) /\ Coming(pending, b) = W * x + u * y
      BY <2>2, <3>1 DEF Coming
    <3> HIDE DEF x, y, u
    <3>3. u * (y - 1) = u * y - u /\ u * y \in Int /\ W * x \in Int
      BY <1>2, <1>3, <2>2
    <3> QED BY <1>2, <2>2, <3>2, <3>3
  <2> QED BY <1>2, <2>1, <2>2
<1>5. \A c \in Buffers \ {b} : Coming(pending', c) = Coming(pending, c)
  BY <1>0, <1>1 DEF Coming
<1> DEFINE e == Filling(wp', zrwav', 0) - Filling(wp, zrwav, 0)
<1>6. e = 0
  <2>1. Filling(wp, zrwav, 0) \in Int
    BY <1>0, InvPlaced, FillingIsNat
  <2>2. Filling(wp', zrwav', 0) = Filling(wp, zrwav, 0)
    BY <1>1
  <2> QED BY <2>1, <2>2
<1>7. ASSUME NEW z \in Zones
      PROVE  remaining'[WriteBufferOf(z)] + Coming(pending', WriteBufferOf(z))
               + (IF WriteBufferOf(0) = WriteBufferOf(z) THEN e ELSE 0)
             <= remaining[WriteBufferOf(z)] + Coming(pending, WriteBufferOf(z))
  <2> DEFINE a == WriteBufferOf(z)
             m == remaining[a]
             t == Coming(pending, a)
  <2>1. a \in Buffers
    BY BuffersOfZone
  <2>2. m \in Int /\ t \in Int
    BY <1>0, <2>1, ComingIsInt
  <2>3. (IF WriteBufferOf(0) = a THEN e ELSE 0) = 0
    BY <1>6
  <2>4. CASE a = b
    <3>1. remaining'[a] = m + s /\ Coming(pending', a) = t - s
      BY <1>0, <1>1, <1>4, <2>4
    <3> HIDE DEF m, t, a, e
    <3>2. (m + s) + (t - s) + 0 <= m + t
      BY <1>2, <2>2
    <3> QED BY <2>3, <3>1, <3>2 DEF a, m, t
  <2>5. CASE a # b
    <3>1. remaining'[a] = m /\ Coming(pending', a) = t
      BY <1>0, <1>1, <1>5, <2>1, <2>5
    <3> HIDE DEF m, t, a, e
    <3>2. m + t + 0 <= m + t
      BY <2>2
    <3> QED BY <2>3, <3>1, <3>2 DEF a, m, t
  <2> QED BY <2>4, <2>5
<1>8. \A other \in Zones \ {0} : wp'[other] = wp[other] /\ (zrwav'[other] <=> zrwav[other])
  BY <1>1
<1> QED BY <1>0, <1>7, <1>8, SpaceStep

-----------------------------------------------------------------------------
(* The theorems.                                                           *)

(* Every address of the namespace is in a zone.                            *)
LEMMA AddressInZone ==
  ASSUME NEW x \in 0 .. nr_zones * zone_size - 1
  PROVE  x \in Nat /\ ZoneOf(x) \in Zones
<1>1. nr_zones \in Nat \ {0} /\ zone_size \in Nat \ {0} /\ nr_zones * zone_size \in Nat
  BY ZonesFinite
<1> DEFINE q == x \div zone_size
<1>2. x \in Nat /\ x < nr_zones * zone_size
  BY <1>1
<1>3. q \in Nat /\ q * zone_size <= x
  BY <1>1, <1>2
<1> HIDE DEF q
<1>4. ASSUME nr_zones - 1 < q PROVE FALSE
  <2>1. (nr_zones - 1 + 1) * zone_size <= q * zone_size
    BY <1>1, <1>3, <1>4, ProductGrows
  <2>2. nr_zones - 1 + 1 = nr_zones /\ q * zone_size \in Nat
    BY <1>1, <1>3
  <2>3. nr_zones * zone_size <= q * zone_size
    BY <2>1, <2>2
  <2> QED BY <1>1, <1>2, <1>3, <2>2, <2>3
<1>5. q <= nr_zones - 1
  BY <1>1, <1>3, <1>4
<1> QED BY <1>1, <1>2, <1>3, <1>5 DEF ZoneOf, Zones, q

(* At the start every zone is empty and every buffer full.                 *)
LEMMA InitIInv == ASSUME Init PROVE IInv
<1>1. \A S : "EMPTY" \notin S => {z \in Zones : state[z] \in S} = {}
  BY DEF Init
<1>2. In(Opened) = 0 /\ In(Active) = 0
  BY <1>1, FS_EmptySet DEF In, Opened, Active
<1>3. LiveZrwa = {} /\ Cardinality(LiveZrwa) = 0
  BY FS_EmptySet DEF Init, LiveZrwa
<1>4. acquired["OPEN_ZONE"] = 0 /\ acquired["ACTIVE_ZONE"] = 0 /\ acquired["ZRWA_ZONE"] = 0
  BY DEF Init
<1>5. ResourcesMatchStates
  BY <1>2, <1>3, <1>4 DEF ResourcesMatchStates, LiveZrwa
<1>6. WritePointerFits
  BY ZoneEnds DEF Init, WritePointerFits, Active, Opened
<1>7. acquired \in [Resources -> 0 .. nr_zones]
  BY ZonesFinite DEF Init, Resources
<1>8. ZoneInv
  BY <1>5, <1>6, <1>7, ZoneEnds DEF Init, ZoneInv, States
<1>9. remaining \in [Buffers -> Nat]
  BY ZnsAssumption DEF Init, SizeOf
<1>10. pending \in [Buffers -> [Sizes -> 0 .. MaxPending]]
  <2>1. 0 \in 0 .. MaxPending
    BY ZnsAssumption
  <2> QED BY <2>1 DEF Init
<1>11. cmd \in [Queues -> Command \cup {NoCmd}] /\ sweep \in Sweeps \cup {NoSweep} /\ halted \in BOOLEAN
  BY DEF Init
<1>12. RestInv
  BY <1>9, <1>10, <1>11 DEF RestInv
<1> QED BY <1>8, <1>12 DEF IInv

(* Each action keeps the invariant.                                        *)
LEMMA NextIInv == ASSUME IInv, [Next]_vars PROVE IInv'
<1>1. ASSUME NEW q \in Queues, Write(q) PROVE IInv'
  <2>1. UNCHANGED sweep
    BY <1>1 DEF Write
  <2>2. PICK z \in Zones, n \in 1 .. MaxLength :
          \/ \E slba \in zslba(z) .. EndOf(z) - 1 :
               zns_write(q, [op |-> "write", slba |-> slba, nr |-> n])
          \/ zns_write(q, [op |-> "append", slba |-> zslba(z), nr |-> n])
    BY <1>1 DEF Write
  <2>3. zslba(z) \in Nat /\ EndOf(z) \in Nat
    BY ZoneEnds
  <2>4. CASE \E slba \in zslba(z) .. EndOf(z) - 1 :
               zns_write(q, [op |-> "write", slba |-> slba, nr |-> n])
    <3>1. PICK slba \in zslba(z) .. EndOf(z) - 1 :
            zns_write(q, [op |-> "write", slba |-> slba, nr |-> n])
      BY <2>4
    <3>2. [op |-> "write", slba |-> slba, nr |-> n] \in Command
      BY <2>3 DEF Command
    <3> QED BY <2>1, <3>1, <3>2, WriteKeeps
  <2>5. CASE zns_write(q, [op |-> "append", slba |-> zslba(z), nr |-> n])
    <3>1. [op |-> "append", slba |-> zslba(z), nr |-> n] \in Command
      BY <2>3 DEF Command
    <3> QED BY <2>1, <2>5, <3>1, WriteKeeps
  <2> QED BY <2>2, <2>4, <2>5
<1>2. ASSUME NEW q \in Queues, Retry(q) PROVE IInv'
  <2>1. cmd[q] \in Command /\ zns_write(q, cmd[q]) /\ UNCHANGED sweep
    BY <1>2 DEF Retry, IInv, RestInv
  <2> QED BY <2>1, WriteKeeps
<1>3. ASSUME NEW q \in Queues, Manage(q) PROVE IInv'
  <2>1. UNCHANGED <<pending, cmd, sweep, halted>>
    BY <1>3 DEF Manage
  <2>2. PICK a \in Actions, slba \in 0 .. nr_zones * zone_size - 1, o \in BOOLEAN : Send(a, slba, o)
    BY <1>3 DEF Manage
  <2>3. ZoneInv' /\ remaining' \in [Buffers -> Nat]
    BY <2>2, AddressInZone, SendKeeps DEF IInv, RestInv
  <2> QED BY <2>1, <2>3 DEF IInv, RestInv
<1>4. ASSUME NEW q \in Queues, ManageAll(q) PROVE IInv'
  <2>1. UNCHANGED <<zoneVars, bufVars, cmd, halted>> /\ 0 \in Zones
    BY <1>4, ZonesFinite DEF ManageAll, Zones
  <2>2. sweep' \in Sweeps
    BY <1>4, <2>1 DEF ManageAll, Sweeps
  <2>3. ZoneInv'
    BY <2>1, ZonesUnchanged DEF IInv
  <2> QED BY <2>1, <2>2, <2>3 DEF IInv, RestInv, bufVars
<1>5. ASSUME NextZone PROVE IInv'
  <2>1. sweep \in Sweeps
    BY <1>5 DEF NextZone, IInv, RestInv
  <2>2. sweep.zid \in Zones /\ sweep.option \in BOOLEAN
    BY <2>1 DEF Sweeps
  <2>3. zslba(sweep.zid) \in Nat /\ ZoneOf(zslba(sweep.zid)) = sweep.zid
    BY <2>2, ZoneEnds, ZoneIs
  <2>4. Send(sweep.action, zslba(sweep.zid), sweep.option) /\ UNCHANGED <<pending, cmd, halted>>
    BY <1>5 DEF NextZone
  <2>5. ZoneInv' /\ remaining' \in [Buffers -> Nat]
    BY <2>2, <2>3, <2>4, SendKeeps DEF IInv, RestInv
  <2>6. sweep' \in Sweeps \cup {NoSweep}
    <3>1. CASE sweep.zid + 1 = nr_zones
      BY <1>5, <3>1 DEF NextZone
    <3>2. CASE sweep.zid + 1 # nr_zones
      <4>1. sweep.zid + 1 \in Zones
        BY <2>2, <3>2, ZonesFinite DEF Zones
      <4>2. sweep' = [sweep EXCEPT !.zid = sweep.zid + 1]
        BY <1>5, <3>2 DEF NextZone
      <4> QED BY <2>1, <4>1, <4>2 DEF Sweeps
    <3> QED BY <3>1, <3>2
  <2> QED BY <2>4, <2>5, <2>6 DEF IInv, RestInv
<1>6. ASSUME NEW b \in Buffers, NEW s \in Sizes, ReleaseBuffer(b, s) PROVE IInv'
  <2>1. s \in Nat
    BY ZnsAssumption DEF Sizes, unaligned_space
  <2>2. remaining' = [remaining EXCEPT ![b] = remaining[b] + s] /\ remaining[b] \in Nat
    BY <1>6 DEF ReleaseBuffer, IInv, RestInv
  <2>3. remaining' \in [Buffers -> Nat]
    BY <2>1, <2>2 DEF IInv, RestInv
  <2>4. pending[b][s] \in 0 .. MaxPending /\ pending[b][s] > 0 /\ MaxPending \in Nat
    BY <1>6, ZnsAssumption DEF ReleaseBuffer, IInv, RestInv
  <2>5. pending[b][s] - 1 \in 0 .. MaxPending
    BY <2>4
  <2>6. pending' = [pending EXCEPT ![b] = [pending[b] EXCEPT ![s] = pending[b][s] - 1]]
    BY <1>6 DEF ReleaseBuffer
  <2>7. pending' \in [Buffers -> [Sizes -> 0 .. MaxPending]]
    BY <2>5, <2>6 DEF IInv, RestInv
  <2>8. UNCHANGED <<zoneVars, cmd, sweep, halted>>
    BY <1>6 DEF ReleaseBuffer
  <2>9. ZoneInv'
    BY <2>8, ZonesUnchanged DEF IInv
  <2> QED BY <2>3, <2>7, <2>8, <2>9 DEF IInv, RestInv
<1>7. CASE UNCHANGED vars
  <2>1. ZoneInv'
    BY <1>7, ZonesUnchanged DEF vars, zoneVars, IInv
  <2> QED BY <1>7, <2>1 DEF vars, IInv, RestInv
<1> QED BY <1>1, <1>2, <1>3, <1>4, <1>5, <1>6, <1>7 DEF Next

(* The inductive invariant holds in every reachable state.                 *)
LEMMA Always == Spec => []IInv
<1>1. Init => IInv
  BY InitIInv
<1>2. IInv /\ [Next]_vars => IInv'
  BY NextIInv
<1> QED BY <1>1, <1>2, PTL DEF Spec

(* No count of resources and no buffer's space becomes negative or exceeds *)
(* what there is, whatever the host sends to the zones and however often a *)
(* write is tried again (zns_read_write.c, zns_mgmt_send.c).               *)
THEOREM TypeCorrect == Spec => []TypeOK
<1>1. IInv => TypeOK
  BY DEF IInv, ZoneInv, RestInv, TypeOK, Resources
<1> QED BY <1>1, Always, PTL

(* The open and active counts are those of the zone states after every     *)
(* write and every management command, for any number of zones.            *)
THEOREM ResourcesExact == Spec => []ResourcesMatchStates
<1>1. IInv => ResourcesMatchStates
  BY DEF IInv, ZoneInv
<1> QED BY <1>1, Always, PTL

(* Write pointers stay in their zones: with second tries of appends, with  *)
(* flushes of the random write area, and with zones of any size.           *)
THEOREM PointersFit == Spec => []WritePointerFits
<1>1. IInv => WritePointerFits
  BY DEF IInv, ZoneInv
<1> QED BY <1>1, Always, PTL

(* No write buffer is given back more than was taken from it: the tail of  *)
(* a zone that is no multiple of a wordline releases its own size          *)
(* (__zns_write), failing writes only lose space, and neither a reset nor  *)
(* a second try of a write adds any; for zones and buffers of any size.    *)
THEOREM SpaceNotMadeUp == Spec => []NoSpaceMadeUp
<1>1. Init => NoSpaceMadeUp
  <2> SUFFICES ASSUME Init, NEW x \in Zones
               PROVE  LET b == WriteBufferOf(x) IN
                      remaining[b] + ToCome(b) + Cardinality(PartlyFilled(b)) <= SizeOf(b)
    BY DEF NoSpaceMadeUp
  <2> DEFINE b == WriteBufferOf(x)
  <2>1. b \in Buffers /\ SizeOf(b) \in Int
    BY BuffersOfZone, ZnsAssumption DEF SizeOf
  <2>2. remaining[b] = SizeOf(b)
    BY <2>1 DEF Init
  <2>3. Coming(pending, b) = 0
    <3>1. \A s \in Sizes : pending[b][s] = 0
      BY <2>1 DEF Init
    <3>2. W * 0 = 0 /\ unaligned_space * 0 = 0
      BY SizesAre
    <3> QED BY <3>1, <3>2, SizesAre DEF Coming
  <2>4. Waiting(wp, zrwav, b) = {}
    <3>1. ASSUME NEW y \in Zones PROVE Tail(wp, y) = {}
      <4>1. wp[y] = zslba(y) /\ zslba(y) \in Nat
        BY ZoneEnds DEF Init
      <4>2. wp[y] - zslba(y) = 0 /\ 0 % W = 0
        BY <4>1, SizesAre
      <4>3. wp[y] - 0 .. wp[y] - 1 = {}
        BY <4>1
      <4> QED BY <4>2, <4>3 DEF Tail
    <3> QED BY <3>1 DEF Waiting
  <2>5. ToCome(b) = 0 /\ PartlyFilled(b) = {}
    BY <2>3, <2>4 DEF ToCome, Coming, PartlyFilled, Waiting, Tail, Waits, W
  <2> HIDE DEF b
  <2>6. remaining[b] + 0 + 0 <= SizeOf(b)
    BY <2>1, <2>2
  <2> QED BY <2>5, <2>6, FS_EmptySet DEF b
<1>2. IInv /\ IInv' /\ NoSpaceMadeUp /\ [Next]_vars => NoSpaceMadeUp'
  <2> SUFFICES ASSUME IInv, IInv', NoSpaceMadeUp, [Next]_vars PROVE NoSpaceMadeUp'
    OBVIOUS
  <2>1. ASSUME NEW q \in Queues, Write(q) PROVE NoSpaceMadeUp'
    <3>1. PICK z \in Zones, n \in 1 .. MaxLength :
            \/ \E slba \in zslba(z) .. EndOf(z) - 1 :
                 zns_write(q, [op |-> "write", slba |-> slba, nr |-> n])
            \/ zns_write(q, [op |-> "append", slba |-> zslba(z), nr |-> n])
      BY <2>1 DEF Write
    <3>2. PICK op \in {"write", "append"}, slba \in Nat : zns_write(q, [op |-> op, slba |-> slba, nr |-> n])
      <4>1. zslba(z) \in Nat /\ EndOf(z) \in Nat
        BY ZoneEnds
      <4>2. zslba(z) .. EndOf(z) - 1 \subseteq Nat
        BY <4>1
      <4> QED BY <3>1, <4>1, <4>2
    <3>3. [op |-> op, slba |-> slba, nr |-> n] \in Command
      BY DEF Command
    <3> QED BY <3>2, <3>3, WriteSpace
  <2>2. ASSUME NEW q \in Queues, Retry(q) PROVE NoSpaceMadeUp'
    <3>1. cmd[q] \in Command /\ zns_write(q, cmd[q])
      BY <2>2 DEF Retry, IInv, RestInv
    <3> QED BY <3>1, WriteSpace
  <2>3. ASSUME NEW q \in Queues, Manage(q) PROVE NoSpaceMadeUp'
    <3>1. PICK a \in Actions, slba \in 0 .. nr_zones * zone_size - 1, o \in BOOLEAN : Send(a, slba, o)
      BY <2>3 DEF Manage
    <3>2. pending' = pending
      BY <2>3 DEF Manage
    <3> QED BY <3>1, <3>2, AddressInZone, SendSpace
  <2>4. ASSUME NEW q \in Queues, ManageAll(q) PROVE NoSpaceMadeUp'
    BY <2>4, NothingMoves DEF ManageAll, zoneVars, bufVars
  <2>5. ASSUME NextZone PROVE NoSpaceMadeUp'
    <3>1. sweep \in Sweeps /\ pending' = pending
          /\ Send(sweep.action, zslba(sweep.zid), sweep.option)
      BY <2>5 DEF NextZone, IInv, RestInv
    <3>2. sweep.zid \in Zones
      BY <3>1 DEF Sweeps
    <3>3. zslba(sweep.zid) \in Nat /\ ZoneOf(zslba(sweep.zid)) \in Zones
      BY <3>2, ZoneEnds, ZoneIs
    <3> QED BY <3>1, <3>3, SendSpace
  <2>6. ASSUME NEW b \in Buffers, NEW s \in Sizes, ReleaseBuffer(b, s) PROVE NoSpaceMadeUp'
    BY <2>6, ReleaseSpace
  <2>7. CASE UNCHANGED vars
    BY <2>7, NothingMoves DEF vars
  <2> QED BY <2>1, <2>2, <2>3, <2>4, <2>5, <2>6, <2>7 DEF Next
<1>3. IInv /\ [Next]_vars => IInv'
  BY NextIInv
<1> QED BY <1>1, <1>2, <1>3, InitIInv, PTL DEF Spec

=============================================================================
