---------------------------- MODULE VictimProofs ----------------------------
(***************************************************************************)
(* The two ways to choose a victim.  For any number of lines, any vpc and  *)
(* any sequence of operations the heap keeps its order and the positions   *)
(* of its lines, and gives out a line of least vpc.  For any number of     *)
(* lines and any choice of the scale, the learning rate, the discount and  *)
(* the weight of wear, the scored scan chooses a line of highest score,    *)
(* and the values of the Q table stay in the range of the rewards, however *)
(* gc_mode changes and whatever is rounded.                                *)
(***************************************************************************)
EXTENDS PQueue, LearningAgent, Induction, SequenceTheorems

-----------------------------------------------------------------------------
(* The heap array with a hole.                                             *)

(* Heaps of N slots; the priorities are any naturals.                      *)
Heaps(N) == [d : [1 .. N -> Items], pos : [Items -> Nat]]
Priorities == [Items -> Nat]

(* But for the hole, the array holds the lines of S without x, each line   *)
(* at the slot it is told; the other lines have the positions of f.        *)
Whole(h, x, S, f, N) ==
  /\ h.q \in Heaps(N) /\ h.i \in 1 .. N
  /\ x \in S /\ S \subseteq Items
  /\ \A j \in 1 .. N : j # h.i => h.q.d[j] \in S \ {x} /\ h.q.pos[h.q.d[j]] = j
  /\ \A y \in S \ {x} : h.q.pos[y] \in (1 .. N) \ {h.i} /\ h.q.d[h.q.pos[y]] = y
  /\ \A y \in Items \ S : h.q.pos[y] = f[y]

(* The array without a hole.                                               *)
Placed(q, S, f, N) ==
  /\ q \in Heaps(N) /\ S \subseteq Items
  /\ \A j \in 1 .. N : q.d[j] \in S /\ q.pos[q.d[j]] = j
  /\ \A y \in S : q.pos[y] \in 1 .. N /\ q.d[q.pos[y]] = y
  /\ \A y \in Items \ S : q.pos[y] = f[y]

(* No line goes before its parent.                                         *)
Ordered(q, prio, N) == \A k \in 2 .. N : prio[q.d[Parent(k)]] <= prio[q.d[k]]

(* The same but for the hole, whose children do not go before its parent.  *)
Apart(h, prio, N) ==
  \A k \in 2 .. N :
    k # h.i => /\ Parent(k) # h.i => prio[h.q.d[Parent(k)]] <= prio[h.q.d[k]]
               /\ Parent(k) = h.i /\ h.i > 1 => prio[h.q.d[Parent(h.i)]] <= prio[h.q.d[k]]

(* A line of priority p may be filled in, by the parent of the hole and by *)
(* its children.                                                           *)
Above(h, prio, p) == h.i > 1 => prio[h.q.d[Parent(h.i)]] <= p
Below(h, prio, p, N) == \A k \in 2 .. N : Parent(k) = h.i => p <= prio[h.q.d[k]]

(* The slots next to a slot.                                               *)
LEMMA ParentIs ==
  ASSUME NEW i \in Nat, i > 1
  PROVE  /\ Parent(i) \in 1 .. i - 1
         /\ i = 2 * Parent(i) \/ i = 2 * Parent(i) + 1
BY DEF Parent

(* The children of a slot are the slots it is the parent of.               *)
LEMMA ChildIs ==
  ASSUME NEW i \in Nat \ {0}
  PROVE  /\ Left(i) \in Nat /\ Left(i) > i
         /\ Parent(Left(i)) = i /\ Parent(Left(i) + 1) = i
         /\ \A k \in Nat : k > 1 /\ Parent(k) = i => k = Left(i) \/ k = Left(i) + 1
<1>1. Left(i) \in Nat /\ Left(i) > i /\ Parent(Left(i)) = i /\ Parent(Left(i) + 1) = i
  BY DEF Left, Parent
<1>2. ASSUME NEW k \in Nat, k > 1, Parent(k) = i PROVE k = Left(i) \/ k = Left(i) + 1
  BY <1>2, ParentIs DEF Left
<1> QED BY <1>1, <1>2

(* A line is put into a slot and told so.                                  *)
LEMMA PutIs ==
  ASSUME NEW N \in Nat, NEW q \in Heaps(N), NEW i \in 1 .. N, NEW x \in Items
  PROVE  /\ Put(q, i, x) \in Heaps(N)
         /\ \A j \in 1 .. N : Put(q, i, x).d[j] = IF j = i THEN x ELSE q.d[j]
         /\ \A y \in Items : Put(q, i, x).pos[y] = IF y = x THEN i ELSE q.pos[y]
<1> DEFINE a == q.d
           b == q.pos
           a2 == [a EXCEPT ![i] = x]
           b2 == [b EXCEPT ![x] = i]
<1>1. a \in [1 .. N -> Items] /\ b \in [Items -> Nat]
  BY DEF Heaps
<1>2. /\ a2 \in [1 .. N -> Items] /\ b2 \in [Items -> Nat]
      /\ \A j \in 1 .. N : a2[j] = IF j = i THEN x ELSE a[j]
      /\ \A y \in Items : b2[y] = IF y = x THEN i ELSE b[y]
  BY <1>1
<1>3. Put(q, i, x) = [d |-> a2, pos |-> b2]
  BY DEF Put
<1> HIDE DEF a2, b2
<1> QED BY <1>2, <1>3 DEF Heaps

(* A turn moves the hole, and loses no line.                               *)
LEMMA ShiftWhole ==
  ASSUME NEW N \in Nat, NEW h, NEW x, NEW S, NEW f, Whole(h, x, S, f, N),
         NEW j \in 1 .. N, j # h.i
  PROVE  /\ Whole(Shift(h, j), x, S, f, N)
         /\ Shift(h, j).i = j
         /\ \A k \in 1 .. N : Shift(h, j).q.d[k] = IF k = h.i THEN h.q.d[j] ELSE h.q.d[k]
<1> DEFINE g == Shift(h, j)
           i == h.i
           y == h.q.d[j]
<1>1. h.q \in Heaps(N) /\ i \in 1 .. N /\ y \in S \ {x} /\ y \in Items /\ h.q.pos[y] = j
      /\ x \in S /\ S \subseteq Items
  BY DEF Whole
<1>2. g.q = Put(h.q, i, y) /\ g.i = j
  BY DEF Shift, Hole
<1> HIDE DEF g
<1>3. /\ g.q \in Heaps(N)
      /\ \A k \in 1 .. N : g.q.d[k] = IF k = i THEN y ELSE h.q.d[k]
      /\ \A z \in Items : g.q.pos[z] = IF z = y THEN i ELSE h.q.pos[z]
  BY <1>1, <1>2, PutIs
<1>4. ASSUME NEW k \in 1 .. N, k # j PROVE g.q.d[k] \in S \ {x} /\ g.q.pos[g.q.d[k]] = k
  <2>1. CASE k = i
    BY <1>1, <1>3, <2>1
  <2>2. CASE k # i
    <3>1. g.q.d[k] = h.q.d[k] /\ h.q.d[k] \in S \ {x} /\ h.q.pos[h.q.d[k]] = k
      BY <1>3, <2>2 DEF Whole
    <3>2. h.q.d[k] # y /\ h.q.d[k] \in Items
      BY <1>1, <1>4, <3>1
    <3> QED BY <1>3, <3>1, <3>2
  <2> QED BY <2>1, <2>2
<1>5. ASSUME NEW z \in S \ {x} PROVE g.q.pos[z] \in (1 .. N) \ {j} /\ g.q.d[g.q.pos[z]] = z
  <2>1. CASE z = y
    BY <1>1, <1>3, <2>1
  <2>2. CASE z # y
    <3>1. g.q.pos[z] = h.q.pos[z] /\ h.q.pos[z] \in (1 .. N) \ {i} /\ h.q.d[h.q.pos[z]] = z
      BY <1>1, <1>3, <2>2 DEF Whole
    <3> QED BY <1>3, <2>2, <3>1
  <2> QED BY <2>1, <2>2
<1>6. ASSUME NEW z \in Items \ S PROVE g.q.pos[z] = f[z]
  BY <1>1, <1>3 DEF Whole
<1>7. Whole(g, x, S, f, N)
  BY <1>1, <1>2, <1>3, <1>4, <1>5, <1>6 DEF Whole
<1> QED BY <1>2, <1>3, <1>7 DEF g

(* The line in the hand fills the hole.                                    *)
LEMMA FillPlaced ==
  ASSUME NEW N \in Nat, NEW h, NEW x, NEW S, NEW f, Whole(h, x, S, f, N)
  PROVE  /\ Placed(Fill(h, x), S, f, N)
         /\ \A k \in 1 .. N : Fill(h, x).d[k] = IF k = h.i THEN x ELSE h.q.d[k]
<1> DEFINE g == Fill(h, x)
           i == h.i
<1>1. h.q \in Heaps(N) /\ i \in 1 .. N /\ x \in Items /\ x \in S /\ S \subseteq Items
  BY DEF Whole
<1>2. g = Put(h.q, i, x)
  BY DEF Fill
<1> HIDE DEF g
<1>3. /\ g \in Heaps(N)
      /\ \A k \in 1 .. N : g.d[k] = IF k = i THEN x ELSE h.q.d[k]
      /\ \A z \in Items : g.pos[z] = IF z = x THEN i ELSE h.q.pos[z]
  BY <1>1, <1>2, PutIs
<1>4. ASSUME NEW k \in 1 .. N PROVE g.d[k] \in S /\ g.pos[g.d[k]] = k
  BY <1>1, <1>3 DEF Whole
<1>5. ASSUME NEW z \in S PROVE g.pos[z] \in 1 .. N /\ g.d[g.pos[z]] = z
  BY <1>1, <1>3 DEF Whole
<1>6. ASSUME NEW z \in Items \ S PROVE g.pos[z] = f[z]
  BY <1>1, <1>3 DEF Whole
<1> QED BY <1>1, <1>3, <1>4, <1>5, <1>6 DEF Placed, g

(* It is in order there if it fits above and below.                        *)
LEMMA FillOrdered ==
  ASSUME NEW N \in Nat, NEW h, NEW x, NEW S, NEW f, Whole(h, x, S, f, N),
         NEW prio \in Priorities, Apart(h, prio, N),
         Above(h, prio, prio[x]), Below(h, prio, prio[x], N)
  PROVE  Ordered(Fill(h, x), prio, N)
<1> DEFINE g == Fill(h, x)
<1>1. \A k \in 1 .. N : g.d[k] = IF k = h.i THEN x ELSE h.q.d[k]
  BY FillPlaced
<1> HIDE DEF g
<1> SUFFICES ASSUME NEW k \in 2 .. N PROVE prio[g.d[Parent(k)]] <= prio[g.d[k]]
  BY DEF Ordered, g
<1>2. Parent(k) \in 1 .. k - 1 /\ Parent(k) \in 1 .. N /\ k \in 1 .. N /\ Parent(k) # k
  BY ParentIs
<1>3. CASE k = h.i
  BY <1>1, <1>2, <1>3 DEF Above
<1>4. CASE Parent(k) = h.i
  BY <1>1, <1>2, <1>4 DEF Below
<1>5. CASE k # h.i /\ Parent(k) # h.i
  BY <1>1, <1>2, <1>5 DEF Apart
<1> QED BY <1>3, <1>4, <1>5
-----------------------------------------------------------------------------
(* The turns of the two loops.                                             *)

(* A turn of bubble_up stops at the parent, or leaves the hole higher.     *)
LEMMA ClimbTurn ==
  ASSUME NEW N \in Nat, NEW h, NEW x, NEW S, NEW f, Whole(h, x, S, f, N),
         NEW prio \in Priorities, Apart(h, prio, N), Below(h, prio, prio[x], N),
         NEW g, g = Climb(h, prio, x)
  PROVE  /\ Whole(g, x, S, f, N) /\ Apart(g, prio, N) /\ Below(g, prio, prio[x], N)
         /\ Above(h, prio, prio[x]) => g = h
         /\ ~Above(h, prio, prio[x]) => g.i \in 1 .. h.i - 1
<1> DEFINE i == h.i
           j == Parent(i)
           y == h.q.d[j]
<1>1. i \in 1 .. N /\ x \in Items /\ h.q.d \in [1 .. N -> Items]
  BY DEF Whole, Heaps
<1>2. i > 1 => j \in 1 .. i - 1 /\ j \in 1 .. N /\ j # i
  BY <1>1, ParentIs
<1>3. \A z \in Items : prio[z] \in Nat
  BY DEF Priorities
<1>4. CASE Above(h, prio, prio[x])
  <2>1. g = h
    BY <1>1, <1>2, <1>3, <1>4 DEF Above, Climb, CmpPri
  <2> QED BY <1>4, <2>1
<1>5. CASE ~Above(h, prio, prio[x])
  <2>1. i > 1 /\ prio[y] > prio[x] /\ g = Shift(h, j)
    BY <1>1, <1>2, <1>3, <1>5 DEF Above, Climb, CmpPri
  <2>2. /\ Whole(g, x, S, f, N) /\ g.i = j
        /\ \A k \in 1 .. N : g.q.d[k] = IF k = i THEN y ELSE h.q.d[k]
    BY <1>2, <2>1, ShiftWhole
  <2>3. ASSUME NEW k \in 2 .. N
        PROVE  /\ k \in 1 .. N /\ Parent(k) \in 1 .. N /\ Parent(k) < k
               /\ prio[h.q.d[k]] \in Nat /\ prio[h.q.d[Parent(k)]] \in Nat
    <3>1. k \in 1 .. N /\ Parent(k) \in 1 .. N /\ Parent(k) < k
      BY ParentIs
    <3> QED BY <1>1, <1>3, <3>1
  <2>4. j > 1 => prio[h.q.d[Parent(j)]] <= prio[y] /\ Parent(j) \in 1 .. N /\ Parent(j) < j
    BY <1>2, <2>1, <2>3 DEF Apart
  <2>5. ASSUME NEW k \in 2 .. N, k # j
        PROVE  /\ Parent(k) # j => prio[g.q.d[Parent(k)]] <= prio[g.q.d[k]]
               /\ Parent(k) = j => prio[y] <= prio[g.q.d[k]] /\ prio[x] <= prio[g.q.d[k]]
    <3>1. CASE k = i
      <4>1. g.q.d[k] = y /\ Parent(k) = j
        BY <1>1, <2>2, <3>1
      <4>2. prio[y] \in Nat /\ prio[x] \in Nat
        BY <1>1, <1>2, <1>3, <2>1
      <4> QED BY <2>1, <4>1, <4>2
    <3>2. CASE Parent(k) = i
      BY <1>2, <2>1, <2>2, <2>3, <2>5, <3>2 DEF Apart
    <3>3. CASE k # i /\ Parent(k) # i
      <4>1. prio[h.q.d[Parent(k)]] <= prio[h.q.d[k]]
        BY <3>3 DEF Apart
      <4>2. g.q.d[k] = h.q.d[k] /\ g.q.d[Parent(k)] = h.q.d[Parent(k)]
        BY <2>2, <2>3, <3>3
      <4> QED BY <1>1, <1>3, <2>1, <2>3, <4>1, <4>2
    <3> QED BY <3>1, <3>2, <3>3
  <2>6. ASSUME NEW k \in 2 .. N, k # j, Parent(k) = j, j > 1
        PROVE  prio[g.q.d[Parent(j)]] <= prio[g.q.d[k]]
    <3>1. g.q.d[Parent(j)] = h.q.d[Parent(j)]
      BY <1>2, <2>1, <2>2, <2>4, <2>6
    <3>2. prio[y] <= prio[g.q.d[k]] /\ prio[h.q.d[Parent(j)]] <= prio[y]
      BY <2>4, <2>5, <2>6
    <3>3. g.q.d[k] \in Items /\ y \in Items /\ h.q.d[Parent(j)] \in Items
      BY <1>1, <1>2, <2>1, <2>2, <2>3, <2>4, <2>6
    <3> QED BY <1>3, <3>1, <3>2, <3>3
  <2>7. Apart(g, prio, N)
    BY <2>2, <2>5, <2>6 DEF Apart
  <2>8. Below(g, prio, prio[x], N)
    <3>1. \A k \in 2 .. N : Parent(k) = j => k # j
      BY <2>3
    <3> QED BY <2>2, <2>5, <3>1 DEF Below
  <2> QED BY <1>2, <1>5, <2>1, <2>2, <2>7, <2>8
<1> QED BY <1>4, <1>5

(* maxchild, for a slot in the array.                                      *)
LEMMA MaxChildIs ==
  ASSUME NEW N \in Nat, NEW q \in Heaps(N), NEW prio \in Priorities, NEW i \in 1 .. N,
         NEW c, c = MaxChild(q, prio, i)
  PROVE  /\ c = 0 => \A k \in 2 .. N : Parent(k) # i
         /\ c # 0 => /\ c \in 2 .. N /\ c > i /\ Parent(c) = i
                     /\ \A k \in 2 .. N : Parent(k) = i => prio[q.d[c]] <= prio[q.d[k]]
<1> DEFINE l == Left(i)
<1>1. q.d \in [1 .. N -> Items] /\ Len(q.d) = N
  <2>1. q.d \in [1 .. N -> Items]
    BY DEF Heaps
  <2> QED BY <2>1
<1>2. \A k \in 1 .. N : prio[q.d[k]] \in Nat
  BY <1>1 DEF Priorities
<1>3. /\ l \in Nat /\ l > i /\ Parent(l) = i /\ Parent(l + 1) = i
      /\ \A k \in Nat : k > 1 /\ Parent(k) = i => k = l \/ k = l + 1
  BY ChildIs
<1>4. c = IF l > N THEN 0
          ELSE IF l + 1 <= N /\ prio[q.d[l]] > prio[q.d[l + 1]] THEN l + 1 ELSE l
  BY <1>1 DEF MaxChild, CmpPri
<1> HIDE DEF l
<1>5. CASE l > N
  BY <1>3, <1>4, <1>5
<1>6. CASE l <= N
  <2>1. c # 0 /\ c \in 2 .. N /\ c > i /\ Parent(c) = i
    BY <1>3, <1>4, <1>6
  <2>2. ASSUME NEW k \in 2 .. N, Parent(k) = i PROVE prio[q.d[c]] <= prio[q.d[k]]
    <3>1. k = l \/ k = l + 1
      BY <1>3, <2>2
    <3>2. l \in 1 .. N /\ prio[q.d[l]] \in Nat
      BY <1>2, <1>3, <1>6
    <3>3. CASE k = l
      <4>1. l + 1 <= N => prio[q.d[l + 1]] \in Nat
        BY <1>2, <1>3
      <4> QED BY <1>4, <1>6, <3>2, <3>3, <4>1
    <3>4. CASE k = l + 1
      <4>1. l + 1 <= N /\ prio[q.d[l + 1]] \in Nat
        BY <1>2, <1>3, <3>4
      <4>2. c = IF prio[q.d[l]] > prio[q.d[k]] THEN k ELSE l
        BY <1>3, <1>4, <1>6, <3>4, <4>1
      <4> QED BY <3>2, <3>4, <4>1, <4>2
    <3> QED BY <3>1, <3>3, <3>4
  <2> QED BY <2>1, <2>2
<1> QED BY <1>3, <1>5, <1>6

(* A turn of percolate_down stops at the children, or leaves the hole lower. *)
LEMMA SinkTurn ==
  ASSUME NEW N \in Nat, NEW h, NEW x, NEW S, NEW f, Whole(h, x, S, f, N),
         NEW prio \in Priorities, Apart(h, prio, N), Above(h, prio, prio[x]),
         NEW g, g = Sink(h, prio, x)
  PROVE  /\ Whole(g, x, S, f, N) /\ Apart(g, prio, N) /\ Above(g, prio, prio[x])
         /\ Below(h, prio, prio[x], N) => g = h
         /\ ~Below(h, prio, prio[x], N) => g.i \in h.i + 1 .. N
<1> DEFINE i == h.i
           c == MaxChild(h.q, prio, i)
           y == h.q.d[c]
<1>1. i \in 1 .. N /\ x \in Items /\ h.q \in Heaps(N) /\ h.q.d \in [1 .. N -> Items]
  BY DEF Whole, Heaps
<1>2. /\ c = 0 => \A k \in 2 .. N : Parent(k) # i
      /\ c # 0 => /\ c \in 2 .. N /\ c > i /\ Parent(c) = i
                  /\ \A k \in 2 .. N : Parent(k) = i => prio[y] <= prio[h.q.d[k]]
  BY <1>1, MaxChildIs
<1>3. \A z \in Items : prio[z] \in Nat
  BY DEF Priorities
<1>4. g = IF c # 0 /\ prio[x] > prio[y] THEN Shift(h, c) ELSE h
  BY DEF Sink, CmpPri
<1> HIDE DEF c
<1>5. ASSUME NEW k \in 2 .. N
      PROVE  /\ k \in 1 .. N /\ Parent(k) \in 1 .. N /\ Parent(k) < k
             /\ prio[h.q.d[k]] \in Nat /\ prio[h.q.d[Parent(k)]] \in Nat
  <2>1. k \in 1 .. N /\ Parent(k) \in 1 .. N /\ Parent(k) < k
    BY ParentIs
  <2> QED BY <1>1, <1>3, <2>1
<1>6. CASE c # 0 /\ prio[x] > prio[y]
  <2>1. c \in 2 .. N /\ c \in 1 .. N /\ c > i /\ Parent(c) = i /\ g = Shift(h, c)
    BY <1>2, <1>4, <1>6
  <2>2. /\ Whole(g, x, S, f, N) /\ g.i = c
        /\ \A k \in 1 .. N : g.q.d[k] = IF k = i THEN y ELSE h.q.d[k]
    BY <1>1, <2>1, ShiftWhole
  <2>3. ASSUME NEW k \in 2 .. N, k # c, Parent(k) # c
        PROVE  prio[g.q.d[Parent(k)]] <= prio[g.q.d[k]]
    <3>1. CASE k = i
      <4>1. prio[h.q.d[Parent(i)]] <= prio[y]
        BY <1>1, <2>1, <3>1 DEF Apart
      <4>2. g.q.d[i] = y /\ g.q.d[Parent(k)] = h.q.d[Parent(i)]
        BY <1>5, <2>2, <3>1
      <4> QED BY <3>1, <4>1, <4>2
    <3>2. CASE Parent(k) = i
      <4>1. g.q.d[k] = h.q.d[k] /\ g.q.d[Parent(k)] = y
        BY <1>5, <2>2, <3>2
      <4> QED BY <1>2, <2>1, <3>2, <4>1
    <3>3. CASE k # i /\ Parent(k) # i
      <4>1. prio[h.q.d[Parent(k)]] <= prio[h.q.d[k]]
        BY <3>3 DEF Apart
      <4>2. g.q.d[k] = h.q.d[k] /\ g.q.d[Parent(k)] = h.q.d[Parent(k)]
        BY <1>5, <2>2, <3>3
      <4> QED BY <4>1, <4>2
    <3> QED BY <3>1, <3>2, <3>3
  <2>4. ASSUME NEW k \in 2 .. N, Parent(k) = c
        PROVE  prio[g.q.d[Parent(c)]] <= prio[g.q.d[k]]
    <3>1. k # i /\ k # c /\ Parent(k) # i
      BY <1>5, <2>1, <2>4
    <3>2. prio[y] <= prio[h.q.d[k]]
      BY <2>4, <3>1 DEF Apart
    <3>3. g.q.d[i] = y /\ g.q.d[k] = h.q.d[k]
      BY <1>1, <1>5, <2>2, <3>1
    <3> QED BY <2>1, <3>2, <3>3
  <2>5. Apart(g, prio, N)
    BY <2>2, <2>3, <2>4 DEF Apart
  <2>6. Above(g, prio, prio[x])
    <3>1. g.q.d[Parent(c)] = y
      BY <1>1, <2>1, <2>2
    <3>2. prio[y] <= prio[x]
      BY <1>1, <1>3, <1>6, <2>1
    <3> QED BY <2>2, <3>1, <3>2 DEF Above
  <2>7. ~Below(h, prio, prio[x], N)
    <3>1. prio[y] \in Nat /\ prio[x] \in Nat
      BY <1>1, <1>3, <2>1
    <3> QED BY <1>6, <2>1, <3>1 DEF Below
  <2> QED BY <1>1, <2>1, <2>2, <2>5, <2>6, <2>7
<1>7. CASE ~(c # 0 /\ prio[x] > prio[y])
  <2>1. Below(h, prio, prio[x], N)
    <3> SUFFICES ASSUME NEW k \in 2 .. N, Parent(k) = i PROVE prio[x] <= prio[h.q.d[k]]
      BY DEF Below
    <3>1. c # 0 /\ c \in 2 .. N /\ prio[y] <= prio[h.q.d[k]]
      BY <1>2
    <3>2. prio[y] \in Nat /\ prio[x] \in Nat /\ prio[h.q.d[k]] \in Nat
      BY <1>1, <1>3, <1>5, <3>1
    <3> QED BY <1>7, <3>1, <3>2
  <2> QED BY <1>4, <1>7, <2>1
<1> QED BY <1>6, <1>7

-----------------------------------------------------------------------------
(* The loops: a turn is taken m times, from a first hole.                  *)

Turn(h, prio, x, up) == IF up THEN Climb(h, prio, x) ELSE Sink(h, prio, x)
Turns(hole, first, prio, x, up, m) ==
  hole = [n \in 0 .. m |-> IF n = 0 THEN first ELSE Turn(hole[n - 1], prio, x, up)]

(* The recursive function of a loop exists, so CHOOSE has it.              *)
LEMMA TurnsExist ==
  ASSUME NEW first, NEW prio, NEW x, NEW up, NEW m \in Nat
  PROVE  \E hole : Turns(hole, first, prio, x, up, m)
<1> DEFINE T == {k \in 0 .. m : \E hole : Turns(hole, first, prio, x, up, k)}
<1>1. 0 \in T
  <2> DEFINE e == [n \in 0 .. 0 |-> first]
  <2>1. Turns(e, first, prio, x, up, 0)
    BY DEF Turns
  <2> HIDE DEF e
  <2> QED BY <2>1
<1>2. ASSUME NEW k \in 0 .. m - 1, k \in T PROVE k + 1 \in T
  <2>1. PICK e : Turns(e, first, prio, x, up, k)
    BY <1>2
  <2> DEFINE g == [n \in 0 .. k + 1 |-> IF n = k + 1 THEN Turn(e[k], prio, x, up) ELSE e[n]]
  <2>2. e[0] = first /\ \A n \in 1 .. k : e[n] = Turn(e[n - 1], prio, x, up)
    BY <2>1 DEF Turns
  <2>3. \A n \in 0 .. k : g[n] = e[n]
    OBVIOUS
  <2>4. g[k + 1] = Turn(e[k], prio, x, up)
    OBVIOUS
  <2>5. g = [n \in 0 .. k + 1 |-> g[n]]
    OBVIOUS
  <2> HIDE DEF g
  <2>6. ASSUME NEW n \in 0 .. k + 1
        PROVE  g[n] = IF n = 0 THEN first ELSE Turn(g[n - 1], prio, x, up)
    <3>1. CASE n = 0
      BY <2>2, <2>3, <3>1
    <3>2. CASE n \in 1 .. k
      <4>1. n # 0 /\ n - 1 \in 0 .. k /\ n \in 0 .. k
        BY <3>2
      <4> QED BY <2>2, <2>3, <3>2, <4>1
    <3>3. CASE n = k + 1
      <4>1. n # 0 /\ n - 1 = k /\ k \in 0 .. k
        BY <3>3
      <4> QED BY <2>3, <2>4, <3>3, <4>1
    <3> QED BY <3>1, <3>2, <3>3
  <2>7. Turns(g, first, prio, x, up, k + 1)
    BY <2>5, <2>6 DEF Turns
  <2> QED BY <2>7
<1> HIDE DEF T
<1>3. m \in T
  <2>1. m \in 0 .. m
    OBVIOUS
  <2> QED BY <1>1, <1>2, <2>1, InductionTo
<1> QED BY <1>3 DEF T

(* bubble_up of a line that does not go after the children of its slot.    *)
LEMMA BubbleUpRepairs ==
  ASSUME NEW N \in Nat, NEW q, NEW i, NEW x, NEW S, NEW f, Whole(Hole(q, i), x, S, f, N),
         NEW prio \in Priorities, Apart(Hole(q, i), prio, N),
         Below(Hole(q, i), prio, prio[x], N)
  PROVE  /\ Placed(BubbleUp(q, prio, i, x), S, f, N)
         /\ Ordered(BubbleUp(q, prio, i, x), prio, N)
<1> DEFINE F(e) == [n \in 0 .. i |-> IF n = 0 THEN Hole(q, i) ELSE Climb(e[n - 1], prio, x)]
           hole == CHOOSE e : e = F(e)
<1>1. BubbleUp(q, prio, i, x) = Fill(hole[i], x)
  BY DEF BubbleUp
<1>2. i \in 1 .. N /\ i \in Nat
  BY DEF Whole, Hole
<1>3. hole = F(hole)
  <2>1. PICK e : Turns(e, Hole(q, i), prio, x, TRUE, i)
    BY <1>2, TurnsExist
  <2>2. e = F(e)
    BY <2>1 DEF Turns, Turn
  <2> HIDE DEF F
  <2> QED BY <2>2
<1> HIDE DEF hole
<1>4. hole[0] = Hole(q, i) /\ \A n \in 0 .. i - 1 : hole[n + 1] = Climb(hole[n], prio, x)
  <2>1. hole[0] = Hole(q, i)
    BY <1>2, <1>3
  <2>2. ASSUME NEW n \in 0 .. i - 1 PROVE hole[n + 1] = Climb(hole[n], prio, x)
    <3>1. n + 1 \in 0 .. i /\ n + 1 # 0 /\ (n + 1) - 1 = n
      BY <1>2
    <3> QED BY <1>3, <3>1
  <2> QED BY <2>1, <2>2
<1> DEFINE Good(h, n) == /\ Whole(h, x, S, f, N) /\ Apart(h, prio, N)
                         /\ Below(h, prio, prio[x], N)
                         /\ Above(h, prio, prio[x]) \/ h.i <= i - n
           T == {n \in 0 .. i : Good(hole[n], n)}
<1>5. 0 \in T
  BY <1>2, <1>4 DEF Hole
<1>6. ASSUME NEW n \in 0 .. i - 1, n \in T PROVE n + 1 \in T
  <2> DEFINE h == hole[n]
             g == hole[n + 1]
  <2>1. Good(h, n) /\ g = Climb(h, prio, x)
    BY <1>4, <1>6
  <2> HIDE DEF h, g
  <2>2. /\ Whole(g, x, S, f, N) /\ Apart(g, prio, N) /\ Below(g, prio, prio[x], N)
        /\ Above(h, prio, prio[x]) => g = h
        /\ ~Above(h, prio, prio[x]) => g.i \in 1 .. h.i - 1
    BY <2>1, ClimbTurn
  <2>3. h.i \in 1 .. N /\ g.i \in 1 .. N
    BY <2>1, <2>2 DEF Whole
  <2>4. Good(g, n + 1)
    <3>1. CASE Above(h, prio, prio[x])
      BY <2>1, <2>2, <3>1
    <3>2. CASE ~Above(h, prio, prio[x])
      <4>1. g.i < h.i /\ h.i <= i - n
        BY <2>1, <2>2, <2>3, <3>2
      <4>2. g.i <= i - (n + 1)
        BY <1>2, <2>3, <4>1
      <4> QED BY <2>2, <4>2
    <3> QED BY <3>1, <3>2
  <2>5. n + 1 \in 0 .. i
    BY <1>2
  <2> QED BY <2>4, <2>5 DEF g
<1> HIDE DEF T
<1>7. i \in T
  <2>1. i \in 0 .. i
    BY <1>2
  <2> QED BY <1>2, <1>5, <1>6, <2>1, InductionTo
<1> DEFINE h == hole[i]
<1>8. Good(h, i)
  BY <1>7 DEF T
<1> HIDE DEF h
<1>9. Above(h, prio, prio[x])
  <2>1. h.i \in 1 .. N
    BY <1>8 DEF Whole
  <2>2. ~(h.i <= i - i)
    BY <1>2, <2>1
  <2> QED BY <1>8, <2>2
<1>10. Placed(Fill(h, x), S, f, N) /\ Ordered(Fill(h, x), prio, N)
  BY <1>8, <1>9, FillPlaced, FillOrdered
<1> QED BY <1>1, <1>10 DEF h

(* percolate_down of a line that does not go before the parent of its slot. *)
LEMMA PercolateDownRepairs ==
  ASSUME NEW N \in Nat, NEW q, NEW i, NEW x, NEW S, NEW f, Whole(Hole(q, i), x, S, f, N),
         NEW prio \in Priorities, Apart(Hole(q, i), prio, N),
         Above(Hole(q, i), prio, prio[x])
  PROVE  /\ Placed(PercolateDown(q, prio, i, x), S, f, N)
         /\ Ordered(PercolateDown(q, prio, i, x), prio, N)
<1> DEFINE F(e) == [n \in 0 .. N |-> IF n = 0 THEN Hole(q, i) ELSE Sink(e[n - 1], prio, x)]
           hole == CHOOSE e : e = F(e)
<1>1. PercolateDown(q, prio, i, x) = Fill(hole[N], x)
  <2>1. q.d \in [1 .. N -> Items]
    BY DEF Whole, Hole, Heaps
  <2>2. Len(q.d) = N
    BY <2>1
  <2> QED BY <2>2 DEF PercolateDown
<1>2. i \in 1 .. N /\ i \in Nat
  BY DEF Whole, Hole
<1>3. hole = F(hole)
  <2>1. PICK e : Turns(e, Hole(q, i), prio, x, FALSE, N)
    BY TurnsExist
  <2>2. e = F(e)
    BY <2>1 DEF Turns, Turn
  <2> HIDE DEF F
  <2> QED BY <2>2
<1> HIDE DEF hole
<1>4. hole[0] = Hole(q, i) /\ \A n \in 0 .. N - 1 : hole[n + 1] = Sink(hole[n], prio, x)
  <2>1. hole[0] = Hole(q, i)
    BY <1>3
  <2>2. ASSUME NEW n \in 0 .. N - 1 PROVE hole[n + 1] = Sink(hole[n], prio, x)
    <3>1. n + 1 \in 0 .. N /\ n + 1 # 0 /\ (n + 1) - 1 = n
      OBVIOUS
    <3> QED BY <1>3, <3>1
  <2> QED BY <2>1, <2>2
<1> DEFINE Good(h, n) == /\ Whole(h, x, S, f, N) /\ Apart(h, prio, N)
                         /\ Above(h, prio, prio[x])
                         /\ Below(h, prio, prio[x], N) \/ h.i >= i + n
           T == {n \in 0 .. N : Good(hole[n], n)}
<1>5. 0 \in T
  BY <1>2, <1>4 DEF Hole
<1>6. ASSUME NEW n \in 0 .. N - 1, n \in T PROVE n + 1 \in T
  <2> DEFINE h == hole[n]
             g == hole[n + 1]
  <2>1. Good(h, n) /\ g = Sink(h, prio, x)
    BY <1>4, <1>6
  <2> HIDE DEF h, g
  <2>2. /\ Whole(g, x, S, f, N) /\ Apart(g, prio, N) /\ Above(g, prio, prio[x])
        /\ Below(h, prio, prio[x], N) => g = h
        /\ ~Below(h, prio, prio[x], N) => g.i \in h.i + 1 .. N
    BY <2>1, SinkTurn
  <2>3. h.i \in 1 .. N /\ g.i \in 1 .. N
    BY <2>1, <2>2 DEF Whole
  <2>4. Good(g, n + 1)
    <3>1. CASE Below(h, prio, prio[x], N)
      BY <2>1, <2>2, <3>1
    <3>2. CASE ~Below(h, prio, prio[x], N)
      <4>1. g.i > h.i /\ h.i >= i + n
        BY <2>1, <2>2, <2>3, <3>2
      <4>2. g.i >= i + (n + 1)
        BY <1>2, <2>3, <4>1
      <4> QED BY <2>2, <4>2
    <3> QED BY <3>1, <3>2
  <2>5. n + 1 \in 0 .. N
    OBVIOUS
  <2> QED BY <2>4, <2>5 DEF g
<1> HIDE DEF T
<1>7. N \in T
  <2>1. N \in 0 .. N
    OBVIOUS
  <2> QED BY <1>5, <1>6, <2>1, InductionTo
<1> DEFINE h == hole[N]
<1>8. Good(h, N)
  BY <1>7 DEF T
<1> HIDE DEF h
<1>9. Below(h, prio, prio[x], N)
  <2>1. h.i \in 1 .. N
    BY <1>8 DEF Whole
  <2>2. ~(h.i >= i + N)
    BY <1>2, <2>1
  <2> QED BY <1>8, <2>2
<1>10. Placed(Fill(h, x), S, f, N) /\ Ordered(Fill(h, x), prio, N)
  BY <1>8, <1>9, FillPlaced, FillOrdered
<1> QED BY <1>1, <1>10 DEF h

(* The two ways of pqueue_change_priority and pqueue_remove.               *)
LEMMA RepairRepairs ==
  ASSUME NEW N \in Nat, NEW q, NEW i, NEW x, NEW S, NEW f, Whole(Hole(q, i), x, S, f, N),
         NEW prio \in Priorities, Apart(Hole(q, i), prio, N), NEW old, NEW new,
         CmpPri(old, new) => Below(Hole(q, i), prio, prio[x], N),
         ~CmpPri(old, new) => Above(Hole(q, i), prio, prio[x])
  PROVE  /\ Placed(Repair(q, prio, i, x, old, new), S, f, N)
         /\ Ordered(Repair(q, prio, i, x, old, new), prio, N)
<1>1. CASE CmpPri(old, new)
  BY <1>1, BubbleUpRepairs DEF Repair
<1>2. CASE ~CmpPri(old, new)
  BY <1>2, PercolateDownRepairs DEF Repair
<1> QED BY <1>1, <1>2

-----------------------------------------------------------------------------
(* What the operations leave to repair.                                    *)

(* In an ordered array a slot is made a hole and the last slots dropped:   *)
(* the line of the slot fits, a smaller one by its children, a greater one *)
(* by its parent.                                                          *)
LEMMA HoleInOrder ==
  ASSUME NEW N \in Nat, NEW q \in Heaps(N), NEW prio \in Priorities, Ordered(q, prio, N),
         NEW M \in 0 .. N, NEW r \in Heaps(M), NEW i \in 1 .. M, NEW new \in Priorities,
         \A j \in 1 .. M : j # i => new[r.d[j]] = prio[q.d[j]]
  PROVE  /\ Apart(Hole(r, i), new, M)
         /\ \A p \in Nat : /\ p <= prio[q.d[i]] => Below(Hole(r, i), new, p, M)
                           /\ p >= prio[q.d[i]] => Above(Hole(r, i), new, p)
<1>1. \A k \in 1 .. N : prio[q.d[k]] \in Nat
  BY DEF Heaps, Priorities
<1>2. \A k \in 2 .. M : /\ k \in 1 .. M /\ k \in 1 .. N /\ k \in 2 .. N
                        /\ Parent(k) \in 1 .. M /\ Parent(k) \in 1 .. N /\ Parent(k) < k
  BY ParentIs
<1>3. i > 1 => i \in 2 .. M /\ i \in 2 .. N
  OBVIOUS
<1>4. \A k \in 2 .. M : prio[q.d[Parent(k)]] <= prio[q.d[k]]
  BY <1>2 DEF Ordered
<1>5. Hole(r, i).q = r /\ Hole(r, i).i = i
  BY DEF Hole
<1>6. ASSUME NEW k \in 2 .. M, k # i
      PROVE  /\ Parent(k) # i => new[r.d[Parent(k)]] <= new[r.d[k]]
             /\ Parent(k) = i /\ i > 1 => new[r.d[Parent(i)]] <= new[r.d[k]]
  <2>1. new[r.d[k]] = prio[q.d[k]] /\ k \in 1 .. N
    BY <1>2, <1>6
  <2>2. CASE Parent(k) # i
    <3>1. new[r.d[Parent(k)]] = prio[q.d[Parent(k)]]
      BY <1>2, <2>2
    <3> QED BY <1>4, <2>1, <2>2, <3>1
  <2>3. CASE Parent(k) = i /\ i > 1
    <3>1. /\ i \in 2 .. M /\ i \in 1 .. N /\ Parent(i) # i
          /\ Parent(i) \in 1 .. M /\ Parent(i) \in 1 .. N
      BY <1>2, <1>3, <2>3
    <3>2. new[r.d[Parent(i)]] = prio[q.d[Parent(i)]]
      BY <3>1
    <3>3. prio[q.d[Parent(i)]] <= prio[q.d[i]] /\ prio[q.d[i]] <= prio[q.d[k]]
      BY <1>4, <2>3, <3>1
    <3>4. prio[q.d[Parent(i)]] \in Nat /\ prio[q.d[i]] \in Nat /\ prio[q.d[k]] \in Nat
      BY <1>1, <2>1, <3>1
    <3> QED BY <2>1, <2>3, <3>2, <3>3, <3>4
  <2> QED BY <2>2, <2>3
<1>7. Apart(Hole(r, i), new, M)
  BY <1>5, <1>6 DEF Apart
<1>8. ASSUME NEW p \in Nat, p <= prio[q.d[i]] PROVE Below(Hole(r, i), new, p, M)
  <2> SUFFICES ASSUME NEW k \in 2 .. M, Parent(k) = i PROVE p <= new[r.d[k]]
    BY <1>5 DEF Below
  <2>1. new[r.d[k]] = prio[q.d[k]] /\ prio[q.d[i]] <= prio[q.d[k]] /\ i \in 1 .. N /\ k \in 1 .. N
    BY <1>2, <1>4
  <2> QED BY <1>1, <1>8, <2>1
<1>9. ASSUME NEW p \in Nat, p >= prio[q.d[i]] PROVE Above(Hole(r, i), new, p)
  <2> SUFFICES ASSUME i > 1 PROVE new[r.d[Parent(i)]] <= p
    BY <1>5 DEF Above
  <2>1. /\ new[r.d[Parent(i)]] = prio[q.d[Parent(i)]] /\ prio[q.d[Parent(i)]] <= prio[q.d[i]]
        /\ i \in 1 .. N /\ Parent(i) \in 1 .. N
    BY <1>2, <1>3, <1>4
  <2> QED BY <1>1, <1>9, <2>1
<1> QED BY <1>7, <1>8, <1>9

(* The line of slot i is lifted out of the array.                          *)
LEMMA Lifted ==
  ASSUME NEW N \in Nat, NEW q, NEW S, NEW f, Placed(q, S, f, N), NEW i \in 1 .. N
  PROVE  Whole(Hole(q, i), q.d[i], S, f, N)
<1>1. Hole(q, i).q = q /\ Hole(q, i).i = i
  BY DEF Hole
<1>2. q.d[i] \in S /\ q.pos[q.d[i]] = i
  BY DEF Placed
<1>3. ASSUME NEW j \in 1 .. N, j # i PROVE q.d[j] \in S \ {q.d[i]} /\ q.pos[q.d[j]] = j
  BY <1>2, <1>3 DEF Placed
<1>4. ASSUME NEW y \in S \ {q.d[i]} PROVE q.pos[y] \in (1 .. N) \ {i} /\ q.d[q.pos[y]] = y
  BY DEF Placed
<1> QED BY <1>1, <1>2, <1>3, <1>4 DEF Placed, Whole

(* Arrays as sequences.                                                    *)
LEMMA ArrayIs ==
  ASSUME NEW N \in Nat, NEW s \in [1 .. N -> Items]
  PROVE  s \in Seq(Items) /\ Len(s) = N
BY SeqDef

(* A line is appended: the slot behind the last one is the hole.           *)
LEMMA Appended ==
  ASSUME NEW N \in Nat, NEW q, NEW S, NEW f, Placed(q, S, f, N),
         NEW x \in Items, x \notin S, NEW T, T = S \cup {x},
         NEW M \in Nat, M = N + 1,
         NEW r, r = [d |-> Append(q.d, x), pos |-> q.pos]
  PROVE  Whole(Hole(r, M), x, T, f, M)
<1> DEFINE h == Hole(r, M)
<1>1. q.d \in [1 .. N -> Items] /\ q.pos \in [Items -> Nat] /\ S \subseteq Items
  BY DEF Placed, Heaps
<1>2. h.q = r /\ h.i = M /\ r.pos = q.pos /\ r.d = Append(q.d, x)
  BY DEF Hole
<1> HIDE DEF h
<1>3. q.d \in Seq(Items) /\ Len(q.d) = N
  BY <1>1, ArrayIs
<1>4. r.d \in [1 .. M -> Items] /\ \A j \in 1 .. N : r.d[j] = q.d[j]
  <2>1. r.d \in Seq(Items) /\ Len(r.d) = M /\ \A j \in 1 .. N : r.d[j] = q.d[j]
    BY <1>2, <1>3, AppendProperties
  <2> QED BY <2>1, LenProperties
<1>5. h.q \in Heaps(M) /\ h.i \in 1 .. M /\ x \in T /\ T \subseteq Items
  BY <1>1, <1>2, <1>4 DEF Heaps
<1>6. ASSUME NEW j \in 1 .. M, j # h.i
      PROVE  h.q.d[j] \in T \ {x} /\ h.q.pos[h.q.d[j]] = j
  <2>1. j \in 1 .. N
    BY <1>2, <1>6
  <2> QED BY <1>2, <1>4, <2>1 DEF Placed
<1>7. ASSUME NEW y \in T \ {x}
      PROVE  h.q.pos[y] \in (1 .. M) \ {h.i} /\ h.q.d[h.q.pos[y]] = y
  <2>1. q.pos[y] \in 1 .. N /\ q.d[q.pos[y]] = y
    BY DEF Placed
  <2>2. q.pos[y] \in (1 .. M) \ {M}
    BY <2>1
  <2> QED BY <1>2, <1>4, <2>1, <2>2
<1>8. \A y \in Items \ T : h.q.pos[y] = f[y]
  BY <1>2 DEF Placed
<1>9. Whole(h, x, T, f, M)
  BY <1>5, <1>6, <1>7, <1>8 DEF Whole
<1> QED BY <1>9 DEF h

(* MoveLastTo, of any heap.                                                *)
Moved(q, i, N) == [d |-> SubSeq([q.d EXCEPT ![i] = q.d[N]], 1, N - 1), pos |-> q.pos]

(* The line of slot i has left: the last line is held over slot i, unless  *)
(* it was this line itself.                                                *)
WithoutLine(q, i, N, r, T, g, M) ==
  /\ r \in Heaps(M)
  /\ \A j \in 1 .. M : r.d[j] = IF j = i THEN q.d[N] ELSE q.d[j]
  /\ i # N => i \in 1 .. M /\ Whole(Hole(r, i), q.d[N], T, g, M)
  /\ i = N => Placed(r, T, g, M)

(* MoveLastTo does this, to the array and to the set of its lines.         *)
LEMMA MovedIs ==
  ASSUME NEW N \in Nat \ {0}, NEW q, NEW S, NEW f, Placed(q, S, f, N), NEW i \in 1 .. N,
         NEW r, r = Moved(q, i, N), NEW T, T = S \ {q.d[i]}, NEW g,
         NEW M \in Nat, M = N - 1,
         \A y \in Items \ S : g[y] = f[y], g[q.d[i]] = q.pos[q.d[i]]
  PROVE  WithoutLine(q, i, N, r, T, g, M)
<1>1. M \in Nat /\ q.d \in [1 .. N -> Items] /\ q.pos \in [Items -> Nat]
  BY DEF Placed, Heaps
<1> DEFINE s == [q.d EXCEPT ![i] = q.d[N]]
           x == q.d[i]
           y == q.d[N]
<1>2. s \in [1 .. N -> Items] /\ \A j \in 1 .. N : s[j] = IF j = i THEN y ELSE q.d[j]
  BY <1>1
<1>3. r.pos = q.pos /\ r.d = SubSeq(s, 1, M)
  BY DEF Moved
<1> HIDE DEF s
<1>4. r.d \in [1 .. M -> Items] /\ \A j \in 1 .. M : r.d[j] = s[j]
  <2>1. \A j \in 1 .. M : s[j] \in Items
    BY <1>2
  <2>2. /\ r.d \in Seq(Items) /\ Len(r.d) = M
        /\ \A j \in 1 .. M - 1 + 1 : r.d[j] = s[1 + j - 1]
    <3>1. /\ SubSeq(s, 1, M) \in Seq(Items)
          /\ Len(SubSeq(s, 1, M)) = IF 1 <= M THEN M - 1 + 1 ELSE 0
          /\ \A j \in 1 .. M - 1 + 1 : SubSeq(s, 1, M)[j] = s[1 + j - 1]
      BY <1>1, <2>1, SubSeqProperties
    <3> QED BY <1>1, <1>3, <3>1
  <2>3. \A j \in 1 .. M : r.d[j] = s[j]
    <3> TAKE j \in 1 .. M
    <3>1. j \in 1 .. M - 1 + 1 /\ 1 + j - 1 = j
      BY <1>1
    <3> QED BY <2>2, <3>1
  <2> QED BY <2>2, <2>3, LenProperties
<1>5. r \in Heaps(M)
  BY <1>1, <1>3, <1>4 DEF Heaps, Moved
<1>6. \A j \in 1 .. M : r.d[j] = IF j = i THEN y ELSE q.d[j]
  BY <1>2, <1>4
<1>7. /\ x \in S /\ y \in S /\ q.pos[x] = i /\ q.pos[y] = N /\ S \subseteq Items
      /\ N \in 1 .. N
  BY DEF Placed
<1>8. ASSUME NEW j \in 1 .. M, j # i PROVE r.d[j] \in T \ {y} /\ r.pos[r.d[j]] = j
  <2>1. j \in 1 .. N /\ r.d[j] = q.d[j]
    BY <1>6, <1>8
  <2>2. q.d[j] \in S /\ q.pos[q.d[j]] = j
    BY <2>1 DEF Placed
  <2>3. q.d[j] # x /\ q.d[j] # y
    BY <1>7, <1>8, <2>2
  <2> QED BY <1>3, <2>1, <2>2, <2>3
<1>9. ASSUME NEW z \in T \ {y} PROVE r.pos[z] \in (1 .. M) \ {i} /\ r.d[r.pos[z]] = z
  <2>1. z \in S /\ z # x /\ q.pos[z] \in 1 .. N /\ q.d[q.pos[z]] = z
    BY DEF Placed
  <2>2. q.pos[z] # N /\ q.pos[z] # i
    BY <1>9, <2>1
  <2>3. q.pos[z] \in 1 .. M
    BY <2>1, <2>2
  <2> QED BY <1>3, <1>6, <2>1, <2>2, <2>3
<1>10. \A z \in Items \ T : r.pos[z] = g[z]
  BY <1>3 DEF Placed
<1>11. ASSUME i # N PROVE i \in 1 .. M /\ Whole(Hole(r, i), y, T, g, M)
  <2>1. i \in 1 .. M /\ y # x
    BY <1>7, <1>11
  <2>2. Hole(r, i).q = r /\ Hole(r, i).i = i
    BY DEF Hole
  <2>3. y \in T /\ T \subseteq Items
    BY <1>7, <2>1
  <2> QED BY <1>5, <1>8, <1>9, <1>10, <2>1, <2>2, <2>3 DEF Whole
<1>12. ASSUME i = N PROVE Placed(r, T, g, M)
  <2>1. y = x /\ y \notin T /\ T \ {y} = T /\ T \subseteq Items
    BY <1>7, <1>12
  <2>2. \A j \in 1 .. M : j # i
    BY <1>12
  <2>3. ASSUME NEW j \in 1 .. M PROVE r.d[j] \in T /\ r.pos[r.d[j]] = j
    BY <1>8, <2>1, <2>2
  <2>4. ASSUME NEW z \in T PROVE r.pos[z] \in 1 .. M /\ r.d[r.pos[z]] = z
    BY <1>9, <2>1
  <2> QED BY <1>5, <1>10, <2>1, <2>3, <2>4 DEF Placed
<1> QED BY <1>5, <1>6, <1>11, <1>12 DEF WithoutLine

-----------------------------------------------------------------------------
(* The steps.                                                              *)

(* The inductive invariant of the heap.                                    *)
PQInv ==
  /\ d \in Seq(Items) /\ pos \in [Items -> Nat] /\ pri \in [Items -> Pris]
  /\ PositionsExact /\ HeapOrder

Zero == [y \in Items |-> 0]
State == [d |-> d, pos |-> pos]

(* The vpc of the model's bound are priorities.                            *)
LEMMA Prioritised == ASSUME NEW f \in [Items -> Pris] PROVE f \in Priorities
BY PriAssumption DEF Pris, Priorities

(* The queue between two operations, in the words of the lemmas above.     *)
LEMMA StateIsHeap ==
  ASSUME PQInv
  PROVE  /\ Len(d) \in Nat /\ d \in [1 .. Len(d) -> Items]
         /\ Placed(State, Queued, Zero, Len(d)) /\ Ordered(State, pri, Len(d))
         /\ State \in Heaps(Len(d))
         /\ State.d = d /\ State.pos = pos
         /\ pri \in Priorities
<1> DEFINE N == Len(d)
<1>1. N \in Nat /\ d \in [1 .. N -> Items] /\ DOMAIN d = 1 .. N /\ pri \in [Items -> Pris]
      /\ pos \in [Items -> Nat]
  BY LenProperties DEF PQInv
<1>2. State.d = d /\ State.pos = pos
  BY DEF State
<1>3. State \in Heaps(N)
  BY <1>1 DEF State, Heaps
<1>4. pri \in Priorities
  BY <1>1, Prioritised
<1> HIDE DEF N
<1>5. Queued = {d[i] : i \in 1 .. N}
  BY <1>1 DEF Queued
<1>6. Queued \subseteq Items
  BY <1>1, <1>5
<1>7. ASSUME NEW j \in 1 .. N PROVE d[j] \in Queued /\ pos[d[j]] = j
  BY <1>1, <1>5 DEF PQInv, PositionsExact
<1>8. \A y \in Items : IF y \in Queued THEN pos[y] \in 1 .. N /\ d[pos[y]] = y ELSE pos[y] = 0
  BY <1>5, <1>7 DEF PQInv, PositionsExact
<1>9. Placed(State, Queued, Zero, N)
  BY <1>2, <1>3, <1>6, <1>7, <1>8 DEF Placed, Zero
<1>10. Ordered(State, pri, N)
  <2> SUFFICES ASSUME NEW k \in 2 .. N PROVE pri[d[Parent(k)]] <= pri[d[k]]
    BY <1>2 DEF Ordered
  <2>1. Parent(k) \in 1 .. N /\ k \in 1 .. N
    BY <1>1, ParentIs
  <2>2. pri[d[Parent(k)]] \in Nat /\ pri[d[k]] \in Nat
    BY <1>1, <1>4, <2>1 DEF Priorities
  <2>3. ~(pri[d[Parent(k)]] > pri[d[k]])
    BY DEF PQInv, HeapOrder, CmpPri, N
  <2> QED BY <2>2, <2>3
<1> QED BY <1>1, <1>2, <1>3, <1>4, <1>9, <1>10 DEF N

(* What a repaired heap is to the state after the step.                    *)
LEMMA Settled ==
  ASSUME NEW N \in Nat, NEW q, NEW S, Placed(q, S, Zero, N),
         pri' \in [Items -> Pris], Ordered(q, pri', N),
         d' = q.d, pos' = q.pos
  PROVE  PQInv' /\ Queued' = S
<1>1. d' \in [1 .. N -> Items] /\ pos' \in [Items -> Nat] /\ S \subseteq Items
  BY DEF Placed, Heaps
<1>2. d' \in Seq(Items) /\ Len(d') = N /\ DOMAIN d' = 1 .. N
  <2>1. d' \in Seq(Items) /\ Len(d') = N
    BY <1>1, ArrayIs
  <2> QED BY <1>1, <2>1
<1>3. \A j \in 1 .. N : d'[j] \in S /\ pos'[d'[j]] = j
  BY DEF Placed
<1>4. \A y \in S : pos'[y] \in 1 .. N /\ d'[pos'[y]] = y
  BY DEF Placed
<1>5. \A y \in Items \ S : pos'[y] = 0
  BY DEF Placed, Zero
<1>6. Queued' = S
  <2>1. Queued' = {d'[i] : i \in 1 .. N}
    BY <1>2 DEF Queued
  <2> QED BY <1>3, <1>4, <2>1
<1>7. PositionsExact'
  BY <1>2, <1>3, <1>5, <1>6 DEF PositionsExact
<1>8. HeapOrder'
  <2> SUFFICES ASSUME NEW k \in 2 .. N PROVE ~(pri'[d'[Parent(k)]] > pri'[d'[k]])
    BY <1>2 DEF HeapOrder, CmpPri
  <2>1. pri'[d'[Parent(k)]] <= pri'[d'[k]]
    BY DEF Ordered
  <2>2. Parent(k) \in 1 .. N /\ k \in 1 .. N
    BY ParentIs
  <2>3. pri'[d'[Parent(k)]] \in Nat /\ pri'[d'[k]] \in Nat
    BY <1>1, <2>2, Prioritised DEF Priorities
  <2> QED BY <2>1, <2>3
<1> QED BY <1>1, <1>2, <1>6, <1>7, <1>8 DEF PQInv

(* The line that left is told that it is in no slot.                       *)
LEMMA Cleared ==
  ASSUME NEW N \in Nat, NEW q, NEW S, NEW f, Placed(q, S, f, N), NEW x \in Items, x \notin S,
         \A y \in Items \ S : y # x => f[y] = 0
  PROVE  Placed([d |-> q.d, pos |-> [q.pos EXCEPT ![x] = 0]], S, Zero, N)
<1> DEFINE b == [q.pos EXCEPT ![x] = 0]
           r == [d |-> q.d, pos |-> b]
<1>1. q.d \in [1 .. N -> Items] /\ q.pos \in [Items -> Nat] /\ S \subseteq Items
  BY DEF Placed, Heaps
<1>2. b \in [Items -> Nat] /\ \A y \in Items : b[y] = IF y = x THEN 0 ELSE q.pos[y]
  BY <1>1
<1> HIDE DEF b
<1>3. r \in Heaps(N) /\ r.d = q.d /\ r.pos = b
  BY <1>1, <1>2 DEF Heaps
<1> HIDE DEF r
<1>4. \A j \in 1 .. N : r.d[j] \in S /\ r.pos[r.d[j]] = j
  BY <1>1, <1>2, <1>3 DEF Placed
<1>5. \A y \in S : r.pos[y] \in 1 .. N /\ r.d[r.pos[y]] = y
  BY <1>1, <1>2, <1>3 DEF Placed
<1>6. \A y \in Items \ S : r.pos[y] = Zero[y]
  BY <1>2, <1>3 DEF Placed, Zero
<1>7. Placed(r, S, Zero, N)
  BY <1>1, <1>3, <1>4, <1>5, <1>6 DEF Placed
<1> QED BY <1>7 DEF r, b


(* The empty queue.                                                       *)
LEMMA InitPQInv == ASSUME PQInit PROVE PQInv /\ Queued = {}
<1>1. d = <<>> /\ pos = [x \in Items |-> 0] /\ pri \in [Items -> Pris]
  BY DEF PQInit
<1>2. d \in Seq(Items) /\ Len(d) = 0 /\ DOMAIN d = {}
  BY <1>1
<1>3. Queued = {}
  BY <1>2 DEF Queued
<1>4. PositionsExact
  BY <1>1, <1>2, <1>3 DEF PositionsExact
<1> QED BY <1>1, <1>2, <1>3, <1>4 DEF PQInv, HeapOrder

(* pqueue_insert.                                                          *)
LEMMA InsertStep ==
  ASSUME PQInv, NEW x \in Items, NEW p \in Pris, Insert(x, p)
  PROVE  PQInv' /\ x \notin Queued /\ Queued' = Queued \cup {x}
<1> DEFINE N == Len(d)
           M == N + 1
           r == [d |-> Append(State.d, x), pos |-> State.pos]
           q == BubbleUp(r, pri', M, x)
           S == Queued \cup {x}
<1>1. /\ N \in Nat /\ Placed(State, Queued, Zero, N) /\ Ordered(State, pri, N)
      /\ State.d = d /\ State.pos = pos /\ pri \in [Items -> Pris] /\ pri \in Priorities
      /\ Queued \subseteq Items
  BY StateIsHeap DEF PQInv, Placed
<1>2. /\ pos[x] = 0 /\ pri' = [pri EXCEPT ![x] = p] /\ d' = q.d /\ pos' = q.pos
  BY <1>1 DEF Insert, Becomes
<1>3. x \notin Queued
  <2>1. ASSUME x \in Queued PROVE FALSE
    <3>1. pos[x] \in 1 .. N
      BY <1>1, <2>1 DEF Placed
    <3> QED BY <1>1, <1>2, <3>1
  <2> QED BY <2>1
<1>4. pri' \in [Items -> Pris] /\ \A y \in Items : y # x => pri'[y] = pri[y]
  BY <1>1, <1>2
<1>5. pri' \in Priorities
  BY <1>4, Prioritised
<1> HIDE DEF N, M, r
<1>6. /\ Whole(Hole(r, M), x, S, Zero, M)
      /\ \A j \in 1 .. N : r.d[j] = d[j]
  <2>1. M \in Nat /\ M = N + 1
    BY <1>1 DEF M
  <2>2. r = [d |-> Append(State.d, x), pos |-> State.pos]
    BY DEF r
  <2> HIDE DEF S
  <2>3. S = Queued \cup {x}
    BY DEF S
  <2>4. Whole(Hole(r, M), x, S, Zero, M)
    BY <1>1, <1>3, <2>1, <2>2, <2>3, Appended
  <2>5. d \in Seq(Items) /\ r.d = Append(d, x)
    BY <1>1, <2>2 DEF PQInv
  <2>6. \A j \in 1 .. N : r.d[j] = d[j]
    BY <2>5, AppendProperties DEF N
  <2> QED BY <2>4, <2>6
<1>7. Hole(r, M).q = r /\ Hole(r, M).i = M
  BY DEF Hole
<1>8. ASSUME NEW k \in 2 .. M
      PROVE  /\ Parent(k) # M
             /\ k # M => pri'[r.d[Parent(k)]] <= pri'[r.d[k]]
  <2>1. Parent(k) \in 1 .. k - 1
    BY <1>1, ParentIs DEF M
  <2>2. ASSUME k # M PROVE pri'[r.d[Parent(k)]] <= pri'[r.d[k]]
    <3>1. k \in 2 .. N /\ k \in 1 .. N /\ Parent(k) \in 1 .. N
      BY <1>1, <2>1, <2>2 DEF M
    <3>2. pri[d[Parent(k)]] <= pri[d[k]]
      BY <1>1, <3>1 DEF Ordered
    <3>3. d[k] \in Queued /\ d[Parent(k)] \in Queued
      BY <1>1, <3>1 DEF Placed
    <3>4. pri'[d[k]] = pri[d[k]] /\ pri'[d[Parent(k)]] = pri[d[Parent(k)]]
      BY <1>1, <1>3, <1>4, <3>3
    <3> QED BY <1>6, <3>1, <3>2, <3>4
  <2> QED BY <1>1, <2>1, <2>2 DEF M
<1>9. Apart(Hole(r, M), pri', M) /\ Below(Hole(r, M), pri', pri'[x], M)
  BY <1>7, <1>8 DEF Apart, Below
<1>10. M \in Nat
  BY <1>1 DEF M
<1>11. Placed(q, S, Zero, M) /\ Ordered(q, pri', M)
  BY <1>5, <1>6, <1>9, <1>10, BubbleUpRepairs
<1> HIDE DEF q, S
<1>12. PQInv' /\ Queued' = S
  BY <1>2, <1>4, <1>10, <1>11, Settled
<1> QED BY <1>3, <1>12 DEF S

(* pqueue_change_priority.                                                 *)
LEMMA ChangePriorityStep ==
  ASSUME PQInv, NEW x \in Items, NEW p \in Pris, ChangePriority(x, p)
  PROVE  PQInv' /\ x \in Queued /\ Queued' = Queued
<1> DEFINE N == Len(d)
           i == pos[x]
           q == Repair(State, pri', i, x, pri[x], p)
<1>1. /\ N \in Nat /\ Placed(State, Queued, Zero, N) /\ Ordered(State, pri, N)
      /\ State \in Heaps(N)
      /\ State.d = d /\ State.pos = pos /\ pri \in [Items -> Pris] /\ pri \in Priorities
  BY StateIsHeap DEF PQInv
<1>2. i # 0 /\ pri' = [pri EXCEPT ![x] = p] /\ d' = q.d /\ pos' = q.pos
  BY DEF ChangePriority, Becomes, State
<1>3. x \in Queued /\ i \in 1 .. N /\ d[i] = x
  <2>1. x \in Queued
    BY <1>1, <1>2 DEF Placed, Zero
  <2> QED BY <1>1, <2>1 DEF Placed
<1>4. /\ pri' \in [Items -> Pris] /\ pri'[x] = p /\ pri[x] \in Pris
      /\ \A y \in Items : y # x => pri'[y] = pri[y]
  BY <1>1, <1>2
<1>5. pri' \in Priorities /\ p \in Nat /\ pri[x] \in Nat
  BY <1>4, Prioritised, PriAssumption DEF Pris
<1> HIDE DEF N, i
<1>6. Whole(Hole(State, i), x, Queued, Zero, N)
  BY <1>1, <1>3, Lifted
<1>7. \A j \in 1 .. N : j # i => pri'[State.d[j]] = pri[State.d[j]]
  <2> SUFFICES ASSUME NEW j \in 1 .. N, j # i PROVE pri'[d[j]] = pri[d[j]]
    BY <1>1
  <2>1. d[j] \in Items /\ pos[d[j]] = j /\ pos[x] = i
    BY <1>1, <1>3 DEF Placed, i
  <2> QED BY <1>4, <2>1
<1>8. /\ Apart(Hole(State, i), pri', N)
      /\ p <= pri[x] => Below(Hole(State, i), pri', p, N)
      /\ p >= pri[x] => Above(Hole(State, i), pri', p)
  <2>1. N \in 0 .. N
    BY <1>1
  <2>2. /\ Apart(Hole(State, i), pri', N)
        /\ \A a \in Nat : /\ a <= pri[State.d[i]] => Below(Hole(State, i), pri', a, N)
                          /\ a >= pri[State.d[i]] => Above(Hole(State, i), pri', a)
    BY <1>1, <1>3, <1>5, <1>7, <2>1, HoleInOrder
  <2> QED BY <1>1, <1>3, <1>5, <2>2
<1>9. Placed(q, Queued, Zero, N) /\ Ordered(q, pri', N)
  <2>1. /\ CmpPri(pri[x], p) => Below(Hole(State, i), pri', pri'[x], N)
        /\ ~CmpPri(pri[x], p) => Above(Hole(State, i), pri', pri'[x])
    BY <1>4, <1>5, <1>8 DEF CmpPri
  <2> QED BY <1>1, <1>5, <1>6, <1>8, <2>1, RepairRepairs
<1> HIDE DEF q
<1>10. PQInv' /\ Queued' = Queued
  BY <1>1, <1>2, <1>4, <1>9, Settled
<1> QED BY <1>3, <1>10

(* Both ways out of the queue: q is what the repair of slot i makes of the *)
(* array without the line x.                                               *)
LEMMA LeaveStep ==
  ASSUME PQInv, pri' = pri, NEW i \in 1 .. Len(d), NEW x, x = d[i], NEW q,
         i = Len(d) => q = MoveLastTo(i),
         i # Len(d) => \/ q = Repair(MoveLastTo(i), pri, i, d[Len(d)], pri[x], pri[d[Len(d)]])
                       \/ i = 1 /\ q = PercolateDown(MoveLastTo(i), pri, i, d[Len(d)]),
         BecomesWithout(q, x)
  PROVE  PQInv' /\ x \in Queued /\ Queued' = Queued \ {x}
<1> DEFINE N == Len(d)
           M == N - 1
           r == Moved(State, i, N)
           T == Queued \ {x}
           g == [Zero EXCEPT ![x] = pos[x]]
           y == d[N]
           z == [d |-> q.d, pos |-> [q.pos EXCEPT ![x] = 0]]
<1>1. /\ N \in Nat /\ Placed(State, Queued, Zero, N) /\ Ordered(State, pri, N)
      /\ State \in Heaps(N) /\ Queued \subseteq Items
      /\ State.d = d /\ State.pos = pos /\ pri \in [Items -> Pris] /\ pri \in Priorities
  BY StateIsHeap DEF PQInv, Placed
<1>2. N \in Nat \ {0} /\ i \in 1 .. N
  BY <1>1
<1>3. x \in Queued /\ x \in Items /\ y \in Items /\ pri[x] \in Nat /\ pri[y] \in Nat
  <2>1. x \in Queued /\ x \in Items /\ y \in Items
    BY <1>1, <1>2 DEF Placed
  <2> QED BY <1>1, <2>1 DEF Priorities
<1>4. g[x] = pos[x] /\ \A e \in Items : e # x => g[e] = 0 /\ Zero[e] = 0
  BY <1>3 DEF Zero
<1>5. MoveLastTo(i) = r
  BY <1>1 DEF MoveLastTo, Moved
<1>6. d' = z.d /\ pos' = z.pos
  BY DEF BecomesWithout
<1> HIDE DEF N, M, r, g, y, z
<1>7. /\ r \in Heaps(M)
      /\ \A j \in 1 .. M : r.d[j] = IF j = i THEN y ELSE d[j]
      /\ i # N => i \in 1 .. M /\ Whole(Hole(r, i), y, T, g, M)
      /\ i = N => Placed(r, T, g, M)
  <2>1. /\ \A e \in Items \ Queued : g[e] = Zero[e]
        /\ g[State.d[i]] = State.pos[State.d[i]] /\ T = Queued \ {State.d[i]}
    BY <1>1, <1>3, <1>4
  <2>2. /\ r \in Heaps(M)
        /\ \A j \in 1 .. M : r.d[j] = IF j = i THEN State.d[N] ELSE State.d[j]
        /\ i # N => i \in 1 .. M /\ Whole(Hole(r, i), State.d[N], T, g, M)
        /\ i = N => Placed(r, T, g, M)
    <3>1. r = Moved(State, i, N) /\ M \in Nat /\ M = N - 1
      BY <1>2 DEF r, M
    <3> HIDE DEF T
    <3>2. WithoutLine(State, i, N, r, T, g, M)
      BY <1>1, <1>2, <2>1, <3>1, MovedIs
    <3> QED BY <3>2 DEF WithoutLine
  <2> QED BY <1>1, <2>2 DEF y
<1>8. Placed(q, T, g, M) /\ Ordered(q, pri, M)
  <2>1. CASE i = N
    <3>1. q = r /\ Placed(r, T, g, M)
      BY <1>5, <1>7, <2>1 DEF N
    <3>2. Ordered(r, pri, M)
      <4> SUFFICES ASSUME NEW k \in 2 .. M PROVE pri[r.d[Parent(k)]] <= pri[r.d[k]]
        BY DEF Ordered
      <4>1. Parent(k) \in 1 .. M /\ Parent(k) # i /\ k \in 1 .. M /\ k # i /\ k \in 2 .. N
        BY <1>2, <2>1, ParentIs DEF M
      <4>2. r.d[k] = d[k] /\ r.d[Parent(k)] = d[Parent(k)]
        BY <1>7, <4>1
      <4> QED BY <1>1, <4>1, <4>2 DEF Ordered
    <3> QED BY <3>1, <3>2
  <2>2. CASE i # N
    <3>1. i \in 1 .. M /\ Whole(Hole(r, i), y, T, g, M)
      BY <1>7, <2>2
    <3>2. M \in Nat /\ M \in 0 .. N
      BY <1>2 DEF M
    <3>3. \A j \in 1 .. M : j # i => pri[r.d[j]] = pri[State.d[j]]
      BY <1>1, <1>7
    <3>4. /\ Apart(Hole(r, i), pri, M)
          /\ \A a \in Nat : /\ a <= pri[State.d[i]] => Below(Hole(r, i), pri, a, M)
                            /\ a >= pri[State.d[i]] => Above(Hole(r, i), pri, a)
      BY <1>1, <1>7, <3>1, <3>2, <3>3, HoleInOrder
    <3>5. /\ CmpPri(pri[x], pri[y]) => Below(Hole(r, i), pri, pri[y], M)
          /\ ~CmpPri(pri[x], pri[y]) => Above(Hole(r, i), pri, pri[y])
      BY <1>1, <1>3, <3>4 DEF CmpPri
    <3>6. CASE q = Repair(r, pri, i, y, pri[x], pri[y])
      BY <1>1, <3>1, <3>2, <3>4, <3>5, <3>6, RepairRepairs
    <3>7. CASE i = 1 /\ q = PercolateDown(r, pri, i, y)
      <4>1. Above(Hole(r, i), pri, pri[y])
        BY <3>7 DEF Above, Hole
      <4> QED BY <1>1, <3>1, <3>2, <3>4, <3>7, <4>1, PercolateDownRepairs
    <3> QED BY <1>5, <2>2, <3>6, <3>7 DEF N, y
  <2> QED BY <2>1, <2>2
<1> HIDE DEF T
<1>9. M \in Nat /\ x \notin T /\ \A e \in Items \ T : e # x => g[e] = 0
  BY <1>2, <1>4 DEF T, M
<1>10. Placed(z, T, Zero, M) /\ z.d = q.d
  BY <1>3, <1>8, <1>9, Cleared DEF z
<1>11. pri' \in [Items -> Pris] /\ Ordered(z, pri', M)
  BY <1>1, <1>8, <1>10 DEF Ordered
<1>12. PQInv' /\ Queued' = T
  BY <1>6, <1>9, <1>10, <1>11, Settled
<1> QED BY <1>3, <1>12 DEF T

(* pqueue_remove.                                                          *)
LEMMA RemoveStep ==
  ASSUME PQInv, NEW x \in Items, Remove(x)
  PROVE  PQInv' /\ x \in Queued /\ Queued' = Queued \ {x}
<1> DEFINE i == pos[x]
           y == d[Len(d)]
           r == MoveLastTo(i)
           q == IF i = Len(d) THEN r ELSE Repair(r, pri, i, y, pri[x], pri[y])
<1>1. i # 0 /\ BecomesWithout(q, x) /\ pri' = pri
  BY DEF Remove
<1>2. i \in 1 .. Len(d) /\ x = d[i]
  <2>1. x \in Queued
    BY <1>1 DEF PQInv, PositionsExact
  <2>2. Placed(State, Queued, Zero, Len(d)) /\ State.d = d /\ State.pos = pos
    BY StateIsHeap
  <2> QED BY <2>1, <2>2 DEF Placed
<1>3. /\ i = Len(d) => q = r
      /\ i # Len(d) => q = Repair(r, pri, i, y, pri[x], pri[y])
  OBVIOUS
<1> HIDE DEF i, r, q
<1> QED BY <1>1, <1>2, <1>3, LeaveStep DEF r

(* The root goes before every line.                                        *)
LEMMA RootLeast ==
  ASSUME NEW N \in Nat, NEW q \in Heaps(N), NEW prio \in Priorities, Ordered(q, prio, N),
         NEW j \in 1 .. N
  PROVE  prio[q.d[1]] <= prio[q.d[j]]
<1> DEFINE T == {k \in 0 .. N : \A a \in 1 .. k : prio[q.d[1]] <= prio[q.d[a]]}
<1>1. \A k \in 1 .. N : prio[q.d[k]] \in Nat
  BY DEF Heaps, Priorities
<1>2. 0 \in T
  OBVIOUS
<1>3. ASSUME NEW k \in 0 .. N - 1, k \in T PROVE k + 1 \in T
  <2>1. k + 1 \in 0 .. N /\ k + 1 \in 1 .. N
    OBVIOUS
  <2>2. prio[q.d[1]] <= prio[q.d[k + 1]]
    <3>1. CASE k = 0
      <4>1. k + 1 = 1 /\ 1 \in 1 .. N
        BY <3>1
      <4>2. prio[q.d[1]] \in Nat
        BY <1>1, <4>1
      <4> QED BY <4>1, <4>2
    <3>2. CASE k # 0
      <4> DEFINE a == Parent(k + 1)
      <4>1. k + 1 \in 2 .. N /\ a \in 1 .. k /\ a \in 1 .. N /\ 1 \in 1 .. N
        <5>1. k + 1 \in Nat /\ k + 1 > 1 /\ (k + 1) - 1 = k
          BY <3>2
        <5>2. a \in 1 .. (k + 1) - 1
          BY <5>1, ParentIs
        <5> QED BY <3>2, <5>1, <5>2
      <4>2. prio[q.d[a]] <= prio[q.d[k + 1]] /\ prio[q.d[1]] <= prio[q.d[a]]
        BY <1>3, <4>1 DEF Ordered
      <4>3. prio[q.d[a]] \in Nat /\ prio[q.d[k + 1]] \in Nat /\ prio[q.d[1]] \in Nat
        BY <1>1, <2>1, <4>1
      <4> QED BY <4>2, <4>3
    <3> QED BY <3>1, <3>2
  <2> QED BY <1>3, <2>1, <2>2
<1> HIDE DEF T
<1>4. N \in T
  <2>1. N \in 0 .. N
    OBVIOUS
  <2> QED BY <1>2, <1>3, <2>1, InductionTo
<1> QED BY <1>4 DEF T

(* pqueue_pop: what leaves is a line of least vpc.                         *)
LEMMA PopStep ==
  ASSUME PQInv, Pop
  PROVE  /\ PQInv' /\ d[1] \in Queued /\ Queued' = Queued \ {d[1]}
         /\ \A y \in Queued : pri[d[1]] <= pri[y]
<1> DEFINE r == MoveLastTo(1)
           q == IF Len(d) = 1 THEN r ELSE PercolateDown(r, pri, 1, d[Len(d)])
<1>1. d # <<>> /\ BecomesWithout(q, d[1]) /\ pri' = pri
  BY DEF Pop
<1>2. 1 \in 1 .. Len(d)
  <2>1. d \in Seq(Items)
    BY DEF PQInv
  <2> QED BY <1>1, <2>1
<1>3. /\ 1 = Len(d) => q = r
      /\ 1 # Len(d) => 1 = 1 /\ q = PercolateDown(r, pri, 1, d[Len(d)])
  OBVIOUS
<1> HIDE DEF r, q
<1>4. PQInv' /\ d[1] \in Queued /\ Queued' = Queued \ {d[1]}
  BY <1>1, <1>2, <1>3, LeaveStep DEF r
<1>5. ASSUME NEW y \in Queued PROVE pri[d[1]] <= pri[y]
  <2>1. /\ Len(d) \in Nat /\ Placed(State, Queued, Zero, Len(d)) /\ Ordered(State, pri, Len(d))
        /\ State \in Heaps(Len(d)) /\ State.d = d /\ State.pos = pos /\ pri \in Priorities
    BY StateIsHeap
  <2>2. pos[y] \in 1 .. Len(d) /\ d[pos[y]] = y
    BY <2>1 DEF Placed
  <2>3. pri[State.d[1]] <= pri[State.d[pos[y]]]
    BY <2>1, <2>2, RootLeast
  <2> QED BY <2>1, <2>2, <2>3
<1> QED BY <1>4, <1>5

-----------------------------------------------------------------------------
(* The results.                                                            *)

(* A step keeps the invariant, and is a step of the victim queue.          *)
LEMMA StepRefines ==
  ASSUME PQInv, [PQNext]_pqVars
  PROVE  PQInv' /\ [Abstract!Next]_(Abstract!vars)
<1>1. ASSUME NEW x \in Items, NEW p \in Pris, Insert(x, p)
      PROVE  PQInv' /\ Abstract!Next
  <2>1. PQInv' /\ x \notin Queued /\ Queued' = Queued \cup {x}
    BY <1>1, InsertStep
  <2>2. Abstract!Insert(x, p)
    BY <1>1, <2>1 DEF Insert, Abstract!Insert
  <2> QED BY <2>1, <2>2 DEF Abstract!Next
<1>2. ASSUME NEW x \in Items, NEW p \in Pris, ChangePriority(x, p)
      PROVE  PQInv' /\ Abstract!Next
  <2>1. PQInv' /\ x \in Queued /\ Queued' = Queued
    BY <1>2, ChangePriorityStep
  <2>2. Abstract!ChangePriority(x, p)
    BY <1>2, <2>1 DEF ChangePriority, Abstract!ChangePriority
  <2> QED BY <2>1, <2>2 DEF Abstract!Next
<1>3. ASSUME NEW x \in Items, Remove(x)
      PROVE  PQInv' /\ Abstract!Next
  <2>1. PQInv' /\ x \in Queued /\ Queued' = Queued \ {x}
    BY <1>3, RemoveStep
  <2>2. Abstract!Remove(x)
    BY <1>3, <2>1 DEF Remove, Abstract!Remove
  <2> QED BY <2>1, <2>2 DEF Abstract!Next
<1>4. ASSUME Pop PROVE PQInv' /\ Abstract!Next
  <2>1. /\ PQInv' /\ d[1] \in Queued /\ Queued' = Queued \ {d[1]}
        /\ \A y \in Queued : pri[d[1]] <= pri[y]
    BY <1>4, PopStep
  <2>2. popped' = d[1] /\ pri' = pri
    BY <1>4 DEF Pop
  <2>3. Abstract!Pop
    BY <2>1, <2>2 DEF Abstract!Pop, Leq
  <2> QED BY <2>1, <2>3 DEF Abstract!Next
<1>5. ASSUME UNCHANGED pqVars PROVE PQInv' /\ UNCHANGED Abstract!vars
  <2>1. d' = d /\ pos' = pos /\ pri' = pri /\ popped' = popped
    BY <1>5 DEF pqVars
  <2>2. Queued' = Queued
    BY <2>1 DEF Queued
  <2> QED BY <2>1, <2>2
          DEF PQInv, PositionsExact, HeapOrder, Abstract!vars
<1> QED BY <1>1, <1>2, <1>3, <1>4, <1>5 DEF PQNext

(* The inductive invariant holds in every state.                           *)
LEMMA PQAlways == PQSpec => []PQInv
<1>1. PQInit => PQInv
  BY InitPQInv
<1>2. PQInv /\ [PQNext]_pqVars => PQInv'
  BY StepRefines
<1> QED BY <1>1, <1>2, PTL DEF PQSpec

(* The line is where its position says, after any number of inserts,       *)
(* changes, removals and pops of any number of lines: mark_page_invalid    *)
(* and select_victim_scored reach it in one step.                          *)
THEOREM PositionsStayExact == PQSpec => []PositionsExact
<1>1. PQInv => PositionsExact
  BY DEF PQInv
<1> QED BY <1>1, PQAlways, PTL

(* No line goes before its parent between two operations, whichever way    *)
(* the changed slot was repaired.                                          *)
THEOREM HeapStaysOrdered == PQSpec => []HeapOrder
<1>1. PQInv => HeapOrder
  BY DEF PQInv
<1> QED BY <1>1, PQAlways, PTL

(* The heap implements the victim queue: no line is lost or duplicated,    *)
(* and select_victim_greedy gets a line of least vpc.                      *)
THEOREM HeapImplementsVictimQueue == PQSpec => ImplementsVictimQueue
<1>1. PQInit => Abstract!Init
  BY InitPQInv DEF PQInit, Abstract!Init
<1>2. PQInv /\ [PQNext]_pqVars => [Abstract!Next]_(Abstract!vars)
  BY StepRefines
<1> QED BY <1>1, <1>2, PQAlways, PTL DEF PQSpec, ImplementsVictimQueue, Abstract!Spec

-----------------------------------------------------------------------------
(* The learning agent: division that rounds to zero.                       *)

(* Division of naturals, with what it says of products.                    *)
LEMMA Quotient ==
  ASSUME NEW a \in Nat, NEW c \in Nat \ {0}
  PROVE  /\ a \div c \in Nat
         /\ c * (a \div c) <= a /\ a < c * (a \div c) + c
         /\ \A b \in Nat : a <= c * b => a \div c <= b
<1> DEFINE k == a \div c
<1>1. k \in Nat /\ c * k <= a /\ a < c * k + c
  OBVIOUS
<1> HIDE DEF k
<1>2. ASSUME NEW b \in Nat, a <= c * b, b < k PROVE FALSE
  <2> DEFINE e == k - b - 1
  <2>1. e \in Nat /\ k = b + 1 + e
    BY <1>1, <1>2
  <2>2. c * e >= 0
    BY <2>1
  <2>3. c * k = c * b + c + c * e
    BY <1>1, <2>1
  <2>4. c * k \in Int /\ c * b \in Int /\ c * e \in Int
    BY <1>1, <2>1
  <2> QED BY <1>1, <1>2, <2>2, <2>3, <2>4
<1>3. \A b \in Nat : a <= c * b => k <= b
  BY <1>1, <1>2
<1> QED BY <1>1, <1>3 DEF k

(* Trunc of a product with a factor of at most the scale does not leave    *)
(* the interval between zero and the other factor.                         *)
LEMMA Scaled ==
  ASSUME NEW f \in Nat, NEW c \in Nat \ {0}, f <= c, NEW x \in Int
  PROVE  /\ Trunc(f * x, c) \in Int
         /\ x >= 0 => Trunc(f * x, c) \in 0 .. x
         /\ x <= 0 => -Trunc(f * x, c) \in 0 .. -x
<1>1. ASSUME NEW n \in Nat
      PROVE  f * n \in Nat /\ (f * n) \div c \in 0 .. n
  <2> DEFINE e == c - f
  <2>1. e \in Nat /\ c = f + e
    OBVIOUS
  <2>2. e * n >= 0 /\ e * n \in Int
    BY <2>1
  <2>3. c * n = f * n + e * n /\ f * n \in Nat
    BY <2>1
  <2>4. f * n <= c * n
    BY <2>2, <2>3
  <2> QED BY <2>3, <2>4, Quotient
<1>2. CASE x >= 0
  <2>1. x \in Nat
    BY <1>2
  <2>2. Trunc(f * x, c) = (f * x) \div c
    BY <1>1, <2>1 DEF Trunc
  <2>3. (f * x) \div c \in 0 .. x
    BY <1>1, <2>1
  <2> QED BY <1>2, <2>2, <2>3
<1>3. CASE x < 0
  <2>1. -x \in Nat
    BY <1>3
  <2>2. f * x \in Int /\ f * x = -(f * (-x))
    OBVIOUS
  <2>3. f * (-x) \in Nat /\ (f * (-x)) \div c \in 0 .. -x
    BY <1>1, <2>1
  <2>4. CASE f * x >= 0
    <3>1. f * x = 0
      BY <2>2, <2>3, <2>4
    <3>2. Trunc(f * x, c) = 0 \div c
      BY <3>1 DEF Trunc
    <3>3. 0 \div c = 0
      OBVIOUS
    <3> QED BY <1>3, <3>2, <3>3
  <2>5. CASE f * x < 0
    <3>1. -(f * x) = f * (-x)
      BY <2>2, <2>3
    <3>2. Trunc(f * x, c) = -((f * (-x)) \div c)
      BY <2>2, <2>5, <3>1 DEF Trunc
    <3> QED BY <1>3, <2>3, <3>2
  <2> QED BY <2>2, <2>4, <2>5
<1> QED BY <1>2, <1>3

-----------------------------------------------------------------------------
(* The update of a value.                                                  *)

(* Products keep the order of one factor.                                  *)
LEMMA Monotone ==
  ASSUME NEW f \in Nat, NEW x \in Nat, NEW y \in Nat, x <= y
  PROVE  f * x <= f * y /\ f * x \in Nat /\ f * y \in Nat
<1> DEFINE e == y - x
<1>1. e \in Nat /\ y = x + e
  OBVIOUS
<1>2. f * e >= 0 /\ f * e \in Int
  BY <1>1
<1>3. f * y = f * x + f * e
  BY <1>1
<1>4. f * x \in Nat
  OBVIOUS
<1> HIDE DEF e
<1> QED BY <1>2, <1>3, <1>4

(* The bound for rewards of at most r: r and the discounted bound are not  *)
(* more than the bound itself.                                             *)
LEMMA Discounted ==
  ASSUME NEW r \in Nat,
         NEW M, M = (RL_Q_SCALE * r + RL_Q_SCALE - RL_GAMMA - 1) \div (RL_Q_SCALE - RL_GAMMA)
  PROVE  /\ M \in Nat
         /\ \A m \in 0 .. M : (RL_GAMMA * m) \div RL_Q_SCALE \in 0 .. M - r
         /\ r <= M
<1> DEFINE G == RL_Q_SCALE - RL_GAMMA
           a == RL_Q_SCALE * r + RL_Q_SCALE - RL_GAMMA - 1
           K == M - r
<1>1. RL_Q_SCALE \in Nat \ {0} /\ RL_GAMMA \in Nat /\ G \in Nat \ {0} /\ RL_Q_SCALE = RL_GAMMA + G
  BY AgentAssumption
<1>2. RL_Q_SCALE * r \in Nat
  BY <1>1
<1>3. a \in Nat /\ a = RL_Q_SCALE * r + G - 1
  BY <1>1, <1>2
<1>4. M = a \div G
  OBVIOUS
<1> HIDE DEF G, a
<1>5. M \in Nat /\ a < G * M + G
  BY <1>1, <1>3, <1>4, Quotient
<1>6. G * M \in Nat /\ RL_GAMMA * M \in Nat /\ RL_Q_SCALE * M = RL_GAMMA * M + G * M
  BY <1>1, <1>5
<1>7. RL_Q_SCALE * r <= G * M
  BY <1>1, <1>2, <1>3, <1>5, <1>6
<1>8. r <= M
  <2>1. ASSUME M < r PROVE FALSE
    <3>1. M + 1 <= r /\ M + 1 \in Nat
      BY <1>5, <2>1
    <3>2. RL_Q_SCALE * (M + 1) <= RL_Q_SCALE * r
      BY <1>1, <3>1, Monotone
    <3>3. RL_Q_SCALE * (M + 1) = RL_Q_SCALE * M + RL_Q_SCALE
      <4>1. \A x, y \in Nat : x * (y + 1) = x * y + x
        OBVIOUS
      <4> QED BY <1>1, <1>5, <4>1
    <3> QED BY <1>1, <1>2, <1>6, <1>7, <3>2, <3>3
  <2> QED BY <1>5, <2>1
<1>9. K \in Nat /\ RL_Q_SCALE * K = RL_Q_SCALE * M - RL_Q_SCALE * r
  BY <1>1, <1>5, <1>8
<1>10. ASSUME NEW m \in 0 .. M PROVE (RL_GAMMA * m) \div RL_Q_SCALE \in 0 .. K
  <2>1. RL_GAMMA * m <= RL_GAMMA * M /\ RL_GAMMA * m \in Nat
    BY <1>1, <1>5, Monotone
  <2> HIDE DEF K
  <2>2. RL_GAMMA * m <= RL_Q_SCALE * K
    <3>1. RL_Q_SCALE * K \in Int
      BY <1>1, <1>9
    <3> QED BY <1>2, <1>6, <1>7, <1>9, <2>1, <3>1
  <2>3. (RL_GAMMA * m) \div RL_Q_SCALE \in Nat /\ (RL_GAMMA * m) \div RL_Q_SCALE <= K
    BY <1>1, <1>9, <2>1, <2>2, Quotient
  <2> QED BY <1>9, <2>3
<1> QED BY <1>5, <1>8, <1>10

(* The term W is a number and does not fall with the pages copied.         *)
LEMMA WafRises ==
  ASSUME NEW n \in Nat, NEW m \in Nat, n <= m
  PROVE  Waf(n) \in Nat /\ Waf(m) \in Nat /\ Waf(n) <= Waf(m)
<1> DEFINE K == Waf(m)
<1>1. RL_Q_SCALE \in Nat \ {0} /\ pgs_per_line \in Nat \ {0}
  BY AgentAssumption
<1>2. /\ RL_Q_SCALE * n <= RL_Q_SCALE * m /\ RL_Q_SCALE * n \in Nat /\ RL_Q_SCALE * m \in Nat
      /\ RL_Q_SCALE * n = n * RL_Q_SCALE /\ RL_Q_SCALE * m = m * RL_Q_SCALE
  BY <1>1, Monotone
<1> DEFINE x == n * RL_Q_SCALE
           y == m * RL_Q_SCALE
           r == x \div pgs_per_line
           t == y \div pgs_per_line
<1>3. x \in Nat /\ y \in Nat /\ x <= y /\ Waf(n) = r /\ Waf(m) = t
  BY <1>2 DEF Waf
<1> HIDE DEF x, y
<1>4. r \in Nat /\ t \in Nat /\ pgs_per_line * r <= x /\ y < pgs_per_line * t + pgs_per_line
  BY <1>1, <1>3, Quotient
<1> HIDE DEF r, t
<1>5. ASSUME t < r PROVE FALSE
  <2>1. t + 1 <= r /\ t + 1 \in Nat
    BY <1>4, <1>5
  <2>2. pgs_per_line * (t + 1) <= pgs_per_line * r
    BY <1>1, <1>4, <2>1, Monotone
  <2>3. pgs_per_line * (t + 1) = pgs_per_line * t + pgs_per_line
    <3>1. \A a, b \in Nat : a * (b + 1) = a * b + a
      OBVIOUS
    <3> QED BY <1>1, <1>4, <3>1
  <2>4. pgs_per_line * t \in Int /\ pgs_per_line * r \in Int
    BY <1>1, <1>4
  <2> QED BY <1>1, <1>3, <1>4, <2>2, <2>3, <2>4
<1> QED BY <1>3, <1>4, <1>5

(* The reward is a penalty for copied pages and wear, and a premium for    *)
(* wear that gets less; both are bounded.                                  *)
LEMMA RewardBounded ==
  ASSUME NEW most \in Nat, NEW pages \in 0 .. most,
         NEW range \in Int, NEW mean \in Nat, prev_range \in Int
  PROVE  Reward(pages, range, mean) \in -(Waf(most) + 2 * RL_LAMBDA) .. 2 * RL_LAMBDA
<1> DEFINE waf_penalty == Waf(pages)
           worst == Waf(most)
           delta_term == Trunc((range - prev_range) * RL_Q_SCALE, mean + 1)
           level_term == (range * RL_Q_SCALE) \div (mean + 1)
           wear_penalty == Clamped(delta_term + level_term \div 4, 2 * RL_Q_SCALE)
           weighted == Trunc(RL_LAMBDA * wear_penalty, RL_Q_SCALE)
<1>1. RL_Q_SCALE \in Nat \ {0} /\ RL_LAMBDA \in Nat /\ pgs_per_line \in Nat \ {0}
  BY AgentAssumption
<1>2. worst \in Nat /\ waf_penalty \in 0 .. worst
  <2>1. pages \in Nat /\ pages <= most
    OBVIOUS
  <2> QED BY <2>1, WafRises
<1>3. delta_term \in Int /\ level_term \in Int
  <2>1. mean + 1 \in Nat \ {0} /\ (range - prev_range) * RL_Q_SCALE \in Int /\ range * RL_Q_SCALE \in Int
    BY <1>1
  <2>2. \A a \in Int, b \in Nat \ {0} : a \div b \in Int
    OBVIOUS
  <2>3. \A a \in Int, b \in Nat \ {0} : Trunc(a, b) \in Int
    BY <2>2 DEF Trunc
  <2> QED BY <2>1, <2>2, <2>3
<1> HIDE DEF waf_penalty, worst, delta_term, level_term
<1>4. delta_term + level_term \div 4 \in Int
  BY <1>3
<1>5. wear_penalty \in -(2 * RL_Q_SCALE) .. 2 * RL_Q_SCALE
  BY <1>1, <1>4 DEF Clamped
<1> HIDE DEF wear_penalty
<1>6. ASSUME NEW x \in 0 .. 2 * RL_Q_SCALE
      PROVE  RL_LAMBDA * x \in Nat /\ (RL_LAMBDA * x) \div RL_Q_SCALE \in 0 .. 2 * RL_LAMBDA
  <2>1. RL_LAMBDA * x <= RL_LAMBDA * (2 * RL_Q_SCALE) /\ RL_LAMBDA * x \in Nat
    BY <1>1, Monotone
  <2>2. RL_LAMBDA * (2 * RL_Q_SCALE) = RL_Q_SCALE * (2 * RL_LAMBDA)
    BY <1>1
  <2> QED BY <1>1, <2>1, <2>2, Quotient
<1>7. weighted \in -(2 * RL_LAMBDA) .. 2 * RL_LAMBDA
  <2>1. CASE wear_penalty >= 0
    <3>1. wear_penalty \in 0 .. 2 * RL_Q_SCALE
      BY <1>1, <1>5, <2>1
    <3>2. weighted = (RL_LAMBDA * wear_penalty) \div RL_Q_SCALE
      BY <1>6, <3>1 DEF Trunc
    <3> QED BY <1>1, <1>6, <3>1, <3>2
  <2>2. CASE wear_penalty < 0
    <3> DEFINE x == -wear_penalty
    <3>1. x \in 0 .. 2 * RL_Q_SCALE /\ x \in Nat
      BY <1>1, <1>5, <2>2
    <3>2. RL_LAMBDA * wear_penalty = -(RL_LAMBDA * x) /\ RL_LAMBDA * wear_penalty \in Int
      BY <1>1, <1>5
    <3>3. RL_LAMBDA * x \in Nat /\ (RL_LAMBDA * x) \div RL_Q_SCALE \in 0 .. 2 * RL_LAMBDA
      BY <1>6, <3>1
    <3> HIDE DEF x
    <3>4. CASE RL_LAMBDA * wear_penalty >= 0
      <4>1. RL_LAMBDA * wear_penalty = 0
        BY <3>2, <3>3, <3>4
      <4>2. weighted = 0 \div RL_Q_SCALE
        BY <4>1 DEF Trunc
      <4> QED BY <1>1, <4>2
    <3>5. CASE RL_LAMBDA * wear_penalty < 0
      <4>1. -(RL_LAMBDA * wear_penalty) = RL_LAMBDA * x
        BY <3>2, <3>3
      <4>2. weighted = -((RL_LAMBDA * x) \div RL_Q_SCALE)
        BY <3>2, <3>5, <4>1 DEF Trunc
      <4> QED BY <1>1, <3>3, <4>2
    <3> QED BY <3>2, <3>4, <3>5
  <2> QED BY <1>5, <1>1, <2>1, <2>2
<1>8. Reward(pages, range, mean) = -waf_penalty - weighted
  BY DEF Reward, waf_penalty, delta_term, level_term, wear_penalty
<1> HIDE DEF weighted
<1>9. Reward(pages, range, mean) \in -(worst + 2 * RL_LAMBDA) .. 2 * RL_LAMBDA
  BY <1>1, <1>2, <1>7, <1>8
<1> QED BY <1>9 DEF worst

(* An update of a value in range, with a reward and a best next value in   *)
(* range, is in range.                                                     *)
LEMMA UpdatedBounded ==
  ASSUME NEW most \in Nat, NEW old \in QFloor(most) .. QMax, NEW next \in QFloor(most) .. QMax,
         NEW reward \in -(Waf(most) + 2 * RL_LAMBDA) .. 2 * RL_LAMBDA
  PROVE  Updated(old, reward, next) \in QFloor(most) .. QMax
<1> DEFINE discounted == Trunc(RL_GAMMA * next, RL_Q_SCALE)
           target == reward + discounted
           step == Trunc(RL_ALPHA * (target - old), RL_Q_SCALE)
           floor == QFloor(most)
           Rn == Waf(most) + 2 * RL_LAMBDA
           Rx == 2 * RL_LAMBDA
           N == -floor
<1>1. RL_Q_SCALE \in Nat \ {0} /\ RL_LAMBDA \in Nat /\ RL_GAMMA \in Nat /\ RL_ALPHA \in Nat
      /\ RL_ALPHA <= RL_Q_SCALE /\ RL_GAMMA <= RL_Q_SCALE /\ Rn \in Nat /\ Rx \in Nat
  BY AgentAssumption, WafRises
<1>2. (RL_Q_SCALE * Rn + RL_Q_SCALE - RL_GAMMA - 1) \div (RL_Q_SCALE - RL_GAMMA) \in Nat
  BY <1>1, Discounted
<1>3. N = (RL_Q_SCALE * Rn + RL_Q_SCALE - RL_GAMMA - 1) \div (RL_Q_SCALE - RL_GAMMA)
  BY <1>2 DEF QFloor
<1>4. QMax = (RL_Q_SCALE * Rx + RL_Q_SCALE - RL_GAMMA - 1) \div (RL_Q_SCALE - RL_GAMMA)
  BY DEF QMax
<1>5. N \in Nat /\ QMax \in Nat /\ floor = -N
  BY <1>1, <1>2, <1>3, <1>4, Discounted DEF QFloor
<1>13. old \in floor .. QMax /\ next \in floor .. QMax
  OBVIOUS
<1> HIDE DEF floor, N, Rn, Rx
<1>6. /\ \A m \in 0 .. N : (RL_GAMMA * m) \div RL_Q_SCALE \in 0 .. N - Rn
      /\ \A m \in 0 .. QMax : (RL_GAMMA * m) \div RL_Q_SCALE \in 0 .. QMax - Rx
      /\ Rn <= N /\ Rx <= QMax
  BY <1>1, <1>3, <1>4, Discounted
<1>7. reward \in Int /\ -Rn <= reward /\ reward <= Rx /\ next \in Int /\ old \in Int
  BY <1>1, <1>5, <1>13 DEF Rn, Rx
<1>8. discounted \in -(N - Rn) .. QMax - Rx
  <2>1. CASE next >= 0
    <3>1. next \in 0 .. QMax /\ RL_GAMMA * next \in Nat
      BY <1>1, <1>5, <1>7, <1>13, <2>1
    <3>2. discounted = (RL_GAMMA * next) \div RL_Q_SCALE
      BY <3>1 DEF Trunc
    <3>3. discounted \in 0 .. QMax - Rx
      BY <1>6, <3>1, <3>2
    <3> HIDE DEF discounted
    <3> QED BY <1>1, <1>5, <1>6, <3>3
  <2>2. CASE next < 0
    <3> DEFINE m == -next
    <3>1. m \in 0 .. N /\ m \in Nat
      BY <1>5, <1>7, <1>13, <2>2
    <3>2. RL_GAMMA * next = -(RL_GAMMA * m) /\ RL_GAMMA * next \in Int
      BY <1>1, <1>7
    <3>3. RL_GAMMA * m \in Nat /\ (RL_GAMMA * m) \div RL_Q_SCALE \in 0 .. N - Rn
      BY <1>1, <1>6, <3>1
    <3> HIDE DEF m
    <3>4. CASE RL_GAMMA * next >= 0
      <4>1. RL_GAMMA * next = 0
        BY <3>2, <3>3, <3>4
      <4>2. discounted = 0 \div RL_Q_SCALE
        BY <4>1 DEF Trunc
      <4>3. 0 \div RL_Q_SCALE = 0
        BY <1>1
      <4> QED BY <1>1, <1>5, <1>6, <4>2, <4>3
    <3>5. CASE RL_GAMMA * next < 0
      <4>1. -(RL_GAMMA * next) = RL_GAMMA * m
        BY <3>2, <3>3
      <4>2. discounted = -((RL_GAMMA * m) \div RL_Q_SCALE)
        BY <3>2, <3>5, <4>1 DEF Trunc
      <4> QED BY <1>1, <1>5, <1>6, <3>3, <4>2
    <3> QED BY <3>2, <3>4, <3>5
  <2> QED BY <1>7, <2>1, <2>2
<1> HIDE DEF discounted
<1>9. target \in Int /\ -N <= target /\ target <= QMax
  BY <1>1, <1>5, <1>6, <1>7, <1>8
<1>10. Updated(old, reward, next) = old + step
  <2>1. Updated(old, reward, next)
          = old + Trunc(RL_ALPHA * (reward + (discounted - old)), RL_Q_SCALE)
    BY DEF Updated, discounted
  <2>2. reward + (discounted - old) = target - old
    BY <1>5, <1>6, <1>7, <1>8
  <2> QED BY <2>1, <2>2
<1> HIDE DEF target
<1>11. target - old \in Int
  BY <1>7, <1>9
<1>12. /\ step \in Int
       /\ target - old >= 0 => step \in 0 .. target - old
       /\ target - old <= 0 => -step \in 0 .. -(target - old)
  BY <1>1, <1>11, Scaled
<1> HIDE DEF step
<1>14. Updated(old, reward, next) \in floor .. QMax
  BY <1>5, <1>7, <1>9, <1>10, <1>11, <1>12, <1>13
<1> QED BY <1>14 DEF floor

-----------------------------------------------------------------------------
(* The erase counts: their range and their mean are numbers.               *)

(* The value x of counts is the largest, or the smallest.                  *)
Largest(counts, x)  == \E l \in Lines : counts[l] = x /\ \A m \in Lines : counts[m] <= x
Smallest(counts, x) == \E l \in Lines : counts[l] = x /\ \A m \in Lines : x <= counts[m]

CountsInv ==
  /\ erase_cnt \in [Lines -> Nat]
  /\ \E x \in Nat : Largest(erase_cnt, x)
  /\ \E x \in Nat : Smallest(erase_cnt, x)

(* With a largest and a smallest the range is their difference.            *)
LEMMA RangeIsInt ==
  ASSUME CountsInv
  PROVE  EraseRange(erase_cnt) \in Int
<1> DEFINE R == {erase_cnt[l] : l \in Lines}
<1>1. \A x \in R : x \in Nat
  BY DEF CountsInv
<1>2. \E x \in R : \A y \in R : x >= y
  BY <1>1 DEF CountsInv, Largest
<1>3. \E x \in R : \A y \in R : x <= y
  BY <1>1 DEF CountsInv, Smallest
<1>4. Max(R) \in R /\ Min(R) \in R
  BY <1>2, <1>3 DEF Max, Min
<1> HIDE DEF R
<1>5. Max(R) - Min(R) \in Int
  BY <1>1, <1>4
<1> QED BY <1>5 DEF EraseRange, R

(* The mean is a number: there are finitely many erases.                   *)
LEMMA MeanIsNat ==
  ASSUME CountsInv
  PROVE  EraseMean(erase_cnt) \in Nat
<1> DEFINE F == {{l} \X (1 .. erase_cnt[l]) : l \in Lines}
<1>1. IsFiniteSet(Lines) /\ Lines # {}
  BY AgentAssumption
<1>2. IsFiniteSet(F)
  <2> DEFINE f == [l \in Lines |-> {l} \X (1 .. erase_cnt[l])]
  <2>1. f \in Surjection(Lines, F)
    BY DEF Surjection
  <2> HIDE DEF F, f
  <2> QED BY <1>1, <2>1, FS_Surjection
<1>3. \A S \in F : IsFiniteSet(S)
  <2> SUFFICES ASSUME NEW l \in Lines PROVE IsFiniteSet({l} \X (1 .. erase_cnt[l]))
    OBVIOUS
  <2>1. erase_cnt[l] \in Int /\ 1 \in Int
    BY DEF CountsInv
  <2>2. IsFiniteSet(1 .. erase_cnt[l]) /\ IsFiniteSet({l})
    BY <2>1, FS_Interval, FS_Singleton
  <2> QED BY <2>2, FS_Product
<1>4. IsFiniteSet(UNION F)
  BY <1>2, <1>3, FS_UNION
<1>5. Cardinality(UNION F) \in Nat
  BY <1>4, FS_CardinalityType
<1>6. Cardinality(Lines) \in Nat /\ Cardinality(Lines) # 0
  BY <1>1, FS_CardinalityType, FS_EmptySet
<1> HIDE DEF F
<1>7. Cardinality(UNION F) \div Cardinality(Lines) \in Nat
  BY <1>5, <1>6, Quotient
<1> QED BY <1>7 DEF EraseMean, F

(* One more erase leaves a largest and a smallest count.                   *)
LEMMA CountsStep ==
  ASSUME CountsInv, NEW v, erase_cnt' = [erase_cnt EXCEPT ![v] = @ + 1]
  PROVE  CountsInv'
<1>1. CASE v \notin Lines
  <2>1. erase_cnt' = erase_cnt
    BY <1>1 DEF CountsInv
  <2> QED BY <2>1 DEF CountsInv, Largest, Smallest
<1>2. CASE v \in Lines
  <2>1. erase_cnt' \in [Lines -> Nat]
    BY <1>2 DEF CountsInv
  <2>2. erase_cnt'[v] = erase_cnt[v] + 1 /\ \A m \in Lines \ {v} : erase_cnt'[m] = erase_cnt[m]
    BY <1>2 DEF CountsInv
  <2>3. PICK x \in Nat : Largest(erase_cnt, x)
    BY DEF CountsInv
  <2>4. PICK y \in Nat : Smallest(erase_cnt, y)
    BY DEF CountsInv
  <2>5. \A m \in Lines : erase_cnt[m] \in Nat /\ erase_cnt[m] <= x /\ y <= erase_cnt[m]
    BY <2>3, <2>4 DEF CountsInv, Largest, Smallest
  <2>6. \E u \in Nat : Largest(erase_cnt', u)
    <3>1. CASE erase_cnt[v] = x
      <4>1. \A m \in Lines : erase_cnt'[m] <= x + 1
        BY <2>2, <2>5, <3>1
      <4>2. Largest(erase_cnt', x + 1)
        BY <1>2, <2>2, <3>1, <4>1 DEF Largest
      <4> QED BY <4>2
    <3>2. CASE erase_cnt[v] # x
      <4>1. \A m \in Lines : erase_cnt'[m] <= x
        BY <1>2, <2>2, <2>5, <3>2
      <4>2. PICK l \in Lines : erase_cnt[l] = x
        BY <2>3 DEF Largest
      <4>3. erase_cnt'[l] = x
        BY <2>2, <3>2, <4>2
      <4>4. Largest(erase_cnt', x)
        BY <4>1, <4>2, <4>3 DEF Largest
      <4> QED BY <4>4
    <3> QED BY <3>1, <3>2
  <2>7. \E u \in Nat : Smallest(erase_cnt', u)
    <3>1. CASE \E l \in Lines \ {v} : erase_cnt[l] = y
      <4>1. PICK l \in Lines \ {v} : erase_cnt[l] = y
        BY <3>1
      <4>2. \A m \in Lines : y <= erase_cnt'[m]
        BY <1>2, <2>2, <2>5
      <4>3. Smallest(erase_cnt', y)
        BY <2>2, <4>1, <4>2 DEF Smallest
      <4> QED BY <4>3
    <3>2. CASE ~\E l \in Lines \ {v} : erase_cnt[l] = y
      <4>1. erase_cnt[v] = y
        BY <2>4, <3>2 DEF Smallest
      <4>2. \A m \in Lines : y + 1 <= erase_cnt'[m]
        BY <2>2, <2>5, <3>2, <4>1
      <4>3. Smallest(erase_cnt', y + 1)
        BY <1>2, <2>2, <4>1, <4>2 DEF Smallest
      <4> QED BY <4>3
    <3> QED BY <3>1, <3>2
  <2> QED BY <2>1, <2>6, <2>7 DEF CountsInv
<1> QED BY <1>1, <1>2

-----------------------------------------------------------------------------
(* Square roots.                                                           *)

(* The whole-numbered square root of the score exists, and is not 0.       *)
LEMMA RootIs ==
  ASSUME NEW n \in Nat \ {0}
  PROVE  /\ Root(n) \in Nat \ {0}
         /\ Root(n) * Root(n) <= n /\ n < (Root(n) + 1) * (Root(n) + 1)
<1> DEFINE T == {r \in 0 .. n : r * r <= n}
<1>1. 0 \in T /\ 1 \in T /\ T \subseteq 0 .. n
  OBVIOUS
<1>2. PICK x \in T : \A y \in T : y <= x
  <2> HIDE DEF T
  <2> QED BY <1>1, GreatestNat
<1>3. x \in Nat \ {0} /\ x \in 0 .. n /\ x * x <= n
  <2>1. x \in 0 .. n /\ x * x <= n
    BY <1>2
  <2>2. 1 <= x
    <3> HIDE DEF T
    <3> QED BY <1>1, <1>2
  <2> QED BY <2>1, <2>2
<1>4. n < (x + 1) * (x + 1)
  <2>1. CASE x = n
    <3>1. n * n >= 0 /\ (n + 1) * (n + 1) = n * n + 2 * n + 1 /\ n * n \in Int
      OBVIOUS
    <3> QED BY <2>1, <3>1
  <2>2. CASE x < n
    <3>1. x + 1 \in 0 .. n /\ x + 1 \notin T
      BY <1>2, <1>3, <2>2
    <3>2. ~((x + 1) * (x + 1) <= n)
      BY <3>1
    <3>3. (x + 1) * (x + 1) \in Int
      BY <1>3
    <3> QED BY <3>2, <3>3
  <2> QED BY <1>3, <2>1, <2>2
<1> HIDE DEF T
<1>5. \E r \in 0 .. n : r * r <= n /\ n < (r + 1) * (r + 1)
  BY <1>3, <1>4
<1>6. /\ Root(n) \in 0 .. n
      /\ Root(n) * Root(n) <= n /\ n < (Root(n) + 1) * (Root(n) + 1)
  BY <1>5 DEF Root
<1>7. Root(n) # 0
  <2>1. (0 + 1) * (0 + 1) = 1
    OBVIOUS
  <2> QED BY <1>6, <2>1
<1> QED BY <1>6, <1>7

(* A step of Newton's iteration does not pass below the root.              *)
LEMMA NewtonAbove ==
  ASSUME NEW n \in Nat, NEW r \in Nat \ {0}, r * r <= n, NEW x \in Nat \ {0}
  PROVE  (x + n \div x) \div 2 \in Nat /\ r <= (x + n \div x) \div 2
<1> DEFINE k == n \div x
<1>1. k \in Nat /\ n < x * k + x
  BY Quotient
<1> HIDE DEF k
<1>2. ASSUME x + k < 2 * r PROVE FALSE
  <2> DEFINE t == x - r
             e == 2 * r - x - (k + 1)
  <2>1. t \in Int /\ e \in Nat /\ x = r + t /\ k + 1 = r - t - e
    BY <1>1, <1>2
  <2>2. x * (k + 1) = x * k + x
    BY <1>1
  <2>3. x * (k + 1) = x * (r - t) - x * e
    BY <2>1
  <2>4. x * (r - t) = r * r - t * t
    BY <2>1
  <2>5. x * e >= 0 /\ t * t >= 0
    BY <2>1
  <2>6. {x * k, x * (k + 1), x * (r - t), x * e, t * t, r * r} \subseteq Int
    BY <1>1, <2>1
  <2> HIDE DEF t, e
  <2> QED BY <1>1, <2>2, <2>3, <2>4, <2>5, <2>6
<1>3. 2 * r <= x + k
  BY <1>1, <1>2
<1> QED BY <1>1, <1>3 DEF k

(* The approximations up to m.                                             *)
Newton(n, x, m) ==
  x = [i \in 0 .. m |-> IF i = 0 THEN n ELSE (x[i - 1] + n \div x[i - 1]) \div 2]

LEMMA NewtonExists ==
  ASSUME NEW n, NEW m \in Nat
  PROVE  \E x : Newton(n, x, m)
<1> DEFINE T == {k \in 0 .. m : \E x : Newton(n, x, k)}
<1>1. 0 \in T
  <2> DEFINE x == [i \in 0 .. 0 |-> n]
  <2>1. Newton(n, x, 0)
    BY DEF Newton
  <2> HIDE DEF x
  <2> QED BY <2>1
<1>2. ASSUME NEW k \in 0 .. m - 1, k \in T PROVE k + 1 \in T
  <2>1. PICK x : Newton(n, x, k)
    BY <1>2
  <2> DEFINE y == [i \in 0 .. k + 1 |-> IF i = k + 1 THEN (x[k] + n \div x[k]) \div 2 ELSE x[i]]
  <2>2. DOMAIN x = 0 .. k /\ x[0] = n
        /\ \A i \in 1 .. k : x[i] = (x[i - 1] + n \div x[i - 1]) \div 2
    BY <2>1 DEF Newton
  <2>3. \A i \in 0 .. k : y[i] = x[i]
    OBVIOUS
  <2>4. y[k + 1] = (x[k] + n \div x[k]) \div 2
    OBVIOUS
  <2>5. y = [i \in 0 .. k + 1 |-> y[i]]
    OBVIOUS
  <2> HIDE DEF y
  <2>6. \A i \in 0 .. k + 1 : y[i] = IF i = 0 THEN n ELSE (y[i - 1] + n \div y[i - 1]) \div 2
    <3> SUFFICES ASSUME NEW i \in 0 .. k + 1
                 PROVE  y[i] = IF i = 0 THEN n ELSE (y[i - 1] + n \div y[i - 1]) \div 2
      OBVIOUS
    <3>1. CASE i = 0
      BY <2>2, <2>3, <3>1
    <3>2. CASE i \in 1 .. k
      <4>1. i # 0 /\ i - 1 \in 0 .. k /\ i \in 0 .. k
        BY <3>2
      <4> QED BY <2>2, <2>3, <3>2, <4>1
    <3>3. CASE i = k + 1
      <4>1. i # 0 /\ i - 1 = k /\ k \in 0 .. k
        BY <3>3
      <4> QED BY <2>3, <2>4, <3>3, <4>1
    <3> QED BY <3>1, <3>2, <3>3
  <2>7. Newton(n, y, k + 1)
    BY <2>5, <2>6 DEF Newton
  <2> QED BY <2>7
<1> HIDE DEF T
<1>3. m \in T
  <2>1. m \in 0 .. m
    OBVIOUS
  <2> QED BY <1>1, <1>2, <2>1, InductionTo
<1> QED BY <1>3 DEF T

(* Newton's iteration stops, and what it stops at is the root.             *)
LEMMA SquareRoot ==
  ASSUME NEW n \in Nat \ {0}
  PROVE  isqrt_u64(n) = Root(n)
<1> DEFINE F(x) == [i \in 0 .. n + 1 |-> IF i = 0 THEN n ELSE (x[i - 1] + n \div x[i - 1]) \div 2]
           x == CHOOSE f : f = F(f)
           Stops(i) == x[i + 1] >= x[i]
           r == Root(n)
<1>1. isqrt_u64(n) = x[CHOOSE i \in 0 .. n : Stops(i) /\ \A j \in 0 .. i - 1 : ~Stops(j)]
  BY DEF isqrt_u64
<1>2. x = F(x)
  <2>1. \E f : Newton(n, f, n + 1)
    BY NewtonExists
  <2>2. \E f : f = F(f)
    BY <2>1 DEF Newton
  <2> HIDE DEF F
  <2> QED BY <2>2
<1>3. x[0] = n /\ \A i \in 0 .. n : x[i + 1] = (x[i] + n \div x[i]) \div 2
  <2> HIDE DEF x
  <2>1. x[0] = n
    BY <1>2
  <2>2. ASSUME NEW i \in 0 .. n PROVE x[i + 1] = (x[i] + n \div x[i]) \div 2
    <3>1. i + 1 \in 0 .. n + 1 /\ i + 1 # 0 /\ (i + 1) - 1 = i
      OBVIOUS
    <3> QED BY <1>2, <3>1
  <2> QED BY <2>1, <2>2
<1>4. r \in Nat \ {0} /\ r * r <= n /\ n < (r + 1) * (r + 1)
  BY RootIs
<1> HIDE DEF F, x, r
<1>5. \A i \in 0 .. n + 1 : x[i] \in Nat \ {0} /\ r <= x[i]
  <2> DEFINE T == {i \in 0 .. n + 1 : x[i] \in Nat \ {0} /\ r <= x[i]}
  <2>1. 0 \in T
    <3>1. r <= r * r
      BY <1>4
    <3>2. r * r \in Int
      BY <1>4
    <3> QED BY <1>3, <1>4, <3>1, <3>2
  <2>2. ASSUME NEW i \in 0 .. (n + 1) - 1, i \in T PROVE i + 1 \in T
    <3>1. x[i] \in Nat \ {0} /\ x[i + 1] = (x[i] + n \div x[i]) \div 2
      BY <1>3, <2>2
    <3>2. x[i + 1] \in Nat /\ r <= x[i + 1]
      BY <1>4, <3>1, NewtonAbove
    <3> QED BY <1>4, <3>2
  <2>3. n + 1 \in Nat
    OBVIOUS
  <2> HIDE DEF T
  <2>4. 0 .. n + 1 \subseteq T
    BY <2>1, <2>2, <2>3, InductionTo
  <2> QED BY <2>4 DEF T
<1> DEFINE S == {i \in 0 .. n : Stops(i)}
<1>6. S # {}
  <2> SUFFICES ASSUME S = {} PROVE FALSE
    OBVIOUS
  <2>1. \A i \in 0 .. n : x[i + 1] < x[i]
    <3> SUFFICES ASSUME NEW i \in 0 .. n PROVE x[i + 1] < x[i]
      OBVIOUS
    <3>1. i \in 0 .. n + 1 /\ i + 1 \in 0 .. n + 1 /\ ~(x[i + 1] >= x[i])
      OBVIOUS
    <3> QED BY <1>5, <3>1
  <2> DEFINE T == {i \in 0 .. n + 1 : x[i] <= n - i}
  <2>2. 0 \in T
    BY <1>3
  <2>3. ASSUME NEW i \in 0 .. (n + 1) - 1, i \in T PROVE i + 1 \in T
    <3>1. i \in 0 .. n + 1 /\ i + 1 \in 0 .. n + 1
      OBVIOUS
    <3>2. x[i] \in Nat /\ x[i + 1] \in Nat /\ x[i + 1] < x[i] /\ x[i] <= n - i
      BY <1>5, <2>1, <2>3, <3>1
    <3>3. x[i + 1] <= n - (i + 1)
      BY <3>2
    <3> QED BY <3>1, <3>3
  <2>4. n + 1 \in Nat
    OBVIOUS
  <2> HIDE DEF T
  <2>5. n \in T
    BY <2>2, <2>3, <2>4, InductionTo
  <2>6. x[n] <= 0
    BY <2>5 DEF T
  <2> QED BY <1>5, <2>6
<1>7. PICK i \in S : \A j \in S : i <= j
  <2> HIDE DEF S
  <2>1. S \subseteq Nat
    BY DEF S
  <2> QED BY <1>6, <2>1, LeastNat
<1>8. \A j \in 0 .. i - 1 : ~Stops(j)
  <2> SUFFICES ASSUME NEW j \in 0 .. i - 1 PROVE ~Stops(j)
    OBVIOUS
  <2>1. j \in 0 .. n /\ ~(i <= j)
    BY <1>7
  <2> HIDE DEF Stops
  <2> QED BY <1>7, <2>1
<1> DEFINE m == CHOOSE l \in 0 .. n : Stops(l) /\ \A j \in 0 .. l - 1 : ~Stops(j)
<1>9. m \in 0 .. n /\ Stops(m)
  <2>1. i \in 0 .. n /\ Stops(i)
    BY <1>7
  <2> HIDE DEF Stops
  <2> QED BY <1>8, <2>1
<1>10. isqrt_u64(n) = x[m]
  BY <1>1
<1> HIDE DEF m
<1> DEFINE y == x[m]
           k == n \div y
<1>11. y \in Nat \ {0} /\ r <= y /\ (y + k) \div 2 >= y
  <2>1. m \in 0 .. n + 1 /\ x[m + 1] = (y + k) \div 2
    BY <1>3, <1>9
  <2> QED BY <1>5, <1>9, <2>1
<1> HIDE DEF y
<1>12. k \in Nat /\ y * k <= n
  BY <1>11, Quotient
<1> HIDE DEF k
<1>13. y <= k
  BY <1>11, <1>12
<1>14. y * y <= y * k /\ y * y \in Nat /\ y * k \in Nat
  BY <1>11, <1>12, <1>13, Monotone
<1>15. ASSUME r + 1 <= y PROVE FALSE
  <2>1. (r + 1) * (r + 1) <= (r + 1) * y /\ (r + 1) * y \in Nat /\ (r + 1) * (r + 1) \in Nat
    BY <1>4, <1>11, <1>15, Monotone
  <2>2. y * (r + 1) <= y * y
    BY <1>4, <1>11, <1>15, Monotone
  <2>3. y * (r + 1) = (r + 1) * y
    BY <1>4, <1>11
  <2> QED BY <1>4, <1>12, <1>14, <2>1, <2>2, <2>3
<1>16. y = r
  BY <1>4, <1>11, <1>15
<1> QED BY <1>10, <1>16 DEF y, r

-----------------------------------------------------------------------------
(* The scores and their comparison.                                        *)

LEMMA PowerIs ==
  ASSUME NEW n \in Nat \ {0}
  PROVE  /\ Power(n, 0) = 1
         /\ Power(n, 1) = isqrt_u64(n)
         /\ Power(n, 2) = n
         /\ Power(n, 3) = n * isqrt_u64(n)
         /\ Power(n, 4) = n * n
         /\ isqrt_u64(n) \in Nat \ {0}
<1> DEFINE r == Root(n)
<1>1. r \in Nat \ {0} /\ isqrt_u64(n) = r
  BY RootIs, SquareRoot
<1> DEFINE sq == n * n
           W(h) == IF h < 2 THEN 1 ELSE IF h < 4 THEN n ELSE sq
<1>2. /\ Power(n, 0) = 1 * 1
      /\ Power(n, 1) = r * 1
      /\ Power(n, 2) = 1 * n
      /\ Power(n, 3) = r * n
      /\ Power(n, 4) = 1 * (n * n)
  <2> HIDE DEF r
  <2>1. W(0) = 1 /\ W(1) = 1 /\ W(2) = n /\ W(3) = n /\ W(4) = sq
    OBVIOUS
  <2>2. \A h \in 0 .. 4 : Power(n, h) = (IF h % 2 = 1 THEN r ELSE 1) * W(h)
    BY DEF Power, r
  <2> HIDE DEF W
  <2>3. 0 % 2 = 0 /\ 1 % 2 = 1 /\ 2 % 2 = 0 /\ 3 % 2 = 1 /\ 4 % 2 = 0
    OBVIOUS
  <2>4. Power(n, 0) = 1 * W(0) /\ Power(n, 1) = r * W(1) /\ Power(n, 2) = 1 * W(2)
    BY <2>2, <2>3
  <2>5. Power(n, 3) = r * W(3) /\ Power(n, 4) = 1 * W(4)
    BY <2>2, <2>3
  <2> QED BY <2>1, <2>4, <2>5
<1> HIDE DEF W
<1> HIDE DEF r
<1>3. n * n \in Nat /\ r * n = n * r
  BY <1>1
<1> QED BY <1>1, <1>2, <1>3

(* A factor of a product is not more than the product.                     *)
LEMMA FactorFits ==
  ASSUME NEW x \in Nat \ {0}, NEW y \in Nat \ {0}
  PROVE  x * y \in Nat \ {0} /\ x <= x * y /\ y <= x * y
<1> DEFINE t == x - 1
           e == y - 1
<1>1. t \in Nat /\ e \in Nat /\ x = t + 1 /\ y = e + 1
  OBVIOUS
<1>2. x * e >= 0 /\ y * t >= 0 /\ x * e \in Int /\ y * t \in Int
  BY <1>1
<1>3. x * y = x * e + x /\ x * y = y * t + y
  BY <1>1
<1> HIDE DEF t, e
<1> QED BY <1>2, <1>3

LEMMA PowerPositive ==
  ASSUME NEW n \in Nat \ {0}, NEW h \in 0 .. 4
  PROVE  Power(n, h) \in Nat \ {0}
<1>1. n * isqrt_u64(n) \in Nat \ {0} /\ n * n \in Nat \ {0}
  BY PowerIs, FactorFits
<1>2. Power(n, 0) \in Nat \ {0} /\ Power(n, 1) \in Nat \ {0} /\ Power(n, 2) \in Nat \ {0}
  BY PowerIs
<1>3. Power(n, 3) \in Nat \ {0} /\ Power(n, 4) \in Nat \ {0}
  BY <1>1, PowerIs
<1>4. h = 0 \/ h = 1 \/ h = 2 \/ h = 3 \/ h = 4
  OBVIOUS
<1> QED BY <1>2, <1>3, <1>4

(* What does not reach the wrap is not changed by it.                      *)
LEMMA NoWrap ==
  ASSUME NEW x \in Nat, NEW y \in Nat, x * y < word
  PROVE  Mul(x, y) = x * y
<1> DEFINE p == x * y
<1>1. p \in Nat
  OBVIOUS
<1> HIDE DEF p
<1>2. p < word => p % word = p
  BY <1>1, AgentAssumption
<1> QED BY <1>2 DEF p, Mul

(* The numerator of a score, if it fits a word, is the gain.               *)
LEMMA GainComputed ==
  ASSUME NEW age \in Nat \ {0}, NEW ipc \in Nat \ {0}, NEW level \in 0 .. 3,
         Power(age, level + 1) * ipc < word
  PROVE  /\ Power(age, level + 1) \in Nat \ {0}
         /\ Mul(apply_alpha(age, level), ipc) = Power(age, level + 1) * ipc
         /\ Power(age, level + 1) * ipc \in Nat \ {0}
<1> DEFINE P == Power(age, level + 1)
<1>1. P \in Nat \ {0}
  <2>1. level + 1 \in 0 .. 4
    OBVIOUS
  <2> QED BY <2>1, PowerPositive
<1>2. P < word /\ P * ipc \in Nat \ {0}
  BY <1>1, FactorFits, AgentAssumption
<1>3. apply_alpha(age, level) = P
  <2>1. CASE level = 0
    BY <2>1, PowerIs DEF apply_alpha
  <2>2. CASE level = 1
    BY <2>2, PowerIs DEF apply_alpha
  <2>3. CASE level = 2
    <3>1. P = age * isqrt_u64(age) /\ isqrt_u64(age) \in Nat
      BY <2>3, PowerIs
    <3>2. Mul(age, isqrt_u64(age)) = P
      BY <3>1, <1>2, NoWrap
    <3> QED BY <2>3, <3>2 DEF apply_alpha
  <2>4. CASE level = 3
    <3>1. P = age * age
      BY <2>4, PowerIs
    <3>2. Mul(age, age) = P
      BY <3>1, <1>2, NoWrap
    <3> QED BY <2>4, <3>2 DEF apply_alpha
  <2> QED BY <2>1, <2>2, <2>3, <2>4
<1> HIDE DEF P
<1>4. Mul(P, ipc) = P * ipc
  BY <1>1, NoWrap DEF P
<1> QED BY <1>1, <1>2, <1>3, <1>4 DEF P

(* So is the denominator the cost.                                         *)
LEMMA CostComputed ==
  ASSUME NEW vpc \in Nat, NEW ec \in Nat, NEW level \in 0 .. 4,
         (vpc + 1) * Power(ec + 1, level) < word
  PROVE  /\ Mul(vpc + 1, apply_delta(ec + 1, level)) = (vpc + 1) * Power(ec + 1, level)
         /\ (vpc + 1) * Power(ec + 1, level) \in Nat \ {0}
<1> DEFINE n == ec + 1
           v == vpc + 1
           P == Power(n, level)
<1>0. n \in Nat \ {0} /\ v \in Nat \ {0} /\ v * P < word
  OBVIOUS
<1> HIDE DEF n, v
<1>1. P \in Nat \ {0}
  BY <1>0, PowerPositive
<1>2. P < word /\ v * P \in Nat \ {0}
  BY <1>0, <1>1, FactorFits, AgentAssumption
<1>3. apply_delta(n, level) = P
  <2>1. CASE level = 0
    BY <1>0, <2>1, PowerIs DEF apply_delta
  <2>2. CASE level = 1
    BY <1>0, <2>2, PowerIs DEF apply_delta
  <2>3. CASE level = 2
    BY <1>0, <2>3, PowerIs DEF apply_delta
  <2>4. CASE level = 3
    <3>1. P = n * isqrt_u64(n) /\ isqrt_u64(n) \in Nat
      BY <1>0, <2>4, PowerIs
    <3>2. Mul(n, isqrt_u64(n)) = P
      BY <1>0, <3>1, <1>2, NoWrap
    <3> QED BY <2>4, <3>2 DEF apply_delta
  <2>5. CASE level = 4
    <3>1. P = n * n
      BY <1>0, <2>5, PowerIs
    <3>2. Mul(n, n) = P
      BY <1>0, <3>1, <1>2, NoWrap
    <3> QED BY <2>5, <3>2 DEF apply_delta
  <2> QED BY <2>1, <2>2, <2>3, <2>4, <2>5
<1> HIDE DEF P
<1>4. Mul(v, P) = v * P
  BY <1>0, <1>1, NoWrap
<1> QED BY <1>2, <1>3, <1>4 DEF P, n, v

(* Not to be beaten carries over: the quotients a/x of naturals are        *)
(* ordered, and b/y below c/z or equal to it.                              *)
LEMMA CrossedOrder ==
  ASSUME NEW a \in Nat, NEW b \in Nat, NEW c \in Nat,
         NEW x \in Nat \ {0}, NEW y \in Nat \ {0}, NEW z \in Nat \ {0},
         a * y <= b * x, b * z <= c * y
  PROVE  a * z <= c * x
<1> DEFINE ay == a * y
           bx == b * x
           bz == b * z
           cy == c * y
<1>1. ay \in Nat /\ bx \in Nat /\ bz \in Nat /\ cy \in Nat
  OBVIOUS
<1>2. z * ay <= z * bx /\ x * bz <= x * cy
  BY <1>1, Monotone
<1>3. z * bx = x * bz
  OBVIOUS
<1>4. z * ay = y * (a * z) /\ x * cy = y * (c * x)
  OBVIOUS
<1>5. {z * ay, z * bx, x * bz, x * cy} \subseteq Int
  BY <1>1
<1> DEFINE l == a * z
           g == c * x
<1>6. l \in Nat /\ g \in Nat
  OBVIOUS
<1> HIDE DEF ay, bx, bz, cy, l, g
<1>7. y * l <= y * g
  BY <1>2, <1>3, <1>4, <1>5 DEF l, g
<1>8. ASSUME g < l PROVE FALSE
  <2> DEFINE e == l - g - 1
  <2>1. e \in Nat /\ l = g + 1 + e
    BY <1>6, <1>8
  <2>2. y * e >= 0 /\ y * e \in Int /\ y * g \in Int
    BY <1>6, <2>1
  <2>3. y * l = y * g + y + y * e
    BY <1>6, <2>1
  <2> HIDE DEF e
  <2> QED BY <1>7, <2>2, <2>3
<1> QED BY <1>6, <1>8 DEF l, g

(* The quotient of N and D at i is above that at j.                        *)
Outscores(N, D, i, j) == N[i] * D[j] > N[j] * D[i]

(* The element v of q has no quotient above its own.                       *)
Topmost(q, N, D, v) == \E m \in DOMAIN q : v = q[m] /\ \A i \in DOMAIN q : N[i] * D[m] <= N[m] * D[i]

(* A scan whose comparison is that of quotients of N and D ends with an    *)
(* entry that has none above it.                                           *)
LEMMA ScanIsBest ==
  ASSUME NEW q \in Queues, q # <<>>, NEW beats,
         NEW N \in [DOMAIN q -> Nat], NEW D \in [DOMAIN q -> Nat \ {0}],
         \A i, j \in DOMAIN q : <<i, j>> \in beats <=> Outscores(N, D, i, j),
         NEW v \in Scan(q, beats)
  PROVE  Topmost(q, N, D, v)
<1>1. PICK n \in 0 .. Cardinality(Lines) : q \in [1 .. n -> Entries]
  BY DEF Queues
<1>2. Cardinality(Lines) \in Nat
  BY AgentAssumption, FS_CardinalityType
<1>3. n \in Nat /\ DOMAIN q = 1 .. n
  BY <1>1, <1>2
<1>4. q \in Seq(Entries) /\ Len(q) = n
  BY <1>1, <1>3
<1>5. n # 0
  BY <1>4
<1>6. PICK best \in [DOMAIN q -> DOMAIN q] :
        /\ v = q[best[Len(q)]]
        /\ best[1] = 1
        /\ \A i \in DOMAIN q \ {1} :
             best[i] = IF <<i, best[i - 1]>> \in beats THEN i ELSE best[i - 1]
  BY DEF Scan
<1> DEFINE T == {k \in 0 .. n - 1 :
                   \A i \in 1 .. k + 1 : N[i] * D[best[k + 1]] <= N[best[k + 1]] * D[i]}
<1>7. 0 \in T
  <2>1. 1 \in DOMAIN q
    BY <1>3, <1>5
  <2>2. N[1] * D[1] <= N[1] * D[1]
    <3>1. N[1] \in Nat /\ D[1] \in Nat
      BY <2>1
    <3> QED BY <3>1
  <2>3. \A i \in 1 .. 0 + 1 : i = 1
    OBVIOUS
  <2> QED BY <1>3, <1>5, <1>6, <2>2, <2>3
<1>8. ASSUME NEW k \in 0 .. (n - 1) - 1, k \in T PROVE k + 1 \in T
  <2> DEFINE o == best[k + 1]
             b == best[k + 2]
  <2>1. /\ k + 1 \in DOMAIN q /\ k + 2 \in DOMAIN q \ {1} /\ (k + 2) - 1 = k + 1
        /\ (k + 1) + 1 = k + 2 /\ k + 1 \in 0 .. n - 1
    BY <1>3
  <2>2. o \in DOMAIN q /\ b \in DOMAIN q
    BY <1>6, <2>1
  <2>3. b = IF <<k + 2, o>> \in beats THEN k + 2 ELSE o
    BY <1>6, <2>1
  <2>4. \A i \in 1 .. k + 1 : i \in DOMAIN q /\ N[i] * D[o] <= N[o] * D[i]
    <3>1. \A i \in 1 .. k + 1 : N[i] * D[o] <= N[o] * D[i]
      BY <1>8
    <3>2. \A i \in 1 .. k + 1 : i \in DOMAIN q
      BY <1>3
    <3> QED BY <3>1, <3>2
  <2> HIDE DEF o, b
  <2>5. \A i \in DOMAIN q : N[i] \in Nat /\ D[i] \in Nat \ {0}
    OBVIOUS
  <2>6. N[o] * D[b] <= N[b] * D[o]
    <3>1. {N[o] * D[b], N[b] * D[o], N[k + 2] * D[o], N[o] * D[k + 2]} \subseteq Int
      BY <2>1, <2>2, <2>5
    <3>2. CASE <<k + 2, o>> \in beats
      <4>1. N[k + 2] * D[o] > N[o] * D[k + 2]
        BY <2>1, <2>2, <3>2 DEF Outscores
      <4> QED BY <2>3, <3>1, <3>2, <4>1
    <3>3. CASE <<k + 2, o>> \notin beats
      BY <2>3, <3>1, <3>3
    <3> QED BY <3>2, <3>3
  <2>7. N[k + 2] * D[b] <= N[b] * D[k + 2]
    <3>1. {N[k + 2] * D[b], N[b] * D[k + 2], N[k + 2] * D[o], N[o] * D[k + 2]} \subseteq Int
      BY <2>1, <2>2, <2>5
    <3>2. CASE <<k + 2, o>> \in beats
      BY <2>3, <3>1, <3>2
    <3>3. CASE <<k + 2, o>> \notin beats
      <4>1. ~(N[k + 2] * D[o] > N[o] * D[k + 2])
        BY <2>1, <2>2, <3>3 DEF Outscores
      <4> QED BY <2>3, <3>1, <3>3, <4>1
    <3> QED BY <3>2, <3>3
  <2>8. ASSUME NEW i \in 1 .. k + 2 PROVE N[i] * D[b] <= N[b] * D[i]
    <3>1. CASE i = k + 2
      BY <2>7, <3>1
    <3>2. CASE i \in 1 .. k + 1
      <4>1. N[i] * D[o] <= N[o] * D[i] /\ i \in DOMAIN q
        BY <2>4, <3>2
      <4>2. /\ N[i] \in Nat /\ N[o] \in Nat /\ N[b] \in Nat
            /\ D[i] \in Nat \ {0} /\ D[o] \in Nat \ {0} /\ D[b] \in Nat \ {0}
        BY <2>2, <2>5, <4>1
      <4> QED BY <2>6, <4>1, <4>2, CrossedOrder
    <3> QED BY <3>1, <3>2
  <2> QED BY <2>1, <2>8 DEF b
<1> HIDE DEF T
<1>9. n - 1 \in T
  <2>1. n - 1 \in Nat /\ n - 1 \in 0 .. n - 1
    BY <1>3, <1>5
  <2> QED BY <1>7, <1>8, <2>1, InductionTo
<1>10. n \in DOMAIN q
  BY <1>3, <1>5
<1>11. \A i \in 1 .. (n - 1) + 1 : N[i] * D[best[(n - 1) + 1]] <= N[best[(n - 1) + 1]] * D[i]
  BY <1>9 DEF T
<1>12. (n - 1) + 1 = n
  BY <1>3
<1>13. best[n] \in DOMAIN q
  BY <1>6, <1>10
<1> QED BY <1>3, <1>4, <1>6, <1>11, <1>12, <1>13 DEF Topmost

-----------------------------------------------------------------------------
(* The theorems.                                                           *)

IInv ==
  /\ CountsInv
  /\ prev_range \in Int /\ copied \in Nat /\ charged \in Nat /\ gc_mode \in Modes
  /\ pc \in {"collect", "learn"} => victim.vpc \in Nat
  /\ \A p \in DOMAIN q_table : q_table[p] \in QMin .. QMax
  /\ VictimScoresHighest

(* The range of the table holds zero.                                      *)
LEMMA RangeHoldsZero ==
  ASSUME NEW most \in Nat
  PROVE  QFloor(most) \in Int /\ QMax \in Int /\ 0 \in QFloor(most) .. QMax
<1> DEFINE r == Waf(most) + 2 * RL_LAMBDA
<1>1. r \in Nat /\ 2 * RL_LAMBDA \in Nat
  BY AgentAssumption, WafRises
<1>2. QFloor(most) = -((RL_Q_SCALE * r + RL_Q_SCALE - RL_GAMMA - 1) \div (RL_Q_SCALE - RL_GAMMA))
  BY DEF QFloor
<1> HIDE DEF r
<1>3. (RL_Q_SCALE * r + RL_Q_SCALE - RL_GAMMA - 1) \div (RL_Q_SCALE - RL_GAMMA) \in Nat
  BY <1>1, Discounted
<1>4. QMax \in Nat
  BY <1>1, Discounted DEF QMax
<1> QED BY <1>2, <1>3, <1>4

(* A larger charge does not make the range narrower.                       *)
LEMMA FloorFalls ==
  ASSUME NEW n \in Nat, NEW m \in Nat, n <= m
  PROVE  QFloor(n) \in Int /\ QFloor(m) \in Int /\ QFloor(m) <= QFloor(n)
<1> DEFINE G == RL_Q_SCALE - RL_GAMMA
           rn == Waf(n) + 2 * RL_LAMBDA
           rm == Waf(m) + 2 * RL_LAMBDA
           a == RL_Q_SCALE * rn + RL_Q_SCALE - RL_GAMMA - 1
           b == RL_Q_SCALE * rm + RL_Q_SCALE - RL_GAMMA - 1
           k == b \div G
<1>1. RL_Q_SCALE \in Nat \ {0} /\ RL_GAMMA \in Nat /\ G \in Nat \ {0} /\ RL_LAMBDA \in Nat
      /\ RL_Q_SCALE = RL_GAMMA + G
  BY AgentAssumption
<1>2. rn \in Nat /\ rm \in Nat /\ rn <= rm
  BY <1>1, WafRises
<1>3. QFloor(n) = -(a \div G) /\ QFloor(m) = -k
  BY DEF QFloor
<1> HIDE DEF rn, rm
<1>4. RL_Q_SCALE * rn <= RL_Q_SCALE * rm /\ RL_Q_SCALE * rn \in Nat /\ RL_Q_SCALE * rm \in Nat
  BY <1>1, <1>2, Monotone
<1>5. a \in Nat /\ b \in Nat /\ a <= b
  BY <1>1, <1>4
<1> HIDE DEF G, a, b
<1>6. k \in Nat /\ b < G * k + G
  BY <1>1, <1>5, Quotient
<1> HIDE DEF k
<1> DEFINE l == a \div G
<1>7. l \in Nat /\ G * l <= a
  BY <1>1, <1>5, Quotient
<1> HIDE DEF l
<1>8. ASSUME k < l PROVE FALSE
  <2>1. k + 1 <= l /\ k + 1 \in Nat
    BY <1>6, <1>7, <1>8
  <2>2. G * (k + 1) <= G * l
    BY <1>1, <1>7, <2>1, Monotone
  <2>3. G * (k + 1) = G * k + G
    <3>1. \A x, y \in Nat : x * (y + 1) = x * y + x
      OBVIOUS
    <3> QED BY <1>1, <1>6, <3>1
  <2>4. G * k \in Int /\ G * l \in Int
    BY <1>1, <1>6, <1>7
  <2> QED BY <1>1, <1>5, <1>6, <1>7, <2>2, <2>3, <2>4
<1>9. QFloor(n) = -l /\ QFloor(m) = -k
  BY <1>3 DEF l
<1> QED BY <1>6, <1>7, <1>8, <1>9

(* Of any state and action.                                                *)
LEMMA QInRange ==
  ASSUME NEW most \in Nat, \A p \in DOMAIN q_table : q_table[p] \in QFloor(most) .. QMax
  PROVE  \A s, a : Q(s, a) \in QFloor(most) .. QMax
BY RangeHoldsZero DEF Q

(* A scored victim is an entry of the queue.                                      *)
LEMMA VictimInQueue ==
  ASSUME NEW q \in Queues, q # <<>>, NEW alpha, NEW delta, NEW c \in select_victim_scored(q, alpha, delta)
  PROVE  \E m \in DOMAIN q : c = q[m]
<1>1. PICK n \in 0 .. Cardinality(Lines) : q \in [1 .. n -> Entries]
  BY DEF Queues
<1>2. Cardinality(Lines) \in Nat
  BY AgentAssumption, FS_CardinalityType
<1>3. n \in Nat
  BY <1>1, <1>2
<1>4. n # 0
  <2>1. CASE n = 0
    <3>1. q \in Seq(Entries) /\ Len(q) = 0
      BY <1>1, <1>3, <2>1
    <3> QED BY <3>1
  <2> QED BY <2>1
<1>5. Len(q) \in DOMAIN q
  <2>1. q \in Seq(Entries) /\ Len(q) = n
    BY <1>1, <1>3
  <2> QED BY <1>1, <1>3, <1>4, <2>1
<1>6. PICK best \in [DOMAIN q -> DOMAIN q] : c = q[best[Len(q)]]
  BY DEF select_victim_scored, Scan
<1> QED BY <1>5, <1>6

(* Entries have an age, and an invalid page to gain.                       *)
LEMMA EntryIs ==
  ASSUME NEW q \in Queues, NEW i \in DOMAIN q
  PROVE  /\ q[i].line \in Lines /\ q[i].vpc \in Nat
         /\ q[i].ipc \in Nat \ {0} /\ q[i].age \in Nat \ {0}
<1>1. PICK n \in 0 .. Cardinality(Lines) : q \in [1 .. n -> Entries]
  BY DEF Queues
<1>2. PICK l \in Lines, v \in 0 .. pgs_per_line - 1, w \in Ages :
        q[i] = [line |-> l, vpc |-> v, ipc |-> pgs_per_line - v, age |-> w]
  BY <1>1 DEF Entries
<1>3. w \in Nat \ {0}
  BY AgentAssumption
<1>4. v \in Nat /\ pgs_per_line - v \in Nat \ {0}
  BY AgentAssumption
<1> QED BY <1>2, <1>3, <1>4

(* select_victim_scored takes an entry of the highest score.               *)
LEMMA BestIsSelected ==
  ASSUME erase_cnt \in [Lines -> Nat], NEW q \in Queues, q # <<>>,
         NEW alpha \in 0 .. 3, NEW delta \in 0 .. 4, NEW v \in select_victim_scored(q, alpha, delta),
         \A i, j \in DOMAIN q : Gain(q[i], alpha) * Cost(q[j], delta) < word
  PROVE  /\ \E m \in DOMAIN q : v = q[m]
         /\ \A i \in DOMAIN q : Gain(q[i], alpha) * Cost(v, delta) <= Gain(v, alpha) * Cost(q[i], delta)
<1> DEFINE beats == {p \in Pairs(q) : Beats(q[p[1]], q[p[2]], alpha, delta)}
           N == [i \in DOMAIN q |-> Gain(q[i], alpha)]
           D == [i \in DOMAIN q |-> Cost(q[i], delta)]
<1>1. alpha \in 0 .. 3 /\ delta \in 0 .. 4
  OBVIOUS
<1>2. \A i \in DOMAIN q :
        /\ q[i].line \in Lines /\ q[i].vpc \in Nat /\ erase_cnt[q[i].line] \in Nat
        /\ q[i].ipc \in Nat \ {0} /\ q[i].age \in Nat \ {0}
  BY EntryIs
<1>3. \A i \in DOMAIN q : Gain(q[i], alpha) \in Nat \ {0} /\ Cost(q[i], delta) \in Nat \ {0}
  <2> SUFFICES ASSUME NEW i \in DOMAIN q
               PROVE  Gain(q[i], alpha) \in Nat \ {0} /\ Cost(q[i], delta) \in Nat \ {0}
    OBVIOUS
  <2>1. Power(q[i].age, alpha + 1) \in Nat \ {0}
    <3>1. alpha + 1 \in 0 .. 4 /\ q[i].age \in Nat \ {0}
      BY <1>1, <1>2
    <3> QED BY <3>1, PowerPositive
  <2>2. Power(erase_cnt[q[i].line] + 1, delta) \in Nat \ {0}
    <3>1. erase_cnt[q[i].line] + 1 \in Nat \ {0} /\ delta \in 0 .. 4
      BY <1>1, <1>2
    <3> QED BY <3>1, PowerPositive
  <2>3. q[i].vpc + 1 \in Nat \ {0} /\ q[i].ipc \in Nat \ {0}
    BY <1>2
  <2>4. Power(q[i].age, alpha + 1) * q[i].ipc \in Nat \ {0}
    BY <2>1, <2>3, FactorFits
  <2>5. (q[i].vpc + 1) * Power(erase_cnt[q[i].line] + 1, delta) \in Nat \ {0}
    BY <2>2, <2>3, FactorFits
  <2> QED BY <2>4, <2>5 DEF Gain, Cost
<1>4. \A i \in DOMAIN q : Gain(q[i], alpha) < word /\ Cost(q[i], delta) < word
  <2> SUFFICES ASSUME NEW i \in DOMAIN q PROVE Gain(q[i], alpha) < word /\ Cost(q[i], delta) < word
    OBVIOUS
  <2> DEFINE g == Gain(q[i], alpha)
             c == Cost(q[i], delta)
  <2>1. g \in Nat \ {0} /\ c \in Nat \ {0} /\ g * c < word
    BY <1>3
  <2> HIDE DEF g, c
  <2>2. g <= g * c /\ c <= g * c /\ g * c \in Nat
    BY <2>1, FactorFits
  <2>3. word \in Nat
    BY AgentAssumption
  <2> QED BY <2>1, <2>2, <2>3 DEF g, c
<1>5. \A i \in DOMAIN q : num(q[i], alpha) = Gain(q[i], alpha) /\ den(q[i], delta) = Cost(q[i], delta)
  <2> SUFFICES ASSUME NEW i \in DOMAIN q
               PROVE  num(q[i], alpha) = Gain(q[i], alpha) /\ den(q[i], delta) = Cost(q[i], delta)
    OBVIOUS
  <2>1. Power(q[i].age, alpha + 1) * q[i].ipc < word
    BY <1>4 DEF Gain
  <2>2. Mul(apply_alpha(q[i].age, alpha), q[i].ipc) = Power(q[i].age, alpha + 1) * q[i].ipc
    BY <1>1, <1>2, <2>1, GainComputed
  <2>3. (q[i].vpc + 1) * Power(erase_cnt[q[i].line] + 1, delta) < word
    BY <1>4 DEF Cost
  <2> DEFINE c == Mul(q[i].vpc + 1, apply_delta(erase_cnt[q[i].line] + 1, delta))
  <2>4. c = (q[i].vpc + 1) * Power(erase_cnt[q[i].line] + 1, delta)
    BY <1>1, <1>2, <2>3, CostComputed
  <2>5. c = Cost(q[i], delta)
    BY <2>4 DEF Cost
  <2>6. c # 0
    BY <1>3, <2>5
  <2>7. den(q[i], delta) = c
    BY <2>6 DEF den
  <2> QED BY <2>2, <2>5, <2>7 DEF num, Gain
<1>6. \A i, j \in DOMAIN q : <<i, j>> \in beats <=> Outscores(N, D, i, j)
  <2> SUFFICES ASSUME NEW i \in DOMAIN q, NEW j \in DOMAIN q
               PROVE  <<i, j>> \in beats <=> N[i] * D[j] > N[j] * D[i]
    BY DEF Outscores
  <2>1. <<i, j>> \in beats <=> Beats(q[i], q[j], alpha, delta)
    BY DEF Pairs
  <2>2. /\ num(q[i], alpha) = Gain(q[i], alpha) /\ den(q[j], delta) = Cost(q[j], delta)
        /\ num(q[j], alpha) = Gain(q[j], alpha) /\ den(q[i], delta) = Cost(q[i], delta)
    BY <1>5
  <2>3. /\ Mul(Gain(q[i], alpha), Cost(q[j], delta)) = Gain(q[i], alpha) * Cost(q[j], delta)
        /\ Mul(Gain(q[j], alpha), Cost(q[i], delta)) = Gain(q[j], alpha) * Cost(q[i], delta)
    <3>1. Gain(q[i], alpha) \in Nat /\ Cost(q[j], delta) \in Nat /\ Gain(q[i], alpha) * Cost(q[j], delta) < word
      BY <1>3
    <3>2. Gain(q[j], alpha) \in Nat /\ Cost(q[i], delta) \in Nat /\ Gain(q[j], alpha) * Cost(q[i], delta) < word
      BY <1>3
    <3> QED BY <3>1, <3>2, NoWrap
  <2>4. Beats(q[i], q[j], alpha, delta)
          <=> Gain(q[i], alpha) * Cost(q[j], delta) > Gain(q[j], alpha) * Cost(q[i], delta)
    BY <2>2, <2>3 DEF Beats
  <2> QED BY <2>1, <2>4
<1>7. N \in [DOMAIN q -> Nat] /\ D \in [DOMAIN q -> Nat \ {0}]
  BY <1>3
<1>8. v \in Scan(q, beats)
  BY DEF select_victim_scored
<1> HIDE DEF beats, N, D
<1>9. Topmost(q, N, D, v)
  BY <1>6, <1>7, <1>8, ScanIsBest
<1>10. PICK m \in DOMAIN q : v = q[m] /\ \A i \in DOMAIN q : N[i] * D[m] <= N[m] * D[i]
  BY <1>9 DEF Topmost
<1> QED BY <1>10 DEF N, D

(* The action is one of the twenty.                                        *)
LEMMA ChosenIsAction ==
  ASSUME NEW most \in Nat, \A p \in DOMAIN q_table : q_table[p] \in QFloor(most) .. QMax, NEW s
  PROVE  Chosen(s) \subseteq Actions
<1> DEFINE low == QFloor(most)
<1>1. \A a \in Actions : Q(s, a) \in low .. QMax
  BY QInRange
<1>2. low \in Int /\ QMax \in Int /\ QMax - low \in Nat
  BY RangeHoldsZero
<1> HIDE DEF low
<1> DEFINE T == {Q(s, a) - low : a \in Actions}
<1>3. T \subseteq 0 .. QMax - low
  <2> SUFFICES ASSUME NEW a \in Actions PROVE Q(s, a) - low \in 0 .. QMax - low
    OBVIOUS
  <2>1. Q(s, a) \in low .. QMax
    BY <1>1
  <2> QED BY <1>2, <2>1
<1>4. 0 \in Actions
  BY DEF Actions, RL_NUM_A1, RL_NUM_A2
<1>5. T # {}
  BY <1>4
<1>6. PICK x \in T : \A y \in T : y <= x
  <2> HIDE DEF T
  <2> QED BY <1>2, <1>3, <1>5, GreatestNat
<1>7. PICK a \in Actions : x = Q(s, a) - low
  BY <1>6
<1>8. \A b \in Actions : Q(s, a) >= Q(s, b)
  <2> SUFFICES ASSUME NEW b \in Actions PROVE Q(s, a) >= Q(s, b)
    OBVIOUS
  <2>1. Q(s, b) - low <= Q(s, a) - low
    BY <1>6, <1>7
  <2>2. Q(s, a) \in Int /\ Q(s, b) \in Int
    BY <1>1, <1>2
  <2> QED BY <1>2, <2>1, <2>2
<1>9. Greedy(s) # {} /\ Greedy(s) \subseteq Actions
  BY <1>8 DEF Greedy
<1>10. Actions \subseteq Nat
  BY DEF Actions
<1>11. \E b \in Greedy(s) : \A c \in Greedy(s) : b <= c
  <2>1. Greedy(s) \subseteq Nat
    BY <1>9, <1>10
  <2> QED BY <1>9, <2>1, LeastNat
<1>12. (CHOOSE b \in Greedy(s) : \A c \in Greedy(s) : b <= c) \in Actions
  BY <1>9, <1>11
<1> QED BY <1>12, AgentAssumption DEF Chosen

(* At the start.                                                           *)
LEMMA InitIInv == ASSUME Init PROVE IInv
<1>1. CountsInv
  <2>1. PICK l \in Lines : TRUE
    BY AgentAssumption
  <2>2. erase_cnt \in [Lines -> Nat] /\ \A m \in Lines : erase_cnt[m] = 0
    BY DEF Init
  <2>3. Largest(erase_cnt, 0) /\ Smallest(erase_cnt, 0)
    BY <2>1, <2>2 DEF Largest, Smallest
  <2> QED BY <2>2, <2>3 DEF CountsInv
<1>2. VictimScoresHighest
  BY DEF Init, VictimScoresHighest
<1> QED BY <1>1, <1>2 DEF Init, IInv

(* A selection by score makes the property true.                           *)
LEMMA Selected ==
  ASSUME erase_cnt \in [Lines -> Nat], UNCHANGED erase_cnt,
         NEW q \in Queues, q # <<>>, queue' = q,
         NEW alpha \in 0 .. 3, NEW delta \in 0 .. 4, levels' = <<alpha, delta>>,
         victim' \in select_victim_scored(q, alpha, delta)
  PROVE  VictimScoresHighest' /\ victim'.vpc \in Nat
<1> DEFINE v == victim'
<1>1. v \in select_victim_scored(q, alpha, delta)
  OBVIOUS
<1>2. v = victim'
  OBVIOUS
<1> HIDE DEF v
<1>3. (\A i, j \in DOMAIN q : Gain(q[i], alpha) * Cost(q[j], delta) < word) =>
         \A i \in DOMAIN q : Gain(q[i], alpha) * Cost(v, delta) <= Gain(v, alpha) * Cost(q[i], delta)
  BY <1>1, BestIsSelected
<1>4. \E m \in DOMAIN q : v = q[m]
  BY <1>1, VictimInQueue
<1>5. v.vpc \in Nat
  BY <1>4, EntryIs
<1>6. VictimScoresHighest'
  BY <1>2, <1>3 DEF VictimScoresHighest, Cost
<1> QED BY <1>2, <1>5, <1>6

(* The two fixed levels, and those of an action, are levels.               *)
LEMMA AreLevels ==
  /\ \A a \in Actions : alpha_level(a) \in 0 .. 3 /\ delta_level(a) \in 0 .. 4
  /\ \A mode \in {"cb", "cat"} :
       /\ Fixed[mode] = <<Fixed[mode][1], Fixed[mode][2]>>
       /\ Fixed[mode][1] \in 0 .. 3 /\ Fixed[mode][2] \in 0 .. 4
<1>1. \A a \in Actions : alpha_level(a) \in 0 .. 3 /\ delta_level(a) \in 0 .. 4
  BY DEF Actions, RL_NUM_A1, RL_NUM_A2, alpha_level, delta_level
<1> QED BY <1>1 DEF Fixed

(* Each action keeps the invariant.                                        *)
LEMMA NextIInv == ASSUME IInv, [Next]_vars PROVE IInv'
<1>1. CASE SetMode
  <2>1. /\ gc_mode' \in Modes
        /\ UNCHANGED <<pc, erase_cnt, q_table, prev_range, copied, charged, queue, levels, victim>>
    BY <1>1 DEF SetMode, rlVars, chosenVars
  <2>2. VictimScoresHighest'
    BY <2>1 DEF IInv, VictimScoresHighest, Cost
  <2> QED BY <2>1, <2>2 DEF IInv, CountsInv, Largest, Smallest, QMin
<1>2. CASE HostWrite
  <2>1. /\ pc = "host"
        /\ UNCHANGED <<pc, gc_mode, erase_cnt, q_table, prev_range, copied, charged, victim>>
    BY <1>2 DEF HostWrite, rlVars, chosenVars
  <2>2. VictimScoresHighest'
    BY <2>1 DEF VictimScoresHighest
  <2> QED BY <2>1, <2>2 DEF IInv, CountsInv, Largest, Smallest, QMin
<1>3. CASE Observe
  <2>1. pc = "host" /\ UNCHANGED <<gc_mode, erase_cnt, q_table, prev_range, copied, charged>>
    BY <1>3 DEF Observe, rlVars
  <2>2. PICK q \in Queues, a \in UNION {Chosen(s) : s \in {rl_get_state(x) : x \in Queues}} :
          IF q = <<>> THEN UNCHANGED <<pc, chosenVars>>
          ELSE /\ pc' = "collect" /\ queue' = q /\ levels' = <<alpha_level(a), delta_level(a)>>
               /\ victim' \in select_victim_scored(q, alpha_level(a), delta_level(a))
    BY <1>3 DEF Observe
  <2>3. CASE q = <<>>
    <3>1. UNCHANGED <<pc, victim>>
      BY <2>2, <2>3 DEF chosenVars
    <3>2. VictimScoresHighest'
      BY <2>1, <3>1 DEF VictimScoresHighest
    <3> QED BY <2>1, <3>1, <3>2 DEF IInv, CountsInv, Largest, Smallest, QMin
  <2>4. CASE q # <<>>
    <3>1. a \in Actions
      <4>1. charged \in Nat /\ \A p \in DOMAIN q_table : q_table[p] \in QFloor(charged) .. QMax
        BY DEF IInv, QMin
      <4> QED BY <4>1, ChosenIsAction
    <3>2. alpha_level(a) \in 0 .. 3 /\ delta_level(a) \in 0 .. 4
      BY <3>1, AreLevels
    <3>3. erase_cnt \in [Lines -> Nat]
      BY DEF IInv, CountsInv
    <3>4. VictimScoresHighest' /\ victim'.vpc \in Nat
      BY <2>1, <2>2, <2>4, <3>2, <3>3, Selected
    <3> QED BY <2>1, <3>4 DEF IInv, CountsInv, Largest, Smallest, QMin
  <2> QED BY <2>3, <2>4
<1>4. CASE SelectOther
  <2>1. /\ pc' = "collect" /\ gc_mode # "rl"
        /\ UNCHANGED <<gc_mode, erase_cnt, q_table, prev_range, copied, charged>>
    BY <1>4 DEF SelectOther, rlVars
  <2>2. PICK q \in Queues :
          /\ q # <<>> /\ queue' = q
          /\ \/ levels' = <<>> /\ victim' \in select_victim_greedy(q)
             \/ /\ gc_mode # "greedy" /\ levels' = Fixed[gc_mode]
                /\ victim' \in select_victim_scored(q, Fixed[gc_mode][1], Fixed[gc_mode][2])
    BY <1>4 DEF SelectOther
  <2>3. CASE levels' = <<>> /\ victim' \in select_victim_greedy(q)
    <3>1. PICK i \in DOMAIN q : victim' = q[i]
      BY <2>3 DEF select_victim_greedy
    <3>2. victim'.vpc \in Nat
      BY <3>1, EntryIs
    <3>3. VictimScoresHighest'
      BY <2>3 DEF VictimScoresHighest
    <3> QED BY <2>1, <3>2, <3>3 DEF IInv, CountsInv, Largest, Smallest, QMin
  <2>4. CASE /\ gc_mode # "greedy" /\ levels' = Fixed[gc_mode]
             /\ victim' \in select_victim_scored(q, Fixed[gc_mode][1], Fixed[gc_mode][2])
    <3>1. gc_mode \in {"cb", "cat"}
      BY <2>1, <2>4, AgentAssumption DEF IInv
    <3>2. /\ levels' = <<Fixed[gc_mode][1], Fixed[gc_mode][2]>>
          /\ Fixed[gc_mode][1] \in 0 .. 3 /\ Fixed[gc_mode][2] \in 0 .. 4
      BY <2>4, <3>1, AreLevels
    <3>3. erase_cnt \in [Lines -> Nat]
      BY DEF IInv, CountsInv
    <3>4. VictimScoresHighest' /\ victim'.vpc \in Nat
      BY <2>1, <2>2, <2>4, <3>2, <3>3, Selected
    <3> QED BY <2>1, <3>4 DEF IInv, CountsInv, Largest, Smallest, QMin
  <2> QED BY <2>2, <2>3, <2>4
<1>5. CASE Collect
  <2>1. /\ pc = "collect" /\ pc' = "learn"
        /\ erase_cnt' = [erase_cnt EXCEPT ![victim.line] = @ + 1]
        /\ copied' = copied + victim.vpc
        /\ UNCHANGED <<gc_mode, q_table, prev_range, charged, victim>>
    BY <1>5 DEF Collect, rlVars
  <2>2. CountsInv'
    BY <2>1, CountsStep DEF IInv
  <2>3. victim.vpc \in Nat /\ copied' \in Nat
    BY <2>1 DEF IInv
  <2>4. VictimScoresHighest'
    BY <2>1 DEF VictimScoresHighest
  <2> QED BY <2>1, <2>2, <2>3, <2>4 DEF IInv, QMin
<1>6. CASE Learn
  <2>1. /\ pc = "learn" /\ pc' = "host" /\ prev_range' = EraseRange(erase_cnt)
        /\ copied' = 0 /\ charged' = IF copied > charged THEN copied ELSE charged
        /\ UNCHANGED <<gc_mode, erase_cnt>>
    BY <1>6 DEF Learn
  <2> DEFINE here == <<cur_state, cur_action>>
             reward == Reward(copied, EraseRange(erase_cnt), EraseMean(erase_cnt))
             most == charged'
  <2>2. PICK new_state, best :
          q_table' = [p \in DOMAIN q_table \cup {here} |->
            IF p = here THEN Updated(Q(cur_state, cur_action), reward, Q(new_state, best))
            ELSE q_table[p]]
    BY <1>6 DEF Learn
  <2>3. /\ copied \in Nat /\ charged \in Nat /\ most \in Nat
        /\ copied <= most /\ charged <= most
    BY <2>1 DEF IInv
  <2> HIDE DEF most
  <2>4. copied \in 0 .. most
    BY <2>3
  <2>5. reward \in -(Waf(most) + 2 * RL_LAMBDA) .. 2 * RL_LAMBDA
    BY <2>3, <2>4, RangeIsInt, MeanIsNat, RewardBounded DEF IInv
  <2>6. \A p \in DOMAIN q_table : q_table[p] \in QFloor(most) .. QMax
    <3>1. QFloor(charged) \in Int /\ QFloor(most) \in Int /\ QFloor(most) <= QFloor(charged)
      BY <2>3, FloorFalls
    <3>2. QMax \in Int
      BY <2>3, RangeHoldsZero
    <3> QED BY <3>1, <3>2 DEF IInv, QMin
  <2>7. \A s, a : Q(s, a) \in QFloor(most) .. QMax
    BY <2>3, <2>6, QInRange
  <2> HIDE DEF reward
  <2>8. Updated(Q(cur_state, cur_action), reward, Q(new_state, best)) \in QFloor(most) .. QMax
    BY <2>3, <2>5, <2>7, UpdatedBounded
  <2>9. \A p \in DOMAIN q_table' : q_table'[p] \in QFloor(most) .. QMax
    BY <2>2, <2>6, <2>8
  <2>10. \A p \in DOMAIN q_table' : q_table'[p] \in QMin' .. QMax
    BY <2>9 DEF most, QMin, QFloor, Waf
  <2>11. prev_range' \in Int /\ charged' \in Nat
    BY <2>1, <2>3, RangeIsInt DEF IInv, most
  <2>12. CountsInv'
    BY <2>1 DEF IInv, CountsInv, Largest, Smallest
  <2>13. VictimScoresHighest'
    BY <2>1 DEF VictimScoresHighest
  <2>14. QMax' = QMax
    BY DEF QMax
  <2> QED BY <2>1, <2>10, <2>11, <2>12, <2>13, <2>14 DEF IInv
<1>7. CASE Finish
  <2>1. /\ pc' = "host"
        /\ UNCHANGED <<gc_mode, erase_cnt, q_table, prev_range, copied, charged>>
    BY <1>7 DEF Finish
  <2>2. VictimScoresHighest'
    BY <2>1 DEF VictimScoresHighest
  <2> QED BY <2>1, <2>2 DEF IInv, CountsInv, Largest, Smallest, QMin
<1>8. CASE UNCHANGED vars
  <2>1. UNCHANGED <<pc, gc_mode, erase_cnt, q_table, prev_range, copied, charged, queue, levels,
                    victim>>
    BY <1>8 DEF vars, rlVars, chosenVars
  <2>2. VictimScoresHighest'
    BY <2>1 DEF IInv, VictimScoresHighest, Cost
  <2> QED BY <2>1, <2>2 DEF IInv, CountsInv, Largest, Smallest, QMin
<1> QED BY <1>1, <1>2, <1>3, <1>4, <1>5, <1>6, <1>7, <1>8 DEF Next

(* The inductive invariant holds in every reachable state.                 *)
LEMMA Always == Spec => []IInv
<1>1. Init => IInv
  BY InitIInv
<1>2. IInv /\ [Next]_vars => IInv'
  BY NextIInv
<1> QED BY <1>1, <1>2, PTL DEF Spec

(* rl_update keeps the values of the table in the range that the rewards   *)
(* and the discount allow: no sum of roundings carries them further, for   *)
(* any learning rate, discount, weight of wear and scale, and whatever the *)
(* pages that collections under other modes left to be charged.            *)
THEOREM QStaysBounded == Spec => []QBounded
<1>1. IInv => QBounded
  BY RangeHoldsZero DEF IInv, QBounded, QMin
<1> QED BY <1>1, Always, PTL

(* The scored scan of select_victim_scored chooses a victim of the highest *)
(* score, for any queue, erase counts and levels, with Newton's square     *)
(* root and the products of the code, as long as none of these wraps.      *)
THEOREM SelectedScoresHighest == Spec => []VictimScoresHighest
<1>1. IInv => VictimScoresHighest
  BY DEF IInv
<1> QED BY <1>1, Always, PTL

=============================================================================
