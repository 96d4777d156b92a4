------------------------------- MODULE PQueue -------------------------------
(***************************************************************************)
(* pqueue/pqueue.c with the callbacks conv_ftl.c gives it: a binary heap   *)
(* of lines ordered by vpc, each line remembering its position in the      *)
(* array so that mark_page_invalid and select_victim_scored reach it       *)
(* without a search. The array is d[1..size-1]; here d is a sequence.      *)
(***************************************************************************)
EXTENDS Integers, Sequences

CONSTANTS
  Items,      (* the lines                                                  *)
  MaxPri,     (* bound: priorities are 0..MaxPri                            *)
  NONE

ASSUME PriAssumption == MaxPri \in Nat
ASSUME NoneAssumption == NONE \notin Items

VARIABLES
  d,          (* the heap array                                             *)
  pos,        (* line.pos: 0 for a line that is not queued                  *)
  pri,        (* line.vpc                                                   *)
  popped      (* what the last operation, if a Pop, returned                *)

pqVars == <<d, pos, pri, popped>>

Pris == 0 .. MaxPri

(* victim_line_cmp_pri(next, curr): curr goes before next.                 *)
CmpPri(next, curr) == next > curr

Parent(i) == i \div 2
Left(i)   == 2 * i

(* Variant of Put: the line is not told its slot.                          *)
PutSilently(q, i, x) == [d |-> [q.d EXCEPT ![i] = x], pos |-> q.pos]

(* A heap is handled as a record of the array and the positions.           *)
Put(q, i, x) == [d |-> [q.d EXCEPT ![i] = x], pos |-> [q.pos EXCEPT ![x] = i]]

(* Both loops hold a line in moving_node and leave a hole at slot i of the *)
(* heap; a turn moves the line of slot j into the hole and the hole to j.  *)
Hole(q, i) == [q |-> q, i |-> i]
Shift(h, j) == Hole(Put(h.q, h.i, h.q.d[j]), j)
Fill(h, x) == Put(h.q, h.i, x)

(* A turn of bubble_up: a parent that must come after x moves down.        *)
Climb(h, prio, x) ==
  IF h.i > 1 /\ CmpPri(prio[h.q.d[Parent(h.i)]], prio[x])
  THEN Shift(h, Parent(h.i)) ELSE h

(* bubble_up from slot i; i turns are enough to reach the root.            *)
BubbleUp(q, prio, i, x) ==
  LET hole[n \in 0 .. i] == IF n = 0 THEN Hole(q, i) ELSE Climb(hole[n - 1], prio, x)
  IN Fill(hole[i], x)

(* Variant of MaxChild: the right child is never looked at.                *)
LeftChild(q, prio, i) == IF Left(i) > Len(q.d) THEN 0 ELSE Left(i)

(* maxchild: the child of slot i that goes first, or 0 without a child.    *)
MaxChild(q, prio, i) ==
  LET c == Left(i) IN
  IF c > Len(q.d) THEN 0
  ELSE IF c + 1 <= Len(q.d) /\ CmpPri(prio[q.d[c]], prio[q.d[c + 1]]) THEN c + 1
  ELSE c

(* A turn of percolate_down: a child that must come before x moves up.     *)
Sink(h, prio, x) ==
  LET c == MaxChild(h.q, prio, h.i) IN
  IF c # 0 /\ CmpPri(prio[x], prio[h.q.d[c]]) THEN Shift(h, c) ELSE h

(* percolate_down from slot i; as many turns as slots reach the last row.  *)
PercolateDown(q, prio, i, x) ==
  LET hole[n \in 0 .. Len(q.d)] ==
        IF n = 0 THEN Hole(q, i) ELSE Sink(hole[n - 1], prio, x)
  IN Fill(hole[Len(q.d)], x)

(* Variant of Repair: always downwards.                                    *)
RepairDown(q, prio, i, x, old, new) == PercolateDown(q, prio, i, x)

(* Which way a changed slot is repaired, from the old and new priorities.  *)
Repair(q, prio, i, x, old, new) ==
  IF CmpPri(old, new) THEN BubbleUp(q, prio, i, x) ELSE PercolateDown(q, prio, i, x)

Queued == {d[i] : i \in DOMAIN d}
Becomes(q) == d' = q.d /\ pos' = q.pos

(* The line leaves the array: the caller clears line.pos, whatever the     *)
(* repair of the array has left in it.                                     *)
BecomesWithout(q, x) == d' = q.d /\ pos' = [q.pos EXCEPT ![x] = 0]

PQInit ==
  /\ d = <<>>
  /\ pos = [x \in Items |-> 0]
  /\ pri \in [Items -> Pris]
  /\ popped = NONE

(* pqueue_insert of a line whose vpc is p.                                 *)
Insert(x, p) ==
  /\ pos[x] = 0
  /\ pri' = [pri EXCEPT ![x] = p]
  /\ Becomes(BubbleUp([d |-> Append(d, x), pos |-> pos], pri', Len(d) + 1, x))
  /\ popped' = NONE

(* pqueue_change_priority.                                                 *)
ChangePriority(x, p) ==
  /\ pos[x] # 0
  /\ pri' = [pri EXCEPT ![x] = p]
  /\ Becomes(Repair([d |-> d, pos |-> pos], pri', pos[x], x, pri[x], p))
  /\ popped' = NONE

(* The last line of the array takes slot i; the slot it leaves is dropped. *)
(* When i is the last slot itself, the C code repairs a slot past the end, *)
(* which changes nothing but the position of the line that leaves.         *)
MoveLastTo(i) ==
  [d |-> SubSeq([d EXCEPT ![i] = d[Len(d)]], 1, Len(d) - 1), pos |-> pos]

(* pqueue_remove and the clearing of pos in select_victim_scored.          *)
Remove(x) ==
  LET i == pos[x]
      y == d[Len(d)]
      q == MoveLastTo(i)
  IN
  /\ i # 0
  /\ BecomesWithout(IF i = Len(d) THEN q
                    ELSE Repair(q, pri, i, y, pri[x], pri[y]), x)
  /\ popped' = NONE
  /\ UNCHANGED pri

(* pqueue_peek, pqueue_pop and the clearing of pos in select_victim_greedy. *)
Pop ==
  LET q == MoveLastTo(1) IN
  /\ d # <<>>
  /\ BecomesWithout(IF Len(d) = 1 THEN q
                    ELSE PercolateDown(q, pri, 1, d[Len(d)]), d[1])
  /\ popped' = d[1]
  /\ UNCHANGED pri

PQNext ==
  \/ \E x \in Items, p \in Pris : Insert(x, p) \/ ChangePriority(x, p)
  \/ \E x \in Items : Remove(x)
  \/ Pop

PQSpec == PQInit /\ [][PQNext]_pqVars

-----------------------------------------------------------------------------

(* line.pos is the only slot that holds the line, and 0 for a line in no  *)
(* slot: mark_page_invalid decides from it whether to go through the queue. *)
PositionsExact ==
  /\ \A i \in DOMAIN d : pos[d[i]] = i
  /\ \A x \in Items : x \notin Queued => pos[x] = 0

(* pqueue_is_valid: no line goes before its parent.                        *)
HeapOrder == \A i \in 2 .. Len(d) : ~CmpPri(pri[d[Parent(i)]], pri[d[i]])

(* The heap implements the victim queue: no operation loses or duplicates  *)
(* a line, and what Pop takes out has the least vpc.                       *)
Leq(p, r) == p <= r
Abstract == INSTANCE VictimQueue WITH queued <- Queued, out <- popped
ImplementsVictimQueue == Abstract!Spec

=============================================================================
