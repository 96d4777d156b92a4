---------------------------- MODULE VictimQueue -----------------------------
(***************************************************************************)
(* What the FTL expects of its victim queue: a set of lines with a         *)
(* priority each (their vpc), from which a line of least priority comes    *)
(* out first. PQueue implements it with a binary heap.                     *)
(***************************************************************************)
CONSTANTS Items, Pris, Leq(_, _), NONE

VARIABLES
  queued,   (* the items in the queue                                       *)
  pri,      (* the priority of every item, queued or not                    *)
  out       (* what the last operation, if a Pop, returned                  *)

vars == <<queued, pri, out>>

Init == queued = {} /\ pri \in [Items -> Pris] /\ out = NONE

Insert(x, p) ==
  /\ x \notin queued
  /\ queued' = queued \cup {x}
  /\ pri' = [pri EXCEPT ![x] = p]
  /\ out' = NONE

ChangePriority(x, p) ==
  /\ x \in queued
  /\ pri' = [pri EXCEPT ![x] = p]
  /\ out' = NONE
  /\ UNCHANGED queued

Remove(x) ==
  /\ x \in queued
  /\ queued' = queued \ {x}
  /\ out' = NONE
  /\ UNCHANGED pri

(* select_victim_greedy: the popped line has the least vpc of all.         *)
Pop ==
  \E x \in queued :
    /\ \A y \in queued : Leq(pri[x], pri[y])
    /\ queued' = queued \ {x}
    /\ out' = x
    /\ UNCHANGED pri

Next ==
  \/ \E x \in Items, p \in Pris : Insert(x, p) \/ ChangePriority(x, p)
  \/ \E x \in Items : Remove(x)
  \/ Pop

Spec == Init /\ [][Next]_vars
=============================================================================
