------------------------------ MODULE KvTable ------------------------------
(***************************************************************************)
(* The key table of the key-value FTL (kv_ftl.c) over the append-only      *)
(* allocator, which is the one ssd_config.h selects.  The commands are     *)
(* executed by one I/O worker, each to its end (perform_io_cmd).           *)
(*                                                                         *)
(* A value is as many cells of the storage as it has units of length; a    *)
(* cell tells whose last value it is part of.  Keys have one length:       *)
(* memcmp compares whole keys.  A batch is the single stores it holds.     *)
(* Commands that change nothing are left out: retrieve and exist (their    *)
(* result is Found), delete and close of what is not there, a store into a *)
(* full table, where the worker searches for ever.                         *)
(***************************************************************************)
EXTENDS Integers, FiniteSets

CONSTANTS
  Keys, hash_slots, hash,
  storage_size,         (* in units; the host stops at the end of the device *)
  Lengths,              (* of values, in units                            *)
  SMALL_LENGTH,         (* in the same units                              *)
  nr_handles,           (* of iterators; 16 in the code                   *)
  iter_keys,            (* how many keys an iterator returns at a time    *)
  Prefixes,             (* what the prefixes of iterators select          *)
  Nil

Slots == 0 .. hash_slots - 1

ASSUME KvAssumption ==
  /\ hash_slots \in Nat \ {0} /\ hash \in [Keys -> Slots]
  /\ Lengths \subseteq Nat \ {0} /\ SMALL_LENGTH \in Nat /\ iter_keys \in Nat \ {0}
  /\ storage_size \in Nat /\ nr_handles \in Nat
  /\ Prefixes \subseteq SUBSET Keys /\ Nil \notin Keys

VARIABLES
  kv_mapping_table, latest, storage, iter_handle,
  stored,               (* the length of the value the host has stored, or 0  *)
  room,                 (* what was taken for it when the key was inserted    *)
  kept,                 (* stored keys whose last update left the length      *)
  damaged               (* stored keys that the code gave no guarantee for    *)

tableVars == <<kv_mapping_table, latest, storage, stored, room, kept, damaged>>
vars == <<tableVars, iter_handle>>

-----------------------------------------------------------------------------
(* The table.                                                              *)

Empty == [key |-> Nil, mem_offset |-> -1, length |-> -1, next_slot |-> -1]
IsFree(t, s) == t[s].mem_offset = -1

(* The n-th slot of the walk along next_slot that every lookup makes; the  *)
(* walk ends at a free slot or behind the last one.                        *)
Walk(t, s) ==
  LET w[n \in 0 .. hash_slots] ==
        IF n = 0 THEN s
        ELSE IF w[n - 1] = -1 \/ IsFree(t, w[n - 1]) THEN -1
        ELSE t[w[n - 1]].next_slot
  IN  w
Chain(t, s) == {i \in Slots : ~IsFree(t, i) /\ \E n \in 0 .. hash_slots : Walk(t, s)[n] = i}

(* get_mapping_entry: the first slot of its chain that holds the key.      *)
Found(t, k) ==
  LET w == Walk(t, hash[k])
      Hits == {n \in 0 .. hash_slots : w[n] # -1 /\ ~IsFree(t, w[n]) /\ t[w[n]].key = k}
  IN  IF Hits = {} THEN -1 ELSE w[CHOOSE n \in Hits : \A m \in Hits : n <= m]

(* find_next_slot: the last slot of the chain, and the first free slot     *)
(* behind it, with the wrap to slot 0.                                     *)
Tail(t, s) ==
  LET w == Walk(t, s)
      Used == {n \in 0 .. hash_slots : w[n] # -1 /\ ~IsFree(t, w[n])}
  IN  w[CHOOSE n \in Used : \A m \in Used : m <= n]
FreeBehind(t, s) ==
  LET Free == {d \in 1 .. hash_slots - 1 : IsFree(t, (s + d) % hash_slots)}
  IN  (s + CHOOSE d \in Free : \A e \in Free : d <= e) % hash_slots

(* Variant of Linked: chain_mapping with its arguments swapped.            *)
LinkedBack(t, home, slot) == [t EXCEPT ![slot].next_slot = Tail(t, home)]

Linked(t, home, slot) == [t EXCEPT ![Tail(t, home)].next_slot = slot]

(* new_mapping_entry.  A slot filled keeps the next_slot it has.           *)
NewEntry(t, k, length, offset) ==
  LET home == hash[k]
      slot == IF IsFree(t, home) THEN home ELSE FreeBehind(t, Tail(t, home))
      Filled(u) == [u EXCEPT ![slot].key = k, ![slot].mem_offset = offset,
                             ![slot].length = length]
  IN  IF IsFree(t, home) THEN Filled(t) ELSE Filled(Linked(t, home, slot))

-----------------------------------------------------------------------------

(* Variant of Emptied: the link is left.                                   *)
EmptiedButForLink(t, s) == [t EXCEPT ![s] = [Empty EXCEPT !.next_slot = t[s].next_slot]]

(* delete_mapping_entry: the whole entry becomes -1, its link with it.     *)
Emptied(t, s) == [t EXCEPT ![s] = Empty]

-----------------------------------------------------------------------------
(* The allocator and the storage.                                          *)

(* Variant of Allocated: the cursor goes to the end of the first unit.     *)
AllocatedOne(length) == latest' = latest + 1

Allocated(length) == latest' = latest + length

Cells(offset, length) == offset .. offset + length - 1
Copied(k, offset, length) ==
  storage' = [c \in DOMAIN storage |-> IF c \in Cells(offset, length) THEN k
                                       ELSE IF storage[c] = k THEN Nil ELSE storage[c]]

(* Whose values lie, or will lie, where an update of k goes beyond its room. *)
SpilledOn(k, offset, length) ==
  IF length <= room[k] THEN {}
  ELSE {k} \cup {j \in Keys :
         /\ j # k /\ Found(kv_mapping_table, j) # -1
         /\ LET e == kv_mapping_table[Found(kv_mapping_table, j)]
            IN  Cells(e.mem_offset, stored[j]) \cap Cells(offset, length) # {}}

Init ==
  /\ kv_mapping_table = [s \in Slots |-> Empty]
  /\ latest = 0
  /\ storage = [c \in 0 .. storage_size - 1 |-> Nil]
  (* The last handle is not initialised; what it holds may look used.      *)
  /\ \E last \in {"null", "garbage"} :
       iter_handle = [i \in 1 .. nr_handles |->
                        IF i = nr_handles THEN [state |-> last] ELSE [state |-> "null"]]
  /\ stored = [k \in Keys |-> 0] /\ room = [k \in Keys |-> 0]
  /\ kept = {} /\ damaged = {}

Insert(k, length) ==
  /\ Found(kv_mapping_table, k) = -1
  /\ latest + length <= storage_size
  /\ \E s \in Slots : IsFree(kv_mapping_table, s)
  /\ Allocated(length)
  /\ Copied(k, latest, length)
  /\ kv_mapping_table' = NewEntry(kv_mapping_table, k, length, latest)
  /\ stored' = [stored EXCEPT ![k] = length] /\ room' = [room EXCEPT ![k] = length]
  /\ kept' = kept \ {k} /\ damaged' = damaged \ {k}
  /\ UNCHANGED iter_handle

(* Only an update of a small value by a small one changes the length in    *)
(* the table, and no batched one does: otherwise that is an error for the  *)
(* log, and the command succeeds.                                          *)
LengthAfter(e, length, batched) ==
  IF ~batched /\ length <= SMALL_LENGTH /\ e.length <= SMALL_LENGTH THEN length ELSE e.length

(* An update writes over the old value, whatever the lengths.              *)
Overwrite(k, length, batched) ==
  LET s == Found(kv_mapping_table, k)
      e == kv_mapping_table[s]
  IN  /\ s # -1 /\ e.mem_offset + length <= storage_size
      /\ Copied(k, e.mem_offset, length)
      /\ kv_mapping_table' =
           [kv_mapping_table EXCEPT ![s].length = LengthAfter(e, length, batched)]
      /\ stored' = [stored EXCEPT ![k] = length]
      /\ kept' = IF LengthAfter(e, length, batched) = length THEN kept \ {k} ELSE kept \cup {k}
      /\ damaged' = damaged \cup SpilledOn(k, e.mem_offset, length)
      /\ UNCHANGED <<latest, iter_handle, room>>

Store ==
  \E k \in Keys, length \in Lengths, batched \in BOOLEAN :
    Insert(k, length) \/ Overwrite(k, length, batched)

(* The keys found through the slot of a deleted one are not found any more. *)
Delete(k) ==
  LET s == Found(kv_mapping_table, k) IN
  /\ s # -1
  /\ kv_mapping_table' = Emptied(kv_mapping_table, s)
  /\ stored' = [stored EXCEPT ![k] = 0] /\ room' = [room EXCEPT ![k] = 0]
  /\ kept' = kept \ {k}
  /\ damaged' = (damaged \ {k}) \cup
       {j \in Keys \ {k} : stored[j] # 0 /\ s \in Chain(kv_mapping_table, hash[j])
                           /\ Found(kv_mapping_table, j) \in Chain(kv_mapping_table, s)}
  /\ iter_handle' = [i \in 1 .. nr_handles |->
       IF iter_handle[i].state = "open" THEN [iter_handle[i] EXCEPT !.due = @ \ {k}]
       ELSE iter_handle[i]]
  /\ UNCHANGED <<latest, storage>>

-----------------------------------------------------------------------------
(* Iterators.                                                              *)

(* What is due to an iterator: the selected keys found in the table when   *)
(* it is opened, as long as they are not deleted.                          *)
IterOpen(prefix) ==
  LET Unused == {i \in 1 .. nr_handles : iter_handle[i].state = "null"} IN
  /\ Unused # {}
  /\ iter_handle' = [iter_handle EXCEPT ![CHOOSE i \in Unused : \A j \in Unused : i <= j] =
       [state |-> "open", prefix |-> prefix, current_pos |-> 0, ended |-> FALSE, seen |-> {},
        due |-> {k \in prefix : Found(kv_mapping_table, k) # -1}]]
  /\ UNCHANGED tableVars

IterClose(i) ==
  /\ iter_handle[i].state = "open"
  /\ iter_handle' = [iter_handle EXCEPT ![i] = [state |-> "null"]]
  /\ UNCHANGED tableVars

(* Variant of StopsAt: the slot that did not fit is taken for read.        *)
StopsBehind(first, rest) ==
  IF rest = {} THEN hash_slots ELSE (CHOOSE s \in rest : \A r \in rest : s <= r) + 1

(* A read stops at the first selected slot that does not fit any more.     *)
StopsAt(first, rest) ==
  IF rest = {} THEN hash_slots ELSE CHOOSE s \in rest : \A r \in rest : s <= r

(* The end is reported by the read that comes to it, and only by it.       *)
IterRead(i) ==
  LET h == iter_handle[i]
      Selected == {s \in h.current_pos .. hash_slots - 1 :
                     ~IsFree(kv_mapping_table, s) /\ kv_mapping_table[s].key \in h.prefix}
      First == {s \in Selected : Cardinality({r \in Selected : r < s}) < iter_keys}
      pos == StopsAt(First, Selected \ First)
  IN  /\ iter_handle[i].state = "open"
      /\ iter_handle' = [iter_handle EXCEPT
           ![i].current_pos = pos,
           ![i].ended = @ \/ (h.current_pos < hash_slots /\ pos = hash_slots),
           ![i].seen = @ \cup {kv_mapping_table[s].key : s \in First}]
      /\ UNCHANGED tableVars

Iterate ==
  \/ \E prefix \in Prefixes : IterOpen(prefix)
  \/ \E i \in 1 .. nr_handles : IterClose(i) \/ IterRead(i)

Next == Store \/ (\E k \in Keys : Delete(k)) \/ Iterate

Spec == Init /\ [][Next]_vars

-----------------------------------------------------------------------------

(* A lookup ends: no sequence of stores and deletes bends a chain into a   *)
(* ring, though slots are freed in the middle of chains and filled for     *)
(* other keys.                                                             *)
ChainsEnd ==
  \A s \in Slots : LET e == Walk(kv_mapping_table, s)[hash_slots] IN
    e = -1 \/ IsFree(kv_mapping_table, e)

(* A key is found with all of its last value, unless a delete cut its      *)
(* chain in front of it, or an update was longer than the room taken for   *)
(* the value it replaced; and with its length, unless the last update of   *)
(* it was one that keeps the length (batched, or of a value not small).    *)
LastValueIsFound ==
  \A k \in Keys : stored[k] # 0 /\ k \notin damaged =>
    LET s == Found(kv_mapping_table, k) IN
    /\ s # -1 /\ (k \notin kept => kv_mapping_table[s].length = stored[k])
    /\ \A c \in Cells(kv_mapping_table[s].mem_offset, stored[k]) : storage[c] = k

(* A deleted key stays away, whatever copies of it are left in the table   *)
(* by deletes that cut chains.                                             *)
DeletedStaysAway == \A k \in Keys : stored[k] = 0 => Found(kv_mapping_table, k) = -1

(* An iteration that has come to its end has returned every key that was   *)
(* there all the time, also when it took several reads with stores and     *)
(* deletes between them.                                                   *)
IterationIsComplete ==
  \A i \in 1 .. nr_handles :
    iter_handle[i].state = "open" /\ iter_handle[i].ended => iter_handle[i].due \subseteq iter_handle[i].seen

=============================================================================
