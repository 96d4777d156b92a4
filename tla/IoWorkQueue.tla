----------------------------- MODULE IoWorkQueue -----------------------------
(***************************************************************************)
(* The work queue between the dispatcher and one I/O worker (io.c).  The   *)
(* entries sit in one array; index links chain them into the list of       *)
(* requests in flight and the list of free entries.  The dispatcher alone  *)
(* links and unlinks entries; the worker walks the first list without a    *)
(* lock, performs each request, and completes it once it is due.           *)
(*                                                                         *)
(* A step of the dispatcher or of the worker ends where the other thread   *)
(* can tell the difference: the stores into an entry are three steps, its  *)
(* insertion is one because the store that makes it reachable is the last. *)
(***************************************************************************)
EXTENDS Integers, FiniteSets

CONSTANTS
  NR_MAX_PARALLEL_IO,   (* entries of the work queue                        *)
  MaxOps,               (* bound: operations dispatched                     *)
  MaxTime               (* bound: the clock stops here                      *)

ASSUME WorkQueueAssumption ==
  NR_MAX_PARALLEL_IO \in Nat \ {0} /\ MaxOps \in Nat /\ MaxTime \in Nat

Entries == 0 .. NR_MAX_PARALLEL_IO - 1
Ops     == 1 .. MaxOps
Times   == 0 .. MaxTime
NIL     == -1

VARIABLES
  work_queue,           (* entry -> struct nvmev_io_work                    *)
  free_seq, free_seq_end,
  io_seq, io_seq_end,
  latest_nsecs,         (* the time of the worker's last look at an entry   *)
  now,                  (* the clock                                        *)
  nr_ops,               (* operations dispatched so far                     *)
  op,                   (* the operation being dispatched                   *)
  entry,                (* the entry allocated for it                       *)
  dpc,                  (* where the dispatcher is                          *)
  curr,                 (* the entry the worker looks at                    *)
  wpc,                  (* where the worker is                              *)
  dropped,              (* operations refused for want of an entry          *)
  targets,              (* operation -> the time it is due                  *)
  copied,               (* commands whose data the worker has moved         *)
  posted,               (* command -> completions posted for it             *)
  released,             (* internal operation -> times its buffer was freed *)
  torn                  (* the worker has read an entry during its filling  *)

listVars   == <<free_seq, free_seq_end, io_seq, io_seq_end>>
dispVars   == <<nr_ops, op, entry, dpc, dropped, targets>>
workerVars == <<latest_nsecs, curr, wpc, copied, posted, released, torn>>
vars       == <<work_queue, listVars, now, dispVars, workerVars>>

Field(e, f) == work_queue[e][f]

(* The entries met by following the link f ("next" or "prev") from start,  *)
(* NIL after the last.                                                     *)
Chain(start, f) ==
  LET at[k \in 0 .. NR_MAX_PARALLEL_IO] ==
        IF k = 0 THEN start
        ELSE IF at[k - 1] = NIL THEN NIL ELSE Field(at[k - 1], f)
  IN at

(* The set of its entries.                                                 *)
Linked(start) ==
  {Chain(start, "next")[k] : k \in 0 .. NR_MAX_PARALLEL_IO} \ {NIL}

-----------------------------------------------------------------------------
(***************************************************************************)
(* The dispatcher: __enqueue_io_req and schedule_internal_operation        *)
(***************************************************************************)

(* __allocate_work_queue_entry refuses the last free entry; the callers    *)
(* then return without a word.  A command goes on to the reclaiming.       *)
Drop(internal) ==
  /\ dpc = "idle" /\ nr_ops < MaxOps
  /\ Field(free_seq, "next") = NIL
  /\ nr_ops' = nr_ops + 1
  /\ dropped' = dropped \cup {nr_ops'}
  /\ dpc' = IF internal THEN "idle" ELSE "reclaim"
  /\ UNCHANGED <<work_queue, listVars, now, op, entry, targets, workerVars>>

Allocate(internal, target) ==
  /\ dpc = "idle" /\ nr_ops < MaxOps
  /\ Field(free_seq, "next") # NIL
  /\ target >= now
  /\ nr_ops' = nr_ops + 1
  /\ op' = [id |-> nr_ops', internal |-> internal, target |-> target]
  /\ targets' = [targets EXCEPT ![nr_ops'] = target]
  /\ entry' = free_seq
  /\ free_seq' = Field(free_seq, "next")
  /\ dpc' = "fill"
  /\ UNCHANGED <<work_queue, free_seq_end, io_seq, io_seq_end, now, dropped,
                 workerVars>>

(* Variant of FillRequest: is_completed is left as the last user did.      *)
FillRequestStale ==
  /\ dpc = "fill"
  /\ work_queue' = [work_queue EXCEPT ![entry] =
       [@ EXCEPT !.command_id = IF op.internal THEN Field(entry, "command_id") ELSE op.id,
                 !.nsecs_target = op.target]]
  /\ dpc' = "fill_links"
  /\ UNCHANGED <<listVars, now, nr_ops, op, entry, dropped, targets, workerVars>>

(* The stores up to is_completed.  An internal operation writes no command *)
(* identity, so that of the entry's last user stays.                       *)
FillRequest ==
  /\ dpc = "fill"
  /\ work_queue' = [work_queue EXCEPT ![entry] =
       [@ EXCEPT !.command_id = IF op.internal THEN Field(entry, "command_id") ELSE op.id,
                 !.nsecs_target = op.target,
                 !.is_completed = FALSE]]
  /\ dpc' = "fill_links"
  /\ UNCHANGED <<listVars, now, nr_ops, op, entry, dropped, targets, workerVars>>

FillLinks ==
  /\ dpc = "fill_links"
  /\ work_queue' = [work_queue EXCEPT ![entry] =
       [@ EXCEPT !.is_copied = op.internal, !.prev = NIL, !.next = NIL]]
  /\ dpc' = "fill_kind"
  /\ UNCHANGED <<listVars, now, nr_ops, op, entry, dropped, targets, workerVars>>

FillKind ==
  /\ dpc = "fill_kind"
  /\ work_queue' = [work_queue EXCEPT ![entry] =
       [@ EXCEPT !.is_internal = op.internal,
                 !.buffs_to_release =
                   IF op.internal THEN op.id ELSE Field(entry, "buffs_to_release")]]
  /\ dpc' = "insert"
  /\ UNCHANGED <<listVars, now, nr_ops, op, entry, dropped, targets, workerVars>>

(* Variant of InsertAfter: the target of the new request is not compared.  *)
InsertAfterDue(target) ==
  LET at == Chain(io_seq_end, "prev")
      stop == {k \in DOMAIN at :
                 at[k] = NIL \/ Field(at[k], "nsecs_target") <= latest_nsecs}
  IN at[CHOOSE k \in stop : \A j \in stop : k <= j]

(* The entry of the list the new one goes behind: walking back from the    *)
(* end, the first that the worker may already have completed or that is    *)
(* due no later; NIL when there is none.                                   *)
InsertAfter(target) ==
  LET at == Chain(io_seq_end, "prev")
      stop == {k \in DOMAIN at :
                 \/ at[k] = NIL
                 \/ Field(at[k], "nsecs_target") <= latest_nsecs
                 \/ Field(at[k], "nsecs_target") <= target}
  IN at[CHOOSE k \in stop : \A j \in stop : k <= j]

(* __insert_req_sorted.                                                    *)
Insert ==
  LET after == InsertAfter(op.target) IN
  /\ dpc = "insert"
  /\ dpc' = IF op.internal THEN "idle" ELSE "reclaim"
  /\ \/ /\ io_seq = NIL
        /\ io_seq' = entry /\ io_seq_end' = entry
        /\ UNCHANGED work_queue
     \/ /\ io_seq # NIL /\ after = NIL
        /\ io_seq' = entry
        /\ work_queue' = [work_queue EXCEPT ![io_seq].prev = entry,
                                            ![entry].next = io_seq]
        /\ UNCHANGED io_seq_end
     \/ /\ io_seq # NIL /\ after # NIL /\ Field(after, "next") = NIL
        /\ io_seq_end' = entry
        /\ work_queue' = [work_queue EXCEPT ![entry].prev = after,
                                            ![after].next = entry]
        /\ UNCHANGED io_seq
     \/ /\ io_seq # NIL /\ after # NIL /\ Field(after, "next") # NIL
        /\ work_queue' = [work_queue EXCEPT
                            ![entry].prev = after,
                            ![entry].next = Field(after, "next"),
                            ![Field(after, "next")].prev = entry,
                            ![after].next = entry]
        /\ UNCHANGED <<io_seq, io_seq_end>>
  /\ UNCHANGED <<free_seq, free_seq_end, now, nr_ops, op, entry, dropped,
                 targets, workerVars>>

(* Variant of Reclaimable: a request that is due is taken for completed.   *)
ReclaimableWhenDue(e) ==
  Field(e, "is_copied") /\ Field(e, "nsecs_target") <= latest_nsecs

(* __reclaim_completed_reqs: an entry may leave the list.                  *)
Reclaimable(e) ==
  /\ Field(e, "is_completed")
  /\ Field(e, "is_copied")
  /\ Field(e, "nsecs_target") <= latest_nsecs

(* Variant of Reclaim: the free list is taken to end at the first entry of *)
(* the prefix, and the last keeps its link into the list in flight.        *)
ReclaimFirst ==
  LET at == Chain(io_seq, "next")
      stop == {k \in DOMAIN at : at[k] = NIL \/ ~Reclaimable(at[k])}
      nr_reclaimed == CHOOSE k \in stop : \A j \in stop : k <= j
      rest == at[nr_reclaimed]
  IN
  /\ dpc = "reclaim"
  /\ dpc' = "idle"
  /\ IF nr_reclaimed = 0
     THEN UNCHANGED <<work_queue, io_seq, free_seq_end>>
     ELSE /\ io_seq' = rest
          /\ free_seq_end' = io_seq
          /\ work_queue' =
               [e \in Entries |->
                  [work_queue[e] EXCEPT
                     !.prev = IF e = rest THEN NIL ELSE @,
                     !.next = IF e = io_seq THEN NIL
                              ELSE IF e = free_seq_end THEN io_seq ELSE @]]
  /\ UNCHANGED <<free_seq, io_seq_end, now, nr_ops, op, entry, dropped, targets,
                 workerVars>>

(* The longest reclaimable prefix of the list goes to the end of the free  *)
(* list, in one piece.                                                     *)
Reclaim ==
  LET at == Chain(io_seq, "next")
      stop == {k \in DOMAIN at : at[k] = NIL \/ ~Reclaimable(at[k])}
      nr_reclaimed == CHOOSE k \in stop : \A j \in stop : k <= j
      last == at[nr_reclaimed - 1]
      rest == at[nr_reclaimed]
  IN
  /\ dpc = "reclaim"
  /\ dpc' = "idle"
  /\ IF nr_reclaimed = 0
     THEN UNCHANGED <<work_queue, io_seq, free_seq_end>>
     ELSE /\ io_seq' = rest
          /\ free_seq_end' = last
          /\ work_queue' =
               [e \in Entries |->
                  [work_queue[e] EXCEPT
                     !.prev = IF e = rest THEN NIL
                              ELSE IF e = io_seq THEN free_seq_end ELSE @,
                     !.next = IF e = last THEN NIL
                              ELSE IF e = free_seq_end THEN io_seq ELSE @]]
  /\ UNCHANGED <<free_seq, io_seq_end, now, nr_ops, op, entry, dropped, targets,
                 workerVars>>

-----------------------------------------------------------------------------
(***************************************************************************)
(* The worker: nvmev_io_worker                                             *)
(***************************************************************************)

(* Variant of StartPass: an empty list is not noticed.                     *)
StartPassBlind ==
  /\ wpc = "pass"
  /\ curr' = io_seq
  /\ wpc' = "look"
  /\ UNCHANGED <<work_queue, listVars, now, dispVars, latest_nsecs, copied,
                 posted, released, torn>>

StartPass ==
  /\ wpc = "pass" /\ io_seq # NIL
  /\ curr' = io_seq
  /\ wpc' = "look"
  /\ UNCHANGED <<work_queue, listVars, now, dispVars, latest_nsecs, copied,
                 posted, released, torn>>

(* Variant of Look: a completed entry is not passed over.                  *)
LookAgain ==
  /\ wpc = "look"
  /\ latest_nsecs' = now
  /\ wpc' = IF Field(curr, "is_copied") THEN "check" ELSE "copy"
  /\ UNCHANGED <<work_queue, listVars, now, dispVars, curr, copied, posted,
                 released, torn>>

(* The clock is read once for an entry; a completed one is passed over.    *)
Look ==
  /\ wpc = "look"
  /\ latest_nsecs' = now
  /\ wpc' = IF Field(curr, "is_completed") THEN "next"
            ELSE IF Field(curr, "is_copied") THEN "check" ELSE "copy"
  /\ torn' = (torn \/ /\ ~Field(curr, "is_completed")
                      /\ curr = entry /\ dpc \in {"fill_links", "fill_kind"})
  /\ UNCHANGED <<work_queue, listVars, now, dispVars, curr, copied, posted,
                 released>>

(* __do_perform_io, or nothing for an internal operation.                  *)
Copy ==
  /\ wpc = "copy"
  /\ copied' = IF Field(curr, "is_internal") THEN copied
               ELSE copied \cup {Field(curr, "command_id")}
  /\ work_queue' = [work_queue EXCEPT ![curr].is_copied = TRUE]
  /\ wpc' = "check"
  /\ UNCHANGED <<listVars, now, dispVars, latest_nsecs, curr, posted, released,
                 torn>>

NotDue ==
  /\ wpc = "check"
  /\ Field(curr, "nsecs_target") > latest_nsecs
  /\ wpc' = "next"
  /\ UNCHANGED <<work_queue, listVars, now, dispVars, latest_nsecs, curr, copied,
                 posted, released, torn>>

(* __fill_cq_result.                                                       *)
Post ==
  /\ wpc = "check"
  /\ Field(curr, "nsecs_target") <= latest_nsecs
  /\ ~Field(curr, "is_internal")
  /\ posted' = [posted EXCEPT ![Field(curr, "command_id")] = @ + 1]
  /\ wpc' = "done"
  /\ UNCHANGED <<work_queue, listVars, now, dispVars, latest_nsecs, curr, copied,
                 released, torn>>

(* buffer_release.                                                         *)
Release ==
  /\ wpc = "check"
  /\ Field(curr, "nsecs_target") <= latest_nsecs
  /\ Field(curr, "is_internal")
  /\ released' = [released EXCEPT ![Field(curr, "buffs_to_release")] = @ + 1]
  /\ wpc' = "done"
  /\ UNCHANGED <<work_queue, listVars, now, dispVars, latest_nsecs, curr, copied,
                 posted, torn>>

Complete ==
  /\ wpc = "done"
  /\ work_queue' = [work_queue EXCEPT ![curr].is_completed = TRUE]
  /\ wpc' = "next"
  /\ UNCHANGED <<listVars, now, dispVars, latest_nsecs, curr, copied, posted,
                 released, torn>>

(* curr = w->next; the pass ends at -1.                                    *)
Advance ==
  /\ wpc = "next"
  /\ curr' = Field(curr, "next")
  /\ wpc' = IF curr' = NIL THEN "pass" ELSE "look"
  /\ UNCHANGED <<work_queue, listVars, now, dispVars, latest_nsecs, copied,
                 posted, released, torn>>

Tick ==
  /\ now < MaxTime
  /\ now' = now + 1
  /\ UNCHANGED <<work_queue, listVars, dispVars, workerVars>>

-----------------------------------------------------------------------------

(* NVMEV_IO_WORKER_INIT; the array comes zeroed.                           *)
Init ==
  /\ work_queue = [e \in Entries |->
       [command_id |-> 0, nsecs_target |-> 0, is_completed |-> FALSE,
        is_copied |-> FALSE, is_internal |-> FALSE, buffs_to_release |-> 0,
        prev |-> e - 1,
        next |-> IF e = NR_MAX_PARALLEL_IO - 1 THEN NIL ELSE e + 1]]
  /\ free_seq = 0 /\ free_seq_end = NR_MAX_PARALLEL_IO - 1
  /\ io_seq = NIL /\ io_seq_end = NIL
  /\ latest_nsecs = 0 /\ now = 0
  /\ nr_ops = 0 /\ op = NIL /\ entry = NIL
  /\ dpc = "idle" /\ wpc = "pass" /\ curr = NIL
  /\ dropped = {} /\ copied = {}
  /\ targets = [o \in Ops |-> 0]
  /\ posted = [o \in {0} \cup Ops |-> 0]
  /\ released = [o \in {0} \cup Ops |-> 0]
  /\ torn = FALSE

Dispatch == FillRequest \/ FillLinks \/ FillKind \/ Insert \/ Reclaim

Worker ==
  StartPass \/ Look \/ Copy \/ NotDue \/ Post \/ Release \/ Complete \/ Advance

Next ==
  \/ \E internal \in BOOLEAN :
       Drop(internal) \/ (\E target \in Times : Allocate(internal, target))
  \/ Dispatch
  \/ Worker
  \/ Tick

(* Both threads are kernel threads bound to a processor of their own, and  *)
(* time passes; no command need ever come.                                 *)
Spec ==
  Init /\ [][Next]_vars /\ WF_vars(Dispatch) /\ WF_vars(Worker) /\ WF_vars(Tick)

-----------------------------------------------------------------------------
(***************************************************************************)
(* Properties                                                              *)
(***************************************************************************)

InFlight == Linked(io_seq)
FreeEntries == Linked(free_seq)
BeingFilled ==
  IF dpc \in {"fill", "fill_links", "fill_kind", "insert"} THEN {entry} ELSE {}
Internal(e) == Field(e, "is_internal")

(* Every variable holds a value of its type; commands and internal         *)
(* operations share one numbering, and 0 is the number in a fresh entry.   *)
TypeOK ==
  /\ work_queue \in [Entries ->
       [command_id : {0} \cup Ops, nsecs_target : Times, is_completed : BOOLEAN,
        is_copied : BOOLEAN, is_internal : BOOLEAN,
        buffs_to_release : {0} \cup Ops,
        prev : {NIL} \cup Entries, next : {NIL} \cup Entries]]
  /\ {free_seq, free_seq_end} \subseteq Entries
  /\ {io_seq, io_seq_end, entry, curr} \subseteq {NIL} \cup Entries
  /\ wpc \notin {"pass"} => curr # NIL
  /\ {latest_nsecs, now} \subseteq Times
  /\ nr_ops \in 0 .. MaxOps

(* The list in flight, the free list and the entry being filled share the  *)
(* entries among them: none is lost and none is in two places, whatever    *)
(* the worker is reading.  The free list ends at free_seq_end, and the     *)
(* list in flight can be walked back from io_seq_end.                      *)
ListsPartitionEntries ==
  /\ InFlight \cup FreeEntries \cup BeingFilled = Entries
  /\ InFlight \cap FreeEntries = {}
  /\ BeingFilled \cap (InFlight \cup FreeEntries) = {}
  /\ free_seq_end \in FreeEntries /\ Field(free_seq_end, "next") = NIL
  /\ io_seq # NIL =>
       /\ io_seq_end \in InFlight /\ Field(io_seq_end, "next") = NIL
       /\ Field(io_seq, "prev") = NIL
       /\ \A e \in InFlight : Field(e, "next") # NIL =>
            Field(Field(e, "next"), "prev") = e

(* A request stands behind one with a later target only if the worker was  *)
(* already past that target: the order of completion never depends on the  *)
(* order of arrival, except among requests that are due anyway.            *)
SortedUnlessDue ==
  LET at == Chain(io_seq, "next") IN
  \A j, k \in DOMAIN at :
    j < k /\ at[j] # NIL /\ at[k] # NIL =>
      \/ Field(at[j], "nsecs_target") <= Field(at[k], "nsecs_target")
      \/ Field(at[j], "nsecs_target") <= latest_nsecs

(* Unless the worker has read a half-filled entry, a command is completed  *)
(* at most once, and only after its data was moved and its target passed;  *)
(* the buffer of an internal operation is released at most once.           *)
CompletedOnceAndDone ==
  ~torn =>
    \A o \in Ops :
      /\ posted[o] + released[o] <= 1
      /\ posted[o] = 1 => o \in copied /\ targets[o] <= now
      /\ released[o] = 1 => targets[o] <= now

(* Unless the worker has read a half-filled entry, the dispatcher takes    *)
(* back no entry whose request is still to be completed.                   *)
FreeEntriesAreDone ==
  ~torn =>
    \A e \in FreeEntries :
      /\ Field(e, "command_id") # 0 /\ ~Internal(e) =>
           posted[Field(e, "command_id")] = 1
      /\ Internal(e) => released[Field(e, "buffs_to_release")] = 1

(* A request is refused only when all entries but one are in flight.       *)
DroppedOnlyWhenFull ==
  [][dropped' # dropped =>
       Cardinality(InFlight) = NR_MAX_PARALLEL_IO - 1]_vars

(* Unless the worker has read a half-filled entry, every request that got  *)
(* an entry is completed, however the two threads interleave.              *)
AcceptedIsCompleted ==
  \A o \in Ops :
    nr_ops >= o /\ o \notin dropped ~> posted[o] + released[o] > 0 \/ torn

(* The comment on the barrier that follows the stores: the worker sees an  *)
(* updated entry at once.  What that is for: no completion is duplicated.  *)
CompletedOnce == \A o \in Ops : posted[o] <= 1 /\ released[o] <= 1

=============================================================================
