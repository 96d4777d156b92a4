----------------------------- MODULE WriteBuffer -----------------------------
(***************************************************************************)
(* The write buffer the partitions of the conventional SSD share (ssd.c),  *)
(* between conv_write, which takes space for a command before it writes    *)
(* its pages, and the I/O workers, which give back a wordline of space     *)
(* when the NAND has programmed it.  The dispatcher serves the submission  *)
(* queues in turn, and a command refused waits at the head of its queue    *)
(* while those of other queues are tried.                                  *)
(*                                                                         *)
(* A queue holds one command at a time: its ring has two entries.          *)
(* Only the position of a partition in its open wordline is kept of its    *)
(* write pointer: a wordline is programmed when its last page is written.  *)
(***************************************************************************)
EXTENDS Integers, FiniteSets

CONSTANTS
  nr_parts,             (* partitions; logical page n belongs to n % nr_parts *)
  pgs_per_oneshotpg,    (* pages of a wordline                              *)
  secs_per_pg,          (* sectors of a page                                *)
  size,                 (* of the buffer, in sectors                        *)
  nr_sq,                (* I/O submission queues                            *)
  Requests,             (* the writes the host may send                     *)
  None                  (* a queue with no command                          *)

Request == [slba : Nat, nr_lba : Nat \ {0}]

ASSUME WriteBufferAssumption ==
  /\ {nr_parts, pgs_per_oneshotpg, secs_per_pg, size, nr_sq} \subseteq Nat \ {0}
  /\ Requests \subseteq Request /\ None \notin Requests
  /\ \A r \in Requests : r.nr_lba <= size    \* asserted by buffer_allocate

Parts    == 0 .. nr_parts - 1
SQs      == 1 .. nr_sq
wordline == secs_per_pg * pgs_per_oneshotpg

(* Variant of EndLpn: one page too many.                                   *)
EndLpnAfter(r) == (r.slba + r.nr_lba) \div secs_per_pg

StartLpn(r) == r.slba \div secs_per_pg
EndLpn(r)   == (r.slba + r.nr_lba - 1) \div secs_per_pg

VARIABLES
  remaining,            (* of the buffer, in sectors                        *)
  req,                  (* the command at the head of each submission queue *)
  qid,                  (* the queue the dispatcher is at                   *)
  lpn,                  (* the logical page conv_write is at                *)
  open,                 (* pages written to the open wordline of each part  *)
  pending,              (* wordlines given to the NAND and not yet released *)
  pc                    (* "visit": at the head of qid, "write": in conv_write *)

vars == <<remaining, req, qid, lpn, open, pending, pc>>

(* The host rings the doorbell of a queue, at any time.                    *)
Submit(q, r) ==
  /\ req[q] = None
  /\ req' = [req EXCEPT ![q] = r]
  /\ UNCHANGED <<remaining, qid, lpn, open, pending, pc>>

(* The loop of nvmev_proc_dbs; behind the last queue comes the next pass.  *)
NextQueue == 1 + (qid % nr_sq)

(* There is no command, or buffer_allocate refuses its space: conv_write   *)
(* fails, the doorbell is not advanced, and the command is tried again on  *)
(* the next pass.                                                          *)
Pass ==
  /\ pc = "visit"
  /\ req[qid] # None => remaining < req[qid].nr_lba
  /\ qid' = NextQueue
  /\ UNCHANGED <<remaining, req, lpn, open, pending, pc>>

(* buffer_allocate takes the space of the command.                         *)
Allocate ==
  /\ pc = "visit"
  /\ req[qid] # None
  /\ remaining >= req[qid].nr_lba
  /\ remaining' = remaining - req[qid].nr_lba
  /\ lpn' = StartLpn(req[qid])
  /\ pc' = "write"
  /\ UNCHANGED <<req, qid, open, pending>>

(* The page written, and the command left behind with its last one.        *)
PageDone ==
  /\ lpn' = lpn + 1
  /\ IF lpn = EndLpn(req[qid])
     THEN /\ req' = [req EXCEPT ![qid] = None] /\ qid' = NextQueue
          /\ pc' = "visit"
     ELSE UNCHANGED <<req, qid, pc>>

(* Variant of WritePage: only a command's last page asks for a release.    *)
WritePageReleasesOnce ==
  LET part == lpn % nr_parts IN
  /\ pc = "write"
  /\ open' = [open EXCEPT ![part] = (@ + 1) % pgs_per_oneshotpg]
  /\ pending' = IF open[part] + 1 = pgs_per_oneshotpg /\ lpn = EndLpn(req[qid])
                THEN pending + 1 ELSE pending
  /\ PageDone
  /\ UNCHANGED remaining

(* One page of conv_write; the last page of a wordline programs it, and    *)
(* schedule_internal_operation asks for the release of its space.          *)
WritePage ==
  LET part == lpn % nr_parts IN
  /\ pc = "write"
  /\ IF open[part] + 1 = pgs_per_oneshotpg
     THEN open' = [open EXCEPT ![part] = 0] /\ pending' = pending + 1
     ELSE open' = [open EXCEPT ![part] = @ + 1] /\ UNCHANGED pending
  /\ PageDone
  /\ UNCHANGED remaining

(* A worker finds an internal operation due: buffer_release.               *)
Release ==
  /\ pending > 0
  /\ pending' = pending - 1
  /\ remaining' = remaining + wordline
  /\ UNCHANGED <<req, qid, lpn, open, pc>>

(* buffer_init; no command yet.                                            *)
Init ==
  /\ remaining = size
  /\ req = [q \in SQs |-> None] /\ qid = 1 /\ lpn = 0
  /\ open = [p \in Parts |-> 0]
  /\ pending = 0
  /\ pc = "visit"

Dispatch == Pass \/ Allocate \/ WritePage

Next == (\E q \in SQs, r \in Requests : Submit(q, r)) \/ Dispatch \/ Release

(* The dispatcher and the workers are threads that never stop; nothing is  *)
(* assumed of the order in which commands find the space they need.        *)
Spec == Init /\ [][Next]_vars /\ WF_vars(Dispatch) /\ WF_vars(Release)

-----------------------------------------------------------------------------

TypeOK ==
  /\ remaining \in Int
  /\ req \in [SQs -> Requests \cup {None}] /\ qid \in SQs /\ lpn \in Nat
  /\ open \in [Parts -> 0 .. pgs_per_oneshotpg - 1]
  /\ pending \in Nat
  /\ pc \in {"visit", "write"}

(* The pages that wait for their wordline to fill.                         *)
Waiting == {s \in Parts \X (1 .. pgs_per_oneshotpg) : s[2] <= open[s[1]]}

(* Sectors of the pages that have been allocated and not yet programmed.   *)
Unprogrammed ==
  secs_per_pg * (Cardinality(Waiting)
                 + IF pc = "write" THEN EndLpn(req[qid]) - lpn + 1 ELSE 0)

(* No space is lost and none is made up: what is not remaining is held by  *)
(* a page that waits for its wordline to fill or by one being programmed.  *)
SpaceAccounted ==
  remaining + Unprogrammed + wordline * pending = size

(* Commands that find the buffer short of space are not stuck for ever     *)
(* behind wordlines that only further writes would fill: as long as some   *)
(* command waits, some command is admitted.                                *)
SomeWriteIsAdmitted == (\E q \in SQs : req[q] # None) ~> pc = "write"

(* ssd.h calls size the whole of the buffer and remaining what is left of  *)
(* it: conv_write takes the sectors of a command and gives back the pages. *)
RemainingWithinSize == remaining <= size

=============================================================================
