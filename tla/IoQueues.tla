------------------------------ MODULE IoQueues ------------------------------
(***************************************************************************)
(* The I/O submission queues and the completion queue they share, between  *)
(* the host driver, the dispatcher (main.c, nvmev_proc_io_sq) and the I/O  *)
(* workers (__fill_cq_result and the interrupt poll of nvmev_io_worker).   *)
(*                                                                         *)
(* Which worker executes a request, and when it is due, is left open: a    *)
(* fetched request may complete at any time (IoWorkQueue shows that it     *)
(* does).  The completion queue is polled for its interrupt by the worker  *)
(* of its own number only, another one may post to it.  The doorbell of a  *)
(* completion queue only feeds statistics, so it does not appear.          *)
(*                                                                         *)
(* The host keeps fewer commands outstanding than a queue has entries.     *)
(***************************************************************************)
EXTENDS Integers, FiniteSets

CONSTANTS SQs, sq_size, cq_size

ASSUME IoQueuesAssumption ==
  sq_size \in Nat /\ cq_size \in Nat /\ sq_size >= 2 /\ cq_size >= 2

Tags == 1 .. sq_size - 1

VARIABLES
  sqes, cqe_exists,     (* the device's queues: sqes[s], and the completion queue *)
  dbs, old_dbs,         (* submission doorbells, and what is processed of them    *)
  sq,                   (* the rings of commands, in the host's memory            *)
  work,                 (* fetched requests                                       *)
  cq,                   (* the completion ring, in the host's memory              *)
  cq_head, phase,       (* where and with which phase the next completion goes    *)
  interrupt_ready,
  poll,                 (* the polling worker: "idle", holding the queue ("held"),*)
                        (* "seen" interrupt_ready, about to "signal", or "stale": *)
                        (* holding a queue that is gone                           *)
  irq,                  (* an interrupt waits for the host                        *)
  outstanding,          (* the host's commands                                    *)
  tail,                 (* of each submission queue, at the host                  *)
  head, head_phase,     (* of the completion queue, at the host                   *)
  handling              (* the host is in its interrupt handler                   *)

queueVars == <<sqes, cqe_exists, sq, cq, cq_head, phase, tail, head, head_phase>>
ioVars ==
  <<sqes, cqe_exists, dbs, old_dbs, sq, work, cq, cq_head, phase, interrupt_ready,
    poll, irq, outstanding, tail, head, head_phase, handling>>

Empty == [phase |-> 0, sq_id |-> 0, command_id |-> 0]

IoInit ==
  /\ sqes = [s \in SQs |-> FALSE] /\ cqe_exists = FALSE
  /\ dbs = [s \in SQs |-> 0] /\ old_dbs = [s \in SQs |-> 0]
  /\ sq = [s \in SQs |-> [i \in 0 .. sq_size - 1 |-> 0]]
  /\ work = {}
  /\ cq = [i \in 0 .. cq_size - 1 |-> Empty]
  /\ cq_head = 0 /\ phase = 0 /\ interrupt_ready = FALSE
  /\ poll = "idle" /\ irq = FALSE
  /\ outstanding = {}
  /\ tail = [s \in SQs |-> 0]
  /\ head = 0 /\ head_phase = 1 /\ handling = FALSE

-----------------------------------------------------------------------------
(* The admin commands' effect on the queues; the host gives fresh memory.  *)
(* Nothing reads a command again that was fetched, or anything but the     *)
(* phase of a completion that was reaped: the model forgets them.          *)

(* Variant of CreateCq: the first phase is left at the zero of kzalloc.    *)
CreateCqWithoutPhase ==
  /\ cqe_exists' = TRUE /\ phase' = 0
  /\ UNCHANGED <<sqes, dbs, old_dbs, sq, work, cq, cq_head, interrupt_ready, poll, irq,
                 outstanding, tail, head, head_phase, handling>>

CreateCq ==
  /\ cqe_exists' = TRUE /\ phase' = 1
  /\ UNCHANGED <<sqes, dbs, old_dbs, sq, work, cq, cq_head, interrupt_ready, poll, irq,
                 outstanding, tail, head, head_phase, handling>>

CreateSq(s) ==
  /\ sqes' = [sqes EXCEPT ![s] = TRUE]
  /\ dbs' = [dbs EXCEPT ![s] = 0] /\ old_dbs' = [old_dbs EXCEPT ![s] = 0]
  /\ tail' = [tail EXCEPT ![s] = 0]
  /\ UNCHANGED <<cqe_exists, sq, work, cq, cq_head, phase, interrupt_ready,
                 poll, irq, outstanding, head, head_phase, handling>>

DeleteSq(s) ==
  /\ sqes' = [sqes EXCEPT ![s] = FALSE]
  /\ UNCHANGED <<cqe_exists, dbs, old_dbs, sq, work, cq, cq_head, phase, interrupt_ready,
                 poll, irq, outstanding, tail, head, head_phase, handling>>

(* The queue is freed and the host forgets its ring.  Nothing keeps the    *)
(* polling worker from going on with the queue it holds.                   *)
DeleteCq ==
  /\ cqe_exists' = FALSE
  /\ poll' = IF poll = "idle" THEN "idle" ELSE "stale"
  /\ cq' = [i \in 0 .. cq_size - 1 |-> Empty]
  /\ cq_head' = 0 /\ phase' = 0 /\ interrupt_ready' = FALSE
  /\ head' = 0 /\ head_phase' = 1
  /\ UNCHANGED <<sqes, dbs, old_dbs, sq, work, irq, outstanding, tail, handling>>

-----------------------------------------------------------------------------
(* The host driver.                                                        *)

(* A command is written to the ring and the doorbell is rung.              *)
Submit(s) ==
  /\ sqes[s]
  /\ Cardinality(outstanding) < cq_size - 1
  /\ \E t \in Tags :
       /\ <<s, t>> \notin outstanding
       /\ outstanding' = outstanding \cup {<<s, t>>}
       /\ sq' = [sq EXCEPT ![s][tail[s]] = t]
  /\ tail' = [tail EXCEPT ![s] = (@ + 1) % sq_size]
  /\ dbs' = [dbs EXCEPT ![s] = (tail[s] + 1) % sq_size]
  /\ UNCHANGED <<sqes, cqe_exists, old_dbs, work, cq, cq_head, phase, interrupt_ready,
                 poll, irq, head, head_phase, handling>>

TakeInterrupt ==
  /\ irq /\ ~handling
  /\ irq' = FALSE
  /\ handling' = cqe_exists
  /\ UNCHANGED <<queueVars, dbs, old_dbs, work, interrupt_ready, poll, outstanding>>

(* Completions are taken as long as the phase says that they are new.      *)
Reap ==
  /\ handling
  /\ IF cq[head].phase = head_phase
     THEN /\ outstanding' = outstanding \ {<<cq[head].sq_id, cq[head].command_id>>}
          /\ cq' = [cq EXCEPT ![head] = [Empty EXCEPT !.phase = head_phase]]
          /\ head' = (head + 1) % cq_size
          /\ head_phase' = IF head + 1 = cq_size THEN 1 - head_phase ELSE head_phase
          /\ UNCHANGED handling
     ELSE /\ handling' = FALSE
          /\ UNCHANGED <<outstanding, cq, head, head_phase>>
  /\ UNCHANGED <<sqes, cqe_exists, sq, cq_head, phase, tail, dbs, old_dbs, work,
                 interrupt_ready, poll, irq>>

-----------------------------------------------------------------------------
(* The device.                                                             *)

(* Variant of NextEntry: the ring is taken to have one entry less.         *)
NextEntryEarly(i) == IF i + 2 = sq_size THEN 0 ELSE i + 1

NextEntry(i) == IF i + 1 = sq_size THEN 0 ELSE i + 1

(* nvmev_proc_io_sq takes one command; one the FTL refuses stays where it  *)
(* is and is taken by a later pass.                                        *)
Fetch(s) ==
  /\ sqes[s] /\ dbs[s] # old_dbs[s]
  /\ work' = work \cup {[sqid |-> s, sq_entry |-> old_dbs[s],
                         command_id |-> sq[s][old_dbs[s]]]}
  /\ old_dbs' = [old_dbs EXCEPT ![s] = NextEntry(@)]
  /\ sq' = [sq EXCEPT ![s][old_dbs[s]] = 0]
  /\ UNCHANGED <<sqes, cqe_exists, cq, cq_head, phase, tail, head, head_phase, dbs,
                 interrupt_ready, poll, irq, outstanding, handling>>

(* __fill_cq_result, under entry_lock.                                     *)
Post(w) ==
  /\ cqe_exists
  /\ work' = work \ {w}
  /\ cq' = [cq EXCEPT ![cq_head] = [phase |-> phase, sq_id |-> w.sqid,
                                    command_id |-> w.command_id]]
  /\ cq_head' = IF cq_head + 1 = cq_size THEN 0 ELSE cq_head + 1
  /\ phase' = IF cq_head + 1 = cq_size THEN 1 - phase ELSE phase
  /\ interrupt_ready' = TRUE
  /\ UNCHANGED <<sqes, cqe_exists, dbs, old_dbs, sq, poll, irq, outstanding, tail,
                 head, head_phase, handling>>

(* The poll of the completion queue, after each walk over the work queue.  *)
Poll(from, to) ==
  /\ poll = from /\ poll' = to
  /\ UNCHANGED <<queueVars, dbs, old_dbs, work, outstanding, handling>>

PollQueue ==
  cqe_exists /\ Poll("idle", "held") /\ UNCHANGED <<interrupt_ready, irq>>

PollLook ==
  Poll("held", IF interrupt_ready THEN "seen" ELSE "idle") /\ UNCHANGED <<interrupt_ready, irq>>

(* Variant of Announce: the signal is sent first.                          *)
AnnounceSignalFirst(step) ==
  IF step = 2 THEN interrupt_ready' = FALSE /\ UNCHANGED irq
  ELSE irq' = TRUE /\ UNCHANGED interrupt_ready

(* interrupt_ready is cleared, then the interrupt sent.                    *)
Announce(step) ==
  IF step = 1 THEN interrupt_ready' = FALSE /\ UNCHANGED irq
  ELSE irq' = TRUE /\ UNCHANGED interrupt_ready

PollClear  == Poll("seen", "signal") /\ Announce(1)
PollSignal == Poll("signal", "idle") /\ Announce(2)

(* What the worker reads in the freed queue may make it signal or not; and *)
(* if a new queue has taken that memory, its store clears interrupt_ready  *)
(* there, and the signal that follows goes to the new queue's vector.      *)
PollStale ==
  \/ Poll("stale", "idle") /\ irq' \in {irq, TRUE} /\ UNCHANGED interrupt_ready
  \/ cqe_exists /\ Poll("stale", "signal") /\ interrupt_ready' = FALSE /\ UNCHANGED irq

Device ==
  \/ \E s \in SQs : Fetch(s)
  \/ \E w \in work : Post(w)
  \/ PollQueue \/ PollLook \/ PollClear \/ PollSignal \/ PollStale

-----------------------------------------------------------------------------

(* The entries of the completion ring the host would take, from its head.  *)
New(i) == cq[(head + i) % cq_size].phase
            = IF head + i >= cq_size THEN 1 - head_phase ELSE head_phase
Unseen == {cq[(head + i) % cq_size] : i \in {i \in 0 .. cq_size - 1 : \A j \in 0 .. i : New(j)}}

(* The entries of a submission ring that are rung and not fetched.         *)
Rung(s) == {sq[s][(old_dbs[s] + i) % sq_size] :
              i \in 0 .. ((dbs[s] - old_dbs[s]) % sq_size) - 1}

Waiting == UNION {{<<s, t>> : t \in Rung(s)} : s \in SQs}
Fetched == {<<w.sqid, w.command_id>> : w \in work}
Posted  == {<<e.sq_id, e.command_id>> : e \in Unseen}

(* Every command of the host is in exactly one place: its submission ring, *)
(* the work queues or, with the phase bit the host looks for, the          *)
(* completion ring.  No wrap of a ring loses, repeats or resurrects one.   *)
EachCommandInOnePlace ==
  /\ outstanding = Waiting \cup Fetched \cup Posted
  /\ Cardinality(outstanding)
       = Cardinality(Waiting) + Cardinality(work) + Cardinality(Unseen)

(* A completion the host has not seen is announced: its handler runs, an   *)
(* interrupt is on its way, or a worker will find interrupt_ready.         *)
CompletionIsAnnounced ==
  Unseen # {} => handling \/ irq \/ poll = "signal" \/ interrupt_ready

=============================================================================
