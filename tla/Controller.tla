----------------------------- MODULE Controller -----------------------------
(***************************************************************************)
(* The controller around the I/O queues of IoQueues: the registers, which  *)
(* the dispatcher compares one after the other with what it saw last       *)
(* (nvmev_proc_bars), and the admin queue (admin.c), through which the     *)
(* host creates and deletes the I/O queues.                                *)
(*                                                                         *)
(* The host enables the controller with fresh rings, has one admin command *)
(* at a time, deletes the queues when their commands are done, and resets  *)
(* or shuts down when there are none.  The other admin commands would add  *)
(* completions of the same kind and are left out, but for abort, which the *)
(* code answers with no completion at all.                                 *)
(*                                                                         *)
(* Of aqa, asq and acq only matters whether the value differs from the one *)
(* the dispatcher saw last.                                                *)
(***************************************************************************)
EXTENDS IoQueues

CONSTANT depth          (* of both admin rings                              *)

ASSUME DepthAssumption == depth \in Nat \ {0, 1}

NoCommand == [opcode |-> "none"]
Commands ==
  {[opcode |-> "create_sq", qid |-> s] : s \in SQs}
  \cup {[opcode |-> "delete_sq", qid |-> s] : s \in SQs}
  \cup {[opcode |-> o] : o \in {"create_cq", "delete_cq"}}

VARIABLES
  cc,                   (* the host's en and shn                            *)
  changed,              (* registers that differ from what was last seen    *)
  csts,                 (* what the host reads                              *)
  admin_q,              (* the admin queue has been allocated               *)
  adm,                  (* doorbell, what is processed of it, completion side *)
  acq,                  (* phases of the admin completion ring              *)
  asq,                  (* the admin commands                               *)
  scan,                 (* where the dispatcher's loop is                   *)
  hpc,                  (* where the host is                                *)
  hadm,                 (* the host's side of the admin rings               *)
  waiting,              (* the admin command the host waits for             *)
  overtaken,            (* ready was set before the admin rings were seen   *)
  swallowed             (* the host's last write of cc was never looked at  *)

regVars == <<cc, changed, csts, admin_q, adm, acq, asq, scan, hpc, hadm, waiting,
             overtaken, swallowed>>
vars == <<ioVars, regVars>>

Init ==
  /\ IoInit
  /\ cc = [en |-> 0, shn |-> 0] /\ changed = {}
  /\ csts = [rdy |-> 0, shst |-> 0]
  /\ admin_q = FALSE
  /\ adm = [db |-> 0, old_db |-> 0, cq_head |-> 0, phase |-> 0]
  /\ acq = [i \in 0 .. depth - 1 |-> 0] /\ asq = [i \in 0 .. depth - 1 |-> NoCommand]
  /\ scan = "aqa" /\ hpc = "down"
  /\ hadm = [tail |-> 0, head |-> 0, phase |-> 1]
  /\ waiting = NoCommand /\ overtaken = FALSE /\ swallowed = FALSE

Next_(i) == IF i + 1 = depth THEN 0 ELSE i + 1

-----------------------------------------------------------------------------
(* nvmev_proc_bars: one change a call, and then the doorbells.             *)

Scan(from, to) == scan = from /\ scan' = to
hostVars == <<cc, asq, acq, hpc, hadm, waiting>>
ghostVars == <<overtaken, swallowed>>

ScanAqa ==
  /\ IF "aqa" \in changed
     THEN /\ Scan("aqa", "dbs")
          /\ changed' = changed \ {"aqa"}
          /\ admin_q' = TRUE
          /\ adm' = [db |-> 0, old_db |-> 0, cq_head |-> 0, phase |-> 1]
     ELSE Scan("aqa", "asq") /\ UNCHANGED <<changed, admin_q, adm>>
  /\ UNCHANGED <<ioVars, hostVars, csts, ghostVars>>

(* Variant of ScanAsq: it waits for aqa there.                             *)
ScanAsqWaits ==
  /\ IF "asq" \in changed
     THEN /\ admin_q /\ Scan("asq", "dbs")
          /\ changed' = changed \ {"asq"}
          /\ adm' = [adm EXCEPT !.db = 0, !.old_db = 0]
     ELSE Scan("asq", "acq") /\ UNCHANGED <<changed, adm>>
  /\ UNCHANGED <<ioVars, hostVars, csts, admin_q, ghostVars>>

(* Before aqa has been seen there is no admin queue: it is tried again.    *)
ScanAsq ==
  /\ IF "asq" \in changed
     THEN /\ Scan("asq", "dbs")
          /\ IF admin_q
             THEN /\ changed' = changed \ {"asq"}
                  /\ adm' = [adm EXCEPT !.db = 0, !.old_db = 0]
             ELSE UNCHANGED <<changed, adm>>
     ELSE Scan("asq", "acq") /\ UNCHANGED <<changed, adm>>
  /\ UNCHANGED <<ioVars, hostVars, csts, admin_q, ghostVars>>

(* Variant of Restarted: the phase is left as it was.                      *)
RestartedInPhase(a) == [a EXCEPT !.cq_head = 0]

Restarted(a) == [a EXCEPT !.cq_head = 0, !.phase = 1]

ScanAcq ==
  /\ IF "acq" \in changed
     THEN /\ Scan("acq", "dbs")
          /\ IF admin_q
             THEN /\ changed' = changed \ {"acq"}
                  /\ adm' = Restarted(adm)
             ELSE UNCHANGED <<changed, adm>>
     ELSE Scan("acq", "cc") /\ UNCHANGED <<changed, adm>>
  /\ UNCHANGED <<ioVars, hostVars, csts, admin_q, ghostVars>>

(* Enabling makes ready if there is an admin queue.  The host may have     *)
(* written all registers since the scan was past the admin ones, and it    *)
(* may act on what it sees before the scan is at its next line.            *)
ScanCc ==
  /\ IF "cc" \in changed
     THEN /\ Scan("cc", "shn")
          /\ csts' = [csts EXCEPT !.rdy = IF cc.en = 0 THEN 0 ELSE IF admin_q THEN 1 ELSE @]
          /\ changed' = changed \ {"cc"}
          /\ overtaken' = (overtaken \/ (cc.en = 1 /\ changed # {"cc"}))
     ELSE Scan("cc", "dbs") /\ UNCHANGED <<csts, changed, overtaken>>
  /\ UNCHANGED <<ioVars, hostVars, admin_q, adm, swallowed>>

(* A shutdown rewinds the doorbell and the completions, but not the phase; *)
(* the one the host wrote since the last step is one like any other.       *)
ScanShn ==
  /\ Scan("shn", "seen")
  /\ IF cc.shn = 1
     THEN /\ csts' = [csts EXCEPT !.shst = 2]
          /\ adm' = [adm EXCEPT !.db = 0, !.old_db = 0, !.cq_head = 0]
          /\ changed' = changed \ {"cc"}
     ELSE UNCHANGED <<csts, adm, changed>>
  /\ UNCHANGED <<ioVars, hostVars, admin_q, ghostVars>>

(* cc is read once more, and what it is now counts as seen.                *)
ScanSeen ==
  /\ Scan("seen", "dbs")
  /\ swallowed' = (swallowed \/ "cc" \in changed)
  /\ changed' = changed \ {"cc"}
  /\ UNCHANGED <<ioVars, hostVars, csts, admin_q, adm, overtaken>>

(* nvmev_proc_admin_sq and the command's handler, with its completion.     *)
Execute(c) ==
  \/ c.opcode = "create_cq" /\ CreateCq
  \/ c.opcode = "delete_cq" /\ DeleteCq
  \/ c.opcode = "create_sq" /\ CreateSq(c.qid)
  \/ c.opcode = "delete_sq" /\ DeleteSq(c.qid)

ProcAdmin ==
  /\ scan = "dbs" /\ adm.db # adm.old_db
  /\ Execute(asq[adm.old_db])
  /\ asq' = [asq EXCEPT ![adm.old_db] = NoCommand]
  /\ acq' = [acq EXCEPT ![adm.cq_head] = adm.phase]
  /\ adm' = [adm EXCEPT !.old_db = Next_(@), !.cq_head = Next_(@),
                        !.phase = IF adm.cq_head + 1 = depth THEN 1 - @ ELSE @]
  /\ UNCHANGED <<cc, changed, csts, admin_q, scan, hpc, hadm, waiting, ghostVars>>

(* A pass while the host is up finds no register changed and is left out.  *)
NextPass ==
  /\ hpc # "up"
  /\ adm.db = adm.old_db /\ Scan("dbs", "aqa")
  /\ UNCHANGED <<ioVars, hostVars, changed, csts, admin_q, adm, ghostVars>>

-----------------------------------------------------------------------------
(* The host: it writes the registers in the order aqa, asq, acq, cc.       *)

devVars == <<admin_q, adm, scan, ghostVars>>
Goes(from, to) == hpc = from /\ hpc' = to

WriteCc(value) ==
  /\ cc' = value /\ changed' = changed \cup {"cc"}
  /\ swallowed' = FALSE
  /\ UNCHANGED <<ioVars, admin_q, adm, scan, overtaken, csts, acq, asq, hadm, waiting>>

(* The first value of aqa is kept; the rings are at a new place each time. *)
WriteAqa ==
  /\ Goes("down", "asq") /\ changed' = changed \cup IF admin_q THEN {} ELSE {"aqa"}
  /\ UNCHANGED <<ioVars, devVars, cc, csts, acq, asq, hadm, waiting>>

WriteAsq ==
  /\ Goes("asq", "acq") /\ changed' = changed \cup {"asq"}
  /\ hadm' = [hadm EXCEPT !.tail = 0]
  /\ UNCHANGED <<ioVars, devVars, cc, csts, acq, asq, waiting>>

WriteAcq ==
  /\ Goes("acq", "cc") /\ changed' = changed \cup {"acq"}
  /\ hadm' = [hadm EXCEPT !.head = 0, !.phase = 1]
  /\ acq' = [i \in 0 .. depth - 1 |-> 0]
  /\ UNCHANGED <<ioVars, devVars, cc, csts, asq, waiting>>

Enable == Goes("cc", "boot") /\ WriteCc([en |-> 1, shn |-> 0])

(* What the host does after a ready that came too early is not followed.   *)
SeesReady ==
  /\ Goes("boot", "up") /\ csts.rdy = 1 /\ ~overtaken
  /\ UNCHANGED <<ioVars, devVars, cc, changed, csts, acq, asq, hadm, waiting>>

(* The commands the host may issue: queues are created in their order, and *)
(* deleted when nothing is outstanding in them.                            *)
Issuable(c) ==
  \/ c.opcode = "create_cq" /\ ~cqe_exists
  \/ c.opcode = "create_sq" /\ cqe_exists /\ ~sqes[c.qid]
  \/ c.opcode = "delete_sq" /\ sqes[c.qid] /\ \A t \in Tags : <<c.qid, t>> \notin outstanding
  \/ c.opcode = "delete_cq" /\ cqe_exists /\ \A s \in SQs : ~sqes[s]

Issue ==
  /\ hpc = "up" /\ waiting = NoCommand
  /\ \E c \in Commands :
       Issuable(c) /\ waiting' = c /\ asq' = [asq EXCEPT ![hadm.tail] = c]
  /\ hadm' = [hadm EXCEPT !.tail = Next_(@)]
  /\ adm' = [adm EXCEPT !.db = Next_(hadm.tail)]
  /\ UNCHANGED <<ioVars, cc, changed, csts, admin_q, acq, scan, hpc, ghostVars>>

(* The host sends no I/O to a queue it is deleting.                        *)
Quiet(s) == waiting = [opcode |-> "delete_sq", qid |-> s]

HostIo ==
  /\ \/ \E s \in SQs : hpc = "up" /\ ~Quiet(s) /\ Submit(s)
     \/ TakeInterrupt \/ Reap
  /\ UNCHANGED regVars

SeesCompletion ==
  /\ waiting # NoCommand /\ acq[hadm.head] = hadm.phase
  /\ waiting' = NoCommand
  /\ hadm' = [hadm EXCEPT !.head = Next_(@),
                          !.phase = IF hadm.head + 1 = depth THEN 1 - @ ELSE @]
  /\ UNCHANGED <<ioVars, devVars, cc, changed, csts, acq, asq, hpc>>

Idle == waiting = NoCommand /\ ~cqe_exists

Shutdown == Idle /\ Goes("up", "shutdown") /\ WriteCc([cc EXCEPT !.shn = 1])

Disable ==
  /\ \/ Idle /\ Goes("up", "off")
     \/ csts.shst = 2 /\ Goes("shutdown", "off")
  /\ WriteCc([en |-> 0, shn |-> 0])

SeesOff ==
  /\ csts.rdy = 0 /\ Goes("off", "down")
  /\ UNCHANGED <<ioVars, devVars, cc, changed, csts, acq, asq, hadm, waiting>>

Dispatcher == ScanAqa \/ ScanAsq \/ ScanAcq \/ ScanCc \/ ScanShn \/ ScanSeen
              \/ ProcAdmin \/ NextPass

Host ==
  \/ WriteAqa \/ WriteAsq \/ WriteAcq \/ Enable \/ SeesReady \/ Issue
  \/ SeesCompletion \/ Shutdown \/ Disable \/ SeesOff \/ HostIo

Next == Dispatcher \/ Host \/ (Device /\ UNCHANGED regVars)

PostOf(s, t) == \E w \in work : w.sqid = s /\ w.command_id = t /\ Post(w)

(* The dispatcher, the workers and the host's interrupt handler are        *)
(* threads that do not stop; every fetched request becomes due.            *)
Spec ==
  /\ Init /\ [][Next]_vars
  /\ WF_vars(Dispatcher) /\ WF_vars(SeesReady) /\ WF_vars(SeesOff)
  /\ WF_vars(SeesCompletion)
  /\ WF_vars((TakeInterrupt \/ Reap) /\ UNCHANGED regVars)
  /\ \A s \in SQs : WF_vars(Fetch(s) /\ UNCHANGED regVars)
  /\ WF_vars(PollQueue /\ UNCHANGED regVars) /\ WF_vars(PollLook /\ UNCHANGED regVars)
  /\ WF_vars((PollClear \/ PollSignal \/ PollStale) /\ UNCHANGED regVars)
  /\ \A s \in SQs, t \in Tags : WF_vars(PostOf(s, t) /\ UNCHANGED regVars)

-----------------------------------------------------------------------------

(* Whenever the host, having seen the controller ready, waits for nothing, *)
(* both sides agree where the admin rings stand and which phase comes      *)
(* next: also after resets and shutdowns in the middle of a ring.          *)
AdminRingsAgree ==
  hpc = "up" /\ waiting = NoCommand =>
    /\ adm.db = hadm.tail /\ adm.old_db = hadm.tail
    /\ adm.cq_head = hadm.head /\ adm.phase = hadm.phase

(* A host that enables the controller sees it ready, and one that disables *)
(* it sees it off, unless it wrote while the scan was past the register:   *)
(* the admin rings are then seen too late, or cc never.                    *)
CcIsAnswered ==
  /\ hpc = "boot" ~> (hpc = "up" \/ overtaken \/ swallowed)
  /\ hpc = "off" ~> (hpc = "down" \/ swallowed)

(* Every I/O command the host sends is reaped: no wakeup of the host is    *)
(* lost between the posting worker and the one that polls.                 *)
EveryCommandIsReaped ==
  \A s \in SQs, t \in Tags :
    <<s, t>> \in outstanding ~> <<s, t>> \notin outstanding

=============================================================================
