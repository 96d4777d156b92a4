-------------------------- MODULE ControllerProofs --------------------------
(***************************************************************************)
(* For any number of submission queues and any size of the rings: a        *)
(* completion the host has not seen is announced; host and device agree on *)
(* the admin rings whenever the host is up and waits for nothing; and      *)
(* every command of the host is in exactly one place, its submission ring, *)
(* the work queues or, not yet seen by the host, the completion ring.      *)
(*                                                                         *)
(* AnnounceInv speaks of the I/O queues, RegInv of the registers and the   *)
(* admin rings; they are independent of each other.  CmdInv, of the        *)
(* commands, rests on RegInv.                                              *)
(***************************************************************************)
EXTENDS Controller, FiniteSetTheorems, TLAPS

-----------------------------------------------------------------------------
(* The completion queue.                                                   *)

NewHead == cq[head].phase = head_phase

AnnounceInv ==
  /\ head \in 0 .. cq_size - 1
  /\ ~cqe_exists => /\ head_phase = 1
                    /\ \A i \in 0 .. cq_size - 1 : cq[i].phase = 0
  /\ NewHead => handling \/ irq \/ poll = "signal" \/ interrupt_ready

(* If the host has anything to take, the entry at its head is new.         *)
LEMMA UnseenHead ==
  ASSUME head \in 0 .. cq_size - 1, Unseen # {}
  PROVE  NewHead
<1>1. cq_size \in Nat \ {0}
  BY IoQueuesAssumption
<1>2. PICK i \in 0 .. cq_size - 1 : \A j \in 0 .. i : New(j)
  BY DEF Unseen
<1>3. New(0)
  BY <1>1, <1>2
<1>4. (head + 0) % cq_size = head /\ ~(head + 0 >= cq_size)
  BY <1>1
<1> QED BY <1>3, <1>4 DEF New, NewHead

(* Without a completion queue nothing is new.                              *)
LEMMA NothingNew ==
  ASSUME AnnounceInv, ~cqe_exists
  PROVE  ~NewHead
BY DEF AnnounceInv, NewHead

LEMMA InitAnnounce == ASSUME Init PROVE AnnounceInv
<1>1. cq_size - 1 >= 0 /\ cq_size \in Nat
  BY IoQueuesAssumption
<1>2. /\ head = 0 /\ head_phase = 1
      /\ cq = [i \in 0 .. cq_size - 1 |-> Empty]
  BY DEF Init, IoInit
<1>3. \A i \in 0 .. cq_size - 1 : cq[i].phase = 0
  BY <1>2 DEF Empty
<1> QED BY <1>1, <1>2, <1>3 DEF AnnounceInv, NewHead

LEMMA CqUnchangedKeeps ==
  ASSUME AnnounceInv, UNCHANGED <<cqe_exists, cq, head, head_phase>>,
         handling \/ irq \/ poll = "signal" \/ interrupt_ready
           => handling' \/ irq' \/ poll' = "signal" \/ interrupt_ready'
  PROVE  AnnounceInv'
BY DEF AnnounceInv, NewHead

(* The host's interrupt handler: it ends when the head is not new.         *)
LEMMA ReapKeeps ==
  ASSUME AnnounceInv, Reap
  PROVE  AnnounceInv'
<1>1. cq_size \in Nat \ {0}
  BY IoQueuesAssumption
<1>2. CASE NewHead
  <2>1. cqe_exists /\ cqe_exists'
    BY <1>2, NothingNew DEF Reap
  <2>2. head' = (head + 1) % cq_size /\ handling'
    BY <1>2 DEF Reap, NewHead
  <2>3. head' \in 0 .. cq_size - 1
    BY <1>1, <2>2 DEF AnnounceInv
  <2> QED BY <2>1, <2>2, <2>3 DEF AnnounceInv
<1>3. CASE ~NewHead
  <2>1. UNCHANGED <<cqe_exists, cq, head, head_phase>>
    BY <1>3 DEF Reap, NewHead
  <2> QED BY <1>3, <2>1 DEF AnnounceInv, NewHead
<1> QED BY <1>2, <1>3

(* The announcement goes from interrupt_ready over the signal to the       *)
(* interrupt and the handler, and is never dropped on the way.             *)
LEMMA PollKeeps ==
  ASSUME AnnounceInv,
         PollQueue \/ PollLook \/ PollClear \/ PollSignal \/ PollStale
  PROVE  AnnounceInv'
<1>1. UNCHANGED <<cqe_exists, cq, head, head_phase, handling>>
  BY DEF PollQueue, PollLook, PollClear, PollSignal, PollStale, Poll, queueVars
<1>2. handling \/ irq \/ poll = "signal" \/ interrupt_ready
        => handling' \/ irq' \/ poll' = "signal" \/ interrupt_ready'
  <2>1. CASE PollQueue
    BY <1>1, <2>1 DEF PollQueue, Poll
  <2>2. CASE PollLook
    BY <1>1, <2>2 DEF PollLook, Poll
  <2>3. CASE PollClear
    BY <2>3 DEF PollClear, Poll
  <2>4. CASE PollSignal
    BY <2>4 DEF PollSignal, Announce
  <2>5. CASE PollStale
    <3>1. /\ poll = "stale"
          /\ \/ UNCHANGED interrupt_ready /\ (irq' = irq \/ irq' = TRUE)
             \/ poll' = "signal"
      BY <2>5 DEF PollStale, Poll
    <3>2. poll # "signal"
      BY <3>1
    <3>3. CASE irq' = TRUE \/ poll' = "signal"
      BY <3>3
    <3>4. CASE irq' = irq /\ UNCHANGED interrupt_ready
      BY <1>1, <3>2, <3>4
    <3> QED BY <3>1, <3>3, <3>4
  <2> QED BY <2>1, <2>2, <2>3, <2>4, <2>5
<1> QED BY <1>1, <1>2, CqUnchangedKeeps

LEMMA NextAnnounce == ASSUME AnnounceInv, [Next]_vars PROVE AnnounceInv'
<1>1. cq_size \in Nat /\ cq_size >= 2
  BY IoQueuesAssumption
<1>2. CASE UNCHANGED ioVars
  BY <1>2, CqUnchangedKeeps DEF ioVars
<1>3. ASSUME NEW c, Execute(c) PROVE AnnounceInv'
  <2>1. CASE CreateCq
    BY <2>1, <1>1 DEF CreateCq, AnnounceInv, NewHead
  <2>2. CASE DeleteCq
    <3>1. head' = 0 /\ head_phase' = 1 /\ cq' = [i \in 0 .. cq_size - 1 |-> Empty]
      BY <2>2 DEF DeleteCq
    <3>2. \A i \in 0 .. cq_size - 1 : cq'[i].phase = 0
      BY <3>1 DEF Empty
    <3> QED BY <1>1, <3>1, <3>2 DEF AnnounceInv, NewHead
  <2>3. CASE \E s : CreateSq(s) \/ DeleteSq(s)
    BY <2>3, CqUnchangedKeeps DEF CreateSq, DeleteSq
  <2> QED BY <1>3, <2>1, <2>2, <2>3 DEF Execute
<1>4. CASE HostIo
  <2>1. CASE \E s \in SQs : Submit(s)
    BY <2>1, CqUnchangedKeeps DEF Submit
  <2>2. CASE TakeInterrupt
    <3>1. UNCHANGED <<cqe_exists, cq, head, head_phase>> /\ handling' = cqe_exists
      BY <2>2 DEF TakeInterrupt, queueVars
    <3>2. CASE cqe_exists
      BY <3>1, <3>2 DEF AnnounceInv, NewHead
    <3>3. CASE ~cqe_exists
      BY <3>1, <3>3, NothingNew DEF AnnounceInv, NewHead
    <3> QED BY <3>2, <3>3
  <2>3. CASE Reap
    BY <2>3, ReapKeeps
  <2> QED BY <1>4, <2>1, <2>2, <2>3 DEF HostIo
<1>5. CASE Device
  <2>1. CASE \E s \in SQs : Fetch(s)
    BY <2>1, CqUnchangedKeeps DEF Fetch
  <2>2. CASE \E w \in work : Post(w)
    BY <2>2 DEF Post, AnnounceInv
  <2> QED BY <1>5, <2>1, <2>2, PollKeeps DEF Device
<1>6. CASE Dispatcher \/ (Host /\ ~HostIo)
  <2>1. CASE ProcAdmin
    BY <2>1, <1>3 DEF ProcAdmin
  <2>2. CASE ~ProcAdmin
    <3>1. UNCHANGED ioVars
      BY <1>6, <2>2 DEF Dispatcher, Host, ScanAqa, ScanAsq, ScanAcq, ScanCc, ScanShn,
         ScanSeen, NextPass, WriteAqa, WriteAsq, WriteAcq, WriteCc, Enable, SeesReady, Issue,
         SeesCompletion, Shutdown, Disable, SeesOff
    <3> QED BY <3>1, <1>2
  <2> QED BY <2>1, <2>2
<1> QED BY <1>2, <1>4, <1>5, <1>6 DEF Next, vars

(* A completion that the host has not seen is announced: its handler runs, *)
(* an interrupt is on its way, or a worker will find interrupt_ready; no   *)
(* order of posting, polling and handling loses the wakeup.                *)
THEOREM CompletionsAnnounced == Spec => []CompletionIsAnnounced
<1>1. Init => AnnounceInv
  BY InitAnnounce
<1>2. AnnounceInv /\ [Next]_vars => AnnounceInv'
  BY NextAnnounce
<1>3. AnnounceInv => CompletionIsAnnounced
  BY UnseenHead DEF AnnounceInv, CompletionIsAnnounced
<1> QED BY <1>1, <1>2, <1>3, PTL DEF Spec

-----------------------------------------------------------------------------
(* The registers and the admin rings.                                      *)

Ring == 0 .. depth - 1
Down == {"down", "asq", "acq", "cc"}

RegType ==
  /\ adm \in [db : Ring, old_db : Ring, cq_head : Ring, phase : {0, 1}]
  /\ hadm \in [tail : Ring, head : Ring, phase : {0, 1}]
  /\ acq \in [Ring -> {0, 1}]
  /\ cc \in [en : {0, 1}, shn : {0, 1}]
  /\ csts \in [rdy : {0, 1}, shst : {0, 2}]
  /\ hpc \in Down \cup {"boot", "up", "shutdown", "off"}

(* Which of its writes the device still has to see, wherever the host is.  *)
HostPhase ==
  /\ hpc \in Down => changed \subseteq {"aqa", "asq", "acq"} /\ csts.rdy = 0
  /\ hpc = "boot" =>
       /\ cc.en = 1
       /\ "cc" \in changed => csts.rdy = 0
       /\ ~overtaken /\ csts.rdy = 1 => changed = {}
  /\ hpc = "up" => changed = {} /\ csts.rdy = 1 /\ cc.en = 1
  /\ hpc = "shutdown" => changed \subseteq {"cc"} /\ csts.rdy = 1 /\ cc.en = 1
  /\ hpc = "off" => /\ changed \subseteq {"cc"} /\ cc.en = 0
                    /\ "cc" \in changed => csts.rdy = 1
  /\ cc.shn = 1 => hpc = "shutdown"

(* The rings are fresh on both sides, once the device has seen them.       *)
Fresh ==
  /\ hpc # "up" => waiting = NoCommand /\ adm.db = adm.old_db
  /\ hpc \in {"acq", "cc", "boot"} =>
       /\ hadm.tail = 0
       /\ "asq" \in changed \/ adm.old_db = 0
  /\ hpc \in {"cc", "boot"} =>
       /\ hadm.head = 0 /\ hadm.phase = 1 /\ \A i \in Ring : acq[i] = 0
       /\ "acq" \in changed \/ (adm.cq_head = 0 /\ adm.phase = 1)

NextPhase(i, p) == IF i + 1 = depth THEN 1 - p ELSE p

Agree  == /\ adm.db = hadm.tail /\ adm.old_db = hadm.tail
          /\ adm.cq_head = hadm.head /\ adm.phase = hadm.phase
Issued == /\ adm.db = hadm.tail /\ hadm.tail = Next_(adm.old_db)
          /\ adm.cq_head = hadm.head /\ adm.phase = hadm.phase
Answered == /\ adm.db = hadm.tail /\ adm.old_db = hadm.tail
            /\ adm.cq_head = Next_(hadm.head)
            /\ adm.phase = NextPhase(hadm.head, hadm.phase)

(* Between the host's command and its completion one side is ahead, and    *)
(* the phases in the ring say which.                                       *)
InUse ==
  hpc = "up" =>
    /\ \A i \in Ring : acq[i] = IF i < adm.cq_head THEN adm.phase ELSE 1 - adm.phase
    /\ IF waiting = NoCommand THEN Agree ELSE Issued \/ Answered

RegInv == RegType /\ HostPhase /\ Fresh /\ InUse

LEMMA InitReg == ASSUME Init PROVE RegInv
<1>1. depth \in Nat /\ depth >= 2
  BY DepthAssumption
<1>2. /\ cc = [en |-> 0, shn |-> 0] /\ changed = {} /\ csts = [rdy |-> 0, shst |-> 0]
      /\ adm = [db |-> 0, old_db |-> 0, cq_head |-> 0, phase |-> 0]
      /\ acq = [i \in 0 .. depth - 1 |-> 0] /\ hpc = "down"
      /\ hadm = [tail |-> 0, head |-> 0, phase |-> 1] /\ waiting = NoCommand
  BY DEF Init
<1>3. 0 \in Ring
  BY <1>1 DEF Ring
<1>4. RegType
  <2>1. acq \in [Ring -> {0, 1}]
    BY <1>2 DEF Ring
  <2> QED BY <1>2, <1>3, <2>1 DEF RegType, Down
<1>5. HostPhase
  BY <1>2 DEF HostPhase
<1>6. Fresh
  BY <1>2 DEF Fresh
<1>7. InUse
  BY <1>2 DEF InUse
<1> QED BY <1>4, <1>5, <1>6, <1>7 DEF RegInv

LEMMA RegUnchanged ==
  ASSUME RegInv, UNCHANGED <<cc, changed, csts, adm, acq, hpc, hadm, waiting, overtaken>>
  PROVE  RegInv'
BY DEF RegInv, RegType, HostPhase, Fresh, InUse, Agree, Issued, Answered, Next_, NextPhase

LEMMA NextInRing == \A i \in Ring : Next_(i) \in Ring
<1>1. depth \in Nat /\ depth >= 2
  BY DepthAssumption
<1> QED BY <1>1 DEF Ring, Next_

LEMMA ZeroInRing == 0 \in Ring
BY DepthAssumption DEF Ring

(* The dispatcher's scan.  While the host is up it finds nothing changed.  *)

LEMMA ScanAqaKeeps == ASSUME RegInv, ScanAqa PROVE RegInv'
<1>1. depth \in Nat /\ depth >= 2
  BY DepthAssumption
<1>2. UNCHANGED <<cc, csts, acq, hpc, hadm, waiting, overtaken>>
  BY DEF ScanAqa, hostVars, ghostVars
<1>3. CASE "aqa" \in changed
  <2>1. /\ changed' = changed \ {"aqa"}
        /\ adm' = [db |-> 0, old_db |-> 0, cq_head |-> 0, phase |-> 1]
    BY <1>3 DEF ScanAqa
  <2>2. hpc # "up"
    BY <1>3 DEF RegInv, HostPhase
  <2>3. RegType'
    BY <1>1, <1>2, <2>1 DEF RegInv, RegType, Ring
  <2>4. HostPhase'
    BY <1>2, <2>1 DEF RegInv, HostPhase
  <2>5. Fresh'
    BY <1>2, <2>1, <2>2 DEF RegInv, Fresh
  <2> QED BY <1>2, <2>2, <2>3, <2>4, <2>5 DEF RegInv, InUse
<1>4. CASE "aqa" \notin changed
  <2>1. UNCHANGED <<changed, adm>>
    BY <1>4 DEF ScanAqa
  <2> QED BY <1>2, <2>1, RegUnchanged
<1> QED BY <1>3, <1>4

LEMMA ScanAsqKeeps == ASSUME RegInv, ScanAsq PROVE RegInv'
<1>1. depth \in Nat /\ depth >= 2
  BY DepthAssumption
<1>2. UNCHANGED <<cc, csts, acq, hpc, hadm, waiting, overtaken>>
  BY DEF ScanAsq, hostVars, ghostVars
<1>3. CASE "asq" \in changed /\ admin_q
  <2>1. changed' = changed \ {"asq"} /\ adm' = [adm EXCEPT !.db = 0, !.old_db = 0]
    BY <1>3 DEF ScanAsq
  <2>2. hpc # "up"
    BY <1>3 DEF RegInv, HostPhase
  <2>3. /\ adm'.db = 0 /\ adm'.old_db = 0
        /\ adm'.cq_head = adm.cq_head /\ adm'.phase = adm.phase
        /\ adm' \in [db : Ring, old_db : Ring, cq_head : Ring, phase : {0, 1}]
    <3>1. adm \in [db : Ring, old_db : Ring, cq_head : Ring, phase : {0, 1}]
      BY DEF RegInv, RegType
    <3> QED BY <2>1, <3>1, ZeroInRing
  <2>4. RegType'
    BY <1>2, <2>3 DEF RegInv, RegType, Ring
  <2>5. HostPhase'
    BY <1>2, <2>1 DEF RegInv, HostPhase
  <2>6. Fresh'
    BY <1>2, <2>1, <2>2, <2>3 DEF RegInv, Fresh
  <2> QED BY <1>2, <2>2, <2>4, <2>5, <2>6 DEF RegInv, InUse
<1>4. CASE ~("asq" \in changed /\ admin_q)
  <2>1. UNCHANGED <<changed, adm>>
    BY <1>4 DEF ScanAsq
  <2> QED BY <1>2, <2>1, RegUnchanged
<1> QED BY <1>3, <1>4

LEMMA ScanAcqKeeps == ASSUME RegInv, ScanAcq PROVE RegInv'
<1>1. depth \in Nat /\ depth >= 2
  BY DepthAssumption
<1>2. UNCHANGED <<cc, csts, acq, hpc, hadm, waiting, overtaken>>
  BY DEF ScanAcq, hostVars, ghostVars
<1>3. CASE "acq" \in changed /\ admin_q
  <2>1. changed' = changed \ {"acq"} /\ adm' = [adm EXCEPT !.cq_head = 0, !.phase = 1]
    BY <1>3 DEF ScanAcq, Restarted
  <2>2. hpc # "up"
    BY <1>3 DEF RegInv, HostPhase
  <2>3. /\ adm'.db = adm.db /\ adm'.old_db = adm.old_db
        /\ adm'.cq_head = 0 /\ adm'.phase = 1
        /\ adm' \in [db : Ring, old_db : Ring, cq_head : Ring, phase : {0, 1}]
    <3>1. adm \in [db : Ring, old_db : Ring, cq_head : Ring, phase : {0, 1}]
      BY DEF RegInv, RegType
    <3> QED BY <2>1, <3>1, ZeroInRing
  <2>4. RegType'
    BY <1>2, <2>3 DEF RegInv, RegType, Ring
  <2>5. HostPhase'
    BY <1>2, <2>1 DEF RegInv, HostPhase
  <2>6. Fresh'
    BY <1>2, <2>1, <2>2, <2>3 DEF RegInv, Fresh
  <2> QED BY <1>2, <2>2, <2>4, <2>5, <2>6 DEF RegInv, InUse
<1>4. CASE ~("acq" \in changed /\ admin_q)
  <2>1. UNCHANGED <<changed, adm>>
    BY <1>4 DEF ScanAcq
  <2> QED BY <1>2, <2>1, RegUnchanged
<1> QED BY <1>3, <1>4

(* A controller becomes ready with its rings taken over, or is overtaken.  *)
LEMMA ScanCcKeeps == ASSUME RegInv, ScanCc PROVE RegInv'
<1>1. UNCHANGED <<cc, adm, acq, hpc, hadm, waiting>>
  BY DEF ScanCc, hostVars
<1>2. CASE "cc" \in changed
  <2>1. /\ csts' = [csts EXCEPT !.rdy = IF cc.en = 0 THEN 0 ELSE IF admin_q THEN 1 ELSE @]
        /\ changed' = changed \ {"cc"}
        /\ overtaken' = (overtaken \/ (cc.en = 1 /\ changed # {"cc"}))
    BY <1>2 DEF ScanCc
  <2>2. hpc \in {"boot", "shutdown", "off"}
    BY <1>2 DEF RegInv, RegType, HostPhase
  <2>3. /\ csts' \in [rdy : {0, 1}, shst : {0, 2}]
        /\ csts'.rdy = IF cc.en = 0 THEN 0 ELSE IF admin_q THEN 1 ELSE csts.rdy
    BY <2>1 DEF RegInv, RegType
  <2>4. RegType'
    BY <1>1, <2>3 DEF RegInv, RegType, Ring
  <2>5. HostPhase'
    <3>1. CASE hpc = "boot"
      <4>1. ~overtaken' => changed' = {}
        BY <2>1, <3>1 DEF RegInv, HostPhase
      <4> QED BY <1>1, <2>1, <3>1, <4>1 DEF RegInv, HostPhase, Down
    <3>2. CASE hpc \in {"shutdown", "off"}
      BY <1>1, <2>1, <2>3, <3>2 DEF RegInv, HostPhase, Down
    <3> QED BY <2>2, <3>1, <3>2
  <2>6. Fresh'
    BY <1>1, <2>1 DEF RegInv, Fresh
  <2> QED BY <1>1, <2>2, <2>4, <2>5, <2>6 DEF RegInv, InUse
<1>3. CASE "cc" \notin changed
  <2>1. UNCHANGED <<changed, csts, adm, overtaken>>
    BY <1>1, <1>3 DEF ScanCc
  <2> QED BY <1>1, <2>1, RegUnchanged
<1> QED BY <1>2, <1>3

(* Only a host that has shut down finds the rings rewound.                 *)
LEMMA ScanShnKeeps == ASSUME RegInv, ScanShn PROVE RegInv'
<1>1. UNCHANGED <<cc, acq, hpc, hadm, waiting, overtaken>>
  BY DEF ScanShn, hostVars, ghostVars
<1>2. CASE cc.shn = 1
  <2>1. /\ csts' = [csts EXCEPT !.shst = 2]
        /\ adm' = [adm EXCEPT !.db = 0, !.old_db = 0, !.cq_head = 0]
        /\ changed' = changed \ {"cc"}
    BY <1>2 DEF ScanShn
  <2>2. hpc = "shutdown"
    BY <1>2 DEF RegInv, HostPhase
  <2>3. /\ adm' \in [db : Ring, old_db : Ring, cq_head : Ring, phase : {0, 1}]
        /\ adm'.db = adm'.old_db
    <3>1. adm \in [db : Ring, old_db : Ring, cq_head : Ring, phase : {0, 1}]
      BY DEF RegInv, RegType
    <3> QED BY <2>1, <3>1, ZeroInRing
  <2>4. csts' \in [rdy : {0, 1}, shst : {0, 2}] /\ csts'.rdy = csts.rdy
    BY <2>1 DEF RegInv, RegType
  <2>5. RegType'
    BY <1>1, <2>3, <2>4 DEF RegInv, RegType, Ring
  <2>6. HostPhase'
    BY <1>1, <2>1, <2>2, <2>4 DEF RegInv, HostPhase, Down
  <2>7. Fresh'
    BY <1>1, <2>2, <2>3 DEF RegInv, Fresh
  <2> QED BY <1>1, <2>2, <2>5, <2>6, <2>7 DEF RegInv, InUse
<1>3. CASE cc.shn # 1
  <2>1. UNCHANGED <<changed, csts, adm>>
    BY <1>3 DEF ScanShn
  <2> QED BY <1>1, <2>1, RegUnchanged
<1> QED BY <1>2, <1>3

(* A write of cc that is lost here leaves the host waiting; no lost one    *)
(* makes it see ready, or off, that is not so.                             *)
LEMMA ScanSeenKeeps == ASSUME RegInv, ScanSeen PROVE RegInv'
<1>1. /\ changed' = changed \ {"cc"}
      /\ UNCHANGED <<cc, csts, adm, acq, hpc, hadm, waiting, overtaken>>
  BY DEF ScanSeen, hostVars
<1>2. RegType' /\ HostPhase'
  BY <1>1 DEF RegInv, RegType, HostPhase, Down, Ring
<1>3. Fresh'
  BY <1>1 DEF RegInv, Fresh
<1>4. InUse'
  BY <1>1 DEF RegInv, InUse, Agree, Issued, Answered, Next_, NextPhase, Ring
<1> QED BY <1>2, <1>3, <1>4 DEF RegInv

(* The device answers: it writes the phase of this round where its head    *)
(* is, and the round ends with the ring.                                   *)
LEMMA ProcAdminKeeps == ASSUME RegInv, ProcAdmin PROVE RegInv'
<1>1. depth \in Nat /\ depth >= 2
  BY DepthAssumption
<1>2. UNCHANGED <<cc, changed, csts, hpc, hadm, waiting, overtaken>>
  BY DEF ProcAdmin, ghostVars
<1>3. /\ adm.db # adm.old_db
      /\ acq' = [acq EXCEPT ![adm.cq_head] = adm.phase]
      /\ adm' = [adm EXCEPT !.old_db = Next_(@), !.cq_head = Next_(@),
                            !.phase = IF adm.cq_head + 1 = depth THEN 1 - @ ELSE @]
  BY DEF ProcAdmin
<1>4. hpc = "up"
  BY <1>3 DEF RegInv, Fresh
<1>5. waiting # NoCommand /\ Issued
  BY <1>3, <1>4 DEF RegInv, InUse, Agree, Answered
<1>6. /\ adm.cq_head \in Ring /\ adm.old_db \in Ring /\ adm.phase \in {0, 1}
      /\ Next_(adm.cq_head) \in Ring /\ Next_(adm.old_db) \in Ring
  BY NextInRing DEF RegInv, RegType
<1>7. /\ adm'.db = adm.db /\ adm'.old_db = Next_(adm.old_db)
      /\ adm'.cq_head = Next_(adm.cq_head)
      /\ adm'.phase = NextPhase(adm.cq_head, adm.phase)
      /\ adm' \in [db : Ring, old_db : Ring, cq_head : Ring, phase : {0, 1}]
  <2>1. adm \in [db : Ring, old_db : Ring, cq_head : Ring, phase : {0, 1}]
    BY DEF RegInv, RegType
  <2>2. NextPhase(adm.cq_head, adm.phase) \in {0, 1}
    BY <1>6 DEF NextPhase
  <2>3. adm' = [adm EXCEPT !.old_db = Next_(adm.old_db), !.cq_head = Next_(adm.cq_head),
                          !.phase = NextPhase(adm.cq_head, adm.phase)]
    BY <1>3 DEF NextPhase
  <2> QED BY <1>6, <2>1, <2>2, <2>3
<1>8. RegType'
  <2>1. acq' \in [Ring -> {0, 1}]
    BY <1>3, <1>6 DEF RegInv, RegType
  <2> QED BY <1>2, <1>7, <2>1 DEF RegInv, RegType, Ring
<1>9. HostPhase'
  BY <1>2 DEF RegInv, HostPhase
<1>10. Fresh'
  BY <1>2, <1>4 DEF Fresh
<1>11. InUse'
  <2>1. Answered'
    BY <1>2, <1>5, <1>7 DEF Issued, Answered, Next_, NextPhase
  <2>2. ASSUME NEW i \in Ring
        PROVE  acq'[i] = IF i < adm'.cq_head THEN adm'.phase ELSE 1 - adm'.phase
    <3>1. acq[i] = IF i < adm.cq_head THEN adm.phase ELSE 1 - adm.phase
      BY <1>4 DEF RegInv, InUse
    <3>2. acq'[i] = IF i = adm.cq_head THEN adm.phase ELSE acq[i]
      BY <1>3 DEF RegInv, RegType
    <3>3. CASE adm.cq_head + 1 = depth
      <4>1. adm'.cq_head = 0 /\ adm'.phase = 1 - adm.phase
        BY <1>7, <3>3 DEF Next_, NextPhase
      <4>2. i <= adm.cq_head
        BY <1>1, <1>6, <3>3 DEF Ring
      <4> QED BY <1>6, <3>1, <3>2, <4>1, <4>2 DEF Ring
    <3>4. CASE adm.cq_head + 1 # depth
      <4>1. adm'.cq_head = adm.cq_head + 1 /\ adm'.phase = adm.phase
        BY <1>7, <3>4 DEF Next_, NextPhase
      <4> QED BY <1>6, <3>1, <3>2, <4>1 DEF Ring
    <3> QED BY <3>3, <3>4
  <2> QED BY <1>2, <1>4, <1>5, <2>1, <2>2 DEF InUse
<1> QED BY <1>8, <1>9, <1>10, <1>11 DEF RegInv

(* The host writes the registers.                                          *)
LEMMA WritesKeep ==
  ASSUME RegInv, WriteAqa \/ WriteAsq \/ WriteAcq \/ Enable
  PROVE  RegInv'
<1>1. depth \in Nat /\ depth >= 2
  BY DepthAssumption
<1>2. hadm \in [tail : Ring, head : Ring, phase : {0, 1}]
  BY DEF RegInv, RegType
<1>3. CASE WriteAqa
  <2>1. /\ hpc = "down" /\ hpc' = "asq" /\ changed' \subseteq changed \cup {"aqa"}
        /\ UNCHANGED <<cc, csts, adm, acq, hadm, waiting, overtaken>>
    BY <1>3 DEF WriteAqa, Goes, devVars, ghostVars
  <2>2. RegType'
    BY <2>1 DEF RegInv, RegType, Down
  <2>3. HostPhase'
    BY <2>1 DEF RegInv, HostPhase, Down
  <2> QED BY <2>1, <2>2, <2>3 DEF RegInv, Fresh, InUse
<1>4. CASE WriteAsq
  <2>1. /\ hpc = "asq" /\ hpc' = "acq" /\ changed' = changed \cup {"asq"}
        /\ hadm' = [hadm EXCEPT !.tail = 0]
        /\ UNCHANGED <<cc, csts, adm, acq, waiting, overtaken>>
    BY <1>4 DEF WriteAsq, Goes, devVars, ghostVars
  <2>2. hadm' \in [tail : Ring, head : Ring, phase : {0, 1}] /\ hadm'.tail = 0
    BY <1>2, <2>1, ZeroInRing
  <2>3. RegType'
    BY <2>1, <2>2 DEF RegInv, RegType, Down, Ring
  <2>4. HostPhase'
    BY <2>1 DEF RegInv, HostPhase, Down
  <2>5. Fresh'
    BY <2>1, <2>2 DEF RegInv, Fresh
  <2> QED BY <2>1, <2>3, <2>4, <2>5 DEF RegInv, InUse
<1>5. CASE WriteAcq
  <2>1. /\ hpc = "acq" /\ hpc' = "cc" /\ changed' = changed \cup {"acq"}
        /\ hadm' = [hadm EXCEPT !.head = 0, !.phase = 1]
        /\ acq' = [i \in 0 .. depth - 1 |-> 0]
        /\ UNCHANGED <<cc, csts, adm, waiting, overtaken>>
    BY <1>5 DEF WriteAcq, Goes, devVars, ghostVars
  <2>2. /\ hadm' \in [tail : Ring, head : Ring, phase : {0, 1}]
        /\ hadm'.tail = hadm.tail /\ hadm'.head = 0 /\ hadm'.phase = 1
    BY <1>2, <2>1, ZeroInRing
  <2>3. acq' \in [Ring -> {0, 1}] /\ \A i \in Ring : acq'[i] = 0
    BY <2>1 DEF Ring
  <2>4. RegType'
    BY <2>1, <2>2, <2>3 DEF RegInv, RegType, Down, Ring
  <2>5. HostPhase'
    BY <2>1 DEF RegInv, HostPhase, Down
  <2>6. Fresh'
    <3>1. Ring' = Ring
      BY DEF Ring
    <3> QED BY <2>1, <2>2, <2>3, <3>1 DEF RegInv, Fresh
  <2> QED BY <2>1, <2>4, <2>5, <2>6 DEF RegInv, InUse
<1>6. CASE Enable
  <2>1. /\ hpc = "cc" /\ hpc' = "boot" /\ changed' = changed \cup {"cc"}
        /\ cc' = [en |-> 1, shn |-> 0]
        /\ UNCHANGED <<csts, adm, acq, hadm, waiting, overtaken>>
    BY <1>6 DEF Enable, Goes, WriteCc
  <2>2. RegType'
    BY <2>1 DEF RegInv, RegType, Down
  <2>3. HostPhase'
    BY <2>1 DEF RegInv, HostPhase, Down
  <2>4. Fresh'
    BY <2>1 DEF RegInv, Fresh
  <2> QED BY <2>1, <2>2, <2>3, <2>4 DEF RegInv, InUse
<1> QED BY <1>3, <1>4, <1>5, <1>6

(* The host sees the controller ready: its rings are as fresh as the       *)
(* device's, since nothing that it has written is still to be seen.        *)
LEMMA SeesReadyKeeps == ASSUME RegInv, SeesReady PROVE RegInv'
<1>1. /\ hpc = "boot" /\ hpc' = "up" /\ csts.rdy = 1 /\ ~overtaken
      /\ UNCHANGED <<cc, changed, csts, adm, acq, hadm, waiting, overtaken>>
  BY DEF SeesReady, Goes, devVars, ghostVars
<1>2. changed = {} /\ cc.en = 1
  BY <1>1 DEF RegInv, HostPhase
<1>3. /\ waiting = NoCommand /\ adm.db = adm.old_db /\ adm.old_db = 0
      /\ adm.cq_head = 0 /\ adm.phase = 1 /\ \A i \in Ring : acq[i] = 0
      /\ hadm.tail = 0 /\ hadm.head = 0 /\ hadm.phase = 1
  BY <1>1, <1>2 DEF RegInv, Fresh
<1>4. RegType' /\ HostPhase' /\ Fresh'
  BY <1>1, <1>2 DEF RegInv, RegType, HostPhase, Fresh, Down
<1>5. InUse'
  <2>1. Agree'
    BY <1>1, <1>3 DEF Agree
  <2>2. ASSUME NEW i \in Ring
        PROVE  acq'[i] = IF i < adm'.cq_head THEN adm'.phase ELSE 1 - adm'.phase
    <3>1. ~(i < 0)
      BY DEF Ring
    <3> QED BY <1>1, <1>3, <3>1
  <2> QED BY <1>1, <1>3, <2>1, <2>2 DEF InUse, Ring
<1> QED BY <1>4, <1>5 DEF RegInv

LEMMA IssueKeeps == ASSUME RegInv, Issue PROVE RegInv'
<1>1. /\ hpc = "up" /\ waiting = NoCommand
      /\ hadm' = [hadm EXCEPT !.tail = Next_(@)]
      /\ adm' = [adm EXCEPT !.db = Next_(hadm.tail)]
      /\ UNCHANGED <<cc, changed, csts, acq, hpc, overtaken>>
  BY DEF Issue, ghostVars
<1>2. waiting' # NoCommand
  BY DEF Issue, Commands, NoCommand
<1>3. /\ adm \in [db : Ring, old_db : Ring, cq_head : Ring, phase : {0, 1}]
      /\ hadm \in [tail : Ring, head : Ring, phase : {0, 1}]
  BY DEF RegInv, RegType
<1>4. Next_(hadm.tail) \in Ring
  BY <1>3, NextInRing
<1>5. /\ adm' \in [db : Ring, old_db : Ring, cq_head : Ring, phase : {0, 1}]
      /\ adm'.db = Next_(hadm.tail) /\ adm'.old_db = adm.old_db
      /\ adm'.cq_head = adm.cq_head /\ adm'.phase = adm.phase
  BY <1>1, <1>3, <1>4
<1>6. /\ hadm' \in [tail : Ring, head : Ring, phase : {0, 1}]
      /\ hadm'.tail = Next_(hadm.tail)
      /\ hadm'.head = hadm.head /\ hadm'.phase = hadm.phase
  BY <1>1, <1>3, <1>4
<1>7. RegType'
  BY <1>1, <1>5, <1>6 DEF RegInv, RegType, Ring
<1>8. HostPhase' /\ Fresh'
  BY <1>1 DEF RegInv, HostPhase, Fresh, Down
<1>9. InUse'
  <2>1. Agree
    BY <1>1 DEF RegInv, InUse
  <2>2. Issued'
    BY <1>5, <1>6, <2>1 DEF Agree, Issued, Next_
  <2> QED BY <1>1, <1>2, <1>5, <2>2 DEF RegInv, InUse, Ring
<1> QED BY <1>7, <1>8, <1>9 DEF RegInv

(* The phase in the ring keeps the host from taking an old completion.     *)
LEMMA SeesCompletionKeeps == ASSUME RegInv, SeesCompletion PROVE RegInv'
<1>1. /\ waiting # NoCommand /\ acq[hadm.head] = hadm.phase /\ waiting' = NoCommand
      /\ hadm' = [hadm EXCEPT !.head = Next_(@),
                              !.phase = IF hadm.head + 1 = depth THEN 1 - @ ELSE @]
      /\ UNCHANGED <<cc, changed, csts, adm, acq, hpc, overtaken>>
  BY DEF SeesCompletion, devVars, ghostVars
<1>2. hpc = "up"
  BY <1>1 DEF RegInv, Fresh
<1>3. hadm \in [tail : Ring, head : Ring, phase : {0, 1}]
  BY DEF RegInv, RegType
<1>4. Answered
  <2>1. ASSUME Issued PROVE FALSE
    <3>1. acq[hadm.head] = IF hadm.head < adm.cq_head THEN adm.phase ELSE 1 - adm.phase
      BY <1>2, <1>3 DEF RegInv, InUse
    <3>2. adm.cq_head = hadm.head /\ adm.phase = hadm.phase
      BY <2>1 DEF Issued
    <3> QED BY <1>1, <1>3, <3>1, <3>2 DEF Ring
  <2> QED BY <1>1, <1>2, <2>1 DEF RegInv, InUse
<1>5. /\ hadm' \in [tail : Ring, head : Ring, phase : {0, 1}]
      /\ hadm'.tail = hadm.tail /\ hadm'.head = Next_(hadm.head)
      /\ hadm'.phase = NextPhase(hadm.head, hadm.phase)
  <2>1. Next_(hadm.head) \in Ring /\ NextPhase(hadm.head, hadm.phase) \in {0, 1}
    BY <1>3, NextInRing DEF NextPhase
  <2>2. hadm' = [hadm EXCEPT !.head = Next_(hadm.head),
                            !.phase = NextPhase(hadm.head, hadm.phase)]
    BY <1>1 DEF NextPhase
  <2> QED BY <1>3, <2>1, <2>2
<1>6. RegType'
  BY <1>1, <1>5 DEF RegInv, RegType, Ring
<1>7. HostPhase' /\ Fresh'
  BY <1>1, <1>2 DEF RegInv, HostPhase, Fresh, Down
<1>8. InUse'
  <2>1. Agree'
    BY <1>1, <1>4, <1>5 DEF Answered, Agree
  <2> QED BY <1>1, <1>2, <2>1 DEF RegInv, InUse, Ring
<1> QED BY <1>6, <1>7, <1>8 DEF RegInv

(* The host takes the controller down; its queues are not in use any more. *)
LEMMA DownKeeps ==
  ASSUME RegInv, Shutdown \/ Disable \/ SeesOff
  PROVE  RegInv'
<1>1. cc \in [en : {0, 1}, shn : {0, 1}]
  BY DEF RegInv, RegType
<1>2. UNCHANGED <<csts, adm, acq, hadm, waiting, overtaken>>
  BY DEF Shutdown, Disable, SeesOff, WriteCc, devVars, ghostVars
<1>3. CASE Shutdown
  <2>1. /\ waiting = NoCommand /\ hpc = "up" /\ hpc' = "shutdown"
        /\ cc' = [cc EXCEPT !.shn = 1] /\ changed' = changed \cup {"cc"}
    BY <1>3 DEF Shutdown, Idle, Goes, WriteCc
  <2>2. cc' \in [en : {0, 1}, shn : {0, 1}] /\ cc'.en = cc.en
    BY <1>1, <2>1
  <2>3. adm.db = adm.old_db
    BY <2>1 DEF RegInv, InUse, Agree
  <2>4. RegType'
    BY <1>2, <2>1, <2>2 DEF RegInv, RegType
  <2>5. HostPhase'
    BY <1>2, <2>1, <2>2 DEF RegInv, HostPhase, Down
  <2>6. Fresh'
    BY <1>2, <2>1, <2>3 DEF Fresh
  <2> QED BY <2>1, <2>4, <2>5, <2>6 DEF RegInv, InUse
<1>4. CASE Disable
  <2>1. /\ hpc' = "off" /\ cc' = [en |-> 0, shn |-> 0] /\ changed' = changed \cup {"cc"}
        /\ (hpc = "up" /\ waiting = NoCommand) \/ hpc = "shutdown"
    BY <1>4 DEF Disable, Idle, Goes, WriteCc
  <2>2. waiting = NoCommand /\ adm.db = adm.old_db /\ csts.rdy = 1 /\ changed \subseteq {"cc"}
    BY <2>1 DEF RegInv, HostPhase, Fresh, InUse, Agree
  <2>3. RegType'
    BY <1>2, <2>1 DEF RegInv, RegType
  <2>4. HostPhase'
    <3>1. cc'.en = 0 /\ cc'.shn = 0 /\ changed' = {"cc"} /\ csts'.rdy = 1
      BY <1>2, <2>1, <2>2
    <3> QED BY <2>1, <3>1 DEF HostPhase, Down
  <2>5. Fresh'
    BY <1>2, <2>1, <2>2 DEF Fresh
  <2> QED BY <2>1, <2>3, <2>4, <2>5 DEF RegInv, InUse
<1>5. CASE SeesOff
  <2>1. /\ hpc = "off" /\ hpc' = "down" /\ csts.rdy = 0
        /\ UNCHANGED <<cc, changed>>
    BY <1>5 DEF SeesOff, Goes
  <2>2. changed = {} /\ cc.shn # 1
    BY <2>1 DEF RegInv, HostPhase
  <2>3. RegType'
    BY <1>2, <2>1 DEF RegInv, RegType, Down
  <2>4. HostPhase'
    BY <1>2, <2>1, <2>2 DEF HostPhase, Down
  <2>5. Fresh'
    BY <1>2, <2>1 DEF RegInv, Fresh
  <2> QED BY <2>1, <2>3, <2>4, <2>5 DEF RegInv, InUse
<1> QED BY <1>3, <1>4, <1>5

LEMMA NextReg == ASSUME RegInv, [Next]_vars PROVE RegInv'
<1>1. CASE UNCHANGED regVars
  BY <1>1, RegUnchanged DEF regVars
<1>2. CASE Dispatcher
  <2>1. CASE NextPass
    BY <2>1, RegUnchanged DEF NextPass, hostVars, ghostVars
  <2> QED BY <1>2, <2>1, ScanAqaKeeps, ScanAsqKeeps, ScanAcqKeeps, ScanCcKeeps,
             ScanShnKeeps, ScanSeenKeeps, ProcAdminKeeps DEF Dispatcher
<1>3. CASE Host
  <2>1. CASE HostIo
    BY <1>1, <2>1 DEF HostIo
  <2> QED BY <1>3, <2>1, WritesKeep, SeesReadyKeeps, IssueKeeps, SeesCompletionKeeps,
             DownKeeps DEF Host
<1> QED BY <1>1, <1>2, <1>3 DEF Next, vars

(* Whenever the host is up and waits for nothing, both sides agree where   *)
(* the admin rings stand and which phase comes next, after any sequence of *)
(* commands, resets and shutdowns.                                         *)
THEOREM AdminRingsStayTogether == Spec => []AdminRingsAgree
<1>1. Init => RegInv
  BY InitReg
<1>2. RegInv /\ [Next]_vars => RegInv'
  BY NextReg
<1>3. RegInv => AdminRingsAgree
  BY DEF RegInv, InUse, Agree, AdminRingsAgree
<1> QED BY <1>1, <1>2, <1>3, PTL DEF Spec

-----------------------------------------------------------------------------
(* Rings of N entries: the positions from a up to, but not including, b.   *)

Between(a, p, b) == IF a <= b THEN a <= p /\ p < b ELSE a <= p \/ p < b
After(i, N) == IF i + 1 = N THEN 0 ELSE i + 1

LEMMA ModPlus ==
  ASSUME NEW N \in Nat \ {0}, NEW a \in 0 .. N - 1, NEW i \in 0 .. N
  PROVE  (a + i) % N = IF a + i < N THEN a + i ELSE a + i - N
OBVIOUS

LEMMA ModMinus ==
  ASSUME NEW N \in Nat \ {0}, NEW a \in 0 .. N - 1, NEW b \in 0 .. N - 1
  PROVE  (b - a) % N = IF a <= b THEN b - a ELSE b - a + N
OBVIOUS

LEMMA RingPositions ==
  ASSUME NEW N \in Nat \ {0}, NEW a \in 0 .. N - 1, NEW b \in 0 .. N - 1, NEW p
  PROVE  (\E i \in 0 .. ((b - a) % N) - 1 : p = (a + i) % N)
           <=> p \in 0 .. N - 1 /\ Between(a, p, b)
<1>1. ASSUME NEW i \in 0 .. ((b - a) % N) - 1, p = (a + i) % N
      PROVE  p \in 0 .. N - 1 /\ Between(a, p, b)
  <2>1. i \in 0 .. N
    BY ModMinus
  <2>2. p = IF a + i < N THEN a + i ELSE a + i - N
    BY <1>1, <2>1, ModPlus
  <2> QED BY <2>2, ModMinus DEF Between
<1>2. ASSUME p \in 0 .. N - 1, Between(a, p, b)
      PROVE  \E i \in 0 .. ((b - a) % N) - 1 : p = (a + i) % N
  <2> DEFINE i == IF a <= p THEN p - a ELSE p - a + N
  <2>1. i \in 0 .. ((b - a) % N) - 1
    BY <1>2, ModMinus DEF Between
  <2>2. i \in 0 .. N /\ (IF a + i < N THEN a + i ELSE a + i - N) = p
    BY <1>2
  <2>3. p = (a + i) % N
    BY <2>2, ModPlus
  <2> QED BY <2>1, <2>3
<1> QED BY <1>1, <1>2

LEMMA RingGrows ==
  ASSUME NEW N \in Nat \ {0}, NEW a \in 0 .. N - 1, NEW b \in 0 .. N - 1, After(b, N) # a
  PROVE  /\ \A p \in 0 .. N - 1 : Between(a, p, After(b, N)) <=> Between(a, p, b) \/ p = b
         /\ ~Between(a, b, b) /\ After(b, N) \in 0 .. N - 1
BY DEF Between, After

LEMMA RingShrinks ==
  ASSUME NEW N \in Nat \ {0}, NEW a \in 0 .. N - 1, NEW b \in 0 .. N - 1, a # b
  PROVE  /\ \A p \in 0 .. N - 1 : Between(After(a, N), p, b) <=> Between(a, p, b) /\ p # a
         /\ Between(a, a, b) /\ After(a, N) \in 0 .. N - 1
BY DEF Between, After

LEMMA Injected ==
  ASSUME NEW S, IsFiniteSet(S), NEW T, IsFiniteSet(T), NEW f \in [S -> T],
         \A x, y \in S : f[x] = f[y] => x = y
  PROVE  Cardinality(S) <= Cardinality(T)
<1>1. Cardinality(S) \in Nat /\ Cardinality(T) \in Nat
  BY FS_CardinalityType
<1>2. ~(Cardinality(T) < Cardinality(S))
  BY FS_PigeonHole
<1> QED BY <1>1, <1>2

(* A ring is full when one position is left.                               *)
LEMMA FullRing ==
  ASSUME NEW N \in Nat \ {0}, NEW a \in 0 .. N - 1, NEW b \in 0 .. N - 1, After(b, N) = a,
         NEW R, R = {p \in 0 .. N - 1 : Between(a, p, b)}
  PROVE  IsFiniteSet(R) /\ Cardinality(R) = N - 1
<1>1. R = (0 .. N - 1) \ {b}
  BY DEF Between, After
<1>2. IsFiniteSet(0 .. N - 1) /\ Cardinality(0 .. N - 1) = N
  <2>1. 0 \in Int /\ N - 1 \in Int
    OBVIOUS
  <2>2. /\ IsFiniteSet(0 .. N - 1)
        /\ Cardinality(0 .. N - 1) = IF 0 > N - 1 THEN 0 ELSE (N - 1) - 0 + 1
    BY <2>1, FS_Interval
  <2> QED BY <2>2
<1>3. QED
  <2> DEFINE A == 0 .. N - 1
  <2>1. /\ IsFiniteSet(A \ {b})
        /\ Cardinality(A \ {b}) = IF b \in A THEN Cardinality(A) - 1 ELSE Cardinality(A)
    <3> HIDE DEF A
    <3> QED BY <1>2, FS_RemoveElement DEF A
  <2> QED BY <1>1, <1>2, <2>1

-----------------------------------------------------------------------------
(* The invariant.                                                          *)

SqRing == 0 .. sq_size - 1
CqRing == 0 .. cq_size - 1
RungAt(s) == {p \in SqRing : Between(old_dbs[s], p, dbs[s])}
UnseenAt  == {p \in CqRing : Between(head, p, cq_head)}

InRing(s, t) == \E p \in RungAt(s) : sq[s][p] = t
InWork(s, t) == \E w \in work : w.sqid = s /\ w.command_id = t
InCq(s, t)   == \E p \in UnseenAt : cq[p].sq_id = s /\ cq[p].command_id = t

CmdType ==
  /\ sqes \in [SQs -> BOOLEAN] /\ cqe_exists \in BOOLEAN
  /\ dbs \in [SQs -> SqRing] /\ old_dbs \in [SQs -> SqRing] /\ tail = dbs
  /\ sq \in [SQs -> [SqRing -> Int]]
  /\ cq \in [CqRing -> [phase : {0, 1}, sq_id : SQs \cup {0}, command_id : Int]]
  /\ cq_head \in CqRing /\ head \in CqRing
  /\ phase \in {0, 1} /\ head_phase \in {0, 1}
  /\ work \subseteq [sqid : SQs, sq_entry : SqRing, command_id : Tags]
  /\ outstanding \subseteq SQs \X Tags
  /\ IsFiniteSet(outstanding) /\ Cardinality(outstanding) <= cq_size - 1

(* The phases in the completion ring say which side of its head an entry   *)
(* is on.                                                                  *)
CqPhases ==
  IF cqe_exists
  THEN /\ \A p \in CqRing : cq[p].phase = IF p < cq_head THEN phase ELSE 1 - phase
       /\ head_phase = IF head <= cq_head THEN phase ELSE 1 - phase
  ELSE /\ cq_head = 0 /\ head = 0 /\ head_phase = 1
       /\ \A p \in CqRing : cq[p].phase = 0

(* Where a command is, and that nothing is there twice.                    *)
SqTags == \A s \in SQs : \A p \in RungAt(s) :
            /\ sq[s][p] \in Tags
            /\ \A q \in RungAt(s) : sq[s][p] = sq[s][q] => p = q
CqTags == \A p \in UnseenAt :
            /\ cq[p].sq_id \in SQs /\ cq[p].command_id \in Tags
            /\ \A q \in UnseenAt :
                 cq[p].sq_id = cq[q].sq_id /\ cq[p].command_id = cq[q].command_id => p = q
WorkTags == \A v, w \in work : v.sqid = w.sqid /\ v.command_id = w.command_id => v = w

Placed ==
  \A s \in SQs, t \in Tags :
    /\ <<s, t>> \in outstanding <=> InRing(s, t) \/ InWork(s, t) \/ InCq(s, t)
    /\ ~(InRing(s, t) /\ InWork(s, t))
    /\ ~(InRing(s, t) /\ InCq(s, t))
    /\ ~(InWork(s, t) /\ InCq(s, t))

Unused(s) == \A t \in Tags : <<s, t>> \notin outstanding

(* Queues are there as long as they are used.                              *)
QueuesUsed == \A s \in SQs : (sqes[s] => cqe_exists) /\ (~sqes[s] => Unused(s))

(* The admin command the device has not seen yet may still be executed.    *)
CommandValid ==
  /\ asq \in [Ring -> Commands \cup {NoCommand}]
  /\ hpc = "up" /\ waiting # NoCommand /\ Issued =>
       /\ asq[adm.old_db] = waiting /\ waiting \in Commands
       /\ waiting.opcode = "create_cq" => ~cqe_exists
       /\ waiting.opcode = "delete_cq" => \A s \in SQs : ~sqes[s]
       /\ waiting.opcode = "create_sq" => cqe_exists /\ ~sqes[waiting.qid]
       /\ waiting.opcode = "delete_sq" => Unused(waiting.qid)

CmdInv == /\ CmdType /\ CqPhases /\ SqTags /\ CqTags /\ WorkTags /\ Placed
          /\ QueuesUsed /\ CommandValid

LEMMA Sizes ==
  /\ sq_size \in Nat \ {0} /\ sq_size >= 2 /\ cq_size \in Nat \ {0} /\ cq_size >= 2
  /\ 0 \in SqRing /\ 0 \in CqRing
BY IoQueuesAssumption DEF SqRing, CqRing

LEMMA NothingBetween == \A p \in Int : ~Between(0, p, 0)
BY DEF Between

LEMMA InitCmd == ASSUME Init PROVE CmdInv
<1>1. /\ sqes = [s \in SQs |-> FALSE] /\ cqe_exists = FALSE
      /\ dbs = [s \in SQs |-> 0] /\ old_dbs = dbs /\ tail = dbs
      /\ sq = [s \in SQs |-> [i \in 0 .. sq_size - 1 |-> 0]]
      /\ work = {} /\ cq = [i \in 0 .. cq_size - 1 |-> Empty]
      /\ cq_head = 0 /\ phase = 0 /\ outstanding = {} /\ head = 0 /\ head_phase = 1
  BY DEF Init, IoInit
<1>2. asq = [i \in 0 .. depth - 1 |-> NoCommand] /\ hpc = "down"
  BY DEF Init
<1>3. CmdType
  <2>1. Empty \in [phase : {0, 1}, sq_id : SQs \cup {0}, command_id : Int]
    BY DEF Empty
  <2>2. cq \in [CqRing -> [phase : {0, 1}, sq_id : SQs \cup {0}, command_id : Int]]
    BY <1>1, <2>1 DEF CqRing
  <2>3. IsFiniteSet(outstanding) /\ Cardinality(outstanding) = 0
    BY <1>1, FS_EmptySet
  <2>4. sq \in [SQs -> [SqRing -> Int]]
    BY <1>1 DEF SqRing
  <2>5. dbs \in [SQs -> SqRing] /\ old_dbs \in [SQs -> SqRing] /\ tail = dbs
    BY <1>1, Sizes
  <2>6. /\ sqes \in [SQs -> BOOLEAN] /\ cqe_exists \in BOOLEAN
        /\ cq_head \in CqRing /\ head \in CqRing /\ phase \in {0, 1} /\ head_phase \in {0, 1}
    BY <1>1, Sizes
  <2>7. /\ work \subseteq [sqid : SQs, sq_entry : SqRing, command_id : Tags]
        /\ outstanding \subseteq SQs \X Tags /\ 0 <= cq_size - 1
    BY <1>1, Sizes
  <2> QED BY <2>2, <2>3, <2>4, <2>5, <2>6, <2>7 DEF CmdType
<1>4. \A s \in SQs : RungAt(s) = {}
  BY <1>1, NothingBetween DEF RungAt, SqRing
<1>5. UnseenAt = {}
  BY <1>1, NothingBetween DEF UnseenAt, CqRing
<1>6. CqPhases
  BY <1>1 DEF CqPhases, Empty, CqRing
<1>7. SqTags /\ CqTags /\ WorkTags
  BY <1>1, <1>4, <1>5 DEF SqTags, CqTags, WorkTags
<1>8. Placed
  BY <1>1, <1>4, <1>5 DEF Placed, InRing, InWork, InCq
<1>9. QueuesUsed /\ CommandValid
  BY <1>1, <1>2 DEF QueuesUsed, Unused, CommandValid, Ring
<1> QED BY <1>3, <1>6, <1>7, <1>8, <1>9 DEF CmdInv

(* Steps that leave the rings and the pending admin command as they are.    *)
coreVars == <<sqes, cqe_exists, dbs, old_dbs, sq, work, cq, cq_head, phase,
              outstanding, tail, head, head_phase>>

LEMMA CoreUnchanged ==
  ASSUME CmdInv, UNCHANGED coreVars,
         \/ UNCHANGED <<asq, adm, hpc, hadm, waiting>>
         \/ asq' = asq /\ ~(hpc' = "up" /\ waiting' # NoCommand)
  PROVE  CmdInv'
<1> USE DEF coreVars
<1>1. CmdType'
  BY DEF CmdInv, CmdType, SqRing, CqRing
<1>2. CqPhases'
  BY DEF CmdInv, CqPhases, CqRing
<1>3. (SqTags /\ CqTags /\ WorkTags)'
  BY DEF CmdInv, SqTags, CqTags, WorkTags, RungAt, UnseenAt, SqRing, CqRing
<1>4. Placed'
  <2>1. UnseenAt' = UnseenAt /\ \A s : RungAt(s)' = RungAt(s)
    BY DEF RungAt, UnseenAt, SqRing, CqRing
  <2>2. \A s, t : InRing(s, t)' = InRing(s, t) /\ InWork(s, t)' = InWork(s, t)
    BY <2>1 DEF InRing, InWork
  <2>3. \A s, t : InCq(s, t)' = InCq(s, t)
    BY <2>1 DEF InCq
  <2> QED BY <2>2, <2>3 DEF CmdInv, Placed
<1>5. QueuesUsed'
  BY DEF CmdInv, QueuesUsed, Unused
<1>6. CommandValid'
  BY DEF CmdInv, CommandValid, Issued, Unused, Next_, Ring
<1> QED BY <1>1, <1>2, <1>3, <1>4, <1>5, <1>6 DEF CmdInv

(* The command ring has room: the tags in it are all different, and the    *)
(* new one is not among them.                                              *)
LEMMA SqHasRoom ==
  ASSUME CmdInv, NEW s \in SQs, NEW t \in Tags, <<s, t>> \notin outstanding
  PROVE  After(dbs[s], sq_size) # old_dbs[s]
<1> SUFFICES ASSUME After(dbs[s], sq_size) = old_dbs[s] PROVE FALSE
  OBVIOUS
<1> DEFINE T == Tags \ {t}
           f == [p \in RungAt(s) |-> sq[s][p]]
<1>1. IsFiniteSet(T) /\ Cardinality(T) < sq_size - 1
  <2>1. 1 \in Int /\ sq_size - 1 \in Int
    BY Sizes
  <2>2. /\ IsFiniteSet(Tags)
        /\ Cardinality(Tags) = IF 1 > sq_size - 1 THEN 0 ELSE (sq_size - 1) - 1 + 1
    BY <2>1, FS_Interval DEF Tags
  <2>3. IsFiniteSet(T) /\ Cardinality(T) = Cardinality(Tags) - 1
    <3> HIDE DEF T
    <3>1. /\ IsFiniteSet(Tags \ {t})
          /\ Cardinality(Tags \ {t})
               = IF t \in Tags THEN Cardinality(Tags) - 1 ELSE Cardinality(Tags)
      BY <2>2, FS_RemoveElement
    <3> QED BY <3>1 DEF T
  <2> QED BY <2>2, <2>3, Sizes
<1>2. \A p \in RungAt(s) : sq[s][p] \in T
  BY DEF CmdInv, SqTags, Placed, InRing
<1>3. f \in [RungAt(s) -> T]
  BY <1>2
<1>4. \A x, y \in RungAt(s) : f[x] = f[y] => x = y
  BY DEF CmdInv, SqTags
<1>5. RungAt(s) = {p \in 0 .. sq_size - 1 : Between(old_dbs[s], p, dbs[s])}
  BY DEF RungAt, SqRing
<1>6. sq_size \in Nat \ {0} /\ old_dbs[s] \in 0 .. sq_size - 1 /\ dbs[s] \in 0 .. sq_size - 1
  BY Sizes DEF CmdInv, CmdType, SqRing
<1>7. IsFiniteSet(RungAt(s)) /\ Cardinality(RungAt(s)) = sq_size - 1
  BY <1>5, <1>6, FullRing
<1>8. Cardinality(RungAt(s)) <= Cardinality(T)
  <2> HIDE DEF T, f
  <2> QED BY <1>1, <1>3, <1>4, <1>7, Injected
<1>9. Cardinality(T) \in Nat
  BY <1>1, FS_CardinalityType
<1> QED BY <1>1, <1>6, <1>7, <1>8, <1>9

LEMMA SubmitKeeps ==
  ASSUME CmdInv, NEW r \in SQs, Submit(r), ~Quiet(r), UNCHANGED regVars
  PROVE  CmdInv'
<1>1. PICK u \in Tags : /\ <<r, u>> \notin outstanding
                        /\ outstanding' = outstanding \cup {<<r, u>>}
                        /\ sq' = [sq EXCEPT ![r][tail[r]] = u]
  BY DEF Submit
<1>2. /\ sqes[r] /\ Cardinality(outstanding) < cq_size - 1
      /\ tail' = [tail EXCEPT ![r] = (@ + 1) % sq_size]
      /\ dbs' = [dbs EXCEPT ![r] = (tail[r] + 1) % sq_size]
      /\ UNCHANGED <<sqes, cqe_exists, old_dbs, work, cq, cq_head, phase, head, head_phase>>
  BY DEF Submit
<1> DEFINE b == dbs[r]
<1>3. /\ sq_size \in Nat \ {0} /\ b \in SqRing /\ old_dbs[r] \in SqRing /\ tail = dbs
      /\ sq \in [SQs -> [SqRing -> Int]] /\ dbs \in [SQs -> SqRing]
      /\ outstanding \subseteq SQs \X Tags
      /\ IsFiniteSet(outstanding) /\ Cardinality(outstanding) \in Nat
  BY Sizes, FS_CardinalityType DEF CmdInv, CmdType
<1>4. (b + 1) % sq_size = After(b, sq_size)
  <2>1. 1 \in 0 .. sq_size /\ b \in 0 .. sq_size - 1
    BY <1>3, Sizes DEF SqRing
  <2>2. (b + 1) % sq_size = IF b + 1 < sq_size THEN b + 1 ELSE b + 1 - sq_size
    BY <1>3, <2>1, ModPlus
  <2> QED BY <1>3, <2>1, <2>2 DEF After
<1>5. /\ \A p \in SqRing : Between(old_dbs[r], p, After(b, sq_size))
                             <=> Between(old_dbs[r], p, b) \/ p = b
      /\ ~Between(old_dbs[r], b, b) /\ After(b, sq_size) \in SqRing
  BY <1>1, <1>3, SqHasRoom, RingGrows DEF SqRing
<1>6. /\ dbs' = [dbs EXCEPT ![r] = After(b, sq_size)] /\ tail' = dbs'
      /\ sq' = [sq EXCEPT ![r] = [sq[r] EXCEPT ![b] = u]]
  BY <1>1, <1>2, <1>3, <1>4
<1>7. /\ RungAt(r)' = RungAt(r) \cup {b} /\ b \notin RungAt(r)
      /\ \A s \in SQs \ {r} : RungAt(s)' = RungAt(s) /\ sq'[s] = sq[s]
      /\ sq'[r][b] = u /\ \A p \in RungAt(r) : sq'[r][p] = sq[r][p]
  BY <1>2, <1>3, <1>5, <1>6 DEF RungAt, SqRing
<1>8. UnseenAt' = UnseenAt
  BY <1>2 DEF UnseenAt, CqRing
<1>9. ~InRing(r, u) /\ ~InWork(r, u) /\ ~InCq(r, u)
  BY <1>1 DEF CmdInv, Placed
<1>10. CmdType'
  <2>1. u \in Int
    BY DEF Tags
  <2>2. sq' \in [SQs -> [SqRing -> Int]]
    BY <1>3, <1>6, <2>1
  <2>3. dbs' \in [SQs -> SqRing]
    BY <1>3, <1>5, <1>6
  <2>4. IsFiniteSet(outstanding') /\ Cardinality(outstanding') = Cardinality(outstanding) + 1
    BY <1>1, <1>3, FS_AddElement
  <2>5. outstanding' \subseteq SQs \X Tags /\ Cardinality(outstanding') <= cq_size - 1
    BY <1>1, <1>2, <1>3, <2>4, Sizes
  <2> QED BY <1>2, <1>6, <2>2, <2>3, <2>4, <2>5 DEF CmdInv, CmdType, SqRing, CqRing
<1>11. CqPhases'
  BY <1>2 DEF CmdInv, CqPhases, CqRing
<1>12. SqTags'
  BY <1>7, <1>9 DEF CmdInv, SqTags, InRing
<1>13. CqTags' /\ WorkTags'
  BY <1>2, <1>8 DEF CmdInv, CqTags, WorkTags
<1>14. Placed'
  <2>1. \A s \in SQs, t \in Tags : InRing(s, t)' <=> InRing(s, t) \/ (s = r /\ t = u)
    BY <1>7 DEF InRing
  <2>2. \A s \in SQs, t \in Tags : InWork(s, t)' = InWork(s, t)
    BY <1>2 DEF InWork
  <2>3. \A s \in SQs, t \in Tags : InCq(s, t)' = InCq(s, t)
    BY <1>2, <1>8 DEF InCq
  <2> QED BY <1>1, <1>9, <2>1, <2>2, <2>3 DEF CmdInv, Placed
<1>15. QueuesUsed'
  BY <1>1, <1>2 DEF CmdInv, QueuesUsed, Unused
<1>16. CommandValid'
  <2>1. UNCHANGED <<asq, adm, hpc, hadm, waiting>>
    BY DEF regVars
  <2>2. ASSUME waiting \in Commands, waiting.opcode = "delete_sq", Unused(waiting.qid)
        PROVE  Unused(waiting.qid)'
    <3>1. waiting.qid # r
      BY <2>2 DEF Commands, Quiet
    <3> QED BY <1>1, <2>1, <2>2, <3>1 DEF Unused
  <2> QED BY <1>2, <2>1, <2>2 DEF CmdInv, CommandValid, Issued, Next_, Ring
<1> QED BY <1>10, <1>11, <1>12, <1>13, <1>14, <1>15, <1>16 DEF CmdInv

LEMMA FetchKeeps ==
  ASSUME CmdInv, NEW r \in SQs, Fetch(r), UNCHANGED regVars
  PROVE  CmdInv'
<1> DEFINE a == old_dbs[r]
           u == sq[r][a]
           new == [sqid |-> r, sq_entry |-> a, command_id |-> u]
<1>1. /\ sqes[r] /\ dbs[r] # a /\ work' = work \cup {new}
      /\ UNCHANGED <<sqes, cqe_exists, cq, cq_head, phase, tail, head, head_phase, dbs, outstanding>>
  BY DEF Fetch
<1>2. /\ sq_size \in Nat \ {0} /\ dbs[r] \in SqRing /\ a \in SqRing /\ tail = dbs
      /\ sq \in [SQs -> [SqRing -> Int]] /\ old_dbs \in [SQs -> SqRing]
      /\ work \subseteq [sqid : SQs, sq_entry : SqRing, command_id : Tags]
  BY Sizes DEF CmdInv, CmdType
<1>3. /\ \A p \in SqRing : Between(After(a, sq_size), p, dbs[r])
                             <=> Between(a, p, dbs[r]) /\ p # a
      /\ Between(a, a, dbs[r]) /\ After(a, sq_size) \in SqRing
  BY <1>1, <1>2, RingShrinks DEF SqRing
<1>4. /\ old_dbs' = [old_dbs EXCEPT ![r] = After(a, sq_size)]
      /\ sq' = [sq EXCEPT ![r] = [sq[r] EXCEPT ![a] = 0]]
  BY <1>2 DEF Fetch, NextEntry, After
<1>5. /\ RungAt(r)' = RungAt(r) \ {a} /\ a \in RungAt(r)
      /\ \A s \in SQs \ {r} : RungAt(s)' = RungAt(s) /\ sq'[s] = sq[s]
      /\ \A p \in RungAt(r) \ {a} : sq'[r][p] = sq[r][p]
  BY <1>1, <1>2, <1>3, <1>4 DEF RungAt, SqRing
<1>6. UnseenAt' = UnseenAt
  BY <1>1 DEF UnseenAt, CqRing
<1>7. u \in Tags /\ InRing(r, u) /\ ~InWork(r, u) /\ ~InCq(r, u)
  BY <1>5 DEF CmdInv, SqTags, Placed, InRing
<1>8. CmdType'
  <2>1. sq' \in [SQs -> [SqRing -> Int]] /\ old_dbs' \in [SQs -> SqRing]
    BY <1>2, <1>3, <1>4
  <2>2. work' \subseteq [sqid : SQs, sq_entry : SqRing, command_id : Tags]
    BY <1>1, <1>2, <1>7
  <2> QED BY <1>1, <2>1, <2>2 DEF CmdInv, CmdType, SqRing, CqRing
<1>9. CqPhases'
  BY <1>1 DEF CmdInv, CqPhases, CqRing
<1>10. SqTags'
  BY <1>5 DEF CmdInv, SqTags
<1>11. CqTags'
  BY <1>1, <1>6 DEF CmdInv, CqTags
<1>12. WorkTags'
  <2>1. \A w \in work : ~(w.sqid = r /\ w.command_id = u)
    BY <1>7 DEF InWork
  <2> QED BY <1>1, <2>1 DEF CmdInv, WorkTags
<1>13. Placed'
  <2>1. \A s \in SQs, t \in Tags : InRing(s, t)' <=> InRing(s, t) /\ ~(s = r /\ t = u)
    BY <1>5 DEF CmdInv, SqTags, InRing
  <2>2. ASSUME NEW s \in SQs, NEW t \in Tags
        PROVE  InWork(s, t)' <=> InWork(s, t) \/ (s = r /\ t = u)
    <3>1. new.sqid = r /\ new.command_id = u
      OBVIOUS
    <3> HIDE DEF new, u, a
    <3> QED BY <1>1, <3>1 DEF InWork
  <2>3. \A s \in SQs, t \in Tags : InCq(s, t)' = InCq(s, t)
    BY <1>1, <1>6 DEF InCq
  <2>4. outstanding' = outstanding
    BY <1>1
  <2> HIDE DEF u, a
  <2> QED BY <1>7, <2>1, <2>2, <2>3, <2>4 DEF CmdInv, Placed
<1>14. QueuesUsed' /\ CommandValid'
  BY <1>1 DEF CmdInv, QueuesUsed, CommandValid, Issued, Unused, Next_, Ring, regVars
<1> QED BY <1>8, <1>9, <1>10, <1>11, <1>12, <1>13, <1>14 DEF CmdInv

(* The completion ring has room for the completion of what is in work.     *)
LEMMA CqHasRoom ==
  ASSUME CmdInv, NEW w \in work
  PROVE  After(cq_head, cq_size) # head
<1> SUFFICES ASSUME After(cq_head, cq_size) = head PROVE FALSE
  OBVIOUS
<1> DEFINE c == <<w.sqid, w.command_id>>
           T == outstanding \ {c}
           f == [p \in UnseenAt |-> <<cq[p].sq_id, cq[p].command_id>>]
<1>1. /\ cq_size \in Nat \ {0} /\ cq_head \in 0 .. cq_size - 1 /\ head \in 0 .. cq_size - 1
      /\ w.sqid \in SQs /\ w.command_id \in Tags
      /\ IsFiniteSet(outstanding) /\ Cardinality(outstanding) <= cq_size - 1
      /\ Cardinality(outstanding) \in Nat
  BY Sizes, FS_CardinalityType DEF CmdInv, CmdType, CqRing
<1>2. c \in outstanding /\ ~InCq(w.sqid, w.command_id)
  BY <1>1 DEF CmdInv, Placed, InWork
<1>3. IsFiniteSet(T) /\ Cardinality(T) = Cardinality(outstanding) - 1
  <2> HIDE DEF c
  <2> QED BY <1>1, <1>2, FS_RemoveElement
<1>4. ASSUME NEW p \in UnseenAt PROVE <<cq[p].sq_id, cq[p].command_id>> \in T
  <2>1. cq[p].sq_id \in SQs /\ cq[p].command_id \in Tags
    BY DEF CmdInv, CqTags
  <2>2. InCq(cq[p].sq_id, cq[p].command_id)
    BY DEF InCq
  <2>3. <<cq[p].sq_id, cq[p].command_id>> \in outstanding
    BY <2>1, <2>2 DEF CmdInv, Placed
  <2> QED BY <1>2, <2>2, <2>3
<1>5. f \in [UnseenAt -> T]
  BY <1>4
<1>6. \A x, y \in UnseenAt : f[x] = f[y] => x = y
  BY DEF CmdInv, CqTags
<1>7. IsFiniteSet(UnseenAt) /\ Cardinality(UnseenAt) = cq_size - 1
  <2>1. UnseenAt = {p \in 0 .. cq_size - 1 : Between(head, p, cq_head)}
    BY DEF UnseenAt, CqRing
  <2> QED BY <1>1, <2>1, FullRing
<1>8. Cardinality(UnseenAt) <= Cardinality(T)
  <2> HIDE DEF T, f
  <2> QED BY <1>3, <1>5, <1>6, <1>7, Injected
<1> QED BY <1>1, <1>3, <1>7, <1>8

LEMMA PostKeeps ==
  ASSUME CmdInv, NEW w \in work, Post(w), UNCHANGED regVars
  PROVE  CmdInv'
<1> DEFINE b == cq_head
           r == w.sqid
           u == w.command_id
           new == [phase |-> phase, sq_id |-> r, command_id |-> u]
<1>1. /\ cqe_exists /\ work' = work \ {w} /\ cq' = [cq EXCEPT ![b] = new]
      /\ cq_head' = After(b, cq_size)
      /\ phase' = IF b + 1 = cq_size THEN 1 - phase ELSE phase
      /\ UNCHANGED <<sqes, cqe_exists, dbs, old_dbs, sq, outstanding, tail, head, head_phase>>
  BY DEF Post, After
<1>2. /\ cq_size \in Nat \ {0} /\ b \in CqRing /\ head \in CqRing
      /\ phase \in {0, 1} /\ head_phase \in {0, 1} /\ r \in SQs /\ u \in Tags
      /\ cq \in [CqRing -> [phase : {0, 1}, sq_id : SQs \cup {0}, command_id : Int]]
  BY Sizes DEF CmdInv, CmdType
<1>3. After(b, cq_size) # head
  BY CqHasRoom
<1>4. /\ \A p \in CqRing : Between(head, p, After(b, cq_size)) <=> Between(head, p, b) \/ p = b
      /\ ~Between(head, b, b) /\ After(b, cq_size) \in CqRing
  BY <1>2, <1>3, RingGrows DEF CqRing
<1>5. /\ UnseenAt' = UnseenAt \cup {b} /\ b \notin UnseenAt /\ cq'[b] = new
      /\ \A p \in CqRing \ {b} : cq'[p] = cq[p]
  BY <1>1, <1>2, <1>4 DEF UnseenAt, CqRing
<1>6. \A s \in SQs : RungAt(s)' = RungAt(s)
  BY <1>1 DEF RungAt, SqRing
<1>7. InWork(r, u) /\ ~InRing(r, u) /\ ~InCq(r, u)
  BY <1>2 DEF CmdInv, Placed, InWork
<1>8. CmdType'
  <2>1. new \in [phase : {0, 1}, sq_id : SQs \cup {0}, command_id : Int]
    BY <1>2 DEF Tags
  <2>2. cq' \in [CqRing -> [phase : {0, 1}, sq_id : SQs \cup {0}, command_id : Int]]
    BY <1>1, <1>2, <2>1
  <2>3. cq_head' \in CqRing /\ phase' \in {0, 1}
    BY <1>1, <1>2, <1>4
  <2> QED BY <1>1, <2>2, <2>3 DEF CmdInv, CmdType, SqRing, CqRing
<1>9. CqPhases'
  <2>1. /\ \A p \in CqRing : cq[p].phase = IF p < b THEN phase ELSE 1 - phase
        /\ head_phase = IF head <= b THEN phase ELSE 1 - phase
    BY <1>1 DEF CmdInv, CqPhases
  <2>2. \A p \in CqRing : cq'[p].phase = IF p <= b THEN phase ELSE 1 - phase
    <3>1. cq'[b].phase = phase
      BY <1>5
    <3>2. \A p \in CqRing \ {b} : p < b <=> p <= b
      BY <1>2 DEF CqRing
    <3>3. b <= b
      BY <1>2 DEF CqRing
    <3> QED BY <1>5, <2>1, <3>1, <3>2, <3>3
  <2>3. CASE b + 1 = cq_size
    <3>1. cq_head' = 0 /\ phase' = 1 - phase /\ head # 0
      BY <1>1, <1>3, <2>3 DEF After
    <3> QED BY <1>1, <1>2, <2>1, <2>2, <2>3, <3>1 DEF CqPhases, CqRing
  <2>4. CASE b + 1 # cq_size
    <3>1. cq_head' = b + 1 /\ phase' = phase /\ head # b + 1
      BY <1>1, <1>3, <2>4 DEF After
    <3> QED BY <1>1, <1>2, <2>1, <2>2, <3>1 DEF CqPhases, CqRing
  <2> QED BY <2>3, <2>4
<1>10. SqTags'
  BY <1>1, <1>6 DEF CmdInv, SqTags
<1>11. CqTags'
  <2>1. \A p \in UnseenAt : cq'[p] = cq[p] /\ ~(cq[p].sq_id = r /\ cq[p].command_id = u)
    BY <1>5, <1>7 DEF InCq, UnseenAt
  <2>2. cq'[b].sq_id = r /\ cq'[b].command_id = u
    BY <1>5
  <2> QED BY <1>2, <1>5, <2>1, <2>2 DEF CmdInv, CqTags
<1>12. WorkTags'
  BY <1>1 DEF CmdInv, WorkTags
<1>13. Placed'
  <2>1. \A s \in SQs, t \in Tags : InRing(s, t)' = InRing(s, t)
    BY <1>1, <1>6 DEF InRing
  <2>2. \A s \in SQs, t \in Tags : InWork(s, t)' <=> InWork(s, t) /\ ~(s = r /\ t = u)
    BY <1>1 DEF CmdInv, WorkTags, InWork
  <2>3. \A s \in SQs, t \in Tags : InCq(s, t)' <=> InCq(s, t) \/ (s = r /\ t = u)
    <3>1. \A p \in UnseenAt : cq'[p] = cq[p]
      BY <1>5 DEF UnseenAt
    <3>2. cq'[b].sq_id = r /\ cq'[b].command_id = u
      BY <1>5
    <3> QED BY <1>5, <3>1, <3>2 DEF InCq
  <2> QED BY <1>1, <1>7, <2>1, <2>2, <2>3 DEF CmdInv, Placed
<1>14. QueuesUsed' /\ CommandValid'
  BY <1>1 DEF CmdInv, QueuesUsed, CommandValid, Issued, Unused, Next_, Ring, regVars
<1> QED BY <1>8, <1>9, <1>10, <1>11, <1>12, <1>13, <1>14 DEF CmdInv

(* The host takes what its head shows, and what it shows is a completion   *)
(* exactly if the head is not yet where the device goes on.                *)
LEMMA ReapsInOrder ==
  ASSUME CmdInv, Reap, UNCHANGED regVars
  PROVE  CmdInv'
<1>1. UNCHANGED <<sqes, cqe_exists, sq, cq_head, phase, tail, dbs, old_dbs, work>>
  BY DEF Reap
<1>2. CASE cq[head].phase # head_phase
  <2>1. UNCHANGED coreVars
    BY <1>1, <1>2 DEF Reap, coreVars
  <2> QED BY <2>1, CoreUnchanged DEF regVars
<1>3. CASE cq[head].phase = head_phase
  <2> DEFINE e == cq[head]
             old == [Empty EXCEPT !.phase = head_phase]
  <2>1. /\ outstanding' = outstanding \ {<<e.sq_id, e.command_id>>}
        /\ cq' = [cq EXCEPT ![head] = old]
        /\ head' = (head + 1) % cq_size
        /\ head_phase' = IF head + 1 = cq_size THEN 1 - head_phase ELSE head_phase
    BY <1>3 DEF Reap
  <2>2. /\ cq_size \in Nat \ {0} /\ cq_head \in CqRing /\ head \in CqRing
        /\ phase \in {0, 1} /\ head_phase \in {0, 1}
        /\ cq \in [CqRing -> [phase : {0, 1}, sq_id : SQs \cup {0}, command_id : Int]]
        /\ outstanding \subseteq SQs \X Tags /\ IsFiniteSet(outstanding)
        /\ Cardinality(outstanding) <= cq_size - 1
    BY Sizes DEF CmdInv, CmdType
  <2>3. cqe_exists
    BY <1>3, <2>2 DEF CmdInv, CqPhases
  <2>4. /\ \A p \in CqRing : cq[p].phase = IF p < cq_head THEN phase ELSE 1 - phase
        /\ head_phase = IF head <= cq_head THEN phase ELSE 1 - phase
    BY <2>3 DEF CmdInv, CqPhases
  <2>5. head # cq_head
    BY <1>3, <2>2, <2>4 DEF CqRing
  <2>6. head' = After(head, cq_size)
    <3>1. 1 \in 0 .. cq_size /\ head \in 0 .. cq_size - 1
      BY <2>2, Sizes DEF CqRing
    <3>2. (head + 1) % cq_size = IF head + 1 < cq_size THEN head + 1 ELSE head + 1 - cq_size
      BY <2>2, <3>1, ModPlus
    <3> QED BY <2>1, <2>2, <3>1, <3>2 DEF After
  <2>7. /\ \A p \in CqRing : Between(After(head, cq_size), p, cq_head)
                              <=> Between(head, p, cq_head) /\ p # head
        /\ Between(head, head, cq_head) /\ After(head, cq_size) \in CqRing
    BY <2>2, <2>5, RingShrinks DEF CqRing
  <2>8. /\ UnseenAt' = UnseenAt \ {head} /\ head \in UnseenAt
        /\ cq'[head].phase = head_phase
        /\ \A p \in CqRing \ {head} : cq'[p] = cq[p]
    <3>1. old.phase = head_phase
      BY DEF Empty
    <3> HIDE DEF old
    <3> QED BY <1>1, <2>1, <2>2, <2>6, <2>7, <3>1 DEF UnseenAt, CqRing
  <2>9. \A s \in SQs : RungAt(s)' = RungAt(s)
    BY <1>1 DEF RungAt, SqRing
  <2>10. /\ e.sq_id \in SQs /\ e.command_id \in Tags /\ InCq(e.sq_id, e.command_id)
         /\ ~InRing(e.sq_id, e.command_id) /\ ~InWork(e.sq_id, e.command_id)
    BY <2>8 DEF CmdInv, CqTags, Placed, InCq
  <2>11. CmdType'
    <3>1. old \in [phase : {0, 1}, sq_id : SQs \cup {0}, command_id : Int]
      BY <2>2 DEF Empty
    <3>2. cq' \in [CqRing -> [phase : {0, 1}, sq_id : SQs \cup {0}, command_id : Int]]
      <4> HIDE DEF old
      <4> QED BY <2>1, <2>2, <3>1
    <3>3. /\ outstanding' \subseteq SQs \X Tags /\ IsFiniteSet(outstanding')
          /\ Cardinality(outstanding') <= Cardinality(outstanding)
      <4>1. outstanding' \in SUBSET outstanding
        BY <2>1
      <4> QED BY <2>2, <4>1, FS_Subset
    <3>4. Cardinality(outstanding') <= cq_size - 1
      <4>1. Cardinality(outstanding') \in Nat /\ Cardinality(outstanding) \in Nat
        BY <2>2, <3>3, FS_CardinalityType
      <4> QED BY <2>2, <3>3, <4>1
    <3>5. head' \in CqRing /\ head_phase' \in {0, 1}
      BY <2>1, <2>2, <2>6, <2>7
    <3> QED BY <1>1, <3>2, <3>3, <3>4, <3>5 DEF CmdInv, CmdType, SqRing, CqRing
  <2>12. CqPhases'
    <3>1. \A p \in CqRing : cq'[p].phase = cq[p].phase
      BY <1>3, <2>8
    <3>2. head_phase' = IF head' <= cq_head THEN phase ELSE 1 - phase
      BY <2>1, <2>2, <2>4, <2>5, <2>6 DEF After, CqRing
    <3> QED BY <1>1, <2>3, <2>4, <3>1, <3>2 DEF CqPhases, CqRing
  <2>13. SqTags'
    BY <1>1, <2>9 DEF CmdInv, SqTags
  <2>14. \A p \in UnseenAt' : p \in UnseenAt /\ cq'[p] = cq[p]
    BY <2>8 DEF UnseenAt
  <2>15. CqTags' /\ WorkTags'
    BY <1>1, <2>14 DEF CmdInv, CqTags, WorkTags
  <2>16. Placed'
    <3>1. \A s \in SQs, t \in Tags : InRing(s, t)' = InRing(s, t)
      BY <1>1, <2>9 DEF InRing
    <3>2. \A s \in SQs, t \in Tags : InWork(s, t)' = InWork(s, t)
      BY <1>1 DEF InWork
    <3>3. \A s \in SQs, t \in Tags :
            InCq(s, t)' <=> InCq(s, t) /\ ~(s = e.sq_id /\ t = e.command_id)
      BY <2>8, <2>14 DEF CmdInv, CqTags, InCq
    <3> HIDE DEF e
    <3> QED BY <2>1, <2>10, <3>1, <3>2, <3>3 DEF CmdInv, Placed
  <2>17. QueuesUsed' /\ CommandValid'
    BY <1>1, <2>1 DEF CmdInv, QueuesUsed, CommandValid, Issued, Unused, Next_, Ring, regVars
  <2> QED BY <2>11, <2>12, <2>13, <2>15, <2>16, <2>17 DEF CmdInv
<1> QED BY <1>2, <1>3

-----------------------------------------------------------------------------
(* The admin queue.                                                        *)

(* What the device finds in the admin ring is what the host waits for, and *)
(* once it is executed the host's wait is over for the device.             *)
LEMMA Executes ==
  ASSUME RegInv, CmdInv, ProcAdmin
  PROVE  /\ hpc = "up" /\ waiting # NoCommand /\ Issued /\ asq[adm.old_db] = waiting
         /\ asq' \in [Ring -> Commands \cup {NoCommand}]
         /\ ~Issued'
<1>1. depth \in Nat /\ depth >= 2
  BY DepthAssumption
<1>2. /\ adm.db # adm.old_db /\ UNCHANGED hadm
      /\ asq' = [asq EXCEPT ![adm.old_db] = NoCommand]
      /\ adm' = [adm EXCEPT !.old_db = Next_(@), !.cq_head = Next_(@),
                            !.phase = IF adm.cq_head + 1 = depth THEN 1 - @ ELSE @]
  BY DEF ProcAdmin
<1>3. hpc = "up" /\ waiting # NoCommand /\ Issued
  BY <1>2 DEF RegInv, Fresh, InUse, Agree, Answered
<1>4. adm'.db = adm.db /\ adm'.old_db = Next_(adm.old_db) /\ adm.old_db \in Ring
  BY <1>2 DEF RegInv, RegType
<1>5. Next_(adm.old_db) \in Ring
  BY <1>4, NextInRing
<1>6. ~Issued'
  <2>1. hadm'.tail = Next_(adm.old_db)
    BY <1>2, <1>3 DEF Issued
  <2>2. Next_(Next_(adm.old_db)) # Next_(adm.old_db)
    BY <1>1, <1>4, <1>5 DEF Next_, Ring
  <2> QED BY <1>4, <2>1, <2>2 DEF Issued, Next_
<1> QED BY <1>2, <1>3, <1>6 DEF CmdInv, CommandValid

LEMMA ExecuteKeeps == ASSUME RegInv, CmdInv, ProcAdmin PROVE CmdInv'
<1> DEFINE c == asq[adm.old_db]
<1>1. hpc = "up" /\ waiting # NoCommand /\ Issued /\ c = waiting
  BY Executes
<1>2. CommandValid'
  BY Executes DEF CommandValid, Ring
<1>3. Execute(c) /\ c \in Commands
  BY <1>1 DEF ProcAdmin, CmdInv, CommandValid
<1>4. CASE c.opcode = "create_cq" /\ CreateCq
  <2>1. /\ cqe_exists' = TRUE /\ phase' = 1
        /\ UNCHANGED <<sqes, dbs, old_dbs, sq, work, cq, cq_head, outstanding, tail, head, head_phase>>
    BY <1>4 DEF CreateCq
  <2>2. ~cqe_exists
    BY <1>1, <1>4 DEF CmdInv, CommandValid
  <2>3. CmdType'
    BY <2>1 DEF CmdInv, CmdType, SqRing, CqRing
  <2>4. CqPhases'
    BY <2>1, <2>2, Sizes DEF CmdInv, CqPhases, CqRing
  <2>5. UnseenAt' = UnseenAt /\ \A s : RungAt(s)' = RungAt(s)
    BY <2>1 DEF RungAt, UnseenAt, SqRing, CqRing
  <2>6. (SqTags /\ CqTags /\ WorkTags)'
    BY <2>1, <2>5 DEF CmdInv, SqTags, CqTags, WorkTags
  <2>7. Placed'
    <3>1. \A s, t : InRing(s, t)' = InRing(s, t) /\ InWork(s, t)' = InWork(s, t)
      BY <2>1, <2>5 DEF InRing, InWork
    <3>2. \A s, t : InCq(s, t)' = InCq(s, t)
      BY <2>1, <2>5 DEF InCq
    <3> QED BY <2>1, <3>1, <3>2 DEF CmdInv, Placed
  <2>8. QueuesUsed'
    BY <2>1 DEF CmdInv, QueuesUsed, Unused
  <2> QED BY <1>2, <2>3, <2>4, <2>6, <2>7, <2>8 DEF CmdInv
<1>5. CASE c.opcode = "delete_cq" /\ DeleteCq
  <2>1. /\ cqe_exists' = FALSE /\ phase' = 0 /\ cq_head' = 0 /\ head' = 0 /\ head_phase' = 1
        /\ cq' = [i \in 0 .. cq_size - 1 |-> Empty]
        /\ UNCHANGED <<sqes, dbs, old_dbs, sq, work, outstanding, tail>>
    BY <1>5 DEF DeleteCq
  <2>2. \A s \in SQs : ~sqes[s] /\ Unused(s)
    BY <1>1, <1>5 DEF CmdInv, CommandValid, QueuesUsed
  <2>3. \A p \in CqRing : cq'[p] = Empty /\ cq'[p].phase = 0
    BY <2>1 DEF CqRing, Empty
  <2>4. CmdType'
    <3>1. Empty \in [phase : {0, 1}, sq_id : SQs \cup {0}, command_id : Int]
      BY DEF Empty
    <3>2. cq' \in [CqRing -> [phase : {0, 1}, sq_id : SQs \cup {0}, command_id : Int]]
      BY <2>1, <3>1 DEF CqRing
    <3> QED BY <2>1, <3>2, Sizes DEF CmdInv, CmdType, SqRing, CqRing
  <2>5. CqPhases'
    BY <2>1, <2>3 DEF CqPhases, CqRing
  <2>6. UnseenAt' = {} /\ \A s : RungAt(s)' = RungAt(s)
    BY <2>1, NothingBetween DEF RungAt, UnseenAt, SqRing, CqRing
  <2>7. (SqTags /\ CqTags /\ WorkTags)'
    BY <2>1, <2>6 DEF CmdInv, SqTags, CqTags, WorkTags
  <2>8. Placed'
    <3>1. \A s, t : InRing(s, t)' = InRing(s, t) /\ InWork(s, t)' = InWork(s, t)
      BY <2>1, <2>6 DEF InRing, InWork
    <3>2. \A s, t : ~InCq(s, t)'
      BY <2>6 DEF InCq
    <3>3. \A s \in SQs, t \in Tags : ~InCq(s, t)
      BY <2>2 DEF CmdInv, Placed, Unused
    <3> QED BY <2>1, <3>1, <3>2, <3>3 DEF CmdInv, Placed
  <2>9. QueuesUsed'
    BY <2>1, <2>2 DEF QueuesUsed, Unused
  <2> QED BY <1>2, <2>4, <2>5, <2>7, <2>8, <2>9 DEF CmdInv
<1>6. CASE c.opcode = "create_sq" /\ CreateSq(c.qid)
  <2>0. PICK r \in SQs : r = c.qid
    <3>1. \A d \in Commands : d.opcode = "create_sq" => d.qid \in SQs
      BY DEF Commands
    <3> QED BY <1>3, <1>6, <3>1
  <2>1. /\ sqes' = [sqes EXCEPT ![r] = TRUE]
        /\ dbs' = [dbs EXCEPT ![r] = 0] /\ old_dbs' = [old_dbs EXCEPT ![r] = 0]
        /\ tail' = [tail EXCEPT ![r] = 0]
        /\ UNCHANGED <<cqe_exists, sq, work, cq, cq_head, phase, outstanding, head, head_phase>>
    BY <1>6, <2>0 DEF CreateSq
  <2>2. r \in SQs /\ cqe_exists /\ ~sqes[r]
    BY <1>1, <1>6, <2>0 DEF CmdInv, CommandValid
  <2>3. Unused(r)
    BY <2>2 DEF CmdInv, QueuesUsed
  <2>4. /\ sqes \in [SQs -> BOOLEAN] /\ dbs \in [SQs -> SqRing] /\ old_dbs \in [SQs -> SqRing]
        /\ tail = dbs
    BY DEF CmdInv, CmdType
  <2>5. CmdType'
    <3>1. sqes' \in [SQs -> BOOLEAN] /\ dbs' \in [SQs -> SqRing] /\ old_dbs' \in [SQs -> SqRing]
          /\ tail' = dbs'
      BY <2>1, <2>4, Sizes
    <3> QED BY <2>1, <3>1 DEF CmdInv, CmdType, SqRing, CqRing
  <2>6. CqPhases'
    BY <2>1 DEF CmdInv, CqPhases, CqRing
  <2>7. /\ RungAt(r)' = {} /\ RungAt(r) = {}
        /\ \A s \in SQs \ {r} : RungAt(s)' = RungAt(s)
    <3>1. dbs'[r] = 0 /\ old_dbs'[r] = 0
      BY <2>1, <2>2, <2>4
    <3>2. RungAt(r)' = {}
      BY <3>1, NothingBetween DEF RungAt, SqRing
    <3>3. RungAt(r) = {}
      BY <2>2, <2>3 DEF CmdInv, SqTags, Placed, InRing, Unused
    <3>4. \A s \in SQs \ {r} : RungAt(s)' = RungAt(s)
      BY <2>1, <2>4 DEF RungAt, SqRing
    <3> QED BY <3>2, <3>3, <3>4
  <2>8. UnseenAt' = UnseenAt /\ \A s \in SQs : RungAt(s)' = RungAt(s)
    <3>1. UnseenAt' = UnseenAt
      BY <2>1 DEF UnseenAt, CqRing
    <3> QED BY <2>7, <3>1
  <2>9. (SqTags /\ CqTags /\ WorkTags)'
    BY <2>1, <2>8 DEF CmdInv, SqTags, CqTags, WorkTags
  <2>10. Placed'
    <3>1. \A s \in SQs, t \in Tags : InRing(s, t)' = InRing(s, t) /\ InWork(s, t)' = InWork(s, t)
      BY <2>1, <2>8 DEF InRing, InWork
    <3>2. \A s \in SQs, t \in Tags : InCq(s, t)' = InCq(s, t)
      BY <2>1, <2>8 DEF InCq
    <3> QED BY <2>1, <3>1, <3>2 DEF CmdInv, Placed
  <2>11. QueuesUsed'
    BY <2>1, <2>2, <2>4 DEF CmdInv, QueuesUsed, Unused
  <2> QED BY <1>2, <2>5, <2>6, <2>9, <2>10, <2>11 DEF CmdInv
<1>7. CASE c.opcode = "delete_sq" /\ DeleteSq(c.qid)
  <2> DEFINE r == c.qid
  <2>1. /\ sqes' = [sqes EXCEPT ![r] = FALSE]
        /\ UNCHANGED <<cqe_exists, dbs, old_dbs, sq, work, cq, cq_head, phase,
                       outstanding, tail, head, head_phase>>
    BY <1>7 DEF DeleteSq
  <2>2. Unused(r) /\ sqes \in [SQs -> BOOLEAN]
    BY <1>1, <1>7 DEF CmdInv, CmdType, CommandValid
  <2>3. CmdType'
    <3>1. sqes' \in [SQs -> BOOLEAN]
      BY <2>1, <2>2
    <3> QED BY <2>1, <3>1 DEF CmdInv, CmdType, SqRing, CqRing
  <2>4. CqPhases'
    BY <2>1 DEF CmdInv, CqPhases, CqRing
  <2>5. UnseenAt' = UnseenAt /\ \A s : RungAt(s)' = RungAt(s)
    BY <2>1 DEF RungAt, UnseenAt, SqRing, CqRing
  <2>6. (SqTags /\ CqTags /\ WorkTags)'
    BY <2>1, <2>5 DEF CmdInv, SqTags, CqTags, WorkTags
  <2>7. Placed'
    <3>1. \A s, t : InRing(s, t)' = InRing(s, t) /\ InWork(s, t)' = InWork(s, t)
      BY <2>1, <2>5 DEF InRing, InWork
    <3>2. \A s, t : InCq(s, t)' = InCq(s, t)
      BY <2>1, <2>5 DEF InCq
    <3> QED BY <2>1, <3>1, <3>2 DEF CmdInv, Placed
  <2>8. QueuesUsed'
    BY <2>1, <2>2 DEF CmdInv, QueuesUsed, Unused
  <2> QED BY <1>2, <2>3, <2>4, <2>6, <2>7, <2>8 DEF CmdInv
<1> QED BY <1>3, <1>4, <1>5, <1>6, <1>7 DEF Execute

LEMMA IssueKeepsCommands == ASSUME RegInv, CmdInv, Issue PROVE CmdInv'
<1>1. PICK c \in Commands : Issuable(c) /\ waiting' = c /\ asq' = [asq EXCEPT ![hadm.tail] = c]
  BY DEF Issue
<1>2. /\ hpc = "up" /\ waiting = NoCommand /\ UNCHANGED ioVars
      /\ adm' = [adm EXCEPT !.db = Next_(hadm.tail)]
  BY DEF Issue
<1>3. /\ adm.old_db = hadm.tail /\ hadm.tail \in Ring /\ adm'.old_db = adm.old_db
      /\ asq \in [Ring -> Commands \cup {NoCommand}]
  BY <1>2 DEF RegInv, RegType, InUse, Agree, CmdInv, CommandValid
<1>4. asq' \in [Ring -> Commands \cup {NoCommand}] /\ asq'[adm'.old_db] = c
  BY <1>1, <1>3
<1>5. /\ c.opcode = "create_cq" => ~cqe_exists
      /\ c.opcode = "delete_cq" => \A s \in SQs : ~sqes[s]
      /\ c.opcode = "create_sq" => cqe_exists /\ ~sqes[c.qid]
      /\ c.opcode = "delete_sq" => Unused(c.qid)
  BY <1>1 DEF Issuable, Unused
<1>6. CommandValid'
  BY <1>1, <1>2, <1>4, <1>5 DEF CommandValid, Unused, ioVars, Ring
<1>7. (CmdType /\ CqPhases /\ SqTags /\ CqTags /\ WorkTags /\ Placed /\ QueuesUsed)'
  <2>1. UNCHANGED coreVars
    BY <1>2 DEF ioVars, coreVars
  <2> USE DEF coreVars
  <2>2. CmdType' /\ CqPhases'
    BY <2>1 DEF CmdInv, CmdType, CqPhases, SqRing, CqRing
  <2>3. UnseenAt' = UnseenAt /\ \A s : RungAt(s)' = RungAt(s)
    BY <2>1 DEF RungAt, UnseenAt, SqRing, CqRing
  <2>4. (SqTags /\ CqTags /\ WorkTags /\ QueuesUsed)'
    BY <2>1, <2>3 DEF CmdInv, SqTags, CqTags, WorkTags, QueuesUsed, Unused
  <2>5. Placed'
    <3>1. \A s, t : InRing(s, t)' = InRing(s, t) /\ InWork(s, t)' = InWork(s, t)
      BY <2>1, <2>3 DEF InRing, InWork
    <3>2. \A s, t : InCq(s, t)' = InCq(s, t)
      BY <2>1, <2>3 DEF InCq
    <3> QED BY <2>1, <3>1, <3>2 DEF CmdInv, Placed
  <2> QED BY <2>2, <2>4, <2>5
<1> QED BY <1>6, <1>7 DEF CmdInv

(* Everything else leaves the I/O queues alone.                            *)
LEMMA OthersKeep ==
  ASSUME RegInv, CmdInv, Dispatcher \/ Host, ~ProcAdmin, ~Issue, ~HostIo
  PROVE  CmdInv'
<1>1. UNCHANGED coreVars
  BY DEF Dispatcher, Host, ScanAqa, ScanAsq, ScanAcq, ScanCc, ScanShn, ScanSeen, NextPass,
     WriteAqa, WriteAsq, WriteAcq, WriteCc, Enable, SeesReady, SeesCompletion, Shutdown, Disable, SeesOff, ioVars, coreVars
<1>2. \/ UNCHANGED <<asq, adm, hpc, hadm, waiting>>
      \/ asq' = asq /\ ~(hpc' = "up" /\ waiting' # NoCommand)
  <2>1. CASE Dispatcher
    <3>1. UNCHANGED <<asq, hpc, hadm, waiting>>
      BY <2>1 DEF Dispatcher, ScanAqa, ScanAsq, ScanAcq, ScanCc, ScanShn, ScanSeen, NextPass, hostVars
    <3>2. CASE hpc = "up"
      <4>1. changed = {} /\ cc.shn # 1
        BY <3>2 DEF RegInv, HostPhase
      <4>2. UNCHANGED adm
        BY <2>1, <4>1 DEF Dispatcher, ScanAqa, ScanAsq, ScanAcq, ScanCc, ScanShn, ScanSeen,
           NextPass
      <4> QED BY <3>1, <4>2
    <3>3. CASE hpc # "up"
      BY <3>1, <3>3
    <3> QED BY <3>2, <3>3
  <2>2. CASE Host
    <3>1. UNCHANGED asq
      BY <2>2 DEF Host, WriteAqa, WriteAsq, WriteAcq, Enable, SeesReady, SeesCompletion,
         Shutdown, Disable, SeesOff, WriteCc
    <3>2. CASE SeesReady \/ SeesCompletion
      <4>1. waiting' = NoCommand
        BY <3>2 DEF SeesReady, SeesCompletion, Goes, RegInv, Fresh
      <4> QED BY <3>1, <4>1
    <3>3. CASE ~(SeesReady \/ SeesCompletion)
      <4>1. hpc' # "up"
        BY <2>2, <3>3 DEF Host, WriteAqa, WriteAsq, WriteAcq, Enable,
           Shutdown, Disable, SeesOff, Goes
      <4> QED BY <3>1, <4>1
    <3> QED BY <3>2, <3>3
  <2> QED BY <2>1, <2>2
<1> QED BY <1>1, <1>2, CoreUnchanged

LEMMA NextCmd == ASSUME RegInv, CmdInv, [Next]_vars PROVE CmdInv'
<1>1. CASE UNCHANGED vars
  BY <1>1, CoreUnchanged DEF vars, ioVars, regVars, coreVars
<1>2. CASE HostIo
  <2>1. UNCHANGED regVars
    BY <1>2 DEF HostIo
  <2>2. CASE TakeInterrupt
    BY <2>1, <2>2, CoreUnchanged DEF TakeInterrupt, queueVars, regVars, coreVars
  <2> QED BY <1>2, <2>1, <2>2, SubmitKeeps, ReapsInOrder DEF HostIo
<1>3. CASE Device /\ UNCHANGED regVars
  <2>1. CASE PollQueue \/ PollLook \/ PollClear \/ PollSignal \/ PollStale
    <3>1. UNCHANGED coreVars
      BY <2>1 DEF PollQueue, PollLook, PollClear, PollSignal, PollStale, Poll,
         queueVars, coreVars
    <3> QED BY <1>3, <3>1, CoreUnchanged DEF regVars
  <2> QED BY <1>3, <2>1, FetchKeeps, PostKeeps DEF Device
<1> QED BY <1>1, <1>2, <1>3, ExecuteKeeps, IssueKeepsCommands, OthersKeep DEF Next

-----------------------------------------------------------------------------
(* From positions to commands.                                             *)

LEMMA WaitingIsRung ==
  ASSUME CmdInv, NEW s \in SQs
  PROVE  Rung(s) = {sq[s][p] : p \in RungAt(s)}
<1>1. /\ sq_size \in Nat \ {0} /\ old_dbs[s] \in 0 .. sq_size - 1
      /\ dbs[s] \in 0 .. sq_size - 1
  BY Sizes DEF CmdInv, CmdType, SqRing
<1>2. \A p : (\E i \in 0 .. ((dbs[s] - old_dbs[s]) % sq_size) - 1 : p = (old_dbs[s] + i) % sq_size)
               <=> p \in RungAt(s)
  <2>1. ASSUME NEW p
        PROVE  (\E i \in 0 .. ((dbs[s] - old_dbs[s]) % sq_size) - 1 : p = (old_dbs[s] + i) % sq_size)
                 <=> p \in 0 .. sq_size - 1 /\ Between(old_dbs[s], p, dbs[s])
    BY <1>1, RingPositions
  <2> QED BY <2>1 DEF RungAt, SqRing
<1> QED BY <1>2 DEF Rung

LEMMA PostedIsUnseen ==
  ASSUME CmdInv
  PROVE  Unseen = {cq[p] : p \in UnseenAt}
<1> DEFINE K == (cq_head - head) % cq_size
           At(i) == (head + i) % cq_size
<1>1. /\ cq_size \in Nat \ {0} /\ cq_head \in 0 .. cq_size - 1 /\ head \in 0 .. cq_size - 1
      /\ phase \in {0, 1} /\ head_phase \in {0, 1}
  BY Sizes DEF CmdInv, CmdType, CqRing
<1>2. K = (IF head <= cq_head THEN cq_head - head ELSE cq_head - head + cq_size)
  BY <1>1, ModMinus
<1>3. K \in 0 .. cq_size - 1
  BY <1>1, <1>2
<1>4. \A i \in 0 .. cq_size - 1 :
        At(i) = IF head + i < cq_size THEN head + i ELSE head + i - cq_size
  <2>1. \A i \in 0 .. cq_size - 1 : i \in 0 .. cq_size
    BY <1>1
  <2> QED BY <1>1, <2>1, ModPlus
<1>5. \A i \in 0 .. cq_size - 1 : New(i) <=> cq[At(i)].phase
          = IF head + i >= cq_size THEN 1 - head_phase ELSE head_phase
  BY DEF New
<1> HIDE DEF At, K
<1>6. ~New(K) /\ \A i \in 0 .. K - 1 : New(i)
  <2>1. CASE cqe_exists
    <3>1. /\ \A p \in 0 .. cq_size - 1 : cq[p].phase = IF p < cq_head THEN phase ELSE 1 - phase
          /\ head_phase = IF head <= cq_head THEN phase ELSE 1 - phase
      BY <2>1 DEF CmdInv, CqPhases, CqRing
    <3>2. ~New(K)
      <4>1. At(K) = cq_head
        BY <1>1, <1>2, <1>3, <1>4
      <4> QED BY <1>1, <1>2, <1>3, <1>5, <3>1, <4>1
    <3>3. ASSUME NEW i \in 0 .. K - 1 PROVE New(i)
      <4>1. i \in 0 .. cq_size - 1 /\ At(i) \in 0 .. cq_size - 1
        BY <1>1, <1>3, <1>4
      <4>2. CASE head + i < cq_size
        <5>1. At(i) = head + i
          BY <1>4, <4>1, <4>2
        <5> QED BY <1>1, <1>2, <1>3, <1>5, <3>1, <4>1, <4>2, <5>1
      <4>3. CASE head + i >= cq_size
        <5>1. At(i) = head + i - cq_size
          BY <1>1, <1>4, <4>1, <4>3
        <5> QED BY <1>1, <1>2, <1>3, <1>5, <3>1, <4>1, <4>3, <5>1
      <4> QED BY <1>1, <4>2, <4>3
    <3> QED BY <3>2, <3>3
  <2>2. CASE ~cqe_exists
    <3>1. /\ cq_head = 0 /\ head = 0 /\ head_phase = 1
          /\ \A p \in 0 .. cq_size - 1 : cq[p].phase = 0
      BY <2>2 DEF CmdInv, CqPhases, CqRing
    <3>2. K = 0 /\ At(0) = 0
      BY <1>1, <1>2, <1>3, <1>4, <3>1
    <3>3. ~New(0)
      BY <1>1, <1>5, <3>1, <3>2
    <3> QED BY <3>2, <3>3
  <2> QED BY <2>1, <2>2
<1>7. \A i \in 0 .. cq_size - 1 : (\A j \in 0 .. i : New(j)) <=> i \in 0 .. K - 1
  <2>1. ASSUME NEW i \in 0 .. cq_size - 1, \A j \in 0 .. i : New(j) PROVE i \in 0 .. K - 1
    <3>1. ~(K <= i)
      BY <1>3, <1>6, <2>1
    <3> QED BY <1>3, <3>1
  <2>2. ASSUME NEW i \in 0 .. K - 1 PROVE \A j \in 0 .. i : New(j)
    <3>1. \A j \in 0 .. i : j \in 0 .. K - 1
      BY <1>3
    <3> QED BY <1>6, <3>1
  <2> QED BY <2>1, <2>2
<1>8. Unseen = {cq[At(i)] : i \in 0 .. K - 1}
  <2>1. {i \in 0 .. cq_size - 1 : \A j \in 0 .. i : New(j)} = 0 .. K - 1
    BY <1>1, <1>3, <1>7
  <2> QED BY <2>1 DEF Unseen, At
<1>9. \A p : (\E i \in 0 .. K - 1 : p = At(i)) <=> p \in UnseenAt
  <2>1. ASSUME NEW p
        PROVE  (\E i \in 0 .. ((cq_head - head) % cq_size) - 1 : p = (head + i) % cq_size)
                 <=> p \in 0 .. cq_size - 1 /\ Between(head, p, cq_head)
    BY <1>1, RingPositions
  <2> QED BY <2>1 DEF At, K, UnseenAt, CqRing
<1> QED BY <1>8, <1>9

LEMMA OneToOne ==
  ASSUME NEW S, IsFiniteSet(S), NEW T, IsFiniteSet(T),
         NEW f \in [S -> T], \A x, y \in S : f[x] = f[y] => x = y,
         NEW g \in [T -> S], \A x, y \in T : g[x] = g[y] => x = y
  PROVE  Cardinality(S) = Cardinality(T)
<1>1. Cardinality(S) \in Nat /\ Cardinality(T) \in Nat
  BY FS_CardinalityType
<1>2. Cardinality(S) <= Cardinality(T) /\ Cardinality(T) <= Cardinality(S)
  BY Injected
<1> QED BY <1>1, <1>2

LEMMA FetchedCounted ==
  ASSUME CmdInv
  PROVE  IsFiniteSet(Fetched) /\ Cardinality(Fetched) = Cardinality(work)
<1> DEFINE Of(w) == <<w.sqid, w.command_id>>
           f == [w \in work |-> Of(w)]
           g == [c \in Fetched |-> CHOOSE w \in work : Of(w) = c]
<1>1. \A v, w \in work : Of(v) = Of(w) => v = w
  BY DEF CmdInv, WorkTags
<1>2. \A c \in Fetched : \E w \in work : Of(w) = c
  BY DEF Fetched
<1>3. \A w \in work : Of(w) \in Fetched
  BY DEF Fetched
<1>4. IsFiniteSet(Fetched)
  <2>1. \A w \in work : Of(w) \in outstanding
    <3>1. \A w \in work : w.sqid \in SQs /\ w.command_id \in Tags
      BY DEF CmdInv, CmdType
    <3> QED BY <3>1 DEF CmdInv, Placed, InWork
  <2>2. Fetched \in SUBSET outstanding
    BY <2>1 DEF Fetched
  <2> QED BY <2>2, FS_Subset DEF CmdInv, CmdType
<1> HIDE DEF Of
<1>5. f \in [work -> Fetched] /\ \A x, y \in work : f[x] = f[y] => x = y
  BY <1>1, <1>3
<1>6. \A c \in Fetched : g[c] \in work /\ Of(g[c]) = c
  BY <1>2
<1>7. g \in [Fetched -> work] /\ \A x, y \in Fetched : g[x] = g[y] => x = y
  BY <1>6
<1>8. IsFiniteSet(work)
  <2> HIDE DEF f
  <2>1. f \in Injection(work, Fetched)
    BY <1>5 DEF Injection, IsInjective
  <2> QED BY <1>4, <2>1, FS_Injection
<1> HIDE DEF f, g
<1> QED BY <1>4, <1>5, <1>7, <1>8, OneToOne

LEMMA PostedCounted ==
  ASSUME CmdInv
  PROVE  IsFiniteSet(Posted) /\ Cardinality(Posted) = Cardinality(Unseen)
<1> DEFINE Of(e) == <<e.sq_id, e.command_id>>
           f == [e \in Unseen |-> Of(e)]
           g == [c \in Posted |-> CHOOSE e \in Unseen : Of(e) = c]
<1>1. \A d, e \in Unseen : Of(d) = Of(e) => d = e
  BY PostedIsUnseen DEF CmdInv, CqTags
<1>2. \A c \in Posted : \E e \in Unseen : Of(e) = c
  BY DEF Posted
<1>3. \A e \in Unseen : Of(e) \in Posted
  BY DEF Posted
<1>4. IsFiniteSet(Posted)
  <2>1. \A e \in Unseen : Of(e) \in outstanding
    <3>1. ASSUME NEW p \in UnseenAt PROVE Of(cq[p]) \in outstanding
      <4>1. cq[p].sq_id \in SQs /\ cq[p].command_id \in Tags
        BY DEF CmdInv, CqTags
      <4>2. InCq(cq[p].sq_id, cq[p].command_id)
        BY DEF InCq
      <4> QED BY <4>1, <4>2 DEF CmdInv, Placed
    <3> QED BY <3>1, PostedIsUnseen
  <2>2. Posted \in SUBSET outstanding
    BY <2>1 DEF Posted
  <2> QED BY <2>2, FS_Subset DEF CmdInv, CmdType
<1> HIDE DEF Of
<1>5. f \in [Unseen -> Posted] /\ \A x, y \in Unseen : f[x] = f[y] => x = y
  BY <1>1, <1>3
<1>6. \A c \in Posted : g[c] \in Unseen /\ Of(g[c]) = c
  BY <1>2
<1>7. g \in [Posted -> Unseen] /\ \A x, y \in Posted : g[x] = g[y] => x = y
  BY <1>6
<1>8. IsFiniteSet(Unseen)
  <2> HIDE DEF f
  <2>1. f \in Injection(Unseen, Posted)
    BY <1>5 DEF Injection, IsInjective
  <2> QED BY <1>4, <2>1, FS_Injection
<1> HIDE DEF f, g
<1> QED BY <1>4, <1>5, <1>7, <1>8, OneToOne

LEMMA CmdInvImplies == ASSUME CmdInv PROVE EachCommandInOnePlace
<1>1. \A s \in SQs, t \in Tags : /\ <<s, t>> \in Waiting <=> InRing(s, t)
                                 /\ <<s, t>> \in Fetched <=> InWork(s, t)
                                 /\ <<s, t>> \in Posted <=> InCq(s, t)
  <2>1. ASSUME NEW s \in SQs, NEW t \in Tags
        PROVE  <<s, t>> \in Waiting <=> InRing(s, t)
    <3>1. t \in Rung(s) <=> InRing(s, t)
      BY WaitingIsRung DEF InRing
    <3> QED BY <3>1 DEF Waiting
  <2>2. ASSUME NEW s \in SQs, NEW t \in Tags
        PROVE  <<s, t>> \in Fetched <=> InWork(s, t)
    BY DEF Fetched, InWork
  <2>3. ASSUME NEW s \in SQs, NEW t \in Tags
        PROVE  <<s, t>> \in Posted <=> InCq(s, t)
    BY PostedIsUnseen DEF Posted, InCq
  <2> QED BY <2>1, <2>2, <2>3
<1>2. /\ Waiting \subseteq SQs \X Tags /\ Fetched \subseteq SQs \X Tags
      /\ Posted \subseteq SQs \X Tags /\ outstanding \subseteq SQs \X Tags
  <2>1. \A s \in SQs : Rung(s) \subseteq Tags
    BY WaitingIsRung DEF CmdInv, SqTags
  <2>2. Waiting \subseteq SQs \X Tags
    BY <2>1 DEF Waiting
  <2>3. Fetched \subseteq SQs \X Tags
    BY DEF Fetched, CmdInv, CmdType
  <2>4. Posted \subseteq SQs \X Tags
    BY PostedIsUnseen DEF Posted, CmdInv, CqTags
  <2> QED BY <2>2, <2>3, <2>4 DEF CmdInv, CmdType
<1>3. /\ outstanding = Waiting \cup Fetched \cup Posted
      /\ Waiting \cap Fetched = {} /\ (Waiting \cup Fetched) \cap Posted = {}
  <2>1. \A s \in SQs, t \in Tags :
          /\ <<s, t>> \in outstanding
               <=> <<s, t>> \in Waiting \/ <<s, t>> \in Fetched \/ <<s, t>> \in Posted
          /\ ~(<<s, t>> \in Waiting /\ <<s, t>> \in Fetched)
          /\ ~(<<s, t>> \in Waiting /\ <<s, t>> \in Posted)
          /\ ~(<<s, t>> \in Fetched /\ <<s, t>> \in Posted)
    BY <1>1 DEF CmdInv, Placed
  <2>2. \A c \in SQs \X Tags :
          /\ c \in outstanding <=> c \in Waiting \/ c \in Fetched \/ c \in Posted
          /\ ~(c \in Waiting /\ c \in Fetched)
          /\ ~(c \in Waiting /\ c \in Posted)
          /\ ~(c \in Fetched /\ c \in Posted)
    BY <2>1
  <2> QED BY <1>2, <2>2
<1>4. IsFiniteSet(Waiting)
  <2>1. Waiting \in SUBSET outstanding
    BY <1>3
  <2> QED BY <2>1, FS_Subset DEF CmdInv, CmdType
<1>5. /\ IsFiniteSet(Fetched) /\ IsFiniteSet(Posted)
      /\ Cardinality(Fetched) = Cardinality(work)
      /\ Cardinality(Posted) = Cardinality(Unseen)
  BY FetchedCounted, PostedCounted
<1>6. /\ IsFiniteSet(Waiting \cup Fetched)
      /\ Cardinality(Waiting \cup Fetched) = Cardinality(Waiting) + Cardinality(Fetched) - 0
  BY <1>3, <1>4, <1>5, FS_Union, FS_EmptySet
<1>7. Cardinality((Waiting \cup Fetched) \cup Posted)
        = Cardinality(Waiting \cup Fetched) + Cardinality(Posted) - 0
  BY <1>3, <1>5, <1>6, FS_Union, FS_EmptySet
<1>8. /\ Cardinality(Waiting) \in Nat /\ Cardinality(Fetched) \in Nat
      /\ Cardinality(Posted) \in Nat
  BY <1>4, <1>5, FS_CardinalityType
<1> QED BY <1>3, <1>5, <1>6, <1>7, <1>8 DEF EachCommandInOnePlace

(* No wrap of a ring, no order of fetching, posting and reaping, and no    *)
(* creation or deletion of a queue loses, repeats or resurrects a command. *)
THEOREM CommandsAreInOnePlace == Spec => []EachCommandInOnePlace
<1>1. Init => RegInv /\ CmdInv
  BY InitReg, InitCmd
<1>2. RegInv /\ CmdInv /\ [Next]_vars => (RegInv /\ CmdInv)'
  BY NextReg, NextCmd
<1>3. RegInv /\ CmdInv => EachCommandInOnePlace
  BY CmdInvImplies
<1> QED BY <1>1, <1>2, <1>3, PTL DEF Spec

=============================================================================
