------------------------------- MODULE ZnsFtl -------------------------------
(***************************************************************************)
(* The zoned namespace (zns_ftl.c, zns_read_write.c, zns_mgmt_send.c): the *)
(* zone state machine, the counts of active, open and ZRWA zones, and the  *)
(* buffer space that writes take and the I/O workers give back.            *)
(*                                                                         *)
(* Addresses and sizes are in pages: the host writes whole pages.  A       *)
(* command runs to its end on the dispatcher, except that one that finds   *)
(* no buffer space stays at the head of its submission queue and is tried  *)
(* again later.  A zone management command for all zones goes through them *)
(* one by one.  No transition of the code enters READ_ONLY, the only state *)
(* offline accepts, so neither state appears.  Reads change nothing here.  *)
(***************************************************************************)
EXTENDS Integers, FiniteSets

CONSTANTS
  nr_zones, zone_size, pgs_per_oneshotpg,
  write_unit,           (* a write must be a multiple of it                 *)
  zone_wb_size,         (* write buffer of a zone, 0: one for all zones     *)
  global_wb_size,
  zrwa_size, zrwafg_size, zrwa_buffer_size,
  Queues,               (* submission queues                                *)
  MaxLength,            (* of a write                                       *)
  MaxPending            (* wordlines of a buffer being programmed           *)

ASSUME ZnsAssumption ==
  /\ {nr_zones, zone_size, pgs_per_oneshotpg, write_unit} \subseteq Nat \ {0}
  /\ {zrwa_size, zrwafg_size, zrwa_buffer_size, MaxLength} \subseteq Nat \ {0}
  /\ {zone_wb_size, global_wb_size, MaxPending} \subseteq Nat
  /\ zrwa_size % zrwafg_size = 0 /\ zrwa_size <= zrwa_buffer_size
  /\ MaxLength <= IF zone_wb_size > 0 THEN zone_wb_size ELSE global_wb_size

Zones == 0 .. nr_zones - 1
ZoneOf(lba) == lba \div zone_size
zslba(z)    == z * zone_size
EndOf(z)    == (z + 1) * zone_size

Opened == {"OPENED_IMPL", "OPENED_EXPL"}
Active == Opened \cup {"CLOSED"}
States == Active \cup {"EMPTY", "FULL"}

Command == [op : {"write", "append"}, slba : Nat, nr : 1 .. MaxLength]
NoCmd   == [op |-> "none"]

WriteBufferOf(z) == <<"wb", IF zone_wb_size > 0 THEN z ELSE 0>>
ZrwaBuffer(z)    == <<"zrwa", z>>
Buffers == {WriteBufferOf(z) : z \in Zones} \cup {ZrwaBuffer(z) : z \in Zones}
SizeOf(b) == IF b[1] = "zrwa" THEN zrwa_buffer_size
             ELSE IF zone_wb_size > 0 THEN zone_wb_size ELSE global_wb_size

unaligned_space == zone_size % pgs_per_oneshotpg
Sizes == {pgs_per_oneshotpg, unaligned_space} \ {0}

VARIABLES
  state, wp, zrwav,     (* of each zone                                     *)
  acquired,             (* acquired_cnt of each kind of zone resource       *)
  remaining,            (* space of each buffer                             *)
  pending,              (* releases of each size each buffer waits for      *)
  cmd,                  (* the command each queue has to try again          *)
  sweep,                (* a management command on its way through all zones *)
  halted                (* a BUG_ON has stopped the machine                 *)

zoneVars == <<state, wp, zrwav, acquired>>
bufVars  == <<remaining, pending>>
vars == <<state, wp, zrwav, acquired, remaining, pending, cmd, sweep, halted>>

NoSweep == [action |-> "none"]

Init ==
  /\ state = [z \in Zones |-> "EMPTY"]
  /\ wp = [z \in Zones |-> zslba(z)]
  /\ zrwav = [z \in Zones |-> FALSE]
  /\ acquired = [r \in {"ACTIVE_ZONE", "OPEN_ZONE", "ZRWA_ZONE"} |-> 0]
  /\ remaining = [b \in Buffers |-> SizeOf(b)]
  /\ pending = [b \in Buffers |-> [s \in Sizes |-> 0]]
  /\ cmd = [q \in Queues |-> NoCmd]
  /\ sweep = NoSweep /\ halted = FALSE

is_zone_resource_full(r) == acquired[r] = nr_zones
One(P) == IF P THEN 1 ELSE 0

-----------------------------------------------------------------------------
(* Writes.                                                                 *)

(* The zone opens if it was not open, takes n pages and, at its end, is    *)
(* FULL and gives back its open and active resources (__increase_write_ptr;*)
(* a ZRWA zone, which the ASSERT there excludes, keeps its ZRWA resource). *)
Moved(z, n, wasEmpty, opens) ==
  LET full == wp[z] + n = EndOf(z) IN
  /\ wp' = [wp EXCEPT ![z] = @ + n]
  /\ state' = [state EXCEPT ![z] = IF full THEN "FULL" ELSE IF opens THEN "OPENED_IMPL" ELSE @]
  /\ acquired' = [acquired EXCEPT
       !["ACTIVE_ZONE"] = @ + One(wasEmpty) - One(full),
       !["OPEN_ZONE"] = @ + One(opens) - One(full)]

(* Aligned to the write unit and within one zone.                          *)
WellFormed(c) ==
  /\ c.nr % write_unit = 0
  /\ ZoneOf(c.slba) = ZoneOf(c.slba + c.nr - 1)

Writable(c, z) ==
  /\ WellFormed(c)
  /\ c.slba = wp[z]
  /\ state[z] \in Active \cup {"EMPTY"}
  /\ state[z] = "EMPTY" => /\ c.slba = zslba(z)
                           /\ ~is_zone_resource_full("ACTIVE_ZONE")
  /\ state[z] \notin Opened => ~is_zone_resource_full("OPEN_ZONE")

(* Variant of Programmed: the tail of an unaligned zone counts as a whole. *)
ProgrammedWhole(z, from, n) ==
  [s \in Sizes |->
     IF s = pgs_per_oneshotpg
     THEN Cardinality({p \in from .. from + n - 1 :
                         \/ (p - zslba(z) + 1) % pgs_per_oneshotpg = 0
                         \/ p = EndOf(z) - 1})
     ELSE 0]

(* The wordlines that n pages from page `from' of a zone complete; the end *)
(* of a zone that is not a multiple of a wordline is one of its own size.  *)
Programmed(z, from, n) ==
  [s \in Sizes |->
     IF s = pgs_per_oneshotpg
     THEN Cardinality({p \in from .. from + n - 1 :
                         (p - zslba(z) + 1) % pgs_per_oneshotpg = 0})
     ELSE One(from + n = EndOf(z))]

Schedule(b, p) ==
  pending' = [pending EXCEPT ![b] = [s \in Sizes |-> @[s] + p[s]]]

(* The space is taken before the command is looked at, and a command that  *)
(* turns out to be wrong does not give it back.                            *)
WriteSequential(q, c, z) ==
  LET b == WriteBufferOf(z) IN
  IF remaining[b] < c.nr
  THEN cmd' = [cmd EXCEPT ![q] = c] /\ UNCHANGED <<zoneVars, bufVars>>
  ELSE /\ cmd' = [cmd EXCEPT ![q] = NoCmd]
       /\ remaining' = [remaining EXCEPT ![b] = @ - c.nr]
       /\ IF Writable(c, z)
          THEN /\ Moved(z, c.nr, state[z] = "EMPTY", state[z] \notin Opened)
               /\ Schedule(b, Programmed(z, wp[z], c.nr))
          ELSE UNCHANGED <<state, wp, acquired, pending>>
       /\ UNCHANGED zrwav

(* Pages that leave the random write area: as many flush groups as it must *)
(* move on for the command to fit in, or all of it at the end of the zone. *)
Flushed(c, z) ==
  LET elba  == c.slba + c.nr - 1
      start == wp[z] + zrwa_size
  IN IF elba >= start
     THEN ((elba - start + zrwafg_size) \div zrwafg_size) * zrwafg_size
     ELSE IF elba = EndOf(z) - 1 THEN elba - wp[z] + 1 ELSE 0

WritableZrwa(c, z) ==
  /\ WellFormed(c)
  /\ c.slba >= wp[z] /\ c.slba + c.nr <= wp[z] + 2 * zrwa_size
  /\ state[z] \in Active \cup {"EMPTY"}
  /\ state[z] \notin Opened => ~is_zone_resource_full("OPEN_ZONE")

(* The opening of the zone stands even if the flush then has to wait.      *)
WriteZrwa(q, c, z) ==
  LET b     == ZrwaBuffer(z)
      n     == Flushed(c, z)
      opens == state[z] \notin Opened
      rest  == remaining[b] - IF opens THEN zrwa_size ELSE 0
  IN \/ /\ ~WritableZrwa(c, z)
        /\ cmd' = [cmd EXCEPT ![q] = NoCmd]
        /\ UNCHANGED <<zoneVars, bufVars, halted>>
     \/ /\ WritableZrwa(c, z) /\ rest < 0
        /\ halted' = TRUE
        /\ UNCHANGED <<zoneVars, bufVars, cmd>>
     \/ /\ WritableZrwa(c, z) /\ rest >= 0
        /\ IF n <= rest
           THEN /\ remaining' = [remaining EXCEPT ![b] = rest - n]
                /\ Moved(z, n, FALSE, opens)
                /\ Schedule(b, [s \in Sizes |-> IF s = pgs_per_oneshotpg
                                                THEN Programmed(z, wp[z], n)[s] ELSE 0])
                /\ cmd' = [cmd EXCEPT ![q] = NoCmd]
           ELSE /\ remaining' = [remaining EXCEPT ![b] = rest]
                /\ Moved(z, 0, FALSE, opens)
                /\ cmd' = [cmd EXCEPT ![q] = c]
                /\ UNCHANGED pending
        /\ UNCHANGED <<zrwav, halted>>

(* zns_write.  The zone is the one slba lies in; zone append then replaces *)
(* slba in the command by the write pointer.  An append that was moved     *)
(* past the last zone reads beyond zone_descs: not followed.               *)
zns_write(q, c) ==
  LET z == ZoneOf(c.slba)
      a == IF c.op = "append" THEN [c EXCEPT !.slba = wp[z]] ELSE c
  IN /\ z \in Zones
     /\ IF zrwav[z] THEN WriteZrwa(q, c, z)
        ELSE WriteSequential(q, a, z) /\ UNCHANGED halted
     /\ \A b \in Buffers, s \in Sizes : pending'[b][s] <= MaxPending

-----------------------------------------------------------------------------
(* Zone management.                                                        *)

Close(z) ==
  IF state[z] \in Opened
  THEN /\ state' = [state EXCEPT ![z] = "CLOSED"]
       /\ acquired' = [acquired EXCEPT !["OPEN_ZONE"] = @ - 1]
       /\ UNCHANGED <<wp, zrwav, remaining>>
  ELSE UNCHANGED <<zoneVars, remaining>>

(* Variant of GivenUp: a closed zone gives back an open resource.          *)
GivenUpByClosed(z) ==
  [acquired EXCEPT !["OPEN_ZONE"]   = @ - One(state[z] \in Active),
                   !["ACTIVE_ZONE"] = @ - One(state[z] \in Active),
                   !["ZRWA_ZONE"]   = @ - One(state[z] \in Active /\ zrwav[z])]

(* What finish and reset give back of a zone.                              *)
GivenUp(z) ==
  [acquired EXCEPT !["OPEN_ZONE"]   = @ - One(state[z] \in Opened),
                   !["ACTIVE_ZONE"] = @ - One(state[z] \in Active),
                   !["ZRWA_ZONE"]   = @ - One(state[z] \in Active /\ zrwav[z])]

Finish(z) ==
  /\ acquired' = GivenUp(z)
  /\ state' = [state EXCEPT ![z] = "FULL"]
  /\ UNCHANGED <<wp, zrwav, remaining>>

(* __zmgmt_send_reset_zone and __reset_zone: only the ZRWA buffer is       *)
(* refilled, and what it waits for is still to come.                       *)
Reset(z) ==
  /\ acquired' = GivenUp(z)
  /\ state' = [state EXCEPT ![z] = "EMPTY"]
  /\ wp' = [wp EXCEPT ![z] = zslba(z)]
  /\ zrwav' = [zrwav EXCEPT ![z] = FALSE]
  /\ remaining' = [remaining EXCEPT ![ZrwaBuffer(z)] = zrwa_buffer_size]

Open(z, zrwa) ==
  LET empty == state[z] = "EMPTY"
      opens == state[z] \notin Opened
  IN IF /\ state[z] # "FULL"
        /\ empty => ~is_zone_resource_full("ACTIVE_ZONE")
        /\ empty /\ zrwa => ~is_zone_resource_full("ZRWA_ZONE")
        /\ opens => ~is_zone_resource_full("OPEN_ZONE")
     THEN /\ state' = [state EXCEPT ![z] = "OPENED_EXPL"]
          /\ zrwav' = [zrwav EXCEPT ![z] = @ \/ (empty /\ zrwa)]
          /\ acquired' = [acquired EXCEPT
               !["ACTIVE_ZONE"] = @ + One(empty),
               !["OPEN_ZONE"]   = @ + One(opens),
               !["ZRWA_ZONE"]   = @ + One(empty /\ zrwa)]
          /\ UNCHANGED <<wp, remaining>>
     ELSE UNCHANGED <<zoneVars, remaining>>

(* Variant of FlushExplicit: a zone flushed to its end stays as it was.    *)
FlushExplicitOnly(slba) ==
  LET z == ZoneOf(slba) IN
  IF zrwav[z] /\ slba >= wp[z] /\ slba < wp[z] + zrwa_size
     /\ (slba - wp[z] + 1) % zrwafg_size = 0 /\ state[z] \in Active
  THEN wp' = [wp EXCEPT ![z] = slba + 1] /\ UNCHANGED <<state, zrwav, acquired, remaining>>
  ELSE UNCHANGED <<zoneVars, remaining>>

FlushExplicit(slba) ==
  LET z == ZoneOf(slba)
      full == slba + 1 = EndOf(z)
  IN IF zrwav[z] /\ slba >= wp[z] /\ slba < wp[z] + zrwa_size
        /\ (slba - wp[z] + 1) % zrwafg_size = 0 /\ state[z] \in Active
     THEN /\ wp' = [wp EXCEPT ![z] = slba + 1]
          /\ state' = IF full THEN [state EXCEPT ![z] = "FULL"] ELSE state
          /\ acquired' = IF full THEN GivenUp(z) ELSE acquired
          /\ UNCHANGED <<zrwav, remaining>>
     ELSE UNCHANGED <<zoneVars, remaining>>

Actions == {"CLOSE", "FINISH", "OPEN", "RESET", "FLUSH_EXPL_ZRWA"}

(* __zmgmt_send.                                                           *)
Send(action, slba, option) ==
  \/ action = "CLOSE"  /\ Close(ZoneOf(slba))
  \/ action = "FINISH" /\ Finish(ZoneOf(slba))
  \/ action = "OPEN"   /\ Open(ZoneOf(slba), option)
  \/ action = "RESET"  /\ Reset(ZoneOf(slba))
  \/ action = "FLUSH_EXPL_ZRWA" /\ FlushExplicit(slba)

-----------------------------------------------------------------------------
(* The dispatcher: first tries, second tries and management commands.      *)

Dispatching == sweep = NoSweep /\ ~halted

Write(q) ==
  /\ Dispatching /\ cmd[q] = NoCmd
  /\ \E z \in Zones, n \in 1 .. MaxLength :
       \/ \E slba \in zslba(z) .. EndOf(z) - 1 :
            zns_write(q, [op |-> "write", slba |-> slba, nr |-> n])
       \/ zns_write(q, [op |-> "append", slba |-> zslba(z), nr |-> n])
  /\ UNCHANGED sweep

Retry(q) ==
  /\ Dispatching /\ cmd[q] # NoCmd
  /\ zns_write(q, cmd[q])
  /\ UNCHANGED sweep

Manage(q) ==
  /\ Dispatching /\ cmd[q] = NoCmd
  /\ \E a \in Actions, slba \in 0 .. nr_zones * zone_size - 1, o \in BOOLEAN :
       Send(a, slba, o)
  /\ UNCHANGED <<pending, cmd, sweep, halted>>

ManageAll(q) ==
  /\ Dispatching /\ cmd[q] = NoCmd
  /\ \E a \in Actions, o \in BOOLEAN :
       sweep' = [action |-> a, option |-> o, zid |-> 0]
  /\ UNCHANGED <<zoneVars, bufVars, cmd, halted>>

NextZone ==
  /\ sweep # NoSweep
  /\ Send(sweep.action, zslba(sweep.zid), sweep.option)
  /\ sweep' = IF sweep.zid + 1 = nr_zones THEN NoSweep
              ELSE [sweep EXCEPT !.zid = @ + 1]
  /\ UNCHANGED <<pending, cmd, halted>>

(* A worker finds the programming of a wordline done.                      *)
ReleaseBuffer(b, s) ==
  /\ ~halted /\ pending[b][s] > 0
  /\ pending' = [pending EXCEPT ![b][s] = @ - 1]
  /\ remaining' = [remaining EXCEPT ![b] = @ + s]
  /\ UNCHANGED <<zoneVars, cmd, sweep, halted>>

Next ==
  \/ \E q \in Queues : Write(q) \/ Retry(q) \/ Manage(q) \/ ManageAll(q)
  \/ NextZone
  \/ \E b \in Buffers, s \in Sizes : ReleaseBuffer(b, s)

Spec == Init /\ [][Next]_vars

-----------------------------------------------------------------------------

TypeOK ==
  /\ state \in [Zones -> States]
  /\ wp \in [Zones -> Nat]
  /\ zrwav \in [Zones -> BOOLEAN]
  /\ acquired \in [{"ACTIVE_ZONE", "OPEN_ZONE", "ZRWA_ZONE"} -> 0 .. nr_zones]
  /\ remaining \in [Buffers -> Nat]
  /\ pending \in [Buffers -> [Sizes -> 0 .. MaxPending]]
  /\ cmd \in [Queues -> Command \cup {NoCmd}]
  /\ halted \in BOOLEAN

In(S)  == Cardinality({z \in Zones : state[z] \in S})

(* However a zone came to its state (implicit or explicit opening, filling *)
(* up, close, finish, reset, flush), the open and active counts are the    *)
(* numbers of zones in these states; a zone with a live random write area  *)
(* holds one of the ZRWA resources, of which filling zones by writing      *)
(* leaks some.                                                             *)
ResourcesMatchStates ==
  /\ acquired["OPEN_ZONE"] = In(Opened)
  /\ acquired["ACTIVE_ZONE"] = In(Active)
  /\ acquired["ZRWA_ZONE"] >= Cardinality({z \in Zones : state[z] \in Active /\ zrwav[z]})

(* The write pointer never leaves its zone; a zone that can be written has *)
(* room, and an empty one starts at its start without a random write area. *)
WritePointerFits ==
  \A z \in Zones :
    /\ wp[z] \in zslba(z) .. EndOf(z)
    /\ state[z] \in Active => wp[z] < EndOf(z)
    /\ state[z] = "EMPTY" => wp[z] = zslba(z) /\ ~zrwav[z]

(* Pages of a write buffer that wait for the rest of their wordline.       *)
PartlyFilled(b) ==
  UNION {{z} \X (wp[z] - ((wp[z] - zslba(z)) % pgs_per_oneshotpg) .. wp[z] - 1) :
           z \in {y \in Zones : WriteBufferOf(y) = b /\ ~zrwav[y] /\ wp[y] < EndOf(y)}}

ToCome(b) == pgs_per_oneshotpg * pending[b][pgs_per_oneshotpg]
             + IF unaligned_space = 0 THEN 0 ELSE unaligned_space * pending[b][unaligned_space]

(* No write buffer gains space it does not have: what it may still be      *)
(* given back never adds up to more than was taken, wherever zones end.    *)
NoSpaceMadeUp ==
  \A z \in Zones :
    LET b == WriteBufferOf(z) IN
    remaining[b] + ToCome(b) + Cardinality(PartlyFilled(b)) <= SizeOf(b)

=============================================================================
