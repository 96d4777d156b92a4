------------------------------- MODULE ConvFtl -------------------------------
(***************************************************************************)
(* One partition of the conventional FTL (conv_ftl.c): the mapping and     *)
(* reverse-mapping tables, the page states of the NAND, the lines with     *)
(* their counters and lists, the three write pointers, the write credits   *)
(* and the garbage collector that runs inside conv_write.                  *)
(*                                                                         *)
(* The dispatcher thread alone executes this code, so a step of the model  *)
(* is one iteration of a loop of the handler: the write of one logical     *)
(* page, the choice of a victim, the visit of one page of the victim.      *)
(* Clocks, page_meta and the score of a line are abstracted: a page is hot *)
(* or cold, and a scored victim is any line of the queue.                  *)
(***************************************************************************)
EXTENDS Integers, Sequences, FiniteSets

CONSTANTS
  Lines,                (* line_mgmt.lines; a line id is also its block number *)
  Lpns,                 (* the logical pages the host may write             *)
  nchs,                 (* channels of the partition                        *)
  luns_per_ch,
  pgs_per_oneshotpg,    (* pages of a wordline, programmed by one NAND_WRITE *)
  pgs_per_flashpg,      (* pages of a flash page, read by one NAND_READ      *)
  pgs_per_blk,
  gc_thres_lines_high,  (* foreground GC runs when no more lines are free    *)
  GREEDY,               (* gc_mode = GC_MODE_GREEDY; the others use a score  *)
  NULL,                 (* no line: get_next_free_line found the list empty  *)
  UNMAPPED_PPA,
  INVALID_LPN

USER_IO    == "USER_IO"
GC_IO_HOT  == "GC_IO_HOT"
GC_IO_COLD == "GC_IO_COLD"
IoTypes    == {USER_IO, GC_IO_HOT, GC_IO_COLD}

flashpgs_per_blk == pgs_per_blk \div pgs_per_flashpg
pgs_per_line     == nchs * luns_per_ch * pgs_per_blk

(* A struct ppa; the plane is always 0, so it is left out.                 *)
Ppa == [blk : Lines, ch : 0 .. nchs - 1, lun : 0 .. luns_per_ch - 1,
        pg : 0 .. pgs_per_blk - 1]

ASSUME GeometryAssumption ==
  /\ {nchs, luns_per_ch, pgs_per_oneshotpg, pgs_per_flashpg, pgs_per_blk}
       \subseteq Nat \ {0}
  /\ pgs_per_oneshotpg % pgs_per_flashpg = 0
  /\ pgs_per_blk % pgs_per_oneshotpg = 0
ASSUME LinesAssumption ==
  /\ IsFiniteSet(Lines)
  /\ Cardinality(Lines) >= 3       \* conv_init_ftl opens three lines
  /\ gc_thres_lines_high \in Nat
  /\ GREEDY \in BOOLEAN
ASSUME NullAssumption ==
  NULL \notin Lines /\ UNMAPPED_PPA \notin Ppa /\ INVALID_LPN \notin Lpns

VARIABLES
  maptbl,             (* lpn -> ppa                                         *)
  rmap,               (* ppa -> lpn                                         *)
  status,             (* nand_page.status                                   *)
  vpc, ipc,           (* valid and invalid pages of each line               *)
  free_line_list,     (* FIFO: taken at the head, returned at the tail      *)
  full_line_list,     (* only membership matters: nobody walks it           *)
  victim_line_pq,     (* lines with pos # 0; module PQueue has the heap     *)
  free_line_cnt,
  wp,                 (* the write pointer of each io type                  *)
  write_credits,
  credits_to_refill,
  pc,                 (* where conv_write is: see PcType                    *)
  victim,             (* the line do_gc collects                            *)
  scan                (* the page of the victim do_gc visits next           *)

mapVars  == <<maptbl, rmap, status>>
lineVars == <<vpc, ipc, free_line_list, full_line_list, victim_line_pq,
              free_line_cnt>>
gcVars   == <<victim, scan>>
vars     == <<mapVars, lineVars, wp, write_credits, credits_to_refill, pc,
              gcVars>>

(* "write"  : the next logical page of a write may come                    *)
(* "credit" : in check_and_refill_write_credit with no credit left         *)
(* "gc"     : in do_gc, after the victim is chosen                         *)
(* "free"   : in do_gc, every page visited, before mark_line_free          *)
(* "oops"   : a NULL line was dereferenced                                 *)
PcType == {"write", "credit", "gc", "free", "oops"}

OpenLines == {wp[t].blk : t \in IoTypes}

(***************************************************************************)
(* Write pointers                                                          *)
(***************************************************************************)

(* prepare_write_pointer, and the end of advance_write_pointer: the first  *)
(* page of a line just taken from the free list.                           *)
FirstPage(l) == [blk |-> l, ch |-> 0, lun |-> 0, pg |-> 0]

(* Is w the last page of its line in write order?                          *)
LastOfLine(w) ==
  /\ w.pg = pgs_per_blk - 1
  /\ w.ch = nchs - 1
  /\ w.lun = luns_per_ch - 1

(* Variant of NextPage: the channel is not reset when the LUN advances.    *)
NextPageKeepsChannel(w) ==
  LET p == w.pg + 1 IN
  IF p % pgs_per_oneshotpg # 0 THEN [w EXCEPT !.pg = p]
  ELSE IF w.ch + 1 # nchs
    THEN [w EXCEPT !.pg = p - pgs_per_oneshotpg, !.ch = @ + 1]
  ELSE IF w.lun + 1 # luns_per_ch
    THEN [w EXCEPT !.pg = p - pgs_per_oneshotpg, !.lun = @ + 1]
  ELSE [w EXCEPT !.pg = p, !.ch = 0, !.lun = 0]

(* The walk of advance_write_pointer inside a line: the pages of a         *)
(* wordline, then the next channel, the next LUN, the next wordline.       *)
NextPage(w) ==
  LET p == w.pg + 1 IN
  IF p % pgs_per_oneshotpg # 0 THEN [w EXCEPT !.pg = p]
  ELSE IF w.ch + 1 # nchs
    THEN [w EXCEPT !.pg = p - pgs_per_oneshotpg, !.ch = @ + 1]
  ELSE IF w.lun + 1 # luns_per_ch
    THEN [w EXCEPT !.pg = p - pgs_per_oneshotpg, !.ch = 0, !.lun = @ + 1]
  ELSE [w EXCEPT !.pg = p, !.ch = 0, !.lun = 0]

(* get_next_free_line: the head of the list, or NULL.                      *)
NextFreeLine == IF free_line_list = <<>> THEN NULL ELSE Head(free_line_list)

(* advance_write_pointer(t), when line l holds vp valid pages. At the end  *)
(* of the line it goes to the full list or to the victim queue and a free  *)
(* line is opened; the full and victim sets are those before the step.     *)
AdvanceWritePointer(t, vp, full, victims) ==
  LET w == wp[t] IN
  IF ~LastOfLine(w)
  THEN /\ wp' = [wp EXCEPT ![t] = NextPage(w)]
       /\ full_line_list' = full
       /\ victim_line_pq' = victims
       /\ UNCHANGED <<free_line_list, free_line_cnt>>
  ELSE /\ IF vp = pgs_per_line
          THEN full_line_list' = full \cup {w.blk} /\ victim_line_pq' = victims
          ELSE full_line_list' = full /\ victim_line_pq' = victims \cup {w.blk}
       /\ wp' = [wp EXCEPT ![t] = FirstPage(NextFreeLine)]
       /\ IF free_line_list = <<>>
          THEN UNCHANGED <<free_line_list, free_line_cnt>>
          ELSE /\ free_line_list' = Tail(free_line_list)
               /\ free_line_cnt' = free_line_cnt - 1

(* The NULL line get_next_free_line returned is dereferenced at once.      *)
RunsDry(t) == LastOfLine(wp[t]) /\ free_line_list = <<>>

(***************************************************************************)
(* conv_write, one logical page                                            *)
(***************************************************************************)

(* The write of lpn when it was not mapped: no page to invalidate.         *)
WriteNew(lpn) ==
  LET new == wp[USER_IO] IN
  /\ pc = "write"
  /\ maptbl[lpn] = UNMAPPED_PPA
  /\ maptbl' = [maptbl EXCEPT ![lpn] = new]
  /\ rmap' = [rmap EXCEPT ![new] = lpn]
  /\ status' = [status EXCEPT ![new] = "VALID"]
  /\ vpc' = [vpc EXCEPT ![new.blk] = @ + 1]
  /\ ipc' = ipc
  /\ AdvanceWritePointer(USER_IO, vpc'[new.blk], full_line_list, victim_line_pq)
  /\ write_credits' = write_credits - 1
  /\ pc' = IF RunsDry(USER_IO) THEN "oops"
           ELSE IF write_credits' <= 0 THEN "credit" ELSE "write"
  /\ UNCHANGED <<credits_to_refill, gcVars>>

(* Variant of WasFull: read after vpc was decremented.                     *)
WasFullLate(l) == vpc[l] = pgs_per_line + 1

(* Variant of FullAfterInvalid: the line is queued and not unlisted.       *)
FullKept(l) == full_line_list

(* mark_page_invalid on a page of line l: a full line leaves the full list *)
(* for the victim queue.                                                   *)
WasFull(l) == vpc[l] = pgs_per_line
FullAfterInvalid(l) ==
  IF WasFull(l) THEN full_line_list \ {l} ELSE full_line_list
VictimsAfterInvalid(l) ==
  IF WasFull(l) THEN victim_line_pq \cup {l} ELSE victim_line_pq

(* The write of a mapped lpn: mark_page_invalid on the old page, then the  *)
(* same steps as above.                                                    *)
Overwrite(lpn) ==
  LET old == maptbl[lpn]
      new == wp[USER_IO]
  IN
  /\ pc = "write"
  /\ old # UNMAPPED_PPA
  /\ maptbl' = [maptbl EXCEPT ![lpn] = new]
  /\ rmap' = [rmap EXCEPT ![old] = INVALID_LPN, ![new] = lpn]
  /\ status' = [status EXCEPT ![old] = "INVALID", ![new] = "VALID"]
  /\ vpc' = [[vpc EXCEPT ![old.blk] = @ - 1] EXCEPT ![new.blk] = @ + 1]
  /\ ipc' = [ipc EXCEPT ![old.blk] = @ + 1]
  /\ AdvanceWritePointer(USER_IO, vpc'[new.blk],
                         FullAfterInvalid(old.blk), VictimsAfterInvalid(old.blk))
  /\ write_credits' = write_credits - 1
  /\ pc' = IF RunsDry(USER_IO) THEN "oops"
           ELSE IF write_credits' <= 0 THEN "credit" ELSE "write"
  /\ UNCHANGED <<credits_to_refill, gcVars>>

(***************************************************************************)
(* check_and_refill_write_credit and foreground_gc                         *)
(***************************************************************************)

(* Variant of should_gc_high: one line too late.                           *)
should_gc_high_late == free_line_cnt < gc_thres_lines_high

should_gc_high == free_line_cnt <= gc_thres_lines_high

(* Variant of Refilled: no credit when the GC refills none.                *)
RefilledNoFloor(r) == write_credits + r

(* What the refill leaves when the last do_gc left r credits to refill;    *)
(* with none, one credit is granted so that writing never stops.           *)
Refilled(r) == IF r > 0 THEN write_credits + r ELSE 1

(* foreground_gc returns at once: enough lines are free.                   *)
SkipGc ==
  /\ pc = "credit"
  /\ ~should_gc_high
  /\ write_credits' = Refilled(credits_to_refill)
  /\ pc' = "write"
  /\ UNCHANGED <<mapVars, lineVars, wp, credits_to_refill, gcVars>>

(* do_gc finds no victim.                                                  *)
NoVictim ==
  /\ pc = "credit"
  /\ should_gc_high
  /\ victim_line_pq = {}
  /\ credits_to_refill' = 0
  /\ write_credits' = Refilled(0)
  /\ pc' = "write"
  /\ UNCHANGED <<mapVars, lineVars, wp, gcVars>>

(* Variant of SelectVictim: the line is not taken out of the queue.        *)
SelectVictimKeeps(l) ==
  /\ pc = "credit"
  /\ should_gc_high
  /\ l \in victim_line_pq
  /\ GREEDY => \A m \in victim_line_pq : vpc[l] <= vpc[m]
  /\ victim' = l
  /\ scan' = FirstPage(l)
  /\ credits_to_refill' = ipc[l]
  /\ pc' = "gc"
  /\ UNCHANGED <<mapVars, lineVars, wp, write_credits>>

(* select_victim_greedy (force is always true) pops a line of least vpc;   *)
(* select_victim_scored removes the line of best score, which depends on   *)
(* ages and erase counts, so here any line of the queue.                   *)
SelectVictim(l) ==
  /\ pc = "credit"
  /\ should_gc_high
  /\ l \in victim_line_pq
  /\ GREEDY => \A m \in victim_line_pq : vpc[l] <= vpc[m]
  /\ victim_line_pq' = victim_line_pq \ {l}
  /\ victim' = l
  /\ scan' = FirstPage(l)
  /\ credits_to_refill' = ipc[l]
  /\ pc' = "gc"
  /\ UNCHANGED <<mapVars, vpc, ipc, free_line_list, full_line_list,
                 free_line_cnt, wp, write_credits>>

(***************************************************************************)
(* do_gc: one page of the victim                                           *)
(***************************************************************************)

FlashPgOf(p) == p.pg \div pgs_per_flashpg

(* s is the last page of a flash page: clean_one_flashpg returns after it. *)
EndOfFlashPg(s) == (s.pg + 1) % pgs_per_flashpg = 0

(* Variant of EndOfBlock: the block is erased after any flash page.        *)
EndOfBlockEarly(s) == EndOfFlashPg(s)

(* s is the last page of the last flash page of a block: after it do_gc    *)
(* calls mark_block_free.                                                  *)
EndOfBlock(s) == s.pg = pgs_per_blk - 1

LastOfScan(s) ==
  EndOfBlock(s) /\ s.lun = luns_per_ch - 1 /\ s.ch = nchs - 1

(* The loops of do_gc: the pages of a flash page, then the next LUN, the   *)
(* next channel, the next flash page.                                      *)
NextScan(s) ==
  LET p == s.pg + 1 IN
  IF ~EndOfFlashPg(s) THEN [s EXCEPT !.pg = p]
  ELSE IF s.lun + 1 # luns_per_ch
    THEN [s EXCEPT !.pg = p - pgs_per_flashpg, !.lun = @ + 1]
  ELSE IF s.ch + 1 # nchs
    THEN [s EXCEPT !.pg = p - pgs_per_flashpg, !.lun = 0, !.ch = @ + 1]
  ELSE [s EXCEPT !.pg = p, !.lun = 0, !.ch = 0]

SameBlock(p, q) == p.blk = q.blk /\ p.ch = q.ch /\ p.lun = q.lun

(* Variant of Erased: the pages of the block keep their state.             *)
ErasedNot(st, s) == st

(* mark_block_free, if the visit of s ends its block.                      *)
Erased(st, s) ==
  IF EndOfBlock(s)
  THEN [p \in Ppa |-> IF SameBlock(p, s) THEN "FREE" ELSE st[p]]
  ELSE st

(* A page that is not valid is passed over.                                *)
GcSkipPage ==
  /\ pc = "gc"
  /\ status[scan] # "VALID"
  /\ status' = Erased(status, scan)
  /\ scan' = IF LastOfScan(scan) THEN scan ELSE NextScan(scan)
  /\ pc' = IF LastOfScan(scan) THEN "free" ELSE "gc"
  /\ UNCHANGED <<maptbl, rmap, lineVars, wp, write_credits, credits_to_refill,
                 victim>>

(* gc_write_page: the page is written again through write pointer t, which *)
(* page_is_hot decides from times and update counts. The old page keeps    *)
(* its state and its reverse mapping until its block is erased.            *)
GcCopyPage(t) ==
  LET new == wp[t]
      lpn == rmap[scan]
  IN
  /\ pc = "gc"
  /\ status[scan] = "VALID"
  /\ maptbl' = [maptbl EXCEPT ![lpn] = new]
  /\ rmap' = [rmap EXCEPT ![new] = lpn]
  /\ status' = Erased([status EXCEPT ![new] = "VALID"], scan)
  /\ vpc' = [vpc EXCEPT ![new.blk] = @ + 1]
  /\ ipc' = ipc
  /\ AdvanceWritePointer(t, vpc'[new.blk], full_line_list, victim_line_pq)
  /\ scan' = IF LastOfScan(scan) THEN scan ELSE NextScan(scan)
  /\ pc' = IF RunsDry(t) THEN "oops"
           ELSE IF LastOfScan(scan) THEN "free" ELSE "gc"
  /\ UNCHANGED <<write_credits, credits_to_refill, victim>>

(* Variant of Cleared: the counters of the victim stay.                    *)
ClearedNot(f) == f

(* mark_line_free resets the counters of the victim.                       *)
Cleared(f) == [f EXCEPT ![victim] = 0]

(* mark_line_free, and the refill when foreground_gc has returned.         *)
GcFreeLine ==
  /\ pc = "free"
  /\ vpc' = Cleared(vpc)
  /\ ipc' = Cleared(ipc)
  /\ free_line_list' = Append(free_line_list, victim)
  /\ free_line_cnt' = free_line_cnt + 1
  /\ write_credits' = Refilled(credits_to_refill)
  /\ victim' = NULL
  /\ scan' = NULL
  /\ pc' = "write"
  /\ UNCHANGED <<mapVars, full_line_list, victim_line_pq, wp,
                 credits_to_refill>>

-----------------------------------------------------------------------------

(* conv_init_ftl. init_lines lists the lines by id; an id is only a label, *)
(* so any order of the list stands for it. Three lines are then opened.    *)
Init ==
  /\ maptbl = [l \in Lpns |-> UNMAPPED_PPA]
  /\ rmap = [p \in Ppa |-> INVALID_LPN]
  /\ status = [p \in Ppa |-> "FREE"]
  /\ vpc = [l \in Lines |-> 0]
  /\ ipc = [l \in Lines |-> 0]
  /\ \E order \in {s \in [1 .. Cardinality(Lines) -> Lines] :
                     \A i, j \in DOMAIN s : s[i] = s[j] => i = j} :
       /\ wp = [t \in IoTypes |->
                  FirstPage(order[CASE t = USER_IO -> 1
                                    [] t = GC_IO_HOT -> 2
                                    [] t = GC_IO_COLD -> 3])]
       /\ free_line_list = SubSeq(order, 4, Cardinality(Lines))
  /\ full_line_list = {}
  /\ victim_line_pq = {}
  /\ free_line_cnt = Cardinality(Lines) - 3
  /\ write_credits = pgs_per_line
  /\ credits_to_refill = pgs_per_line
  /\ pc = "write"
  /\ victim = NULL
  /\ scan = NULL

Write == \E lpn \in Lpns : WriteNew(lpn) \/ Overwrite(lpn)

GcStep ==
  \/ GcSkipPage
  \/ \E t \in {GC_IO_HOT, GC_IO_COLD} : GcCopyPage(t)
  \/ GcFreeLine

ForegroundGc == SkipGc \/ NoVictim \/ (\E l \in Lines : SelectVictim(l)) \/ GcStep

Next == Write \/ ForegroundGc

(* The host may stop writing; a command once begun runs to its end, as the *)
(* dispatcher executes it to the return of conv_write.                     *)
Spec == Init /\ [][Next]_vars /\ WF_vars(ForegroundGc)

-----------------------------------------------------------------------------
(***************************************************************************)
(* Properties                                                              *)
(***************************************************************************)

(* p comes before q in the order advance_write_pointer walks a line.       *)
Before(p, q) ==
  LET wl(x) == x.pg \div pgs_per_oneshotpg IN
  \/ wl(p) < wl(q)
  \/ wl(p) = wl(q) /\ p.lun < q.lun
  \/ wl(p) = wl(q) /\ p.lun = q.lun /\ p.ch < q.ch
  \/ wl(p) = wl(q) /\ p.lun = q.lun /\ p.ch = q.ch /\ p.pg < q.pg

(* The GC has passed page p of its victim.                                 *)
Visited(p) ==
  /\ p.blk = victim
  /\ \/ pc = "free"
     \/ FlashPgOf(p) < FlashPgOf(scan)
     \/ FlashPgOf(p) = FlashPgOf(scan) /\ p.ch < scan.ch
     \/ FlashPgOf(p) = FlashPgOf(scan) /\ p.ch = scan.ch /\ p.lun < scan.lun
     \/ /\ FlashPgOf(p) = FlashPgOf(scan)
        /\ p.ch = scan.ch /\ p.lun = scan.lun /\ p.pg < scan.pg

PagesOf(l) == {p \in Ppa : p.blk = l}
FreeLines  == {free_line_list[i] : i \in DOMAIN free_line_list}

(* Every variable holds a value of its type. Only the dereference of a     *)
(* NULL line leaves a write pointer without a line.                        *)
TypeOK ==
  /\ maptbl \in [Lpns -> Ppa \cup {UNMAPPED_PPA}]
  /\ rmap \in [Ppa -> Lpns \cup {INVALID_LPN}]
  /\ status \in [Ppa -> {"FREE", "VALID", "INVALID"}]
  /\ vpc \in [Lines -> Int]
  /\ ipc \in [Lines -> Nat]
  /\ free_line_list \in Seq(Lines)
  /\ full_line_list \subseteq Lines
  /\ victim_line_pq \subseteq Lines
  /\ free_line_cnt \in Int
  /\ wp \in [IoTypes -> Ppa \cup {FirstPage(NULL)}]
  /\ pc # "oops" => wp \in [IoTypes -> Ppa]
  /\ write_credits \in Nat
  /\ pc = "write" => write_credits > 0
  /\ credits_to_refill \in Nat
  /\ pc \in PcType
  /\ pc \in {"gc", "free"} => victim \in Lines /\ scan \in Ppa

(* What a read relies on: the page a logical page maps to is valid and     *)
(* maps back to it, also while the GC moves pages and erases blocks.       *)
MappingConsistent ==
  \A lpn \in Lpns : maptbl[lpn] # UNMAPPED_PPA =>
    status[maptbl[lpn]] = "VALID" /\ rmap[maptbl[lpn]] = lpn

(* No page stays valid that nothing maps to: it would be copied by every   *)
(* later GC and never be reclaimed. The GC leaves the pages it has copied  *)
(* valid until their block is erased, and only those.                      *)
NoOrphanPage ==
  \A p \in Ppa : status[p] = "VALID" /\ pc # "oops" =>
    \/ rmap[p] \in Lpns /\ maptbl[rmap[p]] = p
    \/ Visited(p)

(* vpc and ipc, from which the victim, the score, the refill and the       *)
(* list of a line are decided, count the pages of the line. Those of the   *)
(* victim are stale from its first erased block to mark_line_free.         *)
LineCountersExact ==
  \A l \in Lines \ {victim} :
    /\ vpc[l] = Cardinality({p \in PagesOf(l) : status[p] = "VALID"})
    /\ ipc[l] = Cardinality({p \in PagesOf(l) : status[p] = "INVALID"})

(* Every line is in exactly one place: open under one write pointer, free, *)
(* full, queued as a victim, or being collected; and free_line_cnt, which  *)
(* triggers the GC, is the length of the free list.                        *)
EachLineInOnePlace ==
  LET places == <<FreeLines, full_line_list, victim_line_pq, OpenLines,
                  IF pc \in {"gc", "free"} THEN {victim} ELSE {}>>
  IN
  pc # "oops" =>
    /\ \A l \in Lines : \E i \in DOMAIN places : l \in places[i]
    /\ \A i, j \in DOMAIN places : i # j => places[i] \cap places[j] = {}
    /\ \A t, u \in IoTypes : wp[t].blk = wp[u].blk => t = u
    /\ free_line_cnt = Len(free_line_list)
    /\ Cardinality(FreeLines) = Len(free_line_list)

(* A line of the victim queue has an invalid page, so that collecting it   *)
(* gains space and refills credits; a full line has none; the assertions   *)
(* at the end of advance_write_pointer.                                    *)
QueuedLinesGainSpace ==
  /\ \A l \in victim_line_pq : ipc[l] > 0 /\ vpc[l] + ipc[l] = pgs_per_line
  /\ \A l \in full_line_list : ipc[l] = 0 /\ vpc[l] = pgs_per_line

(* NAND pages are programmed once between erases and in order: those of an *)
(* open line are free from its write pointer on and no other, those of a   *)
(* free line are all free (the assertion of mark_page_valid), and the GC   *)
(* finds no free page ahead of it (the assertion of clean_one_flashpg).    *)
ProgrammedInOrder ==
  pc # "oops" =>
    /\ \A t \in IoTypes : \A p \in PagesOf(wp[t].blk) :
         status[p] = "FREE" <=> ~Before(p, wp[t])
    /\ \A l \in FreeLines : \A p \in PagesOf(l) : status[p] = "FREE"
    /\ pc = "gc" => \A p \in PagesOf(victim) :
                      ~Visited(p) => status[p] # "FREE"

(* get_next_free_line never comes back empty-handed: with the thresholds   *)
(* of the configuration the GC starts early enough to leave room for its   *)
(* own two write pointers.                                                 *)
NeverRunsDry == pc # "oops"

(* A GC step changes the mapping of no logical page but the one whose page *)
(* it visits, and moves it off the victim to a page that was free.         *)
GcMovesOnlyTheVisitedPage ==
  [][pc # "write" => \A lpn \in Lpns : maptbl'[lpn] # maptbl[lpn] =>
       /\ maptbl[lpn] = scan
       /\ maptbl'[lpn].blk # victim
       /\ status[maptbl'[lpn]] = "FREE"]_vars

(* Writing never blocks for want of credits: whatever the GC finds, the    *)
(* write that used the last credit gets new ones.                          *)
CreditsComeBack == write_credits = 0 ~> write_credits > 0

=============================================================================
