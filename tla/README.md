# A formal model of wild_cat

wild_cat is a virtual NVMe device in a Linux kernel module (NVMeVirt), with a
conventional SSD whose garbage collector can choose its victims greedily, by
score, or with a small learning agent. The specifications here follow the C code
under `src/`. They are written in TLA+, checked on small instances with TLC and,
where stated, proved for every value of the constants with TLAPS.

## 1. The system

```
 host driver ── doorbells, SQ/CQ memory ──> dispatcher thread (main.c, pci.c)
                                              │ nvmev_proc_io_sq (io.c)
                                              ▼
                                   namespace proc_io_cmd
                      conv_ftl.c │ zns_*.c │ kv_ftl.c │ simple_ftl.c
                                              │ (timing: ssd.c, channel_model.c)
                                              ▼
                          work queue of one I/O worker (io.c)
                                              │
                          I/O worker threads: copy data, wait for the target
                          time, post the completion or release buffer space,
                          raise the interrupt
```

The *dispatcher* is one kernel thread. It polls the registers and doorbells, and
for every new command it calls the FTL of the namespace, which computes when the
command is done, and puts a request in the work queue of one *I/O worker*. The
workers are kernel threads too; each walks its own queue for ever. The write
buffer and the work queues are shared between dispatcher and workers; everything
of an FTL is touched by the dispatcher alone.

| component | source | state | operations | model |
|---|---|---|---|---|
| conventional FTL | `conv_ftl.c` | `maptbl`, `rmap`, page states, lines with `vpc`/`ipc`, free/full lists, three write pointers, write credits | `conv_write`, `mark_page_*`, `advance_write_pointer`, `foreground_gc`, `do_gc` | `ConvFtl`; proofs in `ConvFtlProofs` |
| victim queue | `pqueue/pqueue.c` | heap array, `line.pos` | insert, change priority, remove, pop | `PQueue`, `VictimQueue`; proofs in `VictimProofs` |
| work queue, I/O worker | `io.c` | entries, free list, in-flight list, `latest_nsecs` | allocate, fill, insert sorted, reclaim; look, copy, complete | `IoWorkQueue`; proofs in `IoWorkQueueProofs` |
| write buffer | `ssd.c`, `conv_ftl.c` | `remaining`, space held by half-filled and by programming wordlines | `buffer_allocate`, `buffer_release` | `WriteBuffer`; proofs in `WriteBufferProofs` |
| submission/completion queues, doorbells, interrupts | `io.c`, `main.c`, `pci.c` | heads, tails, phase, `interrupt_ready` | doorbell loops, `__fill_cq_result`, interrupt poll of the worker | `IoQueues`; proofs in `ControllerProofs` |
| admin commands, controller registers | `admin.c`, `pci.c` | queue tables, BAR, admin rings | create/delete queue, enable, reset, shut down | `Controller` (around `IoQueues`); proofs in `ControllerProofs` |
| victim scores, learning agent | `conv_ftl.c`, `conv_ftl.h` | `gc_mode`, Q table, state, action, hot-write window, pages to charge | score, discretise, choose, update | `LearningAgent`; proofs in `VictimProofs` |
| ZNS FTL | `zns_*.c` | zone states, write pointers, open/active/ZRWA resources, buffers | zone write, append, ZRWA write, management send | `ZnsFtl`; proofs in `ZnsFtlProofs` |
| key-value FTL, append-only allocator | `kv_ftl.c`, `append_only.c` | hash table with chains, allocation cursor, iterators | store, delete, batch, iterate | `KvTable`; proofs in `KvTableProofs` |
| NAND timing, channel model | `ssd.c`, `channel_model.c` | next-idle times, credit table | `ssd_advance_nand`, `chmodel_request` | not modelled, see 5 |
| simple FTL | `simple_ftl.c` | unit times | read, write, flush | not modelled, see 5 |
| bitmap allocator | `bitmap.c` | free bitmap | allocate, free | not modelled, see 5 |
| DMA wrapper, module parameters, procfs, headers, scripts | `dma.c`, `main.c`, `*.h` | – | – | not modelled, see 5 |

### What is hard in it

* The garbage collector runs in the middle of a host write, with its own two
  write pointers on the same free list. A copied page stays VALID, and
  reverse-mapped, until its *block* is erased, blocks of the victim are erased one
  after the other, and the counters of the victim are stale until
  `mark_line_free`.
* Whether the free list can run out depends on how the threshold, the
  over-provisioning and the fragmentation of lines play together; when it does,
  `get_next_free_line` returns NULL and the next statement dereferences it.
* A worker walks the in-flight list without a lock while the dispatcher inserts
  into it, cuts a prefix off it and refills the entries.
* Credits, buffer space and ring indices are unsigned counters at their limits.
* The submission queues are served in turn and compete for the space that the workers release; a
  command that is refused keeps its place and nothing else.
* Several workers post to one completion queue and only one of them polls it for the
  interrupt, under another lock; the queue may be deleted under its feet.
* The dispatcher compares the registers one after the other while the host writes
  them, reads `cc` three times, with stores the host reacts to in between, and what a reset rewinds is not what a
  shutdown rewinds.
* A zone changes state by writing to it, by filling up, by zone
  management and by flushing its random write area; every path must keep the resource
  counts. A zone append is tried again with the address it was given the first time.
* The chains of the key table run through slots that deletes free and inserts
  fill again for other keys; iterators walk the slots meanwhile.
* The agent divides negative numbers and multiplies numbers that may wrap. `gc_mode` is switched at run time,
  while what the agent compares with is brought up to date by collections of its own only.

`PROJECT.json` lists these hazards at their lines, with the properties about them.

## 2. Modules

### ConvFtl – mapping, lines and garbage collection of one partition

One step is one iteration of a loop of the code: the write of one logical page
(`WriteNew`, `Overwrite`, the body of the loop of `conv_write` up to and
including `consume_write_credit`), the decision of `foreground_gc` (`SkipGc`,
`NoVictim`, `SelectVictim`), the visit of one page of the victim (`GcSkipPage`,
`GcCopyPage`, with `mark_block_free` when the page is the last of its block), and
`mark_line_free` with the refill (`GcFreeLine`). The steps run in the order of the code (`pc`),
since only the dispatcher executes them.

| TLA+ | C |
|---|---|
| `maptbl`, `rmap`, `status` | the fields of these names |
| `vpc`, `ipc` | `line->vpc`, `line->ipc` |
| `free_line_list`, `full_line_list`, `victim_line_pq` | the two lists and the set of lines with `pos != 0` |
| `wp[USER_IO/GC_IO_HOT/GC_IO_COLD]` | `conv_ftl->wp`, `gc_wp_hot`, `gc_wp_cold` |
| `write_credits`, `credits_to_refill` | `wfc` |
| `victim`, `scan` | `victim_line` and the loop variables of `do_gc` |
| `pc = "oops"` | the dereference of a NULL line |

Abstracted: which of the hot and cold write pointers takes a collected page
(page ages and update counts decide; here either), and which line a *scored*
policy takes (any line of the queue). The greedy policy takes a line of least
`vpc`. Reads and flushes change no state modelled here.

### VictimQueue, PQueue – the heap of victim lines

`PQueue` is the array heap with the callbacks of the FTL: position and
priority live in the line. `VictimQueue` says what the FTL relies on: a set of
lines with priorities, from which `Pop` takes one of least priority.
`PQueue` implements it (`ImplementsVictimQueue`).

| TLA+ | C |
|---|---|
| `d`, `pos`, `pri` | `q->d[1..size-1]`, `line->pos`, `line->vpc` |
| `Hole(q, i)` | `q` and `i` within a loop, the line of slot `i` being in `moving_node` |
| `Climb`, `Sink` | one turn of the loops of `bubble_up` and `percolate_down` |
| `BubbleUp`, `PercolateDown` | the whole functions: the turns, then `d[i] = moving_node` |
| `BecomesWithout` | the caller's `victim_line->pos = 0` |

The loops are recursive functions from the number of turns to the hole; a loop that has ended repeats its last hole. Its
specification is called `PQSpec`, because `VictimProofs` speaks of this module and of `LearningAgent`.

### IoWorkQueue – dispatcher and worker on one work queue

The array of entries with its links; the dispatcher allocates an entry, fills it
in three steps (`FillRequest`, `FillLinks`, `FillKind`, the order of the stores in
`__enqueue_io_req` and `schedule_internal_operation`), inserts it and reclaims the
completed prefix; the worker looks at the entry it stands on, moves the data,
posts the completion or releases the buffer, sets `is_completed` and follows
`next`, each a step of its own. `posted`, `copied`, `released`, `targets`, `dropped`
and `torn` are history variables: they record what the host and the buffer have
seen, and `torn` that the worker has read an entry between two of the three filling steps. An
insertion reads `latest_nsecs` once, where the loop of `__insert_req_sorted` (`io.c:266`) reads it for each entry it passes; the
worker only ever raises it.

### WriteBuffer – space between conv_write and the workers

The dispatcher goes round the submission queues (`qid`, `NextQueue`, the loop of `nvmev_proc_dbs`): it passes an empty one (`Pass`)
and tries the command at the head of another (`Allocate`, with `buffer_allocate`). A command that does not find the space stays
there, and the next queue has its turn, so that the commands of all queues compete for what the workers release. Each queue holds
one command, as a ring of two entries does. `WritePage` fills the open wordline of the
partition of the page, and the last page of a wordline schedules the
internal operation that gives back a wordline (`Release`, `buffer_release`).

### IoQueues, Controller – rings, interrupts, registers and the admin queue

`IoQueues` has the submission rings, the completion ring they share, the doorbells, and the
steps of host, dispatcher and workers on them. `Controller` adds the registers and the
admin rings, and gives the order in which queues come and go.

| TLA+ | C |
|---|---|
| `sqes`, `cqe_exists`, `dbs`, `old_dbs` | the queue tables, `nvmev_vdev->dbs` and its copy |
| `Fetch` | one turn of the loop of `nvmev_proc_io_sq` for a command the FTL takes |
| `Post` | `__fill_cq_result`, atomic under `entry_lock` |
| `PollQueue`, `PollLook`, `PollClear`, `PollSignal` | the interrupt poll at the end of `nvmev_io_worker`, statement by statement |
| `PollStale` | the same poll with a queue that `DeleteCq` has freed: it reads the freed memory, and may signal or not; or a new completion queue has taken the memory, and it is the announcement of this one that it clears |
| `ScanAqa`, `ScanAsq`, `ScanAcq` | the comparisons of `nvmev_proc_bars`; one change ends the pass |
| `ScanCc`, `ScanShn`, `ScanSeen` | the three reads of `cc`: for the comparison and for `csts.rdy` (`pci.c:231`), for the shutdown and `csts.shst` (`pci.c:245`), and to be remembered as seen (`pci.c:254`) |
| `ProcAdmin`, `Execute` | `nvmev_proc_admin_sq` with the handlers of create and delete |
| `Submit`, `TakeInterrupt`, `Reap`, `WriteAqa` … `SeesOff` | the host driver, external |

Which worker has a request, and when it is due, is open: a fetched request may complete at any time
(that it does is `AcceptedIsCompleted` of `IoWorkQueue`). The code's doorbell of a completion queue
only feeds statistics that nothing reads, so it does not appear. The host is the Linux
driver as far as this device can tell: fewer commands outstanding than entries, one admin command at a
time, a queue deleted when nothing is outstanding in it. `overtaken` is a history
variable: the controller was made ready before it had seen the admin rings of this enable. So is `swallowed`: the
host wrote `cc` between the comparison and `ScanSeen`, which remembers the write as seen although nothing has looked at it.
The stale poll that clears the announcement of a new queue then signals the vector of this queue; that it may have read the
vector of the old one before the store is not modelled.

### ZnsFtl – zones, their resources and their buffers

A write or a management command runs to its end, as on the dispatcher; a write that finds no
buffer space stays in its queue (`cmd`) and is tried again (`Retry`). A management command for all zones takes
a step for each (`sweep`), with releases of the workers in between.

| TLA+ | C |
|---|---|
| `state`, `wp`, `zrwav` | the zone descriptor |
| `acquired` | `acquired_cnt` of the three resources |
| `remaining`, `pending` | space of the write buffer(s) and of each zone's ZRWA buffer, and the internal operations that will release some |
| `WriteSequential`, `WriteZrwa` | `__zns_write`, `__zns_write_zrwa`, with `Moved` for `__increase_write_ptr` and `Programmed` for the wordlines that get scheduled |
| `Close`, `Finish`, `Open`, `Reset`, `FlushExplicit` | `__zmgmt_send_*` |
| `halted` | the `NVMEV_ASSERT(0)`, a `BUG_ON`, of `__zns_write_zrwa` |

Reads and reports change nothing here. No transition enters READ_ONLY, so
`__zmgmt_send_offline_zone` never gets further than its check and OFFLINE is not entered either; both states are left
out. Addresses are pages: the host writes whole pages.

### KvTable – the key table

One step is one command of one I/O worker (`perform_io_cmd`). `Walk` is the walk along
`next_slot` that every lookup makes, `NewEntry` is `new_mapping_entry` with `find_next_slot` and
`chain_mapping`, `Emptied` the `memset` of `delete_mapping_entry`. A value is as many cells of storage as its
length, each with the key it belongs to, so that an overwritten neighbour is seen. `Overwrite`
is the update of `__do_perform_kv_io`, and with `batched` that of the batch. `LengthAfter` is the length the table has
afterwards: the new one only if the update is not batched and neither length is above `SMALL_LENGTH`; in the other cases the code logs an
error, leaves the length and reports success.
`IterRead` reads `iter_keys` keys at a time and stops at the slot that does not fit, as the 1024-byte
buffer of the code does. `stored`, `room` and `damaged` are history: what the host has stored, how much
was allocated for it, and the keys for which the code gives no guarantee any more; `kept` holds the keys whose last update left the length; so are
the fields `due`, `seen` and `ended` of an iterator.

### LearningAgent – victim scores and Q learning

A collection is a call of `do_gc`, which reads `gc_mode` again at each of its branches, as do these actions: `Observe` (under RL: state,
action and victim) or `SelectOther` (the victim under another mode), `Collect` (copied pages and erase counts) and `Learn` (under RL: `rl_get_state` again and
`rl_update`) or `Finish`. `SetMode`, the write of the module parameter, comes between any two of them, and
`HostWrite` for the hot-write window between collections. `copied` is `gc_copied_pages - prev_copied_pages`, what the next update charges for: all pages
copied since the last one, under whatever mode. `charged`, a history variable, is the most that one was charged for.
`foreground_gc` and the first read of `do_gc` are one step: if the mode changes from RL between the two, `select_fn` is NULL, which is not
followed. The statistics of `update_wear_gap`, which only the log reads, are left out. Of the rest of the FTL, the victim queue at each scan is any sequence of
lines with an invalid page; `ConvFtl` has the detail. Scores are whole numbers modulo
`word`, square roots Newton's, divisions those of C (`Trunc`). `Scan` is the one loop that all four searches for a best
line share: first element first, replaced when strictly beaten.
The scored policies CB and CAT are the levels (1, 0) and (1, 2) of the same scan; the greedy mode pops a line of least `vpc`.

Operators with *Variant of* in their comment are plausible wrong versions of the definition
that follows them. They are not used by the specifications; put in place of
the right one, each makes the property named with it in `PROJECT.json` fail.

## 3. What is checked

| run | instance | what it shows |
|---|---|---|
| `ftl_lines` | 3 logical pages, 6 lines of 2 pages, scored victims, threshold 1; lines and pages symmetric | mapping and reverse mapping agree at every step of a collection; no valid page is orphaned; line counters count pages; every line is in exactly one list; queued lines have something to gain; a collection step moves only the page it visits, to a free page off the victim; the free list does not run dry |
| `ftl_walk` | 1 logical page, 6 lines of 2×2 blocks of 4 pages, greedy victims, threshold 3 | pages are programmed in order and once between erases through every turn of the walk over channel, LUN and wordline; the credits never wrap below zero and a writer without credits gets new ones |
| `victim_heap` | 6 lines, priorities 0–2 | positions and heap order; the heap implements the victim queue |
| `work_queue` | 3 entries, 4 operations, clock 0–1 | no entry is lost or shared; refused only when full; a request is completed once, after its data is moved and its target passed; every accepted request is completed (the last three unless an entry was read half-filled) |
| `work_queue_sort` | 4 entries, 3 operations, clock 0–2 | insertion between two others; the list is in order of target except among requests already due |
| `work_queue_torn` | as `work_queue` | finds a request completed twice, see below |
| `write_buffer` | 3 partitions, wordlines of 3 pages of 2 sectors, 2 submission queues, whole pages | allocated and released space balance; while a write waits, one is admitted in the end |
| `write_buffer_sectors` | the same, one queue, any run of up to 4 sectors | finds more space remaining than the buffer has, see below |
| `zns` | 2 zones of 3 pages, wordlines of 2, one write buffer of 3 pages, ZRWA of 2 pages, one queue | open and active counts are those of the zone states; write pointers fit their zones; unsigned counts never wrap; no write buffer gains space, also where a zone ends within a wordline |
| `controller` | 2 submission queues of 2 entries, a completion queue of 3, admin rings of 2 | a command is in exactly one place over every wrap of every ring; a completion is always announced; both sides agree on the admin rings after every reset and shutdown; an enable or disable is answered but for the two races named below; every command is reaped |
| `kv` | 3 keys, two with the same home, 3 slots, 4 units of storage, lengths 1–3 of which the last is not small, 1 iterator | chains end; the last value of a key is found but for the exceptions named below; a deleted key stays away; an iteration is complete |
| `agent` | 2 lines of 2 pages, 2 collections, modes RL, CAT and greedy, scale 10, products wrap at 900 | the victim of a scored mode scores highest unless a product wraps; the Q table stays in the range of the discounted rewards, whatever collections of other modes left to be charged |

### Bounds

* *ftl_lines.* Three logical pages and two-page lines already give full lines,
  lines queued at the end and lines queued by an invalidation, empty victims and
  collections that open a line of their own. Three lines are always open;
  with six lines and a threshold of 1 the collector always finds a line. With a threshold of 0
  the free list runs out. The state space is finite without a further bound.
* *ftl_walk.* Two of everything, so that each of the four wrap-arounds of the write pointer
  and of the scan is taken with both outcomes.
* *victim_heap.* Six lines make a heap of three levels, in which a removed slot
  may have to be repaired upwards in another branch. `MaxPri` bounds priorities; ties and both
  directions of change occur.
* *work_queue.* With three entries the free list runs out and entries come round while the worker stands on
  them. `MaxOps` bounds the operations, `MaxTime` the clock. Four entries for an insertion between two
  others. Deadlock is not checked in these runs because the bounded host
  stops: the worker has nothing left to do when all is done.
* *write_buffer.* The sizes keep the proportions of the SAMSUNG configuration: two
  wordlines for each die, and a largest command of a third of the
  buffer. Two queues of one command each are enough for one to take what the other waits for.
* *zns.* Two zones let one be written, swept or reset while the other fills, and let the
  sweep be interrupted by releases. Three pages to a zone and two to a wordline end it in the middle of a
  wordline, as the zones of the WD_ZN540 configuration do, 2 GB with wordlines of 96 KB. `MaxLength` (2) bounds a write, so that one can fill a
  zone in two steps or fit a ZRWA exactly; `MaxPending` (1) bounds the wordlines of each size a buffer
  waits for. The shipped configurations set the ZRWA sizes to 0; the instance has
  random write areas because the code has them. Deadlock is not checked since after `halted` there is
  no step.
* *controller.* Rings of two and three entries wrap on every second or third command, the completion ring out of step with
  the submission rings. Two submission queues share the completion queue. The admin ring of two wraps within one life of the
  I/O queues, so that a reset finds it at every position and phase. Deadlock is not checked: a host that
  is down may stay down.
* *kv.* The second key of a home is moved to the home of the third, so chains merge; with three slots the
  table fills, and with four units the storage does. Space is never given back, so that `storage_size` bounds the insertions too: four are enough
  to delete the head of a chain, store the key behind it again and fill the slot in between. The constraint `LengthsOrIterators` keeps the lengths at one while an
  iterator is open, since iterators look at keys and slots only. One iterator of one key at a time needs several reads. Deadlock is not
  checked: with full storage, an empty table and no iterator, nothing may be left to do.
* *agent.* `MaxCollections` bounds the collections: two are enough for one under another mode before one under RL. `Modes` has one mode of each kind, `Explored` the random actions (of 20, two, chosen for having different
  square roots in both exponents); the greedy action is any. The wrap at 900 is reached by the larger products of the
  instance. Deadlock is not checked because of `MaxCollections`.

### Fairness

`ConvFtl`: `WF_vars(ForegroundGc)`. The host may stop writing, but the dispatcher executes a
command once begun to the return of `conv_write`.
`IoWorkQueue`: weak fairness of the dispatcher *inside* an operation (`Dispatch`), of the
worker and of the clock: both are kernel threads bound to a processor of
their own that poll and never sleep on each other. No fairness is assumed of the arrival of commands.
`WriteBuffer`: weak fairness of `Dispatch` as a whole and of `Release`, for the same reason: the dispatcher keeps going round the queues. Which
command finds space is left open, and a large one may be passed over for ever by smaller ones of another queue, so that
`SomeWriteIsAdmitted` says no more than that the buffer does not block all of them.
`Controller`: weak fairness of the dispatcher (its register scan, its admin queue, and each submission
queue, which it visits in turn), of each step of the polling worker, of the
posting of each fetched command (every request comes due, `AcceptedIsCompleted`), and of the host's interrupt handler and
its waiting for `csts` to answer (`SeesReady`, `SeesOff`) and for an admin completion. Nothing is assumed of the host's will to
enable, issue, reset or shut down.
`ZnsFtl`, `KvTable` and `LearningAgent` have safety properties only.

### What the runs found

* *A work-queue entry can be seen half-filled* (`work_queue_torn`). The dispatcher clears `is_completed` before it
  writes `is_copied` and `is_internal` (`io.c:344`, `io.c:375`). A worker that was
  standing on the entry when it was reclaimed reads it as not completed, with the kind and the
  copy flag of its previous user, and completes it a second time. The comment on the
  barrier behind the stores says the worker "shall see the updated w at once"; the
  barrier orders the stores but the entry is reachable before it. The properties of
  `work_queue` hold in every behaviour in which this does not happen.
* *The write buffer grows* (`write_buffer_sectors`). `conv_write` takes the bytes of a command and
  gives back whole pages, and `buffer_release` adds without a bound: commands smaller than a
  page make `remaining` exceed `size`. With commands of whole pages the
  account balances (`write_buffer`).

### What the models take from the code as it is

The following behaviours are in the models because they are in the code. No statement of the repository contradicts
them, so they are not findings; the properties are stated so that they say what holds nevertheless.

*Zones.* A zone write takes its buffer space before it is checked, and no failing check gives it back
(`zns_read_write.c:104`): `NoSpaceMadeUp` is an inequality for this reason. An append that waits for space has its
`slba` replaced by the write pointer; if the zone is filled meanwhile, `slba` is the start of the next zone and the retry
writes there. A zone with a random write area that is filled by writing keeps its ZRWA resource
(the `ASSERT` at `zns_read_write.c:33` is an empty macro), so `acquired["ZRWA_ZONE"]` is only bounded from below. A
reset refills the ZRWA buffer while releases are still to come; opening, closing and opening again takes the area's
space twice, and the `BUG_ON` behind the write is reachable that way (`halted`).

*Write buffer.* `buffer_allocate` returns at once when the space is short, and the dispatcher goes on to the next queue
(`main.c:138`). A large command waits at the head of its queue while smaller ones of another take each wordline that is released; nothing
in the code ends that.

*Controller.* The scan of the registers is not atomic with the host's writes; a host that writes all of them between two
comparisons can be told it is ready before the admin rings are taken over (`overtaken`). A host that sees `csts` change and
writes `cc` before the scan reads it the last time has its write remembered and not processed (`swallowed`): it waits for its answer
for ever. `CcIsAnswered` says that a write of `cc` is answered except in these two cases. Enabling with
the same values of the registers resets nothing. A shutdown rewinds the completion head and not the phase; that both
sides agree afterwards (`AdminRingsAgree`) is due to the host giving its rings anew. An abort posts no
completion. The status word with the phase bit is written before the two result words.

*Key table.* A delete clears the link with the slot (`kv_ftl.c:482`), and the keys behind it are
no longer found; stored again, they are inserted a second time. An update with a longer value is written over what lies
behind the old one. `damaged` collects these keys, and
`LastValueIsFound` is about the others. A batched update, or one from or to a large length, leaves the old length in the table (`kv_ftl.c:533`), so that a
retrieve returns the new value with the old length; for these keys (`kept`) `LastValueIsFound` says that the value itself is in place. Space is never given back, and a store into a full table searches for ever. The last of
the iterator handles is not initialised: the loop runs over 0–15, handles are 1–16.

*Agent.* `prev_copied_pages` and `prev_range` are brought up to date by `rl_update` alone, so the first collection after a switch of `gc_mode` to RL is
charged for what all those since the last one under RL have copied (`conv_ftl.c:581`): `QBounded` has the most that was charged in its lower bound. The comments of `conv_ftl.c:344` and `conv_ftl.h` speak of 12 actions; there are 20. The truncating
decay takes at least 1 from epsilon per collection until the minimum. Whole-numbered scores may all be zero, and then the gaps
S1 and S2 are zero. Products of scores exceed 64 bits for large erase counts, hence the premise of `VictimScoresHighest`.

## 4. What is proved

Every theorem holds for every value of the constants that the named assumptions admit, and TLC checks the property it
states on an instance first. The proofs of a component are in one module that extends it;
`VictimProofs` has the two ways to choose a victim, the heap and the scan of the learning agent.

Some of the models compute by recursive functions: the walk along a linked list or a hash chain, the loops of the heap, Newton's square root. What holds
of them rests on `Induction`. It derives from the well-foundedness of inclusion that a set of naturals has a least element
(`LeastNat`, `GreatestNat`), and from that induction with a set in the place of the predicate (`InductionTo`, `InductionNat`).
That a recursive function exists, so that the `CHOOSE` that defines it satisfies its equation, is such an induction as well: the
function on `0 .. n` is extended to `n + 1` (`ChainExists`, `WalkExists`, `NewtonExists`, `TurnsExist`). `Divided` and `DividedOnce` say that
quotient and remainder exist and are unique, for a divisor that is not known.

### Conventional FTL

`ConvFtlProofs`, for every set of lines and logical pages, every geometry that satisfies
`GeometryAssumption`, every threshold and both victim policies. In this order: arithmetic of the two walks (a rounded page number
stays in its block, `advance_write_pointer` and the loops of `do_gc` stay in their line, visit every page and come back to
none); type correctness; the inductive invariant `Inv`, one lemma for each action; the safety properties, with the second
invariant `Order`; the free lines, with the third, `EnoughRoom`.

| theorem | what it establishes |
|---|---|
| `TypeCorrect` | `[]TypeOK`: no write pointer leaves the geometry, the scan stays in the victim, the unsigned `write_credits` never goes below zero, and no page is written without a credit |
| `MappingSafe` | `[]MappingConsistent` |
| `CountersExact` | `[]LineCountersExact` |
| `LinesInOnePlace` | `[]EachLineInOnePlace` |
| `NoPageOrphaned` | `[]NoOrphanPage` |
| `GcMovesOnlyIt` | the action property `GcMovesOnlyTheVisitedPage` |
| `ProgrammedOnceInOrder` | `[]ProgrammedInOrder` |
| `VictimsGainSpace` | `[]QueuedLinesGainSpace` |
| `LinesSuffice` | `[]NeverRunsDry`, if `EnoughLines` |

#### The argument

*Both walks are lexicographic orders.* `Lex(k, ...)` compares two pages by group of `k` pages, then by die, then by
page. The write pointer walks a line in the order with `k = pgs_per_oneshotpg`, channels fastest; `do_gc` walks its
victim in the order with `k = pgs_per_flashpg`, LUNs fastest. `LexStep` says of both that a step of the walk adds
exactly the page it leaves to the pages passed; `LexFirst` and `LexLast` are its two ends.

*Why the mapping needs the lists, the lists the counters, and the counters the write order.* A page may be written
because it is free, and it is free because it lies at or after the write pointer of its line (`OpenPagesFree`) or in a free line
(`FreeLinesErased`). That no other write pointer passes it needs that a line is in one place (`LinesPlaced`).
A line changes lists when `mark_page_invalid` finds `vpc == pgs_per_line`; the code unlinks it from the full list
without looking whether it is there. It is, since a line with so many valid pages has no free page, so it is neither open nor free, and
it is not queued, since lines are queued only with fewer (`QueuedNotFull`, lemma `WasFullIsListed`). This needs the counters to be exact
(`LineCountersExact`), and they are exact because a page that becomes valid was free before.

*Why the collection needs an order.* A collected page stays valid until its block is erased, and the erase takes every
page of the block. No logical page is lost because every page of the block has been visited by then (`BlockVisited`),
nothing maps to a visited page, and the copies went to another line (`CollectionOrder`). The victim joins the
free list with every page free because every block of it has been finished.

*What `Order` adds.* Pages passed by a write pointer are not free and listed lines were written to their end. So a
line in the victim queue has `vpc + ipc = pgs_per_line` and, having fewer valid pages, an invalid one; and the
collector meets no free page.

*Why the free lines suffice.* `FreePages` counts the pages that can be written before a line must be collected: those of the
free lines and what is left of the three open ones. The invariant `EnoughRoom` says that while the host writes they are three
lines' worth and one for each write credit, and that while `do_gc` runs they are two lines' worth, one for each credit to refill and one for
each page still to copy (`ToCopy`). Writing a page takes one, also when it makes `advance_write_pointer` open a line (`PageTaken`), and with more than
two lines' worth the free list cannot be empty when a line ends, since the other two write pointers hold at most that (`NotDry`).
Choosing a victim keeps the balance because its valid pages, to be copied, and its invalid ones, the credits, are a line (`SelectVictimRoom`), which
`mark_line_free` gives back (`GcFreeLineRoom`). The two ways to grant credits without a collection are where the premise
`EnoughLines` is needed. When `foreground_gc` returns at once, more than `gc_thres_lines_high >= 3` lines are free, which covers
the stale `credits_to_refill` of an earlier collection, at most a line (`SkipGcRoom`). When there is no victim, every closed line is full of
valid pages, each of which a logical page of its own maps to (`FullLinesHoldData`, from `NoOrphanPage`), so that as many lines are
free as the host's pages leave (`NoVictimRoom`). The premise asks for a threshold of 3 and six lines (but two pages) beyond
what the logical pages fill. The configuration has 2048 lines, a threshold of 276 (`conv_init_params`: 15% of `tlc_tt_lines`) and, with
`OP_AREA_PERCENT`, at most 1600 lines' worth of logical pages. A device of fewer than 20 TLC lines would have a threshold below 3. The run `ftl_walk`
meets the premise; `ftl_lines` checks the property with a threshold of 1, below it.

After `"oops"` (a NULL line has been dereferenced) `Inv` keeps the mapping and the counters and drops the rest; no
step follows.

Assumptions: `GeometryAssumption` (sizes are positive; a flash page divides a wordline, a wordline a
block: `ssd_init_params` asserts or computes it so), `LinesAssumption` (finitely many lines, at least
the three that `conv_init_ftl` opens) and `NullAssumption` (the three
sentinels are no ordinary values).

### ZNS FTL

`ZnsFtlProofs`, for any number and size of zones, buffers and queues that satisfy `ZnsAssumption` (the sizes are positive, the
random write area is whole flush groups and fits its buffer, and a command fits the write buffer).

| theorem | what it establishes |
|---|---|
| `TypeCorrect` | `[]TypeOK`: in particular neither a resource count nor the remaining space of a buffer goes below zero |
| `ResourcesExact` | `[]ResourcesMatchStates` |
| `PointersFit` | `[]WritePointerFits` |
| `SpaceNotMadeUp` | `[]NoSpaceMadeUp`: no write buffer gains space, also where a zone ends within a wordline |

The first three are proved together. `ZoneInv` speaks of the zones and the resources, `RestInv` of the buffers, the commands to be
tried again and the sweep. The resource counts are cardinalities, and every operation changes the state of one zone: the lemma
`ZoneChange` says that when one zone changes and each count changes by what this zone enters or leaves, `ZoneInv`
holds afterwards. Each transition is one lemma that instantiates it (`CloseKeeps`, `OpenKeeps`,
`MovedKeeps`, …). The counts need the write pointers: a zone becomes FULL exactly at its end only because a
flush of the ZRWA never overshoots it (`FlushedFits`). That they neither pass `nr_zones` nor go below zero is then
a matter of cardinalities (`CountsBounded`).

*The space of the write buffers* rests on these. A write of `n` pages at offset `o` of its zone schedules
`(o + n) \div W - o \div W` wordlines of `W` pages (`WordlinesCounted`, by induction over `n`) and, at the end of the zone, one
of `unaligned_space`. So what it takes is what it adds to the releases to come and to the pages that wait
(`TakenIsOwed`), and a step that changes one zone keeps the sum (`SpaceStep`); a failing write takes and owes nothing, which is why the
invariant is an inequality. The pages that wait are counted as a union over the zones of a buffer, of which a step changes one
part (`WaitingChange`). A management command takes nothing from a write buffer and gives nothing to it; a reset lets
pages go that waited (`SendSpace`).

### Victim queue

`VictimProofs`, for any set of lines, any `vpc` (`PriAssumption`) and any sequence of operations.

| theorem | what it establishes |
|---|---|
| `PositionsStayExact` | `[]PositionsExact` |
| `HeapStaysOrdered` | `[]HeapOrder` |
| `HeapImplementsVictimQueue` | `ImplementsVictimQueue`, the refinement of `VictimQueue` |

*The hole.* In the middle of a loop the array is no heap: one slot holds a stale line, and the line in `moving_node` is in
no slot. `Whole` says that the other slots hold the other lines, each once and each told its slot; `Apart` that they are in order
where neither of the two slots is the hole, and that the children of the hole do not go before its parent. Every turn keeps both (`ShiftWhole`,
`ClimbTurn`, `SinkTurn`). The loop upwards also keeps that the moving line does not go after the children of the hole (`Below`), and ends when it
fits under the parent (`Above`); downwards it is the other way round. Either way the line that fills the hole then makes a heap
(`FillPlaced`, `FillOrdered`). A turn upwards lowers the slot, one downwards raises it, so the loops end before the slots run out (`BubbleUpRepairs`,
`PercolateDownRepairs`, by induction over the turns).

*Which way to repair.* `HoleInOrder` says what a slot made a hole in a heap leaves to repair: a line with a smaller `vpc` than that of the line that was there
still fits above its children, one with a greater fits below its parent. So the one comparison in `pqueue_change_priority` and in
`pqueue_remove` is enough. In `pqueue_remove` the line comes from the end of the array, perhaps from another branch; that it may have to go up is the
case that a version that only percolates down gets wrong (the mutant `RepairDown`). `Lifted`, `Appended` and `MovedIs` are the three ways in
which the operations make the hole; the stale position that the removed line keeps is cleared by the caller (`Cleared`).

*The refinement.* The root goes before every line (`RootLeast`, by induction along the array), so `Pop` takes a least one, and the queued lines are the
same set but for the line that comes or goes (`StepRefines`). `PositionsExact` says that every slot is told to its line: that a queued line is
in the slot it names would not be inductive, since an array that holds the line a second time satisfies it.

### Learning agent

`VictimProofs`, for every scale, learning rate and discount up to the scale, wear weight and wrap (`AgentAssumption`), with `gc_mode` changing at any time.

| theorem | what it establishes |
|---|---|
| `QStaysBounded` | `[]QBounded` |
| `SelectedScoresHighest` | `[]VictimScoresHighest`, for any queue, erase counts and levels, those of CB and CAT included |

`RewardBounded` bounds the reward by the clamp of the wear penalty; `UpdatedBounded` shows that one truncating update
maps the interval between `QMin` and `QMax` into itself: truncation moves a value towards zero, which lies
in the interval, and scaling by a rate of at most 1 takes at most the whole step. Its arithmetic
is in `Quotient`, `Scaled` and `Discounted`, since the solver does not divide by a constant it does not know.
The lower bound is that of the most pages an update was charged for (`charged`): a greater charge lowers the least reward and widens the interval, which
keeps what was in it (`WafRises`, `FloorFalls`). So `gc_mode` may change at any time.

*The scan.* `SquareRoot` shows that Newton's iteration as `isqrt_u64` does it, with the termination test and the truncating division
of the code, stops and returns the integer root of every number: the values fall until they reach the root and never
pass it (`NewtonAbove`). So the two factors of a score are what the exponents of the action say (`PowerIs`, for each of the twenty
actions), and as long as the premise of the property holds, none of the products wraps (`NoWrap`, `GainComputed`,
`CostComputed`). Cross-multiplied fractions with positive denominators are ordered transitively (`CrossedOrder`), so the element that the
scan keeps beats all those before it (`ScanIsBest`, by induction along the queue). The proof brought to light a
mistake of the model: `Power` was a `CASE` with overlapping guards, which says that either of two values may be meant; it is an
`IF` now, as in the code.

### Queues and controller

`ControllerProofs` is about `Controller`, that is host, dispatcher and workers with the registers and the admin queue, for any set
of submission queues and any ring sizes from two entries on (`IoQueuesAssumption`, `DepthAssumption`).

| theorem | what it establishes |
|---|---|
| `CompletionsAnnounced` | `[]CompletionIsAnnounced` |
| `AdminRingsStayTogether` | `[]AdminRingsAgree` |
| `CommandsAreInOnePlace` | `[]EachCommandInOnePlace` |

*Announcement* (`AnnounceInv`). If the entry at the host's head is new, the announcement is in one of four places: it is handed from
`interrupt_ready` to the signalling worker, to the interrupt, to the handler, and the handler ends only when the head is not new.
Clearing `interrupt_ready` before the signal is what makes the hand-over safe.

*Admin rings* (`RegInv`). For each phase of the host it says which of its register writes the device has still to see
(`HostPhase`, which follows the scan of `cc` through its three reads) and that the rings are fresh once it has (`Fresh`). In use, the rings agree, or one command is issued, or it is
answered and not yet seen (`Agree`, `Issued`, `Answered`); the phases in the completion ring tell the host which, so that it
takes no completion of an earlier round.

*Commands* (`CmdInv`, on top of `RegInv`). Every tag is in the submission ring, in work or in the completion ring, and in no two
of them (`Placed`, `SqTags`, `CqTags`, `WorkTags`). The phases say for each position of the completion ring whether the device
has written it in this round, and so where the host stops (`CqPhases`). No ring overflows, by counting: the tags in a full
ring would all be different and none of them the new one (`SqHasRoom`, `CqHasRoom`, with `FullRing` and the
pigeonhole theorem). This is where the driver's rule matters that it has fewer commands outstanding than a ring has entries:
the device checks nothing. `QueuesUsed` and `CommandValid` carry the other rule, that a queue is deleted when nothing is outstanding in it,
from the moment the admin command is written to the moment it is executed.

### Work queue

`IoWorkQueueProofs`, for any number of entries, operations and ticks (`WorkQueueAssumption`).

| theorem | what it establishes |
|---|---|
| `WorkQueueTyped` | `[]TypeOK` |
| `EntriesShared` | `[]ListsPartitionEntries` |
| `RequestsSorted` | `[]SortedUnlessDue` |
| `RefusedWhenFull` | the action property `DroppedOnlyWhenFull` |
| `RequestsAnsweredOnce` | `[]CompletedOnceAndDone` |
| `FreedOnceAnswered` | `[]FreeEntriesAreDone` |

*The lists* (`QueueOK`). A linked list is stated by a sequence without repetition that the links follow: `Lists` has one for the list
in flight, with both directions, and one for the free list, that is never empty. Together with the entry being filled they have
every entry once. Taking the first free entry drops the head of one sequence (`DroppedList`); `__insert_req_sorted`,
which walks backwards from the end, inserts at the place before which all targets are at most the new one or are due (`InsertPlace`,
`InsertedList`); reclaiming cuts a prefix off one and joins it to the end of the other (`ReclaimIsPrefix`, `JoinedList`). The links
are walked by a function defined recursively; that it runs through the sequence and ends is `ChainIsList`, and a list has no more members
than there are entries (`ListShort`, by the pigeonhole theorem). What the worker writes are flags, so whatever it reads it does not touch the
lists: these four theorems have no premise about half-filled entries.

*The answers* (`Books`, `FillingOK`, `WorkerOK`), as long as `torn` is false. `Books` says for each entry in flight what has been
posted, released and copied for its request, with different requests in different entries; `FillingOK` what is already stored of the entry being
filled; `WorkerOK` where the worker may stand. The worker does not hold its entry: it may be reclaimed, and taken again, while the worker
stands on it. It then walks on along the free list. What saves it is that used
entries join the free list at its end (`FreeEntry`): behind a used free entry come only used ones, so all that the worker meets there is
completed, also when it starts from an entry that has just been taken and is not filled yet. Only the entry being filled itself
it may find between two stores, which is what `torn` records and the run `work_queue_torn` shows.

### Write buffer

`WriteBufferProofs`, for any number of partitions, any wordline, any buffer (`WriteBufferAssumption`) and any set of commands that are
whole pages (`WholePagesOnly`; `write_buffer_sectors` shows that the premise is needed).

| theorem | what it establishes |
|---|---|
| `SpaceBalances` | `[]SpaceAccounted` |
| `NoMoreThanSize` | `[]RemainingWithinSize` |

A command of whole pages takes the sectors of the pages from its first to its last (`PagesOfRequest`). A page written either waits, or
takes the other pages of its wordline out of those that wait (`OneMoreWaits`, `WordlineLeaves`) and adds a release.

### Key-value FTL

`KvTableProofs`, for any hash function, any numbers of slots, keys, iterators and units of storage, and any lengths (`KvAssumption`).

| theorem | what it establishes |
|---|---|
| `LookupsEnd` | `[]ChainsEnd` |
| `StoredIsFound` | `[]LastValueIsFound` |
| `DeletedNotFound` | `[]DeletedStaysAway` |
| `IteratorsComplete` | `[]IterationIsComplete` |

*Chains.* Links that a delete leaves behind point to free slots, and later into chains of other keys, so no
chain belongs to a home. What every reachable table has is a ranking of its slots that goes down along each link (`Acyclic`). An
insertion links a used slot that ends its walk to a slot that was free and ends there; it gets a rank below all
others (`FilledAcyclic`). A walk then never meets a slot twice and ends within the number of slots (`WalkShort`, `WalkEnds`).

*Keys.* `Fills` says what an insertion does to a table, `Emptied` what a delete does. Either way the walk of another key is as before, or
runs into the slot in question (`FilledWalk`, `EmptiedWalk`), so what was found is found, unless the delete cut it off,
and then it is in `damaged`; and no lookup finds the key that was deleted (`FilledOthers`, `EmptiedGone`, `EmptiedStays`). A stale copy
behind a cut does not come into reach again, because a new link only ever leads to the slot just filled, whose own link is empty
(`Fills`, `FilledFound`); this is why a deleted key stays away although copies of it may be left in the table.
`RoomsApart` says that the rooms of the keys that are found do not overlap: only then does a value written into one leave the others
(`CellsApart`).

*Iterators* (`HandlesOK`). What is due and not yet seen lies at or behind the position of the iterator, in a used slot: keys never move, and a deleted
key is no longer due.

### Only model-checked

The liveness properties (`AcceptedIsCompleted`, `SomeWriteIsAdmitted`, `CcIsAnswered`, `EveryCommandIsReaped`, `CreditsComeBack`), under fairness,
which is out of the prover's reach; and `NeverRunsDry` where the threshold or the number of lines is smaller than `EnoughLines` asks for.

## 5. Not modelled

* *NAND timing and the channel model* (`ssd_advance_nand`, `chmodel_request`). They compute when an operation is done. The models
  leave that open, so what they show holds for every time these return.
* *Simple FTL.* It keeps no state but the times of its I/O units.
* *Bitmap allocator.* `ssd_config.h` selects the append-only one.
* *DMA engine, module parameters, procfs, headers, scripts.* Calls into the kernel, parsing, formatting and constants.
* *Other admin commands* (identify, log pages, features). They add completions of the same kind as the modelled ones and
  change nothing that is modelled.
* *A queue deleted with commands in flight.* The worker then dereferences a freed queue, after which the model has nothing to say;
  the modelled host waits, as the Linux driver does.
* *Several workers on the key table.* No lock and no rule of the code says which interleavings are meant to work.
* *The write buffer composed with the work queue.* An internal operation dropped by a full queue takes its buffer space with it;
  each half is checked on its own (`DroppedOnlyWhenFull`, `SpaceAccounted`). Together they would only show that the space is
  lost, which the code says in a line.
* *The data path* (copying between host memory and the storage) is one step without contents in `IoWorkQueue`, and absent elsewhere,
  except for the cells of `KvTable`.
