# TLA+ models of lbz

lbz is a log-structured block layer: a device-mapper target that presents a
conventional block device on top of a zoned (append-only) device. This
directory holds TLA+ models of its core, checked with TLC.

## The system

The parts of lbz that change state, and how they interact:

| part | source | state | operations |
|---|---|---|---|
| zone allocator and lifecycle | `lbz-zone-metadata.c`, `include/lbz-zone-metadata.h` | per zone: flags, cond, refcount, `wp_block`, weight, `pending_write_io`, reverse map; the empty and full lists; `active_zone[0]`; `nr_allocable_blks` | get/put, `lbz_zone_alloc_res`, `lbz_zone_release_global_res`, `lbz_find_victim_zone` |
| zone-state worker | `zone_state_wk_fn`, `__zs_timer_fn` | loop index, `send_zone_mgmgt` | close TO_FULL zones, reset reclaimed GC zones |
| GC engine | `lbz-gc.c` | `gc_state` bits, `gc_zone` | choose mode, pick victim, scan the reverse map, submit one GC task per valid block |
| I/O scheduler | `lbz-io-scheduler.c` | task tree (one task per logical block), retry and gc_writes lists, per-task status and `pending_gc_node` | user write admission/allocation/endio, GC read/revalidate/write/callback, user reads, the retry worker |
| mapping | `lbz-mapping.c` | blkid -> pbid | lookup (pins the zone), add, remove |
| device lifecycle | `lbz-dev.c`, `include/lbz-dev.h`, `lbz_destroy_gc_thread`, `lbz_destroy_zone_metadata` | `refcnt`, the READY, REMOVE and FAULTY flags | `open_dev`, `release_dev`, `lbz_remove_device` (drain wait, clear READY, tear down) |
| nat-sit transactions | `lbz-nat-sit.c`, `include/lbz-nat-sit.h`, the flush path of `lbz-request.c`, the `'s'` command of `lbz-proc.c` | the layout (`cp`, `sit`, `nat` addresses), the to-free list | install a layout, queue a block, commit (`lbz_nat_sit_tx_complete`) |

How they interact:
- A user write enters the task tree, allocates a block in the active zone,
  and is appended by the device.
- Its endio maps the block, invalidates the old place and releases that
  zone's weight.
- GC takes the full zone with the least weight and scans its reverse map.
  For every valid block it reads the block, re-enters the task tree,
  re-checks the mapping, and writes the block to a new place.
- If a user write holds the block, the GC task is handed to it as its
  `pending_gc_node`; the write's last `task_put` completes the GC task.
- The zone-state worker closes zones whose writes have all completed, and
  resets GC victims once no one references them.
- User bios reach lbz only while the block device is open. Removal sets
  REMOVE (which `open_dev` refuses), waits until nothing is open or in
  flight, clears READY, and frees everything. The GC thread, the retry
  worker and the zone-state worker check READY and FAULTY, not REMOVE.
- With the nat-sit layer (built with `CONFIG_LBZ_NAT_SIT_SUPPORT` and
  `..._FREE_SUPPORT`), F2FS's NAT and SIT blocks have two copies in paired
  segments. A write to one copy (a transaction child) queues the other
  copy on the to-free list. A flush that writes a checkpoint block (the
  father) waits for its write and then commits: every queued block is
  removed from the map and its old place released.

Hard behaviours the code faces:
- user writers, readers, the GC thread, the retry worker, the zone-state
  worker and bio completions all run concurrently;
- a GC copy can race a rewrite of the same block;
- `-EAGAIN` retries happen when space runs out;
- unsigned arithmetic in the watermarks;
- refcounts decide when a zone may be reset;
- the device can fail: a failed bio, zone command or integrity log sets
  the device faulty, and every worker checks `is_dev_faulty` at its own
  points;
- a user bio longer than one block is split, and its pieces complete in
  any order;
- the device may already hold data when lbz attaches to it.

## Modules

- `Lbz.tla` models the zone allocator, zone-state worker, GC engine, I/O
  scheduler and mapping in one module, because they share the zone array
  and every handler touches several of them.
  - `VARIABLES`: `zone` (a record per zone), `emptyQ`, `fullQ`, `active`,
    `allocable`, `map`, `tree`, `uw` (user write tasks), `gt` (GC tasks,
    indexed by victim offset), `rd` (readers), the GC thread's `gcPc`,
    `gcZone`, `gcCur` and `gcBits`, and the zone-state worker's `zsCur` and
    `zsSend`.
  - nat-sit state: `rule` (the installed `nat_sit_args`) and `toFree`
    (the to-free list, as a set). A writer whose checkpoint flush has
    completed waits in state `"flushed"` for its commit; `uw[w].type` is
    the task type (`USER`, `CHILD`, `FATHER`).
  - Device state: `faulty` (`LBZ_DEV_FAULTY`), `nFaults` (failures so far),
    `ack` (the status each writer's last bio ended with), and `stale` (tasks
    held by a `retry_wk_fn` run that passed its faulty check before the
    failure).
  - Lifecycle state: `refcnt`, `ready` (`LBZ_DEV_STATE_READY`) and `rmPc`,
    where `lbz_remove_device` is (`"none"` means REMOVE is clear). The
    constant `DevOps` says whether opens and closes, and removal, happen.
    Without `"open"` a user holds the device open throughout
    (`refcnt = 1`). `MaxRefs` bounds `refcnt` at one opener.
  - `oops` and `panicked` record a `BUG_ON` or `panic`. No step follows either.
  - `Init` is attach (`lbz_init_zone` for every reported zone, `StartZone`).
    The constant `StartWp` is the zone report. A zone's weight starts at its
    write pointer, and blocks written before attach hold `Old`.
  - Each handler is one action:

    | action | code |
    |---|---|
    | `WriteSubmit` | `lbz_submit_io_to_iosched`, with the task type (`TaskType`); a checkpoint flush is submitted even on a faulty device |
    | `SubmitWhileFaulty` | `lbz_dev_submit_bio` on a faulty device: `bio_endio` with no error |
    | `RetryWriteInsert` | `retry_wk_fn` retrying a tree conflict |
    | `WriteAlloc` | the `LBZ_TASK_ALLOC_RES` and `IO_WRITING` cases of `__submit_write_task`, with its `-EAGAIN` and reclaim triggers; a child queues its other copy (`AddBlkid`) |
    | `WriteAllocFailed` | the same case when `lbz_zone_alloc_res` returns `-EIO` |
    | `WriteIntegrityFail` | the same cases when `__add_integrity` fails: the caller ends the bio with `BLK_STS_IOERR`, which runs the endio's error path |
    | `WriteDone`, `WriteFail` | `lbz_write_io_endio` without and with a device error, including the final `task_put` that completes a pending GC task; a checkpoint flush wakes its submitter (`EndBio`) |
    | `AddRule` | the `'s'` command of `module_input` calling `lbz_nat_sit_add_rule` (`NatSitAddRule`) |
    | `TxCommit` | `__lbz_submit_flush_bio_wait` after its wait: `lbz_nat_sit_tx_complete` (`TxComplete`) if the flush succeeded, then the user bio ends |
    | `GcVictim`, `GcScan`, `GcFinish` | `lbz_gc_thread` and `__gc_one_zone`, one reverse-map entry per `GcScan` |
    | `GcReadDone`, `GcReadFail` | `lbz_gc_read_endio` |
    | `RetryGc` | the `GC_READING` case of `__submit_gc_task`: the pending handoff, the `-EEXIST` skip, allocation and dispatch, `-EIO` and integrity failure (both reach `BUG()`) |
    | `GcWriteDone`, `GcWriteFail` | `lbz_gc_write_endio` with `__gc_task_callback`, on a healthy device, with an error, or on a faulty device |
    | `ReadStart`, `ReadDone`, `ReadFail` | `__submit_read_io` and `lbz_read_io_endio` |
    | `ZsStart`, `ZsStep`, `ZsResetFailed` | `__zs_timer_fn` and one iteration of `zone_state_wk_fn`'s loop, including a failed reset |
    | `OpenDev`, `ReleaseDev` | `open_dev`; `release_dev`, which waits for user bios to drain or the device to fail (`UserDrained`) |
    | `RemoveStart`, `RemoveDrained`, `RemoveUnready`, `RemoveTeardown` | `lbz_remove_device`: set REMOVE; leave the wait loop when `Drained` and `refcnt = 0`; `lbz_dev_set_unready`; the teardown, which waits for the GC thread to stop (`GcThreadStopped`) and the zone-state work to finish (`ZsWorkDrained`). After it, `Running` is false |

  - Helpers are operators:
    - `PutZone` (`lbz_put_zone`);
    - `AllocRes` (`lbz_zone_alloc_res`, returned as a record);
    - `FindVictim`, `NeedReclaim` and `ZoneLowWm` (the header's watermark
      checks);
    - `CompletePendingGc` and `ReleasePendingGc` (the last `task_put`);
    - `Fault` (`lbz_dev_set_faulty`);
    - `IsCpBlock`, `IsDupBlock`, `ToFree` (the nat-sit header's block
      classes and `lbz_nat_sit_to_free`), `NoRule` (the all-zero layout
      `lbz_create_device` installs).
  - The device appends: a write's physical block is the zone's next
    unwritten slot when it completes (`DevNext`).
- `BlockStore.tla` is the abstract specification: a block device where a
  write is submitted and later either takes effect atomically and is
  reported "ok", or fails, changes nothing and is reported "err"; blocks
  the file system frees (`Discard`) read as zeroes again. `Lbz`
  refines it through `Abs == INSTANCE BlockStore WITH ...`:
  - a block reads as the payload the device holds at `map[b]`;
  - a writer's request is its user bio in flight;
  - its response is the status that bio ended with;
  - a checkpoint flush takes effect when its write completes, and its
    commit is a `Discard` of the queued blocks that were mapped.
- `LongBio.tla` models `lbz_dev_submit_bio`'s split loop for a bio longer
  than one block, and `lbz_long_bio_endio`.
  - `remaining` is `ctx->remaining`, and `userStatus` is the user bio's
    `bi_status`, which the tail shares.
  - `seen` is what each piece's `lbz_write_io_endio` reads.
  - The scheduler is abstracted to the completion of each piece with a
    result the device chooses.
- `MCLbz.tla` gives the model values for TLC: blocks (block ids are
  numbers, because the nat-sit classes compare them with the layout),
  values, writers, fault kinds, the zone reports `MCFreshDevice` and
  `MCReattach`, and the layouts the `'s'` command may install: none
  (`MCNoRules`), or `MCNatSitRules`, where block 0 is a checkpoint block
  and blocks 1024 and 1536 are the two copies of a NAT/SIT block.
- Definitions named `...NoPin`, `...NoRmap`, `...Mapped`, `...NoInc` and
  so on are mutants: plausible bugs of the definition that follows them.
  They are used to show that each property can fail.

## Runs

All `Lbz` runs use zones of N = 2 blocks and start from an empty device
(`MCFreshDevice`), except `reattach_panic`.
- Most runs scale the watermark percentages up from the code's defaults
  (2%, 4%, 1%), because 2% of 6 blocks rounds to 0. At these sizes the low
  mark is one block above the reserve and the high mark two, so both
  reclaim modes occur.
- `liveness` uses the defaults themselves.
- The reserve is one zone, as in `lbz_init_zone_metadata`.

| run | cfg | bounds | checks | result |
|---|---|---|---|---|
| main | `MCLbz.cfg` | 3 zones, 1 writer, 1 reader, 2 blocks, 2 values, 4 writes | `TypeOK`, `WeightAccounting`, `AllocatableAccounting`, `MapsAgree`, `ReadSeesItsBlock`, `NoBug`, `NoPanic`, `ImplementsBlockStore` | pass, 1.13M states |
| two_writers | `MCLbz2.cfg` | 2 zones, 2 writers, 2 blocks, 2 values, 4 writes | `WeightAccounting`, `MapsAgree`, `NoBug`, `ImplementsBlockStore` | pass, 919K states |
| faults | `MCLbzFault.cfg` | as main, one failure of either kind | `MapsAgree`, `ReadSeesItsBlock`, `FaultKeepsBlocks` | pass, 2.18M states |
| liveness | `MCLbzLive.cfg` | 2 zones, 1 writer, 1 value, 6 writes, default watermarks, open, close and removal, `FairSpec` | `WriteCompletes`, `VictimReclaimed`, `RemoveCompletes` | pass, 59K states |
| long_bio | `MCLongBio.cfg` | a 5-block bio | `TypeOK`, `EndsOnceAfterAllPieces`, `ReportsFailure`, `UserBioEnds` | pass, 430 states |
| natsit | `MCLbzNatSit.cfg` | 3 zones, 1 writer, blocks 0, 1024, 1536, 1 value, 4 writes, the nat-sit layout | `WeightAccounting`, `MapsAgree` | pass, 307K states |
| reset_panic | `MCLbzPanic.cfg` | 3 zones, 2 writers, 6 writes | `NoPanic` | violated (finding 1) |
| fault_drain | `MCLbzDrain.cfg` | as liveness, one io failure | `FaultDrains` | violated (finding 3) |
| tail_status | `MCLongBioTail.cfg` | a 2-block bio | `EndioSeesOwnStatus` | violated (finding 6) |
| reattach_panic | `MCLbzReattach.cfg` | 3 zones, zone 0 reported at write pointer 1, 1 writer, 4 writes | `NoPanic` | violated (finding 7) |
| natsit_resurrect | `MCLbzResurrect.cfg` | as natsit | `ImplementsBlockStore` | violated (finding 8) |
| remove_uaf | `MCLbzRemove.cfg` | as main without the reader, 1 value, open, close and removal | `TeardownQuiesced` | violated (finding 9) |

Findings 2, 4 and 5 have no run of their own. TLC reaches them in a few
steps with the `faults` bounds, through `ImplementsBlockStore`, `NoBug` and
`NoPanic` respectively. The `faults` run checks none of these. They are
listed as hazards in `PROJECT.json`.

Notes on the runs:
- `two_writers` does not check `NoPanic`, which two writers violate (see
  reset_panic). It disables the deadlock check because a panic ends every
  behaviour.
- Runs with removal disable the deadlock check: a freed device takes no
  further step.
- Runs with failures disable the deadlock check: a faulty device with
  nothing in flight takes no further step, which is the code's behaviour.
- The bounds are enough to fill every zone, drive `allocable` below the
  reserve, and make GC reclaim a zone with live blocks. A rewrite can race a
  GC copy, and a GC task can be handed to a user write.
- The handoff needs two blocks and a GC victim with a valid block whose
  block is being rewritten.
- One failure is enough: after it the device is faulty for good, and every
  later failure path is already reached through `faulty`.
- `MCLbz2` uses 4 writes. With 5 it takes about 8 minutes.
- `natsit` needs three zones for its three blocks: with two, the blocks
  exceed the space outside the GC reserve and a write waits for ever. Four
  writes reach two child writes, a checkpoint flush and its commit, a
  layout installed between writes, and GC migrating a queued copy.
  Writes before the `'s'` command are plain user writes.

What the properties say:
- `WeightAccounting`: a zone's weight is its valid reverse-map entries plus
  the writes in flight to it. Double releases and missed releases break it.
- `AllocatableAccounting`: `nr_allocable_blks` equals the unallocated space.
- `MapsAgree`: the forward map, the reverse maps and the device contents
  agree.
- `ReadSeesItsBlock`: a pinned read still finds its block.
- `NoBug`: no GC `BUG_ON` or `BUG()` fires (allocation failure, remapped
  block).
- `NoPanic`: no reset of a zone with valid blocks.
- `ImplementsBlockStore`: GC, retries and resets never change what a block
  reads as, and a write is reported "ok" only if it took effect.
- `FaultKeepsBlocks`: once the device is faulty, only a user write that
  completes "ok", or the commit of a checkpoint that was written, changes
  a block.
- `WriteCompletes`: every write finishes.
- `VictimReclaimed`: every GC victim is reset.
- `FaultDrains`: after a failure everything in flight drains, which is what
  `lbz_remove_device` waits for.
- `EndsOnceAfterAllPieces`, `ReportsFailure`, `UserBioEnds`: a split user
  bio ends once, after all its pieces, with an error exactly when a piece
  failed.
- `EndioSeesOwnStatus`: each piece's endio sees its own result.
- `TeardownQuiesced`: `lbz_remove_device` frees the device only when no
  GC task, user write or user read is in flight.
- `RemoveCompletes`: once the device is being removed and nobody holds it
  open, the removal reaches its end.

Every property of every passing run has a mutant in `PROJECT.json` that TLC
finds violating it.

## Fairness

`FairSpec` assumes weak fairness of every step of the retry worker, the GC
thread, the zone-state worker and of bio completions.
- The three workers are re-armed by periodic timers (`__retry_timer_fn`,
  `__gc_timer_fn`, `__zs_timer_fn`), and the GC thread also sleeps with a
  timeout.
- A device completes every bio it accepts, also after a failure: the
  `-EIO` path of a submission and a GC write on a faulty device are fair.
- The commit of a checkpoint flush (`TxCommit`) is fair: its submitter
  runs it as soon as the flush's endio wakes it.
- `lbz_remove_device`'s steps are fair. Its wait loop polls the drain
  condition every second, so weak fairness is the right assumption. The
  condition holds until the next step once GC has nothing left to do.
- User submissions, reads, opens, closes and `'s'` commands get no
  fairness; no user is obliged to act.
- No failure is obliged to happen.
- `LongBio`: the split loop runs to its end, and every piece completes.

## Findings

1. **Stale `send_zone_mgmgt` (code bug, zone-metadata.c:606).** The flag is
   set for one zone and never cleared in the loop. Every later TO_FULL zone
   in the same sweep is closed, even with a zone-append in flight. With two
   writers, GC reclaims such a zone before the late append lands. The append
   maps a live block into the victim, and the reset panics with "reset
   encounter valid blocks" (reset_panic).
2. **Silent success on a faulty device (spec/code divergence,
   request.c:293).** `lbz_dev_submit_bio` ends a new bio with no error
   status, so a write that was never made is reported as done. spec.md says
   new admissions fail with a terminal error.
3. **Retry list never drains after a failure (code bug,
   io-scheduler.c:505).** `retry_wk_fn` returns on a faulty device, so a
   task waiting on a retry list is never finished. `lbz_remove_device`
   then waits forever.
4. **`BUG()` on `-EIO` in a GC retry (code bug, io-scheduler.c:494).**
   `retry_wk_fn` checks the faulty flag once per run. A failure during the
   run makes a GC allocation return `-EIO`, and the default case calls
   `BUG()`.
5. **Reset panic after a failed GC read (code bug, zone-metadata.c:654).**
   `zone_state_wk_fn` checks the faulty flag only before its loop. A GC read
   that fails meanwhile unpins the victim without moving its block. The
   loop resets the victim and panics.
6. **The tail reads another piece's error (code bug, request.c:236).** The
   tail of a split bio is the user bio. A failed split's
   `lbz_long_bio_endio` stores its error there. The tail's endio then reads
   it as its own, so a tail the device wrote is not mapped.
7. **Reset panic after attach to a used device (code bug,
   zone-metadata.c:247).** `lbz_init_zone` gives a reported zone weight =
   write pointer, but no map entry names those blocks, so nothing ever
   releases that weight. A zone found partly written fills, GC reclaims it
   finding nothing to move, and the reset panics on the leftover weight (17
   steps). A zone found full is never a victim, so its space is never
   reclaimed (listed as a hazard).
8. **A freed block comes back after GC (code bug, io-scheduler.c:622).**
   `__gc_task_callback` calls `lbz_mapping_add` even when the block is no
   longer mapped. If a checkpoint commit frees a NAT/SIT copy after
   `__submit_gc_task`'s lookup found it mapped, the GC write maps it again,
   and it reads its old contents instead of zeroes (23 steps). The lookup's
   own `-ENOENT` case ("already discarded") and spec.md say a migration of
   a discarded block is dropped.

9. **Removal frees the device under a GC read (code bug, dev.c:338).**
   `lbz_remove_device` checks `gc_inflight_io_cnt == 0` and only then
   clears READY. The GC thread checks READY, not REMOVE. `__gc_one_zone`
   raises the count one valid entry at a time. So a scan whose first
   entries were invalid, or a reclaim round that starts in the window,
   submits a GC read after the check. The teardown waits only for the GC
   thread and the workqueues, not for that read. It frees the I/O
   scheduler, mapping and zones, and the read's endio then uses them
   (remove_uaf, 20 steps).

spec.md's budget identity (allocable plus write pointers equals capacity
minus the GC reserve) is not what the code keeps. `nr_allocable_blks`
starts at the full capacity, and the reserve is enforced only in the user
allocation guard. `AllocatableAccounting` checks the identity the code
keeps.

## Not modelled

- Multiple streams (`CONFIG_LBZ_NAT_SIT_STREAM_SUPPORT`). For the same
  reason, a zone report may hold at most one partly written zone.
- Inside the nat-sit layer: the list walk of `lbz_nat_sit_tx_complete`
  racing `lbz_nat_sit_add_blkid` (the commit is one step), the write
  counters and tx ids (they feed only the integrity log and proc output),
  `lbz_nat_sit_destroy`, and writes to a checkpoint block that are not
  flushes (the model writes checkpoint blocks only as flushes).
- Offline and read-only zones in the zone report.
- `lbz-dev.c` setup (`lbz_create_device`, gendisk registration), the
  `ioctl` handler, and the details of teardown. Teardown is one step,
  whose guard is what it waits for. `lbz_dev_exit` only removes every
  device in turn.
- `lbz-proc.c` apart from the `'s'` command: device creation, and
  read-only counters. Removal is modelled through `lbz_remove_device`.
- The integrity log's contents: only whether `__add_integrity` fails.
- Interleavings inside one endio: each endio is one atomic step (listed as a
  hazard in `PROJECT.json`).
- Bio reference counts. `__submit_gc_task` drops the GC write bio twice when
  `__add_integrity` fails (io-scheduler.c:833 and 849). This double
  `bio_put` is listed as a hazard; the model reaches the path
  (`RetryGc`'s integrity disjunct), which then calls `BUG()`.
- A failing `lbz_close_zone`: its return value is ignored, so it changes no
  state lbz keeps.

Planned next: a finer-grained write endio and commit (the unlocked
to-free list), and a liveness run for the full-zone leak after attach.
