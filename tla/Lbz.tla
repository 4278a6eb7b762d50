-------------------------------- MODULE Lbz --------------------------------
(***************************************************************************)
(* The core of lbz, a log-structured block layer over zoned storage:       *)
(* the zone allocator and zone lifecycle (lbz-zone-metadata.c), the        *)
(* forward block map (lbz-mapping.c), the I/O task scheduler with its      *)
(* task tree and retry lists (lbz-io-scheduler.c), the GC thread           *)
(* (lbz-gc.c), user readers, and the zone-state worker that closes full    *)
(* zones and resets reclaimed ones.                                        *)
(*                                                                         *)
(* One stream is modelled: without CONFIG_LBZ_NAT_SIT_SUPPORT every        *)
(* allocation uses stream_id 0.  A bounded number of device failures      *)
(* (FaultKinds, MaxFaults) set the device faulty; the workers and the       *)
(* submission path then stop as the code's is_dev_faulty checks make them.  *)
(* The device appends: a                                                    *)
(* completed zone-append lands at the zone's next unwritten slot, so the   *)
(* physical block a write gets is decided at completion, not at            *)
(* allocation.                                                             *)
(***************************************************************************)
EXTENDS Integers, Sequences, FiniteSets, FiniteSetsExt

CONSTANTS
  NZ,         \* number of zones (zmd->nr_zones)
  N,          \* blocks per zone (zmd->zone_nr_blocks)
  Blocks,     \* logical block ids
  Values,     \* block payloads
  Writers,    \* user write contexts (one bio in flight each)
  Readers,    \* user read contexts
  MaxWrites,  \* bound on user writes submitted in a behaviour
  WmLowPct,   \* zmd->reclaim_wm_gc_low
  WmHighPct,  \* zmd->reclaim_wm_gc_high
  ZoneWmPct,  \* zmd->zone_reclaim_wm
  Invalid,    \* LBZ_INVALID_PBID
  NoZone,     \* NULL zone pointer
  NoTask,     \* no task in the tree / no pending_gc_node
  Empty,      \* an unwritten physical block
  MaxFaults,  \* bound on device failures in a behaviour
  FaultKinds, \* the failures that may happen: "io" (a bio or zone command
              \* completes with an error), "integrity" (__add_integrity fails)
  StartWp,    \* the zone report at attach time: zone -> its write pointer
  NatSitRules,\* the nat_sit_args the 's' proc command may install
  DevOps      \* the device operations that may happen: "open" (open_dev
              \* and release_dev) and "remove" (lbz_remove_device); without
              \* "open", a user holds the device open throughout

ASSUME NZ \in Nat \ {0} /\ N \in Nat \ {0}
ASSUME MaxWrites \in Nat
ASSUME MaxFaults \in Nat /\ FaultKinds \subseteq {"io", "integrity"}
ASSUME {WmLowPct, WmHighPct, ZoneWmPct} \subseteq 0..100
ASSUME DevOps \subseteq {"open", "remove"}
\* At most one zone is reported open and not full: with one stream modelled,
\* a second one would take active_zone[1], which nothing allocates from.
ASSUME StartWp \in [0..(NZ - 1) -> 0..N]
       /\ \A y, z \in 0..(NZ - 1) :
            (0 < StartWp[y] /\ StartWp[y] < N /\ 0 < StartWp[z] /\ StartWp[z] < N)
              => y = z

Zones == 0..(NZ - 1)
Offs == 0..(N - 1)

\* pbid <-> (zone, offset): zones are contiguous and N blocks long
\* (get_zone_by_pbid, lbz_zone_update_reverse_map's dis/index/offset).
Pbid(z, o) == z * N + o
PbidZone(p) == p \div N
PbidOff(p) == p % N

Total == NZ * N      \* nr_total_blks
Reserved == N        \* reserved_blks_gc: one zone's worth of blocks

GcId(o) == <<"gc", o>>   \* the GC task migrating offset o of the victim

VARIABLES
  zone,       \* per zone: flags, cond, refcount, wp_block, weight,
              \* pending_write_io, reverse map and the device's contents
  emptyQ,     \* empty_zone_list (FIFO)
  fullQ,      \* full_zone_list (FIFO: closed zones are added at the tail)
  active,     \* active_zone[0]
  allocable,  \* nr_allocable_blks
  map,        \* the forward mapping blkid -> pbid
  tree,       \* task_tree: blkid -> task in flight for it
  uw,         \* user write tasks, one per writer
  gt,         \* GC migration tasks, indexed by victim offset
  rd,         \* readers
  gcPc,       \* GC thread: "sleep" or "scan" (in __gc_one_zone)
  gcZone,     \* gc_ctx->gc_zone
  gcCur,      \* reverse-map iterator of __gc_one_zone
  gcBits,     \* RECLAIMING / EMERGENCY bits of gc_ctx->gc_state
  zsCur,      \* zone-state worker's loop index (NZ when idle)
  zsSend,     \* its local send_zone_mgmgt
  nWrites,    \* user writes submitted so far
  oops,       \* a BUG()/BUG_ON() fired
  panicked,   \* panic("reset encounter valid blocks")
  faulty,     \* LBZ_DEV_FAULTY in dev->state
  nFaults,    \* device failures so far
  ack,        \* per writer: how its last bio completed ("none", "ok", "err")
  stale,      \* tasks a retry_wk_fn run that passed its is_dev_faulty check
              \* before the device failed still holds in its spliced lists
  rule,       \* the nat-sit address ranges in force (lbz_nat_sit_mgmt)
  toFree,     \* the blkids on the nat-sit to-free list (mgmt->head)
  refcnt,     \* dev->refcnt: opens of the lbz block device not yet released
  ready,      \* LBZ_DEV_STATE_READY in dev->flags
  rmPc        \* lbz_remove_device: "none" (not called; LBZ_DEV_STATE_REMOVE
              \* clear), "wait" (in its drain loop), "drained" (loop left),
              \* "unready" (flag cleared, tearing down), "gone" (freed)

zoneVars == <<zone, emptyQ, fullQ, active, allocable>>
taskVars == <<map, tree, uw, gt, rd>>
ctlVars == <<gcPc, gcZone, gcCur, gcBits, zsCur, zsSend, nWrites, oops, panicked>>
devVars == <<faulty, nFaults, ack, stale>>
natVars == <<rule, toFree>>
lifeVars == <<refcnt, ready, rmPc>>
lbzVars == <<zoneVars, taskVars, ctlVars, devVars, natVars>>
vars == <<lbzVars, lifeVars>>

NoGc == [st |-> "none", blk |-> Invalid, pbid |-> Invalid, val |-> Empty,
         rzone |-> NoZone, zone |-> NoZone]
IdleWriter == [st |-> "idle", status |-> "INIT", blk |-> Invalid, val |-> Empty,
               zone |-> NoZone, pendGc |-> NoTask, type |-> "USER"]
FreshZone == [flags |-> {"INIT"}, cond |-> "EMPTY", ref |-> 0, wp |-> 0,
              weight |-> 0, pend |-> 0, rmap |-> [o \in Offs |-> Invalid],
              data |-> [o \in Offs |-> Empty]]
\* A block written before attach: the device holds something there, and no
\* logical block is known to live in it.
Old == [blk |-> Invalid, val |-> Empty]

-----------------------------------------------------------------------------
(* Zone helpers (lbz-zone-metadata.c)                                      *)

\* lbz_get_zone
GetZone(zs, z) == [zs EXCEPT ![z].ref = @ + 1]

\* (mutant) lbz_put_zone without the TO_FULL completion check.
PutZoneNoFull(zs, z) ==
  LET r == zs[z].ref - 1 IN
  IF r = 0 /\ "GC" \in zs[z].flags
  THEN [zs EXCEPT ![z].ref = 0, ![z].cond = "EMPTY"]
  ELSE [zs EXCEPT ![z].ref = r]

\* lbz_put_zone: the last put of a GC zone marks it EMPTY (ready for
\* reset); a TO_FULL zone whose writes have all completed becomes FULL.
PutZone(zs, z) ==
  LET r == zs[z].ref - 1 IN
  IF r = 0 /\ "GC" \in zs[z].flags
  THEN [zs EXCEPT ![z].ref = 0, ![z].cond = "EMPTY"]
  ELSE IF "TO_FULL" \in zs[z].flags /\ zs[z].pend = 0
       THEN [zs EXCEPT ![z].ref = r, ![z].cond = "FULL"]
       ELSE [zs EXCEPT ![z].ref = r]

\* (mutant) invalidation that forgets lbz_zone_release_global_res.
InvalidateKeepWeight(zs, p) ==
  [zs EXCEPT ![PbidZone(p)].rmap[PbidOff(p)] = Invalid]

\* lbz_zone_update_reverse_map(zone of p, p, LBZ_INVALID_PBID) followed by
\* lbz_zone_release_global_res: the old place of a block no longer counts.
Invalidate(zs, p) ==
  [zs EXCEPT ![PbidZone(p)].rmap[PbidOff(p)] = Invalid,
             ![PbidZone(p)].weight = @ - 1]

\* The device's append position: the number of blocks written so far.
DevNext(zs, z) == Cardinality({o \in Offs : zs[z].data[o] # Empty})

\* lbz_check_need_reclaim_low/high.  allocable - reserved_blks_gc is an
\* unsigned subtraction: below the reserve it wraps to a value near 2^32,
\* which is never below the watermark.
NeedReclaim(alloc, pct) ==
  /\ alloc >= Reserved
  /\ alloc - Reserved < (Total * pct) \div 100

\* lbz_check_zone_low_wm
ZoneLowWm(w) == w <= (N * ZoneWmPct) \div 100

\* lbz_zone_alloc_res(zmd, &zone, mod, 0) on zone state zs, as a record of
\* its return code, the zone returned and the new allocator state.
\* "reclaim" is set when the empty list was empty (lbz_trigger_gc_reclaim).
AllocRes(zs, mod) ==
  LET needNew == active = NoZone \/ zs[active].wp = N
      z == IF ~needNew THEN active
           ELSE IF emptyQ = <<>> THEN NoZone ELSE Head(emptyQ)
      zs0 == IF needNew /\ active # NoZone THEN PutZone(zs, active) ELSE zs
      zs1 == IF needNew
             THEN [zs0 EXCEPT ![z].ref = @ + 1, ![z].cond = "EXP_OPEN",
                              ![z].flags = @ \cup {"ACTIVE"}]
             ELSE zs0
      zs2 == [zs1 EXCEPT ![z].ref = @ + 1, ![z].wp = @ + 1,
                         ![z].weight = @ + 1, ![z].pend = @ + 1]
      full == zs2[z].wp = N
      zs3 == IF full
             THEN PutZone([zs2 EXCEPT ![z].flags = (@ \ {"ACTIVE"}) \cup {"TO_FULL"}], z)
             ELSE zs2
  IN CASE mod = "user" /\ allocable < Reserved ->
            [ret |-> "EAGAIN", zone |-> NoZone, zs |-> zs, emptyQ |-> emptyQ,
             active |-> active, allocable |-> allocable, reclaim |-> FALSE]
       [] z = NoZone ->
            [ret |-> "EAGAIN", zone |-> NoZone, zs |-> zs0, emptyQ |-> emptyQ,
             active |-> NoZone, allocable |-> allocable, reclaim |-> TRUE]
       [] OTHER ->
            [ret |-> "OK", zone |-> z, zs |-> zs3,
             emptyQ |-> IF needNew THEN Tail(emptyQ) ELSE emptyQ,
             active |-> IF full THEN NoZone ELSE z,
             allocable |-> allocable - 1, reclaim |-> FALSE]

\* (mutant) a wake-up whose EMERGENCY bit is lost.
TriggerEmergencyLost(bits) == bits

\* lbz_trigger_gc_reclaim_emergency
TriggerEmergency(bits) == bits \cup {"EMERGENCY"}

\* lbz_trigger_gc_reclaim
TriggerReclaim(bits) == bits \cup {"RECLAIMING"}

-----------------------------------------------------------------------------
(* The nat-sit rule (lbz-nat-sit.h).  lbz_create_device installs all-zero *)
(* ranges, under which no block is a checkpoint or NAT/SIT block; the 's' *)
(* proc command installs real ones.  F2FS keeps two copies of every NAT    *)
(* and SIT block in paired segments: a write to one copy makes the other   *)
(* garbage once the next checkpoint commits.                               *)

BlocksPerSegment == 512   \* set by lbz_nat_sit_add_rule
NoRule == [cp |-> 0, sit |-> 0, nat |-> 0, natBlocks |-> 0]

\* lbz_nat_sit_is_cp_block (cp_blocks = sit_blkaddr - cp_blkaddr)
IsCpBlock(b) == b >= rule.cp /\ b < rule.cp + (rule.sit - rule.cp)

\* lbz_nat_sit_is_dup_block
IsDupBlock(b) == b >= rule.sit /\ b < rule.nat + rule.natBlocks

\* lbz_nat_sit_to_free: the same offset in the paired segment.
ToFree(b) ==
  LET seg == b \div BlocksPerSegment
      pair == IF seg % 2 = 1 THEN seg - 1 ELSE seg + 1
  IN pair * BlocksPerSegment + (b % BlocksPerSegment)

\* The task type lbz_submit_io_to_iosched gives a user write of block b;
\* the model writes a checkpoint block only as the flush (REQ_PREFLUSH)
\* that commits a checkpoint.
TaskType(b) ==
  CASE IsCpBlock(b) -> "FATHER" [] IsDupBlock(b) -> "CHILD" [] OTHER -> "USER"

\* lbz_nat_sit_add_blkid: queue block b on the to-free list.
AddBlkid(b) == toFree' = toFree \cup {b}

-----------------------------------------------------------------------------
(* Attach (lbz_init_zones, lbz_init_zone): one descriptor per reported     *)
(* zone, in zone order.  Its weight is its write pointer: every block      *)
(* already written is assumed valid, though no forward or reverse map      *)
(* entry names it.  An empty zone joins the empty list, a partly written   *)
(* one is implicitly open and becomes the stream's active zone (pinned by  *)
(* lbz_get_zone), a full one joins the full list.                          *)

StartZone(z) ==
  LET w == StartWp[z] IN
  [FreshZone EXCEPT
     !.wp = w, !.weight = w,
     !.cond = CASE w = 0 -> "EMPTY" [] w < N -> "IMP_OPEN" [] OTHER -> "FULL",
     !.flags = {CASE w = 0 -> "INIT" [] w < N -> "ACTIVE" [] OTHER -> "FULL"},
     !.ref = IF 0 < w /\ w < N THEN 1 ELSE 0,
     !.data = [o \in Offs |-> IF o < w THEN Old ELSE Empty]]

\* The reported zones with write pointer in S, in zone order.
ReportedWith(S) == SelectSeq([i \in 1..NZ |-> i - 1], LAMBDA z : StartWp[z] \in S)

Init ==
  /\ zone = [z \in Zones |-> StartZone(z)]
  /\ emptyQ = ReportedWith({0})
  /\ fullQ = ReportedWith({N})
  /\ active = IF \E z \in Zones : 0 < StartWp[z] /\ StartWp[z] < N
              THEN CHOOSE z \in Zones : 0 < StartWp[z] /\ StartWp[z] < N
              ELSE NoZone
  /\ allocable = MapThenSumSet(LAMBDA z : N - StartWp[z], Zones)
  /\ map = [b \in Blocks |-> Invalid]
  /\ tree = [b \in Blocks |-> NoTask]
  /\ uw = [w \in Writers |-> IdleWriter]
  /\ gt = [o \in Offs |-> NoGc]
  /\ rd = [r \in Readers |-> [st |-> "idle", blk |-> Invalid, pbid |-> Invalid]]
  /\ gcPc = "sleep"
  /\ gcZone = NoZone
  /\ gcCur = 0
  /\ gcBits = {}
  /\ zsCur = NZ
  /\ zsSend = FALSE
  /\ nWrites = 0
  /\ oops = FALSE
  /\ panicked = FALSE
  /\ faulty = FALSE
  /\ nFaults = 0
  /\ ack = [w \in Writers |-> "none"]
  /\ stale = {}
  /\ rule = NoRule
  /\ toFree = {}
  /\ refcnt = IF "open" \in DevOps THEN 0 ELSE 1
  /\ ready = TRUE
  /\ rmPc = "none"

\* A BUG() or panic() stops the machine: no step follows one.  Nothing
\* of a device lbz_remove_device has freed runs either.
Running == ~oops /\ ~panicked /\ rmPc # "gone"

MaxRefs == 1   \* bound on dev->refcnt: one opener at a time

\* A failure of kind k may still happen.
CanFail(k) == k \in FaultKinds /\ nFaults < MaxFaults

\* The tasks on the retry and gc_writes lists.
RetryListed ==
  {w \in Writers : uw[w].st = "retry"} \cup {GcId(o) : o \in {o \in Offs : gt[o].st = "queued"}}

\* __add_integrity returns an error pointer (bio_integrity_alloc or
\* bio_integrity_add_page failed); on success it only fills the log.
IntegrityFails == CanFail("integrity")

\* lbz_dev_set_faulty, on a failure.  A retry_wk_fn run may be under way:
\* it checked is_dev_faulty before this failure and still holds some of
\* the listed tasks, which it goes on submitting.
Fault ==
  /\ faulty' = TRUE
  /\ nFaults' = nFaults + 1
  /\ stale' \in IF faulty THEN {stale} ELSE SUBSET RetryListed

\* retry_wk_fn submits task t: the device is ready and not faulty, or t was taken
\* by a run that checked before the failure.
RetryReady(t) == (~faulty /\ ready) \/ t \in stale

\* ... and t has been taken off that run's lists.
RetryDone(t) == stale' = stale \ {t} /\ UNCHANGED <<faulty, nFaults>>

-----------------------------------------------------------------------------
(* User writes: lbz_submit_io_to_iosched, __submit_write_task,             *)
(* __retry_submit_io_task and lbz_write_io_endio.                          *)

\* (mutant) admission that ignores a task already in the tree.
WriteInsertNoConflict(w, t) ==
  /\ tree' = [tree EXCEPT ![t.blk] = w]
  /\ uw' = [uw EXCEPT ![w] = [t EXCEPT !.st = "admitted", !.status = "ALLOC_RES"]]

\* __submit_write_task at LBZ_TASK_INIT for task t of writer w: insert
\* into the task tree; on a conflict the task goes to the retry list
\* (-EAGAIN), otherwise it proceeds to LBZ_TASK_ALLOC_RES.
WriteInsert(w, t) ==
  IF tree[t.blk] # NoTask
  THEN /\ uw' = [uw EXCEPT ![w] = [t EXCEPT !.st = "retry", !.status = "INIT"]]
       /\ UNCHANGED tree
  ELSE /\ tree' = [tree EXCEPT ![t.blk] = w]
       /\ uw' = [uw EXCEPT ![w] = [t EXCEPT !.st = "admitted", !.status = "ALLOC_RES"]]

\* A new user write bio for block b with payload v, on an opened device.
\* A checkpoint flush
\* goes to __lbz_submit_flush_bio_wait before lbz_dev_submit_bio's faulty
\* check, so it is submitted even on a faulty device.
WriteSubmit(w, b, v) ==
  /\ Running
  /\ UNCHANGED <<natVars, lifeVars>>
  /\ UNCHANGED devVars
  /\ refcnt > 0
  /\ ~faulty \/ IsCpBlock(b)
  /\ uw[w].st = "idle"
  /\ nWrites < MaxWrites
  /\ nWrites' = nWrites + 1
  /\ WriteInsert(w, [IdleWriter EXCEPT !.blk = b, !.val = v, !.type = TaskType(b)])
  /\ UNCHANGED <<zoneVars, map, gt, rd, gcPc, gcZone, gcCur, gcBits,
                 zsCur, zsSend, oops, panicked>>

\* lbz_dev_submit_bio on a faulty device ends the bio (of any block but a
\* checkpoint flush) at once, without setting bi_status: the writer is
\* told the write succeeded.
SubmitWhileFaulty(w, b) ==
  /\ Running
  /\ UNCHANGED <<natVars, lifeVars>>
  /\ refcnt > 0
  /\ faulty
  /\ ~IsCpBlock(b)
  /\ uw[w].st = "idle"
  /\ nWrites < MaxWrites
  /\ nWrites' = nWrites + 1
  /\ ack' = [ack EXCEPT ![w] = "ok"]
  /\ UNCHANGED <<zoneVars, taskVars, gcPc, gcZone, gcCur, gcBits, zsCur, zsSend,
                 oops, panicked, faulty, nFaults, stale>>

\* The retry worker resubmits a task that conflicted in the tree.
RetryWriteInsert(w) ==
  /\ Running
  /\ UNCHANGED <<natVars, lifeVars>>
  /\ RetryReady(w)
  /\ RetryDone(w)
  /\ UNCHANGED ack
  /\ uw[w].st = "retry" /\ uw[w].status = "INIT"
  /\ WriteInsert(w, uw[w])
  /\ UNCHANGED <<zoneVars, map, gt, rd, ctlVars>>

\* __submit_write_task at LBZ_TASK_ALLOC_RES, right after admission or
\* from the retry list.  A task carrying a pending GC task allocates as
\* GC (it may use the reserve).  -EAGAIN leaves the task in the tree and
\* triggers emergency GC; success logs the write (__add_integrity) and
\* dispatches the zone-append.
WriteAlloc(w) ==
  LET t == uw[w]
      mod == IF t.pendGc = NoTask THEN "user" ELSE "gc"
      a == AllocRes(zone, mod)
  IN
  /\ Running
  /\ UNCHANGED <<devVars, rule, lifeVars>>
  /\ ~faulty
  /\ \/ t.st = "admitted"
     \/ t.st = "retry" /\ t.status = "ALLOC_RES"
  /\ zone' = a.zs
  /\ emptyQ' = a.emptyQ
  /\ active' = a.active
  /\ allocable' = a.allocable
  /\ IF a.ret = "OK"
     THEN /\ uw' = [uw EXCEPT ![w] = [t EXCEPT !.st = "dispatch",
                                     !.status = "DISPATCH", !.zone = a.zone]]
          /\ gcBits' = IF NeedReclaim(a.allocable, WmHighPct)
                       THEN TriggerReclaim(gcBits) ELSE gcBits
          /\ oops' = oops
          \* __add_integrity of a transaction child queues the other copy
          /\ IF t.type = "CHILD" THEN AddBlkid(ToFree(t.blk)) ELSE UNCHANGED toFree
     ELSE /\ uw' = [uw EXCEPT ![w] = [t EXCEPT !.st = "retry"]]
          /\ toFree' = toFree
          /\ gcBits' = TriggerEmergency(IF a.reclaim THEN TriggerReclaim(gcBits)
                                                     ELSE gcBits)
          \* BUG_ON(mod == LBZ_ALLOC_FLAG_GC) when no empty zone is left
          /\ oops' = (oops \/ (a.reclaim /\ mod = "gc"))
  /\ UNCHANGED <<fullQ, map, tree, gt, rd, gcPc, gcZone, gcCur, zsCur, zsSend,
                 nWrites, panicked>>

\* The last task_put of a user write task t: a GC task that was handed to
\* it as pending_gc_node completes through __gc_task_callback with the
\* -ENOENT it was given, which only drops its pin on the victim.
CompletePendingGc(zs, t) ==
  IF t.pendGc = NoTask THEN zs ELSE PutZone(zs, gt[t.pendGc].rzone)

\* ... and the pending GC task is destroyed.
ReleasePendingGc(t) ==
  IF t.pendGc = NoTask THEN gt ELSE [gt EXCEPT ![t.pendGc] = NoGc]

\* bio_endio of writer w's hooked bio with status s.  A checkpoint flush
\* ends in lbz_flush_bio_endio, which wakes its submitter waiting in
\* __lbz_submit_flush_bio_wait; any other user bio is ended.
EndBio(w, s) ==
  /\ uw' = [uw EXCEPT ![w] = IF uw[w].type = "FATHER"
                             THEN [IdleWriter EXCEPT !.st = "flushed", !.type = "FATHER"]
                             ELSE IdleWriter]
  /\ ack' = [ack EXCEPT ![w] = s]

\* __submit_write_task at LBZ_TASK_IO_WRITING: the block is allocated but
\* __add_integrity fails.  The device is set faulty and the submitter
\* ends the hooked bio with BLK_STS_IOERR, which runs lbz_write_io_endio's
\* error path at once: the task leaves the tree and is dropped (a pending
\* GC task completes), the zone write completes and the allocation's
\* reference is put.
WriteIntegrityFail(w) ==
  LET t == uw[w]
      a == AllocRes(zone, IF t.pendGc = NoTask THEN "user" ELSE "gc")
      z == a.zone
  IN
  /\ Running
  /\ UNCHANGED <<natVars, lifeVars>>
  /\ ~faulty
  /\ \/ t.st = "admitted"
     \/ t.st = "retry" /\ t.status = "ALLOC_RES"
  /\ a.ret = "OK"
  /\ IntegrityFails
  /\ faulty' = TRUE
  /\ nFaults' = nFaults + 1
  /\ stale' \in SUBSET (RetryListed \ {w})
  /\ zone' = PutZone([CompletePendingGc(a.zs, t) EXCEPT ![z].pend = @ - 1], z)
  /\ emptyQ' = a.emptyQ
  /\ active' = a.active
  /\ allocable' = a.allocable
  /\ gcBits' = IF NeedReclaim(a.allocable, WmHighPct) THEN TriggerReclaim(gcBits)
               ELSE gcBits
  /\ tree' = [tree EXCEPT ![t.blk] = NoTask]
  /\ gt' = ReleasePendingGc(t)
  /\ EndBio(w, "err")
  /\ UNCHANGED <<fullQ, map, rd, gcPc, gcZone, gcCur, zsCur, zsSend, nWrites,
                 oops, panicked>>

\* lbz_write_io_endio on success: map the block to where the device put
\* it, invalidate and release the old location, record the reverse map,
\* leave the tree, drop the task (the last put completes a pending GC
\* task, which only releases its pin on the victim), then complete the
\* zone write and drop the allocation's zone reference.
WriteDone(w) ==
  LET t == uw[w]
      z == t.zone
      o == DevNext(zone, z)
      old == map[t.blk]
      zs1 == [zone EXCEPT ![z].data[o] = [blk |-> t.blk, val |-> t.val]]
      zs2 == IF old = Invalid THEN zs1 ELSE Invalidate(zs1, old)
      zs3 == [zs2 EXCEPT ![z].rmap[o] = t.blk]
      zs5 == PutZone([CompletePendingGc(zs3, t) EXCEPT ![z].pend = @ - 1], z)
  IN
  /\ Running
  /\ UNCHANGED <<natVars, lifeVars>>
  /\ t.st = "dispatch"
  /\ EndBio(w, "ok")
  /\ UNCHANGED <<faulty, nFaults, stale>>
  /\ map' = [map EXCEPT ![t.blk] = Pbid(z, o)]
  /\ tree' = [tree EXCEPT ![t.blk] = NoTask]
  /\ zone' = zs5
  /\ gt' = ReleasePendingGc(t)
  /\ UNCHANGED <<emptyQ, fullQ, active, allocable, rd, ctlVars>>

\* __submit_write_task at LBZ_TASK_ALLOC_RES on a device that became
\* faulty after the task was admitted (or after the retry worker checked):
\* lbz_zone_alloc_res returns -EIO, the task leaves the tree, emergency GC
\* is triggered, and the caller ends the bio with BLK_STS_IOERR and drops
\* the last reference, which completes a pending GC task.
WriteAllocFailed(w) ==
  LET t == uw[w] IN
  /\ Running
  /\ UNCHANGED <<natVars, lifeVars>>
  /\ faulty
  /\ \/ t.st = "admitted"
     \/ t.st = "retry" /\ t.status = "ALLOC_RES" /\ w \in stale
  /\ tree' = [tree EXCEPT ![t.blk] = NoTask]
  /\ zone' = CompletePendingGc(zone, t)
  /\ gt' = ReleasePendingGc(t)
  /\ gcBits' = TriggerEmergency(gcBits)
  /\ EndBio(w, "err")
  /\ UNCHANGED <<emptyQ, fullQ, active, allocable, map, rd, gcPc, gcZone, gcCur,
                 zsCur, zsSend, nWrites, oops, panicked>>
  /\ RetryDone(w)

\* (mutant) an endio that maps the block even though the write failed.
WriteFailMapped(w) ==
  LET t == uw[w]
      z == t.zone
  IN
  /\ Running
  /\ UNCHANGED <<natVars, lifeVars>>
  /\ t.st = "dispatch"
  /\ CanFail("io")
  /\ Fault
  /\ EndBio(w, "err")
  /\ map' = [map EXCEPT ![t.blk] = Pbid(z, DevNext(zone, z))]
  /\ tree' = [tree EXCEPT ![t.blk] = NoTask]
  /\ zone' = PutZone([CompletePendingGc(zone, t) EXCEPT ![z].pend = @ - 1], z)
  /\ gt' = ReleasePendingGc(t)
  /\ UNCHANGED <<emptyQ, fullQ, active, allocable, rd, ctlVars>>

\* lbz_write_io_endio with an error: the zone-append failed.  The device is set faulty and nothing is mapped; the
\* task leaves the tree and is dropped (a pending GC task completes with
\* the error), the zone write completes and the allocation's reference is
\* put.  The user bio ends with the error.
WriteFail(w) ==
  LET t == uw[w]
      z == t.zone
  IN
  /\ Running
  /\ UNCHANGED <<natVars, lifeVars>>
  /\ t.st = "dispatch"
  /\ CanFail("io")
  /\ Fault
  /\ EndBio(w, "err")
  /\ tree' = [tree EXCEPT ![t.blk] = NoTask]
  /\ zone' = PutZone([CompletePendingGc(zone, t) EXCEPT ![z].pend = @ - 1], z)
  /\ gt' = ReleasePendingGc(t)
  /\ UNCHANGED <<emptyQ, fullQ, active, allocable, map, rd, ctlVars>>

-----------------------------------------------------------------------------
(* The nat-sit transaction layer: lbz_nat_sit_add_rule, invoked by the    *)
(* proc 's' command, and the commit of __lbz_submit_flush_bio_wait.       *)

\* lbz_nat_sit_add_rule: the layout is replaced and the to-free list
\* re-initialised (its entries are dropped, not freed).  BUG_ON unless
\* the SIT and NAT areas start on a segment boundary.
NatSitAddRule(args) ==
  /\ rule' = args
  /\ toFree' = {}
  /\ oops' = (args.sit % BlocksPerSegment # 0 \/ args.nat % BlocksPerSegment # 0)

\* The proc 's' command (module_input) with the args it parsed, for the
\* one device; it runs whenever the administrator writes the proc file,
\* concurrently with the I/O paths.
AddRule(args) ==
  /\ Running
  /\ NatSitAddRule(args)
  /\ UNCHANGED <<zoneVars, taskVars, devVars, lifeVars, gcPc, gcZone, gcCur, gcBits,
                 zsCur, zsSend, nWrites, panicked>>

\* The queued blocks that are mapped: lbz_mapping_remove returns their pbid.
Queued == {b \in Blocks \cap toFree : map[b] # Invalid}

\* (mutant) a commit that clears the forward map only.
TxCompleteMapOnly ==
  /\ map' = [b \in Blocks |-> IF b \in Queued THEN Invalid ELSE map[b]]
  /\ toFree' = {}
  /\ UNCHANGED zone

\* (mutant) a commit that clears the reverse map but forgets
\* lbz_zone_release_global_res.
TxCompleteKeepWeight ==
  /\ map' = [b \in Blocks |-> IF b \in Queued THEN Invalid ELSE map[b]]
  /\ zone' = FoldSet(LAMBDA p, zs : InvalidateKeepWeight(zs, p), zone,
                     {map[b] : b \in Queued})
  /\ toFree' = {}

\* lbz_nat_sit_tx_complete: every queued block is removed from the forward
\* map (lbz_mapping_remove) and, where it was mapped, its reverse-map
\* entry is cleared and its zone's weight released; then the list is
\* emptied.  The walk takes no lock against lbz_nat_sit_add_blkid.
TxComplete ==
  /\ map' = [b \in Blocks |-> IF b \in Queued THEN Invalid ELSE map[b]]
  /\ zone' = FoldSet(LAMBDA p, zs : Invalidate(zs, p), zone, {map[b] : b \in Queued})
  /\ toFree' = {}

\* __lbz_submit_flush_bio_wait after lbz_flush_bio_endio woke it: if the
\* checkpoint block was written (errno == 0) the transaction completes;
\* the user's bio is ended either way.
TxCommit(w) ==
  /\ Running
  /\ uw[w].st = "flushed"
  /\ uw' = [uw EXCEPT ![w] = IdleWriter]
  /\ IF ack[w] = "ok" THEN TxComplete ELSE UNCHANGED <<map, zone, toFree>>
  /\ UNCHANGED <<emptyQ, fullQ, active, allocable, tree, gt, rd, ctlVars,
                 devVars, rule, lifeVars>>

-----------------------------------------------------------------------------
(* The GC thread (lbz_gc_thread, lbz_find_victim_zone, __gc_one_zone).    *)

\* The reclaim mode lbz_gc_thread computes; "elapsed" is whether
\* LBZ_GC_RECLAIM_MIN_INTERVAL has passed since the last reclaim.
GcMode(elapsed) ==
  IF NeedReclaim(allocable, WmLowPct) \/ "EMERGENCY" \in gcBits THEN "EMERGENCY"
  ELSE IF elapsed \/ "RECLAIMING" \in gcBits THEN "REGULAR"
  ELSE "DEFAULT"

\* lbz_find_victim_zone: the first zone of the full list with the least
\* weight, if that weight is below a whole zone (and, for a regular
\* reclaim, at most the zone watermark).  Returns an index into fullQ or 0.
FindVictim(mod) ==
  LET ws == {zone[fullQ[i]].weight : i \in 1..Len(fullQ)}
      mw == CHOOSE m \in ws : \A x \in ws : m <= x
      i == CHOOSE i \in 1..Len(fullQ) :
             /\ zone[fullQ[i]].weight = mw
             /\ \A j \in 1..(i - 1) : zone[fullQ[j]].weight > mw
  IN IF fullQ = <<>> \/ mw >= N \/ (mod = "REGULAR" /\ ~ZoneLowWm(mw))
     THEN 0 ELSE i

\* The GC thread wakes, picks a victim, pins it and marks it LBZ_ZONE_GC.
\* It reclaims only on a ready device that is not faulty; it does not
\* look at LBZ_DEV_STATE_REMOVE.
\* It does nothing while the previous victim still carries LBZ_ZONE_GC.
GcVictim ==
  /\ Running
  /\ UNCHANGED <<natVars, lifeVars>>
  /\ UNCHANGED devVars
  /\ ~faulty /\ ready
  /\ gcPc = "sleep"
  /\ ~(gcZone # NoZone /\ "GC" \in zone[gcZone].flags)
  /\ \E elapsed \in BOOLEAN :
       LET i == FindVictim(GcMode(elapsed))
           z == fullQ[i]
       IN /\ GcMode(elapsed) # "DEFAULT"
          /\ i # 0
          /\ fullQ' = [j \in 1..(Len(fullQ) - 1) |->
                         IF j < i THEN fullQ[j] ELSE fullQ[j + 1]]
          /\ zone' = [zone EXCEPT ![z].ref = @ + 1, ![z].flags = @ \cup {"GC"}]
          /\ gcZone' = z
  /\ gcPc' = "scan"
  /\ gcCur' = 0
  /\ UNCHANGED <<emptyQ, active, allocable, taskVars, gcBits, zsCur, zsSend,
                 nWrites, oops, panicked>>

\* (mutant) the loop stops one entry short of wp_block.
ScanDoneEarly == gcCur >= zone[gcZone].wp - 1

\* __gc_one_zone's loop bound: iter < zone->wp_block.
ScanDone == gcCur >= zone[gcZone].wp

\* One iteration of __gc_one_zone's reverse-map loop: a valid entry pins
\* the victim again and submits a GC task, which starts its read.
GcScan ==
  LET z == gcZone
      b == zone[z].rmap[gcCur]
  IN
  /\ Running
  /\ UNCHANGED <<natVars, lifeVars>>
  /\ UNCHANGED devVars
  /\ gcPc = "scan"
  /\ ~ScanDone
  /\ IF b = Invalid
     THEN UNCHANGED <<zone, gt>>
     ELSE /\ zone' = GetZone(zone, z)
          /\ gt' = [gt EXCEPT ![gcCur] = [st |-> "reading", blk |-> b,
                      pbid |-> Pbid(z, gcCur), val |-> Empty, rzone |-> z,
                      zone |-> NoZone]]
  /\ gcCur' = gcCur + 1
  /\ UNCHANGED <<emptyQ, fullQ, active, allocable, map, tree, uw, rd, gcPc,
                 gcZone, gcBits, zsCur, zsSend, nWrites, oops, panicked>>

\* (mutant) __gc_one_zone without its final lbz_put_zone.
GcFinishNoPut ==
  /\ Running
  /\ UNCHANGED <<natVars, lifeVars>>
  /\ UNCHANGED devVars
  /\ gcPc = "scan"
  /\ ScanDone
  /\ zone' = [zone EXCEPT ![gcZone].flags = @ \cup {"GC_COMPLETED"}]
  /\ gcPc' = "sleep"
  /\ gcBits' = gcBits \ {"EMERGENCY"}
  /\ UNCHANGED <<emptyQ, fullQ, active, allocable, taskVars, gcZone, gcCur,
                 zsCur, zsSend, nWrites, oops, panicked>>

\* The end of __gc_one_zone and of the reclaim round: mark the victim
\* LBZ_ZONE_GC_COMPLETED, drop find_victim's pin, clear EMERGENCY.
GcFinish ==
  /\ Running
  /\ UNCHANGED <<natVars, lifeVars>>
  /\ UNCHANGED devVars
  /\ gcPc = "scan"
  /\ ScanDone
  /\ zone' = PutZone([zone EXCEPT ![gcZone].flags = @ \cup {"GC_COMPLETED"}], gcZone)
  /\ gcPc' = "sleep"
  /\ gcBits' = gcBits \ {"EMERGENCY"}
  /\ UNCHANGED <<emptyQ, fullQ, active, allocable, taskVars, gcZone, gcCur,
                 zsCur, zsSend, nWrites, oops, panicked>>

-----------------------------------------------------------------------------
(* GC migration tasks (__submit_gc_task, lbz_gc_read_endio,                *)
(* lbz_gc_write_endio, __gc_task_callback).                                *)

\* lbz_gc_read_endio: the block has been read; the task waits on the
\* gc_writes list for the retry worker.
GcReadDone(o) ==
  LET t == gt[o] IN
  /\ Running
  /\ UNCHANGED <<natVars, lifeVars>>
  /\ UNCHANGED devVars
  /\ t.st = "reading"
  /\ gt' = [gt EXCEPT ![o].st = "queued",
                      ![o].val = zone[t.rzone].data[PbidOff(t.pbid)].val]
  /\ UNCHANGED <<zoneVars, map, tree, uw, rd, ctlVars>>

\* lbz_gc_read_endio with an error: the callback (status GC_READING) drops
\* the victim pin and destroys the task; the device is set faulty.
GcReadFail(o) ==
  /\ Running
  /\ UNCHANGED <<natVars, lifeVars>>
  /\ gt[o].st = "reading"
  /\ CanFail("io")
  /\ Fault
  /\ zone' = PutZone(zone, gt[o].rzone)
  /\ gt' = [gt EXCEPT ![o] = NoGc]
  /\ UNCHANGED <<emptyQ, fullQ, active, allocable, map, tree, uw, rd, ctlVars, ack>>

\* (mutant) no origin_pbid == task->pbid check after the lookup.
StillMappedUnchecked(t) == TRUE

\* The lookup's check that the block still lives where GC read it.
StillMapped(t) == map[t.blk] = t.pbid

\* __submit_gc_task at LBZ_TASK_GC_READING, from __retry_submit_gc_task.
\*  - the block has a task in the tree: hand this task to it as its
\*    pending_gc_node (-ENOENT); the holder's last put completes it;
\*  - the block was rewritten since the scan: leave the tree, and the
\*    -EEXIST callback drops the victim pin;
\*  - otherwise allocate GC space (must not fail) and dispatch the write.
\*    On a faulty device lbz_zone_alloc_res returns -EIO, and a failure
\*    of __add_integrity returns its error; __retry_submit_gc_task
\*    expects neither and calls BUG().
\* The mapping lookup pins the block's current zone and drops it again;
\* it returns -ENOENT for a block a transaction commit has freed, which
\* is skipped like a rewritten one ("already discarded").
RetryGc(o) ==
  LET t == gt[o]
      h == tree[t.blk]
      cz == PbidZone(map[t.blk])
      zs0 == IF map[t.blk] = Invalid THEN zone   \* lbz_mapping_lookup, lbz_put_zone
             ELSE PutZone(GetZone(zone, cz), cz)
      a == AllocRes(zs0, "gc")
      admit == tree' = [tree EXCEPT ![t.blk] = GcId(o)]
      allocated == /\ emptyQ' = a.emptyQ
                   /\ active' = a.active
                   /\ allocable' = a.allocable
  IN
  /\ Running
  /\ UNCHANGED <<natVars, lifeVars>>
  /\ RetryReady(GcId(o))
  /\ t.st = "queued"
  /\ \/ /\ h # NoTask
        /\ uw' = [uw EXCEPT ![h].pendGc = o]
        /\ gt' = [gt EXCEPT ![o].st = "pending"]
        /\ RetryDone(GcId(o))
        /\ UNCHANGED <<zoneVars, tree, oops>>
     \/ /\ h = NoTask
        /\ ~StillMapped(t)
        /\ zone' = PutZone(zs0, t.rzone)
        /\ gt' = [gt EXCEPT ![o] = NoGc]
        /\ RetryDone(GcId(o))
        /\ UNCHANGED <<emptyQ, fullQ, active, allocable, tree, uw, oops>>
     \/ /\ h = NoTask
        /\ StillMapped(t)
        /\ ~faulty
        /\ zone' = a.zs
        /\ allocated
        /\ oops' = (oops \/ a.ret # "OK")   \* BUG_ON(ret == -EAGAIN)
        /\ admit
        /\ gt' = [gt EXCEPT ![o].st = "dispatch", ![o].zone = a.zone]
        /\ RetryDone(GcId(o))
        /\ UNCHANGED <<fullQ, uw>>
     \/ /\ h = NoTask
        /\ StillMapped(t)
        /\ faulty
        /\ zone' = zs0
        /\ oops' = TRUE
        /\ admit
        /\ RetryDone(GcId(o))
        /\ UNCHANGED <<emptyQ, fullQ, active, allocable, uw, gt>>
     \/ /\ h = NoTask
        /\ StillMapped(t)
        /\ ~faulty
        /\ a.ret = "OK"
        /\ IntegrityFails
        /\ Fault
        /\ zone' = [a.zs EXCEPT ![a.zone].pend = @ - 1]   \* lbz_zone_complete_write
        /\ allocated
        /\ oops' = TRUE
        /\ admit
        /\ UNCHANGED <<fullQ, uw, gt>>
  /\ UNCHANGED <<map, rd, gcPc, gcZone, gcCur, gcBits, zsCur, zsSend,
                 nWrites, panicked, ack>>

\* (mutant) a GC callback that does not record the new reverse-map entry.
GcWriteDoneNoRmap(o) ==
  LET t == gt[o]
      z == t.zone
      p == DevNext(zone, z)
      old == map[t.blk]
      zs1 == [zone EXCEPT ![z].data[p] = [blk |-> t.blk, val |-> t.val],
                          ![z].pend = @ - 1]
      zs2 == IF old = Invalid THEN zs1 ELSE Invalidate(zs1, t.pbid)
  IN
  /\ Running
  /\ UNCHANGED <<natVars, lifeVars>>
  /\ UNCHANGED devVars
  /\ t.st = "dispatch"
  /\ map' = [map EXCEPT ![t.blk] = Pbid(z, p)]
  /\ oops' = (oops \/ (old # t.pbid /\ old # Invalid))
  /\ zone' = PutZone(PutZone(zs2, z), t.rzone)
  /\ tree' = [tree EXCEPT ![t.blk] = NoTask]
  /\ gt' = [gt EXCEPT ![o] = NoGc]
  /\ UNCHANGED <<emptyQ, fullQ, active, allocable, uw, rd, gcPc, gcZone,
                 gcCur, gcBits, zsCur, zsSend, nWrites, panicked>>

\* lbz_gc_write_endio: complete the zone write, then the callback maps the
\* block to its new place, invalidates and releases the old place, drops
\* the write zone and the victim pin, and leaves the tree.
\* BUG_ON(old_pbid != task->pbid && old_pbid != LBZ_INVALID_PBID).
GcWriteDone(o) ==
  LET t == gt[o]
      z == t.zone
      p == DevNext(zone, z)
      old == map[t.blk]
      zs1 == [zone EXCEPT ![z].data[p] = [blk |-> t.blk, val |-> t.val],
                          ![z].pend = @ - 1,
                          ![z].rmap[p] = t.blk]
      zs2 == IF old = Invalid THEN zs1 ELSE Invalidate(zs1, t.pbid)
  IN
  /\ Running
  /\ UNCHANGED <<natVars, lifeVars>>
  /\ UNCHANGED devVars
  /\ ~faulty
  /\ t.st = "dispatch"
  /\ map' = [map EXCEPT ![t.blk] = Pbid(z, p)]
  /\ oops' = (oops \/ (old # t.pbid /\ old # Invalid))
  /\ zone' = PutZone(PutZone(zs2, z), t.rzone)
  /\ tree' = [tree EXCEPT ![t.blk] = NoTask]
  /\ gt' = [gt EXCEPT ![o] = NoGc]
  /\ UNCHANGED <<emptyQ, fullQ, active, allocable, uw, rd, gcPc, gcZone,
                 gcCur, gcBits, zsCur, zsSend, nWrites, panicked>>

\* lbz_gc_write_endio when the write failed, or succeeded on a device that
\* is already faulty: __gc_task_callback maps nothing (task->error or
\* is_dev_faulty), puts the write zone, leaves the tree and drops the
\* victim pin, so the block stays where GC read it.  A write that landed
\* occupies its slot on the device all the same.
GcWriteFail(o) ==
  LET t == gt[o]
      z == t.zone
      zs1 == [zone EXCEPT ![z].pend = @ - 1]
      landed == [zs1 EXCEPT ![z].data[DevNext(zone, z)] = [blk |-> t.blk, val |-> t.val]]
  IN
  /\ Running
  /\ UNCHANGED <<natVars, lifeVars>>
  /\ t.st = "dispatch"
  /\ \/ /\ CanFail("io")
        /\ Fault
        /\ zone' = PutZone(PutZone(zs1, z), t.rzone)
     \/ /\ faulty
        /\ UNCHANGED <<faulty, nFaults, stale>>
        /\ zone' = PutZone(PutZone(landed, z), t.rzone)
  /\ tree' = [tree EXCEPT ![t.blk] = NoTask]
  /\ gt' = [gt EXCEPT ![o] = NoGc]
  /\ UNCHANGED <<emptyQ, fullQ, active, allocable, map, uw, rd, ctlVars, ack>>

-----------------------------------------------------------------------------
(* User reads: __submit_read_io and lbz_read_io_endio.  A read of an       *)
(* unmapped block completes with zeroes and changes nothing.               *)

\* (mutant) a lookup that does not take the zone reference.
ReadStartNoPin(r, b) ==
  /\ Running
  /\ UNCHANGED <<natVars, lifeVars>>
  /\ UNCHANGED devVars
  /\ refcnt > 0 /\ ~faulty
  /\ rd[r].st = "idle"
  /\ map[b] # Invalid
  /\ rd' = [rd EXCEPT ![r] = [st |-> "reading", blk |-> b, pbid |-> map[b]]]
  /\ UNCHANGED <<zone, emptyQ, fullQ, active, allocable, map, tree, uw, gt, ctlVars>>

\* lbz_mapping_lookup pins the zone holding the block under the leaf lock;
\* the read is then submitted at that pbid.
ReadStart(r, b) ==
  /\ Running
  /\ UNCHANGED <<natVars, lifeVars>>
  /\ UNCHANGED devVars
  /\ refcnt > 0 /\ ~faulty
  /\ rd[r].st = "idle"
  /\ map[b] # Invalid
  /\ zone' = GetZone(zone, PbidZone(map[b]))
  /\ rd' = [rd EXCEPT ![r] = [st |-> "reading", blk |-> b, pbid |-> map[b]]]
  /\ UNCHANGED <<emptyQ, fullQ, active, allocable, map, tree, uw, gt, ctlVars>>

\* lbz_read_io_endio drops the lookup's pin.
ReadDone(r) ==
  /\ Running
  /\ UNCHANGED <<natVars, lifeVars>>
  /\ UNCHANGED devVars
  /\ rd[r].st = "reading"
  /\ zone' = PutZone(zone, PbidZone(rd[r].pbid))
  /\ rd' = [rd EXCEPT ![r] = [st |-> "idle", blk |-> Invalid, pbid |-> Invalid]]
  /\ UNCHANGED <<emptyQ, fullQ, active, allocable, map, tree, uw, gt, ctlVars>>

\* lbz_read_io_endio with an error: the device is set faulty, the user
\* bio ends with the error and the lookup's pin is dropped.
ReadFail(r) ==
  /\ Running
  /\ UNCHANGED <<natVars, lifeVars>>
  /\ rd[r].st = "reading"
  /\ CanFail("io")
  /\ Fault
  /\ zone' = PutZone(zone, PbidZone(rd[r].pbid))
  /\ rd' = [rd EXCEPT ![r] = [st |-> "idle", blk |-> Invalid, pbid |-> Invalid]]
  /\ UNCHANGED <<emptyQ, fullQ, active, allocable, map, tree, uw, gt, ctlVars, ack>>

-----------------------------------------------------------------------------
(* The zone-state worker (zone_state_wk_fn), queued by a periodic timer.   *)
(* Its loop runs one zone per step; send_zone_mgmgt is declared once       *)
(* before the loop and never cleared inside it, as in the code.            *)

\* __zs_timer_fn queues the work; the loop starts at zone 0.
ZsStart ==
  /\ Running
  /\ UNCHANGED <<natVars, lifeVars>>
  /\ UNCHANGED devVars
  /\ ~faulty /\ ready
  /\ zsCur = NZ
  /\ zsCur' = 0
  /\ zsSend' = FALSE
  /\ UNCHANGED <<zoneVars, taskVars, gcPc, gcZone, gcCur, gcBits, nWrites,
                 oops, panicked>>

\* A TO_FULL zone whose writes have all completed (cond FULL) is closed:
\* its flags become exactly LBZ_ZONE_FULL and it joins the full list.
ZsClose(i, send) ==
  /\ zone' = [zone EXCEPT ![i].cond = IF @ = "FULL" THEN "CLOSED" ELSE @,
                          ![i].flags = IF send THEN {"FULL"} ELSE @]
  /\ fullQ' = IF send THEN Append(fullQ, i) ELSE fullQ
  /\ UNCHANGED <<emptyQ, active, allocable, gcBits, panicked>>

\* (mutant) a reset that does not give the zone's blocks back.
ZsResetNoCredit(i, send) ==
  /\ panicked' = (send /\ zone[i].weight # 0)
  /\ IF send /\ zone[i].weight = 0
     THEN /\ zone' = [zone EXCEPT ![i].wp = 0, ![i].cond = "EMPTY",
                        ![i].flags = {"INIT"}, ![i].rmap = FreshZone.rmap,
                        ![i].data = FreshZone.data]
          /\ emptyQ' = Append(emptyQ, i)
          /\ allocable' = allocable
     ELSE UNCHANGED <<zone, emptyQ, allocable>>
  /\ gcBits' = IF send /\ zone[i].weight # 0 THEN gcBits
               ELSE gcBits \ {"RECLAIMING"}
  /\ UNCHANGED <<fullQ, active>>

\* An unreferenced GC zone whose last put marked it EMPTY is reset
\* (panic if it still has valid blocks), returned to the empty list and
\* its blocks to nr_allocable_blks; RECLAIMING is cleared either way.
ZsReset(i, send) ==
  /\ panicked' = (send /\ zone[i].weight # 0)
  /\ IF send /\ zone[i].weight = 0
     THEN /\ zone' = [zone EXCEPT ![i].wp = 0, ![i].cond = "EMPTY",
                        ![i].flags = {"INIT"}, ![i].rmap = FreshZone.rmap,
                        ![i].data = FreshZone.data]
          /\ emptyQ' = Append(emptyQ, i)
          /\ allocable' = allocable + N
     ELSE UNCHANGED <<zone, emptyQ, allocable>>
  /\ gcBits' = IF send /\ zone[i].weight # 0 THEN gcBits
               ELSE gcBits \ {"RECLAIMING"}
  /\ UNCHANGED <<fullQ, active>>

\* send_zone_mgmgt after the checks of zone i.
SendZoneMgmt(i) ==
  \/ zsSend
  \/ "TO_FULL" \in zone[i].flags /\ zone[i].cond = "FULL"
  \/ "TO_FULL" \notin zone[i].flags /\ zone[i].ref = 0
     /\ "GC" \in zone[i].flags /\ zone[i].cond = "EMPTY"

\* One iteration of the loop, at zone zsCur.
ZsStep ==
  LET i == zsCur
      z == zone[i]
      send == SendZoneMgmt(i)
  IN
  /\ Running
  /\ UNCHANGED <<natVars, lifeVars>>
  /\ UNCHANGED devVars
  /\ zsCur < NZ
  /\ zsCur' = i + 1
  /\ zsSend' = send
  /\ CASE "TO_FULL" \in z.flags -> ZsClose(i, send)
       [] z.ref = 0 /\ "GC" \in z.flags -> ZsReset(i, send)
       [] OTHER -> UNCHANGED <<zoneVars, gcBits, panicked>>
  /\ UNCHANGED <<taskVars, gcPc, gcZone, gcCur, nWrites, oops>>

\* lbz_reset_zone fails: the device is set faulty and the loop ends
\* ("goto out") before the panic check and lbz_complete_one_zone.
ZsResetFailed ==
  LET i == zsCur IN
  /\ Running
  /\ UNCHANGED <<natVars, lifeVars>>
  /\ zsCur < NZ
  /\ "TO_FULL" \notin zone[i].flags /\ zone[i].ref = 0 /\ "GC" \in zone[i].flags
  /\ SendZoneMgmt(i)
  /\ CanFail("io")
  /\ Fault
  /\ zsCur' = NZ
  /\ zsSend' = TRUE
  /\ UNCHANGED <<zoneVars, taskVars, gcPc, gcZone, gcCur, gcBits, nWrites,
                 oops, panicked, ack>>

-----------------------------------------------------------------------------
(* Device lifecycle (lbz-dev.c): open_dev and release_dev keep dev->refcnt; *)
(* lbz_remove_device sets LBZ_DEV_STATE_REMOVE, waits until no I/O is in   *)
(* flight and the device is closed, clears LBZ_DEV_STATE_READY and tears   *)
(* the device down.  Its drain check and the clearing of READY are two    *)
(* steps: the GC thread, the retry worker and the zone-state worker look   *)
(* only at READY and FAULTY.                                               *)

\* What lbz_remove_device waits for: user_write_inflight_io_cnt,
\* gc_inflight_io_cnt and user_read_inflight_io_cnt all zero.  A writer
\* whose checkpoint flush has completed ("flushed") is no longer counted:
\* lbz_write_io_endio has decremented the count before it woke.
Drained ==
  /\ \A w \in Writers : uw[w].st \in {"idle", "flushed"}
  /\ \A o \in Offs : gt[o].st = "none"
  /\ \A r \in Readers : rd[r].st = "idle"

\* (mutant) an open that does not refuse a device being removed.
OpenDevNoRemoveCheck ==
  /\ Running
  /\ "open" \in DevOps
  /\ ~faulty /\ ready
  /\ refcnt < MaxRefs
  /\ refcnt' = refcnt + 1
  /\ UNCHANGED <<ready, rmPc>>
  /\ UNCHANGED lbzVars

\* open_dev: refused on a faulty, removed or unready device.
OpenDev ==
  /\ Running
  /\ "open" \in DevOps
  /\ ~faulty /\ rmPc = "none" /\ ready
  /\ refcnt < MaxRefs
  /\ refcnt' = refcnt + 1
  /\ UNCHANGED <<ready, rmPc>>
  /\ UNCHANGED lbzVars

\* No user bio in flight: user_write_inflight_io_cnt and
\* user_read_inflight_io_cnt are zero.
UserDrained ==
  /\ \A w \in Writers : uw[w].st \in {"idle", "flushed"}
  /\ \A r \in Readers : rd[r].st = "idle"

\* release_dev: its loop waits until no user bio is in flight or the
\* device is faulty, then drops the reference.
ReleaseDev ==
  /\ Running
  /\ "open" \in DevOps
  /\ refcnt > 0
  /\ UserDrained \/ faulty
  /\ refcnt' = refcnt - 1
  /\ UNCHANGED <<ready, rmPc>>
  /\ UNCHANGED lbzVars

\* lbz_remove_device sets LBZ_DEV_STATE_REMOVE.
RemoveStart ==
  /\ Running
  /\ "remove" \in DevOps
  /\ rmPc = "none"
  /\ rmPc' = "wait"
  /\ UNCHANGED <<refcnt, ready>>
  /\ UNCHANGED lbzVars

\* Its wait loop ends once gc_inflight_io_cnt, the user in-flight counts
\* and refcnt are all zero at one check.
RemoveDrained ==
  /\ Running
  /\ rmPc = "wait"
  /\ Drained
  /\ refcnt = 0
  /\ rmPc' = "drained"
  /\ UNCHANGED <<refcnt, ready>>
  /\ UNCHANGED lbzVars

\* lbz_dev_set_unready.
RemoveUnready ==
  /\ Running
  /\ rmPc = "drained"
  /\ ready' = FALSE
  /\ rmPc' = "unready"
  /\ UNCHANGED refcnt
  /\ UNCHANGED lbzVars

\* lbz_destroy_gc_thread: kthread_stop returns once the thread has left
\* __gc_one_zone and seen kthread_should_stop at its sleep label.
GcThreadStopped == gcPc = "sleep"

\* lbz_destroy_zone_metadata: destroy_workqueue lets a running
\* zone_state_wk_fn finish first.
ZsWorkDrained == zsCur = NZ

\* The rest of lbz_remove_device: the proc entry, nat-sit manager, GC
\* thread, I/O scheduler, mapping and zone metadata are destroyed and
\* freed, then the device itself.
RemoveTeardown ==
  /\ Running
  /\ rmPc = "unready"
  /\ GcThreadStopped
  /\ ZsWorkDrained
  /\ rmPc' = "gone"
  /\ UNCHANGED <<refcnt, ready>>
  /\ UNCHANGED lbzVars

-----------------------------------------------------------------------------
Next ==
  \/ \E w \in Writers, b \in Blocks, v \in Values : WriteSubmit(w, b, v)
  \/ \E w \in Writers : RetryWriteInsert(w) \/ WriteAlloc(w) \/ WriteDone(w)
  \/ \E w \in Writers, b \in Blocks : SubmitWhileFaulty(w, b)
  \/ \E w \in Writers : WriteAllocFailed(w) \/ WriteFail(w) \/ WriteIntegrityFail(w)
  \/ \E w \in Writers : TxCommit(w)
  \/ \E args \in NatSitRules : AddRule(args)
  \/ GcVictim \/ GcScan \/ GcFinish
  \/ \E o \in Offs : GcReadDone(o) \/ RetryGc(o) \/ GcWriteDone(o)
  \/ \E o \in Offs : GcReadFail(o) \/ GcWriteFail(o)
  \/ \E r \in Readers, b \in Blocks : ReadStart(r, b)
  \/ \E r \in Readers : ReadDone(r) \/ ReadFail(r)
  \/ ZsStart \/ ZsStep \/ ZsResetFailed
  \/ OpenDev \/ ReleaseDev
  \/ RemoveStart \/ RemoveDrained \/ RemoveUnready \/ RemoveTeardown

Spec == Init /\ [][Next]_vars

\* The retry worker, the GC thread and the zone-state worker are re-armed
\* by periodic timers (__retry_timer_fn, __gc_timer_fn, __zs_timer_fn),
\* and the device completes every bio it accepts: each of their steps is
\* weakly fair.  The -EIO path of a submission already under way and the
\* completion of a GC write on a faulty device are fair too, and so is
\* the commit of a checkpoint flush, which its submitter runs as soon as
\* the flush's endio wakes it.  lbz_remove_device re-checks its drain
\* condition every second (wait_event_timeout with HZ) and then runs
\* straight on.  Users are not obliged to submit anything or to close
\* the device, and no failure is obliged to happen.
Fairness ==
  /\ \A w \in Writers : WF_vars(RetryWriteInsert(w)) /\ WF_vars(WriteAlloc(w))
                        /\ WF_vars(WriteDone(w))
  /\ WF_vars(GcVictim) /\ WF_vars(GcScan) /\ WF_vars(GcFinish)
  /\ \A o \in Offs : WF_vars(GcReadDone(o)) /\ WF_vars(RetryGc(o))
                     /\ WF_vars(GcWriteDone(o))
  /\ \A r \in Readers : WF_vars(ReadDone(r))
  /\ WF_vars(ZsStart) /\ WF_vars(ZsStep)
  /\ \A w \in Writers : WF_vars(WriteAllocFailed(w)) /\ WF_vars(TxCommit(w))
  /\ \A o \in Offs : WF_vars(GcWriteFail(o))
  /\ WF_vars(RemoveDrained) /\ WF_vars(RemoveUnready) /\ WF_vars(RemoveTeardown)

FairSpec == Spec /\ Fairness

-----------------------------------------------------------------------------
(* Properties                                                              *)

Task == Writers \cup {GcId(o) : o \in Offs}
Slot == [blk : Blocks, val : Values] \cup {Empty, Old}
ZoneRec == [flags : SUBSET {"INIT", "ACTIVE", "TO_FULL", "FULL", "GC", "GC_COMPLETED"},
            cond : {"EMPTY", "IMP_OPEN", "EXP_OPEN", "FULL", "CLOSED"},
            ref : Nat, wp : 0..N, weight : Int, pend : Nat,
            rmap : [Offs -> Blocks \cup {Invalid}], data : [Offs -> Slot]]

TypeOK ==
  /\ zone \in [Zones -> ZoneRec]
  /\ emptyQ \in Seq(Zones) /\ fullQ \in Seq(Zones)
  /\ active \in Zones \cup {NoZone}
  /\ allocable \in 0..Total
  /\ map \in [Blocks -> 0..(Total - 1) \cup {Invalid}]
  /\ tree \in [Blocks -> Task \cup {NoTask}]
  /\ \A w \in Writers :
       /\ uw[w].st \in {"idle", "admitted", "retry", "dispatch", "flushed"}
       /\ uw[w].type \in {"USER", "FATHER", "CHILD"}
       /\ uw[w].pendGc \in Offs \cup {NoTask}
  /\ \A o \in Offs : gt[o].st \in {"none", "reading", "queued", "pending", "dispatch"}
  /\ gcPc \in {"sleep", "scan"} /\ zsCur \in 0..NZ
  /\ gcBits \subseteq {"RECLAIMING", "EMERGENCY"}
  /\ faulty \in BOOLEAN /\ nFaults \in 0..MaxFaults
  /\ ack \in [Writers -> {"none", "ok", "err"}]
  /\ stale \subseteq Task
  /\ rule \in NatSitRules \cup {NoRule}
  /\ toFree \subseteq Nat

\* Blocks of zone z that a completed write made valid, plus the writes
\* allocated in z that have not completed.
ValidIn(z) == Quantify(Offs, LAMBDA o : zone[z].rmap[o] # Invalid)
InFlightTo(z) ==
  Quantify(Writers, LAMBDA w : uw[w].st = "dispatch" /\ uw[w].zone = z)
  + Quantify(Offs, LAMBDA o : gt[o].st = "dispatch" /\ gt[o].zone = z)

\* A zone's weight counts exactly its valid blocks and the writes still in
\* flight to it.  The user write endio, the GC callback and a pending GC
\* task completed by a user write's last task_put each move a block and
\* release the old zone's weight; a missed or doubled release makes GC
\* pick the wrong victim or reset a zone holding live data.
WeightAccounting ==
  \A z \in Zones : zone[z].weight = ValidIn(z) + InFlightTo(z)

\* nr_allocable_blks equals the space left unallocated in every zone: the
\* allocator takes one block at a time and the reset of a reclaimed zone
\* gives back exactly zone_nr_blocks.
AllocatableAccounting ==
  allocable = MapThenSumSet(LAMBDA z : N - zone[z].wp, Zones)

\* The forward map and the reverse maps agree: a mapped block is recorded
\* at its place, the device holds it there, and every reverse-map entry
\* names a block that is mapped to that place.  Both the write endio and
\* the GC callback update the two maps in several steps.
MapsAgree ==
  /\ \A b \in Blocks : map[b] # Invalid =>
       LET z == PbidZone(map[b]) IN
       /\ zone[z].rmap[PbidOff(map[b])] = b
       /\ zone[z].data[PbidOff(map[b])] # Empty
       /\ zone[z].data[PbidOff(map[b])].blk = b
  /\ \A z \in Zones, o \in Offs :
       zone[z].rmap[o] # Invalid => map[zone[z].rmap[o]] = Pbid(z, o)

\* A read pinned by lbz_mapping_lookup still finds its block on the
\* device when it completes: the zone-state worker never resets a zone a
\* reader holds, whatever GC does to the block meanwhile.
ReadSeesItsBlock ==
  \A r \in Readers : rd[r].st = "reading" =>
    LET d == zone[PbidZone(rd[r].pbid)].data[PbidOff(rd[r].pbid)]
    IN d # Empty /\ d.blk = rd[r].blk

\* No BUG_ON fires: a GC write never fails to allocate (the reserve of
\* one zone suffices) and the GC callback never finds the block remapped.
NoBug == ~oops

\* The zone-state worker never resets a zone that still holds valid blocks
\* (the panic in zone_state_wk_fn).
NoPanic == ~panicked

\* Every user write that is submitted eventually completes, however often
\* it meets a conflicting task in the tree or finds no space (-EAGAIN):
\* the retry worker, GC and the zone-state worker together free space for it.
WriteCompletes == \A w \in Writers : uw[w].st # "idle" ~> uw[w].st = "idle"

\* A zone GC has taken as its victim is eventually reset and back on the
\* empty list: its GC tasks finish and every pin on it is dropped (or
\* the device has been removed).
VictimReclaimed ==
  \A z \in Zones : "GC" \in zone[z].flags ~> "INIT" \in zone[z].flags \/ rmPc = "gone"

\* spec.md, "Device faulty": after the device becomes faulty, operations in
\* flight drain normally, so lbz_remove_device's wait loop ends.  The
\* retry worker (retry_wk_fn) returns at once on a faulty device.
FaultDrains == faulty ~> Drained

\* lbz_remove_device ("wait io complete") tears the device down only
\* with no I/O in flight: no GC task, user write or user read still
\* holds the scheduler, zones or mapping it frees.  The GC thread checks
\* READY, not REMOVE, and READY is cleared only after the drain check.
TeardownQuiesced == rmPc = "gone" => Drained

\* Once the device has been closed by all its users, removal finishes:
\* open_dev refuses a device being removed, so the drain condition is
\* reached and stays reached, and every later step of lbz_remove_device
\* runs.
RemoveCompletes == rmPc = "wait" /\ refcnt = 0 ~> rmPc = "gone"

-----------------------------------------------------------------------------
(* Refinement: lbz implements a block device (BlockStore).  A block's      *)
(* contents are the payload the device holds where the forward map points; *)
(* a writer's request is the user bio it has in flight.                    *)

Zero == Empty
None == NoTask

BlockContents(b) ==
  IF map[b] = Invalid \/ zone[PbidZone(map[b])].data[PbidOff(map[b])] = Empty THEN Zero
  ELSE zone[PbidZone(map[b])].data[PbidOff(map[b])].val

\* A checkpoint flush whose write completed ("flushed") has taken effect;
\* its submitter has only the commit left to do.
UserReq(w) ==
  IF uw[w].st \in {"idle", "flushed"} THEN None ELSE [blk |-> uw[w].blk, val |-> uw[w].val]

\* The status the writer's last bio completed with (bi_status), while it
\* has none in flight.
UserResp(w) ==
  IF uw[w].st \in {"idle", "flushed"} /\ ack[w] # "none" THEN ack[w] ELSE None

Abs == INSTANCE BlockStore WITH
         mem <- [b \in Blocks |-> BlockContents(b)],
         req <- [w \in Writers |-> UserReq(w)],
         resp <- [w \in Writers |-> UserResp(w)]

\* Every lbz step is a step of the block device or leaves it unchanged:
\* GC migration, zone resets and retries never change what a block reads
\* as, a user write takes effect exactly when its endio maps it, and the
\* commit of a checkpoint frees (discards) the blocks it had queued.
ImplementsBlockStore == Abs!Spec

\* When the device fails, and at every step after, no block changes what it
\* reads as except by a user write whose endio maps it and reports
\* success, or by the commit of a checkpoint that was written: a failed
\* zone-append, a failed integrity log, a failed GC
\* read or write, and a GC write completing on a faulty device all leave
\* the mapping alone.
FaultKeepsBlocks ==
  [][faulty' =>
       \A b \in Blocks : BlockContents(b)' # BlockContents(b) =>
         \E w \in Writers :
           \/ /\ uw[w].st = "dispatch" /\ uw[w].blk = b
              /\ uw'[w].st \in {"idle", "flushed"} /\ ack'[w] = "ok"
              /\ BlockContents(b)' = uw[w].val
           \/ /\ uw[w].st = "flushed" /\ ack[w] = "ok"
              /\ uw'[w].st = "idle" /\ BlockContents(b)' = Zero]_vars

=============================================================================
