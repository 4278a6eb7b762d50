------------------------------ MODULE LongBio ------------------------------
(***************************************************************************)
(* lbz_dev_submit_bio's handling of a user write longer than one 4 KiB    *)
(* block (lbz-request.c).  The bio is split front to back: each split is   *)
(* counted in ctx->remaining before it is handed to the I/O scheduler, and *)
(* the remainder of the user bio itself is submitted last as the tail.     *)
(* Every piece completes through lbz_write_io_endio, which reads the       *)
(* piece's bi_status, and then lbz_long_bio_endio, which folds an error    *)
(* into the user bio's bi_status and ends the user bio when remaining      *)
(* reaches zero.  The tail is the user bio, so the two share bi_status.    *)
(* The scheduler is abstracted to a completion of every piece, with a      *)
(* result the device chooses; lbz.tla models what happens inside it.       *)
(***************************************************************************)
EXTENDS Integers

CONSTANT NParts   \* 4 KiB blocks in the user bio (bio_sectors / max_sectors)

ASSUME NParts \in Nat /\ NParts >= 2   \* only bio_sectors > max_sectors splits

Parts == 1..NParts
Tail == NParts              \* bio_split cuts from the front; the tail is last
Result == {"ok", "err"}

VARIABLES
  pc,          \* the submitter: "idle", "split" (in the loop), "submitted"
  nSplit,      \* splits submitted so far
  remaining,   \* ctx->remaining
  st,          \* piece -> "none", "inflight", "done"
  dev,         \* piece -> the device's result ("none" until it completes)
  seen,        \* piece -> the errno lbz_write_io_endio read for it
  userStatus,  \* user_bio->bi_status
  ended        \* calls of the user's bi_end_io

vars == <<pc, nSplit, remaining, st, dev, seen, userStatus, ended>>

Init ==
  /\ pc = "idle"
  /\ nSplit = 0
  /\ remaining = 0
  /\ st = [i \in Parts |-> "none"]
  /\ dev = [i \in Parts |-> "none"]
  /\ seen = [i \in Parts |-> "none"]
  /\ userStatus = "ok"
  /\ ended = 0

\* (mutant) the context counts the tail twice.
SubmitRemaining2 ==
  /\ pc = "idle"
  /\ pc' = "split"
  /\ remaining' = 2
  /\ UNCHANGED <<nSplit, st, dev, seen, userStatus, ended>>

\* The context is allocated with remaining = 1, which stands for the tail.
Submit ==
  /\ pc = "idle"
  /\ pc' = "split"
  /\ remaining' = 1
  /\ UNCHANGED <<nSplit, st, dev, seen, userStatus, ended>>

\* (mutant) a split submitted without atomic_inc(&ctx->remaining).
SplitNoInc ==
  /\ pc = "split"
  /\ nSplit < NParts - 1
  /\ st' = [st EXCEPT ![nSplit + 1] = "inflight"]
  /\ nSplit' = nSplit + 1
  /\ UNCHANGED <<pc, remaining, dev, seen, userStatus, ended>>

\* One iteration of the split loop: atomic_inc(&ctx->remaining), then
\* lbz_submit_io_to_iosched(split).
Split ==
  /\ pc = "split"
  /\ nSplit < NParts - 1
  /\ remaining' = remaining + 1
  /\ st' = [st EXCEPT ![nSplit + 1] = "inflight"]
  /\ nSplit' = nSplit + 1
  /\ UNCHANGED <<pc, dev, seen, userStatus, ended>>

\* The loop ends; the user bio (the tail) gets lbz_long_bio_endio as its
\* end_io and is submitted.
SubmitTail ==
  /\ pc = "split"
  /\ nSplit = NParts - 1
  /\ pc' = "submitted"
  /\ st' = [st EXCEPT ![Tail] = "inflight"]
  /\ UNCHANGED <<nSplit, remaining, dev, seen, userStatus, ended>>

\* The errno lbz_write_io_endio reads from bio->bi_status when piece i
\* completes with device result r: a split has its own bi_status, the
\* tail's is the user bio's, where earlier pieces may have left an error.
EndioStatus(i, r) ==
  IF r = "err" \/ (i = Tail /\ userStatus = "err") THEN "err" ELSE "ok"

\* (mutant) the error is copied without the !user_bio->bi_status test.
MergeStatusOverwrite(s) == s

\* if (bio->bi_status && !user_bio->bi_status) user_bio->bi_status = ...
MergeStatus(s) == IF s = "err" /\ userStatus = "ok" THEN "err" ELSE userStatus

\* Piece i completes with device result r: lbz_write_io_endio reads its
\* status, __unhook_io calls lbz_long_bio_endio, which merges the status
\* and ends the user bio on the last atomic_dec_and_test.
PieceDone(i, r) ==
  LET s == EndioStatus(i, r) IN
  /\ st[i] = "inflight"
  /\ st' = [st EXCEPT ![i] = "done"]
  /\ dev' = [dev EXCEPT ![i] = r]
  /\ seen' = [seen EXCEPT ![i] = s]
  /\ userStatus' = MergeStatus(s)
  /\ remaining' = remaining - 1
  /\ ended' = IF remaining = 1 THEN ended + 1 ELSE ended
  /\ UNCHANGED <<pc, nSplit>>

Next ==
  \/ Submit \/ Split \/ SubmitTail
  \/ \E i \in Parts, r \in Result : PieceDone(i, r)

\* The submitter runs to the end of its loop, and the scheduler completes
\* every piece it is given.
Spec ==
  /\ Init /\ [][Next]_vars
  /\ WF_vars(Submit) /\ WF_vars(Split) /\ WF_vars(SubmitTail)
  /\ \A i \in Parts : WF_vars(\E r \in Result : PieceDone(i, r))

-----------------------------------------------------------------------------
TypeOK ==
  /\ pc \in {"idle", "split", "submitted"}
  /\ nSplit \in 0..(NParts - 1)
  /\ remaining \in 0..NParts
  /\ st \in [Parts -> {"none", "inflight", "done"}]
  /\ dev \in [Parts -> Result \cup {"none"}]
  /\ seen \in [Parts -> Result \cup {"none"}]
  /\ userStatus \in Result
  /\ ended \in Nat

\* The user bio is ended exactly once, and only after every piece has
\* completed: a split completing while the loop is still submitting later
\* splits never brings ctx->remaining to zero early.
EndsOnceAfterAllPieces ==
  /\ ended <= 1
  /\ ended = 1 => \A i \in Parts : st[i] = "done"

\* When the user bio ends, its status is an error exactly when the device
\* failed some piece: no later successful piece clears an earlier error.
ReportsFailure ==
  ended = 1 => (userStatus = "err" <=> \E i \in Parts : dev[i] = "err")

\* A submitted user bio is eventually ended.
UserBioEnds == pc # "idle" ~> ended = 1

\* Each piece's lbz_write_io_endio sees the result of its own write, so a
\* block the device wrote is mapped and one it failed is not.
EndioSeesOwnStatus == \A i \in Parts : st[i] = "done" => seen[i] = dev[i]

=============================================================================
