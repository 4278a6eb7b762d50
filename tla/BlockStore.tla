----------------------------- MODULE BlockStore -----------------------------
(***************************************************************************)
(* What lbz promises its users: a block device.  Every logical block holds *)
(* the payload of the last write to it that completed, or zeroes if none   *)
(* has; a write takes effect at one instant between its submission and its *)
(* completion, and its caller is told it succeeded.  A write that fails    *)
(* leaves every block unchanged and is reported as failed; blocks the     *)
(* file system frees read as zeroes again.  Where blocks live, garbage     *)
(* collection and zone management are invisible at this level.            *)
(***************************************************************************)
CONSTANTS
  Blocks,   \* logical block ids
  Values,   \* block payloads
  Writers,  \* write contexts, one bio in flight each
  Zero,     \* the contents of a block never written
  None      \* no write in flight

VARIABLES
  mem,      \* block -> its current contents
  req,      \* writer -> the write it has in flight, or None
  resp      \* writer -> how its last write completed: "ok", "err", or None

Req == [blk : Blocks, val : Values]

TypeOK ==
  /\ mem \in [Blocks -> Values \cup {Zero}]
  /\ req \in [Writers -> Req \cup {None}]
  /\ resp \in [Writers -> {"ok", "err", None}]

Init ==
  /\ mem = [b \in Blocks |-> Zero]
  /\ req = [w \in Writers |-> None]
  /\ resp = [w \in Writers |-> None]

\* A writer submits a write of v to block b.
Submit(w, b, v) ==
  /\ req[w] = None
  /\ req' = [req EXCEPT ![w] = [blk |-> b, val |-> v]]
  /\ resp' = [resp EXCEPT ![w] = None]
  /\ UNCHANGED mem

\* The write of writer w takes effect and completes.
Complete(w) ==
  /\ req[w] # None
  /\ mem' = [mem EXCEPT ![req[w].blk] = req[w].val]
  /\ req' = [req EXCEPT ![w] = None]
  /\ resp' = [resp EXCEPT ![w] = "ok"]

\* The write of writer w fails without changing any block.
Fail(w) ==
  /\ req[w] # None
  /\ req' = [req EXCEPT ![w] = None]
  /\ resp' = [resp EXCEPT ![w] = "err"]
  /\ UNCHANGED mem

\* The blocks in F are discarded: the file system has freed them, and
\* they read as never written.
Discard(F) ==
  /\ mem' = [b \in Blocks |-> IF b \in F THEN Zero ELSE mem[b]]
  /\ UNCHANGED <<req, resp>>

Next ==
  \/ \E w \in Writers, b \in Blocks, v \in Values : Submit(w, b, v)
  \/ \E w \in Writers : Complete(w) \/ Fail(w)
  \/ \E F \in SUBSET Blocks : Discard(F)

Spec == Init /\ [][Next]_<<mem, req, resp>>
=============================================================================
