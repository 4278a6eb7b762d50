------------------------------- MODULE MCLbz -------------------------------
(* Lbz instantiated for TLC: three zones of two blocks, two logical blocks *)
(* with two payloads.  The watermark percentages are scaled so that the    *)
(* watermarks are not rounded to zero at this device size.                 *)
EXTENDS Lbz

CONSTANTS v1, v2, w1, w2, r1

MCBlocks == {1, 2}
MCValues == {v1, v2}
MCOneValue == {v1}
MCWriters1 == {w1}
MCWriters2 == {w1, w2}
MCReaders == {r1}
MCNoReaders == {}
MCNoFaults == {}
MCIoFaults == {"io"}
MCIntegrityFaults == {"integrity"}
MCAllFaults == {"io", "integrity"}
\* Zone reports at attach: a device whose zones are all empty, and one
\* detached earlier with its first zone partly written.
MCFreshDevice == [z \in Zones |-> 0]
MCReattach == [z \in Zones |-> IF z = 0 THEN 1 ELSE 0]
\* Layouts the proc 's' command may install: none, or one where block 0
\* is the checkpoint pack and blocks 1024 and 1536 are the two copies of
\* a NAT/SIT block (segments 2 and 3 of 512 blocks).
MCNoRules == {}
MCNatSitRules == {[cp |-> 0, sit |-> 1024, nat |-> 2048, natBlocks |-> 1024]}
MCNatSitBlocks == {0, 1024, 1536}
\* Device operations: none (a user keeps the device open), or opening,
\* closing and removal.
MCNoDevOps == {}
MCAllDevOps == {"open", "remove"}
=============================================================================
