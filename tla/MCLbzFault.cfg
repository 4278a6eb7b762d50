\* One writer and one reader on three zones, with one device failure of
\* either kind: failed zone-appends, GC reads and writes, reads, zone
\* resets and integrity logs, and everything that still runs after it.
\* A faulty device with nothing in flight takes no further step, and a
\* BUG() stops the machine, so deadlock is not checked.
CONSTANTS
  v1 = v1  v2 = v2  w1 = w1  w2 = w2  r1 = r1
  Blocks <- MCBlocks
  Values <- MCValues
  Writers <- MCWriters1
  Readers <- MCReaders
  NZ = 3
  N = 2
  MaxWrites = 4
  WmLowPct = 17
  WmHighPct = 34
  ZoneWmPct = 50
  Invalid = Invalid
  NoZone = NoZone
  NoTask = NoTask
  Empty = Empty
  MaxFaults = 1
  FaultKinds <- MCAllFaults
  NatSitRules <- MCNoRules
  DevOps <- MCNoDevOps
  StartWp <- MCFreshDevice
SPECIFICATION Spec
INVARIANTS MapsAgree ReadSeesItsBlock
PROPERTIES FaultKeepsBlocks
CHECK_DEADLOCK FALSE
