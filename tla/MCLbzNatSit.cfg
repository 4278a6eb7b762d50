\* The nat-sit transaction layer.  The blocks are a checkpoint block and
\* the two copies of a NAT/SIT block; once the proc 's' command installs
\* the layout, writes to the copies are transaction children that queue
\* the other copy, and a checkpoint flush commits and frees the queue.
\* Three zones of two blocks leave room for the three blocks beside the
\* GC reserve.
CONSTANTS
  v1 = v1  v2 = v2  w1 = w1  w2 = w2  r1 = r1
  Blocks <- MCNatSitBlocks
  Values <- MCOneValue
  Writers <- MCWriters1
  Readers <- MCNoReaders
  NZ = 3
  N = 2
  MaxWrites = 4
  WmLowPct = 17
  WmHighPct = 34
  ZoneWmPct = 50
  Invalid = Invalid
  NoZone = NoZone
  NoTask = NoTask
  Empty = Empty
  MaxFaults = 0
  FaultKinds <- MCNoFaults
  NatSitRules <- MCNatSitRules
  DevOps <- MCNoDevOps
  StartWp <- MCFreshDevice
SPECIFICATION Spec
INVARIANT WeightAccounting MapsAgree
