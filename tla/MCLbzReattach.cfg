\* A device attached again after use: zone 0 is reported partly written
\* (write pointer 1), the others empty.
CONSTANTS
  v1 = v1  v2 = v2  w1 = w1  w2 = w2  r1 = r1
  Blocks <- MCBlocks
  Values <- MCOneValue
  Writers <- MCWriters1
  Readers <- MCNoReaders
  NZ = 3
  N = 2
  MaxWrites = 4
  WmLowPct = 17
  WmHighPct = 34
  ZoneWmPct = 50
  Invalid = Invalid
  NoZone = NoZone
  NoTask = NoTask
  Empty = Empty
  MaxFaults = 0
  FaultKinds <- MCNoFaults
  NatSitRules <- MCNoRules
  DevOps <- MCNoDevOps
  StartWp <- MCReattach
SPECIFICATION Spec
INVARIANT NoPanic
