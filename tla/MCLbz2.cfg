\* Two writers racing each other, GC and the zone-state worker on a device
\* of two zones, so that the GC reserve is the only free zone.
CONSTANTS
  v1 = v1  v2 = v2  w1 = w1  w2 = w2  r1 = r1
  Blocks <- MCBlocks
  Values <- MCValues
  Writers <- MCWriters2
  Readers <- MCNoReaders
  NZ = 2
  N = 2
  MaxWrites = 4
  WmLowPct = 25
  WmHighPct = 50
  ZoneWmPct = 50
  Invalid = Invalid
  NoZone = NoZone
  NoTask = NoTask
  Empty = Empty
  MaxFaults = 0
  FaultKinds <- MCNoFaults
  NatSitRules <- MCNoRules
  DevOps <- MCNoDevOps
  StartWp <- MCFreshDevice
SPECIFICATION Spec
INVARIANTS WeightAccounting MapsAgree NoBug
PROPERTIES ImplementsBlockStore
CHECK_DEADLOCK FALSE
