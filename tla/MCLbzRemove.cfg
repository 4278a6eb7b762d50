\* A device that is opened, written, closed and removed: lbz_remove_device
\* racing the GC thread.  The model stops once the device is freed.
CONSTANTS
  v1 = v1  v2 = v2  w1 = w1  w2 = w2  r1 = r1
  Blocks <- MCBlocks
  Values <- MCOneValue
  Writers <- MCWriters1
  Readers <- MCNoReaders
  NZ = 3
  N = 2
  MaxWrites = 4
  WmLowPct = 17
  WmHighPct = 34
  ZoneWmPct = 50
  Invalid = Invalid
  NoZone = NoZone
  NoTask = NoTask
  Empty = Empty
  MaxFaults = 0
  FaultKinds <- MCNoFaults
  NatSitRules <- MCNoRules
  DevOps <- MCAllDevOps
  StartWp <- MCFreshDevice
SPECIFICATION Spec
INVARIANT TeardownQuiesced
CHECK_DEADLOCK FALSE
