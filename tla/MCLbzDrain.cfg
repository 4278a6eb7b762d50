\* One write fails while another task waits on the retry list: retry_wk_fn
\* returns at once on a faulty device, so the waiting task never finishes
\* and lbz_remove_device would wait for it forever.  A faulty device with
\* nothing left to run takes no step, so deadlock is not checked.
CONSTANTS
  v1 = v1  v2 = v2  w1 = w1  w2 = w2  r1 = r1
  Blocks <- MCBlocks
  Values <- MCOneValue
  Writers <- MCWriters1
  Readers <- MCNoReaders
  NZ = 2
  N = 2
  MaxWrites = 6
  WmLowPct = 25
  WmHighPct = 50
  ZoneWmPct = 50
  Invalid = Invalid
  NoZone = NoZone
  NoTask = NoTask
  Empty = Empty
  MaxFaults = 1
  FaultKinds <- MCIoFaults
  NatSitRules <- MCNoRules
  DevOps <- MCNoDevOps
  StartWp <- MCFreshDevice
SPECIFICATION FairSpec
PROPERTY FaultDrains
CHECK_DEADLOCK FALSE
