SPECIFICATION Spec
CONSTANTS
  Zones = {"f"}
  PollInterval = 1
  InstantWindow = 3
  Deltas <- MCDeltas
  Gaps = {1, 2}
  Weight <- MCWeight
  Unit <- MCUnit
  SumMultiple = 60
  MaxTime = 6
CHECK_DEADLOCK FALSE
INVARIANTS
  TypeOK
  WindowSums
  HeldFromLastTraffic
PROPERTIES
  AverageFollowsPolls
