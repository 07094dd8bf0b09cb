SPECIFICATION Spec
CONSTANTS
  NCPUs = 2
  Packets <- MCPackets
  MaxPackets = 3
  MaxPolls = 2
CHECK_DEADLOCK FALSE
INVARIANTS
  CountedOnce
  ReadingExplains
  DeltasNeverWrap
  SkewLastsOnePoll
