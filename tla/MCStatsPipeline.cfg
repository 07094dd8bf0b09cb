SPECIFICATION FairSpec
CONSTANTS
  CPUs = {1, 2}
  NZones = 1
  RingCap = 2
  MaxEvents = 3
CHECK_DEADLOCK FALSE
INVARIANTS
  TypeOK
  Conservation
  RetransHasSegment
  LeadLastsOnePoll
PROPERTIES
  EventuallyPublished
  SignalEndsProgram
