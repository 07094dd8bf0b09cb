SPECIFICATION Spec
CONSTANTS
  Half = 8
  Block = 4
  LittleEndian = TRUE
  ISNs = {0, 22, 59}
  Lens = {1, 4, 32}
  BLOOM_EPOCH_NS = 2
  MaxNow = 4
  MaxPackets = 4
CHECK_DEADLOCK FALSE
INVARIANTS
  RepeatIsFlagged
  FullSegmentsNotFlagged
