SPECIFICATION RunSpec
CONSTANTS
  c1 = c1
  c2 = c2
  k1 = k1
  NoKey = NoKey
  CPUs <- MCCPUs
  Keys <- MCKeys
  Bits <- MCBits
  WordBits = 2
  BLOOM_HASHES = 2
  bloom_bit_index <- MCHash
  BLOOM_EPOCH_NS = 3
  MaxRun = 1
  MaxNow = 12
  Boot = 4
  MaxPackets = 4
CHECK_DEADLOCK FALSE
SYMMETRY MCSymmetry
INVARIANTS
  MissOnlyIfWiped
PROPERTIES
  RollSpacing
  TagsNeverRegress
  HitsAreFresh
  PacketIsAtomic
