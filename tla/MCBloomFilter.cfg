SPECIFICATION Spec
CONSTANTS
  k1 = k1
  k2 = k2
  k3 = k3
  Keys <- MCKeys
  Bits <- MCBits
  WordBits = 2
  bloom_bit_index <- MCHash
  BLOOM_EPOCH_NS = 2
  MaxNow = 7
INVARIANTS
  TypeOK
  MissOnlyAfterEpoch
PROPERTIES
  ImplementsRecentBits
