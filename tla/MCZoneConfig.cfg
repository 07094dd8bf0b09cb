SPECIFICATION ConfigSpec
CONSTANTS
  Configs <- MCConfigs
  ByteBits = 1
  AddrBytes = 2
  IdValues = 4
  MAX_ZONE_ENTRIES = 3
CHECK_DEADLOCK FALSE
INVARIANTS
  EveryEventHasItsZone
  LongestSubnetWins
  NothingSilentlyUnzoned
