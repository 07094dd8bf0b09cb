SPECIFICATION TransitSpec
CONSTANTS
  Devices = {1, 2, 3, 4, 5}
  kind <- MCKind
  Ignored = {3}
  Lists <- MCLists
  MaxChanges = 2
CHECK_DEADLOCK FALSE
INVARIANTS
  OneFilterPerDevice
  AllConfiguredAttached
  DiscoveryIsComplete
