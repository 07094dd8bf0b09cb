SPECIFICATION Spec
CONSTANTS
  Instances = {"a", "b"}
  tagOf <- SameTags
  NIfaces = 1
  Handles = {1, 2, 3}
  Foreign <- MCForeign
  Rivals = TRUE
  MaxStarts = 2
  MaxEvents = 0
  MaxFaults = 0
CHECK_DEADLOCK FALSE
INVARIANT
  RunningKeepsFilters
