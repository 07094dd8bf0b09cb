SPECIFICATION Spec
CONSTANTS
  Instances = {"a", "b"}
  tagOf <- MCTags
  NIfaces = 2
  Handles = {1, 2, 3}
  Foreign <- MCForeign
  Rivals = FALSE
  MaxStarts = 3
  MaxEvents = 2
  MaxFaults = 1
CHECK_DEADLOCK FALSE
INVARIANTS
  OneFilterWhileRunning
  NothingLeftBehind
  ForeignUntouched
  LeftoversBounded
