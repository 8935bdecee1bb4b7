CONSTANTS
  Calls = {a, b}
  Slots = {s1}
  CallerEnds = {"canceled", "callerDeadline"}
  ObserverMayExit = TRUE
SPECIFICATION FairSpec
PROPERTIES BoundedWaits Drains
CHECK_DEADLOCK FALSE
