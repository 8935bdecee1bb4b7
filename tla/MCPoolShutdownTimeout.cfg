CONSTANTS
  Calls = {a, b}
  Slots = {s1}
  CallerEnds = {"canceled", "callerDeadline"}
  ObserverMayExit = FALSE
SPECIFICATION Spec
PROPERTY TimeoutMeansStillClosing
