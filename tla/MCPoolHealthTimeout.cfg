CONSTANTS
  Calls = {a}
  Slots = {s1}
  CallerEnds = {"canceled", "callerDeadline"}
  ObserverMayExit = FALSE
SPECIFICATION Spec
INVARIANT HealthTimeoutIsDeadline
