CONSTANTS
  Calls = {a, b}
  Slots = {s1, s2}
  CallerEnds = {"canceled", "callerDeadline"}
  ObserverMayExit = FALSE
SPECIFICATION Spec
SYMMETRY Symmetric
INVARIANTS TypeOK LateCallsRefused ExhaustionAttribution NoLostConnection
