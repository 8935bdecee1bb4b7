CONSTANTS
  Calls = {a, b, c}
  Slots = {s1}
  CallerEnds = {"canceled"}
  ObserverMayExit = FALSE
SPECIFICATION Spec
SYMMETRY Symmetric
INVARIANTS CloseOnce ConfirmedMeansDrained
PROPERTY ImplementsContract
