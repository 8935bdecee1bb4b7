CONSTANTS
  Calls = {a, t1, t2, p}
  Connector = a
  Stoppers = {t1, t2}
  Probes = {p}
  Slots = {s1}
  CallerEnds = {"canceled"}
  ObserverMayExit = FALSE
SPECIFICATION ServiceFairSpec
INVARIANTS ServiceTypeOK OwnedPoolShutOnce StopsAgree LateProbesUnavailable StoppedMeansDrained FailedConnectLeavesNothing
PROPERTIES StartupReturns StopsReturn
