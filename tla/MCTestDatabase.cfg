CONSTANTS
  Opener = o
  Closers = {a, b}
SPECIFICATION FairSpec
INVARIANTS TypeOK TerminatedOnce FailedOpenCleansUp ResultsShared
PROPERTY ShutdownAnswers
