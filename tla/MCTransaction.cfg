CONSTANT MaxFrames = 3
SPECIFICATION Spec
INVARIANTS TypeOK FinalizedOnce CausePreserved ConnectionReturned FailedWritesUndone SuccessIsDurable ObservedTruthfully IsolationComplete
