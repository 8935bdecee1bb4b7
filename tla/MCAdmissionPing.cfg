CONSTANTS
  Inputs <- MCInputs
  Natives <- MCNatives
  Edits <- MCEdits
  MaxEdits = 1
SPECIFICATION Spec
INVARIANT PingTimeoutBounded
