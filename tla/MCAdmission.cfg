CONSTANTS
  Inputs <- MCInputs
  Natives <- MCNatives
  Edits <- MCEdits
  MaxEdits = 1
SPECIFICATION Spec
INVARIANTS TypeOK AdmittedIsFinite WaitsHaveTimers AdmittedInTime TLSNamesOwnHost
PROPERTY SessionInitLast
