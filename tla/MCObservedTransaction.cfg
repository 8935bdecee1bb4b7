CONSTANTS
  MaxFrames = 2
  Codes <- MCCodes
SPECIFICATION ObservedSpec
INVARIANTS RetryRepeatsNothing CleanupKeepsDiagnosis LabelsAgree SinksAgree
