CONSTANTS
  MaxFrames = 2
  Codes <- MCCodes
SPECIFICATION ObservedSpec
INVARIANT RetryMeansUnsent
