SPECIFICATION InputSpec
CONSTANTS
  Texts <- TypedTexts
  Contents <- FieldContents
  MaxFaults = 2
CHECK_DEADLOCK FALSE
INVARIANT NeverLeftInSilence
