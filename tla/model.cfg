SPECIFICATION Spec
CONSTANTS
    Savers = {s1, s2}
    NoOverride = NoOverride
    Overrides = {TRUE, FALSE, NoOverride}
    MaxSaves = 2
    MaxStarts = 2
    MaxCalls = 2
CHECK_DEADLOCK FALSE
INVARIANTS
  ConfigIsLastSaved
  NoSilentFallback
