SPECIFICATION Spec
CONSTANTS
    Savers = {s1}
    NoOverride = NoOverride
    Overrides = {NoOverride}
    MaxSaves = 1
    MaxStarts = 2
    MaxCalls = 1
INVARIANTS StopIsPrompt
CHECK_DEADLOCK FALSE
