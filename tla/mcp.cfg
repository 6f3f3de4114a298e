SPECIFICATION McpSpec
CONSTANTS
    Requests <- MCRequests
    ToolOf <- MCToolOf
    Script <- MCScript
    MaxMessages = 5
    MaxPipe = 1
    Maximum = 2
    Window = 2
    MaxTime = 2
    MaxRestarts = 1
    NoRequest = NoRequest
CHECK_DEADLOCK FALSE
INVARIANTS
  OneTaskPerRequest
  RateIsWindowed
