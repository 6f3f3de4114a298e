SPECIFICATION McpSpec
CONSTANTS
    Requests <- MCRequests
    ToolOf <- MCToolOf
    Script <- MCScript
    MaxMessages = 3
    MaxPipe = 1
    Maximum = 2
    Window = 2
    MaxTime = 0
    MaxRestarts = 0
    NoRequest = NoRequest
INVARIANT KnownFailureDidNothing
CHECK_DEADLOCK FALSE
