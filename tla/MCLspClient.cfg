\* Two requests of two methods answered in any order, with results or
\* error objects, over frames of one or two body symbols through a buffer
\* that starts with room for two symbols.
CONSTANTS
    InitialCapacity = 2
    ContentLengths = {1, 2}
    MaxFrames = 2
    Methods = {"hover", "definition"}
    Results = {"value"}
    MaxRequests = 2
SPECIFICATION ClientSpec
INVARIANT TypeOK
INVARIANT ResponsesMatchRequests
INVARIANT PendingAreOutstanding
PROPERTY ImplementsChannel
PROPERTY EveryResponseResolved
\* The system stops once everything is handled and the server has exited.
CHECK_DEADLOCK FALSE
