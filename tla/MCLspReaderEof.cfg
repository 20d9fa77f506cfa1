\* The server exits after writing at most two frames; does the thread notice?
CONSTANTS
    InitialCapacity = 4
    ContentLengths = {1}
    MaxFrames = 2
SPECIFICATION Spec
PROPERTY ClosedAfterExit
CHECK_DEADLOCK FALSE
