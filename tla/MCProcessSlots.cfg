\* Two user processes (and the children their callbacks spawn) sharing the
\* slot pool, each writing up to two chunks of stdout.
CONSTANTS
    SplitByte <- MCSplitByte
    InvalidByte = "X"
    Chunks <- MCChunks
    MaxUserSpawns = 2
    MaxChunks = 2
SPECIFICATION Spec
INVARIANT TypeOK
INVARIANT NoCrossTalk
INVARIANT CallbacksMatchOutput
INVARIANT SlotsReused
\* The system stops once every process has exited.
CHECK_DEADLOCK FALSE
