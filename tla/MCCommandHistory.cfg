\* The history over enough submissions to wrap either deque capacity.
CONSTANTS
    HISTORY_CAPACITY = 10
    Capacities <- MCCapacities
    Entries <- MCEntries
    MaxSubmitted = 18
SPECIFICATION Spec
INVARIANT TypeOK
INVARIANT HistoryIsRecentEntries
\* Submissions end at the bound.
CHECK_DEADLOCK FALSE
