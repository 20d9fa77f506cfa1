\* Three launches over a clean or a stale endpoint; each server hands out
\* two handles, one for each other editor.
CONSTANTS
    a = a
    b = b
    c = c
    Launchers <- MCLaunchers
    NoOwner = NoOwner
    Crashed = Crashed
    MaxHandles = 2
SPECIFICATION Spec
INVARIANT TypeOK
INVARIANT SlotsMatchConnections
INVARIANT FailsOnlyInRace
PROPERTY PurgedOnLeave
PROPERTY ClientsFollowServer
\* Every editor process ends; the states where all have ended are final.
CHECK_DEADLOCK FALSE
