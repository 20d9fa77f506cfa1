\* Pipeline safety with a two-key map: focus isolation and macro recording.
CONSTANTS
    c1 = c1
    c2 = c2
    NoClient = NoClient
    NoRegister = NoRegister
    RecordRegister = RecordRegister
    Clients <- MCClients
    Keys <- MCKeys
    KeyText <- MCKeyText
    KeyMap <- MCKeyMap
    OperatorKeys = {"d"}
    RecordKey = "r"
    QuitKey = "ctrl-q"
    MaxTyped = 7
SYMMETRY MCSymmetry
SPECIFICATION Spec
INVARIANT TypeOK
INVARIANT PendingKeysOfFocusedClient
INVARIANT RecordedKeysAreExecutedKeys
CHECK_DEADLOCK FALSE
