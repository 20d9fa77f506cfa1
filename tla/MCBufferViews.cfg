CONSTANTS
    b1 = b1
    b2 = b2
    Buffers <- MCBuffers
    MaxViews = 3
    MaxLen = 2
    MaxIds = 3
SPECIFICATION Spec
INVARIANT TypeOK
INVARIANT CursorsFollowText
SYMMETRY MCSymmetry
