---------------------------- MODULE MCBufferViews ----------------------------
EXTENDS BufferViews, TLC

CONSTANTS b1, b2

MCBuffers == {b1, b2}

\* The two buffers are interchangeable.
MCSymmetry == Permutations(MCBuffers)
=============================================================================
