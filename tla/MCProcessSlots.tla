---------------------------- MODULE MCProcessSlots ----------------------------
EXTENDS ProcessSlots

\* A text byte, the split byte and a byte that is not UTF-8; lines span chunks.
MCChunks == {<<"a">>, <<"\n">>, <<"X">>}

\* b'\n', the split byte the commands pass.
MCSplitByte == "\n"

=============================================================================
