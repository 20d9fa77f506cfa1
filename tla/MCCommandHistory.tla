--------------------------- MODULE MCCommandHistory ---------------------------
EXTENDS CommandHistory

\* The empty line, a line with leading whitespace and two distinct commands.
MCEntries == {<<>>, <<" ", "x">>, <<"x">>, <<"y">>}

\* VecDeque::with_capacity(10): exactly 10 with the current ring buffer,
\* 15 (the next power of two minus one) with the one before Rust 1.67.
MCCapacities == {10, 15}

=============================================================================
