----------------------------- MODULE MCEventQueue -----------------------------
EXTENDS EventQueue

\* Three clients: one without a stdin buffer, then two reading into b1, so
\* that a BufferWrite has a first reader and a second one it must skip.
MCStdinBuffers == <<NoBuffer, "b1", "b1">>

=============================================================================
