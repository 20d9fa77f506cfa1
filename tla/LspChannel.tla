------------------------------ MODULE LspChannel ------------------------------
(***************************************************************************)
(* What the reader thread of ServerConnection::spawn promises the editor,  *)
(* with the byte stream, the ReadBuf and its indices left out: the bodies  *)
(* of the frames the server writes reach the editor whole, one event each, *)
(* in the order they were written, until the channel closes; and a body    *)
(* the server wrote is delivered unless the channel closes first.          *)
(*                                                                         *)
(* The channel may close at any moment (a read of the pipe can fail), so   *)
(* closing is not promised to happen, only delivery while it is open.      *)
(* LspReader implements this module under the mapping given there.         *)
(***************************************************************************)
EXTENDS Naturals, Sequences

CONSTANTS
    Bodies,     \* the bodies the server may write
    MaxFrames   \* bound on the number of frames the server writes

VARIABLES
    frames,     \* the bodies the server wrote, in order
    delivered,  \* the bodies sent to the editor as events, in order
    closed,     \* ServerEvent::Closed was sent and the thread stopped
    open        \* the server's stdout is still open

cvars == <<frames, delivered, closed, open>>

CInit ==
    /\ frames = <<>>
    /\ delivered = <<>>
    /\ closed = FALSE
    /\ open = TRUE

\* The server writes one more frame while its stdout is open.
Send == /\ open
        /\ Len(frames) < MaxFrames
        /\ \E b \in Bodies : frames' = Append(frames, b)
        /\ UNCHANGED <<delivered, closed, open>>

\* The server exits.
Exit == /\ open
        /\ open' = FALSE
        /\ UNCHANGED <<frames, delivered, closed>>

\* The next body not yet delivered reaches the editor.
Deliver == /\ ~closed
           /\ Len(delivered) < Len(frames)
           /\ delivered' = Append(delivered, frames[Len(delivered) + 1])
           /\ UNCHANGED <<frames, closed, open>>

\* The thread sends Closed and stops; no body is delivered after it.
Close == /\ ~closed
         /\ closed' = TRUE
         /\ UNCHANGED <<frames, delivered, open>>

CNext == Send \/ Exit \/ Deliver \/ Close

CSpec == CInit /\ [][CNext]_cvars /\ WF_cvars(Deliver)

=============================================================================
