------------------------------ MODULE LspReader ------------------------------
(***************************************************************************)
(* The thread that reads a language server's stdout (ServerConnection::   *)
(* spawn in src/lsp/protocol.rs): it calls ReadBuf::read_content_from in a *)
(* loop, sends every framed body to the editor as an Lsp event, and sends  *)
(* ServerEvent::Closed and exits when a call returns an empty slice.       *)
(*                                                                         *)
(* The byte stream is abstracted to symbols: a frame the server writes is  *)
(* the header "Content-Length: " (symbol CL), its digits (one symbol       *)
(* Num(n)), "\r\n\r\n" (symbol CRLF2) and n body symbols Byte(f, j).       *)
(* A read may end between any two symbols; ending inside one of the        *)
(* header patterns is the same, for find_pattern_end, as ending before it. *)
(* ReadBuf.buf is a sequence of symbols whose zero fill is the symbol Zero;*)
(* read_index and write_index are 0-based as in the code.                  *)
(*                                                                         *)
(* One loop iteration of read_content_from is one step; the blocking       *)
(* reader.read is a step of its own, so that the server's writes           *)
(* interleave with the parsing exactly where the thread can be preempted.  *)
(***************************************************************************)
EXTENDS Integers, Sequences

CONSTANTS
    InitialCapacity,  \* ReadBuf::new: Vec::with_capacity(4 * 1024), in symbols
    ContentLengths,   \* body lengths the server may frame
    MaxFrames         \* bound on the number of frames the server writes

ASSUME InitialCapacity \in Nat \ {0} /\ ContentLengths \subseteq Nat /\ MaxFrames \in Nat

VARIABLES
    pipe,       \* bytes written by the server and not yet read (the OS pipe)
    eof,        \* the server closed its stdout
    sent,       \* ghost: bodies of the frames the server wrote, in order
    buf,        \* ReadBuf.buf
    readIndex,  \* ReadBuf.read_index
    writeIndex, \* ReadBuf.write_index
    cStart,     \* content_start_index, local to the current call
    cEnd,       \* content_end_index, local to the current call
    pc,         \* "loop": loop top; "read": in reader.read; "exited": Closed sent
    received    \* bodies sent to the editor as Lsp events, in order

vars == <<pipe, eof, sent, buf, readIndex, writeIndex, cStart, cEnd, pc, received>>

Sym(k, a, b) == [k |-> k, a |-> a, b |-> b]
CL == Sym("CL", 0, 0)
CRLF2 == Sym("CRLF2", 0, 0)
Zero == Sym("Zero", 0, 0)
Num(n) == Sym("Num", n, 0)
Byte(f, j) == Sym("Byte", f, j)
Symbols == [k : {"CL", "CRLF2", "Zero", "Num", "Byte"}, a : Nat, b : Nat]

Header(n) == <<CL, Num(n), CRLF2>>
Body(f, n) == [j \in 1..n |-> Byte(f, j)]

\* buf[i] for a 0-based index i, and the slice buf[a..b) of the code.
At(i) == buf[i + 1]
Slice(a, b) == SubSeq(buf, a + 1, b)

(***************************************************************************)
(* find_pattern_end for a one-symbol pattern: the index just after the     *)
(* first occurrence of p in s, or -1 for None.                             *)
(***************************************************************************)
PatternEnd(s, p) ==
    IF \E i \in 1..Len(s) : s[i] = p
        THEN CHOOSE i \in 1..Len(s) : s[i] = p /\ \A j \in 1..(i - 1) : s[j] # p
        ELSE -1

\* parse_number: the digits at the start of s, 0 when there are none.
ParseNumber(s) == IF s # <<>> /\ s[1].k = "Num" THEN s[1].a ELSE 0

Init ==
    /\ pipe = <<>>
    /\ eof = FALSE
    /\ sent = <<>>
    /\ buf = [i \in 1..InitialCapacity |-> Zero]
    /\ readIndex = 0
    /\ writeIndex = 0
    /\ cStart = 0
    /\ cEnd = 0
    /\ pc = "loop"
    /\ received = <<>>

(***************************************************************************)
(* The server frames a body the way Protocol::send_body frames ours:       *)
(* "Content-Length: {len}\r\n\r\n" followed by the body.                   *)
(***************************************************************************)
ServerWrite ==
    /\ ~eof
    /\ Len(sent) < MaxFrames
    /\ \E n \in ContentLengths :
         /\ pipe' = pipe \o Header(n) \o Body(Len(sent) + 1, n)
         /\ sent' = Append(sent, Body(Len(sent) + 1, n))
    /\ UNCHANGED <<eof, buf, readIndex, writeIndex, cStart, cEnd, pc, received>>

\* The server exits: its stdout is closed and reads see end of file.
ServerExit ==
    /\ ~eof
    /\ eof' = TRUE
    /\ UNCHANGED <<pipe, sent, buf, readIndex, writeIndex, cStart, cEnd, pc, received>>

(***************************************************************************)
(* The header search at the top of the loop, done while content_end_index  *)
(* is still 0: returns the pair <<content_start, content_end>>.            *)
(***************************************************************************)
ParseHeader ==
    LET bytes == Slice(readIndex, writeIndex)
        cl == PatternEnd(bytes, CL)
        rest == SubSeq(bytes, cl + 1, Len(bytes))
        c == PatternEnd(rest, CRLF2)
    IN IF cEnd = 0 /\ cl # -1 /\ c # -1
          THEN <<readIndex + cl + c, readIndex + cl + c + ParseNumber(rest)>>
          ELSE <<cStart, cEnd>>

\* `while write_index == buf.len() || content_end_index > buf.len()` doubling.
RECURSIVE Grow(_, _)
Grow(b, e) ==
    IF writeIndex = Len(b) \/ e > Len(b)
        THEN Grow(b \o [i \in 1..Len(b) |-> Zero], e)
        ELSE b

(***************************************************************************)
(* The end of read_content_from once the frame is in the buffer: advance   *)
(* read_index past it, reset both indices when nothing is left, and return *)
(* buf[start..end).  The reader thread sends an empty slice as Closed and  *)
(* exits; any other slice is sent as an event and the next call starts.    *)
(***************************************************************************)
\* Mutant: the returned slice starts at read_index, header included.
ReturnFromRead(s, e) ==
    LET body == Slice(readIndex, e) IN
    /\ IF writeIndex = e
          THEN readIndex' = 0 /\ writeIndex' = 0
          ELSE readIndex' = e /\ UNCHANGED writeIndex
    /\ cStart' = 0 /\ cEnd' = 0
    /\ IF body = <<>>
          THEN pc' = "exited" /\ UNCHANGED received
          ELSE received' = Append(received, body) /\ pc' = "loop"

Return(s, e) ==
    LET body == Slice(s, e) IN
    /\ IF writeIndex = e
          THEN readIndex' = 0 /\ writeIndex' = 0
          ELSE readIndex' = e /\ UNCHANGED writeIndex
    /\ cStart' = 0 /\ cEnd' = 0
    /\ IF body = <<>>
          THEN pc' = "exited" /\ UNCHANGED received
          ELSE received' = Append(received, body) /\ pc' = "loop"

\* The break condition: the header is parsed and the whole body is buffered.
FrameBuffered(e) == e > 0 /\ writeIndex >= e

\* Compaction moves the parsed content indices with the bytes, when there are any.
Rebased(i, e) == IF e > 0 THEN i - readIndex ELSE i

(***************************************************************************)
(* Compaction: buf.copy_within(read_index..write_index, 0), the content    *)
(* indices rebased, write_index moved down and read_index reset.           *)
(***************************************************************************)
CompactKeepRead(s, e) ==
    /\ buf' = [i \in 1..Len(buf) |->
                 IF i <= writeIndex - readIndex THEN At(readIndex + i - 1) ELSE buf[i]]
    /\ cStart' = Rebased(s, e)
    /\ cEnd' = Rebased(e, e)
    /\ writeIndex' = writeIndex - readIndex
    /\ UNCHANGED <<readIndex, pc, received>>

Compact(s, e) ==
    /\ buf' = [i \in 1..Len(buf) |->
                 IF i <= writeIndex - readIndex THEN At(readIndex + i - 1) ELSE buf[i]]
    /\ cStart' = Rebased(s, e)
    /\ cEnd' = Rebased(e, e)
    /\ writeIndex' = writeIndex - readIndex
    /\ readIndex' = 0
    /\ UNCHANGED <<pc, received>>

(***************************************************************************)
(* One iteration of the loop of read_content_from, up to its read: parse   *)
(* the header, break when the whole body is buffered, else compact the     *)
(* buffer when more than half of it is consumed, else grow it and read.    *)
(***************************************************************************)
Iterate ==
    /\ pc = "loop"
    /\ LET h == ParseHeader s == h[1] e == h[2] IN
       \/ /\ FrameBuffered(e)
          /\ Return(s, e)
          /\ UNCHANGED buf
       \/ /\ ~FrameBuffered(e)
          /\ readIndex > Len(buf) \div 2
          /\ Compact(s, e)
       \/ /\ ~FrameBuffered(e)
          /\ readIndex <= Len(buf) \div 2
          /\ buf' = Grow(buf, e)
          /\ cStart' = s /\ cEnd' = e
          /\ pc' = "read"
          /\ UNCHANGED <<readIndex, writeIndex, received>>
    /\ UNCHANGED <<pipe, eof, sent>>

(***************************************************************************)
(* reader.read(&mut buf[write_index..]) returning Ok(len): it blocks while *)
(* the pipe is empty and open, returns 1..free bytes when there are some,  *)
(* and returns Ok(0) at end of file.                                       *)
(***************************************************************************)
Read ==
    /\ pc = "read"
    /\ \/ \E k \in 1..(Len(buf) - writeIndex) :
            /\ k <= Len(pipe)
            /\ buf' = [i \in 1..Len(buf) |->
                         IF writeIndex < i /\ i <= writeIndex + k
                            THEN pipe[i - writeIndex] ELSE buf[i]]
            /\ pipe' = SubSeq(pipe, k + 1, Len(pipe))
            /\ writeIndex' = writeIndex + k
       \/ /\ eof /\ pipe = <<>>
          /\ UNCHANGED <<buf, pipe, writeIndex>>
    /\ pc' = "loop"
    /\ UNCHANGED <<eof, sent, readIndex, cStart, cEnd, received>>

\* reader.read returning Err: both indices reset and the empty slice returned.
ReadError ==
    /\ pc = "read"
    /\ readIndex' = 0 /\ writeIndex' = 0
    /\ pc' = "exited"
    /\ UNCHANGED <<pipe, eof, sent, buf, cStart, cEnd, received>>

Reader == Iterate \/ Read \/ ReadError

Next == ServerWrite \/ ServerExit \/ Reader

\* The reader thread is scheduled whenever it can run; the server may stop writing.
Spec == Init /\ [][Next]_vars /\ WF_vars(Iterate) /\ WF_vars(Read)

-----------------------------------------------------------------------------

(***************************************************************************)
(* The indices of ReadBuf stay ordered inside the buffer:                  *)
(* read_index <= write_index <= buf.len(), across reads and compactions.   *)
(***************************************************************************)
TypeOK ==
    /\ pipe \in Seq(Symbols)
    /\ eof \in BOOLEAN
    /\ buf \in Seq(Symbols)
    /\ 0 <= readIndex /\ readIndex <= writeIndex /\ writeIndex <= Len(buf)
    /\ cStart \in Nat /\ cEnd \in Nat
    /\ pc \in {"loop", "read", "exited"}
    /\ received \in Seq(Seq(Symbols))

\* The bodies the server may frame, as LspChannel sees them.
FrameBodies == {Body(f, n) : f \in 1..MaxFrames, n \in ContentLengths}

\* The refinement mapping: the abstract channel's state read off the reader's.
Channel == INSTANCE LspChannel WITH
    Bodies <- FrameBodies,
    frames <- sent,
    delivered <- received,
    closed <- (pc = "exited"),
    open <- ~eof

(***************************************************************************)
(* The reader thread implements LspChannel: every body it hands to the     *)
(* editor is the next body the server wrote, whole and in order, however   *)
(* the reads split the stream and however often read_content_from          *)
(* compacted or grew the buffer in between; and every body the server      *)
(* wrote is eventually handed over unless the thread has sent Closed, so   *)
(* the loop never waits for more input while a whole frame is buffered.    *)
(***************************************************************************)
ImplementsChannel == Channel!CSpec

(***************************************************************************)
(* When the server exits, the thread eventually tells the editor with      *)
(* ServerEvent::Closed (the editor's only way to learn that the server is  *)
(* gone) and stops.                                                        *)
(***************************************************************************)
ClosedAfterExit == eof ~> pc = "exited"

=============================================================================
