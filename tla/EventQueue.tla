------------------------------ MODULE EventQueue ------------------------------
(***************************************************************************)
(* The editor event queue and its drain: EditorContext::                   *)
(* trigger_event_handlers and Editor::on_idle of pepper/src/editor.rs.     *)
(*                                                                         *)
(* Producers enqueue into the write side.  A drain flips the two sides,    *)
(* returns if the new read side is empty, lets the plugins see the whole   *)
(* generation (they may enqueue more events, which go to the write side),  *)
(* then runs the handler of every event of the generation by index, and    *)
(* loops.  EditorEventQueue (flip, enqueue) and EditorEventIter are in     *)
(* events.rs, outside this source set; they are modelled from spec 4.3:    *)
(* flip swaps the sides and clears the new write side.                     *)
(*                                                                         *)
(* The drain is one call of a single-threaded editor: nothing else runs    *)
(* while `phase` is not "editing".  Its steps are separate actions so that *)
(* the plugins' re-entrant enqueues fall between them.  The effects of the *)
(* handlers on buffers, views, syntax and insert state are outside this    *)
(* source set and are kept only as the ghost log `handled`; the stdout     *)
(* write of BufferWrite, which this file does, is kept as `written`.       *)
(***************************************************************************)
EXTENDS Integers, Sequences

CONSTANTS
    Kinds,          \* EditorEvent variants producers may enqueue
    Buffers,        \* buffer handles
    NoBuffer,       \* client.stdin_buffer_handle() = None
    StdinBuffers,   \* clients in iteration order: the buffer each reads stdin into
    MaxEvents       \* bound on the number of events ever enqueued

ASSUME
    /\ "Idle" \in Kinds /\ "BufferWrite" \in Kinds
    /\ StdinBuffers \in Seq(Buffers \cup {NoBuffer})
    /\ MaxEvents \in Nat

VARIABLES
    write,      \* EditorEventQueue's write side
    read,       \* its read side, the generation being drained
    index,      \* EditorEventIter's index into the read side
    phase,      \* where trigger_event_handlers is: "editing" when not running
    count,      \* events enqueued so far (the id of the last one)
    handled,    \* ghost: events whose handler ran, in order
    written     \* StdoutOutput writes: <<client, event id>>

vars == <<write, read, index, phase, count, handled, written>>

Event == [kind : Kinds, buf : Buffers, id : 1..MaxEvents]

\* EditorEventQueue::enqueue of a new event, given the next id.
Enqueued(k, b) == Append(write, [kind |-> k, buf |-> b, id |-> count + 1])

Init ==
    /\ write = <<>>
    /\ read = <<>>
    /\ index = 0
    /\ phase = "editing"
    /\ count = 0
    /\ handled = <<>>
    /\ written = <<>>

(***************************************************************************)
(* A command handler or a mode enqueues an event of any other variant.     *)
(***************************************************************************)
Enqueue(k, b) ==
    /\ phase = "editing"
    /\ count < MaxEvents
    /\ write' = Enqueued(k, b)
    /\ count' = count + 1
    /\ UNCHANGED <<read, index, phase, handled, written>>

\* Editor::on_idle enqueues EditorEvent::Idle.
OnIdle(b) ==
    /\ phase = "editing"
    /\ count < MaxEvents
    /\ write' = Enqueued("Idle", b)
    /\ count' = count + 1
    /\ UNCHANGED <<read, index, phase, handled, written>>

\* Mutant: flip swaps the two sides without clearing the new write side.
FlipKeep ==
    /\ read' = write
    /\ write' = read
    /\ index' = 0
    /\ phase' = IF write = <<>> THEN "editing" ELSE "plugins"
    /\ UNCHANGED <<count, handled, written>>

(***************************************************************************)
(* The head of the drain loop: events.flip(), then a fresh iterator; when  *)
(* it yields nothing the function returns.                                 *)
(***************************************************************************)
Flip ==
    /\ read' = write
    /\ write' = <<>>
    /\ index' = 0
    /\ phase' = IF write = <<>> THEN "editing" ELSE "plugins"
    /\ UNCHANGED <<count, handled, written>>

\* The editor calls trigger_event_handlers.
TriggerEventHandlers == phase = "editing" /\ Flip

\* The loop goes round again once a generation is drained.
NextGeneration == phase = "looping" /\ Flip

(***************************************************************************)
(* PluginCollection::on_editor_events: the plugins read the generation and *)
(* may enqueue an event; it lands on the write side, in the next           *)
(* generation.                                                             *)
(***************************************************************************)
OnEditorEvents ==
    /\ phase = "plugins"
    /\ phase' = "handling"
    /\ \/ UNCHANGED <<write, count>>
       \/ /\ count < MaxEvents
          /\ \E k \in Kinds, b \in Buffers : write' = Enqueued(k, b)
          /\ count' = count + 1
    /\ UNCHANGED <<read, index, handled, written>>

(***************************************************************************)
(* BufferWrite: the content goes, as StdoutOutput, to the first client in  *)
(* iteration order whose stdin buffer is the written one, and to no other. *)
(***************************************************************************)
StdoutWrite(e) ==
    LET readers == {c \in DOMAIN StdinBuffers : StdinBuffers[c] = e.buf} IN
    IF e.kind = "BufferWrite" /\ readers # {}
        THEN Append(written, <<CHOOSE c \in readers : \A d \in readers : c <= d, e.id>>)
        ELSE written

\* Mutant: the drain returns after one generation instead of looping.
HandleEventOnce ==
    /\ phase = "handling"
    /\ handled' = Append(handled, read[index + 1])
    /\ written' = StdoutWrite(read[index + 1])
    /\ index' = index + 1
    /\ phase' = IF index + 1 = Len(read) THEN "editing" ELSE "handling"
    /\ UNCHANGED <<write, read, count>>

(***************************************************************************)
(* The handler of the event at the iterator's index.  After the last event *)
(* of the generation the loop goes back to its head.                       *)
(***************************************************************************)
HandleEvent ==
    /\ phase = "handling"
    /\ handled' = Append(handled, read[index + 1])
    /\ written' = StdoutWrite(read[index + 1])
    /\ index' = index + 1
    /\ phase' = IF index + 1 = Len(read) THEN "looping" ELSE "handling"
    /\ UNCHANGED <<write, read, count>>

Next ==
    \/ \E k \in Kinds \ {"Idle"}, b \in Buffers : Enqueue(k, b)
    \/ \E b \in Buffers : OnIdle(b)
    \/ TriggerEventHandlers
    \/ NextGeneration
    \/ OnEditorEvents
    \/ HandleEvent

(***************************************************************************)
(* Once called, trigger_event_handlers runs its loop to the end: the       *)
(* editor is single threaded and nothing preempts it.  When the editor     *)
(* calls it is up to the callers, so the editing steps get no fairness.    *)
(***************************************************************************)
Spec ==
    /\ Init /\ [][Next]_vars
    /\ WF_vars(NextGeneration) /\ WF_vars(OnEditorEvents) /\ WF_vars(HandleEvent)

-----------------------------------------------------------------------------

\* The events posted and not yet handled: the rest of the generation, then the next.
Pending == SubSeq(read, index + 1, Len(read)) \o write

Bus == INSTANCE EventBus WITH Events <- Event, queue <- Pending, delivered <- handled

(***************************************************************************)
(* The double-buffered queue is a FIFO (spec 4.3): every event a producer  *)
(* or a plugin enqueues is handled exactly once, in the order of enqueue,  *)
(* across generations; no flip loses, repeats or reorders one.  This is    *)
(* the flip, the index-based iteration and the loop of                     *)
(* trigger_event_handlers together.                                        *)
(***************************************************************************)
ImplementsEventBus == Bus!BSpec

(***************************************************************************)
(* Every call of trigger_event_handlers returns, and returns only once a   *)
(* flip finds the write side empty: events the plugins enqueue while       *)
(* draining are drained by the same call (spec 4.3, the fixed point).      *)
(***************************************************************************)
DrainReachesFixedPoint ==
    phase # "editing" ~> (phase = "editing" /\ write = <<>>)

=============================================================================
