------------------------------- MODULE EventBus -------------------------------
(***************************************************************************)
(* What the editor event queue promises its producers and consumers        *)
(* (spec 4.3), with the two sides, the flip and the generations left out:  *)
(* one FIFO of events, to which producers post and from which the          *)
(* handlers of trigger_event_handlers take, every event exactly once and   *)
(* in the order it was posted.  EventQueue implements this module under    *)
(* the mapping given there.                                                *)
(***************************************************************************)
EXTENDS Sequences

CONSTANT Events     \* the events producers may post

VARIABLES
    queue,      \* events posted and not yet handled, oldest first
    delivered   \* events handled, in the order they were handled

bvars == <<queue, delivered>>

BInit == queue = <<>> /\ delivered = <<>>

\* A producer (a command, a mode, a plugin, the idle tick) posts an event.
Post == \E e \in Events : /\ queue' = Append(queue, e)
                          /\ UNCHANGED delivered

\* The oldest pending event reaches the handlers.
Deliver == /\ queue # <<>>
           /\ delivered' = Append(delivered, Head(queue))
           /\ queue' = Tail(queue)

BSpec == BInit /\ [][Post \/ Deliver]_bvars

=============================================================================
