---------------------------- MODULE CommandHistory ----------------------------
(***************************************************************************)
(* The command history of CommandManager (src/command.rs): a VecDeque of   *)
(* strings created with VecDeque::with_capacity(HISTORY_CAPACITY), to      *)
(* which add_to_history appends every command line the user submits.      *)
(*                                                                         *)
(* An entry is a short sequence of characters; only its first character    *)
(* and whether it is empty matter to add_to_history.  The deque's real     *)
(* capacity is whatever VecDeque::with_capacity returns: at least          *)
(* HISTORY_CAPACITY, and, with the ring buffer of the standard library of  *)
(* the edition this code was written for, the next power of two minus      *)
(* one.  Init chooses among the capacities the build may produce.          *)
(***************************************************************************)
EXTENDS Integers, Sequences

CONSTANTS
    HISTORY_CAPACITY,  \* command.rs: pub const HISTORY_CAPACITY: usize = 10
    Capacities,        \* what with_capacity(HISTORY_CAPACITY) may allocate
    Entries,           \* command lines the user may submit
    MaxSubmitted       \* bound on the number of add_to_history calls

ASSUME
    /\ HISTORY_CAPACITY \in Nat \ {0}
    /\ \A c \in Capacities : c >= HISTORY_CAPACITY
    /\ \A e \in Entries : e \in Seq(STRING)

VARIABLES
    history,    \* CommandManager.history
    capacity,   \* history.capacity(), fixed when the deque is allocated
    submitted,  \* number of add_to_history calls so far
    accepted    \* ghost: the lines the reference of spec 4.2 keeps, unbounded

vars == <<history, capacity, submitted, accepted>>

\* char::is_ascii_whitespace
Whitespace == {" ", "\t", "\n", "\r"}

\* entry.is_empty() || entry.starts_with(|c| c.is_ascii_whitespace())
Blank(e) == e = <<>> \/ e[1] \in Whitespace

Init ==
    /\ history = <<>>
    /\ capacity \in Capacities
    /\ submitted = 0
    /\ accepted = <<>>

(***************************************************************************)
(* The reference of spec 4.2 for what the history keeps, applied to the    *)
(* ghost `accepted` on every call: non-blank lines that differ from the    *)
(* line kept before them.                                                  *)
(***************************************************************************)
RefAdd(e) ==
    accepted' = IF e = <<>> \/ e[1] \in Whitespace
                   \/ (accepted # <<>> /\ accepted[Len(accepted)] = e)
                  THEN accepted ELSE Append(accepted, e)

\* Mutant: only the empty line is refused, as in the older lib/command.rs.
AddToHistoryEmptyOnly(e) ==
    /\ submitted < MaxSubmitted
    /\ submitted' = submitted + 1
    /\ UNCHANGED capacity
    /\ RefAdd(e)
    /\ IF e = <<>> \/ (history # <<>> /\ history[Len(history)] = e)
          THEN UNCHANGED history
          ELSE history' = Append(IF Len(history) = capacity THEN Tail(history)
                                                            ELSE history, e)

\* Mutant: an entry is recycled only once the deque is over capacity.
AddToHistoryLate(e) ==
    /\ submitted < MaxSubmitted
    /\ submitted' = submitted + 1
    /\ UNCHANGED capacity
    /\ RefAdd(e)
    /\ IF Blank(e) \/ (history # <<>> /\ history[Len(history)] = e)
          THEN UNCHANGED history
          ELSE history' = Append(IF Len(history) > capacity THEN Tail(history)
                                                           ELSE history, e)

(***************************************************************************)
(* CommandManager::add_to_history: blank entries and a repeat of the most  *)
(* recent entry are dropped; otherwise, when the deque is full, the oldest *)
(* string is popped and refilled, else a new one is made, and it is        *)
(* pushed at the back.                                                     *)
(***************************************************************************)
AddToHistory(e) ==
    /\ submitted < MaxSubmitted
    /\ submitted' = submitted + 1
    /\ UNCHANGED capacity
    /\ RefAdd(e)
    /\ IF Blank(e) \/ (history # <<>> /\ history[Len(history)] = e)
          THEN UNCHANGED history
          ELSE history' = Append(IF Len(history) = capacity THEN Tail(history)
                                                            ELSE history, e)

Next == \E e \in Entries : AddToHistory(e)

\* Submissions stop at the bound; there is nothing else to do.
Spec == Init /\ [][Next]_vars

-----------------------------------------------------------------------------

(***************************************************************************)
(* The deque never holds more strings than it has room for: it is recycled *)
(* from the front exactly when it is full, so it never reallocates.        *)
(***************************************************************************)
TypeOK ==
    /\ history \in Seq(Entries)
    /\ Len(history) <= capacity
    /\ submitted \in 0..MaxSubmitted

\* The last n elements of s.
LastOf(s, n) == SubSeq(s, Len(s) - n + 1, Len(s))

(***************************************************************************)
(* The history is the most recent lines the reference of spec 4.2 keeps   *)
(* (non-blank, none repeating the one before it), oldest first, as many as *)
(* the deque holds, however many lines were submitted and however often   *)
(* the deque wrapped.                                                      *)
(***************************************************************************)
HistoryIsRecentEntries ==
    history = LastOf(accepted, IF Len(accepted) < capacity THEN Len(accepted)
                                                           ELSE capacity)

=============================================================================
