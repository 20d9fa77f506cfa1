----------------------------- MODULE KeyDispatch -----------------------------
(***************************************************************************)
(* The modal input pipeline of the editor server: a key sent by a client   *)
(* (ClientEvent::Key) is routed to its target client, appended to the      *)
(* shared BufferedKeys, run through the key-map matcher of the current     *)
(* mode and then through Mode::on_keys until the buffer is consumed, a     *)
(* mode asks for more input, or a mode ends the flow.  Keys consumed while *)
(* a macro is recording are appended, formatted, to the recording          *)
(* register.                                                               *)
(*                                                                         *)
(* Source: pepper/src/editor.rs, Editor::execute_keys and                  *)
(* Editor::on_client_event.  Mode::on_keys, the key-map matcher and        *)
(* ClientManager::focus_client live in files that are not part of this     *)
(* source set; they are modelled from the spec (sections 4.4 and 4.6).     *)
(*                                                                         *)
(* The whole of on_client_event, including the execute_keys loop, runs in  *)
(* one step: the editor is single threaded and never yields inside it.     *)
(*                                                                         *)
(* Every buffered key carries two ghost fields that the code does not      *)
(* have: the client that sent it and an identity, so that properties can   *)
(* talk about which key instance was executed.                             *)
(***************************************************************************)
EXTENDS Integers, Sequences, FiniteSets

CONSTANTS
    Clients,        \* connected clients (model values)
    NoClient,       \* ClientManager::focused_client() = None
    Keys,           \* the key alphabet
    OperatorKeys,   \* keys on which normal mode waits for one more key
    RecordKey,      \* key that starts / stops macro recording
    QuitKey,        \* key on which the mode returns EditorFlow::Quit
    KeyText,        \* Display of a Key, as written into a register
    KeyMap,         \* normal-mode key maps: a set of [from, to] records
    RecordRegister, \* the register key a recording writes to
    NoRegister,     \* recording_macro = None
    MaxTyped        \* bound on the number of keys clients send

ASSUME
    /\ NoClient \notin Clients
    /\ OperatorKeys \subseteq Keys /\ RecordKey \in Keys /\ QuitKey \in Keys
    /\ KeyText \in [Keys -> STRING]
    /\ \A m \in KeyMap : m.from \in Seq(Keys) /\ m.to \in Seq(Keys) /\ m.from # <<>>
    /\ MaxTyped \in Nat

Targets == {"Sender", "Focused"}   \* events::TargetClient

VARIABLES
    buffered,     \* editor.buffered_keys: Seq of [key, id, from]
    recording,    \* editor.recording_macro
    register,     \* editor.registers[RecordRegister], one formatted key per entry
    focused,      \* ClientManager::focused_client()
    typed,        \* number of keys sent so far (bounded by MaxTyped)
    consumed,     \* ghost: key instances executed by a Continue of on_keys
    recFrom,      \* ghost: Len(consumed) when the recording started
    recTo         \* ghost: Len(consumed) when the recording ended

vars == <<buffered, recording, register, focused, typed, consumed, recFrom, recTo>>

KeyIds == (1..MaxTyped) \X Nat
BufferedKey == [key : Keys, id : KeyIds, from : Clients]

(***************************************************************************)
(* The state execute_keys works on, bundled so that its loop can be a      *)
(* recursive operator from state to state.                                 *)
(***************************************************************************)
Ctx == [buf |-> buffered, rec |-> recording, reg |-> register,
        consumed |-> consumed, recFrom |-> recFrom, recTo |-> recTo]

(***************************************************************************)
(* KeyMapCollection::matches (spec 4.4): ReplaceWith when a map's `from`   *)
(* equals the tail, Prefix when the tail is a strict prefix of a `from`,   *)
(* None otherwise.                                                         *)
(***************************************************************************)
IsStrictPrefixOf(s, t) == Len(s) < Len(t) /\ s = SubSeq(t, 1, Len(s))

Matches(tail) ==
    IF \E m \in KeyMap : m.from = tail
        THEN [kind |-> "ReplaceWith", to |-> (CHOOSE m \in KeyMap : m.from = tail).to]
    ELSE IF \E m \in KeyMap : IsStrictPrefixOf(tail, m.from)
        THEN [kind |-> "Prefix", to |-> <<>>]
    ELSE [kind |-> "None", to |-> <<>>]

\* Append the key instances buf[a+1..b] to the ghost log of executed keys.
Executed(c, a, b) == [c EXCEPT !.consumed = @ \o SubSeq(c.buf, a + 1, b)]

(***************************************************************************)
(* Mode::on_keys in normal mode (spec 4.4), reading from keys.index = i.   *)
(* An operator key needs the key after it; without one the mode returns    *)
(* None and leaves the index where it was.  The record key toggles         *)
(* recording_macro, clearing the register when recording starts.          *)
(***************************************************************************)
OnKeys(c, i) ==
    LET k == c.buf[i + 1].key IN
    CASE k \in OperatorKeys ->
            IF i + 1 < Len(c.buf)
                THEN [res |-> "Continue", index |-> i + 2, ctx |-> Executed(c, i, i + 2)]
                ELSE [res |-> "None", index |-> i, ctx |-> c]
      [] k = RecordKey /\ c.rec = NoRegister ->
            LET d == Executed(c, i, i + 1) IN
            [res |-> "Continue", index |-> i + 1,
             ctx |-> [d EXCEPT !.rec = RecordRegister, !.reg = <<>>,
                               !.recFrom = Len(d.consumed), !.recTo = 0]]
      [] k = RecordKey ->
            [res |-> "Continue", index |-> i + 1,
             ctx |-> [Executed(c, i, i + 1) EXCEPT !.rec = NoRegister,
                                                   !.recTo = Len(c.consumed)]]
      [] k = QuitKey -> [res |-> "Quit", index |-> i + 1, ctx |-> c]
      [] OTHER -> [res |-> "Continue", index |-> i + 1, ctx |-> Executed(c, i, i + 1)]

(***************************************************************************)
(* The macro-recording write of execute_keys: when recording was on before *)
(* on_keys (from_index is Some) and is still on after it, the keys the     *)
(* mode consumed, buffered_keys[from_index..keys.index], are formatted     *)
(* into the recording register.  -1 stands for from_index = None.          *)
(***************************************************************************)
RecordKeys(c, from, to) ==
    IF from # -1 /\ c.rec # NoRegister
        THEN [c EXCEPT !.reg = @ \o [j \in 1..(to - from) |-> KeyText[c.buf[from + j].key]]]
        ELSE c

\* Mutant: from_index taken whether or not a recording was on.
FromIndexAlways(c, i) == i

FromIndex(c, i) == IF c.rec # NoRegister THEN i ELSE -1

Truncate(c, n) == [c EXCEPT !.buf = SubSeq(@, 1, n)]

(***************************************************************************)
(* The loop of execute_keys from keys.index = i, with start_index = s.     *)
(* It breaks, and truncates to s, when the buffer is consumed; returns at  *)
(* once, without truncating, when the mode returns None; and on a flow     *)
(* other than Continue resets the mode to its default and truncates.       *)
(* trigger_event_handlers after each Continue drains the event queue,      *)
(* which this module leaves to EventQueue.                                 *)
(***************************************************************************)
RECURSIVE KeysLoop(_, _, _)
KeysLoop(c, i, s) ==
    IF i = Len(c.buf) THEN Truncate(c, s)
    ELSE LET r == OnKeys(c, i) IN
         CASE r.res = "None" -> r.ctx
           [] r.res = "Quit" -> Truncate(r.ctx, s)
           [] r.res = "Continue" ->
                KeysLoop(RecordKeys(r.ctx, FromIndex(c, i), r.index), r.index, s)

\* A replacement key inherits the identity of the key that completed the match.
Replacement(to, last) ==
    [j \in 1..Len(to) |-> [key |-> to[j], id |-> <<last.id[1], j>>, from |-> last.from]]

(***************************************************************************)
(* Editor::execute_keys from start_index s: the key-map matcher runs once  *)
(* on buffered_keys[s..]; Prefix returns and keeps the keys for the next   *)
(* call; ReplaceWith swaps the tail for the mapped keys.                   *)
(***************************************************************************)
ExecuteKeys(c, s) ==
    LET m == Matches([j \in 1..(Len(c.buf) - s) |-> c.buf[s + j].key]) IN
    CASE m.kind = "Prefix" -> c
      [] m.kind = "ReplaceWith" ->
            KeysLoop([c EXCEPT !.buf = SubSeq(@, 1, s) \o Replacement(m.to, c.buf[Len(c.buf)])], s, s)
      [] OTHER -> KeysLoop(c, s, s)

Apply(c) ==
    /\ buffered' = c.buf
    /\ recording' = c.rec
    /\ register' = c.reg
    /\ consumed' = c.consumed
    /\ recFrom' = c.recFrom
    /\ recTo' = c.recTo

Init ==
    /\ buffered = <<>>
    /\ recording = NoRegister
    /\ register = <<>>
    /\ focused = NoClient
    /\ typed = 0
    /\ consumed = <<>>
    /\ recFrom = 0
    /\ recTo = 0

(***************************************************************************)
(* Editor::on_client_event for ClientEvent::Key(target, key) sent by       *)
(* client `sender`.  A Focused target with no focused client drops the     *)
(* key.  When the key moves the focus, recording_macro and buffered_keys   *)
(* are cleared and the mode reset before the key is pushed; then           *)
(* execute_keys runs from index 0.                                         *)
(***************************************************************************)
\* Mutant: the focus change does not clear buffered_keys.
ReceiveKeyKeepBuffer(sender, target, key) ==
    LET h == IF target = "Sender" THEN sender ELSE focused
        c0 == IF focused # h
                THEN [Ctx EXCEPT !.rec = NoRegister,
                                 !.recTo = IF recording # NoRegister THEN Len(consumed) ELSE @]
                ELSE Ctx
        k == [key |-> key, id |-> <<typed + 1, 0>>, from |-> h]
    IN
    /\ typed < MaxTyped
    /\ typed' = typed + 1
    /\ \/ /\ h = NoClient
          /\ UNCHANGED <<buffered, recording, register, focused, consumed, recFrom, recTo>>
       \/ /\ h # NoClient
          /\ focused' = h
          /\ Apply(ExecuteKeys([c0 EXCEPT !.buf = @ \o <<k>>], 0))

\* Mutant: the key is pushed before the target is resolved, so a dropped key stays buffered.
ReceiveKeyPushFirst(sender, target, key) ==
    LET h == IF target = "Sender" THEN sender ELSE focused
        k == [key |-> key, id |-> <<typed + 1, 0>>, from |-> h]
    IN
    /\ typed < MaxTyped
    /\ typed' = typed + 1
    /\ \/ /\ h = NoClient
          /\ buffered' = Append(buffered, k)
          /\ UNCHANGED <<recording, register, focused, consumed, recFrom, recTo>>
       \/ /\ h # NoClient
          /\ focused' = h
          /\ Apply(ExecuteKeys([Ctx EXCEPT !.buf = @ \o <<k>>], 0))

ReceiveKey(sender, target, key) ==
    LET h == IF target = "Sender" THEN sender ELSE focused
        changed == focused # h
        c0 == IF changed
                THEN [Ctx EXCEPT !.rec = NoRegister, !.buf = <<>>,
                                 !.recTo = IF recording # NoRegister THEN Len(consumed) ELSE @]
                ELSE Ctx
        k == [key |-> key, id |-> <<typed + 1, 0>>, from |-> h]
    IN
    /\ typed < MaxTyped
    /\ typed' = typed + 1
    /\ \/ /\ h = NoClient
          /\ UNCHANGED <<buffered, recording, register, focused, consumed, recFrom, recTo>>
       \/ /\ h # NoClient
          /\ focused' = h
          /\ Apply(ExecuteKeys([c0 EXCEPT !.buf = @ \o <<k>>], 0))

Next == \E c \in Clients, t \in Targets, k \in Keys : ReceiveKey(c, t, k)

\* Clients keep typing until the bound: the system may stop only there.
Spec == Init /\ [][Next]_vars

-----------------------------------------------------------------------------
(***************************************************************************)
(* Properties                                                              *)
(***************************************************************************)

(***************************************************************************)
(* Every buffered key belongs to a connected client: on_client_event       *)
(* returns before pushing a key whose Focused target has no client.        *)
(***************************************************************************)
TypeOK ==
    /\ buffered \in Seq(BufferedKey)
    /\ recording \in {NoRegister, RecordRegister}
    /\ register \in Seq(STRING)
    /\ focused \in Clients \cup {NoClient}
    /\ typed \in 0..MaxTyped
    /\ consumed \in Seq(BufferedKey)

(***************************************************************************)
(* Keys pending in buffered_keys were all sent on behalf of the focused    *)
(* client: a key of one client is never executed as the input of another.  *)
(* This is what clearing buffered_keys on a focus change in                *)
(* on_client_event is for.                                                 *)
(***************************************************************************)
PendingKeysOfFocusedClient ==
    \A i \in 1..Len(buffered) : buffered[i].from = focused

(***************************************************************************)
(* While a macro records, and after it stops, the recording register holds *)
(* exactly the formatted keys that the mode executed between the key that  *)
(* started the recording and the key (or focus change) that stopped it:    *)
(* neither control key, nothing executed twice or skipped, nothing of     *)
(* another client.  This is the from_index / recording_macro logic of      *)
(* execute_keys together with the reset in on_client_event.                *)
(***************************************************************************)
RecordedKeysAreExecutedKeys ==
    recFrom > 0 =>
        LET last == IF recording # NoRegister THEN Len(consumed) ELSE recTo
            keys == SubSeq(consumed, recFrom + 1, last)
        IN register = [j \in 1..Len(keys) |-> KeyText[keys[j].key]]

(***************************************************************************)
(* Every key instance a client sent (or that a key map produced from it)   *)
(* is executed by the mode at most once.                                   *)
(***************************************************************************)
ExecutedAtMostOnce ==
    \A a, b \in 1..Len(consumed) : a # b => consumed[a].id # consumed[b].id

=============================================================================
