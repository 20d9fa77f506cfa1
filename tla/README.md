# TLA+ models of the pepper editor

This directory holds TLA+ models of the pepper code base, the TLC
configurations that check them, and `PROJECT.json`. `PROJECT.json` indexes
the components, the runs, the mutants and the mapping from each definition
to the source lines it translates. Every module is written from the code
under `src/`. A few definitions model code that is outside that tree, such
as `Mode::on_keys`, the key-map matcher and the event queue's `flip`. Those
are written from `spec.md` and marked `spec_modelled` in the map.

The source tree mixes generations of the editor:

* `src/pepper/src/editor.rs` is the current editor core: key dispatch,
  event draining and rendering.
* `src/src/command.rs` is the current command language and child
  processes.
* `src/lib/command.rs` is an older command parser.
* `src/src/application.rs` and `src/src/client.rs` are an older
  client/server loop.
* `src/src/lsp/protocol.rs` is the language-server transport.
* `src/src/buffer_view.rs` holds buffer views and cursor propagation.
* `src/src/glob.rs` is a glob matcher.
* `src/pepper/src/lib.rs` and `theme.rs` are the launcher and the colour
  theme.

Each module says which generation it follows.

## 1. Inventory

### Components, their state and operations

| Component | Source | State | Operations |
|---|---|---|---|
| Key dispatch | `pepper/src/editor.rs` 366-443 | `buffered_keys`, `recording_macro`, the recording register, focused client, mode | `on_client_event(Key)`: route to the target client, clear input state on a focus change, push the key, `execute_keys` (key-map match, `Mode::on_keys` loop, macro recording, event drain) |
| Key spec parsing | `pepper/src/editor.rs` 72-85 | `buffered_keys` | `BufferedKeys::parse`: push the parsed keys, roll back on error |
| Event queue drain | `pepper/src/editor.rs` 165-259 | the write and read sides of `EditorEventQueue` | `trigger_event_handlers`: flip, plugins, per-event handlers, repeat until a flip finds nothing |
| Script iterator and tokenizer | `src/command.rs` 405-602 | none (pure) | `find_balanced`, `CommandIter::next`, `CommandTokenIter::next` |
| Argument cursor | `src/command.rs` 604-734, 1213-1245 | the token iterator's `rest` | `parse`, `get_flags`, `try_next`, `next`, `assert_empty` |
| Command evaluation | `src/command.rs` 799-860, 883-1031 | macro, request and builtin tables, output string, status bar | `find_command`, `register_macro`, `register_request`, `eval_commands_then_output`, `eval` (builtin, macro recursion, request forwarding) |
| Command history | `src/command.rs` 862-881 | `history: VecDeque<String>` created `with_capacity(10)` | `add_to_history` |
| Child-process slots | `src/command.rs` 1033-1211 | `spawned_processes: Vec<Process>` (alive, client, stdin buffer, output accumulator, split byte, `on_output`) | `spawn_process`, `on_process_spawned`, `on_process_output`, `on_process_exit` |
| LSP reader thread | `src/lsp/protocol.rs` 64-96, 350-441 | `ReadBuf` (`buf`, `read_index`, `write_index`), the server's pipe | `read_content_from` (header search, compaction, growth, blocking read), event send, `Closed` |
| LSP requests | `src/lsp/protocol.rs` 225-348 | `next_request_id`, `PendingRequestColection` slots (id 0 = free) | `request`, `notify`, `respond`, `add`, `take` |
| Clients and targets | `src/client.rs` 72-190 | `remotes: Vec<Option<Client>>`, `remote_targets`, `local_target` | `on_client_joined`, `on_client_left`, `map`, `get` |
| Client viewport (not modelled) | `src/client.rs` 38-63 | `scroll`, `height` | `update_view` |
| Buffer views | `src/buffer_view.rs` 10-241 | views (buffer handle, cursors) | `insert_text`, `remove_in_selection`, `undo`, `redo`, `move_cursors`, ... with propagation to sibling views |
| Session discovery | `src/application.rs` 72-91 | the endpoint file `session_socket`, listening servers | `run`: connect, else listen, else remove and listen, else fail; remove the endpoint on exit |
| Server loop | `src/application.rs` 93-323 | connections, local client, operation serializer | main loop over key, resize and connection events; spawn-output wait; client loop |
| Legacy command parser | `lib/command.rs` 286-338, 432-646 | none (pure) | `CommandIter::next`, `CommandManager::parse` (`next_token`, `add_value`, `add_flag`) |
| Glob matcher | `src/glob.rs` 5-200 | none (pure) | `match_glob`, `Glob::next_subpattern` |
| Launcher | `pepper/src/lib.rs` | CLI arguments, panic hook | `Args::parse`, `init`, `run` |
| Theme | `pepper/src/theme.rs` | colours | `Color::into_u32`, `from_u32`, `color_from_name` |

### How they interact

A client sends `ClientEvent`s. In the old generation these are
`application.rs` keys and connections; in the current one they are
`editor.rs` `on_client_event`. The editor thread handles each event to
completion. Keys go through key dispatch, which calls modes. Modes
evaluate commands through the command evaluation. Each command is
tokenized, parsed and bound to arguments.

Every command and every mode step can enqueue editor events. These are
drained by `trigger_event_handlers` after each top-level command and after
each `on_keys` step that returns `Continue`.

Commands spawn child processes. Their output and exit come back as
platform events and are evaluated as command scripts. The language-server
reader runs on its own thread and hands framed bodies to the editor
through a channel. Which process becomes the server is decided by session
discovery over a file in the working directory, and several launchers can
race there.

### What is hard, and what each component needs

* **Key dispatch.** Several clients share one key buffer and one
  recording state. A focus change must not leak one client's pending keys
  to another. A recorded macro must be exactly the keys executed while
  recording. A key must not be executed twice when a mode waits for more
  input.
* **Script iterator and tokenizer.** Many small rules interact: braces,
  quotes, comments and separators. The spec states invariants for them:
  token offsets map back, and brace groups round-trip.
* **Argument cursor.** `get_flags` and `try_next` walk the same tokens
  independently, so they must agree on which token is a value and which is
  a positional.
* **Command evaluation.** Macros recurse. Quit and errors must stop every
  enclosing level. Events produced by command N must be drained before
  command N+1 (spec 5).
* **History.** It must skip empty, leading-whitespace and repeated
  entries, and stay bounded. The bound is read from `VecDeque::capacity()`,
  which the standard library may round up.
* **Process slots.** Slots are reused. Output arrives in arbitrary chunks.
  Callbacks run commands that can spawn processes into the same pool. The
  commands evaluated must not depend on how the output was chunked, and
  one process's output must never be evaluated with another's callback.
* **LSP reader.** Reads split frames anywhere. The buffer is compacted and
  grown under parsed indices. End of file must end the thread.
* **Clients and targets.** Slots are reused by handle index. A target may
  point at a client that has left.
* **Session discovery.** Independent processes race over one file.
  Failure paths can leave a stale endpoint behind.

## 2. Plan

Modules in the order they are built, most important behaviour first:

1. `KeyDispatch` (done): `on_client_event(Key)` and `execute_keys` for
   several clients, with a normal mode that has operator keys, a macro
   record key and a quit key. `MCKeyDispatch` instantiates it.
   `EventQueue` (done) models the drain it calls after each step, on its
   own, and is shown to implement the FIFO `EventBus`.
2. `LspReader` (done): the reader thread against a server process that
   writes frames and exits. `LspClient` (done) composes it with request
   numbering, the pending-request slots and `parse_server_event`, and
   the reader is shown to implement the abstract channel `LspChannel`.
   `Protocol::notify` and `Protocol::respond` are left for later.
3. `CommandSyntax` (done): `find_balanced`, `CommandIter`,
   `CommandTokenIter`, `parse`, `get_flags` and `try_next` as operators,
   checked over every script up to a length bound.
4. `CommandHistory` (done): `add_to_history` with the ring capacity as a
   constant of the build (10 or a rounded-up capacity).
5. `ProcessSlots` (done, without the refinement yet): the slot pool with spawn, spawned, chunked output and
   exit events from the platform, interleaved across processes. The
   callback scripts are abstracted to whether they spawn. An abstract
   specification (`ProcessOutputSpec`) says which slices are evaluated:
   the non-empty slices of the whole output, in order. `ProcessSlots` is
   shown to implement it through a refinement mapping.
6. `CommandEval` (done, without the event-queue generations yet): `eval_commands_then_output` and `eval` with macros,
   requests and builtins that enqueue events, composed with the event
   queue drain of `trigger_event_handlers`.
7. `Session` (done): launcher processes racing over the endpoint file,
   with server exit and failure, composed with the server's connection
   handling and its `ClientCollection` and `ClientTargetMap` (join, leave
   and map).
8. `LegacyCommand` (done): the older parser of `lib/command.rs`
   (`CommandIter` and `CommandManager::parse`) as recursive operators,
   checked against a reference grammar in the `commandsyntax` run.
9. `BufferViews` (done): views on shared buffers, with insert, remove,
   undo and redo propagated to siblings.
10. `GlobMatch` (done): `match_glob` as a recursive operator, checked against a
    reference definition of glob matching over short patterns and paths.

## 3. Modules

### KeyDispatch (`KeyDispatch.tla`, `MCKeyDispatch.tla`)

**State.**

* `buffered` is `editor.buffered_keys`. Each key carries two ghost
  fields: the sending client, and an identity.
* `recording` is `recording_macro`.
* `register` is the recording register, one formatted key per entry.
* `focused` is the focused client.
* `typed` counts the keys sent, up to the bound `MaxTyped`.
* `consumed`, `recFrom` and `recTo` are ghosts. They record which key
  instances were executed and where a recording started and ended.

**Action.** `ReceiveKey(sender, target, key)` is the whole of
`on_client_event(Key)`, including the `execute_keys` call.

* `execute_keys` is the operator `ExecuteKeys`.
* Its loop is the recursive `KeysLoop`, with `FromIndex`, `RecordKeys` and
  `Truncate` for the lines they name.
* `Mode::on_keys` (`OnKeys`) and `KeyMapCollection::matches` (`Matches`)
  are written from spec 4.4 because their code is not in `src/`.
* Normal mode waits for a second key after an operator key, toggles
  recording on the record key, and returns `Quit` on the quit key.

**Properties.**

* `PendingKeysOfFocusedClient`: every buffered key was sent by the focused
  client.
* `RecordedKeysAreExecutedKeys`: the register holds exactly the formatted
  keys executed between the start and the end of a recording.
* `ExecutedAtMostOnce` (violation run): no key instance is executed
  twice.

### LspReader (`LspReader.tla`)

**State.**

* The server's pipe, its end of file, and the frames written (ghost).
* `ReadBuf` as `buf`, `readIndex` and `writeIndex`. The buffer is a
  sequence of symbols: `CL` for `Content-Length: `, `Num(n)` for the
  digits, `CRLF2` for the blank line, and `Byte(f, j)` for body bytes.
* The call's `content_start_index` and `content_end_index`.
* The thread's position in the loop, and the bodies received by the
  editor.

**Actions.**

* `Iterate` is one iteration of the loop: header search, then break,
  compaction, or growth and read.
* `Read` is the blocking `reader.read`: some bytes, or `Ok(0)` at end of
  file.
* `ReadError` is `Err`, which ends the thread with `Closed`.
* `ServerWrite` and `ServerExit` are the language server.

A read may stop between any two symbols. Stopping inside a header pattern
is the same, for `find_pattern_end`, as stopping before it, so the
abstraction loses no split that matters.

**Properties.**

* `ImplementsChannel` (refinement): the reader implements the abstract
  channel `LspChannel` (below). This says two things. Every delivered body
  is the next frame's body, however reads split the stream and however
  often the buffer was compacted or grown. And every frame the server wrote
  is eventually delivered unless the thread has sent `Closed`.
* `ClosedAfterExit` (liveness, violation run): when the server exits, the
  thread eventually reports `Closed`.

**Fairness.** Weak fairness on `Iterate` and `Read`. The reader is an OS
thread that blocks only in `read`, and `read` returns whenever the pipe
has data or is closed. `ReadError` gets no fairness because an I/O error
is not guaranteed to happen.

### LspChannel (`LspChannel.tla`): the abstract reader

`LspChannel` states what the reader thread promises the editor, with the
bytes and the `ReadBuf` left out.

* **State.** `frames` are the bodies the server wrote. `delivered` are the
  bodies sent to the editor. `closed` means `Closed` was sent. `open`
  means the server's stdout is still open.
* **Actions.**
  * `Send`: the server writes a body while its stdout is open.
  * `Exit`: the server exits.
  * `Deliver`: the next undelivered body reaches the editor, while the
    channel is not closed.
  * `Close`: the channel closes. This may happen at any time, because a
    read can fail.
* **Fairness.** Weak fairness on `Deliver`.

`LspReader` maps onto it with `Channel == INSTANCE LspChannel WITH ...`:

| Abstract | Reader |
|---|---|
| `frames` | `sent` |
| `delivered` | `received` |
| `closed` | `pc = "exited"` |
| `open` | `~eof` |
| `Bodies` | the bodies `Body(f, n)` the server can frame |

Under this mapping, `ServerWrite` is `Send` and `ServerExit` is `Exit`. A
`Return` with a non-empty body is `Deliver`. A `Return` with an empty body,
or a `ReadError`, is `Close`. Every other step stutters. The
`lsp_connection` run checks `Channel!CSpec` as the PROPERTY
`ImplementsChannel`.

The abstract spec does not promise that the channel closes after the
server exits. The reader breaks that promise, as shown by the
`lspreader_eof` run.

### LspClient (`LspClient.tla`)

`LspClient` EXTENDS `LspReader` and adds the editor's side of the
connection. The reader's actions keep their meaning; the server now
writes frames that carry a JSON body, recorded in the ghost `msgs` (frame
`f`'s body symbols `Byte(f, j)` name it).

**State.**

* `nextRequestId` is `Protocol.next_request_id`.
* `pending` is `PendingRequestColection.pending_requests`, a sequence of
  `[id, method]` slots where id 0 marks a free slot.
* `inbox` holds the ids of our requests the server has read and not
  answered yet.
* `handled` counts the reader events the editor has handled.
* The ghosts `asked` (the method of each id) and `matched` (the
  responses `take()` resolved).

A JSON body is abstracted to what `parse_server_event` looks at: the kind
the server meant, its id, and whether `result` is a value or null.

**Actions.**

* `Request(method)` is `Protocol::request` followed by `pending.add`. The
  id is incremented before the write. After the server exits the write
  fails, and nothing is added.
* `ServerResponds` answers any request in `inbox`, in any order, with a
  result or an error object. `ServerInitiates` sends a server request or a
  notification.
* `HandleEvent` classifies the next delivered body with
  `ParseServerEvent` and takes a response's id from `pending`.

The caller of this API (the LSP client) is not in the repository. The
editor is modelled as the caller the API is written for: it adds every
request it sends and takes every response it is sent.

**Properties.**

* `ResponsesMatchRequests`: every resolved response gets the method of the
  request that carried its id, and no id resolves twice. This holds
  however the server orders its answers and however often `add()` refills
  a slot that `take()` freed.
* `PendingAreOutstanding`: the slots in use are exactly the requests
  written and not yet answered, one slot each. A request whose write
  failed holds none.
* `EveryResponseResolved` (liveness): every response the server writes is
  eventually resolved, unless the reader thread stopped.

**Fairness.** As in `LspReader`, plus weak fairness on `HandleEvent`: the
editor's main loop takes every event from its channel.

**The null result.** JSON-RPC allows `"result": null`, and hover and
`shutdown` return it. `parse_server_event` (`protocol.rs:128`) then falls
through to the `id` test and makes the body a server `Request`, so the
pending request is never taken. The `lsp_connection` run sends non-null
results only. With `Results = {"value", "null"}` in `MCLspClient.cfg`, TLC
finds `EveryResponseResolved` violated.

### CommandSyntax (`CommandSyntax.tla`, `MCCommandSyntax.tla`)

**Operators.**

* `FindBalanced` is `find_balanced`.
* `ScanCommand`, `AtComment`, `NextCommand` and `Commands` are
  `CommandIter`.
* `QuotedToken`, `BracedToken`, `NextToken` and `Tokens` are
  `CommandTokenIter`.
* `Parse` is `CommandManager::parse`.
* `GetFlagsFrom` and `GetFlags` are `get_flags`.
* `TryNext`, `SkipValue` and `Positionals` are `try_next`, called until it
  returns `None` or an error.
* `AssertEmpty` is `assert_empty`.
* `ParseProcessCommand` and `EnvFrom` are `parse_process_command`: the
  program and arguments, then the `key=value` environment loop.
  `Reversed` is the case where `CommandToken::as_str` panics (`from > to`,
  a braced token). `ParseProcessCommand` then returns `"Panic"`: for
  example, on the environment `x={}` (lines 1265 and 1297-1298).

**The checked system.** It types scripts one character at a time from
the empty script up to `MaxLen`. Every invariant is a statement about
every command of the current script.

**Properties.**

* `CommandsSplitAtTerminators`: commands are ordered and non-empty, start
  with a non-blank, and contain no terminator outside a brace group.
* `BraceGroupsStayWhole`: a balanced group never spans two commands. This
  is spec 8. The group end comes from an independent depth count, not from
  `find_balanced`.
* `NothingLost`: every character outside all commands is blank, a `;`, or
  in a comment.
* `NoPositionalLost`: `try_next` returns every text argument that is not
  the value of `-flag=value`.
* `AssertEmptyOnlyWhenDone`: wherever a command stops reading
  positionals, `assert_empty` returns `Ok` only if `try_next` would find
  nothing more. So a command never ignores an argument it did not read.
* `ProcessCommandsParse`: unless it panics, `parse_process_command`
  succeeds exactly when the command has a program and no unterminated
  token, and the environment is whole `key=value` pairs. The panic is the
  hazard of `command.rs:555`, which is covered below under `TokenOffsetsMapBack`. The check compares it with a
  declarative grammar (`KeyValuePairs`), using every command of the script
  as the command and the whole script as the environment.
* `TokenOffsetsMapBack` (not run): spec 8, a token's range selects its
  text. TLC finds it violated on the script `{}`. A braced token's `to` is
  relative to the text after `{` (`command.rs:555`), so `{}` gets the
  range `[1, 0)`, and `c x {aaa}` gets `from > to`. No run is spent on
  it. It is listed as a hazard with this configuration.

**The other direction of `assert_empty`.** `assert_empty` can also reject
an argument list `try_next` reads completely. After a flag it consumes a
second flag without looking at what follows (`command.rs:716`). For
`c -a -b=v` it then meets the `=` at the top of its loop and returns
`InvalidToken`. Within the bounds, TLC finds `} - -=` as a counterexample
to that direction. It is recorded as a hazard; the passing run checks the
direction that holds.

`GetFlags` is modelled but no run checks it. The code binds the text after
`-switch` as that flag's value, and also returns it as a positional. A
flag at the end of the arguments is bound to its own token. The unit tests
at `command.rs:1431` and `1440` already fail on this, so the hazard list
records it instead of a violation run.

### LegacyCommand (`LegacyCommand.tla`)

`src/lib/command.rs` holds an older command language: one command per
line, `#` comments, `\` escaping the next byte, and a builtin's arguments
as values, `-flag` or `-flag=value`, and a `!` after the name. It extends
`CommandSyntax` for its slicing and scanning helpers, and is checked in
the `commandsyntax` run: `MCCommandSyntax` types scripts over the union
of both alphabets, and each invariant looks only at the scripts of its
own language.

**Operators.**

* `LegacyScan`, `LegacyNext` and `LegacyLines` are `CommandIter::next`:
  the inner byte loop, the outer loop that skips blank lines and
  comment-only lines, and the iterator run to the end. A scan that would
  read past the end is reported as `"Panic"`.
* `Separator`, `LegacyToken`, `LegacyTokensFrom` and `LegacyTokens` are
  `next_token`, `is_separator` and `TokenIterator`.
* `AddValue` and `AddFlag` are `add_value` and `add_flag`, with
  `LegacyArgs`, `NoFlag` and `FlagValue` for `CommandArgs`.
* `LegacyBind` is the argument loop of `parse`, with the peeked token
  after a flag without `=`. `LegacyParse` is the rest of `parse`: the
  name, the bang and the builtin lookup.

The builtin of the run (`MCLegacyBuiltin`) takes a bang, any number of
extra values and one flag `-c`. `LegacyParse(c, T)` and
`LegacyGrammar(c, T)` take the line `c` together with `T`, the tokens
`LegacyTokens(c)` that the code's `TokenIterator` yields for it.

The run `commandsyntax` shares its scripts with `CommandSyntax`. It
checks the three properties below in the guarded forms
`MCLegacyLinesSplit`, `MCLegacyNothingLost` and
`MCLegacyParseMatchesGrammar`. These apply only to scripts written in the
legacy alphabet (`InLegacy`) of at most five bytes.

**Properties.**

* `LegacyLinesSplit`: the lines are non-empty, start with a non-blank,
  are ordered and apart, and hold no unescaped newline or `#`; each line
  ends at one.
* `LegacyNothingLost`: a script that does not panic loses only blanks
  and comments.
* `LegacyParseMatchesGrammar`: `parse` accepts exactly the lines of a
  reference grammar (`LegacyGrammar`, written over the tokens), and binds
  the same bang, values and flag settings.

**Two defects the model reaches.** A backslash as the last byte of a
script steps the index past the end; the loop's end test misses it and
`bytes[i]` panics (`lib/command.rs:320`). And `add_value` compares the
count of values beyond the required ones with `required + optional`
(`lib/command.rs:518-525`). So a command with required values accepts up
to `2 * required + optional` values. The run's builtin has no required
values, where both bounds agree. With one required value and no optional
one, TLC finds `LegacyParseMatchesGrammar` violated on `c''c`: the code
binds the two values `""` and `c`. Both are recorded as hazards.

### Session (`Session.tla`, `MCSession.tla`)

Every editor process is a launcher `l` running `run`
(`application.rs:72-91`). `pc[l]` says where it is:

| `pc` | Code |
|---|---|
| `start` | before `ConnectionWithServer::connect` (line 77) |
| `listen`, `remove`, `relisten` | before lines 79, 82 and 83 |
| `server`, `exiting` | in `run_server_with_client`'s loop; after it, before `remove_file` (81, 85) |
| `client` | in `run_client`'s loop |
| `done`, `failed`, `bindError`, `error` | returned `Ok`, `CouldNotConnectToOrStartServer`, the `?` of line 83, or another error |

`endpoint` is the server whose socket is bound at the path, `NoOwner` for
no file, and `Crashed` for a file left by a server that died before the
run starts. A server is reachable only while its loop runs (`Serving`).
Each client process has a `link`: `up`, closed by the client, or closed
by the server. Per server, `conns` holds the handles of its open
connections, and `remotes`, `bufs`, `localTarget` and `remoteTargets`
are the `ClientCollection` and `ClientTargetMap` fields. A target is kept
as its `into_index`.

**Actions.** `Connect`, `Listen`, `Remove` and `Relisten` are the four
steps of `run`; each is its own system call, so other processes step in
between. `Accept` is the `NewConnection` event with `on_client_joined`.
`Depart` is a `Stream` event ending in `Quit` or `Err`: `close_connection`
and `on_client_left`. `RemoteMap` and `LocalMap` are keys of a client or
of the server's UI that end in `ClientTargetMap::map`. `ServerQuit` is a
local `Quit`, `ServerFails` any `?` in the loop, `RemoveOnExit` the
`remove_file` after a clean exit. `ClientSeesClose` and `ClientFails` are
`run_client` leaving its loop. `accept_connection` is outside this
source set. It hands out the lowest free handle (`FreeHandle`), per the
spec's reuse of freed slots (spec 4.6).

**Properties.**

* `SlotsMatchConnections`: while a server runs, its client slots are
  exactly its open connections, one per accepted client. `remote_bufs`
  and `remote_targets` cover every such handle.
* `PurgedOnLeave` (action property): when a client leaves, no target
  names it, and its own entry is reset.
* `FailsOnlyInRace`: a launch gives up or fails to bind only if another
  process bound or removed the endpoint after its failed connect. Alone,
  it always recovers a stale endpoint.
* `ClientsFollowServer` (liveness): a client whose server stopped ends.

**The race of spec 9.** Two launches can both fail to connect. One
binds, and the other removes its live endpoint and binds its own. TLC
reaches two serving editors, and the orphaned one's clean exit later
removes the other's endpoint. Spec 9 accepts this, so no property forbids
it.

**A stale target.** `map` keeps `Remote(h)` whenever `h` is below
`remote_targets.len()`, which stays true after `h` left
(`client.rs:167`). So a target can name a departed client, and the next
client given `h` silently inherits it. The callers of `map` are not in
this source set, so the run lets `to` be any handle. A `TargetsLive`
invariant would fail in four steps; the hazard list records it.

### EventQueue (`EventQueue.tla`, `EventBus.tla`, `MCEventQueue.tla`)

`EditorContext::trigger_event_handlers` and `Editor::on_idle` of
`pepper/src/editor.rs`. `EditorEventQueue` and `EditorEventIter` are in
`events.rs`, outside `src/`. Their `flip` and `enqueue` are modelled from
spec 4.3: `flip` swaps the two sides and clears the new write side.

**State.** `write` and `read` are the two sides of the queue. `index` is
the iterator's index into the read side. `phase` is where the drain
stands: `"editing"` when it is not running, then `"plugins"`,
`"handling"` and `"looping"`. `count` numbers the events; each event is a
record of kind, buffer and id. `handled` is a ghost log of the events
whose handler ran. `written` records the `StdoutOutput` writes of
`BufferWrite`.

**Actions.**

* `Enqueue` is a command or mode enqueuing an event. `OnIdle` is
  `on_idle`. Both happen only while the drain is not running, because the
  editor is single threaded.
* `TriggerEventHandlers` is the call, and `NextGeneration` is the loop
  going round. Both are `Flip`: flip, then return if the new read side is
  empty.
* `OnEditorEvents` is `PluginCollection::on_editor_events`. The plugins
  see the generation and may enqueue an event, which lands on the write
  side.
* `HandleEvent` runs the handler of the event at the index. The effects
  on buffers, views, syntax and insert state are in code outside `src/`,
  so they are kept only in `handled`. `StdoutWrite` is the `BufferWrite`
  arm: the content goes to the first client, in iteration order, whose
  stdin buffer is the written one.

**Abstract specification.** `EventBus` is one FIFO: `Post` appends and
`Deliver` hands the oldest event to the handlers. The mapping takes the
rest of the read side followed by the write side as the bus's queue, and
`handled` as its delivered events.

**Properties.**

* `ImplementsEventBus`: every event is handled exactly once, in enqueue
  order, across generations. A flip that kept the old generation would
  replay it. The mutant `FlipKeep` shows this.
* `DrainReachesFixedPoint`: every call returns, and only once a flip
  finds the write side empty. So events that plugins enqueue during a
  drain are drained by the same call. The mutant `HandleEventOnce`, which
  returns after one generation, breaks it but not the refinement.

`execute_keys` calls the drain only after an `on_keys` that returns
`Continue`. Events enqueued before a `None`, `Quit` or `Suspend` therefore
wait past the batch. `KeyDispatch` and `EventQueue` are not composed, so
this is listed as a hazard.

### BufferViews (`BufferViews.tla`, `MCBufferViews.tla`)

`BufferViewCollection` of `buffer_view.rs`: views onto shared buffers,
and the propagation of every edit to the other views of the same buffer.

* `views` is the `buffer_views` vector. Each entry holds its buffer
  handle and its cursor (`anchor`, `position`). `text[b]` is buffer `b`'s
  content, as a sequence of character identities. A position is an offset
  into it, because the shift rules of spec 4.5 are the same on offsets as
  on lines and columns.
* `Push` is `push` of `BufferView::with_handle`. `MoveCursors`,
  `CollapseCursorAnchors` and `SwapCursorPositionAndAnchor` are the
  cursor methods. `move_cursors` caps the column at the line's length but
  does not raise it to 0. The conversion of a negative column is outside
  this source set, so the model lets it land at either bound.
* `InsertText` and `RemoveInSelection` are the collection's methods. The
  buffer edits at the acting cursor, the acting cursor takes the range,
  and the range goes to every view `Siblings` names. That is
  `current_and_other_buffer_views_mut`.
* `Undo` and `Redo` call `ApplyEdits`, which is `apply_edits`: for each
  edit the buffer yields, `ApplyEdit` sets the acting cursor to the end
  of the range (insert) or its start (remove), and the siblings shift.
  The buffer's undo history is outside the spec's scope. So
  `HistoryStep` lets the buffer yield any one or two edits of its text.
* The buffer (`Inserted`, `Removed`) and `Cursor::insert`,
  `Cursor::remove` and `Cursor::range` (`InsertShift`, `RemoveShift`,
  `Selection`) are modelled from spec 4.5.

Each cursor end carries a ghost mark: the identity of the character it
stands before. A mark follows its character through edits. When that
character is removed, the mark moves to the next surviving one. Only
where the code sets a cursor outright is the mark reset: a move, a
collapse, a swap, or the acting view of an undo or redo.

**Properties.**

* `TypeOK`: every cursor end is a position of its buffer's text.
* `CursorsFollowText`: every cursor end is where its mark is, in every
  view. This is spec 4.5's sibling cursor consistency. It takes several
  views' edits in some order to break it, as the mutant that shifts the
  siblings of an undone removal as for an insert shows.

### CommandHistory (`CommandHistory.tla`, `MCCommandHistory.tla`)

**State.**

* `history` is the deque, one entry per command line. An entry is a short
  sequence of characters; only its first character and its emptiness
  matter.
* `capacity` is `history.capacity()`, chosen in `Init` from `Capacities`.
  Rust 1.67 and later allocate exactly 10. The ring buffer of earlier
  releases rounds `with_capacity(10)` up to 15.
* `accepted` is a ghost: what the spec 4.2 reference keeps, without bound.
  It is updated by `RefAdd`, which does not use the code's rule.

**Action.** `AddToHistory(e)` is the whole of `add_to_history`:

* a blank line or a repeat of the last entry is dropped;
* when `len() == capacity()`, the front string is popped and refilled;
* the entry is pushed at the back.

**Properties.**

* `TypeOK`: the deque never holds more than `capacity()` entries.
* `HistoryIsRecentEntries`: the history is the last `capacity` entries of
  the reference, after any number of wraps.

With capacity 15 the history holds 15 entries, where spec 4.2 says 10.
This is listed as a hazard at `command.rs:872`.

### ProcessSlots (`ProcessSlots.tla`, `MCProcessSlots.tla`)

**State.**

* `slots` is `spawned_processes`.
* `procs` is the platform's view of each process, by a ghost pid: its
  slot, state, stdin, how many chunks it has written, and its exit
  status.
* `evals` is a ghost log of every callback evaluation: the slice, the
  owning pid and whether it was valid UTF-8.

**Actions.**

* `UserSpawn` is a command calling `spawn_process`.
* `ProcessSpawned`, `ProcessOutput` and `ProcessExit` are the platform
  delivering `on_process_spawned`, `on_process_output` and
  `on_process_exit`. They interleave freely across processes.
* The callback script either does nothing more or spawns a child.
  Spawning re-enters `spawn_process` in the middle of `OutputLoop`.
* `SpawnProcess` reuses the first dead slot, or pushes a new one.
* `OutputLoop` is the split loop of `on_process_output`. It evaluates each
  non-empty slice, stops at invalid UTF-8, and drains what it consumed.
* `OnProcessExit` marks the slot dead, then evaluates what is left.

**Properties.**

* `TypeOK`: a slot is alive exactly while its process has not exited.
* `NoCrossTalk`: every running process owns the slot its events name, and
  every callback evaluates the template of the process whose output
  triggered it.
* `CallbacksMatchOutput`: the slices evaluated for a process are, in
  order, the non-empty pieces of its whole output split at the split
  byte, plus the rest after a successful exit. The pieces come from a reference over the concatenated output, so
  they do not depend on how the platform chunked the output.
* `SlotsReused`: there are never more slots than processes ever running
  at once.

### GlobMatch (`GlobMatch.tla`, `MCGlobMatch.tla`)

**Operators.**

* `NextSubpattern`, `Bracket` and `Accepts` are `Glob::next_subpattern`
  and its byte tests.
* `Loop` is the matching loop of `match_glob`. It keeps the single retry
  point (`SegmentAfter`, `Fail`) exactly as the code does.
* `Loop` returns "diverged" when the path index has passed the end of the
  path by more than one byte, or a fuel bound runs out. In the code, that
  loop never returns.

**Reference.** `RefMatch` and `WellFormed` are independent recursive
definitions of glob matching:

* `*` matches any run of bytes inside one segment;
* `**` matches any run of whole segments;
* `?` matches one non-separator byte;
* brackets match one byte in a set or a range.

**Properties.**

* `SubpatternsRoundTrip`: the parse ends in `None` exactly for well-formed
  patterns, and renders back to the pattern.
* `MatchesReference`: when the match returns, it agrees with the
  reference.
* `Terminates` (not run): the match always returns. Over the star
  alphabet `MCStarChars`, TLC finds it violated on `match_glob("*/", "")`.
  After a star, every failure retries past the end of the path
  (`glob.rs:85`). Glob matching is outside the spec's scope, and a unit
  test with that pattern hangs, so no run is spent on it. It is listed as
  a hazard.

A star that ends a pattern also matches across a separator:
`match_glob("*", "/")` is true. Checking `MatchesReference` over star
patterns finds it. The passing run covers bracket patterns only, because
star patterns first hit the non-termination. The glob hazards record
this.

### CommandEval (`CommandEval.tla`, `MCCommandEval.tla`)

**State.**

* `macros` and `requests` are `macro_commands` and `request_commands`.
* `events` counts editor events not yet handled.
* `status` is the status bar.
* `sent` holds the `WriteToClient` requests of the last evaluation.
* `crashed` becomes true when a nested eval overflows the stack.
* `run` and `last` are ghosts: what the last evaluation ran, and its
  sender, script and result.

A command is its name (bang stripped) plus two flags: `bang`, and `extra`
for whether arguments follow. `CommandSyntax` models the text.

**Actions.** `EvalCommandsThenOutput(client, script)` is the whole of
`eval_commands_then_output`:

* `Script` is its loop. It drains the events after each command that
  returns `Ok(None)`. On an error it clears the output, writes the
  command to the status bar, and stops.
* Each command goes through `Eval`, with `Parse` and `FindCommand`
  resolving it in the order macro, request, builtin.
* A macro refuses a bang and arguments, then runs its body through
  `EvalBody`, recursing and stopping at the first operation or error.
* A request refuses a bang and writes a `Request` frame to its
  registrant.

The output then becomes one `CommandOutput` frame for a connected client
without a UI, or a status bar message otherwise.

`RegisterMacro` and `RegisterRequest` are `register_macro` and
`register_request`. Each replaces the entry of the same name, or pushes a
new one.

**Builtins.** `CommandManager::new` leaves `builtin_commands` empty (the
table is commented out), so the builtins are a constant: one that prints
its name, one that enqueues an event, one that quits and one that fails.
These are written from spec 4.2 and marked `spec_modelled`.

**Properties.**

* `RunsTheExpansion`: the commands run are exactly the prefix of the
  script's flattened macro expansion up to the first quit, failure, parse
  error or stack overflow. The expansion is taken from an independent
  reference (`Flat`, `Cut`), not from the nested loops of the code.
* `OutputReachesSender`: what the sender receives. A client without a UI
  gets exactly one `CommandOutput` frame, and that frame is empty when the
  script failed. This is the divergence from spec 7 listed below.
* `EventsPendingAfterScript`: the events a script leaves queued. Handlers
  run after each top-level command that returns `Ok(None)`
  (`command.rs:921`), and nowhere else. So:
  * a script that completes leaves no event;
  * a script that stops leaves the events of the stopping command,
    including those its macro bodies emitted, since `EvalBody` does not
    drain between body commands (`command.rs:989`);
  * if it stopped at its first command, the events queued before the
    script are left too.

  The count comes from the reference expansion (`Cut`). The mutant
  `EvalBodyDrained` drains after each body command, and TLC finds it
  violated.

## 4. Runs

| Run | Config | Expect | What it shows |
|---|---|---|---|
| keydispatch_safety | `MCKeyDispatch.cfg` | pass | Two clients, five keys (one operator key, a two-key map `g x -> d x`), seven keys typed. Focus changes never leave another client's keys pending. Recorded macros equal the executed keys. |
| keydispatch_replay | `MCKeyDispatchReplay.cfg` | violation | Typing `g` (a key-map prefix), then `d` (an operator key), then `d` executes `g` twice. `execute_keys` returns on `None` without truncating the buffer (`editor.rs:392`). |
| lsp_connection | `MCLspClient.cfg` | pass | Module `LspClient`. Two requests of two methods, answered in any order with results or error objects, plus server requests and notifications. Up to two frames of one or two body symbols pass through a two-symbol initial buffer. The reader refines the abstract channel `LspChannel`: bodies arrive whole and in order, and every frame is delivered unless `Closed` is sent first. Every response resolves to its own request's method, and freed slots are reused. |
| lspreader_eof | `MCLspReaderEof.cfg` | violation | After the server exits, `read` returns `Ok(0)` forever and the loop never ends. `Closed` is never sent and the thread spins (`protocol.rs:422-423`). |
| commandsyntax | `MCCommandSyntax.cfg` | pass | All 1,111,111 scripts of up to six characters over `x`, space, newline, `;`, `#`, `-`, `=`, `'`, `{` and `}`. Commands split at terminators, brace groups stay whole, and nothing is lost. `try_next` and `assert_empty` never let a positional go unread, and `parse_process_command` agrees with the `key=value` grammar. With it, all scripts of up to five bytes of the legacy language of `lib/command.rs`: its lines split at unescaped newlines and comments, and `parse` agrees with a reference grammar. |
| commandhistory | `MCCommandHistory.cfg` | pass | Eighteen submissions over an empty line, a line with a leading blank, and two distinct lines. Capacity is 10 or 15. The deque wraps, and it always holds the latest entries the reference keeps. |
| processslots | `MCProcessSlots.cfg` | pass | Two user spawns and their callback-spawned children, with up to two stdout chunks each over `a`, the split byte and an invalid byte. There is no cross-talk, callbacks see exactly the pieces of the whole output, and slots are reused. |
| globmatch | `MCGlobMatch.cfg` | pass | Every pattern of up to six bytes over `a b [ ! - ]` and every path of up to three bytes over `a b /`. Sub-patterns round-trip, and the match agrees with the reference. |
| commandeval | `MCCommandEval.cfg` | pass | Seven scripts from a UI client, a client without a UI, or no client, against every registration of two macros and two requests. The names are shadowed in each order, and the macro `m` may call itself until the stack overflows. |
| bufferviews | `MCBufferViews.cfg` | pass | Up to three views on two buffers of up to two characters, with three characters ever inserted. The views insert, remove the selection, move, collapse and swap, undo and redo in any order. Every cursor stays a position of its text. Every sibling's cursor keeps standing before the same character. |
| eventqueue | `MCEventQueue.cfg` | pass | Module `MCEventQueue`. Producers, the idle tick and plugins reacting inside a drain enqueue up to four events of three kinds. The double-buffered queue refines the FIFO `EventBus`: every event is handled once, in enqueue order, across generations. Every call of `trigger_event_handlers` returns, and it returns with the write side empty. |
| session | `MCSession.cfg` | pass | Three editors launched in one directory over a clean or a stale endpoint, with two handles per server. Failed launches are always due to a race. Client slots, buffers and targets stay in step with the connections through joins, departures and reuse. A departure leaves no target naming the client, and clients end when their server stops. |

### What the runs found

* **Key replay** (`editor.rs:392`). Keys already executed are executed
  again after a `None` from `Mode::on_keys`.
* **Spin at end of file** (`protocol.rs:423`). The LSP reader thread never
  sends `Closed`, and it busy-loops after the server exits.
* **Errors not reaching the sender** (`command.rs:910`). A client without
  a UI gets an empty `CommandOutput` frame instead of the error. Spec 7
  says the frame carries the error. The passing property
  `OutputReachesSender` of the `commandeval` run states what the code
  does instead.

More defects came to light while modelling. They are in the hazard
list, each with the configuration that shows it:

* `match_glob` does not terminate on patterns with a star that fail at
  the end of the path (`glob.rs:85`);
* a braced token's range does not map back into its command, and
  slicing the command with it panics (`command.rs:555`);
* a `null` LSP result is taken for a server request (`protocol.rs:128`);
* `assert_empty` rejects `-a -b=v` (`command.rs:716`);
* the legacy parser panics on a trailing backslash (`lib/command.rs:320`)
  and accepts too many values for a command with required values
  (`lib/command.rs:518`);
* `ClientTargetMap::map` accepts a departed client as a target
  (`client.rs:167`).

### Bounds

* **Key dispatch.** Seven typed keys are enough for the orders that
  matter: a focus change in the middle of a map prefix, of an operator
  key and of a recording. They also reach a recording started and stopped
  within one call.
* **LSP connection.** Two frames with bodies of one or two symbols,
  against a buffer of two symbols. Every frame is longer than the buffer,
  so compaction, growth and frames straddling reads all occur. Coverage
  shows each `Iterate` disjunct firing. Two requests of two methods are
  enough for two outstanding requests, an answer out of order, and a slot
  freed and refilled. The composition has about 158,000 states. Larger
  frame bounds multiply the client's interleavings past what the liveness
  check can handle. The eof run checks the reader alone, with two frames.
* **History.** Eighteen submissions exceed the larger capacity by three,
  so both capacities wrap. The blank and the repeat cases occur at every
  fill level.
* **Process slots.** Two user processes, each able to spawn a child from
  its callback, give up to four processes sharing slots. Two chunks over
  three bytes give a slice split across chunks, an empty slice, a slice
  left for the exit, and an invalid slice.
* **Glob.** Six pattern bytes hold a complete range (`[a-b]`) followed by
  a byte, and a negated set. Paths of three bytes hold two segments.
* **Command evaluation.** One evaluation per behaviour, after any
  sequence of registrations. Every command source, every shadowing order,
  every error path and a recursion two levels deep are reached in one
  call, so `MaxEvals = 1`. `MaxDepth = 2` lets a recursive macro overflow
  and a non-recursive chain (`print` -> `m` -> body) complete.
* **Session.** Three launchers are enough for a server with two
  clients, whose handles are freed and reused. They also reach two launches
  racing while a third is connecting or exiting, and a stale endpoint
  from before the run or from a failed server. `MaxHandles = 2` is the
  most a server can need, one per other editor. The model has about
  84,000 states.
* **Legacy parser.** Five bytes over ten characters hold an escaped
  newline, a comment after a command, `-c=x`, a quoted value and a bang.
* **Event queue.** Four events allow a generation of two, a plugin event
  enqueued while it drains, and one more enqueued after the call. One
  buffer and three clients: one without a stdin buffer, then two reading
  into it, so a `BufferWrite` has a first reader and a second one to skip.
  About 3,300 states.
* **Buffer views.** Three views let two siblings share a buffer while a
  third is on the other buffer, which an edit must leave alone. A text of
  two characters holds a selection with a character on either side.
  Three fresh characters allow an insert of two, then an undo that inserts
  again, or a removal followed by a re-insert in one undo. The model has
  about 19,000 states under the symmetry of the two buffers.
* **Command syntax.** Six characters are enough for `{;}`-style groups
  with a terminator inside, for nested groups (`{{}}`), for comments
  followed by another line, and for `-x=x` flags.

### Fairness

The LSP modules, `EventQueue` and `Session` state liveness, and only they assume
fairness.

* The reader thread gets weak fairness on `Iterate` and `Read`. It is an
  OS thread of its own, and it blocks only in `read`.
* The editor gets weak fairness on `HandleEvent`, because its main loop
  receives from the event channel whenever an event is waiting.
* The server, the user and I/O errors get no fairness. A server may never
  answer, and a read need never fail.

* In `EventQueue`, the steps of a running drain (`NextGeneration`,
  `OnEditorEvents`, `HandleEvent`) get weak fairness. Once called,
  `trigger_event_handlers` is a plain loop on the single editor thread,
  and nothing preempts it. When the editor calls it depends on the caller,
  so enqueues and `TriggerEventHandlers` get no fairness.

* In `Session`, each process's own steps are fair: the discovery steps
  of `run`, the server's accept and its handling of a closed client (its
  event loop wakes on both), `remove_file` after a clean exit, and a
  client noticing its server gone. Launches, quits, errors and key
  presses are the user's or the system's, and get no fairness.

The other modules check safety only, with `CHECK_DEADLOCK FALSE` where the
modelled system ends: a bounded run of key presses, submissions or
evaluations, or a crash on overflow.

## 5. Not modelled

* **Rendering** (`EditorContext::render`, `application.rs` drawing). This
  is output formatting and I/O with no control decision beyond "has a
  UI".
* **Panic hook and debugger launch** (`pepper/src/lib.rs` `init`). These
  are process-level side effects.
* **Theme** (`theme.rs`). Static colour tables.
* **`Client::update_view`** (`client.rs` 38-63). Nothing in this source
  set calls it. Its cursor line and picker height come from the editor
  outside `src/`. It keeps no state that a modelled step changes, so TLC
  has no behaviour to explore.
* **Several cursors in one view, and `commit_edits`** (`buffer_view.rs`).
  `BufferViews` gives each view one cursor. The order in which
  `CursorCollection::change_all` visits a view's cursors is in
  `cursor.rs`, outside this source set. That order decides whether the
  later cursors of the acting view insert at stale positions, which is
  listed as a hazard. `commit_edits` only closes an undo group of the
  buffer's history, and that history is outside the spec's scope.
* **Key spec parsing** (`BufferedKeys::parse`, `KeysIterator::next`,
  `editor.rs` 40-85). Only command code outside `src/` calls them: the
  key parser and the builtin that runs keys. So which client's keys they
  append, and when, cannot be taken from the code. They are left out
  rather than guessed.
* **JSON parsing of LSP bodies.** `Json::read` is abstracted away. The
  classification `parse_server_event` makes is modelled in `LspClient`.
* **`Protocol::notify` and `Protocol::respond`.** They only write a frame
  to the server. A partial write (`ServerConnection::write` uses `write`,
  not `write_all`) is listed as a hazard.
* **The rest of the server loop.** `send_operations`, the editor
  operations it serialises, resize, drawing, and the spawn-output wait
  (a `todo!()` for the local client). They carry data no property tells
  apart; `Session` keeps only their `?` exits.
* **`add_to_history` and `parse_flag` of `lib/command.rs`.** The first is
  the `VecDeque` ring `CommandHistory` checks, without the blank and
  repeat tests of `src/command.rs`; the second is a `FromStr` conversion
  of a flag's text.
