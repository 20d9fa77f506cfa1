------------------------------ MODULE CommandEval ------------------------------
(***************************************************************************)
(* Command resolution and evaluation of CommandManager (src/command.rs):   *)
(* find_command, register_macro, register_request, parse, eval and         *)
(* eval_commands_then_output.                                              *)
(*                                                                         *)
(* A script is a sequence of commands, each the name token (with the `!`   *)
(* stripped into `bang`) and whether arguments follow it; how the text is  *)
(* split into commands and tokens is CommandSyntax.  The builtin table is  *)
(* the constant Builtins (CommandManager::new leaves it empty, pending     *)
(* builtin::COMMANDS); a builtin's function is one of four behaviours      *)
(* modelled from spec 4.2: write its command name to the output, enqueue an editor *)
(* event, return Some(Quit), or fail.  trigger_event_handlers drains the   *)
(* event queue.  Rust aborts the server when the stack overflows: nested   *)
(* eval calls deeper than MaxDepth crash it.                               *)
(***************************************************************************)
EXTENDS Integers, Sequences, SequencesExt

CONSTANTS
    Builtins,      \* builtin_commands: Seq of [name, alias, kind]
    Clients,       \* client handles of connected clients
    UiClients,     \* the connected clients that have a UI (Client::has_ui)
    NoClient,      \* client_handle = None, for scripts that no client sent
    Scripts,       \* scripts that may be evaluated: Seq of [name, bang, extra]
    MacroNames,    \* names a `macro` command may register
    MacroBodies,   \* the command lists it may register them with
    RequestNames,  \* names a client may register as requests
    MaxDepth,      \* nesting of eval at which the stack overflows
    MaxEvals       \* bound on eval_commands_then_output calls

VARIABLES
    macros,     \* macro_commands: Seq of [name, body]
    requests,   \* request_commands: Seq of [name, client]
    events,     \* editor events enqueued and not yet handled
    status,     \* the status bar: [kind, text]
    sent,       \* WriteToClient requests of the last evaluation: [to, frame, text]
    crashed,    \* the server aborted on a stack overflow
    run,        \* ghost: what the last evaluation ran, [name, kind, to] per command
    last,       \* ghost: [client, script, res] of the last evaluation
    evalCount   \* number of eval_commands_then_output calls

vars == <<macros, requests, events, status, sent, crashed, run, last, evalCount>>

Ret(st, res) == [st |-> st, res |-> res]

\* What the ghost trace keeps of a command the evaluator handled.
Log(st, c, kind, to) ==
    [st EXCEPT !.trace = Append(@, [name |-> c.name, kind |-> kind, to |-> to])]

\* CommandSource: the table a command name resolved to and its index there.
Source(src, i) == [src |-> src, i |-> i]

\* Mutant: requests are looked up before macros.
FindCommandRequestFirst(n) ==
    LET mi == SelectInSeq(macros, LAMBDA m : m.name = n)
        ri == SelectInSeq(requests, LAMBDA r : r.name = n)
        bi == SelectInSeq(Builtins, LAMBDA b : b.alias = n \/ b.name = n)
    IN CASE ri # 0 -> Source("Request", ri)
         [] mi # 0 -> Source("Macro", mi)
         [] bi # 0 -> Source("Builtin", bi)
         [] OTHER  -> Source("None", 0)

\* CommandManager::find_command: macros, then requests, then builtins.
FindCommand(n) ==
    LET mi == SelectInSeq(macros, LAMBDA m : m.name = n)
        ri == SelectInSeq(requests, LAMBDA r : r.name = n)
        bi == SelectInSeq(Builtins, LAMBDA b : b.alias = n \/ b.name = n)
    IN CASE mi # 0 -> Source("Macro", mi)
         [] ri # 0 -> Source("Request", ri)
         [] bi # 0 -> Source("Builtin", bi)
         [] OTHER  -> Source("None", 0)

(***************************************************************************)
(* CommandManager::parse: the first token must be Text; a trailing `!` is  *)
(* the bang; an empty name is InvalidCommandName and an unknown one        *)
(* CommandNotFound.                                                        *)
(***************************************************************************)
Parse(c) == IF c.name = "" THEN Source("None", 0) ELSE FindCommand(c.name)

\* (editor.commands.builtin_commands[i].func)(&mut ctx)
RunBuiltin(st, c, b) ==
    CASE b.kind = "Print" -> Ret([Log(st, c, "Print", NoClient) EXCEPT !.output = Append(@, c.name)], "None")
      [] b.kind = "Emit"  -> Ret([Log(st, c, "Emit", NoClient) EXCEPT !.events = @ + 1], "None")
      [] b.kind = "Quit"  -> Ret(Log(st, c, "Quit", NoClient), "Quit")
      [] b.kind = "Fail"  -> Ret(Log(st, c, "Fail", NoClient), "Err")

RECURSIVE Eval(_, _, _), EvalBody(_, _, _, _)

(***************************************************************************)
(* CommandManager::eval of one command at nesting depth d: parse resolves  *)
(* the name (an empty name or an unknown one is an error); a macro refuses *)
(* a bang, flags and arguments, then evaluates its body, stopping at the   *)
(* first operation or error; a request refuses a bang and forwards the     *)
(* command to the client that registered it.                               *)
(***************************************************************************)
Eval(st, c, d) ==
    LET s == Parse(c)
    IN CASE d > MaxDepth -> Ret([Log(st, c, "Overflow", NoClient) EXCEPT !.crashed = TRUE], "Overflow")
         [] s.src = "None" -> Ret(Log(st, c, "Error", NoClient), "Err")
         [] s.src = "Builtin" -> RunBuiltin(st, c, Builtins[s.i])
         [] s.src = "Macro" /\ (c.bang \/ c.extra) -> Ret(Log(st, c, "Error", NoClient), "Err")
         [] s.src = "Macro" -> EvalBody(st, macros[s.i].body, 1, d + 1)
         [] s.src = "Request" /\ c.bang -> Ret(Log(st, c, "Error", NoClient), "Err")
         [] s.src = "Request" ->
               LET to == requests[s.i].client
               IN Ret([Log(st, c, "Request", to) EXCEPT
                         !.sent = Append(@, [to |-> to, frame |-> "Request", text |-> <<c.name>>])],
                      "None")

\* Mutant: a macro body keeps running after a command returned an operation.
EvalBodyPastQuit(st, cmds, k, d) ==
    IF k > Len(cmds) THEN Ret(st, "None")
    ELSE LET r == Eval(st, cmds[k], d)
         IN IF r.res \in {"None", "Quit"} THEN EvalBody(r.st, cmds, k + 1, d) ELSE r

\* Mutant: the events of each command of a macro body are handled as it returns.
EvalBodyDrained(st, cmds, k, d) ==
    IF k > Len(cmds) THEN Ret(st, "None")
    ELSE LET r == Eval(st, cmds[k], d)
         IN IF r.res = "None" THEN EvalBody([r.st EXCEPT !.events = 0], cmds, k + 1, d) ELSE r

\* The loop over CommandIter(&commands) in the Macro arm of eval.
EvalBody(st, cmds, k, d) ==
    IF k > Len(cmds) THEN Ret(st, "None")
    ELSE LET r == Eval(st, cmds[k], d)
         IN IF r.res = "None" THEN EvalBody(r.st, cmds, k + 1, d) ELSE r

RECURSIVE Script(_, _, _)

\* Mutant: the editor events are handled before each command instead of after it.
ScriptTriggerFirst(st, cmds, k) ==
    IF k > Len(cmds) THEN Ret(st, "None")
    ELSE LET r == Eval([st EXCEPT !.events = 0], cmds[k], 0)
         IN CASE r.res = "None" -> Script(r.st, cmds, k + 1)
              [] r.res = "Err" ->
                   Ret([r.st EXCEPT !.output = <<>>,
                                    !.status = [kind |-> "Error", text |-> <<cmds[k].name>>]], "Err")
              [] OTHER -> r

\* Mutant: an error is reported without discarding the output written before it.
ScriptKeepOutput(st, cmds, k) ==
    IF k > Len(cmds) THEN Ret(st, "None")
    ELSE LET r == Eval(st, cmds[k], 0)
         IN CASE r.res = "None" -> Script([r.st EXCEPT !.events = 0], cmds, k + 1)
              [] r.res = "Err" ->
                   Ret([r.st EXCEPT !.status = [kind |-> "Error", text |-> <<cmds[k].name>>]], "Err")
              [] OTHER -> r

(***************************************************************************)
(* The loop of eval_commands_then_output: after a command that returns     *)
(* Ok(None) the editor's event handlers run; an operation stops the        *)
(* script; an error clears the output, is written to the status bar and    *)
(* stops the script.                                                       *)
(***************************************************************************)
Script(st, cmds, k) ==
    IF k > Len(cmds) THEN Ret(st, "None")
    ELSE LET r == Eval(st, cmds[k], 0)
         IN CASE r.res = "None" -> Script([r.st EXCEPT !.events = 0], cmds, k + 1)
              [] r.res = "Err" ->
                   Ret([r.st EXCEPT !.output = <<>>,
                                    !.status = [kind |-> "Error", text |-> <<cmds[k].name>>]], "Err")
              [] OTHER -> r

(***************************************************************************)
(* CommandManager::eval_commands_then_output: the script's output goes in  *)
(* a CommandOutput frame to the sender when it is a connected client       *)
(* without a UI, and otherwise, when not empty, to the status bar.         *)
(***************************************************************************)
EvalCommandsThenOutput(client, script) ==
    /\ ~crashed
    /\ evalCount < MaxEvals
    /\ LET r == Script([events |-> events, output |-> <<>>, status |-> status,
                        sent |-> <<>>, trace |-> <<>>, crashed |-> FALSE], script, 1)
           st == r.st
           headless == client \in Clients \ UiClients
       IN /\ events' = st.events
          /\ crashed' = st.crashed
          /\ run' = st.trace
          /\ sent' = IF ~st.crashed /\ headless
                       THEN Append(st.sent, [to |-> client, frame |-> "CommandOutput", text |-> st.output])
                       ELSE st.sent
          /\ status' = IF st.crashed \/ headless \/ st.output = <<>> THEN st.status
                       ELSE [kind |-> "Info", text |-> st.output]
          /\ last' = [client |-> client, script |-> script, res |-> r.res]
    /\ evalCount' = evalCount + 1
    /\ UNCHANGED <<macros, requests>>

\* Mutant: a registration is always pushed, even over an existing name.
RegisterPush(table, entry) == Append(table, entry)

\* MacroCommand: a registered macro, by name, with its body of commands.
MacroCommand(n, body) == [name |-> n, body |-> body]

\* RequestCommand: a registered request, by name, with the client to ask.
RequestCommand(n, client) == [name |-> n, client |-> client]

\* The entry named n in a table of named records, replaced in place or pushed.
Register(table, entry) ==
    LET i == SelectInSeq(table, LAMBDA e : e.name = entry.name)
    IN IF i # 0 THEN [table EXCEPT ![i] = entry] ELSE Append(table, entry)

\* CommandManager::register_macro, as the `macro` command calls it.
RegisterMacro(n, body) ==
    /\ ~crashed
    /\ macros' = Register(macros, MacroCommand(n, body))
    /\ UNCHANGED <<requests, events, status, sent, crashed, run, last, evalCount>>

\* CommandManager::register_request, for a client that registers a request.
RegisterRequest(n, client) ==
    /\ ~crashed
    /\ requests' = Register(requests, RequestCommand(n, client))
    /\ UNCHANGED <<macros, events, status, sent, crashed, run, last, evalCount>>

Init ==
    /\ macros = <<>>
    /\ requests = <<>>
    /\ events = 0
    /\ status = [kind |-> "None", text |-> <<>>]
    /\ sent = <<>>
    /\ crashed = FALSE
    /\ run = <<>>
    /\ last = [client |-> NoClient, script |-> <<>>, res |-> "None"]
    /\ evalCount = 0

Next ==
    \/ \E client \in Clients \cup {NoClient}, script \in Scripts :
          EvalCommandsThenOutput(client, script)
    \/ \E n \in MacroNames, body \in MacroBodies : RegisterMacro(n, body)
    \/ \E n \in RequestNames, client \in Clients : RegisterRequest(n, client)

Spec == Init /\ [][Next]_vars

-----------------------------------------------------------------------------

\* The step is a call of eval_commands_then_output.
Evaluated == evalCount' # evalCount

IsMacro(n) == \E m \in ToSet(macros) : m.name = n
MacroBody(n) == (CHOOSE m \in ToSet(macros) : m.name = n).body
IsRequest(n) == \E r \in ToSet(requests) : r.name = n
RequestClient(n) == (CHOOSE r \in ToSet(requests) : r.name = n).client
BuiltinKind(n) == (CHOOSE b \in ToSet(Builtins) : n \in {b.name, b.alias}).kind

RECURSIVE Flat(_, _), Atoms(_, _)

(***************************************************************************)
(* Reference for spec 4.2: a script read as the flat list of what it runs, *)
(* macros replaced by their bodies as often as they nest, a name that      *)
(* resolves to nothing (or to a macro or request that refuses what was     *)
(* written) an error, and anything nested deeper than the stack allows an *)
(* overflow.                                                               *)
(***************************************************************************)
Flat(cmds, d) == IF cmds = <<>> THEN <<>> ELSE Atoms(Head(cmds), d) \o Flat(Tail(cmds), d)

Atoms(c, d) ==
    LET A(kind, to) == <<[name |-> c.name, kind |-> kind, to |-> to]>>
    IN IF d > MaxDepth THEN A("Overflow", NoClient)
       ELSE IF IsMacro(c.name)
         THEN IF c.bang \/ c.extra THEN A("Error", NoClient) ELSE Flat(MacroBody(c.name), d + 1)
       ELSE IF IsRequest(c.name)
         THEN IF c.bang THEN A("Error", NoClient) ELSE A("Request", RequestClient(c.name))
       ELSE IF \E b \in ToSet(Builtins) : c.name \in {b.name, b.alias}
         THEN A(BuiltinKind(c.name), NoClient)
       ELSE A("Error", NoClient)

\* What runs of the flat list: everything up to the first command that stops it.
Stops(a) == a.kind \in {"Quit", "Fail", "Error", "Overflow"}
Cut(atoms) ==
    LET i == SelectInSeq(atoms, Stops)
    IN IF i = 0 THEN atoms ELSE SubSeq(atoms, 1, i)

Failed(atoms) == atoms # <<>> /\ atoms[Len(atoms)].kind \in {"Fail", "Error"}
Printed(atoms) == [i \in 1..Len(SelectSeq(atoms, LAMBDA a : a.kind = "Print")) |->
                      SelectSeq(atoms, LAMBDA a : a.kind = "Print")[i].name]

\* The commands the evaluation now being taken runs, by the reference.
Expected == Cut(Flat(last'.script, 0))

\* Names stay unique in both tables: register_macro and register_request
\* replace the entry of the same name instead of pushing a second one.
TypeOK ==
    /\ macros \in Seq([name : MacroNames, body : MacroBodies])
    /\ requests \in Seq([name : RequestNames, client : Clients])
    /\ events \in Nat
    /\ \A i, j \in DOMAIN macros : macros[i].name = macros[j].name => i = j
    /\ \A i, j \in DOMAIN requests : requests[i].name = requests[j].name => i = j
    /\ evalCount \in 0..MaxEvals

(***************************************************************************)
(* eval and eval_commands_then_output run exactly what the reference says *)
(* a script runs: resolution in the order macro, request, builtin; macro   *)
(* bodies expanded in place however deeply they nest; a request forwarded *)
(* to the client that registered that name; and nothing after the first    *)
(* Quit, failure or parse error, at whatever depth of macro it happens.    *)
(***************************************************************************)
RunsTheExpansion == [][Evaluated => run' = Expected]_vars

(***************************************************************************)
(* What the sender of a script sees (spec 4.2, 5): a connected client      *)
(* without a UI receives exactly one CommandOutput frame, holding what the *)
(* commands run wrote, in order, or nothing when the script failed; any    *)
(* other sender gets no frame and that output, when there is some, on the *)
(* status bar.                                                             *)
(***************************************************************************)
OutputReachesSender ==
    [][Evaluated /\ ~crashed' =>
         LET out == IF Failed(Expected) THEN <<>> ELSE Printed(Expected)
             frames == SelectSeq(sent', LAMBDA f : f.frame = "CommandOutput")
         IN IF last'.client \in Clients \ UiClients
              THEN frames = <<[to |-> last'.client, frame |-> "CommandOutput", text |-> out]>>
              ELSE /\ frames = <<>>
                   /\ out # <<>> => status' = [kind |-> "Info", text |-> out]]_vars

\* The number of events the atoms a1..an enqueue.
Emits(atoms) == Len(SelectSeq(atoms, LAMBDA a : a.kind = "Emit"))

(***************************************************************************)
(* The events still pending after a script (spec 5, 4.3): the handlers run *)
(* after each top-level command that returns Ok(None), and nowhere else.   *)
(* So a script that runs to its end leaves nothing; one that stops on a    *)
(* Quit or an error leaves the events of the stopping command, including   *)
(* those its macro body enqueued before the stop, since the commands of a  *)
(* macro body are not drained one by one; and when it stops at its first   *)
(* command, the events pending before it as well.  The reference is the    *)
(* expansion of each top-level command on its own.                         *)
(***************************************************************************)
EventsPendingAfterScript ==
    [][Evaluated /\ ~crashed' =>
         LET cmds == last'.script
             A(k) == Cut(Atoms(cmds[k], 0))
             stops == {k \in 1..Len(cmds) : SelectInSeq(Atoms(cmds[k], 0), Stops) # 0}
             k0 == CHOOSE k \in stops : \A j \in stops : k <= j
         IN IF stops = {}
              THEN events' = IF cmds = <<>> THEN events ELSE 0
              ELSE events' = (IF k0 = 1 THEN events ELSE 0) + Emits(A(k0))]_vars

=============================================================================
