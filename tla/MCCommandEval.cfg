\* Evaluation of scripts that use every command source, from each kind of sender.
CONSTANTS
    Builtins <- MCBuiltins
    Clients = {c1, c2}
    UiClients = {c1}
    NoClient = NoClient
    Scripts <- MCScripts
    MacroNames = {"m", "print"}
    MacroBodies <- MCMacroBodies
    RequestNames = {"r", "m"}
    MaxDepth = 2
    MaxEvals = 1
SPECIFICATION Spec
INVARIANT TypeOK
PROPERTY RunsTheExpansion OutputReachesSender EventsPendingAfterScript
\* The server stops when a recursive macro overflows the stack.
CHECK_DEADLOCK FALSE
