----------------------------- MODULE MCCommandEval -----------------------------
(***************************************************************************)
(* CommandEval with four builtins, one of each behaviour, two macro names  *)
(* (one of them shadowing the builtin `print`), two request names (one of *)
(* them shadowed by the macro `m`), a client with a UI and one without.    *)
(***************************************************************************)
EXTENDS CommandEval

Cmd(n, b, x) == [name |-> n, bang |-> b, extra |-> x]

P == Cmd("p", FALSE, FALSE)
E == Cmd("emit", FALSE, FALSE)
Q == Cmd("q", FALSE, FALSE)
F == Cmd("fail", FALSE, FALSE)
M == Cmd("m", FALSE, FALSE)
R == Cmd("r", FALSE, FALSE)

MCBuiltins ==
    << [name |-> "print", alias |-> "p", kind |-> "Print"],
       [name |-> "emit",  alias |-> "e", kind |-> "Emit"],
       [name |-> "quit",  alias |-> "q", kind |-> "Quit"],
       [name |-> "fail",  alias |-> "f", kind |-> "Fail"] >>

\* Bodies: output then an event, an event then a failure, a call of `m`
\* (recursive when registered as `m`), a request then quit.
MCMacroBodies == { <<P, E>>, <<E, F>>, <<M>>, <<R, Q>> }

MCScripts ==
    { <<M, P>>, <<Cmd("print", FALSE, FALSE)>>, <<R, P>>, <<Cmd("m", TRUE, FALSE)>>,
      <<Cmd("m", FALSE, TRUE), P>>, <<Cmd("", TRUE, FALSE)>>, <<P, E, Cmd("x", FALSE, FALSE)>> }

=============================================================================
