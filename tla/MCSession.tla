------------------------------ MODULE MCSession ------------------------------
(* Three editors launched in one directory, with a clean or a stale        *)
(* endpoint left by an earlier server.                                     *)
EXTENDS Session

CONSTANTS a, b, c

MCLaunchers == {a, b, c}

=============================================================================
