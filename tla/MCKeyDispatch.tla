---------------------------- MODULE MCKeyDispatch ----------------------------
(***************************************************************************)
(* Model-checking instance of KeyDispatch: two clients, a normal mode with *)
(* a plain command key, an operator key that waits for a motion, the macro *)
(* record key and a quit key, and key maps chosen so that Prefix and       *)
(* ReplaceWith both happen.                                                *)
(***************************************************************************)
EXTENDS KeyDispatch, TLC

CONSTANTS c1, c2

MCClients == {c1, c2}
MCKeys == {"x", "d", "r", "ctrl-q", "g"}
MCKeyText == [k \in MCKeys |-> IF k = "ctrl-q" THEN "<c-q>" ELSE k]

\* "g x" is a two-key map: "g" alone is a Prefix, "g x" is replaced by an
\* operator and its motion, and "g" followed by anything else falls through
\* to the mode, where "g" is an ordinary command key.
MCKeyMap == {[from |-> <<"g", "x">>, to |-> <<"d", "x">>]}

MCSymmetry == Permutations(MCClients)
=============================================================================
