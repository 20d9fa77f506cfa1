--------------------------- MODULE MCCommandSyntax ---------------------------
(***************************************************************************)
(* Both command front ends over the scripts of two alphabets: every script *)
(* of up to MaxLen characters of the current language (braces, `;`), and  *)
(* every script of up to MCLegacyMaxLen characters of the legacy one       *)
(* (backslash escapes, `!`, double quotes).  The properties of the legacy *)
(* parser are checked on the scripts of its alphabet.                      *)
(***************************************************************************)
EXTENDS LegacyCommand

\* A builtin that accepts one flag, `-x`.
MCFlagNames == {<<"x">>}

\* Every terminator, brace, quote, flag and `=` character of the language.
MCChars == {"x", " ", "\n", ";", "#", "-", "=", "'", "{", "}"}

\* The legacy language: escapes, comments, both quotes, flags, `=` and `!`.
MCLegacyChars == {"c", " ", "\n", "#", "\\", "-", "=", "!", "'", "\""}

MCLegacyMaxLen == 5

\* The descriptor of the unit tests of lib/command.rs, with one flag `-c`:
\* named `c`, accepts the bang, no required values, any number of extras.
MCLegacyBuiltin ==
    [names |-> {<<"c">>}, acceptsBang |-> TRUE, required |-> 0, optional |-> 0,
     extra |-> TRUE, flags |-> <<<<"c">>>>]

\* Both alphabets, the constant Chars of the enumeration.
MCAllChars == MCChars \cup MCLegacyChars

\* The script is one of the current language's.
InCurrent == \A i \in 1..Len(text) : text[i] \in MCChars

\* The script is one of the legacy language's.
InLegacy == \A i \in 1..Len(text) : text[i] \in MCLegacyChars

\* A script grows within the alphabet it was typed in, up to that
\* language's length bound.
MCNext ==
    \/ InCurrent /\ \E ch \in MCChars : Type(ch)
    \/ InLegacy /\ Len(text) < MCLegacyMaxLen /\ \E ch \in MCLegacyChars : Type(ch)

MCSpec == Init /\ [][MCNext]_text

\* CommandIter of lib/command.rs splits every legacy script into lines at
\* unescaped newlines and comments (LegacyLinesSplit).
MCLegacyLinesSplit == InLegacy => LegacyLinesSplit

\* CommandIter loses only blanks and comments of a legacy script that does
\* not panic (LegacyNothingLost).
MCLegacyNothingLost == InLegacy => LegacyNothingLost

\* CommandManager::parse of lib/command.rs binds every line of a legacy
\* script as the reference grammar does (LegacyParseMatchesGrammar).
MCLegacyParseMatchesGrammar == InLegacy => LegacyParseMatchesGrammar

=============================================================================
