---------------------------- MODULE CommandSyntax ----------------------------
(***************************************************************************)
(* The command language front end of src/command.rs as pure operators:    *)
(* CommandIter (a script to its commands), find_balanced, CommandTokenIter *)
(* (a command to its tokens), CommandManager::parse and the argument       *)
(* cursor of CommandArgs (get_flags and try_next).                         *)
(*                                                                         *)
(* Text is a sequence of one-character strings over a small alphabet;      *)
(* positions are 0-based byte offsets, as in the code: a position p stands *)
(* for the suffix text[p..] that the iterators keep in `self.0` / `rest`.  *)
(*                                                                         *)
(* The checked system enumerates scripts: `text` starts empty and grows    *)
(* one character per step, and the properties are stated over every        *)
(* command of every script up to the bound.                                *)
(***************************************************************************)
EXTENDS Integers, Sequences

CONSTANTS
    Chars,      \* the alphabet scripts are written in
    FlagNames,  \* names of the flags a builtin accepts (sequences of characters)
    MaxLen      \* bound on the length of a script

Whitespace == {" ", "\n"}                     \* is_ascii_whitespace
Boundary == Whitespace \cup {"\"", "'", "{", "="}  \* trim_until_boundary
Quotes == {"\"", "'"}

VARIABLE text

\* text[a..b) of the code.
Slice(s, a, b) == SubSeq(s, a + 1, b)

(***************************************************************************)
(* find_balanced(&s[i..], '{', '}'): the offset, relative to i, of the     *)
(* brace that closes an already open group, or -1 for None.               *)
(***************************************************************************)
RECURSIVE Balance(_, _, _, _)
Balance(s, i, j, balance) ==
    IF j = Len(s) THEN -1
    ELSE IF s[j + 1] = "{" THEN Balance(s, i, j + 1, balance + 1)
    ELSE IF s[j + 1] = "}" /\ balance = 1 THEN j - i
    ELSE IF s[j + 1] = "}" THEN Balance(s, i, j + 1, balance - 1)
    ELSE Balance(s, i, j + 1, balance)

\* A find_balanced that does not count nesting: the first `}` closes.
FindBalancedFlat(s, i) ==
    IF \E j \in (i + 1)..Len(s) : s[j] = "}"
        THEN (CHOOSE j \in (i + 1)..Len(s) : s[j] = "}" /\ \A m \in (i + 1)..(j - 1) : s[m] # "}") - i - 1
        ELSE -1

FindBalanced(s, i) == Balance(s, i, i, 1)

\* The first position at or after p whose character is not in set, or Len(s).
RECURSIVE SkipWhile(_, _, _)
SkipWhile(s, p, set) == IF p < Len(s) /\ s[p + 1] \in set THEN SkipWhile(s, p + 1, set) ELSE p

\* The first position at or after p whose character is in set, or Len(s).
RECURSIVE SkipUntil(_, _, _)
SkipUntil(s, p, set) == IF p < Len(s) /\ s[p + 1] \notin set THEN SkipUntil(s, p + 1, set) ELSE p

(***************************************************************************)
(* The `#` arm of CommandIter::next: the command is what precedes the `#`, *)
(* and self.0 moves to the newline that ends the comment (or to the end).  *)
(***************************************************************************)
AtCommentToEnd(s, p, q) == [from |-> p, to |-> q, rest |-> Len(s)]

AtCommentKeepText(s, p, q) == [from |-> p, to |-> SkipUntil(s, q, {"\n"}), rest |-> SkipUntil(s, q, {"\n"})]

AtComment(s, p, q) == [from |-> p, to |-> q, rest |-> SkipUntil(s, q, {"\n"})]

(***************************************************************************)
(* The inner loop of CommandIter::next over self.0 = s[p..], at q = p + i. *)
(* It yields [from, to, rest]: the command s[from..to) and the new self.0; *)
(* an empty command (from = to) sends the outer loop round again.          *)
(***************************************************************************)
RECURSIVE ScanCommand(_, _, _)
ScanCommand(s, p, q) ==
    IF q = Len(s) THEN [from |-> p, to |-> q, rest |-> q]
    ELSE CASE s[q + 1] = "\n" -> [from |-> p, to |-> q, rest |-> q]
           [] s[q + 1] = ";"  -> [from |-> p, to |-> q, rest |-> q + 1]
           [] s[q + 1] = "{"  ->
                LET len == FindBalanced(s, q + 1) IN
                IF len = -1 THEN [from |-> p, to |-> Len(s), rest |-> Len(s)]
                            ELSE ScanCommand(s, p, q + len + 2)
           [] s[q + 1] = "#"  -> AtComment(s, p, q)
           [] OTHER           -> ScanCommand(s, p, q + 1)

\* Mutant: an empty command (a leading `;` or `#`) is yielded, not skipped.
NextCommandKeepEmpty(s, p) ==
    LET t == SkipWhile(s, p, Whitespace) IN
    IF t = Len(s) THEN [from |-> -1, to |-> -1, rest |-> t]
    ELSE ScanCommand(s, t, t)

\* CommandIter::next from self.0 = s[p..]: a command, or from = -1 for None.
RECURSIVE NextCommand(_, _)
NextCommand(s, p) ==
    LET t == SkipWhile(s, p, Whitespace) IN
    IF t = Len(s) THEN [from |-> -1, to |-> -1, rest |-> t]
    ELSE LET r == ScanCommand(s, t, t) IN
         IF r.from = r.to THEN NextCommand(s, r.rest) ELSE r

\* Every command CommandIter(s) yields, as <<from, to>> pairs.
RECURSIVE CommandsFrom(_, _)
CommandsFrom(s, p) ==
    LET r == NextCommand(s, p) IN
    IF r.from = -1 THEN <<>> ELSE <<<<r.from, r.to>>>> \o CommandsFrom(s, r.rest)

Commands(s) == CommandsFrom(s, 0)

(***************************************************************************)
(* CommandTokenIter::next over rest = c[p..] of a command c.  A token is   *)
(* [kind, from, to, at, rest]: its kind and range as the code emits them,  *)
(* where it starts (ghost: the delimiter of a quoted or braced token) and  *)
(* the new rest.  kind "None" ends the iteration.                          *)
(***************************************************************************)
Tok(kind, from, to, at, rest) == [kind |-> kind, from |-> from, to |-> to, at |-> at, rest |-> rest]

QuotedToken(c, t) ==
    LET r == t + 1
        close == SkipUntil(c, r, {c[t + 1]})
    IN IF close < Len(c) THEN Tok("Text", r, close, t, close + 1)
                         ELSE Tok("Unterminated", r, Len(c), t, Len(c))

BracedToken(c, t) ==
    LET r == t + 1
        i == FindBalanced(c, r)
    IN IF i # -1 THEN Tok("Text", r, i, t, r + i + 1)
                 ELSE Tok("Unterminated", r, Len(c), t, Len(c))

NextToken(c, p) ==
    LET t == SkipWhile(c, p, Whitespace) IN
    IF t = Len(c) THEN Tok("None", t, t, t, t)
    ELSE CASE c[t + 1] \in Quotes -> QuotedToken(c, t)
           [] c[t + 1] = "{"      -> BracedToken(c, t)
           [] c[t + 1] = "-"      -> Tok("Flag", t, SkipUntil(c, t, Boundary), t, SkipUntil(c, t, Boundary))
           [] c[t + 1] = "="      -> Tok("Equals", t, t + 1, t, t + 1)
           [] OTHER               -> Tok("Text", t, SkipUntil(c, t, Boundary), t, SkipUntil(c, t, Boundary))

\* Every token of the command c from position p on.
RECURSIVE TokensFrom(_, _)
TokensFrom(c, p) ==
    LET k == NextToken(c, p) IN
    IF k.kind = "None" THEN <<>> ELSE <<k>> \o TokensFrom(c, k.rest)

Tokens(c) == TokensFrom(c, 0)

(***************************************************************************)
(* CommandManager::parse: the first token must be a Text naming a command; *)
(* the arguments are the tokens after it.  Every name is taken to resolve  *)
(* to one builtin that accepts FlagNames (resolution is modelled in        *)
(* CommandEval); "Err" stands for InvalidCommandName.                      *)
(***************************************************************************)
Parse(c) ==
    LET t == Tokens(c) IN
    IF t # <<>> /\ t[1].kind = "Text" /\ t[1].from < t[1].to
        THEN [ok |-> TRUE, args |-> Tail(t)]
        ELSE [ok |-> FALSE, args |-> <<>>]

\* token.as_str(raw)[1..]: the name of a flag token.
FlagKey(c, k) == Slice(c, k.from + 1, k.to)

Err == [err |-> TRUE, val |-> [n \in FlagNames |-> 0]]

(***************************************************************************)
(* CommandArgs::get_flags over a fresh iterator on the arguments T, from   *)
(* token index k: each known flag gets the index of the token its value is *)
(* read from (0 for None).  Text tokens are passed over.                   *)
(***************************************************************************)
RECURSIVE GetFlagsFrom(_, _, _, _)
GetFlagsFrom(c, T, k, v) ==
    IF k = Len(T) THEN [err |-> FALSE, val |-> v]
    ELSE CASE T[k + 1].kind = "Text" -> GetFlagsFrom(c, T, k + 1, v)
           [] T[k + 1].kind = "Flag" /\ FlagKey(c, T[k + 1]) \notin FlagNames -> Err
           [] T[k + 1].kind = "Flag" ->
                LET key == FlagKey(c, T[k + 1]) IN
                IF k + 1 = Len(T) THEN [err |-> FALSE, val |-> [v EXCEPT ![key] = k + 1]]
                ELSE CASE T[k + 2].kind = "Text" -> GetFlagsFrom(c, T, k + 2, [v EXCEPT ![key] = k + 2])
                       [] T[k + 2].kind = "Flag" -> GetFlagsFrom(c, T, k + 1, [v EXCEPT ![key] = k + 2])
                       [] T[k + 2].kind = "Equals" /\ k + 2 < Len(T) /\ T[k + 3].kind = "Text" ->
                            GetFlagsFrom(c, T, k + 3, [v EXCEPT ![key] = k + 3])
                       [] OTHER -> Err
           [] OTHER -> Err

GetFlags(c, T) == GetFlagsFrom(c, T, 0, [n \in FlagNames |-> 0])

(***************************************************************************)
(* The state after the value of `-flag=value` in try_next: the code calls  *)
(* self.tokens.next() once more and drops what it returns.                 *)
(***************************************************************************)
SkipValueNot(T, k) == k

SkipValue(T, k) == IF k < Len(T) THEN k + 1 ELSE k

(***************************************************************************)
(* CommandArgs::try_next from token index k: the index of the next         *)
(* positional, skipping flags and the values written with `=`.             *)
(***************************************************************************)
RECURSIVE TryNext(_, _)
TryNext(T, k) ==
    IF k = Len(T) THEN [res |-> "None", tok |-> 0, next |-> k]
    ELSE CASE T[k + 1].kind = "Text" -> [res |-> "Some", tok |-> k + 1, next |-> k + 1]
           [] T[k + 1].kind = "Flag" ->
                IF k + 1 = Len(T) THEN [res |-> "None", tok |-> 0, next |-> k + 1]
                ELSE CASE T[k + 2].kind = "Text" -> [res |-> "Some", tok |-> k + 2, next |-> k + 2]
                       [] T[k + 2].kind = "Flag" -> TryNext(T, k + 1)
                       [] T[k + 2].kind = "Equals" -> TryNext(T, SkipValue(T, k + 2))
                       [] OTHER -> [res |-> "Err", tok |-> 0, next |-> k + 2]
           [] OTHER -> [res |-> "Err", tok |-> 0, next |-> k + 1]

\* try_next called until it returns None or an error: the positionals read.
RECURSIVE PositionalsFrom(_, _)
PositionalsFrom(T, k) ==
    LET r == TryNext(T, k) IN
    CASE r.res = "None" -> [err |-> FALSE, toks |-> <<>>]
      [] r.res = "Err"  -> [err |-> TRUE, toks |-> <<>>]
      [] OTHER          -> LET rest == PositionalsFrom(T, r.next) IN
                           [err |-> rest.err, toks |-> <<r.tok>> \o rest.toks]

Positionals(T) == PositionalsFrom(T, 0)

\* Mutant: a flag followed by a text reads the text as the flag's value.
RECURSIVE AssertEmptyFlagValue(_, _)
AssertEmptyFlagValue(T, k) ==
    IF k = Len(T) THEN "Ok"
    ELSE CASE T[k + 1].kind = "Text" -> "TooManyArguments"
           [] T[k + 1].kind = "Flag" ->
                IF k + 1 = Len(T) THEN "Ok"
                ELSE CASE T[k + 2].kind \in {"Text", "Flag"} -> AssertEmptyFlagValue(T, k + 2)
                       [] T[k + 2].kind = "Equals" -> AssertEmptyFlagValue(T, SkipValue(T, k + 2))
                       [] OTHER -> "UnterminatedToken"
           [] T[k + 1].kind = "Equals" -> "InvalidToken"
           [] OTHER -> "UnterminatedToken"

(***************************************************************************)
(* CommandArgs::assert_empty from token index k: Ok when only flags (with  *)
(* their `=value`) are left.  After a flag it looks at one more token: a   *)
(* text is an argument too many, a second flag is consumed without looking *)
(* at what follows it, and `=` skips the value.                            *)
(***************************************************************************)
RECURSIVE AssertEmpty(_, _)
AssertEmpty(T, k) ==
    IF k = Len(T) THEN "Ok"
    ELSE CASE T[k + 1].kind = "Text" -> "TooManyArguments"
           [] T[k + 1].kind = "Flag" ->
                IF k + 1 = Len(T) THEN "Ok"
                ELSE CASE T[k + 2].kind = "Text" -> "TooManyArguments"
                       [] T[k + 2].kind = "Flag" -> AssertEmpty(T, k + 2)
                       [] T[k + 2].kind = "Equals" -> AssertEmpty(T, SkipValue(T, k + 2))
                       [] OTHER -> "UnterminatedToken"
           [] T[k + 1].kind = "Equals" -> "InvalidToken"
           [] OTHER -> "UnterminatedToken"

(***************************************************************************)
(* CommandToken::as_str slices command[from..to], which panics when from > *)
(* to: the case of a braced token, whose `to` is relative (line 555).      *)
(***************************************************************************)
Reversed(tok) == tok.from > tok.to

\* Mutant: a key and `=` at the end of the environment are accepted.
RECURSIVE EnvFromTrailingKey(_, _)
EnvFromTrailingKey(T, k) ==
    CASE k = Len(T)                       -> "Ok"
      [] T[k + 1].kind = "Unterminated"   -> "UnterminatedToken"
      [] T[k + 1].kind # "Text"           -> "InvalidToken"
      [] k + 1 = Len(T)                   -> "UnterminatedToken"
      [] T[k + 2].kind # "Equals"         -> "InvalidToken"
      [] k + 2 = Len(T)                   -> "Ok"
      [] T[k + 3].kind = "Text"           ->
            IF Reversed(T[k + 1]) \/ Reversed(T[k + 3]) THEN "Panic" ELSE EnvFromTrailingKey(T, k + 3)
      [] T[k + 3].kind = "Unterminated"   -> "UnterminatedToken"
      [] OTHER                            -> "InvalidToken"

(***************************************************************************)
(* The environment loop of parse_process_command from token k: a text key, *)
(* an `=` and a text value, again and again, until the tokens run out at a *)
(* key; any other token, or the end in the middle of a pair, is an error.  *)
(* Each whole pair is sliced out of the environment before the next.       *)
(***************************************************************************)
RECURSIVE EnvFrom(_, _)
EnvFrom(T, k) ==
    CASE k = Len(T)                       -> "Ok"
      [] T[k + 1].kind = "Unterminated"   -> "UnterminatedToken"
      [] T[k + 1].kind # "Text"           -> "InvalidToken"
      [] k + 1 = Len(T)                   -> "UnterminatedToken"
      [] T[k + 2].kind # "Equals"         -> "InvalidToken"
      [] k + 2 = Len(T)                   -> "UnterminatedToken"
      [] T[k + 3].kind = "Text"           ->
            IF Reversed(T[k + 1]) \/ Reversed(T[k + 3]) THEN "Panic" ELSE EnvFrom(T, k + 3)
      [] T[k + 3].kind = "Unterminated"   -> "UnterminatedToken"
      [] OTHER                            -> "InvalidToken"

(***************************************************************************)
(* parse_process_command: the first token of the command, of any kind but  *)
(* Unterminated, is the program and every later token an argument, an     *)
(* Unterminated one being an InvalidToken; then the environment is read.   *)
(* The program and each argument are sliced out in order as they are       *)
(* read, so a reversed one panics unless an earlier argument was           *)
(* Unterminated.                                                           *)
(***************************************************************************)
ParseProcessCommand(c, e) ==
    LET T == Tokens(c)
        odd == {j \in 2..Len(T) : T[j].kind = "Unterminated" \/ Reversed(T[j])}
        j0 == CHOOSE j \in odd : \A i \in odd : j <= i
    IN
    CASE T = <<>>                                          -> "InvalidToken"
      [] T[1].kind = "Unterminated"                        -> "UnterminatedToken"
      [] Reversed(T[1])                                    -> "Panic"
      [] odd # {} /\ T[j0].kind = "Unterminated"           -> "InvalidToken"
      [] odd # {}                                          -> "Panic"
      [] OTHER                                             -> EnvFrom(Tokens(e), 0)

Init == text = <<>>

\* The next script: the current one with one more character.
Type(ch) ==
    /\ Len(text) < MaxLen
    /\ text' = Append(text, ch)

Next == \E ch \in Chars : Type(ch)

Spec == Init /\ [][Next]_text

-----------------------------------------------------------------------------

(***************************************************************************)
(* The script is a bounded string, and CommandIter yields only non-empty   *)
(* ranges of it.                                                           *)
(***************************************************************************)
TypeOK ==
    /\ text \in Seq(Chars) /\ Len(text) <= MaxLen
    /\ Commands(text) \in Seq({r \in (0..Len(text)) \X (0..Len(text)) : r[1] < r[2]})

\* The commands of the current script, each as its own character sequence.
CommandTexts == LET cs == Commands(text) IN
                [i \in 1..Len(cs) |-> Slice(text, cs[i][1], cs[i][2])]

(***************************************************************************)
(* Brace depth as the script iterator sees it: `{` opens a group, `}`      *)
(* closes one, and a `}` outside every group is an ordinary character.     *)
(***************************************************************************)
RECURSIVE DepthBetween(_, _, _)
DepthBetween(s, a, b) ==
    IF b <= a THEN 0
    ELSE LET d == DepthBetween(s, a, b - 1) IN
         CASE s[b] = "{" -> d + 1
           [] s[b] = "}" -> IF d > 0 THEN d - 1 ELSE 0
           [] OTHER      -> d

\* The `}` at e closes the group opened by the `{` at q.
GroupClosesAt(q, e) ==
    /\ q < e /\ text[e + 1] = "}"
    /\ DepthBetween(text, q, e + 1) = 0
    /\ \A m \in (q + 1)..(e - 1) : DepthBetween(text, q, m + 1) > 0

InCommand(cs, q) == \E i \in 1..Len(cs) : cs[i][1] <= q /\ q < cs[i][2]

(***************************************************************************)
(* CommandIter yields, in script order, non-overlapping non-empty commands *)
(* that start with a non-whitespace character and contain no `;`, `#` or   *)
(* newline outside a brace group: the terminators of spec 4.1.             *)
(***************************************************************************)
CommandsSplitAtTerminators ==
    LET cs == Commands(text) IN
    \A i \in 1..Len(cs) :
        /\ cs[i][1] < cs[i][2]
        /\ text[cs[i][1] + 1] \notin Whitespace
        /\ i > 1 => cs[i - 1][2] <= cs[i][1]
        /\ \A q \in cs[i][1]..(cs[i][2] - 1) :
              text[q + 1] \in {";", "#", "\n"} => DepthBetween(text, cs[i][1], q) > 0

(***************************************************************************)
(* Round trip of brace groups (spec 8): a balanced group that starts in a  *)
(* command ends in the same command, so newlines and terminators inside it *)
(* never split the command.                                                *)
(***************************************************************************)
BraceGroupsStayWhole ==
    LET cs == Commands(text) IN
    \A q, e \in 0..(Len(text) - 1) :
        /\ text[q + 1] = "{"
        /\ InCommand(cs, q)
        /\ GroupClosesAt(q, e)
        => \E i \in 1..Len(cs) : cs[i][1] <= q /\ e < cs[i][2]

(***************************************************************************)
(* Nothing of a script is silently dropped: every character outside all   *)
(* commands is whitespace, a `;`, or part of a comment running from a `#`  *)
(* outside all commands to the end of its line.                            *)
(***************************************************************************)
NothingLost ==
    LET cs == Commands(text) IN
    \A q \in 0..(Len(text) - 1) :
        ~InCommand(cs, q) /\ text[q + 1] \notin Whitespace \cup {";"}
        => \E h \in 0..q : /\ text[h + 1] = "#"
                           /\ ~InCommand(cs, h)
                           /\ \A j \in h..q : text[j + 1] # "\n"

\* The logical text of a token: what its delimiters enclose, or the run itself.
LogicalText(c, k) ==
    CASE k.kind = "Unterminated"                        -> Slice(c, k.at + 1, Len(c))
      [] c[k.at + 1] \in Quotes \cup {"{"} -> Slice(c, k.at + 1, k.rest - 1)
      [] OTHER                                          -> Slice(c, k.at, k.rest)

(***************************************************************************)
(* Token offsets map back (spec 8): the range [from, to) every token of    *)
(* CommandTokenIter carries selects its logical text in the command, the   *)
(* text error display and argument values are read from.                  *)
(***************************************************************************)
TokenOffsetsMapBack ==
    \A i \in 1..Len(CommandTexts) :
        LET c == CommandTexts[i] IN
        LET T == Tokens(c) IN
        \A j \in 1..Len(T) :
            LET k == T[j] IN
            k.from <= k.to /\ Slice(c, k.from, k.to) = LogicalText(c, k)

\* The arguments of every command that parses, with its flags and positionals.
Parsed == {CommandTexts[i] : i \in 1..Len(CommandTexts)}

(***************************************************************************)
(* try_next reads, in order, every text argument except the values written *)
(* as `-flag=value`, and fails only on a malformed argument list: a        *)
(* positional is never lost to the skipping of flags.                      *)
(***************************************************************************)
NoPositionalLost ==
    \A c \in Parsed :
        LET pc == Parse(c)
            T == pc.args
            P == Positionals(T)
            IsEqualsValue(j) == j > 2 /\ T[j - 1].kind = "Equals" /\ T[j - 2].kind = "Flag"
        IN pc.ok /\ ~P.err =>
              P.toks = SelectSeq([j \in 1..Len(T) |-> j],
                                 LAMBDA j : T[j].kind = "Text" /\ ~IsEqualsValue(j))

(***************************************************************************)
(* A command that reads its positionals with try_next and then calls      *)
(* assert_empty is never handed an argument it did not read: wherever the  *)
(* reading stops, assert_empty returns Ok only if try_next would have     *)
(* found nothing more (no positional left and no malformed token).         *)
(***************************************************************************)
AssertEmptyOnlyWhenDone ==
    \A c \in Parsed :
        LET pc == Parse(c)
            T == pc.args
        IN pc.ok =>
              LET P == Positionals(T) IN
              \A k \in {0} \cup {P.toks[j] : j \in 1..Len(P.toks)} :
                 AssertEmpty(T, k) = "Ok" => TryNext(T, k).res = "None"

\* The reference grammar of an environment: `key=value` pairs of texts.
KeyValuePairs(T) ==
    /\ Len(T) % 3 = 0
    /\ \A j \in 1..Len(T) : T[j].kind = IF j % 3 = 2 THEN "Equals" ELSE "Text"

(***************************************************************************)
(* parse_process_command, given any command of the script and the whole   *)
(* script as its environment, succeeds exactly when the command has a      *)
(* program and no unterminated token and the environment is a sequence of  *)
(* whole `key=value` pairs: no half pair is dropped or silently accepted.  *)
(* Where a braced token makes as_str panic, as the environment `x={}`      *)
(* does, there is no result to judge; that panic is the hazard of line     *)
(* 555 and is not what this property is about.                             *)
(***************************************************************************)
ProcessCommandsParse ==
    LET pairs == KeyValuePairs(Tokens(text)) IN
    \A c \in Parsed :
        LET T == Tokens(c)
            r == ParseProcessCommand(c, text)
        IN
        r # "Panic" =>
            ((r = "Ok") <=> /\ T # <<>>
                           /\ \A j \in 1..Len(T) : T[j].kind # "Unterminated"
                           /\ pairs)

=============================================================================
