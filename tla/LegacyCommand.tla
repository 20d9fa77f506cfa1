----------------------------- MODULE LegacyCommand -----------------------------
(***************************************************************************)
(* The command front end of the library generation, src/lib/command.rs:   *)
(* its CommandIter (a script to its command lines, `\` escaping the next   *)
(* byte and `#` starting a comment) and CommandManager::parse (the         *)
(* TokenIterator of the quoted-string syntax, then the name, the bang,     *)
(* flags `-key[=value]` and positional values bound by add_value and       *)
(* add_flag).                                                              *)
(*                                                                         *)
(* It reads the scripts CommandSyntax enumerates, over the same `text`, so *)
(* both front ends are checked on every script up to the bound.  The      *)
(* builtin table (lib/command/builtin.rs) is not in the sources; the      *)
(* constant LegacyBuiltin is one descriptor, the one of the unit tests.    *)
(***************************************************************************)
EXTENDS CommandSyntax, SequencesExt

CONSTANTS
    LegacyBuiltin,      \* [names, acceptsBang, required, optional, extra, flags]
    MaxOtherValuesLen   \* MAX_OTHER_VALUES_LEN = 8, the length of other_values

\* Mutant: `\` is an ordinary byte, so an escaped newline ends the line.
RECURSIVE LegacyScanNoEscape(_, _, _)
LegacyScanNoEscape(s, t, j) ==
    LET Line(to, rest) == [kind |-> IF to = t THEN "Skip" ELSE "Command",
                           from |-> t, to |-> to, rest |-> rest]
    IN CASE j = Len(s)       -> Line(j, j)
         [] s[j + 1] = "\n"  -> Line(j, j)
         [] s[j + 1] = "#"   -> Line(j, SkipUntil(s, j, {"\n"}))
         [] OTHER            -> LegacyScanNoEscape(s, t, j + 1)

\* Mutant: a comment runs to the end of the script, not of its line.
RECURSIVE LegacyScanCommentToEnd(_, _, _)
LegacyScanCommentToEnd(s, t, j) ==
    LET Line(to, rest) == [kind |-> IF to = t THEN "Skip" ELSE "Command",
                           from |-> t, to |-> to, rest |-> rest]
    IN CASE j = Len(s)       -> Line(j, j)
         [] j > Len(s)       -> [kind |-> "Panic", from |-> t, to |-> j, rest |-> j]
         [] s[j + 1] = "\n"  -> Line(j, j)
         [] s[j + 1] = "\\"  -> LegacyScanCommentToEnd(s, t, j + 2)
         [] s[j + 1] = "#"   -> Line(j, Len(s))
         [] OTHER            -> LegacyScanCommentToEnd(s, t, j + 1)

(***************************************************************************)
(* The inner loop of CommandIter::next over self.0 = s[t..], at byte j.    *)
(* A newline or a `#` ends the command ("Skip" when it is empty), the      *)
(* comment running to the next newline; `\` makes the loop step over the   *)
(* byte after it, so a `\` that is the last byte steps past the end and    *)
(* `bytes[i]` panics.                                                      *)
(***************************************************************************)
RECURSIVE LegacyScan(_, _, _)
LegacyScan(s, t, j) ==
    LET Line(to, rest) == [kind |-> IF to = t THEN "Skip" ELSE "Command",
                           from |-> t, to |-> to, rest |-> rest]
    IN CASE j = Len(s)       -> Line(j, j)
         [] j > Len(s)       -> [kind |-> "Panic", from |-> t, to |-> j, rest |-> j]
         [] s[j + 1] = "\n"  -> Line(j, j)
         [] s[j + 1] = "\\"  -> LegacyScan(s, t, j + 2)
         [] s[j + 1] = "#"   -> Line(j, SkipUntil(s, j, {"\n"}))
         [] OTHER            -> LegacyScan(s, t, j + 1)

\* CommandIter::next from self.0 = s[p..]: trim_start, then scan; "None" at the end.
RECURSIVE LegacyNext(_, _)
LegacyNext(s, p) ==
    LET t == SkipWhile(s, p, Whitespace) IN
    IF t = Len(s) THEN [kind |-> "None", from |-> t, to |-> t, rest |-> t]
    ELSE LET r == LegacyScan(s, t, t) IN
         IF r.kind = "Skip" THEN LegacyNext(s, r.rest) ELSE r

\* The command lines CommandIter(s) yields, and whether a call of next panicked.
RECURSIVE LegacyLines(_, _)
LegacyLines(s, p) ==
    LET r == LegacyNext(s, p) IN
    CASE r.kind = "None"  -> [lines |-> <<>>, panic |-> FALSE]
      [] r.kind = "Panic" -> [lines |-> <<>>, panic |-> TRUE]
      [] OTHER -> LET n == LegacyLines(s, r.rest) IN
                  [n EXCEPT !.lines = <<<<r.from, r.to>>>> \o @]

\* fn is_separator: ASCII whitespace, `=`, `!` and both quotes.
Separator == Whitespace \cup {"=", "!"} \cup Quotes

(***************************************************************************)
(* next_token over rest = c[p..]: whitespace and `\` are trimmed; `-`      *)
(* starts a Flag running to the next separator, a quote a Text running to  *)
(* the same quote (Unterminated without one), `=` and `!` are tokens of    *)
(* their own, and anything else is a Text running to the next separator.   *)
(***************************************************************************)
LegacyToken(c, p) ==
    LET t == SkipWhile(c, p, Whitespace \cup {"\\"}) IN
    IF t = Len(c) THEN Tok("None", t, t, t, t)
    ELSE CASE c[t + 1] = "-" ->
                LET e == SkipUntil(c, t + 1, Separator) IN Tok("Flag", t + 1, e, t, e)
           [] c[t + 1] \in Quotes ->
                LET e == SkipUntil(c, t + 1, {c[t + 1]}) IN
                IF e < Len(c) THEN Tok("Text", t + 1, e, t, e + 1)
                              ELSE Tok("Unterminated", t + 1, Len(c), t, Len(c))
           [] c[t + 1] = "=" -> Tok("Equals", t, t + 1, t, t + 1)
           [] c[t + 1] = "!" -> Tok("Bang", t, t + 1, t, t + 1)
           [] OTHER ->
                LET e == SkipUntil(c, t, Separator) IN Tok("Text", t, e, t, e)

\* Every token TokenIterator { rest: c } yields.
RECURSIVE LegacyTokensFrom(_, _)
LegacyTokensFrom(c, p) ==
    LET k == LegacyToken(c, p) IN
    IF k.kind = "None" THEN <<>> ELSE <<k>> \o LegacyTokensFrom(c, k.rest)

LegacyTokens(c) == LegacyTokensFrom(c, 0)

\* A flag slot of CommandArgs: None, or Some(value).
NoFlag == [set |-> FALSE, v |-> <<>>]
FlagValue(v) == [set |-> TRUE, v |-> v]

\* The parse state threaded through the loop: Ok(args) or Err(error).
LegacyArgs(values, flags) == [ok |-> TRUE, err |-> "", values |-> values, flags |-> flags]
LegacyErr(e) == [ok |-> FALSE, err |-> e, values |-> <<>>, flags |-> <<>>]

(***************************************************************************)
(* add_value: the first `required` values fill required_values, the rest   *)
(* other_values up to max_values_len (all of other_values when the         *)
(* command takes extra values), beyond which it is TooManyValues.          *)
(***************************************************************************)
AddValue(a, v) ==
    LET B == LegacyBuiltin
        count == Len(a.values)
        max == IF B.extra THEN MaxOtherValuesLen ELSE B.required + B.optional
    IN IF count < B.required \/ count - B.required < max
          THEN [a EXCEPT !.values = Append(@, v)]
          ELSE LegacyErr("TooManyValues")

\* add_flag: the slot of the flag named key gets the value; UnknownFlag otherwise.
AddFlag(a, key, v) ==
    LET i == SelectInSeq(LegacyBuiltin.flags, LAMBDA f : f = key) IN
    IF i = 0 THEN LegacyErr("UnknownFlag") ELSE [a EXCEPT !.flags[i] = FlagValue(v)]

\* Mutant: the token looked at after a flag without `=` is dropped.
RECURSIVE LegacyBindDropPeeked(_, _, _, _)
LegacyBindDropPeeked(c, T, j, a) ==
    IF ~a.ok THEN a
    ELSE IF j > Len(T)
      THEN IF Len(a.values) < LegacyBuiltin.required THEN LegacyErr("TooFewValues") ELSE a
    ELSE LET k == T[j] IN
      CASE k.kind = "Text" -> LegacyBindDropPeeked(c, T, j + 1, AddValue(a, Slice(c, k.from, k.to)))
        [] k.kind = "Flag" /\ j < Len(T) /\ T[j + 1].kind = "Equals" ->
             IF j + 1 = Len(T) THEN LegacyErr("InvalidFlagValue")
             ELSE CASE T[j + 2].kind = "Text" ->
                         LegacyBindDropPeeked(c, T, j + 3, AddFlag(a, Slice(c, k.from, k.to),
                                                         Slice(c, T[j + 2].from, T[j + 2].to)))
                    [] T[j + 2].kind = "Unterminated" -> LegacyErr("UnterminatedArgument")
                    [] OTHER -> LegacyErr("InvalidFlagValue")
        [] k.kind = "Flag" -> LegacyBindDropPeeked(c, T, j + 2, AddFlag(a, Slice(c, k.from, k.to), <<>>))
        [] k.kind = "Unterminated" -> LegacyErr("UnterminatedArgument")
        [] OTHER -> LegacyErr("InvalidArgument")

(***************************************************************************)
(* The argument loop of parse from token j: a Text is a value; a Flag      *)
(* followed by `=` takes the Text after it as its value (an Unterminated   *)
(* one, another token or nothing is an error), else the flag is set to ""  *)
(* and the token after it is looked at again; `=`, `!` and Unterminated    *)
(* are errors.  At the end, fewer values than required is TooFewValues.   *)
(***************************************************************************)
RECURSIVE LegacyBind(_, _, _, _)
LegacyBind(c, T, j, a) ==
    IF ~a.ok THEN a
    ELSE IF j > Len(T)
      THEN IF Len(a.values) < LegacyBuiltin.required THEN LegacyErr("TooFewValues") ELSE a
    ELSE LET k == T[j] IN
      CASE k.kind = "Text" -> LegacyBind(c, T, j + 1, AddValue(a, Slice(c, k.from, k.to)))
        [] k.kind = "Flag" /\ j < Len(T) /\ T[j + 1].kind = "Equals" ->
             IF j + 1 = Len(T) THEN LegacyErr("InvalidFlagValue")
             ELSE CASE T[j + 2].kind = "Text" ->
                         LegacyBind(c, T, j + 3, AddFlag(a, Slice(c, k.from, k.to),
                                                         Slice(c, T[j + 2].from, T[j + 2].to)))
                    [] T[j + 2].kind = "Unterminated" -> LegacyErr("UnterminatedArgument")
                    [] OTHER -> LegacyErr("InvalidFlagValue")
        [] k.kind = "Flag" -> LegacyBind(c, T, j + 1, AddFlag(a, Slice(c, k.from, k.to), <<>>))
        [] k.kind = "Unterminated" -> LegacyErr("UnterminatedArgument")
        [] OTHER -> LegacyErr("InvalidArgument")

(***************************************************************************)
(* CommandManager::parse of one command line: the first token must be a    *)
(* Text naming the builtin, an immediately following `!` is the bang       *)
(* (refused unless the command accepts it), then the arguments are bound.  *)
(* T is what the TokenIterator over c yields (LegacyTokens(c)).            *)
(***************************************************************************)
LegacyParse(c, T) ==
    LET bang == Len(T) >= 2 /\ T[2].kind = "Bang"
    IN CASE T = <<>> \/ T[1].kind # "Text" -> LegacyErr("InvalidCommandName")
         [] Slice(c, T[1].from, T[1].to) \notin LegacyBuiltin.names -> LegacyErr("CommandNotFound")
         [] bang /\ ~LegacyBuiltin.acceptsBang -> LegacyErr("CommandDoesNotAcceptBang")
         [] OTHER -> [bang |-> bang] @@
                     LegacyBind(c, T, IF bang THEN 3 ELSE 2,
                                LegacyArgs(<<>>, [i \in DOMAIN LegacyBuiltin.flags |-> NoFlag]))

-----------------------------------------------------------------------------

\* The command lines of the current script, and whether CommandIter panicked.
LegacyScript == LegacyLines(text, 0)

\* The number of `\` immediately before byte q, back to the line start f.
RECURSIVE BackslashesBefore(_, _, _)
BackslashesBefore(s, f, q) ==
    IF q > f /\ s[q] = "\\" THEN 1 + BackslashesBefore(s, f, q - 1) ELSE 0

\* Byte q of a line starting at f is escaped: an odd run of `\` precedes it.
Escaped(s, f, q) == BackslashesBefore(s, f, q) % 2 = 1

(***************************************************************************)
(* The legacy CommandIter yields, in script order and apart, non-empty     *)
(* lines that start with a non-blank byte, hold no newline or `#` unless   *)
(* an odd run of `\` escapes it, and end at an unescaped newline or `#` or *)
(* at the end of the script: the escaping the unit tests rely on           *)
(* ("command0\\\n still command0").                                        *)
(***************************************************************************)
LinesSplit(ls) ==
    \A i \in 1..Len(ls) :
        LET f == ls[i][1]  t == ls[i][2] IN
        /\ f < t /\ text[f + 1] \notin Whitespace
        /\ i > 1 => ls[i - 1][2] < f
        /\ \A q \in f..(t - 1) : text[q + 1] \in {"\n", "#"} => Escaped(text, f, q)
        /\ t < Len(text) => text[t + 1] \in {"\n", "#"} /\ ~Escaped(text, f, t)

\* LegacyLinesSplit: CommandIter of lib/command.rs splits the script so.
LegacyLinesSplit == LinesSplit(LegacyScript.lines)

(***************************************************************************)
(* Nothing of a script the legacy CommandIter gets through is dropped:     *)
(* every byte outside its lines is blank or in a comment running from a    *)
(* `#` outside every line to the end of its line.                          *)
(***************************************************************************)
NothingLostIn(L) ==
    LET Inside(q) == \E i \in 1..Len(L.lines) : L.lines[i][1] <= q /\ q < L.lines[i][2]
    IN ~L.panic =>
         \A q \in 0..(Len(text) - 1) :
            ~Inside(q) /\ text[q + 1] \notin Whitespace
            => \E h \in 0..q : /\ text[h + 1] = "#" /\ ~Inside(h)
                               /\ \A j \in h..q : text[j + 1] # "\n"

\* LegacyNothingLost: CommandIter drops only blanks and comments of the script.
LegacyNothingLost == NothingLostIn(LegacyScript)

(***************************************************************************)
(* The reference grammar of a legacy command line, over its tokens: the    *)
(* builtin's name, an optional `!` it accepts, then values and flags where *)
(* every `=` joins a known flag to a Text, no `!` or unterminated quote    *)
(* follows the bang, and the values number within the descriptor.  It     *)
(* gives the values in order and each flag's last setting.                 *)
(***************************************************************************)
LegacyGrammar(c, T) ==
    LET N == Len(T)
        B == LegacyBuiltin
        start == IF N >= 2 /\ T[2].kind = "Bang" THEN 3 ELSE 2
        txt == [j \in 1..N |-> Slice(c, T[j].from, T[j].to)]
        kind == [j \in 1..N |-> T[j].kind]
        isFlagValue == [j \in 1..N |-> j >= start + 2 /\ kind[j - 1] = "Equals" /\ kind[j - 2] = "Flag"]
        wf == [j \in 1..N |->
                 CASE kind[j] = "Equals" ->
                        j - 1 >= start /\ kind[j - 1] = "Flag" /\ j < N /\ kind[j + 1] = "Text"
                   [] kind[j] = "Flag" -> txt[j] \in ToSet(B.flags)
                   [] kind[j] = "Text" -> TRUE
                   [] OTHER -> FALSE]
        vals == SelectSeq([j \in 1..N |-> j],
                          LAMBDA j : j >= start /\ kind[j] = "Text" /\ ~isFlagValue[j])
        setting == [j \in 1..N |-> IF j + 2 <= N /\ kind[j + 1] = "Equals" THEN FlagValue(txt[j + 2])
                                                                      ELSE FlagValue(<<>>)]
        settings == [i \in DOMAIN B.flags |->
                       {j \in start..N : kind[j] = "Flag" /\ txt[j] = B.flags[i]}]
    IN [accepts |-> /\ N >= 1 /\ kind[1] = "Text" /\ txt[1] \in B.names
                    /\ start = 3 => B.acceptsBang
                    /\ \A j \in start..N : wf[j]
                    /\ Len(vals) >= B.required
                    /\ Len(vals) <= B.required + IF B.extra THEN MaxOtherValuesLen
                                                          ELSE B.optional,
        bang |-> start = 3,
        values |-> [m \in 1..Len(vals) |-> txt[vals[m]]],
        flags |-> [i \in DOMAIN B.flags |->
                     IF settings[i] = {} THEN NoFlag ELSE setting[Max(settings[i])]]]

(***************************************************************************)
(* CommandManager::parse accepts exactly the command lines of the          *)
(* reference grammar, and binds the bang, the values and the flags it      *)
(* gives: every line the legacy CommandIter yields is checked.             *)
(***************************************************************************)
\* The parse result p and the grammar's reading g accept alike and bind alike.
SameBinding(p, g) ==
    /\ p.ok <=> g.accepts
    /\ p.ok => p.bang = g.bang /\ p.values = g.values /\ p.flags = g.flags

\* parse and the grammar agree on command line c with tokens T.
AgreesOn(c, T) == SameBinding(LegacyParse(c, T), LegacyGrammar(c, T))

\* They agree on every line ls of the script.
LinesAgree(ls) == \A i \in 1..Len(ls) :
    LET c == Slice(text, ls[i][1], ls[i][2]) IN AgreesOn(c, LegacyTokens(c))

\* LegacyParseMatchesGrammar: parse agrees with LegacyGrammar on every line.
LegacyParseMatchesGrammar == LinesAgree(LegacyScript.lines)

=============================================================================
