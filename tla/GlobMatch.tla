------------------------------ MODULE GlobMatch ------------------------------
(***************************************************************************)
(* The glob matcher of src/glob.rs: State::next_subpattern, which reads    *)
(* one sub-pattern of a pattern, and match_glob_recursive, which walks the *)
(* path with a single retry point for the last `*` or `**`.                *)
(*                                                                         *)
(* Patterns and paths are sequences of one-character strings; Ord gives    *)
(* the byte value of each character the models use.  On the platforms the  *)
(* code targets path::is_separator is true of "/" only.                    *)
(*                                                                         *)
(* match_glob calls match_glob_recursive with inside_group = false, and a  *)
(* `{` returns BeginGroup (which panics, unimplemented!) before            *)
(* inside_group can be read, so `}` and `,` always fail as InvalidGlob.    *)
(*                                                                         *)
(* The inputs are enumerated: a pattern and a path grow one character at a *)
(* time up to their bounds, and every state is checked.                    *)
(***************************************************************************)
EXTENDS Integers, Sequences, SequencesExt, TLC

CONSTANTS
    PatternChars,  \* characters patterns are made of
    PathChars,     \* characters paths are made of
    MaxPattern,    \* bound on the pattern length
    MaxPath        \* bound on the path length

VARIABLES pattern, path

vars == <<pattern, path>>

\* The byte value of each character the models use.
Ord == "!" :> 33 @@ "*" :> 42 @@ "," :> 44 @@ "-" :> 45 @@ "/" :> 47 @@
       "?" :> 63 @@ "[" :> 91 @@ "]" :> 93 @@ "a" :> 97 @@ "b" :> 98 @@
       "c" :> 99 @@ "{" :> 123 @@ "}" :> 125

\* path::is_separator
IsSeparator(b) == b = "/"

\* The byte at the 0-based index i of p, or "" for None (past the end).
ByteAt(p, i) == IF i < Len(p) THEN p[i + 1] ELSE ""

Sub(kind, lo, hi, next) == [kind |-> kind, lo |-> lo, hi |-> hi, next |-> next]

\* Mutant: the closing `]` is left for the next sub-pattern to read.
BracketKeepClose(p, j) ==
    LET inverse == ByteAt(p, j) = "!"
        k == IF inverse THEN j + 1 ELSE j
        start == ByteAt(p, k)
        end == ByteAt(p, k + 2)
    IN IF start = "" \/ ByteAt(p, k + 1) # "-" \/ end = "" THEN Sub("Err", "", "", k + 3)
       ELSE IF Ord[start] > Ord[end] \/ ByteAt(p, k + 3) # "]" THEN Sub("Err", "", "", k + 4)
       ELSE Sub(IF inverse THEN "ExceptRange" ELSE "Range", start, end, k + 3)

(***************************************************************************)
(* The `[` arm of next_subpattern from index j (just after the `[`): an    *)
(* optional `!`, then start, `-`, end and `]`; Err unless start <= end.    *)
(***************************************************************************)
Bracket(p, j) ==
    LET inverse == ByteAt(p, j) = "!"
        k == IF inverse THEN j + 1 ELSE j
        start == ByteAt(p, k)
        end == ByteAt(p, k + 2)
    IN IF start = "" \/ ByteAt(p, k + 1) # "-" \/ end = "" THEN Sub("Err", "", "", k + 3)
       ELSE IF Ord[start] > Ord[end] \/ ByteAt(p, k + 3) # "]" THEN Sub("Err", "", "", k + 4)
       ELSE Sub(IF inverse THEN "ExceptRange" ELSE "Range", start, end, k + 4)

(***************************************************************************)
(* State::next_subpattern at index i: the sub-pattern and the index after  *)
(* it.  A `**` is AnyMultiSegment only at the end or before a `/`.         *)
(***************************************************************************)
NextSubpattern(p, i) ==
    LET c == ByteAt(p, i) IN
    CASE c = ""  -> Sub("None", "", "", i + 1)
      [] c = "?" -> Sub("AnyByte", "", "", i + 1)
      [] c = "*" ->
            IF ByteAt(p, i + 1) # "*" THEN Sub("AnySegment", "", "", i + 1)
            ELSE IF ByteAt(p, i + 2) \in {"", "/"} THEN Sub("AnyMultiSegment", "", "", i + 2)
            ELSE Sub("Err", "", "", i + 2)
      [] c = "[" -> Bracket(p, i + 1)
      [] c = "{" -> Sub("BeginGroup", "", "", i + 1)
      [] c \in {"]", "}", ","} -> Sub("Err", "", "", i + 1)
      [] OTHER -> Sub("Byte", c, c, i + 1)

\* Mutant: range bounds are exclusive.
AcceptsExclusive(s, b) ==
    CASE s.kind = "Byte" /\ s.lo = "/" -> IsSeparator(b)
      [] s.kind = "Byte"  -> b = s.lo
      [] s.kind = "Range" -> Ord[s.lo] < Ord[b] /\ Ord[b] < Ord[s.hi]
      [] OTHER            -> Ord[b] < Ord[s.lo] \/ Ord[s.hi] < Ord[b]

\* The check of check_next_path_byte! for the sub-patterns that consume one byte.
Accepts(s, b) ==
    CASE s.kind = "Byte" /\ s.lo = "/" -> IsSeparator(b)
      [] s.kind = "Byte"  -> b = s.lo
      [] s.kind = "Range" -> Ord[s.lo] <= Ord[b] /\ Ord[b] <= Ord[s.hi]
      [] OTHER            -> Ord[b] < Ord[s.lo] \/ Ord[s.hi] < Ord[b]

ByteKinds == {"Byte", "Range", "ExceptRange"}

NoSegment == [k |-> "None", i |-> 0]

\* A separator read by check_next_path_byte! ends a One segment (a `*`).
SegmentAfter(seg, b) == IF IsSeparator(b) /\ seg.k = "One" THEN NoSegment ELSE seg

RECURSIVE Loop(_, _, _, _, _, _, _)

(***************************************************************************)
(* When a sub-pattern fails: without a retry point the match fails (-1); *)
(* otherwise the path goes back to the index after the byte the last `*`  *)
(* or `**` swallowed, and the pattern to that star.                        *)
(***************************************************************************)
Fail(seg) == IF seg.k = "None" THEN -1 ELSE seg.i

(***************************************************************************)
(* The loop of match_glob_recursive with state.index = i, path_index = j,  *)
(* segment_state = seg and retry_pattern_index = r.  It yields "match" or  *)
(* "nomatch", "panic" for the unimplemented group, and "diverged" when the    *)
(* loop can never end: a retry past the end of the path can never match    *)
(* (the path index only grows from there) and never loses its retry point  *)
(* (no separator is read), so the code loops until path_index overflows.   *)
(* `fuel` only guards the model.  An Err of next_subpattern is "nomatch":  *)
(* match_glob unwraps it with unwrap_or(false).                            *)
(***************************************************************************)
Loop(p, q, i, j, seg, r, fuel) ==
    LET s == NextSubpattern(p, i)
        consumes == s.kind \in ByteKinds /\ j < Len(q)
        seg1 == IF consumes THEN SegmentAfter(seg, q[j + 1]) ELSE seg
        retry == Fail(seg1)
    IN
    IF fuel = 0 THEN "diverged"
    ELSE CASE s.kind = "Err" -> "nomatch"
           [] s.kind = "BeginGroup" -> "panic"
           [] s.kind = "AnySegment" -> Loop(p, q, s.next, j, [k |-> "One", i |-> j + 1], i, fuel - 1)
           [] s.kind = "AnyMultiSegment" ->
                Loop(p, q, s.next, j, [k |-> "Multiple", i |-> j + 1], i, fuel - 1)
           [] s.kind = "None" /\ j = Len(q) -> "match"
           [] s.kind = "AnyByte" /\ j < Len(q) -> Loop(p, q, s.next, j + 1, seg, r, fuel - 1)
           [] consumes /\ Accepts(s, q[j + 1]) -> Loop(p, q, s.next, j + 1, seg1, r, fuel - 1)
           [] OTHER -> CASE retry = -1 -> "nomatch"
                         [] retry > Len(q) + 1 -> "diverged"
                         [] OTHER -> Loop(p, q, r, retry, seg1, r, fuel - 1)

\* match_glob(pattern, path), with enough fuel for any terminating run.
MatchGlob(p, q) == Loop(p, q, 0, 0, NoSegment, 0, (Len(p) + 2) * (Len(q) + 2) * 2)

-----------------------------------------------------------------------------

(***************************************************************************)
(* Reference semantics, written from the tests of glob.rs independently of *)
(* the code: a byte matches itself, `?` any byte, `[x-y]` a byte in the    *)
(* range and `[!x-y]` one outside it (x <= y), `*` any run of bytes inside *)
(* one path segment, and `**`, only at the end or before `/`, any run of   *)
(* bytes at all.  `]`, `{`, `}` and `,` outside a bracket, and a malformed *)
(* bracket, make the pattern invalid; an invalid pattern matches nothing.  *)
(***************************************************************************)
Drop(s, k) == SubSeq(s, k + 1, Len(s))

\* The bracket at the start of p: its length, or 0 when it is malformed.
BracketLen(p) ==
    LET o == IF Len(p) >= 2 /\ p[2] = "!" THEN 1 ELSE 0 IN
    IF /\ Len(p) >= 5 + o /\ p[3 + o] = "-" /\ p[5 + o] = "]"
       /\ Ord[p[2 + o]] <= Ord[p[4 + o]]
    THEN 5 + o ELSE 0

InBracket(p, b) ==
    LET o == IF p[2] = "!" THEN 1 ELSE 0
        inside == Ord[p[2 + o]] <= Ord[b] /\ Ord[b] <= Ord[p[4 + o]]
    IN IF o = 1 THEN ~inside ELSE inside

RECURSIVE RefMatch(_, _)
RefMatch(p, q) ==
    LET NoSep(k) == \A m \in 1..k : q[m] # "/" IN
    CASE p = <<>> -> q = <<>>
      [] p[1] = "*" /\ Len(p) >= 2 /\ p[2] = "*" ->
            /\ Len(p) = 2 \/ p[3] = "/"
            /\ \E k \in 0..Len(q) : RefMatch(Drop(p, 2), Drop(q, k))
      [] p[1] = "*" -> \E k \in 0..Len(q) : NoSep(k) /\ RefMatch(Tail(p), Drop(q, k))
      [] p[1] = "?" -> q # <<>> /\ RefMatch(Tail(p), Tail(q))
      [] p[1] = "[" ->
            /\ BracketLen(p) > 0 /\ q # <<>> /\ InBracket(p, q[1])
            /\ RefMatch(Drop(p, BracketLen(p)), Tail(q))
      [] p[1] \in {"]", "{", "}", ","} -> FALSE
      [] OTHER -> q # <<>> /\ q[1] = p[1] /\ RefMatch(Tail(p), Tail(q))

\* The same grammar: the pattern is valid.
RECURSIVE WellFormed(_)
WellFormed(p) ==
    CASE p = <<>> -> TRUE
      [] p[1] = "*" /\ Len(p) >= 2 /\ p[2] = "*" ->
            (Len(p) = 2 \/ p[3] = "/") /\ WellFormed(Drop(p, 2))
      [] p[1] = "[" -> BracketLen(p) > 0 /\ WellFormed(Drop(p, BracketLen(p)))
      [] p[1] \in {"]", "{", "}", ","} -> FALSE
      [] OTHER -> WellFormed(Tail(p))

Init == pattern = <<>> /\ path = <<>>

TypePattern == \E c \in PatternChars : Len(pattern) < MaxPattern /\ pattern' = Append(pattern, c)
                                       /\ UNCHANGED path

TypePath == \E c \in PathChars : Len(path) < MaxPath /\ path' = Append(path, c)
                                 /\ UNCHANGED pattern

Next == TypePattern \/ TypePath

Spec == Init /\ [][Next]_vars

-----------------------------------------------------------------------------

(***************************************************************************)
(* match_glob always returns: it never loops forever on a pattern and a    *)
(* path (a failing retry must eventually run out of path).                 *)
(***************************************************************************)
Terminates == MatchGlob(pattern, path) \in {"match", "nomatch", "panic"}

\* The text of a sub-pattern, as the grammar of test_subpattern writes it.
Render(s) ==
    CASE s.kind = "Byte" -> <<s.lo>>
      [] s.kind = "Range" -> <<"[", s.lo, "-", s.hi, "]">>
      [] s.kind = "ExceptRange" -> <<"[", "!", s.lo, "-", s.hi, "]">>
      [] s.kind = "AnyByte" -> <<"?">>
      [] s.kind = "AnySegment" -> <<"*">>
      [] s.kind = "AnyMultiSegment" -> <<"*", "*">>
      [] OTHER -> <<>>

\* The sub-patterns next_subpattern reads from index i on, up to None or Err.
RECURSIVE Subpatterns(_, _)
Subpatterns(p, i) ==
    LET s == NextSubpattern(p, i) IN
    IF s.kind \in {"None", "Err", "BeginGroup"} THEN <<s>>
    ELSE <<s>> \o Subpatterns(p, s.next)

(***************************************************************************)
(* next_subpattern reads exactly the well-formed patterns to the end, as a *)
(* sequence of sub-patterns whose texts, put back together, are the        *)
(* pattern: no byte is skipped or read twice, brackets included.           *)
(***************************************************************************)
SubpatternsRoundTrip ==
    LET ss == Subpatterns(pattern, 0) IN
    /\ (ss[Len(ss)].kind = "None") = WellFormed(pattern)
    /\ ss[Len(ss)].kind = "None" =>
          FoldLeft(LAMBDA acc, s : acc \o Render(s), <<>>, ss) = pattern

(***************************************************************************)
(* The tests of glob.rs: match_glob agrees with the reference on every     *)
(* pattern and path.                                                       *)
(***************************************************************************)
MatchesReference ==
    MatchGlob(pattern, path) \in {"diverged", IF RefMatch(pattern, path) THEN "match" ELSE "nomatch"}

=============================================================================
