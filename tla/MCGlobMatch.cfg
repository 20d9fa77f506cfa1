\* Every pattern of up to six bytes, brackets included, against every path
\* of up to three bytes.
CONSTANTS
    PatternChars <- MCRangeChars
    PathChars <- MCPathChars
    MaxPattern = 6
    MaxPath = 3
SPECIFICATION Spec
INVARIANT SubpatternsRoundTrip
INVARIANT MatchesReference
\* The enumeration ends at the length bounds.
CHECK_DEADLOCK FALSE
