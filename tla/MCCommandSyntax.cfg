\* Every script of up to six characters of the current language, and of up
\* to five characters of the legacy one.
CONSTANTS
    Chars <- MCAllChars
    FlagNames <- MCFlagNames
    MaxLen = 6
    LegacyBuiltin <- MCLegacyBuiltin
    MaxOtherValuesLen = 8
SPECIFICATION MCSpec
INVARIANT TypeOK
INVARIANT CommandsSplitAtTerminators
INVARIANT BraceGroupsStayWhole
INVARIANT NothingLost
INVARIANT NoPositionalLost
INVARIANT AssertEmptyOnlyWhenDone
INVARIANT ProcessCommandsParse
INVARIANT MCLegacyLinesSplit
INVARIANT MCLegacyNothingLost
INVARIANT MCLegacyParseMatchesGrammar
\* The enumeration of scripts ends at the length bounds.
CHECK_DEADLOCK FALSE
