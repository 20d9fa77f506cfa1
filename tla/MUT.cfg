\* Every script of up to six characters of the current language, and of up
\* to five characters of the legacy one.
CONSTANTS
    Chars <- MCAllChars
    FlagNames <- MCFlagNames
    MaxLen = 6
    LegacyBuiltin <- MCLegacyBuiltin
    MaxOtherValuesLen = 8
SPECIFICATION MCSpec
\* The enumeration of scripts ends at the length bounds.
CHECK_DEADLOCK FALSE
INVARIANT ProcessCommandsParse
