----------------------------- MODULE MCGlobMatch -----------------------------
EXTENDS GlobMatch

\* Literal bytes, the separator and both kinds of star.
MCStarChars == {"a", "b", "/", "*", "?"}

\* Literal bytes and every character of a bracket range.
MCRangeChars == {"a", "b", "[", "!", "-", "]"}

\* Paths of two names and the separator.
MCPathChars == {"a", "b", "/"}

=============================================================================
