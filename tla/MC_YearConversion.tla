------------------------- MODULE MC_YearConversion -------------------------
EXTENDS YearConversion

\* Two row slots; years on both sides of every boundary of To4Digits, so
\* that a 2-digit year and its 4-digit form, or a rejected year, can occur
\* in the same table.
MCRows == {1, 2}
MCYears == {-1, 5, 70, 100, 1970, 2005}
MCProbeYears == (-2 .. 2) \cup (67 .. 72) \cup (97 .. 102)
                  \cup (1967 .. 1972) \cup (2067 .. 2071)
=============================================================================
