---------------------------- MODULE MCCalendarSync -----------------------------
EXTENDS CalendarSync, TLC

CONSTANTS c1, c2

\* A tick is 5 minutes: StaleAfter 2, MaxAhead 1 and RetryCap 3 are the 10, 5 and
\* 15 minutes of the code.
MCSkews == {0, 2}

CalendarSymmetry == Permutations(Calendar)
================================================================================
