------------------------------ MODULE MCMemDir ------------------------------
EXTENDS MemDir

At(year, mon, mday, s) == [day |-> DayOf([year |-> year, mon |-> mon, mday |-> mday]), sec |-> s]

\* The last second of 30 December 1999, the last day of that century, and 29 February,
\* which j_to_mmdd writes as day 0 of March.
MCInstants == <<At(99, 11, 30, 86399), At(99, 11, 31, 43200), At(100, 1, 29, 1)>>
=============================================================================
