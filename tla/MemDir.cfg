\* Two members that change at three times, at the end of a century.
SPECIFICATION Spec
CONSTANTS
  Nothing = Nothing
  Short = Short
  Names = {1, 2}
  Lines = {5, 70000}
  Instants <- MCInstants
INVARIANTS
  TypeOK
  ListingSorted
  StatisticsTrue
  EntryRead
  StringsSafe
\* mlsx ends, and the times are used up.
CHECK_DEADLOCK FALSE
