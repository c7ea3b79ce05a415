\* Every file of up to ten bytes, read three bytes at a time: four chunks.
CONSTANTS
  MaxLen = 10
  Files <- AllFiles
  REC_LEN = 3
  MaxBytes = 2
  SizeT = 1000
\* The loop ends.
CHECK_DEADLOCK FALSE
SPECIFICATION Spec
INVARIANTS
  TypeOK
  LinesInOrder
  AllLinesRead
  SpansAreData
PROPERTY
  ReadingEnds
