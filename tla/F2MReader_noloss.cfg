\* sample/test/recordloss:13: no record is lost.
CONSTANTS
  MaxLen = 10
  Files <- AllFiles
  REC_LEN = 3
  MaxBytes = 2
  SizeT = 1000
\* The loop ends.
CHECK_DEADLOCK FALSE
SPECIFICATION Spec
INVARIANT NoLineLost
