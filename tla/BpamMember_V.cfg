\* A writing and a reading handle on a VB data set.
CONSTANTS
  RecFm = "V"
  LRecl = 8
  BlkSize = 20
  Lens = {0, 4, 17}
  MaxRecords = 3
  MaxMembers = 2
\* A caller that has written and read its members stops using the handles.
CHECK_DEADLOCK FALSE
SPECIFICATION MemberSpec
INVARIANTS
  BlockNeverOverflows
  BlocksValidate
  ReadBack
PROPERTY
  ImplementsStore
