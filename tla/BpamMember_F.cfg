\* A writing and a reading handle on an FB data set.
CONSTANTS
  RecFm = "F"
  LRecl = 4
  BlkSize = 8
  Lens = {0, 4, 9}
  MaxRecords = 3
  MaxMembers = 2
\* A caller that has written and read its members stops using the handles.
CHECK_DEADLOCK FALSE
SPECIFICATION MemberSpec
INVARIANTS
  TypeOK
  NothingLost
  FirstMemberTtr
  ReadBack
  EndMeansAll
PROPERTY
  ImplementsStore
