\* The comment of f2m.c:308 on the TTR of a member, on an FB data set.
CONSTANTS
  RecFm = "F"
  LRecl = 4
  BlkSize = 8
  Lens = {0, 4, 9}
  MaxRecords = 5
  MaxMembers = 2
\* A caller that has written its members stops using the handle.
CHECK_DEADLOCK FALSE
SPECIFICATION Spec
INVARIANT MemberTtr
