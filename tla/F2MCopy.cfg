\* Sets of files of one and two extensions, and of none, with and without option -m.
CONSTANTS
  RecFm = "F"
  LRecl = 4
  BlkSize = 8
  Lens = {4, 9}
  MaxRecords = 9
  MaxMembers = 3
  MaxLines = 3
  GlobSets <- MCGlobSets
  NoName = NoName
  TooLong = {8}
\* f2m exits.
CHECK_DEADLOCK FALSE
SPECIFICATION CopySpec
INVARIANTS
  CopyTypeOK
  MemberIsFile
  NoMemberTwice
PROPERTIES
  KeepsOrder
  NoFurtherCopiesMapped
