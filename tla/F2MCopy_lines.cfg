\* The comment of f2m.c:306-311, when a block cannot be written.
CONSTANTS
  RecFm = "F"
  LRecl = 4
  BlkSize = 8
  Lens = {4, 9}
  MaxRecords = 9
  MaxMembers = 3
  MaxLines = 3
  GlobSets <- MCGlobSets
  NoName = NoName
  TooLong = {8}
\* f2m exits.
CHECK_DEADLOCK FALSE
SPECIFICATION CopySpec
INVARIANT EntryAfterAllLines
