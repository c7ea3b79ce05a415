\* Two members, one change by other programs, and a buffer of five bytes.
SPECIFICATION Spec
CONSTANTS
  Nothing = Nothing
  Names = {1, 2}
  Contents <- MCContents
  Ccsids = {819, 1208}
  MAX_TEXT_FILE_SIZE = 5
  MaxChanges = 1
INVARIANTS
  TypeOK
  FileIsMember
  DescriptorsAccounted
PROPERTIES
  NeverOverwrites
  CopyEnds
\* m2f exits.
CHECK_DEADLOCK FALSE
