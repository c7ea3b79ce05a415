\* Two handles, for output to a fixed data set and for input.
SPECIFICATION Spec
CONSTANTS
  Handles = {h1, h2}
  Writers = {h1}
  BlkSizes = {2, 3}
INVARIANTS
  TypeOK
  OpenIsWhole
  BlockFreedWhole
  RequestsFreed
PROPERTY
  NoSilentLeak
\* Each handle is opened and closed once.
CHECK_DEADLOCK FALSE
