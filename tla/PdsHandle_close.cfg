\* bpamio.h:99 on the storage of a handle that is closed.
SPECIFICATION Spec
CONSTANTS
  Handles = {h1}
  Writers = {}
  BlkSizes = {2}
INVARIANTS
  CloseFreesStorage
\* Each handle is opened and closed once.
CHECK_DEADLOCK FALSE
