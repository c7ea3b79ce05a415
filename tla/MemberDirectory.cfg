\* Three programs entering a member, of all kinds and with the ENQ or without.
CONSTANTS
  Programs = {p1, p2, p3}
  NoEntry = NoEntry
  Nobody = Nobody
\* The programs end.
CHECK_DEADLOCK FALSE
SPECIFICATION Spec
INVARIANTS
  DirTypeOK
  ReturnTellsTruth
  EnqProtectsUpdate
PROPERTIES
  NoBlindReplace
  AllEnd
