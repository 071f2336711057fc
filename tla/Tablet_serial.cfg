CONSTANTS
  k1 = k1
  k2 = k2
  v1 = v1
  v2 = v2
  h1 = h1
  h2 = h2
  Absent = Absent
  Key = {k1, k2}
  Value = {v1, v2}
  Thread = {h1}
  MAX_UPDATE_COUNT = 2
  MaxLog = 3
  Copies <- PeerTables
  Overlap = {}
SPECIFICATION Spec
SYMMETRY Symmetry
INVARIANTS TypeOK   ExitOnlyUnchained
PROPERTIES RecoveryExact
