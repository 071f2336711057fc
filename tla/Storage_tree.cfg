CONSTANTS
  ERR = ERR
  fa = fa
  fb = fb
  da = da
  db = db
  d1 = d1
  d2 = d2
  FileName = {fa, fb}
  FolderName = {da, db}
  Data = {d1, d2}
  Size <- MCSize
  Within = {}
  Cases = {}
  MaxDepth = 3
  MaxRequests = 7
  MaxSuffix = 1
SYMMETRY Names
CHECK_DEADLOCK FALSE
SPECIFICATION Spec
INVARIANT ContentSurvives
INVARIANT NoOrphans
INVARIANT ListedOnce
PROPERTY ImplementsFileTree
