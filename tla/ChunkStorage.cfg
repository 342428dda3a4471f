SPECIFICATION Spec
CONSTANTS
  Chunk = {c1}
  Call = {k1, k2}
  Word = 4
  MaxSize = 2
SYMMETRY CallSymmetry
INVARIANTS
  TypeOK
  HeartbeatNamesFiles
  MapFollowsFile
  ReportsAddUp
PROPERTY
  CopiesWhole
