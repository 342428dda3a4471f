SPECIFICATION ServerSpec
CONSTANTS
  Path = {p1}
  NoPath = NoPath
  Unborn = Unborn
  Dead = Dead
  ChunkSize = 1
  Word = 2
  MaxHandle = 3
  MaxLen = 2
  Server = {s1, s2, s3}
  NoServer = NoServer
  Handler = {h1, h2}
INVARIANTS
  ServerTypeOK
  PlacedOnThree
SYMMETRY ServerSymmetry
CHECK_DEADLOCK FALSE
