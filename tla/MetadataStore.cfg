SPECIFICATION Spec
CONSTANTS
  Path = {p1, p2}
  NoPath = NoPath
  Unborn = Unborn
  Dead = Dead
  ChunkSize = 2
  Word = 4
  MaxHandle = 4
  MaxLen = 4
INVARIANTS
  TypeOK
  HandlesUnique
  ListedHandlesLocated
  ReportsReachOwnFile
PROPERTIES
  SurvivorsKeepOrder
  LifecycleSpec
SYMMETRY PathSymmetry
