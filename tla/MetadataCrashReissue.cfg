SPECIFICATION CrashSpec
CONSTANTS
  Path = {p1, p2}
  NoPath = NoPath
  Unborn = Unborn
  Dead = Dead
  ChunkSize = 2
  Word = 4
  MaxHandle = 3
  MaxLen = 4
INVARIANT HandleNamesOneChunk
SYMMETRY PathSymmetry
