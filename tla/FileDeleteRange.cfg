SPECIFICATION Spec
CONSTANTS
  ChunkSize = 2
  Hole = 0
  Client = {"w"}
  Writer = "w"
  Does <- MCDoesFew
  Data <- MCData
  NoFile = NoFile
  Nothing = Nothing
  Word = 16
  MaxLen = 4
  MaxOverlap = 0
  Salvage = {"read"}
  MaxFaults = 0
PROPERTY ReadReconstructs
VIEW View
CHECK_DEADLOCK FALSE
