SPECIFICATION Spec
CONSTANTS
  ChunkSize = 2
  Hole = 0
  Client = {"w", "r"}
  Writer = "w"
  Does <- MCDoes
  Data <- MCDataFew
  NoFile = NoFile
  Nothing = Nothing
  Word = 16
  MaxLen = 4
  MaxOverlap = 0
  Salvage = {"read", "append", "delete"}
  MaxFaults = 1
INVARIANT TypeOK
INVARIANT NoOrphans
PROPERTY ByteFileSpec
PROPERTY MasterSurvives
PROPERTY ReadsFollowTheList
VIEW View
CHECK_DEADLOCK FALSE
