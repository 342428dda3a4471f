SPECIFICATION Spec
CONSTANTS
  s1 = s1
  s2 = s2
  s3 = s3
  c1 = c1
  Server = {s1, s2, s3, s4}
  Client = {k1}
  Chunk = {c1}
  NoServer = NoServer
  MaxCrash = 1
  MaxFault = 1
  MaxEarly = 0
INVARIANTS
  TypeOK
  ListedServersHold
  ReplicasDistinct
PROPERTIES
  RepairedHasChunk
SYMMETRY Symmetry
