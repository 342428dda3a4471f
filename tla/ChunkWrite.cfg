SPECIFICATION Spec
CONSTANTS
  w1 = w1
  w2 = w2
  w3 = w3
  p = p
  r1 = r1
  r2 = r2
  Writer = {w1, w2, w3}
  Extent <- ThreeExtents
  Primary = p
  Replica = {r1, p, r2}
  Replicas <- PromotedOrder
  Hole = Hole
  MaxFaults = 2
INVARIANTS
  TypeOK
  AckedOnEveryReplica
  DisjointWritesConverge
  MasterCountsEveryByte
  PrimaryIsSource
  LossHasACause
