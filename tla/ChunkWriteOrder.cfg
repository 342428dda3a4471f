SPECIFICATION Spec
CONSTANTS
  w1 = w1
  w2 = w2
  w3 = w3
  p = p
  r1 = r1
  r2 = r2
  Writer = {w1, w2}
  Extent <- SameExtents
  Primary = p
  Replica = {r1, r2}
  Replicas <- ReplicaOrder
  Hole = Hole
  MaxFaults = 0
INVARIANT CopiesIdentical
