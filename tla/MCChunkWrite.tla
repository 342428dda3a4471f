---------------------------- MODULE MCChunkWrite ----------------------------
(* ChunkWrite for TLC: a primary and two replicas. *)
EXTENDS ChunkWrite, TLC

CONSTANTS w1, w2, w3, p, r1, r2

ReplicaOrder == <<r1, r2>>

Cell(offset, length) == [offset |-> offset, length |-> length]

\* A promoted primary is among its own replicas.
PromotedOrder == <<r1, p, r2>>

\* Two calls that overlap, and one behind them that leaves a hole when it is first.
ThreeExtents == w1 :> Cell(0, 1) @@ w2 :> Cell(0, 2) @@ w3 :> Cell(2, 1)

\* A call and its retry, or two clients at the same place.
SameExtents == w1 :> Cell(0, 1) @@ w2 :> Cell(0, 1)
=============================================================================
