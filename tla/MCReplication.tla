--------------------------- MODULE MCReplication ---------------------------
(* Replication for TLC.  Servers are interchangeable, and clients are. *)
EXTENDS Replication, TLC

CONSTANTS s1, s2, s3, c1

Symmetry == Permutations(Server) \cup Permutations(Client)

\* For liveness, which symmetry does not preserve: a state that Init leads to, where one
\* client has written the chunk to three servers and none has reported it yet.
PlacedInit ==
  /\ up = Server /\ joining = {}
  /\ disk = [s \in Server |-> IF s \in {s1, s2, s3} THEN {c1} ELSE {}]
  /\ available = Server /\ expired = {}
  /\ reported = [s \in Server |-> {}]
  /\ primary = [c \in Chunk |-> s1]
  /\ replicas = [c \in Chunk |-> <<s2, s3>>]
  /\ call = [k \in Client |-> Idle] /\ acked = {c1} /\ early = {} /\ cleaned = {}
  /\ phase = "wait" /\ hit = {} /\ todo = {} /\ job = NoJob
  /\ crashes = 0 /\ faults = 0

PlacedSpec == PlacedInit /\ [][Next]_vars /\ Fairness
=============================================================================
