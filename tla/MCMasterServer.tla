--------------------------- MODULE MCMasterServer ---------------------------
(* MasterServer for TLC.  ChunkServers and handlers are interchangeable. *)
EXTENDS MasterServer, TLC

ServerSymmetry == Permutations(Server) \cup Permutations(Handler)
=============================================================================
