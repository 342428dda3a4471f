--------------------------- MODULE MetadataCrash ---------------------------
(***************************************************************************)
(* The Master's process around the MetadataStore (cmd/master/main.go).     *)
(* Load runs at every start and Save only at an orderly stop, after        *)
(* GracefulStop has drained the calls.  A Master that panics, is killed or *)
(* whose Save fails starts again from the previous save, while clients and *)
(* ChunkServers keep the handles they were given since.                    *)
(***************************************************************************)
EXTENDS MetadataStore

VARIABLE saved   \* what metadata.json holds

crashVars == <<vars, saved>>

Snapshot == [files |-> files, chunkid |-> chunkid, chunkLocations |-> chunkLocations]

\* The first start finds no file and begins with an empty store.
CrashInit == Init /\ saved = Snapshot

\* Save replaces the file by a rename, so it holds one snapshot or the other.
StopAndStart == Restart /\ saved' = Snapshot

Crash ==
  /\ files' = saved.files
  /\ chunkid' = saved.chunkid
  /\ chunkLocations' = Reloaded(saved.chunkLocations)
  /\ UNCHANGED <<issued, saved>>

CrashNext == (Operation /\ UNCHANGED saved) \/ StopAndStart \/ Crash

CrashSpec == CrashInit /\ [][CrashNext]_crashVars
-----------------------------------------------------------------------------
\* Every handle message with the same number is about a chunk of the same file
\* ("Each chunk has a unique handle", README.md:166).  A crash takes the counter
\* back to the last save, so a handle a ChunkServer holds data under can be
\* issued again for another file.
HandleNamesOneChunk ==
  \A m, n \in issued : m.id = n.id => \/ m.path = n.path
                                      \/ NoPath \in {m.path, n.path}
=============================================================================
