--------------------------- MODULE MetadataStore ---------------------------
(***************************************************************************)
(* The Master's metadata store (internal/master/metadata.go): the namespace *)
(* and the chunk table.  Every method holds MetadataStore.mu from its first *)
(* to its last line, so a method is one action; the handlers that call the  *)
(* methods run concurrently, so the actions interleave freely.              *)
(*                                                                          *)
(* A chunk table entry is reduced to the path inside its ChunkHandle.  The  *)
(* servers that hold the chunk are the subject of Replication.              *)
(***************************************************************************)
EXTENDS Integers, Sequences, SequencesExt

CONSTANTS
  Path,        \* file names clients use
  NoPath,      \* "", the path of a handle that was read back from disk
  Unborn, Dead, \* owners of the handles no file lists (see HandleLifecycle)
  ChunkSize,   \* config.ChunkSize
  Word,        \* uint64 arithmetic is modulo Word (2^64 in the code)
  MaxHandle,   \* bound: the largest handle the model issues
  MaxLen       \* bound: the largest end offset a client writes to

ASSUME MetadataAssumption ==
  /\ NoPath \notin Path /\ Unborn \notin Path /\ Dead \notin Path /\ Unborn # Dead
  /\ ChunkSize \in Nat \ {0}
  /\ Word \in Nat /\ Word > ChunkSize
  /\ MaxHandle \in Nat /\ MaxHandle >= 1
  /\ MaxLen \in Nat

VARIABLES
  files,           \* path -> [size, chunks]: FileMetadata of the files that exist
  chunkid,         \* the last handle issued
  chunkLocations,  \* handle -> the path in its ChunkHandle
  issued           \* the ChunkHandles in locations the Master has handed out;
                   \* a client or a ChunkServer may use one at any later time

vars == <<files, chunkid, chunkLocations, issued>>

Handle == 2 .. MaxHandle

TypeOK ==
  /\ DOMAIN files \subseteq Path
  /\ \A p \in DOMAIN files : files[p] \in [size : 0 .. Word - 1, chunks : Seq(Handle)]
  /\ chunkid \in 1 .. MaxHandle
  /\ DOMAIN chunkLocations \subseteq Handle
  /\ \A h \in DOMAIN chunkLocations : chunkLocations[h] \in Path \cup {NoPath}
  /\ issued \subseteq [id : Handle, path : Path \cup {NoPath}]

Init ==
  /\ files = << >>
  /\ chunkid = 1
  /\ chunkLocations = << >>
  /\ issued = {}

(***************************************************************************)
(* Namespace.                                                              *)
(***************************************************************************)
CreateFile(path) ==
  /\ path \notin DOMAIN files
  /\ files' = [p \in DOMAIN files \cup {path} |->
                 IF p = path THEN [size |-> 0, chunks |-> << >>] ELSE files[p]]
  /\ UNCHANGED <<chunkid, chunkLocations, issued>>

\* The chunk table keeps the entries of whatever chunks the file still lists.
DeleteFile(path) ==
  /\ path \in DOMAIN files
  /\ files' = Restrict(files, DOMAIN files \ {path})
  /\ UNCHANGED <<chunkid, chunkLocations, issued>>

(***************************************************************************)
(* Allocation of handles: the next n, entered in the chunk table with the  *)
(* path of the file they are for.                                          *)
(***************************************************************************)
IssueWithoutCounting(path, n) ==  \* mutant: chunkid is not advanced
  /\ chunkid + n <= MaxHandle
  /\ chunkid' = chunkid
  /\ chunkLocations' =
       [h \in DOMAIN chunkLocations \cup (chunkid + 1 .. chunkid + n) |->
          IF h > chunkid THEN path ELSE chunkLocations[h]]

IssueHandles(path, n) ==
  /\ chunkid + n <= MaxHandle
  /\ chunkid' = chunkid + n
  /\ chunkLocations' =
       [h \in DOMAIN chunkLocations \cup (chunkid + 1 .. chunkid + n) |->
          IF h > chunkid THEN path ELSE chunkLocations[h]]

\* AllocateChunk puts one new chunk at a position of the file.
AllocateChunk(path, index) ==
  /\ path \in DOMAIN files
  /\ index <= Len(files[path].chunks)
  /\ IssueHandles(path, 1)
  /\ files' = [files EXCEPT ![path].chunks = InsertAt(@, index + 1, chunkid + 1)]
  /\ UNCHANGED issued

\* Number of chunks a file needs to hold the bytes below end.
ChunkCount(end) == (end - 1) \div ChunkSize + 1

\* The allocation loop WriteFile and AppendFile share: grow the file until it
\* has a chunk for its byte end - 1.
GrowTo(path, end) ==
  LET chunks == files[path].chunks
      n      == IF ChunkCount(end) > Len(chunks) THEN ChunkCount(end) - Len(chunks) ELSE 0
  IN /\ IssueHandles(path, n)
     /\ files' = [files EXCEPT ![path].chunks = @ \o [i \in 1 .. n |-> chunkid + i]]
     /\ UNCHANGED issued

WriteFile(path, offset, length) ==
  /\ path \in DOMAIN files
  /\ GrowTo(path, offset + length)

\* Appends start at the size the Master knows.  A size so large that the sum
\* leaves the word makes the method panic and is not explored.
AppendFile(path, length) ==
  /\ path \in DOMAIN files
  /\ files[path].size + length < Word
  /\ GrowTo(path, files[path].size + length)

(***************************************************************************)
(* A location handed to a client carries the ChunkHandle of the table.     *)
(* Whether the chunk has a live primary to go with it is in MasterServer.  *)
(***************************************************************************)
GetChunkLocations(h) ==
  /\ h \in DOMAIN chunkLocations
  /\ issued' = issued \cup {[id |-> h, path |-> chunkLocations[h]]}
  /\ UNCHANGED <<files, chunkid, chunkLocations>>

(***************************************************************************)
(* UpdateMasterMetadata: a ChunkServer reports that it deleted a chunk of  *)
(* size bytes (isDelete = 0), cut size bytes (1) or added size bytes (2).  *)
(* The path is the one inside the handle.                                  *)
(***************************************************************************)
RemoveSkippingFirst(chunks, h) ==  \* mutant: the search starts at the second chunk
  IF \E i \in 2 .. Len(chunks) : chunks[i] = h
    THEN RemoveAt(chunks, CHOOSE i \in 2 .. Len(chunks) : chunks[i] = h)
    ELSE chunks

RemoveBySwap(chunks, h) ==  \* mutant: the last chunk takes the place of the removed one
  IF \E i \in DOMAIN chunks : chunks[i] = h
    THEN LET i == CHOOSE i \in DOMAIN chunks : chunks[i] = h
         IN SubSeq([chunks EXCEPT ![i] = chunks[Len(chunks)]], 1, Len(chunks) - 1)
    ELSE chunks

RemoveHandle(chunks, h) ==
  IF \E i \in DOMAIN chunks : chunks[i] = h
    THEN RemoveAt(chunks, CHOOSE i \in DOMAIN chunks :
                            /\ chunks[i] = h
                            /\ \A j \in 1 .. i - 1 : chunks[j] # h)
    ELSE chunks

ReportDelete(m, size) ==
  /\ m.path \in DOMAIN files
  /\ files' = [files EXCEPT ![m.path].chunks = RemoveHandle(@, m.id),
                            ![m.path].size = (@ - size) % Word]
  /\ chunkLocations' = Restrict(chunkLocations, DOMAIN chunkLocations \ {m.id})
  /\ UNCHANGED <<chunkid, issued>>

ReportTruncateSigned(m, size) ==  \* mutant: the size is a signed integer
  /\ m.path \in DOMAIN files
  /\ files' = [files EXCEPT ![m.path].size = @ - size]
  /\ UNCHANGED <<chunkid, chunkLocations, issued>>

ReportTruncate(m, size) ==
  /\ m.path \in DOMAIN files
  /\ files' = [files EXCEPT ![m.path].size = (@ - size) % Word]
  /\ UNCHANGED <<chunkid, chunkLocations, issued>>

ReportWrite(m, size) ==
  /\ m.path \in DOMAIN files
  /\ files' = [files EXCEPT ![m.path].size = (@ + size) % Word]
  /\ UNCHANGED <<chunkid, chunkLocations, issued>>

\* What a ChunkServer reports: a difference of two chunk sizes, in uint64.
Reported == {d % Word : d \in -ChunkSize .. ChunkSize}

UpdateMasterMetadata(m, size) ==
  ReportDelete(m, size) \/ ReportTruncate(m, size) \/ ReportWrite(m, size)

(***************************************************************************)
(* Shutdown on SIGTERM and the next start: Save after the last RPC, then   *)
(* Load.  The path of a ChunkHandle is an unexported field, so the JSON    *)
(* encoder leaves it out.                                                  *)
(***************************************************************************)
Reloaded(locations) == [h \in DOMAIN locations |-> NoPath]

RestartForgetsCounter ==  \* mutant: Load does not restore ChunkID
  /\ chunkid' = 1
  /\ chunkLocations' = Reloaded(chunkLocations)
  /\ UNCHANGED <<files, issued>>

Restart ==
  /\ chunkLocations' = Reloaded(chunkLocations)
  /\ UNCHANGED <<files, chunkid, issued>>

Operation ==
  \/ \E p \in Path :
       \/ CreateFile(p)
       \/ DeleteFile(p)
       \/ \E index \in 0 .. MaxHandle : AllocateChunk(p, index)
       \/ \E offset \in 0 .. MaxLen - 1 :
            \E length \in 1 .. MaxLen - offset : WriteFile(p, offset, length)
       \/ \E length \in 1 .. MaxLen : AppendFile(p, length)
  \/ \E h \in Handle : GetChunkLocations(h)
  \/ \E m \in issued, size \in Reported : UpdateMasterMetadata(m, size)

Next == Operation \/ Restart

Spec == Init /\ [][Next]_vars

-----------------------------------------------------------------------------
Listed(h, p) == p \in DOMAIN files /\ h \in Range(files[p].chunks)

\* No two positions of the namespace hold the same handle: neither a repeated
\* report nor an allocation in the middle of a file can duplicate a chunk, and
\* no chunk is shared by two files.
HandlesUnique ==
  \A p, q \in DOMAIN files :
    \A i \in DOMAIN files[p].chunks, j \in DOMAIN files[q].chunks :
      files[p].chunks[i] = files[q].chunks[j] => p = q /\ i = j

\* Every chunk a file lists has its entry in the chunk table.  The WriteFile and
\* AppendFile handlers use the entry without looking at the error of the lookup.
ListedHandlesLocated ==
  \A p \in DOMAIN files : Range(files[p].chunks) \subseteq DOMAIN chunkLocations

\* A report about a chunk some file lists reaches that file or no file at all,
\* however old the handle is that the report carries: it can never change the
\* size of another file or drop the table entry of another file's chunk.
ReportsReachOwnFile ==
  \A p \in DOMAIN files, m \in issued :
    m.id \in Range(files[p].chunks) => m.path \in {p, NoPath}

\* Every chunk a file lists can still be reported on: its table entry names the
\* file ("This allows filesystem metadata to survive Master restarts",
\* README.md:498).  A restart loses the path of every ChunkHandle, and a report
\* without a path is refused with "file not found": sizes and chunk lists stand
\* still from then on.
ListedHandlesReportable ==
  \A p \in DOMAIN files : \A h \in Range(files[p].chunks) : chunkLocations[h] = p

\* Chunks a step leaves in a file keep their order: the bytes of a file are its
\* chunks in order, so a swap would corrupt it with no chunk touched.
KeepsOrder(old, new) ==
  \A i, j \in DOMAIN old, k, l \in DOMAIN new :
    i < j /\ old[i] = new[k] /\ old[j] = new[l] => k < l

SurvivorsKeepOrder ==
  [][\A p \in DOMAIN files \cap DOMAIN files' :
       KeepsOrder(files[p].chunks, files'[p].chunks)]_vars

\* The store implements HandleLifecycle: a handle is new when it is issued, it
\* lives in one file, and after it has left that file it never comes back.
OwnerOf(h) ==
  IF h > chunkid THEN Unborn
  ELSE IF \E p \in Path : Listed(h, p) THEN CHOOSE p \in Path : Listed(h, p)
  ELSE Dead

Lifecycle == INSTANCE HandleLifecycle WITH owner <- [h \in Handle |-> OwnerOf(h)]
LifecycleSpec == Lifecycle!Spec
=============================================================================
