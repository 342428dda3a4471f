---------------------------- MODULE ChunkStorage ----------------------------
(***************************************************************************)
(* One ChunkServer's disk (internal/chunkserver/storage.go): the chunk     *)
(* files, the map of their sizes beside them, and the handlers of          *)
(* chunkserver/server.go that use both and report to the Master.           *)
(*                                                                          *)
(* Storage.mu makes one method atomic, and a handler calls several: it     *)
(* reads a size, changes the file, and tells the Master the difference.    *)
(* A method that fails has gone through some of its system calls.  A chunk *)
(* is its length here; the bytes are in ChunkWrite and FileOps.            *)
(***************************************************************************)
EXTENDS Integers, Functions

CONSTANTS
  Chunk,    \* chunk ids
  Call,     \* the handlers that can run at the same time
  Word,     \* uint64 arithmetic is modulo Word
  MaxSize   \* bound: the longest chunk file (the client keeps to ChunkSize)

ASSUME StorageAssumption ==
  /\ Chunk # {}
  /\ MaxSize \in Nat \ {0}
  /\ Word \in Nat /\ Word > MaxSize

VARIABLES
  file,      \* chunk -> length of its file, for the files there are
  chunks,    \* Storage.chunks: chunk -> size
  call,      \* call -> what its handler is doing
  credited,  \* chunk -> what the reports about it have added to SizeBytes
  \* history:
  torn,      \* chunks with a failed system call since the last method that went well
  spoiled    \* chunks whose size changed without a report that the Master counted, or
             \* with one from an old size

vars == <<file, chunks, call, credited, torn, spoiled>>

Size == 0 .. MaxSize

\* What the handlers ask of a chunk: the new bytes, the length to cut to.
Request == [op : {"write", "truncate", "delete", "copy"}, chunk : Chunk, from : Size, to : Size]

Possible(r) ==
  IF r.op = "write" THEN r.from < r.to
  ELSE r.from = 0 /\ (r.op # "truncate" => r.to = 0)

TypeOK ==
  /\ DOMAIN file \subseteq Chunk /\ \A c \in DOMAIN file : file[c] \in Size
  /\ DOMAIN chunks \subseteq Chunk /\ \A c \in DOMAIN chunks : chunks[c] \in Size
  /\ call \in [Call -> [pc : {"idle", "store", "measure", "answer"}, req : Request,
                        old : Size, change : 0 .. Word - 1, raced : BOOLEAN]]
  /\ credited \in [Chunk -> 0 .. Word - 1]
  /\ torn \subseteq Chunk
  /\ spoiled \subseteq Chunk

Ask(op, c) == [op |-> op, chunk |-> c, from |-> 0, to |-> 0]

Idle == [pc |-> "idle", req |-> Ask("delete", CHOOSE c \in Chunk : TRUE),
         old |-> 0, change |-> 0, raced |-> FALSE]

Init ==
  /\ file = << >>
  /\ chunks = << >>
  /\ call = [k \in Call |-> Idle]
  /\ credited = [c \in Chunk |-> 0]
  /\ torn = {}
  /\ spoiled = {}

SizeIn(sizes, c) == IF c \in DOMAIN sizes THEN sizes[c] ELSE 0

Set(sizes, c, n) == [d \in DOMAIN sizes \cup {c} |-> IF d = c THEN n ELSE sizes[d]]

Drop(sizes, c) == Restrict(sizes, DOMAIN sizes \ {c})

GetChunkSize(c) == SizeIn(chunks, c)

GetChunkHandles == DOMAIN chunks   \* what a heartbeat carries

Longer(m, n) == IF m > n THEN m ELSE n

-----------------------------------------------------------------------------
(***************************************************************************)
(* The methods of Storage that change something.                           *)
(***************************************************************************)
Written(r) == Longer(SizeIn(file, r.chunk), r.to)

WriteTrustsRequest(r) ==  \* mutant: the map gets the end of the write
  /\ file' = Set(file, r.chunk, Written(r))
  /\ chunks' = Set(chunks, r.chunk, r.to)

WriteChunk(r) ==
  /\ file' = Set(file, r.chunk, Written(r))
  /\ chunks' = Set(chunks, r.chunk, file'[r.chunk])

\* OpenFile fails, or a call after it: the file is there, with some of the bytes.
WriteChunkFails(r) ==
  /\ \/ UNCHANGED file
     \/ file' = Set(file, r.chunk, SizeIn(file, r.chunk))
     \/ \E n \in r.from + 1 .. r.to :
          file' = Set(file, r.chunk, Longer(SizeIn(file, r.chunk), n))
  /\ UNCHANGED chunks

TruncateBeforeSync(r) ==  \* mutant: the map is left as it was
  /\ r.chunk \in DOMAIN file
  /\ file' = Set(file, r.chunk, r.to)
  /\ UNCHANGED chunks

TruncateChunk(r) ==
  /\ r.chunk \in DOMAIN file
  /\ file' = Set(file, r.chunk, r.to)
  /\ chunks' = Set(chunks, r.chunk, r.to)

\* There is no file, or OpenFile or Truncate fails, or Sync after Truncate.
TruncateChunkFails(r) ==
  /\ \/ UNCHANGED file
     \/ r.chunk \in DOMAIN file /\ file' = Set(file, r.chunk, r.to)
  /\ UNCHANGED chunks

DeleteKeepsEntry(c) ==  \* mutant: the size stays in the map
  /\ c \in DOMAIN file
  /\ file' = Drop(file, c)
  /\ UNCHANGED chunks

DeleteChunk(c) ==
  /\ c \in DOMAIN file
  /\ file' = Drop(file, c)
  /\ chunks' = Drop(chunks, c)

\* Remove fails; when there is no file the entry goes all the same.
DeleteChunkFails(c) ==
  /\ UNCHANGED file
  /\ chunks' = IF c \in DOMAIN file THEN chunks ELSE Drop(chunks, c)

Stores(r) ==
  /\ \/ r.op = "write" /\ WriteChunk(r)
     \/ r.op = "truncate" /\ TruncateChunk(r)
     \/ r.op = "delete" /\ DeleteChunk(r.chunk)
  /\ torn' = torn \ {r.chunk}

StoreFails(r) ==
  /\ \/ r.op = "write" /\ WriteChunkFails(r)
     \/ r.op = "truncate" /\ TruncateChunkFails(r)
     \/ r.op = "delete" /\ DeleteChunkFails(r.chunk)
  /\ torn' = torn \cup {r.chunk}

-----------------------------------------------------------------------------
(***************************************************************************)
(* The handlers WriteChunk, TruncateChunk and DeleteChunk of a primary,    *)
(* and ReplicateChunk of the server a repair copies from.                  *)
(***************************************************************************)
At(k, pc) == call[k].pc = pc
About(k) == call[k].req.chunk

\* k holds a size of c that it read before another access to storage.
Holds(k, c) == call[k].pc \in {"store", "measure"} /\ About(k) = c

\* Each handler starts with GetChunkSize.
Begin(k, r) ==
  /\ At(k, "idle")
  /\ Possible(r)
  /\ call' = [call EXCEPT ![k] = [Idle EXCEPT !.pc = "store", !.req = r,
                                              !.old = GetChunkSize(r.chunk)]]
  /\ UNCHANGED <<file, chunks, credited, torn, spoiled>>

\* The other handlers with a size of chunk c, which is now old.
Overtaken(c, k) == [j \in Call |-> [call[j] EXCEPT !.raced = @ \/ (j # k /\ Holds(j, c))]]

ChangeSigned(k) == SizeIn(chunks', About(k)) - call[k].old  \* for a mutant: a signed difference

\* What the handler will report: sizeChange, -removedSize or -deleted_size.
Change(k) == (SizeIn(chunks', About(k)) - call[k].old) % Word

\* What the handler still needs for its answer.
Answering(k, n) ==
  [Idle EXCEPT !.pc = "answer", !.change = n,
               !.req = Ask(call[k].req.op, About(k))]

Spoil(k) == spoiled' = spoiled \cup {c \in {About(k)} : call[k].raced}

\* A write measures again afterwards; the others have what they report.
Store(k) ==
  /\ At(k, "store")
  /\ Stores(call[k].req)
  /\ call' = [Overtaken(About(k), k) EXCEPT
                ![k] = IF call[k].req.op = "write" THEN [@ EXCEPT !.pc = "measure"]
                                                   ELSE Answering(k, Change(k))]
  /\ IF call[k].req.op = "write" THEN UNCHANGED spoiled ELSE Spoil(k)
  /\ UNCHANGED credited

\* The handler returns the error.
StoreGoesWrong(k) ==
  /\ At(k, "store")
  /\ StoreFails(call[k].req)
  /\ call' = [Overtaken(About(k), k) EXCEPT ![k] = Idle]
  /\ UNCHANGED <<credited, spoiled>>

MeasureFromRequest(k) ==  \* mutant: the end of the write is taken for the chunk's size
  /\ At(k, "measure")
  /\ call' = [call EXCEPT ![k] = Answering(k, (call[k].req.to - call[k].old) % Word)]
  /\ Spoil(k)
  /\ UNCHANGED <<file, chunks, credited, torn>>

Measure(k) ==
  /\ At(k, "measure")
  /\ call' = [call EXCEPT ![k] = Answering(k, (GetChunkSize(About(k)) - call[k].old) % Word)]
  /\ Spoil(k)
  /\ UNCHANGED <<file, chunks, credited, torn>>

\* k has changed its chunk's size and the Master does not know yet.
Uncounted(k) ==
  /\ call[k].req.op # "copy"
  /\ \/ At(k, "answer") /\ call[k].change # 0
     \/ At(k, "measure") /\ (call[k].raced \/ GetChunkSize(About(k)) # call[k].old)

SpoilUncounted(k) == spoiled' = spoiled \cup {c \in {About(k)} : Uncounted(k)}

\* UpdateMasterMetadata.  The Master refuses when the path has no file, or was lost in
\* a restart of its own; nobody looks at its Status, and the handler answers success.
Report(k) ==
  /\ At(k, "answer") /\ call[k].req.op # "copy"
  /\ \/ /\ credited' = [credited EXCEPT ![About(k)] = (@ + call[k].change) % Word]
        /\ UNCHANGED spoiled
     \/ SpoilUncounted(k) /\ UNCHANGED credited
  /\ call' = [call EXCEPT ![k] = Idle]
  /\ UNCHANGED <<file, chunks, torn>>

\* A forward fails before the report, or the Master cannot be reached: the handler
\* answers with an error and nobody counts what it did.
GiveUp(k) ==
  /\ At(k, "answer")
  /\ SpoilUncounted(k)
  /\ call' = [call EXCEPT ![k] = Idle]
  /\ UNCHANGED <<file, chunks, credited, torn>>

\* Storage.ReadChunk of the size read before, clipped to the file; change is the
\* length of the copy that goes to the destination.
CopyLength(k) ==
  IF call[k].old < SizeIn(file, About(k)) THEN call[k].old ELSE SizeIn(file, About(k))

ReadForCopy(k) ==
  /\ At(k, "store") /\ call[k].req.op = "copy"
  /\ call' = [call EXCEPT ![k] = IF About(k) \in DOMAIN file
                                   THEN Answering(k, CopyLength(k))
                                   ELSE Idle]
  /\ UNCHANGED <<file, chunks, credited, torn, spoiled>>

-----------------------------------------------------------------------------
\* ForwardWrite, DeleteReplicaChunk and a ReplicaOnly TruncateChunk: one access to
\* storage and no report.  A promoted primary, still listed as a replica, gets them too.
ReplicaCall(r) ==
  /\ Possible(r)
  /\ Stores(r) \/ StoreFails(r)
  /\ call' = [j \in Call |-> [call[j] EXCEPT !.raced = @ \/ Holds(j, r.chunk)]]
  /\ spoiled' = spoiled \cup {c \in {r.chunk} : GetChunkSize(c) # SizeIn(chunks', c)}
  /\ UNCHANGED credited

\* The process ends, its handlers with it, and is started again: loadChunks reads
\* the sizes of the files.  A method cut short is one that failed before.
Restart ==
  /\ chunks' = file
  /\ call' = [k \in Call |-> Idle]
  /\ torn' = {}
  /\ spoiled' = spoiled
       \cup {c \in Chunk : GetChunkSize(c) # SizeIn(file, c)}
       \cup {About(k) : k \in {k \in Call : Uncounted(k)}}
  /\ UNCHANGED <<file, credited>>

Step(k) ==
  \/ \E r \in Request : Begin(k, r)
  \/ Store(k) \/ StoreGoesWrong(k) \/ Measure(k) \/ Report(k) \/ GiveUp(k) \/ ReadForCopy(k)

Next ==
  \/ \E k \in Call : Step(k)
  \/ \E r \in Request : ReplicaCall(r)
  \/ Restart

Spec == Init /\ [][Next]_vars

-----------------------------------------------------------------------------
\* A heartbeat never names a chunk without a file, whatever fails and whenever the
\* server restarts: the Master takes the names for copies and repairs from them.
HeartbeatNamesFiles == GetChunkHandles \subseteq DOMAIN file

\* The map may lag the file only after a system call failed; the next method that
\* goes well on the chunk, or a restart, brings them together again.
MapFollowsFile ==
  \A c \in Chunk \ torn :
    /\ c \in DOMAIN file <=> c \in DOMAIN chunks
    /\ SizeIn(file, c) = GetChunkSize(c)

\* Except for calls that are still to report, the Master has counted for a chunk what
\* the server has for its size, through failed and partial writes, their repetition,
\* truncations of what was never counted and differences below zero.  Only what is in
\* spoiled can make a difference: a report that was lost, one the Master refused (the
\* caller is told that all went well), and a size that was overtaken by another call.
ReportsAddUp ==
  \A c \in Chunk \ spoiled :
    \/ credited[c] = GetChunkSize(c) % Word
    \/ \E k \in Call : About(k) = c /\ Uncounted(k)

\* A repair sends the whole file unless a system call on the chunk failed or another
\* call changed it after its size was read.
CopiesWhole ==
  [][\A k \in Call :
       ReadForCopy(k) /\ About(k) \in DOMAIN file \ torn /\ ~call[k].raced
         => call'[k].change = file[About(k)]]_vars
=============================================================================
