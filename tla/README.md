# Verification of Mini-GFS

TLA+ models of Mini-GFS (a Master, ChunkServers that keep three copies of every
chunk, and a client library), model-checked with TLC, and theorems about them
proved with TLAPS. Everything is translated from the Go code under `src/`; file
names without a directory are in `src/internal/`.

## 1. The system

| Component | Code | State it keeps | Operations |
|---|---|---|---|
| Metadata store | `master/metadata.go` | files (size, list of handles), handle counter, chunk table (path, primary, replicas), table of live ChunkServers | one method per operation, each under one mutex |
| Master process | `cmd/master/main.go` | `metadata.json` | load at start, save at an orderly stop |
| RPC handlers | `master/server.go` | none of their own | each calls several store methods and releases the mutex between them |
| Replication manager | `master/replication.go` | none of its own | per round: find short chunks, copy, record |
| Lease manager | `master/lease.go` | none of its own | per round: replace dead primaries |
| ChunkServer | `chunkserver/server.go` | address of the Master | write, read, delete, truncate, forward, copy a chunk; heartbeat, register |
| Storage | `chunkserver/storage.go` | a file per chunk, a map of their sizes | write, read, delete, truncate under one mutex; load at start |
| Client library | `client/client.go` | connections | read, write, append, delete range, truncate, insert, over several chunks at once |
| Command lines, configuration, protobuf | `cmd/`, `config/`, `pb/` | none | none modelled |

How they interact: a client asks the Master for a plan (handles and locations) and
then talks to the ChunkServers itself. A write goes to the chunk's primary, which
writes, forwards to the replicas one after the other, and *reports* the growth of
the chunk to the Master; the file's size is the sum of such reports. ChunkServers
send heartbeats with the handles they store; one goroutine of the Master looks for
servers that stopped, repairs the chunks they reported, then replaces primaries.

What is hard here:

* **Interleaving.** A handler of the Master is several critical sections; a
  ChunkServer measures, writes and measures again in three of them and holds no lock
  while it forwards. Two handlers may place the same chunk, and a client may be given a
  chunk that is placed half-way. Two calls on one chunk overlap in all these places.
* **Stale plans.** Locations, handles and append offsets are used long after the
  Master's lock was released; reports may come late, twice, or about a chunk whose
  file is gone.
* **Partial failure.** A write has touched some copies when a forward fails; the
  cleanup removes a whole copy. A repair has copied when its answer is lost.
* **Crashes.** The Master saves only at an orderly stop; ChunkServers come back with
  the files they had, and register and send heartbeats at the same time.
* **One detector.** Repairs and failovers are attempted once, for the chunks in the
  last heartbeat of the dead server.

What makes each part correct: *store*: a handle is one chunk, once, of one file, in
order, and reports reach the right file; *write path*: acknowledged bytes are on all
copies, copies agree, sizes count what is stored; *replication*: listed servers have
the chunk, the list has no doubles, a death leads back to three copies and a live
primary; *storage*: the map and the files agree whatever fails; *client operations*:
together they behave as one file of bytes.

`PROJECT.json` lists the components with their status and the hazards with the line
where each bites.

## 2. Modules

| Module | Models | Runs |
|---|---|---|
| `HandleLifecycle` | abstract: the life of a handle (unborn, in one file, dead for good) | as a property of `MetadataStore` |
| `MetadataStore` | the store's methods, one action each, and the orderly restart | `MetadataStore`, `MetadataRestart` |
| `MetadataCrash` | the store with `metadata.json` and crashes | `MetadataCrashReissue` |
| `MasterServer` | the handlers of the Master step by step, over `MetadataStore` | `MasterServer` |
| `ChunkWrite` | concurrent `WriteChunk` calls on one chunk, step by step, under a primary that may be its own replica | `ChunkWrite`, `ChunkWriteOrder` |
| `Replication` | membership, failure detector, repairs, failover, and the placing and writing of chunks by several handlers | `Replication`, `ReplicationLiveness`, `ReplicationPromotion` |
| `ChunkStorage` | one ChunkServer's chunk files, the map of their sizes, and the handlers that use both | `ChunkStorage` |
| `Bytes` | what a write, a truncation and a read do to the bytes of a file | through `FileOps` |
| `ByteFile` | abstract: a file is a sequence of bytes, and what each call of the client does to it | as a property of `FileOps` |
| `FileOps` | the client's eight calls on one file, chunk by chunk, with the Master's planners | `FileOps`, `FileDeleteRange` |
| `*Proofs` | the theorems about the module of that name | |
| `BytesLemmas` | lemmas about `Bytes` and about the sequence operators `FileOps` uses | |
| `CountingLemmas` | lemmas that count by sets of pairs, for the proofs about sums | |
| `MC*` | constants and permutations for TLC | |

### MetadataStore

`files`, `chunkid` and `chunkLocations` are the fields of `MetadataStore`; an entry of
the chunk table is reduced to the path in its handle, because that path is what a
report is addressed with. `issued` is the set of handles in locations the Master has
given out: any client or ChunkServer may send any of them back at any later time, so
`UpdateMasterMetadata` takes its handle from there and its size from every difference
of two chunk sizes modulo the word. That covers late, repeated and reordered reports,
and more sizes than the ChunkServers really produce. `GrowTo` is the allocation loop
`WriteFile` and `AppendFile` share. `Restart` is `Save` followed by `Load`; the JSON
encoder skips the unexported `path`, so every path becomes `""`.

`HandleLifecycle` says what a client relies on: a handle is never given out twice and
never moves. `LifecycleSpec` is that specification under the mapping from a handle to
the file that lists it.

`MetadataCrash` adds what the disk holds. A crash restores the last save, while
`issued` stays: ChunkServers and clients remember.

### MasterServer

Extends `MetadataStore`: its handlers call the store's actions and keep, in `call`, what
a handler has in its local variables between two critical sections: where it stands
(`pc`), the chunks it has still to locate (`todo`) and the chosen servers it has still
to enter (`servers`). A `Handler` is a goroutine that serves one call after another, so
the number of handlers is the number of calls under way at once. `Lookup` is
`GetChunkMetadata` and the test of `chunk.Primary`, `Choose` is `AllocateChunkServer(3)`
(a Go map, so any three servers), `Place` one `SetChunkPrimary` or `SetChunkReplica`, and
`Locate` the end of `GetChunkLocations`. The code reads the entry outside the mutex;
`Locate` reads it in one step, and `LocateTorn` is the harmful outcome of that race: the
length of `Replicas` is new and its last element is not there yet. Errors the handlers
ignore (a chunk that is gone, fewer than three servers) are nil dereferences: `Panic`,
after which the Master is not there and the run ends, which is why deadlock is not
checked in this run. `replicas` is a set here; the list, in
which two handlers can enter a server twice, is in `Replication`, as are repairs and
failovers.

### ChunkWrite

Each call goes through the steps of `WriteChunk`: measure, write on the primary,
measure again, forward to each replica in the order of the list, report. A byte of
the chunk is the number of the call that wrote it last, so a copy is a sequence of
calls and holes. Faults, each counted by `faults` up to `MaxFaults`: a storage error on the primary, a
forward that is not executed, executed with its answer lost, or executed later
(`LateForward`), each followed by `cleanupReplica`; a report that fails; a crash of
the primary. A call that failed can be made again by its client, as another
`Writer` with the same extent.

`Replicas` is the list as the Master gives it out, unfiltered: it may name the primary
itself, when that was promoted (`lease.go` leaves it there), and a server twice. Such a
primary forwards to itself, and removes its own copy when that call fails.

### Replication

Copies are present or absent (`disk`). `phase`, `hit`, `todo` and `job` are the program
counter of the detector's goroutine in `StartFailureDetector`: chunks to repair, the
copy being waited for, then chunks whose primary is looked at. The maps are Go maps,
so the order of chunks and the choice of a destination are nondeterministic.

`call[k]` is a client's write from its plan to its answer, one step per critical section
or call. In the Master: `Lookup` (is there a primary?), `Choose` (`AllocateChunkServer`),
`SetPrimary`, `SetReplica` twice, then `Locate` and `ListReplicas`, which read the
primary and the list for the location. In the primary: `WritePrimary`, a `Forward` to
each server of that location, `Acknowledge`. Any of these can find its server down, or
fail otherwise as a counted fault (`WriteFails`, `ForwardFails`, `AnswerFails`); a failed
forward leads to `Cleanup` or `CleanupFails`, a call of its own, so that a server can be
down for the forward and back for the cleanup. Nothing keeps two handlers from the same
chunk, and nothing waits for a handler that is placing it.

`early` and `cleaned` are history: the chunks somebody looked up while another handler
was placing them, and the copies removed by a cleanup. The properties need both, because
both happen in the code without any call failing between live servers: an early chunk can be
acknowledged by its primary alone and be listed afterwards on servers that never got it,
or list a server twice.

`Crash` and `Restart` keep the
disk; a restarted server has a registration under way beside its heartbeats. `Expire`
stands for fifteen seconds without a heartbeat, for a dead server, or for a live one
(a counted fault).

### ChunkStorage

`file` is the disk and `chunks` the map `Storage.chunks`; a chunk is its length. A
method of `Storage` is atomic (`Storage.mu`), and each can fail after any of its system
calls: `WriteChunkFails` leaves an empty, a partly or a wholly written file and the map
as it was. A handler is two or three such accesses and a report: `Begin` reads the
size, `Store` or `StoreGoesWrong` changes the file, `Measure` is the second size of a
write, `Report` adds the difference, modulo the word, to `credited`, which is what the
Master has counted for the chunk. The forwards between `Measure` and `Report` are in
`ChunkWrite`; here they may fail (`GiveUp`). `ReadForCopy` is the repair's read, and
`ReplicaCall` a forward, a cleanup or a truncation of a replica. `Restart` ends all
handlers and loads the map from the files. The Master can refuse a report (no such file,
or a path that its restart has lost): its answer is then a `Status` nobody looks at, so
`Report` ends as it does after a report that was counted.

`torn` and `spoiled` are history. A chunk is torn from a failed system call to the next
method that goes well on it. It is spoiled once its size changed without a report that was counted: a
report was lost or refused, a call that does not report came in between (a promoted primary also
gets the calls for replicas), or a handler's size was overtaken by another handler.

### Bytes, ByteFile and FileOps

`FileOps` is one file and the clients that work on it. A chunk is the bytes its primary
keeps (`data`), and whether some replica has a file of it (`copies`); what is in the copies is
left to `ChunkWrite`, and placing and
looking up servers to `MasterServer`, so a chunk is `located` or not. What a
call keeps in its local variables is the record `job[c]`: its place (`pc`), what it has
to read and has read, the chunks to remove, the replacement chunks and their bytes, the
`WriteChunk` calls to make. `AfterReads`, `AfterRemoval`, `AfterAllocation` and
`AfterStores` say what a call goes on with when a part of it is done. `Read`, `Write`
and `Append` have all their goroutines' calls under way at once, in any order; the
others go one after the other.

One step is: a plan of the Master (`Plan...`), the taking of a file's list (`OpenFile`)
and what the client makes of it (`OpenFor...`), a location and the read of a
chunk (`ReadChunk`), the removal of a chunk from its replicas (`RemoveReplicas`, which skips one
that fails) and from its primary with its report (`RemoveChunk`), one
allocation, one write with its report (`StoreOne`, `Rewrite`), a truncation (`Cut`), the
final `DeleteFile` (`Forget`). A fault is a call that does not arrive (`NoAnswer`), whose
answer is lost (`GoesOr`), whose report fails (`RemoveUnreported`, the second case of
`Change`) or whose forward fails. `MasterPanics` is an index or a slice length out of
range in `RangeDeleteFile` and `InsertFile`, which ends the Master; that, and a client
with nothing it may call any more, is why deadlock is not checked in these runs.

`OpenFile` returns the file's own slice, and its handler goes through it without the
lock while other handlers remove and shift elements in place. Between `OpenFile` and
`OpenFor...` a place of the list therefore has every handle it has held since (`Shifted`),
and the client is given any combination of them (`Lists`): a list may name a chunk twice
and leave another out. `PlanInsert` has what `InsertFile` does with a location it cannot
get: it ignores the error, and the client takes the answer for the end of the file.

Which new handle a chunk gets makes no difference to `FileOps`, which only compares
handles (`Fresh` is some sequence of handles that nothing holds). Handles that are not
held anywhere are therefore used again, and the `VIEW` of
`MCFileOps` names handles in the order of their first use, so that states that differ
in the names of handles only are one. That issued handles are new is `HandlesUnique`
of `MetadataStore`.

`ByteFile` is what the only writer of a file can rely on. `Succeed` is the result of
each call on a sequence of bytes; `Refuse` and `Panic` are the answers to requests out
of range and to a truncation that changes nothing or leaves nothing; `Misplace` is the
insert whose place could not be located, which appends and succeeds; `Fail` says which
bytes a call that ended with an error has left alone, and needs a failed call between
processes. `ByteFileSpec` maps a state of `FileOps` to it: between calls to the bytes of
the chunks in the order of the list, during a call to what they were before it. The
promise is only made while the layout is *sound*: every chunk but the last is full,
and the Master's size is right. Two calls that succeed leave it unsound: a write that
starts in a chunk after the one where the file ends (`Skips`), and a `DeleteRange` of a
length that is no multiple of the chunk size and that does not reach the last chunk
(`Shortens`). So do failed calls. Nothing is promised of the file from then on, and
`FileDeleteRange` shows what happens after the second kind.

## 3. What the runs show

| Run | What is checked | What it shows |
|---|---|---|
| `MetadataStore` | `HandlesUnique`, `ListedHandlesLocated`, `ReportsReachOwnFile`, `SurvivorsKeepOrder`, `LifecycleSpec`, `TypeOK` | with late, repeated and reordered reports and orderly restarts, a handle is at one place at most, is in the chunk table while listed, is reported to its own file only, chunks keep their order, and the store implements `HandleLifecycle` |
| `MasterServer` | `PlacedOnThree`, `ServerTypeOK` | two handlers that place the same chunk, servers that come and go and reports in between leave a placed chunk with three servers at least |
| `ChunkWrite` | `AckedOnEveryReplica`, `DisjointWritesConverge`, `MasterCountsEveryByte`, `PrimaryIsSource`, `LossHasACause`, `TypeOK` | under a promoted primary, still among its replicas: until something fails (`faults = 0`), acknowledged bytes are on all copies, the copies agree wherever only one call wrote, and every byte is counted; with up to two failures, bytes a replica has lost were removed by a call that failed in that replica's round, and the primary has every byte any replica has unless a forward to itself failed |
| `Replication` | `ListedServersHold`, `ReplicasDistinct`, `RepairedHasChunk`, `TypeOK` | a placement and writes step by step, a death with returns, repairs and failovers, and a call that goes wrong: every listed server of an acknowledged chunk has the file or lost it to a cleanup; a repair never lists a server twice and never one without the file |
| `ReplicationLiveness` | `DetectorKeepsRunning`, `FirstFailureRepaired`, `FailoverHappens` | under fair tickers every round ends, the first death leads back to three copies (or a write that met it has cleaned up), a dead primary is replaced |
| `ChunkStorage` | `HeartbeatNamesFiles`, `MapFollowsFile`, `ReportsAddUp`, `CopiesWhole`, `TypeOK` | whatever system call fails and whenever the server restarts, a heartbeat names no chunk without a file, the map and the files agree on every chunk that is not torn, what the Master has counted for a chunk that is not spoiled is its size, also where it refuses reports, and a repair sends the whole of a chunk that is not torn unless another call came in between |
| `FileOps` | `ByteFileSpec`, `ReadsFollowTheList`, `NoOrphans`, `MasterSurvives`, `TypeOK` | every call of the client does what `ByteFile` says, with one failed call anywhere in it; a read that is answered, though its list was changed while it was read, has the file's length and returns bytes each of which its chunk, in that list, has held at that place; no primary has a chunk that the file does not list, and no replica unless its deletion failed; the chunks a planner computes from the size are in the list, unless the file is empty or its layout unsound |

Each property has a mutant in `PROJECT.json`: a definition changed the way a plausible
bug would change the code, with which TLC finds the property violated.

### Bounds and why they are enough

* `MetadataStore`: two files and handles 2 to 4 (three chunks), chunks of 2 bytes, words
  of 4: files of 0 to 3 chunks, allocation at each position, two files with chunks at
  the same time, removal at the front, in the middle and at the end, and sizes that
  wrap. `MaxHandle` bounds how many handles are issued, `MaxLen` the end of a write.
* `MasterServer`: one file of up to two chunks of one byte, three servers, two handlers:
  two handlers can be in each pair of steps of the same chunk, or one can be a chunk
  ahead, and a chunk can be removed and another placed under them.
* `ChunkWrite`: three calls, two of them overlapping, on a chunk of a few bytes: two
  calls can be in each pair of steps at once while a third has finished. Two faults
  allow a cleanup to meet a late forward of another call. The list is a replica, the
  primary itself and another replica, so that something lies before and behind the
  forward to itself. `ChunkWriteOrder` has a primary that is not in its list.
* `Replication`: four servers, one chunk: three copies and one spare, the least with
  which a repair can succeed. Chunks share no state but the detector's loop. One client,
  whose writes follow each other, one death and one fault in any order: a promotion, a repair
  and a cleanup can meet in one write. A second client makes the states too many to finish
  (`MaxEarly`, the number of chunks looked up while being placed, is therefore 0 here): for several
  clients, several deaths and early chunks of others, the four properties are proved (section 5).
  Servers are interchangeable (symmetry), except in the run with liveness properties. That one
  has no fault, and starts in a state that `Init` leads to, with the chunk placed and written
  on three servers and reported by none (`PlacedInit`).
* `ChunkStorage`: one chunk, as chunks share nothing but the lock, two handlers and any
  number of calls for replicas, sizes 0 to 2 (`MaxSize`): a partial write, a whole one
  and a truncation between. The word is 4, so that differences wrap.
* `FileOps`: chunks of two bytes, the least with a middle of a chunk, and calls made for
  files of up to 4 bytes (`MaxLen`), that is two full chunks, and three while one is
  inserted; data of two bytes at every offset, so that a write fills a chunk or crosses into
  the next, and cuts that leave one byte. One failed call (`MaxFaults`). A read
  starts before or during a call of the writer and runs to its end beside it; with
  `MaxOverlap` 0 no further call starts while it reads. On a
  file with an unsound layout only `read`, `append` and `delete` are called (`Salvage`):
  `ByteFile` promises nothing of it, and its states are many.
* `MaxCrash` and `MaxFault` (`MaxFaults` in `ChunkWrite`) count failures; a restarted server is not counted.

### Fairness

Only `Replication` has liveness properties. `FairSpec` assumes that the detector's
goroutine keeps taking steps (its ticker fires and the calls it makes return, which
gRPC does not guarantee for a server that hangs), that each live server's heartbeat
ticker fires, that a started server registers (its `main` exits otherwise), and that
fifteen seconds pass for a dead one. Nothing is assumed of clients, handlers, deaths or returns.
`PlacedSpec` is the same with `PlacedInit` for `Init`.

## 4. What the code does not do

Each of these runs checks one statement of a comment or of the repository's README
and finds a behaviour of the code against it (`PROJECT.json` "findings" has the lines):

| Run | Statement | What the code does |
|---|---|---|
| `MetadataRestart` | "This allows filesystem metadata to survive Master restarts" | the path in a `ChunkHandle` is not saved, so no chunk can be reported on after a restart |
| `MetadataCrashReissue` | "Each chunk has a unique handle" | after a crash the counter is old and handles are issued again |
| `ChunkWriteOrder` | "Replication within an individual chunk remains coordinated through its primary" | no lock is held while forwarding, so two writes reach the primary and a replica in different orders |
| `ReplicationPromotion` | "We cannot make a server primary if it doesn't have the chunk" | a replica whose copy was removed by a cleanup is still listed and is promoted |
| `FileDeleteRange` | "After the reads complete, the Client reconstructs the requested byte range in the correct file order" | a range deleted inside a file leaves a short chunk in the middle; every later read addresses chunks by `i * ChunkSize` and fails with a size mismatch |

Met while modelling, and not made a run: of two handlers that found a chunk without a
primary, the second replaces the primary already given out; after a second failover the
list still names the first promoted, now failed, server, and every forward to it fails; an
`Append` after such a `DeleteRange` writes over bytes of another chunk; two clients that append
at once may be given the same offset; a `Truncate` to nothing or to the present size does
its work and then ends the client; an `Insert` for whose first chunk the Master has no location, because its
primary is dead (`master/server.go:929`, `client.go:1074`), appends and answers with success; a `DeleteRange` on an empty file ends the Master; a chunk that was planned and
never stored cannot be deleted, and with it its file; a primary that was promoted loses
its copy first when its chunk is deleted, and then reports no deletion; a rewrite that
fails half-way loses the bytes from its first chunk on; two overlapping writes are both counted in the
file's size; a call that failed and is made again is acknowledged with its bytes never
counted; a failed forward's cleanup removes acknowledged bytes of other calls; a promoted
replica is counted as two copies; a repair that could not be done when a server was
found dead is not tried again; a chunk placed on a server after its last heartbeat is
not looked at when the server dies; a write plan with fewer than three servers, or with
a chunk deleted meanwhile, ends the Master. A chunk that a client looks up
between `SetChunkPrimary` and `SetChunkReplica` (`master/server.go:341`, `354`, `368`) is
written to the servers entered so far, acknowledged, and then listed on servers without
it; two handlers that place a chunk can list a server twice, which counts as two copies. A
promoted primary stays in `Replicas` (`lease.go`), which is passed on unfiltered
(`master/server.go:1005`, `client.go:506`): it forwards to itself and, when that call
fails, removes its own copy (`chunkserver/server.go:131`, `149`), which the comment at
`chunkserver/server.go:100-101` calls the source of truth. A list read while it is changed in place
can make a read return a chunk twice. A replica that cannot be reached while its
chunk is deleted is skipped (`client.go:1474`) and keeps a file nobody can name. A report
the Master refuses (`metadata.go:357`) is answered to the client as success
(`chunkserver/server.go:179`). The properties above are stated with these
in mind: where they say "until something fails", or leave something out, it is because of them.

## 5. What is proved

TLAPS proves for every value of the constants what TLC shows on the instances.

| Module | Theorems |
|---|---|
| `MetadataStoreProofs` | `StoreInvariant`, `TypeCorrect`, `HandlesAreUnique`, `ListedHandlesAreLocated`, `ReportsReachTheirFile`, `ChunksKeepTheirOrder`, `StoreImplementsLifecycle` |
| `MasterServerProofs` | `HandlersUseStore`, `ServerTypeCorrect`, `PlacedChunksHaveThree` |
| `ChunkWriteProofs` | `TypeCorrect`, `PrimaryStaysSource`, `LossAlwaysHasACause`, `AckedIsReplicated`, `WritesConverge`, `GrowthIsCounted` |
| `ChunkStorageProofs` | `StorageInvariant`, `TypeCorrect`, `HeartbeatsNameFiles`, `MapFollowsTheFile`, `ReportsMakeUpSizes`, `RepairsCopyWhole` |
| `ReplicationProofs` | `TypeCorrect`, `RepairInvariant`, `ReplicasStayDistinct`, `RepairsAddHolders`, `ListedServersKeepFile` |
| `FileOpsProofs` | `TypeCorrect`, `PlansStayInRange`, `NoChunkIsOrphaned`, `ReadsReturnListedBytes` |

The arguments:

* **MetadataStore.** `HandlesUnique` is not inductive: nothing in it says a *new*
  handle is not in use. The invariant adds that every listed and every issued handle is at most
  `chunkid`, that a file's handles are distinct and have table entries with the
  file's path or none, and that an issued handle's path agrees with the file that
  lists it. The refinement follows from uniqueness and the counter: a step either
  makes handles above the old counter live, kills handles, or leaves owners alone.
  `SurvivorsKeepOrder` is about pairs of places: as handles are unique, a handle that
  survives a step has one place before and one after, and each operation on the list
  (appending, inserting at one place, removing one element, cutting the end) moves
  places without letting one pass another.
* **MasterServer.** `HandlersUseStore` shows that a handler's step is a step of the store or
  leaves it alone, so the store's theorems hold of the running Master. `PlacedOnThree` is not
  inductive, because handlers overwrite the primary. The invariant (`PlacementInv`) says
  that the *last* handler to set the primary chose two more servers, different from it
  and from each other, and that they are in the list or that handler is still to enter
  them; other handlers only ever add servers. It also needs that a handle not issued
  yet has no servers.
* **ChunkWrite.** The invariant relates each copy to the primary's: a position that is
  written on a replica is written on the primary, and a call past its i-th forward
  has its bytes on the first i replicas unless a call that failed in that round
  removed them. The list may contain the primary and have doubles; what is said of the primary
  holds as long as no call has failed in a round for the primary itself (`FailedFor(Primary)`). For `DisjointWritesConverge` the two copies are compared at one position,
  where one call alone writes: until something fails a position of a copy holds a call that
  writes there and has come past that copy, so the two hold the same. `MasterCountsEveryByte`
  compares a number with a length that many calls made. The proof counts pairs: what a
  call has reported, or has measured and not reported yet, is the interval of the chunk
  by which it grew, the pairs of a call and a position in its interval are mapped one to one
  to the chunk's positions and back (`CountingLemmas`), and no sum over the calls is needed.
* **Replication.** `IInv` speaks of the chunks that are not early, one by one (`Sound`), as no
  step but those of the detector touches two. Until its handler is done with placing a chunk, that
  handler is alone with it, nobody has a file or a report of it, and the servers still to be
  entered are not in the list (`PlacementSound`); this is what a second lookup breaks. From then on
  a write has, in what is left of its list, every listed server that has no file and
  had none removed (`CallsSound`): a server entered by a repair after the list was taken has
  the file already. The destination of the copy under way is not listed (`JobSound`), so no
  failed write can clean it up before it is entered. Nothing is assumed of `faults` or of deaths.
* **ChunkStorage.** `StoresEffect` and `StoreFailsEffect` say what a method of `Storage` does to its
  own chunk, and that the other chunks keep their file and their entry. The invariant adds
  to the three properties that a handler that is between its two accesses and was not
  overtaken holds the size that is in the map (`OldIsCurrent`): that, and the agreement of map and
  file, is why a repair that reads by that size reads the whole file. `ReportsAddUp` is about
  all handlers of a chunk at once, several of which may still have growth to report. Its invariant
  (`Balanced`) is that what is credited and what is pending make up the size modulo the word,
  the pending growth again counted by pairs of a handler and an index. A report that is lost or
  refused takes its handler's pairs away and spoils the chunk when there were any.
* **FileOps.** Three inductive invariants. `TInv` says what each call has at each place: a
  piece of a write is not empty and ends inside its chunk (`PieceBounds`), a call that
  removes has something to remove, the replacement chunks take all the bytes. It makes
  `TypeOK` hold, the bound of `ChunkSize` on every chunk above all. `MasterSurvives` follows
  from it with one fact about sizes: all chunks of a sound file but the last are full, so
  `size` lies between n-1 and n chunks, and an offset below it has its chunk in the list.
  `OInv`, for `NoOrphans`, says that what the writing call has yet to write is listed
  already, that the replacement chunks it has are listed, and that a `Delete` holds exactly
  the list, which no other client can have torn: a handle leaves the list only with its chunk, and,
  until the first failed call, after its replicas' copies. `RInv`, for
  `ReadsFollowTheList`, says that each read under way allows what its chunks hold now and
  what it has got, at every place of the list it was given. A write or a cut adds what it leaves to every read
  that wants the chunk; a removed chunk has nothing more to give. An answer as long
  as the file can only be made of parts that are full but the last (`FlattenTight`), and then
  the byte at a place of the answer is the one at that place of its chunk (`FlattenIndex`).
* **BytesLemmas.** What `Overlay`, `Resize`, `Slice` and `Spliced` return; a byte of a file is found by
  its offset. `FlattenSeq` is a recursive function: its values are taken as a chain of joins
  (`Joins`), along which the facts are shown by induction over a *set* of numbers
  (`Induction`, itself proved by counting), as the provers cannot use a rule with an operator.

The assumptions are those on the constants, named in the modules (`MetadataAssumption`,
`ServerAssumption`, `ReplicationAssumption`, `FileOpsAssumption`, ...), and TLC evaluates them. One
theorem assumes more: `NoChunkIsOrphaned` is about a file that only one client changes
(`OneWriter`). Clients take no lock on a path, and a second writer may allocate a chunk that the
first one's `DeleteFile` then drops from the list. The instance satisfies it
(`OneWriterAssumption`). The other theorems about `FileOps` hold for any number of writers.

Only model-checked: everything about liveness (outside the prover's reach), the
violations, the crash model, and the refinement of `ByteFile`: its steps compare the bytes of the
whole file before and after a call of many steps, which needs an invariant for each of the eight
calls that says what has been moved so far.

## 6. What is not modelled, and the plan

In this order:

1. A composition of `ChunkStorage`, `ChunkWrite` and `Replication`: which bytes a repaired or
   promoted copy has when writes go on during the repair.
2. Several writers of one file. `FileOps` allows more clients, but `ByteFile` speaks of one
   writer, and the code promises nothing to two.

Theorems worth adding: that `FileOps` implements `ByteFile`, call by call (the lemmas about `Bytes`
and the three invariants are what it rests on); that `MetadataCrash` keeps the store's theorems
until the first crash.

Left out of the modules: the 0 that `AllocateChunk` has at the end of a list for a moment (a reader
that catches it fails, as no chunk is found under it), a server that stays up and never answers,
and a disk that loses what was synced.

Not to be modelled: the command lines and generated code (no state of their own), the
build script, the wording of messages, and the configuration beyond the chunk size.
