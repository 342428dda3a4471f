------------------------------ MODULE FileOps ------------------------------
(***************************************************************************)
(* The client library (internal/client/client.go) at work on one file: each *)
(* call asks the Master for a plan (master/server.go and metadata.go) and  *)
(* carries it out chunk by chunk, reading, removing, allocating, writing   *)
(* and cutting, with other clients in between.                             *)
(*                                                                          *)
(* A plan is one step here (MasterServer has its insides), a chunk is what *)
(* its primary keeps (ChunkWrite has the copies), and new handles are new  *)
(* (MetadataStore).  A handle nobody holds any more is used again, to keep *)
(* the states few.                                                         *)
(***************************************************************************)
EXTENDS Bytes, FiniteSets, SequencesExt

CONSTANTS
  Client,
  Writer,     \* the client whose calls ByteFile describes
  Does,       \* client -> names of the calls it makes
  Data,       \* what a call writes
  NoFile, Nothing,
  Word,       \* uint64 arithmetic is modulo Word
  MaxLen,     \* bound: the longest file a call is made for
  MaxOverlap, \* bound: calls that start while a read is under way
  Salvage,    \* bound: names of the calls made on a file with an unsound layout
  MaxFaults   \* bound: calls between processes that fail

ASSUME FileOpsAssumption ==
  /\ IsFiniteSet(Client) /\ Writer \in Client
  /\ MaxLen \in Nat /\ MaxOverlap \in Nat /\ MaxFaults \in Nat
  /\ Word \in Nat /\ Word > MaxLen
  /\ << >> \notin Data /\ Data \subseteq Seq(UNION {ToSet(d) : d \in Data})

VARIABLES
  running,  \* the Master is
  exists,   \* the path has a file
  handles,  \* FileMetadata.ChunkHandles
  size,     \* FileMetadata.SizeBytes
  located,  \* handles with a primary in the chunk table
  data,     \* handle -> the bytes of its file on the primary
  copies,   \* handles that some replica has a file of
  job,      \* client -> its call under way
  faults

vars == <<running, exists, handles, size, located, data, copies, job, faults>>

file == <<exists, handles, size, located, data, copies>>

Request(op, off, n, bytes) == [op |-> op, off |-> off, n |-> n, bytes |-> bytes]

Requests(c) ==
  LET Offset == 0 .. MaxLen IN
    {Request(op, 0, 0, << >>) : op \in Does[c] \cap {"create", "delete", "read"}}
    \cup {Request(op, off, 0, d) : op \in Does[c] \cap {"write", "insert"}, off \in Offset, d \in Data}
    \cup {Request(op, 0, 0, d) : op \in Does[c] \cap {"append"}, d \in Data}
    \cup {Request(op, off, n, << >>) :
            op \in Does[c] \cap {"deleteRange"}, off \in Offset, n \in Offset \ {0}}
    \cup {Request(op, 0, n, << >>) : op \in Does[c] \cap {"truncate"}, n \in Offset}

\* The local variables of a call.  before and may are history.
Idle == [
  pc     |-> "idle",
  req    |-> Nothing,
  answer |-> "none",
  list   |-> << >>,   \* place in the opened list -> handles that are found there
  reads  |-> << >>,   \* what to read: handle, offset, length
  got    |-> << >>,   \* index of a read -> its bytes
  old    |-> << >>,   \* handles of the chunks to remove
  gone   |-> FALSE,   \* the replicas of the first of them have been asked
  at     |-> 0,       \* where the replacement chunks go
  new    |-> << >>,   \* handles of the replacement chunks
  buffer |-> << >>,   \* their bytes
  calls  |-> << >>,   \* WriteChunk calls to make: handle, offset, bytes
  failed |-> FALSE,   \* firstErr # nil
  cut    |-> << >>,   \* the chunk to truncate and its size
  size   |-> 0,       \* FileInfo.Size
  met    |-> 0,       \* for a bound: calls that started while this one reads
  before |-> << >>,   \* the file before the writer's call
  may    |-> << >> ]  \* place in what a read returns -> bytes it may return there

-----------------------------------------------------------------------------
Holds(h) == h \in DOMAIN data

Chunk(h) == IF Holds(h) THEN data[h] ELSE << >>

BytesOf(hs) == FlattenSeq([i \in DOMAIN hs |-> Chunk(hs[i])])

Content == IF exists THEN BytesOf(handles) ELSE NoFile

\* Every chunk but the last is full, and the Master knows the size.
Compact ==
  /\ \A i \in DOMAIN handles :
       /\ Holds(handles[i])
       /\ IF i < Len(handles) THEN Len(data[handles[i]]) = ChunkSize
                              ELSE Len(data[handles[i]]) \in 1 .. ChunkSize
  /\ size = Len(BytesOf(handles))

State == [content |-> Content, sound |-> Compact]

HandlesOf(j) ==
  (UNION ToSet(j.list)) \cup {j.reads[i].h : i \in DOMAIN j.reads} \cup ToSet(j.old) \cup ToSet(j.new)
    \cup {j.calls[i].h : i \in DOMAIN j.calls} \cup {j.cut[i].h : i \in DOMAIN j.cut}

InUse ==
  ToSet(handles) \cup located \cup DOMAIN data \cup copies \cup UNION {HandlesOf(job[c]) : c \in Client}

\* AllocateChunk: k handles nobody has.
Fresh(k) == CHOOSE hs \in [1 .. k -> (1 .. Cardinality(InUse) + k) \ InUse] : IsInjective(hs)

At(c, pc) == running /\ job[c].pc = pc

\* What the writer's call returns is kept.
Ended(j, reply) == [Idle EXCEPT !.answer = IF j.before = << >> THEN @ ELSE reply]

\* c goes on as j, or does not get the answer and goes on as k.
GoesOr(jobs, c, j, k) ==
  \/ job' = [jobs EXCEPT ![c] = j] /\ UNCHANGED faults
  \/ /\ faults < MaxFaults /\ faults' = faults + 1
     /\ job' = [jobs EXCEPT ![c] = k]

Goes(c, j) == GoesOr(job, c, j, Ended(job[c], "error"))

\* The Master has changed the list in place, to hs, and OpenFile goes through the same
\* array without the lock.  (An array that Go had to move is taken for the same; the 0
\* that AllocateChunk first puts at the end is left out: no chunk is found under it.)
Shifted(hs) ==
  [c \in Client |-> [job[c] EXCEPT !.list = [i \in DOMAIN @ |->
     @[i] \cup {hs[k] : k \in {i} \cap DOMAIN hs}]]]

EndsWith(c, reply) ==
  /\ job' = [job EXCEPT ![c] = Ended(@, reply)]
  /\ UNCHANGED <<running, file, faults>>

\* A call that never reaches its server.
NoAnswer(c) ==
  /\ running /\ job[c].pc \notin {"idle", "store"}
  /\ faults < MaxFaults /\ faults' = faults + 1
  /\ job' = [job EXCEPT ![c] = Ended(@, "error")]
  /\ UNCHANGED <<running, file>>

\* The Master indexes or makes a slice out of range, and ends.
MasterPanics(c) ==
  /\ running' = FALSE
  /\ UNCHANGED <<file, job, faults>>

-----------------------------------------------------------------------------
(***************************************************************************)
(* How a call goes from one part to the next.                              *)
(***************************************************************************)
PiecesUncut(off, d, hs) ==  \* mutant: the part of a chunk goes on to the end of d
  [i \in 1 .. ChunkOf(off + Len(d) - 1) - ChunkOf(off) + 1 |->
     LET from == Greater(off, (ChunkOf(off) + i - 1) * ChunkSize)
     IN [h |-> hs[i], off |-> from % ChunkSize, bytes |-> SubSeq(d, from - off + 1, Len(d))]]

Pieces(off, d, hs) ==  \* the part of d that each chunk gets
  [i \in 1 .. ChunkOf(off + Len(d) - 1) - ChunkOf(off) + 1 |->
     LET first == ChunkOf(off) + i - 1
         from == Greater(off, first * ChunkSize)
         to == Smaller(off + Len(d), (first + 1) * ChunkSize)
     IN [h |-> hs[i], off |-> from % ChunkSize, bytes |-> SubSeq(d, from - off + 1, to - off)]]

AfterStores(j) ==
  IF j.calls = << >> THEN Ended(j, IF j.failed THEN "error" ELSE "ok") ELSE j

AfterAllocation(j) ==
  IF j.pc = "allocate" /\ Len(j.new) * ChunkSize >= Len(j.buffer)
    THEN AfterStores([Idle EXCEPT !.pc = "rewrite", !.req = j.req, !.before = j.before,
                                  !.calls = IF j.buffer = << >> THEN << >>
                                            ELSE Pieces(0, j.buffer, j.new)])
    ELSE j

\* Truncate looks at the handle of a chunk to cut before it asks whether there is one.
AfterRemoval(j) ==
  IF j.pc # "remove" \/ j.old # << >> THEN j
  ELSE CASE j.req.op \in {"deleteRange", "insert"} -> AfterAllocation([j EXCEPT !.pc = "allocate"])
         [] j.req.op = "truncate" /\ j.cut # << >> -> [j EXCEPT !.pc = "cut"]
         [] j.req.op = "truncate" /\ j.cut = << >> -> Ended(j, "panic")
         [] j.req.op = "delete" -> [j EXCEPT !.pc = "forget"]

Got(j) == FlattenSeq([i \in DOMAIN j.reads |-> j.got[i]])

AnswerUnchecked(j) == "ok"  \* mutant: the length is not compared with the size

Answer(j) == IF Len(Got(j)) = j.size THEN "ok" ELSE "error"

StartOffset(j) == j.req.off % ChunkSize

AfterReads(j) ==
  LET rebuilt(bytes) == AfterRemoval([j EXCEPT !.pc = "remove", !.reads = << >>, !.got = << >>,
                                               !.buffer = bytes])
  IN CASE DOMAIN j.got # DOMAIN j.reads -> j
       [] DOMAIN j.got = DOMAIN j.reads /\ j.req.op = "read" -> Ended(j, Answer(j))
       [] DOMAIN j.got = DOMAIN j.reads /\ j.req.op = "deleteRange" -> rebuilt(Got(j))
       [] DOMAIN j.got = DOMAIN j.reads /\ j.req.op = "insert" ->
            IF StartOffset(j) > Len(j.got[1]) THEN Ended(j, "error")
            ELSE rebuilt(Spliced(Got(j), StartOffset(j), j.req.bytes))

-----------------------------------------------------------------------------
(***************************************************************************)
(* The call starts, and the Master plans it.                               *)
(***************************************************************************)
Plans(c, op) == At(c, "plan") /\ job[c].req.op = op

Reading(c) == running /\ job[c].pc \in {"list", "read"} /\ job[c].req.op = "read"

Invoke(c, r) ==
  /\ At(c, "idle")
  /\ size <= MaxLen
  /\ (IF r.op = "write" THEN r.off ELSE size) + Len(r.bytes) <= MaxLen
  /\ Compact \/ r.op \in Salvage
  /\ \A d \in Client : Reading(d) => job[d].met < MaxOverlap
  /\ job' = [d \in Client |->
       IF d = c THEN [Idle EXCEPT !.pc = "plan", !.req = r,
                                  !.before = IF c = Writer THEN <<State>> ELSE @]
       ELSE [job[d] EXCEPT !.met = @ + IF Reading(d) THEN 1 ELSE 0]]
  /\ UNCHANGED <<running, file, faults>>

NotFound(c) ==
  /\ running /\ job[c].pc \in {"plan", "open", "append", "forget"}
  /\ ~exists /\ job[c].req.op # "create"
  /\ EndsWith(c, "error")

Create(c) ==
  /\ Plans(c, "create")
  /\ IF exists THEN EndsWith(c, "error")
     ELSE /\ exists' = TRUE /\ handles' = << >> /\ size' = 0
          /\ Goes(c, Ended(job[c], "ok"))
          /\ UNCHANGED <<running, located, data, copies>>

\* WriteFile and AppendFile: the list grows to the last chunk, and the chunks of the
\* write are placed.
PlanStores(c, off) ==
  LET d == job[c].req.bytes
      last == ChunkOf(off + Len(d) - 1)
      hs == handles \o Fresh(Greater(0, last + 1 - Len(handles)))
      mine == SubSeq(hs, ChunkOf(off) + 1, last + 1)
  IN /\ exists
     /\ handles' = hs
     /\ located' = located \cup ToSet(mine)
     /\ GoesOr(Shifted(hs), c, [job[c] EXCEPT !.pc = "store", !.calls = Pieces(off, d, mine)],
               Ended(job[c], "error"))
     /\ UNCHANGED <<running, exists, size, data, copies>>

PlanWrite(c) == Plans(c, "write") /\ PlanStores(c, job[c].req.off)

PlanAppend(c) == (Plans(c, "append") \/ At(c, "append")) /\ PlanStores(c, size)

\* RangeDeleteFile and TruncateFile locate every chunk they name.
AllLocated(hs) == ToSet(hs) \subseteq located

\* What is left of the affected chunks: the front of the first, the rest of the last.
AroundRange(range, off, end) ==
  LET prefix == [h |-> Head(range), off |-> 0, n |-> off % ChunkSize]
      suffix == [h |-> Last(range), off |-> ((end - 1) % ChunkSize) + 1, n |-> ChunkSize]
  IN IF prefix.n > 0 THEN <<prefix, suffix>> ELSE <<suffix>>

LastChunkPastEnd(end) == ChunkOf(end)  \* mutant: a range that ends with a chunk reaches the next

LastChunk(end) == ChunkOf(end - 1)   \* of the bytes before end

PlanDeleteRange(c) ==
  LET off == job[c].req.off
      end == off + Smaller(job[c].req.n, size - off)
      first == ChunkOf(off)
      last == LastChunk(end)
      range == SubSeq(handles, first + 1, last + 1)
  IN /\ Plans(c, "deleteRange") /\ exists
     /\ CASE off > size -> EndsWith(c, "error")
          [] off <= size /\ (end = 0 \/ last >= Len(handles)) -> MasterPanics(c)
          [] off <= size /\ end > 0 /\ last < Len(handles) ->
               IF ~AllLocated(handles) THEN EndsWith(c, "error")
               ELSE IF range = << >> THEN EndsWith(c, "ok")
               ELSE /\ job' = [job EXCEPT ![c] =
                         [@ EXCEPT !.pc = "read", !.reads = AroundRange(range, off, end),
                                   !.old = range, !.at = first]]
                    /\ UNCHANGED <<running, file, faults>>

PlanTruncate(c) ==
  LET n == job[c].req.n
      idx == LastChunk(n)
      from == IF n = size THEN Len(handles) ELSE IF n = 0 THEN 0 ELSE idx + 1
      old == SubSeq(handles, from + 1, Len(handles))
      cut == IF n \in {0, size} THEN << >>
             ELSE << [h |-> handles[idx + 1],
                      n |-> IF n % ChunkSize = 0 THEN ChunkSize ELSE n % ChunkSize] >>
  IN /\ Plans(c, "truncate") /\ exists
     /\ IF \/ n > size
           \/ n \notin {0, size} /\ idx >= Len(handles)
           \/ ~AllLocated(old \o [i \in DOMAIN cut |-> cut[i].h])
          THEN EndsWith(c, "error")
          ELSE /\ job' = [job EXCEPT ![c] = AfterRemoval([@ EXCEPT !.pc = "remove",
                                                          !.old = old, !.cut = cut])]
               /\ UNCHANGED <<running, file, faults>>

\* InsertFile answers without a chunk at the end of the file, and for a chunk that has
\* no location, whose error it ignores.
StartChunk(off) ==
  LET h == handles[ChunkOf(off) + 1] IN IF off < size /\ h \in located THEN <<h>> ELSE << >>

\* The client appends when there is no chunk.  GetChunkLocations gives no location
\* for a chunk with a dead primary either.
PlanInsert(c) ==
  LET off == job[c].req.off IN
  /\ Plans(c, "insert") /\ exists
  /\ CASE off > size -> EndsWith(c, "error")
       [] off < size /\ ChunkOf(off) >= Len(handles) -> MasterPanics(c)
       [] off = size \/ (off < size /\ ChunkOf(off) < Len(handles)) ->
            /\ \/ /\ job' = [job EXCEPT ![c] =
                       IF StartChunk(off) = << >> THEN [@ EXCEPT !.pc = "append"]
                       ELSE [@ EXCEPT !.pc = "open", !.old = StartChunk(off)]]
                  /\ UNCHANGED faults
               \/ /\ faults < MaxFaults /\ faults' = faults + 1
                  /\ job' = [job EXCEPT ![c].pc = "append"]
            /\ UNCHANGED <<running, file>>

\* OpenFile takes the size and the list under the lock, and reads the places of the
\* list after it, one by one.
OpenFile(c) ==
  /\ Plans(c, "read") \/ Plans(c, "delete") \/ At(c, "open")
  /\ exists
  /\ job' = [job EXCEPT ![c] = [@ EXCEPT !.pc = "list", !.size = size,
                                        !.list = [i \in DOMAIN handles |-> {handles[i]}]]]
  /\ UNCHANGED <<running, file, faults>>

Lists(c) ==
  LET list == job[c].list
  IN {hs \in [DOMAIN list -> UNION ToSet(list)] : \A i \in DOMAIN list : hs[i] \in list[i]}

Opens(c, op) == At(c, "list") /\ job[c].req.op = op

\* Insert reads and replaces everything from its first chunk on.
OpenForInsert(c, hs) ==
  LET start == Head(job[c].old)
      first == SelectInSeq(hs, LAMBDA h : h = start)
      rest == SubSeq(hs, first, Len(hs))
  IN /\ Opens(c, "insert")
     /\ IF first = 0 THEN EndsWith(c, "error")
        ELSE /\ job' = [job EXCEPT ![c] =
                  [@ EXCEPT !.pc = "read", !.list = << >>, !.old = rest, !.at = first - 1,
                            !.reads = [i \in DOMAIN rest |->
                                         [h |-> rest[i], off |-> 0, n |-> ChunkSize]]]]
             /\ UNCHANGED <<running, file, faults>>

OpenForDelete(c, hs) ==
  /\ Opens(c, "delete")
  /\ job' = [job EXCEPT ![c] = AfterRemoval([@ EXCEPT !.pc = "remove", !.list = << >>, !.old = hs])]
  /\ UNCHANGED <<running, file, faults>>

\* The byte that a read finds at place p of what it returns, if there is one.
ByteAt(hs, p) ==
  LET bytes == Chunk(hs[ChunkOf(p - 1) + 1])
  IN {bytes[k] : k \in {((p - 1) % ChunkSize) + 1} \cap DOMAIN bytes}

OpenForRead(c, hs) ==
  LET n == job[c].size
      reads == [i \in {i \in DOMAIN hs : (i - 1) * ChunkSize < n} |->
                  [h |-> hs[i], off |-> 0, n |-> Smaller(ChunkSize, n - (i - 1) * ChunkSize)]]
  IN /\ Opens(c, "read")
     /\ job' = [job EXCEPT ![c] = AfterReads(
                  [@ EXCEPT !.pc = "read", !.list = << >>, !.reads = reads,
                            !.may = [p \in 1 .. Smaller(n, Len(hs) * ChunkSize) |-> ByteAt(hs, p)]])]
     /\ UNCHANGED <<running, file, faults>>

-----------------------------------------------------------------------------
(***************************************************************************)
(* Its calls to the ChunkServers and the Master.                           *)
(***************************************************************************)
Readable(c, i) == LET h == job[c].reads[i].h IN h \in located /\ Holds(h)

\* c's call with the answer to its read i.
WithRead(c, i) ==
  LET r == job[c].reads[i] IN
  [job[c] EXCEPT !.got = [k \in DOMAIN @ \cup {i} |->
     IF k = i THEN Slice(Chunk(r.h), r.off, r.n) ELSE @[k]]]

\* GetChunkLocations, for a plan without locations, and ReadChunk.  Read asks for all
\* its chunks at once, the others for one after the other.
ReadChunk(c, i) ==
  /\ At(c, "read") /\ i \notin DOMAIN job[c].got
  /\ job[c].req.op # "read" => 1 .. i - 1 \subseteq DOMAIN job[c].got
  /\ IF Readable(c, i)
       THEN /\ job' = [job EXCEPT ![c] = AfterReads(WithRead(c, i))]
            /\ UNCHANGED <<running, file, faults>>
       ELSE EndsWith(c, "error")

WithoutFile(h) == [g \in DOMAIN data \ {h} |-> data[g]]

\* UpdateMasterMetadata for a removed chunk; a path without a file is refused.
ReportRemoved(h, n) ==
  IF exists THEN /\ handles' = RemoveFirst(handles, h)
                 /\ size' = (size - n) % Word
                 /\ located' = located \ {h}
            ELSE UNCHANGED <<handles, size, located>>

\* deleteChunkFromAllReplicas asks the replicas first.  One that does not answer, or
\* cannot remove its file, is skipped.
RemoveReplicas(c) ==
  LET h == Head(job[c].old) IN
  /\ At(c, "remove") /\ ~job[c].gone
  /\ IF h \notin located THEN EndsWith(c, "error")
     ELSE /\ job' = [job EXCEPT ![c].gone = TRUE]
          /\ \/ copies' = copies \ {h} /\ UNCHANGED faults
             \/ faults < MaxFaults /\ faults' = faults + 1 /\ UNCHANGED copies
          /\ UNCHANGED <<running, exists, handles, size, located, data>>

RemoveReportedFirst(c) ==  \* mutant: the Master is told, and then the file cannot be removed
  LET h == Head(job[c].old) IN
  /\ At(c, "remove") /\ job[c].gone /\ Holds(h)
  /\ faults < MaxFaults /\ faults' = faults + 1
  /\ ReportRemoved(h, Len(data[h]))
  /\ job' = [job EXCEPT ![c] = Ended(@, "error")]
  /\ UNCHANGED <<running, exists, data, copies>>

\* After them the primary's file goes and the Master is told.
RemoveChunk(c) ==
  LET h == Head(job[c].old)
      rest == [job[c] EXCEPT !.old = Tail(@), !.gone = FALSE]
  IN /\ At(c, "remove") /\ job[c].gone
     /\ IF ~Holds(h) THEN EndsWith(c, "error")
        ELSE /\ data' = WithoutFile(h)
             /\ ReportRemoved(h, Len(data[h]))
             /\ GoesOr(Shifted(handles'), c, AfterRemoval(rest), Ended(job[c], "error"))
             /\ UNCHANGED <<running, exists, copies>>

\* The ChunkServer cannot tell the Master; or it is a promoted primary, still among the
\* replicas, whose file went with theirs.
RemoveUnreported(c) ==
  LET h == Head(job[c].old) IN
  /\ At(c, "remove") /\ job[c].gone /\ Holds(h)
  /\ faults < MaxFaults /\ faults' = faults + 1
  /\ data' = WithoutFile(h)
  /\ job' = [job EXCEPT ![c] = Ended(@, "error")]
  /\ UNCHANGED <<running, exists, handles, size, located, copies>>

AllocateInPlace(c) ==  \* mutant: every chunk goes where the first one goes
  LET h == Fresh(1)[1] IN
  /\ At(c, "allocate") /\ exists
  /\ IF job[c].at > Len(handles) THEN EndsWith(c, "error")
     ELSE /\ handles' = InsertAt(handles, job[c].at + 1, h)
          /\ located' = located \cup {h}
          /\ Goes(c, AfterAllocation([job[c] EXCEPT !.new = Append(@, h)]))
          /\ UNCHANGED <<running, exists, size, data, copies>>

Allocate(c) ==
  LET idx == job[c].at + Len(job[c].new)
      h == Fresh(1)[1]
  IN /\ At(c, "allocate")
     /\ IF ~exists \/ idx > Len(handles) THEN EndsWith(c, "error")
        ELSE /\ handles' = InsertAt(handles, idx + 1, h)
             /\ located' = located \cup {h}
             /\ GoesOr(Shifted(handles'), c, AfterAllocation([job[c] EXCEPT !.new = Append(@, h)]),
                       Ended(job[c], "error"))
             /\ UNCHANGED <<running, exists, size, data, copies>>

\* Every read under way may now return what chunk h holds.
Noted(h, bytes) ==
  [c \in Client |-> [job[c] EXCEPT !.may = [p \in DOMAIN @ |->
     @[p] \cup {bytes[k] : k \in {k \in DOMAIN bytes :
                    k = ((p - 1) % ChunkSize) + 1 /\ job[c].reads[ChunkOf(p - 1) + 1].h = h}}]]]

WithBytes(h, bytes) == [g \in DOMAIN data \cup {h} |-> IF g = h THEN bytes ELSE data[g]]

\* The primary changes chunk h, has its replicas do so, and reports by how much it has
\* grown; or a forward fails, or the Master cannot be reached, and it answers with
\* an error.  written: the chunk, if a replica without a file makes one.
Change(c, h, bytes, growth, written, j, k) ==
  /\ data' = WithBytes(h, bytes)
  /\ \/ /\ size' = IF exists THEN (size + growth) % Word ELSE size
        /\ copies' = copies \cup written
        /\ GoesOr(Noted(h, bytes), c, j, k)
     \/ /\ faults < MaxFaults /\ faults' = faults + 1
        /\ copies' \in {copies \cup written, copies \ written}
        /\ job' = [Noted(h, bytes) EXCEPT ![c] = k]
        /\ UNCHANGED size
  /\ UNCHANGED <<running, exists, handles, located>>

WriteChunk(c, call, j, k) ==
  LET bytes == Overlay(Chunk(call.h), call.off, call.bytes)
  IN Change(c, call.h, bytes, Len(bytes) - Len(Chunk(call.h)), {call.h}, j, k)

\* Write and Append send all their chunks at once and wait for every answer.
StoreOne(c, i) ==
  LET rest == [job[c] EXCEPT !.calls = RemoveAt(@, i)]
      sour == [rest EXCEPT !.failed = TRUE]
  IN /\ At(c, "store")
     /\ \/ WriteChunk(c, job[c].calls[i], AfterStores(rest), AfterStores(sour))
        \/ /\ faults < MaxFaults /\ faults' = faults + 1
           /\ job' = [job EXCEPT ![c] = AfterStores(sour)]
           /\ UNCHANGED <<running, file>>

\* DeleteRange and Insert write one chunk after the other and stop at the first error.
Rewrite(c) ==
  LET rest == [job[c] EXCEPT !.calls = Tail(@)] IN
  /\ At(c, "rewrite")
  /\ WriteChunk(c, Head(job[c].calls), AfterStores(rest), Ended(rest, "error"))

\* truncateChunkFromAllReplicas.
Cut(c) ==
  LET h == job[c].cut[1].h
      bytes == Resize(Chunk(h), job[c].cut[1].n)
      growth == Len(bytes) - Len(Chunk(h))
  IN /\ At(c, "cut")
     /\ IF Holds(h) THEN Change(c, h, bytes, growth, {}, Ended(job[c], "ok"), Ended(job[c], "error"))
                    ELSE EndsWith(c, "error")

\* DeleteFile, when all chunks are gone.
Forget(c) ==
  /\ At(c, "forget") /\ exists
  /\ exists' = FALSE /\ handles' = << >> /\ size' = 0
  /\ Goes(c, Ended(job[c], "ok"))
  /\ UNCHANGED <<running, located, data, copies>>

-----------------------------------------------------------------------------
Init ==
  /\ running = TRUE
  /\ exists = FALSE
  /\ handles = << >>
  /\ size = 0
  /\ located = {}
  /\ data = << >> /\ copies = {}
  /\ job = [c \in Client |-> Idle]
  /\ faults = 0

Step(c) ==
  \/ \E r \in Requests(c) : Invoke(c, r)
  \/ NotFound(c) \/ NoAnswer(c)
  \/ Create(c) \/ PlanWrite(c) \/ PlanAppend(c) \/ PlanDeleteRange(c) \/ PlanTruncate(c)
  \/ PlanInsert(c) \/ OpenFile(c)
  \/ \E hs \in Lists(c) : OpenForInsert(c, hs) \/ OpenForDelete(c, hs) \/ OpenForRead(c, hs)
  \/ \E i \in DOMAIN job[c].reads : ReadChunk(c, i)
  \/ \E i \in DOMAIN job[c].calls : StoreOne(c, i)
  \/ RemoveReplicas(c) \/ RemoveChunk(c) \/ RemoveUnreported(c) \/ Allocate(c) \/ Rewrite(c) \/ Cut(c) \/ Forget(c)

Next == \E c \in Client : Step(c)

Spec == Init /\ [][Next]_vars

-----------------------------------------------------------------------------
TypeOK ==
  /\ running \in BOOLEAN /\ exists \in BOOLEAN
  /\ handles \in Seq(Nat \ {0})
  /\ size \in 0 .. Word - 1
  /\ located \subseteq Nat \ {0}
  /\ \A h \in DOMAIN data : h \in Nat \ {0} /\ Len(data[h]) \in 1 .. ChunkSize
  /\ copies \subseteq Nat \ {0}
  /\ \A c \in Client : DOMAIN job[c] = DOMAIN Idle
  /\ faults \in 0 .. MaxFaults

\* Clients take no lock on a path: some properties are about a file that only one of
\* them changes.
OneWriter == \A c \in Client \ {Writer} : Does[c] \subseteq {"read"}

\* No failed call, and no operation that stops half-way, leaves a primary with a file
\* of a chunk that is not listed any more, which Delete could not find; and while no
\* call fails no replica has one either.  (A replica that cannot be reached is skipped,
\* and keeps its file, though Delete says that all physical chunks are gone.)
NoOrphans ==
  /\ DOMAIN data \subseteq ToSet(handles)
  /\ faults = 0 => copies \subseteq ToSet(handles)

\* A plan only ends the Master when the file is empty, or when its size and its chunks do
\* not fit together (metadata.go:317-328, 513): the chunks a planner computes from the
\* size are in the list.
MasterSurvives == [][~running' => ~Compact \/ handles = << >>]_vars

\* The call's last answer arrives, and its read succeeds.
Answered(c, i) ==
  /\ ReadChunk(c, i) /\ Readable(c, i)
  /\ job[c].req.op = "read"
  /\ DOMAIN WithRead(c, i).got = DOMAIN job[c].reads
  /\ Answer(WithRead(c, i)) = "ok"

\* A read that is answered returns as many bytes as the file had when it was opened,
\* and at each place one that the chunk for this place, in the list that the client
\* was given, has held there since: though the chunks are read one by one while the
\* writer replaces, cuts and extends them, no chunk's bytes stand in for another's.
\* (The list itself may be torn, and name a chunk twice.)
ReadsFollowTheList ==
  [][\A c \in Client : \A i \in DOMAIN job[c].reads :
       LET j == WithRead(c, i)
       IN Answered(c, i) => /\ Len(Got(j)) = j.size
                            /\ \A p \in 1 .. j.size : Got(j)[p] \in j.may[p]]_vars

\* A read that opened the file and had every call answered returns the file ("After the
\* reads complete, the Client reconstructs the requested byte range in the correct file
\* order", README.md:315-316).
ReadReconstructs ==
  [][Reading(Writer) /\ job'[Writer].pc = "idle" /\ UNCHANGED faults
       => job'[Writer].answer = "ok"]_vars

\* The writer's calls, each of many steps and stopped anywhere by a failed one, do to
\* the bytes of the file what ByteFile says.
Before == job[Writer].before[1]

Underway == job[Writer].pc # "idle"

Promise == INSTANCE ByteFile WITH
  content <- IF Underway THEN Before.content ELSE Content,
  sound   <- IF Underway THEN Before.sound ELSE Compact,
  doing   <- job[Writer].req,
  answer  <- job[Writer].answer,
  faulty  <- faults > 0

ByteFileSpec == Promise!Spec
=============================================================================
