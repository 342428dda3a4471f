----------------------------- MODULE ChunkWrite -----------------------------
(***************************************************************************)
(* The write path of one chunk (internal/chunkserver/server.go): the       *)
(* primary's WriteChunk handler, the ForwardWrite calls it makes, the      *)
(* cleanup after a failed forward, and the size report to the Master.      *)
(*                                                                          *)
(* Each writer is one WriteChunk call of a client; the handlers of          *)
(* concurrent calls interleave, and only a single access to a server's      *)
(* storage is atomic (Storage.mu).  A chunk is a sequence of cells, and a   *)
(* cell holds the writer whose bytes it has, or Hole for the zeros a write  *)
(* past the end leaves.  No chunk file and an empty one are the same here.  *)
(***************************************************************************)
EXTENDS Integers, Sequences

CONSTANTS
  Writer,     \* the WriteChunk calls
  Extent,     \* [Writer -> [offset, length]]: what each call writes
  Primary,    \* the ChunkServer that runs the calls
  Replica,    \* the ChunkServers in the location's Replicas; a promoted primary is one
  Replicas,   \* the list itself; two handlers that place a chunk can name one twice
  Hole,       \* bytes nobody wrote
  MaxFaults   \* bound: how many calls between servers go wrong

ASSUME ChunkWriteAssumption ==
  /\ Extent \in [Writer -> [offset : Nat, length : Nat \ {0}]]
  /\ Replicas \in Seq(Replica)
  /\ \A r \in Replica : \E i \in 1 .. Len(Replicas) : Replicas[i] = r
  /\ Hole \notin Writer
  /\ MaxFaults \in Nat

VARIABLES
  disk,     \* server -> the cells of its copy of the chunk
  pc,       \* writer -> where its WriteChunk call stands
  oldSize,  \* writer -> the size of the primary's copy before its write
  change,   \* writer -> sizeChange
  next,     \* writer -> the replica of the loop's current round
  late,     \* forwards the primary gave up on that a replica may still execute
  credited, \* what the reports for this chunk have added to the file's SizeBytes
  faults    \* calls that went wrong so far

vars == <<disk, pc, oldSize, change, next, late, credited, faults>>

Server == {Primary} \cup Replica
Cells  == Seq(Writer \cup {Hole})
Busy   == {"write", "measure", "forward", "cleanup"}

TypeOK ==
  /\ disk \in [Server -> Cells]
  /\ pc \in [Writer -> {"start", "acked", "failed"} \cup Busy]
  /\ oldSize \in [Writer -> Nat]
  /\ change \in [Writer -> Int]
  /\ next \in [Writer -> 1 .. Len(Replicas) + 1]
  /\ late \subseteq Writer \X Replica
  /\ credited \in Int
  /\ faults \in 0 .. MaxFaults

Init ==
  /\ disk = [s \in Server |-> << >>]
  /\ pc = [w \in Writer |-> "start"]
  /\ oldSize = [w \in Writer |-> 0]
  /\ change = [w \in Writer |-> 0]
  /\ next = [w \in Writer |-> 1]
  /\ late = {}
  /\ credited = 0
  /\ faults = 0

Covers(w, i) == i \in Extent[w].offset + 1 .. Extent[w].offset + Extent[w].length

End(w) == Extent[w].offset + Extent[w].length

Longer(m, n) == IF m > n THEN m ELSE n

WrittenFromZero(cells, w) ==  \* for a mutant: the offset is ignored
  [i \in 1 .. Longer(Len(cells), Extent[w].length) |->
     IF i <= Extent[w].length THEN w ELSE cells[i]]

\* Storage.WriteChunk: seek and write; a seek past the end leaves zeros.
Written(cells, w) ==
  [i \in 1 .. Longer(Len(cells), End(w)) |->
     IF Covers(w, i) THEN w
     ELSE IF i <= Len(cells) THEN cells[i]
     ELSE Hole]

Goto(w, label) == pc' = [pc EXCEPT ![w] = label]

Fault == faults < MaxFaults /\ faults' = faults + 1

-----------------------------------------------------------------------------
(***************************************************************************)
(* The primary's part of WriteChunk: three separate accesses to storage.   *)
(***************************************************************************)
MeasureBeforeTooLate(w) ==  \* mutant: the old size is read after the write
  /\ pc[w] = "start"
  /\ disk' = [disk EXCEPT ![Primary] = Written(@, w)]
  /\ oldSize' = [oldSize EXCEPT ![w] = Len(Written(disk[Primary], w))]
  /\ Goto(w, "measure")
  /\ UNCHANGED <<change, next, late, credited, faults>>

MeasureBefore(w) ==
  /\ pc[w] = "start"
  /\ oldSize' = [oldSize EXCEPT ![w] = Len(disk[Primary])]
  /\ Goto(w, "write")
  /\ UNCHANGED <<disk, change, next, late, credited, faults>>

WritePrimaryLast(w) ==  \* mutant: the primary keeps the data to itself until the report
  /\ pc[w] = "write"
  /\ Goto(w, "measure")
  /\ UNCHANGED <<disk, oldSize, change, next, late, credited, faults>>

WritePrimary(w) ==
  /\ pc[w] = "write"
  /\ disk' = [disk EXCEPT ![Primary] = Written(@, w)]
  /\ Goto(w, "measure")
  /\ UNCHANGED <<oldSize, change, next, late, credited, faults>>

\* Storage refuses the write.  (A write that fails halfway leaves the table of sizes
\* behind the file: see ChunkStorage.)
WritePrimaryFails(w) ==
  /\ pc[w] = "write"
  /\ Fault
  /\ Goto(w, "failed")
  /\ UNCHANGED <<disk, oldSize, change, next, late, credited>>

MeasureAfter(w) ==
  /\ pc[w] = "measure"
  /\ change' = [change EXCEPT ![w] = Len(disk[Primary]) - oldSize[w]]
  /\ Goto(w, "forward")
  /\ UNCHANGED <<disk, oldSize, next, late, credited, faults>>

(***************************************************************************)
(* The loop over the replicas.  A forward that fails may have been         *)
(* executed, may never be, or may still be under way when the primary      *)
(* gives up on it; the handler then goes to cleanupReplica and returns.    *)
(***************************************************************************)
Forwarding(w) == pc[w] = "forward" /\ next[w] <= Len(Replicas)

ForwardOnlyGrowth(w) ==  \* mutant: a write that does not grow the chunk is not forwarded
  /\ Forwarding(w)
  /\ IF change[w] > 0
       THEN disk' = [disk EXCEPT ![Replicas[next[w]]] = Written(@, w)]
       ELSE UNCHANGED disk
  /\ next' = [next EXCEPT ![w] = @ + 1]
  /\ UNCHANGED <<pc, oldSize, change, late, credited, faults>>

ForwardFromZero(w) ==  \* mutant: the forward loses its offset
  /\ Forwarding(w)
  /\ disk' = [disk EXCEPT ![Replicas[next[w]]] = WrittenFromZero(@, w)]
  /\ next' = [next EXCEPT ![w] = @ + 1]
  /\ UNCHANGED <<pc, oldSize, change, late, credited, faults>>

ForwardPastEnd(w) ==  \* mutant: the round counter runs on after the last replica
  /\ pc[w] = "forward" /\ next[w] <= Len(Replicas) + 1
  /\ IF next[w] <= Len(Replicas)
       THEN disk' = [disk EXCEPT ![Replicas[next[w]]] = Written(@, w)]
       ELSE UNCHANGED disk
  /\ next' = [next EXCEPT ![w] = @ + 1]
  /\ UNCHANGED <<pc, oldSize, change, late, credited, faults>>

Forward(w) ==
  /\ Forwarding(w)
  /\ disk' = [disk EXCEPT ![Replicas[next[w]]] = Written(@, w)]
  /\ next' = [next EXCEPT ![w] = @ + 1]
  /\ UNCHANGED <<pc, oldSize, change, late, credited, faults>>

ForwardFails(w) ==
  /\ Forwarding(w)
  /\ Fault
  /\ \/ UNCHANGED <<disk, late>>
     \/ /\ disk' = [disk EXCEPT ![Replicas[next[w]]] = Written(@, w)]
        /\ UNCHANGED late
     \/ /\ late' = late \cup {<<w, Replicas[next[w]]>>}
        /\ UNCHANGED disk
  /\ Goto(w, "cleanup")
  /\ UNCHANGED <<oldSize, change, next, credited>>

LateForward(w, s) ==
  /\ <<w, s>> \in late
  /\ disk' = [disk EXCEPT ![s] = Written(@, w)]
  /\ late' = late \ {<<w, s>>}
  /\ UNCHANGED <<pc, oldSize, change, next, credited, faults>>

CleanupFirst(w) ==  \* mutant: the first replica is cleaned, not the failed one
  /\ pc[w] = "cleanup"
  /\ \/ disk' = [disk EXCEPT ![Replicas[1]] = << >>]
     \/ UNCHANGED disk
  /\ Goto(w, "failed")
  /\ UNCHANGED <<oldSize, change, next, late, credited, faults>>

\* cleanupReplica removes the replica's whole copy, if the replica can be
\* reached; nobody looks at the result, and the Master is not told.
Cleanup(w) ==
  /\ pc[w] = "cleanup"
  /\ \/ disk' = [disk EXCEPT ![Replicas[next[w]]] = << >>]
     \/ UNCHANGED disk
  /\ Goto(w, "failed")
  /\ UNCHANGED <<oldSize, change, next, late, credited, faults>>

(***************************************************************************)
(* All replicas have answered: report the growth to the Master.            *)
(***************************************************************************)
Reporting(w) == pc[w] = "forward" /\ next[w] > Len(Replicas)

Report(w) ==
  /\ Reporting(w)
  /\ credited' = credited + change[w]
  /\ Goto(w, "acked")
  /\ UNCHANGED <<disk, oldSize, change, next, late, faults>>

ReportFails(w) ==
  /\ Reporting(w)
  /\ Fault
  /\ credited' \in {credited, credited + change[w]}
  /\ Goto(w, "failed")
  /\ UNCHANGED <<disk, oldSize, change, next, late>>

\* The primary's process dies: its calls end without cleanup or report, and a
\* forward it has sent may still be executed (for a report it has sent, see
\* ReportFails).  Its chunk file stays (Sync).
CrashPrimary ==
  /\ Fault
  /\ \E w \in Writer : pc[w] \in Busy
  /\ pc' = [w \in Writer |-> IF pc[w] \in Busy THEN "failed" ELSE pc[w]]
  /\ \E sent \in SUBSET {w \in Writer : Forwarding(w)} :
       late' = late \cup {<<w, Replicas[next[w]]>> : w \in sent}
  /\ UNCHANGED <<disk, oldSize, change, next, credited>>

Step(w) ==
  \/ MeasureBefore(w) \/ WritePrimary(w) \/ WritePrimaryFails(w) \/ MeasureAfter(w)
  \/ Forward(w) \/ ForwardFails(w) \/ Cleanup(w)
  \/ Report(w) \/ ReportFails(w)

Done == (\A w \in Writer : pc[w] \in {"acked", "failed"}) /\ late = {} /\ UNCHANGED vars

Next ==
  \/ \E w \in Writer : Step(w)
  \/ \E w \in Writer, s \in Replica : LateForward(w, s)
  \/ CrashPrimary
  \/ Done

Spec == Init /\ [][Next]_vars
-----------------------------------------------------------------------------
Quiet == \A w \in Writer : pc[w] \notin Busy
Acked == {w \in Writer : pc[w] = "acked"}

\* The copy on server s has bytes wherever w wrote.
Holds(s, w) ==
  \A i \in 1 .. End(w) : Covers(w, i) => i \in DOMAIN disk[s] /\ disk[s][i] # Hole

\* Some call ended, or is about to, in a round for server s.
FailedFor(s) ==
  \E w \in Writer : /\ pc[w] \in {"cleanup", "failed"}
                    /\ next[w] \in DOMAIN Replicas /\ Replicas[next[w]] = s

\* "The primary is still the source of truth.  Try to clean up any partial replica"
\* (chunkserver/server.go:100-101): a replica never has bytes at a place where the
\* primary has none.  A promoted primary is still one of its replicas, forwards to
\* itself, and may clean up its own copy.
SourceOfTruth ==
  \A r \in Replica : \A i \in DOMAIN disk[r] :
    /\ i \in DOMAIN disk[Primary]
    /\ disk[r][i] # Hole => disk[Primary][i] # Hole

\* That is the only way to lose it: the primary stays the source of truth, whatever
\* fails and however late a forward arrives, until a forward to itself goes wrong.
PrimaryIsSource == FailedFor(Primary) \/ SourceOfTruth

\* A server can lack bytes of an acknowledged write only if another call failed in a
\* round for this server; no failure spreads to a server it did not meet.
LossHasACause ==
  \A w \in Acked, r \in Replica : Holds(r, w) \/ FailedFor(r)

\* An acknowledged write is on every server of the chunk and stays there
\* ("Synchronous replica writes", "3-way chunk replication", README.md:67-69).
\* It holds as long as nothing fails, whatever other writers do; one failed forward
\* removes the acknowledged bytes of other calls with the replica's copy.
AckedOnEveryReplica ==
  faults = 0 => \A w \in Acked : \A s \in Server : Holds(s, w)

\* When nothing failed and no call is under way the copies have one length, and they agree on every
\* cell that only one call wrote: concurrent calls to different ranges of a chunk
\* reach the replicas in any order and still leave the same bytes there.
DisjointWritesConverge ==
  faults = 0 /\ Quiet => \A r \in Replica :
    /\ Len(disk[r]) = Len(disk[Primary])
    /\ \A i \in DOMAIN disk[r] :
         (\A v, w \in Writer : Covers(v, i) /\ Covers(w, i) => v = w)
           => disk[r][i] = disk[Primary][i]

\* When nothing failed and no call is under way the Master has counted at least the bytes there are:
\* the unlocked measurements around the write can count a byte twice, never miss
\* one.  An append planned from the size can leave a gap but not overwrite.
MasterCountsEveryByte == faults = 0 /\ Quiet => credited >= Len(disk[Primary])

\* "Replication within an individual chunk remains coordinated through its
\* primary" (README.md:279): calls that were all acknowledged leave equal copies.
CopiesIdentical ==
  (\A w \in Writer : pc[w] = "acked") => \A r \in Replica : disk[r] = disk[Primary]
=============================================================================
