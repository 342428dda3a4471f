---------------------------- MODULE Replication ----------------------------
(***************************************************************************)
(* What keeps a chunk on enough servers, and under a live primary, while    *)
(* ChunkServers come and go: heartbeats and the failure detector            *)
(* (metadata.go, server.go of internal/master), the ReplicationManager      *)
(* (replication.go), the LeaseManager (lease.go), and the part of a write   *)
(* that creates and removes copies (internal/chunkserver/server.go).        *)
(*                                                                          *)
(* The failure detector is one goroutine: a round finds the dead servers,   *)
(* repairs the chunks they reported one after the other, then looks at the  *)
(* primaries of the same chunks.  Heartbeats, registrations and the writes  *)
(* of clients run beside it, each critical section of the Master and each   *)
(* call between servers a step of its own.  Copies are present or absent    *)
(* here; what is in them is the subject of ChunkWrite.                      *)
(***************************************************************************)
EXTENDS Integers, Sequences, FiniteSets, SequencesExt

CONSTANTS
  Server,     \* the ChunkServers
  Client,     \* the clients, each with one write to one chunk at a time
  Chunk,      \* the chunk handles
  NoServer,   \* nil, the primary of a chunk that was not placed yet
  MaxCrash,   \* bound: how often a ChunkServer dies
  MaxFault,   \* bound: how many calls go wrong between live servers
  MaxEarly    \* bound: how many chunks are looked up while a handler places them

ASSUME ReplicationAssumption ==
  /\ NoServer \notin Server \cup Chunk
  /\ IsFiniteSet(Server)
  /\ MaxCrash \in Nat /\ MaxFault \in Nat /\ MaxEarly \in Nat

VARIABLES
  up,         \* the ChunkServers that are running
  joining,    \* running, and their RegisterChunkServer call is under way
  disk,       \* server -> the chunks it has a file of
  available,  \* MetadataStore.chunkServers
  reported,   \* server -> Chunks of its entry, the ones its last heartbeat named
  expired,    \* available servers whose last heartbeat is over 15 seconds old
  primary,    \* chunk -> Primary of its ChunkMetadata
  replicas,   \* chunk -> Replicas of its ChunkMetadata
  call,       \* client -> where its write stands, in the Master and then in the primary
  acked,      \* the chunks that some client has written successfully
  early,      \* history: chunks looked up while another handler was placing them
  cleaned,    \* history: the copies that a failed forward's cleanup removed
  phase,      \* where the failure detector's round stands
  hit,        \* the chunks the round's dead servers reported
  todo,       \* those the current loop of the round has not come to
  job,        \* the copy the ReplicationManager is waiting for
  crashes, faults

cluster  == <<up, joining, disk>>
members  == <<available, reported, expired>>
table    == <<primary, replicas>>
history  == <<acked, early, cleaned>>
detector == <<phase, hit, todo, job>>
budget   == <<crashes, faults>>
vars     == <<cluster, members, table, call, history, detector, budget>>

TargetCopies == 3   \* 1 + TargetReplicas
NoJob        == [chunk |-> NoServer, source |-> NoServer, destination |-> NoServer]
Job          == [chunk : Chunk, source : Server, destination : Server]
Phase        == {"wait", "repair", "copy", "reply", "primaries"}
Idle         == [pc |-> "idle", chunk |-> NoServer, primary |-> NoServer, servers |-> << >>]
Call         == [pc : {"choose", "primary", "replica", "locate", "list", "write", "forward", "cleanup"},
                 chunk : Chunk, primary : Server \cup {NoServer}, servers : Seq(Server)]

Listed(c) == {primary[c]} \cup ToSet(replicas[c])

TypeOK ==
  /\ up \subseteq Server /\ joining \subseteq up
  /\ disk \in [Server -> SUBSET Chunk]
  /\ expired \subseteq available /\ available \subseteq Server
  /\ reported \in [Server -> SUBSET Chunk]
  /\ primary \in [Chunk -> Server \cup {NoServer}]
  /\ replicas \in [Chunk -> Seq(Server)]
  /\ call \in [Client -> Call \cup {Idle}]
  /\ acked \subseteq Chunk /\ early \subseteq Chunk /\ cleaned \subseteq Chunk \X Server
  /\ \A k \in Client : /\ call[k].pc = "primary" => Len(call[k].servers) = 3
                       /\ call[k].pc = "replica" => Len(call[k].servers) \in 1 .. 2
                       /\ call[k].pc = "cleanup" => call[k].servers # << >>
                       /\ call[k].pc \in {"list", "write", "forward", "cleanup"} => call[k].primary \in Server
  /\ phase \in Phase
  /\ hit \subseteq Chunk /\ todo \subseteq hit
  /\ job \in Job \cup {NoJob}
  /\ phase \in {"copy", "reply"} => job \in Job
  /\ crashes \in 0 .. MaxCrash /\ faults \in 0 .. MaxFault

\* The servers have started and been heard; no file has a chunk yet.
Init ==
  /\ up = Server /\ joining = {}
  /\ disk = [s \in Server |-> {}]
  /\ available = Server /\ expired = {}
  /\ reported = [s \in Server |-> {}]
  /\ primary = [c \in Chunk |-> NoServer]
  /\ replicas = [c \in Chunk |-> << >>]
  /\ call = [k \in Client |-> Idle] /\ acked = {} /\ early = {} /\ cleaned = {}
  /\ phase = "wait" /\ hit = {} /\ todo = {} /\ job = NoJob
  /\ crashes = 0 /\ faults = 0

Fault == faults < MaxFault /\ faults' = faults + 1 /\ UNCHANGED crashes

-----------------------------------------------------------------------------
(***************************************************************************)
(* ChunkServers: they die and come back with the files they had, and the   *)
(* handlers they ran are gone.  A server that starts sends heartbeats and  *)
(* registers at the same time.                                             *)
(***************************************************************************)
RunBy(s) == {k \in Client : call[k].pc \in {"forward", "cleanup"} /\ call[k].primary = s}

Crash(s) ==
  /\ s \in up /\ crashes < MaxCrash
  /\ up' = up \ {s} /\ joining' = joining \ {s}
  /\ call' = [k \in Client |-> IF k \in RunBy(s) THEN Idle ELSE call[k]]
  /\ crashes' = crashes + 1
  /\ UNCHANGED <<disk, members, table, history, detector, faults>>

Restart(s) ==
  /\ s \notin up
  /\ up' = up \cup {s} /\ joining' = joining \cup {s}
  /\ UNCHANGED <<disk, members, table, call, history, detector, budget>>

\* RegisterChunkServer replaces the server's entry by one that lists no chunk.
Register(s) ==
  /\ s \in joining
  /\ joining' = joining \ {s}
  /\ available' = available \cup {s} /\ expired' = expired \ {s}
  /\ reported' = [reported EXCEPT ![s] = {}]
  /\ UNCHANGED <<up, disk, table, call, history, detector, budget>>

\* UpdateHeartbeat makes an entry for a server that has none.
Heartbeat(s) ==
  /\ s \in up
  /\ available' = available \cup {s} /\ expired' = expired \ {s}
  /\ reported' = [reported EXCEPT ![s] = disk[s]]
  /\ UNCHANGED <<cluster, table, call, history, detector, budget>>

\* Fifteen seconds pass without a heartbeat: the server is down, or its
\* heartbeats do not get through.
Expire(s) ==
  /\ s \in available \ expired
  /\ expired' = expired \cup {s}
  /\ \/ s \notin up /\ UNCHANGED budget
     \/ s \in up /\ Fault
  /\ UNCHANGED <<cluster, available, reported, table, call, history, detector>>

-----------------------------------------------------------------------------
(***************************************************************************)
(* The Master's part of a write: a handler that finds the chunk without a  *)
(* primary places it, in separate critical sections, and nothing keeps     *)
(* another handler from the same chunk meanwhile.                          *)
(***************************************************************************)
At(k, label) == call[k].pc = label

Placing(k, c) == call[k].chunk = c /\ call[k].pc \in {"choose", "primary", "replica"}

Hangup(k) == call' = [call EXCEPT ![k] = Idle]

Lookup(k, c) ==
  /\ At(k, "idle")
  /\ call' = [call EXCEPT ![k].chunk = c,
                          ![k].pc = IF primary[c] = NoServer THEN "choose" ELSE "locate"]
  /\ early' = early \cup (IF \E other \in Client : Placing(other, c) THEN {c} ELSE {})
  /\ Cardinality(early') <= MaxEarly
  /\ UNCHANGED <<cluster, members, table, acked, cleaned, detector, budget>>

\* AllocateChunkServer(3).  With fewer servers the handler panics: see MasterServer.
Choose(k) ==
  /\ At(k, "choose")
  /\ \E s1, s2, s3 \in available :
       /\ s1 # s2 /\ s1 # s3 /\ s2 # s3
       /\ call' = [call EXCEPT ![k] = [pc |-> "primary", chunk |-> @.chunk, primary |-> NoServer,
                                       servers |-> <<s1, s2, s3>>]]
  /\ UNCHANGED <<cluster, members, table, history, detector, budget>>

SetPrimary(k) ==
  /\ At(k, "primary")
  /\ primary' = [primary EXCEPT ![call[k].chunk] = Head(call[k].servers)]
  /\ call' = [call EXCEPT ![k].servers = Tail(@), ![k].pc = "replica"]
  /\ UNCHANGED <<cluster, members, replicas, history, detector, budget>>

SetReplicaPastEnd(k) ==  \* mutant: the handler does not stop after its last server
  /\ At(k, "replica")
  /\ replicas' = [replicas EXCEPT ![call[k].chunk] = Append(@, Head(call[k].servers))]
  /\ call' = [call EXCEPT ![k].servers = Tail(@)]
  /\ UNCHANGED <<cluster, members, primary, history, detector, budget>>

SetReplica(k) ==
  /\ At(k, "replica")
  /\ replicas' = [replicas EXCEPT ![call[k].chunk] = Append(@, Head(call[k].servers))]
  /\ call' = [call EXCEPT ![k].servers = Tail(@),
                          ![k].pc = IF Len(call[k].servers) = 1 THEN "locate" ELSE "replica"]
  /\ UNCHANGED <<cluster, members, primary, history, detector, budget>>

\* GetChunkLocations reads the primary, and after that the replicas, without a lock.
\* Its check of the primary is taken together with the read.
Locate(k) ==
  /\ At(k, "locate")
  /\ IF primary[call[k].chunk] \in available
       THEN call' = [call EXCEPT ![k].primary = primary[call[k].chunk], ![k].pc = "list"]
       ELSE Hangup(k)
  /\ UNCHANGED <<cluster, members, table, history, detector, budget>>

ListReplicas(k) ==
  /\ At(k, "list")
  /\ call' = [call EXCEPT ![k].servers = replicas[call[k].chunk], ![k].pc = "write"]
  /\ UNCHANGED <<cluster, members, table, history, detector, budget>>

(***************************************************************************)
(* The primary's WriteChunk: its own file, then the replicas of the        *)
(* client's location one after the other (ChunkWrite has the data).  A     *)
(* call to a server that is down fails; one to a live server can.  An      *)
(* execution after the caller gave up only adds a copy, and is left out.   *)
(***************************************************************************)
WithFile(c, s) == [disk EXCEPT ![s] = @ \cup {c}]

WritePrimary(k) ==
  /\ At(k, "write") /\ call[k].primary \in up
  /\ disk' = WithFile(call[k].chunk, call[k].primary)
  /\ call' = [call EXCEPT ![k].pc = "forward"]
  /\ UNCHANGED <<up, joining, members, table, history, detector, budget>>

WriteFails(k) ==
  /\ At(k, "write")
  /\ \/ call[k].primary \notin up /\ UNCHANGED <<disk, budget>>
     \/ Fault /\ disk' \in {disk, WithFile(call[k].chunk, call[k].primary)}
  /\ Hangup(k)
  /\ UNCHANGED <<up, joining, members, table, history, detector>>

Forwarding(k) == At(k, "forward") /\ call[k].servers # << >>

Target(k) == Head(call[k].servers)

Forward(k) ==
  /\ Forwarding(k) /\ Target(k) \in up
  /\ disk' = WithFile(call[k].chunk, Target(k))
  /\ call' = [call EXCEPT ![k].servers = Tail(@)]
  /\ UNCHANGED <<up, joining, members, table, history, detector, budget>>

ForwardFails(k) ==
  /\ Forwarding(k)
  /\ \/ Target(k) \notin up /\ UNCHANGED <<disk, budget>>
     \/ Fault /\ disk' \in {disk, WithFile(call[k].chunk, Target(k))}
  /\ call' = [call EXCEPT ![k].pc = "cleanup"]
  /\ UNCHANGED <<up, joining, members, table, history, detector>>

\* cleanupReplica makes a connection of its own: the replica may be back by now.
Cleanup(k) ==
  /\ At(k, "cleanup") /\ Target(k) \in up
  /\ disk' = [disk EXCEPT ![Target(k)] = @ \ {call[k].chunk}]
  /\ cleaned' = cleaned \cup {<<call[k].chunk, Target(k)>>}
  /\ Hangup(k)
  /\ UNCHANGED <<up, joining, members, table, acked, early, detector, budget>>

CleanupFails(k) ==
  /\ At(k, "cleanup")
  /\ \/ Target(k) \notin up /\ UNCHANGED budget
     \/ Fault
  /\ Hangup(k)
  /\ UNCHANGED <<cluster, members, table, history, detector>>

AcknowledgeEarly(k) ==  \* mutant: the answer does not wait for the last replica
  /\ At(k, "forward") /\ Len(call[k].servers) <= 1
  /\ acked' = acked \cup {call[k].chunk}
  /\ Hangup(k)
  /\ UNCHANGED <<cluster, members, table, early, cleaned, detector, budget>>

Acknowledge(k) ==
  /\ At(k, "forward") /\ call[k].servers = << >>
  /\ acked' = acked \cup {call[k].chunk}
  /\ Hangup(k)
  /\ UNCHANGED <<cluster, members, table, early, cleaned, detector, budget>>

\* The report to the Master or the answer to the client goes wrong.
AnswerFails(k) ==
  /\ At(k, "forward") /\ call[k].servers = << >>
  /\ Fault
  /\ Hangup(k)
  /\ UNCHANGED <<cluster, members, table, history, detector>>

Write(k) ==
  \/ \E c \in Chunk : Lookup(k, c)
  \/ Choose(k) \/ SetPrimary(k) \/ SetReplica(k) \/ Locate(k) \/ ListReplicas(k)
  \/ WritePrimary(k) \/ WriteFails(k) \/ Forward(k) \/ ForwardFails(k)
  \/ Cleanup(k) \/ CleanupFails(k) \/ Acknowledge(k) \/ AnswerFails(k)

-----------------------------------------------------------------------------
(***************************************************************************)
(* A round of the failure detector.                                        *)
(***************************************************************************)
CheckChunkServers ==
  /\ phase = "wait" /\ expired # {}
  /\ available' = available \ expired /\ expired' = {}
  /\ reported' = [s \in Server |-> IF s \in expired THEN {} ELSE reported[s]]
  /\ hit' = UNION {reported[s] : s \in expired}
  /\ todo' = hit' /\ phase' = "repair"
  /\ UNCHANGED <<cluster, table, call, history, job, budget>>

HealthyCopies(c) == SelectSeq(<<primary[c]>> \o replicas[c], LAMBDA s : s \in available)

AnyDestination(c) == available \ {primary[c]}  \* mutant: the replicas are not skipped

\* chooseDestination takes the first of these in the order of a Go map.
Destinations(c) == available \ Listed(c)

\* chooseSource: the first healthy server that is not the primary, or else the
\* primary if it is healthy.
Sources(c) ==
  LET others == {i \in DOMAIN replicas[c] : replicas[c][i] \in available \ {primary[c]}}
  IN IF others # {} THEN {replicas[c][i] : i \in {i \in others : \A j \in others : i <= j}}
     ELSE {primary[c]} \cap available

UnderReplicatedByTwo(c) ==  \* mutant: one missing copy is let pass
  Len(HealthyCopies(c)) < TargetCopies - 1

UnderReplicated(c) == Len(HealthyCopies(c)) < TargetCopies

SkipRepairStuck(c) ==  \* mutant: a chunk with enough copies is not passed over
  /\ phase = "repair" /\ c \in todo
  /\ Destinations(c) = {} \/ Sources(c) = {}
  /\ todo' = todo \ {c}
  /\ UNCHANGED <<cluster, members, table, call, history, phase, hit, job, budget>>

SkipRepair(c) ==
  /\ phase = "repair" /\ c \in todo
  /\ ~UnderReplicated(c) \/ Destinations(c) = {} \/ Sources(c) = {}
  /\ todo' = todo \ {c}
  /\ UNCHANGED <<cluster, members, table, call, history, phase, hit, job, budget>>

PlanRepairEagerly(c) ==  \* mutant: the metadata changes before the copy is made
  /\ phase = "repair" /\ c \in todo
  /\ UnderReplicated(c)
  /\ \E source \in Sources(c), destination \in Destinations(c) :
       /\ job' = [chunk |-> c, source |-> source, destination |-> destination]
       /\ replicas' = [replicas EXCEPT ![c] = Append(@, destination)]
  /\ phase' = "copy"
  /\ UNCHANGED <<cluster, members, primary, call, history, hit, todo, budget>>

PlanRepair(c) ==
  /\ phase = "repair" /\ c \in todo
  /\ UnderReplicated(c)
  /\ \E source \in Sources(c), destination \in Destinations(c) :
       job' = [chunk |-> c, source |-> source, destination |-> destination]
  /\ phase' = "copy"
  /\ UNCHANGED <<cluster, members, table, call, history, hit, todo, budget>>

\* ReplicateChunk on the source, ForwardWrite on the destination.
Copy ==
  /\ phase = "copy"
  /\ {job.source, job.destination} \subseteq up
  /\ job.chunk \in disk[job.source]
  /\ disk' = WithFile(job.chunk, job.destination)
  /\ phase' = "reply"
  /\ UNCHANGED <<up, joining, members, table, call, history, hit, todo, job, budget>>

\* The round goes on with the next chunk; nothing comes back to this one.
GiveUp ==
  /\ phase' = "repair" /\ todo' = todo \ {job.chunk} /\ job' = NoJob
  /\ UNCHANGED <<cluster, members, table, call, history, hit>>

CopyFails ==
  /\ phase = "copy"
  /\ \/ ~({job.source, job.destination} \subseteq up) /\ UNCHANGED budget
     \/ job.source \in up /\ job.chunk \notin disk[job.source] /\ UNCHANGED budget
     \/ Fault
  /\ GiveUp

\* The copy is made, but the answer does not come back.
ReplyLost ==
  /\ phase = "reply"
  /\ \/ job.source \notin up /\ UNCHANGED budget
     \/ Fault
  /\ GiveUp

\* SetChunkReplica
Record ==
  /\ phase = "reply"
  /\ replicas' = [replicas EXCEPT ![job.chunk] = Append(@, job.destination)]
  /\ phase' = "repair" /\ todo' = todo \ {job.chunk} /\ job' = NoJob
  /\ UNCHANGED <<cluster, members, primary, call, history, hit, budget>>

EndRepairsDone ==  \* mutant: the list of chunks is used up by the first loop
  /\ phase = "repair" /\ todo = {}
  /\ phase' = "primaries"
  /\ UNCHANGED <<cluster, members, table, call, history, hit, todo, job, budget>>

EndRepairs ==
  /\ phase = "repair" /\ todo = {}
  /\ phase' = "primaries" /\ todo' = hit
  /\ UNCHANGED <<cluster, members, table, call, history, hit, job, budget>>

HealthyReplicas(c) == ToSet(replicas[c]) \cap available

KeepPrimary(c) ==
  /\ phase = "primaries" /\ c \in todo
  /\ primary[c] \in available \/ HealthyReplicas(c) = {}
  /\ todo' = todo \ {c}
  /\ UNCHANGED <<cluster, members, table, call, history, phase, hit, job, budget>>

\* assignPrimary; the new primary stays among the replicas.
Promote(c) ==
  /\ phase = "primaries" /\ c \in todo
  /\ primary[c] \notin available
  /\ \E s \in HealthyReplicas(c) : primary' = [primary EXCEPT ![c] = s]
  /\ todo' = todo \ {c}
  /\ UNCHANGED <<cluster, members, replicas, call, history, phase, hit, job, budget>>

EndRound ==
  /\ phase = "primaries" /\ todo = {}
  /\ phase' = "wait" /\ hit' = {}
  /\ UNCHANGED <<cluster, members, table, call, history, todo, job, budget>>

Detector ==
  \/ CheckChunkServers
  \/ \E c \in Chunk : SkipRepair(c) \/ PlanRepair(c) \/ KeepPrimary(c) \/ Promote(c)
  \/ Copy \/ CopyFails \/ ReplyLost \/ Record
  \/ EndRepairs \/ EndRound

Next ==
  \/ \E s \in Server : Crash(s) \/ Restart(s) \/ Register(s) \/ Heartbeat(s) \/ Expire(s)
  \/ \E k \in Client : Write(k)
  \/ Detector

Spec == Init /\ [][Next]_vars

\* The detector's ticker and a live server's heartbeat ticker keep firing, a
\* started server registers, and fifteen seconds do pass.
Fairness ==
  /\ WF_vars(Detector)
  /\ \A s \in Server : /\ WF_vars(Heartbeat(s)) /\ WF_vars(Register(s))
                       /\ WF_vars(s \notin up /\ Expire(s))

FairSpec == Spec /\ Fairness
-----------------------------------------------------------------------------
\* Once some client has written a chunk, every server the Master lists for it has
\* the chunk's file, except one whose copy a failed forward's cleanup removed: deaths,
\* returns, promotions, repairs and calls that fail leave no other gap.  A chunk that
\* was looked up while a handler was placing it can be acknowledged with fewer than
\* three copies, and the other servers be listed afterwards without one.
ListedServersHold ==
  \A c \in acked \ early : \A s \in Listed(c) : c \in disk[s] \/ <<c, s>> \in cleaned

\* The list names no server twice unless two handlers entered it: over any number of
\* rounds, with writes, deaths and returns beside them, a repair adds no server
\* that is listed already.
ReplicasDistinct ==
  \A c \in Chunk \ early : \A i, j \in DOMAIN replicas[c] : replicas[c][i] = replicas[c][j] => i = j

\* "Only update metadata after physical replication succeeded" (replication.go:288):
\* a server that the detector enters has the file at that moment, even if writes
\* of the chunk fail and clean up while the copy is on its way.
RepairedHasChunk ==
  [][\A c \in Chunk \ early : UNCHANGED call =>
       \A s \in ToSet(replicas'[c]) \ ToSet(replicas[c]) : c \in disk[s]]_vars

\* The detector's round always comes to an end, and a server that stays away is
\* always found: chunks that need no repair any more, because their server came
\* back during the round, hold up neither.
DetectorKeepsRunning ==
  /\ []<>(phase = "wait")
  /\ \A s \in Server : s \notin up ~> s \in up \/ s \notin available

LiveHolders(c) == {s \in Listed(c) \cap up : c \in disk[s]}

\* A first death leads back to three live copies, provided that one handler placed
\* the chunk, the server had reported it, a spare server is there and no call goes
\* wrong (MaxCrash = 1, MaxFault = 0) -- or to a copy removed by the cleanup of a
\* forward that met the server while it was down.
FirstFailureRepaired ==
  \A c \in Chunk :
    (c \in acked \ early /\ \E s \in Listed(c) \ up : c \in reported[s])
      ~> \/ Cardinality(LiveHolders(c)) >= TargetCopies
         \/ \E r \in Server : <<c, r>> \in cleaned

\* Likewise a dead primary that had reported the chunk is replaced by a live one,
\* or comes back.
FailoverHappens ==
  \A c \in Chunk :
    (c \in acked \ early /\ primary[c] \notin up /\ c \in reported[primary[c]])
      ~> primary[c] \in up \cap available

\* "We cannot make a server primary if it doesn't have the chunk" (lease.go:100-101).
\* A replica whose copy a failed forward removed is listed and available.
PromotedHasChunk ==
  [][\A c \in acked : primary'[c] # primary[c] => c \in disk[primary'[c]]]_vars
=============================================================================
