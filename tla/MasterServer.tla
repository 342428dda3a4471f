---------------------------- MODULE MasterServer ----------------------------
(***************************************************************************)
(* The Master's handlers (internal/master/server.go), above all those that *)
(* place chunks: WriteFile, AppendFile and AllocateChunk.  gRPC runs each   *)
(* call in a goroutine of its own, and a handler is a sequence of calls of  *)
(* the metadata store with the store's mutex released in between: plan the  *)
(* chunks; then for each chunk look up its entry, choose three servers if   *)
(* it has no primary, enter them one by one, check the primary, and read    *)
(* the location.                                                            *)
(*                                                                          *)
(* The module extends MetadataStore by the servers in the chunk table.      *)
(* Repairs and failovers, which change the table too, are in Replication.   *)
(***************************************************************************)
EXTENDS MetadataStore, FiniteSets

CONSTANTS
  Server,    \* the ChunkServers
  NoServer,  \* nil, the primary of a chunk that was not placed yet
  Handler    \* goroutines that run calls, one call at a time each

ASSUME ServerAssumption == NoServer \notin Server /\ IsFiniteSet(Server)

VARIABLES
  running,    \* the Master's process is there
  available,  \* the ChunkServers in MetadataStore.chunkServers
  primary,    \* handle -> Primary of its entry
  replicas,   \* handle -> the servers in Replicas of its entry (see Replication for
              \* the order and for doubles)
  call        \* handler -> its call: where it stands, the chunks it has still to
              \* locate, and the chosen servers it has still to enter

placement  == <<primary, replicas>>
serverVars == <<vars, running, available, placement, call>>

Copies == 3   \* what the handlers ask AllocateChunkServer for

Calls == [pc      : {"idle", "lookup", "choose", "place", "locate"},
          todo    : Seq(Handle),
          servers : Seq(Server)]

Idle == [pc |-> "idle", todo |-> << >>, servers |-> << >>]

Current(h) == Head(call[h].todo)
Servers(c) == {primary[c]} \cup replicas[c]

ServerTypeOK ==
  /\ running \in BOOLEAN
  /\ available \subseteq Server
  /\ primary \in [Handle -> Server \cup {NoServer}]
  /\ replicas \in [Handle -> SUBSET Server]
  /\ call \in [Handler -> Calls]
  /\ \A h \in Handler : call[h].pc # "idle" => call[h].todo # << >>
  /\ \A h \in Handler : call[h].pc = "place" <=> call[h].servers # << >>

ServerInit ==
  /\ Init
  /\ running = TRUE
  /\ available = Server
  /\ primary = [c \in Handle |-> NoServer]
  /\ replicas = [c \in Handle |-> {}]
  /\ call = [h \in Handler |-> Idle]

At(h, pc) == running /\ call[h].pc = pc

Goes(h, pc) == call' = [call EXCEPT ![h].pc = pc]

\* An error response, or the answer.
Returns(h) == call' = [call EXCEPT ![h] = Idle]

\* A nil dereference in a handler ends the process, where no call goes on.
Panic == running' = FALSE /\ UNCHANGED call

-----------------------------------------------------------------------------
(***************************************************************************)
(* The plan: one method of the store, which also says which chunks the     *)
(* call is about.  Chunks it has added have no servers yet.                *)
(***************************************************************************)
Touched(chunks, offset, end) ==
  SubSeq(chunks, offset \div ChunkSize + 1, ChunkCount(end))

Begins(h, pc, handles) ==
  /\ At(h, "idle")
  /\ call' = [call EXCEPT ![h] = [pc |-> pc, todo |-> handles, servers |-> << >>]]
  /\ UNCHANGED <<running, available, placement>>

BeginWrite(h, path, offset, length) ==
  /\ WriteFile(path, offset, length)
  /\ Begins(h, "lookup", Touched(files'[path].chunks, offset, offset + length))

BeginAppend(h, path, length) ==
  /\ AppendFile(path, length)
  /\ Begins(h, "lookup", Touched(files'[path].chunks, files[path].size, files[path].size + length))

\* AllocateChunk places its chunk without looking at the entry.
BeginAllocate(h, path, index) ==
  /\ AllocateChunk(path, index)
  /\ Begins(h, "choose", <<chunkid'>>)

\* GetChunkLocations, and RangeDeleteFile, TruncateFile and InsertFile, whose plan
\* is read from the store and which ask for the location of each chunk of it.
BeginLocate(h, c) ==
  /\ Begins(h, "locate", <<c>>)
  /\ UNCHANGED vars

-----------------------------------------------------------------------------
(***************************************************************************)
(* The loop over the chunks of the plan.                                   *)
(***************************************************************************)
\* The error of GetChunkMetadata is ignored, and chunk.Primary of a nil chunk read.
Lookup(h) ==
  /\ At(h, "lookup")
  /\ IF Current(h) \in DOMAIN chunkLocations
       THEN /\ Goes(h, IF primary[Current(h)] = NoServer THEN "choose" ELSE "locate")
            /\ UNCHANGED running
       ELSE Panic
  /\ UNCHANGED <<vars, available, placement>>

ChooseOneByOne(h) ==  \* mutant: three choices of one server each
  /\ At(h, "choose")
  /\ IF available # {}
       THEN /\ \E a, b, c \in available :
                 call' = [call EXCEPT ![h].servers = <<a, b, c>>, ![h].pc = "place"]
            /\ UNCHANGED running
       ELSE Panic
  /\ UNCHANGED <<vars, available, placement>>

\* AllocateChunkServer takes the first three of a Go map; when there are fewer it
\* returns an error and no slice, and server[0] is read all the same.
Choose(h) ==
  /\ At(h, "choose")
  /\ IF Cardinality(available) >= Copies
       THEN /\ \E a, b, c \in available :
                 /\ a # b /\ b # c /\ a # c
                 /\ call' = [call EXCEPT ![h].servers = <<a, b, c>>, ![h].pc = "place"]
            /\ UNCHANGED running
       ELSE Panic
  /\ UNCHANGED <<vars, available, placement>>

Enter(h, first) ==
  LET c == Current(h)
      s == Head(call[h].servers)
  IN IF first THEN primary' = [primary EXCEPT ![c] = s] /\ UNCHANGED replicas
              ELSE replicas' = [replicas EXCEPT ![c] = @ \cup {s}] /\ UNCHANGED primary

\* SetChunkPrimary for the first server, SetChunkReplica for the other two.
Place(h) ==
  /\ At(h, "place")
  /\ IF Current(h) \in DOMAIN chunkLocations
       THEN /\ Enter(h, Len(call[h].servers) = Copies)
            /\ call' = [call EXCEPT ![h].servers = Tail(@),
                                    ![h].pc = IF Len(call[h].servers) = 1 THEN "locate" ELSE @]
       ELSE Returns(h) /\ UNCHANGED placement
  /\ UNCHANGED <<vars, running, available>>

\* GetChunkLocations finds the entry and an available primary, and reads the
\* location from the entry; the loop goes on with the next chunk.
Located(h) ==
  /\ At(h, "locate")
  /\ primary[Current(h)] \in available
  /\ GetChunkLocations(Current(h))

LocateTooFar(h) ==  \* mutant: the loop goes on after the last chunk
  /\ Located(h)
  /\ call' = [call EXCEPT ![h].todo = Tail(@), ![h].pc = "lookup"]
  /\ UNCHANGED <<running, available, placement>>

Locate(h) ==
  /\ Located(h)
  /\ IF Len(call[h].todo) = 1
       THEN Returns(h)
       ELSE call' = [call EXCEPT ![h].todo = Tail(@), ![h].pc = "lookup"]
  /\ UNCHANGED <<running, available, placement>>

\* The read of the entry is outside the mutex.  It can see the length another
\* handler's append has set and not yet the element, and dereferences nil.
LocateTorn(h) ==
  /\ Located(h)
  /\ \E g \in Handler : /\ call[g].pc = "place" /\ Current(g) = Current(h)
                        /\ Len(call[g].servers) < Copies
  /\ Panic
  /\ UNCHANGED <<available, placement>>

\* WriteFile and AppendFile return an error; AllocateChunk has placed its only chunk
\* and returns it without a location.
LocateFails(h) ==
  /\ At(h, "locate")
  /\ \/ Current(h) \notin DOMAIN chunkLocations
     \/ primary[Current(h)] \notin available
  /\ Returns(h)
  /\ UNCHANGED <<vars, running, available, placement>>

HandlerStep(h) ==
  \/ Lookup(h) \/ Choose(h) \/ Place(h)
  \/ Locate(h) \/ LocateTorn(h) \/ LocateFails(h)

-----------------------------------------------------------------------------
\* CheckChunkServers drops a server; a heartbeat or a registration brings it back.
Leave(s) ==
  /\ running /\ s \in available
  /\ available' = available \ {s}
  /\ UNCHANGED <<vars, running, placement, call>>

Join(s) ==
  /\ running /\ s \notin available
  /\ available' = available \cup {s}
  /\ UNCHANGED <<vars, running, placement, call>>

\* The handlers that are one method of the store.  An entry that a report removes
\* takes its servers with it.
ShortCall ==
  /\ running
  /\ \/ \E p \in Path : CreateFile(p) \/ DeleteFile(p)
     \/ \E m \in issued, size \in Reported : UpdateMasterMetadata(m, size)
  /\ primary'  = [c \in Handle |-> IF c \in DOMAIN chunkLocations' THEN primary[c] ELSE NoServer]
  /\ replicas' = [c \in Handle |-> IF c \in DOMAIN chunkLocations' THEN replicas[c] ELSE {}]
  /\ UNCHANGED <<running, available, call>>

ServerNext ==
  \/ \E h \in Handler, p \in Path :
       \/ \E offset \in 0 .. MaxLen - 1 : \E length \in 1 .. MaxLen - offset :
            BeginWrite(h, p, offset, length)
       \/ \E length \in 1 .. MaxLen : BeginAppend(h, p, length)
       \/ \E index \in 0 .. MaxHandle : BeginAllocate(h, p, index)
  \/ \E h \in Handler : HandlerStep(h) \/ \E c \in Handle : BeginLocate(h, c)
  \/ \E s \in Server : Leave(s) \/ Join(s)
  \/ ShortCall

ServerSpec == ServerInit /\ [][ServerNext]_serverVars
-----------------------------------------------------------------------------
Placing(h, c) == call[h].pc = "place" /\ Current(h) = c

\* A placed chunk that no handler is at work on has three servers at least,
\* however many handlers placed it at the same time ("The default replication
\* factor is 3", README.md:168).
PlacedOnThree ==
  \A c \in DOMAIN chunkLocations :
    primary[c] # NoServer => \/ Cardinality(Servers(c)) >= Copies
                             \/ \E h \in Handler : Placing(h, c)
=============================================================================
