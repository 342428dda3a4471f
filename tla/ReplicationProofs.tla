------------------------- MODULE ReplicationProofs -------------------------
(***************************************************************************)
(* Theorems about Replication, for any number of servers, clients, chunks,  *)
(* deaths and failed calls.                                                 *)
(*                                                                          *)
(* The inductive invariant speaks of the chunks that one handler placed     *)
(* alone.  Until that handler is done nobody else has anything of the       *)
(* chunk.  From then on a write keeps in its location every listed server   *)
(* it has not given the file to, and a repair's destination stays unlisted, *)
(* so that no failed write cleans up the new copy.                          *)
(***************************************************************************)
EXTENDS Replication, TLAPS

\* Nobody but the handlers that are placing the chunk has come across it.
Unwritten(c) ==
  /\ \A s \in Server : c \notin disk[s] /\ c \notin reported[s]
  /\ c \notin hit /\ c \notin acked
  /\ \A k \in Client : call[k].chunk = c => Placing(k, c)

NoDoubles(seq) == \A i, j \in DOMAIN seq : seq[i] = seq[j] => i = j

\* The handler that places the chunk is alone, and the servers it has not entered
\* yet are not in the list.
PlacementSound(c) ==
  /\ primary[c] = NoServer => replicas[c] = << >> /\ Unwritten(c)
  /\ \A k \in Client : Placing(k, c) =>
       /\ Unwritten(c)
       /\ \A other \in Client : Placing(other, c) => other = k
       /\ call[k].pc \in {"choose", "primary"} => replicas[c] = << >>
       /\ call[k].pc = "replica" => primary[c] # NoServer
       /\ call[k].pc \in {"primary", "replica"} =>
            /\ NoDoubles(call[k].servers)
            /\ \A s \in ToSet(call[k].servers) : s \notin ToSet(replicas[c])

Has(c, s) == c \in disk[s] \/ <<c, s>> \in cleaned

\* What a write has still to do reaches every listed server without the file.
CallsSound(c) ==
  \A k \in Client : call[k].chunk = c =>
    /\ call[k].pc = "list" => primary[c] \in ToSet(replicas[c]) \cup {call[k].primary}
    /\ call[k].pc \in {"write", "forward", "cleanup"} => ToSet(call[k].servers) \subseteq ToSet(replicas[c])
    /\ call[k].pc \in {"write", "forward"} =>
         \A s \in Listed(c) : \/ Has(c, s) \/ s \in ToSet(call[k].servers)
                              \/ call[k].pc = "write" /\ s = call[k].primary

\* The copy under way goes to a server the chunk does not list, and it is there
\* when the answer comes.
JobSound(c) ==
  phase \in {"copy", "reply"} /\ job.chunk = c =>
    /\ c \in hit
    /\ job.destination \notin Listed(c)
    /\ phase = "reply" => c \in disk[job.destination]

Sound(c) ==
  /\ PlacementSound(c)
  /\ CallsSound(c)
  /\ JobSound(c)
  /\ c \in acked => \A s \in Listed(c) : Has(c, s)
  /\ NoDoubles(replicas[c])

IInv == TypeOK /\ \A c \in Chunk \ early : Sound(c)

-----------------------------------------------------------------------------
\* What a list contains before and after a server is added to it.
LEMMA AppendedServer ==
  ASSUME NEW seq \in Seq(Server), NEW s \in Server
  PROVE  /\ Append(seq, s) \in Seq(Server)
         /\ ToSet(Append(seq, s)) = ToSet(seq) \cup {s}
         /\ NoDoubles(seq) /\ s \notin ToSet(seq) => NoDoubles(Append(seq, s))
  <1>1. /\ Append(seq, s) \in Seq(Server) /\ Len(seq) \in Nat
        /\ DOMAIN seq = 1 .. Len(seq) /\ DOMAIN Append(seq, s) = 1 .. Len(seq) + 1
        /\ \A i \in 1 .. Len(seq) : Append(seq, s)[i] = seq[i] /\ seq[i] \in Server
        /\ Append(seq, s)[Len(seq) + 1] = s
    OBVIOUS
  <1>2. ToSet(Append(seq, s)) = ToSet(seq) \cup {s}
    BY <1>1 DEF ToSet
  <1>3. NoDoubles(seq) /\ s \notin ToSet(seq) => NoDoubles(Append(seq, s))
    BY <1>1 DEF ToSet, NoDoubles
  <1> QED
    BY <1>1, <1>2, <1>3

\* Likewise when its first server is taken off.
LEMMA TakenServer ==
  ASSUME NEW seq \in Seq(Server), seq # << >>
  PROVE  /\ Head(seq) \in Server /\ Tail(seq) \in Seq(Server)
         /\ Len(Tail(seq)) = Len(seq) - 1 /\ Len(seq) \in Nat \ {0}
         /\ ToSet(seq) = ToSet(Tail(seq)) \cup {Head(seq)}
         /\ NoDoubles(seq) => NoDoubles(Tail(seq)) /\ Head(seq) \notin ToSet(Tail(seq))
  <1>1. /\ Len(seq) \in Nat \ {0} /\ DOMAIN seq = 1 .. Len(seq) /\ Head(seq) = seq[1]
        /\ Tail(seq) \in Seq(Server) /\ Len(Tail(seq)) = Len(seq) - 1
        /\ DOMAIN Tail(seq) = 1 .. Len(seq) - 1
        /\ \A i \in 1 .. Len(seq) - 1 : Tail(seq)[i] = seq[i + 1]
        /\ \A i \in 1 .. Len(seq) : seq[i] \in Server
    OBVIOUS
  <1>2. \A i \in 2 .. Len(seq) : seq[i] = Tail(seq)[i - 1] /\ i - 1 \in DOMAIN Tail(seq)
    BY <1>1
  <1>3. ToSet(seq) = ToSet(Tail(seq)) \cup {Head(seq)}
    <2>1. ASSUME NEW s \in ToSet(seq) PROVE s \in ToSet(Tail(seq)) \cup {Head(seq)}
      <3>1. PICK i \in 1 .. Len(seq) : seq[i] = s
        BY <1>1 DEF ToSet
      <3>2. CASE i = 1
        BY <1>1, <3>1, <3>2
      <3>3. CASE i \in 2 .. Len(seq)
        BY <1>2, <3>1, <3>3 DEF ToSet
      <3> QED
        BY <1>1, <3>2, <3>3
    <2>2. \A i \in DOMAIN Tail(seq) : Tail(seq)[i] \in ToSet(seq)
      BY <1>1 DEF ToSet
    <2>3. ToSet(Tail(seq)) \subseteq ToSet(seq) /\ Head(seq) \in ToSet(seq)
      BY <1>1, <2>2 DEF ToSet
    <2> QED
      BY <2>1, <2>3
  <1>4. NoDoubles(seq) => NoDoubles(Tail(seq)) /\ Head(seq) \notin ToSet(Tail(seq))
    BY <1>1 DEF ToSet, NoDoubles
  <1> QED
    BY <1>1, <1>3, <1>4

LEMMA ShorterTail ==
  ASSUME NEW seq \in Seq(Server), Len(seq) \in 1 .. 2
  PROVE  Tail(seq) # seq
  <1>1. seq # << >>
    <2>1. Len(<< >>) = 0
      OBVIOUS
    <2> QED
      BY <2>1
  <1>2. Len(Tail(seq)) = Len(seq) - 1 /\ Len(seq) \in Nat
    BY <1>1, TakenServer
  <1> QED
    BY <1>2

LEMMA ListTyped ==
  ASSUME NEW seq \in Seq(Server)
  PROVE  /\ ToSet(seq) \subseteq Server
         /\ \A i \in DOMAIN seq : seq[i] \in ToSet(seq)
  BY DEF ToSet

LEMMA PlanTyped ==
  ASSUME TypeOK, NEW c \in Chunk, PlanRepair(c)
  PROVE  /\ job' \in Job /\ job'.chunk = c /\ job'.destination \in Server \ Listed(c)
  <1>1. PICK source \in Sources(c), destination \in Destinations(c) :
          job' = [chunk |-> c, source |-> source, destination |-> destination]
    BY DEF PlanRepair
  <1>2. destination \in Server \ Listed(c)
    BY DEF Destinations, TypeOK
  <1>3. source \in Server
    <2>1. replicas[c] \in Seq(Server)
      BY DEF TypeOK
    <2> QED
      BY <2>1, ListTyped DEF Sources, TypeOK
  <1> QED
    BY <1>1, <1>2, <1>3 DEF Job

-----------------------------------------------------------------------------
LEMMA InitTypeOK == Init => TypeOK
  BY ReplicationAssumption DEF Init, TypeOK, Phase, Idle

\* The type of the calls after client k has taken a step in one of them.
CallOK(r) ==
  /\ r \in Call \cup {Idle}
  /\ r.pc = "primary" => Len(r.servers) = 3
  /\ r.pc = "replica" => Len(r.servers) \in 1 .. 2
  /\ r.pc = "cleanup" => r.servers # << >>
  /\ r.pc \in {"list", "write", "forward", "cleanup"} => r.primary \in Server

CallsOK == call \in [Client -> Call \cup {Idle}] /\ \A k \in Client : CallOK(call[k])

LEMMA CallTyped ==
  ASSUME TypeOK, NEW k \in Client
  PROVE  /\ CallOK(call[k])
         /\ call[k].pc # "idle" =>
              /\ call[k] \in Call /\ call[k].chunk \in Chunk /\ call[k].servers \in Seq(Server)
              /\ call[k].primary \in Server \cup {NoServer}
  BY DEF TypeOK, CallOK, Call, Idle

LEMMA IdleOK == CallOK(Idle)
  BY DEF CallOK, Idle

LEMMA CallStep ==
  ASSUME TypeOK, NEW k \in Client, NEW r, CallOK(r), call' = [call EXCEPT ![k] = r]
  PROVE  CallsOK'
  <1>1. call' \in [Client -> Call \cup {Idle}] /\ \A l \in Client : call'[l] = IF l = k THEN r ELSE call[l]
    BY DEF TypeOK, CallOK
  <1>2. \A l \in Client : CallOK(call'[l])
    BY <1>1, CallTyped
  <1> QED
    BY <1>1, <1>2 DEF CallsOK, CallOK

\* What client k's call is after its step.
Moved(k, pc, chunk, server, seq) ==
  call' = [call EXCEPT ![k] = [pc |-> pc, chunk |-> chunk, primary |-> server, servers |-> seq]]

LEMMA WriteMoves ==
  ASSUME TypeOK, NEW k \in Client
  PROVE  LET r == call[k] IN
         /\ \A c \in Chunk : Lookup(k, c) =>
              r = Idle /\ Moved(k, IF primary[c] = NoServer THEN "choose" ELSE "locate", c, NoServer, << >>)
         /\ Choose(k) =>
              \E s1, s2, s3 \in Server : /\ s1 # s2 /\ s1 # s3 /\ s2 # s3
                                         /\ Moved(k, "primary", r.chunk, NoServer, <<s1, s2, s3>>)
         /\ SetPrimary(k) => Moved(k, "replica", r.chunk, r.primary, Tail(r.servers))
         /\ SetReplica(k) => Moved(k, IF Len(r.servers) = 1 THEN "locate" ELSE "replica",
                                   r.chunk, r.primary, Tail(r.servers))
         /\ Locate(k) => \/ call' = [call EXCEPT ![k] = Idle]
                         \/ /\ primary[r.chunk] \in Server
                            /\ Moved(k, "list", r.chunk, primary[r.chunk], r.servers)
         /\ ListReplicas(k) => Moved(k, "write", r.chunk, r.primary, replicas[r.chunk])
         /\ WritePrimary(k) => Moved(k, "forward", r.chunk, r.primary, r.servers)
         /\ Forward(k) => Moved(k, "forward", r.chunk, r.primary, Tail(r.servers))
         /\ ForwardFails(k) => Moved(k, "cleanup", r.chunk, r.primary, r.servers)
  <1> DEFINE r == call[k]
  <1>0. /\ call \in [Client -> Call \cup {Idle}] /\ available \subseteq Server
        /\ r = Idle \/ r \in Call
    BY DEF TypeOK
  <1>1. ASSUME NEW c \in Chunk, Lookup(k, c)
        PROVE  r = Idle /\ Moved(k, IF primary[c] = NoServer THEN "choose" ELSE "locate", c, NoServer, << >>)
    <2>1. r = Idle
      BY <1>0, <1>1 DEF Lookup, At, Call
    <2> QED
      BY <1>0, <1>1, <2>1 DEF Lookup, Moved, Idle
  <1>2. ASSUME r.pc # "idle"
        PROVE  r \in Call
    BY <1>0, <1>2 DEF Idle
  <1>3. Choose(k) => \E s1, s2, s3 \in Server : /\ s1 # s2 /\ s1 # s3 /\ s2 # s3
                                                /\ Moved(k, "primary", r.chunk, NoServer, <<s1, s2, s3>>)
    BY <1>0 DEF Choose, Moved
  <1>4. SetPrimary(k) => Moved(k, "replica", r.chunk, r.primary, Tail(r.servers))
    BY <1>0, <1>2 DEF SetPrimary, At, Moved, Call
  <1>5. SetReplica(k) => Moved(k, IF Len(r.servers) = 1 THEN "locate" ELSE "replica",
                               r.chunk, r.primary, Tail(r.servers))
    BY <1>0, <1>2 DEF SetReplica, At, Moved, Call
  <1>6. Locate(k) => \/ call' = [call EXCEPT ![k] = Idle]
                     \/ /\ primary[r.chunk] \in Server
                        /\ Moved(k, "list", r.chunk, primary[r.chunk], r.servers)
    BY <1>0, <1>2 DEF Locate, At, Moved, Call, Hangup
  <1>7. ListReplicas(k) => Moved(k, "write", r.chunk, r.primary, replicas[r.chunk])
    BY <1>0, <1>2 DEF ListReplicas, At, Moved, Call
  <1>8. WritePrimary(k) => Moved(k, "forward", r.chunk, r.primary, r.servers)
    BY <1>0, <1>2 DEF WritePrimary, At, Moved, Call
  <1>9. Forward(k) => Moved(k, "forward", r.chunk, r.primary, Tail(r.servers))
    BY <1>0, <1>2 DEF Forward, Forwarding, At, Moved, Call
  <1>10. ForwardFails(k) => Moved(k, "cleanup", r.chunk, r.primary, r.servers)
    BY <1>0, <1>2 DEF ForwardFails, Forwarding, At, Moved, Call
  <1> QED
    BY <1>1, <1>3, <1>4, <1>5, <1>6, <1>7, <1>8, <1>9, <1>10

-----------------------------------------------------------------------------
(***************************************************************************)
(* Types.                                                                  *)
(***************************************************************************)
\* The part of TypeOK that is not about calls.
RestOK ==
  /\ up \subseteq Server /\ joining \subseteq up
  /\ disk \in [Server -> SUBSET Chunk]
  /\ expired \subseteq available /\ available \subseteq Server
  /\ reported \in [Server -> SUBSET Chunk]
  /\ primary \in [Chunk -> Server \cup {NoServer}]
  /\ replicas \in [Chunk -> Seq(Server)]
  /\ acked \subseteq Chunk /\ early \subseteq Chunk /\ cleaned \subseteq Chunk \X Server
  /\ phase \in Phase
  /\ hit \subseteq Chunk /\ todo \subseteq hit
  /\ job \in Job \cup {NoJob}
  /\ phase \in {"copy", "reply"} => job \in Job
  /\ crashes \in 0 .. MaxCrash /\ faults \in 0 .. MaxFault

LEMMA TypeSplit == TypeOK <=> CallsOK /\ RestOK
  BY DEF TypeOK, CallsOK, CallOK, RestOK

LEMMA FaultTyped == TypeOK /\ Fault => crashes' \in 0 .. MaxCrash /\ faults' \in 0 .. MaxFault
  BY ReplicationAssumption DEF TypeOK, Fault

LEMMA WriteTyped ==
  ASSUME TypeOK, NEW k \in Client, Write(k)
  PROVE  CallsOK' /\ RestOK'
  <1> DEFINE r == call[k]
  <1>0. /\ CallOK(r)
        /\ r.pc # "idle" => /\ r \in Call /\ r.chunk \in Chunk /\ r.servers \in Seq(Server)
                            /\ r.primary \in Server \cup {NoServer}
    BY CallTyped
  <1>1. ASSUME NEW c \in Chunk, Lookup(k, c) PROVE CallsOK' /\ RestOK'
    <2> DEFINE new == [pc |-> IF primary[c] = NoServer THEN "choose" ELSE "locate",
                       chunk |-> c, primary |-> NoServer, servers |-> << >>]
    <2>1. CallOK(new)
      BY DEF CallOK, Call
    <2>2. call' = [call EXCEPT ![k] = new]
      BY <1>1, WriteMoves DEF Moved
    <2>3. RestOK'
      BY <1>1 DEF Lookup, TypeOK, RestOK, cluster, members, table, detector, budget
    <2> HIDE DEF new
    <2> QED
      BY <2>1, <2>2, <2>3, CallStep
  <1>2. CASE Choose(k)
    <2>1. PICK s1, s2, s3 \in Server : Moved(k, "primary", r.chunk, NoServer, <<s1, s2, s3>>)
      BY <1>2, WriteMoves
    <2> DEFINE new == [pc |-> "primary", chunk |-> r.chunk, primary |-> NoServer, servers |-> <<s1, s2, s3>>]
    <2>2. CallOK(new)
      <3>1. <<s1, s2, s3>> \in Seq(Server) /\ Len(<<s1, s2, s3>>) = 3
        OBVIOUS
      <3>2. r.chunk \in Chunk /\ r.primary \in Server \cup {NoServer}
        BY <1>0, <1>2 DEF Choose, At
      <3> QED
        BY <3>1, <3>2 DEF CallOK, Call
    <2>3. RestOK'
      BY <1>2 DEF Choose, TypeOK, RestOK, cluster, members, table, history, detector, budget
    <2> HIDE DEF new
    <2> QED
      BY <2>1, <2>2, <2>3, CallStep DEF Moved, new
  <1>3. CASE SetPrimary(k)
    <2> DEFINE new == [pc |-> "replica", chunk |-> r.chunk, primary |-> r.primary, servers |-> Tail(r.servers)]
    <2>0. /\ r.chunk \in Chunk /\ r.primary \in Server \cup {NoServer}
          /\ r.servers \in Seq(Server) /\ Len(r.servers) = 3
      BY <1>0, <1>3 DEF SetPrimary, At, CallOK
    <2>1. /\ Head(r.servers) \in Server /\ Tail(r.servers) \in Seq(Server) /\ Len(Tail(r.servers)) = 2
      <3>1. r.servers # << >>
        <4>1. Len(r.servers) = 3
          BY <2>0
        <4> QED
          BY <4>1
      <3> QED
        BY <2>0, <3>1, TakenServer
    <2>2. CallOK(new)
      BY <2>0, <2>1 DEF CallOK, Call
    <2>3. primary' \in [Chunk -> Server \cup {NoServer}]
      BY <1>3, <2>1 DEF SetPrimary, TypeOK
    <2>4. RestOK'
      BY <1>3, <2>3 DEF SetPrimary, TypeOK, RestOK, cluster, members, history, detector, budget
    <2>5. call' = [call EXCEPT ![k] = new]
      BY <1>3, WriteMoves DEF Moved
    <2> HIDE DEF new
    <2> QED
      BY <2>2, <2>4, <2>5, CallStep
  <1>4. CASE SetReplica(k)
    <2> DEFINE new == [pc |-> IF Len(r.servers) = 1 THEN "locate" ELSE "replica",
                       chunk |-> r.chunk, primary |-> r.primary, servers |-> Tail(r.servers)]
    <2>0. /\ r.chunk \in Chunk /\ r.primary \in Server \cup {NoServer}
          /\ r.servers \in Seq(Server) /\ Len(r.servers) \in 1 .. 2
      BY <1>0, <1>4 DEF SetReplica, At, CallOK
    <2>1. /\ Head(r.servers) \in Server /\ Tail(r.servers) \in Seq(Server)
          /\ Len(Tail(r.servers)) = Len(r.servers) - 1
      BY <2>0, TakenServer
    <2>2. CallOK(new)
      BY <2>0, <2>1 DEF CallOK, Call
    <2>3. replicas' \in [Chunk -> Seq(Server)]
      <3>1. Append(replicas[r.chunk], Head(r.servers)) \in Seq(Server)
        BY <2>0, <2>1 DEF TypeOK
      <3> QED
        BY <1>4, <3>1 DEF SetReplica, TypeOK
    <2>4. RestOK'
      BY <1>4, <2>3 DEF SetReplica, TypeOK, RestOK, cluster, members, history, detector, budget
    <2>5. call' = [call EXCEPT ![k] = new]
      BY <1>4, WriteMoves DEF Moved
    <2> HIDE DEF new
    <2> QED
      BY <2>2, <2>4, <2>5, CallStep
  <1>5. CASE Locate(k)
    <2> DEFINE new == [pc |-> "list", chunk |-> r.chunk, primary |-> primary[r.chunk], servers |-> r.servers]
    <2>0. r.chunk \in Chunk /\ r.servers \in Seq(Server)
      BY <1>0, <1>5 DEF Locate, At
    <2>1. primary[r.chunk] \in Server => CallOK(new)
      BY <2>0 DEF CallOK, Call
    <2>2. RestOK'
      BY <1>5 DEF Locate, TypeOK, RestOK, cluster, members, table, history, detector, budget
    <2>3. call' = [call EXCEPT ![k] = Idle] \/ (primary[r.chunk] \in Server /\ call' = [call EXCEPT ![k] = new])
      BY <1>5, WriteMoves DEF Moved
    <2> HIDE DEF new
    <2> QED
      BY <2>1, <2>2, <2>3, CallStep, IdleOK
  <1>6. CASE ListReplicas(k)
    <2> DEFINE new == [pc |-> "write", chunk |-> r.chunk, primary |-> r.primary, servers |-> replicas[r.chunk]]
    <2>1. CallOK(new)
      <3>1. r.chunk \in Chunk /\ r.primary \in Server
        BY <1>0, <1>6 DEF ListReplicas, At, CallOK
      <3>2. replicas[r.chunk] \in Seq(Server)
        BY <3>1 DEF TypeOK
      <3> QED
        BY <3>1, <3>2 DEF CallOK, Call
    <2>2. RestOK'
      BY <1>6 DEF ListReplicas, TypeOK, RestOK, cluster, members, table, history, detector, budget
    <2>3. call' = [call EXCEPT ![k] = new]
      BY <1>6, WriteMoves DEF Moved
    <2> HIDE DEF new
    <2> QED
      BY <2>1, <2>2, <2>3, CallStep
  <1>7. CASE WritePrimary(k) \/ Forward(k) \/ ForwardFails(k)
    <2>0. /\ r.chunk \in Chunk /\ r.primary \in Server /\ r.servers \in Seq(Server)
          /\ Forward(k) \/ ForwardFails(k) => r.servers # << >>
      BY <1>0, <1>7 DEF WritePrimary, Forward, ForwardFails, Forwarding, At, CallOK, TypeOK
    <2>1. r.servers # << >> => Tail(r.servers) \in Seq(Server) /\ Head(r.servers) \in Server
      BY <2>0, TakenServer
    <2>2. \A pc \in {"forward", "cleanup"} : \A seq \in Seq(Server) : pc = "forward" \/ seq # << >> =>
            CallOK([pc |-> pc, chunk |-> r.chunk, primary |-> r.primary, servers |-> seq])
      BY <2>0 DEF CallOK, Call
    <2>3. \E pc \in {"forward", "cleanup"}, seq \in Seq(Server) :
            /\ pc = "forward" \/ seq # << >>
            /\ call' = [call EXCEPT ![k] = [pc |-> pc, chunk |-> r.chunk, primary |-> r.primary, servers |-> seq]]
      BY <1>7, <2>0, <2>1, WriteMoves DEF Moved
    <2>4. CallsOK'
      BY <2>2, <2>3, CallStep
    <2>5. \A s \in Server : WithFile(r.chunk, s) \in [Server -> SUBSET Chunk]
      BY <2>0 DEF WithFile, TypeOK
    <2>6. disk' \in [Server -> SUBSET Chunk]
      BY <1>7, <2>0, <2>1, <2>5 DEF WritePrimary, Forward, ForwardFails, Target, TypeOK
    <2>7. crashes' \in 0 .. MaxCrash /\ faults' \in 0 .. MaxFault
      BY <1>7, FaultTyped DEF WritePrimary, Forward, ForwardFails, budget, TypeOK
    <2>8. UNCHANGED <<up, joining, members, table, history, detector>>
      BY <1>7 DEF WritePrimary, Forward, ForwardFails
    <2>9. RestOK'
      BY <2>6, <2>7, <2>8 DEF TypeOK, RestOK, members, table, history, detector
    <2> QED
      BY <2>4, <2>9
  <1>8. CASE WriteFails(k) \/ CleanupFails(k) \/ AnswerFails(k) \/ Cleanup(k) \/ Acknowledge(k)
    <2>0. /\ r.chunk \in Chunk /\ r.primary \in Server
          /\ Cleanup(k) => Head(r.servers) \in Server
      <3>1. r.pc \in {"write", "forward", "cleanup"} /\ (Cleanup(k) => r.pc = "cleanup")
        BY <1>8 DEF WriteFails, CleanupFails, AnswerFails, Cleanup, Acknowledge, At
      <3> QED
        BY <1>0, <3>1, TakenServer DEF CallOK
    <2>1. CallsOK'
      BY <1>8, CallStep, IdleOK DEF WriteFails, CleanupFails, AnswerFails, Cleanup, Acknowledge, Hangup
    <2>2. disk' \in [Server -> SUBSET Chunk]
      BY <1>8, <2>0 DEF WriteFails, CleanupFails, AnswerFails, Cleanup, Acknowledge, WithFile, Target, TypeOK, cluster
    <2>3. crashes' \in 0 .. MaxCrash /\ faults' \in 0 .. MaxFault
      BY <1>8, FaultTyped DEF WriteFails, CleanupFails, AnswerFails, Cleanup, Acknowledge, budget, TypeOK
    <2>4. UNCHANGED <<up, joining, members, table, early, detector>>
      BY <1>8 DEF WriteFails, CleanupFails, AnswerFails, Cleanup, Acknowledge, cluster, history
    <2>5. acked' \subseteq Chunk /\ cleaned' \subseteq Chunk \X Server
      BY <1>8, <2>0 DEF WriteFails, CleanupFails, AnswerFails, Cleanup, Acknowledge, history, Target, TypeOK
    <2>6. RestOK'
      BY <2>2, <2>3, <2>4, <2>5 DEF TypeOK, RestOK, members, table, detector
    <2> QED
      BY <2>1, <2>6
  <1> QED
    BY <1>1, <1>2, <1>3, <1>4, <1>5, <1>6, <1>7, <1>8 DEF Write

LEMMA ServerTyped ==
  ASSUME TypeOK, NEW s \in Server, Crash(s) \/ Restart(s) \/ Register(s) \/ Heartbeat(s) \/ Expire(s)
  PROVE  CallsOK' /\ RestOK'
  <1> USE DEF TypeOK, RestOK, table, detector, members, cluster, history, budget
  <1>0. CallsOK
    BY TypeSplit
  <1>1. CASE Crash(s)
    <2>1. \A k \in Client : call'[k] = call[k] \/ call'[k] = Idle
      BY <1>1 DEF Crash
    <2>2. call' \in [Client -> Call \cup {Idle}]
      BY <1>1 DEF Crash
    <2>3. \A k \in Client : CallOK(call'[k])
      BY <2>1, CallTyped, IdleOK
    <2>4. RestOK'
      BY <1>1, ReplicationAssumption DEF Crash
    <2> QED
      BY <2>2, <2>3, <2>4 DEF CallsOK, CallOK
  <1>2. CASE Restart(s)
    BY <1>0, <1>2 DEF Restart, CallsOK, CallOK
  <1>3. CASE Register(s)
    BY <1>0, <1>3 DEF Register, CallsOK, CallOK
  <1>4. CASE Heartbeat(s)
    BY <1>0, <1>4 DEF Heartbeat, CallsOK, CallOK
  <1>5. CASE Expire(s)
    <2>1. crashes' \in 0 .. MaxCrash /\ faults' \in 0 .. MaxFault
      BY <1>5, FaultTyped DEF Expire
    <2> QED
      BY <1>0, <1>5, <2>1 DEF Expire, CallsOK, CallOK
  <1> QED
    BY <1>1, <1>2, <1>3, <1>4, <1>5

LEMMA DetectorTyped ==
  ASSUME TypeOK, Detector
  PROVE  CallsOK' /\ RestOK'
  <1> USE DEF RestOK, table, members, cluster, history, budget
  <1>r. RestOK
    BY TypeSplit
  <1>0. CallsOK' /\ UNCHANGED <<call, acked, early, cleaned, up, joining, crashes>>
    <2>1. UNCHANGED <<call, acked, early, cleaned, up, joining, crashes>>
      BY DEF Detector, CheckChunkServers, SkipRepair, PlanRepair, KeepPrimary, Promote, Copy, CopyFails,
             ReplyLost, Record, EndRepairs, EndRound, GiveUp, Fault
    <2>2. CallsOK
      BY TypeSplit
    <2> QED
      BY <2>1, <2>2 DEF CallsOK, CallOK
  <1> SUFFICES RestOK'
    BY <1>0
  <1>1. CASE CheckChunkServers
    <2>1. hit' \subseteq Chunk /\ reported' \in [Server -> SUBSET Chunk]
      BY <1>r, <1>1 DEF CheckChunkServers
    <2> QED
      BY <1>r, <1>1, <2>1 DEF CheckChunkServers, Phase
  <1>2. ASSUME NEW c \in Chunk, SkipRepair(c) \/ KeepPrimary(c) PROVE RestOK'
    BY <1>r, <1>2 DEF SkipRepair, KeepPrimary, Phase
  <1>3. ASSUME NEW c \in Chunk, PlanRepair(c) PROVE RestOK'
    <2>1. job' \in Job
      BY <1>r, <1>3, PlanTyped
    <2> QED
      BY <1>r, <1>3, <2>1 DEF PlanRepair, Phase
  <1>4. ASSUME NEW c \in Chunk, Promote(c) PROVE RestOK'
    <2>1. primary' \in [Chunk -> Server \cup {NoServer}]
      BY <1>r, <1>4 DEF Promote, HealthyReplicas
    <2> QED
      BY <1>r, <1>4, <2>1 DEF Promote
  <1>5. CASE Copy
    <2>1. job.chunk \in Chunk
      BY <1>r, <1>5 DEF Copy, Job
    <2>2. disk' \in [Server -> SUBSET Chunk]
      BY <1>r, <1>5, <2>1 DEF Copy, WithFile
    <2> QED
      BY <1>r, <1>5, <2>2 DEF Copy, Phase
  <1>6. CASE CopyFails \/ ReplyLost
    <2>1. GiveUp /\ crashes' \in 0 .. MaxCrash /\ faults' \in 0 .. MaxFault
      BY <1>r, <1>6, FaultTyped DEF CopyFails, ReplyLost
    <2> QED
      BY <1>r, <2>1 DEF GiveUp, Phase
  <1>7. CASE Record
    <2>1. job.chunk \in Chunk /\ job.destination \in Server
      BY <1>r, <1>7 DEF Record, Job
    <2>2. Append(replicas[job.chunk], job.destination) \in Seq(Server)
      BY <1>r, <2>1
    <2>3. replicas' \in [Chunk -> Seq(Server)]
      BY <1>r, <1>7, <2>1, <2>2 DEF Record
    <2> QED
      BY <1>r, <1>7, <2>3 DEF Record, Phase
  <1>8. CASE EndRepairs \/ EndRound
    BY <1>r, <1>8 DEF EndRepairs, EndRound, Phase
  <1> QED
    BY <1>1, <1>2, <1>3, <1>4, <1>5, <1>6, <1>7, <1>8 DEF Detector

LEMMA NextTypeOK == TypeOK /\ [Next]_vars => TypeOK'
  <1> SUFFICES ASSUME TypeOK, [Next]_vars PROVE CallsOK' /\ RestOK'
    BY DEF TypeOK, CallsOK, CallOK, RestOK
  <1>1. CASE UNCHANGED vars
    <2>1. CallsOK /\ RestOK
      BY TypeSplit
    <2> QED
      BY <1>1, <2>1 DEF vars, cluster, members, table, history, detector, budget, CallsOK, CallOK, RestOK
  <1> QED
    BY <1>1, ServerTyped, WriteTyped, DetectorTyped DEF Next

\* Every operation of clients, servers and failure detector keeps the types.
THEOREM TypeCorrect == Spec => []TypeOK
  BY InitTypeOK, NextTypeOK, PTL DEF Spec

-----------------------------------------------------------------------------
(***************************************************************************)
(* What each step does to a chunk that one handler placed alone.           *)
(***************************************************************************)
\* A step that does nothing to chunk c, except to forget or repeat a report of it.
LEMMA Untouched ==
  ASSUME NEW c \in Chunk, Sound(c),
         primary'[c] = primary[c], replicas'[c] = replicas[c],
         \A s \in Server : c \in disk'[s] <=> c \in disk[s],
         \A s \in Server : c \in reported'[s] => \E r \in Server : c \in reported[r] \/ c \in disk[r],
         c \in hit' => c \in hit \/ \E r \in Server : c \in reported[r],
         c \in acked' => c \in acked,
         cleaned \subseteq cleaned',
         \A k \in Client : call'[k].chunk = c => call'[k] = call[k],
         phase' \in {"copy", "reply"} /\ job'.chunk = c
           => phase' = phase /\ job' = job /\ (c \in hit => c \in hit'),
         TypeOK, job.destination \in Server \/ phase \notin {"copy", "reply"}
  PROVE  Sound(c)'
  <1>1. Unwritten(c) => Unwritten(c)'
    BY DEF Unwritten, Placing
  <1>2. \A k \in Client : Placing(k, c)' => Placing(k, c) /\ call'[k] = call[k]
    BY DEF Placing
  <1>3. PlacementSound(c)'
    BY <1>1, <1>2 DEF Sound, PlacementSound
  <1>4. \A s : Listed(c)' = Listed(c) /\ (s \in Server /\ Has(c, s) => Has(c, s)')
    BY DEF Listed, Has
  <1>5. Listed(c) \subseteq Server \cup {NoServer} /\ (primary[c] # NoServer => Listed(c) \subseteq Server)
    BY ListTyped DEF Listed, TypeOK
  <1>6. CallsSound(c)'
    <2> SUFFICES ASSUME NEW k \in Client, call'[k].chunk = c
                 PROVE  /\ call'[k].pc = "list" => primary'[c] \in ToSet(replicas'[c]) \cup {call'[k].primary}
                        /\ call'[k].pc \in {"write", "forward", "cleanup"}
                             => ToSet(call'[k].servers) \subseteq ToSet(replicas'[c])
                        /\ call'[k].pc \in {"write", "forward"} =>
                             \A s \in Listed(c)' : \/ Has(c, s)' \/ s \in ToSet(call'[k].servers)
                                                   \/ call'[k].pc = "write" /\ s = call'[k].primary
      BY DEF CallsSound
    <2>1. call'[k] = call[k] /\ call[k].chunk = c
      OBVIOUS
    <2>2. call[k].pc \in {"write", "forward"} => Listed(c) \subseteq Server
      BY <1>5, <2>1 DEF Sound, PlacementSound, Unwritten, Placing
    <2> QED
      BY <1>4, <2>1, <2>2 DEF Sound, CallsSound
  <1>7. JobSound(c)'
    BY <1>4 DEF Sound, JobSound
  <1>8. c \in acked' => \A s \in Listed(c)' : Has(c, s)'
    <2>1. c \in acked => Listed(c) \subseteq Server
      BY <1>5 DEF Sound, PlacementSound, Unwritten
    <2> QED
      BY <1>4, <2>1 DEF Sound
  <1>9. NoDoubles(replicas[c])'
    BY DEF Sound, NoDoubles
  <1> QED
    BY <1>3, <1>6, <1>7, <1>8, <1>9 DEF Sound

\* Once anybody has come across a chunk it is placed, and nobody is placing it.
LEMMA PlacedAndDone ==
  ASSUME TypeOK, NEW c \in Chunk, Sound(c),
         \/ c \in hit \/ c \in acked
         \/ \E s \in Server : c \in disk[s] \/ c \in reported[s]
         \/ \E k \in Client : call[k].chunk = c /\ ~Placing(k, c)
  PROVE  /\ primary[c] \in Server /\ \A k \in Client : ~Placing(k, c)
         /\ replicas[c] \in Seq(Server) /\ ToSet(replicas[c]) \subseteq Server /\ Listed(c) \subseteq Server
  <1>1. ~Unwritten(c)
    BY DEF Unwritten
  <1>2. replicas[c] \in Seq(Server) /\ primary[c] \in Server \cup {NoServer}
    BY DEF TypeOK
  <1> QED
    BY <1>1, <1>2, ListTyped DEF Sound, PlacementSound, Listed

\* The servers and the Master's record of them do nothing to a chunk.
LEMMA QuietStep ==
  ASSUME TypeOK, NEW c \in Chunk, Sound(c),
         \/ \E s \in Server : Crash(s) \/ Restart(s) \/ Register(s) \/ Heartbeat(s) \/ Expire(s)
         \/ CheckChunkServers \/ (\E d \in Chunk : SkipRepair(d) \/ KeepPrimary(d))
         \/ CopyFails \/ ReplyLost \/ EndRepairs \/ EndRound \/ UNCHANGED vars
         \/ \E k \in Client : CleanupFails(k) \/ AnswerFails(k)
  PROVE  Sound(c)'
  <1> USE DEF table, detector, members, cluster, history, budget, vars
  <1>1. UNCHANGED <<primary, replicas, disk, acked, cleaned>>
    BY DEF Crash, Restart, Register, Heartbeat, Expire, CheckChunkServers, SkipRepair, KeepPrimary, CopyFails,
           ReplyLost, EndRepairs, EndRound, CleanupFails, AnswerFails, GiveUp
  <1>2. \A s \in Server : reported'[s] \subseteq reported[s] \cup disk[s]
    <2>0. reported \in [Server -> SUBSET Chunk]
      BY DEF TypeOK
    <2>1. ASSUME NEW s \in Server, Crash(s) \/ Restart(s) \/ Register(s) \/ Heartbeat(s) \/ Expire(s)
          PROVE  \A r \in Server : reported'[r] \subseteq reported[r] \cup disk[r]
      BY <2>0, <2>1 DEF Crash, Restart, Register, Heartbeat, Expire
    <2>2. CASE CheckChunkServers
      BY <2>0, <2>2 DEF CheckChunkServers
    <2>3. CASE CopyFails \/ ReplyLost \/ EndRepairs \/ EndRound \/ UNCHANGED vars
      BY <2>3 DEF CopyFails, ReplyLost, EndRepairs, EndRound, GiveUp
    <2>4. CASE \/ \E d \in Chunk : SkipRepair(d) \/ KeepPrimary(d)
               \/ \E k \in Client : CleanupFails(k) \/ AnswerFails(k)
      BY <2>4 DEF SkipRepair, KeepPrimary, CleanupFails, AnswerFails
    <2> QED
      BY <2>1, <2>2, <2>3, <2>4
  <1>3. c \in hit' => c \in hit \/ \E r \in Server : c \in reported[r]
    BY DEF Crash, Restart, Register, Heartbeat, Expire, CheckChunkServers, SkipRepair, KeepPrimary, CopyFails,
           ReplyLost, EndRepairs, EndRound, CleanupFails, AnswerFails, GiveUp, TypeOK
  <1>4. \A k \in Client : call'[k] = call[k] \/ call'[k] = Idle
    BY DEF Crash, Restart, Register, Heartbeat, Expire, CheckChunkServers, SkipRepair, KeepPrimary, CopyFails,
           ReplyLost, EndRepairs, EndRound, CleanupFails, AnswerFails, GiveUp, TypeOK, Hangup
  <1>5. phase' \in {"copy", "reply"} => phase' = phase /\ job' = job /\ hit' = hit
    <2>1. CASE CheckChunkServers \/ CopyFails \/ ReplyLost \/ EndRepairs \/ EndRound
      <3>1. phase' \in {"repair", "primaries", "wait"}
        BY <2>1 DEF CheckChunkServers, CopyFails, ReplyLost, EndRepairs, EndRound, GiveUp
      <3> QED
        BY <3>1
    <2>2. ASSUME NEW d \in Chunk, SkipRepair(d) \/ KeepPrimary(d)
          PROVE  phase' = phase /\ job' = job /\ hit' = hit
      BY <2>2 DEF SkipRepair, KeepPrimary
    <2>3. CASE (\E k \in Client : CleanupFails(k) \/ AnswerFails(k)) \/ UNCHANGED vars
      BY <2>3 DEF CleanupFails, AnswerFails
    <2>4. ASSUME NEW s \in Server, Crash(s) \/ Restart(s) \/ Register(s) \/ Heartbeat(s) \/ Expire(s)
          PROVE  phase' = phase /\ job' = job /\ hit' = hit
      BY <2>4 DEF Crash, Restart, Register, Heartbeat, Expire
    <2> QED
      BY <2>1, <2>2, <2>3, <2>4
  <1>6. Idle.chunk # c
    BY ReplicationAssumption DEF Idle
  <1>7. job.destination \in Server \/ phase \notin {"copy", "reply"}
    BY DEF TypeOK, Job
  <1> QED
    BY <1>1, <1>2, <1>3, <1>4, <1>5, <1>6, <1>7, Untouched

\* A step of a handler or write that is busy with another chunk.
LEMMA OtherCall ==
  ASSUME TypeOK, NEW c \in Chunk, Sound(c), NEW k \in Client, Write(k),
         call[k].chunk # c, ~Lookup(k, c)
  PROVE  Sound(c)'
  <1> USE DEF table, detector, members, cluster, history, budget
  <1> DEFINE d == call[k].chunk
  <1>0. /\ disk \in [Server -> SUBSET Chunk] /\ primary \in [Chunk -> Server \cup {NoServer}]
        /\ replicas \in [Chunk -> Seq(Server)] /\ call \in [Client -> Call \cup {Idle}]
    BY DEF TypeOK
  <1>1. UNCHANGED <<reported, hit, phase, job>>
    BY DEF Write, Lookup, Choose, SetPrimary, SetReplica, Locate, ListReplicas, WritePrimary, WriteFails,
           Forward, ForwardFails, Cleanup, CleanupFails, Acknowledge, AnswerFails
  <1>2. primary'[c] = primary[c] /\ replicas'[c] = replicas[c]
    BY <1>0 DEF Write, Lookup, Choose, SetPrimary, SetReplica, Locate, ListReplicas, WritePrimary, WriteFails,
           Forward, ForwardFails, Cleanup, CleanupFails, Acknowledge, AnswerFails
  <1>3. \A s \in Server : c \in disk'[s] <=> c \in disk[s]
    <2>1. \A s, r \in Server : c \in WithFile(d, s)[r] <=> c \in disk[r]
      BY <1>0 DEF WithFile
    <2>2. UNCHANGED disk \/ (\E s : disk' = WithFile(d, s)) \/ Cleanup(k)
      BY DEF Write, Lookup, Choose, SetPrimary, SetReplica, Locate, ListReplicas, WritePrimary, WriteFails,
             Forward, ForwardFails, CleanupFails, Acknowledge, AnswerFails
    <2>3. \A s : c \in Chunk => \A r \in Server : c \in WithFile(d, s)[r] <=> c \in disk[r]
      BY <1>0 DEF WithFile
    <2>4. CASE Cleanup(k)
      BY <1>0, <2>4 DEF Cleanup
    <2> QED
      BY <2>2, <2>3, <2>4
  <1>4. c \in acked' => c \in acked
    BY DEF Write, Lookup, Choose, SetPrimary, SetReplica, Locate, ListReplicas, WritePrimary, WriteFails,
           Forward, ForwardFails, Cleanup, CleanupFails, Acknowledge, AnswerFails
  <1>5. cleaned \subseteq cleaned'
    BY DEF Write, Lookup, Choose, SetPrimary, SetReplica, Locate, ListReplicas, WritePrimary, WriteFails,
           Forward, ForwardFails, Cleanup, CleanupFails, Acknowledge, AnswerFails
  <1>6. \A l \in Client : call'[l].chunk = c => call'[l] = call[l]
    <2>1. \E r : call' = [call EXCEPT ![k] = r] /\ r.chunk # c
      <3>0. Idle.chunk # c
        BY ReplicationAssumption DEF Idle
      <3>1. ASSUME NEW e \in Chunk, Lookup(k, e) PROVE \E r : call' = [call EXCEPT ![k] = r] /\ r.chunk # c
        BY <3>1, WriteMoves DEF Moved
      <3>2. CASE Choose(k)
        BY <3>2, WriteMoves DEF Moved
      <3>3. CASE SetPrimary(k) \/ SetReplica(k)
        BY <3>3, WriteMoves DEF Moved
      <3>4. CASE Locate(k)
        BY <3>0, <3>4, WriteMoves DEF Moved
      <3>5. CASE ListReplicas(k) \/ WritePrimary(k) \/ Forward(k) \/ ForwardFails(k)
        BY <3>5, WriteMoves DEF Moved
      <3>6. CASE WriteFails(k) \/ Cleanup(k) \/ CleanupFails(k) \/ Acknowledge(k) \/ AnswerFails(k)
        BY <3>0, <3>6 DEF WriteFails, Cleanup, CleanupFails, Acknowledge, AnswerFails, Hangup
      <3> QED
        BY <3>1, <3>2, <3>3, <3>4, <3>5, <3>6 DEF Write
    <2> QED
      BY <1>0, <2>1
  <1>7. job.destination \in Server \/ phase \notin {"copy", "reply"}
    BY DEF TypeOK, Job
  <1> QED
    BY <1>1, <1>2, <1>3, <1>4, <1>5, <1>6, <1>7, Untouched

\* A step of the handler that places the chunk.
LEMMA PlacingStep ==
  ASSUME TypeOK, NEW c \in Chunk, Sound(c), NEW k \in Client, Placing(k, c),
         UNCHANGED <<disk, reported, hit, acked, cleaned, phase, job>>,
         NEW r, call' = [call EXCEPT ![k] = r],
         r.chunk = c, r.pc \in {"choose", "primary", "replica", "locate"},
         r.pc \in {"choose", "primary"} => replicas'[c] = << >>,
         primary'[c] = NoServer => replicas'[c] = << >> /\ r.pc # "locate",
         r.pc = "replica" => primary'[c] # NoServer,
         r.pc \in {"primary", "replica"} =>
           NoDoubles(r.servers) /\ \A s \in ToSet(r.servers) : s \notin ToSet(replicas'[c]),
         NoDoubles(replicas'[c])
  PROVE  Sound(c)'
  <1>0. /\ Unwritten(c) /\ \A l \in Client : call[l].chunk = c => l = k
        /\ \A l \in Client : call'[l] = IF l = k THEN r ELSE call[l]
    BY DEF Sound, PlacementSound, Unwritten, TypeOK
  <1>1. r.pc # "locate" => Unwritten(c)'
    BY <1>0 DEF Unwritten, Placing
  <1>2. \A l \in Client : Placing(l, c)' => l = k /\ r.pc # "locate"
    BY <1>0 DEF Placing
  <1>3. PlacementSound(c)'
    BY <1>0, <1>1, <1>2 DEF PlacementSound
  <1>4. CallsSound(c)'
    BY <1>0 DEF CallsSound
  <1>5. JobSound(c)' /\ c \notin acked'
    BY <1>0 DEF Unwritten, Sound, JobSound
  <1>6. NoDoubles(replicas[c])'
    BY DEF NoDoubles
  <1> QED
    BY <1>3, <1>4, <1>5, <1>6 DEF Sound

\* A step of a write of a placed chunk.
LEMMA PlacedStep ==
  ASSUME TypeOK, NEW c \in Chunk, Sound(c), NEW k \in Client, call[k].chunk = c, ~Placing(k, c),
         UNCHANGED <<primary, replicas, hit, phase, job>>,
         NEW r, call' = [call EXCEPT ![k] = r],
         r.chunk = c => r.pc \notin {"choose", "primary", "replica"},
         \A s \in Listed(c) : Has(c, s) => Has(c, s)',
         phase = "reply" /\ job.chunk = c => c \in disk'[job.destination],
         c \in acked' => c \in acked \/ \A s \in Listed(c) : Has(c, s)',
         r.chunk = c =>
           /\ r.pc = "list" => primary[c] \in ToSet(replicas[c]) \cup {r.primary}
           /\ r.pc \in {"write", "forward", "cleanup"} => ToSet(r.servers) \subseteq ToSet(replicas[c])
           /\ r.pc \in {"write", "forward"} =>
                \A s \in Listed(c) : Has(c, s)' \/ s \in ToSet(r.servers) \/ (r.pc = "write" /\ s = r.primary)
  PROVE  Sound(c)'
  <1>0. /\ primary[c] \in Server /\ \A l \in Client : ~Placing(l, c)
        /\ \A l \in Client : call'[l] = IF l = k THEN r ELSE call[l]
    BY PlacedAndDone DEF TypeOK
  <1>1. primary'[c] # NoServer /\ \A l \in Client : ~Placing(l, c)'
    BY <1>0, ReplicationAssumption DEF Placing
  <1>2. PlacementSound(c)'
    BY <1>1 DEF PlacementSound
  <1>3. Listed(c)' = Listed(c)
    BY DEF Listed
  <1>4. CallsSound(c)'
    BY <1>0, <1>3 DEF Sound, CallsSound
  <1>5. JobSound(c)'
    BY <1>3 DEF Sound, JobSound
  <1>6. NoDoubles(replicas[c])' /\ (c \in acked' => \A s \in Listed(c)' : Has(c, s)')
    BY <1>3 DEF Sound, NoDoubles
  <1> QED
    BY <1>2, <1>4, <1>5, <1>6 DEF Sound

\* A step of the failure detector for a chunk that a dead server had reported.
LEMMA DetectorStep ==
  ASSUME TypeOK, NEW c \in Chunk, Sound(c), c \in hit,
         UNCHANGED <<call, acked, cleaned>>,
         \A s \in Server : c \in disk[s] => c \in disk'[s],
         primary'[c] \in {primary[c]} \cup ToSet(replicas[c]),
         ToSet(replicas[c]) \subseteq ToSet(replicas'[c]),
         \A s \in ToSet(replicas'[c]) : s \in ToSet(replicas[c]) \/ c \in disk'[s],
         NoDoubles(replicas'[c]), JobSound(c)'
  PROVE  Sound(c)'
  <1>0. /\ primary[c] \in Server /\ (\A l \in Client : ~Placing(l, c)) /\ Listed(c) \subseteq Server
        /\ ToSet(replicas[c]) \subseteq Server
    BY PlacedAndDone
  <1>1. PlacementSound(c)'
    BY <1>0, ReplicationAssumption DEF PlacementSound, Placing
  <1>2. \A s \in Listed(c) : Has(c, s) => Has(c, s)'
    BY <1>0 DEF Has
  <1>3. \A s \in Listed(c)' : s \in Listed(c) \/ Has(c, s)'
    BY DEF Listed, Has
  <1>4. CallsSound(c)'
    BY <1>2, <1>3 DEF Sound, CallsSound, Listed
  <1>5. NoDoubles(replicas[c])' /\ (c \in acked' => \A s \in Listed(c)' : Has(c, s)')
    BY <1>2, <1>3 DEF Sound, NoDoubles
  <1> QED
    BY <1>1, <1>4, <1>5 DEF Sound

-----------------------------------------------------------------------------
(***************************************************************************)
(* The invariant is kept.                                                  *)
(***************************************************************************)
\* The steps that place chunk c.
LEMMA HandlerSound ==
  ASSUME TypeOK, NEW c \in Chunk, c \notin early', Sound(c), NEW k \in Client,
         \/ Lookup(k, c)
         \/ call[k].chunk = c /\ (Choose(k) \/ SetPrimary(k) \/ SetReplica(k))
  PROVE  Sound(c)'
  <1> USE DEF table, detector, members, cluster, history
  <1> DEFINE r == call[k]
  <1>1. CASE Lookup(k, c)
    <2>1. /\ r = Idle /\ Moved(k, IF primary[c] = NoServer THEN "choose" ELSE "locate", c, NoServer, << >>)
          /\ \A l \in Client : ~Placing(l, c)
      BY <1>1, WriteMoves DEF Lookup
    <2>2. \A l \in Client : l # k => call'[l] = call[l]
      BY <2>1 DEF Moved, TypeOK
    <2>3. /\ call'[k].chunk = c /\ call'[k].pc = IF primary[c] = NoServer THEN "choose" ELSE "locate"
      BY <2>1 DEF Moved, TypeOK
    <2>4. UNCHANGED <<primary, replicas, disk, reported, hit, acked, cleaned, phase, job>>
      BY <1>1 DEF Lookup
    <2>5. primary[c] = NoServer => Unwritten(c)'
      BY <2>2, <2>3, <2>4 DEF Sound, PlacementSound, Unwritten, Placing
    <2>6. \A l \in Client : Placing(l, c)' => l = k /\ primary[c] = NoServer
      BY <2>1, <2>2, <2>3 DEF Placing
    <2>7. PlacementSound(c)'
      BY <2>3, <2>4, <2>5, <2>6 DEF Sound, PlacementSound
    <2>8. CallsSound(c)'
      BY <2>2, <2>3, <2>4 DEF Sound, CallsSound, Listed, Has
    <2> QED
      BY <2>4, <2>7, <2>8 DEF Sound, JobSound, Listed, Has, NoDoubles
  <1>2. CASE r.chunk = c /\ Choose(k)
    <2>1. Placing(k, c) /\ r.pc = "choose"
      BY <1>2 DEF Choose, At, Placing
    <2>2. replicas[c] = << >>
      BY <2>1 DEF Sound, PlacementSound
    <2>3. PICK s1, s2, s3 \in Server : /\ s1 # s2 /\ s1 # s3 /\ s2 # s3
                                       /\ Moved(k, "primary", c, NoServer, <<s1, s2, s3>>)
      BY <1>2, WriteMoves
    <2> DEFINE new == [pc |-> "primary", chunk |-> c, primary |-> NoServer, servers |-> <<s1, s2, s3>>]
    <2>4. NoDoubles(<<s1, s2, s3>>)
      BY <2>3 DEF NoDoubles
    <2>5. UNCHANGED <<primary, replicas, disk, reported, hit, acked, cleaned, phase, job>>
      BY <1>2 DEF Choose
    <2>6. /\ new.chunk = c /\ new.pc = "primary" /\ new.servers = <<s1, s2, s3>>
          /\ call' = [call EXCEPT ![k] = new]
      BY <2>3 DEF Moved
    <2>7. ToSet(replicas'[c]) = {} /\ NoDoubles(replicas'[c])
      BY <2>2, <2>5 DEF ToSet, NoDoubles
    <2> HIDE DEF new
    <2> QED
      BY <2>1, <2>2, <2>4, <2>5, <2>6, <2>7, PlacingStep
  <1>3. CASE r.chunk = c /\ SetPrimary(k)
    <2>1. Placing(k, c) /\ r.pc = "primary"
      BY <1>3 DEF SetPrimary, At, Placing
    <2>2. replicas[c] = << >> /\ NoDoubles(r.servers)
      BY <2>1 DEF Sound, PlacementSound
    <2>3. r.servers \in Seq(Server) /\ Len(r.servers) = 3
      BY <2>1, CallTyped DEF CallOK
    <2>4. r.servers # << >>
      <3>1. Len(r.servers) = 3
        BY <2>3
      <3> QED
        BY <3>1
    <2>5. Head(r.servers) \in Server /\ NoDoubles(Tail(r.servers))
      BY <2>2, <2>3, <2>4, TakenServer
    <2> DEFINE new == [pc |-> "replica", chunk |-> c, primary |-> r.primary, servers |-> Tail(r.servers)]
    <2>6. /\ new.chunk = c /\ new.pc = "replica" /\ new.servers = Tail(r.servers)
          /\ call' = [call EXCEPT ![k] = new]
      BY <1>3, WriteMoves DEF Moved
    <2>7. /\ primary'[c] # NoServer
          /\ UNCHANGED <<replicas, disk, reported, hit, acked, cleaned, phase, job>>
      BY <1>3, <2>5, ReplicationAssumption DEF SetPrimary, TypeOK
    <2>8. ToSet(replicas'[c]) = {} /\ NoDoubles(replicas'[c])
      BY <2>2, <2>7 DEF ToSet, NoDoubles
    <2> HIDE DEF new
    <2> QED
      BY <2>1, <2>5, <2>6, <2>7, <2>8, PlacingStep
  <1>4. CASE r.chunk = c /\ SetReplica(k)
    <2>1. Placing(k, c) /\ r.pc = "replica"
      BY <1>4 DEF SetReplica, At, Placing
    <2>2. /\ primary[c] # NoServer /\ NoDoubles(r.servers) /\ NoDoubles(replicas[c])
          /\ \A s \in ToSet(r.servers) : s \notin ToSet(replicas[c])
      BY <2>1 DEF Sound, PlacementSound
    <2>3. r.servers \in Seq(Server) /\ Len(r.servers) \in 1 .. 2 /\ replicas[c] \in Seq(Server)
      BY <2>1, CallTyped DEF CallOK, TypeOK
    <2>4. /\ Head(r.servers) \in Server /\ NoDoubles(Tail(r.servers))
          /\ ToSet(r.servers) = ToSet(Tail(r.servers)) \cup {Head(r.servers)}
          /\ Head(r.servers) \notin ToSet(Tail(r.servers))
      BY <2>2, <2>3, TakenServer
    <2> DEFINE new == [pc |-> IF Len(r.servers) = 1 THEN "locate" ELSE "replica", chunk |-> c,
                       primary |-> r.primary, servers |-> Tail(r.servers)]
    <2>5. /\ new.chunk = c /\ new.pc \in {"replica", "locate"} /\ new.servers = Tail(r.servers)
          /\ call' = [call EXCEPT ![k] = new]
      BY <1>4, WriteMoves DEF Moved
    <2>6. /\ replicas'[c] = Append(replicas[c], Head(r.servers))
          /\ UNCHANGED <<primary, disk, reported, hit, acked, cleaned, phase, job>>
      BY <1>4 DEF SetReplica, TypeOK
    <2>7. /\ ToSet(replicas'[c]) = ToSet(replicas[c]) \cup {Head(r.servers)}
          /\ NoDoubles(replicas'[c])
      BY <2>2, <2>3, <2>4, <2>6, AppendedServer
    <2> HIDE DEF new
    <2> QED
      BY <2>1, <2>2, <2>4, <2>5, <2>6, <2>7, PlacingStep
  <1> QED
    BY <1>1, <1>2, <1>3, <1>4

\* The steps of a write of chunk c, from its location to the answer.
LEMMA WriteSound ==
  ASSUME TypeOK, NEW c \in Chunk, Sound(c), NEW k \in Client, call[k].chunk = c,
         \/ Locate(k) \/ ListReplicas(k) \/ WritePrimary(k) \/ WriteFails(k)
         \/ Forward(k) \/ ForwardFails(k) \/ Cleanup(k) \/ Acknowledge(k)
  PROVE  Sound(c)'
  <1> USE DEF table, detector, members, cluster, history
  <1> DEFINE r == call[k]
  <1>0. /\ ~Placing(k, c)
        /\ Locate(k) => r.pc = "locate"
        /\ ListReplicas(k) => r.pc = "list"
        /\ WritePrimary(k) \/ WriteFails(k) => r.pc = "write"
        /\ Forward(k) \/ ForwardFails(k) \/ Acknowledge(k) => r.pc = "forward"
        /\ Cleanup(k) => r.pc = "cleanup"
    BY DEF Placing, At, Locate, ListReplicas, WritePrimary, WriteFails, Forward, ForwardFails, Forwarding,
           Cleanup, Acknowledge
  <1>1. /\ Idle.chunk # c /\ Listed(c) \subseteq Server /\ ToSet(replicas[c]) \subseteq Server
        /\ primary[c] \in Server /\ replicas[c] \in Seq(Server) /\ disk \in [Server -> SUBSET Chunk]
    BY <1>0, PlacedAndDone, ReplicationAssumption DEF Idle, TypeOK
  <1>2. UNCHANGED <<primary, replicas, hit, phase, job>>
    BY DEF Locate, ListReplicas, WritePrimary, WriteFails, Forward, ForwardFails, Cleanup, Acknowledge
  <1>3. /\ r.servers \in Seq(Server) /\ r.primary \in Server \cup {NoServer}
        /\ r.pc = "cleanup" => r.servers # << >>
        /\ r.pc \in {"list", "write", "forward", "cleanup"} => r.primary \in Server
    BY <1>0, CallTyped DEF CallOK
  <1>4. ASSUME NEW s \in Server
        PROVE  /\ c \in WithFile(c, s)[s]
               /\ \A q \in Server : c \in disk[q] => c \in WithFile(c, s)[q]
    BY <1>1 DEF WithFile
  <1>5. phase = "reply" /\ job.chunk = c =>
          job.destination \in Server \ Listed(c) /\ c \in disk[job.destination]
    BY DEF Sound, JobSound, TypeOK, Job
  <1>6. CASE Locate(k)
    <2> DEFINE new == [pc |-> "list", chunk |-> c, primary |-> primary[c], servers |-> r.servers]
    <2>1. UNCHANGED <<disk, acked, cleaned>>
      BY <1>6 DEF Locate
    <2>2. call' = [call EXCEPT ![k] = Idle] \/ call' = [call EXCEPT ![k] = new]
      BY <1>6, WriteMoves DEF Moved
    <2>3. new.pc = "list" /\ new.chunk = c /\ new.primary = primary[c]
      OBVIOUS
    <2> HIDE DEF new
    <2>4. \A s \in Listed(c) : Has(c, s) => Has(c, s)'
      BY <2>1 DEF Has
    <2> QED
      BY <1>0, <1>1, <1>2, <1>5, <2>1, <2>2, <2>3, <2>4, PlacedStep
  <1>7. CASE ListReplicas(k)
    <2> DEFINE new == [pc |-> "write", chunk |-> c, primary |-> r.primary, servers |-> replicas[c]]
    <2>1. UNCHANGED <<disk, acked, cleaned>>
      BY <1>7 DEF ListReplicas
    <2>2. call' = [call EXCEPT ![k] = new]
      BY <1>7, WriteMoves DEF Moved
    <2>3. new.pc = "write" /\ new.chunk = c /\ new.primary = r.primary /\ new.servers = replicas[c]
      OBVIOUS
    <2> HIDE DEF new
    <2>4. \A s \in Listed(c) : Has(c, s) => Has(c, s)'
      BY <2>1 DEF Has
    <2>5. primary[c] \in ToSet(replicas[c]) \cup {r.primary}
      BY <1>0, <1>7 DEF Sound, CallsSound
    <2>6. \A s \in Listed(c) : s \in ToSet(replicas[c]) \/ s = r.primary
      BY <2>5 DEF Listed
    <2> QED
      BY <1>0, <1>1, <1>2, <1>5, <2>1, <2>2, <2>3, <2>4, <2>6, PlacedStep
  <1>8. CASE WritePrimary(k)
    <2> DEFINE new == [pc |-> "forward", chunk |-> c, primary |-> r.primary, servers |-> r.servers]
    <2>1. disk' = WithFile(c, r.primary) /\ r.primary \in Server /\ UNCHANGED <<acked, cleaned>>
      BY <1>0, <1>3, <1>8 DEF WritePrimary
    <2>2. call' = [call EXCEPT ![k] = new]
      BY <1>8, WriteMoves DEF Moved
    <2>3. new.pc = "forward" /\ new.chunk = c /\ new.servers = r.servers
      OBVIOUS
    <2> HIDE DEF new
    <2>4. \A s \in Listed(c) : Has(c, s) \/ s = r.primary => Has(c, s)'
      BY <1>1, <1>4, <2>1 DEF Has
    <2>5. /\ ToSet(r.servers) \subseteq ToSet(replicas[c])
          /\ \A s \in Listed(c) : Has(c, s) \/ s \in ToSet(r.servers) \/ s = r.primary
      BY <1>0, <1>8 DEF Sound, CallsSound
    <2>6. phase = "reply" /\ job.chunk = c => c \in disk'[job.destination]
      BY <1>4, <1>5, <2>1
    <2> QED
      BY <1>0, <1>2, <2>1, <2>2, <2>3, <2>4, <2>5, <2>6, PlacedStep
  <1>9. CASE WriteFails(k)
    <2>1. /\ disk' = disk \/ disk' = WithFile(c, r.primary)
          /\ r.primary \in Server /\ UNCHANGED <<acked, cleaned>>
      BY <1>0, <1>3, <1>9 DEF WriteFails
    <2>2. call' = [call EXCEPT ![k] = Idle]
      BY <1>9 DEF WriteFails, Hangup
    <2>3. \A s \in Listed(c) : Has(c, s) => Has(c, s)'
      BY <1>1, <1>4, <2>1 DEF Has
    <2>4. phase = "reply" /\ job.chunk = c => c \in disk'[job.destination]
      BY <1>4, <1>5, <2>1
    <2> QED
      BY <1>0, <1>1, <1>2, <2>1, <2>2, <2>3, <2>4, PlacedStep
  <1>10. CASE Forward(k)
    <2> DEFINE new == [pc |-> "forward", chunk |-> c, primary |-> r.primary, servers |-> Tail(r.servers)]
    <2>0. /\ Target(k) \in Server /\ Tail(r.servers) \in Seq(Server)
          /\ ToSet(r.servers) = ToSet(Tail(r.servers)) \cup {Target(k)}
      BY <1>3, <1>10, TakenServer DEF Forward, Forwarding, Target
    <2>1. disk' = WithFile(c, Target(k)) /\ UNCHANGED <<acked, cleaned>>
      BY <1>10 DEF Forward
    <2>2. call' = [call EXCEPT ![k] = new]
      BY <1>10, WriteMoves DEF Moved
    <2>3. new.pc = "forward" /\ new.chunk = c /\ new.servers = Tail(r.servers)
      OBVIOUS
    <2> HIDE DEF new
    <2>4. \A s \in Listed(c) : Has(c, s) \/ s = Target(k) => Has(c, s)'
      BY <1>1, <1>4, <2>0, <2>1 DEF Has
    <2>5. /\ ToSet(r.servers) \subseteq ToSet(replicas[c])
          /\ \A s \in Listed(c) : Has(c, s) \/ s \in ToSet(r.servers)
      BY <1>0, <1>10 DEF Sound, CallsSound
    <2>6. phase = "reply" /\ job.chunk = c => c \in disk'[job.destination]
      BY <1>4, <1>5, <2>0, <2>1
    <2> QED
      BY <1>0, <1>2, <2>0, <2>1, <2>2, <2>3, <2>4, <2>5, <2>6, PlacedStep
  <1>11. CASE ForwardFails(k)
    <2> DEFINE new == [pc |-> "cleanup", chunk |-> c, primary |-> r.primary, servers |-> r.servers]
    <2>0. Target(k) \in Server
      BY <1>3, <1>11, TakenServer DEF ForwardFails, Forwarding, Target
    <2>1. disk' = disk \/ disk' = WithFile(c, Target(k))
      BY <1>11 DEF ForwardFails
    <2>2. call' = [call EXCEPT ![k] = new] /\ UNCHANGED <<acked, cleaned>>
      BY <1>11, WriteMoves DEF Moved, ForwardFails
    <2>3. new.pc = "cleanup" /\ new.chunk = c /\ new.servers = r.servers
      OBVIOUS
    <2> HIDE DEF new
    <2>4. \A s \in Listed(c) : Has(c, s) => Has(c, s)'
      BY <1>1, <1>4, <2>0, <2>1, <2>2 DEF Has
    <2>5. ToSet(r.servers) \subseteq ToSet(replicas[c])
      BY <1>0, <1>11 DEF Sound, CallsSound
    <2>6. phase = "reply" /\ job.chunk = c => c \in disk'[job.destination]
      BY <1>4, <1>5, <2>0, <2>1
    <2> QED
      BY <1>0, <1>2, <2>1, <2>2, <2>3, <2>4, <2>5, <2>6, PlacedStep
  <1>12. CASE Cleanup(k)
    <2>0. Target(k) \in ToSet(replicas[c])
      BY <1>0, <1>3, <1>12, TakenServer DEF Sound, CallsSound, Target
    <2>1. /\ disk' = [disk EXCEPT ![Target(k)] = @ \ {c}]
          /\ cleaned' = cleaned \cup {<<c, Target(k)>>} /\ UNCHANGED acked
      BY <1>12 DEF Cleanup
    <2>2. call' = [call EXCEPT ![k] = Idle]
      BY <1>12 DEF Cleanup, Hangup
    <2>3. \A s \in Listed(c) : Has(c, s) => Has(c, s)'
      BY <1>1, <2>1 DEF Has
    <2>4. phase = "reply" /\ job.chunk = c => c \in disk'[job.destination]
      BY <1>1, <1>5, <2>0, <2>1 DEF Listed
    <2> QED
      BY <1>0, <1>1, <1>2, <2>1, <2>2, <2>3, <2>4, PlacedStep
  <1>13. CASE Acknowledge(k)
    <2>1. UNCHANGED <<disk, cleaned>> /\ call' = [call EXCEPT ![k] = Idle] /\ r.servers = << >>
      BY <1>13 DEF Acknowledge, Hangup
    <2>2. ToSet(r.servers) = {}
      BY <2>1 DEF ToSet
    <2>3. \A s \in Listed(c) : Has(c, s)
      BY <1>0, <1>13, <2>2 DEF Sound, CallsSound
    <2>4. \A s \in Listed(c) : Has(c, s) => Has(c, s)'
      BY <2>1 DEF Has
    <2> QED
      BY <1>0, <1>1, <1>2, <1>5, <2>1, <2>3, <2>4, PlacedStep
  <1> QED
    BY <1>6, <1>7, <1>8, <1>9, <1>10, <1>11, <1>12, <1>13

\* The repairs and the promotion of chunk c.
LEMMA RepairSound ==
  ASSUME TypeOK, NEW c \in Chunk, Sound(c),
         PlanRepair(c) \/ Promote(c) \/ (job.chunk = c /\ (Copy \/ Record))
  PROVE  Sound(c)'
  <1> USE DEF table, detector, members, cluster, history
  <1>0. /\ c \in hit /\ primary[c] \in {primary[c]} \cup ToSet(replicas[c])
        /\ disk \in [Server -> SUBSET Chunk] /\ NoDoubles(replicas[c])
    BY DEF PlanRepair, Promote, Copy, Record, Sound, JobSound, TypeOK
  <1>1. CASE PlanRepair(c)
    <2>1. UNCHANGED <<call, acked, cleaned, disk, primary, replicas, hit>> /\ phase' = "copy"
      BY <1>1 DEF PlanRepair
    <2>2. JobSound(c)'
      BY <1>0, <1>1, <2>1, PlanTyped DEF JobSound, Listed
    <2> QED
      BY <1>0, <2>1, <2>2, DetectorStep
  <1>2. CASE Promote(c)
    <2>1. UNCHANGED <<call, acked, cleaned, disk, replicas, phase>> /\ phase = "primaries"
      BY <1>2 DEF Promote
    <2>2. primary'[c] \in ToSet(replicas[c])
      BY <1>2 DEF Promote, HealthyReplicas, TypeOK
    <2>3. JobSound(c)'
      BY <2>1 DEF JobSound
    <2> QED
      BY <1>0, <2>1, <2>2, <2>3, DetectorStep
  <1>3. CASE job.chunk = c /\ Copy
    <2>1. /\ UNCHANGED <<call, acked, cleaned, primary, replicas, hit, job>>
          /\ phase = "copy" /\ disk' = WithFile(c, job.destination)
      BY <1>3 DEF Copy
    <2>2. job.destination \in Server \ Listed(c)
      BY <1>3, <2>1 DEF Sound, JobSound, TypeOK, Job
    <2>3. c \in disk'[job.destination] /\ \A s \in Server : c \in disk[s] => c \in disk'[s]
      BY <1>0, <2>1, <2>2 DEF WithFile
    <2>4. JobSound(c)'
      BY <1>0, <2>1, <2>2, <2>3 DEF JobSound, Listed
    <2> QED
      BY <1>0, <2>1, <2>3, <2>4, DetectorStep
  <1>4. CASE job.chunk = c /\ Record
    <2>1. /\ UNCHANGED <<call, acked, cleaned, disk, primary>>
          /\ phase = "reply" /\ phase' = "repair"
          /\ replicas' = [replicas EXCEPT ![c] = Append(@, job.destination)]
      BY <1>4 DEF Record
    <2>2. /\ job.destination \in Server \ Listed(c) /\ c \in disk[job.destination]
      BY <1>4, <2>1 DEF Sound, JobSound, TypeOK, Job
    <2>3. replicas[c] \in Seq(Server) /\ replicas'[c] = Append(replicas[c], job.destination)
      BY <2>1 DEF TypeOK
    <2>4. /\ ToSet(replicas'[c]) = ToSet(replicas[c]) \cup {job.destination}
          /\ NoDoubles(replicas'[c])
      BY <1>0, <2>2, <2>3, AppendedServer DEF Listed
    <2>5. JobSound(c)'
      BY <2>1 DEF JobSound
    <2> QED
      BY <1>0, <2>1, <2>2, <2>4, <2>5, DetectorStep
  <1> QED
    BY <1>1, <1>2, <1>3, <1>4

\* A repair or a promotion of another chunk.
LEMMA OtherRepair ==
  ASSUME TypeOK, NEW c \in Chunk, Sound(c), NEW d \in Chunk, d # c,
         PlanRepair(d) \/ Promote(d) \/ (job.chunk = d /\ (Copy \/ Record))
  PROVE  Sound(c)'
  <1> USE DEF table, detector, members, cluster, history
  <1>0. /\ disk \in [Server -> SUBSET Chunk] /\ primary \in [Chunk -> Server \cup {NoServer}]
        /\ replicas \in [Chunk -> Seq(Server)]
    BY DEF TypeOK
  <1>1. UNCHANGED <<call, acked, cleaned, reported, hit>>
    BY DEF PlanRepair, Promote, Copy, Record
  <1>2. primary'[c] = primary[c] /\ replicas'[c] = replicas[c]
    BY <1>0 DEF PlanRepair, Promote, Copy, Record
  <1>3. \A s \in Server : c \in disk'[s] <=> c \in disk[s]
    <2>1. \A r : \A s \in Server : c \in WithFile(d, r)[s] <=> c \in disk[s]
      BY <1>0 DEF WithFile
    <2>2. UNCHANGED disk \/ disk' = WithFile(d, job.destination)
      BY DEF PlanRepair, Promote, Copy, Record
    <2> QED
      BY <2>1, <2>2
  <1>4. phase' \in {"copy", "reply"} => job'.chunk = d
    <2>1. CASE PlanRepair(d)
      BY <2>1, PlanTyped
    <2>2. CASE Promote(d)
      BY <2>2 DEF Promote
    <2>3. CASE job.chunk = d /\ (Copy \/ Record)
      BY <2>3 DEF Copy, Record
    <2> QED
      BY <2>1, <2>2, <2>3
  <1>5. job.destination \in Server \/ phase \notin {"copy", "reply"}
    BY DEF TypeOK, Job
  <1> QED
    BY <1>1, <1>2, <1>3, <1>4, <1>5, Untouched

LEMMA SoundStep ==
  ASSUME TypeOK, [Next]_vars, NEW c \in Chunk, c \notin early', Sound(c)
  PROVE  Sound(c)'
  <1>1. ASSUME NEW k \in Client, Write(k) PROVE Sound(c)'
    <2>1. CASE call[k].chunk # c /\ ~Lookup(k, c)
      BY <1>1, <2>1, OtherCall
    <2>2. CASE Lookup(k, c)
      BY <2>2, HandlerSound
    <2>3. CASE call[k].chunk = c /\ ~Lookup(k, c)
      <3>1. ASSUME NEW d \in Chunk, Lookup(k, d) PROVE FALSE
        <4>1. call[k] = Idle
          BY <3>1, WriteMoves
        <4> QED
          BY <2>3, <4>1, ReplicationAssumption DEF Idle
      <3>2. CASE CleanupFails(k) \/ AnswerFails(k)
        BY <3>2, QuietStep
      <3> QED
        BY <1>1, <2>3, <3>1, <3>2, HandlerSound, WriteSound DEF Write
    <2> QED
      BY <2>1, <2>2, <2>3
  <1>2. ASSUME Detector PROVE Sound(c)'
    <2>1. ASSUME NEW d \in Chunk, PlanRepair(d) \/ Promote(d) PROVE Sound(c)'
      BY <2>1, RepairSound, OtherRepair
    <2>2. CASE Copy \/ Record
      <3>1. job.chunk \in Chunk
        BY <2>2 DEF Copy, Record, TypeOK, Job
      <3> QED
        BY <2>2, <3>1, RepairSound, OtherRepair
    <2> QED
      BY <1>2, <2>1, <2>2, QuietStep DEF Detector
  <1> QED
    BY <1>1, <1>2, QuietStep DEF Next

LEMMA InitIInv == Init => IInv
  <1> SUFFICES ASSUME Init, NEW c \in Chunk PROVE Sound(c)
    BY InitTypeOK DEF IInv
  <1>1. \A k \in Client : call[k] = Idle
    BY DEF Init
  <1>2. Idle.chunk # c /\ Idle.pc = "idle"
    BY ReplicationAssumption DEF Idle
  <1>3. PlacementSound(c)
    BY <1>1, <1>2 DEF Init, PlacementSound, Placing, Unwritten
  <1>4. CallsSound(c) /\ JobSound(c)
    BY <1>1, <1>2 DEF Init, CallsSound, JobSound
  <1> QED
    BY <1>3, <1>4 DEF Sound, NoDoubles, Init

LEMMA NextIInv == IInv /\ [Next]_vars => IInv'
  <1> SUFFICES ASSUME IInv, [Next]_vars PROVE IInv'
    OBVIOUS
  <1>1. early \subseteq early'
    <2>1. CASE UNCHANGED vars
      BY <2>1 DEF vars, history
    <2>2. ASSUME NEW k \in Client, Write(k) PROVE early \subseteq early'
      BY <2>2 DEF Write, Lookup, Choose, SetPrimary, SetReplica, Locate, ListReplicas, WritePrimary, WriteFails,
                  Forward, ForwardFails, Cleanup, CleanupFails, Acknowledge, AnswerFails, history
    <2>3. ASSUME NEW s \in Server, Crash(s) \/ Restart(s) \/ Register(s) \/ Heartbeat(s) \/ Expire(s)
          PROVE  early \subseteq early'
      BY <2>3 DEF Crash, Restart, Register, Heartbeat, Expire, history
    <2>4. CASE Detector
      BY <2>4 DEF Detector, CheckChunkServers, SkipRepair, PlanRepair, KeepPrimary, Promote, Copy, CopyFails,
                  ReplyLost, Record, EndRepairs, EndRound, GiveUp, history
    <2> QED
      BY <2>1, <2>2, <2>3, <2>4 DEF Next
  <1>2. TypeOK'
    BY NextTypeOK DEF IInv
  <1>3. ASSUME NEW c \in Chunk, c \notin early' PROVE Sound(c)'
    BY <1>1, <1>3, SoundStep DEF IInv
  <1> QED
    BY <1>2, <1>3 DEF IInv

THEOREM RepairInvariant == Spec => []IInv
  BY InitIInv, NextIInv, PTL DEF Spec

\* Only two handlers that place the same chunk at once can list a server twice: repairs
\* and promotions never do, whatever dies, returns or fails beside them.
THEOREM ReplicasStayDistinct == Spec => []ReplicasDistinct
  <1>1. IInv => ReplicasDistinct
    BY DEF IInv, Sound, NoDoubles, ReplicasDistinct
  <1> QED
    BY <1>1, RepairInvariant, PTL

\* A written chunk's file is on every server the Master lists for it, or was removed from
\* there by the cleanup of a forward that failed.
THEOREM ListedServersKeepFile == Spec => []ListedServersHold
  <1>1. IInv => ListedServersHold
    BY DEF IInv, TypeOK, Sound, Has, ListedServersHold
  <1> QED
    BY <1>1, RepairInvariant, PTL

\* The servers that a step of the failure detector adds to a chunk's list have the file.
THEOREM RepairsAddHolders == Spec => RepairedHasChunk
  <1>1. ASSUME IInv, [Next]_vars, NEW c \in Chunk \ early, UNCHANGED call,
               NEW s \in ToSet(replicas'[c]) \ ToSet(replicas[c])
        PROVE  c \in disk[s]
    <2> USE DEF table, detector, members, cluster, history, vars
    <2>0. TypeOK /\ Sound(c)
      BY <1>1 DEF IInv
    <2>1. ASSUME NEW k \in Client, Write(k) PROVE FALSE
      <3>1. CASE SetReplica(k)
        <4>1. /\ call[k].servers \in Seq(Server) /\ Len(call[k].servers) \in 1 .. 2
              /\ call[k].pc = "replica"
          BY <2>0, <3>1, CallTyped DEF SetReplica, At, CallOK
        <4>2. call \in [Client -> Call \cup {Idle}]
          BY <2>0 DEF TypeOK
        <4>3. Moved(k, IF Len(call[k].servers) = 1 THEN "locate" ELSE "replica", call[k].chunk,
                    call[k].primary, Tail(call[k].servers))
          BY <2>0, <3>1, WriteMoves
        <4>4. call'[k].servers = Tail(call[k].servers)
          BY <4>2, <4>3 DEF Moved
        <4> QED
          BY <1>1, <4>1, <4>4, ShorterTail
      <3> QED
        BY <1>1, <2>1, <3>1 DEF Write, Lookup, Choose, SetPrimary, Locate, ListReplicas, WritePrimary, WriteFails,
                Forward, ForwardFails, Cleanup, CleanupFails, Acknowledge, AnswerFails
    <2>2. CASE Record
      <3>1. job.chunk \in Chunk /\ job.destination \in Server
        BY <2>0, <2>2 DEF Record, TypeOK, Job
      <3>2. replicas[c] \in Seq(Server) /\ replicas[job.chunk] \in Seq(Server)
        BY <2>0, <3>1 DEF TypeOK
      <3>3. job.chunk = c /\ replicas'[c] = Append(replicas[c], job.destination)
        BY <1>1, <2>0, <2>2, <3>1 DEF Record, TypeOK
      <3>4. s = job.destination
        BY <1>1, <3>1, <3>2, <3>3, AppendedServer
      <3> QED
        BY <2>0, <2>2, <3>3, <3>4 DEF Sound, JobSound, Record
    <2>3. ASSUME NEW t \in Server, Crash(t) \/ Restart(t) \/ Register(t) \/ Heartbeat(t) \/ Expire(t)
          PROVE  UNCHANGED replicas
      BY <2>3 DEF Crash, Restart, Register, Heartbeat, Expire
    <2>4. ASSUME Detector, ~Record PROVE UNCHANGED replicas
      BY <2>4 DEF Detector, CheckChunkServers, SkipRepair, PlanRepair, KeepPrimary, Promote, Copy, CopyFails,
                  ReplyLost, EndRepairs, EndRound, GiveUp
    <2> QED
      BY <1>1, <2>1, <2>2, <2>3, <2>4 DEF Next
  <1>2. IInv /\ [Next]_vars => [\A c \in Chunk \ early : UNCHANGED call =>
          \A s \in ToSet(replicas'[c]) \ ToSet(replicas[c]) : c \in disk[s]]_vars
    BY <1>1
  <1> QED
    BY <1>2, RepairInvariant, PTL DEF Spec, RepairedHasChunk
=============================================================================
