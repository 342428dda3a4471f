-------------------------- MODULE ChunkWriteProofs --------------------------
(***************************************************************************)
(* ChunkWrite for any number of writers, replicas and faults.              *)
(***************************************************************************)
EXTENDS ChunkWrite, CountingLemmas, FunctionTheorems

\* A call past its primary write has left bytes on the primary, and so has a
\* forward that is still on its way.
BytesOnPrimary ==
  /\ \A w \in Writer : pc[w] \in {"measure", "forward", "cleanup", "acked"} => Holds(Primary, w)
  /\ \A m \in late : Holds(Primary, m[1])

SourceInv == FailedFor(Primary) \/ (BytesOnPrimary /\ SourceOfTruth)

\* A call has left bytes on the replicas of its finished rounds, except where a
\* failing call has cleaned up since.
RoundsDone ==
  \A w \in Writer : \A j \in 1 .. Len(Replicas) :
    j < next[w] => Holds(Replicas[j], w) \/ FailedFor(Replicas[j])

\* An acknowledged call went all the way round; a cleaning call is in a round.
RoundsCounted ==
  \A w \in Writer : /\ pc[w] = "acked" => next[w] = Len(Replicas) + 1
                    /\ pc[w] = "cleanup" => next[w] <= Len(Replicas)
                    /\ pc[w] \in {"start", "write", "measure"} => next[w] = 1

BaseInv == TypeOK /\ RoundsCounted
-----------------------------------------------------------------------------
LEMMA WrittenProperties ==
  ASSUME NEW cells \in Cells, NEW w \in Writer
  PROVE  /\ Written(cells, w) \in Cells
         /\ Len(Written(cells, w)) = Longer(Len(cells), End(w))
         /\ DOMAIN Written(cells, w) = 1 .. Longer(Len(cells), End(w))
         /\ Longer(Len(cells), End(w)) >= Len(cells)
         /\ Longer(Len(cells), End(w)) >= End(w)
         /\ \A i \in 1 .. Longer(Len(cells), End(w)) :
              Written(cells, w)[i] = IF Covers(w, i) THEN w
                                     ELSE IF i <= Len(cells) THEN cells[i] ELSE Hole
  <1> DEFINE n == Longer(Len(cells), End(w))
  <1>1. Len(cells) \in Nat /\ End(w) \in Nat
    BY ChunkWriteAssumption DEF Cells, End
  <1>2. n \in Nat /\ n >= Len(cells) /\ n >= End(w)
    BY <1>1 DEF Longer
  <1>3. \A i \in 1 .. n : (IF Covers(w, i) THEN w ELSE IF i <= Len(cells) THEN cells[i] ELSE Hole)
                            \in Writer \cup {Hole}
    BY <1>1, <1>2 DEF Cells
  <1> HIDE DEF n
  <1>4. Written(cells, w) = [i \in 1 .. n |-> IF Covers(w, i) THEN w
                                              ELSE IF i <= Len(cells) THEN cells[i] ELSE Hole]
    BY DEF Written, n
  <1>5. Written(cells, w) \in Cells /\ Len(Written(cells, w)) = n
    BY <1>2, <1>3, <1>4 DEF Cells
  <1> QED
    BY <1>2, <1>4, <1>5 DEF n

\* A write leaves the writer's bytes and everything that was there before.
LEMMA WrittenHolds ==
  ASSUME NEW cells \in Cells, NEW w \in Writer
  PROVE  /\ \A i \in 1 .. End(w) : Covers(w, i) =>
              i \in DOMAIN Written(cells, w) /\ Written(cells, w)[i] # Hole
         /\ \A i \in DOMAIN cells :
              /\ i \in DOMAIN Written(cells, w)
              /\ cells[i] # Hole => Written(cells, w)[i] # Hole
         /\ \A i \in DOMAIN Written(cells, w) :
              Written(cells, w)[i] # Hole =>
                Covers(w, i) \/ (i \in DOMAIN cells /\ cells[i] # Hole)
  <1>1. /\ Len(cells) \in Nat /\ End(w) \in Nat /\ DOMAIN cells = 1 .. Len(cells) /\ w # Hole
    BY ChunkWriteAssumption DEF Cells, End
  <1> DEFINE t == Written(cells, w)
             n == Longer(Len(cells), End(w))
  <1>2. /\ DOMAIN t = 1 .. n /\ n >= Len(cells) /\ n >= End(w) /\ n \in Nat
        /\ \A i \in 1 .. n : t[i] = IF Covers(w, i) THEN w
                                    ELSE IF i <= Len(cells) THEN cells[i] ELSE Hole
    BY <1>1, WrittenProperties DEF Longer
  <1> HIDE DEF t, n
  <1>3. \A i \in 1 .. End(w) : Covers(w, i) => i \in DOMAIN t /\ t[i] # Hole
    BY <1>1, <1>2
  <1>4. \A i \in DOMAIN cells : i \in DOMAIN t /\ (cells[i] # Hole => t[i] # Hole)
    BY <1>1, <1>2
  <1>5. \A i \in DOMAIN t : t[i] # Hole => Covers(w, i) \/ (i \in DOMAIN cells /\ cells[i] # Hole)
    BY <1>1, <1>2
  <1> QED
    BY <1>3, <1>4, <1>5 DEF t

LEMMA ReplicaInRound ==
  ASSUME TypeOK, NEW w \in Writer, next[w] <= Len(Replicas)
  PROVE  Replicas[next[w]] \in Replica
  <1>1. Replicas \in Seq(Replica)
    BY ChunkWriteAssumption
  <1>2. next[w] \in 1 .. Len(Replicas)
    BY <1>1 DEF TypeOK
  <1> QED
    BY <1>1, <1>2

-----------------------------------------------------------------------------
LEMMA InitTypeOK == Init => TypeOK
  <1> SUFFICES ASSUME Init PROVE TypeOK
    OBVIOUS
  <1>1. << >> \in Cells
    BY DEF Cells
  <1>2. Len(Replicas) \in Nat
    BY ChunkWriteAssumption
  <1> QED
    BY <1>1, <1>2, ChunkWriteAssumption DEF Init, TypeOK, Busy

LEMMA NextTypeOK == TypeOK /\ [Next]_vars => TypeOK'
  <1> SUFFICES ASSUME TypeOK, [Next]_vars PROVE TypeOK'
    OBVIOUS
  <1> USE DEF TypeOK
  <1>0. /\ \A s \in Server : Len(disk[s]) \in Nat
        /\ Len(Replicas) \in Nat /\ Replica \subseteq Server /\ Primary \in Server
    BY ChunkWriteAssumption DEF Cells, Server
  <1>f. Fault => faults' \in 0 .. MaxFaults
    BY ChunkWriteAssumption DEF Fault
  <1>1. ASSUME NEW w \in Writer, MeasureBefore(w) PROVE TypeOK'
    BY <1>0, <1>1 DEF MeasureBefore, Goto, Busy
  <1>2. ASSUME NEW w \in Writer, WritePrimary(w) PROVE TypeOK'
    <2>1. Written(disk[Primary], w) \in Cells
      BY <1>0, WrittenProperties
    <2> QED
      BY <1>2, <2>1 DEF WritePrimary, Goto, Busy
  <1>3. ASSUME NEW w \in Writer, MeasureAfter(w) PROVE TypeOK'
    <2>1. Len(disk[Primary]) - oldSize[w] \in Int
      BY <1>0
    <2> QED
      BY <1>3, <2>1 DEF MeasureAfter, Goto, Busy
  <1>4. ASSUME NEW w \in Writer, Forward(w) PROVE TypeOK'
    <2> DEFINE r == Replicas[next[w]]
    <2>1. r \in Server
      BY <1>0, <1>4, ReplicaInRound DEF Forward, Forwarding
    <2> HIDE DEF r
    <2>2. Written(disk[r], w) \in Cells
      BY <2>1, WrittenProperties
    <2>3. disk' = [disk EXCEPT ![r] = Written(@, w)]
      BY <1>4 DEF Forward, r
    <2>4. disk' \in [Server -> Cells]
      BY <2>1, <2>2, <2>3
    <2>5. next' \in [Writer -> 1 .. Len(Replicas) + 1]
      <3>1. next[w] + 1 \in 1 .. Len(Replicas) + 1
        BY <1>0, <1>4 DEF Forward, Forwarding
      <3> QED
        BY <1>4, <3>1 DEF Forward
    <2> QED
      BY <1>4, <2>4, <2>5 DEF Forward
  <1>5. ASSUME NEW w \in Writer, ForwardFails(w) PROVE TypeOK'
    <2> DEFINE r == Replicas[next[w]]
    <2>1. r \in Server /\ r \in Replica
      BY <1>0, <1>5, ReplicaInRound DEF ForwardFails, Forwarding
    <2> HIDE DEF r
    <2>2. Written(disk[r], w) \in Cells
      BY <2>1, WrittenProperties
    <2>3. disk' \in {disk, [disk EXCEPT ![r] = Written(@, w)]}
      BY <1>5 DEF ForwardFails, r
    <2>4. disk' \in [Server -> Cells]
      BY <2>1, <2>2, <2>3
    <2>5. late' \subseteq Writer \X Replica
      BY <1>5, <2>1 DEF ForwardFails, r
    <2> QED
      BY <1>5, <1>f, <2>4, <2>5 DEF ForwardFails, Goto, Busy
  <1>6. ASSUME NEW w \in Writer, NEW s \in Replica, LateForward(w, s) PROVE TypeOK'
    <2>1. Written(disk[s], w) \in Cells
      BY <1>0, WrittenProperties
    <2> QED
      BY <1>0, <1>6, <2>1 DEF LateForward
  <1>7. ASSUME NEW w \in Writer, Cleanup(w) PROVE TypeOK'
    <2>1. << >> \in Cells
      BY DEF Cells
    <2>2. disk' \in [Server -> Cells]
      BY <1>7, <2>1 DEF Cleanup
    <2>3. pc' \in [Writer -> {"start", "acked", "failed"} \cup Busy]
      BY <1>7 DEF Cleanup, Goto
    <2>4. /\ oldSize' = oldSize /\ change' = change /\ next' = next
          /\ late' = late /\ credited' = credited /\ faults' = faults
      BY <1>7 DEF Cleanup
    <2> QED
      BY <2>2, <2>3, <2>4
  <1>8. ASSUME NEW w \in Writer, Report(w) PROVE TypeOK'
    <2>1. credited' \in Int
      BY <1>8 DEF Report
    <2>2. pc' \in [Writer -> {"start", "acked", "failed"} \cup Busy]
      BY <1>8 DEF Report, Goto
    <2> QED
      BY <1>8, <2>1, <2>2 DEF Report
  <1>9. ASSUME NEW w \in Writer, ReportFails(w) PROVE TypeOK'
    <2>1. credited' \in Int
      BY <1>9 DEF ReportFails
    <2> QED
      BY <1>9, <1>f, <2>1 DEF ReportFails, Goto, Busy
  <1>10. CASE CrashPrimary
    <2>1. late' \subseteq Writer \X Replica
      <3>1. PICK sent \in SUBSET {w \in Writer : Forwarding(w)} :
               late' = late \cup {<<w, Replicas[next[w]]>> : w \in sent}
        BY <1>10 DEF CrashPrimary
      <3>2. \A w \in sent : Replicas[next[w]] \in Replica
        BY <3>1, ReplicaInRound DEF Forwarding
      <3> QED
        BY <3>1, <3>2
    <2> QED
      BY <1>10, <1>f, <2>1 DEF CrashPrimary, Busy
  <1>11. CASE Done \/ UNCHANGED vars
    BY <1>11 DEF Done, vars
  <1>12. ASSUME NEW w \in Writer, WritePrimaryFails(w) PROVE TypeOK'
    <2>1. pc' \in [Writer -> {"start", "acked", "failed"} \cup Busy]
      BY <1>12 DEF WritePrimaryFails, Goto
    <2> QED
      BY <1>12, <1>f, <2>1 DEF WritePrimaryFails
  <1> QED
    BY <1>1, <1>2, <1>3, <1>4, <1>5, <1>6, <1>7, <1>8, <1>9, <1>10, <1>11, <1>12 DEF Next, Step

\* Every field of the write path keeps its type, however calls interleave and fail.
THEOREM TypeCorrect == Spec => []TypeOK
  <1>1. Init => TypeOK
    BY InitTypeOK
  <1>2. TypeOK /\ [Next]_vars => TypeOK'
    BY NextTypeOK
  <1> QED
    BY <1>1, <1>2, PTL DEF Spec

-----------------------------------------------------------------------------
(***************************************************************************)
(* What a step can do to a copy.                                           *)
(***************************************************************************)
\* Nothing on server s is lost in a step.
Keeps(s) ==
  \A i \in DOMAIN disk[s] : i \in DOMAIN disk'[s] /\ (disk[s][i] # Hole => disk'[s][i] # Hole)

LEMMA KeptBytes ==
  ASSUME NEW s \in Server, Keeps(s), NEW w \in Writer, Holds(s, w)
  PROVE  Holds(s, w)'
  BY DEF Keeps, Holds

LEMMA WrittenKeeps ==
  ASSUME TypeOK, NEW s \in Server, NEW w \in Writer, disk'[s] = Written(disk[s], w)
  PROVE  Keeps(s) /\ Holds(s, w)'
  <1>1. disk[s] \in Cells
    BY DEF TypeOK
  <1> QED
    BY <1>1, WrittenHolds DEF Keeps, Holds

LEMMA InitBaseInv == Init => BaseInv
  <1>1. Init => RoundsCounted
    BY DEF Init, RoundsCounted
  <1> QED
    BY <1>1, InitTypeOK DEF BaseInv

LEMMA NextBaseInv == BaseInv /\ [Next]_vars => BaseInv'
  <1> SUFFICES ASSUME BaseInv, [Next]_vars PROVE RoundsCounted'
    BY NextTypeOK DEF BaseInv
  <1> USE DEF BaseInv, TypeOK, RoundsCounted
  <1>0. Len(Replicas) \in Nat /\ \A w \in Writer : next[w] \in 1 .. Len(Replicas) + 1
    BY ChunkWriteAssumption
  <1>1. ASSUME NEW w \in Writer, MeasureBefore(w) PROVE RoundsCounted'
    BY <1>1 DEF MeasureBefore, Goto
  <1>2. ASSUME NEW w \in Writer, WritePrimary(w) PROVE RoundsCounted'
    BY <1>2 DEF WritePrimary, Goto
  <1>3. ASSUME NEW w \in Writer, MeasureAfter(w) PROVE RoundsCounted'
    BY <1>3 DEF MeasureAfter, Goto
  <1>4. ASSUME NEW w \in Writer, Forward(w) PROVE RoundsCounted'
    BY <1>4 DEF Forward, Forwarding
  <1>5. ASSUME NEW w \in Writer, ForwardFails(w) PROVE RoundsCounted'
    BY <1>5 DEF ForwardFails, Forwarding, Goto
  <1>6. ASSUME NEW w \in Writer, NEW s \in Replica, LateForward(w, s) PROVE RoundsCounted'
    BY <1>6 DEF LateForward
  <1>7. ASSUME NEW w \in Writer, Cleanup(w) PROVE RoundsCounted'
    BY <1>7 DEF Cleanup, Goto
  <1>8. ASSUME NEW w \in Writer, Report(w) PROVE RoundsCounted'
    BY <1>0, <1>8 DEF Report, Reporting, Goto
  <1>9. ASSUME NEW w \in Writer, ReportFails(w) PROVE RoundsCounted'
    BY <1>9 DEF ReportFails, Reporting, Goto
  <1>10. CASE CrashPrimary
    BY <1>10 DEF CrashPrimary
  <1>11. CASE Done \/ UNCHANGED vars
    BY <1>11 DEF Done, vars
  <1>12. ASSUME NEW w \in Writer, WritePrimaryFails(w) PROVE RoundsCounted'
    BY <1>12 DEF WritePrimaryFails, Goto
  <1> QED
    BY <1>1, <1>2, <1>3, <1>4, <1>5, <1>6, <1>7, <1>8, <1>9, <1>10, <1>11, <1>12 DEF Next, Step

LEMMA DiskStep ==
  ASSUME BaseInv, [Next]_vars
  PROVE  \/ disk' = disk
         \/ \E w \in Writer : disk' = [disk EXCEPT ![Primary] = Written(@, w)]
         \/ \E w \in Writer, r \in Replica :
              /\ (Forwarding(w) \/ <<w, r>> \in late)
              /\ disk' = [disk EXCEPT ![r] = Written(@, w)]
         \/ \E w \in Writer :
              /\ Cleanup(w) /\ Replicas[next[w]] \in Replica
              /\ disk' = [disk EXCEPT ![Replicas[next[w]]] = << >>]
  <1>1. ASSUME NEW w \in Writer, Step(w)
        PROVE  \/ disk' = disk
               \/ disk' = [disk EXCEPT ![Primary] = Written(@, w)]
               \/ \E r \in Replica : Forwarding(w) /\ disk' = [disk EXCEPT ![r] = Written(@, w)]
               \/ /\ Cleanup(w) /\ Replicas[next[w]] \in Replica
                  /\ disk' = [disk EXCEPT ![Replicas[next[w]]] = << >>]
    <2>1. CASE MeasureBefore(w) \/ WritePrimaryFails(w) \/ MeasureAfter(w) \/ Report(w) \/ ReportFails(w)
      BY <2>1 DEF MeasureBefore, WritePrimaryFails, MeasureAfter, Report, ReportFails
    <2>2. CASE WritePrimary(w)
      BY <2>2 DEF WritePrimary
    <2>3. CASE Forward(w)
      <3>1. Replicas[next[w]] \in Replica
        BY <2>3, ReplicaInRound DEF BaseInv, Forward, Forwarding
      <3> QED
        BY <2>3, <3>1 DEF Forward
    <2>4. CASE ForwardFails(w)
      <3>1. Replicas[next[w]] \in Replica
        BY <2>4, ReplicaInRound DEF BaseInv, ForwardFails, Forwarding
      <3> QED
        BY <2>4, <3>1 DEF ForwardFails
    <2>5. CASE Cleanup(w)
      <3>1. Replicas[next[w]] \in Replica
        BY <2>5, ReplicaInRound DEF BaseInv, RoundsCounted, Cleanup
      <3> QED
        BY <2>5, <3>1 DEF Cleanup
    <2> QED
      BY <1>1, <2>1, <2>2, <2>3, <2>4, <2>5 DEF Step
  <1>2. ASSUME NEW w \in Writer, NEW s \in Replica, LateForward(w, s)
        PROVE  <<w, s>> \in late /\ disk' = [disk EXCEPT ![s] = Written(@, w)]
    BY <1>2 DEF LateForward
  <1>3. CASE CrashPrimary \/ Done \/ UNCHANGED vars
    BY <1>3 DEF CrashPrimary, Done, vars
  <1> QED
    BY <1>1, <1>2, <1>3 DEF Next

\* A failed call stays in the round it failed in.
LEMMA FailuresStay ==
  ASSUME BaseInv, [Next]_vars, NEW v \in Writer, pc[v] \in {"cleanup", "failed"}
  PROVE  pc'[v] \in {"cleanup", "failed"} /\ next'[v] = next[v]
  <1>0. /\ pc \in [Writer -> {"start", "acked", "failed"} \cup Busy]
        /\ next \in [Writer -> 1 .. Len(Replicas) + 1]
    BY DEF BaseInv, TypeOK
  <1>1. ASSUME NEW w \in Writer, Step(w) PROVE pc'[v] \in {"cleanup", "failed"} /\ next'[v] = next[v]
    BY <1>0, <1>1 DEF Step, MeasureBefore, WritePrimary, WritePrimaryFails, MeasureAfter, Forward, ForwardFails,
                      Forwarding, Cleanup, Report, ReportFails, Reporting, Goto
  <1>2. CASE CrashPrimary
    BY <1>0, <1>2 DEF CrashPrimary
  <1>3. CASE (\E w \in Writer, s \in Replica : LateForward(w, s)) \/ Done \/ UNCHANGED vars
    BY <1>3 DEF LateForward, Done, vars
  <1> QED
    BY <1>1, <1>2, <1>3 DEF Next

\* Only a cleanup takes bytes from a server.
LEMMA ServerStep ==
  ASSUME BaseInv, [Next]_vars, NEW s \in Server
  PROVE  \/ Keeps(s)
         \/ \E v \in Writer : Cleanup(v) /\ next[v] \in DOMAIN Replicas /\ Replicas[next[v]] = s
  <1>0. disk \in [Server -> Cells] /\ TypeOK
    BY DEF BaseInv, TypeOK
  <1>1. ASSUME NEW w \in Writer, disk'[s] = Written(disk[s], w) PROVE Keeps(s)
    BY <1>0, <1>1, WrittenKeeps
  <1>2. ASSUME disk'[s] = disk[s] PROVE Keeps(s)
    BY <1>2 DEF Keeps
  <1>3. ASSUME NEW t \in Server, NEW c, disk' = [disk EXCEPT ![t] = c]
        PROVE  disk'[s] = disk[s] \/ (t = s /\ disk'[s] = c)
    BY <1>0, <1>3
  <1>4. Primary \in Server /\ Replica \subseteq Server
    BY DEF Server
  <1>5. \A v \in Writer : Cleanup(v) => next[v] \in DOMAIN Replicas
    <2>1. Replicas \in Seq(Replica) /\ next \in [Writer -> 1 .. Len(Replicas) + 1]
      BY <1>0, ChunkWriteAssumption DEF TypeOK
    <2>2. DOMAIN Replicas = 1 .. Len(Replicas) /\ Len(Replicas) \in Nat
      BY <2>1
    <2> QED
      BY <2>1, <2>2 DEF BaseInv, RoundsCounted, Cleanup
  <1> QED
    BY <1>0, <1>1, <1>2, <1>3, <1>4, <1>5, DiskStep

LEMMA FailedForStays ==
  ASSUME BaseInv, [Next]_vars, NEW s
  PROVE  /\ FailedFor(s) => FailedFor(s)'
         /\ (\E v \in Writer : Cleanup(v) /\ next[v] \in DOMAIN Replicas /\ Replicas[next[v]] = s)
              => FailedFor(s)'
  <1>1. \A v \in Writer : Cleanup(v) => pc[v] = "cleanup"
    BY DEF Cleanup
  <1> QED
    BY <1>1, FailuresStay DEF FailedFor

LEMMA PrimaryKept ==
  ASSUME BaseInv, [Next]_vars, ~FailedFor(Primary)'
  PROVE  ~FailedFor(Primary) /\ Keeps(Primary)
  <1>1. Primary \in Server
    BY DEF Server
  <1> QED
    BY <1>1, ServerStep, FailedForStays

LEMMA InitSourceInv == Init => SourceInv
  <1> SUFFICES ASSUME Init PROVE SourceInv
    OBVIOUS
  <1>1. \A r \in Replica : DOMAIN disk[r] = {}
    BY DEF Init, Server
  <1> QED
    BY <1>1 DEF Init, SourceInv, BytesOnPrimary, SourceOfTruth

LEMMA NextSourceInv == BaseInv /\ BaseInv' /\ SourceInv /\ [Next]_vars => SourceInv'
  <1> SUFFICES ASSUME BaseInv, BaseInv', SourceInv, [Next]_vars, ~FailedFor(Primary)'
               PROVE  BytesOnPrimary' /\ SourceOfTruth'
    BY DEF SourceInv
  <1>0. /\ Primary \in Server /\ Replica \subseteq Server
        /\ TypeOK /\ disk \in [Server -> Cells] /\ pc \in [Writer -> {"start", "acked", "failed"} \cup Busy]
        /\ late \subseteq Writer \X Replica
    BY ChunkWriteAssumption DEF BaseInv, TypeOK, Server
  <1>1. Keeps(Primary) /\ BytesOnPrimary /\ SourceOfTruth
    BY PrimaryKept DEF SourceInv
  <1>2. \A w \in Writer : Holds(Primary, w) => Holds(Primary, w)'
    BY <1>0, <1>1, KeptBytes
  <1>3. \A w \in Writer : Forwarding(w) => Holds(Primary, w)
    BY <1>1 DEF Forwarding, BytesOnPrimary
  <1>4. \A w \in Writer : pc'[w] \in {"measure", "forward", "cleanup", "acked"} => Holds(Primary, w)'
    <2> SUFFICES ASSUME NEW w \in Writer, pc'[w] \in {"measure", "forward", "cleanup", "acked"}
                 PROVE  Holds(Primary, w)'
      OBVIOUS
    <2>1. CASE pc[w] \in {"measure", "forward", "cleanup", "acked"}
      BY <1>1, <1>2, <2>1 DEF BytesOnPrimary
    <2>2. CASE pc[w] \notin {"measure", "forward", "cleanup", "acked"}
      <3>1. WritePrimary(w)
        <4>1. ASSUME NEW v \in Writer, Step(v) PROVE WritePrimary(w)
          BY <1>0, <2>2, <4>1 DEF Step, MeasureBefore, WritePrimary, WritePrimaryFails, MeasureAfter, Forward, ForwardFails,
                                  Forwarding, Cleanup, Report, ReportFails, Reporting, Goto
        <4>2. ASSUME NEW v \in Writer, NEW s \in Replica, LateForward(v, s) PROVE FALSE
          BY <2>2, <4>2 DEF LateForward
        <4>3. CASE CrashPrimary
          BY <1>0, <2>2, <4>3 DEF CrashPrimary
        <4>4. CASE Done \/ UNCHANGED vars
          BY <2>2, <4>4 DEF Done, vars
        <4> QED
          BY <4>1, <4>2, <4>3, <4>4 DEF Next
      <3>2. disk'[Primary] = Written(disk[Primary], w)
        BY <1>0, <3>1 DEF WritePrimary
      <3> QED
        BY <1>0, <3>2, WrittenKeeps
    <2> QED
      BY <2>1, <2>2
  <1>5. \A m \in late' : Holds(Primary, m[1])'
    <2> SUFFICES ASSUME NEW m \in late' PROVE Holds(Primary, m[1])'
      OBVIOUS
    <2>1. m \in late \/ \E w \in Writer : Forwarding(w) /\ m[1] = w
      <3>1. ASSUME NEW v \in Writer, Step(v) PROVE m \in late \/ (Forwarding(v) /\ m[1] = v)
        <4>1. CASE ForwardFails(v)
          BY <4>1 DEF ForwardFails
        <4>2. CASE ~ForwardFails(v)
          BY <3>1, <4>2 DEF Step, MeasureBefore, WritePrimary, WritePrimaryFails, MeasureAfter, Forward,
                            Cleanup, Report, ReportFails
        <4> QED
          BY <4>1, <4>2
      <3>2. ASSUME NEW v \in Writer, NEW s \in Replica, LateForward(v, s) PROVE m \in late
        BY <3>2 DEF LateForward
      <3>3. CASE CrashPrimary
        <4>1. PICK sent \in SUBSET {w \in Writer : Forwarding(w)} :
                late' = late \cup {<<w, Replicas[next[w]]>> : w \in sent}
          BY <3>3 DEF CrashPrimary
        <4> QED
          BY <4>1
      <3>4. CASE Done \/ UNCHANGED vars
        BY <3>4 DEF Done, vars
      <3> QED
        BY <3>1, <3>2, <3>3, <3>4 DEF Next
    <2>2. CASE m \in late
      BY <1>0, <1>1, <1>2, <2>2 DEF BytesOnPrimary
    <2> QED
      BY <1>2, <1>3, <2>1, <2>2
  <1>6. SourceOfTruth'
    <2> SUFFICES ASSUME NEW r \in Replica, NEW i \in DOMAIN disk'[r]
                 PROVE  /\ i \in DOMAIN disk'[Primary]
                        /\ disk'[r][i] # Hole => disk'[Primary][i] # Hole
      BY DEF SourceOfTruth
    <2>1. CASE disk'[r] = disk[r]
      BY <1>1, <2>1 DEF SourceOfTruth, Keeps
    <2>2. ASSUME NEW w \in Writer, Holds(Primary, w), disk'[r] = Written(disk[r], w)
          PROVE  /\ i \in DOMAIN disk'[Primary]
                 /\ disk'[r][i] # Hole => disk'[Primary][i] # Hole
      <3>1. /\ disk[r] \in Cells /\ Len(disk[r]) \in Nat /\ End(w) \in Nat \ {0} /\ Covers(w, End(w))
            /\ DOMAIN disk[r] = 1 .. Len(disk[r]) /\ Extent[w].offset \in Nat
        <4>1. disk[r] \in Cells
          BY <1>0
        <4>2. Extent[w].offset \in Nat /\ Extent[w].length \in Nat \ {0}
          BY ChunkWriteAssumption
        <4>3. End(w) \in Nat \ {0} /\ Covers(w, End(w))
          BY <4>2 DEF End, Covers
        <4> QED
          BY <4>1, <4>2, <4>3 DEF Cells
      <3>2. Holds(Primary, w)'
        BY <1>2, <2>2
      <3>3. CASE Covers(w, i)
        BY <3>1, <3>2, <3>3 DEF Holds, Covers, End
      <3>4. CASE ~Covers(w, i) /\ i \in DOMAIN disk[r]
        <4>1. disk'[r][i] # Hole => disk[r][i] # Hole
          BY <2>2, <3>1, <3>4, WrittenHolds
        <4> QED
          BY <1>1, <3>4, <4>1 DEF SourceOfTruth, Keeps
      <3>5. CASE ~Covers(w, i) /\ i \notin DOMAIN disk[r]
        <4>1. disk'[r][i] = Hole
          BY <2>2, <3>1, <3>5, WrittenHolds
        <4>2. i \in 1 .. End(w)
          BY <2>2, <3>1, <3>5, WrittenProperties DEF Longer
        <4>3. disk'[Primary] \in Cells
          BY <1>0 DEF BaseInv, TypeOK
        <4>4. DOMAIN disk'[Primary] = 1 .. Len(disk'[Primary]) /\ Len(disk'[Primary]) \in Nat
          BY <4>3 DEF Cells
        <4>5. End(w) \in DOMAIN disk'[Primary]
          BY <3>1, <3>2 DEF Holds
        <4> QED
          BY <3>1, <4>1, <4>2, <4>4, <4>5
      <3> QED
        BY <3>3, <3>4, <3>5
    <2>3. CASE disk'[r] = << >>
      BY <2>3
    <2>4. \A w \in Writer : <<w, r>> \in late => Holds(Primary, w)
      BY <1>1 DEF BytesOnPrimary
    <2>5. ASSUME NEW s \in Server, NEW c, disk' = [disk EXCEPT ![s] = c]
          PROVE  disk'[r] = disk[r] \/ (s = r /\ disk'[r] = c)
      BY <1>0, <2>5
    <2> QED
      BY <1>0, <1>3, <2>1, <2>2, <2>3, <2>4, <2>5, DiskStep
  <1> QED
    BY <1>4, <1>5, <1>6 DEF BytesOnPrimary

LEMMA BaseInvariant == Spec => []BaseInv
  <1>1. Init => BaseInv
    BY InitBaseInv
  <1>2. BaseInv /\ [Next]_vars => BaseInv'
    BY NextBaseInv
  <1> QED
    BY <1>1, <1>2, PTL DEF Spec

\* The primary has every byte a replica has, for any number of concurrent calls,
\* replicas, failures, late forwards and crashes of the primary, promoted or not, until
\* a forward of it to itself has failed.
THEOREM PrimaryStaysSource == Spec => []PrimaryIsSource
  <1>1. Init => SourceInv
    BY InitSourceInv
  <1>2. BaseInv /\ BaseInv' /\ SourceInv /\ [Next]_vars => SourceInv'
    BY NextSourceInv
  <1>3. SourceInv => PrimaryIsSource
    BY DEF SourceInv, PrimaryIsSource
  <1> QED
    BY <1>1, <1>2, <1>3, BaseInvariant, PTL DEF Spec

-----------------------------------------------------------------------------
LEMMA InitRoundsDone == Init => RoundsDone
  BY ChunkWriteAssumption DEF Init, RoundsDone

LEMMA NextRoundsDone == BaseInv /\ RoundsDone /\ [Next]_vars => RoundsDone'
  <1> SUFFICES ASSUME BaseInv, RoundsDone, [Next]_vars,
                      NEW w \in Writer, NEW j \in 1 .. Len(Replicas), j < next'[w]
               PROVE  Holds(Replicas[j], w)' \/ FailedFor(Replicas[j])'
    BY DEF RoundsDone
  <1>0. /\ Replicas[j] \in Replica /\ Replicas[j] \in Server /\ TypeOK
        /\ next \in [Writer -> 1 .. Len(Replicas) + 1] /\ Len(Replicas) \in Nat
        /\ pc \in [Writer -> {"start", "acked", "failed"} \cup Busy]
    <2>1. Replicas \in Seq(Replica)
      BY ChunkWriteAssumption
    <2>2. Replicas[j] \in Replica /\ Len(Replicas) \in Nat
      BY <2>1
    <2>3. Replicas[j] \in Server
      BY <2>2 DEF Server
    <2>5. TypeOK
      BY DEF BaseInv
    <2> QED
      BY <2>2, <2>3, <2>5 DEF TypeOK
  <1>1. CASE j < next[w]
    <2>1. CASE FailedFor(Replicas[j])
      BY <2>1, FailedForStays
    <2>2. CASE Holds(Replicas[j], w)
      <3>1. CASE Keeps(Replicas[j])
        BY <1>0, <2>2, <3>1, KeptBytes
      <3>2. CASE ~Keeps(Replicas[j])
        BY <1>0, <3>2, ServerStep, FailedForStays
      <3> QED
        BY <3>1, <3>2
    <2> QED
      BY <1>1, <2>1, <2>2 DEF RoundsDone
  <1>2. CASE ~(j < next[w])
    <2>1. Forward(w)
      <3>1. next'[w] # next[w]
        BY <1>0, <1>2
      <3>2. ASSUME NEW v \in Writer, Step(v) PROVE Forward(w)
        BY <1>0, <3>1, <3>2 DEF Step, MeasureBefore, WritePrimary, WritePrimaryFails, MeasureAfter, Forward, ForwardFails,
                                Forwarding, Cleanup, Report, ReportFails, Reporting
      <3>3. ~(CrashPrimary \/ Done \/ UNCHANGED vars \/ \E v \in Writer, s \in Replica : LateForward(v, s))
        BY <3>1 DEF CrashPrimary, Done, vars, LateForward
      <3> QED
        BY <3>2, <3>3 DEF Next
    <2>2. j = next[w]
      BY <1>0, <1>2, <2>1 DEF Forward
    <2>3. disk'[Replicas[j]] = Written(disk[Replicas[j]], w)
      BY <1>0, <2>1, <2>2 DEF Forward, TypeOK
    <2> QED
      BY <1>0, <2>3, WrittenKeeps
  <1> QED
    BY <1>1, <1>2

\* Whatever fails, an acknowledged call can lose bytes on a replica only through a
\* call that failed in a round for that very replica.
THEOREM LossAlwaysHasACause == Spec => []LossHasACause
  <1>1. Init => RoundsDone
    BY InitRoundsDone
  <1>2. BaseInv /\ RoundsDone /\ [Next]_vars => RoundsDone'
    BY NextRoundsDone
  <1>3. BaseInv /\ RoundsDone => LossHasACause
    <2> SUFFICES ASSUME BaseInv, RoundsDone, NEW w \in Acked, NEW r \in Replica
                 PROVE  Holds(r, w) \/ FailedFor(r)
      BY DEF LossHasACause
    <2>1. w \in Writer /\ next[w] = Len(Replicas) + 1
      BY DEF Acked, BaseInv, RoundsCounted
    <2>2. Len(Replicas) \in Nat
      BY ChunkWriteAssumption
    <2>3. PICK j \in 1 .. Len(Replicas) : Replicas[j] = r
      BY ChunkWriteAssumption
    <2>4. j < next[w]
      BY <2>1, <2>2
    <2> QED
      BY <2>1, <2>3, <2>4 DEF RoundsDone
  <1> QED
    BY <1>1, <1>2, <1>3, BaseInvariant, PTL DEF Spec

NoFailure == faults = 0 => \A w \in Writer : pc[w] \notin {"cleanup", "failed"}

LEMMA NothingFails == Spec => []NoFailure
  <1>1. Init => NoFailure
    BY DEF Init, NoFailure
  <1>2. TypeOK /\ NoFailure /\ [Next]_vars => NoFailure'
    <2> SUFFICES ASSUME TypeOK, NoFailure, [Next]_vars, faults' = 0 PROVE NoFailure'
      BY DEF NoFailure
    <2>0. ~Fault /\ pc \in [Writer -> {"start", "acked", "failed"} \cup Busy]
      BY ChunkWriteAssumption DEF Fault, TypeOK
    <2>1. ASSUME NEW w \in Writer, Step(w) PROVE NoFailure'
      BY <2>0, <2>1 DEF NoFailure, Step, MeasureBefore, WritePrimary, WritePrimaryFails, MeasureAfter, Forward,
                        ForwardFails, Cleanup, Report, ReportFails, Goto
    <2>2. CASE \E w \in Writer, s \in Replica : LateForward(w, s)
      BY <2>2 DEF LateForward, NoFailure
    <2>3. CASE CrashPrimary \/ Done \/ UNCHANGED vars
      BY <2>0, <2>3 DEF CrashPrimary, Done, vars, NoFailure
    <2> QED
      BY <2>1, <2>2, <2>3 DEF Next
  <1> QED
    BY <1>1, <1>2, TypeCorrect, PTL DEF Spec

\* As long as nothing fails, an acknowledged call has its bytes on every server of
\* the chunk, for any number of concurrent calls and replicas.
THEOREM AckedIsReplicated == Spec => []AckedOnEveryReplica
  <1>1. Init => SourceInv
    BY InitSourceInv
  <1>2. BaseInv /\ BaseInv' /\ SourceInv /\ [Next]_vars => SourceInv'
    BY NextSourceInv
  <1>3. NoFailure /\ SourceInv /\ LossHasACause => AckedOnEveryReplica
    <2> SUFFICES ASSUME NoFailure, SourceInv, LossHasACause, faults = 0, NEW w \in Acked, NEW s \in Server
                 PROVE  Holds(s, w)
      BY DEF AckedOnEveryReplica
    <2>0. ~FailedFor(s) /\ ~FailedFor(Primary)
      BY DEF NoFailure, FailedFor
    <2>1. CASE s = Primary
      BY <2>0, <2>1 DEF Acked, SourceInv, BytesOnPrimary
    <2>2. CASE s # Primary
      BY <2>0, <2>2 DEF LossHasACause, Server
    <2> QED
      BY <2>1, <2>2
  <1>4. Spec => []NoFailure
    BY NothingFails
  <1> QED
    BY <1>1, <1>2, <1>3, <1>4, BaseInvariant, LossAlwaysHasACause, PTL DEF Spec

-----------------------------------------------------------------------------
(***************************************************************************)
(* Calls that nothing disturbs.                                            *)
(***************************************************************************)
NoneLate == faults = 0 => late = {}

LEMMA UndisturbedStep ==
  ASSUME BaseInv, NoFailure, NoneLate, [Next]_vars, faults' = 0
  PROVE  /\ faults = 0
         /\ \/ \E w \in Writer : \/ MeasureBefore(w) \/ WritePrimary(w) \/ MeasureAfter(w)
                                 \/ Forward(w) \/ Report(w)
            \/ UNCHANGED vars
  <1>0. ~Fault /\ faults \in Nat
    BY ChunkWriteAssumption DEF Fault, BaseInv, TypeOK
  <1>1. faults = 0
    <2>1. faults' = faults \/ Fault
      BY DEF Next, Step, MeasureBefore, WritePrimary, WritePrimaryFails, MeasureAfter, Forward, ForwardFails,
             Cleanup, Report, ReportFails, LateForward, CrashPrimary, Done, vars
    <2> QED
      BY <1>0, <2>1
  <1>2. ASSUME NEW w \in Writer, Step(w)
        PROVE  MeasureBefore(w) \/ WritePrimary(w) \/ MeasureAfter(w) \/ Forward(w) \/ Report(w)
    <2>1. ~Cleanup(w)
      BY <1>1 DEF NoFailure, Cleanup
    <2> QED
      BY <1>0, <1>2, <2>1 DEF Step, WritePrimaryFails, ForwardFails, ReportFails
  <1>3. ~\E w \in Writer, s \in Replica : LateForward(w, s)
    BY <1>1 DEF NoneLate, LateForward
  <1> QED
    BY <1>0, <1>1, <1>2, <1>3 DEF Next, CrashPrimary, Done

LEMMA NothingIsLate == Spec => []NoneLate
  <1>1. Init => NoneLate
    BY DEF Init, NoneLate
  <1>2. BaseInv /\ NoFailure /\ NoneLate /\ [Next]_vars => NoneLate'
    <2> SUFFICES ASSUME BaseInv, NoFailure, NoneLate, [Next]_vars, faults' = 0 PROVE late' = {}
      BY DEF NoneLate
    <2> QED
      BY UndisturbedStep
         DEF NoneLate, MeasureBefore, WritePrimary, MeasureAfter, Forward, Report, vars
  <1> QED
    BY <1>1, <1>2, BaseInvariant, NothingFails, PTL DEF Spec

\* The calls whose bytes server s has got, while nothing has failed.
HasWritten(s) ==
  {w \in Writer : \/ s = Primary /\ pc[w] \in {"measure", "forward", "acked"}
                  \/ \E j \in 1 .. next[w] - 1 : Replicas[j] = s}

\* Copy c is what the calls in W have written, in some order: it has bytes wherever
\* one of them wrote, only theirs, and ends where the farthest of them ends.
MadeBy(c, W) ==
  /\ \A w \in W : \A i \in 1 .. End(w) : Covers(w, i) => i \in DOMAIN c /\ c[i] # Hole
  /\ \A i \in DOMAIN c : c[i] # Hole => c[i] \in W /\ Covers(c[i], i)
  /\ Len(c) > 0 => \E w \in W : Len(c) = End(w)

CopiesMade == faults = 0 => \A s \in Server : MadeBy(disk[s], HasWritten(s))

LEMMA MadeByOneMore ==
  ASSUME NEW c \in Cells, NEW W \in SUBSET Writer, MadeBy(c, W), NEW w \in Writer
  PROVE  MadeBy(Written(c, w), W \cup {w})
  <1> DEFINE t == Written(c, w)
  <1>0. Len(c) \in Nat /\ DOMAIN c = 1 .. Len(c) /\ w # Hole
    BY ChunkWriteAssumption DEF Cells
  <1>e. \A v \in Writer : /\ End(v) \in Nat \ {0} /\ Covers(v, End(v))
                          /\ \A i : Covers(v, i) => i \in 1 .. End(v)
    BY ChunkWriteAssumption DEF End, Covers
  <1>1. /\ \A i \in 1 .. End(w) : Covers(w, i) => i \in DOMAIN t /\ t[i] # Hole
        /\ \A i \in DOMAIN c : i \in DOMAIN t /\ (c[i] # Hole => t[i] # Hole)
    BY WrittenHolds
  <1>2. /\ DOMAIN t = 1 .. Longer(Len(c), End(w)) /\ Len(t) = Longer(Len(c), End(w))
        /\ \A i \in 1 .. Longer(Len(c), End(w)) :
             t[i] = IF Covers(w, i) THEN w ELSE IF i <= Len(c) THEN c[i] ELSE Hole
    BY WrittenProperties
  <1> HIDE DEF t
  <1>3. \A v \in W \cup {w} : \A i \in 1 .. End(v) : Covers(v, i) => i \in DOMAIN t /\ t[i] # Hole
    BY <1>1 DEF MadeBy
  <1>4. \A i \in DOMAIN t : t[i] # Hole => t[i] \in W \cup {w} /\ Covers(t[i], i)
    BY <1>0, <1>2 DEF MadeBy
  <1>5. \E v \in W \cup {w} : Len(t) = End(v)
    <2>1. CASE Len(c) > End(w)
      BY <1>0, <1>2, <1>e, <2>1 DEF MadeBy, Longer
    <2>2. CASE ~(Len(c) > End(w))
      BY <1>2, <2>2 DEF Longer
    <2> QED
      BY <2>1, <2>2
  <1> QED
    BY <1>3, <1>4, <1>5 DEF MadeBy, t

\* What a step does to HasWritten: the call that writes a copy joins those of that copy.
LEMMA WritersStep ==
  ASSUME BaseInv, NoFailure, NoneLate, [Next]_vars, faults' = 0
  PROVE  \/ UNCHANGED disk /\ \A s \in Server : HasWritten(s)' = HasWritten(s)
         \/ \E w \in Writer, s \in Server :
              /\ disk' = [disk EXCEPT ![s] = Written(@, w)]
              /\ HasWritten(s)' = HasWritten(s) \cup {w}
              /\ \A r \in Server \ {s} : HasWritten(r)' = HasWritten(r)
  <1>0. /\ pc \in [Writer -> {"start", "acked", "failed"} \cup Busy]
        /\ next \in [Writer -> 1 .. Len(Replicas) + 1] /\ disk \in [Server -> Cells]
        /\ Primary \in Server /\ Len(Replicas) \in Nat
    BY ChunkWriteAssumption DEF BaseInv, TypeOK, Server
  <1>1. ASSUME NEW w \in Writer, MeasureBefore(w) \/ MeasureAfter(w) \/ Report(w)
        PROVE  UNCHANGED disk /\ \A s \in Server : HasWritten(s)' = HasWritten(s)
    <2>1. UNCHANGED <<disk, next>>
      BY <1>1 DEF MeasureBefore, MeasureAfter, Report
    <2>2. \A v \in Writer : pc'[v] \in {"measure", "forward", "acked"} <=> pc[v] \in {"measure", "forward", "acked"}
      BY <1>0, <1>1 DEF MeasureBefore, MeasureAfter, Report, Reporting, Goto
    <2> QED
      BY <2>1, <2>2 DEF HasWritten
  <1>2. ASSUME NEW w \in Writer, WritePrimary(w)
        PROVE  /\ disk' = [disk EXCEPT ![Primary] = Written(@, w)]
               /\ HasWritten(Primary)' = HasWritten(Primary) \cup {w}
               /\ \A r \in Server \ {Primary} : HasWritten(r)' = HasWritten(r)
    BY <1>0, <1>2 DEF WritePrimary, Goto, HasWritten
  <1>3. ASSUME NEW w \in Writer, Forward(w)
        PROVE  \E s \in Server :
                 /\ disk' = [disk EXCEPT ![s] = Written(@, w)]
                 /\ HasWritten(s)' = HasWritten(s) \cup {w}
                 /\ \A r \in Server \ {s} : HasWritten(r)' = HasWritten(r)
    <2> DEFINE s == Replicas[next[w]]
    <2>1. s \in Server
      <3>1. TypeOK /\ next[w] <= Len(Replicas)
        BY <1>3 DEF BaseInv, Forward, Forwarding
      <3> QED
        BY <1>0, <3>1, ReplicaInRound DEF Server
    <2>2. /\ disk' = [disk EXCEPT ![s] = Written(@, w)]
          /\ pc' = pc /\ next' = [next EXCEPT ![w] = @ + 1]
      BY <1>3 DEF Forward
    <2>3. 1 .. next'[w] - 1 = (1 .. next[w] - 1) \cup {next[w]}
      BY <1>0, <2>2
    <2>4. \A v \in Writer \ {w} : next'[v] = next[v]
      BY <1>0, <2>2
    <2>5. ASSUME NEW r \in Server
          PROVE  HasWritten(r)' = IF r = s THEN HasWritten(r) \cup {w} ELSE HasWritten(r)
      <3> DEFINE Been == {v \in Writer : \E j \in 1 .. next[v] - 1 : Replicas[j] = r}
                 Own  == {v \in Writer : r = Primary /\ pc[v] \in {"measure", "forward", "acked"}}
      <3>1. HasWritten(r) = Own \cup Been /\ HasWritten(r)' = Own' \cup Been'
        BY DEF HasWritten
      <3>2. Own' = Own
        BY <2>2
      <3>3. Been' = IF r = s THEN Been \cup {w} ELSE Been
        BY <2>3, <2>4
      <3> QED
        BY <3>1, <3>2, <3>3
    <2> HIDE DEF s
    <2> QED
      BY <2>1, <2>2, <2>5
  <1>4. ASSUME UNCHANGED vars
        PROVE  UNCHANGED disk /\ \A s \in Server : HasWritten(s)' = HasWritten(s)
    BY <1>4 DEF vars, HasWritten
  <1>5. CASE \E w \in Writer : MeasureBefore(w) \/ MeasureAfter(w) \/ Report(w)
    BY <1>1, <1>5
  <1>6. CASE \E w \in Writer : WritePrimary(w)
    BY <1>0, <1>2, <1>6
  <1>7. CASE \E w \in Writer : Forward(w)
    BY <1>3, <1>7
  <1> QED
    BY <1>4, <1>5, <1>6, <1>7, UndisturbedStep

LEMMA CopiesStayMade == Spec => []CopiesMade
  <1>1. Init => CopiesMade
    BY DEF Init, CopiesMade, MadeBy, HasWritten, Server
  <1>2. BaseInv /\ NoFailure /\ NoneLate /\ CopiesMade /\ [Next]_vars => CopiesMade'
    <2> SUFFICES ASSUME BaseInv, NoFailure, NoneLate, CopiesMade, [Next]_vars, faults' = 0,
                        NEW r \in Server
                 PROVE  MadeBy(disk'[r], HasWritten(r)')
      BY DEF CopiesMade
    <2>1. MadeBy(disk[r], HasWritten(r)) /\ disk \in [Server -> Cells]
      BY UndisturbedStep DEF CopiesMade, BaseInv, TypeOK
    <2>2. HasWritten(r) \in SUBSET Writer
      BY DEF HasWritten
    <2>3. ASSUME NEW w \in Writer, NEW s \in Server,
                 disk' = [disk EXCEPT ![s] = Written(@, w)],
                 HasWritten(s)' = HasWritten(s) \cup {w},
                 \A q \in Server \ {s} : HasWritten(q)' = HasWritten(q)
          PROVE  MadeBy(disk'[r], HasWritten(r)')
      <3>1. CASE r = s
        BY <2>1, <2>2, <2>3, <3>1, MadeByOneMore
      <3>2. CASE r # s
        BY <2>1, <2>3, <3>2
      <3> QED
        BY <3>1, <3>2
    <2> QED
      BY <2>1, <2>3, WritersStep
  <1> QED
    BY <1>1, <1>2, BaseInvariant, NothingFails, NothingIsLate, PTL DEF Spec

\* Two copies that the same calls have made have one length, and the same bytes
\* wherever at most one call wrote.
LEMMA SameMakers ==
  ASSUME NEW c \in Cells, NEW d \in Cells, NEW W \in SUBSET Writer, MadeBy(c, W), MadeBy(d, W)
  PROVE  /\ Len(c) = Len(d)
         /\ \A i \in DOMAIN c :
              (\A v, w \in Writer : Covers(v, i) /\ Covers(w, i) => v = w) => c[i] = d[i]
  <1>0. /\ Len(c) \in Nat /\ Len(d) \in Nat /\ DOMAIN c = 1 .. Len(c) /\ DOMAIN d = 1 .. Len(d)
    BY DEF Cells
  <1>1. \A v \in Writer : End(v) \in Nat \ {0} /\ Covers(v, End(v)) /\ \A i : Covers(v, i) => i \in 1 .. End(v)
    BY ChunkWriteAssumption DEF End, Covers
  <1>2. \A w \in W : End(w) <= Len(c) /\ End(w) <= Len(d)
    BY <1>0, <1>1 DEF MadeBy
  <1>3. Len(c) = Len(d)
    <2>0. Len(c) \in Nat /\ Len(d) \in Nat
      BY <1>0
    <2>1. Len(c) > 0 => Len(c) <= Len(d)
      BY <1>2 DEF MadeBy
    <2>2. Len(d) > 0 => Len(d) <= Len(c)
      BY <1>2 DEF MadeBy
    <2> QED
      BY <2>0, <2>1, <2>2
  <1>4. ASSUME NEW i \in DOMAIN c, \A v, w \in Writer : Covers(v, i) /\ Covers(w, i) => v = w
        PROVE  c[i] = d[i]
    <2>1. i \in DOMAIN d
      BY <1>0, <1>3
    <2>2. c[i] # Hole => d[i] # Hole
      BY <1>1 DEF MadeBy
    <2>3. d[i] # Hole => c[i] # Hole
      BY <1>1, <2>1 DEF MadeBy
    <2>4. c[i] # Hole => c[i] \in Writer /\ Covers(c[i], i)
      BY DEF MadeBy
    <2>5. d[i] # Hole => d[i] \in Writer /\ Covers(d[i], i)
      BY <2>1 DEF MadeBy
    <2> QED
      BY <1>4, <2>2, <2>3, <2>4, <2>5
  <1> QED
    BY <1>3, <1>4

\* Calls to different ranges of a chunk leave equal copies on the primary and on every
\* replica, in whatever order the forwards of the calls arrive.
THEOREM WritesConverge == Spec => []DisjointWritesConverge
  <1>1. BaseInv /\ NoFailure /\ CopiesMade => DisjointWritesConverge
    <2> SUFFICES ASSUME BaseInv, NoFailure, CopiesMade, faults = 0, Quiet, NEW r \in Replica
                 PROVE  /\ Len(disk[r]) = Len(disk[Primary])
                        /\ \A i \in DOMAIN disk[r] :
                             (\A v, w \in Writer : Covers(v, i) /\ Covers(w, i) => v = w)
                               => disk[r][i] = disk[Primary][i]
      BY DEF DisjointWritesConverge
    <2>0. /\ r \in Server /\ Primary \in Server /\ disk \in [Server -> Cells]
          /\ pc \in [Writer -> {"start", "acked", "failed"} \cup Busy] /\ Len(Replicas) \in Nat
      BY ChunkWriteAssumption DEF BaseInv, TypeOK, Server
    <2>1. \A w \in Writer : pc[w] \in {"start", "acked"}
      BY <2>0 DEF NoFailure, Quiet
    <2>2. \A w \in Writer : /\ next[w] \in Nat
                            /\ pc[w] = "acked" => next[w] = Len(Replicas) + 1
                            /\ pc[w] # "acked" => next[w] = 1
      <3> TAKE w \in Writer
      <3>1. next[w] \in 1 .. Len(Replicas) + 1
        BY DEF BaseInv, TypeOK
      <3> QED
        BY <2>0, <2>1, <3>1 DEF BaseInv, RoundsCounted
    <2>3. HasWritten(Primary) = Acked
      <3>1. \A w \in Writer : \A k \in 1 .. next[w] - 1 : pc[w] = "acked"
        BY <2>0, <2>2
      <3> QED
        BY <2>1, <3>1 DEF HasWritten, Acked
    <2>4. HasWritten(r) = Acked
      <3>1. PICK j \in 1 .. Len(Replicas) : Replicas[j] = r
        BY ChunkWriteAssumption
      <3>2. \A w \in Writer : (j \in 1 .. next[w] - 1) <=> (pc[w] = "acked")
        <4> TAKE w \in Writer
        <4>1. CASE pc[w] = "acked"
          BY <2>0, <2>2, <4>1
        <4>2. CASE pc[w] # "acked"
          BY <2>0, <2>2, <4>2
        <4> QED
          BY <4>1, <4>2
      <3>3. \A w \in Writer : \A k \in 1 .. next[w] - 1 : pc[w] = "acked"
        BY <2>0, <2>2
      <3> QED
        BY <2>1, <3>1, <3>2, <3>3 DEF HasWritten, Acked
    <2>5. MadeBy(disk[r], Acked) /\ MadeBy(disk[Primary], Acked) /\ Acked \in SUBSET Writer
      BY <2>0, <2>3, <2>4 DEF CopiesMade, Acked
    <2> QED
      BY <2>0, <2>5, SameMakers
  <1> QED
    BY <1>1, BaseInvariant, NothingFails, CopiesStayMade, PTL
-----------------------------------------------------------------------------
(***************************************************************************)
(* What the Master has counted while nothing fails.  The reports of the     *)
(* acknowledged calls name cells of the primary's copy, call by call, and   *)
(* every cell is in the growth of a call that reported it or still will.    *)
(***************************************************************************)
Grew(w) == oldSize[w] + 1 .. oldSize[w] + change[w]

Counted == {p \in Acked \X Nat : p[2] \in Grew(p[1])}

WillCount(w, i) == \/ pc[w] = "measure" /\ oldSize[w] < i
                   \/ pc[w] \in {"forward", "acked"} /\ i \in Grew(w)

CountInv == faults = 0 =>
  /\ \A w \in Writer : pc[w] \in {"write", "measure"} => oldSize[w] <= Len(disk[Primary])
  /\ \A w \in Writer : pc[w] \in {"forward", "acked"} => change[w] \in Nat
  /\ \A i \in 1 .. Len(disk[Primary]) : \E w \in Writer : WillCount(w, i)
  /\ IsFiniteSet(Counted) /\ credited = Cardinality(Counted)

LEMMA CountStays == Spec => []CountInv
  <1>1. Init => CountInv
    <2> SUFFICES ASSUME Init PROVE CountInv
      OBVIOUS
    <2>1. Counted = {} /\ credited = 0
      BY DEF Init, Counted, Acked
    <2>2. Len(disk[Primary]) = 0
      BY DEF Init, Server
    <2> QED
      BY <2>1, <2>2, FS_EmptySet DEF Init, CountInv
  <1>2. BaseInv /\ BaseInv' /\ NoFailure /\ NoneLate /\ CopiesMade /\ CountInv /\ [Next]_vars => CountInv'
    <2> SUFFICES ASSUME BaseInv, BaseInv', NoFailure, NoneLate, CopiesMade, CountInv, [Next]_vars, faults' = 0
                 PROVE  /\ \A w \in Writer : pc'[w] \in {"write", "measure"} => oldSize'[w] <= Len(disk'[Primary])
                        /\ \A w \in Writer : pc'[w] \in {"forward", "acked"} => change'[w] \in Nat
                        /\ \A i \in 1 .. Len(disk'[Primary]) : \E w \in Writer : WillCount(w, i)'
                        /\ IsFiniteSet(Counted') /\ credited' = Cardinality(Counted')
      BY DEF CountInv
    <2>0. /\ faults = 0
          /\ pc \in [Writer -> {"start", "acked", "failed"} \cup Busy] /\ oldSize \in [Writer -> Nat]
          /\ change \in [Writer -> Int] /\ disk \in [Server -> Cells] /\ Primary \in Server
          /\ Len(disk[Primary]) \in Nat
      <3>1. faults = 0
        BY UndisturbedStep
      <3> QED
        BY <3>1 DEF BaseInv, TypeOK, Server, Cells
    <2>i. /\ \A w \in Writer : pc[w] \in {"write", "measure"} => oldSize[w] <= Len(disk[Primary])
          /\ \A w \in Writer : pc[w] \in {"forward", "acked"} => change[w] \in Nat
          /\ \A i \in 1 .. Len(disk[Primary]) : \E w \in Writer : WillCount(w, i)
          /\ IsFiniteSet(Counted) /\ credited = Cardinality(Counted)
      BY <2>0 DEF CountInv
    <2>c. ASSUME Acked' = Acked, \A v \in Acked : oldSize'[v] = oldSize[v] /\ change'[v] = change[v]
          PROVE  Counted' = Counted
      BY <2>c DEF Counted, Grew
    <2>1. ASSUME NEW w \in Writer, MeasureBefore(w)
          PROVE  CountInv'
      <3>1. /\ pc[w] = "start" /\ pc' = [pc EXCEPT ![w] = "write"]
            /\ oldSize' = [oldSize EXCEPT ![w] = Len(disk[Primary])]
            /\ UNCHANGED <<disk, change, credited>>
        BY <2>1 DEF MeasureBefore, Goto
      <3>2. Counted' = Counted
        BY <2>0, <2>c, <3>1 DEF Acked
      <3>3. \A v \in Writer, i \in 1 .. Len(disk[Primary]) : WillCount(v, i) => WillCount(v, i)'
        BY <2>0, <3>1 DEF WillCount, Grew
      <3> QED
        BY <2>0, <2>i, <3>1, <3>2, <3>3 DEF CountInv
    <2>2. ASSUME NEW w \in Writer, WritePrimary(w)
          PROVE  CountInv'
      <3>1. /\ pc[w] = "write" /\ pc' = [pc EXCEPT ![w] = "measure"]
            /\ disk' = [disk EXCEPT ![Primary] = Written(@, w)]
            /\ UNCHANGED <<oldSize, change, credited>>
        BY <2>2 DEF WritePrimary, Goto
      <3>2. Counted' = Counted
        BY <2>0, <2>c, <3>1 DEF Acked
      <3>3. Len(disk'[Primary]) = Longer(Len(disk[Primary]), End(w)) /\ End(w) \in Nat
        <4>1. disk[Primary] \in Cells /\ End(w) \in Nat
          BY <2>0, ChunkWriteAssumption DEF End
        <4>2. Len(Written(disk[Primary], w)) = Longer(Len(disk[Primary]), End(w))
          BY <4>1, WrittenProperties
        <4> QED
          BY <2>0, <3>1, <4>1, <4>2
      <3>4. Len(disk'[Primary]) \in Nat /\ Len(disk'[Primary]) >= Len(disk[Primary])
        BY <2>0, <3>3 DEF Longer
      <3>5. \A v \in Writer, i \in 1 .. Len(disk[Primary]) : WillCount(v, i) => WillCount(v, i)'
        BY <2>0, <3>1 DEF WillCount, Grew
      <3>6. \A i \in 1 .. Len(disk'[Primary]) : i > Len(disk[Primary]) => WillCount(w, i)'
        BY <2>0, <2>i, <3>1, <3>4 DEF WillCount
      <3>7. \A i \in 1 .. Len(disk'[Primary]) : \E v \in Writer : WillCount(v, i)'
        BY <2>0, <2>i, <3>4, <3>5, <3>6
      <3>8. \A v \in Writer : pc'[v] \in {"write", "measure"} => oldSize'[v] <= Len(disk'[Primary])
        BY <2>0, <2>i, <3>1, <3>4
      <3> QED
        BY <2>0, <2>i, <3>1, <3>2, <3>7, <3>8 DEF CountInv
    <2>3. ASSUME NEW w \in Writer, MeasureAfter(w)
          PROVE  CountInv'
      <3>1. /\ pc[w] = "measure" /\ pc' = [pc EXCEPT ![w] = "forward"]
            /\ change' = [change EXCEPT ![w] = Len(disk[Primary]) - oldSize[w]]
            /\ UNCHANGED <<disk, oldSize, credited>>
        BY <2>3 DEF MeasureAfter, Goto
      <3>2. Counted' = Counted
        BY <2>0, <2>c, <3>1 DEF Acked
      <3>3. \A v \in Writer, i \in 1 .. Len(disk[Primary]) : WillCount(v, i) => WillCount(v, i)'
        BY <2>0, <2>i, <3>1 DEF WillCount, Grew
      <3>4. change'[w] \in Nat
        BY <2>0, <2>i, <3>1
      <3> QED
        BY <2>0, <2>i, <3>1, <3>2, <3>3, <3>4 DEF CountInv
    <2>4. ASSUME NEW w \in Writer, Forward(w)
          PROVE  CountInv'
      <3>1. TypeOK /\ next[w] <= Len(Replicas) /\ UNCHANGED <<pc, oldSize, change, credited>>
        BY <2>4 DEF Forward, Forwarding, BaseInv
      <3>2. Len(disk'[Primary]) = Len(disk[Primary])
        <4> DEFINE r == Replicas[next[w]]
        <4>1. disk' = [disk EXCEPT ![r] = Written(@, w)] /\ pc[w] = "forward"
          BY <2>4 DEF Forward, Forwarding
        <4>2. CASE r = Primary
          <5>1. w \in HasWritten(Primary) /\ MadeBy(disk[Primary], HasWritten(Primary))
            BY <2>0, <4>1 DEF HasWritten, CopiesMade
          <5>2. End(w) \in Nat \ {0} /\ Covers(w, End(w))
            BY ChunkWriteAssumption DEF End, Covers
          <5>3. disk[Primary] \in Cells /\ DOMAIN disk[Primary] = 1 .. Len(disk[Primary])
            BY <2>0 DEF Cells
          <5>4. End(w) <= Len(disk[Primary])
            BY <5>1, <5>2, <5>3 DEF MadeBy
          <5>5. Len(Written(disk[Primary], w)) = Longer(Len(disk[Primary]), End(w))
            BY <5>3, WrittenProperties
          <5> HIDE DEF r
          <5> QED
            BY <2>0, <4>1, <4>2, <5>2, <5>4, <5>5 DEF Longer
        <4>3. CASE r # Primary
          <5> HIDE DEF r
          <5> QED
            BY <2>0, <4>1, <4>3
        <4> QED
          BY <4>2, <4>3
      <3>3. Counted' = Counted
        BY <2>c, <3>1 DEF Acked
      <3>4. \A v \in Writer, i \in 1 .. Len(disk[Primary]) : WillCount(v, i) => WillCount(v, i)'
        BY <3>1 DEF WillCount, Grew
      <3> QED
        BY <2>i, <3>1, <3>2, <3>3, <3>4 DEF CountInv
    <2>5. ASSUME NEW w \in Writer, Report(w)
          PROVE  CountInv'
      <3>1. /\ pc[w] = "forward" /\ pc' = [pc EXCEPT ![w] = "acked"] /\ credited' = credited + change[w]
            /\ UNCHANGED <<disk, oldSize, change>>
        BY <2>5 DEF Report, Reporting, Goto
      <3>2. oldSize[w] \in Nat /\ change[w] \in Nat
        BY <2>0, <2>i, <3>1
      <3>3. Acked' = Acked \cup {w} /\ w \notin Acked
        BY <2>0, <3>1 DEF Acked
      <3>4. Counted' = Counted \cup ({w} \X Grew(w))
        <4>1. Counted' = {p \in (Acked \cup {w}) \X Nat : p[2] \in Grew(p[1])}
          BY <3>1, <3>3 DEF Counted, Grew
        <4>2. Grew(w) \in SUBSET Nat
          BY <3>2 DEF Grew
        <4> QED
          BY <4>1, <4>2 DEF Counted
      <3>5. \A i : <<w, i>> \notin Counted
        BY <3>3 DEF Counted
      <3>6. IsFiniteSet(Counted') /\ Cardinality(Counted') = Cardinality(Counted) + change[w]
        <4>1. IsFiniteSet(Grew(w)) /\ Cardinality(Grew(w)) = change[w]
          BY <3>2, IntervalSize DEF Grew
        <4>2. /\ IsFiniteSet(Counted \cup ({w} \X Grew(w)))
              /\ Cardinality(Counted \cup ({w} \X Grew(w))) = Cardinality(Counted) + Cardinality(Grew(w))
          BY <2>i, <3>5, <4>1, CountOneMore
        <4> QED
          BY <3>4, <4>1, <4>2
      <3>7. \A v \in Writer, i \in 1 .. Len(disk[Primary]) : WillCount(v, i) => WillCount(v, i)'
        BY <2>0, <3>1 DEF WillCount, Grew
      <3>8. /\ \A v \in Writer : pc'[v] \in {"write", "measure"} => pc[v] \in {"write", "measure"}
            /\ \A v \in Writer : pc'[v] \in {"forward", "acked"} => pc[v] \in {"forward", "acked"}
        BY <2>0, <3>1
      <3> QED
        BY <2>i, <3>1, <3>6, <3>7, <3>8 DEF CountInv
    <2>6. ASSUME UNCHANGED vars
          PROVE  CountInv'
      BY <2>6, <2>0, <2>i DEF vars, CountInv, WillCount, Counted, Grew, Acked
    <2>7. CountInv'
      BY <2>1, <2>2, <2>3, <2>4, <2>5, <2>6, UndisturbedStep
    <2> QED
      BY <2>7 DEF CountInv
  <1> QED
    BY <1>1, <1>2, BaseInvariant, NothingFails, NothingIsLate, CopiesStayMade, PTL DEF Spec

\* With no failure and no call under way the Master has counted at least the bytes of
\* the primary's copy: the three unlocked accesses of concurrent calls miss none.
THEOREM GrowthIsCounted == Spec => []MasterCountsEveryByte
  <1>1. BaseInv /\ NoFailure /\ CountInv => MasterCountsEveryByte
    <2> SUFFICES ASSUME BaseInv, NoFailure, CountInv, faults = 0, Quiet
                 PROVE  credited >= Len(disk[Primary])
      BY DEF MasterCountsEveryByte
    <2> DEFINE I == 1 .. Len(disk[Primary])
    <2>1. Len(disk[Primary]) \in Nat /\ IsFiniteSet(I) /\ Cardinality(I) = Len(disk[Primary])
      <3>1. Len(disk[Primary]) \in Nat
        BY DEF BaseInv, TypeOK, Server, Cells
      <3>2. /\ IsFiniteSet(0 + 1 .. 0 + Len(disk[Primary]))
            /\ Cardinality(0 + 1 .. 0 + Len(disk[Primary])) = Len(disk[Primary])
        BY <3>1, IntervalSize
      <3> QED
        BY <3>1, <3>2
    <2>2. \A i \in I : \E w \in Acked : i \in Grew(w)
      BY DEF CountInv, WillCount, Quiet, Busy, Acked
    <2>3. \A i \in I : i \in Nat
      BY <2>1
    <2> HIDE DEF I
    <2> DEFINE f == [i \in I |-> <<CHOOSE w \in Acked : i \in Grew(w), i>>]
    <2>4. f \in Injection(I, Counted)
      <3>1. \A i \in I : f[i] \in Counted /\ f[i][2] = i
        BY <2>2, <2>3 DEF Counted
      <3>2. f \in [I -> Counted]
        BY <3>1
      <3> HIDE DEF f
      <3> QED
        BY <3>1, <3>2, Fun_IsInj
    <2> HIDE DEF f
    <2>5. IsFiniteSet(Counted) /\ credited = Cardinality(Counted)
      BY DEF CountInv
    <2>6. Cardinality(I) <= Cardinality(Counted)
      BY <2>4, <2>5, FS_Injection
    <2>7. Cardinality(Counted) \in Nat
      BY <2>5, FS_CardinalityType
    <2> QED
      BY <2>1, <2>5, <2>6, <2>7
  <1> QED
    BY <1>1, BaseInvariant, NothingFails, CountStays, PTL
=============================================================================
