--------------------------- MODULE FileOpsProofs ---------------------------
(***************************************************************************)
(* Theorems about FileOps, for any clients, data, chunk size and failures. *)
(*                                                                         *)
(* TInv says what the file, the chunks and every call look like, and what  *)
(* a call has for its next step: it is inductive by itself.  Beside it,    *)
(* OInv says which of the file's chunks the one writing call may touch,    *)
(* and RInv what every read under way knows of the bytes it may return.    *)
(***************************************************************************)
EXTENDS FileOps, BytesLemmas

Handle == Nat \ {0}

Byte == {Hole} \cup UNION {ToSet(d) : d \in Data}

ReadPart == [h : Handle, off : Nat, n : Nat]

CutPart == [h : Handle, n : 1 .. ChunkSize]

\* A WriteChunk call stays inside its chunk and writes something.
CallPart ==
  {p \in [h : Handle, off : 0 .. ChunkSize - 1, bytes : Seq(Byte)] :
     p.bytes # << >> /\ p.off + Len(p.bytes) <= ChunkSize}

RequestOK(r) ==
  /\ r.off \in Nat /\ r.n \in Nat /\ r.bytes \in Seq(Byte)
  /\ r.op \in {"write", "append", "insert"} => r.bytes # << >>
  /\ r.op = "deleteRange" => r.n > 0

\* At every place of an opened list finitely many handles may be found.
ListOK(list) == list \in Seq(SUBSET Handle) /\ \A i \in DOMAIN list : IsFiniteSet(list[i])

JobTyped(j) ==
  /\ DOMAIN j = DOMAIN Idle
  /\ j.old \in Seq(Handle) /\ j.new \in Seq(Handle) /\ j.at \in Nat /\ j.buffer \in Seq(Byte)
  /\ j.calls \in Seq(CallPart) /\ j.cut \in Seq(CutPart)
  /\ IsFiniteSet(DOMAIN j.reads) /\ \A i \in DOMAIN j.reads : j.reads[i] \in ReadPart
  /\ DOMAIN j.got \subseteq DOMAIN j.reads /\ \A i \in DOMAIN j.got : j.got[i] \in Seq(Byte)
  /\ ListOK(j.list) /\ j.size \in Nat

\* What a call needs at each place to go on.
JobPlaced(j) ==
  /\ j.pc # "idle" => RequestOK(j.req)
  /\ j.pc = "read" => /\ j.req.op \in {"read", "deleteRange", "insert"}
                      /\ j.req.op # "read" => j.reads \in Seq(ReadPart) /\ j.reads # << >>
  /\ j.pc \in {"plan", "open", "list"} => j.got = << >>
  /\ j.pc = "open" => j.req.op = "insert" /\ j.old # << >>
  /\ j.pc = "append" => j.req.op = "insert"
  /\ j.pc = "remove" => j.req.op \in {"deleteRange", "insert", "truncate", "delete"} /\ j.old # << >>
  /\ j.pc = "rewrite" => j.calls # << >>
  /\ j.pc = "cut" => j.cut # << >>

JobOK(j) == JobTyped(j) /\ JobPlaced(j)

FileOK ==
  /\ running \in BOOLEAN /\ exists \in BOOLEAN
  /\ handles \in Seq(Handle)
  /\ size \in 0 .. Word - 1
  /\ located \subseteq Handle /\ IsFiniteSet(located)
  /\ DOMAIN data \subseteq Handle /\ IsFiniteSet(DOMAIN data)
  /\ \A h \in DOMAIN data : data[h] \in Seq(Byte) /\ Len(data[h]) \in 1 .. ChunkSize
  /\ copies \subseteq Handle /\ IsFiniteSet(copies)
  /\ faults \in 0 .. MaxFaults

JobsOK(jobs) == jobs = [c \in Client |-> jobs[c]] /\ \A c \in Client : JobOK(jobs[c])

TInv == FileOK /\ JobsOK(job)

-----------------------------------------------------------------------------
(***************************************************************************)
(* A call goes on.                                                         *)
(***************************************************************************)
LEMMA IdleOK == JobOK(Idle)
  <1>1. IsFiniteSet(DOMAIN << >>)
    BY FS_EmptySet
  <1>2. JobTyped(Idle)
    BY <1>1 DEF JobTyped, ListOK, Idle
  <1> QED
    BY <1>2 DEF JobOK, JobPlaced, Idle

LEMMA EndedOK ==
  ASSUME NEW j, NEW reply
  PROVE  JobOK(Ended(j, reply))
  <1> DEFINE e == Ended(j, reply)
  <1>1. /\ DOMAIN e = DOMAIN Idle /\ e.pc = "idle"
        /\ e.old = Idle.old /\ e.new = Idle.new /\ e.at = Idle.at /\ e.buffer = Idle.buffer
        /\ e.calls = Idle.calls /\ e.cut = Idle.cut /\ e.reads = Idle.reads /\ e.got = Idle.got
        /\ e.list = Idle.list /\ e.size = Idle.size /\ e.gone = Idle.gone
    BY DEF Ended, Idle
  <1> HIDE DEF e
  <1> QED
    <2>1. JobTyped(e)
      BY <1>1, IdleOK DEF JobOK, JobTyped
    <2>2. JobPlaced(e)
      BY <1>1 DEF JobPlaced
    <2> QED
      BY <2>1, <2>2 DEF JobOK, e

\* Only the places have to be looked at when a call keeps what it has.
LEMMA AfterStoresOK ==
  ASSUME NEW j, JobTyped(j), RequestOK(j.req), j.pc \in {"store", "rewrite"}
  PROVE  JobOK(AfterStores(j))
  BY EndedOK DEF AfterStores, JobOK, JobPlaced

-----------------------------------------------------------------------------
(***************************************************************************)
(* The parts of a write.                                                   *)
(***************************************************************************)
LEMMA PieceBounds ==
  ASSUME NEW off \in Nat, NEW n \in Nat \ {0}, NEW m \in ChunkOf(off) .. ChunkOf(off + n - 1),
         NEW from, from = Greater(off, m * ChunkSize),
         NEW to, to = Smaller(off + n, (m + 1) * ChunkSize)
  PROVE  /\ from \in Nat /\ to \in Nat /\ off <= from /\ from < to /\ to <= off + n
         /\ from % ChunkSize \in 0 .. ChunkSize - 1
         /\ (from % ChunkSize) + (to - from) <= ChunkSize
  <1> DEFINE q == ChunkOf(off)
             l == ChunkOf(off + n - 1)
             start == m * ChunkSize
  <1>1. /\ q \in Nat /\ q * ChunkSize <= off /\ off < q * ChunkSize + ChunkSize
    BY ChunkBounds
  <1>2. l \in Nat /\ l * ChunkSize <= off + n - 1
    <2>1. off + n - 1 \in Nat
      OBVIOUS
    <2> QED
      BY <2>1, ChunkBounds
  <1>3. m \in Nat /\ q <= m /\ m <= l
    BY <1>1, <1>2
  <1> HIDE DEF q, l
  <1>4. start \in Nat /\ start <= l * ChunkSize /\ q * ChunkSize <= start
        /\ (m + 1) * ChunkSize = start + ChunkSize
    BY <1>1, <1>2, <1>3, ChunkSizeAssumption
  <1>5. q * ChunkSize \in Nat /\ l * ChunkSize \in Nat /\ ChunkSize \in Nat \ {0}
    BY <1>1, <1>2, ChunkSizeAssumption
  <1> HIDE DEF start
  <1>6. /\ from \in Nat /\ to \in Nat /\ off <= from /\ from < to /\ to <= off + n
        /\ start <= from /\ to <= start + ChunkSize
    BY <1>1, <1>2, <1>4, <1>5 DEF Greater, Smaller, start
  <1> DEFINE k == from - start
  <1>7. k \in 0 .. ChunkSize - 1 /\ from = start + k
    BY <1>4, <1>5, <1>6
  <1> HIDE DEF k
  <1>8. from % ChunkSize = k
    BY <1>3, <1>7, Quotient DEF start
  <1> QED
    BY <1>4, <1>5, <1>6, <1>7, <1>8

LEMMA PiecesOK ==
  ASSUME NEW off \in Nat, NEW d \in Seq(Byte), d # << >>, NEW hs \in Seq(Handle),
         ChunkOf(off + Len(d) - 1) - ChunkOf(off) + 1 <= Len(hs)
  PROVE  /\ Pieces(off, d, hs) \in Seq(CallPart)
         /\ Pieces(off, d, hs) # << >>
         /\ \A i \in DOMAIN Pieces(off, d, hs) : i \in DOMAIN hs /\ Pieces(off, d, hs)[i].h = hs[i]
  <1> DEFINE n == Len(d)
             q == ChunkOf(off)
             l == ChunkOf(off + n - 1)
             m == l - q + 1
             P == Pieces(off, d, hs)
  <1>1. n \in Nat \ {0}
    BY EmptySeq
  <1>2. q \in Nat /\ l \in Nat /\ q <= l
    <2>1. off + n - 1 \in Nat /\ off <= off + n - 1
      BY <1>1
    <2> QED
      BY <2>1, ChunkOfOffset, ChunkOfMonotonic
  <1>3. m \in Nat \ {0} /\ m <= Len(hs)
    BY <1>2
  <1>4. ASSUME NEW i \in 1 .. m
        PROVE  P[i] \in CallPart /\ i \in DOMAIN hs /\ P[i].h = hs[i]
    <2> DEFINE first == q + i - 1
               from == Greater(off, first * ChunkSize)
               to == Smaller(off + n, (first + 1) * ChunkSize)
               bytes == SubSeq(d, from - off + 1, to - off)
    <2>1. first \in q .. l
      BY <1>2, <1>3
    <2>2. P[i] = [h |-> hs[i], off |-> from % ChunkSize, bytes |-> bytes]
      BY DEF Pieces
    <2>3. i \in DOMAIN hs /\ hs[i] \in Handle
      BY <1>3
    <2> HIDE DEF first, n, q, l, P
    <2>4. /\ from \in Nat /\ to \in Nat /\ off <= from /\ from < to /\ to <= off + n
          /\ from % ChunkSize \in 0 .. ChunkSize - 1
          /\ (from % ChunkSize) + (to - from) <= ChunkSize
      BY <1>1, <2>1, PieceBounds DEF q, l
    <2> HIDE DEF from, to
    <2>5. from - off + 1 \in Int /\ to - off \in Int /\ \A k \in from - off + 1 .. to - off : d[k] \in Byte
      BY <1>1, <2>4 DEF n
    <2>6. bytes \in Seq(Byte) /\ Len(bytes) = to - from
      <3>1. /\ SubSeq(d, from - off + 1, to - off) \in Seq(Byte)
            /\ Len(SubSeq(d, from - off + 1, to - off))
                 = IF from - off + 1 <= to - off THEN (to - off) - (from - off + 1) + 1 ELSE 0
        BY <2>5, SubSeqProperties
      <3> QED
        BY <2>4, <3>1
    <2> HIDE DEF bytes
    <2>7. bytes # << >>
      BY <2>4, <2>6
    <2> QED
      BY <2>2, <2>3, <2>4, <2>6, <2>7 DEF CallPart
  <1>5. P = [i \in 1 .. m |-> P[i]]
    BY DEF Pieces
  <1> HIDE DEF P, m
  <1>6. P \in [1 .. m -> CallPart]
    BY <1>4, <1>5
  <1>7. P \in Seq(CallPart) /\ Len(P) = m /\ DOMAIN P = 1 .. m
    BY <1>3, <1>6
  <1> QED
    BY <1>3, <1>4, <1>7 DEF P

LEMMA PiecesFit ==
  ASSUME NEW n \in Nat \ {0}, NEW m \in Nat, n <= m * ChunkSize
  PROVE  ChunkOf(0 + n - 1) - ChunkOf(0) + 1 <= m
  <1> DEFINE q == ChunkOf(n - 1)
  <1>1. n - 1 \in Nat /\ 0 + n - 1 = n - 1
    OBVIOUS
  <1>2. q \in Nat /\ q * ChunkSize \in Nat /\ q * ChunkSize <= n - 1
    BY <1>1, ChunkBounds
  <1>3. ChunkOf(0) = 0
    BY ChunkSizeAssumption DEF ChunkOf
  <1> HIDE DEF q
  <1>4. q + 1 <= m
    <2>1. q * ChunkSize < m * ChunkSize
      BY <1>2, ChunkSizeAssumption
    <2> QED
      BY <1>2, <2>1, ChunkSizeAssumption
  <1> QED
    BY <1>1, <1>2, <1>3, <1>4 DEF q

\* The replacement chunks of DeleteRange and Insert take all the bytes.
LEMMA AllocatedCalls ==
  ASSUME NEW bytes \in Seq(Byte), bytes # << >>, NEW hs \in Seq(Handle), Len(hs) * ChunkSize >= Len(bytes)
  PROVE  /\ Pieces(0, bytes, hs) \in Seq(CallPart)
         /\ \A i \in DOMAIN Pieces(0, bytes, hs) : Pieces(0, bytes, hs)[i].h \in ToSet(hs)
  <1>1. Len(bytes) \in Nat \ {0} /\ Len(hs) \in Nat
    BY EmptySeq
  <1>2. Len(bytes) <= Len(hs) * ChunkSize
    BY <1>1, ChunkSizeAssumption
  <1>3. ChunkOf(0 + Len(bytes) - 1) - ChunkOf(0) + 1 <= Len(hs)
    BY <1>1, <1>2, PiecesFit
  <1> QED
    BY <1>3, PiecesOK DEF ToSet

LEMMA AfterAllocationOK ==
  ASSUME NEW j, JobTyped(j), RequestOK(j.req), j.pc = "allocate"
  PROVE  JobOK(AfterAllocation(j))
  <1> DEFINE calls == IF j.buffer = << >> THEN << >> ELSE Pieces(0, j.buffer, j.new)
             k == [Idle EXCEPT !.pc = "rewrite", !.req = j.req, !.before = j.before, !.calls = calls]
  <1>1. CASE Len(j.new) * ChunkSize >= Len(j.buffer)
    <2>1. calls \in Seq(CallPart)
      <3>1. CASE j.buffer = << >>
        BY <3>1
      <3>2. CASE j.buffer # << >>
        BY <1>1, <3>2, AllocatedCalls DEF JobTyped
      <3> QED
        BY <3>1, <3>2
    <2>2. AfterAllocation(j) = AfterStores(k)
      BY <1>1 DEF AfterAllocation
    <2> HIDE DEF calls
    <2>3. /\ DOMAIN k = DOMAIN Idle /\ k.pc = "rewrite" /\ k.req = j.req /\ k.calls = calls
          /\ k.old = Idle.old /\ k.new = Idle.new /\ k.at = Idle.at /\ k.buffer = Idle.buffer
          /\ k.cut = Idle.cut /\ k.reads = Idle.reads /\ k.got = Idle.got
          /\ k.list = Idle.list /\ k.size = Idle.size /\ k.gone = Idle.gone
      BY DEF Idle
    <2> HIDE DEF k
    <2>4. JobTyped(k)
      BY <2>1, <2>3, IdleOK DEF JobOK, JobTyped
    <2>5. JobOK(AfterStores(k))
      BY <2>3, <2>4, AfterStoresOK
    <2> QED
      BY <2>2, <2>5
  <1>2. CASE ~(Len(j.new) * ChunkSize >= Len(j.buffer))
    <2>1. AfterAllocation(j) = j
      BY <1>2 DEF AfterAllocation
    <2> QED
      BY <2>1 DEF JobOK, JobPlaced
  <1> QED
    BY <1>1, <1>2

RemovalOps == {"deleteRange", "insert", "truncate", "delete"}

LEMMA AfterRemovalOK ==
  ASSUME NEW j, JobTyped(j), RequestOK(j.req), j.pc = "remove", j.req.op \in RemovalOps
  PROVE  JobOK(AfterRemoval(j))
  <1>1. CASE j.old # << >>
    <2>1. AfterRemoval(j) = j
      BY <1>1 DEF AfterRemoval
    <2> QED
      BY <1>1, <2>1 DEF JobOK, JobPlaced, RemovalOps
  <1>2. CASE j.old = << >>
    <2>1. ASSUME NEW pc \in {"allocate", "cut", "forget"}
          PROVE  LET k == [j EXCEPT !.pc = pc]
                 IN  /\ JobTyped(k) /\ k.pc = pc /\ k.req = j.req /\ k.cut = j.cut
      <3> DEFINE k == [j EXCEPT !.pc = pc]
      <3>1. /\ DOMAIN k = DOMAIN Idle /\ k.pc = pc /\ k.req = j.req /\ k.calls = j.calls
            /\ k.old = j.old /\ k.new = j.new /\ k.at = j.at /\ k.buffer = j.buffer
            /\ k.cut = j.cut /\ k.reads = j.reads /\ k.got = j.got
            /\ k.list = j.list /\ k.size = j.size /\ k.gone = j.gone
        BY DEF Idle, JobTyped
      <3> HIDE DEF k
      <3>2. JobTyped(k)
        BY <3>1 DEF JobTyped
      <3> QED
        BY <3>1, <3>2 DEF k
    <2>2. CASE j.req.op \in {"deleteRange", "insert"}
      <3>1. AfterRemoval(j) = AfterAllocation([j EXCEPT !.pc = "allocate"])
        BY <1>2, <2>2 DEF AfterRemoval
      <3> QED
        BY <2>1, <3>1, AfterAllocationOK
    <2>3. CASE j.req.op = "truncate" /\ j.cut # << >>
      <3>1. AfterRemoval(j) = [j EXCEPT !.pc = "cut"]
        BY <1>2, <2>3 DEF AfterRemoval
      <3> QED
        BY <2>1, <2>3, <3>1 DEF JobOK, JobPlaced
    <2>4. CASE j.req.op = "truncate" /\ j.cut = << >>
      <3>1. AfterRemoval(j) = Ended(j, "panic")
        BY <1>2, <2>4 DEF AfterRemoval
      <3> QED
        BY <3>1, EndedOK
    <2>5. CASE j.req.op = "delete"
      <3>1. AfterRemoval(j) = [j EXCEPT !.pc = "forget"]
        BY <1>2, <2>5 DEF AfterRemoval
      <3> QED
        BY <2>1, <2>5, <3>1 DEF JobOK, JobPlaced
    <2> QED
      BY <2>2, <2>3, <2>4, <2>5 DEF RemovalOps
  <1> QED
    BY <1>1, <1>2

\* What the calls of DeleteRange and Insert have read.
LEMMA GotOK ==
  ASSUME NEW j, JobTyped(j), j.reads \in Seq(ReadPart), DOMAIN j.got = DOMAIN j.reads
  PROVE  /\ [i \in DOMAIN j.reads |-> j.got[i]] \in Seq(Seq(Byte))
         /\ Got(j) \in Seq(Byte)
         /\ j.reads # << >> => j.got[1] \in Seq(Byte) /\ Len(j.got[1]) <= Len(Got(j))
  <1> DEFINE s == [i \in DOMAIN j.reads |-> j.got[i]]
             n == Len(j.reads)
  <1>1. n \in Nat /\ DOMAIN j.reads = 1 .. n
    OBVIOUS
  <1>2. \A i \in 1 .. n : j.got[i] \in Seq(Byte)
    BY <1>1 DEF JobTyped
  <1>3. s \in [1 .. n -> Seq(Byte)] /\ \A i \in 1 .. n : s[i] = j.got[i]
    BY <1>1, <1>2
  <1>4. Got(j) = FlattenSeq(s)
    BY DEF Got
  <1>5. j.reads # << >> => n # 0
    BY EmptySeq
  <1> HIDE DEF s, n
  <1>6. s \in Seq(Seq(Byte)) /\ Len(s) = n
    BY <1>1, <1>3
  <1>7. Got(j) \in Seq(Byte)
    BY <1>4, <1>6, FlattenIsSeq
  <1>8. ASSUME j.reads # << >> PROVE j.got[1] \in Seq(Byte) /\ Len(j.got[1]) <= Len(Got(j))
    <2>1. 1 \in 1 .. n /\ s # << >>
      BY <1>1, <1>5, <1>6, <1>8
    <2>2. Len(s[1]) <= Len(FlattenSeq(s))
      BY <1>6, <2>1, FlattenFirst
    <2> QED
      BY <1>2, <1>3, <1>4, <2>1, <2>2
  <1> QED
    BY <1>6, <1>7, <1>8 DEF s

\* The call goes on to remove the old chunks and to write these bytes instead.
Rebuilt(j, bytes) == [j EXCEPT !.pc = "remove", !.reads = << >>, !.got = << >>, !.buffer = bytes]

LEMMA RebuiltOK ==
  ASSUME NEW j, JobTyped(j), NEW bytes \in Seq(Byte)
  PROVE  LET k == Rebuilt(j, bytes)
         IN  JobTyped(k) /\ k.pc = "remove" /\ k.req = j.req /\ k.new = j.new /\ k.gone = j.gone
  <1> DEFINE k == Rebuilt(j, bytes)
  <1>1. /\ DOMAIN k = DOMAIN Idle /\ k.pc = "remove" /\ k.req = j.req /\ k.calls = j.calls
        /\ k.old = j.old /\ k.new = j.new /\ k.at = j.at /\ k.buffer = bytes
        /\ k.cut = j.cut /\ k.reads = << >> /\ k.got = << >>
        /\ k.list = j.list /\ k.size = j.size /\ k.gone = j.gone
    BY DEF Idle, JobTyped, Rebuilt
  <1> HIDE DEF k
  <1>2. JobTyped(k)
    <2>1. k.reads = Idle.reads /\ k.got = Idle.got
      BY <1>1 DEF Idle
    <2> QED
      BY <1>1, <2>1, IdleOK DEF JobTyped, JobOK
  <1> QED
    BY <1>1, <1>2 DEF k

LEMMA RebuiltOrEnded ==
  ASSUME NEW j, JobTyped(j), RequestOK(j.req), DOMAIN j.got = DOMAIN j.reads,
         j.req.op \in {"deleteRange", "insert"}, j.reads \in Seq(ReadPart), j.reads # << >>
  PROVE  \/ AfterReads(j) = Ended(j, "error")
         \/ \E bytes \in Seq(Byte) : AfterReads(j) = AfterRemoval(Rebuilt(j, bytes))
  <1>1. CASE j.req.op = "deleteRange"
    <2>1. AfterReads(j) = AfterRemoval(Rebuilt(j, Got(j)))
      BY <1>1 DEF AfterReads, Rebuilt
    <2> QED
      BY <2>1, GotOK
  <1>2. CASE j.req.op = "insert" /\ StartOffset(j) > Len(j.got[1])
    BY <1>2 DEF AfterReads
  <1>3. CASE j.req.op = "insert" /\ ~(StartOffset(j) > Len(j.got[1]))
    <2> DEFINE bytes == Spliced(Got(j), StartOffset(j), j.req.bytes)
    <2>1. AfterReads(j) = AfterRemoval(Rebuilt(j, bytes))
      BY <1>3 DEF AfterReads, Rebuilt
    <2>2. Got(j) \in Seq(Byte) /\ j.got[1] \in Seq(Byte) /\ Len(j.got[1]) <= Len(Got(j))
      BY GotOK
    <2>3. StartOffset(j) \in Nat /\ j.req.bytes \in Seq(Byte)
      <3>1. j.req.off \in Nat /\ j.req.bytes \in Seq(Byte)
        BY DEF RequestOK
      <3>2. j.req.off % ChunkSize \in 0 .. ChunkSize - 1
        BY <3>1, ChunkOfOffset
      <3> QED
        BY <3>1, <3>2, ChunkSizeAssumption DEF StartOffset
    <2>4. StartOffset(j) \in 0 .. Len(Got(j))
      BY <1>3, <2>2, <2>3
    <2>5. bytes \in Seq(Byte)
      BY <2>2, <2>3, <2>4, SplicedIsSeq
    <2> HIDE DEF bytes
    <2> QED
      BY <2>1, <2>5
  <1> QED
    BY <1>1, <1>2, <1>3

LEMMA AfterReadsOK ==
  ASSUME NEW j, JobTyped(j), RequestOK(j.req), j.pc = "read",
         j.req.op \in {"read", "deleteRange", "insert"},
         j.req.op # "read" => j.reads \in Seq(ReadPart) /\ j.reads # << >>
  PROVE  JobOK(AfterReads(j))
  <1>1. CASE DOMAIN j.got # DOMAIN j.reads
    <2>1. AfterReads(j) = j
      BY <1>1 DEF AfterReads
    <2> QED
      BY <2>1 DEF JobOK, JobPlaced
  <1>2. CASE DOMAIN j.got = DOMAIN j.reads /\ j.req.op = "read"
    <2>1. AfterReads(j) = Ended(j, Answer(j))
      BY <1>2 DEF AfterReads
    <2> QED
      BY <2>1, EndedOK
  <1>3. CASE DOMAIN j.got = DOMAIN j.reads /\ j.req.op \in {"deleteRange", "insert"}
    <2>1. ASSUME NEW bytes \in Seq(Byte)
          PROVE  JobOK(AfterRemoval(Rebuilt(j, bytes)))
      <3> DEFINE k == Rebuilt(j, bytes)
      <3>1. JobTyped(k) /\ k.pc = "remove" /\ k.req = j.req
        BY RebuiltOK
      <3> HIDE DEF k
      <3>2. JobOK(AfterRemoval(k))
        BY <1>3, <3>1, AfterRemovalOK DEF RemovalOps
      <3> QED
        BY <3>2 DEF k
    <2> QED
      BY <1>3, <2>1, RebuiltOrEnded, EndedOK
  <1> QED
    BY <1>1, <1>2, <1>3

-----------------------------------------------------------------------------
LEMMA ChangeOneJob ==
  ASSUME NEW jobs, JobsOK(jobs), NEW c \in Client, NEW j, JobOK(j)
  PROVE  JobsOK([jobs EXCEPT ![c] = j])
  BY DEF JobsOK

LEMMA GoesOrOK ==
  ASSUME NEW jobs, JobsOK(jobs), NEW c \in Client, NEW j, JobOK(j), NEW k, JobOK(k),
         faults \in 0 .. MaxFaults, GoesOr(jobs, c, j, k)
  PROVE  JobsOK(job') /\ faults' \in 0 .. MaxFaults
  <1>1. JobsOK([jobs EXCEPT ![c] = j]) /\ JobsOK([jobs EXCEPT ![c] = k])
    BY ChangeOneJob
  <1> QED
    <2>1. job' = [jobs EXCEPT ![c] = j] \/ job' = [jobs EXCEPT ![c] = k]
      BY DEF GoesOr
    <2>2. faults' \in 0 .. MaxFaults
      BY FileOpsAssumption DEF GoesOr
    <2> QED
      BY <1>1, <2>1, <2>2

-----------------------------------------------------------------------------
(***************************************************************************)
(* New handles.                                                            *)
(***************************************************************************)
LEMMA ImageIsFinite ==
  ASSUME NEW f, IsFiniteSet(DOMAIN f), NEW T, T = {f[i] : i \in DOMAIN f}
  PROVE  IsFiniteSet(T)
  <1>1. [i \in DOMAIN f |-> f[i]] \in Surjection(DOMAIN f, T)
    BY DEF Surjection
  <1> QED
    BY <1>1, FS_Surjection

LEMMA SeqIsFinite ==
  ASSUME NEW S, NEW s \in Seq(S)
  PROVE  IsFiniteSet(DOMAIN s) /\ IsFiniteSet(ToSet(s)) /\ ToSet(s) \subseteq S
  <1>1. DOMAIN s = 1 .. Len(s) /\ Len(s) \in Nat
    OBVIOUS
  <1>2. IsFiniteSet(DOMAIN s)
    BY <1>1, FS_Interval
  <1> QED
    BY <1>1, <1>2, ImageIsFinite DEF ToSet

LEMMA HandlesOfIsFinite ==
  ASSUME NEW j, JobTyped(j)
  PROVE  IsFiniteSet(HandlesOf(j)) /\ HandlesOf(j) \subseteq Handle
  <1> DEFINE reads == [i \in DOMAIN j.reads |-> j.reads[i].h]
             calls == [i \in DOMAIN j.calls |-> j.calls[i].h]
             cut == [i \in DOMAIN j.cut |-> j.cut[i].h]
  <1>0. /\ IsFiniteSet(DOMAIN j.reads) /\ j.old \in Seq(Handle) /\ j.new \in Seq(Handle)
        /\ j.calls \in Seq(CallPart) /\ j.cut \in Seq(CutPart)
        /\ \A i \in DOMAIN j.reads : j.reads[i] \in ReadPart
    BY DEF JobTyped
  <1>1. /\ \A i \in DOMAIN j.reads : j.reads[i].h \in Handle
        /\ \A i \in DOMAIN j.calls : j.calls[i].h \in Handle
        /\ \A i \in DOMAIN j.cut : j.cut[i].h \in Handle
    <2>1. \A r \in ReadPart : r.h \in Handle
      BY DEF ReadPart
    <2>2. \A r \in CutPart : r.h \in Handle
      BY DEF CutPart
    <2>3. \A r \in CallPart : r.h \in Handle
      BY DEF CallPart
    <2>4. \A i \in DOMAIN j.calls : j.calls[i] \in CallPart
      BY <1>0
    <2>5. \A i \in DOMAIN j.cut : j.cut[i] \in CutPart
      BY <1>0
    <2> QED
      BY <1>0, <2>1, <2>2, <2>3, <2>4, <2>5
  <1>2. IsFiniteSet({reads[i] : i \in DOMAIN reads})
    BY <1>0, ImageIsFinite
  <1>3. IsFiniteSet({calls[i] : i \in DOMAIN calls})
    <2>1. IsFiniteSet(DOMAIN j.calls)
      BY <1>0, SeqIsFinite
    <2> QED
      BY <2>1, ImageIsFinite
  <1>4. IsFiniteSet({cut[i] : i \in DOMAIN cut})
    <2>1. IsFiniteSet(DOMAIN j.cut)
      BY <1>0, SeqIsFinite
    <2> QED
      BY <2>1, ImageIsFinite
  <1>5. /\ IsFiniteSet(ToSet(j.old)) /\ ToSet(j.old) \subseteq Handle
        /\ IsFiniteSet(ToSet(j.new)) /\ ToSet(j.new) \subseteq Handle
    BY <1>0, SeqIsFinite
  <1> DEFINE L == UNION ToSet(j.list)
  <1>12. IsFiniteSet(L) /\ L \subseteq Handle
    <2>1. j.list \in Seq(SUBSET Handle) /\ \A i \in DOMAIN j.list : IsFiniteSet(j.list[i])
      BY DEF JobTyped, ListOK
    <2>2. IsFiniteSet(ToSet(j.list)) /\ ToSet(j.list) \subseteq SUBSET Handle
      BY <2>1, SeqIsFinite
    <2>3. \A S \in ToSet(j.list) : IsFiniteSet(S)
      BY <2>1 DEF ToSet
    <2> QED
      BY <2>2, <2>3, FS_UNION
  <1>6. HandlesOf(j) = L \cup {reads[i] : i \in DOMAIN reads} \cup ToSet(j.old) \cup ToSet(j.new)
           \cup {calls[i] : i \in DOMAIN calls} \cup {cut[i] : i \in DOMAIN cut}
    BY DEF HandlesOf
  <1>7. /\ {reads[i] : i \in DOMAIN reads} \subseteq Handle
        /\ {calls[i] : i \in DOMAIN calls} \subseteq Handle
        /\ {cut[i] : i \in DOMAIN cut} \subseteq Handle
    BY <1>1
  <1> DEFINE A == {reads[i] : i \in DOMAIN reads}
             B == {calls[i] : i \in DOMAIN calls}
             C == {cut[i] : i \in DOMAIN cut}
  <1> HIDE DEF reads, calls, cut
  <1>8. HandlesOf(j) = L \cup A \cup ToSet(j.old) \cup ToSet(j.new) \cup B \cup C
    BY <1>6
  <1>9. IsFiniteSet(A) /\ IsFiniteSet(B) /\ IsFiniteSet(C)
    BY <1>2, <1>3, <1>4
  <1>10. A \subseteq Handle /\ B \subseteq Handle /\ C \subseteq Handle
    BY <1>7
  <1> HIDE DEF A, B, C, L
  <1>11. IsFiniteSet(L \cup A \cup ToSet(j.old) \cup ToSet(j.new) \cup B \cup C)
    BY <1>5, <1>9, <1>12, FS_Union
  <1> QED
    BY <1>5, <1>8, <1>10, <1>11, <1>12

LEMMA InUseIsFinite ==
  ASSUME TInv
  PROVE  IsFiniteSet(InUse) /\ InUse \subseteq Handle
  <1> DEFINE H == [c \in Client |-> HandlesOf(job[c])]
             T == {H[c] : c \in DOMAIN H}
  <1>1. \A c \in Client : IsFiniteSet(HandlesOf(job[c])) /\ HandlesOf(job[c]) \subseteq Handle
    BY HandlesOfIsFinite DEF TInv, JobsOK, JobOK
  <1>2. IsFiniteSet(T)
    BY FileOpsAssumption, ImageIsFinite
  <1>3. \A S \in T : IsFiniteSet(S) /\ S \subseteq Handle
    BY <1>1
  <1>4. T = {HandlesOf(job[c]) : c \in Client}
    OBVIOUS
  <1> HIDE DEF T
  <1>5. IsFiniteSet(UNION T) /\ UNION T \subseteq Handle
    BY <1>2, <1>3, FS_UNION
  <1>6. /\ IsFiniteSet(ToSet(handles)) /\ ToSet(handles) \subseteq Handle
        /\ IsFiniteSet(located) /\ located \subseteq Handle
        /\ IsFiniteSet(DOMAIN data) /\ DOMAIN data \subseteq Handle
        /\ IsFiniteSet(copies) /\ copies \subseteq Handle
    BY SeqIsFinite DEF TInv, FileOK
  <1>7. InUse = ToSet(handles) \cup located \cup DOMAIN data \cup copies \cup UNION T
    BY <1>4 DEF InUse
  <1> QED
    BY <1>5, <1>6, <1>7, FS_Union

LEMMA FreshOK ==
  ASSUME TInv, NEW k \in Nat
  PROVE  /\ Fresh(k) \in Seq(Handle) /\ Len(Fresh(k)) = k
         /\ \A i \in 1 .. k : Fresh(k)[i] \notin InUse
         /\ IsInjective(Fresh(k))
  <1> DEFINE n == Cardinality(InUse)
             I == 1 .. n + k
             S == I \ InUse
  <1>1. IsFiniteSet(InUse) /\ n \in Nat
    BY InUseIsFinite, FS_CardinalityType
  <1> HIDE DEF n
  <1>2. IsFiniteSet(I) /\ Cardinality(I) = n + k
    <2>1. n + k \in Nat /\ 0 \in Nat
      BY <1>1
    <2>2. IsFiniteSet(0 + 1 .. 0 + (n + k)) /\ Cardinality(0 + 1 .. 0 + (n + k)) = n + k
      BY <2>1, IntervalSize
    <2>3. 0 + 1 = 1 /\ 0 + (n + k) = n + k
      BY <2>1
    <2> QED
      BY <2>2, <2>3
  <1>3. IsFiniteSet(S) /\ Cardinality(S) \in Nat /\ Cardinality(S) >= k
    <2>1. Cardinality(I \cap InUse) \in Nat /\ Cardinality(I \cap InUse) <= n
      <3>1. I \cap InUse \in SUBSET InUse
        OBVIOUS
      <3> QED
        BY <1>1, <3>1, FS_Subset, FS_CardinalityType DEF n
    <2>2. IsFiniteSet(S) /\ Cardinality(S) = Cardinality(I) - Cardinality(I \cap InUse)
      BY <1>2, FS_Difference
    <2> QED
      BY <1>1, <1>2, <2>1, <2>2
  <1> DEFINE m == Cardinality(S)
  <1>4. PICK f \in Bijection(1 .. m, S) : TRUE
    BY <1>3, FS_CardinalityType DEF ExistsBijection
  <1>5. f \in [1 .. m -> S] /\ IsInjective(f)
    BY <1>4 DEF Bijection, Injection
  <1>6. 1 .. k \subseteq 1 .. m
    BY <1>3
  <1>7. S = (1 .. Cardinality(InUse) + k) \ InUse
    BY DEF n
  <1> HIDE DEF S, m
  <1>8. [i \in 1 .. k |-> f[i]] \in [1 .. k -> S] /\ IsInjective([i \in 1 .. k |-> f[i]])
    BY <1>5, <1>6 DEF IsInjective
  <1>9. Fresh(k) \in [1 .. k -> S] /\ IsInjective(Fresh(k))
    BY <1>7, <1>8 DEF Fresh
  <1>10. S \subseteq Handle /\ \A h \in S : h \notin InUse
    BY <1>1 DEF S, Handle
  <1>11. Fresh(k) \in [1 .. k -> Handle]
    BY <1>9, <1>10
  <1> QED
    BY <1>9, <1>10, <1>11

-----------------------------------------------------------------------------
(***************************************************************************)
(* Each action keeps TInv.                                                 *)
(***************************************************************************)
SameParts(j, k) ==
  /\ DOMAIN k = DOMAIN Idle
  /\ k.old = j.old /\ k.new = j.new /\ k.at = j.at /\ k.buffer = j.buffer
  /\ k.calls = j.calls /\ k.cut = j.cut /\ k.reads = j.reads /\ k.got = j.got
  /\ k.list = j.list /\ k.size = j.size /\ k.gone = j.gone

LEMMA SamePartsTyped ==
  ASSUME NEW j, NEW k, JobTyped(j), SameParts(j, k)
  PROVE  JobTyped(k)
  BY DEF SameParts, JobTyped

LEMMA KeepsFile ==
  ASSUME TInv, UNCHANGED <<running, file>>, JobsOK(job'), faults' \in 0 .. MaxFaults
  PROVE  TInv'
  BY DEF TInv, FileOK, file, JobsOK

LEMMA JobOKNow ==
  ASSUME TInv, NEW c \in Client
  PROVE  JobsOK(job) /\ JobTyped(job[c]) /\ JobPlaced(job[c]) /\ faults \in 0 .. MaxFaults
  BY DEF TInv, FileOK, JobsOK, JobOK

LEMMA NextJob ==
  ASSUME TInv, NEW c \in Client, NEW j, JobOK(j), job' = [job EXCEPT ![c] = j],
         UNCHANGED <<running, file, faults>>
  PROVE  TInv'
  BY JobOKNow, ChangeOneJob, KeepsFile

LEMMA EndsOK ==
  ASSUME TInv, NEW c \in Client, NEW reply, EndsWith(c, reply)
  PROVE  TInv'
  BY NextJob, EndedOK DEF EndsWith

LEMMA DataOK ==
  ASSUME NEW d \in Data
  PROVE  d \in Seq(Byte) /\ d # << >>
  <1>1. d # << >> /\ d \in Seq(UNION {ToSet(e) : e \in Data})
    BY FileOpsAssumption
  <1>2. UNION {ToSet(e) : e \in Data} \subseteq Byte
    BY DEF Byte
  <1> QED
    BY <1>1, <1>2, SeqMonotonic

LEMMA RequestsOK ==
  ASSUME NEW c \in Client, NEW r \in Requests(c)
  PROVE  RequestOK(r)
  <1>1. << >> \in Seq(Byte)
    OBVIOUS
  <1>2. \A d \in Data : d \in Seq(Byte) /\ d # << >>
    BY DataOK
  <1>3. \A n \in 0 .. MaxLen : n \in Nat
    BY FileOpsAssumption
  <1>4. 0 \in 0 .. MaxLen
    BY FileOpsAssumption
  <1>5. CASE \E op \in {"create", "delete", "read"} : r = Request(op, 0, 0, << >>)
    BY <1>1, <1>5 DEF RequestOK, Request
  <1>6. CASE \E op \in {"write", "insert", "append"}, off \in 0 .. MaxLen, d \in Data : r = Request(op, off, 0, d)
    BY <1>2, <1>3, <1>6 DEF RequestOK, Request
  <1>7. CASE \E off \in 0 .. MaxLen, n \in (0 .. MaxLen) \ {0} : r = Request("deleteRange", off, n, << >>)
    BY <1>1, <1>3, <1>7 DEF RequestOK, Request
  <1>8. CASE \E n \in 0 .. MaxLen : r = Request("truncate", 0, n, << >>)
    BY <1>1, <1>3, <1>8 DEF RequestOK, Request
  <1>9. \/ r \in {Request(op, 0, 0, << >>) : op \in Does[c] \cap {"create", "delete", "read"}}
        \/ r \in {Request(op, off, 0, d) : op \in Does[c] \cap {"write", "insert"}, off \in 0 .. MaxLen, d \in Data}
        \/ r \in {Request(op, 0, 0, d) : op \in Does[c] \cap {"append"}, d \in Data}
        \/ r \in {Request(op, off, n, << >>) :
                    op \in Does[c] \cap {"deleteRange"}, off \in 0 .. MaxLen, n \in (0 .. MaxLen) \ {0}}
        \/ r \in {Request(op, 0, n, << >>) : op \in Does[c] \cap {"truncate"}, n \in 0 .. MaxLen}
    BY DEF Requests
  <1> QED
    BY <1>4, <1>5, <1>6, <1>7, <1>8, <1>9

LEMMA InvokeOK ==
  ASSUME TInv, NEW c \in Client, NEW r \in Requests(c), Invoke(c, r)
  PROVE  TInv'
  <1>1. RequestOK(r)
    BY RequestsOK
  <1> DEFINE k == [Idle EXCEPT !.pc = "plan", !.req = r, !.before = IF c = Writer THEN <<State>> ELSE @]
             m(d) == [job[d] EXCEPT !.met = @ + IF Reading(d) THEN 1 ELSE 0]
  <1>2. JobOK(k)
    <2>1. SameParts(Idle, k) /\ k.pc = "plan" /\ k.req = r /\ k.got = << >>
      BY DEF SameParts, Idle
    <2> HIDE DEF k
    <2> QED
      BY <1>1, <2>1, IdleOK, SamePartsTyped DEF JobOK, JobPlaced
  <1>3. ASSUME NEW d \in Client PROVE JobOK(m(d))
    <2>1. JobTyped(job[d]) /\ JobPlaced(job[d])
      BY JobOKNow
    <2>2. SameParts(job[d], m(d)) /\ m(d).pc = job[d].pc /\ m(d).req = job[d].req
      BY <2>1 DEF JobTyped, SameParts, Idle
    <2> HIDE DEF m
    <2>3. JobTyped(m(d))
      BY <2>1, <2>2, SamePartsTyped
    <2>4. JobPlaced(m(d))
      BY <2>1, <2>2 DEF JobPlaced, SameParts
    <2> QED
      BY <2>3, <2>4 DEF JobOK
  <1>4. job' = [d \in Client |-> IF d = c THEN k ELSE m(d)] /\ UNCHANGED <<running, file, faults>>
    BY DEF Invoke
  <1> HIDE DEF k, m
  <1>5. JobsOK(job')
    BY <1>2, <1>3, <1>4 DEF JobsOK
  <1> QED
    BY <1>4, <1>5, JobOKNow, KeepsFile

LEMMA NoAnswerOK ==
  ASSUME TInv, NEW c \in Client, NoAnswer(c)
  PROVE  TInv'
  <1>1. JobsOK(job') /\ UNCHANGED <<running, file>>
    BY JobOKNow, EndedOK, ChangeOneJob DEF NoAnswer
  <1>2. faults' \in 0 .. MaxFaults
    BY JobOKNow, FileOpsAssumption DEF NoAnswer
  <1> QED
    BY <1>1, <1>2, KeepsFile

LEMMA GoesOK ==
  ASSUME TInv, NEW c \in Client, NEW j, JobOK(j), Goes(c, j)
  PROVE  JobsOK(job') /\ faults' \in 0 .. MaxFaults
  BY JobOKNow, EndedOK, GoesOrOK DEF Goes

\* The lists being read when the Master changes its own.
LEMMA ShiftedOK ==
  ASSUME TInv, NEW hs \in Seq(Handle)
  PROVE  JobsOK(Shifted(hs))
  <1> DEFINE found(c, i) == {hs[k] : k \in {i} \cap DOMAIN hs}
             list(c) == [i \in DOMAIN job[c].list |-> job[c].list[i] \cup found(c, i)]
             n(c) == [job[c] EXCEPT !.list = list(c)]
  <1>1. Shifted(hs) = [c \in Client |-> n(c)]
    BY DEF Shifted
  <1>2. ASSUME NEW c \in Client PROVE JobOK(n(c))
    <2>1. JobTyped(job[c]) /\ JobPlaced(job[c])
      BY JobOKNow
    <2>2. ListOK(list(c))
      <3> DEFINE l == job[c].list
      <3>1. l \in Seq(SUBSET Handle) /\ \A i \in DOMAIN l : IsFiniteSet(l[i])
        BY <2>1 DEF JobTyped, ListOK
      <3>2. ASSUME NEW i \in DOMAIN l PROVE found(c, i) \subseteq Handle /\ IsFiniteSet(found(c, i))
        <4>1. found(c, i) = {} \/ (i \in DOMAIN hs /\ found(c, i) = {hs[i]})
          OBVIOUS
        <4>2. IsFiniteSet({}) /\ IsFiniteSet({hs[i]})
          BY FS_EmptySet, FS_Singleton
        <4>3. i \in DOMAIN hs => hs[i] \in Handle
          OBVIOUS
        <4> HIDE DEF found
        <4> QED
          BY <4>1, <4>2, <4>3
      <3>3. ASSUME NEW i \in DOMAIN l
            PROVE  l[i] \cup found(c, i) \in SUBSET Handle /\ IsFiniteSet(l[i] \cup found(c, i))
        <4>1. l[i] \in SUBSET Handle /\ IsFiniteSet(l[i])
          BY <3>1
        <4> QED
          BY <3>2, <4>1, FS_Union
      <3> HIDE DEF found
      <3>4. list(c) \in Seq(SUBSET Handle) /\ DOMAIN list(c) = DOMAIN l
        <4>1. DOMAIN l = 1 .. Len(l) /\ Len(l) \in Nat
          BY <3>1
        <4>2. list(c) \in [1 .. Len(l) -> SUBSET Handle]
          BY <3>3, <4>1
        <4> HIDE DEF list
        <4> QED
          BY <4>1, <4>2
      <3> QED
        BY <3>3, <3>4 DEF ListOK
    <2> HIDE DEF list
    <2>3. /\ DOMAIN n(c) = DOMAIN Idle /\ n(c).pc = job[c].pc /\ n(c).req = job[c].req
          /\ n(c).old = job[c].old /\ n(c).new = job[c].new /\ n(c).at = job[c].at
          /\ n(c).buffer = job[c].buffer /\ n(c).calls = job[c].calls /\ n(c).cut = job[c].cut
          /\ n(c).reads = job[c].reads /\ n(c).got = job[c].got
          /\ n(c).list = list(c) /\ n(c).size = job[c].size
      BY <2>1 DEF JobTyped, Idle
    <2> HIDE DEF n
    <2>4. JobTyped(n(c))
      BY <2>1, <2>2, <2>3 DEF JobTyped
    <2>5. JobPlaced(n(c))
      BY <2>1, <2>3 DEF JobPlaced
    <2> QED
      BY <2>4, <2>5 DEF JobOK
  <1> HIDE DEF n
  <1> QED
    BY <1>1, <1>2 DEF JobsOK

LEMMA ShiftedGoesOK ==
  ASSUME TInv, NEW hs \in Seq(Handle), NEW c \in Client, NEW j, JobOK(j),
         GoesOr(Shifted(hs), c, j, Ended(job[c], "error"))
  PROVE  JobsOK(job') /\ faults' \in 0 .. MaxFaults
  BY JobOKNow, ShiftedOK, EndedOK, GoesOrOK

LEMMA CreateOK ==
  ASSUME TInv, NEW c \in Client, Create(c)
  PROVE  TInv'
  <1>1. CASE exists
    BY <1>1, EndsOK DEF Create
  <1>2. CASE ~exists
    <2>1. /\ exists' = TRUE /\ handles' = << >> /\ size' = 0
          /\ UNCHANGED <<running, located, data, copies>>
          /\ Goes(c, Ended(job[c], "ok"))
      BY <1>2 DEF Create
    <2>2. JobsOK(job') /\ faults' \in 0 .. MaxFaults
      BY <2>1, EndedOK, GoesOK
    <2>3. FileOK'
      BY <2>1, <2>2, FileOpsAssumption DEF TInv, FileOK
    <2> QED
      BY <2>2, <2>3 DEF TInv, JobsOK
  <1> QED
    BY <1>1, <1>2

LEMMA PlanStoresOK ==
  ASSUME TInv, NEW c \in Client, NEW off \in Nat, job[c].pc # "idle",
         job[c].req.op \in {"write", "append", "insert"}, PlanStores(c, off)
  PROVE  TInv'
  <1> DEFINE d == job[c].req.bytes
             last == ChunkOf(off + Len(d) - 1)
             n == Greater(0, last + 1 - Len(handles))
             hs == handles \o Fresh(n)
             mine == SubSeq(hs, ChunkOf(off) + 1, last + 1)
             calls == Pieces(off, d, mine)
             k == [job[c] EXCEPT !.pc = "store", !.calls = calls]
  <1>1. JobTyped(job[c]) /\ RequestOK(job[c].req)
    BY JobOKNow DEF JobPlaced
  <1>2. d \in Seq(Byte) /\ d # << >> /\ Len(d) \in Nat \ {0}
    <2>1. d \in Seq(Byte) /\ d # << >>
      BY <1>1 DEF RequestOK
    <2> QED
      BY <2>1, EmptySeq
  <1>3. /\ handles' = hs
        /\ located' = located \cup ToSet(mine)
        /\ GoesOr(Shifted(hs), c, k, Ended(job[c], "error"))
        /\ UNCHANGED <<running, exists, size, data, copies>>
    BY DEF PlanStores
  <1>4. last \in Nat /\ ChunkOf(off) \in Nat /\ ChunkOf(off) <= last
    <2> HIDE DEF d
    <2>1. off + Len(d) - 1 \in Nat /\ off <= off + Len(d) - 1
      BY <1>2
    <2> QED
      BY <2>1, ChunkOfOffset, ChunkOfMonotonic
  <1> HIDE DEF last, d
  <1>5. handles \in Seq(Handle) /\ Len(handles) \in Nat
    BY DEF TInv, FileOK
  <1>6. n \in Nat /\ n >= last + 1 - Len(handles)
    BY <1>4, <1>5 DEF Greater
  <1> HIDE DEF n
  <1>7. Fresh(n) \in Seq(Handle) /\ Len(Fresh(n)) = n
    BY <1>6, FreshOK
  <1>8. hs \in Seq(Handle) /\ Len(hs) = Len(handles) + n
    BY <1>5, <1>7
  <1> HIDE DEF hs
  <1>9. mine \in Seq(Handle) /\ Len(mine) = last - ChunkOf(off) + 1
    <2>1. ChunkOf(off) + 1 \in 1 .. Len(hs) + 1 /\ last + 1 \in 0 .. Len(hs)
      BY <1>4, <1>5, <1>6, <1>8
    <2> QED
      BY <1>4, <1>8, <2>1, SubSeqProperties
  <1> HIDE DEF mine
  <1>10. calls \in Seq(CallPart) /\ calls # << >>
    <2>1. ChunkOf(off + Len(d) - 1) - ChunkOf(off) + 1 <= Len(mine)
      BY <1>4, <1>9 DEF last
    <2> HIDE DEF mine
    <2> QED
      BY <1>2, <1>9, <2>1, PiecesOK
  <1> HIDE DEF calls
  <1>11. JobOK(k)
    <2>1. /\ DOMAIN k = DOMAIN Idle /\ k.pc = "store" /\ k.req = job[c].req /\ k.calls = calls
          /\ k.old = job[c].old /\ k.new = job[c].new /\ k.at = job[c].at /\ k.buffer = job[c].buffer
          /\ k.cut = job[c].cut /\ k.reads = job[c].reads /\ k.got = job[c].got
          /\ k.list = job[c].list /\ k.size = job[c].size /\ k.gone = job[c].gone
      BY <1>1 DEF JobTyped, Idle
    <2> HIDE DEF k
    <2>2. JobTyped(k)
      BY <1>1, <1>10, <2>1 DEF JobTyped
    <2> QED
      BY <1>1, <2>1, <2>2 DEF JobOK, JobPlaced
  <1> HIDE DEF k
  <1>12. JobsOK(job') /\ faults' \in 0 .. MaxFaults
    BY <1>3, <1>8, <1>11, ShiftedGoesOK
  <1>13. located' \subseteq Handle /\ IsFiniteSet(located')
    BY <1>3, <1>9, SeqIsFinite, FS_Union DEF TInv, FileOK
  <1>14. FileOK'
    BY <1>3, <1>8, <1>12, <1>13 DEF TInv, FileOK
  <1> QED
    BY <1>12, <1>14 DEF TInv, JobsOK

LEMMA PlanWriteOK ==
  ASSUME TInv, NEW c \in Client, PlanWrite(c) \/ PlanAppend(c)
  PROVE  TInv'
  <1>1. CASE PlanWrite(c)
    <2>1. job[c].pc = "plan" /\ job[c].req.op = "write" /\ PlanStores(c, job[c].req.off)
      BY <1>1 DEF PlanWrite, Plans, At
    <2>2. job[c].req.off \in Nat
      BY <2>1, JobOKNow DEF JobPlaced, RequestOK
    <2> QED
      BY <2>1, <2>2, PlanStoresOK
  <1>2. CASE PlanAppend(c)
    <2>1. /\ \/ job[c].pc = "plan" /\ job[c].req.op = "append"
             \/ job[c].pc = "append" /\ job[c].req.op = "insert"
          /\ PlanStores(c, size)
      BY <1>2, JobOKNow DEF PlanAppend, Plans, At, JobPlaced
    <2>2. size \in Nat
      BY FileOpsAssumption DEF TInv, FileOK
    <2> QED
      BY <2>1, <2>2, PlanStoresOK
  <1> QED
    BY <1>1, <1>2

\* The call of c starts, or goes on, as k, and nothing else changes.
Becomes(c, k) == job' = [job EXCEPT ![c] = k] /\ UNCHANGED <<running, file, faults>>

\* DeleteRange: the range ends before RangeEnd, and its chunks are read as Ranged.
RangeEnd(c) == job[c].req.off + Smaller(job[c].req.n, size - job[c].req.off)

RangeChunks(c) == SubSeq(handles, ChunkOf(job[c].req.off) + 1, LastChunk(RangeEnd(c)) + 1)

Ranged(c) ==
  [job[c] EXCEPT !.pc = "read", !.reads = AroundRange(RangeChunks(c), job[c].req.off, RangeEnd(c)),
                 !.old = RangeChunks(c), !.at = ChunkOf(job[c].req.off)]

LEMMA DeleteRangeCases ==
  ASSUME TInv, NEW c \in Client, PlanDeleteRange(c)
  PROVE  /\ job[c].req.off \in Nat /\ job[c].req.n \in Nat \ {0} /\ size \in Nat
         /\ handles \in Seq(Handle) /\ Len(handles) \in Nat
         /\ job[c].req.off <= size => RangeEnd(c) \in Nat /\ LastChunk(RangeEnd(c)) \in Int
         /\ \/ EndsWith(c, "error")
            \/ EndsWith(c, "ok")
            \/ /\ job[c].req.off <= size /\ (RangeEnd(c) = 0 \/ LastChunk(RangeEnd(c)) >= Len(handles))
               /\ MasterPanics(c)
            \/ /\ job[c].req.off <= size /\ RangeEnd(c) > 0 /\ LastChunk(RangeEnd(c)) < Len(handles)
               /\ RangeChunks(c) # << >>
               /\ Becomes(c, Ranged(c))
  <1> DEFINE off == job[c].req.off
             end == RangeEnd(c)
             last == LastChunk(end)
             range == RangeChunks(c)
             starts == Becomes(c, Ranged(c))
  <1>1. RequestOK(job[c].req) /\ job[c].req.op = "deleteRange"
    BY JobOKNow DEF JobPlaced, PlanDeleteRange, Plans, At
  <1>2. /\ off \in Nat /\ job[c].req.n \in Nat \ {0} /\ size \in Nat
        /\ handles \in Seq(Handle) /\ Len(handles) \in Nat
    <2>1. off \in Nat /\ job[c].req.n \in Nat \ {0}
      BY <1>1 DEF RequestOK
    <2> QED
      BY <2>1, FileOpsAssumption DEF TInv, FileOK
  <1>3. off <= size => end \in Nat /\ last \in Int
    <2> SUFFICES ASSUME off <= size PROVE end \in Nat /\ last \in Int
      OBVIOUS
    <2>1. Smaller(job[c].req.n, size - off) \in Nat
      BY <1>2 DEF Smaller
    <2>2. end \in Nat
      BY <1>2, <2>1 DEF RangeEnd
    <2> HIDE DEF end
    <2> QED
      BY <2>2, ChunkSizeAssumption DEF LastChunk, ChunkOf
  <1>4. \/ EndsWith(c, "error")
        \/ EndsWith(c, "ok")
        \/ off <= size /\ (end = 0 \/ last >= Len(handles)) /\ MasterPanics(c)
        \/ off <= size /\ end > 0 /\ last < Len(handles) /\ range # << >> /\ starts
    <2>1. (CASE off > size -> EndsWith(c, "error")
             [] off <= size /\ (end = 0 \/ last >= Len(handles)) -> MasterPanics(c)
             [] off <= size /\ end > 0 /\ last < Len(handles) ->
                  IF ~AllLocated(handles) THEN EndsWith(c, "error")
                  ELSE IF range = << >> THEN EndsWith(c, "ok")
                  ELSE starts)
      BY DEF PlanDeleteRange, Becomes, Ranged, RangeChunks, RangeEnd
    <2>2. \/ off > size
          \/ off <= size /\ (end = 0 \/ last >= Len(handles))
          \/ off <= size /\ end > 0 /\ last < Len(handles)
      <3> HIDE DEF end, last, off
      <3> QED
        BY <1>2, <1>3
    <2> HIDE DEF end, last, range, starts, off
    <2> QED
      BY <2>1, <2>2, Zenon
  <1> HIDE DEF starts, range
  <1> QED
    BY <1>2, <1>3, <1>4 DEF starts, range

LEMMA PanicsOK ==
  ASSUME TInv, NEW c \in Client, MasterPanics(c)
  PROVE  TInv'
  BY DEF MasterPanics, TInv, FileOK, file, JobsOK

LEMMA PlanDeleteRangeOK ==
  ASSUME TInv, NEW c \in Client, PlanDeleteRange(c)
  PROVE  TInv'
  <1> DEFINE off == job[c].req.off
             end == RangeEnd(c)
             first == ChunkOf(off)
             last == LastChunk(end)
             range == RangeChunks(c)
             reads == AroundRange(range, off, end)
             k == Ranged(c)
             starts == Becomes(c, k)
  <1>1. /\ JobTyped(job[c]) /\ RequestOK(job[c].req)
        /\ job[c].pc = "plan" /\ job[c].req.op = "deleteRange"
    BY JobOKNow DEF JobPlaced, PlanDeleteRange, Plans, At
  <1>2. /\ off \in Nat /\ size \in Nat /\ handles \in Seq(Handle) /\ Len(handles) \in Nat
        /\ off <= size => end \in Nat /\ last \in Int
    BY DeleteRangeCases
  <1>3. \/ EndsWith(c, "error") \/ EndsWith(c, "ok")
        \/ MasterPanics(c)
        \/ off <= size /\ end > 0 /\ last < Len(handles) /\ range # << >> /\ starts
    BY DeleteRangeCases
  <1>7. /\ range = SubSeq(handles, first + 1, last + 1)
        /\ k = [job[c] EXCEPT !.pc = "read", !.reads = reads, !.old = range, !.at = first]
    BY DEF Ranged, RangeChunks
  <1>4. CASE EndsWith(c, "error") \/ EndsWith(c, "ok")
    BY <1>4, EndsOK
  <1>5. CASE MasterPanics(c)
    BY <1>5, PanicsOK
  <1>6. CASE off <= size /\ end > 0 /\ last < Len(handles) /\ range # << >> /\ starts
    <2>1. end \in Nat \ {0} /\ end - 1 \in Nat
      <3>1. end \in Nat /\ end > 0
        BY <1>2, <1>6
      <3> HIDE DEF end
      <3> QED
        BY <3>1
    <2>2. last \in Nat /\ first \in Nat /\ (end - 1) % ChunkSize \in 0 .. ChunkSize - 1 /\ off % ChunkSize \in 0 .. ChunkSize - 1
      BY <1>2, <2>1, ChunkOfOffset DEF LastChunk
    <2> HIDE DEF last, first, end, range, reads, k
    <2>3. range \in Seq(Handle)
      BY <1>2, <1>6, <1>7, <2>2, SubSeqProperties
    <2>4. Head(range) \in Handle /\ Last(range) \in Handle
      BY <1>6, <2>3, EmptySeq DEF Last
    <2>5. reads \in Seq(ReadPart) /\ reads # << >>
      <3> DEFINE prefix == [h |-> Head(range), off |-> 0, n |-> off % ChunkSize]
                 suffix == [h |-> Last(range), off |-> ((end - 1) % ChunkSize) + 1, n |-> ChunkSize]
      <3>1. prefix \in ReadPart /\ suffix \in ReadPart
        BY <2>2, <2>4, ChunkSizeAssumption DEF ReadPart
      <3>2. reads = <<prefix, suffix>> \/ reads = <<suffix>>
        BY DEF AroundRange, reads
      <3> HIDE DEF prefix, suffix, reads
      <3>3. \A a, b \in ReadPart : <<a, b>> \in Seq(ReadPart) /\ <<a, b>> # << >>
        OBVIOUS
      <3>4. \A a \in ReadPart : <<a>> \in Seq(ReadPart) /\ <<a>> # << >>
        OBVIOUS
      <3> QED
        BY <3>1, <3>2, <3>3, <3>4
    <2>6. /\ DOMAIN k = DOMAIN Idle /\ k.pc = "read" /\ k.req = job[c].req /\ k.calls = job[c].calls
          /\ k.old = range /\ k.new = job[c].new /\ k.at = first /\ k.buffer = job[c].buffer
          /\ k.cut = job[c].cut /\ k.reads = reads /\ k.got = job[c].got
          /\ k.list = job[c].list /\ k.size = job[c].size /\ k.gone = job[c].gone
      BY <1>1, <1>7 DEF JobTyped, Idle
    <2>7. JobTyped(k)
      <3>1. IsFiniteSet(DOMAIN reads) /\ \A i \in DOMAIN reads : reads[i] \in ReadPart
        BY <2>5, SeqIsFinite
      <3>2. k.got = << >>
        BY <1>1, <2>6, JobOKNow DEF JobPlaced
      <3> QED
        BY <1>1, <2>2, <2>3, <2>6, <3>1, <3>2 DEF JobTyped
    <2>8. JobOK(k)
      BY <1>1, <2>5, <2>6, <2>7 DEF JobOK, JobPlaced
    <2> QED
      BY <1>6, <2>8, NextJob DEF Becomes
  <1> QED
    BY <1>3, <1>4, <1>5, <1>6

\* Truncate removes the chunks old and cuts the one of cut.
Truncated(c, old, cut) == [job[c] EXCEPT !.pc = "remove", !.old = old, !.cut = cut]

LEMMA TruncateCases ==
  ASSUME TInv, NEW c \in Client, PlanTruncate(c)
  PROVE  \/ EndsWith(c, "error")
         \/ \E old \in Seq(Handle), cut \in Seq(CutPart) : Becomes(c, AfterRemoval(Truncated(c, old, cut)))
  <1> DEFINE n == job[c].req.n
             idx == LastChunk(n)
             from == IF n = size THEN Len(handles) ELSE IF n = 0 THEN 0 ELSE idx + 1
             old == SubSeq(handles, from + 1, Len(handles))
             rest == IF n % ChunkSize = 0 THEN ChunkSize ELSE n % ChunkSize
             cut == IF n \in {0, size} THEN << >> ELSE << [h |-> handles[idx + 1], n |-> rest] >>
             k == Truncated(c, old, cut)
  <1>1. /\ JobTyped(job[c]) /\ RequestOK(job[c].req)
        /\ job[c].pc = "plan" /\ job[c].req.op = "truncate"
    BY JobOKNow DEF JobPlaced, PlanTruncate, Plans, At
  <1>2. n \in Nat /\ size \in Nat /\ handles \in Seq(Handle) /\ Len(handles) \in Nat
    <2>1. n \in Nat
      BY <1>1 DEF RequestOK
    <2> QED
      BY <2>1, FileOpsAssumption DEF TInv, FileOK
  <1>3. \/ EndsWith(c, "error")
        \/ /\ ~(n \notin {0, size} /\ idx >= Len(handles))
           /\ job' = [job EXCEPT ![c] = AfterRemoval(k)]
           /\ UNCHANGED <<running, file, faults>>
    BY DEF PlanTruncate, Truncated
  <1>4. CASE EndsWith(c, "error")
    BY <1>4
  <1>5. CASE /\ ~(n \notin {0, size} /\ idx >= Len(handles))
             /\ job' = [job EXCEPT ![c] = AfterRemoval(k)]
             /\ UNCHANGED <<running, file, faults>>
    <2>1. n \notin {0, size} => idx \in Nat /\ idx + 1 \in 1 .. Len(handles)
      <3> SUFFICES ASSUME n \notin {0, size} PROVE idx \in Nat /\ idx + 1 \in 1 .. Len(handles)
        OBVIOUS
      <3>1. n - 1 \in Nat
        BY <1>2
      <3>2. idx \in Nat
        BY <3>1, ChunkOfOffset DEF LastChunk
      <3> HIDE DEF idx
      <3> QED
        BY <1>2, <1>5, <3>2
    <2>2. rest \in 1 .. ChunkSize
      <3> HIDE DEF n
      <3>1. n % ChunkSize \in 0 .. ChunkSize - 1
        BY <1>2, ChunkOfOffset
      <3> QED
        BY <3>1, ChunkSizeAssumption
    <2> HIDE DEF rest, idx
    <2>3. cut \in Seq(CutPart)
      <3>1. << >> \in Seq(CutPart)
        OBVIOUS
      <3>2. CASE n \notin {0, size}
        <4>1. handles[idx + 1] \in Handle
          BY <1>2, <2>1, <3>2
        <4>2. [h |-> handles[idx + 1], n |-> rest] \in CutPart
          BY <2>2, <4>1 DEF CutPart
        <4>3. \A a \in CutPart : <<a>> \in Seq(CutPart)
          OBVIOUS
        <4> QED
          BY <3>2, <4>2, <4>3
      <3> QED
        BY <3>1, <3>2
    <2>4. from \in Nat
      BY <1>2, <2>1
    <2> HIDE DEF from, cut
    <2>5. old \in Seq(Handle)
      BY <1>2, <2>4, SubSeqProperties
    <2> HIDE DEF old
    <2> QED
      BY <1>5, <2>3, <2>5 DEF Becomes, Truncated
  <1> QED
    BY <1>3, <1>4, <1>5

LEMMA TruncatedOK ==
  ASSUME TInv, NEW c \in Client, NEW old \in Seq(Handle), NEW cut \in Seq(CutPart)
  PROVE  LET k == Truncated(c, old, cut)
         IN  JobTyped(k) /\ k.pc = "remove" /\ k.req = job[c].req /\ k.new = job[c].new
             /\ k.gone = job[c].gone
  <1> DEFINE k == Truncated(c, old, cut)
  <1>1. JobTyped(job[c])
    BY JobOKNow
  <1>2. /\ DOMAIN k = DOMAIN Idle /\ k.pc = "remove" /\ k.req = job[c].req /\ k.calls = job[c].calls
        /\ k.old = old /\ k.new = job[c].new /\ k.at = job[c].at /\ k.buffer = job[c].buffer
        /\ k.cut = cut /\ k.reads = job[c].reads /\ k.got = job[c].got
        /\ k.list = job[c].list /\ k.size = job[c].size /\ k.gone = job[c].gone
    BY <1>1 DEF JobTyped, Idle, Truncated
  <1> HIDE DEF k
  <1>3. JobTyped(k)
    BY <1>1, <1>2 DEF JobTyped
  <1> QED
    BY <1>2, <1>3 DEF k

LEMMA PlanTruncateOK ==
  ASSUME TInv, NEW c \in Client, PlanTruncate(c)
  PROVE  TInv'
  <1>1. /\ RequestOK(job[c].req) /\ job[c].req.op = "truncate"
    BY JobOKNow DEF JobPlaced, PlanTruncate, Plans, At
  <1>2. ASSUME NEW old \in Seq(Handle), NEW cut \in Seq(CutPart),
               Becomes(c, AfterRemoval(Truncated(c, old, cut)))
        PROVE  TInv'
    <2>1. JobOK(AfterRemoval(Truncated(c, old, cut)))
      BY <1>1, TruncatedOK, AfterRemovalOK DEF RemovalOps
    <2> QED
      BY <1>2, <2>1, NextJob DEF Becomes
  <1> QED
    BY <1>2, TruncateCases, EndsOK

\* Insert appends because a call has failed.
NoLocation(c) ==
  /\ job' = [job EXCEPT ![c] = [job[c] EXCEPT !.pc = "append"]]
  /\ faults < MaxFaults /\ faults' = faults + 1
  /\ UNCHANGED <<running, file>>

\* Insert opens the file for the chunk of its offset, or appends.
Started(c) ==
  IF StartChunk(job[c].req.off) = << >> THEN [job[c] EXCEPT !.pc = "append"]
  ELSE [job[c] EXCEPT !.pc = "open", !.old = StartChunk(job[c].req.off)]

LEMMA InsertCases ==
  ASSUME TInv, NEW c \in Client, PlanInsert(c)
  PROVE  /\ job[c].req.off \in Nat /\ size \in Nat /\ handles \in Seq(Handle) /\ Len(handles) \in Nat
         /\ ChunkOf(job[c].req.off) \in Nat
         /\ \/ EndsWith(c, "error")
            \/ job[c].req.off < size /\ ChunkOf(job[c].req.off) >= Len(handles) /\ MasterPanics(c)
            \/ /\ job[c].req.off = size \/ (job[c].req.off < size /\ ChunkOf(job[c].req.off) < Len(handles))
               /\ Becomes(c, Started(c)) \/ NoLocation(c)
  <1> DEFINE off == job[c].req.off
             starts == Becomes(c, Started(c)) \/ NoLocation(c)
             within == off < size /\ ChunkOf(off) < Len(handles)
  <1>1. off \in Nat /\ size \in Nat /\ handles \in Seq(Handle) /\ Len(handles) \in Nat /\ ChunkOf(off) \in Nat
    <2>1. RequestOK(job[c].req)
      BY JobOKNow DEF JobPlaced, PlanInsert, Plans, At
    <2>2. off \in Nat
      BY <2>1 DEF RequestOK
    <2>3. ChunkOf(off) \in Nat
      BY <2>2, ChunkOfOffset
    <2> QED
      BY <2>2, <2>3, FileOpsAssumption DEF TInv, FileOK
  <1>2. \/ EndsWith(c, "error")
        \/ off < size /\ ChunkOf(off) >= Len(handles) /\ MasterPanics(c)
        \/ (off = size \/ within) /\ starts
    <2>1. (CASE off > size -> EndsWith(c, "error")
             [] off < size /\ ChunkOf(off) >= Len(handles) -> MasterPanics(c)
             [] off = size \/ (off < size /\ ChunkOf(off) < Len(handles)) -> starts)
      BY DEF PlanInsert, Becomes, Started, NoLocation
    <2>2. \/ off > size \/ (off < size /\ ChunkOf(off) >= Len(handles)) \/ off = size \/ within
      <3> HIDE DEF off
      <3> QED
        BY <1>1
    <2> HIDE DEF starts, off
    <2> QED
      BY <2>1, <2>2, Zenon
  <1> HIDE DEF starts
  <1> QED
    BY <1>1, <1>2 DEF starts

LEMMA PlanInsertOK ==
  ASSUME TInv, NEW c \in Client, PlanInsert(c)
  PROVE  TInv'
  <1> DEFINE off == job[c].req.off
             start == StartChunk(off)
             k == Started(c)
             starts == Becomes(c, k)
             within == off < size /\ ChunkOf(off) < Len(handles)
  <1>1. /\ JobTyped(job[c]) /\ RequestOK(job[c].req) /\ job[c].got = << >>
        /\ job[c].pc = "plan" /\ job[c].req.op = "insert"
    BY JobOKNow DEF JobPlaced, PlanInsert, Plans, At
  <1>2. off \in Nat /\ size \in Nat /\ handles \in Seq(Handle) /\ Len(handles) \in Nat /\ ChunkOf(off) \in Nat
    BY InsertCases
  <1>3. \/ EndsWith(c, "error")
        \/ MasterPanics(c)
        \/ (off = size \/ within) /\ starts
        \/ NoLocation(c)
    BY InsertCases
  <1>4. CASE EndsWith(c, "error")
    BY <1>4, EndsOK
  <1>5. CASE MasterPanics(c)
    BY <1>5, PanicsOK
  <1>7. CASE NoLocation(c)
    <2> DEFINE l == [job[c] EXCEPT !.pc = "append"]
    <2>1. SameParts(job[c], l) /\ l.pc = "append" /\ l.req = job[c].req
      BY <1>1 DEF JobTyped, SameParts, Idle
    <2> HIDE DEF l
    <2>2. JobOK(l)
      BY <1>1, <2>1, SamePartsTyped DEF JobOK, JobPlaced
    <2>3. JobsOK(job')
      <3>1. JobsOK(job)
        BY DEF TInv
      <3>2. job' = [job EXCEPT ![c] = l]
        BY <1>7 DEF NoLocation, l
      <3> QED
        BY <2>2, <3>1, <3>2, ChangeOneJob
    <2>4. faults' \in 0 .. MaxFaults
      BY <1>7, FileOpsAssumption DEF NoLocation, TInv, FileOK
    <2> QED
      BY <1>7, <2>3, <2>4, KeepsFile DEF NoLocation
  <1>6. CASE (off = size \/ within) /\ starts
    <2>1. start \in Seq(Handle)
      <3>1. << >> \in Seq(Handle) /\ \A h \in Handle : <<h>> \in Seq(Handle)
        OBVIOUS
      <3>2. CASE off < size
        <4>1. ChunkOf(off) + 1 \in 1 .. Len(handles)
          <5> HIDE DEF off
          <5> QED
            BY <1>2, <1>6, <3>2
        <4>2. handles[ChunkOf(off) + 1] \in Handle
          BY <1>2, <4>1
        <4> QED
          BY <3>1, <4>2 DEF StartChunk
      <3>3. CASE ~(off < size)
        BY <3>1, <3>3 DEF StartChunk
      <3> QED
        BY <3>2, <3>3
    <2> HIDE DEF start
    <2>2. /\ DOMAIN k = DOMAIN Idle /\ k.req = job[c].req /\ k.calls = job[c].calls
          /\ k.new = job[c].new /\ k.at = job[c].at /\ k.buffer = job[c].buffer
          /\ k.cut = job[c].cut /\ k.reads = job[c].reads /\ k.got = job[c].got
          /\ k.list = job[c].list /\ k.size = job[c].size /\ k.gone = job[c].gone
          /\ \/ k.pc = "append" /\ k.old = job[c].old
             \/ k.pc = "open" /\ k.old = start /\ start # << >>
      BY <1>1 DEF JobTyped, Idle, Started, start
    <2> HIDE DEF k
    <2>3. JobTyped(k)
      BY <1>1, <2>1, <2>2 DEF JobTyped
    <2>4. JobOK(k)
      BY <1>1, <2>2, <2>3 DEF JobOK, JobPlaced
    <2> QED
      BY <1>6, <2>4, NextJob DEF Becomes
  <1> QED
    BY <1>3, <1>4, <1>5, <1>6, <1>7

\* The list and the size of the file, as OpenFile takes them.
Singletons(hs) == [i \in DOMAIN hs |-> {hs[i]}]

LEMMA OpenFileOK ==
  ASSUME TInv, NEW c \in Client, OpenFile(c)
  PROVE  TInv'
  <1> DEFINE list == Singletons(handles)
             k == [job[c] EXCEPT !.pc = "list", !.size = size, !.list = list]
  <1>1. /\ JobTyped(job[c]) /\ RequestOK(job[c].req) /\ job[c].got = << >>
        /\ job' = [job EXCEPT ![c] = k] /\ UNCHANGED <<running, file, faults>>
    BY JobOKNow DEF JobPlaced, OpenFile, Plans, At, Singletons
  <1>2. handles \in Seq(Handle) /\ size \in Nat
    BY FileOpsAssumption DEF TInv, FileOK
  <1>3. ListOK(list)
    <2>1. DOMAIN handles = 1 .. Len(handles) /\ Len(handles) \in Nat
      BY <1>2
    <2>2. \A i \in 1 .. Len(handles) : {handles[i]} \in SUBSET Handle /\ IsFiniteSet({handles[i]})
      <3>1. \A h : IsFiniteSet({h})
        BY FS_Singleton
      <3>2. \A i \in 1 .. Len(handles) : handles[i] \in Handle
        BY <1>2
      <3> QED
        BY <3>1, <3>2
    <2>3. /\ list \in [1 .. Len(handles) -> SUBSET Handle]
          /\ \A i \in 1 .. Len(handles) : IsFiniteSet(list[i])
      BY <2>1, <2>2 DEF Singletons
    <2> HIDE DEF list
    <2> QED
      BY <2>1, <2>3 DEF ListOK
  <1> HIDE DEF list
  <1>4. /\ DOMAIN k = DOMAIN Idle /\ k.pc = "list" /\ k.req = job[c].req /\ k.calls = job[c].calls
        /\ k.old = job[c].old /\ k.new = job[c].new /\ k.at = job[c].at /\ k.buffer = job[c].buffer
        /\ k.cut = job[c].cut /\ k.reads = job[c].reads /\ k.got = job[c].got
        /\ k.list = list /\ k.size = size
    BY <1>1 DEF JobTyped, Idle
  <1> HIDE DEF k
  <1>5. JobTyped(k)
    BY <1>1, <1>2, <1>3, <1>4 DEF JobTyped
  <1>6. JobOK(k)
    BY <1>1, <1>4, <1>5 DEF JobOK, JobPlaced
  <1> QED
    BY <1>1, <1>6, NextJob

\* The list that OpenFile answers with.
LEMMA ListsOK ==
  ASSUME TInv, NEW c \in Client, NEW hs \in Lists(c)
  PROVE  /\ hs \in Seq(Handle) /\ Len(hs) \in Nat /\ DOMAIN hs = DOMAIN job[c].list
         /\ \A i \in DOMAIN hs : hs[i] \in job[c].list[i]
  <1> DEFINE list == job[c].list
  <1>1. list \in Seq(SUBSET Handle)
    BY JobOKNow DEF JobTyped, ListOK
  <1>2. DOMAIN list = 1 .. Len(list) /\ Len(list) \in Nat
    BY <1>1
  <1>3. hs \in [DOMAIN list -> UNION ToSet(list)] /\ \A i \in DOMAIN list : hs[i] \in list[i]
    BY DEF Lists
  <1>4. \A i \in DOMAIN list : list[i] \in SUBSET Handle
    BY <1>1
  <1> HIDE DEF list
  <1>5. hs \in [1 .. Len(list) -> Handle]
    BY <1>2, <1>3, <1>4
  <1> QED
    BY <1>2, <1>3, <1>5 DEF list

LEMMA EmptyListOK == ListOK(<< >>)
  BY DEF ListOK

LEMMA OpenForInsertOK ==
  ASSUME TInv, NEW c \in Client, NEW hs \in Lists(c), OpenForInsert(c, hs)
  PROVE  TInv'
  <1> DEFINE first == PlaceOf(hs, Head(job[c].old))
             rest == SubSeq(hs, first, Len(hs))
             reads == [i \in DOMAIN rest |-> [h |-> rest[i], off |-> 0, n |-> ChunkSize]]
             k == [job[c] EXCEPT !.pc = "read", !.list = << >>, !.old = rest, !.at = first - 1,
                                 !.reads = reads]
  <1>1. /\ JobTyped(job[c]) /\ RequestOK(job[c].req) /\ job[c].got = << >>
        /\ job[c].pc = "list" /\ job[c].req.op = "insert"
    BY JobOKNow DEF JobPlaced, OpenForInsert, Opens, At
  <1>2. hs \in Seq(Handle) /\ Len(hs) \in Nat
    BY ListsOK
  <1>3. first \in 0 .. Len(hs)
    BY <1>2, PlaceIsFirst
  <1>4. first = SelectInSeq(hs, LAMBDA h : h = Head(job[c].old))
    BY DEF SelectInSeq, PlaceOf
  <1>5. \/ first = 0 /\ EndsWith(c, "error")
        \/ first # 0 /\ job' = [job EXCEPT ![c] = k] /\ UNCHANGED <<running, file, faults>>
    BY <1>4 DEF OpenForInsert
  <1>6. CASE EndsWith(c, "error")
    BY <1>6, EndsOK
  <1>7. CASE first # 0 /\ job' = [job EXCEPT ![c] = k] /\ UNCHANGED <<running, file, faults>>
    <2> HIDE DEF first
    <2>1. rest \in Seq(Handle) /\ Len(rest) \in Nat \ {0} /\ DOMAIN rest = 1 .. Len(rest)
      BY <1>2, <1>3, <1>7, SubSeqProperties
    <2> HIDE DEF rest
    <2>2. \A i \in DOMAIN rest : [h |-> rest[i], off |-> 0, n |-> ChunkSize] \in ReadPart
      BY <2>1, ChunkSizeAssumption DEF ReadPart
    <2>3. reads \in Seq(ReadPart) /\ reads # << >>
      <3>1. reads \in [1 .. Len(rest) -> ReadPart]
        BY <2>1, <2>2
      <3> HIDE DEF reads
      <3>2. reads \in Seq(ReadPart) /\ Len(reads) = Len(rest)
        BY <2>1, <3>1
      <3> QED
        BY <2>1, <3>2
    <2> HIDE DEF reads
    <2>4. /\ DOMAIN k = DOMAIN Idle /\ k.pc = "read" /\ k.req = job[c].req /\ k.calls = job[c].calls
          /\ k.old = rest /\ k.new = job[c].new /\ k.at = first - 1 /\ k.buffer = job[c].buffer
          /\ k.cut = job[c].cut /\ k.reads = reads /\ k.got = job[c].got
          /\ k.list = << >> /\ k.size = job[c].size
      BY <1>1 DEF JobTyped, Idle
    <2> HIDE DEF k
    <2>5. IsFiniteSet(DOMAIN reads) /\ \A i \in DOMAIN reads : reads[i] \in ReadPart
      BY <2>3, SeqIsFinite
    <2>6. first - 1 \in Nat
      BY <1>3, <1>7
    <2>7. JobTyped(k)
      BY <1>1, <2>1, <2>4, <2>5, <2>6, EmptyListOK DEF JobTyped
    <2>8. JobOK(k)
      BY <1>1, <2>3, <2>4, <2>7 DEF JobOK, JobPlaced
    <2> QED
      BY <1>7, <2>8, NextJob
  <1> QED
    BY <1>5, <1>6, <1>7

LEMMA OpenForDeleteOK ==
  ASSUME TInv, NEW c \in Client, NEW hs \in Lists(c), OpenForDelete(c, hs)
  PROVE  TInv'
  <1> DEFINE k == [job[c] EXCEPT !.pc = "remove", !.list = << >>, !.old = hs]
  <1>1. /\ JobTyped(job[c]) /\ RequestOK(job[c].req)
        /\ job[c].pc = "list" /\ job[c].req.op = "delete"
        /\ job' = [job EXCEPT ![c] = AfterRemoval(k)] /\ UNCHANGED <<running, file, faults>>
    BY JobOKNow DEF JobPlaced, OpenForDelete, Opens, At
  <1>2. hs \in Seq(Handle)
    BY ListsOK
  <1>3. /\ DOMAIN k = DOMAIN Idle /\ k.pc = "remove" /\ k.req = job[c].req /\ k.calls = job[c].calls
        /\ k.old = hs /\ k.new = job[c].new /\ k.at = job[c].at /\ k.buffer = job[c].buffer
        /\ k.cut = job[c].cut /\ k.reads = job[c].reads /\ k.got = job[c].got
        /\ k.list = << >> /\ k.size = job[c].size
    BY <1>1 DEF JobTyped, Idle
  <1> HIDE DEF k
  <1>4. JobTyped(k)
    BY <1>1, <1>2, <1>3, EmptyListOK DEF JobTyped
  <1>5. JobOK(AfterRemoval(k))
    BY <1>1, <1>3, <1>4, AfterRemovalOK DEF RemovalOps
  <1> QED
    BY <1>1, <1>5, NextJob

\* What Read asks for when the file has n bytes and this list, and may answer then.
PartsOf(hs, n) ==
  [i \in {i \in DOMAIN hs : (i - 1) * ChunkSize < n} |->
     [h |-> hs[i], off |-> 0, n |-> Smaller(ChunkSize, n - (i - 1) * ChunkSize)]]

FoundNow(hs, n) == [p \in 1 .. Smaller(n, Len(hs) * ChunkSize) |-> ByteAt(hs, p)]

OpenedToRead(c, hs) ==
  [job[c] EXCEPT !.pc = "read", !.list = << >>, !.reads = PartsOf(hs, job[c].size),
                 !.may = FoundNow(hs, job[c].size)]

LEMMA OpenedOK ==
  ASSUME TInv, NEW c \in Client, NEW hs \in Lists(c), OpenForRead(c, hs)
  PROVE  LET k == OpenedToRead(c, hs)
         IN  /\ Becomes(c, AfterReads(k))
             /\ JobTyped(k) /\ RequestOK(k.req) /\ k.pc = "read" /\ k.req.op = "read"
             /\ k.got = << >> /\ k.reads = PartsOf(hs, k.size) /\ k.may = FoundNow(hs, k.size)
             /\ k.new = job[c].new /\ k.gone = job[c].gone
  <1> DEFINE size0 == job[c].size
             n(i) == Smaller(ChunkSize, size0 - (i - 1) * ChunkSize)
             reads == PartsOf(hs, size0)
             k == OpenedToRead(c, hs)
  <1>1. /\ JobTyped(job[c]) /\ RequestOK(job[c].req) /\ job[c].got = << >>
        /\ job[c].pc = "list" /\ job[c].req.op = "read"
        /\ Becomes(c, AfterReads(k))
    BY JobOKNow DEF JobPlaced, OpenForRead, Opens, At, Becomes, OpenedToRead, PartsOf, FoundNow
  <1>2. hs \in Seq(Handle) /\ size0 \in Nat
    BY <1>1, ListsOK DEF JobTyped
  <1>3. IsFiniteSet(DOMAIN reads)
    <2>1. DOMAIN reads \in SUBSET (DOMAIN hs)
      BY DEF PartsOf
    <2> QED
      BY <1>2, <2>1, SeqIsFinite, FS_Subset
  <1>4. ASSUME NEW i \in DOMAIN reads PROVE reads[i] \in ReadPart
    <2>1. i \in DOMAIN hs /\ (i - 1) * ChunkSize < size0
      BY DEF PartsOf
    <2>2. i \in Nat \ {0} /\ hs[i] \in Handle
      BY <1>2, <2>1
    <2>3. (i - 1) * ChunkSize \in Nat
      BY <2>2, ChunkSizeAssumption
    <2>4. n(i) \in Nat
      BY <1>2, <2>1, <2>3, ChunkSizeAssumption DEF Smaller
    <2>5. reads[i] = [h |-> hs[i], off |-> 0, n |-> n(i)]
      BY DEF PartsOf
    <2> HIDE DEF n
    <2> QED
      BY <2>2, <2>4, <2>5 DEF ReadPart
  <1>5. /\ DOMAIN k = DOMAIN Idle /\ k.pc = "read" /\ k.req = job[c].req /\ k.calls = job[c].calls
        /\ k.old = job[c].old /\ k.new = job[c].new /\ k.at = job[c].at /\ k.buffer = job[c].buffer
        /\ k.cut = job[c].cut /\ k.reads = reads /\ k.got = job[c].got
        /\ k.list = << >> /\ k.size = size0 /\ k.gone = job[c].gone
        /\ k.may = FoundNow(hs, size0)
    BY <1>1 DEF JobTyped, Idle, OpenedToRead
  <1> HIDE DEF k, reads
  <1>6. JobTyped(k)
    BY <1>1, <1>3, <1>4, <1>5, EmptyListOK DEF JobTyped
  <1> QED
    BY <1>1, <1>5, <1>6 DEF k, reads

LEMMA OpenForReadOK ==
  ASSUME TInv, NEW c \in Client, NEW hs \in Lists(c), OpenForRead(c, hs)
  PROVE  TInv'
  <1> DEFINE k == OpenedToRead(c, hs)
  <1>1. JobOK(AfterReads(k))
    <2>1. JobTyped(k) /\ RequestOK(k.req) /\ k.pc = "read" /\ k.req.op = "read"
      BY OpenedOK
    <2> HIDE DEF k
    <2> QED
      BY <2>1, AfterReadsOK
  <1> QED
    BY <1>1, OpenedOK, NextJob DEF Becomes

LEMMA ChunkIsSeq ==
  ASSUME TInv, NEW h
  PROVE  Chunk(h) \in Seq(Byte) /\ Len(Chunk(h)) \in 0 .. ChunkSize
  <1>1. CASE Holds(h)
    BY <1>1 DEF TInv, FileOK, Holds, Chunk
  <1>2. CASE ~Holds(h)
    <2>1. Chunk(h) = << >>
      BY <1>2 DEF Chunk
    <2> QED
      BY <2>1, ChunkSizeAssumption
  <1> QED
    BY <1>1, <1>2

LEMMA WithReadOK ==
  ASSUME TInv, NEW c \in Client, job[c].pc = "read", NEW i \in DOMAIN job[c].reads
  PROVE  LET k == WithRead(c, i)
             r == job[c].reads[i]
         IN  /\ JobTyped(k)
             /\ k.pc = job[c].pc /\ k.req = job[c].req /\ k.reads = job[c].reads
             /\ k.size = job[c].size /\ k.may = job[c].may
             /\ k.gone = job[c].gone /\ k.new = job[c].new
             /\ DOMAIN k.got = DOMAIN job[c].got \cup {i}
             /\ k.got[i] = Slice(Chunk(r.h), r.off, r.n)
             /\ \A m \in DOMAIN job[c].got \ {i} : k.got[m] = job[c].got[m]
             /\ r \in ReadPart
  <1> DEFINE r == job[c].reads[i]
             bytes == Slice(Chunk(r.h), r.off, r.n)
             got == [m \in DOMAIN job[c].got \cup {i} |-> IF m = i THEN bytes ELSE job[c].got[m]]
             k == [job[c] EXCEPT !.got = got]
  <1>1. JobTyped(job[c])
    BY JobOKNow
  <1>2. r \in ReadPart /\ r.off \in Nat /\ r.n \in Nat
    BY <1>1 DEF JobTyped, ReadPart
  <1>3. bytes \in Seq(Byte)
    BY <1>2, ChunkIsSeq, SliceIsSeq
  <1>4. WithRead(c, i) = k
    BY DEF WithRead
  <1> HIDE DEF bytes
  <1>5. /\ DOMAIN got = DOMAIN job[c].got \cup {i} /\ got[i] = bytes
        /\ \A m \in DOMAIN job[c].got \ {i} : got[m] = job[c].got[m]
    OBVIOUS
  <1> HIDE DEF got
  <1>6. /\ DOMAIN k = DOMAIN Idle /\ k.pc = job[c].pc /\ k.req = job[c].req /\ k.calls = job[c].calls
        /\ k.old = job[c].old /\ k.new = job[c].new /\ k.at = job[c].at /\ k.buffer = job[c].buffer
        /\ k.cut = job[c].cut /\ k.reads = job[c].reads /\ k.got = got
        /\ k.size = job[c].size /\ k.may = job[c].may
        /\ k.list = job[c].list /\ k.gone = job[c].gone
    BY <1>1 DEF JobTyped, Idle
  <1> HIDE DEF k
  <1>7. JobTyped(k)
    BY <1>1, <1>3, <1>5, <1>6 DEF JobTyped
  <1> QED
    BY <1>2, <1>4, <1>5, <1>6, <1>7 DEF bytes

LEMMA ReadChunkOK ==
  ASSUME TInv, NEW c \in Client, NEW i \in DOMAIN job[c].reads, ReadChunk(c, i)
  PROVE  TInv'
  <1>1. CASE EndsWith(c, "error")
    BY <1>1, EndsOK
  <1>2. CASE job' = [job EXCEPT ![c] = AfterReads(WithRead(c, i))] /\ UNCHANGED <<running, file, faults>>
    <2>1. job[c].pc = "read" /\ JobPlaced(job[c])
      BY JobOKNow DEF ReadChunk, At
    <2> DEFINE k == WithRead(c, i)
    <2>2. JobTyped(k) /\ k.pc = "read" /\ k.req = job[c].req /\ k.reads = job[c].reads
      BY <2>1, WithReadOK
    <2> HIDE DEF k
    <2>3. JobOK(AfterReads(k))
      BY <2>1, <2>2, AfterReadsOK DEF JobPlaced
    <2> QED
      BY <1>2, <2>3, NextJob DEF k
  <1> QED
    BY <1>1, <1>2 DEF ReadChunk

\* What is left of the file when the Master is told of a removed chunk.
LEMMA ReportRemovedOK ==
  ASSUME TInv, NEW h, NEW n \in Nat, ReportRemoved(h, n)
  PROVE  /\ handles' \in Seq(Handle) /\ size' \in 0 .. Word - 1
         /\ located' \subseteq Handle /\ IsFiniteSet(located')
  <1>1. /\ handles \in Seq(Handle) /\ size \in 0 .. Word - 1 /\ size - n \in Int
        /\ located \subseteq Handle /\ IsFiniteSet(located)
    BY FileOpsAssumption DEF TInv, FileOK
  <1>2. CASE exists
    <2>1. handles' \in Seq(Handle)
      BY <1>1, <1>2, RemoveFirstIsSeq DEF ReportRemoved
    <2>2. size' \in 0 .. Word - 1
      BY <1>1, <1>2, FileOpsAssumption DEF ReportRemoved
    <2>3. located' \subseteq Handle /\ IsFiniteSet(located')
      BY <1>1, <1>2, FS_RemoveElement DEF ReportRemoved
    <2> QED
      BY <2>1, <2>2, <2>3
  <1>3. CASE ~exists
    BY <1>1, <1>3 DEF ReportRemoved
  <1> QED
    BY <1>2, <1>3

LEMMA WithoutFileOK ==
  ASSUME TInv, NEW h, data' = WithoutFile(h)
  PROVE  /\ DOMAIN data' = DOMAIN data \ {h}
         /\ DOMAIN data' \subseteq Handle /\ IsFiniteSet(DOMAIN data')
         /\ \A g \in DOMAIN data' : data'[g] \in Seq(Byte) /\ Len(data'[g]) \in 1 .. ChunkSize
  <1>1. DOMAIN data' = DOMAIN data \ {h} /\ \A g \in DOMAIN data' : data'[g] = data[g]
    BY DEF WithoutFile
  <1>2. /\ DOMAIN data \subseteq Handle /\ IsFiniteSet(DOMAIN data)
        /\ \A g \in DOMAIN data : data[g] \in Seq(Byte) /\ Len(data[g]) \in 1 .. ChunkSize
    BY DEF TInv, FileOK
  <1>3. IsFiniteSet(DOMAIN data \ {h})
    BY <1>2, FS_RemoveElement
  <1> QED
    BY <1>1, <1>2, <1>3

LEMMA RemoveReplicasOK ==
  ASSUME TInv, NEW c \in Client, RemoveReplicas(c)
  PROVE  TInv'
  <1> DEFINE h == Head(job[c].old)
             k == [job[c] EXCEPT !.gone = TRUE]
  <1>1. JobTyped(job[c]) /\ JobPlaced(job[c])
    BY JobOKNow
  <1>2. JobOK(k)
    <2>1. /\ DOMAIN k = DOMAIN Idle /\ k.pc = job[c].pc /\ k.req = job[c].req /\ k.calls = job[c].calls
          /\ k.old = job[c].old /\ k.new = job[c].new /\ k.at = job[c].at
          /\ k.buffer = job[c].buffer /\ k.cut = job[c].cut
          /\ k.reads = job[c].reads /\ k.got = job[c].got
          /\ k.list = job[c].list /\ k.size = job[c].size
      BY <1>1 DEF JobTyped, Idle
    <2> HIDE DEF k
    <2>2. JobTyped(k)
      BY <1>1, <2>1 DEF JobTyped
    <2>3. JobPlaced(k)
      BY <1>1, <2>1 DEF JobPlaced
    <2> QED
      BY <2>2, <2>3 DEF JobOK
  <1>3. CASE EndsWith(c, "error")
    BY <1>3, EndsOK
  <1>4. CASE ~EndsWith(c, "error")
    <2>1. /\ job' = [job EXCEPT ![c] = k]
          /\ \/ copies' = copies \ {h} /\ UNCHANGED faults
             \/ faults < MaxFaults /\ faults' = faults + 1 /\ UNCHANGED copies
          /\ UNCHANGED <<running, exists, handles, size, located, data>>
      BY <1>4 DEF RemoveReplicas
    <2>2. JobsOK(job')
      BY <1>2, <2>1, JobOKNow, ChangeOneJob
    <2>3. faults' \in 0 .. MaxFaults
      BY <2>1, FileOpsAssumption DEF TInv, FileOK
    <2> HIDE DEF h, k
    <2>4. copies' \subseteq Handle /\ IsFiniteSet(copies')
      BY <2>1, FS_RemoveElement DEF TInv, FileOK
    <2>5. FileOK'
      BY <2>1, <2>3, <2>4 DEF TInv, FileOK
    <2> QED
      BY <2>2, <2>5 DEF TInv, JobsOK
  <1> QED
    BY <1>3, <1>4

LEMMA RemoveChunkOK ==
  ASSUME TInv, NEW c \in Client, RemoveChunk(c) \/ RemoveUnreported(c)
  PROVE  TInv'
  <1> DEFINE h == Head(job[c].old)
             rest == [job[c] EXCEPT !.old = Tail(@), !.gone = FALSE]
  <1>1. /\ JobTyped(job[c]) /\ RequestOK(job[c].req)
        /\ job[c].pc = "remove" /\ job[c].req.op \in RemovalOps /\ job[c].old # << >>
    BY JobOKNow DEF JobPlaced, RemoveChunk, RemoveUnreported, At, RemovalOps
  <1>2. JobOK(AfterRemoval(rest))
    <2>1. Tail(job[c].old) \in Seq(Handle)
      BY <1>1 DEF JobTyped
    <2>2. /\ DOMAIN rest = DOMAIN Idle /\ rest.pc = "remove" /\ rest.req = job[c].req /\ rest.calls = job[c].calls
          /\ rest.old = Tail(job[c].old) /\ rest.new = job[c].new /\ rest.at = job[c].at
          /\ rest.buffer = job[c].buffer /\ rest.cut = job[c].cut
          /\ rest.reads = job[c].reads /\ rest.got = job[c].got
          /\ rest.list = job[c].list /\ rest.size = job[c].size
      BY <1>1 DEF JobTyped, Idle
    <2> HIDE DEF rest
    <2>3. JobTyped(rest)
      BY <1>1, <2>1, <2>2 DEF JobTyped
    <2> QED
      BY <1>1, <2>2, <2>3, AfterRemovalOK
  <1>3. CASE EndsWith(c, "error")
    BY <1>3, EndsOK
  <1>4. CASE RemoveChunk(c) /\ ~EndsWith(c, "error")
    <2>1. /\ Holds(h) /\ data' = WithoutFile(h) /\ ReportRemoved(h, Len(data[h]))
          /\ GoesOr(Shifted(handles'), c, AfterRemoval(rest), Ended(job[c], "error"))
          /\ UNCHANGED <<running, exists, copies>>
      BY <1>4 DEF RemoveChunk
    <2>2. Len(data[h]) \in Nat
      BY <2>1 DEF TInv, FileOK, Holds
    <2> HIDE DEF h, rest
    <2>5. /\ handles' \in Seq(Handle) /\ size' \in 0 .. Word - 1
          /\ located' \subseteq Handle /\ IsFiniteSet(located')
      BY <2>1, <2>2, ReportRemovedOK
    <2>3. JobsOK(job') /\ faults' \in 0 .. MaxFaults
      BY <1>2, <2>1, <2>5, ShiftedGoesOK
    <2>4. FileOK'
      BY <2>1, <2>3, <2>5, WithoutFileOK DEF TInv, FileOK
    <2> QED
      BY <2>3, <2>4 DEF TInv, JobsOK
  <1>5. CASE RemoveUnreported(c)
    <2>1. /\ data' = WithoutFile(h) /\ job' = [job EXCEPT ![c] = Ended(@, "error")]
          /\ faults < MaxFaults /\ faults' = faults + 1
          /\ UNCHANGED <<running, exists, handles, size, located, copies>>
      BY <1>5 DEF RemoveUnreported
    <2>2. JobsOK(job')
      BY <2>1, JobOKNow, EndedOK, ChangeOneJob
    <2>3. faults' \in 0 .. MaxFaults
      BY <2>1, FileOpsAssumption DEF TInv, FileOK
    <2> HIDE DEF h
    <2>4. FileOK'
      BY <2>1, <2>3, WithoutFileOK DEF TInv, FileOK
    <2> QED
      BY <2>2, <2>4 DEF TInv, JobsOK
  <1> QED
    BY <1>3, <1>4, <1>5

LEMMA AllocateOK ==
  ASSUME TInv, NEW c \in Client, Allocate(c)
  PROVE  TInv'
  <1> DEFINE idx == job[c].at + Len(job[c].new)
             h == Fresh(1)[1]
             k == [job[c] EXCEPT !.new = Append(@, h)]
  <1>1. JobTyped(job[c]) /\ RequestOK(job[c].req) /\ job[c].pc = "allocate"
    BY JobOKNow DEF JobPlaced, Allocate, At
  <1>2. h \in Handle
    <2>1. Fresh(1) \in Seq(Handle) /\ Len(Fresh(1)) = 1
      BY FreshOK
    <2> QED
      BY <2>1
  <1> HIDE DEF h
  <1>3. idx \in Nat /\ Append(job[c].new, h) \in Seq(Handle)
    BY <1>1, <1>2 DEF JobTyped
  <1>4. handles \in Seq(Handle) /\ Len(handles) \in Nat
    BY DEF TInv, FileOK
  <1>5. CASE EndsWith(c, "error")
    BY <1>5, EndsOK
  <1>6. CASE ~EndsWith(c, "error")
    <2>1. /\ ~(~exists \/ idx > Len(handles))
          /\ handles' = InsertAt(handles, idx + 1, h)
          /\ located' = located \cup {h}
          /\ GoesOr(Shifted(handles'), c, AfterAllocation(k), Ended(job[c], "error"))
          /\ UNCHANGED <<running, exists, size, data, copies>>
      BY <1>6 DEF Allocate, h
    <2>2. JobOK(AfterAllocation(k))
      <3>1. /\ DOMAIN k = DOMAIN Idle /\ k.pc = "allocate" /\ k.req = job[c].req /\ k.calls = job[c].calls
            /\ k.old = job[c].old /\ k.new = Append(job[c].new, h) /\ k.at = job[c].at
            /\ k.buffer = job[c].buffer /\ k.cut = job[c].cut
            /\ k.reads = job[c].reads /\ k.got = job[c].got
            /\ k.list = job[c].list /\ k.size = job[c].size /\ k.gone = job[c].gone
        BY <1>1 DEF JobTyped, Idle
      <3> HIDE DEF k
      <3>2. JobTyped(k)
        BY <1>1, <1>3, <3>1 DEF JobTyped
      <3> QED
        BY <1>1, <3>1, <3>2, AfterAllocationOK
    <2> HIDE DEF idx, k
    <2>4. handles' \in Seq(Handle)
      <3>1. idx + 1 \in 1 .. Len(handles) + 1
        BY <1>3, <1>4, <2>1
      <3> QED
        BY <1>2, <1>4, <2>1, <3>1, InsertAtIsSeq
    <2>3. JobsOK(job') /\ faults' \in 0 .. MaxFaults
      BY <2>1, <2>2, <2>4, ShiftedGoesOK
    <2>5. located' \subseteq Handle /\ IsFiniteSet(located')
      BY <1>2, <2>1, FS_AddElement DEF TInv, FileOK
    <2>6. FileOK'
      BY <2>1, <2>3, <2>4, <2>5 DEF TInv, FileOK
    <2> QED
      BY <2>3, <2>6 DEF TInv, JobsOK
  <1> QED
    BY <1>5, <1>6

LEMMA NotedOK ==
  ASSUME TInv, NEW h, NEW bytes
  PROVE  JobsOK(Noted(h, bytes))
  <1> DEFINE seen(c, p) == {bytes[k] : k \in {k \in DOMAIN bytes :
               k = ((p - 1) % ChunkSize) + 1 /\ job[c].reads[ChunkOf(p - 1) + 1].h = h}}
             may(c) == [p \in DOMAIN job[c].may |-> job[c].may[p] \cup seen(c, p)]
             n(c) == [job[c] EXCEPT !.may = may(c)]
  <1>1. Noted(h, bytes) = [c \in Client |-> n(c)]
    BY DEF Noted
  <1>2. ASSUME NEW c \in Client PROVE JobOK(n(c))
    <2>1. JobTyped(job[c]) /\ JobPlaced(job[c])
      BY JobOKNow
    <2> HIDE DEF may
    <2>2. SameParts(job[c], n(c)) /\ n(c).pc = job[c].pc /\ n(c).req = job[c].req
      BY <2>1 DEF JobTyped, SameParts, Idle
    <2> HIDE DEF n
    <2>3. JobTyped(n(c)) /\ JobPlaced(n(c))
      BY <2>1, <2>2, SamePartsTyped DEF JobPlaced, SameParts
    <2> QED
      BY <2>3 DEF JobOK
  <1> HIDE DEF n
  <1> QED
    BY <1>1, <1>2 DEF JobsOK

LEMMA ChangeOK ==
  ASSUME TInv, NEW c \in Client, NEW h \in Handle,
         NEW bytes \in Seq(Byte), Len(bytes) \in 1 .. ChunkSize, NEW growth \in Int,
         NEW written, written = {h} \/ written = {},
         NEW j, JobOK(j), NEW k, JobOK(k), Change(c, h, bytes, growth, written, j, k)
  PROVE  TInv'
  <1>1. JobsOK(Noted(h, bytes))
    BY NotedOK
  <1>2. JobsOK(job') /\ faults' \in 0 .. MaxFaults
    <2>1. CASE GoesOr(Noted(h, bytes), c, j, k)
      BY <1>1, <2>1, JobOKNow, GoesOrOK
    <2>2. CASE faults < MaxFaults /\ faults' = faults + 1 /\ job' = [Noted(h, bytes) EXCEPT ![c] = k]
      <3>1. JobsOK(job')
        BY <1>1, <2>2, ChangeOneJob
      <3>2. faults' \in 0 .. MaxFaults
        BY <2>2, JobOKNow, FileOpsAssumption
      <3> QED
        BY <3>1, <3>2
    <2> QED
      BY <2>1, <2>2 DEF Change
  <1>3. size' \in 0 .. Word - 1
    BY FileOpsAssumption DEF Change, TInv, FileOK
  <1>4. /\ DOMAIN data' \subseteq Handle /\ IsFiniteSet(DOMAIN data')
        /\ \A g \in DOMAIN data' : data'[g] \in Seq(Byte) /\ Len(data'[g]) \in 1 .. ChunkSize
    <2>1. /\ DOMAIN data' = DOMAIN data \cup {h} /\ data'[h] = bytes
          /\ \A g \in DOMAIN data' \ {h} : g \in DOMAIN data /\ data'[g] = data[g]
      BY DEF Change, WithBytes
    <2>2. IsFiniteSet(DOMAIN data \cup {h})
      BY FS_AddElement DEF TInv, FileOK
    <2> QED
      BY <2>1, <2>2 DEF TInv, FileOK
  <1>5. UNCHANGED <<running, exists, handles, located>>
    BY DEF Change
  <1>7. copies' \subseteq Handle /\ IsFiniteSet(copies')
    <2>1. copies' = copies \cup written \/ copies' = copies \ written
      BY DEF Change
    <2>2. copies' = copies \/ copies' = copies \cup {h} \/ copies' = copies \ {h}
      BY <2>1
    <2>3. copies \subseteq Handle /\ IsFiniteSet(copies)
      BY DEF TInv, FileOK
    <2>4. IsFiniteSet(copies \cup {h}) /\ IsFiniteSet(copies \ {h})
      BY <2>3, FS_AddElement, FS_RemoveElement
    <2> QED
      BY <2>2, <2>3, <2>4
  <1>6. FileOK'
    BY <1>2, <1>3, <1>4, <1>5, <1>7 DEF TInv, FileOK
  <1> QED
    BY <1>2, <1>6 DEF TInv, JobsOK

LEMMA WriteChunkOK ==
  ASSUME TInv, NEW c \in Client, NEW call \in CallPart, NEW j, JobOK(j), NEW k, JobOK(k),
         WriteChunk(c, call, j, k)
  PROVE  TInv'
  <1> DEFINE old == Chunk(call.h)
             bytes == Overlay(old, call.off, call.bytes)
  <1>1. /\ call.h \in Handle /\ call.off \in 0 .. ChunkSize - 1 /\ call.off \in Nat
        /\ call.bytes \in Seq(Byte) /\ call.bytes # << >> /\ call.off + Len(call.bytes) <= ChunkSize
    BY ChunkSizeAssumption DEF CallPart
  <1>2. old \in Seq(Byte) /\ Len(old) \in 0 .. ChunkSize
    BY ChunkIsSeq
  <1>3. Hole \in Byte
    BY DEF Byte
  <1>4. bytes \in Seq(Byte) /\ Len(bytes) = Greater(Len(old), call.off + Len(call.bytes))
    BY <1>1, <1>2, <1>3, OverlayIsSeq
  <1>5. Change(c, call.h, bytes, Len(bytes) - Len(old), {call.h}, j, k)
    BY DEF WriteChunk
  <1>6. Len(call.bytes) \in Nat \ {0}
    BY <1>1, EmptySeq
  <1> HIDE DEF bytes, old
  <1>7. Len(bytes) \in 1 .. ChunkSize /\ Len(bytes) - Len(old) \in Int
    BY <1>1, <1>2, <1>4, <1>6, ChunkSizeAssumption DEF Greater
  <1> QED
    BY <1>1, <1>4, <1>5, <1>7, ChangeOK

LEMMA StoreOneOK ==
  ASSUME TInv, NEW c \in Client, NEW i \in DOMAIN job[c].calls, StoreOne(c, i)
  PROVE  TInv'
  <1> DEFINE calls == RemoveAt(job[c].calls, i)
             rest == [job[c] EXCEPT !.calls = calls]
             sour == [rest EXCEPT !.failed = TRUE]
  <1>1. JobTyped(job[c]) /\ RequestOK(job[c].req) /\ job[c].pc = "store"
    BY JobOKNow DEF JobPlaced, StoreOne, At
  <1>2. job[c].calls \in Seq(CallPart) /\ i \in 1 .. Len(job[c].calls) /\ job[c].calls[i] \in CallPart
    BY <1>1 DEF JobTyped
  <1>3. calls \in Seq(CallPart)
    BY <1>2, RemoveAtIsSeq
  <1> HIDE DEF calls
  <1>4. /\ DOMAIN rest = DOMAIN Idle /\ rest.pc = "store" /\ rest.req = job[c].req /\ rest.calls = calls
        /\ rest.old = job[c].old /\ rest.new = job[c].new /\ rest.at = job[c].at
        /\ rest.buffer = job[c].buffer /\ rest.cut = job[c].cut
        /\ rest.reads = job[c].reads /\ rest.got = job[c].got
        /\ rest.list = job[c].list /\ rest.size = job[c].size /\ rest.gone = job[c].gone
    BY <1>1 DEF JobTyped, Idle
  <1> HIDE DEF rest
  <1>5. JobTyped(rest)
    BY <1>1, <1>3, <1>4 DEF JobTyped
  <1>6. SameParts(rest, sour) /\ sour.pc = "store" /\ sour.req = job[c].req
    BY <1>4 DEF SameParts, Idle
  <1> HIDE DEF sour
  <1>7. JobOK(AfterStores(rest)) /\ JobOK(AfterStores(sour))
    BY <1>1, <1>4, <1>5, <1>6, SamePartsTyped, AfterStoresOK
  <1>8. \/ WriteChunk(c, job[c].calls[i], AfterStores(rest), AfterStores(sour))
        \/ /\ faults < MaxFaults /\ faults' = faults + 1
           /\ job' = [job EXCEPT ![c] = AfterStores(sour)]
           /\ UNCHANGED <<running, file>>
    BY DEF StoreOne, calls, rest, sour
  <1>9. CASE WriteChunk(c, job[c].calls[i], AfterStores(rest), AfterStores(sour))
    BY <1>2, <1>7, <1>9, WriteChunkOK
  <1>10. CASE /\ faults < MaxFaults /\ faults' = faults + 1
              /\ job' = [job EXCEPT ![c] = AfterStores(sour)]
              /\ UNCHANGED <<running, file>>
    <2>1. JobsOK(job')
      BY <1>7, <1>10, JobOKNow, ChangeOneJob
    <2>2. faults' \in 0 .. MaxFaults
      BY <1>10, JobOKNow, FileOpsAssumption
    <2> QED
      BY <1>10, <2>1, <2>2, KeepsFile
  <1> QED
    BY <1>8, <1>9, <1>10

LEMMA RewriteOK ==
  ASSUME TInv, NEW c \in Client, Rewrite(c)
  PROVE  TInv'
  <1> DEFINE rest == [job[c] EXCEPT !.calls = Tail(@)]
  <1>1. JobTyped(job[c]) /\ RequestOK(job[c].req) /\ job[c].pc = "rewrite" /\ job[c].calls # << >>
    BY JobOKNow DEF JobPlaced, Rewrite, At
  <1>2. Tail(job[c].calls) \in Seq(CallPart) /\ Head(job[c].calls) \in CallPart
    BY <1>1 DEF JobTyped
  <1>3. /\ DOMAIN rest = DOMAIN Idle /\ rest.pc = "rewrite" /\ rest.req = job[c].req
        /\ rest.calls = Tail(job[c].calls)
        /\ rest.old = job[c].old /\ rest.new = job[c].new /\ rest.at = job[c].at
        /\ rest.buffer = job[c].buffer /\ rest.cut = job[c].cut
        /\ rest.reads = job[c].reads /\ rest.got = job[c].got
        /\ rest.list = job[c].list /\ rest.size = job[c].size /\ rest.gone = job[c].gone
    BY <1>1 DEF JobTyped, Idle
  <1>4. WriteChunk(c, Head(job[c].calls), AfterStores(rest), Ended(rest, "error"))
    BY DEF Rewrite
  <1> HIDE DEF rest
  <1>5. JobTyped(rest)
    BY <1>1, <1>2, <1>3 DEF JobTyped
  <1>6. JobOK(AfterStores(rest)) /\ JobOK(Ended(rest, "error"))
    BY <1>1, <1>3, <1>5, AfterStoresOK, EndedOK
  <1> QED
    BY <1>2, <1>4, <1>6, WriteChunkOK

LEMMA CutOK ==
  ASSUME TInv, NEW c \in Client, Cut(c)
  PROVE  TInv'
  <1> DEFINE h == job[c].cut[1].h
             n == job[c].cut[1].n
             bytes == Resize(Chunk(h), n)
             growth == Len(bytes) - Len(Chunk(h))
  <1>1. JobTyped(job[c]) /\ job[c].cut # << >>
    BY JobOKNow DEF JobPlaced, Cut, At
  <1>2. h \in Handle /\ n \in 1 .. ChunkSize
    <2>1. job[c].cut[1] \in CutPart
      BY <1>1, EmptySeq DEF JobTyped
    <2> QED
      BY <2>1 DEF CutPart
  <1>3. CASE EndsWith(c, "error")
    BY <1>3, EndsOK
  <1>4. CASE Change(c, h, bytes, growth, {}, Ended(job[c], "ok"), Ended(job[c], "error"))
    <2> HIDE DEF h, n
    <2>1. Chunk(h) \in Seq(Byte) /\ Len(Chunk(h)) \in Nat /\ Hole \in Byte
      BY ChunkIsSeq DEF Byte
    <2>2. n \in Nat
      BY <1>2
    <2>3. bytes \in Seq(Byte) /\ Len(bytes) = n
      BY <2>1, <2>2, ResizeIsSeq
    <2> HIDE DEF bytes
    <2>4. growth \in Int /\ Len(bytes) \in 1 .. ChunkSize
      BY <1>2, <2>1, <2>3
    <2> HIDE DEF growth
    <2> QED
      BY <1>2, <1>4, <2>3, <2>4, EndedOK, ChangeOK
  <1> QED
    BY <1>3, <1>4 DEF Cut

LEMMA ForgetOK ==
  ASSUME TInv, NEW c \in Client, Forget(c)
  PROVE  TInv'
  <1>1. JobsOK(job') /\ faults' \in 0 .. MaxFaults
    BY EndedOK, GoesOK DEF Forget
  <1>2. FileOK'
    <2>1. exists' = FALSE /\ handles' = << >> /\ size' = 0 /\ UNCHANGED <<running, located, data, copies>>
      BY DEF Forget
    <2>2. handles' \in Seq(Handle)
      BY <2>1
    <2>3. size' \in 0 .. Word - 1
      BY <2>1, FileOpsAssumption
    <2> QED
      BY <1>1, <2>1, <2>2, <2>3 DEF TInv, FileOK
  <1> QED
    BY <1>1, <1>2 DEF TInv, JobsOK

-----------------------------------------------------------------------------
LEMMA TInvInit == Init => TInv
  <1> SUFFICES ASSUME Init PROVE TInv
    OBVIOUS
  <1>1. FileOK
    <2>1. DOMAIN data = {} /\ handles \in Seq(Handle)
      BY DEF Init
    <2>2. size \in 0 .. Word - 1 /\ faults \in 0 .. MaxFaults
      BY FileOpsAssumption DEF Init
    <2>3. /\ IsFiniteSet(DOMAIN data) /\ IsFiniteSet(located) /\ located \subseteq Handle
          /\ IsFiniteSet(copies) /\ copies \subseteq Handle
      BY <2>1, FS_EmptySet DEF Init
    <2>4. running \in BOOLEAN /\ exists \in BOOLEAN
      BY DEF Init
    <2> QED
      BY <2>1, <2>2, <2>3, <2>4 DEF FileOK
  <1>2. JobsOK(job)
    BY IdleOK DEF Init, JobsOK
  <1> QED
    BY <1>1, <1>2 DEF TInv

LEMMA TInvNext == TInv /\ [Next]_vars => TInv'
  <1> SUFFICES ASSUME TInv, [Next]_vars PROVE TInv'
    OBVIOUS
  <1>1. CASE UNCHANGED vars
    BY <1>1 DEF vars, TInv, FileOK, JobsOK
  <1>2. CASE Next
    <2>1. PICK c \in Client : Step(c)
      BY <1>2 DEF Next
    <2>2. CASE \E r \in Requests(c) : Invoke(c, r)
      BY <2>2, InvokeOK
    <2>3. CASE NotFound(c)
      BY <2>3, EndsOK DEF NotFound
    <2>4. CASE NoAnswer(c)
      BY <2>4, NoAnswerOK
    <2>5. CASE Create(c)
      BY <2>5, CreateOK
    <2>6. CASE PlanWrite(c) \/ PlanAppend(c)
      BY <2>6, PlanWriteOK
    <2>7. CASE PlanDeleteRange(c) \/ PlanTruncate(c) \/ PlanInsert(c)
      BY <2>7, PlanDeleteRangeOK, PlanTruncateOK, PlanInsertOK
    <2>8. CASE \E hs \in Lists(c) : OpenForInsert(c, hs) \/ OpenForDelete(c, hs) \/ OpenForRead(c, hs)
      BY <2>8, OpenForInsertOK, OpenForDeleteOK, OpenForReadOK
    <2>13. CASE OpenFile(c) \/ RemoveReplicas(c)
      BY <2>13, OpenFileOK, RemoveReplicasOK
    <2>9. CASE \E i \in DOMAIN job[c].reads : ReadChunk(c, i)
      BY <2>9, ReadChunkOK
    <2>10. CASE \E i \in DOMAIN job[c].calls : StoreOne(c, i)
      BY <2>10, StoreOneOK
    <2>11. CASE RemoveChunk(c) \/ RemoveUnreported(c)
      BY <2>11, RemoveChunkOK
    <2>12. CASE Allocate(c) \/ Rewrite(c) \/ Cut(c) \/ Forget(c)
      BY <2>12, AllocateOK, RewriteOK, CutOK, ForgetOK
    <2> QED
      BY <2>1, <2>2, <2>3, <2>4, <2>5, <2>6, <2>7, <2>8, <2>9, <2>10, <2>11, <2>12, <2>13 DEF Step
  <1> QED
    BY <1>1, <1>2

\* TypeCorrect: for any clients, data, chunk size and number of failures, the file and
\* every call keep their types (client.go, metadata.go): handles are handles, chunks have
\* 1 .. ChunkSize bytes, and a call has what its next step uses.
THEOREM TypeCorrect == Spec => []TypeOK
  <1>1. TInv => TypeOK
    <2> SUFFICES ASSUME TInv PROVE TypeOK
      OBVIOUS
    <2>1. \A c \in Client : DOMAIN job[c] = DOMAIN Idle
      BY DEF TInv, JobsOK, JobOK, JobTyped
    <2> QED
      BY <2>1 DEF TInv, FileOK, TypeOK, Handle
  <1> QED
    BY <1>1, TInvInit, TInvNext, PTL DEF Spec

-----------------------------------------------------------------------------
(***************************************************************************)
(* What the size of a sound file says about its chunks.                    *)
(***************************************************************************)
Parts == [i \in DOMAIN handles |-> Chunk(handles[i])]

LEMMA CompactParts ==
  ASSUME TInv, Compact, handles # << >>
  PROVE  /\ Parts \in Seq(Seq(Byte)) /\ Len(Parts) = Len(handles) /\ Parts # << >> /\ FullButLast(Parts)
         /\ \A i \in 1 .. Len(handles) : Holds(handles[i]) /\ Parts[i] = data[handles[i]]
         /\ BytesOf(handles) = FlattenSeq(Parts)
         /\ size \in Nat /\ size = Len(FlattenSeq(Parts))
         /\ Len(handles) \in Nat \ {0}
         /\ (Len(handles) - 1) * ChunkSize < size /\ size <= Len(handles) * ChunkSize
  <1> DEFINE n == Len(handles)
  <1>1. handles \in Seq(Handle) /\ n \in Nat \ {0} /\ DOMAIN handles = 1 .. n
    BY EmptySeq DEF TInv, FileOK
  <1>2. \A i \in 1 .. n : Parts[i] \in Seq(Byte) /\ Parts[i] = Chunk(handles[i])
    BY <1>1, ChunkIsSeq DEF Parts
  <1>3. Parts \in [1 .. n -> Seq(Byte)]
    BY <1>1, <1>2 DEF Parts
  <1>4. Parts \in Seq(Seq(Byte)) /\ Len(Parts) = n /\ Parts # << >>
    BY <1>1, <1>3
  <1>5. \A i \in 1 .. n : Holds(handles[i]) /\ Parts[i] = data[handles[i]]
    BY <1>1, <1>2 DEF Compact, Chunk
  <1>6. \A i \in 1 .. n - 1 : Len(Parts[i]) = ChunkSize
    BY <1>1, <1>5 DEF Compact
  <1>7. Len(Parts[n]) \in 1 .. ChunkSize
    BY <1>1, <1>5 DEF Compact
  <1>8. FullButLast(Parts)
    BY <1>4, <1>6, <1>7 DEF FullButLast
  <1>9. BytesOf(handles) = FlattenSeq(Parts)
    BY DEF BytesOf, Parts
  <1>10. size = (n - 1) * ChunkSize + Len(Parts[n])
    BY <1>4, <1>8, <1>9, FlattenLength DEF Compact
  <1>11. (n - 1) * ChunkSize \in Nat /\ n * ChunkSize = (n - 1) * ChunkSize + ChunkSize
    BY <1>1, ChunkSizeAssumption
  <1>12. size \in Nat /\ (n - 1) * ChunkSize < size /\ size <= n * ChunkSize
    <2> DEFINE a == (n - 1) * ChunkSize
               b == n * ChunkSize
               l == Len(Parts[n])
    <2>1. a \in Nat /\ b = a + ChunkSize /\ size = a + l /\ l \in 1 .. ChunkSize
      BY <1>7, <1>10, <1>11
    <2> HIDE DEF a, b, l
    <2>2. size \in Nat /\ a < size /\ size <= b
      BY <2>1, ChunkSizeAssumption
    <2> QED
      BY <2>2 DEF a, b
  <1>13. size = Len(FlattenSeq(Parts))
    BY <1>9 DEF Compact
  <1> QED
    BY <1>1, <1>4, <1>5, <1>8, <1>9, <1>12, <1>13

LEMMA WithinList ==
  ASSUME TInv, Compact, handles # << >>, NEW off \in Nat, off < size
  PROVE  ChunkOf(off) < Len(handles)
  <1> DEFINE n == Len(handles)
             q == ChunkOf(off)
  <1>1. n \in Nat /\ size \in Nat /\ size <= n * ChunkSize
    BY CompactParts
  <1>2. q \in Nat /\ q * ChunkSize \in Nat /\ q * ChunkSize <= off
    BY ChunkBounds
  <1> HIDE DEF n, q
  <1>3. q * ChunkSize < n * ChunkSize
    BY <1>1, <1>2, ChunkSizeAssumption
  <1>4. q < n
    BY <1>1, <1>2, <1>3, ChunkSizeAssumption
  <1> QED
    BY <1>4 DEF n, q

LEMMA OnlyPlannersPanic ==
  ASSUME NEW c \in Client, Step(c), ~running'
  PROVE  running /\ (PlanDeleteRange(c) \/ PlanInsert(c))
  <1>1. running
    BY DEF Step, At, Plans, Invoke, NotFound, NoAnswer, Create, PlanWrite, PlanAppend, PlanDeleteRange,
           PlanTruncate, PlanInsert, OpenFile, Opens, OpenForInsert, OpenForDelete, OpenForRead,
           ReadChunk, StoreOne, RemoveReplicas, RemoveChunk, RemoveUnreported, Allocate, Rewrite, Cut, Forget
  <1>2. \A reply : EndsWith(c, reply) => running' = running
    BY DEF EndsWith
  <1>3. ~(\E r \in Requests(c) : Invoke(c, r)) /\ ~NotFound(c) /\ ~NoAnswer(c) /\ ~Create(c)
    BY <1>1, <1>2 DEF Invoke, NotFound, NoAnswer, Create
  <1>4. ~PlanWrite(c) /\ ~PlanAppend(c)
    BY <1>1 DEF PlanWrite, PlanAppend, PlanStores
  <1>5. /\ ~PlanTruncate(c) /\ ~OpenFile(c)
        /\ ~\E hs \in Lists(c) : OpenForInsert(c, hs) \/ OpenForDelete(c, hs) \/ OpenForRead(c, hs)
    BY <1>1, <1>2 DEF PlanTruncate, OpenFile, OpenForInsert, OpenForDelete, OpenForRead
  <1>6. ~(\E i \in DOMAIN job[c].reads : ReadChunk(c, i))
    BY <1>1, <1>2 DEF ReadChunk
  <1>7. ~(\E i \in DOMAIN job[c].calls : StoreOne(c, i)) /\ ~Rewrite(c) /\ ~Cut(c)
    BY <1>1, <1>2 DEF StoreOne, Rewrite, Cut, WriteChunk, Change
  <1>8. ~RemoveReplicas(c) /\ ~RemoveChunk(c) /\ ~RemoveUnreported(c) /\ ~Allocate(c) /\ ~Forget(c)
    BY <1>1, <1>2 DEF RemoveReplicas, RemoveChunk, RemoveUnreported, Allocate, Forget
  <1>9. PlanDeleteRange(c) \/ PlanInsert(c)
    BY <1>3, <1>4, <1>5, <1>6, <1>7, <1>8 DEF Step
  <1> QED
    BY <1>1, <1>9

\* MasterSurvives: in any history of calls, failed ones included, of any number of
\* clients, the planners of DeleteRange and Insert (metadata.go:294-345, 487-514) index
\* the list of chunks out of range only for a file that is empty or whose size and
\* chunks do not fit together.
THEOREM PlansStayInRange == Spec => MasterSurvives
  <1>1. TInv /\ [Next]_vars => [~running' => ~Compact \/ handles = << >>]_vars
    <2> SUFFICES ASSUME TInv, Next, ~running', Compact, handles # << >> PROVE FALSE
      OBVIOUS
    <2>1. PICK c \in Client : Step(c)
      BY DEF Next
    <2>2. running /\ (PlanDeleteRange(c) \/ PlanInsert(c))
      BY <2>1, OnlyPlannersPanic
    <2>3. size \in Nat \ {0}
      <3>1. size \in Nat /\ Len(handles) \in Nat \ {0} /\ (Len(handles) - 1) * ChunkSize < size
        BY CompactParts
      <3>2. (Len(handles) - 1) * ChunkSize \in Nat
        BY <3>1, ChunkSizeAssumption
      <3> QED
        BY <3>1, <3>2
    <2>4. CASE PlanDeleteRange(c)
      <3> DEFINE off == job[c].req.off
                 n == job[c].req.n
                 end == RangeEnd(c)
      <3>1. off \in Nat /\ n \in Nat \ {0} /\ Len(handles) \in Nat
        BY <2>4, DeleteRangeCases
      <3>2. off <= size /\ (end = 0 \/ LastChunk(end) >= Len(handles))
        <4>1. ~EndsWith(c, "error") /\ ~EndsWith(c, "ok") /\ ~Becomes(c, Ranged(c))
          BY <2>2 DEF EndsWith, Becomes
        <4> QED
          BY <2>4, <4>1, DeleteRangeCases
      <3>3. end = off + Smaller(n, size - off)
        BY DEF RangeEnd
      <3> HIDE DEF off, n, end
      <3>4. end \in Nat \ {0} /\ end <= size
        BY <2>3, <3>1, <3>2, <3>3 DEF Smaller
      <3>5. LastChunk(end) < Len(handles)
        <4>1. end - 1 \in Nat /\ end - 1 < size
          BY <2>3, <3>4
        <4> QED
          BY <4>1, WithinList DEF LastChunk
      <3>6. LastChunk(end) \in Nat
        <4>1. end - 1 \in Nat
          BY <3>4
        <4> QED
          BY <4>1, ChunkOfOffset DEF LastChunk
      <3> QED
        BY <3>1, <3>2, <3>4, <3>5, <3>6
    <2>5. CASE PlanInsert(c)
      <3> DEFINE off == job[c].req.off
      <3>1. off \in Nat /\ Len(handles) \in Nat /\ ChunkOf(off) \in Nat
        BY <2>5, InsertCases
      <3>2. off < size /\ ChunkOf(off) >= Len(handles)
        <4>1. ~EndsWith(c, "error") /\ ~Becomes(c, Started(c)) /\ ~NoLocation(c)
          BY <2>2 DEF EndsWith, Becomes, NoLocation
        <4> QED
          BY <2>5, <4>1, InsertCases
      <3> HIDE DEF off
      <3>3. ChunkOf(off) < Len(handles)
        BY <3>1, <3>2, WithinList
      <3> QED
        BY <3>1, <3>2, <3>3
    <2> QED
      BY <2>2, <2>4, <2>5
  <1> QED
    BY <1>1, TInvInit, TInvNext, PTL DEF Spec, MasterSurvives

-----------------------------------------------------------------------------
(***************************************************************************)
(* No chunk is orphaned: what a call must know of the file's list.         *)
(***************************************************************************)
OnlyReads(j) == j.pc = "idle" \/ (j.pc \in {"plan", "list", "read"} /\ j.req.op = "read")

\* The replicas' files that a Delete must find: all, until a call fails.
Sure == IF faults = 0 THEN copies ELSE {}

\* The chunks that call j has yet to write are in the list hs, and the one whose
\* replicas it has asked is not in cs.
Listed(hs, cs, j) ==
  /\ j.pc \in {"plan", "open", "append", "list", "read"} => j.new = << >> /\ ~j.gone
  /\ j.pc = "list" => j.list = Singletons(hs)
  /\ j.pc = "remove" => j.new = << >> /\ (j.gone => Head(j.old) \notin cs)
  /\ j.pc \in {"store", "rewrite"} => \A i \in DOMAIN j.calls : j.calls[i].h \in ToSet(hs)
  /\ j.pc = "allocate" => ToSet(j.new) \subseteq ToSet(hs)
  /\ j.pc = "remove" /\ j.req.op = "delete" => hs = j.old
  /\ j.pc = "forget" => hs = << >>

OInv ==
  /\ NoOrphans
  /\ ~exists => handles = << >>
  /\ \A c \in Client \ {Writer} : OnlyReads(job[c])
  /\ job[Writer].pc \notin {"idle", "plan"} => exists
  /\ Listed(handles, Sure, job[Writer])

LEMMA ListedFewer ==
  ASSUME NEW hs, NEW cs, NEW ds, ds \subseteq cs, NEW j, Listed(hs, cs, j)
  PROVE  Listed(hs, ds, j)
  BY DEF Listed

LEMMA ListedEnded ==
  ASSUME NEW hs, NEW cs, NEW j, NEW reply
  PROVE  Listed(hs, cs, Ended(j, reply)) /\ Ended(j, reply).pc = "idle"
  <1>1. Ended(j, reply).pc = "idle"
    BY DEF Ended, Idle
  <1> QED
    BY <1>1 DEF Listed

LEMMA ListedAfterStores ==
  ASSUME NEW hs, NEW cs, NEW j, j.pc \in {"store", "rewrite"}, \A i \in DOMAIN j.calls : j.calls[i].h \in ToSet(hs)
  PROVE  Listed(hs, cs, AfterStores(j))
  BY ListedEnded DEF AfterStores, Listed

LEMMA ListedAfterAllocation ==
  ASSUME NEW hs, NEW cs, NEW j, JobTyped(j), j.pc = "allocate", ToSet(j.new) \subseteq ToSet(hs)
  PROVE  Listed(hs, cs, AfterAllocation(j))
  <1> DEFINE calls == IF j.buffer = << >> THEN << >> ELSE Pieces(0, j.buffer, j.new)
             k == [Idle EXCEPT !.pc = "rewrite", !.req = j.req, !.before = j.before, !.calls = calls]
  <1>1. CASE Len(j.new) * ChunkSize >= Len(j.buffer)
    <2>1. \A i \in DOMAIN calls : calls[i].h \in ToSet(j.new)
      BY <1>1, AllocatedCalls DEF JobTyped
    <2>2. AfterAllocation(j) = AfterStores(k)
      BY <1>1 DEF AfterAllocation
    <2> HIDE DEF calls
    <2>3. k.pc = "rewrite" /\ k.calls = calls
      BY DEF Idle
    <2> HIDE DEF k
    <2> QED
      BY <2>1, <2>2, <2>3, ListedAfterStores
  <1>2. CASE ~(Len(j.new) * ChunkSize >= Len(j.buffer))
    <2>1. AfterAllocation(j) = j
      BY <1>2 DEF AfterAllocation
    <2> QED
      BY <2>1 DEF Listed
  <1> QED
    BY <1>1, <1>2

LEMMA ListedAfterRemoval ==
  ASSUME NEW hs, NEW cs, NEW j, JobTyped(j), j.pc = "remove", j.req.op \in RemovalOps,
         j.new = << >>, ~j.gone,
         j.req.op = "delete" => hs = j.old
  PROVE  Listed(hs, cs, AfterRemoval(j))
  <1>1. CASE j.old # << >>
    <2>1. AfterRemoval(j) = j
      BY <1>1 DEF AfterRemoval
    <2> QED
      BY <2>1 DEF Listed
  <1>2. CASE j.old = << >>
    <2>1. ASSUME NEW pc
          PROVE  SameParts(j, [j EXCEPT !.pc = pc]) /\ [j EXCEPT !.pc = pc].pc = pc
      BY DEF SameParts, JobTyped, Idle
    <2>2. CASE j.req.op \in {"deleteRange", "insert"}
      <3> DEFINE k == [j EXCEPT !.pc = "allocate"]
      <3>1. AfterRemoval(j) = AfterAllocation(k)
        BY <1>2, <2>2 DEF AfterRemoval
      <3>2. SameParts(j, k) /\ k.pc = "allocate"
        BY <2>1
      <3> HIDE DEF k
      <3>3. JobTyped(k) /\ ToSet(k.new) = {}
        BY <3>2, SamePartsTyped DEF SameParts, ToSet
      <3> QED
        BY <3>1, <3>2, <3>3, ListedAfterAllocation
    <2>3. CASE j.req.op = "truncate" /\ j.cut # << >>
      <3>1. AfterRemoval(j) = [j EXCEPT !.pc = "cut"]
        BY <1>2, <2>3 DEF AfterRemoval
      <3> QED
        BY <2>1, <3>1 DEF Listed
    <2>4. CASE j.req.op = "truncate" /\ j.cut = << >>
      <3>1. AfterRemoval(j) = Ended(j, "panic")
        BY <1>2, <2>4 DEF AfterRemoval
      <3> QED
        BY <3>1, ListedEnded
    <2>5. CASE j.req.op = "delete"
      <3>1. AfterRemoval(j) = [j EXCEPT !.pc = "forget"]
        BY <1>2, <2>5 DEF AfterRemoval
      <3> QED
        BY <1>2, <2>1, <2>5, <3>1 DEF Listed
    <2> QED
      BY <2>2, <2>3, <2>4, <2>5 DEF RemovalOps
  <1> QED
    BY <1>1, <1>2

LEMMA ListedAfterReads ==
  ASSUME NEW hs, NEW cs, NEW j, JobTyped(j), j.pc = "read", j.req.op \in {"read", "deleteRange", "insert"},
         RequestOK(j.req), j.req.op # "read" => j.reads \in Seq(ReadPart) /\ j.reads # << >>,
         j.new = << >>, ~j.gone
  PROVE  Listed(hs, cs, AfterReads(j))
  <1>1. CASE DOMAIN j.got # DOMAIN j.reads
    <2>1. AfterReads(j) = j
      BY <1>1 DEF AfterReads
    <2> QED
      BY <2>1 DEF Listed
  <1>2. CASE DOMAIN j.got = DOMAIN j.reads /\ j.req.op = "read"
    <2>1. AfterReads(j) = Ended(j, Answer(j))
      BY <1>2 DEF AfterReads
    <2> QED
      BY <2>1, ListedEnded
  <1>3. CASE DOMAIN j.got = DOMAIN j.reads /\ j.req.op \in {"deleteRange", "insert"}
    <2>1. \/ AfterReads(j) = Ended(j, "error")
          \/ \E bytes \in Seq(Byte) : AfterReads(j) = AfterRemoval(Rebuilt(j, bytes))
      BY <1>3, RebuiltOrEnded
    <2>2. ASSUME NEW bytes \in Seq(Byte)
          PROVE  Listed(hs, cs, AfterRemoval(Rebuilt(j, bytes)))
      <3> DEFINE k == Rebuilt(j, bytes)
      <3>1. /\ JobTyped(k) /\ k.pc = "remove" /\ k.req = j.req /\ k.new = j.new /\ k.gone = j.gone
        BY RebuiltOK
      <3> HIDE DEF k
      <3>2. Listed(hs, cs, AfterRemoval(k))
        BY <1>3, <3>1, ListedAfterRemoval DEF RemovalOps
      <3> QED
        BY <3>2 DEF k
    <2> QED
      BY <2>1, <2>2, ListedEnded
  <1> QED
    BY <1>1, <1>2, <1>3

\* What a step of one client leaves of the calls of the others.
SameCall(j, k) == SameParts(j, k) /\ k.pc = j.pc /\ k.req = j.req

OthersSame(c) == \A d \in Client \ {c} : SameCall(job[d], job'[d])

\* The Master may change the list that another call is looking at.
OthersStay(c) == \A d \in Client \ {c} : job'[d].pc = job[d].pc /\ job'[d].req = job[d].req

FaultsGrow == faults' \in {faults, faults + 1}

LEMMA OthersSameStay ==
  ASSUME NEW c, OthersSame(c)
  PROVE  OthersStay(c)
  BY DEF OthersSame, OthersStay, SameCall

LEMMA SureStays ==
  ASSUME TInv, UNCHANGED copies, FaultsGrow
  PROVE  Sure' \subseteq Sure
  <1>1. faults \in Nat
    BY FileOpsAssumption DEF TInv, FileOK
  <1> QED
    BY <1>1 DEF Sure, FaultsGrow

LEMMA SameCallReflexive ==
  ASSUME TInv, NEW d \in Client
  PROVE  SameCall(job[d], job[d])
  BY JobOKNow DEF SameCall, SameParts, JobTyped

LEMMA OneJobChanges ==
  ASSUME TInv, NEW c \in Client, NEW k, job' = [job EXCEPT ![c] = k]
  PROVE  job'[c] = k /\ OthersSame(c)
  <1>1. job = [d \in Client |-> job[d]]
    BY DEF TInv, JobsOK
  <1>2. job'[c] = k /\ \A d \in Client \ {c} : job'[d] = job[d]
    BY <1>1
  <1> QED
    BY <1>2, SameCallReflexive DEF OthersSame

LEMMA GoesChanges ==
  ASSUME TInv, NEW c \in Client, NEW j, Goes(c, j)
  PROVE  (job'[c] = j \/ job'[c] = Ended(job[c], "error")) /\ OthersSame(c) /\ FaultsGrow
  <1>1. job' = [job EXCEPT ![c] = j] \/ job' = [job EXCEPT ![c] = Ended(job[c], "error")]
    BY DEF Goes, GoesOr
  <1>2. FaultsGrow
    BY DEF Goes, GoesOr, FaultsGrow
  <1> QED
    BY <1>1, <1>2, OneJobChanges

LEMMA ShiftedSame ==
  ASSUME TInv, NEW hs
  PROVE  /\ Shifted(hs) = [d \in Client |-> Shifted(hs)[d]]
         /\ \A d \in Client : Shifted(hs)[d].pc = job[d].pc /\ Shifted(hs)[d].req = job[d].req
  <1> DEFINE list(d) == [i \in DOMAIN job[d].list |->
               job[d].list[i] \cup {hs[k] : k \in {i} \cap DOMAIN hs}]
             n(d) == [job[d] EXCEPT !.list = list(d)]
  <1>1. Shifted(hs) = [d \in Client |-> n(d)]
    BY DEF Shifted
  <1>2. ASSUME NEW d \in Client PROVE n(d).pc = job[d].pc /\ n(d).req = job[d].req
    <2>1. JobTyped(job[d])
      BY JobOKNow
    <2> HIDE DEF list
    <2> QED
      BY <2>1 DEF JobTyped, Idle
  <1> HIDE DEF n
  <1> QED
    BY <1>1, <1>2

LEMMA ShiftedChanges ==
  ASSUME TInv, NEW hs, NEW c \in Client, NEW j, NEW k, GoesOr(Shifted(hs), c, j, k)
  PROVE  (job'[c] = j \/ job'[c] = k) /\ OthersStay(c) /\ FaultsGrow
  <1> DEFINE n == Shifted(hs)
  <1>1. n = [d \in Client |-> n[d]]
    BY ShiftedSame
  <1>2. \A d \in Client : n[d].pc = job[d].pc /\ n[d].req = job[d].req
    BY ShiftedSame
  <1>3. job' = [n EXCEPT ![c] = j] \/ job' = [n EXCEPT ![c] = k]
    BY DEF GoesOr
  <1>4. FaultsGrow
    BY DEF GoesOr, FaultsGrow
  <1> HIDE DEF n
  <1>5. (job'[c] = j \/ job'[c] = k) /\ \A d \in Client \ {c} : job'[d] = n[d]
    BY <1>1, <1>3
  <1> QED
    BY <1>2, <1>4, <1>5 DEF OthersStay

LEMMA NotedSame ==
  ASSUME TInv, NEW h, NEW bytes
  PROVE  /\ Noted(h, bytes) = [d \in Client |-> Noted(h, bytes)[d]]
         /\ \A d \in Client : SameCall(job[d], Noted(h, bytes)[d])
  <1> DEFINE seen(c, p) == {bytes[k] : k \in {k \in DOMAIN bytes :
               k = ((p - 1) % ChunkSize) + 1 /\ job[c].reads[ChunkOf(p - 1) + 1].h = h}}
             may(c) == [p \in DOMAIN job[c].may |-> job[c].may[p] \cup seen(c, p)]
             n(c) == [job[c] EXCEPT !.may = may(c)]
  <1>1. Noted(h, bytes) = [c \in Client |-> n(c)]
    BY DEF Noted
  <1>2. ASSUME NEW c \in Client PROVE SameCall(job[c], n(c))
    <2>1. JobTyped(job[c])
      BY JobOKNow
    <2> HIDE DEF may
    <2> QED
      BY <2>1 DEF JobTyped, SameCall, SameParts, Idle
  <1> HIDE DEF n
  <1> QED
    BY <1>1, <1>2

LEMMA ChangeChanges ==
  ASSUME TInv, NEW c \in Client, NEW h, NEW bytes, NEW growth, NEW written, NEW j, NEW k,
         Change(c, h, bytes, growth, written, j, k)
  PROVE  /\ (job'[c] = j \/ job'[c] = k) /\ OthersSame(c)
         /\ DOMAIN data' = DOMAIN data \cup {h}
         /\ Sure' \subseteq Sure \cup written
         /\ UNCHANGED <<exists, handles>>
  <1> DEFINE n == Noted(h, bytes)
  <1>1. n = [d \in Client |-> n[d]] /\ \A d \in Client : SameCall(job[d], n[d])
    BY NotedSame
  <1>2. job' = [n EXCEPT ![c] = j] \/ job' = [n EXCEPT ![c] = k]
    BY DEF Change, GoesOr
  <1> HIDE DEF n
  <1>3. (job'[c] = j \/ job'[c] = k) /\ \A d \in Client \ {c} : job'[d] = n[d]
    BY <1>1, <1>2
  <1>4. DOMAIN data' = DOMAIN data \cup {h} /\ UNCHANGED <<exists, handles>>
    BY DEF Change, WithBytes
  <1>5. Sure' \subseteq Sure \cup written
    <2>1. faults \in Nat
      BY FileOpsAssumption DEF TInv, FileOK
    <2>2. \/ copies' = copies \cup written /\ faults' \in {faults, faults + 1}
          \/ faults' = faults + 1
      BY DEF Change, GoesOr
    <2> QED
      BY <2>1, <2>2 DEF Sure
  <1> QED
    BY <1>1, <1>3, <1>4, <1>5 DEF OthersSame

\* What a step of the writer has to show.
LEMMA WriterKeeps ==
  ASSUME OInv, OthersStay(Writer), DOMAIN data' \subseteq ToSet(handles'),
         Sure' \subseteq ToSet(handles'), ~exists' => handles' = << >>,
         job'[Writer].pc \notin {"idle", "plan"} => exists',
         Listed(handles', Sure', job'[Writer])
  PROVE  OInv'
  <1>1. \A c \in Client \ {Writer} : OnlyReads(job'[c])
    BY DEF OInv, OthersStay, OnlyReads
  <1>2. NoOrphans'
    BY DEF NoOrphans, Sure
  <1> QED
    BY <1>1, <1>2 DEF OInv

\* What a step of a reader has to show.
LEMMA ReaderKeeps ==
  ASSUME TInv, OInv, NEW c \in Client \ {Writer}, OthersSame(c), UNCHANGED file, FaultsGrow,
         OnlyReads(job'[c])
  PROVE  OInv'
  <1>1. \A d \in Client \ {Writer} : OnlyReads(job'[d])
    BY DEF OInv, OthersSame, SameCall, OnlyReads
  <1>2. SameCall(job[Writer], job'[Writer])
    BY FileOpsAssumption DEF OthersSame
  <1>3. Sure' \subseteq Sure
    BY SureStays DEF file
  <1>4. Listed(handles', Sure', job'[Writer])
    <2>1. Listed(handles, Sure, job'[Writer])
      BY <1>2 DEF OInv, SameCall, SameParts, Listed
    <2> QED
      BY <1>3, <2>1, ListedFewer DEF file
  <1>5. NoOrphans'
    BY <1>3 DEF OInv, NoOrphans, Sure, file
  <1>6. (~exists => handles = << >>)' /\ (job[Writer].pc \notin {"idle", "plan"} => exists)'
    BY <1>2 DEF OInv, SameCall, file
  <1> QED
    BY <1>1, <1>4, <1>5, <1>6 DEF OInv

-----------------------------------------------------------------------------
(***************************************************************************)
(* The steps of the client that writes.                                    *)
(***************************************************************************)
LEMMA OneEnds ==
  ASSUME TInv, NEW c \in Client, NEW reply, EndsWith(c, reply)
  PROVE  job'[c] = Ended(job[c], reply) /\ OthersSame(c) /\ UNCHANGED file /\ FaultsGrow
  BY OneJobChanges DEF EndsWith, FaultsGrow

LEMMA WriterBecomes ==
  ASSUME TInv, OInv, NEW k, job' = [job EXCEPT ![Writer] = k], UNCHANGED file, FaultsGrow,
         Listed(handles, Sure, k), k.pc \notin {"idle", "plan"} => exists
  PROVE  OInv'
  <1>1. job'[Writer] = k /\ OthersStay(Writer)
    BY FileOpsAssumption, OneJobChanges, OthersSameStay
  <1>2. Sure' \subseteq Sure
    BY SureStays DEF file
  <1>3. Listed(handles', Sure', job'[Writer])
    BY <1>1, <1>2, ListedFewer DEF file
  <1>4. Sure' \subseteq ToSet(handles') /\ DOMAIN data' \subseteq ToSet(handles')
    BY <1>2 DEF OInv, NoOrphans, Sure, file
  <1>5. (~exists => handles = << >>)' /\ (k.pc \notin {"idle", "plan"} => exists')
    BY DEF OInv, file
  <1> QED
    BY <1>1, <1>3, <1>4, <1>5, WriterKeeps

LEMMA WriterEnds ==
  ASSUME TInv, OInv, NEW reply, EndsWith(Writer, reply)
  PROVE  OInv'
  BY ListedEnded, WriterBecomes DEF EndsWith, FaultsGrow

LEMMA ListsCalls ==
  ASSUME NEW hs, NEW s, NEW t, ToSet(t) \subseteq ToSet(s), \A i \in DOMAIN s : s[i].h \in ToSet(hs)
  PROVE  \A i \in DOMAIN t : t[i].h \in ToSet(hs)
  BY DEF ToSet

LEMMA OInvInit == Init => OInv
  <1> SUFFICES ASSUME Init PROVE OInv
    OBVIOUS
  <1>1. \A c \in Client : job[c].pc = "idle"
    BY DEF Init, Idle
  <1>2. DOMAIN data = {} /\ copies = {} /\ handles = << >>
    BY DEF Init
  <1> QED
    BY <1>1, <1>2, FileOpsAssumption DEF OInv, NoOrphans, OnlyReads, Listed

LEMMA WriterInvokes ==
  ASSUME TInv, OInv, NEW r, Invoke(Writer, r)
  PROVE  OInv'
  <1> DEFINE n(d) == job[d].met + IF Reading(d) THEN 1 ELSE 0
             k(d) == [job[d] EXCEPT !.met = n(d)]
             w == [Idle EXCEPT !.pc = "plan", !.req = r, !.before = <<State>>]
  <1>1. Writer \in Client
    BY FileOpsAssumption
  <1>2. /\ job' = [d \in Client |-> IF d = Writer THEN w ELSE k(d)]
        /\ UNCHANGED <<exists, handles, data, copies, faults>>
    BY DEF Invoke, file
  <1> HIDE DEF n
  <1>3. ASSUME NEW d \in Client PROVE SameCall(job[d], k(d))
    <2>1. JobTyped(job[d])
      BY JobOKNow
    <2> QED
      BY <2>1 DEF JobTyped, SameCall, SameParts, Idle
  <1>4. w.pc = "plan" /\ w.new = << >> /\ ~w.gone
    BY DEF Idle
  <1> HIDE DEF k, w
  <1>5. job'[Writer] = w /\ OthersStay(Writer)
    BY <1>1, <1>2, <1>3, OthersSameStay DEF OthersSame
  <1>6. Listed(handles', Sure', w)
    BY <1>4 DEF Listed
  <1> QED
    BY <1>2, <1>4, <1>5, <1>6, WriterKeeps DEF OInv, NoOrphans, Sure

LEMMA WriterFails ==
  ASSUME TInv, OInv, NotFound(Writer) \/ NoAnswer(Writer)
  PROVE  OInv'
  <1>1. CASE NotFound(Writer)
    BY <1>1, WriterEnds DEF NotFound
  <1>2. CASE NoAnswer(Writer)
    <2>1. /\ job' = [job EXCEPT ![Writer] = Ended(job[Writer], "error")]
          /\ UNCHANGED file /\ FaultsGrow
      BY <1>2 DEF NoAnswer, FaultsGrow
    <2> QED
      BY <2>1, ListedEnded, WriterBecomes
  <1> QED
    BY <1>1, <1>2

LEMMA WriterCreates ==
  ASSUME TInv, OInv, Create(Writer)
  PROVE  OInv'
  <1>1. CASE exists
    BY <1>1, WriterEnds DEF Create
  <1>2. CASE ~exists
    <2>1. /\ exists' = TRUE /\ handles' = << >> /\ UNCHANGED data /\ UNCHANGED copies
          /\ Goes(Writer, Ended(job[Writer], "ok"))
      BY <1>2 DEF Create
    <2>2. OthersStay(Writer) /\ FaultsGrow /\ \E reply : job'[Writer] = Ended(job[Writer], reply)
      BY <2>1, GoesChanges, OthersSameStay, FileOpsAssumption
    <2>4. Sure' \subseteq Sure
      BY <2>1, <2>2, SureStays
    <2>3. DOMAIN data' \subseteq ToSet(handles') /\ Sure' \subseteq ToSet(handles')
      BY <1>2, <2>1, <2>4 DEF OInv, NoOrphans, Sure
    <2> QED
      BY <2>1, <2>2, <2>3, ListedEnded, WriterKeeps
  <1> QED
    BY <1>1, <1>2

LEMMA WriterForgets ==
  ASSUME TInv, OInv, Forget(Writer)
  PROVE  OInv'
  <1>1. /\ handles' = << >> /\ UNCHANGED data /\ UNCHANGED copies
        /\ Goes(Writer, Ended(job[Writer], "ok"))
    BY DEF Forget
  <1>2. OthersStay(Writer) /\ FaultsGrow /\ \E reply : job'[Writer] = Ended(job[Writer], reply)
    BY <1>1, GoesChanges, OthersSameStay, FileOpsAssumption
  <1>4. Sure' \subseteq Sure
    BY <1>1, <1>2, SureStays
  <1>3. DOMAIN data' \subseteq ToSet(handles') /\ Sure' \subseteq ToSet(handles')
    BY <1>1, <1>4 DEF OInv, NoOrphans, Sure, Listed, Forget, At
  <1> QED
    BY <1>1, <1>2, <1>3, ListedEnded, WriterKeeps

LEMMA WriterPlansStores ==
  ASSUME TInv, OInv, NEW off \in Nat, job[Writer].pc # "idle",
         job[Writer].req.op \in {"write", "append", "insert"}, PlanStores(Writer, off)
  PROVE  OInv'
  <1> DEFINE d == job[Writer].req.bytes
             last == ChunkOf(off + Len(d) - 1)
             n == Greater(0, last + 1 - Len(handles))
             hs == handles \o Fresh(n)
             mine == SubSeq(hs, ChunkOf(off) + 1, last + 1)
             calls == Pieces(off, d, mine)
             k == [job[Writer] EXCEPT !.pc = "store", !.calls = calls]
  <1>1. Writer \in Client /\ JobTyped(job[Writer]) /\ RequestOK(job[Writer].req)
    BY JobOKNow, FileOpsAssumption DEF JobPlaced
  <1>2. d \in Seq(Byte) /\ d # << >> /\ Len(d) \in Nat \ {0}
    <2>1. d \in Seq(Byte) /\ d # << >>
      BY <1>1 DEF RequestOK
    <2> QED
      BY <2>1, EmptySeq
  <1>3. /\ exists /\ handles' = hs /\ UNCHANGED <<exists, data, copies>>
        /\ GoesOr(Shifted(hs), Writer, k, Ended(job[Writer], "error"))
    BY DEF PlanStores
  <1>4. last \in Nat /\ ChunkOf(off) \in Nat /\ ChunkOf(off) <= last
    <2> HIDE DEF d
    <2>1. off + Len(d) - 1 \in Nat /\ off <= off + Len(d) - 1
      BY <1>2
    <2> QED
      BY <2>1, ChunkOfOffset, ChunkOfMonotonic
  <1> HIDE DEF last, d
  <1>5. handles \in Seq(Handle) /\ Len(handles) \in Nat
    BY DEF TInv, FileOK
  <1>6. n \in Nat /\ n >= last + 1 - Len(handles)
    BY <1>4, <1>5 DEF Greater
  <1> HIDE DEF n
  <1>7. Fresh(n) \in Seq(Handle) /\ Len(Fresh(n)) = n
    BY <1>6, FreshOK
  <1>8. hs \in Seq(Handle) /\ Len(hs) = Len(handles) + n /\ ToSet(handles) \subseteq ToSet(hs)
    <2>1. hs \in Seq(Handle) /\ Len(hs) = Len(handles) + n /\ \A i \in 1 .. Len(handles) : hs[i] = handles[i]
      BY <1>5, <1>6, <1>7
    <2> HIDE DEF hs
    <2> QED
      BY <1>5, <1>6, <2>1 DEF ToSet
  <1> HIDE DEF hs
  <1>9. /\ mine \in Seq(Handle) /\ Len(mine) = last - ChunkOf(off) + 1
        /\ ToSet(mine) \subseteq ToSet(hs)
    <2>1. ChunkOf(off) + 1 \in 1 .. Len(hs) + 1 /\ last + 1 \in 0 .. Len(hs)
      BY <1>4, <1>5, <1>6, <1>8
    <2>2. /\ mine \in Seq(Handle) /\ Len(mine) = last - ChunkOf(off) + 1
          /\ \A i \in 1 .. last - ChunkOf(off) + 1 : mine[i] = hs[ChunkOf(off) + i]
      <3> DEFINE m == ChunkOf(off) + 1
                 l == last + 1
      <3>1. m \in Nat /\ l \in Nat /\ m <= l /\ last - ChunkOf(off) + 1 = l - m + 1
        BY <1>4
      <3>2. \A i \in 1 .. last - ChunkOf(off) + 1 : m + i - 1 = ChunkOf(off) + i
        BY <1>4
      <3> HIDE DEF m, l
      <3>3. /\ SubSeq(hs, m, l) \in Seq(Handle) /\ Len(SubSeq(hs, m, l)) = l - m + 1
            /\ \A i \in 1 .. l - m + 1 : SubSeq(hs, m, l)[i] = hs[m + i - 1]
        BY <1>8, <2>1, <3>1, SubSeqProperties DEF m, l
      <3> QED
        BY <3>1, <3>2, <3>3 DEF m, l
    <2> HIDE DEF mine
    <2>3. \A i \in 1 .. Len(mine) : ChunkOf(off) + i \in 1 .. Len(hs) /\ mine[i] = hs[ChunkOf(off) + i]
      BY <1>4, <1>8, <2>1, <2>2
    <2> QED
      BY <1>8, <2>2, <2>3 DEF ToSet
  <1> HIDE DEF mine
  <1>10. \A i \in DOMAIN calls : calls[i].h \in ToSet(hs)
    <2>1. ChunkOf(off + Len(d) - 1) - ChunkOf(off) + 1 <= Len(mine)
      BY <1>4, <1>9 DEF last
    <2>2. \A i \in DOMAIN calls : i \in DOMAIN mine /\ calls[i].h = mine[i]
      BY <1>2, <1>9, <2>1, PiecesOK
    <2> HIDE DEF calls
    <2> QED
      BY <1>9, <2>2 DEF ToSet
  <1> HIDE DEF calls
  <1>11. Listed(hs, Sure', k)
    <2>1. k.pc = "store" /\ k.calls = calls
      BY <1>1 DEF JobTyped, Idle
    <2> HIDE DEF k
    <2> QED
      BY <1>10, <2>1 DEF Listed
  <1> HIDE DEF k
  <1>12. OthersStay(Writer) /\ FaultsGrow /\ Listed(handles', Sure', job'[Writer])
    BY <1>1, <1>3, <1>11, ShiftedChanges, ListedEnded
  <1>14. Sure' \subseteq Sure
    BY <1>3, <1>12, SureStays
  <1>13. DOMAIN data' \subseteq ToSet(handles') /\ Sure' \subseteq ToSet(handles')
    BY <1>3, <1>8, <1>14 DEF OInv, NoOrphans, Sure
  <1> QED
    BY <1>3, <1>12, <1>13, WriterKeeps

LEMMA WriterPlansWrite ==
  ASSUME TInv, OInv, PlanWrite(Writer) \/ PlanAppend(Writer)
  PROVE  OInv'
  <1>1. CASE PlanWrite(Writer)
    <2>1. job[Writer].pc = "plan" /\ job[Writer].req.op = "write" /\ PlanStores(Writer, job[Writer].req.off)
      BY <1>1 DEF PlanWrite, Plans, At
    <2>2. job[Writer].req.off \in Nat
      BY <2>1, JobOKNow, FileOpsAssumption DEF JobPlaced, RequestOK
    <2> QED
      BY <2>1, <2>2, WriterPlansStores
  <1>2. CASE PlanAppend(Writer)
    <2>1. /\ \/ job[Writer].pc = "plan" /\ job[Writer].req.op = "append"
             \/ job[Writer].pc = "append" /\ job[Writer].req.op = "insert"
          /\ PlanStores(Writer, size)
      BY <1>2, JobOKNow, FileOpsAssumption DEF PlanAppend, Plans, At, JobPlaced
    <2>2. size \in Nat
      BY FileOpsAssumption DEF TInv, FileOK
    <2> QED
      BY <2>1, <2>2, WriterPlansStores
  <1> QED
    BY <1>1, <1>2

LEMMA MasterEnds ==
  ASSUME TInv, OInv, NEW c \in Client, MasterPanics(c)
  PROVE  OInv'
  BY DEF MasterPanics, file, OInv, NoOrphans, Listed, OnlyReads, Sure

LEMMA WriterPlansDeleteRange ==
  ASSUME TInv, OInv, PlanDeleteRange(Writer)
  PROVE  OInv'
  <1>1. Writer \in Client /\ JobTyped(job[Writer]) /\ Plans(Writer, "deleteRange") /\ exists
    BY JobOKNow, FileOpsAssumption DEF PlanDeleteRange
  <1>2. \/ EndsWith(Writer, "error") \/ EndsWith(Writer, "ok")
        \/ MasterPanics(Writer)
        \/ Becomes(Writer, Ranged(Writer))
    BY <1>1, DeleteRangeCases
  <1>3. CASE Becomes(Writer, Ranged(Writer))
    <2>1. Ranged(Writer).pc = "read" /\ Ranged(Writer).new = << >> /\ ~Ranged(Writer).gone
      BY <1>1 DEF Ranged, JobTyped, Idle, Plans, At, OInv, Listed
    <2>2. Listed(handles, Sure, Ranged(Writer))
      BY <2>1 DEF Listed
    <2> QED
      BY <1>1, <1>3, <2>2, WriterBecomes DEF Becomes, FaultsGrow
  <1> QED
    BY <1>1, <1>2, <1>3, WriterEnds, MasterEnds

LEMMA WriterPlansTruncate ==
  ASSUME TInv, OInv, PlanTruncate(Writer)
  PROVE  OInv'
  <1>1. Writer \in Client /\ job[Writer].pc = "plan" /\ job[Writer].req.op = "truncate" /\ exists
    BY FileOpsAssumption DEF PlanTruncate, Plans, At
  <1>2. ASSUME NEW old \in Seq(Handle), NEW cut \in Seq(CutPart),
               Becomes(Writer, AfterRemoval(Truncated(Writer, old, cut)))
        PROVE  OInv'
    <2> DEFINE k == Truncated(Writer, old, cut)
    <2>1. JobTyped(k) /\ k.pc = "remove" /\ k.req = job[Writer].req /\ k.new = << >> /\ ~k.gone
      BY <1>1, TruncatedOK DEF OInv, Listed
    <2> HIDE DEF k
    <2>2. Listed(handles, Sure, AfterRemoval(k))
      BY <1>1, <2>1, ListedAfterRemoval DEF RemovalOps
    <2> QED
      BY <1>1, <1>2, <2>2, WriterBecomes DEF Becomes, FaultsGrow, k
  <1> QED
    BY <1>1, <1>2, TruncateCases, WriterEnds

LEMMA WriterPlansInsert ==
  ASSUME TInv, OInv, PlanInsert(Writer)
  PROVE  OInv'
  <1>1. Writer \in Client /\ JobTyped(job[Writer]) /\ job[Writer].pc = "plan" /\ exists
    BY JobOKNow, FileOpsAssumption DEF PlanInsert, Plans, At
  <1>2. \/ EndsWith(Writer, "error") \/ MasterPanics(Writer)
        \/ Becomes(Writer, Started(Writer)) \/ NoLocation(Writer)
    BY <1>1, InsertCases
  <1>3. CASE Becomes(Writer, Started(Writer))
    <2>1. /\ Started(Writer).pc \in {"append", "open"}
          /\ Started(Writer).new = << >> /\ ~Started(Writer).gone
      BY <1>1 DEF Started, JobTyped, Idle, OInv, Listed
    <2>2. Listed(handles, Sure, Started(Writer))
      BY <2>1 DEF Listed
    <2> QED
      BY <1>1, <1>3, <2>2, WriterBecomes DEF Becomes, FaultsGrow
  <1>4. CASE NoLocation(Writer)
    <2> DEFINE k == [job[Writer] EXCEPT !.pc = "append"]
    <2>1. k.pc = "append" /\ k.new = << >> /\ ~k.gone
      BY <1>1 DEF JobTyped, Idle, OInv, Listed
    <2>2. job' = [job EXCEPT ![Writer] = k] /\ UNCHANGED file /\ FaultsGrow
      BY <1>4 DEF NoLocation, FaultsGrow
    <2> HIDE DEF k
    <2>3. Listed(handles, Sure, k)
      BY <2>1 DEF Listed
    <2> QED
      BY <1>1, <2>2, <2>3, WriterBecomes
  <1> QED
    BY <1>1, <1>2, <1>3, <1>4, WriterEnds, MasterEnds

LEMMA WriterOpensFile ==
  ASSUME TInv, OInv, OpenFile(Writer)
  PROVE  OInv'
  <1> DEFINE list == Singletons(handles)
             k == [job[Writer] EXCEPT !.pc = "list", !.size = size, !.list = list]
  <1>1. /\ job' = [job EXCEPT ![Writer] = k] /\ UNCHANGED file /\ FaultsGrow /\ exists
        /\ job[Writer].pc \in {"plan", "open"}
    BY DEF OpenFile, Singletons, FaultsGrow, Plans, At
  <1>2. JobTyped(job[Writer]) /\ job[Writer].new = << >> /\ ~job[Writer].gone
    BY <1>1, JobOKNow, FileOpsAssumption DEF OInv, Listed
  <1> HIDE DEF list
  <1>3. k.pc = "list" /\ k.list = list /\ k.new = << >> /\ ~k.gone
    BY <1>2 DEF JobTyped, Idle
  <1> HIDE DEF k
  <1>4. Listed(handles, Sure, k)
    BY <1>3 DEF Listed, list
  <1> QED
    BY <1>1, <1>4, WriterBecomes

\* No other call changes the list while the writer goes through it.
LEMMA WriterFindsTheList ==
  ASSUME TInv, OInv, NEW hs \in Lists(Writer), job[Writer].pc = "list"
  PROVE  hs = handles /\ job[Writer].new = << >> /\ ~job[Writer].gone /\ exists
  <1>1. /\ job[Writer].list = Singletons(handles) /\ job[Writer].new = << >>
        /\ ~job[Writer].gone /\ exists
    BY DEF OInv, Listed
  <1>2. handles \in Seq(Handle)
    BY DEF TInv, FileOK
  <1>3. /\ hs \in Seq(Handle) /\ DOMAIN hs = DOMAIN Singletons(handles)
        /\ \A i \in DOMAIN hs : hs[i] \in Singletons(handles)[i]
    BY <1>1, ListsOK, FileOpsAssumption
  <1>4. DOMAIN hs = DOMAIN handles /\ \A i \in DOMAIN hs : hs[i] = handles[i]
    BY <1>3 DEF Singletons
  <1>5. hs = [i \in DOMAIN hs |-> hs[i]] /\ handles = [i \in DOMAIN handles |-> handles[i]]
    BY <1>2, <1>3
  <1> QED
    BY <1>1, <1>4, <1>5

LEMMA WriterOpensForInsert ==
  ASSUME TInv, OInv, NEW hs \in Lists(Writer), OpenForInsert(Writer, hs)
  PROVE  OInv'
  <1> DEFINE first == PlaceOf(hs, Head(job[Writer].old))
             rest == SubSeq(hs, first, Len(hs))
             reads == [i \in DOMAIN rest |-> [h |-> rest[i], off |-> 0, n |-> ChunkSize]]
             k == [job[Writer] EXCEPT !.pc = "read", !.list = << >>, !.old = rest,
                                      !.at = first - 1, !.reads = reads]
  <1>1. /\ Writer \in Client /\ JobTyped(job[Writer]) /\ job[Writer].pc = "list" /\ exists
        /\ job[Writer].new = << >> /\ ~job[Writer].gone
    BY JobOKNow, FileOpsAssumption, WriterFindsTheList DEF OpenForInsert, Opens, At
  <1>2. first = SelectInSeq(hs, LAMBDA h : h = Head(job[Writer].old))
    BY DEF SelectInSeq, PlaceOf
  <1>3. EndsWith(Writer, "error") \/ Becomes(Writer, k)
    BY <1>2 DEF OpenForInsert, Becomes
  <1>4. CASE Becomes(Writer, k)
    <2> HIDE DEF first, rest, reads
    <2>1. k.pc = "read" /\ k.new = << >> /\ ~k.gone
      BY <1>1 DEF JobTyped, Idle
    <2> HIDE DEF k
    <2>2. Listed(handles, Sure, k)
      BY <2>1 DEF Listed
    <2> QED
      BY <1>1, <1>4, <2>2, WriterBecomes DEF Becomes, FaultsGrow
  <1> QED
    BY <1>3, <1>4, WriterEnds

LEMMA WriterOpensForDelete ==
  ASSUME TInv, OInv, NEW hs \in Lists(Writer), OpenForDelete(Writer, hs)
  PROVE  OInv'
  <1> DEFINE k == [job[Writer] EXCEPT !.pc = "remove", !.list = << >>, !.old = hs]
  <1>1. /\ Writer \in Client /\ JobTyped(job[Writer])
        /\ job[Writer].pc = "list" /\ job[Writer].req.op = "delete" /\ handles \in Seq(Handle)
        /\ job' = [job EXCEPT ![Writer] = AfterRemoval(k)] /\ UNCHANGED file /\ FaultsGrow
    BY JobOKNow, FileOpsAssumption DEF OpenForDelete, Opens, At, TInv, FileOK, FaultsGrow
  <1>2. hs = handles /\ job[Writer].new = << >> /\ ~job[Writer].gone /\ exists
    BY <1>1, WriterFindsTheList
  <1>3. /\ DOMAIN k = DOMAIN Idle /\ k.pc = "remove" /\ k.req = job[Writer].req
        /\ k.calls = job[Writer].calls /\ k.old = hs /\ k.new = job[Writer].new
        /\ k.at = job[Writer].at /\ k.buffer = job[Writer].buffer
        /\ k.cut = job[Writer].cut /\ k.reads = job[Writer].reads /\ k.got = job[Writer].got
        /\ k.list = << >> /\ k.size = job[Writer].size /\ k.gone = job[Writer].gone
    BY <1>1 DEF JobTyped, Idle
  <1> HIDE DEF k
  <1>4. JobTyped(k)
    BY <1>1, <1>2, <1>3, EmptyListOK DEF JobTyped
  <1>5. Listed(handles, Sure, AfterRemoval(k))
    BY <1>1, <1>2, <1>3, <1>4, ListedAfterRemoval DEF RemovalOps
  <1> QED
    BY <1>1, <1>2, <1>5, WriterBecomes

LEMMA WriterOpensForRead ==
  ASSUME TInv, OInv, NEW hs \in Lists(Writer), OpenForRead(Writer, hs)
  PROVE  OInv'
  <1> DEFINE k == OpenedToRead(Writer, hs)
  <1>1. /\ Writer \in Client /\ exists /\ job[Writer].new = << >> /\ ~job[Writer].gone
    BY FileOpsAssumption, WriterFindsTheList DEF OpenForRead, Opens, At
  <1>2. /\ Becomes(Writer, AfterReads(k)) /\ JobTyped(k) /\ RequestOK(k.req)
        /\ k.pc = "read" /\ k.req.op = "read" /\ k.new = << >> /\ ~k.gone
    BY <1>1, OpenedOK
  <1> HIDE DEF k
  <1>3. Listed(handles, Sure, AfterReads(k))
    BY <1>2, ListedAfterReads
  <1> QED
    BY <1>1, <1>2, <1>3, WriterBecomes DEF Becomes, FaultsGrow

LEMMA WriterReadsChunk ==
  ASSUME TInv, OInv, NEW i \in DOMAIN job[Writer].reads, ReadChunk(Writer, i)
  PROVE  OInv'
  <1> DEFINE k == WithRead(Writer, i)
  <1>1. Writer \in Client /\ job[Writer].pc = "read" /\ JobTyped(job[Writer]) /\ JobPlaced(job[Writer])
    BY JobOKNow, FileOpsAssumption DEF ReadChunk, At
  <1>2. exists /\ job[Writer].new = << >> /\ ~job[Writer].gone
    BY <1>1 DEF OInv, Listed
  <1>3. CASE EndsWith(Writer, "error")
    BY <1>3, WriterEnds
  <1>4. CASE job' = [job EXCEPT ![Writer] = AfterReads(k)] /\ UNCHANGED <<running, file, faults>>
    <2>1. /\ JobTyped(k) /\ k.pc = "read" /\ k.req = job[Writer].req
          /\ k.reads = job[Writer].reads /\ k.new = job[Writer].new /\ k.gone = job[Writer].gone
      BY <1>1, WithReadOK
    <2>2. k.new = << >> /\ ~k.gone
      BY <1>2, <2>1
    <2> HIDE DEF k
    <2>3. Listed(handles, Sure, AfterReads(k))
      BY <1>1, <2>1, <2>2, ListedAfterReads DEF JobPlaced
    <2> QED
      BY <1>2, <1>4, <2>3, WriterBecomes DEF FaultsGrow
  <1> QED
    BY <1>3, <1>4 DEF ReadChunk

LEMMA WriterRemovesReplicas ==
  ASSUME TInv, OInv, RemoveReplicas(Writer)
  PROVE  OInv'
  <1> DEFINE h == Head(job[Writer].old)
             k == [job[Writer] EXCEPT !.gone = TRUE]
  <1>1. /\ Writer \in Client /\ JobTyped(job[Writer]) /\ job[Writer].pc = "remove" /\ exists
    BY JobOKNow, FileOpsAssumption DEF RemoveReplicas, At, OInv
  <1>2. CASE EndsWith(Writer, "error")
    BY <1>2, WriterEnds
  <1>3. CASE ~EndsWith(Writer, "error")
    <2>1. /\ job' = [job EXCEPT ![Writer] = k]
          /\ \/ copies' = copies \ {h} /\ UNCHANGED faults
             \/ faults' = faults + 1 /\ UNCHANGED copies
          /\ UNCHANGED <<exists, handles, data>>
      BY <1>3 DEF RemoveReplicas
    <2>2. /\ k.pc = "remove" /\ k.req = job[Writer].req /\ k.new = job[Writer].new
          /\ k.old = job[Writer].old /\ k.calls = job[Writer].calls
      BY <1>1 DEF JobTyped, Idle
    <2> HIDE DEF k
    <2>3. Sure' \subseteq Sure /\ h \notin Sure'
      <3>1. faults \in Nat
        BY FileOpsAssumption DEF TInv, FileOK
      <3> HIDE DEF h
      <3> QED
        BY <2>1, <3>1 DEF Sure
    <2>4. Listed(handles, Sure', k)
      BY <1>1, <2>2, <2>3 DEF OInv, Listed
    <2>5. job'[Writer] = k /\ OthersStay(Writer)
      BY <1>1, <2>1, OneJobChanges, OthersSameStay
    <2>6. DOMAIN data' \subseteq ToSet(handles') /\ Sure' \subseteq ToSet(handles')
      BY <2>1, <2>3 DEF OInv, NoOrphans, Sure
    <2>7. Listed(handles', Sure', job'[Writer])
      BY <2>1, <2>4, <2>5
    <2> QED
      BY <1>1, <2>1, <2>5, <2>6, <2>7, WriterKeeps
  <1> QED
    BY <1>2, <1>3

LEMMA WriterRemovesChunk ==
  ASSUME TInv, OInv, RemoveChunk(Writer)
  PROVE  OInv'
  <1> DEFINE h == Head(job[Writer].old)
             rest == [job[Writer] EXCEPT !.old = Tail(@), !.gone = FALSE]
  <1>1. /\ Writer \in Client /\ JobTyped(job[Writer])
        /\ job[Writer].pc = "remove" /\ job[Writer].req.op \in RemovalOps /\ job[Writer].old # << >>
        /\ handles \in Seq(Handle)
    BY JobOKNow, FileOpsAssumption DEF JobPlaced, RemoveChunk, At, RemovalOps, TInv, FileOK
  <1>2. /\ exists /\ job[Writer].new = << >> /\ h \notin Sure
        /\ job[Writer].req.op = "delete" => handles = job[Writer].old
    BY <1>1 DEF OInv, Listed, RemoveChunk
  <1>3. CASE EndsWith(Writer, "error")
    BY <1>3, WriterEnds
  <1>4. CASE ~EndsWith(Writer, "error")
    <2>1. /\ data' = WithoutFile(h) /\ handles' = RemoveFirst(handles, h)
          /\ GoesOr(Shifted(handles'), Writer, AfterRemoval(rest), Ended(job[Writer], "error"))
          /\ UNCHANGED <<exists, copies>>
      BY <1>2, <1>4 DEF RemoveChunk, ReportRemoved
    <2>2. Tail(job[Writer].old) \in Seq(Handle)
      BY <1>1 DEF JobTyped
    <2>3. /\ DOMAIN rest = DOMAIN Idle /\ rest.pc = "remove" /\ rest.req = job[Writer].req
          /\ rest.calls = job[Writer].calls /\ rest.old = Tail(job[Writer].old)
          /\ rest.new = job[Writer].new /\ rest.at = job[Writer].at
          /\ rest.buffer = job[Writer].buffer /\ rest.cut = job[Writer].cut
          /\ rest.reads = job[Writer].reads /\ rest.got = job[Writer].got
          /\ rest.list = job[Writer].list /\ rest.size = job[Writer].size /\ ~rest.gone
      BY <1>1 DEF JobTyped, Idle
    <2> HIDE DEF rest
    <2>4. JobTyped(rest)
      BY <1>1, <2>2, <2>3 DEF JobTyped
    <2>5. /\ ToSet(handles) \subseteq ToSet(handles') \cup {h}
          /\ job[Writer].req.op = "delete" => handles' = rest.old
      <3>1. /\ ToSet(handles) \subseteq ToSet(RemoveFirst(handles, h)) \cup {h}
            /\ handles # << >> /\ h = Head(handles) => RemoveFirst(handles, h) = Tail(handles)
        BY <1>1, RemoveFirstIsSeq
      <3> QED
        BY <1>1, <1>2, <2>1, <2>3, <3>1
    <2> HIDE DEF h
    <2>6. Listed(handles', Sure', AfterRemoval(rest))
      BY <1>1, <1>2, <2>3, <2>4, <2>5, ListedAfterRemoval
    <2>7. OthersStay(Writer) /\ FaultsGrow /\ Listed(handles', Sure', job'[Writer])
      BY <1>1, <2>1, <2>6, ShiftedChanges, ListedEnded
    <2>8. Sure' \subseteq Sure
      BY <2>1, <2>7, SureStays
    <2>9. DOMAIN data' \subseteq ToSet(handles')
      BY <2>1, <2>5 DEF WithoutFile, OInv, NoOrphans
    <2>10. Sure' \subseteq ToSet(handles')
      BY <1>2, <2>5, <2>8 DEF OInv, NoOrphans, Sure
    <2> QED
      BY <1>2, <2>1, <2>7, <2>9, <2>10, WriterKeeps
  <1> QED
    BY <1>3, <1>4

LEMMA WriterLosesReport ==
  ASSUME TInv, OInv, RemoveUnreported(Writer)
  PROVE  OInv'
  <1>1. /\ DOMAIN data' \subseteq DOMAIN data /\ UNCHANGED <<exists, handles, copies>> /\ FaultsGrow
        /\ job' = [job EXCEPT ![Writer] = Ended(job[Writer], "error")]
    BY DEF RemoveUnreported, WithoutFile, FaultsGrow
  <1>2. job'[Writer] = Ended(job[Writer], "error") /\ OthersStay(Writer)
    BY <1>1, FileOpsAssumption, OneJobChanges, OthersSameStay
  <1>3. Sure' \subseteq Sure
    BY <1>1, SureStays
  <1>4. DOMAIN data' \subseteq ToSet(handles') /\ Sure' \subseteq ToSet(handles')
    BY <1>1, <1>3 DEF OInv, NoOrphans, Sure
  <1>5. job'[Writer].pc = "idle" /\ Listed(handles', Sure', job'[Writer])
    BY <1>2, ListedEnded
  <1>6. ~exists' => handles' = << >>
    BY <1>1 DEF OInv
  <1> QED
    BY <1>2, <1>4, <1>5, <1>6, WriterKeeps

LEMMA WriterAllocates ==
  ASSUME TInv, OInv, Allocate(Writer)
  PROVE  OInv'
  <1> DEFINE idx == job[Writer].at + Len(job[Writer].new)
             h == Fresh(1)[1]
             k == [job[Writer] EXCEPT !.new = Append(@, h)]
  <1>1. Writer \in Client /\ JobTyped(job[Writer]) /\ job[Writer].pc = "allocate"
    BY JobOKNow, FileOpsAssumption DEF Allocate, At
  <1>2. h \in Handle
    <2>1. Fresh(1) \in Seq(Handle) /\ Len(Fresh(1)) = 1
      BY FreshOK
    <2> QED
      BY <2>1
  <1> HIDE DEF h
  <1>3. /\ idx \in Nat /\ job[Writer].new \in Seq(Handle) /\ Append(job[Writer].new, h) \in Seq(Handle)
        /\ ToSet(Append(job[Writer].new, h)) \subseteq ToSet(job[Writer].new) \cup {h}
    <2>1. job[Writer].new \in Seq(Handle) /\ idx \in Nat
      BY <1>1 DEF JobTyped
    <2> QED
      BY <1>2, <2>1 DEF ToSet
  <1>4. handles \in Seq(Handle) /\ Len(handles) \in Nat
    BY DEF TInv, FileOK
  <1>5. CASE EndsWith(Writer, "error")
    BY <1>5, WriterEnds
  <1>6. CASE ~EndsWith(Writer, "error")
    <2>1. /\ exists /\ idx <= Len(handles)
          /\ handles' = InsertAt(handles, idx + 1, h)
          /\ GoesOr(Shifted(handles'), Writer, AfterAllocation(k), Ended(job[Writer], "error"))
          /\ UNCHANGED <<exists, data, copies>>
      BY <1>3, <1>4, <1>6 DEF Allocate, h
    <2>2. ToSet(handles') = ToSet(handles) \cup {h}
      <3> HIDE DEF idx, k
      <3>1. idx + 1 \in 1 .. Len(handles) + 1
        BY <1>3, <1>4, <2>1
      <3> QED
        BY <1>2, <1>4, <2>1, <3>1, InsertAtIsSeq
    <2>3. /\ DOMAIN k = DOMAIN Idle /\ k.pc = "allocate" /\ k.req = job[Writer].req
          /\ k.calls = job[Writer].calls /\ k.old = job[Writer].old
          /\ k.new = Append(job[Writer].new, h) /\ k.at = job[Writer].at
          /\ k.buffer = job[Writer].buffer /\ k.cut = job[Writer].cut
          /\ k.reads = job[Writer].reads /\ k.got = job[Writer].got
          /\ k.list = job[Writer].list /\ k.size = job[Writer].size /\ k.gone = job[Writer].gone
      BY <1>1 DEF JobTyped, Idle
    <2> HIDE DEF k
    <2>4. JobTyped(k)
      BY <1>1, <1>3, <2>3 DEF JobTyped
    <2>5. ToSet(k.new) \subseteq ToSet(handles')
      BY <1>1, <1>3, <2>2, <2>3 DEF OInv, Listed
    <2>6. Listed(handles', Sure', AfterAllocation(k))
      BY <2>3, <2>4, <2>5, ListedAfterAllocation
    <2>7. OthersStay(Writer) /\ FaultsGrow /\ Listed(handles', Sure', job'[Writer])
      BY <1>1, <2>1, <2>6, ShiftedChanges, ListedEnded
    <2>9. Sure' \subseteq Sure
      BY <2>1, <2>7, SureStays
    <2>8. DOMAIN data' \subseteq ToSet(handles') /\ Sure' \subseteq ToSet(handles')
      BY <2>1, <2>2, <2>9 DEF OInv, NoOrphans, Sure
    <2> QED
      BY <2>1, <2>7, <2>8, WriterKeeps
  <1> QED
    BY <1>5, <1>6

LEMMA WriterChanges ==
  ASSUME TInv, OInv, exists, NEW h \in ToSet(handles), NEW bytes, NEW growth,
         NEW written, written \subseteq {h}, NEW j, NEW k,
         Change(Writer, h, bytes, growth, written, j, k),
         \A cs : Listed(handles, cs, j) /\ Listed(handles, cs, k)
  PROVE  OInv'
  <1>1. /\ (job'[Writer] = j \/ job'[Writer] = k) /\ OthersSame(Writer)
        /\ DOMAIN data' = DOMAIN data \cup {h} /\ Sure' \subseteq Sure \cup written
        /\ UNCHANGED <<exists, handles>>
    <2>1. Writer \in Client
      BY FileOpsAssumption
    <2> QED
      BY <2>1, ChangeChanges, Zenon
  <1>2. DOMAIN data' \subseteq ToSet(handles') /\ Sure' \subseteq ToSet(handles')
    BY <1>1 DEF OInv, NoOrphans, Sure
  <1>3. OthersStay(Writer)
    BY <1>1, OthersSameStay
  <1>4. Listed(handles', Sure', job'[Writer])
    <2>1. Listed(handles, Sure', j) /\ Listed(handles, Sure', k)
      OBVIOUS
    <2> QED
      BY <1>1, <2>1
  <1> QED
    BY <1>1, <1>2, <1>3, <1>4, WriterKeeps

LEMMA WriterStores ==
  ASSUME TInv, OInv, NEW i \in DOMAIN job[Writer].calls, StoreOne(Writer, i)
  PROVE  OInv'
  <1> DEFINE calls == RemoveAt(job[Writer].calls, i)
             rest == [job[Writer] EXCEPT !.calls = calls]
             sour == [rest EXCEPT !.failed = TRUE]
  <1>1. Writer \in Client /\ JobTyped(job[Writer]) /\ job[Writer].pc = "store" /\ exists
    BY JobOKNow, FileOpsAssumption DEF StoreOne, At, OInv
  <1>2. job[Writer].calls \in Seq(CallPart) /\ i \in 1 .. Len(job[Writer].calls)
    BY <1>1 DEF JobTyped
  <1>3. \A m \in DOMAIN job[Writer].calls : job[Writer].calls[m].h \in ToSet(handles)
    BY <1>1 DEF OInv, Listed
  <1>4. \A m \in DOMAIN calls : calls[m].h \in ToSet(handles)
    <2>1. ToSet(calls) \subseteq ToSet(job[Writer].calls)
      BY <1>2, RemoveAtIsSeq
    <2> HIDE DEF calls
    <2> QED
      BY <1>3, <2>1, ListsCalls
  <1> HIDE DEF calls
  <1>5. /\ rest.pc = "store" /\ rest.calls = calls
        /\ sour.pc = "store" /\ sour.calls = calls
    BY <1>1 DEF JobTyped, Idle
  <1>6. \/ WriteChunk(Writer, job[Writer].calls[i], AfterStores(rest), AfterStores(sour))
        \/ /\ job' = [job EXCEPT ![Writer] = AfterStores(sour)]
           /\ UNCHANGED <<running, file>> /\ FaultsGrow
    BY DEF StoreOne, calls, FaultsGrow
  <1> HIDE DEF rest, sour
  <1>7. \A cs : Listed(handles, cs, AfterStores(rest)) /\ Listed(handles, cs, AfterStores(sour))
    BY <1>4, <1>5, ListedAfterStores
  <1>8. CASE WriteChunk(Writer, job[Writer].calls[i], AfterStores(rest), AfterStores(sour))
    BY <1>1, <1>2, <1>3, <1>7, <1>8, WriterChanges DEF WriteChunk
  <1>9. CASE /\ job' = [job EXCEPT ![Writer] = AfterStores(sour)]
             /\ UNCHANGED <<running, file>> /\ FaultsGrow
    BY <1>1, <1>7, <1>9, WriterBecomes
  <1> QED
    BY <1>6, <1>8, <1>9

LEMMA WriterRewrites ==
  ASSUME TInv, OInv, Rewrite(Writer)
  PROVE  OInv'
  <1> DEFINE rest == [job[Writer] EXCEPT !.calls = Tail(@)]
  <1>1. /\ Writer \in Client /\ JobTyped(job[Writer]) /\ job[Writer].calls # << >>
        /\ job[Writer].pc = "rewrite" /\ exists
    BY JobOKNow, FileOpsAssumption DEF JobPlaced, Rewrite, At, OInv
  <1>2. job[Writer].calls \in Seq(CallPart)
    BY <1>1 DEF JobTyped
  <1>3. /\ ToSet(Tail(job[Writer].calls)) \subseteq ToSet(job[Writer].calls)
        /\ Head(job[Writer].calls) = job[Writer].calls[1] /\ 1 \in DOMAIN job[Writer].calls
    BY <1>1, <1>2 DEF ToSet
  <1>4. \A m \in DOMAIN job[Writer].calls : job[Writer].calls[m].h \in ToSet(handles)
    BY <1>1 DEF OInv, Listed
  <1>5. rest.pc = "rewrite" /\ rest.calls = Tail(job[Writer].calls)
    BY <1>1 DEF JobTyped, Idle
  <1>6. WriteChunk(Writer, Head(job[Writer].calls), AfterStores(rest), Ended(rest, "error"))
    BY DEF Rewrite
  <1> HIDE DEF rest
  <1>7. \A cs : Listed(handles, cs, AfterStores(rest)) /\ Listed(handles, cs, Ended(rest, "error"))
    BY <1>3, <1>4, <1>5, ListsCalls, ListedAfterStores, ListedEnded
  <1> QED
    BY <1>1, <1>3, <1>4, <1>6, <1>7, WriterChanges DEF WriteChunk

LEMMA WriterCuts ==
  ASSUME TInv, OInv, Cut(Writer)
  PROVE  OInv'
  <1> DEFINE h == job[Writer].cut[1].h
             bytes == Resize(Chunk(h), job[Writer].cut[1].n)
             growth == Len(bytes) - Len(Chunk(h))
             done == Change(Writer, h, bytes, growth, {}, Ended(job[Writer], "ok"), Ended(job[Writer], "error"))
  <1>1. Writer \in Client /\ exists
    BY FileOpsAssumption DEF Cut, At, OInv
  <1>2. EndsWith(Writer, "error") \/ (Holds(h) /\ done)
    BY DEF Cut
  <1>3. CASE Holds(h) /\ done
    <2> HIDE DEF h, bytes, growth
    <2>1. h \in ToSet(handles)
      BY <1>3 DEF Holds, OInv, NoOrphans
    <2> QED
      BY <1>1, <1>3, <2>1, ListedEnded, WriterChanges
  <1> QED
    BY <1>2, <1>3, WriterEnds

-----------------------------------------------------------------------------
(***************************************************************************)
(* The steps of a client that only reads.                                  *)
(***************************************************************************)
LEMMA EndedOnlyReads ==
  ASSUME NEW j, NEW reply
  PROVE  OnlyReads(Ended(j, reply))
  BY ListedEnded DEF OnlyReads

LEMMA AfterReadsOnlyReads ==
  ASSUME NEW j, j.pc = "read", j.req.op = "read"
  PROVE  OnlyReads(AfterReads(j))
  <1>1. AfterReads(j) = j \/ AfterReads(j) = Ended(j, Answer(j))
    BY DEF AfterReads
  <1> QED
    BY <1>1, EndedOnlyReads DEF OnlyReads

LEMMA ReaderBecomes ==
  ASSUME TInv, OInv, NEW c \in Client \ {Writer}, NEW k, job' = [job EXCEPT ![c] = k],
         UNCHANGED file, FaultsGrow, OnlyReads(k)
  PROVE  OInv'
  BY OneJobChanges, ReaderKeeps

LEMMA ReaderEnds ==
  ASSUME TInv, OInv, NEW c \in Client \ {Writer}, NEW reply, EndsWith(c, reply)
  PROVE  OInv'
  BY ReaderBecomes, EndedOnlyReads DEF EndsWith, FaultsGrow

LEMMA ReaderInvokes ==
  ASSUME TInv, OInv, OneWriter, NEW c \in Client \ {Writer}, NEW r \in Requests(c), Invoke(c, r)
  PROVE  OInv'
  <1> DEFINE n(d) == job[d].met + IF Reading(d) THEN 1 ELSE 0
             k(d) == [job[d] EXCEPT !.met = n(d)]
             w == [Idle EXCEPT !.pc = "plan", !.req = r]
  <1>1. /\ job' = [d \in Client |-> IF d = c THEN [w EXCEPT !.before = @] ELSE k(d)]
        /\ UNCHANGED file /\ FaultsGrow
    BY DEF Invoke, Idle, FaultsGrow
  <1>2. r.op = "read"
    BY DEF Requests, Request, OneWriter
  <1> HIDE DEF n
  <1>3. ASSUME NEW d \in Client PROVE SameCall(job[d], k(d))
    <2>1. JobTyped(job[d])
      BY JobOKNow
    <2> QED
      BY <2>1 DEF JobTyped, SameCall, SameParts, Idle
  <1>4. [w EXCEPT !.before = @].pc = "plan" /\ [w EXCEPT !.before = @].req = r
    BY DEF Idle
  <1> HIDE DEF k
  <1>5. OthersSame(c) /\ OnlyReads(job'[c])
    BY <1>1, <1>2, <1>3, <1>4 DEF OthersSame, OnlyReads
  <1> QED
    BY <1>1, <1>5, ReaderKeeps

LEMMA ReaderFails ==
  ASSUME TInv, OInv, NEW c \in Client \ {Writer}, NotFound(c) \/ NoAnswer(c)
  PROVE  OInv'
  <1>1. CASE NotFound(c)
    BY <1>1, ReaderEnds DEF NotFound
  <1>2. CASE NoAnswer(c)
    <2>1. /\ job' = [job EXCEPT ![c] = Ended(job[c], "error")]
          /\ UNCHANGED file /\ FaultsGrow
      BY <1>2 DEF NoAnswer, FaultsGrow
    <2> QED
      BY <2>1, ReaderBecomes, EndedOnlyReads
  <1> QED
    BY <1>1, <1>2

LEMMA ReaderOpensFile ==
  ASSUME TInv, OInv, NEW c \in Client \ {Writer}, OpenFile(c)
  PROVE  OInv'
  <1> DEFINE list == Singletons(handles)
             k == [job[c] EXCEPT !.pc = "list", !.size = size, !.list = list]
  <1>1. job' = [job EXCEPT ![c] = k] /\ UNCHANGED file /\ FaultsGrow
    BY DEF OpenFile, Singletons, FaultsGrow
  <1>2. JobTyped(job[c]) /\ job[c].req.op = "read"
    BY JobOKNow DEF OpenFile, Plans, At, OInv, OnlyReads
  <1> HIDE DEF list
  <1>3. k.pc = "list" /\ k.req.op = "read"
    BY <1>2 DEF JobTyped, Idle
  <1> HIDE DEF k
  <1> QED
    BY <1>1, <1>3, ReaderBecomes DEF OnlyReads

LEMMA ReaderOpens ==
  ASSUME TInv, OInv, NEW c \in Client \ {Writer}, NEW hs \in Lists(c), OpenForRead(c, hs)
  PROVE  OInv'
  <1> DEFINE k == OpenedToRead(c, hs)
  <1>1. Becomes(c, AfterReads(k)) /\ k.pc = "read" /\ k.req.op = "read"
    BY OpenedOK
  <1> HIDE DEF k
  <1> QED
    BY <1>1, ReaderBecomes, AfterReadsOnlyReads DEF Becomes, FaultsGrow

LEMMA ReaderReadsChunk ==
  ASSUME TInv, OInv, NEW c \in Client \ {Writer}, NEW i \in DOMAIN job[c].reads, ReadChunk(c, i)
  PROVE  OInv'
  <1> DEFINE k == WithRead(c, i)
  <1>1. job[c].pc = "read" /\ job[c].req.op = "read"
    BY DEF ReadChunk, At, OInv, OnlyReads
  <1>2. CASE EndsWith(c, "error")
    BY <1>2, ReaderEnds
  <1>3. CASE job' = [job EXCEPT ![c] = AfterReads(k)] /\ UNCHANGED <<running, file, faults>>
    <2>1. k.pc = "read" /\ k.req.op = "read"
      BY <1>1, WithReadOK
    <2> HIDE DEF k
    <2> QED
      BY <1>3, <2>1, ReaderBecomes, AfterReadsOnlyReads DEF FaultsGrow
  <1> QED
    BY <1>2, <1>3 DEF ReadChunk

-----------------------------------------------------------------------------
LEMMA OInvNext == TInv /\ OInv /\ OneWriter /\ [Next]_vars => OInv'
  <1> SUFFICES ASSUME TInv, OInv, OneWriter, [Next]_vars PROVE OInv'
    OBVIOUS
  <1>1. CASE UNCHANGED vars
    BY <1>1 DEF vars, OInv, NoOrphans, Listed, OnlyReads, Sure
  <1>2. CASE Step(Writer)
    <2>1. CASE \E r \in Requests(Writer) : Invoke(Writer, r)
      BY <2>1, WriterInvokes
    <2>2. CASE NotFound(Writer) \/ NoAnswer(Writer)
      BY <2>2, WriterFails
    <2>3. CASE Create(Writer) \/ PlanWrite(Writer) \/ PlanAppend(Writer)
      BY <2>3, WriterCreates, WriterPlansWrite
    <2>4. CASE PlanDeleteRange(Writer) \/ PlanTruncate(Writer) \/ PlanInsert(Writer) \/ OpenFile(Writer)
      BY <2>4, WriterPlansDeleteRange, WriterPlansTruncate, WriterPlansInsert, WriterOpensFile
    <2>5. CASE \E hs \in Lists(Writer) :
                 OpenForInsert(Writer, hs) \/ OpenForDelete(Writer, hs) \/ OpenForRead(Writer, hs)
      BY <2>5, WriterOpensForInsert, WriterOpensForDelete, WriterOpensForRead
    <2>6. CASE \E i \in DOMAIN job[Writer].reads : ReadChunk(Writer, i)
      BY <2>6, WriterReadsChunk
    <2>7. CASE \E i \in DOMAIN job[Writer].calls : StoreOne(Writer, i)
      BY <2>7, WriterStores
    <2>8. CASE RemoveReplicas(Writer) \/ RemoveChunk(Writer) \/ RemoveUnreported(Writer)
      BY <2>8, WriterRemovesReplicas, WriterRemovesChunk, WriterLosesReport
    <2>9. CASE Allocate(Writer) \/ Rewrite(Writer) \/ Cut(Writer) \/ Forget(Writer)
      BY <2>9, WriterAllocates, WriterRewrites, WriterCuts, WriterForgets
    <2> QED
      BY <1>2, <2>1, <2>2, <2>3, <2>4, <2>5, <2>6, <2>7, <2>8, <2>9 DEF Step
  <1>3. ASSUME NEW c \in Client \ {Writer}, Step(c) PROVE OInv'
    <2>1. OnlyReads(job[c])
      BY DEF OInv
    <2>2. \/ \E r \in Requests(c) : Invoke(c, r)
          \/ NotFound(c) \/ NoAnswer(c) \/ OpenFile(c)
          \/ \E hs \in Lists(c) : OpenForRead(c, hs)
          \/ \E i \in DOMAIN job[c].reads : ReadChunk(c, i)
      BY <1>3, <2>1
         DEF OnlyReads, Step, Create, PlanWrite, PlanAppend, PlanDeleteRange, PlanTruncate, PlanInsert,
             OpenForInsert, OpenForDelete, Opens, StoreOne, RemoveReplicas, RemoveChunk, RemoveUnreported, Allocate, Rewrite,
             Cut, Forget, Plans, At
    <2> QED
      BY <2>2, ReaderInvokes, ReaderFails, ReaderOpensFile, ReaderOpens, ReaderReadsChunk
  <1> QED
    BY <1>1, <1>2, <1>3 DEF Next

\* NoChunkIsOrphaned: when only one of the clients changes the file, every chunk its
\* primary holds is in the file's list at the Master, whatever call is under way and
\* wherever a failed call stopped it; and every chunk a replica holds is, as long as no
\* call has failed.  After a failure a replica may keep its file for good.
THEOREM NoChunkIsOrphaned ==
  ASSUME OneWriter
  PROVE  Spec => []NoOrphans
  <1>1. TInv /\ OInv /\ [Next]_vars => (TInv /\ OInv)'
    BY TInvNext, OInvNext
  <1>2. OInv => NoOrphans
    BY DEF OInv
  <1> QED
    BY <1>1, <1>2, TInvInit, OInvInit, PTL DEF Spec

-----------------------------------------------------------------------------
(***************************************************************************)
(* A read under way knows the bytes it may return.                         *)
(***************************************************************************)
PartOf(p) == ChunkOf(p - 1) + 1

PlaceIn(p) == ((p - 1) % ChunkSize) + 1

\* The byte of place p of the file is, in these bytes of its chunk, one that the read knows.
Allowed(may, p, bytes) == PlaceIn(p) \in DOMAIN bytes => bytes[PlaceIn(p)] \in may[p]

\* The reads are the first of those of a file of j.size bytes.
ReadsFile(j) ==
  /\ j.reads \in Seq(ReadPart) /\ j.size \in Nat
  /\ \A i \in 1 .. Len(j.reads) :
       /\ (i - 1) * ChunkSize < j.size
       /\ j.reads[i].off = 0 /\ j.reads[i].n = Smaller(ChunkSize, j.size - (i - 1) * ChunkSize)

\* What chunk h holds when the chunks are d.
ChunkIn(d, h) == IF h \in DOMAIN d THEN d[h] ELSE << >>

KnowsByte(j, d, p) ==
  /\ p \in DOMAIN j.may
  /\ PartOf(p) \in DOMAIN j.got => Allowed(j.may, p, j.got[PartOf(p)])
  /\ Allowed(j.may, p, ChunkIn(d, j.reads[PartOf(p)].h))

KnowsBytes(j, d) ==
  /\ \A i \in DOMAIN j.got : Len(j.got[i]) <= j.reads[i].n
  /\ \A p \in 1 .. j.size : PartOf(p) \in DOMAIN j.reads => KnowsByte(j, d, p)

NotReading(j) == j.pc # "read" \/ j.req.op # "read"

ReadKnown(j, d) == NotReading(j) \/ (ReadsFile(j) /\ KnowsBytes(j, d))

RInv == \A c \in Client : ReadKnown(job[c], data)

SameRead(j, k) ==
  /\ k.pc = j.pc /\ k.req = j.req /\ k.reads = j.reads /\ k.got = j.got
  /\ k.size = j.size /\ k.may = j.may

\* A chunk stays as it is, or is removed.
OnlyRemoves(d, e) == \A h : ChunkIn(e, h) = ChunkIn(d, h) \/ ChunkIn(e, h) = << >>

LEMMA ReadKnownStays ==
  ASSUME NEW d, NEW e, NEW j, NEW k, ReadKnown(j, d), SameRead(j, k), OnlyRemoves(d, e)
  PROVE  ReadKnown(k, e)
  <1>1. NotReading(j) => NotReading(k)
    BY DEF NotReading, SameRead
  <1>2. ASSUME ReadsFile(j), KnowsBytes(j, d) PROVE ReadsFile(k) /\ KnowsBytes(k, e)
    <2>1. ReadsFile(k)
      BY <1>2 DEF SameRead, ReadsFile
    <2>2. ASSUME NEW p \in 1 .. k.size, PartOf(p) \in DOMAIN k.reads PROVE KnowsByte(k, e, p)
      <3> DEFINE h == k.reads[PartOf(p)].h
      <3>1. /\ p \in DOMAIN k.may
            /\ PartOf(p) \in DOMAIN k.got => Allowed(k.may, p, k.got[PartOf(p)])
            /\ Allowed(k.may, p, ChunkIn(d, h))
        BY <1>2, <2>2 DEF KnowsBytes, KnowsByte, SameRead
      <3>2. ChunkIn(e, h) = ChunkIn(d, h) \/ ChunkIn(e, h) = << >>
        BY DEF OnlyRemoves
      <3>3. Allowed(k.may, p, << >>)
        BY DEF Allowed
      <3> HIDE DEF h
      <3>4. Allowed(k.may, p, ChunkIn(e, h))
        BY <3>1, <3>2, <3>3
      <3> QED
        BY <3>1, <3>4 DEF KnowsByte, h
    <2>3. \A i \in DOMAIN k.got : Len(k.got[i]) <= k.reads[i].n
      BY <1>2 DEF KnowsBytes, SameRead
    <2> QED
      BY <2>1, <2>2, <2>3 DEF KnowsBytes
  <1> QED
    BY <1>1, <1>2 DEF ReadKnown

LEMMA StepKeepsReads ==
  ASSUME RInv, NEW c \in Client, \A d \in Client \ {c} : SameRead(job[d], job'[d]),
         OnlyRemoves(data, data'), ReadKnown(job'[c], data')
  PROVE  RInv'
  <1>1. \A d \in Client \ {c} : ReadKnown(job'[d], data')
    BY ReadKnownStays DEF RInv
  <1> QED
    BY <1>1 DEF RInv

LEMMA NothingKnown ==
  ASSUME NEW j, NEW d, NotReading(j)
  PROVE  ReadKnown(j, d)
  BY DEF ReadKnown

LEMMA SameChunks == \A d : OnlyRemoves(d, d)
  BY DEF OnlyRemoves

LEMMA FewerChunks ==
  ASSUME NEW h, data' = WithoutFile(h)
  PROVE  OnlyRemoves(data, data')
  BY DEF WithoutFile, OnlyRemoves, ChunkIn

LEMMA OneCallReads ==
  ASSUME TInv, RInv, NEW c \in Client, NEW k, job' = [job EXCEPT ![c] = k],
         OnlyRemoves(data, data'), ReadKnown(k, data')
  PROVE  RInv'
  <1>1. job = [d \in Client |-> job[d]]
    BY DEF TInv, JobsOK
  <1>2. job'[c] = k /\ \A d \in Client \ {c} : job'[d] = job[d]
    BY <1>1
  <1>3. \A d \in Client \ {c} : SameRead(job[d], job'[d])
    BY <1>2 DEF SameRead
  <1> QED
    BY <1>2, <1>3, StepKeepsReads

LEMMA EndedKnowsNothing ==
  ASSUME NEW j, NEW reply
  PROVE  NotReading(Ended(j, reply))
  BY ListedEnded DEF NotReading

LEMMA EndsReads ==
  ASSUME TInv, RInv, NEW c \in Client, NEW reply, EndsWith(c, reply)
  PROVE  RInv'
  BY OneCallReads, SameChunks, EndedKnowsNothing, NothingKnown DEF EndsWith, file

LEMMA GoesReads ==
  ASSUME TInv, RInv, NEW c \in Client, NEW j, Goes(c, j), NotReading(j), OnlyRemoves(data, data')
  PROVE  RInv'
  <1>1. job' = [job EXCEPT ![c] = j] \/ job' = [job EXCEPT ![c] = Ended(job[c], "error")]
    BY DEF Goes, GoesOr
  <1> QED
    BY <1>1, OneCallReads, EndedKnowsNothing, NothingKnown

\* The Master's changes of the list leave the reads under way alone.
LEMMA ShiftedReads ==
  ASSUME TInv, RInv, NEW hs, NEW c \in Client, NEW j, NotReading(j),
         GoesOr(Shifted(hs), c, j, Ended(job[c], "error")), OnlyRemoves(data, data')
  PROVE  RInv'
  <1> DEFINE list(d) == [i \in DOMAIN job[d].list |->
               job[d].list[i] \cup {hs[k] : k \in {i} \cap DOMAIN hs}]
             m(d) == [job[d] EXCEPT !.list = list(d)]
             n == Shifted(hs)
  <1>1. n = [d \in Client |-> m(d)]
    BY DEF Shifted
  <1>2. ASSUME NEW d \in Client PROVE SameRead(job[d], m(d))
    <2>1. JobTyped(job[d])
      BY JobOKNow
    <2> HIDE DEF list
    <2> QED
      BY <2>1 DEF JobTyped, SameRead, Idle
  <1>3. job' = [n EXCEPT ![c] = j] \/ job' = [n EXCEPT ![c] = Ended(job[c], "error")]
    BY DEF GoesOr
  <1> HIDE DEF m, n
  <1>4. (job'[c] = j \/ job'[c] = Ended(job[c], "error")) /\ \A d \in Client \ {c} : job'[d] = m(d)
    BY <1>1, <1>3
  <1>5. NotReading(job'[c])
    BY <1>4, EndedKnowsNothing
  <1>6. \A d \in Client \ {c} : SameRead(job[d], job'[d])
    BY <1>2, <1>4
  <1> QED
    BY <1>5, <1>6, NothingKnown, StepKeepsReads

\* A call that does not read goes on without reading.
LEMMA StoresKnowNothing ==
  ASSUME NEW j, NotReading(j)
  PROVE  NotReading(AfterStores(j))
  BY EndedKnowsNothing DEF AfterStores

LEMMA AllocationKnowsNothing ==
  ASSUME NEW j, NotReading(j)
  PROVE  NotReading(AfterAllocation(j))
  <1> DEFINE calls == IF j.buffer = << >> THEN << >> ELSE Pieces(0, j.buffer, j.new)
             k == [Idle EXCEPT !.pc = "rewrite", !.req = j.req, !.before = j.before, !.calls = calls]
  <1>1. AfterAllocation(j) = j \/ AfterAllocation(j) = AfterStores(k)
    BY DEF AfterAllocation
  <1> HIDE DEF calls
  <1>2. NotReading(k)
    BY DEF Idle, NotReading
  <1> HIDE DEF k
  <1> QED
    BY <1>1, <1>2, StoresKnowNothing

LEMMA RemovalKnowsNothing ==
  ASSUME NEW j, JobTyped(j), j.pc = "remove", j.req.op \in RemovalOps
  PROVE  NotReading(AfterRemoval(j))
  <1>1. ASSUME NEW pc, pc # "read" PROVE NotReading([j EXCEPT !.pc = pc])
    BY <1>1 DEF JobTyped, Idle, NotReading
  <1>2. CASE j.old # << >>
    BY <1>2 DEF AfterRemoval, NotReading
  <1>3. CASE j.old = << >>
    <2>1. CASE j.req.op \in {"deleteRange", "insert"}
      <3> DEFINE k == [j EXCEPT !.pc = "allocate"]
      <3>1. AfterRemoval(j) = AfterAllocation(k)
        BY <1>3, <2>1 DEF AfterRemoval
      <3>2. NotReading(k)
        BY <1>1
      <3> HIDE DEF k
      <3> QED
        BY <3>1, <3>2, AllocationKnowsNothing
    <2>2. CASE j.req.op = "truncate" /\ j.cut # << >>
      <3>1. AfterRemoval(j) = [j EXCEPT !.pc = "cut"]
        BY <1>3, <2>2 DEF AfterRemoval
      <3> QED
        BY <1>1, <3>1
    <2>3. CASE j.req.op = "truncate" /\ j.cut = << >>
      <3>1. AfterRemoval(j) = Ended(j, "panic")
        BY <1>3, <2>3 DEF AfterRemoval
      <3> QED
        BY <3>1, EndedKnowsNothing
    <2>4. CASE j.req.op = "delete"
      <3>1. AfterRemoval(j) = [j EXCEPT !.pc = "forget"]
        BY <1>3, <2>4 DEF AfterRemoval
      <3> QED
        BY <1>1, <3>1
    <2> QED
      BY <1>3, <2>1, <2>2, <2>3, <2>4 DEF RemovalOps
  <1> QED
    BY <1>2, <1>3

LEMMA ReadsKnowNothing ==
  ASSUME NEW j, JobTyped(j), j.req.op \in {"deleteRange", "insert"},
         RequestOK(j.req), j.reads \in Seq(ReadPart), j.reads # << >>
  PROVE  NotReading(AfterReads(j))
  <1>1. CASE DOMAIN j.got # DOMAIN j.reads
    BY <1>1 DEF AfterReads, NotReading
  <1>2. CASE DOMAIN j.got = DOMAIN j.reads
    <2>1. \/ AfterReads(j) = Ended(j, "error")
          \/ \E bytes \in Seq(Byte) : AfterReads(j) = AfterRemoval(Rebuilt(j, bytes))
      BY <1>2, RebuiltOrEnded
    <2>2. ASSUME NEW bytes \in Seq(Byte)
          PROVE  NotReading(AfterRemoval(Rebuilt(j, bytes)))
      <3> DEFINE k == Rebuilt(j, bytes)
      <3>1. /\ JobTyped(k) /\ k.pc = "remove" /\ k.req = j.req
        BY RebuiltOK
      <3> HIDE DEF k
      <3>2. NotReading(AfterRemoval(k))
        BY <3>1, RemovalKnowsNothing DEF RemovalOps
      <3> QED
        BY <3>2 DEF k
    <2> QED
      BY <2>1, <2>2, EndedKnowsNothing
  <1> QED
    BY <1>1, <1>2

LEMMA InvokeReads ==
  ASSUME TInv, RInv, NEW c \in Client, NEW r, Invoke(c, r)
  PROVE  RInv'
  <1> DEFINE n(d) == job[d].met + IF Reading(d) THEN 1 ELSE 0
             k(d) == [job[d] EXCEPT !.met = n(d)]
             w == [Idle EXCEPT !.pc = "plan", !.req = r, !.before = IF c = Writer THEN <<State>> ELSE @]
  <1>1. job' = [d \in Client |-> IF d = c THEN w ELSE k(d)] /\ UNCHANGED data
    BY DEF Invoke, file
  <1> HIDE DEF n
  <1>2. ASSUME NEW d \in Client PROVE SameRead(job[d], k(d))
    <2>1. JobTyped(job[d])
      BY JobOKNow
    <2> QED
      BY <2>1 DEF JobTyped, SameRead, Idle
  <1>3. NotReading(w)
    BY DEF Idle, NotReading
  <1> HIDE DEF w, k
  <1>4. NotReading(job'[c]) /\ \A d \in Client \ {c} : SameRead(job[d], job'[d])
    BY <1>1, <1>2, <1>3
  <1> QED
    BY <1>1, <1>4, NothingKnown, SameChunks, StepKeepsReads

LEMMA FailsReads ==
  ASSUME TInv, RInv, NEW c \in Client, NotFound(c) \/ NoAnswer(c)
  PROVE  RInv'
  <1>1. CASE NotFound(c)
    BY <1>1, EndsReads DEF NotFound
  <1>2. CASE NoAnswer(c)
    <2>1. job' = [job EXCEPT ![c] = Ended(job[c], "error")] /\ UNCHANGED data
      BY <1>2 DEF NoAnswer, file
    <2> QED
      BY <2>1, OneCallReads, SameChunks, EndedKnowsNothing, NothingKnown
  <1> QED
    BY <1>1, <1>2

LEMMA CreateForgetReads ==
  ASSUME TInv, RInv, NEW c \in Client, Create(c) \/ Forget(c)
  PROVE  RInv'
  <1>1. EndsWith(c, "error") \/ (Goes(c, Ended(job[c], "ok")) /\ UNCHANGED data)
    BY DEF Create, Forget
  <1> QED
    BY <1>1, EndsReads, GoesReads, SameChunks, EndedKnowsNothing

LEMMA PlanWriteReads ==
  ASSUME TInv, RInv, NEW c \in Client, PlanWrite(c) \/ PlanAppend(c)
  PROVE  RInv'
  <1>1. JobTyped(job[c])
    BY JobOKNow
  <1>2. ASSUME NEW calls PROVE NotReading([job[c] EXCEPT !.pc = "store", !.calls = calls])
    BY <1>1 DEF JobTyped, Idle, NotReading
  <1>3. /\ UNCHANGED data
        /\ \E calls, hs : GoesOr(Shifted(hs), c, [job[c] EXCEPT !.pc = "store", !.calls = calls],
                                 Ended(job[c], "error"))
    BY DEF PlanWrite, PlanAppend, PlanStores
  <1> QED
    BY <1>2, <1>3, ShiftedReads, SameChunks

LEMMA PanicsReads ==
  ASSUME RInv, NEW c \in Client, MasterPanics(c)
  PROVE  RInv'
  BY DEF MasterPanics, file, RInv

LEMMA BecomesReads ==
  ASSUME TInv, RInv, NEW c \in Client, NEW k, Becomes(c, k), ReadKnown(k, data)
  PROVE  RInv'
  BY OneCallReads, SameChunks DEF Becomes, file

LEMMA PlanDeleteRangeReads ==
  ASSUME TInv, RInv, NEW c \in Client, PlanDeleteRange(c)
  PROVE  RInv'
  <1>1. job[c].req.op = "deleteRange" /\ JobTyped(job[c])
    BY JobOKNow DEF PlanDeleteRange, Plans
  <1>2. NotReading(Ranged(c))
    BY <1>1 DEF Ranged, JobTyped, Idle, NotReading
  <1>3. EndsWith(c, "error") \/ EndsWith(c, "ok") \/ MasterPanics(c) \/ Becomes(c, Ranged(c))
    BY DeleteRangeCases
  <1> QED
    BY <1>2, <1>3, EndsReads, PanicsReads, BecomesReads, NothingKnown

LEMMA PlanTruncateReads ==
  ASSUME TInv, RInv, NEW c \in Client, PlanTruncate(c)
  PROVE  RInv'
  <1>1. job[c].pc = "plan" /\ job[c].req.op = "truncate" /\ JobTyped(job[c])
    BY JobOKNow DEF PlanTruncate, Plans, At
  <1>2. ASSUME NEW old \in Seq(Handle), NEW cut \in Seq(CutPart),
               Becomes(c, AfterRemoval(Truncated(c, old, cut)))
        PROVE  RInv'
    <2> DEFINE k == Truncated(c, old, cut)
    <2>1. JobTyped(k) /\ k.pc = "remove" /\ k.req = job[c].req
      BY TruncatedOK
    <2> HIDE DEF k
    <2>3. NotReading(AfterRemoval(k))
      BY <1>1, <2>1, RemovalKnowsNothing DEF RemovalOps
    <2> QED
      BY <1>2, <2>3, BecomesReads, NothingKnown DEF k
  <1> QED
    BY <1>2, TruncateCases, EndsReads

LEMMA PlanInsertReads ==
  ASSUME TInv, RInv, NEW c \in Client, PlanInsert(c)
  PROVE  RInv'
  <1>1. job[c].req.op = "insert" /\ JobTyped(job[c])
    BY JobOKNow DEF PlanInsert, Plans
  <1>2. NotReading(Started(c)) /\ NotReading([job[c] EXCEPT !.pc = "append"])
    BY <1>1 DEF Started, JobTyped, Idle, NotReading
  <1>3. \/ EndsWith(c, "error") \/ MasterPanics(c)
        \/ Becomes(c, Started(c)) \/ NoLocation(c)
    BY InsertCases
  <1>4. CASE NoLocation(c)
    BY <1>2, <1>4, OneCallReads, SameChunks, NothingKnown DEF NoLocation, file
  <1> QED
    BY <1>2, <1>3, <1>4, EndsReads, PanicsReads, BecomesReads, NothingKnown

LEMMA OpenFileReads ==
  ASSUME TInv, RInv, NEW c \in Client, OpenFile(c)
  PROVE  RInv'
  <1> DEFINE list == Singletons(handles)
             k == [job[c] EXCEPT !.pc = "list", !.size = size, !.list = list]
  <1>1. Becomes(c, k)
    BY DEF OpenFile, Singletons, Becomes
  <1>2. JobTyped(job[c])
    BY JobOKNow
  <1> HIDE DEF list
  <1>3. NotReading(k)
    BY <1>2 DEF JobTyped, Idle, NotReading
  <1> HIDE DEF k
  <1> QED
    BY <1>1, <1>3, BecomesReads, NothingKnown

LEMMA OpenForInsertReads ==
  ASSUME TInv, RInv, NEW c \in Client, NEW hs, OpenForInsert(c, hs)
  PROVE  RInv'
  <1> DEFINE k(old, at, reads) == [job[c] EXCEPT !.pc = "read", !.list = << >>, !.old = old,
                                                 !.at = at, !.reads = reads]
  <1>1. job[c].req.op = "insert" /\ JobTyped(job[c])
    BY JobOKNow DEF OpenForInsert, Opens
  <1>2. \A old, at, reads : NotReading(k(old, at, reads))
    BY <1>1 DEF JobTyped, Idle, NotReading
  <1>3. EndsWith(c, "error") \/ \E old, at, reads : Becomes(c, k(old, at, reads))
    BY DEF OpenForInsert, Becomes
  <1> HIDE DEF k
  <1> QED
    BY <1>2, <1>3, EndsReads, BecomesReads, NothingKnown

LEMMA OpenForDeleteReads ==
  ASSUME TInv, RInv, NEW c \in Client, NEW hs \in Lists(c), OpenForDelete(c, hs)
  PROVE  RInv'
  <1> DEFINE k == [job[c] EXCEPT !.pc = "remove", !.list = << >>, !.old = hs]
  <1>1. /\ job[c].req.op = "delete" /\ JobTyped(job[c]) /\ hs \in Seq(Handle)
        /\ Becomes(c, AfterRemoval(k))
    BY JobOKNow, ListsOK DEF OpenForDelete, Opens, Becomes
  <1>2. /\ DOMAIN k = DOMAIN Idle /\ k.pc = "remove" /\ k.req = job[c].req
        /\ k.calls = job[c].calls /\ k.old = hs /\ k.new = job[c].new
        /\ k.at = job[c].at /\ k.buffer = job[c].buffer
        /\ k.cut = job[c].cut /\ k.reads = job[c].reads /\ k.got = job[c].got
        /\ k.list = << >> /\ k.size = job[c].size
    BY <1>1 DEF JobTyped, Idle
  <1> HIDE DEF k
  <1>3. JobTyped(k)
    BY <1>1, <1>2, EmptyListOK DEF JobTyped
  <1>4. NotReading(AfterRemoval(k))
    BY <1>1, <1>2, <1>3, RemovalKnowsNothing DEF RemovalOps
  <1> QED
    BY <1>1, <1>4, BecomesReads, NothingKnown

LEMMA RemoveReplicasReads ==
  ASSUME TInv, RInv, NEW c \in Client, RemoveReplicas(c)
  PROVE  RInv'
  <1> DEFINE k == [job[c] EXCEPT !.gone = TRUE]
  <1>1. JobTyped(job[c]) /\ job[c].pc = "remove"
    BY JobOKNow DEF RemoveReplicas, At
  <1>2. EndsWith(c, "error") \/ (job' = [job EXCEPT ![c] = k] /\ UNCHANGED data)
    BY DEF RemoveReplicas
  <1>3. NotReading(k)
    BY <1>1 DEF JobTyped, Idle, NotReading
  <1> HIDE DEF k
  <1> QED
    BY <1>2, <1>3, EndsReads, OneCallReads, SameChunks, NothingKnown

LEMMA RemoveReads ==
  ASSUME TInv, RInv, NEW c \in Client, RemoveChunk(c) \/ RemoveUnreported(c)
  PROVE  RInv'
  <1> DEFINE h == Head(job[c].old)
             rest == [job[c] EXCEPT !.old = Tail(@), !.gone = FALSE]
             goes == GoesOr(Shifted(handles'), c, AfterRemoval(rest), Ended(job[c], "error"))
  <1>1. /\ JobTyped(job[c]) /\ job[c].pc = "remove" /\ job[c].req.op \in RemovalOps
        /\ job[c].old # << >>
    BY JobOKNow DEF JobPlaced, RemoveChunk, RemoveUnreported, At, RemovalOps
  <1>2. NotReading(AfterRemoval(rest))
    <2>1. Tail(job[c].old) \in Seq(Handle)
      BY <1>1 DEF JobTyped
    <2>2. /\ DOMAIN rest = DOMAIN Idle /\ rest.pc = "remove" /\ rest.req = job[c].req
          /\ rest.calls = job[c].calls /\ rest.old = Tail(job[c].old) /\ rest.new = job[c].new
          /\ rest.at = job[c].at /\ rest.buffer = job[c].buffer /\ rest.cut = job[c].cut
          /\ rest.reads = job[c].reads /\ rest.got = job[c].got
          /\ rest.list = job[c].list /\ rest.size = job[c].size
      BY <1>1 DEF JobTyped, Idle
    <2> HIDE DEF rest
    <2>3. JobTyped(rest)
      BY <1>1, <2>1, <2>2 DEF JobTyped
    <2> QED
      BY <1>1, <2>2, <2>3, RemovalKnowsNothing
  <1>3. \/ EndsWith(c, "error")
        \/ data' = WithoutFile(h) /\ goes
        \/ data' = WithoutFile(h) /\ job' = [job EXCEPT ![c] = Ended(job[c], "error")]
    BY DEF RemoveChunk, RemoveUnreported
  <1> HIDE DEF h, rest
  <1>4. CASE EndsWith(c, "error")
    BY <1>4, EndsReads
  <1>5. CASE data' = WithoutFile(h) /\ goes
    BY <1>2, <1>5, FewerChunks, ShiftedReads
  <1>6. CASE data' = WithoutFile(h) /\ job' = [job EXCEPT ![c] = Ended(job[c], "error")]
    BY <1>6, FewerChunks, OneCallReads, EndedKnowsNothing, NothingKnown
  <1> QED
    BY <1>3, <1>4, <1>5, <1>6

LEMMA AllocateReads ==
  ASSUME TInv, RInv, NEW c \in Client, Allocate(c)
  PROVE  RInv'
  <1> DEFINE h == Fresh(1)[1]
             k == [job[c] EXCEPT !.new = Append(@, h)]
  <1>1. JobTyped(job[c]) /\ job[c].pc = "allocate"
    BY JobOKNow DEF Allocate, At
  <1>2. \/ EndsWith(c, "error")
        \/ /\ GoesOr(Shifted(handles'), c, AfterAllocation(k), Ended(job[c], "error"))
           /\ UNCHANGED data
    BY DEF Allocate
  <1> HIDE DEF h
  <1>3. k.pc # "read"
    BY <1>1 DEF JobTyped, Idle
  <1> HIDE DEF k
  <1>4. NotReading(AfterAllocation(k))
    BY <1>3, AllocationKnowsNothing DEF NotReading
  <1> QED
    BY <1>2, <1>4, EndsReads, ShiftedReads, SameChunks

\* What a chunk holds after a write or a cut is noted by the reads that want it.
LEMMA NotedKnown ==
  ASSUME TInv, RInv, NEW h, NEW bytes, NEW c \in Client
  PROVE  ReadKnown(Noted(h, bytes)[c], WithBytes(h, bytes))
  <1> DEFINE j == job[c]
             seen(p) == {bytes[m] : m \in {m \in DOMAIN bytes :
                           m = ((p - 1) % ChunkSize) + 1 /\ j.reads[ChunkOf(p - 1) + 1].h = h}}
             may == [p \in DOMAIN j.may |-> j.may[p] \cup seen(p)]
             k == [j EXCEPT !.may = may]
             d == WithBytes(h, bytes)
  <1>1. Noted(h, bytes)[c] = k
    BY DEF Noted
  <1>2. JobTyped(j)
    BY JobOKNow
  <1>3. /\ DOMAIN may = DOMAIN j.may /\ may = [p \in DOMAIN j.may |-> may[p]]
        /\ \A p \in DOMAIN j.may : may[p] = j.may[p] \cup seen(p)
    OBVIOUS
  <1> HIDE DEF may
  <1>4. /\ k.pc = j.pc /\ k.req = j.req /\ k.reads = j.reads /\ k.got = j.got /\ k.size = j.size
        /\ k.may = may
    BY <1>2 DEF JobTyped, Idle
  <1> HIDE DEF k, d
  <1>5. CASE NotReading(j)
    BY <1>1, <1>4, <1>5, NothingKnown DEF NotReading
  <1>6. CASE ReadsFile(j) /\ KnowsBytes(j, data)
    <2>3. ASSUME NEW p \in 1 .. j.size, PartOf(p) \in DOMAIN j.reads
          PROVE  /\ p \in DOMAIN may
                 /\ PartOf(p) \in DOMAIN j.got => Allowed(may, p, j.got[PartOf(p)])
                 /\ Allowed(may, p, ChunkIn(d, j.reads[PartOf(p)].h))
      <3> DEFINE g == j.reads[PartOf(p)].h
      <3>1. /\ p \in DOMAIN j.may
            /\ PartOf(p) \in DOMAIN j.got => Allowed(j.may, p, j.got[PartOf(p)])
            /\ Allowed(j.may, p, ChunkIn(data, g))
        BY <1>6, <2>3 DEF KnowsBytes, KnowsByte
      <3>2. p \in DOMAIN may /\ may[p] = j.may[p] \cup seen(p)
        BY <1>3, <3>1
      <3>3. CASE g = h
        <4>1. ChunkIn(d, g) = bytes
          BY <3>3 DEF ChunkIn, WithBytes, d
        <4>2. PlaceIn(p) \in DOMAIN bytes => bytes[PlaceIn(p)] \in seen(p)
          BY <3>3 DEF PlaceIn, PartOf
        <4> HIDE DEF seen, g
        <4> QED
          BY <3>1, <3>2, <4>1, <4>2 DEF Allowed, g
      <3>4. CASE g # h
        <4>1. ChunkIn(d, g) = ChunkIn(data, g)
          BY <3>4 DEF ChunkIn, WithBytes, d
        <4> HIDE DEF seen, g
        <4> QED
          BY <3>1, <3>2, <4>1 DEF Allowed, g
      <3> QED
        BY <3>3, <3>4
    <2>4. KnowsBytes(k, d)
      BY <1>4, <1>6, <2>3 DEF KnowsBytes, KnowsByte
    <2>5. ReadsFile(k)
      BY <1>4, <1>6 DEF ReadsFile
    <2> QED
      BY <1>1, <2>4, <2>5 DEF ReadKnown, d
  <1> QED
    BY <1>5, <1>6 DEF RInv, ReadKnown

LEMMA ChangeReads ==
  ASSUME TInv, RInv, NEW c \in Client, NEW h, NEW bytes, NEW growth, NEW written, NEW j, NEW k,
         Change(c, h, bytes, growth, written, j, k), NotReading(j), NotReading(k)
  PROVE  RInv'
  <1> DEFINE n == Noted(h, bytes)
  <1>1. n = [d \in Client |-> n[d]]
    BY NotedSame
  <1>2. (job' = [n EXCEPT ![c] = j] \/ job' = [n EXCEPT ![c] = k]) /\ data' = WithBytes(h, bytes)
    BY DEF Change, GoesOr
  <1>3. \A d \in Client : ReadKnown(n[d], data')
    BY <1>2, NotedKnown
  <1> HIDE DEF n
  <1>4. NotReading(job'[c]) /\ \A d \in Client \ {c} : job'[d] = n[d]
    BY <1>1, <1>2
  <1> QED
    BY <1>3, <1>4, NothingKnown DEF RInv

LEMMA StoreReads ==
  ASSUME TInv, RInv, NEW c \in Client, NEW i \in DOMAIN job[c].calls, StoreOne(c, i)
  PROVE  RInv'
  <1> DEFINE calls == RemoveAt(job[c].calls, i)
             rest == [job[c] EXCEPT !.calls = calls]
             sour == [rest EXCEPT !.failed = TRUE]
  <1>1. JobTyped(job[c]) /\ job[c].pc = "store"
    BY JobOKNow DEF StoreOne, At
  <1>2. \/ WriteChunk(c, job[c].calls[i], AfterStores(rest), AfterStores(sour))
        \/ job' = [job EXCEPT ![c] = AfterStores(sour)] /\ UNCHANGED data
    BY DEF StoreOne, file
  <1> HIDE DEF calls
  <1>3. rest.pc = "store" /\ sour.pc = "store"
    BY <1>1 DEF JobTyped, Idle
  <1> HIDE DEF rest, sour
  <1>4. NotReading(AfterStores(rest)) /\ NotReading(AfterStores(sour))
    BY <1>3, StoresKnowNothing DEF NotReading
  <1>5. CASE WriteChunk(c, job[c].calls[i], AfterStores(rest), AfterStores(sour))
    BY <1>4, <1>5, ChangeReads DEF WriteChunk
  <1>6. CASE job' = [job EXCEPT ![c] = AfterStores(sour)] /\ UNCHANGED data
    BY <1>4, <1>6, OneCallReads, SameChunks, NothingKnown
  <1> QED
    BY <1>2, <1>5, <1>6

LEMMA RewriteReads ==
  ASSUME TInv, RInv, NEW c \in Client, Rewrite(c)
  PROVE  RInv'
  <1> DEFINE rest == [job[c] EXCEPT !.calls = Tail(@)]
  <1>1. JobTyped(job[c]) /\ job[c].pc = "rewrite"
    BY JobOKNow DEF Rewrite, At
  <1>2. NotReading(rest)
    BY <1>1 DEF JobTyped, Idle, NotReading
  <1>3. WriteChunk(c, Head(job[c].calls), AfterStores(rest), Ended(rest, "error"))
    BY DEF Rewrite
  <1> HIDE DEF rest
  <1> QED
    BY <1>2, <1>3, StoresKnowNothing, EndedKnowsNothing, ChangeReads DEF WriteChunk

LEMMA CutReads ==
  ASSUME TInv, RInv, NEW c \in Client, Cut(c)
  PROVE  RInv'
  BY EndsReads, EndedKnowsNothing, ChangeReads DEF Cut

\* Of a list that is too long for the size only the first chunks are read.
LEMMA FirstParts ==
  ASSUME NEW l \in Nat, NEW n \in Nat
  PROVE  \E m \in 0 .. l : {i \in 1 .. l : (i - 1) * ChunkSize < n} = 1 .. m
  <1>1. CASE n = 0
    <2>1. ASSUME NEW i \in 1 .. l PROVE ~((i - 1) * ChunkSize < n)
      <3>1. (i - 1) * ChunkSize \in Nat
        BY ChunkSizeAssumption
      <3> QED
        BY <1>1, <3>1
    <2>2. {i \in 1 .. l : (i - 1) * ChunkSize < n} = 1 .. 0
      BY <2>1
    <2> QED
      BY <2>2
  <1>2. CASE n # 0
    <2> DEFINE q == ChunkOf(n - 1)
               a == q * ChunkSize
               m == Smaller(l, q + 1)
    <2>1. q \in Nat /\ a \in Nat /\ a <= n - 1 /\ n - 1 < a + ChunkSize
      BY <1>2, ChunkBounds
    <2>2. m \in 0 .. l /\ \A i \in 1 .. l : i <= m <=> i - 1 <= q
      <3> HIDE DEF q
      <3> QED
        BY <2>1 DEF Smaller
    <2>3. ASSUME NEW i \in 1 .. l PROVE (i - 1) * ChunkSize < n <=> i - 1 <= q
      <3> DEFINE b == (i - 1) * ChunkSize
      <3>1. b \in Nat
        BY ChunkSizeAssumption
      <3> HIDE DEF q
      <3>2. i - 1 <= q => b <= a
        BY <2>1, ChunkSizeAssumption
      <3>3. i - 1 >= q + 1 => b >= a + ChunkSize
        <4>1. (q + 1) * ChunkSize = a + ChunkSize
          BY <2>1, ChunkSizeAssumption
        <4>2. i - 1 >= q + 1 => (i - 1) * ChunkSize >= (q + 1) * ChunkSize
          BY <2>1, ChunkSizeAssumption
        <4> QED
          BY <4>1, <4>2
      <3> HIDE DEF a, b
      <3>4. b < n <=> i - 1 <= q
        BY <2>1, <3>1, <3>2, <3>3, ChunkSizeAssumption
      <3> QED
        BY <3>4 DEF b
    <2> HIDE DEF m
    <2>4. {i \in 1 .. l : (i - 1) * ChunkSize < n} = 1 .. m
      BY <2>2, <2>3
    <2> QED
      BY <2>2, <2>4
  <1> QED
    BY <1>1, <1>2

\* What Read asks for when it has the list, and may answer then.
LEMMA OpenedKnown ==
  ASSUME TInv, NEW c \in Client, NEW hs \in Lists(c), OpenForRead(c, hs)
  PROVE  ReadKnown(OpenedToRead(c, hs), data)
  <1> DEFINE k == OpenedToRead(c, hs)
             n == k.size
             l == Len(hs)
             w(i) == Smaller(ChunkSize, n - (i - 1) * ChunkSize)
  <1>1. /\ k.got = << >> /\ k.reads = PartsOf(hs, n) /\ k.may = FoundNow(hs, n)
        /\ JobTyped(k)
    BY OpenedOK
  <1>2. \A i \in DOMAIN k.reads : k.reads[i] \in ReadPart
    BY <1>1 DEF JobTyped
  <1>3. n \in Nat /\ hs \in Seq(Handle) /\ l \in Nat /\ DOMAIN hs = 1 .. l
    BY <1>1, ListsOK DEF JobTyped
  <1> HIDE DEF k, n, l
  <1>4. PICK m \in 0 .. l : {i \in 1 .. l : (i - 1) * ChunkSize < n} = 1 .. m
    BY <1>3, FirstParts
  <1>5. DOMAIN k.reads = 1 .. m
    BY <1>1, <1>3, <1>4 DEF PartsOf
  <1>6. \A i \in 1 .. m : /\ i \in 1 .. l /\ (i - 1) * ChunkSize < n
                          /\ k.reads[i].h = hs[i] /\ k.reads[i].off = 0 /\ k.reads[i].n = w(i)
    <2>1. \A i \in 1 .. m : i \in 1 .. l /\ (i - 1) * ChunkSize < n
      BY <1>4
    <2>2. \A i \in 1 .. m : k.reads[i] = [h |-> hs[i], off |-> 0, n |-> w(i)]
      BY <1>1, <1>3, <2>1 DEF PartsOf
    <2>3. ASSUME NEW i \in 1 .. m
          PROVE  k.reads[i].h = hs[i] /\ k.reads[i].off = 0 /\ k.reads[i].n = w(i)
      <3> DEFINE a == hs[i]
                 b == w(i)
      <3>1. k.reads[i] = [h |-> a, off |-> 0, n |-> b]
        BY <2>2
      <3> HIDE DEF a, b
      <3>2. k.reads[i].h = a /\ k.reads[i].off = 0 /\ k.reads[i].n = b
        BY <3>1
      <3> QED
        BY <3>2 DEF a, b
    <2> QED
      BY <2>1, <2>3
  <1>7. k.reads \in Seq(ReadPart) /\ Len(k.reads) = m
    <2>1. k.reads = [i \in 1 .. m |-> k.reads[i]]
      BY <1>1, <1>5 DEF PartsOf
    <2>2. k.reads \in [1 .. m -> ReadPart]
      BY <1>2, <1>5, <2>1
    <2> QED
      BY <2>2
  <1>8. ReadsFile(k)
    BY <1>3, <1>6, <1>7 DEF ReadsFile, n
  <1>9. ASSUME NEW p \in 1 .. n, PartOf(p) \in 1 .. m PROVE KnowsByte(k, data, p)
    <2>1. PartOf(p) \in 1 .. l
      BY <1>6, <1>9
    <2>2. p \in 1 .. l * ChunkSize
      <3> DEFINE q == ChunkOf(p - 1)
      <3>0. p - 1 \in Nat
        BY <1>3
      <3>1. q \in Nat /\ q * ChunkSize \in Nat /\ p - 1 < q * ChunkSize + ChunkSize
        BY <3>0, ChunkBounds
      <3>2. q + 1 <= l
        BY <2>1 DEF PartOf
      <3> HIDE DEF q
      <3>3. q * ChunkSize + ChunkSize = (q + 1) * ChunkSize
        BY <3>1, ChunkSizeAssumption
      <3>4. (q + 1) * ChunkSize <= l * ChunkSize /\ l * ChunkSize \in Nat
        BY <1>3, <3>1, <3>2, ChunkSizeAssumption
      <3> DEFINE a == q * ChunkSize
                 b == (q + 1) * ChunkSize
                 e == l * ChunkSize
      <3>5. a \in Nat /\ e \in Nat /\ p - 1 < a + ChunkSize /\ a + ChunkSize = b /\ b <= e
        BY <3>1, <3>3, <3>4
      <3> HIDE DEF a, b, e
      <3>6. p \in 1 .. e
        BY <1>3, <3>5, ChunkSizeAssumption
      <3> QED
        BY <3>6 DEF e
    <2>3. p \in 1 .. Smaller(n, l * ChunkSize)
      BY <1>3, <2>2 DEF Smaller
    <2>4. p \in DOMAIN k.may /\ k.may[p] = ByteAt(hs, p)
      BY <1>1, <2>3 DEF FoundNow, l
    <2>5. k.reads[PartOf(p)].h = hs[PartOf(p)]
      BY <1>6, <1>9
    <2>6. ChunkIn(data, hs[PartOf(p)]) = Chunk(hs[PartOf(p)])
      BY DEF ChunkIn, Chunk, Holds
    <2>7. Allowed(k.may, p, Chunk(hs[PartOf(p)]))
      BY <2>4 DEF Allowed, ByteAt, PlaceIn, PartOf
    <2>8. DOMAIN k.got = {}
      BY <1>1
    <2> QED
      BY <2>4, <2>5, <2>6, <2>7, <2>8 DEF KnowsByte
  <1>10. KnowsBytes(k, data)
    <2>1. DOMAIN k.got = {}
      BY <1>1
    <2> QED
      BY <1>5, <1>9, <2>1 DEF KnowsBytes, n
  <1> QED
    BY <1>8, <1>10 DEF ReadKnown, k

LEMMA AfterReadsKnown ==
  ASSUME NEW j, NEW d, j.pc = "read", j.req.op = "read", ReadKnown(j, d)
  PROVE  ReadKnown(AfterReads(j), d)
  <1>1. AfterReads(j) = j \/ AfterReads(j) = Ended(j, Answer(j))
    BY DEF AfterReads
  <1> QED
    BY <1>1, EndedKnowsNothing, NothingKnown

LEMMA OpenForReadReads ==
  ASSUME TInv, RInv, NEW c \in Client, NEW hs \in Lists(c), OpenForRead(c, hs)
  PROVE  RInv'
  <1> DEFINE k == OpenedToRead(c, hs)
  <1>1. Becomes(c, AfterReads(k)) /\ k.pc = "read" /\ k.req.op = "read" /\ ReadKnown(k, data)
    BY OpenedOK, OpenedKnown
  <1> HIDE DEF k
  <1> QED
    BY <1>1, AfterReadsKnown, BecomesReads

LEMMA WithReadKnown ==
  ASSUME TInv, RInv, NEW c \in Client, job[c].pc = "read", job[c].req.op = "read",
         NEW i \in DOMAIN job[c].reads
  PROVE  ReadKnown(WithRead(c, i), data)
  <1> DEFINE j == job[c]
             k == WithRead(c, i)
             r == j.reads[i]
             chunk == Chunk(r.h)
             bytes == Slice(chunk, r.off, r.n)
  <1>1. /\ k.pc = j.pc /\ k.req = j.req /\ k.reads = j.reads /\ k.size = j.size /\ k.may = j.may
        /\ DOMAIN k.got = DOMAIN j.got \cup {i} /\ k.got[i] = bytes
        /\ \A m \in DOMAIN j.got \ {i} : k.got[m] = j.got[m]
        /\ r \in ReadPart
    BY WithReadOK
  <1> HIDE DEF k, j
  <1> SUFFICES ReadsFile(k) /\ KnowsBytes(k, data)
    BY DEF ReadKnown, k
  <1>2. ReadsFile(j) /\ KnowsBytes(j, data)
    BY DEF RInv, ReadKnown, NotReading, j
  <1>3. r.off = 0 /\ r.n \in Nat /\ i \in 1 .. Len(j.reads)
    BY <1>1, <1>2 DEF ReadsFile, ReadPart, j
  <1>4. chunk \in Seq(Byte) /\ chunk = ChunkIn(data, r.h)
    BY ChunkIsSeq DEF Chunk, ChunkIn, Holds
  <1> HIDE DEF chunk, r
  <1>5. /\ Len(bytes) <= r.n /\ DOMAIN bytes = 1 .. Len(bytes)
        /\ \A m \in DOMAIN bytes : m \in DOMAIN chunk /\ bytes[m] = chunk[m]
    <2>1. /\ bytes \in Seq(Byte) /\ Len(bytes) <= r.n
          /\ \A m \in 1 .. Len(bytes) : 0 + m \in 1 .. Len(chunk) /\ bytes[m] = chunk[0 + m]
      BY <1>3, <1>4, SliceIsSeq
    <2> HIDE DEF bytes
    <2>2. \A m \in 1 .. Len(bytes) : 0 + m = m
      BY <2>1
    <2> QED
      BY <1>4, <2>1, <2>2
  <1> HIDE DEF bytes
  <1>6. ReadsFile(k)
    BY <1>1, <1>2 DEF ReadsFile
  <1>7. ASSUME NEW p \in 1 .. j.size, PartOf(p) \in DOMAIN j.reads, PartOf(p) \in DOMAIN k.got
        PROVE  Allowed(j.may, p, k.got[PartOf(p)])
    <2>1. CASE PartOf(p) = i
      <3>1. Allowed(j.may, p, chunk)
        BY <1>2, <1>4, <1>7, <2>1 DEF KnowsBytes, KnowsByte, r
      <3> QED
        BY <1>1, <1>5, <2>1, <3>1 DEF Allowed
    <2>2. CASE PartOf(p) # i
      BY <1>1, <1>2, <1>7, <2>2 DEF KnowsBytes, KnowsByte
    <2> QED
      BY <2>1, <2>2
  <1>8. \A m \in DOMAIN k.got : Len(k.got[m]) <= k.reads[m].n
    BY <1>1, <1>2, <1>5 DEF KnowsBytes, r
  <1>9. KnowsBytes(k, data)
    BY <1>1, <1>2, <1>7, <1>8 DEF KnowsBytes, KnowsByte
  <1> QED
    BY <1>6, <1>9

LEMMA ReadChunkReads ==
  ASSUME TInv, RInv, NEW c \in Client, NEW i \in DOMAIN job[c].reads, ReadChunk(c, i)
  PROVE  RInv'
  <1> DEFINE k == WithRead(c, i)
  <1>1. JobPlaced(job[c]) /\ job[c].pc = "read"
    BY JobOKNow DEF ReadChunk, At
  <1>2. EndsWith(c, "error") \/ Becomes(c, AfterReads(k))
    BY DEF ReadChunk, Becomes
  <1>3. JobTyped(k) /\ k.pc = "read" /\ k.req = job[c].req /\ k.reads = job[c].reads
    BY <1>1, WithReadOK
  <1>4. CASE job[c].req.op = "read"
    <2>1. ReadKnown(k, data)
      BY <1>1, <1>4, WithReadKnown
    <2> HIDE DEF k
    <2> QED
      BY <1>2, <1>3, <1>4, <2>1, AfterReadsKnown, EndsReads, BecomesReads
  <1>5. CASE job[c].req.op # "read"
    <2> HIDE DEF k
    <2>2. NotReading(AfterReads(k))
      BY <1>1, <1>3, <1>5, ReadsKnowNothing DEF JobPlaced
    <2> QED
      BY <1>2, <2>2, NothingKnown, EndsReads, BecomesReads
  <1> QED
    BY <1>4, <1>5

-----------------------------------------------------------------------------
LEMMA RInvInit == Init => RInv
  <1>1. NotReading(Idle)
    BY DEF Idle, NotReading
  <1> QED
    BY <1>1, NothingKnown DEF Init, RInv

LEMMA RInvNext == TInv /\ RInv /\ [Next]_vars => RInv'
  <1> SUFFICES ASSUME TInv, RInv, [Next]_vars PROVE RInv'
    OBVIOUS
  <1>1. CASE UNCHANGED vars
    BY <1>1 DEF vars, RInv
  <1>2. ASSUME NEW c \in Client, Step(c) PROVE RInv'
    <2>1. CASE \E r \in Requests(c) : Invoke(c, r)
      BY <2>1, InvokeReads
    <2>2. CASE NotFound(c) \/ NoAnswer(c)
      BY <2>2, FailsReads
    <2>3. CASE Create(c) \/ Forget(c)
      BY <2>3, CreateForgetReads
    <2>4. CASE PlanWrite(c) \/ PlanAppend(c)
      BY <2>4, PlanWriteReads
    <2>5. CASE PlanDeleteRange(c) \/ PlanTruncate(c) \/ PlanInsert(c) \/ OpenFile(c)
      BY <2>5, PlanDeleteRangeReads, PlanTruncateReads, PlanInsertReads, OpenFileReads
    <2>6. CASE \E hs \in Lists(c) : OpenForInsert(c, hs) \/ OpenForDelete(c, hs) \/ OpenForRead(c, hs)
      BY <2>6, OpenForInsertReads, OpenForDeleteReads, OpenForReadReads
    <2>7. CASE \E i \in DOMAIN job[c].reads : ReadChunk(c, i)
      BY <2>7, ReadChunkReads
    <2>8. CASE \E i \in DOMAIN job[c].calls : StoreOne(c, i)
      BY <2>8, StoreReads
    <2>9. CASE RemoveReplicas(c) \/ RemoveChunk(c) \/ RemoveUnreported(c) \/ Allocate(c)
      BY <2>9, RemoveReplicasReads, RemoveReads, AllocateReads
    <2>10. CASE Rewrite(c) \/ Cut(c)
      BY <2>10, RewriteReads, CutReads
    <2> QED
      BY <1>2, <2>1, <2>2, <2>3, <2>4, <2>5, <2>6, <2>7, <2>8, <2>9, <2>10 DEF Step
  <1> QED
    BY <1>1, <1>2 DEF Next

\* What a read with all its parts answers, when it is long enough.
LEMMA KnownAnswer ==
  ASSUME NEW j, NEW d, JobTyped(j), ReadsFile(j), KnowsBytes(j, d),
         DOMAIN j.got = DOMAIN j.reads, Len(Got(j)) = j.size, j.size # 0
  PROVE  \A p \in 1 .. j.size : Got(j)[p] \in j.may[p]
  <1> DEFINE s == [i \in DOMAIN j.reads |-> j.got[i]]
             n == Len(j.reads)
             a == (n - 1) * ChunkSize
             w == j.size - a
  <1>1. n \in Nat /\ DOMAIN j.reads = 1 .. n /\ j.size \in Nat
    BY DEF ReadsFile
  <1>2. s \in Seq(Seq(Byte)) /\ Got(j) = FlattenSeq(s)
    BY GotOK DEF ReadsFile, Got
  <1>3. DOMAIN s = 1 .. n /\ \A i \in 1 .. n : s[i] = j.got[i]
    BY <1>1
  <1>4. Len(s) = n
    BY <1>1, <1>2, <1>3
  <1>5. n # 0
    <2> SUFFICES ASSUME n = 0 PROVE FALSE
      OBVIOUS
    <2>1. s = << >>
      BY <1>2, <1>4
    <2>2. Len(FlattenSeq(<< >>)) = 0
      BY DEF FlattenSeq
    <2> QED
      BY <1>2, <2>1, <2>2
  <1> HIDE DEF s
  <1>6. s # << >>
    BY <1>4, <1>5
  <1>7. \A i \in 1 .. n : Len(s[i]) <= j.reads[i].n
    BY <1>1, <1>3 DEF KnowsBytes
  <1>8. \A i \in 1 .. n : Len(s[i]) <= ChunkSize
    <2> SUFFICES ASSUME NEW i \in 1 .. n PROVE Len(s[i]) <= ChunkSize
      OBVIOUS
    <2> DEFINE rest == j.size - (i - 1) * ChunkSize
    <2>1. j.reads[i].n = Smaller(ChunkSize, rest) /\ Len(s[i]) <= j.reads[i].n
      BY <1>7 DEF ReadsFile
    <2>2. rest \in Int /\ Len(s[i]) \in Nat
      BY <1>1, <1>2, <1>4, ChunkSizeAssumption
    <2> HIDE DEF rest
    <2> QED
      BY <2>1, <2>2, ChunkSizeAssumption DEF Smaller
  <1>9. j.size <= n * ChunkSize
    BY <1>2, <1>4, <1>6, <1>8, FlattenBound
  <1>10. a \in Nat /\ n * ChunkSize = a + ChunkSize /\ a < j.size
    <2>1. a \in Nat /\ n * ChunkSize = a + ChunkSize
      BY <1>1, <1>5, ChunkSizeAssumption
    <2>2. a < j.size
      BY <1>1, <1>5 DEF ReadsFile
    <2> QED
      BY <2>1, <2>2
  <1> HIDE DEF a
  <1>11. w \in Nat /\ w <= ChunkSize /\ j.size = a + w
    <2> DEFINE b == n * ChunkSize
    <2>1. j.size <= b /\ b = a + ChunkSize
      BY <1>9, <1>10
    <2> HIDE DEF b
    <2> QED
      BY <1>1, <1>10, <2>1, ChunkSizeAssumption
  <1>12. Len(s[n]) <= w
    <2>1. j.reads[n].n = Smaller(ChunkSize, w)
      BY <1>1, <1>5 DEF ReadsFile, a
    <2>2. Smaller(ChunkSize, w) = w
      BY <1>11, ChunkSizeAssumption DEF Smaller
    <2> QED
      BY <1>1, <1>5, <1>7, <2>1, <2>2
  <1>13. FullButLast(s)
    <2>1. Len(FlattenSeq(s)) = (Len(s) - 1) * ChunkSize + w
      BY <1>2, <1>4, <1>11 DEF a
    <2> HIDE DEF w, n
    <2> QED
      BY <1>2, <1>4, <1>6, <1>8, <1>11, <1>12, <2>1, FlattenTight
  <1> SUFFICES ASSUME NEW p \in 1 .. j.size PROVE Got(j)[p] \in j.may[p]
    OBVIOUS
  <1>14. IsOffset(s, p) /\ FlattenSeq(s)[p] = ByOffset(s, p)
    <2>1. p \in 1 .. Len(FlattenSeq(s))
      BY <1>2
    <2> QED
      BY <1>2, <1>6, <1>13, <2>1, FlattenIndex
  <1>15. /\ PartOf(p) \in 1 .. n /\ PlaceIn(p) \in 1 .. Len(s[PartOf(p)])
         /\ Got(j)[p] = s[PartOf(p)][PlaceIn(p)]
    BY <1>2, <1>4, <1>14 DEF IsOffset, ByOffset, PartOf, PlaceIn
  <1>16. s[PartOf(p)] \in Seq(Byte) /\ s[PartOf(p)] = j.got[PartOf(p)]
    BY <1>2, <1>3, <1>4, <1>15
  <1>17. Allowed(j.may, p, j.got[PartOf(p)])
    BY <1>1, <1>15 DEF KnowsBytes, KnowsByte
  <1> QED
    BY <1>15, <1>16, <1>17 DEF Allowed

\* ReadsReturnListedBytes: for any clients, however their calls overlap and fail, a read
\* that is answered "ok" (client.go's ReadFile: goroutines for the chunks, then the
\* length compared with the size) returns as many bytes as the file had when it was
\* opened, and at each place one that the chunk for this place, in the list that the
\* client was given, has held since.  It says nothing of the list, which need not have
\* been the file's at any moment.
THEOREM ReadsReturnListedBytes == Spec => ReadsFollowTheList
  <1> DEFINE Right(c, i) ==
               LET j == WithRead(c, i)
               IN  Answered(c, i) => /\ Len(Got(j)) = j.size
                                     /\ \A p \in 1 .. j.size : Got(j)[p] \in j.may[p]
             AllRight == \A c \in Client : \A i \in DOMAIN job[c].reads : Right(c, i)
  <1>1. TInv /\ RInv => AllRight
    <2> SUFFICES ASSUME TInv, RInv, NEW c \in Client, NEW i \in DOMAIN job[c].reads
                 PROVE  Right(c, i)
      OBVIOUS
    <2> DEFINE j == WithRead(c, i)
    <2> SUFFICES ASSUME Answered(c, i)
                 PROVE  /\ Len(Got(j)) = j.size
                        /\ \A p \in 1 .. j.size : Got(j)[p] \in j.may[p]
      OBVIOUS
    <2>1. /\ job[c].pc = "read" /\ job[c].req.op = "read" /\ Answer(j) = "ok"
          /\ DOMAIN j.got = DOMAIN job[c].reads
      BY DEF Answered, ReadChunk, At
    <2>2. /\ JobTyped(j) /\ j.pc = "read" /\ j.req.op = "read" /\ j.reads = job[c].reads
      BY <2>1, WithReadOK
    <2>3. ReadKnown(j, data)
      BY <2>1, WithReadKnown
    <2> HIDE DEF j
    <2>4. ReadsFile(j) /\ KnowsBytes(j, data) /\ j.size \in Nat
      BY <2>2, <2>3 DEF ReadKnown, NotReading, ReadsFile
    <2>5. Len(Got(j)) = j.size
      BY <2>1 DEF Answer
    <2>6. CASE j.size = 0
      BY <2>5, <2>6
    <2>7. CASE j.size # 0
      <3>1. DOMAIN j.got = DOMAIN j.reads
        BY <2>1, <2>2
      <3> QED
        BY <2>2, <2>4, <2>5, <2>7, <3>1, KnownAnswer
    <2> QED
      BY <2>6, <2>7
  <1>2. AllRight => [AllRight]_vars
    OBVIOUS
  <1>3. TInv /\ RInv /\ [Next]_vars => (TInv /\ RInv)'
    BY TInvNext, RInvNext
  <1>4. Init => TInv /\ RInv
    BY TInvInit, RInvInit
  <1>5. ReadsFollowTheList <=> [][AllRight]_vars
    BY DEF ReadsFollowTheList
  <1> HIDE DEF AllRight
  <1>6. Spec => [][AllRight]_vars
    BY <1>1, <1>2, <1>3, <1>4, PTL DEF Spec
  <1> QED
    BY <1>5, <1>6
=============================================================================
