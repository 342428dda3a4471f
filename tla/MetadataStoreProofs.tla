------------------------ MODULE MetadataStoreProofs ------------------------
(***************************************************************************)
(* The safety of MetadataStore for every value of its constants: the type  *)
(* invariant, the three invariants the TLC run checks, and that the store  *)
(* implements HandleLifecycle.                                             *)
(***************************************************************************)
EXTENDS MetadataStore, SequenceTheorems, TLAPS

\* Nothing carries a handle beyond the counter.
IdsIssued ==
  /\ \A p \in DOMAIN files : \A i \in DOMAIN files[p].chunks : files[p].chunks[i] <= chunkid
  /\ \A h \in DOMAIN chunkLocations : h <= chunkid
  /\ \A m \in issued : m.id <= chunkid

\* The table entry of a listed chunk names the file, or has lost its path.
TableKnowsFile ==
  \A p \in DOMAIN files : \A i \in DOMAIN files[p].chunks :
    /\ files[p].chunks[i] \in DOMAIN chunkLocations
    /\ chunkLocations[files[p].chunks[i]] \in {p, NoPath}

\* A handle message about a listed chunk names the file, or has lost its path.
MessagesKnowFile ==
  \A p \in DOMAIN files : \A i \in DOMAIN files[p].chunks : \A m \in issued :
    m.id = files[p].chunks[i] => m.path \in {p, NoPath}

IInv == TypeOK /\ IdsIssued /\ HandlesUnique /\ TableKnowsFile /\ MessagesKnowFile

-----------------------------------------------------------------------------
(***************************************************************************)
(* What the slice operations of the store do to a sequence.                *)
(***************************************************************************)
LEMMA InsertAtProperties ==
  ASSUME NEW S, NEW s \in Seq(S), NEW e \in S, NEW i \in 1 .. Len(s) + 1
  PROVE  /\ InsertAt(s, i, e) \in Seq(S)
         /\ Len(InsertAt(s, i, e)) = Len(s) + 1
         /\ \A j \in 1 .. Len(s) + 1 :
              InsertAt(s, i, e)[j] = IF j < i THEN s[j] ELSE IF j = i THEN e ELSE s[j - 1]
  <1> DEFINE front == SubSeq(s, 1, i - 1)
             back  == SubSeq(s, i, Len(s))
             fe    == front \o <<e>>
  <1>1. /\ front \in Seq(S) /\ Len(front) = i - 1
        /\ \A j \in 1 .. i - 1 : front[j] = s[j]
    BY SubSeqProperties, ElementOfSeq
  <1>2. /\ back \in Seq(S) /\ Len(back) = Len(s) - i + 1
        /\ \A j \in 1 .. Len(s) - i + 1 : back[j] = s[i + j - 1]
    BY SubSeqProperties, ElementOfSeq
  <1>3. <<e>> \in Seq(S) /\ Len(<<e>>) = 1 /\ <<e>>[1] = e
    OBVIOUS
  <1> HIDE DEF front, back
  <1>4. /\ fe \in Seq(S) /\ Len(fe) = i
        /\ \A j \in 1 .. i : fe[j] = IF j < i THEN s[j] ELSE e
    BY <1>1, <1>3, ConcatProperties
  <1> HIDE DEF fe
  <1>5. InsertAt(s, i, e) = fe \o back
    BY DEF InsertAt, front, back, fe
  <1> DEFINE whole == fe \o back
  <1>6. /\ whole \in Seq(S)
        /\ Len(whole) = Len(fe) + Len(back)
        /\ \A j \in 1 .. Len(fe) + Len(back) :
             whole[j] = IF j <= Len(fe) THEN fe[j] ELSE back[j - Len(fe)]
    BY <1>2, <1>4, ConcatProperties
  <1>7. Len(fe) + Len(back) = Len(s) + 1
    BY <1>2, <1>4
  <1>8. ASSUME NEW j \in 1 .. Len(s) + 1
        PROVE  whole[j] = IF j < i THEN s[j] ELSE IF j = i THEN e ELSE s[j - 1]
    <2>1. CASE j <= i
      BY <1>4, <1>6, <1>7, <2>1
    <2>2. CASE j > i
      <3>1. whole[j] = back[j - i] /\ j - i \in 1 .. Len(s) - i + 1
        BY <1>4, <1>6, <1>7, <2>2
      <3> QED
        BY <1>2, <2>2, <3>1
    <2>3. j \in Int /\ i \in Int
      OBVIOUS
    <2> HIDE DEF whole
    <2> QED
      BY <2>1, <2>2, <2>3
  <1> QED
    BY <1>5, <1>6, <1>7, <1>8 DEF whole

LEMMA RemoveAtProperties ==
  ASSUME NEW S, NEW s \in Seq(S), NEW i \in 1 .. Len(s)
  PROVE  /\ RemoveAt(s, i) \in Seq(S)
         /\ Len(RemoveAt(s, i)) = Len(s) - 1
         /\ \A j \in 1 .. Len(s) - 1 : RemoveAt(s, i)[j] = IF j < i THEN s[j] ELSE s[j + 1]
  <1> DEFINE front == SubSeq(s, 1, i - 1)
             back  == SubSeq(s, i + 1, Len(s))
  <1>1. /\ front \in Seq(S) /\ Len(front) = i - 1
        /\ \A j \in 1 .. i - 1 : front[j] = s[j]
    BY SubSeqProperties, ElementOfSeq
  <1>2. /\ back \in Seq(S) /\ Len(back) = Len(s) - i
        /\ \A j \in 1 .. Len(s) - i : back[j] = s[i + j]
    BY SubSeqProperties, ElementOfSeq
  <1> HIDE DEF front, back
  <1>3. RemoveAt(s, i) = front \o back
    BY DEF RemoveAt, front, back
  <1> DEFINE whole == front \o back
  <1>4. /\ whole \in Seq(S)
        /\ Len(whole) = Len(front) + Len(back)
        /\ \A j \in 1 .. Len(front) + Len(back) :
             whole[j] = IF j <= Len(front) THEN front[j] ELSE back[j - Len(front)]
    BY <1>1, <1>2, ConcatProperties
  <1>5. Len(front) + Len(back) = Len(s) - 1
    BY <1>1, <1>2
  <1>6. ASSUME NEW j \in 1 .. Len(s) - 1
        PROVE  whole[j] = IF j < i THEN s[j] ELSE s[j + 1]
    <2>1. CASE j < i
      BY <1>1, <1>4, <1>5, <2>1
    <2>2. CASE j >= i
      <3>1. whole[j] = back[j - (i - 1)] /\ j - (i - 1) \in 1 .. Len(s) - i
        BY <1>1, <1>4, <1>5, <2>2
      <3> QED
        BY <1>2, <2>2, <3>1
    <2>3. j \in Int /\ i \in Int
      OBVIOUS
    <2> HIDE DEF whole
    <2> QED
      BY <2>1, <2>2, <2>3
  <1> QED
    BY <1>3, <1>4, <1>5, <1>6

\* The chunk list after RemoveHandle: every survivor was there, none twice, and
\* the handle is gone.
LEMMA RemoveHandleProperties ==
  ASSUME NEW S, NEW s \in Seq(S), NEW h,
         \A i, j \in 1 .. Len(s) : s[i] = s[j] => i = j
  PROVE  /\ RemoveHandle(s, h) \in Seq(S)
         /\ \A j \in 1 .. Len(RemoveHandle(s, h)) :
              /\ RemoveHandle(s, h)[j] # h
              /\ \E k \in 1 .. Len(s) : s[k] = RemoveHandle(s, h)[j]
         /\ \A i, j \in 1 .. Len(RemoveHandle(s, h)) :
              RemoveHandle(s, h)[i] = RemoveHandle(s, h)[j] => i = j
  <1>1. CASE \A i \in 1 .. Len(s) : s[i] # h
    BY <1>1 DEF RemoveHandle
  <1>2. CASE \E i \in 1 .. Len(s) : s[i] = h
    <2> DEFINE First(i) == s[i] = h /\ \A j \in 1 .. i - 1 : s[j] # h
               i0 == CHOOSE i \in DOMAIN s : First(i)
    <2>1. \E i \in 1 .. Len(s) : First(i)
      BY <1>2
    <2>2. i0 \in 1 .. Len(s) /\ First(i0)
      BY <2>1
    <2>3. RemoveHandle(s, h) = RemoveAt(s, i0)
      BY <1>2 DEF RemoveHandle
    <2> HIDE DEF i0
    <2> DEFINE t == RemoveAt(s, i0)
    <2>4. /\ t \in Seq(S) /\ Len(t) = Len(s) - 1 /\ Len(s) \in Nat
          /\ \A j \in 1 .. Len(s) - 1 : t[j] = IF j < i0 THEN s[j] ELSE s[j + 1]
      BY <2>2, RemoveAtProperties
    <2> HIDE DEF t
    <2> DEFINE Origin(j) == IF j < i0 THEN j ELSE j + 1
    <2>5. \A j \in 1 .. Len(t) : /\ Origin(j) \in 1 .. Len(s)
                                 /\ Origin(j) # i0
                                 /\ t[j] = s[Origin(j)]
      BY <2>2, <2>4
    <2>6. \A j \in 1 .. Len(t) : t[j] # h
      BY <2>2, <2>5
    <2>7. \A i, j \in 1 .. Len(t) : t[i] = t[j] => i = j
      <3> SUFFICES ASSUME NEW i \in 1 .. Len(t), NEW j \in 1 .. Len(t), t[i] = t[j]
                   PROVE  i = j
        OBVIOUS
      <3>1. Origin(i) = Origin(j)
        BY <2>5
      <3> QED
        BY <2>2, <2>4, <3>1
    <2> QED
      BY <2>3, <2>4, <2>5, <2>6, <2>7 DEF t
  <1> QED
    BY <1>1, <1>2

\* The chunk list after the allocation loop: the old list, then n fresh handles.
LEMMA GrownProperties ==
  ASSUME NEW k \in Nat, NEW n \in Nat, NEW s \in Seq(Handle),
         NEW new \in Seq(Handle), Len(new) = n, \A i \in 1 .. n : new[i] = k + i,
         NEW t, t = s \o new
  PROVE  /\ t \in Seq(Handle)
         /\ Len(t) = Len(s) + n
         /\ \A j \in 1 .. Len(s) + n : t[j] = IF j <= Len(s) THEN s[j] ELSE k + (j - Len(s))
  <1> DEFINE u == s \o new
  <1>1. /\ u \in Seq(Handle) /\ Len(u) = Len(s) + n
        /\ \A j \in 1 .. Len(s) + n : u[j] = IF j <= Len(s) THEN s[j] ELSE new[j - Len(s)]
    BY ConcatProperties
  <1>2. t = u
    OBVIOUS
  <1> HIDE DEF u
  <1>3. \A j \in 1 .. Len(s) + n : t[j] = IF j <= Len(s) THEN s[j] ELSE k + (j - Len(s))
    <2> SUFFICES ASSUME NEW j \in 1 .. Len(s) + n
                 PROVE  t[j] = IF j <= Len(s) THEN s[j] ELSE k + (j - Len(s))
      OBVIOUS
    <2>1. Len(s) \in Nat /\ j \in Int
      OBVIOUS
    <2>2. CASE j > Len(s)
      BY <1>1, <1>2, <2>1, <2>2
    <2> QED
      BY <1>1, <1>2, <2>1, <2>2
  <1> QED
    BY <1>1, <1>2, <1>3

\* ... and the handles it lists.
LEMMA RangeOfGrown ==
  ASSUME NEW k \in Nat, NEW n \in Nat, NEW s \in Seq(Handle), NEW t \in Seq(Handle),
         Len(t) = Len(s) + n,
         \A j \in 1 .. Len(s) + n : t[j] = IF j <= Len(s) THEN s[j] ELSE k + (j - Len(s))
  PROVE  Range(t) = Range(s) \cup (k + 1 .. k + n)
  <1>4. /\ DOMAIN t = 1 .. Len(s) + n /\ DOMAIN s = 1 .. Len(s) /\ Len(s) \in Nat
    OBVIOUS
  <1>5. ASSUME NEW j \in DOMAIN t PROVE t[j] \in Range(s) \cup (k + 1 .. k + n)
    <2>1. CASE j <= Len(s)
      BY <1>4, <2>1 DEF Range
    <2>2. CASE j > Len(s)
      BY <1>4, <2>2
    <2> QED
      BY <1>4, <2>1, <2>2
  <1>6. \A j \in DOMAIN s : j \in DOMAIN t /\ t[j] = s[j]
    BY <1>4
  <1>7. ASSUME NEW h \in k + 1 .. k + n PROVE \E j \in DOMAIN t : t[j] = h
    <2>1. Len(s) + (h - k) \in DOMAIN t /\ t[Len(s) + (h - k)] = h
      BY <1>4
    <2> QED
      BY <2>1
  <1>8. Range(t) \subseteq Range(s) \cup (k + 1 .. k + n)
    BY <1>5 DEF Range
  <1>9. Range(s) \subseteq Range(t)
    BY <1>6 DEF Range
  <1>10. (k + 1 .. k + n) \subseteq Range(t)
    BY <1>7 DEF Range
  <1> QED
    BY <1>8, <1>9, <1>10, Zenon

LEMMA Uint64 ==
  ASSUME NEW x \in Int
  PROVE  x % Word \in 0 .. Word - 1
  BY MetadataAssumption

-----------------------------------------------------------------------------
(***************************************************************************)
(* The inductive invariant.                                                *)
(***************************************************************************)
LEMMA InitIInv == Init => IInv
  <1> SUFFICES ASSUME Init PROVE IInv
    OBVIOUS
  <1>1. DOMAIN files = {} /\ DOMAIN chunkLocations = {}
    BY DEF Init
  <1> QED
    BY <1>1, MetadataAssumption DEF Init, IInv, TypeOK, IdsIssued, HandlesUnique,
                                    TableKnowsFile, MessagesKnowFile, Handle

\* The same inductive step serves every action that lets a file take fresh
\* handles: its new list holds old handles of the file and handles chunkid + 1
\* and up, each at one place.
LEMMA AllocationStep ==
  ASSUME IInv, NEW p \in DOMAIN files, NEW n \in Nat, IssueHandles(p, n),
         NEW chunks \in Seq(Handle),
         files' = [files EXCEPT ![p].chunks = chunks],
         UNCHANGED issued,
         \A j \in 1 .. Len(chunks) :
           \/ \E i \in 1 .. Len(files[p].chunks) : chunks[j] = files[p].chunks[i]
           \/ chunks[j] \in chunkid + 1 .. chunkid + n,
         \A i, j \in 1 .. Len(chunks) : chunks[i] = chunks[j] => i = j
  PROVE  IInv'
  <1> USE DEF IInv, TypeOK
  <1>1. /\ chunkid' = chunkid + n /\ chunkid' \in 1 .. MaxHandle
        /\ DOMAIN chunkLocations' = DOMAIN chunkLocations \cup (chunkid + 1 .. chunkid + n)
        /\ \A h \in DOMAIN chunkLocations' :
             chunkLocations'[h] = IF h > chunkid THEN p ELSE chunkLocations[h]
    BY MetadataAssumption DEF IssueHandles
  <1>2. /\ DOMAIN files' = DOMAIN files
        /\ files'[p].chunks = chunks /\ files'[p].size = files[p].size
        /\ \A q \in DOMAIN files : q # p => files'[q] = files[q]
    OBVIOUS
  <1>0. DOMAIN chunks = 1 .. Len(chunks)
    OBVIOUS
  <1>3. files'[p] \in [size : 0 .. Word - 1, chunks : Seq(Handle)]
    OBVIOUS
  <1>4. TypeOK'
    <2>1. DOMAIN chunkLocations' \subseteq Handle
      BY <1>1, MetadataAssumption, SMTT(30) DEF Handle
    <2>2. \A h \in DOMAIN chunkLocations' : chunkLocations'[h] \in Path \cup {NoPath}
      BY <1>1 DEF Handle
    <2> QED
      BY <1>1, <1>2, <1>3, <2>1, <2>2
  <1>5. IdsIssued'
    <2>1. \A q \in DOMAIN files : q # p =>
             \A i \in DOMAIN files[q].chunks : files[q].chunks[i] <= chunkid'
      <3> SUFFICES ASSUME NEW q \in DOMAIN files, NEW i \in DOMAIN files[q].chunks
                   PROVE  files[q].chunks[i] <= chunkid'
        OBVIOUS
      <3>1. files[q].chunks[i] <= chunkid /\ files[q].chunks[i] \in Handle
        BY DEF IdsIssued
      <3> QED
        BY <1>1, <3>1 DEF Handle
    <2>2. \A i \in DOMAIN chunks : chunks[i] <= chunkid'
      <3> SUFFICES ASSUME NEW j \in 1 .. Len(chunks) PROVE chunks[j] <= chunkid'
        BY <1>0
      <3>1. CASE \E i \in 1 .. Len(files[p].chunks) : chunks[j] = files[p].chunks[i]
        <4>1. PICK i \in 1 .. Len(files[p].chunks) : chunks[j] = files[p].chunks[i]
          BY <3>1
        <4>2. files[p].chunks[i] <= chunkid /\ files[p].chunks[i] \in Handle
          BY DEF IdsIssued
        <4> QED
          BY <1>1, <4>1, <4>2 DEF Handle
      <3>2. CASE chunks[j] \in chunkid + 1 .. chunkid + n
        BY <1>1, <3>2
      <3> QED
        BY <3>1, <3>2
    <2>3. \A h \in DOMAIN chunkLocations' : h <= chunkid'
      BY <1>1 DEF IdsIssued, Handle
    <2>4. \A m \in issued : m.id <= chunkid'
      BY <1>1 DEF IdsIssued, Handle
    <2> QED
      BY <1>2, <2>1, <2>2, <2>3, <2>4 DEF IdsIssued
  <1>6. HandlesUnique'
    <2>1. \A q \in DOMAIN files : q # p =>
             \A i \in 1 .. Len(chunks), j \in DOMAIN files[q].chunks : chunks[i] # files[q].chunks[j]
      <3> SUFFICES ASSUME NEW q \in DOMAIN files, q # p,
                          NEW i \in 1 .. Len(chunks), NEW j \in DOMAIN files[q].chunks
                   PROVE  chunks[i] # files[q].chunks[j]
        OBVIOUS
      <3>1. CASE \E k \in 1 .. Len(files[p].chunks) : chunks[i] = files[p].chunks[k]
        BY <3>1 DEF HandlesUnique
      <3>2. CASE chunks[i] \in chunkid + 1 .. chunkid + n
        <4>1. files[q].chunks[j] <= chunkid /\ files[q].chunks[j] \in Handle
          BY DEF IdsIssued
        <4> QED
          BY <3>2, <4>1 DEF Handle
      <3> QED
        BY <3>1, <3>2
    <2> SUFFICES ASSUME NEW q \in DOMAIN files, NEW r \in DOMAIN files,
                        NEW i \in DOMAIN files'[q].chunks, NEW j \in DOMAIN files'[r].chunks,
                        files'[q].chunks[i] = files'[r].chunks[j]
                 PROVE  q = r /\ i = j
      BY <1>2 DEF HandlesUnique
    <2>3. CASE q = p /\ r = p
      BY <1>0, <1>2, <2>3, ZenonT(40)
    <2>4. CASE q = p /\ r # p
      <3>1. files'[q].chunks = chunks /\ files'[r].chunks = files[r].chunks
        BY <1>2, <2>4
      <3> QED
        BY <1>0, <2>1, <2>4, <3>1
    <2>5. CASE q # p /\ r = p
      <3>1. files'[q].chunks = files[q].chunks /\ files'[r].chunks = chunks
        BY <1>2, <2>5
      <3> QED
        BY <1>0, <2>1, <2>5, <3>1
    <2>6. CASE q # p /\ r # p
      <3>1. files'[q] = files[q] /\ files'[r] = files[r]
        BY <1>2, <2>6
      <3> QED
        BY <3>1 DEF HandlesUnique
    <2> QED
      BY <2>3, <2>4, <2>5, <2>6
  <1>7. TableKnowsFile'
    <2>1. ASSUME NEW q \in DOMAIN files, NEW i \in DOMAIN files[q].chunks
          PROVE  /\ files[q].chunks[i] \in DOMAIN chunkLocations'
                 /\ chunkLocations'[files[q].chunks[i]] \in {q, NoPath}
      <3>1. files[q].chunks[i] <= chunkid /\ files[q].chunks[i] \in Handle
        BY DEF IdsIssued
      <3>2. /\ files[q].chunks[i] \in DOMAIN chunkLocations
            /\ chunkLocations[files[q].chunks[i]] \in {q, NoPath}
        BY DEF TableKnowsFile
      <3> QED
        BY <1>1, <3>1, <3>2 DEF Handle
    <2>2. ASSUME NEW j \in 1 .. Len(chunks)
          PROVE  /\ chunks[j] \in DOMAIN chunkLocations'
                 /\ chunkLocations'[chunks[j]] \in {p, NoPath}
      <3>1. CASE \E i \in 1 .. Len(files[p].chunks) : chunks[j] = files[p].chunks[i]
        BY <2>1, <3>1
      <3>2. CASE chunks[j] \in chunkid + 1 .. chunkid + n
        BY <1>1, <3>2
      <3> QED
        BY <3>1, <3>2
    <2>3. ASSUME NEW q \in DOMAIN files', NEW i \in DOMAIN files'[q].chunks
          PROVE  /\ files'[q].chunks[i] \in DOMAIN chunkLocations'
                 /\ chunkLocations'[files'[q].chunks[i]] \in {q, NoPath}
      <3>1. CASE q = p
        <4>1. i \in 1 .. Len(chunks) /\ files'[q].chunks[i] = chunks[i]
          BY <1>0, <1>2, <3>1
        <4> QED
          BY <2>2, <3>1, <4>1
      <3>2. CASE q # p
        <4>1. q \in DOMAIN files /\ files'[q] = files[q]
          BY <1>2, <3>2
        <4> QED
          BY <2>1, <3>2, <4>1
      <3> QED
        BY <3>1, <3>2
    <2> QED
      BY <2>3 DEF TableKnowsFile
  <1>8. MessagesKnowFile'
    <2>1. ASSUME NEW j \in 1 .. Len(chunks), NEW m \in issued, m.id = chunks[j]
          PROVE  m.path \in {p, NoPath}
      <3>1. m.id <= chunkid /\ m.id \in Handle
        BY DEF IdsIssued
      <3>2. chunks[j] \notin chunkid + 1 .. chunkid + n
        BY <2>1, <3>1 DEF Handle
      <3> QED
        BY <2>1, <3>2 DEF MessagesKnowFile
    <2>2. ASSUME NEW q \in DOMAIN files', NEW i \in DOMAIN files'[q].chunks,
                 NEW m \in issued, m.id = files'[q].chunks[i]
          PROVE  m.path \in {q, NoPath}
      <3>1. CASE q = p
        <4>1. i \in 1 .. Len(chunks) /\ m.id = chunks[i]
          BY <1>0, <1>2, <2>2, <3>1
        <4> QED
          BY <2>1, <3>1, <4>1
      <3>2. CASE q # p
        <4>1. q \in DOMAIN files /\ files'[q] = files[q]
          BY <1>2, <3>2
        <4> QED
          BY <2>2, <4>1 DEF MessagesKnowFile
      <3> QED
        BY <3>1, <3>2
    <2> QED
      BY <2>2 DEF MessagesKnowFile
  <1> QED
    BY <1>4, <1>5, <1>6, <1>7, <1>8

\* A file takes fresh handles in AllocateChunk at an index, in WriteFile and
\* AppendFile at its end.
LEMMA AllocateChunkStep ==
  ASSUME IInv, NEW p \in Path, NEW index \in Nat, AllocateChunk(p, index)
  PROVE  IInv'
  <1> DEFINE s == files[p].chunks
             t == InsertAt(s, index + 1, chunkid + 1)
  <1>1. /\ p \in DOMAIN files /\ s \in Seq(Handle) /\ index + 1 \in 1 .. Len(s) + 1
        /\ IssueHandles(p, 1) /\ chunkid \in Nat /\ chunkid + 1 \in Handle
        /\ UNCHANGED issued
    BY DEF IInv, TypeOK, AllocateChunk, IssueHandles, Handle
  <1>2. files' = [files EXCEPT ![p].chunks = t]
    BY DEF AllocateChunk
  <1>3. \A i, j \in 1 .. Len(s) : s[i] = s[j] => i = j
    BY <1>1 DEF IInv, HandlesUnique
  <1>4. \A i \in 1 .. Len(s) : s[i] \in Handle /\ s[i] <= chunkid
    BY <1>1 DEF IInv, IdsIssued
  <1> HIDE DEF s
  <1>5. /\ t \in Seq(Handle) /\ Len(t) = Len(s) + 1
        /\ \A j \in 1 .. Len(s) + 1 :
             t[j] = IF j < index + 1 THEN s[j] ELSE IF j = index + 1 THEN chunkid + 1 ELSE s[j - 1]
    BY <1>1, InsertAtProperties
  <1> HIDE DEF t
  <1> DEFINE Origin(j) == IF j < index + 1 THEN j ELSE j - 1
  <1>6. \A j \in 1 .. Len(t) :
          \/ j = index + 1 /\ t[j] = chunkid + 1
          \/ j # index + 1 /\ Origin(j) \in 1 .. Len(s) /\ t[j] = s[Origin(j)]
    BY <1>1, <1>5
  <1>7. \A i, j \in 1 .. Len(t) : t[i] = t[j] => i = j
    <2> SUFFICES ASSUME NEW i \in 1 .. Len(t), NEW j \in 1 .. Len(t), t[i] = t[j]
                 PROVE  i = j
      OBVIOUS
    <2>1. CASE i # index + 1 /\ j # index + 1
      <3>1. Origin(i) = Origin(j)
        BY <1>3, <1>6, <2>1
      <3>2. i \in Int /\ j \in Int /\ index \in Int
        OBVIOUS
      <3> QED
        BY <2>1, <3>1, <3>2
    <2>2. CASE i = index + 1 /\ j # index + 1
      <3>1. t[i] = chunkid + 1 /\ t[j] <= chunkid /\ t[j] \in Handle
        BY <1>4, <1>6, <2>2
      <3> QED
        BY <1>1, <3>1 DEF Handle
    <2>3. CASE i # index + 1 /\ j = index + 1
      <3>1. t[j] = chunkid + 1 /\ t[i] <= chunkid /\ t[i] \in Handle
        BY <1>4, <1>6, <2>3
      <3> QED
        BY <1>1, <3>1 DEF Handle
    <2> QED
      BY <2>1, <2>2, <2>3
  <1>8. \A j \in 1 .. Len(t) :
          \/ \E i \in 1 .. Len(files[p].chunks) : t[j] = files[p].chunks[i]
          \/ t[j] \in chunkid + 1 .. chunkid + 1
    BY <1>1, <1>6 DEF s
  <1> QED
    BY <1>1, <1>2, <1>5, <1>7, <1>8, AllocationStep

LEMMA GrowToStep ==
  ASSUME IInv, NEW p \in DOMAIN files, NEW end \in Nat \ {0}, GrowTo(p, end)
  PROVE  IInv'
  <1> DEFINE s == files[p].chunks
             n == IF ChunkCount(end) > Len(s) THEN ChunkCount(end) - Len(s) ELSE 0
             new == [i \in 1 .. n |-> chunkid + i]
             t == s \o new
  <1>1. s \in Seq(Handle) /\ chunkid \in Nat /\ chunkid >= 1
    BY DEF IInv, TypeOK
  <1>2. ChunkCount(end) \in Int
    BY MetadataAssumption DEF ChunkCount
  <1>3. n \in Nat
    BY <1>1, <1>2
  <1>4. /\ IssueHandles(p, n) /\ UNCHANGED issued
        /\ files' = [files EXCEPT ![p].chunks = t]
    BY DEF GrowTo
  <1>5. \A i, j \in 1 .. Len(s) : s[i] = s[j] => i = j
    BY <1>1 DEF IInv, HandlesUnique
  <1>6. \A i \in 1 .. Len(s) : s[i] \in Handle /\ s[i] <= chunkid
    BY <1>1 DEF IInv, IdsIssued
  <1>7. chunkid + n <= MaxHandle
    BY <1>4 DEF IssueHandles
  <1> HIDE DEF s, n
  <1>8. /\ t \in Seq(Handle) /\ Len(t) = Len(s) + n
        /\ \A j \in 1 .. Len(s) + n : t[j] = IF j <= Len(s) THEN s[j] ELSE chunkid + (j - Len(s))
    <2>1. new \in Seq(Handle) /\ Len(new) = n /\ \A i \in 1 .. n : new[i] = chunkid + i
      BY <1>1, <1>3, <1>7, MetadataAssumption DEF Handle
    <2> HIDE DEF new
    <2> QED
      BY <1>1, <1>3, <2>1, GrownProperties
  <1> HIDE DEF t
  <1>9. \A j \in 1 .. Len(t) :
          \/ j <= Len(s) /\ t[j] = s[j]
          \/ j > Len(s) /\ t[j] = chunkid + (j - Len(s)) /\ t[j] \in chunkid + 1 .. chunkid + n
    BY <1>1, <1>3, <1>8
  <1>10. \A i, j \in 1 .. Len(t) : t[i] = t[j] => i = j
    <2> SUFFICES ASSUME NEW i \in 1 .. Len(t), NEW j \in 1 .. Len(t), t[i] = t[j]
                 PROVE  i = j
      OBVIOUS
    <2>0. i \in Int /\ j \in Int /\ Len(s) \in Nat /\ chunkid \in Int
      BY <1>1
    <2>1. CASE i <= Len(s) /\ j <= Len(s)
      BY <1>5, <1>9, <2>0, <2>1
    <2>2. CASE i > Len(s) /\ j <= Len(s)
      BY <1>6, <1>9, <2>0, <2>2 DEF Handle
    <2>3. CASE i <= Len(s) /\ j > Len(s)
      BY <1>6, <1>9, <2>0, <2>3, SMTT(30) DEF Handle
    <2>4. CASE i > Len(s) /\ j > Len(s)
      BY <1>9, <2>0, <2>4
    <2> QED
      BY <2>0, <2>1, <2>2, <2>3, <2>4
  <1>11. \A j \in 1 .. Len(t) :
          \/ \E i \in 1 .. Len(s) : t[j] = s[i]
          \/ t[j] \in chunkid + 1 .. chunkid + n
    BY <1>1, <1>9
  <1>12. s = files[p].chunks
    BY DEF s
  <1> QED
    BY <1>3, <1>4, <1>8, <1>10, <1>11, <1>12, AllocationStep

LEMMA CreateFileStep ==
  ASSUME IInv, NEW p \in Path, CreateFile(p)
  PROVE  IInv'
  <1>1. /\ DOMAIN files' = DOMAIN files \cup {p} /\ p \notin DOMAIN files
        /\ files'[p] = [size |-> 0, chunks |-> << >>]
        /\ \A q \in DOMAIN files : files'[q] = files[q]
        /\ UNCHANGED <<chunkid, chunkLocations, issued>>
    BY DEF CreateFile
  <1>2. files'[p] \in [size : 0 .. Word - 1, chunks : Seq(Handle)]
    BY <1>1, MetadataAssumption
  <1>3. DOMAIN files'[p].chunks = {}
    BY <1>1
  <1>4. TypeOK'
    BY <1>1, <1>2 DEF IInv, TypeOK
  <1>5. \A q \in DOMAIN files' : \A i \in DOMAIN files'[q].chunks :
          q \in DOMAIN files /\ files'[q] = files[q]
    BY <1>1, <1>3
  <1>6. IdsIssued' /\ TableKnowsFile' /\ MessagesKnowFile'
    BY <1>1, <1>5 DEF IInv, IdsIssued, TableKnowsFile, MessagesKnowFile
  <1>7. HandlesUnique'
    BY <1>5 DEF IInv, HandlesUnique
  <1> QED
    BY <1>4, <1>6, <1>7 DEF IInv

LEMMA DeleteFileStep ==
  ASSUME IInv, NEW p \in Path, DeleteFile(p)
  PROVE  IInv'
  <1>1. /\ DOMAIN files' = DOMAIN files \ {p}
        /\ \A q \in DOMAIN files' : files'[q] = files[q]
        /\ UNCHANGED <<chunkid, chunkLocations, issued>>
    BY DEF DeleteFile, Restrict
  <1> QED
    BY <1>1 DEF IInv, TypeOK, IdsIssued, HandlesUnique, TableKnowsFile, MessagesKnowFile

LEMMA GetChunkLocationsStep ==
  ASSUME IInv, NEW h \in Handle, GetChunkLocations(h)
  PROVE  IInv'
  <1> DEFINE m0 == [id |-> h, path |-> chunkLocations[h]]
  <1>1. /\ h \in DOMAIN chunkLocations /\ issued' = issued \cup {m0}
        /\ UNCHANGED <<files, chunkid, chunkLocations>>
    BY DEF GetChunkLocations
  <1>2. TypeOK' /\ IdsIssued' /\ HandlesUnique' /\ TableKnowsFile'
    BY <1>1 DEF IInv, TypeOK, IdsIssued, HandlesUnique, TableKnowsFile
  <1>3. MessagesKnowFile'
    BY <1>1 DEF IInv, TableKnowsFile, MessagesKnowFile
  <1> QED
    BY <1>2, <1>3 DEF IInv

LEMMA ReportDeleteStep ==
  ASSUME IInv, NEW m \in issued, NEW size \in Int, ReportDelete(m, size)
  PROVE  IInv'
  <1> DEFINE p == m.path
             s == files[p].chunks
             t == RemoveHandle(s, m.id)
  <1>1. p \in DOMAIN files /\ s \in Seq(Handle) /\ files[p].size \in 0 .. Word - 1
    BY DEF ReportDelete, IInv, TypeOK
  <1>2. /\ DOMAIN files' = DOMAIN files
        /\ files'[p] = [size |-> (files[p].size - size) % Word, chunks |-> t]
        /\ \A q \in DOMAIN files : q # p => files'[q] = files[q]
        /\ DOMAIN chunkLocations' = DOMAIN chunkLocations \ {m.id}
        /\ \A h \in DOMAIN chunkLocations' : chunkLocations'[h] = chunkLocations[h]
        /\ UNCHANGED <<chunkid, issued>>
    BY <1>1 DEF ReportDelete, Restrict, IInv, TypeOK
  <1>3. (files[p].size - size) % Word \in 0 .. Word - 1
    <2>1. files[p].size - size \in Int
      BY <1>1
    <2> QED
      BY <2>1, Uint64
  <1>4. \A i, j \in 1 .. Len(s) : s[i] = s[j] => i = j
    BY <1>1 DEF IInv, HandlesUnique
  <1>5. /\ t \in Seq(Handle)
        /\ \A j \in 1 .. Len(t) : t[j] # m.id /\ \E k \in 1 .. Len(s) : s[k] = t[j]
        /\ \A i, j \in 1 .. Len(t) : t[i] = t[j] => i = j
    <2> HIDE DEF s
    <2> QED
      BY <1>1, <1>4, RemoveHandleProperties
  <1> HIDE DEF t
  <1>6. \A q \in DOMAIN files' : \A i \in DOMAIN files'[q].chunks :
          \E k \in DOMAIN files[q].chunks : files'[q].chunks[i] = files[q].chunks[k]
    <2> SUFFICES ASSUME NEW q \in DOMAIN files', NEW i \in DOMAIN files'[q].chunks
                 PROVE  \E k \in DOMAIN files[q].chunks : files'[q].chunks[i] = files[q].chunks[k]
      OBVIOUS
    <2>1. CASE q = p
      <3>1. files'[q].chunks = t /\ DOMAIN t = 1 .. Len(t) /\ DOMAIN s = 1 .. Len(s)
        BY <1>1, <1>2, <1>5, <2>1
      <3> QED
        BY <1>5, <2>1, <3>1, ZenonT(40)
    <2>2. CASE q # p
      BY <1>2, <2>2
    <2> QED
      BY <2>1, <2>2
  <1>7. \A q \in DOMAIN files' : \A i \in DOMAIN files'[q].chunks : files'[q].chunks[i] # m.id
    <2> SUFFICES ASSUME NEW q \in DOMAIN files', NEW i \in DOMAIN files'[q].chunks,
                        files'[q].chunks[i] = m.id
                 PROVE  FALSE
      OBVIOUS
    <2>1. CASE q = p
      BY <1>2, <1>5, <2>1
    <2>2. CASE q # p
      <3>1. q \in DOMAIN files /\ files[q].chunks[i] = m.id /\ i \in DOMAIN files[q].chunks
        BY <1>2, <2>2
      <3>2. p \in {q, NoPath} /\ p \in Path
        BY <1>1, <3>1 DEF IInv, TypeOK, MessagesKnowFile
      <3> QED
        BY <2>2, <3>2, MetadataAssumption
    <2> QED
      BY <2>1, <2>2
  <1>8. TypeOK'
    <2>1. \A q \in DOMAIN files' : files'[q] \in [size : 0 .. Word - 1, chunks : Seq(Handle)]
      BY <1>2, <1>3, <1>5, SMTT(30) DEF IInv, TypeOK
    <2> QED
      BY <1>2, <2>1 DEF IInv, TypeOK
  <1>9. IdsIssued'
    BY <1>2, <1>6 DEF IInv, IdsIssued
  <1>10. TableKnowsFile'
    BY <1>2, <1>6, <1>7 DEF IInv, TableKnowsFile
  <1>11. MessagesKnowFile'
    BY <1>2, <1>6 DEF IInv, MessagesKnowFile
  <1>12. HandlesUnique'
    <2> SUFFICES ASSUME NEW q \in DOMAIN files', NEW r \in DOMAIN files',
                        NEW i \in DOMAIN files'[q].chunks, NEW j \in DOMAIN files'[r].chunks,
                        files'[q].chunks[i] = files'[r].chunks[j]
                 PROVE  q = r /\ i = j
      BY DEF HandlesUnique
    <2>1. q = r
      BY <1>2, <1>6 DEF IInv, HandlesUnique
    <2>2. CASE q = p
      BY <1>2, <1>5, <2>1, <2>2
    <2>3. CASE q # p
      BY <1>2, <2>1, <2>3 DEF IInv, HandlesUnique
    <2> QED
      BY <2>1, <2>2, <2>3
  <1> QED
    BY <1>8, <1>9, <1>10, <1>11, <1>12 DEF IInv

\* Reports that only change a size.
LEMMA ReportSizeStep ==
  ASSUME IInv, NEW m \in issued, NEW size \in Int,
         ReportTruncate(m, size) \/ ReportWrite(m, size)
  PROVE  IInv'
  <1> DEFINE x == IF ReportTruncate(m, size) THEN files[m.path].size - size
                                             ELSE files[m.path].size + size
  <1>1. /\ x \in Int
        /\ m.path \in DOMAIN files
        /\ files' = [files EXCEPT ![m.path].size = x % Word]
        /\ UNCHANGED <<chunkid, chunkLocations, issued>>
    <2>1. m.path \in DOMAIN files
      BY DEF ReportTruncate, ReportWrite
    <2>2. files[m.path].size \in Int
      BY <2>1 DEF IInv, TypeOK
    <2>3. x \in Int
      BY <2>2
    <2>4. CASE ReportTruncate(m, size)
      BY <2>1, <2>3, <2>4 DEF ReportTruncate
    <2>5. CASE ~ReportTruncate(m, size)
      BY <2>1, <2>3, <2>5 DEF ReportWrite
    <2> QED
      BY <2>4, <2>5
  <1> HIDE DEF x
  <1>2. x % Word \in 0 .. Word - 1
    BY <1>1, Uint64
  <1>3. /\ DOMAIN files' = DOMAIN files
        /\ \A q \in DOMAIN files : /\ files'[q].chunks = files[q].chunks
                                   /\ files'[q] \in [size : 0 .. Word - 1, chunks : Seq(Handle)]
    BY <1>1, <1>2 DEF IInv, TypeOK
  <1>4. TypeOK'
    BY <1>1, <1>3 DEF IInv, TypeOK
  <1>5. IdsIssued' /\ TableKnowsFile' /\ MessagesKnowFile'
    BY <1>1, <1>3 DEF IInv, IdsIssued, TableKnowsFile, MessagesKnowFile
  <1>6. HandlesUnique'
    <2> SUFFICES ASSUME NEW q \in DOMAIN files', NEW r \in DOMAIN files',
                        NEW i \in DOMAIN files'[q].chunks, NEW j \in DOMAIN files'[r].chunks,
                        files'[q].chunks[i] = files'[r].chunks[j]
                 PROVE  q = r /\ i = j
      BY DEF HandlesUnique
    <2>1. files'[q].chunks = files[q].chunks /\ files'[r].chunks = files[r].chunks
      BY <1>3
    <2> QED
      BY <1>3, <2>1 DEF IInv, HandlesUnique
  <1> QED
    BY <1>4, <1>5, <1>6 DEF IInv

LEMMA RestartStep ==
  ASSUME IInv, Restart
  PROVE  IInv'
  BY DEF Restart, Reloaded, IInv, TypeOK, IdsIssued, HandlesUnique, TableKnowsFile, MessagesKnowFile

LEMMA NextIInv == IInv /\ [Next]_vars => IInv'
  <1> SUFFICES ASSUME IInv, [Next]_vars PROVE IInv'
    OBVIOUS
  <1>1. ASSUME NEW p \in Path, CreateFile(p) PROVE IInv'
    BY <1>1, CreateFileStep
  <1>2. ASSUME NEW p \in Path, DeleteFile(p) PROVE IInv'
    BY <1>2, DeleteFileStep
  <1>3. ASSUME NEW p \in Path, NEW index \in 0 .. MaxHandle, AllocateChunk(p, index) PROVE IInv'
    BY <1>3, AllocateChunkStep
  <1>4. ASSUME NEW p \in Path, NEW offset \in 0 .. MaxLen - 1, NEW length \in 1 .. MaxLen - offset,
               WriteFile(p, offset, length)
        PROVE  IInv'
    <2>1. p \in DOMAIN files /\ GrowTo(p, offset + length) /\ offset + length \in Nat \ {0}
      BY <1>4, MetadataAssumption DEF WriteFile
    <2> QED
      BY <2>1, GrowToStep
  <1>5. ASSUME NEW p \in Path, NEW length \in 1 .. MaxLen, AppendFile(p, length) PROVE IInv'
    <2>1. p \in DOMAIN files /\ GrowTo(p, files[p].size + length)
      BY <1>5 DEF AppendFile
    <2>2. files[p].size + length \in Nat \ {0}
      BY <2>1, MetadataAssumption DEF IInv, TypeOK
    <2> QED
      BY <2>1, <2>2, GrowToStep
  <1>6. ASSUME NEW h \in Handle, GetChunkLocations(h) PROVE IInv'
    BY <1>6, GetChunkLocationsStep
  <1>7. ASSUME NEW m \in issued, NEW size \in Reported, UpdateMasterMetadata(m, size) PROVE IInv'
    <2>1. size \in Int
      BY MetadataAssumption DEF Reported
    <2> QED
      BY <1>7, <2>1, ReportDeleteStep, ReportSizeStep DEF UpdateMasterMetadata
  <1>8. CASE Restart
    BY <1>8, RestartStep
  <1>9. CASE UNCHANGED vars
    BY <1>9 DEF vars, IInv, TypeOK, IdsIssued, HandlesUnique, TableKnowsFile, MessagesKnowFile
  <1> QED
    BY <1>1, <1>2, <1>3, <1>4, <1>5, <1>6, <1>7, <1>8, <1>9 DEF Next, Operation

\* The invariant holds in every state of every behaviour of the store.
THEOREM StoreInvariant == Spec => []IInv
  <1>1. Init => IInv
    BY InitIInv
  <1>2. IInv /\ [Next]_vars => IInv'
    BY NextIInv
  <1> QED
    BY <1>1, <1>2, PTL DEF Spec

\* Sizes stay uint64, handles stay handles: every field of the store keeps its type.
THEOREM TypeCorrect == Spec => []TypeOK
  <1>1. IInv => TypeOK
    BY DEF IInv
  <1> QED
    BY <1>1, StoreInvariant, PTL

\* No handle is listed twice, whatever operations, reports and restarts interleave.
THEOREM HandlesAreUnique == Spec => []HandlesUnique
  <1>1. IInv => HandlesUnique
    BY DEF IInv
  <1> QED
    BY <1>1, StoreInvariant, PTL

\* Every listed chunk has a table entry: the lookups of the handlers succeed as
\* long as the file still lists the chunk.
THEOREM ListedHandlesAreLocated == Spec => []ListedHandlesLocated
  <1>1. IInv => ListedHandlesLocated
    BY DEF IInv, TableKnowsFile, ListedHandlesLocated, Range
  <1> QED
    BY <1>1, StoreInvariant, PTL

\* A report never reaches a file other than the one that lists its chunk.
THEOREM ReportsReachTheirFile == Spec => []ReportsReachOwnFile
  <1>1. IInv => ReportsReachOwnFile
    BY DEF IInv, MessagesKnowFile, ReportsReachOwnFile, Range
  <1> QED
    BY <1>1, StoreInvariant, PTL

-----------------------------------------------------------------------------
(***************************************************************************)
(* The store implements HandleLifecycle.  First what the slice operations  *)
(* do to the set of handles a file lists.                                  *)
(***************************************************************************)
LEMMA RangeOfInsertAt ==
  ASSUME NEW S, NEW s \in Seq(S), NEW e \in S, NEW i \in 1 .. Len(s) + 1
  PROVE  Range(InsertAt(s, i, e)) = Range(s) \cup {e}
  <1> DEFINE t == InsertAt(s, i, e)
  <1>1. /\ t \in Seq(S) /\ Len(t) = Len(s) + 1 /\ Len(s) \in Nat /\ i \in Int
        /\ \A j \in 1 .. Len(s) + 1 : t[j] = IF j < i THEN s[j] ELSE IF j = i THEN e ELSE s[j - 1]
    BY InsertAtProperties
  <1> HIDE DEF t
  <1>2. DOMAIN t = 1 .. Len(s) + 1 /\ DOMAIN s = 1 .. Len(s)
    BY <1>1
  <1>3. ASSUME NEW j \in DOMAIN t PROVE t[j] \in Range(s) \cup {e}
    <2>1. CASE j < i
      BY <1>1, <1>2, <2>1 DEF Range
    <2>2. CASE j > i
      BY <1>1, <1>2, <2>2 DEF Range
    <2> QED
      BY <1>1, <1>2, <2>1, <2>2
  <1>4. ASSUME NEW j \in DOMAIN s PROVE \E k \in DOMAIN t : t[k] = s[j]
    <2>1. CASE j < i
      BY <1>1, <1>2, <2>1
    <2>2. CASE j >= i
      <3>1. j + 1 \in DOMAIN t /\ t[j + 1] = s[j]
        BY <1>1, <1>2, <2>2
      <3> QED
        BY <3>1
    <2> QED
      BY <1>1, <1>2, <2>1, <2>2
  <1>5. i \in DOMAIN t /\ t[i] = e
    BY <1>1, <1>2
  <1>6. Range(t) = Range(s) \cup {e}
    BY <1>3, <1>4, <1>5 DEF Range
  <1> QED
    BY <1>6 DEF t

LEMMA RangeOfRemoveHandle ==
  ASSUME NEW S, NEW s \in Seq(S), NEW h,
         \A i, j \in 1 .. Len(s) : s[i] = s[j] => i = j
  PROVE  Range(RemoveHandle(s, h)) = Range(s) \ {h}
  <1> DEFINE t == RemoveHandle(s, h)
  <1>1. DOMAIN s = 1 .. Len(s) /\ Len(s) \in Nat
    OBVIOUS
  <1>2. ASSUME NEW x \in Range(t) PROVE x \in Range(s) /\ x # h
    <2> HIDE DEF t
    <2>1. PICK j \in DOMAIN t : t[j] = x
      BY DEF Range
    <2>2. t[j] # h /\ \E k \in 1 .. Len(s) : s[k] = t[j]
      <3>1. t \in Seq(S) /\ \A l \in 1 .. Len(t) : t[l] # h /\ \E k \in 1 .. Len(s) : s[k] = t[l]
        BY RemoveHandleProperties DEF t
      <3> QED
        BY <3>1, SMTT(30)
    <2> QED
      BY <1>1, <2>1, <2>2 DEF Range
  <1>3. ASSUME NEW k \in 1 .. Len(s), s[k] # h PROVE \E j \in DOMAIN t : t[j] = s[k]
    <2>1. CASE \A i \in 1 .. Len(s) : s[i] # h
      BY <1>1, <2>1 DEF RemoveHandle
    <2>2. CASE \E i \in 1 .. Len(s) : s[i] = h
      <3> DEFINE First(i) == s[i] = h /\ \A j \in 1 .. i - 1 : s[j] # h
                 i0 == CHOOSE i \in DOMAIN s : First(i)
      <3>1. \E i \in 1 .. Len(s) : First(i)
        BY <2>2
      <3>2. i0 \in 1 .. Len(s) /\ s[i0] = h
        BY <1>1, <3>1
      <3>3. t = RemoveAt(s, i0)
        BY <1>1, <2>2 DEF RemoveHandle
      <3> HIDE DEF i0, t
      <3>4. /\ t \in Seq(S) /\ Len(t) = Len(s) - 1
            /\ \A j \in 1 .. Len(s) - 1 : t[j] = IF j < i0 THEN s[j] ELSE s[j + 1]
        BY <3>2, <3>3, RemoveAtProperties
      <3>5. DOMAIN t = 1 .. Len(s) - 1
        BY <3>4
      <3>6. k # i0
        BY <1>3, <3>2
      <3>7. CASE k < i0
        BY <1>1, <3>2, <3>4, <3>5, <3>7
      <3>8. CASE k > i0
        <4>1. k - 1 \in 1 .. Len(s) - 1 /\ t[k - 1] = s[k]
          BY <1>1, <3>2, <3>4, <3>8
        <4> QED
          BY <3>5, <4>1
      <3> QED
        BY <3>2, <3>6, <3>7, <3>8
    <2> QED
      BY <2>1, <2>2
  <1> HIDE DEF t
  <1>4. ASSUME NEW x \in Range(s), x # h PROVE x \in Range(t)
    <2>1. PICK k \in 1 .. Len(s) : s[k] = x
      BY <1>1 DEF Range
    <2> QED
      BY <1>3, <1>4, <2>1 DEF Range
  <1>5. Range(t) = Range(s) \ {h}
    BY <1>2, <1>4
  <1> QED
    BY <1>5 DEF t

-----------------------------------------------------------------------------
\* OwnerOf without the CHOOSE: at most one file lists a handle.
OwnerRule ==
  \A h \in Handle :
    /\ h > chunkid => OwnerOf(h) = Unborn /\ \A p \in Path : ~Listed(h, p)
    /\ \A p \in Path : Listed(h, p) => OwnerOf(h) = p
    /\ h <= chunkid /\ (\A p \in Path : ~Listed(h, p)) => OwnerOf(h) = Dead

LEMMA OwnerIsUnique == IInv => OwnerRule
  <1> SUFFICES ASSUME IInv, NEW h \in Handle
               PROVE  /\ h > chunkid => OwnerOf(h) = Unborn /\ \A p \in Path : ~Listed(h, p)
                      /\ \A p \in Path : Listed(h, p) => OwnerOf(h) = p
                      /\ h <= chunkid /\ (\A p \in Path : ~Listed(h, p)) => OwnerOf(h) = Dead
    BY DEF OwnerRule
  <1>0. h \in Int /\ chunkid \in Int
    BY DEF Handle, IInv, TypeOK
  <1>1. ASSUME NEW p \in Path, Listed(h, p) PROVE h <= chunkid
    BY <1>1 DEF IInv, IdsIssued, Listed, Range
  <1>2. ASSUME NEW p \in Path, NEW q \in Path, Listed(h, p), Listed(h, q) PROVE p = q
    BY <1>2 DEF IInv, HandlesUnique, Listed, Range
  <1>3. h > chunkid => OwnerOf(h) = Unborn /\ \A p \in Path : ~Listed(h, p)
    BY <1>0, <1>1 DEF OwnerOf
  <1>4. ASSUME NEW p \in Path, Listed(h, p) PROVE OwnerOf(h) = p
    <2>1. OwnerOf(h) = CHOOSE q \in Path : Listed(h, q)
      BY <1>0, <1>1, <1>4 DEF OwnerOf
    <2>2. Listed(h, CHOOSE q \in Path : Listed(h, q)) /\ (CHOOSE q \in Path : Listed(h, q)) \in Path
      BY <1>4
    <2> QED
      BY <1>2, <1>4, <2>1, <2>2
  <1>5. h <= chunkid /\ (\A p \in Path : ~Listed(h, p)) => OwnerOf(h) = Dead
    BY <1>0 DEF OwnerOf
  <1> QED
    BY <1>3, <1>4, <1>5

\* What a step does to the owners follows from what it does to the lists.
LEMMA OwnersAfterIssue ==
  ASSUME OwnerRule, OwnerRule', NEW p \in Path, NEW n \in Nat,
         chunkid \in Nat, chunkid' = chunkid + n,
         \A h \in Handle : \A q \in Path :
           Listed(h, q)' <=> Listed(h, q) \/ (q = p /\ h \in chunkid + 1 .. chunkid + n)
  PROVE  Lifecycle!Next
  <1> DEFINE H == {h \in Handle : h \in chunkid + 1 .. chunkid + n}
  <1>1. \A h \in H : OwnerOf(h) = Unborn
    BY DEF OwnerRule, Handle
  <1>2. ASSUME NEW h \in Handle
        PROVE  OwnerOf(h)' = IF h \in H THEN p ELSE OwnerOf(h)
    <2>0. h \in Int
      BY DEF Handle
    <2>1. CASE h \in H
      BY <2>1 DEF OwnerRule
    <2>2. CASE h > chunkid + n
      BY <2>0, <2>2 DEF OwnerRule
    <2>3. CASE h <= chunkid /\ \E q \in Path : Listed(h, q)
      BY <2>0, <2>3 DEF OwnerRule
    <2>4. CASE h <= chunkid /\ \A q \in Path : ~Listed(h, q)
      BY <2>0, <2>4 DEF OwnerRule
    <2> QED
      BY <2>0, <2>1, <2>2, <2>3, <2>4
  <1>3. Lifecycle!Issue(p, H)
    BY <1>1, <1>2 DEF Lifecycle!Issue
  <1> QED
    BY <1>3 DEF Lifecycle!Next

LEMMA OwnersAfterRetire ==
  ASSUME OwnerRule, OwnerRule', NEW H \in SUBSET Handle, NEW p \in Path,
         chunkid \in Nat, chunkid' = chunkid,
         \A h \in H : Listed(h, p),
         \A h \in Handle : \A q \in Path : Listed(h, q)' <=> Listed(h, q) /\ ~(q = p /\ h \in H)
  PROVE  Lifecycle!Next
  <1>1. \A h \in H : OwnerOf(h) \in Path
    BY DEF OwnerRule
  <1>2. ASSUME NEW h \in Handle
        PROVE  OwnerOf(h)' = IF h \in H THEN Dead ELSE OwnerOf(h)
    <2>0. h \in Int
      BY DEF Handle
    <2>1. CASE h \in H
      <3>1. \A q \in Path : Listed(h, q) => q = p
        BY <2>1 DEF OwnerRule
      <3>2. h <= chunkid
        BY <2>0, <2>1 DEF OwnerRule
      <3> QED
        BY <2>1, <3>1, <3>2 DEF OwnerRule
    <2>2. CASE h \notin H /\ h > chunkid
      BY <2>0, <2>2 DEF OwnerRule
    <2>3. CASE h \notin H /\ h <= chunkid /\ \E q \in Path : Listed(h, q)
      BY <2>0, <2>3 DEF OwnerRule
    <2>4. CASE h \notin H /\ h <= chunkid /\ \A q \in Path : ~Listed(h, q)
      BY <2>0, <2>4 DEF OwnerRule
    <2> QED
      BY <2>0, <2>1, <2>2, <2>3, <2>4
  <1>3. Lifecycle!Retire(H)
    BY <1>1, <1>2 DEF Lifecycle!Retire
  <1> QED
    BY <1>3 DEF Lifecycle!Next

LEMMA OwnersUnchanged ==
  ASSUME OwnerRule, OwnerRule', chunkid \in Nat, chunkid' = chunkid,
         \A h \in Handle : \A q \in Path : Listed(h, q)' <=> Listed(h, q)
  PROVE  \A h \in Handle : OwnerOf(h)' = OwnerOf(h)
  <1> SUFFICES ASSUME NEW h \in Handle PROVE OwnerOf(h)' = OwnerOf(h)
    OBVIOUS
  <1>0. h \in Int
    BY DEF Handle
  <1>1. CASE h > chunkid
    BY <1>0, <1>1 DEF OwnerRule
  <1>2. CASE h <= chunkid /\ \E q \in Path : Listed(h, q)
    BY <1>0, <1>2 DEF OwnerRule
  <1>3. CASE h <= chunkid /\ \A q \in Path : ~Listed(h, q)
    BY <1>0, <1>3 DEF OwnerRule
  <1> QED
    BY <1>0, <1>1, <1>2, <1>3

\* Operations that touch sizes, messages or the chunk table but no chunk list.
LEMMA ListsUntouched ==
  ASSUME IInv,
         \/ \E p \in Path : CreateFile(p)
         \/ \E h \in Handle : GetChunkLocations(h)
         \/ \E m \in issued, size \in Reported : ReportTruncate(m, size) \/ ReportWrite(m, size)
         \/ Restart
         \/ UNCHANGED vars
  PROVE  /\ chunkid' = chunkid
         /\ \A h \in Handle : \A q \in Path : Listed(h, q)' <=> Listed(h, q)
  <1> USE DEF Listed, Range
  <1>1. ASSUME NEW p \in Path, CreateFile(p)
        PROVE  /\ chunkid' = chunkid
               /\ \A h \in Handle : \A q \in Path : Listed(h, q)' <=> Listed(h, q)
    <2>1. /\ DOMAIN files' = DOMAIN files \cup {p} /\ p \notin DOMAIN files
          /\ DOMAIN files'[p].chunks = {} /\ chunkid' = chunkid
          /\ \A q \in DOMAIN files : files'[q] = files[q]
      BY <1>1 DEF CreateFile
    <2> QED
      BY <2>1
  <1>2. ASSUME NEW m \in issued, NEW size \in Reported, ReportTruncate(m, size) \/ ReportWrite(m, size)
        PROVE  /\ chunkid' = chunkid
               /\ \A h \in Handle : \A q \in Path : Listed(h, q)' <=> Listed(h, q)
    <2>1. /\ DOMAIN files' = DOMAIN files /\ chunkid' = chunkid
          /\ \A q \in DOMAIN files : files'[q].chunks = files[q].chunks
      <3>1. CASE ReportTruncate(m, size)
        BY <3>1 DEF ReportTruncate, IInv, TypeOK
      <3>2. CASE ReportWrite(m, size)
        BY <3>2 DEF ReportWrite, IInv, TypeOK
      <3> QED
        BY <1>2, <3>1, <3>2
    <2> QED
      BY <2>1
  <1>3. CASE \E h \in Handle : GetChunkLocations(h)
    BY <1>3 DEF GetChunkLocations
  <1>4. CASE Restart
    BY <1>4 DEF Restart
  <1>5. CASE UNCHANGED vars
    BY <1>5 DEF vars
  <1> QED
    BY <1>1, <1>2, <1>3, <1>4, <1>5

\* What a new chunk list of one file means for all the lists.
LEMMA OneListChanged ==
  ASSUME IInv, NEW p \in DOMAIN files, NEW chunks \in Seq(Handle),
         DOMAIN files' = DOMAIN files,
         files'[p].chunks = chunks,
         \A q \in DOMAIN files : q # p => files'[q] = files[q]
  PROVE  \A h \in Handle : \A q \in Path :
           Listed(h, q)' <=> IF q = p THEN h \in Range(chunks) ELSE Listed(h, q)
  BY DEF Listed, Range

LEMMA AllocationRefines ==
  ASSUME IInv, OwnerRule, OwnerRule', NEW p \in Path,
         \/ \E index \in 0 .. MaxHandle : AllocateChunk(p, index)
         \/ \E end \in Nat \ {0} : p \in DOMAIN files /\ GrowTo(p, end)
  PROVE  Lifecycle!Next
  <1> DEFINE s == files[p].chunks
  <1>1. p \in DOMAIN files /\ s \in Seq(Handle) /\ chunkid \in Nat
    BY DEF AllocateChunk, IInv, TypeOK
  <1>2. SUFFICES \E n \in Nat : \E t \in Seq(Handle) :
                   /\ IssueHandles(p, n)
                   /\ files' = [files EXCEPT ![p].chunks = t]
                   /\ Range(t) = Range(s) \cup (chunkid + 1 .. chunkid + n)
    <2>1. PICK n \in Nat, t \in Seq(Handle) :
                   /\ IssueHandles(p, n)
                   /\ files' = [files EXCEPT ![p].chunks = t]
                   /\ Range(t) = Range(s) \cup (chunkid + 1 .. chunkid + n)
      BY <1>2
    <2>2. /\ DOMAIN files' = DOMAIN files /\ files'[p].chunks = t /\ chunkid' = chunkid + n
          /\ \A q \in DOMAIN files : q # p => files'[q] = files[q]
      BY <1>1, <2>1 DEF IssueHandles, IInv, TypeOK
    <2>3. \A h \in Handle : \A q \in Path :
            Listed(h, q)' <=> IF q = p THEN h \in Range(t) ELSE Listed(h, q)
      BY <1>1, <2>2, OneListChanged
    <2>4. \A h \in Handle : Listed(h, p) <=> h \in Range(s)
      BY <1>1 DEF Listed
    <2>5. \A h \in Handle : \A q \in Path :
            Listed(h, q)' <=> Listed(h, q) \/ (q = p /\ h \in chunkid + 1 .. chunkid + n)
      BY <2>1, <2>3, <2>4
    <2> QED
      BY <1>1, <2>2, <2>5, OwnersAfterIssue
  <1>3. CASE \E index \in 0 .. MaxHandle : AllocateChunk(p, index)
    <2>1. PICK index \in 0 .. MaxHandle : AllocateChunk(p, index)
      BY <1>3
    <2> DEFINE t == InsertAt(s, index + 1, chunkid + 1)
    <2>2. /\ IssueHandles(p, 1) /\ files' = [files EXCEPT ![p].chunks = t]
          /\ index + 1 \in 1 .. Len(s) + 1 /\ chunkid + 1 \in Handle
      BY <1>1, <2>1 DEF AllocateChunk, IssueHandles, Handle, IInv, TypeOK
    <2>3. t \in Seq(Handle) /\ Range(t) = Range(s) \cup {chunkid + 1}
      <3> HIDE DEF s
      <3> QED
        BY <1>1, <2>2, InsertAtProperties, RangeOfInsertAt
    <2>4. {chunkid + 1} = chunkid + 1 .. chunkid + 1
      BY <1>1
    <2> HIDE DEF t, s
    <2> QED
      BY <2>2, <2>3, <2>4
  <1>4. CASE \E end \in Nat \ {0} : GrowTo(p, end)
    <2>1. PICK end \in Nat \ {0} : GrowTo(p, end)
      BY <1>4
    <2> DEFINE n == IF ChunkCount(end) > Len(s) THEN ChunkCount(end) - Len(s) ELSE 0
               new == [i \in 1 .. n |-> chunkid + i]
               t == s \o new
    <2>2. ChunkCount(end) \in Int
      BY MetadataAssumption DEF ChunkCount
    <2>3. n \in Nat
      BY <1>1, <2>2
    <2>4. IssueHandles(p, n) /\ files' = [files EXCEPT ![p].chunks = t]
      BY <2>1 DEF GrowTo
    <2>5. chunkid + n <= MaxHandle /\ chunkid >= 1
      BY <2>4 DEF IssueHandles, IInv, TypeOK
    <2> HIDE DEF s, n
    <2>6. new \in Seq(Handle) /\ Len(new) = n /\ \A i \in 1 .. n : new[i] = chunkid + i
      BY <1>1, <2>3, <2>5, MetadataAssumption DEF Handle
    <2> HIDE DEF new
    <2>7. /\ t \in Seq(Handle) /\ Len(t) = Len(s) + n
          /\ \A j \in 1 .. Len(s) + n : t[j] = IF j <= Len(s) THEN s[j] ELSE chunkid + (j - Len(s))
      BY <1>1, <2>3, <2>6, GrownProperties
    <2> HIDE DEF t
    <2>8. Range(t) = Range(s) \cup (chunkid + 1 .. chunkid + n)
      BY <1>1, <2>3, <2>7, RangeOfGrown, ZenonT(40)
    <2> QED
      BY <2>3, <2>4, <2>7, <2>8
  <1> QED
    BY <1>3, <1>4

LEMMA RemovalRefines ==
  ASSUME IInv, OwnerRule, OwnerRule',
         \/ \E p \in Path : DeleteFile(p)
         \/ \E m \in issued, size \in Reported : ReportDelete(m, size)
  PROVE  Lifecycle!Next
  <1>0. chunkid \in Nat
    BY DEF IInv, TypeOK
  <1>1. ASSUME NEW p \in Path, DeleteFile(p) PROVE Lifecycle!Next
    <2> DEFINE H == {h \in Handle : Listed(h, p)}
    <2>1. /\ DOMAIN files' = DOMAIN files \ {p} /\ chunkid' = chunkid
          /\ \A q \in DOMAIN files' : files'[q] = files[q]
      BY <1>1 DEF DeleteFile, Restrict
    <2>2. \A h \in Handle : \A q \in Path : Listed(h, q)' <=> Listed(h, q) /\ ~(q = p /\ h \in H)
      BY <2>1 DEF Listed, Range
    <2> QED
      BY <1>0, <2>1, <2>2, OwnersAfterRetire
  <1>2. ASSUME NEW m \in issued, NEW size \in Reported, ReportDelete(m, size) PROVE Lifecycle!Next
    <2> DEFINE p == m.path
               s == files[p].chunks
               t == RemoveHandle(s, m.id)
               H == {h \in Handle : h = m.id /\ Listed(h, p)}
    <2>1. p \in DOMAIN files /\ s \in Seq(Handle) /\ p \in Path /\ m.id \in Handle
      BY <1>2 DEF ReportDelete, IInv, TypeOK
    <2>2. \A i, j \in 1 .. Len(s) : s[i] = s[j] => i = j
      BY <2>1 DEF IInv, HandlesUnique
    <2>3. /\ DOMAIN files' = DOMAIN files /\ chunkid' = chunkid /\ files'[p].chunks = t
          /\ \A q \in DOMAIN files : q # p => files'[q] = files[q]
      BY <1>2, <2>1 DEF ReportDelete, IInv, TypeOK
    <2>4. t \in Seq(Handle) /\ Range(t) = Range(s) \ {m.id}
      <3> HIDE DEF s
      <3> QED
        BY <2>1, <2>2, RemoveHandleProperties, RangeOfRemoveHandle
    <2> HIDE DEF t
    <2>5. \A h \in Handle : \A q \in Path :
            Listed(h, q)' <=> IF q = p THEN h \in Range(t) ELSE Listed(h, q)
      BY <2>1, <2>3, <2>4, OneListChanged
    <2>6. \A h \in Handle : Listed(h, p) <=> h \in Range(s)
      BY <2>1 DEF Listed
    <2>7. \A h \in Handle : \A q \in Path : Listed(h, q)' <=> Listed(h, q) /\ ~(q = p /\ h \in H)
      BY <2>4, <2>5, <2>6
    <2> QED
      BY <1>0, <2>1, <2>3, <2>7, OwnersAfterRetire
  <1> QED
    BY <1>1, <1>2

\* The store implements HandleLifecycle: for every number of files, handles and
\* interleaved calls, a handle is fresh when a file takes it, stays in that file,
\* and never returns after it has left.
THEOREM StoreImplementsLifecycle == Spec => LifecycleSpec
  <1>1. Init => Lifecycle!Init
    <2> SUFFICES ASSUME Init, NEW h \in Handle PROVE OwnerOf(h) = Unborn
      BY DEF Lifecycle!Init
    <2> QED
      BY DEF Init, OwnerOf, Handle
  <1>2. IInv => OwnerRule
    BY OwnerIsUnique
  <1>3. IInv /\ OwnerRule /\ OwnerRule' /\ [Next]_vars => [Lifecycle!Next]_([h \in Handle |-> OwnerOf(h)])
    <2> SUFFICES ASSUME IInv, OwnerRule, OwnerRule', [Next]_vars
                 PROVE  Lifecycle!Next \/ [h \in Handle |-> OwnerOf(h)]' = [h \in Handle |-> OwnerOf(h)]
      OBVIOUS
    <2>0. chunkid \in Nat
      BY DEF IInv, TypeOK
    <2>1. CASE \/ \E p \in Path : CreateFile(p)
               \/ \E h \in Handle : GetChunkLocations(h)
               \/ \E m \in issued, size \in Reported : ReportTruncate(m, size) \/ ReportWrite(m, size)
               \/ Restart
               \/ UNCHANGED vars
      <3>1. \A h \in Handle : OwnerOf(h)' = OwnerOf(h)
        <4>1. chunkid' = chunkid /\ \A h \in Handle : \A q \in Path : Listed(h, q)' <=> Listed(h, q)
          BY <2>1, ListsUntouched
        <4> QED
          BY <2>0, <4>1, OwnersUnchanged
      <3> QED
        BY <3>1
    <2>2. ASSUME NEW p \in Path, NEW index \in 0 .. MaxHandle, AllocateChunk(p, index)
          PROVE  Lifecycle!Next
      BY <2>2, AllocationRefines
    <2>3. ASSUME NEW p \in Path, NEW offset \in 0 .. MaxLen - 1, NEW length \in 1 .. MaxLen - offset,
                 WriteFile(p, offset, length)
          PROVE  Lifecycle!Next
      <3>1. p \in DOMAIN files /\ GrowTo(p, offset + length) /\ offset + length \in Nat \ {0}
        BY <2>3, MetadataAssumption DEF WriteFile
      <3> QED
        BY <3>1, AllocationRefines
    <2>4. ASSUME NEW p \in Path, NEW length \in 1 .. MaxLen, AppendFile(p, length)
          PROVE  Lifecycle!Next
      <3>1. p \in DOMAIN files /\ GrowTo(p, files[p].size + length)
        BY <2>4 DEF AppendFile
      <3>2. files[p].size + length \in Nat \ {0}
        BY <3>1, MetadataAssumption DEF IInv, TypeOK
      <3> QED
        BY <3>1, <3>2, AllocationRefines
    <2>5. CASE \/ \E p \in Path : DeleteFile(p)
               \/ \E m \in issued, size \in Reported : ReportDelete(m, size)
      BY <2>5, RemovalRefines
    <2> QED
      BY <2>1, <2>2, <2>3, <2>4, <2>5 DEF Next, Operation, UpdateMasterMetadata
  <1> QED
    BY <1>1, <1>2, <1>3, StoreInvariant, PTL DEF Spec, LifecycleSpec, Lifecycle!Spec

-----------------------------------------------------------------------------
(***************************************************************************)
(* The order of the chunks of a file.  A list holds no handle twice, so the *)
(* place of a survivor is determined on both sides of a step, and each      *)
(* operation moves the places monotonically.                                *)
(***************************************************************************)
NoRepeats(s) == \A i, j \in 1 .. Len(s) : s[i] = s[j] => i = j

LEMMA SameListKeepsOrder ==
  ASSUME NEW S, NEW s \in Seq(S), NoRepeats(s)
  PROVE  KeepsOrder(s, s)
  BY DEF KeepsOrder, NoRepeats

LEMMA InsertAtKeepsOrder ==
  ASSUME NEW S, NEW s \in Seq(S), NoRepeats(s),
         NEW e \in S, \A j \in 1 .. Len(s) : s[j] # e, NEW i \in 1 .. Len(s) + 1
  PROVE  KeepsOrder(s, InsertAt(s, i, e))
  <1> DEFINE t == InsertAt(s, i, e)
  <1>0. Len(s) \in Nat /\ i \in Int
    OBVIOUS
  <1>1. /\ t \in Seq(S) /\ Len(t) = Len(s) + 1
        /\ \A j \in 1 .. Len(s) + 1 : t[j] = IF j < i THEN s[j] ELSE IF j = i THEN e ELSE s[j - 1]
    BY InsertAtProperties
  <1> HIDE DEF t
  <1> DEFINE Origin(k) == IF k < i THEN k ELSE k - 1
  <1>2. ASSUME NEW k \in 1 .. Len(t), NEW a \in 1 .. Len(s), s[a] = t[k]
        PROVE  k # i /\ a = Origin(k)
    <2>1. k # i
      BY <1>0, <1>1, <1>2
    <2>2. Origin(k) \in 1 .. Len(s) /\ t[k] = s[Origin(k)]
      BY <1>0, <1>1, <2>1
    <2> QED
      BY <1>2, <2>1, <2>2 DEF NoRepeats
  <1>3. DOMAIN s = 1 .. Len(s) /\ DOMAIN t = 1 .. Len(t)
    BY <1>1
  <1>4. ASSUME NEW a \in 1 .. Len(s), NEW b \in 1 .. Len(s), NEW k \in 1 .. Len(t), NEW l \in 1 .. Len(t),
               a < b, s[a] = t[k], s[b] = t[l]
        PROVE  k < l
    <2>1. k # i /\ l # i /\ a = Origin(k) /\ b = Origin(l)
      BY <1>2, <1>4
    <2>2. k \in Int /\ l \in Int
      OBVIOUS
    <2> QED
      BY <1>0, <1>4, <2>1, <2>2
  <1> QED
    BY <1>3, <1>4 DEF KeepsOrder, t

LEMMA RemoveHandleKeepsOrder ==
  ASSUME NEW S, NEW s \in Seq(S), NoRepeats(s), NEW h
  PROVE  KeepsOrder(s, RemoveHandle(s, h))
  <1>1. CASE \A i \in 1 .. Len(s) : s[i] # h
    BY <1>1, SameListKeepsOrder DEF RemoveHandle
  <1>2. CASE \E i \in 1 .. Len(s) : s[i] = h
    <2> DEFINE First(i) == s[i] = h /\ \A j \in 1 .. i - 1 : s[j] # h
               i0 == CHOOSE i \in DOMAIN s : First(i)
    <2>1. \E i \in 1 .. Len(s) : First(i)
      BY <1>2 DEF NoRepeats
    <2>2. i0 \in 1 .. Len(s)
      BY <2>1
    <2>3. RemoveHandle(s, h) = RemoveAt(s, i0)
      BY <1>2 DEF RemoveHandle
    <2> HIDE DEF i0
    <2> DEFINE t == RemoveAt(s, i0)
    <2>0. Len(s) \in Nat /\ i0 \in Int
      BY <2>2
    <2>4. /\ t \in Seq(S) /\ Len(t) = Len(s) - 1
          /\ \A j \in 1 .. Len(s) - 1 : t[j] = IF j < i0 THEN s[j] ELSE s[j + 1]
      BY <2>2, RemoveAtProperties
    <2> HIDE DEF t
    <2> DEFINE Origin(k) == IF k < i0 THEN k ELSE k + 1
    <2>5. ASSUME NEW k \in 1 .. Len(t), NEW a \in 1 .. Len(s), s[a] = t[k]
          PROVE  a = Origin(k)
      <3>1. Origin(k) \in 1 .. Len(s) /\ t[k] = s[Origin(k)]
        BY <2>0, <2>2, <2>4
      <3> QED
        BY <2>5, <3>1 DEF NoRepeats
    <2>6. DOMAIN s = 1 .. Len(s) /\ DOMAIN t = 1 .. Len(t)
      BY <2>4
    <2>7. ASSUME NEW a \in 1 .. Len(s), NEW b \in 1 .. Len(s), NEW k \in 1 .. Len(t), NEW l \in 1 .. Len(t),
                 a < b, s[a] = t[k], s[b] = t[l]
          PROVE  k < l
      <3>1. a = Origin(k) /\ b = Origin(l)
        BY <2>5, <2>7
      <3>2. k \in Int /\ l \in Int
        OBVIOUS
      <3> QED
        BY <2>0, <2>7, <3>1, <3>2
    <2> QED
      BY <2>3, <2>6, <2>7 DEF KeepsOrder, t
  <1> QED
    BY <1>1, <1>2

LEMMA GrownKeepsOrder ==
  ASSUME NEW k \in Nat, NEW n \in Nat, NEW s \in Seq(Handle), NoRepeats(s),
         \A i \in 1 .. Len(s) : s[i] <= k,
         NEW t \in Seq(Handle), Len(t) = Len(s) + n,
         \A j \in 1 .. Len(s) + n : t[j] = IF j <= Len(s) THEN s[j] ELSE k + (j - Len(s))
  PROVE  KeepsOrder(s, t)
  <1>1. DOMAIN s = 1 .. Len(s) /\ DOMAIN t = 1 .. Len(t) /\ Len(s) \in Nat
    OBVIOUS
  <1>2. ASSUME NEW j \in 1 .. Len(t), NEW a \in 1 .. Len(s), s[a] = t[j]
        PROVE  a = j
    <2>1. s[a] \in Int /\ s[a] <= k /\ j \in Int
      <3>1. s[a] \in Handle
        BY ElementOfSeq
      <3> QED
        BY <3>1, MetadataAssumption DEF Handle
    <2>2. j <= Len(s)
      BY <1>1, <1>2, <2>1
    <2> QED
      BY <1>1, <1>2, <2>2 DEF NoRepeats
  <1> QED
    BY <1>1, <1>2 DEF KeepsOrder

\* Whatever the store does to a file that stays, its surviving chunks keep their order:
\* late and repeated reports take chunks out of the middle, insertions put them there.
THEOREM ChunksKeepTheirOrder == Spec => SurvivorsKeepOrder
  <1> DEFINE Kept == \A p \in DOMAIN files \cap DOMAIN files' :
                       KeepsOrder(files[p].chunks, files'[p].chunks)
  <1>1. IInv /\ [Next]_vars => Kept
    <2> SUFFICES ASSUME IInv, [Next]_vars PROVE Kept
      OBVIOUS
    <2>0. /\ \A p \in DOMAIN files : /\ files[p].chunks \in Seq(Handle) /\ NoRepeats(files[p].chunks)
                                     /\ \A i \in 1 .. Len(files[p].chunks) : files[p].chunks[i] <= chunkid
                                     /\ KeepsOrder(files[p].chunks, files[p].chunks)
          /\ chunkid \in Nat /\ chunkid >= 1 /\ chunkid <= MaxHandle
      <3>1. \A p \in DOMAIN files : files[p].chunks \in Seq(Handle)
        BY DEF IInv, TypeOK
      <3>2. \A p \in DOMAIN files : NoRepeats(files[p].chunks)
        BY <3>1 DEF IInv, HandlesUnique, NoRepeats
      <3> QED
        BY <3>1, <3>2, SameListKeepsOrder, MetadataAssumption DEF IInv, TypeOK, IdsIssued
    <2>1. ASSUME \A p \in DOMAIN files \cap DOMAIN files' : files'[p].chunks = files[p].chunks
          PROVE  Kept
      BY <2>0, <2>1
    <2>2. ASSUME NEW p \in DOMAIN files, NEW chunks, KeepsOrder(files[p].chunks, chunks),
                 files'[p].chunks = chunks, \A q \in DOMAIN files \ {p} : files'[q] = files[q]
          PROVE  Kept
      BY <2>0, <2>2
    <2>3. ASSUME NEW p \in Path, NEW index \in 0 .. MaxHandle, AllocateChunk(p, index) PROVE Kept
      <3>1. /\ p \in DOMAIN files /\ index + 1 \in 1 .. Len(files[p].chunks) + 1 /\ chunkid + 1 \in Handle
            /\ files' = [files EXCEPT ![p].chunks = InsertAt(@, index + 1, chunkid + 1)]
        BY <2>0, <2>3, MetadataAssumption DEF AllocateChunk, IssueHandles, Handle, IInv, TypeOK
      <3>2. \A i \in 1 .. Len(files[p].chunks) : files[p].chunks[i] # chunkid + 1
        <4> SUFFICES ASSUME NEW i \in 1 .. Len(files[p].chunks) PROVE files[p].chunks[i] # chunkid + 1
          OBVIOUS
        <4>1. files[p].chunks[i] <= chunkid /\ files[p].chunks[i] \in Handle
          BY <2>0, <3>1
        <4> QED
          BY <2>0, <4>1 DEF Handle
      <3>3. KeepsOrder(files[p].chunks, InsertAt(files[p].chunks, index + 1, chunkid + 1))
        BY <2>0, <3>1, <3>2, InsertAtKeepsOrder
      <3> QED
        BY <2>2, <3>1, <3>3 DEF IInv, TypeOK
    <2>4. ASSUME NEW p \in DOMAIN files, NEW end \in Nat \ {0}, GrowTo(p, end) PROVE Kept
      <3> DEFINE s == files[p].chunks
                 n == IF ChunkCount(end) > Len(s) THEN ChunkCount(end) - Len(s) ELSE 0
                 new == [i \in 1 .. n |-> chunkid + i]
                 t == s \o new
      <3>1. s \in Seq(Handle) /\ NoRepeats(s) /\ \A i \in 1 .. Len(s) : s[i] <= chunkid
        BY <2>0
      <3>2. n \in Nat
        <4>1. ChunkCount(end) \in Int
          BY MetadataAssumption DEF ChunkCount
        <4> QED
          BY <3>1, <4>1
      <3>3. chunkid + n <= MaxHandle /\ files' = [files EXCEPT ![p].chunks = t]
        BY <2>4 DEF GrowTo, IssueHandles
      <3> HIDE DEF s, n
      <3>c. chunkid \in Nat /\ chunkid >= 1 /\ chunkid + n <= MaxHandle
        BY <2>0, <3>3
      <3>4. new \in Seq(Handle) /\ Len(new) = n /\ \A i \in 1 .. n : new[i] = chunkid + i
        BY <3>2, <3>c, MetadataAssumption DEF Handle
      <3> HIDE DEF new
      <3>5. /\ t \in Seq(Handle) /\ Len(t) = Len(s) + n
            /\ \A j \in 1 .. Len(s) + n : t[j] = IF j <= Len(s) THEN s[j] ELSE chunkid + (j - Len(s))
        BY <3>c, <3>1, <3>2, <3>4, GrownProperties
      <3> HIDE DEF t
      <3>6. KeepsOrder(s, t)
        BY <2>0, <3>1, <3>2, <3>5, GrownKeepsOrder
      <3>7. files'[p].chunks = t /\ \A q \in DOMAIN files \ {p} : files'[q] = files[q]
        BY <3>3 DEF IInv, TypeOK
      <3> QED
        BY <2>2, <3>6, <3>7 DEF s
    <2>5. ASSUME NEW m \in issued, NEW size \in Reported, ReportDelete(m, size) PROVE Kept
      <3>1. /\ m.path \in DOMAIN files
            /\ files'[m.path].chunks = RemoveHandle(files[m.path].chunks, m.id)
            /\ \A q \in DOMAIN files \ {m.path} : files'[q] = files[q]
        BY <2>5 DEF ReportDelete, IInv, TypeOK
      <3> QED
        BY <2>0, <2>2, <3>1, RemoveHandleKeepsOrder
    <2>6. ASSUME \/ \E p \in Path : CreateFile(p) \/ DeleteFile(p)
                 \/ \E h \in Handle : GetChunkLocations(h)
                 \/ \E m \in issued, size \in Reported : ReportTruncate(m, size) \/ ReportWrite(m, size)
                 \/ Restart \/ UNCHANGED vars
          PROVE  Kept
      <3>1. CASE \E p \in Path : CreateFile(p)
        BY <2>1, <3>1 DEF CreateFile
      <3>2. CASE \E p \in Path : DeleteFile(p)
        BY <2>1, <3>2 DEF DeleteFile, Restrict
      <3>3. CASE (\E h \in Handle : GetChunkLocations(h)) \/ Restart \/ UNCHANGED vars
        BY <2>1, <3>3 DEF GetChunkLocations, Restart, vars
      <3>4. CASE \E m \in issued, size \in Reported : ReportTruncate(m, size) \/ ReportWrite(m, size)
        <4> PICK m \in issued, size \in Reported : ReportTruncate(m, size) \/ ReportWrite(m, size)
          BY <3>4
        <4>1. CASE ReportTruncate(m, size)
          BY <2>1, <4>1 DEF ReportTruncate, IInv, TypeOK
        <4>2. CASE ReportWrite(m, size)
          BY <2>1, <4>2 DEF ReportWrite, IInv, TypeOK
        <4> QED
          BY <4>1, <4>2
      <3> QED
        BY <2>6, <3>1, <3>2, <3>3, <3>4
    <2>7. ASSUME NEW p \in Path, NEW offset \in 0 .. MaxLen - 1, NEW length \in 1 .. MaxLen - offset,
                 WriteFile(p, offset, length)
          PROVE  Kept
      <3>1. p \in DOMAIN files /\ GrowTo(p, offset + length) /\ offset + length \in Nat \ {0}
        BY <2>7, MetadataAssumption DEF WriteFile
      <3> QED
        BY <2>4, <3>1
    <2>8. ASSUME NEW p \in Path, NEW length \in 1 .. MaxLen, AppendFile(p, length) PROVE Kept
      <3>1. p \in DOMAIN files /\ GrowTo(p, files[p].size + length)
        BY <2>8 DEF AppendFile
      <3>2. files[p].size + length \in Nat \ {0}
        BY <3>1, MetadataAssumption DEF IInv, TypeOK
      <3> QED
        BY <2>4, <3>1, <3>2
    <2> HIDE DEF Kept
    <2> QED
      BY <2>3, <2>5, <2>6, <2>7, <2>8 DEF Next, Operation, UpdateMasterMetadata
  <1>2. IInv /\ [Next]_vars => [Kept]_vars
    BY <1>1
  <1> QED
    BY <1>2, StoreInvariant, PTL DEF Spec, SurvivorsKeepOrder
=============================================================================
