------------------------- MODULE ChunkStorageProofs -------------------------
(***************************************************************************)
(* Theorems about ChunkStorage, for any chunks, sizes and number of         *)
(* handlers.                                                                *)
(*                                                                          *)
(* What a method of Storage does to its own chunk and that it leaves the    *)
(* others alone is said once, in StoreEffect; the rest follows from it.     *)
(***************************************************************************)
EXTENDS ChunkStorage, CountingLemmas

Sized(sizes) == DOMAIN sizes \subseteq Chunk /\ \A c \in DOMAIN sizes : sizes[c] \in Size

\* The map and the files say the same of chunk c.
Agree(f, m, c) == (c \in DOMAIN f <=> c \in DOMAIN m) /\ SizeIn(f, c) = SizeIn(m, c)

\* f and g differ in chunk c at most.
Elsewhere(f, g, c) ==
  \A d \in Chunk \ {c} : (d \in DOMAIN f <=> d \in DOMAIN g) /\ SizeIn(f, d) = SizeIn(g, d)

\* A handler that nobody has overtaken still holds the size in the map.
OldIsCurrent ==
  \A k \in Call : At(k, "store") /\ ~call[k].raced => call[k].old = GetChunkSize(About(k))

IInv == TypeOK /\ HeartbeatNamesFiles /\ MapFollowsFile /\ OldIsCurrent

-----------------------------------------------------------------------------
LEMMA ModTyped ==
  ASSUME NEW x \in Int
  PROVE  x % Word \in 0 .. Word - 1
  BY StorageAssumption

LEMMA SizeInTyped ==
  ASSUME NEW sizes, Sized(sizes), NEW c
  PROVE  SizeIn(sizes, c) \in Size
  BY StorageAssumption DEF Sized, SizeIn, Size

LEMMA SetEffect ==
  ASSUME NEW sizes, Sized(sizes), NEW c \in Chunk, NEW n \in Size
  PROVE  /\ Sized(Set(sizes, c, n))
         /\ DOMAIN Set(sizes, c, n) = DOMAIN sizes \cup {c}
         /\ SizeIn(Set(sizes, c, n), c) = n
         /\ Elsewhere(sizes, Set(sizes, c, n), c)
  BY DEF Sized, Set, SizeIn, Elsewhere

LEMMA DropEffect ==
  ASSUME NEW sizes, Sized(sizes), NEW c \in Chunk
  PROVE  /\ Sized(Drop(sizes, c))
         /\ DOMAIN Drop(sizes, c) = DOMAIN sizes \ {c}
         /\ SizeIn(Drop(sizes, c), c) = 0
         /\ Elsewhere(sizes, Drop(sizes, c), c)
  BY DEF Sized, Drop, Restrict, SizeIn, Elsewhere

LEMMA StoresEffect ==
  ASSUME TypeOK, HeartbeatNamesFiles, NEW r \in Request, Stores(r)
  PROVE  /\ Sized(file') /\ Sized(chunks') /\ torn' = torn \ {r.chunk}
         /\ DOMAIN chunks' \subseteq DOMAIN file'
         /\ Agree(file', chunks', r.chunk)
         /\ Elsewhere(file, file', r.chunk) /\ Elsewhere(chunks, chunks', r.chunk)
  <1> DEFINE c == r.chunk
  <1>1. c \in Chunk /\ r.to \in Size
    BY DEF Request
  <1>2. Sized(file) /\ Sized(chunks) /\ DOMAIN chunks \subseteq DOMAIN file
    BY DEF TypeOK, Sized, HeartbeatNamesFiles, GetChunkHandles
  <1>3. torn' = torn \ {c}
    BY DEF Stores
  <1> HIDE DEF c
  <1>4. CASE r.op = "write" /\ WriteChunk(r)
    <2>1. Written(r) \in Size
      BY <1>1, <1>2, SizeInTyped DEF Written, Longer
    <2>2. file' = Set(file, c, Written(r)) /\ chunks' = Set(chunks, c, file'[c])
      BY <1>4 DEF WriteChunk, c
    <2>3. chunks' = Set(chunks, c, Written(r))
      BY <2>2 DEF Set
    <2>4. Sized(file') /\ SizeIn(file', c) = Written(r)
      BY <1>1, <1>2, <2>1, <2>2, SetEffect
    <2>5. Sized(chunks') /\ SizeIn(chunks', c) = Written(r)
      BY <1>1, <1>2, <2>1, <2>3, SetEffect
    <2>6. DOMAIN file' = DOMAIN file \cup {c} /\ DOMAIN chunks' = DOMAIN chunks \cup {c}
      BY <1>1, <1>2, <2>1, <2>2, <2>3, SetEffect
    <2>7. Elsewhere(file, file', c) /\ Elsewhere(chunks, chunks', c)
      BY <1>1, <1>2, <2>1, <2>2, <2>3, SetEffect
    <2> QED
      BY <1>2, <1>3, <2>4, <2>5, <2>6, <2>7 DEF Agree, c
  <1>5. CASE r.op = "truncate" /\ TruncateChunk(r)
    <2>1. file' = Set(file, c, r.to) /\ chunks' = Set(chunks, c, r.to)
      BY <1>5 DEF TruncateChunk, c
    <2>2. Sized(file') /\ Sized(chunks')
      BY <1>1, <1>2, <2>1, SetEffect
    <2>3. DOMAIN file' = DOMAIN file \cup {c} /\ DOMAIN chunks' = DOMAIN chunks \cup {c}
      BY <1>1, <1>2, <2>1, SetEffect
    <2>4. SizeIn(file', c) = r.to /\ SizeIn(chunks', c) = r.to
      BY <1>1, <1>2, <2>1, SetEffect
    <2>5. Elsewhere(file, file', c) /\ Elsewhere(chunks, chunks', c)
      BY <1>1, <1>2, <2>1, SetEffect
    <2> QED
      BY <1>2, <1>3, <2>2, <2>3, <2>4, <2>5 DEF Agree, c
  <1>6. CASE r.op = "delete" /\ DeleteChunk(r.chunk)
    <2>1. file' = Drop(file, c) /\ chunks' = Drop(chunks, c)
      BY <1>6 DEF DeleteChunk, c
    <2>2. Sized(file') /\ Sized(chunks')
      BY <1>1, <1>2, <2>1, DropEffect
    <2>3. DOMAIN file' = DOMAIN file \ {c} /\ DOMAIN chunks' = DOMAIN chunks \ {c}
      BY <1>1, <1>2, <2>1, DropEffect
    <2>4. SizeIn(file', c) = 0 /\ SizeIn(chunks', c) = 0
      BY <1>1, <1>2, <2>1, DropEffect
    <2>5. Elsewhere(file, file', c) /\ Elsewhere(chunks, chunks', c)
      BY <1>1, <1>2, <2>1, DropEffect
    <2> QED
      BY <1>2, <1>3, <2>2, <2>3, <2>4, <2>5 DEF Agree, c
  <1> QED
    BY <1>4, <1>5, <1>6 DEF Stores

\* A method that fails never changes the map: when it finds no file there was no entry.
LEMMA StoreFailsEffect ==
  ASSUME TypeOK, HeartbeatNamesFiles, NEW r \in Request, StoreFails(r)
  PROVE  /\ Sized(file') /\ Sized(chunks') /\ torn' = torn \cup {r.chunk}
         /\ DOMAIN chunks' \subseteq DOMAIN file'
         /\ Elsewhere(file, file', r.chunk) /\ Elsewhere(chunks, chunks', r.chunk)
  <1> DEFINE c == r.chunk
  <1>1. c \in Chunk /\ r.to \in Size /\ r.from \in Size
    BY DEF Request
  <1>2. Sized(file) /\ Sized(chunks) /\ DOMAIN chunks \subseteq DOMAIN file
    BY DEF TypeOK, Sized, HeartbeatNamesFiles, GetChunkHandles
  <1>3. torn' = torn \cup {c}
    BY DEF StoreFails
  <1>4. SizeIn(file, c) \in Size
    BY <1>2, SizeInTyped
  <1> HIDE DEF c
  <1>5. CASE r.op = "write" /\ WriteChunkFails(r)
    <2>1. chunks' = chunks
      BY <1>5 DEF WriteChunkFails
    <2>2. file' = file \/ \E n \in Size : file' = Set(file, c, n)
      <3>1. CASE file' = Set(file, c, SizeIn(file, c))
        BY <3>1, <1>4
      <3>2. ASSUME NEW n \in r.from + 1 .. r.to, file' = Set(file, c, Longer(SizeIn(file, c), n))
            PROVE  \E m \in Size : file' = Set(file, c, m)
        <4>1. Longer(SizeIn(file, c), n) \in Size
          BY <1>1, <1>4, StorageAssumption DEF Longer, Size
        <4> QED
          BY <3>2, <4>1
      <3> QED
        BY <1>5, <3>1, <3>2 DEF WriteChunkFails, c
    <2>3. ASSUME NEW n \in Size, file' = Set(file, c, n)
          PROVE  Sized(file') /\ DOMAIN file \subseteq DOMAIN file' /\ Elsewhere(file, file', c)
      <3>1. Sized(file') /\ DOMAIN file' = DOMAIN file \cup {c}
        BY <1>1, <1>2, <2>3, SetEffect
      <3>2. Elsewhere(file, file', c)
        BY <1>1, <1>2, <2>3, SetEffect
      <3> QED
        BY <3>1, <3>2
    <2>4. Sized(file') /\ DOMAIN file \subseteq DOMAIN file' /\ Elsewhere(file, file', c)
      BY <1>2, <2>2, <2>3 DEF Elsewhere
    <2> QED
      BY <1>2, <1>3, <2>1, <2>4 DEF c, Elsewhere
  <1>6. CASE r.op = "truncate" /\ TruncateChunkFails(r)
    <2>1. chunks' = chunks /\ (file' = file \/ file' = Set(file, c, r.to))
      BY <1>6 DEF TruncateChunkFails, c
    <2>2. CASE file' = Set(file, c, r.to)
      <3>1. Sized(file') /\ DOMAIN file' = DOMAIN file \cup {c} /\ Elsewhere(file, file', c)
        BY <1>1, <1>2, <2>2, SetEffect
      <3> QED
        BY <1>2, <1>3, <2>1, <3>1 DEF c, Elsewhere
    <2> QED
      BY <1>2, <1>3, <2>1, <2>2 DEF c, Elsewhere
  <1>7. CASE r.op = "delete" /\ DeleteChunkFails(r.chunk)
    <2>1. file' = file /\ (chunks' = chunks \/ chunks' = Drop(chunks, c))
      BY <1>7 DEF DeleteChunkFails, c
    <2>2. CASE chunks' = Drop(chunks, c)
      <3>1. Sized(chunks') /\ DOMAIN chunks' \subseteq DOMAIN chunks
        BY <1>1, <1>2, <2>2, DropEffect
      <3>2. Elsewhere(chunks, chunks', c)
        BY <1>1, <1>2, <2>2, DropEffect
      <3> QED
        BY <1>2, <1>3, <2>1, <3>1, <3>2 DEF c, Elsewhere
    <2> QED
      BY <1>2, <1>3, <2>1, <2>2 DEF c, Elsewhere
  <1> QED
    BY <1>5, <1>6, <1>7 DEF StoreFails

-----------------------------------------------------------------------------
\* An access to storage about chunk c, by whoever makes it.
Accessed(c) ==
  /\ Sized(file') /\ Sized(chunks') /\ torn' \in SUBSET Chunk
  /\ HeartbeatNamesFiles' /\ MapFollowsFile'
  /\ Elsewhere(file, file', c) /\ Elsewhere(chunks, chunks', c)

LEMMA AccessKeepsMap ==
  ASSUME IInv, NEW r \in Request, Stores(r) \/ StoreFails(r)
  PROVE  Accessed(r.chunk)
  <1>1. TypeOK /\ HeartbeatNamesFiles /\ MapFollowsFile
    BY DEF IInv
  <1>2. r.chunk \in Chunk /\ torn \subseteq Chunk
    BY <1>1 DEF Request, TypeOK
  <1>3. \A d \in Chunk \ torn : Agree(file, chunks, d)
    BY <1>1 DEF MapFollowsFile, GetChunkSize, Agree
  <1>4. CASE Stores(r)
    <2>1. \A d \in Chunk \ torn' : Agree(file', chunks', d)
      BY <1>1, <1>3, <1>4, StoresEffect DEF Agree, Elsewhere
    <2> QED
      BY <1>1, <1>2, <1>4, <2>1, StoresEffect
         DEF Accessed, HeartbeatNamesFiles, GetChunkHandles, MapFollowsFile, GetChunkSize, Agree
  <1>5. CASE StoreFails(r)
    <2>1. \A d \in Chunk \ torn' : Agree(file', chunks', d)
      BY <1>1, <1>3, <1>5, StoreFailsEffect DEF Agree, Elsewhere
    <2> QED
      BY <1>1, <1>2, <1>5, <2>1, StoreFailsEffect
         DEF Accessed, HeartbeatNamesFiles, GetChunkHandles, MapFollowsFile, GetChunkSize, Agree
  <1> QED
    BY <1>4, <1>5

-----------------------------------------------------------------------------
LEMMA InitIInv == Init => IInv
  <1> SUFFICES ASSUME Init PROVE IInv
    OBVIOUS
  <1> DEFINE c0 == CHOOSE c \in Chunk : TRUE
  <1>1. c0 \in Chunk
    BY StorageAssumption
  <1>2. Idle = [pc |-> "idle", req |-> [op |-> "delete", chunk |-> c0, from |-> 0, to |-> 0],
                old |-> 0, change |-> 0, raced |-> FALSE]
    BY DEF Idle, Ask
  <1> HIDE DEF c0
  <1>3. TypeOK
    BY <1>1, <1>2, StorageAssumption DEF Init, TypeOK, Request, Size
  <1>4. HeartbeatNamesFiles /\ MapFollowsFile
    BY DEF Init, HeartbeatNamesFiles, GetChunkHandles, MapFollowsFile, GetChunkSize, SizeIn
  <1>5. OldIsCurrent
    BY <1>2 DEF Init, OldIsCurrent, At
  <1> QED
    BY <1>3, <1>4, <1>5 DEF IInv

\* Everything a handler may be.
HandlerState == [pc : {"idle", "store", "measure", "answer"}, req : Request,
                 old : Size, change : 0 .. Word - 1, raced : BOOLEAN]

LEMMA RecordsTyped ==
  ASSUME TypeOK
  PROVE  /\ Idle \in HandlerState
         /\ \A c \in Chunk : GetChunkSize(c) \in Size
         /\ \A k \in Call : About(k) \in Chunk
         /\ \A k \in Call, n \in 0 .. Word - 1 : Answering(k, n) \in HandlerState
  <1> DEFINE c0 == CHOOSE c \in Chunk : TRUE
  <1>1. c0 \in Chunk
    BY StorageAssumption
  <1>2. 0 \in Size /\ 0 \in 0 .. Word - 1
    BY StorageAssumption DEF Size
  <1>3. Idle = [pc |-> "idle", req |-> [op |-> "delete", chunk |-> c0, from |-> 0, to |-> 0],
                old |-> 0, change |-> 0, raced |-> FALSE]
    BY DEF Idle, Ask
  <1> HIDE DEF c0
  <1>4. Idle \in HandlerState
    BY <1>1, <1>2, <1>3 DEF HandlerState, Request
  <1>5. \A c \in Chunk : GetChunkSize(c) \in Size
    BY <1>2 DEF GetChunkSize, SizeIn, TypeOK
  <1>6. \A k \in Call : About(k) \in Chunk /\ call[k].req.op \in {"write", "truncate", "delete", "copy"}
    BY DEF TypeOK, About, Request
  <1>7. ASSUME NEW k \in Call, NEW n \in 0 .. Word - 1
        PROVE  Answering(k, n) \in HandlerState
    <2>1. Ask(call[k].req.op, About(k)) \in Request
      BY <1>2, <1>6 DEF Ask, Request
    <2> QED
      BY <1>4, <2>1 DEF Answering, HandlerState
  <1> QED
    BY <1>4, <1>5, <1>6, <1>7

LEMMA OvertakenTyped ==
  ASSUME TypeOK, NEW c, NEW k, NEW h \in HandlerState
  PROVE  /\ Overtaken(c, k) \in [Call -> HandlerState]
         /\ [Overtaken(c, k) EXCEPT ![k] = h] \in [Call -> HandlerState]
  <1>1. call \in [Call -> HandlerState]
    BY DEF TypeOK, HandlerState
  <1>2. \A j \in Call, b \in BOOLEAN : [call[j] EXCEPT !.raced = b] \in HandlerState
    BY <1>1 DEF HandlerState
  <1>3. \A j \in Call : (call[j].raced \/ (j # k /\ Holds(j, c))) \in BOOLEAN
    BY <1>1 DEF HandlerState
  <1>4. Overtaken(c, k) \in [Call -> HandlerState]
    BY <1>2, <1>3 DEF Overtaken
  <1> QED
    BY <1>4

\* Everything but the handlers' old sizes, for a step that is not about storage.
LEMMA QuietStep ==
  ASSUME IInv, NEW k \in Call, NEW h \in HandlerState, call' = [call EXCEPT ![k] = h],
         h.pc = "store" => h.old = GetChunkSize(h.req.chunk),
         UNCHANGED <<file, chunks, torn>>,
         credited' \in [Chunk -> 0 .. Word - 1], spoiled' \in SUBSET Chunk
  PROVE  IInv'
  <1>1. call \in [Call -> HandlerState]
    BY DEF IInv, TypeOK, HandlerState
  <1>2. /\ call' \in [Call -> HandlerState] /\ call'[k] = h
        /\ \A j \in Call \ {k} : call'[j] = call[j]
    BY <1>1
  <1>3. TypeOK'
    BY <1>2 DEF IInv, TypeOK, HandlerState
  <1>4. HeartbeatNamesFiles' /\ MapFollowsFile'
    BY DEF IInv, HeartbeatNamesFiles, GetChunkHandles, MapFollowsFile, GetChunkSize
  <1>5. OldIsCurrent'
    BY <1>2 DEF IInv, OldIsCurrent, At, About, GetChunkSize
  <1> QED
    BY <1>3, <1>4, <1>5 DEF IInv

\* An access to storage about c that overtakes the handlers at work on c.
LEMMA LoudStep ==
  ASSUME IInv, NEW c \in Chunk, Accessed(c), call' \in [Call -> HandlerState],
         \A j \in Call : call'[j].pc = "store" /\ ~call'[j].raced
           => /\ call[j].pc = "store" /\ ~call[j].raced /\ call[j].req.chunk # c
              /\ call'[j].old = call[j].old /\ call'[j].req = call[j].req,
         credited' \in [Chunk -> 0 .. Word - 1], spoiled' \in SUBSET Chunk
  PROVE  IInv'
  <1>1. TypeOK'
    BY DEF TypeOK, Accessed, Sized, HandlerState
  <1>2. ASSUME NEW j \in Call, call'[j].pc = "store", ~call'[j].raced
        PROVE  call'[j].old = SizeIn(chunks', call'[j].req.chunk)
    <2> DEFINE d == call[j].req.chunk
    <2>1. /\ call[j].pc = "store" /\ ~call[j].raced /\ d # c
          /\ call'[j].old = call[j].old /\ call'[j].req.chunk = d
      BY <1>2
    <2>2. d \in Chunk /\ call[j].old = SizeIn(chunks, d)
      BY <2>1 DEF IInv, TypeOK, Request, OldIsCurrent, At, About, GetChunkSize
    <2>3. SizeIn(chunks, d) = SizeIn(chunks', d)
      BY <2>1, <2>2 DEF Accessed, Elsewhere
    <2> HIDE DEF d
    <2> QED
      BY <2>1, <2>2, <2>3
  <1>3. OldIsCurrent'
    BY <1>2 DEF OldIsCurrent, At, About, GetChunkSize
  <1> QED
    BY <1>1, <1>3 DEF IInv, Accessed

\* What Overtaken and the handler's own next state h make of the handlers.
LEMMA OvertakenCurrent ==
  ASSUME TypeOK, NEW c, NEW k \in Call, About(k) = c, NEW h \in HandlerState, h.pc # "store",
         call' = [Overtaken(c, k) EXCEPT ![k] = h]
  PROVE  /\ call' \in [Call -> HandlerState]
         /\ \A j \in Call : call'[j].pc = "store" /\ ~call'[j].raced
              => /\ call[j].pc = "store" /\ ~call[j].raced /\ call[j].req.chunk # c
                 /\ call'[j].old = call[j].old /\ call'[j].req = call[j].req
  <1>1. call' \in [Call -> HandlerState]
    BY OvertakenTyped
  <1>2. call \in [Call -> HandlerState]
    BY DEF TypeOK, HandlerState
  <1>3. ASSUME NEW j \in Call, call'[j].pc = "store", ~call'[j].raced
        PROVE  /\ call[j].pc = "store" /\ ~call[j].raced /\ call[j].req.chunk # c
               /\ call'[j].old = call[j].old /\ call'[j].req = call[j].req
    <2>1. DOMAIN Overtaken(c, k) = Call
      BY DEF Overtaken
    <2>2. j # k
      BY <1>3, <2>1
    <2>3. call'[j] = [call[j] EXCEPT !.raced = @ \/ (j # k /\ Holds(j, c))]
      BY <2>2 DEF Overtaken
    <2>4. /\ call'[j].pc = call[j].pc /\ call'[j].old = call[j].old /\ call'[j].req = call[j].req
          /\ call'[j].raced = (call[j].raced \/ Holds(j, c))
      BY <1>2, <2>2, <2>3 DEF HandlerState
    <2>5. ~call[j].raced /\ ~Holds(j, c)
      BY <1>3, <2>4
    <2> QED
      BY <1>3, <2>4, <2>5 DEF Holds, About
  <1> QED
    BY <1>1, <1>3

-----------------------------------------------------------------------------
LEMMA BeginIInv ==
  ASSUME IInv, NEW k \in Call, NEW r \in Request, Begin(k, r)
  PROVE  IInv'
  <1> DEFINE h == [Idle EXCEPT !.pc = "store", !.req = r, !.old = GetChunkSize(r.chunk)]
  <1>1. TypeOK /\ r.chunk \in Chunk
    BY DEF IInv, Request
  <1>2. h \in HandlerState /\ h.pc = "store" /\ h.old = GetChunkSize(h.req.chunk)
    BY <1>1, RecordsTyped DEF HandlerState
  <1>3. call' = [call EXCEPT ![k] = h] /\ UNCHANGED <<file, chunks, credited, torn, spoiled>>
    BY DEF Begin
  <1> HIDE DEF h
  <1> QED
    BY <1>1, <1>2, <1>3, QuietStep DEF TypeOK

LEMMA StoreIInv ==
  ASSUME IInv, NEW k \in Call, Store(k)
  PROVE  IInv'
  <1> DEFINE c == About(k)
             h == IF call[k].req.op = "write" THEN [Overtaken(c, k)[k] EXCEPT !.pc = "measure"]
                                              ELSE Answering(k, Change(k))
  <1>1. TypeOK /\ call[k].req \in Request /\ c \in Chunk /\ call[k].old \in Size
    BY RecordsTyped DEF IInv, TypeOK
  <1>2. Accessed(c)
    BY <1>1, AccessKeepsMap DEF Store, About
  <1>3. Change(k) \in 0 .. Word - 1
    <2>1. SizeIn(chunks', c) - call[k].old \in Int
      BY <1>1, <1>2, SizeInTyped DEF Accessed, Size
    <2> QED
      BY <2>1, ModTyped DEF Change
  <1>4. h \in HandlerState /\ h.pc # "store"
    <2>1. Overtaken(c, k) \in [Call -> HandlerState]
      BY <1>1, OvertakenTyped, RecordsTyped
    <2>2. [Overtaken(c, k)[k] EXCEPT !.pc = "measure"] \in HandlerState
      BY <2>1 DEF HandlerState
    <2>3. Answering(k, Change(k)) \in HandlerState
      BY <1>1, <1>3, RecordsTyped
    <2> QED
      BY <2>1, <2>2, <2>3 DEF HandlerState, Answering, Idle
  <1>5. call' = [Overtaken(c, k) EXCEPT ![k] = h]
    BY DEF Store
  <1>6. credited' \in [Chunk -> 0 .. Word - 1] /\ spoiled' \in SUBSET Chunk
    BY <1>1 DEF Store, Spoil, TypeOK
  <1>7. /\ call' \in [Call -> HandlerState]
        /\ \A j \in Call : call'[j].pc = "store" /\ ~call'[j].raced
             => /\ call[j].pc = "store" /\ ~call[j].raced /\ call[j].req.chunk # c
                /\ call'[j].old = call[j].old /\ call'[j].req = call[j].req
    <2> HIDE DEF h
    <2> QED
      BY <1>1, <1>4, <1>5, OvertakenCurrent
  <1> HIDE DEF c, h
  <1> QED
    BY <1>1, <1>2, <1>6, <1>7, LoudStep

LEMMA StoreGoesWrongIInv ==
  ASSUME IInv, NEW k \in Call, StoreGoesWrong(k)
  PROVE  IInv'
  <1> DEFINE c == About(k)
  <1>1. TypeOK /\ call[k].req \in Request /\ c \in Chunk /\ Idle \in HandlerState
    BY RecordsTyped DEF IInv, TypeOK
  <1>2. Accessed(c)
    BY <1>1, AccessKeepsMap DEF StoreGoesWrong, About
  <1>3. call' = [Overtaken(c, k) EXCEPT ![k] = Idle] /\ Idle.pc # "store"
    BY DEF StoreGoesWrong, Idle
  <1>4. credited' \in [Chunk -> 0 .. Word - 1] /\ spoiled' \in SUBSET Chunk
    BY <1>1 DEF StoreGoesWrong, TypeOK
  <1>5. /\ call' \in [Call -> HandlerState]
        /\ \A j \in Call : call'[j].pc = "store" /\ ~call'[j].raced
             => /\ call[j].pc = "store" /\ ~call[j].raced /\ call[j].req.chunk # c
                /\ call'[j].old = call[j].old /\ call'[j].req = call[j].req
    BY <1>1, <1>3, OvertakenCurrent
  <1> HIDE DEF c
  <1> QED
    BY <1>1, <1>2, <1>4, <1>5, LoudStep

LEMMA MeasureIInv ==
  ASSUME IInv, NEW k \in Call, Measure(k)
  PROVE  IInv'
  <1> DEFINE n == (GetChunkSize(About(k)) - call[k].old) % Word
             h == Answering(k, n)
  <1>1. TypeOK /\ About(k) \in Chunk /\ call[k].old \in Size
    BY RecordsTyped DEF IInv, TypeOK
  <1>2. n \in 0 .. Word - 1
    <2>1. GetChunkSize(About(k)) - call[k].old \in Int
      BY <1>1, RecordsTyped DEF Size
    <2> QED
      BY <2>1, ModTyped
  <1>3. h \in HandlerState
    <2> HIDE DEF n
    <2> QED
      BY <1>1, <1>2, RecordsTyped
  <1>4. h.pc # "store"
    BY DEF Answering, Idle
  <1>5. call' = [call EXCEPT ![k] = h] /\ UNCHANGED <<file, chunks, credited, torn>>
    BY DEF Measure
  <1>6. credited' \in [Chunk -> 0 .. Word - 1] /\ spoiled' \in SUBSET Chunk
    BY <1>1 DEF Measure, Spoil, TypeOK
  <1> HIDE DEF h
  <1> QED
    BY <1>3, <1>4, <1>5, <1>6, QuietStep

LEMMA ReportIInv ==
  ASSUME IInv, NEW k \in Call, Report(k) \/ GiveUp(k)
  PROVE  IInv'
  <1>1. TypeOK /\ About(k) \in Chunk /\ Idle \in HandlerState /\ Idle.pc # "store"
    BY RecordsTyped DEF IInv, Idle
  <1>2. (credited[About(k)] + call[k].change) % Word \in 0 .. Word - 1
    <2>1. credited[About(k)] + call[k].change \in Int
      BY <1>1, StorageAssumption DEF TypeOK
    <2> QED
      BY <2>1, ModTyped
  <1>3. call' = [call EXCEPT ![k] = Idle] /\ UNCHANGED <<file, chunks, torn>>
    BY DEF Report, GiveUp
  <1>4. credited' \in [Chunk -> 0 .. Word - 1] /\ spoiled' \in SUBSET Chunk
    BY <1>1, <1>2 DEF Report, GiveUp, SpoilUncounted, TypeOK
  <1> QED
    BY <1>1, <1>3, <1>4, QuietStep

LEMMA ReadForCopyIInv ==
  ASSUME IInv, NEW k \in Call, ReadForCopy(k)
  PROVE  IInv'
  <1> DEFINE h == IF About(k) \in DOMAIN file THEN Answering(k, CopyLength(k)) ELSE Idle
  <1>1. TypeOK /\ About(k) \in Chunk /\ call[k].old \in Size /\ Idle \in HandlerState
    BY RecordsTyped DEF IInv, TypeOK
  <1>2. CopyLength(k) \in 0 .. Word - 1
    <2>1. SizeIn(file, About(k)) \in Size
      BY <1>1, SizeInTyped DEF TypeOK, Sized
    <2> QED
      BY <1>1, <2>1, StorageAssumption DEF CopyLength, Size
  <1>3. h \in HandlerState
    BY <1>1, <1>2, RecordsTyped
  <1>4. h.pc # "store"
    BY DEF Answering, Idle
  <1>5. call' = [call EXCEPT ![k] = h] /\ UNCHANGED <<file, chunks, credited, torn, spoiled>>
    BY DEF ReadForCopy
  <1> HIDE DEF h
  <1> QED
    BY <1>1, <1>3, <1>4, <1>5, QuietStep DEF TypeOK

LEMMA ReplicaCallIInv ==
  ASSUME IInv, NEW r \in Request, ReplicaCall(r)
  PROVE  IInv'
  <1> DEFINE c == r.chunk
  <1>1. TypeOK /\ c \in Chunk /\ call \in [Call -> HandlerState]
    BY DEF IInv, TypeOK, Request, HandlerState
  <1>2. Accessed(c)
    BY AccessKeepsMap DEF ReplicaCall
  <1>3. credited' \in [Chunk -> 0 .. Word - 1] /\ spoiled' \in SUBSET Chunk
    BY <1>1 DEF ReplicaCall, TypeOK
  <1>4. call' \in [Call -> HandlerState]
    <2>1. \A j \in Call, b \in BOOLEAN : [call[j] EXCEPT !.raced = b] \in HandlerState
      BY <1>1 DEF HandlerState
    <2>2. \A j \in Call : (call[j].raced \/ Holds(j, c)) \in BOOLEAN
      BY <1>1 DEF HandlerState
    <2> QED
      BY <2>1, <2>2 DEF ReplicaCall
  <1>5. ASSUME NEW j \in Call, call'[j].pc = "store", ~call'[j].raced
        PROVE  /\ call[j].pc = "store" /\ ~call[j].raced /\ call[j].req.chunk # c
               /\ call'[j].old = call[j].old /\ call'[j].req = call[j].req
    <2>1. call'[j] = [call[j] EXCEPT !.raced = @ \/ Holds(j, c)]
      BY DEF ReplicaCall
    <2>2. /\ call'[j].pc = call[j].pc /\ call'[j].old = call[j].old /\ call'[j].req = call[j].req
          /\ call'[j].raced = (call[j].raced \/ Holds(j, c))
      BY <1>1, <2>1 DEF HandlerState
    <2>3. ~call[j].raced /\ ~Holds(j, c)
      BY <1>5, <2>2
    <2> QED
      BY <1>5, <2>2, <2>3 DEF Holds, About
  <1> HIDE DEF c
  <1> QED
    BY <1>1, <1>2, <1>3, <1>4, <1>5, LoudStep

LEMMA RestartIInv ==
  ASSUME IInv, Restart
  PROVE  IInv'
  <1>1. TypeOK /\ Idle \in HandlerState /\ Idle.pc # "store"
    BY RecordsTyped DEF IInv, Idle
  <1>2. call' = [k \in Call |-> Idle] /\ chunks' = file /\ file' = file
    BY DEF Restart
  <1>3. spoiled' \in SUBSET Chunk
    BY <1>1, RecordsTyped DEF Restart, TypeOK
  <1>4. TypeOK'
    BY <1>1, <1>2, <1>3 DEF Restart, TypeOK, HandlerState
  <1>5. HeartbeatNamesFiles' /\ MapFollowsFile'
    BY <1>2 DEF HeartbeatNamesFiles, GetChunkHandles, MapFollowsFile, GetChunkSize
  <1>6. OldIsCurrent'
    BY <1>1, <1>2 DEF OldIsCurrent, At
  <1> QED
    BY <1>4, <1>5, <1>6 DEF IInv

LEMMA NextIInv == IInv /\ [Next]_vars => IInv'
  <1> SUFFICES ASSUME IInv, [Next]_vars PROVE IInv'
    OBVIOUS
  <1>1. ASSUME NEW k \in Call, Step(k) PROVE IInv'
    BY <1>1, BeginIInv, StoreIInv, StoreGoesWrongIInv, MeasureIInv, ReportIInv, ReadForCopyIInv
       DEF Step
  <1>2. ASSUME NEW r \in Request, ReplicaCall(r) PROVE IInv'
    BY <1>2, ReplicaCallIInv
  <1>3. CASE Restart
    BY <1>3, RestartIInv
  <1>4. CASE UNCHANGED vars
    BY <1>4 DEF vars, IInv, TypeOK, HeartbeatNamesFiles, GetChunkHandles, MapFollowsFile,
                OldIsCurrent, At, About, GetChunkSize
  <1> QED
    BY <1>1, <1>2, <1>3, <1>4 DEF Next

-----------------------------------------------------------------------------
\* The invariant of a ChunkServer's disk: types, no entry without a file, agreement of
\* map and file, and current sizes in the handlers nobody has overtaken.
THEOREM StorageInvariant == Spec => []IInv
  BY InitIInv, NextIInv, PTL DEF Spec

\* Every access to storage and every report keeps the types, whatever fails.
THEOREM TypeCorrect == Spec => []TypeOK
  <1>1. IInv => TypeOK
    BY DEF IInv
  <1> QED
    BY <1>1, StorageInvariant, PTL

\* A heartbeat names only chunks that have a file (GetChunkHandles, storage.go:299).
THEOREM HeartbeatsNameFiles == Spec => []HeartbeatNamesFiles
  <1>1. IInv => HeartbeatNamesFiles
    BY DEF IInv
  <1> QED
    BY <1>1, StorageInvariant, PTL

\* The map of sizes and the files differ only where a system call has failed since.
THEOREM MapFollowsTheFile == Spec => []MapFollowsFile
  <1>1. IInv => MapFollowsFile
    BY DEF IInv
  <1> QED
    BY <1>1, StorageInvariant, PTL

\* What a repair reads (server.go:626-632) is the whole file, unless a system call on
\* the chunk failed or another call came in between.
THEOREM RepairsCopyWhole == Spec => CopiesWhole
  <1> DEFINE Whole ==
        \A k \in Call :
          ReadForCopy(k) /\ About(k) \in DOMAIN file \ torn /\ ~call[k].raced
            => call'[k].change = file[About(k)]
  <1>1. IInv /\ [Next]_vars => [Whole]_vars
    <2> SUFFICES ASSUME IInv, NEW k \in Call, ReadForCopy(k),
                        About(k) \in DOMAIN file \ torn, ~call[k].raced
                 PROVE  call'[k].change = file[About(k)]
      OBVIOUS
    <2>1. TypeOK /\ About(k) \in Chunk
      BY RecordsTyped DEF IInv
    <2>2. call[k].old = GetChunkSize(About(k))
      BY DEF IInv, OldIsCurrent, ReadForCopy
    <2>3. GetChunkSize(About(k)) = file[About(k)]
      BY <2>1 DEF IInv, MapFollowsFile, SizeIn
    <2>4. CopyLength(k) = file[About(k)]
      BY <2>2, <2>3 DEF CopyLength, SizeIn
    <2>5. call'[k] = Answering(k, CopyLength(k))
      BY <2>1 DEF ReadForCopy, TypeOK
    <2> QED
      BY <2>4, <2>5 DEF Answering, Idle
  <1> QED
    BY <1>1, StorageInvariant, PTL DEF Spec, CopiesWhole

-----------------------------------------------------------------------------
(***************************************************************************)
(* Arithmetic of uint64: equality up to multiples of Word.                 *)
(***************************************************************************)
Same(a, b) == \E q \in Int : a = b + q * Word

LEMMA SameRefl ==
  ASSUME NEW a \in Int
  PROVE  Same(a, a)
  <1>1. a = a + 0 * Word
    BY StorageAssumption
  <1> QED
    BY <1>1 DEF Same

LEMMA SameTrans ==
  ASSUME NEW a \in Int, NEW b \in Int, NEW c \in Int, Same(a, b), Same(b, c)
  PROVE  Same(a, c)
  <1>1. PICK p \in Int : a = b + p * Word
    BY DEF Same
  <1>2. PICK q \in Int : b = c + q * Word
    BY DEF Same
  <1>3. a = c + (p + q) * Word
    BY <1>1, <1>2, StorageAssumption
  <1> QED
    BY <1>3 DEF Same

LEMMA SameSym ==
  ASSUME NEW a \in Int, NEW b \in Int, Same(a, b)
  PROVE  Same(b, a)
  <1>1. PICK q \in Int : a = b + q * Word
    BY DEF Same
  <1>2. b = a + (-q) * Word
    BY <1>1, StorageAssumption
  <1> QED
    BY <1>2 DEF Same

LEMMA SamePlus ==
  ASSUME NEW a \in Int, NEW b \in Int, NEW x \in Int, Same(a, b)
  PROVE  Same(a + x, b + x)
  <1>1. PICK q \in Int : a = b + q * Word
    BY DEF Same
  <1>2. a + x = b + x + q * Word
    BY <1>1, StorageAssumption
  <1> QED
    BY <1>2 DEF Same

LEMMA SameMod ==
  ASSUME NEW x \in Int
  PROVE  Same(x % Word, x)
  <1>1. x = (x \div Word) * Word + (x % Word)
    BY StorageAssumption
  <1>2. x % Word = x + (-(x \div Word)) * Word
    BY <1>1, StorageAssumption
  <1> QED
    BY <1>2, StorageAssumption DEF Same

LEMMA SameEqual ==
  ASSUME NEW a \in 0 .. Word - 1, NEW b \in 0 .. Word - 1, Same(a, b)
  PROVE  a = b
  <1>1. PICK q \in Int : a = b + q * Word
    BY DEF Same
  <1>2. CASE q >= 1
    <2>1. q * Word >= Word
      BY <1>2, StorageAssumption
    <2> QED
      BY <1>1, <2>1, StorageAssumption
  <1>3. CASE q <= -1
    <2>1. q * Word <= -Word
      BY <1>3, StorageAssumption
    <2> QED
      BY <1>1, <2>1, StorageAssumption
  <1>4. CASE q = 0
    BY <1>1, <1>4, StorageAssumption
  <1> QED
    BY <1>2, <1>3, <1>4

-----------------------------------------------------------------------------
(***************************************************************************)
(* What the Master has counted and what is still to be reported.           *)
(***************************************************************************)
Measuring(k, c) == At(k, "measure") /\ About(k) = c

\* What k is about to report of chunk c, as an interval of that length.
Debt(k, c) == IF At(k, "answer") /\ call[k].req.op # "copy" /\ About(k) = c
                THEN 1 .. call[k].change ELSE {}

Pending(c) == {p \in Call \X Nat : p[2] \in Debt(p[1], c)}

Sum(c) == credited[c] + Cardinality(Pending(c))

\* Reported and pending changes make up the size; while a write is between its
\* access and its measurement they make up the size it measured before.  A write that was
\* overtaken there says nothing until it has measured.
Balanced(c) ==
  \/ \E k \in Call : Measuring(k, c) /\ (call[k].raced \/ Same(Sum(c), call[k].old))
  \/ (\A k \in Call : ~Measuring(k, c)) /\ Same(Sum(c), GetChunkSize(c))

MeasurersWrite == \A k \in Call : At(k, "measure") => call[k].req.op = "write"

\* The later of two writes overtakes the other.
OneMeasures ==
  \A j, k \in Call : At(j, "measure") /\ At(k, "measure") /\ ~call[j].raced /\ ~call[k].raced
                       /\ About(j) = About(k) => j = k

SumInv ==
  /\ MeasurersWrite /\ OneMeasures
  /\ \A c \in Chunk : IsFiniteSet(Pending(c))
  /\ \A c \in Chunk \ spoiled : Balanced(c)

LEMMA SumTyped ==
  ASSUME TypeOK, SumInv, NEW c \in Chunk
  PROVE  Sum(c) \in Int /\ Cardinality(Pending(c)) \in Nat
  <1>1. Cardinality(Pending(c)) \in Nat
    BY FS_CardinalityType DEF SumInv
  <1>2. credited[c] \in Int
    BY StorageAssumption DEF TypeOK
  <1> QED
    BY <1>1, <1>2 DEF Sum

\* The other handlers in a step of k: at most overtaken.
Others(k) ==
  \A j \in Call \ {k} : /\ call'[j].pc = call[j].pc /\ call'[j].req = call[j].req
                        /\ call'[j].old = call[j].old /\ call'[j].change = call[j].change
                        /\ call[j].raced => call'[j].raced

LEMMA OvertakenOthers ==
  ASSUME TypeOK, NEW c, NEW k \in Call, NEW h, call' = [Overtaken(c, k) EXCEPT ![k] = h]
  PROVE  /\ call'[k] = h /\ Others(k)
         /\ \A j \in Call \ {k} : Measuring(j, c) => call'[j].raced
  <1>1. DOMAIN Overtaken(c, k) = Call /\ call \in [Call -> HandlerState]
    BY DEF Overtaken, TypeOK, HandlerState
  <1>2. call'[k] = h
    BY <1>1
  <1>3. ASSUME NEW j \in Call \ {k}
        PROVE  /\ call'[j].pc = call[j].pc /\ call'[j].req = call[j].req
               /\ call'[j].old = call[j].old /\ call'[j].change = call[j].change
               /\ call'[j].raced = (call[j].raced \/ Holds(j, c))
    <2>1. call'[j] = [call[j] EXCEPT !.raced = @ \/ (j # k /\ Holds(j, c))]
      BY DEF Overtaken
    <2> QED
      BY <1>1, <2>1 DEF HandlerState
  <1>4. Others(k)
    BY <1>3 DEF Others
  <1>5. \A j \in Call : Measuring(j, c) => Holds(j, c)
    BY DEF Measuring, Holds, At
  <1> QED
    BY <1>2, <1>3, <1>4, <1>5

LEMMA OneHandlerChanged ==
  ASSUME TypeOK, NEW k \in Call, NEW h, call' = [call EXCEPT ![k] = h]
  PROVE  call'[k] = h /\ Others(k)
  BY DEF TypeOK, Others

\* One unmarked measurement at a time.
LEMMA MeasurersKept ==
  ASSUME SumInv, NEW k \in Call, Others(k),
         call'[k].pc = "measure" =>
           /\ call'[k].req.op = "write"
           /\ \A j \in Call \ {k} : Measuring(j, call'[k].req.chunk) => call'[j].raced
  PROVE  MeasurersWrite' /\ OneMeasures'
  <1>1. MeasurersWrite'
    BY DEF SumInv, MeasurersWrite, Others, At
  <1>2. ASSUME NEW i \in Call, NEW j \in Call, call'[i].pc = "measure", call'[j].pc = "measure",
               ~call'[i].raced, ~call'[j].raced, call'[i].req.chunk = call'[j].req.chunk, i # j
        PROVE  FALSE
    <2>1. CASE i # k /\ j # k
      BY <1>2, <2>1 DEF SumInv, OneMeasures, Others, At, About
    <2>2. CASE i = k
      BY <1>2, <2>2 DEF Others, Measuring, At, About
    <2>3. CASE j = k
      BY <1>2, <2>3 DEF Others, Measuring, At, About
    <2> QED
      BY <2>1, <2>2, <2>3
  <1> QED
    BY <1>1, <1>2 DEF OneMeasures, At, About

\* A step that moves nothing of what is counted, measured or stored for chunk c.
LEMMA PendingKept ==
  ASSUME NEW c, \A j \in Call : Debt(j, c)' = Debt(j, c)
  PROVE  Pending(c)' = Pending(c)
  BY DEF Pending

LEMMA BalanceKept ==
  ASSUME TypeOK, SumInv, TypeOK', NEW c \in Chunk, Balanced(c),
         IsFiniteSet(Pending(c)'), Same(Sum(c)', Sum(c)),
         \A j \in Call : /\ Measuring(j, c)' <=> Measuring(j, c)
                         /\ Measuring(j, c) => /\ call'[j].old = call[j].old
                                               /\ call[j].raced => call'[j].raced,
         GetChunkSize(c)' = GetChunkSize(c) \/ \E j \in Call : Measuring(j, c)
  PROVE  Balanced(c)'
  <1>1. Sum(c) \in Int /\ GetChunkSize(c) \in Int /\ \A j \in Call : call[j].old \in Int
    BY SumTyped, RecordsTyped, StorageAssumption DEF TypeOK, Size
  <1>2. Sum(c)' \in Int
    <2>1. Cardinality(Pending(c)') \in Nat
      BY FS_CardinalityType
    <2>2. credited'[c] \in Int
      BY StorageAssumption DEF TypeOK
    <2> QED
      BY <2>1, <2>2 DEF Sum
  <1>3. ASSUME NEW x \in Int, Same(Sum(c), x) PROVE Same(Sum(c)', x)
    BY <1>1, <1>2, <1>3, SameTrans
  <1>4. CASE \E k \in Call : Measuring(k, c) /\ (call[k].raced \/ Same(Sum(c), call[k].old))
    BY <1>1, <1>3, <1>4 DEF Balanced
  <1>5. CASE (\A k \in Call : ~Measuring(k, c)) /\ Same(Sum(c), GetChunkSize(c))
    BY <1>1, <1>3, <1>5 DEF Balanced
  <1> QED
    BY <1>4, <1>5 DEF Balanced

LEMMA ElsewhereKept ==
  ASSUME TypeOK, SumInv, TypeOK', NEW c \in Chunk, NEW k \in Call, Others(k),
         Debt(k, c)' = Debt(k, c), ~Measuring(k, c), ~Measuring(k, c)',
         credited'[c] = credited[c],
         GetChunkSize(c)' = GetChunkSize(c) \/ \E j \in Call : Measuring(j, c)
  PROVE  IsFiniteSet(Pending(c)') /\ (Balanced(c) => Balanced(c)') /\ Sum(c)' = Sum(c)
  <1>1. \A j \in Call : Debt(j, c)' = Debt(j, c)
    BY DEF Others, Debt, At, About
  <1>2. Pending(c)' = Pending(c)
    BY <1>1, PendingKept
  <1>3. Sum(c)' = Sum(c) /\ IsFiniteSet(Pending(c)')
    BY <1>2 DEF Sum, SumInv
  <1>4. Same(Sum(c)', Sum(c))
    BY <1>3, SumTyped, SameRefl
  <1>5. \A j \in Call : /\ Measuring(j, c)' <=> Measuring(j, c)
                        /\ Measuring(j, c) => /\ call'[j].old = call[j].old
                                              /\ call[j].raced => call'[j].raced
    BY DEF Others, Measuring, At, About
  <1> QED
    BY <1>3, <1>4, <1>5, BalanceKept

\* A handler that gets something to report, and one that has reported.
LEMMA PendingGrows ==
  ASSUME NEW c, IsFiniteSet(Pending(c)), NEW k \in Call, NEW n \in Nat,
         Debt(k, c) = {}, Debt(k, c)' = 1 .. n,
         \A j \in Call \ {k} : Debt(j, c)' = Debt(j, c)
  PROVE  IsFiniteSet(Pending(c)') /\ Cardinality(Pending(c)') = Cardinality(Pending(c)) + n
  <1> DEFINE G == 1 .. n
             C == Pending(c)
  <1>1. IsFiniteSet(G) /\ Cardinality(G) = n
    <2>1. IsFiniteSet(0 + 1 .. 0 + n) /\ Cardinality(0 + 1 .. 0 + n) = n
      BY IntervalSize
    <2> QED
      BY <2>1
  <1>2. \A i \in G : <<k, i>> \notin C
    BY DEF Pending
  <1>3. G \subseteq Nat
    OBVIOUS
  <1>4. Debt(k, c)' = G
    OBVIOUS
  <1> HIDE DEF G
  <1>5. Pending(c)' = C \cup ({k} \X G)
    BY <1>3, <1>4 DEF Pending
  <1> HIDE DEF C
  <1>6. IsFiniteSet(C \cup ({k} \X G)) /\ Cardinality(C \cup ({k} \X G)) = Cardinality(C) + Cardinality(G)
    BY <1>1, <1>2, CountOneMore DEF C
  <1> QED
    BY <1>1, <1>5, <1>6 DEF C

LEMMA PendingShrinks ==
  ASSUME NEW c, IsFiniteSet(Pending(c)), NEW k \in Call, NEW n \in Nat,
         Debt(k, c) = 1 .. n, Debt(k, c)' = {},
         \A j \in Call \ {k} : Debt(j, c)' = Debt(j, c)
  PROVE  IsFiniteSet(Pending(c)') /\ Cardinality(Pending(c)) = Cardinality(Pending(c)') + n
  <1> DEFINE G == 1 .. n
             C == Pending(c)'
  <1>1. IsFiniteSet(G) /\ Cardinality(G) = n
    <2>1. IsFiniteSet(0 + 1 .. 0 + n) /\ Cardinality(0 + 1 .. 0 + n) = n
      BY IntervalSize
    <2> QED
      BY <2>1
  <1>2. \A i \in G : <<k, i>> \notin C
    BY DEF Pending
  <1>3. G \subseteq Nat
    OBVIOUS
  <1>4. Debt(k, c) = G
    OBVIOUS
  <1> HIDE DEF G
  <1>5. Pending(c) = C \cup ({k} \X G)
    BY <1>3, <1>4 DEF Pending
  <1>6. IsFiniteSet(C)
    <2>1. C \in SUBSET Pending(c)
      BY <1>5
    <2> QED
      BY <2>1, FS_Subset
  <1> HIDE DEF C
  <1>7. IsFiniteSet(C \cup ({k} \X G)) /\ Cardinality(C \cup ({k} \X G)) = Cardinality(C) + Cardinality(G)
    BY <1>1, <1>2, <1>6, CountOneMore
  <1> QED
    BY <1>1, <1>5, <1>6, <1>7 DEF C

\* A difference of two sizes brings the sum from the one to the other.
LEMMA DifferenceCounts ==
  ASSUME NEW s \in Int, NEW old \in Int, NEW new \in Int, Same(s, old)
  PROVE  Same(s + ((new - old) % Word), new)
  <1> DEFINE x == new - old
             d == x % Word
  <1>1. x \in Int /\ d \in Int /\ old + x = new
    BY ModTyped, StorageAssumption
  <1>2. Same(d, x)
    BY <1>1, SameMod
  <1> HIDE DEF x, d
  <1>3. Same(d + s, x + s)
    BY <1>1, <1>2, SamePlus
  <1>4. Same(s + x, old + x)
    BY <1>1, SamePlus
  <1>5. Same(s + d, s + x) /\ Same(s + x, new)
    <2>1. d + s = s + d /\ x + s = s + x
      BY <1>1
    <2> QED
      BY <1>1, <1>3, <1>4, <2>1
  <1>6. s + d \in Int /\ s + x \in Int
    BY <1>1
  <1>7. Same(s + d, new)
    BY <1>5, <1>6, SameTrans
  <1> QED
    BY <1>7 DEF d, x

\* A method that fails leaves the sizes in the map as they are.
LEMMA FailureKeepsSizes ==
  ASSUME IInv, NEW r \in Request, StoreFails(r), NEW c \in Chunk
  PROVE  SizeIn(chunks', c) = SizeIn(chunks, c)
  <1>1. DOMAIN chunks \subseteq DOMAIN file /\ DOMAIN chunks \subseteq Chunk
    BY DEF IInv, TypeOK, HeartbeatNamesFiles, GetChunkHandles
  <1>2. chunks' = chunks \/ (r.chunk \notin DOMAIN file /\ chunks' = Drop(chunks, r.chunk))
    BY DEF StoreFails, WriteChunkFails, TruncateChunkFails, DeleteChunkFails
  <1>3. CASE r.chunk \notin DOMAIN file /\ chunks' = Drop(chunks, r.chunk)
    BY <1>1, <1>3 DEF Drop, Restrict, SizeIn
  <1> QED
    BY <1>2, <1>3

LEMMA InitSumInv == Init => SumInv
  <1> SUFFICES ASSUME Init PROVE SumInv
    OBVIOUS
  <1>1. \A k \in Call : call[k].pc = "idle"
    BY DEF Init, Idle
  <1>2. ASSUME NEW c \in Chunk
        PROVE  IsFiniteSet(Pending(c)) /\ Balanced(c)
    <2>1. Pending(c) = {}
      BY <1>1 DEF Pending, Debt, At
    <2>2. IsFiniteSet(Pending(c)) /\ Sum(c) = 0
      BY <2>1, FS_EmptySet DEF Sum, Init
    <2>3. GetChunkSize(c) = 0
      BY DEF GetChunkSize, SizeIn, Init
    <2>4. Same(Sum(c), GetChunkSize(c))
      BY <2>2, <2>3, SameRefl
    <2> QED
      BY <1>1, <2>2, <2>4 DEF Balanced, Measuring, At
  <1> QED
    BY <1>1, <1>2 DEF SumInv, MeasurersWrite, OneMeasures, At

-----------------------------------------------------------------------------
LEMMA BeginSum ==
  ASSUME IInv, IInv', SumInv, NEW k \in Call, NEW r \in Request, Begin(k, r)
  PROVE  SumInv'
  <1> DEFINE h == [Idle EXCEPT !.pc = "store", !.req = r, !.old = GetChunkSize(r.chunk)]
  <1>0. TypeOK /\ TypeOK'
    BY DEF IInv
  <1>1. call[k].pc = "idle" /\ call' = [call EXCEPT ![k] = h] /\ UNCHANGED <<chunks, credited, spoiled>>
    BY DEF Begin, At
  <1>2. h.pc = "store"
    BY DEF Idle
  <1> HIDE DEF h
  <1>3. call'[k].pc = "store" /\ Others(k)
    BY <1>0, <1>1, <1>2, OneHandlerChanged
  <1>4. \A c \in Chunk : IsFiniteSet(Pending(c)') /\ (Balanced(c) => Balanced(c)')
    BY <1>0, <1>1, <1>3, ElsewhereKept DEF Debt, Measuring, At, GetChunkSize
  <1>5. MeasurersWrite' /\ OneMeasures'
    BY <1>3, MeasurersKept
  <1> QED
    BY <1>1, <1>4, <1>5 DEF SumInv

LEMMA StoreGoesWrongSum ==
  ASSUME IInv, IInv', SumInv, NEW k \in Call, StoreGoesWrong(k)
  PROVE  SumInv'
  <1>0. TypeOK /\ TypeOK' /\ call[k].req \in Request
    BY DEF IInv, TypeOK
  <1>1. /\ call[k].pc = "store" /\ call' = [Overtaken(About(k), k) EXCEPT ![k] = Idle]
        /\ UNCHANGED <<credited, spoiled>>
    BY DEF StoreGoesWrong, At
  <1>2. call'[k] = Idle /\ Others(k)
    BY <1>0, <1>1, OvertakenOthers
  <1>3. Idle.pc = "idle"
    BY DEF Idle
  <1>4. \A c \in Chunk : GetChunkSize(c)' = GetChunkSize(c)
    BY <1>0, FailureKeepsSizes DEF StoreGoesWrong, GetChunkSize
  <1>5. \A c \in Chunk : IsFiniteSet(Pending(c)') /\ (Balanced(c) => Balanced(c)')
    BY <1>0, <1>1, <1>2, <1>3, <1>4, ElsewhereKept DEF Debt, Measuring, At
  <1>6. MeasurersWrite' /\ OneMeasures'
    BY <1>2, <1>3, MeasurersKept
  <1> QED
    BY <1>1, <1>5, <1>6 DEF SumInv

LEMMA ReadForCopySum ==
  ASSUME IInv, IInv', SumInv, NEW k \in Call, ReadForCopy(k)
  PROVE  SumInv'
  <1> DEFINE h == IF About(k) \in DOMAIN file THEN Answering(k, CopyLength(k)) ELSE Idle
  <1>0. TypeOK /\ TypeOK'
    BY DEF IInv
  <1>1. /\ call[k].pc = "store" /\ call[k].req.op = "copy" /\ call' = [call EXCEPT ![k] = h]
        /\ UNCHANGED <<chunks, credited, spoiled>>
    BY DEF ReadForCopy, At
  <1>2. h.pc = "idle" \/ (h.pc = "answer" /\ h.req.op = "copy")
    BY <1>1 DEF Idle, Answering, Ask
  <1> HIDE DEF h
  <1>3. call'[k] = h /\ Others(k)
    BY <1>0, <1>1, OneHandlerChanged
  <1>4. \A c \in Chunk : IsFiniteSet(Pending(c)') /\ (Balanced(c) => Balanced(c)')
    BY <1>0, <1>1, <1>2, <1>3, ElsewhereKept DEF Debt, Measuring, At, GetChunkSize
  <1>5. MeasurersWrite' /\ OneMeasures'
    BY <1>2, <1>3, MeasurersKept
  <1> QED
    BY <1>1, <1>4, <1>5 DEF SumInv

\* What every access to storage about c of a handler k at "store" has in common.
LEMMA StoreOthers ==
  ASSUME IInv, IInv', SumInv, NEW k \in Call, Store(k)
  PROVE  /\ call[k].pc = "store" /\ About(k) \in Chunk /\ call[k].req.op \in {"write", "truncate", "delete"}
         /\ Others(k) /\ \A j \in Call \ {k} : Measuring(j, About(k)) => call'[j].raced
         /\ call'[k] = IF call[k].req.op = "write" THEN [Overtaken(About(k), k)[k] EXCEPT !.pc = "measure"]
                                                   ELSE Answering(k, Change(k))
         /\ credited' = credited
         /\ \A c \in Chunk \ {About(k)} : GetChunkSize(c)' = GetChunkSize(c)
  <1> DEFINE h == IF call[k].req.op = "write" THEN [Overtaken(About(k), k)[k] EXCEPT !.pc = "measure"]
                                              ELSE Answering(k, Change(k))
  <1>0. TypeOK /\ call[k].req \in Request /\ About(k) \in Chunk
    BY RecordsTyped DEF IInv, TypeOK
  <1>1. /\ call[k].pc = "store" /\ call' = [Overtaken(About(k), k) EXCEPT ![k] = h]
        /\ credited' = credited /\ Stores(call[k].req)
    BY DEF Store, At
  <1>2. call[k].req.op \in {"write", "truncate", "delete"}
    BY <1>1 DEF Stores
  <1>3. Accessed(About(k))
    BY <1>0, <1>1, AccessKeepsMap DEF About
  <1>4. \A c \in Chunk \ {About(k)} : GetChunkSize(c)' = GetChunkSize(c)
    BY <1>3 DEF Accessed, Elsewhere, GetChunkSize
  <1> HIDE DEF h
  <1>5. call'[k] = h /\ Others(k) /\ \A j \in Call \ {k} : Measuring(j, About(k)) => call'[j].raced
    BY <1>0, <1>1, OvertakenOthers
  <1> QED
    BY <1>0, <1>1, <1>2, <1>4, <1>5 DEF h

LEMMA StoreSum ==
  ASSUME IInv, IInv', SumInv, NEW k \in Call, NEW c0 \in Chunk, About(k) = c0, Store(k)
  PROVE  SumInv'
  <1>0. TypeOK /\ TypeOK' /\ call[k].old \in Int /\ GetChunkSize(c0) \in Int
    BY RecordsTyped, StorageAssumption DEF IInv, TypeOK, Size
  <1>1. /\ call[k].pc = "store" /\ c0 \in Chunk /\ call[k].req.op \in {"write", "truncate", "delete"}
        /\ Others(k) /\ \A j \in Call \ {k} : Measuring(j, c0) => call'[j].raced
        /\ credited' = credited /\ \A c \in Chunk \ {c0} : GetChunkSize(c)' = GetChunkSize(c)
    BY StoreOthers
  <1>2. \A c : Debt(k, c) = {}
    BY <1>1 DEF Debt, At
  <1>3. ~call[k].raced => call[k].old = GetChunkSize(c0)
    BY <1>1 DEF IInv, OldIsCurrent, At
  <1>4. Balanced(c0) /\ (\A j \in Call : ~Measuring(j, c0)) => Same(Sum(c0), GetChunkSize(c0))
    BY DEF Balanced
  <1>5. ASSUME NEW j \in Call \ {k}, Measuring(j, c0)
        PROVE  Balanced(c0)'
    <2>1. Measuring(j, c0)' /\ call'[j].raced
      BY <1>1, <1>5 DEF Others, Measuring, At, About
    <2> QED
      BY <2>1 DEF Balanced
  <1>6. CASE call[k].req.op = "write"
    <2>1. call'[k].pc = "measure" /\ call'[k].req = call[k].req /\ call'[k].old = call[k].old
          /\ call'[k].raced = call[k].raced
      <3>1. call'[k] = [Overtaken(c0, k)[k] EXCEPT !.pc = "measure"]
        BY <1>6, StoreOthers
      <3>2. Overtaken(c0, k)[k] = [call[k] EXCEPT !.raced = @ \/ (k # k /\ Holds(k, c0))]
        BY DEF Overtaken
      <3> QED
        BY <1>0, <3>1, <3>2 DEF TypeOK
    <2>2. spoiled' = spoiled
      BY <1>6 DEF Store
    <2>3. \A c : Debt(k, c)' = {}
      BY <2>1 DEF Debt, At
    <2>4. Measuring(k, c0)'
      BY <2>1 DEF Measuring, At, About
    <2>5. \A c \in Chunk \ {c0} : IsFiniteSet(Pending(c)') /\ (Balanced(c) => Balanced(c)')
      BY <1>0, <1>1, <1>2, <2>1, <2>3, ElsewhereKept DEF Measuring, At, About
    <2>6. Pending(c0)' = Pending(c0)
      <3>1. \A j \in Call : Debt(j, c0)' = Debt(j, c0)
        BY <1>1, <1>2, <2>3 DEF Others, Debt, At, About
      <3> QED
        BY <3>1, PendingKept
    <2>7. Sum(c0)' = Sum(c0) /\ IsFiniteSet(Pending(c0)')
      BY <1>1, <2>6 DEF Sum, SumInv
    <2>8. Balanced(c0) => Balanced(c0)'
      <3>1. CASE call[k].raced
        BY <2>1, <2>4, <3>1 DEF Balanced
      <3>2. CASE \E j \in Call \ {k} : Measuring(j, c0)
        BY <1>5, <3>2
      <3>3. CASE ~call[k].raced /\ \A j \in Call \ {k} : ~Measuring(j, c0)
        <4>1. \A j \in Call : ~Measuring(j, c0)
          BY <1>1, <3>3 DEF Measuring, At
        <4> QED
          BY <1>3, <1>4, <2>1, <2>4, <2>7, <3>3, <4>1 DEF Balanced
      <3> QED
        BY <3>1, <3>2, <3>3
    <2>9. MeasurersWrite' /\ OneMeasures'
      BY <1>1, <1>6, <2>1, MeasurersKept DEF About
    <2> QED
      BY <2>2, <2>5, <2>7, <2>8, <2>9 DEF SumInv
  <1>7. CASE call[k].req.op # "write"
    <2> DEFINE n == Change(k)
    <2>1. call'[k] = Answering(k, n)
      BY <1>7, StoreOthers
    <2>2. /\ call'[k].pc = "answer" /\ call'[k].req.op # "copy" /\ call'[k].req.chunk = c0
          /\ call'[k].change = n
      BY <1>1, <2>1 DEF Answering, Idle, Ask
    <2>3. spoiled' = spoiled \cup {c \in {c0} : call[k].raced}
      BY <1>7 DEF Store, Spoil
    <2>4. n \in Nat
      BY <1>0, <2>2 DEF TypeOK
    <2>5. n = (GetChunkSize(c0)' - call[k].old) % Word
      BY DEF Change, GetChunkSize
    <2> HIDE DEF n
    <2>6. \A c \in Chunk \ {c0} : IsFiniteSet(Pending(c)') /\ (Balanced(c) => Balanced(c)')
      BY <1>0, <1>1, <1>2, <2>2, ElsewhereKept DEF Debt, Measuring, At, About
    <2>7. Debt(k, c0)' = 1 .. n /\ \A j \in Call \ {k} : Debt(j, c0)' = Debt(j, c0)
      BY <1>1, <2>2 DEF Debt, Others, At, About
    <2>8. IsFiniteSet(Pending(c0)') /\ Sum(c0)' = Sum(c0) + n
      <3>1. IsFiniteSet(Pending(c0)') /\ Cardinality(Pending(c0)') = Cardinality(Pending(c0)) + n
        BY <1>1, <1>2, <2>4, <2>7, PendingGrows DEF SumInv
      <3>2. credited[c0] \in Int /\ Cardinality(Pending(c0)) \in Nat
        BY <1>0, <1>1, SumTyped, StorageAssumption DEF TypeOK
      <3> QED
        BY <1>1, <2>4, <3>1, <3>2 DEF Sum
    <2>9. Balanced(c0) /\ c0 \notin spoiled' => Balanced(c0)'
      <3> SUFFICES ASSUME Balanced(c0), c0 \notin spoiled' PROVE Balanced(c0)'
        OBVIOUS
      <3>1. CASE \E j \in Call \ {k} : Measuring(j, c0)
        BY <1>5, <3>1
      <3>2. CASE \A j \in Call \ {k} : ~Measuring(j, c0)
        <4>1. \A j \in Call : ~Measuring(j, c0) /\ ~Measuring(j, c0)'
          BY <1>1, <2>2, <3>2 DEF Measuring, At, Others, About
        <4>2. Same(Sum(c0), call[k].old)
          BY <1>3, <1>4, <2>3, <4>1
        <4>3. Sum(c0) \in Int /\ GetChunkSize(c0)' \in Int
          <5>1. Sum(c0) \in Int
            BY <1>0, SumTyped
          <5>2. SizeIn(chunks', c0) \in Int
            BY <1>0, SizeInTyped, StorageAssumption DEF TypeOK, Sized, Size
          <5> QED
            BY <5>1, <5>2 DEF GetChunkSize
        <4>4. Same(Sum(c0) + n, GetChunkSize(c0)')
          BY <1>0, <2>5, <4>2, <4>3, DifferenceCounts
        <4> QED
          BY <2>8, <4>1, <4>4 DEF Balanced
      <3> QED
        BY <3>1, <3>2
    <2>10. MeasurersWrite' /\ OneMeasures'
      BY <1>1, <2>2, MeasurersKept
    <2> QED
      BY <2>3, <2>6, <2>8, <2>9, <2>10 DEF SumInv
  <1> QED
    BY <1>6, <1>7

LEMMA MeasureSum ==
  ASSUME IInv, IInv', SumInv, NEW k \in Call, NEW c0 \in Chunk, About(k) = c0, Measure(k)
  PROVE  SumInv'
  <1> DEFINE n == (GetChunkSize(c0) - call[k].old) % Word
  <1>0. TypeOK /\ TypeOK' /\ call[k].old \in Int /\ GetChunkSize(c0) \in Int /\ Sum(c0) \in Int
    BY RecordsTyped, SumTyped, StorageAssumption DEF IInv, TypeOK, Size
  <1>1. /\ call[k].pc = "measure" /\ call' = [call EXCEPT ![k] = Answering(k, n)]
        /\ UNCHANGED <<chunks, credited>> /\ spoiled' = spoiled \cup {c \in {c0} : call[k].raced}
    BY DEF Measure, Spoil, At
  <1>2. call[k].req.op = "write" /\ n \in Nat
    <2>1. GetChunkSize(c0) - call[k].old \in Int
      BY <1>0
    <2>2. n \in Nat
      BY <2>1, ModTyped, StorageAssumption
    <2> QED
      BY <1>1, <2>2 DEF SumInv, MeasurersWrite, At
  <1> HIDE DEF n
  <1>3. /\ call'[k].pc = "answer" /\ call'[k].req.op # "copy" /\ call'[k].req.chunk = c0
        /\ call'[k].change = n /\ Others(k)
    <2>1. call'[k] = Answering(k, n) /\ Others(k)
      BY <1>0, <1>1, OneHandlerChanged
    <2> QED
      BY <1>2, <2>1 DEF Answering, Idle, Ask
  <1>4. \A c : Debt(k, c) = {}
    BY <1>1 DEF Debt, At
  <1>5. \A c \in Chunk \ {c0} : IsFiniteSet(Pending(c)') /\ (Balanced(c) => Balanced(c)')
    BY <1>0, <1>1, <1>3, <1>4, ElsewhereKept DEF Debt, Measuring, At, About, GetChunkSize
  <1>6. Debt(k, c0)' = 1 .. n /\ \A j \in Call \ {k} : Debt(j, c0)' = Debt(j, c0)
    BY <1>3 DEF Debt, Others, At, About
  <1>7. IsFiniteSet(Pending(c0)') /\ Sum(c0)' = Sum(c0) + n
    <2>1. IsFiniteSet(Pending(c0)') /\ Cardinality(Pending(c0)') = Cardinality(Pending(c0)) + n
      BY <1>2, <1>4, <1>6, PendingGrows DEF SumInv
    <2>2. credited[c0] \in Int /\ Cardinality(Pending(c0)) \in Nat
      BY <1>0, SumTyped, StorageAssumption DEF TypeOK
    <2> QED
      BY <1>1, <1>2, <2>1, <2>2 DEF Sum
  <1>8. Balanced(c0) /\ c0 \notin spoiled' => Balanced(c0)'
    <2> SUFFICES ASSUME Balanced(c0), c0 \notin spoiled' PROVE Balanced(c0)'
      OBVIOUS
    <2>1. ~call[k].raced /\ Measuring(k, c0)
      BY <1>1 DEF Measuring, At
    <2>2. CASE \E j \in Call \ {k} : Measuring(j, c0) /\ call[j].raced
      BY <1>3, <2>2 DEF Balanced, Others, Measuring, At, About
    <2>3. CASE \A j \in Call \ {k} : Measuring(j, c0) => ~call[j].raced
      <3>1. \A j \in Call \ {k} : ~Measuring(j, c0)
        BY <2>1, <2>3 DEF SumInv, OneMeasures, Measuring
      <3>2. Same(Sum(c0), call[k].old)
        BY <2>1, <3>1 DEF Balanced
      <3>3. Same(Sum(c0) + n, GetChunkSize(c0))
        BY <1>0, <3>2, DifferenceCounts DEF n
      <3>4. \A j \in Call : ~Measuring(j, c0)'
        BY <1>3, <3>1 DEF Measuring, Others, At, About
      <3> QED
        BY <1>1, <1>7, <3>3, <3>4 DEF Balanced, GetChunkSize
    <2> QED
      BY <2>2, <2>3
  <1>9. MeasurersWrite' /\ OneMeasures'
    BY <1>3, MeasurersKept
  <1> QED
    BY <1>1, <1>5, <1>7, <1>8, <1>9 DEF SumInv

LEMMA CountedSum ==
  ASSUME IInv, IInv', SumInv, NEW k \in Call, NEW c0 \in Chunk, About(k) = c0, Report(k),
         ~GiveUp(k)
  PROVE  SumInv'
  <1> DEFINE n == call[k].change
  <1>0. TypeOK /\ TypeOK' /\ n \in Nat /\ credited[c0] \in Int
    BY StorageAssumption DEF IInv, TypeOK
  <1>1. /\ call[k].pc = "answer" /\ call[k].req.op # "copy" /\ call' = [call EXCEPT ![k] = Idle]
        /\ credited' = [credited EXCEPT ![c0] = (@ + n) % Word]
        /\ UNCHANGED <<chunks, spoiled>>
    BY DEF Report, GiveUp, At
  <1>2. call'[k] = Idle /\ Idle.pc = "idle" /\ Others(k)
    BY <1>0, <1>1, OneHandlerChanged DEF Idle
  <1>3. credited'[c0] = (credited[c0] + n) % Word /\ \A c \in Chunk \ {c0} : credited'[c] = credited[c]
    BY <1>0, <1>1 DEF TypeOK
  <1>4. \A c \in Chunk \ {c0} : IsFiniteSet(Pending(c)') /\ (Balanced(c) => Balanced(c)')
    BY <1>0, <1>1, <1>2, <1>3, ElsewhereKept DEF Debt, Measuring, At, GetChunkSize
  <1>5. Debt(k, c0) = 1 .. n /\ Debt(k, c0)' = {} /\ \A j \in Call \ {k} : Debt(j, c0)' = Debt(j, c0)
    BY <1>1, <1>2 DEF Debt, Others, At, About
  <1>6. IsFiniteSet(Pending(c0)') /\ Cardinality(Pending(c0)) = Cardinality(Pending(c0)') + n
    <2>1. IsFiniteSet(Pending(c0))
      BY DEF SumInv
    <2> HIDE DEF n
    <2> QED
      BY <1>0, <1>5, <2>1, PendingShrinks
  <1> HIDE DEF n
  <1>7. Same(Sum(c0)', Sum(c0))
    <2> DEFINE m == Cardinality(Pending(c0)')
               x == credited[c0] + n
    <2>1. m \in Int /\ x \in Int /\ x % Word \in Int
      <3>1. m \in Nat
        BY <1>6, FS_CardinalityType
      <3>2. x \in Int
        BY <1>0
      <3> HIDE DEF m, x
      <3>3. x % Word \in Int
        BY <3>2, ModTyped, StorageAssumption
      <3> QED
        BY <3>1, <3>2, <3>3
    <2>2. Same(x % Word, x)
      BY <2>1, SameMod
    <2>3. Sum(c0)' = (x % Word) + m /\ Sum(c0) = x + m
      BY <1>0, <1>3, <1>6, <2>1 DEF Sum
    <2> HIDE DEF m, x
    <2>4. Same((x % Word) + m, x + m)
      BY <2>1, <2>2, SamePlus
    <2> QED
      BY <2>3, <2>4
  <1>8. \A j \in Call : /\ Measuring(j, c0)' <=> Measuring(j, c0)
                        /\ Measuring(j, c0) => /\ call'[j].old = call[j].old
                                               /\ call[j].raced => call'[j].raced
    BY <1>1, <1>2 DEF Measuring, Others, At, About
  <1>9. Balanced(c0) => Balanced(c0)'
    BY <1>0, <1>1, <1>6, <1>7, <1>8, BalanceKept DEF GetChunkSize
  <1>10. MeasurersWrite' /\ OneMeasures'
    BY <1>2, MeasurersKept
  <1> QED
    BY <1>1, <1>4, <1>6, <1>9, <1>10 DEF SumInv

LEMMA GiveUpSum ==
  ASSUME IInv, IInv', SumInv, NEW k \in Call, NEW c0 \in Chunk, About(k) = c0, GiveUp(k)
  PROVE  SumInv'
  <1>0. TypeOK /\ TypeOK'
    BY DEF IInv
  <1>1. /\ call[k].pc = "answer" /\ call' = [call EXCEPT ![k] = Idle] /\ UNCHANGED <<chunks, credited>>
        /\ spoiled' = spoiled \cup {c \in {c0} : Uncounted(k)}
    BY DEF GiveUp, SpoilUncounted, At
  <1>2. call'[k] = Idle /\ Idle.pc = "idle" /\ Others(k)
    BY <1>0, <1>1, OneHandlerChanged DEF Idle
  <1>3. \A c : Debt(k, c)' = {} /\ (c # c0 => Debt(k, c) = {})
    BY <1>1, <1>2 DEF Debt, At
  <1>4. \A c \in Chunk \ {c0} : IsFiniteSet(Pending(c)') /\ (Balanced(c) => Balanced(c)')
    BY <1>0, <1>1, <1>2, <1>3, ElsewhereKept DEF Measuring, At, GetChunkSize
  <1>5. IsFiniteSet(Pending(c0)')
    <2>1. \A j \in Call \ {k} : Debt(j, c0)' = Debt(j, c0)
      BY <1>2 DEF Debt, Others, At, About
    <2>2. Pending(c0)' \in SUBSET Pending(c0)
      BY <1>3, <2>1 DEF Pending
    <2> QED
      BY <2>2, FS_Subset DEF SumInv
  <1>6. Balanced(c0) /\ c0 \notin spoiled' => Balanced(c0)'
    <2> SUFFICES ASSUME Balanced(c0), c0 \notin spoiled' PROVE Balanced(c0)'
      OBVIOUS
    <2>1. call[k].req.op = "copy" \/ call[k].change = 0
      BY <1>1 DEF Uncounted, At
    <2>2. Debt(k, c0) = {}
      BY <2>1 DEF Debt
    <2> QED
      BY <1>0, <1>1, <1>2, <1>3, <2>2, ElsewhereKept DEF Measuring, At, GetChunkSize
  <1>7. MeasurersWrite' /\ OneMeasures'
    BY <1>2, MeasurersKept
  <1> QED
    BY <1>1, <1>4, <1>5, <1>6, <1>7 DEF SumInv

\* A refused report is to the sums what a lost one is.
LEMMA ReportSum ==
  ASSUME IInv, IInv', SumInv, NEW k \in Call, NEW c0 \in Chunk, About(k) = c0, Report(k)
  PROVE  SumInv'
  BY CountedSum, GiveUpSum

LEMMA ReplicaCallSum ==
  ASSUME IInv, IInv', SumInv, NEW r \in Request, NEW c0 \in Chunk, r.chunk = c0, ReplicaCall(r)
  PROVE  SumInv'
  <1>0. TypeOK /\ TypeOK'
    BY DEF IInv
  <1>1. /\ credited' = credited
        /\ spoiled' = spoiled \cup {c \in {c0} : GetChunkSize(c) # GetChunkSize(c)'}
    BY DEF ReplicaCall, GetChunkSize
  <1>2. \A j \in Call : /\ call'[j].pc = call[j].pc /\ call'[j].req = call[j].req
                        /\ call'[j].old = call[j].old /\ call'[j].change = call[j].change
                        /\ call'[j].raced = (call[j].raced \/ Holds(j, c0))
    <2> SUFFICES ASSUME NEW j \in Call
                 PROVE  /\ call'[j].pc = call[j].pc /\ call'[j].req = call[j].req
                        /\ call'[j].old = call[j].old /\ call'[j].change = call[j].change
                        /\ call'[j].raced = (call[j].raced \/ Holds(j, c0))
      OBVIOUS
    <2>1. call'[j] = [call[j] EXCEPT !.raced = @ \/ Holds(j, c0)]
      BY DEF ReplicaCall
    <2> QED
      BY <1>0, <2>1 DEF TypeOK
  <1>3. \A c \in Chunk \ {c0} : GetChunkSize(c)' = GetChunkSize(c)
    <2>1. Accessed(c0)
      BY AccessKeepsMap DEF ReplicaCall
    <2> QED
      BY <2>1 DEF Accessed, Elsewhere, GetChunkSize
  <1>4. ASSUME NEW c \in Chunk
        PROVE  /\ IsFiniteSet(Pending(c)') /\ Same(Sum(c)', Sum(c))
               /\ \A j \in Call : /\ Measuring(j, c)' <=> Measuring(j, c)
                                  /\ Measuring(j, c) => /\ call'[j].old = call[j].old
                                                        /\ call[j].raced => call'[j].raced
    <2>1. \A j \in Call : Debt(j, c)' = Debt(j, c)
      BY <1>2 DEF Debt, At, About
    <2>2. Pending(c)' = Pending(c)
      BY <2>1, PendingKept
    <2>3. IsFiniteSet(Pending(c)') /\ Sum(c)' = Sum(c)
      BY <1>1, <2>2 DEF Sum, SumInv
    <2>4. Same(Sum(c)', Sum(c))
      BY <1>0, <2>3, SumTyped, SameRefl
    <2> QED
      BY <1>2, <2>3, <2>4 DEF Measuring, At, About
  <1>5. ASSUME NEW c \in Chunk, Balanced(c), c \notin spoiled'
        PROVE  Balanced(c)'
    <2>1. GetChunkSize(c)' = GetChunkSize(c)
      BY <1>1, <1>3, <1>5
    <2> QED
      BY <1>0, <1>4, <1>5, <2>1, BalanceKept
  <1>6. MeasurersWrite' /\ OneMeasures'
    <2>1. \A j \in Call : /\ At(j, "measure")' <=> At(j, "measure")
                          /\ call'[j].req = call[j].req /\ About(j)' = About(j)
                          /\ call[j].raced => call'[j].raced
      BY <1>2 DEF At, About
    <2>2. MeasurersWrite'
      BY <2>1 DEF SumInv, MeasurersWrite
    <2>3. OneMeasures'
      BY <2>1 DEF SumInv, OneMeasures
    <2> QED
      BY <2>2, <2>3
  <1> QED
    BY <1>1, <1>4, <1>5, <1>6 DEF SumInv

LEMMA RestartSum ==
  ASSUME IInv, IInv', SumInv, Restart
  PROVE  SumInv'
  <1>0. TypeOK /\ TypeOK'
    BY DEF IInv
  <1>1. \A k \in Call : call'[k].pc = "idle"
    BY DEF Restart, Idle
  <1>2. /\ chunks' = file /\ credited' = credited
        /\ spoiled \subseteq spoiled'
        /\ \A c \in Chunk \ spoiled' : /\ GetChunkSize(c) = SizeIn(file, c)
                                       /\ \A k \in Call : Uncounted(k) => About(k) # c
    BY DEF Restart
  <1>3. ASSUME NEW c \in Chunk
        PROVE  Pending(c)' = {} /\ IsFiniteSet(Pending(c)') /\ Sum(c)' = credited[c]
    <2>1. Pending(c)' = {}
      BY <1>1 DEF Pending, Debt, At
    <2>2. IsFiniteSet({}) /\ Cardinality({}) = 0 /\ credited[c] \in Int
      BY <1>0, FS_EmptySet, StorageAssumption DEF TypeOK
    <2> QED
      BY <1>2, <2>1, <2>2 DEF Sum
  <1>4. ASSUME NEW c \in Chunk, Balanced(c), c \notin spoiled'
        PROVE  Balanced(c)'
    <2>1. \A k \in Call : About(k) = c => ~Uncounted(k)
      BY <1>2, <1>4
    <2>2. Pending(c) = {}
      <3>1. \A k \in Call : Debt(k, c) = {}
        BY <2>1 DEF Debt, Uncounted
      <3> QED
        BY <3>1 DEF Pending
    <2>3. Sum(c) = credited[c]
      BY <1>0, <2>2, FS_EmptySet, StorageAssumption DEF Sum, TypeOK
    <2>4. \A k \in Call : Measuring(k, c) => ~call[k].raced /\ call[k].old = GetChunkSize(c)
      BY <2>1 DEF Uncounted, Measuring, SumInv, MeasurersWrite
    <2>5. Same(Sum(c), GetChunkSize(c))
      BY <1>4, <2>4 DEF Balanced
    <2>6. Sum(c)' = Sum(c) /\ GetChunkSize(c)' = GetChunkSize(c)
      BY <1>2, <1>3, <1>4, <2>3 DEF GetChunkSize
    <2>7. \A k \in Call : ~Measuring(k, c)'
      BY <1>1 DEF Measuring, At
    <2> QED
      BY <2>5, <2>6, <2>7 DEF Balanced
  <1>5. MeasurersWrite' /\ OneMeasures'
    BY <1>1 DEF MeasurersWrite, OneMeasures, At
  <1> QED
    BY <1>2, <1>3, <1>4, <1>5 DEF SumInv

LEMMA NextSumInv == IInv /\ IInv' /\ SumInv /\ [Next]_vars => SumInv'
  <1> SUFFICES ASSUME IInv, IInv', SumInv, [Next]_vars PROVE SumInv'
    OBVIOUS
  <1>0. \A k \in Call : About(k) \in Chunk
    BY RecordsTyped DEF IInv
  <1>1. ASSUME NEW k \in Call, Step(k) PROVE SumInv'
    <2>1. PICK c \in Chunk : About(k) = c
      BY <1>0
    <2> QED
      BY <1>1, <2>1, BeginSum, StoreSum, StoreGoesWrongSum, MeasureSum, ReportSum, GiveUpSum, ReadForCopySum
         DEF Step
  <1>2. ASSUME NEW r \in Request, ReplicaCall(r) PROVE SumInv'
    <2>1. PICK c \in Chunk : r.chunk = c
      BY DEF Request
    <2> QED
      BY <1>2, <2>1, ReplicaCallSum
  <1>3. CASE Restart
    BY <1>3, RestartSum
  <1>4. CASE UNCHANGED vars
    BY <1>4 DEF vars, SumInv, MeasurersWrite, OneMeasures, Pending, Debt, Balanced, Measuring, Sum,
                GetChunkSize, At, About
  <1> QED
    BY <1>1, <1>2, <1>3, <1>4 DEF Next

\* For a chunk of which no report was lost and no size overtaken the Master has counted
\* its size, or a handler is still to report (server.go, the handlers' sizeChange): for any
\* number of handlers, through failed system calls, wrapped differences and restarts.
THEOREM ReportsMakeUpSizes == Spec => []ReportsAddUp
  <1>1. IInv /\ SumInv => ReportsAddUp
    <2> SUFFICES ASSUME IInv, SumInv, NEW c \in Chunk \ spoiled,
                        \A k \in Call : About(k) = c => ~Uncounted(k)
                 PROVE  credited[c] = GetChunkSize(c) % Word
      BY DEF ReportsAddUp
    <2>0. TypeOK /\ GetChunkSize(c) \in Size /\ credited[c] \in 0 .. Word - 1
      BY RecordsTyped DEF IInv, TypeOK
    <2>1. Pending(c) = {}
      <3>1. \A k \in Call : Debt(k, c) = {}
        BY DEF Debt, Uncounted
      <3> QED
        BY <3>1 DEF Pending
    <2>2. Sum(c) = credited[c]
      BY <2>0, <2>1, FS_EmptySet, StorageAssumption DEF Sum
    <2>3. \A k \in Call : Measuring(k, c) => ~call[k].raced /\ call[k].old = GetChunkSize(c)
      BY DEF Uncounted, Measuring, SumInv, MeasurersWrite
    <2>4. Same(credited[c], GetChunkSize(c))
      BY <2>2, <2>3 DEF SumInv, Balanced
    <2>5. GetChunkSize(c) \in 0 .. Word - 1
      BY <2>0, StorageAssumption DEF Size
    <2>6. credited[c] = GetChunkSize(c)
      BY <2>0, <2>4, <2>5, SameEqual
    <2>7. GetChunkSize(c) % Word = GetChunkSize(c)
      <3>1. GetChunkSize(c) % Word \in 0 .. Word - 1 /\ Same(GetChunkSize(c) % Word, GetChunkSize(c))
        BY <2>5, ModTyped, SameMod
      <3> QED
        BY <2>5, <3>1, SameEqual
    <2> QED
      BY <2>6, <2>7
  <1> QED
    BY <1>1, InitSumInv, NextSumInv, StorageInvariant, PTL DEF Spec
=============================================================================
