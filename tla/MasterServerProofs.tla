------------------------ MODULE MasterServerProofs ------------------------
(***************************************************************************)
(* MasterServer for any number of handlers, files and servers: what the    *)
(* handlers do to the store is what the store's operations do, so its       *)
(* theorems hold of the running Master; and a placed chunk has three        *)
(* servers whenever no handler is placing it.                              *)
(***************************************************************************)
EXTENDS MasterServer, MetadataStoreProofs, FiniteSetTheorems

\* A handler that places a chunk has three different servers, less those it has
\* entered already.
ChosenDistinct ==
  \A h \in Handler : call[h].pc = "place" =>
    /\ Len(call[h].servers) \in 1 .. Copies
    /\ \A i, j \in 1 .. Len(call[h].servers) : call[h].servers[i] = call[h].servers[j] => i = j

\* A handle that was not issued yet has no servers.
FreshUnplaced == \A c \in Handle : c > chunkid => primary[c] = NoServer

\* The handler is still to enter d, or b and d, for the chunk.
StillEnters(h, c, b, d) ==
  /\ Placing(h, c)
  /\ \/ Len(call[h].servers) = 2 /\ call[h].servers[1] = b /\ call[h].servers[2] = d
     \/ Len(call[h].servers) = 1 /\ call[h].servers[1] = d /\ b \in replicas[c]

\* The last handler to set the primary chose two more servers with it, and they
\* are entered or that handler is still at it.  Other handlers only add servers.
Supported(c) ==
  \E b, d \in Server :
    /\ b # d /\ b # primary[c] /\ d # primary[c]
    /\ {b, d} \subseteq replicas[c] \/ \E h \in Handler : StillEnters(h, c, b, d)

PlacedSupported == \A c \in DOMAIN chunkLocations : primary[c] # NoServer => Supported(c)

PlacementInv == ServerTypeOK /\ ChosenDistinct /\ FreshUnplaced /\ PlacedSupported
-----------------------------------------------------------------------------
LEMMA StepUsesStore == IInv /\ [ServerNext]_serverVars => [Next]_vars
  <1> SUFFICES ASSUME IInv, [ServerNext]_serverVars PROVE [Next]_vars
    OBVIOUS
  <1>1. ASSUME NEW h \in Handler, NEW p \in Path, NEW offset \in 0 .. MaxLen - 1,
               NEW length \in 1 .. MaxLen - offset, BeginWrite(h, p, offset, length)
        PROVE  Next
    BY <1>1 DEF BeginWrite, Next, Operation
  <1>2. ASSUME NEW h \in Handler, NEW p \in Path, NEW length \in 1 .. MaxLen, BeginAppend(h, p, length)
        PROVE  Next
    BY <1>2 DEF BeginAppend, Next, Operation
  <1>3. ASSUME NEW h \in Handler, NEW p \in Path, NEW index \in 0 .. MaxHandle, BeginAllocate(h, p, index)
        PROVE  Next
    BY <1>3 DEF BeginAllocate, Next, Operation
  <1>4. ASSUME NEW h \in Handler, Locate(h) \/ LocateTorn(h) PROVE Next
    <2>1. GetChunkLocations(Current(h))
      BY <1>4 DEF Locate, LocateTorn, Located
    <2>2. Current(h) \in Handle
      BY <2>1 DEF GetChunkLocations, IInv, TypeOK
    <2> QED
      BY <2>1, <2>2 DEF Next, Operation
  <1>5. ASSUME NEW h \in Handler, Lookup(h) \/ Choose(h) \/ Place(h) \/ LocateFails(h)
        PROVE  UNCHANGED vars
    BY <1>5 DEF Lookup, Choose, Place, LocateFails
  <1>6. ASSUME NEW s \in Server, Leave(s) \/ Join(s) PROVE UNCHANGED vars
    BY <1>6 DEF Leave, Join
  <1>9. ASSUME NEW h \in Handler, NEW c \in Handle, BeginLocate(h, c) PROVE UNCHANGED vars
    BY <1>9 DEF BeginLocate
  <1>7. CASE ShortCall
    BY <1>7 DEF ShortCall, Next, Operation
  <1>8. CASE UNCHANGED serverVars
    BY <1>8 DEF serverVars
  <1> QED
    BY <1>1, <1>2, <1>3, <1>4, <1>5, <1>6, <1>7, <1>8, <1>9 DEF ServerNext, HandlerStep

\* The handlers change the store by its own operations only, so that every theorem
\* of MetadataStoreProofs holds of the running Master.
THEOREM HandlersUseStore == ServerSpec => Spec
  <1>1. ServerInit => Init /\ IInv
    BY InitIInv DEF ServerInit
  <1>2. IInv /\ [ServerNext]_serverVars => [Next]_vars /\ IInv'
    BY StepUsesStore, NextIInv
  <1> QED
    BY <1>1, <1>2, PTL DEF ServerSpec, Spec

LEMMA StoreKept == ServerSpec => []IInv
  BY HandlersUseStore, StoreInvariant, PTL

-----------------------------------------------------------------------------
(***************************************************************************)
(* The chunks of a plan.                                                   *)
(***************************************************************************)
LEMMA DivMonotone ==
  ASSUME NEW a \in Nat, NEW c \in Nat, NEW b \in Nat \ {0}, a <= c
  PROVE  a \div b \in Nat /\ c \div b \in Nat /\ a \div b <= c \div b
  <1> DEFINE q == a \div b
             r == c \div b
  <1>1. q \in Int /\ r \in Int /\ a = b * q + (a % b) /\ c = b * r + (c % b)
        /\ a % b \in 0 .. b - 1 /\ c % b \in 0 .. b - 1
    BY Z3
  <1> HIDE DEF q, r
  <1>2. ASSUME NEW x \in Int, x < 0 PROVE b * x <= -b
    BY <1>2, Z3
  <1>3. q >= 0 /\ r >= 0
    BY <1>1, <1>2
  <1>4. ASSUME q > r PROVE FALSE
    <2> DEFINE x == r - q
    <2>1. x \in Int /\ x < 0 /\ r = q + x
      BY <1>1, <1>4
    <2> HIDE DEF x
    <2>2. b * x <= -b
      BY <1>2, <2>1
    <2>3. b * (q + x) = b * q + b * x
      BY <1>1, <2>1, Z3
    <2>4. b * q \in Int /\ b * x \in Int /\ b * r = b * q + b * x
      BY <1>1, <2>1, <2>3
    <2> QED
      BY <1>1, <2>2, <2>4
  <1> QED
    BY <1>1, <1>3, <1>4 DEF q, r

LEMMA TouchedProperties ==
  ASSUME IInv, IInv', NEW p \in DOMAIN files, NEW offset \in Nat, NEW end \in Nat,
         offset < end, GrowTo(p, end)
  PROVE  /\ Touched(files'[p].chunks, offset, end) \in Seq(Handle)
         /\ Touched(files'[p].chunks, offset, end) # << >>
  <1> DEFINE s == files[p].chunks
             t == files'[p].chunks
             n == IF ChunkCount(end) > Len(s) THEN ChunkCount(end) - Len(s) ELSE 0
             new == [i \in 1 .. n |-> chunkid + i]
             from == offset \div ChunkSize + 1
  <1>1. s \in Seq(Handle) /\ chunkid \in Int
    BY MetadataAssumption DEF IInv, TypeOK
  <1>2. /\ offset \div ChunkSize \in Nat /\ (end - 1) \div ChunkSize \in Nat
        /\ offset \div ChunkSize <= (end - 1) \div ChunkSize
    BY DivMonotone, MetadataAssumption
  <1>3. from \in Int /\ from >= 1 /\ ChunkCount(end) \in Int /\ from <= ChunkCount(end)
    BY <1>2 DEF ChunkCount
  <1>4. Len(s) \in Nat /\ n \in Nat /\ Len(s) + n >= ChunkCount(end)
    BY <1>1, <1>3
  <1>5. files' = [files EXCEPT ![p].chunks = s \o new]
    BY DEF GrowTo
  <1>5a. t = s \o new /\ p \in DOMAIN files'
    BY <1>5 DEF IInv, TypeOK
  <1>5b. t \in Seq(Handle)
    BY <1>5a DEF IInv, TypeOK
  <1> HIDE DEF n, from
  <1>6. new \in Seq(Int) /\ Len(new) = n
    BY <1>1, <1>4
  <1> HIDE DEF new, s, t
  <1>7. Len(t) = Len(s) + n
    <2>1. s \in Seq(Int)
      BY <1>1, MetadataAssumption DEF Handle
    <2> QED
      BY <1>5a, <1>6, <2>1, ConcatProperties
  <1>8. \A i \in from .. ChunkCount(end) : t[i] \in Handle
    BY <1>3, <1>4, <1>5b, <1>7
  <1> DEFINE u == SubSeq(t, from, ChunkCount(end))
  <1>9. u \in Seq(Handle) /\ Len(u) >= 1
    BY <1>3, <1>8, SubSeqProperties
  <1>10. Touched(t, offset, end) = u
    BY DEF Touched, from
  <1> HIDE DEF u
  <1>11. u # << >>
    BY <1>9
  <1> QED
    BY <1>9, <1>10, <1>11 DEF t

-----------------------------------------------------------------------------
(***************************************************************************)
(* The placement invariant.                                                *)
(***************************************************************************)
LEMMA InitPlacement == ServerInit => PlacementInv
  <1> SUFFICES ASSUME ServerInit PROVE PlacementInv
    OBVIOUS
  <1>1. Idle \in Calls /\ \A h \in Handler : call[h] = Idle
    BY DEF ServerInit, Idle, Calls
  <1>2. ServerTypeOK
    BY <1>1 DEF ServerInit, ServerTypeOK, Idle
  <1>3. ChosenDistinct
    BY <1>1 DEF ChosenDistinct, Idle
  <1>4. FreshUnplaced /\ PlacedSupported
    BY DEF ServerInit, Init, FreshUnplaced, PlacedSupported
  <1> QED
    BY <1>2, <1>3, <1>4 DEF PlacementInv

\* A chunk stays supported when its primary stays, no replica goes, and every
\* handler that is placing it stands where it stood.
LEMMA SupportKept ==
  ASSUME NEW c \in Handle, Supported(c), primary'[c] = primary[c], replicas[c] \subseteq replicas'[c],
         \A h \in Handler : Placing(h, c) => call'[h] = call[h]
  PROVE  Supported(c)'
  BY DEF Supported, StillEnters, Placing, Current

\* A step in which the entries stay as they are and the placing handlers stand still.
LEMMA QuietStep ==
  ASSUME IInv, IInv', PlacementInv, ServerTypeOK', ChosenDistinct', UNCHANGED placement,
         chunkid' >= chunkid,
         \A c \in DOMAIN chunkLocations' : c \in DOMAIN chunkLocations \/ c > chunkid,
         \A h \in Handler : call[h].pc = "place" => call'[h] = call[h]
  PROVE  PlacementInv'
  <1>1. FreshUnplaced'
    BY DEF PlacementInv, FreshUnplaced, placement, IInv, TypeOK, Handle
  <1>2. ASSUME NEW c \in DOMAIN chunkLocations', primary'[c] # NoServer PROVE Supported(c)'
    <2>1. c \in Handle
      BY DEF IInv, TypeOK
    <2>2. primary'[c] = primary[c] /\ replicas'[c] = replicas[c]
      BY DEF placement
    <2>3. c \in DOMAIN chunkLocations
      BY <1>2, <2>1, <2>2 DEF PlacementInv, FreshUnplaced
    <2>4. Supported(c)
      BY <1>2, <2>2, <2>3 DEF PlacementInv, PlacedSupported
    <2> QED
      BY <2>1, <2>2, <2>4, SupportKept DEF Placing
  <1> QED
    BY <1>1, <1>2 DEF PlacementInv, PlacedSupported

LEMMA BeginStep ==
  ASSUME IInv, IInv', PlacementInv, NEW h \in Handler, NEW pc \in {"lookup", "choose", "locate"},
         NEW handles \in Seq(Handle), handles # << >>, Begins(h, pc, handles),
         NEW n \in Nat, chunkid' = chunkid + n,
         DOMAIN chunkLocations' = DOMAIN chunkLocations \cup (chunkid + 1 .. chunkid + n)
  PROVE  PlacementInv'
  <1> DEFINE begun == [pc |-> pc, todo |-> handles, servers |-> << >>]
  <1>1. begun \in Calls /\ call[h].pc = "idle" /\ call' = [call EXCEPT ![h] = begun]
    BY DEF Calls, Begins, At
  <1>2. /\ call \in [Handler -> Calls] /\ call'[h] = begun
        /\ \A g \in Handler \ {h} : call'[g] = call[g]
    BY <1>1 DEF PlacementInv, ServerTypeOK
  <1>3. ServerTypeOK'
    <2>1. UNCHANGED <<running, available, primary, replicas>>
      BY DEF Begins, placement
    <2>2. call' \in [Handler -> Calls]
      BY <1>1, <1>2
    <2>3. begun.pc = pc /\ begun.todo = handles /\ begun.servers = << >>
      OBVIOUS
    <2> HIDE DEF begun
    <2> QED
      BY <1>2, <2>1, <2>2, <2>3 DEF PlacementInv, ServerTypeOK
  <1>4. ChosenDistinct'
    BY <1>2 DEF PlacementInv, ChosenDistinct
  <1>5. UNCHANGED placement
    BY DEF Begins
  <1>6. chunkid \in Nat
    BY MetadataAssumption DEF IInv, TypeOK
  <1> QED
    BY <1>1, <1>2, <1>3, <1>4, <1>5, <1>6, QuietStep

\* A step of one handler that neither starts a call nor enters a server.
LEMMA HandlerOnlyStep ==
  ASSUME IInv, IInv', PlacementInv, NEW h \in Handler, NEW new \in Calls,
         call[h].pc # "place", call' = [call EXCEPT ![h] = new],
         new.pc # "idle" => new.todo # << >>,
         new.pc = "place" <=> new.servers # << >>,
         new.pc = "place" => /\ Len(new.servers) \in 1 .. Copies
                             /\ \A i, j \in 1 .. Len(new.servers) :
                                  new.servers[i] = new.servers[j] => i = j,
         running' \in BOOLEAN, UNCHANGED <<available, placement, chunkid, chunkLocations>>
  PROVE  PlacementInv'
  <1>1. /\ call \in [Handler -> Calls] /\ call'[h] = new /\ call' \in [Handler -> Calls]
        /\ \A g \in Handler \ {h} : call'[g] = call[g]
    BY DEF PlacementInv, ServerTypeOK
  <1>2. ServerTypeOK'
    BY <1>1 DEF PlacementInv, ServerTypeOK, placement
  <1>3. ChosenDistinct'
    BY <1>1 DEF PlacementInv, ChosenDistinct
  <1>4. chunkid \in Nat
    BY MetadataAssumption DEF IInv, TypeOK
  <1> QED
    BY <1>1, <1>2, <1>3, <1>4, QuietStep

LEMMA LongNotEmpty ==
  ASSUME NEW S, NEW s \in Seq(S)
  PROVE  /\ s # << >> => Len(s) \in Nat /\ Len(s) >= 1
         /\ Len(s) >= 1 => s # << >>
  <1>1. Len(s) \in Nat
    BY LenProperties
  <1>2. s = << >> <=> Len(s) = 0
    BY EmptySeq
  <1> QED
    BY <1>1, <1>2

LEMMA Moved ==
  ASSUME NEW r \in Calls, NEW pc \in {"idle", "lookup", "choose", "place", "locate"}
  PROVE  /\ [r EXCEPT !.pc = pc] \in Calls
         /\ [r EXCEPT !.pc = pc].pc = pc
         /\ [r EXCEPT !.pc = pc].todo = r.todo
         /\ [r EXCEPT !.pc = pc].servers = r.servers
  BY DEF Calls

LEMMA PanicStep ==
  ASSUME IInv, IInv', PlacementInv, Panic, UNCHANGED <<available, placement, chunkid, chunkLocations>>
  PROVE  PlacementInv'
  <1>1. ServerTypeOK' /\ ChosenDistinct'
    BY DEF PlacementInv, ServerTypeOK, ChosenDistinct, Panic, placement
  <1>2. chunkid \in Nat
    BY MetadataAssumption DEF IInv, TypeOK
  <1> QED
    BY <1>1, <1>2, QuietStep DEF Panic

LEMMA ReturnStep ==
  ASSUME IInv, IInv', PlacementInv, NEW h \in Handler, call[h].pc # "place", Returns(h),
         UNCHANGED <<running, available, placement, chunkid, chunkLocations>>
  PROVE  PlacementInv'
  <1>1. Idle \in Calls /\ Idle.pc = "idle" /\ Idle.servers = << >>
    BY DEF Idle, Calls
  <1>2. running' \in BOOLEAN /\ call' = [call EXCEPT ![h] = Idle]
    BY DEF PlacementInv, ServerTypeOK, Returns
  <1> QED
    BY <1>1, <1>2, HandlerOnlyStep

LEMMA LookupStep ==
  ASSUME IInv, IInv', PlacementInv, NEW h \in Handler, Lookup(h)
  PROVE  PlacementInv'
  <1>1. /\ call[h].pc = "lookup" /\ call[h] \in Calls /\ running \in BOOLEAN
        /\ call[h].todo # << >> /\ call[h].servers = << >>
        /\ UNCHANGED <<available, placement, chunkid, chunkLocations>>
    BY DEF Lookup, At, PlacementInv, ServerTypeOK, vars
  <1>2. CASE Panic
    BY <1>1, <1>2, PanicStep
  <1>3. CASE ~Panic
    <2>1. PICK pc \in {"choose", "locate"} : Goes(h, pc) /\ UNCHANGED running
      BY <1>3 DEF Lookup
    <2> DEFINE new == [call[h] EXCEPT !.pc = pc]
    <2>2. new \in Calls /\ new.pc = pc /\ new.todo = call[h].todo /\ new.servers = call[h].servers
      <3>1. pc \in {"idle", "lookup", "choose", "place", "locate"}
        OBVIOUS
      <3> QED
        BY <1>1, <3>1, Moved
    <2>3. call' = [call EXCEPT ![h] = new]
      BY <2>1 DEF Goes
    <2> HIDE DEF new
    <2> QED
      BY <1>1, <2>1, <2>2, <2>3, HandlerOnlyStep
  <1> QED
    BY <1>2, <1>3

LEMMA ChooseStep ==
  ASSUME IInv, IInv', PlacementInv, NEW h \in Handler, Choose(h)
  PROVE  PlacementInv'
  <1>1. /\ call[h].pc = "choose" /\ call[h] \in Calls /\ running \in BOOLEAN
        /\ call[h].todo # << >> /\ available \subseteq Server
        /\ UNCHANGED <<available, placement, chunkid, chunkLocations>>
    BY DEF Choose, At, PlacementInv, ServerTypeOK, vars
  <1>2. CASE Panic
    BY <1>1, <1>2, PanicStep
  <1>3. CASE ~Panic
    <2>1. PICK a \in available, b \in available, c \in available :
            /\ a # b /\ b # c /\ a # c
            /\ call' = [call EXCEPT ![h].servers = <<a, b, c>>, ![h].pc = "place"]
            /\ UNCHANGED running
      BY <1>3 DEF Choose
    <2> DEFINE chosen == <<a, b, c>>
               new == [call[h] EXCEPT !.servers = chosen, !.pc = "place"]
    <2>2. /\ chosen \in Seq(Server) /\ Len(chosen) = 3 /\ chosen # << >>
          /\ chosen[1] = a /\ chosen[2] = b /\ chosen[3] = c
      BY <1>1
    <2>4. call' = [call EXCEPT ![h] = new]
      BY <2>1
    <2> HIDE DEF chosen
    <2>3. new \in Calls /\ new.pc = "place" /\ new.todo = call[h].todo /\ new.servers = chosen
      BY <1>1, <2>2 DEF Calls
    <2> HIDE DEF new
    <2>5. /\ Len(new.servers) \in 1 .. Copies
          /\ \A i, j \in 1 .. Len(new.servers) : new.servers[i] = new.servers[j] => i = j
      <3>1. Len(new.servers) = 3 /\ 3 \in 1 .. Copies
        BY <2>2, <2>3 DEF Copies
      <3>2. ASSUME NEW i \in {1, 2, 3}, NEW j \in {1, 2, 3}, chosen[i] = chosen[j] PROVE i = j
        BY <2>1, <2>2, <3>2
      <3>3. \A i \in 1 .. 3 : i \in {1, 2, 3}
        OBVIOUS
      <3> QED
        BY <2>3, <3>1, <3>2, <3>3
    <2> QED
      BY <1>1, <2>1, <2>2, <2>3, <2>4, <2>5, HandlerOnlyStep
  <1> QED
    BY <1>2, <1>3

LEMMA LocateStep ==
  ASSUME IInv, IInv', PlacementInv, NEW h \in Handler, Locate(h) \/ LocateTorn(h) \/ LocateFails(h)
  PROVE  PlacementInv'
  <1>1. /\ call[h].pc = "locate" /\ call[h] \in Calls /\ running \in BOOLEAN
        /\ call[h].todo # << >> /\ call[h].servers = << >>
        /\ UNCHANGED <<available, placement, chunkid, chunkLocations>>
    BY DEF Locate, LocateTorn, LocateFails, Located, GetChunkLocations, At, PlacementInv, ServerTypeOK, vars
  <1>2. CASE LocateTorn(h)
    BY <1>1, <1>2, PanicStep DEF LocateTorn
  <1>3. CASE Returns(h) /\ UNCHANGED running
    BY <1>1, <1>3, ReturnStep
  <1>4. CASE Locate(h) /\ Len(call[h].todo) # 1
    <2>1. call' = [call EXCEPT ![h].todo = Tail(@), ![h].pc = "lookup"] /\ UNCHANGED running
      BY <1>4 DEF Locate
    <2>2. Tail(call[h].todo) \in Seq(Handle) /\ Tail(call[h].todo) # << >>
      <3>1. call[h].todo \in Seq(Handle)
        BY <1>1 DEF Calls
      <3> DEFINE t == call[h].todo
      <3>2. t \in Seq(Handle) /\ t # << >> /\ Len(t) # 1
        BY <1>1, <1>4, <3>1
      <3> HIDE DEF t
      <3>3. Len(t) \in Nat /\ Len(t) >= 1
        BY <3>2, LongNotEmpty
      <3>4. Tail(t) \in Seq(Handle) /\ Len(Tail(t)) = Len(t) - 1
        BY <3>2, HeadTailProperties
      <3>5. Tail(t) # << >>
        <4>1. Len(Tail(t)) >= 1
          BY <3>2, <3>3, <3>4
        <4> QED
          BY <3>4, <4>1, LongNotEmpty
      <3> QED
        BY <3>4, <3>5 DEF t
    <2> DEFINE new == [call[h] EXCEPT !.todo = Tail(@), !.pc = "lookup"]
    <2>3. new \in Calls /\ new.pc = "lookup" /\ new.todo = Tail(call[h].todo) /\ new.servers = call[h].servers
      BY <1>1, <2>2 DEF Calls
    <2>4. call' = [call EXCEPT ![h] = new]
      BY <2>1
    <2> HIDE DEF new
    <2> QED
      BY <1>1, <2>1, <2>2, <2>3, <2>4, HandlerOnlyStep
  <1>5. Locate(h) /\ Len(call[h].todo) = 1 => Returns(h) /\ UNCHANGED running
    BY DEF Locate
  <1>6. LocateFails(h) => Returns(h) /\ UNCHANGED running
    BY DEF LocateFails
  <1> QED
    BY <1>2, <1>3, <1>4, <1>5, <1>6

\* A step that enters the next server of a handler, or gives its call up.
LEMMA PlaceFacts ==
  ASSUME PlacementInv, NEW h \in Handler, Place(h)
  PROVE  LET t == call[h].servers
         IN /\ call[h].pc = "place" /\ call[h] \in Calls /\ call[h].todo # << >>
            /\ t \in Seq(Server) /\ Len(t) \in 1 .. 3 /\ Head(t) = t[1] /\ t[1] \in Server
            /\ \A i, j \in 1 .. Len(t) : t[i] = t[j] => i = j
            /\ Tail(t) \in Seq(Server) /\ Len(Tail(t)) = Len(t) - 1
            /\ \A i \in 1 .. Len(t) - 1 : Tail(t)[i] = t[i + 1]
            /\ Len(t) = 1 <=> Tail(t) = << >>
            /\ Current(h) \in Handle
  <1> DEFINE t == call[h].servers
             u == call[h].todo
  <1>1. /\ call[h].pc = "place" /\ call[h] \in Calls /\ u # << >>
        /\ Len(t) \in 1 .. 3 /\ \A i, j \in 1 .. Len(t) : t[i] = t[j] => i = j
    BY DEF Place, At, PlacementInv, ServerTypeOK, ChosenDistinct, Copies
  <1>2. t \in Seq(Server) /\ u \in Seq(Handle) /\ t # << >>
    <2>1. t \in Seq(Server) /\ u \in Seq(Handle)
      BY <1>1 DEF Calls
    <2> QED
      BY <1>1, <2>1 DEF PlacementInv, ServerTypeOK
  <1>3. Current(h) = Head(u)
    BY DEF Current
  <1> HIDE DEF t, u
  <1>4. Head(u) \in Handle /\ Head(t) = t[1] /\ t[1] \in Server
    BY <1>1, <1>2, HeadTailProperties, ElementOfSeq
  <1>5. Tail(t) \in Seq(Server) /\ Len(Tail(t)) = Len(t) - 1
        /\ \A i \in 1 .. Len(t) - 1 : Tail(t)[i] = t[i + 1]
    BY <1>2, HeadTailProperties
  <1>6. Len(t) = 1 <=> Tail(t) = << >>
    BY <1>1, <1>5, EmptySeq
  <1> QED
    BY <1>1, <1>2, <1>3, <1>4, <1>5, <1>6 DEF t, u

LEMMA PlaceStep ==
  ASSUME IInv, IInv', PlacementInv, NEW h \in Handler, Place(h)
  PROVE  PlacementInv'
  <1>c. PICK c \in Handle : c = Current(h)
    BY PlaceFacts
  <1>t. PICK t \in Seq(Server) : t = call[h].servers
    BY PlaceFacts
  <1>1. /\ call[h].pc = "place" /\ call[h] \in Calls /\ call[h].todo # << >>
        /\ Len(t) \in 1 .. 3 /\ Head(t) = t[1] /\ t[1] \in Server
        /\ \A i, j \in 1 .. Len(t) : t[i] = t[j] => i = j
        /\ Tail(t) \in Seq(Server) /\ Len(Tail(t)) = Len(t) - 1
        /\ \A i \in 1 .. Len(t) - 1 : Tail(t)[i] = t[i + 1]
        /\ Len(t) = 1 <=> Tail(t) = << >>
    BY <1>t, PlaceFacts
  <1>2. /\ UNCHANGED <<running, available, chunkid, chunkLocations>>
        /\ call \in [Handler -> Calls]
        /\ primary \in [Handle -> Server \cup {NoServer}] /\ replicas \in [Handle -> SUBSET Server]
    BY DEF Place, vars, PlacementInv, ServerTypeOK
  <1>3. CASE c \notin DOMAIN chunkLocations
    <2>1. UNCHANGED placement /\ call' = [call EXCEPT ![h] = Idle]
      BY <1>c, <1>3 DEF Place, Returns
    <2>2. Idle \in Calls /\ Idle.pc = "idle" /\ Idle.servers = << >>
      BY DEF Idle, Calls
    <2>3. call' \in [Handler -> Calls] /\ call'[h] = Idle /\ \A g \in Handler \ {h} : call'[g] = call[g]
      BY <1>2, <2>1, <2>2
    <2>4. ServerTypeOK'
      BY <1>2, <2>1, <2>2, <2>3 DEF PlacementInv, ServerTypeOK, placement
    <2>5. ChosenDistinct'
      BY <2>2, <2>3 DEF PlacementInv, ChosenDistinct
    <2>6. FreshUnplaced'
      BY <1>2, <2>1 DEF PlacementInv, FreshUnplaced, placement
    <2>7. ASSUME NEW e \in DOMAIN chunkLocations', primary'[e] # NoServer PROVE Supported(e)'
      <3>1. e \in Handle /\ e # c /\ Supported(e)
        BY <1>2, <1>3, <2>1, <2>7 DEF IInv, TypeOK, PlacementInv, PlacedSupported, placement
      <3>2. \A g \in Handler : Placing(g, e) => call'[g] = call[g]
        BY <1>c, <2>3, <3>1 DEF Placing
      <3> QED
        BY <2>1, <3>1, <3>2, SupportKept DEF placement
    <2> QED
      BY <2>4, <2>5, <2>6, <2>7 DEF PlacementInv, PlacedSupported
  <1>4. CASE c \in DOMAIN chunkLocations
    <2> DEFINE pc == IF Len(t) = 1 THEN "locate" ELSE "place"
               new == [call[h] EXCEPT !.servers = Tail(t), !.pc = pc]
    <2>1. Enter(h, Len(t) = Copies) /\ call' = [call EXCEPT ![h] = new]
      BY <1>c, <1>t, <1>1, <1>2, <1>4 DEF Place
    <2>2. new \in Calls /\ new.servers = Tail(t) /\ new.todo = call[h].todo /\ new.pc = pc
      BY <1>t, <1>1 DEF Calls
    <2> HIDE DEF new, pc
    <2>3. call' \in [Handler -> Calls] /\ call'[h] = new /\ \A g \in Handler \ {h} : call'[g] = call[g]
      BY <1>2, <2>1, <2>2
    <2>4. \/ Len(t) = 3 /\ primary' = [primary EXCEPT ![c] = t[1]] /\ UNCHANGED replicas
          \/ Len(t) # 3 /\ replicas' = [replicas EXCEPT ![c] = @ \cup {t[1]}] /\ UNCHANGED primary
      BY <1>c, <1>t, <1>1, <2>1 DEF Enter, Copies
    <2>5. ServerTypeOK'
      <3>1. primary' \in [Handle -> Server \cup {NoServer}] /\ replicas' \in [Handle -> SUBSET Server]
        BY <1>1, <1>2, <2>4
      <3> QED
        BY <1>1, <1>2, <2>2, <2>3, <3>1 DEF PlacementInv, ServerTypeOK, pc
    <2>6. ChosenDistinct'
      <3> SUFFICES ASSUME NEW g \in Handler, call'[g].pc = "place"
                   PROVE  /\ Len(call'[g].servers) \in 1 .. Copies
                          /\ \A i, j \in 1 .. Len(call'[g].servers) :
                               call'[g].servers[i] = call'[g].servers[j] => i = j
        BY DEF ChosenDistinct
      <3>1. CASE g # h
        BY <2>3, <3>1 DEF PlacementInv, ChosenDistinct
      <3>2. CASE g = h
        <4>1. call'[g].servers = Tail(t) /\ Len(t) # 1
          BY <2>2, <2>3, <3>2 DEF pc
        <4>2. Len(Tail(t)) \in 1 .. Copies
          BY <1>1, <4>1 DEF Copies
        <4>3. ASSUME NEW i \in 1 .. Len(Tail(t)), NEW j \in 1 .. Len(Tail(t)), Tail(t)[i] = Tail(t)[j]
              PROVE  i = j
          <5>1. i \in 1 .. Len(t) - 1 /\ j \in 1 .. Len(t) - 1
            BY <1>1
          <5>2. t[i + 1] = t[j + 1]
            BY <1>1, <4>3, <5>1
          <5>3. i + 1 \in 1 .. Len(t) /\ j + 1 \in 1 .. Len(t)
            BY <1>1, <5>1
          <5>4. i + 1 = j + 1
            BY <1>1, <5>2, <5>3
          <5> QED
            BY <5>1, <5>4
        <4> QED
          BY <4>1, <4>2, <4>3
      <3> QED
        BY <3>1, <3>2
    <2>7. FreshUnplaced'
      <3>1. ~(c > chunkid)
        BY <1>1, <1>4, MetadataAssumption DEF IInv, TypeOK, IdsIssued, Handle
      <3> QED
        BY <1>1, <1>2, <2>4, <3>1 DEF PlacementInv, FreshUnplaced
    <2>8. ASSUME NEW e \in DOMAIN chunkLocations', primary'[e] # NoServer, e # c PROVE Supported(e)'
      <3>1. e \in Handle /\ primary'[e] = primary[e] /\ replicas'[e] = replicas[e]
        BY <1>1, <1>2, <2>4, <2>8 DEF IInv, TypeOK
      <3>2. Supported(e)
        BY <1>2, <2>8, <3>1 DEF PlacementInv, PlacedSupported
      <3>3. \A g \in Handler : Placing(g, e) => call'[g] = call[g]
        BY <1>c, <2>3, <2>8 DEF Placing
      <3> QED
        BY <3>1, <3>2, <3>3, SupportKept
    <2>9. Len(t) # 1 => Placing(h, c)'
      BY <1>c, <2>2, <2>3 DEF Placing, Current, pc
    <2>10. ASSUME Len(t) = 3 PROVE Supported(c)'
      <3>1. primary'[c] = t[1] /\ t[1] # t[2] /\ t[1] # t[3] /\ t[2] # t[3]
        BY <1>1, <1>2, <2>4, <2>10
      <3>2. t[2] \in Server /\ t[3] \in Server
        <4>1. 2 \in 1 .. Len(t) /\ 3 \in 1 .. Len(t)
          BY <2>10
        <4> QED
          BY <4>1, ElementOfSeq
      <3>3. StillEnters(h, c, t[2], t[3])'
        <4>1. Len(Tail(t)) = 2 /\ Tail(t)[1] = t[2] /\ Tail(t)[2] = t[3]
          <5>1. 1 \in 1 .. Len(t) - 1 /\ 2 \in 1 .. Len(t) - 1 /\ 1 + 1 = 2 /\ 2 + 1 = 3
            BY <2>10
          <5>2. Tail(t)[1] = t[1 + 1] /\ Tail(t)[2] = t[2 + 1]
            BY <1>1, <5>1
          <5>3. Len(Tail(t)) = 2
            BY <1>1, <2>10
          <5> QED
            BY <5>1, <5>2, <5>3
        <4>2. Placing(h, c)' /\ call'[h].servers = Tail(t)
          BY <2>2, <2>3, <2>9, <2>10
        <4> QED
          BY <4>1, <4>2, Zenon DEF StillEnters
      <3> QED
        BY <3>1, <3>2, <3>3 DEF Supported
    <2>11. ASSUME Len(t) # 3, primary'[c] # NoServer PROVE Supported(c)'
      <3>1. primary'[c] = primary[c] /\ replicas'[c] = replicas[c] \cup {t[1]}
        BY <1>1, <1>2, <2>4, <2>11
      <3>2. Supported(c)
        BY <1>4, <2>11, <3>1 DEF PlacementInv, PlacedSupported
      <3>3. PICK b \in Server, d \in Server :
              /\ b # d /\ b # primary[c] /\ d # primary[c]
              /\ {b, d} \subseteq replicas[c] \/ \E g \in Handler : StillEnters(g, c, b, d)
        BY <3>2 DEF Supported
      <3>4. CASE {b, d} \subseteq replicas[c]
        BY <3>1, <3>3, <3>4 DEF Supported
      <3>5. CASE \E g \in Handler \ {h} : StillEnters(g, c, b, d)
        <4>1. PICK g \in Handler \ {h} : StillEnters(g, c, b, d)
          BY <3>5
        <4>2. StillEnters(g, c, b, d)'
          BY <2>3, <3>1, <4>1 DEF StillEnters, Placing, Current
        <4> QED
          BY <3>1, <3>3, <4>1, <4>2 DEF Supported
      <3>6. CASE StillEnters(h, c, b, d) /\ Len(t) = 2
        <4>1. t[1] = b /\ t[2] = d /\ Len(Tail(t)) = 1 /\ Tail(t)[1] = d
          BY <1>t, <1>1, <3>6 DEF StillEnters
        <4>2. StillEnters(h, c, b, d)'
          <5>1. Placing(h, c)' /\ call'[h].servers = Tail(t)
            BY <2>2, <2>3, <2>9, <3>6
          <5>2. b \in replicas'[c]
            BY <3>1, <4>1
          <5> QED
            BY <4>1, <5>1, <5>2, Zenon DEF StillEnters
        <4> QED
          BY <3>1, <3>3, <4>2 DEF Supported
      <3>7. CASE StillEnters(h, c, b, d) /\ Len(t) # 2
        <4>1. t[1] = d /\ b \in replicas[c]
          BY <1>t, <1>1, <3>7 DEF StillEnters
        <4> QED
          BY <3>1, <3>3, <4>1 DEF Supported
      <3> QED
        BY <3>3, <3>4, <3>5, <3>6, <3>7
    <2>12. PlacedSupported'
      BY <2>8, <2>10, <2>11 DEF PlacedSupported
    <2> QED
      BY <2>5, <2>6, <2>7, <2>12 DEF PlacementInv
  <1> QED
    BY <1>3, <1>4

LEMMA ShortCallStep ==
  ASSUME IInv, IInv', PlacementInv, ShortCall
  PROVE  PlacementInv'
  <1>1. /\ UNCHANGED <<running, available, call, chunkid>>
        /\ primary'  = [c \in Handle |-> IF c \in DOMAIN chunkLocations' THEN primary[c] ELSE NoServer]
        /\ replicas' = [c \in Handle |-> IF c \in DOMAIN chunkLocations' THEN replicas[c] ELSE {}]
    BY DEF ShortCall, CreateFile, DeleteFile, UpdateMasterMetadata, ReportDelete, ReportTruncate, ReportWrite
  <1>2. DOMAIN chunkLocations' \subseteq DOMAIN chunkLocations
    <2>1. ASSUME NEW m \in issued, NEW size, ReportDelete(m, size)
          PROVE  DOMAIN chunkLocations' \subseteq DOMAIN chunkLocations
      BY <2>1 DEF ReportDelete, Restrict
    <2> QED
      BY <2>1 DEF ShortCall, CreateFile, DeleteFile, UpdateMasterMetadata, ReportTruncate, ReportWrite
  <1>3. /\ primary' \in [Handle -> Server \cup {NoServer}] /\ replicas' \in [Handle -> SUBSET Server]
        /\ \A c \in DOMAIN chunkLocations' : primary'[c] = primary[c] /\ replicas'[c] = replicas[c]
    BY <1>1 DEF IInv, TypeOK, PlacementInv, ServerTypeOK
  <1>4. ServerTypeOK' /\ ChosenDistinct'
    BY <1>1, <1>3 DEF PlacementInv, ServerTypeOK, ChosenDistinct
  <1>5. FreshUnplaced'
    BY <1>1 DEF PlacementInv, FreshUnplaced
  <1>6. ASSUME NEW c \in DOMAIN chunkLocations', primary'[c] # NoServer PROVE Supported(c)'
    <2>1. c \in Handle /\ Supported(c)
      BY <1>2, <1>3, <1>6 DEF IInv, TypeOK, PlacementInv, PlacedSupported
    <2> QED
      BY <1>1, <1>3, <2>1, SupportKept
  <1> QED
    BY <1>4, <1>5, <1>6 DEF PlacementInv, PlacedSupported

LEMMA ServersComeAndGo ==
  ASSUME IInv, IInv', PlacementInv, NEW s \in Server, Leave(s) \/ Join(s)
  PROVE  PlacementInv'
  <1>1. /\ UNCHANGED <<running, placement, call, chunkid, chunkLocations>>
        /\ available' \subseteq Server
    BY DEF Leave, Join, vars, PlacementInv, ServerTypeOK
  <1>2. ServerTypeOK' /\ ChosenDistinct'
    BY <1>1 DEF PlacementInv, ServerTypeOK, ChosenDistinct, placement
  <1>3. chunkid \in Nat
    BY MetadataAssumption DEF IInv, TypeOK
  <1> QED
    BY <1>1, <1>2, <1>3, QuietStep

LEMMA NextPlacement == IInv /\ IInv' /\ PlacementInv /\ [ServerNext]_serverVars => PlacementInv'
  <1> SUFFICES ASSUME IInv, IInv', PlacementInv, [ServerNext]_serverVars PROVE PlacementInv'
    OBVIOUS
  <1>0. ASSUME NEW h \in Handler, NEW p \in Path, NEW offset \in Nat, NEW end \in Nat, offset < end,
               p \in DOMAIN files, GrowTo(p, end),
               Begins(h, "lookup", Touched(files'[p].chunks, offset, end))
        PROVE  PlacementInv'
    <2>1. /\ Touched(files'[p].chunks, offset, end) \in Seq(Handle)
          /\ Touched(files'[p].chunks, offset, end) # << >>
      BY <1>0, TouchedProperties
    <2>2. \E n \in Nat : IssueHandles(p, n)
      <3> DEFINE s == files[p].chunks
                 n == IF ChunkCount(end) > Len(s) THEN ChunkCount(end) - Len(s) ELSE 0
      <3>1. ChunkCount(end) \in Int
        <4>1. (end - 1) \div ChunkSize \in Nat
          BY <1>0, DivMonotone, MetadataAssumption
        <4> QED
          BY <4>1 DEF ChunkCount
      <3>2. s \in Seq(Handle)
        BY <1>0 DEF IInv, TypeOK
      <3>3. Len(s) \in Nat
        BY <3>2, LenProperties
      <3>4. IssueHandles(p, n)
        BY <1>0 DEF GrowTo
      <3> HIDE DEF s
      <3>5. n \in Nat
        BY <3>1, <3>3
      <3> QED
        BY <3>4, <3>5
    <2>3. PICK n \in Nat : IssueHandles(p, n)
      BY <2>2
    <2>4. Begins(h, "lookup", Touched(files'[p].chunks, offset, end))
      BY <1>0
    <2> DEFINE handles == Touched(files'[p].chunks, offset, end)
    <2> HIDE DEF handles
    <2>5. handles \in Seq(Handle) /\ handles # << >> /\ Begins(h, "lookup", handles)
      BY <2>1, <2>4 DEF handles
    <2> QED
      BY <2>3, <2>5, BeginStep DEF IssueHandles
  <1>1. ASSUME NEW h \in Handler, NEW p \in Path, NEW offset \in 0 .. MaxLen - 1,
               NEW length \in 1 .. MaxLen - offset, BeginWrite(h, p, offset, length)
        PROVE  PlacementInv'
    <2>1. offset \in Nat /\ offset + length \in Nat /\ offset < offset + length
      BY MetadataAssumption
    <2> QED
      BY <1>0, <1>1, <2>1 DEF BeginWrite, WriteFile
  <1>2. ASSUME NEW h \in Handler, NEW p \in Path, NEW length \in 1 .. MaxLen, BeginAppend(h, p, length)
        PROVE  PlacementInv'
    <2>1. p \in DOMAIN files
      BY <1>2 DEF BeginAppend, AppendFile
    <2>2. files[p].size \in Nat
      BY <2>1, MetadataAssumption DEF IInv, TypeOK
    <2>3. files[p].size + length \in Nat /\ files[p].size < files[p].size + length
      BY <2>2, MetadataAssumption
    <2> QED
      BY <1>0, <1>2, <2>1, <2>2, <2>3 DEF BeginAppend, AppendFile
  <1>3. ASSUME NEW h \in Handler, NEW p \in Path, NEW index \in 0 .. MaxHandle, BeginAllocate(h, p, index)
        PROVE  PlacementInv'
    <2>1. IssueHandles(p, 1) /\ Begins(h, "choose", <<chunkid'>>)
      BY <1>3 DEF BeginAllocate, AllocateChunk
    <2>2. chunkid' \in Handle
      BY <2>1, MetadataAssumption DEF IssueHandles, IInv, TypeOK, Handle
    <2> DEFINE handles == <<chunkid'>>
    <2>3. handles \in Seq(Handle) /\ handles # << >> /\ Begins(h, "choose", handles)
      BY <2>1, <2>2
    <2> HIDE DEF handles
    <2> QED
      <3>1. /\ chunkid' = chunkid + 1
            /\ DOMAIN chunkLocations' = DOMAIN chunkLocations \cup (chunkid + 1 .. chunkid + 1)
        BY <2>1 DEF IssueHandles
      <3> QED
        BY <2>3, <3>1, BeginStep
  <1>3a. ASSUME NEW h \in Handler, NEW c \in Handle, BeginLocate(h, c) PROVE PlacementInv'
    <2>1. chunkid \in Nat /\ chunkid' = chunkid + 0 /\ chunkLocations' = chunkLocations
      BY <1>3a, MetadataAssumption DEF BeginLocate, vars, IInv, TypeOK
    <2>2. DOMAIN chunkLocations' = DOMAIN chunkLocations \cup (chunkid + 1 .. chunkid + 0)
      <3>1. ASSUME NEW i \in chunkid + 1 .. chunkid + 0 PROVE FALSE
        BY <2>1
      <3> QED
        BY <2>1, <3>1
    <2> DEFINE handles == <<c>>
    <2>3. handles \in Seq(Handle) /\ handles # << >> /\ Begins(h, "locate", handles)
      BY <1>3a DEF BeginLocate
    <2> HIDE DEF handles
    <2> QED
      BY <2>1, <2>2, <2>3, BeginStep
  <1>4. ASSUME NEW h \in Handler, HandlerStep(h) PROVE PlacementInv'
    BY <1>4, LookupStep, ChooseStep, PlaceStep, LocateStep DEF HandlerStep
  <1>5. ASSUME NEW s \in Server, Leave(s) \/ Join(s) PROVE PlacementInv'
    BY <1>5, ServersComeAndGo
  <1>6. CASE ShortCall
    BY <1>6, ShortCallStep
  <1>7. CASE UNCHANGED serverVars
    <2>1. ServerTypeOK' /\ ChosenDistinct'
      BY <1>7 DEF serverVars, placement, PlacementInv, ServerTypeOK, ChosenDistinct
    <2>2. UNCHANGED placement /\ chunkid' = chunkid /\ chunkLocations' = chunkLocations /\ call' = call
      BY <1>7 DEF serverVars, vars
    <2>3. chunkid \in Nat
      BY MetadataAssumption DEF IInv, TypeOK
    <2> QED
      BY <2>1, <2>2, <2>3, QuietStep
  <1> QED
    BY <1>1, <1>2, <1>3, <1>4, <1>5, <1>6, <1>7, <1>3a DEF ServerNext

-----------------------------------------------------------------------------
(***************************************************************************)
(* What follows of the running Master.                                     *)
(***************************************************************************)
LEMMA PlacementKept == ServerSpec => []PlacementInv
  <1>1. ServerInit => PlacementInv
    BY InitPlacement
  <1>2. IInv /\ IInv' /\ PlacementInv /\ [ServerNext]_serverVars => PlacementInv'
    BY NextPlacement
  <1> QED
    BY <1>1, <1>2, StoreKept, PTL DEF ServerSpec

\* The calls and the chunk table are well formed in every reachable state: a handler
\* that goes on to another chunk has one left, and it holds servers to enter
\* exactly while it places.
THEOREM ServerTypeCorrect == ServerSpec => []ServerTypeOK
  <1>1. PlacementInv => ServerTypeOK
    BY DEF PlacementInv
  <1> QED
    BY <1>1, PlacementKept, PTL

LEMMA ThreeDifferent ==
  ASSUME NEW a, NEW b, NEW d, a # b, b # d, a # d
  PROVE  Cardinality({a, b, d}) = 3
  <1> DEFINE two == {a} \cup {b}
  <1>1. IsFiniteSet({a}) /\ Cardinality({a}) = 1 /\ b \notin {a}
    BY FS_Singleton
  <1>2. IsFiniteSet(two) /\ Cardinality(two) = Cardinality({a}) + 1
    BY <1>1, FS_AddElement
  <1>3. d \notin two /\ two \cup {d} = {a, b, d}
    OBVIOUS
  <1> HIDE DEF two
  <1>4. Cardinality(two \cup {d}) = Cardinality(two) + 1
    BY <1>2, <1>3, FS_AddElement
  <1> QED
    BY <1>1, <1>2, <1>3, <1>4

\* A placed chunk that no handler is placing has three servers at least, for any
\* number of handlers that place the same chunk at once.
THEOREM PlacedChunksHaveThree == ServerSpec => []PlacedOnThree
  <1>1. PlacementInv /\ IInv => PlacedOnThree
    <2> SUFFICES ASSUME PlacementInv, IInv, NEW c \in DOMAIN chunkLocations, primary[c] # NoServer,
                        \A h \in Handler : ~Placing(h, c)
                 PROVE  Cardinality(Servers(c)) >= Copies
      BY DEF PlacedOnThree
    <2>1. PICK b \in Server, d \in Server :
            b # d /\ b # primary[c] /\ d # primary[c] /\ {b, d} \subseteq replicas[c]
      BY DEF PlacementInv, PlacedSupported, Supported, StillEnters
    <2> DEFINE a == primary[c]
    <2>2. Servers(c) \subseteq Server /\ {a, b, d} \subseteq Servers(c)
      BY <2>1 DEF Servers, PlacementInv, ServerTypeOK, IInv, TypeOK
    <2>3. IsFiniteSet(Servers(c))
      BY <2>2, ServerAssumption, FS_Subset
    <2> HIDE DEF a
    <2>4. b # d /\ b # a /\ d # a
      BY <2>1 DEF a
    <2>5. Cardinality({a, b, d}) = 3
      BY <2>4, ThreeDifferent
    <2>6. Cardinality({a, b, d}) <= Cardinality(Servers(c)) /\ Cardinality(Servers(c)) \in Nat
      BY <2>2, <2>3, FS_Subset, FS_CardinalityType
    <2> QED
      BY <2>5, <2>6 DEF Copies
  <1> QED
    BY <1>1, PlacementKept, StoreKept, PTL
=============================================================================
