------------------------- MODULE StorageEngineProofs -------------------------
(* What StorageEngine keeps of acknowledged data, proved for every set of    *)
(* keys, values, times to live and concurrent writers.                       *)
EXTENDS StorageEngine, TLAPS

-----------------------------------------------------------------------------
(* Facts about expiry.                                                     *)

LEMMA LiveType ==
    ASSUME NEW m \in Snapshot
    PROVE  Live(m) \in Snapshot
PROOF
  BY DEF Snapshot, Live

LEMMA NoDataType == NoData \in Snapshot
PROOF
  BY DEF NoData, Snapshot

\* Dropping what has expired, at once or entry by entry, drops nothing live.
LEMMA LiveOfLive ==
    ASSUME NEW m \in Snapshot
    PROVE  Live(Live(m)) = Live(m)
PROOF
  BY DEF Snapshot, Live, Expired

LEMMA LiveOfLazyDelete ==
    ASSUME NEW m \in Snapshot, NEW k \in Key, Expired(m[k])
    PROVE  Live([m EXCEPT ![k] = Missing]) = Live(m)
PROOF
  BY DEF Snapshot, Live, Expired

\* Live(m), when the clock shows t.
LiveAt(m, t) ==
    [k \in Key |-> IF m[k] # Missing /\ m[k].ttl # 0 /\ t > m[k].timestamp + m[k].ttl
                   THEN Missing ELSE m[k]]

\* What is equal but for expired entries stays so as time passes.
LEMMA LiveLater ==
    ASSUME NEW a \in Snapshot, NEW b \in Snapshot, NEW t \in Nat, NEW u \in Nat, t <= u,
           LiveAt(a, t) = LiveAt(b, t)
    PROVE  LiveAt(a, u) = LiveAt(b, u)
PROOF
  <1> DEFINE gone(e, n) == e # Missing /\ e.ttl # 0 /\ n > e.timestamp + e.ttl
  <1>1. ASSUME NEW e \in StorageEntry \cup {Missing}, gone(e, t)
        PROVE  gone(e, u)
    <2>1. e.timestamp \in Nat /\ e.ttl \in Nat
      BY <1>1, TtlAssumption DEF StorageEntry
    <2> QED
      BY <1>1, <2>1
  <1>2. ASSUME NEW k \in Key
        PROVE  (IF gone(a[k], u) THEN Missing ELSE a[k]) = (IF gone(b[k], u) THEN Missing ELSE b[k])
    <2>1. a[k] \in StorageEntry \cup {Missing} /\ b[k] \in StorageEntry \cup {Missing}
      BY DEF Snapshot
    <2>2. (IF gone(a[k], t) THEN Missing ELSE a[k]) = (IF gone(b[k], t) THEN Missing ELSE b[k])
      BY DEF LiveAt
    <2>3. ~gone(Missing, u)
      OBVIOUS
    <2> HIDE DEF gone
    <2> QED
      BY <1>1, <2>1, <2>2, <2>3
  <1> QED
    BY <1>2 DEF LiveAt

-----------------------------------------------------------------------------
(* Type correctness.                                                       *)

LEMMA TypeInit == Init => TypeOK
PROOF
  BY NoDataType DEF Init, TypeOK, File, NoWriter

LEMMA MutateType ==
    ASSUME TypeOK, NEW w \in Writer, NEW m \in Snapshot, PersistData(w, m)
    PROVE  writer' \in [Writer -> [state : {"idle", "queued", "opened"},
                                   snap : Snapshot, alone : BOOLEAN]]
PROOF
  <1>1. Quiet \in BOOLEAN
    BY DEF Quiet
  <1> QED
    BY <1>1 DEF TypeOK, PersistData

LEMMA RequestType ==
    ASSUME TypeOK, NEW w \in Writer, Request(w)
    PROVE  TypeOK'
PROOF
  <1>1. ASSUME NEW m \in Snapshot, Mutate(w, m)
        PROVE  TypeOK'
    BY <1>1, MutateType DEF TypeOK, Mutate
  <1>2. CASE \E k \in Key, v \in Value, t \in Ttl : Set(w, k, v, t)
    <2>1. PICK k \in Key, v \in Value, t \in Ttl : Set(w, k, v, t)
      BY <1>2
    <2>2. [memory EXCEPT ![k] = [value |-> v, timestamp |-> clock, ttl |-> t]] \in Snapshot
      BY DEF TypeOK, Snapshot, StorageEntry
    <2> QED
      BY <1>1, <2>1, <2>2 DEF Set
  <1>3. CASE \E k \in Key : Delete(w, k)
    <2>1. PICK k \in Key : Delete(w, k)
      BY <1>3
    <2>2. [memory EXCEPT ![k] = Missing] \in Snapshot
      BY DEF TypeOK, Snapshot
    <2> QED
      BY <1>1, <2>1, <2>2 DEF Delete
  <1>4. CASE Clear(w)
    BY <1>1, <1>4, NoDataType DEF Clear
  <1>5. CASE Close(w)
    BY <1>5, MutateType DEF TypeOK, Close
  <1> QED
    BY <1>2, <1>3, <1>4, <1>5 DEF Request

LEMMA TypeNext == TypeOK /\ [Next]_vars => TypeOK'
PROOF
  <1> SUFFICES ASSUME TypeOK, [Next]_vars
               PROVE  TypeOK'
    OBVIOUS
  <1>1. CASE UNCHANGED vars
    BY <1>1 DEF TypeOK, vars
  <1>2. CASE Load
    BY <1>2, LiveType DEF TypeOK, Load
  <1>3. CASE FinishInitialize
    BY <1>3 DEF TypeOK, FinishInitialize
  <1>4. ASSUME NEW w \in Writer, OpenFile(w)
        PROVE  TypeOK'
    BY <1>4, NoDataType DEF TypeOK, OpenFile, File
  <1>5. ASSUME NEW w \in Writer, WriteFile(w)
        PROVE  TypeOK'
    <2>1. dataFile' \in [kind : {"absent", "empty", "garbled", "json"}, data : Snapshot]
      BY <1>5, NoDataType DEF TypeOK, WriteFile, Overlay, File
    <2> QED
      BY <1>5, <2>1, NoDataType DEF TypeOK, WriteFile, NoWriter
  <1>6. ASSUME NEW w \in Writer, WriteFails(w)
        PROVE  TypeOK'
    BY <1>6, NoDataType DEF TypeOK, WriteFails, NoWriter
  <1>7. ASSUME NEW k \in Key, ReadKey(k)
        PROVE  TypeOK'
    BY <1>7 DEF TypeOK, ReadKey, Snapshot
  <1>8. CASE ReadAll
    BY <1>8, LiveType DEF TypeOK, ReadAll
  <1>9. CASE Exit \/ Crash
    <2>1. /\ phase' = "down" /\ memory' = NoData /\ closer' = {}
          /\ writer' = [w \in Writer |-> NoWriter]
          /\ UNCHANGED <<clock, dataFile, acked>>
      BY <1>9 DEF Exit, Crash, Kill
    <2>2. clean' = (clean /\ Quiet)
      BY <1>9 DEF Exit, Crash, Kill
    <2>3. clean' \in BOOLEAN
      BY <2>2
    <2> QED
      BY <2>1, <2>3, NoDataType DEF TypeOK, NoWriter
  <1>10. CASE Tick
    BY <1>10 DEF TypeOK, Tick
  <1> QED
    BY <1>1, <1>2, <1>3, <1>4, <1>5, <1>6, <1>7, <1>8, <1>9, <1>10, RequestType
       DEF Next, EngineStep

\* Every reachable state of an engine and its file is well typed.
THEOREM TypeCorrect == Spec => []TypeOK
PROOF
  BY TypeInit, TypeNext, PTL DEF Spec

-----------------------------------------------------------------------------
(* The file and the map.                                                   *)

\* What the engine read or acknowledged is in memory from loadData on.
LoadedIsAcknowledged == phase = "loading" => Live(memory) = Live(acked)

DiskInv ==
    /\ TypeOK
    /\ MemoryIsAcknowledged
    /\ LoadedIsAcknowledged
    /\ SettledDiskIsCurrent
    /\ SoloWriterOwnsFile

LEMMA DiskInit == Init => DiskInv
PROOF
  <1> SUFFICES ASSUME Init PROVE DiskInv
    OBVIOUS
  <1>1. \A w \in Writer : ~InFlight(w)
    BY DEF Init, InFlight, NoWriter
  <1>2. SoloWriterOwnsFile
    BY <1>1 DEF Init, SoloWriterOwnsFile
  <1>3. SettledDiskIsCurrent
    BY DEF Init, SettledDiskIsCurrent, File
  <1> QED
    BY <1>2, <1>3, TypeInit
       DEF Init, DiskInv, MemoryIsAcknowledged, LoadedIsAcknowledged, IsInitialized

\* A request that acknowledges m starts a writer that carries m: nothing is
\* settled until it has finished.
LEMMA PersistKeeps ==
    ASSUME DiskInv, TypeOK', IsInitialized, IsInitialized', NEW w \in Writer, NEW m \in Snapshot,
           PersistData(w, m), acked' \in Snapshot, Live(m) = Live(acked)', clock' = clock,
           dataFile' = dataFile, Live(memory)' = Live(acked)',
           \/ closer' = closer /\ phase' = phase
           \/ closer = {} /\ closer' = {w} /\ phase' = "closing"
    PROVE  DiskInv'
PROOF
  <1>1. /\ ~InFlight(w)
        /\ writer' = [x \in Writer |->
               IF x = w THEN [state |-> "queued", snap |-> m, alone |-> Quiet]
               ELSE IF InFlight(x) THEN [writer[x] EXCEPT !.alone = FALSE]
               ELSE writer[x]]
    BY DEF PersistData
  <1>2. /\ writer'[w].state = "queued" /\ writer'[w].snap = m /\ (writer'[w].alone <=> Quiet)
        /\ InFlight(w)'
    BY <1>1 DEF InFlight
  <1>3. ASSUME NEW x \in Writer, x # w
        PROVE  /\ InFlight(x)' <=> InFlight(x)
               /\ InFlight(x)' => writer'[x].alone = FALSE
    BY <1>1, <1>3 DEF InFlight, DiskInv, TypeOK
  <1>4. Live(m)' = Live(m)
    BY DEF Live, Expired
  <1>5. ~Quiet'
    BY <1>2 DEF Quiet
  <1>6. \A x \in closer' : InFlight(x)' /\ closer' = {x} /\ phase' = "closing"
    BY <1>2, <1>3 DEF DiskInv, SoloWriterOwnsFile, TypeOK
  <1>7. ASSUME NEW x \in Writer, InFlight(x)', writer'[x].alone
        PROVE  /\ x = w
               /\ Quiet
    BY <1>2, <1>3, <1>7
  <1>8. Quiet => \A y \in Writer : InFlight(y)' => y = w
    BY <1>3 DEF Quiet
  <1>9. SoloWriterOwnsFile'
    BY <1>2, <1>4, <1>6, <1>7, <1>8 DEF SoloWriterOwnsFile
  <1> QED
    BY <1>5, <1>9 DEF DiskInv, SettledDiskIsCurrent, MemoryIsAcknowledged,
                      LoadedIsAcknowledged, IsInitialized

LEMMA RequestKeeps ==
    ASSUME DiskInv, TypeOK', NEW w \in Writer, Request(w)
    PROVE  DiskInv'
PROOF
  <1>1. ASSUME NEW m \in Snapshot, IsInitialized, Mutate(w, m)
        PROVE  DiskInv'
    <2>1. /\ memory' = m /\ acked' = m /\ PersistData(w, m)
          /\ UNCHANGED <<clock, phase, dataFile, closer>>
      BY <1>1 DEF Mutate
    <2>2. Live(m) = Live(acked)' /\ Live(memory)' = Live(acked)'
      BY <2>1 DEF Live, Expired
    <2> QED
      BY <1>1, <2>1, <2>2, PersistKeeps DEF IsInitialized
  <1>2. CASE \E k \in Key, v \in Value, t \in Ttl : Set(w, k, v, t)
    <2>1. PICK k \in Key, v \in Value, t \in Ttl : Set(w, k, v, t)
      BY <1>2
    <2>2. [memory EXCEPT ![k] = [value |-> v, timestamp |-> clock, ttl |-> t]] \in Snapshot
      BY DEF DiskInv, TypeOK, Snapshot, StorageEntry
    <2> QED
      BY <1>1, <2>1, <2>2 DEF Set
  <1>3. CASE \E k \in Key : Delete(w, k)
    <2>1. PICK k \in Key : Delete(w, k)
      BY <1>3
    <2>2. [memory EXCEPT ![k] = Missing] \in Snapshot
      BY DEF DiskInv, TypeOK, Snapshot
    <2> QED
      BY <1>1, <2>1, <2>2 DEF Delete
  <1>4. CASE Clear(w)
    BY <1>1, <1>4, NoDataType DEF Clear
  <1>5. CASE Close(w)
    <2>1. /\ phase = "ready" /\ phase' = "closing" /\ closer' = {w} /\ PersistData(w, memory)
          /\ UNCHANGED <<memory, clock, dataFile, acked>>
      BY <1>5 DEF Close
    <2>2. closer = {}
      BY <2>1 DEF DiskInv, SoloWriterOwnsFile
    <2>3. memory \in Snapshot /\ acked' \in Snapshot
      BY <2>1 DEF DiskInv, TypeOK
    <2>4. Live(memory) = Live(acked)
      BY <2>1 DEF DiskInv, MemoryIsAcknowledged, IsInitialized
    <2>5. Live(memory) = Live(acked)' /\ Live(memory)' = Live(acked)'
      BY <2>1, <2>4 DEF Live, Expired
    <2> QED
      BY <2>1, <2>2, <2>3, <2>5, PersistKeeps DEF IsInitialized
  <1> QED
    BY <1>2, <1>3, <1>4, <1>5 DEF Request

LEMMA LoadKeeps ==
    ASSUME DiskInv, TypeOK', Load
    PROVE  DiskInv'
PROOF
  <1>1. ~IsInitialized /\ ~IsInitialized' /\ UNCHANGED <<clock, dataFile, writer, closer, clean>>
    BY DEF Load, IsInitialized
  <1>2. \A w \in Writer : InFlight(w)' <=> InFlight(w)
    BY <1>1 DEF InFlight
  <1>3. SoloWriterOwnsFile'
    BY <1>1, <1>2 DEF DiskInv, SoloWriterOwnsFile, Load
  <1>4. CASE phase' = "loading"
    <2>1. memory' = Live(dataFile.data) /\ acked' = memory' /\ dataFile.kind \in {"absent", "json"}
      BY <1>4 DEF Load
    <2>2. dataFile.data \in Snapshot
      BY DEF DiskInv, TypeOK
    <2>3. Live(acked)' = Live(dataFile.data)
      <3>1. Live(acked)' = Live(Live(dataFile.data))
        BY <1>1, <2>1 DEF Live, Expired
      <3> QED
        BY <2>2, <3>1, LiveOfLive
    <2>4. Live(dataFile.data)' = Live(dataFile.data)
      BY <1>1 DEF Live, Expired
    <2>5. SettledDiskIsCurrent'
      BY <1>1, <2>1, <2>3, <2>4 DEF SettledDiskIsCurrent
    <2>6. LoadedIsAcknowledged'
      BY <2>1 DEF LoadedIsAcknowledged, Live, Expired
    <2> QED
      BY <1>1, <1>3, <2>5, <2>6 DEF DiskInv, MemoryIsAcknowledged
  <1>5. CASE phase' # "loading"
    <2>1. phase' = "failed" /\ acked' = acked
      BY <1>5 DEF Load
    <2>2. Quiet' <=> Quiet
      BY <1>2 DEF Quiet
    <2>3. Live(acked)' = Live(acked) /\ Live(dataFile.data)' = Live(dataFile.data)
      BY <1>1, <2>1 DEF Live, Expired
    <2>4. SettledDiskIsCurrent'
      BY <1>1, <2>2, <2>3 DEF DiskInv, SettledDiskIsCurrent
    <2> QED
      BY <1>1, <1>3, <1>5, <2>4 DEF DiskInv, MemoryIsAcknowledged, LoadedIsAcknowledged
  <1> QED
    BY <1>4, <1>5

\* A read changes the map by entries that are expired.
LEMMA ReadKeeps ==
    ASSUME DiskInv, TypeOK', IsInitialized, Live(memory') = Live(memory),
           UNCHANGED <<clock, phase, dataFile, writer, closer, acked, clean>>
    PROVE  DiskInv'
PROOF
  <1>1. Live(memory)' = Live(memory) /\ Live(acked)' = Live(acked)
        /\ Live(dataFile.data)' = Live(dataFile.data)
    BY DEF Live, Expired
  <1>2. \A w \in Writer : (InFlight(w)' <=> InFlight(w)) /\ Live(writer[w].snap)' = Live(writer[w].snap)
    BY DEF InFlight, Live, Expired
  <1>3. Quiet' <=> Quiet
    BY <1>2 DEF Quiet
  <1>4. SoloWriterOwnsFile'
    <2>1. ASSUME NEW w \in Writer, InFlight(w)', writer'[w].alone
          PROVE  /\ \A x \in Writer : InFlight(x)' => x = w
                 /\ Live(writer[w].snap)' = Live(acked)'
                 /\ writer'[w].state = "opened" => dataFile' = File("empty", NoData)
                 /\ IsInitialized'
      BY <1>1, <1>2, <2>1 DEF DiskInv, SoloWriterOwnsFile, IsInitialized
    <2>2. \A w \in closer' : InFlight(w)' /\ closer' = {w} /\ phase' = "closing"
      BY <1>2 DEF DiskInv, SoloWriterOwnsFile, TypeOK
    <2>3. NoData' = NoData
      BY DEF NoData
    <2> QED
      BY <2>1, <2>2, <2>3 DEF SoloWriterOwnsFile, File
  <1>5. SettledDiskIsCurrent'
    BY <1>1, <1>3 DEF DiskInv, SettledDiskIsCurrent
  <1> QED
    BY <1>1, <1>4, <1>5 DEF DiskInv, MemoryIsAcknowledged, LoadedIsAcknowledged, IsInitialized

LEMMA OpenKeeps ==
    ASSUME DiskInv, TypeOK', NEW w \in Writer, OpenFile(w)
    PROVE  DiskInv'
PROOF
  <1>1. /\ writer[w].state = "queued"
        /\ writer' = [writer EXCEPT ![w].state = "opened"]
        /\ dataFile' = File("empty", NoData)
        /\ UNCHANGED <<memory, clock, phase, closer, acked, clean>>
    BY DEF OpenFile
  <1>2. \A x \in Writer : /\ InFlight(x)' <=> InFlight(x)
                          /\ writer'[x].snap = writer[x].snap
                          /\ writer'[x].alone = writer[x].alone
                          /\ x # w => writer'[x] = writer[x]
    BY <1>1 DEF InFlight, DiskInv, TypeOK
  <1>3. InFlight(w)
    BY <1>1 DEF InFlight
  <1>4. ~Quiet'
    BY <1>2, <1>3 DEF Quiet
  <1>5. Live(acked)' = Live(acked) /\ Live(memory)' = Live(memory)
        /\ \A x \in Writer : Live(writer[x].snap)' = Live(writer[x].snap)
    BY <1>1, <1>2 DEF Live, Expired
  <1>6. ASSUME NEW x \in Writer, InFlight(x)', writer'[x].alone
        PROVE  /\ \A y \in Writer : InFlight(y)' => y = x
               /\ Live(writer[x].snap)' = Live(acked)'
               /\ writer'[x].state = "opened" => dataFile' = File("empty", NoData)
               /\ IsInitialized'
    <2>1. \A y \in Writer : InFlight(y)' => y = x
      BY <1>2, <1>6 DEF DiskInv, SoloWriterOwnsFile
    <2>2. Live(writer[x].snap) = Live(acked) /\ IsInitialized
      BY <1>2, <1>6 DEF DiskInv, SoloWriterOwnsFile
    <2> QED
      BY <1>1, <1>5, <2>1, <2>2 DEF IsInitialized
  <1>7. \A x \in closer' : InFlight(x)' /\ closer' = {x} /\ phase' = "closing"
    BY <1>1, <1>2 DEF DiskInv, SoloWriterOwnsFile, TypeOK
  <1>8. NoData' = NoData
    BY DEF NoData
  <1>9. SoloWriterOwnsFile'
    BY <1>6, <1>7, <1>8 DEF SoloWriterOwnsFile, File
  <1> QED
    BY <1>1, <1>4, <1>5, <1>9 DEF DiskInv, SettledDiskIsCurrent, MemoryIsAcknowledged,
                                  LoadedIsAcknowledged, IsInitialized

\* A writer that leaves, having written or failed.
LEMMA LeaveKeeps ==
    ASSUME DiskInv, TypeOK', NEW w \in Writer, InFlight(w),
           writer' = [writer EXCEPT ![w] = NoWriter], closer' = closer \ {w},
           UNCHANGED <<clock, acked>>,
           IF w \in closer THEN phase' = "closed" \/ (phase' = "ready" /\ memory' = memory)
                           ELSE UNCHANGED <<phase, memory>>,
           clean' => writer[w].alone,
           writer[w].alone /\ clean' => dataFile' = File("json", writer[w].snap)
    PROVE  DiskInv'
PROOF
  <1>1. \A x \in Writer : /\ x # w => writer'[x] = writer[x] /\ (InFlight(x)' <=> InFlight(x))
                          /\ ~InFlight(w)'
    BY DEF InFlight, DiskInv, TypeOK, NoWriter
  <1>2. Live(acked)' = Live(acked) /\ \A x \in Writer : Live(writer[x].snap)' = Live(writer[x].snap)
                                         \/ x = w
    BY <1>1 DEF Live, Expired
  <1>3. \A x \in Writer : InFlight(x)' => ~writer'[x].alone
    <2>1. ASSUME NEW x \in Writer, InFlight(x)', writer'[x].alone
          PROVE  FALSE
      BY <1>1, <2>1 DEF DiskInv, SoloWriterOwnsFile
    <2> QED
      BY <2>1
  <1>4. \A x \in closer' : InFlight(x)' /\ closer' = {x} /\ phase' = "closing"
    <2>1. CASE w \in closer
      BY <2>1 DEF DiskInv, SoloWriterOwnsFile
    <2>2. CASE w \notin closer
      <3>1. closer' = closer /\ phase' = phase
        BY <2>2
      <3> QED
        BY <1>1, <2>2, <3>1 DEF DiskInv, SoloWriterOwnsFile, TypeOK
    <2> QED
      BY <2>1, <2>2
  <1>5. SoloWriterOwnsFile'
    BY <1>3, <1>4 DEF SoloWriterOwnsFile
  <1>6. SettledDiskIsCurrent'
    <2> SUFFICES ASSUME clean', Quiet'
                 PROVE  /\ dataFile'.kind \in {"absent", "json"}
                        /\ Live(dataFile.data)' = Live(acked)'
      BY DEF SettledDiskIsCurrent
    <2>1. dataFile' = File("json", writer[w].snap) /\ Live(writer[w].snap) = Live(acked)
      BY DEF DiskInv, SoloWriterOwnsFile
    <2>2. dataFile'.kind = "json" /\ dataFile'.data = writer[w].snap
      BY <2>1 DEF File
    <2>3. Live(dataFile.data)' = Live(writer[w].snap)
      BY <2>2 DEF Live, Expired
    <2> QED
      BY <1>2, <2>1, <2>2, <2>3
  <1>7. MemoryIsAcknowledged' /\ LoadedIsAcknowledged'
    <2>1. CASE UNCHANGED memory /\ phase' \in {phase, "ready"}
      <3>1. Live(memory)' = Live(memory)
        BY <2>1 DEF Live, Expired
      <3>2. w \in closer => phase = "closing"
        BY DEF DiskInv, SoloWriterOwnsFile
      <3>3. phase' = phase \/ IsInitialized
        BY <2>1, <3>2 DEF IsInitialized
      <3> QED
        BY <1>2, <2>1, <3>1, <3>3 DEF DiskInv, MemoryIsAcknowledged, LoadedIsAcknowledged, IsInitialized
    <2>2. CASE phase' = "closed"
      <3>1. ~IsInitialized' /\ phase' # "loading"
        BY <2>2 DEF IsInitialized
      <3> QED
        BY <3>1 DEF MemoryIsAcknowledged, LoadedIsAcknowledged
    <2> QED
      BY <2>1, <2>2
  <1> QED
    BY <1>5, <1>6, <1>7 DEF DiskInv

LEMMA KillKeeps ==
    ASSUME DiskInv, TypeOK', Kill
    PROVE  DiskInv'
PROOF
  <1>1. /\ phase' = "down" /\ closer' = {} /\ (clean' => clean /\ Quiet)
        /\ writer' = [w \in Writer |-> NoWriter]
        /\ UNCHANGED <<clock, dataFile, acked>>
    BY DEF Kill
  <1>2. \A w \in Writer : ~InFlight(w)'
    BY <1>1 DEF InFlight, NoWriter
  <1>3. SoloWriterOwnsFile'
    BY <1>1, <1>2 DEF SoloWriterOwnsFile
  <1>4. Live(acked)' = Live(acked) /\ Live(dataFile.data)' = Live(dataFile.data)
    BY <1>1 DEF Live, Expired
  <1>5. SettledDiskIsCurrent'
    BY <1>1, <1>4 DEF DiskInv, SettledDiskIsCurrent
  <1> QED
    BY <1>1, <1>3, <1>5 DEF DiskInv, MemoryIsAcknowledged, LoadedIsAcknowledged, IsInitialized

LEMMA TickKeeps ==
    ASSUME DiskInv, TypeOK', Tick
    PROVE  DiskInv'
PROOF
  <1>1. /\ clock \in Nat /\ clock' \in Nat /\ clock <= clock'
        /\ UNCHANGED <<memory, phase, dataFile, writer, closer, acked, clean>>
    BY DEF Tick, DiskInv, TypeOK
  <1>2. /\ memory \in Snapshot /\ acked \in Snapshot /\ dataFile.data \in Snapshot
        /\ \A w \in Writer : writer[w].snap \in Snapshot
    BY DEF DiskInv, TypeOK
  <1>3. \A w \in Writer : InFlight(w)' <=> InFlight(w)
    BY <1>1 DEF InFlight
  <1>4. /\ \A m : Live(m) = LiveAt(m, clock)
        /\ Live(memory)' = LiveAt(memory, clock')
        /\ Live(acked)' = LiveAt(acked, clock')
        /\ Live(dataFile.data)' = LiveAt(dataFile.data, clock')
        /\ \A w \in Writer : Live(writer[w].snap)' = LiveAt(writer[w].snap, clock')
    BY <1>1 DEF Live, Expired, LiveAt
  <1>5. \A a, b \in Snapshot : LiveAt(a, clock) = LiveAt(b, clock) => LiveAt(a, clock') = LiveAt(b, clock')
    BY <1>1, LiveLater
  <1>6. MemoryIsAcknowledged' /\ LoadedIsAcknowledged'
    BY <1>1, <1>2, <1>4, <1>5 DEF DiskInv, MemoryIsAcknowledged, LoadedIsAcknowledged, IsInitialized
  <1>7. SettledDiskIsCurrent'
    <2>1. Quiet' <=> Quiet
      BY <1>3 DEF Quiet
    <2> QED
      BY <1>1, <1>2, <1>4, <1>5, <2>1 DEF DiskInv, SettledDiskIsCurrent
  <1>8. NoData' = NoData
    BY DEF NoData
  <1>9. ASSUME NEW w \in Writer, InFlight(w)', writer'[w].alone
        PROVE  /\ \A x \in Writer : InFlight(x)' => x = w
               /\ Live(writer[w].snap)' = Live(acked)'
               /\ writer'[w].state = "opened" => dataFile' = File("empty", NoData)
               /\ IsInitialized'
    BY <1>1, <1>2, <1>3, <1>4, <1>5, <1>9 DEF DiskInv, SoloWriterOwnsFile, IsInitialized
  <1>10. \A w \in closer' : InFlight(w)' /\ closer' = {w} /\ phase' = "closing"
    BY <1>1, <1>3 DEF DiskInv, SoloWriterOwnsFile, TypeOK
  <1>11. SoloWriterOwnsFile'
    BY <1>8, <1>9, <1>10 DEF SoloWriterOwnsFile, File
  <1> QED
    BY <1>6, <1>7, <1>11 DEF DiskInv

LEMMA FinishKeeps ==
    ASSUME DiskInv, TypeOK', FinishInitialize
    PROVE  DiskInv'
PROOF
  <1>1. /\ phase = "loading" /\ phase' = "ready"
        /\ UNCHANGED <<memory, clock, dataFile, writer, closer, acked, clean>>
    BY DEF FinishInitialize
  <1>2. \A w \in Writer : (InFlight(w)' <=> InFlight(w))
    BY <1>1 DEF InFlight
  <1>3. Live(memory)' = Live(memory) /\ Live(acked)' = Live(acked)
        /\ Live(dataFile.data)' = Live(dataFile.data)
    BY <1>1 DEF Live, Expired
  <1>4. \A w \in Writer : InFlight(w) => ~writer[w].alone
    BY <1>1 DEF DiskInv, SoloWriterOwnsFile, IsInitialized
  <1>5. closer' = {}
    BY <1>1 DEF DiskInv, SoloWriterOwnsFile
  <1>6. SoloWriterOwnsFile'
    BY <1>1, <1>2, <1>4, <1>5 DEF SoloWriterOwnsFile
  <1>7. Quiet' <=> Quiet
    BY <1>2 DEF Quiet
  <1>8. SettledDiskIsCurrent'
    BY <1>1, <1>3, <1>7 DEF DiskInv, SettledDiskIsCurrent
  <1> QED
    BY <1>1, <1>3, <1>6, <1>8 DEF DiskInv, MemoryIsAcknowledged, LoadedIsAcknowledged

LEMMA DiskNext == DiskInv /\ [Next]_vars => DiskInv'
PROOF
  <1> SUFFICES ASSUME DiskInv, [Next]_vars
               PROVE  DiskInv'
    OBVIOUS
  <1>1. TypeOK'
    BY TypeNext DEF DiskInv
  <1>2. memory \in Snapshot
    BY DEF DiskInv, TypeOK
  <1>3. CASE UNCHANGED vars
    BY <1>3 DEF vars, DiskInv, TypeOK, MemoryIsAcknowledged, LoadedIsAcknowledged,
                SettledDiskIsCurrent, SoloWriterOwnsFile, IsInitialized, Quiet, InFlight,
                Live, Expired, File, NoData, Snapshot, StorageEntry
  <1>4. CASE Load
    BY <1>1, <1>4, LoadKeeps
  <1>5. CASE FinishInitialize
    BY <1>1, <1>5, FinishKeeps
  <1>6. ASSUME NEW w \in Writer, OpenFile(w)
        PROVE  DiskInv'
    BY <1>1, <1>6, OpenKeeps
  <1>7. ASSUME NEW w \in Writer, WriteFile(w)
        PROVE  DiskInv'
    <2>1. /\ InFlight(w)
          /\ writer' = [writer EXCEPT ![w] = NoWriter] /\ closer' = closer \ {w}
          /\ UNCHANGED <<clock, acked>> /\ clean' = writer[w].alone
          /\ IF w \in closer THEN phase' = "closed" ELSE UNCHANGED <<phase, memory>>
      BY <1>7 DEF WriteFile, InFlight
    <2>2. writer[w].alone => dataFile' = File("json", writer[w].snap)
      <3>1. writer[w].alone => dataFile = File("empty", NoData)
        BY <1>7, <2>1 DEF WriteFile, DiskInv, SoloWriterOwnsFile
      <3> QED
        BY <1>7, <3>1 DEF WriteFile, Overlay
    <2> QED
      BY <1>1, <2>1, <2>2, LeaveKeeps
  <1>8. ASSUME NEW w \in Writer, WriteFails(w)
        PROVE  DiskInv'
    <2>1. /\ InFlight(w)
          /\ writer' = [writer EXCEPT ![w] = NoWriter] /\ closer' = closer \ {w}
          /\ UNCHANGED <<clock, acked>> /\ clean' = FALSE
          /\ IF w \in closer THEN phase' = "ready" /\ memory' = memory
                             ELSE UNCHANGED <<phase, memory>>
      BY <1>8 DEF WriteFails
    <2> QED
      BY <1>1, <2>1, LeaveKeeps
  <1>9. ASSUME NEW k \in Key, ReadKey(k)
        PROVE  DiskInv'
    <2>1. Live(memory') = Live(memory)
      BY <1>2, <1>9, LiveOfLazyDelete DEF ReadKey
    <2> QED
      BY <1>1, <1>9, <2>1, ReadKeeps DEF ReadKey
  <1>10. CASE ReadAll
    <2>1. Live(memory') = Live(memory)
      BY <1>2, <1>10, LiveOfLive DEF ReadAll
    <2> QED
      BY <1>1, <1>10, <2>1, ReadKeeps DEF ReadAll
  <1>11. CASE Exit \/ Crash
    BY <1>1, <1>11, KillKeeps DEF Exit, Crash
  <1>12. CASE Tick
    BY <1>1, <1>12, TickKeeps
  <1> QED
    BY <1>1, <1>3, <1>4, <1>5, <1>6, <1>7, <1>8, <1>9, <1>10, <1>11, <1>12, RequestKeeps
       DEF Next, EngineStep

\* A file no writer is on, and whose last writer was alone, holds exactly the
\* acknowledged data that has not expired.
THEOREM SettledDisk == Spec => []SettledDiskIsCurrent
PROOF
  <1>1. DiskInv => SettledDiskIsCurrent
    BY DEF DiskInv
  <1> QED
    BY <1>1, DiskInit, DiskNext, PTL DEF Spec

\* Lazy deletes, failed writes and restarts never change what is served.
THEOREM ServesAcknowledged == Spec => []MemoryIsAcknowledged
PROOF
  <1>1. DiskInv => MemoryIsAcknowledged
    BY DEF DiskInv
  <1> QED
    BY <1>1, DiskInit, DiskNext, PTL DEF Spec

\* A restart on a settled file succeeds and recovers all of its data.
THEOREM SettledRestart == Spec => SettledDataSurvivesRestart
PROOF
  <1>1. DiskInv /\ [Next]_vars =>
            [clean /\ Quiet /\ Initializing => InitializesWith(Live(acked))]_vars
    <2> SUFFICES ASSUME DiskInv, Next, clean, Quiet, Initializing
                 PROVE  InitializesWith(Live(acked))
      BY DEF Initializing, vars
    <2>1. Load
      BY DEF Next, EngineStep, Request, Set, Delete, Clear, Close, Mutate, Initializing,
             FinishInitialize, OpenFile, WriteFile, WriteFails, ReadKey, ReadAll, Exit, Crash,
             Kill, Tick
    <2>2. dataFile.kind \in {"absent", "json"} /\ Live(dataFile.data) = Live(acked)
      BY DEF DiskInv, SettledDiskIsCurrent
    <2> QED
      BY <2>1, <2>2 DEF Load, InitializesWith
  <1> QED
    BY <1>1, DiskInit, DiskNext, PTL DEF Spec, SettledDataSurvivesRestart
=============================================================================
