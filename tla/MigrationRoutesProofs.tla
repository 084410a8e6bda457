----------------------- MODULE MigrationRoutesProofs -----------------------
(* What the migration engine keeps right and what its routes tell clients,   *)
(* proved for any number of operations, every size and every chunk size.    *)
(* The theorems of Spec are the engine's, those of RoutesSpec the routes'.  *)
EXTENDS MigrationRoutes, FiniteSetTheorems, TLAPS

-----------------------------------------------------------------------------
(* Arithmetic of the chunk loop.                                           *)

LEMMA QuotientBounds ==
    ASSUME NEW a \in Nat, NEW c \in Nat \ {0}
    PROVE  /\ a \div c \in Nat
           /\ c * (a \div c) <= a
           /\ a < c * (a \div c) + c
PROOF
  BY Z3

LEMMA ProductMonotone ==
    ASSUME NEW a \in Int, NEW b \in Int, NEW c \in Nat \ {0}
    PROVE  /\ a <= b => c * a <= c * b
           /\ c * a < c * b => a < b
PROOF
  BY Z3

LEMMA QuotientMonotone ==
    ASSUME NEW a \in Nat, NEW b \in Nat, NEW c \in Nat \ {0}, a <= b
    PROVE  a \div c <= b \div c
PROOF
  <1>1. c * (a \div c) < c * (b \div c) + c
    BY QuotientBounds
  <1> QED
    BY <1>1, QuotientBounds, ProductMonotone, Z3

\* The loop's bound is the first index whose chunk starts at or after the end.
LEMMA ChunksCoverSize ==
    ASSUME NEW n \in Nat
    PROVE  /\ TotalChunks(n) \in Nat
           /\ TotalChunks(n) = 0 => n = 0
           /\ \A i \in Nat : i < TotalChunks(n) <=> i * ChunkSize < n
PROOF
  <1> DEFINE c == ChunkSize
             t == TotalChunks(n)
  <1>1. c \in Nat \ {0}
    BY SizeAssumption
  <1>2. n + c - 1 \in Nat
    BY <1>1
  <1>3. t \in Nat /\ c * t <= n + c - 1 /\ n + c - 1 < c * t + c
    BY <1>1, <1>2, QuotientBounds DEF TotalChunks
  <1> HIDE DEF c, t
  <1>4. t = 0 => n = 0
    <2>1. t = 0 => c * t = 0
      BY <1>1
    <2> QED
      BY <1>1, <1>3, <2>1
  <1>5. ASSUME NEW i \in Nat, i < t PROVE i * c < n
    <2>1. i <= t - 1
      BY <1>3, <1>5
    <2>2. c * i <= c * (t - 1)
      BY <1>1, <1>3, <2>1, ProductMonotone
    <2>3. c * (t - 1) = c * t - c /\ i * c = c * i
      BY <1>1, <1>3
    <2>4. c * i \in Int /\ c * t \in Int
      BY <1>1, <1>3
    <2> QED
      BY <1>1, <1>3, <2>2, <2>3, <2>4
  <1>6. ASSUME NEW i \in Nat, ~(i < t) PROVE ~(i * c < n)
    <2>1. c * t <= c * i
      BY <1>1, <1>3, <1>6, ProductMonotone
    <2>2. i * c = c * i /\ c * i \in Int /\ c * t \in Int
      BY <1>1, <1>3
    <2> QED
      BY <1>1, <1>3, <2>1, <2>2
  <1> QED
    BY <1>3, <1>4, <1>5, <1>6 DEF c, t

\* The progress of a chunk lies within the transfer's share, and grows.
LEMMA ProgressInRange ==
    ASSUME NEW n \in Nat, NEW i \in Nat, i < TotalChunks(n)
    PROVE  /\ ChunkProgress(i, n) \in 25..75
           /\ ChunkProgress(i, n) <= ChunkProgress(i + 1, n)
PROOF
  <1> DEFINE t == TotalChunks(n)
             q(j) == (j * 50) \div t
  <1>1. t \in Nat \ {0}
    BY ChunksCoverSize
  <1> HIDE DEF t
  <1>2. i * 50 \in Nat /\ (i + 1) * 50 \in Nat /\ i * 50 <= (i + 1) * 50
    OBVIOUS
  <1>3. q(i) \in Nat /\ t * q(i) <= i * 50
    BY <1>1, <1>2, QuotientBounds
  <1>4. q(i) <= q(i + 1) /\ q(i + 1) \in Nat
    BY <1>1, <1>2, QuotientMonotone, QuotientBounds
  <1>5. q(i) < 50
    <2>1. i < t
      BY DEF t
    <2>2. i * 50 < t * 50
      BY <1>1, <2>1
    <2>3. t * q(i) \in Int /\ t * 50 \in Int
      BY <1>1, <1>3
    <2>4. t * q(i) < t * 50
      BY <1>2, <1>3, <2>2, <2>3
    <2> QED
      BY <1>1, <1>3, <2>4, ProductMonotone
  <1> HIDE DEF q
  <1>6. ChunkProgress(i, n) = 25 + q(i) /\ ChunkProgress(i + 1, n) = 25 + q(i + 1)
    BY DEF ChunkProgress, q, t
  <1> QED
    BY <1>3, <1>4, <1>5, <1>6

-----------------------------------------------------------------------------
(* The inductive invariant: what each stage of the work has left behind.   *)

Fixed == [none |-> 0, preparing |-> 0, verifying |-> 75, updating_routing |-> 90,
          cleaning_up |-> 95, completed |-> 100]

\* Outside the transfer the progress is the stage's number; within it, it is
\* no more than the next chunk will report, and the bytes are whole chunks.
WorkSoFar(o) ==
    /\ stage[o] # "transferring" => progress[o] = Fixed[stage[o]]
    /\ stage[o] \in {"none", "preparing"} => dataTransferred[o] = 0 /\ chunk[o] = 0
    /\ stage[o] = "none" => totalDataSize[o] = 0
    /\ stage[o] = "transferring" =>
           /\ chunk[o] < TotalChunks(totalDataSize[o])
           /\ dataTransferred[o] = chunk[o] * ChunkSize
           /\ 25 <= progress[o]
           /\ progress[o] <= ChunkProgress(chunk[o], totalDataSize[o])

MigrationInv ==
    /\ TypeOK
    /\ RoutedOnlyWhole
    /\ RecordMatchesWork
    /\ \A o \in Op : WorkSoFar(o)

\* What the invariant says of one operation.
Sound(o) ==
    /\ status[o] \in InProgress \cup {"none", "completed", "failed", "cancelled"}
    /\ progress[o] \in 0..100
    /\ totalDataSize[o] \in Nat
    /\ dataTransferred[o] \in Nat
    /\ dataTransferred[o] <= totalDataSize[o]
    /\ ended[o] \in BOOLEAN
    /\ stage[o] \in InProgress \cup {"none", "completed"}
    /\ chunk[o] \in Nat
    /\ stage[o] \in {"verifying", "updating_routing", "cleaning_up", "completed"} =>
           dataTransferred[o] = totalDataSize[o]
    /\ status[o] \in {stage[o], "cancelled"}
    /\ stage[o] = "completed" =>
           status[o] = "completed" /\ progress[o] = 100 /\ ended[o]
    /\ WorkSoFar(o)

Functions ==
    /\ isRunning \in BOOLEAN
    /\ status = [o \in Op |-> status[o]]
    /\ progress = [o \in Op |-> progress[o]]
    /\ totalDataSize = [o \in Op |-> totalDataSize[o]]
    /\ dataTransferred = [o \in Op |-> dataTransferred[o]]
    /\ ended = [o \in Op |-> ended[o]]
    /\ stage = [o \in Op |-> stage[o]]
    /\ chunk = [o \in Op |-> chunk[o]]

LEMMA InvByOperation == MigrationInv <=> Functions /\ \A o \in Op : Sound(o)
PROOF
  <1>1. MigrationInv => Functions
    BY DEF MigrationInv, TypeOK, Functions
  <1>2. MigrationInv => \A o \in Op : Sound(o)
    BY DEF MigrationInv, TypeOK, RoutedOnlyWhole, RecordMatchesWork, Sound
  <1>3. ASSUME Functions, \A o \in Op : Sound(o) PROVE TypeOK
    BY <1>3 DEF Functions, Sound, TypeOK
  <1>4. ASSUME \A o \in Op : Sound(o)
        PROVE  RoutedOnlyWhole /\ RecordMatchesWork /\ \A o \in Op : WorkSoFar(o)
    BY <1>4 DEF Sound, RoutedOnlyWhole, RecordMatchesWork
  <1> QED
    BY <1>1, <1>2, <1>3, <1>4 DEF MigrationInv

LEMMA InvByOperationAfter == MigrationInv' <=> Functions' /\ (\A o \in Op : Sound(o))'
PROOF
  BY InvByOperation, PTL

\* An operation whose record and work a step leaves alone stays sound.
Same(o) ==
    /\ status'[o] = status[o] /\ progress'[o] = progress[o]
    /\ totalDataSize'[o] = totalDataSize[o] /\ dataTransferred'[o] = dataTransferred[o]
    /\ ended'[o] = ended[o] /\ stage'[o] = stage[o] /\ chunk'[o] = chunk[o]

LEMMA SameIsSound == ASSUME NEW o \in Op, Sound(o), Same(o) PROVE Sound(o)'
PROOF
  BY DEF Sound, Same, WorkSoFar

LEMMA InitInv == Init => MigrationInv
PROOF
  <1> SUFFICES ASSUME Init PROVE Functions /\ \A o \in Op : Sound(o)
    BY InvByOperation
  <1>1. Functions
    BY DEF Init, Functions
  <1>2. ASSUME NEW o \in Op PROVE Sound(o)
    BY DEF Init, Sound, WorkSoFar, Fixed, InProgress
  <1> QED
    BY <1>1, <1>2

\* The steps of performMigration, each of one operation.
LEMMA DelayStep ==
    ASSUME MigrationInv, NEW o \in Op, DelayEnds(o)
    PROVE  /\ Functions'
           /\ \A p \in Op \ {o} : Same(p)
           /\ Sound(o)'
           /\ progress'[o] >= progress[o]
           /\ dataTransferred'[o] >= dataTransferred[o]
PROOF
  <1>1. Functions /\ Sound(o)
    BY InvByOperation
  <1>2. CASE Prepared(o)
    <2>1. TotalChunks(totalDataSize[o]) \in Nat
          /\ (TotalChunks(totalDataSize[o]) = 0 => totalDataSize[o] = 0)
      BY <1>1, ChunksCoverSize DEF Sound
    <2>2. CASE TotalChunks(totalDataSize[o]) = 0
      BY <1>1, <1>2, <2>1, <2>2
      DEF Functions, Sound, WorkSoFar, Prepared, Enter, Same, Fixed, InProgress
    <2>3. CASE TotalChunks(totalDataSize[o]) # 0
      <3>1. ChunkProgress(0, totalDataSize[o]) \in 25..75 /\ 0 < TotalChunks(totalDataSize[o])
        BY <1>1, <2>1, <2>3, ProgressInRange DEF Sound
      <3>2. 0 * ChunkSize = 0
        BY SizeAssumption
      <3> QED
        BY <1>1, <1>2, <2>3, <3>1, <3>2
        DEF Functions, Sound, WorkSoFar, Prepared, Enter, Same, Fixed, InProgress
    <2> QED
      BY <2>2, <2>3
  <1>3. CASE TransferChunk(o)
    <2> DEFINE n == totalDataSize[o]
               moved == (chunk[o] + 1) * ChunkSize
    <2>1. /\ n \in Nat /\ chunk[o] \in Nat /\ ChunkSize \in Nat \ {0}
          /\ chunk[o] < TotalChunks(n) /\ TotalChunks(n) \in Nat
          /\ dataTransferred[o] = chunk[o] * ChunkSize
          /\ dataTransferred[o] \in Nat /\ dataTransferred[o] <= n
      BY <1>1, <1>3, ChunksCoverSize, SizeAssumption DEF Sound, WorkSoFar, TransferChunk
    <2>2. moved \in Nat /\ moved = dataTransferred[o] + ChunkSize
      BY <2>1
    <2>3. chunk[o] + 1 < TotalChunks(n) <=> moved < n
      BY <2>1, ChunksCoverSize
    <2>4. /\ ChunkProgress(chunk[o], n) \in 25..75
          /\ ChunkProgress(chunk[o], n) <= ChunkProgress(chunk[o] + 1, n)
          /\ progress[o] \in 0..100
          /\ progress[o] <= ChunkProgress(chunk[o], n)
      BY <1>1, <1>3, <2>1, ProgressInRange DEF Sound, WorkSoFar, TransferChunk
    <2>5. /\ dataTransferred' = [dataTransferred EXCEPT ![o] = IF moved < n THEN moved ELSE n]
          /\ chunk' = [chunk EXCEPT ![o] = @ + 1]
          /\ UNCHANGED <<isRunning, totalDataSize, ended>>
      BY <1>3 DEF TransferChunk
    <2>6. CASE chunk[o] + 1 < TotalChunks(n)
      <3>1. progress' = [progress EXCEPT ![o] = ChunkProgress(chunk[o], n)]
            /\ UNCHANGED <<status, stage>>
        BY <1>3, <2>6 DEF TransferChunk
      <3>2. dataTransferred'[o] = moved /\ chunk'[o] = chunk[o] + 1 /\ moved < n
        BY <1>1, <2>3, <2>5, <2>6 DEF Functions
      <3>3. Functions' /\ \A p \in Op \ {o} : Same(p)
        BY <1>1, <2>5, <3>1 DEF Functions, Same
      <3>4. stage[o] = "transferring" /\ stage'[o] = stage[o] /\ status'[o] = status[o]
            /\ progress'[o] = ChunkProgress(chunk[o], n) /\ totalDataSize'[o] = n
            /\ ended'[o] = ended[o]
        BY <1>1, <1>3, <2>5, <3>1 DEF Functions, TransferChunk
      <3>5. WorkSoFar(o)'
        BY <2>4, <2>6, <3>2, <3>4 DEF WorkSoFar
      <3> HIDE DEF n, moved
      <3>6. Sound(o)'
        BY <1>1, <2>1, <2>2, <2>4, <3>2, <3>4, <3>5 DEF Sound
      <3> QED
        BY <2>1, <2>2, <2>4, <3>2, <3>3, <3>4, <3>6
    <2>7. CASE ~(chunk[o] + 1 < TotalChunks(n))
      <3>1. Enter(o, "verifying", 75)
        BY <1>3, <2>7 DEF TransferChunk
      <3>2. dataTransferred'[o] = n /\ chunk'[o] = chunk[o] + 1
        BY <1>1, <2>3, <2>5, <2>7 DEF Functions
      <3>3. Functions' /\ \A p \in Op \ {o} : Same(p)
        BY <1>1, <2>5, <3>1 DEF Functions, Same, Enter
      <3>4. stage'[o] = "verifying" /\ status'[o] = "verifying" /\ progress'[o] = 75
            /\ totalDataSize'[o] = n /\ ended'[o] = ended[o]
        BY <1>1, <2>5, <3>1 DEF Functions, Enter
      <3>5. WorkSoFar(o)'
        BY <3>4 DEF WorkSoFar, Fixed
      <3> HIDE DEF n, moved
      <3>6. Sound(o)'
        BY <1>1, <2>1, <3>2, <3>4, <3>5 DEF Sound, InProgress
      <3> QED
        BY <2>1, <2>4, <3>2, <3>3, <3>4, <3>6
    <2> QED
      BY <2>6, <2>7
  <1>4. CASE Verified(o)
    <2>1. Enter(o, "updating_routing", 90) /\ UNCHANGED <<isRunning, totalDataSize, dataTransferred, chunk>>
          /\ ended' = [ended EXCEPT ![o] = ended[o]]
      BY <1>1, <1>4 DEF Verified, Functions
    <2>2. /\ Functions' /\ \A p \in Op \ {o} : Same(p)
          /\ status'[o] = "updating_routing" /\ stage'[o] = "updating_routing" /\ progress'[o] = 90
          /\ totalDataSize'[o] = totalDataSize[o] /\ chunk'[o] = chunk[o]
          /\ dataTransferred'[o] = dataTransferred[o]
          /\ ended'[o] = ended[o]
      BY <1>1, <2>1 DEF Functions, Enter, Same
    <2>3. progress[o] <= 90 /\ dataTransferred[o] = totalDataSize[o]
          /\ dataTransferred[o] \in Nat /\ totalDataSize[o] \in Nat /\ chunk[o] \in Nat
          /\ ended[o] \in BOOLEAN
      BY <1>1, <1>4 DEF Sound, WorkSoFar, Fixed, Verified
    <2>4. Sound(o)'
      BY <2>2, <2>3 DEF Sound, WorkSoFar, Fixed, InProgress
    <2> QED
      BY <2>2, <2>3, <2>4
  <1>5. CASE Routed(o)
    <2>1. Enter(o, "cleaning_up", 95) /\ UNCHANGED <<isRunning, totalDataSize, dataTransferred, chunk>>
          /\ ended' = [ended EXCEPT ![o] = ended[o]]
      BY <1>1, <1>5 DEF Routed, Functions
    <2>2. /\ Functions' /\ \A p \in Op \ {o} : Same(p)
          /\ status'[o] = "cleaning_up" /\ stage'[o] = "cleaning_up" /\ progress'[o] = 95
          /\ totalDataSize'[o] = totalDataSize[o] /\ chunk'[o] = chunk[o]
          /\ dataTransferred'[o] = dataTransferred[o]
          /\ ended'[o] = ended[o]
      BY <1>1, <2>1 DEF Functions, Enter, Same
    <2>3. progress[o] <= 95 /\ dataTransferred[o] = totalDataSize[o]
          /\ dataTransferred[o] \in Nat /\ totalDataSize[o] \in Nat /\ chunk[o] \in Nat
          /\ ended[o] \in BOOLEAN
      BY <1>1, <1>5 DEF Sound, WorkSoFar, Fixed, Routed
    <2>4. Sound(o)'
      BY <2>2, <2>3 DEF Sound, WorkSoFar, Fixed, InProgress
    <2> QED
      BY <2>2, <2>3, <2>4
  <1>6. CASE CleanedUp(o)
    <2>1. Enter(o, "completed", 100) /\ UNCHANGED <<isRunning, totalDataSize, dataTransferred, chunk>>
          /\ ended' = [ended EXCEPT ![o] = TRUE]
      BY <1>6 DEF CleanedUp
    <2>2. /\ Functions' /\ \A p \in Op \ {o} : Same(p)
          /\ status'[o] = "completed" /\ stage'[o] = "completed" /\ progress'[o] = 100
          /\ totalDataSize'[o] = totalDataSize[o] /\ chunk'[o] = chunk[o]
          /\ dataTransferred'[o] = dataTransferred[o]
          /\ ended'[o] = TRUE
      BY <1>1, <2>1 DEF Functions, Enter, Same
    <2>3. progress[o] <= 100 /\ dataTransferred[o] = totalDataSize[o]
          /\ dataTransferred[o] \in Nat /\ totalDataSize[o] \in Nat /\ chunk[o] \in Nat
          /\ ended[o] \in BOOLEAN
      BY <1>1, <1>6 DEF Sound, WorkSoFar, Fixed, CleanedUp
    <2>4. ended'[o] /\ ended'[o] \in BOOLEAN
      BY <2>2
    <2>5. WorkSoFar(o)'
      BY <2>2 DEF WorkSoFar, Fixed
    <2>6. Sound(o)'
      BY <2>2, <2>3, <2>4, <2>5 DEF Sound, InProgress
    <2> QED
      BY <2>2, <2>3, <2>6
  <1> QED
    BY <1>2, <1>3, <1>4, <1>5, <1>6 DEF DelayEnds

LEMMA CancelStep ==
    ASSUME MigrationInv, NEW o \in Op, CancelOperation(o)
    PROVE  MigrationInv' /\ UNCHANGED <<progress, dataTransferred>>
PROOF
  <1>1. Functions /\ \A p \in Op : Sound(p)
    BY InvByOperation
  <1>2. /\ Functions'
        /\ \A p \in Op \ {o} : Same(p)
        /\ status'[o] = "cancelled" /\ ended'[o] = TRUE
        /\ progress'[o] = progress[o] /\ totalDataSize'[o] = totalDataSize[o]
        /\ dataTransferred'[o] = dataTransferred[o]
        /\ stage'[o] = stage[o] /\ chunk'[o] = chunk[o]
    BY <1>1 DEF Functions, CancelOperation, Same
  <1>3. stage[o] # "completed"
    BY <1>1 DEF Sound, CancelOperation
  <1>4. ended'[o] /\ ended'[o] \in BOOLEAN
    BY <1>2
  <1>5. Sound(o)'
    <2>1. Sound(o)
      BY <1>1
    <2>2. WorkSoFar(o)'
      BY <1>2, <2>1 DEF Sound, WorkSoFar
    <2> QED
      BY <1>2, <1>3, <1>4, <2>1, <2>2 DEF Sound, InProgress
  <1>6. \A p \in Op : Sound(p)'
    BY <1>1, <1>2, <1>5, SameIsSound
  <1>7. UNCHANGED <<progress, dataTransferred>>
    BY DEF CancelOperation
  <1> QED
    BY <1>2, <1>6, <1>7, InvByOperationAfter

LEMMA PlanStep ==
    ASSUME MigrationInv, NEW new \in SUBSET {o \in Op : status[o] = "none"},
           NEW size \in [new -> Sizes], ExecuteMigrationPlan(new, size)
    PROVE  MigrationInv' /\ UNCHANGED <<progress, dataTransferred>>
PROOF
  <1>1. Functions /\ \A p \in Op : Sound(p)
    BY InvByOperation
  <1>2. Functions' /\ UNCHANGED <<progress, dataTransferred>>
    BY <1>1 DEF Functions, ExecuteMigrationPlan
  <1>3. ASSUME NEW p \in Op PROVE Sound(p)'
    <2>1. CASE p \notin new
      <3>1. Same(p)
        BY <2>1 DEF ExecuteMigrationPlan, Same
      <3> QED
        BY <1>1, <3>1, SameIsSound
    <2>2. CASE p \in new
      <3>1. /\ status'[p] = "preparing" /\ stage'[p] = "preparing"
            /\ totalDataSize'[p] = size[p] /\ size[p] \in Nat
            /\ progress'[p] = progress[p] /\ dataTransferred'[p] = dataTransferred[p]
            /\ ended'[p] = ended[p] /\ chunk'[p] = chunk[p]
        BY <2>2, SizeAssumption DEF ExecuteMigrationPlan
      <3>2. stage[p] = "none"
        BY <1>1, <2>2 DEF Sound
      <3>3. progress[p] = 0 /\ dataTransferred[p] = 0 /\ chunk[p] = 0 /\ ended[p] \in BOOLEAN
        BY <1>1, <3>2 DEF Sound, WorkSoFar, Fixed
      <3>4. WorkSoFar(p)'
        BY <3>1, <3>3 DEF WorkSoFar, Fixed
      <3>5. ended'[p] \in BOOLEAN
        BY <3>1, <3>3
      <3> QED
        BY <3>1, <3>3, <3>4, <3>5 DEF Sound, InProgress
    <2> QED
      BY <2>1, <2>2
  <1> QED
    BY <1>2, <1>3, InvByOperationAfter

\* Every step keeps the invariant and takes nothing back.
LEMMA InvNext ==
    ASSUME MigrationInv, [Next]_vars
    PROVE  /\ MigrationInv'
           /\ \A o \in Op : /\ progress'[o] >= progress[o]
                             /\ dataTransferred'[o] >= dataTransferred[o]
PROOF
  <1>1. Functions /\ \A p \in Op : Sound(p)
    BY InvByOperation
  <1>2. \A p \in Op : progress[p] \in Nat /\ dataTransferred[p] \in Nat
    BY <1>1 DEF Sound
  <1>3. ASSUME NEW new \in SUBSET {o \in Op : status[o] = "none"}, NEW size \in [new -> Sizes],
               ExecuteMigrationPlan(new, size)
        PROVE  MigrationInv' /\ UNCHANGED <<progress, dataTransferred>>
    BY <1>3, PlanStep
  <1>4. ASSUME NEW o \in Op, CancelOperation(o)
        PROVE  MigrationInv' /\ UNCHANGED <<progress, dataTransferred>>
    BY <1>4, CancelStep
  <1>5. CASE \E o \in Op : DelayEnds(o)
    <2>1. PICK o \in Op : DelayEnds(o)
      BY <1>5
    <2>2. /\ Functions' /\ \A p \in Op \ {o} : Same(p)
          /\ Sound(o)' /\ progress'[o] >= progress[o]
          /\ dataTransferred'[o] >= dataTransferred[o]
      BY <2>1, DelayStep
    <2>3. \A p \in Op : Sound(p)'
      BY <1>1, <2>2, SameIsSound
    <2>4. MigrationInv'
      BY <2>2, <2>3, InvByOperationAfter
    <2>5. \A p \in Op \ {o} : progress'[p] = progress[p] /\ dataTransferred'[p] = dataTransferred[p]
      BY <2>2 DEF Same
    <2> QED
      BY <1>2, <2>2, <2>4, <2>5
  <1>6. CASE Start \/ Stop \/ UNCHANGED vars
    <2>1. UNCHANGED <<record, stage, chunk>> /\ isRunning' \in BOOLEAN
      BY <1>1, <1>6 DEF Start, Stop, vars, Functions
    <2>2. /\ status' = status /\ progress' = progress /\ dataTransferred' = dataTransferred
          /\ totalDataSize' = totalDataSize /\ ended' = ended
          /\ stage' = stage /\ chunk' = chunk
      BY <2>1 DEF record
    <2>3. Functions'
      BY <1>1, <2>1, <2>2 DEF Functions
    <2>4. \A p \in Op : Sound(p)'
      BY <1>1, <2>2, SameIsSound DEF Same
    <2>5. MigrationInv'
      BY <2>3, <2>4, InvByOperationAfter
    <2> QED
      BY <1>2, <2>2, <2>5
  <1>7. ASSUME UNCHANGED <<progress, dataTransferred>>
        PROVE  \A o \in Op : /\ progress'[o] >= progress[o]
                             /\ dataTransferred'[o] >= dataTransferred[o]
    BY <1>2, <1>7
  <1> QED
    BY <1>3, <1>4, <1>5, <1>6, <1>7 DEF Next

-----------------------------------------------------------------------------
(* Theorems.                                                               *)

LEMMA Invariant == Spec => []MigrationInv
PROOF
  BY InitInv, InvNext, PTL DEF Spec

\* MigrationEngine!TypeOK, with progress a percentage and no more bytes
\* moved than there are.
THEOREM TypeCorrect == Spec => []TypeOK
PROOF
  <1>1. MigrationInv => TypeOK
    BY DEF MigrationInv
  <1> QED
    BY Invariant, <1>1, PTL

\* MigrationEngine!RoutedOnlyWhole: no migration is verified, routed or
\* completed before its last byte, whatever the sizes.
THEOREM WholeBeforeRouting == Spec => []RoutedOnlyWhole
PROOF
  <1>1. MigrationInv => RoutedOnlyWhole
    BY DEF MigrationInv
  <1> QED
    BY Invariant, <1>1, PTL

\* MigrationEngine!RecordMatchesWork: "completed" is reported of finished
\* work only, and finished work as nothing else.
THEOREM ReportsAreTrue == Spec => []RecordMatchesWork
PROOF
  <1>1. MigrationInv => RecordMatchesWork
    BY DEF MigrationInv
  <1> QED
    BY Invariant, <1>1, PTL

\* MigrationEngine!NeverBackwards: progress and bytes only grow.
THEOREM ProgressGrows == Spec => NeverBackwards
PROOF
  <1>1. MigrationInv /\ [Next]_vars =>
            [\A o \in Op : /\ progress'[o] >= progress[o]
                           /\ dataTransferred'[o] >= dataTransferred[o]]_vars
    BY InvNext
  <1> QED
    BY Invariant, <1>1, PTL DEF Spec, NeverBackwards

-----------------------------------------------------------------------------
(* The routes.                                                             *)
\* A refusal names finished work; the rest of the invariant is the engine's.
RefusalNamesDone ==
    answer.route = "cancel" /\ answer.code = 400 /\ answer.op # NoOp
        => answer.op \in Op /\ stage[answer.op] = "completed"

RoutesInv == MigrationInv /\ RefusalNamesDone

-----------------------------------------------------------------------------
(* The routes over the engine.                                             *)

\* Every request is a step of the engine, or none of its business.
LEMMA RoutesStepIsEngineStep == [RoutesNext]_routeVars => [Next]_vars
PROOF
  <1> SUFFICES ASSUME [RoutesNext]_routeVars PROVE [Next]_vars
    OBVIOUS
  <1>1. CASE UNCHANGED routeVars
    BY <1>1 DEF routeVars
  <1>2. CASE Lead \/ RefuseStart \/ CancelMigration \/ GetMigrationStatus
    BY <1>2 DEF Lead, RefuseStart, CancelMigration, GetMigrationStatus
  <1>3. CASE EngineStep
    BY <1>3 DEF EngineStep, Next, Known
  <1>4. ASSUME NEW o \in Op, NEW size \in Sizes, StartMigration(o, size) PROVE Next
    <2>1. /\ {o} \in SUBSET {x \in Op : status[x] = "none"}
          /\ [x \in {o} |-> size] \in [{o} -> Sizes]
          /\ ExecuteMigrationPlan({o}, [x \in {o} |-> size])
      BY <1>4 DEF StartMigration
    <2> QED
      BY <2>1 DEF Next
  <1>5. ASSUME NEW o \in Op, Cancel(o) PROVE [Next]_vars
    BY <1>5 DEF Cancel, Next
  <1>6. ASSUME NEW o \in Op, GetOperation(o) PROVE UNCHANGED vars
    BY <1>6 DEF GetOperation
  <1> QED
    BY <1>1, <1>2, <1>3, <1>4, <1>5, <1>6 DEF RoutesNext

\* No request and no delay takes finished work up again.
LEMMA DoneStaysDone ==
    ASSUME MigrationInv, [Next]_vars, NEW o \in Op, stage[o] = "completed"
    PROVE  stage'[o] = "completed"
PROOF
  <1>1. status[o] # "none" /\ stage \in [Op -> InProgress \cup {"none", "completed"}]
    BY DEF MigrationInv, RecordMatchesWork, TypeOK
  <1>2. CASE UNCHANGED stage
    BY <1>2
  <1>3. ASSUME NEW new \in SUBSET {x \in Op : status[x] = "none"}, NEW size,
               ExecuteMigrationPlan(new, size)
        PROVE  stage'[o] = "completed"
    BY <1>1, <1>3 DEF ExecuteMigrationPlan
  <1>4. ASSUME NEW p \in Op, DelayEnds(p) PROVE stage'[o] = "completed"
    <2>1. stage[p] # "completed"
      BY <1>4 DEF DelayEnds, Prepared, TransferChunk, Verified, Routed, CleanedUp
    <2>2. UNCHANGED stage \/ \E next : stage' = [stage EXCEPT ![p] = next]
      BY <1>4 DEF DelayEnds, Prepared, TransferChunk, Verified, Routed, CleanedUp, Enter
    <2> QED
      BY <1>1, <2>1, <2>2
  <1>5. CASE Start \/ Stop \/ \E p \in Op : CancelOperation(p)
    BY <1>2, <1>5 DEF Start, Stop, CancelOperation
  <1>6. CASE UNCHANGED vars
    BY <1>2, <1>6 DEF vars
  <1> QED
    BY <1>3, <1>4, <1>5, <1>6 DEF Next

-----------------------------------------------------------------------------
(* The invariant.                                                          *)

\* Only the request to cancel answers as one, and refuses only what is done.
LEMMA RefusalStep ==
    ASSUME RoutesInv, [RoutesNext]_routeVars
    PROVE  RefusalNamesDone'
PROOF
  <1>1. \A o \in Op : stage[o] = "completed" => stage'[o] = "completed"
    BY RoutesStepIsEngineStep, DoneStaysDone DEF RoutesInv
  <1>2. CASE UNCHANGED answer
    BY <1>1, <1>2 DEF RoutesInv, RefusalNamesDone
  <1>3. CASE answer'.route # "cancel"
    BY <1>3 DEF RefusalNamesDone
  <1>4. ASSUME NEW o \in Op, Cancel(o) PROVE RefusalNamesDone'
    <2>1. CASE Tell("cancel", 200, o)
      BY <2>1 DEF Tell, RefusalNamesDone
    <2>2. CASE /\ status[o] \in {"none", "completed", "failed"}
               /\ Tell("cancel", 400, IF o \in Known THEN o ELSE NoOp)
      <3>1. o \in Known => stage[o] = "completed"
        BY <2>2 DEF Known, RoutesInv, MigrationInv, RecordMatchesWork, TypeOK, InProgress
      <3> QED
        BY <1>1, <2>2, <3>1 DEF Tell, RefusalNamesDone
    <2> QED
      BY <1>4, <2>1, <2>2 DEF Cancel
  <1>5. CASE UNCHANGED routeVars
    BY <1>2, <1>5 DEF routeVars, routes
  <1>6. CASE Lead \/ EngineStep \/ GetMigrationStatus
    BY <1>2, <1>6 DEF Lead, EngineStep, GetMigrationStatus, routes
  <1>7. CASE RefuseStart \/ CancelMigration
    BY <1>3, <1>7 DEF RefuseStart, CancelMigration, Tell
  <1>8. ASSUME NEW o \in Op, NEW size \in Sizes, StartMigration(o, size) PROVE RefusalNamesDone'
    BY <1>3, <1>8 DEF StartMigration, Tell
  <1>9. ASSUME NEW o \in Op, GetOperation(o) PROVE RefusalNamesDone'
    BY <1>3, <1>9 DEF GetOperation, Tell
  <1> QED
    BY <1>4, <1>5, <1>6, <1>7, <1>8, <1>9 DEF RoutesNext

LEMMA RoutesInvariant == RoutesSpec => []RoutesInv
PROOF
  <1>1. InitRoutes => RoutesInv
    BY InitInv DEF InitRoutes, RoutesInv, RefusalNamesDone
  <1>2. RoutesInv /\ [RoutesNext]_routeVars => RoutesInv'
    BY RoutesStepIsEngineStep, InvNext, RefusalStep DEF RoutesInv
  <1> QED
    BY <1>1, <1>2, PTL DEF RoutesSpec

-----------------------------------------------------------------------------
(* What follows.                                                           *)

\* The engine below its routes does what it does alone: its theorems hold of
\* every migration that clients start, cancel and ask about.
THEOREM RoutesRunTheEngine == RoutesSpec => Spec
PROOF
  <1>1. InitRoutes => Init
    BY DEF InitRoutes
  <1> QED
    BY <1>1, RoutesStepIsEngineStep, PTL DEF RoutesSpec, Spec

\* MigrationRoutes!RefusedCancelMeansDone: a cancellation of an operation is
\* refused only when its work is done, whatever came between.
THEOREM RefusalMeansDone == RoutesSpec => []RefusedCancelMeansDone
PROOF
  <1>1. RoutesInv => RefusedCancelMeansDone
    BY DEF RoutesInv, RefusalNamesDone, RefusedCancelMeansDone
  <1> QED
    BY <1>1, RoutesInvariant, PTL

\* The record of an operation says it is in progress while it is, unless it
\* was cancelled.
LEMMA RecordOfWork ==
    ASSUME MigrationInv
    PROVE  /\ {o \in Op : status[o] \in {"completed"}} = {o \in Op : stage[o] = "completed"}
           /\ {o \in Op : status[o] \in InProgress} = {o \in AtWork : status[o] # "cancelled"}
PROOF
  <1>1. \A o \in Op : /\ status[o] \in {stage[o], "cancelled"}
                      /\ stage[o] = "completed" => status[o] = "completed"
    BY DEF MigrationInv, RecordMatchesWork
  <1> QED
    BY <1>1 DEF AtWork, InProgress

\* MigrationRoutes!PageMissesOnlyTheCancelled: the status page counts what is
\* done, and of what is under way all but the cancelled.
THEOREM PageIsHonest ==
    ASSUME IsFiniteSet(Op)
    PROVE  RoutesSpec => []PageMissesOnlyTheCancelled
PROOF
  <1>1. ASSUME RoutesInv PROVE PageMissesOnlyTheCancelled
    <2> DEFINE busy == {o \in AtWork : status[o] # "cancelled"}
    <2>1. /\ Statistics.completed = Cardinality({o \in Op : stage[o] = "completed"})
          /\ Active = Cardinality(busy)
      BY <1>1, RecordOfWork DEF RoutesInv, Statistics, Active, CountIn
    <2>2. IsFiniteSet(busy)
      <3>1. busy \subseteq Op
        BY DEF AtWork
      <3> QED
        BY <3>1, FS_Subset
    <2>3. Cardinality(busy) \in Nat /\ (Cardinality(busy) = 0 => busy = {})
      BY <2>2, FS_CardinalityType, FS_EmptySet
    <2>4. Page.status = "ready" => ~(Active > 0)
      BY DEF Page
    <2>5. Page.status = "ready" => busy = {}
      <3> HIDE DEF busy
      <3> QED
        BY <2>1, <2>3, <2>4
    <2> QED
      BY <2>1, <2>5 DEF PageMissesOnlyTheCancelled
  <1> QED
    BY <1>1, RoutesInvariant, PTL
=============================================================================
