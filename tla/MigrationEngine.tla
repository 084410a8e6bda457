--------------------------- MODULE MigrationEngine ---------------------------
(***************************************************************************)
(* The migration engine: performMigration runs, for every operation, a     *)
(* chain of simulated delays, and reports the operation's status and       *)
(* progress between them, while clients cancel operations and start more.  *)
(*                                                                         *)
(* What performMigration waits for (stage, chunk) is apart from what the   *)
(* operation's record says (status, progress): nothing in the code keeps   *)
(* the two together but the order of its steps.                            *)
(***************************************************************************)
EXTENDS Integers

CONSTANTS
    Op,            \* operation ids
    Sizes,         \* the sizes of shards, in bytes
    ChunkSize      \* config.chunkSize

ASSUME SizeAssumption == Sizes \subseteq Nat /\ ChunkSize \in Nat \ {0}

VARIABLES
    isRunning,
    status, progress, dataTransferred, totalDataSize,  \* the record of an operation
    ended,         \* the record has an endTime
    stage,         \* what performMigration waits for
    chunk          \* transferData's loop counter

record == <<status, progress, dataTransferred, totalDataSize, ended>>
vars == <<isRunning, record, stage, chunk>>

InProgress == {"preparing", "transferring", "verifying", "updating_routing", "cleaning_up"}

Init ==
    /\ isRunning       = TRUE    \* MigrationRoutes starts the engine it creates
    /\ status          = [o \in Op |-> "none"]
    /\ progress        = [o \in Op |-> 0]
    /\ dataTransferred = [o \in Op |-> 0]
    /\ totalDataSize   = [o \in Op |-> 0]
    /\ ended           = [o \in Op |-> FALSE]
    /\ stage           = [o \in Op |-> "none"]
    /\ chunk           = [o \in Op |-> 0]

Start == ~isRunning /\ isRunning' = TRUE /\ UNCHANGED <<record, stage, chunk>>
Stop  == isRunning /\ isRunning' = FALSE /\ UNCHANGED <<record, stage, chunk>>

\* A plan starts all its migrations in one go, each up to its first delay;
\* size gives the shards' sizes.
ExecuteMigrationPlan(new, size) ==
    /\ isRunning
    /\ new # {}
    /\ status' = [o \in Op |-> IF o \in new THEN "preparing" ELSE status[o]]
    /\ totalDataSize' = [o \in Op |-> IF o \in new THEN size[o] ELSE totalDataSize[o]]
    /\ stage' = [o \in Op |-> IF o \in new THEN "preparing" ELSE stage[o]]
    /\ UNCHANGED <<isRunning, progress, dataTransferred, ended, chunk>>

-----------------------------------------------------------------------------
(* performMigration, from one delay to the next.                           *)

\* Mutant: the last, partial chunk is not counted.
TotalChunksFloor(n) == n \div ChunkSize

TotalChunks(n) == (n + ChunkSize - 1) \div ChunkSize

\* Mutant: the transfer's share of the progress starts at 0.
ChunkProgressFromZero(i, n) == (i * 50) \div TotalChunks(n)

\* The integer part of the progress after chunk i.
ChunkProgress(i, n) == 25 + (i * 50) \div TotalChunks(n)

\* The record and the work move on to the next stage.
Enter(o, next, percent) ==
    /\ status' = [status EXCEPT ![o] = next]
    /\ progress' = [progress EXCEPT ![o] = percent]
    /\ stage' = [stage EXCEPT ![o] = next]

\* A shard of size 0 has no chunk to wait for.
Prepared(o) ==
    /\ stage[o] = "preparing"
    /\ IF TotalChunks(totalDataSize[o]) = 0 THEN Enter(o, "verifying", 75)
                                            ELSE Enter(o, "transferring", 25)
    /\ UNCHANGED <<isRunning, dataTransferred, totalDataSize, ended, chunk>>

\* Mutant: a full chunk is counted for the last, partial one.
TransferFullChunk(o) ==
    LET n == totalDataSize[o]
    IN  /\ stage[o] = "transferring"
        /\ dataTransferred' = [dataTransferred EXCEPT ![o] = (chunk[o] + 1) * ChunkSize]
        /\ chunk' = [chunk EXCEPT ![o] = @ + 1]
        /\ IF chunk[o] + 1 < TotalChunks(n)
           THEN /\ progress' = [progress EXCEPT ![o] = ChunkProgress(chunk[o], n)]
                /\ UNCHANGED <<status, stage>>
           ELSE Enter(o, "verifying", 75)
        /\ UNCHANGED <<isRunning, totalDataSize, ended>>

\* A chunk has been moved: the loop goes on or ends.  Only its end reports a
\* status again.
TransferChunk(o) ==
    LET n == totalDataSize[o]
        moved == (chunk[o] + 1) * ChunkSize
    IN  /\ stage[o] = "transferring"
        /\ dataTransferred' = [dataTransferred EXCEPT ![o] = IF moved < n THEN moved ELSE n]
        /\ chunk' = [chunk EXCEPT ![o] = @ + 1]
        /\ IF chunk[o] + 1 < TotalChunks(n)
           THEN /\ progress' = [progress EXCEPT ![o] = ChunkProgress(chunk[o], n)]
                /\ UNCHANGED <<status, stage>>
           ELSE Enter(o, "verifying", 75)
        /\ UNCHANGED <<isRunning, totalDataSize, ended>>

\* Mutant: a cancelled operation is left alone here, and by everyone else.
VerifiedUnlessCancelled(o) ==
    /\ stage[o] = "verifying"
    /\ status[o] = "verifying"
    /\ Enter(o, "updating_routing", 90)
    /\ UNCHANGED <<isRunning, dataTransferred, totalDataSize, ended, chunk>>

Verified(o) ==
    /\ stage[o] = "verifying"
    /\ Enter(o, "updating_routing", 90)
    /\ UNCHANGED <<isRunning, dataTransferred, totalDataSize, ended, chunk>>

Routed(o) ==
    /\ stage[o] = "updating_routing"
    /\ Enter(o, "cleaning_up", 95)
    /\ UNCHANGED <<isRunning, dataTransferred, totalDataSize, ended, chunk>>

CleanedUp(o) ==
    /\ stage[o] = "cleaning_up"
    /\ Enter(o, "completed", 100)
    /\ ended' = [ended EXCEPT ![o] = TRUE]
    /\ UNCHANGED <<isRunning, dataTransferred, totalDataSize, chunk>>

DelayEnds(o) ==
    \/ Prepared(o) \/ TransferChunk(o) \/ Verified(o) \/ Routed(o) \/ CleanedUp(o)

-----------------------------------------------------------------------------

\* Mutant: any operation that exists can be cancelled.
CancelAnything(o) ==
    /\ status[o] # "none"
    /\ status' = [status EXCEPT ![o] = "cancelled"]
    /\ ended' = [ended EXCEPT ![o] = TRUE]
    /\ UNCHANGED <<isRunning, progress, dataTransferred, totalDataSize, stage, chunk>>

\* Cancelling changes the record; performMigration does not look at it.
CancelOperation(o) ==
    /\ status[o] \notin {"none", "completed", "failed"}
    /\ status' = [status EXCEPT ![o] = "cancelled"]
    /\ ended' = [ended EXCEPT ![o] = TRUE]
    /\ UNCHANGED <<isRunning, progress, dataTransferred, totalDataSize, stage, chunk>>

Next ==
    \/ Start \/ Stop
    \/ \E new \in SUBSET {o \in Op : status[o] = "none"} :
           \E size \in [new -> Sizes] : ExecuteMigrationPlan(new, size)
    \/ \E o \in Op : DelayEnds(o) \/ CancelOperation(o)

Spec == Init /\ [][Next]_vars

\* The delays are timers of the event loop, which runs each one.
FairSpec == Spec /\ \A o \in Op : WF_vars(DelayEnds(o))
-----------------------------------------------------------------------------

TypeOK ==
    /\ isRunning \in BOOLEAN
    /\ status \in [Op -> InProgress \cup {"none", "completed", "failed", "cancelled"}]
    /\ progress \in [Op -> 0..100]
    /\ totalDataSize \in [Op -> Nat]
    /\ dataTransferred \in [Op -> Nat]
    /\ \A o \in Op : dataTransferred[o] <= totalDataSize[o]
    /\ ended \in [Op -> BOOLEAN]
    /\ stage \in [Op -> InProgress \cup {"none", "completed"}]
    /\ chunk \in [Op -> Nat]

\* Whatever was cancelled in between, a migration verifies, routes to and
\* completes on its target only after the last byte, for every size and its
\* rounding to chunks.
RoutedOnlyWhole ==
    \A o \in Op :
        stage[o] \in {"verifying", "updating_routing", "cleaning_up", "completed"} =>
            dataTransferred[o] = totalDataSize[o]

\* What the record says is the stage the work is in, or that it was
\* cancelled: "completed" is said of finished work and of no other, with its
\* progress and its end time, which the statistics take the mean of.
RecordMatchesWork ==
    \A o \in Op :
        /\ status[o] \in {stage[o], "cancelled"}
        /\ stage[o] = "completed" =>
               status[o] = "completed" /\ progress[o] = 100 /\ ended[o]

\* Progress and the bytes moved never go back, across the loop's fractions,
\* the stages' fixed numbers and a cancellation.
NeverBackwards ==
    [][\A o \in Op : /\ progress'[o] >= progress[o]
                     /\ dataTransferred'[o] >= dataTransferred[o]]_vars

\* A migration that was started completes: also when the engine was stopped,
\* and when the operation was cancelled.
StartedMigrationsComplete ==
    \A o \in Op : status[o] # "none" ~> stage[o] = "completed"

-----------------------------------------------------------------------------
(* What the documents say, and the code does not do.                       *)

\* docs/api/README.md, Cancel Migration Operation: the answer is "status":
\* "cancelled", a final status of the list above it.
CancelledStaysCancelled ==
    [][\A o \in Op : status[o] = "cancelled" => status'[o] = "cancelled"]_vars
=============================================================================
