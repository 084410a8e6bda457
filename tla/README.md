# NodeNomad in TLA+

NodeNomad is a key-value store in TypeScript: every node runs a consensus
engine, a storage engine, a consistent hash ring and a migration engine behind
an HTTP API.  This directory holds specifications of these parts, the TLC
configurations that check them on small instances, and TLAPS proofs of their
main properties for every value of the parameters.

Paths of the program below are relative to the repository (`src/core/...`).

## 1. Inventory

| Component | State it keeps | Operations |
|---|---|---|
| Consensus engine, `src/core/consensus/raft-engine.ts` | term, vote, log, commit and apply index, role, leader, three kinds of timer; all in memory | `start`, `stop`, `appendCommand`, `handleAppendEntries`, `handleRequestVote`, and what the timers run |
| Storage engine, `src/core/storage/storage-engine.ts` | a map in memory with ttl, one JSON file, the `fs.writeFile` calls nobody awaits | `initialize`, `set`, `get`, `has`, `delete`, `clear`, `keys`, `size`, `close` |
| Write-ahead log, the same file | a text file of entries, one to a line | `appendToWAL`, `getWALEntries`, `truncateWAL`, `replayWAL` |
| Cluster manager, `src/cluster/raft-cluster-manager.ts`, and `src/raft-server.ts` | an engine, a storage, a shard manager, a table of nodes | set, get, delete, clear, exists, keys; start and graceful shutdown; the callback of the engine's status |
| Key-value routes, `src/raft-server.ts`, `src/api/routes/key-value-routes.ts` | none: two sets of routes with different rules over one cluster manager | the same requests over HTTP, validated and answered |
| Migration routes, `src/api/routes/migration-routes.ts` | a migration engine of their own | start, cancel, look at operations, a status page |
| Shard and cluster routes, `src/api/routes/shard-routes.ts`, `cluster-routes.ts` | none | look up a key, schedule a migration, rebalance; listings |
| Consistent hash ring, `src/core/sharding/consistent-hash.ts` | the sorted array of virtual nodes, the nodes, the shards derived from them | `addNode`, `removeNode`, `getNode`, `getReplicaNodes`, `getShardForKey` |
| Shard manager, `src/core/sharding/shard-manager.ts` | a ring, shard operations, shard metrics | join and leave, scheduling and executing operations, `rebalance` |
| Migration engine, `src/core/migration/migration-engine.ts` | records of operations, a running flag | `start`, `stop`, `executeMigrationPlan`, `cancelOperation`, `getStatistics` |
| Dashboard, metrics, logging | counters and text | formatting |

**How they interact.**  The cluster manager owns the others and calls them
directly; there is no message between nodes anywhere in the code.  A write goes
route → `RaftClusterManager.set` → `RaftEngine.appendCommand`, which commits
the entry on the spot and calls back `handleLogCommit`, which writes the
storage, before the write returns to the route.  A delete deletes twice: in
that callback and again after it.  `clearAll` goes to the storage without the
log.  A table of nodes and a ring are filled once, at `initialize`, with the
node itself and the configured others; after that only the own engine's changes
of status reach the table.  What two nodes agree on they owe to their
configurations and to hashing.  The migration routes own a migration engine of
their own, which is connected to neither ring nor storage.  Nothing in the
program calls `appendToWAL`; `initialize` replays the log if there is one.

**What is hard.**

* *Timers against requests* in the consensus engine: three kinds of timer, one
  of which (the vote callback) nothing can clear, race handlers that reset,
  clear and re-arm the others.
* *Files against memory* in the storage engine: several unawaited writers
  truncate and write one file in any order, while entries expire, the engine
  closes, the process ends or dies, and a new engine opens the same file.
* *Read, truncate, write* in the write-ahead log: appends fall between the three
  steps of a truncation, truncations overlap, a failed append or truncation leaves a
  piece of a line that the next append continues.
* *Callbacks inside calls* in the cluster manager: storage changes inside
  `appendCommand`.
* *Indices*: the log counts from 0, and so does "nothing applied yet".
* *The ends of ranges*: the wrap of the ring, equal positions, the last partial
  chunk of a migration.
* *Requests against delays* in the migration engine: cancel and stop arrive
  between the stages of an operation that reads neither, and so do the requests
  for a page about all operations.
* *Views without messages*: every node leads, and places keys and shards by its
  own configuration.

**What makes each part correct.**  Consensus: terms and votes never go back or
change, roles, votes and timers agree, no engine gets stuck, logs stay ordered
and are applied in order.  Storage: memory is what was acknowledged, the file
is current when the writers are done, close ends, restarts lose nothing that
was on the file.  Log: what was acknowledged can be read but for named races and
failures, a replay ends with one result.  Node: what clients were told is what is stored, and what every
route shows.  Ring: lookup
is consistent hashing, replicas are distinct nodes, a change of membership
moves only the keys it must.  Migration: nothing is routed before all data is
moved, records describe the work, progress does not go back, every operation
ends, a refused cancellation means that the work is done.  Views: nodes that
know of each other disagree only about newcomers.  `PROJECT.json` lists each hazard at its line with the properties that
watch it.

## 2. Modules

| Module | Models | Instances and proofs |
|---|---|---|
| `RaftEngine` | the consensus engine, one copy for each server | `MCRaftEngine`, `RaftEngineProofs` |
| `StorageEngine` | one storage engine, its file, its writers, its process | `MCStorageEngine`, `StorageEngineProofs` |
| `WriteAheadLog` | the log file and its callers | `MCWriteAheadLog`, `WriteAheadLogProofs` |
| `NodeServer` | the key-value requests of a node, over `RaftEngine` and the storage's memory | `MCNodeServer`; proofs in `KeyValueRoutesProofs` |
| `KeyValueStore` | what a client may rely on: one map for each node, four weaknesses | abstract; used by `KeyValueRoutes` |
| `KeyValueRoutes` | the two sets of HTTP routes, over `NodeServer`; implements `KeyValueStore` | `MCKeyValueRoutes`, `KeyValueRoutesProofs` |
| `MigrationEngine` | the migration engine | `MCMigrationEngine`; proofs in `MigrationRoutesProofs` |
| `MigrationRoutes` | the migration routes, over `MigrationEngine` | `MCMigrationRoutes`, `MigrationRoutesProofs` |
| `HashRing` | the consistent hash ring | `MCHashRing`; proofs in `ShardManagerProofs` |
| `ShardManager` | the shard manager, over `HashRing` | `MCShardManager`, `ShardManagerProofs` |
| `ClusterView` | the node table, ring and operations of several nodes, over `RaftEngine` and `ShardManager` | `MCClusterView`, `ClusterViewProofs` |
| `LoopLemmas` | nothing of the program: lemmas on loops over arrays, sorted arrays and induction | instantiated by the proof modules |

Definitions keep the names of the code.  An operator whose comment begins with
"Mutant:" is a wrong variant of the operator after it, the way a plausible bug
would make it; no action uses it.  It is there to see that a property fails
when the code is wrong.

### RaftEngine

One action for each handler and timer: `Start`, `Stop`, `StartElection` (the
election timeout as a follower or candidate) and `IgnoreElectionTimeout` (as a
leader), `BecomeLeader` and `DropVoteTimer` (the 100 ms callback of
`requestVotes`, as a candidate and otherwise), `AppendCommand`,
`HandleAppendEntries` (with the outcomes `RejectEntries` and `StoreEntries`),
`HandleRequestVote`.  Calls that change nothing (a stale term, a refused vote,
a command to a node that does not lead) are stutters and are left out.

`voteTimers` counts the pending callbacks, because the code keeps no handle to
them: they outlive the candidacy, and `stop`.  `phase` says whether `start` and
`stop` were called.  `applied` is a history of what `onLogCommit` received.
Index i of the code's log is `log[s][i + 1]`; `commitIndex` and `lastApplied`
are the code's.

There are two specifications.  `DeployedSpec` is the program as
`raft-server.ts` runs it: nobody calls the two RPC handlers, as no transport
exists.  `Spec` also calls them, with any request of the constant sets
`AppendRequests` and `VoteRequests`, in any order and any number of times.
These stand for peers that behave: `WellFormed` says what a leader's request
looks like (numbered on from `prevLogIndex`, terms in order, none newer than
the leader's).  Without it an engine stores whatever it is sent.

### StorageEngine

A mutation changes `memory` and starts a writer with a snapshot of the whole
map.  A writer is `queued`, then `opened` (`OpenFile` truncates), then done
(`WriteFile`) or failed (`WriteFails`, at either point); these steps interleave
with everything else, in any order among writers, as Node's thread pool allows.
When the text goes over what another writer left since the truncation, the
result is either the text or no JSON at all (`Overlay`): a longer text of the
other shows behind it.  `closer` is the writer that `close` awaits.  `Kill`
ends the process, with the writers in flight: after a close (`Exit`) or at any
other time (`Crash`).  `Load` may also run after `close` with old writers still
in flight, as the unit tests do it in one process.  Timestamps are values of a
bounded clock.  `acked` and `clean` are history: the data as the engine last
acknowledged it, and whether the last writer to finish had the file to itself
from its start.

### WriteAheadLog

The file is a sequence of `lines`; `torn` says that the last one has no end, so
that the next append continues it.  A caller awaits its own call, and `call`
says where that call is.  An append is one write (`AppendLine`).  A truncation
is three steps: `ReadLog` reads and decides what to keep, `OpenLog` truncates,
`WriteLog` writes over whatever others have appended since (`Overlay`).
Either write may be cut off anywhere, by an error or because the process dies:
`AppendFails` leaves nothing, an empty file, a piece of the line, all of it but
its end, or the whole line that nobody hears of (`CutOff`); `TruncateFails`
leaves some of the lines to keep and then nothing or a piece of the next one,
with what others have appended since behind it (`CutWrite`).  The call is
`Broken` until its caller hears of it (`Rejects`) or the process ends (`Crash`),
so that a crash may find any number of writes cut off.  What does not parse is `Garbage` and is skipped, though it is
counted, as in `getWALEntries`, whose loop body is `ParseLine`.  `acked`, `due`, `failures` and `cuts` are
history; `due` is what of `acked` the log still owes: an entry leaves it when a
truncation asked for it, or one of the races named at `LostOnlyToARaceOrACrash`
happened.  `ReplayWAL` is a fold of `applyLogEntry` over the entries.

### NodeServer

An `INSTANCE` of `RaftEngine` with no peers and with set and delete commands,
the map of the storage engine (`store`), the last reply of each node, and
`told`, the map that its acknowledged requests describe.  Each handler is one
action: state changes before its first `await`, except for the file, which is
`StorageEngine`'s matter.  `Committed(s)` is what the engine's step hands to
the callback, `AfterApplying` is `applyLogEntry` over it.  A behaviour is one
life of a process and starts from any content of the storage.

### KeyValueRoutes and KeyValueStore

`KeyValueRoutes` extends `NodeServer` by what the HTTP side adds: which bodies
are refused (`Invalid`, `Accepts`), and the status and data of each `response`.
Values are texts, values that JavaScript takes for false, and null, as the
routes tell these apart: the older routes let everything through and answer a
null with 404; the newer ones take texts and buffers only, send a falsy value as
no data, and answer a delete of nothing with 404.  To their schema an empty text
is no valid text, but it makes a buffer without bytes, which is what is stored
and, as it counts as true, shown (`Stored`).  A text that is not empty and a
buffer behave alike and are one kind of value, `Truthy`.

`KeyValueStore` is what is left for a client: one map for each node, and a `Next`
that says exactly how an answer may be weaker than expected (the first set may be lost, a delete may deny that there
was a key, hollow values may be shown as nothing, maps of different nodes are
unrelated).  `Promise` is the refinement mapping.

### MigrationEngine

`stage` and `chunk` are where `performMigration` waits; `status`, `progress`,
`dataTransferred` and `ended` are what the record says.  The two are separate
variables because only the order of the code's steps keeps them together, and
`CancelOperation` writes one of them only.  Each action after
`ExecuteMigrationPlan` is the code between two delays.

### MigrationRoutes

Extends `MigrationEngine` by the requests: `StartMigration` makes one operation,
`Cancel`, `GetOperation`, `GetMigrationStatus` (of the class's two handlers of
that name the second one counts), `RefuseStart`, and the placeholder
`CancelMigration` of the cluster manager.  `page` and `answer` are the last
responses.  The engine's other methods stay in `EngineStep`.

### HashRing

`hash` is any function from virtual nodes to positions, chosen at the start, so
the checks cover collisions as well.  The sorted array is a set, `ring`, with
`Before` as its order: JavaScript's sort is stable, so equal positions stand in
the order of `addNode`, which `joined` records.  A key is its position.
`GetNode` is the linear scan with its wrap, `GetReplicaNodes` the other loop, one
turn of which is `TakeReplica`, over the array read `Clockwise`; that the two
agree is a property.  The array with its elements in order is `Sorted`, and
`FoldOver` is a loop over it: the fold of the community modules in a form that
the provers can expand.
`ShardsOfRing` is `updateShards`.

### ShardManager

Extends `HashRing` by the operations (`operations`, a sequence whose
index is the operation's id) and the ids of the shards that have metrics.
`InOrder` is the order in which the nodes come when the shards are run through.
`removeNode` and `rebalance` await only `scheduleShardMigration`, which waits
for nothing, so each is one action; `executeShardOperation` waits 100 ms and is
two.  Thresholds are compared in exact arithmetic, the code compares floating
point numbers.  That the routes serve leaders only is left out: it decides who
may ask, not what happens.  `RemoveNode` looks up the metrics to clean on the
new ring, as the code does, and so removes none: the metrics of a node that has
left stay.  `EveryShardHasMetrics`, a part of `ManagerTypeOK`, is the half of
the bookkeeping that holds.

### ClusterView

Several nodes at once, each with its engine (an `INSTANCE` of `RaftEngine`
without commands), its `CLUSTER_NODES`, its table and its ring (an `INSTANCE` of
`ShardManager`, parameterised by the node).  `Initialize` fills table and ring,
the node itself first.  After that the table hears of the engine at the three
places that call back and nowhere else: `StartElection`, `BecomeLeader` (late
promotions of a stopped engine among them) and `BecomeFollower`, which both RPC
handlers call for a newer term; `QuietStep` is everything that does not call
back.  `ScheduleMigration` and `TriggerRebalancing` are the shard routes, which
ask for leadership of the node's own engine, and every node has that.  A request
to migrate has any shard, source and target: the route relates them no more than
the manager does, which chooses a target only where none is given.  `named` is
history: which operations have a target that the client gave.

Nodes exchange nothing.  `Spec` is the nodes as they are deployed, where nobody
calls the RPC handlers; `PeersSpec` adds calls by external peers, as `Spec` of
`RaftEngine` does, since only these make a node a follower again.

## 3. Runs

| Run | Question | Bounds |
|---|---|---|
| `raft_rpc` | Does an engine stay in order under every AppendEntries of two successive leaders and every vote request of two peers, repeated, reordered and late, around its own elections? | one engine; leaders of terms 1 and 2 with logs of 3 and 2 entries that conflict at index 1, every slice of them with every commit index; 3 terms, 3 entries |
| `storage_safety` | Memory against file against acknowledgements, through overlaps, expiry, failures, crashes, restarts; does close end? | 1 key, 3 writers, with and without a ttl of 1, clock 0..2 |
| `wal` | What of the acknowledged entries can be read, at once and slice by slice, through overlapping calls, writes cut off anywhere and crashes?  Does a replay depend on the data file? | 2 callers, 2 keys, 1 value and deletes, 3 entries, 2 failures, 2 truncations |
| `node_kv` | Do the routes over log, callback and storage implement the abstract store?  What do they show of what was acknowledged?  When do they refuse, and does every started node come to accept writes? | 1 node, 2 keys, a buffer, an empty text, 0 and null, 3 commands, every initial content |
| `migration_ops` | Records against work, progress, completion, the status page and refused cancellations, with start, cancel, stop and questions at any time | 2 operations, chunk size 2, sizes 0, 1, 2, 5 |
| `ring` | Consistent hashing, replicas, shards, data movement | 3 nodes with one or two virtual nodes, every hash function to 3 positions, 4 joins |
| `shard_manager` | Metrics, operations, where the shards of a leaving node go, rebalancing | 4 nodes of 1 or 3 shards, 4 joins, 3 operations, one position |
| `cluster` | What do nodes with different configurations agree on?  Which targets do they choose?  Does a node's table show the role its engine has, and what can a stopped node still do? | 2 running nodes, 5 configurations of 3 names (another order, a repetition, without oneself, with a newcomer), every hash function to 4 positions, 1 operation each out of 4 requests (with and without a target, two shards, two sources), 1 election each; or 1 running node with 3 elections and an external peer that sends it requests of terms 0 to 3 |

These pass.  Each of their properties was also seen to fail under a mutant of
the code (`PROJECT.json`, "mutants").

Why the bounds are enough: `raft_rpc` needs a log that conflicts, one that is
shorter, a commit index that goes back, and a term above both leaders for the
node's own election, and has each.  Three writers are a queue with an older and
a newer neighbour, and one of them may be close's; a second set of the same key
differs in its timestamp.  In `wal` two callers are an append inside a
truncation, two truncations that overlap, and two appends in either order; with
two failures a piece of a line, left by an append or by a truncation, can be glued
to an entry whose append fails in turn, and with three entries there is something
before, at and behind a cut.
Three commands of `node_kv` are the first one, which is special, and two
ordinary ones, enough to overwrite and delete a key behind it; a single node
suffices, as nodes share nothing.  The sizes of `migration_ops` are none, half a
chunk, one chunk, and two chunks and a half.  In `ring` six virtual nodes on three
positions give every pattern of ties and wraps; the fourth join is a node that
comes back, last in order.  The shard manager looks at numbers of shards, and at
positions only to order nodes with equally few, so one position serves; three
shards against one is the smallest difference that a rebalancing moves, and of
four nodes two may have too many at a time.  In
`cluster` four positions let three names stand apart in every order around the
ring, with a gap.  Where all virtual nodes stand at one position, nothing can be
said of the rings, and the instance is another one: one node runs, and a peer
calls it (`InstanceNext`), with terms below, at and above the node's own whatever
role it has.  It stops calling when the node stops, since a request re-arms the
election timer of a stopped engine, of which `StoppedNodesStartNothing` does not
speak; the theorem on the table covers those requests too.  What the small
instances leave open about sizes, keys, writers, servers, hashes and chunk sizes
is what the proofs settle.

Four more runs check a single statement that the repository makes of itself and
that the code does not keep; TLC's counterexample is the finding:

| Run | Statement | What happens |
|---|---|---|
| `raft_firstentry` | `CommittedIsApplied`: what is committed is applied | the entry of index 0 is committed and never applied, since `lastApplied` starts at 0 |
| `storage_restart` | `RestartKeepsData`: data persists across restarts | an earlier, unawaited writer truncates or overwrites the file after `close` has written it; no crash and no failure is needed (`GracefulSpec`) |
| `node_delete` | `DeletedSaysIfThereWasAKey`: `deleted` says whether there was a key | the commit callback has deleted the key before the delete whose result is the reply |
| `migration_cancel` | `CancelledStaysCancelled`: a cancelled operation is cancelled | the next stage overwrites the status, and the operation completes |

Other divergences follow from passing properties, or were seen on the way:

* `EveryStartedNodeLeads` means that every deployed node leads a cluster of its
  own, while `docs/architecture/README.md` promises one leader at a time.
* `StoppedNodesStartNothing` says exactly what remains of a stopped engine:
  `stop` cannot clear the vote callbacks (`raft-engine.ts:353`), so that a
  candidate still becomes leader and beats after it.
* A late, shorter request of the same leader cuts entries off that agree with it
  (`raft-engine.ts:217`), although the comment at line 216 speaks of conflicting
  entries; `LogOrdered` and `AppliedInOrder` hold even so.
* A node's table keeps every other node "offline" for as long as the process
  lives (`TableMirrorsOneEngine`, a part of the invariant in
  `ClusterViewProofs`), while the example in `docs/api/README.md:309` counts
  active nodes.
* `LeadersChooseAlike` is about targets that nodes choose.  Targets that clients
  name are not coordinated: the instance of `cluster` reaches two leaders with
  two targets for one shard, and a target that is the source.
* An empty text that is set over the newer routes is read back as an empty
  buffer over both (`key-value-routes.ts:20`).
* `ShardsCoverTheRest` says exactly which keys `getShardForKey` answers with
  null: those before every virtual node of the node they belong to.

Deadlock is checked where the system cannot stop; `CHECK_DEADLOCK FALSE` stands
where a bound on terms, commands, joins, entries or failures ends every action,
or where everything is over.

## 4. Fairness

* `RaftEngine!TimersFire` in `DeployedSpec`, and `FairRoutesSpec` of
  `KeyValueRoutes`, where `EveryStartedNodeLeads` is checked: weak fairness of
  the election timeout and of the vote callback of each server.  A timer that is
  armed fires, since Node's event loop runs it unless it is cleared.  Requests,
  commands, `start` and `stop` are not fair.
* `StorageEngine!FilesAreWritten`: weak fairness of `OpenFile` and `WriteFile`
  of each writer.  The thread pool completes each call it was given; failure
  remains possible at any time, and so does a crash.
* `FairRoutesSpec` of `MigrationRoutes`: weak fairness of the end of each
  operation's current delay, a `setTimeout`; requests are not fair.

`WriteAheadLog`, `HashRing`, `ShardManager` and `ClusterView` assume none.

## 5. Proofs

All proofs are checked by TLAPS, and hold for every value of the constants that
satisfies the modules' `ASSUME`s: identifiers are distinct from null, times,
sizes and bounds are naturals, the chunk size is positive, the weights of nodes
are bounded naturals, there are finitely many nodes, requests of peers are
well formed.  The bounds are arbitrary numbers there.

Every invariant and every action property of the runs that pass is stated by a
theorem; the three liveness properties are not (see the end of this section).

**RaftEngineProofs.**  `TypeCorrect`, `NeverStuck`, `RolesAgree`, `VoteSafety`,
`LogsStayOrdered`, `AppliesInOrder`.  Two inductive invariants.  `RoleInv`
joins the types with the relations of timers, role, vote and phase: none is
inductive alone, since whether a handler leaves the node a timer depends on the
role, and the role's agreement with the vote depends on which timers may still
fire.  `LogInv` joins the types, the order of the log and the order of what was
applied: applying in order needs a numbered log, and a log stays numbered when
cut and refilled only if requests are well formed and the entry before the cut
agrees.  Lemmas on append, concatenation and slices of logs carry the
arithmetic of indices; `commitIndex = -1` on an empty log is in reach, and the
proof covers it.

**StorageEngineProofs.**  `TypeCorrect`, `SettledDisk`, `ServesAcknowledged`,
`SettledRestart`, from `DiskInv`, which adds `SoloWriterOwnsFile` (checked by
`storage_safety`): a writer that has had the file to itself carries the
acknowledged data, finds the file as it truncated it, and its engine is open.
Without this the end of a writer says nothing about the file.

**LoopLemmas.**  The code's loops are folds over arrays, and two things stand in
the way of reasoning about them: the provers do not instantiate a theorem that
takes an operator, and the community modules define a fold by a recursive
function over sets of indices.  So the body of a loop is the constant `Op` of
this module, which is instantiated once for each loop; and induction is stated
about the set of the cases a property holds of (`LeastNumber`, `UpTo`,
`Subsets`, `Appends`).  The fold's recursion takes the greatest index first;
`Turns` unwinds it, once and for all, into a function `turn` whose value at k is
the result after k turns, so that a proof about a loop has the form of a loop
invariant: true before the first turn, kept by each, enough after the last.
`FoldEmpty` and `FoldAppend` say the same of one element more.  `Ranks` and
`SortedArray` show that a finite set in a linear order has an array in which each
element stands at its rank, `OneOrder` that it has no other.

**WriteAheadLogProofs.**  `TypeCorrect`, `TheLogHoldsWhatItOwes`
(`DueIsReadable`, the first half of `LostOnlyToARaceOrACrash`) and
`FailuresAreCheap` (`FailureCostsOneEntry`), for any number of callers, entries,
failures and truncations.  `WalInv` adds to them that an entry is handed over
once (`EntriesAreDistinct`), that a line without its end is no entry the log owes
(`TornIsNobodys`; without it the append that continues the line might destroy
one), that a truncation between its read and
its write carries what is due (`KeepsTheDue`), and that a piece of a line is the
only debt of a failure still to be paid (`FailuresPay`).  What an append may do
to the file, whole or cut off, is one definition, `Grown`: no line is lost but a
piece of one.  A truncation that is cut off leaves a file of the right type
(`CutWriteLines`), in which nothing is owed.  `AcknowledgedEntriesAreRead` is the whole of
`LostOnlyToARaceOrACrash`: reading page by page, too, shows what is owed.  The
entries parsed from a file in two parts are those of the first and then those of
the second (`ParsedConcat`, an induction over the second part), so that the
slices of a log meet.  `ReplayDecides`: of a key that the log mentions, a replay
leaves what its last entry says, of any other key nothing changes
(`Replayed`, `OthersUntouched`, two loop invariants), so that the data file does
not decide anything the log speaks of.

**KeyValueRoutesProofs, the node.**  `AcknowledgedIsStored`: of all acknowledged
writes in a process's life only the first set can be missing from the storage,
and only until the next write of its key.  The invariant `NodeInv` adds that the
engine applies each command in the step that appends it, the first excepted
(`AppliedUpToDate`).  `DeleteRepliesHonestly`: `deleted: true` is only said of
a key that was there and is gone.  `NodeRunsTheEngine`: a node takes only steps
of its engine, so that the theorems of `RaftEngineProofs`, here an `INSTANCE`,
hold in it; `TypeCorrect` takes the engine's types from there.

**KeyValueRoutesProofs, the routes.**  `RoutesImplementTheStore`: the refinement
of `KeyValueStore`, one lemma for each kind of request, from `NodeInv` and the
lemmas on what a command leaves in log and storage.  `ReadersSeeWhatWasTold`
follows from `AcknowledgedIsStored` through the two routes' tables of answers.
`RefusalsComeFirst`: nobody ever outvotes a node, so that one that does not lead
has never led.

**MigrationRoutesProofs.**  First the engine: `TypeCorrect`, `WholeBeforeRouting`,
`ReportsAreTrue`, `ProgressGrows` for every size and chunk size.  The invariant
ties bytes moved and progress to the chunk counter in each stage (`WorkSoFar`);
the lemmas are about rounding: `ceil(size / chunk)` chunks cover the size, and
the integer part of `25 + 50 i / n` neither leaves its range nor decreases.
`RoutesRunTheEngine` carries these theorems over to the engine behind its
routes.  `RefusalMeansDone` adds the answer given last to that invariant: a
refused cancellation names finished work, and finished work stays finished.
`PageIsHonest`, for any finite set of operations: records and stages differ in
the cancelled operations only.

**ShardManagerProofs, the ring.**  `LookupFindsNearest`: for every hash function,
with collisions, and every sequence of joins and leaves, the linear scan with its
wrap finds the nearest virtual node clockwise, and of several there the one that
joined first.  `MovementIsMinimal`: a key moves only to a node that has just
joined, or from one that has just left.  `ShardsLeaveNoGap`: a key has a shard
exactly when a virtual node of its own node stands at or before it.  For this the
ring must be finite, so that a virtual node's number, a cardinality, is a natural
number, and the shards must be those of the ring (`ShardInv`); the shard is that
of the node's last virtual node up to the key, which exists by the same argument
on naturals counted downwards.  The invariant `RingInv` says that
members have distinct join numbers up to the counter, and that the virtual nodes
in the ring are of members, at the positions that the hash gives them.  The array's first element of a
set exists and is unique, since (position, join, index) is ordered by three
naturals: the well-foundedness of the naturals gives the existence, the distinct
join numbers the uniqueness.

`ReplicasAreRight` and `SecondReplicaTakesOver` are about the second loop of the
ring.  Its invariant is `Found`: the result names different nodes, all of the
part of the array that was read; all of them, unless it is full; the first one is
the node of the array's first element, and the second one the first other node
that was met.  From the last conjunct it follows that, with the first node's
virtual nodes taken away, the lookup ends at the second replica.

**ShardManagerProofs, the manager.**  `ManagerTypesOK`, `EachOperationRunsOnce`,
`LeaversShardsMove`, `RebalancingIsFair`, for any nodes, weights, threshold and
number of operations.  `ManagerInv` joins `ShardInv` with the types and
`EveryShardHasMetrics`: a returning node with another weight has other shards,
and only because every join writes the metrics of all shards of the new ring does
each have some.  A leaving node's target is, of the others with the fewest
shards, the one that comes first on the ring, and it stays when another node has
shards at all.  For
the rebalancing, `Collected` is the invariant of the loop over the overloaded
nodes: every move is from one of the nodes run through, its target has fewer shards
(`TargetHasFewer`), and no shard occurs twice, since the nodes are different
and a node's shards are its own.  `ExcessIs`
does the arithmetic of the threshold in percent, and `TakenFromOne` counts what a
source is left with.

**ClusterViewProofs.**  `TableFollowsTheEngine` and `StopIsAlmostFinal`, from
`TableInv`: a node that was not started is blank, one that was has itself and the
configured nodes for members (`MembersAreConfigured`, by the loop `JoinAll`, for
lists in any order and with repetitions), the table has the members, with the
own engine's status (`TableMirrorsOneEngine`, for which each step of the engine
that changes the status must be one that calls back), and that status agrees with
the leader and the vote the engine keeps elsewhere (`RoleAgrees`).  It holds
under requests of peers, too.  Without them a stopped engine has no election
timer (`StoppedIsUntimed`).

`NewcomersDivide`: of two nodes of which one knows less, lookups differ only
where the answer is a newcomer, and the replicas of the one are those of the
other without the newcomers.  The two rings have different orders of joining; but
when different nodes stand apart the array read from a key on is in an order
(`SoonerLex`) that does not mention joining, and the replica loop lists the
members by their nearest virtual node (`Prior`).  Two arrays of the same elements
in one order are equal (`OneOrder`), and leaving out the newcomers (`Keep`, a
third loop) keeps both the elements wanted and the order.

`LeadersAgreeOnTargets`: the target that a node chooses is the `Best` node:
members have equally many shards (`ViewCounts`), so it is the other member that
comes first on the ring.  Where different nodes stand apart there is only one,
whatever the order of the list, and it remains the target of the operation on
record (`TargetsAreBest`), unless the client named it, which `named` records
(`ScheduledNames`).  A by-product is worth knowing: with members of one weight, as
every node's `initialize` gives them, no node is overloaded at any threshold
(`NothingToRebalance`), so that `POST /rebalance` schedules nothing on any node
that runs.

**Only model-checked.**  The liveness properties `EveryStartedNodeLeads`
(`node_kv`), `CloseEnds` (`storage_safety`) and `StartedMigrationsComplete`
(`migration_ops`).  They rest on weak fairness, whose meaning is that of ENABLED,
and the prover does not reason about that.

## 6. Not modelled

* A transport between nodes: there is none.  So no two engines of the model
  talk; `RaftEngine` receives requests of external peers instead, and the nodes
  of `ClusterView` exchange nothing.
* A caller of `appendToWAL` and `truncateWAL`: no code calls them, so the callers
  of `WriteAheadLog` are whoever uses these public methods.
* The `/plan` route of the migration routes, which answers with a plan it drops,
  and listings and statistics that only format what other parts keep.
* The numbers in shard metrics; `getShardData` and `setShardData`, which have no
  caller.
* `cluster-manager.ts`, the predecessor of `RaftClusterManager`, imported by
  nothing that runs.
* Dashboard, metrics, logging.
* Names and sizes: the key-value schema's length limits; a ttl of a unit other
  than the clock's.
* `writeFile` of the data file in more than two steps: a crash leaves the file
  empty or whole, not cut in the middle.  A cut text is no JSON, as an empty one
  is not.  In the log, where a cut text matters, it is modelled.

## 7. Plan

1. `NodeLives`: `KeyValueRoutes` and `StorageEngine` composed over several lives
   of a process; what a client was told against what the next life serves; a
   term and a vote that a restart forgets (`raft-engine.ts:25`).
2. Two engines over an external transport, for a candidate that hears the leader
   of its own term and stays a candidate (`raft-engine.ts:198`).
3. In proof: the invariants of `NodeLives`, from those of the storage engine and
   of the routes; that two nodes of `ClusterView` run the engine of
   `RaftEngine`, as `NodeRunsTheEngine` shows it of one.
4. Larger weights for the shard manager, where two overloaded nodes can push one
   underloaded node above both (`shard-manager.ts:346`).
