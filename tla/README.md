# Verification of Distributed MemOS

TLA+ models of the distributed core of MemOS (`src/`), the TLC runs that check
them on small instances, and proofs that TLAPS checks for every instance.
`PROJECT.json` lists components, runs, mutants, the source lines behind each
definition, findings, hazards and theorems.

Every module translates the Go code, with what it does on errors included. Where
a comment or the documentation promises more than the code does, the promise is
not assumed; two such promises are runs that show how they fail, the others are
listed with the runs.

## 1. Inventory

MemOS stores the memories of agents. A node is one process (`cmd/memos`) with a
gRPC service, a Postgres and a Qdrant (in `deployments/docker-compose.cluster.yml` three
nodes share one of each), an optional Neo4j, and NATS between the nodes.

| Component | State it keeps | Operations | Correct when |
| --- | --- | --- | --- |
| Shard placement `fabric/sharding.go` | none | replicas, owner and primary of a hash in a list of nodes | replicas are distinct; nodes agree on who stores what |
| Gossip `fabric/gossip.go` | table of peers with time stamps | announce once, heartbeat every 10 s, handle joined, left, heartbeat; list the active | active means heard of within the TTL; the dead are dropped; the live are found |
| Event bus `fabric/events.go` | NATS subscriptions | publish, subscribe, dead letters | at most once; a failed event becomes a dead letter |
| Replication `fabric/replication.go` | bounded channel, one loop | enqueue, ownership test, versioned upsert, index | rows are neither lost nor rewritten; a vector has its row |
| Anti-entropy `fabric/antientropy.go` | digests of each peer | list, publish digests, compare, repair | what a node believes of a peer is as recent as the last broadcast, and converges; what differs is repaired |
| Store `api/memory_handler.go` | none of its own | authorise, save, audit, index, publish, start the conflict task | what is announced is saved; each row has its audit entry or a known reason |
| Retrieve `api/memory_handler.go`, `core/cache.go` | cache of 512 entries, 30 s | search, hydrate, augment, rank, update statistics | what is scored is as the row is, or was a bounded time ago; list and map of the cache agree |
| Ageing `core/aging.go` | none; works on rows and vectors | hourly: delete, then archive, batches of 50 | no vector outlives its memory; what is cold leaves search; what is archived stays |
| Reflection and consolidation `core/reflection.go`, `core/consolidation.go` | none; marks rows | fetch candidates, group, save a summary, mark | nothing is marked without a summary; nothing is summarised twice |
| Circuit breaker `core/reliability.go` | state, failure count, time of the last failure | `Execute` around a call of the embedder | closed below the threshold; recovers with the service |
| Conflicts and graph `core/conflict.go`, `storage/neo4j.go` | graph, importance of rows | a task per Store: find related memories, compare, lower the loser, mark the pair | every contradiction is marked, the fresher memory wins, a loser is lowered a bounded number of times |
| Roles, policies, audit `core/authorization.go`, `storage/postgres.go`, `cmd/memos/main.go` | roles, audit log, row-level security, created again at every start | authorise, set a role, write the audit entry, seed a development principal | a start never leaves a table closed without cause; no start and no other tenant makes a manager |
| Telemetry `core/telemetry.go` | atomic counters, ring of spans | record, snapshot | maxima and counts lose nothing |
| Ranking, embedding, dashboard, MCP server, configuration, clients | none | pure functions, rendering, translation | |

How they interact: Store commits the row, then calls Qdrant, then publishes on
NATS. Every node, the publisher included, gets the event, puts it in a channel,
and its loop asks Gossip for the active nodes and Sharding whether to apply it.
Anti-entropy exchanges digests on another subject and may publish the same event
again. Ageing, reflection and consolidation run in every process on timers and
share rows and vectors with Store and Retrieve through the two stores only. Each
Store starts a task that compares the new memory with its neighbours in Neo4j and
lowers rows in Postgres; Retrieve reads both, and its cache hears of neither. Every
process that starts changes the policies of the Postgres the running ones use.

What is hard here:

- *Ordering.* NATS keeps the order of a subject, not between subjects, and each
  subscription has a goroutine.
- *Partial failure.* Every operation is several calls to Postgres, Qdrant and
  NATS with no transaction across them; most errors are logged and passed over.
- *Crashes.* Channel, digests and membership live in memory; nothing is replayed.
- *Interleaving.* Statements of workers, replicas and handlers interleave on one
  Postgres; lists are read in one transaction and acted upon in others. The two
  tasks of a contradicting pair, and the starts of two nodes, interleave likewise.
- *Staleness.* Digests of peers, of rows that ageing has deleted since, cached memories, importance read before it is lowered, a role read
  before it is revoked.
- *Views.* Nodes decide ownership from lists nobody agreed on.

## 2. Modules

| Module | Models | Composition |
| --- | --- | --- |
| `Sharding` | `ShardingStrategy`, the lists `GetActiveNodes` can return | operators, used below |
| `Ownership` | what the nodes of a cluster decide from the lists they obtained | extends `Sharding` |
| `Copies` | what clients may rely on when memories are stored and copied | abstract |
| `Replication` | Store, the event bus, the replication manager, upsert and Qdrant, crash and restart | extends `Sharding`, implements `Copies` |
| `AntiEntropy` | `AntiEntropyManager`, with all of Replication and the deletions of ageing | extends `Replication`, refines it with deletions |
| `Gossip` | `GossipProtocol` and its three subjects | on its own |
| `CircuitBreaker` | `CircuitBreaker.Execute`, `ReliableEmbedder` | on its own |
| `Aging` | `AgingWorker`, its four statements | on its own |
| `Reflection` | `ReflectionWorker` and `MemoryConsolidator` | on its own |
| `Access` | start of a node on Postgres, policies, seeding, roles, audit | on its own |
| `Conflict` | graph, `ConflictResolver` and the tasks Store starts | used below |
| `StaleReads` | what a reader of a cached store may rely on | abstract |
| `Retrieval` | Retrieve and `MemoryCache` over the rows of Conflict | extends `Conflict`, implements `StaleReads` |

`MC<Module>` instantiates a module for TLC, `<Module>Proofs` holds its theorems; those
of Access, Conflict and Retrieval are in `ServiceProofs`. Conflict is checked in the
run of Retrieval, which composes the two.
Operators named as mutants in their comments are changed versions of the next
definition, used to show that the properties notice such a change; no
specification uses them.

### State and actions

**Sharding, Ownership.** `view[n]` is the last result of `GetActiveNodes` on `n`:
the node itself, then any set of peers in any order (a Go map is iterated). A hash
is a number; FNV-1a is not modelled, so the properties hold of every hash.

**Replication.** `request[m]` is the progress of the Store call for memory `m`
(ids come from the database, so each is stored by one call): `SaveMemory`,
`IndexMemory`, `PublishStored`, with `RejectStore` and `LoseCommit` for errors
before and at the commit. `HandleMemoryStored` is the NATS callback, `Dequeue` the
head of the loop with the ownership test, `SelectVersion` and `WriteRow` the two
statements of the upsert (READ COMMITTED: others may write in between),
`IndexVector` the Qdrant upsert. `Die` loses inbox, channel, loop and calls under
way. `lost[n]` records what the code only logs.

**Copies.** `copy[s][m]` is what a store has of a memory: nothing, the original a client's
call has written, or a replica; `CopyOf` reads it off the row (a replica is the row an
event leaves, without metadata; any other row would be "damaged", which `Copies` does not
allow). Accept, replicate and make searchable are its only steps, so a copy is never
changed, replaced or withdrawn and no replica comes before its original.

**AntiEntropy.** `ListMemories` is `runCycle` up to the publication of the digests,
`ComparePeer` the comparison with one peer, `HandleShardSync` the subscription,
`MapRace` the fatal error the Go runtime may raise because `runCycle` iterates
`peerDigests` without its mutex. A checksum is the set of ids it is taken of. Rows go
away under the digests that name them: `ForgetMemory` is `processDeletions` of the
ageing worker for one memory, in one step here, statement by statement in Aging. It takes
the memories of `Forgettable` only, the unimportant ones, and only when their Store calls
and events are at their end (`Settled`): 90 days lie between. `unlisted[p]` records what
was deleted at `p` since its digests last reached NATS.

**Gossip.** A time stamp is its age in ticks of ten seconds. `table[n][m]` is the
stamp `n` keeps of `m`, `inbox[n][s]` the FIFO of subject `s`. `phase` counts the
steps of `Start`, which subscribes to three subjects before it announces itself.

**CircuitBreaker.** The two critical sections of `Execute` are `Admit` and
`Fail`/`Succeed`; `calling` is the set of calls between them.

**Aging.** `worker[w]` is the stage and the rest of the list the worker fetched;
every Postgres statement and every Qdrant call is an action. `forsaken` records the
memories whose Qdrant deletion failed or was never made.

**Reflection.** `worker[w]` holds the groups still to summarise and the members of
the current one still to mark; `Kind[w]` selects the parameters of reflection (a
week, importance above 0.6, by agent, at least two) or of consolidation (a day,
above 0, by tenant, at least three). `summaries[m]` counts, up to two, the
summaries made of a memory; `unmarked` records the memories whose mark failed, hit
no row or was never made.

The metadata column matters to both: Store writes JSON `null` for a request
without metadata (`json.Marshal` of a nil `Struct`), and `jsonb_set` refuses it.

**Access.** `boot[n]` is how far `main` of `n` has come: the four DROPs, the four
CREATEs, the count of the tenants, the seeding, up. Each DROP and CREATE is a
transaction of its own (`DropPolicy`, `CreatePolicy`); the count and the inserts are
one, which keeps others from changing the policy of `tenants` meanwhile
(`TenantsLocked`). `Fatal` is `log.Fatalf`. Requests are two or three transactions:
`AskRole` and `SetAgentRole`; `AskStore`, `SaveMemory` and `WriteAuditLog`.
`orphaned` records the tables whose policy a process dropped that ended before
creating it. `Binding` says whether the policies bind the role the nodes connect as:
`app_user` of `deployments/docker-compose.yml:74` is no superuser, the role of the cluster file
is, and then only the fatal errors of a start remain. The proofs cover both. `SaveMemory`
has three outcomes: the row is there and the audit entry is next; nothing was written;
or the row is there and the answer to its COMMIT was lost, so that Store returns an error
and writes no entry (`unanswered`, the case `LoseCommit` of Replication).

**Conflict.** `task[m]` follows Store of `m` and its goroutine: row, node in the
graph, the related memories found, then for each of them comparison, lowering and
mark; each may fail or be cut off. Importance is in tenths; which texts contradict each
other is a relation. `Related` is the query as written, of paths of up to `Depth` MENTIONS
relations: from one memory to another they have an even length. Store and Retrieve pass a
depth of 1, and Neo4j refuses the query at any depth, because the bound of a path may not be
a parameter; both are behaviours of the model, the latter as the error of `DetectRelated`.
As shipped, then, the graph finds nothing. The rest of Conflict says what the code does as
soon as the query is repaired and asks for a depth of 2, as its comment says it does.

**Retrieval.** `items` and `order` are the map and the list of the cache. `call[c]` is
the progress of one Retrieve: the hits still to hydrate, the row it holds and has not
yet put into the cache, the neighbours still to fetch. `since[m][v]` is the time since
the row had version `v`; `served` is what the last step scored.

## 3. Runs

| Run | Instance | Shows |
| --- | --- | --- |
| `ownership` | 4 nodes, factor 3, hashes 0 to 11 (every residue of every length) | replicas are distinct; a node's decision depends on the hash and the length of its list only; a converged cluster replicates to all or to none; a short list leaves nobody out |
| `replication` | 2 nodes with a store each, 2 memories that any node may take, channel of 1, all faults, fairness | Replication implements Copies; no event without its row, each unindexed row explained, the writer's store left alone; no event vanishes; a received event is stored or given up |
| `anti_entropy` | 2 nodes, 2 memories of one agent, one of which is replicated and deleted by ageing, crashes, race, failed publishes, fairness | replicas agree; the composition refines Replication with deletions; beliefs are as recent as the last broadcast, are lost only with their reason, and converge |
| `gossip_stamps` | 2 nodes, 2 messages per subject, every fault, fairness | active means recent; the dead are dropped |
| `gossip_timely` | 3 nodes, timely delivery, crashes, fairness | stamps are fresh; one of two live nodes knows the other |
| `circuit_breaker` | 4 calls, threshold 3, fairness | state and count agree; recovery |
| `aging` | 2 workers on one store, 2 memories, the first of which cannot be archived and the second of which may be deleted, all faults, fairness | vectors left behind are explained; the other memory is reached all the same; archived memories that nobody had listed for deletion are kept |
| `reflection` | both kinds of worker, 4 memories of 2 agents, the oldest without metadata, all faults, fairness | what is marked is summarised; what is summarised is marked or its mark failed; a pair that is due is reflected |
| `access` | 2 nodes, 3 agents of 3 tenants, an empty database or one of others | a missing policy is explained; a node that starts alone gets through; the development owner comes into an empty database only; a tenant without managers gets none; the audit trail, lost answers included |
| `retrieval` | 2 contradicting memories, the older with three tenths to lose, depth 2, 1 caller, a cache with room for one | Retrieve refines StaleReads; list and map agree; the fresher memory wins, the loss is bounded |

Two runs are expected to find a violation, each with a finding in `PROJECT.json`:

| Run | Claim | What happens |
| --- | --- | --- |
| `gossip_rejoin` | nodes discover each other (`README.md:309`) | a late Left removes the restarted node for good |
| `anti_entropy_repair` | divergent shards are repaired (`antientropy.go:54`, `README.md:358`, `README.md:517`) | a node crashes before it has stored an event, comes back and hears the digest of the memory in every cycle; it never gets the memory, as no two digests of one shard can differ (`NeverRepaired`) |

`OneOfTwoKnows` holds under crashes (`gossip_timely`) and fails under graceful
restarts (`gossip_rejoin`): only a graceful stop publishes Left.

The models also show, without a run of their own:

- A memory whose hash is a multiple of the cluster size is replicated by no node,
  each being the primary in its own list (`AllOrNothing`, `SelfFirstDecision`);
  `cmd/client/main_phase4.go:104` speaks of 3-way replication. Of one shard a
  converged cluster has as many primaries as nodes, or none.
- The handler of MemoryStored never returns an error, so nothing reaches the dead
  letters (`README.md:519` says it can); in `Replication`, `HandlerError` is false.
- Anti-entropy notices a missing shard and only logs it, so a vector that Qdrant refused
  is not written later either (`api/memory_handler.go:161` says it can be). Were the shard
  key that of the agent, as the comment of `ShardDigest` suggests, the repair would publish
  records without text: the mutant of `ReplicasAgree`.
- A node believes for ever what a peer that is gone last sent (`BeliefsConverge` is about
  peers that stay); nothing but the log depends on it.
- A node that starts later never learns of those that started earlier: heartbeats
  of strangers are ignored (`OneOfTwoKnows` says one of two, and cannot say both).
- `aging.go:12-13` has memories go from cold to archived to deleted. Archival is due
  first and an archived memory is listed no more, so it is never deleted
  (`ArchivedIsKept`); and one that a worker had listed for deletion before another one, or
  one of the other nodes on the same Postgres, archived it is deleted all the same, as is
  one that was retrieved in between: `DeleteMemory` does not look again.
- A memory whose COMMIT was not answered is stored, though Store said it was not, and has
  no audit entry (`AuditTrail`); a client that retries stores it twice.
- A memory with JSON null metadata is never archived and holds its place in the
  batch; as many of them as the batch has places stop archival (in `aging` the batch
  has one more place). `MarkAsReflected` fails on it too, so such a memory is summarised
  in every cycle that finds it due, though `consolidation.go:52` speaks of memories that
  "haven't been reflected yet".
- Between a summary and its marks the other worker may summarise the same memories
  again.
- Two nodes that start together may close three tables for good. One drops the policy
  of `tenants`, the other has created all four by then, the first drops the other three
  and fails on the CREATE of the first: `MissingPolicyExplained` names the process that
  ended, and with `Binding` everything is denied until the next start.
- Contradictions are not detected as shipped, nor are neighbours retrieved:
  `GetRelatedMemoryIDsForTenant` (`neo4j.go:74-79`) is refused by Neo4j, and with the depth
  of 1 its callers pass (`conflict.go:52`, `memory_handler.go:358`) it would find nothing.
  `DetectAndResolve` says that it "checks if a newly stored memory contradicts any existing
  ones" and the query that it goes "Memory -> Entity <- Memory".
- Rule 2 of `detectConflict` wants the new memory to be a week old and never applies.
- With a query that answers, both tasks of a pair may find it, so a memory may be lowered twice per rival
  (`LossIsBounded`); two of one age and importance may be marked both ways; the pair is
  marked also where the lowering failed, as it does on JSON null metadata.
- A hit below the score threshold may come back as a neighbour in the graph, where no
  threshold is applied. A slow Retrieve may put an old row over a newer cache entry, so
  staleness is `TTL` and the time a row is held, not `TTL` alone; a hit does not prolong
  an entry (`ReadsAreBoundedlyStale`).

### Bounds

- *Replication, AntiEntropy.* Two nodes show every interaction of a writer and a
  replica; a third only adds a replica. Two memories and a channel of one event make
  the channel overflow. The factor of three is that of the code. `replication` has
  every node see every other, so that a memory has a node that must store it whatever
  list it obtains (`Wanted`), which `NoEventVanishes` and `DeliveredIsStored` are about;
  its safety properties are proved for any view, any number of nodes and any sharing of
  stores. The anti-entropy runs use the same views.
- *AntiEntropy.* A node lists again when its previous digests have been handled:
  five minutes against the time of a delivery. In `anti_entropy` each memory has one node
  that takes its Store call, the first is replicated nowhere and never deleted, the second
  is both: the two digests of a broadcast then come and go independently, and a shard of
  both memories, as in the mutant, diverges. `anti_entropy_repair` needs one memory that
  the other node has to store, and crashes.
- *Gossip.* `MaxPending` bounds what NATS holds. `TTL` is two ticks, not three: a
  stamp is fresh, ageing or too old, and only the comparison matters. With `Timely` a
  tick waits for the messages of the previous one; without it delays are unbounded.
- *CircuitBreaker.* The count saturates at the threshold; four calls are one more
  than the threshold, so that a late answer finds the breaker open.
- *Aging.* Idle time is the number of thresholds passed (0, 1, 2); reinforcement
  saturates at 0.6, above every threshold.
  Two workers, as on two nodes of one Postgres, show a deletion against an archival; the
  theorems are for any number. The second memory is below both thresholds, the first,
  which cannot be archived, below that of archival only.
- *Reflection.* `summaries` saturates at two, one more than is right. The batch has
  room for all memories, as `PairIsReflected` requires.
- *Access.* Two nodes are the least that interfere with a start; three tenants are one
  of the requester, one other and that of development. Requests name a role that may
  manage and one that `NormalizeRole` does not know.
- *Retrieval.* Capacity one makes every second entry evict. `MaxFill` 0 and one caller
  keep the run short: a row held over a tick, several callers, more
  memories and a larger cache are covered by `ReadsStayBounded`, `CacheIsCorrect` and
  `LossesAreBounded` for all values. The older memory begins with three
  tenths and has one rival, so that a third loss, which `LossIsBounded` excludes, would
  show; the younger one with one tenth, none of which it may lose. `Depth` is 2, more
  than as shipped: with 1 no memory is compared, and the behaviours with 1 are among those
  with 2, where the query may fail. For the same reason Retrieve may find any neighbour.
  The limit of 20 related memories is not reached. Creation is in the order of the ids; the
  proofs take any order, ties included, and any depth.

Deadlock is checked in every run.

### Fairness

Weak fairness of what goroutines and tickers do: the NATS callbacks, the
replication loop, a Store call that has saved its row, heartbeats that are due, the
cycles of the workers, the end of a protected call. No fairness of clients,
faults, restarts or ageing. Two environments are assumed: time passes (`Tick`,
`Elapse`), and in `circuit_breaker` some client keeps calling, since the breaker
closes on a call only. Weak fairness is enough for these because no action waits
for another that can be disabled again and again: a loop has one current step,
which only it takes.

Strong fairness says that failures pass: what is tried again and again does not
fail every time. It is assumed of the publish of a node's digests (`SendDigests`, in `ExchangeFairness`),
of an ageing worker's listing and of the archival of each memory that can be
archived, not that of JSON null metadata (`ListSucceeds`, `ArchiveSucceeds`), and of a worker's saves and marks
(`SaveSucceeds`, `MarkSucceeds`). The tickers retry for ever, so nothing weaker
makes sense of "eventually" when every call may fail. A process that crashes in
every cycle archives nothing, so `ColdIsArchived` has a premise, `CyclesComplete`: the
process is killed in mid-cycle only finitely often. A reflection worker marks a member
as its first step after a summary, so `PairIsReflected` needs no such premise. Access
and Retrieval have no liveness properties: a start may always fail again.

## 4. Proofs

Each theorem is about the specification a run checks, without its bounds: any
numbers of nodes, stores, memories, workers and calls, any capacity, any list
gossip reports, and every subset of the faults. The assumptions are the `ASSUME`s
of the modules, which say what the constants are; a theorem that needs more says so in
its statement (three of Gossip do). Every invariant and every action
property that a run checks is stated by a theorem.

- **OwnershipProofs.** A node is first in its own list and nowhere else in it, so
  whether it is a replica is whether the cyclic window of the hash meets index 0, a
  question in which the node does not occur: `DecisionIsSelfFirst`, and from it
  `ReplicationIsAllOrNothing`. The window wraps at most once, so it is injective modulo
  the length of the list (`ReplicasAreDistinct`) and, where it is as long as the list,
  hits every index (`ShortListsOwnAll`).
- **ReplicationProofs.** `EventsBackedByRow` needs that an event in hand names a
  request that passed its commit; `RowsNeverRewritten` that all versions are the
  initial one and that rows only come into being; `VectorHasRow` that a loop that
  is about to index has its row; `UnindexedRowExplained` adds that a request past
  its save has its row; `WritersStoreIsLeftAlone` that an event in hand has its row
  at the writer, so a node that shares that store has read a version before it decides
  (`SeenBeforeWrite`). `ReplicationKeepsCopies`, the refinement of Copies, adds that the
  row of a committed call is the one it wrote (`OriginalKept`); then a step leaves both
  stores alone, writes the first row of a memory, a replica where there is none, or a
  vector of a row (`DataStep`), which are the steps of Copies. `EventsDoNotVanish` follows
  an event through inbox, channel and loop: the node that has to store it decides so
  whatever list it obtains (`WantedApplies`), and an event taken for stale has its row
  (`SeenIsThere`). It is `DeliveredIsStored` without fairness.
- **AntiEntropyProofs.** The shard key ends in the memory id, so every digest is of
  one memory; two digests of a shard are equal; nothing diverges, and nothing is ever
  published again (`NeverRepaired`). Each step of the composition is therefore a step of
  Replication, a deletion, or changes none of its variables
  (`AntiEntropyImplementsReplication`). Deletions break one part of the invariant of
  Replication, that every event has its row, so it is split: `RCore` is what deletions
  leave alone, `Backed` the rest, and a deletion waits for the end of the events
  (`Settled`). `DigestsTruthful` and `KnowledgeIsKept` rest on `Beliefs`: what the broadcast of `p` that is under way to a node names, `p`
  holds or has deleted since; what the node believes already is true likewise, or such a
  broadcast is under way; that one names all the node believes and `p` still holds; and a
  memory that somebody believes in and `p` has no more is done with (`Settled`), so it does
  not come back.
- **GossipProofs.** `ActiveMeansRecent` is not inductive, because a stamp that is too
  fresh could still be under way; `StampsAreOld` speaks of the messages too and is.
  `FreshWhenDrained` is proved for timely delivery without loss: what is under way has
  been published since the last tick, and a stamp that is not the last one has its
  successor under way (`FreshInv`). With a TTL above one heartbeat it follows that a live
  peer that is known is active (`LivePeersStayActive`). `OneOfTwoHears` is
  `OneOfTwoKnows` without fairness, with late messages too: the node of a pair that
  announces itself last is heard by the other, which has subscribed by then, and without
  Left messages nothing undoes that. Graceful stops are excluded, rightly:
  `gossip_rejoin` shows what they do.
- **CircuitBreakerProofs.** `ClosedBelowThreshold` is inductive with the types;
  `OneFailureReopens` needs that a half-open breaker has seen its timeout pass.
- **AgingProofs.** `VectorExplained` lacks the order within a deletion: when a row is
  about to go, its vector has gone or was refused (`PurgedFirst`). `ArchivedIsKept`, for any
  number of workers, says of whom an archived memory is out of reach: a worker takes into
  its list what is not archived at that moment, so once an archived memory is in no list of
  deletions it comes into none. Without that premise it is false: one worker may delete
  what it had listed before another one archived it.
- **ReflectionProofs.** `MarkedIsSummarised` with the fact that the members a worker
  has still to mark have a summary (`SummarisedTodo`); `SummaryIsMarked` with the fact
  that a member leaves the list of a worker only by a mark or into `unmarked`.
- **ServiceProofs, Access.** `MissingPolicyExplained` is inductive with the types,
  because the position of a node tells which policies it has dropped. `AloneIsAdmitted`
  needs what a node that is alone has done so far: its drops are done and nobody undoes
  them. `DevOnlyIfEmpty` needs that a node about to seed has seen no tenants and holds
  the lock, or cannot insert; `LockedOut` that seeding finds the development agent where
  its tenant is already there. `AuditTrail` needs that who is about to write the entry
  knows that the memory is stored, and that who is about to store it has not.
- **ServiceProofs, Conflict and Retrieval.** `FreshnessWins` needs that a task about to mark has compared dates.
  `ReadsStayBounded`, the refinement of StaleReads, needs that an entry of age `a` and a
  row held for `h` ticks were the row's version at most `a + MaxFill`, `h` ticks ago
  (`AgeInv`). `LossIsBounded` needs a count: each of the two tasks of a pair lowers a memory
  at most once for the pair, and every tenth lost is paid for by a comparison that is spent
  (`LossInv`). `CacheIsCorrect` needs that the list holds the keys of the map, each once
  (`ListInv`), and that what a caller is about to put was read from a row (`HeldInv`).

Only model-checked: the liveness properties (`DeliveredIsStored`, `BeliefsConverge`,
`DeadIsDropped`, `OneOfTwoKnows`, `RecoversWithService`, `ColdIsArchived`,
`PairIsReflected`), because the prover has no fairness, and the two claims the code does not
meet.

## 5. Not modelled

- Telemetry: atomic counters and a ring of spans under a mutex that only the metrics
  page and the dashboard read. The maximum that a compare-and-swap loop keeps is updated
  by the replication loop alone, so there is nobody to race with.
- Ranking and decay: sums of floating-point terms without state. `SaveMemory` writes a
  `decay_factor` of 0.
- Embeddings (HTTP calls; their failures are inputs of other models), Merkle root
  (published, compared nowhere), dashboard (reads and renders), configuration, clients,
  generated code.
- MCP server: a stateless translation. Its package has no `main` function and its store
  tool stores nothing.
- Code without callers: `GetConflicts`, `EnqueueMemoryEvent`, `UpdateDecayFactor`,
  `GetMemoriesByAgent`, `GetMemoryByID`, `HybridEmbeddingGenerator`, `TemporalDecay`,
  `ShouldConvertToSemantic`. Dead letters have no consumer.
- Shutdown stops replication and gossip before the gRPC server, so a call that is still
  served publishes without them; in Replication the writer's own copy changes nothing
  (`WritersStoreIsLeftAlone`), and its end is that of a crash.
- A node that runs but has lost its connection to NATS, or reads too slowly, misses
  messages (`events.go:83`); in Replication and AntiEntropy a node misses messages only
  while it is down. For its store the two are one: the event is not received, and nothing
  sends it again. A node's own ShardSync, which it drops, is not delivered to it.
- In Retrieval a cache miss and the reading of the row are one step: the miss alone only
  removes an entry that has expired.
- Of ageing, Replication and its refinement of Copies know nothing (months against
  seconds); AntiEntropy has its deletions, not its archivals. Store is one
  handler in three models (Access, Replication, Conflict), each with the save they share.
- Gossip and Replication are not composed in a run: Replication takes any list that
  gossip can report at every decision, so what is proved of it holds with Gossip too.
- Collisions of hashes and checksums, clock skew between nodes, NATS payload limits. A
  statement whose client has died is taken to have no effect later.

## 6. Plan

Done: the core (Sharding, Ownership, Replication, AntiEntropy, Gossip, CircuitBreaker,
Aging, Reflection), then the services (Access, Conflict, Retrieval over StaleReads),
with proofs of all of them.

Left, in this order:

1. `Cluster`: Gossip composed with Replication, for liveness across a change of
   membership, which neither can state.
2. The lowering of importance as an environment of Aging.
