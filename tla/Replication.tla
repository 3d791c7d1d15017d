---------------------------- MODULE Replication -----------------------------
(***************************************************************************)
(* Storing a memory and replicating it:                                    *)
(*   src/internal/api/memory_handler.go (Store),                           *)
(*   src/internal/fabric/replication.go (ReplicationManager),              *)
(*   src/internal/fabric/events.go (publish, subscribe, dead letters),     *)
(*   src/internal/storage/postgres.go (SaveMemory, Upsert...).             *)
(*                                                                         *)
(* A client stores a memory on any node.  The node inserts a row in its    *)
(* Postgres, upserts a vector in its Qdrant and publishes MemoryStored on  *)
(* NATS.  Every running node, the publisher included, receives the event,  *)
(* tries to enqueue it in a bounded channel, and one goroutine takes the   *)
(* events from there and applies them.                                     *)
(*                                                                         *)
(* A memory id is generated by the database, so each memory is stored by   *)
(* one request on one node.  Content is abstracted to whether a row holds  *)
(* the text that was stored, metadata to whether it is the writer's.       *)
(* Core NATS is modelled by one FIFO per node and delivers at most once.   *)
(* Left out: the ageing of memories over months (internal/core/aging.go),  *)
(* which is the only code that deletes rows and vectors (AntiEntropy adds  *)
(* it), and the columns and the graph that replication neither reads nor   *)
(* writes.                                                                 *)
(***************************************************************************)
EXTENDS Sharding

CONSTANTS
    Nodes,          \* the processes
    Stores,         \* Postgres + Qdrant pairs
    StoreOf,        \* StoreOf[n]: the pair node n is configured with
    Memories,       \* memory ids
    EntryNodes,     \* EntryNodes[m]: the nodes the client that stores m may call
    Hash,           \* Hash[m]: hash of the shard key of m
    PeerSets,       \* the sets of nodes gossip may report as active
    QueueCapacity,  \* capacity of the replication channel (1000)
    Faults          \* what may go wrong: see FaultKinds

\* An error of Postgres, of Qdrant, of nc.Publish, the end of a process, and (in
\* AntiEntropy) a detected data race.
FaultKinds == {"postgres", "qdrant", "publish", "crash", "race"}

ASSUME ReplicationAssumption ==
    /\ IsFiniteSet(Nodes) /\ Nodes # {}
    /\ StoreOf \in [Nodes -> Stores]
    /\ EntryNodes \in [Memories -> SUBSET Nodes]
    /\ Hash \in [Memories -> Nat]
    /\ PeerSets \subseteq SUBSET Nodes
    /\ QueueCapacity \in Nat \ {0}
    /\ Faults \subseteq FaultKinds

VARIABLES
    up,         \* up[n]: node n runs (subscribed, replication loop started)
    request,    \* request[m]: progress of the Store call for m
    row,        \* row[s][m]: the Postgres row of m in store s
    vector,     \* vector[s]: the memories with a point in Qdrant of store s
    inbox,      \* inbox[n]: MemoryStored messages NATS holds for n
    queue,      \* queue[n]: replicationQueue
    loop,       \* loop[n]: where the replication goroutine of n stands
    lost,       \* lost[n]: memories n gave up on (history; see GiveUp)
    dlq         \* memories published on memory.stored.dlq

nodeVars == <<up, inbox, queue, loop>>
dataVars == <<row, vector>>
vars     == <<up, request, row, vector, inbox, queue, loop, lost, dlq>>

-----------------------------------------------------------------------------
(* Data. *)

NoRow     == [version |-> 0, content |-> "none", metadata |-> "none"]
NoVersion == 0                  \* pgx.ErrNoRows
NoNode    == "no node"

InitialVersion == 1             \* Version: 1 in Store

Event == [memory : Memories, version : {InitialVersion}, content : {"stored", "blank"}]
Row   == [version : {InitialVersion}, content : {"stored", "blank"},
          metadata : {"writer", "null"}]

\* The row SaveMemory inserts, and the one an upsert of event e leaves: the
\* event carries no metadata.
SavedRow       == [version |-> InitialVersion, content |-> "stored", metadata |-> "writer"]
ReplicaRow(e)  == [version |-> e.version, content |-> e.content, metadata |-> "null"]
StoredEvent(m) == [memory |-> m, version |-> InitialVersion, content |-> "stored"]

Idle == [stage |-> "idle"]
At(stage, e, seen) == [stage |-> stage, event |-> e, seen |-> seen]

HasRow(n, m) == row[StoreOf[n]][m] # NoRow

\* Node n logs an error about m, or drops its event, and goes on.  The code
\* keeps no trace of it but a log line; lost is that log.
GiveUp(n, m) == lost' = [lost EXCEPT ![n] = @ \cup {m}]

Init ==
    /\ up = [n \in Nodes |-> TRUE]
    /\ request = [m \in Memories |-> [stage |-> "new", at |-> NoNode]]
    /\ row = [s \in Stores |-> [m \in Memories |-> NoRow]]
    /\ vector = [s \in Stores |-> {}]
    /\ inbox = [n \in Nodes |-> <<>>]
    /\ queue = [n \in Nodes |-> <<>>]
    /\ loop = [n \in Nodes |-> Idle]
    /\ lost = [n \in Nodes |-> {}]
    /\ dlq = {}

-----------------------------------------------------------------------------
(* The Store handler. *)

\* authorize, the embedder or SaveMemory returned an error: nothing is kept.
RejectStore(n, m) ==
    /\ "postgres" \in Faults
    /\ up[n] /\ n \in EntryNodes[m] /\ request[m].stage = "new"
    /\ request' = [request EXCEPT ![m] = [stage |-> "rejected", at |-> n]]
    /\ UNCHANGED <<nodeVars, dataVars, lost, dlq>>

\* Mutant of SaveMemory: an error of the insert is ignored.
SaveMemoryUnchecked(n, m) ==
    /\ up[n] /\ n \in EntryNodes[m] /\ request[m].stage = "new"
    /\ request' = [request EXCEPT ![m] = [stage |-> "saved", at |-> n]]
    /\ UNCHANGED <<nodeVars, dataVars, lost, dlq>>

\* SaveMemory commits the row.
SaveMemory(n, m) ==
    /\ up[n] /\ n \in EntryNodes[m] /\ request[m].stage = "new"
    /\ request' = [request EXCEPT ![m] = [stage |-> "saved", at |-> n]]
    /\ row' = [row EXCEPT ![StoreOf[n]][m] = SavedRow]
    /\ UNCHANGED <<nodeVars, vector, lost, dlq>>

\* SaveMemory commits, but the answer to its COMMIT is lost: the call fails and
\* the row stays.
LoseCommit(n, m) ==
    /\ "postgres" \in Faults
    /\ up[n] /\ n \in EntryNodes[m] /\ request[m].stage = "new"
    /\ request' = [request EXCEPT ![m] = [stage |-> "rejected", at |-> n]]
    /\ row' = [row EXCEPT ![StoreOf[n]][m] = SavedRow]
    /\ GiveUp(n, m)
    /\ UNCHANGED <<nodeVars, vector, dlq>>

\* Mutant of IndexMemory: the call is left out.
IndexMemorySkipped(n, m) ==
    /\ up[n] /\ request[m] = [stage |-> "saved", at |-> n]
    /\ request' = [request EXCEPT ![m].stage = "indexed"]
    /\ UNCHANGED <<nodeVars, dataVars, lost, dlq>>

\* Qdrant UpsertMemory; an error is logged and the call goes on.
IndexMemory(n, m) ==
    /\ up[n] /\ request[m] = [stage |-> "saved", at |-> n]
    /\ request' = [request EXCEPT ![m].stage = "indexed"]
    /\ \/ /\ vector' = [vector EXCEPT ![StoreOf[n]] = @ \cup {m}]
          /\ UNCHANGED lost
       \/ /\ "qdrant" \in Faults
          /\ GiveUp(n, m)
          /\ UNCHANGED vector
    /\ UNCHANGED <<nodeVars, row, dlq>>

\* nc.Publish of event e reaches the inbox of every node in Receivers.
Broadcast(e, Receivers) ==
    inbox' = [n \in Nodes |-> IF n \in Receivers THEN Append(inbox[n], e) ELSE inbox[n]]

Running == {n \in Nodes : up[n]}

\* PublishMemoryStored, then the answer to the client.  An error of the publish
\* is logged.
PublishStored(n, m) ==
    /\ up[n] /\ request[m] = [stage |-> "indexed", at |-> n]
    /\ request' = [request EXCEPT ![m].stage = "done"]
    /\ \/ /\ Broadcast(StoredEvent(m), Running)
          /\ UNCHANGED lost
       \/ /\ "publish" \in Faults
          /\ GiveUp(n, m)
          /\ UNCHANGED inbox
    /\ UNCHANGED <<up, queue, loop, dataVars, dlq>>

-----------------------------------------------------------------------------
(* The replication manager. *)

\* What the subscription handler returns to SubscribeToMemoryStored: nil, also
\* when the channel was full.
HandlerError(q) == FALSE

\* Mutant of HasRoom: one element too many.
HasRoomOffByOne(q) == Len(q) <= QueueCapacity

\* The channel takes another event without blocking.
HasRoom(q) == Len(q) < QueueCapacity

\* SubscribeToMemoryStored: the handler enqueues the event, or drops it when
\* the channel is full; a handler error sends the message to the dead letters.
HandleMemoryStored(n) ==
    /\ up[n] /\ inbox[n] # <<>>
    /\ LET e == Head(inbox[n])
       IN  /\ IF HasRoom(queue[n])
              THEN queue' = [queue EXCEPT ![n] = Append(@, e)] /\ UNCHANGED lost
              ELSE GiveUp(n, e.memory) /\ UNCHANGED queue
           /\ dlq' = IF HandlerError(queue[n]) THEN dlq \cup {e.memory} ELSE dlq
    /\ inbox' = [inbox EXCEPT ![n] = Tail(@)]
    /\ UNCHANGED <<up, request, loop, dataVars>>

\* replicationLoop receives an event and applyReplication decides, with the
\* node's own list of active nodes, whether to store it.
Dequeue(n) ==
    /\ up[n] /\ loop[n] = Idle /\ queue[n] # <<>>
    /\ LET e == Head(queue[n])
       IN  \E peers \in PeerSets : \E v \in Views(n, peers \cup {n}) :
              loop' = [loop EXCEPT ![n] =
                  IF AppliesEvent(n, Hash[e.memory], v) THEN At("select", e, NoVersion) ELSE Idle]
    /\ queue' = [queue EXCEPT ![n] = Tail(@)]
    /\ UNCHANGED <<up, request, inbox, dataVars, lost, dlq>>

\* An error of a statement (a tenant that this Postgres does not know is one: the
\* row has foreign keys) ends applyReplication; replicationLoop logs it.
ApplyFails(n) ==
    /\ GiveUp(n, loop[n].event.memory)
    /\ loop' = [loop EXCEPT ![n] = Idle]
    /\ UNCHANGED dataVars

\* Mutant of SelectVersion: the vector is written without the row.
SelectVersionThenIndex(n) ==
    /\ up[n] /\ loop[n].stage = "select"
    /\ loop' = [loop EXCEPT ![n].stage = "index"]
    /\ UNCHANGED <<up, request, inbox, queue, dataVars, lost, dlq>>

\* UpsertMemoryWithConflictResolution, first statement: SELECT version.
SelectVersion(n) ==
    /\ up[n] /\ loop[n].stage = "select"
    /\ \/ /\ loop' = [loop EXCEPT ![n].stage = "write",
                                  ![n].seen = row[StoreOf[n]][loop[n].event.memory].version]
          /\ UNCHANGED <<dataVars, lost>>
       \/ "postgres" \in Faults /\ ApplyFails(n)
    /\ UNCHANGED <<up, request, inbox, queue, dlq>>

\* Mutant of Newer: "Only update if incoming version is >= current", as the
\* comment above the comparison has it.
NewerOrEqual(version, seen) == version >= seen

\* The incoming version replaces the one that was read only when it is newer.
Newer(version, seen) == version > seen

\* Second statement and commit: INSERT when no row was seen (a unique violation
\* if one has appeared since), UPDATE when the event is newer, else nothing.
\* The answer to the commit may be lost.
WriteRow(n) ==
    /\ up[n] /\ loop[n].stage = "write"
    /\ LET e         == loop[n].event
           seen      == loop[n].seen
           duplicate == seen = NoVersion /\ HasRow(n, e.memory)
           stale     == seen # NoVersion /\ ~ Newer(e.version, seen)
       IN  \/ /\ ~ duplicate /\ ~ stale
              /\ row' = [row EXCEPT ![StoreOf[n]][e.memory] = ReplicaRow(e)]
              /\ UNCHANGED vector
              /\ \/ /\ loop' = [loop EXCEPT ![n].stage = "index"]
                    /\ UNCHANGED lost
                 \/ /\ "postgres" \in Faults
                    /\ loop' = [loop EXCEPT ![n] = Idle]
                    /\ GiveUp(n, e.memory)
           \/ /\ stale
              /\ loop' = [loop EXCEPT ![n] = Idle]
              /\ UNCHANGED <<dataVars, lost>>
           \/ (duplicate \/ "postgres" \in Faults) /\ ApplyFails(n)
    /\ UNCHANGED <<up, request, inbox, queue, dlq>>

\* Qdrant UpsertMemory of a row that was written.
IndexVector(n) ==
    /\ up[n] /\ loop[n].stage = "index"
    /\ \/ /\ vector' = [vector EXCEPT ![StoreOf[n]] = @ \cup {loop[n].event.memory}]
          /\ loop' = [loop EXCEPT ![n] = Idle]
          /\ UNCHANGED <<row, lost>>
       \/ "qdrant" \in Faults /\ ApplyFails(n)
    /\ UNCHANGED <<up, request, inbox, queue, dlq>>

-----------------------------------------------------------------------------
(* The process. *)

Holds(events, m) == \E i \in DOMAIN events : events[i].memory = m

\* Node n has the event of m in its hands: held for it by NATS, queued, or being
\* applied.
EventAt(n, m) ==
    \/ Holds(inbox[n], m) \/ Holds(queue[n], m)
    \/ loop[n] # Idle /\ loop[n].event.memory = m

\* The same, or n is executing the Store call of m past its commit.
InHand(n, m) ==
    \/ EventAt(n, m)
    \/ request[m].at = n /\ request[m].stage \in {"saved", "indexed"}

\* The process ends: its channel, the event being applied and the messages NATS
\* held for it are gone, and so are its Store calls.  A graceful shutdown does
\* the same: Stop leaves what is queued.
Die(n) ==
    /\ up[n]
    /\ up' = [up EXCEPT ![n] = FALSE]
    /\ inbox' = [inbox EXCEPT ![n] = <<>>]
    /\ queue' = [queue EXCEPT ![n] = <<>>]
    /\ loop' = [loop EXCEPT ![n] = Idle]
    /\ request' = [m \in Memories |->
          IF request[m].at = n /\ request[m].stage \in {"saved", "indexed"}
          THEN [stage |-> "aborted", at |-> n] ELSE request[m]]
    /\ lost' = [lost EXCEPT ![n] = @ \cup {m \in Memories : InHand(n, m)}]
    /\ UNCHANGED <<dataVars, dlq>>

Crash(n) == "crash" \in Faults /\ Die(n)

\* The process starts again and subscribes.
Restart(n) ==
    /\ ~ up[n]
    /\ up' = [up EXCEPT ![n] = TRUE]
    /\ UNCHANGED <<request, inbox, queue, loop, dataVars, lost, dlq>>

StoreStep(n, m) ==
    \/ RejectStore(n, m) \/ SaveMemory(n, m) \/ LoseCommit(n, m)
    \/ IndexMemory(n, m) \/ PublishStored(n, m)

LoopStep(n) == Dequeue(n) \/ SelectVersion(n) \/ WriteRow(n) \/ IndexVector(n)

NodeStep(n) == HandleMemoryStored(n) \/ LoopStep(n) \/ Crash(n) \/ Restart(n)

Next ==
    \/ \E n \in Nodes, m \in Memories : StoreStep(n, m)
    \/ \E n \in Nodes : NodeStep(n)

Spec == Init /\ [][Next]_vars

\* A running node's goroutines make progress: the NATS dispatcher, the
\* replication loop, and a Store call once its row is saved.  Clients need not
\* call, nothing has to fail, and a crashed node need not come back.
Fairness ==
    /\ \A n \in Nodes : WF_vars(HandleMemoryStored(n)) /\ WF_vars(LoopStep(n))
    /\ \A n \in Nodes, m \in Memories :
          WF_vars(IndexMemory(n, m)) /\ WF_vars(PublishStored(n, m))

FairSpec == Spec /\ Fairness
-----------------------------------------------------------------------------
(* Properties. *)

TypeOK ==
    /\ up \in [Nodes -> BOOLEAN]
    /\ request \in [Memories ->
          [stage : {"new", "rejected", "saved", "indexed", "done", "aborted"},
           at : Nodes \cup {NoNode}]]
    /\ row \in [Stores -> [Memories -> Row \cup {NoRow}]]
    /\ vector \in [Stores -> SUBSET Memories]
    /\ inbox \in [Nodes -> Seq(Event)]
    /\ queue \in [Nodes -> Seq(Event)]
    /\ \A n \in Nodes : Len(queue[n]) <= QueueCapacity
    /\ loop \in [Nodes -> {Idle} \cup
          [stage : {"select", "write", "index"}, event : Event,
           seen : {NoVersion, InitialVersion}]]
    /\ lost \in [Nodes -> SUBSET Memories]
    /\ dlq \in SUBSET Memories

\* No event outruns its memory: whoever holds the MemoryStored event of m, the
\* row of m is committed in the store of the node that took the call (Store
\* publishes after SaveMemory has committed, memory_handler.go).
EventsBackedByRow ==
    \A n \in Nodes, m \in Memories :
        EventAt(n, m) => request[m].at \in Nodes /\ HasRow(request[m].at, m)

\* A row without a vector is invisible to search.  There is one only while a
\* node is between the two writes, or after a node gave the memory up.
UnindexedRowExplained ==
    \A s \in Stores, m \in Memories :
        row[s][m] # NoRow /\ m \notin vector[s] =>
            \E n \in Nodes :
                /\ StoreOf[n] = s
                /\ \/ m \in lost[n]
                   \/ request[m] = [stage |-> "saved", at |-> n]
                   \/ loop[n] # Idle /\ loop[n].stage = "index" /\ loop[n].event.memory = m

\* What a row is to a client: the writer's, with its metadata, the replica of
\* what was stored, which has none, or anything else.
CopyOf(r, m) ==
    CASE r = NoRow                      -> "none"
      [] r = SavedRow                   -> "original"
      [] r = ReplicaRow(StoredEvent(m)) -> "replica"
      [] OTHER                          -> "damaged"

Kept == INSTANCE Copies WITH
    copy       <- [s \in Stores |-> [m \in Memories |-> CopyOf(row[s][m], m)]],
    searchable <- vector

\* Store, replication and search together keep the promise of Copies: one
\* original of each memory, no replica that comes before it, in its place or
\* over another copy, nothing damaged, nothing withdrawn, and only copies found
\* by searches, whatever fails in between (Store, applyReplication,
\* UpsertMemoryWithConflictResolution).
CopiesAreKept == Kept!CopiesSpec

\* Whichever list gossip reports on n when it decides, n stores the event of m:
\* its place in each is in the window of replicas and not first (Ownership
\* proves this to be the decision of a node at the head of its list).
Wanted(n, m) ==
    \A peers \in PeerSets :
        LET size  == Cardinality(peers \cup {n})
            start == Hash[m] % size
        IN  start # 0 /\ start + ReplicationFactor > size

\* An event does not vanish.  It leaves the hands of a node that has to store it
\* as a row of that node's store, or with a line in its log: neither the channel
\* nor the ownership test nor an event taken for stale swallows it.
NoEventVanishes ==
    [][\A n \in Nodes, m \in Memories :
          EventAt(n, m) /\ ~ EventAt(n, m)' /\ Wanted(n, m)
              => HasRow(n, m)' \/ m \in lost'[n]]_vars

\* And it leaves them: an event that reached node n, which has to store it, ends
\* as a row in n's store, unless n crashed or gave it up.
DeliveredIsStored ==
    \A n \in Nodes, m \in Memories :
        EventAt(n, m) /\ Wanted(n, m)
            ~> HasRow(n, m) \/ m \in lost[n]

\* Replication never writes into the store of the node that took the call: the
\* row is there before the event is published, so neither the writer's own echo
\* nor a node that shares its Postgres (docker-compose.cluster.yml, where all
\* nodes share one) gets past the version check.
WritersStoreIsLeftAlone ==
    \A n \in Nodes : loop[n].stage = "index" =>
        StoreOf[n] # StoreOf[request[loop[n].event.memory].at]

=============================================================================
