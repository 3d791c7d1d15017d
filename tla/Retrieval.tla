----------------------------- MODULE Retrieval ------------------------------
(***************************************************************************)
(* Retrieve of src/internal/api/memory_handler.go and its cache,           *)
(* src/internal/core/cache.go, over the rows that Conflict changes.        *)
(*                                                                         *)
(* A Retrieve takes the hits of the vector search one by one from the      *)
(* cache or from Postgres, then the neighbours of the best in the graph,   *)
(* always from Postgres, and puts into the cache what it has read.  Nobody *)
(* takes a memory out of the cache when its row changes or is deleted: an  *)
(* entry lives for its TTL, and a Retrieve may put a row into the cache    *)
(* that has changed since it was read.                                     *)
(*                                                                         *)
(* Abstraction: a version of a row is told apart by its importance; time   *)
(* is counted in ticks; Qdrant and Neo4j (external) answer any set of      *)
(* memories that were stored; scores are real numbers, so a hit may pass   *)
(* the threshold or not.  The cache is that of one process, the rows       *)
(* change by whatever process.                                             *)
(***************************************************************************)
EXTENDS Conflict, SequencesExt

CONSTANTS
    Callers,
    Capacity,    \* of the cache (512)
    TTL,         \* of an entry (30 s), in ticks
    MaxFill      \* the ticks a Retrieve may hold a row before it is in the cache

ASSUME RetrievalAssumption ==
    /\ Memories # {}
    /\ Capacity \in Nat \ {0}      \* NewMemoryCache makes 256 of 0
    /\ TTL \in Nat /\ MaxFill \in Nat

VARIABLES
    items,     \* items[m]: the entry of the cache, or NoEntry
    order,     \* the keys of the cache, the last used first
    call,      \* call[c]: how far the Retrieve of c has come
    since,     \* since[m][v]: the ticks since the row of m held v (history)
    served     \* the memory and the version scored by the last step (history)

cacheVars == <<items, order>>
allVars   == <<conflictVars, cacheVars, call, since, served>>

Versions == {Absent} \cup UNION {0 .. Importance[m] : m \in Memories}
NoEntry  == [version |-> Absent, age |-> 0]
Expired  == TTL + 1
LongAgo  == TTL + MaxFill + 1

CallAt(stage, todo, seen) ==
    [stage |-> stage, todo |-> todo, seen |-> seen,
     key |-> CHOOSE m \in Memories : TRUE, version |-> Absent, held |-> 0]
IdleCall == CallAt("idle", {}, {})

RetrievalInit ==
    /\ ConflictInit
    /\ items = [m \in Memories |-> NoEntry]
    /\ order = <<>>
    /\ call = [c \in Callers |-> IdleCall]
    /\ since = [m \in Memories |-> [v \in Versions |-> LongAgo]]
    /\ served = {}

-----------------------------------------------------------------------------
(* The cache.  Every operation is a critical section. *)

\* The list without the element of key m, if it has one.
Without(m) ==
    IF \E i \in DOMAIN order : order[i] = m
    THEN RemoveAt(order, CHOOSE i \in DOMAIN order : order[i] = m)
    ELSE order

MoveToFront(m) == order' = <<m>> \o Without(m)

\* Mutant of IsFresh: whatever is in the cache is good.
IsFreshAlways(m) == items[m] # NoEntry

IsFresh(m) == items[m] # NoEntry /\ items[m].age <= TTL

\* Get of an entry that has not expired,
GetHit(m) == IsFresh(m) /\ MoveToFront(m) /\ UNCHANGED items

\* and of one that has, or of none.
GetMiss(m) ==
    /\ ~ IsFresh(m)
    /\ items' = [items EXCEPT ![m] = NoEntry]
    /\ order' = Without(m)

\* Mutant of Set: the last entry goes from the list and not from the map.
SetKeepingItem(m, v) ==
    LET keys == <<m>> \o Without(m)
    IN  /\ items' = [items EXCEPT ![m] = [version |-> v, age |-> 0]]
        /\ order' = IF Len(keys) > Capacity THEN SubSeq(keys, 1, Len(keys) - 1) ELSE keys

\* Set: a new entry at the front; past the capacity the last one goes.
Set(m, v) ==
    LET keys    == <<m>> \o Without(m)
        entered == [items EXCEPT ![m] = [version |-> v, age |-> 0]]
    IN  IF Len(keys) > Capacity
        THEN /\ items' = [entered EXCEPT ![keys[Len(keys)]] = NoEntry]
             /\ order' = SubSeq(keys, 1, Len(keys) - 1)
        ELSE items' = entered /\ order' = keys

-----------------------------------------------------------------------------
(* One Retrieve. *)

\* SearchMemories finds any of the memories some Store has saved, deleted ones
\* among them as long as their vectors are there.
SearchMemories == SUBSET {m \in Memories : task[m].stage # "new"}

Search(c) ==
    /\ call[c].stage = "idle"
    /\ \E hits \in SearchMemories :
          call' = [call EXCEPT ![c] = CallAt("hydrate", hits, {})]
    /\ served' = {}
    /\ UNCHANGED <<conflictVars, cacheVars, since>>

\* Memory m is scored in the version v; a hit may stay below the threshold.
Score(c, m, v, stage) ==
    /\ served' = {<<m, v>>}
    /\ \E seen \in {call[c].seen \cup {m}}
                   \cup (IF stage = "hydrate" THEN {call[c].seen} ELSE {}) :
          call' = [call EXCEPT ![c] = CallAt(stage, call[c].todo \ {m}, seen)]

\* A hit that is in the cache.
HydrateFromCache(c, m) ==
    /\ call[c].stage = "hydrate" /\ m \in call[c].todo
    /\ GetHit(m)
    /\ Score(c, m, items[m].version, "hydrate")
    /\ UNCHANGED <<conflictVars, since>>

\* The row of m as Postgres has it, if it has one and answers.
Read(c, m) ==
    \/ /\ importance[m] # Absent
       /\ call' = [call EXCEPT ![c].key = m, ![c].version = importance[m], ![c].held = 0,
                     ![c].stage = IF @ = "hydrate" THEN "fill hit" ELSE "fill neighbour"]
    \/ call' = [call EXCEPT ![c].todo = @ \ {m}]

\* One that is not.  (The miss and the reading of the row are two steps of the
\* code; the first alone only removes an expired entry.)
HydrateFromStore(c, m) ==
    /\ call[c].stage = "hydrate" /\ m \in call[c].todo
    /\ GetMiss(m)
    /\ Read(c, m)
    /\ served' = {}
    /\ UNCHANGED <<conflictVars, since>>

\* A neighbour that was not among the hits above the threshold.
FetchNeighbour(c, m) ==
    /\ call[c].stage = "expand" /\ m \in call[c].todo
    /\ Read(c, m)
    /\ served' = {}
    /\ UNCHANGED <<conflictVars, cacheVars, since>>

\* What was read enters the cache and is scored.
Fill(c) ==
    /\ call[c].stage \in {"fill hit", "fill neighbour"}
    /\ Set(call[c].key, call[c].version)
    /\ Score(c, call[c].key, call[c].version,
             IF call[c].stage = "fill hit" THEN "hydrate" ELSE "expand")
    /\ UNCHANGED <<conflictVars, since>>

\* The hits are done: the neighbours of the best, archived and low-scored ones
\* among them.
Expand(c) ==
    /\ call[c].stage = "hydrate" /\ call[c].todo = {}
    /\ \E near \in SUBSET UNION {Related(m) : m \in call[c].seen} :
          call' = [call EXCEPT ![c] = CallAt("expand", near \ call[c].seen, call[c].seen)]
    /\ served' = {}
    /\ UNCHANGED <<conflictVars, cacheVars, since>>

\* The answer.  (What it writes, statistics of the rows and an audit entry, no
\* version tells apart.)
Answer(c) ==
    /\ call[c].stage = "expand" /\ call[c].todo = {}
    /\ call' = [call EXCEPT ![c] = IdleCall]
    /\ served' = {}
    /\ UNCHANGED <<conflictVars, cacheVars, since>>

-----------------------------------------------------------------------------
(* The rows and the time. *)

\* Stores, conflict resolution and ageing go on; none of them looks at the cache.
ChangeRows ==
    /\ ConflictNext
    /\ since' = [m \in Memories |-> [v \in Versions |->
          IF v = importance[m] /\ importance'[m] # v THEN 0 ELSE since[m][v]]]
    /\ served' = {}
    /\ UNCHANGED <<cacheVars, call>>

Older(age, limit) == IF age < limit THEN age + 1 ELSE limit

\* A tick; no Retrieve holds a row for longer than MaxFill.
Tick ==
    /\ \A c \in Callers : call[c].held < MaxFill
          \/ call[c].stage \notin {"fill hit", "fill neighbour"}
    /\ items' = [m \in Memories |->
          IF items[m] = NoEntry THEN NoEntry ELSE [items[m] EXCEPT !.age = Older(@, Expired)]]
    /\ call' = [c \in Callers |->
          IF call[c].stage \in {"fill hit", "fill neighbour"}
          THEN [call[c] EXCEPT !.held = @ + 1] ELSE call[c]]
    /\ since' = [m \in Memories |-> [v \in Versions |-> Older(since[m][v], LongAgo)]]
    /\ served' = {}
    /\ UNCHANGED <<conflictVars, order>>

RetrieveStep(c) ==
    \/ Search(c) \/ Fill(c) \/ Expand(c) \/ Answer(c)
    \/ \E m \in Memories :
          HydrateFromCache(c, m) \/ HydrateFromStore(c, m) \/ FetchNeighbour(c, m)

RetrievalNext == ChangeRows \/ Tick \/ \E c \in Callers : RetrieveStep(c)

RetrievalSpec == RetrievalInit /\ [][RetrievalNext]_allVars

-----------------------------------------------------------------------------
(* Properties. *)

CallStages == {"idle", "hydrate", "fill hit", "expand", "fill neighbour"}

Entries == [version : Versions, age : 0 .. Expired]

\* The map and the list of the cache name the same keys, each once, and no more
\* than the capacity.
RetrievalTypeOK ==
    /\ ConflictTypeOK
    /\ items \in [Memories -> Entries]
    /\ order \in Seq(Memories) /\ Len(order) <= Capacity
    /\ \A m \in Memories :
          Cardinality({i \in DOMAIN order : order[i] = m}) = IF items[m] = NoEntry THEN 0 ELSE 1
    /\ call \in [Callers -> [stage : CallStages, todo : SUBSET Memories, seen : SUBSET Memories,
                             key : Memories, version : Versions, held : 0 .. MaxFill]]
    /\ since \in [Memories -> [Versions -> 0 .. LongAgo]]
    /\ served \subseteq Memories \X Versions

\* A memory is scored as it is, or as it was at most TTL + MaxFill ticks ago:
\* neither hits, which do not prolong an entry, nor a slow reader that puts an
\* old row into the cache, nor evictions make it older.  Deletions count as changes.
Stale == INSTANCE StaleReads WITH
    Keys <- Memories, Values <- Versions, Bound <- TTL + MaxFill,
    current <- importance, since <- since, read <- served

ReadsAreBoundedlyStale == Stale!StaleSpec
=============================================================================
