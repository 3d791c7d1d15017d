------------------------------- MODULE Aging --------------------------------
(***************************************************************************)
(* The ageing of memories: src/internal/core/aging.go (AgingWorker) with   *)
(* GetColdMemories, ArchiveMemory, DeleteMemory and IncrementRetrievalStats*)
(* of src/internal/storage/postgres.go.                                    *)
(*                                                                         *)
(* Each process runs one worker; in a cluster all of them work on one      *)
(* Postgres and one Qdrant.  Every hour a worker lists the memories to     *)
(* delete and deletes each from Qdrant and from Postgres, then lists those *)
(* to archive, flags each in Postgres and deletes it from Qdrant.  Each    *)
(* statement is a transaction of its own, so workers and retrievals        *)
(* interleave between any two of them.                                     *)
(*                                                                         *)
(* Abstraction: importance and reinforcement are in tenths, the unit of    *)
(* every threshold and of every increment, and reinforcement saturates     *)
(* where no threshold tells it apart; the time since the last access is    *)
(* the number of thresholds (30 and 90 days) it has passed.  A memory is   *)
(* a number, in the order of creation.  Episodic memories only: the query  *)
(* selects no other.                                                       *)
(***************************************************************************)
EXTENDS Naturals, FiniteSets

CONSTANTS
    Memories,     \* the memories, numbered by age, oldest first
    Importance,   \* Importance[m] in tenths
    Metadata,     \* Metadata[m]: the metadata column at the start; see MetadataKinds
    Workers,      \* the ageing workers that share the store
    BatchSize,    \* LIMIT of GetColdMemories (50)
    Faults        \* "postgres", "qdrant": errors of the store; "crash": of the process

\* What the metadata column of a row holds.  Store writes JSON null when the
\* request has no metadata (json.Marshal of a nil Struct), replication writes
\* SQL NULL.  jsonb_set fails on JSON null, which is no object; COALESCE makes an
\* object of SQL NULL.
MetadataKinds == {"object", "sql null", "json null"}

ASSUME AgingAssumption ==
    /\ Memories \subseteq Nat /\ IsFiniteSet(Memories)
    /\ Importance \in [Memories -> 0 .. 10]
    /\ Metadata \in [Memories -> MetadataKinds]
    /\ BatchSize \in Nat \ {0}
    /\ Faults \subseteq {"postgres", "qdrant", "crash"}

VARIABLES
    row,       \* row[m]: the Postgres row, or Gone
    vector,    \* the memories with a point in Qdrant
    worker,    \* worker[w]: where runCycle of w stands
    forsaken   \* memories whose deletion from Qdrant failed or was never made (history)

vars == <<row, vector, worker, forsaken>>

\* The thresholds of NewAgingWorker: archive below 0.3 after 30 days, delete below
\* 0.1 after 90 days.
Archival == [importance |-> 3, idle |-> 1]
Deletion == [importance |-> 1, idle |-> 2]

MaxReinforcement == 6       \* 2 * 0.3: the largest any threshold names
MaxIdle          == 2

Gone == [idle |-> 0, reinforcement |-> 0, metadata |-> "none", archived |-> FALSE]
Idle == [stage |-> "idle", todo |-> {}]

Exists(m) == row[m] # Gone

Init ==
    /\ row = [m \in Memories |->
          [idle |-> 0, reinforcement |-> 0, metadata |-> Metadata[m], archived |-> FALSE]]
    /\ vector = Memories
    /\ worker = [w \in Workers |-> Idle]
    /\ forsaken = {}

-----------------------------------------------------------------------------
(* The store. *)

\* Mutant of IsCold: archived memories are listed again.
IsColdOrArchived(m, t) ==
    /\ Exists(m)
    /\ Importance[m] < t.importance
    /\ row[m].idle >= t.idle
    /\ row[m].reinforcement < 2 * t.importance

\* The WHERE clause of GetColdMemories.
IsCold(m, t) ==
    /\ Exists(m)
    /\ Importance[m] < t.importance
    /\ row[m].idle >= t.idle
    /\ row[m].reinforcement < 2 * t.importance
    /\ ~ row[m].archived

Cold(t) == {m \in Memories : IsCold(m, t)}

\* GetColdMemories: the oldest BatchSize of them.
GetColdMemories(t) ==
    {m \in Cold(t) : Cardinality({k \in Cold(t) : k < m}) < BatchSize}

-----------------------------------------------------------------------------
(* The worker. *)

Goto(w, stage, todo) == worker' = [worker EXCEPT ![w] = [stage |-> stage, todo |-> todo]]

\* The memory the loop of w has come to: the oldest of those left.
Current(w, m) ==
    m \in worker[w].todo /\ \A k \in worker[w].todo : m <= k

\* runCycle begins; an error of the query skips the deletions.
ListForDeletion(w) ==
    /\ worker[w] = Idle
    /\ \/ Goto(w, "purge", GetColdMemories(Deletion))
       \/ "postgres" \in Faults /\ Goto(w, "purge", {})
    /\ UNCHANGED <<row, vector, forsaken>>

\* The deletion of memory m from Qdrant; the caller goes on whatever the answer.
DeleteVector(m) ==
    \/ vector' = vector \ {m} /\ UNCHANGED forsaken
    \/ "qdrant" \in Faults /\ forsaken' = forsaken \cup {m} /\ UNCHANGED vector

\* Mutant of PurgeVector: the point in Qdrant is left to the archival.
PurgeVectorSkipped(w) ==
    /\ worker[w].stage = "purge" /\ worker[w].todo # {}
    /\ Goto(w, "delete", worker[w].todo)
    /\ UNCHANGED <<row, vector, forsaken>>

\* processDeletions, one memory: first from Qdrant,
PurgeVector(w) ==
    /\ worker[w].stage = "purge"
    /\ \E m \in worker[w].todo : Current(w, m) /\ DeleteVector(m)
    /\ Goto(w, "delete", worker[w].todo)
    /\ UNCHANGED row

\* then from Postgres.
DeleteRow(w) ==
    /\ worker[w].stage = "delete"
    /\ \E m \in worker[w].todo :
          /\ Current(w, m)
          /\ \/ row' = [row EXCEPT ![m] = Gone]
             \/ "postgres" \in Faults /\ UNCHANGED row
          /\ Goto(w, "purge", worker[w].todo \ {m})
    /\ UNCHANGED <<vector, forsaken>>

\* The deletions are done; processArchivals lists.
ListForArchival(w) ==
    /\ worker[w].stage = "purge" /\ worker[w].todo = {}
    /\ \/ Goto(w, "archive", GetColdMemories(Archival))
       \/ "postgres" \in Faults /\ Goto(w, "archive", {})
    /\ UNCHANGED <<row, vector, forsaken>>

Archived(m) ==
    IF Exists(m) THEN [row EXCEPT ![m].archived = TRUE, ![m].metadata = "object"] ELSE row

\* Mutant of ArchiveRow: an error ends the loop over the batch.
ArchiveRowOrStop(w) ==
    /\ worker[w].stage = "archive"
    /\ \E m \in worker[w].todo :
          /\ Current(w, m)
          /\ \/ /\ row[m].metadata # "json null"
                /\ row' = Archived(m)
                /\ Goto(w, "unindex", worker[w].todo)
             \/ /\ row[m].metadata = "json null" \/ "postgres" \in Faults
                /\ Goto(w, "archive", {})
                /\ UNCHANGED row
    /\ UNCHANGED <<vector, forsaken>>

\* ArchiveMemory is an UPDATE: of a row that is gone it changes nothing, and
\* succeeds.  After an error the memory is passed over; it is archived all the
\* same when only the answer to the commit is lost.
ArchiveRow(w) ==
    /\ worker[w].stage = "archive"
    /\ \E m \in worker[w].todo :
          /\ Current(w, m)
          /\ \/ /\ row[m].metadata # "json null"
                /\ row' = Archived(m)
                /\ Goto(w, "unindex", worker[w].todo)
                /\ UNCHANGED forsaken
             \/ /\ row[m].metadata # "json null" /\ "postgres" \in Faults
                /\ row' = Archived(m)
                /\ forsaken' = forsaken \cup {m}
                /\ Goto(w, "archive", worker[w].todo \ {m})
             \/ /\ row[m].metadata = "json null" \/ "postgres" \in Faults
                /\ Goto(w, "archive", worker[w].todo \ {m})
                /\ UNCHANGED <<row, forsaken>>
    /\ UNCHANGED vector

\* processArchivals, after the row: out of Qdrant.
UnindexArchived(w) ==
    /\ worker[w].stage = "unindex"
    /\ \E m \in worker[w].todo :
          Current(w, m) /\ DeleteVector(m) /\ Goto(w, "archive", worker[w].todo \ {m})
    /\ UNCHANGED row

EndCycle(w) ==
    /\ worker[w].stage = "archive" /\ worker[w].todo = {}
    /\ worker' = [worker EXCEPT ![w] = Idle]
    /\ UNCHANGED <<row, vector, forsaken>>

\* The process ends in the middle of a cycle; the next one starts anew.
Crash(w) ==
    /\ "crash" \in Faults
    /\ worker[w] # Idle
    /\ forsaken' = forsaken \cup
          {m \in Memories : worker[w].stage = "unindex" /\ Current(w, m)}
    /\ worker' = [worker EXCEPT ![w] = Idle]
    /\ UNCHANGED <<row, vector>>

-----------------------------------------------------------------------------
(* The rest of the system. *)

\* IncrementRetrievalStats, of a memory some Retrieve has returned (found by its
\* vector or through the graph, which ageing leaves alone).
Retrieve(m) ==
    /\ Exists(m)
    /\ row' = [row EXCEPT ![m].idle = 0,
                          ![m].reinforcement = IF @ < MaxReinforcement THEN @ + 1 ELSE @]
    /\ UNCHANGED <<vector, worker, forsaken>>

\* Another threshold of the time since the last access passes.
Pass(m) ==
    /\ Exists(m) /\ row[m].idle < MaxIdle
    /\ row' = [row EXCEPT ![m].idle = @ + 1]
    /\ UNCHANGED <<vector, worker, forsaken>>

WorkerStep(w) ==
    \/ ListForDeletion(w) \/ PurgeVector(w) \/ DeleteRow(w)
    \/ ListForArchival(w) \/ ArchiveRow(w) \/ UnindexArchived(w) \/ EndCycle(w)

Next ==
    \/ \E w \in Workers : WorkerStep(w) \/ Crash(w)
    \/ \E m \in Memories : Retrieve(m) \/ Pass(m)

Spec == Init /\ [][Next]_vars

\* What a worker does when Postgres answers: the list is complete, memory m is
\* archived.
ListSucceeds(w) ==
    ListForArchival(w) /\ worker'[w].todo = GetColdMemories(Archival)
ArchiveSucceeds(w, m) ==
    ArchiveRow(w) /\ Current(w, m) /\ row'[m].archived

\* The ticker starts cycle after cycle, a cycle ends, and Postgres does not refuse
\* for ever a statement it can execute (on JSON null it never can).
Fairness ==
    \A w \in Workers :
        /\ WF_vars(WorkerStep(w))
        /\ SF_vars(ListSucceeds(w))
        /\ \A m \in {k \in Memories : Metadata[k] # "json null"} : SF_vars(ArchiveSucceeds(w, m))

FairSpec == Spec /\ Fairness

-----------------------------------------------------------------------------
(* Properties. *)

RowType ==
    [idle : 0 .. MaxIdle, reinforcement : 0 .. MaxReinforcement,
     metadata : MetadataKinds, archived : BOOLEAN]

TypeOK ==
    /\ row \in [Memories -> RowType \cup {Gone}]
    /\ vector \subseteq Memories
    /\ worker \in [Workers ->
          [stage : {"idle", "purge", "delete", "archive", "unindex"}, todo : SUBSET Memories]]
    /\ \A w \in Workers : worker[w].stage \in {"delete", "unindex"} => worker[w].todo # {}
    /\ forsaken \subseteq Memories

\* A vector outlives its memory, or the archiving of it, only until the worker
\* that archived it comes to it, unless Qdrant refused or the process ended in
\* between: no interleaving of workers leaves one behind.
VectorExplained ==
    \A m \in vector : ~ Exists(m) \/ row[m].archived =>
        \/ m \in forsaken
        \/ \E w \in Workers : worker[w].stage = "unindex" /\ Current(w, m)

\* "Archive cold memories (remove from vector search, keep in Postgres)"
\* (aging.go:73): a memory that is archived, and that no worker had listed for
\* deletion before, stays in Postgres for good.  (One that was listed by then is
\* deleted: DeleteMemory does not look again.)  "Cold -> Archived -> Deleted"
\* (aging.go:13) says otherwise: no cycle ever lists an archived memory again.
OutOfReach(m) ==
    /\ row[m].archived
    /\ \A w \in Workers : worker[w].stage \in {"purge", "delete"} => m \notin worker[w].todo

ArchivedIsKept == [][\A m \in Memories : OutOfReach(m) => OutOfReach(m)']_vars

\* The worker is killed in the middle of a cycle only finitely often.
CyclesComplete == <>[][\A w \in Workers : Crash(w) => EndCycle(w)]_vars

\* A cold memory whose metadata is not JSON null is archived or deleted, or
\* somebody retrieves it: neither errors now and then nor memories whose archival
\* fails every time keep it waiting, as long as the batch has room for them and
\* the process is not killed in every cycle.
ColdIsArchived ==
    CyclesComplete =>
        \A m \in Memories : Metadata[m] # "json null" =>
            (IsCold(m, Archival) ~> ~ IsCold(m, Archival))
=============================================================================
