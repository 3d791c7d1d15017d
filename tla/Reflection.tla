----------------------------- MODULE Reflection -----------------------------
(***************************************************************************)
(* Episodic memories become semantic ones: src/internal/core/reflection.go *)
(* (ReflectionWorker) and consolidation.go (MemoryConsolidator), with      *)
(* GetEpisodicCandidates and MarkAsReflected of storage/postgres.go.       *)
(*                                                                         *)
(* Every process runs one worker of either kind.  A cycle fetches the      *)
(* candidates, groups them, and for each group saves a summary and then    *)
(* marks its members one by one; each statement is a transaction of its    *)
(* own, and nothing but the marks keeps another worker, or the next cycle, *)
(* from summarising the same memories.                                     *)
(*                                                                         *)
(* Abstraction: a memory is a number, in the order of creation, and its    *)
(* age the number of thresholds (a day, a week) it has passed; importance  *)
(* is in tenths.  The text of a summary, and its point in Qdrant, which    *)
(* only the reflection worker writes and neither reads, are left out; so   *)
(* is the deletion of memories by ageing.                                  *)
(***************************************************************************)
EXTENDS Naturals, FiniteSets

CONSTANTS
    Memories,     \* the episodic memories, numbered by age, oldest first
    TenantOf, AgentOf,
    Importance,   \* Importance[m] in tenths
    Metadata,     \* Metadata[m]: "object", "sql null" or "json null" (see Aging)
    Workers,
    Kind,         \* Kind[w]: "reflection" or "consolidation"
    BatchSize,    \* LIMIT of GetEpisodicCandidates (100)
    Faults        \* "postgres", "embedder": their errors; "crash": of the process

ASSUME ReflectionAssumption ==
    /\ Memories \subseteq Nat /\ IsFiniteSet(Memories)
    /\ Importance \in [Memories -> 0 .. 10]
    /\ Metadata \in [Memories -> {"object", "sql null", "json null"}]
    /\ Kind \in [Workers -> {"reflection", "consolidation"}]
    /\ BatchSize \in Nat \ {0}
    /\ Faults \subseteq {"postgres", "embedder", "crash"}

VARIABLES
    age,          \* age[m]: thresholds passed since created_at
    marked,       \* the memories with metadata->>'reflected' = 'true'
    summaries,    \* summaries[m]: semantic memories made of m, saturating (history)
    unmarked,     \* members of a summarised group whose mark failed or was not tried (history)
    worker        \* worker[w]: where the cycle of w stands

vars == <<age, marked, summaries, unmarked, worker>>

MaxAge       == 2
MaxSummaries == 2

Idle == [stage |-> "idle", groups |-> {}, todo |-> {}]

Init ==
    /\ age = [m \in Memories |-> 0]
    /\ marked = {}
    /\ summaries = [m \in Memories |-> 0]
    /\ unmarked = {}
    /\ worker = [w \in Workers |-> Idle]

-----------------------------------------------------------------------------
(* The parameters of reflect and of Consolidate. *)

\* The age and importance of a candidate, and the least size of a group.
Policy(kind) ==
    IF kind = "reflection" THEN [age |-> 2, importance |-> 6, least |-> 2]
                           ELSE [age |-> 1, importance |-> 0, least |-> 3]

Together(kind, m, k) ==
    /\ TenantOf[m] = TenantOf[k]
    /\ kind = "reflection" => AgentOf[m] = AgentOf[k]

Eligible(kind, m) ==
    age[m] >= Policy(kind).age /\ Importance[m] > Policy(kind).importance

Candidates(kind) == {m \in Memories : Eligible(kind, m) /\ m \notin marked}

\* GetEpisodicCandidates: the newest BatchSize.
GetEpisodicCandidates(kind) ==
    LET all == Candidates(kind)
    IN  {m \in all : Cardinality({k \in all : k > m}) < BatchSize}

\* groupByAgentTenant and simpleCluster, without the groups that are too small.
Groups(kind) ==
    LET batch == GetEpisodicCandidates(kind)
    IN  {g \in {{k \in batch : Together(kind, m, k)} : m \in batch} :
            Cardinality(g) >= Policy(kind).least}

-----------------------------------------------------------------------------
(* The workers. *)

\* On to what a cycle has left: marks, groups, nothing.
Proceed(w, groups, todo) ==
    worker' = [worker EXCEPT ![w] =
        IF groups = {} /\ todo = {} THEN Idle
        ELSE [stage |-> IF todo = {} THEN "group" ELSE "mark",
              groups |-> groups, todo |-> todo]]

\* A cycle begins; without a group, or after an error of the query, it ends at
\* once.
Fetch(w) ==
    /\ worker[w] = Idle
    /\ Proceed(w, Groups(Kind[w]), {})
    /\ UNCHANGED <<age, marked, summaries, unmarked>>

Summarised(g) ==
    [m \in Memories |-> IF m \in g /\ summaries[m] < MaxSummaries
                        THEN summaries[m] + 1 ELSE summaries[m]]

\* Mutant of SaveSummary: after an error the group is marked all the same.
SaveSummaryOrNot(w) ==
    /\ worker[w].stage = "group"
    /\ \E g \in worker[w].groups :
          /\ \/ summaries' = Summarised(g)
             \/ Faults # {} /\ UNCHANGED summaries
          /\ Proceed(w, worker[w].groups \ {g}, g)
    /\ UNCHANGED <<age, marked, unmarked>>

\* One group (the map is traversed in any order): its summary is embedded, by the
\* reflection worker, and saved.  An error passes the group over; when only the
\* answer to the commit is lost, the summary is there all the same.
SaveSummary(w) ==
    /\ worker[w].stage = "group"
    /\ \E g \in worker[w].groups :
          \/ /\ summaries' = Summarised(g) /\ UNCHANGED unmarked
             /\ Proceed(w, worker[w].groups \ {g}, g)
          \/ /\ \/ /\ Kind[w] = "reflection" /\ "embedder" \in Faults
                   /\ UNCHANGED <<summaries, unmarked>>
                \/ "postgres" \in Faults /\ UNCHANGED <<summaries, unmarked>>
                \/ /\ "postgres" \in Faults
                   /\ summaries' = Summarised(g) /\ unmarked' = unmarked \cup g
             /\ Proceed(w, worker[w].groups \ {g}, {})
    /\ UNCHANGED <<age, marked>>

\* The loop over a group has come to m: the newest of those left.
Current(w, m) ==
    m \in worker[w].todo /\ \A k \in worker[w].todo : k <= m

\* Mutant of Mark: jsonb_set does not create the key.
MarkIfPresent(w) ==
    /\ worker[w].stage = "mark"
    /\ \E m \in worker[w].todo :
          Current(w, m) /\ Proceed(w, worker[w].groups, worker[w].todo \ {m})
    /\ UNCHANGED <<age, marked, summaries, unmarked>>

\* Mutant of Mark: an error ends the loop.
MarkOrStop(w) ==
    /\ worker[w].stage = "mark"
    /\ \E m \in worker[w].todo :
          /\ Current(w, m)
          /\ \/ /\ Metadata[m] = "object" /\ marked' = marked \cup {m} /\ UNCHANGED unmarked
                /\ Proceed(w, worker[w].groups, worker[w].todo \ {m})
             \/ /\ unmarked' = unmarked \cup {m} /\ UNCHANGED marked
                /\ Proceed(w, worker[w].groups, {})
    /\ UNCHANGED <<age, summaries>>

\* MarkAsReflected of the next member; the error of one does not keep the others
\* from being marked.  jsonb_set of SQL NULL is SQL NULL, of JSON null an error:
\* neither memory is ever marked.
Mark(w) ==
    /\ worker[w].stage = "mark"
    /\ \E m \in worker[w].todo :
          /\ Current(w, m)
          /\ \/ /\ Metadata[m] = "object"
                /\ marked' = marked \cup {m} /\ UNCHANGED unmarked
             \/ /\ Metadata[m] # "object" \/ "postgres" \in Faults
                /\ unmarked' = unmarked \cup {m} /\ UNCHANGED marked
          /\ Proceed(w, worker[w].groups, worker[w].todo \ {m})
    /\ UNCHANGED <<age, summaries>>

\* The process ends in the middle of a cycle; the next one starts anew.
Crash(w) ==
    /\ "crash" \in Faults
    /\ worker[w] # Idle
    /\ worker' = [worker EXCEPT ![w] = Idle]
    /\ unmarked' = unmarked \cup worker[w].todo
    /\ UNCHANGED <<age, marked, summaries>>

\* A memory passes another threshold, after those that are older.
Pass(m) ==
    /\ age[m] < MaxAge
    /\ \A k \in Memories : k < m => age[k] > age[m]
    /\ age' = [age EXCEPT ![m] = @ + 1]
    /\ UNCHANGED <<marked, summaries, unmarked, worker>>

WorkerStep(w) == Fetch(w) \/ SaveSummary(w) \/ Mark(w)

Next ==
    \/ \E w \in Workers : WorkerStep(w) \/ Crash(w)
    \/ \E m \in Memories : Pass(m)

Spec == Init /\ [][Next]_vars

\* A group is summarised and its marks begin; another memory is marked.
SaveSucceeds(w) == SaveSummary(w) /\ worker'[w].todo # {}
MarkSucceeds(w) == Mark(w) /\ marked' # marked

\* The ticker starts cycle after cycle, a cycle goes on, and not every attempt to
\* save a summary, or to mark a memory, fails.
Fairness ==
    \A w \in Workers :
        /\ WF_vars(WorkerStep(w))
        /\ SF_vars(SaveSucceeds(w)) /\ SF_vars(MarkSucceeds(w))

FairSpec == Spec /\ Fairness

-----------------------------------------------------------------------------
(* Properties. *)

TypeOK ==
    /\ age \in [Memories -> 0 .. MaxAge]
    /\ marked \subseteq Memories
    /\ summaries \in [Memories -> 0 .. MaxSummaries]
    /\ unmarked \subseteq Memories
    /\ worker \in [Workers ->
          [stage : {"idle", "group", "mark"}, groups : SUBSET SUBSET Memories,
           todo : SUBSET Memories]]
    /\ \A w \in Workers :
          /\ worker[w].stage = "idle" <=> worker[w].groups = {} /\ worker[w].todo = {}
          /\ worker[w].stage = "mark" <=> worker[w].todo # {}

\* No memory is marked, and so left out of every later cycle, without a summary
\* that covers it: no order of errors, crashes and workers loses one.
MarkedIsSummarised == \A m \in marked : summaries[m] > 0

\* What a summary covers is marked, about to be marked by a worker that is still
\* in its group, or had its mark fail: nothing else, no order of workers, lost
\* commits and crashes, makes a later cycle summarise a memory again.
SummaryIsMarked ==
    \A m \in Memories : summaries[m] > 0 =>
        m \in marked \cup unmarked \/ \E w \in Workers : m \in worker[w].todo

\* Two memories of one agent that are old and important enough do not both stay
\* unreflected, whatever fails or crashes now and then, when the batch has room
\* for all candidates and the newest of each group can be marked.
Pair(m, k) ==
    /\ m < k /\ Together("reflection", m, k)
    /\ Eligible("reflection", m) /\ Eligible("reflection", k)

PairIsReflected ==
    \A m, k \in Memories : Pair(m, k) ~> m \in marked \/ k \in marked
=============================================================================
