------------------------------ MODULE Conflict ------------------------------
(***************************************************************************)
(* The resolution of contradictions: src/internal/core/conflict.go, with   *)
(* the graph of src/internal/storage/neo4j.go and the end of Store in      *)
(* src/internal/api/memory_handler.go.                                     *)
(*                                                                         *)
(* Store saves a memory, indexes it in the graph and starts a goroutine of *)
(* its own that asks the graph for related memories, compares the new one  *)
(* with each, lowers the importance of the loser and marks the pair.  The  *)
(* tasks of two memories interleave at every statement, with each other    *)
(* and with ageing, which deletes rows.                                    *)
(*                                                                         *)
(* Abstraction: importance in tenths; which texts contradict each other is *)
(* a symmetric relation (rule 1 of detectConflict is symmetric; rule 2     *)
(* wants the new memory to be a week old and never applies); all memories  *)
(* are of one tenant and share an entity.                                  *)
(*                                                                         *)
(* As shipped the graph finds nothing: Store and Retrieve ask for depth 1, *)
(* and Neo4j (external) refuses the query at any depth, because the bound  *)
(* of its pattern is a parameter.  What is said here of a resolution holds *)
(* for every depth; the README has what follows for the detection.         *)
(***************************************************************************)
EXTENDS Naturals, FiniteSets

CONSTANTS
    Memories,
    Importance,    \* Importance[m]: as the client gives it
    Rivals,        \* the sets {a, b} of memories that contradict each other
    Orders,        \* the orders in which the transactions of the Saves may begin
    Depth,         \* the length of the paths the graph is asked for (1 as shipped)
    RelatedLimit   \* how many related memories the graph returns (20)

ASSUME ConflictAssumption ==
    /\ IsFiniteSet(Memories)
    /\ Importance \in [Memories -> 0 .. 10]
    /\ Orders \subseteq [Memories -> Nat]
    /\ \A p \in Rivals : \E a, b \in Memories : a # b /\ p = {a, b}
    /\ Depth \in Nat /\ RelatedLimit \in Nat

VARIABLES
    importance,    \* importance[m]: of the row, or Absent
    created,       \* created[m]: created_at of the row, the start of its transaction
    graph,         \* the memories with a node in Neo4j
    task,          \* task[m]: how far Store and the task of m have come
    contradicts    \* the CONTRADICTS relations <<winner, loser>>

conflictVars == <<importance, created, graph, task, contradicts>>

Absent == 11      \* no row: not yet saved, or deleted

TaskAt(stage, todo, winner, loser) ==
    [stage |-> stage, todo |-> todo, winner |-> winner, loser |-> loser]
NewTask(m) == TaskAt("new", {}, m, m)

ConflictInit ==
    /\ importance = [m \in Memories |-> Absent]
    /\ created \in Orders
    /\ graph = {}
    /\ task = [m \in Memories |-> NewTask(m)]
    /\ contradicts = {}

Continue(m, stage, todo) == task' = [task EXCEPT ![m] = TaskAt(stage, todo, m, m)]

-----------------------------------------------------------------------------
(* Store of memory m, and its task. *)

SaveRow(m) ==
    /\ task[m].stage = "new"
    /\ importance' = [importance EXCEPT ![m] = Importance[m]]
    /\ Continue(m, "index", {})
    /\ UNCHANGED <<created, graph, contradicts>>

\* IndexMemory; its error is logged, and the task starts all the same.
IndexNode(m) ==
    /\ task[m].stage = "index"
    /\ graph' \in {graph, graph \cup {m}}
    /\ Continue(m, "detect", {})
    /\ UNCHANGED <<importance, created, contradicts>>

\* GetRelatedMemoryIDsForTenant: the other memories of the graph, if m is in it.  A
\* path of MENTIONS relations leads from a memory to an entity and only its second
\* step to another memory.
Related(m) == IF m \in graph /\ Depth >= 2 THEN graph \ {m} ELSE {}

\* The first RelatedLimit of them, or the error of the query.
DetectRelated(m) ==
    /\ task[m].stage = "detect"
    /\ \/ \E found \in SUBSET Related(m) :
             /\ \/ found = Related(m)
                \/ Cardinality(found) = RelatedLimit
             /\ Cardinality(found) <= RelatedLimit
             /\ Continue(m, "resolve", found)
       \/ Continue(m, "done", {})
    /\ UNCHANGED <<importance, created, graph, contradicts>>

\* Mutant of Wins: only the importance counts.
WinsByImportance(m, r) == Importance[m] > importance[r]

\* Whether m, new, wins against r, read from its row: the younger one does, and of
\* two of one age the more important one.
Wins(m, r) ==
    \/ created[m] > created[r]
    \/ created[m] = created[r] /\ Importance[m] > importance[r]

\* Mutant of CompareWith: the memory stays among those to be compared.
CompareWithAgain(m, r) ==
    /\ task[m].stage = "resolve" /\ r \in task[m].todo
    /\ \/ /\ importance[r] # Absent /\ {m, r} \in Rivals
          /\ task' = [task EXCEPT ![m] =
                TaskAt("lower", task[m].todo,
                       IF Wins(m, r) THEN m ELSE r, IF Wins(m, r) THEN r ELSE m)]
       \/ Continue(m, "resolve", task[m].todo \ {r})
    /\ UNCHANGED <<importance, created, graph, contradicts>>

\* One round of the loop: a memory that is no rival, whose row is gone or cannot be
\* read, is passed over.
CompareWith(m, r) ==
    /\ task[m].stage = "resolve" /\ r \in task[m].todo
    /\ \/ /\ importance[r] # Absent /\ {m, r} \in Rivals
          /\ task' = [task EXCEPT ![m] =
                TaskAt("lower", task[m].todo \ {r},
                       IF Wins(m, r) THEN m ELSE r, IF Wins(m, r) THEN r ELSE m)]
       \/ Continue(m, "resolve", task[m].todo \ {r})
    /\ UNCHANGED <<importance, created, graph, contradicts>>

\* ReduceImportance by 0.1, an UPDATE: nothing for a row that is gone.
Lowered(m) ==
    IF importance[m] = Absent THEN importance
    ELSE [importance EXCEPT ![m] = IF @ > 0 THEN @ - 1 ELSE 0]

\* resolve: lower the loser, if Postgres lets it (it does not where the metadata
\* is JSON null),
LowerLoser(m) ==
    /\ task[m].stage = "lower"
    /\ importance' \in {importance, Lowered(task[m].loser)}
    /\ task' = [task EXCEPT ![m].stage = "mark"]
    /\ UNCHANGED <<created, graph, contradicts>>

\* and mark the pair, if the graph answers.
MarkConflict(m) ==
    /\ task[m].stage = "mark"
    /\ contradicts' \in {contradicts, contradicts \cup {<<task[m].winner, task[m].loser>>}}
    /\ Continue(m, "resolve", task[m].todo)
    /\ UNCHANGED <<importance, created, graph>>

FinishTask(m) ==
    /\ task[m].stage = "resolve" /\ task[m].todo = {}
    /\ Continue(m, "done", {})
    /\ UNCHANGED <<importance, created, graph, contradicts>>

\* The ten seconds of the task are over, or the process ends.
AbandonTask(m) ==
    /\ task[m].stage \notin {"new", "done"}
    /\ Continue(m, "done", {})
    /\ UNCHANGED <<importance, created, graph, contradicts>>

\* Ageing deletes the row; the graph keeps its node.
DeleteByAge(m) ==
    /\ importance[m] # Absent
    /\ importance' = [importance EXCEPT ![m] = Absent]
    /\ UNCHANGED <<created, graph, task, contradicts>>

TaskStep(m) ==
    \/ SaveRow(m) \/ IndexNode(m) \/ DetectRelated(m)
    \/ \E r \in Memories : CompareWith(m, r)
    \/ LowerLoser(m) \/ MarkConflict(m) \/ FinishTask(m) \/ AbandonTask(m)

ConflictNext == \E m \in Memories : TaskStep(m) \/ DeleteByAge(m)

ConflictSpec == ConflictInit /\ [][ConflictNext]_conflictVars

-----------------------------------------------------------------------------
(* Properties. *)

Stages == {"new", "index", "detect", "resolve", "lower", "mark", "done"}

ConflictTypeOK ==
    /\ importance \in [Memories -> 0 .. Absent]
    /\ created \in Orders
    /\ graph \subseteq Memories
    /\ task \in [Memories -> [stage : Stages, todo : SUBSET Memories,
                              winner : Memories, loser : Memories]]
    /\ contradicts \subseteq Memories \X Memories

\* "Freshness wins for factual conflicts" (conflict.go:145), whichever task
\* resolves it: a pair is marked both ways only if the two are of one age.
FreshnessWins ==
    \A p \in contradicts : created[p[1]] >= created[p[2]]

\* Both tasks of a pair may resolve it: a memory loses twice per rival that is
\* not older, and no more, whatever fails and is retried.
LossIsBounded ==
    \A m \in Memories : importance[m] # Absent =>
        Importance[m] - importance[m] <=
            2 * Cardinality({r \in Memories : {m, r} \in Rivals /\ created[r] >= created[m]})
=============================================================================
