-------------------------- MODULE ReflectionProofs --------------------------
(***************************************************************************)
(* Proofs about Reflection: type correctness, that no memory is marked     *)
(* without a summary that covers it, and that what a summary covers is     *)
(* marked, about to be, or had its mark fail.  The second is inductive     *)
(* with one fact more: the members a worker has still to mark have their   *)
(* summary.                                                                *)
(***************************************************************************)
EXTENDS Reflection, TLAPS

StepType ==
    [stage : {"idle", "group", "mark"}, groups : SUBSET SUBSET Memories,
     todo : SUBSET Memories]

\* A group is a set of memories.
LEMMA GroupsType == \A kind : Groups(kind) \subseteq SUBSET Memories
BY DEF Groups, GetEpisodicCandidates, Candidates

\* Proceed keeps the type of the workers, and leaves the others alone.
LEMMA ProceedType ==
    ASSUME TypeOK, NEW w \in Workers, NEW groups \in SUBSET SUBSET Memories,
           NEW todo \in SUBSET Memories, Proceed(w, groups, todo)
    PROVE  /\ worker' \in [Workers -> StepType]
           /\ \A v \in Workers : \A m \in worker'[v].todo : m \in worker[v].todo \/ m \in todo
           /\ \A v \in Workers :
                 /\ worker'[v].stage = "idle" <=> worker'[v].groups = {} /\ worker'[v].todo = {}
                 /\ worker'[v].stage = "mark" <=> worker'[v].todo # {}
<1> DEFINE step == IF groups = {} /\ todo = {} THEN Idle
                   ELSE [stage |-> IF todo = {} THEN "group" ELSE "mark",
                         groups |-> groups, todo |-> todo]
<1>1. worker \in [Workers -> StepType]
  BY DEF TypeOK, StepType
<1>2. /\ step \in StepType /\ step.todo = todo
      /\ step.stage = "idle" <=> step.groups = {} /\ step.todo = {}
      /\ step.stage = "mark" <=> step.todo # {}
  <2>1. CASE groups = {} /\ todo = {}
    BY <2>1 DEF StepType, Idle
  <2>2. CASE todo # {}
    BY <2>2 DEF StepType
  <2>3. CASE groups # {} /\ todo = {}
    BY <2>3 DEF StepType
  <2>4. QED  BY <2>1, <2>2, <2>3
<1>3. worker' = [worker EXCEPT ![w] = step]
  BY DEF Proceed
<1> HIDE DEF step
<1>4. QED  BY <1>1, <1>2, <1>3 DEF TypeOK

\* Proceed leaves worker w with the members it is given to mark.
LEMMA ProceedTodo ==
    ASSUME TypeOK, NEW w \in Workers, NEW groups, NEW todo, Proceed(w, groups, todo)
    PROVE  /\ worker'[w].todo = todo
           /\ \A v \in Workers : v # w => worker'[v].todo = worker[v].todo
<1> DEFINE step == IF groups = {} /\ todo = {} THEN Idle
                   ELSE [stage |-> IF todo = {} THEN "group" ELSE "mark",
                         groups |-> groups, todo |-> todo]
<1>1. step.todo = todo
  <2>1. CASE groups = {} /\ todo = {}
    BY <2>1 DEF Idle
  <2>2. CASE ~ (groups = {} /\ todo = {})
    BY <2>2
  <2>3. QED  BY <2>1, <2>2
<1>2. worker' = [worker EXCEPT ![w] = step]
  BY DEF Proceed
<1>3. worker \in [Workers -> [stage : {"idle", "group", "mark"},
                            groups : SUBSET SUBSET Memories, todo : SUBSET Memories]]
  BY DEF TypeOK
<1> HIDE DEF step
<1>4. worker'[w] = step /\ \A v \in Workers : v # w => worker'[v] = worker[v]
  BY <1>2, <1>3
<1>5. QED  BY <1>1, <1>4

LEMMA SummarisedType ==
    ASSUME TypeOK, NEW g
    PROVE  /\ Summarised(g) \in [Memories -> 0 .. MaxSummaries]
           /\ \A m \in Memories : Summarised(g)[m] >= summaries[m]
           /\ \A m \in Memories : m \in g => Summarised(g)[m] > 0
           /\ \A m \in Memories : m \notin g => Summarised(g)[m] = summaries[m]
<1>1. \A m \in Memories : summaries[m] \in 0 .. 2
  BY DEF TypeOK, MaxSummaries
<1>2. QED  BY <1>1 DEF Summarised, MaxSummaries

SummarisedTodo == \A w \in Workers : \A m \in worker[w].todo : summaries[m] > 0

RInv == TypeOK /\ MarkedIsSummarised /\ SummarisedTodo /\ SummaryIsMarked

LEMMA RInit == Init => RInv
BY DEF Init, RInv, TypeOK, MarkedIsSummarised, SummarisedTodo, SummaryIsMarked, Idle, MaxAge, MaxSummaries

\* A step of worker w keeps SummaryIsMarked if what it takes from the members to
\* mark is marked or had its mark fail, and so is what is newly summarised.
LEMMA SummaryIsMarkedStep ==
    ASSUME TypeOK, SummaryIsMarked, NEW w \in Workers,
           NEW groups \in SUBSET SUBSET Memories, NEW todo \in SUBSET Memories,
           Proceed(w, groups, todo),
           marked \subseteq marked', unmarked \subseteq unmarked',
           worker[w].todo \subseteq todo \cup marked' \cup unmarked',
           \A m \in Memories : summaries'[m] > 0 =>
               summaries[m] > 0 \/ m \in todo \cup marked' \cup unmarked'
    PROVE  SummaryIsMarked'
<1> SUFFICES ASSUME NEW m \in Memories, summaries'[m] > 0,
                    m \notin marked' \cup unmarked'
             PROVE  \E v \in Workers : m \in worker'[v].todo
  BY DEF SummaryIsMarked
<1>1. /\ worker'[w].todo = todo
      /\ \A v \in Workers : v # w => worker'[v].todo = worker[v].todo
  BY ProceedTodo
<1>2. CASE m \in todo
  BY <1>1, <1>2
<1>3. CASE m \notin todo
  <2>1. summaries[m] > 0 /\ m \notin marked \cup unmarked
    BY <1>3
  <2>2. PICK v \in Workers : m \in worker[v].todo
    BY <2>1 DEF SummaryIsMarked
  <2>3. v # w
    BY <1>3, <2>2
  <2>4. QED  BY <1>1, <2>2, <2>3
<1>4. QED  BY <1>2, <1>3

LEMMA RStep == RInv /\ [Next]_vars => RInv'
<1> SUFFICES ASSUME RInv, [Next]_vars PROVE RInv'
  OBVIOUS
<1> USE DEF RInv
<1>0. CASE UNCHANGED vars
  BY <1>0 DEF vars, TypeOK, MarkedIsSummarised, SummarisedTodo, SummaryIsMarked
<1>1. ASSUME NEW w \in Workers, Fetch(w) PROVE RInv'
  <2>1. /\ UNCHANGED <<age, marked, summaries, unmarked>> /\ Proceed(w, Groups(Kind[w]), {})
        /\ worker[w].todo = {}
    BY <1>1 DEF Fetch, Idle
  <2>2. Groups(Kind[w]) \in SUBSET SUBSET Memories
    BY GroupsType
  <2>3. TypeOK'
    BY <2>1, <2>2, ProceedType DEF TypeOK, StepType
  <2>4. SummarisedTodo'
    BY <2>1, <2>2, ProceedType DEF SummarisedTodo
  <2>5. SummaryIsMarked'
    BY <2>1, <2>2, SummaryIsMarkedStep
  <2>6. QED  BY <2>1, <2>3, <2>4, <2>5 DEF MarkedIsSummarised
<1>2. ASSUME NEW w \in Workers, SaveSummary(w) PROVE RInv'
  <2>1. worker[w].groups \in SUBSET SUBSET Memories
    BY DEF TypeOK
  <2>2. PICK g \in worker[w].groups :
            \/ /\ summaries' = Summarised(g) /\ UNCHANGED unmarked
               /\ Proceed(w, worker[w].groups \ {g}, g)
            \/ /\ \/ UNCHANGED <<summaries, unmarked>>
                  \/ summaries' = Summarised(g) /\ unmarked' = unmarked \cup g
               /\ Proceed(w, worker[w].groups \ {g}, {})
    BY <1>2 DEF SaveSummary
  <2>3. UNCHANGED <<age, marked>> /\ worker[w].stage = "group"
    BY <1>2 DEF SaveSummary
  <2>a. worker[w].todo = {}
    BY <2>3 DEF TypeOK
  <2>b. unmarked' \subseteq Memories
    BY <2>1, <2>2 DEF TypeOK
  <2>4. g \in SUBSET Memories /\ worker[w].groups \ {g} \in SUBSET SUBSET Memories
    BY <2>1
  <2>5. /\ summaries' \in [Memories -> 0 .. MaxSummaries]
        /\ \A m \in Memories : summaries'[m] >= summaries[m]
    <3>1. /\ summaries \in [Memories -> 0 .. MaxSummaries]
          /\ \A m \in Memories : summaries[m] >= summaries[m]
      BY DEF TypeOK, MaxSummaries
    <3>2. summaries' = summaries \/ summaries' = Summarised(g)
      BY <2>2
    <3>3. QED  BY <3>1, <3>2, SummarisedType
  <2>6. \A m \in Memories : summaries[m] > 0 => summaries'[m] > 0
    BY <2>5 DEF TypeOK, MaxSummaries
  <2>7. MarkedIsSummarised'
    BY <2>3, <2>6 DEF MarkedIsSummarised, TypeOK
  <2>8. \A v \in Workers : worker[v].todo \subseteq Memories
    BY DEF TypeOK
  <2>9. CASE summaries' = Summarised(g) /\ UNCHANGED unmarked /\ Proceed(w, worker[w].groups \ {g}, g)
    <3>1. TypeOK'
      BY <2>3, <2>b, <2>4, <2>5, <2>9, ProceedType DEF TypeOK, StepType
    <3>2. \A m \in g : summaries'[m] > 0
      BY <2>4, <2>9, SummarisedType
    <3>3. SummarisedTodo'
      BY <2>4, <2>6, <2>8, <2>9, <3>2, ProceedType DEF SummarisedTodo
    <3>4. \A m \in Memories : summaries'[m] > 0 => summaries[m] > 0 \/ m \in g
      BY <2>9, SummarisedType
    <3>5. SummaryIsMarked'
      BY <2>3, <2>4, <2>9, <2>a, <3>4, SummaryIsMarkedStep
    <3>6. QED  BY <2>7, <3>1, <3>3, <3>5
  <2>10. CASE /\ \/ UNCHANGED <<summaries, unmarked>>
                 \/ summaries' = Summarised(g) /\ unmarked' = unmarked \cup g
              /\ Proceed(w, worker[w].groups \ {g}, {})
    <3>1. TypeOK'
      BY <2>3, <2>b, <2>4, <2>5, <2>10, ProceedType DEF TypeOK, StepType
    <3>2. \A v \in Workers : \A m \in worker'[v].todo : m \in worker[v].todo
      BY <2>4, <2>10, ProceedType
    <3>3. SummarisedTodo'
      BY <2>6, <2>8, <3>2 DEF SummarisedTodo
    <3>4. /\ unmarked \subseteq unmarked'
          /\ \A m \in Memories : summaries'[m] > 0 => summaries[m] > 0 \/ m \in unmarked'
      BY <2>10, SummarisedType
    <3>5. SummaryIsMarked'
      BY <2>3, <2>4, <2>10, <2>a, <3>4, SummaryIsMarkedStep
    <3>6. QED  BY <2>7, <3>1, <3>3, <3>5
  <2>11. QED  BY <2>2, <2>9, <2>10
<1>3. ASSUME NEW w \in Workers, Mark(w) PROVE RInv'
  <2>1. PICK m \in worker[w].todo :
            /\ \/ marked' = marked \cup {m} /\ UNCHANGED unmarked
               \/ unmarked' = unmarked \cup {m} /\ UNCHANGED marked
            /\ Proceed(w, worker[w].groups, worker[w].todo \ {m})
    BY <1>3 DEF Mark
  <2>2. UNCHANGED <<age, summaries>>
    BY <1>3 DEF Mark
  <2>3. /\ worker[w].groups \in SUBSET SUBSET Memories
        /\ worker[w].todo \ {m} \in SUBSET Memories /\ m \in Memories
    BY DEF TypeOK
  <2>4. TypeOK'
    BY <2>1, <2>2, <2>3, ProceedType DEF TypeOK, StepType
  <2>5. MarkedIsSummarised'
    BY <2>1, <2>2 DEF MarkedIsSummarised, SummarisedTodo
  <2>6. SummarisedTodo'
    <3>1. \A v \in Workers : \A k \in worker'[v].todo :
              k \in worker[v].todo \/ k \in worker[w].todo \ {m}
      BY <2>1, <2>3, ProceedType
    <3>2. QED  BY <2>2, <3>1 DEF SummarisedTodo
  <2>7. SummaryIsMarked'
    <3>1. /\ marked \subseteq marked' /\ unmarked \subseteq unmarked'
          /\ m \in marked' \cup unmarked'
      BY <2>1
    <3>2. QED  BY <2>1, <2>2, <2>3, <3>1, SummaryIsMarkedStep
  <2>8. QED  BY <2>4, <2>5, <2>6, <2>7
<1>4. ASSUME NEW w \in Workers, Crash(w) PROVE RInv'
  <2>1. /\ worker' = [worker EXCEPT ![w] = Idle] /\ UNCHANGED <<age, marked, summaries>>
        /\ unmarked' = unmarked \cup worker[w].todo
    BY <1>4 DEF Crash
  <2>a. worker[w].todo \subseteq Memories
    BY DEF TypeOK
  <2>2. Proceed(w, {}, {})
    BY <2>1 DEF Proceed
  <2>3. TypeOK'
    BY <2>1, <2>a, <2>2, ProceedType DEF TypeOK, StepType
  <2>4. SummarisedTodo'
    <3>1. \A v \in Workers : \A m \in worker'[v].todo : m \in worker[v].todo
      BY <2>2, ProceedType
    <3>2. QED  BY <2>1, <3>1 DEF SummarisedTodo
  <2>5. SummaryIsMarked'
    BY <2>1, <2>2, SummaryIsMarkedStep
  <2>6. QED  BY <2>1, <2>3, <2>4, <2>5 DEF MarkedIsSummarised
<1>5. ASSUME NEW m \in Memories, Pass(m) PROVE RInv'
  <2>1. age[m] + 1 \in 0 .. MaxAge
    BY <1>5 DEF Pass, TypeOK, MaxAge
  <2>2. age' \in [Memories -> 0 .. MaxAge]
    BY <1>5, <2>1 DEF Pass, TypeOK
  <2>3. QED  BY <1>5, <2>2 DEF Pass, TypeOK, MarkedIsSummarised, SummarisedTodo, SummaryIsMarked
<1>6. QED
  BY <1>0, <1>1, <1>2, <1>3, <1>4, <1>5 DEF Next, WorkerStep

LEMMA Invariance == Spec => []RInv
BY RInit, RStep, PTL DEF Spec

\* Type correctness, for any memories, workers, groups and batch.
THEOREM TypeCorrect == Spec => []TypeOK
<1>1. RInv => TypeOK
  BY DEF RInv
<1>2. QED  BY <1>1, Invariance, PTL

\* A memory that is marked has a summary that covers it, whatever fails and however
\* many workers of either kind interleave.
THEOREM MarkedMemoriesAreSummarised == Spec => []MarkedIsSummarised
<1>1. RInv => MarkedIsSummarised
  BY DEF RInv
<1>2. QED  BY <1>1, Invariance, PTL

\* What a summary covers is marked, about to be, or had its mark fail: for any
\* number of workers of either kind, a memory is summarised again only for that.
THEOREM SummariesAreMarked == Spec => []SummaryIsMarked
<1>1. RInv => SummaryIsMarked
  BY DEF RInv
<1>2. QED  BY <1>1, Invariance, PTL
=============================================================================
