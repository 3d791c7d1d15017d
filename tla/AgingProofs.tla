---------------------------- MODULE AgingProofs -----------------------------
(***************************************************************************)
(* Proofs about Aging, for any number of workers on one store: type        *)
(* correctness, that vectors left behind are explained, and that what is   *)
(* archived and out of reach of every deletion stays.                      *)
(***************************************************************************)
EXTENDS Aging, TLAPS

StepType == [stage : {"idle", "purge", "delete", "archive", "unindex"}, todo : SUBSET Memories]

\* Every query lists memories.
LEMMA ColdAreMemories == \A t : GetColdMemories(t) \subseteq Memories
BY DEF GetColdMemories, Cold

\* Gone is not a row.
LEMMA GoneIsNoRow == Gone \notin RowType
BY DEF Gone, RowType, MetadataKinds

\* What a step of the loops does to the type of the worker.
LEMMA GotoType ==
    ASSUME TypeOK, NEW w \in Workers,
           NEW stage \in {"idle", "purge", "delete", "archive", "unindex"},
           NEW todo \in SUBSET Memories, Goto(w, stage, todo),
           stage \in {"delete", "unindex"} => todo # {}
    PROVE  /\ worker' \in [Workers -> StepType]
           /\ \A v \in Workers :
                 worker'[v].stage \in {"delete", "unindex"} => worker'[v].todo # {}
<1> DEFINE step == [stage |-> stage, todo |-> todo]
<1>1. worker \in [Workers -> StepType]
  BY DEF TypeOK, StepType
<1>2. step \in StepType /\ (step.stage \in {"delete", "unindex"} => step.todo # {})
  BY DEF StepType
<1>3. worker' = [worker EXCEPT ![w] = step]
  BY DEF Goto
<1> HIDE DEF step
<1>4. \A v \in Workers : worker[v].stage \in {"delete", "unindex"} => worker[v].todo # {}
  BY DEF TypeOK
<1>5. QED  BY <1>1, <1>2, <1>3, <1>4

\* Deleting from Qdrant keeps the types.
LEMMA DeleteVectorType ==
    ASSUME TypeOK, NEW m \in Memories, DeleteVector(m)
    PROVE  vector' \subseteq Memories /\ forsaken' \subseteq Memories
BY DEF TypeOK, DeleteVector

\* Archiving keeps the type of the rows.
LEMMA ArchivedType ==
    ASSUME TypeOK, NEW m \in Memories
    PROVE  Archived(m) \in [Memories -> RowType \cup {Gone}]
<1>1. row \in [Memories -> RowType \cup {Gone}]
  BY DEF TypeOK
<1>2. CASE ~ Exists(m)
  BY <1>1, <1>2 DEF Archived
<1>3. CASE Exists(m)
  <2>1. row[m] \in RowType
    BY <1>1, <1>3 DEF Exists
  <2>2. [row[m] EXCEPT !.archived = TRUE, !.metadata = "object"] \in RowType
    BY <2>1 DEF RowType, MetadataKinds
  <2>3. Archived(m) = [row EXCEPT ![m] = [row[m] EXCEPT !.archived = TRUE, !.metadata = "object"]]
    BY <1>1, <1>3, <2>1 DEF Archived, RowType
  <2>4. QED  BY <1>1, <2>2, <2>3
<1>4. QED  BY <1>2, <1>3

\* So do new values of the two counters.
LEMMA CountersType ==
    ASSUME NEW r \in RowType, NEW i \in 0 .. 2, NEW x \in 0 .. 6
    PROVE  [r EXCEPT !.idle = i, !.reinforcement = x] \in RowType
BY DEF RowType, MaxIdle, MaxReinforcement

LEMMA TypeStep == TypeOK /\ [Next]_vars => TypeOK'
<1> SUFFICES ASSUME TypeOK, [Next]_vars PROVE TypeOK'
  OBVIOUS
<1> USE DEF StepType
<1>0. CASE UNCHANGED vars
  BY <1>0 DEF vars, TypeOK
<1>1. ASSUME NEW w \in Workers, ListForDeletion(w) PROVE TypeOK'
  <2>1. PICK todo \in SUBSET Memories : Goto(w, "purge", todo)
    BY <1>1, ColdAreMemories DEF ListForDeletion
  <2>2. QED  BY <1>1, <2>1, GotoType DEF ListForDeletion, TypeOK
<1>2. ASSUME NEW w \in Workers, PurgeVector(w) PROVE TypeOK'
  <2>1. worker[w].todo \in SUBSET Memories
    BY DEF TypeOK
  <2>2. PICK m \in worker[w].todo : DeleteVector(m)
    BY <1>2 DEF PurgeVector
  <2>3. vector' \subseteq Memories /\ forsaken' \subseteq Memories
    BY <2>1, <2>2, DeleteVectorType
  <2>4. QED  BY <1>2, <2>1, <2>2, <2>3, GotoType DEF PurgeVector, TypeOK
<1>3. ASSUME NEW w \in Workers, DeleteRow(w) PROVE TypeOK'
  <2>1. worker[w].todo \in SUBSET Memories
    BY DEF TypeOK
  <2>2. PICK m \in worker[w].todo :
            /\ row' = [row EXCEPT ![m] = Gone] \/ UNCHANGED row
            /\ Goto(w, "purge", worker[w].todo \ {m})
    BY <1>3 DEF DeleteRow
  <2>3. row' \in [Memories -> RowType \cup {Gone}]
    BY <2>2 DEF TypeOK
  <2>4. worker[w].todo \ {m} \in SUBSET Memories
    BY <2>1
  <2>5. QED  BY <1>3, <2>2, <2>3, <2>4, GotoType DEF DeleteRow, TypeOK
<1>4. ASSUME NEW w \in Workers, ListForArchival(w) PROVE TypeOK'
  <2>1. PICK todo \in SUBSET Memories : Goto(w, "archive", todo)
    BY <1>4, ColdAreMemories DEF ListForArchival
  <2>2. QED  BY <1>4, <2>1, GotoType DEF ListForArchival, TypeOK
<1>5. ASSUME NEW w \in Workers, ArchiveRow(w) PROVE TypeOK'
  <2>1. worker[w].todo \in SUBSET Memories
    BY DEF TypeOK
  <2>2. PICK m \in worker[w].todo :
            /\ row' \in {row, Archived(m)}
            /\ forsaken' \in {forsaken, forsaken \cup {m}}
            /\ Goto(w, "unindex", worker[w].todo) \/ Goto(w, "archive", worker[w].todo \ {m})
    BY <1>5 DEF ArchiveRow
  <2>3. row' \in [Memories -> RowType \cup {Gone}]
    BY <2>1, <2>2, ArchivedType DEF TypeOK
  <2>4. worker[w].todo \ {m} \in SUBSET Memories /\ worker[w].todo # {}
    BY <2>1, <2>2
  <2>5. forsaken' \subseteq Memories
    BY <2>1, <2>2 DEF TypeOK
  <2>6. QED  BY <1>5, <2>1, <2>2, <2>3, <2>4, <2>5, GotoType DEF ArchiveRow, TypeOK
<1>6. ASSUME NEW w \in Workers, UnindexArchived(w) PROVE TypeOK'
  <2>1. worker[w].todo \in SUBSET Memories
    BY DEF TypeOK
  <2>2. PICK m \in worker[w].todo :
            DeleteVector(m) /\ Goto(w, "archive", worker[w].todo \ {m})
    BY <1>6 DEF UnindexArchived
  <2>3. vector' \subseteq Memories /\ forsaken' \subseteq Memories
    BY <2>1, <2>2, DeleteVectorType
  <2>4. worker[w].todo \ {m} \in SUBSET Memories
    BY <2>1
  <2>5. QED  BY <1>6, <2>2, <2>3, <2>4, GotoType DEF UnindexArchived, TypeOK
<1>7. ASSUME NEW w \in Workers, EndCycle(w) PROVE TypeOK'
  <2>1. Goto(w, "idle", {})
    BY <1>7 DEF EndCycle, Goto, Idle
  <2>2. QED  BY <1>7, <2>1, GotoType DEF EndCycle, TypeOK
<1>8. ASSUME NEW w \in Workers, Crash(w) PROVE TypeOK'
  <2>1. Goto(w, "idle", {})
    BY <1>8 DEF Crash, Goto, Idle
  <2>2. forsaken' \subseteq Memories
    BY <1>8 DEF Crash, TypeOK
  <2>3. QED  BY <1>8, <2>1, <2>2, GotoType DEF Crash, TypeOK
<1>9. ASSUME NEW m \in Memories, Retrieve(m) \/ Pass(m) PROVE TypeOK'
  <2>1. row[m] \in RowType /\ row \in [Memories -> RowType \cup {Gone}]
    BY <1>9 DEF Retrieve, Pass, Exists, TypeOK
  <2>2. row[m].idle \in 0 .. 2 /\ row[m].reinforcement \in 0 .. 6
    BY <2>1 DEF RowType, MaxIdle, MaxReinforcement
  <2> DEFINE Set(i, r) == [row[m] EXCEPT !.idle = i, !.reinforcement = r]
             Seen == Set(0, IF row[m].reinforcement < 6 THEN row[m].reinforcement + 1
                            ELSE row[m].reinforcement)
             Older == Set(row[m].idle + 1, row[m].reinforcement)
  <2>3. Seen \in RowType
    <3> DEFINE more == IF row[m].reinforcement < 6 THEN row[m].reinforcement + 1
                       ELSE row[m].reinforcement
    <3>1. more \in 0 .. 6 /\ 0 \in 0 .. 2
      BY <2>2
    <3>2. Set(0, more) \in RowType
      <4> HIDE DEF more
      <4>1. QED  BY <2>1, <3>1, CountersType
    <3>3. QED  BY <3>2
  <2>4. row[m].idle < 2 => Older \in RowType
    <3>1. row[m].idle < 2 => row[m].idle + 1 \in 0 .. 2
      BY <2>2
    <3>2. QED  BY <2>1, <2>2, <3>1, CountersType
  <2>5. CASE Retrieve(m)
    <3>1. row' = [row EXCEPT ![m] = Seen]
      BY <2>1, <2>5 DEF Retrieve, MaxReinforcement, RowType
    <3> HIDE DEF Seen
    <3>2. row' \in [Memories -> RowType \cup {Gone}]
      BY <2>1, <2>3, <3>1
    <3>3. QED  BY <2>5, <3>2 DEF Retrieve, TypeOK
  <2>6. CASE Pass(m)
    <3>1. row[m].idle < 2 /\ row' = [row EXCEPT ![m] = Older]
      BY <2>1, <2>6 DEF Pass, MaxIdle, RowType
    <3> HIDE DEF Older
    <3>2. row' \in [Memories -> RowType \cup {Gone}]
      BY <2>1, <2>4, <3>1
    <3>3. QED  BY <2>6, <3>2 DEF Pass, TypeOK
  <2>7. QED  BY <1>9, <2>5, <2>6
<1>10. QED
  BY <1>0, <1>1, <1>2, <1>3, <1>4, <1>5, <1>6, <1>7, <1>8, <1>9 DEF Next, WorkerStep

LEMMA TypeInit == Init => TypeOK
BY AgingAssumption DEF Init, TypeOK, RowType, Idle, MaxIdle, MaxReinforcement

\* Type correctness, for any number of memories and workers and any batch.
THEOREM TypeCorrect == Spec => []TypeOK
<1>1. QED  BY TypeInit, TypeStep, PTL DEF Spec
-----------------------------------------------------------------------------
(* Vectors.  What VectorExplained lacks to be inductive is the order within a  *)
(* deletion: when the row is about to go, the vector has gone or was refused.  *)

PurgedFirst ==
    \A w \in Workers : \A m \in worker[w].todo :
        worker[w].stage = "delete" /\ Current(w, m) => m \notin vector \/ m \in forsaken

VInv == TypeOK /\ VectorExplained /\ PurgedFirst

\* The memory a loop has come to is one memory.
LEMMA CurrentIsUnique ==
    ASSUME TypeOK, NEW w \in Workers, NEW m, NEW k, Current(w, m), Current(w, k)
    PROVE  m = k
BY AgingAssumption DEF TypeOK, Current

LEMMA VInit == Init => VectorExplained /\ PurgedFirst
<1> SUFFICES ASSUME Init PROVE VectorExplained /\ PurgedFirst
  OBVIOUS
<1>1. \A m \in Memories : Exists(m) /\ ~ row[m].archived
  <2>1. \A m \in Memories : ~ row[m].archived /\ row[m].metadata \in MetadataKinds
    BY AgingAssumption DEF Init
  <2>2. Gone.metadata \notin MetadataKinds
    BY DEF Gone, MetadataKinds
  <2>3. QED  BY <2>1, <2>2 DEF Exists
<1>2. QED  BY <1>1 DEF Init, VectorExplained, PurgedFirst, Idle

LEMMA VStep == VInv /\ [Next]_vars => VectorExplained' /\ PurgedFirst'
<1> SUFFICES ASSUME VInv, [Next]_vars PROVE VectorExplained' /\ PurgedFirst'
  OBVIOUS
<1> USE DEF VInv
<1>0. CASE UNCHANGED vars
  BY <1>0 DEF vars, VectorExplained, PurgedFirst, Exists, Current
\* Steps that only move one worker, neither into nor out of "delete" and "unindex".
<1>a. ASSUME NEW w \in Workers, NEW step,
             worker' = [worker EXCEPT ![w] = step],
             worker[w].stage # "unindex", step.stage # "delete",
             UNCHANGED <<row, vector, forsaken>>
      PROVE  VectorExplained' /\ PurgedFirst'
  <2>1. \A v \in Workers : v # w => worker'[v] = worker[v]
    BY <1>a
  <2>2. worker'[w] = step
    BY <1>a DEF TypeOK
  <2>3. VectorExplained'
    BY <1>a, <2>1 DEF VectorExplained, Exists, Current
  <2>4. PurgedFirst'
    BY <1>a, <2>1, <2>2 DEF PurgedFirst, Current
  <2>5. QED  BY <2>3, <2>4
<1>1. ASSUME NEW w \in Workers, ListForDeletion(w) PROVE VectorExplained' /\ PurgedFirst'
  BY <1>1, <1>a DEF ListForDeletion, Goto, Idle
<1>2. ASSUME NEW w \in Workers, PurgeVector(w) PROVE VectorExplained' /\ PurgedFirst'
  <2>1. PICK m \in worker[w].todo : Current(w, m) /\ DeleteVector(m)
    BY <1>2 DEF PurgeVector
  <2>2. /\ \A v \in Workers : v # w => worker'[v] = worker[v]
        /\ worker'[w] = [stage |-> "delete", todo |-> worker[w].todo]
    BY <1>2 DEF PurgeVector, Goto, TypeOK
  <2>3. /\ vector' \subseteq vector /\ forsaken \subseteq forsaken'
        /\ m \notin vector' \/ m \in forsaken'
    BY <2>1 DEF DeleteVector
  <2>4. VectorExplained'
    BY <1>2, <2>2, <2>3 DEF PurgeVector, VectorExplained, Exists, Current
  <2>5. \A k \in worker[w].todo : Current(w, k) => k = m
    BY <2>1, CurrentIsUnique
  <2>6. PurgedFirst'
    BY <2>2, <2>3, <2>5 DEF PurgedFirst, Current
  <2>7. QED  BY <2>4, <2>6
<1>3. ASSUME NEW w \in Workers, DeleteRow(w) PROVE VectorExplained' /\ PurgedFirst'
  <2>1. PICK m \in worker[w].todo :
            /\ Current(w, m)
            /\ row' = [row EXCEPT ![m] = Gone] \/ UNCHANGED row
            /\ Goto(w, "purge", worker[w].todo \ {m})
    BY <1>3 DEF DeleteRow
  <2>2. /\ \A v \in Workers : v # w => worker'[v] = worker[v]
        /\ worker'[w] = [stage |-> "purge", todo |-> worker[w].todo \ {m}]
    BY <2>1 DEF Goto, TypeOK
  <2>3. m \notin vector \/ m \in forsaken
    BY <1>3, <2>1 DEF DeleteRow, PurgedFirst
  <2>4. \A k \in Memories : k # m => row'[k] = row[k]
    BY <2>1 DEF TypeOK
  <2>5. UNCHANGED <<vector, forsaken>>
    BY <1>3 DEF DeleteRow
  <2>6. VectorExplained'
    BY <1>3, <2>2, <2>3, <2>4, <2>5 DEF DeleteRow, VectorExplained, Exists, Current, TypeOK
  <2>7. PurgedFirst'
    BY <2>2, <2>5 DEF PurgedFirst, Current
  <2>8. QED  BY <2>6, <2>7
<1>4. ASSUME NEW w \in Workers, ListForArchival(w) PROVE VectorExplained' /\ PurgedFirst'
  BY <1>4, <1>a DEF ListForArchival, Goto
<1>5. ASSUME NEW w \in Workers, ArchiveRow(w) PROVE VectorExplained' /\ PurgedFirst'
  <2>1. PICK m \in worker[w].todo :
            /\ Current(w, m)
            /\ row' \in {row, Archived(m)}
            /\ \/ UNCHANGED forsaken /\ Goto(w, "unindex", worker[w].todo)
               \/ forsaken' = forsaken \cup {m} /\ Goto(w, "archive", worker[w].todo \ {m})
               \/ UNCHANGED <<row, forsaken>> /\ Goto(w, "archive", worker[w].todo \ {m})
    BY <1>5 DEF ArchiveRow
  <2>2. /\ \A v \in Workers : v # w => worker'[v] = worker[v]
        /\ worker'[w].stage # "delete"
        /\ worker[w].stage = "archive" /\ UNCHANGED vector
        /\ forsaken \subseteq forsaken'
    <3>1. PICK step : worker' = [worker EXCEPT ![w] = step] /\ step.stage # "delete"
      <4> DEFINE At(stage, todo) == [stage |-> stage, todo |-> todo]
      <4>0. \A todo : At("unindex", todo).stage # "delete" /\ At("archive", todo).stage # "delete"
        OBVIOUS
      <4>1. CASE Goto(w, "unindex", worker[w].todo)
        <5>1. worker' = [worker EXCEPT ![w] = At("unindex", worker[w].todo)]
          BY <4>1 DEF Goto
        <5> HIDE DEF At
        <5>2. QED  BY <4>0, <5>1
      <4>2. CASE Goto(w, "archive", worker[w].todo \ {m})
        <5>1. worker' = [worker EXCEPT ![w] = At("archive", worker[w].todo \ {m})]
          BY <4>2 DEF Goto
        <5> HIDE DEF At
        <5>2. QED  BY <4>0, <5>1
      <4>3. QED  BY <2>1, <4>1, <4>2
    <3>2. /\ worker[w].stage = "archive" /\ UNCHANGED vector
          /\ forsaken \subseteq forsaken'
      BY <1>5, <2>1 DEF ArchiveRow
    <3>3. QED  BY <3>1, <3>2 DEF TypeOK
  <2>3. \A k \in Memories : k # m => row'[k] = row[k]
    BY <2>1 DEF Archived, TypeOK
  <2>4. \/ UNCHANGED row
        \/ m \in forsaken'
        \/ worker'[w].stage = "unindex" /\ Current(w, m)'
    BY <2>1 DEF Goto, Current, TypeOK
  <2>5. VectorExplained'
    BY <2>2, <2>3, <2>4 DEF VectorExplained, Exists, Current, TypeOK
  <2>6. PurgedFirst'
    BY <2>2 DEF PurgedFirst, Current
  <2>7. QED  BY <2>5, <2>6
<1>6. ASSUME NEW w \in Workers, UnindexArchived(w) PROVE VectorExplained' /\ PurgedFirst'
  <2>1. PICK m \in worker[w].todo :
            Current(w, m) /\ DeleteVector(m) /\ Goto(w, "archive", worker[w].todo \ {m})
    BY <1>6 DEF UnindexArchived
  <2>2. /\ \A v \in Workers : v # w => worker'[v] = worker[v]
        /\ worker'[w].stage # "delete"
    <3> DEFINE next == [stage |-> "archive", todo |-> worker[w].todo \ {m}]
    <3>1. worker' = [worker EXCEPT ![w] = next] /\ next.stage # "delete"
      BY <2>1 DEF Goto
    <3> HIDE DEF next
    <3>2. QED  BY <3>1 DEF TypeOK
  <2>3. /\ vector' \subseteq vector /\ forsaken \subseteq forsaken'
        /\ m \notin vector' \/ m \in forsaken'
    BY <2>1 DEF DeleteVector
  <2>4. \A k \in Memories : Current(w, k) => k = m
    BY <2>1, CurrentIsUnique
  <2>5. VectorExplained'
    BY <1>6, <2>2, <2>3, <2>4 DEF UnindexArchived, VectorExplained, Exists, Current, TypeOK
  <2>6. PurgedFirst'
    BY <2>2, <2>3 DEF PurgedFirst, Current
  <2>7. QED  BY <2>5, <2>6
<1>7. ASSUME NEW w \in Workers, EndCycle(w) PROVE VectorExplained' /\ PurgedFirst'
  <2>1. worker' = [worker EXCEPT ![w] = Idle] /\ worker[w].stage # "unindex"
    BY <1>7 DEF EndCycle
  <2>2. Idle.stage # "delete" /\ UNCHANGED <<row, vector, forsaken>>
    BY <1>7 DEF EndCycle, Idle
  <2>3. QED  BY <1>a, <2>1, <2>2
<1>8. ASSUME NEW w \in Workers, Crash(w) PROVE VectorExplained' /\ PurgedFirst'
  <2>1. /\ \A v \in Workers : v # w => worker'[v] = worker[v]
        /\ worker'[w].stage # "delete"
    BY <1>8 DEF Crash, Idle, TypeOK
  <2>2. /\ UNCHANGED <<row, vector>> /\ forsaken \subseteq forsaken'
        /\ \A m \in Memories : worker[w].stage = "unindex" /\ Current(w, m) => m \in forsaken'
    BY <1>8 DEF Crash
  <2>3. VectorExplained'
    BY <2>1, <2>2 DEF VectorExplained, Exists, Current, TypeOK
  <2>4. PurgedFirst'
    BY <2>1, <2>2 DEF PurgedFirst, Current
  <2>5. QED  BY <2>3, <2>4
<1>9. ASSUME NEW m \in Memories, Retrieve(m) \/ Pass(m) PROVE VectorExplained' /\ PurgedFirst'
  <2>1. /\ Exists(m) /\ UNCHANGED <<vector, worker, forsaken>>
        /\ row[m] \in RowType /\ row \in [Memories -> RowType \cup {Gone}]
    BY <1>9 DEF Retrieve, Pass, Exists, TypeOK
  <2>2. \A k \in Memories : k # m => row'[k] = row[k]
    BY <1>9, <2>1 DEF Retrieve, Pass
  <2>3. row'[m] \in RowType /\ row'[m].archived = row[m].archived
    <3>1. TypeOK'
      BY TypeStep
    <3>2. row'[m].metadata = row[m].metadata /\ row'[m].archived = row[m].archived
      <4>1. CASE Retrieve(m)
        BY <2>1, <4>1 DEF Retrieve, RowType
      <4>2. CASE Pass(m)
        BY <2>1, <4>2 DEF Pass, RowType
      <4>3. QED  BY <1>9, <4>1, <4>2
    <3>3. row'[m] # Gone
      <4>1. row'[m].metadata \in MetadataKinds
        BY <2>1, <3>2 DEF RowType
      <4>2. Gone.metadata \notin MetadataKinds
        BY DEF Gone, MetadataKinds
      <4>3. QED  BY <4>1, <4>2
    <3>4. QED  BY <3>1, <3>2, <3>3 DEF TypeOK
  <2>4. row'[m] # Gone
    BY <2>3, GoneIsNoRow
  <2>5. VectorExplained'
    BY <2>1, <2>2, <2>3, <2>4 DEF VectorExplained, Exists, Current, TypeOK
  <2>6. PurgedFirst'
    BY <2>1 DEF PurgedFirst, Current
  <2>7. QED  BY <2>5, <2>6
<1>10. QED
  BY <1>0, <1>1, <1>2, <1>3, <1>4, <1>5, <1>6, <1>7, <1>8, <1>9 DEF Next, WorkerStep

\* A vector outlives its memory, or the archiving of it, only where Qdrant refused
\* or a process ended, for any number of workers on one store.
THEOREM VectorsAreExplained == Spec => []VectorExplained
<1>1. Init => VInv
  BY TypeInit, VInit DEF VInv
<1>2. VInv /\ [Next]_vars => VInv'
  BY TypeStep, VStep DEF VInv
<1>3. VInv => VectorExplained
  BY DEF VInv
<1>4. QED  BY <1>1, <1>2, <1>3, PTL DEF Spec
-----------------------------------------------------------------------------
(* What is archived is not listed for deletion, and the only rows that go are  *)
(* those a worker has listed.                                                  *)

LEMMA ReachStep ==
    ASSUME TypeOK, [Next]_vars, NEW m \in Memories, OutOfReach(m)
    PROVE  OutOfReach(m)'
<1> DEFINE Listed(v) == worker[v].stage \in {"purge", "delete"} /\ m \in worker[v].todo
<1>0. /\ row[m].archived /\ \A v \in Workers : ~ Listed(v)
      /\ row[m] \in RowType /\ row \in [Memories -> RowType \cup {Gone}]
  BY DEF OutOfReach, TypeOK, Gone
<1>a. ASSUME row'[m].archived, \A v \in Workers : ~ Listed(v)'
      PROVE  OutOfReach(m)'
  BY <1>a DEF OutOfReach
<1>0a. CASE UNCHANGED vars
  BY <1>0, <1>0a, <1>a DEF vars
\* A step of one worker that leaves the row of m alone.
<1>b. ASSUME NEW w \in Workers, NEW step, worker' = [worker EXCEPT ![w] = step],
             row'[m].archived, step.stage \in {"purge", "delete"} => m \notin step.todo
      PROVE  OutOfReach(m)'
  <2>1. \A v \in Workers : worker'[v] = IF v = w THEN step ELSE worker[v]
    BY <1>b DEF TypeOK
  <2>2. \A v \in Workers : ~ Listed(v)'
    BY <1>0, <1>b, <2>1
  <2>3. QED  BY <1>a, <1>b, <2>2
<1>1. ASSUME NEW w \in Workers, ListForDeletion(w) PROVE OutOfReach(m)'
  <2>1. m \notin GetColdMemories(Deletion)
    BY <1>0 DEF GetColdMemories, Cold, IsCold
  <2>2. PICK todo : Goto(w, "purge", todo) /\ m \notin todo
    BY <1>1, <2>1 DEF ListForDeletion
  <2>3. row'[m].archived
    BY <1>0, <1>1 DEF ListForDeletion
  <2>4. QED  BY <1>b, <2>2, <2>3 DEF Goto
<1>2. ASSUME NEW w \in Workers, PurgeVector(w) PROVE OutOfReach(m)'
  <2>1. m \notin worker[w].todo /\ row'[m].archived
    BY <1>0, <1>2 DEF PurgeVector
  <2>2. QED  BY <1>2, <1>b, <2>1 DEF PurgeVector, Goto
<1>3. ASSUME NEW w \in Workers, DeleteRow(w) PROVE OutOfReach(m)'
  <2>1. m \notin worker[w].todo
    BY <1>0, <1>3 DEF DeleteRow
  <2>2. PICK k \in worker[w].todo :
            /\ row' = [row EXCEPT ![k] = Gone] \/ UNCHANGED row
            /\ Goto(w, "purge", worker[w].todo \ {k})
    BY <1>3 DEF DeleteRow
  <2>3. row'[m].archived
    BY <1>0, <2>1, <2>2
  <2>4. m \notin worker[w].todo \ {k}
    BY <2>1
  <2>5. QED  BY <1>b, <2>2, <2>3, <2>4 DEF Goto
<1>4. ASSUME NEW w \in Workers, ListForArchival(w) PROVE OutOfReach(m)'
  <2>1. row'[m].archived
    BY <1>0, <1>4 DEF ListForArchival
  <2>2. PICK todo : Goto(w, "archive", todo)
    BY <1>4 DEF ListForArchival
  <2>3. QED  BY <1>b, <2>1, <2>2 DEF Goto
<1>5. ASSUME NEW w \in Workers, ArchiveRow(w) PROVE OutOfReach(m)'
  <2>1. PICK k \in worker[w].todo :
            /\ row' = row \/ row' = Archived(k)
            /\ Goto(w, "unindex", worker[w].todo) \/ Goto(w, "archive", worker[w].todo \ {k})
    BY <1>5 DEF ArchiveRow
  <2>2. row'[m].archived
    <3>1. CASE row' = row
      BY <1>0, <3>1
    <3>2. CASE row' = Archived(k) /\ row' # row
      <4>1. row' = [row EXCEPT ![k].archived = TRUE, ![k].metadata = "object"]
        BY <3>2 DEF Archived
      <4>2. k = m => row'[m].archived
        BY <1>0, <4>1 DEF RowType
      <4>3. k # m => row'[m] = row[m]
        BY <1>0, <4>1
      <4>4. QED  BY <1>0, <4>2, <4>3
    <3>3. QED  BY <2>1, <3>1, <3>2
  <2>3. QED  BY <1>b, <2>1, <2>2 DEF Goto
<1>6. ASSUME NEW w \in Workers, UnindexArchived(w) \/ EndCycle(w) \/ Crash(w) PROVE OutOfReach(m)'
  <2>1. row'[m].archived
    BY <1>0, <1>6 DEF UnindexArchived, EndCycle, Crash
  <2>2. PICK step : worker' = [worker EXCEPT ![w] = step] /\ step.stage \in {"archive", "idle"}
    BY <1>6 DEF UnindexArchived, EndCycle, Crash, Goto, Idle
  <2>3. QED  BY <1>b, <2>1, <2>2
<1>7. ASSUME NEW k \in Memories, Retrieve(k) \/ Pass(k) PROVE OutOfReach(m)'
  <2>1. UNCHANGED worker /\ row[k] \in RowType
    BY <1>0, <1>7 DEF Retrieve, Pass, Exists
  <2>2. k # m => row'[m] = row[m]
    BY <1>0, <1>7 DEF Retrieve, Pass
  <2>3. k = m => row'[m].archived = row[m].archived
    <3>1. CASE Retrieve(k)
      BY <1>0, <2>1, <3>1 DEF Retrieve, RowType
    <3>2. CASE Pass(k)
      BY <1>0, <2>1, <3>2 DEF Pass, RowType
    <3>3. QED  BY <1>7, <3>1, <3>2
  <2>4. row'[m].archived
    BY <1>0, <2>2, <2>3
  <2>5. QED  BY <1>0, <1>a, <2>1, <2>4
<1>8. QED
  BY <1>0a, <1>1, <1>2, <1>3, <1>4, <1>5, <1>6, <1>7 DEF Next, WorkerStep

\* What is archived stays in Postgres ("keep in Postgres", aging.go:73), whatever
\* fails and however many workers there are, unless a worker had listed it for
\* deletion before it was archived.
THEOREM ArchivedMemoriesAreKept == Spec => ArchivedIsKept
<1>1. Init => TypeOK
  BY TypeInit
<1>2. TypeOK /\ [Next]_vars => TypeOK'
  BY TypeStep
<1>3. TypeOK /\ [Next]_vars => [\A m \in Memories : OutOfReach(m) => OutOfReach(m)']_vars
  BY ReachStep
<1>4. QED  BY <1>1, <1>2, <1>3, PTL DEF Spec, ArchivedIsKept
=============================================================================
