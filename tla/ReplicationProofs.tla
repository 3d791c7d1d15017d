-------------------------- MODULE ReplicationProofs -------------------------
(***************************************************************************)
(* Theorems about Replication, for every number of nodes, stores and       *)
(* memories, every assignment of nodes to stores, every channel capacity,  *)
(* whatever gossip reports and whatever fails: what a row, a vector and an *)
(* event in a node's hands say of each other, that replication implements  *)
(* Copies, and that no event vanishes.                                     *)
(***************************************************************************)
EXTENDS Replication, FiniteSetTheorems, TLAPS

USE DEF InitialVersion, NoVersion

-----------------------------------------------------------------------------
(* Type correctness. *)

LoopRecord == [stage : {"select", "write", "index"}, event : Event,
               seen : {NoVersion, InitialVersion}]

LEMMA DataFacts ==
    /\ NoRow \notin Row /\ SavedRow \in Row
    /\ \A e \in Event : ReplicaRow(e) \in Row
    /\ \A m \in Memories : StoredEvent(m) \in Event
    /\ Idle \notin LoopRecord /\ Idle.stage = "idle"
BY DEF NoRow, Row, SavedRow, ReplicaRow, StoredEvent, Event, Idle, LoopRecord

\* A stage of the loop that is not idle comes with an event.
LEMMA Busy ==
    ASSUME TypeOK, NEW n \in Nodes, loop[n].stage # "idle" \/ loop[n] # Idle
    PROVE  /\ loop[n] \in LoopRecord /\ loop[n] # Idle
           /\ loop[n].event \in Event /\ loop[n].event.memory \in Memories
           /\ StoreOf[n] \in Stores
BY DataFacts, ReplicationAssumption DEF TypeOK, LoopRecord, Event

LEMMA InitType == Init => TypeOK
BY ReplicationAssumption DEF Init, TypeOK

LEMMA GiveUpType ==
    ASSUME TypeOK, NEW n \in Nodes, NEW m \in Memories, GiveUp(n, m)
    PROVE  lost' \in [Nodes -> SUBSET Memories]
BY DEF TypeOK, GiveUp

LEMMA AddVectorType ==
    ASSUME TypeOK, NEW s \in Stores, NEW m \in Memories,
           vector' = [vector EXCEPT ![s] = @ \cup {m}]
    PROVE  vector' \in [Stores -> SUBSET Memories]
<1>1. vector[s] \cup {m} \in SUBSET Memories
    BY DEF TypeOK
<1> QED
    BY <1>1 DEF TypeOK

LEMMA IndexStageType ==
    ASSUME TypeOK, NEW n \in Nodes, loop[n] \in LoopRecord,
           loop' = [loop EXCEPT ![n].stage = "index"]
    PROVE  loop' \in [Nodes -> {Idle} \cup LoopRecord]
<1>1. [loop[n] EXCEPT !.stage = "index"] \in LoopRecord
    BY DEF LoopRecord
<1> QED
    BY <1>1 DEF TypeOK, LoopRecord

LEMMA ApplyFailsType ==
    ASSUME TypeOK, NEW n \in Nodes, loop[n].event.memory \in Memories, ApplyFails(n)
    PROVE  /\ loop' \in [Nodes -> {Idle} \cup LoopRecord]
           /\ lost' \in [Nodes -> SUBSET Memories]
           /\ row' = row /\ vector' = vector
BY GiveUpType DEF ApplyFails, TypeOK, dataVars, LoopRecord

LEMMA StoreStepType ==
    ASSUME TypeOK, NEW n \in Nodes, NEW m \in Memories, StoreStep(n, m)
    PROVE  TypeOK'
<1>0. StoreOf[n] \in Stores
    BY ReplicationAssumption
<1>1. CASE RejectStore(n, m)
    BY <1>1 DEF RejectStore, TypeOK, nodeVars, dataVars
<1>2. CASE SaveMemory(n, m)
    BY <1>0, <1>2, DataFacts DEF SaveMemory, TypeOK, nodeVars
<1>5. CASE LoseCommit(n, m)
    <2>1. lost' \in [Nodes -> SUBSET Memories]
        BY <1>5, GiveUpType DEF LoseCommit
    <2> QED
        BY <1>0, <1>5, <2>1, DataFacts DEF LoseCommit, TypeOK, nodeVars
<1>3. CASE IndexMemory(n, m)
    <2>1. lost' \in [Nodes -> SUBSET Memories]
        BY <1>3, GiveUpType DEF IndexMemory, TypeOK
    <2>2. vector' \in [Stores -> SUBSET Memories]
        BY <1>0, <1>3, AddVectorType DEF IndexMemory, TypeOK
    <2> QED
        BY <1>3, <2>1, <2>2 DEF IndexMemory, TypeOK, nodeVars
<1>4. CASE PublishStored(n, m)
    <2>1. lost' \in [Nodes -> SUBSET Memories]
        BY <1>4, GiveUpType DEF PublishStored, TypeOK
    <2>2. inbox' \in [Nodes -> Seq(Event)]
        <3>1. \A p \in Nodes : Append(inbox[p], StoredEvent(m)) \in Seq(Event)
            BY DataFacts DEF TypeOK
        <3> QED
            BY <1>4, <3>1 DEF PublishStored, Broadcast, TypeOK
    <2> QED
        BY <1>4, <2>1, <2>2 DEF PublishStored, TypeOK, dataVars
<1> QED
    BY <1>1, <1>2, <1>3, <1>4, <1>5 DEF StoreStep

LEMMA LoopStepType ==
    ASSUME TypeOK, NEW n \in Nodes, LoopStep(n)
    PROVE  TypeOK'
<1>1. CASE Dequeue(n)
    <2>1. Head(queue[n]) \in Event /\ Tail(queue[n]) \in Seq(Event)
          /\ Len(Tail(queue[n])) <= QueueCapacity
        BY <1>1, ReplicationAssumption DEF Dequeue, TypeOK
    <2>2. At("select", Head(queue[n]), NoVersion) \in LoopRecord
        BY <2>1 DEF At, LoopRecord
    <2>3. loop' \in [Nodes -> {Idle} \cup LoopRecord]
        BY <1>1, <2>2 DEF Dequeue, TypeOK, LoopRecord
    <2> QED
        BY <1>1, <2>1, <2>3 DEF Dequeue, TypeOK, dataVars, LoopRecord
<1>2. CASE SelectVersion(n)
    <2>0. loop[n] \in LoopRecord /\ loop[n].event.memory \in Memories /\ StoreOf[n] \in Stores
        BY <1>2, Busy DEF SelectVersion
    <2>1. CASE ApplyFails(n)
        BY <1>2, <2>0, <2>1, ApplyFailsType DEF SelectVersion, TypeOK, LoopRecord
    <2>2. CASE ~ ApplyFails(n)
        <3> DEFINE version == row[StoreOf[n]][loop[n].event.memory].version
        <3>1. row[StoreOf[n]][loop[n].event.memory] \in Row \cup {NoRow}
            BY <2>0 DEF TypeOK
        <3>2. version \in {NoVersion, InitialVersion}
            BY <3>1 DEF Row, NoRow
        <3>3. [loop[n] EXCEPT !.stage = "write", !.seen = version] \in LoopRecord
            BY <2>0, <3>2 DEF LoopRecord
        <3>4. loop' = [loop EXCEPT ![n] = [loop[n] EXCEPT !.stage = "write", !.seen = version]]
            BY <1>2, <2>0, <2>2 DEF SelectVersion, TypeOK, LoopRecord
        <3>5. loop' \in [Nodes -> {Idle} \cup LoopRecord]
            BY <3>3, <3>4 DEF TypeOK, LoopRecord
        <3> QED
            BY <1>2, <2>2, <3>5 DEF SelectVersion, TypeOK, dataVars, LoopRecord
    <2> QED
        BY <2>1, <2>2
<1>3. CASE WriteRow(n)
    <2>0. loop[n] \in LoopRecord /\ loop[n].event \in Event
          /\ loop[n].event.memory \in Memories /\ StoreOf[n] \in Stores
        BY <1>3, Busy DEF WriteRow
    <2>1. CASE ApplyFails(n)
        BY <1>3, <2>0, <2>1, ApplyFailsType DEF WriteRow, TypeOK, LoopRecord
    <2>2. CASE loop' = [loop EXCEPT ![n] = Idle] /\ UNCHANGED <<dataVars, lost>>
        BY <1>3, <2>2 DEF WriteRow, TypeOK, dataVars
    <2>3. CASE /\ row' = [row EXCEPT ![StoreOf[n]][loop[n].event.memory] = ReplicaRow(loop[n].event)]
               /\ UNCHANGED vector
               /\ \/ loop' = [loop EXCEPT ![n].stage = "index"] /\ UNCHANGED lost
                  \/ loop' = [loop EXCEPT ![n] = Idle] /\ GiveUp(n, loop[n].event.memory)
        <3>1. row' \in [Stores -> [Memories -> Row \cup {NoRow}]]
            <4> DEFINE new == ReplicaRow(loop[n].event)
            <4>1. new \in Row
                BY <2>0, DataFacts
            <4> HIDE DEF new
            <4>2. [row[StoreOf[n]] EXCEPT ![loop[n].event.memory] = new]
                        \in [Memories -> Row \cup {NoRow}]
                BY <2>0, <4>1 DEF TypeOK
            <4>3. row' = [row EXCEPT ![StoreOf[n]] =
                            [row[StoreOf[n]] EXCEPT ![loop[n].event.memory] = new]]
                BY <2>3 DEF new
            <4> QED
                BY <4>2, <4>3 DEF TypeOK
        <3>2. loop' \in [Nodes -> {Idle} \cup LoopRecord]
            <4>1. CASE loop' = [loop EXCEPT ![n].stage = "index"]
                BY <2>0, <4>1, IndexStageType
            <4>2. CASE loop' = [loop EXCEPT ![n] = Idle]
                BY <4>2 DEF TypeOK, LoopRecord
            <4> QED
                BY <2>3, <4>1, <4>2
        <3>3. lost' \in [Nodes -> SUBSET Memories]
            BY <2>0, <2>3, GiveUpType DEF TypeOK
        <3> QED
            BY <1>3, <2>3, <3>1, <3>2, <3>3 DEF WriteRow, TypeOK, LoopRecord
    <2> QED
        BY <1>3, <2>1, <2>2, <2>3 DEF WriteRow
<1>4. CASE IndexVector(n)
    <2>0. loop[n] \in LoopRecord /\ loop[n].event.memory \in Memories /\ StoreOf[n] \in Stores
        BY <1>4, Busy DEF IndexVector
    <2>1. CASE ApplyFails(n)
        BY <1>4, <2>0, <2>1, ApplyFailsType DEF IndexVector, TypeOK, LoopRecord
    <2>2. CASE ~ ApplyFails(n)
        <3>1. vector' \in [Stores -> SUBSET Memories]
            BY <1>4, <2>0, <2>2, AddVectorType DEF IndexVector
        <3> QED
            BY <1>4, <2>2, <3>1 DEF IndexVector, TypeOK
    <2> QED
        BY <2>1, <2>2
<1> QED
    BY <1>1, <1>2, <1>3, <1>4 DEF LoopStep

LEMMA HandleType ==
    ASSUME TypeOK, NEW n \in Nodes, HandleMemoryStored(n)
    PROVE  TypeOK'
<1>1. Head(inbox[n]) \in Event /\ Tail(inbox[n]) \in Seq(Event)
      /\ Head(inbox[n]).memory \in Memories
    <2>1. Head(inbox[n]) \in Event /\ Tail(inbox[n]) \in Seq(Event)
        BY DEF HandleMemoryStored, TypeOK
    <2> QED
        BY <2>1 DEF Event
<1>2. inbox' \in [Nodes -> Seq(Event)]
    BY <1>1 DEF HandleMemoryStored, TypeOK
<1>3. lost' \in [Nodes -> SUBSET Memories] /\ dlq' \in SUBSET Memories
    BY <1>1, GiveUpType DEF HandleMemoryStored, TypeOK
<1>4. queue' \in [Nodes -> Seq(Event)] /\ \A p \in Nodes : Len(queue'[p]) <= QueueCapacity
    <2>1. CASE HasRoom(queue[n])
        <3>1. queue' = [queue EXCEPT ![n] = Append(@, Head(inbox[n]))]
            BY <2>1 DEF HandleMemoryStored
        <3>2. Append(queue[n], Head(inbox[n])) \in Seq(Event)
              /\ Len(Append(queue[n], Head(inbox[n]))) <= QueueCapacity
            BY <1>1, <2>1, ReplicationAssumption DEF HasRoom, TypeOK
        <3> QED
            BY <3>1, <3>2 DEF TypeOK
    <2>2. CASE ~ HasRoom(queue[n])
        BY <2>2 DEF HandleMemoryStored, TypeOK
    <2> QED
        BY <2>1, <2>2
<1> QED
    BY <1>2, <1>3, <1>4 DEF HandleMemoryStored, TypeOK, dataVars

LEMMA DieType ==
    ASSUME TypeOK, NEW n \in Nodes, Die(n)
    PROVE  TypeOK'
<1>1. inbox' \in [Nodes -> Seq(Event)] /\ queue' \in [Nodes -> Seq(Event)]
    BY DEF Die, TypeOK
<1>2. \A p \in Nodes : Len(queue'[p]) <= QueueCapacity
    BY ReplicationAssumption DEF Die, TypeOK
<1>3. request' \in [Memories ->
          [stage : {"new", "rejected", "saved", "indexed", "done", "aborted"},
           at : Nodes \cup {NoNode}]]
    BY DEF Die, TypeOK
<1>4. lost' \in [Nodes -> SUBSET Memories]
    BY DEF Die, TypeOK
<1> QED
    BY <1>1, <1>2, <1>3, <1>4 DEF Die, TypeOK, dataVars

LEMMA NextType == TypeOK /\ [Next]_vars => TypeOK'
<1> SUFFICES ASSUME TypeOK, [Next]_vars PROVE TypeOK'
    OBVIOUS
<1>1. ASSUME NEW n \in Nodes, Restart(n) PROVE TypeOK'
    BY <1>1 DEF Restart, TypeOK, dataVars
<1>2. CASE UNCHANGED vars
    BY <1>2 DEF vars, TypeOK
<1> QED
    BY <1>1, <1>2, StoreStepType, LoopStepType, HandleType, DieType
    DEF Next, NodeStep, Crash

\* The type invariant, the capacity of the replication channel included, holds
\* in every reachable state.
THEOREM TypeCorrect == Spec => []TypeOK
<1> QED
    BY InitType, NextType, PTL DEF Spec

-----------------------------------------------------------------------------
(***************************************************************************)
(* The inductive invariant.  Each part closes a gap of the properties:     *)
(* an event is some node's Store call that is done (Genuine), that call    *)
(* left its row (Backed), a memory nobody stored has no row (NewIsUnsaved),*)
(* the loop indexes what it has written (WrittenBeforeIndexed), and every  *)
(* row is the stored text at version 1 (StoredRows).                       *)
(***************************************************************************)

\* Node n has event e: held for it by NATS, queued, or being applied.
Has(n, e) ==
    \/ \E i \in DOMAIN inbox[n] : inbox[n][i] = e
    \/ \E i \in DOMAIN queue[n] : queue[n][i] = e
    \/ loop[n] # Idle /\ loop[n].event = e

Genuine ==
    \A n \in Nodes, e \in Event : Has(n, e) =>
        e = StoredEvent(e.memory) /\ request[e.memory].stage = "done"

Committed == {"saved", "indexed", "done"}

Backed ==
    \A m \in Memories : request[m].stage \in Committed =>
        request[m].at \in Nodes /\ HasRow(request[m].at, m)

NewIsUnsaved ==
    \A s \in Stores, m \in Memories : row[s][m] # NoRow => request[m].stage # "new"

WrittenBeforeIndexed ==
    \A n \in Nodes : loop[n].stage = "index" => HasRow(n, loop[n].event.memory)

StoredRows ==
    \A s \in Stores, m \in Memories : row[s][m] # NoRow =>
        row[s][m].version = InitialVersion /\ row[s][m].content = "stored"

\* Backed apart, all of it survives the deletions of ageing.
RCore == TypeOK /\ Genuine /\ NewIsUnsaved /\ WrittenBeforeIndexed /\ StoredRows

RInv == RCore /\ Backed

LEMMA InitRInv == Init => RInv
<1> SUFFICES ASSUME Init PROVE RInv
    OBVIOUS
<1>1. \A n \in Nodes : DOMAIN inbox[n] = {} /\ DOMAIN queue[n] = {} /\ loop[n] = Idle
    BY DEF Init
<1>2. Genuine
    BY <1>1 DEF Genuine, Has
<1>3. Backed
    BY DEF Init, Backed, Committed
<1>4. NewIsUnsaved /\ StoredRows
    BY DEF Init, NewIsUnsaved, StoredRows
<1>5. WrittenBeforeIndexed
    BY <1>1, DataFacts DEF WrittenBeforeIndexed
<1> QED
    BY <1>2, <1>3, <1>4, <1>5, InitType DEF RInv, RCore

\* Rows only appear: one that is there is never changed.
LEMMA RowsKept ==
    ASSUME RCore, [Next]_vars, NEW s \in Stores, NEW m \in Memories, row[s][m] # NoRow
    PROVE  row'[s][m] = row[s][m]
<1>0. TypeOK /\ Genuine /\ NewIsUnsaved
    BY DEF RCore
<1>1. ASSUME NEW n \in Nodes, NEW k \in Memories, StoreStep(n, k)
      PROVE  row'[s][m] = row[s][m]
    <2>1. CASE SaveMemory(n, k) \/ LoseCommit(n, k)
        <3>1. row' = [row EXCEPT ![StoreOf[n]][k] = SavedRow] /\ request[k].stage = "new"
            BY <2>1 DEF SaveMemory, LoseCommit
        <3>2. k # m
            BY <1>0, <3>1 DEF NewIsUnsaved
        <3> QED
            BY <1>0, <3>1, <3>2 DEF TypeOK
    <2> QED
        BY <1>1, <2>1 DEF StoreStep, RejectStore, IndexMemory, PublishStored, dataVars
<1>2. ASSUME NEW n \in Nodes, LoopStep(n) PROVE row'[s][m] = row[s][m]
    <2>1. CASE WriteRow(n)
        <3>0. loop[n] \in LoopRecord /\ loop[n] # Idle /\ loop[n].event \in Event
            BY <1>0, <2>1, Busy DEF WriteRow
        <3>1. CASE row' = row
            BY <3>1
        <3>2. CASE row' # row
            <4>1. loop[n].seen = NoVersion /\ ~ HasRow(n, loop[n].event.memory)
                <5>1. loop[n].seen \in {NoVersion, InitialVersion}
                    BY <3>0 DEF LoopRecord
                <5>2. loop[n].event.version = InitialVersion
                    BY <3>0 DEF Event
                <5> QED
                    BY <2>1, <3>2, <5>1, <5>2 DEF WriteRow, ApplyFails, dataVars, Newer
            <4>2. row' = [row EXCEPT ![StoreOf[n]][loop[n].event.memory] = ReplicaRow(loop[n].event)]
                BY <2>1, <3>2 DEF WriteRow, ApplyFails, dataVars
            <4> QED
                BY <1>0, <4>1, <4>2 DEF HasRow, TypeOK
        <3> QED
            BY <3>1, <3>2
    <2> QED
        BY <1>2, <2>1 DEF LoopStep, Dequeue, SelectVersion, IndexVector, ApplyFails, dataVars
<1>3. ASSUME NEW n \in Nodes, HandleMemoryStored(n) \/ Die(n) \/ Restart(n)
      PROVE  row'[s][m] = row[s][m]
    BY <1>3 DEF HandleMemoryStored, Die, Restart, dataVars
<1>4. CASE UNCHANGED vars
    BY <1>4 DEF vars
<1> QED
    BY <1>1, <1>2, <1>3, <1>4 DEF Next, NodeStep, Crash

\* A Store call that is done stays done where it was.
LEMMA DoneKept ==
    ASSUME TypeOK, [Next]_vars, NEW m \in Memories, request[m].stage = "done"
    PROVE  request'[m] = request[m]
<1>1. ASSUME NEW n \in Nodes, NEW k \in Memories, StoreStep(n, k)
      PROVE  request'[m] = request[m]
    <2>1. request[k].stage # "done" /\ \A j \in Memories \ {k} : request'[j] = request[j]
        BY <1>1 DEF StoreStep, RejectStore, SaveMemory, LoseCommit, IndexMemory, PublishStored, TypeOK
    <2> QED
        BY <2>1
<1>2. ASSUME NEW n \in Nodes, LoopStep(n) \/ HandleMemoryStored(n) \/ Restart(n)
      PROVE  request' = request
    BY <1>2 DEF LoopStep, Dequeue, SelectVersion, WriteRow, IndexVector,
                HandleMemoryStored, Restart
<1>3. ASSUME NEW n \in Nodes, Die(n) PROVE request'[m] = request[m]
    BY <1>3 DEF Die, TypeOK
<1>4. CASE UNCHANGED vars
    BY <1>4 DEF vars
<1> QED
    BY <1>1, <1>2, <1>3, <1>4 DEF Next, NodeStep, Crash

\* The members of a sequence that was extended or shortened.
LEMMA Members ==
    ASSUME NEW q \in Seq(Event), NEW e \in Event
    PROVE  /\ \A i \in DOMAIN Append(q, e) :
                Append(q, e)[i] = e \/ \E j \in DOMAIN q : q[j] = Append(q, e)[i]
           /\ q # <<>> =>
                /\ \A i \in DOMAIN Tail(q) : \E j \in DOMAIN q : q[j] = Tail(q)[i]
                /\ \E j \in DOMAIN q : q[j] = Head(q)
<1>1. q # <<>> => Head(q) = q[1] /\ 1 \in DOMAIN q
    OBVIOUS
<1>2. \A i \in DOMAIN Tail(q) : q # <<>> => i + 1 \in DOMAIN q /\ Tail(q)[i] = q[i + 1]
    OBVIOUS
<1>3. \A i \in DOMAIN Append(q, e) :
        Append(q, e)[i] = e \/ (i \in DOMAIN q /\ q[i] = Append(q, e)[i])
    OBVIOUS
<1> QED
    BY <1>1, <1>2, <1>3

\* Only a Store call that ends brings an event into a node's hands.
LEMMA EventOrigin ==
    ASSUME TypeOK, [Next]_vars, NEW n \in Nodes, NEW e \in Event, Has(n, e)'
    PROVE  \/ Has(n, e)
           \/ /\ e = StoredEvent(e.memory)
              /\ request[e.memory].stage = "indexed" /\ request'[e.memory].stage = "done"
<1> DEFINE Goal == \/ Has(n, e)
                   \/ /\ e = StoredEvent(e.memory)
                      /\ request[e.memory].stage = "indexed" /\ request'[e.memory].stage = "done"
<1>0. inbox[n] \in Seq(Event) /\ queue[n] \in Seq(Event)
    BY DEF TypeOK
<1>1. CASE UNCHANGED <<inbox, queue, loop>>
    BY <1>1 DEF Has
<1>2. ASSUME NEW p \in Nodes, NEW m \in Memories, PublishStored(p, m) PROVE Goal
    <2>1. /\ UNCHANGED <<queue, loop>>
          /\ request[m].stage = "indexed" /\ request'[m].stage = "done"
        BY <1>2 DEF PublishStored, TypeOK
    <2>2. inbox'[n] = inbox[n] \/ inbox'[n] = Append(inbox[n], StoredEvent(m))
        BY <1>2 DEF PublishStored, Broadcast
    <2>3. StoredEvent(m) \in Event /\ StoredEvent(m).memory = m
        BY DataFacts DEF StoredEvent
    <2>4. CASE e = StoredEvent(m)
        BY <2>1, <2>3, <2>4
    <2>5. CASE e # StoredEvent(m)
        <3>1. \A i \in DOMAIN Append(inbox[n], StoredEvent(m)) :
                Append(inbox[n], StoredEvent(m))[i] = e
                    => \E j \in DOMAIN inbox[n] : inbox[n][j] = e
            BY <1>0, <2>3, <2>5, Members
        <3>2. \A i \in DOMAIN inbox'[n] : inbox'[n][i] = e
                    => \E j \in DOMAIN inbox[n] : inbox[n][j] = e
            BY <2>2, <3>1
        <3> QED
            BY <2>1, <3>2 DEF Has
    <2> QED
        BY <2>4, <2>5
<1>3. ASSUME NEW p \in Nodes, HandleMemoryStored(p) PROVE Goal
    <2>0. loop' = loop
        BY <1>3 DEF HandleMemoryStored
    <2>1. CASE p # n
        BY <1>3, <2>0, <2>1 DEF HandleMemoryStored, TypeOK, Has
    <2>2. CASE p = n
        <3>1. inbox'[n] = Tail(inbox[n]) /\ inbox[n] # <<>>
            BY <1>3, <2>2 DEF HandleMemoryStored, TypeOK
        <3>2. Head(inbox[n]) \in Event
            BY <1>0, <3>1
        <3>3. queue'[n] = queue[n] \/ queue'[n] = Append(queue[n], Head(inbox[n]))
            BY <1>3, <2>2 DEF HandleMemoryStored, TypeOK
        <3>4. \/ \E i \in DOMAIN inbox'[n] : inbox'[n][i] = e
              \/ \E i \in DOMAIN queue'[n] : queue'[n][i] = e
              \/ loop[n] # Idle /\ loop[n].event = e
            BY <2>0 DEF Has
        <3>5. CASE \E i \in DOMAIN inbox'[n] : inbox'[n][i] = e
            BY <1>0, <3>1, <3>2, <3>5, Members DEF Has
        <3>6. CASE \E i \in DOMAIN queue'[n] : queue'[n][i] = e
            <4>1. \E j \in DOMAIN inbox[n] : inbox[n][j] = Head(inbox[n])
                BY <1>0, <3>1, <3>2, Members
            <4>2. \A i \in DOMAIN Append(queue[n], Head(inbox[n])) :
                    Append(queue[n], Head(inbox[n]))[i] = e
                        => e = Head(inbox[n]) \/ \E j \in DOMAIN queue[n] : queue[n][j] = e
                BY <1>0, <3>2, Members
            <4>3. e = Head(inbox[n]) \/ \E j \in DOMAIN queue[n] : queue[n][j] = e
                BY <3>3, <3>6, <4>2
            <4> QED
                BY <4>1, <4>3 DEF Has
        <3> QED
            BY <3>4, <3>5, <3>6 DEF Has
    <2> QED
        BY <2>1, <2>2
<1>4. ASSUME NEW p \in Nodes, Dequeue(p) PROVE Goal
    <2>0. inbox' = inbox
        BY <1>4 DEF Dequeue
    <2>1. CASE p # n
        BY <1>4, <2>0, <2>1 DEF Dequeue, TypeOK, Has
    <2>2. CASE p = n
        <3>1. queue'[n] = Tail(queue[n]) /\ queue[n] # <<>>
            BY <1>4, <2>2 DEF Dequeue, TypeOK
        <3>2. loop'[n] = Idle \/ loop'[n] = At("select", Head(queue[n]), NoVersion)
            BY <1>4, <2>2 DEF Dequeue, TypeOK
        <3>3. Head(queue[n]) \in Event
            BY <1>0, <3>1
        <3>4. loop'[n] # Idle => loop'[n].event = Head(queue[n])
            BY <3>2 DEF At
        <3> QED
            BY <1>0, <2>0, <3>1, <3>3, <3>4, Members DEF Has
    <2> QED
        BY <2>1, <2>2
<1>5. ASSUME NEW p \in Nodes, SelectVersion(p) \/ WriteRow(p) \/ IndexVector(p) PROVE Goal
    <2>0. UNCHANGED <<inbox, queue>> /\ loop[p] \in LoopRecord /\ loop[p] # Idle
        BY <1>5, Busy DEF SelectVersion, WriteRow, IndexVector
    <2>1. CASE loop' = [loop EXCEPT ![p] = Idle]
        BY <2>0, <2>1 DEF Has, TypeOK
    <2>2. CASE loop' # [loop EXCEPT ![p] = Idle]
        <3>1. loop'[n] = loop[n] \/ loop'[n].event = loop[n].event
            BY <1>5, <2>0, <2>2
            DEF SelectVersion, WriteRow, IndexVector, ApplyFails, TypeOK, LoopRecord
        <3>2. loop'[n] = loop[n] \/ n = p
            BY <1>5, <2>0, <2>2
            DEF SelectVersion, WriteRow, IndexVector, ApplyFails, TypeOK
        <3> QED
            BY <2>0, <3>1, <3>2 DEF Has
    <2> QED
        BY <2>1, <2>2
<1>6. ASSUME NEW p \in Nodes, Die(p) PROVE Goal
    <2>1. CASE p # n
        BY <1>6, <2>1 DEF Die, TypeOK, Has
    <2>2. CASE p = n
        <3>1. DOMAIN inbox'[n] = {} /\ DOMAIN queue'[n] = {} /\ loop'[n] = Idle
            BY <1>6, <2>2 DEF Die, TypeOK
        <3> QED
            BY <3>1 DEF Has
    <2> QED
        BY <2>1, <2>2
<1>7. ASSUME NEW p \in Nodes, NEW m \in Memories, StoreStep(p, m), ~ PublishStored(p, m)
      PROVE  UNCHANGED <<inbox, queue, loop>>
    BY <1>7 DEF StoreStep, RejectStore, SaveMemory, LoseCommit, IndexMemory, nodeVars
<1>8. ASSUME NEW p \in Nodes, Restart(p) PROVE UNCHANGED <<inbox, queue, loop>>
    BY <1>8 DEF Restart
<1>9. CASE UNCHANGED vars
    BY <1>1, <1>9 DEF vars
<1> QED
    BY <1>1, <1>2, <1>3, <1>4, <1>5, <1>6, <1>7, <1>8, <1>9
    DEF Next, NodeStep, LoopStep, Crash

LEMMA GenuineStep == RCore /\ [Next]_vars => Genuine'
<1> SUFFICES ASSUME RCore, [Next]_vars, NEW n \in Nodes, NEW e \in Event, Has(n, e)'
             PROVE  e = StoredEvent(e.memory) /\ request'[e.memory].stage = "done"
    BY DEF Genuine
<1>0. TypeOK /\ Genuine /\ e.memory \in Memories
    BY DEF RCore, Event
<1>1. CASE Has(n, e)
    <2>1. e = StoredEvent(e.memory) /\ request[e.memory].stage = "done"
        BY <1>0, <1>1 DEF Genuine
    <2> QED
        BY <1>0, <2>1, DoneKept
<1>2. CASE ~ Has(n, e)
    BY <1>0, <1>2, EventOrigin
<1> QED
    BY <1>1, <1>2

LEMMA BackedStep == RInv /\ [Next]_vars => Backed'
<1> SUFFICES ASSUME RInv, [Next]_vars, NEW m \in Memories, request'[m].stage \in Committed
             PROVE  request'[m].at \in Nodes /\ row'[StoreOf[request'[m].at]][m] # NoRow
    BY DEF Backed, HasRow
<1>0. TypeOK /\ Backed
    BY DEF RInv, RCore
<1>1. CASE request[m].stage \in Committed /\ request'[m].at = request[m].at
    <2>1. request[m].at \in Nodes /\ StoreOf[request[m].at] \in Stores
          /\ HasRow(request[m].at, m)
        BY <1>0, <1>1, ReplicationAssumption DEF Backed
    <2> QED
        BY <1>1, <2>1, RowsKept DEF RInv, HasRow
<1>2. ASSUME NEW n \in Nodes, NEW k \in Memories, StoreStep(n, k),
             ~ (request[m].stage \in Committed /\ request'[m].at = request[m].at)
      PROVE  request'[m].at \in Nodes /\ row'[StoreOf[request'[m].at]][m] # NoRow
    <2>1. SaveMemory(n, k) /\ k = m
        <3>1. k = m
            BY <1>0, <1>2 DEF StoreStep, RejectStore, SaveMemory, LoseCommit, IndexMemory, PublishStored, TypeOK
        <3>2. ~ RejectStore(n, m) /\ ~ LoseCommit(n, m)
            BY <1>0 DEF RejectStore, LoseCommit, TypeOK, Committed
        <3>3. ~ IndexMemory(n, m) /\ ~ PublishStored(n, m)
            BY <1>0, <1>2 DEF IndexMemory, PublishStored, TypeOK, Committed
        <3> QED
            BY <1>2, <3>1, <3>2, <3>3 DEF StoreStep
    <2>2. request'[m].at = n /\ row'[StoreOf[n]][m] = SavedRow
        BY <1>0, <2>1, ReplicationAssumption DEF SaveMemory, TypeOK
    <2> QED
        BY <2>2, DataFacts DEF HasRow
<1>3. ASSUME NEW n \in Nodes, LoopStep(n) \/ HandleMemoryStored(n) \/ Restart(n)
      PROVE  request' = request
    BY <1>3 DEF LoopStep, Dequeue, SelectVersion, WriteRow, IndexVector,
                HandleMemoryStored, Restart
<1>4. ASSUME NEW n \in Nodes, Die(n)
      PROVE  request[m].stage \in Committed /\ request'[m].at = request[m].at
    BY <1>4 DEF Die, Committed
<1>5. CASE UNCHANGED vars
    BY <1>1, <1>5 DEF vars
<1> QED
    BY <1>1, <1>2, <1>3, <1>4, <1>5 DEF Next, NodeStep, Crash

\* A row that appears is the stored text, of a memory whose Store call has begun.
LEMMA NewRow ==
    ASSUME RCore, [Next]_vars, NEW s \in Stores, NEW m \in Memories,
           row[s][m] = NoRow, row'[s][m] # NoRow
    PROVE  /\ row'[s][m].version = InitialVersion /\ row'[s][m].content = "stored"
           /\ request'[m].stage # "new"
<1> DEFINE Goal == /\ row'[s][m].version = InitialVersion /\ row'[s][m].content = "stored"
                   /\ request'[m].stage # "new"
<1>0. TypeOK /\ Genuine
    BY DEF RCore
<1>1. ASSUME NEW n \in Nodes, NEW k \in Memories, StoreStep(n, k) PROVE Goal
    <2>1. SaveMemory(n, k) \/ LoseCommit(n, k)
        BY <1>1 DEF StoreStep, RejectStore, IndexMemory, PublishStored, dataVars
    <2>2. row' = [row EXCEPT ![StoreOf[n]][k] = SavedRow]
        BY <2>1 DEF SaveMemory, LoseCommit
    <2>3. k = m /\ row'[s][m] = SavedRow
        BY <1>0, <2>2 DEF TypeOK
    <2>4. request'[m].stage # "new"
        BY <1>0, <2>1, <2>3 DEF SaveMemory, LoseCommit, TypeOK
    <2> QED
        BY <2>3, <2>4 DEF SavedRow
<1>2. ASSUME NEW n \in Nodes, LoopStep(n) PROVE Goal
    <2>1. WriteRow(n)
        BY <1>2 DEF LoopStep, Dequeue, SelectVersion, IndexVector, ApplyFails, dataVars
    <2> DEFINE e == loop[n].event
    <2>2. loop[n] # Idle /\ e \in Event /\ e.memory \in Memories /\ StoreOf[n] \in Stores
        BY <1>0, <2>1, Busy DEF WriteRow
    <2>3. row' = [row EXCEPT ![StoreOf[n]][e.memory] = ReplicaRow(e)]
        BY <2>1 DEF WriteRow, ApplyFails, dataVars
    <2>4. m = e.memory /\ row'[s][m] = ReplicaRow(e)
        BY <1>0, <2>2, <2>3 DEF TypeOK
    <2>5. e = StoredEvent(m) /\ request[m].stage = "done"
        BY <1>0, <2>2, <2>4 DEF Genuine, Has
    <2>6. ReplicaRow(e).version = InitialVersion /\ ReplicaRow(e).content = "stored"
        BY <2>5 DEF ReplicaRow, StoredEvent
    <2> QED
        BY <1>0, <2>1, <2>4, <2>5, <2>6 DEF WriteRow
<1>3. ASSUME NEW n \in Nodes, HandleMemoryStored(n) \/ Die(n) \/ Restart(n) PROVE row' = row
    BY <1>3 DEF HandleMemoryStored, Die, Restart, dataVars
<1>4. CASE UNCHANGED vars
    BY <1>4 DEF vars
<1> QED
    BY <1>1, <1>2, <1>3, <1>4 DEF Next, NodeStep, Crash

\* A Store call never returns to its beginning.
LEMMA NeverNewAgain ==
    ASSUME TypeOK, [Next]_vars, NEW m \in Memories, request[m].stage # "new"
    PROVE  request'[m].stage # "new"
<1>1. ASSUME NEW n \in Nodes, NEW k \in Memories, StoreStep(n, k)
      PROVE  request'[m].stage # "new"
    <2>1. CASE RejectStore(n, k)
        BY <2>1 DEF RejectStore, TypeOK
    <2>2. CASE SaveMemory(n, k) \/ LoseCommit(n, k)
        BY <2>2 DEF SaveMemory, LoseCommit, TypeOK
    <2>3. CASE IndexMemory(n, k)
        BY <2>3 DEF IndexMemory, TypeOK
    <2>4. CASE PublishStored(n, k)
        BY <2>4 DEF PublishStored, TypeOK
    <2> QED
        BY <1>1, <2>1, <2>2, <2>3, <2>4 DEF StoreStep
<1>2. ASSUME NEW n \in Nodes, LoopStep(n) \/ HandleMemoryStored(n) \/ Restart(n)
      PROVE  request' = request
    BY <1>2 DEF LoopStep, Dequeue, SelectVersion, WriteRow, IndexVector,
                HandleMemoryStored, Restart
<1>3. ASSUME NEW n \in Nodes, Die(n) PROVE request'[m].stage # "new"
    <2>1. request'[m] = request[m] \/ request'[m] = [stage |-> "aborted", at |-> n]
        BY <1>3 DEF Die
    <2> QED
        BY <2>1
<1>4. CASE UNCHANGED vars
    BY <1>4 DEF vars
<1> QED
    BY <1>1, <1>2, <1>3, <1>4 DEF Next, NodeStep, Crash

LEMMA RowsStep == RCore /\ [Next]_vars => NewIsUnsaved' /\ StoredRows'
<1> SUFFICES ASSUME RCore, [Next]_vars, NEW s \in Stores, NEW m \in Memories, row'[s][m] # NoRow
             PROVE  /\ request'[m].stage # "new"
                    /\ row'[s][m].version = InitialVersion /\ row'[s][m].content = "stored"
    BY DEF NewIsUnsaved, StoredRows
<1>1. CASE row[s][m] = NoRow
    BY <1>1, NewRow
<1>2. CASE row[s][m] # NoRow
    BY <1>2, RowsKept, NeverNewAgain DEF RCore, NewIsUnsaved, StoredRows
<1> QED
    BY <1>1, <1>2

LEMMA WrittenStep == RCore /\ [Next]_vars => WrittenBeforeIndexed'
<1> SUFFICES ASSUME RCore, [Next]_vars, NEW p \in Nodes, loop'[p].stage = "index"
             PROVE  row'[StoreOf[p]][loop'[p].event.memory] # NoRow
    BY DEF WrittenBeforeIndexed, HasRow
<1>0. TypeOK /\ WrittenBeforeIndexed
    BY DEF RCore
<1>1. CASE loop'[p] = loop[p]
    <2>1. HasRow(p, loop[p].event.memory)
        BY <1>0, <1>1 DEF WrittenBeforeIndexed
    <2>2. loop[p].event.memory \in Memories /\ StoreOf[p] \in Stores
        BY <1>0, <1>1, Busy
    <2> QED
        BY <1>1, <2>1, <2>2, RowsKept DEF HasRow
<1>2. ASSUME NEW n \in Nodes, LoopStep(n) PROVE row'[StoreOf[p]][loop'[p].event.memory] # NoRow
    <2>1. CASE p # n
        BY <1>0, <1>1, <1>2, <2>1
        DEF LoopStep, Dequeue, SelectVersion, WriteRow, IndexVector, ApplyFails, TypeOK
    <2>2. CASE p = n /\ WriteRow(n)
        <3>0. loop[n] \in LoopRecord /\ loop[n].event \in Event
              /\ loop[n].event.memory \in Memories /\ StoreOf[n] \in Stores
            BY <1>0, <2>2, Busy DEF WriteRow
        <3>1. loop' # [loop EXCEPT ![n] = Idle]
            BY <1>0, <2>2, DataFacts DEF TypeOK
        <3>2. /\ row' = [row EXCEPT ![StoreOf[n]][loop[n].event.memory] = ReplicaRow(loop[n].event)]
              /\ loop' = [loop EXCEPT ![n].stage = "index"]
            BY <2>2, <3>1 DEF WriteRow, ApplyFails
        <3>3. loop'[p].event = loop[n].event
            BY <1>0, <2>2, <3>0, <3>2 DEF TypeOK, LoopRecord
        <3>4. row'[StoreOf[n]][loop[n].event.memory] = ReplicaRow(loop[n].event)
            BY <1>0, <3>0, <3>2 DEF TypeOK
        <3> QED
            BY <2>2, <3>0, <3>3, <3>4, DataFacts DEF HasRow
    <2>3. ~ (p = n /\ Dequeue(n))
        <3> SUFFICES ASSUME p = n, Dequeue(n) PROVE FALSE
            OBVIOUS
        <3>1. loop'[n] = Idle \/ loop'[n] = At("select", Head(queue[n]), NoVersion)
            BY <1>0 DEF Dequeue, TypeOK
        <3>2. loop'[n].stage \in {"idle", "select"}
            BY <3>1, DataFacts DEF At
        <3> QED
            BY <3>2
    <2>4. ~ (p = n /\ IndexVector(n))
        BY <1>0, DataFacts DEF IndexVector, ApplyFails, TypeOK
    <2>5. ~ (p = n /\ SelectVersion(n))
        <3> SUFFICES ASSUME p = n, SelectVersion(n) PROVE FALSE
            OBVIOUS
        <3>1. loop[n] \in LoopRecord
            BY <1>0, Busy DEF SelectVersion
        <3>2. loop'[n] = Idle \/ loop'[n].stage = "write"
            BY <1>0, <3>1 DEF SelectVersion, ApplyFails, TypeOK, LoopRecord
        <3> QED
            BY <3>2, DataFacts
    <2> QED
        BY <1>2, <2>1, <2>2, <2>3, <2>4, <2>5 DEF LoopStep
<1>3. ASSUME NEW n \in Nodes, HandleMemoryStored(n) \/ Restart(n) PROVE loop' = loop
    BY <1>3 DEF HandleMemoryStored, Restart
<1>4. ASSUME NEW n \in Nodes, Die(n) PROVE loop'[p] = loop[p]
    BY <1>0, <1>4, DataFacts DEF Die, TypeOK
<1>5. ASSUME NEW n \in Nodes, NEW m \in Memories, StoreStep(n, m) PROVE loop' = loop
    BY <1>5 DEF StoreStep, RejectStore, SaveMemory, LoseCommit, IndexMemory, PublishStored, nodeVars
<1>6. CASE UNCHANGED vars
    BY <1>1, <1>6 DEF vars
<1> QED
    BY <1>1, <1>2, <1>3, <1>4, <1>5, <1>6 DEF Next, NodeStep, Crash

LEMMA CoreStep == RCore /\ [Next]_vars => RCore'
BY NextType, GenuineStep, RowsStep, WrittenStep DEF RCore

LEMMA NextRInv == RInv /\ [Next]_vars => RInv'
BY CoreStep, BackedStep DEF RInv

\* Every reachable state of replication satisfies the inductive invariant: events
\* name saved memories, rows are as they were written, loops work on real events.
THEOREM RInvCorrect == Spec => []RInv
<1> QED
    BY InitRInv, NextRInv, PTL DEF Spec

-----------------------------------------------------------------------------
(* What the invariant gives. *)

\* Whoever has the event of a memory, the node that stored it has its row.
THEOREM EventsHaveRows == Spec => []EventsBackedByRow
<1>1. RInv => EventsBackedByRow
    <2> SUFFICES ASSUME RInv, NEW n \in Nodes, NEW m \in Memories, EventAt(n, m)
                 PROVE  request[m].at \in Nodes /\ HasRow(request[m].at, m)
        BY DEF EventsBackedByRow
    <2>1. inbox[n] \in Seq(Event) /\ queue[n] \in Seq(Event)
        BY DEF RInv, RCore, TypeOK
    <2>2. loop[n] # Idle => loop[n].event \in Event
        BY Busy DEF RInv, RCore
    <2>3. PICK e \in Event : Has(n, e) /\ e.memory = m
        BY <2>1, <2>2 DEF EventAt, Holds, Has
    <2>4. request[m].stage = "done"
        BY <2>3 DEF RInv, RCore, Genuine
    <2> QED
        BY <2>4 DEF RInv, RCore, Backed, Committed
<1> QED
    BY <1>1, RInvCorrect, PTL

\* Replication never rewrites a row that exists: the event carries the version
\* every row starts with and no code raises a version, so the writer's row
\* survives the writer's own echo with its metadata.
RowsNeverRewritten ==
    [][\A s \in Stores, m \in Memories :
          row[s][m] # NoRow => row'[s][m] = row[s][m]]_row

\* No row that exists is written again: the writer's row outlives its own echo.
THEOREM NoRowRewritten == Spec => RowsNeverRewritten
<1>1. RInv /\ [Next]_vars =>
        [\A s \in Stores, m \in Memories :
            row[s][m] # NoRow => row'[s][m] = row[s][m]]_row
    BY RowsKept DEF RInv
<1> QED
    BY <1>1, RInvCorrect, PTL DEF Spec, RowsNeverRewritten

-----------------------------------------------------------------------------
(* Vectors and rows. *)

\* A search hit can always be hydrated: a vector in Qdrant has its row in the
\* Postgres of the same pair (both paths write the row first).
VectorHasRow ==
    \A s \in Stores : \A m \in vector[s] : row[s][m] # NoRow

\* A vector that appears has its row.
LEMMA NewVector ==
    ASSUME RInv, [Next]_vars, NEW s \in Stores, NEW m \in vector'[s], m \notin vector[s]
    PROVE  m \in Memories /\ row[s][m] # NoRow
<1> DEFINE Goal == m \in Memories /\ row[s][m] # NoRow
<1>0. TypeOK
    BY DEF RInv, RCore
<1>1. ASSUME NEW n \in Nodes, NEW k \in Memories, StoreStep(n, k) PROVE Goal
    <2>1. IndexMemory(n, k)
        BY <1>1 DEF StoreStep, RejectStore, SaveMemory, LoseCommit, PublishStored, dataVars
    <2>2. vector' = [vector EXCEPT ![StoreOf[n]] = @ \cup {k}]
        BY <2>1 DEF IndexMemory
    <2>3. s = StoreOf[n] /\ m = k
        BY <1>0, <2>2 DEF TypeOK
    <2> QED
        BY <2>1, <2>3 DEF IndexMemory, RInv, RCore, Backed, Committed, HasRow
<1>2. ASSUME NEW n \in Nodes, LoopStep(n) PROVE Goal
    <2>1. IndexVector(n)
        BY <1>2 DEF LoopStep, Dequeue, SelectVersion, WriteRow, ApplyFails, dataVars
    <2>2. vector' = [vector EXCEPT ![StoreOf[n]] = @ \cup {loop[n].event.memory}]
        BY <2>1 DEF IndexVector, ApplyFails, dataVars
    <2>3. s = StoreOf[n] /\ m = loop[n].event.memory
        BY <1>0, <2>2 DEF TypeOK
    <2> QED
        BY <1>0, <2>1, <2>3, Busy DEF IndexVector, RInv, RCore, WrittenBeforeIndexed, HasRow
<1>3. ASSUME NEW n \in Nodes, HandleMemoryStored(n) \/ Die(n) \/ Restart(n)
      PROVE  vector' = vector
    BY <1>3 DEF HandleMemoryStored, Die, Restart, dataVars
<1>4. CASE UNCHANGED vars
    BY <1>4 DEF vars
<1> QED
    BY <1>1, <1>2, <1>3, <1>4 DEF Next, NodeStep, Crash

LEMMA VectorStep == RInv /\ VectorHasRow /\ [Next]_vars => VectorHasRow'
<1> SUFFICES ASSUME RInv, VectorHasRow, [Next]_vars, NEW s \in Stores, NEW m \in vector'[s]
             PROVE  row'[s][m] # NoRow
    BY DEF VectorHasRow
<1>1. m \in Memories /\ row[s][m] # NoRow
    BY NewVector DEF VectorHasRow, RInv, RCore, TypeOK
<1> QED
    BY <1>1, RowsKept DEF RInv

\* A search hit can be hydrated: no vector without its row, whatever failed.
THEOREM SearchHitsHaveRows == Spec => []VectorHasRow
<1>1. Init => VectorHasRow
    BY DEF Init, VectorHasRow
<1> QED
    BY <1>1, VectorStep, RInvCorrect, PTL DEF Spec

-----------------------------------------------------------------------------
(* The store of the node that took the call. *)

\* The event in the loop of n comes from a node with n's store.
FromOwnStore(n) == StoreOf[n] = StoreOf[request[loop[n].event.memory].at]

\* The loop has seen the row of every such event that it decides to store.
SeenBeforeWrite ==
    \A n \in Nodes : FromOwnStore(n) =>
        /\ loop[n].stage = "write" => loop[n].seen = InitialVersion
        /\ loop[n].stage # "index"

LEMMA SeenStep == RInv /\ SeenBeforeWrite /\ [Next]_vars => SeenBeforeWrite'
<1> SUFFICES ASSUME RInv, SeenBeforeWrite, [Next]_vars, NEW p \in Nodes, FromOwnStore(p)'
             PROVE  /\ loop'[p].stage = "write" => loop'[p].seen = InitialVersion
                    /\ loop'[p].stage # "index"
    BY DEF SeenBeforeWrite
<1> DEFINE Goal == /\ loop'[p].stage = "write" => loop'[p].seen = InitialVersion
                   /\ loop'[p].stage # "index"
<1>0. TypeOK
    BY DEF RInv, RCore
<1>1. CASE loop'[p] = loop[p]
    <2>1. CASE loop[p] = Idle
        BY <1>1, <2>1, DataFacts
    <2>2. CASE loop[p] # Idle
        <3>1. request'[loop[p].event.memory] = request[loop[p].event.memory]
            BY <1>0, <2>2, Busy, DoneKept DEF RInv, RCore, Genuine, Has
        <3>2. FromOwnStore(p)
            BY <1>1, <3>1 DEF FromOwnStore
        <3> QED
            BY <1>1, <3>2 DEF SeenBeforeWrite
    <2> QED
        BY <2>1, <2>2
<1>2. ASSUME NEW n \in Nodes, LoopStep(n) PROVE Goal
    <2>1. CASE p # n
        BY <1>0, <1>1, <1>2, <2>1
        DEF LoopStep, Dequeue, SelectVersion, WriteRow, IndexVector, ApplyFails, TypeOK
    <2>2. CASE p = n /\ loop'[p] = Idle
        BY <2>2, DataFacts
    <2>3. CASE p = n /\ Dequeue(n)
        <3>1. loop'[n] = Idle \/ loop'[n] = At("select", Head(queue[n]), NoVersion)
            BY <1>0, <2>3 DEF Dequeue, TypeOK
        <3>2. loop'[n].stage \in {"idle", "select"}
            BY <3>1, DataFacts DEF At
        <3> QED
            BY <2>3, <3>2
    <2>4. CASE p = n /\ SelectVersion(n) /\ loop'[p] # Idle
        <3> DEFINE e == loop[n].event
        <3>1. loop[n] \in LoopRecord /\ loop[n] # Idle /\ e \in Event
              /\ e.memory \in Memories /\ StoreOf[n] \in Stores
            BY <1>0, <2>4, Busy DEF SelectVersion
        <3>2. e = StoredEvent(e.memory) /\ request[e.memory].stage = "done"
            BY <3>1 DEF RInv, RCore, Genuine, Has
        <3>3. loop'[n].event = e /\ request' = request
            BY <1>0, <2>4, <3>1 DEF SelectVersion, ApplyFails, TypeOK, LoopRecord
        <3>4. row[StoreOf[n]][e.memory] # NoRow
            BY <2>4, <3>3, <3>1, <3>2 DEF RInv, RCore, Backed, Committed, HasRow, FromOwnStore
        <3>5. row[StoreOf[n]][e.memory].version = InitialVersion
            BY <3>1, <3>4 DEF RInv, RCore, StoredRows
        <3>6. loop' = [loop EXCEPT ![n] = [loop[n] EXCEPT !.stage = "write",
                            !.seen = row[StoreOf[n]][loop[n].event.memory].version]]
            BY <1>0, <2>4, <3>1 DEF SelectVersion, ApplyFails, TypeOK, LoopRecord
        <3>7. loop'[n].stage = "write" /\ loop'[n].seen = InitialVersion
            BY <1>0, <3>1, <3>5, <3>6 DEF TypeOK, LoopRecord
        <3> QED
            BY <2>4, <3>7
    <2>5. CASE p = n /\ WriteRow(n) /\ loop'[p] # Idle
        <3>1. loop[n] \in LoopRecord /\ loop[n].event \in Event
            BY <1>0, <2>5, Busy DEF WriteRow
        <3>2. loop'[n].event = loop[n].event /\ request' = request
            BY <1>0, <2>5, <3>1 DEF WriteRow, ApplyFails, TypeOK, LoopRecord
        <3>3. loop[n].seen = InitialVersion /\ loop[n].event.version = InitialVersion
            BY <2>5, <3>1, <3>2 DEF WriteRow, SeenBeforeWrite, FromOwnStore, Event
        <3>4. loop' = [loop EXCEPT ![n] = Idle]
            BY <2>5, <3>3 DEF WriteRow, ApplyFails, Newer
        <3> QED
            BY <1>0, <2>5, <3>4 DEF TypeOK
    <2>6. CASE p = n /\ IndexVector(n)
        BY <1>0, <2>6, DataFacts DEF IndexVector, ApplyFails, TypeOK
    <2> QED
        BY <1>2, <2>1, <2>2, <2>3, <2>4, <2>5, <2>6 DEF LoopStep
<1>3. ASSUME NEW n \in Nodes, HandleMemoryStored(n) \/ Restart(n) PROVE loop' = loop
    BY <1>3 DEF HandleMemoryStored, Restart
<1>4. ASSUME NEW n \in Nodes, Die(n) PROVE Goal
    <2>1. loop'[p] = loop[p] \/ loop'[p] = Idle
        BY <1>0, <1>4 DEF Die, TypeOK
    <2> QED
        BY <1>1, <2>1, DataFacts
<1>5. ASSUME NEW n \in Nodes, NEW m \in Memories, StoreStep(n, m) PROVE loop' = loop
    BY <1>5 DEF StoreStep, RejectStore, SaveMemory, LoseCommit, IndexMemory, PublishStored, nodeVars
<1>6. CASE UNCHANGED vars
    BY <1>1, <1>6 DEF vars
<1> QED
    BY <1>1, <1>2, <1>3, <1>4, <1>5, <1>6 DEF Next, NodeStep, Crash

\* Replication changes nothing in the store of the node that took the call: with
\* one store for all nodes it does nothing at all.
THEOREM WritersStoreIsNeverWritten == Spec => []WritersStoreIsLeftAlone
<1>1. Init => SeenBeforeWrite
    <2> SUFFICES ASSUME Init, NEW n \in Nodes PROVE loop[n].stage = "idle"
        BY DEF SeenBeforeWrite
    <2> QED
        BY DataFacts DEF Init
<1>2. SeenBeforeWrite => WritersStoreIsLeftAlone
    BY DEF SeenBeforeWrite, FromOwnStore, WritersStoreIsLeftAlone
<1> QED
    BY <1>1, <1>2, SeenStep, RInvCorrect, PTL DEF Spec

-----------------------------------------------------------------------------
(* Rows that search cannot see. *)

\* Why the row of m in store s may have no vector.
Explains(n, s, m) ==
    /\ StoreOf[n] = s
    /\ \/ m \in lost[n]
       \/ request[m] = [stage |-> "saved", at |-> n]
       \/ loop[n] # Idle /\ loop[n].stage = "index" /\ loop[n].event.memory = m

LEMMA GrowsOnly ==
    ASSUME NEW S, NEW T, NEW f \in [S -> T], NEW k, NEW x
    PROVE  \A p \in S : f[p] \subseteq [f EXCEPT ![k] = @ \cup {x}][p]
<1> SUFFICES ASSUME NEW p \in S PROVE f[p] \subseteq [f EXCEPT ![k] = @ \cup {x}][p]
    OBVIOUS
<1>1. [f EXCEPT ![k] = @ \cup {x}][p] = IF p = k THEN f[k] \cup {x} ELSE f[p]
    OBVIOUS
<1> QED
    BY <1>1

\* What a node gave up stays recorded, and vectors stay.
LEMMA LostAndVectorsKept ==
    ASSUME TypeOK, [Next]_vars
    PROVE  /\ \A n \in Nodes : lost[n] \subseteq lost'[n]
           /\ \A s \in Stores : vector[s] \subseteq vector'[s]
<1> DEFINE Goal == /\ \A n \in Nodes : lost[n] \subseteq lost'[n]
                   /\ \A s \in Stores : vector[s] \subseteq vector'[s]
<1>0. lost \in [Nodes -> SUBSET Memories] /\ vector \in [Stores -> SUBSET Memories]
    BY DEF TypeOK
<1>1. ASSUME NEW n \in Nodes, NEW m \in Memories, StoreStep(n, m) PROVE Goal
    <2>1. lost' = lost \/ lost' = [lost EXCEPT ![n] = @ \cup {m}]
        BY <1>1 DEF StoreStep, RejectStore, SaveMemory, LoseCommit, IndexMemory, PublishStored, GiveUp
    <2>2. vector' = vector \/ vector' = [vector EXCEPT ![StoreOf[n]] = @ \cup {m}]
        BY <1>1 DEF StoreStep, RejectStore, SaveMemory, LoseCommit, IndexMemory, PublishStored, dataVars
    <2> QED
        BY <1>0, <2>1, <2>2, GrowsOnly
<1>2. ASSUME NEW n \in Nodes, LoopStep(n) PROVE Goal
    <2> DEFINE m == loop[n].event.memory
    <2>1. lost' = lost \/ lost' = [lost EXCEPT ![n] = @ \cup {m}]
        BY <1>2
        DEF LoopStep, Dequeue, SelectVersion, WriteRow, IndexVector, ApplyFails, GiveUp
    <2>2. vector' = vector \/ vector' = [vector EXCEPT ![StoreOf[n]] = @ \cup {m}]
        BY <1>2 DEF LoopStep, Dequeue, SelectVersion, WriteRow, IndexVector, ApplyFails, dataVars
    <2> HIDE DEF m
    <2> QED
        BY <1>0, <2>1, <2>2, GrowsOnly
<1>3. ASSUME NEW n \in Nodes, HandleMemoryStored(n) PROVE Goal
    <2> DEFINE m == Head(inbox[n]).memory
    <2>1. lost' = lost \/ lost' = [lost EXCEPT ![n] = @ \cup {m}]
        BY <1>3 DEF HandleMemoryStored, GiveUp
    <2>2. vector' = vector
        BY <1>3 DEF HandleMemoryStored, dataVars
    <2> HIDE DEF m
    <2> QED
        BY <1>0, <2>1, <2>2, GrowsOnly
<1>4. ASSUME NEW n \in Nodes, Die(n) PROVE Goal
    <2>1. \A p \in Nodes : lost[p] \subseteq lost'[p]
        <3> SUFFICES ASSUME NEW p \in Nodes PROVE lost[p] \subseteq lost'[p]
            OBVIOUS
        <3>1. lost'[p] = IF p = n THEN lost[p] \cup {m \in Memories : InHand(n, m)} ELSE lost[p]
            BY <1>0, <1>4 DEF Die
        <3> QED
            BY <3>1
    <2> QED
        BY <1>4, <2>1 DEF Die, dataVars
<1>5. CASE UNCHANGED <<lost, vector>>
    BY <1>5
<1>6. ASSUME NEW n \in Nodes, Restart(n) PROVE UNCHANGED <<lost, vector>>
    BY <1>6 DEF Restart, dataVars
<1> QED
    BY <1>1, <1>2, <1>3, <1>4, <1>5, <1>6 DEF Next, NodeStep, Crash, vars

\* A row that appears is explained by the node that wrote it.
LEMMA NewRowExplained ==
    ASSUME TypeOK, [Next]_vars, NEW s \in Stores, NEW m \in Memories,
           row[s][m] = NoRow, row'[s][m] # NoRow
    PROVE  \E n \in Nodes : Explains(n, s, m)'
<1>1. ASSUME NEW n \in Nodes, NEW k \in Memories, StoreStep(n, k) PROVE Explains(n, s, m)'
    <2>1. SaveMemory(n, k) \/ LoseCommit(n, k)
        BY <1>1 DEF StoreStep, RejectStore, IndexMemory, PublishStored, dataVars
    <2>2. k = m /\ s = StoreOf[n]
        BY <2>1 DEF SaveMemory, LoseCommit, TypeOK
    <2>3. request'[m] = [stage |-> "saved", at |-> n] \/ m \in lost'[n]
        BY <2>1, <2>2 DEF SaveMemory, LoseCommit, GiveUp, TypeOK
    <2> QED
        BY <2>2, <2>3 DEF Explains
<1>2. ASSUME NEW n \in Nodes, LoopStep(n) PROVE Explains(n, s, m)'
    <2>1. WriteRow(n)
        BY <1>2 DEF LoopStep, Dequeue, SelectVersion, IndexVector, ApplyFails, dataVars
    <2>2. loop[n] \in LoopRecord /\ loop[n].event.memory \in Memories
        BY <2>1, Busy DEF WriteRow
    <2>3. /\ row' = [row EXCEPT ![StoreOf[n]][loop[n].event.memory] = ReplicaRow(loop[n].event)]
          /\ loop' = [loop EXCEPT ![n].stage = "index"] \/ GiveUp(n, loop[n].event.memory)
        BY <2>1 DEF WriteRow, ApplyFails, dataVars
    <2>4. m = loop[n].event.memory /\ s = StoreOf[n]
        BY <2>3 DEF TypeOK
    <2>5. CASE loop' = [loop EXCEPT ![n].stage = "index"]
        <3>1. loop'[n].stage = "index" /\ loop'[n].event = loop[n].event
            BY <2>2, <2>5 DEF TypeOK, LoopRecord
        <3> QED
            BY <2>4, <3>1, DataFacts DEF Explains
    <2>6. CASE GiveUp(n, loop[n].event.memory)
        BY <2>4, <2>6 DEF GiveUp, TypeOK, Explains
    <2> QED
        BY <2>3, <2>5, <2>6
<1>3. ASSUME NEW n \in Nodes, HandleMemoryStored(n) \/ Die(n) \/ Restart(n) PROVE row' = row
    BY <1>3 DEF HandleMemoryStored, Die, Restart, dataVars
<1>4. CASE UNCHANGED vars
    BY <1>4 DEF vars
<1> QED
    BY <1>1, <1>2, <1>3, <1>4 DEF Next, NodeStep, Crash

\* An explanation lasts until the vector is there.
LEMMA StillExplained ==
    ASSUME TypeOK, [Next]_vars, NEW s \in Stores, NEW m \in Memories, NEW n \in Nodes,
           Explains(n, s, m), m \notin vector'[s]
    PROVE  Explains(n, s, m)'
<1> SUFFICES ASSUME m \notin lost'[n]
             PROVE  \/ request'[m] = [stage |-> "saved", at |-> n]
                    \/ loop'[n] # Idle /\ loop'[n].stage = "index" /\ loop'[n].event.memory = m
    BY DEF Explains
<1> DEFINE Saved  == request[m] = [stage |-> "saved", at |-> n]
           Index  == loop[n] # Idle /\ loop[n].stage = "index" /\ loop[n].event.memory = m
           Goal   == \/ request'[m] = [stage |-> "saved", at |-> n]
                     \/ loop'[n] # Idle /\ loop'[n].stage = "index" /\ loop'[n].event.memory = m
<1>0. Saved \/ Index
    BY LostAndVectorsKept DEF Explains
<1>1. CASE Index /\ loop'[n] = loop[n]
    BY <1>1
<1>2. CASE Saved /\ request'[m] = request[m]
    BY <1>2
<1>3. ASSUME NEW p \in Nodes, NEW k \in Memories, StoreStep(p, k) PROVE Goal
    <2>1. loop' = loop
        BY <1>3 DEF StoreStep, RejectStore, SaveMemory, LoseCommit, IndexMemory, PublishStored, nodeVars
    <2>2. CASE k # m
        <3>1. request'[m] = request[m]
            BY <1>3, <2>2 DEF StoreStep, RejectStore, SaveMemory, LoseCommit, IndexMemory, PublishStored, TypeOK
        <3> QED
            BY <1>0, <1>1, <1>2, <2>1, <3>1
    <2>3. CASE k = m /\ Saved
        <3>1. IndexMemory(p, m) /\ p = n
            BY <1>3, <2>3 DEF StoreStep, RejectStore, SaveMemory, LoseCommit, IndexMemory, PublishStored
        <3>2. CASE GiveUp(n, m)
            BY <3>2 DEF GiveUp, TypeOK
        <3>3. CASE vector' = [vector EXCEPT ![StoreOf[n]] = @ \cup {m}]
            BY <3>3, ReplicationAssumption DEF TypeOK, Explains
        <3> QED
            BY <3>1, <3>2, <3>3 DEF IndexMemory
    <2> QED
        BY <1>0, <1>1, <2>1, <2>2, <2>3
<1>4. ASSUME NEW p \in Nodes, LoopStep(p) PROVE Goal
    <2>1. request' = request
        BY <1>4 DEF LoopStep, Dequeue, SelectVersion, WriteRow, IndexVector
    <2>2. CASE p # n
        <3>1. loop'[n] = loop[n]
            BY <1>4, <2>2
            DEF LoopStep, Dequeue, SelectVersion, WriteRow, IndexVector, ApplyFails, TypeOK
        <3> QED
            BY <1>0, <1>1, <1>2, <2>1, <3>1
    <2>3. CASE p = n /\ Index
        <3>1. IndexVector(n)
            BY <1>4, <2>3 DEF LoopStep, Dequeue, SelectVersion, WriteRow
        <3>2. ~ ApplyFails(n)
            BY <2>3 DEF ApplyFails, GiveUp, TypeOK
        <3>3. vector' = [vector EXCEPT ![StoreOf[n]] = @ \cup {m}]
            BY <2>3, <3>1, <3>2 DEF IndexVector
        <3> QED
            BY <3>3, ReplicationAssumption DEF TypeOK, Explains
    <2> QED
        BY <1>0, <1>2, <2>1, <2>2, <2>3
<1>5. ASSUME NEW p \in Nodes, HandleMemoryStored(p) \/ Restart(p)
      PROVE  request' = request /\ loop' = loop
    BY <1>5 DEF HandleMemoryStored, Restart
<1>6. ASSUME NEW p \in Nodes, Die(p) PROVE Goal
    <2>1. CASE p = n
        <3>1. InHand(n, m)
            BY <1>0 DEF InHand, EventAt
        <3> QED
            BY <1>6, <2>1, <3>1 DEF Die, TypeOK
    <2>2. CASE p # n
        <3>1. loop'[n] = loop[n]
            BY <1>6, <2>2 DEF Die, TypeOK
        <3>2. Saved => request'[m] = request[m]
            BY <1>6, <2>2 DEF Die
        <3> QED
            BY <1>0, <1>1, <1>2, <3>1, <3>2
    <2> QED
        BY <2>1, <2>2
<1>7. CASE UNCHANGED vars
    BY <1>0, <1>1, <1>2, <1>7 DEF vars
<1> QED
    BY <1>0, <1>1, <1>2, <1>3, <1>4, <1>5, <1>6, <1>7 DEF Next, NodeStep, Crash

LEMMA UnindexedStep ==
    TypeOK /\ UnindexedRowExplained /\ [Next]_vars => UnindexedRowExplained'
<1> SUFFICES ASSUME TypeOK, UnindexedRowExplained, [Next]_vars,
                    NEW s \in Stores, NEW m \in Memories,
                    row'[s][m] # NoRow, m \notin vector'[s]
             PROVE  \E n \in Nodes : Explains(n, s, m)'
    BY DEF UnindexedRowExplained, Explains
<1>1. CASE row[s][m] = NoRow
    BY <1>1, NewRowExplained
<1>2. CASE row[s][m] # NoRow
    <2>1. PICK n \in Nodes : Explains(n, s, m)
        BY <1>2, LostAndVectorsKept DEF UnindexedRowExplained, Explains
    <2> QED
        BY <2>1, StillExplained
<1> QED
    BY <1>1, <1>2

\* A row that search cannot see is always some node's: one that is between the
\* two writes, or one that logged the failure (or ended) and will not retry.
THEOREM UnindexedRowsAreExplained == Spec => []UnindexedRowExplained
<1>1. Init => UnindexedRowExplained
    BY DEF Init, UnindexedRowExplained
<1> QED
    BY <1>1, UnindexedStep, TypeCorrect, PTL DEF Spec
-----------------------------------------------------------------------------
(***************************************************************************)
(* Replication implements Copies.  Beyond RInv the argument needs that the *)
(* row of a committed Store call is the one it wrote (OriginalKept), and   *)
(* what a step can do to the two stores: nothing, a client's row of a new  *)
(* memory, a replica of an original, or a vector of a row that is there.   *)
(***************************************************************************)

OriginalKept ==
    \A m \in Memories : request[m].stage \in Committed =>
        request[m].at \in Nodes /\ row[StoreOf[request[m].at]][m] = SavedRow

\* What the three kinds of row are to a client; nothing else looks like them.
LEMMA KindsOfRows ==
    ASSUME NEW m \in Memories
    PROVE  /\ CopyOf(NoRow, m) = "none" /\ CopyOf(SavedRow, m) = "original"
           /\ CopyOf(ReplicaRow(StoredEvent(m)), m) = "replica"
           /\ \A r : CopyOf(r, m) = "none" => r = NoRow
           /\ \A r : r # NoRow => CopyOf(r, m) # "none"
<1> DEFINE replica == ReplicaRow(StoredEvent(m))
<1>1. NoRow.metadata = "none" /\ SavedRow.metadata = "writer" /\ replica.metadata = "null"
    BY DEF NoRow, SavedRow, ReplicaRow
<1>2. NoRow # SavedRow /\ NoRow # replica /\ SavedRow # replica
    BY <1>1
<1> HIDE DEF replica
<1>3. \A r : CopyOf(r, m) =
          CASE r = NoRow -> "none" [] r = SavedRow -> "original"
            [] r = replica -> "replica" [] OTHER -> "damaged"
    BY DEF CopyOf, replica
<1>4. CopyOf(NoRow, m) = "none" /\ CopyOf(SavedRow, m) = "original"
      /\ CopyOf(replica, m) = "replica"
    BY <1>2, <1>3
<1>5. ASSUME NEW r, r # NoRow PROVE CopyOf(r, m) # "none"
    <2>1. CASE r = SavedRow \/ r = replica
        BY <1>4, <2>1
    <2>2. CASE r # SavedRow /\ r # replica
        BY <1>3, <1>5, <2>2
    <2> QED
        BY <2>1, <2>2
<1> QED
    BY <1>4, <1>5 DEF replica

LEMMA OriginalStep == RInv /\ OriginalKept /\ [Next]_vars => OriginalKept'
<1> SUFFICES ASSUME RInv, OriginalKept, [Next]_vars, NEW m \in Memories,
                    request'[m].stage \in Committed
             PROVE  request'[m].at \in Nodes /\ row'[StoreOf[request'[m].at]][m] = SavedRow
    BY DEF OriginalKept
<1>0. TypeOK
    BY DEF RInv, RCore
<1>1. CASE request[m].stage \in Committed /\ request'[m].at = request[m].at
    <2>1. request[m].at \in Nodes /\ StoreOf[request[m].at] \in Stores
          /\ row[StoreOf[request[m].at]][m] = SavedRow
        BY <1>1, ReplicationAssumption DEF OriginalKept
    <2> QED
        BY <1>1, <2>1, RowsKept, DataFacts DEF RInv
<1>2. ASSUME NEW n \in Nodes, NEW k \in Memories, StoreStep(n, k),
             ~ (request[m].stage \in Committed /\ request'[m].at = request[m].at)
      PROVE  request'[m].at \in Nodes /\ row'[StoreOf[request'[m].at]][m] = SavedRow
    <2>1. k = m
        BY <1>0, <1>2 DEF StoreStep, RejectStore, SaveMemory, LoseCommit, IndexMemory,
                          PublishStored, TypeOK
    <2>2. ~ RejectStore(n, m) /\ ~ LoseCommit(n, m)
        BY <1>0 DEF RejectStore, LoseCommit, TypeOK, Committed
    <2>3. ~ IndexMemory(n, m) /\ ~ PublishStored(n, m)
        BY <1>0, <1>2 DEF IndexMemory, PublishStored, TypeOK, Committed
    <2>4. SaveMemory(n, m)
        BY <1>2, <2>1, <2>2, <2>3 DEF StoreStep
    <2> QED
        BY <1>0, <2>4, ReplicationAssumption DEF SaveMemory, TypeOK
<1>3. ASSUME NEW n \in Nodes, LoopStep(n) \/ HandleMemoryStored(n) \/ Restart(n)
      PROVE  request' = request
    BY <1>3 DEF LoopStep, Dequeue, SelectVersion, WriteRow, IndexVector,
                HandleMemoryStored, Restart
<1>4. ASSUME NEW n \in Nodes, Die(n)
      PROVE  request[m].stage \in Committed /\ request'[m].at = request[m].at
    BY <1>4 DEF Die, Committed
<1>5. CASE UNCHANGED vars
    BY <1>1, <1>5 DEF vars
<1> QED
    BY <1>1, <1>2, <1>3, <1>4, <1>5 DEF Next, NodeStep, Crash

\* What one step does to the two stores.
SavesOriginal(s, m) ==
    /\ \A t \in Stores : row[t][m] = NoRow
    /\ row' = [row EXCEPT ![s][m] = SavedRow] /\ vector' = vector

WritesReplica(s, m) ==
    /\ row[s][m] = NoRow /\ \E t \in Stores : row[t][m] = SavedRow
    /\ row' = [row EXCEPT ![s][m] = ReplicaRow(StoredEvent(m))] /\ vector' = vector

AddsVector(s, m) ==
    /\ row[s][m] # NoRow
    /\ vector' = [vector EXCEPT ![s] = @ \cup {m}] /\ row' = row

DataStep ==
    \/ UNCHANGED dataVars
    \/ \E s \in Stores, m \in Memories :
          SavesOriginal(s, m) \/ WritesReplica(s, m) \/ AddsVector(s, m)

\* A Store call writes the first row of its memory, or the vector of that row.
LEMMA StoreTouches ==
    ASSUME RInv, NEW n \in Nodes, NEW m \in Memories, StoreStep(n, m)
    PROVE  DataStep
<1>0. StoreOf[n] \in Stores
    BY ReplicationAssumption
<1>1. CASE RejectStore(n, m) \/ PublishStored(n, m)
    BY <1>1 DEF RejectStore, PublishStored, dataVars, DataStep
<1>2. CASE SaveMemory(n, m) \/ LoseCommit(n, m)
    <2>1. request[m].stage = "new" /\ vector' = vector
          /\ row' = [row EXCEPT ![StoreOf[n]][m] = SavedRow]
        BY <1>2 DEF SaveMemory, LoseCommit
    <2>2. \A t \in Stores : row[t][m] = NoRow
        BY <2>1 DEF RInv, RCore, NewIsUnsaved
    <2>3. SavesOriginal(StoreOf[n], m)
        BY <2>1, <2>2 DEF SavesOriginal
    <2> QED
        BY <1>0, <2>3 DEF DataStep
<1>3. CASE IndexMemory(n, m)
    <2>1. CASE vector' = vector
        BY <1>3, <2>1 DEF IndexMemory, DataStep, dataVars
    <2>2. CASE vector' # vector
        <3>1. vector' = [vector EXCEPT ![StoreOf[n]] = @ \cup {m}] /\ row' = row
            BY <1>3, <2>2 DEF IndexMemory
        <3>2. HasRow(n, m)
            BY <1>3 DEF IndexMemory, RInv, RCore, Backed, Committed
        <3>3. AddsVector(StoreOf[n], m)
            BY <3>1, <3>2 DEF AddsVector, HasRow
        <3> QED
            BY <1>0, <3>3 DEF DataStep
    <2> QED
        BY <2>1, <2>2
<1> QED
    BY <1>1, <1>2, <1>3 DEF StoreStep

\* The loop writes a replica of an original where there is no row, or the vector
\* of a row that is there.
LEMMA LoopTouches ==
    ASSUME RInv, OriginalKept, NEW n \in Nodes, LoopStep(n)
    PROVE  DataStep
<1> DEFINE e == loop[n].event
<1>0. TypeOK
    BY DEF RInv, RCore
<1>1. CASE UNCHANGED dataVars
    BY <1>1 DEF DataStep
<1>2. CASE WriteRow(n) /\ row' # row
    <2>0. loop[n] \in LoopRecord /\ loop[n] # Idle /\ e \in Event /\ e.memory \in Memories
          /\ StoreOf[n] \in Stores
        BY <1>0, <1>2, Busy DEF WriteRow
    <2>1. loop[n].seen \in {NoVersion, InitialVersion} /\ e.version = InitialVersion
        BY <2>0 DEF LoopRecord, Event
    <2>2. row' = [row EXCEPT ![StoreOf[n]][e.memory] = ReplicaRow(e)] /\ vector' = vector
          /\ ~ HasRow(n, e.memory)
        BY <1>2, <2>1 DEF WriteRow, ApplyFails, dataVars, Newer
    <2>3. e = StoredEvent(e.memory) /\ request[e.memory].stage = "done"
        BY <2>0 DEF RInv, RCore, Genuine, Has
    <2>4. \E t \in Stores : row[t][e.memory] = SavedRow
        BY <2>0, <2>3, ReplicationAssumption DEF OriginalKept, Committed
    <2>5. WritesReplica(StoreOf[n], e.memory)
        BY <2>2, <2>3, <2>4 DEF WritesReplica, HasRow
    <2> QED
        BY <2>0, <2>5 DEF DataStep
<1>3. CASE IndexVector(n) /\ vector' # vector
    <2>0. e.memory \in Memories /\ StoreOf[n] \in Stores
        BY <1>0, <1>3, Busy DEF IndexVector
    <2>1. vector' = [vector EXCEPT ![StoreOf[n]] = @ \cup {e.memory}] /\ row' = row
        BY <1>3 DEF IndexVector, ApplyFails, dataVars
    <2>2. HasRow(n, e.memory)
        BY <1>3 DEF IndexVector, RInv, RCore, WrittenBeforeIndexed
    <2>3. AddsVector(StoreOf[n], e.memory)
        BY <2>1, <2>2 DEF AddsVector, HasRow
    <2> QED
        BY <2>0, <2>3 DEF DataStep
<1>4. CASE WriteRow(n) /\ row' = row
    BY <1>1, <1>4 DEF WriteRow, ApplyFails, dataVars
<1>5. CASE IndexVector(n) /\ vector' = vector
    BY <1>1, <1>5 DEF IndexVector, ApplyFails, dataVars
<1>6. CASE Dequeue(n) \/ SelectVersion(n)
    BY <1>1, <1>6 DEF Dequeue, SelectVersion, ApplyFails, dataVars
<1> QED
    BY <1>2, <1>3, <1>4, <1>5, <1>6 DEF LoopStep

LEMMA StepTouches == RInv /\ OriginalKept /\ [Next]_vars => DataStep
<1> SUFFICES ASSUME RInv, OriginalKept, [Next]_vars PROVE DataStep
    OBVIOUS
<1>1. ASSUME NEW n \in Nodes, HandleMemoryStored(n) \/ Die(n) \/ Restart(n)
      PROVE  UNCHANGED dataVars
    BY <1>1 DEF HandleMemoryStored, Die, Restart, dataVars
<1>2. CASE UNCHANGED vars
    BY <1>2 DEF vars, dataVars, DataStep
<1> QED
    BY <1>1, <1>2, StoreTouches, LoopTouches DEF Next, NodeStep, Crash, DataStep

\* The rows of one store and memory, as clients see them.
CopyMap == [s \in Stores |-> [m \in Memories |-> CopyOf(row[s][m], m)]]

LEMMA CopyMapChanges ==
    ASSUME TypeOK, NEW s \in Stores, NEW m \in Memories, NEW r,
           row' = [row EXCEPT ![s][m] = r]
    PROVE  CopyMap' = [CopyMap EXCEPT ![s][m] = CopyOf(r, m)]
<1>1. \A t \in Stores, k \in Memories :
          row'[t][k] = IF t = s /\ k = m THEN r ELSE row[t][k]
    BY DEF TypeOK
<1>2. CopyMap' = [t \in Stores |-> [k \in Memories |-> CopyOf(row'[t][k], k)]]
    BY DEF CopyMap, CopyOf
<1>3. \A t \in Stores, k \in Memories :
          CopyOf(row'[t][k], k) = IF t = s /\ k = m THEN CopyOf(r, m) ELSE CopyOf(row[t][k], k)
    BY <1>1
<1>4. CopyMap' = [t \in Stores |-> [k \in Memories |->
          IF t = s /\ k = m THEN CopyOf(r, m) ELSE CopyMap[t][k]]]
    BY <1>2, <1>3 DEF CopyMap
<1> QED
    BY <1>4 DEF CopyMap

LEMMA DataStepMaps ==
    ASSUME TypeOK, DataStep
    PROVE  [Kept!CopiesNext]_<<CopyMap, vector>>
<1> DEFINE Goal == [Kept!CopiesNext]_<<CopyMap, vector>>
<1>0. \A s \in Stores, m \in Memories : CopyMap[s][m] = CopyOf(row[s][m], m)
    BY DEF CopyMap
<1>1. CASE UNCHANGED dataVars
    BY <1>1 DEF dataVars, CopyMap
<1>2. ASSUME NEW s \in Stores, NEW m \in Memories, SavesOriginal(s, m) PROVE Goal
    <2>0. CopyMap' = [CopyMap EXCEPT ![s][m] = CopyOf(SavedRow, m)]
        BY <1>2, CopyMapChanges DEF SavesOriginal
    <2>1. CopyMap' = [CopyMap EXCEPT ![s][m] = "original"] /\ vector' = vector
        BY <1>2, <2>0, KindsOfRows DEF SavesOriginal
    <2>2. \A t \in Stores : CopyMap[t][m] = "none"
        BY <1>0, <1>2, KindsOfRows DEF SavesOriginal
    <2>3. Kept!Accept(s, m)
        BY <2>1, <2>2 DEF Kept!Accept, CopyMap
    <2> QED
        BY <2>3 DEF Kept!CopiesNext
<1>3. ASSUME NEW s \in Stores, NEW m \in Memories, WritesReplica(s, m) PROVE Goal
    <2>0. CopyMap' = [CopyMap EXCEPT ![s][m] = CopyOf(ReplicaRow(StoredEvent(m)), m)]
        BY <1>3, CopyMapChanges DEF WritesReplica
    <2>1. CopyMap' = [CopyMap EXCEPT ![s][m] = "replica"] /\ vector' = vector
        BY <1>3, <2>0, KindsOfRows DEF WritesReplica
    <2>2. CopyMap[s][m] = "none" /\ \E t \in Stores : CopyMap[t][m] = "original"
        BY <1>0, <1>3, KindsOfRows DEF WritesReplica
    <2>3. Kept!Replicate(s, m)
        BY <2>1, <2>2 DEF Kept!Replicate, CopyMap
    <2> QED
        BY <2>3 DEF Kept!CopiesNext
<1>4. ASSUME NEW s \in Stores, NEW m \in Memories, AddsVector(s, m) PROVE Goal
    <2>1. CopyMap' = CopyMap
        BY <1>4 DEF AddsVector, CopyMap
    <2>2. CopyMap[s][m] # "none"
        BY <1>0, <1>4, KindsOfRows DEF AddsVector
    <2>3. Kept!MakeSearchable(s, m)
        BY <1>4, <2>1, <2>2 DEF AddsVector, Kept!MakeSearchable, CopyMap
    <2> QED
        BY <2>3 DEF Kept!CopiesNext
<1> QED
    BY <1>1, <1>2, <1>3, <1>4 DEF DataStep

\* Store, replication and search keep the promise of Copies on any nodes and
\* stores: one whole original, replicas only of it, and nothing changed or
\* withdrawn.
THEOREM ReplicationKeepsCopies == Spec => CopiesAreKept
<1>1. Init => Kept!CopiesInit /\ OriginalKept
    BY KindsOfRows DEF Init, Kept!CopiesInit, OriginalKept, Committed
<1>2. RInv /\ OriginalKept /\ [Next]_vars => [Kept!CopiesNext]_<<CopyMap, vector>>
    BY StepTouches, DataStepMaps DEF RInv, RCore
<1>3. RInv /\ OriginalKept /\ [Next]_vars =>
          [Kept!CopiesNext]_<<[s \in Stores |-> [m \in Memories |-> CopyOf(row[s][m], m)]], vector>>
    BY <1>2 DEF CopyMap
<1> QED
    BY <1>1, <1>3, OriginalStep, RInvCorrect, PTL DEF Spec, CopiesAreKept, Kept!CopiesSpec

-----------------------------------------------------------------------------
(***************************************************************************)
(* No event vanishes.  A node that has to store an event decides so,       *)
(* whatever list it obtains (WantedApplies), and a loop that reads a       *)
(* version has found a row (SeenIsThere), so an event it takes for stale   *)
(* is one whose row is there.                                              *)
(***************************************************************************)

\* A window that starts after the head of the list and wraps around contains the
\* head, which is not its first element.
LEMMA WindowReachesHead ==
    ASSUME NEW len \in Nat \ {0}, NEW hash \in Nat,
           hash % len # 0, (hash % len) + ReplicationFactor > len
    PROVE  LET count == IF ReplicationFactor < len THEN ReplicationFactor ELSE len
           IN  /\ count \in 1 .. len
               /\ \E i \in 1 .. count : ReplicaIndex(hash, len, i - 1) = 0
               /\ ReplicaIndex(hash, len, 0) \in 1 .. (len - 1)
<1> DEFINE start == hash % len
           count == IF ReplicationFactor < len THEN ReplicationFactor ELSE len
<1>1. start \in 0 .. (len - 1)
    BY SMT
<1>2. \A a \in 0 .. (len - 1) : a % len = a
    BY SMT
<1>3. len % len = 0
    BY SMT
<1>4. \A i : ReplicaIndex(hash, len, i) = (start + i) % len
    BY DEF ReplicaIndex
<1>5. start # 0 /\ start + ReplicationFactor > len
    OBVIOUS
<1> HIDE DEF start
<1>6. count \in 1 .. len /\ len - start + 1 \in 1 .. count
    BY <1>1, <1>5, ReplicationFactorAssumption
<1>7. start + ((len - start + 1) - 1) = len /\ start + 0 = start
    BY <1>1
<1>8. ReplicaIndex(hash, len, (len - start + 1) - 1) = 0
    BY <1>3, <1>4, <1>7
<1>9. ReplicaIndex(hash, len, 0) \in 1 .. (len - 1)
    BY <1>1, <1>2, <1>4, <1>5, <1>7
<1> QED
    BY <1>6, <1>8, <1>9

\* A node that has to store the event of m applies it, whatever list it obtains.
LEMMA WantedApplies ==
    ASSUME NEW n \in Nodes, NEW m \in Memories, Wanted(n, m),
           NEW peers \in PeerSets, NEW v \in Views(n, peers \cup {n})
    PROVE  AppliesEvent(n, Hash[m], v)
<1> DEFINE S   == peers \cup {n}
           len == Cardinality(S)
           hash == Hash[m]
<1>1. S \subseteq Nodes /\ IsFiniteSet(S)
    BY ReplicationAssumption, FS_Subset
<1>2. len \in Nat /\ len # 0
    BY <1>1, FS_CardinalityType, FS_EmptySet
<1>3. hash \in Nat /\ hash % len # 0 /\ (hash % len) + ReplicationFactor > len
    BY ReplicationAssumption DEF Wanted
<1>4. /\ v \in [1 .. len -> S] /\ v[1] = n
      /\ \A i, j \in 1 .. len : v[i] = v[j] => i = j
    BY DEF Views
<1> HIDE DEF len, hash, S
<1>5. Len(v) = len
    BY <1>2, <1>4
<1>6. /\ ReplicaCount(v) \in 1 .. len
      /\ \E i \in 1 .. ReplicaCount(v) : ReplicaIndex(hash, len, i - 1) = 0
      /\ ReplicaIndex(hash, len, 0) \in 1 .. (len - 1)
    BY <1>2, <1>3, <1>5, WindowReachesHead DEF ReplicaCount
<1>7. \A i \in 1 .. ReplicaCount(v) :
          GetReplicaNodes(hash, v)[i] = v[ReplicaIndex(hash, len, i - 1) + 1]
    BY <1>5 DEF GetReplicaNodes
<1>8. IsShardOwner(n, hash, v)
    <2>1. PICK i \in 1 .. ReplicaCount(v) : ReplicaIndex(hash, len, i - 1) = 0
        BY <1>6
    <2>2. GetReplicaNodes(hash, v)[i] = v[1]
        BY <1>7, <2>1
    <2> QED
        BY <1>4, <2>2 DEF IsShardOwner
<1>9. ~ IsPrimaryOwner(n, hash, v)
    <2>1. 1 \in 1 .. ReplicaCount(v) /\ 1 - 1 = 0
        BY <1>2, <1>6
    <2> DEFINE k == ReplicaIndex(hash, len, 0)
    <2>2. GetReplicaNodes(hash, v)[1] = v[k + 1]
        BY <1>7, <2>1
    <2>3. k \in 1 .. (len - 1)
        BY <1>6
    <2> HIDE DEF k
    <2>4. k + 1 \in 1 .. len /\ k + 1 # 1 /\ 1 \in 1 .. len
        BY <1>2, <2>3
    <2>5. v[k + 1] # n
        BY <1>4, <2>4
    <2> QED
        BY <2>2, <2>5 DEF IsPrimaryOwner
<1> QED
    BY <1>8, <1>9 DEF AppliesEvent, hash

\* The version a loop has read is that of a row.
SeenIsThere ==
    \A n \in Nodes : loop[n].stage = "write" /\ loop[n].seen # NoVersion =>
        HasRow(n, loop[n].event.memory)

LEMMA SeenIsThereStep == RInv /\ SeenIsThere /\ [Next]_vars => SeenIsThere'
<1> SUFFICES ASSUME RInv, SeenIsThere, [Next]_vars, NEW p \in Nodes,
                    loop'[p].stage = "write", loop'[p].seen # NoVersion
             PROVE  row'[StoreOf[p]][loop'[p].event.memory] # NoRow
    BY DEF SeenIsThere, HasRow
<1>0. TypeOK
    BY DEF RInv, RCore
<1>1. CASE loop'[p] = loop[p]
    <2>1. HasRow(p, loop[p].event.memory)
        BY <1>1 DEF SeenIsThere
    <2>2. loop[p].event.memory \in Memories /\ StoreOf[p] \in Stores
        BY <1>0, <1>1, Busy
    <2> QED
        BY <1>1, <2>1, <2>2, RowsKept DEF RInv, HasRow
<1>2. ASSUME NEW n \in Nodes, LoopStep(n)
      PROVE  loop'[p] = loop[p] \/ row'[StoreOf[p]][loop'[p].event.memory] # NoRow
    <2>1. CASE p # n
        BY <1>0, <1>2, <2>1
        DEF LoopStep, Dequeue, SelectVersion, WriteRow, IndexVector, ApplyFails, TypeOK
    <2>2. CASE p = n /\ SelectVersion(n)
        <3>0. loop[n] \in LoopRecord /\ loop[n].event.memory \in Memories /\ StoreOf[n] \in Stores
            BY <1>0, <2>2, Busy DEF SelectVersion
        <3>1. loop' # [loop EXCEPT ![n] = Idle]
            BY <1>0, <2>2, DataFacts DEF TypeOK
        <3>2. /\ loop' = [loop EXCEPT ![n].stage = "write",
                              ![n].seen = row[StoreOf[n]][loop[n].event.memory].version]
              /\ row' = row
            BY <2>2, <3>1 DEF SelectVersion, ApplyFails, dataVars
        <3>3. /\ loop'[n].event = loop[n].event
              /\ loop'[n].seen = row[StoreOf[n]][loop[n].event.memory].version
            BY <1>0, <3>0, <3>2 DEF TypeOK, LoopRecord
        <3> QED
            BY <2>2, <3>2, <3>3 DEF NoRow
    <2>3. ~ (p = n /\ Dequeue(n))
        <3> SUFFICES ASSUME p = n, Dequeue(n) PROVE FALSE
            OBVIOUS
        <3>1. loop'[n] = Idle \/ loop'[n] = At("select", Head(queue[n]), NoVersion)
            BY <1>0 DEF Dequeue, TypeOK
        <3>2. loop'[n].stage \in {"idle", "select"}
            BY <3>1, DataFacts DEF At
        <3> QED
            BY <3>2
    <2>4. ~ (p = n /\ IndexVector(n))
        BY <1>0, DataFacts DEF IndexVector, ApplyFails, TypeOK
    <2>5. ~ (p = n /\ WriteRow(n))
        <3> SUFFICES ASSUME p = n, WriteRow(n) PROVE FALSE
            OBVIOUS
        <3>1. loop[n] \in LoopRecord
            BY <1>0, Busy DEF WriteRow
        <3>2. loop'[n] = Idle \/ loop'[n].stage = "index"
            BY <1>0, <3>1 DEF WriteRow, ApplyFails, TypeOK, LoopRecord
        <3> QED
            BY <3>2, DataFacts
    <2> QED
        BY <1>2, <2>1, <2>2, <2>3, <2>4, <2>5 DEF LoopStep
<1>3. ASSUME NEW n \in Nodes, HandleMemoryStored(n) \/ Restart(n) PROVE loop' = loop
    BY <1>3 DEF HandleMemoryStored, Restart
<1>4. ASSUME NEW n \in Nodes, Die(n) PROVE loop'[p] = loop[p]
    BY <1>0, <1>4, DataFacts DEF Die, TypeOK
<1>5. ASSUME NEW n \in Nodes, NEW m \in Memories, StoreStep(n, m) PROVE loop' = loop
    BY <1>5 DEF StoreStep, RejectStore, SaveMemory, LoseCommit, IndexMemory, PublishStored, nodeVars
<1>6. CASE UNCHANGED vars
    BY <1>1, <1>6 DEF vars
<1> QED
    BY <1>1, <1>2, <1>3, <1>4, <1>5, <1>6 DEF Next, NodeStep, Crash

\* What a sequence holds when it is extended or shortened.
LEMMA HoldsMore ==
    ASSUME NEW q \in Seq(Event), NEW e \in Event, NEW m \in Memories
    PROVE  /\ Holds(q, m) => Holds(Append(q, e), m)
           /\ Holds(Append(q, e), e.memory)
           /\ q # <<>> /\ Holds(q, m) => Head(q).memory = m \/ Holds(Tail(q), m)
<1>1. Append(q, e)[Len(q) + 1] = e /\ Len(q) + 1 \in DOMAIN Append(q, e)
    OBVIOUS
<1>2. \A i \in DOMAIN q : i \in DOMAIN Append(q, e) /\ Append(q, e)[i] = q[i]
    OBVIOUS
<1>3. ASSUME q # <<>>, NEW i \in DOMAIN q, i # 1
      PROVE  i - 1 \in DOMAIN Tail(q) /\ Tail(q)[i - 1] = q[i]
    BY <1>3
<1>4. q # <<>> => Head(q) = q[1]
    OBVIOUS
<1> QED
    BY <1>1, <1>2, <1>3, <1>4 DEF Holds

\* A step of node n on an event of m that it has to store.
LEMMA EventStays ==
    ASSUME RInv, SeenIsThere, [Next]_vars, NEW n \in Nodes, NEW m \in Memories,
           EventAt(n, m), Wanted(n, m)
    PROVE  EventAt(n, m)' \/ HasRow(n, m)' \/ m \in lost'[n]
<1> DEFINE Goal == EventAt(n, m)' \/ HasRow(n, m)' \/ m \in lost'[n]
<1>0. TypeOK /\ inbox[n] \in Seq(Event) /\ queue[n] \in Seq(Event) /\ StoreOf[n] \in Stores
      /\ lost[n] \in SUBSET Memories
    BY ReplicationAssumption DEF RInv, RCore, TypeOK
<1>1. CASE UNCHANGED <<inbox[n], queue[n], loop[n]>>
    BY <1>1 DEF EventAt
<1>2. ASSUME NEW p \in Nodes, NEW k \in Memories, StoreStep(p, k) PROVE Goal
    <2>1. queue' = queue /\ loop' = loop
        BY <1>2 DEF StoreStep, RejectStore, SaveMemory, LoseCommit, IndexMemory,
                    PublishStored, nodeVars
    <2>2. inbox'[n] = inbox[n] \/ inbox'[n] = Append(inbox[n], StoredEvent(k))
        BY <1>2 DEF StoreStep, RejectStore, SaveMemory, LoseCommit, IndexMemory,
                    PublishStored, nodeVars, Broadcast
    <2>3. Holds(inbox[n], m) => Holds(inbox'[n], m)
        BY <1>0, <2>2, HoldsMore, DataFacts
    <2> QED
        BY <2>1, <2>3 DEF EventAt
<1>3. ASSUME HandleMemoryStored(n) PROVE Goal
    <2>1. inbox[n] # <<>> /\ inbox'[n] = Tail(inbox[n]) /\ loop' = loop
        BY <1>0, <1>3 DEF HandleMemoryStored, TypeOK
    <2>a. Head(inbox[n]) \in Event
        BY <1>0, <2>1
    <2>b. \A x \in Event : x.memory \in Memories
        BY DEF Event
    <2>2. Head(inbox[n]) \in Event /\ Head(inbox[n]).memory \in Memories
        BY <2>a, <2>b
    <2>3. \/ queue'[n] = Append(queue[n], Head(inbox[n]))
          \/ queue' = queue /\ Head(inbox[n]).memory \in lost'[n]
        <3>1. CASE HasRoom(queue[n])
            BY <1>0, <1>3, <3>1 DEF HandleMemoryStored, TypeOK
        <3>2. CASE ~ HasRoom(queue[n])
            BY <1>0, <1>3, <3>2 DEF HandleMemoryStored, TypeOK, GiveUp
        <3> QED
            BY <3>1, <3>2
    <2>4. CASE Holds(inbox[n], m)
        <3>1. Head(inbox[n]).memory = m \/ Holds(inbox'[n], m)
            BY <1>0, <2>1, <2>2, <2>4, HoldsMore
        <3>2. CASE Head(inbox[n]).memory = m
            BY <1>0, <2>2, <2>3, <3>2, HoldsMore DEF EventAt
        <3> QED
            BY <3>1, <3>2 DEF EventAt
    <2>5. CASE Holds(queue[n], m)
        BY <1>0, <2>2, <2>3, <2>5, HoldsMore DEF EventAt
    <2>6. CASE loop[n] # Idle /\ loop[n].event.memory = m
        BY <2>1, <2>6 DEF EventAt
    <2> QED
        BY <2>4, <2>5, <2>6 DEF EventAt
<1>4. ASSUME Dequeue(n) PROVE Goal
    <2>1. queue[n] # <<>> /\ queue'[n] = Tail(queue[n]) /\ inbox' = inbox /\ loop[n] = Idle
        BY <1>0, <1>4 DEF Dequeue, TypeOK
    <2>a. Head(queue[n]) \in Event
        BY <1>0, <2>1
    <2>b. \A x \in Event : x.memory \in Memories
        BY DEF Event
    <2>2. Head(queue[n]) \in Event /\ Head(queue[n]).memory \in Memories
        BY <2>a, <2>b
    <2>3. CASE Holds(queue[n], m)
        <3>1. Head(queue[n]).memory = m \/ Holds(queue'[n], m)
            BY <1>0, <2>1, <2>2, <2>3, HoldsMore
        <3>2. CASE Head(queue[n]).memory = m
            <4>0. PICK peers \in PeerSets : \E v \in Views(n, peers \cup {n}) :
                    loop' = [loop EXCEPT ![n] =
                        IF AppliesEvent(n, Hash[m], v)
                        THEN At("select", Head(queue[n]), NoVersion) ELSE Idle]
                BY <1>4, <3>2 DEF Dequeue
            <4>1. PICK v \in Views(n, peers \cup {n}) :
                    loop' = [loop EXCEPT ![n] =
                        IF AppliesEvent(n, Hash[m], v)
                        THEN At("select", Head(queue[n]), NoVersion) ELSE Idle]
                BY <4>0
            <4>2. AppliesEvent(n, Hash[m], v)
                BY WantedApplies
            <4>3. loop'[n] = At("select", Head(queue[n]), NoVersion)
                BY <1>0, <4>1, <4>2 DEF TypeOK
            <4>4. loop'[n].stage = "select" /\ loop'[n].event.memory = m
                BY <3>2, <4>3 DEF At
            <4>5. loop'[n] # Idle
                BY <4>4, DataFacts
            <4> QED
                BY <4>4, <4>5 DEF EventAt
        <3> QED
            BY <3>1, <3>2 DEF EventAt
    <2> QED
        BY <2>1, <2>3 DEF EventAt
<1>5. ASSUME SelectVersion(n) \/ WriteRow(n) \/ IndexVector(n), UNCHANGED <<inbox, queue>>
      PROVE  Goal
    <2>0. loop[n] \in LoopRecord /\ loop[n] # Idle /\ loop[n].event \in Event
          /\ loop[n].event.memory \in Memories
        BY <1>0, <1>5, Busy DEF SelectVersion, WriteRow, IndexVector
    <2>1. CASE Holds(inbox[n], m) \/ Holds(queue[n], m)
        BY <1>5, <2>1 DEF EventAt
    <2>2. CASE loop[n].event.memory = m
        <3>1. CASE ApplyFails(n)
            <4>1. m \in lost'[n]
                BY <1>0, <2>2, <3>1 DEF ApplyFails, GiveUp, TypeOK
            <4> QED
                BY <4>1
        <3>2. CASE loop'[n] # Idle /\ loop'[n].event = loop[n].event
            BY <2>2, <3>2 DEF EventAt
        <3>3. CASE SelectVersion(n) /\ ~ ApplyFails(n)
            <4>1. loop'[n].event = loop[n].event /\ loop'[n].stage = "write"
                BY <1>0, <2>0, <3>3 DEF SelectVersion, TypeOK, LoopRecord
            <4> QED
                BY <3>2, <4>1, DataFacts
        <3>4. CASE WriteRow(n) /\ ~ ApplyFails(n)
            <4>1. CASE row' = row
                <5>0. loop[n].stage = "write"
                    BY <3>4 DEF WriteRow
                <5>1. loop[n].seen # NoVersion \/ row' # row
                    <6> SUFFICES ASSUME loop[n].seen = NoVersion PROVE row' # row
                        OBVIOUS
                    <6>1. ~ HasRow(n, m) /\ row' = [row EXCEPT ![StoreOf[n]][m] = ReplicaRow(loop[n].event)]
                        BY <2>2, <3>4 DEF WriteRow
                    <6>2. row'[StoreOf[n]][m] = ReplicaRow(loop[n].event)
                        BY <1>0, <6>1 DEF TypeOK
                    <6> QED
                        BY <2>0, <6>1, <6>2, DataFacts DEF HasRow
                <5>2. HasRow(n, m)
                    BY <2>2, <4>1, <5>0, <5>1 DEF SeenIsThere
                <5> QED
                    BY <4>1, <5>2 DEF HasRow
            <4>2. CASE row' # row
                <5>1. row' = [row EXCEPT ![StoreOf[n]][m] = ReplicaRow(loop[n].event)]
                    BY <2>2, <3>4, <4>2 DEF WriteRow, dataVars
                <5>2. row'[StoreOf[n]][m] = ReplicaRow(loop[n].event)
                    BY <1>0, <5>1 DEF TypeOK
                <5> QED
                    BY <2>0, <5>2, DataFacts DEF HasRow
            <4> QED
                BY <4>1, <4>2
        <3>5. CASE IndexVector(n) /\ ~ ApplyFails(n)
            <4>1. HasRow(n, m) /\ row' = row
                BY <2>2, <3>5 DEF IndexVector, RInv, RCore, WrittenBeforeIndexed
            <4> QED
                BY <4>1 DEF HasRow
        <3> QED
            BY <1>5, <3>1, <3>3, <3>4, <3>5
    <2> QED
        BY <2>1, <2>2 DEF EventAt
<1>6. ASSUME Die(n) PROVE Goal
    <2>1. m \in lost'[n]
        BY <1>0, <1>6 DEF Die, InHand, TypeOK
    <2> QED
        BY <2>1
<1>7. ASSUME NEW p \in Nodes, p # n, NodeStep(p)
      PROVE  UNCHANGED <<inbox[n], queue[n], loop[n]>>
    <2>1. CASE HandleMemoryStored(p)
        BY <1>0, <1>7, <2>1 DEF HandleMemoryStored, TypeOK
    <2>2. CASE Dequeue(p)
        BY <1>0, <1>7, <2>2 DEF Dequeue, TypeOK
    <2>3. CASE SelectVersion(p)
        BY <1>0, <1>7, <2>3 DEF SelectVersion, ApplyFails, TypeOK
    <2>4. CASE WriteRow(p)
        BY <1>0, <1>7, <2>4 DEF WriteRow, ApplyFails, TypeOK
    <2>5. CASE IndexVector(p)
        BY <1>0, <1>7, <2>5 DEF IndexVector, ApplyFails, TypeOK
    <2>6. CASE Crash(p) \/ Restart(p)
        BY <1>0, <1>7, <2>6 DEF Crash, Die, Restart, TypeOK
    <2> QED
        BY <1>7, <2>1, <2>2, <2>3, <2>4, <2>5, <2>6 DEF NodeStep, LoopStep
<1>8. ASSUME NodeStep(n) PROVE Goal
    <2>1. ASSUME Restart(n) PROVE UNCHANGED <<inbox[n], queue[n], loop[n]>>
        BY <2>1 DEF Restart
    <2>2. ASSUME SelectVersion(n) \/ WriteRow(n) \/ IndexVector(n)
          PROVE  UNCHANGED <<inbox, queue>>
        BY <2>2 DEF SelectVersion, WriteRow, IndexVector
    <2> QED
        BY <1>1, <1>3, <1>4, <1>5, <1>6, <1>8, <2>1, <2>2 DEF NodeStep, LoopStep, Crash
<1>9. CASE UNCHANGED vars
    BY <1>1, <1>9 DEF vars
<1> QED
    BY <1>1, <1>2, <1>7, <1>8, <1>9 DEF Next

\* On any number of nodes, with any lists of gossip, an event leaves the node that
\* has to store it as a row of its store or as a line in its log.
THEOREM EventsDoNotVanish == Spec => NoEventVanishes
<1>1. Init => SeenIsThere
    <2> SUFFICES ASSUME Init PROVE SeenIsThere
        OBVIOUS
    <2>1. \A n \in Nodes : loop[n].stage = "idle"
        BY DataFacts DEF Init
    <2> QED
        BY <2>1 DEF SeenIsThere
<1>2. RInv /\ SeenIsThere /\ [Next]_vars =>
        [\A n \in Nodes, m \in Memories :
            EventAt(n, m) /\ ~ EventAt(n, m)' /\ Wanted(n, m)
                => HasRow(n, m)' \/ m \in lost'[n]]_vars
    BY EventStays
<1> QED
    BY <1>1, <1>2, SeenIsThereStep, RInvCorrect, PTL DEF Spec, NoEventVanishes

=============================================================================
