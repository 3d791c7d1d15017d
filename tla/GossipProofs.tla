---------------------------- MODULE GossipProofs ----------------------------
(***************************************************************************)
(* Theorems about Gossip, for every number of nodes, TTL and bound on what *)
(* NATS holds, whether ticks are timely or not and whatever fails, unless  *)
(* a theorem says otherwise.                                               *)
(*                                                                         *)
(* ActiveMeansRecent is not inductive: a stamp that is too fresh could     *)
(* still be under way.  StampsAreOld, which speaks of the messages too, is *)
(* the strengthening; with TypeOK it is inductive and implies it.          *)
(*                                                                         *)
(* FreshWhenDrained needs timely delivery without loss; its strengthening  *)
(* (FreshInv) says what is under way.  With it no live peer is dropped.    *)
(*                                                                         *)
(* OneHears is the part of OneOfTwoKnows that does not need fairness: of   *)
(* two nodes that are up one knows the other or is about to.               *)
(***************************************************************************)
EXTENDS Gossip, TLAPS

Boxes == [Nodes -> [Subjects -> Seq(Message)]]

\* A sequence of messages, none stamped later than sil says of its sender.
Old(q, sil) == \A i \in 1 .. Len(q) : sil[q[i].from] <= q[i].age

OldMail(boxes, sil) == \A n \in Nodes, s \in {"health", "joined"} : Old(boxes[n][s], sil)
OldTable(tab, sil)  == \A n, m \in Nodes : sil[m] <= tab[n][m]

-----------------------------------------------------------------------------
(* Type correctness. *)

LEMMA AbsentFacts ==
    /\ Absent \in Nat /\ TTL \in Nat /\ TTL # 0 /\ 0 \in Ages
    /\ Absent \notin Ages
    /\ \A age \in Ages : Older(age) \in Ages /\ age <= Older(age) /\ age \in Nat
BY GossipAssumption DEF Absent, Ages, Older

LEMMA PublishType ==
    ASSUME NEW boxes \in Boxes, NEW n \in Nodes, NEW s \in Subjects
    PROVE  Publish(boxes, n, s) \in Boxes
<1> DEFINE msg == [from |-> n, age |-> 0]
<1>1. msg \in Message
    BY AbsentFacts DEF Message
<1> HIDE DEF msg
<1>2. \A p \in Nodes : Append(boxes[p][s], msg) \in Seq(Message)
    BY <1>1 DEF Boxes
<1>3. \A p \in Nodes :
        [boxes[p] EXCEPT ![s] = IF phase[p] >= Place(s) THEN Append(@, msg) ELSE @]
            \in [Subjects -> Seq(Message)]
    BY <1>2 DEF Boxes
<1> QED
    BY <1>3 DEF Publish, Boxes, msg

LEMMA TakeType ==
    ASSUME inbox \in Boxes, NEW n \in Nodes, NEW s \in Subjects,
           inbox[n][s] # <<>>, Take(n, s)
    PROVE  /\ inbox' \in Boxes
           /\ Head(inbox[n][s]) \in Message
BY DEF Take, Boxes

LEMMA ForgetType ==
    ASSUME TypeOK, NEW n \in Nodes, NEW boxes \in Boxes, Forget(n, boxes)
    PROVE  TypeOK'
<1>1. phase' \in [Nodes -> Down .. Announced] /\ due' \in [Nodes -> BOOLEAN]
    BY DEF TypeOK, Forget, Down, Announced
<1>2. table' \in [Nodes -> [Nodes -> Ages \cup {Absent}]]
    BY DEF TypeOK, Forget
<1>3. inbox' \in [Nodes -> [Subjects -> Seq(Message)]]
    <2>1. [s \in Subjects |-> <<>>] \in [Subjects -> Seq(Message)]
        OBVIOUS
    <2> QED
        BY <2>1 DEF Forget, Boxes
<1> QED
    BY <1>1, <1>2, <1>3 DEF TypeOK, Forget

LEMMA InitType == Init => TypeOK
<1>1. [s \in Subjects |-> <<>>] \in [Subjects -> Seq(Message)]
    OBVIOUS
<1> QED
    BY <1>1, AbsentFacts, GossipAssumption DEF Init, TypeOK, Down, Announced, Ages

LEMMA NextType == TypeOK /\ [Next]_vars => TypeOK'
<1> SUFFICES ASSUME TypeOK, [Next]_vars PROVE TypeOK'
    OBVIOUS
<1>0. inbox \in Boxes
    BY DEF TypeOK, Boxes
<1>1. ASSUME NEW n \in Nodes, Subscribe(n) PROVE TypeOK'
    <2>1. phase[n] \in 0 .. 4 /\ phase[n] < 3
        BY <1>1 DEF TypeOK, Subscribe, Down, Announced, Subscribed
    <2>2. phase[n] + 1 \in Down .. Announced
        BY <2>1 DEF Down, Announced
    <2>3. phase' \in [Nodes -> Down .. Announced]
        BY <1>1, <2>2 DEF TypeOK, Subscribe
    <2> QED
        BY <1>1, <2>3 DEF TypeOK, Subscribe
<1>2. ASSUME NEW n \in Nodes, Announce(n) PROVE TypeOK'
    <2>1. inbox' \in Boxes
        BY <1>0, <1>2, PublishType DEF Announce, Subjects
    <2>2. phase' \in [Nodes -> Down .. Announced] /\ silence' \in [Nodes -> Ages]
        BY <1>2, AbsentFacts DEF TypeOK, Announce, Down, Announced
    <2> QED
        BY <1>2, <2>1, <2>2 DEF TypeOK, Announce, Boxes
<1>3. ASSUME NEW n \in Nodes, Heartbeat(n) PROVE TypeOK'
    <2>1. inbox' \in Boxes
        BY <1>0, <1>3, PublishType DEF Heartbeat, Subjects
    <2>2. due' \in [Nodes -> BOOLEAN] /\ silence' \in [Nodes -> Ages]
        BY <1>3, AbsentFacts DEF TypeOK, Heartbeat
    <2> QED
        BY <1>3, <2>1, <2>2 DEF TypeOK, Heartbeat, Boxes
<1>4. ASSUME NEW n \in Nodes, Stop(n) PROVE TypeOK'
    BY <1>0, <1>4, PublishType, ForgetType DEF Stop, Subjects
<1>5. ASSUME NEW n \in Nodes, Crash(n) PROVE TypeOK'
    BY <1>0, <1>5, ForgetType DEF Crash
<1>6. ASSUME NEW n \in Nodes, HandleHealthCheck(n) PROVE TypeOK'
    <2> DEFINE msg == Head(inbox[n]["health"])
    <2>1. inbox' \in Boxes /\ msg \in Message
        BY <1>0, <1>6, TakeType DEF HandleHealthCheck, Subjects
    <2>2. table' \in [Nodes -> [Nodes -> Ages \cup {Absent}]]
        BY <1>6, <2>1 DEF HandleHealthCheck, TypeOK, StampOf, Message
    <2> QED
        BY <1>6, <2>1, <2>2 DEF HandleHealthCheck, TypeOK, Boxes
<1>7. ASSUME NEW n \in Nodes, HandleNodeJoined(n) PROVE TypeOK'
    <2> DEFINE msg == Head(inbox[n]["joined"])
    <2>1. inbox' \in Boxes /\ msg \in Message
        BY <1>0, <1>7, TakeType DEF HandleNodeJoined, Subjects
    <2>2. table' \in [Nodes -> [Nodes -> Ages \cup {Absent}]]
        BY <1>7, <2>1 DEF HandleNodeJoined, TypeOK, StampOf, Message
    <2> QED
        BY <1>7, <2>1, <2>2 DEF HandleNodeJoined, TypeOK, Boxes
<1>8. ASSUME NEW n \in Nodes, HandleNodeLeft(n) PROVE TypeOK'
    <2>1. inbox' \in Boxes
        BY <1>0, <1>8, TakeType DEF HandleNodeLeft, Subjects
    <2>2. table' \in [Nodes -> [Nodes -> Ages \cup {Absent}]]
        BY <1>8 DEF HandleNodeLeft, TypeOK
    <2> QED
        BY <1>8, <2>1, <2>2 DEF HandleNodeLeft, TypeOK, Boxes
<1>9. ASSUME NEW n \in Nodes, NEW s \in Subjects, Lose(n, s) PROVE TypeOK'
    <2>1. inbox' \in Boxes
        BY <1>0, <1>9, TakeType DEF Lose
    <2> QED
        BY <1>9, <2>1 DEF Lose, TypeOK, Boxes
<1>10. ASSUME Tick PROVE TypeOK'
    <2>1. table' \in [Nodes -> [Nodes -> Ages \cup {Absent}]]
        BY <1>10, AbsentFacts DEF Tick, TypeOK
    <2>2. silence' \in [Nodes -> Ages] /\ due' \in [Nodes -> BOOLEAN]
        BY <1>10, AbsentFacts DEF Tick, TypeOK
    <2>3. ASSUME NEW n \in Nodes, NEW s \in Subjects
          PROVE  [i \in 1 .. Len(inbox[n][s]) |->
                    [from |-> inbox[n][s][i].from, age |-> Older(inbox[n][s][i].age)]]
                        \in Seq(Message)
        <3>1. inbox[n][s] \in Seq(Message)
            BY <1>0 DEF Boxes
        <3>2. \A i \in 1 .. Len(inbox[n][s]) :
                [from |-> inbox[n][s][i].from, age |-> Older(inbox[n][s][i].age)] \in Message
            <4> SUFFICES ASSUME NEW i \in 1 .. Len(inbox[n][s])
                         PROVE  [from |-> inbox[n][s][i].from,
                                 age |-> Older(inbox[n][s][i].age)] \in Message
                OBVIOUS
            <4>1. inbox[n][s][i] \in Message
                BY <3>1
            <4> QED
                BY <4>1, AbsentFacts DEF Message
        <3> QED
            BY <3>1, <3>2
    <2>4. inbox' \in [Nodes -> [Subjects -> Seq(Message)]]
        BY <1>10, <2>3 DEF Tick
    <2> QED
        BY <1>10, <2>1, <2>2, <2>4 DEF Tick, TypeOK
<1>11. CASE UNCHANGED vars
    BY <1>11 DEF TypeOK, vars
<1> QED
    BY <1>1, <1>2, <1>3, <1>4, <1>5, <1>6, <1>7, <1>8, <1>9, <1>10, <1>11
    DEF Next, Start, Handle

\* The type invariant holds in every reachable state.
THEOREM TypeCorrect == Spec => []TypeOK
<1> QED
    BY InitType, NextType, PTL DEF Spec

-----------------------------------------------------------------------------
(* A node is never in its own table. *)

LEMMA NextNeverSelf == TypeOK /\ NeverSelf /\ [Next]_vars => NeverSelf'
<1> SUFFICES ASSUME TypeOK, NeverSelf, [Next]_vars, NEW p \in Nodes
             PROVE  table'[p][p] = Absent
    BY DEF NeverSelf
<1>0. inbox \in Boxes /\ table[p][p] = Absent
    BY DEF TypeOK, Boxes, NeverSelf
<1>1. ASSUME NEW n \in Nodes, Start(n) \/ Heartbeat(n) PROVE table'[p][p] = Absent
    BY <1>0, <1>1 DEF Start, Subscribe, Announce, Heartbeat
<1>2. ASSUME NEW n \in Nodes, Stop(n) \/ Crash(n) PROVE table'[p][p] = Absent
    <2>1. table' = [table EXCEPT ![n] = [m \in Nodes |-> Absent]]
        BY <1>2 DEF Stop, Crash, Forget
    <2> QED
        BY <1>0, <2>1 DEF TypeOK
<1>3. ASSUME NEW n \in Nodes, HandleHealthCheck(n) PROVE table'[p][p] = Absent
    <2>1. Head(inbox[n]["health"]) \in Message
        BY <1>0, <1>3, TakeType DEF HandleHealthCheck, Subjects
    <2> QED
        BY <1>0, <1>3, <2>1 DEF HandleHealthCheck, TypeOK, Message
<1>4. ASSUME NEW n \in Nodes, HandleNodeJoined(n) PROVE table'[p][p] = Absent
    <2>1. Head(inbox[n]["joined"]) \in Message
        BY <1>0, <1>4, TakeType DEF HandleNodeJoined, Subjects
    <2> QED
        BY <1>0, <1>4, <2>1 DEF HandleNodeJoined, TypeOK, Message
<1>5. ASSUME NEW n \in Nodes, HandleNodeLeft(n) PROVE table'[p][p] = Absent
    BY <1>0, <1>5 DEF HandleNodeLeft, TypeOK
<1>6. ASSUME NEW n \in Nodes, NEW s \in Subjects, Lose(n, s) PROVE table'[p][p] = Absent
    BY <1>0, <1>6 DEF Lose
<1>7. CASE Tick
    BY <1>0, <1>7 DEF Tick, TypeOK
<1>8. CASE UNCHANGED vars
    BY <1>0, <1>8 DEF vars
<1> QED
    BY <1>1, <1>2, <1>3, <1>4, <1>5, <1>6, <1>7, <1>8 DEF Next, Handle

\* GetActiveNodes never lists the local node a second time, whatever the node
\* hears of itself: the self test of handleNodeJoined is enough, because
\* handleHealthCheck adds nobody.
THEOREM LocalNodeListedOnce == Spec => []NeverSelf
<1>1. Init => NeverSelf
    BY DEF Init, NeverSelf
<1> QED
    BY <1>1, InitType, NextType, NextNeverSelf, PTL DEF Spec

-----------------------------------------------------------------------------
(* Nobody is held active on a stamp younger than the last publication. *)

\* A node that has just published makes no stamp too fresh.
LEMMA PublishOld ==
    ASSUME TypeOK, StampsAreOld, NEW n \in Nodes, NEW s \in Subjects,
           inbox' = Publish(inbox, n, s), table' = table,
           silence' = [silence EXCEPT ![n] = 0]
    PROVE  StampsAreOld'
<1> DEFINE msg == [from |-> n, age |-> 0]
<1>1. \A m \in Nodes : silence'[m] <= silence[m] /\ silence'[m] \in Nat /\ silence[m] \in Nat
    BY DEF TypeOK, Ages
<1>2. OldTable(table', silence')
    <2> SUFFICES ASSUME NEW p \in Nodes, NEW m \in Nodes PROVE silence'[m] <= table[p][m]
        BY DEF OldTable
    <2>1. silence[m] <= table[p][m] /\ table[p][m] \in Nat
        BY AbsentFacts DEF StampsAreOld, TypeOK, Ages
    <2> QED
        BY <1>1, <2>1
<1>3. ASSUME NEW p \in Nodes, NEW t \in {"health", "joined"}
      PROVE  Old(inbox'[p][t], silence')
    <2>1. inbox[p][t] \in Seq(Message) /\ Old(inbox[p][t], silence)
        BY DEF TypeOK, StampsAreOld, Old, Subjects
    <2>2. Old(inbox[p][t], silence')
        <3> SUFFICES ASSUME NEW i \in 1 .. Len(inbox[p][t])
                     PROVE  silence'[inbox[p][t][i].from] <= inbox[p][t][i].age
            BY DEF Old
        <3>1. inbox[p][t][i] \in Message
            BY <2>1
        <3>2. inbox[p][t][i].from \in Nodes /\ inbox[p][t][i].age \in Nat
            BY <3>1, AbsentFacts DEF Message
        <3>3. silence[inbox[p][t][i].from] <= inbox[p][t][i].age
            BY <2>1 DEF Old
        <3> QED
            BY <1>1, <3>2, <3>3
    <2>3. inbox'[p][t] = inbox[p][t] \/ inbox'[p][t] = Append(inbox[p][t], msg)
        BY DEF Publish, TypeOK, Subjects
    <2>4. Old(Append(inbox[p][t], msg), silence')
        BY <2>1, <2>2 DEF Old, TypeOK
    <2> QED
        BY <2>2, <2>3, <2>4
<1> QED
    BY <1>2, <1>3 DEF StampsAreOld, OldTable, Old

\* Neither does taking a message from an inbox.
LEMMA TakeOld ==
    ASSUME TypeOK, StampsAreOld, NEW n \in Nodes, NEW s \in Subjects,
           inbox[n][s] # <<>>, Take(n, s)
    PROVE  OldMail(inbox', silence)
<1> SUFFICES ASSUME NEW p \in Nodes, NEW t \in {"health", "joined"}
             PROVE  Old(inbox'[p][t], silence)
    BY DEF OldMail
<1>1. inbox[p][t] \in Seq(Message) /\ Old(inbox[p][t], silence)
    BY DEF TypeOK, StampsAreOld, Old, Subjects
<1>2. CASE p = n /\ t = s
    <2>1. inbox'[p][t] = Tail(inbox[p][t]) /\ inbox[p][t] # <<>>
        BY <1>2 DEF Take, TypeOK
    <2>2. \A i \in 1 .. Len(Tail(inbox[p][t])) :
            i + 1 \in 1 .. Len(inbox[p][t]) /\ Tail(inbox[p][t])[i] = inbox[p][t][i + 1]
        BY <1>1, <2>1
    <2> QED
        BY <1>1, <2>1, <2>2 DEF Old
<1>3. CASE ~ (p = n /\ t = s)
    <2>1. inbox'[p][t] = inbox[p][t]
        BY <1>3 DEF Take, TypeOK, Subjects
    <2> QED
        BY <1>1, <2>1
<1> QED
    BY <1>2, <1>3

\* The head of an inbox a handler stores is old.
LEMMA HeadOld ==
    ASSUME TypeOK, StampsAreOld, NEW n \in Nodes, NEW s \in {"health", "joined"},
           inbox[n][s] # <<>>
    PROVE  /\ Head(inbox[n][s]) \in Message
           /\ silence[Head(inbox[n][s]).from] <= Head(inbox[n][s]).age
<1>1. inbox[n][s] \in Seq(Message)
    BY DEF TypeOK, Subjects
<1>2. Head(inbox[n][s]) = inbox[n][s][1] /\ 1 \in 1 .. Len(inbox[n][s])
    BY <1>1
<1> QED
    BY <1>1, <1>2 DEF StampsAreOld

\* A process that ends keeps nothing that could be too fresh.
LEMMA ForgetOld ==
    ASSUME TypeOK, StampsAreOld, NEW n \in Nodes, NEW boxes \in Boxes,
           OldMail(boxes, silence), Forget(n, boxes)
    PROVE  StampsAreOld'
<1>1. OldTable(table', silence)
    <2>1. \A m \in Nodes : silence[m] <= Absent
        BY GossipAssumption DEF TypeOK, Ages, Absent
    <2> QED
        BY <2>1 DEF Forget, OldTable, TypeOK, StampsAreOld
<1>2. OldMail(inbox', silence)
    BY DEF Forget, OldMail, Old, Boxes, Subjects
<1>3. silence' = silence
    BY DEF Forget
<1> QED
    BY <1>1, <1>2, <1>3 DEF StampsAreOld, OldTable, OldMail, Old

LEMMA NextOld == TypeOK /\ StampsAreOld /\ [Next]_vars => StampsAreOld'
<1> SUFFICES ASSUME TypeOK, StampsAreOld, [Next]_vars PROVE StampsAreOld'
    OBVIOUS
<1>0. inbox \in Boxes /\ OldMail(inbox, silence) /\ OldTable(table, silence)
    BY DEF TypeOK, Boxes, StampsAreOld, OldMail, OldTable, Old
<1>1. ASSUME NEW n \in Nodes, Subscribe(n) PROVE StampsAreOld'
    BY <1>1 DEF Subscribe, StampsAreOld
<1>2. ASSUME NEW n \in Nodes, Announce(n) PROVE StampsAreOld'
    BY <1>2, PublishOld DEF Announce, Subjects
<1>3. ASSUME NEW n \in Nodes, Heartbeat(n) PROVE StampsAreOld'
    BY <1>3, PublishOld DEF Heartbeat, Subjects
<1>4. ASSUME NEW n \in Nodes, Stop(n) PROVE StampsAreOld'
    <2>1. OldMail(Publish(inbox, n, "left"), silence)
        BY <1>0 DEF Publish, OldMail, Boxes, Subjects
    <2>2. Publish(inbox, n, "left") \in Boxes
        BY <1>0, PublishType DEF Subjects
    <2> QED
        BY <1>4, <2>1, <2>2, ForgetOld DEF Stop
<1>5. ASSUME NEW n \in Nodes, Crash(n) PROVE StampsAreOld'
    BY <1>0, <1>5, ForgetOld DEF Crash
<1>6. ASSUME NEW n \in Nodes, HandleHealthCheck(n) PROVE StampsAreOld'
    <2> DEFINE msg == Head(inbox[n]["health"])
    <2>1. msg \in Message /\ silence[msg.from] <= msg.age
        BY <1>6, HeadOld DEF HandleHealthCheck
    <2>2. OldTable(table', silence)
        BY <1>0, <1>6, <2>1 DEF HandleHealthCheck, StampOf, OldTable, TypeOK, Message
    <2>3. OldMail(inbox', silence)
        BY <1>6, TakeOld DEF HandleHealthCheck, Subjects
    <2> QED
        BY <1>6, <2>2, <2>3 DEF HandleHealthCheck, StampsAreOld, OldTable, OldMail, Old
<1>7. ASSUME NEW n \in Nodes, HandleNodeJoined(n) PROVE StampsAreOld'
    <2> DEFINE msg == Head(inbox[n]["joined"])
    <2>1. msg \in Message /\ silence[msg.from] <= msg.age
        BY <1>7, HeadOld DEF HandleNodeJoined
    <2>2. OldTable(table', silence)
        BY <1>0, <1>7, <2>1 DEF HandleNodeJoined, StampOf, OldTable, TypeOK, Message
    <2>3. OldMail(inbox', silence)
        BY <1>7, TakeOld DEF HandleNodeJoined, Subjects
    <2> QED
        BY <1>7, <2>2, <2>3 DEF HandleNodeJoined, StampsAreOld, OldTable, OldMail, Old
<1>8. ASSUME NEW n \in Nodes, HandleNodeLeft(n) PROVE StampsAreOld'
    <2>1. \A m \in Nodes : silence[m] <= Absent
        BY GossipAssumption DEF TypeOK, Ages, Absent
    <2>2. OldTable(table', silence)
        BY <1>0, <1>8, <2>1 DEF HandleNodeLeft, OldTable, TypeOK
    <2>3. OldMail(inbox', silence)
        BY <1>8, TakeOld DEF HandleNodeLeft, Subjects
    <2> QED
        BY <1>8, <2>2, <2>3 DEF HandleNodeLeft, StampsAreOld, OldTable, OldMail, Old
<1>9. ASSUME NEW n \in Nodes, NEW s \in Subjects, Lose(n, s) PROVE StampsAreOld'
    <2>1. OldMail(inbox', silence)
        BY <1>9, TakeOld DEF Lose
    <2> QED
        BY <1>0, <1>9, <2>1 DEF Lose, StampsAreOld, OldTable, OldMail, Old
<1>10. ASSUME Tick PROVE StampsAreOld'
    <2>0. \A a, b \in Ages : a <= b => Older(a) <= Older(b)
        BY GossipAssumption DEF Ages, Older
    <2>1. ASSUME NEW n \in Nodes, NEW m \in Nodes PROVE silence'[m] <= table'[n][m]
        <3>1. silence[m] \in Ages /\ silence'[m] = Older(silence[m])
            BY <1>10 DEF Tick, TypeOK
        <3>2. CASE table[n][m] = Absent
            BY <1>10, <3>1, <3>2, GossipAssumption DEF Tick, Older, Ages, Absent
        <3>3. CASE table[n][m] # Absent
            <4>1. table[n][m] \in Ages /\ silence[m] <= table[n][m]
                BY <1>0, <3>3 DEF TypeOK, OldTable
            <4>2. table'[n][m] = Older(table[n][m])
                BY <1>10, <3>3 DEF Tick
            <4> QED
                BY <2>0, <3>1, <4>1, <4>2
        <3> QED
            BY <3>2, <3>3
    <2>2. ASSUME NEW n \in Nodes, NEW s \in {"health", "joined"}, NEW i \in 1 .. Len(inbox'[n][s])
          PROVE  silence'[inbox'[n][s][i].from] <= inbox'[n][s][i].age
        <3>1. inbox[n][s] \in Seq(Message) /\ s \in Subjects
            BY DEF TypeOK, Subjects
        <3>2. i \in 1 .. Len(inbox[n][s])
              /\ inbox'[n][s][i] = [from |-> inbox[n][s][i].from, age |-> Older(inbox[n][s][i].age)]
            BY <1>10, <3>1 DEF Tick
        <3>3. inbox[n][s][i] \in Message
            BY <3>1, <3>2
        <3>4. silence[inbox[n][s][i].from] <= inbox[n][s][i].age
            BY <1>0, <3>2 DEF OldMail, Old
        <3>5. silence'[inbox[n][s][i].from] = Older(silence[inbox[n][s][i].from])
              /\ silence[inbox[n][s][i].from] \in Ages /\ inbox[n][s][i].age \in Ages
            BY <1>10, <3>3 DEF Tick, TypeOK, Message
        <3> QED
            BY <2>0, <3>2, <3>4, <3>5
    <2> QED
        BY <2>1, <2>2 DEF StampsAreOld
<1>11. CASE UNCHANGED vars
    BY <1>11 DEF StampsAreOld, vars
<1> QED
    BY <1>1, <1>2, <1>3, <1>4, <1>5, <1>6, <1>7, <1>8, <1>9, <1>10, <1>11
    DEF Next, Start, Handle

\* Every stamp in a table or under way is at least as old as its sender's last
\* publication.
THEOREM NoFreshStamps == Spec => []StampsAreOld
<1>1. Init => StampsAreOld
    <2> SUFFICES ASSUME Init PROVE StampsAreOld
        OBVIOUS
    <2>1. \A n, m \in Nodes : silence[m] <= table[n][m]
        BY GossipAssumption DEF Init, Absent
    <2>2. \A n \in Nodes, s \in {"health", "joined"} : Len(inbox[n][s]) = 0
        BY DEF Init, Subjects
    <2> QED
        BY <2>1, <2>2 DEF StampsAreOld
<1> QED
    BY <1>1, InitType, NextType, NextOld, PTL DEF Spec

\* A node that GetActiveNodes lists on another has published within the TTL,
\* whatever was delayed, reordered or lost: no node outlives its silence.
THEOREM ActiveNodesAreRecent == Spec => []ActiveMeansRecent
<1>1. TypeOK /\ StampsAreOld => ActiveMeansRecent
    <2> SUFFICES ASSUME TypeOK, StampsAreOld, NEW n \in Nodes, NEW m \in Nodes,
                        n # m, m \in ActiveNodes(n)
                 PROVE  silence[m] < TTL
        BY DEF ActiveMeansRecent
    <2>1. table[n][m] < TTL
        BY DEF ActiveNodes, IsRecent
    <2>2. silence[m] <= table[n][m] /\ silence[m] \in Nat /\ table[n][m] \in Nat
        BY AbsentFacts DEF StampsAreOld, TypeOK, Ages
    <2> QED
        BY <2>1, <2>2, GossipAssumption
<1> QED
    BY <1>1, TypeCorrect, NoFreshStamps, PTL

-----------------------------------------------------------------------------
(* With timely delivery nothing is missed.  A tick waits for all mail, so    *)
(* whatever is under way was published since the last tick; a stamp that is  *)
(* not that of the last publication has its successor under way.  A node     *)
(* that has not yet subscribed to a subject gets none of its mail, and knows *)
(* nobody before it hears of joins.                                          *)

News == {"health", "joined"}

Just(q, sil)    == \A i \in 1 .. Len(q) : q[i].age = 0 /\ sil[q[i].from] = 0
Contains(q, m)  == \E i \in 1 .. Len(q) : q[i].from = m
Awaits(box, m)  == \E s \in News : Contains(box[s], m)

NoMailBefore ==
    \A n \in Nodes : \A s \in Subjects : phase[n] < Place(s) => inbox[n][s] = <<>>
KnowsNobodyBefore ==
    \A n \in Nodes : phase[n] < Place("joined") => \A m \in Nodes : table[n][m] = Absent
NewsIsNew == \A n \in Nodes, s \in News : Just(inbox[n][s], silence)
StampOrNews ==
    \A n, m \in Nodes : table[n][m] \in {Absent, silence[m]} \/ Awaits(inbox[n], m)

FreshInv == NoMailBefore /\ KnowsNobodyBefore /\ NewsIsNew /\ StampOrNews

LEMMA Places ==
    /\ Place("health") = 1 /\ Place("joined") = 2 /\ Place("left") = 3
    /\ \A s \in Subjects : Place(s) \in {1, 2, 3}
BY DEF Place, Subjects

LEMMA Phases ==
    ASSUME TypeOK, NEW p \in Nodes
    PROVE  phase[p] \in {0, 1, 2, 3, 4}
<1>1. 0 .. 4 = {0, 1, 2, 3, 4}
    OBVIOUS
<1> QED
    BY <1>1 DEF TypeOK, Down, Announced

LEMMA AppendContains ==
    ASSUME NEW q \in Seq(Message), NEW msg \in Message, NEW m \in Nodes
    PROVE  Contains(Append(q, msg), m) <=> Contains(q, m) \/ msg.from = m
<1>1. Len(Append(q, msg)) = Len(q) + 1 /\ Len(q) \in Nat
    OBVIOUS
<1>2. \A i \in 1 .. Len(q) : Append(q, msg)[i] = q[i]
    OBVIOUS
<1>3. Append(q, msg)[Len(q) + 1] = msg
    OBVIOUS
<1>4. 1 .. Len(q) + 1 = 1 .. Len(q) \cup {Len(q) + 1}
    BY <1>1
<1> QED
    BY <1>1, <1>2, <1>3, <1>4 DEF Contains

LEMMA TailContains ==
    ASSUME NEW q \in Seq(Message), q # <<>>, NEW m \in Nodes, Contains(q, m)
    PROVE  Contains(Tail(q), m) \/ Head(q).from = m
<1>1. PICK i \in 1 .. Len(q) : q[i].from = m
    BY DEF Contains
<1>2. CASE i = 1
    BY <1>1, <1>2
<1>3. CASE i # 1
    <2>1. i - 1 \in 1 .. Len(Tail(q)) /\ Tail(q)[i - 1] = q[i]
        BY <1>1, <1>3
    <2> QED
        BY <1>1, <2>1 DEF Contains
<1> QED
    BY <1>2, <1>3

LEMMA TailJust ==
    ASSUME NEW q \in Seq(Message), q # <<>>, NEW sil, Just(q, sil)
    PROVE  /\ Just(Tail(q), sil)
           /\ Head(q) \in Message /\ Head(q).age = 0 /\ sil[Head(q).from] = 0
<1>1. \A i \in 1 .. Len(Tail(q)) : i + 1 \in 1 .. Len(q) /\ Tail(q)[i] = q[i + 1]
    OBVIOUS
<1>2. Head(q) = q[1] /\ 1 \in 1 .. Len(q) /\ q[1] \in Message
    OBVIOUS
<1> QED
    BY <1>1, <1>2 DEF Just

\* Time adds no message.
LEMMA TickKeepsEmpty ==
    ASSUME Tick, NEW n \in Nodes, NEW s \in Subjects, inbox[n][s] = <<>>
    PROVE  inbox'[n][s] = <<>>
<1> DEFINE aged(q) == [i \in 1 .. Len(q) |-> [from |-> q[i].from, age |-> Older(q[i].age)]]
<1>1. inbox'[n][s] = aged(inbox[n][s])
    BY DEF Tick
<1>2. aged(<<>>) = <<>>
    <2>1. 1 .. Len(<<>>) = {}
        OBVIOUS
    <2> QED
        BY <2>1
<1> HIDE DEF aged
<1> QED
    BY <1>1, <1>2

\* A publication of n: everybody who subscribes has it under way.
LEMMA PublishFresh ==
    ASSUME TypeOK, FreshInv, NEW n \in Nodes, NEW s \in News,
           inbox' = Publish(inbox, n, s), table' = table,
           silence' = [silence EXCEPT ![n] = 0],
           \A p \in Nodes : phase'[p] = phase[p] \/ (phase[p] = Subscribed /\ phase'[p] = Announced)
    PROVE  FreshInv'
<1> DEFINE msg == [from |-> n, age |-> 0]
<1>0. msg \in Message /\ msg.from = n /\ msg.age = 0 /\ s \in Subjects /\ News \subseteq Subjects
    BY AbsentFacts DEF Message, News, Subjects
<1>1. \A p \in Nodes, t \in Subjects : inbox[p][t] \in Seq(Message)
    BY DEF TypeOK
<1>2. ASSUME NEW p \in Nodes, NEW t \in Subjects
      PROVE  inbox'[p][t] = IF t = s /\ phase[p] >= Place(s) THEN Append(inbox[p][t], msg)
                                                           ELSE inbox[p][t]
    BY <1>0 DEF Publish, TypeOK
<1> HIDE DEF msg
<1>3. \A p \in Nodes, t \in Subjects : phase'[p] < Place(t) => phase[p] < Place(t)
    <2> SUFFICES ASSUME NEW p \in Nodes, NEW t \in Subjects, phase'[p] < Place(t)
                 PROVE  phase[p] < Place(t)
        OBVIOUS
    <2>1. phase[p] \in {0, 1, 2, 3, 4} /\ Place(t) \in {1, 2, 3}
        BY Phases, Places
    <2> QED
        BY <2>1 DEF Subscribed, Announced
<1>4. NoMailBefore'
    <2> SUFFICES ASSUME NEW p \in Nodes, NEW t \in Subjects, phase'[p] < Place(t)
                 PROVE  inbox'[p][t] = <<>>
        BY DEF NoMailBefore
    <2>1. phase[p] < Place(t) /\ phase[p] \in {0, 1, 2, 3, 4} /\ Place(t) \in {1, 2, 3}
        BY <1>3, Phases, Places
    <2>2. inbox[p][t] = <<>> /\ ~ (t = s /\ phase[p] >= Place(s))
        BY <2>1 DEF FreshInv, NoMailBefore
    <2> QED
        BY <1>2, <2>2
<1>5. KnowsNobodyBefore'
    BY <1>3 DEF FreshInv, KnowsNobodyBefore, Subjects
<1>6. NewsIsNew'
    <2> SUFFICES ASSUME NEW p \in Nodes, NEW t \in News PROVE Just(inbox'[p][t], silence')
        BY DEF NewsIsNew
    <2>1. inbox[p][t] \in Seq(Message) /\ Just(inbox[p][t], silence)
        BY <1>0, <1>1 DEF FreshInv, NewsIsNew
    <2>2. Just(inbox[p][t], silence')
        <3>1. \A i \in 1 .. Len(inbox[p][t]) : inbox[p][t][i] \in Message
            BY <2>1
        <3> QED
            BY <2>1, <3>1 DEF Just, Message, TypeOK
    <2>3. Just(Append(inbox[p][t], msg), silence')
        <3>1. silence'[msg.from] = 0
            BY <1>0 DEF TypeOK
        <3> QED
            BY <1>0, <2>1, <2>2, <3>1 DEF Just
    <2> QED
        BY <1>0, <1>2, <2>2, <2>3
<1>7. StampOrNews'
    <2> SUFFICES ASSUME NEW p \in Nodes, NEW m \in Nodes
                 PROVE  table[p][m] \in {Absent, silence'[m]} \/ Awaits(inbox'[p], m)
        BY DEF StampOrNews
    <2>1. ASSUME Awaits(inbox[p], m) PROVE Awaits(inbox'[p], m)
        <3>1. PICK t \in News : Contains(inbox[p][t], m)
            BY <2>1 DEF Awaits
        <3>2. Contains(inbox'[p][t], m)
            BY <1>0, <1>1, <1>2, <3>1, AppendContains
        <3> QED
            BY <3>2 DEF Awaits
    <2>2. CASE m # n
        <3>1. silence'[m] = silence[m]
            BY <2>2 DEF TypeOK
        <3> QED
            BY <2>1, <3>1 DEF FreshInv, StampOrNews
    <2>3. CASE m = n /\ phase[p] >= Place(s)
        <3>1. Contains(inbox'[p][s], m)
            BY <1>0, <1>1, <1>2, <2>3, AppendContains
        <3> QED
            BY <3>1 DEF Awaits
    <2>4. CASE ~ (phase[p] >= Place(s))
        <3>1. phase[p] \in {0, 1, 2, 3, 4} /\ Place(s) \in {1, 2} /\ Place("joined") = 2
            BY Phases, Places DEF News
        <3>2. phase[p] < Place("joined")
            BY <2>4, <3>1
        <3> QED
            BY <3>2 DEF FreshInv, KnowsNobodyBefore
    <2> QED
        BY <2>2, <2>3, <2>4
<1> QED
    BY <1>4, <1>5, <1>6, <1>7 DEF FreshInv

\* A node takes a message of subject s and enters what it says in its table.
LEMMA TakeFresh ==
    ASSUME TypeOK, FreshInv, NEW n \in Nodes, NEW s \in Subjects, inbox[n][s] # <<>>, Take(n, s),
           phase' = phase, silence' = silence,
           NEW m \in Nodes, m = Head(inbox[n][s]).from,
           \A p, k \in Nodes : table'[p][k] = table[p][k] \/ (p = n /\ k = m),
           table[n][m] = Absent => table'[n][m] = Absent \/ s = "joined",
           table'[n][m] \in {Absent, silence[m]}
    PROVE  FreshInv'
<1>1. \A p \in Nodes, t \in Subjects :
        /\ inbox[p][t] \in Seq(Message)
        /\ inbox'[p][t] = IF p = n /\ t = s THEN Tail(inbox[p][t]) ELSE inbox[p][t]
    BY DEF TypeOK, Take
<1>2. NoMailBefore'
    BY <1>1 DEF FreshInv, NoMailBefore
<1>3. KnowsNobodyBefore'
    <2>1. ~ (phase[n] < Place(s))
        BY DEF FreshInv, NoMailBefore
    <2>2. CASE s = "joined"
        BY <2>1, <2>2 DEF FreshInv, KnowsNobodyBefore
    <2>3. CASE s # "joined"
        <3> SUFFICES ASSUME NEW p \in Nodes, phase[p] < Place("joined"), NEW k \in Nodes
                     PROVE  table'[p][k] = Absent
            BY DEF KnowsNobodyBefore
        <3>1. table[p][k] = Absent
            BY DEF FreshInv, KnowsNobodyBefore
        <3> QED
            BY <2>3, <3>1
    <2> QED
        BY <2>2, <2>3
<1>4. NewsIsNew'
    <2> SUFFICES ASSUME NEW p \in Nodes, NEW t \in News PROVE Just(inbox'[p][t], silence)
        BY DEF NewsIsNew
    <2>1. t \in Subjects /\ Just(inbox[p][t], silence)
        BY DEF FreshInv, NewsIsNew, News, Subjects
    <2> QED
        BY <1>1, <2>1, TailJust
<1>5. StampOrNews'
    <2> SUFFICES ASSUME NEW p \in Nodes, NEW k \in Nodes, ~ (p = n /\ k = m)
                 PROVE  table[p][k] \in {Absent, silence[k]} \/ Awaits(inbox'[p], k)
        BY DEF StampOrNews
    <2>1. ASSUME Awaits(inbox[p], k) PROVE Awaits(inbox'[p], k)
        <3>1. PICK t \in News : Contains(inbox[p][t], k)
            BY <2>1 DEF Awaits
        <3>2. t \in Subjects
            BY DEF News, Subjects
        <3>3. Contains(inbox'[p][t], k)
            BY <1>1, <3>1, <3>2, TailContains
        <3> QED
            BY <3>3 DEF Awaits
    <2> QED
        BY <2>1 DEF FreshInv, StampOrNews
<1> QED
    BY <1>2, <1>3, <1>4, <1>5 DEF FreshInv

\* A process that ends; what it said before is under way still.
LEMMA ForgetFresh ==
    ASSUME TypeOK, FreshInv, NEW n \in Nodes, NEW boxes \in Boxes, Forget(n, boxes),
           \A p \in Nodes, s \in News : boxes[p][s] = inbox[p][s],
           \A p \in Nodes, s \in Subjects : phase[p] < Place(s) => boxes[p][s] = <<>>
    PROVE  FreshInv'
<1>1. /\ silence' = silence
      /\ \A p \in Nodes : phase'[p] = IF p = n THEN Down ELSE phase[p]
      /\ \A p, m \in Nodes : table'[p][m] = IF p = n THEN Absent ELSE table[p][m]
      /\ \A p \in Nodes, s \in Subjects : inbox'[p][s] = IF p = n THEN <<>> ELSE boxes[p][s]
    BY DEF Forget, TypeOK, Boxes
<1>2. NoMailBefore' /\ KnowsNobodyBefore'
    BY <1>1 DEF FreshInv, NoMailBefore, KnowsNobodyBefore
<1>3. NewsIsNew'
    BY <1>1 DEF FreshInv, NewsIsNew, Just, News, Subjects
<1>4. StampOrNews'
    BY <1>1 DEF FreshInv, StampOrNews, Awaits, News, Subjects
<1> QED
    BY <1>2, <1>3, <1>4 DEF FreshInv

LEMMA InitFresh == Init => FreshInv
BY DEF Init, FreshInv, NoMailBefore, KnowsNobodyBefore, NewsIsNew, StampOrNews, Just, News, Subjects

LEMMA NextFresh ==
    ASSUME Timely, "lose" \notin Faults, TypeOK, NeverSelf, FreshInv, [Next]_vars
    PROVE  FreshInv'
<1>0. inbox \in Boxes
    BY DEF TypeOK, Boxes
<1>1. ASSUME NEW n \in Nodes, Subscribe(n) PROVE FreshInv'
    <2>1. \A p \in Nodes : phase'[p] = phase[p] \/ phase'[p] = phase[p] + 1
        BY <1>1 DEF Subscribe, TypeOK
    <2>2. ASSUME NEW p \in Nodes, NEW s \in Subjects, phase'[p] < Place(s)
          PROVE  phase[p] < Place(s)
        <3>1. phase[p] \in {0, 1, 2, 3, 4} /\ Place(s) \in {1, 2, 3}
            BY Phases, Places
        <3> QED
            BY <2>1, <2>2, <3>1
    <2>3. UNCHANGED <<table, inbox, silence>>
        BY <1>1 DEF Subscribe
    <2>4. NoMailBefore'
        BY <2>2, <2>3 DEF FreshInv, NoMailBefore
    <2>5. KnowsNobodyBefore'
        BY <2>2, <2>3 DEF FreshInv, KnowsNobodyBefore, Subjects
    <2>6. NewsIsNew' /\ StampOrNews'
        BY <2>3 DEF FreshInv, NewsIsNew, StampOrNews
    <2> QED
        BY <2>4, <2>5, <2>6 DEF FreshInv
<1>2. ASSUME NEW n \in Nodes, Announce(n) PROVE FreshInv'
    <2>1. \A p \in Nodes : phase'[p] = phase[p] \/ (phase[p] = Subscribed /\ phase'[p] = Announced)
        BY <1>2 DEF Announce, TypeOK
    <2>2. /\ inbox' = Publish(inbox, n, "joined") /\ table' = table
          /\ silence' = [silence EXCEPT ![n] = 0] /\ "joined" \in News
        BY <1>2 DEF Announce, News
    <2> QED
        BY <2>1, <2>2, PublishFresh
<1>3. ASSUME NEW n \in Nodes, Heartbeat(n) PROVE FreshInv'
    <2>1. /\ inbox' = Publish(inbox, n, "health") /\ table' = table /\ phase' = phase
          /\ silence' = [silence EXCEPT ![n] = 0] /\ "health" \in News
        BY <1>3 DEF Heartbeat, News
    <2> QED
        BY <2>1, PublishFresh
<1>4. ASSUME NEW n \in Nodes, Stop(n) PROVE FreshInv'
    <2> DEFINE boxes == Publish(inbox, n, "left")
    <2>1. boxes \in Boxes
        BY <1>0, PublishType DEF Subjects
    <2>2. \A p \in Nodes, s \in Subjects :
            boxes[p][s] = inbox[p][s] \/ (s = "left" /\ phase[p] >= Place(s))
        BY <1>0 DEF Publish, Boxes
    <2>3. \A p \in Nodes, s \in Subjects :
            phase[p] \in {0, 1, 2, 3, 4} /\ Place(s) \in {1, 2, 3}
        BY Phases, Places
    <2>4. Forget(n, boxes)
        BY <1>4 DEF Stop
    <2> HIDE DEF boxes
    <2>5. \A p \in Nodes, s \in News : boxes[p][s] = inbox[p][s]
        BY <2>2 DEF News, Subjects
    <2>6. \A p \in Nodes, s \in Subjects : phase[p] < Place(s) => boxes[p][s] = <<>>
        BY <2>2, <2>3 DEF FreshInv, NoMailBefore
    <2> QED
        BY <2>1, <2>4, <2>5, <2>6, ForgetFresh
<1>5. ASSUME NEW n \in Nodes, Crash(n) PROVE FreshInv'
    BY <1>0, <1>5, ForgetFresh DEF Crash, FreshInv, NoMailBefore
<1>6. ASSUME NEW n \in Nodes, HandleHealthCheck(n) PROVE FreshInv'
    <2> DEFINE msg == Head(inbox[n]["health"])
    <2>1. msg \in Message /\ msg.age = 0 /\ silence[msg.from] = 0
        BY <1>0, <1>6, TailJust DEF HandleHealthCheck, FreshInv, NewsIsNew, News, Boxes, Subjects
    <2>2. msg.from \in Nodes
        BY <2>1 DEF Message
    <2>3. table' = IF table[n][msg.from] = Absent THEN table
                   ELSE [table EXCEPT ![n][msg.from] = 0]
        BY <1>6, <2>1 DEF HandleHealthCheck, StampOf
    <2>4. /\ inbox[n]["health"] # <<>> /\ Take(n, "health") /\ phase' = phase /\ silence' = silence
          /\ "health" \in Subjects
        BY <1>6 DEF HandleHealthCheck, Subjects
    <2> DEFINE m == msg.from
    <2>5. /\ \A p, k \in Nodes : table'[p][k] = table[p][k] \/ (p = n /\ k = m)
          /\ table[n][m] = Absent => table'[n][m] = Absent
          /\ table'[n][m] \in {Absent, silence[m]}
        BY <2>1, <2>2, <2>3 DEF TypeOK
    <2> QED
        BY <2>2, <2>4, <2>5, TakeFresh
<1>7. ASSUME NEW n \in Nodes, HandleNodeJoined(n) PROVE FreshInv'
    <2> DEFINE msg == Head(inbox[n]["joined"])
    <2>1. msg \in Message /\ msg.age = 0 /\ silence[msg.from] = 0
        BY <1>0, <1>7, TailJust DEF HandleNodeJoined, FreshInv, NewsIsNew, News, Boxes, Subjects
    <2>2. msg.from \in Nodes
        BY <2>1 DEF Message
    <2>3. table' = IF msg.from = n THEN table ELSE [table EXCEPT ![n][msg.from] = 0]
        BY <1>7, <2>1 DEF HandleNodeJoined, StampOf
    <2>4. /\ inbox[n]["joined"] # <<>> /\ Take(n, "joined") /\ phase' = phase /\ silence' = silence
          /\ "joined" \in Subjects
        BY <1>7 DEF HandleNodeJoined, Subjects
    <2> DEFINE m == msg.from
    <2>5. /\ \A p, k \in Nodes : table'[p][k] = table[p][k] \/ (p = n /\ k = m)
          /\ table'[n][m] \in {Absent, silence[m]}
        BY <2>1, <2>2, <2>3 DEF TypeOK, NeverSelf
    <2> QED
        BY <2>2, <2>4, <2>5, TakeFresh
<1>8. ASSUME NEW n \in Nodes, HandleNodeLeft(n) PROVE FreshInv'
    <2> DEFINE m == Head(inbox[n]["left"]).from
    <2>1. m \in Nodes
        BY <1>0, <1>8, TakeType DEF HandleNodeLeft, Subjects, Message
    <2>2. /\ inbox[n]["left"] # <<>> /\ Take(n, "left") /\ phase' = phase /\ silence' = silence
          /\ "left" \in Subjects
          /\ table' = [table EXCEPT ![n][m] = Absent]
        BY <1>8 DEF HandleNodeLeft, Subjects
    <2>3. /\ \A p, k \in Nodes : table'[p][k] = table[p][k] \/ (p = n /\ k = m)
          /\ table'[n][m] = Absent
        BY <2>1, <2>2 DEF TypeOK
    <2> QED
        BY <2>1, <2>2, <2>3, TakeFresh
<1>9. \A n \in Nodes, s \in Subjects : ~ Lose(n, s)
    BY DEF Lose
<1>10. ASSUME Tick PROVE FreshInv'
    <2>1. \A n \in Nodes, s \in Subjects : inbox[n][s] = <<>>
        BY <1>10 DEF Tick, Quiet
    <2>2. \A n \in Nodes, s \in Subjects : inbox'[n][s] = <<>>
        BY <1>10, <2>1, TickKeepsEmpty
    <2>3. /\ phase' = phase
          /\ \A n, m \in Nodes :
                table'[n][m] = IF table[n][m] = Absent THEN Absent ELSE Older(table[n][m])
          /\ \A m \in Nodes : silence'[m] = Older(silence[m])
        BY <1>10 DEF Tick
    <2>4. \A n, m \in Nodes : table[n][m] \in {Absent, silence[m]}
        BY <2>1 DEF FreshInv, StampOrNews, Awaits, Contains, News, Subjects
    <2>5. NoMailBefore' /\ KnowsNobodyBefore'
        BY <2>2, <2>3 DEF FreshInv, NoMailBefore, KnowsNobodyBefore
    <2>6. NewsIsNew'
        BY <2>2 DEF NewsIsNew, Just, News, Subjects
    <2>7. StampOrNews'
        BY <2>3, <2>4 DEF StampOrNews
    <2> QED
        BY <2>5, <2>6, <2>7 DEF FreshInv
<1>11. CASE UNCHANGED vars
    BY <1>11 DEF FreshInv, NoMailBefore, KnowsNobodyBefore, NewsIsNew, StampOrNews, vars
<1> QED
    BY <1>1, <1>2, <1>3, <1>4, <1>5, <1>6, <1>7, <1>8, <1>9, <1>10, <1>11
    DEF Next, Start, Handle

\* With timely delivery and no message lost, a node that has handled its mail keeps
\* the stamp of the last publication of everybody it knows, across crashes and stops
\* of either.
THEOREM StampsAreFresh ==
    ASSUME Timely, "lose" \notin Faults
    PROVE  Spec => []FreshWhenDrained
<1>1. FreshInv => FreshWhenDrained
    <2> SUFFICES ASSUME FreshInv, NEW n \in Nodes, NEW m \in Nodes,
                        table[n][m] # Absent, ~ Pending(n, m)
                 PROVE  table[n][m] = silence[m]
        BY DEF FreshWhenDrained
    <2>1. ~ Awaits(inbox[n], m)
        <3> SUFFICES ASSUME NEW s \in News, NEW i \in 1 .. Len(inbox[n][s]),
                            inbox[n][s][i].from = m
                     PROVE  FALSE
            BY DEF Awaits, Contains
        <3> QED
            BY DEF Pending, News, Subjects
    <2> QED
        BY <2>1 DEF FreshInv, StampOrNews
<1>2. NeverSelf /\ TypeOK /\ FreshInv /\ [Next]_vars => FreshInv'
    BY NextFresh
<1> QED
    BY <1>1, <1>2, InitFresh, TypeCorrect, LocalNodeListedOnce, PTL DEF Spec

-----------------------------------------------------------------------------
(* So nobody who heartbeats is dropped: a node that is up has published in   *)
(* this tick or, while its heartbeat is due, in the last one.                *)

LiveIsHeard ==
    \A m \in Nodes : phase[m] = Announced => silence[m] <= (IF due[m] THEN 1 ELSE 0)

LEMMA NextLive ==
    ASSUME Timely, TypeOK, LiveIsHeard, [Next]_vars
    PROVE  LiveIsHeard'
<1>1. ASSUME UNCHANGED <<due, silence>>,
             \A m \in Nodes : phase'[m] = Announced => phase[m] = Announced
      PROVE  LiveIsHeard'
    BY <1>1 DEF LiveIsHeard
<1>2. ASSUME NEW n \in Nodes, Announce(n) \/ Heartbeat(n) PROVE LiveIsHeard'
    <2>1. silence' = [silence EXCEPT ![n] = 0]
        BY <1>2 DEF Announce, Heartbeat
    <2>2. \A m \in Nodes : m # n => phase'[m] = phase[m] /\ due'[m] = due[m]
        BY <1>2 DEF Announce, Heartbeat, TypeOK
    <2>3. silence'[n] = 0 /\ \A m \in Nodes : m # n => silence'[m] = silence[m]
        BY <2>1 DEF TypeOK
    <2> QED
        BY <2>2, <2>3 DEF LiveIsHeard
<1>3. ASSUME NEW n \in Nodes, Subscribe(n) PROVE LiveIsHeard'
    <2>1. UNCHANGED <<due, silence>> /\ phase[n] < Subscribed
          /\ phase' = [phase EXCEPT ![n] = phase[n] + 1]
        BY <1>3 DEF Subscribe
    <2>2. phase[n] \in {0, 1, 2, 3, 4}
        BY Phases
    <2>3. phase[n] + 1 # Announced
        BY <2>1, <2>2 DEF Subscribed, Announced
    <2> QED
        BY <1>1, <2>1, <2>3 DEF TypeOK
<1>4. ASSUME NEW n \in Nodes, Stop(n) \/ Crash(n) PROVE LiveIsHeard'
    <2>1. /\ phase' = [phase EXCEPT ![n] = Down] /\ silence' = silence
          /\ due' = [due EXCEPT ![n] = FALSE]
        BY <1>4 DEF Stop, Crash, Forget
    <2>2. phase'[n] # Announced
        BY <2>1 DEF TypeOK, Down, Announced
    <2>3. \A m \in Nodes : m # n => phase'[m] = phase[m] /\ due'[m] = due[m]
        BY <2>1 DEF TypeOK
    <2> QED
        BY <2>1, <2>2, <2>3 DEF LiveIsHeard
<1>5. ASSUME NEW n \in Nodes, Handle(n) \/ (\E s \in Subjects : Lose(n, s)) PROVE LiveIsHeard'
    BY <1>1, <1>5 DEF Handle, HandleHealthCheck, HandleNodeJoined, HandleNodeLeft, Lose
<1>6. CASE Tick
    <2> SUFFICES ASSUME NEW m \in Nodes, phase[m] = Announced
                 PROVE  silence'[m] <= (IF due'[m] THEN 1 ELSE 0)
        BY <1>6 DEF Tick, LiveIsHeard
    <2>1. ~ due[m] /\ due'[m] /\ silence'[m] = Older(silence[m])
        BY <1>6 DEF Tick, Quiet
    <2>2. silence[m] = 0
        BY <2>1 DEF LiveIsHeard, TypeOK, Ages
    <2> QED
        BY <2>1, <2>2, GossipAssumption DEF Older
<1>7. CASE UNCHANGED vars
    BY <1>1, <1>7 DEF vars
<1> QED
    BY <1>2, <1>3, <1>4, <1>5, <1>6, <1>7 DEF Next, Start

\* A peer that is up, that a node knows and of which nothing is under way, is
\* among the active nodes of that node.
KnownLiveIsActive ==
    \A n, m \in Nodes :
        phase[m] = Announced /\ Know(n, m) /\ ~ Pending(n, m) => m \in ActiveNodes(n)

\* The other half of ActiveMeansRecent: with timely delivery, no loss and a TTL of
\* more than one heartbeat (the code has three), GetActiveNodes never leaves out a
\* live peer it knows, whoever crashes or restarts.
THEOREM LivePeersStayActive ==
    ASSUME Timely, "lose" \notin Faults, TTL > 1
    PROVE  Spec => []KnownLiveIsActive
<1>1. Init => LiveIsHeard
    BY DEF Init, LiveIsHeard, Down, Announced
<1>2. TypeOK /\ LiveIsHeard /\ [Next]_vars => LiveIsHeard'
    BY NextLive
<1>3. TypeOK /\ LiveIsHeard /\ FreshWhenDrained => KnownLiveIsActive
    <2> SUFFICES ASSUME TypeOK, LiveIsHeard, FreshWhenDrained, NEW n \in Nodes, NEW m \in Nodes,
                        phase[m] = Announced, Know(n, m), ~ Pending(n, m)
                 PROVE  m \in ActiveNodes(n)
        BY DEF KnownLiveIsActive
    <2>1. table[n][m] = silence[m]
        BY DEF FreshWhenDrained, Know
    <2>2. silence[m] \in Nat /\ silence[m] <= 1
        BY DEF LiveIsHeard, TypeOK, Ages
    <2>3. table[n][m] < TTL
        BY <2>1, <2>2, GossipAssumption
    <2> QED
        BY <2>3 DEF ActiveNodes, IsRecent
<1> QED
    BY <1>1, <1>2, <1>3, TypeCorrect, StampsAreFresh, PTL DEF Spec

-----------------------------------------------------------------------------
(* Who finds whom.  The node of a pair that announces itself last is heard   *)
(* by the other, which has subscribed by then.  Without Left messages and    *)
(* losses nothing undoes that while both are up, timely or not: what is left *)
(* of OneOfTwoKnows is that a waiting Joined is handled.                     *)

HeardOf(n, m) == Know(n, m) \/ Contains(inbox[n]["joined"], m)

NoLeft == \A n \in Nodes : inbox[n]["left"] = <<>>

\* Of two nodes that are up, one knows the other or has its announcement waiting
\* (Start subscribes before it announces, gossip.go).
OneHears ==
    \A n, m \in Nodes :
        n # m /\ phase[n] = Announced /\ phase[m] = Announced => HeardOf(n, m) \/ HeardOf(m, n)

\* What a publication adds to the boxes of a node.
LEMMA PublishBoxes ==
    ASSUME TypeOK, NEW n \in Nodes, NEW s \in Subjects, inbox' = Publish(inbox, n, s),
           NEW p \in Nodes
    PROVE  /\ \A t \in Subjects \ {s} : inbox'[p][t] = inbox[p][t]
           /\ inbox'[p][s] = IF phase[p] >= Place(s)
                             THEN Append(inbox[p][s], [from |-> n, age |-> 0])
                             ELSE inbox[p][s]
BY DEF TypeOK, Publish

\* A node keeps what it has heard unless it ends.
LEMMA HeardIsKept ==
    ASSUME "lose" \notin Faults, "stop" \notin Faults, TypeOK, NeverSelf, NoLeft, [Next]_vars,
           NEW n \in Nodes, NEW m \in Nodes, n # m, ~ Crash(n),
           HeardOf(n, m)
    PROVE  HeardOf(n, m)' /\ (Know(n, m) => Know(n, m)')
<1> DEFINE Goal == HeardOf(n, m)' /\ (Know(n, m) => Know(n, m)')
<1>0. /\ inbox[n]["joined"] \in Seq(Message) /\ "joined" \in Subjects /\ "health" \in Subjects
      /\ \A p \in Nodes : [from |-> p, age |-> 0] \in Message
    BY AbsentFacts DEF TypeOK, Subjects, Message
<1>1. ASSUME table'[n] = table[n], inbox'[n]["joined"] = inbox[n]["joined"] PROVE Goal
    BY <1>1 DEF HeardOf, Know
<1>2. ASSUME NEW p \in Nodes, Announce(p) PROVE Goal
    <2>1. table' = table
        BY <1>2 DEF Announce
    <2>2. \/ inbox'[n]["joined"] = inbox[n]["joined"]
          \/ inbox'[n]["joined"] = Append(inbox[n]["joined"], [from |-> p, age |-> 0])
        BY <1>0, <1>2, PublishBoxes DEF Announce
    <2>3. Contains(inbox[n]["joined"], m)
              => Contains(Append(inbox[n]["joined"], [from |-> p, age |-> 0]), m)
        <3>1. [from |-> p, age |-> 0] \in Message
            BY <1>0
        <3> QED
            BY <1>0, <3>1, AppendContains
    <2>4. Contains(inbox[n]["joined"], m) => Contains(inbox'[n]["joined"], m)
        BY <2>2, <2>3
    <2> QED
        BY <2>1, <2>4 DEF HeardOf, Know
<1>3. ASSUME NEW p \in Nodes, Heartbeat(p) PROVE Goal
    <2>1. table' = table /\ inbox' = Publish(inbox, p, "health")
        BY <1>3 DEF Heartbeat
    <2>2. "joined" \in Subjects \ {"health"}
        BY DEF Subjects
    <2>3. inbox'[n]["joined"] = inbox[n]["joined"]
        BY <1>0, <2>1, <2>2, PublishBoxes
    <2> QED
        BY <1>1, <2>1, <2>3
<1>4. ASSUME NEW p \in Nodes, HandleHealthCheck(p) PROVE Goal
    <2>1. inbox'[n]["joined"] = inbox[n]["joined"]
        BY <1>4 DEF HandleHealthCheck, Take, TypeOK
    <2>2. Head(inbox[p]["health"]) \in Message
        BY <1>0, <1>4, TakeType DEF HandleHealthCheck, TypeOK, Boxes
    <2>3. Know(n, m) => Know(n, m)'
        BY <1>4, <2>2, AbsentFacts DEF HandleHealthCheck, Know, StampOf, Message, TypeOK
    <2> QED
        BY <2>1, <2>3 DEF HeardOf
<1>5. ASSUME NEW p \in Nodes, HandleNodeJoined(p) PROVE Goal
    <2>2. Head(inbox[p]["joined"]) \in Message
        BY <1>0, <1>5, TakeType DEF HandleNodeJoined, TypeOK, Boxes
    <2>3. Know(n, m) => Know(n, m)'
        BY <1>5, <2>2, AbsentFacts DEF HandleNodeJoined, Know, StampOf, Message, TypeOK
    <2>4. CASE p # n
        <3>1. inbox'[n]["joined"] = inbox[n]["joined"]
            BY <1>5, <2>4 DEF HandleNodeJoined, Take, TypeOK
        <3> QED
            BY <2>3, <3>1 DEF HeardOf
    <2>5. CASE p = n
        <3>1. inbox[n]["joined"] # <<>> /\ inbox'[n]["joined"] = Tail(inbox[n]["joined"])
            BY <1>0, <1>5, <2>5 DEF HandleNodeJoined, Take, TypeOK
        <3>2. CASE Head(inbox[n]["joined"]).from = m
            <4>1. table' = [table EXCEPT ![n][m] = Head(inbox[n]["joined"]).age]
                BY <1>5, <2>5, <3>2 DEF HandleNodeJoined, StampOf
            <4>2. table'[n][m] = Head(inbox[n]["joined"]).age
                BY <4>1 DEF TypeOK
            <4>3. Know(n, m)'
                BY <2>2, <2>5, <4>2, AbsentFacts DEF Know, Message
            <4> QED
                BY <4>3 DEF HeardOf
        <3>3. CASE Head(inbox[n]["joined"]).from # m
            <4>1. Contains(inbox[n]["joined"], m) => Contains(inbox'[n]["joined"], m)
                BY <1>0, <3>1, <3>3, TailContains
            <4> QED
                BY <2>3, <4>1 DEF HeardOf
        <3> QED
            BY <3>2, <3>3
    <2> QED
        BY <2>4, <2>5
<1>6. ASSUME NEW p \in Nodes, Crash(p) PROVE Goal
    <2>1. p # n
        BY <1>6
    <2>2. table'[n] = table[n] /\ inbox'[n]["joined"] = inbox[n]["joined"]
        BY <1>6, <2>1 DEF Crash, Forget, TypeOK
    <2> QED
        BY <1>1, <2>2
<1>7. CASE Tick
    <2>1. Know(n, m) => Know(n, m)'
        BY <1>7, AbsentFacts DEF Tick, Know, TypeOK
    <2>2. /\ Len(inbox'[n]["joined"]) = Len(inbox[n]["joined"])
          /\ \A i \in 1 .. Len(inbox[n]["joined"]) :
                inbox'[n]["joined"][i].from = inbox[n]["joined"][i].from
        BY <1>0, <1>7 DEF Tick
    <2>3. Contains(inbox[n]["joined"], m) => Contains(inbox'[n]["joined"], m)
        BY <2>2 DEF Contains
    <2> QED
        BY <2>1, <2>3 DEF HeardOf
<1>8. ASSUME NEW p \in Nodes, Subscribe(p) PROVE Goal
    BY <1>1, <1>8 DEF Subscribe
<1>9. CASE UNCHANGED vars
    BY <1>1, <1>9 DEF vars
<1>10. \A p \in Nodes : ~ Stop(p) /\ ~ HandleNodeLeft(p) /\ \A s \in Subjects : ~ Lose(p, s)
    BY DEF Stop, HandleNodeLeft, Lose, NoLeft
<1> QED
    BY <1>2, <1>3, <1>4, <1>5, <1>6, <1>7, <1>8, <1>9, <1>10 DEF Next, Start, Handle

LEMMA NextNoLeft ==
    ASSUME "lose" \notin Faults, "stop" \notin Faults, TypeOK, NoLeft, [Next]_vars
    PROVE  NoLeft'
<1> SUFFICES ASSUME NEW n \in Nodes PROVE inbox'[n]["left"] = <<>>
    BY DEF NoLeft
<1>0. inbox[n]["left"] = <<>> /\ {"left", "health", "joined"} \subseteq Subjects
    BY DEF NoLeft, Subjects
<1>1. ASSUME NEW p \in Nodes, Announce(p) \/ Heartbeat(p) PROVE inbox'[n]["left"] = <<>>
    <2>1. PICK s \in {"joined", "health"} : inbox' = Publish(inbox, p, s)
        BY <1>1 DEF Announce, Heartbeat
    <2>2. "left" \in Subjects \ {s} /\ s \in Subjects
        BY <1>0
    <2>3. inbox'[n]["left"] = inbox[n]["left"]
        BY <2>1, <2>2, PublishBoxes
    <2> QED
        BY <1>0, <2>3
<1>2. ASSUME NEW p \in Nodes, HandleHealthCheck(p) \/ HandleNodeJoined(p)
      PROVE  inbox'[n]["left"] = <<>>
    <2>1. PICK s \in {"joined", "health"} :
              inbox' = [inbox EXCEPT ![p][s] = Tail(inbox[p][s])]
        BY <1>2 DEF HandleHealthCheck, HandleNodeJoined, Take
    <2>2. s # "left"
        OBVIOUS
    <2>3. inbox'[n]["left"] = inbox[n]["left"]
        BY <1>0, <2>1, <2>2 DEF TypeOK
    <2> QED
        BY <1>0, <2>3
<1>3. ASSUME NEW p \in Nodes, Crash(p) PROVE inbox'[n]["left"] = <<>>
    BY <1>0, <1>3 DEF Crash, Forget, TypeOK
<1>4. CASE Tick
    BY <1>0, <1>4, TickKeepsEmpty
<1>5. ASSUME NEW p \in Nodes, Subscribe(p) PROVE inbox'[n]["left"] = <<>>
    BY <1>0, <1>5 DEF Subscribe
<1>6. CASE UNCHANGED vars
    BY <1>0, <1>6 DEF vars
<1>7. \A p \in Nodes : ~ Stop(p) /\ ~ HandleNodeLeft(p) /\ \A s \in Subjects : ~ Lose(p, s)
    BY DEF Stop, HandleNodeLeft, Lose, NoLeft
<1> QED
    BY <1>1, <1>2, <1>3, <1>4, <1>5, <1>6, <1>7 DEF Next, Start, Handle

LEMMA NextOneHears ==
    ASSUME "lose" \notin Faults, "stop" \notin Faults, TypeOK, NeverSelf, NoLeft, OneHears,
           [Next]_vars
    PROVE  OneHears'
<1> SUFFICES ASSUME NEW n \in Nodes, NEW m \in Nodes, n # m,
                    phase'[n] = Announced, phase'[m] = Announced
             PROVE  HeardOf(n, m)' \/ HeardOf(m, n)'
    BY DEF OneHears
<1>1. \A p \in Nodes : Crash(p) => phase'[p] # Announced
    BY DEF Crash, Forget, TypeOK, Down, Announced
<1>2. CASE phase[n] = Announced /\ phase[m] = Announced
    <2>1. HeardOf(n, m) \/ HeardOf(m, n)
        BY <1>2 DEF OneHears
    <2> QED
        BY <1>1, <2>1, HeardIsKept
<1>3. ASSUME NEW p \in Nodes, NEW q \in Nodes, p # q, phase[p] # Announced,
             phase'[p] = Announced, phase'[q] = Announced
      PROVE  HeardOf(q, p)'
    <2>1. \A k \in Nodes : Subscribe(k) => phase'[k] # Announced
                                       /\ \A j \in Nodes : j # k => phase'[j] = phase[j]
        <3> SUFFICES ASSUME NEW k \in Nodes, Subscribe(k)
                     PROVE  phase'[k] # Announced /\ \A j \in Nodes : j # k => phase'[j] = phase[j]
            OBVIOUS
        <3>1. phase[k] \in {0, 1, 2, 3, 4}
            BY Phases
        <3>2. phase'[k] = phase[k] + 1 /\ phase[k] < Subscribed
            BY DEF Subscribe, TypeOK
        <3> QED
            BY <3>1, <3>2 DEF Subscribe, TypeOK, Subscribed, Announced
    <2>2. PICK k \in Nodes : Announce(k)
        <3>1. \A k \in Nodes : Crash(k) => phase'[k] # Announced
                                       /\ \A j \in Nodes : j # k => phase'[j] = phase[j]
            BY <1>1 DEF Crash, Forget, TypeOK
        <3>2. \A k \in Nodes : Heartbeat(k) \/ Handle(k) \/ (\E s \in Subjects : Lose(k, s))
                => phase' = phase
            BY DEF Heartbeat, Handle, HandleHealthCheck, HandleNodeJoined, HandleNodeLeft, Lose
        <3>3. \A k \in Nodes : ~ Stop(k)
            BY DEF Stop
        <3>4. phase' # phase
            BY <1>3
        <3>5. ~ Tick /\ ~ UNCHANGED vars
            BY <3>4 DEF Tick, vars
        <3> QED
            BY <1>3, <2>1, <3>1, <3>2, <3>3, <3>4, <3>5 DEF Next, Start
    <2>3. k = p /\ phase[q] = Announced
        BY <1>3, <2>2 DEF Announce, TypeOK
    <2>4. /\ [from |-> p, age |-> 0] \in Message /\ "joined" \in Subjects
          /\ inbox[q]["joined"] \in Seq(Message)
        BY AbsentFacts DEF Message, Subjects, TypeOK
    <2>5. inbox'[q]["joined"] = Append(inbox[q]["joined"], [from |-> p, age |-> 0])
        <3>1. inbox' = Publish(inbox, p, "joined")
            BY <2>2, <2>3 DEF Announce
        <3>2. phase[q] >= Place("joined")
            BY <2>3, Places DEF Announced
        <3>3. inbox'[q]["joined"] = IF phase[q] >= Place("joined")
                                    THEN Append(inbox[q]["joined"], [from |-> p, age |-> 0])
                                    ELSE inbox[q]["joined"]
            BY <2>4, <3>1, PublishBoxes
        <3> QED
            BY <3>2, <3>3
    <2>6. Contains(inbox'[q]["joined"], p)
        BY <2>4, <2>5, AppendContains
    <2> QED
        BY <2>6 DEF HeardOf
<1> QED
    BY <1>2, <1>3

\* Membership finds half of every pair: without losses and graceful stops, of any
\* two nodes that are up one knows the other or is about to, in clusters of any
\* size, however late messages are and whoever crashes; and what a node has heard
\* it keeps until it ends.  OneOfTwoKnows is this and that handlers run.
THEOREM OneOfTwoHears ==
    ASSUME "lose" \notin Faults, "stop" \notin Faults
    PROVE  Spec => /\ []OneHears
                   /\ [][\A n, m \in Nodes : Know(n, m) /\ ~ Crash(n) => Know(n, m)']_vars
<1>1. Init => NoLeft /\ OneHears
    BY DEF Init, NoLeft, OneHears, Subjects, Down, Announced
<1>2. TypeOK /\ NoLeft /\ [Next]_vars => NoLeft'
    BY NextNoLeft
<1>3. TypeOK /\ NeverSelf /\ NoLeft /\ OneHears /\ [Next]_vars => OneHears'
    BY NextOneHears
<1>4. TypeOK /\ NeverSelf /\ NoLeft /\ [Next]_vars =>
        [\A n, m \in Nodes : Know(n, m) /\ ~ Crash(n) => Know(n, m)']_vars
    <2> SUFFICES ASSUME TypeOK, NeverSelf, NoLeft, [Next]_vars, NEW n \in Nodes, NEW m \in Nodes,
                        Know(n, m), ~ Crash(n)
                 PROVE  Know(n, m)'
        OBVIOUS
    <2>1. n # m
        BY DEF NeverSelf, Know
    <2> QED
        BY <2>1, HeardIsKept DEF HeardOf
<1> QED
    BY <1>1, <1>2, <1>3, <1>4, TypeCorrect, LocalNodeListedOnce, PTL DEF Spec
=============================================================================
