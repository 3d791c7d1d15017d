------------------------------- MODULE Gossip -------------------------------
(***************************************************************************)
(* Cluster membership: src/internal/fabric/gossip.go (GossipProtocol) with *)
(* the publishers and subscribers of src/internal/fabric/events.go.        *)
(*                                                                         *)
(* A node subscribes to three NATS subjects one after the other, announces *)
(* itself once and then publishes a heartbeat every ten seconds.  It keeps *)
(* a table of the other nodes it has heard join, with the time stamp of    *)
(* the last message about each, and GetActiveNodes lists those whose stamp *)
(* is younger than the TTL of thirty seconds.                              *)
(*                                                                         *)
(* Time: a stamp is represented by its AGE in ticks of ten seconds, which  *)
(* saturates at TTL because only the comparison with TTL matters; a Tick   *)
(* ages every stamp, those in undelivered messages included.  The clocks   *)
(* of the nodes are taken to agree.  NATS keeps the order of one subject   *)
(* and gives every subscription a goroutine of its own, so messages of     *)
(* different subjects overtake each other: one FIFO per node and subject.  *)
(***************************************************************************)
EXTENDS Naturals, Sequences, FiniteSets

CONSTANTS
    Nodes,
    TTL,          \* healthCheckTTL in ticks (3)
    MaxPending,   \* bound: messages of a subject held for one node
    Timely,       \* TRUE: a tick passes only when heartbeats are sent and handled
    Faults        \* "crash": a process dies; "stop": it shuts down; "lose": NATS
                  \* drops a message

ASSUME GossipAssumption ==
    /\ IsFiniteSet(Nodes)
    /\ TTL \in Nat \ {0}
    /\ MaxPending \in Nat \ {0}
    /\ Timely \in BOOLEAN
    /\ Faults \subseteq {"crash", "stop", "lose"}

VARIABLES
    phase,     \* phase[n]: how far Start has come on n (0: the process is down)
    due,       \* due[n]: the channel of n's ticker holds a tick
    table,     \* table[n][m]: age of the LastHeartbeat n keeps for m, or Absent
    inbox,     \* inbox[n][s]: messages of subject s that NATS holds for n
    silence    \* silence[m]: age of the last join or heartbeat m published (history)

vars == <<phase, due, table, inbox, silence>>

Subjects == {"health", "joined", "left"}
Absent   == TTL + 1
Ages     == 0 .. TTL
Message  == [from : Nodes, age : Ages]

\* The three subscriptions and the announcement of Start, in this order.
Down       == 0
Subscribed == 3      \* health, joined and left
Announced  == 4
Place(s)   == CASE s = "health" -> 1 [] s = "joined" -> 2 [] s = "left" -> 3

Init ==
    /\ phase = [n \in Nodes |-> Down]
    /\ due = [n \in Nodes |-> FALSE]
    /\ table = [n \in Nodes |-> [m \in Nodes |-> Absent]]
    /\ inbox = [n \in Nodes |-> [s \in Subjects |-> <<>>]]
    /\ silence = [m \in Nodes |-> TTL]

\* nc.Publish of a message of subject s: one copy for every subscriber, the
\* publisher included; boxes is the state of the inboxes it is added to.
Publish(boxes, n, s) ==
    [p \in Nodes |-> [boxes[p] EXCEPT ![s] =
        IF phase[p] >= Place(s) THEN Append(@, [from |-> n, age |-> 0]) ELSE @]]

\* The bound on what NATS holds.
Room(s) == \A p \in Nodes : Len(inbox[p][s]) < MaxPending

-----------------------------------------------------------------------------
(* Start, heartbeatLoop, Stop. *)

\* The next of the three subscriptions.
Subscribe(n) ==
    /\ phase[n] < Subscribed
    /\ phase' = [phase EXCEPT ![n] = @ + 1]
    /\ UNCHANGED <<due, table, inbox, silence>>

\* PublishNodeJoined; the ticker is created.
Announce(n) ==
    /\ phase[n] = Subscribed /\ Room("joined")
    /\ phase' = [phase EXCEPT ![n] = Announced]
    /\ inbox' = Publish(inbox, n, "joined")
    /\ silence' = [silence EXCEPT ![n] = 0]
    /\ UNCHANGED <<due, table>>

\* heartbeatLoop takes a tick and publishes a health check.
Heartbeat(n) ==
    /\ phase[n] = Announced /\ due[n] /\ Room("health")
    /\ due' = [due EXCEPT ![n] = FALSE]
    /\ inbox' = Publish(inbox, n, "health")
    /\ silence' = [silence EXCEPT ![n] = 0]
    /\ UNCHANGED <<phase, table>>

\* The process ends and forgets: its table, and the messages held for it.
Forget(n, boxes) ==
    /\ phase' = [phase EXCEPT ![n] = Down]
    /\ due' = [due EXCEPT ![n] = FALSE]
    /\ table' = [table EXCEPT ![n] = [m \in Nodes |-> Absent]]
    /\ inbox' = [boxes EXCEPT ![n] = [s \in Subjects |-> <<>>]]
    /\ UNCHANGED silence

\* Stop: PublishNodeLeft, then the process exits.
Stop(n) ==
    /\ "stop" \in Faults
    /\ phase[n] = Announced /\ Room("left")
    /\ Forget(n, Publish(inbox, n, "left"))

Crash(n) ==
    /\ "crash" \in Faults
    /\ phase[n] # Down
    /\ Forget(n, inbox)

-----------------------------------------------------------------------------
(* The subscription handlers. *)

Take(n, s) == inbox' = [inbox EXCEPT ![n][s] = Tail(@)]

\* Mutant of StampOf: the receiver's clock instead of the sender's stamp.
StampOnArrival(msg) == 0

\* event.Timestamp, the stamp the publisher put on the message.
StampOf(msg) == msg.age

\* Mutant of HandleHealthCheck: the stamp is not stored.
HandleHealthCheckUnstamped(n) ==
    /\ inbox[n]["health"] # <<>>
    /\ Take(n, "health")
    /\ UNCHANGED <<phase, due, table, silence>>

\* handleHealthCheck: a node that is not in the table is ignored.
HandleHealthCheck(n) ==
    /\ inbox[n]["health"] # <<>>
    /\ LET msg == Head(inbox[n]["health"])
       IN  table' = IF table[n][msg.from] = Absent THEN table
                    ELSE [table EXCEPT ![n][msg.from] = StampOf(msg)]
    /\ Take(n, "health")
    /\ UNCHANGED <<phase, due, silence>>

\* Mutant of HandleNodeJoined: a node that is not in the table is ignored, as in
\* handleHealthCheck.
HandleNodeJoinedKnown(n) ==
    /\ inbox[n]["joined"] # <<>>
    /\ LET msg == Head(inbox[n]["joined"])
       IN  table' = IF table[n][msg.from] = Absent THEN table
                    ELSE [table EXCEPT ![n][msg.from] = StampOf(msg)]
    /\ Take(n, "joined")
    /\ UNCHANGED <<phase, due, silence>>

\* handleNodeJoined: the own announcement is ignored.
HandleNodeJoined(n) ==
    /\ inbox[n]["joined"] # <<>>
    /\ LET msg == Head(inbox[n]["joined"])
       IN  table' = IF msg.from = n THEN table
                    ELSE [table EXCEPT ![n][msg.from] = StampOf(msg)]
    /\ Take(n, "joined")
    /\ UNCHANGED <<phase, due, silence>>

\* handleNodeLeft.
HandleNodeLeft(n) ==
    /\ inbox[n]["left"] # <<>>
    /\ table' = [table EXCEPT ![n][Head(inbox[n]["left"]).from] = Absent]
    /\ Take(n, "left")
    /\ UNCHANGED <<phase, due, silence>>

\* NATS delivers at most once: a message is lost when a connection drops.
Lose(n, s) ==
    /\ "lose" \in Faults
    /\ inbox[n][s] # <<>>
    /\ Take(n, s)
    /\ UNCHANGED <<phase, due, table, silence>>

-----------------------------------------------------------------------------
(* Time. *)

Older(age) == IF age < TTL THEN age + 1 ELSE TTL

Quiet == \A n \in Nodes : ~ due[n] /\ \A s \in Subjects : inbox[n][s] = <<>>

Tick ==
    /\ Timely => Quiet
    /\ due' = [n \in Nodes |-> phase[n] = Announced]
    /\ table' = [n \in Nodes |-> [m \in Nodes |->
          IF table[n][m] = Absent THEN Absent ELSE Older(table[n][m])]]
    /\ inbox' = [n \in Nodes |-> [s \in Subjects |->
          [i \in 1 .. Len(inbox[n][s]) |->
              [from |-> inbox[n][s][i].from, age |-> Older(inbox[n][s][i].age)]]]]
    /\ silence' = [m \in Nodes |-> Older(silence[m])]
    /\ UNCHANGED phase

Start(n)  == Subscribe(n) \/ Announce(n)
Handle(n) == HandleHealthCheck(n) \/ HandleNodeJoined(n) \/ HandleNodeLeft(n)

Next ==
    \/ \E n \in Nodes :
          \/ Start(n) \/ Heartbeat(n) \/ Stop(n) \/ Crash(n) \/ Handle(n)
          \/ \E s \in Subjects : Lose(n, s)
    \/ Tick

Spec == Init /\ [][Next]_vars

\* Time passes, a heartbeat that is due is sent, every subscription's goroutine
\* handles what arrives, and a Start under way ends.  A process need not start.
Fairness ==
    /\ WF_vars(Tick)
    /\ \A n \in Nodes :
          /\ WF_vars(phase[n] # Down /\ Start(n))
          /\ WF_vars(Heartbeat(n))
          /\ WF_vars(HandleHealthCheck(n))
          /\ WF_vars(HandleNodeJoined(n))
          /\ WF_vars(HandleNodeLeft(n))

FairSpec == Spec /\ Fairness

-----------------------------------------------------------------------------
(* Properties. *)

\* Mutant of IsRecent: every node in the table is active.
IsRecentWhenKnown(age) == age # Absent

\* GetActiveNodes: the local node, and those heard of within the TTL.
IsRecent(age) == age < TTL
ActiveNodes(n) == {n} \cup {m \in Nodes : IsRecent(table[n][m])}

TypeOK ==
    /\ phase \in [Nodes -> Down .. Announced]
    /\ due \in [Nodes -> BOOLEAN]
    /\ table \in [Nodes -> [Nodes -> Ages \cup {Absent}]]
    /\ inbox \in [Nodes -> [Subjects -> Seq(Message)]]
    /\ silence \in [Nodes -> Ages]

\* A node lists itself once: its own id never enters its table, whatever it
\* hears of itself (a list with the node twice would shift every shard).
NeverSelf == \A n \in Nodes : table[n][n] = Absent

\* "GetActiveNodes returns nodes that have sent a heartbeat within the TTL"
\* (gossip.go:196): a node another one lists as active has published within the
\* TTL, however late its messages arrive and in whatever order.
ActiveMeansRecent ==
    \A n, m \in Nodes : n # m /\ m \in ActiveNodes(n) => silence[m] < TTL

\* What makes it so: every stamp of m, in a table or in a message that a handler
\* may still put there, is at least as old as m's last publication.
StampsAreOld ==
    /\ \A n, m \in Nodes : silence[m] <= table[n][m]
    /\ \A n \in Nodes, s \in {"health", "joined"} : \A i \in 1 .. Len(inbox[n][s]) :
          silence[inbox[n][s][i].from] <= inbox[n][s][i].age

Pending(n, m) == \E s \in Subjects : \E i \in DOMAIN inbox[n][s] : inbox[n][s][i].from = m

\* With timely delivery nothing is missed: when n has handled all it was sent
\* of m and knows m, the stamp it keeps is that of m's last publication, so m is
\* active for n as long as it heartbeats.
FreshWhenDrained ==
    \A n, m \in Nodes :
        table[n][m] # Absent /\ ~ Pending(n, m) => table[n][m] = silence[m]

\* A node that is down for good is eventually no node's peer.
DeadIsDropped ==
    \A n, m \in Nodes : n # m =>
        (<>[](phase[m] = Down) => <>[](m \notin ActiveNodes(n)))

Know(n, m) == table[n][m] # Absent

\* Of two nodes that stay up, at least one learns of the other and keeps it.
OneOfTwoKnows ==
    \A n, m \in Nodes : n # m =>
        (<>[](phase[n] = Announced /\ phase[m] = Announced)
            => <>[](Know(n, m) \/ Know(m, n)))

=============================================================================
