--------------------------- MODULE ServiceProofs ----------------------------
(***************************************************************************)
(* Proofs about the two halves of the memory service: Access (policies,    *)
(* roles and audit trail) and Retrieval (the cache over the rows that      *)
(* Conflict changes).                                                      *)
(*                                                                         *)
(* Access, for any nodes, agents and tenants, whether the policies bind or *)
(* not: type correctness, that a missing policy is explained by a process  *)
(* between its two statements or ended there, that a node which starts     *)
(* alone is admitted, that only an empty database is seeded, that a tenant *)
(* without managers stays so, and the audit trail.                         *)
(*                                                                         *)
(* Retrieval, for any memories, depth, callers, capacity and times: that   *)
(* the fresher of two contradicting memories wins, how much a memory can   *)
(* lose (a tenth per comparison that is spent), that the map and the list  *)
(* of the cache name the same keys, each once and no more than its         *)
(* capacity, and that what is scored is boundedly stale (the refinement of *)
(* StaleReads, for which the list does not matter).                        *)
(***************************************************************************)
EXTENDS Access, Retrieval, FiniteSetTheorems, SequenceTheorems, TLAPS

USE AccessAssumption

LEMMA Positions ==
    /\ Position \in [Tables -> 1 .. 4]
    /\ \A t \in Tables : Dropped[Position[t]] = t
    /\ \A i \in 1 .. 4 : Dropped[i] \in Tables /\ Position[Dropped[i]] = i
<1>1. /\ Dropped[1] = "tenants" /\ Dropped[2] = "agents"
      /\ Dropped[3] = "memories" /\ Dropped[4] = "audit_logs"
  BY DEF Dropped
<1>2. \A t \in Tables : \E i \in 1 .. 4 : Dropped[i] = t
  BY <1>1 DEF Tables
<1>3. \A t \in Tables : Position[t] \in 1 .. 4 /\ Dropped[Position[t]] = t
  BY <1>2 DEF Position
<1>4. Position \in [Tables -> 1 .. 4]
  BY <1>3 DEF Position
<1>5. \A i \in 1 .. 4 : Dropped[i] \in Tables
  BY <1>1 DEF Tables
<1>6. \A i, j \in 1 .. 4 : Dropped[i] = Dropped[j] => i = j
  BY <1>1
<1>7. QED  BY <1>3, <1>4, <1>5, <1>6

\* What the phases mean for a node whose record has its type.
LEMMA Records ==
    /\ Down \in BootType /\ Up \in BootType
    /\ Down.phase = "down" /\ Up.phase = "up" /\ ~ Down.alone /\ ~ Up.alone
    /\ NoRequest.stage = "none"
BY DEF Down, Up, BootType, Phases, LastStatement, NoRequest

-----------------------------------------------------------------------------
(* How a step of the start changes boot. *)

LEMMA AdvanceEffect ==
    ASSUME TypeOK, NEW n \in Nodes, Advance(n), boot[n].phase = "policies"
    PROVE  /\ boot' \in [Nodes -> BootType]
           /\ \A k \in Nodes \ {n} : boot'[k] = boot[k]
           /\ boot'[n].alone = boot[n].alone
           /\ \/ /\ boot[n].next < LastStatement
                 /\ boot'[n].phase = "policies" /\ boot'[n].next = boot[n].next + 1
              \/ /\ boot[n].next = LastStatement
                 /\ boot'[n].phase = "count" /\ boot'[n].next = boot[n].next
<1> DEFINE b == IF boot[n].next < LastStatement THEN [boot[n] EXCEPT !.next = boot[n].next + 1]
                                                ELSE [boot[n] EXCEPT !.phase = "count"]
<1>1. boot \in [Nodes -> BootType] /\ boot[n] \in BootType /\ boot[n].next \in 1 .. LastStatement
  BY DEF TypeOK, BootType
<1>2. boot' = [boot EXCEPT ![n] = b]
  BY DEF Advance
<1>3. /\ b \in BootType /\ b.alone = boot[n].alone
      /\ \/ /\ boot[n].next < LastStatement
            /\ b.phase = "policies" /\ b.next = boot[n].next + 1
         \/ boot[n].next = LastStatement /\ b.phase = "count" /\ b.next = boot[n].next
  BY <1>1 DEF BootType, Phases, LastStatement
<1> HIDE DEF b
<1>4. QED  BY <1>1, <1>2, <1>3

\* Begin makes n the only node that may be alone.
LEMMA BeginEffect ==
    ASSUME TypeOK, NEW n \in Nodes, Begin(n)
    PROVE  /\ boot' \in [Nodes -> BootType]
           /\ boot'[n].phase = "policies" /\ boot'[n].next = 1
           /\ boot'[n].alone => \A j \in Nodes : ~ Booting(j)
           /\ \A k \in Nodes \ {n} :
                 /\ boot'[k].phase = boot[k].phase /\ boot'[k].next = boot[k].next
                 /\ boot'[k].alone => boot'[k] = boot[k] /\ ~ Booting(k)
<1> DEFINE new == [phase |-> "policies", next |-> 1, alone |-> \A j \in Nodes : ~ Booting(j)]
           other(k) == IF Booting(k) THEN [boot[k] EXCEPT !.alone = FALSE] ELSE boot[k]
<1>1. boot' = [k \in Nodes |-> IF k = n THEN new ELSE other(k)]
  BY DEF Begin
<1>2. /\ new \in BootType /\ new.phase = "policies" /\ new.next = 1
      /\ new.alone => \A j \in Nodes : ~ Booting(j)
  BY DEF BootType, Phases, LastStatement
<1>3. \A k \in Nodes : /\ other(k) \in BootType
                       /\ other(k).phase = boot[k].phase /\ other(k).next = boot[k].next
                       /\ other(k).alone => other(k) = boot[k] /\ ~ Booting(k)
  BY DEF TypeOK, BootType
<1> HIDE DEF new, other
<1>4. QED  BY <1>1, <1>2, <1>3

\* The end of a process: n is down, nobody else changes.
LEMMA EndEffect ==
    ASSUME TypeOK, NEW n \in Nodes, End(n)
    PROVE  /\ boot' \in [Nodes -> BootType] /\ boot'[n] = Down
           /\ \A k \in Nodes \ {n} : boot'[k] = boot[k]
           /\ request' \in [Agents -> RequestType]
           /\ \A a \in Agents :
                 \/ request'[a] = request[a]
                 \/ request'[a] = NoRequest /\ request[a].stage # "none" /\ request[a].node = n
<1>1. boot' \in [Nodes -> BootType] /\ boot'[n] = Down
      /\ \A k \in Nodes \ {n} : boot'[k] = boot[k]
  BY Records DEF End, TypeOK
<1>2. request' = [a \in Agents |->
          IF request[a].stage # "none" /\ request[a].node = n THEN NoRequest ELSE request[a]]
  BY DEF End
<1>3. request' \in [Agents -> RequestType]
  BY <1>2 DEF TypeOK, RequestType
<1>4. QED  BY <1>1, <1>2, <1>3

\* The count leaves n up, or about to seed.
LEMMA CountEffect ==
    ASSUME TypeOK, NEW n \in Nodes, CountTenants(n)
    PROVE  /\ boot' \in [Nodes -> BootType]
           /\ \A k \in Nodes \ {n} : boot'[k] = boot[k]
           /\ \/ boot'[n] = Up
              \/ /\ boot'[n].phase = "seed" /\ boot'[n].alone = boot[n].alone
                 /\ ~ Open("tenants") \/ tenants = {}
<1> DEFINE b == [boot[n] EXCEPT !.phase = "seed"]
<1>1. b \in BootType /\ b.phase = "seed" /\ b.alone = boot[n].alone
  BY DEF TypeOK, BootType, Phases
<1>2. \/ boot' = [boot EXCEPT ![n] = Up]
      \/ boot' = [boot EXCEPT ![n] = b] /\ (~ Open("tenants") \/ tenants = {})
  BY DEF CountTenants
<1> HIDE DEF b
<1>3. QED  BY <1>1, <1>2, Records DEF TypeOK

\* A request that is admitted, in an idle agent.
LEMMA RequestType1 ==
    ASSUME NEW n \in Nodes, NEW a \in Agents
    PROVE  /\ \A target \in Agents, r \in Requested :
                [stage |-> "set", node |-> n, target |-> target, role |-> r] \in RequestType
           /\ [stage |-> "save", node |-> n] \in RequestType
           /\ [stage |-> "audit", node |-> n] \in RequestType
BY DEF RequestType

\* A request in stage "save" or "audit" has a node, one in stage "set" a target and a role.
LEMMA RequestFields ==
    ASSUME TypeOK, NEW a \in Agents
    PROVE  /\ request[a].stage \in {"none", "set", "save", "audit"}
           /\ request[a].stage = "set" => request[a].target \in Agents /\ request[a].role \in Requested
           /\ request[a].stage = "save" =>
                 [request[a] EXCEPT !.stage = "audit"] \in RequestType
           /\ [request[a] EXCEPT !.stage = "audit"].stage = "audit" \/ request[a].stage = "none"
<1>1. request[a] \in RequestType
  BY DEF TypeOK
<1>2. CASE request[a] = NoRequest
  BY <1>2 DEF NoRequest
<1>3. CASE request[a] \in [stage : {"set"}, node : Nodes, target : Agents, role : Requested]
  BY <1>3
<1>4. CASE request[a] \in [stage : {"save", "audit"}, node : Nodes]
  BY <1>4 DEF RequestType
<1>5. QED  BY <1>1, <1>2, <1>3, <1>4 DEF RequestType

LEMMA NormalRoles == \A r : NormalizeRole(r) \in Roles /\ NormalizeRole(r) # "none"
BY DEF NormalizeRole, Roles

LEMMA InitType == Init => TypeOK
<1> SUFFICES ASSUME Init PROVE TypeOK
  OBVIOUS
<1>1. boot \in [Nodes -> BootType] /\ \A n \in Nodes : boot[n].phase # "policies"
  BY Records DEF Init
<1>2. role \in [Agents -> Roles \cup {"none"}]
  BY DEF Init, Roles
<1>3. tenants \subseteq Tenants /\ request \in [Agents -> RequestType]
  BY DEF Init, RequestType
<1>4. QED  BY <1>1, <1>2, <1>3 DEF Init, TypeOK

LEMMA StepType == TypeOK /\ [Next]_vars => TypeOK'
<1> SUFFICES ASSUME TypeOK, [Next]_vars PROVE TypeOK'
  OBVIOUS
<1>0. CASE UNCHANGED vars
  BY <1>0 DEF vars, schema, rows, trail, TypeOK
<1>1. ASSUME NEW n \in Nodes, Begin(n) PROVE TypeOK'
  <2>1. boot' \in [Nodes -> BootType]
        /\ \A k \in Nodes : boot'[k].phase = "policies" => boot'[k].next > 0
    BY <1>1, BeginEffect DEF TypeOK
  <2>2. QED  BY <1>1, <2>1 DEF Begin, TypeOK, rows, trail
<1>2. ASSUME NEW n \in Nodes, DropPolicy(n) \/ CreatePolicy(n) PROVE TypeOK'
  <2>1. boot' \in [Nodes -> BootType]
        /\ \A k \in Nodes : boot'[k].phase = "policies" => boot'[k].next > 0
    <3>1. Advance(n) /\ boot[n].phase = "policies" /\ boot[n].next \in 1 .. LastStatement
      BY <1>2 DEF DropPolicy, CreatePolicy, TypeOK, BootType
    <3>2. QED  BY <3>1, AdvanceEffect DEF TypeOK, LastStatement
  <2>2. boot[n].next \in 1 .. LastStatement
    BY <1>2 DEF DropPolicy, CreatePolicy, TypeOK, BootType
  <2>3. policy' \subseteq Tables /\ orphaned' \subseteq Tables
    <3>1. CASE DropPolicy(n)
      BY <3>1 DEF DropPolicy, TypeOK
    <3>2. CASE CreatePolicy(n)
      <4>1. Dropped[boot[n].next - 4] \in Tables
        BY <3>2, <2>2, Positions DEF CreatePolicy, LastStatement
      <4>2. QED  BY <3>2, <4>1 DEF CreatePolicy, TypeOK
    <3>3. QED  BY <1>2, <3>1, <3>2
  <2>4. UNCHANGED <<rows, request, trail>>
    BY <1>2 DEF DropPolicy, CreatePolicy
  <2>5. QED  BY <2>1, <2>3, <2>4 DEF TypeOK, rows, trail
<1>3. ASSUME NEW n \in Nodes, CountTenants(n) PROVE TypeOK'
  <2>1. boot' \in [Nodes -> BootType]
        /\ \A k \in Nodes : boot'[k].phase = "policies" => boot'[k].next > 0
    BY <1>3, CountEffect, Records DEF TypeOK
  <2>2. QED  BY <1>3, <2>1 DEF CountTenants, TypeOK, rows, trail
<1>4. ASSUME NEW n \in Nodes, SeedDev(n) PROVE TypeOK'
  <2>1. boot' \in [Nodes -> BootType]
        /\ \A k \in Nodes : boot'[k].phase = "policies" => boot'[k].next > 0
    BY <1>4, Records DEF SeedDev, TypeOK
  <2>2. role' \in [Agents -> Roles \cup {"none"}]
    BY <1>4 DEF SeedDev, TypeOK, Roles
  <2>3. tenants' \subseteq Tenants
    BY <1>4 DEF SeedDev, TypeOK, DevTenant
  <2>4. QED  BY <1>4, <2>1, <2>2, <2>3 DEF SeedDev, TypeOK, trail
<1>5. ASSUME NEW n \in Nodes, Fatal(n) \/ Stop(n) PROVE TypeOK'
  <2>1. End(n)
    BY <1>5 DEF Fatal, Stop
  <2>2. /\ boot' \in [Nodes -> BootType] /\ request' \in [Agents -> RequestType]
        /\ \A k \in Nodes : boot'[k].phase = "policies" => boot'[k].next > 0
    BY <2>1, EndEffect, Records DEF TypeOK
  <2>3. orphaned' \subseteq Tables /\ unaudited' \subseteq Agents
    BY <2>1 DEF End, TypeOK
  <2>4. QED  BY <2>1, <2>2, <2>3 DEF End, TypeOK, rows
<1>6. ASSUME NEW a \in Agents, SetAgentRole(a) PROVE TypeOK'
  <2>1. request[a].target \in Agents
    BY <1>6, RequestFields DEF SetAgentRole
  <2>2. role' \in [Agents -> Roles \cup {"none"}]
    BY <1>6, <2>1, NormalRoles DEF SetAgentRole, TypeOK
  <2>3. request' \in [Agents -> RequestType]
    BY <1>6 DEF SetAgentRole, TypeOK, RequestType
  <2>4. QED  BY <1>6, <2>2, <2>3 DEF SetAgentRole, TypeOK, schema, trail
<1>7. ASSUME NEW a \in Agents, SaveMemory(a) PROVE TypeOK'
  <2>1. request' \in [Agents -> RequestType]
    <3>1. [request[a] EXCEPT !.stage = "audit"] \in RequestType /\ NoRequest \in RequestType
      BY <1>7, RequestFields DEF SaveMemory, RequestType
    <3>2. \/ request' = [request EXCEPT ![a] = NoRequest]
          \/ request' = [request EXCEPT ![a] = [request[a] EXCEPT !.stage = "audit"]]
      BY <1>7 DEF SaveMemory
    <3>3. QED  BY <3>1, <3>2 DEF TypeOK
  <2>2. stored' \subseteq Agents /\ unanswered' \subseteq Agents
    BY <1>7 DEF SaveMemory, TypeOK
  <2>3. QED  BY <1>7, <2>1, <2>2 DEF SaveMemory, TypeOK, schema, rows
<1>8. ASSUME NEW a \in Agents, WriteAuditLog(a) PROVE TypeOK'
  <2>1. request' \in [Agents -> RequestType]
    BY <1>8 DEF WriteAuditLog, TypeOK, RequestType
  <2>2. QED  BY <1>8, <2>1 DEF WriteAuditLog, TypeOK, schema, rows
<1>9. ASSUME NEW n \in Nodes, NEW a \in Agents,
             \/ AskStore(n, a)
             \/ \E target \in Agents, r \in Requested : AskRole(n, a, target, r)
      PROVE TypeOK'
  <2>1. PICK req \in RequestType : Admit(n, a, req)
    BY <1>9, RequestType1 DEF AskStore, AskRole
  <2>2. QED  BY <2>1 DEF Admit, TypeOK, schema, rows, trail
<1>10. QED  BY <1>0, <1>1, <1>2, <1>3, <1>4, <1>5, <1>6, <1>7, <1>8, <1>9
            DEF Next, BootStep, RequestStep

\* The records of policies, starting nodes, roles and requests have their types,
\* for any nodes, agents and tenants.
THEOREM TypeCorrect == Spec => []TypeOK
BY InitType, StepType, PTL DEF Spec

-----------------------------------------------------------------------------
(* Missing policies.  The invariant is inductive with the types. *)

\* A DROP puts its node between the two statements, and takes no other out.
LEMMA DropEffect ==
    ASSUME TypeOK, NEW n \in Nodes, DropPolicy(n), NEW t \in Tables
    PROVE  /\ t \in policy /\ t \notin policy' => Between(n, t)'
           /\ \A k \in Nodes : Between(k, t) => Between(k, t)'
<1>1. /\ Advance(n) /\ boot[n].phase = "policies" /\ boot[n].next \in 1 .. 4
      /\ policy' = policy \ {Dropped[boot[n].next]}
  BY DEF DropPolicy, TypeOK, BootType
<1>2. /\ boot'[n].phase = "policies" /\ boot'[n].next = boot[n].next + 1
      /\ \A k \in Nodes \ {n} : boot'[k] = boot[k]
  BY <1>1, AdvanceEffect DEF LastStatement
<1>3. Position[t] \in 1 .. 4
  BY Positions
<1>4. t = Dropped[boot[n].next] => Position[t] = boot[n].next
  BY <1>1, Positions
<1>5. t \in policy /\ t \notin policy' => Between(n, t)'
  BY <1>1, <1>2, <1>4 DEF Between
<1>6. Between(n, t) => Between(n, t)'
  BY <1>1, <1>2, <1>3 DEF Between
<1>7. \A k \in Nodes \ {n} : Between(k, t) => Between(k, t)'
  BY <1>2 DEF Between
<1>8. QED  BY <1>5, <1>6, <1>7

\* A CREATE takes its node out for its own table only.
LEMMA CreateEffect ==
    ASSUME TypeOK, NEW n \in Nodes, CreatePolicy(n), NEW t \in Tables
    PROVE  \/ t \in policy' /\ t = Dropped[boot[n].next - 4]
           \/ /\ t \in policy' <=> t \in policy
              /\ t \in orphaned' <=> t \in orphaned
              /\ \A k \in Nodes : Between(k, t) => Between(k, t)'
<1>1. /\ Advance(n) /\ boot[n].phase = "policies" /\ boot[n].next \in 5 .. LastStatement
      /\ policy' = policy \cup {Dropped[boot[n].next - 4]}
      /\ orphaned' = orphaned \ {Dropped[boot[n].next - 4]}
  BY DEF CreatePolicy, TypeOK, BootType, LastStatement
<1>2. CASE t = Dropped[boot[n].next - 4]
  BY <1>1, <1>2
<1>3. CASE t # Dropped[boot[n].next - 4]
  <2>1. Position[t] \in 1 .. 4 /\ Dropped[Position[t]] = t
    BY Positions
  <2>2. Position[t] # boot[n].next - 4
    BY <1>3, <2>1
  <2>3. /\ \A k \in Nodes \ {n} : boot'[k] = boot[k]
        /\ \/ boot[n].next = LastStatement
           \/ boot'[n].phase = "policies" /\ boot'[n].next = boot[n].next + 1
    BY <1>1, AdvanceEffect
  <2>4. Between(n, t) => Between(n, t)'
    BY <1>1, <2>1, <2>2, <2>3 DEF Between, LastStatement
  <2>5. \A k \in Nodes : Between(k, t) => Between(k, t)'
    BY <2>3, <2>4 DEF Between
  <2>6. QED  BY <1>1, <1>3, <2>5
<1>4. QED  BY <1>2, <1>3

LEMMA MissingStep ==
    TypeOK /\ MissingPolicyExplained /\ [Next]_vars => MissingPolicyExplained'
<1> SUFFICES ASSUME TypeOK, MissingPolicyExplained, [Next]_vars, NEW t \in Tables,
                    t \notin policy'
             PROVE  t \in orphaned' \/ \E n \in Nodes : Between(n, t)'
  BY DEF MissingPolicyExplained
<1>1. t \notin policy => t \in orphaned \/ \E n \in Nodes : Between(n, t)
  BY DEF MissingPolicyExplained
<1>2. CASE UNCHANGED <<policy, orphaned, boot>>
  BY <1>1, <1>2 DEF Between
<1>3. ASSUME NEW n \in Nodes, Begin(n)
      PROVE  t \in orphaned' \/ \E k \in Nodes : Between(k, t)'
  <2>1. boot[n] = Down /\ UNCHANGED <<policy, orphaned>>
    BY <1>3 DEF Begin
  <2>2. \A k \in Nodes : Between(k, t) => Between(k, t)'
    BY <1>3, <2>1, BeginEffect, Records DEF Between
  <2>3. QED  BY <1>1, <2>1, <2>2
<1>4. ASSUME NEW n \in Nodes, DropPolicy(n)
      PROVE  t \in orphaned' \/ \E k \in Nodes : Between(k, t)'
  BY <1>1, <1>4, DropEffect DEF DropPolicy
<1>5. ASSUME NEW n \in Nodes, CreatePolicy(n)
      PROVE  t \in orphaned' \/ \E k \in Nodes : Between(k, t)'
  BY <1>1, <1>5, CreateEffect
<1>6. ASSUME NEW n \in Nodes, CountTenants(n) \/ SeedDev(n)
      PROVE  t \in orphaned' \/ \E k \in Nodes : Between(k, t)'
  <2>1. /\ UNCHANGED <<policy, orphaned>> /\ boot[n].phase \in {"count", "seed"}
        /\ \A k \in Nodes \ {n} : boot'[k] = boot[k]
    BY <1>6, CountEffect DEF CountTenants, SeedDev, TypeOK
  <2>2. QED  BY <1>1, <2>1 DEF Between
<1>7. ASSUME NEW n \in Nodes, Fatal(n) \/ Stop(n)
      PROVE  t \in orphaned' \/ \E k \in Nodes : Between(k, t)'
  <2>1. End(n)
    BY <1>7 DEF Fatal, Stop
  <2>2. /\ policy' = policy
        /\ orphaned' = orphaned \cup {u \in Tables \ policy : Between(n, u)}
        /\ \A k \in Nodes \ {n} : boot'[k] = boot[k]
    BY <2>1, EndEffect DEF End
  <2>3. QED  BY <1>1, <2>2 DEF Between
<1>8. (\E a \in Agents : RequestStep(a)) \/ UNCHANGED vars => UNCHANGED <<policy, orphaned, boot>>
  BY DEF RequestStep, SetAgentRole, SaveMemory, WriteAuditLog, schema, vars
<1>9. (\E n \in Nodes, a \in Agents :
          \/ AskStore(n, a)
          \/ \E target \in Agents, r \in Requested : AskRole(n, a, target, r))
      => UNCHANGED <<policy, orphaned, boot>>
  BY DEF AskStore, AskRole, Admit, schema
<1>10. QED  BY <1>2, <1>3, <1>4, <1>5, <1>6, <1>7, <1>8, <1>9 DEF Next, BootStep

\* Whatever starts overlap, a policy is missing only between the two statements
\* of a node or after a process ended there.
THEOREM MissingPoliciesAreExplained == Spec => []MissingPolicyExplained
<1>1. Init => MissingPolicyExplained
  BY DEF Init, MissingPolicyExplained
<1>2. QED  BY <1>1, MissingStep, TypeCorrect, PTL DEF Spec

-----------------------------------------------------------------------------
(* A node that starts alone.  Nobody else starts, and what it has dropped and *)
(* not yet created is missing, everything else is there.                     *)

AloneInv ==
    \A n \in Nodes : boot[n].alone =>
        /\ boot[n].phase \in {"policies", "count", "seed"}
        /\ \A k \in Nodes \ {n} : ~ Booting(k)
        /\ boot[n].phase = "policies" =>
              \A t \in Tables :
                  /\ Between(n, t) => t \notin policy
                  /\ Position[t] + 4 < boot[n].next => t \in policy
        /\ boot[n].phase \in {"count", "seed"} => policy = Tables

LEMMA AloneStep == TypeOK /\ AloneInv /\ [Next]_vars => AloneInv'
<1> SUFFICES ASSUME TypeOK, AloneInv, [Next]_vars, NEW m \in Nodes, boot'[m].alone
             PROVE  /\ boot'[m].phase \in {"policies", "count", "seed"}
                    /\ \A k \in Nodes \ {m} : ~ Booting(k)'
                    /\ boot'[m].phase = "policies" =>
                          \A t \in Tables :
                              /\ Between(m, t)' => t \notin policy'
                              /\ Position[t] + 4 < boot'[m].next => t \in policy'
                    /\ boot'[m].phase \in {"count", "seed"} => policy' = Tables
  BY DEF AloneInv
<1> DEFINE Goal ==
      /\ boot'[m].phase \in {"policies", "count", "seed"}
      /\ \A k \in Nodes \ {m} : ~ Booting(k)'
      /\ boot'[m].phase = "policies" =>
            \A t \in Tables :
                /\ Between(m, t)' => t \notin policy'
                /\ Position[t] + 4 < boot'[m].next => t \in policy'
      /\ boot'[m].phase \in {"count", "seed"} => policy' = Tables
<1>1. CASE UNCHANGED <<policy, boot>>
  BY <1>1 DEF AloneInv, Between, Booting
<1>2. ASSUME NEW n \in Nodes, Begin(n) PROVE Goal
  <2>1. CASE m = n
    <3>1. \A k \in Nodes : ~ Booting(k)
      BY <1>2, <2>1, BeginEffect
    <3>2. \A k \in Nodes \ {n} : boot'[k] = boot[k]
      BY <1>2, <3>1 DEF Begin
    <3>3. \A k \in Nodes \ {n} : ~ Booting(k)'
      BY <3>1, <3>2 DEF Booting
    <3>4. boot'[m].phase = "policies" /\ boot'[m].next = 1
      BY <1>2, <2>1, BeginEffect
    <3>5. \A t \in Tables : Position[t] \in 1 .. 4
      BY Positions
    <3>6. \A t \in Tables : ~ Between(m, t)' /\ ~ (Position[t] + 4 < boot'[m].next)
      BY <3>4, <3>5 DEF Between
    <3>7. QED  BY <2>1, <3>3, <3>4, <3>6
  <2>2. CASE m # n
    <3>1. boot'[m] = boot[m] /\ ~ Booting(m)
      BY <1>2, <2>2, BeginEffect
    <3>2. QED  BY <3>1, Records DEF Booting
  <2>3. QED  BY <2>1, <2>2
<1>3. ASSUME NEW n \in Nodes, n # m, boot[n] # Down /\ boot[n] # Up, boot'[m] = boot[m]
      PROVE  FALSE
  BY <1>3 DEF AloneInv, Booting
<1>4. ASSUME NEW n \in Nodes, DropPolicy(n) PROVE Goal
  <2>1. Advance(n) /\ boot[n].phase = "policies" /\ boot[n].next \in 1 .. 4
    BY <1>4 DEF DropPolicy, TypeOK, BootType
  <2>2. m = n
    BY <1>3, <2>1, AdvanceEffect, Records
  <2>3. /\ boot'[m].phase = "policies" /\ boot'[m].next = boot[m].next + 1 /\ boot[m].alone
        /\ \A k \in Nodes \ {m} : boot'[k] = boot[k]
    BY <2>1, <2>2, AdvanceEffect DEF LastStatement
  <2>4. ASSUME NEW t \in Tables
        PROVE  /\ Between(m, t)' => t \notin policy'
               /\ Position[t] + 4 < boot'[m].next => t \in policy'
    <3>1. Position[t] \in 1 .. 4 /\ Dropped[Position[t]] = t
      BY Positions
    <3>2. policy' = policy \ {Dropped[boot[m].next]}
      BY <1>4, <2>2 DEF DropPolicy
    <3>3. Between(m, t) => t \notin policy
      BY <2>1, <2>2, <2>3 DEF AloneInv
    <3>4. Between(m, t)' => Between(m, t) \/ Position[t] = boot[m].next
      BY <2>1, <2>2, <2>3, <3>1 DEF Between
    <3>5. QED  BY <2>1, <2>2, <2>3, <3>1, <3>2, <3>3, <3>4
  <2>5. QED  BY <2>3, <2>4 DEF AloneInv, Booting
<1>5. ASSUME NEW n \in Nodes, CreatePolicy(n) PROVE Goal
  <2>1. Advance(n) /\ boot[n].phase = "policies" /\ boot[n].next \in 5 .. LastStatement
    BY <1>5 DEF CreatePolicy, TypeOK, BootType, LastStatement
  <2>2. m = n
    BY <1>3, <2>1, AdvanceEffect, Records
  <2>3. /\ \/ /\ boot[m].next < LastStatement
              /\ boot'[m].phase = "policies" /\ boot'[m].next = boot[m].next + 1
           \/ boot[m].next = LastStatement /\ boot'[m].phase = "count"
        /\ boot[m].alone
        /\ \A k \in Nodes \ {m} : boot'[k] = boot[k]
    BY <2>1, <2>2, AdvanceEffect
  <2>4. ASSUME NEW t \in Tables
        PROVE  /\ boot'[m].phase = "policies" /\ Between(m, t)' => t \notin policy'
               /\ Position[t] + 4 < boot[m].next + 1 => t \in policy'
    <3>1. Position[t] \in 1 .. 4 /\ Dropped[Position[t]] = t
      BY Positions
    <3>2. /\ policy' = policy \cup {Dropped[boot[m].next - 4]}
          /\ boot[m].next - 4 \in 1 .. 4
      BY <1>5, <2>1, <2>2 DEF CreatePolicy, LastStatement
    <3>3. Position[Dropped[boot[m].next - 4]] = boot[m].next - 4
      BY <3>2, Positions
    <3>4. /\ Between(m, t) => t \notin policy
          /\ Position[t] + 4 < boot[m].next => t \in policy
      BY <2>1, <2>2, <2>3 DEF AloneInv
    <3>5. CASE t = Dropped[boot[m].next - 4]
      BY <2>1, <2>2, <2>3, <3>1, <3>2, <3>3, <3>5 DEF Between, LastStatement
    <3>6. CASE t # Dropped[boot[m].next - 4]
      <4>1. Position[t] # boot[m].next - 4
        BY <3>1, <3>6
      <4>2. boot'[m].phase = "policies" /\ Between(m, t)' => Between(m, t)
        BY <2>1, <2>2, <2>3, <3>1 DEF Between, LastStatement
      <4>3. Position[t] + 4 < boot[m].next + 1 => Position[t] + 4 < boot[m].next
        BY <2>1, <2>2, <3>1, <4>1 DEF LastStatement
      <4>4. QED  BY <3>2, <3>4, <3>6, <4>2, <4>3
    <3>7. QED  BY <3>5, <3>6
  <2>5. boot'[m].phase = "count" => policy' = Tables
    <3>1. policy' \subseteq Tables
      BY <2>1, <2>2, <1>5, Positions DEF CreatePolicy, TypeOK, LastStatement
    <3>2. \A t \in Tables : Position[t] \in 1 .. 4
      BY Positions
    <3>3. boot'[m].phase = "count" => \A t \in Tables : t \in policy'
      BY <2>3, <2>4, <3>2 DEF LastStatement
    <3>4. QED  BY <3>1, <3>3
  <2>6. QED  BY <2>3, <2>4, <2>5 DEF AloneInv, Booting, LastStatement
<1>6. ASSUME NEW n \in Nodes, CountTenants(n) \/ SeedDev(n) PROVE Goal
  <2>1. boot[n].phase \in {"count", "seed"} /\ policy' = policy
    BY <1>6 DEF CountTenants, SeedDev
  <2>2. /\ \A k \in Nodes \ {n} : boot'[k] = boot[k]
        /\ \/ boot'[n] = Up
           \/ boot'[n].phase = "seed" /\ boot'[n].alone = boot[n].alone
    BY <1>6, CountEffect DEF SeedDev, TypeOK
  <2>3. m = n
    BY <1>3, <2>1, <2>2, Records
  <2>4. boot'[m].phase = "seed" /\ boot[m].alone
    BY <2>2, <2>3, Records
  <2>5. QED  BY <2>1, <2>2, <2>3, <2>4 DEF AloneInv, Booting
<1>7. ASSUME NEW n \in Nodes, Fatal(n) \/ Stop(n) PROVE Goal
  <2>1. /\ boot'[n] = Down /\ policy' = policy
        /\ \A k \in Nodes \ {n} : boot'[k] = boot[k]
    BY <1>7, EndEffect DEF Fatal, Stop, End
  <2>2. m # n
    BY <2>1, Records
  <2>3. QED  BY <2>1, <2>2 DEF AloneInv, Booting, Between
<1>8. (\E a \in Agents : RequestStep(a)) \/ UNCHANGED vars => UNCHANGED <<policy, boot>>
  BY DEF RequestStep, SetAgentRole, SaveMemory, WriteAuditLog, schema, vars
<1>9. (\E n \in Nodes, a \in Agents :
          \/ AskStore(n, a)
          \/ \E target \in Agents, r \in Requested : AskRole(n, a, target, r))
      => UNCHANGED <<policy, boot>>
  BY DEF AskStore, AskRole, Admit, schema
<1>10. QED  BY <1>1, <1>2, <1>4, <1>5, <1>6, <1>7, <1>8, <1>9 DEF Next, BootStep

LEMMA AloneRefused == TypeOK /\ AloneInv => AloneIsAdmitted
<1> SUFFICES ASSUME TypeOK, AloneInv, NEW n \in Nodes, Refused(n), boot[n].alone PROVE FALSE
  BY DEF AloneIsAdmitted
<1>1. CASE boot[n].phase = "policies" /\ boot[n].next > 4 /\ Dropped[boot[n].next - 4] \in policy
  <2>1. boot[n].next - 4 \in 1 .. 4
    BY <1>1 DEF TypeOK, BootType, LastStatement
  <2>2. Between(n, Dropped[boot[n].next - 4]) /\ Dropped[boot[n].next - 4] \in Tables
    BY <1>1, <2>1, Positions DEF Between
  <2>3. QED  BY <1>1, <2>2 DEF AloneInv
<1>2. CASE boot[n].phase = "seed" /\ ~ (Open("tenants") /\ Open("agents"))
  BY <1>2 DEF AloneInv, Open, Tables
<1>3. QED  BY <1>1, <1>2 DEF Refused

\* A node that starts while no other does always gets through, whatever earlier
\* processes left behind.
THEOREM AloneGetsThrough == Spec => []AloneIsAdmitted
<1>1. Init => AloneInv
  BY Records DEF Init, AloneInv
<1>2. QED  BY <1>1, AloneStep, AloneRefused, TypeCorrect, PTL DEF Spec

-----------------------------------------------------------------------------
(* The development principal.  Who is about to seed sees an empty database,  *)
(* or no policy; the lock of its transaction keeps it so.                    *)

SeedInv ==
    /\ DevOnlyIfEmpty
    /\ \A n \in Nodes : boot[n].phase = "seed" =>
          tenants \subseteq {DevTenant} \/ ~ Open("tenants")
    /\ DevTenant \in tenants => role[Dev] # "none"

LEMMA SeedStep == TypeOK /\ SeedInv /\ [Next]_vars => SeedInv'
<1> SUFFICES ASSUME TypeOK, SeedInv, [Next]_vars PROVE SeedInv'
  OBVIOUS
<1>1. ASSUME UNCHANGED <<policy, tenants, role>>,
             \A k \in Nodes : boot'[k].phase = "seed" =>
                boot[k].phase = "seed" \/ tenants \subseteq {DevTenant} \/ ~ Open("tenants")
      PROVE  SeedInv'
  BY <1>1 DEF SeedInv, DevOnlyIfEmpty, Open
<1>2. ASSUME NEW n \in Nodes, Begin(n) PROVE SeedInv'
  <2>1. UNCHANGED <<policy, tenants, role>>
    BY <1>2 DEF Begin, rows
  <2>2. \A k \in Nodes : boot'[k].phase = "seed" => boot[k].phase = "seed"
    BY <1>2, BeginEffect
  <2>3. QED  BY <1>1, <2>1, <2>2
<1>3. ASSUME NEW n \in Nodes, DropPolicy(n) \/ CreatePolicy(n) PROVE SeedInv'
  <2>1. UNCHANGED <<tenants, role>> /\ Advance(n) /\ boot[n].phase = "policies"
    BY <1>3 DEF DropPolicy, CreatePolicy, rows
  <2>2. \A k \in Nodes : boot'[k].phase = "seed" => k # n /\ boot[k].phase = "seed"
    BY <2>1, AdvanceEffect
  <2>3. boot[n].next \in 1 .. LastStatement
    BY <2>1 DEF TypeOK, BootType
  <2>4. CASE DropPolicy(n)
    BY <2>1, <2>2, <2>4 DEF DropPolicy, SeedInv, DevOnlyIfEmpty, Open
  <2>5. CASE CreatePolicy(n)
    <3>1. CASE Dropped[boot[n].next - 4] = "tenants"
      <4>1. ~ TenantsLocked(n)
        BY <2>5, <3>1 DEF CreatePolicy
      <4>2. \A k \in Nodes : boot'[k].phase # "seed"
        BY <2>2, <4>1 DEF TenantsLocked
      <4>3. QED  BY <2>1, <4>2 DEF SeedInv, DevOnlyIfEmpty
    <3>2. CASE Dropped[boot[n].next - 4] # "tenants"
      <4>1. Open("tenants")' <=> Open("tenants")
        BY <2>5, <3>2 DEF CreatePolicy, Open
      <4>2. QED  BY <2>1, <2>2, <4>1 DEF SeedInv, DevOnlyIfEmpty
    <3>3. QED  BY <3>1, <3>2
  <2>6. QED  BY <1>3, <2>4, <2>5
<1>4. ASSUME NEW n \in Nodes, CountTenants(n) PROVE SeedInv'
  <2>1. UNCHANGED <<policy, tenants, role>>
    BY <1>4 DEF CountTenants, rows
  <2>2. \A k \in Nodes : boot'[k].phase = "seed" =>
           boot[k].phase = "seed" \/ tenants \subseteq {DevTenant} \/ ~ Open("tenants")
    BY <1>4, CountEffect, Records
  <2>3. QED  BY <1>1, <2>1, <2>2
<1>5. ASSUME NEW n \in Nodes, SeedDev(n) PROVE SeedInv'
  <2>1. tenants \subseteq {DevTenant} /\ tenants' = tenants \cup {DevTenant}
    BY <1>5 DEF SeedDev, SeedInv
  <2>2. role'[Dev] # "none"
    BY <1>5 DEF SeedDev, TypeOK
  <2>3. tenants' = {DevTenant}
    BY <2>1
  <2>4. QED  BY <2>2, <2>3 DEF SeedInv, DevOnlyIfEmpty, DevTenant
<1>6. ASSUME NEW n \in Nodes, Fatal(n) \/ Stop(n) PROVE SeedInv'
  <2>1. UNCHANGED <<policy, tenants, role>>
    BY <1>6 DEF Fatal, Stop, End, rows
  <2>2. \A k \in Nodes : boot'[k].phase = "seed" => boot[k].phase = "seed"
    BY <1>6, EndEffect, Records DEF Fatal, Stop
  <2>3. QED  BY <1>1, <2>1, <2>2
<1>7. ASSUME NEW a \in Agents, SetAgentRole(a) PROVE SeedInv'
  <2>1. UNCHANGED <<policy, boot, tenants>>
    BY <1>7 DEF SetAgentRole, schema
  <2>2. role[Dev] # "none" => role'[Dev] # "none"
    BY <1>7, NormalRoles DEF SetAgentRole, TypeOK
  <2>3. QED  BY <2>1, <2>2 DEF SeedInv, DevOnlyIfEmpty, Open
<1>8. (\E a \in Agents : SaveMemory(a) \/ WriteAuditLog(a)) \/ UNCHANGED vars
      => UNCHANGED <<policy, boot, tenants, role>>
  BY DEF SaveMemory, WriteAuditLog, schema, rows, vars
<1>9. (\E n \in Nodes, a \in Agents :
          \/ AskStore(n, a)
          \/ \E target \in Agents, r \in Requested : AskRole(n, a, target, r))
      => UNCHANGED <<policy, boot, tenants, role>>
  BY DEF AskStore, AskRole, Admit, schema, rows
<1>10. QED  BY <1>1, <1>2, <1>3, <1>4, <1>5, <1>6, <1>7, <1>8, <1>9
            DEF Next, BootStep, RequestStep

LEMMA SeedInit == Init => SeedInv
<1> SUFFICES ASSUME Init PROVE SeedInv
  OBVIOUS
<1>1. \A n \in Nodes : boot[n].phase # "seed"
  BY Records DEF Init
<1>2. DevTenant \notin tenants
  BY DEF Init
<1>3. QED  BY <1>1, <1>2 DEF SeedInv, DevOnlyIfEmpty

LEMMA SeedCorrect == Spec => []SeedInv
BY SeedInit, SeedStep, TypeCorrect, PTL DEF Spec

\* Only an empty database gets the development principal, also where a start of
\* another node makes the tenants invisible to the count.
THEOREM SeedsOnlyEmpty == Spec => []DevOnlyIfEmpty
<1>1. SeedInv => DevOnlyIfEmpty
  BY DEF SeedInv
<1>2. QED  BY <1>1, SeedCorrect, PTL

-----------------------------------------------------------------------------
(* Managers.  A step that makes one is a request of that tenant, or the seeding *)
(* of a tenant that was not there.                                              *)

LEMMA LockedOutStep ==
    ASSUME TypeOK, SeedInv, [Next]_vars, NEW t \in tenants,
           Managers(t) = {}, ~ ManageUnderWay(t)
    PROVE  Managers(t)' = {}
<1>1. CASE UNCHANGED role
  BY <1>1 DEF Managers
<1>2. ASSUME NEW n \in Nodes, SeedDev(n) PROVE Managers(t)' = {}
  <2>1. role' = [role EXCEPT ![Dev] = IF role[Dev] = "none" THEN "owner" ELSE role[Dev]]
    BY <1>2 DEF SeedDev
  <2>2. \A a \in Agents : TenantOf[a] = t => role'[a] = role[a]
    BY <2>1 DEF SeedInv, DevTenant, TypeOK
  <2>3. QED  BY <2>2 DEF Managers
<1>3. ASSUME NEW a \in Agents, SetAgentRole(a) PROVE Managers(t)' = {}
  <2>1. TenantOf[a] # t
    BY <1>3 DEF SetAgentRole, ManageUnderWay
  <2>2. \A b \in Agents : TenantOf[b] = t => role'[b] = role[b]
    BY <1>3, <2>1 DEF SetAgentRole, MaySet, TypeOK
  <2>3. QED  BY <2>2 DEF Managers
<1>4. (\E n \in Nodes : \/ Begin(n) \/ DropPolicy(n) \/ CreatePolicy(n)
                        \/ CountTenants(n) \/ Fatal(n) \/ Stop(n))
      \/ (\E a \in Agents : SaveMemory(a) \/ WriteAuditLog(a)) \/ UNCHANGED vars
      => UNCHANGED role
  BY DEF Begin, DropPolicy, CreatePolicy, CountTenants, Fatal, Stop, End,
         SaveMemory, WriteAuditLog, rows, vars
<1>5. (\E n \in Nodes, a \in Agents :
          \/ AskStore(n, a)
          \/ \E target \in Agents, r \in Requested : AskRole(n, a, target, r))
      => UNCHANGED role
  BY DEF AskStore, AskRole, Admit, rows
<1>6. QED  BY <1>1, <1>2, <1>3, <1>4, <1>5 DEF Next, BootStep, RequestStep

\* A tenant that has lost its managers gets none back, whatever other tenants ask
\* for and whatever restarts.
THEOREM NoManagerFromNothing == Spec => LockedOut
<1>1. TypeOK /\ SeedInv /\ [Next]_vars =>
          [\A t \in tenants :
              Managers(t) = {} /\ ~ ManageUnderWay(t) => Managers(t)' = {}]_vars
  BY LockedOutStep
<1>2. QED  BY <1>1, TypeCorrect, SeedCorrect, PTL DEF Spec, LockedOut

-----------------------------------------------------------------------------
(* The audit trail.  Inductive with three facts more: a memory whose insert was   *)
(* not answered is stored, who is about to write the entry knows that its memory  *)
(* is, and who is about to store it has not.                                      *)

TrailInv ==
    /\ AuditTrail /\ unanswered \subseteq stored
    /\ \A a \in Agents :
          /\ request[a].stage = "audit" => a \in stored \ unanswered
          /\ request[a].stage = "save" => a \notin stored

LEMMA TrailStep == TypeOK /\ TrailInv /\ [Next]_vars => TrailInv'
<1> SUFFICES ASSUME TypeOK, TrailInv, [Next]_vars PROVE TrailInv'
  OBVIOUS
<1>1. CASE UNCHANGED <<request, trail>>
  BY <1>1 DEF TrailInv, AuditTrail, trail
<1>2. ASSUME NEW n \in Nodes, Fatal(n) \/ Stop(n) PROVE TrailInv'
  <2>1. End(n)
    BY <1>2 DEF Fatal, Stop
  <2>2. /\ UNCHANGED <<stored, audited, unanswered>>
        /\ unaudited' = unaudited \cup
              {a \in Agents : request[a].stage = "audit" /\ request[a].node = n}
    BY <2>1 DEF End
  <2>3. \A a \in Agents : \/ request'[a] = request[a]
                          \/ /\ request'[a] = NoRequest
                             /\ request[a].node = n
    BY <2>1, EndEffect
  <2>4. QED  BY <2>2, <2>3, Records DEF TrailInv, AuditTrail, TypeOK
<1>3. ASSUME NEW a \in Agents, SetAgentRole(a) PROVE TrailInv'
  BY <1>3, Records DEF SetAgentRole, TrailInv, AuditTrail, TypeOK, trail
<1>4. ASSUME NEW a \in Agents, SaveMemory(a) PROVE TrailInv'
  <2> DEFINE saved == [request[a] EXCEPT !.stage = "audit"]
  <2>1. saved.stage = "audit" /\ NoRequest.stage \notin {"audit", "save"}
    BY <1>4, RequestFields, Records DEF SaveMemory, NoRequest
  <2>2. /\ UNCHANGED <<audited, unaudited>>
        /\ request[a].stage = "save" /\ a \notin stored /\ a \notin audited
    BY <1>4 DEF SaveMemory, TrailInv, AuditTrail
  <2>3. \/ /\ stored' = stored \cup {a} /\ unanswered' = unanswered
           /\ request' = [request EXCEPT ![a] = saved]
        \/ /\ stored' = stored \cup {a} /\ unanswered' = unanswered \cup {a}
           /\ request' = [request EXCEPT ![a] = NoRequest]
        \/ /\ stored' = stored /\ unanswered' = unanswered
           /\ request' = [request EXCEPT ![a] = NoRequest]
    BY <1>4 DEF SaveMemory
  <2> HIDE DEF saved
  <2>4. /\ \A b \in Agents \ {a} : request'[b] = request[b]
        /\ request'[a] \in {saved, NoRequest}
        /\ request'[a] = saved => stored' = stored \cup {a} /\ unanswered' = unanswered
    <3>1. request \in [Agents -> RequestType] /\ saved # NoRequest
      BY <2>1 DEF TypeOK
    <3>2. QED  BY <2>3, <3>1
  <2>5. AuditTrail'
    <3>1. audited' \subseteq stored' \ unanswered'
      BY <2>2, <2>3 DEF TrailInv, AuditTrail
    <3>2. ASSUME NEW b \in stored', b # a
          PROVE  b \in audited' \cup unaudited' \cup unanswered' \/ request'[b].stage = "audit"
      <4>1. b \in stored /\ b \in Agents
        BY <2>3, <3>2 DEF TypeOK
      <4>2. QED  BY <2>2, <2>3, <2>4, <3>2, <4>1 DEF TrailInv, AuditTrail
    <3>3. a \in stored' => a \in unanswered' \/ request'[a].stage = "audit"
      <4>1. request \in [Agents -> RequestType]
        BY DEF TypeOK
      <4>2. QED  BY <2>1, <2>2, <2>3, <4>1
    <3>4. QED  BY <3>1, <3>2, <3>3 DEF AuditTrail
  <2>6. ASSUME NEW b \in Agents
        PROVE  /\ request'[b].stage = "audit" => b \in stored' \ unanswered'
               /\ request'[b].stage = "save" => b \notin stored'
    <3>1. CASE b = a
      <4>1. a \notin unanswered
        BY <2>2 DEF TrailInv
      <4>2. QED  BY <2>1, <2>4, <3>1, <4>1
    <3>2. CASE b # a
      BY <2>3, <2>4, <3>2 DEF TrailInv
    <3>3. QED  BY <3>1, <3>2
  <2>7. unanswered' \subseteq stored'
    BY <2>3 DEF TrailInv
  <2>8. QED  BY <2>5, <2>6, <2>7 DEF TrailInv
<1>5. ASSUME NEW a \in Agents, WriteAuditLog(a) PROVE TrailInv'
  BY <1>5, Records DEF WriteAuditLog, TrailInv, AuditTrail, TypeOK
<1>6. ASSUME NEW n \in Nodes, NEW a \in Agents, AskStore(n, a) PROVE TrailInv'
  BY <1>6, Records DEF AskStore, Admit, TrailInv, AuditTrail, TypeOK, trail
<1>7. ASSUME NEW n \in Nodes, NEW a \in Agents, NEW target \in Agents, NEW r \in Requested,
             AskRole(n, a, target, r)
      PROVE  TrailInv'
  BY <1>7, Records DEF AskRole, Admit, TrailInv, AuditTrail, TypeOK, trail
<1>8. (\E n \in Nodes : \/ Begin(n) \/ DropPolicy(n) \/ CreatePolicy(n)
                        \/ CountTenants(n) \/ SeedDev(n)) \/ UNCHANGED vars
      => UNCHANGED <<request, trail>>
  BY DEF Begin, DropPolicy, CreatePolicy, CountTenants, SeedDev, vars
<1>9. QED  BY <1>1, <1>2, <1>3, <1>4, <1>5, <1>6, <1>7, <1>8 DEF Next, BootStep, RequestStep

\* No entry without its memory, or of a memory whose client was told that it failed;
\* and no memory without its entry but for a failure or an end between the two
\* transactions, or an insert whose COMMIT was not answered.
THEOREM TrailIsKept == Spec => []AuditTrail
<1>1. Init => TrailInv
  BY Records DEF Init, TrailInv, AuditTrail
<1>2. TrailInv => AuditTrail
  BY DEF TrailInv
<1>3. QED  BY <1>1, <1>2, TrailStep, TypeCorrect, PTL DEF Spec

-----------------------------------------------------------------------------
USE ConflictAssumption, RetrievalAssumption

-----------------------------------------------------------------------------
(* Conflict: types, and the rows in the range of their versions. *)

RowsBounded == \A m \in Memories : importance[m] = Absent \/ importance[m] <= Importance[m]

LEMMA ImportanceType ==
    /\ \A m \in Memories : Importance[m] \in 0 .. 10 /\ Importance[m] # Absent
    /\ Absent = 11
<1>1. Importance \in [Memories -> 0 .. 10]
  BY ConflictAssumption
<1>2. \A m \in Memories : Importance[m] \in 0 .. 10
  BY <1>1
<1>3. QED  BY <1>2 DEF Absent

LEMMA ConflictInitTypes == ConflictInit => ConflictTypeOK /\ RowsBounded
<1>1. SUFFICES ASSUME ConflictInit PROVE ConflictTypeOK /\ RowsBounded
  OBVIOUS
<1>2. importance \in [Memories -> 0 .. Absent] /\ RowsBounded
  BY <1>1 DEF ConflictInit, Absent, RowsBounded
<1>3. task \in [Memories -> [stage : Stages, todo : SUBSET Memories,
                             winner : Memories, loser : Memories]]
  BY <1>1 DEF ConflictInit, NewTask, TaskAt, Stages
<1>4. QED  BY <1>1, <1>2, <1>3 DEF ConflictInit, ConflictTypeOK

LEMMA ContinueType ==
    ASSUME ConflictTypeOK, NEW m \in Memories, NEW stage \in Stages, NEW todo \in SUBSET Memories,
           Continue(m, stage, todo)
    PROVE  task' \in [Memories -> [stage : Stages, todo : SUBSET Memories,
                                   winner : Memories, loser : Memories]]
<1>1. task \in [Memories -> [stage : Stages, todo : SUBSET Memories,
                             winner : Memories, loser : Memories]]
  BY DEF ConflictTypeOK
<1>2. TaskAt(stage, todo, m, m) \in [stage : Stages, todo : SUBSET Memories,
                                     winner : Memories, loser : Memories]
  BY DEF TaskAt
<1>3. QED  BY <1>1, <1>2 DEF Continue

LEMMA LoweredType ==
    ASSUME ConflictTypeOK, RowsBounded, NEW m \in Memories
    PROVE  /\ Lowered(m) \in [Memories -> 0 .. Absent]
           /\ \A k \in Memories : Lowered(m)[k] = Absent \/ Lowered(m)[k] <= Importance[k]
           /\ \A k \in Memories : Lowered(m)[k] = Absent <=> importance[k] = Absent
<1>1. importance \in [Memories -> 0 .. Absent] /\ importance[m] \in 0 .. Absent
  BY DEF ConflictTypeOK
<1>2. CASE importance[m] = Absent
  BY <1>1, <1>2 DEF Lowered, RowsBounded
<1>3. CASE importance[m] # Absent
  <2> DEFINE low == IF importance[m] > 0 THEN importance[m] - 1 ELSE 0
  <2>1. Lowered(m) = [importance EXCEPT ![m] = low]
    BY <1>3 DEF Lowered
  <2>2. importance[m] <= Importance[m] /\ Importance[m] \in 0 .. 10
    BY <1>3, ImportanceType DEF RowsBounded
  <2>3. low \in 0 .. Absent /\ low # Absent /\ low <= Importance[m]
    BY <1>1, <2>2 DEF Absent
  <2>4. \A k \in Memories : Lowered(m)[k] = IF k = m THEN low ELSE importance[k]
    BY <1>1, <2>1
  <2> HIDE DEF low
  <2>5. Lowered(m) \in [Memories -> 0 .. Absent]
    BY <1>1, <2>1, <2>3
  <2>6. QED  BY <1>3, <2>3, <2>4, <2>5 DEF RowsBounded
<1>4. QED  BY <1>2, <1>3

LEMMA ConflictStepTypes ==
    ASSUME ConflictTypeOK, RowsBounded, ConflictNext
    PROVE  ConflictTypeOK' /\ RowsBounded'
<1> DEFINE TaskType == [stage : Stages, todo : SUBSET Memories,
                        winner : Memories, loser : Memories]
<1>0. /\ importance \in [Memories -> 0 .. Absent]
      /\ created \in Orders
      /\ graph \subseteq Memories
      /\ task \in [Memories -> TaskType]
      /\ contradicts \subseteq Memories \X Memories
  BY DEF ConflictTypeOK
<1>1. ASSUME NEW m \in Memories, SaveRow(m) PROVE ConflictTypeOK' /\ RowsBounded'
  <2>1. task' \in [Memories -> TaskType]
    BY <1>1, ContinueType DEF SaveRow, Stages
  <2>2. importance' = [importance EXCEPT ![m] = Importance[m]]
    BY <1>1 DEF SaveRow
  <2>3. Importance[m] \in 0 .. Absent
    BY ImportanceType DEF Absent
  <2>4. importance' \in [Memories -> 0 .. Absent]
    BY <1>0, <2>2, <2>3
  <2>5. \A k \in Memories : importance'[k] = IF k = m THEN Importance[m] ELSE importance[k]
    BY <1>0, <2>2
  <2>6. RowsBounded'
    BY <2>5, ImportanceType DEF RowsBounded
  <2>7. QED  BY <1>0, <1>1, <2>1, <2>4, <2>6 DEF ConflictTypeOK, SaveRow
<1>2. ASSUME NEW m \in Memories, IndexNode(m) PROVE ConflictTypeOK' /\ RowsBounded'
  <2>1. task' \in [Memories -> TaskType]
    BY <1>2, ContinueType DEF IndexNode, Stages
  <2>2. QED  BY <1>0, <1>2, <2>1 DEF ConflictTypeOK, IndexNode, RowsBounded
<1>3. ASSUME NEW m \in Memories, DetectRelated(m) PROVE ConflictTypeOK' /\ RowsBounded'
  <2>1. Related(m) \subseteq Memories
    BY <1>0 DEF Related
  <2>2. \E todo \in SUBSET Memories, stage \in Stages : Continue(m, stage, todo)
    BY <1>3, <2>1 DEF DetectRelated, Stages
  <2>3. task' \in [Memories -> TaskType]
    BY <2>2, ContinueType
  <2>4. QED  BY <1>0, <1>3, <2>3 DEF ConflictTypeOK, DetectRelated, RowsBounded
<1>4. ASSUME NEW m \in Memories, NEW r \in Memories, CompareWith(m, r)
      PROVE ConflictTypeOK' /\ RowsBounded'
  <2>1. task[m].todo \ {r} \in SUBSET Memories
    BY <1>0
  <2>2. task' \in [Memories -> TaskType]
    <3>1. CASE Continue(m, "resolve", task[m].todo \ {r})
      BY <2>1, <3>1, ContinueType DEF Stages
    <3>2. CASE ~ Continue(m, "resolve", task[m].todo \ {r})
      <4> DEFINE t == TaskAt("lower", task[m].todo \ {r}, IF Wins(m, r) THEN m ELSE r,
                             IF Wins(m, r) THEN r ELSE m)
      <4>1. task' = [task EXCEPT ![m] = t]
        BY <1>4, <3>2 DEF CompareWith
      <4>2. t \in TaskType
        BY <2>1 DEF TaskAt, Stages
      <4> HIDE DEF t, TaskType
      <4>3. QED  BY <1>0, <4>1, <4>2
    <3>3. QED  BY <3>1, <3>2
  <2>3. QED  BY <1>0, <1>4, <2>2 DEF ConflictTypeOK, CompareWith, RowsBounded
<1>5. ASSUME NEW m \in Memories, LowerLoser(m) PROVE ConflictTypeOK' /\ RowsBounded'
  <2>1. task' = [task EXCEPT ![m].stage = "mark"]
    BY <1>5 DEF LowerLoser
  <2>2. task' \in [Memories -> TaskType]
    <3> DEFINE t == [task[m] EXCEPT !.stage = "mark"]
    <3>1. task[m] \in TaskType
      BY <1>0
    <3>2. t \in TaskType
      BY <3>1 DEF Stages
    <3>3. task' = [task EXCEPT ![m] = t]
      BY <1>0, <2>1
    <3> HIDE DEF t, TaskType
    <3>4. QED  BY <1>0, <3>2, <3>3
  <2>3. task[m].loser \in Memories
    BY <1>0
  <2>4. importance' \in [Memories -> 0 .. Absent] /\ RowsBounded'
    BY <1>0, <1>5, <2>3, LoweredType DEF LowerLoser, RowsBounded
  <2>5. QED  BY <1>0, <1>5, <2>2, <2>4 DEF ConflictTypeOK, LowerLoser
<1>6. ASSUME NEW m \in Memories, MarkConflict(m) PROVE ConflictTypeOK' /\ RowsBounded'
  <2>1. task[m].todo \in SUBSET Memories /\ task[m].winner \in Memories /\ task[m].loser \in Memories
    BY <1>0
  <2>2. task' \in [Memories -> TaskType]
    BY <1>6, <2>1, ContinueType DEF MarkConflict, Stages
  <2>3. QED  BY <1>0, <1>6, <2>1, <2>2 DEF ConflictTypeOK, MarkConflict, RowsBounded
<1>7. ASSUME NEW m \in Memories, FinishTask(m) \/ AbandonTask(m)
      PROVE ConflictTypeOK' /\ RowsBounded'
  <2>1. task' \in [Memories -> TaskType]
    BY <1>7, ContinueType DEF FinishTask, AbandonTask, Stages
  <2>2. QED  BY <1>0, <1>7, <2>1 DEF ConflictTypeOK, FinishTask, AbandonTask, RowsBounded
<1>8. ASSUME NEW m \in Memories, DeleteByAge(m) PROVE ConflictTypeOK' /\ RowsBounded'
  <2>1. importance' = [importance EXCEPT ![m] = Absent] /\ Absent \in 0 .. Absent
    BY <1>8 DEF DeleteByAge, Absent
  <2>2. importance' \in [Memories -> 0 .. Absent]
    BY <1>0, <2>1
  <2>3. \A k \in Memories : importance'[k] = IF k = m THEN Absent ELSE importance[k]
    BY <1>0, <2>1
  <2>4. RowsBounded'
    BY <2>3 DEF RowsBounded
  <2>5. QED  BY <1>0, <1>8, <2>2, <2>4 DEF ConflictTypeOK, DeleteByAge
<1>9. QED
  BY <1>1, <1>2, <1>3, <1>4, <1>5, <1>6, <1>7, <1>8 DEF ConflictNext, TaskStep

-----------------------------------------------------------------------------
(* Conflict: what a step of the task of m leaves of the other tasks. *)

LEMMA ConflictCases ==
    ASSUME ConflictTypeOK, ConflictNext
    PROVE  \E m \in Memories :
              /\ \A k \in Memories \ {m} : task'[k] = task[k]
              /\ TaskStep(m) \/ DeleteByAge(m)
<1>1. PICK m \in Memories : TaskStep(m) \/ DeleteByAge(m)
  BY DEF ConflictNext
<1>2. task \in [Memories -> [stage : Stages, todo : SUBSET Memories,
                             winner : Memories, loser : Memories]]
  BY DEF ConflictTypeOK
<1>3. \A k \in Memories \ {m} : task'[k] = task[k]
  BY <1>1, <1>2 DEF TaskStep, DeleteByAge, SaveRow, IndexNode, DetectRelated, CompareWith,
                   LowerLoser, MarkConflict, FinishTask, AbandonTask, Continue
<1>4. QED  BY <1>1, <1>3

LEMMA ContinueIs ==
    ASSUME ConflictTypeOK, NEW m \in Memories, NEW stage, NEW todo, Continue(m, stage, todo)
    PROVE  /\ task'[m] = TaskAt(stage, todo, m, m)
           /\ task'[m].stage = stage /\ task'[m].todo = todo
           /\ task'[m].winner = m /\ task'[m].loser = m
<1>1. task \in [Memories -> [stage : Stages, todo : SUBSET Memories,
                             winner : Memories, loser : Memories]]
  BY DEF ConflictTypeOK
<1>2. QED  BY <1>1 DEF Continue, TaskAt

-----------------------------------------------------------------------------
(* Conflict: freshness. *)

Resolving(m) == task[m].stage \in {"lower", "mark"}

FreshnessInv ==
    /\ \A m \in Memories : Resolving(m) => created[task[m].winner] >= created[task[m].loser]
    /\ FreshnessWins

LEMMA FreshnessStep ==
    ASSUME ConflictTypeOK, FreshnessInv, ConflictNext
    PROVE  FreshnessInv'
<1>0. /\ created \in [Memories -> Nat] /\ created' = created
      /\ contradicts \subseteq Memories \X Memories
      /\ \A k \in Memories : task[k].winner \in Memories /\ task[k].loser \in Memories
      /\ task \in [Memories -> [stage : Stages, todo : SUBSET Memories,
                                winner : Memories, loser : Memories]]
  BY ConflictAssumption
     DEF ConflictTypeOK, ConflictNext, TaskStep, DeleteByAge, SaveRow, IndexNode, DetectRelated,
         CompareWith, LowerLoser, MarkConflict, FinishTask, AbandonTask
<1>1. PICK m \in Memories : /\ \A k \in Memories \ {m} : task'[k] = task[k]
                            /\ TaskStep(m) \/ DeleteByAge(m)
  BY ConflictCases
<1>2. SUFFICES /\ Resolving(m)' => created[task'[m].winner] >= created[task'[m].loser]
               /\ FreshnessWins'
  BY <1>0, <1>1 DEF FreshnessInv, Resolving
<1>3. CASE SaveRow(m)
  BY <1>0, <1>3, ContinueIs DEF SaveRow, FreshnessInv, FreshnessWins, Resolving
<1>4. CASE IndexNode(m)
  BY <1>0, <1>4, ContinueIs DEF IndexNode, FreshnessInv, FreshnessWins, Resolving
<1>5. CASE DetectRelated(m)
  <2>1. task'[m].stage \in {"resolve", "done"}
    BY <1>5, ContinueIs DEF DetectRelated
  <2>2. QED  BY <1>0, <1>5, <2>1 DEF DetectRelated, FreshnessInv, FreshnessWins, Resolving
<1>6. ASSUME NEW r \in Memories, CompareWith(m, r)
      PROVE  /\ Resolving(m)' => created[task'[m].winner] >= created[task'[m].loser]
             /\ FreshnessWins'
  <2>1. contradicts' = contradicts
    BY <1>6 DEF CompareWith
  <2>2. CASE Continue(m, "resolve", task[m].todo \ {r})
    BY <1>0, <2>1, <2>2, ContinueIs DEF FreshnessInv, FreshnessWins, Resolving
  <2>3. CASE ~ Continue(m, "resolve", task[m].todo \ {r})
    <3>1. task'[m] = TaskAt("lower", task[m].todo \ {r}, IF Wins(m, r) THEN m ELSE r,
                            IF Wins(m, r) THEN r ELSE m)
      BY <1>0, <1>6, <2>3 DEF CompareWith
    <3>2. /\ Wins(m, r) => task'[m].winner = m /\ task'[m].loser = r
          /\ ~ Wins(m, r) => task'[m].winner = r /\ task'[m].loser = m
      BY <3>1 DEF TaskAt
    <3>3. created[m] \in Nat /\ created[r] \in Nat
      BY <1>0
    <3>4. CASE Wins(m, r)
      BY <1>0, <2>1, <3>2, <3>3, <3>4 DEF Wins, FreshnessInv, FreshnessWins
    <3>5. CASE ~ Wins(m, r)
      BY <1>0, <2>1, <3>2, <3>3, <3>5 DEF Wins, FreshnessInv, FreshnessWins
    <3>6. QED  BY <3>4, <3>5
  <2>4. QED  BY <2>2, <2>3
<1>7. CASE LowerLoser(m)
  <2>1. task'[m].winner = task[m].winner /\ task'[m].loser = task[m].loser
    BY <1>0, <1>7 DEF LowerLoser
  <2>2. QED  BY <1>0, <1>7, <2>1 DEF LowerLoser, FreshnessInv, FreshnessWins, Resolving
<1>8. CASE MarkConflict(m)
  <2>1. task'[m].stage = "resolve"
    BY <1>8, ContinueIs DEF MarkConflict
  <2>2. contradicts' \subseteq contradicts \cup {<<task[m].winner, task[m].loser>>}
    BY <1>8 DEF MarkConflict
  <2>3. created[task[m].winner] >= created[task[m].loser]
    BY <1>8 DEF MarkConflict, FreshnessInv, Resolving
  <2>4. QED  BY <1>0, <2>1, <2>2, <2>3 DEF FreshnessInv, FreshnessWins, Resolving
<1>9. CASE FinishTask(m) \/ AbandonTask(m)
  BY <1>0, <1>9, ContinueIs DEF FinishTask, AbandonTask, FreshnessInv, FreshnessWins, Resolving
<1>10. CASE DeleteByAge(m)
  BY <1>0, <1>10 DEF DeleteByAge, FreshnessInv, FreshnessWins, Resolving
<1>11. QED
  BY <1>1, <1>3, <1>4, <1>5, <1>6, <1>7, <1>8, <1>9, <1>10 DEF TaskStep

-----------------------------------------------------------------------------
(* Conflict: how much a memory can lose. *)

LEMMA RivalsDiffer == \A a, b \in Memories : {a, b} \in Rivals => a # b
<1> SUFFICES ASSUME NEW a \in Memories, NEW b \in Memories, {a, b} \in Rivals, a = b
             PROVE  FALSE
  OBVIOUS
<1>1. PICK x, y \in Memories : x # y /\ {a, b} = {x, y}
  BY ConflictAssumption
<1>2. QED  BY <1>1

\* The task of a is about its memory and b.
Facing(a, b) ==
    \/ task[a].winner = a /\ task[a].loser = b
    \/ task[a].winner = b /\ task[a].loser = a

\* The task of t has dealt with its rival x, as far as the importance goes.
Dealt(t, x) ==
    /\ task[t].stage \notin {"new", "index", "detect"}
    /\ task[t].stage = "done" \/ x \notin task[t].todo
    /\ ~ (task[t].stage = "lower" /\ Facing(t, x))

NotOlder(m) == {r \in Memories : {m, r} \in Rivals /\ created[r] >= created[m]}

\* The comparisons <<task, rival>> that m can lose, and those that are behind it.
Contests(m) == ({m} \X NotOlder(m)) \cup (NotOlder(m) \X {m})

Spent(m) == {p \in Contests(m) : Dealt(p[1], p[2])}

Lowering(t) ==
    \E x \in Memories : {t, x} \in Rivals /\ x \notin task[t].todo /\ Facing(t, x)

\* A tenth is lost only for a comparison that is spent, and none is spent twice.
Paid(m) == importance[m] # Absent =>
    Importance[m] - importance[m] <= Cardinality(Spent(m))

LossInv ==
    /\ \A t \in Memories : task[t].stage = "lower" => Lowering(t)
    /\ \A m \in Memories : Paid(m)

LEMMA ContestsCount ==
    ASSUME NEW m \in Memories
    PROVE  /\ IsFiniteSet(NotOlder(m)) /\ Cardinality(NotOlder(m)) \in Nat
           /\ IsFiniteSet(Contests(m)) /\ Cardinality(Contests(m)) \in Nat
           /\ Cardinality(Contests(m)) <= 2 * Cardinality(NotOlder(m))
<1> DEFINE R == NotOlder(m)
           A == {m} \X R
           B == R \X {m}
<1>1. R \in SUBSET Memories /\ IsFiniteSet(Memories)
  BY ConflictAssumption DEF NotOlder
<1>2. IsFiniteSet(R) /\ Cardinality(R) \in Nat
  BY <1>1, FS_Subset, FS_CardinalityType
<1>3. IsFiniteSet({m}) /\ Cardinality({m}) = 1
  BY FS_Singleton
<1> HIDE DEF R
<1>4. /\ IsFiniteSet(A) /\ Cardinality(A) = 1 * Cardinality(R)
      /\ IsFiniteSet(B) /\ Cardinality(B) = Cardinality(R) * 1
  BY <1>2, <1>3, FS_Product
<1>5. Cardinality(A) = Cardinality(R) /\ Cardinality(B) = Cardinality(R)
  BY <1>2, <1>4
<1> HIDE DEF A, B
<1>6. /\ IsFiniteSet(A \cup B)
      /\ Cardinality(A \cup B) = Cardinality(A) + Cardinality(B) - Cardinality(A \cap B)
  BY <1>4, FS_Union
<1>7. Cardinality(A \cap B) \in Nat
  <2>1. A \cap B \in SUBSET A
    OBVIOUS
  <2>2. QED  BY <1>4, <2>1, FS_Subset, FS_CardinalityType
<1>8. Cardinality(A \cup B) \in Nat /\ Cardinality(A \cup B) <= 2 * Cardinality(R)
  BY <1>2, <1>5, <1>6, <1>7, FS_CardinalityType
<1>9. Contests(m) = A \cup B
  BY DEF Contests, A, B, R
<1>10. QED  BY <1>2, <1>6, <1>8, <1>9 DEF R

LEMMA SpentCount ==
    ASSUME NEW m \in Memories
    PROVE  /\ IsFiniteSet(Spent(m)) /\ Cardinality(Spent(m)) \in Nat
           /\ Cardinality(Spent(m)) <= Cardinality(Contests(m))
<1>1. Spent(m) \in SUBSET Contests(m)
  BY DEF Spent
<1>2. QED  BY <1>1, ContestsCount, FS_Subset, FS_CardinalityType

LEMMA LossImplies ==
    ASSUME ConflictTypeOK, LossInv
    PROVE  LossIsBounded
<1>1. SUFFICES ASSUME NEW m \in Memories, importance[m] # Absent
               PROVE  Importance[m] - importance[m] <= 2 * Cardinality(NotOlder(m))
  BY DEF LossIsBounded, NotOlder
<1>2. Importance[m] - importance[m] <= Cardinality(Spent(m))
  BY <1>1 DEF LossInv, Paid
<1>3. importance[m] \in Int /\ Importance[m] \in Int
  <2>1. importance[m] \in 0 .. 11 /\ Importance[m] \in 0 .. 10
    BY ImportanceType DEF ConflictTypeOK
  <2>2. QED  BY <2>1
<1>4. QED  BY <1>2, <1>3, SpentCount, ContestsCount

\* What a task has dealt with stays dealt with.
LEMMA DealtStays ==
    ASSUME ConflictTypeOK, NEW t \in Memories, TaskStep(t), NEW x \in Memories, Dealt(t, x)
    PROVE  Dealt(t, x)'
<1>0. task \in [Memories -> [stage : Stages, todo : SUBSET Memories,
                             winner : Memories, loser : Memories]]
  BY DEF ConflictTypeOK
<1>1. ASSUME NEW stage \in {"resolve", "done"}, NEW todo \in SUBSET task[t].todo,
             Continue(t, stage, todo), task[t].stage # "done"
      PROVE  Dealt(t, x)'
  <2>1. task'[t].stage = stage /\ task'[t].todo = todo
    BY <1>1, ContinueIs
  <2>2. x \notin task[t].todo
    BY <1>1 DEF Dealt
  <2>3. QED  BY <1>1, <2>1, <2>2 DEF Dealt
<1>2. CASE SaveRow(t) \/ IndexNode(t) \/ DetectRelated(t)
  BY <1>2 DEF SaveRow, IndexNode, DetectRelated, Dealt
<1>3. ASSUME NEW r \in Memories, CompareWith(t, r) PROVE Dealt(t, x)'
  <2>1. task[t].stage = "resolve" /\ r \in task[t].todo /\ x \notin task[t].todo /\ x # r
    BY <1>3 DEF CompareWith, Dealt
  <2>2. CASE Continue(t, "resolve", task[t].todo \ {r})
    BY <1>1, <2>1, <2>2
  <2>3. CASE ~ Continue(t, "resolve", task[t].todo \ {r})
    <3>1. /\ task'[t] = TaskAt("lower", task[t].todo \ {r}, IF Wins(t, r) THEN t ELSE r,
                               IF Wins(t, r) THEN r ELSE t)
          /\ {t, r} \in Rivals
      BY <1>0, <1>3, <2>3 DEF CompareWith
    <3>2. /\ task'[t].stage = "lower" /\ task'[t].todo = task[t].todo \ {r}
          /\ \/ task'[t].winner = t /\ task'[t].loser = r
             \/ task'[t].winner = r /\ task'[t].loser = t
      BY <3>1 DEF TaskAt
    <3>3. t # r
      BY <3>1, RivalsDiffer
    <3>4. ~ Facing(t, x)'
      BY <2>1, <3>2, <3>3 DEF Facing
    <3>5. QED  BY <2>1, <3>2, <3>4 DEF Dealt
  <2>4. QED  BY <2>2, <2>3
<1>4. CASE LowerLoser(t)
  <2>1. task'[t].stage = "mark" /\ task'[t].todo = task[t].todo /\ task[t].stage = "lower"
    BY <1>0, <1>4 DEF LowerLoser
  <2>2. QED  BY <2>1 DEF Dealt
<1>5. CASE MarkConflict(t)
  BY <1>1, <1>5 DEF MarkConflict
<1>6. CASE FinishTask(t) \/ AbandonTask(t)
  BY <1>1, <1>6 DEF FinishTask, AbandonTask
<1>7. QED  BY <1>2, <1>3, <1>4, <1>5, <1>6 DEF TaskStep

\* No step takes a comparison out of those that are spent.
LEMMA SpentGrows ==
    ASSUME ConflictTypeOK, ConflictNext, NEW m \in Memories
    PROVE  /\ Contests(m)' = Contests(m) /\ Spent(m) \subseteq Spent(m)'
           /\ IsFiniteSet(Spent(m)') /\ Cardinality(Spent(m)') \in Nat
           /\ Cardinality(Spent(m)) <= Cardinality(Spent(m)')
<1>1. created' = created
  BY DEF ConflictNext, TaskStep, DeleteByAge, SaveRow, IndexNode, DetectRelated,
         CompareWith, LowerLoser, MarkConflict, FinishTask, AbandonTask
<1>2. Contests(m)' = Contests(m)
  BY <1>1 DEF Contests, NotOlder
<1>3. PICK t \in Memories : /\ \A k \in Memories \ {t} : task'[k] = task[k]
                            /\ TaskStep(t) \/ DeleteByAge(t)
  BY ConflictCases
<1>4. ASSUME NEW s \in Memories, NEW x \in Memories, Dealt(s, x) PROVE Dealt(s, x)'
  <2>1. CASE task'[s] = task[s]
    BY <1>4, <2>1 DEF Dealt, Facing
  <2>2. CASE task'[s] # task[s]
    <3>1. s = t
      BY <1>3, <2>2
    <3>2. TaskStep(t)
      BY <1>3, <2>2 DEF DeleteByAge
    <3>3. QED  BY <1>4, <3>1, <3>2, DealtStays
  <2>3. QED  BY <2>1, <2>2
<1>5. \A p \in Contests(m) : p[1] \in Memories /\ p[2] \in Memories
  BY DEF Contests, NotOlder
<1>6. Spent(m) \subseteq Spent(m)'
  BY <1>2, <1>4, <1>5 DEF Spent
<1>7. Spent(m)' \in SUBSET Contests(m)
  BY <1>2 DEF Spent
<1>8. IsFiniteSet(Spent(m)') /\ Cardinality(Spent(m)') \in Nat
  BY <1>7, ContestsCount, FS_Subset, FS_CardinalityType
<1>9. QED  BY <1>2, <1>6, <1>8, FS_Subset

\* Where a memory is lowered, a comparison that was open becomes spent.
LEMMA LoserSpends ==
    ASSUME ConflictTypeOK, FreshnessInv, LossInv, NEW t \in Memories, LowerLoser(t),
           NEW m \in Memories, m = task[t].loser
    PROVE  Cardinality(Spent(m)) + 1 <= Cardinality(Spent(m)')
<1>0. /\ task \in [Memories -> [stage : Stages, todo : SUBSET Memories,
                                winner : Memories, loser : Memories]]
      /\ task[t].stage = "lower" /\ created' = created
  BY DEF ConflictTypeOK, LowerLoser
<1>1. PICK x \in Memories : {t, x} \in Rivals /\ x \notin task[t].todo /\ Facing(t, x)
  BY <1>0 DEF LossInv, Lowering
<1>2. created[task[t].winner] >= created[m]
  BY <1>0 DEF FreshnessInv, Resolving
<1>3. <<t, x>> \in Contests(m)
  <2>1. CASE task[t].winner = t /\ m = x
    <3>1. {m, t} \in Rivals
      <4>1. {m, t} = {t, x}
        BY <2>1
      <4>2. QED  BY <1>1, <4>1
    <3>2. t \in NotOlder(m)
      BY <1>2, <2>1, <3>1 DEF NotOlder
    <3>3. QED  BY <2>1, <3>2 DEF Contests
  <2>2. CASE task[t].winner = x /\ m = t
    <3>1. x \in NotOlder(m)
      BY <1>1, <1>2, <2>2 DEF NotOlder
    <3>2. QED  BY <2>2, <3>1 DEF Contests
  <2>3. QED  BY <1>1, <2>1, <2>2 DEF Facing
<1>4. <<t, x>> \notin Spent(m)
  BY <1>0, <1>1 DEF Spent, Dealt
<1>5. ConflictNext
  BY DEF ConflictNext, TaskStep
<1>6. <<t, x>> \in Spent(m)'
  <2>1. task' = [task EXCEPT ![t].stage = "mark"]
    BY DEF LowerLoser
  <2>2. task'[t].stage = "mark" /\ task'[t].todo = task[t].todo
    BY <1>0, <2>1
  <2>3. Dealt(t, x)'
    BY <1>1, <2>2 DEF Dealt
  <2>4. QED  BY <1>0, <1>3, <2>3 DEF Spent, Contests, NotOlder
<1>7. Spent(m) \subseteq Spent(m)' /\ IsFiniteSet(Spent(m)') /\ Cardinality(Spent(m)') \in Nat
  BY <1>5, SpentGrows
<1>8. Spent(m) \cup {<<t, x>>} \in SUBSET Spent(m)'
  BY <1>6, <1>7
<1>9. Cardinality(Spent(m) \cup {<<t, x>>}) = Cardinality(Spent(m)) + 1
  BY <1>4, SpentCount, FS_AddElement
<1>10. QED  BY <1>7, <1>8, <1>9, FS_Subset

LEMMA LossStep ==
    ASSUME ConflictTypeOK, FreshnessInv, LossInv, ConflictNext
    PROVE  LossInv'
<1>0. /\ task \in [Memories -> [stage : Stages, todo : SUBSET Memories,
                                winner : Memories, loser : Memories]]
      /\ importance \in [Memories -> 0 .. Absent] /\ \A k \in Memories : Importance[k] \in Nat
  BY ImportanceType DEF ConflictTypeOK
<1>1. PICK t \in Memories : /\ \A k \in Memories \ {t} : task'[k] = task[k]
                            /\ TaskStep(t) \/ DeleteByAge(t)
  BY ConflictCases
<1>2. ASSUME task'[t].stage = "lower" PROVE Lowering(t)'
  <2>1. CASE task'[t] = task[t]
    BY <1>2, <2>1 DEF LossInv, Lowering, Facing
  <2>2. CASE task'[t] # task[t]
    <3>1. ~ DeleteByAge(t)
      BY <2>2 DEF DeleteByAge
    <3>2. \A stage, todo : Continue(t, stage, todo) => stage = "lower"
      BY <1>2, ContinueIs
    <3>3. PICK r \in Memories : CompareWith(t, r)
      BY <1>0, <1>1, <1>2, <3>1, <3>2
         DEF TaskStep, SaveRow, IndexNode, DetectRelated, LowerLoser, MarkConflict, FinishTask,
             AbandonTask
    <3>4. /\ task'[t] = TaskAt("lower", task[t].todo \ {r}, IF Wins(t, r) THEN t ELSE r,
                               IF Wins(t, r) THEN r ELSE t)
          /\ {t, r} \in Rivals
      BY <1>0, <3>2, <3>3 DEF CompareWith
    <3>5. /\ task'[t].todo = task[t].todo \ {r}
          /\ \/ task'[t].winner = t /\ task'[t].loser = r
             \/ task'[t].winner = r /\ task'[t].loser = t
      BY <3>4 DEF TaskAt
    <3>6. Facing(t, r)'
      BY <3>5 DEF Facing
    <3>7. QED  BY <3>4, <3>5, <3>6 DEF Lowering
  <2>3. QED  BY <2>1, <2>2
<1>3. ASSUME NEW k \in Memories, task'[k].stage = "lower" PROVE Lowering(k)'
  <2>1. CASE k = t
    BY <1>2, <1>3, <2>1
  <2>2. CASE k # t
    <3>1. task'[k] = task[k]
      BY <1>1, <2>2
    <3>2. Lowering(k)
      BY <1>3, <3>1 DEF LossInv
    <3>3. QED  BY <3>1, <3>2 DEF Lowering, Facing
  <2>3. QED  BY <2>1, <2>2
<1>4. ASSUME NEW m \in Memories, importance'[m] # Absent
      PROVE  Importance[m] - importance'[m] <= Cardinality(Spent(m)')
  <2>0. /\ Cardinality(Spent(m)) \in Nat /\ Cardinality(Spent(m)') \in Nat
        /\ Cardinality(Spent(m)) <= Cardinality(Spent(m)')
        /\ importance[m] \in Int /\ Importance[m] \in Int
    BY <1>0, SpentCount, SpentGrows DEF Absent
  <2>1. CASE importance'[m] = importance[m]
    BY <1>4, <2>0, <2>1 DEF LossInv, Paid
  <2>2. CASE importance'[m] # importance[m]
    <3>1. CASE SaveRow(t)
      <4>1. importance'[m] = Importance[m]
        BY <1>0, <2>2, <3>1 DEF SaveRow
      <4>2. QED  BY <2>0, <4>1
    <3>2. CASE LowerLoser(t)
      <4>1. m = task[t].loser /\ importance[m] # Absent
        BY <1>0, <2>2, <3>2 DEF LowerLoser, Lowered
      <4>2. importance' = [importance EXCEPT ![m] =
                              IF importance[m] > 0 THEN importance[m] - 1 ELSE 0]
        BY <1>0, <2>2, <3>2, <4>1 DEF LowerLoser, Lowered
      <4>3. importance'[m] = importance[m] - 1
        BY <1>0, <2>2, <4>2 DEF Absent
      <4>4. Cardinality(Spent(m)) + 1 <= Cardinality(Spent(m)')
        BY <3>2, <4>1, LoserSpends
      <4>5. Importance[m] - importance[m] <= Cardinality(Spent(m))
        BY <4>1 DEF LossInv, Paid
      <4>6. QED  BY <2>0, <4>3, <4>4, <4>5
    <3>3. CASE DeleteByAge(t)
      BY <1>0, <1>4, <2>2, <3>3 DEF DeleteByAge
    <3>4. QED
      BY <1>1, <2>2, <3>1, <3>2, <3>3
         DEF TaskStep, IndexNode, DetectRelated, CompareWith, MarkConflict, FinishTask, AbandonTask
  <2>3. QED  BY <2>1, <2>2
<1>5. \A m \in Memories : Paid(m)'
  BY <1>4 DEF Paid
<1>6. QED  BY <1>3, <1>5 DEF LossInv

LEMMA LossInit == ConflictInit => LossInv
<1>1. SUFFICES ASSUME ConflictInit PROVE LossInv
  OBVIOUS
<1>2. \A m \in Memories : importance[m] = Absent /\ task[m].stage = "new"
  BY <1>1 DEF ConflictInit, NewTask, TaskAt
<1>3. QED  BY <1>2 DEF LossInv, Paid

-----------------------------------------------------------------------------
(* Retrieval: how old what a caller holds, or the cache keeps, may be. *)

\* The row of m holds v, or did so at most age ticks ago.
Known(m, v, age) == importance[m] = v \/ since[m][v] <= age

Filling == {"fill hit", "fill neighbour"}

CallType ==
    [stage : CallStages, todo : SUBSET Memories, seen : SUBSET Memories,
     key : Memories, version : Versions, held : 0 .. MaxFill]

CacheType ==
    /\ items \in [Memories -> Entries]
    /\ call \in [Callers -> CallType]
    /\ since \in [Memories -> [Versions -> 0 .. LongAgo]]

\* A call that holds a row has one that is known.
HonestCalls ==
    {x \in CallType : x.stage \in Filling => Known(x.key, x.version, x.held)}

AgeInv ==
    /\ \A m \in Memories : IsFresh(m) => Known(m, items[m].version, items[m].age + MaxFill)
    /\ \A c \in Callers : call[c].stage \in Filling =>
          Known(call[c].key, call[c].version, call[c].held)

RowsInv == ConflictTypeOK /\ RowsBounded /\ FreshnessInv

RetrievalInv == RowsInv /\ CacheType /\ AgeInv

LEMMA ConflictInitInv == ConflictInit => RowsInv
<1>1. SUFFICES ASSUME ConflictInit PROVE FreshnessInv
  BY ConflictInitTypes DEF RowsInv
<1>2. \A m \in Memories : task[m].stage = "new"
  BY <1>1 DEF ConflictInit, NewTask, TaskAt
<1>3. FreshnessInv
  BY <1>1, <1>2 DEF ConflictInit, FreshnessInv, FreshnessWins, Resolving
<1>4. QED  BY <1>3

LEMMA RowsStep == ASSUME RowsInv, ConflictNext PROVE RowsInv'
  BY ConflictStepTypes, FreshnessStep DEF RowsInv

LEMMA RowsStutter == ASSUME RowsInv, UNCHANGED conflictVars PROVE RowsInv'
<1>1. /\ importance' = importance /\ created' = created /\ graph' = graph /\ task' = task
      /\ contradicts' = contradicts
  BY DEF conflictVars
<1>2. ConflictTypeOK' /\ RowsBounded'
  BY <1>1 DEF RowsInv, ConflictTypeOK, RowsBounded
<1>3. FreshnessInv'
  BY <1>1 DEF RowsInv, FreshnessInv, FreshnessWins, Resolving
<1>4. QED  BY <1>2, <1>3 DEF RowsInv

\* A row holds a version.
RowsVersioned == importance \in [Memories -> Versions]

LEMMA RowVersion == RowsInv => RowsVersioned
<1> SUFFICES ASSUME RowsInv PROVE importance \in [Memories -> Versions]
  BY DEF RowsVersioned
<1>1. importance \in [Memories -> 0 .. Absent]
  BY DEF RowsInv, ConflictTypeOK
<1>2. \A m \in Memories : Importance[m] \in 0 .. 10
  BY ImportanceType
<1>3. ASSUME NEW m \in Memories PROVE importance[m] \in Versions
  <2>1. importance[m] \in 0 .. Absent /\ Importance[m] \in 0 .. 10
    BY <1>1, <1>2
  <2>2. importance[m] = Absent \/ importance[m] \in 0 .. Importance[m]
    BY <2>1 DEF RowsInv, RowsBounded
  <2>3. QED  BY <2>2 DEF Versions
<1>4. QED  BY <1>1, <1>3

LEMMA CallAtType ==
    ASSUME NEW stage \in CallStages, NEW todo \in SUBSET Memories, NEW seen \in SUBSET Memories
    PROVE  CallAt(stage, todo, seen) \in CallType
<1>1. (CHOOSE m \in Memories : TRUE) \in Memories
  BY RetrievalAssumption
<1>2. Absent \in Versions /\ 0 \in 0 .. MaxFill
  BY RetrievalAssumption DEF Versions
<1>3. QED  BY <1>1, <1>2 DEF CallAt, CallType

LEMMA RetrievalInitInv == RetrievalInit => RetrievalInv
<1>1. SUFFICES ASSUME RetrievalInit PROVE CacheType /\ AgeInv
  BY ConflictInitInv DEF RetrievalInv, RetrievalInit
<1>2. Absent \in Versions
  BY DEF Versions
<1>3. NoEntry \in Entries
  BY <1>2, RetrievalAssumption DEF NoEntry, Entries, Expired
<1>4. items \in [Memories -> Entries] /\ \A m \in Memories : items[m] = NoEntry
  BY <1>1, <1>3 DEF RetrievalInit
<1>5. since \in [Memories -> [Versions -> 0 .. LongAgo]]
  BY <1>1, RetrievalAssumption DEF RetrievalInit, LongAgo
<1>6. IdleCall \in CallType /\ IdleCall.stage = "idle"
  BY CallAtType DEF IdleCall, CallAt, CallStages
<1>7. call \in [Callers -> CallType] /\ \A c \in Callers : call[c].stage = "idle"
  BY <1>1, <1>6 DEF RetrievalInit
<1>8. CacheType
  BY <1>4, <1>5, <1>7 DEF CacheType
<1>9. AgeInv
  BY <1>4, <1>7 DEF AgeInv, IsFresh, Filling
<1>10. QED  BY <1>8, <1>9

\* A step of one caller that leaves the rows alone: what it holds is known, and so
\* is what it puts into the cache.
LEMMA CallerKeeps ==
    ASSUME RetrievalInv, UNCHANGED <<conflictVars, since>>,
           NEW c \in Callers, NEW x \in HonestCalls, call' = [call EXCEPT ![c] = x],
           items' \in [Memories -> Entries],
           \A m \in Memories : items'[m] = items[m] \/ items'[m] = NoEntry
               \/ Known(m, items'[m].version, items'[m].age + MaxFill)
    PROVE  RetrievalInv'
<1>1. RowsInv'
  BY RowsStutter DEF RetrievalInv
<1>2. importance' = importance /\ since' = since
  BY DEF conflictVars
<1>3. /\ call \in [Callers -> CallType] /\ x \in CallType
      /\ x.stage \in Filling => Known(x.key, x.version, x.held)
  BY DEF RetrievalInv, CacheType, HonestCalls
<1>4. call' \in [Callers -> CallType]
  BY <1>3
<1>5. CacheType'
  BY <1>2, <1>4 DEF RetrievalInv, CacheType
<1>6. ASSUME NEW m \in Memories, IsFresh(m)'
      PROVE  Known(m, items[m].version, items[m].age + MaxFill)'
  <2>1. items'[m] # NoEntry /\ items'[m].age <= TTL
    BY <1>6 DEF IsFresh
  <2>2. CASE items'[m] = items[m]
    <3>1. Known(m, items[m].version, items[m].age + MaxFill)
      BY <2>1, <2>2 DEF IsFresh, RetrievalInv, AgeInv
    <3>2. QED  BY <1>2, <2>2, <3>1 DEF Known
  <2>3. CASE items'[m] # items[m]
    BY <1>2, <2>1, <2>3 DEF Known
  <2>4. QED  BY <2>2, <2>3
<1>7. ASSUME NEW d \in Callers, call'[d].stage \in Filling
      PROVE  Known(call[d].key, call[d].version, call[d].held)'
  <2>1. CASE d = c
    BY <1>2, <1>3, <1>7, <2>1 DEF Known
  <2>2. CASE d # c
    BY <1>2, <1>3, <1>7, <2>2 DEF Known, RetrievalInv, AgeInv
  <2>3. QED  BY <2>1, <2>2
<1>8. AgeInv'
  BY <1>6, <1>7 DEF AgeInv
<1>9. QED  BY <1>1, <1>5, <1>8 DEF RetrievalInv

\* Whichever entry is the last, Set puts one in and takes at most one out.
LEMMA SetKeeps ==
    ASSUME items \in [Memories -> Entries], NEW m \in Memories, NEW v \in Versions, Set(m, v)
    PROVE  /\ items' \in [Memories -> Entries]
           /\ \A k \in Memories : items'[k] = items[k] \/ items'[k] = NoEntry
                 \/ (k = m /\ items'[k] = [version |-> v, age |-> 0])
<1> DEFINE entry == [version |-> v, age |-> 0]
           entered == [items EXCEPT ![m] = entry]
<1>1. entry \in Entries /\ NoEntry \in Entries
  BY RetrievalAssumption DEF Entries, NoEntry, Expired, Versions
<1>2. entered \in [Memories -> Entries]
  BY <1>1
<1>3. \A k \in Memories : entered[k] = IF k = m THEN entry ELSE items[k]
  OBVIOUS
<1> DEFINE keys == <<m>> \o Without(m)
           last == keys[Len(keys)]
<1>4. items' = entered \/ items' = [entered EXCEPT ![last] = NoEntry]
  <2>1. CASE Len(keys) > Capacity
    BY <2>1 DEF Set
  <2>2. CASE ~ (Len(keys) > Capacity)
    BY <2>2 DEF Set
  <2>3. QED  BY <2>1, <2>2
<1> HIDE DEF entry, entered, last
<1>5. CASE items' = entered
  BY <1>2, <1>3, <1>5 DEF entry
<1>6. CASE items' = [entered EXCEPT ![last] = NoEntry]
  <2>1. items' \in [Memories -> Entries]
    BY <1>1, <1>2, <1>6
  <2>2. \A k \in Memories : items'[k] = entered[k] \/ items'[k] = NoEntry
    BY <1>2, <1>6
  <2>3. QED  BY <1>3, <2>1, <2>2 DEF entry
<1>7. QED  BY <1>4, <1>5, <1>6

LEMMA ReadHolds ==
    ASSUME RetrievalInv, NEW c \in Callers, NEW m \in Memories, Read(c, m)
    PROVE  \E x \in HonestCalls : call' = [call EXCEPT ![c] = x]
<1>1. call \in [Callers -> CallType] /\ call[c] \in CallType
  BY DEF RetrievalInv, CacheType
<1>2. CASE call' = [call EXCEPT ![c].todo = @ \ {m}]
  <2> DEFINE x == [call[c] EXCEPT !.todo = call[c].todo \ {m}]
  <2>1. /\ x \in CallType /\ x.stage = call[c].stage
        /\ x.key = call[c].key /\ x.version = call[c].version /\ x.held = call[c].held
    BY <1>1 DEF CallType
  <2>2. call' = [call EXCEPT ![c] = x]
    BY <1>1, <1>2
  <2> HIDE DEF x
  <2>3. QED  BY <2>1, <2>2 DEF RetrievalInv, AgeInv, HonestCalls
<1>3. CASE ~ (call' = [call EXCEPT ![c].todo = @ \ {m}])
  <2> DEFINE next == IF call[c].stage = "hydrate" THEN "fill hit" ELSE "fill neighbour"
             x == [call[c] EXCEPT !.key = m, !.version = importance[m], !.held = 0, !.stage = next]
  <2>1. next \in CallStages /\ importance[m] \in Versions /\ 0 \in 0 .. MaxFill
    BY RowVersion, RetrievalAssumption DEF RetrievalInv, CallStages, RowsVersioned
  <2>2. call' = [call EXCEPT ![c].key = m, ![c].version = importance[m], ![c].held = 0,
                             ![c].stage = next]
    BY <1>1, <1>3 DEF Read
  <2>3. call' = [call EXCEPT ![c] = x]
    BY <1>1, <2>2
  <2> HIDE DEF next
  <2>4. /\ x \in CallType
        /\ x.key = m /\ x.version = importance[m]
    BY <1>1, <2>1 DEF CallType
  <2> HIDE DEF x
  <2>5. QED  BY <2>3, <2>4 DEF Known, HonestCalls
<1>4. QED  BY <1>2, <1>3

LEMMA ScoreEnds ==
    ASSUME RetrievalInv, NEW c \in Callers, NEW m \in Memories, NEW v,
           NEW stage \in {"hydrate", "expand"}, Score(c, m, v, stage)
    PROVE  \E x \in HonestCalls : call' = [call EXCEPT ![c] = x]
<1>1. call[c].todo \in SUBSET Memories /\ call[c].seen \in SUBSET Memories
  BY DEF RetrievalInv, CacheType, CallType
<1>2. PICK seen \in SUBSET Memories :
         call' = [call EXCEPT ![c] = CallAt(stage, call[c].todo \ {m}, seen)]
  BY <1>1 DEF Score
<1>3. CallAt(stage, call[c].todo \ {m}, seen) \in CallType
  BY <1>1, CallAtType DEF CallStages
<1>4. CallAt(stage, call[c].todo \ {m}, seen).stage = stage
  BY DEF CallAt
<1>5. QED  BY <1>2, <1>3, <1>4 DEF Filling, HonestCalls

LEMMA RetrieveStepInv ==
    ASSUME RetrievalInv, NEW c \in Callers, RetrieveStep(c)
    PROVE  RetrievalInv'
<1>0. items \in [Memories -> Entries] /\ call \in [Callers -> CallType]
  BY DEF RetrievalInv, CacheType
<1>1. CASE Search(c)
  <2>1. PICK hits \in SUBSET Memories : call' = [call EXCEPT ![c] = CallAt("hydrate", hits, {})]
    BY <1>1 DEF Search, SearchMemories
  <2>2. CallAt("hydrate", hits, {}) \in HonestCalls
    <3>1. CallAt("hydrate", hits, {}) \in CallType
      BY CallAtType DEF CallStages
    <3>2. QED  BY <3>1 DEF CallAt, Filling, HonestCalls
  <2>3. items' = items /\ UNCHANGED <<conflictVars, since>>
    BY <1>1 DEF Search, SearchMemories, cacheVars
  <2>4. QED  BY <1>0, <2>1, <2>2, <2>3, CallerKeeps
<1>2. CASE Expand(c)
  <2>1. call[c].seen \in SUBSET Memories /\ graph \subseteq Memories
    BY <1>0 DEF CallType, RetrievalInv, RowsInv, ConflictTypeOK
  <2>2. PICK near \in SUBSET Memories :
           call' = [call EXCEPT ![c] = CallAt("expand", near \ call[c].seen, call[c].seen)]
    <3>1. UNION {Related(m) : m \in call[c].seen} \subseteq Memories
      BY <2>1 DEF Related
    <3>2. QED  BY <1>2, <3>1 DEF Expand
  <2> DEFINE x == CallAt("expand", near \ call[c].seen, call[c].seen)
  <2>3. x \in CallType
    BY <2>1, CallAtType DEF CallStages
  <2>4. x \in HonestCalls
    BY <2>3 DEF CallAt, Filling, HonestCalls
  <2>5. items' = items /\ UNCHANGED <<conflictVars, since>>
    BY <1>2 DEF Expand, cacheVars
  <2>6. call' = [call EXCEPT ![c] = x]
    BY <2>2
  <2> HIDE DEF x
  <2>7. QED  BY <1>0, <2>3, <2>4, <2>5, <2>6, CallerKeeps
<1>3. CASE Answer(c)
  <2>1. IdleCall \in HonestCalls
    <3>1. IdleCall \in CallType
      BY CallAtType DEF IdleCall, CallStages
    <3>2. QED  BY <3>1 DEF IdleCall, CallAt, Filling, HonestCalls
  <2>2. call' = [call EXCEPT ![c] = IdleCall] /\ items' = items /\ UNCHANGED <<conflictVars, since>>
    BY <1>3 DEF Answer, cacheVars
  <2>3. QED  BY <1>0, <2>1, <2>2, CallerKeeps
<1>4. ASSUME NEW m \in Memories, HydrateFromCache(c, m) PROVE RetrievalInv'
  <2>1. PICK x \in HonestCalls : call' = [call EXCEPT ![c] = x]
    BY <1>4, ScoreEnds DEF HydrateFromCache
  <2>2. items' = items /\ UNCHANGED <<conflictVars, since>>
    BY <1>4 DEF HydrateFromCache, GetHit
  <2>3. QED  BY <1>0, <2>1, <2>2, CallerKeeps
<1>5. ASSUME NEW m \in Memories, HydrateFromStore(c, m) PROVE RetrievalInv'
  <2>1. PICK x \in HonestCalls : call' = [call EXCEPT ![c] = x]
    <3>1. Read(c, m)
      BY <1>5 DEF HydrateFromStore
    <3>2. QED  BY <1>5, <3>1, ReadHolds
  <2>2. items' = [items EXCEPT ![m] = NoEntry] /\ UNCHANGED <<conflictVars, since>>
    BY <1>5 DEF HydrateFromStore, GetMiss
  <2>3. NoEntry \in Entries
    BY RetrievalAssumption DEF NoEntry, Entries, Versions, Expired
  <2>4. /\ items' \in [Memories -> Entries]
        /\ \A k \in Memories : items'[k] = items[k] \/ items'[k] = NoEntry
    BY <1>0, <2>2, <2>3
  <2>5. QED  BY <2>1, <2>2, <2>4, CallerKeeps
<1>6. ASSUME NEW m \in Memories, FetchNeighbour(c, m) PROVE RetrievalInv'
  <2>1. PICK x \in HonestCalls : call' = [call EXCEPT ![c] = x]
    <3>1. Read(c, m)
      BY <1>6 DEF FetchNeighbour
    <3>2. QED  BY <1>6, <3>1, ReadHolds
  <2>2. items' = items /\ UNCHANGED <<conflictVars, since>>
    BY <1>6 DEF FetchNeighbour, cacheVars
  <2>3. QED  BY <1>0, <2>1, <2>2, CallerKeeps
<1>7. CASE Fill(c)
  <2> DEFINE m == call[c].key
             v == call[c].version
  <2>1. m \in Memories /\ v \in Versions /\ call[c].held \in 0 .. MaxFill
    BY <1>0 DEF CallType
  <2>2. /\ items' \in [Memories -> Entries]
        /\ \A k \in Memories : items'[k] = items[k] \/ items'[k] = NoEntry
              \/ (k = m /\ items'[k] = [version |-> v, age |-> 0])
    <3>1. Set(m, v)
      BY <1>7 DEF Fill
    <3> HIDE DEF m, v
    <3>2. items \in [Memories -> Entries]
      BY <1>0
    <3>3. QED  BY <2>1, <3>1, <3>2, SetKeeps
  <2>3. PICK x \in HonestCalls : call' = [call EXCEPT ![c] = x]
    <3>1. Score(c, m, v, IF call[c].stage = "fill hit" THEN "hydrate" ELSE "expand")
      BY <1>7 DEF Fill
    <3>2. QED  BY <2>1, <3>1, ScoreEnds
  <2>4. Known(m, v, 0 + MaxFill)
    <3>1. Known(m, v, call[c].held)
      BY <1>7 DEF Fill, RetrievalInv, AgeInv, Filling
    <3>2. since[m][v] \in 0 .. LongAgo
      BY <2>1 DEF RetrievalInv, CacheType
    <3>3. QED  BY <2>1, <3>1, <3>2, RetrievalAssumption DEF Known, LongAgo
  <2>5. UNCHANGED <<conflictVars, since>>
    BY <1>7 DEF Fill
  <2> HIDE DEF m, v
  <2>6. \A k \in Memories : items'[k] = items[k] \/ items'[k] = NoEntry
            \/ Known(k, items'[k].version, items'[k].age + MaxFill)
    BY <2>2, <2>4
  <2>7. QED  BY <2>2, <2>3, <2>5, <2>6, CallerKeeps
<1>8. QED
  BY <1>1, <1>2, <1>3, <1>4, <1>5, <1>6, <1>7 DEF RetrieveStep

\* The history of a change, and of a tick, keeps what is known.
LEMMA ChangeRowsInv ==
    ASSUME RetrievalInv, ChangeRows
    PROVE  RetrievalInv'
<1>0. /\ items' = items /\ call' = call
      /\ since' = [m \in Memories |-> [v \in Versions |->
            IF v = importance[m] /\ importance'[m] # v THEN 0 ELSE since[m][v]]]
      /\ since \in [Memories -> [Versions -> 0 .. LongAgo]]
      /\ items \in [Memories -> Entries] /\ call \in [Callers -> CallType]
  BY DEF ChangeRows, cacheVars, RetrievalInv, CacheType
<1>1. RowsInv'
  BY RowsStep DEF ChangeRows, RetrievalInv
<1>2. ASSUME NEW m \in Memories, NEW v \in Versions
      PROVE  since'[m][v] = IF v = importance[m] /\ importance'[m] # v THEN 0 ELSE since[m][v]
  BY <1>0
<1>3. ASSUME NEW m \in Memories, NEW v \in Versions, NEW age \in Nat, Known(m, v, age)
      PROVE  importance'[m] = v \/ since'[m][v] <= age
  BY <1>2, <1>3 DEF Known
<1>4. CacheType'
  <2>1. 0 \in 0 .. LongAgo
    BY RetrievalAssumption DEF LongAgo
  <2>2. since' \in [Memories -> [Versions -> 0 .. LongAgo]]
    BY <1>0, <2>1
  <2>3. QED  BY <1>0, <2>2 DEF CacheType
<1>5. ASSUME NEW m \in Memories, IsFresh(m)'
      PROVE  Known(m, items[m].version, items[m].age + MaxFill)'
  <2>1. IsFresh(m)
    BY <1>0, <1>5 DEF IsFresh
  <2>2. items[m].version \in Versions /\ items[m].age + MaxFill \in Nat
    BY <1>0, RetrievalAssumption DEF Entries, Expired
  <2>3. Known(m, items[m].version, items[m].age + MaxFill)
    BY <2>1 DEF RetrievalInv, AgeInv
  <2>4. QED  BY <1>0, <1>3, <2>2, <2>3 DEF Known
<1>6. ASSUME NEW c \in Callers, call'[c].stage \in Filling
      PROVE  Known(call[c].key, call[c].version, call[c].held)'
  <2>1. /\ call[c].key \in Memories /\ call[c].version \in Versions
        /\ call[c].held \in Nat
    BY <1>0, RetrievalAssumption DEF CallType
  <2>2. Known(call[c].key, call[c].version, call[c].held)
    BY <1>0, <1>6 DEF RetrievalInv, AgeInv
  <2>3. QED  BY <1>0, <1>3, <2>1, <2>2 DEF Known
<1>7. QED  BY <1>1, <1>4, <1>5, <1>6 DEF RetrievalInv, AgeInv

LEMMA OlderIs ==
    ASSUME NEW limit \in Nat, NEW age \in 0 .. limit
    PROVE  /\ Older(age, limit) \in 0 .. limit
           /\ Older(age, limit) <= age + 1
           /\ age < limit => Older(age, limit) = age + 1
  BY DEF Older

LEMMA TickInv ==
    ASSUME RetrievalInv, Tick
    PROVE  RetrievalInv'
<1>0. /\ items \in [Memories -> Entries] /\ call \in [Callers -> CallType]
      /\ since \in [Memories -> [Versions -> 0 .. LongAgo]]
      /\ Expired \in Nat /\ LongAgo \in Nat
      /\ UNCHANGED conflictVars /\ importance' = importance
  <2>1. UNCHANGED conflictVars
    BY DEF Tick
  <2>2. importance' = importance
    BY <2>1 DEF conflictVars
  <2>3. Expired \in Nat /\ LongAgo \in Nat
    BY RetrievalAssumption DEF Expired, LongAgo
  <2>4. QED  BY <2>1, <2>2, <2>3 DEF RetrievalInv, CacheType
<1>1. RowsInv'
  BY <1>0, RowsStutter DEF RetrievalInv
<1>2. ASSUME NEW m \in Memories, NEW v \in Versions
      PROVE  /\ since[m][v] \in 0 .. LongAgo /\ since'[m][v] = Older(since[m][v], LongAgo)
             /\ since[m][v] \in Nat /\ since'[m][v] \in Nat
             /\ since'[m][v] <= since[m][v] + 1
  <2>1. since' = [k \in Memories |-> [w \in Versions |-> Older(since[k][w], LongAgo)]]
    BY DEF Tick
  <2>2. since'[m][v] = Older(since[m][v], LongAgo)
    BY <2>1
  <2>3. since[m][v] \in 0 .. LongAgo
    BY <1>0
  <2>4. Older(since[m][v], LongAgo) \in 0 .. LongAgo
        /\ Older(since[m][v], LongAgo) <= since[m][v] + 1
    BY <1>0, <2>3, OlderIs
  <2>5. QED  BY <1>0, <2>2, <2>3, <2>4
<1>3. ASSUME NEW m \in Memories
      PROVE  /\ items[m] = NoEntry => items'[m] = NoEntry
             /\ items[m] # NoEntry => /\ items'[m].version = items[m].version
                                      /\ items'[m].age = Older(items[m].age, Expired)
             /\ items'[m] \in Entries
  <2>1. items[m] \in Entries /\ items[m].age \in 0 .. Expired
    BY <1>0 DEF Entries
  <2>2. Older(items[m].age, Expired) \in 0 .. Expired
    BY <1>0, <2>1, OlderIs
  <2>3. items'[m] = IF items[m] = NoEntry THEN NoEntry
                    ELSE [items[m] EXCEPT !.age = Older(items[m].age, Expired)]
    BY DEF Tick
  <2>4. QED  BY <2>1, <2>2, <2>3 DEF Entries
<1>4. ASSUME NEW c \in Callers
      PROVE  /\ call'[c] \in CallType /\ call'[c].stage = call[c].stage
             /\ call'[c].key = call[c].key /\ call'[c].version = call[c].version
             /\ call[c].stage \in Filling => call'[c].held = call[c].held + 1
  <2>1. call[c] \in CallType /\ call[c].held \in 0 .. MaxFill
    BY <1>0 DEF CallType
  <2>2. CASE call[c].stage \in Filling
    <3>1. call'[c] = [call[c] EXCEPT !.held = call[c].held + 1]
      BY <2>2 DEF Tick, Filling
    <3>2. call[c].held < MaxFill
      BY <2>2 DEF Tick, Filling
    <3>3. call[c].held + 1 \in 0 .. MaxFill
      BY <2>1, <3>2, RetrievalAssumption
    <3>4. QED  BY <2>1, <3>1, <3>3 DEF CallType
  <2>3. CASE call[c].stage \notin Filling
    <3>1. call'[c] = call[c]
      BY <2>3 DEF Tick, Filling
    <3>2. QED  BY <2>1, <2>3, <3>1
  <2>4. QED  BY <2>2, <2>3
<1>5. CacheType'
  <2>1. items' \in [Memories -> Entries]
    BY <1>3 DEF Tick
  <2>2. call' \in [Callers -> CallType]
    BY <1>4 DEF Tick
  <2>3. \A m \in Memories, v \in Versions : Older(since[m][v], LongAgo) \in 0 .. LongAgo
    BY <1>0, <1>2, OlderIs
  <2>4. since' \in [Memories -> [Versions -> 0 .. LongAgo]]
    BY <2>3 DEF Tick
  <2>5. QED  BY <2>1, <2>2, <2>4 DEF CacheType
<1>6. ASSUME NEW m \in Memories, IsFresh(m)'
      PROVE  Known(m, items[m].version, items[m].age + MaxFill)'
  <2>1. items[m] # NoEntry /\ items'[m].age <= TTL
    BY <1>3, <1>6 DEF IsFresh
  <2>2. items[m].age \in 0 .. Expired /\ items[m].version \in Versions
    BY <1>0 DEF Entries
  <2>3. items'[m].age = items[m].age + 1 /\ items'[m].version = items[m].version
    BY <1>0, <1>3, <2>1, <2>2, OlderIs, RetrievalAssumption DEF Older, Expired
  <2>4. IsFresh(m)
    BY <2>1, <2>2, <2>3, RetrievalAssumption DEF IsFresh, Expired
  <2>5. Known(m, items[m].version, items[m].age + MaxFill)
    BY <2>4 DEF RetrievalInv, AgeInv
  <2>6. since'[m][items[m].version] <= since[m][items[m].version] + 1
    BY <1>2, <2>2
  <2>7. /\ since'[m][items[m].version] \in Nat /\ since[m][items[m].version] \in Nat
        /\ MaxFill \in Nat
    BY <1>2, <2>2, RetrievalAssumption
  <2>8. QED  BY <1>0, <2>2, <2>3, <2>5, <2>6, <2>7 DEF Known
<1>7. ASSUME NEW c \in Callers, call'[c].stage \in Filling
      PROVE  Known(call[c].key, call[c].version, call[c].held)'
  <2> DEFINE k == call[c].key
             v == call[c].version
  <2>1. k \in Memories /\ v \in Versions /\ call[c].held \in 0 .. MaxFill
    BY <1>0 DEF CallType
  <2>2. /\ call'[c].key = k /\ call'[c].version = v
        /\ call'[c].held = call[c].held + 1
    BY <1>4, <1>7
  <2>3. Known(k, v, call[c].held)
    BY <1>4, <1>7 DEF RetrievalInv, AgeInv
  <2>4. since'[k][v] <= since[k][v] + 1 /\ since[k][v] \in Nat /\ since'[k][v] \in Nat
    BY <1>2, <2>1
  <2> HIDE DEF k, v
  <2>5. importance'[k] = v \/ since'[k][v] <= call[c].held + 1
    BY <1>0, <2>1, <2>3, <2>4 DEF Known
  <2>6. QED  BY <2>2, <2>5 DEF Known
<1>8. QED  BY <1>1, <1>5, <1>6, <1>7 DEF RetrievalInv, AgeInv

LEMMA RetrievalStepInv == RetrievalInv /\ [RetrievalNext]_allVars => RetrievalInv'
<1>1. ASSUME RetrievalInv, RetrievalNext PROVE RetrievalInv'
  BY <1>1, RetrieveStepInv, ChangeRowsInv, TickInv DEF RetrievalNext
<1>2. ASSUME RetrievalInv, UNCHANGED allVars PROVE RetrievalInv'
  <2>1. UNCHANGED conflictVars /\ items' = items /\ call' = call /\ since' = since
        /\ importance' = importance
    BY <1>2 DEF allVars, cacheVars, conflictVars
  <2>2. RowsInv'
    BY <1>2, <2>1, RowsStutter DEF RetrievalInv
  <2>3. CacheType' /\ AgeInv'
    BY <1>2, <2>1 DEF RetrievalInv, CacheType, AgeInv, IsFresh, Known
  <2>4. QED  BY <2>2, <2>3 DEF RetrievalInv
<1>3. QED  BY <1>1, <1>2

\* The inductive invariant of Retrieve, its cache and the conflict tasks: the rows,
\* the types, and how old an entry and a row that a caller holds can be.
THEOREM RetrievalInvariant == RetrievalSpec => []RetrievalInv
  BY RetrievalInitInv, RetrievalStepInv, PTL DEF RetrievalSpec

-----------------------------------------------------------------------------
(* The list of the cache. *)

Distinct(q) == \A i, j \in 1 .. Len(q) : q[i] = q[j] => i = j

Listed(q, m) == \E i \in 1 .. Len(q) : q[i] = m

\* The keys of the list, each once, are those with an entry.
ListInv ==
    /\ order \in Seq(Memories) /\ Distinct(order) /\ Len(order) <= Capacity
    /\ \A m \in Memories : Listed(order, m) <=> items[m] # NoEntry

\* What a Retrieve is about to put into the cache was read from a row.
HeldInv == \A c \in Callers : call[c].stage \in Filling => call[c].version # Absent

LEMMA RemoveAtIs ==
    ASSUME NEW q \in Seq(Memories), NEW at \in 1 .. Len(q)
    PROVE  /\ RemoveAt(q, at) \in Seq(Memories) /\ Len(RemoveAt(q, at)) = Len(q) - 1
           /\ \A i \in 1 .. Len(q) - 1 : RemoveAt(q, at)[i] = IF i < at THEN q[i] ELSE q[i + 1]
<1> DEFINE a == SubSeq(q, 1, at - 1)
           b == SubSeq(q, at + 1, Len(q))
<1>1. Len(q) \in Nat /\ \A i \in 1 .. Len(q) : q[i] \in Memories
  BY LenProperties, ElementOfSeq
<1>2. /\ a \in Seq(Memories) /\ Len(a) = at - 1
      /\ \A i \in 1 .. at - 1 : a[i] = q[i]
  <2>1. \A i \in 1 .. at - 1 : q[i] \in Memories
    BY <1>1
  <2>2. /\ a \in Seq(Memories) /\ Len(a) = IF 1 <= at - 1 THEN (at - 1) - 1 + 1 ELSE 0
        /\ \A i \in 1 .. (at - 1) - 1 + 1 : a[i] = q[1 + i - 1]
    BY <1>1, <2>1, SubSeqProperties
  <2>3. QED  BY <1>1, <2>2
<1>3. /\ b \in Seq(Memories) /\ Len(b) = Len(q) - at
      /\ \A i \in 1 .. Len(q) - at : b[i] = q[at + i]
  <2>1. \A i \in at + 1 .. Len(q) : q[i] \in Memories
    BY <1>1
  <2>2. /\ b \in Seq(Memories)
        /\ Len(b) = IF at + 1 <= Len(q) THEN Len(q) - (at + 1) + 1 ELSE 0
        /\ \A i \in 1 .. Len(q) - (at + 1) + 1 : b[i] = q[at + 1 + i - 1]
    BY <1>1, <2>1, SubSeqProperties
  <2>3. QED  BY <1>1, <2>2
<1> HIDE DEF a, b
<1>4. /\ a \o b \in Seq(Memories) /\ Len(a \o b) = Len(a) + Len(b)
      /\ \A i \in 1 .. Len(a) + Len(b) : (a \o b)[i] = IF i <= Len(a) THEN a[i] ELSE b[i - Len(a)]
  <2>1. a \in Seq(Memories) /\ b \in Seq(Memories)
    BY <1>2, <1>3
  <2>2. QED  BY <2>1, ConcatProperties
<1>5. ASSUME NEW i \in 1 .. Len(q) - 1
      PROVE  (a \o b)[i] = IF i < at THEN q[i] ELSE q[i + 1]
  <2>1. CASE i < at
    <3>1. i \in 1 .. at - 1 /\ i <= Len(a) /\ i \in 1 .. Len(a) + Len(b)
      BY <1>1, <1>2, <1>3, <2>1
    <3>2. QED  BY <1>2, <1>4, <2>1, <3>1
  <2>2. CASE ~ (i < at)
    <3>1. i - (at - 1) \in 1 .. Len(q) - at /\ ~ (i <= Len(a)) /\ i \in 1 .. Len(a) + Len(b)
      BY <1>1, <1>2, <1>3, <2>2
    <3>2. b[i - (at - 1)] = q[at + (i - (at - 1))]
      BY <1>3, <3>1
    <3>3. at + (i - (at - 1)) = i + 1
      BY <1>1
    <3>4. QED  BY <1>2, <1>4, <2>2, <3>1, <3>2, <3>3
  <2>3. QED  BY <2>1, <2>2
<1>6. RemoveAt(q, at) = a \o b
  BY DEF RemoveAt, a, b
<1>7. Len(a \o b) = Len(q) - 1
  <2>1. Len(a) + Len(b) = Len(q) - 1
    BY <1>1, <1>2, <1>3
  <2>2. QED  BY <1>4, <2>1
<1>8. QED  BY <1>4, <1>5, <1>6, <1>7

LEMMA WithoutIs ==
    ASSUME order \in Seq(Memories), Distinct(order), NEW m \in Memories
    PROVE  /\ Without(m) \in Seq(Memories) /\ Distinct(Without(m))
           /\ Len(Without(m)) = IF Listed(order, m) THEN Len(order) - 1 ELSE Len(order)
           /\ \A k : Listed(Without(m), k) <=> (Listed(order, k) /\ k # m)
<1>1. Len(order) \in Nat /\ DOMAIN order = 1 .. Len(order)
  BY LenProperties
<1>2. CASE ~ Listed(order, m)
  <2>1. Without(m) = order
    BY <1>1, <1>2 DEF Without, Listed
  <2>2. QED  BY <1>2, <2>1
<1>3. CASE Listed(order, m)
  <2> DEFINE at == CHOOSE i \in DOMAIN order : order[i] = m
             r == RemoveAt(order, at)
  <2>1. at \in 1 .. Len(order) /\ order[at] = m
    BY <1>1, <1>3 DEF Listed
  <2>2. Without(m) = r
    BY <1>1, <1>3 DEF Without, Listed
  <2> HIDE DEF at
  <2>3. /\ r \in Seq(Memories) /\ Len(r) = Len(order) - 1
        /\ \A i \in 1 .. Len(order) - 1 : r[i] = IF i < at THEN order[i] ELSE order[i + 1]
    BY <2>1, RemoveAtIs
  <2> HIDE DEF r
  <2> DEFINE old(i) == IF i < at THEN i ELSE i + 1
  <2>4. ASSUME NEW i \in 1 .. Len(r)
        PROVE  old(i) \in 1 .. Len(order) /\ old(i) # at /\ r[i] = order[old(i)]
    BY <1>1, <2>1, <2>3
  <2>5. ASSUME NEW i \in 1 .. Len(r), NEW j \in 1 .. Len(r), r[i] = r[j] PROVE i = j
    <3>1. old(i) = old(j)
      <4>1. order[old(i)] = order[old(j)]
        BY <2>4, <2>5
      <4> HIDE DEF old
      <4>2. QED  BY <2>4, <4>1 DEF Distinct
    <3>2. QED  BY <1>1, <2>1, <2>3, <3>1
  <2>6. ASSUME NEW k, Listed(r, k) PROVE Listed(order, k) /\ k # m
    <3>1. PICK i \in 1 .. Len(r) : r[i] = k
      BY <2>6 DEF Listed
    <3> HIDE DEF old
    <3>2. old(i) \in 1 .. Len(order) /\ old(i) # at /\ order[old(i)] = k
      BY <2>4, <3>1
    <3>3. QED  BY <2>1, <3>2 DEF Listed, Distinct
  <2>7. ASSUME NEW k, Listed(order, k), k # m PROVE Listed(r, k)
    <3>1. PICK i \in 1 .. Len(order) : order[i] = k
      BY <2>7 DEF Listed
    <3>2. i # at
      BY <2>1, <2>7, <3>1
    <3>3. CASE i < at
      <4>1. i \in 1 .. Len(order) - 1
        BY <1>1, <2>1, <3>3
      <4>2. QED  BY <2>3, <3>1, <3>3, <4>1 DEF Listed
    <3>4. CASE ~ (i < at)
      <4>1. i - 1 \in 1 .. Len(order) - 1 /\ ~ (i - 1 < at) /\ (i - 1) + 1 = i
        BY <1>1, <2>1, <3>2, <3>4
      <4>2. r[i - 1] = k
        BY <2>3, <3>1, <4>1
      <4>3. QED  BY <2>3, <4>1, <4>2 DEF Listed
    <3>5. QED  BY <3>3, <3>4
  <2>8. QED  BY <1>3, <2>2, <2>3, <2>5, <2>6, <2>7 DEF Distinct
<1>4. QED  BY <1>2, <1>3

LEMMA PushFront ==
    ASSUME NEW q \in Seq(Memories), Distinct(q), NEW m \in Memories, ~ Listed(q, m)
    PROVE  /\ <<m>> \o q \in Seq(Memories) /\ Distinct(<<m>> \o q)
           /\ Len(<<m>> \o q) = Len(q) + 1
           /\ \A k : Listed(<<m>> \o q, k) <=> (k = m \/ Listed(q, k))
<1> DEFINE p == <<m>> \o q
<1>1. <<m>> \in Seq(Memories) /\ Len(<<m>>) = 1 /\ <<m>>[1] = m /\ Len(q) \in Nat
  BY LenProperties
<1>2. /\ p \in Seq(Memories) /\ Len(p) = Len(q) + 1
      /\ \A i \in 1 .. 1 + Len(q) : p[i] = IF i <= 1 THEN <<m>>[i] ELSE q[i - 1]
  BY <1>1, ConcatProperties
<1> HIDE DEF p
<1>3. p[1] = m /\ \A i \in 1 .. Len(q) : p[i + 1] = q[i]
  <2>1. p[1] = m
    BY <1>1, <1>2
  <2>2. ASSUME NEW i \in 1 .. Len(q) PROVE p[i + 1] = q[i]
    <3>1. i + 1 \in 1 .. 1 + Len(q) /\ ~ (i + 1 <= 1) /\ (i + 1) - 1 = i
      BY <1>1
    <3>2. QED  BY <1>2, <3>1
  <2>3. QED  BY <2>1, <2>2
<1>4. \A i \in 1 .. Len(p) : i = 1 \/ (i - 1 \in 1 .. Len(q) /\ p[i] = q[i - 1])
  BY <1>1, <1>2
<1>5. ASSUME NEW i \in 1 .. Len(p), NEW j \in 1 .. Len(p), p[i] = p[j] PROVE i = j
  <2>1. CASE i = 1 \/ j = 1
    <3>1. p[i] = m /\ p[j] = m
      BY <1>3, <1>5, <2>1
    <3>2. i = 1 /\ j = 1
      BY <1>4, <3>1 DEF Listed
    <3>3. QED  BY <3>2
  <2>2. CASE i # 1 /\ j # 1
    <3>1. i - 1 \in 1 .. Len(q) /\ j - 1 \in 1 .. Len(q) /\ q[i - 1] = q[j - 1]
      BY <1>4, <1>5, <2>2
    <3>2. i - 1 = j - 1
      BY <3>1 DEF Distinct
    <3>3. i \in Int /\ j \in Int
      BY <1>1, <1>2
    <3>4. QED  BY <3>2, <3>3
  <2>3. QED  BY <2>1, <2>2
<1>6. \A k : Listed(p, k) => k = m \/ Listed(q, k)
  BY <1>3, <1>4 DEF Listed
<1>7. Listed(p, m) /\ \A k : Listed(q, k) => Listed(p, k)
  BY <1>1, <1>2, <1>3 DEF Listed
<1>8. QED  BY <1>2, <1>5, <1>6, <1>7 DEF Distinct, p

LEMMA DropLast ==
    ASSUME NEW q \in Seq(Memories), Distinct(q), Len(q) > 0
    PROVE  LET p == SubSeq(q, 1, Len(q) - 1)
           IN  /\ p \in Seq(Memories) /\ Distinct(p) /\ Len(p) = Len(q) - 1
               /\ q[Len(q)] \in Memories
               /\ \A k : Listed(p, k) <=> (Listed(q, k) /\ k # q[Len(q)])
<1>1. Len(q) \in Nat /\ \A i \in 1 .. Len(q) : q[i] \in Memories
  BY LenProperties, ElementOfSeq
<1>2. PICK n \in Nat : Len(q) = n + 1 /\ Len(q) - 1 = n
  BY <1>1
<1> DEFINE p == SubSeq(q, 1, n)
<1>3. /\ p \in Seq(Memories) /\ Len(p) = n
      /\ \A i \in 1 .. n : p[i] = q[i]
  <2>1. \A i \in 1 .. n : q[i] \in Memories
    BY <1>1, <1>2
  <2>2. /\ p \in Seq(Memories) /\ Len(p) = IF 1 <= n THEN n - 1 + 1 ELSE 0
        /\ \A i \in 1 .. n - 1 + 1 : p[i] = q[1 + i - 1]
    BY <2>1, SubSeqProperties
  <2> HIDE DEF p
  <2>3. QED  BY <2>2
<1> HIDE DEF p
<1>4. q[n + 1] \in Memories
  BY <1>1, <1>2
<1>5. Distinct(p)
  BY <1>2, <1>3 DEF Distinct
<1>6. \A k : Listed(p, k) => Listed(q, k) /\ k # q[n + 1]
  BY <1>2, <1>3 DEF Listed, Distinct
<1>7. \A k : Listed(q, k) /\ k # q[n + 1] => Listed(p, k)
  BY <1>2, <1>3 DEF Listed
<1>8. QED  BY <1>2, <1>3, <1>4, <1>5, <1>6, <1>7 DEF p

\* Each key of the list stands once in it.
LEMMA ListCounts ==
    ASSUME ListInv, NEW m \in Memories
    PROVE  Cardinality({i \in DOMAIN order : order[i] = m}) = IF items[m] = NoEntry THEN 0 ELSE 1
<1>1. DOMAIN order = 1 .. Len(order)
  BY LenProperties DEF ListInv
<1>2. CASE items[m] = NoEntry
  <2>1. {i \in DOMAIN order : order[i] = m} = {}
    BY <1>1, <1>2 DEF ListInv, Listed
  <2>2. QED  BY <1>2, <2>1, FS_EmptySet
<1>3. CASE items[m] # NoEntry
  <2>1. PICK at \in 1 .. Len(order) : order[at] = m
    BY <1>3 DEF ListInv, Listed
  <2>2. {i \in DOMAIN order : order[i] = m} = {at}
    BY <1>1, <2>1 DEF ListInv, Distinct
  <2>3. QED  BY <1>3, <2>2, FS_Singleton
<1>4. QED  BY <1>2, <1>3

\* A key that is moved to the front.
LEMMA FrontIs ==
    ASSUME order \in Seq(Memories), Distinct(order), NEW m \in Memories
    PROVE  LET keys == <<m>> \o Without(m)
           IN  /\ keys \in Seq(Memories) /\ Distinct(keys)
               /\ Len(keys) = IF Listed(order, m) THEN Len(order) ELSE Len(order) + 1
               /\ \A k : Listed(keys, k) <=> (k = m \/ Listed(order, k))
<1>1. /\ Without(m) \in Seq(Memories) /\ Distinct(Without(m))
      /\ Len(Without(m)) = IF Listed(order, m) THEN Len(order) - 1 ELSE Len(order)
      /\ \A k : Listed(Without(m), k) <=> (Listed(order, k) /\ k # m)
  BY WithoutIs
<1>2. ~ Listed(Without(m), m)
  BY <1>1
<1>3. Len(order) \in Nat
  BY LenProperties
<1> DEFINE keys == <<m>> \o Without(m)
<1>4. /\ keys \in Seq(Memories) /\ Distinct(keys) /\ Len(keys) = Len(Without(m)) + 1
      /\ \A k : Listed(keys, k) <=> (k = m \/ Listed(Without(m), k))
  BY <1>1, <1>2, PushFront
<1> HIDE DEF keys
<1>5. Len(keys) = IF Listed(order, m) THEN Len(order) ELSE Len(order) + 1
  BY <1>1, <1>3, <1>4
<1>6. \A k : Listed(keys, k) <=> (k = m \/ Listed(order, k))
  BY <1>1, <1>4
<1>7. QED  BY <1>4, <1>5, <1>6 DEF keys

\* A list that is what ListInv says of the next state.
LEMMA ListBy ==
    ASSUME NEW q \in Seq(Memories), Distinct(q), Len(q) <= Capacity, order' = q,
           \A m \in Memories : Listed(q, m) <=> items'[m] # NoEntry
    PROVE  ListInv'
BY DEF ListInv, Distinct, Listed

LEMMA GetHitList ==
    ASSUME ListInv, NEW m \in Memories, GetHit(m)
    PROVE  ListInv'
<1> DEFINE keys == <<m>> \o Without(m)
<1>1. Listed(order, m) /\ items' = items /\ order' = keys
  BY DEF GetHit, IsFresh, ListInv, MoveToFront
<1>2. /\ keys \in Seq(Memories) /\ Distinct(keys)
      /\ Len(keys) = IF Listed(order, m) THEN Len(order) ELSE Len(order) + 1
      /\ \A k : Listed(keys, k) <=> (k = m \/ Listed(order, k))
  BY FrontIs DEF ListInv
<1> HIDE DEF keys
<1>3. Len(keys) <= Capacity
  BY <1>1, <1>2 DEF ListInv
<1>4. \A k \in Memories : Listed(keys, k) <=> items'[k] # NoEntry
  BY <1>1, <1>2 DEF ListInv
<1>5. QED  BY <1>1, <1>2, <1>3, <1>4, ListBy

LEMMA GetMissList ==
    ASSUME ListInv, items \in [Memories -> Entries], NEW m \in Memories, GetMiss(m)
    PROVE  ListInv'
<1>1. order' = Without(m) /\ items' = [items EXCEPT ![m] = NoEntry]
  BY DEF GetMiss
<1>2. /\ Without(m) \in Seq(Memories) /\ Distinct(Without(m))
      /\ Len(Without(m)) = IF Listed(order, m) THEN Len(order) - 1 ELSE Len(order)
      /\ \A k : Listed(Without(m), k) <=> (Listed(order, k) /\ k # m)
  BY WithoutIs DEF ListInv
<1>3. Len(order) \in Nat /\ Len(order) <= Capacity
  BY LenProperties DEF ListInv
<1>4. Len(Without(m)) <= Capacity
  BY <1>2, <1>3, RetrievalAssumption
<1>5. \A k \in Memories : Listed(Without(m), k) <=> items'[k] # NoEntry
  BY <1>1, <1>2 DEF ListInv
<1>6. QED  BY <1>1, <1>2, <1>4, <1>5, ListBy

\* A new entry, of a row that was there; past the capacity the last one goes.
LEMMA SetList ==
    ASSUME ListInv, items \in [Memories -> Entries], NEW m \in Memories, NEW v \in Versions,
           v # Absent, Set(m, v)
    PROVE  ListInv'
<1> DEFINE keys == <<m>> \o Without(m)
           entry == [version |-> v, age |-> 0]
           entered == [items EXCEPT ![m] = entry]
<1>1. /\ keys \in Seq(Memories) /\ Distinct(keys)
      /\ Len(keys) = IF Listed(order, m) THEN Len(order) ELSE Len(order) + 1
      /\ \A k : Listed(keys, k) <=> (k = m \/ Listed(order, k))
  BY FrontIs DEF ListInv
<1>2. Len(order) \in Nat /\ Len(order) <= Capacity /\ Capacity \in Nat
  BY LenProperties, RetrievalAssumption DEF ListInv
<1>3. entry # NoEntry
  BY DEF NoEntry
<1> HIDE DEF entry
<1>4. \A k \in Memories : entered[k] # NoEntry <=> (k = m \/ items[k] # NoEntry)
  BY <1>3
<1>5. \A k \in Memories : entered[k] # NoEntry <=> Listed(keys, k)
  BY <1>1, <1>4 DEF ListInv
<1>6. DOMAIN entered = Memories
  OBVIOUS
<1>7. CASE Len(keys) > Capacity
  <2> DEFINE short == SubSeq(keys, 1, Len(keys) - 1)
             last == keys[Len(keys)]
  <2>1. order' = short /\ items' = [entered EXCEPT ![last] = NoEntry]
    BY <1>7 DEF Set, entry
  <2> HIDE DEF keys, entered
  <2>2. /\ short \in Seq(Memories) /\ Distinct(short) /\ Len(short) = Len(keys) - 1
        /\ last \in Memories
        /\ \A k : Listed(short, k) <=> (Listed(keys, k) /\ k # last)
    <3>1. keys \in Seq(Memories) /\ Distinct(keys) /\ Len(keys) > 0
      BY <1>1, <1>2, <1>7
    <3>2. QED  BY <3>1, DropLast
  <2> HIDE DEF short, last
  <2>3. Len(short) <= Capacity
    BY <1>1, <1>2, <2>2
  <2>4. \A k \in Memories : Listed(short, k) <=> items'[k] # NoEntry
    BY <1>5, <1>6, <2>1, <2>2
  <2>5. QED  BY <2>1, <2>2, <2>3, <2>4, ListBy
<1>8. CASE ~ (Len(keys) > Capacity)
  <2>1. order' = keys /\ items' = entered
    BY <1>8 DEF Set, entry
  <2> HIDE DEF keys, entered
  <2>2. Len(keys) <= Capacity
    BY <1>1, <1>2, <1>8
  <2>3. QED  BY <1>1, <1>5, <2>1, <2>2, ListBy
<1>9. QED  BY <1>7, <1>8

LEMMA ListStutter == ASSUME ListInv, UNCHANGED cacheVars PROVE ListInv'
<1>1. items' = items /\ order' = order
  BY DEF cacheVars
<1>2. QED  BY <1>1 DEF ListInv, Distinct, Listed

ServedType == served \subseteq Memories \X Versions

CacheInv == ListInv /\ HeldInv /\ ServedType

LEMMA CacheInit == ASSUME RetrievalInit PROVE CacheInv
<1>1. order = <<>> /\ <<>> \in Seq(Memories) /\ Len(<<>>) = 0
      /\ \A m \in Memories : items[m] = NoEntry
  BY DEF RetrievalInit
<1>2. ListInv
  BY <1>1, RetrievalAssumption DEF ListInv, Distinct, Listed
<1>3. HeldInv
  BY DEF RetrievalInit, HeldInv, Filling, IdleCall, CallAt
<1>4. ServedType
  BY DEF RetrievalInit, ServedType
<1>5. QED  BY <1>2, <1>3, <1>4 DEF CacheInv

\* What one caller has to respect.
LEMMA HeldBy ==
    ASSUME RetrievalInv, HeldInv, NEW c \in Callers, NEW x,
           x.stage \in Filling => x.version # Absent, call' = [call EXCEPT ![c] = x]
    PROVE  HeldInv'
<1>1. call \in [Callers -> CallType]
  BY DEF RetrievalInv, CacheType
<1>2. \A d \in Callers : call'[d] = IF d = c THEN x ELSE call[d]
  BY <1>1
<1>3. QED  BY <1>2 DEF HeldInv

LEMMA CallAtHolds ==
    ASSUME NEW stage \in {"idle", "hydrate", "expand"}, NEW todo, NEW seen
    PROVE  CallAt(stage, todo, seen).stage \notin Filling
BY DEF CallAt, Filling

LEMMA ScoreHeld ==
    ASSUME RetrievalInv, HeldInv, NEW c \in Callers, NEW m, NEW v,
           NEW stage \in {"hydrate", "expand"}, Score(c, m, v, stage)
    PROVE  HeldInv' /\ served' = {<<m, v>>}
<1>1. PICK seen : call' = [call EXCEPT ![c] = CallAt(stage, call[c].todo \ {m}, seen)]
  BY DEF Score
<1> DEFINE x == CallAt(stage, call[c].todo \ {m}, seen)
<1>2. x.stage \notin Filling
  BY CallAtHolds
<1> HIDE DEF x
<1>3. HeldInv'
  BY <1>1, <1>2, HeldBy DEF x
<1>4. QED  BY <1>3 DEF Score

LEMMA ReadHeld ==
    ASSUME RetrievalInv, HeldInv, NEW c \in Callers, NEW m \in Memories, Read(c, m)
    PROVE  HeldInv'
<1>1. call \in [Callers -> CallType] /\ call[c] \in CallType
  BY DEF RetrievalInv, CacheType
<1>2. CASE call' = [call EXCEPT ![c].todo = @ \ {m}]
  <2>1. \A d \in Callers : call'[d].stage = call[d].stage /\ call'[d].version = call[d].version
    BY <1>1, <1>2 DEF CallType
  <2>2. QED  BY <2>1 DEF HeldInv
<1>3. CASE ~ (call' = [call EXCEPT ![c].todo = @ \ {m}])
  <2> DEFINE next == IF call[c].stage = "hydrate" THEN "fill hit" ELSE "fill neighbour"
  <2>1. /\ importance[m] # Absent
        /\ call' = [call EXCEPT ![c].key = m, ![c].version = importance[m], ![c].held = 0,
                                ![c].stage = next]
    BY <1>1, <1>3 DEF Read
  <2> HIDE DEF next
  <2>2. call'[c].version = importance[m] /\ \A d \in Callers \ {c} : call'[d] = call[d]
    BY <1>1, <2>1 DEF CallType
  <2>3. QED  BY <2>1, <2>2 DEF HeldInv
<1>4. QED  BY <1>2, <1>3

LEMMA RetrieveStepCache ==
    ASSUME RetrievalInv, CacheInv, NEW c \in Callers, RetrieveStep(c)
    PROVE  CacheInv'
<1>0. /\ items \in [Memories -> Entries] /\ call \in [Callers -> CallType]
      /\ ListInv /\ HeldInv
  BY DEF RetrievalInv, CacheType, CacheInv
<1>1. ASSUME served' = {} PROVE ServedType'
  BY <1>1 DEF ServedType
<1>2. ASSUME NEW stage \in {"idle", "hydrate", "expand"}, NEW todo, NEW seen,
             call' = [call EXCEPT ![c] = CallAt(stage, todo, seen)]
      PROVE  HeldInv'
  <2> DEFINE x == CallAt(stage, todo, seen)
  <2>1. x.stage \notin Filling
    BY CallAtHolds
  <2> HIDE DEF x
  <2>2. QED  BY <1>0, <1>2, <2>1, HeldBy DEF x
<1>3. CASE Search(c) \/ Expand(c) \/ Answer(c)
  <2>1. UNCHANGED cacheVars /\ served' = {}
    BY <1>3 DEF Search, Expand, Answer
  <2>2. \E stage \in {"idle", "hydrate", "expand"} : \E todo, seen :
            call' = [call EXCEPT ![c] = CallAt(stage, todo, seen)]
    BY <1>3 DEF Search, Expand, Answer, IdleCall
  <2>3. HeldInv'
    BY <1>2, <2>2
  <2>4. QED  BY <1>0, <1>1, <2>1, <2>3, ListStutter DEF CacheInv
<1>4. ASSUME NEW m \in Memories, HydrateFromCache(c, m) PROVE CacheInv'
  <2>1. GetHit(m) /\ Score(c, m, items[m].version, "hydrate")
    BY <1>4 DEF HydrateFromCache
  <2>2. HeldInv' /\ served' = {<<m, items[m].version>>}
    BY <1>0, <2>1, ScoreHeld
  <2>3. items[m].version \in Versions
    BY <1>0 DEF Entries
  <2>4. ServedType'
    BY <2>2, <2>3 DEF ServedType
  <2>5. QED  BY <1>0, <2>1, <2>2, <2>4, GetHitList DEF CacheInv
<1>5. ASSUME NEW m \in Memories, HydrateFromStore(c, m) PROVE CacheInv'
  <2>1. GetMiss(m) /\ Read(c, m) /\ served' = {}
    BY <1>5 DEF HydrateFromStore
  <2>2. QED  BY <1>0, <1>1, <2>1, GetMissList, ReadHeld DEF CacheInv
<1>6. ASSUME NEW m \in Memories, FetchNeighbour(c, m) PROVE CacheInv'
  <2>1. UNCHANGED cacheVars /\ Read(c, m) /\ served' = {}
    BY <1>6 DEF FetchNeighbour, cacheVars
  <2>2. QED  BY <1>0, <1>1, <2>1, ListStutter, ReadHeld DEF CacheInv
<1>7. CASE Fill(c)
  <2> DEFINE m == call[c].key
             v == call[c].version
             stage == IF call[c].stage = "fill hit" THEN "hydrate" ELSE "expand"
  <2>1. /\ m \in Memories /\ v \in Versions
    BY <1>0 DEF CallType
  <2>2. v # Absent
    BY <1>0, <1>7 DEF Fill, HeldInv, Filling
  <2>3. Set(m, v) /\ Score(c, m, v, stage) /\ stage \in {"hydrate", "expand"}
    BY <1>7 DEF Fill
  <2> HIDE DEF m, v, stage
  <2>4. ListInv'
    BY <1>0, <2>1, <2>2, <2>3, SetList
  <2>5. HeldInv' /\ served' = {<<m, v>>}
    BY <1>0, <2>3, ScoreHeld
  <2>6. ServedType'
    BY <2>1, <2>5 DEF ServedType
  <2>7. QED  BY <2>4, <2>5, <2>6 DEF CacheInv
<1>8. QED  BY <1>3, <1>4, <1>5, <1>6, <1>7 DEF RetrieveStep

\* An entry that grows older stays an entry.
LEMMA TickCache ==
    ASSUME RetrievalInv, CacheInv, Tick
    PROVE  CacheInv'
<1>0. /\ items \in [Memories -> Entries] /\ call \in [Callers -> CallType]
      /\ ListInv /\ HeldInv /\ order' = order /\ served' = {}
      /\ TTL \in Nat /\ Expired = TTL + 1
  BY RetrievalAssumption DEF RetrievalInv, CacheType, CacheInv, Tick, Expired
<1>1. ASSUME NEW m \in Memories
      PROVE  items'[m] # NoEntry <=> items[m] # NoEntry
  <2>1. items'[m] = IF items[m] = NoEntry THEN NoEntry
                    ELSE [items[m] EXCEPT !.age = Older(items[m].age, Expired)]
    BY DEF Tick
  <2>2. CASE items[m] = NoEntry
    BY <2>1, <2>2
  <2>3. CASE items[m] # NoEntry
    <3>1. items[m] \in Entries /\ items[m].age \in 0 .. Expired
      BY <1>0 DEF Entries
    <3>2. Older(items[m].age, Expired) # 0
      BY <1>0, <3>1 DEF Older
    <3>3. items'[m].age = Older(items[m].age, Expired)
      BY <2>1, <2>3, <3>1 DEF Entries
    <3>4. QED  BY <2>3, <3>2, <3>3 DEF NoEntry
  <2>4. QED  BY <2>2, <2>3
<1>2. ListInv'
  BY <1>0, <1>1, ListBy DEF ListInv
<1>3. HeldInv'
  <2>1. ASSUME NEW c \in Callers
        PROVE  call'[c].stage = call[c].stage /\ call'[c].version = call[c].version
    <3>1. call[c] \in CallType
      BY <1>0
    <3>2. call'[c] = call[c] \/ call'[c] = [call[c] EXCEPT !.held = call[c].held + 1]
      BY DEF Tick
    <3>3. QED  BY <3>1, <3>2 DEF CallType
  <2>2. QED  BY <1>0, <2>1 DEF HeldInv
<1>4. QED  BY <1>0, <1>2, <1>3 DEF CacheInv, ServedType

LEMMA CacheStep == RetrievalInv /\ CacheInv /\ [RetrievalNext]_allVars => CacheInv'
<1>1. ASSUME CacheInv, ChangeRows PROVE CacheInv'
  <2>1. UNCHANGED cacheVars /\ call' = call /\ served' = {}
    BY <1>1 DEF ChangeRows
  <2>2. ListInv'
    BY <1>1, <2>1, ListStutter DEF CacheInv
  <2>3. QED  BY <1>1, <2>1, <2>2 DEF CacheInv, HeldInv, ServedType
<1>2. ASSUME CacheInv, UNCHANGED allVars PROVE CacheInv'
  <2>1. UNCHANGED cacheVars /\ call' = call /\ served' = served
    BY <1>2 DEF allVars
  <2>2. ListInv'
    BY <1>2, <2>1, ListStutter DEF CacheInv
  <2>3. QED  BY <1>2, <2>1, <2>2 DEF CacheInv, HeldInv, ServedType
<1>3. QED  BY <1>1, <1>2, RetrieveStepCache, TickCache DEF RetrievalNext

\* The map and the list of the cache agree, and everything else has its type, for
\* any memories, callers, capacity and times.
THEOREM CacheIsCorrect == RetrievalSpec => []RetrievalTypeOK
<1>1. RetrievalInit => CacheInv
  BY CacheInit
<1>2. RetrievalInv /\ CacheInv => RetrievalTypeOK
  <2>1. ASSUME RetrievalInv, CacheInv PROVE RetrievalTypeOK
    <3>1. \A m \in Memories : Cardinality({i \in DOMAIN order : order[i] = m})
                              = IF items[m] = NoEntry THEN 0 ELSE 1
      BY <2>1, ListCounts DEF CacheInv
    <3>2. QED
      BY <2>1, <3>1
         DEF RetrievalTypeOK, RetrievalInv, RowsInv, CacheType, CallType, CacheInv, ListInv, ServedType
  <2>2. QED  BY <2>1
<1>3. QED  BY RetrievalInvariant, CacheStep, <1>1, <1>2, PTL DEF RetrievalSpec

-----------------------------------------------------------------------------
(* Retrieval implements StaleReads. *)

\* A score is one of a version the row has, or had within the bound.
LEMMA ScoreIsRead ==
    ASSUME RetrievalInv, NEW m \in Memories, NEW v \in Versions, NEW age \in 0 .. TTL + MaxFill,
           Known(m, v, age), served' = {<<m, v>>}, importance' = importance, since' = since
    PROVE  Stale!Read
<1>1. since[m][v] \in 0 .. LongAgo
  BY DEF RetrievalInv, CacheType
<1>2. v = importance[m] \/ since[m][v] <= TTL + MaxFill
  BY <1>1, RetrievalAssumption DEF Known, LongAgo
<1>3. QED  BY <1>2 DEF Stale!Read

LEMMA RetrieveStepStale ==
    ASSUME RetrievalInv, NEW c \in Callers, RetrieveStep(c)
    PROVE  Stale!StaleNext
<1>0. items \in [Memories -> Entries] /\ call \in [Callers -> CallType]
  BY DEF RetrievalInv, CacheType
<1>1. ASSUME served' = {}, importance' = importance, since' = since
      PROVE  Stale!StaleNext
  BY <1>1 DEF Stale!StaleNext, Stale!Pause
<1>2. CASE Search(c) \/ Expand(c) \/ Answer(c)
  BY <1>1, <1>2 DEF Search, Expand, Answer, conflictVars
<1>3. ASSUME NEW m \in Memories, HydrateFromStore(c, m) \/ FetchNeighbour(c, m)
      PROVE  Stale!StaleNext
  BY <1>1, <1>3 DEF HydrateFromStore, FetchNeighbour, conflictVars
<1>4. ASSUME NEW m \in Memories, HydrateFromCache(c, m) PROVE Stale!StaleNext
  <2>1. /\ IsFresh(m) /\ importance' = importance /\ since' = since
        /\ served' = {<<m, items[m].version>>}
    BY <1>4 DEF HydrateFromCache, GetHit, Score, conflictVars
  <2>2. items[m].version \in Versions /\ items[m].age \in 0 .. Expired
    BY <1>0 DEF Entries
  <2>3. items[m].age + MaxFill \in 0 .. TTL + MaxFill
    BY <2>1, <2>2, RetrievalAssumption DEF IsFresh, Expired
  <2>4. Known(m, items[m].version, items[m].age + MaxFill)
    BY <2>1 DEF RetrievalInv, AgeInv
  <2>5. Stale!Read
    BY <2>1, <2>2, <2>3, <2>4, ScoreIsRead
  <2>6. QED  BY <2>5 DEF Stale!StaleNext
<1>5. CASE Fill(c)
  <2> DEFINE m == call[c].key
             v == call[c].version
  <2>1. m \in Memories /\ v \in Versions /\ call[c].held \in 0 .. MaxFill
    BY <1>0 DEF CallType
  <2>2. importance' = importance /\ since' = since /\ served' = {<<m, v>>}
    BY <1>5 DEF Fill, Score, conflictVars
  <2>3. Known(m, v, call[c].held)
    BY <1>5 DEF Fill, RetrievalInv, AgeInv, Filling
  <2>4. call[c].held \in 0 .. TTL + MaxFill
    BY <2>1, RetrievalAssumption
  <2> HIDE DEF m, v
  <2>5. Stale!Read
    BY <2>1, <2>2, <2>3, <2>4, ScoreIsRead
  <2>6. QED  BY <2>5 DEF Stale!StaleNext
<1>6. QED  BY <1>2, <1>3, <1>4, <1>5 DEF RetrieveStep

LEMMA ReadsStep ==
    RetrievalInv /\ RetrievalInv' /\ [RetrievalNext]_allVars
        => [Stale!StaleNext]_<<importance, since, served>>
<1>0. RowsInv' => RowsVersioned'
  BY RowVersion, PTL
<1>1. ASSUME RetrievalInv, ChangeRows, RetrievalInv' PROVE Stale!StaleNext
  <2>1. importance' \in [Memories -> Versions]
    BY <1>0, <1>1 DEF RetrievalInv, RowsVersioned
  <2>2. QED  BY <1>1, <2>1 DEF ChangeRows, Stale!StaleNext, Stale!Change
<1>2. ASSUME RetrievalInv, Tick PROVE Stale!StaleNext
  <2>1. importance' = importance /\ served' = {}
    BY <1>2 DEF Tick, conflictVars
  <2>2. since' = [m \in Memories |-> [v \in Versions |-> Older(since[m][v], LongAgo)]]
    BY <1>2 DEF Tick
  <2>3. since' = [m \in Memories |-> [v \in Versions |->
            IF since[m][v] < Stale!LongAgo THEN since[m][v] + 1 ELSE Stale!LongAgo]]
    BY <2>2 DEF Older, LongAgo, Stale!LongAgo
  <2>4. QED  BY <2>1, <2>3 DEF Stale!StaleNext, Stale!Tick
<1>3. QED
  BY <1>1, <1>2, RetrieveStepStale DEF RetrievalNext, allVars, conflictVars

LEMMA ReadsInit == RetrievalInit => Stale!StaleInit
<1>1. SUFFICES ASSUME RetrievalInit PROVE Stale!StaleInit
  OBVIOUS
<1>2. importance \in [Memories -> Versions]
  BY <1>1, RetrievalInitInv, RowVersion DEF RetrievalInv, RowsVersioned
<1>3. QED  BY <1>1, <1>2 DEF RetrievalInit, Stale!StaleInit, LongAgo, Stale!LongAgo

\* A memory is scored as it is, or as it was at most TTL + MaxFill ticks ago, for
\* any memories, callers, capacity and times: Retrieve with its cache implements
\* the bounded staleness of StaleReads.
THEOREM ReadsStayBounded == RetrievalSpec => ReadsAreBoundedlyStale
<1>1. RetrievalInv /\ RetrievalInv' /\ [RetrievalNext]_allVars
        => [Stale!StaleNext]_<<importance, since, served>>
  BY ReadsStep
<1>2. QED
  BY ReadsInit, RetrievalInvariant, <1>1, PTL
     DEF RetrievalSpec, ReadsAreBoundedlyStale, Stale!StaleSpec

\* No interleaving of tasks marks an older memory as the winner.
THEOREM FreshMemoriesWin == RetrievalSpec => []FreshnessWins
<1>1. RetrievalInv => FreshnessWins
  BY DEF RetrievalInv, RowsInv, FreshnessInv
<1>2. QED  BY <1>1, RetrievalInvariant, PTL

\* A memory loses at most twice per rival that is not older, for any memories, rivals
\* and orders, whatever fails, is retried or is deleted meanwhile.
THEOREM LossesAreBounded == RetrievalSpec => []LossIsBounded
<1>1. RetrievalInit => LossInv
  BY LossInit DEF RetrievalInit
<1>2. RetrievalInv /\ LossInv /\ [RetrievalNext]_allVars => LossInv'
  <2>1. ASSUME RetrievalInv, LossInv, ConflictNext PROVE LossInv'
    BY <2>1, LossStep DEF RetrievalInv, RowsInv
  <2>2. ASSUME LossInv, UNCHANGED conflictVars PROVE LossInv'
    <3>1. importance' = importance /\ task' = task /\ created' = created
      BY <2>2 DEF conflictVars
    <3>2. ASSUME NEW m \in Memories
          PROVE  /\ Lowering(m) => Lowering(m)'
                 /\ Paid(m) => Paid(m)'
      <4>1. Lowering(m) => Lowering(m)'
        BY <3>1 DEF Lowering, Facing
      <4>2. Contests(m)' = Contests(m)
        BY <3>1 DEF Contests, NotOlder
      <4>3. \A p : Dealt(p[1], p[2])' <=> Dealt(p[1], p[2])
        BY <3>1 DEF Dealt, Facing
      <4>4. Spent(m)' = Spent(m)
        BY <4>2, <4>3 DEF Spent
      <4>5. QED  BY <3>1, <4>1, <4>4 DEF Paid
    <3>3. QED  BY <2>2, <3>1, <3>2 DEF LossInv
  <2>3. [RetrievalNext]_allVars => ConflictNext \/ UNCHANGED conflictVars
    BY DEF RetrievalNext, ChangeRows, Tick, RetrieveStep, Search, Fill, Expand, Answer,
           HydrateFromCache, HydrateFromStore, FetchNeighbour, allVars
  <2>4. QED  BY <2>1, <2>2, <2>3
<1>3. RetrievalInv /\ LossInv => LossIsBounded
  BY LossImplies DEF RetrievalInv, RowsInv
<1>4. QED  BY RetrievalInvariant, <1>1, <1>2, <1>3, PTL DEF RetrievalSpec
=============================================================================
