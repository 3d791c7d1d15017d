------------------------------- MODULE Access -------------------------------
(***************************************************************************)
(* Who may do what: the row-level security and the roles.                  *)
(*                                                                         *)
(* Every node that starts drops and creates the four policies again, each  *)
(* statement a transaction of its own, and seeds the development principal *)
(* into an empty database (EnsureEnterpriseSchema, EnsureDevPrincipal of   *)
(* src/internal/storage/postgres.go, called by main).  Roles are read and  *)
(* written by requests that nodes which are up serve (authorize of         *)
(* memory_handler.go, /admin/role of main.go), and a stored memory leaves  *)
(* an entry in the audit log.                                              *)
(*                                                                         *)
(* Of Postgres (external): the policies bind a role that owns the tables   *)
(* and is no superuser; a table without a policy then shows no row and     *)
(* takes none.  A transaction that has read a table keeps the policies of  *)
(* that table as they are until it ends.  A statement whose client is gone *)
(* has no effect later.                                                    *)
(*                                                                         *)
(* Abstraction: the tables, indexes and columns are there (init.sql); the  *)
(* names of tenants and agents are left out; an agent stores one memory.   *)
(***************************************************************************)
EXTENDS Naturals

CONSTANTS
    Nodes,
    Agents,       \* the agents of all tenants
    Tenants,
    TenantOf,     \* TenantOf[a]
    Dev,          \* memos-dev-agent
    Requested,    \* the roles a request may name
    Binding       \* the policies bind the database role of the nodes

Roles    == {"owner", "admin", "writer", "reader", "auditor"}
Tables   == {"tenants", "agents", "memories", "audit_logs"}

ASSUME AccessAssumption ==
    /\ TenantOf \in [Agents -> Tenants]
    /\ Dev \in Agents
    /\ Binding \in BOOLEAN

VARIABLES
    policy,      \* the tables that have their policy
    boot,        \* boot[n]: how far main of n has come
    orphaned,    \* tables whose policy a process dropped that ended before creating it (history)
    tenants,     \* the rows of tenants
    role,        \* role[a]: the row of agents, or "none"
    request,     \* request[a]: the request agent a has under way
    stored,      \* the agents whose memory is in memories
    audited,     \* the agents whose store is in audit_logs
    unaudited,   \* the agents whose entry failed, or was cut off (history)
    unanswered   \* the agents whose insert was committed without their node learning it (history)

schema   == <<policy, boot, orphaned>>
rows     == <<tenants, role>>
trail    == <<stored, audited, unaudited, unanswered>>
vars     == <<schema, rows, request, trail>>

DevTenant == TenantOf[Dev]

\* Mutant of LastStatement: the list of CREATEs is one short.
LastStatementShort == 7

\* The statements of EnsureEnterpriseSchema that touch policies, in their order.
Dropped  == <<"tenants", "agents", "memories", "audit_logs">>
Position == [t \in Tables |-> CHOOSE i \in 1 .. 4 : Dropped[i] = t]
LastStatement == 8

Down == [phase |-> "down", next |-> 0, alone |-> FALSE]
Up   == [phase |-> "up", next |-> 0, alone |-> FALSE]
NoRequest == [stage |-> "none"]

Booting(n) == boot[n] \notin {Down, Up}

\* Node n has dropped the policy of t and not yet created it.
Between(n, t) ==
    /\ boot[n].phase = "policies"
    /\ Position[t] < boot[n].next /\ boot[n].next <= Position[t] + 4

\* What a session that satisfies the policy of table t sees of it, and may write.
Open(t) == Binding => t \in policy

\* A database of somebody else, or an empty one, with the policies of init.sql.
Init ==
    /\ policy = Tables
    /\ boot = [n \in Nodes |-> Down]
    /\ orphaned = {}
    /\ \/ tenants = {} /\ role = [a \in Agents |-> "none"]
       \/ /\ tenants = Tenants \ {DevTenant}
          /\ role = [a \in Agents |-> IF TenantOf[a] = DevTenant THEN "none" ELSE "owner"]
    /\ request = [a \in Agents |-> NoRequest]
    /\ stored = {} /\ audited = {} /\ unaudited = {} /\ unanswered = {}

-----------------------------------------------------------------------------
(* The start of a node. *)

\* Mutant of TenantsLocked: the count is not in the transaction of the inserts.
TenantsUnlocked(n) == FALSE

\* Another node has counted the tenants in a transaction that is still open.
TenantsLocked(n) == \E k \in Nodes \ {n} : boot[k].phase = "seed"

Begin(n) ==
    /\ boot[n] = Down
    /\ boot' = [k \in Nodes |->
          IF k = n THEN [phase |-> "policies", next |-> 1,
                         alone |-> \A j \in Nodes : ~ Booting(j)]
          ELSE IF Booting(k) THEN [boot[k] EXCEPT !.alone = FALSE] ELSE boot[k]]
    /\ UNCHANGED <<policy, orphaned, rows, request, trail>>

\* The statement after which EnsureEnterpriseSchema is done leads to the seeding.
Advance(n) ==
    boot' = [boot EXCEPT ![n] =
        IF boot[n].next < LastStatement THEN [boot[n] EXCEPT !.next = boot[n].next + 1]
                                        ELSE [boot[n] EXCEPT !.phase = "count"]]

\* Mutant of DropPolicy: the last DROP is missing.
DropPolicyButLast(n) ==
    /\ boot[n].phase = "policies" /\ boot[n].next <= 4
    /\ LET t == Dropped[boot[n].next] IN
          /\ t = "tenants" => ~ TenantsLocked(n)
          /\ policy' = IF boot[n].next < 4 THEN policy \ {t} ELSE policy
    /\ Advance(n)
    /\ UNCHANGED <<orphaned, rows, request, trail>>

\* DROP POLICY IF EXISTS.
DropPolicy(n) ==
    /\ boot[n].phase = "policies" /\ boot[n].next <= 4
    /\ LET t == Dropped[boot[n].next] IN
          /\ t = "tenants" => ~ TenantsLocked(n)
          /\ policy' = policy \ {t}
    /\ Advance(n)
    /\ UNCHANGED <<orphaned, rows, request, trail>>

\* CREATE POLICY, where there is none.
CreatePolicy(n) ==
    /\ boot[n].phase = "policies" /\ boot[n].next > 4
    /\ LET t == Dropped[boot[n].next - 4] IN
          /\ t = "tenants" => ~ TenantsLocked(n)
          /\ t \notin policy
          /\ policy' = policy \cup {t}
          /\ orphaned' = orphaned \ {t}
    /\ Advance(n)
    /\ UNCHANGED <<rows, request, trail>>

\* EnsureDevPrincipal counts the tenants it sees.
CountTenants(n) ==
    /\ boot[n].phase = "count"
    /\ boot' = [boot EXCEPT ![n] =
          IF Open("tenants") /\ tenants # {} THEN Up
                                            ELSE [boot[n] EXCEPT !.phase = "seed"]]
    /\ UNCHANGED <<policy, orphaned, rows, request, trail>>

\* ... and, in the same transaction, inserts tenant and agent where they are
\* missing.
SeedDev(n) ==
    /\ boot[n].phase = "seed"
    /\ Open("tenants") /\ Open("agents")
    /\ tenants' = tenants \cup {DevTenant}
    /\ role' = [role EXCEPT ![Dev] = IF @ = "none" THEN "owner" ELSE @]
    /\ boot' = [boot EXCEPT ![n] = Up]
    /\ UNCHANGED <<policy, orphaned, request, trail>>

\* The process ends: its dropped policies stay dropped, its requests are lost.
End(n) ==
    /\ boot' = [boot EXCEPT ![n] = Down]
    /\ orphaned' = orphaned \cup {t \in Tables \ policy : Between(n, t)}
    /\ request' = [a \in Agents |->
          IF request[a].stage # "none" /\ request[a].node = n THEN NoRequest ELSE request[a]]
    /\ unaudited' = unaudited \cup
          {a \in Agents : request[a].stage = "audit" /\ request[a].node = n}
    /\ UNCHANGED <<policy, rows, stored, audited, unanswered>>

\* log.Fatalf: the policy exists, or the policies let nothing in.
Refused(n) ==
    \/ /\ boot[n].phase = "policies" /\ boot[n].next > 4
       /\ Dropped[boot[n].next - 4] \in policy
    \/ boot[n].phase = "seed" /\ ~ (Open("tenants") /\ Open("agents"))

Fatal(n) == Refused(n) /\ End(n)

\* Any other end, by an error of Postgres or a signal.
Stop(n) == boot[n] # Down /\ End(n)

-----------------------------------------------------------------------------
(* The requests.  A request that is denied changes nothing. *)

\* rolePermissions, as far as requests ask for them here.
Can(r, action) ==
    CASE action = "manage_roles" -> r \in {"owner", "admin"}
      [] action = "store"        -> r \in {"owner", "admin", "writer"}

\* Mutant of NormalizeRole: the role as the request names it.
NormalizeRoleNot(r) == r

NormalizeRole(r) == IF r \in Roles THEN r ELSE "writer"

Admit(n, a, req) ==
    /\ boot[n] = Up
    /\ request[a] = NoRequest
    /\ Open("agents")
    /\ request' = [request EXCEPT ![a] = req]
    /\ UNCHANGED <<schema, rows, trail>>

\* /admin/role reads the role of the requester,
AskRole(n, a, target, r) ==
    /\ Can(role[a], "manage_roles")
    /\ Admit(n, a, [stage |-> "set", node |-> n, target |-> target, role |-> r])

\* Mutant of MaySet: the UPDATE finds the target by its id alone.
MaySetAnywhere(a, target) == Open("agents") /\ role[target] # "none"

\* The WHERE clause of SetAgentRole.
MaySet(a, target) ==
    Open("agents") /\ role[target] # "none" /\ TenantOf[target] = TenantOf[a]

\* and then updates that of the target: no row where it finds none, and none
\* when the statement fails.
SetAgentRole(a) ==
    /\ request[a].stage = "set"
    /\ request' = [request EXCEPT ![a] = NoRequest]
    /\ LET target == request[a].target IN
          \/ /\ MaySet(a, target)
             /\ role' = [role EXCEPT ![target] = NormalizeRole(request[a].role)]
          \/ UNCHANGED role
    /\ UNCHANGED <<schema, tenants, trail>>

\* Store: authorize,
AskStore(n, a) ==
    /\ a \notin stored
    /\ Can(role[a], "store")
    /\ Admit(n, a, [stage |-> "save", node |-> n])

\* Mutant of SaveMemory: the entry is written whether the memory was stored or not.
SaveMemoryUnchecked(a) ==
    /\ request[a].stage = "save"
    /\ stored' = IF Open("memories") THEN stored \cup {a} ELSE stored
    /\ request' = [request EXCEPT ![a].stage = "audit"]
    /\ UNCHANGED <<schema, rows, audited, unaudited, unanswered>>

\* SaveMemory, refused without a policy and at any other error.  One of them is the
\* loss of the answer to its COMMIT: the row is there and Store returns the error.
SaveMemory(a) ==
    /\ request[a].stage = "save"
    /\ \/ /\ Open("memories")
          /\ stored' = stored \cup {a}
          /\ request' = [request EXCEPT ![a].stage = "audit"]
          /\ UNCHANGED unanswered
       \/ /\ Open("memories")
          /\ stored' = stored \cup {a}
          /\ unanswered' = unanswered \cup {a}
          /\ request' = [request EXCEPT ![a] = NoRequest]
       \/ /\ request' = [request EXCEPT ![a] = NoRequest]
          /\ UNCHANGED <<stored, unanswered>>
    /\ UNCHANGED <<schema, rows, audited, unaudited>>

\* WriteAuditLog, whose error is only logged.
WriteAuditLog(a) ==
    /\ request[a].stage = "audit"
    /\ request' = [request EXCEPT ![a] = NoRequest]
    /\ \/ Open("audit_logs") /\ audited' = audited \cup {a} /\ UNCHANGED unaudited
       \/ unaudited' = unaudited \cup {a} /\ UNCHANGED audited
    /\ UNCHANGED <<schema, rows, stored, unanswered>>

-----------------------------------------------------------------------------
BootStep(n) ==
    \/ Begin(n) \/ DropPolicy(n) \/ CreatePolicy(n)
    \/ CountTenants(n) \/ SeedDev(n) \/ Fatal(n) \/ Stop(n)

RequestStep(a) == SetAgentRole(a) \/ SaveMemory(a) \/ WriteAuditLog(a)

Next ==
    \/ \E n \in Nodes : BootStep(n)
    \/ \E a \in Agents : RequestStep(a)
    \/ \E n \in Nodes, a \in Agents :
          \/ AskStore(n, a)
          \/ \E target \in Agents, r \in Requested : AskRole(n, a, target, r)

Spec == Init /\ [][Next]_vars

-----------------------------------------------------------------------------
(* Properties. *)

Phases == {"down", "policies", "count", "seed", "up"}

BootType == [phase : Phases, next : 0 .. LastStatement, alone : BOOLEAN]

RequestType ==
    {NoRequest}
    \cup [stage : {"set"}, node : Nodes, target : Agents, role : Requested]
    \cup [stage : {"save", "audit"}, node : Nodes]

TypeOK ==
    /\ policy \subseteq Tables /\ orphaned \subseteq Tables
    /\ boot \in [Nodes -> BootType]
    /\ \A n \in Nodes : boot[n].phase = "policies" => boot[n].next > 0
    /\ tenants \subseteq Tenants
    /\ role \in [Agents -> Roles \cup {"none"}]
    /\ request \in [Agents -> RequestType]
    /\ stored \subseteq Agents /\ audited \subseteq Agents
    /\ unaudited \subseteq Agents /\ unanswered \subseteq Agents

\* However the starts of nodes interleave, a table is without its policy, and
\* denies everything to everybody, only while a node is between its DROP and
\* its CREATE, or after a process ended there.
MissingPolicyExplained ==
    \A t \in Tables \ policy : t \in orphaned \/ \E n \in Nodes : Between(n, t)

\* A node that starts while no other does gets through, whatever earlier starts
\* left behind: log.Fatalf for an existing policy or a failed seeding needs two.
AloneIsAdmitted ==
    \A n \in Nodes : Refused(n) => ~ boot[n].alone

\* "seeds a development tenant and agent when the database is empty"
\* (postgres.go:160): also when the count reads 0 for want of a policy, nobody
\* becomes owner in a database that has other tenants.
DevOnlyIfEmpty ==
    DevTenant \in tenants => tenants = {DevTenant}

\* The agents who may manage the roles of tenant t.
Managers(t) == {a \in Agents : TenantOf[a] = t /\ Can(role[a], "manage_roles")}

ManageUnderWay(t) ==
    \E a \in Agents : TenantOf[a] = t /\ request[a].stage = "set"

\* A tenant whose managers are all gone, also by requests that were admitted while
\* there was one, gets none back: no request of another tenant and no restart
\* makes one.
LockedOut ==
    [][\A t \in tenants :
        Managers(t) = {} /\ ~ ManageUnderWay(t) => Managers(t)' = {}]_vars

\* Memory and audit entry are two transactions: a memory is without its entry only
\* while it is about to be written, where the writing failed, or where the node never
\* learnt that the memory is there; and no entry is of a memory that was not stored,
\* or that its client was told was not.
AuditTrail ==
    /\ audited \subseteq stored \ unanswered
    /\ \A a \in stored :
          a \in audited \cup unaudited \cup unanswered \/ request[a].stage = "audit"
=============================================================================
