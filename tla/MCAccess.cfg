\* Two nodes start, end and start again on an empty database or one with two other
\* tenants; every agent may ask for every change.
SPECIFICATION Spec
CONSTANTS
    n1 = n1
    n2 = n2
    dev = dev
    alice = alice
    bob = bob
    devTenant = devTenant
    acme = acme
    umbra = umbra
    Nodes = {n1, n2}
    Agents = {dev, alice, bob}
    Tenants = {devTenant, acme, umbra}
    TenantOf <- TenantsOfAgents
    Dev = dev
    Requested = {"admin", "observer"}
    Binding = TRUE
INVARIANTS
    TypeOK
    MissingPolicyExplained
    AloneIsAdmitted
    DevOnlyIfEmpty
    AuditTrail
PROPERTIES
    LockedOut
