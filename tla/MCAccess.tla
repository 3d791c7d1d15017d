----------------------------- MODULE MCAccess ------------------------------
(* Instances of Access for TLC. *)
EXTENDS Access

CONSTANTS n1, n2, dev, alice, bob, devTenant, acme, umbra

TenantsOfAgents ==
    [a \in Agents |-> IF a = dev THEN devTenant ELSE IF a = alice THEN acme ELSE umbra]
=============================================================================
