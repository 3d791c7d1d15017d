------------------------------ MODULE MCGossip ------------------------------
(* Instances of Gossip for TLC. *)
EXTENDS Gossip

StopOnly  == {"stop"}
CrashOnly == {"crash"}
AnyFault  == {"crash", "stop", "lose"}
=============================================================================
