---------------------------- MODULE MCReflection ----------------------------
(* Instances of Reflection for TLC. *)
EXTENDS Reflection

CONSTANTS w1, w2, a, b, t

OneTenant == [m \in Memories |-> t]
TwoAgents == [m \in Memories |-> IF m <= 2 THEN a ELSE b]

Important == [m \in Memories |-> 7]

OldestNull == [m \in Memories |-> IF m = 1 THEN "json null" ELSE "object"]

Both == [w \in Workers |-> IF w = w1 THEN "reflection" ELSE "consolidation"]
=============================================================================
