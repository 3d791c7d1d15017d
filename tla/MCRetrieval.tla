---------------------------- MODULE MCRetrieval -----------------------------
(* Instances of Retrieval for TLC. *)
EXTENDS Retrieval

\* The older memory could be lowered three times, the other one once.
Tenths == [m \in Memories |-> IF m = 1 THEN 3 ELSE 1]

AllContradict == {{a, b} : a, b \in Memories} \ {{a} : a \in Memories}

\* One after the other.
InOrder == {[m \in Memories |-> m]}
=============================================================================
