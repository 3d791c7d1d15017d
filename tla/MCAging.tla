------------------------------ MODULE MCAging -------------------------------
(* Instances of Aging for TLC. *)
EXTENDS Aging

CONSTANTS w1, w2

\* Memory 1 is only ever archived; memory 2, below 0.1, is deleted too.
OneWorthless == [m \in Memories |-> IF m = 1 THEN 2 ELSE 0]

NullOlder == [m \in Memories |-> IF m = 1 THEN "json null" ELSE "object"]
=============================================================================
