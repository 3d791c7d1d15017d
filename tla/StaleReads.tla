----------------------------- MODULE StaleReads -----------------------------
(***************************************************************************)
(* What a reader of a cached store may rely on: a read returns a value the *)
(* key has now, or had at most Bound ticks ago.  A key may change at any   *)
(* time and a read does not have to be of the last value, nor of a later   *)
(* one than the read before it.                                            *)
(***************************************************************************)
EXTENDS Naturals

CONSTANTS Keys, Values, Bound

VARIABLES
    current,    \* current[k]: the value of k now
    since,      \* since[k][v]: the ticks since k had value v, at most Bound + 1
    read        \* what the last step has read: nothing, or a key and a value

LongAgo == Bound + 1

StaleInit ==
    /\ current \in [Keys -> Values]
    /\ since = [k \in Keys |-> [v \in Values |-> LongAgo]]
    /\ read = {}

\* A key changes; what it was is old from now on.
Change ==
    /\ current' \in [Keys -> Values]
    /\ since' = [k \in Keys |-> [v \in Values |->
          IF v = current[k] /\ current'[k] # v THEN 0 ELSE since[k][v]]]
    /\ read' = {}

Tick ==
    /\ since' = [k \in Keys |-> [v \in Values |->
          IF since[k][v] < LongAgo THEN since[k][v] + 1 ELSE LongAgo]]
    /\ UNCHANGED current
    /\ read' = {}

Read ==
    /\ \E k \in Keys, v \in Values :
          /\ v = current[k] \/ since[k][v] <= Bound
          /\ read' = {<<k, v>>}
    /\ UNCHANGED <<current, since>>

\* The reader does something else.
Pause == read' = {} /\ UNCHANGED <<current, since>>

StaleNext == Change \/ Tick \/ Read \/ Pause

StaleSpec == StaleInit /\ [][StaleNext]_<<current, since, read>>
=============================================================================
