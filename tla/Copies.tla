------------------------------- MODULE Copies -------------------------------
(***************************************************************************)
(* What clients may rely on when memories are stored on one node and       *)
(* copied to others.  A store accepts a memory once; only from then on may *)
(* other stores get a copy of it; a copy, whichever of the two, is whole,  *)
(* and is never changed, replaced or withdrawn; a search finds only what   *)
(* the store it searches has a copy of.  When, where and whether a memory  *)
(* is copied is left open.                                                 *)
(***************************************************************************)

CONSTANTS Stores, Memories

VARIABLES
    copy,       \* copy[s][m]: what store s has of memory m
    searchable  \* searchable[s]: the memories a search in s finds

\* Nothing; what the client's call has written; what replication has written.
CopyKinds == {"none", "original", "replica"}

CopiesInit ==
    /\ copy = [s \in Stores |-> [m \in Memories |-> "none"]]
    /\ searchable = [s \in Stores |-> {}]

\* A client stores m in s: nobody has it yet.
Accept(s, m) ==
    /\ \A t \in Stores : copy[t][m] = "none"
    /\ copy' = [copy EXCEPT ![s][m] = "original"]
    /\ UNCHANGED searchable

\* Store s, which has nothing of m, gets it from the one that accepted it.
Replicate(s, m) ==
    /\ copy[s][m] = "none"
    /\ \E t \in Stores : copy[t][m] = "original"
    /\ copy' = [copy EXCEPT ![s][m] = "replica"]
    /\ UNCHANGED searchable

\* Searches in s find m from now on.
MakeSearchable(s, m) ==
    /\ copy[s][m] # "none"
    /\ searchable' = [searchable EXCEPT ![s] = @ \cup {m}]
    /\ UNCHANGED copy

CopiesNext ==
    \E s \in Stores, m \in Memories :
        Accept(s, m) \/ Replicate(s, m) \/ MakeSearchable(s, m)

CopiesSpec == CopiesInit /\ [][CopiesNext]_<<copy, searchable>>
=============================================================================
