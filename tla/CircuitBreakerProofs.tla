------------------------ MODULE CircuitBreakerProofs ------------------------
(***************************************************************************)
(* Theorems about CircuitBreaker, for every set of calls and threshold.    *)
(*                                                                         *)
(* ClosedBelowThreshold is inductive: a failure raises the count and opens *)
(* the breaker at the threshold, whichever state it finds, and the count   *)
(* is reset by exactly the success that closes it.  OneFailureReopens      *)
(* needs one fact more, that a half-open breaker has seen its timeout pass *)
(* and no failure since: then a step that clears timedOut is a failure.    *)
(***************************************************************************)
EXTENDS CircuitBreaker, TLAPS

BInv == TypeOK /\ ClosedBelowThreshold

LEMMA InitBInv == Init => BInv
BY CircuitBreakerAssumption DEF Init, BInv, TypeOK, ClosedBelowThreshold

LEMMA NextBInv == BInv /\ [Next]_vars => BInv'
<1> SUFFICES ASSUME BInv, [Next]_vars PROVE BInv'
    OBVIOUS
<1>1. ASSUME NEW c \in Calls, Admit(c) PROVE BInv'
    <2>1. calling' \subseteq Calls /\ UNCHANGED <<failureCount, timedOut, failing>>
        BY <1>1 DEF Admit, BInv, TypeOK
    <2>2. state' \in {"closed", "open", "half-open"} /\ (state' = "closed" <=> state = "closed")
        BY <1>1 DEF Admit, BInv, TypeOK
    <2> QED
        BY <2>1, <2>2 DEF BInv, TypeOK, ClosedBelowThreshold
<1>2. ASSUME NEW c \in Calls, Fail(c) PROVE BInv'
    <2>1. calling' \subseteq Calls /\ timedOut' \in BOOLEAN /\ failing' \in BOOLEAN
        BY <1>2, Zenon DEF Fail, BInv, TypeOK
    <2>2. CASE failureCount + 1 < Threshold
        <3>1. failureCount' = failureCount + 1 /\ state' = state
            BY <1>2, <2>2, CircuitBreakerAssumption DEF Fail, Trips, BInv, TypeOK
        <3> QED
            BY <2>1, <2>2, <3>1, CircuitBreakerAssumption DEF BInv, TypeOK, ClosedBelowThreshold
    <2>3. CASE ~ (failureCount + 1 < Threshold)
        <3>1. failureCount' = Threshold /\ state' = "open"
            BY <1>2, <2>3, CircuitBreakerAssumption DEF Fail, Trips, BInv, TypeOK
        <3> QED
            BY <2>1, <3>1, CircuitBreakerAssumption DEF BInv, TypeOK, ClosedBelowThreshold
    <2> QED
        BY <2>2, <2>3
<1>3. ASSUME NEW c \in Calls, Succeed(c) PROVE BInv'
    <2>1. calling' \subseteq Calls /\ UNCHANGED <<timedOut, failing>>
        BY <1>3 DEF Succeed, BInv, TypeOK
    <2>2. \/ state' = "closed" /\ failureCount' = 0
          \/ UNCHANGED <<state, failureCount>>
        BY <1>3 DEF Succeed
    <2> QED
        BY <2>1, <2>2, CircuitBreakerAssumption DEF BInv, TypeOK, ClosedBelowThreshold
<1>4. CASE Elapse \/ ServiceChanges
    BY <1>4 DEF Elapse, ServiceChanges, BInv, TypeOK, ClosedBelowThreshold
<1>5. CASE UNCHANGED vars
    BY <1>5 DEF vars, BInv, TypeOK, ClosedBelowThreshold
<1> QED
    BY <1>1, <1>2, <1>3, <1>4, <1>5 DEF Next

LEMMA Invariance == Spec => []BInv
BY InitBInv, NextBInv, PTL DEF Spec

\* The type invariant.
THEOREM TypeCorrect == Spec => []TypeOK
BY Invariance, PTL DEF BInv

\* Closed means that fewer failures than the threshold have been counted, however
\* the calls overlap.
THEOREM ClosedMeansBelowThreshold == Spec => []ClosedBelowThreshold
BY Invariance, PTL DEF BInv

\* A half-open breaker has seen its timeout pass.
HalfOpenTimedOut == state = "half-open" => timedOut

\* Every failure opens a half-open breaker again.
THEOREM FailureReopens == Spec => OneFailureReopens
<1>1. Init => HalfOpenTimedOut
    BY DEF Init, HalfOpenTimedOut
<1>2. BInv /\ HalfOpenTimedOut /\ [Next]_vars
        => HalfOpenTimedOut' /\ (state = "half-open" /\ ~ timedOut' => state' = "open")
    <2> SUFFICES ASSUME BInv, HalfOpenTimedOut, [Next]_vars
                 PROVE  /\ HalfOpenTimedOut'
                        /\ state = "half-open" /\ ~ timedOut' => state' = "open"
        OBVIOUS
    <2>1. ASSUME NEW c \in Calls, Fail(c) PROVE state # "closed" => state' = "open"
        BY <2>1, CircuitBreakerAssumption DEF Fail, Trips, BInv, TypeOK, ClosedBelowThreshold
    <2>2. ASSUME NEW c \in Calls, Fail(c) PROVE state = "closed" => state' \in {"closed", "open"}
        BY <2>2 DEF Fail
    <2>3. ASSUME NEW c \in Calls, Admit(c) \/ Succeed(c)
          PROVE  HalfOpenTimedOut' /\ timedOut' = timedOut
        BY <2>3 DEF Admit, Succeed, HalfOpenTimedOut
    <2>4. CASE Elapse \/ ServiceChanges \/ UNCHANGED vars
        BY <2>4 DEF Elapse, ServiceChanges, vars, HalfOpenTimedOut
    <2> QED
        BY <2>1, <2>2, <2>3, <2>4 DEF Next, HalfOpenTimedOut
<1> QED
    BY <1>1, <1>2, Invariance, PTL DEF Spec, OneFailureReopens
=============================================================================
