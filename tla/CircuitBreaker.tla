--------------------------- MODULE CircuitBreaker ---------------------------
(***************************************************************************)
(* The circuit breaker around the embedding service:                       *)
(* src/internal/core/reliability.go (CircuitBreaker, ReliableEmbedder).    *)
(*                                                                         *)
(* Every Store and Retrieve call runs on a goroutine of its own and goes   *)
(* through the one breaker of the process.  Execute holds the mutex before *)
(* and after the protected call and not during it, so any number of calls  *)
(* are under way while the state changes, and a call may end in another    *)
(* state than it began in.                                                 *)
(*                                                                         *)
(* Abstraction: the clock is one bit, whether the timeout has passed since *)
(* lastFailure; the failure count saturates at the threshold, because only *)
(* that comparison is made of it.                                          *)
(***************************************************************************)
EXTENDS Naturals

CONSTANTS
    Calls,        \* the goroutines that call Generate
    Threshold     \* threshold (3)

ASSUME CircuitBreakerAssumption == Threshold \in Nat \ {0}

VARIABLES
    state,        \* state
    failureCount, \* failureCount, saturating at Threshold
    timedOut,     \* time.Since(lastFailure) > timeout
    calling,      \* the calls inside fn()
    failing       \* whether calls to the service can fail (environment)

vars == <<state, failureCount, timedOut, calling, failing>>

\* lastFailure is the zero time: the timeout has long passed.
Init ==
    /\ state = "closed"
    /\ failureCount = 0
    /\ timedOut = TRUE
    /\ calling = {}
    /\ failing \in BOOLEAN

\* The first critical section of Execute: an open breaker rejects the call, unless
\* the timeout has passed; then it is half-open, for this call and all others.
Admit(c) ==
    /\ c \notin calling
    /\ state = "open" => timedOut
    /\ state' = IF state = "open" THEN "half-open" ELSE state
    /\ calling' = calling \cup {c}
    /\ UNCHANGED <<failureCount, timedOut, failing>>

\* Mutant of Trips: one failure more.
TripsLate(count) == count > Threshold

\* The comparison with the threshold.
Trips(count) == count >= Threshold

\* Mutant of Fail: the count starts anew when the breaker opens.
FailAndReset(c) ==
    /\ c \in calling /\ failing
    /\ calling' = calling \ {c}
    /\ timedOut' = FALSE
    /\ failureCount' = IF Trips(failureCount + 1) THEN 0 ELSE failureCount + 1
    /\ state' = IF Trips(failureCount + 1) THEN "open" ELSE state
    /\ UNCHANGED failing

\* The second critical section, after an error (the service's, or the context of
\* the client that gave up waiting).
Fail(c) ==
    /\ c \in calling /\ failing
    /\ calling' = calling \ {c}
    /\ timedOut' = FALSE
    /\ LET count == failureCount + 1
       IN  /\ failureCount' = IF count < Threshold THEN count ELSE Threshold
           /\ state' = IF Trips(count) THEN "open" ELSE state
    /\ UNCHANGED failing

\* Mutant of Succeed: the breaker stays half-open.
SucceedHalfOpen(c) ==
    /\ c \in calling
    /\ calling' = calling \ {c}
    /\ UNCHANGED <<state, failureCount, timedOut, failing>>

\* The second critical section, after a result.
Succeed(c) ==
    /\ c \in calling
    /\ calling' = calling \ {c}
    /\ IF state = "half-open"
       THEN state' = "closed" /\ failureCount' = 0
       ELSE UNCHANGED <<state, failureCount>>
    /\ UNCHANGED <<timedOut, failing>>

\* The timeout passes.
Elapse ==
    /\ ~ timedOut
    /\ timedOut' = TRUE
    /\ UNCHANGED <<state, failureCount, calling, failing>>

\* The service breaks down or recovers.
ServiceChanges ==
    /\ failing' = ~ failing
    /\ UNCHANGED <<state, failureCount, timedOut, calling>>

Next ==
    \/ \E c \in Calls : Admit(c) \/ Fail(c) \/ Succeed(c)
    \/ Elapse
    \/ ServiceChanges

Spec == Init /\ [][Next]_vars

\* Time passes, a call that is under way ends, and clients keep calling: the
\* breaker has no timer of its own and closes only on a call.
Fairness ==
    /\ WF_vars(Elapse)
    /\ WF_vars(\E c \in Calls : Admit(c))
    /\ \A c \in Calls : WF_vars(Fail(c) \/ Succeed(c))

FairSpec == Spec /\ Fairness

-----------------------------------------------------------------------------
(* Properties. *)

TypeOK ==
    /\ state \in {"closed", "open", "half-open"}
    /\ failureCount \in 0 .. Threshold
    /\ timedOut \in BOOLEAN
    /\ calling \subseteq Calls
    /\ failing \in BOOLEAN

\* The breaker is closed exactly when fewer failures than the threshold have been
\* counted since it last closed, whatever calls end late in a state they did
\* not begin in.
ClosedBelowThreshold == state = "closed" <=> failureCount < Threshold

\* While it is half-open one failure, of whatever call, opens it again: the
\* probes that are still under way cannot keep it half-open.
OneFailureReopens ==
    [][state = "half-open" /\ ~ timedOut' => state' = "open"]_vars

\* A service that works again for good is used again for good: no order of late
\* answers leaves the breaker open or half-open.
RecoversWithService == <>[](~ failing) => <>[](state = "closed")
=============================================================================
