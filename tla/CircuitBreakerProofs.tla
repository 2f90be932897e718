------------------------ MODULE CircuitBreakerProofs ------------------------
(***************************************************************************)
(* The circuit breaker is never stuck half open, for every threshold,      *)
(* duration and number of test requests.                                   *)
(***************************************************************************)
EXTENDS CircuitBreaker, TLAPS

\* Of the test requests let through since the circuit became half open, those that have not
\* succeeded are still under way; late outcomes of other requests only add successes.
TestsUnderWay ==
    state = "half_open" =>
        /\ half_open_successes < half_open_requests
        /\ half_open_total <= half_open_successes + pending

BreakerInv == TypeOK /\ TestsUnderWay

LEMMA BreakerInit == Init => BreakerInv
BY BreakerAssumption DEF Init, BreakerInv, TypeOK, TestsUnderWay

LEMMA BreakerStep == BreakerInv /\ [Next]_vars => BreakerInv'
<1> SUFFICES ASSUME BreakerInv, [Next]_vars PROVE BreakerInv'
    OBVIOUS
<1> USE BreakerAssumption DEF BreakerInv, TypeOK, TestsUnderWay
<1>1. CASE Tick
    BY <1>1 DEF Tick, windowVars, halfOpenVars
<1>2. CASE ReadState
    BY <1>2 DEF ReadState, windowVars
<1>3. CASE AllowAfterOpen
    BY <1>3 DEF AllowAfterOpen, windowVars
<1>4. CASE AllowClosed
    BY <1>4 DEF AllowClosed, windowVars, halfOpenVars
<1>5. CASE AllowHalfOpen
    BY <1>5 DEF AllowHalfOpen, windowVars
<1>6. CASE RecordSuccess
    <2>1. CASE state = "closed"
        BY <1>6, <2>1 DEF RecordSuccess, RecordInWindow, halfOpenVars
    <2>2. CASE state = "open"
        BY <1>6, <2>2 DEF RecordSuccess, windowVars, halfOpenVars
    <2>3. CASE state = "half_open"
        BY <1>6, <2>3 DEF RecordSuccess, ResetCounters, windowVars, halfOpenVars
    <2> QED
        BY <2>1, <2>2, <2>3
<1>7. CASE RecordFailure
    <2>1. CASE state = "closed"
        <3>1. CASE ThresholdExceeded
            BY <1>7, <2>1, <3>1 DEF RecordFailure, RecordInWindow, TransitionToOpen, halfOpenVars
        <3>2. CASE ~ThresholdExceeded
            BY <1>7, <2>1, <3>2 DEF RecordFailure, RecordInWindow, halfOpenVars
        <3> QED
            BY <3>1, <3>2
    <2>2. CASE state # "closed"
        <3>1. UNCHANGED windowVars /\ UNCHANGED now /\ pending' = pending - 1 /\ pending > 0
            BY <1>7, <2>2 DEF RecordFailure
        <3>2. UNCHANGED halfOpenVars /\ state' = "open" /\ opened_at' \in {now, opened_at}
            BY <1>7, <2>2 DEF RecordFailure, TransitionToOpen
        <3> QED
            BY <3>1, <3>2 DEF windowVars, halfOpenVars
    <2> QED
        BY <2>1, <2>2
<1>8. CASE ForceOpen
    BY <1>8 DEF ForceOpen, TransitionToOpen, windowVars, halfOpenVars
<1>9. CASE ForceClose
    BY <1>9 DEF ForceClose, ResetCounters
<1>10. CASE UNCHANGED vars
    BY <1>10 DEF vars, windowVars, halfOpenVars
<1> QED
    BY <1>1, <1>2, <1>3, <1>4, <1>5, <1>6, <1>7, <1>8, <1>9, <1>10 DEF Next

\* A half-open circuit always waits for outcomes that can close it, or has a test request left
\* to let through (_allow_half_open_request, record_success).
THEOREM BreakerNeverStuck == Spec => []HalfOpenNotStuck
<1>1. BreakerInv => HalfOpenNotStuck
    BY BreakerAssumption DEF BreakerInv, TypeOK, TestsUnderWay, HalfOpenNotStuck
<1> QED
    BY <1>1, BreakerInit, BreakerStep, PTL DEF Spec
=============================================================================
