--------------------------- MODULE CircuitBreaker ---------------------------
(***************************************************************************)
(* The circuit breaker of the Python SDK (CircuitBreaker of client.py):    *)
(* callers ask it before a request and tell it the outcome afterwards.     *)
(* Every method runs under _lock, so that a method is one step, but the    *)
(* steps of callers interleave, and an outcome may be told long after the  *)
(* breaker has opened, tested and closed again.  The clock is time.time(), *)
(* which an administrator may set back.                                    *)
(***************************************************************************)
EXTENDS Integers

CONSTANTS minimum_requests, window_ms, open_duration_ms, half_open_requests,
          ThresholdPercent,   \* failure_threshold, in percent
          NowMax,             \* bound: times are 0..NowMax
          PendingMax          \* bound: requests under way at a time

ASSUME BreakerAssumption ==
    /\ minimum_requests \in Nat \ {0} /\ half_open_requests \in Nat \ {0}
    /\ window_ms \in Nat /\ open_duration_ms \in Nat
    /\ ThresholdPercent \in 0..100 /\ NowMax \in Nat /\ PendingMax \in Nat

VARIABLES now, state, opened_at, total_requests, failed_requests, window_start_ms,
          half_open_successes, half_open_total,
          pending    \* requests let through whose outcome has not been told

windowVars == <<total_requests, failed_requests, window_start_ms>>
halfOpenVars == <<half_open_successes, half_open_total>>
vars == <<now, state, opened_at, windowVars, halfOpenVars, pending>>

Init ==
    /\ now = 0 /\ state = "closed" /\ opened_at = 0
    /\ total_requests = 0 /\ failed_requests = 0 /\ window_start_ms = now
    /\ half_open_successes = 0 /\ half_open_total = 0
    /\ pending = 0

\* The clock goes on, or is set back.
Tick == now' \in 0..NowMax /\ UNCHANGED <<state, opened_at, windowVars, halfOpenVars, pending>>

OpenElapsed == state = "open" /\ now - opened_at >= open_duration_ms

\* _transition_to(OPEN), or force_open of a breaker in any state.
TransitionToOpen == state' = "open" /\ opened_at' = now

\* The property `state`: an open circuit whose time is over is half open.
ReadState ==
    /\ OpenElapsed
    /\ state' = "half_open"
    /\ half_open_successes' = 0 /\ half_open_total' = 0
    /\ UNCHANGED <<now, opened_at, windowVars, pending>>

\* Mutant of AllowAfterOpen: the counters of the last test phase go on.
AllowKeepsCounters ==
    /\ OpenElapsed /\ pending < PendingMax
    /\ half_open_total < half_open_requests
    /\ state' = "half_open" /\ half_open_total' = half_open_total + 1
    /\ pending' = pending + 1
    /\ UNCHANGED <<now, opened_at, windowVars, half_open_successes>>

\* allow_request of an open circuit whose time is over: the first test request.
AllowAfterOpen ==
    /\ OpenElapsed /\ pending < PendingMax
    /\ state' = "half_open"
    /\ half_open_successes' = 0 /\ half_open_total' = 1
    /\ pending' = pending + 1
    /\ UNCHANGED <<now, opened_at, windowVars>>

\* allow_request of a closed circuit.
AllowClosed ==
    /\ state = "closed" /\ pending < PendingMax
    /\ pending' = pending + 1
    /\ UNCHANGED <<now, state, opened_at, windowVars, halfOpenVars>>

\* _allow_half_open_request: a test request, of which there are half_open_requests.
AllowHalfOpen ==
    /\ state = "half_open" /\ pending < PendingMax
    /\ half_open_total < half_open_requests
    /\ half_open_total' = half_open_total + 1
    /\ pending' = pending + 1
    /\ UNCHANGED <<now, state, opened_at, windowVars, half_open_successes>>

\* _record_in_window: the window starts anew when it is over.
RecordInWindow(failed) ==
    LET over == now - window_start_ms >= window_ms
    IN /\ window_start_ms' = IF over THEN now ELSE window_start_ms
       /\ total_requests' = IF over THEN 1 ELSE total_requests + 1
       /\ failed_requests' = (IF over THEN 0 ELSE failed_requests) + (IF failed THEN 1 ELSE 0)

\* _check_threshold
ThresholdExceeded ==
    /\ total_requests' >= minimum_requests
    /\ 100 * failed_requests' >= ThresholdPercent * total_requests'

\* _reset_counters
ResetCounters == total_requests' = 0 /\ failed_requests' = 0 /\ window_start_ms' = now

\* record_success of a request let through earlier, in whatever state the circuit was then.
RecordSuccess ==
    /\ pending > 0 /\ pending' = pending - 1
    /\ \/ state = "closed" /\ RecordInWindow(FALSE) /\ UNCHANGED <<state, halfOpenVars>>
       \/ state = "open" /\ UNCHANGED <<state, windowVars, halfOpenVars>>
       \/ /\ state = "half_open" /\ half_open_successes' = half_open_successes + 1
          /\ IF half_open_successes' >= half_open_requests THEN state' = "closed" /\ ResetCounters
             ELSE UNCHANGED <<state, windowVars>>
          /\ UNCHANGED half_open_total
    /\ UNCHANGED <<now, opened_at>>

\* record_failure
RecordFailure ==
    /\ pending > 0 /\ pending' = pending - 1
    /\ \/ /\ state = "closed" /\ RecordInWindow(TRUE)
          /\ IF ThresholdExceeded THEN TransitionToOpen ELSE UNCHANGED <<state, opened_at>>
       \/ state = "open" /\ UNCHANGED <<state, opened_at, windowVars>>
       \/ state = "half_open" /\ TransitionToOpen /\ UNCHANGED windowVars
    /\ UNCHANGED <<now, halfOpenVars>>

\* force_open and force_close
ForceOpen == TransitionToOpen /\ UNCHANGED <<now, windowVars, halfOpenVars, pending>>
ForceClose ==
    /\ state' = "closed" /\ ResetCounters
    /\ half_open_successes' = 0 /\ half_open_total' = 0
    /\ UNCHANGED <<now, opened_at, pending>>

Next ==
    \/ Tick \/ ReadState \/ AllowAfterOpen \/ AllowClosed \/ AllowHalfOpen
    \/ RecordSuccess \/ RecordFailure \/ ForceOpen \/ ForceClose

Spec == Init /\ [][Next]_vars

-----------------------------------------------------------------------------
\* The types, and the counters within what they count.
TypeOK ==
    /\ now \in Nat /\ opened_at \in Nat /\ window_start_ms \in Nat
    /\ state \in {"closed", "open", "half_open"}
    /\ total_requests \in Nat /\ failed_requests \in 0..total_requests
    /\ half_open_successes \in Nat /\ half_open_total \in Nat
    /\ pending \in Nat

\* A half-open circuit is never stuck: it lets a test request through, or as many outcomes are
\* still to be told as it needs to close, or to open again (the counters of _allow_half_open_request
\* and record_success, whatever late outcomes of earlier phases are counted among them).  Every
\* caller must tell the outcome: a test request that is never recorded is never replaced.
HalfOpenNotStuck ==
    state = "half_open" =>
        \/ half_open_total < half_open_requests
        \/ pending >= half_open_requests - half_open_successes /\ half_open_successes < half_open_requests
=============================================================================
