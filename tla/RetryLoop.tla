------------------------------ MODULE RetryLoop ------------------------------
(***************************************************************************)
(* The retry loop of the Python SDK with its clock (RetryConfig,           *)
(* OperationOptions, _calculate_retry_delay, _with_retry_sync of           *)
(* client.py; _with_retry_async is the same loop around an await), around  *)
(* the operations of both clients.                                         *)
(*                                                                         *)
(* The loop measures with time.time(), which may be set back or forth      *)
(* between any two of its steps, and sleeps by another clock.  Times are   *)
(* small integers.                                                         *)
(***************************************************************************)
EXTENDS SdkOperations, FiniteSetsExt

CONSTANTS Thread,
          Config,      \* the RetryConfig of the client
          Options,     \* the OperationOptions that callers pass
          None,        \* an option that is not given
          Operation,   \* the operations that are called, of AllOperations
          NowMax       \* bound: times are 0..NowMax

RetryAssumption ==
    /\ Config \in [enabled : BOOLEAN, max_retries : Nat, base_backoff_ms : Nat,
                   max_backoff_ms : Nat, total_timeout_ms : Nat, jitter : BOOLEAN]
    /\ Operation \subseteq AllOperations /\ NowMax \in Nat

VARIABLES now,                     \* time.time(), in ms
          closed,                  \* _closed of the client
          call,                    \* call[t]: where thread t is in its call
          retries_total,           \* the two counters of SDKMetrics
          retry_exhausted_total

vars == <<now, closed, call, retries_total, retry_exhausted_total>>

\* OperationOptions.merge_with
MergeWith(options, base) ==
    LET Or(option, default) == IF option # None THEN option ELSE default
    IN [enabled |-> base.enabled,
        max_retries |-> Or(options.max_retries, base.max_retries),
        base_backoff_ms |-> Or(options.base_backoff_ms, base.base_backoff_ms),
        max_backoff_ms |-> Or(options.max_backoff_ms, base.max_backoff_ms),
        total_timeout_ms |-> Or(options.timeout_ms, base.total_timeout_ms),
        jitter |-> Or(options.jitter, base.jitter)]

\* _calculate_retry_delay: every delay that the random jitter may give.
RetryDelay(attempt, config) ==
    IF attempt <= 1 THEN {0}
    ELSE LET base == config.base_backoff_ms * 2 ^ (attempt - 2)
             delay == IF base < config.max_backoff_ms THEN base ELSE config.max_backoff_ms
         IN IF config.jitter /\ delay > 0 THEN delay..(delay + (delay + 1) \div 2 - 1) ELSE {delay}

NoCall == [at |-> "idle", client |-> "sync", operation |-> None, config |-> Config, start |-> 0, attempt |-> 0, wake |-> 0,
           made |-> 0, error |-> NoError, raised |-> "nothing", attempts |-> 0]

Init ==
    /\ now = 0 /\ closed = FALSE
    /\ call = [t \in Thread |-> NoCall]
    /\ retries_total = 0 /\ retry_exhausted_total = 0

At(t, place) == call[t].at = place
Elapsed(t) == now - call[t].start
TotalTimeout(t) == call[t].config.total_timeout_ms

\* Time passes, or the clock is set.
Tick == now' \in 0..NowMax /\ UNCHANGED <<closed, call, retries_total, retry_exhausted_total>>

\* close, as far as the loop can see it.
Close ==
    /\ ~closed /\ closed' = TRUE
    /\ UNCHANGED <<now, call, retries_total, retry_exhausted_total>>

\* The configurations that a call may have: with options of its own, where it takes any.
Configs(client, operation) ==
    {Config} \cup (IF TakesOptions(client, operation)
                   THEN {MergeWith(options, Config) : options \in Options} ELSE {})

\* A thread, or a task of the async client, calls an operation; a closed client refuses it.
Call(t, client, operation) ==
    /\ At(t, "idle")
    /\ \E config \in Configs(client, operation) :
        LET new == [NoCall EXCEPT !.client = client, !.operation = operation, !.config = config]
        IN call' = [call EXCEPT ![t] =
            IF closed
            THEN [new EXCEPT !.at = "done", !.error = ClientClosedError, !.raised = "error"]
            ELSE [new EXCEPT !.at = IF config.enabled THEN "top" ELSE "only",
                             !.start = now, !.attempt = 1]]
    /\ UNCHANGED <<now, closed, retries_total, retry_exhausted_total>>

\* RetryExhausted(attempts, last_error)
Exhausted(t, attempts) ==
    /\ call' = [call EXCEPT ![t].at = "done", ![t].raised = "RetryExhausted", ![t].attempts = attempts]
    /\ retry_exhausted_total' = retry_exhausted_total + 1

\* The top of the loop: the metric, the total timeout, the attempt.
Top(t) ==
    /\ At(t, "top")
    /\ retries_total' = retries_total + (IF call[t].attempt > 1 THEN 1 ELSE 0)
    /\ IF Elapsed(t) >= TotalTimeout(t) THEN Exhausted(t, call[t].attempt - 1)
       ELSE /\ call' = [call EXCEPT ![t].at = "operation", ![t].made = @ + 1]
            /\ UNCHANGED retry_exhausted_total
    /\ UNCHANGED <<now, closed>>

\* What an attempt of the call can come to: a closed client is refused by the operations that
\* look at _closed in every attempt.
AttemptOutcomes(t) ==
    IF closed /\ call[t].client = "sync" /\ Reconnects(call[t].operation)
    THEN {Raises(ClientClosedError)}
    ELSE Outcomes(call[t].client, call[t].operation)

\* The attempt returns.
Succeeds(t) ==
    /\ At(t, "operation") \/ At(t, "only")
    /\ \E outcome \in AttemptOutcomes(t) : outcome.error = NoError
    /\ call' = [call EXCEPT ![t].at = "done"]
    /\ UNCHANGED <<now, closed, retries_total, retry_exhausted_total>>

\* The next attempt begins before the total timeout.
FitsTimeout(t, delay) == Elapsed(t) + delay < TotalTimeout(t)


LastAttempt(t) == call[t].attempt >= call[t].config.max_retries + 1

\* The attempt raises an error: it is raised on, or the loop gives up or sleeps.
Fails(t) ==
    /\ At(t, "operation") \/ At(t, "only")
    /\ \E error \in {outcome.error : outcome \in AttemptOutcomes(t)} \ {NoError} :
        \/ /\ At(t, "only") \/ ~IsRetryableError(error)
           /\ call' = [call EXCEPT ![t].at = "done", ![t].error = error, ![t].raised = "error"]
           /\ UNCHANGED retry_exhausted_total
        \/ /\ At(t, "operation") /\ IsRetryableError(error)
           /\ \E delay \in RetryDelay(call[t].attempt + 1, call[t].config) :
                IF LastAttempt(t) \/ ~FitsTimeout(t, delay)
                THEN /\ call' = [call EXCEPT ![t].at = "done", ![t].error = error,
                                             ![t].raised = "RetryExhausted",
                                             ![t].attempts = call[t].config.max_retries + 1]
                     /\ retry_exhausted_total' = retry_exhausted_total + 1
                ELSE /\ call' = [call EXCEPT ![t].at = "sleep", ![t].error = error,
                                             ![t].wake = now + delay]
                     /\ UNCHANGED retry_exhausted_total
    /\ UNCHANGED <<now, closed, retries_total>>

\* time.sleep ends: not before its time, by a clock that nobody sets.
Wakes(t) ==
    /\ At(t, "sleep")
    /\ call' = [call EXCEPT ![t].at = "top", ![t].attempt = @ + 1]
    /\ UNCHANGED <<now, closed, retries_total, retry_exhausted_total>>

Next ==
    \/ Tick \/ Close
    \/ \E t \in Thread :
        \/ Top(t) \/ Succeeds(t) \/ Fails(t) \/ Wakes(t)
        \/ \E client \in {"sync", "async"}, operation \in Operation : Call(t, client, operation)

Spec == Init /\ [][Next]_vars

-----------------------------------------------------------------------------
=============================================================================
