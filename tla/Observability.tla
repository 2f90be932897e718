---------------------------- MODULE Observability ----------------------------
(***************************************************************************)
(* observability.py: threads that time their requests with RequestTimer,   *)
(* which tells the health tracker and then the metrics how they ended; the *)
(* metrics themselves, which a thread asks for with get_metrics and which  *)
(* reset_metrics replaces; and the tracker's state.                        *)
(*                                                                         *)
(* One operation, one tracker.  Durations, the buckets they fall into and  *)
(* the loggers are left out.                                               *)
(***************************************************************************)
EXTENDS Naturals, FiniteSetsExt, Functions

CONSTANTS Thread,
          failure_threshold,
          RequestMax,    \* bound: requests
          InstanceMax,   \* bound: instances of SDKMetrics
          None

ObservabilityAssumption ==
    /\ failure_threshold \in Nat \ {0} /\ RequestMax \in Nat /\ InstanceMax \in Nat \ {0}
    /\ None \notin Nat

\* What a request is counted as; set_status takes any string.
Status == {"success", "error", "partial"}
Instance == 1..InstanceMax
Idle == [at |-> "idle"]

VARIABLES metrics,    \* metrics[m]: an instance of SDKMetrics: requests_total, request_duration
          created,    \* how many instances there have been
          global,     \* _metrics: the instance, or None
          health,     \* HealthTracker
          thread      \* thread[t]: how far it is in a request

vars == <<metrics, created, global, health, thread>>

NewMetrics == [requests_total |-> [s \in Status |-> 0], request_duration |-> 0]

Init ==
    /\ metrics = [m \in Instance |-> NewMetrics] /\ created = 0
    /\ global = None
    /\ health = [state |-> "disconnected", consecutive_failures |-> 0]
    /\ thread = [t \in Thread |-> Idle]

-----------------------------------------------------------------------------
(* get_metrics and reset_metrics, which take no lock *)

\* The look at _metrics; without one the thread goes on to make one.
GetMetrics(t) ==
    /\ thread[t] = Idle
    /\ thread' = [thread EXCEPT ![t] = IF global = None THEN [at |-> "create"]
                                       ELSE [at |-> "has", metrics |-> global]]
    /\ UNCHANGED <<metrics, created, global, health>>

\* SDKMetrics(): what another thread has made meanwhile is replaced, and lives on with that thread.
CreateMetrics(t) ==
    /\ thread[t].at = "create" /\ created < InstanceMax
    /\ created' = created + 1 /\ global' = created'
    /\ thread' = [thread EXCEPT ![t] = [at |-> "has", metrics |-> created']]
    /\ UNCHANGED <<metrics, health>>

reset_metrics ==
    /\ created < InstanceMax
    /\ created' = created + 1 /\ global' = created'
    /\ UNCHANGED <<metrics, health, thread>>

-----------------------------------------------------------------------------
(* RequestTimer *)

\* __enter__
Enter(t) ==
    /\ thread[t].at = "has"
    /\ SumFunction([m \in Instance |-> metrics[m].request_duration])
         + Cardinality({u \in Thread : thread[u].at \in {"timed", "recorded", "counted"}}) < RequestMax
    /\ thread' = [thread EXCEPT ![t].at = "timed"]
    /\ UNCHANGED <<metrics, created, global, health>>

\* HealthTracker.record_success and record_failure
record_success == [state |-> "connected", consecutive_failures |-> 0]
record_failure ==
    LET failures == health.consecutive_failures + 1
    IN [state |-> IF failures >= failure_threshold THEN "failed" ELSE health.state,
        consecutive_failures |-> failures]

\* Mutant of CountedAs: what set_status said is counted even if the request raised.
SetStatusWins(raised, said) == IF raised /\ said = "success" THEN "error" ELSE said

\* The status of a request: an exception is an error whatever set_status said before.
CountedAs(raised, said) == IF raised THEN "error" ELSE said

\* __exit__: first the tracker is told whether the request raised, whatever set_status said,
Exit(t) ==
    /\ thread[t].at = "timed"
    /\ \E raised \in BOOLEAN, said \in Status :
        /\ health' = IF raised THEN record_failure ELSE record_success
        /\ thread' = [thread EXCEPT ![t] = [at |-> "recorded", metrics |-> @.metrics,
                                            status |-> CountedAs(raised, said)]]
    /\ UNCHANGED <<metrics, created, global>>

\* then record_request counts the request (Counter.inc)
CountRequest(t) ==
    /\ thread[t].at = "recorded"
    /\ metrics' = [metrics EXCEPT ![thread[t].metrics].requests_total[thread[t].status] = @ + 1]
    /\ thread' = [thread EXCEPT ![t].at = "counted"]
    /\ UNCHANGED <<created, global, health>>

\* and observes its duration (Histogram.observe).
ObserveDuration(t) ==
    /\ thread[t].at = "counted"
    /\ metrics' = [metrics EXCEPT ![thread[t].metrics].request_duration = @ + 1]
    /\ thread' = [thread EXCEPT ![t] = Idle]
    /\ UNCHANGED <<created, global, health>>

-----------------------------------------------------------------------------
(* What the application tells the tracker of the connection *)

\* set_connecting, set_reconnecting, set_disconnected
SetState(state) ==
    /\ health' = [health EXCEPT !.state = state]
    /\ UNCHANGED <<metrics, created, global, thread>>

\* get_status
IsHealthy == health.state = "connected" /\ health.consecutive_failures < failure_threshold

Next ==
    \/ reset_metrics
    \/ \E t \in Thread :
        \/ GetMetrics(t) \/ CreateMetrics(t) \/ Enter(t) \/ Exit(t)
        \/ CountRequest(t) \/ ObserveDuration(t)
    \/ \E state \in {"connecting", "reconnecting", "disconnected"} : SetState(state)

Spec == Init /\ [][Next]_vars

-----------------------------------------------------------------------------
\* The requests that are counted by now, in one instance or another, or are about to be
Counted(statuses) ==
    SumFunction([m \in Instance |-> SumFunction(Restrict(metrics[m].requests_total, statuses))])
    + Cardinality({t \in Thread : thread[t].at = "recorded" /\ thread[t].status \in statuses})

\* What the health tracker says is borne out by what the metrics count, though threads tell the one
\* before the other and in different orders, though get_metrics makes an instance twice and
\* reset_metrics replaces one in the middle of a request, and whatever set_status calls a request:
\* the consecutive failures are errors that are counted, or about to be, and a client that is
\* healthy has had a request that did not fail besides.  Of each instance, the requests by status
\* are the durations observed and those about to be (RequestTimer.__exit__, record_request).
MetricsAgree ==
    /\ health.consecutive_failures <= Counted({"error"})
    /\ IsHealthy => health.consecutive_failures < Counted(Status)
    /\ \A m \in Instance :
        SumFunction(metrics[m].requests_total) = metrics[m].request_duration
            + Cardinality({t \in Thread : thread[t].at = "counted" /\ thread[t].metrics = m})
=============================================================================
