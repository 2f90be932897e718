------------------------------- MODULE MCSdk --------------------------------
(***************************************************************************)
(* The parts of the Python SDK that do not act on each other's state, side *)
(* by side in one run: a behaviour is one of a single part, and the        *)
(* properties of the others hold of their initial states.                  *)
(***************************************************************************)
EXTENDS CircuitBreaker, Sequences

CONSTANTS None, a, b   \* two threads, entities or shards' events, as the part has it

VARIABLES part,
          clock, known, writes,
          time, closed, call, retries_total, retry_exhausted_total,
          events, named, submission, returned,
          written, latest, expired, walk, touched, lookup,
          stored, held, scatter,
          version, cache, routed,
          discovered, router, current, located, stats, prober, loop, failing,
          metrics, created, global, health, timed,
          eps, vertices, intersections,
          given, shape, text, trips, message

clocksVars == <<clock, known, writes>>
retryVars == <<time, closed, call, retries_total, retry_exhausted_total>>
batchVars == <<events, named, submission, returned>>
readsVars == <<written, latest, expired, walk, touched, lookup>>
gatherVars == <<stored, held, scatter>>
topologyVars == <<version, cache, routed>>
routingVars == <<discovered, router, current, located, stats, prober, loop, failing>>
metricsVars == <<metrics, created, global, health, timed>>
polygonsVars == <<eps, vertices, intersections>>
formatsVars == <<given, shape, text, trips, message>>
sdkVars == <<part, vars, clocksVars, retryVars, batchVars, readsVars, gatherVars, topologyVars,
             routingVars, metricsVars, polygonsVars, formatsVars>>

-----------------------------------------------------------------------------
Clocks == INSTANCE VectorClock WITH Region <- {"eu", "us", "ap"}, WriteMax <- 1

Config == [enabled |-> TRUE, max_retries |-> 2, base_backoff_ms |-> 1, max_backoff_ms |-> 3,
           total_timeout_ms |-> 4, jitter |-> TRUE]
NoOptions == [max_retries |-> None, base_backoff_ms |-> None, max_backoff_ms |-> None,
              timeout_ms |-> None, jitter |-> None]
Options == {[NoOptions EXCEPT !.max_retries = 0],
            [NoOptions EXCEPT !.timeout_ms = 2, !.max_retries = 3],
            [NoOptions EXCEPT !.base_backoff_ms = 3, !.jitter = FALSE]}
Retry == INSTANCE RetryLoop
            WITH Thread <- {a}, now <- time, NowMax <- 4,
                 Operation <- {"upsert_events", "query_uuid", "query_uuid_batch", "query_radius",
                               "ping", "get_topology"}

Batch == INSTANCE EventBatch WITH BatchSizeMax <- 2, EventMax <- 4

Reads == INSTANCE Queries WITH Entity <- {"x", "y", "z"}, Limit <- 1, OutputMax <- 2, LookupMax <- 2,
                               ClockMax <- 3, clock <- written

Gather == INSTANCE ScatterGather WITH Entity <- {"x", "y"}, ShardMax <- 2, LimitMax <- 2, ClockMax <- 2,
                                      clock <- stored

Topology == INSTANCE TopologyCache
                WITH Entity <- {"x"}, Thread <- {a, b}, ShardsOf <- <<2, 1, 2>>,
                     SlotsOf <- <<1, 2, 2>>, HashOf <- [e \in {"x"} |-> 1], thread <- routed

Routing == INSTANCE GeoRouting
                WITH Region <- <<"eu", "us">>, Nearest <- <<"us", "eu">>, preferred_region <- None,
                     failover_enabled <- TRUE, probe_sample_count <- 1, unhealthy_threshold <- 1,
                     Rtt <- {1}, Loop <- {"l"}, FailureMax <- 1

Metrics == INSTANCE Observability WITH Thread <- {a, b}, failure_threshold <- 2, RequestMax <- 3,
                                       InstanceMax <- 2, thread <- timed

Polygons == INSTANCE Polygon WITH GridMax <- 2, VertexMax <- 4, Eps <- {1, 2}

Formats == INSTANCE GeoFormats
               WITH Point <- {<<488284, -15>>, <<-2000000, 60>>}, Short <- {488284, 488283, -15, 60},
                    ExponentMax <- 100000, LatMax <- 1000000, LonMax <- 1000000, VerticesMax <- 3,
                    HolesMax <- 1, HoleVerticesMin <- 3, U32Max <- 3, RadiusMax <- 8, TripMax <- 2

ASSUME PartsAssumption ==
    /\ Retry!RetryAssumption /\ Batch!BatchAssumption /\ Reads!QueryAssumption
    /\ Gather!ScatterAssumption /\ Topology!TopologyAssumption /\ Routing!GeoRoutingAssumption
    /\ Metrics!ObservabilityAssumption /\ Polygons!PolygonAssumption
    /\ Formats!FormatsAssumption

\* No error is retried that says of itself that it is not retryable.  (The converse does not
\* hold: of the retryable errors of errors.py, only those are retried whose message has a word.)
ASSUME RetriedIsRetryable ==
    \A error \in Retry!AllErrors : Retry!IsRetryableError(error) => Retry!SaysRetryable(error)

\* Words of eight bits: adding a shard moves entities to it and nowhere else, up to nine shards,
\* and the keys of entities are mixed without loss (types.py, jump_hash and compute_shard_key).
Shards == INSTANCE Sharding
              WITH WordBits <- 8, Shift <- 4, Multiplier <- 253, C1 <- 205, C2 <- 83

ASSUME ShardsAreStable ==
    /\ Shards!ShardingAssumption
    /\ \A num_shards \in 1..8 : Shards!MovesToNewShards(num_shards)
    /\ Shards!MixesAll

\* Whatever the size of the chunks, split_batch loses, doubles and reorders nothing, and makes no
\* chunk that is empty or too large.
ASSUME SplitIsExact ==
    \A size \in 1..5, length \in 0..7 :
        LET items == [i \in 1..length |-> i]
            chunks == Batch!SplitBatch(items, size)
        IN /\ Batch!FlattenSeq(chunks) = items
           /\ \A i \in DOMAIN chunks : Len(chunks[i]) \in 1..size

-----------------------------------------------------------------------------
SdkInit ==
    /\ part \in {"breaker", "clocks", "retry", "batch", "reads", "gather", "topology", "routing",
                 "metrics", "polygons", "formats"}
    /\ Init /\ Clocks!Init /\ Retry!Init /\ Batch!Init /\ Reads!Init /\ Gather!Init
    /\ Topology!Init /\ Routing!Init /\ Metrics!Init /\ Polygons!Init
    /\ Formats!Init
    /\ part # "polygons" => eps = 1

SdkNext ==
    /\ UNCHANGED part
    /\ IF part = "breaker" THEN Next ELSE UNCHANGED vars
    /\ IF part = "clocks" THEN Clocks!Next ELSE UNCHANGED clocksVars
    /\ IF part = "retry" THEN Retry!Next ELSE UNCHANGED retryVars
    /\ IF part = "batch" THEN Batch!Next ELSE UNCHANGED batchVars
    /\ IF part = "reads" THEN Reads!Next ELSE UNCHANGED readsVars
    /\ IF part = "gather" THEN Gather!Next ELSE UNCHANGED gatherVars
    /\ IF part = "topology" THEN Topology!Next ELSE UNCHANGED topologyVars
    /\ IF part = "routing" THEN Routing!Next ELSE UNCHANGED routingVars
    /\ IF part = "metrics" THEN Metrics!Next ELSE UNCHANGED metricsVars
    /\ IF part = "polygons" THEN Polygons!Next ELSE UNCHANGED polygonsVars
    /\ IF part = "formats" THEN Formats!Next ELSE UNCHANGED formatsVars

\* Fairness: that of the threads that route (TopologyCache).
SdkSpec ==
    /\ SdkInit /\ [][SdkNext]_sdkVars
    /\ \A t \in {a, b} : WF_sdkVars(part = "topology" /\ Topology!Continues(t) /\ SdkNext)

\* Bound: requests counted in one window of the circuit breaker.
FewRequests == total_requests <= 4

-----------------------------------------------------------------------------
\* The properties of the parts, each under its own name (CircuitBreaker's needs none).
ClocksTellCausality == Clocks!ClocksTellCausality
BatchSettled == Batch!BatchSettled
ScatterShowsNewest == Gather!ScatterShowsNewest
FailsOver == Routing!FailsOver
MetricsAgree == Metrics!MetricsAgree
FindsEveryCrossing == Polygons!FindsEveryCrossing
ShapesArrive == Formats!ShapesArrive
=============================================================================
