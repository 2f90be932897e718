----------------------------- MODULE GeoRouting ------------------------------
(***************************************************************************)
(* geo_routing.py: the router of the Python SDK that discovers regions,    *)
(* probes their latency from a background thread, selects one of them and  *)
(* fails over to another when the application says its connection failed.  *)
(*                                                                         *)
(* The calls of the router are made one after the other; the loops of the  *)
(* prober run beside them and beside each other, for stop waits 2 s for    *)
(* a loop that may be in a probe of 5 s.  The discovery service and what a *)
(* probe finds are external.  A latency is one of a few round-trip times,  *)
(* and the metrics are left out.                                           *)
(***************************************************************************)
EXTENDS Integers, SequencesExt, FiniteSetsExt

CONSTANTS Region,              \* the regions, in the order the service lists them
          preferred_region,    \* of Region, or None
          failover_enabled,
          probe_sample_count, unhealthy_threshold,
          Rtt,                 \* the round-trip times a probe may measure
          Nearest,             \* the regions by their distance from the client, nearest first
          Loop,                \* bound: loops of the prober at the same time
          FailureMax,          \* bound: consecutive failures that are counted
          None

GeoRoutingAssumption ==
    /\ Region \in Seq(STRING) /\ IsInjective(Region) /\ ToSet(Nearest) = ToSet(Region)
    /\ preferred_region \in ToSet(Region) \cup {None}
    /\ failover_enabled \in BOOLEAN
    /\ probe_sample_count \in Nat \ {0} /\ unhealthy_threshold \in Nat \ {0}
    /\ Rtt \subseteq Nat /\ FailureMax \in Nat

Name == ToSet(Region)
At(order, r) == CHOOSE i \in DOMAIN order : order[i] = r
First(order, regions) == CHOOSE r \in regions : \A q \in regions : At(order, r) <= At(order, q)

VARIABLES discovered,  \* the cache of RegionDiscoveryClient: [Region -> healthy] of those listed, or None
          router,      \* GeoRouter: its regions and its endpoint, which is the name of the region
          current,     \* _current_region of the selector
          located,     \* whether the client's location is known
          stats,       \* stats[r]: RegionLatencyStats, or None
          prober,      \* its regions, and whether it runs
          loop,        \* loop[l]: what loop l has left of its round, or None
          failing      \* the handle_failure under way, or None

vars == <<discovered, router, current, located, stats, prober, loop, failing>>

NoRegions == [r \in {} |-> TRUE]

Init ==
    /\ discovered = None
    /\ router = [regions |-> NoRegions, endpoint |-> None]
    /\ current = None /\ located = FALSE
    /\ stats = [r \in Name |-> None]
    /\ prober = [regions |-> {}, running |-> FALSE]
    /\ loop = [l \in Loop |-> None]
    /\ failing = None

-----------------------------------------------------------------------------
(* RegionDiscoveryClient *)

\* What the service answers: some of the regions, each with whether it is healthy.
Listings == UNION {[names -> BOOLEAN] : names \in SUBSET Name}

\* discover, discover_async, _fetch_sync, _fetch_async: the cached regions unless they expired or
\* are to be refreshed; else what is fetched, or, when that fails, the cached ones again.
Discover(force_refresh, regions) ==
    \/ discovered # None /\ regions = discovered /\ UNCHANGED discovered
    \/ regions \in Listings /\ discovered' = regions

clear_cache ==
    /\ discovered # None
    /\ discovered' = None
    /\ UNCHANGED <<router, current, located, stats, prober, loop, failing>>

-----------------------------------------------------------------------------
(* RegionLatencyStats *)

NewStats == [samples |-> <<>>, failures |-> 0, health |-> "UNKNOWN"]

add_sample(s, rtt) ==
    [samples |-> IF Len(s.samples) = probe_sample_count THEN Append(Tail(s.samples), rtt)
                 ELSE Append(s.samples, rtt),
     failures |-> 0,
     health |-> IF s.health \in {"UNHEALTHY", "UNKNOWN"} THEN "HEALTHY" ELSE s.health]

record_failure(s) ==
    LET failures == IF s.failures < FailureMax THEN s.failures + 1 ELSE FailureMax
    IN [s EXCEPT !.failures = failures,
                 !.health = IF failures >= unhealthy_threshold THEN "UNHEALTHY" ELSE @]

\* _is_region_healthy, is_healthy: no statistics are no reason not to.
IsHealthy(r) == stats[r] = None \/ stats[r].health \in {"HEALTHY", "UNKNOWN"}

\* get_average_rtt_ms, compared without dividing
Sum(samples) == FoldSeq(+, 0, samples)
Measured(r) == stats[r] # None /\ stats[r].samples # <<>>
Slower(q, r) ==
    Sum(stats[r].samples) * Len(stats[q].samples) < Sum(stats[q].samples) * Len(stats[r].samples)

-----------------------------------------------------------------------------
(* LatencyProber *)

\* set_regions: the statistics of a region that is listed no longer are kept.
SetRegions(names) ==
    stats' = [r \in Name |-> IF r \in names /\ stats[r] = None THEN NewStats ELSE stats[r]]

\* start: a loop, unless the prober runs; the loop of an earlier start may still be there.
StartProber(names) ==
    IF prober.running THEN UNCHANGED loop /\ prober' = [prober EXCEPT !.regions = names]
    ELSE \E l \in Loop :
        /\ loop[l] = None /\ loop' = [loop EXCEPT ![l] = <<>>]
        /\ prober' = [regions |-> names, running |-> TRUE]

\* stop: the loop ends within the two seconds, or lives on.
stop ==
    /\ prober.running
    /\ prober' = [prober EXCEPT !.running = FALSE]
    /\ loop' \in {loop, [l \in Loop |-> None]}
    /\ UNCHANGED <<discovered, router, current, located, stats, failing>>

\* _probe_loop: between two rounds a loop looks whether the prober runs.
Round(l) ==
    /\ loop[l] = <<>>
    /\ loop' = [loop EXCEPT ![l] = IF prober.running
                    THEN SelectSeq(Region, LAMBDA r : r \in prober.regions) ELSE None]
    /\ loop' # loop
    /\ UNCHANGED <<discovered, router, current, located, stats, prober, failing>>

\* What a probe of region r finds, under the prober's lock: _probe_region and what follows it.
Probed(r) ==
    IF stats[r] = None THEN UNCHANGED stats
    ELSE \/ \E rtt \in Rtt : stats' = [stats EXCEPT ![r] = add_sample(@, rtt)]
         \/ stats' = [stats EXCEPT ![r] = record_failure(@)]

\* _probe_all_regions, a region at a time
Probe(l) ==
    /\ loop[l] # None /\ loop[l] # <<>>
    /\ Probed(Head(loop[l]))
    /\ loop' = [loop EXCEPT ![l] = Tail(@)]
    /\ UNCHANGED <<discovered, router, current, located, prober, failing>>

probe_now(r) ==
    /\ r \in prober.regions
    /\ Probed(r)
    /\ UNCHANGED <<discovered, router, current, located, prober, loop, failing>>

-----------------------------------------------------------------------------
(* RegionSelector *)

set_client_location ==
    /\ ~located /\ located' = TRUE
    /\ UNCHANGED <<discovered, router, current, stats, prober, loop, failing>>

Healthy(regions, exclude) ==
    {r \in DOMAIN regions : regions[r] /\ r \notin exclude /\ IsHealthy(r)}

\* _select_by_latency and _select_by_distance: the fastest of those that have been measured; if
\* none has, the nearest, or the first of the list.
Fastest(healthy) ==
    LET measured == {r \in healthy : Measured(r)}
    IN IF measured # {}
       THEN First(Region, {r \in measured : \A q \in measured : ~Slower(r, q)})
       ELSE First(IF located THEN Nearest ELSE Region, healthy)

Select(regions, exclude) ==
    LET healthy == Healthy(regions, exclude)
    IN IF healthy = {} THEN None
       ELSE IF preferred_region \in healthy THEN preferred_region
       ELSE Fastest(healthy)

\* select: the region it takes for the current one is not the preferred one.
SelectedCurrent(regions, exclude) ==
    LET region == Select(regions, exclude)
    IN IF region \in {None, preferred_region} THEN current ELSE region

-----------------------------------------------------------------------------
(* GeoRouter *)

\* start and start_async; DiscoveryError leaves everything as it is.
start ==
    /\ failing = None
    /\ \E regions \in Listings \cup {discovered} :
        /\ Discover(FALSE, regions)
        /\ IF regions = NoRegions
           THEN router' = [router EXCEPT !.regions = regions] /\ UNCHANGED <<stats, prober, loop, current>>
           ELSE /\ SetRegions(DOMAIN regions) /\ StartProber(DOMAIN regions)
                /\ LET region == Select(regions, {})
                   IN router' = [regions |-> regions,
                                 endpoint |-> IF region = None THEN router.endpoint ELSE region]
                /\ current' = SelectedCurrent(regions, {})
    /\ UNCHANGED <<located, failing>>

\* refresh_regions and refresh_regions_async
refresh_regions ==
    /\ \E regions \in Listings \cup {discovered} :
        /\ Discover(TRUE, regions)
        /\ router' = [router EXCEPT !.regions = regions]
        /\ SetRegions(DOMAIN regions)
        /\ prober' = [prober EXCEPT !.regions = DOMAIN regions]
    /\ UNCHANGED <<current, located, loop, failing>>

\* handle_failure, and failover as far as the mark on the region, which takes no lock.  Without
\* a current region, or when it is switched off, nothing is going to change.
handle_failure ==
    /\ failing = None /\ router.endpoint # None
    /\ LET region == IF failover_enabled THEN current ELSE None
       IN /\ failing' = [current |-> region, regions |-> router.regions]
          /\ stats' = [r \in Name |-> IF r = region /\ stats[r] # None
                                     THEN [stats[r] EXCEPT !.health = "UNHEALTHY"] ELSE stats[r]]
    /\ UNCHANGED <<discovered, router, current, located, prober, loop>>

\* Mutant of Excluded: the mark is thought to be enough.
NoneExcluded(region) == {}

Excluded(region) == {region}

\* The rest of failover: the selection among the others, and the new endpoint.
failover ==
    /\ failing # None /\ failing' = None
    /\ LET exclude == Excluded(failing.current)
           region == IF failing.current = None THEN None ELSE Select(failing.regions, exclude)
       IN IF region = None THEN UNCHANGED <<current, router>>
          ELSE /\ current' = SelectedCurrent(failing.regions, exclude)
               /\ router' = [router EXCEPT !.endpoint = region]
    /\ UNCHANGED <<discovered, located, stats, prober, loop>>

Next ==
    \/ clear_cache \/ stop \/ set_client_location
    \/ start \/ refresh_regions \/ handle_failure \/ failover
    \/ \E l \in Loop : Round(l) \/ Probe(l)
    \/ \E r \in Name : probe_now(r)

Spec == Init /\ [][Next]_vars

-----------------------------------------------------------------------------
\* Automatic failover: handle_failure moves the client to another region whenever there is a
\* healthy one, though the prober may revive the failed region while the call is under way, though
\* the list of regions is refreshed, and whichever regions the client was on before
\* (GeoRouter.handle_failure, RegionSelector.failover).
FailsOver ==
    [][failing # None /\ failing' = None /\ failover_enabled =>
        LET alternatives == Healthy(failing.regions, {router.endpoint})
        IN alternatives # {} => router'.endpoint \in alternatives]_vars
=============================================================================
