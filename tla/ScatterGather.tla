---------------------------- MODULE ScatterGather ----------------------------
(***************************************************************************)
(* The scatter queries of topology.py and client.py: one query for every   *)
(* shard of the cached topology, whose answers are merged.                 *)
(*                                                                         *)
(* query_shard does not look at the primary it is given: every query goes  *)
(* to the cluster that the client is connected to, and a query that fails  *)
(* there is answered with no events.  The cluster is external; an event is *)
(* its entity and its timestamp.  execute_async, which GeoClientAsync      *)
(* calls with a function that answers nothing, is given the same function  *)
(* as execute_sync, as an application may that calls it itself.            *)
(***************************************************************************)
EXTENDS Naturals, SequencesExt, FiniteSetsExt

CONSTANTS Entity,
          ShardMax,      \* bound: the shards of the cached topology
          LimitMax,      \* bound: the limit of a query
          ClockMax,      \* bound: writes
          None

ScatterAssumption ==
    ShardMax \in Nat \ {0} /\ LimitMax \in Nat /\ ClockMax \in Nat /\ None \notin Nat

Shard == 0..ShardMax - 1

VARIABLES clock,     \* the timestamp of the last write
          held,      \* held[e]: the timestamp of the event of e that the cluster has, or None
          scatter    \* the last scatter query

vars == <<clock, held, scatter>>

Init ==
    /\ clock = 0
    /\ held = [e \in Entity |-> None]
    /\ scatter = [state |-> "none"]

Running == scatter.state = "running"

-----------------------------------------------------------------------------
(* The cluster, and the connection to it *)

Hold(e, timestamp) ==
    /\ held' = [held EXCEPT ![e] = timestamp]
    \* unseen: kept for the property
    /\ scatter' = IF Running THEN [scatter EXCEPT !.unseen = @ \cup {e}] ELSE scatter

Write(e) ==
    /\ clock < ClockMax /\ clock' = clock + 1
    /\ Hold(e, clock')

\* An entity is deleted, or leaves what is asked for.
Drop(e) ==
    /\ held[e] # None
    /\ Hold(e, None)
    /\ UNCHANGED clock

\* Another thread closes the client, or its request is answered with an eviction.
Disconnect ==
    /\ Running /\ scatter.connected
    /\ scatter' = [scatter EXCEPT !.connected = FALSE]
    /\ UNCHANGED <<clock, held>>

-----------------------------------------------------------------------------
(* ScatterGatherExecutor *)

\* execute_sync and execute_async, of as many primaries as the router has.
Execute(sync, allow_partial_results, max_concurrency, limit, num_shards) ==
    /\ ~Running
    /\ scatter' = [state |-> "running", sync |-> sync, allow_partial_results |-> allow_partial_results,
                   workers |-> IF ~sync \/ max_concurrency = 0 THEN num_shards ELSE max_concurrency,
                   limit |-> limit, shards |-> 0..num_shards - 1, connected |-> TRUE,
                   results |-> <<>>, done |-> {}, partial_failures |-> {}, unseen |-> Entity]
    /\ UNCHANGED <<clock, held>>

\* The shards of which a query runs: all that a worker of the pool has picked up.
Asked == {s \in scatter.shards \ scatter.done :
            Cardinality({r \in scatter.shards \ scatter.done : r < s}) < scatter.workers}

EventsHeld == {[entity_id |-> e, timestamp |-> held[e]] : e \in {e \in Entity : held[e] # None}}

\* query_shard returns: has_more is whether the limit was reached.
ShardReturns(s, events, seen, connected) ==
    /\ Running /\ s \in Asked /\ scatter.connected
    /\ scatter' = [scatter EXCEPT
            !.results = Append(@, [events |-> events, has_more |-> Cardinality(events) = scatter.limit]),
            !.done = @ \cup {s}, !.connected = connected,
            !.unseen = IF seen THEN {} ELSE @]
    /\ UNCHANGED <<clock, held>>

\* The cluster answers with what it has, up to the limit.
QueryShard(s) ==
    /\ Running
    /\ \E events \in SUBSET EventsHeld :
        /\ IF Cardinality(EventsHeld) <= scatter.limit
           THEN events = EventsHeld ELSE Cardinality(events) = scatter.limit
        /\ ShardReturns(s, events, TRUE, scatter.connected)

\* It does not in time, refuses the query, or evicts the client, which takes the connection: no
\* events, as if there were none.
QueryShardFails(s) == \E connected \in BOOLEAN : ShardReturns(s, {}, FALSE, connected)

\* submit raises "Client not connected": a partial failure, or the call raises.
QueryShardRaises(s) ==
    /\ Running /\ s \in Asked /\ ~scatter.connected
    /\ scatter' = IF scatter.allow_partial_results
                  THEN [scatter EXCEPT !.partial_failures = @ \cup {s}, !.done = @ \cup {s}]
                  ELSE [state |-> "raised"]
    /\ UNCHANGED <<clock, held>>

\* Mutant of Newest: the event that came first is kept.
AnyOfEach(events) == {CHOOSE a \in events : a.entity_id = e : e \in {a.entity_id : a \in events}}

\* merge_results, of every entity: the newest event of those the shards have.
Newest(events) == {a \in events : \A b \in events : b.entity_id = a.entity_id => b.timestamp <= a.timestamp}

\* merge_results: the newest event of every entity, newest first, cut at the limit.  What it calls
\* shard_results is by the place of the answer, not by the shard.
MergeResults(results, limit) ==
    LET events == Newest(UNION {r.events : r \in ToSet(results)})
        sorted == SetToSortSeq(events, LAMBDA a, b : a.timestamp > b.timestamp)
        cut == limit > 0 /\ Len(sorted) > limit
    IN [events |-> IF cut THEN SubSeq(sorted, 1, limit) ELSE sorted,
        shard_results |-> [i \in DOMAIN results |-> Cardinality(results[i].events)],
        has_more |-> cut \/ \E r \in ToSet(results) : r.has_more]

Gathered(partial_failures) ==
    [state |-> "returned", merged |-> MergeResults(scatter.results, scatter.limit),
     partial_failures |-> partial_failures,
     shown |-> {a \in EventsHeld : a.entity_id \notin scatter.unseen}]

\* Every query has returned or raised.  (Without a primary that is so at once.)
Gather ==
    /\ Running /\ scatter.done = scatter.shards
    /\ scatter' = Gathered(scatter.partial_failures)
    /\ UNCHANGED <<clock, held>>

\* timeout_seconds: as_completed raises; asyncio.wait leaves the shards that are pending.
GatherTimeout ==
    /\ Running /\ scatter.done # scatter.shards
    /\ scatter' = IF scatter.sync THEN [state |-> "raised"]
                  ELSE Gathered(scatter.partial_failures \cup (scatter.shards \ scatter.done))
    /\ UNCHANGED <<clock, held>>

Next ==
    \/ \E e \in Entity : Write(e) \/ Drop(e)
    \/ Disconnect
    \/ \E sync, partial \in BOOLEAN, workers \in 0..1, limit \in 1..LimitMax, shards \in 0..ShardMax :
        Execute(sync, partial, workers, limit, shards)
    \/ \E s \in Shard : QueryShard(s) \/ QueryShardFails(s) \/ QueryShardRaises(s)
    \/ Gather \/ GatherTimeout

Spec == Init /\ [][Next]_vars

-----------------------------------------------------------------------------
\* A scatter query has no entity twice, and whatever was written between the answers it merges, it
\* ends up with the newest: of what the cluster has when the call returns it shows, as it is,
\* everything that has not changed since the last query that the cluster answered, unless has_more
\* says there is more.  (That the cluster answered none of them nobody can tell from the result:
\* unseen has every entity then.)  It is about merge_results, execute_sync and execute_async.
ScatterShowsNewest ==
    scatter.state = "returned" =>
        LET events == scatter.merged.events
        IN /\ \A i, j \in DOMAIN events : i # j => events[i].entity_id # events[j].entity_id
           /\ ~scatter.merged.has_more => scatter.shown \subseteq ToSet(events)
=============================================================================
