---------------------------- MODULE TopologyCache ----------------------------
(***************************************************************************)
(* topology.py: the topology cache, the calls that fill it (get_topology   *)
(* of client.py) and the router, which asks for a new topology when a      *)
(* replica answers that it does not lead the shard.                        *)
(*                                                                         *)
(* The cluster is external: each of its topologies is a version, and a     *)
(* request is refused unless it comes to the primary that its entity's     *)
(* shard has in the last one.  Nothing in the client raises                *)
(* NotShardLeaderError; the application that uses the router does.         *)
(***************************************************************************)
EXTENDS Naturals, SequencesExt, FiniteSetsExt

CONSTANTS Entity, Thread,
          ShardsOf,      \* ShardsOf[v]: num_shards of version v of the topology
          SlotsOf,       \* SlotsOf[v]: the shards that are described in the answer with version v
          HashOf,        \* HashOf[e]: the two halves of the entity's id, folded
          None

Version == DOMAIN ShardsOf
TopologyAssumption ==
    /\ ShardsOf \in Seq(Nat) /\ ShardsOf # <<>> /\ SlotsOf \in [Version -> Nat \ {0}]
    /\ HashOf \in [Entity -> Nat] /\ None \notin Nat

VARIABLES version,   \* the topology of the cluster
          cache,     \* the cached topology, its version, and the last change that was notified
          thread     \* thread[t]: what the thread does

vars == <<version, cache, thread>>

Idle == [doing |-> "idle", fetched |-> None]

Init ==
    /\ version = 1
    /\ cache = [topology |-> None, version |-> 0, notified |-> <<>>]
    /\ thread = [t \in Thread |-> Idle]

\* A failover or a resharding step: a new version of the topology.
ChangeTopology ==
    /\ version + 1 \in Version
    /\ version' = version + 1
    /\ UNCHANGED <<cache, thread>>

-----------------------------------------------------------------------------
(* The cache *)

NumShards == IF cache.topology = None THEN 0 ELSE ShardsOf[cache.topology]

ShardOf(e, num_shards) == IF num_shards = 0 THEN 0 ELSE HashOf[e] % num_shards
compute_shard(e) == ShardOf(e, NumShards)

\* TopologyResponse.from_bytes and ShardInfo.from_bytes: no more shards than there are, and no
\* more than the answer describes.
Shards == IF cache.topology = None THEN 0
          ELSE IF NumShards < SlotsOf[cache.topology] THEN NumShards ELSE SlotsOf[cache.topology]

\* get_shard_primary: "" is None; an address stands for the shard and the version it is of.
get_shard_primary(s) == IF s < Shards THEN [shard |-> s, version |-> cache.topology] ELSE None


\* update: whatever comes, older than what is cached or not; the callbacks are told of a change
\* unless the cached version was not known.
Updated(topology) ==
    [topology |-> topology, version |-> topology,
     notified |-> IF cache.version \notin {0, topology}
                  THEN <<cache.version, topology>> ELSE cache.notified]

invalidate ==
    /\ cache.version # 0
    /\ cache' = [cache EXCEPT !.version = 0]
    /\ UNCHANGED <<version, thread>>

\* get_topology, refresh_topology, _refresh_topology_internal: what the cluster answers
Fetch(t) ==
    /\ thread[t].doing \in {"idle", "refresh"} /\ thread[t].fetched = None
    /\ thread' = [thread EXCEPT ![t].fetched = version]
    /\ UNCHANGED <<version, cache>>

\* and the update of the cache, perhaps long after another thread's with a newer answer.
Update(t) ==
    /\ thread[t].fetched # None
    /\ cache' = Updated(thread[t].fetched)
    /\ thread' = [thread EXCEPT ![t].fetched = None,
                                ![t].doing = IF @ = "refresh" THEN "retry" ELSE @]
    /\ UNCHANGED version

-----------------------------------------------------------------------------
(* ShardRouter *)

\* route_by_entity_id reads the shard and then its primary, each under the lock: of two topologies
\* if there is an update in between.  A caller that was refused asks again for the same entity.
RouteShard(t, e) ==
    /\ thread[t].fetched = None
    /\ \/ thread[t].doing = "idle"
       \/ thread[t].doing = "retry" /\ thread[t].entity_id = e
    /\ thread' = [thread EXCEPT ![t] = [doing |-> "route", entity_id |-> e, fetched |-> None,
                                        shard_id |-> compute_shard(e)]]
    /\ UNCHANGED <<version, cache>>

RoutePrimary(t) ==
    /\ thread[t].doing = "route"
    /\ LET primary == get_shard_primary(thread[t].shard_id)
       IN thread' = [thread EXCEPT ![t] =
            IF primary = None THEN Idle   \* ShardRoutingError
            ELSE [doing |-> "asked", entity_id |-> @.entity_id, fetched |-> None, primary |-> primary]]
    /\ UNCHANGED <<version, cache>>

\* The primary that the entity's shard has now.
LeaderOf(e) == [shard |-> ShardOf(e, ShardsOf[version]), version |-> version]

\* The replica leads the shard, and the request is executed.
Executed(t) ==
    /\ thread[t].doing = "asked"
    /\ thread[t].primary = LeaderOf(thread[t].entity_id)
    /\ thread' = [thread EXCEPT ![t] = Idle]
    /\ UNCHANGED <<version, cache>>

\* It does not: handle_not_shard_leader refreshes the topology, and the caller asks the router again.
NotShardLeader(t) ==
    /\ thread[t].doing = "asked"
    /\ thread[t].primary # LeaderOf(thread[t].entity_id)
    /\ thread' = [thread EXCEPT ![t] = [doing |-> "refresh", entity_id |-> @.entity_id, fetched |-> None]]
    /\ UNCHANGED <<version, cache>>

\* The refresh fails: False, and the caller gives up.
RefreshFails(t) ==
    /\ thread[t].doing = "refresh" /\ thread[t].fetched = None
    /\ thread' = [thread EXCEPT ![t] = Idle]
    /\ UNCHANGED <<version, cache>>

\* What a thread does that has begun something: it does not stop in the middle of it.
Continues(t) ==
    \/ Update(t) \/ RoutePrimary(t) \/ Executed(t) \/ NotShardLeader(t)
    \/ thread[t].doing = "refresh" /\ Fetch(t)
    \/ thread[t].doing = "retry" /\ RouteShard(t, thread[t].entity_id)

Next ==
    \/ ChangeTopology \/ invalidate
    \/ \E t \in Thread :
        \/ Fetch(t) \/ Update(t) \/ RoutePrimary(t)
        \/ Executed(t) \/ NotShardLeader(t) \/ RefreshFails(t)
        \/ \E e \in Entity : RouteShard(t, e)

Spec == Init /\ [][Next]_vars /\ \A t \in Thread : WF_vars(Continues(t))

-----------------------------------------------------------------------------
=============================================================================
