------------------------------- MODULE Queries -------------------------------
(***************************************************************************)
(* Reading many entities through the Python SDK while they change: walking *)
(* the pages of query_latest (client.py over _native.py, answered by       *)
(* execute_query_latest of geo_state_machine.zig) and looking a list of    *)
(* entities up with get_latest_batch (execute_query_uuid_batch).           *)
(*                                                                         *)
(* An event is its entity and its timestamp, and no two events have the    *)
(* same timestamp.  Groups and the cold tier are left out.                 *)
(***************************************************************************)
EXTENDS Naturals, SequencesExt, FiniteSetsExt

CONSTANTS Entity,
          Limit,       \* the limit the caller asks for
          OutputMax,   \* the events that fit into a reply
          LookupMax,   \* bound: entities in a lookup
          ClockMax,    \* bound: writes
          None

\* A reply holds what may be asked for: QUERY_LIMIT_MAX is 81 000, and a reply of 10 MiB holds more.
QueryAssumption ==
    /\ Limit \in Nat \ {0} /\ OutputMax \in Nat /\ Limit <= OutputMax
    /\ LookupMax \in Nat /\ ClockMax \in Nat /\ None \notin Nat

VARIABLES clock,     \* the timestamp of the last write
          latest,    \* latest[e]: the timestamp of the entity's event in the index, or None
          expired,   \* the entities in the index whose time to live is over
          walk,      \* the pages read so far: cursor, events, and whether there are more
          touched,   \* the entities that changed since the walk began
          lookup     \* a lookup that has just returned: what the index had, the result

vars == <<clock, latest, expired, walk, touched, lookup>>

NoWalk == [cursor |-> 0, events |-> <<>>, has_more |-> FALSE, begun |-> {}, failed |-> FALSE]

NoLookup == [held |-> {}, result |-> [e \in {} |-> None], failed |-> FALSE]

Init ==
    /\ clock = 0 /\ latest = [e \in Entity |-> None] /\ expired = {}
    /\ walk = NoWalk /\ touched = {}
    /\ lookup = NoLookup

Live == {e \in Entity \ expired : latest[e] # None}
EventOf(e) == [entity_id |-> e, timestamp |-> latest[e]]
EventsOf(entities) == {EventOf(e) : e \in entities}

-----------------------------------------------------------------------------
(* Writes, by whoever *)

Upsert(e) ==
    /\ clock < ClockMax /\ clock' = clock + 1
    /\ latest' = [latest EXCEPT ![e] = clock']
    /\ expired' = expired \ {e}
    /\ touched' = touched \cup {e}
    /\ UNCHANGED walk /\ lookup' = NoLookup

Delete(e) ==
    /\ latest[e] # None
    /\ latest' = [latest EXCEPT ![e] = None]
    /\ expired' = expired \ {e}
    /\ touched' = touched \cup {e}
    /\ UNCHANGED <<clock, walk>> /\ lookup' = NoLookup

Expire(e) ==
    /\ e \in Live
    /\ expired' = expired \cup {e}
    /\ touched' = touched \cup {e}
    /\ UNCHANGED <<clock, latest, walk>> /\ lookup' = NoLookup

-----------------------------------------------------------------------------
(* query_latest *)


\* The cursor of execute_query_latest: 0 is none.
Older(e, cursor) == cursor = 0 \/ latest[e] < cursor

\* execute_query_latest: the newest candidates, newest first.
QueryLatest(limit, cursor) ==
    LET candidates == EventsOf({e \in Live : Older(e, cursor)})
        sorted == SetToSortSeq(candidates, LAMBDA x, y : x.timestamp > y.timestamp)
        effective == IF limit < OutputMax THEN limit ELSE OutputMax
    IN SubSeq(sorted, 1, IF Len(sorted) < effective THEN Len(sorted) ELSE effective)

\* QueryResult: has_more, and the cursor of the next page.
HasMore(events) == Len(events) = Limit
Cursor(events, cursor) == IF events = <<>> THEN cursor ELSE Last(events).timestamp

\* A page: the first, or the next while there are more.  An attempt that fails in any way, an
\* index that is being rebuilt among them, is an empty page.
Page(first, failed) ==
    LET events == IF failed THEN <<>> ELSE QueryLatest(Limit, IF first THEN 0 ELSE walk.cursor)
    IN /\ walk' = [cursor |-> Cursor(events, walk.cursor),
                   events |-> (IF first THEN <<>> ELSE walk.events) \o events,
                   has_more |-> HasMore(events),
                   begun |-> IF first THEN Live ELSE walk.begun,
                   failed |-> failed]
       /\ touched' = IF first THEN {} ELSE touched
       /\ UNCHANGED <<clock, latest, expired>> /\ lookup' = NoLookup

FirstPage == \E failed \in BOOLEAN : Page(TRUE, failed)
NextPage == walk.has_more /\ \E failed \in BOOLEAN : Page(FALSE, failed)

-----------------------------------------------------------------------------
(* get_latest_by_uuid and get_latest_batch *)

\* A lookup returns; what the index has of its entities is kept for the property.
LooksUp(result, failed) ==
    /\ lookup' = [held |-> EventsOf(Live \cap DOMAIN result), result |-> result, failed |-> failed]
    /\ UNCHANGED <<clock, latest, expired, walk, touched>>

\* The event of one entity, or None; an entity whose time is over is an error.
GetLatestByUuid(e) ==
    /\ e \notin expired
    /\ LooksUp([f \in {e} |-> IF f \in Live THEN EventOf(f) ELSE None], FALSE)

\* Also None, whatever the index has: a request that timed out, was refused or evicted, and a
\* reply that is too short.
GetLatestByUuidFails(e) == LooksUp([f \in {e} |-> None], TRUE)

QueryUuidBatchResult(not_found, found) == [not_found_indices |-> not_found, events |-> found]

\* execute_query_uuid_batch: the places of what is not found, and the events that are, in order.
QueryUuidBatch(entity_ids) ==
    LET found == {i \in DOMAIN entity_ids : entity_ids[i] \in Live}
        in_order == SetToSortSeq(found, <)
    IN QueryUuidBatchResult(DOMAIN entity_ids \ found,
                            [n \in DOMAIN in_order |-> EventOf(entity_ids[in_order[n]])])

\* The loop of get_latest_batch: an event for every place that is found, in order.
ResultOf(entity_ids, answer) ==
    LET Found(i) == i \notin answer.not_found_indices
        Place(i) == Cardinality({j \in 1..i : Found(j)})
        EventAt(i) == IF Found(i) /\ Place(i) <= Len(answer.events)
                      THEN answer.events[Place(i)] ELSE None
    IN [e \in ToSet(entity_ids) |-> EventAt(Max({i \in DOMAIN entity_ids : entity_ids[i] = e}))]

EntityIds == UNION {[1..n -> Entity] : n \in 1..LookupMax}

LookUp(entity_ids) == LooksUp(ResultOf(entity_ids, QueryUuidBatch(entity_ids)), FALSE)

\* A request that failed, or a reply that is too short: every place is said not to be found.
FailedAnswer(entity_ids) == QueryUuidBatchResult(DOMAIN entity_ids, <<>>)
LookUpFails(entity_ids) == LooksUp(ResultOf(entity_ids, FailedAnswer(entity_ids)), TRUE)

Next ==
    \/ \E e \in Entity :
        Upsert(e) \/ Delete(e) \/ Expire(e) \/ GetLatestByUuid(e) \/ GetLatestByUuidFails(e)
    \/ FirstPage \/ NextPage
    \/ \E entity_ids \in EntityIds : LookUp(entity_ids) \/ LookUpFails(entity_ids)

Spec == Init /\ [][Next]_vars

-----------------------------------------------------------------------------
=============================================================================
