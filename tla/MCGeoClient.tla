---------------------------- MODULE MCGeoClient -----------------------------
(***************************************************************************)
(* Small instances of GeoClient for TLC, and the two assumptions about the *)
(* application and the scheduler that the order of calls depends on.       *)
(***************************************************************************)
EXTENDS GeoClient

CONSTANT Writer   \* a thread that only upserts, and whose calls come in pairs

\* Only the other threads make other calls than upserts, and one each.
OneOfEach ==
    /\ call'[Writer].operation \in {None, "upsert_events"}
    /\ \A t \in Thread \ {Writer} : call'[t].number <= 1

\* The client is closed when no call is under way, and none is made meanwhile.
Closing == {t \in Thread : ~At(t, "idle") /\ call[t].operation = None}
QuietClose == Closing' = {} \/ \A t \in Thread : call'[t].operation = None

\* A thread whose packet came back with an eviction marks the client disconnected at once.
EvictionPending(t) ==
    \/ At(t, "evicted")
    \/ At(t, "wait") /\ EventSet(call[t].packet) /\ result[call[t].packet].status = "CLIENT_EVICTED"
PromptEviction ==
    (\E t \in Thread : EvictionPending(t)) => \E t \in Thread : EvictionPending(t) /\ call'[t] # call[t]
=============================================================================
