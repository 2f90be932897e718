---------------------------- MODULE SdkOperations ----------------------------
(***************************************************************************)
(* The operations of the Python SDK: what the native client makes of the   *)
(* reply to one attempt (_native.py), and how GeoClientSync and            *)
(* GeoClientAsync (client.py) make the attempts.  An operation returns its *)
(* answer or an empty one, or raises an error; what is in an answer is     *)
(* left out.                                                               *)
(***************************************************************************)
EXTENDS SdkErrors

BatchOperation == {"insert_events", "upsert_events", "delete_entities"}
SearchOperation == {"query_radius", "query_latest", "query_polygon"}
QueryOperation == {"query_uuid", "query_uuid_batch"} \cup SearchOperation
AdminOperation == {"ping", "get_status", "cleanup_expired"}
TtlOperation == {"ttl_set", "ttl_extend", "ttl_clear"}
AllOperations == BatchOperation \cup QueryOperation \cup AdminOperation \cup TtlOperation
                    \cup {"get_topology"}

Returns(what) == [returns |-> what, error |-> NoError]
Raises(error) == [returns |-> "error", error |-> error]

-----------------------------------------------------------------------------
(* _native.py *)

\* The status of a packet (TIMEOUT for the one that submit makes up, which is negative), and its
\* data: too short for what is expected, whole, or the refusal of a query_uuid.
Reply == [status : {"OK", "TIMEOUT", "CLIENT_EVICTED", "CLIENT_SHUTDOWN"},
          data : {"whole", "short", "expired", "refused"}]

Negative(reply) == reply.status = "TIMEOUT"
Failed(reply) == reply.status # "OK"
Unreadable(reply) == Failed(reply) \/ reply.data = "short"

\* Mutant of WriteOutcome: only the negative statuses are errors.
AnyAnswer(reply) == IF Negative(reply) THEN Raises(WordInMessage) ELSE Returns("answer")

\* insert_events, upsert_events and delete_entities: no data is no event that is refused.
WriteOutcome(reply) ==
    IF Negative(reply) THEN Raises(WordInMessage)
    ELSE IF Failed(reply) THEN Raises(OtherError) ELSE Returns("answer")

\* query_uuid
QueryUuidOutcome(reply) ==
    CASE Unreadable(reply) -> Returns("empty")
      [] ~Unreadable(reply) /\ reply.data = "whole" -> Returns("answer")
      [] ~Unreadable(reply) /\ reply.data = "expired" -> Raises(Error("errors", 210))
      [] ~Unreadable(reply) /\ reply.data = "refused" -> Raises(RequestFailed)

\* query_uuid_batch: every entity is said not to be found.
QueryUuidBatchOutcome(reply) == Returns(IF Unreadable(reply) THEN "empty" ELSE "answer")

\* query_radius, query_latest and query_polygon: no events.
SearchOutcome(reply) == Returns(IF Unreadable(reply) THEN "empty" ELSE "answer")

\* What get_status and cleanup_expired answer for want of another: the counts are all zero.
Zeros == Returns("empty")

\* ping: data is not needed.
PingOutcome(reply) == Returns(IF Failed(reply) THEN "empty" ELSE "answer")
StatusOutcome(reply) == IF Unreadable(reply) THEN Zeros ELSE Returns("answer")
CleanupOutcome(reply) == IF Unreadable(reply) THEN Zeros ELSE Returns("answer")

\* get_topology of _native.py hands on what there is, and TopologyResponse.from_bytes raises a
\* ValueError if it is too short.  (Of nothing, _native.py raises an error of its own, which is
\* not retried either.)
TopologyOutcome(reply) ==
    IF Failed(reply) THEN Raises(RequestFailed)
    ELSE IF Unreadable(reply) THEN Raises(OtherError) ELSE Returns("answer")

\* ttl_set, ttl_extend and ttl_clear: a result that is not SUCCESS is an answer.
TtlOutcome(reply) == IF Unreadable(reply) THEN Raises(RequestFailed) ELSE Returns("answer")

Outcome(operation, reply) ==
    CASE operation \in BatchOperation -> WriteOutcome(reply)
      [] operation = "query_uuid" -> QueryUuidOutcome(reply)
      [] operation = "query_uuid_batch" -> QueryUuidBatchOutcome(reply)
      [] operation \in SearchOperation -> SearchOutcome(reply)
      [] operation = "ping" -> PingOutcome(reply)
      [] operation = "get_status" -> StatusOutcome(reply)
      [] operation = "cleanup_expired" -> CleanupOutcome(reply)
      [] operation = "get_topology" -> TopologyOutcome(reply)
      [] operation \in TtlOperation -> TtlOutcome(reply)

-----------------------------------------------------------------------------
(* client.py *)

\* _submit_batch, _submit_query, _submit_batch_uuid_query: every attempt looks at _closed and
\* connects; the other operations look at _closed before the first, and never connect.
Reconnects(operation) == operation \in BatchOperation \cup QueryOperation

\* The operations that take OperationOptions.
TakesOptions(client, operation) ==
    operation \in {"insert_events", "upsert_events"}
        \cup (IF client = "sync" THEN SearchOperation ELSE {})

\* submit raises "Client not connected"; without reconnecting, that ends the call.
NotConnected == OtherError

SyncOutcomes(operation) ==
    {Outcome(operation, reply) : reply \in Reply} \cup {Raises(NotConnected)}

\* GeoClientAsync sends nothing: a batch is said to be accepted, ...
AsyncBatchOutcome == Returns("answer")
\* ... no entity is found, and no event, ...
AsyncLookupOutcome == Returns("empty")
AsyncSearchOutcome == Returns("empty")
\* ... and the other operations raise the AttributeError of a client that was never made.
AsyncNativeOutcome == Raises(OtherError)

AsyncOutcomes(operation) ==
    {CASE operation \in BatchOperation -> AsyncBatchOutcome
       [] operation \in QueryOperation \ SearchOperation -> AsyncLookupOutcome
       [] operation \in SearchOperation -> AsyncSearchOutcome
       [] OTHER -> AsyncNativeOutcome}

\* What an attempt can come to.
Outcomes(client, operation) ==
    IF client = "sync" THEN SyncOutcomes(operation) ELSE AsyncOutcomes(operation)
=============================================================================
