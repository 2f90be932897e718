------------------------------ MODULE SdkErrors ------------------------------
(***************************************************************************)
(* The two hierarchies of errors of the Python SDK, that of client.py and  *)
(* that of errors.py, and which of them the retry loop takes for           *)
(* retryable.  An error is its hierarchy and its code; the messages, which *)
(* the loop searches for words when it does not know the class, are left   *)
(* out but for that.                                                       *)
(***************************************************************************)
EXTENDS Integers, Functions

Error(hierarchy, code) == [hierarchy |-> hierarchy, code |-> code]

-----------------------------------------------------------------------------
(* client.py: code -> the class attribute `retryable` *)

ConnectionErrors == [code \in {1001, 1002} |-> TRUE]
\* ClusterUnavailable, ViewChangeInProgress, NotPrimary
ClusterErrors == [code \in 2001..2003 |-> TRUE]
\* InvalidCoordinates, PolygonTooComplex, BatchTooLarge, InvalidEntityId
ValidationErrors == [code \in 3001..3004 |-> FALSE]
\* OperationTimeout, QueryResultTooLarge, OutOfSpace, SessionExpired
OperationErrors == [code \in 4001..4004 |-> code \in {4001, 4004}]
\* ClientClosedError, RetryExhausted
ClientErrors == [code \in {5001, 5002} |-> FALSE]
ClientClosedError == Error("client", 5001)
CircuitBreakerOpen == [code \in {600} |-> TRUE]

ClientTable ==
    LET tables == {ConnectionErrors, ClusterErrors, ValidationErrors, OperationErrors,
                   ClientErrors, CircuitBreakerOpen}
    IN [code \in UNION {DOMAIN f : f \in tables} |->
            (CHOOSE f \in tables : code \in DOMAIN f)[code]]

-----------------------------------------------------------------------------
(* errors.py: code -> what its exception says of `retryable` *)

StateErrors == [code \in {200, 210} |-> FALSE]
MultiRegionErrors == [code \in 213..218 |-> code \in 214..216]
ShardingErrors == [code \in 220..224 |-> code <= 222]
EncryptionErrors == [code \in 410..414 |-> code \in {410, 413}]

IsMultiRegionError(code) == code \in 213..218
IsShardingError(code) == code \in 220..224
IsEncryptionError(code) == code \in 410..414

\* is_retryable of a code: a state error is not looked up.
IsRetryableCode(code) ==
    \/ IsMultiRegionError(code) /\ MultiRegionErrors[code]
    \/ IsShardingError(code) /\ ShardingErrors[code]
    \/ IsEncryptionError(code) /\ EncryptionErrors[code]

\* ReplicationTimeout: the one message of errors.py with a word that _is_retryable_error knows.
TimeoutInMessage == 216

-----------------------------------------------------------------------------
\* The errors of Python itself: by class, by a word in the message, and neither.
TimeoutOrConnectionError == Error("python", 1)
WordInMessage == Error("python", 2)
OtherError == Error("python", 3)
NoError == Error("python", 0)

\* errors.ArcherDBError itself, with which the native client says that a request failed.
RequestFailed == Error("errors", 0)

AllErrors ==
    {Error("client", code) : code \in DOMAIN ClientTable}
        \cup {Error("errors", code) : code \in 213..218 \cup 220..224 \cup 410..414 \cup DOMAIN StateErrors}
        \cup {RequestFailed, TimeoutOrConnectionError, WordInMessage, OtherError}

\* What the class of an error says of itself: errors.py and client.py each has an ArcherDBError.
SaysRetryable(error) ==
    CASE error.hierarchy = "client" -> ClientTable[error.code]
      [] error.hierarchy = "errors" -> IsRetryableCode(error.code)
      [] error.hierarchy = "python" -> error \in {TimeoutOrConnectionError, WordInMessage}

\* _is_retryable_error of client.py: an exception of errors.py is no ArcherDBError of client.py,
\* so that only the words of its message count.
IsRetryableError(error) ==
    CASE error.hierarchy = "client" -> ClientTable[error.code]
      [] error.hierarchy = "errors" -> error.code = TimeoutInMessage
      [] error.hierarchy = "python" -> error \in {TimeoutOrConnectionError, WordInMessage}
=============================================================================
