----------------------------- MODULE GeoClient ------------------------------
(***************************************************************************)
(* GeoClientSync of the Python SDK (client.py): threads that call the      *)
(* operations of one client, each call a loop of attempts over the native  *)
(* client, and one that may close it.                                      *)
(*                                                                         *)
(* Clocks are left out: whether an attempt outlasts a timeout, and whether *)
(* the total timeout has passed when the loop looks, is a choice (the      *)
(* RetryLoop module has the loop with its clock).                          *)
(***************************************************************************)
EXTENDS NativeClient, SdkOperations

CONSTANTS Operation,    \* the kinds of operations called, of AllOperations
          MaxRetries,   \* RetryConfig.max_retries
          CallMax       \* bound: calls per thread

ASSUME GeoClientAssumption ==
    /\ Operation \subseteq AllOperations /\ None \notin AllOperations
    /\ MaxRetries \in Nat /\ CallMax \in Nat

VARIABLES closed,     \* _closed
          call,       \* call[t]: the call that thread t makes, and where it is in it
          call_of,    \* call_of[p]: the thread and the number of the call that packet p is of
          returned    \* returned[t]: what its last call returned or raised

sdkVars == <<closed, call, call_of, returned>>
vars == <<nativeVars, sdkVars>>

NoCall == [at |-> "idle", number |-> 0, operation |-> None, attempt |-> 0, packet |-> None,
           pending |-> {}]

Init ==
    /\ NativeInit
    /\ closed = FALSE
    /\ call = [t \in Thread |-> NoCall]
    /\ call_of = <<>>
    /\ returned = [t \in Thread |-> None]

At(t, place) == call[t].at = place
Go(t, place) == call' = [call EXCEPT ![t].at = place]

\* The call ends: `what` is returned or raised.
Return(t, what) ==
    /\ call' = [call EXCEPT ![t] = [NoCall EXCEPT !.number = call[t].number]]
    /\ returned' = [returned EXCEPT ![t] = [what |-> what, packet |-> call[t].packet]]

-----------------------------------------------------------------------------
(* _with_retry_sync around the attempts *)

\* Bound: there are packets left for every attempt of the calls under way and of one more.
PacketsLeft ==
    Len(packets) + (MaxRetries + 1) * (1 + Cardinality({t \in Thread : call[t].operation # None}))
        <= PacketMax

\* A call of an operation.
Call(t) ==
    /\ At(t, "idle") /\ call[t].number < CallMax /\ PacketsLeft
    /\ \E operation \in Operation :
        call' = [call EXCEPT ![t] = [NoCall EXCEPT !.at = "attempt", !.operation = operation,
                                                   !.number = call[t].number + 1]]
    /\ UNCHANGED <<nativeVars, closed, call_of, returned>>

\* The top of the loop: the total timeout, then the attempt.  _closed is looked at before the
\* first, and by the operations that reconnect in each.
LooksAtClosed(t) == call[t].attempt = 0 \/ Reconnects(call[t].operation)
Attempt(t) ==
    /\ At(t, "attempt")
    /\ \/ Return(t, "RetryExhausted") /\ call[t].attempt > 0
       \/ closed /\ LooksAtClosed(t) /\ Return(t, "ClientClosedError")
       \/ /\ ~(closed /\ LooksAtClosed(t))
          /\ call' = [call EXCEPT ![t].at = "connect", ![t].attempt = @ + 1]
          /\ UNCHANGED returned
    /\ UNCHANGED <<nativeVars, closed, call_of>>

\* The attempt connects if need be, whatever comes of it.
Reconnect(t) ==
    /\ At(t, "connect") /\ Go(t, "register")
    /\ IF Reconnects(call[t].operation) THEN Unlocked /\ Connect
       ELSE UNCHANGED <<connectionVars, library>>
    /\ UNCHANGED <<lock, contextVars, executed, closed, call_of, returned>>

\* submit raises "Client not connected", which nothing retries, or creates the packet.
Submit(t) ==
    /\ At(t, "register")
    /\ \/ /\ Unlocked /\ ~(connected /\ client # None)
          /\ Return(t, "not connected")
          /\ UNCHANGED <<nativeVars, call_of>>
       \/ /\ Register(t, call[t].operation)
          /\ call' = [call EXCEPT ![t].at = "hand_over", ![t].packet = NewPacket]
          /\ call_of' = Append(call_of, [thread |-> t, number |-> call[t].number])
          /\ UNCHANGED returned
    /\ UNCHANGED closed

Hand(t) ==
    /\ At(t, "hand_over") /\ Go(t, "wait")
    /\ HandOver(t, call[t].packet)
    /\ UNCHANGED <<closed, call_of, returned>>

\* The attempt ends with a status: an answer or an error that is not retried ends the call; an
\* error that is retried goes on to the next attempt, unless it was the last, or the total
\* timeout would pass before it.
EndAttempt(t, status) ==
    LET outcome == Outcome(call[t].operation, [status |-> status, data |-> "whole"])
    IN IF ~IsRetryableError(outcome.error) THEN Return(t, outcome.returns)
       ELSE \/ Return(t, "RetryExhausted")
            \/ call[t].attempt <= MaxRetries /\ Go(t, "attempt") /\ UNCHANGED returned

\* event.wait returns because the event is set.
Woken(t) ==
    /\ At(t, "wait") /\ EventSet(call[t].packet)
    /\ IF result[call[t].packet].status = "CLIENT_EVICTED"
       THEN Go(t, "evicted") /\ UNCHANGED returned
       ELSE EndAttempt(t, result[call[t].packet].status)
    /\ UNCHANGED <<nativeVars, closed, call_of>>

\* Mutant of TimesOut: event.wait() without a timeout.
WaitsForever(t) == FALSE /\ UNCHANGED vars

\* Mutant of TimesOut: a timeout is taken for a lost connection.
TimeoutDisconnects(t) ==
    /\ At(t, "wait") /\ Unlocked /\ ~EventSet(call[t].packet)
    /\ EndAttempt(t, "TIMEOUT")
    /\ connected' = FALSE /\ client' = None
    /\ UNCHANGED <<lock, contextVars, library, executed, closed, call_of>>

\* event.wait returns because 30 seconds have passed; the packet stays in flight.
TimesOut(t) ==
    /\ At(t, "wait") /\ ~EventSet(call[t].packet)
    /\ EndAttempt(t, "TIMEOUT")
    /\ UNCHANGED <<nativeVars, closed, call_of>>

Evicted(t) ==
    /\ At(t, "evicted")
    /\ MarkEvicted
    /\ EndAttempt(t, "CLIENT_EVICTED")
    /\ UNCHANGED <<closed, call_of>>

-----------------------------------------------------------------------------
(* close *)

\* close of an open client, by a thread with no call: the first check of disconnect.
Close(t) ==
    /\ At(t, "idle") /\ ~closed
    /\ Unlocked
    /\ Go(t, IF Disconnectable THEN "snapshot" ELSE "closing")
    /\ UNCHANGED <<nativeVars, closed, call_of, returned>>

Snapshot(t) ==
    /\ At(t, "snapshot")
    /\ call' = [call EXCEPT ![t].at = "drain", ![t].pending = PendingEvents]
    /\ UNCHANGED <<nativeVars, closed, call_of, returned>>

\* The wait for the pending events is over, each set or timed out, and the lock is taken again.
Drain(t) ==
    /\ At(t, "drain") /\ Unlocked
    /\ \/ ~Disconnectable /\ Go(t, "closing") /\ UNCHANGED nativeVars
       \/ /\ Disconnectable /\ Deinit(call[t].pending)
          /\ Go(t, IF \A p \in call[t].pending : EventSet(p) THEN "clear" ELSE "closing")
    /\ UNCHANGED <<closed, call_of, returned>>

Clear(t) ==
    /\ At(t, "clear") /\ Go(t, "closing")
    /\ ClearInflight
    /\ UNCHANGED <<closed, call_of, returned>>

\* _closed is set when disconnect has returned.
SetClosed(t) ==
    /\ At(t, "closing")
    /\ closed' = TRUE
    /\ call' = [call EXCEPT ![t] = [NoCall EXCEPT !.number = call[t].number]]
    /\ UNCHANGED <<nativeVars, call_of, returned>>

-----------------------------------------------------------------------------
CallStep(t) ==
    \/ Attempt(t) \/ Reconnect(t) \/ Submit(t) \/ Hand(t) \/ Woken(t) \/ TimesOut(t) \/ Evicted(t)
CloseStep(t) == Snapshot(t) \/ Drain(t) \/ Clear(t) \/ SetClosed(t)

Next ==
    \/ \E t \in Thread : Call(t) \/ CallStep(t) \/ Close(t) \/ CloseStep(t)
    \/ \E c \in Client : LibraryStep(c) /\ UNCHANGED sdkVars

\* Threads go on and timeouts pass; nothing is assumed of the library and of the cluster.
Spec == Init /\ [][Next]_vars
FairSpec == Spec /\ \A t \in Thread : WF_vars(CallStep(t)) /\ WF_vars(CloseStep(t))

-----------------------------------------------------------------------------
\* A result is the answer to the request of the thread that waits for it, whatever tags were
\* used again for requests that timed out and are answered late (on_completion, submit).
OwnAnswer == \A p \in Packet : result[p] # None => result[p].answers = p

\* No upsert is executed after a later upsert of the same thread: an attempt that was given up,
\* and is executed late, never overwrites what the thread wrote since.
CallsInOrder ==
    \A i, j \in DOMAIN executed :
        LET p == executed[i]
            q == executed[j]
        IN /\ i < j /\ call_of[p].thread = call_of[q].thread
           /\ packets[p].operation = "upsert_events" /\ packets[q].operation = "upsert_events"
           => call_of[p].number <= call_of[q].number

\* A call that returned an answer was executed: the packet of its last attempt.
AnsweredIsExecuted ==
    \A t \in Thread : returned[t] # None /\ returned[t].what = "answer" =>
        returned[t].packet \in ToSet(executed)

\* Every call returns, and so does close, whatever the cluster does or fails to do, as long as
\* fewer requests than there are tags are unanswered: with all of them in flight the loop of
\* submit that looks for a tag has no end.
CallsReturn ==
    \A t \in Thread : ~At(t, "idle") ~> (At(t, "idle") \/ Cardinality(Inflight) = TagMax)

\* A call is executed once, however often it is retried (sdk-retry-semantics: the same request
\* number for every attempt, and no double execution).
NoDoubleExecution ==
    \A i, j \in DOMAIN executed : call_of[executed[i]] = call_of[executed[j]] => i = j
=============================================================================
