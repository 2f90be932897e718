----------------------------- MODULE EventBatch ------------------------------
(***************************************************************************)
(* The batches of the Python SDK (GeoEventBatch, DeleteEntityBatch, the    *)
(* multi-batch submission behind insert_events and upsert_events; all of   *)
(* client.py).  One thread commits a batch, which takes any number of      *)
(* attempts, while another, or a task that runs during the await of the    *)
(* async batch, may go on adding to it or clear it.                        *)
(*                                                                         *)
(* commit hands the list itself to the attempts, so that what is added     *)
(* meanwhile is in the list that the next attempt sends.  What the cluster *)
(* says of an event is external, and any choice.                           *)
(***************************************************************************)
EXTENDS Naturals, Sequences, SequencesExt

CONSTANTS BatchSizeMax,   \* BATCH_SIZE_MAX: of a batch, and of a chunk of a multi-batch
          EventMax,       \* bound: events or entities that the application names
          None

BatchAssumption == BatchSizeMax \in Nat \ {0} /\ EventMax \in Nat /\ None \notin Nat

VARIABLES events,     \* _events or _entity_ids of the batch
          named,      \* how many events the application has made so far: they are 1..named
          submission, \* the call under way, or None
          returned    \* what the last call returned, or None

vars == <<events, named, submission, returned>>

Init == events = <<>> /\ named = 0 /\ submission = None /\ returned = None

\* A call under way: what it is, the list it was given, whether that is still the list of the
\* batch, how long it was, what the attempt sent, and the verdicts and errors so far.
Submission(kind, list, shared) ==
    [kind |-> kind, list |-> list, shared |-> shared, before |-> Len(list), offset |-> 0,
     sent |-> None, verdict |-> <<>>, errors |-> {}]

-----------------------------------------------------------------------------
(* The batch *)

\* add of a valid event; an invalid one, or one too many, is refused.
Add ==
    /\ Len(events) < BatchSizeMax /\ named < EventMax
    /\ named' = named + 1
    /\ events' = Append(events, named')
    /\ submission' = IF submission # None /\ submission.shared
                     THEN [submission EXCEPT !.list = events'] ELSE submission
    /\ UNCHANGED returned

\* clear: the batch has a new list.
Clear ==
    /\ events' = <<>>
    /\ submission' = IF submission # None THEN [submission EXCEPT !.shared = FALSE] ELSE None
    /\ UNCHANGED <<named, returned>>

\* commit of GeoEventBatch
Commit ==
    /\ submission = None /\ events # <<>>
    /\ submission' = Submission("events", events, TRUE)
    /\ returned' = None /\ UNCHANGED <<events, named>>

\* commit of DeleteEntityBatch
CommitDelete ==
    /\ submission = None /\ events # <<>>
    /\ submission' = Submission("delete", events, TRUE)
    /\ returned' = None /\ UNCHANGED <<events, named>>

\* insert_events and upsert_events of a list of the caller's own, of any length.
InsertEvents ==
    /\ submission = None
    /\ \E n \in 1..EventMax - named :
        /\ named' = named + n
        /\ submission' = Submission("multi", [i \in 1..n |-> named + i], FALSE)
    /\ returned' = None /\ UNCHANGED events

\* split_batch, with which an application splits a list whose insertion timed out
SplitBatch(items, chunk_size) ==
    [i \in 1..(Len(items) + chunk_size - 1) \div chunk_size |->
        SubSeq(items, (i - 1) * chunk_size + 1,
               IF i * chunk_size < Len(items) THEN i * chunk_size ELSE Len(items))]

-----------------------------------------------------------------------------
(* do_submit, and the loop over the chunks *)

\* What the attempt sends: the chunk, which is the whole list but for a multi-batch.
Chunk(s) ==
    IF s.kind # "multi" THEN s.list
    ELSE SubSeq(s.list, s.offset + 1,
                IF s.offset + BatchSizeMax < Len(s.list) THEN s.offset + BatchSizeMax ELSE Len(s.list))

\* An attempt: the packet holds what is in the list now.
Send ==
    /\ submission # None /\ submission.sent = None
    /\ submission' = [submission EXCEPT !.sent = Chunk(submission)]
    /\ UNCHANGED <<events, named, returned>>

\* The attempt fails with an error that is retried.
Retry ==
    /\ submission # None /\ submission.sent # None
    /\ submission' = [submission EXCEPT !.sent = None]
    /\ UNCHANGED <<events, named, returned>>

\* The call raises: what was sent may have been executed, and the batch is as it is.
Raise ==
    /\ submission # None
    /\ submission' = None
    /\ returned' = [kind |-> submission.kind, raised |-> TRUE,
                    kept |-> ~submission.shared \/ events = submission.list,
                    call |-> submission]
    /\ UNCHANGED <<events, named>>

\* What the cluster says of each event of an attempt: of those it does not accept, an error with
\* their place among those sent (external).
Verdicts(kind) == IF kind = "delete" THEN {"ok", "not_found", "refused"} ELSE {"ok", "refused"}

\* Mutant of OffsetErrors: the place in the chunk is returned.
ChunkErrors(errors, offset) == errors

\* _offset_batch_errors
OffsetErrors(errors, offset) == {[index |-> e.index + offset, result |-> e.result] : e \in errors}

\* DeleteEntityBatch.commit: what was not found or refused is taken off the length of the list.
DeleteResult(list, errors) ==
    [deleted_count |-> Len(list) - Cardinality(errors),
     not_found_count |-> Cardinality({e \in errors : e.result = "not_found"})]

Return(s) ==
    /\ submission' = None
    /\ returned' = [kind |-> s.kind, raised |-> FALSE, call |-> s,
                    counts |-> DeleteResult(events, s.errors)]
    /\ events' = IF s.kind = "multi" THEN events ELSE <<>>

\* An attempt is answered: the next chunk, or the call returns and empties the batch.
Answer ==
    /\ submission # None /\ submission.sent # None
    /\ \E verdict \in [1..Len(submission.sent) -> Verdicts(submission.kind)] :
        LET errors == {[index |-> i - 1, result |-> verdict[i]] :
                            i \in {i \in DOMAIN verdict : verdict[i] # "ok"}}
            s == [submission EXCEPT !.sent = None, !.verdict = @ \o verdict,
                                    !.errors = @ \cup OffsetErrors(errors, submission.offset),
                                    !.offset = @ + Len(submission.sent)]
        IN IF s.kind = "multi" /\ s.offset < Len(s.list)
           THEN submission' = s /\ UNCHANGED <<events, returned>>
           ELSE Return(s)
    /\ UNCHANGED named

Next ==
    \/ Add \/ Clear \/ Commit \/ CommitDelete \/ InsertEvents
    \/ Send \/ Retry \/ Answer \/ Raise

Spec == Init /\ [][Next]_vars

-----------------------------------------------------------------------------
\* When a call returns, the cluster has judged every event that was in the list when it was
\* called, and the errors name those it refused, by their place in the caller's list; the counts
\* of a delete are right if nobody touched the batch meanwhile.  When it raises the batch still has
\* every event, unless it was cleared (commit, _submit_multi_batch_sync, _offset_batch_errors).
BatchSettled ==
    returned # None =>
        LET s == returned.call
            Judged(verdict) == {i \in DOMAIN s.verdict : s.verdict[i] = verdict}
        IN IF returned.raised THEN s.shared => s.before <= Len(s.list) /\ returned.kept
           ELSE /\ s.before <= Len(s.verdict)
                /\ {e.index + 1 : e \in s.errors} = DOMAIN s.verdict \ Judged("ok")
                /\ s.kind = "delete" /\ s.shared /\ Len(s.list) = s.before =>
                        returned.counts = [deleted_count |-> Cardinality(Judged("ok")),
                                           not_found_count |-> Cardinality(Judged("not_found"))]
=============================================================================
