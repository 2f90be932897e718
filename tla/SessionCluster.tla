--------------------------- MODULE SessionCluster ---------------------------
(***************************************************************************)
(* Client sessions in a cluster: primaries that commit, primaries that are *)
(* deposed and do not know it, and backups that answer clients.            *)
(*                                                                         *)
(* Vsr has the protocol between the replicas step by step; here a view     *)
(* change is one step of a quorum, and so is bringing a backup up to date. *)
(* What is kept of it is what clients can tell: which log each replica     *)
(* has, what it has executed, the view it is in, and the log_view that it  *)
(* has made durable, which is the view that it tells clients.              *)
(***************************************************************************)
EXTENDS ClientSessions

CONSTANTS ReplicaCount, QuorumReplication, QuorumViewChange,
          OpMax, ViewMax   \* bounds: log length, views

ASSUME ClusterAssumption ==
    /\ ReplicaCount \in Nat \ {0}
    /\ QuorumReplication \in 1..ReplicaCount /\ QuorumViewChange \in 1..ReplicaCount
    /\ QuorumReplication + QuorumViewChange > ReplicaCount
    /\ OpMax \in Nat /\ ViewMax \in Nat

Replica == 0..ReplicaCount - 1
View == 0..ViewMax
QuorumNack == ReplicaCount - QuorumReplication + 1

VARIABLES view,                    \* the view a replica is in ...
          status,                  \* ... "normal", or "view_change" until it has started
          log_view, durable,       \* the view of its log, in memory and in the superblock
          log,                     \* log[r]: requests with the view they were prepared in
          commit_min, commit_max,  \* executed, and known to be committed
          sessions,                \* sessions[r]: its session table
          acks                     \* acks[v][r]: the ops that r acknowledged in view v

viewVars == <<view, status, log_view>>
replicaVars == <<viewVars, durable, log, commit_min, commit_max, sessions, acks>>
vars == <<clientVars, replicaVars>>

Primary(v) == v % ReplicaCount
Normal(r) == status[r] = "normal"
IsPrimary(r) == r = Primary(view[r])

Init ==
    /\ ClientInit
    /\ view = [r \in Replica |-> 0] /\ status = [r \in Replica |-> "normal"]
    /\ log_view = [r \in Replica |-> 0] /\ durable = [r \in Replica |-> 0]
    /\ log = [r \in Replica |-> <<>>]
    /\ commit_min = [r \in Replica |-> 0] /\ commit_max = [r \in Replica |-> 0]
    /\ sessions = [r \in Replica |-> EmptyTable]
    /\ acks = [v \in View |-> [r \in Replica |-> 0]]

\* send_prepare_ok: a replica acknowledges its log in the view it is in, to another replica
\* once that is durable as its log_view, as the primary to itself at once.
Acknowledge(r) ==
    acks' = IF status'[r] = "normal" /\ (durable'[r] = view'[r] \/ r = Primary(view'[r]))
            THEN [acks EXCEPT ![view'[r]][r] = Len(log'[r])]
            ELSE acks

-----------------------------------------------------------------------------
(* on_request *)

\* Mutant of Preparing: the pipeline is not searched for the client.
NeverPreparing(r, c) == FALSE

\* message_by_client: client c has an operation in the pipeline.
Preparing(r, c) == \E o \in commit_min[r] + 1..Len(log[r]) : log[r][o].client = c

Accepts(r, m) == Normal(r) /\ m.view <= view[r]

\* The primary: no session, or an older one.
OnRequestEvict(r, m) ==
    /\ Accepts(r, m) /\ IsPrimary(r)
    /\ Evicts(sessions[r], Preparing(r, m.client), m)
    /\ evictions' = evictions \cup {[client |-> m.client, view |-> durable[r]]}
    /\ UNCHANGED <<replicaVars, client, requests, replies>>

\* on_request_repeat_reply, of the primary or of a backup.
OnRequestRepeat(r, m) ==
    /\ Accepts(r, m)
    /\ IF IsPrimary(r) THEN Repeats(sessions[r], m)
       ELSE Known(sessions[r], m.client) /\ sessions[r][m.client].request = m.request
    /\ replies' = replies \cup {ReplyOf(m.client, sessions[r][m.client], durable[r])}
    /\ UNCHANGED <<replicaVars, client, requests, evictions>>

\* The primary prepares a new request.
OnRequestPrepare(r, m) ==
    /\ Accepts(r, m) /\ IsPrimary(r)
    /\ commit_min[r] = commit_max[r]
    /\ IsNew(sessions[r], m) /\ ~Preparing(r, m.client)
    /\ Len(log[r]) < OpMax
    /\ log' = [log EXCEPT ![r] = Append(@, [client |-> m.client, request |-> m.request,
                                            kind |-> m.kind, view |-> view[r]])]
    /\ UNCHANGED <<clientVars, viewVars, durable, commit_min, commit_max, sessions>>
    /\ Acknowledge(r)

-----------------------------------------------------------------------------
(* Replication, commit and view change *)

\* on_prepare, on_start_view and repair: a backup takes the log of a primary whose view is
\* not behind its own, and learns what the primary has committed.  The primary sends an SV once
\* the view is durable as its log_view, which may be before it starts the view.
Follow(b, p) ==
    /\ b # p /\ IsPrimary(p) /\ durable[p] = view[p] /\ view[b] <= view[p]
    /\ <<view[b], status[b], log[b], commit_max[b]>> # <<view[p], "normal", log[p], commit_max[p]>>
    /\ view' = [view EXCEPT ![b] = view[p]]
    /\ status' = [status EXCEPT ![b] = "normal"]
    /\ log_view' = [log_view EXCEPT ![b] = view[p]]
    /\ log' = [log EXCEPT ![b] = log[p]]
    /\ commit_max' = [commit_max EXCEPT ![b] = Max({@, commit_max[p]})]
    /\ UNCHANGED <<clientVars, durable, commit_min, sessions>>
    /\ Acknowledge(b)

\* view_durable_update and its callback, which sends what waited for it.
ViewDurableUpdate(r) ==
    /\ durable[r] < log_view[r]
    /\ durable' = [durable EXCEPT ![r] = log_view[r]]
    /\ UNCHANGED <<clientVars, viewVars, log, commit_min, commit_max, sessions>>
    /\ Acknowledge(r)

\* The view that a reply of replica r tells at least.
ReplyView(r) == durable[r]

\* execute_op_reply_to_client: the primary replies, and one backup that only depends on op.
RepliesToClient(r, op) ==
    \/ IsPrimary(r)
    \/ r = (Primary(view[r]) + 1 + (op % (ReplicaCount - 1))) % ReplicaCount

\* execute_op: the next operation, on the table, and a reply to its client.
Execute(r) ==
    LET op == commit_min[r] + 1
        p == log[r][op]
        table == TableExecute(sessions[r], p, op)
    IN /\ commit_min' = [commit_min EXCEPT ![r] = op]
       /\ commit_max' = [commit_max EXCEPT ![r] = Max({@, op})]
       /\ sessions' = [sessions EXCEPT ![r] = table]
       /\ replies' = IF RepliesToClient(r, op)
                     THEN replies \cup {ReplyOf(p.client, EntryOf(p, op, 0), ReplyView(r))}
                     ELSE replies
       /\ UNCHANGED <<client, requests, evictions, viewVars, durable, log, acks>>

\* commit_pipeline: the primary, with a quorum of prepare_oks of its view.
CommitPipeline(r) ==
    /\ Normal(r) /\ IsPrimary(r) /\ commit_min[r] = commit_max[r]
    /\ commit_min[r] < Len(log[r])
    /\ Cardinality({b \in Replica : acks[view[r]][b] > commit_min[r]}) >= QuorumReplication
    /\ Execute(r)

\* commit_journal: a backup, or a primary that has not started its view yet.
CommitJournal(r) ==
    /\ IF Normal(r) THEN ~IsPrimary(r) ELSE IsPrimary(r) /\ log_view[r] = view[r]
    /\ commit_min[r] < commit_max[r] /\ commit_min[r] < Len(log[r])
    /\ Execute(r)

\* The log that the DVCs of Q give: the longest of the highest log_view, up to the first
\* operation that a nack quorum lacks.
Canonical(Q) == {r \in Q : \A s \in Q : log_view[s] <= log_view[r]}
LogOf(Q) ==
    LET longest == log[CHOOSE r \in Canonical(Q) : \A s \in Canonical(Q) : Len(log[s]) <= Len(log[r])]
        nacks(o) == {r \in Q : o > Len(log[r]) \/ log[r][o] # longest[o]}
        truncated == {o \in 1..Len(longest) : Cardinality(nacks(o)) >= QuorumNack}
    IN IF truncated = {} THEN longest ELSE SubSeq(longest, 1, Min(truncated) - 1)

\* A quorum leaves its views for v, each with its log_view durable before its DVC, and the
\* primary of v takes the log of the quorum.
ViewChange(v, Q) ==
    LET p == Primary(v)
    IN /\ p \in Q /\ \A r \in Q : view[r] < v
       /\ view' = [r \in Replica |-> IF r \in Q THEN v ELSE view[r]]
       /\ status' = [r \in Replica |-> IF r \in Q THEN "view_change" ELSE status[r]]
       /\ durable' = [r \in Replica |-> IF r \in Q THEN log_view[r] ELSE durable[r]]
       /\ log_view' = [log_view EXCEPT ![p] = v]
       /\ log' = [log EXCEPT ![p] = LogOf(Q)]
       /\ commit_max' = [commit_max EXCEPT ![p] = Max({commit_max[r] : r \in Q})]
       /\ UNCHANGED <<clientVars, commit_min, sessions, acks>>

\* primary_start_view_as_the_new_primary: once everything known committed is executed.
StartView(r) ==
    /\ ~Normal(r) /\ IsPrimary(r) /\ log_view[r] = view[r]
    /\ commit_min[r] = commit_max[r]
    /\ status' = [status EXCEPT ![r] = "normal"]
    /\ UNCHANGED <<clientVars, view, log_view, durable, log, commit_min, commit_max, sessions>>
    /\ Acknowledge(r)

-----------------------------------------------------------------------------
OnRequest(r) == \E m \in requests :
    OnRequestEvict(r, m) \/ OnRequestRepeat(r, m) \/ OnRequestPrepare(r, m)

ReplicaStep ==
    \/ \E r \in Replica : \/ OnRequest(r) \/ CommitPipeline(r) \/ CommitJournal(r)
                         \/ StartView(r) \/ ViewDurableUpdate(r)
    \/ \E b, p \in Replica : Follow(b, p)
    \/ \E v \in View, Q \in kSubset(QuorumViewChange, Replica) : ViewChange(v, Q)

Next == (ClientStep /\ UNCHANGED replicaVars) \/ ReplicaStep

Spec == Init /\ [][Next]_vars
-----------------------------------------------------------------------------
(* Properties *)

\* The replica that has executed most.
Foremost == CHOOSE r \in Replica : \A s \in Replica : commit_min[s] <= commit_min[r]

\* No log holds two operations for one request of a client, however often the request was
\* sent, to whichever replicas, across however many view changes.  A register may be there
\* twice, if its session was evicted in between.
PreparedOnce ==
    \A r \in Replica : \A i, j \in DOMAIN log[r] :
        /\ i < j
        /\ log[r][i].client = log[r][j].client /\ log[r][i].request = log[r][j].request
        => log[r][i].kind = "register"

\* What client_table_entry_create and client_table_entry_update assert of every operation
\* when it executes: a register finds no entry, a request finds the one before it.
ExecuteAssertions ==
    \A r \in Replica : \A o \in DOMAIN log[r] :
        o = commit_min[r] + 1 => TableAsserts(sessions[r], log[r][o], o)

\* A client that was told it is evicted is: its session is gone from the table of the
\* replica that has executed most.  A primary that does not know that it is deposed cannot
\* evict a client whose session it has not heard of.
EvictedIsEvicted ==
    \A c \in Client :
        client[c].evicted => sessions[Foremost][c].session # client[c].session

\* Whichever replica replied to a client, in whatever view, its next request proves the receipt to
\* every primary that has the request before it in its table: the contexts are the same, though
\* a request is prepared by one primary and replied to by another, or twice (on_request,
\* send_reply_message_to_client).
ReceiptsProven == \A r \in Replica : \A m \in requests :
    Accepts(r, m) /\ IsPrimary(r) => ~Unproven(sessions[r], m)

\* on_request never takes the branches it calls a client bug: the clients have none.
NoClientBug == \A r \in Replica : \A m \in requests :
    Accepts(r, m) /\ IsPrimary(r) => ~ClientBug(sessions[r], m)

\* The types, and the order of what a replica keeps: it executes no more than it knows to be
\* committed and has in its log, log_view_durable <= log_view <= view, and the table is never
\* larger than clients_max.
TypeOK ==
    /\ view \in [Replica -> View] /\ log_view \in [Replica -> View]
    /\ \A r \in Replica : commit_min[r] \in 0..Len(log[r]) /\ Len(log[r]) <= OpMax
    /\ \A r \in Replica : commit_min[r] <= commit_max[r]
    /\ \A r \in Replica : durable[r] <= log_view[r] /\ log_view[r] <= view[r]
    /\ \A r \in Replica : Cardinality(Sessions(sessions[r])) <= ClientsMax

=============================================================================
