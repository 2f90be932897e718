--------------------------------- MODULE Vsr ---------------------------------
(***************************************************************************)
(* Viewstamped Replication as src/src/vsr/replica.zig runs it between two  *)
(* checkpoints: prepares, prepare_oks and commits; the view change with    *)
(* the nack protocol of DVCQuorum.quorum_headers; the repair of headers    *)
(* and prepares; the WAL write that makes a prepare durable; the superblock*)
(* write that makes a view durable; and a crash, with the recovery of      *)
(* Replica.open, at any of these points.                                   *)
(*                                                                         *)
(* A prepare is named by its lineage: the sequence of the views in which   *)
(* it and its ancestors were prepared. Its op is the length, its view the  *)
(* last element, its parent the sequence without it. Two prepares are the  *)
(* same exactly when their checksums are, since a checksum covers the view *)
(* and the parent's checksum: the hash chain is the prefix relation.       *)
(*                                                                         *)
(* The network only remembers: a message once sent may be delivered any    *)
(* number of times, late, or never.                                        *)
(***************************************************************************)
EXTENDS Integers, Sequences, FiniteSets, FiniteSetsExt

CONSTANTS
    ReplicaCount,       \* replica_count
    QuorumReplication,  \* quorum_replication (Q2)
    QuorumViewChange,   \* quorum_view_change (Q1)
    PipelineMax,        \* constants.pipeline_prepare_queue_max
    OpMax,              \* bound: the highest op prepared
    ViewMax,            \* bound: the highest view
    CrashMax,           \* bound: crashes, over all replicas
    Rotting,            \* bound: the ops whose prepares may rot on a replica's disk
    None,               \* no header, no write in flight, no nonce
    Torn, Rotten        \* what is left on disk of a first write, or of a prepare there was

ASSUME CountsAssumption ==
    /\ ReplicaCount \in Nat \ {0, 1}
    /\ PipelineMax \in Nat \ {0}
    /\ OpMax \in Nat /\ ViewMax \in Nat /\ CrashMax \in Nat /\ Rotting \subseteq 1..OpMax

\* flexible_paxos.validate, and what quorum_headers asserts of its options.
ASSUME QuorumAssumption ==
    /\ QuorumReplication \in 1..ReplicaCount
    /\ QuorumViewChange \in 2..ReplicaCount
    /\ QuorumReplication + QuorumViewChange > ReplicaCount

Replica == 0..(ReplicaCount - 1)
View == 0..ViewMax
Op == 0..OpMax
Prepare == UNION {[1..n -> View] : n \in Op}
ASSUME NoneAssumption ==
    /\ {None, Torn, Rotten} \cap Prepare = {} /\ Cardinality({None, Torn, Rotten}) = 3
    /\ None \notin Replica \X Nat

\* Mutant of QuorumNack: off by one.
NackByMinority == ReplicaCount - QuorumReplication
QuorumNack == ReplicaCount - QuorumReplication + 1
PrimaryIndex(v) == v % ReplicaCount

Root == <<>>
OpOf(p) == Len(p)
ViewOf(p) == IF p = Root THEN 0 ELSE p[Len(p)]
Ancestor(p, o) == SubSeq(p, 1, o)
HigherOf(a, b) == IF a >= b THEN a ELSE b
LowerOf(a, b) == IF a <= b THEN a ELSE b

VARIABLES
    status,         \* "normal", "view_change" or "recovering_head"
    view,
    log_view,       \* the view of the last normal status, or of the last DVC quorum
    view_headers,   \* [command, headers]: the DVC or SV headers kept in memory
    dvc_quorum,     \* do_view_change_quorum
    durable,        \* superblock: [view, log_view, view_headers, commit_max]
    op,
    commit_min,
    commit_max,
    journal,        \* WAL in memory, a slot [header, dirty, faulty] for every op
    disk,           \* the prepare on disk in each slot: a prepare, None or Torn
    writing,        \* the prepare whose write is in flight in each slot, or None
    incarnation,    \* how often the replica restarted: its nonce
    prepared,       \* every prepare message ever sent
    prepare_oks, do_view_changes, start_views, commits,
    committed       \* history: every prepare some replica executed

viewVars == <<status, view, log_view, view_headers, dvc_quorum>>
logVars == <<op, journal>>
commitVars == <<commit_min, commit_max, committed>>
diskVars == <<disk, writing>>
netVars == <<prepared, prepare_oks, do_view_changes, start_views, commits>>
vars == <<viewVars, durable, logVars, commitVars, diskVars, incarnation, netVars>>

-----------------------------------------------------------------------------
(* The journal. *)

Slot == [header: Prepare \cup {None}, dirty: BOOLEAN, faulty: BOOLEAN]
Reserved == [header |-> None, dirty |-> FALSE, faulty |-> FALSE]
CleanSlot(p) == [header |-> p, dirty |-> FALSE, faulty |-> FALSE]
\* Mutant of FaultySlot: recovery does not remember that the slot may have held a prepare.
FaultyAsMissing == [header |-> None, dirty |-> TRUE, faulty |-> FALSE]
FaultySlot == [header |-> None, dirty |-> TRUE, faulty |-> TRUE]

\* set_header_as_dirty, and replace_header, which spares a slot that has the header.
SetHeader(slot, p) ==
    IF slot.header = p THEN slot
    ELSE [header |-> p, dirty |-> TRUE, faulty |-> slot.header = None /\ slot.faulty]

HasPrepare(r, p) == journal[r][OpOf(p)].header = p /\ ~journal[r][OpOf(p)].dirty
HeadHeader(r) == journal[r][op[r]].header

\* valid_hash_chain_between: every header is there, and each is the next one's parent.
HashChain(j, from, to) ==
    \A o \in from..to : j[o].header # None /\ j[o].header = Ancestor(j[to].header, o)

\* The prepare is on disk, in the pipeline, or in the buffer of its own write.
Readable(r, p) == p \in {disk[r][OpOf(p)], writing[r][OpOf(p)]}

-----------------------------------------------------------------------------
(* View headers: a function from consecutive ops to a header or None (blank). *)

HeadOp(headers) == Max(DOMAIN headers)

StartViewHeaders(p) ==
    [command |-> "start_view",
     headers |-> [o \in HigherOf(0, OpOf(p) - PipelineMax)..OpOf(p) |-> Ancestor(p, o)]]

\* update_do_view_change_headers: from the head down to the first op that is committed,
\* journal headers first, then what the view headers knew. A primary that already installed
\* a DVC quorum passes the old view headers over, as they may hold truncated ops.
DoViewChangeHeaders(j, head, cmax, old, repairing) ==
    LET top == IF repairing THEN head ELSE HigherOf(head, HeadOp(old))
        known(o) == IF ~repairing /\ o \in DOMAIN old THEN old[o] ELSE None
    IN [command |-> "do_view_change",
        headers |-> [o \in LowerOf(cmax, top)..top |->
                        IF j[o].header # None THEN j[o].header ELSE known(o)]]

\* What view_for_op allows a header of this op to have as its view.
ViewForOp(headers, o, lv) ==
    LET valid == {i \in DOMAIN headers : headers[i] # None}
        below == {i \in valid : i <= o}
        above == {i \in valid : i >= o}
    IN (IF below = {} THEN 0 ELSE IF above = {} THEN lv ELSE ViewOf(headers[Max(below)]))
       ..(IF above = {} THEN lv ELSE ViewOf(headers[Min(above)]))

-----------------------------------------------------------------------------
(* Sending. A message that advertises a view or a log_view waits until it is durable. *)

\* Mutant of ViewDurable: a log_view still being written counts as durable.
OnlyViewDurable(r) == durable[r].view = view[r]

ViewDurable(r) == durable[r].view = view[r] /\ durable[r].log_view = log_view[r]

\* send_prepare_ok: only in normal status, for a clean prepare, to the primary of the view.
PrepareOks(r, prepares) ==
    {[replica |-> r, view |-> view[r], prepare |-> p] : p \in
        {p \in prepares : /\ status[r] = "normal"
                          /\ HasPrepare(r, p)
                          /\ OpOf(p) <= op[r]
                          /\ r = PrimaryIndex(view[r]) \/ ViewDurable(r)}}

\* What a primary acknowledges to itself is in its memory only. (Of a view in its superblock it
\* is history: it never leads that view again, so nobody counts it.)
OwnPrepareOks(r) ==
    {m \in prepare_oks : m.replica = r /\ r = PrimaryIndex(m.view) /\ m.view > durable[r].log_view}

\* The prepares send_prepare_oks_from looks at: all the log holds past commit_max.
Uncommitted(r) == {journal[r][o].header : o \in (commit_max[r] + 1)..op[r]} \ {None}

\* send_do_view_change: nack what was certainly not acknowledged, offer what can be read.
DoViewChange(r) ==
    LET h == view_headers[r].headers
        slot(o) == journal[r][o]
        nack(o) == \/ slot(o).header = None /\ ~slot(o).faulty
                   \/ h[o] # None /\ slot(o).header = h[o] /\ slot(o).dirty /\ ~slot(o).faulty
                   \/ h[o] # None /\ slot(o).header \notin {None, h[o]}
    IN [replica |-> r, view |-> view[r], log_view |-> log_view[r], op |-> HeadOp(h),
        headers |-> h,
        nacks |-> {o \in DOMAIN h : nack(o)},
        present |-> {o \in DOMAIN h : h[o] # None /\ Readable(r, h[o])},
        commit_min |-> commit_min[r]]

\* The DVC a new primary sends itself is also in its memory only; others are in the network,
\* sent once view and log_view are durable.
OwnDoViewChanges(r) ==
    {m \in do_view_changes : m.replica = r /\ r = PrimaryIndex(m.view)}

SendDoViewChange(r) ==
    do_view_changes' =
        (do_view_changes \ OwnDoViewChanges(r))
            \cup (IF r = PrimaryIndex(view[r])' \/ ViewDurable(r)' THEN {DoViewChange(r)'} ELSE {})

\* create_start_view_message, for a request with this nonce or (None) for everyone.
StartView(r, nonce) ==
    [view |-> view[r], head |-> HeadHeader(r), commit_max |-> commit_max[r], nonce |-> nonce]

-----------------------------------------------------------------------------
Init ==
    /\ status = [r \in Replica |-> "normal"]
    /\ view = [r \in Replica |-> 0]
    /\ log_view = [r \in Replica |-> 0]
    /\ view_headers = [r \in Replica |-> StartViewHeaders(Root)]
    /\ dvc_quorum = [r \in Replica |-> FALSE]
    /\ durable = [r \in Replica |-> [view |-> 0, log_view |-> 0, commit_max |-> 0,
                                     view_headers |-> StartViewHeaders(Root)]]
    /\ op = [r \in Replica |-> 0]
    /\ commit_min = [r \in Replica |-> 0]
    /\ commit_max = [r \in Replica |-> 0]
    /\ journal = [r \in Replica |-> [o \in Op |-> IF o = 0 THEN CleanSlot(Root) ELSE Reserved]]
    /\ disk = [r \in Replica |-> [o \in Op |-> IF o = 0 THEN Root ELSE None]]
    /\ writing = [r \in Replica |-> [o \in Op |-> None]]
    /\ incarnation = [r \in Replica |-> 0]
    /\ prepared = {}
    /\ prepare_oks = {} /\ do_view_changes = {} /\ start_views = {} /\ commits = {}
    /\ committed = {}

-----------------------------------------------------------------------------
(* Normal operation. *)

\* write_prepare: a slot with a write in flight is left to a later repair.
WritePrepare(r, p) ==
    writing' = IF writing[r][OpOf(p)] = None
               THEN [writing EXCEPT ![r][OpOf(p)] = p] ELSE writing

\* on_prepare past the checks: advance the op, mark the header dirty, start the write.
AppendPrepare(r, p) ==
    /\ op' = [op EXCEPT ![r] = OpOf(p)]
    /\ journal' = [journal EXCEPT ![r][OpOf(p)] = SetHeader(@, p)]
    /\ WritePrepare(r, p)
    /\ UNCHANGED disk

NewPrepare(r) == Append(HeadHeader(r), view[r])

\* on_request and primary_pipeline_prepare. Requests wait for the view to be durable.
OnRequest(r) ==
    /\ status[r] = "normal" /\ r = PrimaryIndex(view[r])
    /\ ViewDurable(r)
    /\ commit_min[r] = commit_max[r]
    /\ op[r] - commit_max[r] < PipelineMax
    /\ op[r] < OpMax
    /\ prepared' = prepared \cup {NewPrepare(r)}
    /\ AppendPrepare(r, NewPrepare(r))
    /\ UNCHANGED <<viewVars, durable, commitVars, incarnation,
                   prepare_oks, do_view_changes, start_views, commits>>

\* on_prepare, a backup. The op may jump over a gap; the prepare's own commit number says no
\* more here than that everything the pipeline cannot hold is committed.
OnPrepare(r, p) ==
    /\ status[r] = "normal" /\ r # PrimaryIndex(view[r])
    /\ ViewOf(p) = view[r] /\ OpOf(p) > op[r]
    /\ AppendPrepare(r, p)
    /\ commit_max' = [commit_max EXCEPT ![r] = HigherOf(@, OpOf(p) - PipelineMax)]
    /\ UNCHANGED <<viewVars, durable, commit_min, committed, incarnation, netVars>>

\* write_prepare_header and write_prepare_on_write_header. Only a write whose header is still
\* the journal's makes the slot clean and sends a prepare_ok.
WriteDone(r, o) ==
    \E p \in {writing[r][o]} \ {None} :
       /\ disk' = [disk EXCEPT ![r][o] = p]
       /\ writing' = [writing EXCEPT ![r][o] = None]
       /\ journal' = [journal EXCEPT ![r][o] =
                        IF @.header = p THEN CleanSlot(p) ELSE [@ EXCEPT !.dirty = TRUE]]
       /\ UNCHANGED <<viewVars, durable, op, commitVars, incarnation>>
       /\ prepare_oks' = IF journal[r][o].header = p THEN prepare_oks \cup PrepareOks(r, {p})'
                                                     ELSE prepare_oks
       /\ UNCHANGED <<prepared, do_view_changes, start_views, commits>>

\* ignore_prepare_ok, on_prepare_ok: who acknowledged this prepare in this view.
Acks(r, p) == {m.replica : m \in {m \in prepare_oks : m.view = view[r] /\ m.prepare = p}}

\* on_prepare_ok and commit_pipeline: the head of the pipeline has its replication quorum.
PrimaryCommit(r) ==
    LET o == commit_max[r] + 1
        p == journal[r][o].header
    IN /\ status[r] = "normal" /\ r = PrimaryIndex(view[r])
       /\ commit_max[r] < op[r]
       /\ Cardinality(Acks(r, p)) >= QuorumReplication
       /\ commit_min' = [commit_min EXCEPT ![r] = o]
       /\ commit_max' = [commit_max EXCEPT ![r] = o]
       /\ committed' = committed \cup {p}
       /\ UNCHANGED <<viewVars, durable, logVars, diskVars, incarnation, netVars>>

\* on_commit_message_timeout, send_commit: the heartbeat, with the checksum of commit_max.
SendCommit(r) ==
    /\ status[r] = "normal" /\ r = PrimaryIndex(view[r])
    /\ commit_min[r] = commit_max[r] /\ commit_max[r] > 0
    /\ ViewDurable(r)
    /\ commits' = commits \cup {[view |-> view[r], prepare |-> journal[r][commit_max[r]].header]}
    /\ commits' # commits
    /\ UNCHANGED <<viewVars, durable, logVars, commitVars, diskVars, incarnation,
                   prepared, prepare_oks, do_view_changes, start_views>>

\* on_commit, advance_commit_max. (What its hash-chain check panics on: NoHashChainPanic.)
OnCommit(r, m) ==
    /\ status[r] = "normal" /\ r # PrimaryIndex(view[r])
    /\ m.view = view[r]
    /\ commit_max[r] < OpOf(m.prepare)
    /\ commit_max' = [commit_max EXCEPT ![r] = OpOf(m.prepare)]
    /\ UNCHANGED <<viewVars, durable, logVars, commit_min, committed, diskVars, incarnation,
                   netVars>>

\* commit_journal, of a backup or of a primary that has its DVC quorum: the next op, if the
\* log connects it to the head or the head is of its view, and if the prepare can be read.
CommitJournal(r) ==
    LET o == commit_min[r] + 1
        p == journal[r][o].header
    IN /\ \/ status[r] = "normal" /\ r # PrimaryIndex(view[r])
          \/ status[r] = "view_change" /\ dvc_quorum[r]
       /\ commit_min[r] < LowerOf(commit_max[r], op[r])
       /\ p # None
       /\ \/ /\ op[r] >= commit_max[r]
             /\ HashChain(journal[r], HigherOf(commit_min[r], 1), op[r])
          \/ status[r] = "normal" /\ ViewOf(p) = ViewOf(HeadHeader(r))
       /\ Readable(r, p)
       /\ commit_min' = [commit_min EXCEPT ![r] = o]
       /\ committed' = committed \cup {p}
       /\ UNCHANGED <<viewVars, durable, logVars, commit_max, diskVars, incarnation, netVars>>

-----------------------------------------------------------------------------
(* Repair of the log. *)

RepairsAllowed(r) ==
    \/ status[r] = "normal"
    \/ status[r] = "view_change" /\ dvc_quorum[r]

\* Mutant of RepairsHeader: the head itself is not repaired.
RepairsBelowHead(r, p) ==
    /\ ViewOf(p) <= view[r]
    /\ OpOf(p) < op[r]
    /\ ~HasPrepare(r, p)
    /\ \/ ViewOf(p) = ViewOf(HeadHeader(r))
       \/ /\ p = Ancestor(HeadHeader(r), OpOf(p))
          /\ HashChain(journal[r], OpOf(p) + 1, op[r])

\* repair_header: never past the head, never a different head, and never an older view's
\* header unless the log connects it to the head.
RepairsHeader(r, p) ==
    /\ ViewOf(p) <= view[r]
    /\ IF OpOf(p) = op[r] THEN p = HeadHeader(r) ELSE OpOf(p) < op[r]
    /\ ~HasPrepare(r, p)
    /\ \/ ViewOf(p) = ViewOf(HeadHeader(r))
       \/ /\ p = Ancestor(HeadHeader(r), OpOf(p))
          /\ HashChain(journal[r], OpOf(p) + 1, op[r])

\* on_headers: a replica in any view may answer.
RepairHeader(r, p) ==
    /\ RepairsAllowed(r) /\ RepairsHeader(r, p)
    /\ journal[r][OpOf(p)].header # p
    /\ journal' = [journal EXCEPT ![r][OpOf(p)] = SetHeader(@, p)]
    /\ UNCHANGED <<viewVars, durable, op, commitVars, diskVars, incarnation, netVars>>

\* on_repair: a prepare of an older view, or of an op the log already has.
OnRepair(r, p) ==
    /\ RepairsAllowed(r)
    /\ ViewOf(p) <= view[r] /\ OpOf(p) <= op[r]
    /\ status[r] = "view_change" => ViewOf(p) < view[r]
    /\ IF HasPrepare(r, p)
       THEN /\ PrepareOks(r, {p}) \ prepare_oks # {}
            /\ prepare_oks' = prepare_oks \cup PrepareOks(r, {p})
            /\ UNCHANGED <<journal, writing>>
       ELSE /\ RepairsHeader(r, p)
            /\ writing[r][OpOf(p)] = None
            /\ journal' = [journal EXCEPT ![r][OpOf(p)] = SetHeader(@, p)]
            /\ WritePrepare(r, p)
            /\ UNCHANGED prepare_oks
    /\ UNCHANGED <<viewVars, durable, op, commitVars, disk, incarnation,
                   prepared, do_view_changes, start_views, commits>>

-----------------------------------------------------------------------------
(* The view change. *)

\* transition_to_view_change_status: the DVC headers are fixed on leaving a view the replica
\* was part of (log_view = view), and kept while later views fail.
ViewChangeTo(r, v) ==
    /\ view_headers' =
          IF log_view[r] = view[r]
          THEN [view_headers EXCEPT ![r] =
                  DoViewChangeHeaders(journal[r], op[r], commit_max[r], @.headers,
                                      status[r] = "view_change")]
          ELSE view_headers
    /\ status' = [status EXCEPT ![r] = "view_change"]
    /\ view' = [view EXCEPT ![r] = v]
    /\ dvc_quorum' = [dvc_quorum EXCEPT ![r] = FALSE]
    /\ UNCHANGED <<log_view, durable, logVars, commitVars, diskVars, incarnation>>
    /\ SendDoViewChange(r)
    /\ UNCHANGED <<prepared, prepare_oks, start_views, commits>>

\* on_start_view_change. Replicas of one view vote to leave it, when the heartbeat or the view
\* change times out; a normal primary does not vote, nor one whose view is not durable.
Votes(r) == {q \in Replica :
    /\ view[q] = view[r]
    /\ \/ status[q] = "normal" /\ q # PrimaryIndex(view[q])
       \/ status[q] = "view_change"
    /\ q = r \/ durable[q].view = view[q]}

OnStartViewChange(r) ==
    /\ status[r] \in {"normal", "view_change"}
    /\ Cardinality(Votes(r)) >= QuorumViewChange
    /\ view[r] < ViewMax
    /\ ViewChangeTo(r, view[r] + 1)

\* jump_view: a ping, an SVC or a DVC of a higher view, which its sender has made durable.
JumpView(r, q) ==
    /\ status[r] \in {"normal", "view_change"}
    /\ view[r] < durable[q].view
    /\ ViewChangeTo(r, durable[q].view)

\* do_view_change_message_timeout: the same headers, with what has been written since.
DoViewChangeTimeout(r) ==
    /\ status[r] = "view_change" /\ log_view[r] < view[r] /\ ~dvc_quorum[r]
    /\ r # PrimaryIndex(view[r])
    /\ ViewDurable(r)
    /\ DoViewChange(r) \notin do_view_changes
    /\ do_view_changes' = do_view_changes \cup {DoViewChange(r)}
    /\ UNCHANGED <<viewVars, durable, logVars, commitVars, diskVars, incarnation,
                   prepared, prepare_oks, start_views, commits>>

\* What DVCQuorum computes from a set of DVCs of one view, one per replica.
LogViewMax(Q) == Max({m.log_view : m \in Q})
Canonical(Q) == {m \in Q : m.log_view = LogViewMax(Q)}
OpMaxCanonical(Q) == Max({m.op : m \in Canonical(Q)})
CommitMaxOf(Q) == Max(UNION {{Min(DOMAIN m.headers), m.op - PipelineMax, m.commit_min} : m \in Q})
HeadersAt(Q, o) == {m.headers[o] : m \in {m \in Q : o \in DOMAIN m.headers}} \ {None}
HeaderCanonical(Q, o) ==
    IF HeadersAt(Canonical(Q), o) = {} THEN None
    ELSE CHOOSE p \in HeadersAt(Canonical(Q), o) : TRUE

Nacks(Q, o) == {m \in Q : \/ o \notin DOMAIN m.headers
                          \/ o \in m.nacks
                          \/ m.headers[o] \notin {None, HeaderCanonical(Q, o)}}
Copies(Q, o) == {m \in Q : /\ o \in m.present
                           /\ m.headers[o] = HeaderCanonical(Q, o)}
Truncated(Q, o) == Cardinality(Nacks(Q, o)) >= QuorumNack
Undecided(Q, o) == ~Truncated(Q, o) /\ (HeaderCanonical(Q, o) = None \/ Copies(Q, o) = {})

\* quorum_headers: scan up from the highest op known to be committed. The first op that
\* a nack quorum truncates ends the log; the first op that is neither truncated nor
\* readable anywhere makes the quorum wait for another DVC.
Stops(Q) == {o \in CommitMaxOf(Q)..OpMaxCanonical(Q) : Truncated(Q, o) \/ Undecided(Q, o)}
CompleteValid(Q) == Stops(Q) = {} \/ Truncated(Q, Min(Stops(Q)))
OpHead(Q) == IF Stops(Q) = {} THEN OpMaxCanonical(Q) ELSE Min(Stops(Q)) - 1

\* The DVCs a primary may have when on_do_view_change evaluates them: its own is there,
\* and it evaluates again with each DVC that arrives until the quorum is complete.
DoViewChangeQuorums(r) ==
    {Q \in SUBSET {m \in do_view_changes : m.view = view[r]} :
        /\ \E m \in Q : m.replica = r
        /\ \A m, n \in Q : m.replica = n.replica => m = n
        /\ Cardinality(Q) >= QuorumViewChange
        /\ CompleteValid(Q)
        /\ \/ Cardinality(Q) = QuorumViewChange
           \/ \E m \in Q : m.replica # r /\ ~CompleteValid(Q \ {m})}

\* primary_set_log_from_do_view_change_messages: truncate, install the canonical headers,
\* then those another DVC says are committed, then those that connect to the new head.
QuorumJournal(j, Q) ==
    LET head == OpHead(Q)
        low == CommitMaxOf(Q)
        headHeader == HeaderCanonical(Q, head)
        other == Q \ Canonical(Q)
        trusted(o) == IF o \in low..head THEN {HeaderCanonical(Q, o)}
                      ELSE HeadersAt({m \in other : o <= m.commit_min}, o)
        slot(o) == IF trusted(o) = {} THEN j[o]
                   ELSE SetHeader(j[o], CHOOSE p \in trusted(o) : TRUE)
        offered(o) == HeadersAt(other, o) \cap {Ancestor(headHeader, o)}
        connected(o) == \A k \in (o + 1)..head :
                            slot(k).header = Ancestor(headHeader, k) \/ offered(k) # {}
        repaired(o) == {p \in HeadersAt(other, o) : ViewOf(p) = ViewOf(headHeader)}
                         \cup (IF connected(o) THEN offered(o) ELSE {})
    IN [o \in Op |->
          IF o > head THEN Reserved
          ELSE IF trusted(o) # {} \/ repaired(o) = {} THEN slot(o)
          ELSE SetHeader(j[o], CHOOSE p \in repaired(o) : TRUE)]

\* on_do_view_change: the new primary has what it needs to fix the log of its view. (It stops
\* at an assertion if that would truncate what it knows is committed: DoViewChangeAssertions.)
OnDoViewChange(r) ==
    /\ status[r] = "view_change" /\ r = PrimaryIndex(view[r])
    /\ log_view[r] < view[r] /\ ~dvc_quorum[r]
    /\ \E Q \in DoViewChangeQuorums(r) :
        /\ HigherOf(commit_max[r], CommitMaxOf(Q)) <= OpHead(Q)
        /\ dvc_quorum' = [dvc_quorum EXCEPT ![r] = TRUE]
        /\ log_view' = [log_view EXCEPT ![r] = view[r]]
        /\ op' = [op EXCEPT ![r] = OpHead(Q)]
        /\ commit_max' = [commit_max EXCEPT ![r] = HigherOf(@, CommitMaxOf(Q))]
        /\ journal' = [journal EXCEPT ![r] = QuorumJournal(@, Q)]
        /\ UNCHANGED <<status, view, view_headers, durable, commit_min, committed, diskVars,
                       incarnation, netVars>>

HeadersRepaired(r) == HashChain(journal[r], 0, op[r])
PreparesRepaired(r) == \A o \in 0..op[r] : ~journal[r][o].dirty

\* primary_send_start_view: by repair once the new primary's headers connect, by the durable
\* callback, and in answer to a request_start_view of replica q (on_request_start_view).
PrimarySendStartView(r, nonce) ==
    /\ r = PrimaryIndex(view[r])
    /\ \/ status[r] = "normal" /\ commit_min[r] = commit_max[r]
       \/ status[r] = "view_change" /\ dvc_quorum[r] /\ HeadersRepaired(r)
    /\ view_headers' = [view_headers EXCEPT ![r] = StartViewHeaders(HeadHeader(r))]
    /\ start_views' = IF ViewDurable(r) THEN start_views \cup {StartView(r, nonce)}
                                        ELSE start_views
    /\ <<view_headers, start_views>>' # <<view_headers, start_views>>
    /\ UNCHANGED <<status, view, log_view, dvc_quorum, durable, logVars, commitVars, diskVars,
                   incarnation, prepared, prepare_oks, do_view_changes, commits>>

RepairSendStartView(r) ==
    /\ status[r] = "view_change"
    /\ PrimarySendStartView(r, None)

\* A replica asks from view_change or recovering_head, or when it knows of commits it lacks;
\* only a primary in normal status answers.
OnRequestStartView(r, q) ==
    /\ status[r] = "normal" /\ r # q
    /\ view[q] <= view[r]
    /\ \/ status[q] # "normal" \/ view[q] < view[r]
       \/ op[q] < HigherOf(commit_max[q], HeadOp(view_headers[q].headers))
    /\ PrimarySendStartView(r, IF status[q] = "recovering_head" THEN <<q, incarnation[q]>>
                                                                ELSE None)

\* primary_start_view_as_the_new_primary, with the prepare_oks it sends to itself.
StartViewAsTheNewPrimary(r) ==
    /\ status[r] = "view_change" /\ dvc_quorum[r]
    /\ view_headers[r].command = "start_view"
    /\ HeadersRepaired(r) /\ PreparesRepaired(r)
    /\ commit_min[r] = commit_max[r]
    /\ status' = [status EXCEPT ![r] = "normal"]
    /\ dvc_quorum' = [dvc_quorum EXCEPT ![r] = FALSE]
    /\ UNCHANGED <<view, log_view, view_headers, durable, logVars, commitVars, diskVars,
                   incarnation>>
    /\ prepare_oks' = prepare_oks \cup PrepareOks(r, Uncommitted(r))'
    /\ UNCHANGED <<prepared, do_view_changes, start_views, commits>>

\* Mutant of AcceptsStartView: a replica that lost its head trusts any SV.
AcceptsAnyNonce(r, m) ==
    /\ r # PrimaryIndex(m.view)
    /\ m.view >= view[r]
    /\ ~(m.view = log_view[r] /\ OpOf(m.head) < op[r])

\* Mutant of AcceptsStartView: an SV of an older view takes a view change back.
AcceptsOlderView(r, m) ==
    /\ r # PrimaryIndex(m.view)
    /\ m.view >= log_view[r]
    /\ status[r] = "recovering_head" => m.view > view[r] \/ m.nonce = <<r, incarnation[r]>>
    /\ ~(m.view = log_view[r] /\ OpOf(m.head) < op[r])

\* ignore_view_change_message and the checks of on_start_view. A replica that lost its head
\* trusts an SV only if it was sent after the crash.
AcceptsStartView(r, m) ==
    /\ r # PrimaryIndex(m.view)
    /\ m.view >= view[r]
    /\ status[r] = "recovering_head" => m.view > view[r] \/ m.nonce = <<r, incarnation[r]>>
    /\ ~(m.view = log_view[r] /\ OpOf(m.head) < op[r])

\* Mutant of StartViewJournal: the head is truncated with what follows it.
StartViewDropsHead(j, headers) ==
    [o \in Op |-> IF o >= HeadOp(headers) /\ o > 0 THEN Reserved
                  ELSE IF o \in DOMAIN headers THEN SetHeader(j[o], headers[o]) ELSE j[o]]

\* The log after an SV: truncated after its head, its headers installed.
StartViewJournal(j, headers) ==
    [o \in Op |-> IF o > HeadOp(headers) THEN Reserved
                  ELSE IF o \in DOMAIN headers THEN SetHeader(j[o], headers[o]) ELSE j[o]]

\* on_start_view and on_start_view_set_journal.
OnStartView(r, m) ==
    /\ AcceptsStartView(r, m)
    /\ view' = [view EXCEPT ![r] = m.view]
    /\ log_view' = [log_view EXCEPT ![r] = m.view]
    /\ status' = [status EXCEPT ![r] = "normal"]
    /\ dvc_quorum' = [dvc_quorum EXCEPT ![r] = FALSE]
    /\ view_headers' = [view_headers EXCEPT ![r] = StartViewHeaders(m.head)]
    /\ op' = [op EXCEPT ![r] = OpOf(m.head)]
    /\ commit_max' = [commit_max EXCEPT ![r] = HigherOf(@, m.commit_max)]
    /\ journal' = [journal EXCEPT ![r] = StartViewJournal(@, StartViewHeaders(m.head).headers)]
    /\ <<viewVars, logVars, commit_max>>' # <<viewVars, logVars, commit_max>>
    /\ UNCHANGED <<durable, commit_min, committed, diskVars, incarnation>>
    /\ prepare_oks' = IF status[r] = "view_change"
                      THEN prepare_oks \cup PrepareOks(r, Uncommitted(r))' ELSE prepare_oks
    /\ UNCHANGED <<prepared, do_view_changes, start_views, commits>>

-----------------------------------------------------------------------------
(* The superblock. *)

\* view_durable_update up to its callback, which sends what waited for it. A primary whose DVC
\* quorum is complete writes its new log_view only with the SV headers of repair.
ViewDurableUpdate(r) ==
    /\ ~ViewDurable(r)
    /\ status[r] # "recovering_head"
    /\ log_view[r] = view[r] => view_headers[r].command = "start_view"
    /\ UNCHANGED <<viewVars, logVars, commitVars, diskVars, incarnation, prepared, commits>>
    /\ durable' = [durable EXCEPT ![r] =
                      [view |-> view[r], log_view |-> log_view[r], commit_max |-> commit_max[r],
                       view_headers |-> view_headers[r]]]
    /\ IF log_view[r] < view[r] /\ ~dvc_quorum[r] /\ r # PrimaryIndex(view[r])
       THEN do_view_changes' = do_view_changes \cup {DoViewChange(r)}
       ELSE UNCHANGED do_view_changes
    /\ IF log_view[r] = view[r] /\ r = PrimaryIndex(view[r])
       THEN start_views' = start_views \cup {StartView(r, None)}
       ELSE UNCHANGED start_views
    /\ IF status[r] = "normal" /\ r # PrimaryIndex(view[r])
       THEN prepare_oks' = prepare_oks \cup PrepareOks(r, Uncommitted(r))'
       ELSE UNCHANGED prepare_oks

-----------------------------------------------------------------------------
(* Crash and restart. *)

\* What recover_slots can make of a slot: as it was before a write in flight, as after it, torn
\* by it, or rotten. Where the redundant header may disagree with the prepare, the slot is
\* faulty; torn_prepares may truncate a torn slot that held nothing of this op before, and no
\* other: the redundant header of an overwritten prepare is still there.
RecoveredSlots(r, o) ==
    LET old == disk[r][o]
        new == writing[r][o]
        found(prepares, slots) == {[disk |-> p, slot |-> s] : p \in prepares, s \in slots}
        before == CASE old = None -> found({None}, {Reserved})
                    [] old = Torn -> found({Torn}, {Reserved, FaultySlot})
                    [] old = Rotten -> found({Rotten}, {FaultySlot})
                    [] OTHER ->
                        found({old}, {CleanSlot(old)} \cup
                                     IF journal[r][o] = CleanSlot(old) THEN {} ELSE {FaultySlot})
                        \cup found(IF o \in Rotting THEN {Rotten} ELSE {}, {FaultySlot})
        after == IF new = None THEN {}
                 ELSE found({new}, {CleanSlot(new), FaultySlot}) \cup
                      IF old \in {None, Torn} THEN found({Torn}, {Reserved, FaultySlot})
                                              ELSE found({Rotten}, {FaultySlot})
    IN before \cup after

\* recover_slots drops the headers the durable view headers rule out.
FilterByView(slots, d) ==
    [o \in Op |->
        LET p == slots[o].slot.header
        IN IF p = None \/ ViewOf(p) \in ViewForOp(d.view_headers.headers, o, d.log_view)
           THEN slots[o].slot ELSE Reserved]

\* Mutant of RecoverHead: the head of the view headers, whatever the log has past it.
RecoversViewHead(j, d) == HeadOp(d.view_headers.headers)

\* Replica.open: the head is the last of the log, if the crash was in normal status, or the
\* head of the view headers, if they go further.
RecoverHead(j, d) ==
    LET inLog == IF d.log_view = d.view THEN {o \in Op : j[o].header # None} ELSE {}
    IN Max(inLog \cup {HeadOp(d.view_headers.headers)})

\* Mutant of OpHeadCertain: a faulty slot after the head is taken for a torn write.
AlwaysCertain(j, o) == TRUE

\* op_head_certain: no faulty slot at or after the head, where a later op may have been.
OpHeadCertain(j, o) == \A k \in o..OpMax : ~j[k].faulty

\* Mutant of Retires: a restarted primary goes on in its view.
NeverRetires(r, d, j, o) == FALSE

\* A primary that restarts leaves its view, to prepare nothing twice in it.
Retires(r, d, j, o) == d.log_view = d.view /\ OpHeadCertain(j, o) /\ r = PrimaryIndex(d.view)

CrashRestart(r, slots) ==
    LET d == durable[r]
        vh == d.view_headers.headers
        filtered == FilterByView(slots, d)
        o == RecoverHead(filtered, d)
        j == IF o = HeadOp(vh) THEN [filtered EXCEPT ![o] = SetHeader(@, vh[o])] ELSE filtered
        cmax == HigherOf(d.commit_max, o - PipelineMax)
        retires == Retires(r, d, j, o)
    IN /\ retires => d.view < ViewMax
       /\ disk' = [disk EXCEPT ![r] = [k \in Op |-> slots[k].disk]]
       /\ writing' = [writing EXCEPT ![r] = [k \in Op |-> None]]
       /\ journal' = [journal EXCEPT ![r] = j]
       /\ op' = [op EXCEPT ![r] = o]
       /\ commit_min' = [commit_min EXCEPT ![r] = 0]
       /\ commit_max' = [commit_max EXCEPT ![r] = cmax]
       /\ log_view' = [log_view EXCEPT ![r] = d.log_view]
       /\ view' = [view EXCEPT ![r] = IF retires THEN d.view + 1 ELSE d.view]
       /\ status' = [status EXCEPT ![r] = IF d.log_view < d.view \/ retires THEN "view_change"
                                          ELSE IF OpHeadCertain(j, o) THEN "normal"
                                          ELSE "recovering_head"]
       /\ view_headers' = [view_headers EXCEPT ![r] =
              IF retires THEN DoViewChangeHeaders(j, o, cmax, vh, FALSE) ELSE d.view_headers]
       /\ dvc_quorum' = [dvc_quorum EXCEPT ![r] = FALSE]
       /\ incarnation' = [incarnation EXCEPT ![r] = @ + 1]
       /\ prepare_oks' = prepare_oks \ OwnPrepareOks(r)
       /\ UNCHANGED <<durable, committed, prepared, start_views, commits>>
       /\ IF status'[r] = "view_change" THEN SendDoViewChange(r)
          ELSE do_view_changes' = do_view_changes \ OwnDoViewChanges(r)

\* The crashes so far: replica q became incarnation i, as <<q, i>>.
Crashes == {c \in Replica \X (1..CrashMax) : c[2] <= incarnation[c[1]]}

Crash(r) ==
    /\ Cardinality(Crashes) < CrashMax
    /\ \E slots \in {f \in [Op -> UNION {RecoveredSlots(r, o) : o \in Op}] :
                        \A o \in Op : f[o] \in RecoveredSlots(r, o)} : CrashRestart(r, slots)

-----------------------------------------------------------------------------
ReplicaStep(r) ==
    \/ OnRequest(r)
    \/ \E p \in prepared : OnPrepare(r, p) \/ RepairHeader(r, p) \/ OnRepair(r, p)
    \/ \E o \in Op : WriteDone(r, o)
    \/ PrimaryCommit(r) \/ SendCommit(r)
    \/ \E m \in commits : OnCommit(r, m)
    \/ CommitJournal(r)
    \/ OnStartViewChange(r)
    \/ \E q \in Replica : JumpView(r, q) \/ OnRequestStartView(r, q)
    \/ DoViewChangeTimeout(r)
    \/ OnDoViewChange(r)
    \/ RepairSendStartView(r)
    \/ StartViewAsTheNewPrimary(r)
    \/ \E m \in start_views : OnStartView(r, m)
    \/ ViewDurableUpdate(r)

Next == \E r \in Replica : ReplicaStep(r) \/ Crash(r)
Spec == Init /\ [][Next]_vars

\* The event loop of every replica runs, and so do its timeouts: while a replica that no crash
\* stops has something to do that changes anything, something is done.
FairSpec == Spec /\ WF_vars(\E r \in Replica : ReplicaStep(r))

-----------------------------------------------------------------------------
\* Every variable has its type, a slot holds headers of its own op, and the head's header is
\* always in the journal (Replica.invariants).
TypeOK ==
    /\ status \in [Replica -> {"normal", "view_change", "recovering_head"}]
    /\ view \in [Replica -> View] /\ log_view \in [Replica -> View]
    /\ dvc_quorum \in [Replica -> BOOLEAN]
    /\ op \in [Replica -> Op]
    /\ commit_min \in [Replica -> Op] /\ commit_max \in [Replica -> Op]
    /\ journal \in [Replica -> [Op -> Slot]]
    /\ disk \in [Replica -> [Op -> Prepare \cup {None, Torn, Rotten}]]
    /\ writing \in [Replica -> [Op -> Prepare \cup {None}]]
    /\ incarnation \in [Replica -> 0..CrashMax]
    /\ prepared \subseteq Prepare /\ committed \subseteq Prepare
    /\ \A r \in Replica :
        /\ HeadHeader(r) # None
        /\ \A o \in Op : journal[r][o].header # None => OpOf(journal[r][o].header) = o

-----------------------------------------------------------------------------
(* Safety. *)

\* No two replicas, and no replica before and after a crash, execute logs of which one does
\* not extend the other: the hash chain of what was ever executed (commit_execute) never forks.
Agreement == \A p, q \in committed : OpOf(p) <= OpOf(q) => p = Ancestor(q, OpOf(p))

Chain == INSTANCE ExecutedChain WITH View <- View, executed <- committed

\* The replicas together implement one chain of prepares that only grows, one op at a time, in
\* views that do not go back: what is executed first at an op stays, whatever view changes,
\* truncations and crashes follow, and no prepare of an older view is executed after it.
ImplementsLog == Chain!OneChain

\* A primary in normal status that no replica has left for a later log_view has every prepare
\* that was ever executed in its log: truncating by nacks (quorum_headers) loses none of them.
PrimaryHoldsCommitted ==
    \A r \in Replica :
        (/\ status[r] = "normal" /\ r = PrimaryIndex(view[r])
         /\ \A q \in Replica : log_view[q] <= view[r])
            => \A p \in committed : journal[r][OpOf(p)].header = p

\* A view after v started with a log without the prepare, as a nack quorum truncated it. A replica
\* may be part of that view, and write over the prepare, before any of that is in its superblock:
\* a crash then takes it back to a view it acknowledged the prepare in (recover_slots).
Replaced(p, v) ==
    \E sv \in start_views : sv.view > v /\ p # Ancestor(sv.head, LowerOf(OpOf(p), OpOf(sv.head)))

\* A replica never nacks, in a DVC it still holds the same log_view in, a prepare it has sent
\* a prepare_ok for (send_do_view_change): not by omission, nor by an explicit nack, nor by
\* another header, and also not when a crash came between the two; unless the nack can do no
\* harm any more, because a later view is without the prepare already.
AcknowledgedNeverNacked ==
    \A ok \in prepare_oks, m \in do_view_changes :
        ok.replica = m.replica /\ ok.view = m.log_view /\ ~Replaced(ok.prepare, ok.view) =>
            LET o == OpOf(ok.prepare)
            IN o < Min(DOMAIN m.headers) \/
               (o \in DOMAIN m.headers \ m.nacks /\ m.headers[o] \in {None, ok.prepare})

\* A DVC is a promise: the replica acknowledges nothing more in the views before the one the DVC
\* is for, and what it acknowledged in them was in its log_view, crashes included.
DoViewChangePromise ==
    \A ok \in prepare_oks, m \in do_view_changes :
        ok.replica = m.replica /\ m.log_view < ok.view => m.view <= ok.view

\* A replica back in normal status after a crash (op_head_certain, recover_slots) still has in
\* its log what it acknowledged in the view, as long as no later view is without it. (Before the
\* first of its view headers all is committed, and what it has there may be of another log.)
AcknowledgedKept ==
    \A ok \in prepare_oks :
        LET r == ok.replica
            o == OpOf(ok.prepare)
        IN (/\ status[r] = "normal" /\ view[r] = ok.view
            /\ Min(DOMAIN durable[r].view_headers.headers) <= o
            /\ ~Replaced(ok.prepare, ok.view)) =>
                /\ o <= op[r]
                /\ \/ journal[r][o].header = ok.prepare
                   \/ journal[r][o].header = None /\ journal[r][o].faulty

\* The assertions of primary_receive_do_view_change: whatever a replica's state became between
\* two DVCs for one view, crash included, they have the same log_view, head and headers.
DoViewChangeStable ==
    \A m, n \in do_view_changes :
        m.replica = n.replica /\ m.view = n.view =>
            m.log_view = n.log_view /\ m.headers = n.headers

\* The assertions of quorum_headers, HeaderIterator.next and set_op_and_commit_max on every DVC
\* quorum a new primary can have: no commit is nacked, the canonical headers are unambiguous
\* and chained, and no op is truncated that the primary or the quorum knows committed.
DoViewChangeAssertions ==
    \A r \in Replica :
        (/\ status[r] = "view_change" /\ r = PrimaryIndex(view[r])
         /\ log_view[r] < view[r] /\ ~dvc_quorum[r]) =>
            \A Q \in DoViewChangeQuorums(r) :
                LET low == CommitMaxOf(Q)
                    head == OpHead(Q)
                IN /\ low <= head
                   /\ commit_max[r] <= head
                   /\ \A o \in low..head :
                        /\ Cardinality(HeadersAt(Canonical(Q), o)) = 1
                        /\ HeaderCanonical(Q, o) = Ancestor(HeaderCanonical(Q, head), o)

\* The assertions of set_op_and_commit_max and replace_header on every SV a replica accepts,
\* however late: it truncates nothing known committed and replaces nothing executed.
StartViewAssertions ==
    \A r \in Replica, m \in start_views :
        AcceptsStartView(r, m) =>
            /\ OpOf(m.head) < op[r] => HigherOf(commit_max[r], m.commit_max) <= OpOf(m.head)
            /\ \A o \in 1..LowerOf(commit_min[r], OpOf(m.head)) :
                    journal[r][o].header \in {None, Ancestor(m.head, o)}

\* No handler stops at an assertion: what primary_receive_do_view_change asserts of a second DVC,
\* what the DVC quorum asserts of its headers, and what on_start_view asserts of the log it
\* replaces hold together, whatever crashes and delays come between.
HandlerAssertions == DoViewChangeStable /\ DoViewChangeAssertions /\ StartViewAssertions

\* The panics of on_prepare (panic_if_hash_chain_would_break_in_the_same_view) and on_commit
\* are unreachable: within a view, prepares and heartbeats, late and reordered, agree.
NoHashChainPanic ==
    \A r \in Replica : (status[r] = "normal" /\ r # PrimaryIndex(view[r])) =>
        /\ \A p \in prepared :
              (ViewOf(p) = view[r] /\ OpOf(p) = op[r] + 1 /\ ViewOf(HeadHeader(r)) = view[r])
                  => HeadHeader(r) = Ancestor(p, op[r])
        /\ \A m \in commits : (m.view = view[r] /\ OpOf(m.prepare) <= op[r]) =>
              \/ journal[r][OpOf(m.prepare)].header \in {None, m.prepare}
              \/ ~HashChain(journal[r], OpOf(m.prepare), op[r])

\* What a replica is and what its superblock says of its views are in order, in every status:
\* only a view change, and a primary that has not yet its DVC quorum, is ahead of its log_view,
\* and the superblock is never ahead of memory (view_durable_update, transition_to_normal_*).
ViewOrder ==
    \A r \in Replica :
        /\ durable[r].log_view <= durable[r].view
        /\ durable[r].view <= view[r] /\ durable[r].log_view <= log_view[r]
        /\ log_view[r] <= view[r]
        /\ status[r] # "view_change" => log_view[r] = view[r]
        /\ dvc_quorum[r] => status[r] = "view_change" /\ log_view[r] = view[r]

\* What a replica told others of its views was durable first (send_message_to_replica_base),
\* so no crash takes back a view or log_view another replica may have counted.
AdvertisedDurable ==
    /\ \A ok \in prepare_oks : ok.replica # PrimaryIndex(ok.view) =>
            ok.view <= durable[ok.replica].log_view
    /\ \A m \in do_view_changes : m.replica # PrimaryIndex(m.view) =>
            m.view <= durable[m.replica].view /\ m.log_view <= durable[m.replica].log_view
    /\ \A m \in start_views : m.view <= durable[PrimaryIndex(m.view)].log_view

\* The durable view and log_view never go back, in whatever order view changes, superblock
\* writes and restarts come (log_view_durable: "a replica's log_view must never regress").
DurableNeverRegresses ==
    [][\A r \in Replica : /\ durable[r].view <= durable[r].view'
                          /\ durable[r].log_view <= durable[r].log_view']_vars

\* Once nothing makes the replicas leave their view, they converge: all in the same view, with
\* the same log, all of it executed (repair, on_start_view, on_commit and commit_dispatch leave
\* no replica behind, and no view change waits for ever).
Converges ==
    <>[](\A r, q \in Replica :
            /\ status[r] = "normal" /\ view[r] = view[q]
            /\ commit_min[r] = op[r] /\ HeadHeader(r) = HeadHeader(q))

\* No prepare is created twice: a restarted primary would reuse the viewstamps of requests it
\* has forgotten, for other requests (Replica.open: "two different versions of an op").
NoDoublePrepare ==
    [][\A r \in Replica : OnRequest(r) => NewPrepare(r) \notin prepared]_vars
==============================================================================
