---------------------------- MODULE VsrInvariants ----------------------------
(***************************************************************************)
(* What holds of the logs of the replicas of Vsr in every reachable state: *)
(* the inductive invariants that its safety properties follow from.        *)
(***************************************************************************)
EXTENDS Vsr

-----------------------------------------------------------------------------
(* Logs. A log is named by its last prepare. *)

\* Every prepare there is, and the root of all logs.
Known == prepared \cup {Root}

\* The log p is the beginning of the log q.
p \preceq q == OpOf(p) <= OpOf(q) /\ p = Ancestor(q, OpOf(p))

Comparable(p, q) == p \preceq q \/ q \preceq p

\* The log q goes on from p with prepares of view v only.
Continues(p, q, v) == p \preceq q /\ \A i \in (OpOf(p) + 1)..OpOf(q) : q[i] = v

\* The views along a log do not decrease, and end at v or before.
Lineage(p, v) == \A i \in 1..OpOf(p) : p[i] <= v /\ \A j \in i..OpOf(p) : p[i] <= p[j]

-----------------------------------------------------------------------------
(* Types. Every header, in memory, on disk and in a message, is of a prepare that was sent, or *)
(* of the root, and is where its op belongs. *)

\* What may be the header in the slot of op o.
HeadersOf(o) == {p \in Known : OpOf(p) = o} \cup {None}

\* View headers are of consecutive ops, the head not blank.
IsHeaders(headers) ==
    \E low \in Op : \E high \in Op :
        /\ low <= high /\ DOMAIN headers = low..high
        /\ headers[high] # None
        /\ \A o \in low..high : headers[o] \in HeadersOf(o)

ReplicaTypes(r) ==
    /\ status[r] \in {"normal", "view_change", "recovering_head"}
    /\ view[r] \in View /\ log_view[r] \in View /\ dvc_quorum[r] \in BOOLEAN
    /\ op[r] \in Op /\ commit_min[r] \in Op /\ commit_max[r] \in Op
    /\ incarnation[r] \in 0..CrashMax

JournalTypes(r) ==
    /\ journal[r] \in [Op -> Slot]
    /\ \A o \in Op : journal[r][o].header \in HeadersOf(o)
    /\ HeadHeader(r) # None

DiskTypes(r) ==
    /\ disk[r] \in [Op -> Prepare \cup {None, Torn, Rotten}]
    /\ \A o \in Op : disk[r][o] \in HeadersOf(o) \cup {Torn, Rotten}
    /\ writing[r] \in [Op -> Prepare \cup {None}]
    /\ \A o \in Op : writing[r][o] \in HeadersOf(o) \ {Root}

HeadersTypes(r) ==
    /\ IsHeaders(view_headers[r].headers)
    /\ durable[r].view \in View /\ durable[r].log_view \in View /\ durable[r].commit_max \in Op
    /\ IsHeaders(durable[r].view_headers.headers)

\* The ancestors of every prepare were sent.
PreparedTypes ==
    /\ prepared \subseteq Prepare \ {Root}
    /\ \A p \in prepared : \A o \in 0..OpOf(p) : Ancestor(p, o) \in Known
    /\ committed \subseteq Known

PrepareOkTypes(m) == m.replica \in Replica /\ m.view \in View /\ m.prepare \in prepared
DoViewChangeTypes(m) ==
    /\ m.replica \in Replica /\ m.view \in View /\ m.log_view \in View
    /\ IsHeaders(m.headers) /\ m.op = HeadOp(m.headers)
    /\ m.commit_min \in Op
StartViewTypes(m) == m.view \in View /\ m.head \in Known /\ m.commit_max \in Op
CommitTypes(m) == m.view \in View /\ m.prepare \in Known

MessageTypes ==
    /\ \A m \in prepare_oks : PrepareOkTypes(m)
    /\ \A m \in do_view_changes : DoViewChangeTypes(m)
    /\ \A m \in start_views : StartViewTypes(m)
    /\ \A m \in commits : CommitTypes(m)

\* Every variable that belongs to a replica is a function of the replicas.
Functions ==
    /\ status = [r \in Replica |-> status[r]]
    /\ view = [r \in Replica |-> view[r]]
    /\ log_view = [r \in Replica |-> log_view[r]]
    /\ view_headers = [r \in Replica |-> view_headers[r]]
    /\ dvc_quorum = [r \in Replica |-> dvc_quorum[r]]
    /\ durable = [r \in Replica |-> durable[r]]
    /\ op = [r \in Replica |-> op[r]]
    /\ commit_min = [r \in Replica |-> commit_min[r]]
    /\ commit_max = [r \in Replica |-> commit_max[r]]
    /\ journal = [r \in Replica |-> journal[r]]
    /\ disk = [r \in Replica |-> disk[r]]
    /\ writing = [r \in Replica |-> writing[r]]
    /\ incarnation = [r \in Replica |-> incarnation[r]]

\* A primary has not less than what it knows committed; in normal status, without gaps.
LeaderLog(r) ==
    /\ dvc_quorum[r] \/ (status[r] = "normal" /\ r = PrimaryIndex(view[r])) =>
            commit_max[r] <= op[r]
    /\ status[r] = "normal" /\ r = PrimaryIndex(view[r]) =>
            \A o \in 0..op[r] : journal[r][o].header # None

LocalTypes(r) ==
    ReplicaTypes(r) /\ JournalTypes(r) /\ DiskTypes(r) /\ HeadersTypes(r) /\ LeaderLog(r)

TypeInv == Functions /\ PreparedTypes /\ MessageTypes /\ \A r \in Replica : LocalTypes(r)

-----------------------------------------------------------------------------
(* The logs of a view: every log that a replica, a superblock or a message has of it, each named *)
(* by its tip.                                                                                    *)

ViewHead(vh) == vh.headers[HeadOp(vh.headers)]
StartsView(vh) == vh.command = "start_view"

\* The log of a replica is the log of its view, not of one before.
InLogView(r) == log_view[r] = view[r]

\* The primary of a view, once it has a log for it.
Leads(r) ==
    /\ r = PrimaryIndex(view[r]) /\ InLogView(r)
    /\ status[r] = "normal" \/ dvc_quorum[r]

\* SV headers are of the view; so are the DVC headers of a replica that has left it. (The DVC
\* headers of a primary that has its DVC quorum are of the view before.)
HasTip(r, v, p) ==
    \/ log_view[r] = v /\ p = HeadHeader(r)
    \/ /\ log_view[r] = v /\ (~InLogView(r) \/ StartsView(view_headers[r]))
       /\ p = ViewHead(view_headers[r])
    \/ durable[r].log_view = v /\ p = ViewHead(durable[r].view_headers)

SentTip(v, p) ==
    \/ p \in prepared /\ ViewOf(p) = v
    \/ \E m \in start_views : m.view = v /\ p = m.head
    \/ \E m \in do_view_changes : m.log_view = v /\ p = m.headers[m.op]

Tips(v) == {p \in Known : SentTip(v, p) \/ \E r \in Replica : HasTip(r, v, p)}

\* The logs of one view are a chain, and only the view's own prepares are between any two.
OneLogPerView ==
    \A v \in View : \A s, t \in Tips(v) : Continues(s, t, v) \/ Continues(t, s, v)

TipViews == \A v \in View : \A t \in Tips(v) : Lineage(t, v)

\* The primary of a view has the longest of them.
PrimaryHasTips ==
    \A r \in Replica : Leads(r) => \A t \in Tips(view[r]) : Continues(t, HeadHeader(r), view[r])

\* Nothing is known of a view before its primary's log_view is durable, but by the primary.
LogViewDurable(v) == v <= durable[PrimaryIndex(v)].log_view

LogViewsDurable(r) ==
    /\ r # PrimaryIndex(log_view[r]) => LogViewDurable(log_view[r])
    /\ LogViewDurable(durable[r].log_view)

TipsDurable ==
    /\ \A p \in prepared : LogViewDurable(ViewOf(p))
    /\ \A r \in Replica : LogViewsDurable(r)
    /\ \A m \in do_view_changes :
            \/ LogViewDurable(m.log_view)
            \/ m.replica = PrimaryIndex(m.log_view) /\ m.replica = PrimaryIndex(m.view)

-----------------------------------------------------------------------------
(* The log of a replica, and its view headers. *)

\* Headers, with blanks, of the log of the last of them.
OfOneLog(headers) ==
    \A o \in DOMAIN headers : headers[o] \in {None, Ancestor(headers[HeadOp(headers)], o)}

\* In memory and in the superblock: SV headers are of the replica's log, no DVC headers are kept
\* past the view they were made for, and those of a view change do not change once durable.
HeadersOfView(r) ==
    LET vh == view_headers[r]
        dvh == durable[r].view_headers
    IN /\ OfOneLog(vh.headers) /\ OfOneLog(dvh.headers)
       /\ InLogView(r) /\ StartsView(vh) =>
            vh = StartViewHeaders(ViewHead(vh)) /\ ViewHead(vh) \preceq HeadHeader(r)
       /\ InLogView(r) /\ ~dvc_quorum[r] => StartsView(vh)
       /\ InLogView(r) /\ status[r] = "view_change" =>
            dvc_quorum[r] /\ r = PrimaryIndex(view[r])
       /\ ~InLogView(r) => ~StartsView(vh) /\ HeadHeader(r) = ViewHead(vh)
       /\ ~InLogView(r) /\ ViewDurable(r) => vh = dvh
       /\ durable[r].log_view = durable[r].view <=> StartsView(dvh)
       /\ StartsView(dvh) => dvh = StartViewHeaders(ViewHead(dvh))

\* From what is known committed to the head, there is nothing of another log; what could still
\* be in the pipeline is no longer than it; and a primary that has started its view has no gap.
LogOfView(r) ==
    /\ op[r] - PipelineMax <= commit_max[r]
    /\ InLogView(r) =>
        /\ \A o \in (op[r] + 1)..OpMax : journal[r][o].header = None
        /\ \A o \in commit_max[r]..op[r] :
                journal[r][o].header \in {None, Ancestor(HeadHeader(r), o)}
    /\ Leads(r) /\ StartsView(view_headers[r]) => HashChain(journal[r], 0, op[r])

\* Why two DVCs of a replica for one view are the same: what the first said is in memory until
\* the view is over, and in the superblock, which a crash goes back to.
DoViewChangesKept(r) ==
    \A m \in do_view_changes : m.replica = r =>
        /\ m.view = view[r] /\ ~InLogView(r) =>
              m.log_view = log_view[r] /\ m.headers = view_headers[r].headers
        /\ /\ r # PrimaryIndex(m.view)
           /\ m.view = durable[r].view /\ durable[r].log_view < durable[r].view
           => /\ m.log_view = durable[r].log_view
              /\ m.headers = durable[r].view_headers.headers

MessagesOfView ==
    /\ \A m \in do_view_changes : m.log_view < m.view /\ OfOneLog(m.headers)
    /\ \A m \in start_views : OpOf(m.head) - PipelineMax <= m.commit_max

\* A heartbeat is about the log of its view, and its primary has it all.
CommitsInLog ==
    \A m \in commits :
        /\ LogViewDurable(m.view)
        /\ \A t \in Tips(m.view) : Comparable(m.prepare, t)
        /\ \A r \in Replica : Leads(r) /\ view[r] = m.view => m.prepare \preceq HeadHeader(r)

LogInv ==
    /\ OneLogPerView /\ TipViews /\ PrimaryHasTips /\ TipsDurable
    /\ \A r \in Replica : HeadersOfView(r) /\ LogOfView(r) /\ DoViewChangesKept(r)
    /\ MessagesOfView /\ CommitsInLog

-----------------------------------------------------------------------------
(* What no later view may be without. *)

\* Who acknowledged the prepare in the view.
Acked(v, p) == {m.replica : m \in {m \in prepare_oks : m.view = v /\ m.prepare = p}}

\* Replica r acknowledges nothing more in view v, whatever crashes: a later view is in its
\* superblock. Of replica q it counts if the later log is in its memory.
Nobody == -1
Left(q, r, v) == durable[r].view > v \/ (r = q /\ log_view[r] > v)

\* The prepare has no replication quorum in the view, and cannot get one.
Gone(q, v, p) == {r \in Replica \ Acked(v, p) : Left(q, r, v)}
Lost(q, v, p) == Cardinality(Gone(q, v, p)) >= QuorumNack

\* The prepare is in the log of the view, and not what a replica kept from another log.
InLog(v, p) ==
    \/ ViewOf(p) = v
    \/ ViewOf(p) < v /\ \A m \in start_views : m.view = v => p \preceq m.head

\* Views in which one prepare of a log after the other may get its replication quorum.
Path(f, p) ==
    \A i \in 1..OpOf(p) : InLog(f[i], Ancestor(p, i)) /\ \A j \in 1..i : f[j] <= f[i]

\* No prepare of the log is lost in its view; each has its replication quorum.
Alive(q, f, p) == Path(f, p) /\ \A i \in 1..OpOf(p) : ~Lost(q, f[i], Ancestor(p, i))
Decided(f, p) ==
    /\ Path(f, p)
    /\ \A i \in 1..OpOf(p) : Cardinality(Acked(f[i], Ancestor(p, i))) >= QuorumReplication

Paths == [Op -> View]

\* All up to op k was decided in view v or before.
DecidedTo(k, v) ==
    k <= 0 \/ \E p \in prepared, f \in Paths : OpOf(p) = k /\ Decided(f, p) /\ f[k] <= v

\* Of a view there is only something once a quorum left the views before it.
TipsQuorum ==
    \A v \in View \ {0} : Tips(v) # {} =>
        Cardinality({r \in Replica : Left(PrimaryIndex(v), r, v - 1)}) >= QuorumViewChange

\* The logs of a view have all that is not lost in the views before.
SafeLogs ==
    \A w \in View, p \in prepared, f \in Paths :
        f[OpOf(p)] < w /\ Alive(PrimaryIndex(w), f, p) => \A t \in Tips(w) : p \preceq t

\* A log that only the primary has, in its memory, is of the log that the primary acknowledged
\* before: if it lost some of that, a crash may take it back to where it has it.
SafeInMemory ==
    \A w \in View, p \in prepared, f \in Paths :
        /\ ~LogViewDurable(w)
        /\ f[OpOf(p)] < w /\ PrimaryIndex(w) \in Acked(f[OpOf(p)], p) /\ Alive(Nobody, f, p)
        => \A t \in Tips(w) : Comparable(p, t)

\* What replica r acknowledged is on its disk, or rotten, and in the log that its superblock has.
OnDisk(r, f, p) ==
    LET o == OpOf(p)
        d == durable[r]
    IN /\ disk[r][o] \in {p, Rotten}
       /\ writing[r][o] \in {None, p}
       /\ d.log_view = f[o] /\ d.log_view < d.view => p \preceq ViewHead(d.view_headers)

\* It is in the replica's log, or in that of the SV a replica that lost its head waits for; the
\* replica knows it has it or that it may have had it.
InMemory(r, f, p) ==
    LET slot == journal[r][OpOf(p)]
    IN /\ \/ slot.header = p /\ (slot.dirty => slot.faulty)
          \/ slot.header = None /\ slot.faulty
       /\ status[r] # "recovering_head" => p \preceq HeadHeader(r)
       /\ status[r] = "recovering_head" /\ view[r] = f[OpOf(p)] =>
            \A m \in start_views :
                m.view = view[r] /\ m.nonce = <<r, incarnation[r]>> => p \preceq m.head

\* It is in the log of every DVC of the replica, and not nacked.
InVotes(r, f, p) ==
    \A m \in do_view_changes : m.replica = r /\ m.view > f[OpOf(p)] =>
        p \preceq m.headers[m.op] /\ OpOf(p) \notin m.nacks

AckedKept ==
    \A r \in Replica, p \in prepared, f \in Paths : r \in Acked(f[OpOf(p)], p) =>
        /\ Alive(Nobody, f, p) => OnDisk(r, f, p)
        /\ Alive(r, f, p) => InMemory(r, f, p) /\ InVotes(r, f, p)

\* What a primary acknowledged to itself in a view that is in its memory only, it has.
OwnAcked ==
    \A m \in prepare_oks :
        LET r == m.replica
        IN r = PrimaryIndex(m.view) /\ log_view[r] = m.view /\ ~LogViewDurable(m.view)
             => m.prepare \preceq HeadHeader(r)

\* Headers of a log are blank only where the log has a prepare of its last view: what it took
\* over from the views before, all that have it can name.
BlanksOf(headers, v) ==
    \A o \in DOMAIN headers : headers[o] = None => ViewOf(Ancestor(headers[HeadOp(headers)], o)) = v
HasBlanks(r) ==
    /\ ~InLogView(r) => BlanksOf(view_headers[r].headers, log_view[r])
    /\ BlanksOf(durable[r].view_headers.headers, durable[r].log_view)
    /\ dvc_quorum[r] => \A o \in commit_max[r]..op[r] : journal[r][o].header # None
Blanks ==
    /\ \A r \in Replica : HasBlanks(r)
    /\ \A m \in do_view_changes : BlanksOf(m.headers, m.log_view)

\* The root is never written, never lost, never nacked.
KeepsRoot(r) == journal[r][0] = CleanSlot(Root) /\ disk[r][0] = Root /\ writing[r][0] = None
RootKept ==
    /\ \A r \in Replica : KeepsRoot(r)
    /\ \A m \in do_view_changes : 0 \notin m.nacks

\* A clean slot is on disk.
CleanOnDisk(r) ==
    \A o \in Op : LET p == journal[r][o].header IN
        p # None /\ ~journal[r][o].dirty => disk[r][o] = p /\ writing[r][o] \in {None, p}

\* An SV of the view was sent.
Started(v) == v = 0 \/ \E m \in start_views : m.view = v
HasStarted(r) ==
    /\ r # PrimaryIndex(log_view[r]) => Started(log_view[r])
    /\ r # PrimaryIndex(durable[r].log_view) \/ durable[r].log_view = durable[r].view
         => Started(durable[r].log_view)
ViewsStarted ==
    /\ \A r \in Replica : HasStarted(r)
    /\ \A m \in prepare_oks : m.replica # PrimaryIndex(m.view) => Started(m.view)

\* No SV answers a request that was not made yet.
Nonces == \A m \in start_views, r \in Replica, i \in 1..CrashMax :
    m.nonce = <<r, i>> => i <= incarnation[r]

HeadersDecided(headers, v) ==
    DecidedTo(Min(DOMAIN headers), v) /\ DecidedTo(HeadOp(headers) - PipelineMax, v)

KnowsDecided(r) ==
    /\ DecidedTo(commit_max[r], log_view[r])
    /\ DecidedTo(durable[r].commit_max, durable[r].log_view)
    /\ HeadersDecided(view_headers[r].headers, log_view[r])
    /\ HeadersDecided(durable[r].view_headers.headers, durable[r].log_view)
    /\ commit_min[r] <= commit_max[r]
    /\ status[r] = "normal" /\ r = PrimaryIndex(view[r]) => commit_min[r] = commit_max[r]

\* What is decided whenever a message is sent, or a prepare executed.
MessagesDecided ==
    /\ \A p \in prepared : DecidedTo(OpOf(p) - PipelineMax, ViewOf(p))
    /\ \A m \in do_view_changes :
        HeadersDecided(m.headers, m.log_view) /\ DecidedTo(m.commit_min, m.log_view)
    /\ \A m \in start_views : DecidedTo(m.commit_max, m.view) /\ m.commit_max <= OpOf(m.head)
    /\ \A m \in commits : DecidedTo(OpOf(m.prepare), m.view)
CommittedDecided == \A p \in committed : p \in prepared /\ \E f \in Paths : Decided(f, p)
CommitsDecided ==
    (\A r \in Replica : KnowsDecided(r)) /\ MessagesDecided /\ CommittedDecided

\* What a replica executed, it still has in its slots.
Executed(r) ==
    \A o \in 1..commit_min[r] :
        \E p \in committed : OpOf(p) = o /\ journal[r][o].header \in {None, p}

SafeInv ==
    /\ TipsQuorum /\ SafeLogs /\ SafeInMemory /\ AckedKept /\ OwnAcked /\ Blanks /\ RootKept
    /\ ViewsStarted /\ Nonces /\ CommitsDecided
    /\ \A r \in Replica : CleanOnDisk(r) /\ Executed(r)
=============================================================================
