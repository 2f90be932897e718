-------------------------- MODULE VsrAgreementProofs --------------------------
(***************************************************************************)
(* Proofs about the logs of different views of Vsr: no view is without     *)
(* what a replication quorum acknowledged in one before. From that:        *)
(* Agreement, PrimaryHoldsCommitted, that no handler stops at an           *)
(* assertion, and that the replicas implement ExecutedChain.               *)
(***************************************************************************)
EXTENDS VsrProofs

-----------------------------------------------------------------------------
(* Acknowledgements, and the quorums that are left for a prepare. *)

\* What there is to know of a prepare that was made, and of its ancestors.
LEMMA PreparedFacts ==
    ASSUME TypeInv, NEW p \in prepared
    PROVE  /\ p \in Prepare /\ p \in Known /\ p # Root
           /\ OpOf(p) \in Op /\ OpOf(p) \in Nat /\ OpOf(p) > 0 /\ OpOf(p) \in 1..OpOf(p)
           /\ Ancestor(p, OpOf(p)) = p
           /\ \A i \in 1..OpOf(p) :
                /\ i \in Op /\ Ancestor(p, i) \in prepared /\ OpOf(Ancestor(p, i)) = i
                /\ Ancestor(p, i) \preceq p
                /\ \A k \in 1..i : Ancestor(Ancestor(p, i), k) = Ancestor(p, k)
  <1>1. /\ p \in Prepare /\ p \in Known /\ p # Root
        /\ \A o \in 0..OpOf(p) : Ancestor(p, o) \in Known
    BY KnownFacts
  <1>2. OpOf(p) \in Op /\ OpOf(p) \in Nat /\ OpOf(p) > 0 /\ OpMax \in Nat /\ OpOf(p) <= OpMax
    BY <1>1, OpFacts, CountsAssumption DEF Op
  <1>3. Ancestor(p, OpOf(p)) = p
    BY <1>1, AncestorOfAncestor
  <1>4. ASSUME NEW i \in 1..OpOf(p)
        PROVE  /\ i \in Op /\ Ancestor(p, i) \in prepared /\ OpOf(Ancestor(p, i)) = i
               /\ Ancestor(p, i) \preceq p
               /\ \A k \in 1..i : Ancestor(Ancestor(p, i), k) = Ancestor(p, k)
    <2>1. i \in 0..OpOf(p) /\ i \in Op /\ i # 0
      BY <1>2 DEF Op
    <2>2. OpOf(Ancestor(p, i)) = i /\ Ancestor(p, i) \preceq p
      BY <1>1, <2>1, AncestorFacts, BeginsFacts
    <2>3. Ancestor(p, i) \in prepared
      BY <1>1, <2>1, <2>2, OpFacts, KnownFacts
    <2>4. \A k \in 0..i : Ancestor(Ancestor(p, i), k) = Ancestor(p, k)
      BY <1>1, <2>1, AncestorOfAncestor
    <2> QED
      BY <2>1, <2>2, <2>3, <2>4
  <1> QED
    BY <1>1, <1>2, <1>3, <1>4

\* The views of a path are views, and none is above the view of its end.
LEMMA PathFacts ==
    ASSUME TypeInv, NEW p \in prepared, NEW f \in Paths
    PROVE  /\ \A i \in 1..OpOf(p) : f[i] \in View /\ f[i] \in Nat
           /\ f[OpOf(p)] \in View /\ f[OpOf(p)] \in Nat
           /\ Path(f, p) => /\ InLog(f[OpOf(p)], p)
                            /\ \A i \in 1..OpOf(p) : f[i] <= f[OpOf(p)]
  <1>1. \A i \in 1..OpOf(p) : f[i] \in View /\ f[i] \in Nat
    BY PreparedFacts, CountsAssumption DEF Paths, View
  <1> QED
    BY <1>1, PreparedFacts DEF Path

\* What holds of a path to a prepare holds of the path to each of its ancestors.
LEMMA Prefix ==
    ASSUME TypeInv, NEW p \in prepared, NEW f \in Paths, NEW k \in 1..OpOf(p),
           NEW a, a = Ancestor(p, k)
    PROVE  /\ a \in prepared /\ OpOf(a) = k /\ a \preceq p
           /\ Path(f, p) => Path(f, a)
           /\ \A q : Alive(q, f, p) => Alive(q, f, a) /\ ~Lost(q, f[k], a)
           /\ Decided(f, p) => Decided(f, a)
           /\ \A n \in Nat : Path(f, p) /\ f[OpOf(p)] <= n => f[k] <= n
  <1>1. /\ a \in prepared /\ OpOf(a) = k /\ a \preceq p /\ OpOf(p) \in Nat
        /\ \A i \in 1..k : Ancestor(a, i) = Ancestor(p, i) /\ i \in 1..OpOf(p)
    BY PreparedFacts
  <1>2. Path(f, p) => Path(f, a)
    BY <1>1 DEF Path
  <1>3. f[k] \in Nat /\ f[OpOf(p)] \in Nat /\ (Path(f, p) => f[k] <= f[OpOf(p)])
    BY PathFacts
  <1>4. Ancestor(a, k) = a /\ k \in 1..k
    BY <1>1, PreparedFacts
  <1> QED
    BY <1>1, <1>2, <1>3, <1>4 DEF Alive, Decided

\* Who acknowledged a prepare in a view sent a prepare_ok that says so.
LEMMA AckedFacts ==
    ASSUME TypeInv, NEW v, NEW p
    PROVE  /\ Acked(v, p) \subseteq Replica
           /\ \A r : r \in Acked(v, p) <=>
                \E m \in prepare_oks : m.replica = r /\ m.view = v /\ m.prepare = p
           /\ Acked(v, p) # {} => p \in prepared
  BY DEF Acked, TypeInv, MessageTypes, PrepareOkTypes

\* A prepare is lost when so many replicas can not be in its quorum that the rest is too small.
LEMMA LostFacts ==
    ASSUME TypeInv, NEW q, NEW v, NEW p
    PROVE  /\ Gone(q, v, p) \in SUBSET Replica
           /\ Cardinality(Acked(v, p)) >= QuorumReplication => ~Lost(q, v, p)
           /\ \A S \in SUBSET Replica :
                /\ Cardinality(S) >= QuorumViewChange /\ (\A r \in S : Left(q, r, v))
                /\ ~Lost(q, v, p)
                => S \cap Acked(v, p) # {}
           /\ \A S \in SUBSET Gone(q, v, p) : ~Lost(q, v, p) => ~(Cardinality(S) >= QuorumNack)
  <1>1. Gone(q, v, p) \in SUBSET Replica
    BY DEF Gone
  <1>2. Gone(q, v, p) \cap Acked(v, p) = {} /\ Acked(v, p) \in SUBSET Replica
    BY AckedFacts DEF Gone
  <1>3. Cardinality(Acked(v, p)) >= QuorumReplication => ~Lost(q, v, p)
    BY <1>1, <1>2, NackQuorumIntersects DEF Lost
  <1>4. ASSUME NEW S \in SUBSET Gone(q, v, p), Cardinality(S) >= QuorumNack
        PROVE  Lost(q, v, p)
    <2>1. IsFiniteSet(Gone(q, v, p)) /\ IsFiniteSet(S)
      BY <1>1, ReplicaFinite, FS_Subset
    <2>2. Cardinality(S) <= Cardinality(Gone(q, v, p))
      BY <2>1, FS_Subset
    <2> QED
      BY <1>4, <2>1, <2>2, FS_CardinalityType, CountsAssumption, QuorumAssumption
         DEF Lost, QuorumNack
  <1>5. ASSUME NEW S \in SUBSET Replica, Cardinality(S) >= QuorumViewChange,
               \A r \in S : Left(q, r, v), S \cap Acked(v, p) = {}
        PROVE  Lost(q, v, p)
    <2>1. S \subseteq Gone(q, v, p)
      BY <1>5 DEF Gone
    <2>2. Cardinality(S) \in Nat
      BY ReplicaFinite, FS_Subset, FS_CardinalityType
    <2>3. Cardinality(S) >= QuorumNack
      BY <1>5, <2>2, CountsAssumption, QuorumAssumption DEF QuorumNack
    <2> QED
      BY <2>1, <2>3, <1>4
  <1> QED
    BY <1>1, <1>3, <1>4, <1>5

\* What is decided is lost for nobody.
LEMMA DecidedIsAlive ==
    ASSUME TypeInv, NEW p, NEW f, Decided(f, p), NEW q
    PROVE  Alive(q, f, p)
  BY LostFacts DEF Decided, Alive

\* Counting more replicas as gone, less is alive.
LEMMA AliveWithMore ==
    ASSUME TypeInv, NEW p, NEW f, NEW q, NEW r, Alive(q, f, p),
           \A i \in 1..OpOf(p) : \A s \in Replica : Left(r, s, f[i]) => Left(q, s, f[i])
    PROVE  Alive(r, f, p)
  <1> SUFFICES ASSUME NEW i \in 1..OpOf(p), NEW a, a = Ancestor(p, i), Lost(r, f[i], a)
               PROVE  FALSE
    BY DEF Alive
  <1>1. Gone(r, f[i], a) \in SUBSET Gone(q, f[i], a)
    BY DEF Gone
  <1>2. ~Lost(q, f[i], a)
    BY DEF Alive
  <1> QED
    BY <1>1, <1>2, LostFacts DEF Lost

-----------------------------------------------------------------------------
(* Steps, as far as quorums are concerned. *)

\* A step that is no crash takes no acknowledgement back. It acknowledges clean slots of the log;
\* an SV is about the log of the primary that sends it.
Goes(r) ==
    /\ log_view[r] <= log_view'[r]
    /\ prepared \subseteq prepared' /\ prepare_oks \subseteq prepare_oks'
    /\ start_views \subseteq start_views'
    /\ \A m \in prepare_oks' \ prepare_oks :
            LET o == OpOf(m.prepare)
            IN journal'[r][o].header = m.prepare /\ ~journal'[r][o].dirty /\ o <= op'[r]
    /\ \A m \in start_views' \ start_views :
            Leads(r)' /\ m.view = view'[r] /\ m.head = HeadHeader(r)'
    /\ prepared' # prepared => prepare_oks' = prepare_oks

\* A crash takes back what the replica told only itself.
Restarts(r) ==
    /\ log_view'[r] = durable[r].log_view /\ durable' = durable
    /\ view'[r] \in {durable[r].view, durable[r].view + 1} /\ ~Leads(r)'
    /\ prepare_oks' = prepare_oks \ OwnPrepareOks(r)
    /\ UNCHANGED <<prepared, start_views>>

StepOf(r) == Others(r) /\ LogStep(r) /\ GoodStep(r) /\ (Goes(r) \/ Restarts(r))

\* What a step may add to the messages, and what it may take back: prepares and SVs stay,
\* prepare_oks are of the replica that steps, and so are those that are lost.
LEMMA StepFacts ==
    ASSUME NEW r \in Replica, StepOf(r)
    PROVE  /\ prepared \subseteq prepared' /\ start_views \subseteq start_views'
           /\ \A m \in prepare_oks' \ prepare_oks :
                LET o == OpOf(m.prepare)
                IN /\ m.replica = r /\ m.view = view'[r] /\ status'[r] = "normal"
                   /\ r = PrimaryIndex(view'[r]) \/ ViewDurable(r)'
                   /\ journal'[r][o].header = m.prepare /\ ~journal'[r][o].dirty /\ o <= op'[r]
           /\ \A m \in start_views' \ start_views :
                Leads(r)' /\ m.view = view'[r] /\ m.head = HeadHeader(r)'
           /\ \A m \in prepare_oks \ prepare_oks' :
                m.replica = r /\ r = PrimaryIndex(m.view) /\ m.view > durable[r].log_view
           /\ prepared' # prepared => prepare_oks' = prepare_oks
           /\ \A q \in Replica \ {r} : SameAt(q)
           /\ \A q \in Replica : durable[q].view <= durable'[q].view
                                 /\ durable[q].log_view <= durable'[q].log_view
  <1>1. CASE Goes(r)
    BY <1>1 DEF StepOf, Goes, GoodStep, Sends, Others, DurableGrows
  <1>2. CASE Restarts(r)
    BY <1>2 DEF StepOf, Restarts, GoodStep, Sends, Others, DurableGrows, OwnPrepareOks
  <1> QED
    BY <1>1, <1>2 DEF StepOf

\* A view that a replica has left it does not come back to, nor acknowledge anything in; but a
\* crash may take it back from one that only it left.
LEMMA GoneGrows ==
    ASSUME TypeInv, TypeInv', IInv', NEW r \in Replica, StepOf(r), NEW q,
           Restarts(r) => q # r, NEW v \in View, NEW p
    PROVE  Gone(q, v, p) \subseteq Gone(q, v, p)' /\ (Lost(q, v, p) => Lost(q, v, p)')
  <1>1. ASSUME NEW s \in Gone(q, v, p) PROVE s \in Gone(q, v, p)'
    <2>1. s \in Replica /\ Left(q, s, v) /\ s \notin Acked(v, p)
      BY DEF Gone
    <2>2. /\ v \in Nat
          /\ durable[s].view \in Nat /\ durable'[s].view \in Nat
          /\ log_view[s] \in Nat /\ log_view'[s] \in Nat /\ view'[s] \in Nat
      BY <2>1, CountsAssumption DEF TypeInv, LocalTypes, ReplicaTypes, HeadersTypes, View
    <2>3. durable[s].view <= durable'[s].view
      BY <2>1, StepFacts
    <2>4. s = q => log_view[s] <= log_view'[s]
      <3>1. CASE s # r
        <4>1. log_view'[s] = log_view[s]
          BY <2>1, <3>1, StepFacts DEF SameAt
        <4> QED
          BY <4>1, <2>2
      <3>2. CASE s = r /\ s = q
        BY <3>2 DEF StepOf, Goes
      <3> QED
        BY <3>1, <3>2
    <2>5. Left(q, s, v)'
      BY <2>1, <2>2, <2>3, <2>4 DEF Left
    <2>6. s \notin Acked(v, p)'
      <3> SUFFICES ASSUME NEW m \in prepare_oks', m.replica = s, m.view = v, m.prepare = p
                   PROVE  FALSE
        BY DEF Acked
      <3>1. m \notin prepare_oks
        BY <2>1 DEF Acked
      <3>2. s = r /\ v = view'[r]
        BY <3>1, StepFacts
      <3>3. durable'[r].view <= view'[r] /\ log_view'[r] <= view'[r]
        BY DEF IInv, ViewOrder
      <3> QED
        BY <2>2, <2>5, <3>2, <3>3 DEF Left
    <2> QED
      BY <2>1, <2>5, <2>6 DEF Gone
  <1>2. Gone(q, v, p)' \in SUBSET Replica
    BY DEF Gone
  <1>3. IsFiniteSet(Gone(q, v, p)')
    BY <1>2, ReplicaFinite, FS_Subset
  <1>4. Cardinality(Gone(q, v, p)) <= Cardinality(Gone(q, v, p)')
    BY <1>1, <1>3, FS_Subset
  <1>5. Cardinality(Gone(q, v, p)) \in Nat /\ Cardinality(Gone(q, v, p)') \in Nat
    BY <1>1, <1>3, FS_Subset, FS_CardinalityType
  <1> QED
    BY <1>1, <1>4, <1>5, CountsAssumption, QuorumAssumption DEF Lost, QuorumNack

\* What is alive now was alive before.
LEMMA AlivePast ==
    ASSUME TypeInv, TypeInv', IInv', NEW r \in Replica, StepOf(r), NEW q,
           Restarts(r) => q # r, NEW p \in prepared, NEW f \in Paths, Alive(q, f, p)'
    PROVE  Alive(q, f, p)
  <1>1. \A i \in 1..OpOf(p) : f[i] \in View
    BY PathFacts
  <1>2. Path(f, p)
    BY StepFacts DEF Alive, Path, InLog
  <1>3. \A i \in 1..OpOf(p) : ~Lost(q, f[i], Ancestor(p, i))
    BY <1>1, GoneGrows DEF Alive
  <1> QED
    BY <1>2, <1>3 DEF Alive

\* Counting less replicas as gone, no less is alive.
LEMMA AliveFacts ==
    ASSUME TypeInv, IInv, NEW p \in prepared, NEW f \in Paths, NEW q, Alive(q, f, p)
    PROVE  /\ Alive(Nobody, f, p)
           /\ \A r \in Replica : f[OpOf(p)] < durable[r].view => Alive(r, f, p)
           /\ \A w \in View : f[OpOf(p)] < w /\ w <= durable[PrimaryIndex(w)].view
                    => Alive(PrimaryIndex(w), f, p)
           /\ \A w \in View : f[OpOf(p)] < w /\ LogViewDurable(w) => Alive(PrimaryIndex(w), f, p)
  <1>1. /\ \A i \in 1..OpOf(p) : f[i] \in Nat /\ f[i] <= f[OpOf(p)]
        /\ f[OpOf(p)] \in Nat
    BY PathFacts DEF Alive
  <1>2. \A r \in Replica : durable[r].view \in Nat /\ durable[r].log_view \in Nat
                           /\ durable[r].log_view <= durable[r].view
    BY DEF IInv, ViewTypes, ViewOrder
  <1>3. Alive(Nobody, f, p)
    <2>1. Nobody \notin Replica
      BY CountsAssumption DEF Nobody, Replica
    <2> QED
      BY <2>1, AliveWithMore DEF Left
  <1>4. ASSUME NEW r \in Replica, f[OpOf(p)] < durable[r].view PROVE Alive(r, f, p)
    <2>1. \A i \in 1..OpOf(p) : f[i] < durable[r].view
      BY <1>1, <1>2, <1>4
    <2>2. \A i \in 1..OpOf(p) : \A s \in Replica : Left(r, s, f[i]) => Left(q, s, f[i])
      BY <2>1 DEF Left
    <2> QED
      BY <2>2, AliveWithMore
  <1>5. ASSUME NEW w \in View, f[OpOf(p)] < w, w <= durable[PrimaryIndex(w)].view
        PROVE  Alive(PrimaryIndex(w), f, p)
    <2>1. w \in Nat /\ PrimaryIndex(w) \in Replica
      BY PrimaryIsReplica, CountsAssumption DEF View
    <2>2. f[OpOf(p)] < durable[PrimaryIndex(w)].view
      BY <1>1, <1>2, <1>5, <2>1
    <2> QED
      BY <1>4, <2>1, <2>2
  <1>6. ASSUME NEW w \in View, f[OpOf(p)] < w, LogViewDurable(w)
        PROVE  Alive(PrimaryIndex(w), f, p)
    <2>1. w \in Nat /\ PrimaryIndex(w) \in Replica
      BY PrimaryIsReplica, CountsAssumption DEF View
    <2>2. w <= durable[PrimaryIndex(w)].view
      BY <1>2, <1>6, <2>1 DEF LogViewDurable
    <2> QED
      BY <1>5, <1>6, <2>2
  <1> QED
    BY <1>3, <1>4, <1>5, <1>6

\* After a crash, it is the views in the superblocks that count.
LEMMA RestartAlive ==
    ASSUME TypeInv, TypeInv', IInv', NEW r \in Replica, StepOf(r), NEW q,
           NEW p \in prepared, NEW f \in Paths, Alive(q, f, p)'
    PROVE  Alive(Nobody, f, p) /\ Alive(Nobody, f, p)'
  <1>1. Nobody # r /\ Nobody \notin Replica
    BY CountsAssumption DEF Nobody, Replica
  <1>2. \A i \in 1..OpOf(p) : Gone(Nobody, f[i], Ancestor(p, i))' \subseteq Gone(q, f[i], Ancestor(p, i))'
    BY <1>1 DEF Gone, Left
  <1>3. Alive(Nobody, f, p)'
    <2> SUFFICES ASSUME NEW i \in 1..OpOf(p), Lost(Nobody, f[i], Ancestor(p, i))' PROVE FALSE
      BY DEF Alive
    <2> DEFINE G == Gone(Nobody, f[i], Ancestor(p, i))'
               H == Gone(q, f[i], Ancestor(p, i))'
    <2>1. G \subseteq H /\ H \in SUBSET Replica
      BY <1>2 DEF Gone
    <2>2. Cardinality(G) <= Cardinality(H) /\ Cardinality(G) \in Nat /\ Cardinality(H) \in Nat
      <3>1. IsFiniteSet(H)
        BY <2>1, ReplicaFinite, FS_Subset
      <3> QED
        BY <2>1, <3>1, FS_Subset, FS_CardinalityType
    <2>3. Cardinality(G) >= QuorumNack /\ ~(Cardinality(H) >= QuorumNack)
      BY DEF Lost, Alive
    <2> QED
      BY <2>2, <2>3, CountsAssumption, QuorumAssumption DEF QuorumNack
  <1> QED
    BY <1>1, <1>3, AlivePast

-----------------------------------------------------------------------------
(* The logs of views, over a step. *)

\* NothingOfTheView, after a step.
LEMMA NothingOfTheViewNow ==
    (\A v \in View :
        TypeInv /\ IInv /\ LogInv /\ ~LogViewDurable(v)
        /\ log_view[PrimaryIndex(v)] < v /\ view[PrimaryIndex(v)] <= v => Tips(v) = {})'
  <1>1. \A v \in View :
            TypeInv /\ IInv /\ LogInv /\ ~LogViewDurable(v)
            /\ log_view[PrimaryIndex(v)] < v /\ view[PrimaryIndex(v)] <= v => Tips(v) = {}
    BY NothingOfTheView
  <1> QED
    BY <1>1, PTL

\* After a step there is nothing of a view but what was, and the log of its primary.
LEMMA NewTips ==
    ASSUME TypeInv, TypeInv', NEW r \in Replica, StepOf(r), NEW v \in View, NEW t \in Tips(v)'
    PROVE  t \in Tips(v) \/ (Leads(r)' /\ v = view'[r] /\ t = HeadHeader(r)')
  <1>1. CASE \E q \in Replica : HasTip(q, v, t)'
    <2>1. PICK q \in Replica : HasTip(q, v, t)'
      BY <1>1
    <2>2. CASE q = r
      BY <2>1, <2>2 DEF StepOf, LogStep
    <2>3. CASE q # r
      <3>1. HasTip(q, v, t)
        BY <2>1, <2>3, StepFacts DEF SameAt, HasTip, HeadHeader, ViewHead, InLogView, StartsView, HeadOp
      <3> QED
        BY <3>1, TipsKnown
    <2> QED
      BY <2>2, <2>3
  <1>2. CASE SentTip(v, t)'
    <2>1. CASE t \in prepared' /\ ViewOf(t) = v
      <3>1. CASE t \in prepared
        BY <2>1, <3>1, TipsKnown DEF SentTip
      <3>2. CASE t \notin prepared
        BY <2>1, <3>2 DEF StepOf, LogStep
      <3> QED
        BY <3>1, <3>2
    <2>2. CASE \E m \in start_views' : m.view = v /\ t = m.head
      <3>1. PICK m \in start_views' : m.view = v /\ t = m.head
        BY <2>2
      <3>2. CASE m \in start_views
        BY <3>1, <3>2, TipsKnown DEF SentTip
      <3>3. CASE m \notin start_views
        BY <3>1, <3>3 DEF StepOf, LogStep
      <3> QED
        BY <3>2, <3>3
    <2>3. CASE \E m \in do_view_changes' : m.log_view = v /\ t = m.headers[m.op]
      <3>1. PICK m \in do_view_changes' : m.log_view = v /\ t = m.headers[m.op]
        BY <2>3
      <3>2. CASE m \in do_view_changes
        BY <3>1, <3>2, TipsKnown DEF SentTip
      <3>3. CASE m \notin do_view_changes
        BY <3>1, <3>3 DEF StepOf, LogStep
      <3> QED
        BY <3>2, <3>3
    <2> QED
      BY <1>2, <2>1, <2>2, <2>3 DEF SentTip
  <1> QED
    BY <1>1, <1>2 DEF Tips

\* A crash takes a log with it, unless a superblock has its view.
LEMMA RestartTips ==
    ASSUME TypeInv, TypeInv', IInv', LogInv', NEW r \in Replica, StepOf(r), Restarts(r),
           NEW v \in View, r = PrimaryIndex(v), Tips(v)' # {}
    PROVE  v <= durable[r].view /\ Tips(v) # {}
  <1>1. Tips(v) # {}
    BY NewTips DEF Restarts
  <1>2. /\ v \in Nat /\ log_view'[r] = durable[r].log_view /\ durable'[r] = durable[r]
        /\ durable[r].view \in Nat /\ durable[r].log_view \in Nat
        /\ view'[r] \in {durable[r].view, durable[r].view + 1}
        /\ durable'[r].log_view <= durable'[r].view
    BY CountsAssumption DEF TypeInv, LocalTypes, HeadersTypes, Restarts, View, IInv, ViewOrder
  <1>3. LogViewDurable(v)' \/ ~(log_view'[r] < v) \/ ~(view'[r] <= v)
    BY NothingOfTheViewNow
  <1>4. LogViewDurable(v)' => v <= durable'[r].log_view
    BY DEF LogViewDurable
  <1> QED
    BY <1>1, <1>2, <1>3, <1>4

\* The log that a new primary has when a quorum left the views before: it has all that is alive,
\* and is not of another log than what the primary has acknowledged itself.
NewLog(r) ==
    \A w \in View : w = view'[r] =>
       /\ Cardinality({s \in Replica : Left(r, s, w - 1)'}) >= QuorumViewChange
       /\ \A p \in prepared, f \in Paths :
            f[OpOf(p)] < w /\ Alive(r, f, p)' => p \preceq HeadHeader(r)'
       /\ \A p \in prepared, f \in Paths :
            /\ ~LogViewDurable(w)'
            /\ f[OpOf(p)] < w /\ r \in Acked(f[OpOf(p)], p) /\ Alive(Nobody, f, p)'
            => Comparable(p, HeadHeader(r)')

\* A log that is new in its view is that of a new primary; it grows once the view is durable.
LeadsOn(r) ==
    Leads(r)' => \/ NewLog(r)
                 \/ HeadHeader(r)' \in Tips(view'[r])
                 \/ Tips(view'[r]) # {} /\ LogViewDurable(view[r])'

\* Every log is named by a prepare, after a step too.
LEMMA TipsPreparesNow ==
    (TypeInv => /\ \A v : Tips(v) \subseteq Prepare
                /\ \A r \in Replica : HeadHeader(r) \in Prepare)'
  <1>1. TypeInv => /\ \A v : Tips(v) \subseteq Prepare
                   /\ \A r \in Replica : HeadHeader(r) \in Prepare
    BY TipsKnown, HeadFacts
  <1> QED
    BY <1>1, PTL

\* A quorum left the views before the first log of a view was there.
LEMMA TipsQuorumStep ==
    ASSUME TypeInv, TypeInv', IInv', LogInv', TipsQuorum,
           NEW r \in Replica, StepOf(r), LeadsOn(r)
    PROVE  TipsQuorum'
  <1> SUFFICES ASSUME NEW v \in View \ {0}, Tips(v)' # {}
               PROVE  Cardinality({s \in Replica : Left(PrimaryIndex(v), s, v - 1)'})
                        >= QuorumViewChange
    BY DEF TipsQuorum
  <1> DEFINE Q == {s \in Replica : Left(PrimaryIndex(v), s, v - 1)}
             R == {s \in Replica : Left(PrimaryIndex(v), s, v - 1)'}
  <1>1. v \in Nat /\ v > 0 /\ v - 1 \in View /\ v - 1 \in Nat /\ PrimaryIndex(v) \in Replica
    BY PrimaryIsReplica, CountsAssumption DEF View
  <1>2. CASE Tips(v) # {}
    <2>1. Cardinality(Q) >= QuorumViewChange
      BY <1>2 DEF TipsQuorum
    <2>2. Q \subseteq R
      <3> SUFFICES ASSUME NEW s \in Replica, Left(PrimaryIndex(v), s, v - 1)
                   PROVE  Left(PrimaryIndex(v), s, v - 1)'
        OBVIOUS
      <3>1. /\ durable[s].view \in Nat /\ durable'[s].view \in Nat
            /\ log_view[s] \in Nat /\ log_view'[s] \in Nat
        BY CountsAssumption DEF TypeInv, LocalTypes, ReplicaTypes, HeadersTypes, View
      <3>2. durable[s].view <= durable'[s].view
        BY StepFacts
      <3>3. CASE durable[s].view > v - 1
        BY <1>1, <3>1, <3>2, <3>3 DEF Left
      <3>4. CASE s = PrimaryIndex(v) /\ log_view[s] > v - 1
        <4>1. CASE s # r
          <5>1. log_view'[s] = log_view[s]
            BY <4>1, StepFacts DEF SameAt
          <5> QED
            BY <3>4, <5>1 DEF Left
        <4>2. CASE s = r /\ Goes(r)
          BY <1>1, <3>1, <3>4, <4>2 DEF Goes, Left
        <4>3. CASE s = r /\ Restarts(r)
          <5>1. v <= durable[r].view
            BY <1>1, <3>4, <4>3, RestartTips
          <5> QED
            BY <1>1, <3>1, <3>2, <4>3, <5>1 DEF Left
        <4> QED
          BY <4>1, <4>2, <4>3 DEF StepOf
      <3> QED
        BY <3>3, <3>4 DEF Left
    <2>3. R \in SUBSET Replica
      OBVIOUS
    <2>4. Cardinality(Q) <= Cardinality(R) /\ Cardinality(Q) \in Nat /\ Cardinality(R) \in Nat
      <3> HIDE DEF Q, R
      <3>1. IsFiniteSet(R)
        BY <2>3, ReplicaFinite, FS_Subset
      <3> QED
        BY <2>2, <3>1, FS_Subset, FS_CardinalityType
    <2> HIDE DEF Q, R
    <2>5. Cardinality(R) >= QuorumViewChange
      BY <2>1, <2>4, CountsAssumption, QuorumAssumption
    <2> QED
      BY <2>5 DEF R
  <1>3. CASE Tips(v) = {}
    <2>1. Leads(r)' /\ v = view'[r]
      BY <1>3, NewTips
    <2>2. NewLog(r)
      BY <1>3, <2>1 DEF LeadsOn
    <2>3. r = PrimaryIndex(v)
      BY <2>1 DEF Leads
    <2>4. Cardinality({s \in Replica : Left(r, s, v - 1)'}) >= QuorumViewChange
      BY <2>1, <2>2 DEF NewLog
    <2> QED
      BY <2>3, <2>4
  <1> QED
    BY <1>2, <1>3

\* What is prepared in this step is in no log of a later view: those have a quorum, which this
\* prepare can not get any more.
LEMMA NewPrepareLost ==
    ASSUME TypeInv, TypeInv', TipsQuorum', NEW r \in Replica, StepOf(r),
           NEW p \in prepared' \ prepared, NEW f \in Paths, NEW w \in View, f[OpOf(p)] < w,
           Alive(PrimaryIndex(w), f, p)', Tips(w)' # {}
    PROVE  FALSE
  <1> DEFINE u == f[OpOf(p)]
             q == PrimaryIndex(w)
             S == {s \in Replica : Left(q, s, w - 1)'}
             G == Gone(q, u, p)'
  <1>1. /\ OpOf(p) \in 1..OpOf(p) /\ OpOf(p) \in Op /\ Ancestor(p, OpOf(p)) = p
    <2>1. prepared' \subseteq Prepare \ {Root}
      BY DEF TypeInv, PreparedTypes
    <2>2. p \in Prepare /\ p # Root
      BY <2>1
    <2> QED
      BY <2>2, OpFacts, ViewFacts, AncestorOfAncestor
  <1>2. u \in Nat /\ w \in Nat /\ w # 0 /\ w \in View \ {0}
    BY <1>1, CountsAssumption DEF Paths, View
  <1>3. Cardinality(S) >= QuorumViewChange
    BY <1>2 DEF TipsQuorum
  <1>4. Acked(u, p)' = {}
    <2>1. prepare_oks' = prepare_oks
      BY StepFacts
    <2>2. \A m \in prepare_oks : m.prepare \in prepared
      BY DEF TypeInv, MessageTypes, PrepareOkTypes
    <2> QED
      BY <2>1, <2>2 DEF Acked
  <1>5. S \subseteq G
    <2> SUFFICES ASSUME NEW s \in Replica, Left(q, s, w - 1)' PROVE Left(q, s, u)'
      BY <1>4 DEF Gone
    <2>1. durable'[s].view \in Nat /\ log_view'[s] \in Nat
      BY CountsAssumption DEF TypeInv, LocalTypes, ReplicaTypes, HeadersTypes, View
    <2> QED
      BY <1>2, <2>1 DEF Left
  <1>6. G \in SUBSET Replica
    BY DEF Gone
  <1>7. ~(Cardinality(G) >= QuorumNack)
    BY <1>1 DEF Alive, Lost
  <1> HIDE DEF S, G
  <1>8. Cardinality(S) <= Cardinality(G) /\ Cardinality(S) \in Nat /\ Cardinality(G) \in Nat
    <2>1. IsFiniteSet(G)
      BY <1>6, ReplicaFinite, FS_Subset
    <2> QED
      BY <1>5, <2>1, FS_Subset, FS_CardinalityType
  <1> QED
    BY <1>3, <1>7, <1>8, CountsAssumption, QuorumAssumption DEF QuorumNack

\* Aliveness for the primary of a view of which there is something, over a step.
LEMMA AliveForTips ==
    ASSUME TypeInv, TypeInv', IInv, IInv', LogInv', NEW r \in Replica, StepOf(r),
           NEW p \in prepared, NEW f \in Paths, NEW w \in View, f[OpOf(p)] < w,
           Alive(PrimaryIndex(w), f, p)', Tips(w)' # {}
    PROVE  Alive(PrimaryIndex(w), f, p)
  <1>1. CASE Restarts(r) /\ r = PrimaryIndex(w)
    <2>1. w <= durable[PrimaryIndex(w)].view
      BY <1>1, RestartTips
    <2>2. Alive(Nobody, f, p)
      BY RestartAlive
    <2> QED
      BY <2>1, <2>2, AliveFacts
  <1>2. CASE ~(Restarts(r) /\ r = PrimaryIndex(w))
    BY <1>2, AlivePast
  <1> QED
    BY <1>1, <1>2

\* The logs of a view stay without nothing that is alive.
LEMMA SafeLogsStep ==
    ASSUME TypeInv, TypeInv', IInv, IInv', LogInv', SafeLogs, TipsQuorum',
           NEW r \in Replica, StepOf(r), LeadsOn(r)
    PROVE  SafeLogs'
  <1> SUFFICES ASSUME NEW w \in View, NEW p \in prepared', NEW f \in Paths,
                      f[OpOf(p)] < w, Alive(PrimaryIndex(w), f, p)', NEW t \in Tips(w)'
               PROVE  p \preceq t
    BY DEF SafeLogs, \preceq
  <1>1. CASE p \notin prepared
    BY <1>1, NewPrepareLost
  <1>2. CASE p \in prepared
    <2>1. Alive(PrimaryIndex(w), f, p)
      BY <1>2, AliveForTips
    <2>2. CASE t \in Tips(w)
      BY <1>2, <2>1, <2>2 DEF SafeLogs
    <2>3. CASE t \notin Tips(w)
      <3>1. Leads(r)' /\ w = view'[r] /\ t = HeadHeader(r)' /\ r = PrimaryIndex(w)
        BY <2>3, NewTips DEF Leads
      <3>2. CASE NewLog(r)
        BY <1>2, <3>1, <3>2 DEF NewLog
      <3>3. CASE Tips(w) # {}
        <4>1. PICK s \in Tips(w) : TRUE
          BY <3>3
        <4>2. p \preceq s
          BY <1>2, <2>1 DEF SafeLogs
        <4>3. s \preceq t
          BY <3>1 DEF StepOf, LogStep, Continues
        <4>4. p \in Prepare /\ s \in Prepare /\ t \in Prepare
          BY <1>2, TipsPreparesNow, KnownFacts, TipsKnown
        <4> QED
          BY <4>2, <4>3, <4>4, BeginsFacts
      <3> QED
        BY <2>3, <3>1, <3>2, <3>3 DEF LeadsOn
    <2> QED
      BY <2>2, <2>3
  <1> QED
    BY <1>1, <1>2

\* Nothing is acknowledged in the step that prepares it.
LEMMA AckedWasPrepared ==
    ASSUME TypeInv, TypeInv', NEW r \in Replica, StepOf(r), NEW m \in prepare_oks'
    PROVE  m.prepare \in prepared
  <1>1. m \in prepare_oks => m.prepare \in prepared
    BY DEF TypeInv, MessageTypes, PrepareOkTypes
  <1>2. m.prepare \in prepared'
    BY DEF TypeInv, MessageTypes, PrepareOkTypes
  <1> QED
    BY <1>1, <1>2, StepFacts

\* A log that only its primary has does not come to differ from what the primary acknowledged.
LEMMA SafeInMemoryStep ==
    ASSUME TypeInv, TypeInv', IInv, IInv', LogInv', SafeInMemory,
           NEW r \in Replica, StepOf(r), LeadsOn(r)
    PROVE  SafeInMemory'
  <1> SUFFICES ASSUME NEW w \in View, NEW p \in prepared', NEW f \in Paths,
                      ~LogViewDurable(w)', f[OpOf(p)] < w,
                      PrimaryIndex(w) \in Acked(f[OpOf(p)], p)', Alive(Nobody, f, p)',
                      NEW t \in Tips(w)'
               PROVE  Comparable(p, t)
    BY DEF SafeInMemory, Comparable, \preceq
  <1> DEFINE q == PrimaryIndex(w)
  <1>1. PICK m \in prepare_oks' : m.replica = q /\ m.view = f[OpOf(p)] /\ m.prepare = p
    BY DEF Acked
  <1>2. p \in prepared
    BY <1>1, AckedWasPrepared
  <1>3. w \in Nat /\ q \in Replica /\ f[OpOf(p)] \in Nat
    BY <1>2, PathFacts, PrimaryIsReplica, CountsAssumption DEF View
  <1>4. Alive(Nobody, f, p)
    BY <1>2, RestartAlive
  <1>5. ~LogViewDurable(w)
    <2>1. durable[q].log_view \in Nat /\ durable'[q].log_view \in Nat
      BY <1>3, CountsAssumption DEF TypeInv, LocalTypes, HeadersTypes, View
    <2>2. durable[q].log_view <= durable'[q].log_view
      BY <1>3, StepFacts
    <2> QED
      BY <1>3, <2>1, <2>2 DEF LogViewDurable
  <1>6. CASE m \in prepare_oks
    <2>1. q \in Acked(f[OpOf(p)], p)
      BY <1>1, <1>6 DEF Acked
    <2>2. \A s \in Tips(w) : Comparable(p, s)
      BY <1>2, <1>4, <1>5, <2>1 DEF SafeInMemory
    <2>3. CASE t \notin Tips(w)
      <3>1. Leads(r)' /\ w = view'[r] /\ t = HeadHeader(r)' /\ r = q
        BY <2>3, NewTips DEF Leads
      <3>2. NewLog(r)
        <4>1. ~LogViewDurable(view[r])'
          BY <3>1 DEF LogViewDurable
        <4> QED
          BY <2>3, <3>1, <4>1 DEF LeadsOn
      <3> QED
        BY <1>2, <2>1, <3>1, <3>2 DEF NewLog
    <2> QED
      BY <2>2, <2>3
  <1>7. CASE m \notin prepare_oks
    <2>1. q = r /\ f[OpOf(p)] = view'[r]
      BY <1>1, <1>7, StepFacts
    <2>2. log_view'[r] \in Nat /\ view'[r] \in Nat /\ log_view'[r] <= view'[r]
      BY CountsAssumption DEF TypeInv, LocalTypes, ReplicaTypes, View, IInv, ViewOrder
    <2>3. log_view'[r] < w /\ view'[r] <= w
      BY <1>3, <2>1, <2>2
    <2> QED
      BY <2>1, <2>3, NothingOfTheViewNow
  <1> QED
    BY <1>6, <1>7

-----------------------------------------------------------------------------
(* What was acknowledged. *)

\* Prepares of one log: what is below one of them is of the log of the other.
LEMMA ComparableFacts ==
    /\ \A p, q \in Prepare : Comparable(p, q) /\ OpOf(p) <= OpOf(q) => p \preceq q
    /\ \A p, s, t \in Prepare : p \preceq s /\ Comparable(s, t) /\ OpOf(p) <= OpOf(t) => p \preceq t
    /\ \A p, s, t \in Prepare : p \preceq s /\ Comparable(s, t) => Comparable(p, t)
    /\ \A p, s, t \in Prepare : p \preceq s /\ t \preceq s => Comparable(p, t)
    /\ \A p, q \in Prepare : Comparable(p, q) => Comparable(q, p)
    /\ \A p, q \in Prepare : Comparable(p, q) /\ OpOf(p) = OpOf(q) => p = q
  <1>1. \A p \in Prepare : OpOf(p) \in Nat
    BY OpFacts
  <1> QED
    BY <1>1, BeginsFacts DEF Comparable

\* The tips of one view are all of one log.
LEMMA TipsComparable ==
    ASSUME TypeInv, LogInv, NEW v \in View, NEW s \in Tips(v), NEW t \in Tips(v)
    PROVE  Comparable(s, t) /\ s \in Prepare /\ t \in Prepare
  BY TipsKnown DEF LogInv, OneLogPerView, Continues, Comparable

\* What is of a view's log and in the slots of a replica of the view is in its log.
LEMMA CleanInLog ==
    ASSUME TypeInv, IInv, LogInv, ViewsStarted, NEW r \in Replica, NEW p \in prepared,
           status[r] = "normal", journal[r][OpOf(p)].header = p, OpOf(p) <= op[r],
           InLog(view[r], p)
    PROVE  p \preceq HeadHeader(r)
  <1> DEFINE v == view[r]
             H == HeadHeader(r)
  <1>1. /\ v \in View /\ v \in Nat /\ p \in Prepare /\ p \in Known /\ H \in Prepare
        /\ OpOf(H) = op[r] /\ log_view[r] = v /\ OpOf(p) \in Nat /\ op[r] \in Nat
    <2>1. v \in View /\ v \in Nat
      BY CountsAssumption DEF TypeInv, LocalTypes, ReplicaTypes, View
    <2>2. H \in Prepare /\ OpOf(H) = op[r] /\ op[r] \in Nat
      BY HeadFacts
    <2>3. p \in Prepare /\ p \in Known /\ OpOf(p) \in Nat
      BY PreparedFacts
    <2>4. log_view[r] = v
      BY NormalFacts DEF InLogView
    <2> QED
      BY <2>1, <2>2, <2>3, <2>4
  <1>2. H \in Tips(v)
    BY <1>1, TipsKnown DEF HasTip
  <1>3. CASE ViewOf(p) = v
    <2>1. p \in Tips(v)
      BY <1>3, TipsKnown DEF SentTip
    <2> QED
      BY <1>1, <1>2, <2>1, TipsComparable, ComparableFacts
  <1>4. CASE ViewOf(p) # v /\ r = PrimaryIndex(v)
    <2>1. OpOf(p) \in 0..op[r]
      BY <1>1
    <2> QED
      BY <1>4, <2>1, NormalFacts
  <1>5. CASE ViewOf(p) # v /\ r # PrimaryIndex(v)
    <2>1. v # 0
      <3>1. ViewOf(p) \in 0..ViewMax /\ ViewOf(p) < v
        BY <1>1, <1>5, ViewFacts DEF View, InLog
      <3> QED
        BY <1>1, <3>1
    <2>2. PICK m \in start_views : m.view = v
      BY <1>1, <1>5, <2>1 DEF ViewsStarted, HasStarted, Started
    <2>3. p \preceq m.head
      BY <1>5, <2>2 DEF InLog
    <2>4. m.head \in Tips(v)
      BY <2>2, TipsKnown DEF SentTip
    <2>5. Comparable(m.head, H) /\ m.head \in Prepare
      BY <1>1, <1>2, <2>4, TipsComparable
    <2> QED
      BY <1>1, <2>3, <2>5, ComparableFacts
  <1> QED
    BY <1>3, <1>4, <1>5 DEF InLog

\* After a step: a clean slot that a normal replica may acknowledge is in its log.
LEMMA CleanInLogNow ==
    (\A r \in Replica : \A p :
        TypeInv /\ IInv /\ LogInv /\ ViewsStarted /\ p \in prepared /\ status[r] = "normal"
        /\ journal[r][OpOf(p)].header = p /\ OpOf(p) <= op[r] /\ InLog(view[r], p)
        => p \preceq HeadHeader(r))'
  <1>1. \A r \in Replica : \A p :
            TypeInv /\ IInv /\ LogInv /\ ViewsStarted /\ p \in prepared /\ status[r] = "normal"
            /\ journal[r][OpOf(p)].header = p /\ OpOf(p) <= op[r] /\ InLog(view[r], p)
            => p \preceq HeadHeader(r)
    BY CleanInLog
  <1> QED
    BY <1>1, PTL

\* What the step of replica r does to what it acknowledged before.
AcksStay(r) ==
    \A p \in prepared, f \in Paths :
        r \in Acked(f[OpOf(p)], p) /\ r \in Acked(f[OpOf(p)], p)' =>
            /\ Alive(Nobody, f, p)' => OnDisk(r, f, p)'
            /\ Alive(r, f, p)' => InMemory(r, f, p)' /\ InVotes(r, f, p)'

\* What is acknowledged in a step is on disk and in the log, and no vote left it out.
LEMMA AckedNow ==
    ASSUME TypeInv, TypeInv', IInv', LogInv', ViewsStarted', NEW r \in Replica, StepOf(r),
           CleanOnDisk(r)', NEW p \in prepared, NEW f \in Paths, Path(f, p)',
           NEW m \in prepare_oks' \ prepare_oks, m.view = f[OpOf(p)], m.prepare = p
    PROVE  OnDisk(r, f, p)' /\ InMemory(r, f, p)' /\ InVotes(r, f, p)'
  <1> DEFINE o == OpOf(p)
  <1>1. /\ m.replica = r /\ f[o] = view'[r] /\ status'[r] = "normal"
        /\ journal'[r][o].header = p /\ ~journal'[r][o].dirty /\ o <= op'[r]
    BY StepFacts
  <1>2. o \in Op /\ p \in Prepare /\ p # None /\ p \in prepared'
    BY PreparedFacts, KnownFacts, StepFacts
  <1>3. /\ f[o] \in Nat /\ durable'[r].view <= view'[r] /\ durable'[r].view \in Nat
        /\ durable'[r].log_view \in Nat
        /\ \A n \in do_view_changes' : n.replica = r => n.view <= view'[r] /\ n.view \in Nat
    BY PathFacts DEF IInv, ViewTypes, ViewOrder, SentOrder, SentTypes
  <1>4. OnDisk(r, f, p)'
    <2>1. disk'[r][o] = p /\ writing'[r][o] \in {None, p}
      BY <1>1, <1>2 DEF CleanOnDisk
    <2> QED
      BY <1>1, <1>3, <2>1 DEF OnDisk
  <1>5. InMemory(r, f, p)'
    <2>1. InLog(view[r], p)'
      <3>1. o \in 1..o
        BY PreparedFacts
      <3>2. InLog(f[o], Ancestor(p, o))' /\ Ancestor(p, o) = p
        BY <3>1, PreparedFacts DEF Path
      <3> QED
        BY <1>1, <3>2 DEF InLog
    <2>2. p \preceq HeadHeader(r)'
      BY <1>1, <1>2, <2>1, CleanInLogNow
    <2> QED
      BY <1>1, <2>2 DEF InMemory, \preceq
  <1>6. InVotes(r, f, p)'
    BY <1>1, <1>3 DEF InVotes
  <1> QED
    BY <1>4, <1>5, <1>6

\* A step that keeps what was acknowledged, and acknowledges only clean slots, preserves
\* AckedKept.
LEMMA AckedKeptStep ==
    ASSUME TypeInv, TypeInv', IInv', LogInv', AckedKept, ViewsStarted',
           NEW r \in Replica, StepOf(r), CleanOnDisk(r)', AcksStay(r)
    PROVE  AckedKept'
  <1> SUFFICES ASSUME NEW s \in Replica, NEW p \in prepared', NEW f \in Paths,
                      s \in Acked(f[OpOf(p)], p)'
               PROVE  /\ Alive(Nobody, f, p)' => OnDisk(s, f, p)'
                      /\ Alive(s, f, p)' => InMemory(s, f, p)' /\ InVotes(s, f, p)'
    BY DEF AckedKept
  <1> DEFINE o == OpOf(p)
             u == f[OpOf(p)]
  <1>1. PICK m \in prepare_oks' : m.replica = s /\ m.view = u /\ m.prepare = p
    BY DEF Acked
  <1>2. p \in prepared
    BY <1>1, AckedWasPrepared
  <1>3. CASE m \notin prepare_oks
    <2>1. s = r
      BY <1>1, <1>3, StepFacts
    <2> QED
      BY <1>1, <1>2, <1>3, <2>1, AckedNow DEF Alive
  <1>4. CASE m \in prepare_oks /\ s = r
    <2>1. r \in Acked(u, p)
      BY <1>1, <1>4 DEF Acked
    <2> QED
      BY <1>2, <1>4, <2>1 DEF AcksStay
  <1>5. CASE m \in prepare_oks /\ s # r
    <2>1. s \in Acked(u, p)
      BY <1>1, <1>5 DEF Acked
    <2>2. SameAt(s)
      BY <1>5, StepFacts
    <2>3. ASSUME Alive(Nobody, f, p)' PROVE OnDisk(s, f, p)'
      <3>1. OnDisk(s, f, p)
        BY <1>2, <2>1, <2>3, RestartAlive DEF AckedKept
      <3> QED
        BY <2>2, <3>1 DEF OnDisk, SameAt, \preceq, ViewHead, HeadOp
    <2>4. ASSUME Alive(s, f, p)' PROVE InMemory(s, f, p)' /\ InVotes(s, f, p)'
      <3>1. Alive(s, f, p)
        BY <1>2, <1>5, <2>4, AlivePast
      <3>2. InMemory(s, f, p) /\ InVotes(s, f, p)
        BY <1>2, <2>1, <3>1 DEF AckedKept
      <3>3. InVotes(s, f, p)'
        <4>1. \A n \in do_view_changes' \ do_view_changes : n.replica = r
          BY DEF StepOf, LogStep
        <4> QED
          BY <1>5, <3>2, <4>1 DEF InVotes
      <3>4. ASSUME NEW n \in start_views' \ start_views, n.view = u PROVE p \preceq n.head
        <4>1. Leads(r)' /\ u = view'[r] /\ n.head = HeadHeader(r)'
          BY <3>4, StepFacts
        <4>2. InLog(u, p)'
          <5>1. o \in 1..o /\ Ancestor(p, o) = p
            BY <1>2, PreparedFacts
          <5> QED
            BY <2>4, <5>1 DEF Alive, Path
        <4>3. CASE ViewOf(p) = u
          <5>1. p \in Tips(u)'
            BY <4>3 DEF Tips, SentTip, Known
          <5> QED
            BY <4>1, <5>1 DEF LogInv, PrimaryHasTips, Continues
        <4>4. CASE ViewOf(p) # u
          BY <3>4, <4>2, <4>4 DEF InLog, \preceq
        <4> QED
          BY <4>3, <4>4
      <3>5. InMemory(s, f, p)'
        BY <2>2, <3>2, <3>4 DEF InMemory, SameAt, HeadHeader, \preceq
      <3> QED
        BY <3>3, <3>5
    <2> QED
      BY <2>3, <2>4
  <1> QED
    BY <1>3, <1>4, <1>5

-----------------------------------------------------------------------------
(* What was decided. A primary alone decides nothing, if a replication quorum is more than one. *)

\* With a replication quorum of two or more, somebody else than the primary acknowledged it:
\* the one place where the hypothesis of the theorems is needed.
LEMMA OtherAcker ==
    ASSUME TypeInv, QuorumReplication >= 2, NEW v, NEW p,
           Cardinality(Acked(v, p)) >= QuorumReplication
    PROVE  \E m \in prepare_oks : m.view = v /\ m.prepare = p /\ m.replica # PrimaryIndex(v)
  <1> SUFFICES ASSUME \A m \in prepare_oks : m.view = v /\ m.prepare = p => m.replica = PrimaryIndex(v)
               PROVE  FALSE
    OBVIOUS
  <1>1. Acked(v, p) \subseteq {PrimaryIndex(v)}
    BY DEF Acked
  <1>2. Cardinality({PrimaryIndex(v)}) = 1 /\ IsFiniteSet({PrimaryIndex(v)})
    BY FS_Singleton
  <1>3. Cardinality(Acked(v, p)) <= 1 /\ Cardinality(Acked(v, p)) \in Nat
    BY <1>1, <1>2, FS_Subset, FS_CardinalityType
  <1> QED
    BY <1>3, QuorumAssumption, CountsAssumption

\* What is decided in a view is in a log of the view.
LEMMA TipAbove ==
    ASSUME TypeInv, LogInv, ViewsStarted, QuorumReplication >= 2,
           NEW p \in prepared, NEW f \in Paths, Decided(f, p)
    PROVE  \E t \in Tips(f[OpOf(p)]) : p \preceq t
  <1> DEFINE u == f[OpOf(p)]
  <1>1. InLog(u, p) /\ Cardinality(Acked(u, p)) >= QuorumReplication
    BY PreparedFacts, PathFacts DEF Decided
  <1>2. p \in Known /\ p \in Prepare /\ u \in Nat /\ ViewOf(p) \in View /\ ViewOf(p) \in Nat
    BY PreparedFacts, PathFacts, ViewFacts, CountsAssumption DEF View
  <1>3. CASE ViewOf(p) = u
    BY <1>2, <1>3, TipsKnown, BeginsFacts DEF SentTip
  <1>4. CASE ViewOf(p) # u
    <2>1. PICK m \in prepare_oks : m.view = u /\ m.prepare = p /\ m.replica # PrimaryIndex(u)
      BY <1>1, OtherAcker
    <2>2. u # 0
      BY <1>1, <1>2, <1>4 DEF InLog
    <2>3. PICK s \in start_views : s.view = u
      BY <2>1, <2>2 DEF ViewsStarted, Started
    <2>4. p \preceq s.head
      BY <1>1, <1>4, <2>3 DEF InLog
    <2>5. s.head \in Tips(u)
      BY <2>3, TipsKnown DEF SentTip
    <2> QED
      BY <2>4, <2>5
  <1> QED
    BY <1>3, <1>4

\* What is decided is in the logs of all later views, and no log of its view is another.
LEMMA DecidedInLog ==
    ASSUME TypeInv, IInv, LogInv, ViewsStarted, SafeLogs, QuorumReplication >= 2,
           NEW p \in prepared, NEW f \in Paths, Decided(f, p), NEW v \in View, f[OpOf(p)] <= v
    PROVE  /\ \A t \in Tips(v) : Comparable(p, t) /\ (f[OpOf(p)] < v => p \preceq t)
           /\ \A r \in Replica : Leads(r) /\ view[r] = v => p \preceq HeadHeader(r)
  <1> DEFINE u == f[OpOf(p)]
  <1>1. p \in Prepare /\ u \in Nat /\ u \in View /\ v \in Nat
    BY PreparedFacts, PathFacts, CountsAssumption DEF View
  <1>2. CASE u < v
    <2>1. \A t \in Tips(v) : p \preceq t
      BY <1>2, DecidedIsAlive DEF SafeLogs
    <2>2. \A r \in Replica : Leads(r) /\ view[r] = v => HeadHeader(r) \in Tips(v)
      BY TipsKnown DEF Leads, InLogView, HasTip
    <2> QED
      BY <2>1, <2>2 DEF Comparable
  <1>3. CASE u = v
    <2>1. PICK s \in Tips(v) : p \preceq s
      BY <1>3, TipAbove
    <2>2. s \in Prepare
      BY TipsKnown
    <2>3. \A t \in Tips(v) : Comparable(p, t)
      BY <1>1, <2>1, <2>2, TipsComparable, ComparableFacts
    <2>4. ASSUME NEW r \in Replica, Leads(r), view[r] = v PROVE p \preceq HeadHeader(r)
      <3>1. s \preceq HeadHeader(r)
        BY <2>4 DEF LogInv, PrimaryHasTips, Continues
      <3> QED
        BY <1>1, <2>1, <2>2, <3>1, HeadFacts, BeginsFacts
    <2> QED
      BY <1>1, <1>3, <2>3, <2>4
  <1> QED
    BY <1>1, <1>2, <1>3

\* Two prepares that were decided are of one log.
LEMMA DecidedAgree ==
    ASSUME TypeInv, IInv, LogInv, ViewsStarted, SafeLogs, QuorumReplication >= 2,
           NEW p \in prepared, NEW f \in Paths, Decided(f, p),
           NEW q \in prepared, NEW g \in Paths, Decided(g, q)
    PROVE  Comparable(p, q)
  <1>1. /\ p \in Prepare /\ q \in Prepare
        /\ f[OpOf(p)] \in View /\ f[OpOf(p)] \in Nat /\ g[OpOf(q)] \in View /\ g[OpOf(q)] \in Nat
    BY PreparedFacts, PathFacts
  <1>2. PICK s \in Tips(f[OpOf(p)]) : p \preceq s
    BY TipAbove
  <1>3. PICK t \in Tips(g[OpOf(q)]) : q \preceq t
    BY TipAbove
  <1>4. s \in Prepare /\ t \in Prepare
    BY TipsKnown
  <1>5. CASE f[OpOf(p)] <= g[OpOf(q)]
    <2>1. Comparable(p, t)
      BY <1>1, <1>5, DecidedInLog
    <2> QED
      BY <1>1, <1>3, <1>4, <2>1, ComparableFacts
  <1>6. CASE g[OpOf(q)] <= f[OpOf(p)]
    <2>1. Comparable(q, s)
      BY <1>1, <1>6, DecidedInLog
    <2> QED
      BY <1>1, <1>2, <1>4, <2>1, ComparableFacts
  <1> QED
    BY <1>1, <1>5, <1>6

\* What is decided up to an op is so up to each op before, and for each view after.
LEMMA DecidedToFacts ==
    ASSUME TypeInv, NEW k \in Int, NEW v \in View, DecidedTo(k, v)
    PROVE  /\ \A j \in Int : j <= k => DecidedTo(j, v)
           /\ \A w \in View : v <= w => DecidedTo(k, w)
           /\ \A j \in 1..k : \E p \in prepared, f \in Paths : OpOf(p) = j /\ Decided(f, p) /\ f[j] <= v
  <1>1. v \in Nat
    BY CountsAssumption DEF View
  <1>2. ASSUME NEW j \in 1..k
        PROVE  \E p \in prepared, f \in Paths : OpOf(p) = j /\ Decided(f, p) /\ f[j] <= v
    <2>1. PICK p \in prepared, f \in Paths : OpOf(p) = k /\ Decided(f, p) /\ f[k] <= v
      BY DEF DecidedTo
    <2>2. j \in 1..OpOf(p)
      BY <2>1
    <2>3. PICK a : a = Ancestor(p, j)
      OBVIOUS
    <2>4. a \in prepared /\ OpOf(a) = j /\ Decided(f, a)
      BY <2>1, <2>2, <2>3, Prefix
    <2>5. f[j] <= v
      BY <1>1, <2>1, <2>2, <2>3, Prefix DEF Decided
    <2> QED
      BY <2>4, <2>5
  <1>3. ASSUME NEW j \in Int, j <= k PROVE DecidedTo(j, v)
    <2>1. CASE j <= 0
      BY <2>1 DEF DecidedTo
    <2>2. CASE ~(j <= 0)
      <3>1. j \in 1..k
        BY <1>3, <2>2
      <3> QED
        BY <1>2, <3>1 DEF DecidedTo
    <2> QED
      BY <2>1, <2>2
  <1>4. ASSUME NEW w \in View, v <= w PROVE DecidedTo(k, w)
    <2>1. CASE k <= 0
      BY <2>1 DEF DecidedTo
    <2>2. CASE ~(k <= 0)
      <3>1. PICK p \in prepared, f \in Paths : OpOf(p) = k /\ Decided(f, p) /\ f[k] <= v
        BY <2>2 DEF DecidedTo
      <3>2. f[k] \in Nat /\ w \in Nat
        BY <3>1, PathFacts, CountsAssumption DEF View
      <3> QED
        BY <1>1, <1>4, <3>1, <3>2 DEF DecidedTo
    <2> QED
      BY <2>1, <2>2
  <1> QED
    BY <1>2, <1>3, <1>4

\* Who acknowledged stays, but for a primary that never told another of the view.
LEMMA DecidedStays ==
    ASSUME TypeInv, TypeInv', IInv, LogInv, ViewsStarted, QuorumReplication >= 2,
           NEW r \in Replica, StepOf(r), NEW p \in prepared, NEW f \in Paths, Decided(f, p)
    PROVE  Decided(f, p)'
  <1> SUFFICES ASSUME NEW i \in 1..OpOf(p), NEW a, a = Ancestor(p, i)
               PROVE  InLog(f[i], a)' /\ Cardinality(Acked(f[i], a)') >= QuorumReplication
    BY DEF Decided, Path
  <1> DEFINE u == f[i]
  <1>1. a \in prepared /\ InLog(u, a) /\ Cardinality(Acked(u, a)) >= QuorumReplication /\ u \in Nat
        /\ a \in Prepare /\ ViewOf(a) \in Nat /\ u \in View
    <2>1. a \in prepared /\ u \in Nat /\ u \in View
      BY Prefix, PathFacts
    <2>2. ViewOf(a) \in View /\ a \in Prepare
      BY <2>1, PreparedFacts, ViewFacts
    <2> QED
      BY <2>1, <2>2, CountsAssumption DEF Decided, Path, View
  <1>2. PICK m \in prepare_oks : m.view = u /\ m.prepare = a /\ m.replica # PrimaryIndex(u)
    BY <1>1, OtherAcker
  <1>3. Started(u)
    BY <1>2 DEF ViewsStarted
  <1>4. Acked(u, a) \subseteq Acked(u, a)'
    <2> SUFFICES ASSUME NEW n \in prepare_oks \ prepare_oks', n.view = u PROVE FALSE
      BY DEF Acked
    <2>1. r = PrimaryIndex(u) /\ u > durable[r].log_view
      BY StepFacts
    <2>2. durable[r].log_view \in Nat
      BY CountsAssumption DEF TypeInv, LocalTypes, HeadersTypes, View
    <2>3. u # 0
      BY <2>1, <2>2
    <2>4. u <= durable[r].log_view
      BY <1>3, <2>1, <2>3 DEF Started, IInv, AdvertisedDurable
    <2> QED
      BY <1>1, <2>1, <2>2, <2>4
  <1>5. Cardinality(Acked(u, a)') >= QuorumReplication
    <2>1. Acked(u, a)' \in SUBSET Replica
      BY DEF Acked, TypeInv, MessageTypes, PrepareOkTypes
    <2>2. IsFiniteSet(Acked(u, a)')
      BY <2>1, ReplicaFinite, FS_Subset
    <2>3. Cardinality(Acked(u, a)) <= Cardinality(Acked(u, a)')
          /\ Cardinality(Acked(u, a)) \in Nat /\ Cardinality(Acked(u, a)') \in Nat
      BY <1>4, <2>2, FS_Subset, FS_CardinalityType
    <2> QED
      BY <1>1, <2>3, QuorumAssumption, CountsAssumption
  <1>6. InLog(u, a)'
    <2>1. CASE ViewOf(a) = u
      BY <2>1 DEF InLog
    <2>2. CASE ViewOf(a) # u
      <3>1. ViewOf(a) < u /\ u # 0
        BY <1>1, <2>2 DEF InLog
      <3>2. PICK s \in start_views : s.view = u
        BY <1>3, <3>1 DEF Started
      <3>3. a \preceq s.head /\ s.head \in Tips(u)
        BY <1>1, <2>2, <3>2, TipsKnown DEF InLog, SentTip
      <3>4. ASSUME NEW n \in start_views' \ start_views, n.view = u PROVE a \preceq n.head
        <4>1. Leads(r)' /\ u = view'[r] /\ n.head = HeadHeader(r)'
          BY <3>4, StepFacts
        <4>2. s.head \preceq n.head
          BY <3>3, <4>1 DEF StepOf, LogStep, Continues
        <4>3. s.head \in Prepare /\ n.head \in Prepare
          BY <3>3, <4>1, TipsKnown, TipsPreparesNow
        <4> QED
          BY <1>1, <3>3, <4>2, <4>3, BeginsFacts
      <3> QED
        BY <1>1, <2>2, <3>1, <3>4 DEF InLog, \preceq
    <2> QED
      BY <2>1, <2>2
  <1> QED
    BY <1>5, <1>6

\* What is decided stays decided, whatever crashes.
LEMMA DecidedToStays ==
    ASSUME TypeInv, TypeInv', IInv, LogInv, ViewsStarted, QuorumReplication >= 2,
           NEW r \in Replica, StepOf(r), NEW k, NEW v, DecidedTo(k, v)
    PROVE  DecidedTo(k, v)'
  BY DecidedStays, StepFacts DEF DecidedTo

-----------------------------------------------------------------------------
(* One step of replica r, and all that is safe. *)

\* Nothing changes the log of a view that is in the memory of its primary only.
HeadStays(r) ==
    /\ log_view'[r] = log_view[r] /\ r = PrimaryIndex(log_view[r]) /\ ~LogViewDurable(log_view[r])'
    => HeadHeader(r)' = HeadHeader(r)

SafeStep(r) ==
    /\ StepOf(r) /\ LeadsOn(r) /\ AcksStay(r) /\ HeadStays(r)
    /\ CleanOnDisk(r)' /\ KeepsRoot(r)' /\ HasBlanks(r)' /\ HasStarted(r)'
    /\ \A m \in do_view_changes' \ do_view_changes :
            0 \notin m.nacks /\ BlanksOf(m.headers, m.log_view)
    /\ incarnation[r] <= incarnation'[r]
    /\ \A m \in start_views' \ start_views :
            m.nonce = None \/ \E q \in Replica : m.nonce = <<q, incarnation[q]>>

DecidedStep(r) ==
    /\ KnowsDecided(r)' /\ Executed(r)' /\ committed \subseteq committed'
    /\ \A p \in prepared' \ prepared : DecidedTo(OpOf(p) - PipelineMax, ViewOf(p))'
    /\ \A m \in do_view_changes' \ do_view_changes :
            HeadersDecided(m.headers, m.log_view)' /\ DecidedTo(m.commit_min, m.log_view)'
    /\ \A m \in start_views' \ start_views :
            DecidedTo(m.commit_max, m.view)' /\ m.commit_max <= OpOf(m.head)
    /\ \A m \in commits' \ commits : DecidedTo(OpOf(m.prepare), m.view)'
    /\ \A p \in committed' \ committed : p \in prepared /\ \E f \in Paths : Decided(f, p)'

\* A step after which the replica is in a view that was started preserves ViewsStarted.
LEMMA ViewsStartedStep ==
    ASSUME TypeInv, IInv', ViewsStarted, NEW r \in Replica, StepOf(r), HasStarted(r)'
    PROVE  ViewsStarted'
  <1>1. \A v : Started(v) => Started(v)'
    BY StepFacts DEF Started
  <1>2. ASSUME NEW q \in Replica PROVE HasStarted(q)'
    <2>1. CASE q = r
      BY <2>1
    <2>2. CASE q # r
      <3>1. HasStarted(q) /\ SameAt(q)
        BY <2>2, StepFacts DEF ViewsStarted
      <3> QED
        BY <1>1, <3>1 DEF HasStarted, SameAt
    <2> QED
      BY <2>1, <2>2
  <1>3. ASSUME NEW m \in prepare_oks', m.replica # PrimaryIndex(m.view) PROVE Started(m.view)'
    <2>1. CASE m \in prepare_oks
      BY <1>1, <1>3, <2>1 DEF ViewsStarted
    <2>2. CASE m \notin prepare_oks
      <3>1. m.replica = r /\ m.view = view'[r] /\ status'[r] = "normal"
        BY <2>2, StepFacts
      <3>2. log_view'[r] = view'[r]
        BY <3>1 DEF IInv, ViewOrder
      <3> QED
        BY <1>3, <3>1, <3>2 DEF HasStarted
    <2> QED
      BY <2>1, <2>2
  <1> QED
    BY <1>2, <1>3 DEF ViewsStarted

\* What a primary in normal status acknowledged is in its log, after a step too.
LEMMA NormalFactsNow ==
    (\A r \in Replica :
        TypeInv /\ IInv /\ LogInv /\ status[r] = "normal" /\ r = PrimaryIndex(view[r])
        => \A o \in 0..op[r] : journal[r][o].header \preceq HeadHeader(r))'
  <1>1. \A r \in Replica :
            TypeInv /\ IInv /\ LogInv /\ status[r] = "normal" /\ r = PrimaryIndex(view[r])
            => \A o \in 0..op[r] : journal[r][o].header \preceq HeadHeader(r)
    BY NormalFacts
  <1> QED
    BY <1>1, PTL

\* A step that keeps the head of the log preserves OwnAcked.
LEMMA OwnAckedStep ==
    ASSUME TypeInv, TypeInv', IInv, IInv', LogInv', OwnAcked, NEW r \in Replica, StepOf(r),
           HeadStays(r)
    PROVE  OwnAcked'
  <1> SUFFICES ASSUME NEW m \in prepare_oks', NEW s, s = m.replica, s = PrimaryIndex(m.view),
                      log_view'[s] = m.view, ~LogViewDurable(m.view)'
               PROVE  m.prepare \preceq HeadHeader(s)'
    BY DEF OwnAcked, \preceq
  <1>1. s \in Replica /\ m.view \in Nat
    BY DEF IInv, SentTypes
  <1>2. CASE m \notin prepare_oks
    <2>1. /\ s = r /\ m.view = view'[r] /\ status'[r] = "normal"
          /\ journal'[r][OpOf(m.prepare)].header = m.prepare /\ OpOf(m.prepare) <= op'[r]
      BY <1>2, StepFacts
    <2>2. m.prepare \in prepared
      BY AckedWasPrepared
    <2>3. OpOf(m.prepare) \in Nat
      BY <2>2, PreparedFacts
    <2>4. op'[r] \in Nat
      BY OpFacts DEF TypeInv, LocalTypes, ReplicaTypes
    <2>5. OpOf(m.prepare) \in 0..op'[r]
      BY <2>1, <2>3, <2>4
    <2> QED
      BY <2>1, <2>5, NormalFactsNow
  <1>3. CASE m \in prepare_oks
    <2>1. ~LogViewDurable(m.view)
      <3>1. durable[s].log_view \in Nat /\ durable'[s].log_view \in Nat
        BY <1>1 DEF IInv, ViewTypes
      <3>2. durable[s].log_view <= durable'[s].log_view
        BY <1>1, StepFacts
      <3> QED
        BY <1>1, <3>1, <3>2 DEF LogViewDurable
    <2>2. m.view <= log_view[s] /\ log_view[s] \in Nat
      BY <1>1, <1>3 DEF IInv, SentOrder, ViewTypes
    <2>3. CASE s # r
      <3>1. SameAt(s)
        BY <1>1, <2>3, StepFacts
      <3>2. m.prepare \preceq HeadHeader(s)
        BY <1>3, <2>1, <3>1 DEF OwnAcked, SameAt
      <3> QED
        BY <3>1, <3>2 DEF SameAt, HeadHeader, \preceq
    <2>4. CASE s = r /\ Goes(r)
      <3>1. log_view[r] = m.view
        BY <1>1, <2>2, <2>4 DEF Goes
      <3>2. m.prepare \preceq HeadHeader(r)
        BY <1>3, <2>1, <2>4, <3>1 DEF OwnAcked
      <3>3. HeadHeader(r)' = HeadHeader(r)
        BY <2>4, <3>1 DEF HeadStays
      <3> QED
        BY <2>4, <3>2, <3>3
    <2>5. CASE s = r /\ Restarts(r)
      <3>1. durable'[r].log_view = m.view
        BY <2>5 DEF Restarts
      <3> QED
        BY <1>1, <2>5, <3>1 DEF LogViewDurable
    <2> QED
      BY <2>3, <2>4, <2>5 DEF StepOf
  <1> QED
    BY <1>2, <1>3

\* A safe step keeps the logs of the views safe.
LEMMA SafeStepKeeps ==
    ASSUME TypeInv, TypeInv', IInv, IInv', LogInv, LogInv', SafeInv, NEW r \in Replica, SafeStep(r)
    PROVE  /\ (TipsQuorum /\ SafeLogs /\ SafeInMemory /\ AckedKept /\ OwnAcked)'
           /\ (Blanks /\ RootKept /\ ViewsStarted /\ Nonces)'
           /\ \A q \in Replica : CleanOnDisk(q)'
  <1>1. StepOf(r) /\ LeadsOn(r) /\ AcksStay(r) /\ HeadStays(r)
    BY DEF SafeStep
  <1>2. ViewsStarted'
    BY <1>1, ViewsStartedStep DEF SafeInv, SafeStep
  <1>3. TipsQuorum'
    BY <1>1, TipsQuorumStep DEF SafeInv
  <1>4. SafeLogs' /\ SafeInMemory'
    BY <1>1, <1>3, SafeLogsStep, SafeInMemoryStep DEF SafeInv
  <1>5. AckedKept'
    BY <1>1, <1>2, AckedKeptStep DEF SafeInv, SafeStep
  <1>6. OwnAcked'
    BY <1>1, OwnAckedStep DEF SafeInv
  <1>7. \A q \in Replica \ {r} : SameAt(q)
    BY <1>1, StepFacts
  <1>8. \A q \in Replica : CleanOnDisk(q)' /\ KeepsRoot(q)' /\ HasBlanks(q)'
    <2>1. ASSUME NEW q \in Replica \ {r} PROVE CleanOnDisk(q)' /\ KeepsRoot(q)'
      BY <1>7 DEF SafeInv, RootKept, CleanOnDisk, KeepsRoot, SameAt
    <2>2. ASSUME NEW q \in Replica \ {r} PROVE HasBlanks(q)'
      <3>1. HasBlanks(q) /\ SameAt(q)
        BY <1>7 DEF SafeInv, Blanks
      <3> QED
        BY <3>1 DEF HasBlanks, BlanksOf, InLogView, SameAt, HeadOp
    <2> QED
      BY <2>1, <2>2 DEF SafeStep
  <1>9. \A m \in do_view_changes' : 0 \notin m.nacks /\ BlanksOf(m.headers, m.log_view)
    BY DEF SafeInv, SafeStep, Blanks, RootKept
  <1>10. Nonces'
    <2> SUFFICES ASSUME NEW m \in start_views', NEW q \in Replica, NEW i \in 1..CrashMax,
                        m.nonce = <<q, i>>
                 PROVE  i <= incarnation'[q]
      BY DEF Nonces
    <2>1. incarnation[q] \in Nat /\ incarnation'[q] \in Nat /\ CrashMax \in Nat
      BY CountsAssumption DEF TypeInv, LocalTypes, ReplicaTypes
    <2>2. incarnation[q] <= incarnation'[q]
      BY <1>7, <2>1 DEF SafeStep, SameAt
    <2>3. CASE m \in start_views
      <3>1. i <= incarnation[q]
        BY <2>3 DEF SafeInv, Nonces
      <3> QED
        BY <2>1, <2>2, <3>1
    <2>4. CASE m \notin start_views
      <3>1. m.nonce # None
        BY <2>1, NoneAssumption
      <3>2. PICK t \in Replica : m.nonce = <<t, incarnation[t]>>
        BY <2>4, <3>1 DEF SafeStep
      <3>3. i = incarnation[q]
        BY <3>2
      <3> QED
        BY <2>1, <2>2, <3>3
    <2> QED
      BY <2>3, <2>4
  <1> QED
    BY <1>2, <1>3, <1>4, <1>5, <1>6, <1>8, <1>9, <1>10 DEF Blanks, RootKept

\* A step keeps what is decided.
LEMMA DecidedStepKeeps ==
    ASSUME TypeInv, TypeInv', IInv, LogInv, SafeInv, QuorumReplication >= 2,
           NEW r \in Replica, StepOf(r), DecidedStep(r)
    PROVE  CommitsDecided' /\ \A q \in Replica : Executed(q)'
  <1>1. ViewsStarted /\ CommitsDecided /\ \A q \in Replica : Executed(q)
    BY DEF SafeInv
  <1>2. \A k, v : DecidedTo(k, v) => DecidedTo(k, v)'
    BY <1>1, DecidedToStays
  <1>3. \A q \in Replica \ {r} : SameAt(q)
    BY StepFacts
  <1>4. ASSUME NEW q \in Replica PROVE KnowsDecided(q)' /\ Executed(q)'
    <2>1. CASE q = r
      BY <2>1 DEF DecidedStep
    <2>2. CASE q # r
      <3>1. SameAt(q) /\ KnowsDecided(q) /\ Executed(q)
        BY <1>1, <1>3, <2>2 DEF CommitsDecided
      <3>2. KnowsDecided(q)'
        BY <1>2, <3>1 DEF KnowsDecided, HeadersDecided, SameAt, HeadOp
      <3>3. Executed(q)'
        BY <3>1 DEF Executed, SameAt, DecidedStep
      <3> QED
        BY <3>2, <3>3
    <2> QED
      BY <2>1, <2>2
  <1>5. MessagesDecided'
    <2>1. \A p \in prepared' : DecidedTo(OpOf(p) - PipelineMax, ViewOf(p))'
      BY <1>1, <1>2 DEF DecidedStep, CommitsDecided, MessagesDecided
    <2>2. \A m \in do_view_changes' :
              HeadersDecided(m.headers, m.log_view)' /\ DecidedTo(m.commit_min, m.log_view)'
      <3>1. \A m \in do_view_changes :
              HeadersDecided(m.headers, m.log_view)' /\ DecidedTo(m.commit_min, m.log_view)'
        BY <1>1, <1>2 DEF CommitsDecided, MessagesDecided, HeadersDecided
      <3> QED
        BY <3>1 DEF DecidedStep
    <2>3. \A m \in start_views' : DecidedTo(m.commit_max, m.view)' /\ m.commit_max <= OpOf(m.head)
      BY <1>1, <1>2 DEF DecidedStep, CommitsDecided, MessagesDecided
    <2>4. \A m \in commits' : DecidedTo(OpOf(m.prepare), m.view)'
      BY <1>1, <1>2 DEF DecidedStep, CommitsDecided, MessagesDecided
    <2> QED
      BY <2>1, <2>2, <2>3, <2>4 DEF MessagesDecided
  <1>6. CommittedDecided'
    <2> SUFFICES ASSUME NEW p \in committed'
                 PROVE  p \in prepared' /\ \E f \in Paths : Decided(f, p)'
      BY DEF CommittedDecided
    <2>1. CASE p \in committed
      <3>1. PICK f \in Paths : p \in prepared /\ Decided(f, p)
        BY <1>1, <2>1 DEF CommitsDecided, CommittedDecided
      <3> QED
        BY <1>1, <3>1, DecidedStays, StepFacts
    <2>2. CASE p \notin committed
      BY <2>2, StepFacts DEF DecidedStep
    <2> QED
      BY <2>1, <2>2
  <1> QED
    BY <1>4, <1>5, <1>6 DEF CommitsDecided

\* A safe step preserves the invariant: the parts of SafeInv, one by one.
LEMMA SafeStepInv ==
    ASSUME TypeInv, TypeInv', IInv, IInv', LogInv, LogInv', SafeInv, QuorumReplication >= 2,
           NEW r \in Replica, SafeStep(r), DecidedStep(r)
    PROVE  SafeInv'
  <1>1. StepOf(r)
    BY DEF SafeStep
  <1> QED
    BY <1>1, SafeStepKeeps, DecidedStepKeeps DEF SafeInv

-----------------------------------------------------------------------------
(* The steps of a replica. *)

LeavesView(r) ==
    \E v \in View : /\ ViewChangeTo(r, v) /\ view[r] < v
                    /\ status[r] \in {"normal", "view_change"}

Answers(r) ==
    \E nonce \in {None} \cup {<<q, incarnation[q]>> : q \in Replica} :
        PrimarySendStartView(r, nonce)

\* Those that keep to the log there is, and those that do not even look at it.
CommitStep(r) ==
    PrimaryCommit(r) \/ SendCommit(r) \/ CommitJournal(r) \/ \E m \in commits : OnCommit(r, m)
RepairStep(r) == \E p \in prepared : RepairHeader(r, p) \/ OnRepair(r, p)
WriteStep(r) == \E o \in Op : WriteDone(r, o)
StepWithoutCrash(r) ==
    \/ OnRequest(r) \/ \E p \in prepared : OnPrepare(r, p)
    \/ CommitStep(r) \/ RepairStep(r) \/ WriteStep(r)
    \/ LeavesView(r) \/ DoViewChangeTimeout(r) \/ OnDoViewChange(r)
    \/ Answers(r) \/ StartViewAsTheNewPrimary(r)
    \/ \E m \in start_views : OnStartView(r, m)
    \/ ViewDurableUpdate(r)

\* The steps of a replica.
LEMMA StepCases ==
    ASSUME TypeInv, NEW r \in Replica, ReplicaStep(r)
    PROVE  StepWithoutCrash(r)
  <1>1. CASE OnStartViewChange(r)
    <2>1. view[r] + 1 \in View /\ view[r] < view[r] + 1
      BY <1>1, CountsAssumption DEF OnStartViewChange, TypeInv, LocalTypes, ReplicaTypes, View
    <2>2. LeavesView(r)
      BY <1>1, <2>1 DEF OnStartViewChange, LeavesView
    <2> QED
      BY <2>2 DEF StepWithoutCrash
  <1>2. CASE \E q \in Replica : JumpView(r, q)
    <2>1. PICK q \in Replica : JumpView(r, q)
      BY <1>2
    <2>2. durable[q].view \in View
      BY DEF TypeInv, LocalTypes, HeadersTypes
    <2>3. LeavesView(r)
      BY <2>1, <2>2 DEF JumpView, LeavesView
    <2> QED
      BY <2>3 DEF StepWithoutCrash
  <1>3. CASE (\E q \in Replica : OnRequestStartView(r, q)) \/ RepairSendStartView(r)
    <2>1. Answers(r)
      BY <1>3 DEF OnRequestStartView, RepairSendStartView, Answers
    <2> QED
      BY <2>1 DEF StepWithoutCrash
  <1>4. CASE ~OnStartViewChange(r) /\ ~(\E q \in Replica : JumpView(r, q))
             /\ ~((\E q \in Replica : OnRequestStartView(r, q)) \/ RepairSendStartView(r))
    BY <1>4, Zenon DEF ReplicaStep, StepWithoutCrash, CommitStep, RepairStep, WriteStep
  <1> QED
    BY <1>1, <1>2, <1>3, <1>4

\* What the proofs about the logs of one view say of a step.
LEMMA StepIsLogStep ==
    ASSUME TypeInv, TypeInv', IInv, IInv', LogInv, NEW r \in Replica, StepWithoutCrash(r)
    PROVE  Others(r) /\ LogStep(r) /\ GoodStep(r)
  <1>1. CASE OnRequest(r) \/ CommitStep(r)
    BY <1>1, OnRequestLogStep, CommitLogStep, LogStepsOthers, LogSteps DEF CommitStep
  <1>2. CASE \E p \in prepared : OnPrepare(r, p)
    BY <1>2, OnPrepareLogStep, LogStepsOthers, LogSteps
  <1>3. CASE RepairStep(r)
    BY <1>3, RepairLogStep, LogStepsOthers, LogSteps, OnRepairStep DEF RepairStep
  <1>4. CASE WriteStep(r)
    BY <1>4, RepairLogStep, LogStepsOthers, WriteDoneStep DEF WriteStep
  <1>5. CASE LeavesView(r)
    <2>1. PICK v \in View : /\ ViewChangeTo(r, v) /\ view[r] < v
                            /\ status[r] \in {"normal", "view_change"}
      BY <1>5 DEF LeavesView
    <2>2. v \in Nat
      BY CountsAssumption DEF View
    <2> QED
      BY <2>1, <2>2, ViewChangeToLogStep, ViewStepsOthers, ViewChangeToStep
  <1>6. CASE DoViewChangeTimeout(r)
    BY <1>6, DoViewChangeTimeoutLogStep, ViewStepsOthers, DoViewChangeTimeoutStep
  <1>7. CASE OnDoViewChange(r)
    BY <1>7, OnDoViewChangeLogStep, ViewStepsOthers, OnDoViewChangeStep
  <1>8. CASE Answers(r)
    BY <1>8, PrimarySendStartViewLogStep, ViewStepsOthers, PrimarySendStartViewStep DEF Answers
  <1>9. CASE StartViewAsTheNewPrimary(r)
    BY <1>9, StartViewAsTheNewPrimaryLogStep, ViewStepsOthers, StartViewAsTheNewPrimaryStep
  <1>10. CASE \E m \in start_views : OnStartView(r, m)
    BY <1>10, OnStartViewLogStep, ViewStepsOthers, OnStartViewStep
  <1>11. CASE ViewDurableUpdate(r)
    <2>1. GoodStep(r)
      BY <1>11, ViewDurableUpdateStep
    <2>2. DurableGrows
      BY <2>1 DEF GoodStep
    <2> QED
      BY <1>11, <2>1, <2>2, ViewDurableUpdateLogStep, ViewStepsOthers
  <1> QED
    BY <1>1, <1>2, <1>3, <1>4, <1>5, <1>6, <1>7, <1>8, <1>9, <1>10, <1>11, Zenon DEF StepWithoutCrash

\* A replica acknowledges what it has, clean, in the view whose log it has.
LEMMA PrepareOksFacts ==
    ASSUME NEW r \in Replica, NEW S, NEW m \in PrepareOks(r, S)
    PROVE  LET o == OpOf(m.prepare)
           IN /\ journal[r][o].header = m.prepare /\ ~journal[r][o].dirty /\ o <= op[r]
              /\ m.replica = r /\ m.view = view[r] /\ status[r] = "normal"
              /\ r = PrimaryIndex(view[r]) \/ ViewDurable(r)
              /\ m.prepare \in S
  BY DEF PrepareOks, HasPrepare

\* Every step but a crash goes on in the log or takes a later one.
LEMMA StepGoes ==
    ASSUME TypeInv, TypeInv', IInv, IInv', LogInv, NEW r \in Replica, StepWithoutCrash(r)
    PROVE  Goes(r)
  <1> DEFINE Sound(m) == LET o == OpOf(m.prepare)
                         IN journal'[r][o].header = m.prepare /\ ~journal'[r][o].dirty /\ o <= op'[r]
  <1>1. \A S : \A m \in PrepareOks(r, S)' : Sound(m)
    BY DEF PrepareOks, HasPrepare
  <1>2. \A S : \A m \in PrepareOks(r, S) :
            LET o == OpOf(m.prepare)
            IN journal[r][o].header = m.prepare /\ ~journal[r][o].dirty /\ o <= op[r]
    BY PrepareOksFacts
  <1>3. log_view[r] \in Nat /\ view[r] \in Nat /\ log_view[r] <= view[r]
    BY DEF IInv, ViewTypes, ViewOrder
  <1>4. \A m, p : m \in PrepareOks(r, {p})' => Sound(m)
    BY DEF PrepareOks, HasPrepare
  <1>5. \A m : m \in PrepareOks(r, Uncommitted(r))' => Sound(m)
    BY DEF PrepareOks, HasPrepare
  <1>10. CASE OnRequest(r)
    BY <1>10, <1>3 DEF OnRequest, viewVars, Goes
  <1>11. CASE \E p \in prepared : OnPrepare(r, p)
    BY <1>11, <1>3 DEF OnPrepare, viewVars, netVars, Goes
  <1>12. CASE CommitStep(r)
    BY <1>12, <1>3 DEF CommitStep, PrimaryCommit, SendCommit, CommitJournal, OnCommit, viewVars, netVars, Goes
  <1>13. CASE RepairStep(r)
    <2>1. PICK p \in prepared : RepairHeader(r, p) \/ OnRepair(r, p)
      BY <1>13 DEF RepairStep
    <2>2. CASE RepairHeader(r, p)
      BY <2>2, <1>3 DEF RepairHeader, viewVars, netVars, Goes
    <2>3. CASE OnRepair(r, p)
      <3>1. UNCHANGED <<log_view, prepared, start_views, op>>
        BY <2>3 DEF OnRepair, viewVars
      <3>2. prepare_oks' = prepare_oks \/ (prepare_oks' = prepare_oks \cup PrepareOks(r, {p}) /\ journal' = journal)
        BY <2>3 DEF OnRepair
      <3> QED
        BY <1>2, <1>3, <3>1, <3>2 DEF Goes
    <2> QED
      BY <2>1, <2>2, <2>3
  <1>14. CASE WriteStep(r)
    <2>1. PICK o \in Op : WriteDone(r, o)
      BY <1>14 DEF WriteStep
    <2>2. UNCHANGED <<log_view, prepared, start_views>>
      BY <2>1 DEF WriteDone, viewVars
    <2>3. PICK p : \/ prepare_oks' = prepare_oks
                   \/ prepare_oks' = prepare_oks \cup PrepareOks(r, {p})'
      BY <2>1 DEF WriteDone
    <2>4. \A m \in prepare_oks' \ prepare_oks : Sound(m)
      BY <1>4, <2>3
    <2>5. /\ log_view[r] <= log_view'[r] /\ prepare_oks \subseteq prepare_oks'
      BY <1>3, <2>2, <2>3
    <2> QED
      BY <2>2, <2>4, <2>5 DEF Goes
  <1>15. CASE LeavesView(r) \/ DoViewChangeTimeout(r)
    BY <1>15, <1>3 DEF LeavesView, ViewChangeTo, DoViewChangeTimeout, viewVars, Goes
  <1>16. CASE OnDoViewChange(r)
    <2>1. log_view'[r] = view[r] /\ UNCHANGED netVars
      <3>1. PICK x : log_view' = [log_view EXCEPT ![r] = view[r]]
        BY <1>16 DEF OnDoViewChange
      <3> QED
        BY <1>16, <3>1 DEF OnDoViewChange, IInv, ViewTypes
    <2> QED
      BY <1>3, <2>1 DEF Goes, netVars
  <1>17. CASE Answers(r)
    <2>1. PICK nonce : PrimarySendStartView(r, nonce)
      BY <1>17 DEF Answers
    <2>2. /\ UNCHANGED <<status, view, log_view, dvc_quorum, journal, op, prepared, prepare_oks>>
          /\ start_views' \in {start_views, start_views \cup {StartView(r, nonce)}}
      BY <2>1 DEF PrimarySendStartView, logVars
    <2>3. Leads(r)
      BY <2>1, NormalFacts DEF PrimarySendStartView, Leads
    <2>4. Leads(r)' /\ HeadHeader(r)' = HeadHeader(r)
      BY <2>2, <2>3 DEF Leads, InLogView, HeadHeader
    <2> QED
      BY <1>3, <2>2, <2>4 DEF Goes, StartView
  <1>18. CASE StartViewAsTheNewPrimary(r)
    BY <1>18, <1>3, <1>5 DEF StartViewAsTheNewPrimary, Goes
  <1>19. CASE \E m \in start_views : OnStartView(r, m)
    <2>1. PICK m \in start_views : OnStartView(r, m)
      BY <1>19
    <2>2. /\ log_view' = [log_view EXCEPT ![r] = m.view] /\ m.view >= view[r] /\ m.view \in Nat
          /\ UNCHANGED <<prepared, start_views>>
          /\ \/ prepare_oks' = prepare_oks
             \/ prepare_oks' = prepare_oks \cup PrepareOks(r, Uncommitted(r))'
      BY <2>1 DEF OnStartView, AcceptsStartView, IInv, ViewTypes
    <2>3. log_view'[r] = m.view
      BY <2>2 DEF IInv, ViewTypes
    <2> QED
      BY <1>3, <1>5, <2>2, <2>3 DEF Goes
  <1>20. CASE ViewDurableUpdate(r)
    <2>1. /\ UNCHANGED <<status, view, log_view, dvc_quorum, journal, op, prepared>>
          /\ \/ prepare_oks' = prepare_oks
             \/ prepare_oks' = prepare_oks \cup PrepareOks(r, Uncommitted(r))'
          /\ \/ start_views' = start_views
             \/ /\ start_views' = start_views \cup {StartView(r, None)}
                /\ log_view[r] = view[r] /\ r = PrimaryIndex(view[r])
          /\ status[r] # "recovering_head"
      BY <1>20 DEF ViewDurableUpdate, viewVars, logVars
    <2>2. log_view[r] = view[r] /\ r = PrimaryIndex(view[r]) => Leads(r)
      BY <2>1 DEF Leads, InLogView, LogInv, HeadersOfView, TypeInv, LocalTypes, ReplicaTypes
    <2>3. HeadHeader(r)' = HeadHeader(r) /\ (Leads(r) => Leads(r)')
      BY <2>1 DEF Leads, InLogView, HeadHeader
    <2> QED
      BY <1>3, <1>5, <2>1, <2>2, <2>3 DEF Goes, StartView
  <1> QED
    BY <1>10, <1>11, <1>12, <1>13, <1>14, <1>15, <1>16, <1>17, <1>18, <1>19, <1>20, Zenon
       DEF StepWithoutCrash

\* A crash takes the replica back to its superblock.
LEMMA CrashRestarts ==
    ASSUME TypeInv, TypeInv', IInv, IInv', LogInv, NEW r \in Replica, Crash(r)
    PROVE  Restarts(r) /\ StepOf(r)
  <1>1. PICK retires \in BOOLEAN : Restarted(r, retires)
    BY CrashFacts
  <1>2. /\ prepare_oks' = prepare_oks \ OwnPrepareOks(r)
        /\ UNCHANGED <<durable, prepared, start_views>>
    BY CrashFacts
  <1>3. view'[r] \in {durable[r].view, durable[r].view + 1} /\ log_view'[r] = durable[r].log_view
    BY <1>1 DEF Restarted
  <1>4. ~Leads(r)'
    <2>1. CASE status'[r] = "normal"
      <3>1. r # PrimaryIndex(durable[r].view) /\ view'[r] = durable[r].view
        BY <1>1, <2>1 DEF Restarted
      <3> QED
        BY <3>1 DEF Leads
    <2>2. CASE status'[r] # "normal"
      BY <1>1, <2>2 DEF Leads, Restarted
    <2> QED
      BY <2>1, <2>2
  <1>5. Restarts(r)
    BY <1>2, <1>3, <1>4 DEF Restarts
  <1>6. LogStep(r) /\ Others(r) /\ GoodStep(r)
    BY CrashLogStep, ViewStepsOthers, CrashStep
  <1> QED
    BY <1>5, <1>6 DEF StepOf

\* Every step of a replica is a StepOf it: what the rest of the module reasons about.
LEMMA EveryStepOf ==
    ASSUME TypeInv, TypeInv', IInv, IInv', LogInv, NEW r \in Replica,
           StepWithoutCrash(r) \/ Crash(r)
    PROVE  StepOf(r)
  BY StepIsLogStep, StepGoes, CrashRestarts DEF StepOf

-----------------------------------------------------------------------------
(* The head of the log, over a step. *)

KeepsLog(r) ==
    \/ CommitStep(r) \/ RepairStep(r) \/ WriteStep(r) \/ LeavesView(r)
    \/ DoViewChangeTimeout(r) \/ Answers(r) \/ StartViewAsTheNewPrimary(r) \/ ViewDurableUpdate(r)

\* A repair is of the log there is.
LEMMA RepairFacts ==
    ASSUME TypeInv, LogInv, NEW r \in Replica, RepairStep(r)
    PROVE  /\ UNCHANGED <<viewVars, durable, op, commitVars, disk, incarnation>>
           /\ UNCHANGED <<prepared, do_view_changes, start_views, commits>>
           /\ status[r] = "normal" \/ dvc_quorum[r]
           /\ \/ UNCHANGED <<journal, writing>>
              \/ \E p \in prepared :
                    /\ OpOf(p) <= op[r] /\ p = Ancestor(HeadHeader(r), OpOf(p)) /\ OpOf(p) \in Op
                    /\ ~HasPrepare(r, p) /\ p \in Prepare
                    /\ journal' = [journal EXCEPT ![r][OpOf(p)] = SetHeader(@, p)]
                    /\ \/ writing' = writing
                       \/ writing' = [writing EXCEPT ![r][OpOf(p)] = p]
  <1>1. PICK p \in prepared : RepairHeader(r, p) \/ OnRepair(r, p)
    BY DEF RepairStep
  <1>2. /\ UNCHANGED <<viewVars, durable, op, commitVars, disk, incarnation>>
        /\ UNCHANGED <<prepared, do_view_changes, start_views, commits>>
        /\ status[r] = "normal" \/ dvc_quorum[r]
    BY <1>1 DEF RepairHeader, OnRepair, RepairsAllowed, netVars, diskVars
  <1>3. UNCHANGED <<journal, writing>>
        \/ (/\ RepairsHeader(r, p)
            /\ journal' = [journal EXCEPT ![r][OpOf(p)] = SetHeader(@, p)]
            /\ \/ writing' = writing
               \/ writing' = [writing EXCEPT ![r][OpOf(p)] = p])
    <2>1. CASE RepairHeader(r, p)
      BY <2>1 DEF RepairHeader, diskVars
    <2>2. CASE OnRepair(r, p)
      BY <2>2 DEF OnRepair, WritePrepare
    <2> QED
      BY <1>1, <2>1, <2>2
  <1>4. CASE RepairsHeader(r, p)
    <2>1. OpOf(p) <= op[r] /\ p = Ancestor(HeadHeader(r), OpOf(p)) /\ OpOf(p) \in Op
      BY <1>4, RepairsOwnLog
    <2>2. ~HasPrepare(r, p) /\ p \in Prepare
      BY <1>4, KnownFacts DEF RepairsHeader
    <2> QED
      BY <1>2, <1>3, <2>1, <2>2
  <1> QED
    BY <1>2, <1>3, <1>4

\* A write that completes cleans the slot only if it still is the prepare of the slot.
LEMMA WriteFacts ==
    ASSUME TypeInv, NEW r \in Replica, NEW o \in Op, WriteDone(r, o)
    PROVE  /\ UNCHANGED <<viewVars, durable, op, commitVars, incarnation>>
           /\ UNCHANGED <<prepared, do_view_changes, start_views, commits>>
           /\ \A k \in Op \ {o} : /\ journal'[r][k] = journal[r][k] /\ disk'[r][k] = disk[r][k]
                                  /\ writing'[r][k] = writing[r][k]
           /\ journal'[r][o].header = journal[r][o].header
           /\ writing[r][o] # None /\ disk'[r][o] = writing[r][o] /\ writing'[r][o] = None
           /\ writing[r][o] \in Prepare /\ OpOf(writing[r][o]) = o /\ writing[r][o] # Root
           /\ journal[r][o].header = writing[r][o] => journal'[r][o] = CleanSlot(writing[r][o])
           /\ journal[r][o].header # writing[r][o] =>
                journal'[r][o].dirty /\ journal'[r][o].faulty = journal[r][o].faulty
  <1>1. PICK p : /\ p = writing[r][o] /\ p # None
                 /\ disk' = [disk EXCEPT ![r][o] = p]
                 /\ writing' = [writing EXCEPT ![r][o] = None]
                 /\ journal' = [journal EXCEPT ![r][o] =
                                  IF @.header = p THEN CleanSlot(p) ELSE [@ EXCEPT !.dirty = TRUE]]
    BY DEF WriteDone
  <1>2. /\ UNCHANGED <<viewVars, durable, op, commitVars, incarnation>>
        /\ UNCHANGED <<prepared, do_view_changes, start_views, commits>>
    BY DEF WriteDone
  <1>3. /\ journal[r] \in [Op -> Slot] /\ writing[r] \in [Op -> Prepare \cup {None}]
        /\ disk[r] \in [Op -> Prepare \cup {None, Torn, Rotten}]
        /\ journal = [q \in Replica |-> journal[q]] /\ disk = [q \in Replica |-> disk[q]]
        /\ writing = [q \in Replica |-> writing[q]]
        /\ writing[r][o] \in HeadersOf(o) \ {Root}
    BY DEF TypeInv, Functions, LocalTypes, JournalTypes, DiskTypes
  <1>4. p \in Prepare /\ OpOf(p) = o /\ p # Root
    BY <1>1, <1>3, KnownFacts DEF HeadersOf
  <1>5. \A k \in Op \ {o} : /\ journal'[r][k] = journal[r][k] /\ disk'[r][k] = disk[r][k]
                            /\ writing'[r][k] = writing[r][k]
    BY <1>1, <1>3
  <1>6. disk'[r][o] = p /\ writing'[r][o] = None
    BY <1>1, <1>3
  <1>7. journal'[r][o] = IF journal[r][o].header = p THEN CleanSlot(p)
                         ELSE [journal[r][o] EXCEPT !.dirty = TRUE]
    BY <1>1, <1>3
  <1>8. journal[r][o] \in Slot
    BY <1>3
  <1>9. journal'[r][o].header = journal[r][o].header
    BY <1>4, <1>7, <1>8, SlotFacts
  <1>10. journal[r][o].header # p =>
            journal'[r][o].dirty /\ journal'[r][o].faulty = journal[r][o].faulty
    BY <1>7, <1>8 DEF Slot
  <1> QED
    BY <1>1, <1>2, <1>4, <1>5, <1>6, <1>7, <1>9, <1>10

\* The head of a log that a step keeps.
LEMMA HeadKept ==
    ASSUME TypeInv, LogInv, NEW r \in Replica, KeepsLog(r)
    PROVE  /\ log_view'[r] = log_view[r] /\ op'[r] = op[r] /\ HeadHeader(r)' = HeadHeader(r)
           /\ ~RepairStep(r) => \A o \in Op : journal'[r][o].header = journal[r][o].header
  <1>1. CASE CommitStep(r)
    BY <1>1 DEF CommitStep, PrimaryCommit, SendCommit, CommitJournal, OnCommit, viewVars, logVars,
                HeadHeader
  <1>2. CASE RepairStep(r)
    <2>1. UNCHANGED <<log_view, op>>
      BY <1>2, RepairFacts DEF viewVars
    <2>2. CASE journal' = journal
      BY <1>2, <2>1, <2>2 DEF HeadHeader
    <2>3. CASE journal' # journal
      <3>1. PICK p \in prepared :
                    /\ p = Ancestor(HeadHeader(r), OpOf(p)) /\ OpOf(p) \in Op
                    /\ p \in Prepare
                    /\ journal' = [journal EXCEPT ![r][OpOf(p)] = SetHeader(@, p)]
        BY <1>2, <2>3, RepairFacts
      <3>2. /\ journal'[r][OpOf(p)].header = p
            /\ \A o \in Op \ {OpOf(p)} : journal'[r][o] = journal[r][o]
        BY <3>1, JournalAfterSet
      <3>3. OpOf(p) = op[r] => p = HeadHeader(r)
        BY <3>1, HeadFacts, AncestorOfAncestor
      <3> QED
        BY <1>2, <2>1, <3>2, <3>3, HeadFacts DEF HeadHeader
    <2> QED
      BY <2>2, <2>3
  <1>3. CASE WriteStep(r)
    <2>1. PICK k \in Op : WriteDone(r, k)
      BY <1>3 DEF WriteStep
    <2>2. /\ UNCHANGED <<log_view, op>>
          /\ \A o \in Op : journal'[r][o].header = journal[r][o].header
      BY <2>1, WriteFacts DEF viewVars
    <2> QED
      BY <2>2, HeadFacts DEF HeadHeader
  <1>4. CASE \/ LeavesView(r) \/ DoViewChangeTimeout(r) \/ Answers(r)
             \/ StartViewAsTheNewPrimary(r) \/ ViewDurableUpdate(r)
    <2>1. UNCHANGED <<log_view, op, journal>>
      BY <1>4 DEF LeavesView, ViewChangeTo, DoViewChangeTimeout, Answers, PrimarySendStartView,
                  StartViewAsTheNewPrimary, ViewDurableUpdate, viewVars, logVars
    <2> QED
      BY <2>1 DEF HeadHeader
  <1> QED
    BY <1>1, <1>2, <1>3, <1>4 DEF KeepsLog

\* The four actions that may change the head of a log, and the others, that keep it.
LEMMA CasesOfLog ==
    ASSUME NEW r, StepWithoutCrash(r)
    PROVE  \/ KeepsLog(r) \/ OnRequest(r) \/ \E p \in prepared : OnPrepare(r, p)
           \/ OnDoViewChange(r) \/ \E m \in start_views : OnStartView(r, m)
  BY Zenon DEF StepWithoutCrash, KeepsLog

\* The log of a view grows at its primary, once the view is durable; but for the first of them.
LEMMA EveryLeadsOn ==
    ASSUME TypeInv, TypeInv', IInv, IInv', LogInv, NEW r \in Replica,
           StepWithoutCrash(r) \/ Crash(r), OnDoViewChange(r) => NewLog(r)
    PROVE  LeadsOn(r) /\ HeadStays(r)
  <1>1. /\ HeadHeader(r) \in Tips(log_view[r])
        /\ status[r] = "normal" => log_view[r] = view[r]
    BY TipsKnown, NormalFacts DEF HasTip, InLogView
  <1>2. CASE KeepsLog(r)
    <2>1. log_view'[r] = log_view[r] /\ HeadHeader(r)' = HeadHeader(r)
      BY <1>2, HeadKept
    <2>2. Leads(r)' => log_view'[r] = view'[r]
      BY DEF Leads, InLogView
    <2> QED
      BY <1>1, <2>1, <2>2 DEF LeadsOn, HeadStays
  <1>3. CASE OnRequest(r)
    <2>1. ViewDurable(r) /\ r = PrimaryIndex(view[r]) /\ UNCHANGED <<view, log_view, durable>>
          /\ log_view[r] = view[r]
      BY <1>1, <1>3 DEF OnRequest, viewVars
    <2>2. durable'[r].log_view = view'[r] /\ view'[r] \in Nat
      BY <2>1 DEF ViewDurable, IInv, ViewTypes
    <2>3. LogViewDurable(view[r])' /\ LogViewDurable(log_view[r])'
      BY <2>1, <2>2 DEF LogViewDurable
    <2> QED
      BY <1>1, <2>1, <2>3 DEF LeadsOn, HeadStays
  <1>4. CASE \E p \in prepared : OnPrepare(r, p)
    <2>1. r # PrimaryIndex(view[r]) /\ UNCHANGED <<view, log_view>> /\ log_view[r] = view[r]
      BY <1>1, <1>4 DEF OnPrepare, viewVars
    <2> QED
      BY <2>1 DEF LeadsOn, HeadStays, Leads
  <1>5. CASE OnDoViewChange(r)
    <2>1. log_view'[r] = view[r] /\ log_view[r] < view[r]
      <3>1. PICK x : log_view' = [log_view EXCEPT ![r] = view[r]]
        BY <1>5 DEF OnDoViewChange
      <3> QED
        BY <1>5, <3>1 DEF OnDoViewChange, IInv, ViewTypes
    <2>2. log_view[r] \in Nat /\ view[r] \in Nat
      BY DEF IInv, ViewTypes
    <2> QED
      BY <1>5, <2>1, <2>2 DEF LeadsOn, HeadStays
  <1>6. CASE \E m \in start_views : OnStartView(r, m)
    <2>1. PICK m \in start_views : OnStartView(r, m)
      BY <1>6
    <2>2. r # PrimaryIndex(m.view) /\ view'[r] = m.view /\ log_view'[r] = m.view
      BY <2>1 DEF OnStartView, AcceptsStartView, IInv, ViewTypes
    <2> QED
      BY <2>2 DEF LeadsOn, HeadStays, Leads
  <1>7. CASE Crash(r)
    <2>1. ~Leads(r)' /\ log_view'[r] = durable'[r].log_view
      BY <1>7, CrashRestarts DEF Restarts
    <2>2. log_view'[r] \in Nat
      BY DEF IInv, ViewTypes
    <2> QED
      BY <2>1, <2>2 DEF LeadsOn, HeadStays, LogViewDurable
  <1> QED
    BY <1>2, <1>3, <1>4, <1>5, <1>6, <1>7, CasesOfLog

-----------------------------------------------------------------------------
(* What a replica acknowledged, and its log. *)

AckInv ==
    TypeInv /\ IInv /\ LogInv /\ SafeLogs /\ SafeInMemory /\ AckedKept /\ OwnAcked /\ Blanks
    /\ RootKept /\ ViewsStarted /\ Nonces

\* What a replica acknowledged is of the log it has now.
LEMMA AckedInLog ==
    ASSUME AckInv, NEW r \in Replica, NEW p \in prepared, NEW f \in Paths,
           r \in Acked(f[OpOf(p)], p), Alive(Nobody, f, p)
    PROVE  /\ f[OpOf(p)] <= log_view[r]
           /\ log_view[r] <= durable[r].view => Alive(r, f, p)
           /\ f[OpOf(p)] < durable[r].view => Alive(r, f, p)
           /\ \A t \in Tips(log_view[r]) : f[OpOf(p)] < log_view[r] => Comparable(p, t)
           /\ \A w \in View : f[OpOf(p)] < w /\ LogViewDurable(w) =>
                \A t \in Tips(w) : p \preceq t
           /\ status[r] # "recovering_head" =>
                /\ Comparable(p, HeadHeader(r))
                /\ f[OpOf(p)] = log_view[r] \/ LogViewDurable(log_view[r]) => p \preceq HeadHeader(r)
  <1> DEFINE u == f[OpOf(p)]
             lv == log_view[r]
  <1>1. TypeInv /\ IInv /\ LogInv
    BY DEF AckInv
  <1>2. PICK m \in prepare_oks : m.replica = r /\ m.view = u /\ m.prepare = p
    BY DEF Acked
  <1>3. /\ u \in Nat /\ u \in View /\ lv \in Nat /\ lv \in View /\ u <= lv
        /\ durable[r].view \in Nat /\ durable[r].log_view \in Nat
        /\ durable[r].log_view <= durable[r].view
        /\ PrimaryIndex(lv) \in Replica /\ durable[PrimaryIndex(lv)].log_view \in Nat
        /\ \A i \in 1..OpOf(p) : f[i] \in Nat /\ f[i] <= u
    <2>1. u \in Nat /\ u \in View /\ \A i \in 1..OpOf(p) : f[i] \in Nat /\ f[i] <= u
      BY <1>1, PathFacts DEF Alive
    <2>2. lv \in Nat /\ lv \in View /\ PrimaryIndex(lv) \in Replica
      BY <1>1, PrimaryIsReplica DEF IInv, ViewTypes, TypeInv, LocalTypes, ReplicaTypes
    <2> QED
      BY <1>1, <1>2, <2>1, <2>2 DEF IInv, ViewTypes, ViewOrder, SentOrder
  <1>4. HeadHeader(r) \in Tips(lv) /\ HeadHeader(r) \in Prepare /\ p \in Prepare
    BY <1>1, TipsKnown, HeadFacts, PreparedFacts DEF HasTip
  <1>5. ASSUME lv <= durable[r].view \/ u < durable[r].view PROVE Alive(r, f, p)
    <2>1. \A i \in 1..OpOf(p) : \A s \in Replica : Left(r, s, f[i]) => Left(Nobody, s, f[i])
      BY <1>3, <1>5 DEF Left
    <2> QED
      BY <1>1, <2>1, AliveWithMore
  <1>6. ASSUME NEW w \in View, u < w, LogViewDurable(w), NEW t \in Tips(w) PROVE p \preceq t
    <2>1. Alive(PrimaryIndex(w), f, p)
      BY <1>1, <1>6, AliveFacts
    <2> QED
      BY <1>6, <2>1 DEF AckInv, SafeLogs
  <1>7. ASSUME u < lv, NEW t \in Tips(lv) PROVE Comparable(p, t)
    <2>1. CASE LogViewDurable(lv)
      BY <1>3, <1>6, <1>7, <2>1 DEF Comparable
    <2>2. CASE ~LogViewDurable(lv)
      <3>1. r = PrimaryIndex(lv)
        BY <1>1, <2>2 DEF LogInv, TipsDurable, LogViewsDurable
      <3> QED
        BY <1>3, <1>7, <2>2, <3>1 DEF AckInv, SafeInMemory
    <2> QED
      BY <2>1, <2>2
  <1>8. ASSUME status[r] # "recovering_head", u = lv PROVE p \preceq HeadHeader(r)
    <2>1. CASE u <= durable[r].view
      <3>1. Alive(r, f, p)
        BY <1>5, <1>8, <2>1
      <3> QED
        BY <1>8, <3>1 DEF AckInv, AckedKept, InMemory
    <2>2. CASE ~(u <= durable[r].view)
      <3>1. r = PrimaryIndex(u)
        <4>1. r # PrimaryIndex(u) => u <= durable[r].log_view
          BY <1>1, <1>2 DEF IInv, AdvertisedDurable
        <4> QED
          BY <1>3, <2>2, <4>1
      <3>2. ~LogViewDurable(u)
        BY <1>3, <2>2, <3>1 DEF LogViewDurable
      <3> QED
        BY <1>2, <1>8, <3>1, <3>2 DEF AckInv, OwnAcked
    <2> QED
      BY <2>1, <2>2
  <1>9. CASE u = lv
    BY <1>3, <1>5, <1>6, <1>8, <1>9 DEF Comparable
  <1>10. CASE u < lv
    BY <1>3, <1>4, <1>5, <1>6, <1>7, <1>10
  <1> QED
    BY <1>3, <1>9, <1>10

\* A DVC has all in it that the replica acknowledged, as long as that is in the log.
LEMMA VoteOfAcked ==
    ASSUME TypeInv, IInv, LogInv, NEW r \in Replica, ~InLogView(r), status[r] # "recovering_head",
           NEW p \in prepared, NEW f, InMemory(r, f, p)
    PROVE  LET m == DoViewChange(r)
           IN p \preceq m.headers[m.op] /\ OpOf(p) \notin m.nacks
  <1> DEFINE h == view_headers[r].headers
             o == OpOf(p)
             slot == journal[r][OpOf(p)]
  <1>1. /\ HeadHeader(r) = ViewHead(view_headers[r]) /\ OfOneLog(h)
        /\ p \preceq HeadHeader(r)
        /\ \/ slot.header = p /\ (slot.dirty => slot.faulty)
           \/ slot.header = None /\ slot.faulty
    BY DEF LogInv, HeadersOfView, InMemory
  <1>2. DoViewChange(r).op = HeadOp(h) /\ DoViewChange(r).headers = h
    BY DEF DoViewChange
  <1>3. p # None
    BY KnownFacts
  <1>4. o \in DOMAIN h => h[o] \in {None, p}
    BY <1>1 DEF OfOneLog, ViewHead, \preceq
  <1>5. o \notin DoViewChange(r).nacks
    BY <1>1, <1>3, <1>4 DEF DoViewChange
  <1> QED
    BY <1>1, <1>2, <1>5 DEF ViewHead

\* After a step: a replica that has what it acknowledged says so in its DVC, and does not nack.
LEMMA VoteOfAckedNow ==
    (\A r \in Replica : \A p, f :
        /\ TypeInv /\ IInv /\ LogInv /\ ~InLogView(r) /\ status[r] # "recovering_head"
        /\ p \in prepared /\ InMemory(r, f, p)
        => LET m == DoViewChange(r)
           IN p \preceq m.headers[m.op] /\ OpOf(p) \notin m.nacks)'
  <1>1. \A r \in Replica : \A p, f :
            /\ TypeInv /\ IInv /\ LogInv /\ ~InLogView(r) /\ status[r] # "recovering_head"
            /\ p \in prepared /\ InMemory(r, f, p)
            => LET m == DoViewChange(r)
               IN p \preceq m.headers[m.op] /\ OpOf(p) \notin m.nacks
    BY VoteOfAcked
  <1> QED
    BY <1>1, PTL

\* What the step of a replica does to its disk, its memory and its votes.
DiskStays(r) ==
    \A p \in prepared, f \in Paths :
        r \in Acked(f[OpOf(p)], p) /\ Alive(Nobody, f, p) /\ OnDisk(r, f, p) => OnDisk(r, f, p)'
MemoryStays(r) ==
    \A p \in prepared, f \in Paths :
        /\ r \in Acked(f[OpOf(p)], p) /\ Alive(r, f, p) /\ Alive(r, f, p)' /\ InMemory(r, f, p)
        => InMemory(r, f, p)'
NewVotes(r) ==
    \A m \in do_view_changes' \ do_view_changes :
        m = DoViewChange(r)' /\ ~InLogView(r)' /\ status'[r] # "recovering_head"

\* A step that keeps the disk, the memory and the votes keeps what was acknowledged.
LEMMA AcksStayStep ==
    ASSUME AckInv, TypeInv', IInv', LogInv', NEW r \in Replica, StepOf(r), Goes(r),
           DiskStays(r), MemoryStays(r), NewVotes(r)
    PROVE  AcksStay(r)
  <1> SUFFICES ASSUME NEW p \in prepared, NEW f \in Paths, r \in Acked(f[OpOf(p)], p)
               PROVE  /\ Alive(Nobody, f, p)' => OnDisk(r, f, p)'
                      /\ Alive(r, f, p)' => InMemory(r, f, p)' /\ InVotes(r, f, p)'
    BY DEF AcksStay
  <1>1. TypeInv /\ IInv /\ LogInv /\ AckedKept
    BY DEF AckInv
  <1>2. ASSUME Alive(Nobody, f, p)' PROVE OnDisk(r, f, p)'
    <2>1. Alive(Nobody, f, p)
      BY <1>1, <1>2, RestartAlive
    <2> QED
      BY <1>1, <2>1 DEF AckedKept, DiskStays
  <1>3. ASSUME Alive(r, f, p)' PROVE InMemory(r, f, p)' /\ InVotes(r, f, p)'
    <2>1. Alive(r, f, p)
      <3>1. ~Restarts(r) \/ (Restarts(r) /\ Goes(r))
        OBVIOUS
      <3>2. \A i \in 1..OpOf(p) : f[i] \in View
        BY <1>1, PathFacts
      <3>3. CASE Restarts(r)
        \* The step is both when nothing was to be taken back.
        <4>1. log_view[r] <= durable[r].log_view /\ durable[r].log_view <= durable[r].view
              /\ log_view[r] \in Nat /\ durable[r].log_view \in Nat /\ durable[r].view \in Nat
          BY <1>1, <3>3 DEF Restarts, Goes, IInv, ViewTypes, ViewOrder
        <4>2. Alive(Nobody, f, p)
          BY <1>1, <1>3, RestartAlive
        <4> QED
          BY <4>1, <4>2, AckedInLog
      <3>4. CASE ~Restarts(r)
        BY <1>1, <1>3, <3>4, AlivePast
      <3> QED
        BY <3>3, <3>4
    <2>2. InMemory(r, f, p) /\ InVotes(r, f, p)
      BY <1>1, <2>1 DEF AckedKept
    <2>3. InMemory(r, f, p)'
      BY <1>3, <2>1, <2>2 DEF MemoryStays
    <2>4. p \in prepared'
      BY StepFacts
    <2>5. ASSUME NEW m \in do_view_changes', m.replica = r, m.view > f[OpOf(p)]
          PROVE  p \preceq m.headers[m.op] /\ OpOf(p) \notin m.nacks
      <3>1. CASE m \in do_view_changes
        BY <2>2, <2>5, <3>1 DEF InVotes
      <3>2. CASE m \notin do_view_changes
        <4>1. m = DoViewChange(r)' /\ ~InLogView(r)' /\ status'[r] # "recovering_head"
          BY <3>2 DEF NewVotes
        <4> QED
          BY <2>3, <2>4, <4>1, VoteOfAckedNow
      <3> QED
        BY <3>1, <3>2
    <2> QED
      BY <2>3, <2>5 DEF InVotes, \preceq
  <1> QED
    BY <1>2, <1>3

\* Votes are sent when a view is left, when that is durable, and again with what was written.
LEMMA NewVotesStep ==
    ASSUME TypeInv, IInv, LogInv, NEW r \in Replica, StepWithoutCrash(r)
    PROVE  NewVotes(r)
  <1>1. CASE LeavesView(r)
    <2>1. PICK v \in View : ViewChangeTo(r, v) /\ view[r] < v
      BY <1>1 DEF LeavesView
    <2>2. /\ view'[r] = v /\ log_view'[r] = log_view[r] /\ status'[r] = "view_change"
          /\ SendDoViewChange(r)
      BY <2>1 DEF ViewChangeTo, IInv, ViewTypes
    <2>3. log_view[r] <= view[r] /\ log_view[r] \in Nat /\ view[r] \in Nat /\ v \in Nat
      BY CountsAssumption DEF IInv, ViewTypes, ViewOrder, View
    <2>4. ~InLogView(r)' /\ status'[r] # "recovering_head"
      BY <2>1, <2>2, <2>3 DEF InLogView
    <2>5. \A m \in do_view_changes' \ do_view_changes : m = DoViewChange(r)'
      BY <2>2 DEF SendDoViewChange
    <2> QED
      BY <2>4, <2>5 DEF NewVotes
  <1>2. CASE DoViewChangeTimeout(r) \/ ViewDurableUpdate(r)
    <2>1. /\ UNCHANGED <<status, view, log_view, view_headers, journal, disk, writing, commit_min>>
          /\ status[r] # "recovering_head"
          /\ \/ do_view_changes' = do_view_changes
             \/ /\ do_view_changes' = do_view_changes \cup {DoViewChange(r)}
                /\ log_view[r] < view[r]
      BY <1>2 DEF DoViewChangeTimeout, ViewDurableUpdate, viewVars, logVars, diskVars, commitVars
    <2>2. DoViewChange(r)' = DoViewChange(r)
      BY <2>1 DEF DoViewChange, Readable
    <2>3. log_view[r] \in Nat /\ view[r] \in Nat
      BY DEF IInv, ViewTypes
    <2> QED
      BY <2>1, <2>2, <2>3 DEF NewVotes, InLogView
  <1>3. CASE ~LeavesView(r) /\ ~DoViewChangeTimeout(r) /\ ~ViewDurableUpdate(r)
    <2>1. do_view_changes' = do_view_changes
      <3>1. CASE OnRequest(r) \/ (\E p \in prepared : OnPrepare(r, p)) \/ OnDoViewChange(r)
        BY <3>1 DEF OnRequest, OnPrepare, OnDoViewChange, netVars
      <3>2. CASE CommitStep(r)
        BY <3>2 DEF CommitStep, PrimaryCommit, SendCommit, CommitJournal, OnCommit, netVars
      <3>3. CASE RepairStep(r) \/ WriteStep(r)
        BY <3>3 DEF RepairStep, RepairHeader, OnRepair, WriteStep, WriteDone, netVars
      <3>4. CASE Answers(r) \/ StartViewAsTheNewPrimary(r) \/ \E m \in start_views : OnStartView(r, m)
        BY <3>4 DEF Answers, PrimarySendStartView, StartViewAsTheNewPrimary, OnStartView
      <3> QED
        BY <1>3, <3>1, <3>2, <3>3, <3>4, Zenon DEF StepWithoutCrash
    <2> QED
      BY <2>1 DEF NewVotes
  <1> QED
    BY <1>1, <1>2, <1>3

\* No step but a crash takes an acknowledged prepare off the disk.
LEMMA DiskStaysStep ==
    ASSUME AckInv, TypeInv', NEW r \in Replica, StepWithoutCrash(r), Others(r)
    PROVE  DiskStays(r)
  <1> SUFFICES ASSUME NEW p \in prepared, NEW f \in Paths, r \in Acked(f[OpOf(p)], p),
                      Alive(Nobody, f, p), OnDisk(r, f, p)
               PROVE  OnDisk(r, f, p)'
    BY DEF DiskStays
  <1> DEFINE o == OpOf(p)
  <1>1. TypeInv /\ IInv /\ LogInv
    BY DEF AckInv
  <1>2. /\ o \in Op /\ o \in Nat /\ p \in Prepare /\ op[r] \in Nat
        /\ OpOf(HeadHeader(r)) = op[r] /\ HeadHeader(r) \in Prepare
    BY <1>1, PreparedFacts, HeadFacts
  <1>3. /\ writing[r] \in [Op -> Prepare \cup {None}]
        /\ writing = [q \in Replica |-> writing[q]] /\ durable = [q \in Replica |-> durable[q]]
    BY <1>1 DEF TypeInv, Functions, LocalTypes, DiskTypes
  <1>4. CASE UNCHANGED <<disk, durable, writing>>
    BY <1>4 DEF OnDisk, \preceq, ViewHead, HeadOp
  <1>5. ASSUME NEW q \in Prepare, OpOf(q) \in Op, OpOf(q) = o => q = p, UNCHANGED <<disk, durable>>,
               writing' \in {writing, [writing EXCEPT ![r][OpOf(q)] = q]}
        PROVE  OnDisk(r, f, p)'
    <2>1. writing'[r][o] = writing[r][o] \/ (OpOf(q) = o /\ writing'[r][o] = q)
      BY <1>2, <1>3, <1>5
    <2> QED
      BY <1>5, <2>1 DEF OnDisk, \preceq, ViewHead, HeadOp
  <1>6. CASE OnRequest(r)
    <2>1. ViewDurable(r) /\ status[r] = "normal" /\ op[r] < OpMax /\ UNCHANGED <<disk, durable>>
          /\ writing' \in {writing, [writing EXCEPT ![r][OpOf(NewPrepare(r))] = NewPrepare(r)]}
          /\ r = PrimaryIndex(view[r])
      BY <1>6 DEF OnRequest, AppendPrepare, WritePrepare
    <2>2. log_view[r] = view[r] /\ LogViewDurable(log_view[r])
      BY <1>1, <2>1, NormalFacts, PrimaryDurable DEF InLogView
    <2>3. p \preceq HeadHeader(r)
      BY <2>1, <2>2, AckedInLog
    <2>4. view[r] \in View
      BY <1>1 DEF TypeInv, LocalTypes, ReplicaTypes
    <2>5. NewPrepare(r) \in Prepare /\ OpOf(NewPrepare(r)) = op[r] + 1
      BY <1>2, <2>1, <2>4, AppendFacts DEF NewPrepare
    <2>6. OpOf(NewPrepare(r)) \in Op /\ OpOf(NewPrepare(r)) # o
      BY <1>2, <2>3, <2>5, OpFacts DEF \preceq
    <2> QED
      BY <1>5, <2>1, <2>5, <2>6
  <1>7. CASE \E q \in prepared : OnPrepare(r, q)
    <2>1. PICK q \in prepared : OnPrepare(r, q)
      BY <1>7
    <2>2. /\ status[r] = "normal" /\ r # PrimaryIndex(view[r]) /\ OpOf(q) > op[r]
          /\ UNCHANGED <<disk, durable>>
          /\ writing' \in {writing, [writing EXCEPT ![r][OpOf(q)] = q]}
      BY <2>1 DEF OnPrepare, AppendPrepare, WritePrepare
    <2>3. log_view[r] = view[r] /\ LogViewDurable(log_view[r])
      BY <1>1, <2>2, NormalFacts DEF InLogView, LogInv, TipsDurable, LogViewsDurable
    <2>4. p \preceq HeadHeader(r)
      BY <2>2, <2>3, AckedInLog
    <2>5. q \in Prepare /\ OpOf(q) \in Op /\ OpOf(q) \in Nat
      BY <1>1, PreparedFacts
    <2>6. OpOf(q) # o
      BY <1>2, <2>2, <2>4, <2>5 DEF \preceq
    <2> QED
      BY <1>5, <2>2, <2>5, <2>6
  <1>8. CASE RepairStep(r)
    <2>1. UNCHANGED <<disk, durable>> /\ status[r] # "recovering_head"
      BY <1>1, <1>8, RepairFacts, NormalFacts
    <2>2. CASE UNCHANGED <<journal, writing>>
      BY <1>4, <2>1, <2>2
    <2>3. CASE ~UNCHANGED <<journal, writing>>
      <3>1. PICK q \in prepared :
                    /\ OpOf(q) <= op[r] /\ q = Ancestor(HeadHeader(r), OpOf(q)) /\ OpOf(q) \in Op
                    /\ q \in Prepare
                    /\ \/ writing' = writing
                       \/ writing' = [writing EXCEPT ![r][OpOf(q)] = q]
        BY <1>1, <1>8, <2>3, RepairFacts
      <3>2. Comparable(p, HeadHeader(r))
        BY <2>1, AckedInLog
      <3>3. OpOf(q) = o => p \preceq HeadHeader(r)
        BY <1>2, <3>1, <3>2, ComparableFacts
      <3>4. OpOf(q) = o => q = p
        BY <3>1, <3>3 DEF \preceq
      <3> QED
        BY <1>5, <2>1, <3>1, <3>4
    <2> QED
      BY <2>2, <2>3
  <1>9. CASE WriteStep(r)
    <2>1. PICK k \in Op : WriteDone(r, k)
      BY <1>9 DEF WriteStep
    <2>2. /\ UNCHANGED durable
          /\ \A i \in Op \ {k} : disk'[r][i] = disk[r][i] /\ writing'[r][i] = writing[r][i]
          /\ writing[r][k] # None /\ disk'[r][k] = writing[r][k] /\ writing'[r][k] = None
      BY <1>1, <2>1, WriteFacts
    <2>3. disk'[r][o] \in {p, Rotten} /\ writing'[r][o] \in {None, p}
      BY <1>2, <2>2 DEF OnDisk
    <2> QED
      BY <2>2, <2>3 DEF OnDisk, \preceq, ViewHead, HeadOp
  <1>10. CASE ViewDurableUpdate(r)
    <2>1. /\ UNCHANGED <<disk, writing>> /\ status[r] # "recovering_head"
          /\ durable'[r] = [view |-> view[r], log_view |-> log_view[r], commit_max |-> commit_max[r],
                            view_headers |-> view_headers[r]]
      BY <1>3, <1>10 DEF ViewDurableUpdate, diskVars
    <2>2. ASSUME durable'[r].log_view = f[o], durable'[r].log_view < durable'[r].view
          PROVE  p \preceq ViewHead(view_headers[r])
      <3>1. log_view[r] = f[o] /\ log_view[r] < view[r] /\ log_view[r] \in Nat /\ view[r] \in Nat
        BY <1>1, <2>1, <2>2 DEF IInv, ViewTypes
      <3>2. p \preceq HeadHeader(r)
        BY <2>1, <3>1, AckedInLog
      <3>3. HeadHeader(r) = ViewHead(view_headers[r])
        BY <1>1, <3>1 DEF LogInv, HeadersOfView, InLogView
      <3> QED
        BY <3>2, <3>3
    <2>3. durable'[r].view_headers = view_headers[r]
      BY <2>1
    <2> QED
      BY <2>1, <2>2, <2>3 DEF OnDisk
  <1>11. CASE \/ CommitStep(r) \/ LeavesView(r) \/ DoViewChangeTimeout(r) \/ OnDoViewChange(r)
              \/ Answers(r) \/ StartViewAsTheNewPrimary(r)
              \/ \E m \in start_views : OnStartView(r, m)
    <2>1. UNCHANGED <<disk, durable, writing>>
      <3>1. CASE CommitStep(r)
        BY <3>1 DEF CommitStep, PrimaryCommit, SendCommit, CommitJournal, OnCommit, diskVars
      <3>2. CASE LeavesView(r) \/ DoViewChangeTimeout(r) \/ OnDoViewChange(r)
        BY <3>2 DEF LeavesView, ViewChangeTo, DoViewChangeTimeout, OnDoViewChange, diskVars
      <3>3. CASE Answers(r) \/ StartViewAsTheNewPrimary(r) \/ \E m \in start_views : OnStartView(r, m)
        BY <3>3 DEF Answers, PrimarySendStartView, StartViewAsTheNewPrimary, OnStartView, diskVars
      <3> QED
        BY <1>11, <3>1, <3>2, <3>3
    <2> QED
      BY <1>4, <2>1
  <1> QED
    BY <1>6, <1>7, <1>8, <1>9, <1>10, <1>11, Zenon DEF StepWithoutCrash

\* The slot has the prepare, or knows that it may have had it.
HasOrHad(slot, p) ==
    \/ slot.header = p /\ (slot.dirty => slot.faulty)
    \/ slot.header = None /\ slot.faulty

\* Setting a header keeps that the replica has the prepare, or knows it may have had it.
LEMMA SetHeaderKeeps ==
    ASSUME NEW slot, NEW p, HasOrHad(slot, p)
    PROVE  HasOrHad(SetHeader(slot, p), p) /\ HasOrHad(CleanSlot(p), p)
  BY DEF HasOrHad, SetHeader, CleanSlot

\* An SV's headers are those of the log, if it is in it what may be in the pipeline.
LEMMA StartViewSlots ==
    ASSUME TypeInv, NEW D \in Known, NEW j, NEW o \in 0..OpOf(D)
    PROVE  LET slot == StartViewJournal(j, StartViewHeaders(D).headers)[o]
           IN slot \in {j[o], SetHeader(j[o], Ancestor(D, o))}
  <1> DEFINE h == StartViewHeaders(D).headers
  <1>1. /\ HeadOp(h) = OpOf(D) /\ OpOf(D) \in Op
        /\ \A k \in DOMAIN h : h[k] = Ancestor(D, k)
    BY StartViewHeadersFacts, KnownFacts, OpFacts
  <1>2. o \in Op /\ ~(o > OpOf(D))
    BY <1>1, CountsAssumption DEF Op
  <1> QED
    BY <1>1, <1>2 DEF StartViewJournal

\* No step but a crash or the count of the DVCs takes an acknowledged prepare out of memory.
LEMMA MemoryStaysStep ==
    ASSUME AckInv, TypeInv', NEW r \in Replica, StepWithoutCrash(r), Others(r), ~OnDoViewChange(r)
    PROVE  MemoryStays(r)
  <1> SUFFICES ASSUME NEW p \in prepared, NEW f \in Paths, r \in Acked(f[OpOf(p)], p),
                      Alive(r, f, p), InMemory(r, f, p)
               PROVE  InMemory(r, f, p)'
    BY DEF MemoryStays
  <1> DEFINE o == OpOf(p)
  <1>1. TypeInv /\ IInv /\ LogInv /\ Alive(Nobody, f, p)
    BY AliveFacts DEF AckInv
  <1>2. /\ o \in Op /\ o \in Nat /\ p \in Prepare /\ op[r] \in Nat /\ p # None
        /\ OpOf(HeadHeader(r)) = op[r] /\ HeadHeader(r) \in Prepare
    BY <1>1, PreparedFacts, HeadFacts, KnownFacts
  <1>3. HasOrHad(journal[r][o], p) /\ (status[r] # "recovering_head" => p \preceq HeadHeader(r))
    BY DEF HasOrHad, InMemory
  <1>4. ASSUME HasOrHad(journal'[r][o], p), status'[r] # "recovering_head", p \preceq HeadHeader(r)'
        PROVE  InMemory(r, f, p)'
    BY <1>4 DEF HasOrHad, InMemory, \preceq
  <1>5. CASE OnRequest(r) \/ \E q \in prepared : OnPrepare(r, q)
    <2>1. status[r] = "normal" /\ status'[r] = "normal" /\ InLogView(r)
      BY <1>1, <1>5, NormalFacts DEF OnRequest, OnPrepare, viewVars
    <2>2. p \preceq HeadHeader(r)
      BY <1>3, <2>1
    <2>3. o <= op[r]
      BY <1>2, <2>2 DEF \preceq
    <2>4. PICK q \in Prepare : /\ OpOf(q) > op[r] /\ OpOf(q) \in Op /\ HeadHeader(r) \preceq q
                               /\ journal' = [journal EXCEPT ![r][OpOf(q)] = SetHeader(@, q)]
                               /\ op' = [op EXCEPT ![r] = OpOf(q)]
      <3>1. CASE OnRequest(r)
        <4>1. op[r] < OpMax /\ view[r] \in View /\ AppendPrepare(r, NewPrepare(r))
          BY <1>1, <3>1 DEF OnRequest, TypeInv, LocalTypes, ReplicaTypes
        <4>2. NewPrepare(r) \in Prepare /\ OpOf(NewPrepare(r)) = op[r] + 1
              /\ HeadHeader(r) \preceq NewPrepare(r)
          BY <1>2, <4>1, AppendFacts DEF NewPrepare
        <4>3. OpOf(NewPrepare(r)) \in Op /\ OpOf(NewPrepare(r)) > op[r]
          BY <1>2, <4>2, OpFacts
        <4>4. PICK q \in Prepare : q = NewPrepare(r)
          BY <4>2
        <4> QED
          BY <4>1, <4>2, <4>3, <4>4 DEF AppendPrepare
      <3>2. CASE \E q \in prepared : OnPrepare(r, q)
        <4>1. PICK q \in prepared : OnPrepare(r, q)
          BY <3>2
        <4>2. q \in Prepare /\ OpOf(q) \in Op /\ OpOf(q) > op[r] /\ AppendPrepare(r, q)
              /\ ViewOf(q) = view[r]
          BY <1>1, <4>1, PreparedFacts DEF OnPrepare
        <4>3. q \in Tips(view[r]) /\ HeadHeader(r) \in Tips(view[r])
          BY <1>1, <2>1, <4>2, TipsKnown DEF SentTip, HasTip, InLogView
        <4>4. view[r] \in View
          BY <1>1 DEF TypeInv, LocalTypes, ReplicaTypes
        <4>5. Comparable(HeadHeader(r), q)
          BY <1>1, <4>3, <4>4, TipsComparable
        <4>6. HeadHeader(r) \preceq q
          <5>1. OpOf(q) \in Nat /\ OpOf(HeadHeader(r)) <= OpOf(q)
            BY <1>2, <4>2, OpFacts
          <5> QED
            BY <1>2, <4>2, <4>5, <5>1, ComparableFacts
        <4> QED
          BY <4>2, <4>6 DEF AppendPrepare
      <3> QED
        BY <1>5, <3>1, <3>2
    <2>5. /\ journal'[r][OpOf(q)].header = q
          /\ \A k \in Op \ {OpOf(q)} : journal'[r][k] = journal[r][k]
      BY <1>1, <2>4, JournalAfterSet
    <2>6. op'[r] = OpOf(q)
      BY <1>1, <2>4 DEF TypeInv, Functions
    <2>7. HeadHeader(r)' = q
      BY <2>5, <2>6 DEF HeadHeader
    <2>8. journal'[r][o] = journal[r][o]
      BY <1>2, <2>3, <2>4, <2>5
    <2>9. p \preceq q
      BY <1>2, <2>2, <2>4, BeginsFacts
    <2> QED
      BY <1>3, <1>4, <2>1, <2>7, <2>8, <2>9
  <1>6. CASE KeepsLog(r)
    <2>1. HeadHeader(r)' = HeadHeader(r)
      BY <1>1, <1>6, HeadKept
    <2>2. HasOrHad(journal'[r][o], p)
      <3>1. CASE RepairStep(r)
        <4>1. p \preceq HeadHeader(r)
          BY <1>1, <1>3, <3>1, RepairFacts, NormalFacts
        <4>2. CASE journal' = journal
          BY <1>3, <4>2
        <4>3. CASE journal' # journal
          <5>1. PICK q \in prepared :
                    /\ q = Ancestor(HeadHeader(r), OpOf(q)) /\ OpOf(q) \in Op
                    /\ journal' = [journal EXCEPT ![r][OpOf(q)] = SetHeader(@, q)]
            BY <1>1, <3>1, <4>3, RepairFacts
          <5>2. journal[r] \in [Op -> Slot] /\ journal = [s \in Replica |-> journal[s]]
            BY <1>1 DEF TypeInv, Functions, LocalTypes, JournalTypes
          <5>3. OpOf(q) # o => journal'[r][o] = journal[r][o]
            BY <1>2, <5>1, <5>2
          <5>4. OpOf(q) = o => q = p /\ journal'[r][o] = SetHeader(journal[r][o], p)
            BY <1>2, <4>1, <5>1, <5>2 DEF \preceq
          <5> QED
            BY <1>3, <5>3, <5>4, SetHeaderKeeps
        <4> QED
          BY <4>2, <4>3
      <3>2. CASE WriteStep(r)
        <4>1. PICK k \in Op : WriteDone(r, k)
          BY <3>2 DEF WriteStep
        <4>2. k # o => journal'[r][o] = journal[r][o]
          BY <1>1, <1>2, <4>1, WriteFacts
        <4>3. CASE k = o /\ journal[r][o].header = writing[r][o]
          <5>1. journal'[r][o] = CleanSlot(writing[r][o]) /\ writing[r][o] # None
            BY <1>1, <4>1, <4>3, WriteFacts
          <5>2. writing[r][o] = p
            BY <1>3, <4>3, <5>1 DEF HasOrHad
          <5> QED
            BY <1>3, <5>1, <5>2, SetHeaderKeeps
        <4>4. CASE k = o /\ journal[r][o].header # writing[r][o]
          <5>1. /\ journal'[r][o].header = journal[r][o].header
                /\ journal'[r][o].faulty = journal[r][o].faulty
                /\ writing[r][o] # None
            BY <1>1, <4>1, <4>4, WriteFacts
          <5>2. writing[r][o] = p
            <6>1. OnDisk(r, f, p)
              BY <1>1 DEF AckInv, AckedKept
            <6> QED
              BY <5>1, <6>1 DEF OnDisk
          <5>3. journal[r][o].header = None /\ journal[r][o].faulty
            BY <1>3, <4>4, <5>2 DEF HasOrHad
          <5> QED
            BY <5>1, <5>3 DEF HasOrHad
        <4> QED
          BY <1>3, <4>2, <4>3, <4>4
      <3>3. CASE ~RepairStep(r) /\ ~WriteStep(r)
        <4>1. journal' = journal
          <5>1. CASE CommitStep(r)
            BY <5>1 DEF CommitStep, PrimaryCommit, SendCommit, CommitJournal, OnCommit, logVars
          <5>2. CASE LeavesView(r) \/ DoViewChangeTimeout(r) \/ ViewDurableUpdate(r)
            BY <5>2 DEF LeavesView, ViewChangeTo, DoViewChangeTimeout, ViewDurableUpdate, logVars
          <5>3. CASE Answers(r) \/ StartViewAsTheNewPrimary(r)
            BY <5>3 DEF Answers, PrimarySendStartView, StartViewAsTheNewPrimary, logVars
          <5> QED
            BY <1>6, <3>3, <5>1, <5>2, <5>3 DEF KeepsLog
        <4> QED
          BY <1>3, <4>1
      <3> QED
        BY <3>1, <3>2, <3>3
    <2>3. CASE status[r] # "recovering_head"
      <3>1. status'[r] # "recovering_head"
        <4>1. status = [q \in Replica |-> status[q]]
          BY <1>1 DEF TypeInv, Functions
        <4>2. CASE CommitStep(r)
          BY <2>3, <4>2 DEF CommitStep, PrimaryCommit, SendCommit, CommitJournal, OnCommit, viewVars
        <4>3. CASE LeavesView(r) \/ DoViewChangeTimeout(r) \/ ViewDurableUpdate(r)
          BY <2>3, <4>1, <4>3 DEF LeavesView, ViewChangeTo, DoViewChangeTimeout, ViewDurableUpdate, viewVars
        <4>4. CASE Answers(r) \/ StartViewAsTheNewPrimary(r)
          BY <2>3, <4>1, <4>4 DEF Answers, PrimarySendStartView, StartViewAsTheNewPrimary
        <4>5. CASE RepairStep(r) \/ WriteStep(r)
          BY <2>3, <4>5 DEF RepairStep, RepairHeader, OnRepair, WriteStep, WriteDone, viewVars
        <4> QED
          BY <1>6, <4>2, <4>3, <4>4, <4>5 DEF KeepsLog
      <3> QED
        BY <1>3, <1>4, <2>1, <2>2, <2>3, <3>1
    <2>4. CASE status[r] = "recovering_head"
      <3>1. UNCHANGED <<status, view, incarnation, start_views>>
        <4>1. CASE WriteStep(r)
          BY <4>1 DEF WriteStep, WriteDone, viewVars
        <4>2. ~CommitStep(r)
          BY <1>1, <2>4, NormalFacts DEF CommitStep, PrimaryCommit, SendCommit, CommitJournal, OnCommit
        <4>3. ~RepairStep(r)
          BY <1>1, <2>4, RepairFacts, NormalFacts
        <4>4. ~LeavesView(r) /\ ~DoViewChangeTimeout(r) /\ ~ViewDurableUpdate(r)
              /\ ~StartViewAsTheNewPrimary(r)
          BY <2>4 DEF LeavesView, DoViewChangeTimeout, ViewDurableUpdate, StartViewAsTheNewPrimary
        <4>5. ~Answers(r)
          BY <2>4 DEF Answers, PrimarySendStartView
        <4> QED
          BY <1>6, <4>1, <4>2, <4>3, <4>4, <4>5 DEF KeepsLog
      <3> QED
        BY <2>1, <2>2, <2>4, <3>1 DEF HasOrHad, InMemory, \preceq
    <2> QED
      BY <2>3, <2>4
  <1>7. CASE \E m \in start_views : OnStartView(r, m)
    <2>1. PICK m \in start_views : OnStartView(r, m)
      BY <1>7
    <2>2. /\ AcceptsStartView(r, m) /\ m.view >= view[r]
          /\ status'[r] = "normal" /\ op'[r] = OpOf(m.head)
          /\ journal'[r] = StartViewJournal(journal[r], StartViewHeaders(m.head).headers)
      BY <1>1, <2>1 DEF OnStartView, AcceptsStartView, TypeInv, Functions
    <2>3. /\ m.view \in View /\ m.view \in Nat /\ m.head \in Known /\ m.head \in Tips(m.view)
          /\ LogViewDurable(m.view) /\ m.head \in Prepare
      <3>1. m.view \in View /\ m.head \in Known /\ m.head \in Prepare
        BY <1>1, KnownFacts DEF TypeInv, MessageTypes, StartViewTypes
      <3>2. m.head \in Tips(m.view)
        BY <1>1, TipsKnown DEF SentTip
      <3>3. LogViewDurable(m.view)
        BY <1>1 DEF IInv, AdvertisedDurable, LogViewDurable
      <3> QED
        BY <3>1, <3>2, <3>3, CountsAssumption DEF View
    <2>4. /\ f[o] \in Nat /\ f[o] <= log_view[r] /\ log_view[r] <= view[r]
          /\ log_view[r] \in Nat /\ view[r] \in Nat
      BY <1>1, AckedInLog, PathFacts DEF IInv, ViewTypes, ViewOrder
    <2>5. p \preceq m.head
      <3>1. CASE f[o] < m.view
        BY <1>1, <2>3, <3>1, AckedInLog
      <3>2. CASE ~(f[o] < m.view)
        <4>1. f[o] = m.view /\ log_view[r] = m.view /\ view[r] = m.view
          BY <2>2, <2>3, <2>4, <3>2
        <4>2. CASE status[r] = "recovering_head"
          <5>1. m.nonce = <<r, incarnation[r]>>
            BY <2>2, <2>3, <4>1, <4>2 DEF AcceptsStartView
          <5> QED
            BY <4>1, <4>2, <5>1 DEF InMemory
        <4>3. CASE status[r] # "recovering_head"
          <5>1. ~(OpOf(m.head) < op[r]) /\ OpOf(m.head) \in Nat
            BY <2>2, <2>3, <4>1, OpFacts DEF AcceptsStartView
          <5>2. HeadHeader(r) \in Tips(m.view)
            BY <1>1, <4>1, TipsKnown DEF HasTip
          <5>3. Comparable(HeadHeader(r), m.head)
            BY <1>1, <2>3, <5>2, TipsComparable
          <5>4. HeadHeader(r) \preceq m.head
            BY <1>2, <2>3, <5>1, <5>3, ComparableFacts
          <5> QED
            BY <1>2, <1>3, <2>3, <4>3, <5>4, BeginsFacts
        <4> QED
          BY <4>2, <4>3
      <3> QED
        BY <3>1, <3>2
    <2>6. o \in 0..OpOf(m.head) /\ Ancestor(m.head, o) = p
      BY <1>2, <2>3, <2>5, OpFacts DEF \preceq
    <2>7. journal'[r][o] \in {journal[r][o], SetHeader(journal[r][o], p)}
      BY <1>1, <2>2, <2>3, <2>6, StartViewSlots
    <2>8. HeadHeader(r)' = m.head
      <3>2. OpOf(m.head) \in DOMAIN StartViewHeaders(m.head).headers
            /\ StartViewHeaders(m.head).headers[OpOf(m.head)] = m.head
            /\ HeadOp(StartViewHeaders(m.head).headers) = OpOf(m.head) /\ OpOf(m.head) \in Op
        BY <1>1, <2>3, StartViewHeadersFacts, HeadersFacts, OpFacts
      <3>3. journal'[r][OpOf(m.head)] = SetHeader(journal[r][OpOf(m.head)], m.head)
        BY <2>2, <2>3, <3>2, OpFacts DEF StartViewJournal
      <3>4. journal[r][OpOf(m.head)] \in Slot
        BY <1>1, <3>2 DEF TypeInv, LocalTypes, JournalTypes
      <3> QED
        BY <2>2, <2>3, <3>3, <3>4, SetHeaderFacts DEF HeadHeader
    <2> QED
      BY <1>3, <1>4, <2>2, <2>5, <2>7, <2>8, SetHeaderKeeps
  <1> QED
    BY <1>5, <1>6, <1>7, CasesOfLog

-----------------------------------------------------------------------------
(* The slots of a new primary. *)

\* What a DVC has for an op.
Offers(m, o, q) == o \in DOMAIN m.headers /\ q = m.headers[o] /\ q # None

\* A slot that no header was found for stays; the others have the canonical header, one that
\* another DVC says is committed, or one of the log of the new head.
LEMMA QuorumSlots ==
    ASSUME NEW Q, NEW j, NEW o \in Op, ~(o > OpHead(Q)),
           NEW slot, slot = QuorumJournal(j, Q)[o]
    PROVE  \/ slot = j[o] /\ o \notin CommitMaxOf(Q)..OpHead(Q)
           \/ \E q : /\ slot = SetHeader(j[o], q)
                     /\ \/ o \in CommitMaxOf(Q)..OpHead(Q) /\ q = HeaderCanonical(Q, o)
                        \/ /\ o \notin CommitMaxOf(Q)..OpHead(Q)
                           /\ \/ \E m \in Q : Offers(m, o, q) /\ o <= m.commit_min
                              \/ /\ \E m \in Q : Offers(m, o, q)
                                 /\ \/ ViewOf(q) = ViewOf(HeaderCanonical(Q, OpHead(Q)))
                                    \/ q = Ancestor(HeaderCanonical(Q, OpHead(Q)), o)
  <1> DEFINE head == OpHead(Q)
             low == CommitMaxOf(Q)
             headHeader == HeaderCanonical(Q, head)
             other == Q \ Canonical(Q)
             trusted(k) == IF k \in low..head THEN {HeaderCanonical(Q, k)}
                           ELSE HeadersAt({m \in other : k <= m.commit_min}, k)
             slotAt(k) == IF trusted(k) = {} THEN j[k]
                          ELSE SetHeader(j[k], CHOOSE p \in trusted(k) : TRUE)
             offered(k) == HeadersAt(other, k) \cap {Ancestor(headHeader, k)}
             connected(k) == \A i \in (k + 1)..head :
                                 slotAt(i).header = Ancestor(headHeader, i) \/ offered(i) # {}
             repaired(k) == {p \in HeadersAt(other, k) : ViewOf(p) = ViewOf(headHeader)}
                              \cup (IF connected(k) THEN offered(k) ELSE {})
  <1>1. QuorumJournal(j, Q) = [k \in Op |->
                IF k > head THEN Reserved
                ELSE IF trusted(k) # {} \/ repaired(k) = {} THEN slotAt(k)
                ELSE SetHeader(j[k], CHOOSE p \in repaired(k) : TRUE)]
    BY DEF QuorumJournal
  <1>2. \A p \in repaired(o) : /\ \E m \in Q : Offers(m, o, p)
                               /\ ViewOf(p) = ViewOf(headHeader) \/ p = Ancestor(headHeader, o)
    BY DEF HeadersAt, Offers
  <1>3. o \in low..head => trusted(o) = {HeaderCanonical(Q, o)}
    OBVIOUS
  <1>4. o \notin low..head =>
            \A p \in trusted(o) : \E m \in Q : Offers(m, o, p) /\ o <= m.commit_min
    BY DEF HeadersAt, Offers
  <1> HIDE DEF trusted, repaired, connected, offered, low
  <1>5. CASE trusted(o) # {}
    <2> DEFINE p == CHOOSE p \in trusted(o) : TRUE
    <2>1. p \in trusted(o)
      BY <1>5
    <2> HIDE DEF p
    <2>2. slot = SetHeader(j[o], p)
      BY <1>1, <1>5 DEF p
    <2>3. CASE o \in low..head
      BY <1>3, <2>1, <2>2, <2>3 DEF low
    <2>4. CASE o \notin low..head
      BY <1>4, <2>1, <2>2, <2>4 DEF low
    <2> QED
      BY <2>3, <2>4
  <1>6. CASE trusted(o) = {} /\ repaired(o) = {}
    <2>1. slot = j[o]
      BY <1>1, <1>6
    <2>2. o \notin low..head
      BY <1>3, <1>6
    <2> QED
      BY <2>1, <2>2 DEF low
  <1>7. CASE trusted(o) = {} /\ repaired(o) # {}
    <2> DEFINE p == CHOOSE p \in repaired(o) : TRUE
    <2>1. p \in repaired(o)
      BY <1>7
    <2> HIDE DEF p
    <2>2. slot = SetHeader(j[o], p)
      BY <1>1, <1>7 DEF p
    <2>3. o \notin low..head
      BY <1>3, <1>7
    <2> QED
      BY <1>2, <2>1, <2>2, <2>3 DEF low
  <1> QED
    BY <1>5, <1>6, <1>7

\* The slots of a primary that installs the log of its DVC quorum.
LEMMA QuorumSlotTypes ==
    ASSUME TypeInv, NEW r \in Replica, NEW Q \in DoViewChangeQuorums(r),
           HigherOf(commit_max[r], CommitMaxOf(Q)) <= OpHead(Q), NEW o \in Op,
           NEW slot, slot = QuorumJournal(journal[r], Q)[o]
    PROVE  /\ o > OpHead(Q) => slot = Reserved
           /\ ~(o > OpHead(Q)) =>
                slot = journal[r][o] \/ \E q \in Known : OpOf(q) = o /\ slot = SetHeader(journal[r][o], q)
  <1>1. /\ slot \in Slot /\ slot.header \in HeadersOf(o)
        /\ o > OpHead(Q) => slot = Reserved
    BY QuorumJournalFacts
  <1>2. CASE ~(o > OpHead(Q))
    <2>1. /\ Q \subseteq do_view_changes /\ Canonical(Q) \subseteq Q
          /\ (o \in CommitMaxOf(Q)..OpHead(Q) => HeaderCanonical(Q, o) \in HeadersAt(Canonical(Q), o))
      BY QuorumFacts
    <2>2. SUFFICES ASSUME slot # journal[r][o]
                   PROVE  \E q \in Known : OpOf(q) = o /\ slot = SetHeader(journal[r][o], q)
      BY <1>2
    <2>3. PICK q : /\ slot = SetHeader(journal[r][o], q)
                   /\ q \in HeadersAt(Canonical(Q), o) \/ \E m \in Q : Offers(m, o, q)
      BY <1>2, <2>1, <2>2, QuorumSlots
    <2>4. q # None
      BY <2>3 DEF HeadersAt, Offers
    <2>5. q = slot.header
      BY <2>2, <2>3 DEF SetHeader
    <2> QED
      BY <1>1, <2>3, <2>4, <2>5 DEF HeadersOf
  <1> QED
    BY <1>1, <1>2

\* The new log of the primary, as a step.
LEMMA NewPrimaryFacts ==
    ASSUME TypeInv, NEW r \in Replica, OnDoViewChange(r)
    PROVE  /\ status[r] = "view_change" /\ r = PrimaryIndex(view[r])
           /\ log_view[r] < view[r] /\ ~dvc_quorum[r]
           /\ log_view'[r] = view[r] /\ dvc_quorum'[r] = TRUE
           /\ UNCHANGED <<status, view, view_headers, durable, commit_min, committed, diskVars,
                          incarnation, netVars>>
           /\ \E Q \in DoViewChangeQuorums(r) :
                /\ HigherOf(commit_max[r], CommitMaxOf(Q)) <= OpHead(Q)
                /\ op'[r] = OpHead(Q)
                /\ commit_max'[r] = HigherOf(commit_max[r], CommitMaxOf(Q))
                /\ journal'[r] = QuorumJournal(journal[r], Q)
  <1>1. PICK Q \in DoViewChangeQuorums(r) :
            /\ HigherOf(commit_max[r], CommitMaxOf(Q)) <= OpHead(Q)
            /\ dvc_quorum' = [dvc_quorum EXCEPT ![r] = TRUE]
            /\ log_view' = [log_view EXCEPT ![r] = view[r]]
            /\ op' = [op EXCEPT ![r] = OpHead(Q)]
            /\ commit_max' = [commit_max EXCEPT ![r] = HigherOf(@, CommitMaxOf(Q))]
            /\ journal' = [journal EXCEPT ![r] = QuorumJournal(@, Q)]
            /\ UNCHANGED <<status, view, view_headers, durable, commit_min, committed, diskVars,
                           incarnation, netVars>>
    BY DEF OnDoViewChange
  <1>2. /\ dvc_quorum'[r] = TRUE /\ log_view'[r] = view[r] /\ op'[r] = OpHead(Q)
        /\ commit_max'[r] = HigherOf(commit_max[r], CommitMaxOf(Q))
        /\ journal'[r] = QuorumJournal(journal[r], Q)
    BY <1>1 DEF TypeInv, Functions
  <1> QED
    BY <1>1, <1>2 DEF OnDoViewChange

-----------------------------------------------------------------------------
(* Slots and the disk, over a step. *)

\* A slot keeps what it has, is dirty, or is empty.
SlotsDirty(r) ==
    \A o \in Op :
        \/ /\ journal'[r][o] = journal[r][o] /\ disk'[r][o] = disk[r][o]
           /\ writing'[r][o] = writing[r][o]
        \/ journal'[r][o].header = None
        \/ journal'[r][o].dirty
        \/ /\ journal'[r][o].header = disk'[r][o] /\ writing'[r][o] = None

\* A step that cleans only what is on disk preserves CleanOnDisk.
LEMMA CleanOnDiskStep ==
    ASSUME NEW r \in Replica, CleanOnDisk(r), SlotsDirty(r)
    PROVE  CleanOnDisk(r)'
  <1> SUFFICES ASSUME NEW o \in Op, journal'[r][o].header # None, ~journal'[r][o].dirty
               PROVE  disk'[r][o] = journal'[r][o].header
                      /\ writing'[r][o] \in {None, journal'[r][o].header}
    BY DEF CleanOnDisk
  <1> QED
    BY DEF SlotsDirty, CleanOnDisk

\* A header set anew makes its slot dirty.
LEMMA SetHeaderDirty ==
    ASSUME NEW slot \in Slot, NEW p
    PROVE  /\ SetHeader(slot, p) = slot \/ SetHeader(slot, p).dirty
           /\ slot.header # p => SetHeader(slot, p).dirty
           /\ ~(slot.header = p /\ ~slot.dirty) => SetHeader(slot, p).dirty
  BY DEF SetHeader, Slot

\* Every step cleans only what is on disk.
LEMMA SlotsDirtyStep ==
    ASSUME TypeInv, IInv, LogInv, NEW r \in Replica, StepWithoutCrash(r)
    PROVE  SlotsDirty(r)
  <1>1. /\ journal[r] \in [Op -> Slot] /\ journal = [q \in Replica |-> journal[q]]
        /\ disk = [q \in Replica |-> disk[q]] /\ writing = [q \in Replica |-> writing[q]]
        /\ writing[r] \in [Op -> Prepare \cup {None}] /\ op = [q \in Replica |-> op[q]]
    BY DEF TypeInv, Functions, LocalTypes, JournalTypes, DiskTypes
  <1>2. ASSUME NEW q \in Prepare, OpOf(q) \in Op, ~HasPrepare(r, q), disk' = disk,
               journal' = [journal EXCEPT ![r][OpOf(q)] = SetHeader(@, q)],
               writing' \in {writing, [writing EXCEPT ![r][OpOf(q)] = q]}
        PROVE  SlotsDirty(r)
    <2> SUFFICES ASSUME NEW o \in Op
                 PROVE  \/ /\ journal'[r][o] = journal[r][o] /\ disk'[r][o] = disk[r][o]
                           /\ writing'[r][o] = writing[r][o]
                        \/ journal'[r][o].dirty
      BY DEF SlotsDirty
    <2>1. CASE o # OpOf(q)
      BY <1>1, <1>2, <2>1
    <2>2. CASE o = OpOf(q)
      <3>1. journal'[r][o] = SetHeader(journal[r][o], q)
        BY <1>1, <1>2, <2>2
      <3> QED
        BY <1>1, <1>2, <2>2, <3>1, SetHeaderDirty DEF HasPrepare
    <2> QED
      BY <2>1, <2>2
  <1>3. ASSUME NEW q \in Prepare, status[r] = "normal", OpOf(q) \in Op, OpOf(q) > op[r]
        PROVE  ~HasPrepare(r, q)
    <2>1. InLogView(r)
      BY <1>3, NormalFacts
    <2>2. OpOf(q) \in (op[r] + 1)..OpMax /\ q # None
      <3>1. op[r] \in Nat /\ OpMax \in Nat
        BY HeadFacts, CountsAssumption
      <3> QED
        BY <1>3, <3>1, NoneFacts DEF Op
    <2> QED
      BY <2>1, <2>2 DEF LogInv, LogOfView, HasPrepare
  <1>4. CASE OnRequest(r)
    <2>1. op[r] < OpMax /\ view[r] \in View /\ AppendPrepare(r, NewPrepare(r)) /\ status[r] = "normal"
      BY <1>4 DEF OnRequest, TypeInv, LocalTypes, ReplicaTypes
    <2>2. NewPrepare(r) \in Prepare /\ OpOf(NewPrepare(r)) = op[r] + 1
      BY <2>1, HeadFacts, AppendFacts DEF NewPrepare
    <2>3. OpOf(NewPrepare(r)) \in Op /\ OpOf(NewPrepare(r)) > op[r]
      BY <2>2, OpFacts, HeadFacts
    <2> QED
      BY <1>2, <1>3, <2>1, <2>2, <2>3 DEF AppendPrepare, WritePrepare
  <1>5. CASE \E p \in prepared : OnPrepare(r, p)
    <2>1. PICK p \in prepared : OnPrepare(r, p)
      BY <1>5
    <2>2. /\ p \in Prepare /\ OpOf(p) \in Op /\ OpOf(p) > op[r] /\ status[r] = "normal"
          /\ AppendPrepare(r, p)
      BY <2>1, PreparedFacts DEF OnPrepare
    <2> QED
      BY <1>2, <1>3, <2>2 DEF AppendPrepare, WritePrepare
  <1>6. CASE RepairStep(r)
    <2>1. disk' = disk
      BY <1>6, RepairFacts
    <2>2. CASE UNCHANGED <<journal, writing>>
      BY <2>1, <2>2 DEF SlotsDirty
    <2>3. CASE ~UNCHANGED <<journal, writing>>
      <3>1. PICK p \in prepared :
                    /\ OpOf(p) \in Op /\ ~HasPrepare(r, p) /\ p \in Prepare
                    /\ journal' = [journal EXCEPT ![r][OpOf(p)] = SetHeader(@, p)]
                    /\ \/ writing' = writing
                       \/ writing' = [writing EXCEPT ![r][OpOf(p)] = p]
        BY <1>6, <2>3, RepairFacts
      <3> QED
        BY <1>2, <2>1, <3>1
    <2> QED
      BY <2>2, <2>3
  <1>7. CASE WriteStep(r)
    <2>1. PICK k \in Op : WriteDone(r, k)
      BY <1>7 DEF WriteStep
    <2>2. /\ \A o \in Op \ {k} : /\ journal'[r][o] = journal[r][o] /\ disk'[r][o] = disk[r][o]
                                 /\ writing'[r][o] = writing[r][o]
          /\ journal'[r][k].header = journal[r][k].header
          /\ disk'[r][k] = writing[r][k] /\ writing'[r][k] = None
          /\ journal[r][k].header # writing[r][k] => journal'[r][k].dirty
      BY <2>1, WriteFacts
    <2> QED
      BY <2>2 DEF SlotsDirty
  <1>8. CASE OnDoViewChange(r)
    <2>1. PICK Q \in DoViewChangeQuorums(r) :
                /\ HigherOf(commit_max[r], CommitMaxOf(Q)) <= OpHead(Q)
                /\ journal'[r] = QuorumJournal(journal[r], Q)
      BY <1>8, NewPrimaryFacts
    <2>2. UNCHANGED <<disk, writing>>
      BY <1>8, NewPrimaryFacts DEF diskVars
    <2>3. ASSUME NEW o \in Op
          PROVE  \/ journal'[r][o] = journal[r][o] \/ journal'[r][o].header = None
                 \/ journal'[r][o].dirty
      <3>1. CASE o > OpHead(Q)
        BY <2>1, <3>1, QuorumSlotTypes DEF Reserved
      <3>2. CASE ~(o > OpHead(Q))
        <4>1. journal'[r][o] = journal[r][o]
              \/ \E q \in Known : journal'[r][o] = SetHeader(journal[r][o], q)
          BY <2>1, <3>2, QuorumSlotTypes
        <4> QED
          BY <1>1, <4>1, SetHeaderDirty
      <3> QED
        BY <3>1, <3>2
    <2> QED
      BY <2>2, <2>3 DEF SlotsDirty
  <1>9. CASE \E m \in start_views : OnStartView(r, m)
    <2>1. PICK m \in start_views : OnStartView(r, m)
      BY <1>9
    <2>2. /\ journal'[r] = StartViewJournal(journal[r], StartViewHeaders(m.head).headers)
          /\ UNCHANGED <<disk, writing>>
      BY <1>1, <2>1 DEF OnStartView, diskVars
    <2>3. ASSUME NEW o \in Op
          PROVE  \/ journal'[r][o] = journal[r][o] \/ journal'[r][o].header = None
                 \/ journal'[r][o].dirty
      <3>1. \/ journal'[r][o] = Reserved \/ journal'[r][o] = journal[r][o]
            \/ \E q : journal'[r][o] = SetHeader(journal[r][o], q)
        BY <2>2 DEF StartViewJournal
      <3> QED
        BY <1>1, <3>1, SetHeaderDirty DEF Reserved
    <2> QED
      BY <2>2, <2>3 DEF SlotsDirty
  <1>10. CASE \/ CommitStep(r) \/ LeavesView(r) \/ DoViewChangeTimeout(r) \/ Answers(r)
              \/ StartViewAsTheNewPrimary(r) \/ ViewDurableUpdate(r)
    <2>1. UNCHANGED <<journal, disk, writing>>
      <3>1. CASE CommitStep(r)
        BY <3>1 DEF CommitStep, PrimaryCommit, SendCommit, CommitJournal, OnCommit, diskVars, logVars
      <3>2. CASE LeavesView(r) \/ DoViewChangeTimeout(r) \/ ViewDurableUpdate(r)
        BY <3>2 DEF LeavesView, ViewChangeTo, DoViewChangeTimeout, ViewDurableUpdate, diskVars, logVars
      <3>3. CASE Answers(r) \/ StartViewAsTheNewPrimary(r)
        BY <3>3 DEF Answers, PrimarySendStartView, StartViewAsTheNewPrimary, diskVars, logVars
      <3> QED
        BY <1>10, <3>1, <3>2, <3>3
    <2> QED
      BY <2>1 DEF SlotsDirty
  <1> QED
    BY <1>4, <1>5, <1>6, <1>7, <1>8, <1>9, <1>10, Zenon DEF StepWithoutCrash

-----------------------------------------------------------------------------
(* The root of all logs, over a step. *)

\* The root stays if the step writes nothing there.
LEMMA RootSlot ==
    ASSUME TypeInv, NEW r \in Replica, KeepsRoot(r), disk'[r][0] = disk[r][0],
           writing'[r][0] = writing[r][0],
           journal'[r][0] = journal[r][0] \/ journal'[r][0] = SetHeader(journal[r][0], Root)
    PROVE  KeepsRoot(r)'
  BY DEF KeepsRoot, SetHeader, CleanSlot

\* No step but a crash writes the slot of the root.
LEMMA KeepsRootStep ==
    ASSUME TypeInv, IInv, LogInv, NEW r \in Replica, StepWithoutCrash(r), KeepsRoot(r)
    PROVE  KeepsRoot(r)'
  <1>1. /\ journal = [q \in Replica |-> journal[q]] /\ journal[r] \in [Op -> Slot] /\ 0 \in Op
        /\ disk = [q \in Replica |-> disk[q]] /\ writing = [q \in Replica |-> writing[q]]
        /\ writing[r] \in [Op -> Prepare \cup {None}] /\ op[r] \in Nat
    BY OpFacts, HeadFacts DEF TypeInv, Functions, LocalTypes, JournalTypes, DiskTypes
  <1>2. ASSUME NEW q \in Prepare, OpOf(q) \in Op, OpOf(q) # 0, disk' = disk,
               journal' = [journal EXCEPT ![r][OpOf(q)] = SetHeader(@, q)],
               writing' \in {writing, [writing EXCEPT ![r][OpOf(q)] = q]}
        PROVE  KeepsRoot(r)'
    <2>1. journal'[r][0] = journal[r][0] /\ writing'[r][0] = writing[r][0]
      BY <1>1, <1>2
    <2> QED
      BY <1>2, <2>1, RootSlot
  <1>3. CASE OnRequest(r)
    <2>1. op[r] < OpMax /\ view[r] \in View /\ AppendPrepare(r, NewPrepare(r))
      BY <1>3 DEF OnRequest, TypeInv, LocalTypes, ReplicaTypes
    <2>2. NewPrepare(r) \in Prepare /\ OpOf(NewPrepare(r)) = op[r] + 1
      BY <2>1, HeadFacts, AppendFacts DEF NewPrepare
    <2>3. OpOf(NewPrepare(r)) \in Op /\ OpOf(NewPrepare(r)) # 0
      BY <1>1, <2>2, OpFacts
    <2> QED
      BY <1>2, <2>1, <2>2, <2>3 DEF AppendPrepare, WritePrepare
  <1>4. CASE \E p \in prepared : OnPrepare(r, p)
    <2>1. PICK p \in prepared : OnPrepare(r, p)
      BY <1>4
    <2>2. p \in Prepare /\ OpOf(p) \in Op /\ OpOf(p) # 0 /\ AppendPrepare(r, p)
      BY <2>1, PreparedFacts DEF OnPrepare
    <2> QED
      BY <1>2, <2>2 DEF AppendPrepare, WritePrepare
  <1>5. CASE RepairStep(r)
    <2>1. disk' = disk
      BY <1>5, RepairFacts
    <2>2. CASE UNCHANGED <<journal, writing>>
      BY <2>1, <2>2, RootSlot
    <2>3. CASE ~UNCHANGED <<journal, writing>>
      <3>1. PICK p \in prepared :
                    /\ OpOf(p) \in Op /\ p \in Prepare
                    /\ journal' = [journal EXCEPT ![r][OpOf(p)] = SetHeader(@, p)]
                    /\ \/ writing' = writing
                       \/ writing' = [writing EXCEPT ![r][OpOf(p)] = p]
        BY <1>5, <2>3, RepairFacts
      <3>2. OpOf(p) # 0
        BY PreparedFacts
      <3> QED
        BY <1>2, <2>1, <3>1, <3>2
    <2> QED
      BY <2>2, <2>3
  <1>6. CASE WriteStep(r)
    <2>1. PICK k \in Op : WriteDone(r, k)
      BY <1>6 DEF WriteStep
    <2>2. k # 0
      BY <2>1, WriteFacts DEF KeepsRoot
    <2> QED
      BY <1>1, <2>1, <2>2, WriteFacts, RootSlot
  <1>7. CASE OnDoViewChange(r)
    <2>1. PICK Q \in DoViewChangeQuorums(r) :
                /\ HigherOf(commit_max[r], CommitMaxOf(Q)) <= OpHead(Q)
                /\ journal'[r] = QuorumJournal(journal[r], Q)
      BY <1>7, NewPrimaryFacts
    <2>2. UNCHANGED <<disk, writing>>
      BY <1>7, NewPrimaryFacts DEF diskVars
    <2>3. ~(0 > OpHead(Q))
      <3>1. OpHead(Q) \in Op
        BY <2>1, QuorumFacts
      <3> QED
        BY <3>1 DEF Op
    <2>4. journal'[r][0] = journal[r][0]
          \/ \E q \in Known : OpOf(q) = 0 /\ journal'[r][0] = SetHeader(journal[r][0], q)
      BY <1>1, <2>1, <2>3, QuorumSlotTypes
    <2> QED
      BY <2>2, <2>4, RootSlot, KnownFacts
  <1>8. CASE \E m \in start_views : OnStartView(r, m)
    <2>1. PICK m \in start_views : OnStartView(r, m)
      BY <1>8
    <2>2. /\ journal'[r] = StartViewJournal(journal[r], StartViewHeaders(m.head).headers)
          /\ UNCHANGED <<disk, writing>>
      BY <1>1, <2>1 DEF OnStartView, diskVars
    <2>3. m.head \in Known /\ m.head \in Prepare
      BY KnownFacts DEF TypeInv, MessageTypes, StartViewTypes
    <2>4. 0 \in 0..OpOf(m.head) /\ Ancestor(m.head, 0) = Root
      BY <2>3, OpFacts, AncestorOfAncestor
    <2>5. journal'[r][0] \in {journal[r][0], SetHeader(journal[r][0], Root)}
      BY <2>2, <2>3, <2>4, StartViewSlots
    <2> QED
      BY <2>2, <2>5, RootSlot
  <1>9. CASE \/ CommitStep(r) \/ LeavesView(r) \/ DoViewChangeTimeout(r) \/ Answers(r)
             \/ StartViewAsTheNewPrimary(r) \/ ViewDurableUpdate(r)
    <2>1. UNCHANGED <<journal, disk, writing>>
      <3>1. CASE CommitStep(r)
        BY <3>1 DEF CommitStep, PrimaryCommit, SendCommit, CommitJournal, OnCommit, diskVars, logVars
      <3>2. CASE LeavesView(r) \/ DoViewChangeTimeout(r) \/ ViewDurableUpdate(r)
        BY <3>2 DEF LeavesView, ViewChangeTo, DoViewChangeTimeout, ViewDurableUpdate, diskVars, logVars
      <3>3. CASE Answers(r) \/ StartViewAsTheNewPrimary(r)
        BY <3>3 DEF Answers, PrimarySendStartView, StartViewAsTheNewPrimary, diskVars, logVars
      <3> QED
        BY <1>9, <3>1, <3>2, <3>3
    <2> QED
      BY <2>1, RootSlot
  <1> QED
    BY <1>3, <1>4, <1>5, <1>6, <1>7, <1>8, <1>9, Zenon DEF StepWithoutCrash

\* The root is not nacked.
LEMMA RootNotNacked ==
    ASSUME TypeInv, NEW r \in Replica, KeepsRoot(r)
    PROVE  0 \notin DoViewChange(r).nacks
  <1>1. IsHeaders(view_headers[r].headers)
    BY DEF TypeInv, LocalTypes, HeadersTypes
  <1>2. 0 \in DOMAIN view_headers[r].headers =>
            view_headers[r].headers[0] \in {None, Root}
    BY <1>1, HeadersFacts, KnownFacts DEF HeadersOf
  <1>3. Root # None
    BY KnownFacts
  <1> QED
    BY <1>2, <1>3 DEF DoViewChange, KeepsRoot, CleanSlot

\* After a step: a DVC does not nack the root.
LEMMA RootNotNackedNow ==
    (\A r \in Replica : TypeInv /\ KeepsRoot(r) => 0 \notin DoViewChange(r).nacks)'
  <1>1. \A r \in Replica : TypeInv /\ KeepsRoot(r) => 0 \notin DoViewChange(r).nacks
    BY RootNotNacked
  <1> QED
    BY <1>1, PTL

-----------------------------------------------------------------------------
(* Blank headers, over a step. *)

\* The headers of a DVC, of a log that goes as far as the view headers.
LEMMA HeadersUpTo ==
    ASSUME TypeInv, NEW j, NEW head \in Op, NEW cmax \in Op, NEW old, NEW repairing \in BOOLEAN,
           IsHeaders(old), \A o \in Op : j[o].header \in HeadersOf(o), j[head].header # None,
           ~repairing => HeadOp(old) <= head,
           NEW d, d = DoViewChangeHeaders(j, head, cmax, old, repairing)
    PROVE  /\ HeadOp(d.headers) = head /\ head \in DOMAIN d.headers
           /\ d.headers[head] = j[head].header
           /\ \A o \in DOMAIN d.headers : /\ o \in Op /\ o <= head
                                          /\ cmax <= head => cmax <= o
                                          /\ head <= cmax => o = head
           /\ \A o \in DOMAIN d.headers :
                /\ j[o].header # None => d.headers[o] = j[o].header
                /\ d.headers[o] = None => j[o].header = None
                /\ d.headers[o] = None /\ ~repairing => o \notin DOMAIN old \/ old[o] = None
  <1> DEFINE top == IF repairing THEN head ELSE HigherOf(head, HeadOp(old))
  <1>1. HeadOp(old) \in Op /\ head \in Nat /\ cmax \in Nat /\ HeadOp(old) \in Nat
    BY HeadersFacts DEF Op
  <1>2. top = head
    BY <1>1 DEF HigherOf
  <1>3. /\ HeadOp(d.headers) = top
        /\ DOMAIN d.headers = LowerOf(cmax, top)..top
        /\ \A o \in DOMAIN d.headers :
              d.headers[o] = IF j[o].header # None THEN j[o].header
                             ELSE IF ~repairing /\ o \in DOMAIN old THEN old[o] ELSE None
    BY DoViewChangeHeadersFacts
  <1> HIDE DEF top
  <1>4. DOMAIN d.headers = LowerOf(cmax, head)..head /\ head <= OpMax /\ OpMax \in Nat
    BY <1>2, <1>3, CountsAssumption DEF Op
  <1>5. /\ head \in DOMAIN d.headers
        /\ \A o \in DOMAIN d.headers : /\ o \in Nat /\ o <= head
                                       /\ cmax <= head => cmax <= o
                                       /\ head <= cmax => o = head
    BY <1>1, <1>4 DEF LowerOf
  <1>6. \A o \in DOMAIN d.headers : o \in Op
    BY <1>1, <1>4, <1>5 DEF Op
  <1> QED
    BY <1>2, <1>3, <1>5, <1>6

\* What a log has before the head of the last SV, in what the pipeline holds, the SV names: the
\* blanks are past it, and what is past it is of the view.
LEMMA BlanksAfter ==
    ASSUME TypeInv, LogInv, NEW v \in View, NEW D \in Tips(v), NEW H \in Tips(v), D \preceq H,
           NEW j, \A o \in Op : j[o].header \in HeadersOf(o),
           NEW head \in Op, j[head].header = H,
           NEW cmax \in Op, head - PipelineMax <= cmax, NEW repairing \in BOOLEAN, ~repairing,
           NEW d, d = DoViewChangeHeaders(j, head, cmax, StartViewHeaders(D).headers, repairing)
    PROVE  BlanksOf(d.headers, v)
  <1> DEFINE old == StartViewHeaders(D).headers
  <1>1. /\ D \in Known /\ H \in Known /\ D \in Prepare /\ H \in Prepare /\ H # None
        /\ OpOf(D) \in Nat
    BY TipsKnown, KnownFacts, OpFacts
  <1>2. OpOf(H) = head /\ head \in Nat /\ cmax \in Nat /\ OpOf(D) <= head
    <2>1. j[head].header \in HeadersOf(head)
      OBVIOUS
    <2> QED
      BY <1>1, <2>1 DEF HeadersOf, \preceq, Op
  <1>3. /\ IsHeaders(old) /\ HeadOp(old) = OpOf(D)
        /\ DOMAIN old = HigherOf(0, OpOf(D) - PipelineMax)..OpOf(D)
        /\ \A o \in DOMAIN old : o \in 0..OpOf(D) /\ old[o] = Ancestor(D, o)
    BY <1>1, StartViewHeadersFacts
  <1> HIDE DEF old
  <1>5. /\ HeadOp(d.headers) = head /\ d.headers[head] = H
        /\ \A o \in DOMAIN d.headers : /\ o \in Op /\ o <= head
                                       /\ cmax <= head => cmax <= o
                                       /\ head <= cmax => o = head
        /\ \A o \in DOMAIN d.headers :
                d.headers[o] = None => o \notin DOMAIN old \/ old[o] = None
    <2>1. j[head].header # None /\ d = DoViewChangeHeaders(j, head, cmax, old, repairing)
      BY <1>1 DEF old
    <2>2. IsHeaders(old) /\ (~repairing => HeadOp(old) <= head)
      BY <1>2, <1>3
    <2>3. /\ HeadOp(d.headers) = head /\ d.headers[head] = j[head].header
          /\ \A k \in DOMAIN d.headers : /\ k \in Op /\ k <= head
                                         /\ cmax <= head => cmax <= k
                                         /\ head <= cmax => k = head
          /\ \A k \in DOMAIN d.headers :
                d.headers[k] = None /\ ~repairing => k \notin DOMAIN old \/ old[k] = None
      BY <2>1, <2>2, HeadersUpTo
    <2> QED
      BY <2>3
  <1> SUFFICES ASSUME NEW o \in DOMAIN d.headers, d.headers[o] = None
               PROVE  ViewOf(Ancestor(H, o)) = v
    BY <1>5 DEF BlanksOf
  <1>7. o \in Nat /\ head - PipelineMax <= o /\ o <= head /\ PipelineMax \in Nat
    <2>1. PipelineMax \in Nat /\ o \in Nat
      <3>1. o \in Op
        BY <1>5
      <3> QED
        BY <3>1, CountsAssumption DEF Op
    <2> QED
      BY <1>2, <1>5, <2>1
  <1>8. o \notin DOMAIN old
    <2>1. o \in DOMAIN old => old[o] = None
      BY <1>5
    <2>2. o \in DOMAIN old => Ancestor(D, o) \in Prepare
      BY <1>1, <1>3, AncestorFacts
    <2> QED
      BY <1>3, <2>1, <2>2, NoneFacts
  <1>9. o > OpOf(D)
    BY <1>1, <1>2, <1>3, <1>7, <1>8 DEF HigherOf
  <1>10. Continues(D, H, v)
    <2>1. Continues(D, H, v) \/ Continues(H, D, v)
      BY DEF LogInv, OneLogPerView
    <2>2. Continues(H, D, v) => H \preceq D
      BY <1>1, ContinuesFacts
    <2>3. H \preceq D => OpOf(H) <= OpOf(D)
      BY DEF \preceq
    <2> QED
      BY <1>1, <1>2, <1>7, <1>9, <2>1, <2>2, <2>3
  <1>11. H[o] = v
    BY <1>1, <1>2, <1>7, <1>9, <1>10 DEF Continues
  <1>12. o \in 0..OpOf(H) /\ o \in 1..o /\ o > 0
    BY <1>1, <1>2, <1>7, <1>9
  <1>13. Ancestor(H, o) \in Prepare /\ OpOf(Ancestor(H, o)) = o /\ Ancestor(H, o)[o] = H[o]
    BY <1>1, <1>12, AncestorFacts
  <1>14. Ancestor(H, o) # Root
    BY <1>12, <1>13, OpFacts
  <1> QED
    BY <1>11, <1>13, <1>14, ViewFacts

\* Leaving a view: a primary that has its DVC quorum and has not started has no blanks at all.
LEMMA LeftBlanks ==
    ASSUME TypeInv, IInv, LogInv, NEW r \in Replica, HasBlanks(r), InLogView(r),
           status[r] \in {"normal", "view_change"},
           NEW repairing \in BOOLEAN, (repairing <=> status[r] = "view_change"),
           NEW d, d = DoViewChangeHeaders(journal[r], op[r], commit_max[r],
                                          view_headers[r].headers, repairing)
    PROVE  BlanksOf(d.headers, log_view[r])
  <1>1. /\ op[r] \in Op /\ commit_max[r] \in Op /\ IsHeaders(view_headers[r].headers)
        /\ \A o \in Op : journal[r][o].header \in HeadersOf(o)
        /\ HeadHeader(r) = journal[r][op[r]].header /\ HeadHeader(r) # None
        /\ log_view[r] \in View
    BY HeadFacts DEF TypeInv, LocalTypes, ReplicaTypes, HeadersTypes, JournalTypes
  <1>2. CASE repairing
    <2>1. dvc_quorum[r] /\ commit_max[r] <= op[r]
      BY <1>2 DEF LogInv, HeadersOfView, TypeInv, LocalTypes, LeaderLog
    <2>2. \A o \in commit_max[r]..op[r] : journal[r][o].header # None
      BY <2>1 DEF HasBlanks
    <2> DEFINE j == journal[r]
               old == view_headers[r].headers
               head == op[r]
               cmax == commit_max[r]
    <2>3. /\ head \in Op /\ cmax \in Op
          /\ j[head].header # None /\ d = DoViewChangeHeaders(j, head, cmax, old, repairing)
      BY <1>1
    <2>6. IsHeaders(old) /\ (~repairing => HeadOp(old) <= head)
      BY <1>1, <1>2
    <2>7. \A o \in Op : j[o].header \in HeadersOf(o)
      BY <1>1
    <2>4. \A o \in DOMAIN d.headers : /\ o \in Op /\ o <= head
                                      /\ cmax <= head => cmax <= o
                                      /\ d.headers[o] = None => j[o].header = None
      <3> HIDE DEF j, old, head, cmax
      <3> QED
        BY <2>3, <2>6, <2>7, HeadersUpTo
    <2>5. \A o \in DOMAIN d.headers : d.headers[o] # None
      BY <1>1, <2>1, <2>2, <2>4 DEF Op
    <2> QED
      BY <2>5 DEF BlanksOf
  <1>3. CASE ~repairing
    <2>1. status[r] = "normal" /\ StartsView(view_headers[r])
      BY <1>3, NormalFacts
    <2> DEFINE D == ViewHead(view_headers[r])
               H == HeadHeader(r)
    <2>2. view_headers[r] = StartViewHeaders(D) /\ D \preceq H
      BY <2>1 DEF LogInv, HeadersOfView
    <2>3. D \in Tips(log_view[r]) /\ H \in Tips(log_view[r])
      BY <2>1, TipsKnown DEF HasTip
    <2>4. op[r] - PipelineMax <= commit_max[r]
      BY DEF LogInv, LogOfView
    <2>5. d = DoViewChangeHeaders(journal[r], op[r], commit_max[r], StartViewHeaders(D).headers, repairing)
      BY <2>2
    <2>6. journal[r][op[r]].header = H
      BY <1>1
    <2> HIDE DEF D, H
    <2> QED
      BY <1>1, <1>3, <2>2, <2>3, <2>4, <2>5, <2>6, BlanksAfter
  <1> QED
    BY <1>2, <1>3

\* The headers of an SV have no blanks.
LEMMA StartViewBlanks ==
    ASSUME TypeInv, NEW D \in Known, NEW v
    PROVE  BlanksOf(StartViewHeaders(D).headers, v)
  <1>1. \A o \in DOMAIN StartViewHeaders(D).headers :
            o \in 0..OpOf(D) /\ StartViewHeaders(D).headers[o] = Ancestor(D, o)
    BY StartViewHeadersFacts
  <1>2. \A o \in 0..OpOf(D) : Ancestor(D, o) \in Prepare
    BY KnownFacts, AncestorFacts
  <1> QED
    BY <1>1, <1>2, NoneFacts DEF BlanksOf

\* Over a step, headers stay without blanks before the view's own prepares.
LEMMA HasBlanksStep ==
    ASSUME TypeInv, IInv, LogInv, NEW r \in Replica, StepWithoutCrash(r), HasBlanks(r), Others(r)
    PROVE  HasBlanks(r)'
  <1>1. /\ dvc_quorum[r] => InLogView(r) /\ status[r] = "view_change"
        /\ status[r] = "normal" => InLogView(r) /\ dvc_quorum[r] = FALSE /\ StartsView(view_headers[r])
    BY NormalFacts
  <1>2. CASE \/ OnRequest(r) \/ \E p \in prepared : OnPrepare(r, p)
             \/ \E m \in commits : OnCommit(r, m)
    <2>1. UNCHANGED <<viewVars, durable>> /\ status[r] = "normal"
      BY <1>2 DEF OnRequest, OnPrepare, OnCommit
    <2> QED
      BY <1>1, <2>1 DEF HasBlanks, InLogView, viewVars
  <1>3. CASE \/ PrimaryCommit(r) \/ SendCommit(r) \/ CommitJournal(r) \/ RepairStep(r)
             \/ WriteStep(r) \/ DoViewChangeTimeout(r)
    <2>1. UNCHANGED <<viewVars, durable, op>>
      <3>1. CASE RepairStep(r)
        BY <3>1, RepairFacts
      <3>2. CASE ~RepairStep(r)
        BY <1>3, <3>2 DEF PrimaryCommit, SendCommit, CommitJournal, WriteStep, WriteDone,
                          DoViewChangeTimeout, logVars
      <3> QED
        BY <3>1, <3>2
    <2>2. dvc_quorum[r] => commit_max' = commit_max
      <3>1. CASE RepairStep(r)
        BY <3>1, RepairFacts DEF commitVars
      <3>2. CASE ~RepairStep(r)
        BY <1>1, <1>3, <3>2 DEF PrimaryCommit, SendCommit, CommitJournal, WriteStep, WriteDone,
                                DoViewChangeTimeout, commitVars
      <3> QED
        BY <3>1, <3>2
    <2>3. \A o \in Op : journal'[r][o].header = None => journal[r][o].header = None
      <3>1. CASE RepairStep(r)
        <4>1. CASE journal' = journal
          BY <4>1
        <4>2. CASE journal' # journal
          <5>1. PICK p \in prepared :
                        p \in Prepare /\ journal' = [journal EXCEPT ![r][OpOf(p)] = SetHeader(@, p)]
            BY <3>1, <4>2, RepairFacts
          <5> QED
            BY <5>1, JournalAfterSet
        <4> QED
          BY <4>1, <4>2
      <3>2. CASE ~RepairStep(r)
        <4>1. KeepsLog(r)
          BY <1>3 DEF KeepsLog, CommitStep
        <4> QED
          BY <3>2, <4>1, HeadKept
      <3> QED
        BY <3>1, <3>2
    <2>4. \A o \in commit_max[r]..op[r] : o \in Op
      <3>1. commit_max[r] \in Op /\ op[r] \in Op /\ OpMax \in Nat
        BY CountsAssumption DEF TypeInv, LocalTypes, ReplicaTypes
      <3> QED
        BY <3>1 DEF Op
    <2> QED
      BY <2>1, <2>2, <2>3, <2>4 DEF HasBlanks, InLogView, viewVars
  <1>4. CASE LeavesView(r)
    <2>1. PICK v \in View : /\ ViewChangeTo(r, v) /\ view[r] < v
                            /\ status[r] \in {"normal", "view_change"}
      BY <1>4 DEF LeavesView
    <2>2. durable' = durable /\ dvc_quorum'[r] = FALSE /\ log_view' = log_view
      BY <2>1 DEF ViewChangeTo, TypeInv, Functions
    <2>3. BlanksOf(view_headers'[r].headers, log_view[r])
      <3>1. CASE InLogView(r)
        <4> DEFINE repairing == status[r] = "view_change"
        <4>1. view_headers'[r] = DoViewChangeHeaders(journal[r], op[r], commit_max[r],
                                                     view_headers[r].headers, repairing)
          BY <2>1, <3>1 DEF ViewChangeTo, InLogView, TypeInv, Functions
        <4>2. repairing \in BOOLEAN /\ (repairing <=> status[r] = "view_change")
          OBVIOUS
        <4> HIDE DEF repairing
        <4> QED
          BY <2>1, <3>1, <4>1, <4>2, LeftBlanks
      <3>2. CASE ~InLogView(r)
        <4>1. view_headers' = view_headers
          BY <2>1, <3>2 DEF ViewChangeTo, InLogView
        <4> QED
          BY <3>2, <4>1 DEF HasBlanks
      <3> QED
        BY <3>1, <3>2
    <2> QED
      BY <2>2, <2>3 DEF HasBlanks
  <1>5. CASE OnDoViewChange(r)
    <2>1. /\ log_view'[r] = view[r]
          /\ UNCHANGED <<status, view, view_headers, durable, commit_min, committed, diskVars,
                         incarnation, netVars>>
      BY <1>5, NewPrimaryFacts
    <2>2. PICK Q \in DoViewChangeQuorums(r) :
                /\ HigherOf(commit_max[r], CommitMaxOf(Q)) <= OpHead(Q)
                /\ op'[r] = OpHead(Q)
                /\ commit_max'[r] = HigherOf(commit_max[r], CommitMaxOf(Q))
                /\ journal'[r] = QuorumJournal(journal[r], Q)
      BY <1>5, NewPrimaryFacts
    <2>3. /\ CommitMaxOf(Q) \in Op /\ OpHead(Q) \in Op /\ Q \subseteq do_view_changes
          /\ Canonical(Q) \subseteq Q
          /\ \A o \in CommitMaxOf(Q)..OpHead(Q) :
                  HeaderCanonical(Q, o) \in HeadersAt(Canonical(Q), o)
      BY <2>2, QuorumFacts
    <2>4. \A o \in CommitMaxOf(Q)..OpHead(Q) : journal'[r][o].header = HeaderCanonical(Q, o)
      BY <2>2, QuorumJournalFacts
    <2>5. \A o \in CommitMaxOf(Q)..OpHead(Q) : journal'[r][o].header # None
      BY <2>3, <2>4, HeadersAtFacts
    <2>6. commit_max[r] \in Op
      BY DEF TypeInv, LocalTypes, ReplicaTypes
    <2>7. \A o \in commit_max'[r]..op'[r] : o \in CommitMaxOf(Q)..OpHead(Q)
      BY <2>2, <2>3, <2>6 DEF HigherOf, Op
    <2> QED
      BY <2>1, <2>5, <2>7 DEF HasBlanks, InLogView
  <1>6. CASE Answers(r) \/ StartViewAsTheNewPrimary(r) \/ \E m \in start_views : OnStartView(r, m)
    <2>1. durable' = durable /\ InLogView(r)'
          /\ (dvc_quorum'[r] => dvc_quorum[r] /\ UNCHANGED <<op, commit_max, journal>>)
      <3>1. CASE Answers(r)
        BY <1>1, <3>1 DEF Answers, PrimarySendStartView, InLogView, logVars, commitVars
      <3>2. CASE StartViewAsTheNewPrimary(r)
        BY <1>1, <3>2 DEF StartViewAsTheNewPrimary, InLogView, TypeInv, Functions
      <3>3. CASE \E m \in start_views : OnStartView(r, m)
        BY <3>3 DEF OnStartView, InLogView, TypeInv, Functions
      <3> QED
        BY <1>6, <3>1, <3>2, <3>3
    <2> QED
      BY <2>1 DEF HasBlanks
  <1>7. CASE ViewDurableUpdate(r)
    <2>1. /\ UNCHANGED <<viewVars, op, commit_max, journal>>
          /\ durable'[r] = [view |-> view[r], log_view |-> log_view[r],
                            commit_max |-> commit_max[r], view_headers |-> view_headers[r]]
          /\ log_view[r] = view[r] => StartsView(view_headers[r])
      BY <1>7 DEF ViewDurableUpdate, logVars, commitVars, TypeInv, Functions, StartsView
    <2>2. BlanksOf(view_headers[r].headers, log_view[r])
      <3>1. CASE InLogView(r)
        <4>1. view_headers[r] = StartViewHeaders(ViewHead(view_headers[r]))
          BY <2>1, <3>1 DEF LogInv, HeadersOfView, InLogView
        <4>2. ViewHead(view_headers[r]) \in Known
          BY HeadersFacts DEF TypeInv, LocalTypes, HeadersTypes, ViewHead
        <4> QED
          BY <4>1, <4>2, StartViewBlanks
      <3>2. CASE ~InLogView(r)
        BY <3>2 DEF HasBlanks
      <3> QED
        BY <3>1, <3>2
    <2> QED
      BY <2>1, <2>2 DEF HasBlanks, InLogView, viewVars
  <1> QED
    BY <1>2, <1>3, <1>4, <1>5, <1>6, <1>7 DEF StepWithoutCrash, CommitStep

-----------------------------------------------------------------------------
(* Views that have started, over a step. *)

\* A replica that is not the primary has a log of a view only from an SV; a primary writes its
\* log_view to the superblock and sends an SV with it.
LEMMA HasStartedStep ==
    ASSUME TypeInv, NEW r \in Replica, StepWithoutCrash(r), HasStarted(r), Others(r), Goes(r)
    PROVE  HasStarted(r)'
  <1>1. \A v : Started(v) => Started(v)'
    BY DEF Goes, Started
  <1>2. ASSUME log_view'[r] = log_view[r], durable' = durable PROVE HasStarted(r)'
    BY <1>1, <1>2 DEF HasStarted
  <1>3. CASE \/ OnRequest(r) \/ \E p \in prepared : OnPrepare(r, p)
             \/ CommitStep(r) \/ WriteStep(r) \/ RepairStep(r)
             \/ LeavesView(r) \/ DoViewChangeTimeout(r)
             \/ Answers(r) \/ StartViewAsTheNewPrimary(r)
    <2>1. UNCHANGED <<log_view, durable>>
      <3>1. CASE OnRequest(r) \/ \E p \in prepared : OnPrepare(r, p)
        BY <3>1 DEF OnRequest, OnPrepare, viewVars
      <3>2. CASE CommitStep(r) \/ WriteStep(r) \/ RepairStep(r)
        BY <3>2 DEF CommitStep, PrimaryCommit, SendCommit, CommitJournal, OnCommit, WriteStep,
                    WriteDone, RepairStep, RepairHeader, OnRepair, viewVars
      <3>3. CASE LeavesView(r) \/ DoViewChangeTimeout(r) \/ Answers(r) \/ StartViewAsTheNewPrimary(r)
        BY <3>3 DEF LeavesView, ViewChangeTo, DoViewChangeTimeout, Answers, PrimarySendStartView,
                    StartViewAsTheNewPrimary, viewVars
      <3> QED
        BY <1>3, <3>1, <3>2, <3>3
    <2> QED
      BY <1>2, <2>1
  <1>4. CASE OnDoViewChange(r)
    <2>1. durable' = durable /\ log_view'[r] = view[r] /\ r = PrimaryIndex(view[r])
      BY <1>4, NewPrimaryFacts
    <2> QED
      BY <1>1, <2>1 DEF HasStarted
  <1>5. CASE \E m \in start_views : OnStartView(r, m)
    <2>1. PICK m \in start_views : OnStartView(r, m)
      BY <1>5
    <2>2. durable' = durable /\ log_view'[r] = m.view
      BY <2>1 DEF OnStartView, TypeInv, Functions
    <2>3. Started(m.view)
      BY DEF Started
    <2> QED
      BY <1>1, <2>2, <2>3 DEF HasStarted
  <1>6. CASE ViewDurableUpdate(r)
    <2>1. /\ log_view' = log_view
          /\ durable'[r].log_view = log_view[r] /\ durable'[r].view = view[r]
          /\ log_view[r] = view[r] /\ r = PrimaryIndex(view[r]) =>
                start_views' = start_views \cup {StartView(r, None)}
      BY <1>6 DEF ViewDurableUpdate, viewVars, TypeInv, Functions
    <2>2. log_view[r] = view[r] /\ r = PrimaryIndex(view[r]) =>
                \E m \in start_views' : m.view = log_view[r]
      <3> SUFFICES ASSUME log_view[r] = view[r], r = PrimaryIndex(view[r])
                   PROVE  \E m \in start_views' : m.view = log_view[r]
        OBVIOUS
      <3>1. StartView(r, None) \in start_views'
        BY <2>1
      <3>2. StartView(r, None).view = view[r]
        BY DEF StartView
      <3> QED
        BY <3>1, <3>2
    <2>3. ASSUME r = PrimaryIndex(log_view[r]), log_view[r] = view[r]
          PROVE  Started(durable[r].log_view)'
      BY <2>1, <2>2, <2>3 DEF Started
    <2> QED
      BY <1>1, <2>1, <2>3 DEF HasStarted
  <1> QED
    BY <1>3, <1>4, <1>5, <1>6 DEF StepWithoutCrash

\* An SV that answers a request has its nonce, which is not older than the replica.
LEMMA NoncesStep ==
    ASSUME TypeInv, NEW r \in Replica, StepWithoutCrash(r)
    PROVE  /\ incarnation' = incarnation
           /\ \A m \in start_views' \ start_views :
                m.nonce = None \/ \E q \in Replica : m.nonce = <<q, incarnation[q]>>
  <1>1. CASE \/ OnRequest(r) \/ \E p \in prepared : OnPrepare(r, p)
             \/ CommitStep(r) \/ WriteStep(r) \/ RepairStep(r)
             \/ LeavesView(r) \/ DoViewChangeTimeout(r) \/ StartViewAsTheNewPrimary(r)
             \/ \E m \in start_views : OnStartView(r, m)
    <2>1. UNCHANGED <<incarnation, start_views>>
      <3>1. CASE OnRequest(r) \/ \E p \in prepared : OnPrepare(r, p)
        BY <3>1 DEF OnRequest, OnPrepare, netVars
      <3>2. CASE CommitStep(r) \/ WriteStep(r) \/ RepairStep(r)
        BY <3>2 DEF CommitStep, PrimaryCommit, SendCommit, CommitJournal, OnCommit, WriteStep,
                    WriteDone, RepairStep, RepairHeader, OnRepair, netVars
      <3>3. CASE \/ LeavesView(r) \/ DoViewChangeTimeout(r) \/ StartViewAsTheNewPrimary(r)
                 \/ \E m \in start_views : OnStartView(r, m)
        BY <3>3 DEF LeavesView, ViewChangeTo, DoViewChangeTimeout, StartViewAsTheNewPrimary,
                    OnStartView
      <3> QED
        BY <1>1, <3>1, <3>2, <3>3
    <2> QED
      BY <2>1
  <1>2. CASE OnDoViewChange(r)
    <2>1. UNCHANGED <<incarnation, start_views>>
      BY <1>2, NewPrimaryFacts DEF netVars
    <2> QED
      BY <2>1
  <1>3. CASE Answers(r)
    <2>1. PICK nonce \in {None} \cup {<<q, incarnation[q]>> : q \in Replica} :
                PrimarySendStartView(r, nonce)
      BY <1>3 DEF Answers
    <2>2. \A m \in start_views' \ start_views : m.nonce = nonce
      BY <2>1 DEF PrimarySendStartView, StartView
    <2> QED
      BY <2>1, <2>2 DEF PrimarySendStartView
  <1>4. CASE ViewDurableUpdate(r)
    BY <1>4 DEF ViewDurableUpdate, StartView
  <1> QED
    BY <1>1, <1>2, <1>3, <1>4 DEF StepWithoutCrash

\* What a new DVC says of the root and of blanks.
LEMMA NewVotesFacts ==
    ASSUME TypeInv', NEW r \in Replica, KeepsRoot(r)', HasBlanks(r)', NewVotes(r),
           NEW m \in do_view_changes' \ do_view_changes
    PROVE  0 \notin m.nacks /\ BlanksOf(m.headers, m.log_view)
  <1>1. m = DoViewChange(r)' /\ ~InLogView(r)'
    BY DEF NewVotes
  <1>2. 0 \notin m.nacks
    BY <1>1, RootNotNackedNow
  <1>3. m.headers = view_headers'[r].headers /\ m.log_view = log_view'[r]
    BY <1>1 DEF DoViewChange
  <1> QED
    BY <1>1, <1>2, <1>3 DEF HasBlanks

-----------------------------------------------------------------------------
(* The log of a new primary. *)

\* A new primary r that counts DVCs: no prepare of the log is lost in its view, even when r itself
\* acknowledges nothing more in the views before its own.
GoneWith(r, v, p) == {s \in Replica \ Acked(v, p) : s = r \/ durable[s].view > v}
Survives(r, f, p) ==
    /\ Path(f, p)
    /\ \A i \in 1..OpOf(p) : ~(Cardinality(GoneWith(r, f[i], Ancestor(p, i))) >= QuorumNack)

\* A quorum has one that acknowledged what survives; no nack quorum is of others only.
LEMMA GoneWithFacts ==
    ASSUME TypeInv, NEW r \in Replica, NEW v, NEW p,
           ~(Cardinality(GoneWith(r, v, p)) >= QuorumNack),
           NEW S \in SUBSET Replica, \A s \in S : s = r \/ durable[s].view > v
    PROVE  /\ Cardinality(S) >= QuorumViewChange => S \cap Acked(v, p) # {}
           /\ S \cap Acked(v, p) = {} => ~(Cardinality(S) >= QuorumNack)
  <1>1. GoneWith(r, v, p) \in SUBSET Replica
    BY DEF GoneWith
  <1>2. ASSUME S \cap Acked(v, p) = {}, Cardinality(S) >= QuorumNack PROVE FALSE
    <2>1. S \subseteq GoneWith(r, v, p)
      BY <1>2 DEF GoneWith
    <2>2. IsFiniteSet(GoneWith(r, v, p)) /\ IsFiniteSet(S)
      BY <1>1, ReplicaFinite, FS_Subset
    <2>3. Cardinality(S) <= Cardinality(GoneWith(r, v, p))
      BY <2>1, <2>2, FS_Subset
    <2> QED
      BY <1>2, <2>2, <2>3, FS_CardinalityType, CountsAssumption, QuorumAssumption DEF QuorumNack
  <1>3. ASSUME S \cap Acked(v, p) = {}, Cardinality(S) >= QuorumViewChange PROVE FALSE
    <2>1. Cardinality(S) \in Nat
      BY ReplicaFinite, FS_Subset, FS_CardinalityType
    <2>2. Cardinality(S) >= QuorumNack
      BY <1>3, <2>1, CountsAssumption, QuorumAssumption DEF QuorumNack
    <2> QED
      BY <1>2, <1>3, <2>2
  <1> QED
    BY <1>2, <1>3

\* What survives is alive for the new primary, and for all that are in a later view for good; so
\* does the beginning of it.
LEMMA SurvivesFacts ==
    ASSUME TypeInv, NEW r \in Replica, NEW p \in prepared, NEW f \in Paths, Survives(r, f, p)
    PROVE  /\ Alive(Nobody, f, p) /\ Alive(r, f, p)
           /\ \A s \in Replica : f[OpOf(p)] < durable[s].view => Alive(s, f, p)
           /\ \A i \in 1..OpOf(p) : Survives(r, f, Ancestor(p, i))
  <1>1. Path(f, p)
    BY DEF Survives
  <1>2. \A i \in 1..OpOf(p) : f[i] \in Nat /\ f[i] <= f[OpOf(p)]
    BY <1>1, PathFacts
  <1>3. \A s \in Replica : durable[s].view \in Nat
    BY CountsAssumption DEF TypeInv, LocalTypes, HeadersTypes, View
  <1>4. ASSUME NEW q, \A s \in Replica, i \in 1..OpOf(p) :
                        Left(q, s, f[i]) => s = r \/ durable[s].view > f[i]
        PROVE  Alive(q, f, p)
    <2>1. ASSUME NEW i \in 1..OpOf(p) PROVE ~Lost(q, f[i], Ancestor(p, i))
      <3>1. PICK a : a = Ancestor(p, i)
        OBVIOUS
      <3>2. ~(Cardinality(GoneWith(r, f[i], a)) >= QuorumNack)
        BY <3>1 DEF Survives
      <3>3. Gone(q, f[i], a) \in SUBSET Replica /\ Gone(q, f[i], a) \cap Acked(f[i], a) = {}
        BY DEF Gone
      <3>4. \A s \in Gone(q, f[i], a) : s = r \/ durable[s].view > f[i]
        BY <1>4 DEF Gone
      <3>5. ~(Cardinality(Gone(q, f[i], a)) >= QuorumNack)
        BY <3>2, <3>3, <3>4, GoneWithFacts
      <3> QED
        BY <3>1, <3>5 DEF Lost
    <2> QED
      BY <1>1, <2>1 DEF Alive
  <1>5. Alive(Nobody, f, p)
    <2>1. \A s \in Replica : s # Nobody
      BY CountsAssumption DEF Replica, Nobody
    <2> QED
      BY <1>4, <2>1 DEF Left
  <1>6. Alive(r, f, p)
    BY <1>4 DEF Left
  <1>7. ASSUME NEW s \in Replica, f[OpOf(p)] < durable[s].view PROVE Alive(s, f, p)
    <2>1. \A i \in 1..OpOf(p) : durable[s].view > f[i]
      BY <1>2, <1>3, <1>7, PathFacts
    <2> QED
      BY <1>4, <2>1 DEF Left
  <1>8. ASSUME NEW i \in 1..OpOf(p) PROVE Survives(r, f, Ancestor(p, i))
    <2>1. PICK a : a = Ancestor(p, i)
      OBVIOUS
    <2>2. a \in prepared /\ OpOf(a) = i /\ Path(f, a) /\ OpOf(p) \in Nat
      BY <1>1, <2>1, Prefix, PreparedFacts
    <2>3. \A k \in 1..i : k \in 1..OpOf(p) /\ Ancestor(a, k) = Ancestor(p, k)
      BY <2>1, <2>2, PreparedFacts, CountsAssumption
    <2>4. Survives(r, f, a)
      BY <2>2, <2>3 DEF Survives
    <2> QED
      BY <2>1, <2>4
  <1> QED
    BY <1>5, <1>6, <1>7, <1>8

\* What is decided survives whatever comes.
LEMMA DecidedSurvives ==
    ASSUME TypeInv, NEW r \in Replica, NEW p \in prepared, NEW f \in Paths, Decided(f, p)
    PROVE  Survives(r, f, p)
  <1>1. ASSUME NEW i \in 1..OpOf(p) PROVE ~(Cardinality(GoneWith(r, f[i], Ancestor(p, i))) >= QuorumNack)
    <2>1. PICK a : a = Ancestor(p, i)
      OBVIOUS
    <2>2. Cardinality(Acked(f[i], a)) >= QuorumReplication
      BY <2>1 DEF Decided
    <2>3. GoneWith(r, f[i], a) \cap Acked(f[i], a) = {} /\ Acked(f[i], a) \in SUBSET Replica
          /\ GoneWith(r, f[i], a) \in SUBSET Replica
      BY AckedFacts DEF GoneWith
    <2> QED
      BY <2>1, <2>2, <2>3, NackQuorumIntersects
  <1> QED
    BY <1>1 DEF Decided, Survives

\* Replica r counts the DVCs of the view it is to lead.
Chooses(r, Q) ==
    /\ status[r] = "view_change" /\ r = PrimaryIndex(view[r]) /\ log_view[r] < view[r]
    /\ Q \in DoViewChangeQuorums(r)

\* The senders are done with the views before, and one of them acknowledged what survives; its
\* DVC has it.
LEMMA Voters ==
    ASSUME AckInv, NEW r \in Replica, NEW Q, Chooses(r, Q), NEW m \in Q,
           NEW p \in prepared, NEW f \in Paths, Survives(r, f, p), f[OpOf(p)] < view[r]
    PROVE  /\ m \in do_view_changes /\ m.view = view[r] /\ m.replica \in Replica
           /\ m.replica = r \/ (durable[m.replica].view >= view[r] /\ m.replica # PrimaryIndex(m.view))
           /\ \A i \in 1..OpOf(p) : m.replica = r \/ durable[m.replica].view > f[i]
           /\ \A i \in 1..OpOf(p) : m.replica \in Acked(f[i], Ancestor(p, i)) =>
                 /\ f[i] <= m.log_view
                 /\ Ancestor(p, i) \preceq m.headers[m.op] /\ i \notin m.nacks
  <1>1. TypeInv /\ IInv /\ AckedKept
    BY DEF AckInv
  <1>2. /\ m \in do_view_changes /\ m.view = view[r] /\ DoViewChangeTypes(m)
    BY <1>1, QuorumBasics DEF Chooses
  <1>3. m.replica \in Replica /\ durable[m.replica].view \in Nat /\ view[r] \in Nat
        /\ m.log_view \in Nat
    BY <1>1, <1>2, CountsAssumption
       DEF DoViewChangeTypes, TypeInv, LocalTypes, HeadersTypes, ReplicaTypes, View
  <1>4. m.replica = r \/ (durable[m.replica].view >= view[r] /\ m.replica # PrimaryIndex(m.view))
    BY <1>1, <1>2, <1>3 DEF IInv, AdvertisedDurable, Chooses
  <1>5. \A i \in 1..OpOf(p) : f[i] \in Nat /\ f[i] <= f[OpOf(p)] /\ f[OpOf(p)] \in Nat
    BY <1>1, PathFacts DEF Survives
  <1>6. \A i \in 1..OpOf(p) : m.replica = r \/ durable[m.replica].view > f[i]
    BY <1>3, <1>4, <1>5
  <1>7. ASSUME NEW i \in 1..OpOf(p), m.replica \in Acked(f[i], Ancestor(p, i))
        PROVE  /\ f[i] <= m.log_view
               /\ Ancestor(p, i) \preceq m.headers[m.op] /\ i \notin m.nacks
    <2>1. PICK a : a = Ancestor(p, i)
      OBVIOUS
    <2>2. a \in prepared /\ OpOf(a) = i /\ Survives(r, f, a)
      BY <1>1, <2>1, Prefix, SurvivesFacts
    <2>3. Alive(m.replica, f, a)
      <3>1. m.replica = r \/ f[OpOf(a)] < durable[m.replica].view
        BY <1>6, <2>2
      <3> QED
        BY <1>1, <1>3, <2>2, <3>1, SurvivesFacts
    <2>4. m.replica \in Acked(f[OpOf(a)], a)
      BY <1>7, <2>1, <2>2
    <2>5. InVotes(m.replica, f, a)
      BY <1>1, <1>3, <2>2, <2>3, <2>4 DEF AckedKept
    <2>6. m.view > f[OpOf(a)]
      BY <1>2, <1>3, <1>5, <2>2
    <2>7. a \preceq m.headers[m.op] /\ i \notin m.nacks
      BY <1>2, <2>2, <2>5, <2>6 DEF InVotes
    <2>8. PICK ok \in prepare_oks : ok.replica = m.replica /\ ok.view = f[i]
      BY <1>1, <1>7, AckedFacts
    <2>9. f[i] <= m.log_view
      BY <1>1, <1>2, <1>3, <1>5, <2>2, <2>6, <2>8 DEF IInv, DoViewChangePromise
    <2> QED
      BY <2>1, <2>7, <2>9
  <1> QED
    BY <1>2, <1>3, <1>4, <1>6, <1>7

\* One of the quorum acknowledged the prepare.
LEMMA VoterAcked ==
    ASSUME AckInv, NEW r \in Replica, NEW Q, Chooses(r, Q),
           NEW p \in prepared, NEW f \in Paths, Survives(r, f, p), f[OpOf(p)] < view[r],
           NEW i \in 1..OpOf(p)
    PROVE  \E m \in Q : m.replica \in Acked(f[i], Ancestor(p, i))
  <1> DEFINE S == {m.replica : m \in Q}
  <1>1. TypeInv /\ Q \in DoViewChangeQuorums(r)
    BY DEF AckInv, Chooses
  <1>2. Cardinality(S) >= QuorumViewChange
    BY <1>1, QuorumBasics
  <1>3. \A m \in Q : m.replica \in Replica /\ (m.replica = r \/ durable[m.replica].view > f[i])
    BY Voters
  <1>4. S \in SUBSET Replica /\ \A s \in S : s = r \/ durable[s].view > f[i]
    BY <1>3
  <1>5. ~(Cardinality(GoneWith(r, f[i], Ancestor(p, i))) >= QuorumNack)
    BY DEF Survives
  <1> HIDE DEF S
  <1>6. S \cap Acked(f[i], Ancestor(p, i)) # {}
    BY <1>1, <1>2, <1>4, <1>5, GoneWithFacts
  <1> QED
    BY <1>6 DEF S

\* The log that the canonical DVCs agree on has all that survives.
LEMMA TopHasAll ==
    ASSUME AckInv, NEW r \in Replica, NEW Q, Chooses(r, Q),
           NEW p \in prepared, NEW f \in Paths, Survives(r, f, p), f[OpOf(p)] < view[r],
           NEW c \in Canonical(Q), NEW T, T = c.headers[c.op], c.op = OpMaxCanonical(Q)
    PROVE  p \preceq T
  <1>1. TypeInv /\ IInv /\ LogInv /\ SafeLogs
    BY DEF AckInv
  <1>2. /\ Q \subseteq do_view_changes /\ LogViewMax(Q) \in View
        /\ \A m \in Q : m.log_view <= LogViewMax(Q)
        /\ \A m \in Canonical(Q) : m \in Q /\ m.op <= OpMaxCanonical(Q)
    BY <1>1, QuorumBasics DEF Chooses
  <1>3. c \in do_view_changes /\ c \in Q /\ c.log_view = LogViewMax(Q) /\ c.view = view[r]
    BY <1>1, <1>2, QuorumBasics DEF Canonical, Chooses
  <1>4. T \in Tips(LogViewMax(Q)) /\ T \in Prepare /\ OpOf(T) = OpMaxCanonical(Q) /\ OpOf(T) \in Nat
    BY <1>1, <1>3, VoteFacts
  <1>5. OpOf(p) \in 1..OpOf(p) /\ Ancestor(p, OpOf(p)) = p /\ p \in Prepare /\ OpOf(p) \in Nat
        /\ f[OpOf(p)] \in Nat
    BY <1>1, PreparedFacts, PathFacts
  <1>6. PICK m \in Q : m.replica \in Acked(f[OpOf(p)], p)
    <2>1. \E m \in Q : m.replica \in Acked(f[OpOf(p)], Ancestor(p, OpOf(p)))
      BY <1>5, VoterAcked
    <2> QED
      BY <1>5, <2>1
  <1>7. f[OpOf(p)] <= m.log_view /\ p \preceq m.headers[m.op]
    <2>1. m.replica \in Acked(f[OpOf(p)], Ancestor(p, OpOf(p)))
      BY <1>5, <1>6
    <2> QED
      BY <1>5, <2>1, Voters
  <1>8. m.log_view \in Nat /\ LogViewMax(Q) \in Nat /\ m.log_view <= LogViewMax(Q)
    BY <1>1, <1>2, VoteFacts, CountsAssumption DEF View
  <1>9. CASE f[OpOf(p)] < LogViewMax(Q)
    <2>1. Alive(PrimaryIndex(LogViewMax(Q)), f, p)
      <3>1. CASE LogViewDurable(LogViewMax(Q))
        <4>1. Alive(Nobody, f, p)
          BY <1>1, SurvivesFacts
        <4> QED
          BY <1>1, <1>2, <1>9, <3>1, <4>1, AliveFacts
      <3>2. CASE ~LogViewDurable(LogViewMax(Q))
        <4>1. c.replica = PrimaryIndex(LogViewMax(Q)) /\ c.replica = PrimaryIndex(view[r])
          BY <1>1, <1>3, <3>2 DEF LogInv, TipsDurable
        <4>2. PrimaryIndex(LogViewMax(Q)) = r
          BY <4>1 DEF Chooses
        <4> QED
          BY <1>1, <4>2, SurvivesFacts
      <3> QED
        BY <3>1, <3>2
    <2> QED
      BY <1>1, <1>2, <1>4, <1>9, <2>1 DEF SafeLogs
  <1>10. CASE ~(f[OpOf(p)] < LogViewMax(Q))
    <2>1. m.log_view = LogViewMax(Q) /\ m \in Canonical(Q)
      BY <1>5, <1>7, <1>8, <1>10 DEF Canonical
    <2>2. PICK t : t = m.headers[m.op]
      OBVIOUS
    <2>3. t \in Tips(LogViewMax(Q)) /\ t \in Prepare /\ OpOf(t) = m.op /\ m.op \in Nat
      BY <1>1, <1>2, <2>1, <2>2, VoteFacts
    <2>4. Comparable(t, T) /\ OpOf(t) <= OpOf(T)
      BY <1>1, <1>2, <1>4, <2>1, <2>3, TipsComparable
    <2>5. t \preceq T
      BY <1>4, <2>3, <2>4, ComparableFacts
    <2> QED
      BY <1>4, <1>5, <1>7, <2>2, <2>3, <2>5, BeginsFacts
  <1> QED
    BY <1>9, <1>10

\* Nothing of what survives has a nack quorum, from the op on that the quorum knows committed.
LEMMA NothingTruncated ==
    ASSUME AckInv, NEW r \in Replica, NEW Q, Chooses(r, Q),
           NEW p \in prepared, NEW f \in Paths, Survives(r, f, p), f[OpOf(p)] < view[r],
           NEW st \in 1..OpOf(p), CommitMaxOf(Q) <= st
    PROVE  ~Truncated(Q, st)
  <1>1. TypeInv /\ IInv /\ LogInv /\ Blanks
    BY DEF AckInv
  <1>2. /\ Q \subseteq do_view_changes /\ LogViewMax(Q) \in View /\ CommitMaxOf(Q) \in Op
        /\ \A m \in Q : m.log_view <= LogViewMax(Q) /\ Min(DOMAIN m.headers) <= CommitMaxOf(Q)
        /\ \A m, n \in Q : m.replica = n.replica => m = n
    BY <1>1, QuorumBasics DEF Chooses
  <1>3. PICK c \in Canonical(Q), T \in Tips(LogViewMax(Q)) :
          /\ T = c.headers[c.op] /\ c \in do_view_changes /\ c.log_view = LogViewMax(Q)
          /\ c.op = OpMaxCanonical(Q) /\ OpOf(T) = OpMaxCanonical(Q) /\ OpOf(T) \in Nat
          /\ T \in Prepare
          /\ \A o : HeaderCanonical(Q, o) # None => HeaderCanonical(Q, o) = Ancestor(T, o)
    BY <1>1, VotesTop DEF Chooses
  <1>4. PICK a : a = Ancestor(p, st)
    OBVIOUS
  <1>5. /\ a \in prepared /\ a \in Prepare /\ OpOf(a) = st /\ st \in Nat /\ a \preceq p /\ st \in Op
        /\ p \in Prepare /\ OpOf(p) \in Nat
    BY <1>1, <1>4, PreparedFacts, CountsAssumption
  <1>6. a \preceq T /\ a = Ancestor(T, st) /\ st <= OpOf(T)
    <2>1. p \preceq T
      BY <1>3, TopHasAll
    <2> QED
      BY <1>3, <1>5, <2>1, BeginsFacts
  <1>7. a # None /\ a # Root
    BY <1>1, <1>5, KnownFacts, PreparedFacts
  <1> DEFINE N == {m.replica : m \in Nacks(Q, st)}
  <1>8. ASSUME NEW m \in Nacks(Q, st), m.replica \in Acked(f[st], a)
        PROVE  FALSE
    <2>1. m \in Q /\ m \in do_view_changes /\ Min(DOMAIN m.headers) <= st
      <3>1. m \in Q /\ m \in do_view_changes
        BY <1>2 DEF Nacks
      <3>2. Min(DOMAIN m.headers) \in Nat /\ CommitMaxOf(Q) \in Nat
        BY <1>1, <1>2, <3>1, VoteFacts, OpFacts
      <3> QED
        BY <1>2, <1>5, <3>1, <3>2
    <2>2. PICK t : t = m.headers[m.op]
      OBVIOUS
    <2>3. a \preceq t /\ st \notin m.nacks
      BY <1>4, <1>8, <2>1, <2>2, Voters
    <2>4. /\ t \in Prepare /\ OpOf(t) = m.op /\ m.op \in Nat /\ Min(DOMAIN m.headers) \in Nat
          /\ DOMAIN m.headers = Min(DOMAIN m.headers)..m.op /\ Lineage(t, m.log_view)
          /\ m.log_view \in View /\ m.log_view \in Nat
          /\ \A o \in DOMAIN m.headers : m.headers[o] \in {None, Ancestor(t, o)}
      BY <1>1, <2>1, <2>2, VoteFacts, CountsAssumption DEF View
    <2>5. st <= m.op /\ a = Ancestor(t, st)
      BY <1>5, <2>3, <2>4, BeginsFacts
    <2>6. st \in DOMAIN m.headers
      BY <1>5, <2>1, <2>4, <2>5
    <2>7. m.headers[st] = a /\ a # HeaderCanonical(Q, st)
      <3>1. m.headers[st] \notin {None, HeaderCanonical(Q, st)}
        BY <2>3, <2>6 DEF Nacks
      <3> QED
        BY <2>4, <2>5, <2>6, <3>1
    <2>8. HeaderCanonical(Q, st) = None
      BY <1>3, <1>6, <2>7
    <2>9. \A x \in Canonical(Q) : st \notin DOMAIN x.headers \/ x.headers[st] = None
      <3>1. HeadersAt(Canonical(Q), st) = {}
        <4>1. HeadersAt(Canonical(Q), st) # {} =>
                HeaderCanonical(Q, st) \in HeadersAt(Canonical(Q), st)
          BY DEF HeaderCanonical
        <4>2. None \notin HeadersAt(Canonical(Q), st)
          BY DEF HeadersAt
        <4> QED
          BY <2>8, <4>1, <4>2
      <3> QED
        BY <3>1 DEF HeadersAt
    <2>10. m.log_view < LogViewMax(Q)
      <3>1. m \notin Canonical(Q)
        BY <1>7, <2>6, <2>7, <2>9
      <3>2. m.log_view # LogViewMax(Q) /\ m.log_view <= LogViewMax(Q) /\ LogViewMax(Q) \in Nat
        BY <1>2, <2>1, <3>1, CountsAssumption DEF Canonical, View
      <3> QED
        BY <2>4, <3>2
    <2>11. ViewOf(a) = LogViewMax(Q)
      <3>1. /\ DOMAIN c.headers = Min(DOMAIN c.headers)..c.op /\ Min(DOMAIN c.headers) \in Nat
            /\ c.op \in Nat
        BY <1>1, <1>3, VoteFacts
      <3>2. Min(DOMAIN c.headers) <= CommitMaxOf(Q) /\ CommitMaxOf(Q) \in Nat
        BY <1>2, OpFacts DEF Canonical
      <3>3. st \in DOMAIN c.headers
        BY <1>3, <1>5, <1>6, <3>1, <3>2
      <3>4. c.headers[st] = None
        BY <2>9, <3>3
      <3>5. c.op = HeadOp(c.headers)
        BY <1>1, <1>3 DEF TypeInv, MessageTypes, DoViewChangeTypes
      <3>6. BlanksOf(c.headers, c.log_view)
        BY <1>1, <1>3 DEF Blanks
      <3>7. ViewOf(Ancestor(T, st)) = LogViewMax(Q)
        BY <1>3, <3>3, <3>4, <3>5, <3>6 DEF BlanksOf
      <3> QED
        BY <1>6, <3>7
    <2>12. ViewOf(a) <= m.log_view
      <3>1. Lineage(a, m.log_view)
        BY <1>5, <2>3, <2>4, LineageFacts
      <3> QED
        BY <1>5, <2>4, <3>1, LineageFacts
    <2>13. LogViewMax(Q) \in Nat
      BY <1>2, CountsAssumption DEF View
    <2> QED
      BY <2>4, <2>10, <2>11, <2>12, <2>13
  <1>9. N \in SUBSET Replica /\ (\A s \in N : s = r \/ durable[s].view > f[st])
        /\ N \cap Acked(f[st], a) = {}
    <2>1. \A m \in Nacks(Q, st) : m.replica \in Replica /\ (m.replica = r \/ durable[m.replica].view > f[st])
      <3>1. \A m \in Nacks(Q, st) : m \in Q
        BY DEF Nacks
      <3> QED
        BY <3>1, Voters
    <2> QED
      BY <1>8, <2>1
  <1> HIDE DEF N
  <1>10. ~(Cardinality(N) >= QuorumNack)
    <2>1. ~(Cardinality(GoneWith(r, f[st], a)) >= QuorumNack)
      BY <1>4 DEF Survives
    <2> QED
      BY <1>1, <1>9, <2>1, GoneWithFacts
  <1>11. /\ Cardinality(Nacks(Q, st)) <= Cardinality(N)
         /\ Cardinality(N) \in Nat /\ Cardinality(Nacks(Q, st)) \in Nat /\ QuorumNack \in Int
    <2> DEFINE g == [m \in Nacks(Q, st) |-> m.replica]
    <2>1. g \in Injection(Nacks(Q, st), N)
      BY <1>2 DEF Nacks, Injection, IsInjective, N
    <2>2. IsFiniteSet(N)
      BY <1>9, ReplicaFinite, FS_Subset
    <2> HIDE DEF g
    <2>3. IsFiniteSet(Nacks(Q, st)) /\ Cardinality(Nacks(Q, st)) <= Cardinality(N)
      BY <2>1, <2>2, FS_Injection
    <2> QED
      BY <2>2, <2>3, FS_CardinalityType, CountsAssumption, QuorumAssumption DEF QuorumNack
  <1> QED
    BY <1>10, <1>11 DEF Truncated

\* The new log has all that survives.
LEMMA NewLogKeeps ==
    ASSUME AckInv, NEW r \in Replica, NEW Q, Chooses(r, Q),
           NEW p \in prepared, NEW f \in Paths, Survives(r, f, p), f[OpOf(p)] < view[r]
    PROVE  /\ OpHead(Q) >= 0 \/ CommitMaxOf(Q) > 0 => OpOf(p) <= OpHead(Q)
           /\ OpOf(p) <= OpMaxCanonical(Q)
           /\ \A o \in OpOf(p)..OpHead(Q) : CommitMaxOf(Q) <= o => p \preceq HeaderCanonical(Q, o)
  <1>1. TypeInv /\ IInv /\ LogInv /\ Q \in DoViewChangeQuorums(r)
    BY DEF AckInv, Chooses
  <1>2. /\ CommitMaxOf(Q) \in Op /\ OpMaxCanonical(Q) \in Op
        /\ OpHead(Q) \in Int /\ OpHead(Q) <= OpMaxCanonical(Q)
        /\ \A o \in CommitMaxOf(Q)..OpHead(Q) : HeaderCanonical(Q, o) \in HeadersAt(Canonical(Q), o)
        /\ OpHead(Q) < OpMaxCanonical(Q) =>
               CommitMaxOf(Q) <= OpHead(Q) + 1 /\ Truncated(Q, OpHead(Q) + 1)
    BY <1>1, QuorumBasics
  <1>3. PICK c \in Canonical(Q), T \in Tips(LogViewMax(Q)) :
          /\ T = c.headers[c.op] /\ c.op = OpMaxCanonical(Q) /\ OpOf(T) = OpMaxCanonical(Q)
          /\ OpOf(T) \in Nat /\ T \in Prepare
          /\ \A o : \A q \in HeadersAt(Canonical(Q), o) : q = Ancestor(T, o) /\ o \in 0..OpOf(T)
    BY <1>1, VotesTop
  <1>4. p \preceq T /\ p \in Prepare /\ OpOf(p) \in Nat /\ OpOf(p) > 0
    BY <1>1, <1>3, TopHasAll, PreparedFacts
  <1>5. OpOf(p) <= OpOf(T)
    BY <1>3, <1>4, BeginsFacts
  <1>6. ASSUME OpHead(Q) >= 0 \/ CommitMaxOf(Q) > 0, ~(OpOf(p) <= OpHead(Q)) PROVE FALSE
    <2>1. OpHead(Q) + 1 \in 1..OpOf(p) /\ OpHead(Q) < OpMaxCanonical(Q)
      BY <1>2, <1>3, <1>4, <1>5, <1>6 DEF Op
    <2> QED
      BY <1>2, <2>1, NothingTruncated
  <1>7. ASSUME NEW o \in OpOf(p)..OpHead(Q), CommitMaxOf(Q) <= o PROVE p \preceq HeaderCanonical(Q, o)
    <2>1. HeaderCanonical(Q, o) = Ancestor(T, o) /\ o \in 0..OpOf(T)
      BY <1>2, <1>3, <1>4, <1>7 DEF Op
    <2>2. Ancestor(T, o) \preceq T /\ OpOf(Ancestor(T, o)) = o /\ Ancestor(T, o) \in Prepare
      BY <1>3, <2>1, BeginsFacts, AncestorFacts
    <2> QED
      BY <1>3, <1>4, <2>1, <2>2, BeginsFacts
  <1> QED
    BY <1>3, <1>5, <1>6, <1>7

\* What is alive for a primary with its DVC quorum survived when it counted them.
LEMMA AliveSurvives ==
    ASSUME TypeInv, TypeInv', NEW r \in Replica, OnDoViewChange(r),
           NEW p \in prepared, NEW f \in Paths, f[OpOf(p)] < view[r], Alive(r, f, p)'
    PROVE  Survives(r, f, p)
  <1>1. /\ log_view'[r] = view[r]
        /\ UNCHANGED <<durable, prepare_oks, start_views>>
    BY NewPrimaryFacts DEF netVars
  <1>2. Path(f, p)
    BY <1>1 DEF Alive, Path, InLog
  <1>3. \A i \in 1..OpOf(p) : f[i] <= f[OpOf(p)] /\ f[i] \in Nat
    BY <1>2, PathFacts
  <1>4. ASSUME NEW i \in 1..OpOf(p)
        PROVE  ~(Cardinality(GoneWith(r, f[i], Ancestor(p, i))) >= QuorumNack)
    <2>1. PICK a : a = Ancestor(p, i)
      OBVIOUS
    <2>2. ~Lost(r, f[i], a)'
      BY <2>1 DEF Alive
    <2>3. view[r] > f[i]
      <3>1. view[r] \in Nat /\ f[OpOf(p)] \in Nat
        BY PathFacts, CountsAssumption DEF TypeInv, LocalTypes, ReplicaTypes, View
      <3> QED
        BY <1>3, <3>1
    <2>4. GoneWith(r, f[i], a) \subseteq Gone(r, f[i], a)'
      BY <1>1, <2>3 DEF GoneWith, Gone, Left, Acked
    <2>5. GoneWith(r, f[i], a) \in SUBSET (Gone(r, f[i], a)')
      BY <2>4
    <2>6. Gone(r, f[i], a)' \in SUBSET Replica
      BY DEF Gone
    <2>7. ~(Cardinality(Gone(r, f[i], a)') >= QuorumNack)
      BY <2>2 DEF Lost
    <2>8. IsFiniteSet(Gone(r, f[i], a)') /\ IsFiniteSet(GoneWith(r, f[i], a))
          /\ Cardinality(GoneWith(r, f[i], a)) <= Cardinality(Gone(r, f[i], a)')
      BY <2>4, <2>6, ReplicaFinite, FS_Subset
    <2>9. ~(Cardinality(GoneWith(r, f[i], a)) >= QuorumNack)
      BY <2>7, <2>8, FS_CardinalityType, CountsAssumption, QuorumAssumption DEF QuorumNack
    <2> QED
      BY <2>1, <2>9
  <1> QED
    BY <1>2, <1>4 DEF Survives

\* The log of a new primary, when it has its DVC quorum.
LEMMA NewPrimaryLog ==
    ASSUME TypeInv, IInv, LogInv, NEW r \in Replica, OnDoViewChange(r)
    PROVE  \E Q : \E c \in Canonical(Q) : \E T \in Tips(LogViewMax(Q)) :
              /\ Chooses(r, Q) /\ HigherOf(commit_max[r], CommitMaxOf(Q)) <= OpHead(Q)
              /\ op'[r] = OpHead(Q) /\ OpHead(Q) \in Op /\ CommitMaxOf(Q) <= OpHead(Q)
              /\ commit_max'[r] = HigherOf(commit_max[r], CommitMaxOf(Q))
              /\ journal'[r] = QuorumJournal(journal[r], Q)
              /\ HeadHeader(r)' = HeaderCanonical(Q, OpHead(Q))
              /\ T = c.headers[c.op] /\ c \in do_view_changes /\ c \in Q /\ c.log_view = LogViewMax(Q)
              /\ c.op = OpMaxCanonical(Q) /\ OpOf(T) = OpMaxCanonical(Q) /\ OpOf(T) \in Nat
              /\ T \in Prepare /\ HeadHeader(r)' = Ancestor(T, OpHead(Q)) /\ OpHead(Q) \in 0..OpOf(T)
              /\ HeadHeader(r)' \preceq T /\ HeadHeader(r)' \in Prepare
              /\ OpOf(HeadHeader(r)') = OpHead(Q)
              /\ \A o \in CommitMaxOf(Q)..OpHead(Q) : journal'[r][o].header = Ancestor(T, o)
  <1>1. PICK Q \in DoViewChangeQuorums(r) :
          /\ HigherOf(commit_max[r], CommitMaxOf(Q)) <= OpHead(Q)
          /\ op'[r] = OpHead(Q)
          /\ commit_max'[r] = HigherOf(commit_max[r], CommitMaxOf(Q))
          /\ journal'[r] = QuorumJournal(journal[r], Q)
    BY NewPrimaryFacts
  <1>2. Chooses(r, Q)
    BY NewPrimaryFacts DEF Chooses
  <1>3. /\ OpHead(Q) \in Op /\ OpHead(Q) \in Nat /\ CommitMaxOf(Q) \in Nat
        /\ CommitMaxOf(Q) <= OpHead(Q) /\ OpHead(Q) <= OpMaxCanonical(Q)
        /\ OpMaxCanonical(Q) \in Nat
        /\ Canonical(Q) \subseteq Q
        /\ \A o \in CommitMaxOf(Q)..OpHead(Q) : HeaderCanonical(Q, o) \in HeadersAt(Canonical(Q), o)
    BY <1>1, QuorumFacts, OpFacts
  <1>4. PICK c \in Canonical(Q), T \in Tips(LogViewMax(Q)) :
          /\ T = c.headers[c.op] /\ c \in do_view_changes /\ c.log_view = LogViewMax(Q)
          /\ c.op = OpMaxCanonical(Q) /\ OpOf(T) = OpMaxCanonical(Q) /\ OpOf(T) \in Nat
          /\ T \in Prepare
          /\ \A o : \A p \in HeadersAt(Canonical(Q), o) : p = Ancestor(T, o) /\ o \in 0..OpOf(T)
    BY <1>1, VotesTop
  <1>5. \A o \in CommitMaxOf(Q)..OpHead(Q) : journal'[r][o].header = HeaderCanonical(Q, o)
    BY <1>1, QuorumJournalFacts
  <1>6. OpHead(Q) \in CommitMaxOf(Q)..OpHead(Q)
    BY <1>3
  <1>7. HeadHeader(r)' = HeaderCanonical(Q, OpHead(Q))
    BY <1>1, <1>5, <1>6 DEF HeadHeader
  <1>8. HeadHeader(r)' = Ancestor(T, OpHead(Q)) /\ OpHead(Q) \in 0..OpOf(T)
    BY <1>3, <1>4, <1>6, <1>7
  <1>9. HeadHeader(r)' \preceq T /\ HeadHeader(r)' \in Prepare /\ OpOf(HeadHeader(r)') = OpHead(Q)
    BY <1>4, <1>8, BeginsFacts, AncestorFacts
  <1> QED
    BY <1>1, <1>2, <1>3, <1>4, <1>5, <1>7, <1>8, <1>9

\* A new primary has in its log what is not lost in the views before: all of it, or, of what only
\* its own memory lost, at least nothing else.
LEMMA OnDoViewChangeNewLog ==
    ASSUME AckInv, TypeInv', NEW r \in Replica, OnDoViewChange(r)
    PROVE  NewLog(r)
  <1>1. TypeInv /\ IInv /\ LogInv
    BY DEF AckInv
  <1>2. PICK Q : \E c \in Canonical(Q) : \E T \in Tips(LogViewMax(Q)) :
              /\ Chooses(r, Q) /\ HigherOf(commit_max[r], CommitMaxOf(Q)) <= OpHead(Q)
              /\ op'[r] = OpHead(Q) /\ OpHead(Q) \in Op /\ CommitMaxOf(Q) <= OpHead(Q)
              /\ HeadHeader(r)' = HeaderCanonical(Q, OpHead(Q))
              /\ T = c.headers[c.op] /\ c \in do_view_changes /\ c \in Q /\ c.log_view = LogViewMax(Q)
              /\ T \in Prepare /\ HeadHeader(r)' \preceq T /\ HeadHeader(r)' \in Prepare
    BY <1>1, NewPrimaryLog
  <1>3. PICK c \in Canonical(Q), T \in Tips(LogViewMax(Q)) :
              /\ Chooses(r, Q) /\ HigherOf(commit_max[r], CommitMaxOf(Q)) <= OpHead(Q)
              /\ op'[r] = OpHead(Q) /\ OpHead(Q) \in Op /\ CommitMaxOf(Q) <= OpHead(Q)
              /\ HeadHeader(r)' = HeaderCanonical(Q, OpHead(Q))
              /\ T = c.headers[c.op] /\ c \in do_view_changes /\ c \in Q /\ c.log_view = LogViewMax(Q)
              /\ T \in Prepare /\ HeadHeader(r)' \preceq T /\ HeadHeader(r)' \in Prepare
    BY <1>2
  <1>4. /\ status[r] = "view_change" /\ r = PrimaryIndex(view[r]) /\ log_view[r] < view[r]
        /\ log_view'[r] = view[r] /\ view' = view
        /\ UNCHANGED <<durable, prepare_oks, start_views, prepared>>
    BY <1>1, NewPrimaryFacts DEF netVars
  <1>5. /\ Q \in DoViewChangeQuorums(r) /\ Q \subseteq do_view_changes
        /\ LogViewMax(Q) \in View /\ LogViewMax(Q) \in Nat
        /\ \A m \in Q : m.log_view <= LogViewMax(Q) /\ m.view = view[r]
        /\ Cardinality({m.replica : m \in Q}) >= QuorumViewChange
        /\ CommitMaxOf(Q) \in Nat /\ OpHead(Q) \in Nat
    <2>1. Q \in DoViewChangeQuorums(r)
      BY <1>3 DEF Chooses
    <2>2. LogViewMax(Q) \in View /\ CommitMaxOf(Q) \in Op
      BY <1>1, <2>1, QuorumBasics
    <2>3. LogViewMax(Q) \in Nat
      BY <2>2, CountsAssumption DEF View
    <2>4. CommitMaxOf(Q) \in Nat /\ OpHead(Q) \in Nat
      BY <1>3, <2>2, OpFacts
    <2> QED
      BY <1>1, <2>1, <2>2, <2>3, <2>4, QuorumBasics
  <1>6. view[r] \in Nat /\ log_view[r] \in Nat /\ \A s \in Replica : durable[s].view \in Nat
    BY <1>1, CountsAssumption DEF TypeInv, LocalTypes, ReplicaTypes, HeadersTypes, View
  <1>7. Cardinality({s \in Replica : Left(r, s, view[r] - 1)'}) >= QuorumViewChange
    <2> DEFINE S == {m.replica : m \in Q}
               L == {s \in Replica : Left(r, s, view[r] - 1)'}
    <2>1. \A m \in Q : m.replica \in Replica
                       /\ (m.replica = r \/ durable[m.replica].view >= view[r])
      <3> SUFFICES ASSUME NEW m \in Q
                   PROVE  m.replica \in Replica /\ (m.replica = r \/ durable[m.replica].view >= view[r])
        OBVIOUS
      <3>1. m \in do_view_changes /\ m.view = view[r]
        BY <1>5
      <3>2. m.replica \in Replica
        BY <1>1, <3>1, VoteFacts
      <3> QED
        BY <1>1, <1>4, <3>1, <3>2 DEF IInv, AdvertisedDurable
    <2>2. \A s \in Replica : s = r \/ durable[s].view >= view[r] => Left(r, s, view[r] - 1)'
      BY <1>4, <1>6 DEF Left
    <2>3. S \subseteq L /\ L \in SUBSET Replica
      BY <2>1, <2>2
    <2>4. Cardinality(S) >= QuorumViewChange
      BY <1>5
    <2> HIDE DEF S, L
    <2>5. IsFiniteSet(L) /\ IsFiniteSet(S) /\ Cardinality(S) <= Cardinality(L)
      BY <2>3, ReplicaFinite, FS_Subset
    <2>6. Cardinality(L) >= QuorumViewChange
      BY <2>4, <2>5, FS_CardinalityType, QuorumAssumption, CountsAssumption
    <2> QED
      BY <2>6 DEF L
  <1>8. ASSUME NEW p \in prepared, NEW f \in Paths, f[OpOf(p)] < view[r], Alive(r, f, p)'
        PROVE  p \preceq HeadHeader(r)'
    <2>1. Survives(r, f, p)
      BY <1>1, <1>8, AliveSurvives
    <2>2. OpOf(p) <= OpHead(Q) /\ OpOf(p) \in Nat
      BY <1>1, <1>3, <1>5, <1>8, <2>1, NewLogKeeps, PreparedFacts
    <2>3. OpHead(Q) \in OpOf(p)..OpHead(Q)
      BY <1>5, <2>2
    <2> QED
      BY <1>3, <1>8, <2>1, <2>3, NewLogKeeps
  <1>9. ASSUME NEW p \in prepared, NEW f \in Paths, f[OpOf(p)] < view[r],
               r \in Acked(f[OpOf(p)], p), Alive(Nobody, f, p)'
        PROVE  Comparable(p, HeadHeader(r)')
    <2>1. Alive(Nobody, f, p)
      <3>1. \A v, x : Gone(Nobody, v, x) = Gone(Nobody, v, x)'
        <4>1. \A s \in Replica : s # Nobody
          BY CountsAssumption DEF Replica, Nobody
        <4> QED
          BY <1>4, <4>1 DEF Gone, Left, Acked
      <3> QED
        BY <1>4, <1>9, <3>1 DEF Alive, Path, InLog, Lost
    <2>2. /\ f[OpOf(p)] <= log_view[r]
          /\ \A t \in Tips(log_view[r]) : f[OpOf(p)] < log_view[r] => Comparable(p, t)
          /\ \A w \in View : f[OpOf(p)] < w /\ LogViewDurable(w) =>
                \A t \in Tips(w) : p \preceq t
          /\ f[OpOf(p)] = log_view[r] => p \preceq HeadHeader(r)
      BY <1>4, <1>9, <2>1, AckedInLog
    <2>3. f[OpOf(p)] \in Nat /\ p \in Prepare
      BY <1>1, PathFacts, PreparedFacts
    <2>4. ~InLogView(r)
      BY <1>4, <1>6 DEF InLogView
    <2>5. \A m \in Q : m.replica = r => m.log_view = log_view[r]
      BY <1>1, <1>5, <2>4 DEF LogInv, DoViewChangesKept
    <2>6. log_view[r] <= LogViewMax(Q)
      <3>1. PICK m \in Q : m.replica = r
        BY <1>5 DEF DoViewChangeQuorums
      <3> QED
        BY <1>5, <2>5, <3>1
    <2>7. Comparable(p, T)
      <3>1. CASE f[OpOf(p)] < LogViewMax(Q) /\ LogViewDurable(LogViewMax(Q))
        BY <1>5, <2>2, <3>1 DEF Comparable
      <3>2. CASE f[OpOf(p)] < LogViewMax(Q) /\ ~LogViewDurable(LogViewMax(Q))
        <4>1. c.replica = PrimaryIndex(c.view)
          BY <1>1, <1>3, <3>2 DEF LogInv, TipsDurable
        <4>2. c.replica = r
          BY <1>3, <1>4, <1>5, <4>1
        <4>3. LogViewMax(Q) = log_view[r]
          BY <1>3, <2>5, <4>2
        <4> QED
          BY <2>2, <3>2, <4>3
      <3>3. CASE ~(f[OpOf(p)] < LogViewMax(Q))
        <4>1. f[OpOf(p)] = log_view[r] /\ LogViewMax(Q) = log_view[r]
          BY <1>5, <1>6, <2>2, <2>3, <2>6, <3>3
        <4>2. HasTip(r, log_view[r], HeadHeader(r))
          BY DEF HasTip
        <4>3. HeadHeader(r) \in Tips(LogViewMax(Q))
          BY <1>1, <4>1, <4>2, TipsKnown
        <4>4. Comparable(HeadHeader(r), T) /\ HeadHeader(r) \in Prepare
          BY <1>1, <1>5, <4>3, TipsComparable
        <4> QED
          BY <1>3, <2>2, <2>3, <4>1, <4>4, ComparableFacts
      <3> QED
        BY <3>1, <3>2, <3>3
    <2>8. CASE p \preceq T
      BY <1>3, <2>3, <2>8, ComparableFacts
    <2>9. CASE T \preceq p
      BY <1>3, <2>3, <2>9, BeginsFacts DEF Comparable
    <2> QED
      BY <2>7, <2>8, <2>9 DEF Comparable
  <1> QED
    BY <1>4, <1>7, <1>8, <1>9 DEF NewLog

\* The head of a log after a step.
LEMMA HeadFactsNow ==
    (TypeInv => \A r \in Replica : /\ HeadHeader(r) \in Known /\ HeadHeader(r) \in Prepare
                                    /\ OpOf(HeadHeader(r)) = op[r] /\ op[r] \in Nat)'
  <1>1. TypeInv => \A r \in Replica : /\ HeadHeader(r) \in Known /\ HeadHeader(r) \in Prepare
                                        /\ OpOf(HeadHeader(r)) = op[r] /\ op[r] \in Nat
    BY HeadFacts
  <1> QED
    BY <1>1, PTL

\* What is decided in a view before, a new primary has.
LEMMA NewPrimaryHasDecided ==
    ASSUME AckInv, NEW r \in Replica, NEW Q, Chooses(r, Q), OpHead(Q) \in Nat,
           CommitMaxOf(Q) <= OpHead(Q),
           NEW p \in prepared, NEW f \in Paths, Decided(f, p), f[OpOf(p)] < view[r]
    PROVE  OpOf(p) <= OpHead(Q) /\ p \preceq HeaderCanonical(Q, OpHead(Q))
  <1>1. TypeInv
    BY DEF AckInv
  <1>2. Survives(r, f, p) /\ OpOf(p) \in Nat
    BY <1>1, DecidedSurvives, PreparedFacts
  <1>3. OpOf(p) <= OpHead(Q)
    BY <1>2, NewLogKeeps
  <1>4. OpHead(Q) \in OpOf(p)..OpHead(Q)
    BY <1>2, <1>3
  <1> QED
    BY <1>2, <1>3, <1>4, NewLogKeeps

\* What a new primary puts in its slots is of its new log.
LEMMA NewSlots ==
    ASSUME AckInv, MessagesDecided, QuorumReplication >= 2, NEW r \in Replica, OnDoViewChange(r),
           NEW o \in Op, o <= op'[r]
    PROVE  journal'[r][o] \in {journal[r][o], SetHeader(journal[r][o], Ancestor(HeadHeader(r)', o))}
  <1>1. TypeInv /\ IInv /\ LogInv /\ ViewsStarted /\ SafeLogs
    BY DEF AckInv
  <1>2. PICK Q, T :
              /\ Chooses(r, Q) /\ HigherOf(commit_max[r], CommitMaxOf(Q)) <= OpHead(Q)
              /\ op'[r] = OpHead(Q) /\ OpHead(Q) \in Op /\ CommitMaxOf(Q) <= OpHead(Q)
              /\ journal'[r] = QuorumJournal(journal[r], Q)
              /\ HeadHeader(r)' = HeaderCanonical(Q, OpHead(Q))
              /\ T \in Tips(LogViewMax(Q)) /\ T \in Prepare /\ HeadHeader(r)' = Ancestor(T, OpHead(Q))
              /\ OpHead(Q) \in 0..OpOf(T)
              /\ HeadHeader(r)' \preceq T /\ HeadHeader(r)' \in Prepare
              /\ OpOf(HeadHeader(r)') = OpHead(Q)
              /\ \A k \in CommitMaxOf(Q)..OpHead(Q) : journal'[r][k].header = Ancestor(T, k)
    BY <1>1, NewPrimaryLog
  <1>3. PICK H : H = HeadHeader(r)'
    OBVIOUS
  <1>4. /\ H \in Known /\ H \in Prepare /\ OpOf(H) = OpHead(Q) /\ OpHead(Q) \in Nat
        /\ o \in Nat /\ o <= OpOf(H) /\ o \in 0..OpOf(H)
    <2>1. T \in Known
      BY <1>1, <1>2, TipsKnown
    <2>2. H \in Known
      BY <1>1, <1>2, <1>3, <2>1, KnownFacts
    <2> QED
      BY <1>2, <1>3, <2>2, OpFacts
  <1>5. ASSUME NEW q, q \in Known, OpOf(q) = o, Comparable(q, H) PROVE q = Ancestor(H, o)
    <2>1. q \in Prepare
      BY <1>1, <1>5, KnownFacts
    <2>2. q \preceq H
      BY <1>4, <1>5, <2>1, ComparableFacts
    <2> QED
      BY <1>4, <1>5, <2>1, <2>2, BeginsFacts
  <1>6. ASSUME NEW q, q = Root, o = 0 PROVE q = Ancestor(H, o)
    BY <1>4, <1>6, AncestorOfAncestor
  <1>7. ASSUME NEW m \in Q, o \in DOMAIN m.headers, NEW q, q = m.headers[o], q # None
        PROVE  /\ q \in Known /\ q \in Prepare /\ OpOf(q) = o /\ (o # 0 => q \in prepared)
               /\ m \in do_view_changes /\ m.view = view[r]
    <2>1. m \in do_view_changes /\ m.view = view[r]
      BY <1>1, <1>2, QuorumBasics DEF Chooses
    <2>2. q \in HeadersAt({m}, o)
      BY <1>7 DEF HeadersAt
    <2>3. q \in Known /\ q \in Prepare /\ OpOf(q) = o
      BY <1>1, <2>1, <2>2, HeadersAtFacts
    <2> QED
      BY <1>1, <2>1, <2>3, KnownFacts
  <1>8. ASSUME NEW m \in Q, o \in DOMAIN m.headers, NEW q, q = m.headers[o], q # None,
               o <= m.commit_min
        PROVE  q = Ancestor(H, o)
    <2>1. CASE o = 0
      BY <1>1, <1>6, <1>7, <1>8, <2>1, KnownFacts
    <2>2. CASE o # 0
      <3>1. PICK t : t = m.headers[m.op]
        OBVIOUS
      <3>2. /\ t \in Tips(m.log_view) /\ t \in Prepare /\ OpOf(t) = m.op /\ o \in 0..m.op
            /\ m.log_view \in View /\ m.log_view < m.view /\ q = Ancestor(t, o) /\ m.op \in Nat
        BY <1>1, <1>7, <1>8, <3>1, VoteFacts
      <3>3. PICK d \in prepared, g \in Paths : OpOf(d) = o /\ Decided(g, d) /\ g[o] <= m.log_view
        <4>1. DecidedTo(m.commit_min, m.log_view) /\ m.commit_min \in Int
          BY <1>1, <1>7, <1>8 DEF MessagesDecided, TypeInv, MessageTypes, DoViewChangeTypes, Op
        <4>2. o \in 1..m.commit_min
          BY <1>4, <1>8, <2>2, <4>1
        <4> QED
          BY <1>1, <3>2, <4>1, <4>2, DecidedToFacts
      <3>4. d \in Prepare /\ g[o] \in Nat
        BY <1>1, <3>3, PreparedFacts, PathFacts
      <3>5. Comparable(d, t)
        BY <1>1, <3>2, <3>3, DecidedInLog
      <3>6. d = q
        <4>1. d \preceq t
          BY <3>2, <3>3, <3>4, <3>5, ComparableFacts
        <4> QED
          BY <3>2, <3>3, <3>4, <4>1, BeginsFacts
      <3>7. g[OpOf(d)] < view[r]
        <4>1. m.log_view \in Nat /\ m.log_view < view[r] /\ view[r] \in Nat
          <5>1. m.view = view[r]
            BY <1>7, <1>8
          <5>2. m.log_view \in Nat /\ view[r] \in Nat
            BY <1>1, <3>2, CountsAssumption DEF View, TypeInv, LocalTypes, ReplicaTypes
          <5> QED
            BY <3>2, <5>1, <5>2
        <4> QED
          BY <3>3, <3>4, <4>1
      <3>8. d \preceq H
        BY <1>2, <1>3, <1>4, <3>3, <3>7, NewPrimaryHasDecided
      <3> QED
        BY <1>5, <1>7, <1>8, <3>6, <3>8 DEF Comparable
    <2> QED
      BY <2>1, <2>2
  <1>9. ASSUME NEW m \in Q, o \in DOMAIN m.headers, NEW q, q = m.headers[o], q # None,
               ViewOf(q) = ViewOf(H)
        PROVE  q = Ancestor(H, o)
    <2>1. CASE o = 0
      BY <1>1, <1>6, <1>7, <1>9, <2>1, KnownFacts
    <2>2. CASE o # 0
      <3>1. q \in prepared /\ H \in prepared
        <4>1. OpOf(H) # 0
          BY <1>4, <2>2
        <4> QED
          BY <1>1, <1>4, <1>7, <1>9, <2>2, <4>1, KnownFacts
      <3>2. SentTip(ViewOf(H), q) /\ SentTip(ViewOf(H), H)
        BY <1>9, <3>1 DEF SentTip
      <3>3. q \in Tips(ViewOf(H)) /\ H \in Tips(ViewOf(H)) /\ ViewOf(H) \in View
        BY <1>1, <1>4, <3>2, TipsKnown, ViewFacts
      <3>4. Comparable(q, H)
        BY <1>1, <3>3, TipsComparable
      <3> QED
        BY <1>5, <1>7, <1>9, <3>4
    <2> QED
      BY <2>1, <2>2
  <1>10. PICK slot : slot = QuorumJournal(journal[r], Q)[o]
    OBVIOUS
  <1>11. ~(o > OpHead(Q))
    BY <1>2, <1>4
  <1>12. CASE slot = journal[r][o]
    BY <1>2, <1>10, <1>12
  <1>13. CASE slot # journal[r][o]
    <2>1. PICK q : /\ slot = SetHeader(journal[r][o], q)
                   /\ \/ o \in CommitMaxOf(Q)..OpHead(Q)
                      \/ \E m \in Q : Offers(m, o, q) /\ o <= m.commit_min
                      \/ /\ \E m \in Q : Offers(m, o, q)
                         /\ \/ ViewOf(q) = ViewOf(HeaderCanonical(Q, OpHead(Q)))
                            \/ q = Ancestor(HeaderCanonical(Q, OpHead(Q)), o)
      BY <1>10, <1>11, <1>13, QuorumSlots
    <2>2. CASE o \in CommitMaxOf(Q)..OpHead(Q)
      <3>1. slot.header = q
        BY <2>1 DEF SetHeader
      <3>2. slot.header = Ancestor(T, o)
        BY <1>2, <1>10, <2>2
      <3>3. Ancestor(H, o) = Ancestor(T, o)
        BY <1>2, <1>3, <1>4, BeginsFacts
      <3> QED
        BY <1>2, <1>3, <1>10, <2>1, <3>1, <3>2, <3>3
    <2>3. CASE o \notin CommitMaxOf(Q)..OpHead(Q)
      <3>1. q = Ancestor(H, o)
        <4>1. H = HeaderCanonical(Q, OpHead(Q))
          BY <1>2, <1>3
        <4>2. (\E m \in Q : Offers(m, o, q) /\ o <= m.commit_min) => q = Ancestor(H, o)
          BY <1>8 DEF Offers
        <4>3. (\E m \in Q : Offers(m, o, q)) /\ ViewOf(q) = ViewOf(H) => q = Ancestor(H, o)
          BY <1>9 DEF Offers
        <4> QED
          BY <2>1, <2>3, <4>1, <4>2, <4>3
      <3> QED
        BY <1>2, <1>3, <1>10, <2>1, <3>1
    <2> QED
      BY <2>2, <2>3
  <1> QED
    BY <1>12, <1>13

\* What a new primary acknowledged before stays in its memory.
LEMMA NewPrimaryMemory ==
    ASSUME AckInv, TypeInv', MessagesDecided, QuorumReplication >= 2,
           NEW r \in Replica, OnDoViewChange(r)
    PROVE  MemoryStays(r)
  <1> SUFFICES ASSUME NEW p \in prepared, NEW f \in Paths, r \in Acked(f[OpOf(p)], p),
                      Alive(r, f, p), Alive(r, f, p)', InMemory(r, f, p)
               PROVE  InMemory(r, f, p)'
    BY DEF MemoryStays
  <1>1. TypeInv /\ IInv /\ LogInv
    BY DEF AckInv
  <1>2. /\ status'[r] = "view_change" /\ log_view[r] < view[r] /\ view'[r] = view[r]
    BY <1>1, NewPrimaryFacts
  <1>3. f[OpOf(p)] < view[r]
    <2>1. Alive(Nobody, f, p)
      BY <1>1, AliveFacts
    <2>2. f[OpOf(p)] <= log_view[r]
      BY <2>1, AckedInLog
    <2>3. f[OpOf(p)] \in Nat /\ log_view[r] \in Nat /\ view[r] \in Nat
      BY <1>1, PathFacts, CountsAssumption DEF TypeInv, LocalTypes, ReplicaTypes, View
    <2> QED
      BY <1>2, <2>2, <2>3
  <1>4. p \preceq HeadHeader(r)'
    <2>1. view[r] \in View
      BY <1>1 DEF TypeInv, LocalTypes, ReplicaTypes
    <2> QED
      BY <1>2, <1>3, <2>1, OnDoViewChangeNewLog DEF NewLog
  <1>5. p \in Prepare /\ OpOf(p) \in Op /\ OpOf(p) \in Nat
    BY <1>1, PreparedFacts
  <1>6. PICK H : H = HeadHeader(r)'
    OBVIOUS
  <1>7. H \in Prepare /\ OpOf(H) = op'[r]
    BY <1>6, HeadFactsNow
  <1>8. OpOf(p) <= op'[r] /\ p = Ancestor(H, OpOf(p))
    BY <1>4, <1>5, <1>6, <1>7, BeginsFacts
  <1>9. journal'[r][OpOf(p)] \in {journal[r][OpOf(p)], SetHeader(journal[r][OpOf(p)], p)}
    BY <1>5, <1>6, <1>8, NewSlots
  <1>10. HasOrHad(journal[r][OpOf(p)], p)
    BY DEF InMemory, HasOrHad
  <1>11. HasOrHad(journal'[r][OpOf(p)], p)
    BY <1>9, <1>10, SetHeaderKeeps
  <1> QED
    BY <1>2, <1>4, <1>11 DEF InMemory, HasOrHad

\* Every step but a crash is a safe one.
LEMMA NoCrashIsSafe ==
    ASSUME TypeInv, TypeInv', IInv, IInv', LogInv, LogInv', SafeInv, QuorumReplication >= 2,
           NEW r \in Replica, StepWithoutCrash(r)
    PROVE  SafeStep(r)
  <1>1. AckInv /\ MessagesDecided /\ KeepsRoot(r) /\ HasBlanks(r) /\ HasStarted(r)
        /\ CleanOnDisk(r)
    BY DEF AckInv, SafeInv, CommitsDecided, RootKept, Blanks, ViewsStarted
  <1>2. StepOf(r) /\ Goes(r) /\ Others(r)
    <2>1. StepOf(r)
      BY EveryStepOf
    <2> QED
      BY <2>1, StepGoes DEF StepOf
  <1>3. LeadsOn(r) /\ HeadStays(r)
    BY <1>1, OnDoViewChangeNewLog, EveryLeadsOn
  <1>4. NewVotes(r) /\ DiskStays(r)
    BY <1>1, <1>2, NewVotesStep, DiskStaysStep
  <1>5. MemoryStays(r)
    <2>1. CASE OnDoViewChange(r)
      BY <1>1, <2>1, NewPrimaryMemory
    <2>2. CASE ~OnDoViewChange(r)
      BY <1>1, <1>2, <2>2, MemoryStaysStep
    <2> QED
      BY <2>1, <2>2
  <1>6. AcksStay(r)
    BY <1>1, <1>2, <1>4, <1>5, AcksStayStep
  <1>7. CleanOnDisk(r)'
    BY <1>1, SlotsDirtyStep, CleanOnDiskStep
  <1>8. KeepsRoot(r)' /\ HasBlanks(r)' /\ HasStarted(r)'
    BY <1>1, <1>2, KeepsRootStep, HasBlanksStep, HasStartedStep
  <1>9. \A m \in do_view_changes' \ do_view_changes :
            0 \notin m.nacks /\ BlanksOf(m.headers, m.log_view)
    BY <1>4, <1>8, NewVotesFacts
  <1>10. /\ incarnation[r] <= incarnation'[r]
         /\ \A m \in start_views' \ start_views :
                m.nonce = None \/ \E q \in Replica : m.nonce = <<q, incarnation[q]>>
    <2>1. incarnation[r] \in Nat
      BY CountsAssumption DEF TypeInv, LocalTypes, ReplicaTypes
    <2> QED
      BY <2>1, NoncesStep
  <1> QED
    BY <1>2, <1>3, <1>6, <1>7, <1>8, <1>9, <1>10 DEF SafeStep

-----------------------------------------------------------------------------
(* Crash and recovery. *)

\* View headers let pass, at every op up to their head, the header of their own log (view_for_op).
LEMMA ViewForAncestor ==
    ASSUME TypeInv, NEW h, IsHeaders(h), OfOneLog(h), NEW v \in View,
           NEW D \in Prepare, D = h[HeadOp(h)], Lineage(D, v), NEW o \in 0..OpOf(D)
    PROVE  ViewOf(Ancestor(D, o)) \in ViewForOp(h, o, v)
  <1> DEFINE valid == {i \in DOMAIN h : h[i] # None}
             below == {i \in valid : i <= o}
             above == {i \in valid : i >= o}
             w == ViewOf(Ancestor(D, o))
  <1>1. /\ DOMAIN h \subseteq Nat /\ HeadOp(h) \in DOMAIN h /\ OpOf(D) = HeadOp(h)
        /\ OpOf(D) \in Nat /\ \A i \in DOMAIN h : i \in 0..OpOf(D)
    <2>1. /\ HeadOp(h) \in Op /\ Min(DOMAIN h) \in Op /\ HeadOp(h) \in DOMAIN h
          /\ DOMAIN h = Min(DOMAIN h)..HeadOp(h) /\ OpOf(h[HeadOp(h)]) = HeadOp(h)
      BY HeadersFacts
    <2>2. HeadOp(h) \in Nat /\ Min(DOMAIN h) \in Nat
      BY <2>1, OpFacts
    <2> QED
      BY <2>1, <2>2
  <1>2. \A i \in valid : i \in 0..OpOf(D) /\ h[i] = Ancestor(D, i)
    BY <1>1 DEF OfOneLog
  <1>3. OpOf(D) \in valid
    BY <1>1, NoneFacts
  <1>4. \A i, k \in 0..OpOf(D) : i <= k => ViewOf(Ancestor(D, i)) <= ViewOf(Ancestor(D, k))
    <2> TAKE i, k \in 0..OpOf(D)
    <2> HAVE i <= k
    <2>1. /\ Ancestor(D, i) \in Prepare /\ Ancestor(D, k) \in Prepare
          /\ OpOf(Ancestor(D, i)) = i /\ OpOf(Ancestor(D, k)) = k
          /\ Ancestor(D, i) \preceq D /\ Ancestor(D, k) \preceq D
      BY AncestorFacts, BeginsFacts
    <2>2. Ancestor(D, i) \preceq Ancestor(D, k)
      BY <2>1, BeginsFacts
    <2>3. Lineage(Ancestor(D, k), v)
      BY <2>1, LineageFacts
    <2> QED
      BY <2>1, <2>2, <2>3, LineageFacts
  <1>5. \A i \in 0..OpOf(D) : ViewOf(Ancestor(D, i)) \in Nat
    BY AncestorFacts, ViewFacts, CountsAssumption DEF View
  <1>6. ViewForOp(h, o, v) = (IF below = {} THEN 0 ELSE IF above = {} THEN v
                              ELSE ViewOf(h[Max(below)]))
                             ..(IF above = {} THEN v ELSE ViewOf(h[Min(above)]))
    BY DEF ViewForOp
  <1>7. above # {} /\ above \in SUBSET Int /\ below \in SUBSET Int /\ o \in Int
        /\ (\A y \in above : o <= y) /\ (\A y \in below : y <= o)
        /\ (\A y \in above : y \in valid) /\ (\A y \in below : y \in valid)
    BY <1>1, <1>2, <1>3
  <1> HIDE DEF above, below, valid
  <1>8. w <= ViewOf(h[Min(above)]) /\ ViewOf(h[Min(above)]) \in Nat
    <2>1. Min(above) \in above
      BY <1>7, MinFacts
    <2> QED
      BY <1>1, <1>2, <1>4, <1>5, <1>7, <2>1
  <1>9. below # {} => ViewOf(h[Max(below)]) <= w /\ ViewOf(h[Max(below)]) \in Nat
    <2> HAVE below # {}
    <2>1. Max(below) \in below
      BY <1>7, MaxFacts
    <2> QED
      BY <1>1, <1>2, <1>4, <1>5, <1>7, <2>1
  <1>10. w \in Nat
    BY <1>5
  <1> HIDE DEF w
  <1>11. w \in ViewForOp(h, o, v)
    <2> DEFINE lo == IF below = {} THEN 0 ELSE ViewOf(h[Max(below)])
               hi == ViewOf(h[Min(above)])
    <2>1. ViewForOp(h, o, v) = lo..hi
      BY <1>6, <1>7
    <2>2. lo \in Nat /\ hi \in Nat /\ lo <= w /\ w <= hi
      BY <1>8, <1>9, <1>10
    <2> HIDE DEF lo, hi
    <2> QED
      BY <1>10, <2>1, <2>2
  <1> QED
    BY <1>11 DEF w

\* Of a prepare that is on disk, or rotten there, and whose slot no other is written to, recovery
\* finds the prepare, or knows that the slot may have had one (recover_slots).
LEMMA RecoveredAcked ==
    ASSUME NEW r \in Replica, NEW p \in Prepare, NEW o,
           disk[r][o] \in {p, Rotten}, writing[r][o] \in {None, p},
           NEW s \in RecoveredSlots(r, o)
    PROVE  s.disk \in {p, Rotten} /\ s.slot \in {CleanSlot(p), FaultySlot}
  <1>1. p # None /\ p # Torn /\ p # Rotten /\ Rotten # None /\ Rotten # Torn
    BY NoneFacts
  <1>2. \E q \in {p, Rotten}, t \in {CleanSlot(p), FaultySlot} : s = [disk |-> q, slot |-> t]
    BY <1>1 DEF RecoveredSlots
  <1> QED
    BY <1>2

\* A crash takes a replica back to its superblock's log, or, from a view it was part of, to one
\* that goes on from it; either is a log of the superblock's log_view.
LEMMA CrashLog ==
    ASSUME TypeInv, IInv, LogInv, NEW r \in Replica, Crash(r),
           NEW D, D = ViewHead(durable[r].view_headers), NEW H, H = HeadHeader(r)'
    PROVE  /\ D \in Tips(durable[r].log_view) /\ H \in Tips(durable[r].log_view)
           /\ D \preceq H /\ D \in Prepare /\ H \in Prepare
           /\ OpOf(D) = HeadOp(durable[r].view_headers.headers) /\ OpOf(D) \in Nat
           /\ OpOf(H) = op'[r] /\ op'[r] \in Op /\ op'[r] \in Nat
           /\ durable[r].log_view \in View /\ durable[r].view \in View
           /\ durable[r].log_view <= durable[r].view
           /\ LogViewDurable(durable[r].log_view)
           /\ IsHeaders(durable[r].view_headers.headers)
           /\ OfOneLog(durable[r].view_headers.headers)
           /\ D = durable[r].view_headers.headers[HeadOp(durable[r].view_headers.headers)]
           /\ Lineage(D, durable[r].log_view)
           /\ durable[r].log_view < durable[r].view => H = D
           /\ durable[r].log_view = durable[r].view =>
                durable[r].view_headers = StartViewHeaders(D)
  <1> DEFINE d == durable[r]
             vh == d.view_headers
  <1>1. PICK found : RecoveredLog(r, found)
    BY CrashFacts
  <1>2. PICK retires \in BOOLEAN : Restarted(r, retires)
    BY CrashFacts
  <1>3. /\ d.view \in View /\ d.log_view \in View /\ d.log_view <= d.view
        /\ D \in Tips(d.log_view) /\ IsHeaders(vh.headers) /\ OfOneLog(vh.headers)
        /\ D = vh.headers[HeadOp(vh.headers)] /\ LogViewDurable(d.log_view)
        /\ d.log_view = d.view => vh = StartViewHeaders(D)
    <2>1. d.view \in View /\ d.log_view \in View /\ IsHeaders(vh.headers)
      BY DEF TypeInv, LocalTypes, HeadersTypes
    <2>2. D \in Tips(d.log_view)
      BY TipsKnown DEF HasTip
    <2>3. LogViewDurable(d.log_view)
      BY DEF LogInv, TipsDurable, LogViewsDurable
    <2> QED
      BY <2>1, <2>2, <2>3 DEF IInv, ViewOrder, LogInv, HeadersOfView, ViewHead
  <1>4. D \in Prepare /\ OpOf(D) = HeadOp(vh.headers) /\ OpOf(D) \in Nat /\ HeadOp(vh.headers) \in Op
    BY <1>3, HeadersFacts, KnownFacts, OpFacts
  <1>5. op'[r] \in Op /\ op'[r] \in Nat
    BY <1>1, OpFacts DEF RecoveredLog
  <1>6. Lineage(D, d.log_view)
    BY <1>3 DEF LogInv, TipViews
  <1>7. H \in Tips(d.log_view) /\ D \preceq H /\ H \in Prepare /\ OpOf(H) = op'[r]
        /\ (d.log_view < d.view => H = D)
    <2>1. CASE d.log_view = d.view
      <3>1. commit_max'[r] = HigherOf(d.commit_max, op'[r] - PipelineMax)
        BY <1>2 DEF Restarted
      <3>2. /\ H \in Tips(d.view) /\ D \preceq H /\ H # None /\ H \in Prepare
            /\ \A o \in Op : journal'[r][o].header \in HeadersOf(o)
        BY <1>1, <2>1, <3>1, RecoveredInLog
      <3>3. OpOf(H) = op'[r]
        BY <1>5, <3>2 DEF HeadHeader, HeadersOf
      <3> QED
        BY <1>3, <2>1, <3>2, <3>3 DEF View
    <2>2. CASE d.log_view # d.view
      <3>1. op'[r] = HeadOp(vh.headers)
        BY <1>1, <2>2 DEF RecoveredLog
      <3>2. journal'[r][op'[r]] = SetHeader(found[op'[r]], D) /\ found[op'[r]] \in Slot
        BY <1>1, <1>3, <1>4, <3>1 DEF RecoveredLog
      <3>3. H = D
        BY <1>4, <3>2, SetHeaderFacts DEF HeadHeader
      <3> QED
        BY <1>3, <1>4, <3>1, <3>3, BeginsFacts
    <2> QED
      BY <2>1, <2>2
  <1> HIDE DEF d, vh, LogViewDurable
  <1>8. /\ D \in Tips(d.log_view) /\ H \in Tips(d.log_view)
        /\ D \preceq H /\ D \in Prepare /\ H \in Prepare
        /\ OpOf(D) = HeadOp(vh.headers) /\ OpOf(D) \in Nat
        /\ OpOf(H) = op'[r] /\ op'[r] \in Op /\ op'[r] \in Nat
        /\ d.log_view \in View /\ d.view \in View /\ d.log_view <= d.view
        /\ LogViewDurable(d.log_view) /\ IsHeaders(vh.headers) /\ OfOneLog(vh.headers)
        /\ D = vh.headers[HeadOp(vh.headers)] /\ Lineage(D, d.log_view)
        /\ d.log_view < d.view => H = D
        /\ d.log_view = d.view => vh = StartViewHeaders(D)
    BY <1>3, <1>4, <1>5, <1>6, <1>7
  <1> QED
    BY <1>8 DEF d, vh

\* What a replica acknowledged, and may still count, is of the log in its superblock, or was
\* prepared in the view of that log and goes on from it.
LEMMA AckedAtCrash ==
    ASSUME AckInv, NEW r \in Replica, Crash(r), NEW p \in prepared, NEW f \in Paths, Path(f, p),
           r \in Acked(f[OpOf(p)], p)', Alive(Nobody, f, p), OnDisk(r, f, p),
           NEW D, D = ViewHead(durable[r].view_headers), NEW H, H = HeadHeader(r)'
    PROVE  \/ p \preceq D
           \/ /\ durable[r].log_view = durable[r].view /\ ViewOf(p) = durable[r].log_view
              /\ OpOf(p) > OpOf(D) /\ Comparable(p, H) /\ f[OpOf(p)] = durable[r].log_view
  <1> DEFINE d == durable[r]
             o == OpOf(p)
             u == f[o]
  <1>1. TypeInv /\ IInv /\ LogInv /\ ViewsStarted /\ AckedKept
    BY DEF AckInv
  <1>2. /\ D \in Tips(d.log_view) /\ H \in Tips(d.log_view)
        /\ D \preceq H /\ D \in Prepare /\ H \in Prepare /\ OpOf(D) \in Nat
        /\ d.log_view \in View /\ d.view \in View /\ d.log_view <= d.view
        /\ LogViewDurable(d.log_view)
        /\ d.log_view = d.view => d.view_headers = StartViewHeaders(D)
    BY <1>1, CrashLog
  <1>3. p \in Prepare /\ p \in Known /\ o \in Nat /\ o > 0 /\ o \in 1..o /\ Ancestor(p, o) = p
    BY <1>1, PreparedFacts
  <1>4. u \in View /\ u \in Nat /\ InLog(u, p) /\ d.log_view \in Nat /\ d.view \in Nat
    BY <1>1, <1>2, PathFacts, CountsAssumption DEF View
  <1>5. PICK m \in prepare_oks' : m.replica = r /\ m.view = u /\ m.prepare = p
    BY DEF Acked
  <1>6. m \in prepare_oks /\ m \notin OwnPrepareOks(r)
    BY <1>1, <1>5, CrashFacts
  <1>7. u <= d.log_view
    <2>1. CASE r = PrimaryIndex(u)
      <3>1. ~(u > d.log_view)
        BY <1>5, <1>6, <2>1 DEF OwnPrepareOks
      <3> QED
        BY <1>4, <3>1
    <2>2. CASE r # PrimaryIndex(u)
      BY <1>1, <1>5, <1>6, <2>2 DEF IInv, AdvertisedDurable
    <2> QED
      BY <2>1, <2>2
  <1>8. r \in Acked(u, p)
    BY <1>5, <1>6 DEF Acked
  <1>9. CASE u < d.log_view
    <2>1. \A w \in View : u < w /\ LogViewDurable(w) => \A t \in Tips(w) : p \preceq t
      BY <1>8, AckedInLog
    <2> QED
      BY <1>2, <1>9, <2>1
  <1>10. CASE u = d.log_view /\ d.log_view < d.view
    BY <1>10 DEF OnDisk
  <1>11. CASE u = d.log_view /\ d.log_view = d.view
    <2>1. CASE ViewOf(p) = u
      <3>1. p \in Tips(u)
        BY <1>1, <2>1, TipsKnown DEF SentTip
      <3>2. Comparable(p, D) /\ Comparable(p, H)
        BY <1>1, <1>2, <1>4, <1>11, <3>1, TipsComparable
      <3>3. o <= OpOf(D) => p \preceq D
        BY <1>2, <1>3, <3>2, ComparableFacts
      <3> QED
        BY <1>2, <1>3, <1>11, <2>1, <3>2, <3>3
    <2>2. CASE ViewOf(p) # u
      <3>1. ViewOf(p) < u /\ \A n \in start_views : n.view = u => p \preceq n.head
        BY <1>4, <2>2 DEF InLog
      <3>2. u # 0
        BY <1>3, <3>1, ViewFacts, CountsAssumption DEF View
      <3>3. Started(d.log_view)
        BY <1>1, <1>11 DEF ViewsStarted, HasStarted
      <3>4. PICK n \in start_views : n.view = u
        BY <1>11, <3>2, <3>3 DEF Started
      <3>5. n.head \in Tips(u) /\ n.head \in Prepare /\ p \preceq n.head
        <4>1. n.head \in Tips(u)
          BY <1>1, <3>4, TipsKnown DEF SentTip
        <4> QED
          BY <1>1, <3>1, <3>4, <4>1, TipsKnown
      <3>6. Continues(n.head, D, u) \/ Continues(D, n.head, u)
        BY <1>1, <1>2, <1>4, <1>11, <3>5 DEF LogInv, OneLogPerView
      <3>7. CASE Continues(n.head, D, u)
        BY <1>2, <1>3, <3>5, <3>7, BeginsFacts DEF Continues
      <3>8. CASE Continues(D, n.head, u)
        <4>1. D \preceq n.head /\ \A i \in (OpOf(D) + 1)..OpOf(n.head) : n.head[i] = u
          BY <3>8 DEF Continues
        <4>2. o <= OpOf(n.head) /\ OpOf(n.head) \in Nat /\ p[o] = n.head[o]
          BY <1>3, <3>5, BeginsFacts, OpFacts
        <4>3. ViewOf(p) = p[o]
          BY <1>1, <1>3, PreparedFacts, ViewFacts
        <4>4. ~(o > OpOf(D))
          <5> SUFFICES ASSUME o > OpOf(D) PROVE FALSE
            OBVIOUS
          <5>1. o \in (OpOf(D) + 1)..OpOf(n.head)
            BY <1>2, <1>3, <4>2
          <5> QED
            BY <2>2, <4>1, <4>2, <4>3, <5>1
        <4> QED
          BY <1>2, <1>3, <3>5, <4>1, <4>4, BeginsFacts
      <3> QED
        BY <3>6, <3>7, <3>8
    <2> QED
      BY <2>1, <2>2
  <1>12. u < d.log_view \/ (u = d.log_view /\ d.log_view < d.view)
         \/ (u = d.log_view /\ d.log_view = d.view)
    BY <1>2, <1>4, <1>7
  <1> QED
    BY <1>9, <1>10, <1>11, <1>12

\* So recovery keeps it in its slot, or keeps that there may have been one; the head is not moved
\* before it, unless the replica knows that its head is uncertain.
LEMMA AckedRecovered ==
    ASSUME AckInv, TypeInv', NEW r \in Replica, Crash(r), NEW p \in prepared, NEW f \in Paths,
           Path(f, p), r \in Acked(f[OpOf(p)], p)', Alive(Nobody, f, p), OnDisk(r, f, p)
    PROVE  OnDisk(r, f, p)' /\ InMemory(r, f, p)'
  <1> DEFINE d == durable[r]
             o == OpOf(p)
             h == d.view_headers.headers
  <1>1. TypeInv /\ IInv /\ LogInv /\ Nonces
    BY DEF AckInv
  <1>2. PICK slots, found : RecoveredFrom(r, slots, found) /\ RecoveredLog(r, found)
    BY <1>1, CrashSlots
  <1>3. PICK retires \in BOOLEAN : Restarted(r, retires)
    BY <1>1, CrashFacts
  <1>4. PICK D, H : D = ViewHead(d.view_headers) /\ H = HeadHeader(r)'
    OBVIOUS
  <1>5. /\ D \in Tips(d.log_view) /\ H \in Tips(d.log_view)
        /\ D \preceq H /\ D \in Prepare /\ H \in Prepare
        /\ OpOf(D) = HeadOp(h) /\ OpOf(D) \in Nat
        /\ OpOf(H) = op'[r] /\ op'[r] \in Op /\ op'[r] \in Nat
        /\ d.log_view \in View /\ d.view \in View /\ d.log_view <= d.view
        /\ IsHeaders(h) /\ OfOneLog(h) /\ D = h[HeadOp(h)]
        /\ Lineage(D, d.log_view)
        /\ d.log_view < d.view => H = D
        /\ d.log_view = d.view => d.view_headers = StartViewHeaders(D)
    BY <1>1, <1>4, CrashLog
  <1>6. /\ p \in Prepare /\ p \in Known /\ o \in Op /\ o \in Nat /\ o > 0 /\ Ancestor(p, o) = p
        /\ p # None
    BY <1>1, PreparedFacts, NoneFacts
  <1>7. \/ p \preceq D
        \/ /\ d.log_view = d.view /\ ViewOf(p) = d.log_view
           /\ o > OpOf(D) /\ Comparable(p, H)
    BY <1>4, AckedAtCrash
  <1>8. slots[o].disk \in {p, Rotten} /\ slots[o].slot \in {CleanSlot(p), FaultySlot}
    <2>1. disk[r][o] \in {p, Rotten} /\ writing[r][o] \in {None, p}
      BY DEF OnDisk
    <2>2. slots[o] \in RecoveredSlots(r, o)
      BY <1>2, <1>6 DEF RecoveredFrom
    <2> QED
      BY <1>6, <2>1, <2>2, RecoveredAcked
  <1>9. OnDisk(r, f, p)'
    <2>1. disk'[r][o] \in {p, Rotten}
      BY <1>2, <1>6, <1>8 DEF RecoveredFrom
    <2>2. writing'[r][o] = None /\ durable' = durable
      BY <1>1, <1>6, CrashFacts
    <2> QED
      BY <2>1, <2>2 DEF OnDisk
  <1>10. ViewOf(p) \in ViewForOp(h, o, d.log_view)
    <2>1. CASE p \preceq D
      <3>1. o \in 0..OpOf(D) /\ p = Ancestor(D, o)
        BY <1>5, <1>6, <2>1 DEF \preceq
      <3>2. ViewOf(Ancestor(D, o)) \in ViewForOp(h, o, d.log_view)
        BY <1>1, <1>5, <3>1, ViewForAncestor
      <3> QED
        BY <3>1, <3>2
    <2>2. CASE d.log_view = d.view /\ ViewOf(p) = d.log_view /\ o > OpOf(D)
      <3>1. D \in Known /\ h = StartViewHeaders(D).headers
        BY <1>1, <1>5, <2>2, TipsKnown
      <3>2. ViewForOp(h, o, d.log_view) = d.log_view..d.log_view
        <4> HIDE DEF h, d, o
        <4> QED
          BY <1>1, <1>5, <1>6, <2>2, <3>1, ViewForSlot
      <3> QED
        BY <1>5, <2>2, <3>2, CountsAssumption DEF View
    <2> QED
      BY <1>7, <2>1, <2>2
  <1>11. found[o] \in {CleanSlot(p), FaultySlot}
    <2>1. CleanSlot(p).header = p /\ FaultySlot.header = None
      BY DEF CleanSlot, FaultySlot
    <2>2. found[o] = LET q == slots[o].slot.header
                     IN IF q = None \/ ViewOf(q) \in ViewForOp(h, o, d.log_view)
                        THEN slots[o].slot ELSE Reserved
      BY <1>2, <1>6 DEF RecoveredFrom
    <2> QED
      BY <1>8, <1>10, <2>1, <2>2
  <1>12. HasOrHad(found[o], p) /\ (found[o].header # None \/ found[o].faulty)
    BY <1>6, <1>11 DEF HasOrHad, CleanSlot, FaultySlot
  <1>13. /\ o # op'[r] => journal'[r][o] = found[o]
         /\ journal'[r][op'[r]] = IF op'[r] = HeadOp(h) THEN SetHeader(found[op'[r]], h[op'[r]])
                                  ELSE found[op'[r]]
         /\ d.log_view = d.view => (found[o].header # None => o <= op'[r])
    BY <1>2, <1>6 DEF RecoveredLog
  <1>14. o <= op'[r] => p \preceq H
    <2> HAVE o <= op'[r]
    <2>1. CASE p \preceq D
      BY <1>5, <1>6, <2>1, BeginsFacts
    <2>2. CASE Comparable(p, H)
      BY <1>5, <1>6, <2>2, ComparableFacts
    <2> QED
      BY <1>7, <2>1, <2>2
  <1>15. HasOrHad(journal'[r][o], p)
    <2>1. CASE o # op'[r] \/ op'[r] # HeadOp(h)
      BY <1>12, <1>13, <2>1
    <2>2. CASE o = op'[r] /\ op'[r] = HeadOp(h)
      <3>1. p = H /\ H = D
        <4>1. p \preceq H /\ OpOf(H) <= OpOf(p) /\ OpOf(H) <= OpOf(D)
          BY <1>5, <1>6, <1>14, <2>2
        <4> QED
          BY <1>5, <1>6, <4>1, BeginsFacts
      <3>2. journal'[r][o] = SetHeader(found[o], p)
        BY <1>5, <1>13, <2>2, <3>1
      <3> QED
        BY <1>12, <3>2, SetHeaderKeeps
    <2> QED
      BY <2>1, <2>2
  <1>16. status'[r] # "recovering_head" => p \preceq H
    <2> HAVE status'[r] # "recovering_head"
    <2>1. CASE p \preceq D
      BY <1>5, <1>6, <2>1, BeginsFacts
    <2>2. CASE d.log_view = d.view
      <3>1. OpHeadCertain(journal'[r], op'[r])
        BY <1>2, <2>2 DEF RecoveredFrom
      <3>2. o <= op'[r]
        <4> SUFFICES ASSUME ~(o <= op'[r]) PROVE FALSE
          OBVIOUS
        <4>1. o \in op'[r]..OpMax /\ o # op'[r]
          BY <1>5, <1>6 DEF Op
        <4>2. ~journal'[r][o].faulty
          BY <3>1, <4>1 DEF OpHeadCertain
        <4> QED
          BY <1>12, <1>13, <2>2, <4>1, <4>2
      <3> QED
        BY <1>14, <3>2
    <2> QED
      BY <1>7, <2>1, <2>2
  <1>17. \A m \in start_views' : m.nonce # <<r, incarnation'[r]>>
    <2>1. start_views' = start_views /\ incarnation'[r] = incarnation[r] + 1
      BY <1>1, <1>3, CrashFacts DEF Restarted
    <2>2. incarnation[r] \in Nat /\ incarnation'[r] \in 1..CrashMax
      <3>1. incarnation[r] \in 0..CrashMax /\ incarnation'[r] \in 0..CrashMax
        BY <1>1 DEF TypeInv, LocalTypes, ReplicaTypes
      <3> QED
        BY <2>1, <3>1, CountsAssumption
    <2>3. \A m \in start_views, i \in 1..CrashMax : m.nonce = <<r, i>> => i <= incarnation[r]
      BY <1>1 DEF Nonces
    <2>4. ~(incarnation'[r] <= incarnation[r])
      BY <2>1, <2>2
    <2> QED
      BY <2>1, <2>2, <2>3, <2>4
  <1>18. InMemory(r, f, p)'
    BY <1>4, <1>15, <1>16, <1>17 DEF InMemory, HasOrHad
  <1> QED
    BY <1>9, <1>18

\* The DVCs of a replica after a crash: the one it sends as it restarts, and those it sent with a
\* view that its superblock has.
LEMMA CrashVotes ==
    ASSUME TypeInv, IInv, NEW r \in Replica, Crash(r)
    PROVE  /\ NewVotes(r)
           /\ \A m \in do_view_changes' : m.replica = r =>
                \/ m = DoViewChange(r)' /\ ~InLogView(r)' /\ status'[r] # "recovering_head"
                \/ m \in do_view_changes /\ m.view <= durable[r].view
  <1>1. PICK retires \in BOOLEAN : Restarted(r, retires)
    BY CrashFacts
  <1>2. IF status'[r] = "view_change" THEN SendDoViewChange(r)
        ELSE do_view_changes' = do_view_changes \ OwnDoViewChanges(r)
    BY CrashFacts
  <1>3. \A m \in do_view_changes' :
            \/ m = DoViewChange(r)' /\ status'[r] = "view_change"
            \/ m \in do_view_changes /\ m \notin OwnDoViewChanges(r)
    BY <1>2 DEF SendDoViewChange
  <1>4. status'[r] = "view_change" => ~InLogView(r)'
    <2>1. /\ status'[r] = "view_change" => durable[r].log_view < durable[r].view \/ retires
          /\ log_view'[r] = durable[r].log_view
          /\ retires => durable[r].log_view = durable[r].view
          /\ view'[r] = IF retires THEN durable[r].view + 1 ELSE durable[r].view
      BY <1>1 DEF Restarted
    <2>2. durable[r].view \in Int /\ durable[r].log_view \in Int
      BY CountsAssumption DEF TypeInv, LocalTypes, HeadersTypes, View
    <2>3. status'[r] = "view_change" => log_view'[r] # view'[r]
      BY <2>1, <2>2
    <2> QED
      BY <2>3 DEF InLogView
  <1>5. \A m \in do_view_changes : m.replica = r /\ m \notin OwnDoViewChanges(r) =>
            m.view <= durable[r].view
    BY DEF OwnDoViewChanges, IInv, AdvertisedDurable
  <1>6. status'[r] = "view_change" => status'[r] # "recovering_head"
    OBVIOUS
  <1>7. NewVotes(r)
    BY <1>3, <1>4, <1>6, Zenon DEF NewVotes
  <1> QED
    BY <1>3, <1>4, <1>5, <1>6, <1>7, Zenon

\* What a replica acknowledged and may still count, it has after a crash, and so do its DVCs.
LEMMA CrashAcksStay ==
    ASSUME AckInv, TypeInv', IInv', LogInv', NEW r \in Replica, Crash(r), StepOf(r)
    PROVE  AcksStay(r)
  <1>1. TypeInv /\ IInv /\ LogInv /\ AckedKept
    BY DEF AckInv
  <1> SUFFICES ASSUME NEW p \in prepared, NEW f \in Paths,
                      r \in Acked(f[OpOf(p)], p), r \in Acked(f[OpOf(p)], p)'
               PROVE  /\ Alive(Nobody, f, p)' => OnDisk(r, f, p)'
                      /\ Alive(r, f, p)' => InMemory(r, f, p)' /\ InVotes(r, f, p)'
    BY DEF AcksStay
  <1>2. ASSUME Alive(Nobody, f, p)' \/ Alive(r, f, p)'
        PROVE  /\ Alive(Nobody, f, p) /\ Path(f, p) /\ OnDisk(r, f, p)
               /\ OnDisk(r, f, p)' /\ InMemory(r, f, p)'
    <2>1. Alive(Nobody, f, p)
      <3>1. CASE Alive(Nobody, f, p)'
        BY <1>1, <3>1, RestartAlive
      <3>2. CASE Alive(r, f, p)'
        BY <1>1, <3>2, RestartAlive
      <3> QED
        BY <1>2, <3>1, <3>2
    <2>2. OnDisk(r, f, p) /\ Path(f, p)
      BY <1>1, <2>1 DEF AckedKept, Alive
    <2>3. OnDisk(r, f, p)' /\ InMemory(r, f, p)'
      BY <2>1, <2>2, AckedRecovered
    <2> QED
      BY <2>1, <2>2, <2>3
  <1>3. ASSUME Alive(r, f, p)', NEW m \in do_view_changes', m.replica = r, m.view > f[OpOf(p)]
        PROVE  p \preceq m.headers[m.op] /\ OpOf(p) \notin m.nacks
    <2>1. /\ \/ m = DoViewChange(r)' /\ ~InLogView(r)' /\ status'[r] # "recovering_head"
             \/ m \in do_view_changes /\ m.view <= durable[r].view
      BY <1>1, <1>3, CrashVotes
    <2>2. CASE m = DoViewChange(r)' /\ ~InLogView(r)' /\ status'[r] # "recovering_head"
      <3>1. InMemory(r, f, p)' /\ p \in prepared'
        BY <1>2, <1>3, StepFacts
      <3> QED
        BY <1>1, <2>2, <3>1, VoteOfAckedNow
    <2>3. CASE m \in do_view_changes /\ m.view <= durable[r].view
      <3>1. f[OpOf(p)] < durable[r].view
        <4>1. m.view \in Int /\ durable[r].view \in Int /\ f[OpOf(p)] \in Int
          BY <1>1, <2>3, PathFacts, CountsAssumption
             DEF TypeInv, LocalTypes, HeadersTypes, MessageTypes, DoViewChangeTypes, View
        <4> QED
          BY <1>3, <2>3, <4>1
      <3>2. Alive(r, f, p)
        BY <1>2, <1>3, <3>1, AckedInLog
      <3>3. InVotes(r, f, p)
        BY <1>1, <3>2 DEF AckedKept
      <3> QED
        BY <1>3, <2>3, <3>3 DEF InVotes
    <2> QED
      BY <2>1, <2>2, <2>3
  <1>4. Alive(r, f, p)' => InVotes(r, f, p)'
    BY <1>3 DEF InVotes
  <1> QED
    BY <1>2, <1>4

\* A slot that recovery takes for clean is on disk; the head it sets is dirty where it is not.
LEMMA CrashCleanOnDisk ==
    ASSUME TypeInv, IInv, NEW r \in Replica, Crash(r)
    PROVE  CleanOnDisk(r)'
  <1>1. PICK slots, found : RecoveredFrom(r, slots, found) /\ RecoveredLog(r, found)
    BY CrashSlots
  <1>2. \A k \in Op : writing'[r][k] = None
    BY CrashFacts
  <1>3. ASSUME NEW k \in Op, found[k].header # None PROVE disk'[r][k] = found[k].header
    <2>1. /\ slots[k] \in RecoveredSlots(r, k) /\ disk'[r][k] = slots[k].disk
          /\ found[k] = LET p == slots[k].slot.header
                        IN IF p = None \/ ViewOf(p) \in ViewForOp(durable[r].view_headers.headers, k,
                                                                  durable[r].log_view)
                           THEN slots[k].slot ELSE Reserved
      BY <1>1 DEF RecoveredFrom
    <2>2. found[k] = slots[k].slot
      BY <1>3, <2>1 DEF Reserved
    <2>3. slots[k].disk = slots[k].slot.header
      BY <1>3, <2>1, <2>2, RecoveredSlotsFacts
    <2> QED
      BY <2>1, <2>2, <2>3
  <1>4. ASSUME NEW k \in Op, journal'[r][k].header # None, ~journal'[r][k].dirty
        PROVE  disk'[r][k] = journal'[r][k].header
    <2> DEFINE D == durable[r].view_headers.headers[k]
    <2>1. found[k] \in Slot /\ journal'[r][k] \in {found[k], SetHeader(found[k], D)}
      BY <1>1 DEF RecoveredLog
    <2>2. journal'[r][k] = found[k]
      BY <1>4, <2>1, SetHeaderDirty
    <2> QED
      BY <1>3, <1>4, <2>2
  <1> QED
    BY <1>2, <1>4 DEF CleanOnDisk

\* The root is not written over, does not rot, and no view rules it out.
LEMMA CrashKeepsRoot ==
    ASSUME TypeInv, IInv, LogInv, NEW r \in Replica, Crash(r), KeepsRoot(r)
    PROVE  KeepsRoot(r)'
  <1> DEFINE d == durable[r]
             h == d.view_headers.headers
  <1>1. PICK slots, found : RecoveredFrom(r, slots, found) /\ RecoveredLog(r, found)
    BY CrashSlots
  <1>2. 0 \in Op /\ Root \in Prepare /\ OpOf(Root) = 0 /\ 0 \notin Rotting
    BY OpFacts, CountsAssumption
  <1>3. slots[0] \in RecoveredSlots(r, 0) /\ disk'[r][0] = slots[0].disk
    BY <1>1, <1>2 DEF RecoveredFrom
  <1>4. slots[0].disk = Root /\ slots[0].slot = CleanSlot(Root)
    <2>1. Root # None /\ Root # Torn /\ Root # Rotten
      BY <1>2, NoneFacts
    <2>2. disk[r][0] = Root /\ writing[r][0] = None /\ journal[r][0] = CleanSlot(Root)
      BY DEF KeepsRoot
    <2> QED
      BY <1>2, <1>3, <2>1, <2>2 DEF RecoveredSlots
  <1>5. PICK D : D = ViewHead(d.view_headers)
    OBVIOUS
  <1>6. /\ D \in Prepare /\ OpOf(D) = HeadOp(h) /\ OpOf(D) \in Nat
        /\ IsHeaders(h) /\ OfOneLog(h) /\ D = h[HeadOp(h)] /\ Lineage(D, d.log_view)
        /\ d.log_view \in View
    BY <1>5, CrashLog
  <1>7. Root = Ancestor(D, 0) /\ 0 \in 0..OpOf(D)
    BY <1>6, AncestorOfAncestor
  <1>8. ViewOf(Root) \in ViewForOp(h, 0, d.log_view)
    <2>1. ViewOf(Ancestor(D, 0)) \in ViewForOp(h, 0, d.log_view)
      <3> HIDE DEF h, d
      <3> QED
        BY <1>6, <1>7, ViewForAncestor
    <2> QED
      BY <1>7, <2>1
  <1>9. found[0] = CleanSlot(Root)
    <2>1. found[0] = LET p == slots[0].slot.header
                     IN IF p = None \/ ViewOf(p) \in ViewForOp(h, 0, d.log_view)
                        THEN slots[0].slot ELSE Reserved
      BY <1>1, <1>2 DEF RecoveredFrom
    <2> QED
      BY <1>4, <1>8, <2>1 DEF CleanSlot
  <1>10. journal'[r][0] = CleanSlot(Root)
    <2>1. /\ 0 # op'[r] => journal'[r][0] = found[0]
          /\ journal'[r][op'[r]] = IF op'[r] = HeadOp(h) THEN SetHeader(found[op'[r]], h[op'[r]])
                                   ELSE found[op'[r]]
      BY <1>1, <1>2 DEF RecoveredLog
    <2>2. CASE 0 = op'[r] /\ op'[r] = HeadOp(h)
      <3>1. D = Root
        BY <1>6, <2>2, OpFacts
      <3>2. journal'[r][0] = SetHeader(CleanSlot(Root), Root)
        BY <1>6, <1>9, <2>1, <2>2, <3>1
      <3> QED
        BY <3>2 DEF SetHeader, CleanSlot
    <2> QED
      BY <1>9, <2>1, <2>2
  <1>11. writing'[r][0] = None
    BY <1>2, CrashFacts
  <1> QED
    BY <1>3, <1>4, <1>10, <1>11 DEF KeepsRoot

\* The headers a replica restarts with are those of its superblock, or, if it is a primary that
\* leaves its view, of the log it found.
LEMMA CrashHasBlanks ==
    ASSUME TypeInv, IInv, LogInv, NEW r \in Replica, Crash(r), HasBlanks(r)
    PROVE  HasBlanks(r)'
  <1> DEFINE d == durable[r]
  <1>1. PICK found : RecoveredLog(r, found)
    BY CrashFacts
  <1>2. PICK retires \in BOOLEAN : Restarted(r, retires)
    BY CrashFacts
  <1>3. PICK D, H : D = ViewHead(d.view_headers) /\ H = HeadHeader(r)'
    OBVIOUS
  <1>4. /\ D \in Tips(d.log_view) /\ H \in Tips(d.log_view)
        /\ D \preceq H /\ D \in Prepare /\ H \in Prepare
        /\ OpOf(H) = op'[r] /\ op'[r] \in Op /\ op'[r] \in Nat
        /\ d.log_view \in View /\ d.view \in View /\ d.log_view <= d.view
        /\ d.log_view = d.view => d.view_headers = StartViewHeaders(D)
    BY <1>3, CrashLog
  <1>5. /\ durable' = durable /\ dvc_quorum'[r] = FALSE /\ log_view'[r] = d.log_view
        /\ BlanksOf(d.view_headers.headers, d.log_view)
    BY <1>2, CrashFacts DEF Restarted, HasBlanks
  <1>6. BlanksOf(view_headers'[r].headers, d.log_view)
    <2>1. CASE ~retires
      <3>1. view_headers'[r] = d.view_headers
        BY <1>2, <2>1 DEF Restarted
      <3> QED
        BY <1>5, <3>1
    <2>2. CASE retires
      <3>0. PICK q \in BOOLEAN : q = FALSE
        OBVIOUS
      <3>1. /\ d.log_view = d.view
            /\ commit_max'[r] = HigherOf(d.commit_max, op'[r] - PipelineMax)
            /\ view_headers'[r] = DoViewChangeHeaders(journal'[r], op'[r], commit_max'[r],
                                                      d.view_headers.headers, q)
        BY <1>2, <2>2, <3>0 DEF Restarted
      <3>2. /\ \A o \in Op : journal'[r][o].header \in HeadersOf(o)
        BY <1>1, <3>1, RecoveredInLog
      <3>3. /\ op'[r] - PipelineMax <= commit_max'[r] /\ commit_max'[r] \in Op
        <4>1. d.commit_max \in Op /\ d.commit_max \in Nat /\ PipelineMax \in Nat
          BY OpFacts, CountsAssumption DEF TypeInv, LocalTypes, HeadersTypes
        <4>2. OpMax \in Nat /\ op'[r] <= OpMax /\ d.commit_max <= OpMax
          BY <1>4, <4>1, CountsAssumption DEF Op
        <4> QED
          BY <1>4, <3>1, <4>1, <4>2 DEF HigherOf, Op
      <3>4. journal'[r][op'[r]].header = H
        BY <1>3 DEF HeadHeader
      <3>5. view_headers'[r] = DoViewChangeHeaders(journal'[r], op'[r], commit_max'[r],
                                                   StartViewHeaders(D).headers, q)
        BY <1>4, <3>1
      <3> HIDE DEF d
      <3> QED
        BY <1>4, <3>0, <3>2, <3>3, <3>4, <3>5, BlanksAfter
    <2> QED
      BY <2>1, <2>2
  <1> QED
    BY <1>5, <1>6 DEF HasBlanks

\* A replica restarts in a log_view that was started, if it is not the primary of it.
LEMMA CrashHasStarted ==
    ASSUME TypeInv, IInv, NEW r \in Replica, Crash(r), HasStarted(r)
    PROVE  HasStarted(r)'
  <1>1. PICK retires \in BOOLEAN : Restarted(r, retires)
    BY CrashFacts
  <1>2. log_view'[r] = durable[r].log_view /\ UNCHANGED <<durable, start_views>>
    BY <1>1, CrashFacts DEF Restarted
  <1>3. \A v : Started(v)' <=> Started(v)
    BY <1>2 DEF Started
  <1> QED
    BY <1>2, <1>3 DEF HasStarted

\* A crash takes nothing from what the replicas know together.
LEMMA CrashIsSafe ==
    ASSUME TypeInv, TypeInv', IInv, IInv', LogInv, LogInv', SafeInv, NEW r \in Replica, Crash(r)
    PROVE  SafeStep(r)
  <1>1. AckInv
    BY DEF SafeInv, AckInv
  <1>2. StepOf(r)
    BY EveryStepOf
  <1>3. LeadsOn(r) /\ HeadStays(r)
    <2>1. OnDoViewChange(r) => NewLog(r)
      BY <1>1, OnDoViewChangeNewLog
    <2> QED
      BY <2>1, EveryLeadsOn
  <1>4. AcksStay(r)
    BY <1>1, <1>2, CrashAcksStay
  <1>5. CleanOnDisk(r)'
    BY CrashCleanOnDisk
  <1>6. KeepsRoot(r)' /\ HasBlanks(r)' /\ HasStarted(r)'
    <2>1. KeepsRoot(r) /\ HasBlanks(r) /\ HasStarted(r)
      BY DEF SafeInv, RootKept, Blanks, ViewsStarted
    <2> QED
      BY <2>1, CrashKeepsRoot, CrashHasBlanks, CrashHasStarted
  <1>7. NewVotes(r)
    BY CrashVotes
  <1>8. \A m \in do_view_changes' \ do_view_changes :
            0 \notin m.nacks /\ BlanksOf(m.headers, m.log_view)
    BY <1>6, <1>7, NewVotesFacts
  <1>9. incarnation[r] <= incarnation'[r]
    <2>1. PICK retires \in BOOLEAN : Restarted(r, retires)
      BY CrashFacts
    <2>2. incarnation[r] \in Int
      BY DEF TypeInv, LocalTypes, ReplicaTypes
    <2> QED
      BY <2>1, <2>2 DEF Restarted
  <1>10. start_views' = start_views
    BY CrashFacts
  <1> QED
    BY <1>2, <1>3, <1>4, <1>5, <1>6, <1>8, <1>9, <1>10 DEF SafeStep

-----------------------------------------------------------------------------
(* What is decided, and what the replicas know of it. *)

\* What was decided in a view is decided in later views, and so is all before it.
LEMMA DecidedToFactsNow ==
    (\A k \in Int, v \in View : TypeInv /\ DecidedTo(k, v) =>
        /\ \A j \in Int : j <= k => DecidedTo(j, v)
        /\ \A w \in View : v <= w => DecidedTo(k, w))'
  <1>1. \A k \in Int, v \in View : TypeInv /\ DecidedTo(k, v) =>
            /\ \A j \in Int : j <= k => DecidedTo(j, v)
            /\ \A w \in View : v <= w => DecidedTo(k, w)
    BY DecidedToFacts
  <1> QED
    BY <1>1, PTL

\* No step takes back what was decided.
LEMMA StillDecided ==
    ASSUME TypeInv, TypeInv', IInv, LogInv, ViewsStarted, QuorumReplication >= 2,
           NEW r \in Replica, StepOf(r),
           NEW k \in Int, NEW v \in View, DecidedTo(k, v), NEW j \in Int, j <= k,
           NEW w \in View, v <= w
    PROVE  DecidedTo(j, w)'
  <1>1. DecidedTo(k, v)'
    BY DecidedToStays
  <1>2. DecidedTo(j, v)'
    BY <1>1, DecidedToFactsNow
  <1> QED
    BY <1>2, DecidedToFactsNow

\* Ops and views are numbers.
LEMMA NumberFacts ==
    ASSUME TypeInv, NEW r \in Replica
    PROVE  /\ view[r] \in View /\ view[r] \in Nat /\ log_view[r] \in View /\ log_view[r] \in Nat
           /\ durable[r].view \in View /\ durable[r].view \in Nat
           /\ durable[r].log_view \in View /\ durable[r].log_view \in Nat
           /\ op[r] \in Op /\ op[r] \in Nat /\ commit_min[r] \in Op /\ commit_min[r] \in Nat
           /\ commit_max[r] \in Op /\ commit_max[r] \in Nat
           /\ durable[r].commit_max \in Op /\ durable[r].commit_max \in Nat
           /\ PipelineMax \in Nat
  <1>1. /\ view[r] \in View /\ log_view[r] \in View /\ op[r] \in Op /\ commit_min[r] \in Op
        /\ commit_max[r] \in Op /\ durable[r].view \in View /\ durable[r].log_view \in View
        /\ durable[r].commit_max \in Op
    BY DEF TypeInv, LocalTypes, ReplicaTypes, HeadersTypes
  <1>2. \A k \in Op : k \in Nat
    BY OpFacts
  <1>3. \A v \in View : v \in Nat
    BY CountsAssumption DEF View
  <1> QED
    BY <1>1, <1>2, <1>3, CountsAssumption

\* What was executed at an op that is known to be decided in a view or before, was decided there.
LEMMA ExecutedInView ==
    ASSUME TypeInv, IInv, LogInv, SafeInv, QuorumReplication >= 2,
           NEW k \in Int, NEW v \in View, DecidedTo(k, v),
           NEW c \in committed, OpOf(c) \in 1..k
    PROVE  c \in prepared /\ \E f \in Paths : Decided(f, c) /\ f[OpOf(c)] <= v
  <1>1. ViewsStarted /\ SafeLogs
    BY DEF SafeInv
  <1>2. PICK g \in Paths : c \in prepared /\ Decided(g, c)
    BY DEF SafeInv, CommitsDecided, CommittedDecided
  <1>3. PICK p \in prepared, f \in Paths : OpOf(p) = OpOf(c) /\ Decided(f, p) /\ f[OpOf(c)] <= v
    BY DecidedToFacts
  <1>4. Comparable(p, c) /\ p \in Prepare /\ c \in Prepare
    BY <1>1, <1>2, <1>3, DecidedAgree, PreparedFacts
  <1>5. p = c
    BY <1>3, <1>4, ComparableFacts
  <1> QED
    BY <1>2, <1>3, <1>5

\* A replica that changes slots only to headers of a log of its view, or a later, still has what
\* it executed.
LEMMA ExecutedStays ==
    ASSUME TypeInv, IInv, LogInv, SafeInv, QuorumReplication >= 2, NEW r \in Replica,
           commit_min'[r] = commit_min[r], committed \subseteq committed',
           NEW v \in View, log_view[r] <= v,
           \A o \in 1..commit_min[r] :
                \/ journal'[r][o].header \in {None, journal[r][o].header}
                \/ \E t \in Tips(v) : o <= OpOf(t) /\ journal'[r][o].header = Ancestor(t, o)
    PROVE  Executed(r)'
  <1>1. ViewsStarted /\ SafeLogs /\ Executed(r) /\ KnowsDecided(r)
    BY DEF SafeInv, CommitsDecided
  <1> SUFFICES ASSUME NEW o \in 1..commit_min[r]
               PROVE  \E p \in committed' : OpOf(p) = o /\ journal'[r][o].header \in {None, p}
    BY DEF Executed
  <1>2. PICK p \in committed : OpOf(p) = o /\ journal[r][o].header \in {None, p}
    BY <1>1 DEF Executed
  <1>3. CASE journal'[r][o].header \in {None, journal[r][o].header}
    BY <1>2, <1>3
  <1>4. ASSUME NEW t \in Tips(v), o <= OpOf(t), journal'[r][o].header = Ancestor(t, o)
        PROVE  journal'[r][o].header = p
    <2>1. /\ commit_max[r] \in Int /\ commit_min[r] \in Int /\ log_view[r] \in View
          /\ commit_min[r] <= commit_max[r] /\ DecidedTo(commit_max[r], log_view[r])
      BY <1>1, NumberFacts DEF KnowsDecided
    <2>2. OpOf(p) \in 1..commit_max[r]
      BY <1>2, <2>1
    <2>3. PICK f \in Paths : p \in prepared /\ Decided(f, p) /\ f[OpOf(p)] <= log_view[r]
      BY <1>2, <2>1, <2>2, ExecutedInView
    <2>4. f[OpOf(p)] <= v
      BY <1>2, <2>1, <2>3, PathFacts, CountsAssumption DEF View
    <2>5. Comparable(p, t)
      BY <1>1, <1>4, <2>3, <2>4, DecidedInLog
    <2>6. p \in Prepare /\ t \in Prepare
      BY <1>4, <2>3, PreparedFacts, TipsKnown
    <2>7. p \preceq t
      BY <1>2, <1>4, <2>5, <2>6, ComparableFacts
    <2> QED
      BY <1>2, <1>4, <2>7 DEF \preceq
  <1> QED
    BY <1>2, <1>3, <1>4

\* What a replica knows decided after a step: no more than was decided, in a view that is not later
\* than its log_view.
LEMMA KnowsDecidedStep ==
    ASSUME TypeInv, TypeInv', IInv, LogInv, SafeInv, QuorumReplication >= 2,
           NEW r \in Replica, StepOf(r),
           NEW K \in Int, NEW v \in View, v = log_view'[r], DecidedTo(K, v),
           commit_max'[r] <= K,
           \/ view_headers'[r] = view_headers[r] /\ log_view[r] <= v
           \/ view_headers'[r] = durable[r].view_headers /\ durable[r].log_view <= v
           \/ /\ Min(DOMAIN view_headers'[r].headers) <= K
              /\ HeadOp(view_headers'[r].headers) - PipelineMax <= K,
           \/ durable'[r] = durable[r]
           \/ /\ durable'[r].commit_max = commit_max[r] /\ durable'[r].log_view = log_view[r]
              /\ durable'[r].view_headers = view_headers[r],
           commit_min'[r] <= commit_max'[r],
           status'[r] = "normal" /\ r = PrimaryIndex(view'[r]) => commit_min'[r] = commit_max'[r]
    PROVE  KnowsDecided(r)'
  <1>1. ViewsStarted /\ KnowsDecided(r)
    BY DEF SafeInv, CommitsDecided
  <1>2. \A k \in Int, j \in Int, u, w \in View : DecidedTo(k, u) /\ j <= k /\ u <= w => DecidedTo(j, w)'
    BY <1>1, StillDecided
  <1>3. /\ log_view[r] \in View /\ durable[r].log_view \in View /\ log_view[r] \in Nat
        /\ durable[r].log_view \in Nat /\ PipelineMax \in Nat /\ v \in Nat
        /\ commit_max[r] \in Int /\ durable[r].commit_max \in Int /\ commit_max'[r] \in Int
    <2>1. commit_max'[r] \in Op
      BY DEF TypeInv, LocalTypes, ReplicaTypes
    <2>2. commit_max'[r] \in Nat /\ v \in Nat
      BY <2>1, CountsAssumption DEF View, Op
    <2> QED
      BY <2>2, NumberFacts
  <1>5. \A h : IsHeaders(h) => /\ Min(DOMAIN h) \in Int /\ HeadOp(h) - PipelineMax \in Int
    <2> TAKE h
    <2> HAVE IsHeaders(h)
    <2>1. Min(DOMAIN h) \in Op /\ HeadOp(h) \in Op
      BY HeadersFacts
    <2>2. Min(DOMAIN h) \in Nat /\ HeadOp(h) \in Nat
      BY <2>1, OpFacts
    <2> QED
      BY <1>3, <2>2
  <1>6. IsHeaders(view_headers[r].headers) /\ IsHeaders(durable[r].view_headers.headers)
    BY DEF TypeInv, LocalTypes, HeadersTypes
  <1>7. \A k \in Int : k <= K => DecidedTo(k, v)'
    BY <1>2, <1>3
  <1>9. PICK c, h, dk, dh, dl : /\ c = commit_max'[r] /\ h = view_headers'[r].headers
                                /\ dk = durable'[r].commit_max /\ dl = durable'[r].log_view
                                /\ dh = durable'[r].view_headers.headers
    OBVIOUS
  <1>10. DecidedTo(c, v)'
    BY <1>3, <1>7, <1>9
  <1>11. DecidedTo(Min(DOMAIN h), v)' /\ DecidedTo(HeadOp(h) - PipelineMax, v)'
    <2>1. CASE view_headers'[r] = view_headers[r] /\ log_view[r] <= v
      <3>1. /\ DecidedTo(Min(DOMAIN h), log_view[r]) /\ DecidedTo(HeadOp(h) - PipelineMax, log_view[r])
            /\ IsHeaders(h)
        BY <1>1, <1>6, <1>9, <2>1 DEF KnowsDecided, HeadersDecided
      <3> QED
        BY <1>2, <1>3, <1>5, <2>1, <3>1
    <2>2. CASE view_headers'[r] = durable[r].view_headers /\ durable[r].log_view <= v
      <3>1. /\ DecidedTo(Min(DOMAIN h), durable[r].log_view)
            /\ DecidedTo(HeadOp(h) - PipelineMax, durable[r].log_view) /\ IsHeaders(h)
        BY <1>1, <1>6, <1>9, <2>2 DEF KnowsDecided, HeadersDecided
      <3> QED
        BY <1>2, <1>3, <1>5, <2>2, <3>1
    <2>3. CASE /\ Min(DOMAIN view_headers'[r].headers) <= K
               /\ HeadOp(view_headers'[r].headers) - PipelineMax <= K
      <3>1. Min(DOMAIN h) \in Int /\ HeadOp(h) - PipelineMax \in Int
        <4>1. IsHeaders(h)'
          BY <1>9 DEF TypeInv, LocalTypes, HeadersTypes
        <4>2. PICK low \in Op : \E high \in Op : low <= high /\ DOMAIN h = low..high
          BY <4>1 DEF IsHeaders
        <4>3. PICK high \in Op : low <= high /\ DOMAIN h = low..high
          BY <4>2
        <4>4. low \in Nat /\ high \in Nat
          BY OpFacts
        <4>5. Min(DOMAIN h) = low /\ HeadOp(h) = high
          BY <4>3, <4>4, IntervalFacts DEF HeadOp
        <4> QED
          BY <1>3, <4>4, <4>5
      <3> QED
        BY <1>7, <1>9, <2>3, <3>1
    <2> QED
      BY <2>1, <2>2, <2>3
  <1>12. /\ DecidedTo(dk, dl)'
         /\ DecidedTo(Min(DOMAIN dh), dl)' /\ DecidedTo(HeadOp(dh) - PipelineMax, dl)'
    <2>1. CASE durable'[r] = durable[r]
      <3>1. /\ DecidedTo(dk, dl) /\ dk \in Int /\ dl \in View /\ dl <= dl
            /\ DecidedTo(Min(DOMAIN dh), dl) /\ DecidedTo(HeadOp(dh) - PipelineMax, dl)
            /\ IsHeaders(dh)
        BY <1>1, <1>3, <1>6, <1>9, <2>1 DEF KnowsDecided, HeadersDecided
      <3> QED
        BY <1>2, <1>5, <3>1
    <2>2. CASE /\ durable'[r].commit_max = commit_max[r] /\ durable'[r].log_view = log_view[r]
               /\ durable'[r].view_headers = view_headers[r]
      <3>1. /\ DecidedTo(dk, dl) /\ dk \in Int /\ dl \in View /\ dl <= dl
            /\ DecidedTo(Min(DOMAIN dh), dl) /\ DecidedTo(HeadOp(dh) - PipelineMax, dl)
            /\ IsHeaders(dh)
        BY <1>1, <1>3, <1>6, <1>9, <2>2 DEF KnowsDecided, HeadersDecided
      <3> QED
        BY <1>2, <1>5, <3>1
    <2> QED
      BY <2>1, <2>2
  <1> QED
    BY <1>9, <1>10, <1>11, <1>12 DEF KnowsDecided, HeadersDecided, HeadOp

\* A DVC says no more than the replica knows to be decided.
LEMMA VotesDecidedNow ==
    (\A r \in Replica : TypeInv /\ KnowsDecided(r) =>
        LET m == DoViewChange(r)
        IN HeadersDecided(m.headers, m.log_view) /\ DecidedTo(m.commit_min, m.log_view))'
  <1>1. ASSUME TypeInv, NEW r \in Replica, KnowsDecided(r)
        PROVE  LET m == DoViewChange(r)
               IN HeadersDecided(m.headers, m.log_view) /\ DecidedTo(m.commit_min, m.log_view)
    <2>1. DecidedTo(commit_min[r], log_view[r])
      <3>1. /\ commit_min[r] \in Int /\ commit_max[r] \in Int /\ log_view[r] \in View
            /\ commit_min[r] <= commit_max[r] /\ DecidedTo(commit_max[r], log_view[r])
        BY <1>1, NumberFacts DEF KnowsDecided
      <3> QED
        BY <1>1, <3>1, DecidedToFacts
    <2> QED
      BY <1>1, <2>1 DEF DoViewChange, KnowsDecided
  <1>2. \A r \in Replica : TypeInv /\ KnowsDecided(r) =>
        LET m == DoViewChange(r)
        IN HeadersDecided(m.headers, m.log_view) /\ DecidedTo(m.commit_min, m.log_view)
    BY <1>1
  <1> QED
    BY <1>2, PTL

\* A step that sends no other messages than DVCs, and executes nothing.
LEMMA QuietDecided ==
    ASSUME TypeInv', NEW r \in Replica, NewVotes(r), KnowsDecided(r)', Executed(r)',
           UNCHANGED <<prepared, start_views, commits, committed>>
    PROVE  DecidedStep(r)
  <1>1. ASSUME NEW m \in do_view_changes' \ do_view_changes
        PROVE  HeadersDecided(m.headers, m.log_view)' /\ DecidedTo(m.commit_min, m.log_view)'
    BY <1>1, VotesDecidedNow DEF NewVotes
  <1> QED
    BY <1>1 DEF DecidedStep

\* What a step may rely on.
SafeState == TypeInv /\ IInv /\ LogInv /\ SafeInv

\* A replica that stays in its log_view knows what it knew.
LEMMA KnowsStays ==
    ASSUME SafeState, TypeInv', QuorumReplication >= 2, NEW r \in Replica, StepOf(r),
           UNCHANGED <<log_view, view_headers, durable, commit_max, commit_min>>,
           status'[r] = "normal" /\ r = PrimaryIndex(view'[r]) => commit_min[r] = commit_max[r]
    PROVE  KnowsDecided(r)'
  <1>1. TypeInv /\ IInv /\ LogInv /\ SafeInv /\ KnowsDecided(r)
    BY DEF SafeState, SafeInv, CommitsDecided
  <1>2. commit_max[r] \in Int /\ log_view[r] \in View /\ log_view[r] <= log_view[r]
    BY <1>1, NumberFacts
  <1>3. DecidedTo(commit_max[r], log_view[r]) /\ commit_min[r] <= commit_max[r]
    BY <1>1 DEF KnowsDecided
  <1>4. PICK K \in Int, v \in View : K = commit_max[r] /\ v = log_view[r]
    BY <1>2
  <1> QED
    BY <1>1, <1>2, <1>3, <1>4, KnowsDecidedStep

\* Repairs, writes, the end of a view change, and a DVC sent again execute nothing.
LEMMA RepairDecided ==
    ASSUME SafeState, TypeInv', QuorumReplication >= 2, NEW r \in Replica, StepOf(r),
           \/ RepairStep(r) \/ WriteStep(r)
           \/ StartViewAsTheNewPrimary(r) \/ DoViewChangeTimeout(r)
    PROVE  DecidedStep(r)
  <1>1. TypeInv /\ IInv /\ LogInv /\ SafeInv /\ KnowsDecided(r)
    BY DEF SafeState, SafeInv, CommitsDecided
  <1>2. StepWithoutCrash(r) /\ KeepsLog(r)
    BY DEF StepWithoutCrash, KeepsLog
  <1>3. UNCHANGED <<view, log_view, view_headers, durable, commit_max, commit_min, committed,
                    prepared, start_views, commits, op>>
        /\ (status'[r] = status[r] \/ StartViewAsTheNewPrimary(r))
    <2>1. CASE RepairStep(r)
      BY <1>1, <2>1, RepairFacts DEF viewVars, commitVars
    <2>2. CASE WriteStep(r)
      BY <1>1, <2>2, WriteFacts DEF WriteStep, viewVars, commitVars
    <2>3. CASE StartViewAsTheNewPrimary(r)
      BY <2>3 DEF StartViewAsTheNewPrimary, commitVars, logVars
    <2>4. CASE DoViewChangeTimeout(r)
      BY <2>4 DEF DoViewChangeTimeout, viewVars, commitVars, logVars
    <2> QED
      BY <2>1, <2>2, <2>3, <2>4
  <1>4. status'[r] = "normal" /\ r = PrimaryIndex(view'[r]) => commit_min[r] = commit_max[r]
    <2>1. StartViewAsTheNewPrimary(r) => commit_min[r] = commit_max[r]
      BY DEF StartViewAsTheNewPrimary
    <2> QED
      BY <1>1, <1>3, <2>1 DEF KnowsDecided
  <1>5. KnowsDecided(r)'
    BY <1>1, <1>3, <1>4, KnowsStays
  <1>6. NewVotes(r)
    BY <1>1, <1>2, NewVotesStep
  <1>7. Executed(r)'
    <2>1. PICK v \in View : v = log_view[r] /\ log_view[r] <= v
      BY <1>1, NumberFacts
    <2>2. \A o \in 1..commit_min[r] :
                \/ journal'[r][o].header \in {None, journal[r][o].header}
                \/ \E t \in Tips(v) : o <= OpOf(t) /\ journal'[r][o].header = Ancestor(t, o)
      <3>1. CASE ~RepairStep(r)
        <4>1. \A o \in Op : journal'[r][o].header = journal[r][o].header
          BY <1>1, <1>2, <3>1, HeadKept
        <4>2. \A o \in 1..commit_min[r] : o \in Op
          BY <1>1, NumberFacts, CountsAssumption DEF Op
        <4> QED
          BY <4>1, <4>2
      <3>2. CASE RepairStep(r)
        <4>1. HeadHeader(r) \in Tips(v) /\ OpOf(HeadHeader(r)) = op[r]
          BY <1>1, <2>1, TipsKnown, HeadFacts DEF HasTip
        <4>2. \/ UNCHANGED <<journal, writing>>
              \/ \E p \in prepared :
                    /\ OpOf(p) <= op[r] /\ p = Ancestor(HeadHeader(r), OpOf(p)) /\ OpOf(p) \in Op
                    /\ p \in Prepare
                    /\ journal' = [journal EXCEPT ![r][OpOf(p)] = SetHeader(@, p)]
          BY <1>1, <3>2, RepairFacts
        <4>3. CASE UNCHANGED <<journal, writing>>
          BY <4>3
        <4>4. ASSUME NEW p \in prepared, OpOf(p) <= op[r], p = Ancestor(HeadHeader(r), OpOf(p)),
                     p \in Prepare,
                     journal' = [journal EXCEPT ![r][OpOf(p)] = SetHeader(@, p)]
              PROVE  \A o \in 1..commit_min[r] :
                        \/ journal'[r][o].header = journal[r][o].header
                        \/ o <= op[r] /\ journal'[r][o].header = Ancestor(HeadHeader(r), o)
          <5>1. /\ journal'[r][OpOf(p)].header = p
                /\ \A o \in Op \ {OpOf(p)} : journal'[r][o] = journal[r][o]
            BY <1>1, <4>4, JournalAfterSet
          <5>2. \A o \in 1..commit_min[r] : o \in Op
            BY <1>1, NumberFacts, CountsAssumption DEF Op
          <5> QED
            BY <4>4, <5>1, <5>2
        <4> QED
          BY <4>1, <4>2, <4>3, <4>4
      <3> QED
        BY <3>1, <3>2
    <2> QED
      BY <1>1, <1>3, <2>1, <2>2, ExecutedStays
  <1> QED
    BY <1>3, <1>5, <1>6, <1>7, QuietDecided

\* DVC headers are from what is known committed to the head.
LEMMA HeadersKnown ==
    ASSUME TypeInv, NEW j, NEW head \in Op, NEW cmax \in Op, NEW old, NEW repairing \in BOOLEAN,
           IsHeaders(old), \A o \in Op : j[o].header \in HeadersOf(o), j[head].header # None,
           ~repairing => HeadOp(old) <= head, head - PipelineMax <= cmax,
           NEW d, d = DoViewChangeHeaders(j, head, cmax, old, repairing)
    PROVE  /\ Min(DOMAIN d.headers) <= cmax /\ HeadOp(d.headers) - PipelineMax <= cmax
           /\ HeadOp(d.headers) = head
  <1>1. HeadOp(old) \in Nat /\ head \in Nat /\ cmax \in Nat /\ PipelineMax \in Nat
    BY HeadersFacts, OpFacts, CountsAssumption
  <1>2. PICK top : top = IF repairing THEN head ELSE HigherOf(head, HeadOp(old))
    OBVIOUS
  <1>3. HeadOp(d.headers) = top /\ Min(DOMAIN d.headers) = LowerOf(cmax, top)
    BY <1>2, DoViewChangeHeadersFacts
  <1>4. top = head
    BY <1>1, <1>2 DEF HigherOf
  <1> QED
    BY <1>1, <1>3, <1>4 DEF LowerOf

\* The DVC headers of a replica that leaves its view say no more than it knows.
LEMMA LeavesDecided ==
    ASSUME SafeState, TypeInv', QuorumReplication >= 2, NEW r \in Replica, StepOf(r), LeavesView(r)
    PROVE  DecidedStep(r)
  <1>1. TypeInv /\ IInv /\ LogInv /\ SafeInv /\ KnowsDecided(r)
    BY DEF SafeState, SafeInv, CommitsDecided
  <1>2. StepWithoutCrash(r) /\ KeepsLog(r)
    BY DEF StepWithoutCrash, KeepsLog
  <1>3. PICK v \in View : ViewChangeTo(r, v) /\ status[r] \in {"normal", "view_change"}
    BY DEF LeavesView
  <1>4. /\ UNCHANGED <<log_view, durable, commit_max, commit_min, committed, prepared, start_views,
                       commits>>
        /\ status'[r] = "view_change"
        /\ view_headers' = IF log_view[r] = view[r]
              THEN [view_headers EXCEPT ![r] =
                      DoViewChangeHeaders(journal[r], op[r], commit_max[r], @.headers,
                                          status[r] = "view_change")]
              ELSE view_headers
    BY <1>1, <1>3 DEF ViewChangeTo, commitVars, TypeInv, Functions
  <1>5. /\ commit_max[r] \in Int /\ commit_max[r] \in Op /\ commit_max[r] \in Nat
        /\ log_view[r] \in View /\ op[r] \in Op /\ op[r] \in Nat
        /\ PipelineMax \in Nat /\ log_view[r] <= log_view[r]
    BY <1>1, NumberFacts
  <1>6. DecidedTo(commit_max[r], log_view[r]) /\ commit_min[r] <= commit_max[r]
    BY <1>1 DEF KnowsDecided
  <1>7. \/ view_headers'[r] = view_headers[r]
        \/ /\ Min(DOMAIN view_headers'[r].headers) <= commit_max[r]
           /\ HeadOp(view_headers'[r].headers) - PipelineMax <= commit_max[r]
    <2>1. CASE log_view[r] # view[r]
      BY <1>4, <2>1
    <2>2. CASE log_view[r] = view[r]
      <3>1. PICK repairing \in BOOLEAN : repairing = (status[r] = "view_change")
        OBVIOUS
      <3>2. PICK d : d = DoViewChangeHeaders(journal[r], op[r], commit_max[r],
                                             view_headers[r].headers, repairing)
        OBVIOUS
      <3>3. view_headers'[r] = d
        BY <1>1, <1>4, <2>2, <3>1, <3>2 DEF TypeInv, Functions
      <3>4. /\ IsHeaders(view_headers[r].headers)
            /\ \A o \in Op : journal[r][o].header \in HeadersOf(o)
            /\ journal[r][op[r]].header # None
        BY <1>1, HeadFacts DEF TypeInv, LocalTypes, HeadersTypes, JournalTypes
      <3>5. ~repairing => HeadOp(view_headers[r].headers) <= op[r]
        <4>1. CASE ~repairing
          <5>1. StartsView(view_headers[r]) /\ InLogView(r)
            BY <1>1, <1>3, <3>1, <4>1, NormalFacts
          <5>2. ViewHead(view_headers[r]) \preceq HeadHeader(r)
            BY <1>1, <5>1 DEF LogInv, HeadersOfView
          <5>3. /\ OpOf(ViewHead(view_headers[r])) = HeadOp(view_headers[r].headers)
                /\ OpOf(HeadHeader(r)) = op[r]
            BY <1>1, <3>4, HeadersFacts, HeadFacts DEF ViewHead
          <5> QED
            BY <5>2, <5>3 DEF \preceq
        <4> QED
          BY <4>1
      <3>6. op[r] - PipelineMax <= commit_max[r]
        BY <1>1 DEF LogInv, LogOfView
      <3> QED
        BY <1>1, <1>5, <3>2, <3>3, <3>4, <3>5, <3>6, HeadersKnown
    <2> QED
      BY <2>1, <2>2
  <1>8. KnowsDecided(r)'
    <2>1. PICK K \in Int, w \in View : K = commit_max[r] /\ w = log_view[r]
      BY <1>5
    <2>2. status'[r] # "normal"
      BY <1>4
    <2>3. /\ w = log_view'[r] /\ commit_max'[r] <= K /\ durable'[r] = durable[r]
          /\ commit_min'[r] <= commit_max'[r] /\ log_view[r] <= w
      BY <1>4, <1>5, <1>6, <2>1
    <2>4. DecidedTo(K, w)
      BY <1>6, <2>1
    <2> QED
      BY <1>1, <1>7, <2>1, <2>2, <2>3, <2>4, KnowsDecidedStep
  <1>9. NewVotes(r)
    BY <1>1, <1>2, NewVotesStep
  <1>10. Executed(r)'
    <2>1. \A o \in Op : journal'[r][o].header = journal[r][o].header
      BY <1>3 DEF ViewChangeTo, logVars
    <2>2. \A o \in 1..commit_min[r] : o \in Op
      BY <1>1, NumberFacts, CountsAssumption DEF Op
    <2>3. log_view[r] \in View /\ log_view[r] <= log_view[r]
      BY <1>5
    <2> QED
      BY <1>1, <1>4, <2>1, <2>2, <2>3, ExecutedStays
  <1> QED
    BY <1>4, <1>8, <1>9, <1>10, QuietDecided

\* A primary that answers with an SV says what it knows.
LEMMA AnswersDecided ==
    ASSUME SafeState, TypeInv', QuorumReplication >= 2, NEW r \in Replica, StepOf(r), Answers(r)
    PROVE  DecidedStep(r)
  <1>1. TypeInv /\ IInv /\ LogInv /\ SafeInv /\ KnowsDecided(r) /\ ViewsStarted
    BY DEF SafeState, SafeInv, CommitsDecided
  <1>2. PICK nonce : PrimarySendStartView(r, nonce)
    BY DEF Answers
  <1>3. /\ UNCHANGED <<status, view, log_view, durable, logVars, commitVars, prepared,
                       do_view_changes, commits>>
        /\ r = PrimaryIndex(view[r])
        /\ start_views' \subseteq start_views \cup {StartView(r, nonce)}
    BY <1>2 DEF PrimarySendStartView
  <1>4. PICK H : H = HeadHeader(r)
    OBVIOUS
  <1>5. view_headers'[r] = StartViewHeaders(H)
    BY <1>1, <1>2, <1>4 DEF PrimarySendStartView, TypeInv, Functions
  <1>6. /\ commit_max[r] \in Int /\ commit_max[r] \in Nat /\ log_view[r] \in View
        /\ log_view[r] <= log_view[r] /\ op[r] \in Nat /\ PipelineMax \in Nat
        /\ H \in Known /\ OpOf(H) = op[r]
    BY <1>1, <1>4, NumberFacts, HeadFacts
  <1>7. InLogView(r) /\ commit_max[r] <= op[r]
    <2>1. status[r] = "normal" \/ dvc_quorum[r]
      BY <1>2 DEF PrimarySendStartView
    <2>2. LeaderLog(r)
      BY <1>1 DEF TypeInv, LocalTypes
    <2> QED
      BY <1>1, <1>3, <2>1, <2>2, NormalFacts DEF LeaderLog
  <1>8. DecidedTo(commit_max[r], log_view[r]) /\ commit_min[r] <= commit_max[r]
        /\ (status[r] = "normal" /\ r = PrimaryIndex(view[r]) => commit_min[r] = commit_max[r])
    BY <1>1 DEF KnowsDecided
  <1>9. op[r] - PipelineMax <= commit_max[r]
    BY <1>1 DEF LogInv, LogOfView
  <1>10. /\ Min(DOMAIN view_headers'[r].headers) <= commit_max[r]
         /\ HeadOp(view_headers'[r].headers) - PipelineMax <= commit_max[r]
    <2>1. /\ Min(DOMAIN StartViewHeaders(H).headers) = HigherOf(0, op[r] - PipelineMax)
          /\ HeadOp(StartViewHeaders(H).headers) = op[r]
      BY <1>1, <1>6, StartViewHeadersFacts
    <2> QED
      BY <1>5, <1>6, <1>9, <2>1 DEF HigherOf
  <1>11. KnowsDecided(r)'
    <2>1. PICK K \in Int, v \in View : K = commit_max[r] /\ v = log_view[r]
      BY <1>6
    <2>2. /\ v = log_view'[r] /\ commit_max'[r] <= K /\ durable'[r] = durable[r]
          /\ commit_min'[r] <= commit_max'[r] /\ DecidedTo(K, v)
          /\ status'[r] = "normal" /\ r = PrimaryIndex(view'[r]) => commit_min'[r] = commit_max'[r]
      BY <1>3, <1>6, <1>8, <2>1 DEF commitVars
    <2> QED
      BY <1>1, <1>10, <2>1, <2>2, KnowsDecidedStep
  <1>12. Executed(r)'
    <2>1. \A o \in Op : journal'[r][o].header = journal[r][o].header
      BY <1>3 DEF logVars
    <2>2. \A o \in 1..commit_min[r] : o \in Op
      BY <1>1, NumberFacts, CountsAssumption DEF Op
    <2>3. commit_min'[r] = commit_min[r] /\ committed \subseteq committed'
      BY <1>3 DEF commitVars
    <2> QED
      BY <1>1, <1>6, <2>1, <2>2, <2>3, ExecutedStays
  <1>13. ASSUME NEW m \in start_views' \ start_views
         PROVE  DecidedTo(m.commit_max, m.view)' /\ m.commit_max <= OpOf(m.head)
    <2>1. m.view = view[r] /\ m.commit_max = commit_max[r] /\ m.head = H
      BY <1>3, <1>4, <1>13 DEF StartView
    <2>2. PICK k \in Int, v \in View : k = m.commit_max /\ v = m.view /\ v = log_view[r] /\ v <= v
      BY <1>6, <1>7, <2>1 DEF InLogView
    <2>3. DecidedTo(k, v) /\ k <= k
      BY <1>8, <2>1, <2>2
    <2>4. DecidedTo(k, v)'
      BY <1>1, <2>2, <2>3, StillDecided
    <2> QED
      BY <1>6, <1>7, <2>1, <2>2, <2>4
  <1> QED
    BY <1>3, <1>11, <1>12, <1>13 DEF DecidedStep, commitVars

\* A superblock write keeps what memory knows, and sends the SV or the DVC that waited for it.
LEMMA DurableDecided ==
    ASSUME SafeState, TypeInv', QuorumReplication >= 2, NEW r \in Replica, StepOf(r),
           ViewDurableUpdate(r)
    PROVE  DecidedStep(r)
  <1>1. TypeInv /\ IInv /\ LogInv /\ SafeInv /\ KnowsDecided(r) /\ ViewsStarted
    BY DEF SafeState, SafeInv, CommitsDecided
  <1>2. StepWithoutCrash(r)
    BY DEF StepWithoutCrash
  <1>3. /\ UNCHANGED <<status, view, log_view, view_headers, dvc_quorum, logVars, commitVars,
                       prepared, commits>>
        /\ durable'[r].commit_max = commit_max[r] /\ durable'[r].log_view = log_view[r]
        /\ durable'[r].view_headers = view_headers[r]
        /\ status[r] # "recovering_head"
        /\ start_views' = start_views
           \/ /\ start_views' = start_views \cup {StartView(r, None)}
              /\ log_view[r] = view[r] /\ r = PrimaryIndex(view[r])
    BY <1>1 DEF ViewDurableUpdate, viewVars, TypeInv, Functions
  <1>4. /\ commit_max[r] \in Int /\ commit_max[r] \in Nat /\ log_view[r] \in View
        /\ log_view[r] <= log_view[r] /\ op[r] \in Nat /\ OpOf(HeadHeader(r)) = op[r]
    BY <1>1, NumberFacts, HeadFacts
  <1>5. DecidedTo(commit_max[r], log_view[r]) /\ commit_min[r] <= commit_max[r]
        /\ (status[r] = "normal" /\ r = PrimaryIndex(view[r]) => commit_min[r] = commit_max[r])
    BY <1>1 DEF KnowsDecided
  <1>6. KnowsDecided(r)'
    <2>1. PICK K \in Int, v \in View : K = commit_max[r] /\ v = log_view[r]
      BY <1>4
    <2>2. /\ v = log_view'[r] /\ commit_max'[r] <= K /\ view_headers'[r] = view_headers[r]
          /\ commit_min'[r] <= commit_max'[r] /\ DecidedTo(K, v) /\ log_view[r] <= v
          /\ status'[r] = "normal" /\ r = PrimaryIndex(view'[r]) => commit_min'[r] = commit_max'[r]
      BY <1>3, <1>4, <1>5, <2>1 DEF commitVars
    <2> QED
      BY <1>1, <1>3, <2>1, <2>2, KnowsDecidedStep
  <1>7. Executed(r)'
    <2>1. \A o \in Op : journal'[r][o].header = journal[r][o].header
      BY <1>3 DEF logVars
    <2>2. \A o \in 1..commit_min[r] : o \in Op
      BY <1>1, NumberFacts, CountsAssumption DEF Op
    <2>3. commit_min'[r] = commit_min[r] /\ committed \subseteq committed'
      BY <1>3 DEF commitVars
    <2> QED
      BY <1>1, <1>4, <2>1, <2>2, <2>3, ExecutedStays
  <1>8. NewVotes(r)
    BY <1>1, <1>2, NewVotesStep
  <1>9. ASSUME NEW m \in do_view_changes' \ do_view_changes
        PROVE  HeadersDecided(m.headers, m.log_view)' /\ DecidedTo(m.commit_min, m.log_view)'
    BY <1>6, <1>8, <1>9, VotesDecidedNow DEF NewVotes
  <1>10. ASSUME NEW m \in start_views' \ start_views
         PROVE  DecidedTo(m.commit_max, m.view)' /\ m.commit_max <= OpOf(m.head)
    <2>1. /\ m.view = view[r] /\ m.commit_max = commit_max[r] /\ m.head = HeadHeader(r)
          /\ log_view[r] = view[r] /\ r = PrimaryIndex(view[r])
      BY <1>3, <1>10 DEF StartView
    <2>2. PICK k \in Int, v \in View : k = m.commit_max /\ v = m.view /\ v = log_view[r] /\ v <= v
      BY <1>4, <2>1
    <2>3. DecidedTo(k, v) /\ k <= k
      BY <1>5, <2>1, <2>2
    <2>4. DecidedTo(k, v)'
      BY <1>1, <2>2, <2>3, StillDecided
    <2>5. commit_max[r] <= op[r]
      <3>1. status[r] = "view_change" => dvc_quorum[r]
        BY <1>1, <2>1 DEF LogInv, HeadersOfView, InLogView
      <3>2. LeaderLog(r) /\ status[r] \in {"normal", "view_change", "recovering_head"}
        BY <1>1 DEF TypeInv, LocalTypes, ReplicaTypes
      <3> QED
        BY <1>3, <2>1, <3>1, <3>2 DEF LeaderLog
    <2> QED
      BY <1>4, <2>1, <2>2, <2>4, <2>5
  <1> QED
    BY <1>3, <1>6, <1>7, <1>9, <1>10 DEF DecidedStep, commitVars

\* A replica that counts one commit more, or executes one prepare more.
LEMMA CommitDecided ==
    ASSUME SafeState, TypeInv', QuorumReplication >= 2, NEW r \in Replica, StepOf(r),
           UNCHANGED <<status, view, log_view, view_headers, durable, logVars, prepared,
                       do_view_changes, start_views, commits>>,
           NEW K \in Int, DecidedTo(K, log_view[r]), commit_max'[r] <= K,
           commit_min'[r] <= commit_max'[r],
           status[r] = "normal" /\ r = PrimaryIndex(view[r]) => commit_min'[r] = commit_max'[r],
           \/ commit_min'[r] = commit_min[r] /\ committed' = committed
           \/ \E p \in prepared :
                /\ OpOf(p) = commit_min[r] + 1 /\ commit_min'[r] = commit_min[r] + 1
                /\ journal[r][OpOf(p)].header = p /\ committed' = committed \cup {p}
                /\ \E f \in Paths : Decided(f, p)
    PROVE  DecidedStep(r)
  <1>1. TypeInv /\ IInv /\ LogInv /\ SafeInv /\ KnowsDecided(r) /\ ViewsStarted /\ Executed(r)
    BY DEF SafeState, SafeInv, CommitsDecided
  <1>2. KnowsDecided(r)'
    <2>1. log_view[r] \in View /\ log_view[r] <= log_view[r]
      BY <1>1, NumberFacts
    <2>2. PICK v \in View : v = log_view[r]
      BY <2>1
    <2>3. v = log_view'[r] /\ DecidedTo(K, v) /\ view_headers'[r] = view_headers[r]
          /\ durable'[r] = durable[r] /\ log_view[r] <= v
          /\ (status'[r] = "normal" /\ r = PrimaryIndex(view'[r]) => commit_min'[r] = commit_max'[r])
      BY <2>1, <2>2
    <2> QED
      BY <1>1, <2>2, <2>3, KnowsDecidedStep
  <1>3. /\ committed \subseteq committed'
        /\ \A p \in committed' \ committed : p \in prepared /\ \E f \in Paths : Decided(f, p)'
    <2>1. ASSUME NEW p \in committed' \ committed
          PROVE  p \in prepared /\ \E f \in Paths : Decided(f, p)'
      <3>1. PICK f \in Paths : p \in prepared /\ Decided(f, p)
        BY <2>1
      <3>2. Decided(f, p)'
        BY <1>1, <3>1, DecidedStays
      <3> QED
        BY <3>1, <3>2
    <2> QED
      BY <2>1
  <1>4. Executed(r)'
    <2>1. commit_min[r] \in Nat
      BY <1>1, NumberFacts
    <2>2. PICK n : n = commit_min'[r]
      OBVIOUS
    <2>3. \A o \in 1..n : \E p \in committed' : OpOf(p) = o /\ journal[r][o].header \in {None, p}
      <3> TAKE o \in 1..n
      <3>1. CASE o <= commit_min[r]
        BY <1>1, <1>3, <2>1, <3>1 DEF Executed
      <3>2. CASE ~(o <= commit_min[r])
        <4>1. n = commit_min[r] + 1
          BY <2>1, <2>2, <3>2
        <4>2. PICK p \in prepared : /\ OpOf(p) = commit_min[r] + 1
                                    /\ journal[r][OpOf(p)].header = p /\ committed' = committed \cup {p}
          BY <2>1, <2>2, <4>1
        <4>3. OpOf(p) = o /\ p \in committed' /\ journal[r][o].header = p
          BY <2>1, <3>2, <4>1, <4>2
        <4> QED
          BY <4>3
      <3> QED
        BY <3>1, <3>2
    <2> QED
      BY <2>2, <2>3 DEF Executed, logVars
  <1> QED
    BY <1>2, <1>3, <1>4 DEF DecidedStep

\* What the primary of a view counts a replication quorum for is decided: all before it is, and
\* it is in the log of the view.
LEMMA DecidedNext ==
    ASSUME SafeState, QuorumReplication >= 2, NEW r \in Replica, Leads(r),
           NEW k \in Nat, DecidedTo(k, view[r]), k + 1 <= op[r],
           NEW p, p = Ancestor(HeadHeader(r), k + 1),
           Cardinality(Acked(view[r], p)) >= QuorumReplication
    PROVE  /\ p \in prepared /\ OpOf(p) = k + 1
           /\ \E f \in Paths : Decided(f, p) /\ f[k + 1] <= view[r]
  <1>1. TypeInv /\ IInv /\ LogInv /\ SafeLogs /\ ViewsStarted
    BY DEF SafeState, SafeInv
  <1>2. PICK v \in View : v = view[r] /\ v \in Nat
    BY <1>1, NumberFacts
  <1>3. PICK H \in Prepare : /\ H = HeadHeader(r) /\ H \in Known /\ OpOf(H) = op[r]
                             /\ op[r] \in Nat /\ op[r] <= OpMax
    BY <1>1, HeadFacts
  <1>4. k + 1 \in 0..OpOf(H) /\ k + 1 \in Op /\ k + 1 \in 1..(k + 1)
    BY <1>3, CountsAssumption DEF Op
  <1>5. p \in Prepare /\ OpOf(p) = k + 1 /\ p \preceq H /\ p \in Known
    BY <1>1, <1>3, <1>4, AncestorFacts, BeginsFacts, KnownFacts
  <1>6. p \in prepared
    BY <1>1, <1>5, KnownFacts
  <1>7. InLog(v, p)
    <2>1. Lineage(H, v) /\ \A t \in Tips(v) : Continues(t, H, v)
      BY <1>1, <1>2, <1>3, LeaderFacts
    <2>2. ViewOf(p) <= v /\ ViewOf(p) \in View /\ ViewOf(p) \in Nat
      BY <1>2, <1>3, <1>5, <2>1, LineageFacts, ViewFacts DEF View
    <2>3. ASSUME ViewOf(p) # v, NEW m \in start_views, m.view = v
          PROVE  p \preceq m.head
      <3>1. m.head \in Tips(v)
        BY <1>1, <2>3, TipsKnown DEF SentTip
      <3>2. m.head \in Prepare /\ Continues(m.head, H, v) /\ m.head \preceq H
        BY <1>1, <2>1, <3>1, TipsKnown, ContinuesFacts, <1>3, <1>2
      <3>3. OpOf(m.head) \in Nat /\ OpOf(p) \in Nat
        BY <1>5, <3>2, OpFacts
      <3>4. CASE OpOf(p) <= OpOf(m.head)
        BY <1>3, <1>5, <3>2, <3>4, BeginsFacts
      <3>5. CASE OpOf(m.head) < OpOf(p)
        <4>1. k + 1 \in (OpOf(m.head) + 1)..OpOf(H)
          BY <1>3, <1>4, <1>5, <3>3, <3>5
        <4>2. H[k + 1] = v
          BY <3>2, <4>1 DEF Continues
        <4>3. p[k + 1] = H[k + 1] /\ ViewOf(p) = p[k + 1]
          BY <1>1, <1>3, <1>4, <1>5, <1>6, BeginsFacts, ViewFacts, KnownFacts
        <4> QED
          BY <2>3, <4>2, <4>3
      <3> QED
        BY <3>3, <3>4, <3>5
    <2> QED
      BY <1>2, <2>2, <2>3 DEF InLog
  <1>8. PICK f0 \in Paths : k > 0 => \E p0 \in prepared :
                OpOf(p0) = k /\ Decided(f0, p0) /\ f0[k] <= v
    <2>1. [o \in Op |-> v] \in Paths
      BY DEF Paths
    <2> QED
      BY <1>2, <2>1 DEF DecidedTo
  <1>9. \A i \in 1..k : /\ i \in Op /\ f0[i] \in View /\ f0[i] \in Nat /\ f0[i] <= v
                        /\ InLog(f0[i], Ancestor(p, i))
                        /\ \A j \in 1..i : f0[j] <= f0[i]
                        /\ Cardinality(Acked(f0[i], Ancestor(p, i))) >= QuorumReplication
    <2>1. CASE k = 0
      BY <2>1
    <2>2. CASE k > 0
      <3>1. PICK p0 \in prepared : OpOf(p0) = k /\ Decided(f0, p0) /\ f0[k] <= v
        BY <1>8, <2>2
      <3>2. p0 \preceq H
        BY <1>1, <1>2, <1>3, <3>1, DecidedInLog
      <3>3. p0 \in Prepare
        BY <1>1, KnownFacts
      <3>4. p0 \preceq p
        BY <1>3, <1>5, <3>1, <3>2, <3>3, BeginsFacts
      <3>5. \A i \in 1..k : Ancestor(p0, i) = Ancestor(p, i) /\ i \in Op
        <4>1. \A i \in 1..k : i \in 0..OpOf(p0) /\ i \in Op
          BY <1>3, <1>4, <3>1, CountsAssumption DEF Op
        <4> QED
          BY <1>5, <3>3, <3>4, <4>1, BeginsFacts
      <3>6. \A i \in 1..k : f0[i] \in View /\ f0[i] \in Nat /\ f0[i] <= f0[k]
        BY <1>1, <3>1, PathFacts DEF Decided
      <3>7. f0[k] \in Nat /\ v \in Nat
        BY <1>2, <2>2, <3>6
      <3> QED
        BY <3>1, <3>5, <3>6, <3>7 DEF Decided, Path
    <2> QED
      BY <2>1, <2>2
  <1>10. PICK f \in Paths : (\A i \in 1..k : f[i] = f0[i]) /\ f[k + 1] = v
    <2> DEFINE g == [i \in Op |-> IF i <= k THEN f0[i] ELSE v]
    <2>1. g \in Paths
      BY DEF Paths
    <2>2. \A i \in 1..k : g[i] = f0[i]
      BY <1>9
    <2>3. g[k + 1] = v
      BY <1>4
    <2> HIDE DEF g
    <2> QED
      BY <2>1, <2>2, <2>3
  <1>11. Ancestor(p, k + 1) = p
    BY <1>5, AncestorOfAncestor
  <1>12. Decided(f, p)
    <2>1. \A i \in 1..(k + 1) : i \in 1..k \/ i = k + 1
      OBVIOUS
    <2>2. \A i \in 1..(k + 1) : InLog(f[i], Ancestor(p, i))
      BY <1>7, <1>9, <1>10, <1>11, <2>1
    <2>3. \A i \in 1..(k + 1) : \A j \in 1..i : f[j] <= f[i]
      <3> TAKE i \in 1..(k + 1)
      <3> TAKE j \in 1..i
      <3>1. CASE i \in 1..k
        <4>1. j \in 1..k
          BY <3>1
        <4> QED
          BY <1>9, <1>10, <3>1, <4>1
      <3>2. CASE i = k + 1
        <4>1. j \in 1..k \/ j = k + 1
          BY <3>2
        <4> QED
          BY <1>2, <1>9, <1>10, <3>2, <4>1
      <3> QED
        BY <2>1, <3>1, <3>2
    <2>4. \A i \in 1..(k + 1) : Cardinality(Acked(f[i], Ancestor(p, i))) >= QuorumReplication
      BY <1>2, <1>9, <1>10, <1>11, <2>1
    <2> QED
      BY <1>5, <2>2, <2>3, <2>4 DEF Decided, Path
  <1> QED
    BY <1>2, <1>5, <1>6, <1>10, <1>12

\* The primary executes what it counted a replication quorum for.
LEMMA PrimaryCommitDecided ==
    ASSUME SafeState, TypeInv', QuorumReplication >= 2, NEW r \in Replica, StepOf(r),
           PrimaryCommit(r)
    PROVE  DecidedStep(r)
  <1>1. TypeInv /\ IInv /\ LogInv /\ SafeInv /\ KnowsDecided(r)
    BY DEF SafeState, SafeInv, CommitsDecided
  <1>2. /\ UNCHANGED <<viewVars, durable, logVars, prepared, do_view_changes, start_views, commits>>
        /\ status[r] = "normal" /\ r = PrimaryIndex(view[r]) /\ commit_max[r] < op[r]
        /\ Cardinality(Acks(r, journal[r][commit_max[r] + 1].header)) >= QuorumReplication
        /\ commit_min'[r] = commit_max[r] + 1 /\ commit_max'[r] = commit_max[r] + 1
        /\ committed' = committed \cup {journal[r][commit_max[r] + 1].header}
    BY <1>1 DEF PrimaryCommit, netVars, TypeInv, Functions
  <1>3. /\ Leads(r) /\ log_view[r] = view[r] /\ commit_min[r] = commit_max[r]
        /\ \A o \in 0..op[r] : journal[r][o].header = Ancestor(HeadHeader(r), o)
    BY <1>1, <1>2, NormalFacts DEF KnowsDecided, InLogView
  <1>4. commit_max[r] \in Nat /\ op[r] \in Nat
    BY <1>1, NumberFacts
  <1>5. PICK k, p : k \in Nat /\ k = commit_max[r] /\ p = journal[r][commit_max[r] + 1].header
    BY <1>4
  <1>6. p = Ancestor(HeadHeader(r), k + 1) /\ k + 1 <= op[r]
    BY <1>2, <1>3, <1>4, <1>5
  <1>7. Cardinality(Acked(view[r], p)) >= QuorumReplication
    BY <1>2, <1>5 DEF Acks, Acked
  <1>8. DecidedTo(k, view[r])
    BY <1>1, <1>3, <1>5 DEF KnowsDecided
  <1>9. /\ p \in prepared /\ OpOf(p) = k + 1
        /\ \E f \in Paths : Decided(f, p) /\ f[k + 1] <= view[r]
    BY <1>3, <1>5, <1>6, <1>7, <1>8, DecidedNext
  <1>10. PICK K \in Int : K = k + 1
    BY <1>5
  <1>11. DecidedTo(K, log_view[r])
    BY <1>3, <1>9, <1>10 DEF DecidedTo
  <1>12. /\ OpOf(p) = commit_min[r] + 1 /\ commit_min'[r] = commit_min[r] + 1
         /\ journal[r][OpOf(p)].header = p /\ committed' = committed \cup {p}
         /\ \E f \in Paths : Decided(f, p)
    BY <1>2, <1>3, <1>5, <1>9
  <1>13. commit_max'[r] <= K /\ commit_min'[r] <= commit_max'[r] /\ commit_min'[r] = commit_max'[r]
    BY <1>2, <1>4, <1>5, <1>10
  <1> QED
    BY <1>2, <1>9, <1>11, <1>12, <1>13, CommitDecided DEF viewVars

\* The heartbeat names what the primary has executed.
LEMMA SendCommitDecided ==
    ASSUME SafeState, TypeInv', QuorumReplication >= 2, NEW r \in Replica, StepOf(r), SendCommit(r)
    PROVE  DecidedStep(r)
  <1>1. TypeInv /\ IInv /\ LogInv /\ SafeInv /\ KnowsDecided(r) /\ ViewsStarted
    BY DEF SafeState, SafeInv, CommitsDecided
  <1>2. /\ UNCHANGED <<viewVars, durable, logVars, commitVars, prepared, do_view_changes, start_views>>
        /\ status[r] = "normal" /\ r = PrimaryIndex(view[r])
        /\ commits' = commits \cup {[view |-> view[r],
                                     prepare |-> journal[r][commit_max[r]].header]}
    BY DEF SendCommit
  <1>3. /\ log_view[r] = view[r] /\ commit_max[r] <= op[r] /\ commit_min[r] = commit_max[r]
        /\ \A o \in 0..op[r] : journal[r][o].header = Ancestor(HeadHeader(r), o)
    BY <1>1, <1>2, NormalFacts DEF KnowsDecided, InLogView
  <1>4. commit_max[r] \in Nat /\ op[r] \in Nat /\ commit_max[r] \in Int /\ log_view[r] \in View
        /\ log_view[r] \in Nat
    BY <1>1, NumberFacts
  <1>5. PICK k \in Int, v \in View : k = commit_max[r] /\ v = log_view[r] /\ v <= v /\ k <= k
    BY <1>4
  <1>6. DecidedTo(k, v)
    BY <1>1, <1>5 DEF KnowsDecided
  <1>7. KnowsDecided(r)'
    BY <1>2, <1>3, KnowsStays DEF viewVars, commitVars
  <1>8. Executed(r)'
    <2>1. commit_min'[r] = commit_min[r] /\ committed \subseteq committed'
          /\ \A o \in Op : journal'[r][o].header = journal[r][o].header
      BY <1>2 DEF logVars, commitVars
    <2>2. \A o \in 1..commit_min[r] : o \in Op
      BY <1>1, NumberFacts, CountsAssumption DEF Op
    <2>3. log_view[r] <= v
      BY <1>5
    <2> QED
      BY <1>1, <2>1, <2>2, <2>3, ExecutedStays
  <1>9. ASSUME NEW m \in commits' \ commits
        PROVE  DecidedTo(OpOf(m.prepare), m.view)'
    <2>1. m.view = v /\ m.prepare = Ancestor(HeadHeader(r), commit_max[r])
      BY <1>2, <1>3, <1>4, <1>5, <1>9
    <2>2. OpOf(m.prepare) = k
      BY <1>1, <1>3, <1>4, <1>5, <2>1, HeadFacts, AncestorFacts
    <2>3. DecidedTo(k, v)'
      BY <1>1, <1>5, <1>6, StillDecided
    <2> QED
      BY <2>1, <2>2, <2>3
  <1> QED
    BY <1>2, <1>7, <1>8, <1>9 DEF DecidedStep, commitVars

\* A backup believes the heartbeats of its view.
LEMMA OnCommitDecided ==
    ASSUME SafeState, TypeInv', QuorumReplication >= 2, NEW r \in Replica, StepOf(r),
           NEW m \in commits, OnCommit(r, m)
    PROVE  DecidedStep(r)
  <1>1. TypeInv /\ IInv /\ LogInv /\ SafeInv /\ KnowsDecided(r) /\ MessagesDecided
    BY DEF SafeState, SafeInv, CommitsDecided
  <1>2. /\ UNCHANGED <<viewVars, durable, logVars, commit_min, committed, prepared,
                       do_view_changes, start_views, commits>>
        /\ status[r] = "normal" /\ r # PrimaryIndex(view[r]) /\ m.view = view[r]
        /\ commit_max[r] < OpOf(m.prepare) /\ commit_max'[r] = OpOf(m.prepare)
    BY <1>1 DEF OnCommit, netVars, TypeInv, Functions
  <1>3. log_view[r] = view[r] /\ commit_min[r] <= commit_max[r]
        /\ commit_min[r] \in Nat /\ commit_max[r] \in Nat
    BY <1>1, <1>2, NormalFacts, NumberFacts DEF KnowsDecided, InLogView
  <1>4. m.prepare \in Prepare
    BY <1>1, KnownFacts DEF TypeInv, MessageTypes, CommitTypes
  <1>5. OpOf(m.prepare) \in Nat
    BY <1>4, OpFacts
  <1>6. PICK K \in Int : K = OpOf(m.prepare)
    BY <1>5
  <1>7. DecidedTo(K, log_view[r])
    BY <1>1, <1>2, <1>3, <1>6 DEF MessagesDecided
  <1>8. commit_max'[r] <= K /\ commit_min'[r] <= commit_max'[r] /\ commit_min'[r] = commit_min[r]
    BY <1>2, <1>3, <1>5, <1>6
  <1> QED
    BY <1>2, <1>7, <1>8, CommitDecided DEF viewVars

\* A replica executes of its log what was decided: the log that its head names has it all.
LEMMA CommitJournalDecided ==
    ASSUME SafeState, TypeInv', QuorumReplication >= 2, NEW r \in Replica, StepOf(r),
           CommitJournal(r)
    PROVE  DecidedStep(r)
  <1>1. TypeInv /\ IInv /\ LogInv /\ SafeInv /\ KnowsDecided(r) /\ SafeLogs /\ ViewsStarted
    BY DEF SafeState, SafeInv, CommitsDecided
  <1>2. PICK o, p : o = commit_min[r] + 1 /\ p = journal[r][o].header
    OBVIOUS
  <1>3. /\ UNCHANGED <<viewVars, durable, logVars, commit_max, prepared,
                       do_view_changes, start_views, commits>>
        /\ (status[r] = "normal" /\ r # PrimaryIndex(view[r])) \/ (status[r] = "view_change" /\ dvc_quorum[r])
        /\ commit_min[r] < LowerOf(commit_max[r], op[r])
        /\ p # None
        /\ (op[r] >= commit_max[r] /\ HashChain(journal[r], HigherOf(commit_min[r], 1), op[r]))
           \/ (status[r] = "normal" /\ ViewOf(p) = ViewOf(HeadHeader(r)))
        /\ commit_min'[r] = o /\ committed' = committed \cup {p}
    BY <1>1, <1>2 DEF CommitJournal, netVars, TypeInv, Functions
  <1>4. /\ commit_min[r] \in Nat /\ commit_max[r] \in Nat /\ op[r] \in Nat /\ op[r] <= OpMax
        /\ log_view[r] \in View /\ log_view[r] \in Nat
        /\ commit_max[r] \in Int
    BY <1>1, NumberFacts, HeadFacts
  <1>5. /\ o \in Nat /\ o <= commit_max[r] /\ o <= op[r] /\ o \in Op /\ o > 0
        /\ o \in 1..commit_max[r] /\ HigherOf(commit_min[r], 1) <= o
        /\ o \in 0..op[r]
    BY <1>2, <1>3, <1>4, CountsAssumption DEF Op, LowerOf, HigherOf
  <1>6. PICK H \in Prepare : H = HeadHeader(r) /\ H \in Known /\ OpOf(H) = op[r]
    BY <1>1, HeadFacts
  <1>7. H \in Tips(log_view[r])
    BY <1>1, <1>6, TipsKnown DEF HasTip
  <1>8. PICK d \in prepared, f \in Paths : OpOf(d) = o /\ Decided(f, d) /\ f[o] <= log_view[r]
    <2>1. DecidedTo(commit_max[r], log_view[r])
      BY <1>1 DEF KnowsDecided
    <2> QED
      BY <1>1, <1>4, <1>5, <2>1, DecidedToFacts
  <1>9. d \in Prepare
    BY <1>1, KnownFacts
  <1>10. Comparable(d, H)
    BY <1>1, <1>4, <1>7, <1>8, DecidedInLog
  <1>11. d = Ancestor(H, o)
    <2>1. d \preceq H
      BY <1>5, <1>6, <1>8, <1>9, <1>10, ComparableFacts
    <2> QED
      BY <1>8, <2>1 DEF \preceq
  <1>12. p \in Known /\ OpOf(p) = o /\ p \in prepared /\ p \in Prepare
    <2>1. p \in HeadersOf(o)
      BY <1>1, <1>2, <1>5 DEF TypeInv, LocalTypes, JournalTypes
    <2>2. p \in Known /\ OpOf(p) = o
      BY <1>3, <2>1 DEF HeadersOf
    <2> QED
      BY <1>1, <1>5, <2>2, KnownFacts
  <1>13. p = Ancestor(H, o)
    <2>1. CASE op[r] >= commit_max[r] /\ HashChain(journal[r], HigherOf(commit_min[r], 1), op[r])
      <3>1. HigherOf(commit_min[r], 1) \in Nat
        BY <1>4 DEF HigherOf
      <3>2. o \in HigherOf(commit_min[r], 1)..op[r]
        BY <1>4, <1>5, <3>1
      <3> QED
        BY <1>2, <1>6, <2>1, <3>2 DEF HashChain, HeadHeader
    <2>2. CASE status[r] = "normal" /\ ViewOf(p) = ViewOf(H)
      <3>1. H \in prepared
        BY <1>1, <1>4, <1>5, <1>6, KnownFacts
      <3>2. PICK v \in View : v = ViewOf(p) /\ v = ViewOf(H)
        BY <1>12, <2>2, ViewFacts
      <3>3. p \in Tips(v) /\ H \in Tips(v)
        BY <1>1, <1>12, <3>1, <3>2, TipsKnown DEF SentTip
      <3>4. Comparable(p, H)
        BY <1>1, <3>3, TipsComparable
      <3>5. p \preceq H
        BY <1>5, <1>6, <1>12, <3>4, ComparableFacts
      <3> QED
        BY <1>12, <3>5 DEF \preceq
    <2> QED
      BY <1>3, <1>6, <2>1, <2>2
  <1>14. \E g \in Paths : Decided(g, p)
    BY <1>8, <1>11, <1>13
  <1>15. PICK K \in Int : K = commit_max[r]
    BY <1>4
  <1>16. DecidedTo(K, log_view[r]) /\ commit_max'[r] <= K /\ commit_min'[r] <= commit_max'[r]
    BY <1>1, <1>3, <1>4, <1>5, <1>15 DEF KnowsDecided
  <1>17. OpOf(p) = commit_min[r] + 1 /\ commit_min'[r] = commit_min[r] + 1
         /\ journal[r][OpOf(p)].header = p
    BY <1>2, <1>3, <1>12
  <1> QED
    BY <1>3, <1>12, <1>14, <1>16, <1>17, CommitDecided DEF viewVars

\* A primary prepares no further than its pipeline: what came before is decided.
LEMMA OnRequestDecided ==
    ASSUME SafeState, TypeInv', QuorumReplication >= 2, NEW r \in Replica, StepOf(r), OnRequest(r)
    PROVE  DecidedStep(r)
  <1>1. TypeInv /\ IInv /\ LogInv /\ SafeInv /\ KnowsDecided(r) /\ ViewsStarted
    BY DEF SafeState, SafeInv, CommitsDecided
  <1>2. /\ UNCHANGED <<viewVars, durable, commitVars, do_view_changes, start_views, commits>>
        /\ status[r] = "normal" /\ r = PrimaryIndex(view[r])
        /\ op[r] - commit_max[r] < PipelineMax /\ op[r] < OpMax
        /\ prepared' = prepared \cup {NewPrepare(r)}
        /\ commit_min[r] = commit_max[r]
        /\ journal' = [journal EXCEPT ![r][OpOf(NewPrepare(r))] = SetHeader(@, NewPrepare(r))]
    BY DEF OnRequest, AppendPrepare
  <1>3. /\ log_view[r] \in View /\ log_view[r] \in Nat /\ view[r] \in View /\ log_view[r] <= log_view[r]
        /\ op[r] \in Nat /\ commit_max[r] \in Nat /\ PipelineMax \in Nat /\ log_view[r] = view[r]
        /\ commit_max[r] <= op[r]
    <2>1. InLogView(r) /\ commit_max[r] <= op[r]
      BY <1>1, <1>2, NormalFacts
    <2>2. /\ log_view[r] \in View /\ log_view[r] \in Nat /\ view[r] \in View
          /\ op[r] \in Nat /\ commit_max[r] \in Nat /\ PipelineMax \in Nat
      BY <1>1, NumberFacts
    <2> QED
      BY <2>1, <2>2 DEF InLogView
  <1>4. PICK p : p = NewPrepare(r)
    OBVIOUS
  <1>5. p \in Prepare /\ OpOf(p) = op[r] + 1 /\ ViewOf(p) = view[r]
    BY <1>1, <1>2, <1>3, <1>4, HeadFacts, AppendFacts DEF NewPrepare
  <1>6. KnowsDecided(r)'
    BY <1>2, KnowsStays DEF viewVars, commitVars
  <1>7. Executed(r)'
    <2>1. \A o \in Op \ {OpOf(p)} : journal'[r][o] = journal[r][o]
      BY <1>1, <1>2, <1>4, <1>5, JournalAfterSet
    <2>2. \A o \in 1..commit_min[r] : o \in Op /\ o # OpOf(p)
      BY <1>1, <1>2, <1>3, <1>5, NumberFacts, CountsAssumption DEF Op
    <2>3. commit_min'[r] = commit_min[r] /\ committed \subseteq committed'
      BY <1>2 DEF commitVars
    <2> QED
      BY <1>1, <1>3, <2>1, <2>2, <2>3, ExecutedStays
  <1>8. ASSUME NEW q \in prepared' \ prepared
        PROVE  DecidedTo(OpOf(q) - PipelineMax, ViewOf(q))'
    <2>1. q = p
      BY <1>2, <1>4, <1>8
    <2>2. PICK k \in Int, j \in Int, v \in View :
                k = commit_max[r] /\ j = op[r] + 1 - PipelineMax /\ v = view[r] /\ v <= v
      BY <1>3
    <2>3. DecidedTo(k, v) /\ j <= k
      BY <1>1, <1>2, <1>3, <2>2 DEF KnowsDecided
    <2>4. DecidedTo(j, v)'
      BY <1>1, <2>2, <2>3, StillDecided
    <2>5. j = OpOf(q) - PipelineMax /\ v = ViewOf(q)
      BY <1>3, <1>5, <2>1, <2>2
    <2>6. PICK i, w : i = OpOf(q) - PipelineMax /\ w = ViewOf(q)
      OBVIOUS
    <2>7. DecidedTo(i, w)'
      BY <2>4, <2>5, <2>6
    <2>8. i = (OpOf(q) - PipelineMax)' /\ w = ViewOf(q)'
      BY <2>6
    <2> QED
      BY <2>7, <2>8
  <1> QED
    BY <1>2, <1>6, <1>7, <1>8 DEF DecidedStep, commitVars

\* A backup learns from a prepare that what is before the pipeline is decided.
LEMMA OnPrepareDecided ==
    ASSUME SafeState, TypeInv', QuorumReplication >= 2, NEW r \in Replica, StepOf(r),
           NEW p \in prepared, OnPrepare(r, p)
    PROVE  DecidedStep(r)
  <1>1. TypeInv /\ IInv /\ LogInv /\ SafeInv /\ KnowsDecided(r) /\ MessagesDecided
    BY DEF SafeState, SafeInv, CommitsDecided
  <1>2. /\ UNCHANGED <<viewVars, durable, commit_min, committed, prepared,
                       do_view_changes, start_views, commits>>
        /\ status[r] = "normal" /\ r # PrimaryIndex(view[r]) /\ ViewOf(p) = view[r]
        /\ commit_max'[r] = HigherOf(commit_max[r], OpOf(p) - PipelineMax)
        /\ journal' = [journal EXCEPT ![r][OpOf(p)] = SetHeader(@, p)]
    BY <1>1 DEF OnPrepare, AppendPrepare, netVars, TypeInv, Functions
  <1>3. p \in Prepare /\ OpOf(p) \in Nat /\ OpOf(p) \in Op /\ p = Ancestor(p, OpOf(p))
    BY <1>1, PreparedFacts
  <1>4. /\ log_view[r] \in View /\ log_view[r] = view[r] /\ log_view[r] <= log_view[r]
        /\ commit_max[r] \in Nat /\ PipelineMax \in Nat /\ commit_min[r] \in Nat
        /\ commit_min[r] <= commit_max[r]
    <2>1. InLogView(r) /\ commit_min[r] <= commit_max[r]
      BY <1>1, <1>2, NormalFacts DEF KnowsDecided
    <2>2. /\ log_view[r] \in View /\ log_view[r] \in Nat /\ commit_min[r] \in Nat
          /\ commit_max[r] \in Nat /\ PipelineMax \in Nat
      BY <1>1, NumberFacts
    <2> QED
      BY <2>1, <2>2 DEF InLogView
  <1>5. PICK K \in Int, v \in View : v = log_view[r] /\ K = HigherOf(commit_max[r], OpOf(p) - PipelineMax)
    BY <1>3, <1>4 DEF HigherOf
  <1>6. DecidedTo(K, v)
    <2>1. DecidedTo(commit_max[r], log_view[r])
      BY <1>1 DEF KnowsDecided
    <2>2. DecidedTo(OpOf(p) - PipelineMax, ViewOf(p))
      BY <1>1 DEF MessagesDecided
    <2> QED
      BY <1>2, <1>4, <1>5, <2>1, <2>2 DEF HigherOf
  <1>7. KnowsDecided(r)'
    <2>1. /\ v = log_view'[r] /\ commit_max'[r] <= K /\ durable'[r] = durable[r]
          /\ view_headers'[r] = view_headers[r] /\ log_view[r] <= v
          /\ ~(status'[r] = "normal" /\ r = PrimaryIndex(view'[r]))
      BY <1>2, <1>4, <1>5 DEF viewVars
    <2>2. commit_min'[r] <= commit_max'[r]
      BY <1>2, <1>3, <1>4 DEF HigherOf
    <2> QED
      BY <1>1, <1>5, <1>6, <2>1, <2>2, KnowsDecidedStep
  <1>8. Executed(r)'
    <2>1. journal'[r][OpOf(p)].header = p
          /\ \A o \in Op \ {OpOf(p)} : journal'[r][o] = journal[r][o]
      BY <1>1, <1>2, <1>3, JournalAfterSet
    <2>2. \A o \in 1..commit_min[r] : o \in Op
      BY <1>1, NumberFacts, CountsAssumption DEF Op
    <2>3. p \in Tips(v) /\ OpOf(p) <= OpOf(p)
      BY <1>1, <1>2, <1>3, <1>4, <1>5, TipsKnown DEF SentTip
    <2>4. \A o \in 1..commit_min[r] :
                \/ journal'[r][o].header = journal[r][o].header
                \/ o <= OpOf(p) /\ journal'[r][o].header = Ancestor(p, o)
      BY <1>3, <2>1, <2>2, <2>3
    <2> QED
      BY <1>1, <1>2, <1>4, <1>5, <2>3, <2>4, ExecutedStays
  <1> QED
    BY <1>2, <1>7, <1>8 DEF DecidedStep

\* A replica that joins a view by its SV learns what the SV says is committed.
LEMMA OnStartViewDecided ==
    ASSUME SafeState, TypeInv', QuorumReplication >= 2, NEW r \in Replica, StepOf(r),
           NEW m \in start_views, OnStartView(r, m)
    PROVE  DecidedStep(r)
  <1>1. TypeInv /\ IInv /\ LogInv /\ SafeInv /\ KnowsDecided(r) /\ MessagesDecided
    BY DEF SafeState, SafeInv, CommitsDecided
  <1>2. PICK D : D = m.head
    OBVIOUS
  <1>3. /\ UNCHANGED <<durable, commit_min, committed, prepared, do_view_changes, start_views, commits>>
        /\ m.view >= view[r] /\ r # PrimaryIndex(m.view)
        /\ log_view'[r] = m.view /\ view'[r] = m.view
        /\ view_headers'[r] = StartViewHeaders(D)
        /\ commit_max'[r] = HigherOf(commit_max[r], m.commit_max)
        /\ journal'[r] = StartViewJournal(journal[r], StartViewHeaders(D).headers)
    BY <1>1, <1>2 DEF OnStartView, AcceptsStartView, TypeInv, Functions
  <1>4. D \in Known /\ m.view \in View /\ m.commit_max \in Op /\ D \in Tips(m.view)
        /\ OpOf(D) - PipelineMax <= m.commit_max
    <2>1. D \in Known /\ m.view \in View /\ m.commit_max \in Op
      BY <1>1, <1>2 DEF TypeInv, MessageTypes, StartViewTypes
    <2>2. SentTip(m.view, D)
      BY <1>2 DEF SentTip
    <2>3. OpOf(D) - PipelineMax <= m.commit_max
      BY <1>1, <1>2 DEF LogInv, MessagesOfView
    <2> QED
      BY <1>1, <2>1, <2>2, <2>3, TipsKnown
  <1>5. /\ log_view[r] \in View /\ log_view[r] \in Nat /\ view[r] \in Nat /\ m.view \in Nat
        /\ commit_max[r] \in Nat /\ PipelineMax \in Nat /\ commit_min[r] \in Nat
        /\ m.commit_max \in Nat /\ OpOf(D) \in Nat /\ D \in Prepare
    <2>1. m.view \in Nat /\ m.commit_max \in Nat
      BY <1>4, CountsAssumption DEF View, Op
    <2>2. D \in Prepare
      BY <1>1, <1>4, KnownFacts
    <2> QED
      BY <1>1, <2>1, <2>2, NumberFacts, OpFacts
  <1>6. log_view[r] <= m.view
    <2>1. log_view[r] <= view[r]
      BY <1>1 DEF IInv, ViewOrder
    <2> QED
      BY <1>3, <1>5, <2>1
  <1>7. PICK K \in Int, v \in View : v = m.view /\ K = HigherOf(commit_max[r], m.commit_max)
    BY <1>4, <1>5 DEF HigherOf
  <1>8. DecidedTo(K, v)
    <2>1. PICK k \in Int, w \in View : k = commit_max[r] /\ w = log_view[r]
      BY <1>5
    <2>2. DecidedTo(k, w) /\ w <= v
      BY <1>1, <1>6, <1>7, <2>1 DEF KnowsDecided
    <2>3. DecidedTo(k, v)
      BY <1>1, <2>2, DecidedToFacts
    <2>4. DecidedTo(m.commit_max, v)
      BY <1>1, <1>7 DEF MessagesDecided
    <2> QED
      BY <1>7, <2>1, <2>3, <2>4 DEF HigherOf
  <1>9. KnowsDecided(r)'
    <2>1. /\ v = log_view'[r] /\ commit_max'[r] <= K /\ durable'[r] = durable[r]
          /\ ~(status'[r] = "normal" /\ r = PrimaryIndex(view'[r]))
      BY <1>3, <1>7
    <2>2. commit_min'[r] <= commit_max'[r]
      <3>1. commit_min[r] <= commit_max[r]
        BY <1>1 DEF KnowsDecided
      <3> QED
        BY <1>3, <1>5, <3>1 DEF HigherOf
    <2>3. /\ Min(DOMAIN view_headers'[r].headers) <= K
          /\ HeadOp(view_headers'[r].headers) - PipelineMax <= K
      <3>1. /\ Min(DOMAIN StartViewHeaders(D).headers) = HigherOf(0, OpOf(D) - PipelineMax)
            /\ HeadOp(StartViewHeaders(D).headers) = OpOf(D)
        BY <1>1, <1>4, StartViewHeadersFacts
      <3> QED
        BY <1>3, <1>4, <1>5, <1>7, <3>1 DEF HigherOf
    <2> QED
      BY <1>1, <1>7, <1>8, <2>1, <2>2, <2>3, KnowsDecidedStep
  <1>10. Executed(r)'
    <2>1. \A o \in 1..commit_min[r] :
                \/ journal'[r][o].header \in {None, journal[r][o].header}
                \/ \E t \in Tips(v) : o <= OpOf(t) /\ journal'[r][o].header = Ancestor(t, o)
      <3> TAKE o \in 1..commit_min[r]
      <3>1. o \in Op /\ o \in Nat
        BY <1>1, NumberFacts, CountsAssumption DEF Op
      <3>2. CASE o <= OpOf(D)
        <4>1. PICK slot : slot = journal'[r][o]
          OBVIOUS
        <4>2. o \in 0..OpOf(D)
          BY <1>5, <3>1, <3>2
        <4>3. slot \in {journal[r][o], SetHeader(journal[r][o], Ancestor(D, o))}
          BY <1>1, <1>3, <1>4, <4>1, <4>2, StartViewSlots
        <4>4. slot.header = journal[r][o].header \/ slot.header = Ancestor(D, o)
          BY <4>3 DEF SetHeader
        <4> QED
          BY <1>4, <1>7, <3>2, <4>1, <4>4
      <3>3. CASE ~(o <= OpOf(D))
        <4>1. HeadOp(StartViewHeaders(D).headers) = OpOf(D)
          BY <1>1, <1>4, StartViewHeadersFacts
        <4>2. journal'[r][o] = Reserved
          BY <1>3, <1>5, <3>1, <3>3, <4>1 DEF StartViewJournal
        <4> QED
          BY <4>2 DEF Reserved
      <3> QED
        BY <3>2, <3>3
    <2>2. commit_min'[r] = commit_min[r] /\ committed \subseteq committed' /\ log_view[r] <= v
      BY <1>3, <1>6, <1>7
    <2> QED
      BY <1>1, <1>7, <2>1, <2>2, ExecutedStays
  <1> QED
    BY <1>3, <1>9, <1>10 DEF DecidedStep

\* What the DVCs of a quorum make the new primary take for committed is decided.
LEMMA QuorumDecided ==
    ASSUME SafeState, NEW r \in Replica, NEW Q, Chooses(r, Q), NEW v \in View, LogViewMax(Q) <= v
    PROVE  DecidedTo(CommitMaxOf(Q), v) /\ CommitMaxOf(Q) \in Op /\ log_view[r] <= LogViewMax(Q)
  <1>1. TypeInv /\ IInv /\ LogInv /\ MessagesDecided
    BY DEF SafeState, SafeInv, CommitsDecided
  <1>2. Q \in DoViewChangeQuorums(r) /\ ~InLogView(r)
    <2>1. Q \in DoViewChangeQuorums(r) /\ log_view[r] < view[r]
      BY DEF Chooses
    <2>2. log_view[r] \in Nat /\ view[r] \in Nat
      BY <1>1, NumberFacts
    <2> QED
      BY <2>1, <2>2 DEF InLogView
  <1>3. /\ Q # {} /\ Q \subseteq do_view_changes /\ CommitMaxOf(Q) \in Op
        /\ \A m \in Q : m.view = view[r] /\ DoViewChangeTypes(m) /\ m.log_view <= LogViewMax(Q)
        /\ LogViewMax(Q) \in View
    BY <1>1, <1>2, QuorumBasics
  <1>4. \A m \in Q : /\ m.op \in Nat /\ m.op = HeadOp(m.headers)
                     /\ m.commit_min \in Op /\ m.commit_min \in Nat
                     /\ Min(DOMAIN m.headers) \in Nat /\ Min(DOMAIN m.headers) <= m.op
                     /\ m.op <= OpMax /\ m.commit_min <= OpMax
    <2> TAKE m \in Q
    <2>1. m.op \in Nat /\ m.op \in Op /\ Min(DOMAIN m.headers) \in Nat /\ Min(DOMAIN m.headers) <= m.op
      BY <1>1, <1>3, VoteFacts
    <2>2. m.op = HeadOp(m.headers) /\ m.commit_min \in Op
      BY <1>3 DEF DoViewChangeTypes
    <2> QED
      BY <2>1, <2>2, CountsAssumption DEF Op
  <1>5. \A m \in Q : \A k \in Int : DecidedTo(k, m.log_view) => DecidedTo(k, v)
    <2> TAKE m \in Q
    <2> TAKE k \in Int
    <2>1. m.log_view \in View /\ m.log_view <= LogViewMax(Q)
      BY <1>1, <1>3, VoteFacts
    <2>2. m.log_view <= v
      BY <1>3, <2>1, CountsAssumption DEF View
    <2> QED
      BY <1>1, <2>1, <2>2, DecidedToFacts
  <1>6. \A m \in Q : /\ DecidedTo(Min(DOMAIN m.headers), m.log_view)
                     /\ DecidedTo(m.op - PipelineMax, m.log_view)
                     /\ DecidedTo(m.commit_min, m.log_view)
    BY <1>1, <1>3, <1>4 DEF MessagesDecided, HeadersDecided
  <1> DEFINE S == UNION {{Min(DOMAIN m.headers), m.op - PipelineMax, m.commit_min} : m \in Q}
  <1>7. CommitMaxOf(Q) = Max(S)
    BY DEF CommitMaxOf
  <1>8. \A y \in S : y \in Int /\ y <= OpMax /\ DecidedTo(y, v)
    <2>1. ASSUME NEW m \in Q, NEW y \in {Min(DOMAIN m.headers), m.op - PipelineMax, m.commit_min}
          PROVE  y \in Int /\ y <= OpMax /\ DecidedTo(y, v)
      <3>1. y \in Int /\ y <= OpMax
        BY <1>4, <2>1, CountsAssumption
      <3>2. DecidedTo(y, m.log_view)
        BY <1>6, <2>1
      <3> QED
        BY <1>5, <3>1, <3>2
    <2> QED
      BY <2>1
  <1>9. S # {}
    BY <1>3
  <1>10. S \in SUBSET Int
    BY <1>8
  <1> HIDE DEF S
  <1>11. Max(S) \in S
    <2>1. OpMax \in Int
      BY CountsAssumption
    <2> QED
      BY <1>8, <1>9, <1>10, <2>1, MaxFacts
  <1>12. log_view[r] <= LogViewMax(Q)
    <2>1. PICK m \in Q : m.replica = r
      BY <1>2 DEF DoViewChangeQuorums
    <2>2. m.view = view[r] /\ m.log_view = log_view[r]
      BY <1>1, <1>2, <1>3, <2>1 DEF LogInv, DoViewChangesKept
    <2> QED
      BY <1>3, <2>1, <2>2
  <1> QED
    BY <1>3, <1>7, <1>8, <1>11, <1>12

\* A new primary knows what its DVCs know.
LEMMA OnDoViewChangeDecided ==
    ASSUME SafeState, TypeInv', QuorumReplication >= 2, NEW r \in Replica, StepOf(r),
           OnDoViewChange(r)
    PROVE  DecidedStep(r)
  <1>1. TypeInv /\ IInv /\ LogInv /\ SafeInv /\ KnowsDecided(r) /\ MessagesDecided /\ AckInv
    BY DEF SafeState, SafeInv, CommitsDecided, AckInv
  <1>2. /\ UNCHANGED <<status, view, view_headers, durable, commit_min, committed, netVars>>
        /\ status[r] = "view_change" /\ log_view[r] < view[r] /\ log_view'[r] = view[r]
    BY <1>1, NewPrimaryFacts
  <1>3. PICK Q, T : /\ Chooses(r, Q) /\ HigherOf(commit_max[r], CommitMaxOf(Q)) <= OpHead(Q)
                    /\ commit_max'[r] = HigherOf(commit_max[r], CommitMaxOf(Q))
                    /\ op'[r] = OpHead(Q) /\ T \in Tips(LogViewMax(Q)) /\ T \in Prepare
                    /\ OpHead(Q) \in 0..OpOf(T) /\ OpOf(T) \in Nat
                    /\ HeadHeader(r)' = Ancestor(T, OpHead(Q))
    BY <1>1, NewPrimaryLog
  <1>4. /\ log_view[r] \in Nat /\ log_view[r] \in View /\ commit_max[r] \in Nat
        /\ commit_min[r] \in Nat /\ view[r] \in Nat /\ view[r] \in View
    BY <1>1, NumberFacts
  <1>5. PICK v \in View : v = view[r]
    BY <1>4
  <1>6. DecidedTo(CommitMaxOf(Q), v) /\ CommitMaxOf(Q) \in Op /\ log_view[r] <= LogViewMax(Q)
    <2>1. Q \in DoViewChangeQuorums(r)
      BY <1>3 DEF Chooses
    <2>2. LogViewMax(Q) \in View /\ LogViewMax(Q) < view[r]
      BY <1>1, <2>1, VotesTop, QuorumBasics
    <2>3. LogViewMax(Q) <= v
      BY <1>4, <1>5, <2>2, CountsAssumption DEF View
    <2> QED
      BY <1>3, <2>3, QuorumDecided
  <1>7. CommitMaxOf(Q) \in Nat
    BY <1>6, OpFacts
  <1>8. commit_min[r] <= commit_max[r]
    BY <1>1 DEF KnowsDecided
  <1>9. PICK K \in Int : K = HigherOf(commit_max[r], CommitMaxOf(Q))
    BY <1>4, <1>7 DEF HigherOf
  <1>10. DecidedTo(K, v)
    <2>1. PICK k \in Int, w \in View : k = commit_max[r] /\ w = log_view[r]
      BY <1>4
    <2>2. DecidedTo(k, w) /\ w <= v
      BY <1>1, <1>2, <1>4, <1>5, <2>1 DEF KnowsDecided
    <2>3. DecidedTo(k, v)
      BY <1>1, <2>2, DecidedToFacts
    <2> QED
      BY <1>6, <1>9, <2>1, <2>3 DEF HigherOf
  <1>11. KnowsDecided(r)'
    <2>1. /\ v = log_view'[r] /\ commit_max'[r] <= K /\ durable'[r] = durable[r]
          /\ view_headers'[r] = view_headers[r] /\ log_view[r] <= v
          /\ ~(status'[r] = "normal" /\ r = PrimaryIndex(view'[r]))
          /\ commit_min'[r] <= commit_max'[r]
      BY <1>2, <1>3, <1>4, <1>5, <1>7, <1>8, <1>9 DEF HigherOf
    <2> QED
      BY <1>1, <1>5, <1>10, <2>1, KnowsDecidedStep
  <1>12. NewVotes(r)
    BY <1>2 DEF NewVotes, netVars
  <1>13. Executed(r)'
    <2>1. PICK w \in View : w = LogViewMax(Q)
      <3>1. Q \in DoViewChangeQuorums(r)
        BY <1>3 DEF Chooses
      <3> QED
        BY <1>1, <3>1, QuorumBasics
    <2>2. \A o \in 1..commit_min[r] :
                \/ journal'[r][o].header \in {None, journal[r][o].header}
                \/ \E t \in Tips(w) : o <= OpOf(t) /\ journal'[r][o].header = Ancestor(t, o)
      <3> TAKE o \in 1..commit_min[r]
      <3>1. o \in Op /\ o \in 0..OpHead(Q) /\ o <= op'[r] /\ o <= OpOf(T)
        <4>1. o \in Op
          BY <1>1, NumberFacts, CountsAssumption DEF Op
        <4>2. commit_max[r] <= OpHead(Q)
          BY <1>3, <1>4, <1>7 DEF HigherOf
        <4> QED
          BY <1>3, <1>4, <1>8, <4>1, <4>2
      <3>2. PICK slot : slot = journal'[r][o]
        OBVIOUS
      <3>3. slot \in {journal[r][o], SetHeader(journal[r][o], Ancestor(HeadHeader(r)', o))}
        BY <1>1, <3>1, <3>2, NewSlots
      <3>4. Ancestor(HeadHeader(r)', o) = Ancestor(T, o)
        BY <1>3, <3>1, AncestorOfAncestor
      <3>5. slot.header = journal[r][o].header \/ slot.header = Ancestor(T, o)
        BY <3>3, <3>4 DEF SetHeader
      <3> QED
        BY <1>3, <2>1, <3>1, <3>2, <3>5
    <2>3. commit_min'[r] = commit_min[r] /\ committed \subseteq committed' /\ log_view[r] <= w
      BY <1>2, <1>6, <2>1
    <2> QED
      BY <1>1, <2>1, <2>2, <2>3, ExecutedStays
  <1> QED
    BY <1>2, <1>11, <1>12, <1>13, QuietDecided DEF netVars

\* A replica that restarts knows what its superblock and the head of its log tell.
LEMMA CrashDecided ==
    ASSUME SafeState, TypeInv', QuorumReplication >= 2, NEW r \in Replica, StepOf(r), Crash(r)
    PROVE  DecidedStep(r)
  <1>1. TypeInv /\ IInv /\ LogInv /\ SafeInv /\ KnowsDecided(r) /\ MessagesDecided
    BY DEF SafeState, SafeInv, CommitsDecided
  <1>2. UNCHANGED <<durable, committed, prepared, start_views, commits>>
    BY <1>1, CrashFacts
  <1>3. PICK retires \in BOOLEAN : Restarted(r, retires)
    BY <1>1, CrashFacts
  <1>4. PICK D, H : D = ViewHead(durable[r].view_headers) /\ H = HeadHeader(r)'
    OBVIOUS
  <1>5. PICK v \in View : /\ v = durable[r].log_view /\ H \in Tips(v) /\ D \preceq H
                          /\ H \in Prepare /\ OpOf(D) = HeadOp(durable[r].view_headers.headers)
                          /\ OpOf(H) = op'[r] /\ op'[r] \in Op /\ op'[r] \in Nat
                          /\ IsHeaders(durable[r].view_headers.headers)
    BY <1>1, <1>4, CrashLog
  <1>6. PICK dc, cmax, o : dc = durable[r].commit_max /\ cmax = commit_max'[r] /\ o = op'[r]
    OBVIOUS
  <1>7. /\ dc \in Nat /\ PipelineMax \in Nat /\ o \in Nat /\ o \in Op /\ cmax \in Op /\ cmax \in Nat
        /\ cmax = HigherOf(dc, o - PipelineMax)
    <2>1. dc \in Nat /\ PipelineMax \in Nat
      BY <1>1, <1>6, NumberFacts
    <2>2. cmax \in Op
      BY <1>6 DEF TypeInv, LocalTypes, ReplicaTypes
    <2>3. cmax = HigherOf(dc, o - PipelineMax)
      BY <1>3, <1>6 DEF Restarted
    <2> QED
      BY <1>5, <1>6, <2>1, <2>2, <2>3, OpFacts
  <1>8. DecidedTo(dc, v)
    BY <1>1, <1>5, <1>6 DEF KnowsDecided
  <1>9. DecidedTo(o - PipelineMax, v)
    <2>1. H \in Known
      BY <1>1, <1>5, TipsKnown
    <2>2. CASE H = Root
      <3>1. o - PipelineMax <= 0
        BY <1>5, <1>6, <1>7, <2>2, OpFacts
      <3> QED
        BY <3>1 DEF DecidedTo
    <2>3. CASE H \in prepared
      <3>1. PICK w \in View : w = ViewOf(H)
        BY <1>5, ViewFacts
      <3>2. Lineage(H, v)
        BY <1>1, <1>5 DEF LogInv, TipViews
      <3>3. w <= v
        BY <1>5, <3>1, <3>2, LineageFacts
      <3>4. DecidedTo(OpOf(H) - PipelineMax, ViewOf(H))
        BY <1>1, <2>3 DEF MessagesDecided
      <3>5. PICK k \in Int : k = o - PipelineMax
        BY <1>7
      <3>6. DecidedTo(k, w)
        BY <1>5, <1>6, <3>1, <3>4, <3>5
      <3> QED
        BY <1>1, <3>3, <3>5, <3>6, DecidedToFacts
    <2> QED
      BY <2>1, <2>2, <2>3 DEF Known
  <1>10. PICK K \in Int : K = cmax
    BY <1>7
  <1>11. DecidedTo(K, v)
    BY <1>7, <1>8, <1>9, <1>10 DEF HigherOf
  <1>12. \/ view_headers'[r] = durable[r].view_headers
         \/ /\ Min(DOMAIN view_headers'[r].headers) <= K
            /\ HeadOp(view_headers'[r].headers) - PipelineMax <= K
    <2>1. CASE ~retires
      BY <1>3, <2>1 DEF Restarted
    <2>2. CASE retires
      <3>0. PICK repairing \in BOOLEAN : repairing = FALSE
        OBVIOUS
      <3>1. PICK j, old, d :
                /\ j = journal'[r] /\ old = durable[r].view_headers.headers
                /\ d = DoViewChangeHeaders(j, o, cmax, old, repairing)
        OBVIOUS
      <3>2. view_headers'[r] = d
        BY <1>3, <1>6, <2>2, <3>0, <3>1 DEF Restarted
      <3>3. \A k \in Op : j[k].header \in HeadersOf(k)
        <4>1. \A k \in Op : journal'[r][k].header \in HeadersOf(k)'
          BY DEF TypeInv, LocalTypes, JournalTypes
        <4>2. \A k \in Op : HeadersOf(k)' = HeadersOf(k)
          BY <1>2 DEF HeadersOf, Known
        <4> QED
          BY <3>1, <4>1, <4>2
      <3>4. j[o].header # None
        BY <1>4, <1>5, <1>6, <3>1, NoneFacts DEF HeadHeader
      <3>5. HeadOp(old) <= o /\ IsHeaders(old)
        BY <1>5, <1>6, <3>1 DEF \preceq
      <3>6. o - PipelineMax <= cmax
        BY <1>7 DEF HigherOf
      <3>7. Min(DOMAIN d.headers) <= cmax /\ HeadOp(d.headers) - PipelineMax <= cmax
        BY <1>1, <1>7, <3>0, <3>1, <3>3, <3>4, <3>5, <3>6, HeadersKnown
      <3> QED
        BY <1>10, <3>2, <3>7
    <2> QED
      BY <2>1, <2>2
  <1>13. KnowsDecided(r)'
    <2>1. /\ v = log_view'[r] /\ commit_max'[r] <= K /\ durable'[r] = durable[r]
          /\ commit_min'[r] <= commit_max'[r] /\ durable[r].log_view <= v
      <3>1. v \in Nat
        BY CountsAssumption DEF View
      <3> QED
        BY <1>2, <1>3, <1>5, <1>6, <1>7, <1>10, <3>1 DEF Restarted
    <2>2. ~(status'[r] = "normal" /\ r = PrimaryIndex(view'[r]))
      BY <1>3 DEF Restarted
    <2> QED
      BY <1>1, <1>11, <1>12, <2>1, <2>2, KnowsDecidedStep
  <1>14. Executed(r)'
    <2>1. commit_min'[r] = 0
      BY <1>3 DEF Restarted
    <2> QED
      BY <2>1 DEF Executed
  <1>15. NewVotes(r)
    BY <1>1, CrashVotes
  <1> QED
    BY <1>2, <1>13, <1>14, <1>15, QuietDecided

\* Every step of a replica.
LEMMA EveryStepDecided ==
    ASSUME SafeState, TypeInv', QuorumReplication >= 2, NEW r \in Replica, StepOf(r),
           StepWithoutCrash(r) \/ Crash(r)
    PROVE  DecidedStep(r)
  <1>1. CASE OnRequest(r) \/ \E p \in prepared : OnPrepare(r, p)
    BY <1>1, OnRequestDecided, OnPrepareDecided
  <1>2. CASE CommitStep(r)
    BY <1>2, PrimaryCommitDecided, SendCommitDecided, CommitJournalDecided, OnCommitDecided
       DEF CommitStep
  <1>3. CASE RepairStep(r) \/ WriteStep(r) \/ StartViewAsTheNewPrimary(r) \/ DoViewChangeTimeout(r)
    BY <1>3, RepairDecided
  <1>4. CASE LeavesView(r) \/ Answers(r) \/ ViewDurableUpdate(r)
    BY <1>4, LeavesDecided, AnswersDecided, DurableDecided
  <1>5. CASE OnDoViewChange(r) \/ (\E m \in start_views : OnStartView(r, m)) \/ Crash(r)
    BY <1>5, OnDoViewChangeDecided, OnStartViewDecided, CrashDecided
  <1> QED
    BY <1>1, <1>2, <1>3, <1>4, <1>5 DEF StepWithoutCrash

\* A step that changes nothing keeps it.
LEMMA StutterSafeInv == ASSUME SafeInv, UNCHANGED vars PROVE SafeInv'
  <1>1. UNCHANGED <<status, view, log_view, view_headers, dvc_quorum, durable, op, commit_min,
                    commit_max, journal, disk, writing, incarnation, prepared, prepare_oks,
                    do_view_changes, start_views, commits, committed>>
    BY DEF vars, viewVars, logVars, commitVars, diskVars, netVars
  <1>2. \A r \in Replica : /\ \A v, p : HasTip(r, v, p)' <=> HasTip(r, v, p)
                           /\ InLogView(r)' <=> InLogView(r)
                           /\ HeadHeader(r)' = HeadHeader(r)
    BY <1>1 DEF HasTip, InLogView, HeadHeader
  <1>3. \A v : Tips(v)' = Tips(v)
    <2>1. \A v, p : SentTip(v, p)' <=> SentTip(v, p)
      BY <1>1 DEF SentTip
    <2> QED
      BY <1>1, <1>2, <2>1 DEF Tips, Known
  <1>4. \A v : LogViewDurable(v)' <=> LogViewDurable(v)
    BY <1>1 DEF LogViewDurable
  <1>5. /\ \A q, r, v : Left(q, r, v)' <=> Left(q, r, v)
        /\ \A v, p : Acked(v, p)' = Acked(v, p)
        /\ \A v, p : InLog(v, p)' <=> InLog(v, p)
        /\ \A v : Started(v)' <=> Started(v)
    BY <1>1 DEF Left, Acked, InLog, Started
  <1>6. \A q, v, p : Lost(q, v, p)' <=> Lost(q, v, p)
    BY <1>5 DEF Lost, Gone
  <1>7. \A f, p : Path(f, p)' <=> Path(f, p)
    BY <1>5 DEF Path
  <1>8. /\ \A q, f, p : Alive(q, f, p)' <=> Alive(q, f, p)
        /\ \A f, p : Decided(f, p)' <=> Decided(f, p)
    BY <1>5, <1>6, <1>7 DEF Alive, Decided
  <1>9. \A k, v : DecidedTo(k, v)' <=> DecidedTo(k, v)
    BY <1>1, <1>8 DEF DecidedTo
  <1>10. \A h, v : HeadersDecided(h, v)' <=> HeadersDecided(h, v)
    BY <1>9 DEF HeadersDecided
  <1>11. TipsQuorum'
    BY <1>3, <1>5 DEF SafeInv, TipsQuorum
  <1>12. SafeLogs'
    BY <1>1, <1>3, <1>8 DEF SafeInv, SafeLogs
  <1>13. SafeInMemory'
    BY <1>1, <1>3, <1>4, <1>5, <1>8 DEF SafeInv, SafeInMemory
  <1>14. AckedKept'
    <2>1. \A r \in Replica : \A f, p : /\ OnDisk(r, f, p)' <=> OnDisk(r, f, p)
                                       /\ InVotes(r, f, p)' <=> InVotes(r, f, p)
      BY <1>1 DEF OnDisk, InVotes
    <2>2. \A r \in Replica : \A f, p : InMemory(r, f, p)' <=> InMemory(r, f, p)
      BY <1>1, <1>2 DEF InMemory
    <2> QED
      BY <1>1, <1>5, <1>8, <2>1, <2>2 DEF SafeInv, AckedKept
  <1>15. OwnAcked'
    BY <1>1, <1>4 DEF SafeInv, OwnAcked, HeadHeader
  <1>16. Blanks'
    <2>1. \A r \in Replica : HasBlanks(r)'
      BY <1>1, <1>2 DEF SafeInv, Blanks, HasBlanks
    <2> QED
      BY <1>1, <2>1 DEF SafeInv, Blanks
  <1>17. RootKept'
    BY <1>1 DEF SafeInv, RootKept, KeepsRoot
  <1>18. ViewsStarted'
    BY <1>1, <1>5 DEF SafeInv, ViewsStarted, HasStarted
  <1>19. Nonces'
    BY <1>1 DEF SafeInv, Nonces
  <1>20. CommitsDecided'
    <2>1. MessagesDecided'
      BY <1>1, <1>9, <1>10 DEF SafeInv, CommitsDecided, MessagesDecided
    <2>2. CommittedDecided'
      BY <1>1, <1>8 DEF SafeInv, CommitsDecided, CommittedDecided
    <2>3. ASSUME NEW r \in Replica PROVE KnowsDecided(r)'
      <3>1. KnowsDecided(r)
        BY DEF SafeInv, CommitsDecided
      <3> QED
        BY <1>1, <1>9, <1>10, <3>1 DEF KnowsDecided
    <2> QED
      BY <2>1, <2>2, <2>3 DEF CommitsDecided
  <1>21. \A r \in Replica : CleanOnDisk(r)' /\ Executed(r)'
    BY <1>1 DEF SafeInv, CleanOnDisk, Executed
  <1> QED
    BY <1>11, <1>12, <1>13, <1>14, <1>15, <1>16, <1>17, <1>18, <1>19, <1>20, <1>21 DEF SafeInv

\* It holds initially: nothing was sent, and there is only the root.
LEMMA InitSafeInv == Init => SafeInv
  <1> SUFFICES ASSUME Init PROVE SafeInv
    OBVIOUS
  <1>1. /\ TypeInv /\ prepared = {} /\ prepare_oks = {} /\ do_view_changes = {} /\ start_views = {}
        /\ commits = {} /\ committed = {} /\ Root \in Known /\ PipelineMax \in Nat
        /\ OpOf(Root) = 0 /\ 0 \in Op /\ Root # None
    BY InitTypes, KnownFacts, OpFacts, CountsAssumption DEF Init
  <1>2. \A r \in Replica :
           /\ status[r] = "normal" /\ view[r] = 0 /\ log_view[r] = 0 /\ dvc_quorum[r] = FALSE
           /\ view_headers[r] = StartViewHeaders(Root) /\ durable[r].view_headers = StartViewHeaders(Root)
           /\ durable[r].view = 0 /\ durable[r].log_view = 0 /\ durable[r].commit_max = 0
           /\ commit_min[r] = 0 /\ commit_max[r] = 0
           /\ \A o \in Op : /\ journal[r][o] = IF o = 0 THEN CleanSlot(Root) ELSE Reserved
                            /\ disk[r][o] = IF o = 0 THEN Root ELSE None
                            /\ writing[r][o] = None
    BY DEF Init
  <1>3. TipsQuorum
    <2>1. ASSUME NEW v \in View \ {0}, NEW t \in Tips(v)
          PROVE  FALSE
      <3>1. ~SentTip(v, t)
        BY <1>1 DEF SentTip
      <3>2. \A r \in Replica : ~HasTip(r, v, t)
        BY <1>2, <2>1 DEF HasTip
      <3> QED
        BY <2>1, <3>1, <3>2 DEF Tips
    <2> QED
      BY <2>1 DEF TipsQuorum
  <1>4. SafeLogs /\ SafeInMemory /\ AckedKept /\ OwnAcked
    BY <1>1 DEF SafeLogs, SafeInMemory, AckedKept, OwnAcked
  <1>5. Blanks
    <2>1. \A r \in Replica : HasBlanks(r)
      BY <1>1, <1>2, StartViewBlanks DEF HasBlanks, InLogView
    <2> QED
      BY <1>1, <2>1 DEF Blanks
  <1>6. RootKept
    BY <1>1, <1>2 DEF RootKept, KeepsRoot
  <1>7. ViewsStarted
    BY <1>1, <1>2 DEF ViewsStarted, HasStarted, Started
  <1>8. Nonces
    BY <1>1 DEF Nonces
  <1>9. CommitsDecided
    <2>1. \A k \in Int : \A v : k <= 0 => DecidedTo(k, v)
      BY DEF DecidedTo
    <2>2. \A v : HeadersDecided(StartViewHeaders(Root).headers, v)
      <3>1. /\ Min(DOMAIN StartViewHeaders(Root).headers) = HigherOf(0, OpOf(Root) - PipelineMax)
            /\ HeadOp(StartViewHeaders(Root).headers) = OpOf(Root)
        BY <1>1, StartViewHeadersFacts
      <3>2. HigherOf(0, OpOf(Root) - PipelineMax) = 0 /\ OpOf(Root) - PipelineMax \in Int
            /\ OpOf(Root) - PipelineMax <= 0
        BY <1>1 DEF HigherOf
      <3> QED
        BY <2>1, <3>1, <3>2 DEF HeadersDecided
    <2>3. \A r \in Replica : KnowsDecided(r)
      BY <1>2, <2>1, <2>2 DEF KnowsDecided
    <2> QED
      BY <1>1, <2>3 DEF CommitsDecided, MessagesDecided, CommittedDecided
  <1>10. \A r \in Replica : CleanOnDisk(r) /\ Executed(r)
    BY <1>1, <1>2 DEF CleanOnDisk, Executed, CleanSlot, Reserved
  <1> QED
    BY <1>3, <1>4, <1>5, <1>6, <1>7, <1>8, <1>9, <1>10 DEF SafeInv

\* Every step keeps it, if a replication quorum is more than the primary.
LEMMA NextSafeInv ==
    ASSUME TypeInv, TypeInv', IInv, IInv', LogInv, LogInv', SafeInv, QuorumReplication >= 2,
           [Next]_vars
    PROVE  SafeInv'
  <1>1. CASE Next
    <2>1. PICK r \in Replica : StepWithoutCrash(r) \/ Crash(r)
      BY <1>1, StepCases DEF Next
    <2>2. StepOf(r)
      BY <2>1, EveryStepOf
    <2>3. SafeStep(r)
      BY <2>1, NoCrashIsSafe, CrashIsSafe
    <2>4. SafeState
      BY DEF SafeState
    <2>5. DecidedStep(r)
      BY <2>1, <2>2, <2>4, EveryStepDecided
    <2> QED
      BY <2>3, <2>5, SafeStepInv
  <1>2. CASE UNCHANGED vars
    BY <1>2, StutterSafeInv
  <1> QED
    BY <1>1, <1>2

-----------------------------------------------------------------------------
(* What follows from it. *)

\* The invariants of the logs, of what was acknowledged and of what is known committed hold in every
\* reachable state, whatever messages are lost, late or repeated and whatever replicas crash, of a
\* cluster of any size with any intersecting quorums, the replication quorum not a primary alone.
THEOREM SafetyHolds == QuorumReplication >= 2 => (Spec => []SafeInv)
  <1> SUFFICES ASSUME QuorumReplication >= 2 PROVE Spec => []SafeInv
    OBVIOUS
  <1>1. Init => SafeInv
    BY InitSafeInv
  <1>2. TypeInv /\ TypeInv' /\ IInv /\ IInv' /\ LogInv /\ LogInv' /\ SafeInv /\ [Next]_vars => SafeInv'
    BY NextSafeInv
  <1> QED
    BY <1>1, <1>2, TypesHold, InductiveInvariant, LogsHold, PTL DEF Spec

\* In a safe state, what was executed is one log: any two executed prepares are comparable.
LEMMA ExecutedAgree ==
    ASSUME SafeState, QuorumReplication >= 2, NEW p \in committed, NEW q \in committed
    PROVE  Comparable(p, q) /\ p \in prepared /\ q \in prepared
  <1>1. TypeInv /\ IInv /\ LogInv /\ ViewsStarted /\ SafeLogs /\ CommittedDecided
    BY DEF SafeState, SafeInv, CommitsDecided
  <1>2. p \in prepared /\ q \in prepared
    BY <1>1 DEF CommittedDecided
  <1>3. PICK f \in Paths : Decided(f, p)
    BY <1>1 DEF CommittedDecided
  <1>4. PICK g \in Paths : Decided(g, q)
    BY <1>1 DEF CommittedDecided
  <1> QED
    BY <1>1, <1>2, <1>3, <1>4, DecidedAgree

\* Agreement from the inductive invariant: two decided prepares are of one log.
LEMMA SafeAgreement ==
    ASSUME SafeState, QuorumReplication >= 2
    PROVE  Agreement
  <1> SUFFICES ASSUME NEW p \in committed, NEW q \in committed, OpOf(p) <= OpOf(q)
               PROVE  p = Ancestor(q, OpOf(p))
    BY DEF Agreement
  <1>1. Comparable(p, q) /\ p \in prepared /\ q \in prepared
    BY ExecutedAgree
  <1>2. p \in Prepare /\ q \in Prepare
    BY <1>1, PreparedFacts DEF SafeState
  <1>3. p \preceq q
    BY <1>1, <1>2, ComparableFacts
  <1> QED
    BY <1>3 DEF \preceq

\* The log the replicas execute never forks (Replica.commit_execute): whatever two replicas executed,
\* or one before and after a crash, one of the logs is the beginning of the other.
THEOREM LogsAgree == QuorumReplication >= 2 => (Spec => []Agreement)
  <1> SUFFICES ASSUME QuorumReplication >= 2 PROVE Spec => []Agreement
    OBVIOUS
  <1>1. TypeInv /\ IInv /\ LogInv /\ SafeInv => Agreement
    BY SafeAgreement DEF SafeState
  <1> QED
    BY <1>1, TypesHold, InductiveInvariant, LogsHold, SafetyHolds, PTL

\* What a primary holds, from the inductive invariant.
LEMMA SafePrimaryHoldsCommitted ==
    ASSUME SafeState, QuorumReplication >= 2
    PROVE  PrimaryHoldsCommitted
  <1> SUFFICES ASSUME NEW r \in Replica, status[r] = "normal", r = PrimaryIndex(view[r]),
                      \A q \in Replica : log_view[q] <= view[r], NEW p \in committed
               PROVE  journal[r][OpOf(p)].header = p
    BY DEF PrimaryHoldsCommitted
  <1>1. TypeInv /\ IInv /\ LogInv /\ ViewsStarted /\ SafeLogs /\ CommittedDecided
    BY DEF SafeState, SafeInv, CommitsDecided
  <1>2. p \in prepared /\ \E f \in Paths : Decided(f, p)
    BY <1>1 DEF CommittedDecided
  <1>3. PICK f \in Paths : Decided(f, p)
    BY <1>2
  <1>4. OpOf(p) \in 1..OpOf(p) /\ Ancestor(p, OpOf(p)) = p /\ p \in Prepare /\ OpOf(p) \in Nat
    BY <1>1, <1>2, PreparedFacts
  <1>5. Cardinality(Acked(f[OpOf(p)], p)) >= QuorumReplication
    BY <1>3, <1>4 DEF Decided
  <1>6. PICK m \in prepare_oks : m.view = f[OpOf(p)] /\ m.prepare = p
    BY <1>1, <1>5, OtherAcker
  <1>7. m.replica \in Replica /\ m.view <= log_view[m.replica]
    BY <1>1 DEF IInv, SentTypes, SentOrder
  <1>8. f[OpOf(p)] \in Nat /\ log_view[m.replica] \in Nat /\ view[r] \in Nat /\ view[r] \in View
    BY <1>1, <1>2, <1>7, PathFacts, NumberFacts
  <1>9. f[OpOf(p)] <= view[r]
    BY <1>6, <1>7, <1>8
  <1>10. Leads(r) /\ \A o \in 0..op[r] : journal[r][o].header = Ancestor(HeadHeader(r), o)
    BY <1>1, NormalFacts
  <1>11. p \preceq HeadHeader(r)
    BY <1>1, <1>2, <1>3, <1>8, <1>9, <1>10, DecidedInLog
  <1>12. OpOf(HeadHeader(r)) = op[r] /\ op[r] \in Nat
    BY <1>1, HeadFacts
  <1>13. OpOf(p) \in 0..op[r] /\ p = Ancestor(HeadHeader(r), OpOf(p))
    BY <1>4, <1>11, <1>12 DEF \preceq
  <1> QED
    BY <1>10, <1>13

\* The primary of the latest view has everything that was ever executed in its log: truncating by
\* nacks (DVCQuorum.quorum_headers) loses nothing that was.
THEOREM PrimaryHasCommitted == QuorumReplication >= 2 => (Spec => []PrimaryHoldsCommitted)
  <1> SUFFICES ASSUME QuorumReplication >= 2 PROVE Spec => []PrimaryHoldsCommitted
    OBVIOUS
  <1>1. TypeInv /\ IInv /\ LogInv /\ SafeInv => PrimaryHoldsCommitted
    BY SafePrimaryHoldsCommitted DEF SafeState
  <1> QED
    BY <1>1, TypesHold, InductiveInvariant, LogsHold, SafetyHolds, PTL

\* Whatever SV a replica accepts, it truncates nothing known committed and replaces nothing executed.
LEMMA SafeStartViews ==
    ASSUME SafeState, QuorumReplication >= 2
    PROVE  StartViewAssertions
  <1> SUFFICES ASSUME NEW r \in Replica, NEW m \in start_views, AcceptsStartView(r, m)
               PROVE  /\ OpOf(m.head) < op[r] => HigherOf(commit_max[r], m.commit_max) <= OpOf(m.head)
                      /\ \A o \in 1..LowerOf(commit_min[r], OpOf(m.head)) :
                            journal[r][o].header \in {None, Ancestor(m.head, o)}
    BY DEF StartViewAssertions
  <1>1. /\ TypeInv /\ IInv /\ LogInv /\ ViewsStarted /\ SafeLogs /\ MessagesDecided /\ SafeInv
        /\ KnowsDecided(r) /\ Executed(r)
    BY DEF SafeState, SafeInv, CommitsDecided
  <1>2. /\ view[r] \in Nat /\ log_view[r] \in Nat /\ log_view[r] \in View /\ op[r] \in Nat
        /\ commit_min[r] \in Nat /\ commit_min[r] \in Op /\ commit_max[r] \in Nat
    BY <1>1, NumberFacts
  <1>3. m.view \in View /\ m.view \in Nat /\ m.head \in Tips(m.view) /\ m.head \in Prepare
    <2>1. m.view \in View /\ m.head \in Known
      BY <1>1 DEF TypeInv, MessageTypes, StartViewTypes
    <2> QED
      BY <1>1, <2>1, KnownFacts, TipsKnown DEF SentTip, View
  <1>4. OpOf(m.head) \in Nat /\ m.commit_max <= OpOf(m.head) /\ m.commit_max \in Nat
    <2>1. m.commit_max \in Op
      BY <1>1 DEF TypeInv, MessageTypes, StartViewTypes
    <2> QED
      BY <1>1, <1>3, <2>1, OpFacts DEF MessagesDecided
  <1>5. log_view[r] <= view[r] /\ view[r] <= m.view
    BY <1>1 DEF IInv, ViewOrder, AcceptsStartView
  <1>6. ASSUME OpOf(m.head) < op[r] PROVE HigherOf(commit_max[r], m.commit_max) <= OpOf(m.head)
    <2>1. log_view[r] < m.view
      BY <1>2, <1>3, <1>5, <1>6 DEF AcceptsStartView
    <2>2. CASE commit_max[r] <= 0
      BY <1>2, <1>4, <2>2 DEF HigherOf
    <2>3. CASE commit_max[r] > 0
      <3>1. PICK p \in prepared, f \in Paths : OpOf(p) = commit_max[r] /\ Decided(f, p)
                                               /\ f[commit_max[r]] <= log_view[r]
        BY <1>1, <1>2, <2>3 DEF KnowsDecided, DecidedTo
      <3>2. f[OpOf(p)] \in Nat /\ p \in Prepare
        BY <1>1, <3>1, PathFacts, PreparedFacts
      <3>3. f[OpOf(p)] < m.view
        BY <1>2, <1>3, <2>1, <3>1, <3>2
      <3>4. p \preceq m.head
        BY <1>1, <1>2, <1>3, <3>1, <3>2, <3>3, DecidedInLog
      <3> QED
        BY <1>2, <1>4, <3>1, <3>4 DEF \preceq, HigherOf
    <2> QED
      BY <1>2, <2>2, <2>3
  <1>7. ASSUME NEW o \in 1..LowerOf(commit_min[r], OpOf(m.head))
        PROVE  journal[r][o].header \in {None, Ancestor(m.head, o)}
    <2>1. o \in 1..commit_min[r] /\ o <= OpOf(m.head)
      BY <1>2, <1>4 DEF LowerOf
    <2>2. PICK c \in committed : OpOf(c) = o /\ journal[r][o].header \in {None, c}
      BY <1>1, <2>1 DEF Executed
    <2>3. commit_min[r] <= commit_max[r] /\ DecidedTo(commit_max[r], log_view[r])
      BY <1>1 DEF KnowsDecided
    <2>4. OpOf(c) \in 1..commit_max[r]
      BY <1>2, <2>1, <2>2, <2>3
    <2>5. c \in prepared /\ \E f \in Paths : Decided(f, c) /\ f[OpOf(c)] <= log_view[r]
      BY <1>1, <1>2, <2>3, <2>4, ExecutedInView
    <2>6. PICK f \in Paths : Decided(f, c) /\ f[OpOf(c)] <= log_view[r]
      BY <2>5
    <2>7. f[OpOf(c)] \in Nat /\ c \in Prepare
      BY <1>1, <2>5, PathFacts, PreparedFacts
    <2>8. f[OpOf(c)] <= m.view
      BY <1>2, <1>3, <1>5, <2>6, <2>7
    <2>9. Comparable(c, m.head)
      BY <1>1, <1>3, <2>5, <2>6, <2>8, DecidedInLog
    <2>10. c \preceq m.head
      BY <1>3, <2>1, <2>2, <2>7, <2>9, ComparableFacts
    <2> QED
      BY <2>2, <2>10 DEF \preceq
  <1> QED
    BY <1>6, <1>7

\* No DVC quorum nacks the root.
LEMMA RootNotTruncated ==
    ASSUME SafeState, NEW r \in Replica, NEW Q, Chooses(r, Q), CommitMaxOf(Q) = 0, Truncated(Q, 0)
    PROVE  FALSE
  <1>1. TypeInv /\ IInv /\ LogInv /\ RootKept /\ Blanks /\ Q \in DoViewChangeQuorums(r)
    BY DEF SafeState, SafeInv, Chooses
  <1>2. /\ Q \subseteq do_view_changes /\ LogViewMax(Q) \in View
        /\ \A m \in Q : m.log_view <= LogViewMax(Q) /\ Min(DOMAIN m.headers) <= CommitMaxOf(Q)
                        /\ DoViewChangeTypes(m)
    BY <1>1, QuorumBasics
  <1>3. PICK c \in Canonical(Q), T \in Tips(LogViewMax(Q)) :
              /\ c \in do_view_changes /\ c.log_view = LogViewMax(Q) /\ T \in Prepare
              /\ HeaderCanonical(Q, 0) # None => HeaderCanonical(Q, 0) = Ancestor(T, 0)
    BY <1>1, VotesTop
  <1>4. ASSUME NEW m \in Q
        PROVE  /\ 0 \in DOMAIN m.headers /\ 0 \notin m.nacks /\ m.headers[0] \in {None, Root}
               /\ m.log_view \in View /\ m.log_view <= LogViewMax(Q)
               /\ m.headers[0] = None => m.log_view = 0
    <2>1. PICK t : t = m.headers[m.op]
      OBVIOUS
    <2>2. m \in do_view_changes
      BY <1>2
    <2>3. /\ DOMAIN m.headers = Min(DOMAIN m.headers)..m.op /\ m.op \in Nat
          /\ Min(DOMAIN m.headers) \in Nat /\ t \in Prepare /\ m.log_view \in View
          /\ \A o \in DOMAIN m.headers : m.headers[o] \in {None, Ancestor(t, o)}
      BY <1>1, <2>1, <2>2, VoteFacts
    <2>4. 0 \in DOMAIN m.headers
      BY <1>2, <2>3, CommitMaxOf(Q) = 0
    <2>5. Ancestor(t, 0) = Root
      BY <2>3, AncestorOfAncestor
    <2>6. ASSUME m.headers[0] = None PROVE m.log_view = 0
      <3>1. ViewOf(Ancestor(m.headers[HeadOp(m.headers)], 0)) = m.log_view
        BY <1>1, <2>2, <2>4, <2>6 DEF Blanks, BlanksOf
      <3>2. HeadOp(m.headers) = m.op
        BY <1>2 DEF DoViewChangeTypes
      <3> QED
        BY <2>1, <2>5, <3>1, <3>2 DEF ViewOf
    <2> QED
      BY <1>1, <1>2, <2>2, <2>3, <2>4, <2>5, <2>6 DEF RootKept
  <1>5. Nacks(Q, 0) # {}
    <2>1. ASSUME Nacks(Q, 0) = {} PROVE FALSE
      <3>1. Cardinality(Nacks(Q, 0)) = 0
        BY <2>1, FS_EmptySet
      <3> QED
        BY <3>1, CountsAssumption, QuorumAssumption DEF Truncated, QuorumNack
    <2> QED
      BY <2>1
  <1>6. PICK m \in Nacks(Q, 0) : TRUE
    BY <1>5
  <1>7. m \in Q /\ m.headers[0] \notin {None, HeaderCanonical(Q, 0)}
    <2>1. m \in Q
      BY DEF Nacks
    <2> QED
      BY <1>4, <2>1 DEF Nacks
  <1>8. m.headers[0] = Root /\ Ancestor(T, 0) = Root
    BY <1>3, <1>4, <1>7, AncestorOfAncestor
  <1>9. HeaderCanonical(Q, 0) = None
    BY <1>3, <1>7, <1>8
  <1>10. HeadersAt(Canonical(Q), 0) = {}
    <2>1. ASSUME HeadersAt(Canonical(Q), 0) # {} PROVE FALSE
      <3>1. HeaderCanonical(Q, 0) \in HeadersAt(Canonical(Q), 0)
        BY <2>1 DEF HeaderCanonical
      <3> QED
        BY <1>9, <3>1 DEF HeadersAt
    <2> QED
      BY <2>1
  <1>11. \A n \in Canonical(Q) : n \in Q /\ n.headers[0] = None
    <2> TAKE n \in Canonical(Q)
    <2>1. n \in Q
      BY DEF Canonical
    <2>2. 0 \in DOMAIN n.headers
      BY <1>4, <2>1
    <2> QED
      BY <1>10, <2>1, <2>2 DEF HeadersAt
  <1>12. LogViewMax(Q) = 0
    BY <1>3, <1>4, <1>11
  <1>13. m.log_view = LogViewMax(Q)
    BY <1>4, <1>7, <1>12 DEF View
  <1>14. m \in Canonical(Q)
    BY <1>7, <1>13 DEF Canonical
  <1> QED
    BY <1>7, <1>11, <1>14

\* The log a DVC quorum decides on goes as far as anything that the quorum or the new primary knows
\* committed.
LEMMA NewLogLong ==
    ASSUME SafeState, QuorumReplication >= 2, NEW r \in Replica, NEW Q, Chooses(r, Q)
    PROVE  CommitMaxOf(Q) <= OpHead(Q) /\ commit_max[r] <= OpHead(Q)
  <1>1. /\ TypeInv /\ IInv /\ LogInv /\ KnowsDecided(r) /\ Q \in DoViewChangeQuorums(r)
        /\ log_view[r] < view[r] /\ AckInv
    BY DEF SafeState, SafeInv, CommitsDecided, Chooses, AckInv
  <1>2. /\ CommitMaxOf(Q) \in Op /\ OpMaxCanonical(Q) \in Op /\ OpHead(Q) \in Int
        /\ OpHead(Q) < OpMaxCanonical(Q) =>
               CommitMaxOf(Q) <= OpHead(Q) + 1 /\ Truncated(Q, OpHead(Q) + 1)
        /\ LogViewMax(Q) \in View
    BY <1>1, QuorumBasics
  <1>3. LogViewMax(Q) < view[r]
    BY <1>1, VotesTop
  <1>4. DecidedTo(CommitMaxOf(Q), LogViewMax(Q))
    <2>1. LogViewMax(Q) <= LogViewMax(Q)
      BY <1>2 DEF View
    <2> QED
      BY <1>2, <2>1, QuorumDecided
  <1>5. /\ commit_max[r] \in Nat /\ view[r] \in Nat /\ log_view[r] \in Nat /\ LogViewMax(Q) \in Nat
        /\ CommitMaxOf(Q) \in Nat /\ OpMaxCanonical(Q) \in Nat
    <2>1. commit_max[r] \in Nat /\ view[r] \in Nat /\ log_view[r] \in Nat
      BY <1>1, NumberFacts
    <2> QED
      BY <1>2, <2>1 DEF View, Op
  <1>6. ASSUME NEW k \in Nat, NEW v \in Nat, v < view[r], DecidedTo(k, v), k > 0,
               OpHead(Q) >= 0 \/ CommitMaxOf(Q) > 0
        PROVE  k <= OpHead(Q)
    <2>1. PICK p \in prepared, f \in Paths : OpOf(p) = k /\ Decided(f, p) /\ f[k] <= v
      BY <1>6 DEF DecidedTo
    <2>2. f[OpOf(p)] \in Nat /\ f[OpOf(p)] < view[r]
      <3>1. f[OpOf(p)] \in Nat
        BY <1>1, <2>1, PathFacts
      <3> QED
        BY <1>5, <1>6, <2>1, <3>1
    <2>3. Survives(r, f, p)
      BY <1>1, <2>1, DecidedSurvives
    <2> QED
      BY <1>1, <1>6, <2>1, <2>2, <2>3, NewLogKeeps
  <1>7. CommitMaxOf(Q) <= OpHead(Q)
    <2>1. CASE CommitMaxOf(Q) > 0
      BY <1>3, <1>4, <1>5, <1>6, <2>1
    <2>2. CASE CommitMaxOf(Q) = 0
      <3>1. ASSUME OpHead(Q) < 0 PROVE FALSE
        <4>1. OpHead(Q) + 1 = 0
          BY <1>2, <1>5, <2>2, <3>1
        <4>2. Truncated(Q, 0)
          BY <1>2, <1>5, <3>1, <4>1
        <4> QED
          BY <2>2, <4>2, RootNotTruncated
      <3> QED
        BY <1>2, <2>2, <3>1
    <2> QED
      BY <1>5, <2>1, <2>2
  <1>8. commit_max[r] <= OpHead(Q)
    <2>1. OpHead(Q) >= 0
      BY <1>2, <1>5, <1>7
    <2>2. CASE commit_max[r] = 0
      BY <1>2, <2>1, <2>2
    <2>3. CASE commit_max[r] > 0
      <3>1. DecidedTo(commit_max[r], log_view[r])
        BY <1>1 DEF KnowsDecided
      <3> QED
        BY <1>1, <1>5, <1>6, <2>1, <2>3, <3>1
    <2> QED
      BY <1>5, <2>2, <2>3
  <1> QED
    BY <1>7, <1>8

\* The headers of a DVC quorum are unambiguous and chained, and it truncates nothing committed.
LEMMA SafeDoViewChanges ==
    ASSUME SafeState, QuorumReplication >= 2
    PROVE  DoViewChangeAssertions
  <1> SUFFICES ASSUME NEW r \in Replica, status[r] = "view_change", r = PrimaryIndex(view[r]),
                      log_view[r] < view[r], NEW Q \in DoViewChangeQuorums(r)
               PROVE  /\ CommitMaxOf(Q) <= OpHead(Q) /\ commit_max[r] <= OpHead(Q)
                      /\ \A o \in CommitMaxOf(Q)..OpHead(Q) :
                            /\ Cardinality(HeadersAt(Canonical(Q), o)) = 1
                            /\ HeaderCanonical(Q, o) = Ancestor(HeaderCanonical(Q, OpHead(Q)), o)
    BY DEF DoViewChangeAssertions
  <1>1. TypeInv /\ IInv /\ LogInv /\ Chooses(r, Q)
    BY DEF SafeState, Chooses
  <1>2. CommitMaxOf(Q) <= OpHead(Q) /\ commit_max[r] <= OpHead(Q)
    BY <1>1, NewLogLong
  <1>3. /\ CommitMaxOf(Q) \in Nat /\ OpHead(Q) \in Int
        /\ \A o \in CommitMaxOf(Q)..OpHead(Q) : HeaderCanonical(Q, o) \in HeadersAt(Canonical(Q), o)
    <2>1. CommitMaxOf(Q) \in Op /\ OpHead(Q) \in Int
          /\ \A o \in CommitMaxOf(Q)..OpHead(Q) : HeaderCanonical(Q, o) \in HeadersAt(Canonical(Q), o)
      BY <1>1, QuorumBasics
    <2> QED
      BY <2>1, CountsAssumption DEF Op
  <1>4. PICK T \in Prepare :
          \A o : \A p \in HeadersAt(Canonical(Q), o) : p = Ancestor(T, o) /\ o \in 0..OpOf(T)
    BY <1>1, VotesTop
  <1>5. \A o \in CommitMaxOf(Q)..OpHead(Q) : HeaderCanonical(Q, o) = Ancestor(T, o) /\ o \in 0..OpOf(T)
    BY <1>3, <1>4
  <1>6. ASSUME NEW o \in CommitMaxOf(Q)..OpHead(Q)
        PROVE  /\ Cardinality(HeadersAt(Canonical(Q), o)) = 1
               /\ HeaderCanonical(Q, o) = Ancestor(HeaderCanonical(Q, OpHead(Q)), o)
    <2>1. HeadersAt(Canonical(Q), o) = {Ancestor(T, o)}
      BY <1>3, <1>4
    <2>2. OpHead(Q) \in CommitMaxOf(Q)..OpHead(Q) /\ o \in 0..OpHead(Q)
      BY <1>2, <1>3
    <2>3. HeaderCanonical(Q, OpHead(Q)) = Ancestor(T, OpHead(Q)) /\ OpHead(Q) \in 0..OpOf(T)
      BY <1>5, <2>2
    <2>4. Ancestor(Ancestor(T, OpHead(Q)), o) = Ancestor(T, o)
      BY <2>2, <2>3, AncestorOfAncestor
    <2> QED
      BY <1>5, <2>1, <2>3, <2>4, FS_Singleton
  <1> QED
    BY <1>2, <1>6

\* No handler stops at an assertion (primary_receive_do_view_change, quorum_headers,
\* HeaderIterator.next, on_start_view, set_op_and_commit_max, replace_header): not on a second DVC of
\* a replica, not on any DVC quorum a new primary can have, not on any SV, however late.
THEOREM NoAssertionFails == QuorumReplication >= 2 => (Spec => []HandlerAssertions)
  <1> SUFFICES ASSUME QuorumReplication >= 2 PROVE Spec => []HandlerAssertions
    OBVIOUS
  <1>1. TypeInv /\ IInv /\ LogInv /\ SafeInv /\ DoViewChangeStable => HandlerAssertions
    BY SafeDoViewChanges, SafeStartViews DEF SafeState, HandlerAssertions
  <1> QED
    BY <1>1, TypesHold, InductiveInvariant, LogsHold, SafetyHolds, DoViewChangesStable, PTL

\* The op that a replica executes next is the one after all it has executed; only commit_execute,
\* of the pipeline or of the journal, executes anything.
LEMMA ExecutesNext ==
    ASSUME SafeState, NEW r \in Replica, StepWithoutCrash(r) \/ Crash(r)
    PROVE  \/ committed' = committed
           \/ \E p \in Known : OpOf(p) = commit_min[r] + 1 /\ committed' = committed \cup {p}
  <1>1. TypeInv /\ IInv /\ LogInv /\ KnowsDecided(r)
    BY DEF SafeState, SafeInv, CommitsDecided
  <1>2. /\ commit_min[r] \in Nat /\ commit_max[r] \in Nat /\ op[r] \in Nat
        /\ op[r] <= OpMax
    BY <1>1, NumberFacts, HeadFacts
  <1>3. \A o \in Op : journal[r][o].header # None =>
            journal[r][o].header \in Known /\ OpOf(journal[r][o].header) = o
    BY <1>1 DEF TypeInv, LocalTypes, JournalTypes, HeadersOf
  <1>4. CASE PrimaryCommit(r)
    <2>1. /\ status[r] = "normal" /\ r = PrimaryIndex(view[r]) /\ commit_max[r] < op[r]
          /\ committed' = committed \cup {journal[r][commit_max[r] + 1].header}
      BY <1>4 DEF PrimaryCommit
    <2>2. commit_min[r] = commit_max[r]
      BY <1>1, <2>1 DEF KnowsDecided
    <2>3. commit_max[r] + 1 \in 0..op[r] /\ commit_max[r] + 1 \in Op
      BY <1>2, <2>1, CountsAssumption DEF Op
    <2>4. journal[r][commit_max[r] + 1].header \preceq HeadHeader(r)
          /\ journal[r][commit_max[r] + 1].header = Ancestor(HeadHeader(r), commit_max[r] + 1)
      BY <1>1, <2>1, <2>3, NormalFacts
    <2>5. journal[r][commit_max[r] + 1].header # None
      <3>1. HeadHeader(r) \in Prepare /\ OpOf(HeadHeader(r)) = op[r]
        BY <1>1, HeadFacts
      <3> QED
        BY <2>3, <2>4, <3>1, AncestorFacts, NoneFacts
    <2> QED
      BY <1>3, <2>1, <2>2, <2>3, <2>5
  <1>5. CASE CommitJournal(r)
    <2>1. /\ commit_min[r] < LowerOf(commit_max[r], op[r])
          /\ journal[r][commit_min[r] + 1].header # None
          /\ committed' = committed \cup {journal[r][commit_min[r] + 1].header}
      BY <1>5 DEF CommitJournal
    <2>2. commit_min[r] + 1 \in Op
      BY <1>2, <2>1, CountsAssumption DEF Op, LowerOf
    <2> QED
      BY <1>3, <2>1, <2>2
  <1>6. CASE OnRequest(r) \/ \E p \in prepared : OnPrepare(r, p)
    BY <1>6 DEF OnRequest, OnPrepare, commitVars
  <1>7. CASE SendCommit(r) \/ \E m \in commits : OnCommit(r, m)
    BY <1>7 DEF SendCommit, OnCommit, commitVars
  <1>8. CASE RepairStep(r) \/ WriteStep(r)
    BY <1>8 DEF RepairStep, WriteStep, RepairHeader, OnRepair, WriteDone, commitVars
  <1>9. CASE LeavesView(r) \/ DoViewChangeTimeout(r)
    BY <1>9 DEF LeavesView, ViewChangeTo, DoViewChangeTimeout, commitVars
  <1>10. CASE OnDoViewChange(r) \/ Answers(r)
    BY <1>10 DEF OnDoViewChange, Answers, PrimarySendStartView, commitVars
  <1>11. CASE StartViewAsTheNewPrimary(r) \/ \E m \in start_views : OnStartView(r, m)
    BY <1>11 DEF StartViewAsTheNewPrimary, OnStartView, commitVars
  <1>12. CASE ViewDurableUpdate(r)
    BY <1>12 DEF ViewDurableUpdate, commitVars
  <1>13. CASE Crash(r)
    BY <1>13 DEF Crash, CrashRestart
  <1> QED
    BY <1>4, <1>5, <1>6, <1>7, <1>8, <1>9, <1>10, <1>11, <1>12, <1>13 DEF StepWithoutCrash, CommitStep

-----------------------------------------------------------------------------
(* What is executed is one chain. *)

\* The longest prepare executed so far.
CommittedLog ==
    IF committed = {} THEN Root
    ELSE CHOOSE p \in committed : \A q \in committed : OpOf(q) <= OpOf(p)

\* No op was skipped: of the ops up to an executed prepare, each was executed.
NoOpSkipped == \A q \in committed : \A o \in 1..OpOf(q) : \E s \in committed : OpOf(s) = o

\* The committed log is the longest executed prepare, and every op up to it was executed.
LEMMA CommittedLogFacts ==
    ASSUME TypeInv, CommittedDecided
    PROVE  /\ committed = {} => CommittedLog = Root
           /\ committed # {} => CommittedLog \in committed
           /\ CommittedLog \in Prepare /\ OpOf(CommittedLog) \in Nat
           /\ \A q \in committed : q \in Prepare /\ OpOf(q) \in Nat /\ OpOf(q) > 0
                                   /\ OpOf(q) <= OpOf(CommittedLog)
  <1>1. \A q \in committed : q \in Prepare /\ OpOf(q) \in Nat /\ OpOf(q) > 0 /\ OpOf(q) \in Op
    BY PreparedFacts DEF CommittedDecided
  <1>2. CASE committed = {}
    BY <1>2, OpFacts DEF CommittedLog
  <1>3. CASE committed # {}
    <2> DEFINE L == {OpOf(q) : q \in committed}
    <2>1. L \in SUBSET Int /\ L # {} /\ \A y \in L : y <= OpMax
      BY <1>1, <1>3, CountsAssumption DEF Op
    <2>2. Max(L) \in L /\ \A y \in L : y <= Max(L)
      <3> HIDE DEF L
      <3> QED
        BY <2>1, MaxFacts, CountsAssumption
    <2>3. \E p \in committed : \A q \in committed : OpOf(q) <= OpOf(p)
      BY <2>2
    <2>4. CommittedLog \in committed /\ \A q \in committed : OpOf(q) <= OpOf(CommittedLog)
      BY <1>3, <2>3 DEF CommittedLog
    <2> QED
      BY <1>1, <1>3, <2>4
  <1> QED
    BY <1>2, <1>3

\* After a step: what was executed is of one log.
LEMMA ExecutedAgreeNow ==
    ASSUME QuorumReplication >= 2
    PROVE  (SafeState => \A p, q \in committed : Comparable(p, q))'
  <1>1. SafeState => \A p, q \in committed : Comparable(p, q)
    BY ExecutedAgree
  <1> QED
    BY <1>1, PTL

\* The log p is the log c and one entry more.
LEMMA OneMore ==
    ASSUME NEW c \in Prepare, NEW p \in Prepare, c \preceq p, OpOf(p) = OpOf(c) + 1
    PROVE  \E e \in View : p = Append(c, e)
  <1>1. OpOf(c) \in Nat /\ OpOf(p) \in Nat /\ OpOf(p) \in Op /\ p # Root
    <2>1. OpOf(c) \in Nat /\ OpOf(p) \in Nat /\ OpOf(p) \in Op /\ OpOf(Root) = 0
      BY OpFacts
    <2> QED
      BY <2>1
  <1>2. OpOf(c) < OpMax
    BY <1>1, CountsAssumption DEF Op
  <1>3. PICK e \in View : e = p[OpOf(p)]
    BY <1>1, ViewFacts
  <1>4. /\ Append(c, e) \in Prepare /\ OpOf(Append(c, e)) = OpOf(p) /\ Append(c, e)[OpOf(p)] = e
        /\ \A i \in 1..OpOf(c) : Append(c, e)[i] = c[i]
    <2>1. /\ Append(c, e) \in Prepare /\ OpOf(Append(c, e)) = OpOf(c) + 1
          /\ Append(c, e)[OpOf(c) + 1] = e
          /\ \A i \in 1..OpOf(c) : Append(c, e)[i] = c[i]
      BY <1>2, AppendFacts
    <2>2. OpOf(p) = OpOf(c) + 1
      OBVIOUS
    <2> QED
      BY <2>1, <2>2
  <1>5. \A i \in 1..OpOf(c) : c[i] = p[i]
    BY BeginsFacts
  <1>6. \A i \in 1..OpOf(p) : Append(c, e)[i] = p[i]
    <2> TAKE i \in 1..OpOf(p)
    <2>1. i \in 1..OpOf(c) \/ i = OpOf(p)
      BY <1>1
    <2> QED
      BY <1>3, <1>4, <1>5, <2>1
  <1> QED
    BY <1>4, <1>6, PrepareEqual

\* A prepare is of no older view than any that it follows.
LEMMA ViewsOfChain ==
    ASSUME TypeInv, LogInv, NEW c \in Prepare, NEW p \in prepared, c \preceq p
    PROVE  ViewOf(c) <= ViewOf(p)
  <1>1. p \in Prepare /\ p \in Known /\ ViewOf(p) \in View
    BY PreparedFacts, ViewFacts
  <1>2. p \in Tips(ViewOf(p))
    BY <1>1 DEF Tips, SentTip
  <1>3. Lineage(p, ViewOf(p))
    BY <1>1, <1>2 DEF LogInv, TipViews
  <1> QED
    BY <1>1, <1>3, LineageFacts

\* A replica that executes an op has executed all before it, since its last restart.
LEMMA NextNoOpSkipped ==
    ASSUME SafeState, NoOpSkipped, NEW r \in Replica, StepWithoutCrash(r) \/ Crash(r)
    PROVE  NoOpSkipped'
  <1>1. TypeInv /\ Executed(r) /\ commit_min[r] \in Nat
    BY NumberFacts DEF SafeState, SafeInv
  <1>2. CASE committed' = committed
    BY <1>2 DEF NoOpSkipped
  <1>3. ASSUME NEW p \in Known, OpOf(p) = commit_min[r] + 1, committed' = committed \cup {p},
               NEW q \in committed', NEW o \in 1..OpOf(q)
        PROVE  \E s \in committed' : OpOf(s) = o
    <2>1. CASE q \in committed
      BY <1>3, <2>1 DEF NoOpSkipped
    <2>2. CASE q = p /\ o = OpOf(p)
      BY <1>3, <2>2
    <2>3. CASE q = p /\ o # OpOf(p)
      <3>1. o \in 1..commit_min[r]
        BY <1>1, <1>3, <2>3
      <3> QED
        BY <1>1, <1>3, <3>1 DEF Executed
    <2> QED
      BY <1>3, <2>1, <2>2, <2>3
  <1> QED
    BY <1>2, <1>3, ExecutesNext DEF NoOpSkipped

\* What is executed for the first time is the committed log and one prepare more, of no older view.
LEMMA StepOfLog ==
    ASSUME SafeState, SafeState', NoOpSkipped, QuorumReplication >= 2, NEW r \in Replica,
           StepWithoutCrash(r) \/ Crash(r)
    PROVE  \/ committed' = committed
           \/ \E e \in View : /\ ViewOf(CommittedLog) <= e
                              /\ committed' = committed \cup {Append(CommittedLog, e)}
  <1>1. /\ TypeInv /\ TypeInv' /\ LogInv /\ CommittedDecided /\ CommittedDecided' /\ Executed(r)
    BY DEF SafeState, SafeInv, CommitsDecided
  <1>2. ASSUME NEW p \in Known, OpOf(p) = commit_min[r] + 1, committed' = committed \cup {p},
               p \notin committed
        PROVE  \E e \in View : /\ ViewOf(CommittedLog) <= e
                             /\ committed' = committed \cup {Append(CommittedLog, e)}
    <2>1. PICK c : c = CommittedLog
      OBVIOUS
    <2>2. /\ committed = {} => c = Root
          /\ committed # {} => c \in committed
          /\ c \in Prepare /\ OpOf(c) \in Nat
          /\ \A q \in committed : q \in Prepare /\ OpOf(q) \in Nat /\ OpOf(q) > 0 /\ OpOf(q) <= OpOf(c)
      BY <1>1, <2>1, CommittedLogFacts
    <2>3. p \in Prepare /\ OpOf(p) \in Nat /\ OpOf(p) > 0
      <3>1. commit_min[r] \in Nat
        BY <1>1, NumberFacts
      <3> QED
        BY <1>1, <1>2, <3>1, KnownFacts
    <2>4. \A q, s \in committed' : Comparable(q, s)
      BY ExecutedAgreeNow
    <2>5. OpOf(p) <= OpOf(c) + 1
      <3>1. commit_min[r] \in Nat
        BY <1>1, NumberFacts
      <3>2. CASE commit_min[r] = 0
        BY <1>2, <2>2, <3>2
      <3>3. CASE commit_min[r] > 0
        <4>1. commit_min[r] \in 1..commit_min[r]
          BY <3>1, <3>3
        <4>2. PICK q \in committed : OpOf(q) = commit_min[r]
          BY <1>1, <4>1 DEF Executed
        <4> QED
          BY <1>2, <2>2, <3>1, <4>2
      <3> QED
        BY <3>1, <3>2, <3>3
    <2>6. OpOf(p) > OpOf(c)
      <3> SUFFICES ASSUME OpOf(p) <= OpOf(c) PROVE FALSE
        BY <2>2, <2>3
      <3>1. c \in committed /\ OpOf(p) \in 1..OpOf(c)
        BY <2>2, <2>3, OpFacts
      <3>2. PICK s \in committed : OpOf(s) = OpOf(p)
        BY <3>1 DEF NoOpSkipped
      <3>3. Comparable(s, p) /\ s \in Prepare
        BY <1>2, <2>2, <2>4, <3>2
      <3> QED
        BY <1>2, <2>3, <3>2, <3>3, ComparableFacts
    <2>7. OpOf(p) = OpOf(c) + 1
      BY <2>2, <2>3, <2>5, <2>6
    <2>8. c \preceq p
      <3>1. CASE committed = {}
        <4>1. c = Root /\ Ancestor(p, 0) = Root /\ 0 \in 0..OpOf(p)
          BY <2>2, <2>3, <3>1, AncestorOfAncestor
        <4> QED
          BY <2>3, <4>1, BeginsFacts
      <3>2. CASE committed # {}
        <4>1. Comparable(c, p) /\ OpOf(c) <= OpOf(p)
          BY <1>2, <2>2, <2>3, <2>4, <2>6, <3>2
        <4> QED
          BY <2>2, <2>3, <4>1, ComparableFacts
      <3> QED
        BY <3>1, <3>2
    <2>9. PICK e \in View : p = Append(c, e)
      BY <2>2, <2>3, <2>7, <2>8, OneMore
    <2>10. ViewOf(c) <= ViewOf(p)
      <3>1. p \in prepared
        BY <1>2, <2>3, OpFacts DEF Known
      <3> QED
        BY <1>1, <2>2, <2>8, <3>1, ViewsOfChain
    <2>11. ViewOf(p) = e
      <3>1. p # Root /\ ViewOf(p) = p[OpOf(p)]
        BY <2>3, OpFacts, ViewFacts
      <3>2. OpOf(c) < OpMax
        BY <2>2, <2>3, <2>7, OpFacts, CountsAssumption DEF Op
      <3>3. Append(c, e)[OpOf(c) + 1] = e
        BY <2>2, <3>2, AppendFacts
      <3> QED
        BY <2>7, <2>9, <3>1, <3>3
    <2> QED
      BY <1>2, <2>1, <2>9, <2>10, <2>11
  <1>3. CASE committed' = committed
    BY <1>3
  <1>4. ASSUME NEW p \in Known, OpOf(p) = commit_min[r] + 1, committed' = committed \cup {p}
        PROVE  \/ committed' = committed
               \/ \E e \in View : /\ ViewOf(CommittedLog) <= e
                                  /\ committed' = committed \cup {Append(CommittedLog, e)}
    <2>1. CASE p \in committed
      BY <1>4, <2>1
    <2>2. CASE p \notin committed
      BY <1>2, <1>4, <2>2
    <2> QED
      BY <2>1, <2>2
  <1> QED
    BY <1>3, <1>4, ExecutesNext

\* The last prepare of the abstract chain is the committed log.
LEMMA LastIsCommittedLog == Chain!Last = CommittedLog /\ Chain!LastView = ViewOf(CommittedLog)
  <1>1. Chain!Last = CommittedLog
    BY DEF Chain!Last, CommittedLog, OpOf, Root
  <1> QED
    BY <1>1 DEF Chain!LastView, ViewOf, Root

\* The replicas together implement one chain of prepares that only grows, one op at a time, in views
\* that do not go back: Vsr implements ExecutedChain, in which commit_execute is the only step.
THEOREM VsrImplementsLog == QuorumReplication >= 2 => (Spec => ImplementsLog)
  <1> SUFFICES ASSUME QuorumReplication >= 2 PROVE Spec => ImplementsLog
    OBVIOUS
  <1>1. Init => committed = {} /\ NoOpSkipped
    BY DEF Init, NoOpSkipped
  <1>2. ASSUME TypeInv, IInv, LogInv, SafeInv, TypeInv', IInv', LogInv', SafeInv', NoOpSkipped, [Next]_vars
        PROVE  NoOpSkipped' /\ [\E v \in View : Chain!ExecuteFirst(v)]_committed
    <2>1. CASE Next
      <3>1. PICK r \in Replica : StepWithoutCrash(r) \/ Crash(r)
        BY <1>2, <2>1, StepCases DEF Next
      <3>2. SafeState /\ SafeState'
        BY <1>2 DEF SafeState
      <3>3. NoOpSkipped'
        BY <1>2, <3>1, <3>2, NextNoOpSkipped
      <3>4. \/ committed' = committed
            \/ \E e \in View : /\ ViewOf(CommittedLog) <= e
                               /\ committed' = committed \cup {Append(CommittedLog, e)}
        BY <1>2, <3>1, <3>2, StepOfLog
      <3>5. ASSUME NEW e \in View, ViewOf(CommittedLog) <= e,
                   committed' = committed \cup {Append(CommittedLog, e)}
            PROVE  Chain!ExecuteFirst(e)
        <4>1. CommittedLog \in Seq(View)
          <5>1. CommittedLog \in Prepare
            BY <1>2, CommittedLogFacts DEF SafeInv, CommitsDecided
          <5> QED
            BY <5>1, PrepareIsSeq
        <4>2. Append(CommittedLog, e) = CommittedLog \o <<e>>
          BY <4>1
        <4> QED
          BY <3>5, <4>2, LastIsCommittedLog DEF Chain!ExecuteFirst
      <3> QED
        BY <3>3, <3>4, <3>5
    <2>2. CASE UNCHANGED vars
      BY <1>2, <2>2 DEF vars, commitVars, NoOpSkipped
    <2> QED
      BY <1>2, <2>1, <2>2
  <1> QED
    BY <1>1, <1>2, TypesHold, InductiveInvariant, LogsHold, SafetyHolds, PTL
       DEF Spec, ImplementsLog, Chain!OneChain
=============================================================================
