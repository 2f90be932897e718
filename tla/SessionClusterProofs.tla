------------------------ MODULE SessionClusterProofs ------------------------
(***************************************************************************)
(* Proofs about SessionCluster for every number of replicas and clients,   *)
(* every pair of quorums, every bound: no log has two operations for one   *)
(* request, and what the session table asserts of an operation holds       *)
(* whenever it executes, on whichever replica.                             *)
(*                                                                         *)
(* The argument has two halves.  The logs: what a replication quorum has   *)
(* acknowledged in a view, or still may, is in the log of every replica of *)
(* a later view, so a view change or a transfer never takes away or alters *)
(* what a replica has executed.  The tables: there is a run of each log,   *)
(* the table after each of its operations, and the table of a replica is   *)
(* the one that the run of its log has after commit_min; so what holds of  *)
(* an operation in the run of the primary that prepared it holds of it     *)
(* wherever the log goes.                                                  *)
(***************************************************************************)
EXTENDS SessionCluster, FiniteSetTheorems, SequenceTheorems, WellFoundedInduction, TLAPS

-----------------------------------------------------------------------------
(* The logs: what a quorum acknowledges stays, whoever is deposed. *)

\* Two logs are the same up to n.
SameTo(l, k, n) == n <= Len(l) /\ n <= Len(k) /\ \A o \in 1..n : l[o] = k[o]

\* Replicas that acknowledged operation o in view v, or still may; and those that did.
MayAck(v, o) == {r \in Replica : acks[v][r] >= o \/ view[r] <= v}
Ackers(v, o) == {r \in Replica : acks[v][r] >= o}

\* View v can still commit o; and has a quorum to.
Alive(v, o) == Cardinality(MayAck(v, o)) >= QuorumReplication
Decided(v, o) == Cardinality(Ackers(v, o)) >= QuorumReplication

Op == {p \in [client : Client, request : Nat, kind : {"register", "read", "write"}, view : View] :
            p.kind = "register" <=> p.request = 0}

IsEntry(e) == /\ e = [session |-> e.session, request |-> e.request, op |-> e.op,
                      context |-> e.context, view |-> e.view]
              /\ e.session \in Nat /\ e.request \in Nat /\ e.op \in Nat
IsTable(table) == table = [c \in Client |-> table[c]] /\ \A c \in Client : IsEntry(table[c])

TypeInv ==
    /\ view \in [Replica -> View] /\ log_view \in [Replica -> View] /\ durable \in [Replica -> View]
    /\ status \in [Replica -> {"normal", "view_change"}]
    /\ log \in [Replica -> Seq(Op)] /\ \A r \in Replica : Len(log[r]) <= OpMax
    /\ commit_min \in [Replica -> Nat] /\ commit_max \in [Replica -> Nat]
    /\ acks \in [View -> [Replica -> Nat]]
    /\ sessions = [r \in Replica |-> sessions[r]]

\* A view begins at its primary, by a quorum that leaves the views before it; and nobody
\* acknowledges more than it has, or more than the primary has.
ViewsInv ==
    /\ \A r \in Replica : /\ durable[r] <= log_view[r] /\ log_view[r] <= view[r]
                          /\ Normal(r) => log_view[r] = view[r]
                          /\ log_view[r] <= log_view[Primary(log_view[r])]
    /\ \A v \in View : \A r \in Replica :
        /\ acks[v][r] > 0 => v <= log_view[r] /\ v <= log_view[Primary(v)]
        /\ log_view[r] = v => acks[v][r] <= Len(log[r])
        /\ log_view[Primary(v)] = v => acks[v][r] <= Len(log[Primary(v)])
        /\ v < log_view[r] => Cardinality({q \in Replica : v < view[q]}) >= QuorumViewChange

\* The logs of one view are beginnings of each other, the primary's the longest.
OneLogPerView == \A r, s \in Replica : log_view[r] = log_view[s] =>
    /\ Len(log[r]) <= Len(log[s]) => SameTo(log[r], log[s], Len(log[r]))
    /\ s = Primary(log_view[r]) => Len(log[r]) <= Len(log[s])

\* What somebody acknowledged in a view, and the view can still commit, is in the log of everybody
\* who did and in every log of a later view.
Keeps(v, o, s) == acks[v][s] >= o \/ v < log_view[s] \/ (v = log_view[s] /\ o <= Len(log[s]))
SafeLogs == \A v \in View : \A r, s \in Replica : \A o \in 1..acks[v][r] :
    Alive(v, o) /\ Keeps(v, o, s) => SameTo(log[r], log[s], o)

\* What is known to be committed is, and is in the log.
CommitInv == \A r \in Replica :
    /\ commit_min[r] <= commit_max[r] /\ commit_max[r] <= Len(log[r])
    /\ commit_max[r] > 0 => \E v \in View : v <= log_view[r] /\ Decided(v, commit_max[r])

LogInv == TypeInv /\ ViewsInv /\ OneLogPerView /\ SafeLogs /\ CommitInv

-----------------------------------------------------------------------------
(* The tables: each is what the log leaves in it. *)

\* The entry of a client is of its last operation in l[1..n], has its session, and the largest
\* number of its requests since.
TableGood(table, l, n) == \A c \in Client : Known(table, c) =>
    /\ table[c].session \in 1..n
    /\ table[c].op \in table[c].session..n
    /\ \A o \in table[c].session..n : l[o].client = c => l[o].request <= table[c].request

\* There are never more sessions than clients_max.
Bounded(table) == Cardinality(Sessions(table)) <= ClientsMax

\* t is the run of the log l: the table after each operation, none of which it objects to; a client
\* without operations since has the entry it had, or none.
Run(l, t) ==
    /\ t[0] = EmptyTable
    /\ \A i \in 1..Len(l) :
            t[i] = TableExecute(t[i - 1], l[i], i) /\ TableAsserts(t[i - 1], l[i], i)
    /\ \A i \in 0..Len(l) : IsTable(t[i]) /\ Bounded(t[i]) /\ TableGood(t[i], l, i)
    /\ \A j \in 0..Len(l) : \A i \in 0..j : \A c \in Client :
            (\A o \in i + 1..j : l[o].client # c) => t[j][c] \in {t[i][c], Absent}

\* The table of a replica is that of the run of its log, after what it executed.
RunInv == \A r \in Replica : \E t : Run(log[r], t) /\ t[commit_min[r]] = sessions[r]

-----------------------------------------------------------------------------
(* The clients: a session before any request that is not a register. *)

IsClient(e) == /\ e = [request_number |-> e.request_number, inflight |-> e.inflight,
                       session |-> e.session, parent |-> e.parent, view |-> e.view,
                       evicted |-> e.evicted]
               /\ e.request_number \in Nat

RequestsInv ==
    /\ client = [c \in Client |-> client[c]] /\ \A c \in Client : IsClient(client[c])
    /\ \A m \in requests :
        /\ m.client \in Client /\ m.request \in Nat /\ m.kind \in {"register", "read", "write"}
        /\ m.kind = "register" <=> m.request = 0
        /\ m.kind # "register" => /\ client[m.client].request_number > 1
                                  /\ m.session = client[m.client].session
    /\ \A r \in Replica : \A o \in DOMAIN log[r] : log[r][o].kind # "register" =>
        /\ client[log[r][o].client].request_number > 1
        /\ client[log[r][o].client].session < o

IInv == LogInv /\ RunInv /\ RequestsInv /\ PreparedOnce

-----------------------------------------------------------------------------
(* Numbers of replicas. *)

\* There are finitely many replicas, ReplicaCount of them.
LEMMA ReplicaFinite == IsFiniteSet(Replica) /\ Cardinality(Replica) = ReplicaCount
  <1>1. 0 \in Int /\ ReplicaCount - 1 \in Int /\ ReplicaCount \in Nat \ {0}
    BY ClusterAssumption
  <1>2. IsFiniteSet(0..(ReplicaCount - 1))
        /\ Cardinality(0..(ReplicaCount - 1))
             = IF 0 > ReplicaCount - 1 THEN 0 ELSE (ReplicaCount - 1) - 0 + 1
    BY <1>1, FS_Interval
  <1> QED
    BY <1>1, <1>2 DEF Replica

\* A set of replicas has a size, at most that of a set it is part of.
LEMMA SizeGrows ==
    ASSUME NEW B \in SUBSET Replica, NEW A \in SUBSET B
    PROVE  /\ Cardinality(A) \in Nat /\ Cardinality(B) \in Nat
           /\ Cardinality(A) <= Cardinality(B)
  <1>1. IsFiniteSet(B)
    BY ReplicaFinite, FS_Subset
  <1> QED
    BY <1>1, FS_Subset, FS_CardinalityType

\* Two sets that have more replicas together than there are have one in common.
LEMMA SetsMeet ==
    ASSUME NEW A \in SUBSET Replica, NEW B \in SUBSET Replica,
           Cardinality(A) + Cardinality(B) > ReplicaCount
    PROVE  A \cap B # {}
  <1>1. /\ IsFiniteSet(A) /\ IsFiniteSet(B) /\ IsFiniteSet(A \cup B) /\ IsFiniteSet(A \cap B)
        /\ Cardinality(A \cup B) <= ReplicaCount
    BY ReplicaFinite, FS_Subset, FS_Union, FS_Intersection
  <1>2. Cardinality(A \cup B) = Cardinality(A) + Cardinality(B) - Cardinality(A \cap B)
    BY <1>1, FS_Union
  <1>3. /\ Cardinality(A) \in Nat /\ Cardinality(B) \in Nat /\ Cardinality(A \cap B) \in Nat
        /\ Cardinality(A \cup B) \in Nat /\ ReplicaCount \in Nat
    BY <1>1, FS_CardinalityType, ClusterAssumption
  <1>4. Cardinality(A \cap B) # 0
    BY <1>2, <1>1, <1>3
  <1> QED
    BY <1>4, FS_EmptySet

\* A replication quorum has a replica in every quorum of a view change.
LEMMA QuorumsMeet ==
    ASSUME NEW A \in SUBSET Replica, NEW B \in SUBSET Replica,
           Cardinality(A) >= QuorumReplication, Cardinality(B) >= QuorumViewChange
    PROVE  A \cap B # {}
  <1>1. Cardinality(A) \in Nat /\ Cardinality(B) \in Nat
    BY SizeGrows
  <1>2. Cardinality(A) + Cardinality(B) > ReplicaCount
    BY <1>1, ClusterAssumption
  <1> QED
    BY <1>2, SetsMeet

\* And one in every set of nacks that truncates.
LEMMA NackQuorumMeets ==
    ASSUME NEW A \in SUBSET Replica, NEW B \in SUBSET Replica,
           Cardinality(A) >= QuorumReplication, Cardinality(B) >= QuorumNack
    PROVE  A \cap B # {}
  <1>1. Cardinality(A) \in Nat /\ Cardinality(B) \in Nat
    BY SizeGrows
  <1>2. Cardinality(A) + Cardinality(B) > ReplicaCount
    BY <1>1, ClusterAssumption DEF QuorumNack
  <1> QED
    BY <1>2, SetsMeet

\* Views are numbers, and the primary of each is a replica.
LEMMA PrimaryIsReplica == \A v \in View : v \in Nat /\ Primary(v) \in Replica
  BY ClusterAssumption DEF Primary, Replica, View

\* A set of naturals has a least element.
LEMMA LeastNatural ==
    ASSUME NEW S \in SUBSET Nat, S # {}
    PROVE  \E x \in S : \A y \in S : x <= y
  <1>1. PICK x \in S : \A y \in S : ~(<<y, x>> \in OpToRel(<, Nat))
    BY NatLessThanWellFounded, WFMin
  <1>2. \A y \in Nat, z \in Nat : <<y, z>> \in OpToRel(<, Nat) <=> y < z
    BY DEF OpToRel
  <1>3. ASSUME NEW y \in S PROVE x <= y
    <2>1. x \in Nat /\ y \in Nat /\ ~(y < x)
      BY <1>1, <1>2
    <2> QED
      BY <2>1
  <1> QED
    BY <1>3

\* Min is the least member of a set of numbers.
LEMMA MinIsLeast == ASSUME NEW S \in SUBSET Nat, S # {} PROVE Min(S) \in S /\ \A y \in S : Min(S) <= y
  BY LeastNatural DEF Min

\* A set of numbers with a bound has a greatest element.
LEMMA GreatestNatural ==
    ASSUME NEW S \in SUBSET Nat, S # {}, NEW b \in Nat, \A y \in S : y <= b
    PROVE  \E x \in S : \A y \in S : y <= x
  <1> DEFINE T == {n \in Nat : b - n \in S}
  <1>1. T # {}
    <2>1. PICK y \in S : TRUE
      OBVIOUS
    <2>2. y \in Nat /\ y <= b
      BY <2>1
    <2>3. b - y \in Nat /\ b - (b - y) = y
      BY <2>2
    <2> QED
      BY <2>1, <2>3
  <1>2. PICK n \in T : \A k \in T : n <= k
    BY <1>1, LeastNatural
  <1>3. \A y \in S : y <= b - n
    <2> TAKE y \in S
    <2>1. y \in Nat /\ y <= b /\ n \in Nat
      OBVIOUS
    <2>2. b - y \in Nat /\ b - (b - y) = y
      BY <2>1
    <2>3. b - y \in T
      BY <2>2
    <2>4. n <= b - y
      BY <1>2, <2>3
    <2> QED
      BY <2>1, <2>4
  <1>4. b - n \in S
    OBVIOUS
  <1> QED
    BY <1>3, <1>4

\* Max is the greatest member of a set of numbers that has a bound.
LEMMA MaxIsGreatest ==
    ASSUME NEW S \in SUBSET Nat, S # {}, NEW b \in Nat, \A y \in S : y <= b
    PROVE  Max(S) \in S /\ \A y \in S : y <= Max(S)
  <1>1. PICK x \in S : \A y \in S : y <= x
    BY GreatestNatural
  <1>2. \A y \in S : x >= y
    BY <1>1
  <1>3. Max(S) \in S /\ \A y \in S : Max(S) >= y
    BY <1>2 DEF Max
  <1> QED
    BY <1>3

\* The larger of two.
LEMMA MaxOfTwo == ASSUME NEW a \in Nat, NEW b \in Nat PROVE Max({a, b}) = IF a <= b THEN b ELSE a
  <1>1. CASE a <= b
    <2>1. \A y \in {a, b} : y <= b
      BY <1>1
    <2>2. Max({a, b}) \in {a, b} /\ b <= Max({a, b})
      BY <2>1, MaxIsGreatest
    <2> QED
      BY <1>1, <2>2
  <1>2. CASE ~(a <= b)
    <2>1. \A y \in {a, b} : y <= a
      BY <1>2
    <2>2. Max({a, b}) \in {a, b} /\ a <= Max({a, b})
      BY <2>1, MaxIsGreatest
    <2> QED
      BY <1>2, <2>2
  <1> QED
    BY <1>1, <1>2

-----------------------------------------------------------------------------
(* A step that gives replica x a log. *)

\* Nobody else's log changes, views only grow, and x may acknowledge what it has.
StepOf(x) ==
    /\ \A r \in Replica \ {x} : log'[r] = log[r] /\ log_view'[r] = log_view[r]
    /\ \A r \in Replica : view[r] <= view'[r] /\ log_view[r] <= log_view'[r]
    /\ \A v \in View, r \in Replica :
        /\ acks[v][r] <= acks'[v][r]
        /\ acks'[v][r] # acks[v][r] => /\ r = x /\ v = log_view'[x] /\ v = view'[x]
                                       /\ acks'[v][r] = Len(log'[x])

\* The new log has what was acknowledged in the views up to its own.
Fits(x) ==
    \A v \in View, q \in Replica : \A o \in 1..acks[v][q] :
        /\ Alive(v, o)'
        /\ v < log_view'[x] \/ (v = log_view'[x] /\ o <= Len(log'[x]))
        => SameTo(log[q], log'[x], o)

\* The same, of a log that is not shorter than what anybody acknowledged in its view.
FitsAll(x) ==
    \A v \in View, q \in Replica : \A o \in 1..acks[v][q] :
        Alive(v, o)' /\ v <= log_view'[x] => SameTo(log[q], log'[x], o)

\* Who may acknowledge an operation only becomes fewer, and who did more.
LEMMA MayAckShrinks ==
    ASSUME ViewsInv, TypeInv, TypeInv', NEW x \in Replica, StepOf(x), NEW v \in View, NEW o \in Nat
    PROVE  /\ Alive(v, o)' => Alive(v, o)
           /\ Decided(v, o) => Decided(v, o)' /\ Alive(v, o)'
  <1>1. \A r \in Replica : /\ acks[v][r] \in Nat /\ acks'[v][r] \in Nat /\ view[r] \in Nat
                           /\ view'[r] \in Nat /\ v \in Nat
    BY PrimaryIsReplica DEF TypeInv
  <1>2. MayAck(v, o)' \subseteq MayAck(v, o)
    <2> SUFFICES ASSUME NEW r \in Replica, acks'[v][r] >= o \/ view'[r] <= v
                 PROVE  acks[v][r] >= o \/ view[r] <= v
      BY DEF MayAck
    <2>1. view[r] <= view'[r]
      BY DEF StepOf
    <2>2. CASE view'[r] <= v
      BY <1>1, <2>1, <2>2
    <2>3. CASE acks'[v][r] = acks[v][r]
      BY <1>1, <2>1, <2>3
    <2>4. CASE acks'[v][r] # acks[v][r]
      <3>1. v = view'[r]
        BY <2>4 DEF StepOf
      <3> QED
        BY <1>1, <2>1, <3>1
    <2> QED
      BY <2>2, <2>3, <2>4
  <1>3. Ackers(v, o) \subseteq Ackers(v, o)'
    <2>1. \A r \in Replica : acks[v][r] <= acks'[v][r]
      BY DEF StepOf
    <2> QED
      BY <1>1, <2>1 DEF Ackers
  <1>4. Ackers(v, o)' \subseteq MayAck(v, o)'
    BY DEF Ackers, MayAck
  <1>5. MayAck(v, o) \in SUBSET Replica /\ MayAck(v, o)' \in SUBSET Replica
        /\ Ackers(v, o)' \in SUBSET Replica
    BY DEF Ackers, MayAck
  <1>6. /\ Cardinality(MayAck(v, o)') \in Nat /\ Cardinality(MayAck(v, o)) \in Nat
        /\ Cardinality(MayAck(v, o)') <= Cardinality(MayAck(v, o))
    BY <1>2, <1>5, SizeGrows
  <1>7. /\ Cardinality(Ackers(v, o)) \in Nat /\ Cardinality(Ackers(v, o)') \in Nat
        /\ Cardinality(Ackers(v, o)) <= Cardinality(Ackers(v, o)')
        /\ Cardinality(Ackers(v, o)') <= Cardinality(MayAck(v, o)')
    BY <1>3, <1>4, <1>5, SizeGrows
  <1>8. QuorumReplication \in Nat
    BY ClusterAssumption
  <1> QED
    BY <1>6, <1>7, <1>8 DEF Alive, Decided

\* A view that a later log has left, and in which nobody has acknowledged an operation, is not
\* going to commit it.
LEMMA LeftUnacknowledged ==
    ASSUME TypeInv, ViewsInv, NEW v \in View, NEW o \in Nat, NEW s \in Replica,
           v < log_view[s], \A q \in Replica : ~(acks[v][q] >= o)
    PROVE  ~Alive(v, o)
  <1> SUFFICES ASSUME Alive(v, o) PROVE FALSE
    OBVIOUS
  <1> DEFINE left == {q \in Replica : v < view[q]}
  <1>1. Cardinality(left) >= QuorumViewChange /\ left \in SUBSET Replica
    BY DEF ViewsInv
  <1>2. MayAck(v, o) \in SUBSET Replica /\ Cardinality(MayAck(v, o)) >= QuorumReplication
    BY DEF MayAck, Alive
  <1>3. PICK q \in MayAck(v, o) : q \in left
    <2> HIDE DEF left
    <2> QED
      BY <1>1, <1>2, QuorumsMeet
  <1>4. q \in Replica /\ view[q] <= v /\ v < view[q]
    BY <1>3 DEF MayAck
  <1>5. view[q] \in Nat /\ v \in Nat
    BY <1>4, PrimaryIsReplica DEF TypeInv
  <1> QED
    BY <1>4, <1>5

\* Who acknowledged an operation has it.
LEMMA AckersHave ==
    ASSUME TypeInv, SafeLogs, NEW v \in View, NEW q \in Replica, NEW o \in 1..acks[v][q], Alive(v, o)
    PROVE  SameTo(log[q], log[q], o)
  <1>1. acks[v][q] \in Nat
    BY DEF TypeInv
  <1> QED
    BY <1>1 DEF SafeLogs, Keeps

\* A step that gives x a log that fits keeps the logs safe.
LEMMA Install ==
    ASSUME TypeInv, ViewsInv, SafeLogs, TypeInv', ViewsInv', OneLogPerView',
           NEW x \in Replica, StepOf(x), Fits(x)
    PROVE  SafeLogs'
  <1> SUFFICES ASSUME NEW v \in View, NEW r \in Replica, NEW s \in Replica, NEW o \in 1..acks'[v][r],
                      Alive(v, o)', Keeps(v, o, s)'
               PROVE  SameTo(log'[r], log'[s], o)
    BY DEF SafeLogs
  <1> DEFINE u == log_view'[x]
  <1>1. /\ \A w \in View, q \in Replica : acks[w][q] \in Nat /\ acks'[w][q] \in Nat
        /\ \A q \in Replica : /\ view[q] \in Nat /\ log_view[q] \in Nat /\ log_view'[q] \in Nat
                              /\ Len(log[q]) \in Nat /\ Len(log'[q]) \in Nat
        /\ v \in Nat /\ o \in Nat \ {0}
    <2>1. \A w \in View, q \in Replica : acks[w][q] \in Nat /\ acks'[w][q] \in Nat
      BY DEF TypeInv
    <2>2. \A q \in Replica : /\ view[q] \in Nat /\ log_view[q] \in Nat /\ log_view'[q] \in Nat
                             /\ log[q] \in Seq(Op) /\ log'[q] \in Seq(Op)
      BY PrimaryIsReplica DEF TypeInv
    <2>3. v \in Nat /\ o \in Nat \ {0}
      BY <2>1, PrimaryIsReplica
    <2> QED
      BY <2>1, <2>2, <2>3, LenProperties
  <1>2. Alive(v, o)
    BY <1>1, MayAckShrinks
  <1>3. ASSUME NEW q \in Replica, NEW z \in Replica, acks[v][q] >= o, Keeps(v, o, z)'
        PROVE  SameTo(log[q], log'[z], o)
    <2>1. o \in 1..acks[v][q]
      BY <1>1, <1>3
    <2>2. CASE z # x
      <3>1. log'[z] = log[z] /\ log_view'[z] = log_view[z] /\ acks'[v][z] = acks[v][z]
        BY <2>2 DEF StepOf
      <3>2. Keeps(v, o, z)
        BY <1>3, <3>1 DEF Keeps
      <3> QED
        BY <1>2, <2>1, <3>1, <3>2 DEF SafeLogs
    <2>3. CASE z = x
      <3>1. v < u \/ (v = u /\ o <= Len(log'[x]))
        <4>1. CASE acks'[v][x] >= o
          <5>1. acks'[v][x] > 0
            BY <1>1, <4>1
          <5>2. v <= u /\ (v = u => acks'[v][x] <= Len(log'[x]))
            BY <5>1 DEF ViewsInv
          <5> QED
            BY <1>1, <4>1, <5>2
        <4>2. CASE ~(acks'[v][x] >= o)
          BY <1>3, <2>3, <4>2 DEF Keeps
        <4> QED
          BY <4>1, <4>2
      <3> QED
        BY <2>1, <2>3, <3>1 DEF Fits
    <2> QED
      BY <2>2, <2>3
  <1>4. CASE \E q \in Replica : acks[v][q] >= o
    <2>1. PICK q \in Replica : acks[v][q] >= o
      BY <1>4
    <2>2. Keeps(v, o, r)'
      BY <1>1 DEF Keeps
    <2>3. SameTo(log[q], log'[r], o) /\ SameTo(log[q], log'[s], o)
      BY <1>3, <2>1, <2>2
    <2> QED
      BY <2>3 DEF SameTo
  <1>5. CASE ~\E q \in Replica : acks[v][q] >= o
    <2>1. acks'[v][r] # acks[v][r]
      BY <1>1, <1>5
    <2>2. r = x /\ v = u /\ acks'[v][r] = Len(log'[x])
      BY <2>1 DEF StepOf
    <2>3. CASE s = x
      BY <1>1, <2>2, <2>3 DEF SameTo
    <2>4. CASE s # x
      <3>1. log'[s] = log[s] /\ log_view'[s] = log_view[s] /\ acks'[v][s] = acks[v][s]
        BY <2>4 DEF StepOf
      <3>2. ~(acks'[v][s] >= o)
        BY <1>5, <3>1
      <3>3. CASE v < log_view'[s]
        BY <1>1, <1>2, <1>5, <3>1, <3>3, LeftUnacknowledged
      <3>4. CASE v = log_view'[s] /\ o <= Len(log'[s])
        <4>1. log_view'[s] = log_view'[x] /\ log_view'[x] = log_view'[s]
          BY <2>2, <3>4
        <4>2. /\ Len(log'[x]) <= Len(log'[s]) => SameTo(log'[x], log'[s], Len(log'[x]))
              /\ Len(log'[s]) <= Len(log'[x]) => SameTo(log'[s], log'[x], Len(log'[s]))
          BY <4>1 DEF OneLogPerView
        <4>3. o <= Len(log'[x]) /\ o <= Len(log'[s])
          BY <1>1, <2>2, <3>4
        <4> QED
          BY <1>1, <2>2, <4>2, <4>3 DEF SameTo
      <3> QED
        BY <3>2, <3>3, <3>4 DEF Keeps
    <2> QED
      BY <2>3, <2>4
  <1> QED
    BY <1>4, <1>5

\* What is committed has been acknowledged by somebody, and can still commit.
LEMMA DecidedByOne ==
    ASSUME TypeInv, NEW v \in View, NEW o \in Nat, Decided(v, o)
    PROVE  \E q \in Replica : acks[v][q] >= o
  <1>1. QuorumReplication \in Nat \ {0} /\ Ackers(v, o) \in SUBSET Replica
    BY ClusterAssumption DEF Ackers
  <1>2. Ackers(v, o) # {}
    <2> SUFFICES ASSUME Ackers(v, o) = {} PROVE FALSE
      OBVIOUS
    <2>1. Cardinality(Ackers(v, o)) = 0
      BY FS_EmptySet
    <2> QED
      BY <1>1, <2>1 DEF Decided
  <1> QED
    BY <1>2 DEF Ackers

\* A log that fits has what is committed, as the log of anyone who knows has it.
LEMMA CommittedFits ==
    ASSUME TypeInv, TypeInv', ViewsInv, SafeLogs, CommitInv,
           NEW x \in Replica, StepOf(x), FitsAll(x),
           NEW r \in Replica, log_view[r] <= log_view'[x]
    PROVE  SameTo(log[r], log'[x], commit_max[r])
  <1>0. PICK o \in Nat : o = commit_max[r]
    BY DEF TypeInv
  <1>1. o \in Nat /\ o <= Len(log[r]) /\ Len(log[r]) \in Nat /\ Len(log'[x]) \in Nat
    <2>1. log[r] \in Seq(Op) /\ log'[x] \in Seq(Op)
      BY DEF TypeInv
    <2> QED
      BY <1>0, <2>1, LenProperties DEF TypeInv, CommitInv
  <1>2. CASE o = 0
    BY <1>0, <1>1, <1>2 DEF SameTo
  <1>3. CASE o # 0
    <2>0. o > 0
      BY <1>1, <1>3
    <2>1. PICK v \in View : v <= log_view[r] /\ Decided(v, o)
      BY <1>0, <2>0 DEF CommitInv
    <2>2. Alive(v, o)' /\ Alive(v, o)
      BY <1>1, <2>1, MayAckShrinks
    <2>3. PICK q \in Replica : acks[v][q] >= o
      BY <1>1, <2>1, DecidedByOne
    <2>4. /\ v \in Nat /\ log_view[r] \in Nat /\ log_view'[x] \in Nat /\ acks[v][q] \in Nat
      BY PrimaryIsReplica DEF TypeInv
    <2>5. o \in 1..acks[v][q] /\ v <= log_view'[x]
      BY <1>1, <2>0, <2>1, <2>3, <2>4
    <2>6. SameTo(log[q], log'[x], o)
      BY <2>2, <2>5 DEF FitsAll
    <2>7. Keeps(v, o, r)
      BY <1>1, <2>1, <2>4 DEF Keeps
    <2>8. SameTo(log[q], log[r], o)
      BY <2>2, <2>5, <2>7 DEF SafeLogs
    <2> QED
      BY <1>0, <2>6, <2>8 DEF SameTo
  <1> QED
    BY <1>2, <1>3

-----------------------------------------------------------------------------
(* What such a step has to show, of x alone. *)

\* The new log begins like the others of its view, and is not shorter than what x acknowledged in it,
\* or anybody if x is the primary; the view has begun; and a quorum has left those before it.
Settles(x) ==
    /\ \A r \in Replica : /\ durable'[r] <= log_view'[r] /\ log_view'[r] <= view'[r]
                          /\ status'[r] = "normal" => log_view'[r] = view'[r]
    /\ log_view'[x] <= log_view'[Primary(log_view'[x])]
    /\ acks[log_view'[x]][x] <= Len(log'[x])
    /\ x = Primary(log_view'[x]) => \A r \in Replica : acks[log_view'[x]][r] <= Len(log'[x])
    /\ \A v \in View : v < log_view'[x] =>
            Cardinality({q \in Replica : v < view'[q]}) >= QuorumViewChange
    /\ \A s \in Replica \ {x} : log_view[s] = log_view'[x] =>
        /\ Len(log'[x]) <= Len(log[s]) => SameTo(log'[x], log[s], Len(log'[x]))
        /\ Len(log[s]) <= Len(log'[x]) => SameTo(log[s], log'[x], Len(log[s]))
        /\ s = Primary(log_view'[x]) => Len(log'[x]) <= Len(log[s])
        /\ x = Primary(log_view'[x]) => Len(log[s]) <= Len(log'[x])

\* A step of x that settles in its view leaves one log per view.
LEMMA OneLogKept ==
    ASSUME TypeInv, TypeInv', OneLogPerView, NEW x \in Replica, StepOf(x), Settles(x)
    PROVE  OneLogPerView'
  <1> SUFFICES ASSUME NEW r \in Replica, NEW s \in Replica, log_view'[r] = log_view'[s]
               PROVE  /\ Len(log'[r]) <= Len(log'[s]) => SameTo(log'[r], log'[s], Len(log'[r]))
                      /\ s = Primary(log_view'[r]) => Len(log'[r]) <= Len(log'[s])
    BY DEF OneLogPerView
  <1>1. Len(log'[r]) \in Nat /\ Len(log'[s]) \in Nat
    <2>1. log'[r] \in Seq(Op) /\ log'[s] \in Seq(Op)
      BY DEF TypeInv
    <2> QED
      BY <2>1, LenProperties
  <1>2. CASE r = s
    BY <1>1, <1>2 DEF SameTo
  <1>3. CASE r # x /\ s # x
    <2>1. /\ log'[r] = log[r] /\ log_view'[r] = log_view[r]
          /\ log'[s] = log[s] /\ log_view'[s] = log_view[s]
      BY <1>3 DEF StepOf
    <2> QED
      BY <2>1 DEF OneLogPerView
  <1>4. CASE r = x /\ s # x
    <2>1. log'[s] = log[s] /\ log_view'[s] = log_view[s]
      BY <1>4 DEF StepOf
    <2>2. log_view[s] = log_view'[x] /\ s \in Replica \ {x}
      BY <1>4, <2>1
    <2>3. /\ Len(log'[x]) <= Len(log[s]) => SameTo(log'[x], log[s], Len(log'[x]))
          /\ s = Primary(log_view'[x]) => Len(log'[x]) <= Len(log[s])
      BY <2>2 DEF Settles
    <2> QED
      BY <1>4, <2>1, <2>3
  <1>5. CASE r # x /\ s = x
    <2>1. log'[r] = log[r] /\ log_view'[r] = log_view[r]
      BY <1>5 DEF StepOf
    <2>2. log_view[r] = log_view'[x] /\ r \in Replica \ {x}
      BY <1>5, <2>1
    <2>3. /\ Len(log[r]) <= Len(log'[x]) => SameTo(log[r], log'[x], Len(log[r]))
          /\ x = Primary(log_view'[x]) => Len(log[r]) <= Len(log'[x])
      BY <2>2 DEF Settles
    <2> QED
      BY <1>5, <2>1, <2>3
  <1> QED
    BY <1>2, <1>3, <1>4, <1>5

\* A step of x that settles in its view keeps views and acknowledgements in order.
LEMMA ViewsKept ==
    ASSUME TypeInv, TypeInv', ViewsInv, OneLogPerView', NEW x \in Replica, StepOf(x), Settles(x)
    PROVE  ViewsInv'
  <1> DEFINE u == log_view'[x]
  <1>1. /\ \A w \in View, q \in Replica : acks[w][q] \in Nat /\ acks'[w][q] \in Nat
        /\ \A q \in Replica : /\ view[q] \in Nat /\ view'[q] \in Nat
                              /\ log_view[q] \in View /\ log_view'[q] \in View
                              /\ log_view[q] \in Nat /\ log_view'[q] \in Nat
                              /\ Len(log[q]) \in Nat /\ Len(log'[q]) \in Nat
        /\ \A v \in View : v \in Nat /\ Primary(v) \in Replica
    <2>1. \A w \in View, q \in Replica : acks[w][q] \in Nat /\ acks'[w][q] \in Nat
      BY DEF TypeInv
    <2>2. \A q \in Replica : /\ view[q] \in Nat /\ view'[q] \in Nat
                             /\ log_view[q] \in View /\ log_view'[q] \in View
                             /\ log_view[q] \in Nat /\ log_view'[q] \in Nat
                             /\ log[q] \in Seq(Op) /\ log'[q] \in Seq(Op)
      BY PrimaryIsReplica DEF TypeInv
    <2> QED
      BY <2>1, <2>2, PrimaryIsReplica, LenProperties
  <1>2. \A q \in Replica : log_view[q] <= log_view'[q] /\ view[q] <= view'[q]
    BY DEF StepOf
  <1>3. ASSUME NEW r \in Replica PROVE log_view'[r] <= log_view'[Primary(log_view'[r])]
    <2>1. CASE r = x
      BY <2>1 DEF Settles
    <2>2. CASE r # x
      <3>1. log_view'[r] = log_view[r]
        BY <2>2 DEF StepOf
      <3>2. log_view[r] <= log_view[Primary(log_view[r])]
        BY DEF ViewsInv
      <3>3. Primary(log_view[r]) \in Replica
        BY <1>1
      <3>4. log_view[Primary(log_view[r])] <= log_view'[Primary(log_view[r])]
        BY <1>2, <3>3
      <3> QED
        BY <1>1, <3>1, <3>2, <3>3, <3>4
    <2> QED
      BY <2>1, <2>2
  <1>4. ASSUME NEW v \in View, NEW r \in Replica, acks'[v][r] > 0
        PROVE  v <= log_view'[r] /\ v <= log_view'[Primary(v)]
    <2>1. CASE acks'[v][r] = acks[v][r]
      <3>1. v <= log_view[r] /\ v <= log_view[Primary(v)]
        BY <1>4, <2>1 DEF ViewsInv
      <3> QED
        BY <1>1, <1>2, <3>1
    <2>2. CASE acks'[v][r] # acks[v][r]
      <3>1. r = x /\ v = log_view'[x]
        BY <2>2 DEF StepOf
      <3> QED
        BY <1>1, <1>3, <3>1
    <2> QED
      BY <2>1, <2>2
  <1>5. ASSUME NEW v \in View, NEW r \in Replica, log_view'[r] = v
        PROVE  acks'[v][r] <= Len(log'[r])
    <2>1. CASE acks'[v][r] # acks[v][r]
      <3>1. r = x /\ acks'[v][r] = Len(log'[x])
        BY <2>1 DEF StepOf
      <3> QED
        BY <1>1, <3>1
    <2>2. CASE acks'[v][r] = acks[v][r]
      <3>1. CASE r = x
        BY <1>5, <2>2, <3>1 DEF Settles
      <3>2. CASE r # x
        <4>1. log'[r] = log[r] /\ log_view'[r] = log_view[r]
          BY <3>2 DEF StepOf
        <4> QED
          BY <1>5, <2>2, <4>1 DEF ViewsInv
      <3> QED
        BY <3>1, <3>2
    <2> QED
      BY <2>1, <2>2
  <1>6. ASSUME NEW v \in View, NEW r \in Replica, log_view'[Primary(v)] = v
        PROVE  acks'[v][r] <= Len(log'[Primary(v)])
    <2>0. Primary(v) \in Replica
      BY <1>1
    <2>1. CASE acks'[v][r] # acks[v][r]
      <3>1. r = x /\ v = log_view'[x] /\ acks'[v][r] = Len(log'[x])
        BY <2>1 DEF StepOf
      <3>2. log_view'[x] = log_view'[Primary(v)] /\ Primary(v) = Primary(log_view'[x])
        BY <1>6, <3>1
      <3>3. Len(log'[x]) <= Len(log'[Primary(v)])
        BY <2>0, <3>2 DEF OneLogPerView
      <3> QED
        BY <3>1, <3>3
    <2>2. CASE acks'[v][r] = acks[v][r] /\ Primary(v) = x
      BY <1>6, <2>2 DEF Settles
    <2>3. CASE acks'[v][r] = acks[v][r] /\ Primary(v) # x
      <3>1. log'[Primary(v)] = log[Primary(v)] /\ log_view'[Primary(v)] = log_view[Primary(v)]
        BY <2>0, <2>3 DEF StepOf
      <3> QED
        BY <1>6, <2>3, <3>1 DEF ViewsInv
    <2> QED
      BY <2>1, <2>2, <2>3
  <1>7. ASSUME NEW v \in View, NEW r \in Replica, v < log_view'[r]
        PROVE  Cardinality({q \in Replica : v < view'[q]}) >= QuorumViewChange
    <2>1. CASE r = x
      BY <1>7, <2>1 DEF Settles
    <2>2. CASE r # x
      <3>1. log_view'[r] = log_view[r]
        BY <2>2 DEF StepOf
      <3>2. Cardinality({q \in Replica : v < view[q]}) >= QuorumViewChange
        BY <1>7, <3>1 DEF ViewsInv
      <3>3. {q \in Replica : v < view[q]} \subseteq {q \in Replica : v < view'[q]}
        BY <1>1, <1>2
      <3>4. {q \in Replica : v < view'[q]} \in SUBSET Replica
        OBVIOUS
      <3>5. /\ Cardinality({q \in Replica : v < view[q]}) \in Nat
            /\ Cardinality({q \in Replica : v < view'[q]}) \in Nat
            /\ Cardinality({q \in Replica : v < view[q]})
                 <= Cardinality({q \in Replica : v < view'[q]})
        BY <3>3, <3>4, SizeGrows
      <3>6. QuorumViewChange \in Nat
        BY ClusterAssumption
      <3> QED
        BY <3>2, <3>5, <3>6
    <2> QED
      BY <2>1, <2>2
  <1>8. \A r \in Replica : /\ durable'[r] <= log_view'[r] /\ log_view'[r] <= view'[r]
                           /\ status'[r] = "normal" => log_view'[r] = view'[r]
    BY DEF Settles
  <1> QED
    BY <1>3, <1>4, <1>5, <1>6, <1>7, <1>8 DEF ViewsInv, Normal

\* Only x may learn that more is committed, from a log that is not later than its own.
LEMMA CommitKept ==
    ASSUME TypeInv, TypeInv', ViewsInv, CommitInv, NEW x \in Replica, StepOf(x),
           commit_min' = commit_min, \A r \in Replica \ {x} : commit_max'[r] = commit_max[r],
           NEW y \in Replica, log_view[y] <= log_view'[x], commit_max'[x] = commit_max[y],
           commit_max[x] <= commit_max'[x], commit_max'[x] <= Len(log'[x])
    PROVE  CommitInv'
  <1> SUFFICES ASSUME NEW r \in Replica
               PROVE  /\ commit_min'[r] <= commit_max'[r] /\ commit_max'[r] <= Len(log'[r])
                      /\ commit_max'[r] > 0 =>
                            \E v \in View : v <= log_view'[r] /\ Decided(v, commit_max[r])'
    BY DEF CommitInv
  <1>1. \A q \in Replica : /\ commit_min[q] \in Nat /\ commit_max[q] \in Nat /\ commit_max'[q] \in Nat
                           /\ log_view[q] \in Nat /\ log_view'[q] \in Nat
    BY PrimaryIsReplica DEF TypeInv
  <1>2. log_view[r] <= log_view'[r]
    BY DEF StepOf
  <1>3. PICK z \in Replica : log_view[z] <= log_view'[r] /\ commit_max'[r] = commit_max[z]
    <2>1. CASE r = x
      BY <2>1
    <2>2. CASE r # x
      BY <1>2, <2>2
    <2> QED
      BY <2>1, <2>2
  <1>4. commit_min'[r] <= commit_max'[r] /\ commit_max'[r] <= Len(log'[r])
    <2>1. CASE r = x
      <3>1. commit_min[x] <= commit_max[x]
        BY DEF CommitInv
      <3> QED
        BY <1>1, <2>1, <3>1
    <2>2. CASE r # x
      <3>1. log'[r] = log[r] /\ commit_max'[r] = commit_max[r]
        BY <2>2 DEF StepOf
      <3> QED
        BY <3>1 DEF CommitInv
    <2> QED
      BY <2>1, <2>2
  <1>5. ASSUME commit_max'[r] > 0
        PROVE  \E v \in View : v <= log_view'[r] /\ Decided(v, commit_max[r])'
    <2>0. PICK o \in Nat : o = commit_max'[r]
      BY <1>1
    <2>1. PICK v \in View : v <= log_view[z] /\ Decided(v, o)
      BY <1>3, <1>5, <2>0 DEF CommitInv
    <2>2. Decided(v, o)'
      BY <2>1, MayAckShrinks
    <2>3. v \in Nat
      BY PrimaryIsReplica
    <2>4. v <= log_view'[r]
      BY <1>1, <1>3, <2>1, <2>3
    <2>5. Decided(v, commit_max[r])'
      BY <2>0, <2>2 DEF Decided, Ackers
    <2> QED
      BY <2>4, <2>5
  <1> QED
    BY <1>4, <1>5

-----------------------------------------------------------------------------
(* The steps of the logs, one by one. *)

\* A step of x that settles, and whose log has what is alive, keeps the invariant of the logs.
LEMMA LogStep ==
    ASSUME LogInv, TypeInv', NEW x \in Replica, StepOf(x), Settles(x), Fits(x), CommitInv'
    PROVE  LogInv'
  <1>1. OneLogPerView'
    BY OneLogKept DEF LogInv
  <1>2. ViewsInv'
    BY <1>1, ViewsKept DEF LogInv
  <1>3. SafeLogs'
    BY <1>1, <1>2, Install DEF LogInv
  <1> QED
    BY <1>1, <1>2, <1>3 DEF LogInv

\* The view of a log has been reached by the quorum that left those before.
LEMMA LeftByQuorum ==
    ASSUME TypeInv, TypeInv', ViewsInv, \A q \in Replica : view[q] <= view'[q],
           NEW y \in Replica, NEW v \in View, v < log_view[y]
    PROVE  Cardinality({q \in Replica : v < view'[q]}) >= QuorumViewChange
  <1>1. Cardinality({q \in Replica : v < view[q]}) >= QuorumViewChange
    BY DEF ViewsInv
  <1>2. \A q \in Replica : view[q] \in Nat /\ view'[q] \in Nat /\ v \in Nat
    BY PrimaryIsReplica DEF TypeInv
  <1>3. {q \in Replica : v < view[q]} \subseteq {q \in Replica : v < view'[q]}
    BY <1>2
  <1>4. {q \in Replica : v < view'[q]} \in SUBSET Replica
    OBVIOUS
  <1>5. /\ Cardinality({q \in Replica : v < view[q]}) \in Nat
        /\ Cardinality({q \in Replica : v < view'[q]}) \in Nat
        /\ Cardinality({q \in Replica : v < view[q]}) <= Cardinality({q \in Replica : v < view'[q]})
    BY <1>3, <1>4, SizeGrows
  <1>6. QuorumViewChange \in Nat
    BY ClusterAssumption
  <1> QED
    BY <1>1, <1>5, <1>6

\* What an acknowledgement changes.
LEMMA AckFacts ==
    ASSUME TypeInv, NEW x \in Replica, Acknowledge(x), view'[x] \in View, Len(log'[x]) \in Nat
    PROVE  /\ acks' \in [View -> [Replica -> Nat]]
           /\ \A v \in View, r \in Replica : acks'[v][r] # acks[v][r] =>
                /\ r = x /\ v = view'[x] /\ status'[x] = "normal" /\ acks'[v][r] = Len(log'[x])
  <1>0. acks \in [View -> [Replica -> Nat]]
    BY DEF TypeInv
  <1>1. CASE status'[x] = "normal" /\ (durable'[x] = view'[x] \/ x = Primary(view'[x]))
    <2>1. acks' = [acks EXCEPT ![view'[x]][x] = Len(log'[x])]
      BY <1>1 DEF Acknowledge
    <2> QED
      BY <1>0, <1>1, <2>1
  <1>2. CASE ~(status'[x] = "normal" /\ (durable'[x] = view'[x] \/ x = Primary(view'[x])))
    <2>1. acks' = acks
      BY <1>2 DEF Acknowledge
    <2> QED
      BY <1>0, <2>1
  <1> QED
    BY <1>1, <1>2

\* A replica that acknowledges what it has, in the view of its log, takes a step of its own.
LEMMA AckStep ==
    ASSUME TypeInv, NEW x \in Replica, Acknowledge(x), view'[x] \in View, Len(log'[x]) \in Nat,
           log_view'[x] \in View, status'[x] = "normal" => log_view'[x] = view'[x],
           acks[log_view'[x]][x] <= Len(log'[x]),
           \A r \in Replica \ {x} : log'[r] = log[r] /\ log_view'[r] = log_view[r],
           \A r \in Replica : view[r] <= view'[r] /\ log_view[r] <= log_view'[r]
    PROVE  StepOf(x) /\ acks' \in [View -> [Replica -> Nat]]
  <1>1. /\ acks' \in [View -> [Replica -> Nat]]
        /\ \A v \in View, r \in Replica : acks'[v][r] # acks[v][r] =>
             /\ r = x /\ v = view'[x] /\ status'[x] = "normal" /\ acks'[v][r] = Len(log'[x])
    BY AckFacts
  <1>2. \A v \in View, r \in Replica : acks[v][r] \in Nat /\ acks'[v][r] \in Nat
    BY <1>1 DEF TypeInv
  <1>3. ASSUME NEW v \in View, NEW r \in Replica
        PROVE  /\ acks[v][r] <= acks'[v][r]
               /\ acks'[v][r] # acks[v][r] => /\ r = x /\ v = log_view'[x] /\ v = view'[x]
                                              /\ acks'[v][r] = Len(log'[x])
    <2>1. CASE acks'[v][r] = acks[v][r]
      BY <1>2, <2>1
    <2>2. CASE acks'[v][r] # acks[v][r]
      <3>1. /\ r = x /\ v = view'[x] /\ status'[x] = "normal" /\ acks'[v][r] = Len(log'[x])
        BY <1>1, <2>2
      <3>2. v = log_view'[x]
        BY <3>1
      <3> QED
        BY <3>1, <3>2
    <2> QED
      BY <2>1, <2>2
  <1> QED
    BY <1>1, <1>3 DEF StepOf

\* The primary of a view that started: it has the log of its view, and everything that anybody
\* acknowledged in it.
LEMMA PrimaryFacts ==
    ASSUME TypeInv, ViewsInv, OneLogPerView, NEW p \in Replica, p = Primary(log_view[p])
    PROVE  /\ \A q \in Replica : acks[log_view[p]][q] <= Len(log[p])
           /\ \A s \in Replica : log_view[s] = log_view[p] =>
                /\ Len(log[s]) <= Len(log[p]) /\ SameTo(log[s], log[p], Len(log[s]))
                /\ Len(log[p]) <= Len(log[s]) => SameTo(log[p], log[s], Len(log[p]))
  <1>1. log_view[p] \in View
    BY DEF TypeInv
  <1>2. \A q \in Replica : acks[log_view[p]][q] <= Len(log[p])
    BY <1>1 DEF ViewsInv
  <1>3. ASSUME NEW s \in Replica, log_view[s] = log_view[p]
        PROVE  /\ Len(log[s]) <= Len(log[p]) /\ SameTo(log[s], log[p], Len(log[s]))
               /\ Len(log[p]) <= Len(log[s]) => SameTo(log[p], log[s], Len(log[p]))
    <2>1. p = Primary(log_view[s])
      BY <1>3
    <2> QED
      BY <1>3, <2>1 DEF OneLogPerView
  <1> QED
    BY <1>2, <1>3

\* A log of x that is another replica's: the primary whose view x is going to be in.
LEMMA FollowFits ==
    ASSUME LogInv, TypeInv', NEW b \in Replica, NEW p \in Replica, StepOf(b),
           p = Primary(log_view[p]), log_view'[b] = log_view[p], log'[b] = log[p]
    PROVE  FitsAll(b)
  <1> USE DEF LogInv
  <1> SUFFICES ASSUME NEW v \in View, NEW q \in Replica, NEW o \in 1..acks[v][q],
                      Alive(v, o)', v <= log_view'[b]
               PROVE  SameTo(log[q], log'[b], o)
    BY DEF FitsAll
  <1>1. /\ acks[v][q] \in Nat /\ v \in Nat /\ log_view[p] \in Nat /\ Len(log[p]) \in Nat
    <2>1. log[p] \in Seq(Op)
      BY DEF TypeInv
    <2> QED
      BY <2>1, LenProperties, PrimaryIsReplica DEF TypeInv
  <1>2. Alive(v, o)
    BY <1>1, MayAckShrinks
  <1>3. \A z \in Replica : acks[log_view[p]][z] <= Len(log[p])
    BY PrimaryFacts
  <1>4. v < log_view[p] \/ (v = log_view[p] /\ o <= Len(log[p]))
    <2>1. v = log_view[p] => acks[v][q] <= Len(log[p])
      BY <1>3
    <2> QED
      BY <1>1, <2>1
  <1>5. Keeps(v, o, p)
    BY <1>4 DEF Keeps
  <1> QED
    BY <1>2, <1>5 DEF SafeLogs

\* Follow keeps the invariant of the logs, and what the backup knows to be committed.
LEMMA FollowLog ==
    ASSUME LogInv, NEW b \in Replica, NEW p \in Replica, Follow(b, p)
    PROVE  LogInv' /\ SameTo(log[b], log'[b], commit_max[b])
  <1> USE DEF LogInv
  <1>1. /\ b # p /\ view[b] <= view[p] /\ p = Primary(view[p]) /\ log_view[p] = view[p]
    <2>1. b # p /\ p = Primary(view[p]) /\ durable[p] = view[p] /\ view[b] <= view[p]
      BY DEF Follow, IsPrimary
    <2>2. durable[p] \in View /\ log_view[p] \in View /\ view[p] \in View
      BY DEF TypeInv
    <2>3. durable[p] \in Nat /\ log_view[p] \in Nat /\ view[p] \in Nat
      BY <2>2, PrimaryIsReplica
    <2>4. durable[p] <= log_view[p] /\ log_view[p] <= view[p]
      BY DEF ViewsInv
    <2> QED
      BY <2>1, <2>3, <2>4
  <1>2. /\ view' = [view EXCEPT ![b] = view[p]] /\ status' = [status EXCEPT ![b] = "normal"]
        /\ log_view' = [log_view EXCEPT ![b] = view[p]] /\ log' = [log EXCEPT ![b] = log[p]]
        /\ commit_max' = [commit_max EXCEPT ![b] = Max({commit_max[b], commit_max[p]})]
        /\ durable' = durable /\ commit_min' = commit_min /\ sessions' = sessions
        /\ Acknowledge(b)
    BY DEF Follow
  <1>3. /\ view \in [Replica -> View] /\ log_view \in [Replica -> View] /\ durable \in [Replica -> View]
        /\ status \in [Replica -> {"normal", "view_change"}] /\ log \in [Replica -> Seq(Op)]
        /\ commit_min \in [Replica -> Nat] /\ commit_max \in [Replica -> Nat]
        /\ acks \in [View -> [Replica -> Nat]] /\ sessions = [r \in Replica |-> sessions[r]]
    BY DEF TypeInv
  <1>4. /\ view'[b] = view[p] /\ log_view'[b] = log_view[p] /\ log'[b] = log[p]
        /\ log_view'[b] = view'[b] /\ view'[b] \in View
        /\ \A r \in Replica \ {b} : /\ view'[r] = view[r] /\ log_view'[r] = log_view[r]
                                    /\ log'[r] = log[r] /\ status'[r] = status[r]
                                    /\ commit_max'[r] = commit_max[r]
    BY <1>1, <1>2, <1>3
  <1>5. /\ \A r \in Replica : /\ view[r] \in Nat /\ log_view[r] \in Nat /\ durable[r] \in Nat
                              /\ Len(log[r]) \in Nat /\ commit_max[r] \in Nat
                              /\ log_view[r] <= view[r] /\ durable[r] <= log_view[r]
                              /\ status[r] = "normal" => log_view[r] = view[r]
    BY <1>3, LenProperties, PrimaryIsReplica DEF ViewsInv, Normal
  <1>6. \A q \in Replica : acks[log_view[p]][q] <= Len(log[p])
    BY <1>1, PrimaryFacts
  <1>7. StepOf(b) /\ acks' \in [View -> [Replica -> Nat]]
    <2>1. \A r \in Replica : view[r] <= view'[r] /\ log_view[r] <= log_view'[r]
      <3> TAKE r \in Replica
      <3>1. CASE r = b
        BY <1>1, <1>4, <1>5, <3>1
      <3>2. CASE r # b
        BY <1>4, <1>5, <3>2
      <3> QED
        BY <3>1, <3>2
    <2>2. log_view'[b] \in View /\ Len(log'[b]) \in Nat /\ acks[log_view'[b]][b] <= Len(log'[b])
      BY <1>4, <1>5, <1>6
    <2> QED
      BY <1>2, <1>4, <2>1, <2>2, AckStep
  <1>8. Max({commit_max[b], commit_max[p]})
            = IF commit_max[b] <= commit_max[p] THEN commit_max[p] ELSE commit_max[b]
    BY <1>5, MaxOfTwo
  <1>9. TypeInv'
    <2>1. \A r \in Replica : Len(log'[r]) <= OpMax
      <3>1. \A r \in Replica : Len(log[r]) <= OpMax
        BY DEF TypeInv
      <3> QED
        BY <1>4, <3>1
    <2>2. /\ view' \in [Replica -> View] /\ log_view' \in [Replica -> View]
          /\ durable' \in [Replica -> View] /\ log' \in [Replica -> Seq(Op)]
      BY <1>2, <1>3
    <2>3. /\ status' \in [Replica -> {"normal", "view_change"}] /\ commit_min' \in [Replica -> Nat]
          /\ sessions' = [r \in Replica |-> sessions'[r]]
      BY <1>2, <1>3
    <2>4. commit_max' \in [Replica -> Nat]
      BY <1>2, <1>3, <1>5, <1>8
    <2> QED
      BY <1>7, <2>1, <2>2, <2>3, <2>4 DEF TypeInv
  <1>10. FitsAll(b)
    BY <1>1, <1>4, <1>7, <1>9, FollowFits
  <1>11. Fits(b)
    <2>1. \A v \in View : v \in Nat
      BY PrimaryIsReplica
    <2>2. log_view'[b] \in Nat
      BY <1>4, <1>5
    <2> QED
      BY <1>10, <2>1, <2>2 DEF Fits, FitsAll
  <1>12. Settles(b)
    <2>1. \A r \in Replica : /\ durable'[r] <= log_view'[r] /\ log_view'[r] <= view'[r]
                             /\ status'[r] = "normal" => log_view'[r] = view'[r]
      <3> TAKE r \in Replica
      <3>1. CASE r = b
        BY <1>1, <1>2, <1>4, <1>5, <3>1
      <3>2. CASE r # b
        BY <1>2, <1>4, <1>5, <3>2
      <3> QED
        BY <3>1, <3>2
    <2>2. log_view'[b] <= log_view'[Primary(log_view'[b])]
      BY <1>1, <1>4, <1>5
    <2>3. \A v \in View : v < log_view'[b] =>
                Cardinality({q \in Replica : v < view'[q]}) >= QuorumViewChange
      <3>1. \A q \in Replica : view[q] <= view'[q]
        BY <1>7 DEF StepOf
      <3> QED
        BY <1>4, <1>9, <3>1, LeftByQuorum
    <2>4. ASSUME NEW s \in Replica \ {b}, log_view[s] = log_view'[b]
          PROVE  /\ Len(log'[b]) <= Len(log[s]) => SameTo(log'[b], log[s], Len(log'[b]))
                 /\ Len(log[s]) <= Len(log'[b]) => SameTo(log[s], log'[b], Len(log[s]))
                 /\ s = Primary(log_view'[b]) => Len(log'[b]) <= Len(log[s])
                 /\ b = Primary(log_view'[b]) => Len(log[s]) <= Len(log'[b])
      <3>1. log_view[s] = log_view[p]
        BY <1>4, <2>4
      <3>2. /\ Len(log[s]) <= Len(log[p]) /\ SameTo(log[s], log[p], Len(log[s]))
            /\ Len(log[p]) <= Len(log[s]) => SameTo(log[p], log[s], Len(log[p]))
        BY <1>1, <3>1, PrimaryFacts
      <3>3. Primary(log_view'[b]) = p
        BY <1>1, <1>4
      <3>4. s = p => Len(log[p]) <= Len(log[s])
        BY <1>5
      <3> QED
        BY <1>4, <3>2, <3>3, <3>4
    <2>5. \A q \in Replica : acks[log_view'[b]][q] <= Len(log'[b])
      BY <1>4, <1>6
    <2> QED
      BY <2>1, <2>2, <2>3, <2>4, <2>5 DEF Settles
  <1>13. /\ SameTo(log[b], log'[b], commit_max[b]) /\ SameTo(log[p], log'[b], commit_max[p])
    <2>1. log_view[b] <= log_view'[b] /\ log_view[p] <= log_view'[b]
      BY <1>1, <1>4, <1>5
    <2> QED
      BY <1>7, <1>9, <1>10, <2>1, CommittedFits
  <1>14. CommitInv'
    <2>1. commit_max'[b] = IF commit_max[b] <= commit_max[p] THEN commit_max[p] ELSE commit_max[b]
      BY <1>2, <1>3, <1>8
    <2>2. log_view[b] <= log_view'[b] /\ log_view[p] <= log_view'[b]
      BY <1>1, <1>4, <1>5
    <2>3. commit_max[b] <= Len(log'[b]) /\ commit_max[p] <= Len(log'[b])
      BY <1>13 DEF SameTo
    <2>4. PICK y \in Replica : log_view[y] <= log_view'[b] /\ commit_max'[b] = commit_max[y]
      BY <2>1, <2>2
    <2>5. commit_max[b] <= commit_max'[b] /\ commit_max'[b] <= Len(log'[b])
      BY <1>5, <2>1, <2>3
    <2>6. commit_min' = commit_min /\ \A r \in Replica \ {b} : commit_max'[r] = commit_max[r]
      BY <1>2, <1>4
    <2> QED
      BY <1>7, <1>9, <2>4, <2>5, <2>6, CommitKept
  <1> QED
    BY <1>7, <1>9, <1>11, <1>12, <1>13, <1>14, LogStep

\* A step that only lets x acknowledge the log it has.
LEMMA AckOnly ==
    ASSUME LogInv, NEW x \in Replica, Acknowledge(x),
           UNCHANGED <<view, log_view, log, commit_min, commit_max, sessions>>,
           durable' \in [Replica -> View], status' \in [Replica -> {"normal", "view_change"}],
           \A r \in Replica : /\ durable'[r] <= log_view[r]
                              /\ status'[r] = "normal" => log_view[r] = view[r]
    PROVE  LogInv'
  <1> USE DEF LogInv
  <1>1. /\ \A r \in Replica : /\ view[r] \in View /\ log_view[r] \in View /\ log_view[r] \in Nat
                              /\ view[r] \in Nat /\ Len(log[r]) \in Nat
                              /\ log_view[r] <= view[r] /\ log_view[r] <= log_view[Primary(log_view[r])]
        /\ \A v \in View : v \in Nat
        /\ \A v \in View, q \in Replica : acks[v][q] \in Nat
    <2>1. \A r \in Replica : log[r] \in Seq(Op)
      BY DEF TypeInv
    <2> QED
      BY <2>1, PrimaryIsReplica, LenProperties DEF TypeInv, ViewsInv
  <1>2. acks[log_view[x]][x] <= Len(log[x])
    BY <1>1 DEF ViewsInv
  <1>3. StepOf(x) /\ acks' \in [View -> [Replica -> Nat]]
    <2>1. /\ view'[x] \in View /\ log_view'[x] \in View /\ Len(log'[x]) \in Nat
          /\ status'[x] = "normal" => log_view'[x] = view'[x]
          /\ acks[log_view'[x]][x] <= Len(log'[x])
      BY <1>1, <1>2
    <2>2. \A r \in Replica : view[r] <= view'[r] /\ log_view[r] <= log_view'[r]
      BY <1>1
    <2> QED
      BY <2>1, <2>2, AckStep
  <1>4. TypeInv'
    BY <1>3 DEF TypeInv
  <1>5. Fits(x)
    <2> SUFFICES ASSUME NEW v \in View, NEW q \in Replica, NEW o \in 1..acks[v][q], Alive(v, o)',
                        v < log_view'[x] \/ (v = log_view'[x] /\ o <= Len(log'[x]))
                 PROVE  SameTo(log[q], log'[x], o)
      BY DEF Fits
    <2>1. o \in Nat
      BY <1>1
    <2>2. Alive(v, o)
      BY <1>3, <1>4, <2>1, MayAckShrinks
    <2>3. Keeps(v, o, x)
      BY DEF Keeps
    <2>4. SameTo(log[q], log[x], o)
      BY <2>2, <2>3 DEF SafeLogs
    <2> QED
      BY <2>4
  <1>6. Settles(x)
    <2>1. \A r \in Replica : /\ durable'[r] <= log_view'[r] /\ log_view'[r] <= view'[r]
                             /\ status'[r] = "normal" => log_view'[r] = view'[r]
      BY <1>1
    <2>2. log_view'[x] <= log_view'[Primary(log_view'[x])] /\ acks[log_view'[x]][x] <= Len(log'[x])
      BY <1>1, <1>2
    <2>3. x = Primary(log_view'[x]) => \A r \in Replica : acks[log_view'[x]][r] <= Len(log'[x])
      BY PrimaryFacts
    <2>4. \A v \in View : v < log_view'[x] =>
                Cardinality({q \in Replica : v < view'[q]}) >= QuorumViewChange
      <3>1. \A q \in Replica : view[q] <= view'[q]
        BY <1>1
      <3> QED
        BY <1>4, <3>1, LeftByQuorum
    <2>5. ASSUME NEW s \in Replica \ {x}, log_view[s] = log_view'[x]
          PROVE  /\ Len(log'[x]) <= Len(log[s]) => SameTo(log'[x], log[s], Len(log'[x]))
                 /\ Len(log[s]) <= Len(log'[x]) => SameTo(log[s], log'[x], Len(log[s]))
                 /\ s = Primary(log_view'[x]) => Len(log'[x]) <= Len(log[s])
                 /\ x = Primary(log_view'[x]) => Len(log[s]) <= Len(log'[x])
      <3>1. log_view[s] = log_view[x] /\ log_view[x] = log_view[s]
        BY <2>5
      <3>2. /\ Len(log[x]) <= Len(log[s]) => SameTo(log[x], log[s], Len(log[x]))
            /\ Len(log[s]) <= Len(log[x]) => SameTo(log[s], log[x], Len(log[s]))
            /\ s = Primary(log_view[x]) => Len(log[x]) <= Len(log[s])
            /\ x = Primary(log_view[x]) => Len(log[s]) <= Len(log[x])
        BY <3>1 DEF OneLogPerView
      <3> QED
        BY <3>2
    <2> QED
      BY <2>1, <2>2, <2>3, <2>4, <2>5 DEF Settles
  <1>7. CommitInv'
    <2>1. /\ log_view[x] <= log_view'[x] /\ commit_max'[x] = commit_max[x]
          /\ commit_max[x] <= commit_max'[x] /\ commit_max'[x] <= Len(log'[x])
      BY <1>1 DEF CommitInv, TypeInv
    <2> QED
      BY <1>3, <1>4, <2>1, CommitKept
  <1> QED
    BY <1>3, <1>4, <1>5, <1>6, <1>7, LogStep

\* The write of a view to the superblock keeps the invariant of the logs.
LEMMA ViewDurableUpdateLog ==
    ASSUME LogInv, NEW x \in Replica, ViewDurableUpdate(x)
    PROVE  LogInv'
  <1>1. /\ UNCHANGED <<view, status, log_view, log, commit_min, commit_max, sessions>>
        /\ durable' = [durable EXCEPT ![x] = log_view[x]] /\ Acknowledge(x)
    BY DEF ViewDurableUpdate, viewVars
  <1>2. /\ durable \in [Replica -> View] /\ log_view \in [Replica -> View]
        /\ status \in [Replica -> {"normal", "view_change"}]
    BY DEF LogInv, TypeInv
  <1>3. \A r \in Replica : /\ log_view[r] \in Nat /\ durable[r] <= log_view[r]
                           /\ status[r] = "normal" => log_view[r] = view[r]
    BY <1>2, PrimaryIsReplica DEF LogInv, ViewsInv, Normal
  <1>4. durable' \in [Replica -> View] /\ status' \in [Replica -> {"normal", "view_change"}]
    BY <1>1, <1>2
  <1>5. \A r \in Replica : /\ durable'[r] <= log_view[r]
                           /\ status'[r] = "normal" => log_view[r] = view[r]
    <2> TAKE r \in Replica
    <2>1. durable'[r] = IF r = x THEN log_view[r] ELSE durable[r]
      BY <1>1, <1>2
    <2> QED
      BY <1>1, <1>3, <2>1
  <1> QED
    BY <1>1, <1>4, <1>5, AckOnly

\* The new primary's start of its view keeps the invariant of the logs.
LEMMA StartViewLog ==
    ASSUME LogInv, NEW x \in Replica, StartView(x)
    PROVE  LogInv'
  <1>1. /\ UNCHANGED <<view, log_view, durable, log, commit_min, commit_max, sessions>>
        /\ status' = [status EXCEPT ![x] = "normal"] /\ Acknowledge(x) /\ log_view[x] = view[x]
    BY DEF StartView
  <1>2. /\ durable \in [Replica -> View] /\ status \in [Replica -> {"normal", "view_change"}]
    BY DEF LogInv, TypeInv
  <1>3. \A r \in Replica : /\ durable[r] <= log_view[r]
                           /\ status[r] = "normal" => log_view[r] = view[r]
    BY DEF LogInv, ViewsInv, Normal
  <1>4. durable' \in [Replica -> View] /\ status' \in [Replica -> {"normal", "view_change"}]
    BY <1>1, <1>2
  <1>5. \A r \in Replica : /\ durable'[r] <= log_view[r]
                           /\ status'[r] = "normal" => log_view[r] = view[r]
    BY <1>1, <1>2, <1>3
  <1> QED
    BY <1>1, <1>4, <1>5, AckOnly

-----------------------------------------------------------------------------
(* A view change: the log that a quorum gives has what its members acknowledged. *)

\* A log of the highest log_view of the quorum, none of which is longer.
Longest(Q) == CHOOSE r \in Canonical(Q) : \A s \in Canonical(Q) : Len(log[s]) <= Len(log[r])

\* In a quorum there is a longest log of the highest log_view.
LEMMA LongestExists ==
    ASSUME TypeInv, NEW Q \in SUBSET Replica, Q # {}
    PROVE  /\ Longest(Q) \in Q
           /\ \A s \in Q : log_view[s] <= log_view[Longest(Q)]
           /\ \A s \in Q : log_view[s] = log_view[Longest(Q)] => Len(log[s]) <= Len(log[Longest(Q)])
  <1>1. /\ \A r \in Replica : log_view[r] \in Nat /\ log_view[r] <= ViewMax /\ Len(log[r]) \in Nat
                              /\ Len(log[r]) <= OpMax
        /\ ViewMax \in Nat /\ OpMax \in Nat
    <2>1. \A r \in Replica : log[r] \in Seq(Op) /\ log_view[r] \in View
      BY DEF TypeInv
    <2> QED
      BY <2>1, LenProperties, ClusterAssumption DEF TypeInv, View
  <1>2. PICK top \in {log_view[r] : r \in Q} : \A y \in {log_view[r] : r \in Q} : y <= top
    <2> DEFINE S == {log_view[r] : r \in Q}
    <2>1. S \in SUBSET Nat /\ S # {} /\ \A y \in S : y <= ViewMax
      BY <1>1
    <2> HIDE DEF S
    <2>2. \E x \in S : \A y \in S : y <= x
      BY <1>1, <2>1, GreatestNatural
    <2> QED
      BY <2>2 DEF S
  <1>3. \A r \in Q : r \in Canonical(Q) <=> log_view[r] = top
    <2>1. PICK m \in Q : log_view[m] = top
      OBVIOUS
    <2>2. \A r \in Q : log_view[r] <= top /\ log_view[r] \in Nat
      BY <1>1, <1>2
    <2> QED
      BY <2>1, <2>2 DEF Canonical
  <1>4. \E r \in Canonical(Q) : \A s \in Canonical(Q) : Len(log[s]) <= Len(log[r])
    <2> DEFINE S == {Len(log[r]) : r \in Canonical(Q)}
    <2>1. PICK m \in Q : log_view[m] = top
      OBVIOUS
    <2>2. Canonical(Q) \subseteq Replica /\ m \in Canonical(Q)
      BY <1>3, <2>1 DEF Canonical
    <2>3. S \in SUBSET Nat /\ S # {} /\ \A y \in S : y <= OpMax
      BY <1>1, <2>2
    <2>4. \E x \in S : \A y \in S : y <= x
      <3> HIDE DEF S
      <3> QED
        BY <1>1, <2>3, GreatestNatural
    <2> QED
      BY <2>4
  <1>5. /\ Longest(Q) \in Canonical(Q)
        /\ \A s \in Canonical(Q) : Len(log[s]) <= Len(log[Longest(Q)])
    BY <1>4 DEF Longest
  <1>6. Longest(Q) \in Q /\ log_view[Longest(Q)] = top
    BY <1>3, <1>5 DEF Canonical
  <1> QED
    BY <1>2, <1>3, <1>5, <1>6

\* The log of the quorum is a beginning of that log, up to before some operation that a nack quorum
\* lacks, or all of it.
LEMMA LogOfQuorum ==
    ASSUME TypeInv, NEW Q \in SUBSET Replica, Q # {}
    PROVE  /\ LogOf(Q) \in Seq(Op) /\ Len(LogOf(Q)) \in Nat
           /\ SameTo(log[Longest(Q)], LogOf(Q), Len(LogOf(Q)))
           /\ \A n \in 0..Len(log[Longest(Q)]) :
                (\A o \in 1..n : Cardinality({r \in Q : o > Len(log[r])
                                                    \/ log[r][o] # log[Longest(Q)][o]}) < QuorumNack)
                => n <= Len(LogOf(Q))
  <1> DEFINE longest == log[Longest(Q)]
             nacks(o) == {r \in Q : o > Len(log[r]) \/ log[r][o] # longest[o]}
             truncated == {o \in 1..Len(longest) : Cardinality(nacks(o)) >= QuorumNack}
  <1>1. longest \in Seq(Op) /\ Len(longest) \in Nat
    <2>1. Longest(Q) \in Replica
      BY LongestExists
    <2> QED
      BY <2>1, LenProperties DEF TypeInv
  <1>2. LogOf(Q) = IF truncated = {} THEN longest ELSE SubSeq(longest, 1, Min(truncated) - 1)
    BY DEF LogOf, Longest
  <1>n. QuorumNack \in Int
    BY ClusterAssumption DEF QuorumNack
  <1>c. \A o : Cardinality(nacks(o)) \in Nat
    <2>1. \A o : nacks(o) \in SUBSET Q
      OBVIOUS
    <2> QED
      BY <2>1, SizeGrows
  <1>3. CASE truncated = {}
    <2>1. LogOf(Q) = longest
      BY <1>2, <1>3
    <2> QED
      BY <1>1, <2>1 DEF SameTo
  <1>4. CASE truncated # {}
    <2>1. truncated \in SUBSET Nat
      OBVIOUS
    <2>2. Min(truncated) \in truncated
      <3> HIDE DEF truncated
      <3> QED
        BY <1>4, <2>1, MinIsLeast
    <2>3. PICK m \in Nat : m = Min(truncated) /\ m \in 1..Len(longest) /\ Cardinality(nacks(m)) >= QuorumNack
      <3>1. PICK m \in truncated : m = Min(truncated)
        BY <2>2
      <3>2. m \in 1..Len(longest) /\ Cardinality(nacks(m)) >= QuorumNack
        OBVIOUS
      <3>3. m \in Nat
        BY <1>1, <3>2
      <3> QED
        BY <3>1, <3>2, <3>3
    <2>4. LogOf(Q) = SubSeq(longest, 1, m - 1)
      BY <1>2, <1>4, <2>3
    <2>5. m - 1 \in 0..Len(longest) /\ m - 1 \in Nat
      BY <1>1, <2>3
    <2>6. /\ LogOf(Q) \in Seq(Op) /\ Len(LogOf(Q)) = m - 1
          /\ \A o \in 1..m - 1 : LogOf(Q)[o] = longest[o]
      <3> HIDE DEF longest, nacks, truncated
      <3>1. \A i \in 1..m - 1 : i \in 1..Len(longest)
        BY <1>1, <2>5
      <3>2. /\ SubSeq(longest, 1, m - 1) \in Seq(Op)
            /\ Len(SubSeq(longest, 1, m - 1)) = IF 1 <= m - 1 THEN (m - 1) - 1 + 1 ELSE 0
            /\ \A i \in 1..(m - 1) - 1 + 1 : SubSeq(longest, 1, m - 1)[i] = longest[1 + i - 1]
        BY <1>1, <2>5, <3>1, SubSeqProperties
      <3>3. \A i \in 1..m - 1 : 1 + i - 1 = i /\ i \in 1..(m - 1) - 1 + 1
        BY <2>5
      <3> QED
        BY <2>4, <2>5, <3>2, <3>3
    <2>7. SameTo(longest, LogOf(Q), Len(LogOf(Q)))
      <3> HIDE DEF longest, nacks, truncated
      <3>1. m - 1 <= Len(longest)
        BY <1>1, <2>3
      <3> QED
        BY <2>5, <2>6, <3>1 DEF SameTo
    <2>8. ASSUME NEW n \in 0..Len(longest), \A o \in 1..n : Cardinality(nacks(o)) < QuorumNack
          PROVE  n <= Len(LogOf(Q))
      <3> SUFFICES ASSUME ~(n <= m - 1) PROVE FALSE
        BY <2>6
      <3>1. n \in Nat /\ m \in 1..n
        BY <1>1, <2>3
      <3>2. Cardinality(nacks(m)) < QuorumNack
        BY <2>8, <3>1
      <3>3. Cardinality(nacks(m)) \in Nat
        BY <1>c
      <3> HIDE DEF nacks
      <3> QED
        BY <1>n, <2>3, <3>2, <3>3
    <2>9. Len(LogOf(Q)) \in Nat
      BY <2>5, <2>6
    <2> QED
      BY <2>6, <2>7, <2>8, <2>9
  <1> QED
    BY <1>3, <1>4

\* The log of a view change quorum has all that an older view can still commit.
LEMMA ViewChangeFits ==
    ASSUME LogInv, TypeInv', NEW v \in View, NEW Q \in SUBSET Replica,
           Cardinality(Q) = QuorumViewChange, NEW p \in Q, StepOf(p),
           log_view'[p] = v, log'[p] = LogOf(Q),
           \A r \in Q : view'[r] = v, \A r \in Q : log_view[r] < v,
           \A r \in Replica : acks[v][r] = 0, acks' = acks
    PROVE  FitsAll(p)
  <1> USE DEF LogInv
  <1> SUFFICES ASSUME NEW w \in View, NEW q \in Replica, NEW o \in 1..acks[w][q],
                      Alive(w, o)', w <= log_view'[p]
               PROVE  SameTo(log[q], log'[p], o)
    BY DEF FitsAll
  <1> DEFINE c == Longest(Q)
             lacks(k) == {r \in Q : k > Len(log[r]) \/ log[r][k] # log[c][k]}
  <1>1. /\ \A z \in Replica : /\ acks[w][z] \in Nat /\ log_view[z] \in Nat /\ Len(log[z]) \in Nat
                              /\ log[z] \in Seq(Op)
        /\ w \in Nat /\ v \in Nat /\ o \in Nat \ {0}
    <2>1. \A z \in Replica : log[z] \in Seq(Op) /\ acks[w][z] \in Nat
      BY DEF TypeInv
    <2>2. o \in Nat \ {0}
      <3>1. acks[w][q] \in Nat
        BY <2>1
      <3> QED
        BY <3>1
    <2>3. \A z \in Replica : log_view[z] \in Nat /\ Len(log[z]) \in Nat
      BY <2>1, LenProperties, PrimaryIsReplica DEF TypeInv
    <2> QED
      BY <2>1, <2>2, <2>3, PrimaryIsReplica
  <1>2. w < v
    <2>1. w # v
      BY <1>1
    <2> QED
      BY <1>1, <2>1
  <1>3. Alive(w, o) /\ Q # {}
    BY <1>1, MayAckShrinks
  <1>4. /\ c \in Q /\ \A s \in Q : log_view[s] <= log_view[c]
        /\ \A s \in Q : log_view[s] = log_view[c] => Len(log[s]) <= Len(log[c])
    BY <1>3, LongestExists
  <1>5. \A r \in Q : r \in MayAck(w, o)' => acks[w][r] >= o
    BY <1>1, <1>2 DEF MayAck
  <1>6. MayAck(w, o)' \in SUBSET Replica /\ Cardinality(MayAck(w, o)') >= QuorumReplication
    BY DEF MayAck, Alive
  <1>7. PICK a \in Q : a \in MayAck(w, o)'
    <2>1. QuorumViewChange \in Int
      BY ClusterAssumption
    <2>2. Cardinality(Q) >= QuorumViewChange
      BY <2>1
    <2>3. MayAck(w, o)' \cap Q # {}
      BY <1>6, <2>2, QuorumsMeet
    <2> QED
      BY <2>3
  <1>8. a \in Replica /\ acks[w][a] >= o /\ acks[w][a] > 0
    BY <1>1, <1>5, <1>7
  <1>9. w <= log_view[a] /\ (log_view[a] = w => acks[w][a] <= Len(log[a]))
    BY <1>8 DEF ViewsInv
  <1>10. Keeps(w, o, c)
    <2>1. log_view[a] <= log_view[c] /\ (log_view[a] = log_view[c] => Len(log[a]) <= Len(log[c]))
      BY <1>4
    <2>2. c \in Replica
      BY <1>4
    <2>3. CASE w = log_view[c]
      <3>1. log_view[a] = w
        BY <1>1, <1>8, <1>9, <2>1, <2>2, <2>3
      <3>2. acks[w][a] <= Len(log[a]) /\ Len(log[a]) <= Len(log[c])
        BY <1>9, <2>1, <2>3, <3>1
      <3>3. o <= Len(log[c])
        BY <1>1, <1>8, <2>2, <3>2
      <3> QED
        BY <2>3, <3>3 DEF Keeps
    <2>4. CASE w # log_view[c]
      <3>1. w < log_view[c]
        BY <1>1, <1>8, <1>9, <2>1, <2>2, <2>4
      <3> QED
        BY <3>1 DEF Keeps
    <2> QED
      BY <2>3, <2>4
  <1>11. SameTo(log[q], log[c], o)
    BY <1>3, <1>4, <1>10 DEF SafeLogs
  <1>12. ASSUME NEW k \in 1..o PROVE Cardinality(lacks(k)) < QuorumNack
    <2>1. lacks(k) \cap MayAck(w, o)' = {}
      <3> SUFFICES ASSUME NEW r \in Q, r \in MayAck(w, o)' PROVE k <= Len(log[r]) /\ log[r][k] = log[c][k]
        BY <1>1
      <3>1. acks[w][r] >= o
        BY <1>5
      <3>2. SameTo(log[q], log[r], o)
        BY <1>3, <3>1 DEF Keeps, SafeLogs
      <3>3. k \in Nat /\ k <= o
        BY <1>1
      <3> QED
        BY <1>1, <1>11, <3>2, <3>3 DEF SameTo
    <2>2. lacks(k) \in SUBSET Replica
      OBVIOUS
    <2> HIDE DEF lacks
    <2>3. ~(Cardinality(lacks(k)) >= QuorumNack)
      BY <1>6, <2>1, <2>2, NackQuorumMeets
    <2>4. Cardinality(lacks(k)) \in Nat /\ QuorumNack \in Int
      BY <2>2, SizeGrows, ClusterAssumption DEF QuorumNack
    <2> QED
      BY <2>3, <2>4
  <1>13. o <= Len(LogOf(Q)) /\ SameTo(log[c], LogOf(Q), Len(LogOf(Q))) /\ Len(LogOf(Q)) \in Nat
    <2>1. o \in 0..Len(log[c])
      BY <1>1, <1>4, <1>11 DEF SameTo
    <2> QED
      BY <1>3, <1>12, <2>1, LogOfQuorum
  <1> QED
    BY <1>1, <1>11, <1>13 DEF SameTo

\* A view change keeps the invariant of the logs, and what the new primary knows to be committed.
LEMMA ViewChangeLog ==
    ASSUME LogInv, NEW v \in View, NEW Q \in SUBSET Replica, Cardinality(Q) = QuorumViewChange,
           ViewChange(v, Q)
    PROVE  /\ LogInv' /\ Primary(v) \in Replica
           /\ SameTo(log[Primary(v)], log'[Primary(v)], commit_max[Primary(v)])
           /\ \E y \in Replica : SameTo(log[y], log'[Primary(v)], Len(log'[Primary(v)]))
  <1> USE DEF LogInv
  <1>0. PICK p \in Q : p = Primary(v)
    BY DEF ViewChange
  <1>1. /\ p \in Replica /\ \A r \in Q : view[r] < v
        /\ view' = [r \in Replica |-> IF r \in Q THEN v ELSE view[r]]
        /\ status' = [r \in Replica |-> IF r \in Q THEN "view_change" ELSE status[r]]
        /\ durable' = [r \in Replica |-> IF r \in Q THEN log_view[r] ELSE durable[r]]
        /\ log_view' = [log_view EXCEPT ![p] = v] /\ log' = [log EXCEPT ![p] = LogOf(Q)]
        /\ commit_max' = [commit_max EXCEPT ![p] = Max({commit_max[r] : r \in Q})]
        /\ commit_min' = commit_min /\ sessions' = sessions /\ acks' = acks
    BY <1>0 DEF ViewChange
  <1>2. /\ view \in [Replica -> View] /\ log_view \in [Replica -> View] /\ durable \in [Replica -> View]
        /\ status \in [Replica -> {"normal", "view_change"}] /\ log \in [Replica -> Seq(Op)]
        /\ commit_min \in [Replica -> Nat] /\ commit_max \in [Replica -> Nat]
        /\ acks \in [View -> [Replica -> Nat]] /\ sessions = [r \in Replica |-> sessions[r]]
    BY DEF TypeInv
  <1>3. /\ \A r \in Replica : /\ view[r] \in Nat /\ log_view[r] \in Nat /\ durable[r] \in Nat
                              /\ Len(log[r]) \in Nat /\ commit_max[r] \in Nat /\ acks[v][r] \in Nat
                              /\ log_view[r] <= view[r] /\ durable[r] <= log_view[r]
                              /\ status[r] = "normal" => log_view[r] = view[r]
                              /\ log_view[r] <= log_view[Primary(log_view[r])]
                              /\ Len(log[r]) <= OpMax /\ commit_max[r] <= Len(log[r])
        /\ v \in Nat /\ OpMax \in Nat
    BY <1>2, LenProperties, PrimaryIsReplica, ClusterAssumption DEF TypeInv, ViewsInv, CommitInv, Normal
  <1>4. ASSUME NEW r \in Q PROVE log_view[r] < v
    <2>1. /\ view[r] < v /\ view[r] \in Nat /\ log_view[r] \in Nat /\ v \in Nat
          /\ log_view[r] <= view[r]
      BY <1>1, <1>3
    <2> QED
      BY <2>1
  <1>5. \A r \in Replica : acks[v][r] = 0
    <2>1. \A r \in Replica : acks[v][r] > 0 => v <= log_view[p]
      BY <1>0 DEF ViewsInv
    <2> QED
      BY <1>1, <1>3, <1>4, <2>1
  <1>6. \A s \in Replica : log_view[s] # v
    <2>1. \A s \in Replica : log_view[s] = v => v <= log_view[p]
      BY <1>0, <1>3
    <2> QED
      BY <1>1, <1>3, <1>4, <2>1
  <1>7. /\ log_view'[p] = v /\ log'[p] = LogOf(Q) /\ \A r \in Q : view'[r] = v
        /\ \A r \in Replica \ {p} : log'[r] = log[r] /\ log_view'[r] = log_view[r]
                                    /\ commit_max'[r] = commit_max[r]
    BY <1>1, <1>2
  <1>8. /\ LogOf(Q) \in Seq(Op) /\ Len(LogOf(Q)) \in Nat
        /\ Longest(Q) \in Replica /\ SameTo(log[Longest(Q)], LogOf(Q), Len(LogOf(Q)))
    BY LogOfQuorum, LongestExists
  <1>9. StepOf(p)
    <2>1. \A r \in Replica : view[r] <= view'[r] /\ log_view[r] <= log_view'[r]
      <3> TAKE r \in Replica
      <3>1. view[r] <= view'[r]
        BY <1>1, <1>3
      <3>2. log_view[r] <= log_view'[r]
        <4>1. CASE r = p
          BY <1>3, <1>4, <1>7, <4>1
        <4>2. CASE r # p
          BY <1>3, <1>7, <4>2
        <4> QED
          BY <4>1, <4>2
      <3> QED
        BY <3>1, <3>2
    <2>2. \A w \in View, r \in Replica : acks[w][r] <= acks'[w][r] /\ acks'[w][r] = acks[w][r]
      BY <1>1, <1>2
    <2> QED
      BY <1>7, <2>1, <2>2 DEF StepOf
  <1>10. Max({commit_max[r] : r \in Q}) \in {commit_max[r] : r \in Q}
         /\ \A y \in {commit_max[r] : r \in Q} : y <= Max({commit_max[r] : r \in Q})
    <2> DEFINE S == {commit_max[r] : r \in Q}
    <2>1. \A r \in Q : r \in Replica /\ commit_max[r] \in Nat /\ commit_max[r] <= OpMax
      BY <1>3
    <2>2. S \in SUBSET Nat /\ S # {} /\ \A y \in S : y <= OpMax
      BY <2>1
    <2> HIDE DEF S
    <2>3. Max(S) \in S /\ \A y \in S : y <= Max(S)
      BY <1>3, <2>2, MaxIsGreatest
    <2> QED
      BY <2>3 DEF S
  <1>11. PICK y \in Q : commit_max[y] = Max({commit_max[r] : r \in Q}) /\ commit_max[p] <= commit_max[y]
    BY <1>10
  <1>12. commit_max'[p] = commit_max[y]
    BY <1>1, <1>2, <1>11
  <1>13. TypeInv'
    <2>1. \A r \in Replica : Len(log'[r]) <= OpMax
      <3>1. Len(LogOf(Q)) <= OpMax
        BY <1>3, <1>8 DEF SameTo
      <3> QED
        BY <1>3, <1>7, <3>1
    <2>2. /\ view' \in [Replica -> View] /\ log_view' \in [Replica -> View]
          /\ durable' \in [Replica -> View] /\ log' \in [Replica -> Seq(Op)]
      BY <1>1, <1>2, <1>8
    <2>3. /\ status' \in [Replica -> {"normal", "view_change"}] /\ commit_min' \in [Replica -> Nat]
          /\ sessions' = [r \in Replica |-> sessions'[r]] /\ acks' \in [View -> [Replica -> Nat]]
      BY <1>1, <1>2
    <2>4. commit_max' \in [Replica -> Nat]
      <3>1. Max({commit_max[r] : r \in Q}) \in Nat
        BY <1>3, <1>11
      <3> QED
        BY <1>1, <1>2, <3>1
    <2> QED
      BY <2>1, <2>2, <2>3, <2>4 DEF TypeInv
  <1>14. FitsAll(p)
    BY <1>1, <1>4, <1>5, <1>7, <1>9, <1>13, ViewChangeFits
  <1>15. Fits(p)
    <2>1. \A w \in View : w \in Nat
      BY PrimaryIsReplica
    <2> QED
      BY <1>3, <1>7, <1>14, <2>1 DEF Fits, FitsAll
  <1>16. Settles(p)
    <2>1. \A r \in Replica : /\ durable'[r] <= log_view'[r] /\ log_view'[r] <= view'[r]
                             /\ status'[r] = "normal" => log_view'[r] = view'[r]
      <3> TAKE r \in Replica
      <3>1. CASE r = p
        BY <1>1, <1>3, <1>4, <1>7, <3>1
      <3>2. CASE r # p /\ r \in Q
        <4>1. /\ durable'[r] = log_view[r] /\ log_view'[r] = log_view[r] /\ view'[r] = v
              /\ status'[r] = "view_change"
          BY <1>1, <1>7, <3>2
        <4> QED
          BY <1>3, <1>4, <3>2, <4>1
      <3>3. CASE r \notin Q
        <4>1. /\ durable'[r] = durable[r] /\ log_view'[r] = log_view[r] /\ view'[r] = view[r]
              /\ status'[r] = status[r]
          BY <1>1, <1>7, <3>3
        <4> QED
          BY <1>3, <4>1
      <3> QED
        BY <3>1, <3>2, <3>3
    <2>2. log_view'[p] <= log_view'[Primary(log_view'[p])]
      BY <1>0, <1>3, <1>7
    <2>3. \A r \in Replica : acks[log_view'[p]][r] <= Len(log'[p])
      BY <1>5, <1>7, <1>8
    <2>4. ASSUME NEW w \in View, w < log_view'[p]
          PROVE  Cardinality({q \in Replica : w < view'[q]}) >= QuorumViewChange
      <3>1. Q \subseteq {q \in Replica : w < view'[q]}
        BY <1>7, <2>4
      <3>2. {q \in Replica : w < view'[q]} \in SUBSET Replica
        OBVIOUS
      <3>3. /\ Cardinality({q \in Replica : w < view'[q]}) \in Nat /\ Cardinality(Q) \in Nat
            /\ Cardinality(Q) <= Cardinality({q \in Replica : w < view'[q]})
        BY <3>1, <3>2, SizeGrows
      <3> QED
        BY <3>3
    <2>5. \A s \in Replica \ {p} : log_view[s] # log_view'[p]
      BY <1>6, <1>7
    <2> QED
      BY <1>1, <2>1, <2>2, <2>3, <2>4, <2>5 DEF Settles
  <1>17. /\ SameTo(log[p], log'[p], commit_max[p]) /\ SameTo(log[y], log'[p], commit_max[y])
    <2>1. log_view[p] <= log_view'[p] /\ log_view[y] <= log_view'[p]
      BY <1>3, <1>4, <1>7
    <2> QED
      BY <1>9, <1>13, <1>14, <2>1, CommittedFits
  <1>18. CommitInv'
    <2>1. log_view[y] <= log_view'[p] /\ y \in Replica
      BY <1>3, <1>4, <1>7
    <2>2. commit_max[p] <= commit_max'[p] /\ commit_max'[p] <= Len(log'[p])
      BY <1>11, <1>12, <1>17 DEF SameTo
    <2> QED
      BY <1>1, <1>7, <1>9, <1>12, <1>13, <2>1, <2>2, CommitKept
  <1>19. LogInv'
    BY <1>1, <1>9, <1>13, <1>15, <1>16, <1>18, LogStep
  <1> QED
    BY <1>0, <1>1, <1>7, <1>8, <1>17, <1>19

-----------------------------------------------------------------------------
(* The primary prepares, and replicas execute. *)

\* The operation that a request becomes.
OpOf(r, m) == [client |-> m.client, request |-> m.request, kind |-> m.kind, view |-> view[r]]

\* A prepare of the primary keeps the invariant of the logs.
LEMMA PrepareLog ==
    ASSUME LogInv, RequestsInv, NEW r \in Replica, NEW m \in requests, OnRequestPrepare(r, m)
    PROVE  /\ LogInv' /\ OpOf(r, m) \in Op
           /\ log' = [log EXCEPT ![r] = Append(log[r], OpOf(r, m))]
  <1> USE DEF LogInv
  <1> DEFINE p == OpOf(r, m)
  <1>1. /\ r = Primary(view[r]) /\ log_view[r] = view[r] /\ status[r] = "normal"
        /\ Len(log[r]) < OpMax /\ log' = [log EXCEPT ![r] = Append(log[r], p)]
        /\ UNCHANGED <<view, status, log_view, durable, commit_min, commit_max, sessions>>
        /\ Acknowledge(r)
    BY DEF OnRequestPrepare, Accepts, IsPrimary, Normal, OpOf, viewVars, ViewsInv
  <1>2. /\ log \in [Replica -> Seq(Op)] /\ view \in [Replica -> View] /\ log_view \in [Replica -> View]
        /\ durable \in [Replica -> View] /\ status \in [Replica -> {"normal", "view_change"}]
        /\ commit_min \in [Replica -> Nat] /\ commit_max \in [Replica -> Nat]
        /\ acks \in [View -> [Replica -> Nat]] /\ sessions = [q \in Replica |-> sessions[q]]
    BY DEF TypeInv
  <1>3. p \in Op
    <2>1. /\ m.client \in Client /\ m.request \in Nat /\ m.kind \in {"register", "read", "write"}
          /\ m.kind = "register" <=> m.request = 0
      BY DEF RequestsInv
    <2>2. view[r] \in View
      BY <1>2
    <2> QED
      BY <2>1, <2>2 DEF Op, OpOf
  <1> HIDE DEF p
  <1>4. /\ Append(log[r], p) \in Seq(Op) /\ Len(Append(log[r], p)) = Len(log[r]) + 1
        /\ \A o \in 1..Len(log[r]) : Append(log[r], p)[o] = log[r][o]
    <2>1. log[r] \in Seq(Op)
      BY <1>2
    <2> QED
      BY <1>3, <2>1, AppendProperties
  <1>5. /\ \A q \in Replica : /\ view[q] \in Nat /\ log_view[q] \in Nat /\ Len(log[q]) \in Nat
                              /\ log_view[q] <= view[q] /\ durable[q] <= log_view[q]
                              /\ status[q] = "normal" => log_view[q] = view[q]
                              /\ commit_max[q] \in Nat /\ commit_max[q] <= Len(log[q])
        /\ \A w \in View, q \in Replica : acks[w][q] \in Nat
        /\ OpMax \in Nat
    BY <1>2, LenProperties, PrimaryIsReplica, ClusterAssumption DEF ViewsInv, CommitInv, Normal
  <1>6. log'[r] = Append(log[r], p) /\ \A q \in Replica \ {r} : log'[q] = log[q]
    BY <1>1, <1>2
  <1>7. /\ \A q \in Replica : acks[log_view[r]][q] <= Len(log[r])
        /\ \A s \in Replica : log_view[s] = log_view[r] =>
              Len(log[s]) <= Len(log[r]) /\ SameTo(log[s], log[r], Len(log[s]))
    BY <1>1, PrimaryFacts
  <1>8. \A s \in Replica : \A n \in Nat : SameTo(log[s], log[r], n) => SameTo(log[s], log'[r], n)
    BY <1>4, <1>5, <1>6 DEF SameTo
  <1>9. StepOf(r) /\ acks' \in [View -> [Replica -> Nat]]
    <2>1. /\ view'[r] \in View /\ log_view'[r] \in View /\ Len(log'[r]) \in Nat
          /\ status'[r] = "normal" => log_view'[r] = view'[r]
          /\ \A q \in Replica : view[q] <= view'[q] /\ log_view[q] <= log_view'[q]
          /\ \A q \in Replica \ {r} : log'[q] = log[q] /\ log_view'[q] = log_view[q]
      <3>1. view'[r] \in View /\ log_view'[r] \in View
        BY <1>1, <1>2
      <3>2. Len(log'[r]) \in Nat
        BY <1>4, <1>5, <1>6
      <3>3. \A q \in Replica : view[q] <= view'[q] /\ log_view[q] <= log_view'[q]
        BY <1>1, <1>5
      <3> QED
        BY <1>1, <1>6, <3>1, <3>2, <3>3
    <2>2. acks[log_view'[r]][r] <= Len(log'[r])
      <3>1. acks[log_view[r]][r] \in Nat /\ acks[log_view[r]][r] <= Len(log[r]) /\ Len(log[r]) \in Nat
        BY <1>2, <1>5, <1>7
      <3>2. Len(log'[r]) = Len(log[r]) + 1
        BY <1>4, <1>6
      <3> QED
        BY <1>1, <3>1, <3>2
    <2> QED
      BY <1>1, <2>1, <2>2, AckStep
  <1>10. TypeInv'
    <2>1. log' \in [Replica -> Seq(Op)]
      BY <1>1, <1>2, <1>4
    <2>2. ASSUME NEW q \in Replica PROVE Len(log'[q]) <= OpMax
      <3>1. CASE q = r
        BY <1>1, <1>4, <1>5, <1>6, <3>1
      <3>2. CASE q # r
        BY <1>6, <3>2 DEF TypeInv
      <3> QED
        BY <3>1, <3>2
    <2> QED
      BY <1>1, <1>2, <1>9, <2>1, <2>2 DEF TypeInv
  <1>11. Fits(r)
    <2> SUFFICES ASSUME NEW v \in View, NEW q \in Replica, NEW o \in 1..acks[v][q], Alive(v, o)',
                        v < log_view'[r] \/ v = log_view'[r]
                 PROVE  SameTo(log[q], log'[r], o)
      BY DEF Fits
    <2>1. o \in Nat /\ o <= acks[v][q] /\ acks[v][q] \in Nat
      BY <1>5
    <2>2. Alive(v, o)
      BY <1>9, <1>10, <2>1, MayAckShrinks
    <2>3. Keeps(v, o, r)
      <3>1. CASE v < log_view[r]
        BY <3>1 DEF Keeps
      <3>2. CASE v = log_view[r]
        <4>1. acks[v][q] <= Len(log[r]) /\ Len(log[r]) \in Nat
          BY <1>5, <1>7, <3>2
        <4>2. o <= Len(log[r])
          BY <2>1, <4>1
        <4> QED
          BY <3>2, <4>2 DEF Keeps
      <3> QED
        BY <1>1, <3>1, <3>2
    <2>4. SameTo(log[q], log[r], o)
      BY <2>2, <2>3 DEF SafeLogs
    <2> QED
      BY <1>8, <2>1, <2>4
  <1>12. Settles(r)
    <2>1. \A q \in Replica : /\ durable'[q] <= log_view'[q] /\ log_view'[q] <= view'[q]
                             /\ status'[q] = "normal" => log_view'[q] = view'[q]
      BY <1>1, <1>5
    <2>2. log_view'[r] <= log_view'[Primary(log_view'[r])]
      BY <1>1, <1>5
    <2>3. ASSUME NEW q \in Replica PROVE acks[log_view'[r]][q] <= Len(log'[r])
      <3>1. acks[log_view[r]][q] \in Nat /\ acks[log_view[r]][q] <= Len(log[r]) /\ Len(log[r]) \in Nat
        BY <1>2, <1>5, <1>7
      <3>2. Len(log'[r]) = Len(log[r]) + 1
        BY <1>4, <1>6
      <3> QED
        BY <1>1, <3>1, <3>2
    <2>4. \A v \in View : v < log_view'[r] =>
                Cardinality({q \in Replica : v < view'[q]}) >= QuorumViewChange
      <3>1. \A q \in Replica : view[q] <= view'[q]
        BY <1>1, <1>5
      <3> QED
        BY <1>1, <1>10, <3>1, LeftByQuorum
    <2>5. ASSUME NEW s \in Replica \ {r}, log_view[s] = log_view'[r]
          PROVE  /\ ~(Len(log'[r]) <= Len(log[s]))
                 /\ SameTo(log[s], log'[r], Len(log[s]))
                 /\ s # Primary(log_view'[r])
                 /\ Len(log[s]) <= Len(log'[r])
      <3>1. log_view[s] = log_view[r]
        BY <1>1, <2>5
      <3>2. Len(log[s]) <= Len(log[r]) /\ SameTo(log[s], log[r], Len(log[s]))
        BY <1>7, <3>1
      <3>3. Len(log'[r]) = Len(log[r]) + 1 /\ Len(log[s]) \in Nat /\ Len(log[r]) \in Nat
        BY <1>4, <1>5, <1>6
      <3>4. SameTo(log[s], log'[r], Len(log[s]))
        BY <1>8, <3>2, <3>3
      <3>5. s # Primary(log_view'[r])
        BY <1>1
      <3> QED
        BY <3>2, <3>3, <3>4, <3>5
    <2> QED
      BY <2>1, <2>2, <2>3, <2>4, <2>5 DEF Settles
  <1>13. CommitInv'
    <2>1. log_view[r] <= log_view'[r] /\ commit_max'[r] = commit_max[r]
      BY <1>1, <1>5
    <2>2. commit_max[r] <= commit_max'[r] /\ commit_max'[r] <= Len(log'[r])
      <3>1. Len(log'[r]) = Len(log[r]) + 1
        BY <1>4, <1>6
      <3> QED
        BY <1>1, <1>5, <3>1
    <2>3. commit_min' = commit_min /\ \A q \in Replica \ {r} : commit_max'[q] = commit_max[q]
      BY <1>1
    <2> QED
      BY <1>9, <1>10, <2>1, <2>2, <2>3, CommitKept
  <1>14. LogInv'
    BY <1>9, <1>10, <1>11, <1>12, <1>13, LogStep
  <1> QED
    BY <1>1, <1>3, <1>14 DEF p

\* What executes is committed already, or a quorum acknowledged it.
LEMMA ExecuteLog ==
    ASSUME LogInv, NEW r \in Replica, Execute(r), commit_min[r] < Len(log[r]),
           \/ commit_min[r] < commit_max[r]
           \/ commit_min[r] = commit_max[r]
              /\ \E v \in View : v <= log_view[r] /\ Decided(v, commit_min[r] + 1)
    PROVE  LogInv'
  <1> USE DEF LogInv
  <1>1. /\ UNCHANGED <<view, status, log_view, durable, log, acks>>
        /\ commit_min' = [commit_min EXCEPT ![r] = commit_min[r] + 1]
        /\ commit_max' = [commit_max EXCEPT ![r] = Max({commit_max[r], commit_min[r] + 1})]
        /\ sessions' = [sessions EXCEPT
                ![r] = TableExecute(sessions[r], log[r][commit_min[r] + 1], commit_min[r] + 1)]
    BY DEF Execute, viewVars
  <1>2. /\ commit_min \in [Replica -> Nat] /\ commit_max \in [Replica -> Nat]
        /\ sessions = [q \in Replica |-> sessions[q]]
        /\ \A q \in Replica : commit_min[q] <= commit_max[q] /\ commit_max[q] <= Len(log[q])
        /\ Len(log[r]) \in Nat
    <2>1. log[r] \in Seq(Op)
      BY DEF TypeInv
    <2> QED
      BY <2>1, LenProperties DEF TypeInv, CommitInv
  <1>3. Max({commit_max[r], commit_min[r] + 1})
            = IF commit_min[r] < commit_max[r] THEN commit_max[r] ELSE commit_min[r] + 1
    <2>1. commit_max[r] \in Nat /\ commit_min[r] \in Nat /\ commit_min[r] + 1 \in Nat
          /\ commit_min[r] <= commit_max[r]
      BY <1>2
    <2>2. Max({commit_max[r], commit_min[r] + 1})
             = IF commit_max[r] <= commit_min[r] + 1 THEN commit_min[r] + 1 ELSE commit_max[r]
      BY <2>1, MaxOfTwo
    <2> QED
      BY <2>1, <2>2
  <1>4. /\ commit_min'[r] = commit_min[r] + 1
        /\ commit_max'[r] = IF commit_min[r] < commit_max[r] THEN commit_max[r] ELSE commit_min[r] + 1
        /\ \A q \in Replica \ {r} : commit_min'[q] = commit_min[q] /\ commit_max'[q] = commit_max[q]
    BY <1>1, <1>2, <1>3
  <1>5. TypeInv'
    <2>1. commit_min' \in [Replica -> Nat] /\ sessions' = [q \in Replica |-> sessions'[q]]
      <3>1. commit_min[r] + 1 \in Nat
        BY <1>2
      <3>2. commit_min' \in [Replica -> Nat]
        BY <1>1, <1>2, <3>1
      <3>3. sessions' = [q \in Replica |-> sessions'[q]]
        BY <1>1, <1>2
      <3> QED
        BY <3>2, <3>3
    <2>2. Max({commit_max[r], commit_min[r] + 1}) \in Nat
      BY <1>2, <1>3
    <2>3. commit_max' \in [Replica -> Nat]
      BY <1>1, <1>2, <2>2
    <2> QED
      BY <1>1, <2>1, <2>3 DEF TypeInv
  <1>6. ViewsInv'
    BY <1>1 DEF ViewsInv, Normal
  <1>7. OneLogPerView'
    BY <1>1 DEF OneLogPerView
  <1>8. SafeLogs'
    BY <1>1 DEF SafeLogs, Alive, MayAck, Keeps
  <1>9. CommitInv'
    <2> SUFFICES ASSUME NEW q \in Replica
                 PROVE  /\ commit_min'[q] <= commit_max'[q] /\ commit_max'[q] <= Len(log'[q])
                        /\ commit_max'[q] > 0 =>
                              \E v \in View : v <= log_view'[q] /\ Decided(v, commit_max[q])'
      BY DEF CommitInv
    <2>1. \A v \in View : \A o \in Nat : Decided(v, o)' <=> Decided(v, o)
      BY <1>1 DEF Decided, Ackers
    <2>2. /\ commit_min'[q] <= commit_max'[q] /\ commit_max'[q] <= Len(log'[q])
      <3>1. CASE q = r
        BY <1>1, <1>2, <1>4, <3>1
      <3>2. CASE q # r
        BY <1>1, <1>2, <1>4, <3>2
      <3> QED
        BY <3>1, <3>2
    <2>3. ASSUME commit_max'[q] > 0
          PROVE  \E v \in View : v <= log_view'[q] /\ Decided(v, commit_max[q])'
      <3>0. PICK o \in Nat : o = commit_max'[q]
        BY <1>5 DEF TypeInv
      <3>1. \E v \in View : v <= log_view[q] /\ Decided(v, o)
        <4>1. CASE commit_max'[q] = commit_max[q]
          BY <2>3, <3>0, <4>1 DEF CommitInv
        <4>2. CASE commit_max'[q] # commit_max[q]
          <5>1. q = r /\ o = commit_min[r] + 1 /\ ~(commit_min[r] < commit_max[r])
            BY <1>2, <1>4, <3>0, <4>2
          <5> QED
            BY <5>1
        <4> QED
          BY <4>1, <4>2
      <3>2. \E v \in View : v <= log_view[q] /\ Decided(v, o)'
        BY <2>1, <3>1
      <3> QED
        BY <1>1, <3>0, <3>2 DEF Decided, Ackers
    <2> QED
      BY <2>2, <2>3
  <1> QED
    BY <1>5, <1>6, <1>7, <1>8, <1>9

\* An execution by either way.
LEMMA CommitLog ==
    ASSUME LogInv, NEW r \in Replica, CommitPipeline(r) \/ CommitJournal(r)
    PROVE  LogInv' /\ Execute(r) /\ commit_min[r] < Len(log[r])
  <1> USE DEF LogInv
  <1>1. CASE CommitPipeline(r)
    <2>1. /\ commit_min[r] = commit_max[r] /\ commit_min[r] < Len(log[r]) /\ Execute(r)
          /\ Cardinality({b \in Replica : acks[view[r]][b] > commit_min[r]}) >= QuorumReplication
          /\ log_view[r] = view[r]
      BY <1>1 DEF CommitPipeline, ViewsInv
    <2>2. /\ view[r] \in View /\ log_view[r] \in Nat /\ view[r] <= log_view[r] /\ commit_min[r] \in Nat
          /\ \A b \in Replica : acks[view[r]][b] \in Nat
      <3>1. /\ view[r] \in View /\ log_view[r] \in View /\ commit_min[r] \in Nat
            /\ acks \in [View -> [Replica -> Nat]]
        BY DEF TypeInv
      <3>2. log_view[r] \in Nat
        BY <3>1, PrimaryIsReplica
      <3>3. view[r] <= log_view[r]
        BY <2>1, <3>2
      <3> QED
        BY <3>1, <3>2, <3>3
    <2>3. {b \in Replica : acks[view[r]][b] > commit_min[r]} = Ackers(view[r], commit_min[r] + 1)
      BY <2>2 DEF Ackers
    <2>4. Decided(view[r], commit_min[r] + 1)
      BY <2>1, <2>3 DEF Decided
    <2> QED
      BY <2>1, <2>2, <2>4, ExecuteLog
  <1>2. CASE CommitJournal(r)
    <2>1. commit_min[r] < commit_max[r] /\ commit_min[r] < Len(log[r]) /\ Execute(r)
      BY <1>2 DEF CommitJournal
    <2> QED
      BY <2>1, ExecuteLog
  <1> QED
    BY <1>1, <1>2

-----------------------------------------------------------------------------
(* The table. *)

\* What an operation changes of the table: its client's entry, and it may evict one more.
LEMMA TableFacts ==
    ASSUME NEW table, IsTable(table), NEW p \in Op, NEW op \in Nat \ {0}
    PROVE  /\ IsTable(TableExecute(table, p, op))
           /\ \A c \in Client \ {p.client} : TableExecute(table, p, op)[c] \in {table[c], Absent}
           /\ p.kind = "register" => TableExecute(table, p, op)[p.client] = EntryOf(p, op, op)
           /\ p.kind # "register" => TableExecute(table, p, op)[p.client]
                = IF Known(table, p.client) THEN EntryOf(p, op, table[p.client].session)
                  ELSE table[p.client]
  <1>1. /\ table = [c \in Client |-> table[c]] /\ \A c \in Client : IsEntry(table[c])
        /\ p.client \in Client /\ p.request \in Nat
    BY DEF IsTable, Op
  <1>2. IsEntry(Absent)
    BY DEF IsEntry, Absent
  <1>3. \A s \in Nat : IsEntry(EntryOf(p, op, s))
    BY <1>1 DEF IsEntry, EntryOf
  <1>4. CASE p.kind = "register"
    <2> DEFINE e == Evictee(table)
               room == IF Cardinality(Sessions(table)) = ClientsMax
                       THEN [table EXCEPT ![e] = Absent] ELSE table
    <2>1. TableExecute(table, p, op) = [room EXCEPT ![p.client] = EntryOf(p, op, op)]
      BY <1>4 DEF TableExecute, TableCreate
    <2>2. /\ room = [c \in Client |-> room[c]]
          /\ \A c \in Client : room[c] \in {table[c], Absent}
      <3> HIDE DEF e
      <3>1. [table EXCEPT ![e] = Absent] = [c \in Client |-> IF c = e THEN Absent ELSE table[c]]
        BY <1>1
      <3>2. CASE Cardinality(Sessions(table)) = ClientsMax
        <4>1. room = [c \in Client |-> IF c = e THEN Absent ELSE table[c]]
          BY <3>1, <3>2
        <4> HIDE DEF room
        <4> QED
          BY <4>1
      <3>3. CASE ~(Cardinality(Sessions(table)) = ClientsMax)
        <4>1. room = table
          BY <3>3
        <4> HIDE DEF room
        <4> QED
          BY <1>1, <4>1
      <3> QED
        BY <3>2, <3>3
    <2> HIDE DEF room
    <2>3. /\ TableExecute(table, p, op) = [c \in Client |-> TableExecute(table, p, op)[c]]
          /\ TableExecute(table, p, op)[p.client] = EntryOf(p, op, op)
          /\ \A c \in Client \ {p.client} : TableExecute(table, p, op)[c] = room[c]
      BY <1>1, <2>1, <2>2
    <2>4. ASSUME NEW c \in Client PROVE IsEntry(TableExecute(table, p, op)[c])
      <3>1. CASE c = p.client
        <4>1. op \in Nat
          OBVIOUS
        <4> QED
          BY <1>3, <2>3, <3>1, <4>1
      <3>2. CASE c # p.client
        <4>1. TableExecute(table, p, op)[c] \in {table[c], Absent}
          BY <2>2, <2>3, <3>2
        <4> QED
          BY <1>1, <1>2, <4>1
      <3> QED
        BY <3>1, <3>2
    <2> QED
      BY <1>4, <2>2, <2>3, <2>4 DEF IsTable
  <1>5. CASE p.kind # "register" /\ Known(table, p.client)
    <2>1. TableExecute(table, p, op)
            = [table EXCEPT ![p.client] = EntryOf(p, op, table[p.client].session)]
      BY <1>5 DEF TableExecute, TableUpdate
    <2>2. /\ TableExecute(table, p, op) = [c \in Client |-> TableExecute(table, p, op)[c]]
          /\ TableExecute(table, p, op)[p.client] = EntryOf(p, op, table[p.client].session)
          /\ \A c \in Client \ {p.client} : TableExecute(table, p, op)[c] = table[c]
      BY <1>1, <2>1
    <2>3. ASSUME NEW c \in Client PROVE IsEntry(TableExecute(table, p, op)[c])
      <3>1. CASE c = p.client
        <4>1. table[p.client].session \in Nat
          BY <1>1 DEF IsEntry
        <4> QED
          BY <1>3, <2>2, <3>1, <4>1
      <3>2. CASE c # p.client
        BY <1>1, <2>2, <3>2
      <3> QED
        BY <3>1, <3>2
    <2> QED
      BY <1>5, <2>2, <2>3 DEF IsTable
  <1>6. CASE p.kind # "register" /\ ~Known(table, p.client)
    <2>1. TableExecute(table, p, op) = table
      BY <1>6 DEF TableExecute, TableUpdate
    <2> QED
      BY <1>6, <2>1
  <1> QED
    BY <1>4, <1>5, <1>6

\* A register evicts a session when there are clients_max.
LEMMA EvicteeIsSession ==
    ASSUME NEW table, IsTable(table), Sessions(table) # {}
    PROVE  Evictee(table) \in Sessions(table)
  <1> DEFINE S == {table[c].op : c \in Sessions(table)}
  <1>1. \A c \in Sessions(table) : table[c].op \in Nat
    BY DEF IsTable, IsEntry, Sessions
  <1>2. \E x \in S : \A y \in S : x <= y
    <2>1. S \in SUBSET Nat /\ S # {}
      BY <1>1
    <2> HIDE DEF S
    <2> QED
      BY <2>1, LeastNatural
  <1>3. \E c \in Sessions(table) : \A d \in Sessions(table) : table[c].op <= table[d].op
    BY <1>2
  <1> QED
    BY <1>3 DEF Evictee

\* An operation leaves no more than clients_max sessions.
LEMMA TableBounded ==
    ASSUME NEW table, IsTable(table), Bounded(table), NEW p \in Op, NEW op \in Nat \ {0}
    PROVE  Bounded(TableExecute(table, p, op))
  <1> DEFINE S == Sessions(table)
             after == TableExecute(table, p, op)
  <1>1. /\ table = [c \in Client |-> table[c]] /\ p.client \in Client
        /\ ClientsMax \in Nat \ {0}
    BY ClientsAssumption DEF IsTable, Op
  <1>2. IsFiniteSet(S) /\ Cardinality(S) \in Nat /\ Cardinality(S) <= ClientsMax
    <2>1. S \in SUBSET Client
      BY DEF Sessions
    <2> HIDE DEF S
    <2>2. IsFiniteSet(S) /\ Cardinality(S) \in Nat
      BY <2>1, FS_Subset, FS_CardinalityType, ClientsAssumption
    <2> QED
      BY <2>2 DEF Bounded, S
  <1>3. CASE p.kind # "register"
    <2>1. ASSUME NEW c \in Client PROVE Known(after, c) <=> Known(table, c)
      <3>1. CASE Known(table, p.client)
        <4>1. after = [table EXCEPT ![p.client] = EntryOf(p, op, table[p.client].session)]
          BY <1>3, <3>1 DEF TableExecute, TableUpdate
        <4>2. EntryOf(p, op, table[p.client].session).session = table[p.client].session
          BY DEF EntryOf
        <4> HIDE DEF after
        <4>3. after[c] = IF c = p.client THEN EntryOf(p, op, table[p.client].session) ELSE table[c]
          BY <1>1, <4>1
        <4> QED
          BY <4>2, <4>3 DEF Known
      <3>2. CASE ~Known(table, p.client)
        BY <1>3, <3>2 DEF TableExecute, TableUpdate
      <3> QED
        BY <3>1, <3>2
    <2>2. Sessions(after) = S
      BY <2>1 DEF Sessions
    <2> QED
      BY <1>2, <2>2 DEF Bounded
  <1>4. CASE p.kind = "register" /\ Cardinality(S) # ClientsMax
    <2>1. after = [table EXCEPT ![p.client] = EntryOf(p, op, op)]
      BY <1>4 DEF TableExecute, TableCreate
    <2>2. Sessions(after) = S \cup {p.client}
      <3>1. EntryOf(p, op, op).session # 0
        BY DEF EntryOf
      <3> HIDE DEF after
      <3>2. \A c \in Client : after[c] = IF c = p.client THEN EntryOf(p, op, op) ELSE table[c]
        BY <1>1, <2>1
      <3> QED
        BY <1>1, <3>1, <3>2 DEF Sessions, Known
    <2> HIDE DEF S, after
    <2>3. Cardinality(S \cup {p.client}) <= Cardinality(S) + 1
      BY <1>2, FS_AddElement
    <2>4. IsFiniteSet(S \cup {p.client})
      BY <1>2, FS_AddElement
    <2>5. Cardinality(S \cup {p.client}) \in Nat
      BY <2>4, FS_CardinalityType
    <2>6. Cardinality(S) + 1 <= ClientsMax
      BY <1>1, <1>2, <1>4
    <2>7. Cardinality(Sessions(after)) <= ClientsMax
      BY <1>1, <1>2, <2>2, <2>3, <2>5, <2>6
    <2> QED
      BY <2>7 DEF Bounded, after
  <1>5. CASE p.kind = "register" /\ Cardinality(S) = ClientsMax
    <2> DEFINE e == Evictee(table)
    <2>0. e \in S
      <3>1. S # {}
        BY <1>1, <1>5, FS_EmptySet
      <3> QED
        BY <3>1, EvicteeIsSession
    <2>1. after = [[table EXCEPT ![e] = Absent] EXCEPT ![p.client] = EntryOf(p, op, op)]
      BY <1>5 DEF TableExecute, TableCreate
    <2>2. Sessions(after) \subseteq (S \ {e}) \cup {p.client}
      <3> HIDE DEF after, e
      <3>1. \A c \in Client : after[c] = IF c = p.client THEN EntryOf(p, op, op)
                                         ELSE IF c = e THEN Absent ELSE table[c]
        BY <1>1, <2>1
      <3>2. Absent.session = 0
        BY DEF Absent
      <3> QED
        BY <3>1, <3>2 DEF Sessions, Known
    <2> HIDE DEF S, after, e
    <2>3. IsFiniteSet(S \ {e}) /\ Cardinality(S \ {e}) = Cardinality(S) - 1
      BY <1>2, <2>0, FS_RemoveElement
    <2>4. PICK R : R = S \ {e}
      OBVIOUS
    <2>5. /\ IsFiniteSet(R) /\ Cardinality(R) = ClientsMax - 1
          /\ Sessions(after) \subseteq R \cup {p.client}
      BY <1>5, <2>2, <2>3, <2>4
    <2>6. IsFiniteSet(R \cup {p.client}) /\ Cardinality(R \cup {p.client}) <= Cardinality(R) + 1
      <3>1. Cardinality(R) \in Nat
        BY <2>5, FS_CardinalityType
      <3> QED
        BY <2>5, <3>1, FS_AddElement
    <2>7. /\ IsFiniteSet(Sessions(after))
          /\ Cardinality(Sessions(after)) <= Cardinality(R \cup {p.client})
      BY <2>5, <2>6, FS_Subset
    <2>8. Cardinality(Sessions(after)) \in Nat /\ Cardinality(R \cup {p.client}) \in Nat
      BY <2>6, <2>7, FS_CardinalityType
    <2>9. Cardinality(Sessions(after)) <= ClientsMax
      BY <1>1, <2>5, <2>6, <2>7, <2>8
    <2> QED
      BY <2>9 DEF Bounded, after
  <1> QED
    BY <1>3, <1>4, <1>5

\* The table stays good when the log gets an operation it does not object to.
LEMMA GoodGrows ==
    ASSUME NEW l \in Seq(Op), NEW p \in Op, NEW table, IsTable(table), TableGood(table, l, Len(l)),
           TableAsserts(table, p, Len(l) + 1)
    PROVE  TableGood(TableExecute(table, p, Len(l) + 1), Append(l, p), Len(l) + 1)
  <1>1. PICK n \in Nat : n = Len(l)
    BY LenProperties
  <1>2. /\ \A o \in 1..n : Append(l, p)[o] = l[o]
        /\ Append(l, p)[n + 1] = p
    BY <1>1, AppendProperties
  <1>3. n + 1 \in Nat \ {0} /\ p.client \in Client /\ p.request \in Nat
        /\ (p.kind = "register" <=> p.request = 0)
    BY DEF Op
  <1> DEFINE after == TableExecute(table, p, n + 1)
  <1>4. /\ \A c \in Client \ {p.client} : after[c] \in {table[c], Absent}
        /\ p.kind = "register" => after[p.client] = EntryOf(p, n + 1, n + 1)
        /\ p.kind # "register" => after[p.client]
             = IF Known(table, p.client) THEN EntryOf(p, n + 1, table[p.client].session)
               ELSE table[p.client]
    BY <1>3, TableFacts
  <1>5. TableGood(table, l, n) /\ TableAsserts(table, p, n + 1)
    BY <1>1
  <1> HIDE DEF after
  <1> SUFFICES ASSUME NEW c \in Client, Known(after, c)
               PROVE  /\ after[c].session \in 1..n + 1
                      /\ after[c].op \in after[c].session..n + 1
                      /\ \A o \in after[c].session..n + 1 :
                            Append(l, p)[o].client = c => Append(l, p)[o].request <= after[c].request
    BY <1>1 DEF TableGood, after
  <1>6. ASSUME Known(table, c)
        PROVE  /\ table[c].session \in 1..n /\ table[c].op \in table[c].session..n
               /\ table[c].session \in Nat /\ table[c].op \in Nat /\ table[c].request \in Nat
               /\ \A o \in table[c].session..n : l[o].client = c => l[o].request <= table[c].request
    <2>1. IsEntry(table[c])
      BY DEF IsTable
    <2> QED
      BY <1>5, <1>6, <2>1 DEF TableGood, IsEntry
  <1>7. CASE c # p.client
    <2>1. after[c] = table[c]
      <3>1. after[c] \in {table[c], Absent}
        BY <1>4, <1>7
      <3>2. after[c] # Absent
        BY DEF Known, Absent
      <3> QED
        BY <3>1, <3>2
    <2>2. Known(table, c)
      BY <2>1 DEF Known
    <2>3. ASSUME NEW o \in table[c].session..n + 1, Append(l, p)[o].client = c
          PROVE  Append(l, p)[o].request <= table[c].request
      <3>1. o # n + 1
        BY <1>2, <1>7, <2>3
      <3>2. o \in table[c].session..n /\ o \in 1..n
        BY <1>6, <2>2, <3>1
      <3>3. Append(l, p)[o] = l[o]
        BY <1>2, <3>2
      <3> QED
        BY <1>6, <2>2, <2>3, <3>2, <3>3
    <2>4. table[c].session \in 1..n + 1 /\ table[c].op \in table[c].session..n + 1
      BY <1>6, <2>2
    <2> QED
      BY <2>1, <2>3, <2>4
  <1>8. CASE c = p.client /\ p.kind = "register"
    <2>1. after[c].session = n + 1 /\ after[c].op = n + 1 /\ after[c].request = p.request
      BY <1>4, <1>8 DEF EntryOf
    <2>2. \A o \in n + 1..n + 1 : Append(l, p)[o].request <= after[c].request
      <3>1. \A o \in n + 1..n + 1 : o = n + 1
        OBVIOUS
      <3>2. Append(l, p)[n + 1].request = p.request /\ p.request <= after[c].request
        BY <1>2, <1>3, <2>1
      <3> QED
        BY <2>1, <3>1, <3>2
    <2>3. after[c].session \in 1..n + 1 /\ after[c].op \in after[c].session..n + 1
      BY <2>1
    <2> QED
      BY <2>1, <2>2, <2>3
  <1>9. CASE c = p.client /\ p.kind # "register"
    <2>1. Known(table, c)
      BY <1>4, <1>9 DEF Known
    <2>2. /\ after[c].session = table[c].session /\ after[c].op = n + 1
          /\ after[c].request = p.request /\ table[c].request + 1 = p.request
      <3>1. after[c] = EntryOf(p, n + 1, table[c].session)
        BY <1>4, <1>9, <2>1
      <3>2. table[c].request + 1 = p.request
        BY <1>5, <1>9, <2>1 DEF TableAsserts
      <3> QED
        BY <3>1, <3>2 DEF EntryOf
    <2>3. ASSUME NEW o \in table[c].session..n + 1, Append(l, p)[o].client = c
          PROVE  Append(l, p)[o].request <= p.request
      <3>1. CASE o = n + 1
        <4>1. Append(l, p)[n + 1].request = p.request /\ p.request <= p.request
          BY <1>2, <1>3
        <4> QED
          BY <3>1, <4>1
      <3>2. CASE o # n + 1
        <4>1. o \in table[c].session..n /\ o \in 1..n
          BY <1>6, <2>1, <3>2
        <4>2. Append(l, p)[o] = l[o] /\ l[o].request <= table[c].request
          BY <1>2, <1>6, <2>1, <2>3, <4>1
        <4>3. l[o].request \in Nat
          <5>1. l[o] \in Op
            BY <1>1, <4>1, ElementOfSeq
          <5> QED
            BY <5>1 DEF Op
        <4> QED
          BY <1>6, <2>1, <2>2, <4>2, <4>3
      <3> QED
        BY <3>1, <3>2
    <2>4. table[c].session \in 1..n + 1 /\ n + 1 \in table[c].session..n + 1
      BY <1>6, <2>1
    <2> QED
      BY <2>2, <2>3, <2>4
  <1> QED
    BY <1>7, <1>8, <1>9

-----------------------------------------------------------------------------
(* Runs. *)

\* A run of a log is one of what the log begins with.
LEMMA RunPrefix ==
    ASSUME NEW l \in Seq(Op), NEW k \in Seq(Op), SameTo(l, k, Len(k)), NEW t, Run(l, t)
    PROVE  Run(k, t)
  <1>1. Len(k) \in Nat /\ Len(l) \in Nat /\ Len(k) <= Len(l) /\ \A o \in 1..Len(k) : k[o] = l[o]
    BY LenProperties DEF SameTo
  <1>2. \A i \in 1..Len(k) : t[i] = TableExecute(t[i - 1], k[i], i) /\ TableAsserts(t[i - 1], k[i], i)
    BY <1>1 DEF Run
  <1>3. ASSUME NEW i \in 0..Len(k) PROVE IsTable(t[i]) /\ Bounded(t[i]) /\ TableGood(t[i], k, i)
    <2>1. i \in 0..Len(l)
      BY <1>1
    <2>2. IsTable(t[i]) /\ Bounded(t[i]) /\ TableGood(t[i], l, i)
      BY <2>1 DEF Run
    <2>3. ASSUME NEW c \in Client, Known(t[i], c)
          PROVE  /\ t[i][c].session \in 1..i /\ t[i][c].op \in t[i][c].session..i
                 /\ \A o \in t[i][c].session..i : k[o].client = c => k[o].request <= t[i][c].request
      <3>1. /\ t[i][c].session \in 1..i /\ t[i][c].op \in t[i][c].session..i
            /\ \A o \in t[i][c].session..i : l[o].client = c => l[o].request <= t[i][c].request
        BY <2>2, <2>3 DEF TableGood
      <3>2. \A o \in t[i][c].session..i : k[o] = l[o]
        BY <1>1, <3>1
      <3> QED
        BY <3>1, <3>2
    <2> QED
      BY <2>2, <2>3 DEF TableGood
  <1>4. ASSUME NEW j \in 0..Len(k), NEW i \in 0..j, NEW c \in Client,
               \A o \in i + 1..j : k[o].client # c
        PROVE  t[j][c] \in {t[i][c], Absent}
    <2>1. j \in 0..Len(l) /\ \A o \in i + 1..j : l[o].client # c
      BY <1>1, <1>4
    <2> QED
      BY <2>1 DEF Run
  <1> QED
    BY <1>2, <1>3, <1>4 DEF Run

\* Two runs are the same as far as their logs are.
LEMMA RunsAgree ==
    ASSUME NEW l \in Seq(Op), NEW k \in Seq(Op), NEW n \in Nat, SameTo(l, k, n),
           NEW t, Run(l, t), NEW w, Run(k, w)
    PROVE  \A i \in 0..n : t[i] = w[i]
  <1> DEFINE S == {i \in 0..n : t[i] # w[i]}
  <1> SUFFICES ASSUME S # {} PROVE FALSE
    OBVIOUS
  <1>1. PICK i \in S : \A j \in S : i <= j
    <2>1. S \in SUBSET Nat
      OBVIOUS
    <2> HIDE DEF S
    <2> QED
      BY <2>1, LeastNatural
  <1>2. i \in 0..n /\ t[i] # w[i]
    OBVIOUS
  <1>3. i # 0
    BY <1>2 DEF Run
  <1>4. i - 1 \in 0..n /\ i \in 1..n /\ ~(i <= i - 1)
    BY <1>2, <1>3
  <1>5. t[i - 1] = w[i - 1]
    BY <1>1, <1>4
  <1>6. i \in 1..Len(l) /\ i \in 1..Len(k) /\ l[i] = k[i]
    <2>1. Len(l) \in Nat /\ Len(k) \in Nat
      BY LenProperties
    <2> QED
      BY <1>4, <2>1 DEF SameTo
  <1>7. t[i] = TableExecute(t[i - 1], l[i], i) /\ w[i] = TableExecute(w[i - 1], k[i], i)
    BY <1>6 DEF Run
  <1> QED
    BY <1>2, <1>5, <1>6, <1>7

\* A run goes on with an operation that its last table does not object to.
LEMMA RunAppend ==
    ASSUME NEW l \in Seq(Op), NEW p \in Op, NEW t, Run(l, t), TableAsserts(t[Len(l)], p, Len(l) + 1)
    PROVE  \E w : Run(Append(l, p), w) /\ \A i \in 0..Len(l) : w[i] = t[i]
  <1>1. PICK n \in Nat : n = Len(l)
    BY LenProperties
  <1>2. /\ Append(l, p) \in Seq(Op) /\ Len(Append(l, p)) = n + 1
        /\ \A o \in 1..n : Append(l, p)[o] = l[o]
        /\ Append(l, p)[n + 1] = p
    BY <1>1, AppendProperties
  <1> DEFINE k == Append(l, p)
             w == [i \in 0..n + 1 |-> IF i = n + 1 THEN TableExecute(t[n], p, n + 1) ELSE t[i]]
  <1>3. w[n + 1] = TableExecute(t[n], p, n + 1) /\ \A i \in 0..n : w[i] = t[i]
    OBVIOUS
  <1> HIDE DEF w, k
  <1>4. IsTable(t[n]) /\ Bounded(t[n]) /\ TableGood(t[n], l, n) /\ TableAsserts(t[n], p, n + 1)
    BY <1>1 DEF Run
  <1>5. w[0] = EmptyTable
    BY <1>3 DEF Run
  <1>6. ASSUME NEW i \in 1..n + 1
        PROVE  w[i] = TableExecute(w[i - 1], k[i], i) /\ TableAsserts(w[i - 1], k[i], i)
    <2>1. CASE i = n + 1
      <3>1. i - 1 = n /\ n \in 0..n /\ k[i] = p
        BY <1>2, <2>1 DEF k
      <3> QED
        BY <1>3, <1>4, <2>1, <3>1
    <2>2. CASE i # n + 1
      <3>1. i \in 1..n /\ i - 1 \in 0..n /\ i \in 0..n
        BY <2>2
      <3>2. w[i] = t[i] /\ w[i - 1] = t[i - 1] /\ k[i] = l[i]
        BY <1>2, <1>3, <3>1 DEF k
      <3>3. t[i] = TableExecute(t[i - 1], l[i], i) /\ TableAsserts(t[i - 1], l[i], i)
        BY <1>1, <3>1 DEF Run
      <3> QED
        BY <3>2, <3>3
    <2> QED
      BY <2>1, <2>2
  <1>7. n + 1 \in Nat \ {0}
    OBVIOUS
  <1>8. ASSUME NEW i \in 0..n + 1 PROVE IsTable(w[i]) /\ Bounded(w[i]) /\ TableGood(w[i], k, i)
    <2>1. CASE i = n + 1
      <3>1. IsTable(TableExecute(t[n], p, n + 1)) /\ Bounded(TableExecute(t[n], p, n + 1))
        BY <1>4, <1>7, TableFacts, TableBounded
      <3>2. TableGood(TableExecute(t[n], p, n + 1), k, n + 1)
        BY <1>1, <1>4, GoodGrows DEF k
      <3> QED
        BY <1>3, <2>1, <3>1, <3>2
    <2>2. CASE i # n + 1
      <3>1. i \in 0..n
        BY <2>2
      <3>2. w[i] = t[i] /\ IsTable(t[i]) /\ Bounded(t[i]) /\ TableGood(t[i], l, i)
        BY <1>1, <1>3, <3>1 DEF Run
      <3>3. ASSUME NEW c \in Client, Known(t[i], c)
            PROVE  /\ t[i][c].session \in 1..i /\ t[i][c].op \in t[i][c].session..i
                   /\ \A o \in t[i][c].session..i : k[o].client = c => k[o].request <= t[i][c].request
        <4>1. /\ t[i][c].session \in 1..i /\ t[i][c].op \in t[i][c].session..i
              /\ \A o \in t[i][c].session..i : l[o].client = c => l[o].request <= t[i][c].request
          BY <3>2, <3>3 DEF TableGood
        <4>2. \A o \in t[i][c].session..i : k[o] = l[o]
          BY <1>2, <3>1, <4>1 DEF k
        <4> QED
          BY <4>1, <4>2
      <3> QED
        BY <3>2, <3>3 DEF TableGood
    <2> QED
      BY <2>1, <2>2
  <1>9. ASSUME NEW j \in 0..n + 1, NEW i \in 0..j, NEW c \in Client,
               \A o \in i + 1..j : k[o].client # c
        PROVE  w[j][c] \in {w[i][c], Absent}
    <2>1. CASE j # n + 1
      <3>1. j \in 0..n /\ i \in 0..n /\ i \in 0..j
        BY <2>1
      <3>2. \A o \in i + 1..j : l[o].client # c
        BY <1>2, <1>9, <3>1 DEF k
      <3>3. t[j][c] \in {t[i][c], Absent}
        BY <1>1, <3>1, <3>2 DEF Run
      <3> QED
        BY <1>3, <3>1, <3>3
    <2>2. CASE j = n + 1 /\ i = n + 1
      BY <2>2
    <2>3. CASE j = n + 1 /\ i # n + 1
      <3>1. i \in 0..n /\ n \in 0..n /\ n + 1 \in i + 1..j
        BY <2>3
      <3>2. p.client # c
        BY <1>2, <1>9, <3>1 DEF k
      <3>3. \A o \in i + 1..n : l[o].client # c
        BY <1>2, <1>9, <2>3, <3>1 DEF k
      <3>4. t[n][c] \in {t[i][c], Absent}
        BY <1>1, <3>1, <3>3 DEF Run
      <3>5. TableExecute(t[n], p, n + 1)[c] \in {t[n][c], Absent}
        BY <1>4, <1>7, <3>2, TableFacts
      <3>6. w[j] = TableExecute(t[n], p, n + 1) /\ w[i] = t[i]
        BY <1>3, <2>3, <3>1
      <3> QED
        BY <3>4, <3>5, <3>6
    <2> QED
      BY <2>1, <2>2, <2>3
  <1>10. Run(k, w)
    <2>1. Len(k) = n + 1
      BY <1>2 DEF k
    <2> QED
      BY <1>5, <1>6, <1>8, <1>9, <2>1 DEF Run
  <1> QED
    BY <1>1, <1>3, <1>10 DEF k

-----------------------------------------------------------------------------
(* The steps keep the runs, the requests and that nothing is prepared twice. *)

\* A step that changes no replica's log, view or table.
LEMMA ReplicasUnchanged ==
    ASSUME LogInv, RunInv, PreparedOnce,
           UNCHANGED <<view, status, log_view, durable, log, commit_min, commit_max, sessions, acks>>
    PROVE  LogInv' /\ RunInv' /\ PreparedOnce'
  <1> USE DEF LogInv
  <1>1. TypeInv'
    BY DEF TypeInv
  <1>2. ViewsInv'
    BY DEF ViewsInv, Normal
  <1>3. OneLogPerView'
    BY DEF OneLogPerView
  <1>4. SafeLogs'
    BY DEF SafeLogs, Alive, MayAck, Keeps
  <1>5. CommitInv'
    BY DEF CommitInv, Decided, Ackers
  <1>6. RunInv'
    BY DEF RunInv
  <1>7. PreparedOnce'
    BY DEF PreparedOnce
  <1> QED
    BY <1>1, <1>2, <1>3, <1>4, <1>5, <1>6, <1>7

\* What is in a log is an operation of a client.
LEMMA OpClient ==
    ASSUME LogInv, NEW r \in Replica, NEW o \in DOMAIN log[r]
    PROVE  log[r][o] \in Op /\ log[r][o].client \in Client
  <1>1. log[r] \in Seq(Op)
    BY DEF LogInv, TypeInv
  <1>2. log[r][o] \in Op
    BY <1>1
  <1> QED
    BY <1>2 DEF Op

\* A client with one field changed.
LEMMA ClientExcept ==
    ASSUME NEW e, IsClient(e), NEW x
    PROVE  /\ LET n == [e EXCEPT !.inflight = x]
              IN  IsClient(n) /\ n.request_number = e.request_number /\ n.session = e.session
           /\ LET n == [e EXCEPT !.parent = x]
              IN  IsClient(n) /\ n.request_number = e.request_number /\ n.session = e.session
           /\ LET n == [e EXCEPT !.view = x]
              IN  IsClient(n) /\ n.request_number = e.request_number /\ n.session = e.session
           /\ LET n == [e EXCEPT !.evicted = x]
              IN  IsClient(n) /\ n.request_number = e.request_number /\ n.session = e.session
           /\ LET n == [e EXCEPT !.session = x]
              IN  IsClient(n) /\ n.request_number = e.request_number /\ n.session = x
           /\ x \in Nat => LET n == [e EXCEPT !.request_number = x]
              IN  IsClient(n) /\ n.request_number = x /\ n.session = e.session
  <1>1. LET n == [e EXCEPT !.inflight = x]
        IN  IsClient(n) /\ n.request_number = e.request_number /\ n.session = e.session
    BY DEF IsClient
  <1>2. LET n == [e EXCEPT !.parent = x]
        IN  IsClient(n) /\ n.request_number = e.request_number /\ n.session = e.session
    BY DEF IsClient
  <1>3. LET n == [e EXCEPT !.view = x]
        IN  IsClient(n) /\ n.request_number = e.request_number /\ n.session = e.session
    BY DEF IsClient
  <1>4. LET n == [e EXCEPT !.evicted = x]
        IN  IsClient(n) /\ n.request_number = e.request_number /\ n.session = e.session
    BY DEF IsClient
  <1>5. LET n == [e EXCEPT !.session = x]
        IN  IsClient(n) /\ n.request_number = e.request_number /\ n.session = x
    BY DEF IsClient
  <1>6. ASSUME x \in Nat
        PROVE  LET n == [e EXCEPT !.request_number = x]
               IN  IsClient(n) /\ n.request_number = x /\ n.session = e.session
    BY <1>6 DEF IsClient
  <1> QED
    BY <1>1, <1>2, <1>3, <1>4, <1>5, <1>6

\* A client's request has the session it has, from after it registered.
LEMMA SendKeeps ==
    ASSUME RequestsInv, LogInv, NEW c \in Client, NEW kind \in {"register", "read", "write"}, Send(c, kind),
           kind = "register" <=> client[c].request_number = 0, log' = log
    PROVE  RequestsInv'
  <1>1. /\ client = [d \in Client |-> client[d]] /\ \A d \in Client : IsClient(client[d])
        /\ client[c].request_number \in Nat
    BY DEF RequestsInv, IsClient
  <1>2. PICK flag : flag = TRUE
    OBVIOUS
  <1> DEFINE me == client[c]
             counted == [me EXCEPT !.request_number = me.request_number + 1]
             next == [counted EXCEPT !.inflight = flag]
             m == [client |-> c, request |-> me.request_number, session |-> me.session,
                   parent |-> me.parent, view |-> me.view, kind |-> kind]
  <1>3. /\ client' = [client EXCEPT ![c] = next] /\ requests' = requests \cup {m}
    BY <1>1, <1>2 DEF Send
  <1>4. /\ IsClient(next) /\ next.request_number = me.request_number + 1 /\ next.session = me.session
    <2>1. IsClient(counted) /\ counted.request_number = me.request_number + 1
          /\ counted.session = me.session
      <3> HIDE DEF me
      <3>1. IsClient(me) /\ me.request_number + 1 \in Nat
        BY <1>1 DEF me
      <3> QED
        BY <3>1, ClientExcept
    <2> HIDE DEF counted
    <2>2. /\ IsClient(next) /\ next.request_number = counted.request_number
          /\ next.session = counted.session
      BY <2>1, ClientExcept
    <2> HIDE DEF next, me
    <2> QED
      BY <2>1, <2>2
  <1>5. /\ client' = [d \in Client |-> client'[d]] /\ client'[c] = next
        /\ \A d \in Client \ {c} : client'[d] = client[d]
    BY <1>1, <1>3
  <1> HIDE DEF next
  <1>6. \A d \in Client : /\ client'[d].session = client[d].session
                          /\ client[d].request_number > 1 => client'[d].request_number > 1
                          /\ IsClient(client'[d])
    BY <1>1, <1>4, <1>5
  <1>7. ASSUME NEW n \in requests'
        PROVE  /\ n.client \in Client /\ n.request \in Nat /\ n.kind \in {"register", "read", "write"}
               /\ n.kind = "register" <=> n.request = 0
               /\ n.kind # "register" => /\ client'[n.client].request_number > 1
                                         /\ n.session = client'[n.client].session
    <2>1. CASE n \in requests
      BY <1>6, <2>1 DEF RequestsInv
    <2>2. CASE n = m
      <3>1. n.client = c /\ n.request = me.request_number /\ n.kind = kind /\ n.session = me.session
        BY <2>2
      <3>2. kind # "register" => client'[c].request_number > 1
        BY <1>1, <1>4, <1>5
      <3> QED
        BY <1>1, <1>6, <3>1, <3>2
    <2> QED
      BY <1>3, <2>1, <2>2
  <1>8. ASSUME NEW r \in Replica, NEW o \in DOMAIN log[r], log[r][o].kind # "register"
        PROVE  client'[log[r][o].client].request_number > 1 /\ client'[log[r][o].client].session < o
    <2>1. log[r][o].client \in Client
      BY OpClient
    <2>2. client[log[r][o].client].request_number > 1 /\ client[log[r][o].client].session < o
      BY <1>8 DEF RequestsInv
    <2> QED
      BY <1>6, <2>1, <2>2
  <1> QED
    BY <1>5, <1>6, <1>7, <1>8 DEF RequestsInv

\* A reply or an eviction: only a reply to the register gives a session, before any other request.
LEMMA ReceiveKeeps ==
    ASSUME RequestsInv, LogInv, NEW c \in Client, IsClient(client'[c]),
           client' = [client EXCEPT ![c] = client'[c]],
           client'[c].request_number = client[c].request_number,
           client[c].request_number > 1 => client'[c].session = client[c].session,
           requests' = requests, log' = log
    PROVE  RequestsInv'
  <1>1. client = [d \in Client |-> client[d]] /\ \A d \in Client : IsClient(client[d])
    BY DEF RequestsInv
  <1>2. /\ client' = [d \in Client |-> client'[d]] /\ \A d \in Client \ {c} : client'[d] = client[d]
    BY <1>1
  <1>3. \A d \in Client : /\ IsClient(client'[d])
                          /\ client'[d].request_number = client[d].request_number
                          /\ client[d].request_number > 1 => client'[d].session = client[d].session
    BY <1>1, <1>2
  <1>4. ASSUME NEW r \in Replica, NEW o \in DOMAIN log[r], log[r][o].kind # "register"
        PROVE  /\ client'[log[r][o].client].request_number > 1
               /\ client'[log[r][o].client].session < o
    <2>1. log[r][o].client \in Client
      BY OpClient
    <2>2. client[log[r][o].client].request_number > 1 /\ client[log[r][o].client].session < o
      BY <1>4 DEF RequestsInv
    <2> QED
      BY <1>3, <2>1, <2>2
  <1> QED
    BY <1>2, <1>3, <1>4 DEF RequestsInv

\* A reply does not change who has a session but for the register that it answers.
LEMMA OnReplyKeeps ==
    ASSUME RequestsInv, LogInv, NEW c \in Client, NEW m \in replies, OnReply(c, m), log' = log
    PROVE  RequestsInv'
  <1>1. /\ client = [d \in Client |-> client[d]] /\ IsClient(client[c])
        /\ client[c].request_number \in Nat
    BY DEF RequestsInv, IsClient
  <1>2. PICK flag : flag = FALSE
    OBVIOUS
  <1>3. PICK parent : parent = m.context
    OBVIOUS
  <1>4. PICK seen : seen = Max({client[c].view, m.view})
    OBVIOUS
  <1>5. PICK session : session = IF client[c].request_number = 1 THEN m.op ELSE client[c].session
    OBVIOUS
  <1> DEFINE idle == [client[c] EXCEPT !.inflight = flag]
             proved == [idle EXCEPT !.parent = parent]
             viewed == [proved EXCEPT !.view = seen]
             next == [viewed EXCEPT !.session = session]
  <1>6. client' = [client EXCEPT ![c] = next] /\ requests' = requests
    BY <1>1, <1>2, <1>3, <1>4, <1>5 DEF OnReply
  <1>7. /\ IsClient(next) /\ next.request_number = client[c].request_number /\ next.session = session
    <2>1. IsClient(idle) /\ idle.request_number = client[c].request_number
      BY <1>1, ClientExcept
    <2> HIDE DEF idle
    <2>2. IsClient(proved) /\ proved.request_number = idle.request_number
      BY <2>1, ClientExcept
    <2> HIDE DEF proved
    <2>3. IsClient(viewed) /\ viewed.request_number = proved.request_number
      BY <2>2, ClientExcept
    <2> HIDE DEF viewed
    <2>4. /\ IsClient(next) /\ next.request_number = viewed.request_number
          /\ next.session = session
      BY <2>3, ClientExcept
    <2> HIDE DEF next
    <2> QED
      BY <2>1, <2>2, <2>3, <2>4
  <1> HIDE DEF next
  <1>8. client'[c] = next
    BY <1>1, <1>6
  <1>9. client[c].request_number > 1 => client'[c].session = client[c].session
    BY <1>5, <1>7, <1>8
  <1> QED
    BY <1>6, <1>7, <1>8, <1>9, ReceiveKeeps

\* An eviction does not give a client another session.
LEMMA OnEvictionKeeps ==
    ASSUME RequestsInv, LogInv, NEW c \in Client, NEW m \in evictions, OnEviction(c, m), log' = log
    PROVE  RequestsInv'
  <1>1. /\ client = [d \in Client |-> client[d]] /\ IsClient(client[c])
    BY DEF RequestsInv
  <1>2. PICK flag : flag = TRUE
    OBVIOUS
  <1> DEFINE next == [client[c] EXCEPT !.evicted = flag]
  <1>3. client' = [client EXCEPT ![c] = next] /\ requests' = requests
    BY <1>1, <1>2 DEF OnEviction
  <1>4. IsClient(next) /\ next.request_number = client[c].request_number
        /\ next.session = client[c].session
    BY <1>1 DEF IsClient
  <1> HIDE DEF next
  <1>5. client'[c] = next
    BY <1>1, <1>3
  <1> QED
    BY <1>3, <1>4, <1>5, ReceiveKeeps

\* No step of a client disturbs the invariant.
LEMMA ClientStepKeeps ==
    ASSUME IInv, ClientStep, UNCHANGED replicaVars
    PROVE  IInv'
  <1>1. UNCHANGED <<view, status, log_view, durable, log, commit_min, commit_max, sessions, acks>>
    BY DEF replicaVars, viewVars
  <1>2. LogInv' /\ RunInv' /\ PreparedOnce'
    BY <1>1, ReplicasUnchanged DEF IInv
  <1>3. PICK c \in Client : \/ Register(c) \/ Request(c)
                            \/ \E m \in replies : OnReply(c, m)
                            \/ \E m \in evictions : OnEviction(c, m)
    BY DEF ClientStep
  <1>4. client[c].request_number \in Nat
    BY DEF IInv, RequestsInv, IsClient
  <1>5. CASE Register(c)
    <2>1. Send(c, "register") /\ client[c].request_number = 0
      BY <1>5 DEF Register
    <2>2. RequestsInv'
      BY <1>1, <2>1, SendKeeps DEF IInv
    <2> QED
      BY <1>2, <2>2 DEF IInv
  <1>6. CASE Request(c)
    <2>1. PICK kind \in Kinds : Send(c, kind) /\ client[c].request_number \in 1..RequestMax
      BY <1>6 DEF Request
    <2>2. kind \in {"read", "write"} /\ client[c].request_number # 0
      BY <1>4, <2>1, ClientsAssumption
    <2>3. kind \in {"register", "read", "write"} /\ kind # "register"
      BY <2>2
    <2>4. RequestsInv'
      BY <1>1, <2>1, <2>2, <2>3, SendKeeps DEF IInv
    <2> QED
      BY <1>2, <2>4 DEF IInv
  <1>7. CASE \E m \in replies : OnReply(c, m)
    <2>1. RequestsInv'
      BY <1>1, <1>7, OnReplyKeeps DEF IInv
    <2> QED
      BY <1>2, <2>1 DEF IInv
  <1>8. CASE \E m \in evictions : OnEviction(c, m)
    <2>1. RequestsInv'
      BY <1>1, <1>8, OnEvictionKeeps DEF IInv
    <2> QED
      BY <1>2, <2>1 DEF IInv
  <1> QED
    BY <1>3, <1>5, <1>6, <1>7, <1>8

\* A replica gets another's log, or a beginning of it, that agrees with its own on what it executed.
LEMMA TransferKeeps ==
    ASSUME LogInv, LogInv', RunInv, RequestsInv, PreparedOnce,
           NEW x \in Replica, \A r \in Replica \ {x} : log'[r] = log[r],
           SameTo(log[x], log'[x], commit_max[x]),
           NEW y \in Replica, SameTo(log[y], log'[x], Len(log'[x])),
           UNCHANGED <<commit_min, sessions, client, requests>>
    PROVE  RunInv' /\ RequestsInv' /\ PreparedOnce'
  <1>1. /\ \A r \in Replica : log[r] \in Seq(Op) /\ log'[r] \in Seq(Op)
        /\ commit_min[x] \in Nat /\ commit_max[x] \in Nat /\ commit_min[x] <= commit_max[x]
    BY DEF LogInv, TypeInv, CommitInv
  <1>2. \A r \in Replica : DOMAIN log[r] = 1..Len(log[r]) /\ DOMAIN log'[r] = 1..Len(log'[r])
                           /\ Len(log[r]) \in Nat /\ Len(log'[r]) \in Nat
    BY <1>1, LenProperties
  <1>3. \A o \in DOMAIN log'[x] : o \in DOMAIN log[y] /\ log'[x][o] = log[y][o]
    BY <1>2 DEF SameTo
  <1>4. RunInv'
    <2> SUFFICES ASSUME NEW r \in Replica
                 PROVE  \E t : Run(log'[r], t) /\ t[commit_min'[r]] = sessions'[r]
      BY DEF RunInv
    <2>1. CASE r # x
      BY <2>1 DEF RunInv
    <2>2. CASE r = x
      <3>1. PICK t : Run(log[x], t) /\ t[commit_min[x]] = sessions[x]
        BY DEF RunInv
      <3>2. PICK w : Run(log[y], w)
        BY DEF RunInv
      <3>3. Run(log'[x], w)
        BY <1>1, <3>2, RunPrefix
      <3>4. \A i \in 0..commit_max[x] : t[i] = w[i]
        BY <1>1, <3>1, <3>3, RunsAgree
      <3>5. w[commit_min[x]] = sessions[x]
        BY <1>1, <3>1, <3>4
      <3> QED
        BY <2>2, <3>3, <3>5
    <2> QED
      BY <2>1, <2>2
  <1>5. PreparedOnce'
    <2> SUFFICES ASSUME NEW r \in Replica, NEW i \in DOMAIN log'[r], NEW j \in DOMAIN log'[r], i < j,
                        log'[r][i].client = log'[r][j].client, log'[r][i].request = log'[r][j].request
                 PROVE  log'[r][i].kind = "register"
      BY DEF PreparedOnce
    <2>1. CASE r # x
      BY <2>1 DEF PreparedOnce
    <2>2. CASE r = x
      <3>1. /\ i \in DOMAIN log[y] /\ j \in DOMAIN log[y]
            /\ log'[r][i] = log[y][i] /\ log'[r][j] = log[y][j]
        BY <1>3, <2>2
      <3> QED
        BY <3>1 DEF PreparedOnce
    <2> QED
      BY <2>1, <2>2
  <1>6. ASSUME NEW r \in Replica, NEW o \in DOMAIN log'[r], log'[r][o].kind # "register"
        PROVE  client[log'[r][o].client].request_number > 1 /\ client[log'[r][o].client].session < o
    <2>1. CASE r # x
      BY <1>6, <2>1 DEF RequestsInv
    <2>2. CASE r = x
      <3>1. o \in DOMAIN log[y] /\ log'[r][o] = log[y][o]
        BY <1>3, <2>2
      <3> QED
        BY <1>6, <3>1 DEF RequestsInv
    <2> QED
      BY <2>1, <2>2
  <1>7. RequestsInv'
    BY <1>6 DEF RequestsInv
  <1> QED
    BY <1>4, <1>5, <1>7

\* A prepare keeps the invariant: the request is in no operation of the log yet.
LEMMA PrepareKeeps ==
    ASSUME IInv, NEW r \in Replica, NEW m \in requests, OnRequestPrepare(r, m)
    PROVE  IInv'
  <1> DEFINE p == OpOf(r, m)
             l == log[r]
             c == m.client
  <1>1. /\ LogInv' /\ p \in Op /\ log' = [log EXCEPT ![r] = Append(l, p)]
    BY PrepareLog DEF IInv
  <1>2. PICK n \in Nat : n = Len(l)
    <2>1. log[r] \in Seq(Op)
      BY DEF IInv, LogInv, TypeInv
    <2> QED
      BY <2>1, LenProperties
  <1>3. /\ log \in [Replica -> Seq(Op)] /\ l \in Seq(Op)
        /\ log'[r] = Append(l, p) /\ \A q \in Replica \ {r} : log'[q] = log[q]
    BY <1>1 DEF IInv, LogInv, TypeInv
  <1>4. /\ Len(Append(l, p)) = n + 1 /\ DOMAIN Append(l, p) = 1..n + 1 /\ DOMAIN l = 1..n
        /\ \A o \in 1..n : Append(l, p)[o] = l[o]
        /\ Append(l, p)[n + 1] = p
    <2>1. Append(l, p) \in Seq(Op)
      BY <1>1, <1>3, AppendProperties
    <2> HIDE DEF l, p
    <2> QED
      BY <1>1, <1>2, <1>3, <2>1, AppendProperties, LenProperties
  <1>5. /\ p.client = c /\ p.request = m.request /\ p.kind = m.kind
        /\ c \in Client /\ m.request \in Nat /\ (m.kind = "register" <=> m.request = 0)
        /\ m.kind # "register" => client[c].request_number > 1 /\ m.session = client[c].session
    BY DEF OpOf, IInv, RequestsInv
  <1>6. /\ IsNew(sessions[r], m) /\ \A o \in commit_min[r] + 1..n : l[o].client # c
        /\ UNCHANGED <<commit_min, sessions, client, requests>>
    BY <1>2 DEF OnRequestPrepare, Preparing, clientVars
  <1>7. PICK t : Run(l, t) /\ t[commit_min[r]] = sessions[r]
    BY DEF IInv, RunInv
  <1>8. commit_min[r] \in 0..n
    <2>1. /\ commit_min[r] \in Nat /\ commit_max[r] \in Nat
          /\ commit_min[r] <= commit_max[r] /\ commit_max[r] <= n
      BY <1>2 DEF IInv, LogInv, TypeInv, CommitInv
    <2> QED
      BY <2>1
  <1> HIDE DEF p, l, c
  <1>9. /\ IsTable(sessions[r]) /\ TableGood(sessions[r], l, commit_min[r])
        /\ TableGood(t[n], l, n) /\ t[n][c] \in {sessions[r][c], Absent}
        /\ sessions[r][c].request \in Nat /\ sessions[r][c].session \in Nat
    <2>1. IsTable(t[commit_min[r]]) /\ TableGood(t[commit_min[r]], l, commit_min[r])
      BY <1>2, <1>7, <1>8 DEF Run
    <2>2. TableGood(t[n], l, n) /\ t[n][c] \in {t[commit_min[r]][c], Absent}
      <3>1. n \in 0..Len(l) /\ commit_min[r] \in 0..n
        BY <1>2, <1>8
      <3> QED
        BY <1>5, <1>6, <1>7, <3>1 DEF Run
    <2>3. IsEntry(sessions[r][c])
      BY <1>5, <1>7, <2>1 DEF IsTable
    <2> QED
      BY <1>7, <2>1, <2>2, <2>3 DEF IsEntry
  \* the table before the operation, of a client that is not new to it
  <1>10. m.kind = "register" => ~Known(sessions[r], c)
    BY <1>5, <1>6, <1>9 DEF IsNew, c
  <1>11. m.kind # "register" => /\ Known(sessions[r], c) /\ sessions[r][c].session = m.session
                                /\ sessions[r][c].request + 1 = m.request
    BY <1>6 DEF IsNew, SameSession, c
  <1>12. TableAsserts(t[n], p, n + 1)
    <2>1. CASE m.kind = "register"
      <3>1. ~Known(t[n], c)
        BY <1>9, <1>10, <2>1 DEF Known, Absent
      <3> QED
        BY <1>5, <2>1, <3>1 DEF TableAsserts
    <2>2. CASE m.kind # "register"
      <3>1. ASSUME Known(t[n], c)
            PROVE  t[n][c].request + 1 = m.request /\ t[n][c].op < n + 1
        <4>1. t[n][c] = sessions[r][c]
          BY <1>9, <3>1 DEF Known, Absent
        <4>2. t[n][c].op \in t[n][c].session..n /\ t[n][c].session \in 1..n
          BY <1>5, <1>9, <3>1 DEF TableGood
        <4> QED
          BY <1>11, <2>2, <4>1, <4>2
      <3> QED
        BY <1>5, <2>2, <3>1 DEF TableAsserts
    <2> QED
      BY <2>1, <2>2
  <1>13. RunInv'
    <2>1. PICK w : Run(Append(l, p), w) /\ \A i \in 0..Len(l) : w[i] = t[i]
      <3>1. TableAsserts(t[Len(l)], p, Len(l) + 1)
        BY <1>2, <1>12
      <3> QED
        <4>1. l \in Seq(Op) /\ p \in Op /\ Run(l, t)
          BY <1>1, <1>3, <1>7
        <4> QED
          BY <3>1, <4>1, RunAppend
    <2>2. w[commit_min[r]] = sessions[r]
      BY <1>2, <1>7, <1>8, <2>1
    <2> SUFFICES ASSUME NEW q \in Replica
                 PROVE  \E z : Run(log'[q], z) /\ z[commit_min'[q]] = sessions'[q]
      BY DEF RunInv
    <2>3. CASE q = r
      BY <1>3, <1>6, <2>1, <2>2, <2>3
    <2>4. CASE q # r
      BY <1>3, <1>6, <2>4 DEF IInv, RunInv
    <2> QED
      BY <2>3, <2>4
  \* the session of the client is in the part of the log that has executed
  <1>14. m.kind # "register" =>
            /\ client[c].session = sessions[r][c].session /\ sessions[r][c].session \in 1..commit_min[r]
            /\ \A o \in sessions[r][c].session..commit_min[r] :
                    l[o].client = c => l[o].request < m.request
    <2> SUFFICES ASSUME m.kind # "register"
                 PROVE  /\ client[c].session = sessions[r][c].session
                        /\ sessions[r][c].session \in 1..commit_min[r]
                        /\ \A o \in sessions[r][c].session..commit_min[r] :
                                l[o].client = c => l[o].request < m.request
      OBVIOUS
    <2>1. /\ sessions[r][c].session \in 1..commit_min[r]
          /\ \A o \in sessions[r][c].session..commit_min[r] :
                    l[o].client = c => l[o].request <= sessions[r][c].request
      BY <1>5, <1>9, <1>11 DEF TableGood
    <2>2. client[c].session = sessions[r][c].session /\ sessions[r][c].request + 1 = m.request
      BY <1>5, <1>11
    <2>3. ASSUME NEW o \in sessions[r][c].session..commit_min[r], l[o].client = c
          PROVE  l[o].request < m.request
      <3>1. l[o].request <= sessions[r][c].request
        BY <2>1, <2>3
      <3>2. o \in 1..n
        BY <1>8, <2>1
      <3>3. l[o] \in Op
        BY <1>2, <1>3, <3>2, ElementOfSeq
      <3>4. l[o].request \in Nat
        BY <3>3 DEF Op
      <3> QED
        BY <1>5, <1>9, <2>2, <3>1, <3>4
    <2> QED
      BY <2>1, <2>2, <2>3
  <1>15. RequestsInv'
    <2>1. ASSUME NEW q \in Replica, NEW o \in DOMAIN log'[q], log'[q][o].kind # "register"
          PROVE  client[log'[q][o].client].request_number > 1 /\ client[log'[q][o].client].session < o
      <3>1. CASE q # r
        BY <1>3, <2>1, <3>1 DEF IInv, RequestsInv
      <3>2. CASE q = r /\ o # n + 1
        <4>1. o \in 1..n /\ o \in DOMAIN l
          BY <1>3, <1>4, <3>2
        <4>2. log'[q][o] = l[o]
          BY <1>3, <1>4, <3>2, <4>1
        <4> QED
          BY <2>1, <4>1, <4>2 DEF IInv, RequestsInv, l
      <3>3. CASE q = r /\ o = n + 1
        <4>1. log'[q][o] = p
          BY <1>3, <1>4, <3>3
        <4>2. m.kind # "register"
          BY <1>5, <2>1, <4>1
        <4>3. client[c].request_number > 1 /\ client[c].session \in 1..commit_min[r]
          BY <1>5, <1>14, <4>2
        <4>4. client[c].session < o
          BY <1>8, <3>3, <4>3
        <4> QED
          BY <1>5, <4>1, <4>3, <4>4
      <3> QED
        BY <3>1, <3>2, <3>3
    <2> QED
      BY <1>6, <2>1 DEF IInv, RequestsInv
  <1>16. PreparedOnce'
    <2> SUFFICES ASSUME NEW q \in Replica, NEW i \in DOMAIN log'[q], NEW j \in DOMAIN log'[q], i < j,
                        log'[q][i].client = log'[q][j].client, log'[q][i].request = log'[q][j].request
                 PROVE  log'[q][i].kind = "register"
      BY DEF PreparedOnce
    <2>1. CASE q # r
      BY <1>3, <2>1 DEF IInv, PreparedOnce
    <2>2. CASE q = r /\ j # n + 1
      <3>1. i \in 1..n /\ j \in 1..n
        BY <1>3, <1>4, <2>2
      <3>2. i \in DOMAIN l /\ j \in DOMAIN l /\ log'[q][i] = l[i] /\ log'[q][j] = l[j]
        BY <1>3, <1>4, <2>2, <3>1
      <3> QED
        BY <3>2 DEF IInv, PreparedOnce, l
    <2>3. CASE q = r /\ j = n + 1
      <3>1. i \in 1..n /\ i \in DOMAIN l
        BY <1>3, <1>4, <2>3
      <3>2. log'[q][i] = l[i] /\ log'[q][j] = p
        BY <1>3, <1>4, <2>3, <3>1
      <3>3. l[i].client = c /\ l[i].request = m.request
        BY <1>5, <3>2
      <3>4. l[i] \in Op
        BY <1>2, <1>3, <3>1, ElementOfSeq
      <3> SUFFICES ASSUME l[i].kind # "register" PROVE FALSE
        BY <3>2
      <3>5. m.kind # "register"
        BY <1>5, <3>3, <3>4 DEF Op
      <3>6. client[c].session < i
        <4>1. client[l[i].client].session < i
          BY <3>1 DEF IInv, RequestsInv, l
        <4> QED
          BY <3>3, <4>1
      <3>7. i <= commit_min[r]
        <4> SUFFICES ASSUME ~(i <= commit_min[r]) PROVE FALSE
          OBVIOUS
        <4>1. i \in commit_min[r] + 1..n
          BY <1>8, <3>1
        <4> QED
          BY <1>6, <3>3, <4>1
      <3>8. i \in sessions[r][c].session..commit_min[r]
        BY <1>8, <1>14, <3>1, <3>5, <3>6, <3>7
      <3>9. l[i].request < m.request
        BY <1>14, <3>3, <3>5, <3>8
      <3> QED
        BY <1>5, <3>3, <3>9
    <2> QED
      BY <2>1, <2>2, <2>3
  <1> QED
    BY <1>1, <1>13, <1>15, <1>16 DEF IInv

\* Execution is the next table of the run.
LEMMA ExecuteKeeps ==
    ASSUME IInv, NEW r \in Replica, CommitPipeline(r) \/ CommitJournal(r)
    PROVE  IInv'
  <1>1. LogInv' /\ Execute(r) /\ commit_min[r] < Len(log[r])
    BY CommitLog DEF IInv
  <1>2. /\ log' = log /\ client' = client /\ requests' = requests
        /\ commit_min' = [commit_min EXCEPT ![r] = commit_min[r] + 1]
        /\ sessions' = [sessions EXCEPT
                ![r] = TableExecute(sessions[r], log[r][commit_min[r] + 1], commit_min[r] + 1)]
    BY <1>1 DEF Execute
  <1>3. /\ commit_min \in [Replica -> Nat] /\ sessions = [q \in Replica |-> sessions[q]]
        /\ Len(log[r]) \in Nat
    <2>1. log[r] \in Seq(Op)
      BY DEF IInv, LogInv, TypeInv
    <2> QED
      BY <2>1, LenProperties DEF IInv, LogInv, TypeInv
  <1>4. /\ commit_min'[r] = commit_min[r] + 1
        /\ sessions'[r] = TableExecute(sessions[r], log[r][commit_min[r] + 1], commit_min[r] + 1)
        /\ \A q \in Replica \ {r} : commit_min'[q] = commit_min[q] /\ sessions'[q] = sessions[q]
    BY <1>2, <1>3
  <1>5. RunInv'
    <2> SUFFICES ASSUME NEW q \in Replica
                 PROVE  \E t : Run(log'[q], t) /\ t[commit_min'[q]] = sessions'[q]
      BY DEF RunInv
    <2>1. CASE q # r
      BY <1>2, <1>4, <2>1 DEF IInv, RunInv
    <2>2. CASE q = r
      <3>1. PICK t : Run(log[r], t) /\ t[commit_min[r]] = sessions[r]
        BY DEF IInv, RunInv
      <3>2. commit_min[r] + 1 \in 1..Len(log[r]) /\ (commit_min[r] + 1) - 1 = commit_min[r]
        BY <1>1, <1>3
      <3>3. t[commit_min[r] + 1]
              = TableExecute(t[commit_min[r]], log[r][commit_min[r] + 1], commit_min[r] + 1)
        BY <3>1, <3>2 DEF Run
      <3> QED
        BY <1>2, <1>4, <2>2, <3>1, <3>3
    <2> QED
      BY <2>1, <2>2
  <1>6. RequestsInv' /\ PreparedOnce'
    BY <1>2 DEF IInv, RequestsInv, PreparedOnce
  <1> QED
    BY <1>1, <1>5, <1>6 DEF IInv

\* Follow keeps the invariant.
LEMMA FollowKeeps ==
    ASSUME IInv, NEW b \in Replica, NEW p \in Replica, Follow(b, p)
    PROVE  IInv'
  <1>1. LogInv' /\ SameTo(log[b], log'[b], commit_max[b])
    BY FollowLog DEF IInv
  <1>2. /\ log' = [log EXCEPT ![b] = log[p]] /\ UNCHANGED <<commit_min, sessions, client, requests>>
    BY DEF Follow, clientVars
  <1>3. log'[b] = log[p] /\ (\A r \in Replica \ {b} : log'[r] = log[r]) /\ Len(log[p]) \in Nat
    <2>1. log \in [Replica -> Seq(Op)]
      BY DEF IInv, LogInv, TypeInv
    <2> QED
      BY <1>2, <2>1, LenProperties
  <1>4. SameTo(log[p], log'[b], Len(log'[b]))
    BY <1>3 DEF SameTo
  <1>5. RunInv' /\ RequestsInv' /\ PreparedOnce'
    BY <1>1, <1>2, <1>3, <1>4, TransferKeeps DEF IInv
  <1> QED
    BY <1>1, <1>5 DEF IInv

\* A view change keeps the invariant.
LEMMA ViewChangeKeeps ==
    ASSUME IInv, NEW v \in View, NEW Q \in kSubset(QuorumViewChange, Replica), ViewChange(v, Q)
    PROVE  IInv'
  <1>1. Q \in SUBSET Replica /\ Cardinality(Q) = QuorumViewChange
    BY DEF kSubset
  <1>2. PICK p : p = Primary(v)
    OBVIOUS
  <1>3. /\ LogInv' /\ p \in Replica /\ SameTo(log[p], log'[p], commit_max[p])
        /\ \E y \in Replica : SameTo(log[y], log'[p], Len(log'[p]))
    BY <1>1, <1>2, ViewChangeLog DEF IInv
  <1>4. /\ log' = [log EXCEPT ![p] = LogOf(Q)] /\ UNCHANGED <<commit_min, sessions, client, requests>>
    BY <1>2 DEF ViewChange, clientVars
  <1>5. \A r \in Replica \ {p} : log'[r] = log[r]
    <2>1. log \in [Replica -> Seq(Op)]
      BY DEF IInv, LogInv, TypeInv
    <2> QED
      BY <1>4, <2>1
  <1>6. RunInv' /\ RequestsInv' /\ PreparedOnce'
    BY <1>3, <1>4, <1>5, TransferKeeps DEF IInv
  <1> QED
    BY <1>3, <1>6 DEF IInv

\* Steps that leave the clients, the logs and the tables alone.
LEMMA OthersKeep ==
    ASSUME IInv, LogInv', UNCHANGED <<log, commit_min, sessions, client, requests>>
    PROVE  IInv'
  <1>1. RunInv' /\ PreparedOnce' /\ RequestsInv'
    BY DEF IInv, RunInv, PreparedOnce, RequestsInv
  <1> QED
    BY <1>1 DEF IInv

-----------------------------------------------------------------------------

\* The invariant holds of the empty cluster.
LEMMA InitHolds == Init => IInv
  <1> SUFFICES ASSUME Init PROVE IInv
    OBVIOUS
  <1>1. /\ ReplicaCount \in Nat \ {0} /\ ViewMax \in Nat /\ OpMax \in Nat
        /\ QuorumReplication \in Nat \ {0}
    BY ClusterAssumption
  <1>2. /\ view = [r \in Replica |-> 0] /\ status = [r \in Replica |-> "normal"]
        /\ log_view = [r \in Replica |-> 0] /\ durable = [r \in Replica |-> 0]
        /\ log = [r \in Replica |-> <<>>] /\ commit_min = [r \in Replica |-> 0]
        /\ commit_max = [r \in Replica |-> 0] /\ sessions = [r \in Replica |-> EmptyTable]
        /\ acks = [v \in View |-> [r \in Replica |-> 0]] /\ requests = {}
        /\ client = [c \in Client |-> [request_number |-> 0, inflight |-> FALSE, session |-> 0,
                                       parent |-> None, view |-> 0, evicted |-> FALSE]]
    BY DEF Init, ClientInit
  <1>3. 0 \in View /\ Primary(0) \in Replica /\ \A v \in View : v \in Nat /\ Primary(v) \in Replica
    BY <1>1, PrimaryIsReplica DEF View
  <1>4. /\ <<>> \in Seq(Op) /\ Len(<<>>) = 0
    OBVIOUS
  <1>5. \A r \in Replica : Len(log[r]) = 0 /\ log[r] = <<>>
    BY <1>2, <1>4
  <1>6. TypeInv
    <2>1. \A r \in Replica : Len(log[r]) <= OpMax
      BY <1>1, <1>5
    <2> QED
      BY <1>2, <1>3, <1>4, <2>1 DEF TypeInv
  <1>7. ViewsInv
    <2>1. \A v \in View, r \in Replica : acks[v][r] = 0
      BY <1>2
    <2>2. \A r \in Replica : log_view[r] = 0 /\ view[r] = 0 /\ durable[r] = 0
      BY <1>2
    <2>3. \A v \in View : ~(v < 0)
      BY <1>3
    <2> QED
      BY <1>3, <1>5, <2>1, <2>2, <2>3 DEF ViewsInv, Normal
  <1>8. OneLogPerView
    BY <1>5 DEF OneLogPerView, SameTo
  <1>9. SafeLogs
    <2>1. \A v \in View, r \in Replica : acks[v][r] = 0
      BY <1>2
    <2> QED
      BY <2>1 DEF SafeLogs
  <1>10. CommitInv
    BY <1>2, <1>5 DEF CommitInv
  <1>11. RunInv
    <2> DEFINE t == [i \in {0} |-> EmptyTable]
    <2>1. t[0] = EmptyTable
      OBVIOUS
    <2> HIDE DEF t
    <2>2. IsTable(EmptyTable) /\ \A c \in Client : ~Known(EmptyTable, c)
      BY DEF IsTable, IsEntry, EmptyTable, Absent, Known
    <2>3. Bounded(EmptyTable)
      <3>1. Sessions(EmptyTable) = {}
        BY <2>2 DEF Sessions
      <3>2. Cardinality(Sessions(EmptyTable)) = 0
        BY <3>1, FS_EmptySet
      <3> QED
        BY <3>2, ClientsAssumption DEF Bounded
    <2>4. TableGood(EmptyTable, <<>>, 0)
      BY <2>2 DEF TableGood
    <2>5. /\ \A i \in 0..0 : i = 0
          /\ 1..0 = {}
      OBVIOUS
    <2>6. ASSUME NEW j \in 0..0, NEW i \in 0..j, NEW c \in Client PROVE t[j][c] \in {t[i][c], Absent}
      <3>1. j = 0 /\ i = 0
        OBVIOUS
      <3> QED
        BY <3>1
    <2>7. Run(<<>>, t)
      BY <1>4, <2>1, <2>2, <2>3, <2>4, <2>5, <2>6 DEF Run
    <2> QED
      BY <1>2, <1>5, <2>1, <2>7 DEF RunInv
  <1>12. RequestsInv
    <2>1. PICK flag : flag = FALSE
      OBVIOUS
    <2> DEFINE e == [request_number |-> 0, inflight |-> flag, session |-> 0,
                     parent |-> None, view |-> 0, evicted |-> flag]
    <2>2. client = [c \in Client |-> e]
      BY <1>2, <2>1
    <2>3. IsClient(e)
      BY DEF IsClient
    <2> HIDE DEF e
    <2>4. client = [c \in Client |-> client[c]] /\ \A c \in Client : IsClient(client[c])
      BY <2>2, <2>3
    <2>5. \A r \in Replica : DOMAIN log[r] = {}
      BY <1>5
    <2> QED
      BY <1>2, <2>4, <2>5 DEF RequestsInv
  <1>13. PreparedOnce
    <2>1. \A r \in Replica : DOMAIN log[r] = {}
      BY <1>5
    <2> QED
      BY <2>1 DEF PreparedOnce
  <1> QED
    BY <1>6, <1>7, <1>8, <1>9, <1>10, <1>11, <1>12, <1>13 DEF IInv, LogInv

\* Every step keeps the invariant.
LEMMA NextKeeps == IInv /\ [Next]_vars => IInv'
  <1> SUFFICES ASSUME IInv, [Next]_vars PROVE IInv'
    OBVIOUS
  <1>1. CASE UNCHANGED vars
    <2>1. UNCHANGED <<view, status, log_view, durable, log, commit_min, commit_max, sessions, acks,
                      client, requests>>
      BY <1>1 DEF vars, clientVars, replicaVars, viewVars
    <2>2. LogInv'
      BY <2>1, ReplicasUnchanged DEF IInv
    <2> QED
      BY <2>1, <2>2, OthersKeep
  <1>2. CASE ClientStep /\ UNCHANGED replicaVars
    BY <1>2, ClientStepKeeps
  <1>3. ASSUME NEW r \in Replica, NEW m \in requests, OnRequestEvict(r, m) \/ OnRequestRepeat(r, m)
        PROVE  IInv'
    <2>1. UNCHANGED <<view, status, log_view, durable, log, commit_min, commit_max, sessions, acks,
                      client, requests>>
      BY <1>3 DEF OnRequestEvict, OnRequestRepeat, replicaVars, viewVars
    <2>2. LogInv'
      BY <2>1, ReplicasUnchanged DEF IInv
    <2> QED
      BY <2>1, <2>2, OthersKeep
  <1>4. ASSUME NEW r \in Replica, NEW m \in requests, OnRequestPrepare(r, m) PROVE IInv'
    BY <1>4, PrepareKeeps
  <1>5. ASSUME NEW r \in Replica, CommitPipeline(r) \/ CommitJournal(r) PROVE IInv'
    BY <1>5, ExecuteKeeps
  <1>6. ASSUME NEW r \in Replica, StartView(r) PROVE IInv'
    <2>1. LogInv'
      BY <1>6, StartViewLog DEF IInv
    <2> QED
      BY <1>6, <2>1, OthersKeep DEF StartView, clientVars
  <1>7. ASSUME NEW r \in Replica, ViewDurableUpdate(r) PROVE IInv'
    <2>1. LogInv'
      BY <1>7, ViewDurableUpdateLog DEF IInv
    <2> QED
      BY <1>7, <2>1, OthersKeep DEF ViewDurableUpdate, clientVars
  <1>8. ASSUME NEW b \in Replica, NEW p \in Replica, Follow(b, p) PROVE IInv'
    BY <1>8, FollowKeeps
  <1>9. ASSUME NEW v \in View, NEW Q \in kSubset(QuorumViewChange, Replica), ViewChange(v, Q)
        PROVE  IInv'
    BY <1>9, ViewChangeKeeps
  <1> QED
    BY <1>1, <1>2, <1>3, <1>4, <1>5, <1>6, <1>7, <1>8, <1>9 DEF Next, ReplicaStep, OnRequest

-----------------------------------------------------------------------------
(* The theorems. *)

\* In every reachable state the logs are safe and each table is what its log leaves in it.
THEOREM ClusterHolds == Spec => []IInv
  <1>1. Init => IInv
    BY InitHolds
  <1>2. IInv /\ [Next]_vars => IInv'
    BY NextKeeps
  <1> QED
    BY <1>1, <1>2, PTL DEF Spec

\* No replica's log has two operations for one request of a client, however often and to whichever
\* replicas it was sent (ignore_request_message_duplicate and message_by_client of on_request).
THEOREM NothingIsPreparedTwice == Spec => []PreparedOnce
  <1>1. IInv => PreparedOnce
    BY DEF IInv
  <1> QED
    BY <1>1, ClusterHolds, PTL

\* What client_table_entry_create and client_table_entry_update assert holds of the next operation of
\* every replica, whether it prepared it, journaled it or got it in a view change.
THEOREM TableNeverObjects == Spec => []ExecuteAssertions
  <1>1. IInv => ExecuteAssertions
    <2> SUFFICES ASSUME IInv, NEW r \in Replica, NEW o \in DOMAIN log[r], o = commit_min[r] + 1
                 PROVE  TableAsserts(sessions[r], log[r][o], o)
      BY DEF ExecuteAssertions
    <2>1. PICK t : Run(log[r], t) /\ t[commit_min[r]] = sessions[r]
      BY DEF IInv, RunInv
    <2>2. log[r] \in Seq(Op) /\ commit_min[r] \in Nat
      BY DEF IInv, LogInv, TypeInv
    <2>3. o \in 1..Len(log[r]) /\ o - 1 = commit_min[r]
      BY <2>2, LenProperties
    <2>4. TableAsserts(t[o - 1], log[r][o], o)
      BY <2>1, <2>3 DEF Run
    <2> QED
      BY <2>1, <2>3, <2>4
  <1> QED
    BY <1>1, ClusterHolds, PTL

\* The types, log_view_durable <= log_view <= view, nothing executed that is not in the log and known
\* to be committed, and never more sessions than clients_max.
THEOREM TypesHold == Spec => []TypeOK
  <1>1. IInv => TypeOK
    <2> SUFFICES ASSUME IInv PROVE TypeOK
      OBVIOUS
    <2>1. /\ TypeInv /\ ViewsInv /\ CommitInv
      BY DEF IInv, LogInv
    <2>2. \A r \in Replica : commit_min[r] \in 0..Len(log[r])
      <3> TAKE r \in Replica
      <3>1. log[r] \in Seq(Op) /\ commit_min[r] \in Nat /\ commit_max[r] \in Nat
        BY <2>1 DEF TypeInv
      <3>2. Len(log[r]) \in Nat /\ commit_min[r] <= commit_max[r] /\ commit_max[r] <= Len(log[r])
        BY <2>1, <3>1, LenProperties DEF CommitInv
      <3> QED
        BY <3>1, <3>2
    <2>3. ASSUME NEW r \in Replica PROVE Cardinality(Sessions(sessions[r])) <= ClientsMax
      <3>1. PICK t : Run(log[r], t) /\ t[commit_min[r]] = sessions[r]
        BY DEF IInv, RunInv
      <3>2. Bounded(t[commit_min[r]])
        BY <2>2, <3>1 DEF Run
      <3> QED
        BY <3>1, <3>2 DEF Bounded
    <2> QED
      BY <2>1, <2>2, <2>3 DEF TypeOK, TypeInv, ViewsInv, CommitInv
  <1> QED
    BY <1>1, ClusterHolds, PTL
=============================================================================
