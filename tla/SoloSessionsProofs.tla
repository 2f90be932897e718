-------------------------- MODULE SoloSessionsProofs --------------------------
(***************************************************************************)
(* Proofs about the sessions of a solo replica, for every number of        *)
(* clients, requests, operations and restarts: what a client was replied   *)
(* is on disk for good, a client that is told that it is evicted is, and a *)
(* checkpoint has only what the log has.                                   *)
(***************************************************************************)
EXTENDS SoloSessions, SequenceTheorems, TLAPS

-----------------------------------------------------------------------------
(* The inductive invariant. *)

RegisterOf(l, o, c) == l[o].kind = "register" /\ l[o].client = c

\* A client other than c registers between the operations i and j.
OtherRegisters(l, c, i, j) == \E o \in i..j : l[o].kind = "register" /\ l[o].client # c

\* The operations whose effect the tables have: replay leaves them alone until the trigger of the
\* checkpoint that they are of.
Extent == IF OpCompacted(commit_min) THEN checkpoint.op + CompactionOps ELSE commit_min

\* What n operations of the log l leave in a table: entries of their sessions, and the session of
\* every client that nobody has registered after.
TableOf(table, l, n) ==
    \A c \in Client :
        /\ Known(table, c) => /\ table[c].session \in 1..n /\ RegisterOf(l, table[c].session, c)
                              /\ table[c].op \in 1..n /\ l[table[c].op].client = c
        /\ \A o \in 1..n : RegisterOf(l, o, c) /\ ~OtherRegisters(l, c, o + 1, n) =>
            Known(table, c) /\ o <= table[c].session

\* A reply of an operation of the log, and one of a read that bypassed it.
OfLog(l, c, entry) == entry.context = <<entry.op, entry.request>> /\ l[entry.op].request = entry.request
OfRead(entry) == entry.request \in Nat \ {0} /\ \E x, y, z : entry.context = <<x, y, z>>

IsEntry(e) == /\ e = [session |-> e.session, request |-> e.request, op |-> e.op, context |-> e.context,
                      view |-> e.view]
              /\ e.session \in Nat
IsTable(table) == table = [c \in Client |-> table[c]] /\ \A c \in Client : IsEntry(table[c])

IsClient(me) == /\ me = [request_number |-> me.request_number, inflight |-> me.inflight,
                         session |-> me.session, parent |-> me.parent, view |-> me.view,
                         evicted |-> me.evicted]
                /\ me.request_number \in Nat /\ me.inflight \in BOOLEAN /\ me.session \in Nat
                /\ me.evicted \in BOOLEAN

LogEntry == {p \in [client : Client, request : Nat, kind : {"register", "read", "write"}, view : {0}] :
                p.kind = "register" <=> p.request = 0}

TypeInv ==
    /\ status \in {"normal", "recovering"} /\ restarts \in Nat
    /\ log \in Seq(LogEntry) /\ written \in 0..Len(log) /\ commit_min \in 0..written
    /\ IsTable(sessions) /\ IsTable(committed)
    /\ checkpoint = [op |-> checkpoint.op, table |-> checkpoint.table]
    /\ checkpoint.op \in Nat /\ IsTable(checkpoint.table)
    /\ client = [c \in Client |-> client[c]] /\ \A c \in Client : IsClient(client[c])

\* The table of the checkpoint: nothing yet, or what the log on disk has up to the trigger.
CheckpointInv ==
    /\ checkpoint.op = 0 => checkpoint.table = EmptyTable
    /\ checkpoint.op > 0 =>
        /\ checkpoint.op + CompactionOps <= written
        /\ TableOf(checkpoint.table, log, checkpoint.op + CompactionOps)
        /\ \A c \in Client : Known(checkpoint.table, c) => OfLog(log, c, checkpoint.table[c])

\* How far the log is replayed.
ReplayInv ==
    /\ status = "normal" => commit_min = Extent
    /\ status = "recovering" => written = Len(log)

TablesInv ==
    /\ TableOf(sessions, log, Extent) /\ TableOf(committed, log, Extent)
    /\ \A c \in Client : /\ Known(committed, c) => OfLog(log, c, committed[c])
                         /\ Known(sessions, c) => OfLog(log, c, sessions[c]) \/ OfRead(sessions[c])

\* A client registers again only after somebody else did.
LogInv ==
    \A i, j \in 1..Len(log) : \A c \in Client :
        i < j /\ RegisterOf(log, i, c) /\ RegisterOf(log, j, c) => OtherRegisters(log, c, i + 1, j - 1)

\* The operations that may have been replied to.
Replied == IF status = "normal" THEN commit_min ELSE written

RepliesInv ==
    \A m \in replies :
        \/ /\ m.op \in 1..Replied /\ log[m.op].client = m.client
           /\ OfLog(log, m.client, m)
        \/ OfRead(m)

\* A client that registered, and one whose session is gone.
Registered(c) == client[c].session \in 1..Replied /\ RegisterOf(log, client[c].session, c)
Gone(c) == client[c].request_number > 1 /\ OtherRegisters(log, c, client[c].session + 1, written)

ClientsInv ==
    /\ \A c \in Client :
        /\ client[c].request_number > 1 \/ (client[c].request_number = 1 /\ ~client[c].inflight) => Registered(c)
        /\ client[c].request_number = 0 => ~client[c].inflight
        /\ client[c].evicted => Gone(c)
    /\ \A m \in requests :
        /\ m.client \in Client /\ m.request \in Nat /\ m.kind \in {"register", "read", "write"}
        /\ m.kind = "register" <=> m.request = 0
        /\ m.kind # "register" => client[m.client].request_number > 1 /\ m.session = client[m.client].session
    /\ \A m \in evictions : m.client \in Client /\ Gone(m.client)

IInv == TypeInv /\ CheckpointInv /\ ReplayInv /\ TablesInv /\ LogInv /\ RepliesInv /\ ClientsInv

-----------------------------------------------------------------------------
\* The steps between checkpoints.
LEMMA Steps == /\ CheckpointOps \in Nat /\ CheckpointOps > 1
               /\ CompactionOps \in Nat /\ CompactionOps > 0
<1> QED
    BY SoloAssumption

\* Where others registered, in a log that goes on.
LEMMA OthersKept ==
    ASSUME NEW l, NEW k, NEW c, NEW i \in Int, NEW j \in Int, NEW n \in Int, j <= n,
           OtherRegisters(l, c, i, j), \A o \in i..j : k[o] = l[o]
    PROVE  OtherRegisters(k, c, i, n)
<1>1. \A o \in i..j : o \in i..n
    OBVIOUS
<1> QED
    BY <1>1 DEF OtherRegisters

\* A table is of the beginning of the log.
LEMMA TableKept ==
    ASSUME NEW table, NEW l, NEW k, NEW n \in Nat, TableOf(table, l, n), \A o \in 1..n : k[o] = l[o]
    PROVE  TableOf(table, k, n)
<1>1. \A o \in 1..n : \A q \in o + 1..n : q \in 1..n
    OBVIOUS
<1>2. \A c : \A o \in 1..n : OtherRegisters(l, c, o + 1, n) => OtherRegisters(k, c, o + 1, n)
    BY <1>1 DEF OtherRegisters
<1>3. \A c : \A o \in 1..n : RegisterOf(k, o, c) <=> RegisterOf(l, o, c)
    BY DEF RegisterOf
<1> QED
    BY <1>2, <1>3 DEF TableOf

\* An operation that changes no session.
LEMMA TableOfNext ==
    ASSUME NEW table, NEW t, NEW l, NEW n \in Nat, TableOf(table, l, n), l[n + 1].kind # "register",
           \A c \in Client : /\ t[c].session = table[c].session
                             /\ t[c].op = table[c].op \/ (t[c].op = n + 1 /\ l[n + 1].client = c)
    PROVE  TableOf(t, l, n + 1)
<1>1. \A o \in 1..n + 1 : o \in 1..n \/ o = n + 1
    OBVIOUS
<1>2. \A o \in 1..n : o \in 1..n + 1 /\ n + 1 \in 1..n + 1 /\ \A q \in o + 1..n : q \in o + 1..n + 1
    OBVIOUS
<1>3. ASSUME NEW c \in Client, Known(t, c)
      PROVE  /\ t[c].session \in 1..n + 1 /\ RegisterOf(l, t[c].session, c)
             /\ t[c].op \in 1..n + 1 /\ l[t[c].op].client = c
    <2>1. /\ table[c].session \in 1..n /\ RegisterOf(l, table[c].session, c)
          /\ table[c].op \in 1..n /\ l[table[c].op].client = c
        BY <1>3 DEF TableOf, Known
    <2>2. n + 1 \in 1..n + 1
        OBVIOUS
    <2> QED
        BY <1>2, <2>1, <2>2
<1>4. ASSUME NEW c \in Client, NEW o \in 1..n + 1, RegisterOf(l, o, c), ~OtherRegisters(l, c, o + 1, n + 1)
      PROVE  Known(t, c) /\ o <= t[c].session
    <2>1. o \in 1..n
        BY <1>1, <1>4 DEF RegisterOf
    <2>2. ~OtherRegisters(l, c, o + 1, n)
        BY <1>2, <1>4, <2>1 DEF OtherRegisters
    <2>3. Known(table, c) /\ o <= table[c].session
        BY <1>4, <2>1, <2>2 DEF TableOf
    <2> QED
        BY <2>3 DEF Known
<1> QED
    BY <1>3, <1>4 DEF TableOf

\* What an operation does to a table.
LEMMA ExecuteEntries ==
    ASSUME NEW table, IsTable(table), NEW p \in LogEntry, NEW op \in Nat
    PROVE  LET t == TableExecute(table, p, op)
           IN /\ IsTable(t)
              /\ \A c \in Client \ {p.client} : t[c] \in {table[c], Absent}
              /\ p.kind # "register" => \A c \in Client \ {p.client} : t[c] = table[c]
              /\ p.kind = "register" => t[p.client] = EntryOf(p, op, op)
              /\ p.kind # "register" => /\ ~Known(table, p.client) => t[p.client] = table[p.client]
                                        /\ Known(table, p.client) =>
                                              t[p.client] = EntryOf(p, op, table[p.client].session)
<1> DEFINE room == IF Cardinality(Sessions(table)) = ClientsMax
                   THEN [table EXCEPT ![Evictee(table)] = Absent]
                   ELSE table
<1>1. p.client \in Client /\ table = [c \in Client |-> table[c]] /\ \A c \in Client : IsEntry(table[c])
    BY DEF LogEntry, IsTable
<1>2. IsEntry(Absent) /\ (\A s \in Nat : IsEntry(EntryOf(p, op, s)))
      /\ \A s \in Nat : EntryOf(p, op, s).session = s
    BY DEF IsEntry, Absent, EntryOf
<1>3. /\ room = [c \in Client |-> room[c]]
      /\ \A c \in Client : room[c] \in {table[c], Absent}
    BY <1>1
<1> HIDE DEF room
<1>4. CASE p.kind = "register"
    <2> DEFINE t == [room EXCEPT ![p.client] = EntryOf(p, op, op)]
    <2>1. TableExecute(table, p, op) = t
        BY <1>4 DEF TableExecute, TableCreate, room
    <2>2. /\ t = [c \in Client |-> t[c]] /\ t[p.client] = EntryOf(p, op, op)
          /\ \A c \in Client \ {p.client} : t[c] \in {table[c], Absent}
        BY <1>1, <1>3
    <2> HIDE DEF t
    <2>3. IsTable(t)
        BY <1>1, <1>2, <2>2 DEF IsTable
    <2> QED
        BY <1>4, <2>1, <2>2, <2>3
<1>5. CASE p.kind # "register" /\ Known(table, p.client)
    <2> DEFINE t == [table EXCEPT ![p.client] = EntryOf(p, op, table[p.client].session)]
    <2>1. TableExecute(table, p, op) = t
        BY <1>5 DEF TableExecute, TableUpdate
    <2>2. /\ t = [c \in Client |-> t[c]] /\ t[p.client] = EntryOf(p, op, table[p.client].session)
          /\ \A c \in Client \ {p.client} : t[c] = table[c]
        BY <1>1
    <2>3. table[p.client].session \in Nat
        BY <1>1 DEF IsEntry
    <2> HIDE DEF t
    <2>4. IsTable(t)
        BY <1>1, <1>2, <2>2, <2>3 DEF IsTable
    <2> QED
        BY <1>5, <2>1, <2>2, <2>4
<1>6. CASE p.kind # "register" /\ ~Known(table, p.client)
    <2>1. TableExecute(table, p, op) = table
        BY <1>6 DEF TableExecute, TableUpdate
    <2> QED
        BY <1>6, <2>1
<1> QED
    BY <1>4, <1>5, <1>6

\* The next operation of the log, on a table.
LEMMA ExecuteTable ==
    ASSUME NEW table, IsTable(table), NEW l, NEW n \in Nat, TableOf(table, l, n), NEW p \in LogEntry,
           l[n + 1] = p
    PROVE  LET t == TableExecute(table, p, n + 1)
           IN /\ IsTable(t) /\ TableOf(t, l, n + 1)
              /\ \A c \in Client : Known(t, c) =>
                    (Known(table, c) /\ t[c] = table[c]) \/ (c = p.client /\ OfLog(l, c, t[c]))
<1> DEFINE t == TableExecute(table, p, n + 1)
<1>1. /\ IsTable(t)
      /\ \A c \in Client \ {p.client} : t[c] \in {table[c], Absent}
      /\ p.kind # "register" => \A c \in Client \ {p.client} : t[c] = table[c]
      /\ p.kind = "register" => t[p.client] = EntryOf(p, n + 1, n + 1)
      /\ p.kind # "register" => /\ ~Known(table, p.client) => t[p.client] = table[p.client]
                                /\ Known(table, p.client) =>
                                      t[p.client] = EntryOf(p, n + 1, table[p.client].session)
    <2>1. n + 1 \in Nat
        OBVIOUS
    <2> QED
        BY <2>1, ExecuteEntries
<1> HIDE DEF t
<1>2. p.client \in Client /\ p.request \in Nat
    BY DEF LogEntry
<1>3. \A s : /\ EntryOf(p, n + 1, s).session = s /\ EntryOf(p, n + 1, s).op = n + 1
             /\ OfLog(l, p.client, EntryOf(p, n + 1, s))
    BY DEF EntryOf, OfLog
<1>4. Absent.session = 0
    BY DEF Absent
<1>5. ASSUME NEW c \in Client, Known(t, c)
      PROVE  (Known(table, c) /\ t[c] = table[c]) \/ (c = p.client /\ OfLog(l, c, t[c]))
    BY <1>1, <1>2, <1>3, <1>4, <1>5 DEF Known
<1>6. CASE p.kind # "register"
    <2>1. ASSUME NEW c \in Client
          PROVE  /\ t[c].session = table[c].session
                 /\ t[c].op = table[c].op \/ (t[c].op = n + 1 /\ l[n + 1].client = c)
        BY <1>1, <1>3, <1>6
    <2>2. TableOf(t, l, n + 1)
        BY <1>6, <2>1, TableOfNext
    <2> QED
        BY <1>1, <1>5, <2>2 DEF t
<1>7. CASE p.kind = "register"
    <2>1. ASSUME NEW c \in Client, Known(t, c)
          PROVE  /\ t[c].session \in 1..n + 1 /\ RegisterOf(l, t[c].session, c)
                 /\ t[c].op \in 1..n + 1 /\ l[t[c].op].client = c
        <3>1. CASE c = p.client
            BY <1>1, <1>3, <1>7, <3>1 DEF RegisterOf
        <3>2. CASE c # p.client
            <4>1. Known(table, c) /\ t[c] = table[c]
                BY <1>1, <1>4, <2>1, <3>2 DEF Known
            <4>2. \A o \in 1..n : o \in 1..n + 1
                OBVIOUS
            <4> QED
                BY <4>1, <4>2 DEF TableOf
        <3> QED
            BY <3>1, <3>2
    <2>2. ASSUME NEW c \in Client, NEW o \in 1..n + 1, RegisterOf(l, o, c),
                 ~OtherRegisters(l, c, o + 1, n + 1)
          PROVE  Known(t, c) /\ o <= t[c].session
        <3>1. c = p.client
            <4>1. SUFFICES ASSUME c # p.client PROVE FALSE
                OBVIOUS
            <4>2. o # n + 1
                BY <2>2, <4>1 DEF RegisterOf
            <4>3. n + 1 \in o + 1..n + 1
                BY <4>2
            <4> QED
                BY <1>7, <2>2, <4>1, <4>3 DEF OtherRegisters
        <3>2. t[c].session = n + 1
            BY <1>1, <1>3, <1>7, <3>1
        <3> QED
            BY <3>2 DEF Known
    <2>3. TableOf(t, l, n + 1)
        BY <2>1, <2>2 DEF TableOf
    <2> QED
        BY <1>1, <1>5, <2>3 DEF t
<1> QED
    BY <1>6, <1>7

-----------------------------------------------------------------------------
\* The numbers of the invariant, and the operations of the log.
LEMMA Bounds ==
    ASSUME IInv
    PROVE  /\ Len(log) \in Nat /\ written \in 0..Len(log) /\ commit_min \in 0..written
           /\ Extent \in 0..written /\ Replied \in 0..written /\ commit_min <= Extent
           /\ status = "normal" => Replied = commit_min /\ Extent = commit_min
           /\ \A o \in 1..Len(log) : log[o] \in LogEntry
<1>1. /\ Len(log) \in Nat /\ written \in 0..Len(log) /\ commit_min \in 0..written
      /\ \A o \in 1..Len(log) : log[o] \in LogEntry
    BY DEF IInv, TypeInv
<1>2. checkpoint.op > 0 => checkpoint.op + CompactionOps \in 0..written
    <2>1. checkpoint.op \in Nat /\ (checkpoint.op > 0 => checkpoint.op + CompactionOps <= written)
        BY DEF IInv, TypeInv, CheckpointInv
    <2> QED
        BY <1>1, <2>1, Steps
<1>3. Extent \in 0..written /\ commit_min <= Extent
    <2>1. CASE OpCompacted(commit_min)
        BY <1>1, <1>2, <2>1 DEF Extent, OpCompacted
    <2>2. CASE ~OpCompacted(commit_min)
        BY <1>1, <2>2 DEF Extent
    <2> QED
        BY <2>1, <2>2
<1>4. Replied \in 0..written /\ (status = "normal" => Replied = commit_min /\ Extent = commit_min)
    BY <1>1 DEF Replied, IInv, ReplayInv
<1> QED
    BY <1>1, <1>3, <1>4

\* What the clients know stays true while the log on disk does.
LEMMA ClientsKept ==
    ASSUME IInv, UNCHANGED <<client, requests, evictions>>, written <= written', written' \in Nat,
           Replied <= Replied', Replied' \in Nat, \A o \in 1..written : log'[o] = log[o]
    PROVE  ClientsInv'
<1>1. written \in Nat /\ Replied \in 0..written
    BY Bounds
<1>2. ASSUME NEW c \in Client, Registered(c) PROVE Registered(c)'
    <2>1. client[c].session \in 1..Replied /\ RegisterOf(log, client[c].session, c)
        BY <1>2 DEF Registered
    <2>2. client[c].session \in 1..Replied' /\ client[c].session \in 1..written
        BY <1>1, <2>1
    <2> QED
        BY <2>1, <2>2 DEF Registered, RegisterOf
<1>3. ASSUME NEW c \in Client, Gone(c) PROVE Gone(c)'
    <2> DEFINE s == client[c].session
    <2>1. s \in Nat /\ client[c].request_number > 1 /\ OtherRegisters(log, c, s + 1, written)
        BY <1>3 DEF Gone, IInv, TypeInv, IsClient
    <2> HIDE DEF s
    <2>2. \A o \in s + 1..written : o \in 1..written
        BY <1>1, <2>1
    <2>3. OtherRegisters(log', c, s + 1, written')
        BY <1>1, <2>1, <2>2, OthersKept
    <2> QED
        BY <2>1, <2>3 DEF Gone, s
<1> QED
    BY <1>2, <1>3 DEF IInv, ClientsInv

\* What was replied stays in the log on disk.
LEMMA RepliesKept ==
    ASSUME IInv, Replied <= Replied', Replied' \in Nat, \A o \in 1..written : log'[o] = log[o],
           \A m \in replies' :
               \/ m \in replies \/ OfRead(m)
               \/ m.op \in 1..Replied' /\ log'[m.op].client = m.client /\ OfLog(log', m.client, m)
    PROVE  RepliesInv'
<1>1. written \in Nat /\ Replied \in 0..written
    BY Bounds
<1>2. ASSUME NEW m \in replies, ~OfRead(m)
      PROVE  m.op \in 1..Replied' /\ log'[m.op].client = m.client /\ OfLog(log', m.client, m)
    <2>1. m.op \in 1..Replied /\ log[m.op].client = m.client /\ OfLog(log, m.client, m)
        BY <1>2 DEF IInv, RepliesInv
    <2>2. m.op \in 1..written /\ m.op \in 1..Replied'
        BY <1>1, <2>1
    <2> QED
        BY <2>1, <2>2 DEF OfLog
<1> QED
    BY <1>2 DEF RepliesInv

\* The replica does nothing.
LEMMA SoloKept ==
    ASSUME IInv, UNCHANGED soloVars, UNCHANGED replies, client' = [c \in Client |-> client'[c]],
           \A c \in Client : IsClient(client'[c]), ClientsInv'
    PROVE  IInv'
<1>1. UNCHANGED <<status, log, written, commit_min, sessions, committed, checkpoint, restarts>>
    BY DEF soloVars
<1>2. TypeInv'
    BY <1>1 DEF IInv, TypeInv
<1>3. CheckpointInv' /\ ReplayInv' /\ TablesInv' /\ LogInv' /\ RepliesInv'
    BY <1>1 DEF IInv, CheckpointInv, ReplayInv, TablesInv, LogInv, RepliesInv, Extent, OpCompacted, Replied
<1> QED
    BY <1>2, <1>3 DEF IInv

\* The record of a client that sends.
LEMMA Sending ==
    ASSUME NEW me, IsClient(me), NEW flag
    PROVE  [[me EXCEPT !.request_number = @ + 1] EXCEPT !.inflight = flag] =
             [request_number |-> me.request_number + 1, inflight |-> flag, session |-> me.session,
              parent |-> me.parent, view |-> me.view, evicted |-> me.evicted]
<1> DEFINE num == me.request_number + 1
           e1 == [me EXCEPT !.request_number = num]
<1>1. me = [request_number |-> me.request_number, inflight |-> me.inflight, session |-> me.session,
            parent |-> me.parent, view |-> me.view, evicted |-> me.evicted]
    BY DEF IsClient
<1>2. [[me EXCEPT !.request_number = @ + 1] EXCEPT !.inflight = flag] = [e1 EXCEPT !.inflight = flag]
    OBVIOUS
<1> HIDE DEF num
<1>3. e1 = [request_number |-> num, inflight |-> me.inflight, session |-> me.session,
            parent |-> me.parent, view |-> me.view, evicted |-> me.evicted]
    BY <1>1
<1> HIDE DEF e1
<1>4. [e1 EXCEPT !.inflight = flag] = [request_number |-> num, inflight |-> flag, session |-> me.session,
            parent |-> me.parent, view |-> me.view, evicted |-> me.evicted]
    BY <1>3
<1> QED
    BY <1>2, <1>4 DEF num

\* A client that sends a request.
LEMMA SendStep ==
    ASSUME IInv, UNCHANGED soloVars, NEW c \in Client, NEW kind \in {"register", "read", "write"},
           kind = "register" <=> client[c].request_number = 0, Send(c, kind)
    PROVE  IInv'
<1> DEFINE me == client[c]
           m0 == [client |-> c, request |-> me.request_number, session |-> me.session,
                  parent |-> me.parent, view |-> me.view, kind |-> kind]
<1>1. /\ ~me.evicted /\ ~me.inflight
      /\ client' = [client EXCEPT ![c].request_number = @ + 1, ![c].inflight = TRUE]
      /\ requests' = requests \cup {m0} /\ UNCHANGED <<replies, evictions>>
    BY DEF Send
<1>2. client = [d \in Client |-> client[d]] /\ \A d \in Client : IsClient(client[d])
    BY DEF IInv, TypeInv
<1>3. /\ client' = [d \in Client |-> client'[d]]
      /\ \A d \in Client \ {c} : client'[d] = client[d]
      /\ client'[c] = [request_number |-> me.request_number + 1, inflight |-> TRUE, session |-> me.session,
                       parent |-> me.parent, view |-> me.view, evicted |-> me.evicted]
    <2>1. PICK flag : flag = TRUE
        OBVIOUS
    <2>2. client' = [client EXCEPT ![c] = [[client[c] EXCEPT !.request_number = @ + 1] EXCEPT !.inflight = flag]]
        BY <1>1, <1>2, <2>1
    <2>3. [[client[c] EXCEPT !.request_number = @ + 1] EXCEPT !.inflight = flag] =
            [request_number |-> me.request_number + 1, inflight |-> flag, session |-> me.session,
             parent |-> me.parent, view |-> me.view, evicted |-> me.evicted]
        BY <1>2, Sending
    <2> HIDE DEF me
    <2>4. /\ client' = [d \in Client |-> client'[d]]
          /\ \A d \in Client \ {c} : client'[d] = client[d]
          /\ client'[c] = [request_number |-> me.request_number + 1, inflight |-> flag, session |-> me.session,
                           parent |-> me.parent, view |-> me.view, evicted |-> me.evicted]
        BY <1>2, <2>2, <2>3
    <2> QED
        BY <2>1, <2>4
<1>4. /\ client'[c].request_number = me.request_number + 1 /\ client'[c].inflight = TRUE
      /\ client'[c].session = me.session /\ client'[c].evicted = me.evicted /\ me.request_number \in Nat
      /\ IsClient(client'[c])
    BY <1>2, <1>3 DEF IsClient
<1>5. \A d \in Client : IsClient(client'[d])
    BY <1>2, <1>3, <1>4
<1>6. /\ m0.client = c /\ m0.request = me.request_number /\ m0.session = me.session /\ m0.kind = kind
    OBVIOUS
<1> HIDE DEF m0
<1>7. \A d \in Client : client'[d].session = client[d].session /\ (Registered(d)' <=> Registered(d))
    BY <1>3, <1>4 DEF Registered, Replied, soloVars
<1>8. \A d \in Client : Gone(d) => Gone(d)'
    BY <1>3, <1>4 DEF Gone, soloVars
<1>9. ClientsInv'
    <2>1. ASSUME NEW d \in Client
          PROVE  /\ \/ client'[d].request_number > 1
                    \/ client'[d].request_number = 1 /\ ~client'[d].inflight
                    => Registered(d)'
                 /\ client'[d].request_number = 0 => ~client'[d].inflight
                 /\ client'[d].evicted => Gone(d)'
        <3>1. CASE d # c
            BY <1>3, <1>7, <1>8, <3>1 DEF IInv, ClientsInv
        <3>2. CASE d = c
            <4>1. client'[c].request_number # 0
                BY <1>4
            <4>2. client'[c].request_number > 1 => me.request_number > 1 \/ me.request_number = 1
                BY <1>4
            <4> QED
                BY <1>1, <1>4, <1>7, <3>2, <4>1, <4>2 DEF IInv, ClientsInv
        <3> QED
            BY <3>1, <3>2
    <2>2. ASSUME NEW m \in requests'
          PROVE  /\ m.client \in Client /\ m.request \in Nat /\ m.kind \in {"register", "read", "write"}
                 /\ m.kind = "register" <=> m.request = 0
                 /\ m.kind # "register" =>
                      client'[m.client].request_number > 1 /\ m.session = client'[m.client].session
        <3>1. CASE m = m0
            <4>1. kind # "register" => client'[c].request_number > 1
                BY <1>4
            <4> QED
                BY <1>4, <1>6, <3>1, <4>1
        <3>2. CASE m \in requests
            <4>1. \A d \in Client : client[d].request_number > 1 => client'[d].request_number > 1
                BY <1>3, <1>4
            <4> QED
                BY <1>7, <3>2, <4>1 DEF IInv, ClientsInv
        <3> QED
            BY <1>1, <3>1, <3>2
    <2>3. \A m \in evictions' : m.client \in Client /\ Gone(m.client)'
        BY <1>1, <1>8 DEF IInv, ClientsInv
    <2> QED
        BY <2>1, <2>2, <2>3 DEF ClientsInv
<1> QED
    BY <1>1, <1>3, <1>5, <1>9, SoloKept

\* The record of a client that has its reply.
LEMMA Replying ==
    ASSUME NEW me, IsClient(me), NEW flag, NEW parent, NEW v, NEW session
    PROVE  [[[[me EXCEPT !.inflight = flag] EXCEPT !.parent = parent] EXCEPT !.view = v]
                EXCEPT !.session = session] =
             [request_number |-> me.request_number, inflight |-> flag, session |-> session,
              parent |-> parent, view |-> v, evicted |-> me.evicted]
<1> DEFINE e1 == [me EXCEPT !.inflight = flag]
           e2 == [e1 EXCEPT !.parent = parent]
           e3 == [e2 EXCEPT !.view = v]
<1>1. me = [request_number |-> me.request_number, inflight |-> me.inflight, session |-> me.session,
            parent |-> me.parent, view |-> me.view, evicted |-> me.evicted]
    BY DEF IsClient
<1>2. e1 = [request_number |-> me.request_number, inflight |-> flag, session |-> me.session,
            parent |-> me.parent, view |-> me.view, evicted |-> me.evicted]
    BY <1>1
<1> HIDE DEF e1
<1>3. e2 = [request_number |-> me.request_number, inflight |-> flag, session |-> me.session,
            parent |-> parent, view |-> me.view, evicted |-> me.evicted]
    BY <1>2
<1> HIDE DEF e2
<1>4. e3 = [request_number |-> me.request_number, inflight |-> flag, session |-> me.session,
            parent |-> parent, view |-> v, evicted |-> me.evicted]
    BY <1>3
<1> HIDE DEF e3
<1>5. [e3 EXCEPT !.session = session] =
        [request_number |-> me.request_number, inflight |-> flag, session |-> session,
         parent |-> parent, view |-> v, evicted |-> me.evicted]
    BY <1>4
<1> QED
    BY <1>5 DEF e1, e2, e3

\* A reply to a register is of that register in the log.
LEMMA RegisterReplied ==
    ASSUME IInv, NEW m \in replies, m.request = 0
    PROVE  m.op \in 1..Replied /\ RegisterOf(log, m.op, m.client)
<1>1. ~OfRead(m)
    BY DEF OfRead
<1>2. m.op \in 1..Replied /\ log[m.op].client = m.client /\ OfLog(log, m.client, m)
    BY <1>1 DEF IInv, RepliesInv
<1>3. log[m.op] \in LogEntry
    <2>1. Len(log) \in Nat /\ Replied \in 0..written /\ written \in 0..Len(log)
          /\ \A o \in 1..Len(log) : log[o] \in LogEntry
        BY Bounds
    <2>2. m.op \in 1..Len(log)
        BY <1>2, <2>1
    <2> QED
        BY <2>1, <2>2
<1> QED
    BY <1>2, <1>3 DEF RegisterOf, OfLog, LogEntry

\* A client that receives its reply.
LEMMA OnReplyStep ==
    ASSUME IInv, UNCHANGED soloVars, NEW c \in Client, NEW m \in replies, OnReply(c, m)
    PROVE  IInv'
<1> DEFINE me == client[c]
           session == IF me.request_number = 1 THEN m.op ELSE me.session
           v == Max({me.view, m.view})
<1>1. /\ m.client = c /\ ~me.evicted /\ me.inflight /\ m.request = me.request_number - 1
      /\ UNCHANGED <<requests, replies, evictions>>
    BY DEF OnReply
<1>2. client = [d \in Client |-> client[d]] /\ \A d \in Client : IsClient(client[d])
    BY DEF IInv, TypeInv
<1>3. PICK flag : flag = FALSE
    OBVIOUS
<1>4. client' = [client EXCEPT ![c] = [[[[client[c] EXCEPT !.inflight = flag] EXCEPT !.parent = m.context]
                                            EXCEPT !.view = v] EXCEPT !.session = session]]
    BY <1>2, <1>3 DEF OnReply
<1>5. [[[[client[c] EXCEPT !.inflight = flag] EXCEPT !.parent = m.context]
            EXCEPT !.view = v] EXCEPT !.session = session] =
        [request_number |-> me.request_number, inflight |-> flag, session |-> session,
         parent |-> m.context, view |-> v, evicted |-> me.evicted]
    <2>1. IsClient(me)
        BY <1>2
    <2>2. \A p, w, s : [[[[me EXCEPT !.inflight = flag] EXCEPT !.parent = p] EXCEPT !.view = w]
                            EXCEPT !.session = s] =
                       [request_number |-> me.request_number, inflight |-> flag, session |-> s,
                        parent |-> p, view |-> w, evicted |-> me.evicted]
        BY <2>1, Replying
    <2> QED
        BY <2>2, Zenon
<1>6. me.request_number \in Nat /\ me.request_number # 0 /\ me.session \in Nat /\ me.evicted \in BOOLEAN
    BY <1>1, <1>2 DEF IsClient, IInv, ClientsInv
<1>7. me.request_number = 1 => m.op \in 1..Replied /\ RegisterOf(log, m.op, c)
    BY <1>1, <1>6, RegisterReplied
<1>8. session \in Nat /\ session \in 1..Replied /\ RegisterOf(log, session, c)
    <2>1. CASE me.request_number = 1
        <3>1. Replied \in Nat
            BY Bounds
        <3> QED
            BY <1>7, <2>1, <3>1
    <2>2. CASE me.request_number # 1
        <3>1. me.request_number > 1
            BY <1>6, <2>2
        <3> QED
            BY <1>6, <2>2, <3>1 DEF IInv, ClientsInv, Registered
    <2> QED
        BY <2>1, <2>2
<1> HIDE DEF me, session, v
<1>9. /\ client' = [d \in Client |-> client'[d]]
      /\ \A d \in Client \ {c} : client'[d] = client[d]
      /\ client'[c] = [request_number |-> me.request_number, inflight |-> flag, session |-> session,
                       parent |-> m.context, view |-> v, evicted |-> me.evicted]
    BY <1>2, <1>4, <1>5
<1>10. /\ client'[c].request_number = me.request_number /\ client'[c].inflight = flag
       /\ client'[c].session = session /\ client'[c].evicted = me.evicted
    BY <1>9
<1>11. IsClient(client'[c])
    <2>1. flag \in BOOLEAN
        BY <1>3
    <2> QED
        BY <1>6, <1>8, <1>9, <2>1 DEF IsClient
<1>12. \A d \in Client : IsClient(client'[d])
    BY <1>2, <1>9, <1>11
<1>13. \A d \in Client : /\ client'[d].request_number = client[d].request_number
                         /\ client[d].request_number > 1 => client'[d].session = client[d].session
    <2>1. me.request_number > 1 => session = me.session
        BY DEF session
    <2> QED
        BY <1>9, <1>10, <2>1 DEF me
<1>14. UNCHANGED <<log, written>> /\ Replied' = Replied
    BY DEF soloVars, Replied
<1>15. \A d \in Client : Gone(d) => Gone(d)'
    BY <1>13, <1>14 DEF Gone
<1>16. \A d \in Client : Registered(d) \/ d = c => Registered(d)'
    BY <1>8, <1>9, <1>10, <1>14 DEF Registered
<1>17. ClientsInv'
    <2>1. ASSUME NEW d \in Client
          PROVE  /\ \/ client'[d].request_number > 1
                    \/ client'[d].request_number = 1 /\ ~client'[d].inflight
                    => Registered(d)'
                 /\ client'[d].request_number = 0 => ~client'[d].inflight
                 /\ client'[d].evicted => Gone(d)'
        <3>1. CASE d # c
            BY <1>9, <1>15, <1>16, <3>1 DEF IInv, ClientsInv
        <3>2. CASE d = c
            BY <1>1, <1>6, <1>10, <1>16, <3>2 DEF me
        <3> QED
            BY <3>1, <3>2
    <2>2. ASSUME NEW q \in requests'
          PROVE  /\ q.client \in Client /\ q.request \in Nat /\ q.kind \in {"register", "read", "write"}
                 /\ q.kind = "register" <=> q.request = 0
                 /\ q.kind # "register" =>
                      client'[q.client].request_number > 1 /\ q.session = client'[q.client].session
        BY <1>1, <1>13 DEF IInv, ClientsInv
    <2>3. \A q \in evictions' : q.client \in Client /\ Gone(q.client)'
        BY <1>1, <1>15 DEF IInv, ClientsInv
    <2> QED
        BY <2>1, <2>2, <2>3 DEF ClientsInv
<1> QED
    BY <1>1, <1>9, <1>12, <1>17, SoloKept

\* A client that is told that it is evicted.
LEMMA OnEvictionStep ==
    ASSUME IInv, UNCHANGED soloVars, NEW c \in Client, NEW m \in evictions, OnEviction(c, m)
    PROVE  IInv'
<1> DEFINE me == client[c]
<1>1. /\ m.client = c /\ client' = [client EXCEPT ![c].evicted = TRUE]
      /\ UNCHANGED <<requests, replies, evictions>>
    BY DEF OnEviction
<1>2. client = [d \in Client |-> client[d]] /\ \A d \in Client : IsClient(client[d])
    BY DEF IInv, TypeInv
<1>3. PICK flag : flag = TRUE
    OBVIOUS
<1>4. client' = [client EXCEPT ![c] = [client[c] EXCEPT !.evicted = flag]]
    BY <1>1, <1>2, <1>3
<1>5. [client[c] EXCEPT !.evicted = flag] =
        [request_number |-> me.request_number, inflight |-> me.inflight, session |-> me.session,
         parent |-> me.parent, view |-> me.view, evicted |-> flag]
    <2>1. me = [request_number |-> me.request_number, inflight |-> me.inflight, session |-> me.session,
                parent |-> me.parent, view |-> me.view, evicted |-> me.evicted]
        BY <1>2 DEF IsClient
    <2> HIDE DEF me
    <2>2. [me EXCEPT !.evicted = flag] =
            [request_number |-> me.request_number, inflight |-> me.inflight, session |-> me.session,
             parent |-> me.parent, view |-> me.view, evicted |-> flag]
        BY <2>1
    <2> QED
        BY <2>2 DEF me
<1>6. me.request_number \in Nat /\ me.inflight \in BOOLEAN /\ me.session \in Nat
    BY <1>2 DEF IsClient
<1> HIDE DEF me
<1>7. /\ client' = [d \in Client |-> client'[d]]
      /\ \A d \in Client \ {c} : client'[d] = client[d]
      /\ client'[c] = [request_number |-> me.request_number, inflight |-> me.inflight, session |-> me.session,
                       parent |-> me.parent, view |-> me.view, evicted |-> flag]
    BY <1>2, <1>4, <1>5
<1>8. \A d \in Client : /\ client'[d].request_number = client[d].request_number
                        /\ client'[d].inflight = client[d].inflight
                        /\ client'[d].session = client[d].session
    BY <1>7 DEF me
<1>9. IsClient(client'[c])
    <2>1. flag \in BOOLEAN
        BY <1>3
    <2> QED
        BY <1>6, <1>7, <2>1 DEF IsClient
<1>10. \A d \in Client : IsClient(client'[d])
    BY <1>2, <1>7, <1>9
<1>11. \A d \in Client : (Registered(d)' <=> Registered(d)) /\ (Gone(d)' <=> Gone(d))
    BY <1>8 DEF Registered, Gone, Replied, soloVars
<1>12. ClientsInv'
    <2>1. ASSUME NEW d \in Client, client'[d].evicted PROVE Gone(d)'
        <3>1. CASE d = c
            BY <1>1, <1>11, <3>1 DEF IInv, ClientsInv
        <3>2. CASE d # c
            BY <1>7, <1>11, <2>1, <3>2 DEF IInv, ClientsInv
        <3> QED
            BY <3>1, <3>2
    <2>2. ASSUME NEW q \in requests'
          PROVE  /\ q.client \in Client /\ q.request \in Nat /\ q.kind \in {"register", "read", "write"}
                 /\ q.kind = "register" <=> q.request = 0
                 /\ q.kind # "register" =>
                      client'[q.client].request_number > 1 /\ q.session = client'[q.client].session
        BY <1>1, <1>8 DEF IInv, ClientsInv
    <2> QED
        BY <1>1, <1>8, <1>11, <2>1, <2>2 DEF IInv, ClientsInv
<1> QED
    BY <1>1, <1>7, <1>10, <1>12, SoloKept

\* A step of a client.
LEMMA ClientStepKept ==
    ASSUME IInv, ClientStep, UNCHANGED soloVars
    PROVE  IInv'
<1>1. PICK c \in Client : \/ Register(c)
                          \/ Request(c)
                          \/ \E m \in replies : OnReply(c, m)
                          \/ \E m \in evictions : OnEviction(c, m)
    BY DEF ClientStep
<1>2. CASE Register(c)
    BY <1>2, SendStep DEF Register
<1>3. CASE Request(c)
    <2>1. client[c].request_number # 0 /\ Kinds \subseteq {"read", "write"}
          /\ \E kind \in Kinds : Send(c, kind)
        BY <1>3, ClientsAssumption DEF Request
    <2>2. PICK kind \in {"read", "write"} : Send(c, kind)
        BY <2>1
    <2> QED
        BY <2>1, <2>2, SendStep
<1>4. CASE \E m \in replies : OnReply(c, m)
    BY <1>4, OnReplyStep
<1>5. CASE \E m \in evictions : OnEviction(c, m)
    BY <1>5, OnEvictionStep
<1> QED
    BY <1>1, <1>2, <1>3, <1>4, <1>5

-----------------------------------------------------------------------------
\* What a table has of the log is in a log that goes on.
LEMMA OfLogKept ==
    ASSUME NEW table, NEW l, NEW k, NEW n \in Nat, TableOf(table, l, n), \A o \in 1..n : k[o] = l[o],
           NEW c \in Client, Known(table, c), OfLog(l, c, table[c])
    PROVE  OfLog(k, c, table[c])
<1>1. table[c].op \in 1..n
    BY DEF TableOf
<1> QED
    BY <1>1 DEF OfLog

\* The tables, when only the log after them changes.
LEMMA TablesKept ==
    ASSUME IInv, UNCHANGED <<sessions, committed>>, Extent' = Extent, \A o \in 1..Extent : log'[o] = log[o]
    PROVE  TablesInv'
<1>1. Extent \in Nat
    BY Bounds
<1>2. TableOf(sessions, log, Extent) /\ TableOf(committed, log, Extent)
    BY DEF IInv, TablesInv
<1>3. TableOf(sessions, log', Extent) /\ TableOf(committed, log', Extent)
    BY <1>1, <1>2, TableKept
<1>4. ASSUME NEW c \in Client
      PROVE  /\ Known(committed, c) => OfLog(log', c, committed[c])
             /\ Known(sessions, c) => OfLog(log', c, sessions[c]) \/ OfRead(sessions[c])
    <2>1. /\ Known(committed, c) => OfLog(log, c, committed[c])
          /\ Known(sessions, c) => OfLog(log, c, sessions[c]) \/ OfRead(sessions[c])
        BY DEF IInv, TablesInv
    <2>2. Known(committed, c) => OfLog(log', c, committed[c])
        BY <1>1, <1>2, <2>1, OfLogKept
    <2>3. Known(sessions, c) /\ OfLog(log, c, sessions[c]) => OfLog(log', c, sessions[c])
        BY <1>1, <1>2, OfLogKept
    <2> QED
        BY <2>1, <2>2, <2>3
<1> QED
    BY <1>3, <1>4 DEF TablesInv

\* The checkpoint, while the log on disk stays.
LEMMA CheckpointKept ==
    ASSUME IInv, checkpoint' = checkpoint, written <= written', written' \in Nat,
           \A o \in 1..written : log'[o] = log[o]
    PROVE  CheckpointInv'
<1> DEFINE n == checkpoint.op + CompactionOps
           table == checkpoint.table
<1>1. /\ checkpoint.op = 0 => table = EmptyTable
      /\ checkpoint.op > 0 => /\ n <= written /\ TableOf(table, log, n)
                              /\ \A c \in Client : Known(table, c) => OfLog(log, c, table[c])
    BY DEF IInv, CheckpointInv
<1>2. written \in Nat /\ n \in Nat
    <2>1. checkpoint.op \in Nat
        BY DEF IInv, TypeInv
    <2> QED
        BY <2>1, Bounds, Steps
<1> HIDE DEF n, table
<1>3. CASE checkpoint.op > 0
    <2>1. n <= written' /\ \A o \in 1..n : log'[o] = log[o]
        <3>1. \A o \in 1..n : o \in 1..written
            BY <1>1, <1>2, <1>3
        <3> QED
            BY <1>1, <1>2, <1>3, <3>1
    <2>2. TableOf(table, log', n)
        BY <1>1, <1>2, <1>3, <2>1, TableKept
    <2>3. \A c \in Client : Known(table, c) => OfLog(log', c, table[c])
        BY <1>1, <1>2, <1>3, <2>1, OfLogKept
    <2> QED
        BY <1>1, <1>3, <2>1, <2>2, <2>3 DEF CheckpointInv, n, table
<1>4. CASE ~(checkpoint.op > 0)
    BY <1>1, <1>4 DEF CheckpointInv, table
<1> QED
    BY <1>3, <1>4

\* A step that leaves the replica but replies, or evicts.
LEMMA Answered ==
    ASSUME IInv, UNCHANGED soloVars, UNCHANGED <<client, requests>>, RepliesInv', ClientsInv'
    PROVE  IInv'
<1>1. UNCHANGED <<status, log, written, commit_min, sessions, committed, checkpoint, restarts>>
    BY DEF soloVars
<1>2. TypeInv'
    BY <1>1 DEF IInv, TypeInv
<1>3. CheckpointInv' /\ ReplayInv' /\ TablesInv' /\ LogInv'
    BY <1>1 DEF IInv, CheckpointInv, ReplayInv, TablesInv, LogInv, Extent, OpCompacted
<1> QED
    BY <1>2, <1>3 DEF IInv

\* The session of a client that asks is one it registered.
LEMMA Asking ==
    ASSUME IInv, NEW m \in requests, m.kind # "register"
    PROVE  /\ m.client \in Client /\ m.request \in Nat \ {0} /\ m.session = client[m.client].session
           /\ client[m.client].request_number > 1 /\ m.session \in 1..Replied
           /\ RegisterOf(log, m.session, m.client)
BY DEF IInv, ClientsInv, Registered

\* A client is told that it is evicted.
LEMMA OnRequestEvictStep ==
    ASSUME IInv, NEW m \in requests, OnRequestEvict(m)
    PROVE  IInv'
<1> DEFINE c == m.client
           s == m.session
<1>1. /\ status = "normal" /\ m.kind # "register"
      /\ (Known(sessions, c) /\ sessions[c].session > s) \/ ~Known(sessions, c)
      /\ evictions' = evictions \cup {[client |-> c, view |-> 0]}
      /\ UNCHANGED <<soloVars, client, requests, replies>>
    BY DEF OnRequestEvict, Evicts
<1>2. /\ c \in Client /\ s = client[c].session /\ client[c].request_number > 1
      /\ s \in 1..Extent /\ RegisterOf(log, s, c)
    BY <1>1, Asking, Bounds
<1>3. Extent \in 0..written /\ written \in 0..Len(log) /\ Len(log) \in Nat
    BY Bounds
<1>4. TableOf(sessions, log, Extent)
    BY DEF IInv, TablesInv
<1> HIDE DEF c, s
<1>5. OtherRegisters(log, c, s + 1, written)
    <2>1. CASE ~Known(sessions, c)
        <3>1. OtherRegisters(log, c, s + 1, Extent)
            BY <1>2, <1>4, <2>1 DEF TableOf
        <3> QED
            BY <1>2, <1>3, <3>1, OthersKept
    <2>2. CASE Known(sessions, c) /\ sessions[c].session > s
        <3> DEFINE t == sessions[c].session
        <3>1. t \in 1..Extent /\ RegisterOf(log, t, c) /\ s < t
            BY <1>2, <1>4, <2>2 DEF TableOf
        <3> HIDE DEF t
        <3>2. s \in 1..Len(log) /\ t \in 1..Len(log) /\ t - 1 <= written
            BY <1>2, <1>3, <3>1
        <3>3. OtherRegisters(log, c, s + 1, t - 1)
            BY <1>2, <3>1, <3>2 DEF IInv, LogInv
        <3> QED
            BY <1>2, <1>3, <3>2, <3>3, OthersKept
    <2> QED
        BY <1>1, <2>1, <2>2
<1>6. Gone(c)
    BY <1>2, <1>5 DEF Gone
<1>7. \A d \in Client : (Registered(d)' <=> Registered(d)) /\ (Gone(d)' <=> Gone(d))
    BY <1>1 DEF Registered, Gone, Replied, soloVars
<1>8. ClientsInv'
    BY <1>1, <1>2, <1>6, <1>7 DEF IInv, ClientsInv
<1>9. RepliesInv'
    BY <1>1 DEF IInv, RepliesInv, Replied, soloVars
<1> QED
    BY <1>1, <1>8, <1>9, Answered

\* The last reply is sent again.
LEMMA OnRequestRepeatStep ==
    ASSUME IInv, NEW m \in requests, OnRequestRepeat(m)
    PROVE  IInv'
<1> DEFINE c == m.client
           r == ReplyOf(c, sessions[c], 0)
<1>1. /\ status = "normal" /\ Known(sessions, c) /\ replies' = replies \cup {r}
      /\ UNCHANGED soloVars /\ UNCHANGED <<client, requests, evictions>>
    BY DEF OnRequestRepeat, Repeats, SameSession
<1>2. /\ r.client = c /\ r.request = sessions[c].request /\ r.op = sessions[c].op
      /\ r.context = sessions[c].context
    BY DEF ReplyOf
<1> HIDE DEF r
<1>3. c \in Client
    BY DEF IInv, ClientsInv
<1>4. /\ sessions[c].op \in 1..Extent /\ log[sessions[c].op].client = c
      /\ OfLog(log, c, sessions[c]) \/ OfRead(sessions[c])
    BY <1>1, <1>3 DEF IInv, TablesInv, TableOf
<1>5. Extent = Replied
    BY <1>1, Bounds
<1>6. Replied \in Nat /\ written \in Nat
    BY Bounds
<1>7. UNCHANGED <<status, log, written, commit_min>> /\ Replied' = Replied
    BY <1>1 DEF soloVars, Replied
<1>8. \/ OfRead(r)
      \/ r.op \in 1..Replied' /\ log'[r.op].client = r.client /\ OfLog(log', r.client, r)
    BY <1>2, <1>4, <1>5, <1>7 DEF OfLog, OfRead
<1>9. RepliesInv'
    BY <1>1, <1>6, <1>7, <1>8, RepliesKept
<1>10. ClientsInv'
    BY <1>1, <1>6, <1>7, ClientsKept
<1> QED
    BY <1>1, <1>9, <1>10, Answered

\* A read that bypasses the log.
LEMMA OnRequestReadStep ==
    ASSUME IInv, NEW m \in requests, OnRequestRead(m)
    PROVE  IInv'
<1> DEFINE c == m.client
           old == sessions[c]
           context == <<old.context[1], m.request, restarts>>
           entry == [old EXCEPT !.request = m.request, !.context = context]
           r == ReplyOf(c, entry, 0)
<1>1. /\ m.kind # "register" /\ Known(sessions, c)
      /\ sessions' = [sessions EXCEPT ![c] = entry] /\ replies' = replies \cup {r}
      /\ UNCHANGED <<client, requests, evictions>>
      /\ UNCHANGED <<status, log, written, commit_min, committed, checkpoint, restarts>>
    BY DEF OnRequestRead, IsNew, SameSession
<1>2. c \in Client /\ m.request \in Nat \ {0}
    BY <1>1, Asking
<1>3. IsTable(sessions) /\ TableOf(sessions, log, Extent)
    BY DEF IInv, TypeInv, TablesInv
<1>4. IsEntry(old) /\ old.session \in Nat
    BY <1>2, <1>3 DEF IsTable, IsEntry
<1> DEFINE e1 == [old EXCEPT !.request = m.request]
<1> HIDE DEF old, context
<1>20. e1 = [session |-> old.session, request |-> m.request, op |-> old.op, context |-> old.context,
             view |-> old.view]
    BY <1>4 DEF IsEntry
<1>21. entry = [e1 EXCEPT !.context = context]
    OBVIOUS
<1> HIDE DEF e1
<1>5. entry = [session |-> old.session, request |-> m.request, op |-> old.op, context |-> context,
               view |-> old.view]
    BY <1>20, <1>21
<1>6. /\ r.client = c /\ r.request = entry.request /\ r.op = entry.op /\ r.context = entry.context
    BY DEF ReplyOf
<1> HIDE DEF r, entry
<1>7. /\ entry.session = old.session /\ entry.request = m.request /\ entry.op = old.op
      /\ entry.context = context /\ IsEntry(entry)
    BY <1>4, <1>5 DEF IsEntry
<1>8. OfRead(entry) /\ OfRead(r)
    BY <1>2, <1>6, <1>7 DEF OfRead, context
<1>9. /\ sessions = [d \in Client |-> sessions[d]] /\ \A d \in Client : IsEntry(sessions[d])
    BY <1>3 DEF IsTable
<1>10. /\ sessions' = [d \in Client |-> sessions'[d]] /\ sessions'[c] = entry
       /\ \A d \in Client \ {c} : sessions'[d] = sessions[d]
    BY <1>1, <1>2, <1>9
<1>11. IsTable(sessions')
    BY <1>7, <1>9, <1>10 DEF IsTable
<1>12. \A d \in Client : sessions'[d].session = sessions[d].session /\ sessions'[d].op = sessions[d].op
    BY <1>7, <1>10 DEF old
<1>13. Extent' = Extent /\ Replied' = Replied
    BY <1>1 DEF Extent, OpCompacted, Replied
<1>14. TypeInv'
    BY <1>1, <1>11 DEF IInv, TypeInv
<1>15. TablesInv'
    <2>1. TableOf(sessions', log, Extent)
        BY <1>3, <1>12 DEF TableOf, Known
    <2>2. ASSUME NEW d \in Client, Known(sessions', d)
          PROVE  OfLog(log, d, sessions'[d]) \/ OfRead(sessions'[d])
        <3>1. CASE d = c
            BY <1>8, <1>10, <3>1
        <3>2. CASE d # c
            BY <1>10, <2>2, <3>2 DEF IInv, TablesInv, Known
        <3> QED
            BY <3>1, <3>2
    <2>3. \A d \in Client : Known(committed, d) => OfLog(log, d, committed[d])
        BY DEF IInv, TablesInv
    <2>4. TableOf(committed, log, Extent)
        BY DEF IInv, TablesInv
    <2> QED
        BY <1>1, <1>13, <2>1, <2>2, <2>3, <2>4 DEF TablesInv
<1>16. CheckpointInv' /\ ReplayInv' /\ LogInv'
    BY <1>1, <1>13 DEF IInv, CheckpointInv, ReplayInv, LogInv
<1>17. RepliesInv' /\ ClientsInv'
    <2>1. Replied \in Nat /\ written \in Nat
        BY Bounds
    <2>2. RepliesInv'
        BY <1>1, <1>8, <1>13, <2>1, RepliesKept
    <2> QED
        BY <1>1, <1>13, <2>1, <2>2, ClientsKept
<1> QED
    BY <1>14, <1>15, <1>16, <1>17 DEF IInv

\* A request is prepared.
LEMMA OnRequestPrepareStep ==
    ASSUME IInv, NEW m \in requests, OnRequestPrepare(m)
    PROVE  IInv'
<1> DEFINE c == m.client
           p == [client |-> c, request |-> m.request, kind |-> m.kind, view |-> 0]
           n == Len(log)
<1>1. /\ status = "normal" /\ IsNew(sessions, m) /\ ~Preparing(c) /\ log' = Append(log, p)
      /\ UNCHANGED clientVars
      /\ UNCHANGED <<status, written, commit_min, sessions, committed, checkpoint, restarts>>
    BY DEF OnRequestPrepare
<1>2. UNCHANGED <<client, requests, replies, evictions>>
    BY <1>1 DEF clientVars
<1>3. c \in Client /\ m.request \in Nat /\ p \in LogEntry
    BY DEF IInv, ClientsInv, LogEntry
<1>4. /\ log \in Seq(LogEntry) /\ n \in Nat /\ written \in 0..n /\ commit_min \in 0..written
      /\ Extent = commit_min /\ Replied \in 0..written /\ \A o \in 1..n : log[o] \in LogEntry
    BY <1>1, Bounds DEF IInv, TypeInv
<1>5. /\ p.client = c /\ p.kind = m.kind
    OBVIOUS
<1> HIDE DEF p
<1>6. /\ log' \in Seq(LogEntry) /\ Len(log') = n + 1 /\ log'[n + 1] = p
      /\ \A o \in 1..n : log'[o] = log[o]
    BY <1>1, <1>3, <1>4
<1>7. Extent' = Extent /\ Replied' = Replied
    BY <1>1 DEF Extent, OpCompacted, Replied
<1> HIDE DEF n
<1>8. TypeInv'
    <2>1. written \in 0..n + 1
        BY <1>4
    <2> QED
        BY <1>1, <1>2, <1>4, <1>6, <2>1 DEF IInv, TypeInv
<1>9. /\ \A o \in 1..written : log'[o] = log[o]
      /\ \A o \in 1..Extent : log'[o] = log[o]
    <2>1. /\ \A o \in 1..written : o \in 1..n
          /\ \A o \in 1..Extent : o \in 1..n
        BY <1>4
    <2> QED
        BY <1>6, <2>1
<1>10. written \in Nat /\ Replied \in Nat /\ written <= written /\ Replied <= Replied
    BY <1>4
<1>11. CheckpointInv'
    BY <1>1, <1>9, <1>10, CheckpointKept
<1>12. ReplayInv'
    BY <1>1, <1>7 DEF IInv, ReplayInv
<1>13. TablesInv'
    BY <1>1, <1>7, <1>9, TablesKept
<1>14. RepliesInv'
    BY <1>2, <1>7, <1>9, <1>10, RepliesKept
<1>15. ClientsInv'
    BY <1>1, <1>2, <1>7, <1>9, <1>10, ClientsKept
<1>16. m.kind = "register" => ~Known(sessions, c)
    <2>1. SUFFICES ASSUME m.kind = "register", Known(sessions, c) PROVE FALSE
        OBVIOUS
    <2>2. m.request = 0 /\ sessions[c].request + 1 = 0
        BY <1>1, <2>1 DEF IsNew, IInv, ClientsInv
    <2>3. sessions[c].op \in 1..Extent /\ (OfLog(log, c, sessions[c]) \/ OfRead(sessions[c]))
        BY <1>3, <2>1 DEF IInv, TablesInv, TableOf
    <2>4. sessions[c].request \in Nat
        <3>1. CASE OfRead(sessions[c])
            BY <3>1 DEF OfRead
        <3>2. CASE OfLog(log, c, sessions[c])
            <4>1. sessions[c].op \in 1..n
                BY <1>4, <2>3
            <4> QED
                BY <1>4, <3>2, <4>1 DEF OfLog, LogEntry
        <3> QED
            BY <2>3, <3>1, <3>2
    <2> QED
        BY <2>2, <2>4
<1>17. LogInv'
    <2>1. ASSUME NEW i \in 1..n + 1, NEW j \in 1..n + 1, NEW d \in Client, i < j,
                 RegisterOf(log', i, d), RegisterOf(log', j, d)
          PROVE  OtherRegisters(log', d, i + 1, j - 1)
        <3>1. i \in 1..n /\ RegisterOf(log, i, d) /\ j - 1 \in Int /\ i + 1 \in Int
            <4>1. i \in 1..n /\ j - 1 \in Int /\ i + 1 \in Int
                BY <1>4, <2>1
            <4> QED
                BY <1>6, <2>1, <4>1 DEF RegisterOf
        <3>2. \A o \in i + 1..j - 1 : log'[o] = log[o]
            <4>1. \A o \in i + 1..j - 1 : o \in 1..n
                BY <1>4
            <4> QED
                BY <1>6, <4>1
        <3>3. OtherRegisters(log, d, i + 1, j - 1)
            <4>1. CASE j \in 1..n
                <5>1. RegisterOf(log, j, d)
                    BY <1>6, <2>1, <4>1 DEF RegisterOf
                <5> QED
                    BY <2>1, <3>1, <4>1, <5>1 DEF IInv, LogInv, n
            <4>2. CASE j = n + 1
                <5>1. d = c /\ ~Known(sessions, c)
                    BY <1>5, <1>6, <1>16, <2>1, <4>2 DEF RegisterOf
                <5>2. i \in 1..Extent
                    <6>1. ~(i \in commit_min + 1..n)
                        BY <1>1, <3>1, <5>1 DEF Preparing, RegisterOf, n
                    <6> QED
                        BY <1>4, <3>1, <6>1
                <5>3. OtherRegisters(log, d, i + 1, Extent)
                    BY <1>3, <3>1, <5>1, <5>2 DEF IInv, TablesInv, TableOf
                <5>4. Extent \in Int /\ Extent <= j - 1
                    BY <1>4, <4>2
                <5> QED
                    BY <3>1, <5>3, <5>4, OthersKept
            <4> QED
                BY <1>4, <4>1, <4>2
        <3>4. j - 1 <= j - 1
            BY <3>1
        <3> QED
            BY <3>1, <3>2, <3>3, <3>4, OthersKept
    <2> QED
        BY <1>6, <2>1 DEF LogInv
<1> QED
    BY <1>8, <1>11, <1>12, <1>13, <1>14, <1>15, <1>17 DEF IInv

\* A prepare is on disk.
LEMMA WritePrepareStep ==
    ASSUME IInv, WritePrepare
    PROVE  IInv'
<1>1. /\ written < Len(log) /\ written' = written + 1 /\ UNCHANGED clientVars
      /\ UNCHANGED <<status, log, commit_min, sessions, committed, checkpoint, restarts>>
    BY DEF WritePrepare
<1>2. UNCHANGED <<client, requests, replies, evictions>>
    BY <1>1 DEF clientVars
<1>3. Len(log) \in Nat /\ written \in 0..Len(log) /\ commit_min \in 0..written /\ Replied \in 0..written
    BY Bounds
<1>4. status = "normal"
    BY <1>1, <1>3 DEF IInv, TypeInv, ReplayInv
<1>5. Extent' = Extent /\ Replied' = Replied
    BY <1>1, <1>4 DEF Extent, OpCompacted, Replied
<1>6. written' \in 0..Len(log) /\ commit_min \in 0..written' /\ written <= written' /\ written' \in Nat
      /\ Replied \in Nat
    BY <1>1, <1>3
<1>7. TypeInv'
    BY <1>1, <1>2, <1>6 DEF IInv, TypeInv
<1>8. CheckpointInv'
    BY <1>1, <1>6, CheckpointKept
<1>9. ReplayInv'
    BY <1>1, <1>4, <1>5 DEF IInv, ReplayInv
<1>10. TablesInv'
    BY <1>1, <1>5, TablesKept
<1>11. LogInv'
    BY <1>1 DEF IInv, LogInv
<1>12. RepliesInv'
    BY <1>1, <1>2, <1>5, <1>6, RepliesKept
<1>13. ClientsInv'
    BY <1>1, <1>2, <1>5, <1>6, ClientsKept
<1> QED
    BY <1>7, <1>8, <1>9, <1>10, <1>11, <1>12, <1>13 DEF IInv

-----------------------------------------------------------------------------
\* The next operation that a replica executes, in both tables.
LEMMA BothExecute ==
    ASSUME IInv, commit_min = Extent, commit_min + 1 \in 1..Len(log), NEW p, p = log[commit_min + 1],
           sessions' = TableExecute(sessions, p, commit_min + 1),
           committed' = TableExecute(committed, p, commit_min + 1),
           log' = log, Extent' = commit_min + 1
    PROVE  TablesInv' /\ IsTable(sessions') /\ IsTable(committed')
<1> DEFINE n == commit_min
<1>1. n \in Nat /\ p \in LogEntry /\ log[n + 1] = p
    BY Bounds
<1>2. /\ IsTable(sessions) /\ TableOf(sessions, log, n)
      /\ IsTable(committed) /\ TableOf(committed, log, n)
    BY DEF IInv, TypeInv, TablesInv
<1> HIDE DEF n
<1>3. /\ IsTable(sessions') /\ TableOf(sessions', log, n + 1)
      /\ \A c \in Client : Known(sessions', c) =>
            (Known(sessions, c) /\ sessions'[c] = sessions[c]) \/ (c = p.client /\ OfLog(log, c, sessions'[c]))
    BY <1>1, <1>2, ExecuteTable DEF n
<1>4. /\ IsTable(committed') /\ TableOf(committed', log, n + 1)
      /\ \A c \in Client : Known(committed', c) =>
            (Known(committed, c) /\ committed'[c] = committed[c]) \/ (c = p.client /\ OfLog(log, c, committed'[c]))
    BY <1>1, <1>2, ExecuteTable DEF n
<1>5. \A c \in Client : /\ Known(committed', c) => OfLog(log, c, committed'[c])
                        /\ Known(sessions', c) => OfLog(log, c, sessions'[c]) \/ OfRead(sessions'[c])
    BY <1>3, <1>4 DEF IInv, TablesInv
<1> QED
    BY <1>3, <1>4, <1>5 DEF TablesInv, n

\* The reply to the operation op of the log.
LEMMA ReplyOfLog ==
    ASSUME NEW l, NEW op, NEW session
    PROVE  LET r == ReplyOf(l[op].client, EntryOf(l[op], op, session), 0)
           IN r.op = op /\ r.client = l[op].client /\ OfLog(l, r.client, r)
BY DEF ReplyOf, EntryOf, OfLog

\* An operation commits.
LEMMA CommitStep ==
    ASSUME IInv, Commit
    PROVE  IInv'
<1> DEFINE op == commit_min + 1
           p == log[op]
           r == ReplyOf(log[op].client, EntryOf(log[op], op, 0), 0)
<1>1. /\ status = "normal" /\ op <= Len(log) /\ op <= written /\ commit_min' = op
      /\ sessions' = TableExecute(sessions, p, op) /\ committed' = TableExecute(committed, p, op)
      /\ replies' = replies \cup {r}
      /\ UNCHANGED <<client, requests, evictions>>
      /\ UNCHANGED <<status, log, written, checkpoint, restarts>>
    BY DEF Commit, Committable
<1>2. /\ Len(log) \in Nat /\ written \in 0..Len(log) /\ commit_min \in 0..written /\ Replied = commit_min
      /\ Extent = commit_min /\ checkpoint.op \in Nat
    BY <1>1, Bounds DEF IInv, TypeInv
<1>3. op \in 1..Len(log) /\ op \in 0..written /\ op \in Nat /\ commit_min <= op
    BY <1>1, <1>2
<1>4. ~OpCompacted(op)
    <2>1. CASE OpCompacted(commit_min)
        <3>1. commit_min = checkpoint.op + CompactionOps
            BY <1>2, <2>1 DEF Extent
        <3> QED
            BY <1>2, <3>1, Steps DEF OpCompacted
    <2>2. CASE ~OpCompacted(commit_min)
        BY <1>2, <2>2, Steps DEF OpCompacted
    <2> QED
        BY <2>1, <2>2
<1>5. Extent' = op /\ Replied' = op
    BY <1>1, <1>4 DEF Extent, OpCompacted, Replied
<1>6. TablesInv' /\ IsTable(sessions') /\ IsTable(committed')
    BY <1>1, <1>2, <1>3, <1>5, BothExecute
<1>7. r.op = op /\ r.client = log[op].client /\ OfLog(log, r.client, r)
    BY ReplyOfLog
<1> HIDE DEF op, p, r
<1>8. TypeInv'
    BY <1>1, <1>3, <1>6 DEF IInv, TypeInv
<1>9. CheckpointInv'
    BY <1>1 DEF IInv, CheckpointInv
<1>10. ReplayInv' /\ LogInv'
    BY <1>1, <1>5 DEF IInv, ReplayInv, LogInv
<1>11. Replied <= Replied' /\ Replied' \in Nat /\ written \in Nat /\ written <= written
    BY <1>2, <1>3, <1>5
<1>12. RepliesInv'
    <2>1. r.op \in 1..Replied'
        BY <1>3, <1>5, <1>7
    <2>2. \A m \in replies' :
            \/ m \in replies \/ OfRead(m)
            \/ m.op \in 1..Replied' /\ log'[m.op].client = m.client /\ OfLog(log', m.client, m)
        BY <1>1, <1>7, <2>1
    <2> QED
        BY <1>1, <1>11, <2>2, RepliesKept
<1>13. ClientsInv'
    BY <1>1, <1>11, ClientsKept
<1> QED
    BY <1>6, <1>8, <1>9, <1>10, <1>12, <1>13 DEF IInv

\* A checkpoint is taken.
LEMMA CheckpointStep ==
    ASSUME IInv, CommitCheckpoint
    PROVE  IInv'
<1>1. /\ commit_min = CheckpointNext + CompactionOps
      /\ checkpoint' = [op |-> CheckpointNext, table |-> committed]
      /\ status' = IF commit_min = Len(log) THEN "normal" ELSE status
      /\ UNCHANGED clientVars /\ UNCHANGED <<log, written, commit_min, sessions, committed, restarts>>
    BY DEF CommitCheckpoint, CheckpointDue, Snapshot
<1>2. UNCHANGED <<client, requests, replies, evictions>>
    BY <1>1 DEF clientVars
<1>3. /\ Len(log) \in Nat /\ written \in 0..Len(log) /\ commit_min \in 0..written
      /\ checkpoint.op \in Nat /\ status \in {"normal", "recovering"}
    BY Bounds DEF IInv, TypeInv
<1>4. CheckpointNext \in Nat /\ CheckpointNext > 0 /\ CheckpointNext > checkpoint.op
    BY <1>3, Steps DEF CheckpointNext
<1>5. checkpoint'.op = CheckpointNext /\ checkpoint'.table = committed
    BY <1>1
<1>6. Extent = commit_min
    <2>1. ~OpCompacted(commit_min)
        BY <1>1, <1>3, <1>4, Steps DEF OpCompacted
    <2> QED
        BY <2>1 DEF Extent
<1>7. Extent' = commit_min
    BY <1>1, <1>5 DEF Extent, OpCompacted
<1>8. Replied' = Replied
    <2>1. CASE status' = status
        BY <1>1, <2>1 DEF Replied
    <2>2. CASE status' # status
        <3>1. commit_min = Len(log) /\ status' = "normal" /\ status # "normal" /\ written = Len(log)
            BY <1>1, <1>3, <2>2 DEF IInv, ReplayInv
        <3> QED
            BY <1>1, <3>1 DEF Replied
    <2> QED
        BY <2>1, <2>2
<1>9. TypeInv'
    <2>1. checkpoint' = [op |-> checkpoint'.op, table |-> checkpoint'.table]
        BY <1>1, <1>5
    <2>2. status' \in {"normal", "recovering"} /\ checkpoint'.op \in Nat
        BY <1>1, <1>3, <1>4, <1>5
    <2>3. IsTable(checkpoint'.table)
        BY <1>5 DEF IInv, TypeInv
    <2> QED
        BY <1>1, <1>2, <2>1, <2>2, <2>3 DEF IInv, TypeInv
<1>10. CheckpointInv'
    <2>1. TableOf(committed, log, commit_min) /\ \A c \in Client : Known(committed, c) => OfLog(log, c, committed[c])
        BY <1>6 DEF IInv, TablesInv
    <2>2. commit_min <= written /\ CheckpointNext # 0
        BY <1>3, <1>4
    <2>3. checkpoint'.op + CompactionOps = commit_min /\ checkpoint'.op # 0
        BY <1>1, <1>5, <2>2
    <2> QED
        BY <1>1, <1>5, <2>1, <2>2, <2>3 DEF CheckpointInv
<1>11. ReplayInv'
    <2>1. status' = "recovering" => status = "recovering"
        BY <1>1
    <2> QED
        BY <1>1, <1>7, <2>1 DEF IInv, ReplayInv
<1>12. TablesInv'
    BY <1>1, <1>6, <1>7 DEF IInv, TablesInv
<1>13. LogInv' /\ RepliesInv'
    BY <1>1, <1>2, <1>8 DEF IInv, LogInv, RepliesInv
<1>14. ClientsInv'
    <2>1. Replied \in Nat /\ written \in Nat /\ Replied <= Replied /\ written <= written
        BY Bounds
    <2> QED
        BY <1>1, <1>2, <1>8, <2>1, ClientsKept
<1> QED
    BY <1>9, <1>10, <1>11, <1>12, <1>13, <1>14 DEF IInv

\* The empty table is of no operation.
LEMMA EmptyTableOf ==
    ASSUME NEW l
    PROVE  TableOf(EmptyTable, l, 0) /\ IsTable(EmptyTable) /\ \A c \in Client : ~Known(EmptyTable, c)
<1>1. \A c \in Client : EmptyTable[c] = Absent /\ Absent.session = 0
    BY DEF EmptyTable, Absent
<1>2. EmptyTable = [c \in Client |-> EmptyTable[c]]
    BY DEF EmptyTable
<1>3. IsEntry(Absent)
    BY DEF IsEntry, Absent
<1>4. \A c \in Client : ~Known(EmptyTable, c)
    BY <1>1 DEF Known
<1>5. ~\E o \in 1..0 : TRUE
    OBVIOUS
<1>6. TableOf(EmptyTable, l, 0)
    BY <1>4, <1>5 DEF TableOf
<1> QED
    BY <1>1, <1>2, <1>3, <1>4, <1>6 DEF IsTable

\* The replica restarts.
LEMMA CrashRestartStep ==
    ASSUME IInv, CrashRestart
    PROVE  IInv'
<1> DEFINE C == checkpoint.op
           table == checkpoint.table
<1>1. PICK n \in written..Len(log) :
          /\ log' = SubSeq(log, 1, n) /\ written' = n
          /\ status' = IF C < n THEN "recovering" ELSE "normal"
    BY DEF CrashRestart
<1>2. /\ commit_min' = C /\ sessions' = table /\ committed' = table /\ restarts' = restarts + 1
      /\ UNCHANGED <<client, requests, replies, evictions>> /\ checkpoint' = checkpoint
    BY DEF CrashRestart, clientVars
<1>3. /\ Len(log) \in Nat /\ written \in 0..Len(log) /\ log \in Seq(LogEntry) /\ C \in Nat
      /\ Replied \in 0..written /\ IsTable(table) /\ restarts \in Nat
    BY Bounds DEF IInv, TypeInv
<1>4. n \in 0..Len(log) /\ n \in Nat /\ written <= n
    BY <1>1, <1>3
<1>5. log' \in Seq(LogEntry) /\ Len(log') = n /\ \A o \in 1..n : log'[o] = log[o]
    <2>1. 1 \in 1..Len(log) + 1 /\ n \in 1 - 1..Len(log)
        BY <1>3, <1>4
    <2>2. /\ SubSeq(log, 1, n) \in Seq(LogEntry) /\ Len(SubSeq(log, 1, n)) = n
          /\ \A o \in 1..n : SubSeq(log, 1, n)[o] = log[o]
        BY <1>3, <1>4
    <2> QED
        BY <1>1, <2>2
<1>6. \A o \in 1..written : log'[o] = log[o]
    <2>1. \A o \in 1..written : o \in 1..n
        BY <1>3, <1>4
    <2> QED
        BY <1>5, <2>1
<1>7. CheckpointInv'
    BY <1>1, <1>2, <1>4, <1>6, CheckpointKept
<1>8. /\ C = 0 => table = EmptyTable
      /\ C > 0 => /\ C + CompactionOps <= n /\ TableOf(table, log', C + CompactionOps)
                  /\ \A c \in Client : Known(table, c) => OfLog(log', c, table[c])
    BY <1>1, <1>2, <1>7 DEF CheckpointInv
<1> HIDE DEF C, table
<1>9. C = 0 \/ C > 0
    BY <1>3
<1>10. C \in 0..n
    BY <1>3, <1>4, <1>8, <1>9, Steps
<1>11. Extent' = IF C > 0 THEN C + CompactionOps ELSE 0
    <2>1. C > 0 => C <= C + CompactionOps
        BY <1>3, Steps
    <2>2. checkpoint'.op = C /\ commit_min' = C
        BY <1>2 DEF C
    <2> QED
        BY <1>9, <2>1, <2>2 DEF Extent, OpCompacted
<1>12. status' = "normal" => C = 0 /\ n = 0
    BY <1>1, <1>3, <1>4, <1>8, <1>9, Steps
<1>13. Replied' = n
    <2>1. CASE status' = "normal"
        BY <1>2, <1>12, <2>1 DEF Replied
    <2>2. CASE status' # "normal"
        BY <1>1, <2>2 DEF Replied
    <2> QED
        BY <2>1, <2>2
<1>14. TypeInv'
    <2>1. status' \in {"normal", "recovering"} /\ restarts' \in Nat /\ written' \in 0..Len(log')
        BY <1>1, <1>2, <1>3, <1>4, <1>5
    <2>2. commit_min' \in 0..written' /\ IsTable(sessions') /\ IsTable(committed')
        BY <1>1, <1>2, <1>3, <1>10
    <2> QED
        BY <1>2, <1>5, <2>1, <2>2 DEF IInv, TypeInv
<1>15. ReplayInv'
    BY <1>1, <1>2, <1>5, <1>11, <1>12 DEF ReplayInv
<1>16. TablesInv'
    <2>1. TableOf(table, log', Extent') /\ \A c \in Client : Known(table, c) => OfLog(log', c, table[c])
        <3>1. CASE C > 0
            BY <1>8, <1>11, <3>1
        <3>2. CASE C = 0
            <4>1. Extent' = 0
                BY <1>3, <1>11, <3>2
            <4> QED
                BY <1>8, <3>2, <4>1, EmptyTableOf
        <3> QED
            BY <1>9, <3>1, <3>2
    <2> QED
        BY <1>2, <2>1 DEF TablesInv
<1>17. LogInv'
    <2>1. ASSUME NEW i \in 1..n, NEW j \in 1..n, NEW c \in Client, i < j,
                 RegisterOf(log', i, c), RegisterOf(log', j, c)
          PROVE  OtherRegisters(log', c, i + 1, j - 1)
        <3>1. i \in 1..Len(log) /\ j \in 1..Len(log) /\ \A o \in i + 1..j - 1 : o \in 1..n
            BY <1>4
        <3>2. RegisterOf(log, i, c) /\ RegisterOf(log, j, c)
            BY <1>5, <2>1 DEF RegisterOf
        <3>3. OtherRegisters(log, c, i + 1, j - 1)
            BY <2>1, <3>1, <3>2 DEF IInv, LogInv
        <3> QED
            BY <1>5, <3>1, <3>3 DEF OtherRegisters
    <2> QED
        BY <1>5, <2>1 DEF LogInv
<1>18. Replied <= Replied' /\ Replied' \in Nat
    BY <1>3, <1>4, <1>13
<1>19. RepliesInv'
    BY <1>2, <1>6, <1>18, RepliesKept
<1>20. ClientsInv'
    BY <1>1, <1>2, <1>4, <1>6, <1>18, ClientsKept
<1> QED
    BY <1>7, <1>14, <1>15, <1>16, <1>17, <1>19, <1>20 DEF IInv

\* An operation that replay leaves out of the tables.
LEMMA BothKeep ==
    ASSUME IInv, commit_min = Extent, commit_min + 1 \in 1..Len(log), log[commit_min + 1].kind # "register",
           UNCHANGED <<sessions, committed, log>>, Extent' = commit_min + 1
    PROVE  TablesInv'
<1>1. commit_min \in Nat
    BY Bounds
<1>2. TableOf(sessions, log, commit_min) /\ TableOf(committed, log, commit_min)
    BY DEF IInv, TablesInv
<1>3. TableOf(sessions, log, commit_min + 1) /\ TableOf(committed, log, commit_min + 1)
    BY <1>1, <1>2, TableOfNext
<1> QED
    BY <1>3 DEF IInv, TablesInv

\* An operation is replayed.
LEMMA ReplayStep ==
    ASSUME IInv, Replay
    PROVE  IInv'
<1> DEFINE op == commit_min + 1
           p == log[op]
           r == ReplyOf(log[op].client, EntryOf(log[op], op, 0), 0)
           inTable == ~OpCompacted(op) /\ p.kind = "register"
<1>1. /\ status = "recovering" /\ op <= Len(log) /\ commit_min' = op
      /\ sessions' = IF inTable THEN TableExecute(sessions, p, op) ELSE sessions
      /\ committed' = IF inTable THEN TableExecute(committed, p, op) ELSE committed
      /\ replies' = replies \cup {r}
      /\ UNCHANGED <<client, requests, evictions>> /\ UNCHANGED <<log, written, checkpoint, restarts>>
    BY DEF Replay, ReplaysInTable
<1>2. status' = "recovering" \/ (status' = "normal" /\ op = Len(log))
    BY <1>1 DEF Replay
<1>3. /\ Len(log) \in Nat /\ written = Len(log) /\ commit_min \in 0..written /\ Replied = written
      /\ checkpoint.op \in Nat
    BY <1>1, Bounds DEF IInv, TypeInv, ReplayInv, Replied
<1>4. op \in 1..Len(log) /\ op \in 0..written /\ op \in Nat
    BY <1>1, <1>3
<1>5. Replied' = Replied
    BY <1>1, <1>2, <1>3 DEF Replied
<1>6. TablesInv' /\ IsTable(sessions') /\ IsTable(committed') /\ (status' = "normal" => op = Extent')
    <2>1. CASE OpCompacted(op)
        <3>1. UNCHANGED <<sessions, committed>>
            BY <1>1, <2>1
        <3>2. OpCompacted(commit_min)
            BY <1>3, <2>1, Steps DEF OpCompacted
        <3>3. Extent' = checkpoint.op + CompactionOps /\ Extent = checkpoint.op + CompactionOps
            BY <1>1, <2>1, <3>2 DEF Extent, OpCompacted
        <3>4. TablesInv'
            BY <1>1, <3>1, <3>3, TablesKept
        <3>5. op = Len(log) => op = checkpoint.op + CompactionOps
            <4>1. op <= checkpoint.op + CompactionOps /\ checkpoint.op + CompactionOps <= written
                BY <2>1 DEF OpCompacted, IInv, CheckpointInv
            <4> QED
                BY <1>3, <4>1, Steps
        <3> QED
            BY <1>2, <3>1, <3>3, <3>4, <3>5 DEF IInv, TypeInv
    <2>2. CASE ~OpCompacted(op)
        <3>1. commit_min = Extent
            <4>1. CASE OpCompacted(commit_min)
                <5>1. commit_min = checkpoint.op + CompactionOps
                    BY <1>3, <2>2, <4>1, Steps DEF OpCompacted
                <5> QED
                    BY <4>1, <5>1 DEF Extent
            <4>2. CASE ~OpCompacted(commit_min)
                BY <4>2 DEF Extent
            <4> QED
                BY <4>1, <4>2
        <3>2. Extent' = op
            BY <1>1, <2>2 DEF Extent, OpCompacted
        <3>3. CASE inTable
            BY <1>1, <1>4, <3>1, <3>2, <3>3, BothExecute
        <3>4. CASE ~inTable
            <4>1. UNCHANGED <<sessions, committed, log>> /\ log[op].kind # "register"
                BY <1>1, <2>2, <3>4
            <4>2. TablesInv'
                BY <1>4, <3>1, <3>2, <4>1, BothKeep
            <4> QED
                BY <3>2, <4>1, <4>2 DEF IInv, TypeInv
        <3> QED
            BY <3>2, <3>3, <3>4
    <2> QED
        BY <2>1, <2>2
<1>7. r.op = op /\ r.client = log[op].client /\ OfLog(log, r.client, r)
    BY ReplyOfLog
<1> HIDE DEF op, p, r, inTable
<1>8. TypeInv'
    BY <1>1, <1>2, <1>4, <1>6 DEF IInv, TypeInv
<1>9. CheckpointInv' /\ LogInv'
    BY <1>1 DEF IInv, CheckpointInv, LogInv
<1>10. ReplayInv'
    BY <1>1, <1>3, <1>6 DEF ReplayInv
<1>11. Replied <= Replied' /\ Replied' \in Nat /\ written \in Nat /\ written <= written
    BY <1>3, <1>5
<1>12. RepliesInv'
    <2>1. r.op \in 1..Replied'
        BY <1>3, <1>4, <1>5, <1>7
    <2>2. \A m \in replies' :
            \/ m \in replies \/ OfRead(m)
            \/ m.op \in 1..Replied' /\ log'[m.op].client = m.client /\ OfLog(log', m.client, m)
        BY <1>1, <1>7, <2>1
    <2> QED
        BY <1>1, <1>11, <2>2, RepliesKept
<1>13. ClientsInv'
    BY <1>1, <1>11, ClientsKept
<1> QED
    BY <1>6, <1>8, <1>9, <1>10, <1>12, <1>13 DEF IInv

-----------------------------------------------------------------------------
\* A replica, and clients, that have done nothing yet.
LEMMA InitIInv == SoloInit => IInv
<1> SUFFICES ASSUME SoloInit PROVE IInv
    OBVIOUS
<1> DEFINE me == [request_number |-> 0, inflight |-> FALSE, session |-> 0, parent |-> None, view |-> 0,
                  evicted |-> FALSE]
<1>1. /\ client = [c \in Client |-> me] /\ requests = {} /\ replies = {} /\ evictions = {}
      /\ status = "normal" /\ log = <<>> /\ written = 0 /\ commit_min = 0
      /\ sessions = EmptyTable /\ committed = EmptyTable
      /\ checkpoint = [op |-> 0, table |-> EmptyTable] /\ restarts = 0
    BY DEF SoloInit, ClientInit
<1>2. IsClient(me) /\ me.request_number = 0 /\ ~me.inflight /\ ~me.evicted
    BY DEF IsClient
<1> HIDE DEF me
<1>3. client = [c \in Client |-> client[c]] /\ \A c \in Client : client[c] = me
    BY <1>1
<1>4. log \in Seq(LogEntry) /\ Len(log) = 0
    BY <1>1
<1>5. checkpoint.op = 0 /\ checkpoint.table = EmptyTable
    BY <1>1
<1>6. Extent = 0
    BY <1>1, <1>5 DEF Extent, OpCompacted
<1>7. /\ TableOf(EmptyTable, log, 0) /\ IsTable(EmptyTable)
      /\ \A c \in Client : ~Known(EmptyTable, c)
    BY EmptyTableOf
<1>8. TypeInv
    <2>1. checkpoint = [op |-> checkpoint.op, table |-> checkpoint.table]
        BY <1>1, <1>5
    <2> QED
        BY <1>1, <1>2, <1>3, <1>4, <1>5, <1>7, <2>1 DEF TypeInv
<1>9. CheckpointInv /\ ReplayInv /\ TablesInv
    BY <1>1, <1>5, <1>6, <1>7 DEF CheckpointInv, ReplayInv, TablesInv
<1>10. LogInv
    <2>1. ~\E i \in 1..Len(log) : TRUE
        BY <1>4
    <2> QED
        BY <2>1 DEF LogInv
<1>11. RepliesInv /\ ClientsInv
    BY <1>1, <1>2, <1>3 DEF RepliesInv, ClientsInv
<1> QED
    BY <1>8, <1>9, <1>10, <1>11 DEF IInv

\* Every step keeps the invariant.
LEMMA NextIInv == IInv /\ [SoloNext]_clusterVars => IInv'
<1> SUFFICES ASSUME IInv, [SoloNext]_clusterVars PROVE IInv'
    OBVIOUS
<1>1. CASE ClientStep /\ UNCHANGED soloVars
    BY <1>1, ClientStepKept
<1>2. CASE OnRequest
    BY <1>2, OnRequestEvictStep, OnRequestRepeatStep, OnRequestReadStep, OnRequestPrepareStep DEF OnRequest
<1>3. CASE WritePrepare
    BY <1>3, WritePrepareStep
<1>4. CASE Commit
    BY <1>4, CommitStep
<1>5. CASE CommitCheckpoint
    BY <1>5, CheckpointStep
<1>6. CASE CrashRestart
    BY <1>6, CrashRestartStep
<1>7. CASE Replay
    BY <1>7, ReplayStep
<1>8. CASE UNCHANGED clusterVars
    BY <1>8 DEF clusterVars, clientVars, soloVars, IInv, TypeInv, CheckpointInv, ReplayInv, TablesInv, LogInv,
                RepliesInv, ClientsInv, Extent, OpCompacted, Replied, Registered, Gone
<1> QED
    BY <1>1, <1>2, <1>3, <1>4, <1>5, <1>6, <1>7, <1>8 DEF SoloNext, SoloStep

\* The inductive invariant of the sessions of a solo replica: both tables, and the checkpoint's, are what
\* the log leaves in them, whatever is replayed, restarted or read beside the log.
THEOREM SessionsHold == SoloSpec => []IInv
<1> QED
    BY InitIInv, NextIInv, PTL DEF SoloSpec

-----------------------------------------------------------------------------
\* What a client was replied outlives every crash: the operation is in the log on disk, for every
\* number of clients, operations, checkpoints and restarts.
THEOREM RepliedStays == SoloSpec => []RepliedIsWritten
<1>1. ASSUME IInv, NEW m \in replies, Len(m.context) = 2
      PROVE  m.op <= written /\ log[m.op].client = m.client /\ log[m.op].request = m.request
    <2>1. ~OfRead(m)
        <3>1. \A x, y, z : Len(<<x, y, z>>) # 2
            OBVIOUS
        <3> QED
            BY <1>1, <3>1 DEF OfRead
    <2>2. m.op \in 1..Replied /\ log[m.op].client = m.client /\ OfLog(log, m.client, m)
        BY <1>1, <2>1 DEF IInv, RepliesInv
    <2>3. m.op <= written
        BY <1>1, <2>2, Bounds
    <2> QED
        BY <2>2, <2>3 DEF OfLog
<1>2. IInv => RepliedIsWritten
    BY <1>1 DEF RepliedIsWritten
<1> QED
    BY <1>2, SessionsHold, PTL

\* A client that is told that it is evicted is: another client has registered since it did, and no
\* restart loses the session of a client (on_request, client_sessions, replay).
THEOREM EvictionsAreReal == SoloSpec => []EvictedIsEvicted
<1>1. ASSUME IInv, NEW c \in Client, client[c].evicted
      PROVE  \E o \in client[c].session + 1..Len(log) : log[o].kind = "register" /\ log[o].client # c
    <2>1. OtherRegisters(log, c, client[c].session + 1, written)
        BY <1>1 DEF IInv, ClientsInv, Gone
    <2>2. client[c].session + 1 \in Int /\ written \in Int /\ Len(log) \in Int /\ written <= Len(log)
        BY <1>1, Bounds DEF IInv, TypeInv, IsClient
    <2>3. OtherRegisters(log, c, client[c].session + 1, Len(log))
        BY <2>1, <2>2, OthersKept
    <2> QED
        BY <2>3 DEF OtherRegisters
<1>2. IInv => EvictedIsEvicted
    BY <1>1 DEF EvictedIsEvicted
<1> QED
    BY <1>2, SessionsHold, PTL

\* A checkpoint has only what the log has, without the reads that bypassed it
\* (client_sessions_encode_committed_snapshot).
THEOREM CheckpointsAreOfLog == SoloSpec => []CheckpointOfLog
<1>1. ASSUME IInv, NEW c \in Client, Known(checkpoint.table, c)
      PROVE  /\ log[checkpoint.table[c].op].client = c
             /\ log[checkpoint.table[c].op].request = checkpoint.table[c].request
    <2>1. checkpoint.op > 0
        <3>1. checkpoint.op # 0
            BY <1>1, EmptyTableOf DEF IInv, CheckpointInv
        <3> QED
            BY <1>1, <3>1 DEF IInv, TypeInv
    <2> QED
        BY <1>1, <2>1 DEF IInv, CheckpointInv, TableOf, OfLog
<1>2. IInv => CheckpointOfLog
    BY <1>1 DEF CheckpointOfLog
<1> QED
    BY <1>2, SessionsHold, PTL
==============================================================================
