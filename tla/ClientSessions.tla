--------------------------- MODULE ClientSessions ---------------------------
(***************************************************************************)
(* Client sessions: the protocol between a client (vsr/client.zig) and the *)
(* session table a replica keeps (vsr/client_sessions.zig), which makes a  *)
(* retried request execute once.  This module has the client's own steps,  *)
(* the table, and the verdicts of on_request on a message; SessionCluster  *)
(* puts them in a replicated cluster and SoloSessions in a single replica  *)
(* that crashes.                                                           *)
(*                                                                         *)
(* The operation number of a committed register is the session number.  A  *)
(* request is identified by its client and number (a client signs one      *)
(* message per number), a reply by its context.  The network keeps every   *)
(* message: any of them may arrive late, twice, or never.                  *)
(***************************************************************************)
EXTENDS Integers, Sequences, FiniteSetsExt

CONSTANTS Client,      \* clients
          ClientsMax,  \* constants.clients_max: sessions a replica keeps
          RequestMax,  \* bound: requests a client makes after it registers
          Kinds,       \* the kinds of request a client makes, of {"read", "write"}
          None

ASSUME ClientsAssumption ==
    /\ IsFiniteSet(Client) /\ ClientsMax \in Nat \ {0} /\ RequestMax \in Nat
    /\ Kinds \subseteq {"read", "write"}

VARIABLES client,     \* client[c]: its Client struct
          requests, replies, evictions  \* the messages ever sent

clientVars == <<client, requests, replies, evictions>>

ClientInit ==
    /\ client = [c \in Client |-> [request_number |-> 0, inflight |-> FALSE, session |-> 0,
                                   parent |-> None, view |-> 0, evicted |-> FALSE]]
    /\ requests = {} /\ replies = {} /\ evictions = {}

\* register, raw_request and send_request_for_the_first_time: the number, session and
\* parent are fixed here; on_request_timeout resends this very message.
Send(c, kind) ==
    LET me == client[c]
    IN /\ ~me.evicted /\ ~me.inflight
       /\ client' = [client EXCEPT ![c].request_number = @ + 1, ![c].inflight = TRUE]
       /\ requests' = requests \cup
            {[client |-> c, request |-> me.request_number, session |-> me.session,
              parent |-> me.parent, view |-> me.view, kind |-> kind]}
       /\ UNCHANGED <<replies, evictions>>

Register(c) == client[c].request_number = 0 /\ Send(c, "register")

Request(c) == /\ client[c].request_number \in 1..RequestMax
              /\ \E kind \in Kinds : Send(c, kind)

\* on_reply: a reply to the request in flight; others are ignored.
OnReply(c, m) ==
    LET me == client[c]
        registers == me.request_number = 1
    IN /\ m.client = c /\ ~me.evicted /\ me.inflight
       /\ m.request = me.request_number - 1
       /\ client' = [client EXCEPT ![c].inflight = FALSE,
                                   ![c].parent = m.context,
                                   ![c].view = Max({@, m.view}),
                                   ![c].session = IF registers THEN m.op ELSE @]
       /\ UNCHANGED <<requests, replies, evictions>>

\* on_eviction: ignored when it comes from an older view than the client has seen.
OnEviction(c, m) ==
    /\ m.client = c /\ ~client[c].evicted
    /\ m.view >= client[c].view
    /\ client' = [client EXCEPT ![c].evicted = TRUE]
    /\ UNCHANGED <<requests, replies, evictions>>

ClientStep == \E c \in Client :
    \/ Register(c)
    \/ Request(c)
    \/ \E m \in replies : OnReply(c, m)
    \/ \E m \in evictions : OnEviction(c, m)

-----------------------------------------------------------------------------
(* The table: table[c] is the entry of client c, with session 0 if it has none. *)

Absent == [session |-> 0, request |-> 0, op |-> 0, context |-> None, view |-> 0]

EmptyTable == [c \in Client |-> Absent]

Known(table, c) == table[c].session # 0

Sessions(table) == {c \in Client : Known(table, c)}

\* The session whose last commit is oldest.
Evictee(table) ==
    CHOOSE c \in Sessions(table) : \A d \in Sessions(table) : table[c].op <= table[d].op

\* The entry after the prepare p executes as op: the reply's header.
EntryOf(p, op, session) ==
    [session |-> session, request |-> p.request, op |-> op,
     context |-> <<op, p.request>>, view |-> p.view]

\* client_table_entry_create, of a register.
TableCreate(table, p, op) ==
    LET room == IF Cardinality(Sessions(table)) = ClientsMax
                THEN [table EXCEPT ![Evictee(table)] = Absent]
                ELSE table
    IN [room EXCEPT ![p.client] = EntryOf(p, op, op)]

\* client_table_entry_update: nothing if the session was evicted while p was preparing.
TableUpdate(table, p, op) ==
    IF Known(table, p.client)
    THEN [table EXCEPT ![p.client] = EntryOf(p, op, @.session)]
    ELSE table

TableExecute(table, p, op) ==
    IF p.kind = "register" THEN TableCreate(table, p, op) ELSE TableUpdate(table, p, op)

\* The assertions of client_table_entry_create, put and client_table_entry_update.
TableAsserts(table, p, op) ==
    IF p.kind = "register"
    THEN ~Known(table, p.client)
    ELSE Known(table, p.client) => /\ table[p.client].request + 1 = p.request
                                   /\ table[p.client].op < op

\* Mutant of ReplyOf: the context covers the view that the reply is sent with.
ReplyOfView(c, entry, v) ==
    [client |-> c, request |-> entry.request, op |-> entry.op, view |-> Max({entry.view, v}),
     context |-> IF v > entry.view THEN Append(entry.context, v) ELSE entry.context]

\* The reply of client c's entry, as send_reply_message_to_client sends it when the
\* replica's durable log_view is v.
ReplyOf(c, entry, v) ==
    [client |-> c, request |-> entry.request, op |-> entry.op, context |-> entry.context,
     view |-> Max({entry.view, v})]

-----------------------------------------------------------------------------
(* ignore_request_message_duplicate: the verdicts on a request m. *)

SameSession(table, m) ==
    Known(table, m.client) /\ (m.kind = "register" \/ table[m.client].session = m.session)

\* No session, or an older one: the client is told that it is evicted.  A session that is
\* in the pipeline, about to be registered, is waited for.
Evicts(table, preparing, m) ==
    /\ m.kind # "register"
    /\ \/ Known(table, m.client) /\ table[m.client].session > m.session
       \/ ~Known(table, m.client) /\ ~preparing

\* The last reply again.
Repeats(table, m) == SameSession(table, m) /\ table[m.client].request = m.request

\* Mutant of IsNew: anything above the last request is new.
IsNewer(table, m) ==
    \/ m.kind = "register" /\ ~Known(table, m.client)
    \/ SameSession(table, m) /\ table[m.client].request <= m.request

\* A register without an entry, or the next request, from a client that proves that it
\* received the last reply.
IsNew(table, m) ==
    \/ m.kind = "register" /\ ~Known(table, m.client)
    \/ /\ SameSession(table, m)
       /\ table[m.client].request + 1 = m.request
       /\ table[m.client].context = m.parent

\* The next request of the session, without proof of the last reply.
Unproven(table, m) ==
    /\ SameSession(table, m)
    /\ table[m.client].request + 1 = m.request
    /\ table[m.client].context # m.parent

\* The branches that the code logs as a bug of the client: a session from the future, and
\* a request without proof of the last reply.
ClientBug(table, m) ==
    /\ m.kind # "register" /\ Known(table, m.client)
    /\ table[m.client].session < m.session \/ Unproven(table, m)
=============================================================================
