---------------------------- MODULE SoloSessions ----------------------------
(***************************************************************************)
(* Client sessions in a cluster of one replica: reads that bypass the log, *)
(* checkpoints of the session table, and restarts, which load the table of *)
(* the last checkpoint and replay the log after it.                        *)
(*                                                                         *)
(* A checkpoint of op C is taken when op C + CompactionOps, its trigger,   *)
(* has committed, and its table is the table at the trigger: replaying the *)
(* operations up to it leaves the table alone.                             *)
(*                                                                         *)
(* The view is left at 0, although a restart of a solo replica increments  *)
(* it: all that it could do here is to make a client ignore an eviction of *)
(* before the restart.                                                     *)
(***************************************************************************)
EXTENDS ClientSessions

CONSTANTS CheckpointOps, CompactionOps,  \* vsr_checkpoint_ops, lsm_compaction_ops
          OpMax, RestartMax                \* bounds: log length, restarts

\* A checkpoint is of two operations at least (constants.zig:75, :645).
ASSUME SoloAssumption ==
    /\ CheckpointOps \in Nat \ {0, 1} /\ CompactionOps \in Nat \ {0}
    /\ OpMax \in Nat /\ RestartMax \in Nat

VARIABLES status,       \* "normal", or "recovering" until the log is replayed
          log,          \* the prepared requests
          written,      \* the length of the log that the journal has on disk
          commit_min,   \* executed
          sessions,     \* the session table
          committed,    \* client_sessions_committed_headers: without the fast reads
          checkpoint,   \* op and table of the last checkpoint
          restarts

soloVars == <<status, log, written, commit_min, sessions, committed, checkpoint, restarts>>
clusterVars == <<clientVars, soloVars>>

SoloInit ==
    /\ ClientInit
    /\ status = "normal" /\ log = <<>> /\ written = 0 /\ commit_min = 0
    /\ sessions = EmptyTable /\ committed = EmptyTable
    /\ checkpoint = [op |-> 0, table |-> EmptyTable]
    /\ restarts = 0

-----------------------------------------------------------------------------
(* on_request *)

Preparing(c) == \E o \in commit_min + 1..Len(log) : log[o].client = c

OnRequestEvict(m) ==
    /\ status = "normal" /\ Evicts(sessions, Preparing(m.client), m)
    /\ evictions' = evictions \cup {[client |-> m.client, view |-> 0]}
    /\ UNCHANGED <<soloVars, client, requests, replies>>

OnRequestRepeat(m) ==
    /\ status = "normal" /\ Repeats(sessions, m)
    /\ replies' = replies \cup {ReplyOf(m.client, sessions[m.client], 0)}
    /\ UNCHANGED <<soloVars, client, requests, evictions>>

\* try_execute_read_only_fast_path: with the pipeline idle, a read executes at once.  Its
\* reply keeps the op of the entry and takes its place, in memory only.
OnRequestRead(m) ==
    LET entry == [sessions[m.client] EXCEPT !.request = m.request,
                                            !.context = <<@[1], m.request, restarts>>]
    IN /\ status = "normal" /\ m.kind = "read" /\ IsNew(sessions, m)
       /\ commit_min = Len(log)
       /\ sessions' = [sessions EXCEPT ![m.client] = entry]
       /\ replies' = replies \cup {ReplyOf(m.client, entry, 0)}
       /\ UNCHANGED <<client, requests, evictions,
                      status, log, written, commit_min, committed, checkpoint, restarts>>

\* The same way as in a larger cluster: writes, and reads while the pipeline or
\* client_replies is busy.
OnRequestPrepare(m) ==
    /\ status = "normal" /\ IsNew(sessions, m) /\ ~Preparing(m.client)
    /\ Len(log) < OpMax
    /\ log' = Append(log, [client |-> m.client, request |-> m.request, kind |-> m.kind, view |-> 0])
    /\ UNCHANGED <<clientVars, status, written, commit_min, sessions, committed, checkpoint, restarts>>

-----------------------------------------------------------------------------
(* Journal, commit and checkpoint *)

WritePrepare ==
    /\ written < Len(log)
    /\ written' = written + 1
    /\ UNCHANGED <<clientVars, status, log, commit_min, sessions, committed, checkpoint, restarts>>

\* checkpoint_after
CheckpointNext ==
    IF checkpoint.op = 0 THEN CheckpointOps - 1 ELSE checkpoint.op + CheckpointOps

CheckpointDue == commit_min = CheckpointNext + CompactionOps

\* Mutant of Committable: an operation commits before it is on disk.
Prepared(o) == o <= Len(log)

\* commit_start_pipeline: the prepare_ok that a solo replica waits for is its own, of a
\* prepare that is on disk.
Committable(o) == o <= written

\* commit_pipeline, with the reply to the client.
Commit ==
    LET op == commit_min + 1
        p == log[op]
    IN /\ status = "normal" /\ ~CheckpointDue /\ op <= Len(log) /\ Committable(op)
       /\ commit_min' = op
       /\ sessions' = TableExecute(sessions, p, op)
       /\ committed' = TableExecute(committed, p, op)
       /\ replies' = replies \cup {ReplyOf(p.client, EntryOf(p, op, 0), 0)}
       /\ UNCHANGED <<client, requests, evictions, status, log, written, checkpoint, restarts>>

\* Mutant of Snapshot: the table with the fast reads in it.
SnapshotOfSessions == sessions

\* client_sessions_encode_committed_snapshot
Snapshot == committed

\* commit_checkpoint_data and commit_checkpoint_superblock; when it was due at the last
\* operation to replay, recovery is over.
CommitCheckpoint ==
    /\ CheckpointDue
    /\ checkpoint' = [op |-> CheckpointNext, table |-> Snapshot]
    /\ status' = IF commit_min = Len(log) THEN "normal" ELSE status
    /\ UNCHANGED <<clientVars, log, written, commit_min, sessions, committed, restarts>>

-----------------------------------------------------------------------------
(* Restart *)

\* The replica stops and starts again: of the prepares it was writing, a prefix is on
\* disk; the table is the checkpoint's.
CrashRestart ==
    /\ restarts < RestartMax
    /\ \E n \in written..Len(log) :
        /\ log' = SubSeq(log, 1, n)
        /\ written' = n
        /\ status' = IF checkpoint.op < n THEN "recovering" ELSE "normal"
    /\ commit_min' = checkpoint.op
    /\ sessions' = checkpoint.table /\ committed' = checkpoint.table
    /\ restarts' = restarts + 1
    /\ UNCHANGED <<clientVars, checkpoint>>

\* op_compacted: the table of the checkpoint has the operation already.
OpCompacted(o) == checkpoint.op > 0 /\ o <= checkpoint.op + CompactionOps

\* Mutant of ReplaysInTable: no operation, the registers included.
ReplaysNothing(p) == FALSE

\* execute_op, of a solo replica that recovers: only registers go into the table.
ReplaysInTable(p) == p.kind = "register"

\* The assertions of execute_op and client_table_entry_create as the operation executes.
ReplayAsserts(p, op) ==
    IF OpCompacted(op)
    THEN IF Known(sessions, p.client) THEN sessions[p.client].op >= op
         ELSE Cardinality(Sessions(sessions)) = ClientsMax
    ELSE ReplaysInTable(p) => TableAsserts(sessions, p, op)

\* commit_journal while recovering, until the log is replayed.
Replay ==
    LET op == commit_min + 1
        p == log[op]
        inTable == ~OpCompacted(op) /\ ReplaysInTable(p)
    IN /\ status = "recovering" /\ ~CheckpointDue /\ op <= Len(log)
       /\ ReplayAsserts(p, op)
       /\ commit_min' = op
       /\ sessions' = IF inTable THEN TableExecute(sessions, p, op) ELSE sessions
       /\ committed' = IF inTable THEN TableExecute(committed, p, op) ELSE committed
       /\ replies' = replies \cup {ReplyOf(p.client, EntryOf(p, op, 0), 0)}
       /\ UNCHANGED <<client, requests, evictions, log, written, checkpoint, restarts>>
       /\ status' = IF op = Len(log) /\ ~CheckpointDue' THEN "normal" ELSE status

-----------------------------------------------------------------------------
OnRequest == \E m \in requests :
    OnRequestEvict(m) \/ OnRequestRepeat(m) \/ OnRequestRead(m) \/ OnRequestPrepare(m)

SoloStep == OnRequest \/ WritePrepare \/ Commit \/ CommitCheckpoint \/ CrashRestart \/ Replay

SoloNext == (ClientStep /\ UNCHANGED soloVars) \/ SoloStep

SoloSpec == SoloInit /\ [][SoloNext]_clusterVars

-----------------------------------------------------------------------------
(* Properties *)

\* The types, and the journal and the session table within their limits: nothing is on disk that
\* is not in the log, and the table never outgrows clients_max.
SoloTypeOK ==
    /\ status \in {"normal", "recovering"} /\ written \in 0..Len(log)
    /\ Cardinality(Sessions(sessions)) <= ClientsMax

\* A reply to an operation of the log outlives every crash: the log has the operation on
\* disk, the same one, ever after.
RepliedIsWritten ==
    \A m \in replies : Len(m.context) = 2 =>
        /\ m.op <= written
        /\ log[m.op].client = m.client /\ log[m.op].request = m.request

\* A client that is told it is evicted is: another client has registered since.  A restart
\* does not lose the session of a client.
EvictedIsEvicted ==
    \A c \in Client : client[c].evicted =>
        \E o \in client[c].session + 1..Len(log) : log[o].kind = "register" /\ log[o].client # c

\* replica.zig:338: a checkpoint's table is of operations of the log, without the fast
\* reads, "so checkpoints remain replay-safe".
CheckpointOfLog ==
    \A c \in Client : Known(checkpoint.table, c) =>
        LET entry == checkpoint.table[c]
        IN log[entry.op].client = c /\ log[entry.op].request = entry.request

\* docs/sdk-retry-semantics.md:7, :237: a retried request does not execute twice.
ExecutedOnce ==
    \A i, j \in DOMAIN log :
        i < j /\ log[i].client = log[j].client /\ log[i].request = log[j].request
        => log[i].kind = "register"
=============================================================================
