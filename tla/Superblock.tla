------------------------------ MODULE Superblock ------------------------------
(***************************************************************************)
(* The superblock of a replica (src/src/vsr/superblock.zig): copies of one *)
(* header, updated in place one copy after the other and read back by      *)
(* quorum, with the two callers that update it, checkpoint and             *)
(* view_change, queued one behind the other, the crash in the middle of a  *)
(* write, open with its repair, and disk faults.                           *)
(***************************************************************************)
EXTENDS SuperblockQuorums

CONSTANTS
    CrashMax,       \* bound: the crashes and panics
    FaultMax        \* bound: the disk faults: lost, misdirected, corrupt copies

VARIABLES
    disk,       \* in each slot a copy [header, copy], or Torn
    working,    \* the header the replica relies on
    staging,    \* the header being written
    queue,      \* queue_head and queue_tail: contexts [caller, state]
    copy,       \* context.copy: the next copy to write; Copies: verify
    repairs,    \* the slots of RepairIterator
    phase,      \* "closed", "repairing" (in open) or "opened"
    view,       \* Replica.view, in memory
    crashes, tears, faults,     \* history: how many of each so far
    relied      \* history: the last header a callback saw

procVars == <<working, staging, queue, copy, repairs, phase, view>>
historyVars == <<crashes, tears, faults, relied>>
vars == <<disk, procVars, historyVars>>

-----------------------------------------------------------------------------
Init ==
    /\ disk = [s \in Slot |-> [header |-> RootHeader, copy |-> s]]
    /\ working = RootHeader /\ staging = RootHeader
    /\ queue = <<>> /\ copy = 0 /\ repairs = <<>>
    /\ phase = "opened" /\ view = 0
    /\ crashes = 0 /\ tears = 0 /\ faults = 0
    /\ relied = RootHeader

Updating(caller) == \E i \in DOMAIN queue : queue[i].caller = caller
Context(caller, v, c) == [caller |-> caller, state |-> [view |-> v, checkpoint |-> c]]

\* acquire: queue behind the update in flight, or start with write_staging.
Acquire(context) ==
    /\ queue' = Append(queue, context)
    /\ IF queue = <<>> THEN staging' = Append(working, context.state) /\ copy' = 0
                       ELSE UNCHANGED <<staging, copy>>

\* Mutant of Latest: the state of the working header.
LatestWorking == StateOf(working)

\* The VSR state that view_change and checkpoint base theirs on: it has the update in flight.
Latest == StateOf(staging)

\* A new view, and view_durable_update, which leaves it to the callback of the update that is
\* already under way.
AdvanceView(v) ==
    /\ phase = "opened"
    /\ view < v
    /\ view' = v
    /\ IF Updating("view_change") THEN UNCHANGED <<queue, staging, copy>>
       ELSE Acquire(Context("view_change", v, Latest.checkpoint))
    /\ UNCHANGED <<disk, working, repairs, phase, historyVars>>

\* commit_checkpoint_superblock: it makes the view durable too.
Checkpoint ==
    /\ phase = "opened"
    /\ ~Updating("checkpoint")
    /\ Latest.checkpoint < CheckpointMax
    /\ Acquire(Context("checkpoint", view, Latest.checkpoint + 1))
    /\ UNCHANGED <<disk, working, repairs, phase, view, historyVars>>

-----------------------------------------------------------------------------
(* Writing. *)

Copy(header, c) == [header |-> header, copy |-> c]

\* What a write of copy c does: nothing when it is lost; when misdirected, it ends in slot s.
Writes(d, header, c) ==
    {[disk |-> [d EXCEPT ![c] = Copy(header, c)], faults |-> 0],
     [disk |-> d, faults |-> 1]}
    \cup {[disk |-> [d EXCEPT ![s] = Copy(header, c)], faults |-> 1] : s \in Slot \ {c}}

Write(header, c) ==
    \E w \in Writes(disk, header, c) :
        /\ faults + w.faults <= FaultMax
        /\ disk' = w.disk
        /\ faults' = faults + w.faults

\* write_header, write_header_callback.
WriteHeader ==
    /\ phase = "opened" /\ queue # <<>> /\ copy < Copies
    /\ Write(staging, copy)
    /\ copy' = copy + 1
    /\ UNCHANGED <<working, staging, queue, repairs, phase, view, crashes, tears, relied>>

Stop ==
    /\ working' = RootHeader /\ staging' = RootHeader
    /\ queue' = <<>> /\ copy' = 0 /\ repairs' = <<>>
    /\ phase' = "closed" /\ view' = 0

\* Mutant of ViewLeft: the callback does not look whether the view moved on.
NoViewLeft(header) == FALSE

\* view_durable_update_callback: the view may have moved on while it was written, and the
\* checkpoint now being written may hold it already: staging tells.
ViewLeft(header) == StateOf(header).view < view

\* read_header_callback of a verify: install what was written, or panic. release starts the
\* queued update before the callback runs.
Verified ==
    /\ phase = "opened" /\ queue # <<>> /\ copy = Copies
    /\ Read(disk, VerifyThreshold) = staging
    /\ working' = staging
    /\ relied' = staging
    /\ LET rest == Tail(queue)
           next == IF rest = <<>> THEN staging ELSE Append(staging, Head(rest).state)
           again == Context("view_change", view, StateOf(next).checkpoint)
       IN IF Head(queue).caller = "view_change" /\ ViewLeft(next)
          THEN /\ queue' = Append(rest, again)
               /\ staging' = IF rest = <<>> THEN Append(staging, again.state) ELSE next
          ELSE /\ queue' = rest
               /\ staging' = next
    /\ copy' = 0
    /\ UNCHANGED <<disk, repairs, phase, view, crashes, tears, faults>>

VerifyPanic ==
    /\ phase = "opened" /\ queue # <<>> /\ copy = Copies
    /\ Read(disk, VerifyThreshold) # staging
    /\ Stop
    /\ UNCHANGED <<disk, historyVars>>

-----------------------------------------------------------------------------
(* Opening. *)

\* open, read_working: the quorum is installed, then repaired; only then the replica opens.
Open ==
    /\ phase = "closed"
    /\ Read(disk, OpenThreshold) # NoHeader
    /\ working' = Read(disk, OpenThreshold)
    /\ staging' = working'
    /\ view' = StateOf(working').view
    /\ repairs' = FoundSlots(disk, working')
    /\ phase' = "repairing"
    /\ UNCHANGED <<disk, queue, copy, historyVars>>

Repair ==
    /\ phase = "repairing" /\ RepairNext(repairs) # Copies
    /\ Write(working, RepairNext(repairs))
    /\ repairs' = [repairs EXCEPT ![RepairNext(repairs)] = RepairNext(repairs)]
    /\ UNCHANGED <<working, staging, queue, copy, phase, view, crashes, tears, relied>>

Opened ==
    /\ phase = "repairing" /\ RepairNext(repairs) = Copies
    /\ phase' = "opened"
    /\ repairs' = <<>>
    /\ relied' = working
    /\ UNCHANGED <<disk, working, staging, queue, copy, view, crashes, tears, faults>>

-----------------------------------------------------------------------------
(* Crashes and faults. *)

\* The copy that is being written when the process stops, if any.
InFlight ==
    IF phase = "opened" /\ queue # <<>> /\ copy < Copies THEN {copy}
    ELSE IF phase = "repairing" THEN {RepairNext(repairs)} \ {Copies}
    ELSE {}

\* The write in flight did not happen (or has: that is the crash after it), or is torn.
Crash ==
    /\ phase # "closed"
    /\ crashes < CrashMax /\ crashes' = crashes + 1
    /\ \/ UNCHANGED <<disk, tears>>
       \/ \E s \in InFlight : disk' = [disk EXCEPT ![s] = Torn] /\ tears' = tears + 1
    /\ Stop
    /\ UNCHANGED <<faults, relied>>

\* A copy rots, or only its number, which the checksum does not cover.
Rot(s) ==
    /\ faults < FaultMax /\ faults' = faults + 1
    /\ disk[s] # Torn
    /\ disk' \in {[disk EXCEPT ![s] = Torn], [disk EXCEPT ![s].copy = Copies]}
    /\ disk' # disk
    /\ UNCHANGED <<procVars, crashes, tears, relied>>

-----------------------------------------------------------------------------
Next ==
    \/ \E v \in 1..ViewMax : AdvanceView(v)
    \/ Checkpoint
    \/ WriteHeader \/ Verified \/ VerifyPanic
    \/ Open \/ Repair \/ Opened
    \/ Crash
    \/ \E s \in Slot : Rot(s)
Spec == Init /\ [][Next]_vars

-----------------------------------------------------------------------------
\* The types, and the discipline of the queue: at most one update of each caller.
TypeOK ==
    /\ \A s \in Slot : disk[s] # Torn => disk[s].header \in Seq(State) /\ disk[s].copy \in 0..Copies
    /\ working \in Seq(State) /\ staging \in Seq(State)
    /\ Len(queue) <= 2 /\ IsInjective([i \in DOMAIN queue |-> queue[i].caller])
    /\ copy \in 0..Copies /\ phase \in {"closed", "repairing", "opened"}
    /\ view \in 0..ViewMax

\* What a crash now would find.
Stored == Read(disk, OpenThreshold)

\* "open()'s quorum never regresses" (superblock_fuzz.zig): what a callback saw durable is part of
\* whatever open finds after a crash, writes torn at any point and one disk fault included.
NeverRegresses ==
    phase = "closed" /\ faults <= 1 /\ Stored # NoHeader => IsPrefix(relied, Stored)

\* open finds a quorum after any number of torn writes, or after one disk fault (Threshold).
OpenFindsQuorum ==
    phase = "closed" /\ (faults = 0 \/ (faults = 1 /\ tears = 0)) => Stored # NoHeader

\* Without disk faults an update is atomic: whatever the write, its crash or its repair, what open
\* would find is as before, or the one header that follows it.
AtomicUpdate ==
    [][disk' # disk /\ faults' = 0 /\ Stored' # Stored => Front(Stored') = Stored]_vars

\* A crash in the middle of the repair of open does not take the quorum back that it repairs, a
\* misdirected copy included (RepairIterator).
RepairKeepsQuorum ==
    [][phase = "repairing" /\ Crash /\ faults <= 1 /\ Stored = working => Stored' = working]_vars

\* The assertions of view_change and checkpoint: an update that is queued advances the one in
\* flight and takes nothing of it back, whichever caller was first.
QueuedUpdatesAdvance ==
    \A i \in DOMAIN queue \ {1} : /\ Monotonic(StateOf(staging), queue[i].state)
                                  /\ queue[i].state # StateOf(staging)

\* No view is forgotten: when no update is left, the view is durable, also one that came while
\* another was written, or that a checkpoint took along (view_durable_update_callback).
NoViewForgotten == phase = "opened" /\ queue = <<>> => StateOf(working).view = view
==============================================================================
