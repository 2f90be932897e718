-------------------------- MODULE SuperblockProofs --------------------------
(***************************************************************************)
(* What the superblock promises, for every number of copies, views,        *)
(* checkpoints and crashes.  First its queue (IInv): a queued update takes *)
(* nothing back, and no view is forgotten.  Then its lineage (SInv): all   *)
(* slots but one hold successors of what a callback saw durable, so that   *)
(* open never regresses.  Then the disk without a fault (CleanInv): an     *)
(* update is atomic.  Last the disk after one fault (FaultInv): open finds *)
(* a quorum, and a crash of the repair does not take it back.              *)
(***************************************************************************)
EXTENDS Superblock, FiniteSetTheorems, SequenceTheorems, TLAPS

Header == Seq(State) \ {<<>>}
Caller == {"view_change", "checkpoint"}
ContextType == [caller : Caller, state : State]

\* Every copy on disk is of some header.
DiskInv ==
    /\ DOMAIN disk = Slot
    /\ \A s \in Slot : disk[s] # Torn =>
        disk[s].header \in Header /\ disk[s] = Copy(disk[s].header, disk[s].copy)

TypeInv ==
    /\ DiskInv
    /\ working \in Header /\ staging \in Header /\ view \in 0..ViewMax
    /\ queue \in Seq(ContextType) /\ phase \in {"closed", "repairing", "opened"}

\* Before the superblock is opened nobody updates it, and open takes the view from it.
OpenInv ==
    /\ phase # "opened" => queue = <<>>
    /\ phase # "closed" /\ queue = <<>> => StateOf(staging).view = view /\ staging = working

\* What is being written is the update at the head of the queue; a second one is the other
\* caller's and goes on from there.  Only a view_change may be behind the replica's view, as its
\* callback looks again.
QueueInv ==
    /\ Len(queue) <= 2
    /\ \A i \in DOMAIN queue : queue[i].state.view <= view
    /\ Len(queue) > 0 => queue[1].state = StateOf(staging)
    /\ Len(queue) = 1 /\ queue[1].caller = "checkpoint" => queue[1].state.view = view
    /\ Len(queue) = 2 => /\ queue[1].caller # queue[2].caller
                         /\ Monotonic(queue[1].state, queue[2].state)
                         /\ queue[1].state # queue[2].state

IInv == TypeInv /\ OpenInv /\ QueueInv

-----------------------------------------------------------------------------
\* A queue of one or two updates, as release sees it.
LEMMA ShortQueue ==
    ASSUME NEW S, NEW q \in Seq(S)
    PROVE  /\ Len(q) \in Nat
           /\ \A i \in 1..Len(q) : q[i] \in S
           /\ q = <<>> <=> Len(q) = 0
           /\ Len(q) = 1 => Tail(q) = <<>>
           /\ Len(q) = 2 => Tail(q) = <<q[2]>>
<1>1. Len(q) \in Nat /\ (\A i \in 1..Len(q) : q[i] \in S) /\ (q = <<>> <=> Len(q) = 0)
    OBVIOUS
<1>2. q # <<>> => Tail(q) \in Seq(S) /\ Len(Tail(q)) = Len(q) - 1
                  /\ \A i \in 1..Len(Tail(q)) : Tail(q)[i] = q[i + 1]
    OBVIOUS
<1>3. Len(q) = 1 => Tail(q) = <<>>
    <2> SUFFICES ASSUME Len(q) = 1 PROVE Tail(q) = <<>>
        OBVIOUS
    <2>1. Tail(q) \in Seq(S) /\ Len(Tail(q)) = 0
        BY <1>1, <1>2
    <2> QED
        BY <2>1, EmptySeq
<1>4. Len(q) = 2 => Tail(q) = <<q[2]>>
    <2> SUFFICES ASSUME Len(q) = 2 PROVE Tail(q) = <<q[2]>>
        OBVIOUS
    <2>0. q # <<>>
        BY <1>1
    <2>1. Tail(q) \in Seq(S) /\ Len(Tail(q)) = 1 /\ Tail(q)[1] = q[2]
        <3>1. Tail(q) \in Seq(S) /\ Len(Tail(q)) = 1
            BY <1>2, <2>0
        <3>2. 1 \in 1..1 /\ 1 + 1 = 2
            OBVIOUS
        <3>3. 1 \in 1..Len(Tail(q))
            BY <3>1, <3>2, Zenon
        <3>4. Tail(q)[1] = q[1 + 1]
            BY <1>2, <2>0, <3>3, Zenon
        <3> QED
            BY <3>1, <3>2, <3>4, Zenon
    <2>2. <<q[2]>> \in Seq(S) /\ Len(<<q[2]>>) = 1 /\ <<q[2]>>[1] = q[2]
        BY <1>1
    <2>3. \A i \in 1..Len(Tail(q)) : Tail(q)[i] = <<q[2]>>[i]
        <3>1. \A i \in 1..1 : i = 1
            OBVIOUS
        <3> QED
            BY <2>1, <2>2, <3>1, Zenon
    <2> QED
        BY <2>1, <2>2, <2>3, SeqEqual
<1> QED
    BY <1>1, <1>3, <1>4

\* A header is a lineage of states, and the last of them is its own.
LEMMA HeaderStates ==
    /\ RootHeader \in Header /\ StateOf(RootHeader).view = 0
    /\ \A h \in Header : StateOf(h) \in State
    /\ \A h \in Header, s \in State : Append(h, s) \in Header /\ StateOf(Append(h, s)) = s
<1>1. [view |-> 0, checkpoint |-> 0] \in State
    BY CopiesAssumption DEF State
<1>2. RootHeader \in Header /\ StateOf(RootHeader).view = 0
    BY <1>1 DEF RootHeader, Header, StateOf, Last
<1> HIDE DEF State
<1>3. ASSUME NEW h \in Header PROVE StateOf(h) \in State
    BY DEF Header, StateOf, Last
<1>4. ASSUME NEW h \in Header, NEW s \in State
      PROVE  Append(h, s) \in Header /\ StateOf(Append(h, s)) = s
    BY DEF Header, StateOf, Last
<1> QED
    BY <1>2, <1>3, <1>4

\* What open finds is on the disk: the threshold is not zero.
LEMMA ReadIsHeader ==
    ASSUME DiskInv, Read(disk, OpenThreshold) # NoHeader
    PROVE  Read(disk, OpenThreshold) \in Header
<1> DEFINE rank(h) == Rank(disk, h, OpenThreshold)
           best == CHOOSE h \in HeadersOn(disk) : \A g \in HeadersOn(disk) : rank(g) <= rank(h)
<1>1. Read(disk, OpenThreshold) = best /\ CopyCount(disk, best) >= OpenThreshold
    BY DEF Read, NoHeader
<1>2. OpenThreshold \in Nat \ {0}
    BY CopiesAssumption DEF OpenThreshold
<1> HIDE DEF best
<1>3. Members(disk, best) # {}
    <2>1. SUFFICES ASSUME Members(disk, best) = {} PROVE FALSE
        OBVIOUS
    <2>2. {CopyAt(disk, s) : s \in Members(disk, best)} = {}
        BY <2>1
    <2>3. CopyCount(disk, best) = 0
        BY <2>2, FS_EmptySet DEF CopyCount
    <2> QED
        BY <1>1, <1>2, <2>3
<1>4. best \in Header
    BY <1>3 DEF Members, DiskInv
<1> QED
    BY <1>1, <1>4

\* A formatted data file that is opened.
LEMMA InitIInv == Init => IInv
<1> SUFFICES ASSUME Init PROVE IInv
    OBVIOUS
<1>1. TypeInv
    BY HeaderStates, CopiesAssumption DEF Init, TypeInv, DiskInv, Copy
<1>2. OpenInv
    BY HeaderStates DEF Init, OpenInv
<1>3. QueueInv
    BY DEF Init, QueueInv
<1> QED
    BY <1>1, <1>2, <1>3 DEF IInv

\* A write leaves headers on the disk.
LEMMA WriteDisk ==
    ASSUME DiskInv, NEW h \in Header, NEW c, Write(h, c)
    PROVE  DiskInv'
<1>1. PICK w \in Writes(disk, h, c) : disk' = w.disk
    BY DEF Write
<1>2. disk' = disk \/ \E s : disk' = [disk EXCEPT ![s] = Copy(h, c)]
    <2>1. \/ w = [disk |-> [disk EXCEPT ![c] = Copy(h, c)], faults |-> 0]
          \/ w = [disk |-> disk, faults |-> 1]
          \/ \E s \in Slot \ {c} : w = [disk |-> [disk EXCEPT ![s] = Copy(h, c)], faults |-> 1]
        BY Zenon DEF Writes
    <2>2. \A s, n : w = [disk |-> [disk EXCEPT ![s] = Copy(h, c)], faults |-> n] =>
                w.disk = [disk EXCEPT ![s] = Copy(h, c)]
        OBVIOUS
    <2>3. w = [disk |-> disk, faults |-> 1] => w.disk = disk
        OBVIOUS
    <2> QED
        BY <1>1, <2>1, <2>2, <2>3, Zenon
<1>3. Copy(h, c).header = h /\ Copy(h, c) = Copy(Copy(h, c).header, Copy(h, c).copy)
    BY DEF Copy
<1> QED
    BY <1>2, <1>3 DEF DiskInv

\* A stopped replica has no update.
LEMMA StopIInv ==
    ASSUME Stop, DiskInv'
    PROVE  IInv'
<1>1. TypeInv'
    BY HeaderStates, CopiesAssumption DEF Stop, TypeInv
<1>2. OpenInv' /\ QueueInv'
    BY DEF Stop, OpenInv, QueueInv
<1> QED
    BY <1>1, <1>2 DEF IInv

\* A step that leaves the queue and what is written alone.
LEMMA QueueKept ==
    ASSUME IInv, DiskInv', phase' \in {"closed", "repairing", "opened"},
           phase' # "opened" => phase # "opened", phase = "closed" => phase' = "closed",
           UNCHANGED <<working, staging, queue, view>>
    PROVE  IInv'
<1>1. TypeInv'
    BY DEF IInv, TypeInv
<1>2. OpenInv'
    BY DEF IInv, TypeInv, OpenInv
<1>3. QueueInv'
    BY DEF IInv, QueueInv
<1> QED
    BY <1>1, <1>2, <1>3 DEF IInv

\* The steps that only touch the disk, or the phase.
LEMMA DiskSteps ==
    ASSUME IInv, WriteHeader \/ Repair \/ Opened \/ \E s \in Slot : Rot(s)
    PROVE  IInv'
<1>1. CASE WriteHeader
    <2>1. DiskInv'
        BY <1>1, WriteDisk DEF WriteHeader, IInv, TypeInv
    <2> QED
        BY <1>1, <2>1, QueueKept DEF WriteHeader, IInv, TypeInv
<1>2. CASE Repair
    <2>1. DiskInv'
        BY <1>2, WriteDisk DEF Repair, IInv, TypeInv
    <2> QED
        BY <1>2, <2>1, QueueKept DEF Repair, IInv, TypeInv
<1>3. CASE Opened
    BY <1>3, QueueKept DEF Opened, IInv, TypeInv, DiskInv
<1>4. ASSUME NEW s \in Slot, Rot(s) PROVE IInv'
    <2>1. disk[s] # Torn /\ (disk' = [disk EXCEPT ![s] = Torn] \/ disk' = [disk EXCEPT ![s].copy = Copies])
        BY <1>4 DEF Rot
    <2>2. CASE disk' = [disk EXCEPT ![s] = Torn]
        <3>1. DiskInv'
            BY <2>2 DEF IInv, TypeInv, DiskInv
        <3> QED
            BY <1>4, <3>1, QueueKept DEF Rot, procVars, IInv, TypeInv
    <2>3. CASE disk' = [disk EXCEPT ![s].copy = Copies]
        <3>1. disk[s] = Copy(disk[s].header, disk[s].copy) /\ disk[s].header \in Header
            BY <2>1 DEF IInv, TypeInv, DiskInv
        <3>2. [disk[s] EXCEPT !.copy = Copies] = Copy(disk[s].header, Copies)
            BY <3>1 DEF Copy
        <3>3. disk' = [disk EXCEPT ![s] = Copy(disk[s].header, Copies)]
            BY <2>3, <3>2
        <3>4. \A h, c : Copy(h, c).header = h /\ Copy(h, c).copy = c
            BY DEF Copy
        <3>5. DiskInv'
            BY <3>1, <3>3, <3>4 DEF IInv, TypeInv, DiskInv
        <3> QED
            BY <1>4, <3>5, QueueKept DEF Rot, procVars, IInv, TypeInv
    <2> QED
        BY <2>1, <2>2, <2>3
<1> QED
    BY <1>1, <1>2, <1>3, <1>4

\* A crash, which may tear a copy, and the panic of a verify.
LEMMA CrashSteps ==
    ASSUME IInv, Crash \/ VerifyPanic
    PROVE  IInv'
<1>1. Stop
    BY DEF Crash, VerifyPanic
<1>2. disk' = disk \/ \E s : disk' = [disk EXCEPT ![s] = Torn]
    BY DEF Crash, VerifyPanic
<1>3. DiskInv'
    BY <1>2 DEF IInv, TypeInv, DiskInv
<1> QED
    BY <1>1, <1>3, StopIInv

\* open takes working, staging and the view from the quorum it reads.
LEMMA OpenStep ==
    ASSUME IInv, Open
    PROVE  IInv'
<1>1. /\ working' \in Header /\ staging' = working' /\ view' = StateOf(working').view
      /\ queue = <<>> /\ queue' = queue /\ disk' = disk /\ phase' = "repairing"
    BY ReadIsHeader DEF Open, IInv, TypeInv, OpenInv
<1>2. view' \in 0..ViewMax
    BY <1>1, HeaderStates DEF State
<1>3. TypeInv'
    BY <1>1, <1>2 DEF IInv, TypeInv, DiskInv
<1>4. OpenInv' /\ QueueInv'
    BY <1>1 DEF OpenInv, QueueInv
<1> QED
    BY <1>3, <1>4 DEF IInv

\* No queued update is of a view that the replica has not entered.
LEMMA QueueViews ==
    ASSUME IInv
    PROVE  \A i \in 1..Len(queue) : queue[i].state.view <= view /\ queue[i].state.view \in Nat
<1>1. queue \in Seq(ContextType) /\ DOMAIN queue = 1..Len(queue)
    BY DEF IInv, TypeInv
<1>2. ASSUME NEW i \in 1..Len(queue) PROVE queue[i].state.view \in Nat
    <2>1. queue[i] \in ContextType
        BY <1>1
    <2>2. queue[i].state \in State
        BY <2>1 DEF ContextType
    <2> QED
        BY <2>2, CopiesAssumption DEF State
<1> QED
    BY <1>1, <1>2 DEF IInv, QueueInv

\* A caller that is not in the queue acquires it, with a state that advances the one in flight.
LEMMA AcquireStep ==
    ASSUME IInv, phase = "opened", UNCHANGED <<disk, working, phase>>,
           NEW context \in ContextType, ~Updating(context.caller), Acquire(context),
           Monotonic(StateOf(staging), context.state), StateOf(staging) # context.state,
           view' \in 0..ViewMax, view <= view', context.state.view = view'
    PROVE  IInv'
<1>1. /\ queue \in Seq(ContextType) /\ Len(queue) \in 0..2 /\ view \in Nat /\ view' \in Nat
      /\ working \in Header /\ staging \in Header
    <2>1. queue \in Seq(ContextType) /\ Len(queue) <= 2 /\ working \in Header /\ staging \in Header
        BY DEF IInv, TypeInv, QueueInv
    <2>2. Len(queue) \in 0..2
        <3>1. Len(queue) \in Nat /\ Len(queue) <= 2
            BY <2>1, ShortQueue
        <3>2. \A n \in Nat : n <= 2 => n \in 0..2
            OBVIOUS
        <3> QED
            BY <3>1, <3>2, Zenon
    <2>3. view \in Nat /\ view' \in Nat
        BY CopiesAssumption DEF IInv, TypeInv
    <2> QED
        BY <2>1, <2>2, <2>3
<1>2. queue' \in Seq(ContextType) /\ Len(queue') = Len(queue) + 1 /\ queue'[Len(queue) + 1] = context
      /\ \A i \in 1..Len(queue) : queue'[i] = queue[i]
    BY <1>1 DEF Acquire
<1>3. context.state \in State /\ context.caller \in Caller
    BY DEF ContextType
<1>4. \A i \in 1..Len(queue) : queue[i].state.view <= view /\ queue[i].state.view \in Nat
    BY QueueViews
<1>5. CASE queue = <<>>
    <2>1. Len(queue) = 0 /\ staging' = Append(working, context.state)
        BY <1>5 DEF Acquire
    <2>2. staging' \in Header /\ StateOf(staging') = context.state
        BY <1>1, <1>3, <2>1, HeaderStates
    <2>3. TypeInv'
        BY <1>1, <1>2, <2>2 DEF IInv, TypeInv, DiskInv
    <2>4. queue' # <<>>
        <3>1. queue' \in Seq(ContextType) /\ Len(queue') = 1
            BY <1>2, <2>1
        <3>2. ASSUME queue' = <<>> PROVE FALSE
            <4>1. Len(<<>>) = 1
                BY <3>1, <3>2, Zenon
            <4> QED
                BY <4>1
        <3> QED
            BY <3>2
    <2>5. OpenInv'
        BY <2>4 DEF OpenInv
    <2>6. QueueInv'
        BY <1>1, <1>2, <2>1, <2>2 DEF QueueInv
    <2> QED
        BY <2>3, <2>5, <2>6 DEF IInv
<1>6. CASE queue # <<>>
    <2>1. Len(queue) = 1
        <3>1. Len(queue) # 0
            BY <1>1, <1>6
        <3>2. ASSUME Len(queue) = 2 PROVE FALSE
            <4>1. queue[1].caller \in Caller /\ queue[2].caller \in Caller /\ queue[1].caller # queue[2].caller
                <5>1. queue[1] \in ContextType /\ queue[2] \in ContextType
                    BY <1>1, <3>2, ShortQueue
                <5> QED
                    BY <3>2, <5>1 DEF IInv, QueueInv, ContextType
            <4>2. queue[1].caller # context.caller /\ queue[2].caller # context.caller
                BY <1>1, <3>2 DEF Updating
            <4> QED
                BY <1>3, <4>1, <4>2 DEF Caller
        <3> QED
            BY <1>1, <3>1, <3>2
    <2>2. staging' = staging
        BY <1>6 DEF Acquire
    <2>3. queue[1].state = StateOf(staging) /\ queue[1].caller # context.caller
        BY <1>1, <2>1 DEF IInv, QueueInv, Updating
    <2>4. Len(queue') = 2 /\ queue'[1] = queue[1] /\ queue'[2] = context
        BY <1>2, <2>1
    <2>5. TypeInv'
        BY <1>1, <1>2, <2>2 DEF IInv, TypeInv, DiskInv
    <2>6. OpenInv'
        BY <2>4 DEF OpenInv
    <2>7. \A i \in DOMAIN queue' : queue'[i].state.view <= view'
        <3>1. DOMAIN queue' = {1, 2}
            <4>1. DOMAIN queue' = 1..Len(queue')
                BY <1>2
            <4> QED
                BY <2>4, <4>1
        <3>2. queue[1].state.view <= view'
            BY <1>1, <1>4, <2>1
        <3> QED
            BY <1>1, <2>4, <3>1, <3>2
    <2>8. QueueInv'
        BY <2>2, <2>3, <2>4, <2>7 DEF QueueInv
    <2> QED
        BY <2>5, <2>6, <2>8 DEF IInv
<1> QED
    BY <1>5, <1>6

\* view_durable_update: the update is queued, or left to the callback of the one under way.
LEMMA AdvanceViewStep ==
    ASSUME IInv, NEW v \in 1..ViewMax, AdvanceView(v)
    PROVE  IInv'
<1>1. phase = "opened" /\ view < v /\ view' = v /\ view \in Nat /\ v \in 0..ViewMax
      /\ UNCHANGED <<disk, working, phase>>
    BY CopiesAssumption DEF AdvanceView, IInv, TypeInv
<1>2. StateOf(staging) \in State
    BY HeaderStates DEF IInv, TypeInv
<1>3. CASE Updating("view_change") /\ UNCHANGED <<queue, staging, copy>>
    <2>1. queue # <<>> /\ ~(Len(queue) = 1 /\ queue[1].caller = "checkpoint")
        BY <1>3 DEF Updating, IInv, TypeInv
    <2>2. \A i \in DOMAIN queue : queue[i].state.view \in Nat /\ queue[i].state.view <= view
        BY QueueViews DEF IInv, TypeInv
    <2>3. TypeInv' /\ OpenInv'
        BY <1>1, <1>3, <2>1 DEF IInv, TypeInv, DiskInv, OpenInv
    <2>4. \A i \in DOMAIN queue' : queue'[i].state.view <= view'
        BY <1>1, <1>3, <2>2
    <2>5. QueueInv'
        BY <1>3, <2>1, <2>4 DEF IInv, QueueInv
    <2> QED
        BY <2>3, <2>5 DEF IInv
<1>4. CASE ~Updating("view_change") /\ Acquire(Context("view_change", v, Latest.checkpoint))
    <2> DEFINE context == Context("view_change", v, Latest.checkpoint)
    <2>1. context \in ContextType /\ context.caller = "view_change" /\ context.state.view = v
          /\ context.state.checkpoint = StateOf(staging).checkpoint
        BY <1>1, <1>2 DEF Context, ContextType, Caller, State, Latest
    <2>2. StateOf(staging).view < v /\ StateOf(staging).view \in Nat /\ StateOf(staging).checkpoint \in Nat
        <3>1. CASE queue = <<>>
            BY <1>1, <1>2, <3>1 DEF IInv, OpenInv, State
        <3>2. CASE queue # <<>>
            <4>1. Len(queue) > 0
                BY <3>2 DEF IInv, TypeInv
            <4>2. queue[1].state.view <= view /\ queue[1].state = StateOf(staging)
                BY <4>1 DEF IInv, QueueInv, TypeInv
            <4> QED
                BY <1>1, <1>2, <4>2 DEF State
        <3> QED
            BY <3>1, <3>2
    <2> HIDE DEF context
    <2>3. Monotonic(StateOf(staging), context.state) /\ StateOf(staging) # context.state
        BY <1>1, <2>1, <2>2 DEF Monotonic
    <2>4. ~Updating(context.caller) /\ Acquire(context)
        BY <1>4, <2>1 DEF context
    <2> QED
        BY <1>1, <2>1, <2>3, <2>4, AcquireStep
<1> QED
    BY <1>3, <1>4 DEF AdvanceView

\* commit_checkpoint_superblock.
LEMMA CheckpointStep ==
    ASSUME IInv, Checkpoint
    PROVE  IInv'
<1>1. phase = "opened" /\ view \in 0..ViewMax /\ view \in Nat
      /\ UNCHANGED <<disk, working, phase, view>>
    BY CopiesAssumption DEF Checkpoint, IInv, TypeInv
<1>2. StateOf(staging) \in State
    BY HeaderStates DEF IInv, TypeInv
<1> DEFINE context == Context("checkpoint", view, Latest.checkpoint + 1)
<1>3. StateOf(staging).checkpoint \in Nat /\ StateOf(staging).checkpoint + 1 \in 0..CheckpointMax
    BY <1>2, CopiesAssumption DEF Checkpoint, Latest, State
<1>4. context \in ContextType /\ context.caller = "checkpoint" /\ context.state.view = view
      /\ context.state.checkpoint = StateOf(staging).checkpoint + 1
    BY <1>1, <1>3 DEF Context, ContextType, Caller, State, Latest
<1>5. StateOf(staging).view <= view
    <2>1. CASE queue = <<>>
        BY <1>1, <2>1 DEF IInv, OpenInv
    <2>2. CASE queue # <<>>
        <3>1. Len(queue) > 0
            BY <2>2 DEF IInv, TypeInv
        <3> QED
            BY <3>1 DEF IInv, QueueInv, TypeInv
    <2> QED
        BY <2>1, <2>2
<1>6. ~Updating(context.caller) /\ Acquire(context)
    BY <1>4 DEF Checkpoint
<1> HIDE DEF context
<1>7. Monotonic(StateOf(staging), context.state) /\ StateOf(staging) # context.state
    BY <1>3, <1>4, <1>5 DEF Monotonic
<1> QED
    BY <1>1, <1>4, <1>6, <1>7, AcquireStep

\* The callback of what was written: the queued update starts, and a view that moved on, and that
\* the queued update does not hold, is queued again.
LEMMA VerifiedStep ==
    ASSUME IInv, Verified
    PROVE  IInv'
<1> DEFINE rest == Tail(queue)
           next == IF rest = <<>> THEN staging ELSE Append(staging, Head(rest).state)
           again == Context("view_change", view, StateOf(next).checkpoint)
           left == Head(queue).caller = "view_change" /\ ViewLeft(next)
<1>1. /\ phase = "opened" /\ queue # <<>> /\ working' = staging
      /\ UNCHANGED <<disk, phase, view>>
      /\ left => /\ queue' = Append(rest, again)
                 /\ staging' = IF rest = <<>> THEN Append(staging, again.state) ELSE next
      /\ ~left => queue' = rest /\ staging' = next
    BY Zenon DEF Verified
<1>2. /\ queue \in Seq(ContextType) /\ Len(queue) \in 1..2 /\ staging \in Header
      /\ view \in Nat /\ view \in 0..ViewMax
    <2>1. queue \in Seq(ContextType) /\ Len(queue) <= 2 /\ staging \in Header /\ view \in 0..ViewMax
        BY DEF IInv, TypeInv, QueueInv
    <2>2. Len(queue) \in Nat /\ Len(queue) # 0 /\ Len(queue) <= 2
        BY <1>1, <2>1, ShortQueue
    <2>3. Len(queue) \in 1..2
        <3>1. \A n \in Nat : n # 0 /\ n <= 2 => n \in 1..2
            OBVIOUS
        <3> QED
            BY <2>2, <3>1, Zenon
    <2>4. view \in Nat
        BY <2>1, CopiesAssumption
    <2> QED
        BY <2>1, <2>3, <2>4
<1>3. Head(queue) = queue[1] /\ queue[1] \in ContextType
    BY <1>2
<1>4. ASSUME NEW h \in Header
      PROVE  LET c == Context("view_change", view, StateOf(h).checkpoint)
             IN /\ c \in ContextType /\ c.state \in State /\ c.caller = "view_change"
                /\ c.state.view = view /\ c.state.checkpoint = StateOf(h).checkpoint
    <2>1. StateOf(h) \in State
        BY HeaderStates
    <2> QED
        BY <1>2, <2>1 DEF Context, ContextType, Caller, State
<1>5. CASE Len(queue) = 1
    <2>1. rest = <<>>
        BY <1>2, <1>5, ShortQueue
    <2>2. next = staging
        BY <2>1
    <2>3. queue[1].state = StateOf(staging) /\ queue[1].state.view <= view /\ queue[1].state.view \in Nat
        BY <1>5, QueueViews DEF IInv, QueueInv
    <2>4. CASE left
        <3>1. again \in ContextType /\ again.state \in State /\ again.caller = "view_change"
              /\ again.state.view = view
            BY <1>2, <1>4, <2>2
        <3> HIDE DEF rest, next, again
        <3>2. queue' = <<again>> /\ staging' = Append(staging, again.state)
            BY <1>1, <2>1, <2>4
        <3>3. staging' \in Header /\ StateOf(staging') = again.state
            BY <1>2, <3>1, <3>2, HeaderStates
        <3>4. TypeInv'
            BY <1>1, <1>2, <3>1, <3>2, <3>3 DEF IInv, TypeInv, DiskInv
        <3>5. OpenInv'
            BY <1>1, <3>2 DEF OpenInv
        <3>6. QueueInv'
            BY <1>1, <1>2, <3>1, <3>2, <3>3 DEF QueueInv
        <3> QED
            BY <3>4, <3>5, <3>6 DEF IInv
    <2>5. CASE ~left
        <3>1. queue' = <<>> /\ staging' = staging
            BY <1>1, <2>1, <2>2, <2>5
        <3>2. StateOf(staging).view = view
            <4>1. CASE queue[1].caller = "checkpoint"
                BY <1>5, <2>3, <4>1 DEF IInv, QueueInv
            <4>2. CASE queue[1].caller = "view_change"
                BY <1>2, <1>3, <2>2, <2>3, <2>5, <4>2 DEF ViewLeft
            <4> QED
                BY <1>3, <4>1, <4>2 DEF ContextType, Caller
        <3>3. TypeInv'
            BY <1>1, <1>2, <3>1 DEF IInv, TypeInv, DiskInv
        <3>4. OpenInv' /\ QueueInv'
            BY <1>1, <3>1, <3>2 DEF OpenInv, QueueInv
        <3> QED
            BY <3>3, <3>4 DEF IInv
    <2> QED
        BY <2>4, <2>5
<1>6. CASE Len(queue) = 2
    <2> DEFINE second == queue[2]
    <2>1. second \in ContextType /\ second.state \in State /\ second.caller \in Caller
        <3>1. 2 \in 1..Len(queue)
            BY <1>6
        <3>2. second \in ContextType
            BY <1>2, <3>1, ShortQueue
        <3> QED
            BY <3>2 DEF ContextType
    <2>2. rest = <<second>> /\ Head(rest) = second /\ rest # <<>>
        <3>1. rest = <<second>>
            BY <1>2, <1>6, ShortQueue
        <3> HIDE DEF rest
        <3> QED
            BY <3>1
    <2>3. next = Append(staging, second.state)
        BY <2>2
    <2>4. next \in Header /\ StateOf(next) = second.state
        BY <1>2, <2>1, <2>3, HeaderStates
    <2>5. second.state.view <= view /\ second.state.view \in Nat /\ second.state.checkpoint \in Nat
          /\ queue[1].caller # second.caller
        <3>1. second.state.checkpoint \in Nat
            BY <2>1, CopiesAssumption DEF State
        <3> QED
            BY <1>6, <3>1, QueueViews DEF IInv, QueueInv
    <2>6. staging' = next
        BY <1>1, <2>2
    <2>7. CASE left
        <3>1. again \in ContextType /\ again.state \in State /\ again.caller = "view_change"
              /\ again.state.view = view /\ again.state.checkpoint = second.state.checkpoint
            BY <1>4, <2>4
        <3>2. second.state.view < view /\ second.caller # "view_change"
            BY <1>3, <2>4, <2>5, <2>7 DEF ViewLeft
        <3> HIDE DEF rest, next, again, second
        <3>3. queue' = <<second, again>>
            BY <1>1, <2>2, <2>7
        <3>4. TypeInv'
            BY <1>1, <1>2, <2>1, <2>4, <2>6, <3>1, <3>3 DEF IInv, TypeInv, DiskInv
        <3>5. OpenInv'
            BY <1>1, <3>3 DEF OpenInv
        <3>6. Monotonic(second.state, again.state) /\ second.state # again.state
            BY <1>2, <2>5, <3>1, <3>2 DEF Monotonic
        <3>7. Len(queue') = 2 /\ DOMAIN queue' = {1, 2} /\ queue'[1] = second /\ queue'[2] = again
            BY <3>3
        <3>8. \A i \in DOMAIN queue' : queue'[i].state.view <= view'
            BY <1>1, <1>2, <2>5, <3>1, <3>7
        <3>9. QueueInv'
            BY <2>4, <2>6, <3>1, <3>2, <3>6, <3>7, <3>8 DEF QueueInv
        <3> QED
            BY <3>4, <3>5, <3>9 DEF IInv
    <2>8. CASE ~left
        <3>1. queue' = <<second>>
            BY <1>1, <2>2, <2>8
        <3>2. second.caller = "checkpoint" => second.state.view = view
            <4>1. SUFFICES ASSUME second.caller = "checkpoint" PROVE second.state.view = view
                OBVIOUS
            <4>2. queue[1].caller = "view_change"
                BY <1>3, <2>5, <4>1 DEF ContextType, Caller
            <4>3. ~(second.state.view < view)
                BY <1>3, <2>4, <2>8, <4>2 DEF ViewLeft
            <4> QED
                BY <1>2, <2>5, <4>3
        <3> HIDE DEF rest, next, again, second
        <3>3. TypeInv'
            BY <1>1, <1>2, <2>1, <2>4, <2>6, <3>1 DEF IInv, TypeInv, DiskInv
        <3>4. OpenInv'
            BY <1>1, <3>1 DEF OpenInv
        <3>5. QueueInv'
            BY <1>1, <2>4, <2>5, <2>6, <3>1, <3>2 DEF QueueInv
        <3> QED
            BY <3>3, <3>4, <3>5 DEF IInv
    <2> QED
        BY <2>7, <2>8
<1> QED
    BY <1>2, <1>5, <1>6

\* The invariant is inductive.
LEMMA NextIInv == IInv /\ [Next]_vars => IInv'
<1> SUFFICES ASSUME IInv, [Next]_vars PROVE IInv'
    OBVIOUS
<1>1. CASE WriteHeader \/ Repair \/ Opened \/ \E s \in Slot : Rot(s)
    BY <1>1, DiskSteps
<1>2. CASE Crash \/ VerifyPanic
    BY <1>2, CrashSteps
<1>3. CASE Open
    BY <1>3, OpenStep
<1>4. CASE \E v \in 1..ViewMax : AdvanceView(v)
    BY <1>4, AdvanceViewStep
<1>5. CASE Checkpoint
    BY <1>5, CheckpointStep
<1>6. CASE Verified
    BY <1>6, VerifiedStep
<1>7. CASE UNCHANGED vars
    BY <1>7, QueueKept DEF vars, procVars, IInv, TypeInv, DiskInv
<1> QED
    BY <1>1, <1>2, <1>3, <1>4, <1>5, <1>6, <1>7 DEF Next

\* The inductive invariant of the queue holds always.
THEOREM QueueInvariant == Spec => []IInv
<1> QED
    BY InitIInv, NextIInv, PTL DEF Spec

-----------------------------------------------------------------------------
\* An update that is queued behind another takes nothing of it back and adds to it: the assertions
\* of view_change and checkpoint never fire.
THEOREM QueuedAdvance == Spec => []QueuedUpdatesAdvance
<1>1. IInv => QueuedUpdatesAdvance
    <2> SUFFICES ASSUME IInv, NEW i \in DOMAIN queue \ {1}
                 PROVE  Monotonic(StateOf(staging), queue[i].state) /\ queue[i].state # StateOf(staging)
        BY DEF QueuedUpdatesAdvance
    <2>1. DOMAIN queue = 1..Len(queue) /\ Len(queue) \in Nat /\ Len(queue) <= 2
        BY DEF IInv, TypeInv, QueueInv
    <2>2. i = 2 /\ Len(queue) = 2
        BY <2>1
    <2> QED
        BY <2>2 DEF IInv, QueueInv
<1> QED
    BY <1>1, QueueInvariant, PTL

\* When no update is under way the view of the replica is durable, also one that came while another
\* was being written or that a checkpoint took along (view_durable_update_callback).
THEOREM NoViewIsForgotten == Spec => []NoViewForgotten
<1>1. IInv => NoViewForgotten
    BY DEF IInv, OpenInv, NoViewForgotten
<1> QED
    BY <1>1, QueueInvariant, PTL

-----------------------------------------------------------------------------
\* An update adds one state to the lineage of the header the replica relies on.
Follows(old, new) == \E x \in State : new = Append(old, x) /\ Monotonic(StateOf(old), x)

\* What the last callback saw, and what open repairs, are of one lineage.
UpdateInv ==
    /\ relied \in Header /\ copy \in 0..Copies /\ faults \in Nat /\ tears \in Nat
    /\ phase = "opened" => relied = working
    /\ phase # "opened" => copy = 0
    /\ queue # <<>> => Follows(working, staging)
    /\ phase = "repairing" => repairs \in [Slot -> Slot \cup {Torn}]
    /\ phase = "repairing" /\ faults <= 1 => IsPrefix(relied, working)

\* The slots of which one may be out of line: none before the first disk fault.
Exempt == IF faults = 0 THEN {Copies} ELSE Slot

\* Every other slot holds a successor of what the last callback saw; a slot that open found or
\* repaired, and one that the update under way has written, holds what it should.
Lineage(f) ==
    \A s \in Slot \ {f} : disk[s] # Torn =>
        /\ phase # "opened" => IsPrefix(relied, disk[s].header)
        /\ phase = "repairing" /\ repairs[s] # Torn => disk[s].header = working
        /\ phase = "opened" => disk[s].header \in IF s < copy THEN {staging} ELSE {working, staging}
LineageInv == faults <= 1 => \E f \in Exempt : Lineage(f)

SInv == IInv /\ UpdateInv /\ LineageInv

-----------------------------------------------------------------------------
\* The slots and the thresholds are small numbers.
LEMMA SlotFacts ==
    /\ Slot \subseteq 0..7 /\ Copies \notin Slot /\ Copies \in 4..8
    /\ OpenThreshold \in 2..4 /\ Copies = 2 * OpenThreshold
<1> QED
    BY CopiesAssumption DEF Slot, OpenThreshold

\* The highest of some slots is one of them.
LEMMA MaxIn ==
    ASSUME NEW S \in SUBSET Slot, S # {}
    PROVE  Max(S) \in S
<1>1. S \subseteq 0..7
    BY SlotFacts
<1>2. \E x \in S : \A y \in S : x >= y
    <2>1. PICK e \in S : TRUE
        OBVIOUS
    <2> QED
        BY <1>1, <2>1
<1> QED
    BY <1>2 DEF Max

\* A header is a prefix of itself and of what follows it.
LEMMA PrefixGrows ==
    ASSUME NEW h \in Header
    PROVE  IsPrefix(h, h) /\ \A x \in State : IsPrefix(h, Append(h, x))
<1> HIDE DEF State
<1>1. IsPrefix(h, h)
    BY DEF IsPrefix, Header
<1>2. ASSUME NEW x \in State PROVE IsPrefix(h, Append(h, x))
    BY DEF IsPrefix, Header
<1> QED
    BY <1>1, <1>2

\* What the header being written, and what the one relied on, may be.
LEMMA StagingExtends ==
    ASSUME IInv, UpdateInv, phase = "opened"
    PROVE  IsPrefix(relied, working) /\ IsPrefix(relied, staging)
<1>1. relied = working /\ working \in Header
    BY DEF UpdateInv, IInv, TypeInv
<1>2. staging = working \/ Follows(working, staging)
    BY DEF UpdateInv, IInv, OpenInv
<1> QED
    BY <1>1, <1>2, PrefixGrows DEF Follows

\* A header that is read has copies in two slots at least.
LEMMA ReadTwice ==
    ASSUME DiskInv, Read(disk, OpenThreshold) # NoHeader, NEW f
    PROVE  \E s \in Slot \ {f} : s \in Members(disk, Read(disk, OpenThreshold))
<1> DEFINE rank(h) == Rank(disk, h, OpenThreshold)
           best == CHOOSE h \in HeadersOn(disk) : \A g \in HeadersOn(disk) : rank(g) <= rank(h)
<1>1. Read(disk, OpenThreshold) = best /\ CopyCount(disk, best) >= OpenThreshold
    BY DEF Read, NoHeader
<1> HIDE DEF best
<1>2. SUFFICES ASSUME Members(disk, best) \subseteq {f} PROVE FALSE
    BY <1>1 DEF Members
<1>3. {CopyAt(disk, s) : s \in Members(disk, best)} \subseteq {CopyAt(disk, f)}
    BY <1>2
<1>4. Cardinality({CopyAt(disk, s) : s \in Members(disk, best)}) <= 1
    <2>1. IsFiniteSet({CopyAt(disk, f)}) /\ Cardinality({CopyAt(disk, f)}) = 1
        BY FS_Singleton
    <2> QED
        BY <1>3, <2>1, FS_Subset
<1>5. Cardinality({CopyAt(disk, s) : s \in Members(disk, best)}) \in Nat
    BY <1>3, FS_Singleton, FS_Subset, FS_CardinalityType
<1> QED
    BY <1>1, <1>4, <1>5, SlotFacts DEF CopyCount

\* What open would read after a crash is a successor of what the last callback saw.
LEMMA StoredExtends ==
    ASSUME SInv, phase # "opened", faults <= 1, Stored # NoHeader
    PROVE  IsPrefix(relied, Stored)
<1>1. PICK f \in Exempt : Lineage(f)
    BY DEF SInv, LineageInv
<1>2. PICK s \in Slot \ {f} : s \in Members(disk, Stored)
    BY ReadTwice DEF Stored, SInv, IInv, TypeInv
<1> QED
    BY <1>1, <1>2 DEF Lineage, Members

\* The slots of RepairIterator, and where it writes next.
LEMMA RepairSlot ==
    ASSUME NEW slots \in [Slot -> Slot \cup {Torn}]
    PROVE  /\ RepairNext(slots) = Copies => \A s \in Slot : slots[s] # Torn
           /\ RepairNext(slots) # Copies => RepairNext(slots) \in Slot
<1> DEFINE found == {slots[s] : s \in Slot} \ {Torn}
           empty == {s \in Slot : slots[s] = Torn}
           misdirected == {s \in Slot \ empty : /\ slots[s] # s
                                                /\ \E t \in Slot \ {s} : slots[t] = slots[s]}
<1>1. RepairNext(slots) = IF empty \ found # {} THEN Max(empty \ found)
                          ELSE IF empty # {} THEN Max(empty)
                          ELSE IF misdirected # {} THEN Max(misdirected)
                          ELSE Copies
    BY DEF RepairNext
<1>2. /\ empty \ found # {} => Max(empty \ found) \in Slot
      /\ empty # {} => Max(empty) \in Slot
      /\ misdirected # {} => Max(misdirected) \in Slot
    <2>1. empty \ found \in SUBSET Slot /\ empty \in SUBSET Slot /\ misdirected \in SUBSET Slot
        OBVIOUS
    <2> HIDE DEF empty, found, misdirected
    <2> QED
        BY <2>1, MaxIn
<1>3. empty = {} => \A s \in Slot : slots[s] # Torn
    OBVIOUS
<1> HIDE DEF empty, found, misdirected
<1> QED
    BY <1>1, <1>2, <1>3, SlotFacts

\* A write without a fault is of its slot; with a fault it is lost, or in another slot.
LEMMA WriteEffect ==
    ASSUME faults \in Nat, NEW h, NEW c, Write(h, c)
    PROVE  /\ faults' \in {faults, faults + 1}
           /\ faults' = faults => disk' = [disk EXCEPT ![c] = Copy(h, c)]
           /\ faults' # faults => \/ disk' = disk
                                  \/ \E s \in Slot \ {c} : disk' = [disk EXCEPT ![s] = Copy(h, c)]
<1>1. PICK w \in Writes(disk, h, c) : disk' = w.disk /\ faults' = faults + w.faults
    BY DEF Write
<1>2. \/ w = [disk |-> [disk EXCEPT ![c] = Copy(h, c)], faults |-> 0]
      \/ w = [disk |-> disk, faults |-> 1]
      \/ \E s \in Slot \ {c} : w = [disk |-> [disk EXCEPT ![s] = Copy(h, c)], faults |-> 1]
    BY Zenon DEF Writes
<1>3. \A d, n : w = [disk |-> d, faults |-> n] => disk' = d /\ faults' = faults + n
    BY <1>1
<1> HIDE DEF Copy
<1>4. \/ disk' = [disk EXCEPT ![c] = Copy(h, c)] /\ faults' = faults + 0
      \/ disk' = disk /\ faults' = faults + 1
      \/ \E s \in Slot \ {c} : disk' = [disk EXCEPT ![s] = Copy(h, c)] /\ faults' = faults + 1
    BY <1>2, <1>3, Zenon
<1> QED
    BY <1>4

\* A write as the other slots see it: at most the slot it missed is out of line after it.
LEMMA WriteLine ==
    ASSUME DiskInv, faults \in Nat, NEW h, NEW c \in Slot, Write(h, c), faults' <= 1, NEW f \in Exempt
    PROVE  \E g \in Exempt' : \A s \in Slot \ {g} :
               s # f /\ (disk'[s] = Copy(h, c) \/ (s # c /\ disk'[s] = disk[s]))
<1>1. CASE faults' = faults
    <2>1. disk' = [disk EXCEPT ![c] = Copy(h, c)]
        BY <1>1, WriteEffect
    <2>2. \A s \in Slot \ {f} : disk'[s] = Copy(h, c) \/ (s # c /\ disk'[s] = disk[s])
        BY <2>1 DEF DiskInv
    <2> QED
        BY <1>1, <2>2 DEF Exempt
<1>2. CASE faults' # faults
    <2>1. faults = 0 /\ faults' = 1
        BY <1>2, WriteEffect
    <2>2. f = Copies /\ f \notin Slot /\ c \in Exempt'
        BY <2>1, SlotFacts DEF Exempt
    <2>3. disk' = disk \/ \E s \in Slot \ {c} : disk' = [disk EXCEPT ![s] = Copy(h, c)]
        BY <1>2, WriteEffect
    <2>4. \A s \in Slot \ {c} : disk'[s] = Copy(h, c) \/ (s # c /\ disk'[s] = disk[s])
        BY <2>3 DEF DiskInv
    <2> QED
        BY <2>2, <2>4
<1> QED
    BY <1>1, <1>2

\* An update that starts follows the header that is relied on; one that is queued changes nothing.
LEMMA AcquireFollows ==
    ASSUME IInv, UpdateInv, phase = "opened", working' = working,
           NEW caller, NEW v \in 0..ViewMax, NEW c \in 0..CheckpointMax,
           StateOf(staging).view <= v, StateOf(staging).checkpoint <= c,
           Acquire(Context(caller, v, c))
    PROVE  Follows(working', staging') /\ copy' \in {0, copy}
           /\ ((staging' = staging /\ copy' = copy) \/ (staging = working /\ copy' = 0))
<1> DEFINE x == [view |-> v, checkpoint |-> c]
<1>1. x \in State /\ Context(caller, v, c).state = x
    BY DEF State, Context
<1>2. CASE queue = <<>>
    <2>1. staging' = Append(working, x) /\ copy' = 0 /\ staging = working
        BY <1>1, <1>2 DEF Acquire, IInv, OpenInv
    <2>2. Monotonic(StateOf(working), x)
        BY <2>1 DEF Monotonic
    <2> QED
        BY <1>1, <2>1, <2>2 DEF Follows
<1>3. CASE queue # <<>>
    BY <1>3 DEF Acquire, UpdateInv
<1> QED
    BY <1>2, <1>3

\* The two callers: what they ask for follows what is being written.
LEMMA CallerSteps ==
    ASSUME IInv, UpdateInv, Checkpoint \/ \E v \in 1..ViewMax : AdvanceView(v)
    PROVE  /\ phase = "opened" /\ UNCHANGED <<disk, working, repairs, phase, faults, tears, relied>>
           /\ queue' # <<>> => Follows(working', staging')
           /\ (staging' = staging /\ copy' = copy) \/ (staging = working /\ copy' = 0)
<1>1. StateOf(staging) \in State
    BY HeaderStates DEF IInv, TypeInv
<1>2. phase = "opened" => StateOf(staging).view <= view
    <2> SUFFICES ASSUME phase = "opened" PROVE StateOf(staging).view <= view
        OBVIOUS
    <2>1. CASE queue = <<>>
        BY <1>1, <2>1, CopiesAssumption DEF IInv, OpenInv, TypeInv, State
    <2>2. CASE queue # <<>>
        <3>1. Len(queue) > 0
            BY <2>2 DEF IInv, TypeInv
        <3> QED
            BY <3>1 DEF IInv, QueueInv, TypeInv
    <2> QED
        BY <2>1, <2>2
<1>3. CASE Checkpoint
    <2>1. view \in 0..ViewMax /\ Latest.checkpoint + 1 \in 0..CheckpointMax
          /\ StateOf(staging).checkpoint <= Latest.checkpoint + 1
        BY <1>1, <1>3, CopiesAssumption DEF Checkpoint, Latest, State, IInv, TypeInv
    <2> QED
        BY <1>2, <1>3, <2>1, AcquireFollows DEF Checkpoint, historyVars
<1>4. ASSUME NEW v \in 1..ViewMax, AdvanceView(v)
      PROVE  /\ phase = "opened" /\ UNCHANGED <<disk, working, repairs, phase, faults, tears, relied>>
             /\ queue' # <<>> => Follows(working', staging')
             /\ (staging' = staging /\ copy' = copy) \/ (staging = working /\ copy' = 0)
    <2>1. phase = "opened" /\ UNCHANGED <<disk, working, repairs, phase, faults, tears, relied>>
        BY <1>4 DEF AdvanceView, historyVars
    <2>2. CASE UNCHANGED <<queue, staging, copy>>
        BY <2>1, <2>2 DEF UpdateInv
    <2>3. CASE Acquire(Context("view_change", v, Latest.checkpoint))
        <3>1. v \in 0..ViewMax /\ Latest.checkpoint \in 0..CheckpointMax /\ view < v
              /\ view \in 0..ViewMax /\ StateOf(staging).view \in 0..ViewMax
              /\ StateOf(staging).checkpoint = Latest.checkpoint
            BY <1>1, <1>4, CopiesAssumption DEF AdvanceView, Latest, State, IInv, TypeInv
        <3>2. StateOf(staging).view <= v /\ StateOf(staging).checkpoint <= Latest.checkpoint
            BY <1>2, <2>1, <3>1
        <3> QED
            BY <2>1, <2>3, <3>1, <3>2, AcquireFollows
    <2> QED
        BY <1>4, <2>2, <2>3 DEF AdvanceView
<1> QED
    BY <1>3, <1>4

\* The callback: what was written is relied on, and what is written next follows it.
LEMMA VerifiedFollows ==
    ASSUME IInv, Verified
    PROVE  /\ phase = "opened" /\ copy = Copies /\ copy' = 0
           /\ working' = staging /\ relied' = staging /\ UNCHANGED <<disk, phase, faults, tears>>
           /\ queue' # <<>> => Follows(working', staging')
<1> DEFINE rest == Tail(queue)
           next == IF rest = <<>> THEN staging ELSE Append(staging, Head(rest).state)
           again == Context("view_change", view, StateOf(next).checkpoint)
           left == Head(queue).caller = "view_change" /\ ViewLeft(next)
<1>1. /\ phase = "opened" /\ queue # <<>> /\ working' = staging /\ copy = Copies /\ copy' = 0
      /\ relied' = staging /\ UNCHANGED <<disk, phase, faults, tears>>
      /\ left => /\ queue' = Append(rest, again)
                 /\ staging' = IF rest = <<>> THEN Append(staging, again.state) ELSE next
      /\ ~left => queue' = rest /\ staging' = next
    BY Zenon DEF Verified
<1>2. queue \in Seq(ContextType) /\ Len(queue) \in 1..2 /\ staging \in Header /\ view \in 0..ViewMax
    <2>1. queue \in Seq(ContextType) /\ Len(queue) <= 2 /\ staging \in Header /\ view \in 0..ViewMax
        BY DEF IInv, TypeInv, QueueInv
    <2>2. Len(queue) \in Nat /\ Len(queue) # 0 /\ Len(queue) <= 2
        BY <1>1, <2>1, ShortQueue
    <2>3. \A n \in Nat : n # 0 /\ n <= 2 => n \in 1..2
        OBVIOUS
    <2> QED
        BY <2>1, <2>2, <2>3, Zenon
<1>3. CASE Len(queue) = 1
    <2>1. rest = <<>> /\ next = staging
        BY <1>2, <1>3, ShortQueue
    <2>2. StateOf(staging) \in State
        BY <1>2, HeaderStates
    <2>3. CASE left
        <3>1. again.state = [view |-> view, checkpoint |-> StateOf(staging).checkpoint]
              /\ StateOf(staging).view < view
            BY <2>1, <2>3 DEF Context, ViewLeft
        <3>2. again.state \in State /\ Monotonic(StateOf(staging), again.state)
            <4>1. [view |-> view, checkpoint |-> StateOf(staging).checkpoint] \in State
                BY <1>2, <2>2 DEF State
            <4>2. StateOf(staging).view \in Nat /\ StateOf(staging).checkpoint \in Nat /\ view \in Nat
                BY <1>2, <2>2, CopiesAssumption DEF State
            <4> HIDE DEF again
            <4>3. again.state.view = view /\ again.state.checkpoint = StateOf(staging).checkpoint
                BY <3>1
            <4> QED
                BY <3>1, <4>1, <4>2, <4>3 DEF Monotonic
        <3> QED
            BY <1>1, <2>1, <2>3, <3>2 DEF Follows
    <2>4. CASE ~left
        BY <1>1, <2>1, <2>4
    <2> QED
        BY <2>3, <2>4
<1>4. CASE Len(queue) = 2
    <2>1. queue[2] \in ContextType /\ rest = <<queue[2]>>
        BY <1>2, <1>4, ShortQueue
    <2>2. Head(rest) = queue[2] /\ rest # <<>>
        <3> HIDE DEF rest
        <3> QED
            BY <2>1
    <2>3. staging' = Append(staging, queue[2].state)
        BY <1>1, <2>2
    <2>4. queue[2].state \in State /\ Monotonic(StateOf(staging), queue[2].state)
        BY <1>4, <2>1 DEF IInv, QueueInv, ContextType
    <2> QED
        BY <1>1, <2>3, <2>4 DEF Follows
<1> QED
    BY <1>2, <1>3, <1>4

-----------------------------------------------------------------------------
\* What is written, relied on and repaired stays of one lineage.
LEMMA UpdateNext == SInv /\ [Next]_vars => UpdateInv'
<1> SUFFICES ASSUME SInv, [Next]_vars PROVE UpdateInv'
    OBVIOUS
<1> USE DEF SInv
<1>0. IInv /\ UpdateInv /\ relied \in Header /\ working \in Header /\ staging \in Header /\ faults \in Nat
      /\ 0 \in 0..Copies /\ (phase # "opened" => queue = <<>>)
    BY CopiesAssumption DEF UpdateInv, IInv, TypeInv, OpenInv
<1>1. CASE Checkpoint \/ \E v \in 1..ViewMax : AdvanceView(v)
    BY <1>0, <1>1, CallerSteps DEF UpdateInv
<1>2. CASE Verified
    BY <1>0, <1>2, VerifiedFollows DEF UpdateInv
<1>3. CASE WriteHeader
    <2>1. faults' \in Nat /\ copy' \in 0..Copies
        BY <1>0, <1>3, WriteEffect, SlotFacts DEF WriteHeader, UpdateInv
    <2> QED
        BY <1>0, <1>3, <2>1 DEF WriteHeader, UpdateInv
<1>4. CASE Crash \/ VerifyPanic
    BY <1>0, <1>4 DEF Crash, VerifyPanic, Stop, UpdateInv, historyVars
<1>5. CASE Open
    <2>1. /\ phase = "closed" /\ phase' = "repairing" /\ Stored # NoHeader /\ working' = Stored
          /\ queue' = queue /\ queue = <<>> /\ copy' = copy /\ faults' = faults /\ relied' = relied /\ tears' = tears
          /\ repairs' = FoundSlots(disk, working')
        BY <1>0, <1>5 DEF Open, Stored, historyVars
    <2>2. faults <= 1 => IsPrefix(relied, working')
        BY <2>1, StoredExtends
    <2>3. repairs' \in [Slot -> Slot \cup {Torn}]
        BY <2>1 DEF FoundSlots, CopyAt
    <2> QED
        BY <1>0, <2>1, <2>2, <2>3 DEF UpdateInv
<1>6. CASE Repair
    <2>1. faults' \in {faults, faults + 1}
        BY <1>0, <1>6, WriteEffect DEF Repair
    <2>2. repairs' \in [Slot -> Slot \cup {Torn}]
        <3>1. repairs \in [Slot -> Slot \cup {Torn}] /\ RepairNext(repairs) \in Slot
            BY <1>0, <1>6, RepairSlot DEF Repair, UpdateInv
        <3> QED
            BY <1>6, <3>1 DEF Repair
    <2> QED
        BY <1>0, <1>6, <2>1, <2>2 DEF Repair, UpdateInv
<1>7. CASE Opened
    BY <1>0, <1>7 DEF Opened, UpdateInv
<1>8. ASSUME NEW s \in Slot, Rot(s) PROVE UpdateInv'
    BY <1>0, <1>8 DEF Rot, procVars, UpdateInv
<1>9. CASE UNCHANGED vars
    BY <1>0, <1>9 DEF vars, procVars, historyVars, UpdateInv, Follows
<1> QED
    BY <1>1, <1>2, <1>3, <1>4, <1>5, <1>6, <1>7, <1>8, <1>9 DEF Next

\* A disk that keeps the headers it has, or loses copies, keeps its line.
LEMMA SameLine ==
    ASSUME DiskInv, faults' = faults \/ faults' = faults + 1, faults \in Nat, NEW f \in Exempt,
           \A s \in Slot : disk'[s] # Torn => disk[s] # Torn /\ disk'[s].header = disk[s].header
    PROVE  \E g \in Exempt' : \A s \in Slot \ {g} :
               s # f /\ (disk'[s] # Torn => disk[s] # Torn /\ disk'[s].header = disk[s].header)
<1>1. CASE f \in Exempt'
    BY <1>1
<1>2. CASE f \notin Exempt'
    <2>1. f = Copies /\ f \notin Slot /\ Exempt' = Slot /\ 0 \in Slot
        BY <1>2, SlotFacts DEF Exempt, Slot
    <2> QED
        BY <2>1
<1> QED
    BY <1>1, <1>2

\* No step brings a header of another line to two slots.
LEMMA LineageNext == SInv /\ [Next]_vars => LineageInv'
<1> SUFFICES ASSUME SInv, [Next]_vars, faults' <= 1 PROVE \E g \in Exempt' : Lineage(g)'
    BY DEF LineageInv
<1>0. IInv /\ UpdateInv /\ DiskInv /\ faults \in Nat /\ working \in Header /\ copy \in 0..Copies
    BY DEF SInv, UpdateInv, IInv, TypeInv
<1>1. faults' = faults \/ faults' = faults + 1
    <2>1. WriteHeader \/ Repair => faults' \in {faults, faults + 1}
        BY <1>0, WriteEffect DEF WriteHeader, Repair
    <2>2. (\E s \in Slot : Rot(s)) => faults' = faults + 1
        BY DEF Rot
    <2>3. ~(WriteHeader \/ Repair \/ \E s \in Slot : Rot(s)) => faults' = faults
        BY DEF Next, vars, historyVars, AdvanceView, Checkpoint, Verified, VerifyPanic, Open, Opened, Crash
    <2> QED
        BY <2>1, <2>2, <2>3
<1>2. faults <= 1
    BY <1>0, <1>1
<1>3. PICK f \in Exempt : Lineage(f)
    BY <1>2 DEF SInv, LineageInv
<1> DEFINE Kept(g) == \A s \in Slot \ {g} :
               s # f /\ (disk'[s] # Torn => disk[s] # Torn /\ disk'[s].header = disk[s].header)
<1>4. (\A s \in Slot : disk'[s] # Torn => disk[s] # Torn /\ disk'[s].header = disk[s].header)
          => \E g \in Exempt' : Kept(g)
    BY <1>0, <1>1, SameLine
<1>5. disk' = disk => \E g \in Exempt' : Kept(g)
    BY <1>4
<1>6. phase = "opened" => /\ IsPrefix(relied, working) /\ IsPrefix(relied, staging) /\ relied = working
    BY <1>0, StagingExtends DEF UpdateInv
<1>7. CASE Checkpoint \/ \E v \in 1..ViewMax : AdvanceView(v)
    <2>1. /\ phase = "opened" /\ phase' = "opened" /\ disk' = disk /\ working' = working
          /\ (staging' = staging /\ copy' = copy) \/ (staging = working /\ copy' = 0)
        BY <1>0, <1>7, CallerSteps
    <2>2. PICK g \in Exempt' : Kept(g)
        BY <1>5, <2>1
    <2>3. \A s \in Slot : ~(s < 0)
        BY SlotFacts
    <2> QED
        BY <1>3, <2>1, <2>2, <2>3 DEF Lineage
<1>8. CASE Verified
    <2>1. phase = "opened" /\ phase' = "opened" /\ disk' = disk /\ working' = staging /\ copy = Copies /\ copy' = 0
        BY <1>0, <1>8, VerifiedFollows
    <2>2. PICK g \in Exempt' : Kept(g)
        BY <1>5, <2>1
    <2>3. \A s \in Slot : s < Copies /\ ~(s < 0)
        BY SlotFacts DEF Slot
    <2> QED
        BY <1>3, <2>1, <2>2, <2>3 DEF Lineage
<1>9. CASE WriteHeader
    <2>1. /\ phase = "opened" /\ phase' = "opened" /\ copy \in Slot /\ Write(staging, copy)
          /\ copy' = copy + 1 /\ UNCHANGED <<working, staging>>
        BY <1>0, <1>9, CopiesAssumption DEF WriteHeader, Slot
    <2>2. PICK g \in Exempt' : \A s \in Slot \ {g} :
               s # f /\ (disk'[s] = Copy(staging, copy) \/ (s # copy /\ disk'[s] = disk[s]))
        BY <1>0, <2>1, WriteLine
    <2>3. \A s \in Slot : s # copy /\ s < copy' => s < copy
        BY <1>0, <2>1, SlotFacts
    <2>4. Copy(staging, copy).header = staging
        BY DEF Copy
    <2> QED
        BY <1>3, <2>1, <2>2, <2>3, <2>4 DEF Lineage
<1>10. CASE Crash \/ VerifyPanic
    <2>1. phase' = "closed" /\ relied' = relied /\ phase # "closed"
          /\ (disk' = disk \/ \E s : disk' = [disk EXCEPT ![s] = Torn])
        BY <1>10 DEF Crash, VerifyPanic, Stop, historyVars
    <2>2. PICK g \in Exempt' : Kept(g)
        BY <1>0, <1>4, <2>1 DEF DiskInv
    <2>3. \A s \in Slot \ {f} : disk[s] # Torn => IsPrefix(relied, disk[s].header)
        BY <1>0, <1>3, <1>6 DEF Lineage
    <2> QED
        BY <2>1, <2>2, <2>3 DEF Lineage
<1>11. CASE Open
    <2>1. phase = "closed" /\ phase' = "repairing" /\ relied' = relied /\ disk' = disk
          /\ repairs' = FoundSlots(disk, working')
        BY <1>11 DEF Open, historyVars
    <2>2. PICK g \in Exempt' : Kept(g)
        BY <1>5, <2>1
    <2>3. \A s \in Slot : repairs'[s] # Torn => disk[s].header = working'
        BY <2>1 DEF FoundSlots, Members
    <2> QED
        BY <1>3, <2>1, <2>2, <2>3 DEF Lineage
<1>12. CASE Repair
    <2> DEFINE c == RepairNext(repairs)
    <2>1. /\ phase = "repairing" /\ phase' = phase /\ Write(working, c) /\ working' = working
          /\ repairs' = [repairs EXCEPT ![c] = c] /\ relied' = relied /\ c # Copies
        BY <1>12 DEF Repair
    <2>2. repairs \in [Slot -> Slot \cup {Torn}] /\ IsPrefix(relied, working)
        BY <1>0, <1>2, <2>1 DEF UpdateInv
    <2>3. c \in Slot
        BY <2>1, <2>2, RepairSlot
    <2> HIDE DEF c
    <2>4. PICK g \in Exempt' : \A s \in Slot \ {g} :
               s # f /\ (disk'[s] = Copy(working, c) \/ (s # c /\ disk'[s] = disk[s]))
        BY <1>0, <2>1, <2>3, WriteLine
    <2>5. \A s \in Slot : s # c => repairs'[s] = repairs[s]
        BY <2>1, <2>2
    <2>6. Copy(working, c).header = working
        BY DEF Copy
    <2> QED
        BY <1>3, <2>1, <2>2, <2>4, <2>5, <2>6 DEF Lineage
<1>13. CASE Opened
    <2>1. /\ phase = "repairing" /\ phase' = "opened" /\ relied' = working /\ working' = working
          /\ staging' = staging /\ disk' = disk /\ RepairNext(repairs) = Copies
        BY <1>13 DEF Opened
    <2>2. staging = working
        BY <1>0, <2>1 DEF IInv, OpenInv
    <2>3. \A s \in Slot : repairs[s] # Torn
        BY <1>0, <2>1, RepairSlot DEF UpdateInv
    <2>4. PICK g \in Exempt' : Kept(g)
        BY <1>5, <2>1
    <2> QED
        BY <1>3, <2>1, <2>2, <2>3, <2>4 DEF Lineage
<1>14. ASSUME NEW r \in Slot, Rot(r) PROVE \E g \in Exempt' : Lineage(g)'
    <2>1. /\ UNCHANGED <<phase, working, staging, copy, repairs, relied>> /\ disk[r] # Torn
          /\ disk' = [disk EXCEPT ![r] = Torn] \/ disk' = [disk EXCEPT ![r].copy = Copies]
        BY <1>14 DEF Rot, procVars
    <2>2. disk[r] = Copy(disk[r].header, disk[r].copy)
        BY <1>0, <2>1 DEF DiskInv
    <2>3. [disk[r] EXCEPT !.copy = Copies].header = disk[r].header
        BY <2>2 DEF Copy
    <2>4. \A s \in Slot : disk'[s] # Torn => disk[s] # Torn /\ disk'[s].header = disk[s].header
        BY <1>0, <2>1, <2>3 DEF DiskInv
    <2>5. PICK g \in Exempt' : Kept(g)
        BY <1>4, <2>4
    <2> QED
        BY <1>3, <2>1, <2>5 DEF Lineage
<1>15. CASE UNCHANGED vars
    <2>1. PICK g \in Exempt' : Kept(g)
        BY <1>5, <1>15 DEF vars
    <2> QED
        BY <1>3, <1>15, <2>1 DEF vars, procVars, historyVars, Lineage
<1> QED
    BY <1>7, <1>8, <1>9, <1>10, <1>11, <1>12, <1>13, <1>14, <1>15 DEF Next

\* A formatted disk is of one line.
LEMMA InitSInv == Init => SInv
<1> SUFFICES ASSUME Init PROVE SInv
    OBVIOUS
<1>1. IInv
    BY InitIInv
<1>2. UpdateInv
    BY HeaderStates, SlotFacts DEF Init, UpdateInv
<1>3. LineageInv
    <2>1. Copies \in Exempt /\ \A s \in Slot : disk[s].header = working
        BY DEF Init, Exempt
    <2>2. phase = "opened" /\ staging = working
        BY DEF Init
    <2>3. Lineage(Copies)
        BY <2>1, <2>2 DEF Lineage
    <2> QED
        BY <2>1, <2>3 DEF LineageInv
<1> QED
    BY <1>1, <1>2, <1>3 DEF SInv

\* The lineage of the disk holds always.
THEOREM LineageInvariant == Spec => []SInv
<1>1. SInv /\ [Next]_vars => SInv'
    BY NextIInv, UpdateNext, LineageNext DEF SInv
<1> QED
    BY <1>1, InitSInv, PTL DEF Spec

\* "open()'s quorum never regresses": what a callback saw durable is part of whatever open finds after
\* a crash, for every number of copies and crashes, writes torn at any point and one disk fault of any
\* kind included.
THEOREM OpenNeverRegresses == Spec => []NeverRegresses
<1>1. SInv => NeverRegresses
    BY StoredExtends DEF NeverRegresses
<1> QED
    BY <1>1, LineageInvariant, PTL

-----------------------------------------------------------------------------
(* Without disk faults. *)

Count(d, h) == Cardinality(Members(d, h))

\* A disk that holds a header h in its quorum, and else only the header before it, or the one after
\* it in less than a quorum, where an update begins.
Quorate(d, h) ==
    /\ h \in Header
    /\ \A s \in Slot : d[s] # Torn => d[s].header \in Header /\ d[s] = Copy(d[s].header, s)
    /\ Count(d, h) >= OpenThreshold
    /\ \E n \in Header :
        /\ \A s \in Slot : d[s] # Torn => d[s].header \in {h, n}
        /\ \/ n = h \/ Follows(n, h)
           \/ Follows(h, n) /\ Count(d, n) < OpenThreshold /\ \A s \in Members(d, n) : s < OpenThreshold

\* An update has written the slots below copy; a crash leaves a quorum, and open repairs the rest.
CleanInv ==
    faults = 0 =>
        /\ phase = "opened" => \A s \in Slot : disk[s] = Copy(IF s < copy THEN staging ELSE working, s)
        /\ phase = "closed" => \E h : Quorate(disk, h)
        /\ phase = "repairing" =>
            /\ Quorate(disk, working)
            /\ \A s \in Slot : repairs[s] = IF s \in Members(disk, working) THEN s ELSE Torn
        /\ phase # "opened" /\ tears = 0 => \A s \in Slot : disk[s] # Torn

-----------------------------------------------------------------------------
\* What it is to follow a header.
LEMMA FollowsFacts ==
    ASSUME NEW old \in Header, NEW new, Follows(old, new)
    PROVE  /\ new \in Header /\ new # old /\ Len(old) \in Nat /\ Len(new) = Len(old) + 1
           /\ Front(new) = old /\ Monotonic(StateOf(old), StateOf(new))
<1>1. PICK x \in State : new = Append(old, x) /\ Monotonic(StateOf(old), x)
    BY DEF Follows
<1>2. new \in Header /\ StateOf(new) = x
    BY <1>1, HeaderStates
<1>3. old \in Seq(State) /\ Len(old) \in Nat /\ Len(new) = Len(old) + 1
    BY <1>1 DEF Header
<1>4. Front(new) = old
    <2> HIDE DEF State
    <2> QED
        BY <1>1, <1>3 DEF Front
<1>5. new # old
    BY <1>3
<1> QED
    BY <1>1, <1>2, <1>3, <1>4, <1>5

\* A copy is not what is left of one.
LEMMA CopyFacts ==
    ASSUME NEW h \in Header, NEW s \in Slot
    PROVE  Copy(h, s) # Torn /\ Copy(h, s).header = h /\ Copy(h, s).copy = s
<1>1. Copy(h, s) \in [header : Seq(State), copy : 0..Copies]
    BY CopiesAssumption DEF Copy, Header, Slot
<1>2. Copy(h, s).header = h /\ Copy(h, s).copy = s
    BY DEF Copy
<1> QED
    BY <1>1, <1>2, TornAssumption

\* The members of a quorum are no more than the slots.
LEMMA CountFacts ==
    ASSUME NEW d, NEW h
    PROVE  /\ Members(d, h) \subseteq Slot /\ IsFiniteSet(Members(d, h)) /\ Count(d, h) \in 0..8
           /\ \A S \in SUBSET Slot :
                /\ IsFiniteSet(S) /\ Cardinality(S) \in Nat
                /\ S \subseteq Members(d, h) => Cardinality(S) <= Count(d, h)
                /\ Members(d, h) \subseteq S => Count(d, h) <= Cardinality(S)
<1>1. IsFiniteSet(Slot) /\ Cardinality(Slot) = Copies
    <2>1. Copies - 1 \in Int /\ 0 \in Int /\ ~(0 > Copies - 1) /\ Copies - 1 - 0 + 1 = Copies
        BY SlotFacts
    <2> QED
        BY <2>1, FS_Interval DEF Slot
<1>2. Members(d, h) \subseteq Slot
    BY DEF Members
<1>3. \A S \in SUBSET Slot : IsFiniteSet(S) /\ Cardinality(S) \in Nat /\ Cardinality(S) <= Copies
    BY <1>1, FS_Subset, FS_CardinalityType
<1>4. Count(d, h) \in 0..8
    BY <1>2, <1>3, SlotFacts DEF Count
<1>5. ASSUME NEW S \in SUBSET Slot
      PROVE  /\ S \subseteq Members(d, h) => Cardinality(S) <= Count(d, h)
             /\ Members(d, h) \subseteq S => Count(d, h) <= Cardinality(S)
    BY <1>2, <1>3, FS_Subset DEF Count
<1> QED
    BY <1>2, <1>3, <1>4, <1>5

\* A header that has its quorum ranks above its parent, whatever copies there are of either.
LEMMA LongerRanksHigher ==
    ASSUME NEW l \in Nat, NEW longer \in Nat, longer = l + 1, NEW c \in 0..8, NEW e \in 0..8
    PROVE  /\ (100 + l) * 10 + c < (100 + longer) * 10 + e
           /\ l * 10 + c < (100 + longer) * 10 + e
           /\ (100 + l) * 10 + c \in Int /\ l * 10 + c \in Int /\ (100 + longer) * 10 + e \in Int
OBVIOUS

\* A quorum of copies in their own slots is what open reads.
LEMMA QuorateRead ==
    ASSUME NEW d, NEW h, Quorate(d, h)
    PROVE  Read(d, OpenThreshold) = h
<1> DEFINE rank(g) == Rank(d, g, OpenThreshold)
           best == CHOOSE x \in HeadersOn(d) : \A g \in HeadersOn(d) : rank(g) <= rank(x)
           deciding == {g \in HeadersOn(d) \ {best} :
                            Len(g) \in {Len(best) - 1, Len(best)} \/ Len(g) > Len(best) + 1}
           decider == CHOOSE g \in deciding : \A f \in deciding : rank(f) <= rank(g)
<1>1. ASSUME NEW g PROVE CopyCount(d, g) = Count(d, g)
    <2>1. \A s \in Members(d, g) : CopyAt(d, s) = s
        <3> SUFFICES ASSUME NEW s \in Members(d, g) PROVE CopyAt(d, s) = s
            OBVIOUS
        <3>1. s \in Slot /\ d[s] = Copy(d[s].header, s)
            BY DEF Members, Quorate
        <3>2. \A x : Copy(x, s).copy = s
            BY DEF Copy
        <3>3. d[s].copy = s
            BY <3>1, <3>2
        <3> QED
            BY <3>1, <3>3 DEF CopyAt
    <2>2. {CopyAt(d, s) : s \in Members(d, g)} = Members(d, g)
        BY <2>1
    <2> QED
        BY <2>2 DEF CopyCount, Count
<1>2. PICK n \in Header :
        /\ \A s \in Slot : d[s] # Torn => d[s].header \in {h, n}
        /\ n = h \/ Follows(n, h) \/ (Follows(h, n) /\ Count(d, n) < OpenThreshold)
    BY DEF Quorate
<1>3. h \in HeadersOn(d) /\ HeadersOn(d) \subseteq {h, n}
    <2>1. Members(d, h) # {}
        BY CountFacts, FS_EmptySet, SlotFacts DEF Quorate, Count
    <2> QED
        BY <1>2, <2>1 DEF Members, HeadersOn
<1>4. h \in Header /\ Len(h) \in Nat /\ Len(n) \in Nat /\ Count(d, h) \in 0..8 /\ Count(d, n) \in 0..8
      /\ Count(d, h) >= OpenThreshold
    BY CountFacts DEF Quorate, Header
<1>5. /\ rank(h) = (100 + Len(h)) * 10 + Count(d, h)
      /\ rank(n) = ((IF Count(d, n) >= OpenThreshold THEN 100 ELSE 0) + Len(n)) * 10 + Count(d, n)
    BY <1>1, <1>4 DEF Rank
<1>6. n # h => rank(n) < rank(h) /\ rank(h) \in Int /\ rank(n) \in Int
    <2>1. CASE n = h
        BY <2>1
    <2>2. CASE Follows(n, h)
        <3>1. Len(h) = Len(n) + 1
            BY <1>4, <2>2, FollowsFacts
        <3> HIDE DEF rank
        <3>2. CASE Count(d, n) >= OpenThreshold
            <4>1. rank(n) = (100 + Len(n)) * 10 + Count(d, n)
                BY <1>5, <3>2
            <4> QED
                BY <1>4, <1>5, <3>1, <4>1, LongerRanksHigher
        <3>3. CASE ~(Count(d, n) >= OpenThreshold)
            <4>1. rank(n) = Len(n) * 10 + Count(d, n)
                BY <1>4, <1>5, <3>3
            <4> QED
                BY <1>4, <1>5, <3>1, <4>1, LongerRanksHigher
        <3> QED
            BY <3>2, <3>3
    <2>3. CASE Follows(h, n) /\ Count(d, n) < OpenThreshold
        <3>1. Len(n) = Len(h) + 1 /\ ~(Count(d, n) >= OpenThreshold)
            BY <1>4, <2>3, FollowsFacts, SlotFacts
        <3> HIDE DEF rank
        <3> QED
            BY <1>4, <1>5, <3>1
    <2> QED
        BY <1>2, <2>1, <2>2, <2>3
<1>7. rank(h) \in Int
    <2> HIDE DEF rank
    <2> QED
        BY <1>4, <1>5
<1>8. best = h
    <2> HIDE DEF rank
    <2>1. \A g \in HeadersOn(d) : rank(g) <= rank(h)
        BY <1>3, <1>6, <1>7
    <2>2. \A x \in HeadersOn(d) : (\A g \in HeadersOn(d) : rank(g) <= rank(x)) => x = h
        BY <1>3, <1>6, <1>7
    <2> QED
        BY <1>3, <2>1, <2>2
<1>9. deciding = {} \/ (deciding = {n} /\ Follows(n, h))
    <2>1. deciding \subseteq {n} \ {h}
        BY <1>3, <1>8
    <2>2. ASSUME n \in deciding, n # h PROVE Follows(n, h)
        <3>1. Len(n) # Len(h) + 1
            <4>1. Len(n) \in {Len(best) - 1, Len(best)} \/ Len(n) > Len(best) + 1
                BY <2>2
            <4> HIDE DEF best, deciding
            <4> QED
                BY <1>4, <1>8, <4>1
        <3> QED
            BY <1>2, <1>4, <2>2, <3>1, FollowsFacts
    <2> HIDE DEF deciding
    <2> QED
        BY <2>1, <2>2
<1>10. deciding = {} \/ (decider = Front(best) /\ Monotonic(StateOf(decider), StateOf(best)))
    <2>1. SUFFICES ASSUME deciding = {n}, Follows(n, h)
                   PROVE  decider = Front(best) /\ Monotonic(StateOf(decider), StateOf(best))
        BY <1>9
    <2> HIDE DEF deciding, rank
    <2>2. decider = n
        <3>1. n # h
            BY <2>1, <1>4, FollowsFacts
        <3> QED
            BY <1>6, <2>1, <3>1
    <2> QED
        BY <1>8, <2>1, <2>2, <1>4, FollowsFacts
<1>11. HeadersOn(d) # {} /\ CopyCount(d, best) >= OpenThreshold
    BY <1>1, <1>3, <1>4, <1>8
<1>12. Read(d, OpenThreshold) =
        IF /\ HeadersOn(d) # {}
           /\ CopyCount(d, best) >= OpenThreshold
           /\ deciding = {} \/ (decider = Front(best) /\ Monotonic(StateOf(decider), StateOf(best)))
        THEN best ELSE NoHeader
    BY DEF Read
<1> HIDE DEF best, deciding, decider, rank
<1> QED
    BY <1>8, <1>10, <1>11, <1>12

\* The disk under an update, the copy k torn or not: the old header is the quorum's until as many
\* copies of the new one are written as open needs.
LEMMA LayoutQuorate ==
    ASSUME NEW d, NEW w \in Header, NEW g, g = w \/ Follows(w, g), NEW k \in 0..Copies,
           \A s \in Slot : \/ d[s] = Copy(IF s < k THEN g ELSE w, s)
                           \/ s = k /\ d[s] = Torn
    PROVE  Quorate(d, IF k >= OpenThreshold THEN g ELSE w)
<1> DEFINE at(s) == IF s < k THEN g ELSE w
           low == 0..(k - 1)
           high == (k + 1)..(Copies - 1)
<1>1. g \in Header
    BY FollowsFacts
<1>2. \A s \in Slot : at(s) \in {g, w} /\ at(s) \in Header /\ s \in Int
    BY <1>1, SlotFacts
<1>3. \A s \in Slot : d[s] # Torn => d[s] = Copy(at(s), s) /\ d[s].header = at(s)
    <2> SUFFICES ASSUME NEW s \in Slot, d[s] # Torn PROVE d[s] = Copy(at(s), s) /\ d[s].header = at(s)
        OBVIOUS
    <2>1. d[s] = Copy(at(s), s)
        OBVIOUS
    <2> HIDE DEF at
    <2> QED
        BY <1>2, <2>1, CopyFacts
<1>4. \A s \in Slot : s # k => d[s] # Torn
    <2> SUFFICES ASSUME NEW s \in Slot, s # k PROVE d[s] # Torn
        OBVIOUS
    <2>1. d[s] = Copy(at(s), s)
        OBVIOUS
    <2> HIDE DEF at
    <2> QED
        BY <1>2, <2>1, CopyFacts
<1>5. low \subseteq Slot /\ high \subseteq Slot /\ k \in Int /\ Copies \in Int
    BY SlotFacts DEF Slot
<1>6. Cardinality(low) = k /\ Cardinality(high) = IF k = Copies THEN 0 ELSE Copies - 1 - k
    <2>1. 0 \in Int /\ k - 1 \in Int /\ k + 1 \in Int /\ Copies - 1 \in Int
        BY <1>5
    <2>2. Cardinality(low) = IF 0 > k - 1 THEN 0 ELSE k - 1 - 0 + 1
        BY <2>1, FS_Interval
    <2>3. Cardinality(high) = IF k + 1 > Copies - 1 THEN 0 ELSE Copies - 1 - (k + 1) + 1
        BY <2>1, FS_Interval
    <2> HIDE DEF low, high
    <2> QED
        BY <2>2, <2>3, SlotFacts
<1>7. low \subseteq Members(d, g)
    <2>1. \A s \in low : s \in Slot /\ s # k /\ at(s) = g
        BY <1>5
    <2> HIDE DEF at, low
    <2> QED
        BY <1>3, <1>4, <2>1 DEF Members
<1>8. high \subseteq Members(d, w)
    <2>1. \A s \in high : s \in Slot /\ s # k /\ at(s) = w
        BY <1>5
    <2> HIDE DEF at, high
    <2> QED
        BY <1>3, <1>4, <2>1 DEF Members
<1>9. \A s \in Slot : d[s] # Torn => d[s].header \in {g, w} /\ d[s].header \in Header
                                    /\ d[s] = Copy(d[s].header, s)
    <2> HIDE DEF at
    <2> QED
        BY <1>2, <1>3, Zenon
<1>10. CASE k >= OpenThreshold
    <2>1. Count(d, g) >= OpenThreshold
        <3>1. k <= Count(d, g)
            BY <1>5, <1>6, <1>7, CountFacts
        <3> QED
            BY <1>5, <1>10, <3>1, CountFacts, SlotFacts
    <2>2. Quorate(d, g)
        BY <1>1, <1>9, <2>1 DEF Quorate
    <2> QED
        BY <1>10, <2>2
<1>11. CASE ~(k >= OpenThreshold)
    <2>1. Count(d, w) >= OpenThreshold
        <3>1. Cardinality(high) <= Count(d, w)
            BY <1>5, <1>8, CountFacts
        <3>2. k # Copies /\ Copies - 1 - k >= OpenThreshold
            BY <1>5, <1>11, SlotFacts
        <3> HIDE DEF high
        <3> QED
            BY <1>5, <1>6, <3>1, <3>2, CountFacts, SlotFacts
    <2>2. g # w => Count(d, g) < OpenThreshold /\ \A s \in Members(d, g) : s < OpenThreshold
        <3> SUFFICES ASSUME g # w
                     PROVE  Count(d, g) < OpenThreshold /\ \A s \in Members(d, g) : s < OpenThreshold
            OBVIOUS
        <3>1. Members(d, g) \subseteq low
            <4> SUFFICES ASSUME NEW s \in Members(d, g) PROVE s \in low
                OBVIOUS
            <4>1. s \in Slot /\ at(s) = g
                <5> HIDE DEF at
                <5> QED
                    BY <1>3 DEF Members
            <4>2. s < k /\ s \in 0..7
                BY <4>1, SlotFacts
            <4> QED
                BY <1>5, <4>2
        <3>2. Count(d, g) <= k
            BY <1>5, <1>6, <3>1, CountFacts
        <3>3. \A s \in low : s < OpenThreshold
            BY <1>5, <1>11, SlotFacts
        <3>4. Count(d, g) < OpenThreshold
            BY <1>5, <1>11, <3>2, CountFacts, SlotFacts
        <3> HIDE DEF low
        <3> QED
            BY <3>1, <3>3, <3>4
    <2>3. Quorate(d, w)
        BY <1>1, <1>9, <2>1, <2>2 DEF Quorate
    <2> QED
        BY <1>11, <2>3
<1> QED
    BY <1>10, <1>11

\* A slot that is no member of the quorum may be repaired, or torn by a crash of the repair.
LEMMA RepairQuorate ==
    ASSUME NEW d, NEW h, Quorate(d, h), NEW c \in Slot \ Members(d, h), NEW e,
           e[c] \in {Torn, Copy(h, c)}, \A s \in Slot \ {c} : e[s] = d[s]
    PROVE  /\ Quorate(e, h)
           /\ e[c] = Torn => Members(e, h) = Members(d, h)
           /\ e[c] # Torn => Members(e, h) = Members(d, h) \cup {c}
<1>1. h \in Header /\ Copy(h, c) # Torn /\ Copy(h, c).header = h
    BY CopyFacts DEF Quorate
<1>2. /\ e[c] = Torn \/ (e[c] = Copy(h, c) /\ e[c] # Torn /\ e[c].header = h)
      /\ \A s \in Slot \ {c} : e[s] = d[s]
    BY <1>1
<1>3. /\ e[c] = Torn => Members(e, h) = Members(d, h)
      /\ e[c] # Torn => Members(e, h) = Members(d, h) \cup {c}
    BY <1>2 DEF Members
<1>4. Members(d, h) \subseteq Members(e, h)
    BY <1>3
<1>5. \A n : n # h => Members(e, n) \subseteq Members(d, n)
    BY <1>2 DEF Members
<1>6. Count(e, h) >= OpenThreshold
    <2>1. Count(d, h) <= Count(e, h)
        BY <1>4, CountFacts DEF Count
    <2> QED
        BY <2>1, CountFacts, SlotFacts DEF Quorate
<1>7. \A n : n # h /\ Count(d, n) < OpenThreshold => Count(e, n) < OpenThreshold
    <2> SUFFICES ASSUME NEW n, n # h, Count(d, n) < OpenThreshold PROVE Count(e, n) < OpenThreshold
        OBVIOUS
    <2>1. Count(e, n) <= Count(d, n)
        BY <1>5, CountFacts DEF Count
    <2> QED
        BY <2>1, CountFacts, SlotFacts
<1>8. PICK n \in Header :
        /\ \A s \in Slot : d[s] # Torn => d[s].header \in {h, n}
        /\ \/ n = h \/ Follows(n, h)
           \/ Follows(h, n) /\ Count(d, n) < OpenThreshold /\ \A s \in Members(d, n) : s < OpenThreshold
    BY DEF Quorate
<1>9. \A s \in Slot : e[s] # Torn => e[s].header \in {h, n}
    BY <1>2, <1>8
<1>10. \/ n = h \/ Follows(n, h)
       \/ Follows(h, n) /\ Count(e, n) < OpenThreshold /\ \A s \in Members(e, n) : s < OpenThreshold
    BY <1>5, <1>7, <1>8
<1>11. \A s \in Slot : e[s] # Torn => e[s].header \in Header /\ e[s] = Copy(e[s].header, s)
    BY <1>1, <1>2 DEF Quorate
<1> QED
    BY <1>1, <1>3, <1>6, <1>8, <1>9, <1>10, <1>11 DEF Quorate

\* RepairIterator writes a slot with no copy while there is one, and then one found twice.
LEMMA RepairPicks ==
    ASSUME NEW slots \in [Slot -> Slot \cup {Torn}], RepairNext(slots) # Copies
    PROVE  /\ RepairNext(slots) \in Slot
           /\ slots[RepairNext(slots)] # Torn =>
                /\ \A s \in Slot : slots[s] # Torn
                /\ slots[RepairNext(slots)] # RepairNext(slots)
<1> DEFINE found == {slots[s] : s \in Slot} \ {Torn}
           empty == {s \in Slot : slots[s] = Torn}
           misdirected == {s \in Slot \ empty : /\ slots[s] # s
                                                /\ \E t \in Slot \ {s} : slots[t] = slots[s]}
<1>1. RepairNext(slots) = IF empty \ found # {} THEN Max(empty \ found)
                          ELSE IF empty # {} THEN Max(empty)
                          ELSE IF misdirected # {} THEN Max(misdirected)
                          ELSE Copies
    BY DEF RepairNext
<1>2. /\ \A s \in empty : s \in Slot /\ slots[s] = Torn
      /\ \A s \in misdirected : s \in Slot /\ slots[s] # s
      /\ empty = {} => \A s \in Slot : slots[s] # Torn
    OBVIOUS
<1> HIDE DEF empty, found, misdirected
<1>3. empty \ found \in SUBSET Slot /\ empty \in SUBSET Slot /\ misdirected \in SUBSET Slot
    BY <1>2
<1>4. /\ empty \ found # {} => Max(empty \ found) \in empty
      /\ empty # {} => Max(empty) \in empty
      /\ misdirected # {} => Max(misdirected) \in misdirected
    BY <1>3, MaxIn
<1> QED
    BY <1>1, <1>2, <1>4

\* RepairIterator writes a slot that is no member, until none is left.
LEMMA CleanRepair ==
    ASSUME NEW slots \in [Slot -> Slot \cup {Torn}], \A s \in Slot : slots[s] \in {s, Torn},
           RepairNext(slots) # Copies
    PROVE  RepairNext(slots) \in Slot /\ slots[RepairNext(slots)] = Torn
<1> QED
    BY RepairPicks

\* What open would find while an update is written, and while open repairs.
CleanStored == IF phase = "opened" /\ copy >= OpenThreshold THEN staging ELSE working

\* What open finds of a clean disk.
LEMMA StoredIs ==
    ASSUME SInv, CleanInv, faults = 0, phase # "closed"
    PROVE  Stored = CleanStored /\ Quorate(disk, CleanStored)
<1>1. IInv /\ UpdateInv /\ working \in Header /\ copy \in 0..Copies
    BY DEF SInv, UpdateInv, IInv, TypeInv
<1>2. CASE phase = "opened"
    <2>1. staging = working \/ Follows(working, staging)
        BY <1>1, <1>2 DEF UpdateInv, IInv, OpenInv
    <2>2. \A s \in Slot : disk[s] = Copy(IF s < copy THEN staging ELSE working, s)
        BY <1>2 DEF CleanInv
    <2>3. Quorate(disk, IF copy >= OpenThreshold THEN staging ELSE working)
        BY <1>1, <2>1, <2>2, LayoutQuorate
    <2> QED
        BY <1>2, <2>3, QuorateRead DEF Stored, CleanStored
<1>3. CASE phase = "repairing"
    BY <1>3, QuorateRead DEF CleanInv, Stored, CleanStored
<1> QED
    BY <1>1, <1>2, <1>3 DEF IInv, TypeInv

\* The quorum that is read once more is what it was, or what follows it.
Advances(old, new) == new = old \/ Front(new) = old

\* A write of an update.
LEMMA CleanWrite ==
    ASSUME SInv, CleanInv, faults = 0, faults' = 0, WriteHeader
    PROVE  CleanInv' /\ Advances(Stored, Stored')
<1>1. /\ phase = "opened" /\ phase' = "opened" /\ copy \in Slot /\ Write(staging, copy)
      /\ copy' = copy + 1 /\ UNCHANGED <<working, staging>> /\ DOMAIN disk = Slot
      /\ working \in Header /\ copy \in 0..7 /\ copy' \in 0..Copies
    <2>1. copy \in 0..Copies /\ copy < Copies
        BY DEF SInv, UpdateInv, WriteHeader
    <2>2. copy \in Slot /\ copy + 1 \in 0..Copies
        BY <2>1, CopiesAssumption DEF Slot
    <2> QED
        BY <2>2, SlotFacts DEF WriteHeader, SInv, IInv, TypeInv, DiskInv
<1>2. disk' = [disk EXCEPT ![copy] = Copy(staging, copy)]
    BY <1>1, WriteEffect DEF SInv, UpdateInv
<1>3. staging = working \/ Follows(working, staging)
    BY <1>1 DEF SInv, UpdateInv, IInv, OpenInv
<1>4. \A s \in Slot : disk'[s] = Copy(IF s < copy' THEN staging ELSE working, s)
    <2> SUFFICES ASSUME NEW s \in Slot PROVE disk'[s] = Copy(IF s < copy' THEN staging ELSE working, s)
        OBVIOUS
    <2>1. CASE s = copy
        BY <1>1, <1>2, <2>1
    <2>2. CASE s # copy
        <3>1. disk'[s] = Copy(IF s < copy THEN staging ELSE working, s)
            BY <1>1, <1>2, <2>2 DEF CleanInv
        <3>2. s < copy' <=> s < copy
            BY <1>1, <2>2, SlotFacts
        <3> QED
            BY <3>1, <3>2
    <2> QED
        BY <2>1, <2>2
<1>5. CleanInv'
    BY <1>1, <1>4 DEF CleanInv
<1>6. Stored' = IF copy' >= OpenThreshold THEN staging ELSE working
    <2>1. Quorate(disk', IF copy' >= OpenThreshold THEN staging ELSE working)
        BY <1>1, <1>3, <1>4, LayoutQuorate
    <2> QED
        BY <2>1, QuorateRead DEF Stored
<1>7. Stored = IF copy >= OpenThreshold THEN staging ELSE working
    BY <1>1, StoredIs DEF CleanStored
<1>8. copy >= OpenThreshold => copy' >= OpenThreshold
    BY <1>1, SlotFacts
<1>9. Follows(working, staging) => Front(staging) = working
    BY <1>1, FollowsFacts
<1> QED
    BY <1>3, <1>5, <1>6, <1>7, <1>8, <1>9 DEF Advances

\* A write of the repair.
LEMMA CleanRepairStep ==
    ASSUME SInv, CleanInv, faults = 0, faults' = 0, Repair
    PROVE  CleanInv' /\ Advances(Stored, Stored')
<1> DEFINE c == RepairNext(repairs)
<1>1. /\ phase = "repairing" /\ phase' = "repairing" /\ Write(working, c) /\ c # Copies
      /\ repairs' = [repairs EXCEPT ![c] = c] /\ working' = working
      /\ repairs \in [Slot -> Slot \cup {Torn}] /\ DOMAIN disk = Slot
    BY DEF Repair, SInv, UpdateInv, IInv, TypeInv, DiskInv
<1>2. /\ Quorate(disk, working)
      /\ \A s \in Slot : repairs[s] = IF s \in Members(disk, working) THEN s ELSE Torn
    BY <1>1 DEF CleanInv
<1>3. c \in Slot /\ repairs[c] = Torn
    BY <1>1, <1>2, CleanRepair
<1> HIDE DEF c
<1>4. c \in Slot \ Members(disk, working)
    BY <1>2, <1>3, TornAssumption
<1>5. disk' = [disk EXCEPT ![c] = Copy(working, c)]
    BY <1>1, WriteEffect DEF SInv, UpdateInv
<1>6. disk'[c] # Torn
    BY <1>1, <1>2, <1>3, <1>5, CopyFacts DEF Quorate
<1>7. Quorate(disk', working) /\ Members(disk', working) = Members(disk, working) \cup {c}
    <2>1. disk'[c] \in {Torn, Copy(working, c)} /\ \A s \in Slot \ {c} : disk'[s] = disk[s]
        BY <1>1, <1>3, <1>5
    <2> QED
        BY <1>2, <1>4, <1>6, <2>1, RepairQuorate
<1>8. CleanInv'
    <2>1. tears' = 0 => \A s \in Slot : disk'[s] # Torn
        BY <1>1, <1>3, <1>5, <1>6 DEF CleanInv, Repair
    <2> QED
        BY <1>1, <1>2, <1>3, <1>7, <2>1 DEF CleanInv
<1>9. Stored' = working /\ Stored = working
    BY <1>2, <1>7, QuorateRead DEF Stored
<1> QED
    BY <1>8, <1>9 DEF Advances

\* A crash, whatever it tears.
LEMMA CleanCrash ==
    ASSUME SInv, CleanInv, faults = 0, faults' = 0, Crash \/ VerifyPanic
    PROVE  CleanInv' /\ Stored' = Stored
<1>1. /\ phase # "closed" /\ phase' = "closed" /\ DOMAIN disk = Slot /\ copy \in 0..Copies
      /\ working \in Header /\ phase \in {"opened", "repairing"}
    BY DEF Crash, VerifyPanic, Stop, SInv, UpdateInv, IInv, TypeInv, DiskInv
<1>0. tears \in Nat /\ (tears = 0 => \A s \in Slot : disk[s] # Torn)
    <2>1. ASSUME phase = "opened", NEW s \in Slot PROVE disk[s] # Torn
        <3>1. disk[s] = Copy(IF s < copy THEN staging ELSE working, s) /\ working \in Header
              /\ staging \in Header
            BY <2>1 DEF CleanInv, SInv, IInv, TypeInv
        <3> QED
            BY <3>1, CopyFacts
    <2> QED
        BY <2>1 DEF CleanInv, SInv, UpdateInv
<1>2. CASE disk' = disk /\ tears' = tears
    <2>1. Quorate(disk', CleanStored)
        BY <1>1, <1>2, StoredIs
    <2> QED
        BY <1>0, <1>1, <1>2, <2>1 DEF CleanInv, Stored
<1>3. ASSUME NEW s \in InFlight, disk' = [disk EXCEPT ![s] = Torn], tears' = tears + 1
      PROVE  CleanInv' /\ Stored' = Stored
    <2>1. Quorate(disk', CleanStored)
        <3>1. CASE phase = "opened"
            <4>1. s = copy
                BY <1>3, <3>1 DEF InFlight
            <4>2. staging = working \/ Follows(working, staging)
                BY <3>1 DEF SInv, UpdateInv, IInv, OpenInv
            <4>3. \A t \in Slot : \/ disk'[t] = Copy(IF t < copy THEN staging ELSE working, t)
                                  \/ t = copy /\ disk'[t] = Torn
                <5>1. \A t \in Slot : disk[t] = Copy(IF t < copy THEN staging ELSE working, t)
                    BY <3>1 DEF CleanInv
                <5>2. \A t \in Slot : IF t = copy THEN disk'[t] = Torn ELSE disk'[t] = disk[t]
                    BY <1>1, <1>3, <4>1
                <5> QED
                    BY <5>1, <5>2
            <4>4. Quorate(disk', IF copy >= OpenThreshold THEN staging ELSE working)
                BY <1>1, <4>2, <4>3, LayoutQuorate
            <4> QED
                BY <3>1, <4>4 DEF CleanStored
        <3>2. CASE phase = "repairing"
            <4>1. /\ Quorate(disk, working) /\ repairs \in [Slot -> Slot \cup {Torn}]
                  /\ \A t \in Slot : repairs[t] = IF t \in Members(disk, working) THEN t ELSE Torn
                BY <3>2 DEF CleanInv, SInv, UpdateInv
            <4>2. s = RepairNext(repairs) /\ s # Copies
                BY <1>3, <3>2 DEF InFlight
            <4>3. s \in Slot /\ repairs[s] = Torn
                BY <4>1, <4>2, CleanRepair
            <4>4. s \in Slot \ Members(disk, working)
                BY <4>1, <4>3, TornAssumption
            <4>5. disk'[s] \in {Torn, Copy(working, s)} /\ \A t \in Slot \ {s} : disk'[t] = disk[t]
                BY <1>1, <1>3, <4>3
            <4>6. Quorate(disk', working)
                BY <4>1, <4>4, <4>5, RepairQuorate
            <4> QED
                BY <3>2, <4>6 DEF CleanStored
        <3> QED
            BY <1>1, <3>1, <3>2
    <2>2. Stored' = CleanStored
        BY <2>1, QuorateRead DEF Stored
    <2>3. tears' # 0
        BY <1>0, <1>3
    <2> QED
        BY <1>1, <2>1, <2>2, <2>3, StoredIs DEF CleanInv
<1> QED
    BY <1>2, <1>3 DEF Crash, VerifyPanic, historyVars

\* The steps that leave the disk alone.
LEMMA CleanQuiet ==
    ASSUME SInv, CleanInv, faults = 0, faults' = 0,
           \/ Checkpoint \/ Verified \/ Open \/ Opened \/ UNCHANGED vars
           \/ \E v \in 1..ViewMax : AdvanceView(v)
    PROVE  CleanInv' /\ disk' = disk
<1>1. IInv /\ UpdateInv /\ copy \in 0..Copies
    BY DEF SInv, UpdateInv
<1>2. CASE Checkpoint \/ \E v \in 1..ViewMax : AdvanceView(v)
    <2>1. /\ phase = "opened" /\ UNCHANGED <<disk, working, phase>>
          /\ (staging' = staging /\ copy' = copy) \/ (staging = working /\ copy' = 0)
        BY <1>1, <1>2, CallerSteps
    <2>2. \A s \in Slot : ~(s < 0)
        BY SlotFacts
    <2> QED
        BY <2>1, <2>2 DEF CleanInv
<1>3. CASE Verified
    <2>1. /\ phase = "opened" /\ phase' = "opened" /\ copy = Copies /\ copy' = 0
          /\ working' = staging /\ disk' = disk
        BY <1>1, <1>3, VerifiedFollows
    <2>2. \A s \in Slot : ~(s < 0) /\ s < Copies
        BY SlotFacts DEF Slot
    <2> QED
        BY <2>1, <2>2 DEF CleanInv
<1>4. CASE Open
    <2>1. /\ phase = "closed" /\ phase' = "repairing" /\ disk' = disk /\ working' = Stored
          /\ repairs' = FoundSlots(disk, working') /\ tears' = tears
        BY <1>4 DEF Open, Stored, historyVars
    <2>2. PICK h : Quorate(disk, h)
        BY <2>1 DEF CleanInv
    <2>3. working' = h
        BY <2>1, <2>2, QuorateRead DEF Stored
    <2>4. ASSUME NEW s \in Slot PROVE repairs'[s] = IF s \in Members(disk, h) THEN s ELSE Torn
        <3>1. repairs'[s] = FoundSlots(disk, h)[s]
            BY <2>1, <2>3
        <3>2. \A t \in Members(disk, h) : disk[t].copy = t /\ t \in Slot /\ CopyAt(disk, t) = t
            <4> SUFFICES ASSUME NEW t \in Members(disk, h)
                         PROVE  disk[t].copy = t /\ t \in Slot /\ CopyAt(disk, t) = t
                OBVIOUS
            <4>1. t \in Slot /\ disk[t] = Copy(disk[t].header, t)
                BY <2>2 DEF Members, Quorate
            <4>2. \A x : Copy(x, t).copy = t
                BY DEF Copy
            <4> QED
                BY <4>1, <4>2 DEF CopyAt
        <3>3. FoundSlots(disk, h)[s] =
                IF /\ s \in Members(disk, h)
                   /\ \/ disk[s].copy \notin Slot
                      \/ \A t \in Members(disk, h) : t < s => CopyAt(disk, t) # disk[s].copy
                THEN CopyAt(disk, s) ELSE Torn
            BY Zenon DEF FoundSlots
        <3>4. \A t \in Slot : t < s => t # s
            BY SlotFacts
        <3> QED
            BY <3>1, <3>2, <3>3, <3>4
    <2> QED
        BY <2>1, <2>2, <2>3, <2>4 DEF CleanInv
<1>5. CASE Opened
    <2>1. /\ phase = "repairing" /\ phase' = "opened" /\ RepairNext(repairs) = Copies
          /\ UNCHANGED <<disk, working, staging, copy>> /\ staging = working
        BY <1>1, <1>5 DEF Opened, IInv, OpenInv
    <2>2. \A s \in Slot : repairs[s] # Torn
        BY <1>1, <2>1, RepairSlot DEF UpdateInv
    <2>3. \A s \in Slot : disk[s] = Copy(working, s)
        <3>1. \A s \in Slot : s \in Members(disk, working)
            BY <2>1, <2>2 DEF CleanInv
        <3> QED
            BY <2>1, <3>1 DEF CleanInv, Quorate, Members
    <2> QED
        BY <2>1, <2>3 DEF CleanInv
<1>6. CASE UNCHANGED vars
    BY <1>6 DEF vars, procVars, historyVars, CleanInv
<1> QED
    BY <1>2, <1>3, <1>4, <1>5, <1>6

\* Without a disk fault an update is atomic.
LEMMA CleanNext ==
    ASSUME SInv, CleanInv, [Next]_vars
    PROVE  CleanInv' /\ (faults' = 0 => Advances(Stored, Stored'))
<1>1. SUFFICES ASSUME faults' = 0 PROVE CleanInv' /\ Advances(Stored, Stored')
    BY DEF CleanInv
<1>2. faults \in Nat
    BY DEF SInv, UpdateInv
<1>3. faults = 0 /\ ~(\E s \in Slot : Rot(s))
    <2>1. CASE WriteHeader \/ Repair
        <3>1. faults' \in {faults, faults + 1}
            BY <1>2, <2>1, WriteEffect DEF WriteHeader, Repair
        <3>2. ~(\E s \in Slot : Rot(s))
            BY <1>1, <1>2 DEF Rot
        <3> QED
            BY <1>1, <1>2, <3>1, <3>2
    <2>2. CASE \E s \in Slot : Rot(s)
        BY <1>1, <1>2, <2>2 DEF Rot
    <2>3. CASE ~(WriteHeader \/ Repair \/ \E s \in Slot : Rot(s))
        BY <1>1, <2>3 DEF Next, vars, historyVars, AdvanceView, Checkpoint, Verified, VerifyPanic, Open,
            Opened, Crash
    <2> QED
        BY <2>1, <2>2, <2>3
<1>4. CASE WriteHeader
    BY <1>1, <1>3, <1>4, CleanWrite
<1>5. CASE Repair
    BY <1>1, <1>3, <1>5, CleanRepairStep
<1>6. CASE Crash \/ VerifyPanic
    BY <1>1, <1>3, <1>6, CleanCrash DEF Advances
<1>7. CASE \/ Checkpoint \/ Verified \/ Open \/ Opened \/ UNCHANGED vars
           \/ \E v \in 1..ViewMax : AdvanceView(v)
    BY <1>1, <1>3, <1>7, CleanQuiet DEF Advances, Stored
<1> QED
    BY <1>3, <1>4, <1>5, <1>6, <1>7 DEF Next

\* A formatted disk is clean.
LEMMA InitCleanInv == Init => CleanInv
<1> QED
    BY DEF Init, CleanInv, Copy

\* A disk without faults is clean.
THEOREM CleanInvariant == Spec => [](SInv /\ CleanInv)
<1>1. SInv /\ CleanInv /\ [Next]_vars => CleanInv'
    BY CleanNext
<1> QED
    BY <1>1, InitCleanInv, LineageInvariant, PTL DEF Spec

\* Without disk faults an update is atomic, for every number of copies and crashes: whatever the
\* write, its crash or its repair, what open would find is as before, or the one header after it.
THEOREM UpdatesAreAtomic == Spec => AtomicUpdate
<1>1. SInv /\ CleanInv /\ [Next]_vars
        => [disk' # disk /\ faults' = 0 /\ Stored' # Stored => Front(Stored') = Stored]_vars
    BY CleanNext DEF Advances
<1> QED
    BY <1>1, CleanInvariant, PTL DEF Spec, AtomicUpdate

-----------------------------------------------------------------------------
(* After one disk fault. *)

Numbers(d, h) == {CopyAt(d, s) : s \in Members(d, h)}

\* The header w, and g that is or follows it, in every slot but f, in its own copy or, in slot m, in
\* a copy that was meant for f.  In f there may also be what was there before w, or what is left of
\* an update that was given up, before which no later copy of g is written.
Found(d, w, g, f, m) ==
    /\ \A s \in Slot \ {f} : d[s] # Torn =>
        d[s].header \in {w, g} /\ CopyAt(d, s) \in IF s = m THEN {m, f} ELSE {s}
    /\ d[f] # Torn =>
        /\ CopyAt(d, f) = f
        /\ \/ d[f].header \in {w, g} \/ Follows(d[f].header, w)
           \/ Follows(w, d[f].header) /\ f < OpenThreshold /\ (g # w => \A t \in Numbers(d, g) : t < f)

Whole(f) == tears = 0 => \A s \in Slot \ {f} : disk[s] # Torn

ClosedOK(f, m) == Whole(f) /\ \E w, g \in Header : (g = w \/ Follows(w, g)) /\ Found(disk, w, g, f, m)

\* What RepairIterator takes for found is there, but for the slot of the fault.
Repaired(f) ==
    /\ \A s \in Slot \ {f} : repairs[s] # Torn => disk[s] # Torn /\ disk[s].header = working
    /\ repairs[f] # Torn /\ disk[f] # Torn =>
        \/ disk[f].header = working \/ Follows(disk[f].header, working)
        \/ Follows(working, disk[f].header) /\ f < OpenThreshold

\* A copy of the quorum that RepairIterator writes over is in another slot too, or is not needed.
RepairSafe(f, m) ==
    /\ \A x \in Members(disk, working) : repairs[x] = Torn =>
        \/ \E t \in Members(disk, working) \ {x} : CopyAt(disk, t) = CopyAt(disk, x) /\ repairs[t] # Torn
        \/ x = m /\ CopyCount(disk, working) > OpenThreshold
    /\ \A x \in Slot : repairs[x] \notin {x, Torn} =>
        /\ x = m /\ m # f /\ repairs[x] = f /\ x \in Members(disk, working) /\ CopyAt(disk, x) = f
        /\ repairs[f] = f => f \in Members(disk, working)

RepairingOK(f, m) ==
    /\ Whole(f) /\ Repaired(f) /\ RepairSafe(f, m)
    /\ \E w, g \in Header :
        /\ (g = w \/ Follows(w, g)) /\ working \in {w, g} /\ Found(disk, w, g, f, m)
        /\ working # w /\ disk[f] # Torn => disk[f].header \in {w, g} \/ Follows(disk[f].header, w)

OpenedOK(f, m) ==
    /\ Found(disk, working, staging, f, m)
    /\ \A s \in Slot \ {f} : disk[s] # Torn /\ (s < copy => disk[s].header = staging)
    /\ disk[f] # Torn /\ f < copy => disk[f].header \in {working, staging}

FaultInv ==
    faults = 1 => \E f, m \in Slot : /\ phase = "closed" => ClosedOK(f, m)
                                     /\ phase = "repairing" => RepairingOK(f, m)
                                     /\ phase = "opened" => OpenedOK(f, m)

-----------------------------------------------------------------------------
\* Sets of slots, and their sizes.
LEMMA SlotSets ==
    /\ \A S \in SUBSET Slot : IsFiniteSet(S) /\ Cardinality(S) \in 0..8
    /\ \A S, R \in SUBSET Slot : S \subseteq R => Cardinality(S) <= Cardinality(R)
    /\ \A x : \A S \in SUBSET Slot : Cardinality(S) <= Cardinality(S \ {x}) + 1
    /\ \A S, R \in SUBSET Slot : Cardinality(S \cup R) <= Cardinality(S) + Cardinality(R)
    /\ Cardinality(Slot) = Copies
<1>1. IsFiniteSet(Slot) /\ Cardinality(Slot) = Copies
    <2>1. Copies - 1 \in Int /\ 0 \in Int /\ ~(0 > Copies - 1) /\ Copies - 1 - 0 + 1 = Copies
        BY SlotFacts
    <2> QED
        BY <2>1, FS_Interval DEF Slot
<1>2. \A S \in SUBSET Slot : IsFiniteSet(S) /\ Cardinality(S) \in 0..8
    <2> SUFFICES ASSUME NEW S \in SUBSET Slot PROVE IsFiniteSet(S) /\ Cardinality(S) \in 0..8
        OBVIOUS
    <2>1. IsFiniteSet(S) /\ Cardinality(S) <= Copies /\ Cardinality(S) \in Nat
        BY <1>1, FS_Subset, FS_CardinalityType
    <2> QED
        BY <2>1, SlotFacts
<1>3. \A S, R \in SUBSET Slot : S \subseteq R => Cardinality(S) <= Cardinality(R)
    BY <1>2, FS_Subset
<1>4. ASSUME NEW S \in SUBSET Slot, NEW x PROVE Cardinality(S) <= Cardinality(S \ {x}) + 1
    <2>1. Cardinality(S \ {x}) = IF x \in S THEN Cardinality(S) - 1 ELSE Cardinality(S)
        BY <1>2, FS_RemoveElement
    <2> QED
        BY <1>2, <2>1
<1>5. ASSUME NEW S \in SUBSET Slot, NEW R \in SUBSET Slot
      PROVE  Cardinality(S \cup R) <= Cardinality(S) + Cardinality(R)
    <2>1. Cardinality(S \cup R) = Cardinality(S) + Cardinality(R) - Cardinality(S \cap R)
        BY <1>2, FS_Union
    <2>2. Cardinality(S \cap R) \in 0..8 /\ Cardinality(S) \in 0..8 /\ Cardinality(R) \in 0..8
        BY <1>2
    <2> QED
        BY <2>1, <2>2
<1> QED
    BY <1>1, <1>2, <1>3, <1>4, <1>5

\* The numbers of the copies of a header are slots.
LEMMA NumbersFacts ==
    ASSUME NEW d, NEW h
    PROVE  /\ Members(d, h) \subseteq Slot /\ Numbers(d, h) \subseteq Slot
           /\ CopyCount(d, h) = Cardinality(Numbers(d, h)) /\ CopyCount(d, h) \in 0..8
           /\ \A s \in Slot : CopyAt(d, s) \in Slot
<1>1. \A s \in Slot : CopyAt(d, s) \in Slot
    BY DEF CopyAt
<1>2. Members(d, h) \subseteq Slot /\ Numbers(d, h) \subseteq Slot
    BY <1>1 DEF Members, Numbers
<1>3. CopyCount(d, h) = Cardinality(Numbers(d, h))
    BY DEF CopyCount, Numbers
<1> QED
    BY <1>1, <1>2, <1>3, SlotSets

\* What is read: the header that outranks the others, if the one next in rank is its parent.
LEMMA BestRead ==
    ASSUME NEW d, NEW h \in HeadersOn(d), CopyCount(d, h) >= OpenThreshold,
           Rank(d, h, OpenThreshold) \in Int,
           \A x \in HeadersOn(d) \ {h} :
               /\ Rank(d, x, OpenThreshold) \in Int
               /\ Rank(d, x, OpenThreshold) < Rank(d, h, OpenThreshold)
               /\ \/ x = Front(h) /\ Monotonic(StateOf(x), StateOf(h))
                  \/ ~(Len(x) \in {Len(h) - 1, Len(h)} \/ Len(x) > Len(h) + 1)
    PROVE  Read(d, OpenThreshold) = h
<1> DEFINE rank(g) == Rank(d, g, OpenThreshold)
           best == CHOOSE x \in HeadersOn(d) : \A g \in HeadersOn(d) : rank(g) <= rank(x)
           deciding == {g \in HeadersOn(d) \ {best} :
                            Len(g) \in {Len(best) - 1, Len(best)} \/ Len(g) > Len(best) + 1}
           decider == CHOOSE g \in deciding : \A f \in deciding : rank(f) <= rank(g)
<1>1. best = h
    <2>1. /\ rank(h) \in Int
          /\ \A x \in HeadersOn(d) \ {h} : rank(x) \in Int /\ rank(x) < rank(h)
        OBVIOUS
    <2> HIDE DEF rank
    <2>2. \A x \in HeadersOn(d) : rank(x) <= rank(h)
        BY <2>1
    <2>3. \A x \in HeadersOn(d) : (\A g \in HeadersOn(d) : rank(g) <= rank(x)) => x = h
        BY <2>1
    <2> QED
        BY <2>2, <2>3
<1>2. deciding \subseteq {Front(h)} /\ \A x \in deciding : Monotonic(StateOf(x), StateOf(h))
    <2>1. \A x \in deciding : /\ x \in HeadersOn(d) \ {best}
                              /\ Len(x) \in {Len(best) - 1, Len(best)} \/ Len(x) > Len(best) + 1
        OBVIOUS
    <2> HIDE DEF best, deciding
    <2> QED
        BY <1>1, <2>1
<1>3. deciding = {} \/ (decider = Front(best) /\ Monotonic(StateOf(decider), StateOf(best)))
    <2>1. \A x \in deciding : rank(x) \in Int
        OBVIOUS
    <2> HIDE DEF best, deciding, rank
    <2>2. ASSUME deciding # {} PROVE decider = Front(h) /\ decider \in deciding
        <3>1. deciding = {Front(h)}
            BY <1>2, <2>2
        <3>2. rank(Front(h)) <= rank(Front(h))
            BY <2>1, <3>1
        <3> QED
            BY <3>1, <3>2
    <2> QED
        BY <1>1, <1>2, <2>2
<1>4. Read(d, OpenThreshold) =
        IF /\ HeadersOn(d) # {}
           /\ CopyCount(d, best) >= OpenThreshold
           /\ deciding = {} \/ (decider = Front(best) /\ Monotonic(StateOf(decider), StateOf(best)))
        THEN best ELSE NoHeader
    BY DEF Read
<1> HIDE DEF best, deciding, decider, rank
<1> QED
    BY <1>1, <1>3, <1>4

\* When a header has its copies, the update in its place that was given up is gone.
LEMMA NoneGivenUp ==
    ASSUME NEW d, NEW w, NEW g, g # w, NEW f \in Slot, NEW m, Found(d, w, g, f, m),
           CopyCount(d, g) >= OpenThreshold, d[f] # Torn
    PROVE  d[f].header \in {w, g} \/ Follows(d[f].header, w)
<1> SUFFICES ASSUME \A t \in Numbers(d, g) : t < f, f < OpenThreshold PROVE FALSE
    BY DEF Found
<1> DEFINE below == 0..(f - 1)
<1>1. 0 \in Int /\ f - 1 \in Int /\ f \in 0..7
    BY SlotFacts
<1>2. IsFiniteSet(below) /\ Cardinality(below) = f
    <2>1. Cardinality(below) = IF 0 > f - 1 THEN 0 ELSE f - 1 - 0 + 1
        BY <1>1, FS_Interval
    <2> QED
        BY <1>1, <2>1, FS_Interval
<1>3. Numbers(d, g) \subseteq below
    <2>1. \A t \in 0..7 : t < f => t \in below
        BY <1>1
    <2>2. Numbers(d, g) \subseteq 0..7
        BY NumbersFacts, SlotFacts
    <2> HIDE DEF below
    <2> QED
        BY <2>1, <2>2
<1> HIDE DEF below
<1>4. CopyCount(d, g) <= f
    BY <1>2, <1>3, NumbersFacts, FS_Subset
<1> QED
    BY <1>1, <1>4, NumbersFacts, SlotFacts

\* What open finds after one disk fault: the newer of the two headers that has its copies.
LEMMA FoundRead ==
    ASSUME NEW d, NEW w \in Header, NEW g \in Header, g = w \/ Follows(w, g), NEW f \in Slot, NEW m \in Slot,
           Found(d, w, g, f, m), \A s \in Slot : d[s] # Torn => d[s].header \in Header
    PROVE  Read(d, OpenThreshold) = IF CopyCount(d, g) >= OpenThreshold THEN g
                                    ELSE IF CopyCount(d, w) >= OpenThreshold THEN w ELSE NoHeader
<1> DEFINE o == d[f].header
           rank(h) == Rank(d, h, OpenThreshold)
<1>1. \A h \in HeadersOn(d) : h \in {w, g} \/ (h = o /\ d[f] # Torn)
    BY DEF HeadersOn, Found
<1>2. \A h : CopyCount(d, h) \in 0..8 /\ Numbers(d, h) \subseteq Slot
             /\ CopyCount(d, h) = Cardinality(Numbers(d, h))
    BY NumbersFacts
<1>3. OpenThreshold \in 2..4
    BY SlotFacts
<1>4. \A h : CopyCount(d, h) >= OpenThreshold => h \in HeadersOn(d)
    <2> SUFFICES ASSUME NEW h, CopyCount(d, h) >= OpenThreshold PROVE h \in HeadersOn(d)
        OBVIOUS
    <2>1. Numbers(d, h) # {}
        BY <1>2, <1>3, FS_EmptySet
    <2> QED
        BY <2>1 DEF Numbers, Members, HeadersOn
<1>5. d[f] # Torn /\ o \notin {w, g} => CopyCount(d, o) = 1
    <2> SUFFICES ASSUME d[f] # Torn, o \notin {w, g} PROVE CopyCount(d, o) = 1
        OBVIOUS
    <2>1. Members(d, o) = {f} /\ CopyAt(d, f) = f
        BY DEF Members, Found
    <2>2. Numbers(d, o) = {f}
        BY <2>1 DEF Numbers
    <2> QED
        BY <1>2, <2>2, FS_Singleton
<1>6. \A h \in Header : /\ h \in Header /\ Len(h) \in Nat
                        /\ CopyCount(d, h) >= OpenThreshold =>
                              rank(h) = (100 + Len(h)) * 10 + CopyCount(d, h)
                        /\ ~(CopyCount(d, h) >= OpenThreshold) =>
                              rank(h) = Len(h) * 10 + CopyCount(d, h)
    <2> SUFFICES ASSUME NEW h \in Header
                 PROVE  /\ h \in Header /\ Len(h) \in Nat
                        /\ CopyCount(d, h) >= OpenThreshold =>
                              rank(h) = (100 + Len(h)) * 10 + CopyCount(d, h)
                        /\ ~(CopyCount(d, h) >= OpenThreshold) =>
                              rank(h) = Len(h) * 10 + CopyCount(d, h)
        OBVIOUS
    <2>1. Len(h) \in Nat /\ CopyCount(d, h) \in Nat
        BY <1>2 DEF Header
    <2> QED
        BY <2>1 DEF Rank
<1>7. \A h \in HeadersOn(d) : h \in Header
    BY DEF HeadersOn
<1>8. \A h \in Header : rank(h) \in Int
    <2> HIDE DEF rank
    <2> QED
        BY <1>2, <1>6
<1>9. g # w => Len(g) = Len(w) + 1 /\ Front(g) = w /\ Monotonic(StateOf(w), StateOf(g))
    BY FollowsFacts
<1>10. d[f] # Torn /\ o \notin {w, g} =>
        /\ CopyCount(d, o) = 1 /\ ~(CopyCount(d, o) >= OpenThreshold) /\ o \in Header
        /\ \/ Len(w) = Len(o) + 1 /\ Front(w) = o /\ Monotonic(StateOf(o), StateOf(w))
           \/ Len(o) = Len(w) + 1 /\ f < OpenThreshold /\ (g # w => \A t \in Numbers(d, g) : t < f)
    <2> SUFFICES ASSUME d[f] # Torn, o \notin {w, g}
                 PROVE  /\ CopyCount(d, o) = 1 /\ ~(CopyCount(d, o) >= OpenThreshold) /\ o \in Header
                        /\ \/ Len(w) = Len(o) + 1 /\ Front(w) = o /\ Monotonic(StateOf(o), StateOf(w))
                           \/ /\ Len(o) = Len(w) + 1 /\ f < OpenThreshold
                              /\ g # w => \A t \in Numbers(d, g) : t < f
        OBVIOUS
    <2>1. o \in Header /\ CopyCount(d, o) = 1 /\ ~(CopyCount(d, o) >= OpenThreshold)
        BY <1>3, <1>5
    <2> HIDE DEF o
    <2>2. Follows(o, w) => Len(w) = Len(o) + 1 /\ Front(w) = o /\ Monotonic(StateOf(o), StateOf(w))
        BY <2>1, FollowsFacts
    <2>3. Follows(w, o) => Len(o) = Len(w) + 1
        BY FollowsFacts
    <2> QED
        BY <2>1, <2>2, <2>3 DEF Found, o
<1>11. CASE CopyCount(d, g) >= OpenThreshold
    <2>1. g # w /\ d[f] # Torn /\ o \notin {w, g} => Len(w) = Len(o) + 1
        <3> SUFFICES ASSUME g # w, d[f] # Torn, o \notin {w, g} PROVE Len(w) = Len(o) + 1
            OBVIOUS
        <3>1. o \in Header /\ Follows(o, w)
            BY <1>10, <1>11, NoneGivenUp
        <3> HIDE DEF o
        <3> QED
            BY <3>1, FollowsFacts
    <2>2. ASSUME NEW x \in HeadersOn(d) \ {g}
          PROVE  /\ rank(x) < rank(g)
                 /\ \/ x = Front(g) /\ Monotonic(StateOf(x), StateOf(g))
                    \/ ~(Len(x) \in {Len(g) - 1, Len(g)} \/ Len(x) > Len(g) + 1)
        <3>1. x \in Header /\ Len(x) \in Nat /\ Len(g) \in Nat /\ Len(w) \in Nat
              /\ CopyCount(d, x) \in 0..8 /\ CopyCount(d, g) \in 0..8
            BY <1>2, <1>6, <1>7
        <3>2. rank(g) = (100 + Len(g)) * 10 + CopyCount(d, g)
            BY <1>6, <1>11
        <3>3. CASE x = w
            <4>1. Len(g) = Len(x) + 1 /\ x = Front(g) /\ Monotonic(StateOf(x), StateOf(g))
                BY <1>9, <2>2, <3>3
            <4>2. rank(x) = (100 + Len(x)) * 10 + CopyCount(d, x) \/ rank(x) = Len(x) * 10 + CopyCount(d, x)
                BY <1>6, <3>1
            <4> HIDE DEF rank
            <4>3. rank(x) < rank(g)
                <5>1. ASSUME rank(x) = (100 + Len(x)) * 10 + CopyCount(d, x) PROVE rank(x) < rank(g)
                    BY <3>1, <3>2, <4>1, <5>1, LongerRanksHigher
                <5>2. ASSUME rank(x) = Len(x) * 10 + CopyCount(d, x) PROVE rank(x) < rank(g)
                    BY <3>1, <3>2, <4>1, <5>2, LongerRanksHigher
                <5> QED
                    BY <4>2, <5>1, <5>2
            <4> QED
                BY <4>1, <4>3
        <3>4. CASE x # w
            <4>1. x = o /\ d[f] # Torn /\ o \notin {w, g}
                BY <1>1, <2>2, <3>4
            <4>2. rank(x) = Len(x) * 10 + 1
                BY <1>6, <1>10, <3>1, <4>1
            <4>3. /\ Len(w) = Len(x) + 1 \/ Len(x) = Len(w) + 1
                  /\ g # w => Len(w) = Len(x) + 1 /\ Len(g) = Len(w) + 1
                  /\ Len(w) = Len(x) + 1 /\ g = w => x = Front(g) /\ Monotonic(StateOf(x), StateOf(g))
                BY <1>9, <1>10, <2>1, <4>1
            <4> HIDE DEF rank, o
            <4>4. rank(x) < rank(g)
                BY <3>1, <3>2, <4>2, <4>3
            <4>5. g # w => Len(x) = Len(g) - 2
                BY <3>1, <4>3
            <4>6. g = w => Len(x) = Len(g) - 1 \/ Len(x) = Len(g) + 1
                BY <3>1, <4>3
            <4> QED
                BY <3>1, <4>3, <4>4, <4>5, <4>6
        <3> QED
            BY <3>3, <3>4
    <2>3. Read(d, OpenThreshold) = g
        BY <1>4, <1>7, <1>8, <1>11, <2>2, BestRead
    <2> QED
        BY <1>11, <2>3
<1>12. CASE ~(CopyCount(d, g) >= OpenThreshold) /\ CopyCount(d, w) >= OpenThreshold
    <2>1. g # w /\ Len(g) = Len(w) + 1
        BY <1>9, <1>12
    <2>2. ASSUME NEW x \in HeadersOn(d) \ {w}
          PROVE  /\ rank(x) < rank(w)
                 /\ \/ x = Front(w) /\ Monotonic(StateOf(x), StateOf(w))
                    \/ ~(Len(x) \in {Len(w) - 1, Len(w)} \/ Len(x) > Len(w) + 1)
        <3>1. x \in Header /\ Len(x) \in Nat /\ Len(w) \in Nat
              /\ CopyCount(d, x) \in 0..8 /\ CopyCount(d, w) \in 0..8
            BY <1>2, <1>6, <1>7
        <3>2. rank(w) = (100 + Len(w)) * 10 + CopyCount(d, w)
            BY <1>6, <1>12
        <3>3. /\ rank(x) = Len(x) * 10 + CopyCount(d, x)
              /\ \/ Len(x) = Len(w) + 1
                 \/ Len(w) = Len(x) + 1 /\ x = Front(w) /\ Monotonic(StateOf(x), StateOf(w))
            <4>1. CASE x = g
                BY <1>6, <1>12, <2>1, <4>1
            <4>2. CASE x # g
                <5>1. x = o /\ d[f] # Torn /\ o \notin {w, g}
                    BY <1>1, <2>2, <4>2
                <5> QED
                    BY <1>6, <1>10, <3>1, <5>1
            <4> QED
                BY <4>1, <4>2
        <3> HIDE DEF rank
        <3>4. rank(x) < rank(w)
            BY <3>1, <3>2, <3>3
        <3>5. Len(x) = Len(w) + 1 => ~(Len(x) \in {Len(w) - 1, Len(w)} \/ Len(x) > Len(w) + 1)
            BY <3>1
        <3> QED
            BY <3>3, <3>4, <3>5
    <2>3. Read(d, OpenThreshold) = w
        BY <1>4, <1>7, <1>8, <1>12, <2>2, BestRead
    <2> QED
        BY <1>12, <2>3
<1>13. CASE ~(CopyCount(d, g) >= OpenThreshold) /\ ~(CopyCount(d, w) >= OpenThreshold)
    <2> DEFINE best == CHOOSE x \in HeadersOn(d) : \A y \in HeadersOn(d) : rank(y) <= rank(x)
    <2>1. Read(d, OpenThreshold) # NoHeader => CopyCount(d, best) >= OpenThreshold
        BY DEF Read
    <2> HIDE DEF best
    <2>2. CopyCount(d, best) >= OpenThreshold => FALSE
        BY <1>1, <1>4, <1>10, <1>13
    <2> QED
        BY <1>13, <2>1, <2>2
<1> QED
    BY <1>11, <1>12, <1>13

\* A disk of two headers that has all slots but one has a quorum of one of them.
LEMMA FoundCovers ==
    ASSUME NEW d, NEW w, NEW g, NEW f \in Slot, NEW m \in Slot, Found(d, w, g, f, m),
           \A s \in Slot \ {f} : d[s] # Torn
    PROVE  CopyCount(d, g) >= OpenThreshold \/ CopyCount(d, w) >= OpenThreshold
<1> DEFINE all == Numbers(d, g) \cup Numbers(d, w)
<1>1. \A s \in Slot \ {f} : CopyAt(d, s) \in all /\ CopyAt(d, s) \in IF s = m THEN {m, f} ELSE {s}
    BY DEF Found, Numbers, Members
<1>2. all \in SUBSET Slot
    BY NumbersFacts
<1> HIDE DEF all
<1>3. \E y : Slot \ {y} \subseteq all
    <2>1. CASE m = f \/ CopyAt(d, m) = m
        <3>1. \A s \in Slot \ {f} : s \in all
            BY <1>1, <2>1
        <3> QED
            BY <3>1
    <2>2. CASE m # f /\ CopyAt(d, m) # m
        <3>1. f \in all
            BY <1>1, <2>2
        <3>2. \A s \in Slot \ {m} : s \in all
            BY <1>1, <3>1
        <3> QED
            BY <3>2
    <2> QED
        BY <2>1, <2>2
<1>4. PICK y : Slot \ {y} \subseteq all
    BY <1>3
<1>5. Copies <= Cardinality(Slot \ {y}) + 1 /\ Cardinality(Slot \ {y}) <= Cardinality(all)
    <2>1. Slot \in SUBSET Slot /\ Slot \ {y} \in SUBSET Slot
        OBVIOUS
    <2>2. Cardinality(Slot) <= Cardinality(Slot \ {y}) + 1
        BY <2>1, SlotSets
    <2>3. Cardinality(Slot \ {y}) <= Cardinality(all)
        BY <1>2, <1>4, <2>1, SlotSets
    <2> QED
        BY <2>2, <2>3, SlotSets
<1>6. Cardinality(all) <= CopyCount(d, g) + CopyCount(d, w)
    BY NumbersFacts, SlotSets DEF all
<1>7. Cardinality(all) \in 0..8 /\ Cardinality(Slot \ {y}) \in 0..8
      /\ CopyCount(d, g) \in 0..8 /\ CopyCount(d, w) \in 0..8
    <2>1. Slot \ {y} \in SUBSET Slot
        OBVIOUS
    <2> QED
        BY <1>2, <2>1, NumbersFacts, SlotSets
<1> QED
    BY <1>5, <1>6, <1>7, SlotFacts

\* A slot has the number of its own, but for the one that was written in the place of another.
LEMMA FoundNumbers ==
    ASSUME NEW d, NEW w, NEW g, NEW f \in Slot, NEW m, Found(d, w, g, f, m)
    PROVE  \A s \in Slot : d[s] # Torn => CopyAt(d, s) = s \/ (s = m /\ m # f /\ CopyAt(d, s) = f)
<1> QED
    BY DEF Found

\* A write of one of the two headers.
LEMMA WriteFound ==
    ASSUME NEW d, NEW e, NEW w, NEW g, NEW f \in Slot, NEW m, Found(d, w, g, f, m),
           NEW c \in Slot, NEW h \in Header \cap {w, g}, e[c] = Copy(h, c), \A s \in Slot \ {c} : e[s] = d[s],
           h # w /\ d[f] # Torn => c <= f \/ d[f].header \in {w, g} \/ Follows(d[f].header, w)
    PROVE  Found(e, w, g, f, m)
<1>1. e[c] # Torn /\ e[c].header = h /\ CopyAt(e, c) = c
    BY CopyFacts DEF CopyAt
<1>2. \A s \in Slot \ {c} : CopyAt(e, s) = CopyAt(d, s)
    BY DEF CopyAt
<1>3. ASSUME NEW s \in Slot \ {f}, e[s] # Torn
      PROVE  e[s].header \in {w, g} /\ CopyAt(e, s) \in IF s = m THEN {m, f} ELSE {s}
    BY <1>1, <1>2, <1>3 DEF Found
<1>4. ASSUME g # w, e[f] # Torn, e[f].header \notin {w, g}, ~Follows(e[f].header, w)
      PROVE  \A t \in Numbers(e, g) : t < f
    <2>1. f # c /\ e[f] = d[f]
        BY <1>1, <1>4
    <2>2. \A t \in Numbers(d, g) : t < f
        BY <1>4, <2>1 DEF Found
    <2>3. h # w => c < f
        <3>1. c \in 0..7 /\ f \in 0..7
            BY SlotFacts
        <3> QED
            BY <1>4, <2>1, <3>1
    <2>4. \A s \in Members(e, g) : (s = c /\ h # w) \/ (s # c /\ s \in Members(d, g))
        BY <1>1, <1>4 DEF Members
    <2> QED
        BY <1>1, <1>2, <2>2, <2>3, <2>4 DEF Numbers, Members
<1>5. ASSUME e[f] # Torn
      PROVE  /\ CopyAt(e, f) = f
             /\ \/ e[f].header \in {w, g} \/ Follows(e[f].header, w)
                \/ Follows(w, e[f].header) /\ f < OpenThreshold
    BY <1>1, <1>2, <1>5 DEF Found
<1> QED
    BY <1>3, <1>4, <1>5 DEF Found

\* Copies that are lost.
LEMMA LoseFound ==
    ASSUME NEW d, NEW e, NEW w, NEW g, NEW f \in Slot, NEW m, Found(d, w, g, f, m),
           \A s \in Slot : e[s] \in {d[s], Torn}
    PROVE  Found(e, w, g, f, m)
<1>1. \A s \in Slot : e[s] # Torn => d[s] # Torn /\ e[s] = d[s] /\ CopyAt(e, s) = CopyAt(d, s)
    BY DEF CopyAt
<1>2. Numbers(e, g) \subseteq Numbers(d, g)
    BY <1>1 DEF Numbers, Members
<1> QED
    BY <1>1, <1>2 DEF Found

\* The copies of the old header, when the next one starts.
LEMMA NextFound ==
    ASSUME NEW d, NEW w, NEW g, NEW f \in Slot, NEW m, Found(d, w, w, f, m)
    PROVE  Found(d, w, g, f, m)
<1>1. CASE g = w
    BY <1>1
<1>2. CASE g # w /\ d[f] # Torn /\ d[f].header = g
    BY <1>2 DEF Found
<1>3. CASE g # w /\ (d[f] # Torn => d[f].header # g)
    <2>1. Members(d, g) = {}
        BY <1>3 DEF Members, Found
    <2>2. Numbers(d, g) = {}
        BY <2>1 DEF Numbers
    <2> QED
        BY <2>2 DEF Found
<1> QED
    BY <1>1, <1>2, <1>3

\* The first disk fault, in slot f, and in slot m if a copy for f was written there.
LEMMA FirstFault ==
    ASSUME NEW e, NEW w, NEW g, NEW f \in Slot, NEW m,
           \A s \in Slot : e[s] # Torn =>
               e[s].header \in {w, g} /\ (CopyAt(e, s) = s \/ (s = m /\ m # f /\ CopyAt(e, s) = f))
    PROVE  Found(e, w, g, f, m)
<1> QED
    BY DEF Found

-----------------------------------------------------------------------------
\* What an update does after the fault.
LEMMA FaultOpened ==
    ASSUME SInv, faults = 1, faults' = 1, NEW f \in Slot, NEW m \in Slot, phase = "opened", OpenedOK(f, m),
           WriteHeader \/ Verified \/ Checkpoint \/ \E v \in 1..ViewMax : AdvanceView(v)
    PROVE  phase' = "opened" /\ OpenedOK(f, m)'
<1>1. /\ IInv /\ UpdateInv /\ working \in Header /\ staging \in Header /\ DOMAIN disk = Slot
      /\ copy \in 0..Copies /\ (staging = working \/ Follows(working, staging))
    BY DEF SInv, IInv, TypeInv, DiskInv, UpdateInv, OpenInv
<1>2. CASE WriteHeader
    <2>1. /\ phase' = "opened" /\ copy \in Slot /\ Write(staging, copy) /\ copy' = copy + 1
          /\ UNCHANGED <<working, staging>>
        BY <1>1, <1>2, CopiesAssumption DEF WriteHeader, Slot
    <2>2. disk' = [disk EXCEPT ![copy] = Copy(staging, copy)]
        BY <1>1, <2>1, WriteEffect DEF UpdateInv
    <2>3. disk'[copy] = Copy(staging, copy) /\ \A s \in Slot \ {copy} : disk'[s] = disk[s]
        BY <1>1, <2>1, <2>2
    <2>4. \A s \in Slot : (s < copy' <=> s < copy \/ s = copy) /\ (s < copy \/ copy <= s)
        BY <1>1, <2>1, SlotFacts
    <2>5. Found(disk', working, staging, f, m)
        <3>1. disk[f] # Torn => copy <= f \/ disk[f].header \in {working, staging}
            BY <2>4 DEF OpenedOK
        <3> QED
            BY <1>1, <2>1, <2>3, <3>1, WriteFound DEF OpenedOK
    <2>6. disk'[copy] # Torn /\ disk'[copy].header = staging
        BY <1>1, <2>1, <2>3, CopyFacts
    <2> QED
        BY <2>1, <2>3, <2>4, <2>5, <2>6 DEF OpenedOK
<1>3. CASE Verified
    <2>1. phase' = "opened" /\ disk' = disk /\ working' = staging /\ copy = Copies /\ copy' = 0
        BY <1>1, <1>3, VerifiedFollows
    <2>2. \A s \in Slot : s < Copies /\ ~(s < 0)
        BY SlotFacts DEF Slot
    <2>3. Found(disk, staging, staging, f, m)
        <3>1. disk[f] # Torn => disk[f].header = staging \/ Follows(disk[f].header, staging)
            BY <1>1, <2>1, <2>2 DEF OpenedOK
        <3> QED
            BY <2>1, <2>2, <3>1 DEF OpenedOK, Found
    <2>4. Found(disk', working', staging', f, m)
        BY <2>1, <2>3, NextFound
    <2> QED
        BY <2>1, <2>2, <2>4 DEF OpenedOK
<1>4. CASE Checkpoint \/ \E v \in 1..ViewMax : AdvanceView(v)
    <2>1. /\ phase' = "opened" /\ disk' = disk /\ working' = working
          /\ (staging' = staging /\ copy' = copy) \/ (staging = working /\ copy' = 0)
        BY <1>1, <1>4, CallerSteps
    <2>2. CASE staging' = staging /\ copy' = copy
        BY <2>1, <2>2 DEF OpenedOK
    <2>3. CASE staging = working /\ copy' = 0
        <3>1. Found(disk', working', staging', f, m)
            BY <2>1, <2>3, NextFound DEF OpenedOK
        <3>2. \A s \in Slot : ~(s < 0)
            BY SlotFacts
        <3> QED
            BY <2>1, <2>3, <3>1, <3>2 DEF OpenedOK
    <2> QED
        BY <2>1, <2>2, <2>3
<1> QED
    BY <1>2, <1>3, <1>4

\* A crash after the fault.
LEMMA FaultCrash ==
    ASSUME SInv, NEW f \in Slot, NEW m \in Slot, Crash \/ VerifyPanic,
           phase = "opened" => OpenedOK(f, m), phase = "repairing" => RepairingOK(f, m)
    PROVE  phase' = "closed" /\ ClosedOK(f, m)'
<1>1. /\ phase' = "closed" /\ phase \in {"opened", "repairing"} /\ tears \in Nat
      /\ working \in Header /\ staging \in Header /\ DOMAIN disk = Slot
      /\ phase = "opened" => (staging = working \/ Follows(working, staging))
    BY DEF Crash, VerifyPanic, Stop, SInv, IInv, TypeInv, DiskInv, UpdateInv, OpenInv
<1>2. (disk' = disk /\ tears' = tears) \/ (\E s : disk' = [disk EXCEPT ![s] = Torn] /\ tears' = tears + 1)
    BY DEF Crash, VerifyPanic, historyVars
<1>3. (\A s \in Slot : disk'[s] \in {disk[s], Torn}) /\ (tears' = 0 => disk' = disk /\ tears = 0)
    BY <1>1, <1>2
<1>4. Whole(f)'
    BY <1>1, <1>3 DEF Whole, OpenedOK, RepairingOK
<1>5. \E w, g \in Header : (g = w \/ Follows(w, g)) /\ Found(disk', w, g, f, m)
    <2>1. PICK w \in Header, g \in Header : (g = w \/ Follows(w, g)) /\ Found(disk, w, g, f, m)
        <3>1. CASE phase = "opened"
            BY <1>1, <3>1 DEF OpenedOK
        <3>2. CASE phase = "repairing"
            BY <3>2 DEF RepairingOK
        <3> QED
            BY <1>1, <3>1, <3>2
    <2>2. Found(disk', w, g, f, m)
        BY <1>3, <2>1, LoseFound
    <2> QED
        BY <2>1, <2>2
<1> QED
    BY <1>1, <1>4, <1>5 DEF ClosedOK

\* What Quorum.slots has of a copy, and when it has nothing of it.
LEMMA SlotsFound ==
    ASSUME NEW d, NEW h
    PROVE  \A s \in Slot :
            /\ FoundSlots(d, h)[s] # Torn => s \in Members(d, h) /\ FoundSlots(d, h)[s] = CopyAt(d, s)
            /\ s \in Members(d, h) /\ FoundSlots(d, h)[s] = Torn =>
                \E t \in Members(d, h) : t < s /\ CopyAt(d, t) = CopyAt(d, s)
<1> SUFFICES ASSUME NEW s \in Slot
             PROVE  /\ FoundSlots(d, h)[s] # Torn =>
                        s \in Members(d, h) /\ FoundSlots(d, h)[s] = CopyAt(d, s)
                    /\ s \in Members(d, h) /\ FoundSlots(d, h)[s] = Torn =>
                        \E t \in Members(d, h) : t < s /\ CopyAt(d, t) = CopyAt(d, s)
    OBVIOUS
<1>1. FoundSlots(d, h)[s] =
        IF /\ s \in Members(d, h)
           /\ \/ d[s].copy \notin Slot
              \/ \A t \in Members(d, h) : t < s => CopyAt(d, t) # d[s].copy
        THEN CopyAt(d, s) ELSE Torn
    BY Zenon DEF FoundSlots
<1>2. CopyAt(d, s) # Torn
    BY NumbersFacts, TornAssumption
<1>3. d[s].copy \in Slot => CopyAt(d, s) = d[s].copy
    BY DEF CopyAt
<1> QED
    BY <1>1, <1>2, <1>3, Zenon

\* open after the fault.
LEMMA FaultOpen ==
    ASSUME SInv, faults = 1, NEW f \in Slot, NEW m \in Slot, phase = "closed", ClosedOK(f, m), Open
    PROVE  phase' = "repairing" /\ RepairingOK(f, m)'
<1>1. /\ phase' = "repairing" /\ disk' = disk /\ tears' = tears
      /\ working' = Read(disk, OpenThreshold) /\ working' # NoHeader
      /\ repairs' = FoundSlots(disk, working')
    BY DEF Open, historyVars
<1>2. \A s \in Slot : disk[s] # Torn => disk[s].header \in Header
    BY DEF SInv, IInv, TypeInv, DiskInv
<1>3. PICK w \in Header, g \in Header : (g = w \/ Follows(w, g)) /\ Found(disk, w, g, f, m)
    BY DEF ClosedOK
<1>4. /\ working' \in {w, g}
      /\ working' # w => g # w /\ working' = g /\ CopyCount(disk, g) >= OpenThreshold
    BY <1>1, <1>2, <1>3, FoundRead
<1>5. working' # w /\ disk[f] # Torn => disk[f].header \in {w, g} \/ Follows(disk[f].header, w)
    BY <1>3, <1>4, NoneGivenUp
<1>6. ASSUME NEW s \in Slot
      PROVE  /\ repairs'[s] # Torn => s \in Members(disk, working') /\ repairs'[s] = CopyAt(disk, s)
             /\ s \in Members(disk, working') /\ repairs'[s] = Torn =>
                 \E t \in Members(disk, working') : t < s /\ CopyAt(disk, t) = CopyAt(disk, s)
    <2> DEFINE h == working'
    <2>1. repairs' = FoundSlots(disk, h)
        BY <1>1
    <2> HIDE DEF h
    <2>2. /\ FoundSlots(disk, h)[s] # Torn => s \in Members(disk, h) /\ FoundSlots(disk, h)[s] = CopyAt(disk, s)
          /\ s \in Members(disk, h) /\ FoundSlots(disk, h)[s] = Torn =>
                \E t \in Members(disk, h) : t < s /\ CopyAt(disk, t) = CopyAt(disk, s)
        BY SlotsFound
    <2> QED
        BY <2>1, <2>2 DEF h
<1>7. Repaired(f)'
    BY <1>1, <1>6 DEF Repaired, Members
<1>8. RepairSafe(f, m)'
    <2> DEFINE found == Members(disk, working')
    <2>1. \A x \in found : x \in Slot /\ (CopyAt(disk, x) = x \/ (x = m /\ m # f /\ CopyAt(disk, x) = f))
        BY <1>3, FoundNumbers DEF Members
    <2>2. ASSUME NEW x \in found, repairs'[x] = Torn
          PROVE  \E t \in found \ {x} : CopyAt(disk, t) = CopyAt(disk, x) /\ repairs'[t] # Torn
        <3>1. PICK t \in found : t < x /\ CopyAt(disk, t) = CopyAt(disk, x)
            BY <1>6, <2>1, <2>2
        <3>2. x \in 0..7 /\ t \in 0..7
            BY <2>1, SlotFacts
        <3>3. ASSUME repairs'[t] = Torn PROVE FALSE
            <4>1. PICK u \in found : u < t /\ CopyAt(disk, u) = CopyAt(disk, t)
                BY <1>6, <2>1, <3>1, <3>3
            <4>2. u \in 0..7
                BY <2>1, SlotFacts
            <4>3. u # t /\ u # x /\ t # x
                BY <3>1, <3>2, <4>1, <4>2
            <4> HIDE DEF found
            <4> QED
                BY <2>1, <3>1, <4>1, <4>3
        <3> QED
            BY <3>1, <3>2, <3>3
    <2>3. ASSUME NEW x \in Slot, repairs'[x] \notin {x, Torn}
          PROVE  /\ x = m /\ m # f /\ repairs'[x] = f /\ x \in found /\ CopyAt(disk, x) = f
                 /\ repairs'[f] = f => f \in found
        <3>1. x \in found /\ repairs'[x] = CopyAt(disk, x) /\ (repairs'[f] # Torn => f \in found)
            BY <1>6, <2>3
        <3>2. f # Torn
            BY TornAssumption
        <3> HIDE DEF found
        <3> QED
            BY <2>1, <2>3, <3>1, <3>2
    <2> QED
        BY <1>1, <2>2, <2>3 DEF RepairSafe
<1>9. Whole(f)'
    BY <1>1 DEF ClosedOK, Whole
<1> QED
    BY <1>1, <1>3, <1>4, <1>5, <1>7, <1>8, <1>9 DEF RepairingOK

\* A write of the repair after the fault.
LEMMA FaultRepair ==
    ASSUME SInv, faults = 1, faults' = 1, NEW f \in Slot, NEW m \in Slot, phase = "repairing",
           RepairingOK(f, m), Repair
    PROVE  phase' = "repairing" /\ RepairingOK(f, m)'
<1> DEFINE c == RepairNext(repairs)
<1>1. /\ phase' = "repairing" /\ Write(working, c) /\ c # Copies /\ working' = working /\ tears' = tears
      /\ repairs' = [repairs EXCEPT ![c] = c] /\ repairs \in [Slot -> Slot \cup {Torn}]
      /\ DOMAIN disk = Slot /\ working \in Header
    BY DEF Repair, SInv, UpdateInv, IInv, TypeInv, DiskInv
<1>2. c \in Slot /\ (repairs[c] # Torn => \A s \in Slot : repairs[s] # Torn)
    BY <1>1, RepairPicks
<1>3. disk' = [disk EXCEPT ![c] = Copy(working, c)]
    BY <1>1, WriteEffect
<1> HIDE DEF c
<1>4. /\ disk'[c] = Copy(working, c) /\ \A s \in Slot \ {c} : disk'[s] = disk[s]
      /\ repairs'[c] = c /\ \A s \in Slot \ {c} : repairs'[s] = repairs[s]
    BY <1>1, <1>2, <1>3
<1>5. /\ disk'[c] # Torn /\ disk'[c].header = working /\ CopyAt(disk', c) = c /\ c # Torn
      /\ \A s \in Slot \ {c} : CopyAt(disk', s) = CopyAt(disk, s)
    BY <1>1, <1>2, <1>4, CopyFacts, TornAssumption DEF CopyAt
<1>6. PICK w \in Header, g \in Header :
        /\ (g = w \/ Follows(w, g)) /\ working \in {w, g} /\ Found(disk, w, g, f, m)
        /\ working # w /\ disk[f] # Torn => disk[f].header \in {w, g} \/ Follows(disk[f].header, w)
    BY DEF RepairingOK
<1>7. Found(disk', w, g, f, m)
    <2> DEFINE e == disk'
    <2>1. working \in Header \cap {w, g} /\ e[c] = Copy(working, c) /\ \A s \in Slot \ {c} : e[s] = disk[s]
        BY <1>1, <1>4, <1>6
    <2> HIDE DEF e
    <2>2. Found(e, w, g, f, m)
        BY <1>2, <1>6, <2>1, WriteFound
    <2> QED
        BY <2>2 DEF e
<1>8. working # w /\ disk'[f] # Torn => disk'[f].header \in {w, g} \/ Follows(disk'[f].header, w)
    BY <1>4, <1>5, <1>6
<1>9. Whole(f)'
    BY <1>1, <1>4, <1>5 DEF RepairingOK, Whole
<1>10. Repaired(f)'
    <2>1. \A s \in Slot \ {f} : repairs'[s] # Torn => disk'[s] # Torn /\ disk'[s].header = working
        BY <1>4, <1>5 DEF RepairingOK, Repaired
    <2>2. repairs'[f] # Torn /\ disk'[f] # Torn =>
            \/ disk'[f].header = working \/ Follows(disk'[f].header, working)
            \/ Follows(working, disk'[f].header) /\ f < OpenThreshold
        BY <1>4, <1>5 DEF RepairingOK, Repaired
    <2> QED
        BY <1>1, <2>1, <2>2 DEF Repaired
<1>11. Members(disk', working) = Members(disk, working) \cup {c}
    BY <1>2, <1>4, <1>5 DEF Members
<1>12. RepairSafe(f, m)'
    <2>1. ASSUME NEW x \in Members(disk', working), repairs'[x] = Torn
          PROVE  \/ \E t \in Members(disk', working) \ {x} : /\ CopyAt(disk', t) = CopyAt(disk', x)
                                                             /\ repairs'[t] # Torn
                 \/ x = m /\ CopyCount(disk', working) > OpenThreshold
        <3>1. x # c /\ x \in Members(disk, working) /\ x \in Slot /\ repairs[x] = Torn /\ repairs[c] = Torn
            <4>1. x # c /\ x \in Slot
                BY <1>4, <1>5, <2>1 DEF Members
            <4> QED
                BY <1>2, <1>4, <1>11, <2>1, <4>1
        <3>2. CASE \E t \in Members(disk, working) \ {x} : /\ CopyAt(disk, t) = CopyAt(disk, x)
                                                           /\ repairs[t] # Torn
            <4>1. PICK t \in Members(disk, working) \ {x} : /\ CopyAt(disk, t) = CopyAt(disk, x)
                                                            /\ repairs[t] # Torn
                BY <3>2
            <4>2. t # c /\ t \in Slot
                BY <3>1, <4>1 DEF Members
            <4> QED
                BY <1>4, <1>5, <1>11, <3>1, <4>1, <4>2
        <3>3. CASE x = m /\ CopyCount(disk, working) > OpenThreshold
            <4>1. c \in Members(disk, working) => CopyAt(disk, c) = c
                BY <1>6, <3>1, <3>3, FoundNumbers DEF Members
            <4>2. \A s \in Members(disk, working) : s \in Slot /\ CopyAt(disk', s) = CopyAt(disk, s)
                BY <1>5, <4>1 DEF Members
            <4>3. Numbers(disk, working) \subseteq Numbers(disk', working)
                BY <1>11, <4>2 DEF Numbers
            <4>4. CopyCount(disk, working) <= CopyCount(disk', working)
                BY <4>3, NumbersFacts, SlotSets
            <4>5. CopyCount(disk, working) \in 0..8 /\ CopyCount(disk', working) \in 0..8
                BY NumbersFacts
            <4> QED
                BY <3>3, <4>4, <4>5, SlotFacts
        <3> QED
            BY <3>1, <3>2, <3>3 DEF RepairingOK, RepairSafe
    <2>2. ASSUME NEW x \in Slot, repairs'[x] \notin {x, Torn}
          PROVE  /\ x = m /\ m # f /\ repairs'[x] = f /\ x \in Members(disk', working) /\ CopyAt(disk', x) = f
                 /\ repairs'[f] = f => f \in Members(disk', working)
        <3>1. x # c /\ repairs[x] \notin {x, Torn}
            BY <1>4, <2>2
        <3>2. /\ x = m /\ m # f /\ repairs[x] = f /\ x \in Members(disk, working) /\ CopyAt(disk, x) = f
              /\ repairs[f] = f => f \in Members(disk, working)
            BY <3>1 DEF RepairingOK, RepairSafe
        <3> QED
            BY <1>4, <1>5, <1>11, <3>1, <3>2
    <2> QED
        BY <1>1, <2>1, <2>2 DEF RepairSafe
<1> QED
    BY <1>1, <1>6, <1>7, <1>8, <1>9, <1>10, <1>12 DEF RepairingOK

\* The end of the repair, after the fault.
LEMMA FaultRepaired ==
    ASSUME SInv, NEW f \in Slot, NEW m \in Slot, phase = "repairing", RepairingOK(f, m), Opened
    PROVE  phase' = "opened" /\ OpenedOK(f, m)'
<1>1. /\ phase' = "opened" /\ RepairNext(repairs) = Copies /\ UNCHANGED <<disk, working, staging, copy>>
      /\ staging = working /\ copy = 0 /\ repairs \in [Slot -> Slot \cup {Torn}] /\ working \in Header
    BY DEF Opened, SInv, UpdateInv, IInv, OpenInv, TypeInv
<1>2. \A s \in Slot : repairs[s] # Torn
    BY <1>1, RepairSlot
<1>3. PICK w \in Header, g \in Header : Found(disk, w, g, f, m)
    BY DEF RepairingOK
<1>4. Found(disk, working, working, f, m)
    <2>1. ASSUME NEW s \in Slot \ {f}
          PROVE  /\ disk[s] # Torn /\ disk[s].header = working
                 /\ CopyAt(disk, s) \in IF s = m THEN {m, f} ELSE {s}
        BY <1>2, <1>3 DEF Found, RepairingOK, Repaired
    <2>2. disk[f] # Torn =>
            /\ CopyAt(disk, f) = f
            /\ \/ disk[f].header = working \/ Follows(disk[f].header, working)
               \/ Follows(working, disk[f].header) /\ f < OpenThreshold
        BY <1>2, <1>3 DEF Found, RepairingOK, Repaired
    <2> QED
        BY <2>1, <2>2 DEF Found
<1>5. \A s \in Slot : ~(s < 0)
    BY SlotFacts
<1>6. \A s \in Slot \ {f} : disk[s] # Torn
    BY <1>2 DEF RepairingOK, Repaired
<1> QED
    BY <1>1, <1>4, <1>5, <1>6 DEF OpenedOK

-----------------------------------------------------------------------------
\* The disk that the first fault meets: two headers, one the other's parent, each copy in its slot.
LEMMA QuoratePair ==
    ASSUME NEW d, NEW h, Quorate(d, h)
    PROVE  \E w, g \in Header :
            /\ (g = w \/ Follows(w, g)) /\ h \in {w, g}
            /\ \A s \in Slot : d[s] # Torn =>
                /\ d[s].header \in {w, g} /\ CopyAt(d, s) = s
                /\ \/ d[s].header = h \/ Follows(d[s].header, h)
                   \/ Follows(h, d[s].header) /\ s < OpenThreshold
<1>1. PICK n \in Header :
        /\ \A s \in Slot : d[s] # Torn => d[s].header \in {h, n}
        /\ \/ n = h \/ Follows(n, h)
           \/ Follows(h, n) /\ Count(d, n) < OpenThreshold /\ \A s \in Members(d, n) : s < OpenThreshold
    BY DEF Quorate
<1>2. h \in Header
    BY DEF Quorate
<1>3. ASSUME NEW s \in Slot, d[s] # Torn PROVE CopyAt(d, s) = s
    <2>1. d[s].header \in Header /\ d[s] = Copy(d[s].header, s)
        BY <1>3 DEF Quorate
    <2>2. d[s].copy = s
        BY <2>1, CopyFacts
    <2> QED
        BY <2>2 DEF CopyAt
<1>4. ASSUME NEW s \in Slot, d[s] # Torn
      PROVE  \/ d[s].header = h \/ Follows(d[s].header, h)
             \/ Follows(h, d[s].header) /\ s < OpenThreshold
    BY <1>1, <1>4 DEF Members
<1>5. CASE n = h \/ Follows(n, h)
    BY <1>1, <1>2, <1>3, <1>4, <1>5
<1>6. CASE Follows(h, n)
    BY <1>1, <1>2, <1>3, <1>4, <1>6
<1> QED
    BY <1>1, <1>5, <1>6

\* What rots: the copy, or its number.
LEMMA RotEffect ==
    ASSUME DiskInv, NEW s \in Slot, Rot(s)
    PROVE  /\ \A t \in Slot \ {s} : disk'[t] = disk[t]
           /\ disk[s] # Torn
           /\ disk'[s] # Torn => disk'[s].header = disk[s].header /\ CopyAt(disk', s) = s
<1>1. disk[s] # Torn /\ (disk' = [disk EXCEPT ![s] = Torn] \/ disk' = [disk EXCEPT ![s].copy = Copies])
    BY DEF Rot
<1>2. disk[s] = Copy(disk[s].header, disk[s].copy) /\ DOMAIN disk = Slot
    BY <1>1 DEF DiskInv
<1>3. CASE disk' = [disk EXCEPT ![s] = Torn]
    BY <1>1, <1>2, <1>3
<1>4. CASE disk' = [disk EXCEPT ![s].copy = Copies]
    <2>1. [disk[s] EXCEPT !.copy = Copies] = Copy(disk[s].header, Copies)
        BY <1>2 DEF Copy
    <2>2. disk'[s] = Copy(disk[s].header, Copies) /\ \A t \in Slot \ {s} : disk'[t] = disk[t]
        BY <1>2, <1>4, <2>1
    <2>3. disk'[s].header = disk[s].header /\ disk'[s].copy = Copies
        BY <2>2 DEF Copy
    <2> QED
        BY <1>1, <2>2, <2>3, SlotFacts DEF CopyAt
<1> QED
    BY <1>1, <1>3, <1>4

\* The first fault, while an update is written.
LEMMA FirstOpened ==
    ASSUME SInv, CleanInv, faults = 0, faults' = 1, phase = "opened",
           WriteHeader \/ \E s \in Slot : Rot(s)
    PROVE  phase' = "opened" /\ \E f, m \in Slot : OpenedOK(f, m)'
<1>1. /\ working \in Header /\ staging \in Header /\ DiskInv /\ DOMAIN disk = Slot /\ copy \in 0..Copies
      /\ faults \in Nat
    BY DEF SInv, IInv, TypeInv, DiskInv, UpdateInv
<1>2. ASSUME NEW t \in Slot
      PROVE  /\ disk[t] # Torn /\ CopyAt(disk, t) = t
             /\ disk[t].header = IF t < copy THEN staging ELSE working
    <2>1. disk[t] = Copy(IF t < copy THEN staging ELSE working, t)
        BY DEF CleanInv
    <2>2. (IF t < copy THEN staging ELSE working) \in Header
        BY <1>1
    <2>3. disk[t].copy = t /\ disk[t].header = (IF t < copy THEN staging ELSE working) /\ disk[t] # Torn
        BY <2>1, <2>2, CopyFacts
    <2> QED
        BY <2>3 DEF CopyAt
<1>3. ASSUME NEW s \in Slot, Rot(s) PROVE phase' = "opened" /\ OpenedOK(s, s)'
    <2>1. phase' = "opened" /\ UNCHANGED <<working, staging, copy>>
        BY <1>3 DEF Rot, procVars
    <2>2. /\ \A t \in Slot \ {s} : disk'[t] = disk[t] /\ CopyAt(disk', t) = CopyAt(disk, t)
          /\ disk'[s] # Torn => disk'[s].header = disk[s].header /\ CopyAt(disk', s) = s
        BY <1>1, <1>3, RotEffect DEF CopyAt
    <2>3. Found(disk', working, staging, s, s)
        BY <1>2, <2>2, FirstFault
    <2> QED
        BY <1>2, <2>1, <2>2, <2>3 DEF OpenedOK
<1>4. ASSUME WriteHeader PROVE phase' = "opened" /\ \E f, m \in Slot : OpenedOK(f, m)'
    <2>1. /\ phase' = "opened" /\ UNCHANGED <<working, staging>> /\ copy' = copy + 1 /\ Write(staging, copy)
          /\ copy \in Slot
        BY <1>1, <1>4, CopiesAssumption DEF WriteHeader, Slot
    <2>2. \A t \in Slot : t < copy' => t < copy \/ t = copy
        BY <2>1, SlotFacts
    <2>3. disk' = disk \/ \E s \in Slot \ {copy} : disk' = [disk EXCEPT ![s] = Copy(staging, copy)]
        BY <1>1, <2>1, WriteEffect
    <2>4. PICK f \in Slot : f = copy
        BY <2>1
    <2>5. CASE disk' = disk
        <3>1. Found(disk', working, staging, f, f)
            BY <1>2, <2>1, <2>5, FirstFault
        <3>2. \A s \in Slot \ {f} : disk'[s] # Torn /\ (s < copy' => disk'[s].header = staging)
            BY <1>2, <2>1, <2>2, <2>4, <2>5
        <3>3. disk'[f].header \in {working, staging}
            BY <1>2, <2>1, <2>5
        <3> QED
            BY <2>1, <3>1, <3>2, <3>3 DEF OpenedOK
    <2>6. ASSUME NEW s \in Slot \ {copy}, disk' = [disk EXCEPT ![s] = Copy(staging, copy)]
          PROVE  OpenedOK(f, s)'
        <3>1. /\ s # f /\ disk'[s] = Copy(staging, f)
              /\ \A t \in Slot \ {s} : disk'[t] = disk[t] /\ CopyAt(disk', t) = CopyAt(disk, t)
            BY <1>1, <2>1, <2>4, <2>6 DEF CopyAt
        <3>2. disk'[s] # Torn /\ disk'[s].header = staging /\ CopyAt(disk', s) = f
            BY <1>1, <3>1, CopyFacts DEF CopyAt
        <3>3. \A t \in Slot \ {f} : t < copy' => t < copy
            BY <2>2, <2>4
        <3>4. Found(disk', working, staging, f, s)
            BY <1>2, <3>1, <3>2, FirstFault
        <3>5. ASSUME NEW t \in Slot \ {f} PROVE disk'[t] # Torn /\ (t < copy' => disk'[t].header = staging)
            BY <1>2, <3>1, <3>2, <3>3
        <3>6. disk'[f].header \in {working, staging}
            BY <1>2, <3>1
        <3> QED
            BY <2>1, <3>4, <3>5, <3>6 DEF OpenedOK
    <2> QED
        BY <2>1, <2>3, <2>5, <2>6
<1> QED
    BY <1>3, <1>4

\* The first fault, while the replica is down.
LEMMA FirstClosed ==
    ASSUME SInv, CleanInv, faults = 0, phase = "closed", NEW s \in Slot, Rot(s)
    PROVE  phase' = "closed" /\ ClosedOK(s, s)'
<1>1. phase' = "closed" /\ tears' = tears /\ DiskInv
    BY DEF Rot, procVars, SInv, IInv, TypeInv
<1>2. PICK h : Quorate(disk, h)
    BY DEF CleanInv
<1>3. PICK w \in Header, g \in Header :
        /\ g = w \/ Follows(w, g)
        /\ \A t \in Slot : disk[t] # Torn => disk[t].header \in {w, g} /\ CopyAt(disk, t) = t
    BY <1>2, QuoratePair
<1>4. /\ \A t \in Slot \ {s} : disk'[t] = disk[t] /\ CopyAt(disk', t) = CopyAt(disk, t)
      /\ disk[s] # Torn
      /\ disk'[s] # Torn => disk'[s].header = disk[s].header /\ CopyAt(disk', s) = s
    BY <1>1, RotEffect DEF CopyAt
<1>5. Found(disk', w, g, s, s)
    BY <1>3, <1>4, FirstFault
<1>6. Whole(s)'
    BY <1>1, <1>4 DEF Whole, CleanInv
<1> QED
    BY <1>1, <1>3, <1>5, <1>6 DEF ClosedOK

\* The first fault, while open repairs: slot f is not as RepairIterator takes it to be, and slot m may
\* have the copy that was meant for f.
LEMMA FirstRepairing ==
    ASSUME SInv, CleanInv, faults = 0, phase = "repairing",
           phase' = "repairing", working' = working, tears' = tears, NEW f \in Slot, NEW m \in Slot,
           \A t \in Slot \ {f} :
               /\ repairs'[t] = repairs[t]
               /\ \/ disk'[t] = disk[t]
                  \/ /\ t = m /\ f \notin Members(disk, working)
                     /\ disk'[f] = disk[f]
                     /\ disk'[t] # Torn /\ disk'[t].header = working /\ CopyAt(disk', t) = f,
           disk'[f] # Torn => disk[f] # Torn /\ disk'[f].header = disk[f].header /\ CopyAt(disk', f) = f,
           repairs'[f] \in {f, Torn}, f \in Members(disk, working) => repairs'[f] = f
    PROVE  RepairingOK(f, m)'
<1>1. /\ Quorate(disk, working) /\ working \in Header
      /\ \A s \in Slot : repairs[s] = IF s \in Members(disk, working) THEN s ELSE Torn
      /\ tears = 0 => \A s \in Slot : disk[s] # Torn
    BY DEF CleanInv, SInv, IInv, TypeInv
<1>2. PICK w \in Header, g \in Header :
        /\ (g = w \/ Follows(w, g)) /\ working \in {w, g}
        /\ \A s \in Slot : disk[s] # Torn =>
            /\ disk[s].header \in {w, g} /\ CopyAt(disk, s) = s
            /\ \/ disk[s].header = working \/ Follows(disk[s].header, working)
               \/ Follows(working, disk[s].header) /\ s < OpenThreshold
    BY <1>1, QuoratePair
<1>3. \A t \in Slot : disk'[t] = disk[t] => CopyAt(disk', t) = CopyAt(disk, t)
    BY DEF CopyAt
<1>4. Found(disk', w, g, f, m)
    BY <1>2, <1>3, FirstFault
<1>5. Whole(f)'
    BY <1>1 DEF Whole
<1>6. Repaired(f)'
    <2>1. ASSUME NEW s \in Slot \ {f}, repairs'[s] # Torn PROVE disk'[s] # Torn /\ disk'[s].header = working
        BY <1>1, <2>1 DEF Members
    <2>2. ASSUME repairs'[f] # Torn, disk'[f] # Torn
          PROVE  \/ disk'[f].header = working \/ Follows(disk'[f].header, working)
                 \/ Follows(working, disk'[f].header) /\ f < OpenThreshold
        BY <1>2, <2>2
    <2> QED
        BY <2>1, <2>2 DEF Repaired
<1>7. \A s \in Slot : repairs'[s] \in {s, Torn}
    BY <1>1
<1>8. ASSUME NEW x \in Members(disk', working), repairs'[x] = Torn
      PROVE  x = m /\ CopyCount(disk', working) > OpenThreshold
    <2>1. x \in Slot /\ disk'[x] # Torn /\ disk'[x].header = working
        BY <1>8 DEF Members
    <2>2. x \notin Members(disk, working)
        BY <1>1, <1>8, <2>1, TornAssumption
    <2>3. /\ x # f /\ x = m /\ x \notin Members(disk, working) /\ f \notin Members(disk, working)
          /\ disk'[f] = disk[f] /\ CopyAt(disk', x) = f
        <3>1. x \in Slot \ {f}
            BY <2>1, <2>2 DEF Members
        <3>2. disk'[x] # disk[x]
            BY <2>1, <2>2 DEF Members
        <3> QED
            BY <3>1, <3>2, <2>2
    <2>4. \A t \in Members(disk, working) : t \in Slot /\ disk'[t] = disk[t] /\ CopyAt(disk', t) = t
        <3> SUFFICES ASSUME NEW t \in Members(disk, working)
                     PROVE  t \in Slot /\ disk'[t] = disk[t] /\ CopyAt(disk', t) = t
            OBVIOUS
        <3>1. t \in Slot /\ t # f /\ t # x /\ disk[t] # Torn
            BY <2>3 DEF Members
        <3>2. disk'[t] = disk[t]
            BY <2>3, <3>1
        <3> QED
            BY <1>2, <1>3, <3>1, <3>2
    <2>5. Members(disk, working) \subseteq Numbers(disk', working)
        <3>1. \A t \in Members(disk, working) : t \in Members(disk', working) /\ CopyAt(disk', t) = t
            BY <2>4 DEF Members
        <3> QED
            BY <3>1 DEF Numbers
    <2>6. f \in Numbers(disk', working)
        BY <1>8, <2>3 DEF Numbers
    <2>7. Members(disk, working) \cup {f} \subseteq Numbers(disk', working)
        BY <2>5, <2>6
    <2>8. IsFiniteSet(Members(disk, working)) /\ Cardinality(Members(disk, working)) = Count(disk, working)
          /\ Count(disk, working) \in 0..8 /\ Members(disk, working) \subseteq Slot
        BY CountFacts DEF Count
    <2>9. Cardinality(Members(disk, working) \cup {f}) = Count(disk, working) + 1
        <3> DEFINE own == Members(disk, working)
        <3>1. IsFiniteSet(own) /\ f \notin own /\ Cardinality(own) = Count(disk, working)
            BY <2>3, <2>8
        <3> HIDE DEF own
        <3>2. IsFiniteSet(own)
            BY <3>1
        <3>3. Cardinality(own \cup {f}) = IF f \in own THEN Cardinality(own) ELSE Cardinality(own) + 1
            BY <3>2, FS_AddElement
        <3>4. Cardinality(own \cup {f}) = Count(disk, working) + 1
            BY <3>1, <3>3
        <3> QED
            BY <3>4 DEF own
    <2>10. Cardinality(Members(disk, working) \cup {f}) <= CopyCount(disk', working)
        <3>1. Members(disk, working) \cup {f} \in SUBSET Slot /\ Numbers(disk', working) \in SUBSET Slot
            BY <2>8, NumbersFacts
        <3> QED
            BY <2>7, <3>1, NumbersFacts, SlotSets
    <2>11. Count(disk, working) >= OpenThreshold
        BY <1>1 DEF Quorate
    <2>12. CopyCount(disk', working) \in 0..8
        BY NumbersFacts
    <2> QED
        BY <2>3, <2>8, <2>9, <2>10, <2>11, <2>12, SlotFacts
<1>9. RepairSafe(f, m)'
    BY <1>7, <1>8 DEF RepairSafe
<1> QED
    BY <1>2, <1>4, <1>5, <1>6, <1>9 DEF RepairingOK

\* The first fault, while open repairs: a copy rots, or a write is lost or goes astray.
LEMMA FirstRepair ==
    ASSUME SInv, CleanInv, faults = 0, faults' = 1, phase = "repairing",
           Repair \/ \E s \in Slot : Rot(s)
    PROVE  phase' = "repairing" /\ \E f, m \in Slot : RepairingOK(f, m)'
<1>1. /\ DiskInv /\ DOMAIN disk = Slot /\ faults \in Nat /\ working \in Header
      /\ repairs \in [Slot -> Slot \cup {Torn}]
      /\ \A s \in Slot : repairs[s] = IF s \in Members(disk, working) THEN s ELSE Torn
    BY DEF SInv, IInv, TypeInv, DiskInv, UpdateInv, CleanInv
<1>2. \A s \in Slot : disk[s] # Torn => CopyAt(disk, s) = s
    BY QuoratePair DEF CleanInv
<1>3. ASSUME NEW s \in Slot, Rot(s) PROVE phase' = "repairing" /\ RepairingOK(s, s)'
    <2>1. phase' = "repairing" /\ UNCHANGED <<working, tears, repairs>>
        BY <1>3 DEF Rot, procVars
    <2>2. /\ \A t \in Slot \ {s} : disk'[t] = disk[t]
          /\ disk[s] # Torn
          /\ disk'[s] # Torn => disk'[s].header = disk[s].header /\ CopyAt(disk', s) = s
        BY <1>1, <1>3, RotEffect
    <2> QED
        BY <1>1, <2>1, <2>2, FirstRepairing
<1>4. ASSUME Repair PROVE phase' = "repairing" /\ \E f, m \in Slot : RepairingOK(f, m)'
    <2>1. /\ phase' = "repairing" /\ UNCHANGED <<working, tears>> /\ RepairNext(repairs) # Copies
          /\ Write(working, RepairNext(repairs))
          /\ repairs' = [repairs EXCEPT ![RepairNext(repairs)] = RepairNext(repairs)]
        BY <1>4 DEF Repair
    <2>2. PICK f \in Slot : f = RepairNext(repairs) /\ repairs[f] = Torn
        BY <1>1, <2>1, CleanRepair
    <2>3. f \notin Members(disk, working)
        BY <1>1, <2>2, TornAssumption
    <2>4. repairs'[f] = f /\ \A t \in Slot \ {f} : repairs'[t] = repairs[t]
        BY <1>1, <2>1, <2>2
    <2>5. disk' = disk \/ \E s \in Slot \ {f} : disk' = [disk EXCEPT ![s] = Copy(working, f)]
        BY <1>1, <2>1, <2>2, WriteEffect
    <2>6. CASE disk' = disk
        <3>1. disk'[f] # Torn => disk[f] # Torn /\ disk'[f].header = disk[f].header /\ CopyAt(disk', f) = f
            BY <1>2, <2>6
        <3>2. RepairingOK(f, f)'
            BY <2>1, <2>4, <2>6, <3>1, FirstRepairing
        <3> QED
            BY <2>1, <3>2
    <2>7. ASSUME NEW s \in Slot \ {f}, disk' = [disk EXCEPT ![s] = Copy(working, f)]
          PROVE  RepairingOK(f, s)' \/ RepairingOK(f, f)'
        <3>1. disk'[s] = Copy(working, f) /\ \A t \in Slot \ {s} : disk'[t] = disk[t]
            BY <1>1, <2>7
        <3>2. disk'[s] # Torn /\ disk'[s].header = working /\ CopyAt(disk', s) = f
            BY <1>1, <3>1, CopyFacts DEF CopyAt
        <3>3. disk'[f] # Torn => disk[f] # Torn /\ disk'[f].header = disk[f].header /\ CopyAt(disk', f) = f
            BY <1>2, <3>1 DEF CopyAt
        <3> QED
            BY <2>1, <2>3, <2>4, <3>1, <3>2, <3>3, FirstRepairing
    <2> QED
        BY <2>1, <2>5, <2>6, <2>7
<1> QED
    BY <1>3, <1>4

-----------------------------------------------------------------------------
\* How many disk faults a step adds, and which steps do.
LEMMA FaultSteps ==
    ASSUME SInv, [Next]_vars
    PROVE  /\ faults \in Nat /\ faults' \in {faults, faults + 1}
           /\ faults' # faults => WriteHeader \/ Repair \/ \E s \in Slot : Rot(s)
           /\ faults' = faults => ~(\E s \in Slot : Rot(s))
<1>1. faults \in Nat
    BY DEF SInv, UpdateInv
<1>2. \A s \in Slot : Rot(s) => faults' = faults + 1
    BY DEF Rot
<1>3. WriteHeader \/ Repair => faults' \in {faults, faults + 1}
    BY <1>1, WriteEffect DEF WriteHeader, Repair
<1>4. CASE ~(WriteHeader \/ Repair \/ \E s \in Slot : Rot(s))
    BY <1>1, <1>4 DEF Next, vars, historyVars, AdvanceView, Checkpoint, Verified, VerifyPanic, Open,
        Opened, Crash
<1>5. CASE WriteHeader \/ Repair \/ \E s \in Slot : Rot(s)
    BY <1>1, <1>2, <1>3, <1>5
<1> QED
    BY <1>1, <1>2, <1>4, <1>5

\* The disk after one fault.
LEMMA FaultNext ==
    ASSUME SInv, CleanInv, FaultInv, [Next]_vars
    PROVE  FaultInv'
<1>1. SUFFICES ASSUME faults' = 1
               PROVE  \E f, m \in Slot : /\ phase' = "closed" => ClosedOK(f, m)'
                                         /\ phase' = "repairing" => RepairingOK(f, m)'
                                         /\ phase' = "opened" => OpenedOK(f, m)'
    BY DEF FaultInv
<1>2. phase \in {"closed", "repairing", "opened"} /\ faults \in {0, 1}
    BY <1>1, FaultSteps DEF SInv, IInv, TypeInv
<1>3. CASE faults = 0
    <2>1. WriteHeader \/ Repair \/ \E s \in Slot : Rot(s)
        BY <1>1, <1>3, FaultSteps
    <2>2. CASE phase = "opened"
        <3>1. WriteHeader \/ \E s \in Slot : Rot(s)
            BY <2>1, <2>2 DEF Repair
        <3> QED
            BY <1>1, <1>3, <2>2, <3>1, FirstOpened
    <2>3. CASE phase = "closed"
        <3>1. PICK s \in Slot : Rot(s)
            BY <2>1, <2>3 DEF Repair, WriteHeader
        <3>2. phase' = "closed" /\ ClosedOK(s, s)'
            BY <1>3, <2>3, <3>1, FirstClosed
        <3> QED
            BY <3>2
    <2>4. CASE phase = "repairing"
        <3>1. Repair \/ \E s \in Slot : Rot(s)
            BY <2>1, <2>4 DEF WriteHeader
        <3> QED
            BY <1>1, <1>3, <2>4, <3>1, FirstRepair
    <2> QED
        BY <1>2, <2>2, <2>3, <2>4
<1>4. CASE faults = 1
    <2>1. ~(\E s \in Slot : Rot(s))
        BY <1>1, <1>4, FaultSteps
    <2>2. PICK f \in Slot, m \in Slot : /\ phase = "closed" => ClosedOK(f, m)
                                        /\ phase = "repairing" => RepairingOK(f, m)
                                        /\ phase = "opened" => OpenedOK(f, m)
        BY <1>4 DEF FaultInv
    <2>3. CASE WriteHeader \/ Verified \/ Checkpoint \/ \E v \in 1..ViewMax : AdvanceView(v)
        <3>1. phase = "opened"
            BY <2>3 DEF WriteHeader, Verified, Checkpoint, AdvanceView
        <3>2. phase' = "opened" /\ OpenedOK(f, m)'
            BY <1>1, <1>4, <2>2, <2>3, <3>1, FaultOpened
        <3> QED
            BY <3>2
    <2>4. CASE Crash \/ VerifyPanic
        <3>1. phase' = "closed" /\ ClosedOK(f, m)'
            BY <2>2, <2>4, FaultCrash
        <3> QED
            BY <3>1
    <2>5. CASE Open
        <3>1. phase = "closed"
            BY <2>5 DEF Open
        <3>2. phase' = "repairing" /\ RepairingOK(f, m)'
            BY <1>4, <2>2, <2>5, <3>1, FaultOpen
        <3> QED
            BY <3>2
    <2>6. CASE Repair
        <3>1. phase = "repairing"
            BY <2>6 DEF Repair
        <3>2. phase' = "repairing" /\ RepairingOK(f, m)'
            BY <1>1, <1>4, <2>2, <2>6, <3>1, FaultRepair
        <3> QED
            BY <3>2
    <2>7. CASE Opened
        <3>1. phase = "repairing"
            BY <2>7 DEF Opened
        <3>2. phase' = "opened" /\ OpenedOK(f, m)'
            BY <2>2, <2>7, <3>1, FaultRepaired
        <3> QED
            BY <3>2
    <2>8. CASE UNCHANGED vars
        BY <2>2, <2>8 DEF vars, procVars, historyVars, ClosedOK, RepairingOK, OpenedOK, Whole, Repaired,
            RepairSafe
    <2> QED
        BY <2>1, <2>3, <2>4, <2>5, <2>6, <2>7, <2>8 DEF Next
<1> QED
    BY <1>2, <1>3, <1>4

\* A disk of one fault has the two headers, and the slot of the fault is all that is out of line.
THEOREM FaultInvariant == Spec => [](SInv /\ CleanInv /\ FaultInv)
<1>1. Init => FaultInv
    BY DEF Init, FaultInv
<1>2. SInv /\ CleanInv /\ FaultInv /\ [Next]_vars => FaultInv'
    BY FaultNext
<1> QED
    BY <1>1, <1>2, CleanInvariant, PTL DEF Spec

\* open finds a quorum after any number of torn writes, or after one disk fault of any kind, for
\* every number of copies: the thresholds of Quorums leave one copy over, and an update or a repair
\* writes one slot after the other.
THEOREM OpenFinds == Spec => []OpenFindsQuorum
<1>1. SInv /\ CleanInv /\ FaultInv => OpenFindsQuorum
    <2> SUFFICES ASSUME SInv, CleanInv, FaultInv, phase = "closed", faults = 0 \/ (faults = 1 /\ tears = 0)
                 PROVE  Stored # NoHeader
        BY DEF OpenFindsQuorum
    <2>1. \A h \in Header : h # NoHeader
        BY DEF Header, NoHeader
    <2>2. CASE faults = 0
        <3>1. PICK h : Quorate(disk, h)
            BY <2>2 DEF CleanInv
        <3> QED
            BY <2>1, <3>1, QuorateRead DEF Stored, Quorate
    <2>3. CASE faults = 1 /\ tears = 0
        <3>1. PICK f \in Slot, m \in Slot : ClosedOK(f, m)
            BY <2>3 DEF FaultInv
        <3>2. PICK w \in Header, g \in Header : (g = w \/ Follows(w, g)) /\ Found(disk, w, g, f, m)
            BY <3>1 DEF ClosedOK
        <3>3. \A s \in Slot \ {f} : disk[s] # Torn
            BY <2>3, <3>1 DEF ClosedOK, Whole
        <3>4. CopyCount(disk, g) >= OpenThreshold \/ CopyCount(disk, w) >= OpenThreshold
            BY <3>2, <3>3, FoundCovers
        <3>5. \A s \in Slot : disk[s] # Torn => disk[s].header \in Header
            BY DEF SInv, IInv, TypeInv, DiskInv
        <3>6. Stored = IF CopyCount(disk, g) >= OpenThreshold THEN g
                       ELSE IF CopyCount(disk, w) >= OpenThreshold THEN w ELSE NoHeader
            BY <3>2, <3>5, FoundRead DEF Stored
        <3> QED
            BY <2>1, <3>4, <3>6
    <2> QED
        BY <2>2, <2>3
<1> QED
    BY <1>1, FaultInvariant, PTL

-----------------------------------------------------------------------------
\* The slot that open is about to repair can be lost: its copy is in another slot, or one too many.
LEMMA LoseRepaired ==
    ASSUME UpdateInv, phase = "repairing", NEW f \in Slot, NEW m \in Slot, RepairingOK(f, m),
           CopyCount(disk, working) >= OpenThreshold, RepairNext(repairs) # Copies,
           NEW e, \A s \in Slot \ {RepairNext(repairs)} : e[s] = disk[s]
    PROVE  CopyCount(e, working) >= OpenThreshold
<1> DEFINE x == RepairNext(repairs)
           own == Members(disk, working)
<1>1. /\ x \in Slot /\ repairs \in [Slot -> Slot \cup {Torn}]
      /\ repairs[x] # Torn => repairs[x] # x /\ \A s \in Slot : repairs[s] # Torn
    BY RepairPicks DEF UpdateInv
<1>2. PICK w \in Header, g \in Header : Found(disk, w, g, f, m)
    BY DEF RepairingOK
<1>3. \A s \in Slot \ {x} : e[s] = disk[s] /\ CopyAt(e, s) = CopyAt(disk, s)
    BY DEF CopyAt
<1> HIDE DEF x
<1>4. \A s \in own \ {x} : CopyAt(disk, s) \in Numbers(e, working)
    <2>1. \A s \in own \ {x} : s \in Members(e, working) /\ CopyAt(e, s) = CopyAt(disk, s)
        BY <1>3 DEF Members
    <2> QED
        BY <2>1 DEF Numbers
<1>5. /\ CopyCount(disk, working) = Cardinality(Numbers(disk, working))
      /\ CopyCount(e, working) = Cardinality(Numbers(e, working))
      /\ Numbers(disk, working) \in SUBSET Slot /\ Numbers(e, working) \in SUBSET Slot
      /\ CopyCount(disk, working) \in 0..8 /\ CopyCount(e, working) \in 0..8
    BY NumbersFacts
<1>6. ASSUME x \in own => \E t \in own \ {x} : CopyAt(disk, t) = CopyAt(disk, x)
      PROVE  CopyCount(e, working) >= OpenThreshold
    <2>1. Numbers(disk, working) \subseteq Numbers(e, working)
        BY <1>4, <1>6 DEF Numbers
    <2>2. CopyCount(disk, working) <= CopyCount(e, working)
        BY <1>5, <2>1, SlotSets
    <2> QED
        BY <1>5, <2>2, SlotFacts
<1>7. ASSUME CopyCount(disk, working) > OpenThreshold
      PROVE  CopyCount(e, working) >= OpenThreshold
    <2> DEFINE rest == Numbers(disk, working) \ {CopyAt(disk, x)}
    <2>1. rest \subseteq Numbers(e, working)
        BY <1>4 DEF Numbers
    <2>2. rest \in SUBSET Slot
        BY <1>5
    <2>3. Cardinality(Numbers(disk, working)) <= Cardinality(rest) + 1
        BY <1>5, SlotSets
    <2> HIDE DEF rest
    <2>4. Cardinality(rest) <= CopyCount(e, working) /\ Cardinality(rest) \in 0..8
        BY <1>5, <2>1, <2>2, SlotSets
    <2> QED
        BY <1>5, <1>7, <2>3, <2>4, SlotFacts
<1>8. CASE x \in own /\ repairs[x] = Torn
    BY <1>6, <1>7, <1>8 DEF RepairingOK, RepairSafe
<1>9. CASE x \in own /\ repairs[x] # Torn
    <2>1. /\ x = m /\ m # f /\ CopyAt(disk, x) = f
          /\ repairs[f] = f => f \in own
        BY <1>1, <1>9 DEF RepairingOK, RepairSafe
    <2>2. repairs[f] = f
        BY <1>1, <1>9, <2>1 DEF RepairingOK, RepairSafe
    <2>3. f \in own \ {x} /\ CopyAt(disk, f) = f
        BY <1>2, <2>1, <2>2 DEF Found, Members
    <2> QED
        BY <1>6, <2>1, <2>3
<1>10. CASE x \notin own
    BY <1>6, <1>10
<1> QED
    BY <1>8, <1>9, <1>10

\* A crash of the repair.
LEMMA RepairKept ==
    ASSUME SInv, CleanInv, FaultInv, phase = "repairing", Crash, faults <= 1, Stored = working
    PROVE  Stored' = working
<1>1. /\ faults' = faults /\ faults \in {0, 1} /\ working \in Header /\ DiskInv /\ UpdateInv
      /\ \/ disk' = disk
         \/ RepairNext(repairs) # Copies /\ disk' = [disk EXCEPT ![RepairNext(repairs)] = Torn]
    BY DEF Crash, InFlight, SInv, UpdateInv, IInv, TypeInv
<1>2. CASE faults = 0
    BY <1>1, <1>2, CleanCrash
<1>3. CASE faults = 1
    <2>1. PICK f \in Slot, m \in Slot : RepairingOK(f, m)
        BY <1>3 DEF FaultInv
    <2>2. PICK w \in Header, g \in Header :
            (g = w \/ Follows(w, g)) /\ working \in {w, g} /\ Found(disk, w, g, f, m)
        BY <2>1 DEF RepairingOK
    <2>3. \A s \in Slot : disk'[s] \in {disk[s], Torn}
        BY <1>1 DEF DiskInv
    <2> DEFINE e == disk'
    <2>4. Found(e, w, g, f, m)
        BY <2>2, <2>3, LoseFound
    <2>5. \A s \in Slot : disk[s] # Torn => disk[s].header \in Header
        BY <1>1 DEF DiskInv
    <2>6. \A s \in Slot : e[s] # Torn => e[s].header \in Header
        BY <2>3, <2>5
    <2> DEFINE of(d) == IF CopyCount(d, g) >= OpenThreshold THEN g
                        ELSE IF CopyCount(d, w) >= OpenThreshold THEN w ELSE NoHeader
    <2>7. Stored = of(disk)
        BY <2>2, <2>5, FoundRead DEF Stored
    <2>8. Stored' = of(e)
        <3>1. Stored' = Read(e, OpenThreshold)
            BY DEF Stored
        <3> HIDE DEF e
        <3> QED
            BY <2>2, <2>4, <2>6, <3>1, FoundRead
    <2>9. working # NoHeader
        BY <1>1 DEF Header, NoHeader
    <2>10. CopyCount(disk, working) >= OpenThreshold
        BY <2>7, <2>9
    <2>11. CopyCount(e, working) >= OpenThreshold
        <3>1. CASE disk' = disk
            BY <2>10, <3>1
        <3>2. CASE RepairNext(repairs) # Copies /\ disk' = [disk EXCEPT ![RepairNext(repairs)] = Torn]
            <4>1. \A s \in Slot \ {RepairNext(repairs)} : e[s] = disk[s]
                BY <1>1, <3>2 DEF DiskInv
            <4> HIDE DEF e
            <4> QED
                BY <1>1, <2>1, <2>10, <3>2, <4>1, LoseRepaired
        <3> QED
            BY <1>1, <3>1, <3>2
    <2>12. CopyCount(e, g) <= CopyCount(disk, g) /\ CopyCount(e, g) \in 0..8 /\ CopyCount(disk, g) \in 0..8
        <3>1. \A s \in Members(e, g) : s \in Members(disk, g) /\ CopyAt(e, s) = CopyAt(disk, s)
            BY <2>3 DEF Members, CopyAt
        <3> HIDE DEF e
        <3>2. Numbers(e, g) \subseteq Numbers(disk, g)
            BY <3>1 DEF Numbers
        <3> QED
            BY <3>2, NumbersFacts, SlotSets
    <2> HIDE DEF e
    <2>13. CASE CopyCount(disk, g) >= OpenThreshold
        BY <2>7, <2>8, <2>11, <2>13
    <2>14. CASE ~(CopyCount(disk, g) >= OpenThreshold)
        <3>1. ~(CopyCount(e, g) >= OpenThreshold)
            BY <2>12, <2>14, SlotFacts
        <3>2. working = w
            BY <2>7, <2>9, <2>14
        <3> QED
            BY <2>8, <2>11, <3>1, <3>2
    <2> QED
        BY <2>13, <2>14
<1> QED
    BY <1>1, <1>2, <1>3

\* A crash in the middle of the repair of open, whatever it tears, does not take back the quorum that
\* open repairs, after one disk fault too, a misdirected copy included: RepairIterator writes over a
\* copy only when its number is in another slot or when there is one copy too many.
THEOREM RepairKeeps == Spec => RepairKeepsQuorum
<1>1. SInv /\ CleanInv /\ FaultInv /\ [Next]_vars =>
        [phase = "repairing" /\ Crash /\ faults <= 1 /\ Stored = working => Stored' = working]_vars
    BY RepairKept
<1> QED
    BY <1>1, FaultInvariant, PTL DEF RepairKeepsQuorum, Spec
=============================================================================
