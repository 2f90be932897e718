--------------------------- MODULE SuperblockQuorums ---------------------------
(***************************************************************************)
(* What is read of the copies of a superblock, and which of them a repair  *)
(* writes (src/src/vsr/superblock_quorums.zig): the thresholds of open and *)
(* of verify, the quorum that is taken, and the order of the repair.       *)
(*                                                                         *)
(* A header is named by its lineage, the sequence of the VSR states it and *)
(* its parents hold. Its sequence number is the length; two headers have   *)
(* the same checksum exactly when they are equal, as the checksum covers   *)
(* the parent's. The number of a copy is not covered by it.                *)
(***************************************************************************)
EXTENDS Integers, Sequences, FiniteSets, FiniteSetsExt, SequencesExt

CONSTANTS
    Copies,         \* constants.superblock_copies
    ViewMax,        \* bound: the highest view
    CheckpointMax,  \* bound: the checkpoints taken
    Torn            \* what is left of a copy whose checksum is not valid

ASSUME CopiesAssumption ==
    /\ Copies \in {4, 6, 8}
    /\ ViewMax \in Nat /\ CheckpointMax \in Nat

Slot == 0..(Copies - 1)
State == [view: 0..ViewMax, checkpoint: 0..CheckpointMax]

\* A copy whose checksum is not valid is no copy, and no number of one.
ASSUME TornAssumption ==
    /\ Torn \notin Slot
    /\ Torn \notin [header : Seq(State), copy : 0..Copies]

RootHeader == <<[view |-> 0, checkpoint |-> 0]>>
StateOf(header) == Last(header)

\* Quorums.Threshold: to verify what was written, and to open.
VerifyThreshold == CASE Copies = 4 -> 3 [] Copies = 6 -> 4 [] Copies = 8 -> 5
\* Mutant of OpenThreshold: the threshold of a verify.
OpensLikeVerify == VerifyThreshold
OpenThreshold == CASE Copies = 4 -> 2 [] Copies = 6 -> 3 [] Copies = 8 -> 4

-----------------------------------------------------------------------------
(* Quorums.working *)

Members(d, h) == {s \in Slot : d[s] # Torn /\ d[s].header = h}

\* A copy number that is no slot is corrupt: the copy is taken to be in its own slot.
CopyAt(d, s) == IF d[s].copy \in Slot THEN d[s].copy ELSE s

\* Quorum.slots: the copy found in each slot; a duplicate copy is not counted again.
FoundSlots(d, h) ==
    [s \in Slot |->
        IF /\ s \in Members(d, h)
           /\ \/ d[s].copy \notin Slot
              \/ \A t \in Members(d, h) : t < s => CopyAt(d, t) # d[s].copy
        THEN CopyAt(d, s) ELSE Torn]
CopyCount(d, h) == Cardinality({CopyAt(d, s) : s \in Members(d, h)})

HeadersOn(d) == {d[s].header : s \in {s \in Slot : d[s] # Torn}}

\* Mutant of Rank: the highest sequence first, whether it has its quorum or not.
RankBySequence(d, h, threshold) == Len(h) * 10 + CopyCount(d, h)

\* sort_priority_descending, up to the checksum: equal ranks end in Fork or QuorumLost.
Rank(d, h, threshold) ==
    LET valid == IF CopyCount(d, h) >= threshold THEN 1 ELSE 0
    IN (valid * 100 + Len(h)) * 10 + CopyCount(d, h)

\* The header that is read, or none: whichever the error, open and verify panic. The next header
\* in rank that is no older than the parent decides: Fork, ParentSkipped, ParentNotConnected or
\* VSRStateNotMonotonic, if it is not the parent.
NoHeader == <<>>
Monotonic(old, new) == old.view <= new.view /\ old.checkpoint <= new.checkpoint
Read(d, threshold) ==
    LET rank(h) == Rank(d, h, threshold)
        best == CHOOSE h \in HeadersOn(d) : \A g \in HeadersOn(d) : rank(g) <= rank(h)
        deciding == {g \in HeadersOn(d) \ {best} :
                        Len(g) \in {Len(best) - 1, Len(best)} \/ Len(g) > Len(best) + 1}
        decider == CHOOSE g \in deciding : \A f \in deciding : rank(f) <= rank(g)
    IN IF /\ HeadersOn(d) # {}
          /\ CopyCount(d, best) >= threshold
          /\ \/ deciding = {}
             \/ decider = Front(best) /\ Monotonic(StateOf(decider), StateOf(best))
       THEN best ELSE NoHeader

-----------------------------------------------------------------------------
(* RepairIterator.next *)

\* Mutant of RepairNext: nothing is repaired.
NeverRepairs(slots) == Copies

\* Mutant of RepairNext: a copy that is missing is written, whatever its slot holds.
RepairsByCopy(slots) ==
    LET missing == Slot \ {slots[s] : s \in Slot}
    IN IF missing # {} THEN Min(missing) ELSE Copies

\* The next slot to write: first one without a member of the quorum whose copy was not found,
\* then one whose copy was found elsewhere, then one with a misdirected copy found twice.
RepairNext(slots) ==
    LET found == {slots[s] : s \in Slot} \ {Torn}
        empty == {s \in Slot : slots[s] = Torn}
        misdirected == {s \in Slot \ empty : /\ slots[s] # s
                                             /\ \E t \in Slot \ {s} : slots[t] = slots[s]}
    IN IF empty \ found # {} THEN Max(empty \ found)
       ELSE IF empty # {} THEN Max(empty)
       ELSE IF misdirected # {} THEN Max(misdirected)
       ELSE Copies
===============================================================================
