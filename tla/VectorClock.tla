---------------------------- MODULE VectorClock -----------------------------
(***************************************************************************)
(* The vector clocks of active-active replication (VectorClock of          *)
(* types.py), and regions that use them: a region stamps what it writes    *)
(* with its incremented clock, and merges the clock of every write that it *)
(* receives, in any order and any number of times.                         *)
(*                                                                         *)
(* A clock's entries are a function on the regions that it has an entry    *)
(* for.  wall_time_ns, which compare does not look at, is left out.        *)
(***************************************************************************)
EXTENDS Naturals

CONSTANTS Region,
          WriteMax     \* bound: writes of a region

Clock == UNION {[regions -> Nat] : regions \in SUBSET Region}
EmptyClock == [r \in {} |-> 0]

\* get: the timestamp of a region, or 0 if there is no entry.
Get(c, r) == IF r \in DOMAIN c THEN c[r] ELSE 0

\* set: the entry of a region is replaced or appended.
Set(c, r, timestamp) == [q \in DOMAIN c \cup {r} |-> IF q = r THEN timestamp ELSE c[q]]

\* increment
Increment(c, r) == Set(c, r, Get(c, r) + 1)

\* Mutant of Merge: only entries that exist are raised.
MergeKnown(c, other) ==
    [q \in DOMAIN c |-> IF q \in DOMAIN other /\ other[q] > c[q] THEN other[q] ELSE c[q]]

\* merge: the entries of the other clock that are greater are set.
Merge(c, other) ==
    LET greater == {q \in DOMAIN other : other[q] > Get(c, q)}
    IN [q \in DOMAIN c \cup greater |-> IF q \in greater THEN other[q] ELSE c[q]]

\* self_less of compare: over the entries of both clocks.
Less(c, other) ==
    \/ \E q \in DOMAIN c : c[q] < Get(other, q)
    \/ \E q \in DOMAIN other : Get(c, q) < other[q]

\* compare
Compare(c, other) ==
    CASE Less(c, other) /\ Less(other, c) -> "CONCURRENT"
      [] Less(c, other) /\ ~Less(other, c) -> "LESS_THAN"
      [] ~Less(c, other) /\ Less(other, c) -> "GREATER_THAN"
      [] ~Less(c, other) /\ ~Less(other, c) -> "EQUAL"

-----------------------------------------------------------------------------
VARIABLES clock,     \* the clock of each region
          known,     \* the writes each region knows of: its own, and what the received knew
          writes     \* every write: its name, its clock, and the writes its region knew then

vars == <<clock, known, writes>>

Init ==
    /\ clock = [r \in Region |-> EmptyClock]
    /\ known = [r \in Region |-> {}]
    /\ writes = {}

\* A write of region r, the first step of a local write.
Write(r) ==
    LET c == Increment(clock[r], r)
        id == <<r, Get(c, r)>>
    IN /\ Get(c, r) <= WriteMax
       /\ clock' = [clock EXCEPT ![r] = c]
       /\ known' = [known EXCEPT ![r] = @ \cup {id}]
       /\ writes' = writes \cup {[id |-> id, clock |-> c, history |-> known[r] \cup {id}]}

\* Region r receives a write.
Receive(r, w) ==
    /\ clock' = [clock EXCEPT ![r] = Merge(@, w.clock)]
    /\ known' = [known EXCEPT ![r] = @ \cup w.history]
    /\ UNCHANGED writes

Next == \E r \in Region : Write(r) \/ \E w \in writes : Receive(r, w)

Spec == Init /\ [][Next]_vars

-----------------------------------------------------------------------------
\* The comparison of two writes' clocks tells which was known where the other was made: no write
\* that was overwritten in full knowledge is taken for a conflict, and no conflict for an
\* overwrite, in whatever order and however often writes arrive (compare, is_concurrent).
ClocksTellCausality ==
    \A v, w \in writes :
        Compare(v.clock, w.clock) =
            IF v = w THEN "EQUAL"
            ELSE IF v.id \in w.history THEN "LESS_THAN"
            ELSE IF w.id \in v.history THEN "GREATER_THAN"
            ELSE "CONCURRENT"
=============================================================================
