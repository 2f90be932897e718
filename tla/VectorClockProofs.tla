------------------------- MODULE VectorClockProofs --------------------------
(***************************************************************************)
(* Vector clocks tell causality, for every set of regions and every number *)
(* of writes.                                                              *)
(***************************************************************************)
EXTENDS VectorClock, TLAPS

\* The writes that a clock counts.
Below(c) == {id \in Region \X Nat : 1 <= id[2] /\ id[2] <= Get(c, id[1])}

LEMMA GetType == ASSUME NEW c \in Clock, NEW r \in Region PROVE Get(c, r) \in Nat
BY DEF Get, Clock

LEMMA EmptyType == EmptyClock \in Clock
BY DEF EmptyClock, Clock

LEMMA SetClock ==
    ASSUME NEW c \in Clock, NEW r \in Region, NEW n \in Nat
    PROVE  /\ Set(c, r, n) \in Clock
           /\ \A q \in Region : Get(Set(c, r, n), q) = IF q = r THEN n ELSE Get(c, q)
<1>1. PICK D \in SUBSET Region : c \in [D -> Nat]
    BY DEF Clock
<1>2. Set(c, r, n) \in [D \cup {r} -> Nat]
    BY <1>1 DEF Set
<1> QED
    BY <1>1, <1>2 DEF Set, Get, Clock

LEMMA MergeClock ==
    ASSUME NEW c \in Clock, NEW d \in Clock
    PROVE  /\ Merge(c, d) \in Clock
           /\ \A q \in Region : Get(Merge(c, d), q) = IF Get(d, q) > Get(c, q) THEN Get(d, q)
                                                      ELSE Get(c, q)
<1>1. PICK C \in SUBSET Region : c \in [C -> Nat]
    BY DEF Clock
<1>2. PICK D \in SUBSET Region : d \in [D -> Nat]
    BY DEF Clock
<1> DEFINE greater == {q \in D : d[q] > Get(c, q)}
<1>3. Merge(c, d) = [q \in C \cup greater |-> IF q \in greater THEN d[q] ELSE c[q]]
    BY <1>1, <1>2 DEF Merge
<1>4. Merge(c, d) \in [C \cup greater -> Nat]
    BY <1>1, <1>2, <1>3
<1>5. ASSUME NEW q \in Region
      PROVE  Get(Merge(c, d), q) = IF Get(d, q) > Get(c, q) THEN Get(d, q) ELSE Get(c, q)
    <2>1. CASE q \in greater
        BY <2>1, <1>1, <1>2, <1>3 DEF Get
    <2>2. CASE q \notin greater /\ q \in C
        BY <2>2, <1>1, <1>2, <1>3 DEF Get
    <2>3. CASE q \notin greater /\ q \notin C
        <3>1. Get(Merge(c, d), q) = 0 /\ Get(c, q) = 0
            BY <2>3, <1>1, <1>3 DEF Get
        <3>2. ~(Get(d, q) > 0)
            BY <2>3, <3>1, <1>2 DEF Get
        <3> QED
            BY <3>1, <3>2
    <2> QED
        BY <2>1, <2>2, <2>3
<1> QED
    BY <1>4, <1>5 DEF Clock

LEMMA LessClock ==
    ASSUME NEW c \in Clock, NEW d \in Clock
    PROVE  Less(c, d) <=> \E q \in Region : Get(c, q) < Get(d, q)
<1>1. PICK C \in SUBSET Region : c \in [C -> Nat]
    BY DEF Clock
<1>2. PICK D \in SUBSET Region : d \in [D -> Nat]
    BY DEF Clock
<1>3. ASSUME NEW q \in Region, Get(c, q) < Get(d, q) PROVE Less(c, d)
    BY <1>1, <1>2, <1>3 DEF Less, Get
<1>4. ASSUME Less(c, d) PROVE \E q \in Region : Get(c, q) < Get(d, q)
    BY <1>1, <1>2, <1>4 DEF Less, Get
<1> QED
    BY <1>3, <1>4

-----------------------------------------------------------------------------
Ids == {w.id : w \in writes}

\* The inductive invariant: a clock counts exactly the writes its region knew of, which are
\* closed under knowledge; a write is named after its own entry, and no two of the same name,
\* or that know each other, exist.
ClockType ==
    /\ clock \in [Region -> Clock]
    /\ known \in [Region -> SUBSET (Region \X Nat)]
    /\ writes \subseteq [id : Region \X Nat, clock : Clock, history : SUBSET (Region \X Nat)]
Counted ==
    /\ \A r \in Region : known[r] = Below(clock[r])
    /\ \A w \in writes : w.history = Below(w.clock)
Named ==
    \A w \in writes : /\ w.id[2] = Get(w.clock, w.id[1]) /\ w.id[2] >= 1
                      /\ w.id[2] <= Get(clock[w.id[1]], w.id[1])
Closed ==
    /\ \A r \in Region : known[r] \subseteq Ids /\ \A v \in writes : v.id \in known[r] => v.history \subseteq known[r]
    /\ \A w \in writes : w.history \subseteq Ids /\ \A v \in writes : v.id \in w.history => v.history \subseteq w.history
Ordered ==
    \A v, w \in writes : (v.id = w.id \/ (v.id \in w.history /\ w.id \in v.history)) => v = w

ClockInv == ClockType /\ Counted /\ Named /\ Closed /\ Ordered

LEMMA ClockInit == Init => ClockInv
<1> SUFFICES ASSUME Init PROVE ClockInv
    OBVIOUS
<1>1. Below(EmptyClock) = {}
    BY DEF Below, Get, EmptyClock
<1>2. ClockType
    BY EmptyType DEF Init, ClockType
<1>3. Counted
    BY <1>1 DEF Init, Counted
<1> QED
    BY <1>2, <1>3 DEF Init, ClockInv, Named, Closed, Ordered, Ids

LEMMA WriteStep == ASSUME ClockInv, NEW r \in Region, Write(r) PROVE ClockInv'
<1> DEFINE n == Get(clock[r], r) + 1
           c == Set(clock[r], r, n)
           id == <<r, n>>
           w0 == [id |-> id, clock |-> c, history |-> known[r] \cup {id}]
<1> USE DEF ClockInv
<1>0. w0.id = id /\ w0.clock = c /\ w0.history = known[r] \cup {id}
    OBVIOUS
<1>1. n \in Nat /\ n >= 1 /\ clock[r] \in Clock
    BY GetType DEF ClockType
<1>2. c \in Clock /\ \A q \in Region : Get(c, q) = IF q = r THEN n ELSE Get(clock[r], q)
    BY <1>1, SetClock
<1>3. /\ clock' = [clock EXCEPT ![r] = c]
      /\ known' = [known EXCEPT ![r] = @ \cup {id}]
      /\ writes' = writes \cup {w0}
    BY <1>1, <1>2 DEF Write, Increment
<1>4. ClockType'
    BY <1>1, <1>2, <1>3 DEF ClockType
<1>5. Below(c) = known[r] \cup {id}
    <2>1. known[r] = Below(clock[r])
        BY DEF Counted
    <2>2. \A q \in Region : Get(clock[r], q) \in Nat
        BY <1>1, GetType
    <2> QED
        BY <1>1, <1>2, <2>1, <2>2 DEF Below
<1>6. Counted'
    <2> HIDE DEF w0, c, id
    <2>1. ASSUME NEW q \in Region PROVE known'[q] = Below(clock'[q])
        <3>1. CASE q = r
            BY <3>1, <1>3, <1>5 DEF ClockType
        <3>2. CASE q # r
            BY <3>2, <1>3 DEF Counted, ClockType
        <3> QED
            BY <3>1, <3>2
    <2>2. ASSUME NEW w \in writes' PROVE w.history = Below(w.clock)
        <3>1. CASE w = w0
            BY <3>1, <1>0, <1>5
        <3>2. CASE w # w0
            BY <3>2, <2>2, <1>3 DEF Counted
        <3> QED
            BY <3>1, <3>2
    <2> QED
        BY <2>1, <2>2 DEF Counted
<1>7. id \notin Ids
    BY <1>1, GetType DEF Ids, Named, ClockType
<1>8. Named'
    <2>1. ASSUME NEW w \in writes
          PROVE w.id \in Region \X Nat /\ w.id[2] <= Get(clock'[w.id[1]], w.id[1])
        <3>1. w.id[1] \in Region /\ w.id[2] \in Nat /\ w.id[2] <= Get(clock[w.id[1]], w.id[1])
            BY DEF Named, ClockType
        <3>2. CASE w.id[1] = r
            BY <1>1, <1>2, <1>3, <3>1, <3>2, GetType DEF ClockType
        <3>3. CASE w.id[1] # r
            BY <1>3, <3>1, <3>3 DEF ClockType
        <3> QED
            BY <3>2, <3>3 DEF ClockType
    <2>2. w0.id[2] = Get(c, r) /\ w0.id[2] >= 1 /\ clock'[r] = c
        BY <1>1, <1>2, <1>3 DEF ClockType
    <2> QED
        BY <1>1, <1>3, <2>1, <2>2 DEF Named
<1>9. Closed'
    <2>1. Ids' = Ids \cup {id}
        <3> HIDE DEF w0, c, id
        <3> QED
            BY <1>0, <1>3 DEF Ids
    <2>2. known' = [q \in Region |-> IF q = r THEN known[r] \cup {id} ELSE known[q]]
        BY <1>3 DEF ClockType
    <2>3. \A q \in Region : known[q] \subseteq Ids
        BY DEF Closed
    <2>4. \A w \in writes : w.history \subseteq Ids /\ w.id \in Ids
        BY DEF Closed, Ids
    <2>5. ASSUME NEW q \in Region, NEW v \in writes', v.id \in known'[q] PROVE v.history \subseteq known'[q]
        <3>1. CASE v = w0
            BY <3>1, <2>2, <2>3, <2>5, <1>7
        <3>2. CASE v # w0
            BY <3>2, <2>2, <2>4, <2>5, <1>3, <1>7 DEF Closed
        <3> QED
            BY <3>1, <3>2
    <2>6. ASSUME NEW w \in writes', NEW v \in writes', v.id \in w.history PROVE v.history \subseteq w.history
        <3>1. CASE w # w0 /\ v # w0
            BY <3>1, <2>6, <1>3 DEF Closed
        <3>2. CASE w # w0 /\ v = w0
            BY <3>2, <2>4, <2>6, <1>3, <1>7
        <3>3. CASE w = w0 /\ v # w0
            BY <3>3, <2>4, <2>6, <1>3, <1>7 DEF Closed
        <3> QED
            BY <3>1, <3>2, <3>3
    <2>7. \A w \in writes' : w.history \subseteq Ids'
        BY <2>1, <2>3, <2>4, <1>3
    <2>8. \A q \in Region : known'[q] \subseteq Ids'
        BY <2>1, <2>2, <2>3
    <2> QED
        BY <2>5, <2>6, <2>7, <2>8 DEF Closed
<1>10. Ordered'
    <2>1. \A w \in writes : w.history \subseteq Ids /\ w.id \in Ids
        BY DEF Closed, Ids
    <2> HIDE DEF w0, c, id
    <2>2. \A w \in writes : w.id # id /\ id \notin w.history
        BY <2>1, <1>7
    <2>3. ASSUME NEW v \in writes', NEW w \in writes',
                 v.id = w.id \/ (v.id \in w.history /\ w.id \in v.history)
          PROVE  v = w
        <3>1. CASE v \in writes /\ w \in writes
            BY <3>1, <2>3 DEF Ordered
        <3>2. CASE v = w0 /\ w = w0
            BY <3>2
        <3>3. CASE (v = w0 /\ w \in writes) \/ (v \in writes /\ w = w0)
            BY <3>3, <2>2, <2>3, <1>0
        <3> QED
            BY <3>1, <3>2, <3>3, <1>3
    <2> QED
        BY <2>3 DEF Ordered
<1> QED
    BY <1>4, <1>6, <1>8, <1>9, <1>10

LEMMA ReceiveStep ==
    ASSUME ClockInv, NEW r \in Region, NEW w \in writes, Receive(r, w)
    PROVE  ClockInv'
<1> DEFINE c == Merge(clock[r], w.clock)
<1> USE DEF ClockInv
<1>1. clock[r] \in Clock /\ w.clock \in Clock
    BY DEF ClockType
<1>2. c \in Clock /\ \A q \in Region : Get(c, q) = IF Get(w.clock, q) > Get(clock[r], q)
                                                   THEN Get(w.clock, q) ELSE Get(clock[r], q)
    BY <1>1, MergeClock
<1>3. /\ clock' = [q \in Region |-> IF q = r THEN c ELSE clock[q]]
      /\ known' = [q \in Region |-> IF q = r THEN known[r] \cup w.history ELSE known[q]]
      /\ writes' = writes
    BY DEF Receive, ClockType
<1>4. ClockType'
    BY <1>1, <1>2, <1>3 DEF ClockType
<1>5. Below(c) = known[r] \cup w.history
    <2>1. known[r] = Below(clock[r]) /\ w.history = Below(w.clock)
        BY DEF Counted
    <2>2. \A q \in Region : Get(clock[r], q) \in Nat /\ Get(w.clock, q) \in Nat
        BY <1>1, GetType
    <2> QED
        BY <1>2, <2>1, <2>2 DEF Below
<1>6. Counted'
    BY <1>3, <1>5 DEF Counted
<1>7. Named'
    <2>1. ASSUME NEW v \in writes PROVE v.id[2] <= Get(clock'[v.id[1]], v.id[1])
        <3>1. v.id[1] \in Region /\ v.id[2] \in Nat /\ v.id[2] <= Get(clock[v.id[1]], v.id[1])
            BY DEF Named, ClockType
        <3>2. Get(clock[r], v.id[1]) \in Nat /\ Get(w.clock, v.id[1]) \in Nat
            BY <1>1, <3>1, GetType
        <3>3. CASE v.id[1] = r
            BY <1>2, <1>3, <3>1, <3>2, <3>3
        <3>4. CASE v.id[1] # r
            BY <1>3, <3>1, <3>4
        <3> QED
            BY <3>3, <3>4
    <2> QED
        BY <1>3, <2>1 DEF Named
<1>8. Closed'
    <2>1. Ids' = Ids
        BY <1>3 DEF Ids
    <2> QED
        BY <1>3, <2>1 DEF Closed
<1>9. Ordered'
    BY <1>3 DEF Ordered
<1> QED
    BY <1>4, <1>6, <1>7, <1>8, <1>9

LEMMA ClockStep == ClockInv /\ [Next]_vars => ClockInv'
<1> SUFFICES ASSUME ClockInv, [Next]_vars PROVE ClockInv'
    OBVIOUS
<1>1. CASE UNCHANGED vars
    BY <1>1 DEF vars, ClockInv, ClockType, Counted, Named, Closed, Ordered, Ids
<1>2. CASE Next
    BY <1>2, WriteStep, ReceiveStep DEF Next
<1> QED
    BY <1>1, <1>2

\* A clock that counts no more than another is the clock of a write the other knew.
LEMMA LessIsUnknown ==
    ASSUME ClockInv, NEW v \in writes, NEW w \in writes
    PROVE  Less(w.clock, v.clock) <=> v.id \notin w.history
<1> USE DEF ClockInv
<1>1. /\ v.clock \in Clock /\ w.clock \in Clock
      /\ v.id \in Region \X Nat /\ v.history = Below(v.clock) /\ w.history = Below(w.clock)
      /\ v.id[2] = Get(v.clock, v.id[1]) /\ v.id[2] >= 1
    BY DEF ClockType, Counted, Named
<1>2. \A q \in Region : Get(v.clock, q) \in Nat /\ Get(w.clock, q) \in Nat
    BY <1>1, GetType
<1>3. Less(w.clock, v.clock) <=> \E q \in Region : Get(w.clock, q) < Get(v.clock, q)
    BY <1>1, LessClock
<1>4. ASSUME v.id \notin w.history PROVE \E q \in Region : Get(w.clock, q) < Get(v.clock, q)
    BY <1>1, <1>2, <1>4 DEF Below
<1>5. ASSUME v.id \in w.history, NEW q \in Region, Get(w.clock, q) < Get(v.clock, q) PROVE FALSE
    <2>1. v.history \subseteq w.history
        BY <1>5 DEF Closed
    <2>2. <<q, Get(v.clock, q)>> \in v.history
        BY <1>1, <1>2, <1>5 DEF Below
    <2>3. <<q, Get(v.clock, q)>> \notin w.history
        BY <1>1, <1>2, <1>5 DEF Below
    <2> QED
        BY <2>1, <2>2, <2>3
<1> QED
    BY <1>3, <1>4, <1>5

\* The comparison of two writes' clocks tells which of them was known where the other was made
\* (compare), for every number of regions and writes.
THEOREM CausalityTold == Spec => []ClocksTellCausality
<1>1. ASSUME ClockInv, NEW v \in writes, NEW w \in writes
      PROVE  Compare(v.clock, w.clock) =
                IF v = w THEN "EQUAL"
                ELSE IF v.id \in w.history THEN "LESS_THAN"
                ELSE IF w.id \in v.history THEN "GREATER_THAN"
                ELSE "CONCURRENT"
    <2>1. Less(w.clock, v.clock) <=> v.id \notin w.history
        BY <1>1, LessIsUnknown
    <2>2. Less(v.clock, w.clock) <=> w.id \notin v.history
        BY <1>1, LessIsUnknown
    <2>3. v # w => ~(v.id \in w.history /\ w.id \in v.history)
        BY <1>1 DEF ClockInv, Ordered
    <2>4. v.id \in v.history
        <3>1. v.id \in Region \X Nat /\ v.history = Below(v.clock) /\ v.id[2] = Get(v.clock, v.id[1]) /\ v.id[2] >= 1
            BY <1>1 DEF ClockInv, ClockType, Counted, Named
        <3> QED
            BY <3>1 DEF Below
    <2> QED
        BY <2>1, <2>2, <2>3, <2>4 DEF Compare
<1>2. ClockInv => ClocksTellCausality
    BY <1>1 DEF ClocksTellCausality
<1> QED
    BY <1>2, ClockInit, ClockStep, PTL DEF Spec
=============================================================================
