--------------------------- MODULE GeoClientProofs --------------------------
(***************************************************************************)
(* A call of GeoClientSync gets its own answer, and an answer was          *)
(* executed, for any number of threads, tags, packets and instances of the *)
(* library, if the client is closed quietly.                               *)
(*                                                                         *)
(* The argument: a packet that may still be completed is with the thread   *)
(* that hands it over or with one instance (OnePlace); while nobody has    *)
(* begun to close the client, its context is under its own tag (TagInv),   *)
(* so that a free tag is the tag of no such packet, and a completion finds *)
(* the context of its own packet or none.                                  *)
(***************************************************************************)
EXTENDS MCGeoClient, WellFoundedInduction, TLAPS

CallPlace == {"attempt", "connect", "register", "hand_over", "wait", "evicted"}
ClosePlace == {"snapshot", "drain", "clear", "closing"}
Status == {"OK", "CLIENT_EVICTED", "CLIENT_SHUTDOWN"}
Submitted == 1..Len(packets)

CallRecord == [at : CallPlace \cup ClosePlace \cup {"idle"}, number : Nat,
               operation : Operation \cup {None}, attempt : Nat,
               packet : Packet \cup {None}, pending : SUBSET Packet]

TypeInv ==
    /\ packets \in Seq([tag : Tag, operation : Operation]) /\ Len(packets) <= PacketMax
    /\ inflight \in [Tag -> Packet \cup {None}] /\ next_tag \in Tag
    /\ result \in [Packet -> {None} \cup [status : Status, answers : Packet]]
    /\ client \in Client \cup {None} /\ connected \in BOOLEAN /\ closed \in BOOLEAN
    /\ library \in [Client -> [state : {"unused", "running", "evicted", "down"},
                               queue : SUBSET Submitted]]
    /\ executed \in Seq(Packet)
    /\ call \in [Thread -> CallRecord]
    /\ DOMAIN returned = Thread

\* Where a thread is tells whether it makes a call, and whether the call has a packet.
Places ==
    \A t \in Thread :
        /\ call[t].at \in CallPlace <=> call[t].operation # None
        /\ call[t].at \in {"hand_over", "wait", "evicted"} => call[t].packet \in Submitted

\* A packet is with one thread that hands it over, or with one instance of the library.
OnePlace ==
    /\ \A c, d \in Client : c # d => library[c].queue \cap library[d].queue = {}
    /\ \A t \in Thread : At(t, "hand_over") =>
        /\ \A c \in Client : call[t].packet \notin library[c].queue
        /\ \A u \in Thread : At(u, "hand_over") /\ call[u].packet = call[t].packet => u = t

Outstanding ==
    {p \in Submitted : \/ \E c \in Client : p \in library[c].queue
                       \/ \E t \in Thread : At(t, "hand_over") /\ call[t].packet = p}

\* Nobody has begun to close the client.
Open == ~closed /\ \A t \in Thread : call[t].at \notin ClosePlace

\* A packet that may still be completed has its tag to itself; once the client is being closed
\* its context may be gone.
TagInv ==
    \A p \in Outstanding :
        /\ inflight[packets[p].tag] \in {p, None}
        /\ Open => inflight[packets[p].tag] = p

\* While the client is closed no call is under way, and none gets anywhere afterwards.
ClosedInv ==
    \/ Open
    \/ \A t \in Thread : call[t].at \in ClosePlace \cup {"idle"}
    \/ closed /\ \A t \in Thread : /\ call[t].at \in {"idle", "attempt"}
                                   /\ At(t, "attempt") => call[t].attempt = 0

AnswerInv ==
    /\ OwnAnswer
    /\ \A p \in Packet : result[p] # None /\ result[p].status = "OK" => p \in Executed
    /\ AnsweredIsExecuted

IInv == TypeInv /\ Places /\ OnePlace /\ TagInv /\ ClosedInv /\ AnswerInv

-----------------------------------------------------------------------------
LEMMA LessIsWellFounded ==
    \E R : IsWellFoundedOn(R, Nat) /\ \A x, y \in Nat : x < y => <<x, y>> \in R
<1>1. \A x, y \in Nat : x < y => <<x, y>> \in OpToRel(<, Nat)
    BY DEF OpToRel
<1> QED
    BY <1>1, NatLessThanWellFounded

LEMMA MinInSet == ASSUME NEW S \in SUBSET Nat, S # {} PROVE Min(S) \in S
<1>1. PICK R : IsWellFoundedOn(R, Nat) /\ \A x, y \in Nat : x < y => <<x, y>> \in R
    BY LessIsWellFounded
<1>2. IsWellFoundedOn(R, Nat)
    BY <1>1
<1>3. \E x \in S : \A y \in S : ~(<<y, x>> \in R)
    BY <1>2, WFMin, Zenon
<1>4. PICK x \in S : \A y \in S : ~(<<y, x>> \in R)
    BY <1>3
<1>5. \A y \in S : x <= y
    <2>1. \A y \in S : x \in Nat /\ y \in Nat /\ ~(y < x)
        BY <1>1, <1>4
    <2> QED
        BY <2>1
<1>6. \E z \in S : \A y \in S : z <= y
    BY <1>5
<1> QED
    BY <1>6, Zenon DEF Min

LEMMA FreeTagIsFree ==
    ASSUME NativeAssumption, TypeInv, \E g \in Tag : inflight[g] = None
    PROVE  FreeTag \in Tag /\ inflight[FreeTag] = None
<1> DEFINE free == {g \in Tag : inflight[g] = None}
           ahead == {g \in free : g >= next_tag}
           candidates == IF ahead # {} THEN ahead ELSE free
<1>1. candidates \in SUBSET Nat /\ candidates # {} /\ candidates \subseteq free
    BY DEF Tag
<1>2. Min(candidates) \in candidates
    <2> HIDE DEF candidates
    <2> QED
        BY <1>1, MinInSet
<1>3. FreeTag = Min(candidates)
    BY DEF FreeTag
<1> QED
    BY <1>1, <1>2, <1>3

LEMMA OutstandingType ==
    ASSUME NativeAssumption, TypeInv
    PROVE  \A p \in Outstanding : p \in Submitted /\ p \in Packet /\ packets[p].tag \in Tag
<1>1. Outstanding \subseteq Submitted
    BY DEF Outstanding
<1>2. Submitted \subseteq Packet
    BY DEF Submitted, Packet, TypeInv, NativeAssumption
<1> DEFINE Entry == [tag : Tag, operation : Operation]
<1>3. packets \in Seq(Entry)
    BY DEF TypeInv
<1>4. \A p \in Submitted : packets[p] \in Entry
    <2> HIDE DEF Entry
    <2> QED
        BY <1>3 DEF Submitted
<1> QED
    BY <1>1, <1>2, <1>4

\* What a completion does when every packet that may be completed has its tag to itself.
LEMMA CompletionAnswers ==
    ASSUME NativeAssumption, TypeInv, TagInv,
           NEW ps \in SUBSET Outstanding, NEW status \in Status, OnCompletion(ps, status)
    PROVE  /\ inflight' \in [Tag -> Packet \cup {None}]
           /\ result' \in [Packet -> {None} \cup [status : Status, answers : Packet]]
           /\ \A g \in Tag : inflight'[g] \in {inflight[g], None}
           /\ \A g \in Tag : (\A p \in ps : packets[p].tag # g) => inflight'[g] = inflight[g]
           /\ \A q \in Packet :
                \/ result'[q] = result[q]
                \/ q \in ps /\ result'[q] = [status |-> status, answers |-> q]
<1> DEFINE Finds(p, q) == inflight[packets[p].tag] = q
<1>1. \A p \in Outstanding : p \in Packet /\ packets[p].tag \in Tag
    BY OutstandingType
<1>2. \A p \in ps, q \in Packet : Finds(p, q) => p = q
    BY <1>1 DEF TagInv, NativeAssumption, Packet
<1>3. inflight' = [g \in Tag |-> IF \E p \in ps : packets[p].tag = g THEN None ELSE inflight[g]]
    BY DEF OnCompletion
<1>4. result' = [q \in Packet |-> IF \E p \in ps : Finds(p, q)
                                  THEN [status |-> status, answers |-> CHOOSE p \in ps : Finds(p, q)]
                                  ELSE result[q]]
    BY DEF OnCompletion
<1>5. ASSUME NEW q \in Packet, \E p \in ps : Finds(p, q)
      PROVE  q \in ps /\ (CHOOSE p \in ps : Finds(p, q)) = q
    <2>1. (CHOOSE p \in ps : Finds(p, q)) \in ps /\ Finds(CHOOSE p \in ps : Finds(p, q), q)
        BY <1>5, Zenon
    <2> QED
        BY <2>1, <1>2
<1>6. \A q \in Packet :
        \/ result'[q] = result[q]
        \/ q \in ps /\ result'[q] = [status |-> status, answers |-> q]
    <2>1. ASSUME NEW q \in Packet
          PROVE  \/ result'[q] = result[q]
                 \/ q \in ps /\ result'[q] = [status |-> status, answers |-> q]
        <3>1. CASE \E p \in ps : Finds(p, q)
            <4>1. result'[q] = [status |-> status, answers |-> CHOOSE p \in ps : Finds(p, q)]
                BY <3>1, <1>4
            <4> QED
                BY <4>1, <3>1, <1>5
        <3>2. CASE ~\E p \in ps : Finds(p, q)
            BY <3>2, <1>4
        <3> QED
            BY <3>1, <3>2
    <2> QED
        BY <2>1
<1>7. DOMAIN result' = Packet
    BY <1>4
<1>8. result' = [q \in Packet |-> result'[q]]
    BY <1>4
<1>9. result' \in [Packet -> {None} \cup [status : Status, answers : Packet]]
    BY <1>6, <1>8 DEF TypeInv
<1>10. inflight' \in [Tag -> Packet \cup {None}]
    BY <1>3 DEF TypeInv
<1> QED
    BY <1>3, <1>6, <1>9, <1>10

-----------------------------------------------------------------------------
LEMMA InitIInv == NativeAssumption /\ GeoClientAssumption /\ Init => IInv
<1> SUFFICES ASSUME NativeAssumption, GeoClientAssumption, Init PROVE IInv
    OBVIOUS
<1> USE DEF Init, NativeInit
<1>1. NoCall \in CallRecord
    BY DEF NoCall, CallRecord
<1>2. TypeInv
    <2>1. packets \in Seq([tag : Tag, operation : Operation]) /\ Len(packets) = 0
        OBVIOUS
    <2>2. executed \in Seq(Packet)
        OBVIOUS
    <2>3. library \in [Client -> [state : {"unused", "running", "evicted", "down"},
                                 queue : SUBSET Submitted]]
        OBVIOUS
    <2>4. client \in Client /\ next_tag \in Tag
        BY DEF NativeAssumption, Client, Tag
    <2>5. call \in [Thread -> CallRecord] /\ DOMAIN returned = Thread
        BY <1>1
    <2>6. inflight \in [Tag -> Packet \cup {None}]
        OBVIOUS
    <2>7. result \in [Packet -> {None} \cup [status : Status, answers : Packet]]
        OBVIOUS
    <2>8. connected \in BOOLEAN /\ closed \in BOOLEAN
        BY Zenon
    <2> HIDE DEF Init, NativeInit
    <2>9. Len(packets) <= PacketMax
        BY <2>1 DEF NativeAssumption
    <2> QED
        BY <2>1, <2>2, <2>3, <2>4, <2>5, <2>6, <2>7, <2>8, <2>9 DEF TypeInv
<1>3. Places
    BY DEF Places, NoCall, CallPlace
<1>4. OnePlace
    BY DEF OnePlace, At, NoCall
<1>5. TagInv
    BY DEF TagInv, Outstanding, Submitted
<1>6. ClosedInv
    BY DEF ClosedInv, Open, NoCall, ClosePlace
<1>7. AnswerInv
    BY DEF AnswerInv, OwnAnswer, AnsweredIsExecuted
<1> QED
    BY <1>2, <1>3, <1>4, <1>5, <1>6, <1>7 DEF IInv

\* A step of thread t that goes where the places it knows of allow.
Moves(t) ==
    /\ call' \in [Thread -> CallRecord]
    /\ \A u \in Thread \ {t} : call'[u] = call[u]
    /\ closed => closed'
    /\ closed' => closed \/ (At(t, "closing") /\ call'[t].at = "idle")
    /\ call'[t].at \in CallPlace <=> call'[t].operation # None
    /\ call'[t].at \in {"hand_over", "wait", "evicted"} => call'[t].packet \in Submitted'
    /\ call[t].at \in ClosePlace => call'[t].at \in ClosePlace \/ closed'
    /\ closed => \/ call'[t].at \in ClosePlace \cup {"idle"}
                 \/ call'[t].at = "attempt" /\ call'[t].attempt = 0

LEMMA ThreadMoves ==
    ASSUME NativeAssumption, GeoClientAssumption, IInv, QuietClose, NEW t \in Thread,
           Moves(t), Submitted \subseteq Submitted'
    PROVE  Places' /\ ClosedInv' /\ (Open' => Open)
<1> USE DEF Moves
<1>1. Places'
    BY DEF IInv, Places
<1>2. Open' => Open
    BY DEF Open
<1>3. CASE \E u \in Thread : call'[u].at \in ClosePlace
    <2>1. PICK u \in Thread : call'[u].at \in ClosePlace
        BY <1>3
    <2>2. call'[u].operation = None /\ call'[u].at # "idle"
        BY <2>1, <1>1 DEF Places, ClosePlace, CallPlace
    <2>3. u \in Closing'
        BY <2>2 DEF Closing, At
    <2>4. \A v \in Thread : call'[v].operation = None
        BY <2>3 DEF QuietClose
    <2>5. \A v \in Thread : call'[v].at \in ClosePlace \cup {"idle"}
        BY <2>4, <1>1 DEF Places, CallRecord
    <2>6. ClosedInv'
        BY <2>5 DEF ClosedInv
    <2> QED
        BY <1>1, <1>2, <2>6
<1>4. CASE ~\E u \in Thread : call'[u].at \in ClosePlace
    <2> DEFINE Rests(u) == \/ call'[u].at = "idle"
                           \/ call'[u].at = "attempt" /\ call'[u].attempt = 0
    <2>1. CASE ~closed'
        BY <1>1, <1>2, <1>4, <2>1 DEF ClosedInv, Open
    <2>2. CASE closed' /\ \A u \in Thread : Rests(u)
        <3>1. \A u \in Thread : /\ call'[u].at \in {"idle", "attempt"}
                                /\ call'[u].at = "attempt" => call'[u].attempt = 0
            BY <2>2
        <3>2. ClosedInv'
            BY <3>1, <2>2 DEF ClosedInv, At
        <3> QED
            BY <1>1, <1>2, <3>2
    <2>3. closed' => \A u \in Thread : Rests(u)
        <3>1. CASE closed' /\ ~closed
            <4>1. \A u \in Thread : call[u].at \in ClosePlace \cup {"idle"}
                BY <3>1 DEF IInv, ClosedInv, Open, At, ClosePlace
            <4>2. \A u \in Thread \ {t} : call'[u].at = "idle"
                BY <4>1, <1>4
            <4>3. call'[t].at = "idle"
                BY <3>1
            <4> QED
                BY <4>2, <4>3
        <3>2. CASE closed
            <4>1. \A u \in Thread \ {t} : Rests(u)
                <5>1. CASE \A u \in Thread : call[u].at \in ClosePlace \cup {"idle"}
                    BY <5>1, <1>4
                <5>2. CASE \A u \in Thread : /\ call[u].at \in {"idle", "attempt"}
                                             /\ call[u].at = "attempt" => call[u].attempt = 0
                    BY <5>2
                <5> QED
                    BY <5>1, <5>2, <3>2 DEF IInv, ClosedInv, Open, At
            <4>2. Rests(t)
                BY <3>2, <1>4
            <4> QED
                BY <4>1, <4>2
        <3> QED
            BY <3>1, <3>2 DEF IInv, TypeInv
    <2> QED
        BY <2>1, <2>2, <2>3 DEF IInv, TypeInv
<1> QED
    BY <1>3, <1>4

\* A step that leaves the contexts and the packets in the library as they are.
LEMMA ContextsKept ==
    ASSUME IInv, Open' => Open, UNCHANGED <<inflight, packets, result, executed>>,
           \A c \in Client : library'[c].queue = library[c].queue,
           \A t \in Thread : At(t, "hand_over")' =>
                At(t, "hand_over") /\ call'[t].packet = call[t].packet,
           \A t \in Thread : returned'[t] # None /\ returned'[t].what = "answer" =>
                returned'[t] = returned[t] \/ returned'[t].packet \in Executed
    PROVE  OnePlace' /\ TagInv' /\ AnswerInv'
<1>1. OnePlace'
    BY DEF IInv, OnePlace
<1>2. Outstanding' \subseteq Outstanding
    BY DEF Outstanding, Submitted
<1>3. TagInv'
    BY <1>2 DEF IInv, TagInv
<1>4. OwnAnswer' /\ \A p \in Packet : result'[p] # None /\ result'[p].status = "OK" => p \in Executed'
    BY DEF IInv, AnswerInv, OwnAnswer, Executed
<1>5. AnsweredIsExecuted'
    BY DEF IInv, AnswerInv, AnsweredIsExecuted, Executed
<1> QED
    BY <1>1, <1>3, <1>4, <1>5 DEF AnswerInv

\* A step that completes packets, which nobody has any more.
LEMMA CompletionStep ==
    ASSUME NativeAssumption, IInv, Open' => Open, UNCHANGED <<packets, executed>>,
           NEW ps \in SUBSET Outstanding, NEW status \in Status, OnCompletion(ps, status),
           status = "OK" => ps \subseteq Executed,
           Outstanding' \subseteq Outstanding \ ps
    PROVE  /\ inflight' \in [Tag -> Packet \cup {None}]
           /\ result' \in [Packet -> {None} \cup [status : Status, answers : Packet]]
           /\ TagInv'
           /\ OwnAnswer'
           /\ \A p \in Packet : result'[p] # None /\ result'[p].status = "OK" => p \in Executed'
<1>1. /\ inflight' \in [Tag -> Packet \cup {None}]
      /\ result' \in [Packet -> {None} \cup [status : Status, answers : Packet]]
      /\ \A g \in Tag : inflight'[g] \in {inflight[g], None}
      /\ \A g \in Tag : (\A p \in ps : packets[p].tag # g) => inflight'[g] = inflight[g]
      /\ \A q \in Packet :
            \/ result'[q] = result[q]
            \/ q \in ps /\ result'[q] = [status |-> status, answers |-> q]
    BY CompletionAnswers DEF IInv
<1>2. \A p \in Outstanding : p \in Packet /\ packets[p].tag \in Tag
    BY OutstandingType DEF IInv
<1>3. TagInv'
    <2>1. ASSUME NEW p \in Outstanding'
          PROVE  /\ inflight'[packets[p].tag] \in {p, None}
                 /\ Open' => inflight'[packets[p].tag] = p
        <3>1. p \in Outstanding /\ p \notin ps
            OBVIOUS
        <3>2. inflight'[packets[p].tag] \in {p, None}
            BY <3>1, <1>1, <1>2 DEF IInv, TagInv
        <3>3. ASSUME Open' PROVE inflight'[packets[p].tag] = p
            <4>1. \A q \in ps : packets[q].tag # packets[p].tag
                BY <3>1, <3>3 DEF IInv, TagInv
            <4> QED
                BY <4>1, <3>1, <3>3, <1>1, <1>2 DEF IInv, TagInv
        <3> QED
            BY <3>2, <3>3
    <2> QED
        BY <2>1 DEF TagInv
<1>4. OwnAnswer'
    BY <1>1 DEF IInv, AnswerInv, OwnAnswer
<1>5. \A p \in Packet : result'[p] # None /\ result'[p].status = "OK" => p \in Executed'
    BY <1>1 DEF IInv, AnswerInv, Executed
<1> QED
    BY <1>1, <1>3, <1>4, <1>5

\* An attempt that ends with an answer ends with the status of one.
LEMMA AnswerIsOK ==
    ASSUME NEW operation \in AllOperations,
           NEW status \in Status \cup {"TIMEOUT"},
           Outcome(operation, [status |-> status, data |-> "whole"]).returns = "answer"
    PROVE  status = "OK"
BY DEF Status, AllOperations, BatchOperation, QueryOperation, SearchOperation, AdminOperation,
       TtlOperation, Outcome, WriteOutcome, QueryUuidOutcome, QueryUuidBatchOutcome, SearchOutcome,
       PingOutcome, StatusOutcome, CleanupOutcome, TopologyOutcome, TtlOutcome, Zeros, Negative,
       Failed, Unreadable, Returns, Raises

-----------------------------------------------------------------------------
LibraryType(l) ==
    l \in [Client -> [state : {"unused", "running", "evicted", "down"}, queue : SUBSET Submitted]]

\* A step of thread t that hands nothing over and, if it ends a call with an answer, ends one that
\* was executed.
Steps(t) ==
    /\ Moves(t) /\ call'[t].at # "hand_over"
    /\ DOMAIN returned' = Thread /\ \A u \in Thread \ {t} : returned'[u] = returned[u]
    /\ returned'[t] # None /\ returned'[t].what = "answer" =>
            returned'[t] = returned[t] \/ returned'[t].packet \in Executed

\* A step of a thread that leaves the contexts alone, and does not end with a new answer.
LEMMA ThreadStep ==
    ASSUME NativeAssumption, GeoClientAssumption, IInv, QuietClose, NEW t \in Thread,
           UNCHANGED <<contextVars, executed>>, closed' \in BOOLEAN,
           client' \in Client \cup {None}, connected' \in BOOLEAN, LibraryType(library'),
           \A c \in Client : library'[c].queue = library[c].queue,
           Steps(t)
    PROVE  IInv'
<1> USE DEF Steps
<1>1. UNCHANGED <<inflight, next_tag, packets, result, executed>>
    BY DEF contextVars
<1>2. TypeInv'
    <2>1. Submitted' = Submitted
        BY <1>1 DEF Submitted
    <2> QED
        BY <1>1, <2>1 DEF TypeInv, IInv, LibraryType, Moves
<1>3. Places' /\ ClosedInv' /\ (Open' => Open)
    <2>1. Submitted \subseteq Submitted'
        BY <1>1 DEF Submitted
    <2> QED
        BY <2>1, ThreadMoves
<1>4. \A u \in Thread : At(u, "hand_over")' => At(u, "hand_over") /\ call'[u].packet = call[u].packet
    BY DEF Moves, At
<1>5. \A u \in Thread : returned'[u] # None /\ returned'[u].what = "answer" =>
            returned'[u] = returned[u] \/ returned'[u].packet \in Executed
    OBVIOUS
<1>6. OnePlace' /\ TagInv' /\ AnswerInv'
    BY <1>1, <1>3, <1>4, <1>5, ContextsKept
<1> QED
    BY <1>2, <1>3, <1>6 DEF IInv

LEMMA ReturnSteps ==
    ASSUME IInv, NEW t \in Thread, call[t].at \in CallPlace, UNCHANGED closed, NEW what,
           Return(t, what), what = "answer" => call[t].packet \in Executed
    PROVE  Steps(t)
<1>1. call[t] \in CallRecord /\ DOMAIN call = Thread /\ DOMAIN returned = Thread
    BY DEF IInv, TypeInv
<1>2. call' = [call EXCEPT ![t] = [NoCall EXCEPT !.number = call[t].number]]
    BY DEF Return
<1>3. [NoCall EXCEPT !.number = call[t].number] \in CallRecord
    BY <1>1 DEF NoCall, CallRecord
<1>4. call' \in [Thread -> CallRecord]
    BY <1>2, <1>3 DEF IInv, TypeInv
<1>5. call'[t].at = "idle" /\ call'[t].operation = None
    BY <1>1, <1>2 DEF NoCall
<1>6. Moves(t)
    BY <1>1, <1>2, <1>4, <1>5 DEF Moves, CallPlace, ClosePlace
<1> QED
    BY <1>1, <1>5, <1>6 DEF Steps, Return

LEMMA GoSteps ==
    ASSUME IInv, NEW t \in Thread, call[t].at \in CallPlace, ~closed,
           UNCHANGED <<closed, returned, packets>>,
           NEW place \in CallPlace \ {"hand_over"}, Go(t, place),
           place \in {"wait", "evicted"} => call[t].packet \in Submitted
    PROVE  Steps(t)
<1>1. call[t] \in CallRecord /\ DOMAIN call = Thread /\ DOMAIN returned = Thread
    BY DEF IInv, TypeInv
<1>2. call' = [call EXCEPT ![t] = [call[t] EXCEPT !.at = place]]
    BY DEF Go
<1>3. [call[t] EXCEPT !.at = place] \in CallRecord
    BY <1>1 DEF CallRecord
<1>4. call' \in [Thread -> CallRecord]
    BY <1>2, <1>3 DEF IInv, TypeInv
<1>5. call'[t].at = place /\ call'[t].operation = call[t].operation /\ call'[t].packet = call[t].packet
    BY <1>1, <1>2 DEF CallRecord
<1>6. Submitted' = Submitted
    BY DEF Submitted
<1>7. Moves(t)
    BY <1>1, <1>2, <1>4, <1>5, <1>6 DEF Moves, CallPlace, ClosePlace, IInv, Places
<1>8. returned'[t] # None /\ returned'[t].what = "answer" =>
            returned'[t] = returned[t] \/ returned'[t].packet \in Executed
    OBVIOUS
<1> QED
    BY <1>1, <1>5, <1>7 DEF Steps

\* Once the client is closed, a call gets no further than its first attempt.
LEMMA ClosedStops ==
    ASSUME IInv, NEW t \in Thread, call[t].at \in CallPlace, closed
    PROVE  At(t, "attempt") /\ call[t].attempt = 0
BY DEF IInv, ClosedInv, Open, At, CallPlace, ClosePlace

LEMMA EndAttemptSteps ==
    ASSUME IInv, GeoClientAssumption, NEW t \in Thread, call[t].at \in {"wait", "evicted"},
           UNCHANGED <<closed, packets>>, NEW status \in Status \cup {"TIMEOUT"}, EndAttempt(t, status),
           status = "OK" => call[t].packet \in Executed
    PROVE  Steps(t)
<1> DEFINE outcome == Outcome(call[t].operation, [status |-> status, data |-> "whole"])
<1>1. call[t].at \in CallPlace /\ ~closed
    BY ClosedStops DEF CallPlace, At
<1>2. call[t].operation \in AllOperations
    BY <1>1 DEF IInv, Places, TypeInv, CallRecord, GeoClientAssumption
<1>3. outcome.returns = "answer" => call[t].packet \in Executed
    BY <1>2, AnswerIsOK
<1>4. \/ Return(t, outcome.returns)
      \/ Return(t, "RetryExhausted")
      \/ Go(t, "attempt") /\ UNCHANGED returned
    BY DEF EndAttempt
<1>5. CASE Return(t, outcome.returns)
    <2> HIDE DEF outcome
    <2> QED
        BY <1>1, <1>3, <1>5, ReturnSteps
<1>6. CASE Return(t, "RetryExhausted")
    BY <1>1, <1>6, ReturnSteps
<1>7. CASE Go(t, "attempt") /\ UNCHANGED returned
    BY <1>1, <1>7, GoSteps DEF CallPlace
<1> QED
    BY <1>4, <1>5, <1>6, <1>7

LEMMA CloseSteps ==
    ASSUME IInv, NEW t \in Thread, call[t].at \notin CallPlace, UNCHANGED <<closed, returned>>,
           NEW r \in CallRecord, r.at \in ClosePlace, r.operation = None,
           call' = [call EXCEPT ![t] = r]
    PROVE  Steps(t)
<1>1. DOMAIN call = Thread /\ DOMAIN returned = Thread
    BY DEF IInv, TypeInv
<1>2. call' \in [Thread -> CallRecord]
    BY DEF IInv, TypeInv
<1>3. call'[t] = r /\ \A u \in Thread \ {t} : call'[u] = call[u]
    BY <1>1
<1>4. r.at \notin CallPlace /\ r.at \notin {"hand_over", "wait", "evicted"}
    BY DEF CallPlace, ClosePlace
<1>5. closed' = closed /\ r.at \in ClosePlace /\ r.operation = None
    OBVIOUS
<1>6. Moves(t)
    BY ONLY <1>2, <1>3, <1>4, <1>5 DEF Moves
<1> QED
    BY <1>1, <1>3, <1>4, <1>6 DEF Steps

-----------------------------------------------------------------------------
(* The steps of a call *)

LEMMA CallIInv ==
    ASSUME NativeAssumption, GeoClientAssumption, IInv, QuietClose, NEW t \in Thread, Call(t)
    PROVE  IInv'
<1>1. PICK operation \in Operation :
        call' = [call EXCEPT ![t] = [NoCall EXCEPT !.at = "attempt", !.operation = operation,
                                                   !.number = call[t].number + 1]]
    BY DEF Call
<1>2. call[t] \in CallRecord /\ DOMAIN call = Thread /\ DOMAIN returned = Thread
    BY DEF IInv, TypeInv
<1> DEFINE r == [NoCall EXCEPT !.at = "attempt", !.operation = operation, !.number = call[t].number + 1]
<1>3. r \in CallRecord
    <2>1. call[t].number + 1 \in Nat
        BY <1>2 DEF CallRecord
    <2>2. NoCall \in CallRecord
        BY DEF NoCall, CallRecord
    <2> QED
        BY <2>1, <2>2 DEF CallRecord, CallPlace
<1>4. r.at = "attempt" /\ r.operation = operation /\ r.attempt = 0
    BY DEF NoCall
<1>5. call' = [call EXCEPT ![t] = r]
    BY <1>1
<1>6. operation # None
    BY DEF GeoClientAssumption
<1>7. call[t].at = "idle" /\ UNCHANGED <<nativeVars, closed, call_of, returned>>
    BY DEF Call, At
<1> HIDE DEF r
<1>8. call' \in [Thread -> CallRecord] /\ call'[t] = r /\ \A u \in Thread \ {t} : call'[u] = call[u]
    BY <1>2, <1>3, <1>5 DEF IInv, TypeInv
<1>9. Moves(t)
    <2>1. r.at \in CallPlace /\ r.at \notin {"hand_over", "wait", "evicted"}
        BY <1>4 DEF CallPlace
    <2>2. call[t].at \notin ClosePlace
        BY <1>7 DEF ClosePlace
    <2>3. closed' = closed
        BY <1>7
    <2> QED
        BY <1>4, <1>6, <1>8, <2>1, <2>2, <2>3 DEF Moves
<1>10. Steps(t)
    BY <1>2, <1>4, <1>7, <1>8, <1>9 DEF Steps
<1> QED
    BY <1>7, <1>10, ThreadStep DEF nativeVars, connectionVars, IInv, TypeInv, LibraryType

LEMMA AttemptIInv ==
    ASSUME NativeAssumption, GeoClientAssumption, IInv, QuietClose, NEW t \in Thread, Attempt(t)
    PROVE  IInv'
<1>1. call[t].at = "attempt" /\ UNCHANGED <<nativeVars, closed, call_of>>
    BY DEF Attempt, At
<1>2. call[t] \in CallRecord /\ DOMAIN call = Thread /\ DOMAIN returned = Thread
    BY DEF IInv, TypeInv
<1>3. CASE Return(t, "RetryExhausted") \/ Return(t, "ClientClosedError")
    <2>1. Steps(t)
        BY <1>1, <1>3, ReturnSteps DEF CallPlace
    <2> QED
        BY <1>1, <2>1, ThreadStep DEF nativeVars, connectionVars, IInv, TypeInv, LibraryType
<1>4. CASE /\ ~(closed /\ LooksAtClosed(t))
           /\ call' = [call EXCEPT ![t].at = "connect", ![t].attempt = @ + 1]
           /\ UNCHANGED returned
    <2>1. ~closed
        BY <1>1, <1>4, ClosedStops DEF LooksAtClosed, CallPlace
    <2> DEFINE r == [call[t] EXCEPT !.at = "connect", !.attempt = call[t].attempt + 1]
    <2>2. r \in CallRecord /\ r.at = "connect" /\ r.operation = call[t].operation
        <3>1. call[t].attempt + 1 \in Nat
            BY <1>2 DEF CallRecord
        <3> QED
            BY <1>2, <3>1 DEF CallRecord, CallPlace
    <2>3. call' = [call EXCEPT ![t] = r]
        BY <1>2, <1>4 DEF CallRecord
    <2> HIDE DEF r
    <2>4. call' \in [Thread -> CallRecord] /\ call'[t] = r /\ \A u \in Thread \ {t} : call'[u] = call[u]
        BY <1>2, <2>2, <2>3 DEF IInv, TypeInv
    <2>5. Moves(t)
        BY <1>1, <2>1, <2>2, <2>4 DEF Moves, CallPlace, ClosePlace, IInv, Places
    <2>6. Steps(t)
        BY <1>2, <1>4, <2>2, <2>4, <2>5 DEF Steps
    <2> QED
        BY <1>1, <2>6, ThreadStep DEF nativeVars, connectionVars, IInv, TypeInv, LibraryType
<1> QED
    BY <1>3, <1>4 DEF Attempt

LEMMA ReconnectIInv ==
    ASSUME NativeAssumption, GeoClientAssumption, IInv, QuietClose, NEW t \in Thread, Reconnect(t)
    PROVE  IInv'
<1>1. call[t].at = "connect" /\ Go(t, "register")
    BY DEF Reconnect, At
<1>2. UNCHANGED <<contextVars, packets, executed, closed, returned>>
    BY DEF Reconnect, contextVars
<1>3. client' \in Client \cup {None} /\ connected' \in BOOLEAN /\ LibraryType(library')
      /\ \A c \in Client : library'[c].queue = library[c].queue
    <2>1. LibraryType(library) /\ client \in Client \cup {None} /\ connected \in BOOLEAN
        BY DEF IInv, TypeInv, LibraryType
    <2>2. CASE UNCHANGED <<connectionVars, library>>
        BY <2>1, <2>2 DEF connectionVars
    <2>3. ASSUME NEW c \in Client, client' = c, connected' = TRUE,
                 library' = [library EXCEPT ![c].state = "running"]
          PROVE  /\ client' \in Client \cup {None} /\ connected' \in BOOLEAN /\ LibraryType(library')
                 /\ \A d \in Client : library'[d].queue = library[d].queue
        BY <2>1, <2>3 DEF LibraryType
    <2>4. CASE client' = None /\ UNCHANGED <<connected, library>>
        BY <2>1, <2>4
    <2> QED
        BY <2>2, <2>3, <2>4 DEF Reconnect, Connect
<1>4. ~closed
    BY <1>1, ClosedStops DEF CallPlace, At
<1>5. Steps(t)
    BY <1>1, <1>2, <1>4, GoSteps DEF CallPlace
<1> QED
    BY <1>2, <1>3, <1>5, ThreadStep DEF IInv, TypeInv

LEMMA EndAttemptIInv ==
    ASSUME NativeAssumption, GeoClientAssumption, IInv, QuietClose, NEW t \in Thread,
           Woken(t) \/ TimesOut(t) \/ Evicted(t)
    PROVE  IInv'
<1>1. UNCHANGED <<contextVars, packets, executed, library, closed>>
    BY DEF Woken, TimesOut, Evicted, MarkEvicted, nativeVars, contextVars
<1>2. client' \in Client \cup {None} /\ connected' \in BOOLEAN
    BY DEF IInv, TypeInv, Woken, TimesOut, Evicted, MarkEvicted, nativeVars, connectionVars
<1>3. Steps(t)
    <2>1. CASE Woken(t)
        <3> DEFINE p == call[t].packet
        <3>1. call[t].at = "wait" /\ result[p] # None
            BY <2>1 DEF Woken, EventSet, At
        <3>2. p \in Packet /\ result[p].status \in Status /\ p \in Submitted
            BY <3>1 DEF IInv, Places, TypeInv, Submitted, Packet, NativeAssumption
        <3>3. CASE EndAttempt(t, result[p].status)
            <4>1. result[p].status = "OK" => p \in Executed
                BY <3>1, <3>2 DEF IInv, AnswerInv
            <4> QED
                BY <1>1, <3>1, <3>2, <3>3, <4>1, EndAttemptSteps
        <3>4. CASE Go(t, "evicted") /\ UNCHANGED returned
            <4>1. ~closed
                BY <3>1, ClosedStops DEF CallPlace, At
            <4> QED
                BY <1>1, <3>1, <3>2, <3>4, <4>1, GoSteps DEF CallPlace
        <3> QED
            BY <2>1, <3>3, <3>4 DEF Woken
    <2>2. CASE TimesOut(t)
        BY <1>1, <2>2, EndAttemptSteps DEF TimesOut, At
    <2>3. CASE Evicted(t)
        BY <1>1, <2>3, EndAttemptSteps DEF Evicted, At, Status
    <2> QED
        BY <2>1, <2>2, <2>3
<1>4. LibraryType(library') /\ closed' \in BOOLEAN
    BY <1>1 DEF IInv, TypeInv, LibraryType
<1> QED
    BY <1>1, <1>2, <1>3, <1>4, ThreadStep

-----------------------------------------------------------------------------
(* The steps of close *)

LEMMA CloseIInv ==
    ASSUME NativeAssumption, GeoClientAssumption, IInv, QuietClose, NEW t \in Thread,
           Close(t) \/ Snapshot(t)
    PROVE  IInv'
<1>1. UNCHANGED <<nativeVars, closed, returned>>
    BY DEF Close, Snapshot
<1>2. call[t] \in CallRecord /\ call[t].at \notin CallPlace /\ call[t].operation = None
    BY DEF IInv, TypeInv, Places, Close, Snapshot, At, CallPlace
<1>3. \E r \in CallRecord : /\ call' = [call EXCEPT ![t] = r]
                            /\ r.at \in ClosePlace /\ r.operation = None
    <2>1. CASE Close(t)
        <3>1. PICK place \in {"snapshot", "closing"} : Go(t, place)
            BY <2>1 DEF Close
        <3> DEFINE r == [call[t] EXCEPT !.at = place]
        <3>2. r \in CallRecord /\ r.at \in ClosePlace /\ r.operation = None
            BY <1>2 DEF CallRecord, ClosePlace
        <3>3. call' = [call EXCEPT ![t] = r]
            BY <3>1 DEF Go
        <3> QED
            BY <3>2, <3>3
    <2>2. CASE Snapshot(t)
        <3>1. PendingEvents \in SUBSET Packet
            BY DEF PendingEvents, Inflight, IInv, TypeInv
        <3> DEFINE r == [call[t] EXCEPT !.at = "drain", !.pending = PendingEvents]
        <3>2. r \in CallRecord /\ r.at \in ClosePlace /\ r.operation = None
            BY <1>2, <3>1 DEF CallRecord, ClosePlace
        <3>3. call' = [call EXCEPT ![t] = r]
            BY <2>2 DEF Snapshot
        <3> QED
            BY <3>2, <3>3
    <2> QED
        BY <2>1, <2>2
<1>4. Steps(t)
    BY <1>1, <1>2, <1>3, CloseSteps
<1> QED
    BY <1>1, <1>4, ThreadStep DEF nativeVars, connectionVars, IInv, TypeInv, LibraryType

LEMMA SetClosedIInv ==
    ASSUME NativeAssumption, GeoClientAssumption, IInv, QuietClose, NEW t \in Thread, SetClosed(t)
    PROVE  IInv'
<1>1. call[t].at = "closing" /\ closed' = TRUE /\ UNCHANGED <<nativeVars, returned>>
    BY DEF SetClosed, At
<1>2. call[t] \in CallRecord /\ DOMAIN call = Thread /\ DOMAIN returned = Thread
    BY DEF IInv, TypeInv
<1> DEFINE r == [NoCall EXCEPT !.number = call[t].number]
<1>3. r \in CallRecord /\ r.at = "idle" /\ r.operation = None
    BY <1>2 DEF NoCall, CallRecord
<1>4. call' = [call EXCEPT ![t] = r]
    BY DEF SetClosed
<1> HIDE DEF r
<1>5. call' \in [Thread -> CallRecord] /\ call'[t] = r /\ \A u \in Thread \ {t} : call'[u] = call[u]
    BY <1>2, <1>3, <1>4 DEF IInv, TypeInv
<1>6. Moves(t)
    BY <1>1, <1>3, <1>5 DEF Moves, CallPlace, At
<1>7. Steps(t)
    BY <1>1, <1>2, <1>3, <1>5, <1>6 DEF Steps
<1> QED
    BY <1>1, <1>7, ThreadStep DEF nativeVars, connectionVars, IInv, TypeInv, LibraryType

-----------------------------------------------------------------------------
(* The steps that create and hand over a packet *)

LEMMA SubmitIInv ==
    ASSUME NativeAssumption, GeoClientAssumption, IInv, QuietClose, NEW t \in Thread, Submit(t)
    PROVE  IInv'
<1>1. call[t].at = "register" /\ closed' = closed
    BY DEF Submit, At
<1>2. call[t] \in CallRecord /\ DOMAIN call = Thread /\ DOMAIN returned = Thread
    BY DEF IInv, TypeInv
<1>3. ~closed
    BY <1>1, ClosedStops DEF CallPlace, At
<1>4. Open
    BY <1>1, <1>3 DEF IInv, ClosedInv, ClosePlace
<1>5. CASE Return(t, "not connected") /\ UNCHANGED <<nativeVars, call_of>>
    <2>1. Steps(t)
        BY <1>1, <1>5, ReturnSteps DEF CallPlace
    <2> QED
        BY <1>1, <1>5, <2>1, ThreadStep DEF nativeVars, connectionVars, IInv, TypeInv, LibraryType
<1>6. CASE /\ Register(t, call[t].operation)
           /\ call' = [call EXCEPT ![t].at = "hand_over", ![t].packet = NewPacket]
           /\ UNCHANGED returned
    <2> DEFINE p == NewPacket
               g == FreeTag
               r == [call[t] EXCEPT !.at = "hand_over", !.packet = p]
    <2>1. UNCHANGED <<client, connected, result, library, executed, returned, closed>>
        BY <1>1, <1>6 DEF Register, connectionVars
    <2>2. Len(packets) \in Nat /\ p = Len(packets) + 1 /\ p \in Packet /\ p \notin Submitted /\ p # None
        BY <1>6 DEF Register, NewPacket, Packet, Submitted, IInv, TypeInv, NativeAssumption
    <2>3. g \in Tag /\ inflight[g] = None
        BY <1>6, FreeTagIsFree DEF Register, IInv
    <2>4. call[t].operation \in Operation
        BY <1>1, <1>2 DEF IInv, Places, CallPlace, CallRecord
    <2>5. packets' = Append(packets, [tag |-> g, operation |-> call[t].operation])
        BY <1>6 DEF Register
    <2>6. inflight' = [inflight EXCEPT ![g] = p]
        BY <1>6 DEF Register
    <2>7. next_tag' \in Tag
        BY <1>6, <2>3 DEF Register, After, Tag, NativeAssumption
    <2>8. r \in CallRecord /\ r.at = "hand_over" /\ r.packet = p /\ r.operation = call[t].operation
        <3> HIDE DEF p
        <3> QED
            BY <1>2, <2>2 DEF CallRecord, CallPlace
    <2>9. call' = [call EXCEPT ![t] = r]
        BY <1>2, <1>6 DEF CallRecord
    <2> HIDE DEF r, g, p
    <2>10. packets' \in Seq([tag : Tag, operation : Operation]) /\ Len(packets') = p /\ packets'[p].tag = g
           /\ \A q \in Submitted : packets'[q] = packets[q]
        BY <2>2, <2>3, <2>4, <2>5 DEF IInv, TypeInv, Submitted
    <2>11. Submitted \subseteq Submitted' /\ p \in Submitted'
        BY <2>2, <2>10 DEF Submitted
    <2>12. call' \in [Thread -> CallRecord] /\ call'[t] = r /\ \A u \in Thread \ {t} : call'[u] = call[u]
        BY <1>2, <2>8, <2>9 DEF IInv, TypeInv
    <2>13. TypeInv'
        <3>1. inflight' \in [Tag -> Packet \cup {None}]
            BY <2>2, <2>3, <2>6 DEF IInv, TypeInv
        <3>2. Len(packets') <= PacketMax
            BY <2>2, <2>10 DEF Packet
        <3>3. library' \in [Client -> [state : {"unused", "running", "evicted", "down"},
                                       queue : SUBSET Submitted']]
            BY <2>1, <2>11 DEF IInv, TypeInv
        <3> QED
            BY <2>1, <2>7, <2>10, <2>12, <3>1, <3>2, <3>3 DEF IInv, TypeInv
    <2>14. Moves(t)
        <3>1. call[t].operation # None
            BY <1>1 DEF IInv, Places, CallPlace
        <3> QED
            BY <1>1, <1>3, <2>8, <2>11, <2>12, <3>1 DEF Moves, CallPlace, ClosePlace
    <2>15. Places' /\ ClosedInv' /\ (Open' => Open)
        BY <2>11, <2>14, ThreadMoves
    <2>16. OnePlace'
        <3>1. \A c \in Client : p \notin library[c].queue
            BY <2>2 DEF IInv, TypeInv
        <3>2. \A u \in Thread : At(u, "hand_over") => call[u].packet # p
            BY <2>2 DEF IInv, Places, At
        <3> QED
            BY <2>1, <2>8, <2>12, <3>1, <3>2 DEF IInv, OnePlace, At
    <2>17. Outstanding' \subseteq Outstanding \cup {p}
        <3>1. \A q \in Outstanding' : q \in Submitted \/ q = p
            BY <2>2, <2>10 DEF Outstanding, Submitted
        <3> QED
            BY <2>1, <2>8, <2>12, <3>1 DEF Outstanding, At
    <2>18. TagInv'
        <3>1. inflight'[packets'[p].tag] = p
            BY <2>3, <2>6, <2>10 DEF IInv, TypeInv
        <3>2. ASSUME NEW q \in Outstanding PROVE inflight'[packets'[q].tag] = q
            <4>1. q \in Submitted /\ packets'[q] = packets[q] /\ packets[q].tag \in Tag /\ q # None
                BY <2>10, OutstandingType DEF IInv, NativeAssumption, Packet
            <4>2. inflight[packets[q].tag] = q
                BY <1>4 DEF IInv, TagInv
            <4>3. packets[q].tag # g
                BY <2>3, <4>1, <4>2
            <4> QED
                BY <2>3, <2>6, <4>1, <4>2, <4>3 DEF IInv, TypeInv
        <3> QED
            BY <2>17, <3>1, <3>2 DEF TagInv
    <2>19. AnswerInv'
        BY <2>1 DEF IInv, AnswerInv, OwnAnswer, AnsweredIsExecuted, Executed
    <2> QED
        BY <2>13, <2>15, <2>16, <2>18, <2>19 DEF IInv
<1> QED
    BY <1>5, <1>6 DEF Submit

LEMMA HandIInv ==
    ASSUME NativeAssumption, GeoClientAssumption, IInv, QuietClose, NEW t \in Thread, Hand(t)
    PROVE  IInv'
<1> DEFINE p == call[t].packet
<1>1. call[t].at = "hand_over" /\ Go(t, "wait") /\ HandOver(t, p)
    BY DEF Hand, At
<1>2. UNCHANGED <<client, connected, next_tag, packets, executed, closed, returned>>
    BY DEF Hand, HandOver, connectionVars
<1>3. p \in Submitted /\ p \in Outstanding /\ \A c \in Client : p \notin library[c].queue
    BY <1>1 DEF IInv, Places, OnePlace, Outstanding, At
<1>4. ~closed
    BY <1>1, ClosedStops DEF CallPlace, At
<1>5. Steps(t)
    BY <1>1, <1>2, <1>3, <1>4, GoSteps DEF CallPlace
<1>6. Submitted' = Submitted
    BY <1>2 DEF Submitted
<1>7. Places' /\ ClosedInv' /\ (Open' => Open)
    BY <1>5, <1>6, ThreadMoves DEF Steps
<1>8. call'[t].at = "wait" /\ \A u \in Thread \ {t} : call'[u] = call[u]
    BY <1>1, <1>5 DEF Go, Steps, Moves, IInv, TypeInv, CallRecord
<1>9. CASE /\ library' = [library EXCEPT ![client].queue = @ \cup {p}]
           /\ UNCHANGED <<inflight, result>>
    <2>1. LibraryType(library')
        BY <1>3, <1>9 DEF IInv, TypeInv, LibraryType
    <2>2. \A c \in Client : \/ library'[c].queue = library[c].queue
                            \/ c = client /\ library'[c].queue = library[c].queue \cup {p}
        BY <1>9 DEF IInv, TypeInv
    <2> HIDE <1>9 DEF p
    <2>3. OnePlace'
        <3>1. \A c, d \in Client : c # d => library'[c].queue \cap library'[d].queue = {}
            BY <1>3, <2>2 DEF IInv, OnePlace
        <3>2. ASSUME NEW u \in Thread, At(u, "hand_over")'
              PROVE  /\ \A c \in Client : call'[u].packet \notin library'[c].queue
                     /\ \A v \in Thread :
                            At(v, "hand_over")' /\ call'[v].packet = call'[u].packet => v = u
            <4>1. u # t /\ At(u, "hand_over") /\ call'[u] = call[u] /\ call[u].packet # p
                BY <1>1, <1>8, <3>2 DEF IInv, OnePlace, At, p
            <4> QED
                BY <1>8, <2>2, <4>1 DEF IInv, OnePlace, At
        <3> QED
            BY <3>1, <3>2 DEF OnePlace
    <2>4. Outstanding' \subseteq Outstanding
        BY <1>3, <1>6, <1>8, <2>2 DEF Outstanding, At
    <2>5. TagInv'
        BY <1>2, <1>7, <1>9, <2>4 DEF IInv, TagInv
    <2>6. AnswerInv'
        BY <1>2, <1>9 DEF IInv, AnswerInv, OwnAnswer, AnsweredIsExecuted, Executed
    <2>7. TypeInv'
        BY <1>2, <1>5, <1>6, <1>9, <2>1 DEF IInv, TypeInv, LibraryType, Steps, Moves
    <2> QED
        BY <1>7, <2>3, <2>5, <2>6, <2>7 DEF IInv
<1>10. CASE OnCompletion({p}, "CLIENT_EVICTED") /\ UNCHANGED library
    <2>1. OnePlace'
        BY <1>8, <1>10 DEF IInv, OnePlace, At
    <2>2. Outstanding' \subseteq Outstanding \ {p}
        BY <1>1, <1>3, <1>6, <1>8, <1>10 DEF IInv, OnePlace, Outstanding, At
    <2>3. /\ inflight' \in [Tag -> Packet \cup {None}]
          /\ result' \in [Packet -> {None} \cup [status : Status, answers : Packet]]
          /\ TagInv'
          /\ OwnAnswer'
          /\ \A q \in Packet : result'[q] # None /\ result'[q].status = "OK" => q \in Executed'
        BY <1>2, <1>3, <1>7, <1>10, <2>2, CompletionStep DEF Status
    <2>4. AnswerInv'
        BY <1>2, <2>3 DEF IInv, AnswerInv, AnsweredIsExecuted, Executed
    <2>5. TypeInv'
        BY <1>2, <1>5, <1>6, <1>10, <2>3 DEF IInv, TypeInv, Steps, Moves
    <2> QED
        BY <1>7, <2>1, <2>3, <2>4, <2>5 DEF IInv
<1> QED
    BY <1>1, <1>9, <1>10 DEF HandOver

-----------------------------------------------------------------------------
(* The steps of the library, and the end of disconnect *)

\* An instance completes some of its packets.
LEMMA QueueCompletes ==
    ASSUME NativeAssumption, IInv, Open' => Open, UNCHANGED <<packets, executed>>,
           NEW c \in Client, NEW ps \in SUBSET library[c].queue, NEW status \in Status,
           OnCompletion(ps, status), status = "OK" => ps \subseteq Executed,
           \A d \in Client : library'[d].queue = library[d].queue \ (IF d = c THEN ps ELSE {}),
           \A t \in Thread : At(t, "hand_over")' =>
                At(t, "hand_over") /\ call'[t].packet = call[t].packet,
           \A t \in Thread : returned'[t] = returned[t]
    PROVE  /\ inflight' \in [Tag -> Packet \cup {None}]
           /\ result' \in [Packet -> {None} \cup [status : Status, answers : Packet]]
           /\ OnePlace' /\ TagInv' /\ AnswerInv'
<1>1. OnePlace'
    BY DEF IInv, OnePlace
<1>2. ps \subseteq Outstanding
    BY DEF Outstanding, IInv, TypeInv
<1>3. Outstanding' \subseteq Outstanding \ ps
    <2>1. Submitted' = Submitted
        BY DEF Submitted
    <2> QED
        BY <2>1 DEF IInv, OnePlace, Outstanding
<1>4. /\ inflight' \in [Tag -> Packet \cup {None}]
      /\ result' \in [Packet -> {None} \cup [status : Status, answers : Packet]]
      /\ TagInv'
      /\ OwnAnswer'
      /\ \A q \in Packet : result'[q] # None /\ result'[q].status = "OK" => q \in Executed'
    BY <1>2, <1>3, CompletionStep
<1>5. AnswerInv'
    BY <1>4 DEF IInv, AnswerInv, AnsweredIsExecuted, Executed
<1> QED
    BY <1>1, <1>4, <1>5

LEMMA LibraryIInv ==
    ASSUME NativeAssumption, IInv, NEW c \in Client, LibraryStep(c), UNCHANGED sdkVars
    PROVE  IInv'
<1>1. UNCHANGED <<connectionVars, packets, next_tag, closed, call, returned>>
    BY DEF LibraryStep, ClusterExecutes, LibraryCompletes, LibraryEvicted, contextVars, sdkVars
<1>2. Submitted' = Submitted /\ (Open' <=> Open) /\ Places' /\ ClosedInv'
    BY <1>1 DEF IInv, Submitted, Open, Places, ClosedInv, At
<1>3. \A t \in Thread : (At(t, "hand_over")' <=> At(t, "hand_over")) /\ call'[t].packet = call[t].packet
    BY <1>1 DEF At
<1>4. CASE ClusterExecutes(c)
    <2>1. PICK p \in library[c].queue : executed' = Append(executed, p)
        BY <1>4 DEF ClusterExecutes
    <2>2. UNCHANGED <<inflight, result, library>>
        BY <1>4 DEF ClusterExecutes, contextVars
    <2>3. p \in Packet
        BY DEF IInv, TypeInv, Submitted, Packet, NativeAssumption
    <2>4. executed' \in Seq(Packet) /\ Executed \subseteq Executed'
        <3>1. executed \in Seq(Packet)
            BY DEF IInv, TypeInv
        <3>2. executed' \in Seq(Packet) /\ Len(executed') = Len(executed) + 1
              /\ \A i \in 1..Len(executed) : executed'[i] = executed[i]
            BY <2>1, <2>3, <3>1
        <3>3. DOMAIN executed = 1..Len(executed) /\ DOMAIN executed' = 1..Len(executed) + 1
              /\ Len(executed) \in Nat
            BY <3>1, <3>2
        <3> QED
            BY <3>2, <3>3 DEF Executed, ToSet
    <2>5. TypeInv'
        BY <1>1, <1>2, <2>2, <2>4 DEF IInv, TypeInv, connectionVars
    <2>6. OnePlace' /\ TagInv'
        BY <1>1, <1>2, <1>3, <2>2 DEF IInv, OnePlace, TagInv, Outstanding
    <2>7. AnswerInv'
        <3>1. result' = result /\ returned' = returned
            BY <1>1, <2>2
        <3>2. OwnAnswer'
            BY <3>1 DEF IInv, AnswerInv, OwnAnswer
        <3>3. \A q \in Packet : result'[q] # None /\ result'[q].status = "OK" => q \in Executed'
            BY <2>4, <3>1 DEF IInv, AnswerInv
        <3>4. AnsweredIsExecuted'
            BY <2>4, <3>1 DEF IInv, AnswerInv, AnsweredIsExecuted, Executed
        <3> QED
            BY <3>2, <3>3, <3>4 DEF AnswerInv
    <2> QED
        BY <1>2, <2>5, <2>6, <2>7 DEF IInv
<1>5. CASE LibraryCompletes(c)
    <2>1. PICK p \in library[c].queue \cap Executed :
                OnCompletion({p}, "OK") /\ library' = [library EXCEPT ![c].queue = @ \ {p}]
        BY <1>5 DEF LibraryCompletes
    <2>2. executed' = executed
        BY <1>5 DEF LibraryCompletes
    <2>3. LibraryType(library')
          /\ \A d \in Client : library'[d].queue = library[d].queue \ (IF d = c THEN {p} ELSE {})
        <3>1. LibraryType(library)
            BY DEF IInv, TypeInv, LibraryType
        <3>2. library' = [library EXCEPT ![c].queue = library[c].queue \ {p}]
            BY <2>1
        <3>3. LibraryType(library')
            BY <3>1, <3>2 DEF LibraryType
        <3>4. \A d \in Client : library'[d].queue = library[d].queue \ (IF d = c THEN {p} ELSE {})
            BY <3>1, <3>2 DEF LibraryType
        <3> QED
            BY <3>3, <3>4
    <2>4. /\ inflight' \in [Tag -> Packet \cup {None}]
          /\ result' \in [Packet -> {None} \cup [status : Status, answers : Packet]]
          /\ OnePlace' /\ TagInv' /\ AnswerInv'
        BY <1>1, <1>2, <1>3, <2>1, <2>2, <2>3, QueueCompletes DEF Status
    <2>5. TypeInv'
        BY <1>1, <1>2, <2>2, <2>3, <2>4 DEF IInv, TypeInv, LibraryType, connectionVars
    <2> QED
        BY <1>2, <2>4, <2>5 DEF IInv
<1>6. CASE LibraryEvicted(c)
    <2>1. OnCompletion(library[c].queue, "CLIENT_EVICTED") /\ executed' = executed
          /\ library' = [library EXCEPT ![c] = [state |-> "evicted", queue |-> {}]]
        BY <1>6 DEF LibraryEvicted
    <2>2. LibraryType(library')
          /\ \A d \in Client :
                library'[d].queue = library[d].queue \ (IF d = c THEN library[c].queue ELSE {})
        BY <2>1 DEF IInv, TypeInv, LibraryType
    <2>3. /\ inflight' \in [Tag -> Packet \cup {None}]
          /\ result' \in [Packet -> {None} \cup [status : Status, answers : Packet]]
          /\ OnePlace' /\ TagInv' /\ AnswerInv'
        BY <1>1, <1>2, <1>3, <2>1, <2>2, QueueCompletes DEF Status
    <2>4. TypeInv'
        BY <1>1, <1>2, <2>1, <2>2, <2>3 DEF IInv, TypeInv, LibraryType, connectionVars
    <2> QED
        BY <1>2, <2>3, <2>4 DEF IInv
<1> QED
    BY <1>4, <1>5, <1>6 DEF LibraryStep

\* The thread that closes the client goes on.
LEMMA CloserGoes ==
    ASSUME IInv, NEW t \in Thread, call[t].at \in ClosePlace, UNCHANGED <<closed, returned>>,
           NEW place \in ClosePlace, Go(t, place)
    PROVE  Steps(t)
<1>1. call[t] \in CallRecord /\ call[t].at \notin CallPlace /\ call[t].operation = None
    BY DEF IInv, TypeInv, Places, CallPlace, ClosePlace
<1> DEFINE r == [call[t] EXCEPT !.at = place]
<1>2. r \in CallRecord /\ r.at \in ClosePlace /\ r.operation = None
    BY <1>1 DEF CallRecord, ClosePlace
<1>3. call' = [call EXCEPT ![t] = r]
    BY DEF Go
<1> QED
    BY <1>1, <1>2, <1>3, CloseSteps

LEMMA DrainIInv ==
    ASSUME NativeAssumption, GeoClientAssumption, IInv, QuietClose, NEW t \in Thread, Drain(t)
    PROVE  IInv'
<1>1. call[t].at = "drain" /\ UNCHANGED <<closed, returned>>
    BY DEF Drain, At
<1>2. \E place \in ClosePlace : Go(t, place)
    BY DEF Drain, ClosePlace
<1>3. Steps(t)
    BY <1>1, <1>2, CloserGoes DEF ClosePlace
<1>4. CASE UNCHANGED nativeVars
    BY <1>1, <1>3, <1>4, ThreadStep DEF nativeVars, connectionVars, IInv, TypeInv, LibraryType
<1>5. CASE client # None /\ Deinit(call[t].pending)
    <2>1. connected' = FALSE /\ client' = None /\ UNCHANGED <<next_tag, packets, executed>>
        BY <1>5 DEF Deinit
    <2>2. CASE UNCHANGED <<inflight, result, library>>
        BY <1>1, <1>3, <2>1, <2>2, ThreadStep DEF contextVars, IInv, TypeInv, LibraryType
    <2>3. CASE /\ OnCompletion(library[client].queue, "CLIENT_SHUTDOWN")
               /\ library' = [library EXCEPT ![client] = [state |-> "down", queue |-> {}]]
        <3>1. client \in Client
            BY <1>5 DEF IInv, TypeInv
        <3>2. LibraryType(library) /\ Submitted' = Submitted
            BY <2>1 DEF IInv, TypeInv, LibraryType, Submitted
        <3>3. LibraryType(library')
            BY <2>3, <3>2 DEF LibraryType
        <3>4. \A d \in Client :
                library'[d].queue = library[d].queue \ (IF d = client THEN library[client].queue ELSE {})
            BY <2>3, <3>2 DEF LibraryType
        <3>5. Places' /\ ClosedInv' /\ (Open' => Open)
            BY <1>3, <3>2, ThreadMoves DEF Steps
        <3>6. \A u \in Thread : At(u, "hand_over")' =>
                    At(u, "hand_over") /\ call'[u].packet = call[u].packet
            BY <1>3 DEF Steps, Moves, At
        <3>7. /\ inflight' \in [Tag -> Packet \cup {None}]
              /\ result' \in [Packet -> {None} \cup [status : Status, answers : Packet]]
              /\ OnePlace' /\ TagInv' /\ AnswerInv'
            BY <1>1, <2>1, <2>3, <3>1, <3>4, <3>5, <3>6, QueueCompletes DEF Status
        <3>8. TypeInv'
            BY <1>1, <1>3, <2>1, <3>2, <3>3, <3>7 DEF IInv, TypeInv, LibraryType, Steps, Moves
        <3> QED
            BY <3>5, <3>7, <3>8 DEF IInv
    <2> QED
        BY <1>5, <2>2, <2>3 DEF Deinit
<1> QED
    BY <1>4, <1>5 DEF Drain, Disconnectable

LEMMA ClearIInv ==
    ASSUME NativeAssumption, GeoClientAssumption, IInv, QuietClose, NEW t \in Thread, Clear(t)
    PROVE  IInv'
<1>1. call[t].at = "clear" /\ Go(t, "closing") /\ UNCHANGED <<closed, returned>>
    BY DEF Clear, At
<1>2. /\ inflight' = [g \in Tag |-> None]
      /\ UNCHANGED <<client, connected, next_tag, packets, result, library, executed>>
    BY DEF Clear, ClearInflight, connectionVars
<1>3. Steps(t)
    BY <1>1, CloserGoes DEF ClosePlace
<1>4. Submitted' = Submitted
    BY <1>2 DEF Submitted
<1>5. Places' /\ ClosedInv'
    BY <1>3, <1>4, ThreadMoves DEF Steps
<1>6. ~Open'
    <2>1. call'[t].at = "closing"
        BY <1>1 DEF Go, IInv, TypeInv, CallRecord
    <2> QED
        BY <2>1 DEF Open, ClosePlace
<1>7. TypeInv'
    BY <1>2, <1>1, <1>3, <1>4 DEF IInv, TypeInv, Steps, Moves
<1>8. OnePlace' /\ Outstanding' \subseteq Outstanding
    BY <1>2, <1>3, <1>4 DEF IInv, OnePlace, Outstanding, At, Steps, Moves
<1>9. TagInv'
    <2>1. \A p \in Outstanding : packets[p].tag \in Tag
        BY OutstandingType DEF IInv
    <2> QED
        BY <1>2, <1>6, <1>8, <2>1 DEF TagInv
<1>10. AnswerInv'
    BY <1>1, <1>2 DEF IInv, AnswerInv, OwnAnswer, AnsweredIsExecuted, Executed
<1> QED
    BY <1>5, <1>7, <1>8, <1>9, <1>10 DEF IInv

-----------------------------------------------------------------------------
LEMMA NextIInv ==
    ASSUME NativeAssumption, GeoClientAssumption, IInv, Next, QuietClose
    PROVE  IInv'
<1>1. ASSUME NEW t \in Thread, CallStep(t) PROVE IInv'
    BY <1>1, AttemptIInv, ReconnectIInv, SubmitIInv, HandIInv, EndAttemptIInv DEF CallStep
<1>2. ASSUME NEW t \in Thread, CloseStep(t) PROVE IInv'
    BY <1>2, CloseIInv, DrainIInv, ClearIInv, SetClosedIInv DEF CloseStep
<1> QED
    BY <1>1, <1>2, CallIInv, CloseIInv, LibraryIInv DEF Next

LEMMA StutterIInv == IInv /\ UNCHANGED vars => IInv'
BY DEF vars, nativeVars, connectionVars, contextVars, sdkVars, IInv, TypeInv, Submitted, Places,
       OnePlace, TagInv, Outstanding, Open, ClosedInv, AnswerInv, OwnAnswer, AnsweredIsExecuted,
       Executed, At

\* The invariant holds of a client that is closed quietly.
THEOREM QuietInvariant == Spec /\ [][QuietClose]_vars => []IInv
<1> USE NativeAssumption, GeoClientAssumption
<1>1. Init => IInv
    BY InitIInv
<1>2. IInv /\ [Next]_vars /\ [QuietClose]_vars => IInv'
    BY NextIInv, StutterIInv
<1> QED
    BY <1>1, <1>2, PTL DEF Spec

\* A call that waits for its packet gets the answer to its own request, however many threads call,
\* however often tags are used again for requests that timed out and are answered late, and however
\* often the session is evicted and the client reconnects: on_completion and submit of _native.py.
\* It takes that the client is closed while no call is under way, since disconnect forgets the
\* contexts of packets after it has released the lock.
THEOREM CallsGetTheirAnswers == Spec /\ [][QuietClose]_vars => []OwnAnswer
<1>1. IInv => OwnAnswer
    BY DEF IInv, AnswerInv
<1> QED
    BY <1>1, QuietInvariant, PTL

\* A call returns an answer only after the cluster executed the packet of its last attempt.
THEOREM AnswersAreExecuted == Spec /\ [][QuietClose]_vars => []AnsweredIsExecuted
<1>1. IInv => AnsweredIsExecuted
    BY DEF IInv, AnswerInv
<1> QED
    BY <1>1, QuietInvariant, PTL
=============================================================================
