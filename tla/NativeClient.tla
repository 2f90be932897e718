---------------------------- MODULE NativeClient ----------------------------
(***************************************************************************)
(* The native client of the Python SDK (_native.py): threads that share    *)
(* one connection, packets they hand to the C library, and the completion  *)
(* callback that the library's I/O thread makes for each of them.          *)
(*                                                                         *)
(* The C library and the cluster are external: an instance of the library  *)
(* holds packets that the cluster executes, each once, until the cluster   *)
(* evicts its session or deinit shuts it down.  Those of one operation are *)
(* executed in order; it batches them, so that they may overtake others.   *)
(* It answers when it likes, or never.                                     *)
(***************************************************************************)
EXTENDS Naturals, Sequences, FiniteSets, SequencesExt

CONSTANTS Thread,      \* threads of the application
          TagMax,      \* tags are 1..TagMax; 0xFFFF in the code
          PacketMax,   \* bound: packets submitted
          ClientMax,   \* bound: library instances initialised
          None

ASSUME NativeAssumption ==
    /\ TagMax \in Nat \ {0} /\ PacketMax \in Nat /\ ClientMax \in Nat \ {0}
    /\ None \notin Nat /\ None \notin Thread

Tag == 1..TagMax
Packet == 1..PacketMax
Client == 1..ClientMax

VARIABLES client,       \* _client: the library instance in use, or None
          connected,    \* _connected
          lock,         \* _lock: the thread that holds it from one step to the next, or None
          inflight,     \* _inflight: tag -> the packet of its context, or None
          next_tag,     \* _next_tag
          packets,      \* the packets created so far: user_tag and operation
          result,       \* the result in the context of a packet, once its event is set
          library,      \* state and packets of the library instances (external)
          executed      \* the packets that the cluster executed, in order (external)

connectionVars == <<client, connected>>
contextVars == <<inflight, next_tag, packets, result>>
nativeVars == <<connectionVars, lock, contextVars, library, executed>>

\* Connected: the constructor of GeoClientSync fails if connect does.
NativeInit ==
    /\ client = 1 /\ connected = TRUE /\ lock = None
    /\ inflight = [g \in Tag |-> None] /\ next_tag = 1
    /\ packets = <<>> /\ result = [p \in Packet |-> None]
    /\ library = [c \in Client |-> [state |-> IF c = 1 THEN "running" ELSE "unused", queue |-> {}]]
    /\ executed = <<>>

NewPacket == Len(packets) + 1
Unlocked == lock = None
EventSet(p) == result[p] # None
Inflight == {inflight[g] : g \in Tag} \ {None}

-----------------------------------------------------------------------------
(* The completion callback *)

\* on_completion for a set of packets, one after the other: the context in the map under the tag
\* of the packet is taken out, the status and the answer (here: the packet it answers) go into its
\* result, and its event is set.  (With no context there, the code looks for the packet's address
\* under the other tags; a packet's context is under its own tag or no longer in the map.)
OnCompletion(ps, status) ==
    LET Finds(p, q) == inflight[packets[p].tag] = q
    IN /\ inflight' = [g \in Tag |-> IF \E p \in ps : packets[p].tag = g THEN None ELSE inflight[g]]
       /\ result' = [q \in Packet |->
              IF \E p \in ps : Finds(p, q)
              THEN [status |-> status, answers |-> CHOOSE p \in ps : Finds(p, q)]
              ELSE result[q]]

-----------------------------------------------------------------------------
(* The library and the cluster *)

Running(c) == library[c].state = "running"
Executed == ToSet(executed)

\* The cluster executes a packet of an instance, the next of its operation, once, however often
\* the library sends it.
ClusterExecutes(c) ==
    /\ Running(c)
    /\ \E p \in library[c].queue \ Executed :
        /\ \A q \in library[c].queue \ Executed :
                packets[q].operation = packets[p].operation => p <= q
        /\ executed' = Append(executed, p)
    /\ UNCHANGED <<connectionVars, lock, contextVars, library>>

\* The I/O thread completes a packet that the cluster answered.
LibraryCompletes(c) ==
    /\ Running(c)
    /\ \E p \in library[c].queue \cap Executed :
        /\ OnCompletion({p}, "OK")
        /\ library' = [library EXCEPT ![c].queue = @ \ {p}]
    /\ UNCHANGED <<connectionVars, lock, next_tag, packets, executed>>

\* The session of an instance is evicted: its I/O thread cancels every packet and stops.
LibraryEvicted(c) ==
    /\ Running(c)
    /\ OnCompletion(library[c].queue, "CLIENT_EVICTED")
    /\ library' = [library EXCEPT ![c] = [state |-> "evicted", queue |-> {}]]
    /\ UNCHANGED <<connectionVars, lock, next_tag, packets, executed>>

LibraryStep(c) == ClusterExecutes(c) \/ LibraryCompletes(c) \/ LibraryEvicted(c)

-----------------------------------------------------------------------------
(* connect and disconnect *)

\* connect, holding _lock: nothing if connected, or else a new instance; or init fails, which
\* leaves a client that is never used, as _connected is false.
Connect ==
    \/ connected /\ UNCHANGED <<connectionVars, library>>
    \/ /\ ~connected
       /\ \E c \in Client :
            /\ library[c].state = "unused" /\ \A d \in Client : d < c => library[d].state # "unused"
            /\ client' = c /\ connected' = TRUE
            /\ library' = [library EXCEPT ![c].state = "running"]
    \/ ~connected /\ client' = None /\ UNCHANGED <<connected, library>>

\* The first lines of disconnect, and its second look after the wait.
Disconnectable == Unlocked /\ connected /\ client # None

\* The packets whose events disconnect waits for.
PendingEvents == {p \in Inflight : ~EventSet(p)}

\* The end of disconnect: with an event still not set after 30 seconds the instance is left to
\* itself, or else it is shut down, and everything it holds is completed.
Deinit(pending) ==
    /\ IF \A p \in pending : EventSet(p)
       THEN /\ OnCompletion(library[client].queue, "CLIENT_SHUTDOWN")
            /\ library' = [library EXCEPT ![client] = [state |-> "down", queue |-> {}]]
       ELSE UNCHANGED <<inflight, result, library>>
    /\ connected' = FALSE /\ client' = None
    /\ UNCHANGED <<lock, next_tag, packets, executed>>

\* The last line of disconnect, after _lock was released.
ClearInflight ==
    /\ inflight' = [g \in Tag |-> None]
    /\ UNCHANGED <<connectionVars, lock, next_tag, packets, result, library, executed>>

-----------------------------------------------------------------------------
(* submit and submit_bytes *)

After(g) == IF g = TagMax THEN 1 ELSE g + 1

\* Mutant of FreeTag: tags are not looked up among the requests in flight.
NextTag == next_tag

\* The first tag from next_tag on, or else from 1 on, that no request in flight has.
FreeTag ==
    LET free == {g \in Tag : inflight[g] = None}
        ahead == {g \in free : g >= next_tag}
    IN Min(IF ahead # {} THEN ahead ELSE free)

\* submit: a new packet and its context, in the map before the library has the packet.  The lock
\* stays with the thread.  (With every tag in flight the code looks for one for ever.)
Register(t, operation) ==
    /\ Unlocked /\ connected /\ client # None
    /\ Len(packets) < PacketMax /\ \E g \in Tag : inflight[g] = None
    /\ packets' = Append(packets, [tag |-> FreeTag, operation |-> operation])
    /\ inflight' = [inflight EXCEPT ![FreeTag] = NewPacket]
    /\ next_tag' = After(FreeTag)
    /\ lock' = t
    /\ UNCHANGED <<connectionVars, result, library, executed>>

\* arch_client_submit, and the lock is released.  An evicted instance has no I/O thread left and
\* cancels the packet on this thread.
HandOver(t, p) ==
    /\ lock = t /\ lock' = None
    /\ IF Running(client)
       THEN /\ library' = [library EXCEPT ![client].queue = @ \cup {p}]
            /\ UNCHANGED <<inflight, result>>
       ELSE OnCompletion({p}, "CLIENT_EVICTED") /\ UNCHANGED library
    /\ UNCHANGED <<connectionVars, next_tag, packets, executed>>

\* An evicted client is marked disconnected, whichever instance is in use by now.
MarkEvicted ==
    /\ Unlocked
    /\ connected' = FALSE /\ client' = None
    /\ UNCHANGED <<lock, contextVars, library, executed>>
=============================================================================
