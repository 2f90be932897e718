----------------------------- MODULE MCSessions -----------------------------
(***************************************************************************)
(* Small instances of SessionCluster for TLC: one client makes requests,   *)
(* and the others only register, which is what it takes to evict it.       *)
(***************************************************************************)
EXTENDS SessionCluster

CONSTANT Requester   \* the client that makes requests

OneRequester == \A m \in requests' : m.kind = "register" \/ m.client = Requester

\* A partition: the primary of view 0 does not hear of view 1, nor that of view 1 of the views
\* after it, and the others have no log before the view they are the primary of.
Partition == \A r \in Replica :
    /\ view'[r] # view[r] => ~(r = 0 /\ view'[r] = 1) /\ ~(r = 1 /\ view'[r] > 1)
    /\ r > 1 /\ view'[r] < r => log'[r] = <<>>

\* The views change once the primary of view 0 has prepared all it can, to 1 and to the last; before
\* that one no client hears of anything, and replicas reply to what they execute only.
Silence ==
    /\ \A r \in Replica : view'[r] > 0 => view'[r] \in {1, ViewMax} /\ Len(log'[0]) = OpMax
    /\ (\A r \in Replica : view'[r] < ViewMax) => \A c \in Client : client'[c].parent = None
    /\ evictions' = {} /\ (replies' # replies => commit_min' # commit_min)
=============================================================================
