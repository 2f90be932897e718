------------------------------ MODULE MCReplica ------------------------------
(***************************************************************************)
(* The durable parts of one replica that do not act on each other's state, *)
(* side by side in one run: its superblock, and the sessions of a cluster  *)
(* of one replica.  A behaviour is one of a single part, and the           *)
(* properties of the other hold of its initial state.                      *)
(***************************************************************************)
EXTENDS Superblock, SoloSessions

VARIABLE part

replicaVars == <<part, vars, clusterVars>>

ReplicaInit ==
    /\ part \in {"superblock", "sessions"}
    /\ Init /\ SoloInit

ReplicaNext ==
    /\ UNCHANGED part
    /\ IF part = "superblock" THEN Next ELSE UNCHANGED vars
    /\ IF part = "sessions" THEN SoloNext ELSE UNCHANGED clusterVars

ReplicaSpec == ReplicaInit /\ [][ReplicaNext]_replicaVars
=============================================================================
