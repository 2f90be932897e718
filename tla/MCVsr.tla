------------------------------- MODULE MCVsr --------------------------------
(***************************************************************************)
(* Small instances of Vsr for TLC.  Each configuration bounds operations,  *)
(* view changes and crashes; the action constraints below cut orders that  *)
(* a configuration does not ask about.                                     *)
(***************************************************************************)
EXTENDS Vsr

\* One operation and two view changes; or two operations, one view change and at most one rotten
\* prepare at a time: both operations of view 0, for the pipeline, with two crashes if it is the
\* second that is rotten; or the second of view 1, for chains across views, with one crash.
OpsOrViews ==
    \/ \A p \in prepared' : OpOf(p) = 1
    \/ LET crashed == Cardinality(Crashes')
           rotten == {c \in Replica \X Op : disk'[c[1]][c[2]] = Rotten}
       IN /\ \A r \in Replica : view'[r] <= 1
          /\ Cardinality(rotten) <= 1
          /\ \/ (\A p \in prepared' : ViewOf(p) = 0) /\ (crashed <= 1 \/ \A c \in rotten : c[2] = 2)
             \/ (\A p \in prepared' : OpOf(p) = 2 => p = <<0, 1>>) /\ crashed <= 1

\* A replica sends a DVC again only after it restarted or made a view durable; in between
\* a second DVC could only tell of more repairs than the first.
NoResend ==
    view' = view /\ durable' = durable /\ incarnation' = incarnation
        => do_view_changes' = do_view_changes
=============================================================================
