----------------------------- MODULE VsrProofs -----------------------------
(***************************************************************************)
(* Proofs about Vsr for every number of replicas, every quorum size, every *)
(* bound.  First the order of a replica's views in memory and in its       *)
(* superblock, and what that guarantees of the messages it has sent.  Then *)
(* the types: prepares as sequences of views, the chain they are in, and   *)
(* that every slot, write, superblock and message is about prepares that   *)
(* were sent and has the op it is kept at.  Last the logs of one view: all *)
(* of them are beginnings of its primary's.                                *)
(***************************************************************************)
EXTENDS VsrInvariants, FiniteSetTheorems, SequenceTheorems, WellFoundedInduction, TLAPS

-----------------------------------------------------------------------------
(* The inductive invariant: the types of what the order is about, the order, and the messages. *)

Status == {"normal", "view_change", "recovering_head"}

ViewTypes ==
    /\ status \in [Replica -> Status]
    /\ view \in [Replica -> Nat]
    /\ log_view \in [Replica -> Nat]
    /\ dvc_quorum \in [Replica -> BOOLEAN]
    /\ durable = [r \in Replica |-> durable[r]]
    /\ \A r \in Replica : durable[r].view \in Nat /\ durable[r].log_view \in Nat
    /\ \A m \in start_views : m.view \in Nat

SentTypes ==
    /\ \A m \in prepare_oks : m.replica \in Replica /\ m.view \in Nat
    /\ \A m \in do_view_changes :
            m.replica \in Replica /\ m.view \in Nat /\ m.log_view \in Nat

\* What a replica sent is not ahead of what it is.
SentOrder ==
    /\ \A m \in prepare_oks : m.view <= log_view[m.replica]
    /\ \A m \in do_view_changes : m.view <= view[m.replica]

IInv == ViewTypes /\ ViewOrder /\ SentTypes /\ SentOrder /\ AdvertisedDurable
        /\ DoViewChangePromise

\* The primary of every view is a replica (primary_index).
LEMMA PrimaryIsReplica == \A v \in Nat : PrimaryIndex(v) \in Replica
  BY CountsAssumption DEF PrimaryIndex, Replica

\* The initial state is in order: view 0 everywhere, nothing sent.
LEMMA InitIInv == Init => IInv
  BY DEF Init, IInv, ViewTypes, Status, ViewOrder, SentTypes, SentOrder, DoViewChangePromise,
     AdvertisedDurable

-----------------------------------------------------------------------------
(* What a step of replica r may send, and what it may do to durable views. *)

Sends(r) ==
    /\ \A m \in prepare_oks' \ prepare_oks :
        /\ m.replica = r /\ m.view = view'[r] /\ status'[r] = "normal"
        /\ r = PrimaryIndex(view'[r]) \/ ViewDurable(r)'
    /\ \A m \in do_view_changes' \ do_view_changes :
        /\ m.replica = r /\ m.view = view'[r] /\ m.log_view = log_view'[r]
        /\ r = PrimaryIndex(view'[r]) \/ ViewDurable(r)'
    /\ \A m \in start_views' \ start_views :
        /\ m.view = view'[r] /\ log_view'[r] = view'[r]
        /\ r = PrimaryIndex(view'[r]) /\ ViewDurable(r)'

DurableGrows ==
    \A r \in Replica : durable[r].view <= durable'[r].view
                       /\ durable[r].log_view <= durable'[r].log_view

\* Views only grow, but for a crash, which takes with it what the replica told only itself.
ViewsGrow ==
    \A q \in Replica : view[q] <= view'[q] /\ log_view[q] <= log_view'[q]

Forgets(r) ==
    /\ \A q \in Replica \ {r} : view'[q] = view[q] /\ log_view'[q] = log_view[q]
    /\ \A m \in prepare_oks' :
            m.replica = r /\ r = PrimaryIndex(m.view) => m.view <= log_view'[r]
    /\ \A m \in do_view_changes' :
            m.replica = r /\ r = PrimaryIndex(m.view) => m.view = view'[r]

GoodStep(r) == /\ ViewTypes' /\ ViewOrder' /\ DurableGrows /\ Sends(r)
               /\ ViewsGrow \/ Forgets(r)

viewPart == <<status, view, log_view, dvc_quorum, durable>>
sentPart == <<prepare_oks, do_view_changes, start_views>>

\* A step that changes no view keeps them in order.
LEMMA SameViews ==
    ASSUME IInv, UNCHANGED viewPart, UNCHANGED start_views
    PROVE  ViewTypes' /\ ViewOrder' /\ DurableGrows /\ ViewsGrow
  BY DEF IInv, ViewTypes, ViewOrder, DurableGrows, ViewsGrow, viewPart

\* Normal operation and repair touch no view and, but for prepare_oks, send nothing that
\* advertises one.
LEMMA LogSteps ==
    ASSUME IInv, NEW r \in Replica,
           \/ OnRequest(r) \/ PrimaryCommit(r) \/ SendCommit(r) \/ CommitJournal(r)
           \/ \E p \in prepared : OnPrepare(r, p) \/ RepairHeader(r, p)
           \/ \E m \in commits : OnCommit(r, m)
    PROVE  GoodStep(r)
  <1>1. UNCHANGED <<viewPart, sentPart>>
    BY Zenon DEF OnRequest, PrimaryCommit, SendCommit, CommitJournal, OnPrepare, RepairHeader,
       OnCommit, viewPart, sentPart, viewVars, netVars
  <1> QED
    BY <1>1, SameViews DEF GoodStep, Sends, sentPart

\* on_headers and on_prepare that repair the log leave every view alone, and acknowledge only
\* in a view that is durable (repair_header, send_prepare_ok).
LEMMA OnRepairStep ==
    ASSUME IInv, NEW r \in Replica, NEW p, OnRepair(r, p)
    PROVE  GoodStep(r)
  <1>1. UNCHANGED <<viewPart, do_view_changes, start_views>>
    BY Zenon DEF OnRepair, viewPart, viewVars
  <1>2. prepare_oks' \subseteq prepare_oks \cup PrepareOks(r, {p})
    BY DEF OnRepair
  <1>3. Sends(r)
    BY <1>1, <1>2 DEF Sends, PrepareOks, ViewDurable, viewPart
  <1> QED
    BY <1>1, <1>3, SameViews DEF GoodStep

\* A finished WAL write acknowledges the prepare, if the view is durable (write_prepare_callback).
LEMMA WriteDoneStep ==
    ASSUME IInv, NEW r \in Replica, NEW o, WriteDone(r, o)
    PROVE  GoodStep(r)
  <1>1. UNCHANGED <<viewPart, do_view_changes, start_views>>
    BY Zenon DEF WriteDone, viewPart, viewVars
  <1>2. PICK p : prepare_oks' \subseteq prepare_oks \cup PrepareOks(r, {p})'
    BY DEF WriteDone
  <1>3. Sends(r)
    BY <1>1, <1>2 DEF Sends, PrepareOks
  <1> QED
    BY <1>1, <1>3, SameViews DEF GoodStep

-----------------------------------------------------------------------------
(* View changes. *)

\* send_do_view_change sends what the replica's next state is, if it is durable.
LEMMA SendDoViewChangeSends ==
    ASSUME NEW r \in Replica, SendDoViewChange(r), NEW m \in do_view_changes' \ do_view_changes
    PROVE  /\ m.replica = r /\ m.view = view'[r] /\ m.log_view = log_view'[r]
           /\ r = PrimaryIndex(view'[r]) \/ ViewDurable(r)'
  <1>1. m = DoViewChange(r)' /\ (r = PrimaryIndex(view[r])' \/ ViewDurable(r)')
    BY DEF SendDoViewChange
  <1> QED
    BY <1>1 DEF DoViewChange

\* Moving to a later view keeps log_view, and sends a DVC only from a durable view
\* (transition_to_view_change_status, send_do_view_change).
LEMMA ViewChangeToStep ==
    ASSUME IInv, NEW r \in Replica, NEW v \in Nat, view[r] < v, ViewChangeTo(r, v)
    PROVE  GoodStep(r)
  <1>1. /\ view' = [view EXCEPT ![r] = v]
        /\ status' = [status EXCEPT ![r] = "view_change"]
        /\ dvc_quorum' = [dvc_quorum EXCEPT ![r] = FALSE]
        /\ UNCHANGED <<log_view, durable, prepare_oks, start_views>>
        /\ SendDoViewChange(r)
    BY Zenon DEF ViewChangeTo
  <1>2. ViewTypes'
    BY <1>1 DEF IInv, ViewTypes, Status
  <1>3. ViewOrder'
    BY <1>1 DEF IInv, ViewTypes, ViewOrder
  <1>4. DurableGrows /\ ViewsGrow
    BY <1>1 DEF IInv, ViewTypes, DurableGrows, ViewsGrow
  <1>5. Sends(r)
    BY <1>1, SendDoViewChangeSends DEF Sends
  <1> QED
    BY <1>2, <1>3, <1>4, <1>5 DEF GoodStep

\* Both ways into a later view, a quorum of SVCs and a message from it, are such a move
\* (on_start_view_change, jump_view).
LEMMA LeaveViewSteps ==
    ASSUME IInv, NEW r \in Replica,
           OnStartViewChange(r) \/ \E q \in Replica : JumpView(r, q)
    PROVE  GoodStep(r)
  <1>1. CASE OnStartViewChange(r)
    <2>1. view[r] \in Nat /\ view[r] + 1 \in Nat /\ view[r] < view[r] + 1
      BY DEF IInv, ViewTypes
    <2> QED
      BY <1>1, <2>1, ViewChangeToStep DEF OnStartViewChange
  <1>2. CASE \E q \in Replica : JumpView(r, q)
    <2>1. PICK q \in Replica : JumpView(r, q)
      BY <1>2
    <2>2. durable[q].view \in Nat /\ view[r] < durable[q].view
      BY <2>1 DEF JumpView, IInv, ViewTypes
    <2> QED
      BY <2>1, <2>2, ViewChangeToStep DEF JumpView
  <1> QED
    BY <1>1, <1>2

\* Sending the DVC again changes no view (on_do_view_change_message_timeout).
LEMMA DoViewChangeTimeoutStep ==
    ASSUME IInv, NEW r \in Replica, DoViewChangeTimeout(r)
    PROVE  GoodStep(r)
  <1>1. /\ UNCHANGED <<viewPart, prepare_oks, start_views>>
        /\ ViewDurable(r)
        /\ do_view_changes' = do_view_changes \cup {DoViewChange(r)}
    BY Zenon DEF DoViewChangeTimeout, viewPart, viewVars
  <1>2. Sends(r)
    BY <1>1 DEF Sends, DoViewChange, ViewDurable, viewPart
  <1> QED
    BY <1>1, <1>2, SameViews DEF GoodStep

\* A primary with a DVC quorum takes its view as log_view in memory, and tells nobody before it
\* is durable (on_do_view_change, primary_set_log_from_do_view_change_messages).
LEMMA OnDoViewChangeStep ==
    ASSUME IInv, NEW r \in Replica, OnDoViewChange(r)
    PROVE  GoodStep(r)
  <1>1. /\ status[r] = "view_change"
        /\ dvc_quorum' = [dvc_quorum EXCEPT ![r] = TRUE]
        /\ log_view' = [log_view EXCEPT ![r] = view[r]]
        /\ UNCHANGED <<status, view, durable, sentPart>>
    BY Zenon DEF OnDoViewChange, netVars, sentPart
  <1>2. ViewTypes'
    BY <1>1 DEF IInv, ViewTypes, sentPart
  <1>3. ViewOrder'
    BY <1>1 DEF IInv, ViewTypes, ViewOrder
  <1>4. DurableGrows /\ ViewsGrow /\ Sends(r)
    BY <1>1 DEF IInv, ViewTypes, ViewOrder, DurableGrows, ViewsGrow, Sends, sentPart
  <1> QED
    BY <1>2, <1>3, <1>4 DEF GoodStep

\* A primary sends an SV only in its own view, with that log_view durable.
LEMMA PrimarySendStartViewStep ==
    ASSUME IInv, NEW r \in Replica, NEW nonce, PrimarySendStartView(r, nonce)
    PROVE  GoodStep(r)
  <1>1. /\ r = PrimaryIndex(view[r])
        /\ status[r] = "normal" \/ dvc_quorum[r]
        /\ start_views' = IF ViewDurable(r) THEN start_views \cup {StartView(r, nonce)}
                                            ELSE start_views
        /\ UNCHANGED <<viewPart, prepare_oks, do_view_changes>>
    BY Zenon DEF PrimarySendStartView, viewPart
  <1>2. log_view[r] = view[r] /\ view[r] \in Nat
    BY <1>1 DEF IInv, ViewTypes, ViewOrder
  <1>3. Sends(r)
    BY <1>1, <1>2 DEF Sends, StartView, ViewDurable, viewPart
  <1>4. \A m \in start_views' : m.view \in Nat
    BY <1>1, <1>2 DEF IInv, ViewTypes, StartView
  <1>5. ViewTypes' /\ ViewOrder' /\ DurableGrows /\ ViewsGrow
    BY <1>1, <1>4 DEF IInv, ViewTypes, ViewOrder, DurableGrows, ViewsGrow, viewPart
  <1> QED
    BY <1>3, <1>5 DEF GoodStep

\* The new primary acknowledges its own pipeline in its own view
\* (primary_start_view_as_the_new_primary, send_prepare_oks_after_view_change).
LEMMA StartViewAsTheNewPrimaryStep ==
    ASSUME IInv, NEW r \in Replica, StartViewAsTheNewPrimary(r)
    PROVE  GoodStep(r)
  <1>1. /\ dvc_quorum[r]
        /\ status' = [status EXCEPT ![r] = "normal"]
        /\ dvc_quorum' = [dvc_quorum EXCEPT ![r] = FALSE]
        /\ UNCHANGED <<view, log_view, durable, do_view_changes, start_views>>
        /\ prepare_oks' = prepare_oks \cup PrepareOks(r, Uncommitted(r))'
    BY Zenon DEF StartViewAsTheNewPrimary
  <1>2. ViewTypes'
    BY <1>1 DEF IInv, ViewTypes, Status
  <1>3. ViewOrder' /\ DurableGrows /\ ViewsGrow
    BY <1>1 DEF IInv, ViewTypes, ViewOrder, DurableGrows, ViewsGrow
  <1>4. Sends(r)
    BY <1>1 DEF Sends, PrepareOks
  <1> QED
    BY <1>2, <1>3, <1>4 DEF GoodStep

\* An SV takes a backup to its view, never back, and acknowledges nothing before that view is
\* durable (on_start_view, ignore_view_change_message).
LEMMA OnStartViewStep ==
    ASSUME IInv, NEW r \in Replica, NEW m \in start_views, OnStartView(r, m)
    PROVE  GoodStep(r)
  <1>1. /\ view[r] <= m.view
        /\ view' = [view EXCEPT ![r] = m.view]
        /\ log_view' = [log_view EXCEPT ![r] = m.view]
        /\ status' = [status EXCEPT ![r] = "normal"]
        /\ dvc_quorum' = [dvc_quorum EXCEPT ![r] = FALSE]
        /\ UNCHANGED <<durable, do_view_changes, start_views>>
        /\ prepare_oks' \subseteq prepare_oks \cup PrepareOks(r, Uncommitted(r))'
    BY DEF OnStartView, AcceptsStartView
  <1>2. m.view \in Nat
    BY DEF IInv, ViewTypes
  <1>3. ViewTypes'
    BY <1>1, <1>2 DEF IInv, ViewTypes, Status
  <1>4. ViewOrder' /\ DurableGrows /\ ViewsGrow
    BY <1>1, <1>2 DEF IInv, ViewTypes, ViewOrder, DurableGrows, ViewsGrow
  <1>5. Sends(r)
    BY <1>1 DEF Sends, PrepareOks
  <1> QED
    BY <1>3, <1>4, <1>5 DEF GoodStep

-----------------------------------------------------------------------------
(* The superblock, and crashes. *)

\* The superblock write moves durable views up to those in memory, and only then sends what
\* waited for it (view_durable_update, view_durable_update_callback).
LEMMA ViewDurableUpdateStep ==
    ASSUME IInv, NEW r \in Replica, ViewDurableUpdate(r)
    PROVE  GoodStep(r)
  <1>1. UNCHANGED <<status, view, log_view, dvc_quorum>>
    BY Zenon DEF ViewDurableUpdate, viewVars
  <1>2. durable' = [durable EXCEPT ![r] =
                      [view |-> view[r], log_view |-> log_view[r],
                       commit_max |-> commit_max[r], view_headers |-> view_headers[r]]]
    BY Zenon DEF ViewDurableUpdate
  <1>3. do_view_changes' \subseteq do_view_changes \cup {DoViewChange(r)}
    BY DEF ViewDurableUpdate
  <1>4. \/ start_views' = start_views
        \/ /\ log_view[r] = view[r] /\ r = PrimaryIndex(view[r])
           /\ start_views' = start_views \cup {StartView(r, None)}
    BY Zenon DEF ViewDurableUpdate
  <1>5. prepare_oks' \subseteq prepare_oks \cup PrepareOks(r, Uncommitted(r))'
    BY Zenon DEF ViewDurableUpdate
  <1>6. ViewDurable(r)'
    BY <1>1, <1>2 DEF ViewDurable, IInv, ViewTypes
  <1>7. ViewTypes'
    <2>1. \A m \in start_views' : m.view \in Nat
      BY <1>4 DEF IInv, ViewTypes, StartView
    <2> QED
      BY <1>1, <1>2, <2>1 DEF IInv, ViewTypes
  <1>8. ViewOrder' /\ DurableGrows /\ ViewsGrow
    BY <1>1, <1>2 DEF IInv, ViewTypes, ViewOrder, DurableGrows, ViewsGrow
  <1>9. Sends(r)
    <2>1. \A m \in prepare_oks' \ prepare_oks :
            m.replica = r /\ m.view = view'[r] /\ status'[r] = "normal"
      BY <1>5 DEF PrepareOks
    <2>2. \A m \in do_view_changes' \ do_view_changes :
            m.replica = r /\ m.view = view'[r] /\ m.log_view = log_view'[r]
      BY <1>1, <1>3 DEF DoViewChange
    <2>3. \A m \in start_views' \ start_views :
            m.view = view'[r] /\ log_view'[r] = view'[r] /\ r = PrimaryIndex(view'[r])
      BY <1>1, <1>4 DEF StartView
    <2> QED
      BY <1>6, <2>1, <2>2, <2>3 DEF Sends
  <1> QED
    BY <1>7, <1>8, <1>9 DEF GoodStep

\* What comes back after a crash is what the superblock says, whatever the WAL holds.
LEMMA CrashStep ==
    ASSUME IInv, NEW r \in Replica, Crash(r)
    PROVE  GoodStep(r)
  <1>1. PICK slots : CrashRestart(r, slots)
    BY Zenon DEF Crash
  <1>2. \E retires \in BOOLEAN, s \in Status :
          /\ view' = [view EXCEPT ![r] = IF retires THEN durable[r].view + 1 ELSE durable[r].view]
          /\ status' = [status EXCEPT ![r] = s]
          /\ s = "view_change" <=> durable[r].log_view < durable[r].view \/ retires
    BY <1>1 DEF CrashRestart, Status
  <1>3. /\ log_view' = [log_view EXCEPT ![r] = durable[r].log_view]
        /\ dvc_quorum' = [dvc_quorum EXCEPT ![r] = FALSE]
        /\ UNCHANGED <<durable, start_views>>
        /\ prepare_oks' = prepare_oks \ OwnPrepareOks(r)
        /\ \/ SendDoViewChange(r)
           \/ do_view_changes' = do_view_changes \ OwnDoViewChanges(r)
    BY <1>1 DEF CrashRestart
  <1>4. ViewTypes'
    BY <1>2, <1>3 DEF IInv, ViewTypes
  <1>5. ViewOrder' /\ DurableGrows
    BY <1>2, <1>3 DEF IInv, ViewTypes, ViewOrder, DurableGrows
  <1>6. Sends(r)
    BY <1>3, SendDoViewChangeSends DEF Sends
  <1>7. Forgets(r)
    <2>1. \A q \in Replica \ {r} : view'[q] = view[q] /\ log_view'[q] = log_view[q]
      BY <1>2, <1>3 DEF IInv, ViewTypes
    <2>2. \A m \in prepare_oks' :
             m.replica = r /\ r = PrimaryIndex(m.view) => m.view <= log_view'[r]
      <3>1. log_view'[r] = durable[r].log_view /\ durable[r].log_view \in Nat
        BY <1>3 DEF IInv, ViewTypes
      <3> QED
        BY <1>3, <3>1 DEF OwnPrepareOks, IInv, SentTypes
    <2>3. ASSUME NEW m \in do_view_changes', m.replica = r, r = PrimaryIndex(m.view)
          PROVE  m.view = view'[r]
      <3>1. m \notin do_view_changes \ OwnDoViewChanges(r)
        BY <2>3 DEF OwnDoViewChanges
      <3>2. m = DoViewChange(r)'
        BY <1>3, <2>3, <3>1 DEF SendDoViewChange
      <3> QED
        BY <3>2 DEF DoViewChange
    <2> QED
      BY <2>1, <2>2, <2>3 DEF Forgets
  <1> QED
    BY <1>4, <1>5, <1>6, <1>7 DEF GoodStep

-----------------------------------------------------------------------------
(* All the steps together. *)

\* Every step of the system is one of a replica that keeps the order of its views.
LEMMA EveryStepIsGood ==
    ASSUME IInv, Next
    PROVE  \E r \in Replica : GoodStep(r)
  <1>1. PICK r \in Replica : ReplicaStep(r) \/ Crash(r)
    BY DEF Next
  <1>2. CASE Crash(r)
    BY <1>2, CrashStep
  <1>3. CASE ReplicaStep(r)
    BY <1>3, LogSteps, OnRepairStep, WriteDoneStep, LeaveViewSteps, DoViewChangeTimeoutStep,
       OnDoViewChangeStep, PrimarySendStartViewStep, StartViewAsTheNewPrimaryStep,
       OnStartViewStep, ViewDurableUpdateStep
       DEF ReplicaStep, RepairSendStartView, OnRequestStartView
  <1> QED
    BY <1>1, <1>2, <1>3

\* A step keeps the promise: what was sent before stays covered as durable views only grow,
\* and what is sent now is covered when it is sent.
LEMMA GoodStepAdvertises ==
    ASSUME IInv, NEW r \in Replica, GoodStep(r)
    PROVE  SentTypes' /\ AdvertisedDurable'
  <1>1. /\ \A q \in Replica : /\ durable[q].view \in Nat /\ durable'[q].view \in Nat
                              /\ durable[q].log_view \in Nat /\ durable'[q].log_view \in Nat
                              /\ durable[q].view <= durable'[q].view
                              /\ durable[q].log_view <= durable'[q].log_view
        /\ view'[r] \in Nat /\ log_view'[r] \in Nat
    BY DEF GoodStep, DurableGrows, IInv, ViewTypes
  <1>2. \A m \in prepare_oks' : /\ m.replica \in Replica /\ m.view \in Nat
                                /\ m.replica # PrimaryIndex(m.view) =>
                                      m.view <= durable'[m.replica].log_view
    <2> TAKE m \in prepare_oks'
    <2>1. CASE m \in prepare_oks
      BY <1>1, <2>1 DEF IInv, SentTypes, AdvertisedDurable
    <2>2. CASE m \notin prepare_oks
      <3>1. /\ m.replica = r /\ m.view = view'[r] /\ status'[r] = "normal"
            /\ r = PrimaryIndex(view'[r]) \/ ViewDurable(r)'
        BY <2>2 DEF GoodStep, Sends
      <3>2. log_view'[r] = view'[r]
        BY <3>1 DEF GoodStep, ViewOrder
      <3> QED
        BY <1>1, <3>1, <3>2 DEF ViewDurable
    <2> QED
      BY <2>1, <2>2
  <1>3. \A m \in do_view_changes' :
            /\ m.replica \in Replica /\ m.view \in Nat /\ m.log_view \in Nat
            /\ m.replica # PrimaryIndex(m.view) =>
                  m.view <= durable'[m.replica].view /\ m.log_view <= durable'[m.replica].log_view
    <2> TAKE m \in do_view_changes'
    <2>1. CASE m \in do_view_changes
      BY <1>1, <2>1 DEF IInv, SentTypes, AdvertisedDurable
    <2>2. CASE m \notin do_view_changes
      BY <1>1, <2>2 DEF GoodStep, Sends, ViewDurable
    <2> QED
      BY <2>1, <2>2
  <1>4. \A m \in start_views' : m.view <= durable'[PrimaryIndex(m.view)].log_view
    <2> TAKE m \in start_views'
    <2>1. CASE m \in start_views
      <3>1. m.view \in Nat /\ PrimaryIndex(m.view) \in Replica
        BY <2>1, PrimaryIsReplica DEF IInv, ViewTypes
      <3> QED
        BY <1>1, <2>1, <3>1 DEF IInv, AdvertisedDurable
    <2>2. CASE m \notin start_views
      BY <1>1, <2>2 DEF GoodStep, Sends, ViewDurable
    <2> QED
      BY <2>1, <2>2
  <1> QED
    BY <1>2, <1>3, <1>4 DEF SentTypes, AdvertisedDurable

\* What was sent stays behind the replica that sent it, also if that replica crashed: then only
\* what its superblock covers is left.
LEMMA GoodStepSentOrder ==
    ASSUME IInv, NEW r \in Replica, GoodStep(r), SentTypes', AdvertisedDurable'
    PROVE  SentOrder'
  <1>1. \A q \in Replica : /\ view[q] \in Nat /\ log_view[q] \in Nat
                           /\ view'[q] \in Nat /\ log_view'[q] \in Nat
                           /\ durable'[q].view \in Nat /\ durable'[q].log_view \in Nat
                           /\ durable'[q].view <= view'[q]
                           /\ durable'[q].log_view <= log_view'[q]
    BY DEF GoodStep, IInv, ViewTypes, ViewOrder
  <1>2. ASSUME NEW m \in prepare_oks' PROVE m.view <= log_view'[m.replica]
    <2>0. m.replica \in Replica /\ m.view \in Nat
      BY DEF SentTypes
    <2>1. CASE m \notin prepare_oks
      BY <1>1, <2>1 DEF GoodStep, Sends, ViewOrder
    <2>2. CASE m \in prepare_oks /\ ViewsGrow
      BY <1>1, <2>0, <2>2 DEF ViewsGrow, IInv, SentOrder
    <2>3. CASE m \in prepare_oks /\ Forgets(r)
      <3>1. CASE m.replica = r
        BY <1>1, <2>0, <2>3, <3>1 DEF Forgets, AdvertisedDurable
      <3>2. CASE m.replica # r
        BY <1>1, <2>0, <2>3, <3>2 DEF Forgets, IInv, SentOrder
      <3> QED
        BY <3>1, <3>2
    <2> QED
      BY <2>1, <2>2, <2>3 DEF GoodStep
  <1>3. ASSUME NEW m \in do_view_changes' PROVE m.view <= view'[m.replica]
    <2>0. m.replica \in Replica /\ m.view \in Nat
      BY DEF SentTypes
    <2>1. CASE m \notin do_view_changes
      BY <1>1, <2>1 DEF GoodStep, Sends
    <2>2. CASE m \in do_view_changes /\ ViewsGrow
      BY <1>1, <2>0, <2>2 DEF ViewsGrow, IInv, SentOrder
    <2>3. CASE m \in do_view_changes /\ Forgets(r)
      <3>1. CASE m.replica = r
        BY <1>1, <2>0, <2>3, <3>1 DEF Forgets, AdvertisedDurable
      <3>2. CASE m.replica # r
        BY <1>1, <2>0, <2>3, <3>2 DEF Forgets, IInv, SentOrder
      <3> QED
        BY <3>1, <3>2
    <2> QED
      BY <2>1, <2>2, <2>3 DEF GoodStep
  <1> QED
    BY <1>2, <1>3 DEF SentOrder

\* Acknowledging comes with the view of the replica, which no DVC it sent is ahead of; and
\* a DVC comes with its log_view, which nothing it acknowledged is ahead of.
LEMMA GoodStepPromise ==
    ASSUME IInv, NEW r \in Replica, GoodStep(r), SentTypes', SentOrder'
    PROVE  DoViewChangePromise'
  <1> SUFFICES ASSUME NEW ok \in prepare_oks', NEW m \in do_view_changes',
                      ok.replica = m.replica, m.log_view < ok.view
               PROVE  m.view <= ok.view
    BY DEF DoViewChangePromise
  <1>1. /\ m.replica \in Replica /\ m.log_view \in Nat /\ ok.view \in Nat
        /\ ok.view <= log_view'[m.replica] /\ m.view <= view'[m.replica]
        /\ log_view'[m.replica] \in Nat
    BY DEF SentTypes, SentOrder, GoodStep, ViewTypes
  <1>2. CASE ok \in prepare_oks /\ m \in do_view_changes
    BY <1>2 DEF IInv, DoViewChangePromise
  <1>3. CASE ok \notin prepare_oks
    BY <1>1, <1>3 DEF GoodStep, Sends
  <1>4. CASE m \notin do_view_changes
    BY <1>1, <1>4 DEF GoodStep, Sends
  <1> QED
    BY <1>2, <1>3, <1>4

\* A step that changes nothing keeps the invariant.
LEMMA StutterIInv == ASSUME IInv, UNCHANGED vars PROVE IInv' /\ DurableGrows
  BY DEF IInv, ViewTypes, ViewOrder, SentTypes, SentOrder, AdvertisedDurable,
     DoViewChangePromise, DurableGrows, vars, viewVars, netVars

\* Every step keeps the invariant, and no durable view goes back.
LEMMA NextIInv == ASSUME IInv, [Next]_vars PROVE IInv' /\ DurableGrows
  <1>1. CASE Next
    <2>1. PICK r \in Replica : GoodStep(r)
      BY <1>1, EveryStepIsGood
    <2> QED
      BY <2>1, GoodStepAdvertises, GoodStepSentOrder, GoodStepPromise DEF GoodStep, IInv
  <1>2. CASE UNCHANGED vars
    BY <1>2, StutterIInv
  <1> QED
    BY <1>1, <1>2

-----------------------------------------------------------------------------
(* The theorems. *)

\* The invariant that the theorems below follow from holds in every reachable state of a cluster
\* of any size, with any quorums that validate accepts.
THEOREM InductiveInvariant == Spec => []IInv
  <1>1. Init => IInv
    BY InitIInv
  <1>2. IInv /\ [Next]_vars => IInv'
    BY NextIInv
  <1> QED
    BY <1>1, <1>2, PTL DEF Spec

\* The views of a replica, in memory and in its superblock, are in order in every reachable
\* state (transition_to_normal_*, transition_to_view_change_status, jump_view, Replica.open).
THEOREM ViewsInOrder == Spec => []ViewOrder
  <1>1. IInv => ViewOrder
    BY DEF IInv
  <1> QED
    BY <1>1, InductiveInvariant, PTL

\* No replica has told another of a view or log_view that a crash could take back
\* (send_message_to_replica_base, view_durable, log_view_durable).
THEOREM OnlyDurableViewsAdvertised == Spec => []AdvertisedDurable
  <1>1. IInv => AdvertisedDurable
    BY DEF IInv
  <1> QED
    BY <1>1, InductiveInvariant, PTL

\* A replica keeps the promise of its DVCs (on_do_view_change and send_prepare_ok together).
THEOREM PromiseKept == Spec => []DoViewChangePromise
  <1>1. IInv => DoViewChangePromise
    BY DEF IInv
  <1> QED
    BY <1>1, InductiveInvariant, PTL

\* A superblock write never takes a view or log_view back (view_durable_update).
THEOREM DurableViewsNeverRegress == Spec => DurableNeverRegresses
  <1>1. IInv /\ [Next]_vars =>
            [\A r \in Replica : /\ durable[r].view <= durable[r].view'
                                /\ durable[r].log_view <= durable[r].log_view']_vars
    BY NextIInv DEF DurableGrows
  <1> QED
    BY <1>1, InductiveInvariant, PTL DEF Spec, DurableNeverRegresses

-----------------------------------------------------------------------------
(* Why the nack protocol is safe: the argument of DVCQuorum.quorum_headers. *)

\* There are ReplicaCount replicas (primary_index counts them from 0).
LEMMA ReplicaFinite == IsFiniteSet(Replica) /\ Cardinality(Replica) = ReplicaCount
  <1>1. 0 \in Int /\ ReplicaCount - 1 \in Int /\ ReplicaCount \in Nat \ {0, 1}
    BY CountsAssumption
  <1>2. IsFiniteSet(0..(ReplicaCount - 1))
        /\ Cardinality(0..(ReplicaCount - 1)) = (ReplicaCount - 1) - 0 + 1
    BY <1>1, FS_Interval
  <1> QED
    BY <1>1, <1>2 DEF Replica

\* A nack quorum and a replication quorum have a replica in common (vsr.quorums).
LEMMA NackQuorumIntersects ==
    ASSUME NEW A \in SUBSET Replica, NEW N \in SUBSET Replica,
           Cardinality(A) >= QuorumReplication, Cardinality(N) >= QuorumNack
    PROVE  A \cap N # {}
  <1>1. /\ IsFiniteSet(A) /\ IsFiniteSet(N) /\ IsFiniteSet(A \cup N) /\ IsFiniteSet(A \cap N)
        /\ Cardinality(A \cup N) <= ReplicaCount
    BY ReplicaFinite, FS_Subset, FS_Union, FS_Intersection
  <1>2. Cardinality(A \cup N) = Cardinality(A) + Cardinality(N) - Cardinality(A \cap N)
    BY <1>1, FS_Union
  <1>3. /\ Cardinality(A) \in Nat /\ Cardinality(N) \in Nat /\ Cardinality(A \cap N) \in Nat
        /\ Cardinality(A \cup N) \in Nat /\ ReplicaCount \in Nat /\ QuorumReplication \in Nat
    BY <1>1, FS_CardinalityType, CountsAssumption, QuorumAssumption
  <1>4. Cardinality(A \cap N) # 0
    BY <1>1, <1>2, <1>3 DEF QuorumNack
  <1> QED
    BY <1>4, FS_EmptySet

\* What a replication quorum acknowledged in the latest log_view of a DVC quorum, and no later
\* view is without, is not truncated by it, as long as no replica nacks what it acknowledged
\* (AcknowledgedNeverNacked, which the runs check) and keeps the promise of its DVCs (proved above).
THEOREM CommittedNotTruncated ==
    ASSUME AcknowledgedNeverNacked, DoViewChangePromise,
           NEW v \in Nat, NEW Q \in SUBSET do_view_changes,
           \A m \in Q : /\ m.replica \in Replica /\ m.log_view \in Nat /\ m.view \in Nat
                        /\ m.log_view <= v /\ v < m.view,
           \A m, n \in Q : m.replica = n.replica => m = n,
           NEW p \in Prepare, NEW A \in SUBSET Replica,
           Cardinality(A) >= QuorumReplication,
           \A r \in A : \E ok \in prepare_oks :
                            ok.replica = r /\ ok.view = v /\ ok.prepare = p,
           ~Replaced(p, v),
           \A m \in Q : m.log_view = v => Min(DOMAIN m.headers) <= OpOf(p),
           \A m \in Q : Min(DOMAIN m.headers) \in Nat,
           HeaderCanonical(Q, OpOf(p)) = p
    PROVE  ~Truncated(Q, OpOf(p))
  <1> DEFINE o == OpOf(p)
             N == {m.replica : m \in Nacks(Q, o)}
  <1>0. o \in Nat
    BY CountsAssumption DEF Prepare, Op, OpOf
  <1>1. A \cap N = {}
    <2> SUFFICES ASSUME NEW m \in Nacks(Q, o), m.replica \in A PROVE FALSE
      OBVIOUS
    <2>1. PICK ok \in prepare_oks : ok.replica = m.replica /\ ok.view = v /\ ok.prepare = p
      OBVIOUS
    <2>2. m \in Q /\ m \in do_view_changes
      BY DEF Nacks
    <2>3. m.log_view = v
      <3>1. m.log_view <= v /\ v < m.view /\ m.log_view \in Nat /\ m.view \in Nat
        BY <2>2
      <3> QED
        BY <2>1, <2>2, <3>1 DEF DoViewChangePromise
    <2>4. ~(o < Min(DOMAIN m.headers))
      BY <1>0, <2>2, <2>3
    <2>5. o \in DOMAIN m.headers \ m.nacks /\ m.headers[o] \in {None, p}
      BY <2>1, <2>2, <2>3, <2>4 DEF AcknowledgedNeverNacked
    <2> QED
      BY <2>5 DEF Nacks
  <1>2. N \in SUBSET Replica
    BY DEF Nacks
  <1>3. ~(Cardinality(N) >= QuorumNack)
    BY <1>1, <1>2, NackQuorumIntersects
  <1>4. /\ Cardinality(Nacks(Q, o)) <= Cardinality(N)
        /\ Cardinality(N) \in Nat /\ Cardinality(Nacks(Q, o)) \in Nat /\ QuorumNack \in Int
    <2> DEFINE f == [m \in Nacks(Q, o) |-> m.replica]
    <2>1. f \in Injection(Nacks(Q, o), N)
      BY DEF Nacks, Injection, IsInjective
    <2>2. IsFiniteSet(N)
      BY <1>2, ReplicaFinite, FS_Subset
    <2> HIDE DEF f
    <2>3. IsFiniteSet(Nacks(Q, o)) /\ Cardinality(Nacks(Q, o)) <= Cardinality(N)
      BY <2>1, <2>2, FS_Injection
    <2> QED
      BY <2>2, <2>3, FS_CardinalityType, CountsAssumption, QuorumAssumption DEF QuorumNack
  <1> QED
    BY <1>3, <1>4 DEF Truncated

-----------------------------------------------------------------------------
(* Logs as sequences of views. *)

\* A prepare is a sequence of views of at most OpMax.
LEMMA PrepareIsSeq == \A p : p \in Prepare <=> p \in Seq(View) /\ Len(p) \in Op
  <1>1. Op \subseteq Nat
    BY CountsAssumption DEF Op
  <1>2. ASSUME NEW p \in Prepare PROVE p \in Seq(View) /\ Len(p) \in Op
    <2>1. PICK n \in Op : p \in [1..n -> View]
      BY DEF Prepare
    <2>2. p \in Seq(View) /\ n \in Nat
      BY <1>1, <2>1, SeqDef
    <2>3. Len(p) = n
      <3>1. Len(p) \in Nat /\ DOMAIN p = 1..Len(p) /\ DOMAIN p = 1..n
        BY <2>1, <2>2, LenProperties
      <3>2. \A i \in Int : i \in 1..Len(p) <=> i \in 1..n
        BY <3>1
      <3>3. n \in Int /\ Len(p) \in Int /\ ~(n < Len(p)) /\ ~(Len(p) < n)
        BY <2>2, <3>1, <3>2
      <3> QED
        BY <3>3
    <2> QED
      BY <2>2, <2>3
  <1>3. ASSUME NEW p \in Seq(View), Len(p) \in Op PROVE p \in Prepare
    BY <1>3, LenProperties DEF Prepare
  <1> QED
    BY <1>2, <1>3

\* The root, and what op a prepare has.
LEMMA OpFacts ==
    /\ Root \in Prepare /\ OpOf(Root) = 0 /\ Op \subseteq Nat /\ 0 \in Op
    /\ \A p \in Prepare : /\ OpOf(p) \in Op /\ OpOf(p) \in Nat
                          /\ OpOf(p) = 0 => p = Root
  <1>1. Op \subseteq Nat /\ 0 \in Op
    BY CountsAssumption DEF Op
  <1>2. Root \in Seq(View) /\ Len(Root) = 0
    BY EmptySeq DEF Root
  <1> QED
    BY <1>1, <1>2, PrepareIsSeq, EmptySeq DEF OpOf, Root

\* The views along a log are views.
LEMMA ViewFacts ==
    ASSUME NEW p \in Prepare
    PROVE  /\ \A i \in 1..OpOf(p) : p[i] \in View
           /\ ViewOf(p) \in View
           /\ p # Root => OpOf(p) \in 1..OpOf(p) /\ ViewOf(p) = p[OpOf(p)]
  <1>1. \A i \in 1..OpOf(p) : p[i] \in View
    BY PrepareIsSeq, ElementOfSeq DEF OpOf
  <1>2. 0 \in View
    BY CountsAssumption DEF View
  <1>3. p # Root => OpOf(p) \in 1..OpOf(p)
    BY OpFacts
  <1> QED
    BY <1>1, <1>2, <1>3 DEF ViewOf, OpOf

\* What Ancestor makes: a prepare of that op, with the views up to it.
LEMMA AncestorFacts ==
    ASSUME NEW p \in Prepare, NEW o \in 0..OpOf(p)
    PROVE  /\ Ancestor(p, o) \in Prepare /\ OpOf(Ancestor(p, o)) = o
           /\ \A i \in 1..o : Ancestor(p, o)[i] = p[i]
  <1>1. /\ OpOf(p) \in Op /\ OpOf(p) \in Nat /\ o \in Nat /\ o <= OpOf(p) /\ o \in Op
        /\ o \in Int /\ 1 \in Int /\ (1 <= o <=> o # 0)
    BY OpFacts, CountsAssumption DEF Op
  <1>2. \A i \in 1..o : p[i] \in View
    BY <1>1, ViewFacts
  <1>3. /\ SubSeq(p, 1, o) \in Seq(View)
        /\ Len(SubSeq(p, 1, o)) = IF 1 <= o THEN o - 1 + 1 ELSE 0
        /\ \A i \in 1..(o - 1 + 1) : SubSeq(p, 1, o)[i] = p[1 + i - 1]
    BY <1>1, <1>2, SubSeqProperties
  <1>4. Len(SubSeq(p, 1, o)) = o /\ \A i \in 1..o : SubSeq(p, 1, o)[i] = p[i]
    BY <1>1, <1>3
  <1> QED
    BY <1>1, <1>3, <1>4, PrepareIsSeq DEF Ancestor, OpOf

\* Two prepares with the same op and the same views are the same.
LEMMA PrepareEqual ==
    ASSUME NEW p \in Prepare, NEW q \in Prepare, OpOf(p) = OpOf(q),
           \A i \in 1..OpOf(p) : p[i] = q[i]
    PROVE  p = q
  BY PrepareIsSeq, SeqEqual DEF OpOf

\* A log begins with itself and with nothing, and an ancestor's ancestor is an ancestor.
LEMMA AncestorOfAncestor ==
    ASSUME NEW p \in Prepare
    PROVE  /\ Ancestor(p, OpOf(p)) = p
           /\ Ancestor(p, 0) = Root
           /\ \A o \in 0..OpOf(p) : \A k \in 0..o : Ancestor(Ancestor(p, o), k) = Ancestor(p, k)
  <1>0. OpOf(p) \in Nat
    BY OpFacts
  <1>1. Ancestor(p, OpOf(p)) = p
    BY <1>0, AncestorFacts, PrepareEqual
  <1>2. Ancestor(p, 0) = Root
    BY <1>0, AncestorFacts, OpFacts
  <1>3. ASSUME NEW o \in 0..OpOf(p), NEW k \in 0..o
        PROVE  Ancestor(Ancestor(p, o), k) = Ancestor(p, k)
    <2>1. k \in 0..OpOf(p) /\ o \in Nat /\ k \in Nat /\ k <= o
      BY <1>0
    <2>2. Ancestor(p, o) \in Prepare /\ OpOf(Ancestor(p, o)) = o
          /\ \A i \in 1..o : Ancestor(p, o)[i] = p[i]
      BY AncestorFacts
    <2>3. Ancestor(p, k) \in Prepare /\ OpOf(Ancestor(p, k)) = k
          /\ \A i \in 1..k : Ancestor(p, k)[i] = p[i]
      BY <2>1, AncestorFacts
    <2>4. /\ Ancestor(Ancestor(p, o), k) \in Prepare /\ OpOf(Ancestor(Ancestor(p, o), k)) = k
          /\ \A i \in 1..k : Ancestor(Ancestor(p, o), k)[i] = Ancestor(p, o)[i]
      BY <2>2, AncestorFacts
    <2> QED
      BY <2>1, <2>2, <2>3, <2>4, PrepareEqual
  <1> QED
    BY <1>1, <1>2, <1>3

\* The hash chain is an order, and the ancestors of one prepare are a chain in it.
LEMMA BeginsFacts ==
    /\ \A p \in Prepare : p \preceq p
    /\ \A p, q, t \in Prepare : p \preceq q /\ q \preceq t => p \preceq t
    /\ \A p, q \in Prepare : p \preceq q /\ OpOf(q) <= OpOf(p) => p = q
    /\ \A p, q, t \in Prepare :
            p \preceq t /\ q \preceq t /\ OpOf(p) <= OpOf(q) => p \preceq q
    /\ \A p \in Prepare : \A o \in 0..OpOf(p) : Ancestor(p, o) \preceq p
    /\ \A p, q \in Prepare : p \preceq q =>
            /\ OpOf(p) <= OpOf(q) /\ p = Ancestor(q, OpOf(p))
            /\ \A o \in 0..OpOf(p) : Ancestor(p, o) = Ancestor(q, o)
            /\ \A i \in 1..OpOf(p) : p[i] = q[i]
  <1>1. ASSUME NEW p \in Prepare PROVE p \preceq p
    BY OpFacts, AncestorOfAncestor DEF \preceq
  <1>2. ASSUME NEW p \in Prepare, NEW q \in Prepare, p \preceq q
        PROVE  /\ OpOf(p) <= OpOf(q) /\ p = Ancestor(q, OpOf(p))
               /\ \A o \in 0..OpOf(p) : Ancestor(p, o) = Ancestor(q, o)
               /\ \A i \in 1..OpOf(p) : p[i] = q[i]
    <2>1. /\ OpOf(p) <= OpOf(q) /\ p = Ancestor(q, OpOf(p)) /\ OpOf(p) \in 0..OpOf(q)
      BY <1>2, OpFacts DEF \preceq
    <2> QED
      BY <2>1, AncestorOfAncestor, AncestorFacts
  <1>3. ASSUME NEW p \in Prepare, NEW q \in Prepare, NEW t \in Prepare,
               p \preceq q, q \preceq t
        PROVE  p \preceq t
    <2>1. OpOf(p) <= OpOf(q) /\ OpOf(q) <= OpOf(t) /\ OpOf(p) \in 0..OpOf(q) /\ OpOf(p) <= OpOf(t)
      BY <1>3, OpFacts DEF \preceq
    <2> QED
      BY <1>2, <1>3, <2>1 DEF \preceq
  <1>4. ASSUME NEW p \in Prepare, NEW q \in Prepare, p \preceq q, OpOf(q) <= OpOf(p)
        PROVE  p = q
    <2>1. OpOf(p) = OpOf(q)
      BY <1>2, <1>4, OpFacts
    <2> QED
      BY <1>2, <1>4, <2>1, AncestorOfAncestor
  <1>5. ASSUME NEW p \in Prepare, NEW q \in Prepare, NEW t \in Prepare,
               p \preceq t, q \preceq t, OpOf(p) <= OpOf(q)
        PROVE  p \preceq q
    <2>1. OpOf(p) \in 0..OpOf(q)
      BY <1>5, OpFacts
    <2> QED
      BY <1>2, <1>5, <2>1 DEF \preceq
  <1>6. ASSUME NEW p \in Prepare, NEW o \in 0..OpOf(p) PROVE Ancestor(p, o) \preceq p
    BY AncestorFacts, OpFacts DEF \preceq
  <1> QED
    BY <1>1, <1>2, <1>3, <1>4, <1>5, <1>6

\* A prepare that is appended to a log continues it.
LEMMA AppendFacts ==
    ASSUME NEW p \in Prepare, NEW v \in View, OpOf(p) < OpMax
    PROVE  /\ Append(p, v) \in Prepare /\ OpOf(Append(p, v)) = OpOf(p) + 1
           /\ Append(p, v) # Root
           /\ ViewOf(Append(p, v)) = v /\ Append(p, v)[OpOf(p) + 1] = v
           /\ p \preceq Append(p, v)
           /\ \A i \in 1..OpOf(p) : Append(p, v)[i] = p[i]
  <1>1. /\ p \in Seq(View) /\ Len(p) \in Nat /\ Len(p) + 1 \in Op
    BY PrepareIsSeq, CountsAssumption DEF OpOf, Op
  <1>2. /\ Append(p, v) \in Seq(View) /\ Append(p, v) # Root
        /\ Len(Append(p, v)) = Len(p) + 1
        /\ \A i \in 1..Len(p) : Append(p, v)[i] = p[i]
        /\ Append(p, v)[Len(p) + 1] = v
    BY <1>1, AppendProperties DEF Root
  <1>3. Append(p, v) \in Prepare
    BY <1>1, <1>2, PrepareIsSeq
  <1>4. p = Ancestor(Append(p, v), OpOf(p))
    <2>1. /\ OpOf(p) \in 0..OpOf(Append(p, v)) /\ OpOf(p) \in Nat
          /\ \A i \in 1..OpOf(p) : Append(p, v)[i] = p[i]
      BY <1>1, <1>2 DEF OpOf
    <2>2. /\ Ancestor(Append(p, v), OpOf(p)) \in Prepare
          /\ OpOf(Ancestor(Append(p, v), OpOf(p))) = OpOf(p)
          /\ \A i \in 1..OpOf(p) : Ancestor(Append(p, v), OpOf(p))[i] = Append(p, v)[i]
      BY <1>3, <2>1, AncestorFacts
    <2> QED
      BY <2>1, <2>2, PrepareEqual
  <1> QED
    BY <1>1, <1>2, <1>3, <1>4 DEF OpOf, ViewOf, \preceq

\* What the prepares of one view between two tips compose to, and how they divide.
LEMMA ContinuesFacts ==
    /\ \A p \in Prepare, v \in View : Continues(p, p, v)
    /\ \A p, q, t \in Prepare, v \in View :
            Continues(p, q, v) /\ Continues(q, t, v) => Continues(p, t, v)
    /\ \A p, q, t \in Prepare, v \in View :
            Continues(p, t, v) /\ p \preceq q /\ q \preceq t =>
                Continues(p, q, v) /\ Continues(q, t, v)
    /\ \A p, q, t \in Prepare, v \in View :
            Continues(p, t, v) /\ Continues(q, t, v) => Continues(p, q, v) \/ Continues(q, p, v)
    /\ \A p, q \in Prepare, v \in View : Continues(p, q, v) => p \preceq q
    /\ \A p, q \in Prepare, v \in View :
            Continues(p, q, v) /\ OpOf(p) < OpOf(q) => ViewOf(q) = v
    /\ \A p \in Prepare, v \in View :
            OpOf(p) < OpMax => Continues(p, Append(p, v), v)
  <1>1. ASSUME NEW p \in Prepare, NEW v \in View PROVE Continues(p, p, v)
    BY BeginsFacts, OpFacts DEF Continues
  <1>2. ASSUME NEW p \in Prepare, NEW q \in Prepare, NEW t \in Prepare, NEW v \in View,
               Continues(p, q, v), Continues(q, t, v)
        PROVE  Continues(p, t, v)
    <2>1. p \preceq t /\ OpOf(p) <= OpOf(q) /\ OpOf(q) <= OpOf(t)
          /\ \A i \in 1..OpOf(q) : q[i] = t[i]
      BY <1>2, BeginsFacts DEF Continues
    <2>2. ASSUME NEW i \in (OpOf(p) + 1)..OpOf(t) PROVE t[i] = v
      <3>1. OpOf(p) \in Nat /\ OpOf(q) \in Nat /\ OpOf(t) \in Nat /\ i \in Nat
        BY OpFacts
      <3>2. CASE i <= OpOf(q)
        BY <1>2, <2>1, <3>1, <3>2 DEF Continues
      <3>3. CASE i > OpOf(q)
        BY <1>2, <3>1, <3>3 DEF Continues
      <3> QED
        BY <3>1, <3>2, <3>3
    <2> QED
      BY <2>1, <2>2 DEF Continues
  <1>3. ASSUME NEW p \in Prepare, NEW q \in Prepare, NEW t \in Prepare, NEW v \in View,
               Continues(p, t, v), p \preceq q, q \preceq t
        PROVE  Continues(p, q, v) /\ Continues(q, t, v)
    <2>1. /\ OpOf(p) \in Nat /\ OpOf(q) \in Nat /\ OpOf(t) \in Nat
          /\ OpOf(p) <= OpOf(q) /\ OpOf(q) <= OpOf(t)
          /\ \A i \in 1..OpOf(q) : q[i] = t[i]
      BY <1>3, BeginsFacts, OpFacts
    <2> QED
      BY <1>3, <2>1 DEF Continues
  <1>4. ASSUME NEW p \in Prepare, NEW q \in Prepare, NEW t \in Prepare, NEW v \in View,
               Continues(p, t, v), Continues(q, t, v)
        PROVE  Continues(p, q, v) \/ Continues(q, p, v)
    <2>1. p \preceq t /\ q \preceq t
      BY <1>4 DEF Continues
    <2>2. p \preceq q \/ q \preceq p
      BY <2>1, BeginsFacts, OpFacts
    <2> QED
      BY <1>3, <1>4, <2>1, <2>2
  <1>5. ASSUME NEW p \in Prepare, NEW q \in Prepare, NEW v \in View,
               Continues(p, q, v), OpOf(p) < OpOf(q)
        PROVE  ViewOf(q) = v
    <2>1. OpOf(p) \in Nat /\ OpOf(q) \in Nat /\ q # Root /\ OpOf(q) \in (OpOf(p) + 1)..OpOf(q)
      BY <1>5, OpFacts
    <2> QED
      BY <1>5, <2>1, ViewFacts DEF Continues
  <1>6. ASSUME NEW p \in Prepare, NEW v \in View, OpOf(p) < OpMax
        PROVE  Continues(p, Append(p, v), v)
    <2>1. OpOf(p) \in Nat /\ \A i \in (OpOf(p) + 1)..(OpOf(p) + 1) : i = OpOf(p) + 1
      BY OpFacts
    <2>2. /\ Append(p, v) \in Prepare /\ OpOf(Append(p, v)) = OpOf(p) + 1
          /\ Append(p, v)[OpOf(p) + 1] = v /\ p \preceq Append(p, v)
      BY <1>6, AppendFacts
    <2> QED
      BY <2>1, <2>2 DEF Continues
  <1>7. \A p, q \in Prepare, v \in View : Continues(p, q, v) => p \preceq q
    BY DEF Continues
  <1> QED
    BY <1>1, <1>2, <1>3, <1>4, <1>5, <1>6, <1>7

\* Along a hash chain the views of the prepares only grow.
LEMMA LineageFacts ==
    /\ \A v \in View : Lineage(Root, v)
    /\ \A p, q \in Prepare, v \in View :
            Lineage(q, v) /\ p \preceq q => Lineage(p, v) /\ ViewOf(p) <= ViewOf(q)
    /\ \A p \in Prepare, v, w \in View : Lineage(p, v) /\ v <= w => Lineage(p, w)
    /\ \A p \in Prepare, v \in View :
            Lineage(p, v) => ViewOf(p) <= v /\ Lineage(p, ViewOf(p))
    /\ \A p \in Prepare, v \in View :
            Lineage(p, v) /\ OpOf(p) < OpMax => Lineage(Append(p, v), v)
    /\ \A p, q \in Prepare, v \in View :
            Lineage(q, v) /\ p \preceq q /\ p # Root /\ ViewOf(p) = ViewOf(q) =>
                Continues(p, q, ViewOf(q))
  <1>1. \A v \in View : Lineage(Root, v)
    BY OpFacts DEF Lineage
  <1>2. ASSUME NEW p \in Prepare, NEW v \in View, Lineage(p, v)
        PROVE  ViewOf(p) <= v /\ Lineage(p, ViewOf(p))
    <2>1. CASE p = Root
      BY <2>1, OpFacts DEF Lineage, ViewOf, View
    <2>2. CASE p # Root
      <3>1. OpOf(p) \in Nat /\ OpOf(p) \in 1..OpOf(p) /\ ViewOf(p) = p[OpOf(p)]
        BY <2>2, OpFacts, ViewFacts
      <3>2. \A i \in 1..OpOf(p) : OpOf(p) \in i..OpOf(p)
        BY <3>1
      <3> QED
        BY <1>2, <3>1, <3>2 DEF Lineage
    <2> QED
      BY <2>1, <2>2
  <1>3. ASSUME NEW p \in Prepare, NEW q \in Prepare, NEW v \in View, Lineage(q, v), p \preceq q
        PROVE  Lineage(p, v) /\ ViewOf(p) <= ViewOf(q)
    <2>1. /\ OpOf(p) \in Nat /\ OpOf(q) \in Nat /\ OpOf(p) <= OpOf(q)
          /\ \A i \in 1..OpOf(p) : p[i] = q[i]
      BY <1>3, OpFacts, BeginsFacts
    <2>2. Lineage(p, v)
      BY <1>3, <2>1 DEF Lineage
    <2>3. ViewOf(p) <= ViewOf(q)
      <3>1. CASE p = Root
        BY <3>1, ViewFacts DEF ViewOf, View
      <3>2. CASE p # Root
        <4>1. /\ OpOf(p) \in 1..OpOf(p) /\ ViewOf(p) = p[OpOf(p)]
              /\ OpOf(p) \in 1..OpOf(q) /\ OpOf(q) \in OpOf(p)..OpOf(q)
          BY <2>1, <3>2, ViewFacts
        <4>2. ViewOf(q) = q[OpOf(q)]
          BY <2>1, <4>1, ViewFacts, OpFacts
        <4> QED
          BY <1>3, <2>1, <4>1, <4>2 DEF Lineage
      <3> QED
        BY <3>1, <3>2
    <2> QED
      BY <2>2, <2>3
  <1>4. ASSUME NEW p \in Prepare, NEW v \in View, NEW w \in View, Lineage(p, v), v <= w
        PROVE  Lineage(p, w)
    <2>1. \A i \in 1..OpOf(p) : p[i] \in Int
      BY ViewFacts DEF View
    <2> QED
      BY <1>4, <2>1 DEF Lineage, View
  <1>5. ASSUME NEW p \in Prepare, NEW v \in View, Lineage(p, v), OpOf(p) < OpMax
        PROVE  Lineage(Append(p, v), v)
    <2> DEFINE q == Append(p, v)
    <2>0. v \in Int /\ \A i \in 1..OpOf(p) : p[i] \in Int
      BY ViewFacts DEF View
    <2>1. /\ OpOf(p) \in Nat /\ OpOf(q) = OpOf(p) + 1 /\ q[OpOf(p) + 1] = v /\ v \in Int
          /\ \A i \in 1..OpOf(p) : q[i] = p[i] /\ p[i] \in Int
      BY <1>5, <2>0, AppendFacts, OpFacts
    <2> HIDE DEF q
    <2>2. ASSUME NEW i \in 1..OpOf(q) PROVE q[i] <= v
      BY <1>5, <2>1 DEF Lineage
    <2>3. ASSUME NEW i \in 1..OpOf(q), NEW j \in i..OpOf(q) PROVE q[i] <= q[j]
      <3>1. CASE j = OpOf(p) + 1
        BY <2>1, <2>2, <3>1
      <3>2. CASE j # OpOf(p) + 1
        <4>1. i \in 1..OpOf(p) /\ j \in i..OpOf(p) /\ j \in 1..OpOf(p)
          BY <2>1, <3>2
        <4> QED
          BY <1>5, <2>1, <4>1 DEF Lineage
      <3> QED
        BY <3>1, <3>2
    <2>4. Lineage(q, v)
      BY <2>2, <2>3 DEF Lineage
    <2> QED
      BY <2>4 DEF q
  <1>6. ASSUME NEW p \in Prepare, NEW q \in Prepare, NEW v \in View,
               Lineage(q, v), p \preceq q, p # Root, ViewOf(p) = ViewOf(q)
        PROVE  Continues(p, q, ViewOf(q))
    <2>1. /\ OpOf(p) \in Nat /\ OpOf(q) \in Nat /\ OpOf(p) <= OpOf(q)
          /\ OpOf(p) \in 1..OpOf(p) /\ ViewOf(p) = p[OpOf(p)] /\ p[OpOf(p)] = q[OpOf(p)]
      BY <1>6, OpFacts, BeginsFacts, ViewFacts
    <2>2. OpOf(q) # 0 /\ ViewOf(q) = q[OpOf(q)]
      BY <2>1, OpFacts, ViewFacts
    <2>3. ASSUME NEW i \in (OpOf(p) + 1)..OpOf(q) PROVE q[i] = ViewOf(q)
      <3>1. /\ OpOf(p) \in 1..OpOf(q) /\ i \in OpOf(p)..OpOf(q) /\ i \in 1..OpOf(q)
            /\ OpOf(q) \in i..OpOf(q)
        BY <2>1
      <3>2. q[OpOf(p)] <= q[i] /\ q[i] <= q[OpOf(q)]
        BY <1>6, <3>1 DEF Lineage
      <3>3. \A k \in 1..OpOf(q) : q[k] \in Int
        BY ViewFacts DEF View
      <3>4. q[OpOf(p)] \in Int /\ q[i] \in Int /\ q[OpOf(q)] = q[OpOf(p)]
        BY <1>6, <2>1, <2>2, <3>1, <3>3
      <3> QED
        BY <2>2, <3>2, <3>4
    <2> QED
      BY <1>6, <2>3 DEF Continues
  <1> QED
    BY <1>1, <1>2, <1>3, <1>4, <1>5, <1>6

-----------------------------------------------------------------------------
(* The largest and the smallest of a set of numbers. *)

\* A set of naturals has a least element.
LEMMA LeastNatural ==
    ASSUME NEW T \in SUBSET Nat, T # {}
    PROVE  \E x \in T : \A y \in T : x <= y
  <1>1. PICK x \in T : \A y \in T : ~(<<y, x>> \in OpToRel(<, Nat))
    BY NatLessThanWellFounded, WFMin
  <1>2. \A y \in Nat, z \in Nat : <<y, z>> \in OpToRel(<, Nat) <=> y < z
    BY DEF OpToRel
  <1>3. ASSUME NEW y \in T PROVE x <= y
    <2>1. x \in Nat /\ y \in Nat /\ ~(y < x)
      BY <1>1, <1>2
    <2> QED
      BY <2>1
  <1> QED
    BY <1>3

\* What Max and Min choose from a set of integers that has an upper, or a lower, bound.
LEMMA MaxFacts ==
    ASSUME NEW S \in SUBSET Int, S # {}, NEW b \in Int, \A y \in S : y <= b
    PROVE  Max(S) \in S /\ \A y \in S : y <= Max(S)
  <1> DEFINE T == {n \in Nat : b - n \in S}
  <1>1. T # {}
    <2>1. PICK y \in S : TRUE
      OBVIOUS
    <2>2. y \in Int /\ b - y \in Nat /\ b - (b - y) = y
      BY <2>1
    <2> QED
      BY <2>1, <2>2
  <1>2. PICK n \in T : \A k \in T : n <= k
    BY <1>1, LeastNatural
  <1>3. \A y \in S : b - n >= y
    <2> TAKE y \in S
    <2>1. y \in Int /\ b - y \in Nat /\ b - (b - y) = y
      OBVIOUS
    <2>2. b - y \in T
      BY <2>1
    <2>3. n <= b - y
      BY <1>2, <2>2
    <2> QED
      BY <2>1, <2>3
  <1>4. \E x \in S : \A y \in S : x >= y
    BY <1>2, <1>3
  <1> QED
    BY <1>4 DEF Max

\* The least element of a set of integers that has a bound.
LEMMA MinFacts ==
    ASSUME NEW S \in SUBSET Int, S # {}, NEW b \in Int, \A y \in S : b <= y
    PROVE  Min(S) \in S /\ \A y \in S : Min(S) <= y
  <1> DEFINE T == {n \in Nat : b + n \in S}
  <1>1. T # {}
    <2>1. PICK y \in S : TRUE
      OBVIOUS
    <2>2. y \in Int /\ y - b \in Nat /\ b + (y - b) = y
      BY <2>1
    <2> QED
      BY <2>1, <2>2
  <1>2. PICK n \in T : \A k \in T : n <= k
    BY <1>1, LeastNatural
  <1>3. \A y \in S : b + n <= y
    <2> TAKE y \in S
    <2>1. y \in Int /\ y - b \in Nat /\ b + (y - b) = y
      OBVIOUS
    <2>2. y - b \in T
      BY <2>1
    <2>3. n <= y - b
      BY <1>2, <2>2
    <2> QED
      BY <2>1, <2>3
  <1>4. \E x \in S : \A y \in S : x <= y
    BY <1>2, <1>3
  <1> QED
    BY <1>4 DEF Min

\* The first and the last of an interval.
LEMMA IntervalFacts ==
    ASSUME NEW a \in Int, NEW b \in Int, a <= b
    PROVE  Min(a..b) = a /\ Max(a..b) = b
  <1>1. a..b \in SUBSET Int /\ a \in a..b /\ b \in a..b /\ \A y \in a..b : a <= y /\ y <= b
    OBVIOUS
  <1>2. Min(a..b) \in a..b /\ Min(a..b) <= a
    BY <1>1, MinFacts
  <1>3. Max(a..b) \in a..b /\ b <= Max(a..b)
    BY <1>1, MaxFacts
  <1> QED
    BY <1>2, <1>3

-----------------------------------------------------------------------------
(* Types. *)

\* None, Torn and Rotten are three values, and no prepares.
LEMMA NoneFacts ==
    None \notin Prepare /\ Torn \notin Prepare /\ Rotten \notin Prepare
        /\ None # Torn /\ None # Rotten /\ Torn # Rotten
  <1>1. ASSUME NEW a, NEW b PROVE Cardinality({a, b}) <= 2 /\ Cardinality({a, b}) \in Nat
    <2>1. IsFiniteSet({a}) /\ Cardinality({a}) = 1
      BY FS_Singleton
    <2>2. IsFiniteSet({a} \cup {b}) /\ Cardinality({a} \cup {b})
             = IF b \in {a} THEN Cardinality({a}) ELSE Cardinality({a}) + 1
      BY <2>1, FS_AddElement
    <2>3. {a} \cup {b} = {a, b}
      OBVIOUS
    <2> QED
      BY <2>1, <2>2, <2>3
  <1>2. \A a, b : Cardinality({a, b}) # 3
    BY <1>1
  <1>3. None # Torn
    <2>1. None = Torn => {None, Torn, Rotten} = {None, Rotten}
      OBVIOUS
    <2> QED
      BY <1>2, <2>1, NoneAssumption
  <1>4. None # Rotten
    <2>1. None = Rotten => {None, Torn, Rotten} = {None, Torn}
      OBVIOUS
    <2> QED
      BY <1>2, <2>1, NoneAssumption
  <1>5. Torn # Rotten
    <2>1. Torn = Rotten => {None, Torn, Rotten} = {None, Torn}
      OBVIOUS
    <2> QED
      BY <1>2, <2>1, NoneAssumption
  <1> QED
    BY <1>3, <1>4, <1>5, NoneAssumption

\* What a step of replica r leaves alone: everything of the others.
SameAt(q) ==
    /\ status'[q] = status[q] /\ view'[q] = view[q] /\ log_view'[q] = log_view[q]
    /\ view_headers'[q] = view_headers[q] /\ dvc_quorum'[q] = dvc_quorum[q]
    /\ durable'[q] = durable[q] /\ op'[q] = op[q] /\ commit_min'[q] = commit_min[q]
    /\ commit_max'[q] = commit_max[q] /\ journal'[q] = journal[q] /\ disk'[q] = disk[q]
    /\ writing'[q] = writing[q] /\ incarnation'[q] = incarnation[q]
Others(r) == Functions' /\ \A q \in Replica \ {r} : SameAt(q)

\* No variable of another replica is changed by a step of r.
LEMMA LogStepsOthers ==
    ASSUME TypeInv, NEW r \in Replica,
           \/ OnRequest(r) \/ PrimaryCommit(r) \/ SendCommit(r) \/ CommitJournal(r)
           \/ \E p \in prepared : OnPrepare(r, p) \/ RepairHeader(r, p) \/ OnRepair(r, p)
           \/ \E m \in commits : OnCommit(r, m)
           \/ \E o \in Op : WriteDone(r, o)
    PROVE  Others(r)
  <1>0. Functions
    BY DEF TypeInv
  <1>1. CASE OnRequest(r)
    BY <1>0, <1>1 DEF OnRequest, AppendPrepare, WritePrepare, Functions, Others, SameAt, viewVars, commitVars
  <1>2. CASE PrimaryCommit(r)
    BY <1>0, <1>2 DEF PrimaryCommit, Functions, Others, SameAt, viewVars, diskVars, logVars
  <1>3. CASE SendCommit(r)
    BY <1>0, <1>3 DEF SendCommit, Functions, Others, SameAt, viewVars, diskVars, logVars, commitVars
  <1>4. CASE CommitJournal(r)
    BY <1>0, <1>4 DEF CommitJournal, Functions, Others, SameAt, viewVars, diskVars, logVars
  <1>5. ASSUME NEW p, OnPrepare(r, p) PROVE Others(r)
    BY <1>0, <1>5 DEF OnPrepare, AppendPrepare, WritePrepare, Functions, Others, SameAt, viewVars
  <1>6. ASSUME NEW p, RepairHeader(r, p) PROVE Others(r)
    BY <1>0, <1>6 DEF RepairHeader, Functions, Others, SameAt, viewVars, commitVars, diskVars
  <1>7. ASSUME NEW p, OnRepair(r, p) PROVE Others(r)
    BY <1>0, <1>7 DEF OnRepair, WritePrepare, Functions, Others, SameAt, viewVars, commitVars
  <1>8. ASSUME NEW m, OnCommit(r, m) PROVE Others(r)
    BY <1>0, <1>8 DEF OnCommit, Functions, Others, SameAt, viewVars, logVars, diskVars
  <1>9. ASSUME NEW o, WriteDone(r, o) PROVE Others(r)
    <2>1. PICK p : /\ disk' = [disk EXCEPT ![r][o] = p]
                   /\ writing' = [writing EXCEPT ![r][o] = None]
                   /\ journal' = [journal EXCEPT ![r][o] =
                                    IF @.header = p THEN CleanSlot(p) ELSE [@ EXCEPT !.dirty = TRUE]]
                   /\ UNCHANGED <<viewVars, durable, op, commitVars, incarnation>>
      BY <1>9 DEF WriteDone
    <2> QED
      BY <1>0, <2>1 DEF Functions, Others, SameAt, viewVars, commitVars
  <1>10. CASE \E p \in prepared : OnPrepare(r, p) \/ RepairHeader(r, p) \/ OnRepair(r, p)
    <2>1. PICK p : OnPrepare(r, p) \/ RepairHeader(r, p) \/ OnRepair(r, p)
      BY <1>10
    <2> QED
      BY <2>1, <1>5, <1>6, <1>7
  <1> QED
    BY <1>1, <1>2, <1>3, <1>4, <1>8, <1>9, <1>10

\* A view change, a superblock write or a restart of one replica is of that replica alone.
LEMMA ViewStepsOthers ==
    ASSUME TypeInv, NEW r \in Replica,
           \/ \E v : ViewChangeTo(r, v)
           \/ DoViewChangeTimeout(r) \/ OnDoViewChange(r)
           \/ \E nonce : PrimarySendStartView(r, nonce)
           \/ StartViewAsTheNewPrimary(r)
           \/ \E m \in start_views : OnStartView(r, m)
           \/ ViewDurableUpdate(r)
           \/ Crash(r)
    PROVE  Others(r)
  <1>0. Functions
    BY DEF TypeInv
  <1>1. ASSUME NEW v, ViewChangeTo(r, v) PROVE Others(r)
    BY <1>0, <1>1 DEF ViewChangeTo, Functions, Others, SameAt, commitVars, diskVars, logVars
  <1>2. CASE DoViewChangeTimeout(r)
    BY <1>0, <1>2 DEF DoViewChangeTimeout, Functions, Others, SameAt, viewVars, commitVars, diskVars, logVars
  <1>3. CASE OnDoViewChange(r)
    BY <1>0, <1>3 DEF OnDoViewChange, Functions, Others, SameAt, viewVars, commitVars, diskVars, logVars
  <1>4. ASSUME NEW nonce, PrimarySendStartView(r, nonce) PROVE Others(r)
    BY <1>0, <1>4 DEF PrimarySendStartView, Functions, Others, SameAt, commitVars, diskVars, logVars
  <1>5. CASE StartViewAsTheNewPrimary(r)
    BY <1>0, <1>5 DEF StartViewAsTheNewPrimary, Functions, Others, SameAt, commitVars, diskVars, logVars
  <1>6. ASSUME NEW m, OnStartView(r, m) PROVE Others(r)
    BY <1>0, <1>6 DEF OnStartView, Functions, Others, SameAt, diskVars
  <1>7. CASE ViewDurableUpdate(r)
    BY <1>0, <1>7 DEF ViewDurableUpdate, Functions, Others, SameAt, viewVars, commitVars, diskVars, logVars
  <1>8. CASE Crash(r)
    <2>1. PICK slots : CrashRestart(r, slots)
      BY <1>8, Zenon DEF Crash
    <2> QED
      BY <1>0, <2>1 DEF CrashRestart, Functions, Others, SameAt
  <1> QED
    BY <1>1, <1>2, <1>3, <1>4, <1>5, <1>6, <1>7, <1>8

-----------------------------------------------------------------------------
\* Known prepares, and the ancestors of each.
LEMMA KnownFacts ==
    ASSUME TypeInv
    PROVE  /\ Known \subseteq Prepare /\ prepared \subseteq Prepare /\ Root \in Known
           /\ \A p \in Known : \A o \in 0..OpOf(p) : Ancestor(p, o) \in Known
           /\ \A p \in Known : p # None /\ p # Torn /\ p # Rotten
                               /\ (OpOf(p) = 0 <=> p = Root) /\ (p # Root => p \in prepared)
           /\ \A p \in prepared : p # Root /\ p \in Known
  <1>1. Known \subseteq Prepare /\ prepared \subseteq Prepare /\ Root \in Known
    BY OpFacts DEF TypeInv, PreparedTypes, Known
  <1>2. ASSUME NEW p \in Known, NEW o \in 0..OpOf(p) PROVE Ancestor(p, o) \in Known
    <2>1. CASE p = Root
      BY <2>1, OpFacts, AncestorOfAncestor DEF Known
    <2>2. CASE p # Root
      BY <2>2 DEF TypeInv, PreparedTypes, Known
    <2> QED
      BY <2>1, <2>2
  <1>3. \A p \in Known : OpOf(p) = 0 <=> p = Root
    BY <1>1, OpFacts
  <1> QED
    BY <1>1, <1>2, <1>3, NoneFacts DEF TypeInv, PreparedTypes, Known

\* The header of the head.
LEMMA HeadFacts ==
    ASSUME TypeInv, NEW r \in Replica
    PROVE  /\ HeadHeader(r) \in Known /\ HeadHeader(r) \in Prepare /\ HeadHeader(r) # None
           /\ OpOf(HeadHeader(r)) = op[r] /\ op[r] \in Op /\ op[r] \in Nat /\ op[r] <= OpMax
           /\ HeadHeader(r) = journal[r][op[r]].header
  BY KnownFacts, OpFacts
     DEF TypeInv, LocalTypes, ReplicaTypes, JournalTypes, HeadersOf, HeadHeader, Op

\* What is known stays known.
LEMMA KnownGrows ==
    ASSUME prepared \subseteq prepared'
    PROVE  /\ Known \subseteq Known' /\ \A o : HeadersOf(o) \subseteq HeadersOf(o)'
           /\ \A h : IsHeaders(h) => IsHeaders(h)'
  BY DEF Known, HeadersOf, IsHeaders

\* What a step leaves alone keeps its type when prepares are added.
LEMMA SameTypes ==
    ASSUME TypeInv, NEW r \in Replica, prepared \subseteq prepared'
    PROVE  /\ UNCHANGED <<status, view, log_view, dvc_quorum, op, commit_min, commit_max,
                          incarnation>> => ReplicaTypes(r)'
           /\ journal'[r] = journal[r] /\ op'[r] = op[r] => JournalTypes(r)'
           /\ disk'[r] = disk[r] /\ writing'[r] = writing[r] => DiskTypes(r)'
           /\ view_headers'[r] = view_headers[r] /\ durable'[r] = durable[r] => HeadersTypes(r)'
           /\ /\ UNCHANGED <<status, view, dvc_quorum, op, commit_max>>
              /\ \A o \in Op : journal'[r][o].header = None => journal[r][o].header = None
              => LeaderLog(r)'
  <1>1. UNCHANGED <<status, view, log_view, dvc_quorum, op, commit_min, commit_max, incarnation>>
            => ReplicaTypes(r)'
    BY DEF TypeInv, LocalTypes, ReplicaTypes
  <1>2. journal'[r] = journal[r] /\ op'[r] = op[r] => JournalTypes(r)'
    BY KnownGrows DEF TypeInv, LocalTypes, JournalTypes, HeadHeader
  <1>3. disk'[r] = disk[r] /\ writing'[r] = writing[r] => DiskTypes(r)'
    BY KnownGrows DEF TypeInv, LocalTypes, DiskTypes
  <1>4. view_headers'[r] = view_headers[r] /\ durable'[r] = durable[r] => HeadersTypes(r)'
    BY KnownGrows DEF TypeInv, LocalTypes, HeadersTypes
  <1>5. ASSUME UNCHANGED <<status, view, dvc_quorum, op, commit_max>>,
               \A o \in Op : journal'[r][o].header = None => journal[r][o].header = None
        PROVE  LeaderLog(r)'
    <2>1. \A o \in 0..op[r] : o \in Op
      BY CountsAssumption DEF TypeInv, LocalTypes, ReplicaTypes, Op
    <2> QED
      BY <1>5, <2>1 DEF TypeInv, LocalTypes, LeaderLog
  <1> QED
    BY <1>1, <1>2, <1>3, <1>4, <1>5

\* What a step of r must do to keep the types.
SentTypesNow ==
    /\ \A m \in prepare_oks' \ prepare_oks : PrepareOkTypes(m)'
    /\ \A m \in do_view_changes' \ do_view_changes : DoViewChangeTypes(m)'
    /\ \A m \in start_views' \ start_views : StartViewTypes(m)'
    /\ \A m \in commits' \ commits : CommitTypes(m)'

TypeStep(r) ==
    Others(r) /\ LocalTypes(r)' /\ prepared \subseteq prepared' /\ PreparedTypes' /\ SentTypesNow

\* The types hold after a step that keeps those of the one replica that takes it.
LEMMA TypeStepInv ==
    ASSUME TypeInv, NEW r \in Replica, TypeStep(r)
    PROVE  TypeInv'
  <1>1. prepared \subseteq prepared' /\ Functions' /\ PreparedTypes'
    BY DEF TypeStep, Others
  <1>2. ASSUME NEW q \in Replica PROVE LocalTypes(q)'
    <2>1. CASE q = r
      BY <2>1 DEF TypeStep
    <2>2. CASE q # r
      <3>1. SameAt(q)
        BY <2>2 DEF TypeStep, Others
      <3>2. JournalTypes(q)' /\ DiskTypes(q)' /\ HeadersTypes(q)'
        BY <1>1, <3>1, SameTypes DEF SameAt
      <3>3. ReplicaTypes(q)' /\ LeaderLog(q)'
        BY <3>1 DEF TypeInv, LocalTypes, ReplicaTypes, LeaderLog, SameAt
      <3> QED
        BY <3>2, <3>3 DEF LocalTypes
    <2> QED
      BY <2>1, <2>2
  <1>3. MessageTypes'
    <2>1. \A m \in prepare_oks' : PrepareOkTypes(m)'
      BY <1>1 DEF TypeStep, SentTypesNow, TypeInv, MessageTypes, PrepareOkTypes
    <2>2. \A m \in do_view_changes' : DoViewChangeTypes(m)'
      BY <1>1, KnownGrows DEF TypeStep, SentTypesNow, TypeInv, MessageTypes, DoViewChangeTypes
    <2>3. \A m \in start_views' : StartViewTypes(m)'
      BY <1>1, KnownGrows DEF TypeStep, SentTypesNow, TypeInv, MessageTypes, StartViewTypes
    <2>4. \A m \in commits' : CommitTypes(m)'
      BY <1>1, KnownGrows DEF TypeStep, SentTypesNow, TypeInv, MessageTypes, CommitTypes
    <2> QED
      BY <2>1, <2>2, <2>3, <2>4 DEF MessageTypes
  <1> QED
    BY <1>1, <1>2, <1>3 DEF TypeInv

\* A slot after its header was set.
LEMMA SetHeaderFacts ==
    ASSUME NEW slot \in Slot, NEW p \in Prepare
    PROVE  SetHeader(slot, p) \in Slot /\ SetHeader(slot, p).header = p
  BY DEF SetHeader, Slot

\* A slot that was written, or found to be dirty.
LEMMA SlotFacts ==
    ASSUME NEW slot \in Slot, NEW p \in Prepare
    PROVE  /\ CleanSlot(p) \in Slot /\ CleanSlot(p).header = p
           /\ [slot EXCEPT !.dirty = TRUE] \in Slot
           /\ [slot EXCEPT !.dirty = TRUE].header = slot.header
  BY DEF CleanSlot, Slot

\* A log after one of its headers was set.
LEMMA JournalAfterSet ==
    ASSUME TypeInv, NEW r \in Replica, NEW p \in Prepare,
           journal' = [journal EXCEPT ![r][OpOf(p)] = SetHeader(@, p)]
    PROVE  /\ journal'[r] \in [Op -> Slot] /\ journal'[r][OpOf(p)].header = p
           /\ \A o \in Op \ {OpOf(p)} : journal'[r][o] = journal[r][o]
           /\ \A o \in Op : journal'[r][o].header = None => journal[r][o].header = None
  <1>1. journal[r] \in [Op -> Slot] /\ OpOf(p) \in Op
    BY OpFacts DEF TypeInv, LocalTypes, JournalTypes
  <1>2. journal'[r] = [journal[r] EXCEPT ![OpOf(p)] = SetHeader(journal[r][OpOf(p)], p)]
    BY DEF TypeInv, Functions
  <1>3. journal'[r] \in [Op -> Slot] /\ journal'[r][OpOf(p)].header = p
    BY <1>1, <1>2, SetHeaderFacts
  <1>4. \A o \in Op \ {OpOf(p)} : journal'[r][o] = journal[r][o]
    BY <1>1, <1>2
  <1> QED
    BY <1>3, <1>4, NoneFacts

\* Setting one header of a log keeps its types, if the head stays a header.
LEMMA SetHeaderTypes ==
    ASSUME TypeInv, NEW r \in Replica, prepared \subseteq prepared',
           NEW p \in Known', Known' \subseteq Prepare, OpOf(p) \in Op,
           journal' = [journal EXCEPT ![r][OpOf(p)] = SetHeader(@, p)],
           op'[r] \in Op, op'[r] = op[r] \/ op'[r] = OpOf(p)
    PROVE  JournalTypes(r)'
  <1>1. /\ journal[r] \in [Op -> Slot] /\ \A o \in Op : journal[r][o].header \in HeadersOf(o)
        /\ journal[r][op[r]].header # None
    BY DEF TypeInv, LocalTypes, JournalTypes, HeadHeader
  <1>2. /\ journal'[r] \in [Op -> Slot] /\ journal'[r][OpOf(p)].header = p
        /\ \A o \in Op \ {OpOf(p)} : journal'[r][o] = journal[r][o]
    BY <1>1, JournalAfterSet
  <1>3. p # None /\ p \in HeadersOf(OpOf(p))'
    BY NoneFacts DEF HeadersOf
  <1> QED
    BY <1>1, <1>2, <1>3, KnownGrows DEF JournalTypes, HeadHeader

\* Starting the write of a prepare.
LEMMA WritePrepareTypes ==
    ASSUME TypeInv, NEW r \in Replica, prepared \subseteq prepared',
           NEW p \in Known', p # Root, p \in Prepare, OpOf(p) \in Op,
           WritePrepare(r, p), disk' = disk
    PROVE  DiskTypes(r)'
  <1>1. /\ writing[r] \in [Op -> Prepare \cup {None}]
        /\ \A o \in Op : writing[r][o] \in HeadersOf(o) \ {Root}
        /\ disk[r] \in [Op -> Prepare \cup {None, Torn, Rotten}]
        /\ \A o \in Op : disk[r][o] \in HeadersOf(o) \cup {Torn, Rotten}
    BY DEF TypeInv, LocalTypes, DiskTypes
  <1>2. /\ writing'[r] \in [Op -> Prepare \cup {None}]
        /\ \A o \in Op : writing'[r][o] = writing[r][o] \/ (writing'[r][o] = p /\ o = OpOf(p))
    BY <1>1 DEF WritePrepare, TypeInv, Functions
  <1>3. p \in HeadersOf(OpOf(p))'
    BY DEF HeadersOf
  <1> QED
    BY <1>1, <1>2, <1>3, KnownGrows DEF DiskTypes

-----------------------------------------------------------------------------
(* The types through each step. *)

\* No message was sent.
LEMMA QuietTypes ==
    ASSUME UNCHANGED <<prepare_oks, do_view_changes, start_views, commits>>
    PROVE  SentTypesNow
  BY DEF SentTypesNow

\* Without a new prepare, what is known of prepares stays.
LEMMA SamePrepared ==
    ASSUME TypeInv, UNCHANGED <<prepared, committed>>
    PROVE  prepared \subseteq prepared' /\ PreparedTypes' /\ Known' = Known
  BY DEF TypeInv, PreparedTypes, Known

\* A new prepare has the primary's head as its parent and is of its view (on_request).
LEMMA OnRequestTypes ==
    ASSUME TypeInv, IInv, NEW r \in Replica, OnRequest(r)
    PROVE  TypeStep(r)
  <1> DEFINE p == NewPrepare(r)
  <1>1. /\ op[r] < OpMax /\ prepared' = prepared \cup {p} /\ AppendPrepare(r, p)
        /\ UNCHANGED <<viewVars, durable, commitVars, incarnation,
                       prepare_oks, do_view_changes, start_views, commits>>
    BY Zenon DEF OnRequest
  <1>2. /\ p \in Prepare /\ OpOf(p) = op[r] + 1 /\ p # Root /\ HeadHeader(r) \preceq p
        /\ op[r] \in Nat /\ OpOf(p) \in Op
    <2>1. view[r] \in View
      BY DEF TypeInv, LocalTypes, ReplicaTypes
    <2> QED
      BY <1>1, <2>1, HeadFacts, AppendFacts, OpFacts DEF NewPrepare
  <1> HIDE DEF p
  <1>3. p \in Known' /\ Known' \subseteq Prepare
    BY <1>1, <1>2, KnownFacts DEF Known
  <1>4. PreparedTypes'
    <2>1. ASSUME NEW q \in prepared', NEW o \in 0..OpOf(q) PROVE Ancestor(q, o) \in Known'
      <3>1. CASE q \in prepared
        BY <1>1, <3>1, KnownFacts DEF Known
      <3>2. CASE q = p /\ o = OpOf(p)
        BY <1>2, <1>3, <3>2, AncestorOfAncestor
      <3>3. CASE q = p /\ o # OpOf(p)
        <4>1. o \in 0..OpOf(HeadHeader(r)) /\ Ancestor(q, o) = Ancestor(HeadHeader(r), o)
          BY <1>2, <3>3, HeadFacts, BeginsFacts
        <4> QED
          BY <1>1, <4>1, HeadFacts, KnownFacts, KnownGrows
      <3> QED
        BY <1>1, <3>1, <3>2, <3>3
    <2> QED
      BY <1>1, <1>2, <2>1, KnownGrows DEF PreparedTypes, TypeInv, commitVars
  <1>5. JournalTypes(r)'
    <2>1. /\ journal' = [journal EXCEPT ![r][OpOf(p)] = SetHeader(@, p)]
          /\ op' = [op EXCEPT ![r] = OpOf(p)]
      BY <1>1 DEF AppendPrepare
    <2>2. op'[r] = OpOf(p)
      BY <2>1 DEF TypeInv, Functions
    <2> QED
      BY <1>1, <1>2, <1>3, <2>1, <2>2, SetHeaderTypes
  <1>6. DiskTypes(r)'
    BY <1>1, <1>2, <1>3, WritePrepareTypes DEF AppendPrepare
  <1>7. ReplicaTypes(r)'
    BY <1>1, <1>2 DEF AppendPrepare, TypeInv, LocalTypes, ReplicaTypes, Functions, viewVars,
       commitVars
  <1>8. HeadersTypes(r)'
    BY <1>1, SameTypes DEF viewVars
  <1>9. LeaderLog(r)'
    <2>1. /\ journal' = [journal EXCEPT ![r][OpOf(p)] = SetHeader(@, p)]
          /\ op' = [op EXCEPT ![r] = OpOf(p)] /\ op'[r] = op[r] + 1 /\ commit_max' = commit_max
          /\ status[r] = "normal" /\ r = PrimaryIndex(view[r]) /\ UNCHANGED viewVars
      BY <1>1, <1>2 DEF AppendPrepare, TypeInv, Functions, commitVars, OnRequest
    <2>2. /\ journal[r] \in [Op -> Slot] /\ commit_max[r] <= op[r] /\ commit_max[r] \in Nat
          /\ \A o \in 0..op[r] : journal[r][o].header # None
      BY <2>1, OpFacts
         DEF TypeInv, LocalTypes, LeaderLog, JournalTypes, ReplicaTypes
    <2>3. ASSUME NEW o \in 0..op'[r] PROVE journal'[r][o].header # None
      <3>1. o \in Op
        BY <1>2, <2>1, CountsAssumption DEF Op
      <3>2. CASE o = OpOf(p)
        <4>1. journal'[r][OpOf(p)].header = p
          BY <1>2, <2>1, JournalAfterSet
        <4>2. p # None
          BY <1>2, NoneFacts
        <4> QED
          BY <3>2, <4>1, <4>2
      <3>3. CASE o # OpOf(p)
        BY <1>2, <2>1, <2>2, <3>1, <3>3, JournalAfterSet
      <3> QED
        BY <3>2, <3>3
    <2> QED
      BY <1>2, <2>1, <2>2, <2>3 DEF LeaderLog, viewVars
  <1> QED
    BY <1>1, <1>4, <1>5, <1>6, <1>7, <1>8, <1>9, LogStepsOthers, QuietTypes
       DEF TypeStep, LocalTypes

\* A backup's new head is the prepare it received (on_prepare).
LEMMA OnPrepareTypes ==
    ASSUME TypeInv, IInv, NEW r \in Replica, NEW p \in prepared, OnPrepare(r, p)
    PROVE  TypeStep(r)
  <1>1. /\ AppendPrepare(r, p)
        /\ commit_max' = [commit_max EXCEPT ![r] = HigherOf(@, OpOf(p) - PipelineMax)]
        /\ UNCHANGED <<viewVars, durable, commit_min, committed, incarnation, netVars>>
    BY Zenon DEF OnPrepare
  <1>2. /\ p \in Prepare /\ OpOf(p) \in Op /\ p # Root /\ OpOf(p) \in Nat
    BY KnownFacts, OpFacts
  <1>3. /\ prepared \subseteq prepared' /\ PreparedTypes' /\ Known' = Known /\ p \in Known'
        /\ Known' \subseteq Prepare /\ SentTypesNow
    BY <1>1, SamePrepared, KnownFacts, QuietTypes DEF netVars
  <1>5. JournalTypes(r)'
    <2>1. /\ journal' = [journal EXCEPT ![r][OpOf(p)] = SetHeader(@, p)]
          /\ op' = [op EXCEPT ![r] = OpOf(p)]
      BY <1>1 DEF AppendPrepare
    <2>2. op'[r] = OpOf(p)
      BY <2>1 DEF TypeInv, Functions
    <2> QED
      BY <1>1, <1>2, <1>3, <2>1, <2>2, SetHeaderTypes
  <1>6. DiskTypes(r)'
    BY <1>1, <1>2, <1>3, WritePrepareTypes DEF AppendPrepare
  <1>7. ReplicaTypes(r)'
    <2>1. commit_max'[r] \in Op
      BY <1>1, <1>2, CountsAssumption DEF TypeInv, LocalTypes, ReplicaTypes, Functions, HigherOf, Op
    <2> QED
      BY <1>1, <1>2, <2>1 DEF AppendPrepare, TypeInv, LocalTypes, ReplicaTypes, Functions, viewVars
  <1>8. HeadersTypes(r)'
    BY <1>1, <1>3, SameTypes DEF viewVars
  <1>9. LeaderLog(r)'
    <2>1. status[r] = "normal" /\ r # PrimaryIndex(view[r]) /\ ~dvc_quorum[r]
      BY DEF OnPrepare, IInv, ViewOrder
    <2> QED
      BY <1>1, <2>1 DEF LeaderLog, viewVars
  <1> QED
    BY <1>3, <1>5, <1>6, <1>7, <1>8, <1>9, LogStepsOthers DEF TypeStep, LocalTypes

\* What a replica acknowledges of its own log are prepares.
LEMMA UncommittedTypes ==
    ASSUME NEW r \in Replica, ReplicaTypes(r)', JournalTypes(r)'
    PROVE  Uncommitted(r)' \subseteq prepared'
  <1> SUFFICES ASSUME NEW o \in (commit_max'[r] + 1)..op'[r], journal'[r][o].header # None
               PROVE  journal'[r][o].header \in prepared'
    BY DEF Uncommitted
  <1>1. o \in Op /\ o # 0
    BY CountsAssumption DEF ReplicaTypes, Op
  <1> QED
    BY <1>1, OpFacts DEF JournalTypes, HeadersOf, Known

\* A repaired header takes the slot of its own op (repair_header).
LEMMA RepairHeaderTypes ==
    ASSUME TypeInv, NEW r \in Replica, NEW p \in prepared, RepairHeader(r, p)
    PROVE  TypeStep(r)
  <1>1. /\ journal' = [journal EXCEPT ![r][OpOf(p)] = SetHeader(@, p)]
        /\ UNCHANGED <<viewVars, durable, op, commitVars, diskVars, incarnation, netVars>>
    BY Zenon DEF RepairHeader
  <1>2. p \in Prepare /\ OpOf(p) \in Op /\ op[r] \in Op
    BY KnownFacts, OpFacts, HeadFacts
  <1>3. /\ prepared \subseteq prepared' /\ PreparedTypes' /\ p \in Known'
        /\ Known' \subseteq Prepare /\ SentTypesNow
    BY <1>1, SamePrepared, KnownFacts, QuietTypes DEF netVars, commitVars
  <1>4. JournalTypes(r)'
    BY <1>1, <1>2, <1>3, SetHeaderTypes
  <1>5. ReplicaTypes(r)' /\ DiskTypes(r)' /\ HeadersTypes(r)'
    BY <1>1, <1>3, SameTypes DEF viewVars, diskVars, commitVars
  <1>6. LeaderLog(r)'
    <2>1. \A o \in Op : journal'[r][o].header = None => journal[r][o].header = None
      BY <1>1, <1>2, JournalAfterSet
    <2> QED
      BY <1>1, <1>3, <2>1, SameTypes DEF viewVars, commitVars
  <1> QED
    BY <1>3, <1>4, <1>5, <1>6, LogStepsOthers DEF TypeStep, LocalTypes

\* A repaired prepare starts its write in the slot of its own op (on_repair).
LEMMA OnRepairTypes ==
    ASSUME TypeInv, NEW r \in Replica, NEW p \in prepared, OnRepair(r, p)
    PROVE  TypeStep(r)
  <1>1. /\ \/ UNCHANGED <<journal, writing>> /\ prepare_oks' = prepare_oks \cup PrepareOks(r, {p})
           \/ /\ journal' = [journal EXCEPT ![r][OpOf(p)] = SetHeader(@, p)]
              /\ WritePrepare(r, p)
              /\ UNCHANGED prepare_oks
        /\ UNCHANGED <<viewVars, durable, op, commitVars, disk, incarnation,
                       prepared, do_view_changes, start_views, commits>>
    BY Zenon DEF OnRepair
  <1>2. p \in Prepare /\ OpOf(p) \in Op /\ op[r] \in Op /\ p # Root
    BY KnownFacts, OpFacts, HeadFacts
  <1>3. /\ prepared \subseteq prepared' /\ PreparedTypes' /\ p \in Known'
        /\ Known' \subseteq Prepare
    BY <1>1, SamePrepared, KnownFacts DEF commitVars
  <1>4. JournalTypes(r)'
    BY <1>1, <1>2, <1>3, SetHeaderTypes, SameTypes
  <1>5. DiskTypes(r)'
    BY <1>1, <1>2, <1>3, WritePrepareTypes, SameTypes
  <1>6. ReplicaTypes(r)' /\ HeadersTypes(r)'
    BY <1>1, <1>3, SameTypes DEF viewVars, commitVars
  <1>7. SentTypesNow
    <2>1. \A m \in PrepareOks(r, {p}) : PrepareOkTypes(m)'
      BY <1>1 DEF PrepareOks, PrepareOkTypes, TypeInv, LocalTypes, ReplicaTypes
    <2> QED
      BY <1>1, <2>1 DEF SentTypesNow
  <1>8. LeaderLog(r)'
    <2>1. \A o \in Op : journal'[r][o].header = None => journal[r][o].header = None
      BY <1>1, <1>2, JournalAfterSet
    <2> QED
      BY <1>1, <1>3, <2>1, SameTypes DEF viewVars, commitVars
  <1> QED
    BY <1>3, <1>4, <1>5, <1>6, <1>7, <1>8, LogStepsOthers DEF TypeStep, LocalTypes

\* What a finished write leaves on disk and in the journal is of the slot's op.
LEMMA WriteDoneTypes ==
    ASSUME TypeInv, NEW r \in Replica, NEW o \in Op, WriteDone(r, o)
    PROVE  TypeStep(r)
  <1>1. PICK p \in {writing[r][o]} \ {None} :
       /\ disk' = [disk EXCEPT ![r][o] = p]
       /\ writing' = [writing EXCEPT ![r][o] = None]
       /\ journal' = [journal EXCEPT ![r][o] =
                        IF @.header = p THEN CleanSlot(p) ELSE [@ EXCEPT !.dirty = TRUE]]
       /\ UNCHANGED <<viewVars, durable, op, commitVars, incarnation>>
       /\ prepare_oks' = IF journal[r][o].header = p THEN prepare_oks \cup PrepareOks(r, {p})'
                                                     ELSE prepare_oks
       /\ UNCHANGED <<prepared, do_view_changes, start_views, commits>>
    BY Zenon DEF WriteDone
  <1>2. /\ p \in HeadersOf(o) /\ p \in prepared /\ p \in Prepare
        /\ journal[r] \in [Op -> Slot]
        /\ \A k \in Op : journal[r][k].header \in HeadersOf(k)
        /\ disk[r] \in [Op -> Prepare \cup {None, Torn, Rotten}]
        /\ \A k \in Op : disk[r][k] \in HeadersOf(k) \cup {Torn, Rotten}
        /\ writing[r] \in [Op -> Prepare \cup {None}]
        /\ \A k \in Op : writing[r][k] \in HeadersOf(k) \ {Root}
    BY <1>1, KnownFacts DEF TypeInv, LocalTypes, JournalTypes, DiskTypes, HeadersOf, Known
  <1>3. prepared \subseteq prepared' /\ PreparedTypes' /\ Known' = Known
    BY <1>1, SamePrepared DEF commitVars
  <1>9. /\ journal'[r] \in [Op -> Slot]
        /\ \A k \in Op : journal'[r][k].header = journal[r][k].header
    <2>0. journal'[r] = [journal[r] EXCEPT ![o] =
                            IF journal[r][o].header = p THEN CleanSlot(p)
                                                        ELSE [journal[r][o] EXCEPT !.dirty = TRUE]]
      BY <1>1 DEF TypeInv, Functions
    <2>1. /\ journal'[r][o] \in Slot /\ journal'[r][o].header = journal[r][o].header
          /\ DOMAIN journal'[r] = Op
      BY <1>2, <2>0, SlotFacts
    <2>2. \A k \in Op \ {o} : journal'[r][k] = journal[r][k]
      BY <1>1, <1>2 DEF TypeInv, Functions
    <2>3. journal'[r] = [k \in Op |-> journal'[r][k]]
      BY <1>1, <1>2 DEF TypeInv, Functions
    <2> QED
      BY <1>2, <2>1, <2>2, <2>3
  <1>4. JournalTypes(r)' /\ LeaderLog(r)'
    BY <1>1, <1>2, <1>9, HeadFacts, KnownGrows, SameTypes, <1>3
       DEF JournalTypes, HeadHeader, viewVars, commitVars
  <1>5. DiskTypes(r)'
    <2>1. /\ disk'[r] \in [Op -> Prepare \cup {None, Torn, Rotten}]
          /\ writing'[r] \in [Op -> Prepare \cup {None}]
          /\ \A k \in Op : disk'[r][k] = disk[r][k] \/ (k = o /\ disk'[r][k] = p)
          /\ \A k \in Op : writing'[r][k] = writing[r][k] \/ writing'[r][k] = None
      BY <1>1, <1>2 DEF TypeInv, Functions
    <2>2. None # Root
      BY NoneFacts, OpFacts
    <2> QED
      BY <1>2, <1>3, <2>1, <2>2, KnownGrows DEF DiskTypes, HeadersOf
  <1>6. ReplicaTypes(r)' /\ HeadersTypes(r)'
    BY <1>1, <1>3, SameTypes DEF viewVars, commitVars
  <1>7. SentTypesNow
    <2>1. \A m \in PrepareOks(r, {p})' : PrepareOkTypes(m)'
      BY <1>1, <1>2, <1>6 DEF PrepareOks, PrepareOkTypes, ReplicaTypes
    <2> QED
      BY <1>1, <2>1 DEF SentTypesNow
  <1> QED
    BY <1>3, <1>4, <1>5, <1>6, <1>7, LogStepsOthers DEF TypeStep, LocalTypes

\* Commits only move commit_min and commit_max, up to the head at a primary.
LEMMA CommitTypesStep ==
    ASSUME TypeInv, IInv, NEW r \in Replica,
           \/ PrimaryCommit(r) \/ SendCommit(r) \/ CommitJournal(r)
           \/ \E m \in commits : OnCommit(r, m)
    PROVE  TypeStep(r)
  <1>1. UNCHANGED <<viewVars, durable, logVars, diskVars, incarnation, prepared, prepare_oks,
                    do_view_changes, start_views>>
    BY Zenon DEF PrimaryCommit, SendCommit, CommitJournal, OnCommit, netVars
  <1>2. prepared \subseteq prepared' /\ Known' = Known
    BY <1>1 DEF Known
  <1>3. JournalTypes(r)' /\ DiskTypes(r)' /\ HeadersTypes(r)'
    BY <1>1, <1>2, SameTypes DEF viewVars, diskVars, logVars
  <1>4. /\ commit_max[r] \in Op /\ commit_min[r] \in Op /\ op[r] \in Op
        /\ commit_max[r] \in Nat /\ commit_min[r] \in Nat /\ op[r] \in Nat
        /\ op[r] <= OpMax /\ OpMax \in Nat
    BY CountsAssumption DEF TypeInv, LocalTypes, ReplicaTypes, Op
  <1>5. \A o \in Op : journal[r][o].header # None => journal[r][o].header \in Known
    BY DEF TypeInv, LocalTypes, JournalTypes, HeadersOf
  <1>6. CASE PrimaryCommit(r)
    <2> DEFINE o == commit_max[r] + 1
               p == journal[r][o].header
    <2>1. /\ commit_max[r] < op[r] /\ status[r] = "normal" /\ r = PrimaryIndex(view[r])
          /\ commit_min' = [commit_min EXCEPT ![r] = o]
          /\ commit_max' = [commit_max EXCEPT ![r] = o]
          /\ committed' = committed \cup {p}
          /\ UNCHANGED commits
      BY <1>6, Zenon DEF PrimaryCommit, netVars
    <2>2. o \in Op /\ o \in 0..op[r] /\ o <= op[r]
      BY <1>4, <2>1 DEF Op
    <2>3. p \in Known
      BY <1>5, <2>1, <2>2 DEF TypeInv, LocalTypes, LeaderLog
    <2> HIDE DEF p, o
    <2>5. ReplicaTypes(r)' /\ LeaderLog(r)'
      BY <1>1, <2>1, <2>2
         DEF TypeInv, LocalTypes, ReplicaTypes, LeaderLog, Functions, viewVars, logVars
    <2>6. PreparedTypes' /\ SentTypesNow
      BY <1>1, <1>2, <2>1, <2>3 DEF PreparedTypes, TypeInv, SentTypesNow
    <2> QED
      BY <1>2, <1>3, <1>6, <2>5, <2>6, LogStepsOthers DEF TypeStep, LocalTypes
  <1>7. CASE SendCommit(r)
    <2>1. /\ status[r] = "normal" /\ r = PrimaryIndex(view[r])
          /\ commits' = commits \cup {[view |-> view[r], prepare |-> journal[r][commit_max[r]].header]}
          /\ UNCHANGED commitVars
      BY <1>7, Zenon DEF SendCommit
    <2>2. /\ ReplicaTypes(r)' /\ LeaderLog(r)' /\ PreparedTypes'
      BY <1>1, <1>2, <2>1, SameTypes, SamePrepared DEF viewVars, logVars, commitVars
    <2>3. commit_max[r] \in 0..op[r]
      BY <1>4, <2>1 DEF TypeInv, LocalTypes, LeaderLog
    <2>4. journal[r][commit_max[r]].header \in Known
      BY <1>4, <1>5, <2>1, <2>3 DEF TypeInv, LocalTypes, LeaderLog
    <2>5. SentTypesNow
      BY <1>1, <1>2, <2>1, <2>4
         DEF SentTypesNow, CommitTypes, TypeInv, LocalTypes, ReplicaTypes
    <2> QED
      BY <1>2, <1>3, <1>7, <2>2, <2>5, LogStepsOthers DEF TypeStep, LocalTypes
  <1>8. CASE CommitJournal(r)
    <2> DEFINE o == commit_min[r] + 1
               p == journal[r][o].header
    <2>1. /\ commit_min[r] < LowerOf(commit_max[r], op[r]) /\ p # None
          /\ commit_min' = [commit_min EXCEPT ![r] = o]
          /\ committed' = committed \cup {p}
          /\ UNCHANGED <<commit_max, commits>>
      BY <1>8, Zenon DEF CommitJournal, netVars
    <2>2. o \in Op
      BY <1>4, <2>1 DEF LowerOf, Op
    <2>3. p \in Known
      BY <1>5, <2>1, <2>2
    <2> HIDE DEF p, o
    <2>4. ReplicaTypes(r)'
      BY <1>1, <2>1, <2>2 DEF TypeInv, LocalTypes, ReplicaTypes, Functions, viewVars, logVars
    <2>5. LeaderLog(r)' /\ PreparedTypes' /\ SentTypesNow
      BY <1>1, <1>2, <2>1, <2>3, SameTypes
         DEF PreparedTypes, TypeInv, SentTypesNow, viewVars, logVars
    <2> QED
      BY <1>2, <1>3, <1>8, <2>4, <2>5, LogStepsOthers DEF TypeStep, LocalTypes
  <1>9. ASSUME NEW m \in commits, OnCommit(r, m) PROVE TypeStep(r)
    <2>1. /\ commit_max' = [commit_max EXCEPT ![r] = OpOf(m.prepare)]
          /\ UNCHANGED <<commit_min, committed, netVars>>
          /\ status[r] = "normal" /\ r # PrimaryIndex(view[r])
      BY <1>9, Zenon DEF OnCommit
    <2>2. OpOf(m.prepare) \in Op /\ ~dvc_quorum[r]
      BY <2>1, OpFacts, KnownFacts DEF TypeInv, MessageTypes, CommitTypes, IInv, ViewOrder
    <2>3. ReplicaTypes(r)' /\ LeaderLog(r)'
      BY <1>1, <2>1, <2>2
         DEF TypeInv, LocalTypes, ReplicaTypes, LeaderLog, Functions, viewVars, logVars
    <2>4. PreparedTypes' /\ SentTypesNow
      BY <2>1, SamePrepared, QuietTypes DEF netVars
    <2> QED
      BY <1>2, <1>3, <1>9, <2>3, <2>4, LogStepsOthers DEF TypeStep, LocalTypes
  <1> QED
    BY <1>6, <1>7, <1>8, <1>9

-----------------------------------------------------------------------------
(* View headers. *)

\* The head of view headers, and their first op.
LEMMA HeadersFacts ==
    ASSUME TypeInv, NEW h, IsHeaders(h)
    PROVE  /\ HeadOp(h) \in Op /\ Min(DOMAIN h) \in Op /\ Min(DOMAIN h) <= HeadOp(h)
           /\ DOMAIN h = Min(DOMAIN h)..HeadOp(h) /\ HeadOp(h) \in DOMAIN h
           /\ DOMAIN h \subseteq Op
           /\ h[HeadOp(h)] \in Known /\ OpOf(h[HeadOp(h)]) = HeadOp(h)
           /\ \A o \in DOMAIN h : h[o] \in HeadersOf(o)
  <1>1. PICK low \in Op, high \in Op :
            /\ low <= high /\ DOMAIN h = low..high
            /\ h[high] # None
            /\ \A o \in low..high : h[o] \in HeadersOf(o)
    BY DEF IsHeaders
  <1>2. /\ low \in Int /\ high \in Int /\ low..high \subseteq Op /\ high \in low..high
    BY <1>1, CountsAssumption DEF Op
  <1>3. Min(DOMAIN h) = low /\ HeadOp(h) = high
    BY <1>1, <1>2, IntervalFacts DEF HeadOp
  <1> QED
    BY <1>1, <1>2, <1>3 DEF HeadersOf

\* The headers of an SV are those of its head.
LEMMA StartViewHeadersFacts ==
    ASSUME TypeInv, NEW p \in Known
    PROVE  /\ IsHeaders(StartViewHeaders(p).headers)
           /\ StartViewHeaders(p).command = "start_view"
           /\ DOMAIN StartViewHeaders(p).headers = HigherOf(0, OpOf(p) - PipelineMax)..OpOf(p)
           /\ HeadOp(StartViewHeaders(p).headers) = OpOf(p)
           /\ Min(DOMAIN StartViewHeaders(p).headers) = HigherOf(0, OpOf(p) - PipelineMax)
           /\ \A o \in DOMAIN StartViewHeaders(p).headers :
                  o \in 0..OpOf(p) /\ StartViewHeaders(p).headers[o] = Ancestor(p, o)
           /\ StartViewHeaders(p).headers[OpOf(p)] = p
  <1> DEFINE low == HigherOf(0, OpOf(p) - PipelineMax)
             h == StartViewHeaders(p).headers
  <1>1. p \in Prepare /\ OpOf(p) \in Op /\ OpOf(p) \in Nat
    BY KnownFacts, OpFacts
  <1>2. low \in Op /\ low \in Nat /\ low <= OpOf(p)
    BY <1>1, CountsAssumption DEF HigherOf, Op
  <1>3. /\ StartViewHeaders(p).command = "start_view"
        /\ h = [o \in low..OpOf(p) |-> Ancestor(p, o)]
    BY DEF StartViewHeaders
  <1> HIDE DEF low, h
  <1>4. DOMAIN h = low..OpOf(p) /\ \A o \in low..OpOf(p) : o \in 0..OpOf(p) /\ h[o] = Ancestor(p, o)
    BY <1>1, <1>2, <1>3
  <1>5. HeadOp(h) = OpOf(p) /\ Min(DOMAIN h) = low
    BY <1>1, <1>2, <1>4, IntervalFacts DEF HeadOp
  <1>6. OpOf(p) \in low..OpOf(p) /\ h[OpOf(p)] = p /\ p # None
    BY <1>1, <1>2, <1>4, AncestorOfAncestor, KnownFacts
  <1>7. \A o \in low..OpOf(p) : h[o] \in HeadersOf(o)
    BY <1>1, <1>4, AncestorFacts, KnownFacts DEF HeadersOf
  <1>8. IsHeaders(h)
    BY <1>1, <1>2, <1>4, <1>6, <1>7 DEF IsHeaders
  <1> QED
    BY <1>3, <1>4, <1>5, <1>6, <1>8 DEF h, low

\* The headers of a DVC start at what is committed and end with the head, of the journal or of
\* the view headers before.
LEMMA DoViewChangeHeadersFacts ==
    ASSUME TypeInv, NEW j, NEW head \in Op, NEW cmax \in Op, NEW old, NEW repairing \in BOOLEAN,
           IsHeaders(old), \A o \in Op : j[o].header \in HeadersOf(o), j[head].header # None
    PROVE  LET d == DoViewChangeHeaders(j, head, cmax, old, repairing)
               top == IF repairing THEN head ELSE HigherOf(head, HeadOp(old))
           IN /\ IsHeaders(d.headers) /\ d.command = "do_view_change"
              /\ top \in Op /\ HeadOp(d.headers) = top
              /\ DOMAIN d.headers = LowerOf(cmax, top)..top
              /\ Min(DOMAIN d.headers) = LowerOf(cmax, top)
              /\ \A o \in DOMAIN d.headers :
                    d.headers[o] = IF j[o].header # None THEN j[o].header
                                   ELSE IF ~repairing /\ o \in DOMAIN old THEN old[o] ELSE None
  <1> DEFINE d == DoViewChangeHeaders(j, head, cmax, old, repairing)
             top == IF repairing THEN head ELSE HigherOf(head, HeadOp(old))
             low == LowerOf(cmax, top)
             h == d.headers
             value(o) == IF j[o].header # None THEN j[o].header
                         ELSE IF ~repairing /\ o \in DOMAIN old THEN old[o] ELSE None
  <1>1. HeadOp(old) \in Op /\ HeadOp(old) \in Nat /\ head \in Nat /\ cmax \in Nat
    BY HeadersFacts, OpFacts
  <1>2. /\ top \in Op /\ top \in Nat /\ (top = head \/ (~repairing /\ top = HeadOp(old)))
        /\ low \in Op /\ low \in Nat /\ low <= top
    BY <1>1 DEF HigherOf, LowerOf
  <1>3. d.command = "do_view_change" /\ h = [o \in low..top |-> value(o)]
    BY DEF DoViewChangeHeaders
  <1>4. value(top) # None
    <2>1. HeadOp(old) \in DOMAIN old /\ old[HeadOp(old)] # None
      BY HeadersFacts, KnownFacts
    <2> QED
      BY <1>2, <2>1
  <1>5. \A o \in Op : value(o) \in HeadersOf(o)
    <2>1. \A o \in DOMAIN old : old[o] \in HeadersOf(o)
      BY HeadersFacts
    <2> QED
      BY <2>1 DEF HeadersOf
  <1>8. low..top \subseteq Op /\ top \in low..top
    BY <1>2, CountsAssumption DEF Op
  <1> HIDE DEF d, top, low, h, value
  <1>6. DOMAIN h = low..top /\ HeadOp(h) = top /\ Min(DOMAIN h) = low
    BY <1>2, <1>3, IntervalFacts DEF HeadOp
  <1>7. IsHeaders(h)
    BY <1>2, <1>3, <1>4, <1>5, <1>6, <1>8 DEF IsHeaders
  <1> QED
    BY <1>2, <1>3, <1>6, <1>7 DEF d, top, low, h, value

-----------------------------------------------------------------------------
(* The types through view changes. *)

\* The DVC of a replica.
LEMMA OwnDoViewChangeTypes ==
    ASSUME NEW r \in Replica, ReplicaTypes(r)', HeadersTypes(r)'
    PROVE  DoViewChangeTypes(DoViewChange(r))'
  <1>1. /\ DoViewChange(r)'.replica = r /\ DoViewChange(r)'.view = view'[r]
        /\ DoViewChange(r)'.log_view = log_view'[r]
        /\ DoViewChange(r)'.headers = view_headers'[r].headers
        /\ DoViewChange(r)'.op = HeadOp(view_headers'[r].headers)
        /\ DoViewChange(r)'.commit_min = commit_min'[r]
    BY DEF DoViewChange
  <1> QED
    BY <1>1 DEF DoViewChangeTypes, ReplicaTypes, HeadersTypes

\* The DVC headers of a replica that leaves its view are headers, its head among them
\* (transition_to_view_change_status, update_do_view_change_headers).
LEMMA ViewChangeToTypes ==
    ASSUME TypeInv, IInv, NEW r \in Replica, NEW v \in View, ViewChangeTo(r, v)
    PROVE  TypeStep(r)
  <1>1. /\ view_headers' =
              IF log_view[r] = view[r]
              THEN [view_headers EXCEPT ![r] =
                      DoViewChangeHeaders(journal[r], op[r], commit_max[r], @.headers,
                                          status[r] = "view_change")]
              ELSE view_headers
        /\ status' = [status EXCEPT ![r] = "view_change"]
        /\ view' = [view EXCEPT ![r] = v]
        /\ dvc_quorum' = [dvc_quorum EXCEPT ![r] = FALSE]
        /\ UNCHANGED <<log_view, durable, logVars, commitVars, diskVars, incarnation>>
        /\ SendDoViewChange(r)
        /\ UNCHANGED <<prepared, prepare_oks, start_views, commits>>
    BY Zenon DEF ViewChangeTo
  <1>2. prepared \subseteq prepared' /\ PreparedTypes' /\ Known' = Known
    BY <1>1, SamePrepared DEF commitVars
  <1>3. JournalTypes(r)' /\ DiskTypes(r)'
    BY <1>1, <1>2, SameTypes DEF logVars, diskVars
  <1>4. ReplicaTypes(r)' /\ LeaderLog(r)'
    BY <1>1 DEF TypeInv, LocalTypes, ReplicaTypes, LeaderLog, Functions, logVars, commitVars
  <1>5. HeadersTypes(r)'
    <2>1. IsHeaders(view_headers'[r].headers)
      <3>1. CASE log_view[r] = view[r]
        <4>1. /\ op[r] \in Op /\ commit_max[r] \in Op /\ IsHeaders(view_headers[r].headers)
              /\ \A o \in Op : journal[r][o].header \in HeadersOf(o)
              /\ journal[r][op[r]].header # None
          BY HeadFacts DEF TypeInv, LocalTypes, ReplicaTypes, HeadersTypes, JournalTypes
        <4>2. view_headers'[r] = DoViewChangeHeaders(journal[r], op[r], commit_max[r],
                                     view_headers[r].headers, status[r] = "view_change")
          BY <1>1, <3>1 DEF TypeInv, Functions
        <4> DEFINE d == DoViewChangeHeaders(journal[r], op[r], commit_max[r],
                                     view_headers[r].headers, status[r] = "view_change")
        <4>3. IsHeaders(d.headers)
          <5> DEFINE repairing == status[r] = "view_change"
          <5>1. repairing \in BOOLEAN
            OBVIOUS
          <5> HIDE DEF repairing
          <5>2. IsHeaders(DoViewChangeHeaders(journal[r], op[r], commit_max[r],
                              view_headers[r].headers, repairing).headers)
            BY <4>1, <5>1, DoViewChangeHeadersFacts
          <5> QED
            BY <5>2 DEF repairing
        <4> QED
          BY <4>2, <4>3
      <3>2. CASE log_view[r] # view[r]
        BY <1>1, <3>2 DEF TypeInv, LocalTypes, HeadersTypes
      <3> QED
        BY <3>1, <3>2
    <2> QED
      BY <1>1, <1>2, <2>1, KnownGrows DEF TypeInv, LocalTypes, HeadersTypes
  <1>6. SentTypesNow
    <2>1. \A m \in do_view_changes' \ do_view_changes : m = DoViewChange(r)'
      BY <1>1 DEF SendDoViewChange
    <2> QED
      BY <1>1, <1>4, <1>5, <2>1, OwnDoViewChangeTypes DEF SentTypesNow
  <1> QED
    BY <1>2, <1>3, <1>4, <1>5, <1>6, ViewStepsOthers DEF TypeStep, LocalTypes

\* No variable of a replica changes.
LEMMA SameReplicaTypes ==
    ASSUME TypeInv, NEW r \in Replica,
           UNCHANGED <<viewVars, durable, logVars, commitVars, diskVars, incarnation, prepared>>
    PROVE  LocalTypes(r)' /\ prepared \subseteq prepared' /\ PreparedTypes' /\ Known' = Known
  <1>1. prepared \subseteq prepared' /\ PreparedTypes' /\ Known' = Known
    BY SamePrepared DEF commitVars
  <1>2. JournalTypes(r)' /\ DiskTypes(r)' /\ HeadersTypes(r)' /\ ReplicaTypes(r)' /\ LeaderLog(r)'
    BY <1>1, SameTypes DEF viewVars, logVars, diskVars, commitVars
  <1> QED
    BY <1>1, <1>2 DEF LocalTypes

\* A DVC sent again has its types (on_do_view_change_message_timeout).
LEMMA DoViewChangeTimeoutTypes ==
    ASSUME TypeInv, NEW r \in Replica, DoViewChangeTimeout(r)
    PROVE  TypeStep(r)
  <1>1. /\ UNCHANGED <<viewVars, durable, logVars, commitVars, diskVars, incarnation,
                       prepared, prepare_oks, start_views, commits>>
        /\ do_view_changes' = do_view_changes \cup {DoViewChange(r)}
    BY Zenon DEF DoViewChangeTimeout
  <1>2. LocalTypes(r)' /\ prepared \subseteq prepared' /\ PreparedTypes' /\ Known' = Known
    BY <1>1, SameReplicaTypes
  <1>3. DoViewChangeTypes(DoViewChange(r))'
    BY <1>2, OwnDoViewChangeTypes DEF LocalTypes
  <1>4. DoViewChange(r) = DoViewChange(r)'
    BY <1>1 DEF DoViewChange, Readable, viewVars, logVars, commitVars, diskVars
  <1>5. SentTypesNow
    BY <1>1, <1>3, <1>4 DEF SentTypesNow
  <1> QED
    BY <1>2, <1>5, ViewStepsOthers DEF TypeStep

\* An SV carries the head's header and what its sender knows committed.
LEMMA StartViewTypesOf ==
    ASSUME TypeInv, NEW r \in Replica, NEW nonce
    PROVE  StartViewTypes(StartView(r, nonce))
  BY HeadFacts DEF StartView, StartViewTypes, TypeInv, LocalTypes, ReplicaTypes

\* The SV headers a primary makes for a message are headers up to its head.
LEMMA PrimarySendStartViewTypes ==
    ASSUME TypeInv, NEW r \in Replica, NEW nonce, PrimarySendStartView(r, nonce)
    PROVE  TypeStep(r)
  <1>1. /\ view_headers' = [view_headers EXCEPT ![r] = StartViewHeaders(HeadHeader(r))]
        /\ start_views' \subseteq start_views \cup {StartView(r, nonce)}
        /\ UNCHANGED <<status, view, log_view, dvc_quorum, durable, logVars, commitVars, diskVars,
                       incarnation, prepared, prepare_oks, do_view_changes, commits>>
    BY DEF PrimarySendStartView
  <1>2. prepared \subseteq prepared' /\ PreparedTypes' /\ Known' = Known
    BY <1>1, SamePrepared DEF commitVars
  <1>3. JournalTypes(r)' /\ DiskTypes(r)' /\ ReplicaTypes(r)' /\ LeaderLog(r)'
    BY <1>1, <1>2, SameTypes DEF logVars, diskVars, commitVars
  <1>4. HeadersTypes(r)'
    <2>1. view_headers'[r] = StartViewHeaders(HeadHeader(r))
      BY <1>1 DEF TypeInv, Functions
    <2>2. IsHeaders(view_headers'[r].headers)
      BY <2>1, HeadFacts, StartViewHeadersFacts
    <2> QED
      BY <1>1, <1>2, <2>2, KnownGrows DEF TypeInv, LocalTypes, HeadersTypes
  <1>5. SentTypesNow
    <2>2. \A m \in start_views' \ start_views : StartViewTypes(m)'
      BY <1>1, <1>2, StartViewTypesOf DEF StartViewTypes
    <2> QED
      BY <1>1, <2>2 DEF SentTypesNow
  <1> QED
    BY <1>2, <1>3, <1>4, <1>5, ViewStepsOthers DEF TypeStep, LocalTypes

\* A primary that starts its view has its log whole (primary_start_view_as_the_new_primary).
LEMMA StartViewAsTheNewPrimaryTypes ==
    ASSUME TypeInv, IInv, NEW r \in Replica, StartViewAsTheNewPrimary(r)
    PROVE  TypeStep(r)
  <1>1. /\ dvc_quorum[r] /\ HeadersRepaired(r)
        /\ status' = [status EXCEPT ![r] = "normal"]
        /\ dvc_quorum' = [dvc_quorum EXCEPT ![r] = FALSE]
        /\ UNCHANGED <<view, log_view, view_headers, durable, logVars, commitVars, diskVars,
                       incarnation>>
        /\ prepare_oks' = prepare_oks \cup PrepareOks(r, Uncommitted(r))'
        /\ UNCHANGED <<prepared, do_view_changes, start_views, commits>>
    BY Zenon DEF StartViewAsTheNewPrimary
  <1>2. prepared \subseteq prepared' /\ PreparedTypes' /\ Known' = Known
    BY <1>1, SamePrepared DEF commitVars
  <1>3. JournalTypes(r)' /\ DiskTypes(r)' /\ HeadersTypes(r)'
    BY <1>1, <1>2, SameTypes DEF logVars, diskVars
  <1>4. ReplicaTypes(r)' /\ LeaderLog(r)'
    BY <1>1 DEF TypeInv, LocalTypes, ReplicaTypes, LeaderLog, Functions, logVars, commitVars,
       HeadersRepaired, HashChain
  <1>5. SentTypesNow
    <2>1. Uncommitted(r)' \subseteq prepared'
      BY <1>3, <1>4, UncommittedTypes
    <2>2. \A m \in PrepareOks(r, Uncommitted(r))' : PrepareOkTypes(m)'
      BY <1>4, <2>1 DEF PrepareOks, PrepareOkTypes, ReplicaTypes
    <2> QED
      BY <1>1, <2>2 DEF SentTypesNow
  <1> QED
    BY <1>2, <1>3, <1>4, <1>5, ViewStepsOthers DEF TypeStep, LocalTypes

\* What the superblock keeps of a replica's views is what memory had (view_durable_update).
LEMMA ViewDurableUpdateTypes ==
    ASSUME TypeInv, NEW r \in Replica, ViewDurableUpdate(r)
    PROVE  TypeStep(r)
  <1>1. /\ UNCHANGED <<viewVars, logVars, commitVars, diskVars, incarnation, prepared, commits>>
        /\ durable' = [durable EXCEPT ![r] =
                          [view |-> view[r], log_view |-> log_view[r],
                           commit_max |-> commit_max[r], view_headers |-> view_headers[r]]]
    BY Zenon DEF ViewDurableUpdate
  <1>2. prepared \subseteq prepared' /\ PreparedTypes' /\ Known' = Known
    BY <1>1, SamePrepared DEF commitVars
  <1>3. JournalTypes(r)' /\ DiskTypes(r)' /\ ReplicaTypes(r)' /\ LeaderLog(r)'
    BY <1>1, <1>2, SameTypes DEF viewVars, logVars, diskVars, commitVars
  <1>4. HeadersTypes(r)'
    <2>1. /\ durable'[r].view = view[r] /\ durable'[r].log_view = log_view[r]
          /\ durable'[r].commit_max = commit_max[r] /\ durable'[r].view_headers = view_headers[r]
      BY <1>1 DEF TypeInv, Functions
    <2> QED
      BY <1>1, <1>2, <2>1, KnownGrows
         DEF TypeInv, LocalTypes, HeadersTypes, ReplicaTypes, viewVars
  <1>5. \A m \in do_view_changes' \ do_view_changes : DoViewChangeTypes(m)'
    <2>1. \A m \in do_view_changes' \ do_view_changes : m = DoViewChange(r)
      BY DEF ViewDurableUpdate
    <2>2. DoViewChange(r) = DoViewChange(r)'
      BY <1>1 DEF DoViewChange, Readable, viewVars, logVars, commitVars, diskVars
    <2> QED
      BY <1>3, <1>4, <2>1, <2>2, OwnDoViewChangeTypes
  <1>6. \A m \in start_views' \ start_views : StartViewTypes(m)'
    <2>1. \A m \in start_views' \ start_views : m = StartView(r, None)
      BY DEF ViewDurableUpdate
    <2> QED
      BY <1>2, <2>1, StartViewTypesOf DEF StartViewTypes
  <1>7. \A m \in prepare_oks' \ prepare_oks : PrepareOkTypes(m)'
    <2>1. prepare_oks' \subseteq prepare_oks \cup PrepareOks(r, Uncommitted(r))'
      BY Zenon DEF ViewDurableUpdate
    <2>2. Uncommitted(r)' \subseteq prepared'
      BY <1>3, UncommittedTypes
    <2> QED
      BY <1>3, <2>1, <2>2 DEF PrepareOks, PrepareOkTypes, ReplicaTypes
  <1> QED
    BY <1>1, <1>2, <1>3, <1>4, <1>5, <1>6, <1>7, ViewStepsOthers
       DEF TypeStep, LocalTypes, SentTypesNow

\* A backup's log after an SV has the SV's head as its head (on_start_view).
LEMMA OnStartViewTypes ==
    ASSUME TypeInv, NEW r \in Replica, NEW m \in start_views, OnStartView(r, m)
    PROVE  TypeStep(r)
  <1> DEFINE h == StartViewHeaders(m.head).headers
  <1>1. /\ r # PrimaryIndex(m.view)
        /\ view' = [view EXCEPT ![r] = m.view]
        /\ log_view' = [log_view EXCEPT ![r] = m.view]
        /\ status' = [status EXCEPT ![r] = "normal"]
        /\ dvc_quorum' = [dvc_quorum EXCEPT ![r] = FALSE]
        /\ view_headers' = [view_headers EXCEPT ![r] = StartViewHeaders(m.head)]
        /\ op' = [op EXCEPT ![r] = OpOf(m.head)]
        /\ commit_max' = [commit_max EXCEPT ![r] = HigherOf(@, m.commit_max)]
        /\ journal' = [journal EXCEPT ![r] = StartViewJournal(@, h)]
        /\ UNCHANGED <<durable, commit_min, committed, diskVars, incarnation>>
        /\ prepare_oks' \subseteq prepare_oks \cup PrepareOks(r, Uncommitted(r))'
        /\ UNCHANGED <<prepared, do_view_changes, start_views, commits>>
    BY DEF OnStartView, AcceptsStartView
  <1>2. prepared \subseteq prepared' /\ PreparedTypes' /\ Known' = Known
    BY <1>1, SamePrepared
  <1>3. /\ m.view \in View /\ m.head \in Known /\ m.commit_max \in Op
        /\ m.head \in Prepare /\ OpOf(m.head) \in Op
    BY KnownFacts, OpFacts DEF TypeInv, MessageTypes, StartViewTypes
  <1>4. ReplicaTypes(r)' /\ LeaderLog(r)'
    <2>1. HigherOf(commit_max[r], m.commit_max) \in Op
      BY <1>3 DEF HigherOf, TypeInv, LocalTypes, ReplicaTypes
    <2> QED
      BY <1>1, <1>3, <2>1 DEF TypeInv, LocalTypes, ReplicaTypes, LeaderLog, Functions
  <1>5. /\ IsHeaders(h) /\ HeadOp(h) = OpOf(m.head) /\ OpOf(m.head) \in DOMAIN h
        /\ DOMAIN h \subseteq Op /\ \A o \in DOMAIN h : h[o] \in HeadersOf(o)
        /\ h[OpOf(m.head)] = m.head /\ \A o \in DOMAIN h : h[o] \in Prepare
    <2>1. IsHeaders(h) /\ HeadOp(h) = OpOf(m.head) /\ h[OpOf(m.head)] = m.head
      BY <1>3, StartViewHeadersFacts
    <2>2. \A o \in DOMAIN h : h[o] \in Prepare
      BY <1>3, StartViewHeadersFacts, AncestorFacts
    <2> QED
      BY <2>1, <2>2, HeadersFacts
  <1> HIDE DEF h
  <1>6. JournalTypes(r)'
    <2> DEFINE j == StartViewJournal(journal[r], h)
    <2>1. journal'[r] = j /\ op'[r] = OpOf(m.head)
      BY <1>1 DEF TypeInv, Functions
    <2>2. /\ journal[r] \in [Op -> Slot] /\ \A o \in Op : journal[r][o].header \in HeadersOf(o)
      BY DEF TypeInv, LocalTypes, JournalTypes
    <2>3. j = [o \in Op |-> IF o > OpOf(m.head) THEN Reserved
                            ELSE IF o \in DOMAIN h THEN SetHeader(journal[r][o], h[o])
                            ELSE journal[r][o]]
      BY <1>5 DEF StartViewJournal
    <2> HIDE DEF j
    <2>4. Reserved \in Slot /\ Reserved.header = None
      BY DEF Reserved, Slot
    <2>5. ASSUME NEW o \in Op PROVE j[o] \in Slot /\ j[o].header \in HeadersOf(o)
      <3>1. CASE o > OpOf(m.head)
        BY <2>3, <2>4, <3>1 DEF HeadersOf
      <3>2. CASE ~(o > OpOf(m.head)) /\ o \in DOMAIN h
        BY <1>5, <2>2, <2>3, <3>2, SetHeaderFacts
      <3>3. CASE ~(o > OpOf(m.head)) /\ o \notin DOMAIN h
        BY <2>2, <2>3, <3>3
      <3> QED
        BY <3>1, <3>2, <3>3
    <2>6. j[OpOf(m.head)].header = m.head
      <3>1. ~(OpOf(m.head) > OpOf(m.head))
        BY <1>3, OpFacts
      <3> QED
        BY <1>3, <1>5, <2>2, <2>3, <3>1, SetHeaderFacts
    <2>7. j \in [Op -> Slot]
      BY <2>3, <2>5
    <2> QED
      BY <1>2, <1>3, <2>1, <2>5, <2>6, <2>7, KnownFacts, KnownGrows DEF JournalTypes, HeadHeader
  <1>7. DiskTypes(r)'
    BY <1>1, <1>2, SameTypes DEF diskVars
  <1>8. HeadersTypes(r)'
    <2>1. view_headers'[r].headers = h
      BY <1>1 DEF TypeInv, Functions, h
    <2> QED
      BY <1>1, <1>2, <1>5, <2>1, KnownGrows DEF TypeInv, LocalTypes, HeadersTypes
  <1>9. SentTypesNow
    <2>1. Uncommitted(r)' \subseteq prepared'
      BY <1>4, <1>6, UncommittedTypes
    <2>2. \A k \in PrepareOks(r, Uncommitted(r))' : PrepareOkTypes(k)'
      BY <1>4, <2>1 DEF PrepareOks, PrepareOkTypes, ReplicaTypes
    <2> QED
      BY <1>1, <2>2 DEF SentTypesNow
  <1> QED
    BY <1>2, <1>4, <1>6, <1>7, <1>8, <1>9, ViewStepsOthers DEF TypeStep, LocalTypes

-----------------------------------------------------------------------------
(* A quorum of DVCs. *)

\* What quorum_headers computes from any quorum of DVCs is well defined: it scans up to the
\* highest canonical op, and what it truncates first has a nack quorum.
LEMMA QuorumBasics ==
    ASSUME TypeInv, NEW r \in Replica, NEW Q \in DoViewChangeQuorums(r)
    PROVE  /\ Q # {} /\ Q \subseteq do_view_changes
           /\ \A m \in Q : m.view = view[r] /\ DoViewChangeTypes(m)
           /\ \A m, n \in Q : m.replica = n.replica => m = n
           /\ LogViewMax(Q) \in View /\ \A m \in Q : m.log_view <= LogViewMax(Q)
           /\ OpMaxCanonical(Q) \in Op
           /\ \E m \in Canonical(Q) : m.op = OpMaxCanonical(Q)
           /\ \A m \in Canonical(Q) : m \in Q /\ m.op <= OpMaxCanonical(Q)
           /\ CommitMaxOf(Q) \in Op
           /\ \A m \in Q : /\ Min(DOMAIN m.headers) <= CommitMaxOf(Q)
                           /\ m.commit_min <= CommitMaxOf(Q)
                           /\ m.op - PipelineMax <= CommitMaxOf(Q)
           /\ OpHead(Q) \in Int /\ OpHead(Q) <= OpMaxCanonical(Q)
           /\ \A o \in CommitMaxOf(Q)..OpHead(Q) :
                  HeaderCanonical(Q, o) \in HeadersAt(Canonical(Q), o)
           /\ OpHead(Q) < OpMaxCanonical(Q) =>
                  CommitMaxOf(Q) <= OpHead(Q) + 1 /\ Truncated(Q, OpHead(Q) + 1)
           /\ Cardinality({m.replica : m \in Q}) >= QuorumViewChange
  <1>1. /\ Q # {} /\ Q \subseteq do_view_changes
        /\ \A m \in Q : m.view = view[r] /\ DoViewChangeTypes(m)
    BY DEF DoViewChangeQuorums, TypeInv, MessageTypes
  <1>2. \A m \in Q : /\ m.log_view \in View /\ m.op \in Op /\ m.commit_min \in Op
                     /\ Min(DOMAIN m.headers) \in Op
    BY <1>1, HeadersFacts DEF DoViewChangeTypes
  <1>3. OpMax \in Nat /\ PipelineMax \in Nat /\ ViewMax \in Nat
    BY CountsAssumption
  <1>4. LogViewMax(Q) \in {m.log_view : m \in Q} /\ \A m \in Q : m.log_view <= LogViewMax(Q)
    <2> DEFINE S == {m.log_view : m \in Q}
    <2>1. S # {} /\ S \in SUBSET Int /\ \A y \in S : y <= ViewMax
      BY <1>1, <1>2, <1>3 DEF View
    <2> HIDE DEF S
    <2>2. Max(S) \in S /\ \A y \in S : y <= Max(S)
      BY <1>3, <2>1, MaxFacts
    <2> QED
      BY <2>2 DEF LogViewMax, S
  <1>5. LogViewMax(Q) \in View /\ Canonical(Q) # {} /\ Canonical(Q) \subseteq Q
    BY <1>2, <1>4 DEF Canonical
  <1>6. /\ OpMaxCanonical(Q) \in {m.op : m \in Canonical(Q)}
        /\ \A m \in Canonical(Q) : m.op <= OpMaxCanonical(Q)
    <2> DEFINE S == {m.op : m \in Canonical(Q)}
    <2>1. S # {} /\ S \in SUBSET Int /\ \A y \in S : y <= OpMax
      BY <1>2, <1>3, <1>5 DEF Op
    <2> HIDE DEF S
    <2>2. Max(S) \in S /\ \A y \in S : y <= Max(S)
      BY <1>3, <2>1, MaxFacts
    <2> QED
      BY <2>2 DEF OpMaxCanonical, S
  <1>7. OpMaxCanonical(Q) \in Op /\ OpMaxCanonical(Q) \in Int
    BY <1>2, <1>5, <1>6 DEF Op
  <1>8. /\ CommitMaxOf(Q) \in Op
        /\ \A m \in Q : /\ Min(DOMAIN m.headers) <= CommitMaxOf(Q)
                        /\ m.commit_min <= CommitMaxOf(Q)
                        /\ m.op - PipelineMax <= CommitMaxOf(Q)
    <2> DEFINE S == UNION {{Min(DOMAIN m.headers), m.op - PipelineMax, m.commit_min} : m \in Q}
    <2>1. \A m \in Q : {Min(DOMAIN m.headers), m.op - PipelineMax, m.commit_min} \subseteq S
      OBVIOUS
    <2>2. \A y \in S : y \in Int /\ y <= OpMax
      BY <1>2, <1>3 DEF Op
    <2>3. S # {} /\ S \in SUBSET Int
      BY <1>1, <2>1, <2>2
    <2>5. CommitMaxOf(Q) = Max(S)
      BY DEF CommitMaxOf
    <2> HIDE DEF S
    <2>4. Max(S) \in S /\ \A y \in S : y <= Max(S)
      BY <1>3, <2>2, <2>3, MaxFacts
    <2>6. /\ \A m \in Q : /\ Min(DOMAIN m.headers) <= CommitMaxOf(Q)
                          /\ m.commit_min <= CommitMaxOf(Q)
                          /\ m.op - PipelineMax <= CommitMaxOf(Q)
      BY <2>1, <2>4, <2>5
    <2>7. PICK m \in Q : TRUE
      BY <1>1
    <2>8. Min(DOMAIN m.headers) \in Nat /\ Min(DOMAIN m.headers) <= CommitMaxOf(Q)
      BY <1>2, <2>6, OpFacts
    <2>9. CommitMaxOf(Q) \in Int /\ CommitMaxOf(Q) <= OpMax
      BY <2>2, <2>4, <2>5
    <2> QED
      BY <1>3, <2>6, <2>8, <2>9 DEF Op
  <1>9. /\ OpHead(Q) \in Int /\ OpHead(Q) <= OpMaxCanonical(Q)
        /\ \A o \in CommitMaxOf(Q)..OpHead(Q) :
              o \in CommitMaxOf(Q)..OpMaxCanonical(Q) /\ o \notin Stops(Q)
        /\ OpHead(Q) < OpMaxCanonical(Q) =>
              CommitMaxOf(Q) <= OpHead(Q) + 1 /\ Truncated(Q, OpHead(Q) + 1)
    <2>1. CommitMaxOf(Q) \in Int /\ 0 <= CommitMaxOf(Q)
      BY <1>8 DEF Op
    <2>2. CASE Stops(Q) = {}
      <3>1. OpHead(Q) = OpMaxCanonical(Q)
        BY <2>2 DEF OpHead
      <3> QED
        BY <1>7, <2>1, <2>2, <3>1
    <2>3. CASE Stops(Q) # {}
      <3>1. Stops(Q) \in SUBSET (CommitMaxOf(Q)..OpMaxCanonical(Q))
        BY DEF Stops
      <3>2. /\ Stops(Q) \in SUBSET Int /\ \A y \in Stops(Q) : CommitMaxOf(Q) <= y
        BY <3>1
      <3>3. Min(Stops(Q)) \in Stops(Q) /\ \A y \in Stops(Q) : Min(Stops(Q)) <= y
        BY <2>1, <2>3, <3>2, MinFacts
      <3>4. OpHead(Q) = Min(Stops(Q)) - 1
        BY <2>3 DEF OpHead
      <3>5. /\ Min(Stops(Q)) \in Int /\ Min(Stops(Q)) <= OpMaxCanonical(Q)
            /\ CommitMaxOf(Q) <= Min(Stops(Q))
        BY <3>1, <3>3
      <3>6. CompleteValid(Q)
        BY DEF DoViewChangeQuorums
      <3>7. Truncated(Q, Min(Stops(Q)))
        BY <2>3, <3>6 DEF CompleteValid
      <3>8. ASSUME NEW o \in CommitMaxOf(Q)..OpHead(Q)
            PROVE  o \in CommitMaxOf(Q)..OpMaxCanonical(Q) /\ o \notin Stops(Q)
        <4>1. o \in Int /\ o < Min(Stops(Q)) /\ CommitMaxOf(Q) <= o /\ o <= OpMaxCanonical(Q)
          BY <1>7, <2>1, <3>4, <3>5
        <4>2. o \notin Stops(Q)
          BY <3>3, <3>5, <4>1
        <4> QED
          BY <1>7, <2>1, <4>1, <4>2
      <3>9. OpHead(Q) \in Int /\ OpHead(Q) + 1 = Min(Stops(Q)) /\ OpHead(Q) <= OpMaxCanonical(Q)
        BY <1>7, <3>4, <3>5
      <3> QED
        BY <3>5, <3>7, <3>8, <3>9
    <2> QED
      BY <2>2, <2>3
  <1>10. ASSUME NEW o \in CommitMaxOf(Q)..OpHead(Q)
         PROVE  HeaderCanonical(Q, o) \in HeadersAt(Canonical(Q), o)
    <2>1. ~Truncated(Q, o) /\ ~Undecided(Q, o)
      BY <1>9 DEF Stops
    <2>2. HeaderCanonical(Q, o) # None
      BY <2>1 DEF Undecided
    <2> QED
      BY <2>2 DEF HeaderCanonical
  <1>11. \A m, n \in Q : m.replica = n.replica => m = n
    BY DEF DoViewChangeQuorums
  <1>12. Cardinality({m.replica : m \in Q}) >= QuorumViewChange
    <2> DEFINE S == {m.replica : m \in Q}
               f == [m \in Q |-> m.replica]
    <2>1. f \in Injection(Q, S)
      BY <1>11 DEF Injection, IsInjective
    <2>2. S \in SUBSET Replica
      BY <1>1 DEF DoViewChangeTypes
    <2>3. IsFiniteSet(S)
      BY <2>2, ReplicaFinite, FS_Subset
    <2>4. Cardinality(Q) >= QuorumViewChange
      BY DEF DoViewChangeQuorums
    <2> HIDE DEF f, S
    <2>5. IsFiniteSet(Q) /\ Cardinality(Q) <= Cardinality(S)
      BY <2>1, <2>3, FS_Injection
    <2>6. Cardinality(Q) \in Nat /\ Cardinality(S) \in Nat /\ QuorumViewChange \in Int
      BY <2>3, <2>5, FS_CardinalityType, QuorumAssumption, CountsAssumption
    <2>7. Cardinality(S) >= QuorumViewChange
      BY <2>4, <2>5, <2>6
    <2> QED
      BY <2>7 DEF S
  <1> QED
    BY <1>1, <1>4, <1>5, <1>6, <1>7, <1>8, <1>9, <1>10, <1>11, <1>12

\* What a new primary computes from a quorum of DVCs: the latest log_view, the DVCs of it, the
\* highest op in them, what is known committed, and the headers from there to the head it takes.
LEMMA QuorumFacts ==
    ASSUME TypeInv, NEW r \in Replica, NEW Q \in DoViewChangeQuorums(r),
           HigherOf(commit_max[r], CommitMaxOf(Q)) <= OpHead(Q)
    PROVE  /\ Q # {} /\ Q \subseteq do_view_changes
           /\ \A m \in Q : m.view = view[r] /\ DoViewChangeTypes(m)
           /\ LogViewMax(Q) \in View /\ \A m \in Q : m.log_view <= LogViewMax(Q)
           /\ OpMaxCanonical(Q) \in Op
           /\ \E m \in Canonical(Q) : m.op = OpMaxCanonical(Q)
           /\ \A m \in Canonical(Q) : m \in Q /\ m.op <= OpMaxCanonical(Q)
           /\ CommitMaxOf(Q) \in Op
           /\ \A m \in Q : /\ Min(DOMAIN m.headers) <= CommitMaxOf(Q)
                           /\ m.commit_min <= CommitMaxOf(Q)
                           /\ m.op - PipelineMax <= CommitMaxOf(Q)
           /\ OpHead(Q) \in Op /\ OpHead(Q) <= OpMaxCanonical(Q)
           /\ CommitMaxOf(Q) <= OpHead(Q) /\ commit_max[r] <= OpHead(Q)
           /\ \A o \in CommitMaxOf(Q)..OpHead(Q) :
                  HeaderCanonical(Q, o) \in HeadersAt(Canonical(Q), o)
  <1>1. OpHead(Q) \in Int /\ CommitMaxOf(Q) \in Op /\ OpMaxCanonical(Q) \in Op
        /\ OpHead(Q) <= OpMaxCanonical(Q)
    BY QuorumBasics
  <1>2. commit_max[r] \in Int /\ CommitMaxOf(Q) \in Int /\ 0 <= CommitMaxOf(Q)
    BY <1>1 DEF TypeInv, LocalTypes, ReplicaTypes, Op
  <1>3. CommitMaxOf(Q) <= OpHead(Q) /\ commit_max[r] <= OpHead(Q)
    BY <1>1, <1>2 DEF HigherOf
  <1>4. OpHead(Q) \in Op
    BY <1>1, <1>2, <1>3, CountsAssumption DEF Op
  <1> QED
    BY <1>1, <1>3, <1>4, QuorumBasics

\* The headers that DVCs have for an op are of that op.
LEMMA HeadersAtFacts ==
    ASSUME TypeInv, NEW Q \in SUBSET do_view_changes, NEW o
    PROVE  \A p \in HeadersAt(Q, o) : p \in Known /\ OpOf(p) = o /\ p \in Prepare /\ p # None
  <1> SUFFICES ASSUME NEW p \in HeadersAt(Q, o)
               PROVE  p \in Known /\ OpOf(p) = o /\ p \in Prepare /\ p # None
    OBVIOUS
  <1>1. PICK m \in Q : o \in DOMAIN m.headers /\ p = m.headers[o] /\ p # None
    BY DEF HeadersAt
  <1>2. IsHeaders(m.headers)
    BY DEF TypeInv, MessageTypes, DoViewChangeTypes
  <1>3. p \in HeadersOf(o)
    BY <1>1, <1>2, HeadersFacts
  <1> QED
    BY <1>1, <1>3, KnownFacts DEF HeadersOf

\* The log a new primary takes from a quorum of DVCs: nothing after its head, and before it the
\* canonical headers from what is known committed.
LEMMA QuorumJournalFacts ==
    ASSUME TypeInv, NEW r \in Replica, NEW Q \in DoViewChangeQuorums(r),
           HigherOf(commit_max[r], CommitMaxOf(Q)) <= OpHead(Q),
           NEW j, j = QuorumJournal(journal[r], Q)
    PROVE  /\ j \in [Op -> Slot]
           /\ \A o \in Op : j[o].header \in HeadersOf(o)
           /\ \A o \in Op : o > OpHead(Q) => j[o] = Reserved
           /\ \A o \in CommitMaxOf(Q)..OpHead(Q) : j[o].header = HeaderCanonical(Q, o)
  <1> DEFINE head == OpHead(Q)
             low == CommitMaxOf(Q)
             headHeader == HeaderCanonical(Q, head)
             other == Q \ Canonical(Q)
             trusted(o) == IF o \in low..head THEN {HeaderCanonical(Q, o)}
                           ELSE HeadersAt({m \in other : o <= m.commit_min}, o)
             slot(o) == IF trusted(o) = {} THEN journal[r][o]
                        ELSE SetHeader(journal[r][o], CHOOSE p \in trusted(o) : TRUE)
             offered(o) == HeadersAt(other, o) \cap {Ancestor(headHeader, o)}
             connected(o) == \A k \in (o + 1)..head :
                                 slot(k).header = Ancestor(headHeader, k) \/ offered(k) # {}
             repaired(o) == {p \in HeadersAt(other, o) : ViewOf(p) = ViewOf(headHeader)}
                              \cup (IF connected(o) THEN offered(o) ELSE {})
  <1>1. j = [o \in Op |->
                IF o > head THEN Reserved
                ELSE IF trusted(o) # {} \/ repaired(o) = {} THEN slot(o)
                ELSE SetHeader(journal[r][o], CHOOSE p \in repaired(o) : TRUE)]
    BY DEF QuorumJournal
  <1>2. /\ Q \subseteq do_view_changes /\ Canonical(Q) \subseteq Q
        /\ low \in Op /\ head \in Op
        /\ \A o \in low..head : HeaderCanonical(Q, o) \in HeadersAt(Canonical(Q), o)
    BY QuorumFacts
  <1>3. \A o : \A p \in trusted(o) : p \in Known /\ OpOf(p) = o /\ p \in Prepare
    <2> SUFFICES ASSUME NEW o, NEW p \in trusted(o)
                 PROVE  p \in Known /\ OpOf(p) = o /\ p \in Prepare
      OBVIOUS
    <2>1. p \in HeadersAt(Canonical(Q), o) \/ p \in HeadersAt({m \in other : o <= m.commit_min}, o)
      BY <1>2
    <2> QED
      BY <1>2, <2>1, HeadersAtFacts
  <1>4. \A o : \A p \in repaired(o) : p \in Known /\ OpOf(p) = o /\ p \in Prepare
    <2>1. \A o : repaired(o) \subseteq HeadersAt(other, o)
      OBVIOUS
    <2>2. other \in SUBSET do_view_changes
      BY <1>2
    <2> HIDE DEF repaired, other
    <2> QED
      BY <2>1, <2>2, HeadersAtFacts
  <1>5. \A o \in low..head : trusted(o) = {HeaderCanonical(Q, o)}
    OBVIOUS
  <1> HIDE DEF trusted, repaired, connected, offered, head, low
  <1>6. /\ journal[r] \in [Op -> Slot] /\ \A o \in Op : journal[r][o].header \in HeadersOf(o)
    BY DEF TypeInv, LocalTypes, JournalTypes
  <1>7. ASSUME NEW o \in Op
        PROVE  slot(o) \in Slot /\ slot(o).header \in HeadersOf(o)
               /\ (trusted(o) # {} => slot(o).header \in trusted(o))
    <2>1. CASE trusted(o) = {}
      BY <1>6, <2>1
    <2>2. CASE trusted(o) # {}
      <3> DEFINE p == CHOOSE p \in trusted(o) : TRUE
      <3>1. p \in trusted(o)
        BY <2>2
      <3> HIDE DEF p
      <3>2. slot(o) = SetHeader(journal[r][o], p)
        BY <2>2 DEF p
      <3>3. p \in Known /\ OpOf(p) = o /\ p \in Prepare
        BY <1>3, <3>1
      <3> QED
        BY <1>6, <3>1, <3>2, <3>3, SetHeaderFacts DEF HeadersOf
    <2> QED
      BY <2>1, <2>2
  <1>8. Reserved \in Slot /\ Reserved.header = None
    BY DEF Reserved, Slot
  <1>9. ASSUME NEW o \in Op PROVE j[o] \in Slot /\ j[o].header \in HeadersOf(o)
    <2>1. CASE o > head
      BY <1>1, <1>8, <2>1 DEF HeadersOf
    <2>2. CASE ~(o > head) /\ (trusted(o) # {} \/ repaired(o) = {})
      BY <1>1, <1>7, <2>2
    <2>3. CASE ~(o > head) /\ ~(trusted(o) # {} \/ repaired(o) = {})
      <3> DEFINE p == CHOOSE p \in repaired(o) : TRUE
      <3>1. p \in repaired(o)
        BY <2>3
      <3>2. j[o] = SetHeader(journal[r][o], p)
        BY <1>1, <2>3
      <3> HIDE DEF p
      <3>3. p \in Known /\ OpOf(p) = o /\ p \in Prepare
        BY <1>4, <3>1
      <3> QED
        BY <1>6, <3>2, <3>3, SetHeaderFacts DEF HeadersOf
    <2> QED
      BY <2>1, <2>2, <2>3
  <1>10. j \in [Op -> Slot]
    BY <1>1, <1>9
  <1>11. \A o \in Op : o > head => j[o] = Reserved
    BY <1>1
  <1>12. ASSUME NEW o \in low..head PROVE j[o].header = HeaderCanonical(Q, o)
    <2>1. o \in Op /\ ~(o > head)
      BY <1>2, CountsAssumption DEF Op
    <2>2. trusted(o) # {} /\ j[o] = slot(o)
      BY <1>1, <1>5, <2>1
    <2> QED
      BY <1>5, <1>7, <2>1, <2>2
  <1> QED
    BY <1>9, <1>10, <1>11, <1>12 DEF head, low

\* A new primary has what it needs to fix the log of its view.
LEMMA OnDoViewChangeTypes ==
    ASSUME TypeInv, IInv, NEW r \in Replica, OnDoViewChange(r)
    PROVE  TypeStep(r)
  <1>1. PICK Q \in DoViewChangeQuorums(r) :
        /\ HigherOf(commit_max[r], CommitMaxOf(Q)) <= OpHead(Q)
        /\ dvc_quorum' = [dvc_quorum EXCEPT ![r] = TRUE]
        /\ log_view' = [log_view EXCEPT ![r] = view[r]]
        /\ op' = [op EXCEPT ![r] = OpHead(Q)]
        /\ commit_max' = [commit_max EXCEPT ![r] = HigherOf(@, CommitMaxOf(Q))]
        /\ journal' = [journal EXCEPT ![r] = QuorumJournal(@, Q)]
        /\ UNCHANGED <<status, view, view_headers, durable, commit_min, committed, diskVars,
                       incarnation, netVars>>
    BY Zenon DEF OnDoViewChange
  <1>2. status[r] = "view_change"
    BY Zenon DEF OnDoViewChange
  <1>3. prepared \subseteq prepared' /\ PreparedTypes' /\ Known' = Known
    BY <1>1, SamePrepared DEF netVars
  <1>4. DiskTypes(r)' /\ HeadersTypes(r)' /\ SentTypesNow
    BY <1>1, <1>3, SameTypes, QuietTypes DEF diskVars, netVars
  <1>5. /\ OpHead(Q) \in Op /\ CommitMaxOf(Q) \in Op
        /\ CommitMaxOf(Q) <= OpHead(Q) /\ commit_max[r] <= OpHead(Q)
    BY <1>1, QuorumFacts
  <1>6. /\ op'[r] = OpHead(Q) /\ log_view'[r] = view[r] /\ dvc_quorum'[r] = TRUE
        /\ commit_max'[r] = HigherOf(commit_max[r], CommitMaxOf(Q))
        /\ journal'[r] = QuorumJournal(journal[r], Q)
    BY <1>1 DEF TypeInv, Functions
  <1>7. ReplicaTypes(r)' /\ LeaderLog(r)'
    <2>1. HigherOf(commit_max[r], CommitMaxOf(Q)) \in Op
          /\ HigherOf(commit_max[r], CommitMaxOf(Q)) <= OpHead(Q)
      BY <1>5 DEF HigherOf, TypeInv, LocalTypes, ReplicaTypes
    <2> QED
      BY <1>1, <1>2, <1>5, <1>6, <2>1 DEF TypeInv, LocalTypes, ReplicaTypes, LeaderLog
  <1>8. JournalTypes(r)'
    <2>1. /\ journal'[r] \in [Op -> Slot] /\ \A o \in Op : journal'[r][o].header \in HeadersOf(o)
          /\ \A o \in CommitMaxOf(Q)..OpHead(Q) : journal'[r][o].header = HeaderCanonical(Q, o)
      BY <1>1, <1>6, QuorumJournalFacts
    <2>2. OpHead(Q) \in CommitMaxOf(Q)..OpHead(Q)
      BY <1>5 DEF Op
    <2>3. HeaderCanonical(Q, OpHead(Q)) # None
      <3>1. HeaderCanonical(Q, OpHead(Q)) \in HeadersAt(Canonical(Q), OpHead(Q))
        BY <1>1, <2>2, QuorumFacts
      <3> QED
        BY <3>1 DEF HeadersAt
    <2> QED
      BY <1>3, <1>6, <2>1, <2>2, <2>3, KnownGrows DEF JournalTypes, HeadHeader
  <1> QED
    BY <1>3, <1>4, <1>7, <1>8, ViewStepsOthers DEF TypeStep, LocalTypes

-----------------------------------------------------------------------------
(* A crash. *)

\* What is found in a slot after a crash was on disk, or was being written.
LEMMA RecoveredSlotsFacts ==
    ASSUME TypeInv, NEW r \in Replica, NEW o \in Op, NEW s \in RecoveredSlots(r, o)
    PROVE  /\ s.disk \in HeadersOf(o) \cup {Torn, Rotten}
           /\ s.slot \in Slot
           /\ s.slot.header # None =>
                /\ s.slot = CleanSlot(s.slot.header) /\ s.disk = s.slot.header
                /\ s.slot.header \in HeadersOf(o)
                /\ s.slot.header \in {disk[r][o], writing[r][o]}
  <1> DEFINE old == disk[r][o]
             new == writing[r][o]
             found(prepares, slots) == {[disk |-> p, slot |-> t] : p \in prepares, t \in slots}
             P(q) == q = old \/ (q = new /\ new # None)
             OK(t) == /\ t.disk \in {None, Torn, Rotten} \/ P(t.disk)
                      /\ t.slot \in {Reserved, FaultySlot} \/
                            (P(t.disk) /\ t.disk \notin {None, Torn, Rotten}
                             /\ t.slot = CleanSlot(t.disk))
  <1>1. /\ old \in HeadersOf(o) \cup {Torn, Rotten} /\ new \in HeadersOf(o)
        /\ \A p \in HeadersOf(o) \ {None} : p \in Prepare /\ p \notin {None, Torn, Rotten}
    BY KnownFacts DEF TypeInv, LocalTypes, DiskTypes, HeadersOf
  <1>2. RecoveredSlots(r, o) =
          (CASE old = None -> found({None}, {Reserved})
             [] old = Torn -> found({Torn}, {Reserved, FaultySlot})
             [] old = Rotten -> found({Rotten}, {FaultySlot})
             [] OTHER ->
                found({old}, {CleanSlot(old)} \cup
                             IF journal[r][o] = CleanSlot(old) THEN {} ELSE {FaultySlot})
                \cup found(IF o \in Rotting THEN {Rotten} ELSE {}, {FaultySlot}))
          \cup
          (IF new = None THEN {}
           ELSE found({new}, {CleanSlot(new), FaultySlot}) \cup
                IF old \in {None, Torn} THEN found({Torn}, {Reserved, FaultySlot})
                                        ELSE found({Rotten}, {FaultySlot}))
    BY DEF RecoveredSlots
  <1>3. OK(s)
    <2>1. CASE old = None /\ s \in found({None}, {Reserved})
      BY <2>1
    <2>2. CASE old = Torn /\ s \in found({Torn}, {Reserved, FaultySlot})
      BY <2>2
    <2>3. CASE old = Rotten /\ s \in found({Rotten}, {FaultySlot})
      BY <2>3
    <2>4. CASE old \notin {None, Torn, Rotten}
               /\ s \in found({old}, {CleanSlot(old), FaultySlot})
      BY <2>4
    <2>5. CASE s \in found({Rotten}, {FaultySlot})
      BY <2>5
    <2>6. CASE new # None /\ s \in found({new}, {CleanSlot(new), FaultySlot})
      BY <1>1, <2>6
    <2>7. CASE s \in found({Torn}, {Reserved, FaultySlot})
      BY <2>7
    <2>8. \/ old = None /\ s \in found({None}, {Reserved})
          \/ old = Torn /\ s \in found({Torn}, {Reserved, FaultySlot})
          \/ old = Rotten /\ s \in found({Rotten}, {FaultySlot})
          \/ old \notin {None, Torn, Rotten} /\ s \in found({old}, {CleanSlot(old), FaultySlot})
          \/ s \in found({Rotten}, {FaultySlot})
          \/ new # None /\ s \in found({new}, {CleanSlot(new), FaultySlot})
          \/ s \in found({Torn}, {Reserved, FaultySlot})
      <3>1. CASE s \in (IF new = None THEN {}
           ELSE found({new}, {CleanSlot(new), FaultySlot}) \cup
                IF old \in {None, Torn} THEN found({Torn}, {Reserved, FaultySlot})
                                        ELSE found({Rotten}, {FaultySlot}))
        <4> HIDE DEF found
        <4> QED
          BY <3>1
      <3>2. CASE old \in {None, Torn, Rotten} /\ s \in
                  (CASE old = None -> found({None}, {Reserved})
                     [] old = Torn -> found({Torn}, {Reserved, FaultySlot})
                     [] old = Rotten -> found({Rotten}, {FaultySlot})
                     [] OTHER ->
                        found({old}, {CleanSlot(old)} \cup
                                     IF journal[r][o] = CleanSlot(old) THEN {} ELSE {FaultySlot})
                        \cup found(IF o \in Rotting THEN {Rotten} ELSE {}, {FaultySlot}))
        <4> HIDE DEF found
        <4> QED
          BY <3>2, NoneFacts
      <3>3. CASE old \notin {None, Torn, Rotten} /\ s \in
                        found({old}, {CleanSlot(old)} \cup
                                     IF journal[r][o] = CleanSlot(old) THEN {} ELSE {FaultySlot})
                        \cup found(IF o \in Rotting THEN {Rotten} ELSE {}, {FaultySlot})
        BY <3>3
      <3> HIDE DEF found, old, new
      <3> QED
        BY <1>2, <3>1, <3>2, <3>3
    <2> QED
      BY <2>1, <2>2, <2>3, <2>4, <2>5, <2>6, <2>7, <2>8
  <1>4. /\ Reserved \in Slot /\ FaultySlot \in Slot
        /\ Reserved.header = None /\ FaultySlot.header = None
    BY DEF Reserved, FaultySlot, Slot
  <1>5. s.disk \in HeadersOf(o) \cup {Torn, Rotten}
    BY <1>1, <1>3 DEF HeadersOf
  <1>6. CASE s.slot \in {Reserved, FaultySlot}
    BY <1>4, <1>5, <1>6
  <1>7. CASE s.slot \notin {Reserved, FaultySlot}
    <2>1. P(s.disk) /\ s.disk \notin {None, Torn, Rotten} /\ s.slot = CleanSlot(s.disk)
      BY <1>3, <1>7
    <2>2. s.disk \in HeadersOf(o) /\ s.disk \in Prepare
      BY <1>1, <1>5, <2>1
    <2>3. s.slot \in Slot /\ s.slot.header = s.disk
      BY <2>1, <2>2 DEF CleanSlot, Slot
    <2> QED
      BY <1>5, <2>1, <2>2, <2>3
  <1> QED
    BY <1>6, <1>7

\* The log Replica.open makes of what recover_slots found: every header is on disk and allowed
\* by the durable view headers, and the head is the last of them, or of the view headers.
RecoveredLog(r, found) ==
    LET d == durable[r]
        vh == d.view_headers.headers
        o == op'[r]
    IN /\ \A k \in Op :
            /\ found[k] \in Slot
            /\ found[k].header \in HeadersOf(k)
            /\ found[k].header # None =>
                /\ found[k].header \in {disk[r][k], writing[r][k]}
                /\ ViewOf(found[k].header) \in ViewForOp(vh, k, d.log_view)
                /\ found[k] = CleanSlot(found[k].header)
       /\ o \in Op /\ HeadOp(vh) <= o
       /\ o # HeadOp(vh) => d.log_view = d.view /\ found[o].header # None
       /\ d.log_view = d.view => \A k \in Op : found[k].header # None => k <= o
       /\ \A k \in Op \ {o} : journal'[r][k] = found[k]
       /\ journal'[r][o] = IF o = HeadOp(vh) THEN SetHeader(found[o], vh[o]) ELSE found[o]

\* The rest of what a restart sets.
Restarted(r, retires) ==
    LET d == durable[r]
    IN /\ retires => d.view < ViewMax /\ d.log_view = d.view /\ r = PrimaryIndex(d.view)
       /\ commit_min'[r] = 0
       /\ commit_max'[r] = HigherOf(d.commit_max, op'[r] - PipelineMax)
       /\ log_view'[r] = d.log_view
       /\ view'[r] = IF retires THEN d.view + 1 ELSE d.view
       /\ status'[r] \in {"view_change", "normal", "recovering_head"}
       /\ status'[r] = "view_change" <=> d.log_view < d.view \/ retires
       /\ status'[r] = "normal" => r # PrimaryIndex(d.view)
       /\ view_headers'[r] = IF retires
                             THEN DoViewChangeHeaders(journal'[r], op'[r], commit_max'[r],
                                                      d.view_headers.headers, FALSE)
                             ELSE d.view_headers
       /\ dvc_quorum'[r] = FALSE
       /\ incarnation'[r] = incarnation[r] + 1

\* The log found was recovered from these slots of the WAL; only in a log whose head is certain a
\* replica goes on, or a primary leaves its view.
RecoveredFrom(r, slots, found) ==
    LET d == durable[r]
    IN /\ \A k \in Op :
            /\ slots[k] \in RecoveredSlots(r, k) /\ disk'[r][k] = slots[k].disk
            /\ found[k] = LET p == slots[k].slot.header
                          IN IF p = None \/ ViewOf(p) \in ViewForOp(d.view_headers.headers, k, d.log_view)
                             THEN slots[k].slot ELSE Reserved
       /\ d.log_view = d.view /\ status'[r] # "recovering_head" =>
            OpHeadCertain(journal'[r], op'[r])

\* What a restart takes from the superblock and what recovery leaves of the WAL (Replica.open).
LEMMA CrashSlots ==
    ASSUME TypeInv, IInv, NEW r \in Replica, Crash(r)
    PROVE  /\ \E slots, found : RecoveredFrom(r, slots, found) /\ RecoveredLog(r, found)
           /\ \E retires \in BOOLEAN : Restarted(r, retires)
           /\ journal'[r] \in [Op -> Slot]
           /\ \A k \in Op : /\ disk'[r][k] \in HeadersOf(k) \cup {Torn, Rotten}
                            /\ writing'[r][k] = None
           /\ disk'[r] \in [Op -> Prepare \cup {None, Torn, Rotten}]
           /\ writing'[r] \in [Op -> Prepare \cup {None}]
           /\ prepare_oks' = prepare_oks \ OwnPrepareOks(r)
           /\ UNCHANGED <<durable, committed, prepared, start_views, commits>>
           /\ IF status'[r] = "view_change" THEN SendDoViewChange(r)
              ELSE do_view_changes' = do_view_changes \ OwnDoViewChanges(r)
  <1>1. PICK slots : /\ \A k \in Op : slots[k] \in RecoveredSlots(r, k)
                     /\ CrashRestart(r, slots)
    BY Zenon DEF Crash
  <1> DEFINE d == durable[r]
             vh == d.view_headers.headers
             f == FilterByView(slots, d)
             o == RecoverHead(f, d)
             j == IF o = HeadOp(vh) THEN [f EXCEPT ![o] = SetHeader(@, vh[o])] ELSE f
             cmax == HigherOf(d.commit_max, o - PipelineMax)
             retires == Retires(r, d, j, o)
  <1>2. /\ retires => d.view < ViewMax
        /\ disk' = [disk EXCEPT ![r] = [k \in Op |-> slots[k].disk]]
        /\ writing' = [writing EXCEPT ![r] = [k \in Op |-> None]]
        /\ journal' = [journal EXCEPT ![r] = j]
        /\ op' = [op EXCEPT ![r] = o]
        /\ commit_min' = [commit_min EXCEPT ![r] = 0]
        /\ commit_max' = [commit_max EXCEPT ![r] = cmax]
        /\ log_view' = [log_view EXCEPT ![r] = d.log_view]
        /\ view' = [view EXCEPT ![r] = IF retires THEN d.view + 1 ELSE d.view]
        /\ status' = [status EXCEPT ![r] = IF d.log_view < d.view \/ retires THEN "view_change"
                                           ELSE IF OpHeadCertain(j, o) THEN "normal"
                                           ELSE "recovering_head"]
        /\ view_headers' = [view_headers EXCEPT ![r] =
               IF retires THEN DoViewChangeHeaders(j, o, cmax, vh, FALSE) ELSE d.view_headers]
        /\ dvc_quorum' = [dvc_quorum EXCEPT ![r] = FALSE]
        /\ incarnation' = [incarnation EXCEPT ![r] = @ + 1]
        /\ prepare_oks' = prepare_oks \ OwnPrepareOks(r)
        /\ UNCHANGED <<durable, committed, prepared, start_views, commits>>
        /\ IF status'[r] = "view_change" THEN SendDoViewChange(r)
           ELSE do_view_changes' = do_view_changes \ OwnDoViewChanges(r)
    BY <1>1, Zenon DEF CrashRestart
  <1>3. /\ retires = (d.log_view = d.view /\ OpHeadCertain(j, o) /\ r = PrimaryIndex(d.view))
    BY DEF Retires
  <1>4. IsHeaders(vh) /\ d.view \in View /\ d.log_view \in View /\ d.commit_max \in Op
    BY DEF TypeInv, LocalTypes, HeadersTypes
  <1>5. /\ HeadOp(vh) \in Op /\ vh[HeadOp(vh)] \in Known /\ vh[HeadOp(vh)] \in Prepare
    BY <1>4, HeadersFacts, KnownFacts
  <1>6. \A k \in Op :
            /\ f[k] \in Slot
            /\ f[k].header \in HeadersOf(k)
            /\ f[k].header # None =>
                /\ f[k].header \in {disk[r][k], writing[r][k]}
                /\ ViewOf(f[k].header) \in ViewForOp(vh, k, d.log_view)
                /\ f[k] = CleanSlot(f[k].header)
    <2> TAKE k \in Op
    <2>1. f[k] = LET p == slots[k].slot.header
                 IN IF p = None \/ ViewOf(p) \in ViewForOp(vh, k, d.log_view)
                    THEN slots[k].slot ELSE Reserved
      BY DEF FilterByView
    <2>2. /\ slots[k].slot \in Slot
          /\ slots[k].slot.header # None =>
                /\ slots[k].slot = CleanSlot(slots[k].slot.header)
                /\ slots[k].slot.header \in HeadersOf(k)
                /\ slots[k].slot.header \in {disk[r][k], writing[r][k]}
      BY <1>1, RecoveredSlotsFacts
    <2>3. Reserved \in Slot /\ Reserved.header = None
      BY DEF Reserved, Slot
    <2> HIDE DEF f, vh, d
    <2> QED
      BY <2>1, <2>2, <2>3 DEF HeadersOf
  <1>7. f = [k \in Op |-> f[k]]
    BY DEF FilterByView
  <1> HIDE DEF f
  <1>8. /\ o \in Op /\ HeadOp(vh) <= o
        /\ o # HeadOp(vh) => d.log_view = d.view /\ f[o].header # None
        /\ d.log_view = d.view => \A k \in Op : f[k].header # None => k <= o
    <2> DEFINE inLog == IF d.log_view = d.view THEN {k \in Op : f[k].header # None} ELSE {}
               S == inLog \cup {HeadOp(vh)}
    <2>1. o = Max(S)
      BY DEF RecoverHead
    <2>2. S \in SUBSET Int /\ S # {} /\ S \subseteq Op /\ OpMax \in Int /\ \A y \in S : y <= OpMax
      BY <1>5, CountsAssumption DEF Op
    <2>3. \A y \in S : y = HeadOp(vh) \/ (d.log_view = d.view /\ f[y].header # None)
      OBVIOUS
    <2>4. /\ HeadOp(vh) \in S
          /\ d.log_view = d.view => \A k \in Op : f[k].header # None => k \in S
      OBVIOUS
    <2> HIDE DEF S
    <2>5. Max(S) \in S /\ \A y \in S : y <= Max(S)
      BY <2>2, MaxFacts
    <2> HIDE DEF o, vh, d
    <2> QED
      BY <2>1, <2>2, <2>3, <2>4, <2>5
  <1>9. /\ j \in [Op -> Slot]
        /\ \A k \in Op \ {o} : j[k] = f[k]
        /\ j[o] = IF o = HeadOp(vh) THEN SetHeader(f[o], vh[o]) ELSE f[o]
    <2>1. CASE o = HeadOp(vh)
      <3>1. SetHeader(f[o], vh[o]) \in Slot
        BY <1>5, <1>6, <1>8, <2>1, SetHeaderFacts
      <3>2. j = [f EXCEPT ![o] = SetHeader(f[o], vh[o])]
        BY <2>1
      <3> HIDE DEF o, j, vh, d
      <3> QED
        BY <1>6, <1>7, <1>8, <2>1, <3>1, <3>2
    <2>2. CASE o # HeadOp(vh)
      <3>1. j = f
        BY <2>2
      <3> HIDE DEF o, j, vh, d
      <3> QED
        BY <1>6, <1>7, <2>2, <3>1
    <2> QED
      BY <2>1, <2>2
  <1> HIDE DEF o, j, retires
  <1>10. /\ op'[r] = o /\ journal'[r] = j /\ commit_max'[r] = cmax /\ commit_min'[r] = 0
         /\ log_view'[r] = d.log_view
         /\ view'[r] = (IF retires THEN d.view + 1 ELSE d.view)
         /\ status'[r] = (IF d.log_view < d.view \/ retires THEN "view_change"
                          ELSE IF OpHeadCertain(j, o) THEN "normal" ELSE "recovering_head")
         /\ view_headers'[r] = (IF retires THEN DoViewChangeHeaders(j, o, cmax, vh, FALSE)
                                ELSE d.view_headers)
         /\ dvc_quorum'[r] = FALSE /\ incarnation'[r] = incarnation[r] + 1
         /\ disk'[r] = [k \in Op |-> slots[k].disk]
         /\ writing'[r] = [k \in Op |-> None]
    BY <1>2 DEF TypeInv, Functions
  <1>11. RecoveredLog(r, f)
    BY <1>6, <1>8, <1>9, <1>10, Zenon DEF RecoveredLog
  <1>12. \E q \in BOOLEAN : Restarted(r, q)
    <2>1. retires \in BOOLEAN
      BY <1>3
    <2>2. retires => d.view < ViewMax /\ d.log_view = d.view /\ r = PrimaryIndex(d.view)
      BY <1>2, <1>3
    <2>3. /\ status'[r] \in {"view_change", "normal", "recovering_head"}
          /\ status'[r] = "view_change" <=> d.log_view < d.view \/ retires
      BY <1>10
    <2>4. status'[r] = "normal" => r # PrimaryIndex(d.view)
      <3>1. d.log_view \in Int /\ d.view \in Int /\ durable[r].log_view <= durable[r].view
        BY <1>4 DEF IInv, ViewOrder, View
      <3>2. status'[r] = "normal" =>
                ~(d.log_view < d.view) /\ ~retires /\ OpHeadCertain(j, o)
        BY <1>10
      <3>3. ~(d.log_view < d.view) => d.log_view = d.view
        BY <3>1
      <3> QED
        BY <1>3, <3>2, <3>3
    <2> QED
      BY <1>10, <2>1, <2>2, <2>3, <2>4 DEF Restarted
  <1>13. \A k \in Op : slots[k].disk \in HeadersOf(k) \cup {Torn, Rotten}
    BY <1>1, RecoveredSlotsFacts
  <1>14. \A k \in Op : HeadersOf(k) \subseteq Prepare \cup {None}
    BY KnownFacts DEF HeadersOf
  <1>15. /\ \A k \in Op : /\ disk'[r][k] \in HeadersOf(k) \cup {Torn, Rotten}
                          /\ writing'[r][k] = None
         /\ disk'[r] \in [Op -> Prepare \cup {None, Torn, Rotten}]
         /\ writing'[r] \in [Op -> Prepare \cup {None}]
    BY <1>10, <1>13, <1>14
  <1>16. RecoveredFrom(r, slots, f)
    <2>1. \A k \in Op : f[k] = LET p == slots[k].slot.header
                                IN IF p = None \/ ViewOf(p) \in ViewForOp(vh, k, d.log_view)
                                   THEN slots[k].slot ELSE Reserved
      BY DEF f, FilterByView
    <2>2. \A k \in Op : slots[k] \in RecoveredSlots(r, k) /\ disk'[r][k] = slots[k].disk
      BY <1>1, <1>10
    <2>3. d.log_view = d.view /\ status'[r] # "recovering_head" => OpHeadCertain(j, o)
      <3>1. d.log_view = d.view => ~(d.log_view < d.view)
        BY <1>4 DEF View
      <3> QED
        BY <1>3, <1>10, <3>1
    <2> QED
      BY <1>10, <2>1, <2>2, <2>3, Zenon DEF RecoveredFrom
  <1> QED
    BY <1>2, <1>9, <1>10, <1>11, <1>12, <1>15, <1>16

\* What most of the proofs need of it.
LEMMA CrashFacts ==
    ASSUME TypeInv, IInv, NEW r \in Replica, Crash(r)
    PROVE  /\ \E found : RecoveredLog(r, found)
           /\ \E retires \in BOOLEAN : Restarted(r, retires)
           /\ journal'[r] \in [Op -> Slot]
           /\ \A k \in Op : /\ disk'[r][k] \in HeadersOf(k) \cup {Torn, Rotten}
                            /\ writing'[r][k] = None
           /\ disk'[r] \in [Op -> Prepare \cup {None, Torn, Rotten}]
           /\ writing'[r] \in [Op -> Prepare \cup {None}]
           /\ prepare_oks' = prepare_oks \ OwnPrepareOks(r)
           /\ UNCHANGED <<durable, committed, prepared, start_views, commits>>
           /\ IF status'[r] = "view_change" THEN SendDoViewChange(r)
              ELSE do_view_changes' = do_view_changes \ OwnDoViewChanges(r)
  BY CrashSlots, Zenon

\* The bound on crashes bounds how often a replica can have restarted.
LEMMA IncarnationBound ==
    ASSUME TypeInv, NEW r \in Replica, Crash(r)
    PROVE  incarnation[r] + 1 \in 0..CrashMax
  <1>1. incarnation[r] \in 0..CrashMax /\ CrashMax \in Nat
    BY CountsAssumption DEF TypeInv, LocalTypes, ReplicaTypes
  <1>2. Cardinality(Crashes) < CrashMax
    BY Zenon DEF Crash
  <1>3. CASE incarnation[r] = CrashMax
    <2> DEFINE f == [i \in 1..CrashMax |-> <<r, i>>]
    <2>1. IsFiniteSet(Crashes)
      <3>1. IsFiniteSet(0..(ReplicaCount - 1)) /\ IsFiniteSet(1..CrashMax)
        BY <1>1, CountsAssumption, FS_Interval
      <3>2. IsFiniteSet(Replica \X (1..CrashMax))
        BY <3>1, FS_Product DEF Replica
      <3> QED
        BY <3>2, FS_Subset DEF Crashes
    <2>2. \A i \in 1..CrashMax : <<r, i>> \in Crashes
      BY <1>1, <1>3 DEF Crashes
    <2>3. f \in Injection(1..CrashMax, Crashes)
      <3>1. f \in [1..CrashMax -> Crashes]
        BY <2>2
      <3>2. \A a, b \in 1..CrashMax : f[a] = f[b] => a = b
        OBVIOUS
      <3> QED
        BY <3>1, <3>2, Zenon DEF Injection, IsInjective
    <2>4. Cardinality(1..CrashMax) <= Cardinality(Crashes)
      BY <2>1, <2>3, FS_Injection
    <2>5. Cardinality(1..CrashMax) = CrashMax
      <3>1. Cardinality(1..CrashMax) = IF 1 > CrashMax THEN 0 ELSE CrashMax - 1 + 1
        BY <1>1, FS_Interval
      <3> QED
        BY <1>1, <3>1
    <2>6. Cardinality(Crashes) \in Nat
      BY <2>1, FS_CardinalityType
    <2> QED
      BY <1>1, <1>2, <2>4, <2>5, <2>6
  <1> QED
    BY <1>1, <1>3

\* A crash leaves a replica with a log, and views, again.
LEMMA CrashTypes ==
    ASSUME TypeInv, IInv, NEW r \in Replica, Crash(r)
    PROVE  TypeStep(r)
  <1> DEFINE d == durable[r]
             vh == d.view_headers.headers
  <1>1. PICK found : RecoveredLog(r, found)
    BY CrashFacts
  <1>2. PICK retires \in BOOLEAN : Restarted(r, retires)
    BY CrashFacts
  <1>3. /\ journal'[r] \in [Op -> Slot]
        /\ \A k \in Op : /\ disk'[r][k] \in HeadersOf(k) \cup {Torn, Rotten}
                         /\ writing'[r][k] = None
        /\ disk'[r] \in [Op -> Prepare \cup {None, Torn, Rotten}]
        /\ writing'[r] \in [Op -> Prepare \cup {None}]
        /\ prepare_oks' \subseteq prepare_oks
        /\ UNCHANGED <<durable, committed, prepared, start_views, commits>>
        /\ \A m \in do_view_changes' \ do_view_changes : m = DoViewChange(r)'
    <2>1. \A m \in do_view_changes' \ do_view_changes : m = DoViewChange(r)'
      BY CrashFacts, Zenon DEF SendDoViewChange
    <2> QED
      BY <2>1, CrashFacts
  <1>4. prepared \subseteq prepared' /\ PreparedTypes' /\ Known' = Known
    BY <1>3, SamePrepared
  <1>5. IsHeaders(vh) /\ d.view \in View /\ d.log_view \in View /\ d.commit_max \in Op
    BY DEF TypeInv, LocalTypes, HeadersTypes
  <1>6. HeadOp(vh) \in Op /\ vh[HeadOp(vh)] \in Known /\ OpOf(vh[HeadOp(vh)]) = HeadOp(vh)
        /\ vh[HeadOp(vh)] \in Prepare /\ vh[HeadOp(vh)] # None
    BY <1>5, HeadersFacts, KnownFacts
  <1>7. /\ op'[r] \in Op
        /\ \A k \in Op : journal'[r][k].header \in HeadersOf(k)
        /\ journal'[r][op'[r]].header # None
    <2>1. /\ \A k \in Op : found[k] \in Slot /\ found[k].header \in HeadersOf(k)
          /\ op'[r] \in Op
          /\ op'[r] # HeadOp(vh) => found[op'[r]].header # None
          /\ \A k \in Op \ {op'[r]} : journal'[r][k] = found[k]
          /\ journal'[r][op'[r]] = IF op'[r] = HeadOp(vh)
                                   THEN SetHeader(found[op'[r]], vh[op'[r]]) ELSE found[op'[r]]
      BY <1>1 DEF RecoveredLog
    <2>2. CASE op'[r] = HeadOp(vh)
      <3>1. journal'[r][op'[r]].header = vh[HeadOp(vh)]
        BY <1>6, <2>1, <2>2, SetHeaderFacts
      <3> HIDE DEF vh, d
      <3> QED
        BY <1>6, <2>1, <3>1, <2>2 DEF HeadersOf
    <2>3. CASE op'[r] # HeadOp(vh)
      BY <2>1, <2>3
    <2> QED
      BY <2>2, <2>3
  <1>8. commit_max'[r] \in Op
    <2>1. commit_max'[r] = HigherOf(d.commit_max, op'[r] - PipelineMax)
      BY <1>2 DEF Restarted
    <2> QED
      BY <1>5, <1>7, <2>1, CountsAssumption DEF HigherOf, Op
  <1>9. ReplicaTypes(r)'
    <2>1. incarnation[r] + 1 \in 0..CrashMax
      BY IncarnationBound
    <2>2. d.view < ViewMax => d.view + 1 \in View
      BY <1>5, CountsAssumption DEF View
    <2> QED
      BY <1>2, <1>5, <1>7, <1>8, <2>1, <2>2, OpFacts DEF Restarted, ReplicaTypes
  <1>10. JournalTypes(r)' /\ DiskTypes(r)'
    <2>1. \A o : HeadersOf(o)' = HeadersOf(o)
      BY <1>4 DEF HeadersOf
    <2>2. JournalTypes(r)'
      BY <1>3, <1>7, <2>1 DEF JournalTypes, HeadHeader
    <2>3. None \notin {Root} /\ None \in HeadersOf(0) /\ \A o : None \in HeadersOf(o) \ {Root}
      BY NoneFacts, OpFacts DEF HeadersOf
    <2> QED
      BY <1>3, <2>1, <2>2, <2>3 DEF DiskTypes
  <1>11. HeadersTypes(r)'
    <2>1. CASE retires
      <3>1. IsHeaders(DoViewChangeHeaders(journal'[r], op'[r], commit_max'[r], vh, FALSE).headers)
        BY <1>5, <1>7, <1>8, DoViewChangeHeadersFacts
      <3>2. IsHeaders(view_headers'[r].headers)
        BY <1>2, <2>1, <3>1 DEF Restarted
      <3> QED
        BY <1>3, <1>4, <1>5, <3>2, KnownGrows DEF HeadersTypes
    <2>2. CASE ~retires
      <3>1. IsHeaders(view_headers'[r].headers)
        BY <1>2, <1>5, <2>2 DEF Restarted
      <3> QED
        BY <1>3, <1>4, <1>5, <3>1, KnownGrows DEF HeadersTypes
    <2> QED
      BY <2>1, <2>2
  <1>12. LeaderLog(r)'
    <2>1. status'[r] = "normal" => r # PrimaryIndex(view'[r])
      <3>1. status'[r] = "normal" => r # PrimaryIndex(d.view) /\ ~retires /\ view'[r] = d.view
        BY <1>2 DEF Restarted
      <3> QED
        BY <3>1
    <2> QED
      BY <1>2, <2>1 DEF LeaderLog, Restarted
  <1>13. SentTypesNow
    BY <1>3, <1>9, <1>11, OwnDoViewChangeTypes DEF SentTypesNow
  <1> QED
    BY <1>4, <1>9, <1>10, <1>11, <1>12, <1>13, ViewStepsOthers DEF TypeStep, LocalTypes

-----------------------------------------------------------------------------
(* The types in every state. *)

\* The types hold initially: all logs are the root.
LEMMA InitTypes == Init => TypeInv
  <1> SUFFICES ASSUME Init PROVE TypeInv
    OBVIOUS
  <1>1. /\ Root \in Prepare /\ OpOf(Root) = 0 /\ 0 \in Op /\ 0 \in View /\ 0 \in 0..CrashMax
        /\ Root # None /\ prepared = {} /\ Known = {Root} /\ PipelineMax \in Nat
    BY OpFacts, NoneFacts, CountsAssumption DEF Init, Known, View
  <1>2. HeadersOf(0) = {Root, None} /\ \A o : None \in HeadersOf(o)
    BY <1>1 DEF HeadersOf
  <1>3. IsHeaders(StartViewHeaders(Root).headers)
    <2>1. HigherOf(0, OpOf(Root) - PipelineMax) = 0
      BY <1>1 DEF HigherOf
    <2>2. StartViewHeaders(Root).headers = [o \in 0..0 |-> Ancestor(Root, o)]
      BY <1>1, <2>1 DEF StartViewHeaders
    <2>3. Ancestor(Root, 0) = Root
      BY <1>1, AncestorOfAncestor
    <2> QED
      BY <1>1, <1>2, <2>2, <2>3 DEF IsHeaders
  <1>4. Functions
    BY Zenon DEF Init, Functions
  <1>5. PreparedTypes /\ MessageTypes
    BY DEF Init, PreparedTypes, MessageTypes
  <1>6. ASSUME NEW r \in Replica PROVE LocalTypes(r)
    <2>1. ReplicaTypes(r)
      BY <1>1 DEF Init, ReplicaTypes
    <2>2. CleanSlot(Root) \in Slot /\ CleanSlot(Root).header = Root
          /\ Reserved \in Slot /\ Reserved.header = None
      BY <1>1 DEF CleanSlot, Reserved, Slot
    <2>3. JournalTypes(r)
      BY <1>1, <1>2, <2>2 DEF Init, JournalTypes, HeadHeader
    <2>4. DiskTypes(r)
      BY <1>1, <1>2 DEF Init, DiskTypes
    <2>5. HeadersTypes(r)
      BY <1>1, <1>3 DEF Init, HeadersTypes
    <2>6. LeaderLog(r)
      <3>1. op[r] = 0 /\ commit_max[r] = 0 /\ journal[r][0].header # None
        BY <1>1, <2>2 DEF Init
      <3> QED
        BY <3>1 DEF LeaderLog
    <2> QED
      BY <2>1, <2>3, <2>4, <2>5, <2>6 DEF LocalTypes
  <1> QED
    BY <1>4, <1>5, <1>6 DEF TypeInv

\* Every step of a replica, and every crash, keeps them.
LEMMA NextTypes == TypeInv /\ IInv /\ Next => TypeInv'
  <1> SUFFICES ASSUME TypeInv, IInv, Next PROVE TypeInv'
    OBVIOUS
  <1>1. PICK r \in Replica : ReplicaStep(r) \/ Crash(r)
    BY DEF Next
  <1>2. CASE Crash(r)
    BY <1>2, CrashTypes, TypeStepInv
  <1>3. CASE ReplicaStep(r)
    <2>1. CASE OnStartViewChange(r)
      <3>1. view[r] + 1 \in View /\ ViewChangeTo(r, view[r] + 1)
        BY <2>1, CountsAssumption
           DEF OnStartViewChange, TypeInv, LocalTypes, ReplicaTypes, View
      <3> QED
        BY <3>1, ViewChangeToTypes, TypeStepInv
    <2>2. CASE \E q \in Replica : JumpView(r, q)
      <3>1. PICK q \in Replica : JumpView(r, q)
        BY <2>2
      <3>2. durable[q].view \in View /\ ViewChangeTo(r, durable[q].view)
        BY <3>1 DEF JumpView, TypeInv, LocalTypes, HeadersTypes
      <3> QED
        BY <3>2, ViewChangeToTypes, TypeStepInv
    <2>3. CASE \E q \in Replica : OnRequestStartView(r, q)
      BY <2>3, PrimarySendStartViewTypes, TypeStepInv DEF OnRequestStartView
    <2>4. CASE RepairSendStartView(r)
      BY <2>4, PrimarySendStartViewTypes, TypeStepInv DEF RepairSendStartView
    <2>5. CASE OnRequest(r) \/ \E p \in prepared :
                    OnPrepare(r, p) \/ RepairHeader(r, p) \/ OnRepair(r, p)
      BY <2>5, OnRequestTypes, OnPrepareTypes, RepairHeaderTypes, OnRepairTypes, TypeStepInv
    <2>6. CASE \E o \in Op : WriteDone(r, o)
      BY <2>6, WriteDoneTypes, TypeStepInv
    <2>7. CASE \/ PrimaryCommit(r) \/ SendCommit(r) \/ CommitJournal(r)
               \/ \E m \in commits : OnCommit(r, m)
      BY <2>7, CommitTypesStep, TypeStepInv
    <2>8. CASE \/ DoViewChangeTimeout(r) \/ OnDoViewChange(r) \/ StartViewAsTheNewPrimary(r)
               \/ \E m \in start_views : OnStartView(r, m)
               \/ ViewDurableUpdate(r)
      BY <2>8, DoViewChangeTimeoutTypes, OnDoViewChangeTypes, StartViewAsTheNewPrimaryTypes,
         OnStartViewTypes, ViewDurableUpdateTypes, TypeStepInv
    <2> QED
      BY <1>3, <2>1, <2>2, <2>3, <2>4, <2>5, <2>6, <2>7, <2>8, Zenon DEF ReplicaStep
  <1> QED
    BY <1>1, <1>2, <1>3

\* The types say what TypeOK does.
LEMMA TypeInvIsTypeOK == TypeInv => TypeOK
  <1> SUFFICES ASSUME TypeInv PROVE TypeOK
    OBVIOUS
  <1>1. Functions /\ Known \subseteq Prepare /\ prepared \subseteq Prepare
        /\ committed \subseteq Prepare
    BY KnownFacts DEF TypeInv, PreparedTypes
  <1>2. \A r \in Replica : ReplicaTypes(r) /\ JournalTypes(r) /\ DiskTypes(r)
    BY DEF TypeInv, LocalTypes
  <1>3. /\ status \in [Replica -> {"normal", "view_change", "recovering_head"}]
        /\ view \in [Replica -> View] /\ log_view \in [Replica -> View]
        /\ dvc_quorum \in [Replica -> BOOLEAN]
        /\ op \in [Replica -> Op]
        /\ commit_min \in [Replica -> Op] /\ commit_max \in [Replica -> Op]
        /\ incarnation \in [Replica -> 0..CrashMax]
    BY <1>1, <1>2 DEF Functions, ReplicaTypes
  <1>4. journal \in [Replica -> [Op -> Slot]]
    BY <1>1, <1>2 DEF Functions, JournalTypes
  <1>5. /\ disk \in [Replica -> [Op -> Prepare \cup {None, Torn, Rotten}]]
        /\ writing \in [Replica -> [Op -> Prepare \cup {None}]]
    BY <1>1, <1>2 DEF Functions, DiskTypes
  <1>6. \A r \in Replica :
            /\ HeadHeader(r) # None
            /\ \A o \in Op : journal[r][o].header # None => OpOf(journal[r][o].header) = o
    BY <1>2 DEF JournalTypes, HeadersOf
  <1> QED
    BY <1>1, <1>3, <1>4, <1>5, <1>6 DEF TypeOK

\* In every reachable state every header, in memory, on disk and in a message, is of a prepare
\* that was sent and in the slot of its op; a primary has all it knows committed in its log.
THEOREM TypesHold == Spec => []TypeInv
  <1>1. Init => TypeInv
    BY InitTypes
  <1>2. TypeInv /\ IInv /\ [Next]_vars => TypeInv'
    <2>1. ASSUME TypeInv, UNCHANGED vars PROVE TypeInv'
      <3>1. UNCHANGED <<viewVars, durable, logVars, commitVars, diskVars, incarnation, prepared>>
            /\ UNCHANGED <<prepare_oks, do_view_changes, start_views, commits>>
        BY <2>1 DEF vars, netVars
      <3>2. \A r \in Replica : LocalTypes(r)'
        BY <2>1, <3>1, SameReplicaTypes
      <3>3. Functions'
        BY <2>1, <3>1 DEF TypeInv, Functions, viewVars, logVars, commitVars, diskVars
      <3>4. PreparedTypes' /\ Known' = Known /\ prepared \subseteq prepared'
        BY <2>1, <3>1, SamePrepared DEF commitVars
      <3>5. MessageTypes'
        <4>1. \A h : IsHeaders(h) => IsHeaders(h)'
          BY <3>4, KnownGrows
        <4> QED
          BY <2>1, <3>1, <3>4, <4>1 DEF TypeInv, MessageTypes, PrepareOkTypes, DoViewChangeTypes,
             StartViewTypes, CommitTypes
      <3> QED
        BY <3>2, <3>3, <3>4, <3>5 DEF TypeInv
    <2> QED
      BY <2>1, NextTypes
  <1> QED
    BY <1>1, <1>2, InductiveInvariant, PTL DEF Spec

\* TypeOK (Replica.invariants): types, a slot holds headers of its own op, and the head's header
\* is always in the journal, also of a log that a view change or a crash put together.
THEOREM TypesOK == Spec => []TypeOK
  BY TypesHold, TypeInvIsTypeOK, PTL

-----------------------------------------------------------------------------
(***************************************************************************)
(* The logs of one view, in memory, in superblocks, in messages and after  *)
(* crashes, are beginnings of its primary's.                               *)
(***************************************************************************)
(* The tips of the logs of a view. *)

\* Whatever is a tip is a prepare that was sent.
LEMMA TipsKnown ==
    ASSUME TypeInv
    PROVE  /\ \A v, p : SentTip(v, p) => p \in Known
           /\ \A r \in Replica : \A v, p : HasTip(r, v, p) => p \in Known
           /\ \A v, p : SentTip(v, p) => p \in Tips(v)
           /\ \A r \in Replica : \A v, p : HasTip(r, v, p) => p \in Tips(v)
           /\ \A v : Tips(v) \subseteq Known /\ Tips(v) \subseteq Prepare
  <1>1. ASSUME NEW v, NEW p, SentTip(v, p) PROVE p \in Known
    <2>1. CASE \E m \in do_view_changes : m.log_view = v /\ p = m.headers[m.op]
      <3>1. PICK m \in do_view_changes : m.log_view = v /\ p = m.headers[m.op]
        BY <2>1
      <3>2. IsHeaders(m.headers) /\ m.op = HeadOp(m.headers)
        BY DEF TypeInv, MessageTypes, DoViewChangeTypes
      <3> QED
        BY <3>1, <3>2, HeadersFacts
    <2> QED
      BY <1>1, <2>1, KnownFacts DEF SentTip, TypeInv, MessageTypes, StartViewTypes
  <1>2. ASSUME NEW r \in Replica, NEW v, NEW p, HasTip(r, v, p) PROVE p \in Known
    <2>1. HeadHeader(r) \in Known
      BY HeadFacts
    <2>2. ViewHead(view_headers[r]) \in Known /\ ViewHead(durable[r].view_headers) \in Known
      BY HeadersFacts DEF TypeInv, LocalTypes, HeadersTypes, ViewHead
    <2> QED
      BY <1>2, <2>1, <2>2 DEF HasTip
  <1> QED
    BY <1>1, <1>2, KnownFacts DEF Tips

\* What a step of r may do to the logs of the views: the only new tip is the head of a primary,
\* which goes on from all the others.
LogStep(r) ==
    /\ \A v \in View : \A p : HasTip(r, v, p)' =>
            p \in Tips(v) \/ (Leads(r)' /\ v = view'[r] /\ p = HeadHeader(r)')
    /\ \A p \in prepared' \ prepared :
            /\ LogViewDurable(ViewOf(p))'
            /\ Leads(r)' /\ ViewOf(p) = view'[r] /\ p = HeadHeader(r)'
    /\ \A m \in do_view_changes' \ do_view_changes :
            /\ m.replica = r /\ m.log_view < m.view /\ OfOneLog(m.headers)
            /\ m.headers[m.op] \in Tips(m.log_view)
            /\ LogViewDurable(m.log_view)' \/ (r = PrimaryIndex(m.log_view) /\ r = PrimaryIndex(m.view))
    /\ \A m \in start_views' \ start_views :
            m.head \in Tips(m.view) /\ OpOf(m.head) - PipelineMax <= m.commit_max
    /\ \A m \in commits' \ commits :
            /\ LogViewDurable(m.view)'
            /\ \A t \in Tips(m.view) : Comparable(m.prepare, t)
            /\ \A q \in Replica \ {r} : ~(Leads(q) /\ view[q] = m.view)
    /\ Leads(r)' =>
            /\ \A t \in Tips(view'[r]) : Continues(t, HeadHeader(r)', view'[r])
            /\ Lineage(HeadHeader(r)', view'[r])
            /\ \A m \in commits' : m.view = view'[r] => m.prepare \preceq HeadHeader(r)'
    /\ LogViewsDurable(r)' /\ HeadersOfView(r)' /\ LogOfView(r)' /\ DoViewChangesKept(r)'

\* The invariant of the logs holds after a step that keeps the part of the replica that takes it.
LEMMA LogStepInv ==
    ASSUME TypeInv, TypeInv', IInv, LogInv, NEW r \in Replica, Others(r), LogStep(r),
           prepared \subseteq prepared', DurableGrows
    PROVE  LogInv'
  <1>1. \A q \in Replica \ {r} : SameAt(q)
    BY DEF Others
  <1>2. ASSUME NEW q \in Replica \ {r}
        PROVE  /\ \A v, p : HasTip(q, v, p)' <=> HasTip(q, v, p)
               /\ Leads(q)' <=> Leads(q)
               /\ HeadHeader(q)' = HeadHeader(q) /\ view'[q] = view[q]
    BY <1>1 DEF SameAt, HasTip, Leads, InLogView, HeadHeader, ViewHead, StartsView
  <1>3. ASSUME NEW v \in View, NEW p \in Tips(v)'
        PROVE  p \in Tips(v) \/ (Leads(r)' /\ v = view'[r] /\ p = HeadHeader(r)')
    <2>1. CASE \E q \in Replica \ {r} : HasTip(q, v, p)'
      BY <1>2, <2>1, TipsKnown
    <2>2. CASE HasTip(r, v, p)'
      BY <2>2 DEF LogStep
    <2>3. CASE SentTip(v, p)'
      <3>1. CASE SentTip(v, p)
        BY <3>1, TipsKnown
      <3>2. CASE ~SentTip(v, p)
        BY <2>3, <3>2 DEF SentTip, LogStep
      <3> QED
        BY <3>1, <3>2
    <2> QED
      BY <2>1, <2>2, <2>3 DEF Tips
  <1>4. Leads(r)' =>
            /\ view'[r] \in View /\ HeadHeader(r)' \in Prepare
            /\ \A t \in Tips(view'[r]) : Continues(t, HeadHeader(r)', view'[r])
            /\ Continues(HeadHeader(r)', HeadHeader(r)', view'[r])
            /\ Lineage(HeadHeader(r)', view'[r])
    <2>1. view'[r] \in View /\ HeadHeader(r)' \in Prepare
      <3>1. PICK o \in Op : HeadHeader(r)' \in HeadersOf(o)' /\ HeadHeader(r)' # None
        BY DEF TypeInv, LocalTypes, ReplicaTypes, JournalTypes, HeadHeader
      <3>2. Known' \subseteq Prepare
        BY OpFacts DEF TypeInv, PreparedTypes, Known
      <3> QED
        BY <3>1, <3>2 DEF TypeInv, LocalTypes, ReplicaTypes, HeadersOf
    <2> QED
      BY <2>1, ContinuesFacts DEF LogStep
  <1>5. OneLogPerView'
    <2> SUFFICES ASSUME NEW v \in View, NEW s \in Tips(v)', NEW t \in Tips(v)'
                 PROVE  Continues(s, t, v) \/ Continues(t, s, v)
      BY DEF OneLogPerView
    <2>1. CASE s \in Tips(v) /\ t \in Tips(v)
      BY <2>1 DEF LogInv, OneLogPerView
    <2> QED
      BY <1>3, <1>4, <2>1
  <1>6. TipViews'
    <2> SUFFICES ASSUME NEW v \in View, NEW t \in Tips(v)' PROVE Lineage(t, v)
      BY DEF TipViews
    <2> QED
      BY <1>3, <1>4 DEF LogInv, TipViews
  <1>7. PrimaryHasTips'
    <2>1. ASSUME NEW q \in Replica, Leads(q)', NEW w \in View, w = view'[q], NEW t \in Tips(w)'
          PROVE  Continues(t, HeadHeader(q)', w)
      <3>1. CASE q = r
        BY <1>3, <1>4, <2>1, <3>1
      <3>2. CASE q # r
        <4>1. Leads(q) /\ HeadHeader(q)' = HeadHeader(q) /\ w = view[q]
          BY <1>2, <2>1, <3>2
        <4>2. ~(Leads(r)' /\ w = view'[r])
          BY <2>1, <3>2 DEF Leads
        <4>3. t \in Tips(w)
          BY <1>3, <4>2
        <4> QED
          BY <4>1, <4>3 DEF LogInv, PrimaryHasTips
      <3> QED
        BY <3>1, <3>2
    <2>2. \A q \in Replica : view'[q] \in View
      BY DEF TypeInv, LocalTypes, ReplicaTypes
    <2> QED
      BY <2>1, <2>2 DEF PrimaryHasTips
  <1>8. \A v \in View : LogViewDurable(v) => LogViewDurable(v)'
    <2> SUFFICES ASSUME NEW v \in View, LogViewDurable(v) PROVE LogViewDurable(v)'
      OBVIOUS
    <2>1. PrimaryIndex(v) \in Replica /\ v \in Nat
      BY PrimaryIsReplica, CountsAssumption DEF View
    <2>2. /\ durable[PrimaryIndex(v)].log_view <= durable'[PrimaryIndex(v)].log_view
          /\ durable[PrimaryIndex(v)].log_view \in Nat /\ durable'[PrimaryIndex(v)].log_view \in Nat
      BY <2>1, CountsAssumption DEF DurableGrows, TypeInv, LocalTypes, HeadersTypes, View
    <2> QED
      BY <2>1, <2>2 DEF LogViewDurable
  <1>9. TipsDurable'
    <2>1. \A p \in prepared' : LogViewDurable(ViewOf(p))'
      <3> TAKE p \in prepared'
      <3>1. CASE p \in prepared
        BY <1>8, <3>1, KnownFacts, ViewFacts DEF LogInv, TipsDurable
      <3>2. CASE p \notin prepared
        BY <3>2 DEF LogStep
      <3> QED
        BY <3>1, <3>2
    <2>2. ASSUME NEW q \in Replica PROVE LogViewsDurable(q)'
      <3>1. CASE q = r
        BY <3>1 DEF LogStep
      <3>2. CASE q # r
        <4>1. LogViewsDurable(q) /\ log_view'[q] = log_view[q] /\ durable'[q] = durable[q]
              /\ log_view[q] \in View /\ durable[q].log_view \in View
          BY <1>1, <3>2 DEF SameAt, LogInv, TipsDurable, TypeInv, LocalTypes, ReplicaTypes,
             HeadersTypes
        <4> QED
          BY <1>8, <4>1 DEF LogViewsDurable
      <3> QED
        BY <3>1, <3>2
    <2>3. ASSUME NEW m \in do_view_changes'
          PROVE  \/ LogViewDurable(m.log_view)'
                 \/ m.replica = PrimaryIndex(m.log_view) /\ m.replica = PrimaryIndex(m.view)
      <3>1. CASE m \in do_view_changes
        <4>1. m.log_view \in View
          BY <3>1 DEF TypeInv, MessageTypes, DoViewChangeTypes
        <4> QED
          BY <1>8, <3>1, <4>1 DEF LogInv, TipsDurable
      <3>2. CASE m \notin do_view_changes
        BY <3>2 DEF LogStep
      <3> QED
        BY <3>1, <3>2
    <2> QED
      BY <2>1, <2>2, <2>3 DEF TipsDurable
  <1>10. ASSUME NEW q \in Replica PROVE HeadersOfView(q)' /\ LogOfView(q)' /\ DoViewChangesKept(q)'
    <2>1. CASE q = r
      BY <2>1 DEF LogStep
    <2>2. CASE q # r
      <3>1. SameAt(q) /\ HeadersOfView(q) /\ LogOfView(q) /\ DoViewChangesKept(q)
        BY <1>1, <2>2 DEF LogInv
      <3>2. HeadersOfView(q)'
        BY <3>1 DEF SameAt, HeadersOfView, InLogView, HeadHeader, ViewDurable
      <3>3. LogOfView(q)'
        BY <3>1 DEF SameAt, LogOfView, InLogView, HeadHeader, Leads
      <3>4. DoViewChangesKept(q)'
        <4>1. \A m \in do_view_changes' : m.replica = q => m \in do_view_changes
          BY <2>2 DEF LogStep
        <4> QED
          BY <3>1, <4>1 DEF SameAt, DoViewChangesKept, InLogView
      <3> QED
        BY <3>2, <3>3, <3>4
    <2> QED
      BY <2>1, <2>2
  <1>11. MessagesOfView'
    BY DEF LogStep, LogInv, MessagesOfView
  <1>12. CommitsInLog'
    <2> SUFFICES ASSUME NEW m \in commits'
                 PROVE  /\ LogViewDurable(m.view)'
                        /\ \A t \in Tips(m.view)' : Comparable(m.prepare, t)
                        /\ \A q \in Replica : Leads(q)' /\ view'[q] = m.view =>
                                m.prepare \preceq HeadHeader(q)'
      BY DEF CommitsInLog
    <2>1. m.view \in View
      BY DEF TypeInv, MessageTypes, CommitTypes
    <2>2. Leads(r)' /\ view'[r] = m.view => m.prepare \preceq HeadHeader(r)'
      BY DEF LogStep
    <2>3. LogViewDurable(m.view)' /\ \A t \in Tips(m.view) : Comparable(m.prepare, t)
      <3>1. CASE m \in commits
        BY <1>8, <2>1, <3>1 DEF LogInv, CommitsInLog
      <3>2. CASE m \notin commits
        BY <3>2 DEF LogStep
      <3> QED
        BY <3>1, <3>2
    <2>4. \A t \in Tips(m.view)' : Comparable(m.prepare, t)
      BY <1>3, <2>1, <2>2, <2>3 DEF Comparable
    <2>5. ASSUME NEW q \in Replica, Leads(q)', view'[q] = m.view
          PROVE  m.prepare \preceq HeadHeader(q)'
      <3>1. CASE q = r
        BY <2>2, <2>5, <3>1
      <3>2. CASE q # r
        <4>1. Leads(q) /\ HeadHeader(q)' = HeadHeader(q) /\ view[q] = m.view
          BY <1>2, <2>5, <3>2
        <4>2. m \in commits
          BY <3>2, <4>1 DEF LogStep
        <4> QED
          BY <4>1, <4>2 DEF LogInv, CommitsInLog
      <3> QED
        BY <3>1, <3>2
    <2> QED
      BY <2>3, <2>4, <2>5
  <1> QED
    BY <1>5, <1>6, <1>7, <1>9, <1>10, <1>11, <1>12 DEF LogInv

-----------------------------------------------------------------------------
(* Steps that leave the views alone. *)

\* The log of a primary is the longest of its view.
LEMMA LeaderFacts ==
    ASSUME TypeInv, LogInv, NEW r \in Replica, Leads(r)
    PROVE  /\ \A t \in Tips(view[r]) : Continues(t, HeadHeader(r), view[r])
           /\ Lineage(HeadHeader(r), view[r])
           /\ \A m \in commits : m.view = view[r] => m.prepare \preceq HeadHeader(r)
  <1>1. view[r] \in View /\ HeadHeader(r) \in Tips(view[r])
    BY TipsKnown DEF TypeInv, LocalTypes, ReplicaTypes, HasTip, Leads, InLogView
  <1> QED
    BY <1>1 DEF LogInv, PrimaryHasTips, TipViews, CommitsInLog

\* In a step that at most puts headers of the replica's own log into its journal, and learns of
\* commits, all logs stay as they are.
LEMMA QuietLogStep ==
    ASSUME TypeInv, LogInv, NEW r \in Replica,
           UNCHANGED <<viewVars, durable, op, prepared, do_view_changes, start_views>>,
           commit_max[r] <= commit_max'[r], commit_max'[r] \in Op,
           \A o \in Op : \/ journal'[r][o].header = journal[r][o].header
                         \/ o <= op[r] /\ journal'[r][o].header = Ancestor(HeadHeader(r), o),
           \A m \in commits' \ commits :
                /\ Leads(r) /\ m.view = view[r] /\ LogViewDurable(m.view)
                /\ m.prepare \preceq HeadHeader(r) /\ m.prepare \in Prepare
    PROVE  LogStep(r)
  <1>1. /\ op[r] \in Op /\ op[r] \in Nat /\ commit_max[r] \in Nat /\ commit_max'[r] \in Nat
        /\ HeadHeader(r) \in Prepare /\ OpOf(HeadHeader(r)) = op[r] /\ op[r] <= OpMax
        /\ OpMax \in Nat /\ Op = 0..OpMax /\ PipelineMax \in Nat
    BY HeadFacts, CountsAssumption, OpFacts DEF TypeInv, LocalTypes, ReplicaTypes, Op
  <1>2. HeadHeader(r)' = HeadHeader(r)
    <2>1. journal'[r][op[r]].header = journal[r][op[r]].header
      BY <1>1, AncestorOfAncestor DEF HeadHeader
    <2> QED
      BY <2>1 DEF HeadHeader
  <1>3. /\ \A v, p : HasTip(r, v, p)' <=> HasTip(r, v, p)
        /\ Leads(r)' <=> Leads(r)
        /\ InLogView(r)' <=> InLogView(r)
    BY <1>2 DEF HasTip, Leads, InLogView, StartsView, ViewHead, viewVars
  <1>4. ASSUME NEW m \in commits' \ commits
        PROVE  /\ LogViewDurable(m.view)'
               /\ \A t \in Tips(m.view) : Comparable(m.prepare, t)
               /\ \A q \in Replica \ {r} : ~(Leads(q) /\ view[q] = m.view)
    <2>1. \A t \in Tips(m.view) : t \preceq HeadHeader(r) /\ t \in Prepare
      BY LeaderFacts, TipsKnown DEF Continues
    <2>2. \A t \in Tips(m.view) : Comparable(m.prepare, t)
      <3> TAKE t \in Tips(m.view)
      <3>1. t \preceq HeadHeader(r) /\ t \in Prepare /\ OpOf(t) \in Nat
            /\ m.prepare \preceq HeadHeader(r) /\ m.prepare \in Prepare /\ OpOf(m.prepare) \in Nat
        BY <2>1, OpFacts
      <3> QED
        BY <1>1, <3>1, BeginsFacts DEF Comparable
    <2>3. LogViewDurable(m.view)'
      BY DEF LogViewDurable
    <2> QED
      BY <2>2, <2>3 DEF Leads
  <1>5. Leads(r)' =>
            /\ \A t \in Tips(view'[r]) : Continues(t, HeadHeader(r)', view'[r])
            /\ Lineage(HeadHeader(r)', view'[r])
            /\ \A m \in commits' : m.view = view'[r] => m.prepare \preceq HeadHeader(r)'
    BY <1>2, <1>3, LeaderFacts DEF viewVars
  <1>6. LogViewsDurable(r)'
    BY DEF LogInv, TipsDurable, LogViewsDurable, LogViewDurable, viewVars
  <1>7. HeadersOfView(r)'
    <2>1. HeadersOfView(r)
      BY DEF LogInv
    <2> QED
      BY <1>2, <2>1 DEF HeadersOfView, InLogView, ViewDurable, viewVars
  <1>8. LogOfView(r)'
    <2>1. LogOfView(r)
      BY DEF LogInv
    <2>2. op'[r] - PipelineMax <= commit_max'[r]
      BY <1>1, <2>1 DEF LogOfView
    <2>3. ASSUME InLogView(r)'
          PROVE  /\ \A o \in (op'[r] + 1)..OpMax : journal'[r][o].header = None
                 /\ \A o \in commit_max'[r]..op'[r] :
                       journal'[r][o].header \in {None, Ancestor(HeadHeader(r)', o)}
      <3>1. \A o \in (op[r] + 1)..OpMax : o \in Op /\ ~(o <= op[r])
        BY <1>1
      <3>2. \A o \in commit_max'[r]..op[r] : o \in Op /\ o \in commit_max[r]..op[r]
        BY <1>1
      <3> QED
        BY <1>2, <1>3, <2>1, <2>3, <3>1, <3>2 DEF LogOfView
    <2>4. ASSUME Leads(r)', StartsView(view_headers[r])'
          PROVE  HashChain(journal'[r], 0, op'[r])
      <3>1. HashChain(journal[r], 0, op[r])
        BY <1>3, <2>1, <2>4 DEF LogOfView, StartsView, viewVars
      <3>2. \A o \in 0..op[r] : o \in Op /\ o <= op[r] /\ o \in 0..OpOf(HeadHeader(r))
        BY <1>1
      <3>3. \A o \in 0..op[r] : Ancestor(HeadHeader(r), o) # None
        BY <1>1, <3>2, AncestorFacts, NoneFacts
      <3> QED
        BY <1>2, <3>1, <3>2, <3>3 DEF HashChain, HeadHeader
    <2> QED
      BY <2>2, <2>3, <2>4 DEF LogOfView
  <1>9. DoViewChangesKept(r)'
    BY <1>3 DEF LogInv, DoViewChangesKept, InLogView, viewVars
  <1> HIDE DEF LogInv, TypeInv
  <1>10. \A v \in View : \A p : HasTip(r, v, p)' => p \in Tips(v)
    BY <1>3, TipsKnown
  <1> QED
    BY <1>4, <1>5, <1>6, <1>7, <1>8, <1>9, <1>10 DEF LogStep

\* A replica in normal status, or a primary with its DVC quorum, has a log of its view; a primary
\* in normal status started its view with it, and has all of it.
LEMMA NormalFacts ==
    ASSUME TypeInv, IInv, LogInv, NEW r \in Replica
    PROVE  /\ status[r] = "normal" => InLogView(r) /\ dvc_quorum[r] = FALSE /\ StartsView(view_headers[r])
           /\ dvc_quorum[r] => InLogView(r) /\ status[r] = "view_change"
           /\ status[r] = "normal" /\ r = PrimaryIndex(view[r]) =>
                /\ Leads(r) /\ commit_max[r] <= op[r]
                /\ \A o \in 0..op[r] : /\ journal[r][o].header = Ancestor(HeadHeader(r), o)
                                       /\ journal[r][o].header \preceq HeadHeader(r)
  <1>1. /\ status[r] = "normal" => InLogView(r) /\ dvc_quorum[r] = FALSE
        /\ dvc_quorum[r] => InLogView(r) /\ status[r] = "view_change"
    BY DEF IInv, ViewOrder, InLogView, TypeInv, LocalTypes, ReplicaTypes
  <1>2. status[r] = "normal" => StartsView(view_headers[r])
    BY <1>1 DEF LogInv, HeadersOfView
  <1>3. ASSUME status[r] = "normal", r = PrimaryIndex(view[r])
        PROVE  /\ Leads(r) /\ commit_max[r] <= op[r]
               /\ \A o \in 0..op[r] : /\ journal[r][o].header = Ancestor(HeadHeader(r), o)
                                      /\ journal[r][o].header \preceq HeadHeader(r)
    <2>1. Leads(r) /\ commit_max[r] <= op[r]
      BY <1>1, <1>3 DEF Leads, TypeInv, LocalTypes, LeaderLog
    <2>2. HashChain(journal[r], 0, op[r])
      BY <1>2, <1>3, <2>1 DEF LogInv, LogOfView
    <2>3. \A o \in 0..op[r] : journal[r][o].header = Ancestor(HeadHeader(r), o)
      BY <2>2 DEF HashChain, HeadHeader
    <2> QED
      BY <2>1, <2>3, HeadFacts, BeginsFacts
  <1> QED
    BY <1>1, <1>2, <1>3

\* What is durable of a primary's own view is there for every replica.
LEMMA PrimaryDurable ==
    ASSUME TypeInv, NEW r \in Replica, ViewDurable(r), InLogView(r), r = PrimaryIndex(view[r])
    PROVE  LogViewDurable(view[r])
  BY CountsAssumption DEF ViewDurable, InLogView, LogViewDurable, TypeInv, LocalTypes,
     HeadersTypes, ReplicaTypes, View

\* Commits change nothing in the log, and a heartbeat tells of the primary's.
LEMMA CommitLogStep ==
    ASSUME TypeInv, TypeInv', IInv, LogInv, NEW r \in Replica,
           \/ PrimaryCommit(r) \/ SendCommit(r) \/ CommitJournal(r)
           \/ \E m \in commits : OnCommit(r, m)
    PROVE  LogStep(r)
  <1>0. /\ commit_max[r] \in Op /\ commit_max'[r] \in Op /\ op[r] \in Op
        /\ commit_max[r] \in Nat /\ op[r] \in Nat
    BY OpFacts DEF TypeInv, LocalTypes, ReplicaTypes
  <1>t. commit_max = [q \in Replica |-> commit_max[q]]
    BY DEF TypeInv, Functions
  <1>1. /\ UNCHANGED <<viewVars, durable, logVars, prepared, do_view_changes, start_views>>
        /\ \A o \in Op : journal'[r][o].header = journal[r][o].header
    BY DEF PrimaryCommit, SendCommit, CommitJournal, OnCommit, netVars, logVars
  <1>2. commit_max[r] <= commit_max'[r]
    <2>1. CASE PrimaryCommit(r)
      <3>1. commit_max'[r] = commit_max[r] + 1
        BY <2>1, <1>t DEF PrimaryCommit
      <3> QED
        BY <1>0, <3>1
    <2>2. CASE \E m \in commits : OnCommit(r, m)
      <3>1. PICK m \in commits : OnCommit(r, m)
        BY <2>2
      <3>2. commit_max[r] < OpOf(m.prepare) /\ commit_max'[r] = OpOf(m.prepare)
        BY <3>1, <1>t DEF OnCommit
      <3>3. OpOf(m.prepare) \in Nat
        BY <1>0, <3>2, OpFacts
      <3> QED
        BY <1>0, <3>2, <3>3
    <2>3. CASE SendCommit(r) \/ CommitJournal(r)
      <3>1. commit_max' = commit_max
        BY <2>3 DEF SendCommit, CommitJournal, commitVars
      <3> QED
        BY <1>0, <3>1
    <2> QED
      BY <2>1, <2>2, <2>3
  <1>3. ASSUME NEW m \in commits' \ commits
        PROVE  /\ Leads(r) /\ m.view = view[r] /\ LogViewDurable(m.view)
               /\ m.prepare \preceq HeadHeader(r) /\ m.prepare \in Prepare
    <2>1. SendCommit(r)
      BY DEF PrimaryCommit, SendCommit, CommitJournal, OnCommit, netVars
    <2>2. m = [view |-> view[r], prepare |-> journal[r][commit_max[r]].header]
      BY <2>1 DEF SendCommit
    <2>3. status[r] = "normal" /\ r = PrimaryIndex(view[r]) /\ ViewDurable(r)
      BY <2>1 DEF SendCommit
    <2>4. commit_max[r] \in 0..op[r]
      <3>1. commit_max[r] <= op[r]
        BY <2>3, NormalFacts
      <3> QED
        BY <1>0, <3>1
    <2>5. Ancestor(HeadHeader(r), commit_max[r]) \in Prepare
      BY <2>4, HeadFacts, AncestorFacts
    <2> QED
      BY <2>2, <2>3, <2>4, <2>5, NormalFacts, PrimaryDurable
  <1> HIDE DEF LogInv, TypeInv
  <1> QED
    BY <1>0, <1>1, <1>2, <1>3, QuietLogStep DEF logVars

\* A header that is repaired is of the replica's own log: the log connects it to the head, or it
\* is of the head's view, which has one log.
LEMMA RepairsOwnLog ==
    ASSUME TypeInv, LogInv, NEW r \in Replica, NEW p \in prepared, RepairsHeader(r, p)
    PROVE  OpOf(p) <= op[r] /\ p = Ancestor(HeadHeader(r), OpOf(p)) /\ OpOf(p) \in Op
  <1> DEFINE H == HeadHeader(r)
  <1>1. /\ p \in Prepare /\ p # Root /\ p \in Known /\ OpOf(p) \in Op /\ OpOf(p) \in Nat
        /\ H \in Known /\ H \in Prepare /\ OpOf(H) = op[r] /\ op[r] \in Nat
    BY KnownFacts, HeadFacts, OpFacts
  <1>2. OpOf(p) <= op[r]
    BY <1>1 DEF RepairsHeader
  <1>3. CASE p = Ancestor(H, OpOf(p))
    BY <1>1, <1>2, <1>3
  <1>4. CASE ViewOf(p) = ViewOf(H)
    <2>1. H # Root
      BY <1>1, <1>2, OpFacts
    <2>2. H \in prepared /\ ViewOf(p) \in View
      BY <1>1, <2>1, KnownFacts, ViewFacts
    <2>3. p \in Tips(ViewOf(p)) /\ H \in Tips(ViewOf(p))
      BY <1>1, <1>4, <2>2 DEF Tips, SentTip
    <2>4. p \preceq H \/ H \preceq p
      BY <2>2, <2>3 DEF LogInv, OneLogPerView, Continues
    <2>5. p \preceq H
      BY <1>1, <1>2, <2>4, BeginsFacts
    <2> QED
      BY <1>1, <2>5 DEF \preceq
  <1> QED
    BY <1>3, <1>4 DEF RepairsHeader

\* Repair and WAL writes put nothing into a log that is not of it.
LEMMA RepairLogStep ==
    ASSUME TypeInv, TypeInv', IInv, LogInv, NEW r \in Replica,
           \/ \E p \in prepared : RepairHeader(r, p) \/ OnRepair(r, p)
           \/ \E o \in Op : WriteDone(r, o)
    PROVE  LogStep(r)
  <1>0. commit_max[r] \in Op /\ commit_max[r] \in Nat
    BY OpFacts DEF TypeInv, LocalTypes, ReplicaTypes
  <1>1. UNCHANGED <<viewVars, durable, op, commit_max, prepared, do_view_changes, start_views, commits>>
    BY DEF RepairHeader, OnRepair, WriteDone, commitVars, netVars
  <1>2. \A o \in Op : \/ journal'[r][o].header = journal[r][o].header
                      \/ o <= op[r] /\ journal'[r][o].header = Ancestor(HeadHeader(r), o)
    <2>1. CASE \E p \in prepared : RepairHeader(r, p) \/ OnRepair(r, p)
      <3>1. PICK p \in prepared : RepairHeader(r, p) \/ OnRepair(r, p)
        BY <2>1
      <3>2. CASE journal' = journal
        BY <3>2
      <3>3. CASE journal' # journal
        <4>1. RepairsHeader(r, p) /\ journal' = [journal EXCEPT ![r][OpOf(p)] = SetHeader(@, p)]
          BY <3>1, <3>3 DEF RepairHeader, OnRepair
        <4>2. OpOf(p) <= op[r] /\ p = Ancestor(HeadHeader(r), OpOf(p)) /\ OpOf(p) \in Op
          BY <4>1, RepairsOwnLog
        <4>3. p \in Prepare
          BY KnownFacts
        <4>4. /\ journal'[r][OpOf(p)].header = p
              /\ \A o \in Op \ {OpOf(p)} : journal'[r][o] = journal[r][o]
          BY <4>1, <4>3, JournalAfterSet
        <4> QED
          BY <4>2, <4>4
      <3> QED
        BY <3>2, <3>3
    <2>2. CASE \E k \in Op : WriteDone(r, k)
      <3>1. PICK k \in Op : WriteDone(r, k)
        BY <2>2
      <3>2. PICK p : journal' = [journal EXCEPT ![r][k] =
                                   IF @.header = p THEN CleanSlot(p) ELSE [@ EXCEPT !.dirty = TRUE]]
        BY <3>1 DEF WriteDone
      <3>3. journal[r] \in [Op -> Slot] /\ journal = [q \in Replica |-> journal[q]]
        BY DEF TypeInv, LocalTypes, JournalTypes, Functions
      <3>4. ASSUME NEW o \in Op PROVE journal'[r][o].header = journal[r][o].header
        <4>1. journal[r][o] \in Slot
          BY <3>3
        <4>2. CASE o # k
          BY <3>2, <3>3, <4>2
        <4>3. CASE o = k
          <5>1. journal'[r][k] = IF journal[r][k].header = p THEN CleanSlot(p)
                                 ELSE [journal[r][k] EXCEPT !.dirty = TRUE]
            BY <3>2, <3>3
          <5> QED
            BY <4>1, <4>3, <5>1 DEF CleanSlot, Slot
        <4> QED
          BY <4>2, <4>3
      <3> QED
        BY <3>4
    <2> QED
      BY <2>1, <2>2
  <1> HIDE DEF LogInv, TypeInv
  <1> QED
    BY <1>0, <1>1, <1>2, QuietLogStep

-----------------------------------------------------------------------------
(* Prepares. *)

\* A log in memory to which a prepare that continues it is appended, maybe over a gap, is still of
\* one log, with view headers that begin it.
LEMMA AppendedLog ==
    ASSUME TypeInv, LogInv, NEW r \in Replica, InLogView(r),
           NEW p \in Prepare, HeadHeader(r) \preceq p, OpOf(p) > op[r], op'[r] = OpOf(p),
           journal' = [journal EXCEPT ![r][OpOf(p)] = SetHeader(@, p)],
           UNCHANGED <<viewVars, durable>>,
           commit_max[r] <= commit_max'[r], commit_max'[r] \in Op,
           op'[r] - PipelineMax <= commit_max'[r]
    PROVE  /\ HeadHeader(r)' = p
           /\ HeadersOfView(r)'
           /\ \A o \in (op'[r] + 1)..OpMax : journal'[r][o].header = None
           /\ \A o \in commit_max'[r]..op'[r] :
                 journal'[r][o].header \in {None, Ancestor(HeadHeader(r)', o)}
           /\ \A o \in 0..op[r] : journal'[r][o].header = journal[r][o].header
                                  /\ Ancestor(p, o) = Ancestor(HeadHeader(r), o)
  <1> DEFINE H == HeadHeader(r)
  <1>1. /\ op[r] \in Nat /\ op'[r] \in Nat /\ op'[r] \in Op /\ OpMax \in Nat /\ Op = 0..OpMax
        /\ commit_max[r] \in Nat /\ commit_max'[r] \in Nat /\ op[r] < op'[r] /\ op'[r] <= OpMax
        /\ H \in Prepare /\ OpOf(H) = op[r]
    BY HeadFacts, OpFacts, CountsAssumption DEF TypeInv, LocalTypes, ReplicaTypes, Op
  <1>2. /\ journal'[r][op'[r]].header = p
        /\ \A o \in Op \ {op'[r]} : journal'[r][o] = journal[r][o]
    <2>1. /\ journal'[r][OpOf(p)].header = p
          /\ \A o \in Op \ {OpOf(p)} : journal'[r][o] = journal[r][o]
      BY JournalAfterSet
    <2> QED
      BY <2>1
  <1>3. HeadHeader(r)' = p
    BY <1>2 DEF HeadHeader
  <1>4. \A o \in 0..op[r] : Ancestor(p, o) = Ancestor(H, o)
    BY <1>1, BeginsFacts
  <1>5. LogOfView(r) /\ HeadersOfView(r)
    BY DEF LogInv
  <1>6. HeadersOfView(r)'
    <2>1. ViewHead(view_headers[r]) \in Prepare
      BY HeadersFacts, KnownFacts DEF TypeInv, LocalTypes, HeadersTypes, ViewHead
    <2>2. ViewHead(view_headers[r]) \preceq H => ViewHead(view_headers[r]) \preceq p
      BY <1>1, <2>1, BeginsFacts
    <2> HIDE DEF H
    <2>3. InLogView(r)'
      BY DEF InLogView, viewVars
    <2> QED
      BY <1>3, <1>5, <2>2, <2>3 DEF HeadersOfView, ViewDurable, viewVars, H
  <1>7. \A o \in (op'[r] + 1)..OpMax : journal'[r][o].header = None
    <2> TAKE o \in (op'[r] + 1)..OpMax
    <2>1. o \in Op \ {op'[r]} /\ o \in (op[r] + 1)..OpMax
      BY <1>1
    <2> QED
      BY <1>2, <1>5, <2>1 DEF LogOfView
  <1>8. ASSUME NEW o \in commit_max'[r]..op'[r]
        PROVE  journal'[r][o].header \in {None, Ancestor(p, o)}
    <2>1. CASE o = op'[r]
      BY <1>2, <2>1, AncestorOfAncestor
    <2>2. CASE op[r] < o /\ o < op'[r]
      <3>1. o \in Op \ {op'[r]} /\ o \in (op[r] + 1)..OpMax
        BY <1>1, <2>2
      <3> QED
        BY <1>2, <1>5, <3>1 DEF LogOfView
    <2>3. CASE o <= op[r]
      <3>1. o \in Op \ {op'[r]} /\ o \in commit_max[r]..op[r] /\ o \in 0..op[r]
        BY <1>1, <2>3
      <3> QED
        BY <1>2, <1>4, <1>5, <3>1 DEF LogOfView
    <2> QED
      BY <1>1, <2>1, <2>2, <2>3
  <1>9. \A o \in 0..op[r] : o \in Op \ {op'[r]}
    BY <1>1
  <1> QED
    BY <1>2, <1>3, <1>4, <1>6, <1>7, <1>8, <1>9

\* A primary appends to the longest log of its view, which is its own and durable.
LEMMA OnRequestLogStep ==
    ASSUME TypeInv, TypeInv', IInv, LogInv, NEW r \in Replica, OnRequest(r)
    PROVE  LogStep(r)
  <1> DEFINE H == HeadHeader(r)
             v == view[r]
             p == Append(H, v)
  <1>1. /\ status[r] = "normal" /\ r = PrimaryIndex(v) /\ ViewDurable(r)
        /\ op[r] - commit_max[r] < PipelineMax /\ op[r] < OpMax
        /\ prepared' = prepared \cup {p}
        /\ AppendPrepare(r, p)
        /\ UNCHANGED <<viewVars, durable, commitVars, do_view_changes, start_views, commits>>
    BY DEF OnRequest, NewPrepare
  <1>2. Leads(r) /\ InLogView(r) /\ StartsView(view_headers[r]) /\ HashChain(journal[r], 0, op[r])
    BY <1>1, NormalFacts DEF LogInv, LogOfView
  <1>3. /\ H \in Prepare /\ v \in View /\ OpOf(H) = op[r] /\ op[r] \in Nat
        /\ commit_max[r] \in Nat /\ PipelineMax \in Nat /\ commit_max[r] \in Op
    BY HeadFacts, OpFacts, CountsAssumption DEF TypeInv, LocalTypes, ReplicaTypes
  <1>4. /\ p \in Prepare /\ OpOf(p) = op[r] + 1 /\ ViewOf(p) = v /\ H \preceq p
        /\ Continues(H, p, v) /\ op[r] + 1 \in Op
    BY <1>1, <1>3, AppendFacts, ContinuesFacts, OpFacts
  <1>5. op'[r] = OpOf(p) /\ journal' = [journal EXCEPT ![r][OpOf(p)] = SetHeader(@, p)]
    BY <1>1 DEF AppendPrepare, TypeInv, Functions
  <1>6. v <= durable'[PrimaryIndex(v)].log_view
    <2>1. LogViewDurable(view[r])
      BY <1>1, <1>2, PrimaryDurable
    <2> QED
      BY <1>1, <2>1 DEF LogViewDurable
  <1>7. /\ \A t \in Tips(v) : Continues(t, H, v) /\ t \in Prepare
        /\ Lineage(H, v)
        /\ \A m \in commits : m.view = v => m.prepare \preceq H
    BY <1>2, LeaderFacts, TipsKnown
  <1>8. commit_max'[r] = commit_max[r]
    BY <1>1 DEF commitVars
  <1> HIDE DEF H, v, p
  <1>9. /\ HeadHeader(r)' = p /\ HeadersOfView(r)'
        /\ \A o \in (op'[r] + 1)..OpMax : journal'[r][o].header = None
        /\ \A o \in commit_max'[r]..op'[r] :
              journal'[r][o].header \in {None, Ancestor(HeadHeader(r)', o)}
        /\ \A o \in 0..op[r] : journal'[r][o].header = journal[r][o].header
                               /\ Ancestor(p, o) = Ancestor(HeadHeader(r), o)
    <2>1. OpOf(p) > op[r] /\ op'[r] - PipelineMax <= commit_max'[r] /\ commit_max[r] <= commit_max'[r]
      BY <1>1, <1>3, <1>4, <1>5, <1>8
    <2> QED
      BY <1>1, <1>2, <1>3, <1>4, <1>5, <1>8, <2>1, AppendedLog DEF H
  <1>10. Leads(r)' /\ InLogView(r)' /\ view'[r] = v
    BY <1>1, <1>2 DEF Leads, InLogView, viewVars, v
  <1>11. \A w \in View : \A t : HasTip(r, w, t)' =>
            t \in Tips(w) \/ (Leads(r)' /\ w = view'[r] /\ t = HeadHeader(r)')
    <2> SUFFICES ASSUME NEW w \in View, NEW t, HasTip(r, w, t)'
                 PROVE  t \in Tips(w) \/ (Leads(r)' /\ w = view'[r] /\ t = HeadHeader(r)')
      OBVIOUS
    <2>1. HasTip(r, w, t) \/ (log_view'[r] = w /\ t = HeadHeader(r)')
      BY <1>1 DEF HasTip, InLogView, viewVars
    <2> QED
      BY <1>10, <2>1, TipsKnown DEF InLogView
  <1>12. \A t \in Tips(v) : Continues(t, p, v)
    BY <1>3, <1>4, <1>7, ContinuesFacts
  <1>13. Lineage(p, v)
    BY <1>1, <1>3, <1>7, LineageFacts DEF p
  <1>14. ASSUME NEW m \in commits, m.view = v PROVE m.prepare \preceq p
    <2>1. m.prepare \in Prepare
      BY KnownFacts DEF TypeInv, MessageTypes, CommitTypes
    <2> QED
      BY <1>3, <1>4, <1>7, <1>14, <2>1, BeginsFacts
  <1>15. LogViewsDurable(r)' /\ DoViewChangesKept(r)'
    BY <1>1, <1>10 DEF LogInv, TipsDurable, LogViewsDurable, LogViewDurable, DoViewChangesKept,
       InLogView, viewVars
  <1>16. LogOfView(r)'
    <2>1. op'[r] - PipelineMax <= commit_max'[r]
      BY <1>1, <1>3, <1>4, <1>5, <1>8
    <2>2. \A o \in 0..op'[r] : journal'[r][o].header = Ancestor(p, o)
      <3> TAKE o \in 0..op'[r]
      <3>1. CASE o = op'[r]
        BY <1>4, <1>5, <1>9, <3>1, AncestorOfAncestor DEF HeadHeader
      <3>2. CASE o \in 0..op[r]
        BY <1>2, <1>9, <3>2 DEF HashChain, HeadHeader
      <3> QED
        BY <1>3, <1>4, <1>5, <3>1, <3>2
    <2>3. HashChain(journal'[r], 0, op'[r])
      <3>1. \A o \in 0..op'[r] : Ancestor(p, o) # None
        BY <1>4, <1>5, AncestorFacts, NoneFacts
      <3> QED
        BY <1>9, <2>2, <3>1 DEF HashChain, HeadHeader
    <2> QED
      BY <1>9, <2>1, <2>3 DEF LogOfView
  <1>17. ASSUME NEW q \in prepared' \ prepared
         PROVE  /\ LogViewDurable(ViewOf(q))'
                /\ ViewOf(q) = view'[r] /\ q = HeadHeader(r)'
    <2>1. q = p /\ ViewOf(q) = v
      BY <1>1, <1>4
    <2> QED
      BY <1>6, <1>9, <1>10, <2>1 DEF LogViewDurable
  <1>18. UNCHANGED <<do_view_changes, start_views, commits>>
    BY <1>1
  <1>19. Leads(r)' =>
            /\ \A t \in Tips(view'[r]) : Continues(t, HeadHeader(r)', view'[r])
            /\ Lineage(HeadHeader(r)', view'[r])
            /\ \A m \in commits' : m.view = view'[r] => m.prepare \preceq HeadHeader(r)'
    BY <1>9, <1>10, <1>12, <1>13, <1>14, <1>18
  <1> QED
    BY <1>9, <1>10, <1>11, <1>15, <1>16, <1>17, <1>18, <1>19 DEF LogStep

\* What a backup prepares is the log of its view, even over a gap.
LEMMA OnPrepareLogStep ==
    ASSUME TypeInv, TypeInv', IInv, LogInv, NEW r \in Replica, NEW p \in prepared, OnPrepare(r, p)
    PROVE  LogStep(r)
  <1> DEFINE H == HeadHeader(r)
             v == view[r]
  <1>1. /\ status[r] = "normal" /\ r # PrimaryIndex(v) /\ ViewOf(p) = v /\ OpOf(p) > op[r]
        /\ AppendPrepare(r, p)
        /\ commit_max' = [commit_max EXCEPT ![r] = HigherOf(@, OpOf(p) - PipelineMax)]
        /\ UNCHANGED <<viewVars, durable, netVars>>
    BY DEF OnPrepare
  <1>2. InLogView(r)
    BY <1>1, NormalFacts
  <1>3. /\ H \in Prepare /\ v \in View /\ OpOf(H) = op[r] /\ op[r] \in Nat /\ p \in Prepare
        /\ p \in Known /\ commit_max[r] \in Nat /\ PipelineMax \in Nat /\ commit_max'[r] \in Op
        /\ OpOf(p) \in Nat
    BY HeadFacts, OpFacts, CountsAssumption, KnownFacts DEF TypeInv, LocalTypes, ReplicaTypes
  <1>4. op'[r] = OpOf(p) /\ journal' = [journal EXCEPT ![r][OpOf(p)] = SetHeader(@, p)]
        /\ commit_max'[r] = HigherOf(commit_max[r], OpOf(p) - PipelineMax)
    BY <1>1 DEF AppendPrepare, TypeInv, Functions
  <1>5. H \in Tips(v) /\ p \in Tips(v)
    <2>1. HasTip(r, v, H) /\ SentTip(v, p)
      BY <1>1, <1>2 DEF HasTip, InLogView, SentTip
    <2> QED
      BY <2>1, TipsKnown
  <1>6. H \preceq p
    <2>1. H \preceq p \/ p \preceq H
      BY <1>3, <1>5 DEF LogInv, OneLogPerView, Continues
    <2> QED
      BY <1>1, <1>3, <2>1 DEF \preceq
  <1>7. commit_max[r] <= commit_max'[r] /\ op'[r] - PipelineMax <= commit_max'[r]
    BY <1>3, <1>4 DEF HigherOf
  <1> HIDE DEF H, v
  <1>8. /\ HeadHeader(r)' = p /\ HeadersOfView(r)'
        /\ \A o \in (op'[r] + 1)..OpMax : journal'[r][o].header = None
        /\ \A o \in commit_max'[r]..op'[r] :
              journal'[r][o].header \in {None, Ancestor(HeadHeader(r)', o)}
    BY <1>1, <1>2, <1>3, <1>4, <1>6, <1>7, AppendedLog DEF H
  <1>9. ~Leads(r)' /\ InLogView(r)' /\ view'[r] = v /\ log_view'[r] = v
    BY <1>1, <1>2 DEF Leads, InLogView, viewVars, v
  <1>10. \A w \in View : \A t : HasTip(r, w, t)' => t \in Tips(w)
    <2> SUFFICES ASSUME NEW w \in View, NEW t, HasTip(r, w, t)' PROVE t \in Tips(w)
      OBVIOUS
    <2>1. HasTip(r, w, t) \/ (log_view'[r] = w /\ t = HeadHeader(r)')
      BY <1>1 DEF HasTip, InLogView, viewVars
    <2> QED
      BY <1>5, <1>8, <1>9, <2>1, TipsKnown
  <1>11. LogViewsDurable(r)' /\ DoViewChangesKept(r)'
    BY <1>1, <1>9 DEF LogInv, TipsDurable, LogViewsDurable, LogViewDurable, DoViewChangesKept,
       InLogView, viewVars, netVars
  <1>12. LogOfView(r)'
    BY <1>7, <1>8, <1>9 DEF LogOfView
  <1> QED
    BY <1>1, <1>8, <1>9, <1>10, <1>11, <1>12 DEF LogStep, netVars

-----------------------------------------------------------------------------
(* Steps that keep the log and the view of a replica, and tell others of them. *)

\* What a replica says in a DVC is of the log of its log_view.
LEMMA DoViewChangeFacts ==
    ASSUME TypeInv, IInv, LogInv, NEW r \in Replica, ~InLogView(r)
    PROVE  LET m == DoViewChange(r)
           IN /\ m.replica = r /\ m.view = view[r] /\ m.log_view = log_view[r]
              /\ m.headers = view_headers[r].headers
              /\ m.log_view < m.view /\ OfOneLog(m.headers)
              /\ m.headers[m.op] \in Tips(m.log_view)
  <1> DEFINE m == DoViewChange(r)
  <1>1. /\ m.replica = r /\ m.view = view[r] /\ m.log_view = log_view[r]
        /\ m.headers = view_headers[r].headers /\ m.op = HeadOp(m.headers)
    BY DEF DoViewChange
  <1> HIDE DEF m
  <1>2. log_view[r] < view[r]
    BY CountsAssumption DEF IInv, ViewOrder, InLogView, TypeInv, LocalTypes, ReplicaTypes, View
  <1>3. OfOneLog(m.headers)
    BY <1>1 DEF LogInv, HeadersOfView
  <1>4. m.headers[m.op] \in Tips(log_view[r])
    BY <1>1, TipsKnown DEF HasTip, ViewHead
  <1> QED
    BY <1>1, <1>2, <1>3, <1>4 DEF m

\* Sending a DVC again changes nothing: the headers of a view change are fixed.
LEMMA DoViewChangeTimeoutLogStep ==
    ASSUME TypeInv, TypeInv', IInv, LogInv, NEW r \in Replica, DoViewChangeTimeout(r)
    PROVE  LogStep(r)
  <1>1. /\ r # PrimaryIndex(view[r]) /\ ViewDurable(r) /\ ~InLogView(r)
        /\ do_view_changes' = do_view_changes \cup {DoViewChange(r)}
        /\ UNCHANGED <<viewVars, durable, logVars, commitVars, prepared, start_views, commits>>
    BY DEF DoViewChangeTimeout, InLogView, TypeInv, LocalTypes, ReplicaTypes, View
  <1>2. ASSUME NEW m \in do_view_changes' \ do_view_changes
        PROVE  /\ m.replica = r /\ m.view = view[r] /\ m.log_view = log_view[r]
               /\ m.headers = view_headers[r].headers
               /\ m.log_view < m.view /\ OfOneLog(m.headers)
               /\ m.headers[m.op] \in Tips(m.log_view)
    BY <1>1, DoViewChangeFacts
  <1>3. /\ \A v, p : HasTip(r, v, p)' <=> HasTip(r, v, p)
        /\ Leads(r)' <=> Leads(r)
        /\ InLogView(r)' <=> InLogView(r)
        /\ HeadHeader(r)' = HeadHeader(r)
    BY <1>1 DEF HasTip, Leads, InLogView, StartsView, ViewHead, HeadHeader, viewVars, logVars
  <1>4. ASSUME NEW m \in do_view_changes' \ do_view_changes PROVE LogViewDurable(m.log_view)'
    <2>1. LogViewDurable(durable[r].log_view) /\ durable[r].log_view = log_view[r]
      BY <1>1 DEF LogInv, TipsDurable, LogViewsDurable, ViewDurable
    <2> QED
      BY <1>1, <1>2, <2>1 DEF LogViewDurable
  <1>5. LogViewsDurable(r)'
    BY <1>1 DEF LogInv, TipsDurable, LogViewsDurable, LogViewDurable, viewVars
  <1>6. HeadersOfView(r)'
    <2>1. HeadersOfView(r)
      BY DEF LogInv
    <2> QED
      BY <1>1, <1>3, <2>1 DEF HeadersOfView, InLogView, ViewDurable, viewVars
  <1>7. LogOfView(r)'
    <2>1. LogOfView(r)
      BY DEF LogInv
    <2> QED
      BY <1>1, <1>3, <2>1 DEF LogOfView, viewVars, logVars, commitVars
  <1>8. DoViewChangesKept(r)'
    <2>1. DoViewChangesKept(r) /\ view_headers[r] = durable[r].view_headers
          /\ durable[r].log_view = log_view[r]
      BY <1>1 DEF LogInv, HeadersOfView, ViewDurable
    <2> QED
      BY <1>1, <1>2, <1>3, <2>1 DEF DoViewChangesKept, viewVars
  <1>9. Leads(r)' =>
            /\ \A t \in Tips(view'[r]) : Continues(t, HeadHeader(r)', view'[r])
            /\ Lineage(HeadHeader(r)', view'[r])
            /\ \A c \in commits' : c.view = view'[r] => c.prepare \preceq HeadHeader(r)'
    BY <1>1, <1>3, LeaderFacts DEF viewVars
  <1>10. \A v \in View : \A p : HasTip(r, v, p)' => p \in Tips(v)
    BY <1>3, TipsKnown
  <1> HIDE DEF LogInv, TypeInv
  <1> QED
    BY <1>1, <1>2, <1>4, <1>5, <1>6, <1>7, <1>8, <1>9, <1>10 DEF LogStep

\* What the superblock is told is of the same log, and so is the SV of a primary.
LEMMA ViewDurableUpdateLogStep ==
    ASSUME TypeInv, TypeInv', IInv, DurableGrows, LogInv, NEW r \in Replica, ViewDurableUpdate(r)
    PROVE  LogStep(r)
  <1>1. /\ UNCHANGED <<viewVars, logVars, commitVars, prepared, commits>>
        /\ durable'[r].view = view[r] /\ durable'[r].log_view = log_view[r]
        /\ durable'[r].view_headers = view_headers[r]
        /\ InLogView(r) => StartsView(view_headers[r])
    BY DEF ViewDurableUpdate, InLogView, StartsView, TypeInv, Functions
  <1>2. /\ InLogView(r)' <=> InLogView(r)
        /\ Leads(r)' <=> Leads(r)
        /\ HeadHeader(r)' = HeadHeader(r)
        /\ ViewDurable(r)'
    BY <1>1 DEF Leads, InLogView, HeadHeader, ViewDurable, viewVars, logVars
  <1>3. \A v \in View : \A p : HasTip(r, v, p)' => p \in Tips(v)
    <2>1. \A v, p : HasTip(r, v, p)' => HasTip(r, v, p)
      BY <1>1, <1>2 DEF HasTip, viewVars
    <2> QED
      BY <2>1, TipsKnown
  <1>4. LogViewDurable(log_view[r])' /\ log_view'[r] = log_view[r] /\ durable'[r].log_view = log_view[r]
    <2>0. log_view'[r] = log_view[r] /\ log_view[r] \in Nat /\ log_view[r] \in View
      BY <1>1, CountsAssumption DEF TypeInv, LocalTypes, ReplicaTypes, View, viewVars
    <2>1. CASE r = PrimaryIndex(log_view[r])
      BY <1>1, <2>0, <2>1 DEF LogViewDurable
    <2>2. CASE r # PrimaryIndex(log_view[r])
      <3>1. LogViewDurable(log_view[r])
        BY <2>2 DEF LogInv, TipsDurable, LogViewsDurable
      <3>2. PrimaryIndex(log_view[r]) \in Replica
        BY <2>0, PrimaryIsReplica
      <3>3. durable[PrimaryIndex(log_view[r])].log_view \in Nat
            /\ durable'[PrimaryIndex(log_view[r])].log_view \in Nat
            /\ durable[PrimaryIndex(log_view[r])].log_view
                    <= durable'[PrimaryIndex(log_view[r])].log_view
        BY <3>2, CountsAssumption DEF DurableGrows, TypeInv, LocalTypes, HeadersTypes, View
      <3> QED
        BY <1>1, <2>0, <3>1, <3>2, <3>3 DEF LogViewDurable
    <2> QED
      BY <1>1, <2>0, <2>1, <2>2
  <1>5. ASSUME NEW m \in do_view_changes' \ do_view_changes
        PROVE  /\ m.replica = r /\ m.log_view < m.view /\ OfOneLog(m.headers)
               /\ m.headers[m.op] \in Tips(m.log_view)
               /\ LogViewDurable(m.log_view)'
               /\ m.log_view = log_view[r] /\ m.headers = view_headers[r].headers
    <2>1. m = DoViewChange(r) /\ ~InLogView(r)
      BY DEF ViewDurableUpdate, InLogView, TypeInv, LocalTypes, ReplicaTypes, View
    <2> QED
      BY <1>1, <1>4, <2>1, DoViewChangeFacts DEF viewVars
  <1>6. ASSUME NEW m \in start_views' \ start_views
        PROVE  m.head \in Tips(m.view) /\ OpOf(m.head) - PipelineMax <= m.commit_max
    <2>1. m = StartView(r, None) /\ InLogView(r)
      BY DEF ViewDurableUpdate, InLogView
    <2>2. m.view = view[r] /\ m.head = HeadHeader(r) /\ m.commit_max = commit_max[r]
      BY <2>1 DEF StartView
    <2>3. HeadHeader(r) \in Tips(view[r]) /\ op[r] - PipelineMax <= commit_max[r]
      BY <2>1, TipsKnown DEF HasTip, InLogView, LogInv, LogOfView
    <2> QED
      BY <2>2, <2>3, HeadFacts
  <1>7. LogViewsDurable(r)'
    BY <1>4 DEF LogViewsDurable, LogViewDurable
  <1>8. HeadersOfView(r)'
    <2>1. HeadersOfView(r)
      BY DEF LogInv
    <2> QED
      BY <1>1, <1>2, <2>1 DEF HeadersOfView, InLogView, viewVars
  <1>9. LogOfView(r)'
    <2>1. LogOfView(r)
      BY DEF LogInv
    <2> QED
      BY <1>1, <1>2, <2>1 DEF LogOfView, viewVars, logVars, commitVars
  <1>10. DoViewChangesKept(r)'
    <2>1. DoViewChangesKept(r)
      BY DEF LogInv
    <2>2. durable'[r].log_view < durable'[r].view => ~InLogView(r)
      BY <1>1 DEF InLogView, TypeInv, LocalTypes, ReplicaTypes, View
    <2> QED
      BY <1>1, <1>2, <1>5, <2>1, <2>2 DEF DoViewChangesKept, viewVars
  <1>11. Leads(r)' =>
            /\ \A t \in Tips(view'[r]) : Continues(t, HeadHeader(r)', view'[r])
            /\ Lineage(HeadHeader(r)', view'[r])
            /\ \A c \in commits' : c.view = view'[r] => c.prepare \preceq HeadHeader(r)'
    BY <1>1, <1>2, LeaderFacts DEF viewVars
  <1> HIDE DEF LogInv, TypeInv
  <1> QED
    BY <1>1, <1>3, <1>5, <1>6, <1>7, <1>8, <1>9, <1>10, <1>11 DEF LogStep

\* A primary sends an SV of its own log once it is complete.
LEMMA PrimarySendStartViewLogStep ==
    ASSUME TypeInv, TypeInv', IInv, LogInv, NEW r \in Replica, NEW nonce,
           PrimarySendStartView(r, nonce)
    PROVE  LogStep(r)
  <1> DEFINE H == HeadHeader(r)
  <1>1. /\ r = PrimaryIndex(view[r])
        /\ status[r] = "normal" \/ (dvc_quorum[r] /\ HashChain(journal[r], 0, op[r]))
        /\ view_headers'[r] = StartViewHeaders(H)
        /\ UNCHANGED <<status, view, log_view, dvc_quorum, durable, logVars, commitVars,
                       prepared, do_view_changes, commits>>
    BY DEF PrimarySendStartView, HeadersRepaired, TypeInv, Functions
  <1>2. Leads(r) /\ InLogView(r) /\ HashChain(journal[r], 0, op[r])
    BY <1>1, NormalFacts DEF Leads, LogInv, LogOfView
  <1>3. /\ InLogView(r)' /\ Leads(r)' /\ HeadHeader(r)' = H
        /\ ViewHead(view_headers'[r]) = H /\ StartsView(view_headers'[r])
        /\ view_headers'[r] = StartViewHeaders(ViewHead(view_headers'[r]))
        /\ OfOneLog(view_headers'[r].headers)
        /\ H \preceq H
    <2>1. /\ StartViewHeaders(H).command = "start_view"
          /\ HeadOp(StartViewHeaders(H).headers) = OpOf(H)
          /\ \A o \in DOMAIN StartViewHeaders(H).headers :
                StartViewHeaders(H).headers[o] = Ancestor(H, o)
          /\ StartViewHeaders(H).headers[OpOf(H)] = H /\ H \preceq H
      BY HeadFacts, StartViewHeadersFacts, BeginsFacts
    <2>2. InLogView(r)' /\ Leads(r)' /\ HeadHeader(r)' = H
      BY <1>1, <1>2 DEF InLogView, Leads, HeadHeader, logVars
    <2> QED
      BY <1>1, <2>1, <2>2 DEF ViewHead, StartsView, OfOneLog
  <1>4. \A v \in View : \A p : HasTip(r, v, p)' => p \in Tips(v)
    <2>1. \A v, p : HasTip(r, v, p)' => HasTip(r, v, p)
      BY <1>1, <1>2, <1>3 DEF HasTip, InLogView
    <2> QED
      BY <2>1, TipsKnown
  <1>5. ASSUME NEW m \in start_views' \ start_views
        PROVE  m.head \in Tips(m.view) /\ OpOf(m.head) - PipelineMax <= m.commit_max
    <2>1. m.view = view[r] /\ m.head = H /\ m.commit_max = commit_max[r]
      BY DEF PrimarySendStartView, StartView
    <2>2. H \in Tips(view[r]) /\ op[r] - PipelineMax <= commit_max[r]
      BY <1>2, TipsKnown DEF HasTip, InLogView, LogInv, LogOfView
    <2> QED
      BY <2>1, <2>2, HeadFacts
  <1>6. LogViewsDurable(r)'
    BY <1>1 DEF LogInv, TipsDurable, LogViewsDurable, LogViewDurable
  <1>7. HeadersOfView(r)'
    <2>1. HeadersOfView(r)
      BY DEF LogInv
    <2> HIDE DEF H
    <2> QED
      BY <1>1, <1>2, <1>3, <2>1 DEF HeadersOfView, InLogView
  <1>8. LogOfView(r)'
    <2>1. LogOfView(r)
      BY DEF LogInv
    <2> HIDE DEF H
    <2>2. HashChain(journal'[r], 0, op'[r])
      BY <1>1, <1>2 DEF logVars
    <2> QED
      BY <1>1, <1>2, <1>3, <2>1, <2>2 DEF LogOfView, logVars, commitVars, H
  <1>9. DoViewChangesKept(r)'
    BY <1>1, <1>2, <1>3 DEF LogInv, DoViewChangesKept, InLogView
  <1>10. /\ \A t \in Tips(view'[r]) : Continues(t, HeadHeader(r)', view'[r])
         /\ Lineage(HeadHeader(r)', view'[r])
         /\ \A c \in commits' : c.view = view'[r] => c.prepare \preceq HeadHeader(r)'
    BY <1>1, <1>2, <1>3, LeaderFacts
  <1> HIDE DEF LogInv, TypeInv, H
  <1> QED
    BY <1>1, <1>4, <1>5, <1>6, <1>7, <1>8, <1>9, <1>10 DEF LogStep

\* A new primary starts its view with the log it sent as SV.
LEMMA StartViewAsTheNewPrimaryLogStep ==
    ASSUME TypeInv, TypeInv', IInv, LogInv, NEW r \in Replica, StartViewAsTheNewPrimary(r)
    PROVE  LogStep(r)
  <1>1. /\ status[r] = "view_change" /\ dvc_quorum[r] /\ StartsView(view_headers[r])
        /\ status'[r] = "normal" /\ dvc_quorum'[r] = FALSE
        /\ UNCHANGED <<view, log_view, view_headers, durable, logVars, commitVars,
                       prepared, do_view_changes, start_views, commits>>
    BY DEF StartViewAsTheNewPrimary, StartsView, TypeInv, Functions
  <1>2. InLogView(r) /\ Leads(r)
    BY <1>1, NormalFacts DEF Leads, LogInv, HeadersOfView
  <1>3. InLogView(r)' /\ Leads(r)' /\ HeadHeader(r)' = HeadHeader(r)
    BY <1>1, <1>2 DEF InLogView, Leads, HeadHeader, logVars
  <1>4. \A v \in View : \A p : HasTip(r, v, p)' => p \in Tips(v)
    <2>1. \A v, p : HasTip(r, v, p)' => HasTip(r, v, p)
      BY <1>1, <1>3 DEF HasTip, InLogView
    <2> QED
      BY <2>1, TipsKnown
  <1>5. LogViewsDurable(r)'
    BY <1>1 DEF LogInv, TipsDurable, LogViewsDurable, LogViewDurable
  <1>6. HeadersOfView(r)'
    <2>1. HeadersOfView(r)
      BY DEF LogInv
    <2> QED
      BY <1>1, <1>2, <1>3, <2>1 DEF HeadersOfView, InLogView
  <1>7. LogOfView(r)'
    <2>1. LogOfView(r)
      BY DEF LogInv
    <2> QED
      BY <1>1, <1>2, <1>3, <2>1 DEF LogOfView, logVars, commitVars
  <1>8. DoViewChangesKept(r)'
    BY <1>1, <1>2, <1>3 DEF LogInv, DoViewChangesKept, InLogView
  <1>9. /\ \A t \in Tips(view'[r]) : Continues(t, HeadHeader(r)', view'[r])
        /\ Lineage(HeadHeader(r)', view'[r])
        /\ \A c \in commits' : c.view = view'[r] => c.prepare \preceq HeadHeader(r)'
    BY <1>1, <1>2, <1>3, LeaderFacts
  <1> HIDE DEF LogInv, TypeInv
  <1> QED
    BY <1>1, <1>4, <1>5, <1>6, <1>7, <1>8, <1>9 DEF LogStep

-----------------------------------------------------------------------------
(* Leaving a view. *)

\* The DVC headers made of a log that is of its head's from what is committed on, and of view
\* headers that begin it, are of that log too, and go as far (update_do_view_change_headers).
LEMMA DoViewChangeHeadersOfOneLog ==
    ASSUME TypeInv, NEW j, NEW head \in Op, NEW cmax \in Op, NEW old, NEW repairing \in BOOLEAN,
           IsHeaders(old), \A o \in Op : j[o].header \in HeadersOf(o),
           NEW H, H = j[head].header, H # None,
           \A o \in cmax..head : j[o].header \in {None, Ancestor(H, o)},
           ~repairing => OfOneLog(old) /\ old[HeadOp(old)] \preceq H,
           NEW d, d = DoViewChangeHeaders(j, head, cmax, old, repairing)
    PROVE  /\ IsHeaders(d.headers) /\ d.command = "do_view_change"
           /\ HeadOp(d.headers) = head /\ d.headers[head] = H /\ OfOneLog(d.headers)
  <1> DEFINE top == IF repairing THEN head ELSE HigherOf(head, HeadOp(old))
  <1>0. /\ H \in Known /\ OpOf(H) = head /\ H \in Prepare /\ head \in Nat /\ cmax \in Nat
        /\ HeadOp(old) \in Nat /\ old[HeadOp(old)] \in Prepare
        /\ OpOf(old[HeadOp(old)]) = HeadOp(old)
        /\ \A o \in DOMAIN old : o \in 0..HeadOp(old)
    <2>1. DOMAIN old = Min(DOMAIN old)..HeadOp(old) /\ HeadOp(old) \in Op /\ Min(DOMAIN old) \in Op
          /\ old[HeadOp(old)] \in Known /\ OpOf(old[HeadOp(old)]) = HeadOp(old)
      BY HeadersFacts
    <2>2. \A o \in DOMAIN old : o \in 0..HeadOp(old)
      <3>1. HeadOp(old) \in Nat /\ Min(DOMAIN old) \in Nat
        BY <2>1, OpFacts
      <3> QED
        BY <2>1, <3>1
    <2> QED
      BY <2>1, <2>2, KnownFacts, OpFacts DEF HeadersOf
  <1>1. /\ IsHeaders(d.headers) /\ d.command = "do_view_change"
        /\ HeadOp(d.headers) = top
        /\ DOMAIN d.headers = LowerOf(cmax, top)..top
        /\ \A o \in DOMAIN d.headers :
              d.headers[o] = IF j[o].header # None THEN j[o].header
                             ELSE IF ~repairing /\ o \in DOMAIN old THEN old[o] ELSE None
    BY DoViewChangeHeadersFacts
  <1>2. top = head
    <2>1. CASE repairing
      BY <2>1
    <2>2. CASE ~repairing
      <3>1. HeadOp(old) <= head
        BY <1>0, <2>2 DEF \preceq
      <3> QED
        BY <1>0, <2>2, <3>1 DEF HigherOf
    <2> QED
      BY <2>1, <2>2
  <1> HIDE DEF top
  <1>3. ASSUME NEW o \in DOMAIN d.headers PROVE o \in 0..head /\ (o = head \/ o \in cmax..head)
    BY <1>0, <1>1, <1>2 DEF LowerOf
  <1>4. head \in DOMAIN d.headers
    BY <1>0, <1>1, <1>2 DEF LowerOf
  <1>5. ASSUME NEW o \in DOMAIN d.headers PROVE d.headers[o] \in {None, Ancestor(H, o)}
    <2>1. j[o].header \in {None, Ancestor(H, o)}
      BY <1>0, <1>3, AncestorOfAncestor
    <2>2. ASSUME ~repairing, o \in DOMAIN old PROVE old[o] \in {None, Ancestor(H, o)}
      <3>1. old[HeadOp(old)] \preceq H /\ old[o] \in {None, Ancestor(old[HeadOp(old)], o)}
            /\ o \in 0..HeadOp(old)
        BY <1>0, <2>2 DEF OfOneLog
      <3>2. Ancestor(old[HeadOp(old)], o) = Ancestor(H, o)
        BY <1>0, <3>1, BeginsFacts
      <3> QED
        BY <3>1, <3>2
    <2> QED
      BY <1>1, <2>1, <2>2
  <1>6. d.headers[head] = H
    BY <1>1, <1>4
  <1> QED
    BY <1>1, <1>2, <1>4, <1>5, <1>6 DEF OfOneLog

\* What the log of a replica that leaves its view becomes: DVC headers of it, with its head.
LEMMA LeftHeaders ==
    ASSUME TypeInv, IInv, LogInv, NEW r \in Replica, InLogView(r),
           status[r] \in {"normal", "view_change"},
           NEW repairing \in BOOLEAN, (repairing <=> status[r] = "view_change"),
           NEW d, d = DoViewChangeHeaders(journal[r], op[r], commit_max[r],
                                          view_headers[r].headers, repairing)
    PROVE  /\ ~StartsView(d) /\ OfOneLog(d.headers) /\ ViewHead(d) = HeadHeader(r)
  <1>1. /\ op[r] \in Op /\ commit_max[r] \in Op /\ IsHeaders(view_headers[r].headers)
        /\ \A o \in Op : journal[r][o].header \in HeadersOf(o)
        /\ HeadHeader(r) = journal[r][op[r]].header /\ HeadHeader(r) # None
    BY HeadFacts DEF TypeInv, LocalTypes, ReplicaTypes, HeadersTypes, JournalTypes
  <1>2. /\ \A o \in commit_max[r]..op[r] : journal[r][o].header \in {None, Ancestor(HeadHeader(r), o)}
        /\ OfOneLog(view_headers[r].headers)
    BY DEF LogInv, LogOfView, HeadersOfView
  <1>3. ASSUME ~repairing PROVE ViewHead(view_headers[r]) \preceq HeadHeader(r)
    <2>1. status[r] = "normal"
      BY <1>3
    <2> QED
      BY <2>1, NormalFacts DEF LogInv, HeadersOfView
  <1>4. /\ d.command = "do_view_change" /\ HeadOp(d.headers) = op[r]
        /\ d.headers[op[r]] = HeadHeader(r) /\ OfOneLog(d.headers)
    <2>0. op[r] \in Op /\ commit_max[r] \in Op
      BY <1>1
    <2> DEFINE j == journal[r]
               old == view_headers[r].headers
               H == HeadHeader(r)
    <2>1. ~repairing => OfOneLog(old) /\ old[HeadOp(old)] \preceq H
      BY <1>2, <1>3 DEF ViewHead
    <2>2. H = j[op[r]].header /\ H # None /\ d = DoViewChangeHeaders(j, op[r], commit_max[r], old, repairing)
      BY <1>1
    <2>3. /\ \A o \in Op : j[o].header \in HeadersOf(o)
          /\ \A o \in commit_max[r]..op[r] : j[o].header \in {None, Ancestor(H, o)}
          /\ IsHeaders(old)
      BY <1>1, <1>2
    <2> HIDE DEF j, old, H
    <2>4. /\ d.command = "do_view_change" /\ HeadOp(d.headers) = op[r]
          /\ d.headers[op[r]] = H /\ OfOneLog(d.headers)
      BY <2>0, <2>1, <2>2, <2>3, DoViewChangeHeadersOfOneLog
    <2> QED
      BY <2>4 DEF H
  <1> QED
    BY <1>4 DEF StartsView, ViewHead

\* Leaving a view for a later one: the log stays, and what is said of it in a DVC, to a new
\* primary or to oneself, is that log.
LEMMA ViewChangeToLogStep ==
    ASSUME TypeInv, TypeInv', IInv, LogInv, NEW r \in Replica, NEW v \in View, ViewChangeTo(r, v),
           view[r] < v, status[r] \in {"normal", "view_change"}
    PROVE  LogStep(r)
  <1>1. /\ UNCHANGED <<log_view, durable, logVars, commitVars, prepared, start_views, commits>>
        /\ view'[r] = v /\ SendDoViewChange(r)
    BY DEF ViewChangeTo, TypeInv, Functions
  <1>2. /\ view[r] \in Nat /\ v \in Nat /\ log_view[r] \in Nat /\ durable[r].view \in Nat
        /\ log_view[r] <= view[r] /\ durable[r].view <= view[r] /\ log_view[r] < v
    BY CountsAssumption DEF View, TypeInv, LocalTypes, ReplicaTypes, HeadersTypes, IInv, ViewOrder
  <1>3. ~InLogView(r)' /\ ~Leads(r)' /\ ~ViewDurable(r)' /\ HeadHeader(r)' = HeadHeader(r)
        /\ log_view'[r] = log_view[r]
    BY <1>1, <1>2 DEF InLogView, Leads, ViewDurable, HeadHeader, logVars
  <1>4. /\ ~StartsView(view_headers'[r]) /\ OfOneLog(view_headers'[r].headers)
        /\ ViewHead(view_headers'[r]) = HeadHeader(r)
    <2>1. CASE InLogView(r)
      <3> DEFINE repairing == status[r] = "view_change"
      <3>1. view_headers'[r] = DoViewChangeHeaders(journal[r], op[r], commit_max[r],
                                                   view_headers[r].headers, repairing)
        BY <2>1 DEF ViewChangeTo, InLogView, TypeInv, Functions
      <3>2. repairing \in BOOLEAN /\ (repairing <=> status[r] = "view_change")
        OBVIOUS
      <3> HIDE DEF repairing
      <3> QED
        BY <2>1, <3>1, <3>2, LeftHeaders
    <2>2. CASE ~InLogView(r)
      <3>1. view_headers' = view_headers
        BY <2>2 DEF ViewChangeTo, InLogView
      <3> QED
        BY <2>2, <3>1 DEF LogInv, HeadersOfView
    <2> QED
      BY <2>1, <2>2
  <1>5. HeadHeader(r) \in Tips(log_view[r])
    BY TipsKnown DEF HasTip
  <1>6. \A w \in View : \A p : HasTip(r, w, p)' => p \in Tips(w)
    <2>1. \A w, p : HasTip(r, w, p)' => HasTip(r, w, p)
      BY <1>1, <1>3, <1>4 DEF HasTip
    <2> QED
      BY <2>1, TipsKnown
  <1>7. ASSUME NEW m \in do_view_changes' \ do_view_changes
        PROVE  /\ m.replica = r /\ m.view = v /\ m.log_view = log_view[r]
               /\ m.headers = view_headers'[r].headers
               /\ m.headers[m.op] = HeadHeader(r)
               /\ r = PrimaryIndex(m.view)
    <2>1. m = DoViewChange(r)' /\ r = PrimaryIndex(view'[r])
      BY <1>1, <1>3 DEF SendDoViewChange
    <2> QED
      BY <1>1, <1>3, <1>4, <2>1 DEF DoViewChange, ViewHead
  <1>8. \A m \in do_view_changes' \ do_view_changes :
            LogViewDurable(m.log_view)' \/ (r = PrimaryIndex(m.log_view) /\ r = PrimaryIndex(m.view))
    BY <1>1, <1>7 DEF LogInv, TipsDurable, LogViewsDurable, LogViewDurable
  <1>9. LogViewsDurable(r)'
    BY <1>1 DEF LogInv, TipsDurable, LogViewsDurable, LogViewDurable
  <1>10. HeadersOfView(r)'
    <2>1. HeadersOfView(r)
      BY DEF LogInv
    <2> QED
      BY <1>1, <1>3, <1>4, <2>1 DEF HeadersOfView
  <1>11. LogOfView(r)'
    <2>1. LogOfView(r)
      BY DEF LogInv
    <2> QED
      BY <1>1, <1>3, <2>1 DEF LogOfView, logVars, commitVars
  <1>12. DoViewChangesKept(r)'
    <2>1. ASSUME NEW m \in do_view_changes', m.replica = r, m.view = view'[r]
          PROVE  m.log_view = log_view'[r] /\ m.headers = view_headers'[r].headers
      <3>1. CASE m \in do_view_changes
        BY <1>1, <1>2, <2>1, <3>1 DEF IInv, SentOrder, SentTypes
      <3>2. CASE m \notin do_view_changes
        BY <1>3, <1>7, <3>2
      <3> QED
        BY <3>1, <3>2
    <2>2. ASSUME NEW m \in do_view_changes', m.replica = r, r # PrimaryIndex(m.view),
                 m.view = durable'[r].view, durable'[r].log_view < durable'[r].view
          PROVE  /\ m.log_view = durable'[r].log_view
                 /\ m.headers = durable'[r].view_headers.headers
      BY <1>1, <1>7, <2>2 DEF LogInv, DoViewChangesKept
    <2> QED
      BY <2>1, <2>2 DEF DoViewChangesKept
  <1> HIDE DEF LogInv, TypeInv
  <1> QED
    BY <1>1, <1>2, <1>3, <1>4, <1>5, <1>6, <1>7, <1>8, <1>9, <1>10, <1>11, <1>12 DEF LogStep

-----------------------------------------------------------------------------
(* Entering a view. *)

\* The log after an SV is the SV's: nothing after its head, and its headers from where something
\* may not be committed yet (on_start_view_set_journal).
LEMMA OnStartViewLogStep ==
    ASSUME TypeInv, TypeInv', IInv, LogInv, NEW r \in Replica, NEW m \in start_views,
           OnStartView(r, m)
    PROVE  LogStep(r)
  <1> DEFINE v == m.view
             H == m.head
             h == StartViewHeaders(H).headers
  <1>1. /\ view'[r] = v /\ log_view'[r] = v /\ status'[r] = "normal" /\ dvc_quorum'[r] = FALSE
        /\ view_headers'[r] = StartViewHeaders(H) /\ op'[r] = OpOf(H)
        /\ commit_max'[r] = HigherOf(commit_max[r], m.commit_max)
        /\ journal'[r] = StartViewJournal(journal[r], h)
        /\ r # PrimaryIndex(v)
        /\ UNCHANGED <<durable, prepared, do_view_changes, start_views, commits>>
    BY DEF OnStartView, AcceptsStartView, TypeInv, Functions
  <1>2. /\ v \in View /\ H \in Known /\ H \in Prepare /\ m.commit_max \in Nat
        /\ commit_max[r] \in Nat /\ OpOf(H) \in Nat /\ OpOf(H) \in Op /\ PipelineMax \in Nat
        /\ OpOf(H) - PipelineMax <= m.commit_max
        /\ OpMax \in Nat /\ Op = 0..OpMax /\ OpOf(H) <= OpMax
    <2>1. v \in View /\ H \in Known /\ m.commit_max \in Op /\ commit_max[r] \in Op
      BY DEF TypeInv, MessageTypes, StartViewTypes, LocalTypes, ReplicaTypes
    <2>2. OpOf(H) - PipelineMax <= m.commit_max
      BY DEF LogInv, MessagesOfView
    <2> QED
      BY <2>1, <2>2, KnownFacts, OpFacts, CountsAssumption DEF Op
  <1>3. H \in Tips(v) /\ LogViewDurable(v) /\ (LogViewDurable(v) => v <= durable'[PrimaryIndex(v)].log_view)
    <2>1. SentTip(v, H)
      BY DEF SentTip
    <2>2. LogViewDurable(v)
      BY DEF IInv, AdvertisedDurable, LogViewDurable
    <2> QED
      BY <1>1, <2>1, <2>2, TipsKnown DEF LogViewDurable
  <1>4. /\ StartViewHeaders(H).command = "start_view"
        /\ DOMAIN h = HigherOf(0, OpOf(H) - PipelineMax)..OpOf(H)
        /\ HeadOp(h) = OpOf(H)
        /\ \A o \in DOMAIN h : o \in 0..OpOf(H) /\ h[o] = Ancestor(H, o)
        /\ h[OpOf(H)] = H
    BY <1>2, StartViewHeadersFacts
  <1> HIDE DEF v, H, h
  <1>5. /\ \A o \in (OpOf(H) + 1)..OpMax : journal'[r][o].header = None
        /\ \A o \in DOMAIN h : journal'[r][o].header = Ancestor(H, o)
    <2>1. \A o \in (OpOf(H) + 1)..OpMax : o \in Op /\ o > OpOf(H)
      BY <1>2
    <2>2. \A o \in DOMAIN h : o \in Op /\ ~(o > OpOf(H))
      BY <1>2, <1>4
    <2>3. ASSUME NEW o \in DOMAIN h PROVE journal'[r][o].header = Ancestor(H, o)
      <3>1. journal[r][o] \in Slot
        BY <2>2 DEF TypeInv, LocalTypes, JournalTypes
      <3>2. Ancestor(H, o) \in Prepare
        BY <1>2, <1>4, AncestorFacts
      <3>3. journal'[r][o] = SetHeader(journal[r][o], h[o])
        BY <1>1, <1>4, <2>2 DEF StartViewJournal
      <3> QED
        BY <1>4, <3>1, <3>2, <3>3, SetHeaderFacts
    <2>4. ASSUME NEW o \in (OpOf(H) + 1)..OpMax PROVE journal'[r][o].header = None
      BY <1>1, <1>4, <2>1 DEF StartViewJournal, Reserved
    <2> QED
      BY <2>3, <2>4
  <1>6. OpOf(H) \in DOMAIN h /\ \A o \in commit_max'[r]..OpOf(H) : o \in DOMAIN h
    BY <1>1, <1>2, <1>4 DEF HigherOf
  <1>7. HeadHeader(r)' = H /\ InLogView(r)' /\ ~Leads(r)' /\ H \preceq H
    BY <1>1, <1>2, <1>4, <1>5, <1>6, BeginsFacts, AncestorOfAncestor DEF HeadHeader, InLogView, Leads
  <1>8. /\ ViewHead(view_headers'[r]) = H /\ StartsView(view_headers'[r])
        /\ OfOneLog(view_headers'[r].headers)
    BY <1>1, <1>4 DEF ViewHead, StartsView, OfOneLog, h
  <1>9. \A w \in View : \A p : HasTip(r, w, p)' => p \in Tips(w)
    <2>1. \A w, p : HasTip(r, w, p)' => (w = v /\ p = H) \/ HasTip(r, w, p)
      BY <1>1, <1>7, <1>8 DEF HasTip
    <2> QED
      BY <1>3, <2>1, TipsKnown
  <1>10. LogViewsDurable(r)'
    BY <1>1, <1>3 DEF LogInv, TipsDurable, LogViewsDurable, LogViewDurable
  <1>11. HeadersOfView(r)'
    <2>1. HeadersOfView(r)
      BY DEF LogInv
    <2> QED
      BY <1>1, <1>7, <1>8, <2>1 DEF HeadersOfView
  <1>12. LogOfView(r)'
    <2>1. op'[r] - PipelineMax <= commit_max'[r]
      BY <1>1, <1>2 DEF HigherOf
    <2> QED
      BY <1>1, <1>5, <1>6, <1>7, <2>1 DEF LogOfView
  <1>13. DoViewChangesKept(r)'
    BY <1>1, <1>7 DEF LogInv, DoViewChangesKept
  <1> HIDE DEF LogInv, TypeInv
  <1> QED
    BY <1>1, <1>7, <1>9, <1>10, <1>11, <1>12, <1>13 DEF LogStep

\* Before a primary has its DVC quorum for a view, nothing of that view is anywhere.
LEMMA NothingOfTheView ==
    ASSUME TypeInv, IInv, LogInv, NEW v \in View, ~LogViewDurable(v),
           log_view[PrimaryIndex(v)] < v, view[PrimaryIndex(v)] <= v
    PROVE  Tips(v) = {} /\ \A m \in commits : m.view # v
  <1>1. v \in Nat /\ PrimaryIndex(v) \in Replica
    BY PrimaryIsReplica, CountsAssumption DEF View
  <1>2. ASSUME NEW q \in Replica, NEW p, HasTip(q, v, p) PROVE FALSE
    <2>1. log_view[q] = v \/ durable[q].log_view = v
      BY <1>2 DEF HasTip
    <2>2. LogViewsDurable(q)
      BY DEF LogInv, TipsDurable
    <2>3. log_view[q] = v /\ q = PrimaryIndex(v)
      BY <2>1, <2>2 DEF LogViewsDurable
    <2> QED
      BY <1>1, <2>3
  <1>3. ASSUME NEW p, SentTip(v, p) PROVE FALSE
    <2>1. CASE p \in prepared /\ ViewOf(p) = v
      BY <2>1 DEF LogInv, TipsDurable
    <2>2. CASE \E m \in start_views : m.view = v /\ p = m.head
      BY <2>2 DEF IInv, AdvertisedDurable, LogViewDurable
    <2>3. CASE \E m \in do_view_changes : m.log_view = v /\ p = m.headers[m.op]
      <3>1. PICK m \in do_view_changes : m.log_view = v
        BY <2>3
      <3>2. m.replica = PrimaryIndex(v)
        BY <3>1 DEF LogInv, TipsDurable
      <3>3. v < m.view /\ m.view <= view[PrimaryIndex(v)]
        BY <3>1, <3>2 DEF LogInv, MessagesOfView, IInv, SentOrder
      <3>4. m.view \in Nat /\ view[PrimaryIndex(v)] \in Nat
        BY <1>1, <3>1, CountsAssumption DEF TypeInv, MessageTypes, DoViewChangeTypes, LocalTypes,
           ReplicaTypes, View
      <3> QED
        BY <1>1, <3>3, <3>4
    <2> QED
      BY <1>3, <2>1, <2>2, <2>3 DEF SentTip
  <1>4. \A m \in commits : m.view # v
    BY DEF LogInv, CommitsInLog
  <1> QED
    BY <1>2, <1>3, <1>4 DEF Tips

\* What a DVC says of the log of its log_view.
LEMMA VoteFacts ==
    ASSUME TypeInv, IInv, LogInv, NEW m \in do_view_changes, NEW t, t = m.headers[m.op]
    PROVE  /\ m.replica \in Replica /\ m.log_view < m.view /\ m.log_view \in View /\ m.view \in View
           /\ t \in Tips(m.log_view) /\ t \in Known /\ t \in Prepare /\ OpOf(t) = m.op
           /\ m.op \in Op /\ m.op \in Nat /\ Lineage(t, m.log_view)
           /\ Min(DOMAIN m.headers) \in Nat /\ Min(DOMAIN m.headers) <= m.op
           /\ DOMAIN m.headers = Min(DOMAIN m.headers)..m.op
           /\ \A o \in DOMAIN m.headers : o \in 0..m.op /\ o \in Op
                                          /\ m.headers[o] \in {None, Ancestor(t, o)}
  <1>1. /\ DoViewChangeTypes(m) /\ OfOneLog(m.headers) /\ m.log_view < m.view
    BY DEF TypeInv, MessageTypes, LogInv, MessagesOfView
  <1>2. IsHeaders(m.headers) /\ m.op = HeadOp(m.headers)
    BY <1>1 DEF DoViewChangeTypes
  <1>3. /\ t \in Known /\ OpOf(t) = m.op /\ m.op \in Op /\ Min(DOMAIN m.headers) \in Op
        /\ DOMAIN m.headers = Min(DOMAIN m.headers)..m.op /\ Min(DOMAIN m.headers) <= m.op
        /\ DOMAIN m.headers \subseteq Op
    BY <1>2, HeadersFacts
  <1>4. m.op \in Nat /\ Min(DOMAIN m.headers) \in Nat
    BY <1>3, OpFacts
  <1>5. \A o \in DOMAIN m.headers : o \in 0..m.op
    BY <1>3, <1>4
  <1>6. SentTip(m.log_view, t)
    BY DEF SentTip
  <1>7. t \in Tips(m.log_view) /\ m.log_view \in View
    BY <1>1, <1>6, TipsKnown DEF DoViewChangeTypes
  <1>8. Lineage(t, m.log_view)
    BY <1>7 DEF LogInv, TipViews
  <1>9. \A o \in DOMAIN m.headers : m.headers[o] \in {None, Ancestor(t, o)}
    BY <1>1, <1>2 DEF OfOneLog
  <1> QED
    BY <1>1, <1>3, <1>4, <1>5, <1>7, <1>8, <1>9, KnownFacts DEF DoViewChangeTypes

\* The canonical DVCs of a quorum agree on one log, and name no header of another: the log of
\* the one that has the most of it.
LEMMA VotesTop ==
    ASSUME TypeInv, IInv, LogInv, NEW r \in Replica, NEW Q \in DoViewChangeQuorums(r)
    PROVE  \E c \in Canonical(Q) : \E T \in Tips(LogViewMax(Q)) :
              /\ T = c.headers[c.op] /\ c \in do_view_changes /\ c.log_view = LogViewMax(Q)
              /\ c.view = view[r]
              /\ c.op = OpMaxCanonical(Q) /\ OpOf(T) = OpMaxCanonical(Q) /\ OpOf(T) \in Nat
              /\ LogViewMax(Q) < view[r] /\ T \in Known /\ T \in Prepare
              /\ Lineage(T, LogViewMax(Q))
              /\ \A m \in Canonical(Q) : m.headers[m.op] \preceq T
              /\ \A o : \A p \in HeadersAt(Canonical(Q), o) : p = Ancestor(T, o) /\ o \in 0..OpOf(T)
              /\ \A o : HeaderCanonical(Q, o) # None => HeaderCanonical(Q, o) = Ancestor(T, o)
  <1>1. /\ Q \subseteq do_view_changes /\ \A m \in Q : m.view = view[r]
        /\ LogViewMax(Q) \in View
        /\ \A m \in Canonical(Q) : m \in Q /\ m.op <= OpMaxCanonical(Q)
    BY QuorumBasics
  <1>2. PICK c \in Canonical(Q) : c.op = OpMaxCanonical(Q)
    BY QuorumBasics
  <1>3. \A m \in Canonical(Q) : m \in do_view_changes /\ m.log_view = LogViewMax(Q)
                                /\ m.view = view[r] /\ m.op <= c.op
    BY <1>1, <1>2 DEF Canonical
  <1>4. PICK T : T = c.headers[c.op]
    OBVIOUS
  <1>5. /\ T \in Tips(LogViewMax(Q)) /\ T \in Known /\ T \in Prepare /\ OpOf(T) = c.op
        /\ c.op \in Nat /\ Lineage(T, LogViewMax(Q)) /\ LogViewMax(Q) < view[r]
    BY <1>3, <1>4, VoteFacts
  <1>6. ASSUME NEW m \in Canonical(Q), NEW t, t = m.headers[m.op] PROVE t \preceq T
    <2>1. /\ t \in Tips(LogViewMax(Q)) /\ t \in Prepare /\ OpOf(t) = m.op /\ m.op \in Nat
      BY <1>3, <1>6, VoteFacts
    <2>2. t \preceq T \/ T \preceq t
      BY <1>1, <1>5, <2>1 DEF LogInv, OneLogPerView, Continues
    <2>3. m.op <= c.op
      BY <1>3
    <2> QED
      BY <1>5, <2>1, <2>2, <2>3, BeginsFacts
  <1>7. ASSUME NEW o, NEW p \in HeadersAt(Canonical(Q), o)
        PROVE  p = Ancestor(T, o) /\ o \in 0..OpOf(T)
    <2>1. PICK m \in Canonical(Q) : o \in DOMAIN m.headers /\ p = m.headers[o] /\ p # None
      BY DEF HeadersAt
    <2>2. PICK t : t = m.headers[m.op]
      OBVIOUS
    <2>3. /\ t \in Prepare /\ OpOf(t) = m.op /\ m.op \in Nat /\ o \in 0..m.op
          /\ p = Ancestor(t, o)
      BY <1>3, <2>1, <2>2, VoteFacts
    <2>4. t \preceq T
      BY <1>6, <2>2
    <2>5. Ancestor(t, o) = Ancestor(T, o) /\ OpOf(t) <= OpOf(T)
      BY <1>5, <2>3, <2>4, BeginsFacts
    <2>6. o \in 0..OpOf(T)
      BY <1>5, <2>3, <2>5
    <2> QED
      BY <2>3, <2>5, <2>6
  <1>8. ASSUME NEW o, HeaderCanonical(Q, o) # None PROVE HeaderCanonical(Q, o) = Ancestor(T, o)
    <2>1. HeaderCanonical(Q, o) \in HeadersAt(Canonical(Q), o)
      BY <1>8 DEF HeaderCanonical
    <2> QED
      BY <1>7, <2>1
  <1> QED
    BY <1>2, <1>3, <1>4, <1>5, <1>6, <1>7, <1>8

\* The canonical DVCs of a quorum are of one log, of the latest view the quorum was part of: the
\* one with the most ops has all the others' headers (DVCQuorum.quorum_headers).
LEMMA CanonicalLog ==
    ASSUME TypeInv, IInv, LogInv, NEW r \in Replica, NEW Q \in DoViewChangeQuorums(r),
           HigherOf(commit_max[r], CommitMaxOf(Q)) <= OpHead(Q)
    PROVE  \E T \in Tips(LogViewMax(Q)) :
              /\ OpOf(T) = OpMaxCanonical(Q) /\ LogViewMax(Q) < view[r]
              /\ T \in Known /\ Lineage(T, LogViewMax(Q))
              /\ \A o \in CommitMaxOf(Q)..OpHead(Q) :
                    o \in 0..OpOf(T) /\ HeaderCanonical(Q, o) = Ancestor(T, o)
  <1>1. PICK c \in Canonical(Q), T \in Tips(LogViewMax(Q)) :
              /\ OpOf(T) = OpMaxCanonical(Q) /\ OpOf(T) \in Nat
              /\ LogViewMax(Q) < view[r] /\ T \in Known /\ T \in Prepare
              /\ Lineage(T, LogViewMax(Q))
              /\ \A o : \A p \in HeadersAt(Canonical(Q), o) : p = Ancestor(T, o) /\ o \in 0..OpOf(T)
    BY VotesTop
  <1>2. \A o \in CommitMaxOf(Q)..OpHead(Q) : HeaderCanonical(Q, o) \in HeadersAt(Canonical(Q), o)
    BY QuorumBasics
  <1> QED
    BY <1>1, <1>2

\* The log of a new view is a beginning of the one its DVC quorum agrees on; the primary is the
\* first to have anything of the view.
LEMMA OnDoViewChangeLogStep ==
    ASSUME TypeInv, TypeInv', IInv, LogInv, NEW r \in Replica, OnDoViewChange(r)
    PROVE  LogStep(r)
  <1> DEFINE v == view[r]
  <1>1. /\ status[r] = "view_change" /\ r = PrimaryIndex(v) /\ log_view[r] < v
        /\ UNCHANGED <<status, view, view_headers, durable, prepared, do_view_changes,
                       start_views, commits>>
    BY DEF OnDoViewChange, netVars
  <1>2. PICK Q \in DoViewChangeQuorums(r) :
            /\ HigherOf(commit_max[r], CommitMaxOf(Q)) <= OpHead(Q)
            /\ dvc_quorum'[r] = TRUE /\ log_view'[r] = v
            /\ op'[r] = OpHead(Q) /\ commit_max'[r] = HigherOf(commit_max[r], CommitMaxOf(Q))
            /\ journal'[r] = QuorumJournal(journal[r], Q)
    BY DEF OnDoViewChange, TypeInv, Functions
  <1>3. PICK T \in Tips(LogViewMax(Q)) :
            /\ OpOf(T) = OpMaxCanonical(Q) /\ LogViewMax(Q) < v
            /\ T \in Known /\ Lineage(T, LogViewMax(Q))
            /\ \A o \in CommitMaxOf(Q)..OpHead(Q) :
                  o \in 0..OpOf(T) /\ HeaderCanonical(Q, o) = Ancestor(T, o)
    BY <1>2, CanonicalLog
  <1>4. /\ CommitMaxOf(Q) \in Nat /\ OpHead(Q) \in Nat /\ OpHead(Q) \in Op /\ commit_max[r] \in Nat
        /\ OpMaxCanonical(Q) - PipelineMax <= CommitMaxOf(Q) /\ OpMaxCanonical(Q) \in Nat
        /\ OpHead(Q) <= OpMaxCanonical(Q) /\ CommitMaxOf(Q) <= OpHead(Q)
        /\ LogViewMax(Q) \in View /\ LogViewMax(Q) \in Nat /\ v \in View /\ v \in Nat
        /\ T \in Prepare /\ PipelineMax \in Nat
        /\ OpMax \in Nat /\ Op = 0..OpMax
    <2>1. PICK c \in Canonical(Q) : c.op = OpMaxCanonical(Q)
      BY <1>2, QuorumFacts
    <2>2. OpMaxCanonical(Q) - PipelineMax <= CommitMaxOf(Q)
      BY <1>2, <2>1, QuorumFacts
    <2>3. /\ CommitMaxOf(Q) \in Op /\ OpHead(Q) \in Op /\ commit_max[r] \in Op
          /\ OpHead(Q) <= OpMaxCanonical(Q) /\ CommitMaxOf(Q) <= OpHead(Q)
          /\ LogViewMax(Q) \in View /\ v \in View /\ OpMaxCanonical(Q) \in Op
      BY <1>2, QuorumFacts DEF TypeInv, LocalTypes, ReplicaTypes
    <2>4. LogViewMax(Q) \in Nat /\ v \in Nat /\ PipelineMax \in Nat /\ OpMax \in Nat /\ Op = 0..OpMax
      BY <2>3, CountsAssumption DEF View, Op
    <2> QED
      BY <1>3, <2>2, <2>3, <2>4, KnownFacts, OpFacts
  <1> DEFINE H == Ancestor(T, OpHead(Q))
  <1>5. /\ \A o \in Op : o > OpHead(Q) => journal'[r][o].header = None
        /\ \A o \in CommitMaxOf(Q)..OpHead(Q) : journal'[r][o].header = Ancestor(T, o)
    <2> DEFINE j == QuorumJournal(journal[r], Q)
    <2>1. /\ \A o \in Op : o > OpHead(Q) => j[o] = Reserved
          /\ \A o \in CommitMaxOf(Q)..OpHead(Q) : j[o].header = HeaderCanonical(Q, o)
      BY <1>2, QuorumJournalFacts
    <2> HIDE DEF j
    <2>2. journal'[r] = j
      BY <1>2 DEF j
    <2> QED
      BY <1>3, <2>1, <2>2 DEF Reserved
  <1>6. OpHead(Q) \in CommitMaxOf(Q)..OpHead(Q) /\ OpHead(Q) \in 0..OpOf(T)
    BY <1>3, <1>4
  <1>7. H \in Prepare /\ OpOf(H) = OpHead(Q) /\ H \preceq T
    BY <1>4, <1>6, AncestorFacts, BeginsFacts
  <1> HIDE DEF H, v
  <1>8. HeadHeader(r)' = H /\ InLogView(r)' /\ Leads(r)' /\ view'[r] = v
    BY <1>1, <1>2, <1>5, <1>6 DEF HeadHeader, InLogView, Leads, H, v
  <1>9. ~InLogView(r) /\ ~StartsView(view_headers[r]) /\ HeadersOfView(r) /\ DoViewChangesKept(r)
        /\ LogViewsDurable(r)
    BY <1>1, <1>4 DEF InLogView, LogInv, HeadersOfView, v, TipsDurable
  <1>10. Tips(v) = {} /\ \A m \in commits : m.view # v
    <2>1. ~LogViewDurable(v)
      <3>1. durable[r].log_view <= log_view[r] /\ durable[r].log_view \in Nat /\ log_view[r] \in Nat
        BY CountsAssumption DEF IInv, ViewOrder, TypeInv, LocalTypes, HeadersTypes, ReplicaTypes, View
      <3> QED
        BY <1>1, <1>4, <3>1 DEF LogViewDurable
    <2>2. log_view[PrimaryIndex(v)] < v /\ view[PrimaryIndex(v)] <= v
      BY <1>1, <1>4 DEF v
    <2> QED
      BY <1>4, <2>1, <2>2, NothingOfTheView
  <1>11. \A w \in View : \A p : HasTip(r, w, p)' =>
            p \in Tips(w) \/ (Leads(r)' /\ w = view'[r] /\ p = HeadHeader(r)')
    <2>1. \A w, p : HasTip(r, w, p)' => HasTip(r, w, p) \/ (w = v /\ p = H)
      BY <1>1, <1>2, <1>8, <1>9 DEF HasTip
    <2> QED
      BY <1>8, <2>1, TipsKnown
  <1>12. Lineage(H, v)
    <2>1. Lineage(T, v)
      BY <1>3, <1>4, LineageFacts
    <2> QED
      BY <1>4, <1>7, <2>1, LineageFacts
  <1>13. LogViewsDurable(r)'
    BY <1>1, <1>2, <1>9 DEF LogViewsDurable, LogViewDurable
  <1>14. HeadersOfView(r)'
    BY <1>1, <1>2, <1>8, <1>9 DEF HeadersOfView, v
  <1>15. LogOfView(r)'
    <2>1. op'[r] - PipelineMax <= commit_max'[r] /\ CommitMaxOf(Q) <= commit_max'[r]
          /\ commit_max'[r] \in Nat
      BY <1>2, <1>4 DEF HigherOf
    <2>2. \A o \in (op'[r] + 1)..OpMax : journal'[r][o].header = None
      <3>1. \A o \in (op'[r] + 1)..OpMax : o \in Op /\ o > OpHead(Q)
        BY <1>2, <1>4
      <3> QED
        BY <1>5, <3>1
    <2>3. ASSUME NEW o \in commit_max'[r]..op'[r] PROVE journal'[r][o].header = Ancestor(H, o)
      <3>1. o \in CommitMaxOf(Q)..OpHead(Q) /\ o \in 0..OpHead(Q)
        BY <1>2, <1>4, <2>1
      <3>2. Ancestor(H, o) = Ancestor(T, o)
        BY <1>4, <1>6, <3>1, AncestorOfAncestor DEF H
      <3> QED
        BY <1>5, <3>1, <3>2
    <2> QED
      BY <1>1, <1>8, <1>9, <2>1, <2>2, <2>3 DEF LogOfView
  <1>16. DoViewChangesKept(r)'
    BY <1>1, <1>8, <1>9 DEF DoViewChangesKept
  <1> HIDE DEF LogInv, TypeInv
  <1> QED
    BY <1>1, <1>8, <1>10, <1>11, <1>12, <1>13, <1>14, <1>15, <1>16 DEF LogStep

-----------------------------------------------------------------------------
(* Crash and recovery. *)

\* SV headers leave no choice of the view of a header they have, and after their head allow the
\* view of the log only (view_for_op).
LEMMA ViewForSlot ==
    ASSUME TypeInv, NEW D \in Known, NEW h, h = StartViewHeaders(D).headers,
           NEW k \in Op, NEW v \in View
    PROVE  /\ k \in DOMAIN h => ViewForOp(h, k, v) = ViewOf(h[k])..ViewOf(h[k])
           /\ k > OpOf(D) => ViewForOp(h, k, v) = v..v
  <1> DEFINE valid == {i \in DOMAIN h : h[i] # None}
             below == {i \in valid : i <= k}
             above == {i \in valid : i >= k}
  <1>1. /\ DOMAIN h = HigherOf(0, OpOf(D) - PipelineMax)..OpOf(D)
        /\ \A o \in DOMAIN h : o \in 0..OpOf(D) /\ h[o] = Ancestor(D, o)
        /\ OpOf(D) \in Nat /\ k \in Nat /\ PipelineMax \in Nat /\ D \in Prepare
    BY StartViewHeadersFacts, KnownFacts, OpFacts, CountsAssumption
  <1>2. valid = DOMAIN h /\ DOMAIN h \subseteq Nat /\ OpOf(D) \in DOMAIN h
        /\ \A i \in DOMAIN h : i <= OpOf(D)
    <2>1. \A i \in DOMAIN h : h[i] # None
      BY <1>1, AncestorFacts, NoneFacts
    <2>2. DOMAIN h \subseteq Nat /\ OpOf(D) \in DOMAIN h /\ \A i \in DOMAIN h : i <= OpOf(D)
      BY <1>1 DEF HigherOf
    <2> QED
      BY <2>1, <2>2
  <1>3. ASSUME k \in DOMAIN h PROVE ViewForOp(h, k, v) = ViewOf(h[k])..ViewOf(h[k])
    <2>1. /\ k \in below /\ k \in above /\ below \subseteq Int /\ above \subseteq Int
          /\ \A y \in below : y <= k
          /\ \A y \in above : k <= y
      BY <1>1, <1>2, <1>3
    <2>0. k \in Int
      BY <1>1
    <2>v. ViewForOp(h, k, v) = (IF below = {} THEN 0 ELSE IF above = {} THEN v
                                ELSE ViewOf(h[Max(below)]))
                               ..(IF above = {} THEN v ELSE ViewOf(h[Min(above)]))
      BY DEF ViewForOp
    <2> HIDE DEF below, above
    <2>2. Max(below) = k
      <3>1. Max(below) \in below /\ \A y \in below : y <= Max(below)
        BY <2>0, <2>1, MaxFacts
      <3>2. Max(below) \in Int /\ Max(below) <= k /\ k <= Max(below)
        BY <2>1, <3>1
      <3> QED
        BY <2>0, <3>2
    <2>3. Min(above) = k
      <3>1. Min(above) \in above /\ \A y \in above : Min(above) <= y
        BY <2>0, <2>1, MinFacts
      <3>2. Min(above) \in Int /\ Min(above) <= k /\ k <= Min(above)
        BY <2>1, <3>1
      <3> QED
        BY <2>0, <3>2
    <2> QED
      BY <2>1, <2>2, <2>3, <2>v
  <1>4. ASSUME k > OpOf(D) PROVE ViewForOp(h, k, v) = v..v
    <2>1. above = {} /\ OpOf(D) \in below
      BY <1>1, <1>2, <1>4
    <2> QED
      BY <2>1 DEF ViewForOp
  <1> QED
    BY <1>3, <1>4

\* What a replica finds on its disk after a crash in a view it was part of is its log of the view:
\* what the durable SV headers have, those headers; and after them, prepares of the view.
LEMMA RecoveredInLog ==
    ASSUME TypeInv, IInv, LogInv, NEW r \in Replica, NEW found, RecoveredLog(r, found),
           durable[r].log_view = durable[r].view,
           commit_max'[r] = HigherOf(durable[r].commit_max, op'[r] - PipelineMax)
    PROVE  LET vh == durable[r].view_headers
               H == HeadHeader(r)'
           IN /\ vh = StartViewHeaders(ViewHead(vh))
              /\ H \in Tips(durable[r].view) /\ ViewHead(vh) \preceq H
              /\ H # None /\ H \in Prepare
              /\ \A o \in Op : journal'[r][o].header \in HeadersOf(o)
              /\ \A o \in (op'[r] + 1)..OpMax : journal'[r][o].header = None
              /\ \A o \in commit_max'[r]..op'[r] : journal'[r][o].header \in {None, Ancestor(H, o)}
  <1> DEFINE vh == durable[r].view_headers
             V == durable[r].view
             D == ViewHead(vh)
             h == vh.headers
             H == HeadHeader(r)'
             o == op'[r]
  <1>1. /\ vh = StartViewHeaders(D) /\ h = StartViewHeaders(D).headers
        /\ D \in Known /\ D \in Prepare /\ D = h[HeadOp(h)] /\ HeadOp(h) = OpOf(D)
        /\ V \in View /\ D \in Tips(V)
    <2>1. vh = StartViewHeaders(D)
      BY DEF LogInv, HeadersOfView
    <2>2. D \in Known /\ OpOf(D) = HeadOp(h) /\ D = h[HeadOp(h)]
      BY HeadersFacts DEF TypeInv, LocalTypes, HeadersTypes, ViewHead
    <2>3. D \in Tips(V)
      BY TipsKnown DEF HasTip
    <2> QED
      BY <2>1, <2>2, <2>3, KnownFacts DEF TypeInv, LocalTypes, HeadersTypes
  <1>2. /\ DOMAIN h = HigherOf(0, OpOf(D) - PipelineMax)..OpOf(D)
        /\ \A k \in DOMAIN h : k \in 0..OpOf(D) /\ h[k] = Ancestor(D, k) /\ h[k] \in HeadersOf(k)
        /\ OpOf(D) \in Nat /\ PipelineMax \in Nat /\ OpMax \in Nat /\ Op = 0..OpMax
        /\ OpOf(D) \in DOMAIN h
    <2>1. /\ DOMAIN h = HigherOf(0, OpOf(D) - PipelineMax)..OpOf(D)
          /\ \A k \in DOMAIN h : k \in 0..OpOf(D) /\ h[k] = Ancestor(D, k)
          /\ IsHeaders(h)
      BY <1>1, StartViewHeadersFacts
    <2>2. OpOf(D) \in Nat /\ PipelineMax \in Nat /\ OpMax \in Nat /\ Op = 0..OpMax
      BY <1>1, OpFacts, CountsAssumption DEF Op
    <2>3. OpOf(D) \in DOMAIN h
      BY <2>1, <2>2 DEF HigherOf
    <2> QED
      BY <2>1, <2>2, <2>3, HeadersFacts
  <1>3. /\ \A k \in Op :
            /\ found[k] \in Slot
            /\ found[k].header \in HeadersOf(k)
            /\ found[k].header # None => ViewOf(found[k].header) \in ViewForOp(h, k, V)
            /\ found[k].header # None => k <= o
        /\ o \in Op /\ HeadOp(h) <= o
        /\ o # HeadOp(h) => found[o].header # None
        /\ \A k \in Op \ {o} : journal'[r][k] = found[k]
        /\ journal'[r][o] = IF o = HeadOp(h) THEN SetHeader(found[o], h[o]) ELSE found[o]
    BY DEF RecoveredLog
  <1>4. commit_max'[r] = HigherOf(durable[r].commit_max, o - PipelineMax)
        /\ durable[r].commit_max \in Nat /\ o \in Nat
    BY <1>3, OpFacts DEF TypeInv, LocalTypes, HeadersTypes
  <1>h. H = journal'[r][o].header
    BY DEF HeadHeader
  <1> HIDE DEF vh, V, D, h, H, o
  <1>5. ASSUME NEW k \in DOMAIN h, found[k].header # None PROVE found[k].header = Ancestor(D, k)
    <2> DEFINE p == found[k].header
               q == h[k]
    <2>1. k \in Op
      <3>1. k \in 0..OpOf(D) /\ OpOf(D) <= OpMax
        <4>1. OpOf(D) \in Op
          BY <1>1, OpFacts
        <4> QED
          BY <1>2, <4>1
      <3> QED
        BY <1>2, <3>1
    <2>2. /\ p \in Known /\ OpOf(p) = k /\ q \in Known /\ OpOf(q) = k /\ q = Ancestor(D, k)
      <3>1. q = Ancestor(D, k) /\ q \in HeadersOf(k) /\ k \in 0..OpOf(D)
        BY <1>2
      <3>2. q # None
        BY <1>1, <3>1, AncestorFacts, NoneFacts
      <3>3. p \in HeadersOf(k) /\ p # None
        BY <1>3, <1>5, <2>1
      <3> QED
        BY <3>1, <3>2, <3>3 DEF HeadersOf
    <2>3. p \in Prepare /\ q \in Prepare /\ ViewOf(p) \in View /\ ViewOf(q) \in View
      BY <2>2, KnownFacts, ViewFacts
    <2>4. ViewOf(p) = ViewOf(q)
      <3>1. ViewOf(p) \in ViewOf(q)..ViewOf(q)
        BY <1>1, <1>3, <1>5, <2>1, ViewForSlot
      <3>2. ViewOf(p) \in Int /\ ViewOf(q) \in Int
        BY <2>3, CountsAssumption DEF View
      <3> QED
        BY <3>1, <3>2
    <2> HIDE DEF p, q
    <2>5. CASE k = 0
      BY <2>2, <2>3, <2>5, OpFacts DEF p
    <2>6. CASE k # 0
      <3>1. p \in prepared /\ q \in prepared
        BY <2>2, <2>6, KnownFacts
      <3>2. p \in Tips(ViewOf(q)) /\ q \in Tips(ViewOf(q))
        BY <2>4, <3>1, TipsKnown DEF SentTip
      <3>3. p \preceq q \/ q \preceq p
        BY <2>3, <3>2 DEF LogInv, OneLogPerView, Continues
      <3>4. OpOf(p) <= OpOf(q) /\ OpOf(q) <= OpOf(p)
        BY <2>2, <2>3, OpFacts
      <3>5. p = q
        BY <2>3, <3>3, <3>4, BeginsFacts
      <3> QED
        BY <2>2, <3>5 DEF p
    <2> QED
      BY <2>5, <2>6
  <1>6. ASSUME NEW k \in Op, k > OpOf(D), found[k].header # None
        PROVE  /\ found[k].header \in Tips(V) /\ found[k].header \in Prepare
               /\ OpOf(found[k].header) = k
    <2> DEFINE p == found[k].header
    <2>1. p \in Known /\ OpOf(p) = k /\ p \in Prepare /\ p # Root /\ p \in prepared
      <3>1. p \in Known /\ OpOf(p) = k
        BY <1>3, <1>6 DEF HeadersOf
      <3>2. k # 0
        BY <1>2, <1>6
      <3> QED
        BY <3>1, <3>2, KnownFacts
    <2>2. ViewOf(p) = V
      <3>1. ViewOf(p) \in V..V
        <4>1. ViewForOp(h, k, V) = V..V
          BY <1>1, <1>6, ViewForSlot
        <4> QED
          BY <1>3, <1>6, <4>1
      <3>2. ViewOf(p) \in Int /\ V \in Int
        BY <1>1, <2>1, ViewFacts, CountsAssumption DEF View
      <3> QED
        BY <3>1, <3>2
    <2> QED
      BY <2>1, <2>2, TipsKnown DEF SentTip
  <1>7. /\ H \in Tips(V) /\ D \preceq H /\ H \in Prepare /\ OpOf(H) = o /\ H # None
        /\ \A k \in DOMAIN h : Ancestor(D, k) = Ancestor(H, k)
        /\ H \in Known
    <2>1. CASE o = OpOf(D)
      <3>1. H = D
        <4>1. found[o] \in Slot /\ D \in Prepare /\ journal'[r][o] = SetHeader(found[o], D)
          BY <1>1, <1>3, <2>1
        <4> QED
          BY <1>h, <4>1, SetHeaderFacts
      <3> QED
        BY <1>1, <2>1, <3>1, BeginsFacts, KnownFacts
    <2>2. CASE o # OpOf(D)
      <3>1. H = found[o].header /\ found[o].header # None /\ o > OpOf(D)
        <4>1. HeadOp(h) = OpOf(D) /\ HeadOp(h) <= o /\ o # HeadOp(h)
          BY <1>1, <1>3, <2>2
        <4>2. journal'[r][o] = found[o] /\ found[o].header # None
          BY <1>3, <4>1
        <4> QED
          BY <1>h, <1>2, <1>4, <4>1, <4>2
      <3>2. H \in Tips(V) /\ H \in Prepare /\ OpOf(H) = o
        BY <1>3, <1>6, <3>1
      <3>3. D \preceq H \/ H \preceq D
        BY <1>1, <3>2 DEF LogInv, OneLogPerView, Continues
      <3>4. D \preceq H
        BY <1>2, <1>4, <3>1, <3>2, <3>3 DEF \preceq
      <3>5. \A k \in DOMAIN h : k \in 0..OpOf(D)
        BY <1>2
      <3>6. \A k \in DOMAIN h : Ancestor(D, k) = Ancestor(H, k)
        BY <1>1, <3>2, <3>4, <3>5, BeginsFacts
      <3>7. H \in Known
        BY <3>2 DEF Tips
      <3> QED
        BY <3>1, <3>2, <3>4, <3>6, <3>7
    <2> QED
      BY <2>1, <2>2
  <1>8. \A k \in Op : journal'[r][k].header \in HeadersOf(k)
    <2> TAKE k \in Op
    <2>1. CASE k = o
      BY <1>h, <1>7, <2>1 DEF HeadersOf
    <2>2. CASE k # o
      BY <1>3, <2>2
    <2> QED
      BY <2>1, <2>2
  <1>9. ASSUME NEW k \in (o + 1)..OpMax PROVE journal'[r][k].header = None
    <2>1. k \in Op \ {o} /\ ~(k <= o)
      BY <1>2, <1>4
    <2> QED
      BY <1>3, <2>1
  <1>10. ASSUME NEW k \in commit_max'[r]..o PROVE journal'[r][k].header \in {None, Ancestor(H, k)}
    <2>1. k \in Nat /\ k <= o /\ k >= o - PipelineMax /\ k \in Op
      BY <1>2, <1>3, <1>4 DEF HigherOf
    <2>2. CASE k = o
      BY <1>h, <1>7, <2>2, AncestorOfAncestor
    <2>3. CASE k # o /\ k <= OpOf(D)
      <3>1. k \in DOMAIN h
        <4>1. OpOf(D) <= o
          BY <1>1, <1>3
        <4>2. OpOf(D) - PipelineMax <= k /\ k >= 0
          BY <1>2, <1>4, <2>1, <4>1
        <4> QED
          BY <1>2, <2>1, <2>3, <4>2 DEF HigherOf
      <3> QED
        BY <1>3, <1>5, <1>7, <2>1, <2>3, <3>1
    <2>4. CASE k # o /\ k > OpOf(D) /\ found[k].header # None
      <3> DEFINE p == found[k].header
      <3>1. p \in Tips(V) /\ p \in Prepare /\ OpOf(p) = k
        BY <1>6, <2>1, <2>4
      <3> HIDE DEF p
      <3>2. p \preceq H \/ H \preceq p
        BY <1>1, <1>7, <3>1 DEF LogInv, OneLogPerView, Continues
      <3>3. p \preceq H
        BY <1>4, <1>7, <2>1, <2>4, <3>1, <3>2 DEF \preceq
      <3>4. p = Ancestor(H, k)
        BY <3>1, <3>3 DEF \preceq
      <3> QED
        BY <1>3, <2>1, <2>4, <3>4 DEF p
    <2> QED
      BY <1>2, <1>3, <2>1, <2>2, <2>3, <2>4
  <1> QED
    BY <1>1, <1>7, <1>8, <1>9, <1>10 DEF vh, V, H, o, D

\* A DVC that a replica sends as it restarts is of the log it went back to.
LEMMA RestartedSends ==
    ASSUME TypeInv, IInv, LogInv, NEW r \in Replica, Crash(r), ~InLogView(r)',
           log_view'[r] = durable[r].log_view, log_view'[r] < view'[r],
           OfOneLog(view_headers'[r].headers),
           ViewHead(view_headers'[r]) \in Tips(durable[r].log_view)
    PROVE  /\ \A m \in do_view_changes' \ do_view_changes :
                  /\ m.replica = r /\ m.view = view'[r] /\ m.log_view = log_view'[r]
                  /\ m.headers = view_headers'[r].headers
                  /\ m.log_view < m.view /\ OfOneLog(m.headers)
                  /\ m.headers[m.op] \in Tips(m.log_view)
                  /\ LogViewDurable(m.log_view)'
                  /\ r = PrimaryIndex(m.view) \/ ViewDurable(r)'
           /\ \A m \in do_view_changes' : m.replica = r =>
                  r # PrimaryIndex(m.view) \/ m = DoViewChange(r)'
  <1>1. /\ UNCHANGED durable
        /\ IF status'[r] = "view_change" THEN SendDoViewChange(r)
           ELSE do_view_changes' = do_view_changes \ OwnDoViewChanges(r)
    BY CrashFacts
  <1> DEFINE own == do_view_changes \ OwnDoViewChanges(r)
  <1>2. /\ \A m \in do_view_changes' : m \in own \/ m = DoViewChange(r)'
        /\ \A m \in do_view_changes' \ do_view_changes :
              m = DoViewChange(r)' /\ (r = PrimaryIndex(view'[r]) \/ ViewDurable(r)')
    BY <1>1 DEF SendDoViewChange
  <1>3. LogViewDurable(durable[r].log_view)
    BY DEF LogInv, TipsDurable, LogViewsDurable
  <1>4. ASSUME NEW m \in do_view_changes' \ do_view_changes
        PROVE  /\ m.replica = r /\ m.view = view'[r] /\ m.log_view = log_view'[r]
               /\ m.headers = view_headers'[r].headers
               /\ m.headers[m.op] = ViewHead(view_headers'[r])
               /\ r = PrimaryIndex(m.view) \/ ViewDurable(r)'
    <2>1. m = DoViewChange(r)' /\ (r = PrimaryIndex(view'[r]) \/ ViewDurable(r)')
      BY <1>2
    <2>2. m.op = HeadOp(view_headers'[r].headers) /\ m.headers = view_headers'[r].headers
          /\ m.replica = r /\ m.view = view'[r] /\ m.log_view = log_view'[r]
      BY <2>1 DEF DoViewChange
    <2> QED
      BY <2>1, <2>2 DEF ViewHead
  <1>5. \A m \in do_view_changes' \ do_view_changes : LogViewDurable(m.log_view)'
    BY <1>1, <1>3, <1>4 DEF LogViewDurable
  <1>6. \A m \in own : m.replica = r => r # PrimaryIndex(m.view)
    BY DEF OwnDoViewChanges
  <1> QED
    BY <1>2, <1>4, <1>5, <1>6

\* A crash takes a replica back to the log of its superblock, and what the WAL has of the same
\* view past it; nothing of a log appears that was not there.
LEMMA CrashLogStep ==
    ASSUME TypeInv, TypeInv', IInv, IInv', LogInv, NEW r \in Replica, Crash(r)
    PROVE  LogStep(r)
  <1> DEFINE d == durable[r]
             vh == d.view_headers
             D == ViewHead(vh)
             H == HeadHeader(r)'
  <1>1. PICK found : RecoveredLog(r, found)
    BY CrashFacts
  <1>2. PICK retires \in BOOLEAN : Restarted(r, retires)
    BY CrashFacts
  <1>3. /\ UNCHANGED <<durable, committed, prepared, start_views, commits>>
        /\ commit_max'[r] = HigherOf(d.commit_max, op'[r] - PipelineMax)
        /\ log_view'[r] = d.log_view /\ dvc_quorum'[r] = FALSE
        /\ retires => view'[r] = d.view + 1 /\ d.log_view = d.view
        /\ ~retires => view'[r] = d.view /\ view_headers'[r] = vh
        /\ status'[r] = "view_change" <=> d.log_view < d.view \/ retires
        /\ status'[r] = "normal" => r # PrimaryIndex(d.view)
    BY <1>2, CrashFacts DEF Restarted
  <1>4. /\ d.view \in Nat /\ d.log_view \in Nat /\ d.log_view <= d.view /\ d.log_view \in View
        /\ D \in Tips(d.log_view) /\ IsHeaders(vh.headers) /\ OfOneLog(vh.headers)
        /\ d.log_view = d.view <=> StartsView(vh)
    <2>1. d.view \in View /\ d.log_view \in View /\ IsHeaders(vh.headers)
      BY DEF TypeInv, LocalTypes, HeadersTypes
    <2>2. D \in Tips(d.log_view)
      BY TipsKnown DEF HasTip
    <2> QED
      BY <2>1, <2>2, CountsAssumption DEF View, IInv, ViewOrder, LogInv, HeadersOfView
  <1>5. op'[r] - PipelineMax <= commit_max'[r] /\ commit_max'[r] \in Op /\ op'[r] \in Op
    <2>1. op'[r] \in Op /\ commit_max'[r] \in Op /\ d.commit_max \in Op
      BY DEF TypeInv, LocalTypes, ReplicaTypes, HeadersTypes
    <2>2. op'[r] \in Nat /\ d.commit_max \in Nat /\ PipelineMax \in Nat
      BY <2>1, OpFacts, CountsAssumption
    <2> QED
      BY <1>3, <2>1, <2>2 DEF HigherOf
  <1>6. LogViewsDurable(r)'
    BY <1>3 DEF LogInv, TipsDurable, LogViewsDurable, LogViewDurable
  <1>7. ~Leads(r)'
    <2>1. CASE retires \/ d.log_view < d.view
      <3>1. view'[r] # log_view'[r]
        BY <1>3, <1>4, <2>1
      <3> QED
        BY <3>1 DEF Leads, InLogView
    <2>2. CASE ~(retires \/ d.log_view < d.view)
      BY <1>3, <2>2 DEF Leads
    <2> QED
      BY <2>1, <2>2
  <1>8. \A m \in do_view_changes' : m.replica = r /\ r # PrimaryIndex(m.view) => m.view <= d.view
    BY <1>3 DEF IInv, AdvertisedDurable
  <1>w. CASE d.log_view < d.view
    <2>1. ~retires /\ op'[r] = HeadOp(vh.headers)
      BY <1>1, <1>3, <1>4, <1>w DEF RecoveredLog
    <2>2. view'[r] = d.view /\ view_headers'[r] = vh /\ ~InLogView(r)' /\ ~StartsView(vh)
          /\ log_view'[r] < view'[r]
      BY <1>3, <1>4, <1>w, <2>1 DEF InLogView
    <2>3. H = D
      <3>1. D \in Prepare /\ D = vh.headers[op'[r]]
        BY <1>4, <2>1, HeadersFacts, KnownFacts DEF ViewHead
      <3>2. journal'[r][op'[r]] = SetHeader(found[op'[r]], D) /\ found[op'[r]] \in Slot
        BY <1>1, <2>1, <3>1, <1>5 DEF RecoveredLog
      <3> QED
        BY <3>1, <3>2, SetHeaderFacts DEF HeadHeader
    <2>4. /\ \A m \in do_view_changes' \ do_view_changes :
                  /\ m.replica = r /\ m.view = view'[r] /\ m.log_view = log_view'[r]
                  /\ m.headers = view_headers'[r].headers
                  /\ m.log_view < m.view /\ OfOneLog(m.headers)
                  /\ m.headers[m.op] \in Tips(m.log_view)
                  /\ LogViewDurable(m.log_view)'
          /\ \A m \in do_view_changes' : m.replica = r =>
                  r # PrimaryIndex(m.view) \/ m = DoViewChange(r)'
      BY <1>3, <1>4, <2>2, RestartedSends
    <2>5. \A w \in View : \A p : HasTip(r, w, p)' => p \in Tips(w)
      <3>1. \A w, p : HasTip(r, w, p)' => w = d.log_view /\ p = D
        BY <1>3, <2>2, <2>3 DEF HasTip
      <3> QED
        BY <1>4, <3>1
    <2>6. HeadersOfView(r)'
      <3>1. HeadersOfView(r)
        BY DEF LogInv
      <3> QED
        BY <1>3, <1>4, <2>2, <2>3, <3>1 DEF HeadersOfView
    <2>7. LogOfView(r)'
      BY <1>5, <1>7, <2>2 DEF LogOfView
    <2>8. ASSUME NEW m \in do_view_changes', m.replica = r, m.view = d.view
          PROVE  m.log_view = d.log_view /\ m.headers = vh.headers
      <3>1. CASE m \in do_view_changes /\ r # PrimaryIndex(m.view)
        BY <1>w, <2>8, <3>1 DEF LogInv, DoViewChangesKept
      <3>2. CASE m \notin do_view_changes
        BY <1>3, <2>2, <2>4, <3>2
      <3>3. CASE r = PrimaryIndex(m.view)
        <4>1. m = DoViewChange(r)'
          BY <2>4, <2>8, <3>3
        <4>2. m.log_view = log_view'[r] /\ m.headers = view_headers'[r].headers
          BY <4>1 DEF DoViewChange
        <4> QED
          BY <1>3, <2>2, <4>2
      <3> QED
        BY <3>1, <3>2, <3>3
    <2>9. DoViewChangesKept(r)'
      BY <1>3, <2>2, <2>8 DEF DoViewChangesKept
    <2> HIDE DEF LogInv, TypeInv, d, vh, D, H
    <2> QED
      BY <1>3, <1>6, <1>7, <2>4, <2>5, <2>6, <2>7, <2>9 DEF LogStep
  <1>e. CASE d.log_view = d.view
    <2>1. /\ vh = StartViewHeaders(D)
          /\ H \in Tips(d.view) /\ D \preceq H /\ H # None /\ H \in Prepare
          /\ \A o \in Op : journal'[r][o].header \in HeadersOf(o)
          /\ \A o \in (op'[r] + 1)..OpMax : journal'[r][o].header = None
          /\ \A o \in commit_max'[r]..op'[r] : journal'[r][o].header \in {None, Ancestor(H, o)}
      BY <1>1, <1>3, <1>e, RecoveredInLog
    <2>n. CASE ~retires
      <3>1. /\ view'[r] = d.view /\ log_view'[r] = d.view /\ view_headers'[r] = vh
            /\ InLogView(r)' /\ StartsView(vh) /\ status'[r] # "view_change"
        BY <1>3, <1>4, <1>e, <2>n DEF InLogView
      <3>2. do_view_changes' \subseteq do_view_changes
        BY <3>1, CrashFacts
      <3>3. \A w \in View : \A p : HasTip(r, w, p)' => p \in Tips(w)
        <4>1. \A w, p : HasTip(r, w, p)' => w = d.view /\ (p = D \/ p = H)
          BY <1>3, <1>e, <3>1 DEF HasTip
        <4> QED
          BY <1>4, <1>e, <2>1, <4>1
      <3>4. HeadersOfView(r)'
        <4>1. HeadersOfView(r)
          BY DEF LogInv
        <4> QED
          BY <1>3, <1>4, <2>1, <3>1, <4>1 DEF HeadersOfView
      <3>5. LogOfView(r)'
        BY <1>5, <1>7, <2>1, <3>1 DEF LogOfView
      <3>6. DoViewChangesKept(r)'
        BY <1>3, <1>e, <3>1, <1>4 DEF DoViewChangesKept
      <3> HIDE DEF LogInv, TypeInv, d, vh, D, H
      <3> QED
        BY <1>3, <1>6, <1>7, <3>2, <3>3, <3>4, <3>5, <3>6 DEF LogStep
    <2>r. CASE retires
      <3>1. /\ view'[r] = d.view + 1 /\ log_view'[r] = d.view
            /\ ~InLogView(r)' /\ ~ViewDurable(r)' /\ log_view'[r] < view'[r]
        BY <1>3, <1>4, <1>e, <2>r DEF InLogView, ViewDurable
      <3>2. /\ ~StartsView(view_headers'[r]) /\ OfOneLog(view_headers'[r].headers)
            /\ ViewHead(view_headers'[r]) = H
        <4> DEFINE j == journal'[r]
                   h == vh.headers
                   new == view_headers'[r]
        <4>0. PICK repairing \in BOOLEAN : ~repairing
          OBVIOUS
        <4>1. new = DoViewChangeHeaders(j, op'[r], commit_max'[r], h, repairing)
          <5>1. repairing = FALSE
            BY <4>0
          <5> QED
            BY <1>2, <2>r, <5>1 DEF Restarted
        <4>2. /\ OfOneLog(h) /\ h[HeadOp(h)] \preceq H /\ IsHeaders(h) /\ H = j[op'[r]].header
              /\ H # None
              /\ \A o \in Op : j[o].header \in HeadersOf(o)
              /\ \A o \in commit_max'[r]..op'[r] : j[o].header \in {None, Ancestor(H, o)}
          BY <1>4, <2>1 DEF ViewHead, HeadHeader
        <4> HIDE DEF j, h, H, new
        <4>3. /\ new.command = "do_view_change" /\ HeadOp(new.headers) = op'[r]
              /\ new.headers[op'[r]] = H /\ OfOneLog(new.headers)
          BY <1>5, <4>0, <4>1, <4>2, DoViewChangeHeadersOfOneLog
        <4> QED
          BY <4>3 DEF StartsView, ViewHead, new
      <3>3. /\ \A m \in do_view_changes' \ do_view_changes :
                    /\ m.replica = r /\ m.view = view'[r] /\ m.log_view = log_view'[r]
                    /\ m.headers = view_headers'[r].headers
                    /\ m.log_view < m.view /\ OfOneLog(m.headers)
                    /\ m.headers[m.op] \in Tips(m.log_view)
                    /\ LogViewDurable(m.log_view)'
            /\ \A m \in do_view_changes' : m.replica = r =>
                    r # PrimaryIndex(m.view) \/ m = DoViewChange(r)'
        BY <1>3, <1>e, <2>1, <3>1, <3>2, RestartedSends
      <3>4. \A w \in View : \A p : HasTip(r, w, p)' => p \in Tips(w)
        <4>1. \A w, p : HasTip(r, w, p)' => w = d.view /\ (p = D \/ p = H)
          BY <1>3, <1>e, <3>1, <3>2 DEF HasTip
        <4> QED
          BY <1>4, <1>e, <2>1, <4>1
      <3>5. HeadersOfView(r)'
        <4>1. HeadersOfView(r)
          BY DEF LogInv
        <4> QED
          BY <1>3, <1>4, <3>1, <3>2, <4>1 DEF HeadersOfView
      <3>6. LogOfView(r)'
        BY <1>5, <1>7, <3>1 DEF LogOfView
      <3>7. ASSUME NEW m \in do_view_changes', m.replica = r, m.view = view'[r]
            PROVE  m.log_view = log_view'[r] /\ m.headers = view_headers'[r].headers
        <4>1. CASE r # PrimaryIndex(m.view)
          <5>1. m.view <= d.view
            BY <1>8, <3>7, <4>1
          <5> QED
            BY <1>4, <3>1, <3>7, <5>1
        <4>2. CASE r = PrimaryIndex(m.view)
          <5>1. m = DoViewChange(r)'
            BY <3>3, <3>7, <4>2
          <5> QED
            BY <5>1 DEF DoViewChange
        <4> QED
          BY <4>1, <4>2
      <3>8. DoViewChangesKept(r)'
        BY <1>3, <1>4, <1>e, <3>7 DEF DoViewChangesKept
      <3> HIDE DEF LogInv, TypeInv, d, vh, D, H
      <3> QED
        BY <1>3, <1>6, <1>7, <3>3, <3>4, <3>5, <3>6, <3>8 DEF LogStep
    <2> QED
      BY <2>n, <2>r
  <1> QED
    BY <1>4, <1>w, <1>e

-----------------------------------------------------------------------------
(* All the steps together. *)

\* At first there is the root only, of view 0.
LEMMA InitLogInv == Init => LogInv
  <1> SUFFICES ASSUME Init PROVE LogInv
    OBVIOUS
  <1>1. TypeInv /\ Root \in Known /\ Root \in Prepare /\ OpOf(Root) = 0 /\ 0 \in View /\ 0 \in Op
        /\ PrimaryIndex(0) \in Replica /\ PipelineMax \in Nat
    BY InitTypes, OpFacts, PrimaryIsReplica, CountsAssumption DEF Known, View
  <1>2. /\ prepared = {} /\ do_view_changes = {} /\ start_views = {} /\ commits = {}
        /\ \A r \in Replica :
            /\ status[r] = "normal" /\ view[r] = 0 /\ log_view[r] = 0 /\ dvc_quorum[r] = FALSE
            /\ view_headers[r] = StartViewHeaders(Root) /\ op[r] = 0 /\ commit_max[r] = 0
            /\ durable[r] = [view |-> 0, log_view |-> 0, commit_max |-> 0,
                             view_headers |-> StartViewHeaders(Root)]
            /\ \A o \in Op : journal[r][o].header = IF o = 0 THEN Root ELSE None
            /\ HeadHeader(r) = Root
    BY <1>1 DEF Init, CleanSlot, Reserved, HeadHeader
  <1>3. /\ StartViewHeaders(Root).command = "start_view"
        /\ HeadOp(StartViewHeaders(Root).headers) = 0
        /\ \A o \in DOMAIN StartViewHeaders(Root).headers :
              StartViewHeaders(Root).headers[o] = Ancestor(Root, o)
        /\ StartViewHeaders(Root).headers[0] = Root
    BY <1>1, StartViewHeadersFacts
  <1>4. ViewHead(StartViewHeaders(Root)) = Root /\ OfOneLog(StartViewHeaders(Root).headers)
        /\ StartsView(StartViewHeaders(Root))
    BY <1>3 DEF ViewHead, OfOneLog, StartsView
  <1>5. ASSUME NEW v \in View, NEW t \in Tips(v) PROVE t = Root /\ v = 0
    <2>1. ~SentTip(v, t)
      BY <1>2 DEF SentTip
    <2>2. PICK r \in Replica : HasTip(r, v, t)
      BY <2>1 DEF Tips
    <2> QED
      BY <1>2, <1>4, <2>2 DEF HasTip
  <1>6. Continues(Root, Root, 0) /\ Lineage(Root, 0) /\ Root \preceq Root
        /\ Ancestor(Root, 0) = Root
    BY <1>1, ContinuesFacts, LineageFacts, BeginsFacts, AncestorOfAncestor
  <1>7. OneLogPerView /\ TipViews /\ PrimaryHasTips
    <2>1. OneLogPerView
      <3> SUFFICES ASSUME NEW v \in View, NEW s \in Tips(v), NEW t \in Tips(v)
                   PROVE  Continues(s, t, v)
        BY DEF OneLogPerView
      <3> QED
        BY <1>5, <1>6
    <2>2. TipViews
      <3> SUFFICES ASSUME NEW v \in View, NEW t \in Tips(v) PROVE Lineage(t, v)
        BY DEF TipViews
      <3> QED
        BY <1>5, <1>6
    <2>3. PrimaryHasTips
      <3> SUFFICES ASSUME NEW r \in Replica, NEW t \in Tips(view[r])
                   PROVE  Continues(t, HeadHeader(r), view[r])
        BY DEF PrimaryHasTips
      <3>1. view[r] \in View /\ view[r] = 0 /\ HeadHeader(r) = Root
        BY <1>1, <1>2
      <3>2. t = Root
        BY <1>5, <3>1
      <3> QED
        BY <1>6, <3>1, <3>2
    <2> QED
      BY <2>1, <2>2, <2>3
  <1>8. TipsDurable
    BY <1>1, <1>2 DEF TipsDurable, LogViewsDurable, LogViewDurable
  <1>9. ASSUME NEW r \in Replica PROVE HeadersOfView(r) /\ LogOfView(r) /\ DoViewChangesKept(r)
    <2>1. HeadersOfView(r)
      BY <1>2, <1>4, <1>6 DEF HeadersOfView, InLogView
    <2>2. LogOfView(r)
      <3>1. op[r] - PipelineMax <= commit_max[r]
        BY <1>1, <1>2
      <3>2. \A o \in (op[r] + 1)..OpMax : o \in Op /\ o # 0
        BY <1>2, CountsAssumption DEF Op
      <3>3. \A o \in 0..0 : o = 0
        OBVIOUS
      <3>4. HashChain(journal[r], 0, op[r])
        BY <1>1, <1>2, <1>6, <3>3, NoneFacts DEF HashChain
      <3> QED
        BY <1>1, <1>2, <1>6, <3>1, <3>2, <3>3, <3>4 DEF LogOfView
    <2>3. DoViewChangesKept(r)
      BY <1>2 DEF DoViewChangesKept
    <2> QED
      BY <2>1, <2>2, <2>3
  <1>10. MessagesOfView /\ CommitsInLog
    BY <1>2 DEF MessagesOfView, CommitsInLog
  <1> QED
    BY <1>7, <1>8, <1>9, <1>10 DEF LogInv

\* Every step is one of some replica that leaves the others as they are.
LEMMA EveryLogStep ==
    ASSUME TypeInv, TypeInv', IInv, IInv', DurableGrows, LogInv, Next
    PROVE  \E r \in Replica : LogStep(r) /\ Others(r) /\ prepared \subseteq prepared'
  <1>1. PICK r \in Replica : ReplicaStep(r) \/ Crash(r)
    BY DEF Next
  <1>2. CASE Crash(r)
    BY <1>2, CrashLogStep, ViewStepsOthers, CrashFacts
  <1>3. CASE ReplicaStep(r)
    <2>1. CASE (\E q \in Replica : JumpView(r, q)) \/ OnStartViewChange(r)
      <3>1. PICK v \in View : /\ ViewChangeTo(r, v) /\ view[r] < v
                              /\ status[r] \in {"normal", "view_change"}
        <4>1. CASE OnStartViewChange(r)
          <5>1. view[r] + 1 \in View /\ view[r] < view[r] + 1
            BY <4>1, CountsAssumption DEF OnStartViewChange, TypeInv, LocalTypes, ReplicaTypes, View
          <5> QED
            BY <4>1, <5>1 DEF OnStartViewChange
        <4>2. CASE \E q \in Replica : JumpView(r, q)
          <5>1. PICK q \in Replica : JumpView(r, q)
            BY <4>2
          <5>2. durable[q].view \in View
            BY DEF TypeInv, LocalTypes, HeadersTypes
          <5> QED
            BY <5>1, <5>2 DEF JumpView
        <4> QED
          BY <2>1, <4>1, <4>2
      <3>2. prepared' = prepared
        BY <3>1 DEF ViewChangeTo
      <3> QED
        BY <3>1, <3>2, ViewChangeToLogStep, ViewStepsOthers
    <2>2. CASE (\E q \in Replica : OnRequestStartView(r, q)) \/ RepairSendStartView(r)
      <3>1. PICK nonce : PrimarySendStartView(r, nonce)
        BY <2>2 DEF OnRequestStartView, RepairSendStartView
      <3>2. prepared' = prepared
        BY <3>1 DEF PrimarySendStartView
      <3> QED
        BY <3>1, <3>2, PrimarySendStartViewLogStep, ViewStepsOthers
    <2>3. CASE OnRequest(r)
      <3>1. prepared \subseteq prepared'
        BY <2>3 DEF OnRequest
      <3> QED
        BY <2>3, <3>1, OnRequestLogStep, LogStepsOthers
    <2>4. CASE \E p \in prepared : OnPrepare(r, p)
      <3>1. prepared' = prepared
        BY <2>4 DEF OnPrepare, netVars
      <3> QED
        BY <2>4, <3>1, OnPrepareLogStep, LogStepsOthers
    <2>5. CASE (\E p \in prepared : RepairHeader(r, p) \/ OnRepair(r, p)) \/ \E o \in Op : WriteDone(r, o)
      <3>1. prepared' = prepared
        BY <2>5 DEF RepairHeader, OnRepair, WriteDone, netVars
      <3> QED
        BY <2>5, <3>1, RepairLogStep, LogStepsOthers
    <2>6. CASE \/ PrimaryCommit(r) \/ SendCommit(r) \/ CommitJournal(r)
               \/ \E m \in commits : OnCommit(r, m)
      <3>1. prepared' = prepared
        BY <2>6 DEF PrimaryCommit, SendCommit, CommitJournal, OnCommit, netVars
      <3> QED
        BY <2>6, <3>1, CommitLogStep, LogStepsOthers
    <2>7. CASE DoViewChangeTimeout(r) \/ StartViewAsTheNewPrimary(r) \/ ViewDurableUpdate(r)
      <3>1. prepared' = prepared
        BY <2>7 DEF DoViewChangeTimeout, StartViewAsTheNewPrimary, ViewDurableUpdate
      <3> QED
        BY <2>7, <3>1, DoViewChangeTimeoutLogStep, StartViewAsTheNewPrimaryLogStep,
           ViewDurableUpdateLogStep, ViewStepsOthers
    <2>8. CASE OnDoViewChange(r)
      <3>1. prepared' = prepared
        BY <2>8 DEF OnDoViewChange, netVars
      <3> QED
        BY <2>8, <3>1, OnDoViewChangeLogStep, ViewStepsOthers
    <2>9. CASE \E m \in start_views : OnStartView(r, m)
      <3>1. prepared' = prepared
        BY <2>9 DEF OnStartView
      <3> QED
        BY <2>9, <3>1, OnStartViewLogStep, ViewStepsOthers
    <2> QED
      BY <1>3, <2>1, <2>2, <2>3, <2>4, <2>5, <2>6, <2>7, <2>8, <2>9, Zenon DEF ReplicaStep
  <1> QED
    BY <1>1, <1>2, <1>3

\* A step that changes nothing.
LEMMA StutterLogInv == ASSUME TypeInv, LogInv, UNCHANGED vars PROVE LogInv'
  <1>1. /\ UNCHANGED <<viewVars, durable, logVars, commitVars, diskVars, incarnation>>
        /\ UNCHANGED <<prepared, do_view_changes, start_views, commits>>
    BY DEF vars, netVars
  <1>2. \A r \in Replica : /\ \A v, p : HasTip(r, v, p)' <=> HasTip(r, v, p)
                           /\ InLogView(r)' <=> InLogView(r)
                           /\ ViewDurable(r)' <=> ViewDurable(r)
                           /\ Leads(r)' <=> Leads(r)
                           /\ HeadHeader(r)' = HeadHeader(r)
    BY <1>1 DEF HasTip, InLogView, ViewDurable, Leads, HeadHeader, viewVars, logVars
  <1>3. \A v : Tips(v)' = Tips(v)
    <2>1. \A v, p : SentTip(v, p)' <=> SentTip(v, p)
      BY <1>1 DEF SentTip
    <2> QED
      BY <1>1, <1>2, <2>1 DEF Tips, Known
  <1>4. \A v : LogViewDurable(v)' <=> LogViewDurable(v)
    BY <1>1 DEF LogViewDurable
  <1>5. OneLogPerView' /\ TipViews'
    BY <1>3 DEF LogInv, OneLogPerView, TipViews
  <1>6. PrimaryHasTips'
    <2>1. ASSUME NEW r \in Replica, Leads(r)', NEW w, w = view'[r], NEW t \in Tips(w)'
          PROVE  Continues(t, HeadHeader(r)', w)
      BY <1>1, <1>2, <1>3, <2>1 DEF LogInv, PrimaryHasTips, viewVars
    <2> QED
      BY <2>1 DEF PrimaryHasTips
  <1>7. TipsDurable'
    BY <1>1, <1>4 DEF LogInv, TipsDurable, LogViewsDurable, viewVars, LogViewDurable
  <1>8. ASSUME NEW r \in Replica PROVE HeadersOfView(r)' /\ LogOfView(r)' /\ DoViewChangesKept(r)'
    <2>1. HeadersOfView(r) /\ LogOfView(r) /\ DoViewChangesKept(r)
      BY DEF LogInv
    <2>2. HeadersOfView(r)'
      BY <1>1, <1>2, <2>1 DEF HeadersOfView, viewVars
    <2>3. LogOfView(r)'
      BY <1>1, <1>2, <2>1 DEF LogOfView, viewVars, logVars, commitVars
    <2>4. DoViewChangesKept(r)'
      BY <1>1, <1>2, <2>1 DEF DoViewChangesKept, viewVars
    <2> QED
      BY <2>2, <2>3, <2>4
  <1>9. MessagesOfView'
    BY <1>1 DEF LogInv, MessagesOfView
  <1>10. CommitsInLog'
    <2>1. ASSUME NEW m \in commits
          PROVE  /\ LogViewDurable(m.view)'
                 /\ \A t \in Tips(m.view)' : Comparable(m.prepare, t)
                 /\ \A r \in Replica : Leads(r)' /\ view'[r] = m.view =>
                        m.prepare \preceq HeadHeader(r)'
      BY <1>1, <1>2, <1>3, <1>4 DEF LogInv, CommitsInLog, viewVars
    <2> QED
      BY <1>1, <2>1 DEF CommitsInLog
  <1> QED
    BY <1>5, <1>6, <1>7, <1>8, <1>9, <1>10 DEF LogInv

\* Every step keeps the logs in order.
LEMMA NextLogInv ==
    ASSUME TypeInv, TypeInv', IInv, LogInv, [Next]_vars
    PROVE  LogInv'
  <1>1. IInv' /\ DurableGrows
    BY NextIInv
  <1>2. CASE Next
    <2>1. PICK r \in Replica : LogStep(r) /\ Others(r) /\ prepared \subseteq prepared'
      BY <1>1, <1>2, EveryLogStep
    <2> QED
      BY <1>1, <2>1, LogStepInv
  <1>3. CASE UNCHANGED vars
    BY <1>3, StutterLogInv
  <1> QED
    BY <1>2, <1>3

-----------------------------------------------------------------------------
(* The theorems. *)

\* The logs that replicas, superblocks and messages have of one view are all beginnings of its
\* primary's, with the view's own prepares between any two of them; what is in a log, from what is
\* known committed to the head, is of it; and nothing of a view gets around before the primary's
\* log_view is durable (primary_set_log_from_do_view_change_messages, on_start_view, repair_header,
\* Replica.open): in every reachable state, of a cluster of any size, with any quorums.
THEOREM LogsHold == Spec => []LogInv
  <1>1. Init => LogInv
    BY InitLogInv
  <1>2. TypeInv /\ TypeInv' /\ IInv /\ LogInv /\ [Next]_vars => LogInv'
    BY NextLogInv
  <1> QED
    BY <1>1, <1>2, TypesHold, InductiveInvariant, PTL DEF Spec

\* No backup panics: a prepare of the view that follows its head has the head as its parent
\* (panic_if_hash_chain_would_break_in_the_same_view), and a heartbeat of the view agrees with
\* what the log connects to its head (on_commit).
THEOREM NoPanic == Spec => []NoHashChainPanic
  <1>1. TypeInv /\ IInv /\ LogInv => NoHashChainPanic
    <2> SUFFICES ASSUME TypeInv, IInv, LogInv, NEW r \in Replica, status[r] = "normal"
                 PROVE  /\ \A p \in prepared :
                              (ViewOf(p) = view[r] /\ OpOf(p) = op[r] + 1
                                  /\ ViewOf(HeadHeader(r)) = view[r])
                              => HeadHeader(r) = Ancestor(p, op[r])
                        /\ \A m \in commits : (m.view = view[r] /\ OpOf(m.prepare) <= op[r]) =>
                              \/ journal[r][OpOf(m.prepare)].header \in {None, m.prepare}
                              \/ ~HashChain(journal[r], OpOf(m.prepare), op[r])
      BY DEF NoHashChainPanic
    <2> DEFINE H == HeadHeader(r)
               v == view[r]
    <2>1. /\ H \in Prepare /\ OpOf(H) = op[r] /\ op[r] \in Nat /\ H = journal[r][op[r]].header
          /\ v \in View /\ InLogView(r)
      BY HeadFacts, NormalFacts DEF TypeInv, LocalTypes, ReplicaTypes
    <2>2. H \in Tips(v)
      BY <2>1, TipsKnown DEF HasTip, InLogView
    <2>3. ASSUME NEW p \in prepared, ViewOf(p) = v, OpOf(p) = op[r] + 1
          PROVE  H = Ancestor(p, op[r])
      <3>1. p \in Tips(v) /\ p \in Prepare
        BY <2>3, KnownFacts, TipsKnown DEF SentTip
      <3>2. p \preceq H \/ H \preceq p
        BY <2>1, <2>2, <3>1 DEF LogInv, OneLogPerView, Continues
      <3>3. H \preceq p
        BY <2>1, <2>3, <3>2 DEF \preceq
      <3> QED
        BY <2>1, <3>3 DEF \preceq
    <2>4. ASSUME NEW m \in commits, m.view = v, OpOf(m.prepare) <= op[r],
                 HashChain(journal[r], OpOf(m.prepare), op[r])
          PROVE  journal[r][OpOf(m.prepare)].header = m.prepare
      <3> DEFINE p == m.prepare
      <3>1. p \in Prepare /\ OpOf(p) \in Nat
        BY KnownFacts, OpFacts DEF TypeInv, MessageTypes, CommitTypes
      <3>2. p \preceq H \/ H \preceq p
        BY <2>2, <2>4 DEF LogInv, CommitsInLog, Comparable
      <3>3. p \preceq H
        <4>1. H \preceq p => H = p
          BY <2>1, <2>4, <3>1, BeginsFacts
        <4> QED
          BY <3>1, <3>2, <4>1, BeginsFacts
      <3>4. p = Ancestor(H, OpOf(p))
        BY <3>3 DEF \preceq
      <3>5. OpOf(p) \in OpOf(p)..op[r]
        BY <2>1, <2>4, <3>1
      <3> QED
        BY <2>1, <2>4, <3>4, <3>5 DEF HashChain
    <2> QED
      BY <2>3, <2>4
  <1> QED
    BY <1>1, TypesHold, InductiveInvariant, LogsHold, PTL

\* No prepare is made twice, also not by a primary that crashed and restarted: a primary that may
\* prepare has all the prepares of its view in its log (on_request, Replica.open).
THEOREM PreparedOnce == Spec => NoDoublePrepare
  <1>1. TypeInv /\ IInv /\ LogInv => \A r \in Replica : OnRequest(r) => NewPrepare(r) \notin prepared
    <2> SUFFICES ASSUME TypeInv, IInv, LogInv, NEW r \in Replica,
                        status[r] = "normal", r = PrimaryIndex(view[r]), op[r] < OpMax,
                        Append(HeadHeader(r), view[r]) \in prepared
                 PROVE  FALSE
      BY DEF OnRequest, NewPrepare
    <2> DEFINE p == Append(HeadHeader(r), view[r])
    <2>1. /\ HeadHeader(r) \in Prepare /\ OpOf(HeadHeader(r)) = op[r] /\ op[r] \in Nat
          /\ view[r] \in View
      BY HeadFacts DEF TypeInv, LocalTypes, ReplicaTypes
    <2>2. OpOf(p) = op[r] + 1 /\ ViewOf(p) = view[r]
      BY <2>1, AppendFacts
    <2> HIDE DEF p
    <2>3. p \in Tips(view[r])
      BY <2>2, TipsKnown DEF SentTip, p
    <2>4. p \preceq HeadHeader(r)
      BY <2>3, NormalFacts, LeaderFacts DEF Continues
    <2> QED
      BY <2>1, <2>2, <2>4 DEF \preceq
  <1>2. (TypeInv /\ IInv /\ LogInv) /\ [Next]_vars =>
            [\A r \in Replica : OnRequest(r) => NewPrepare(r) \notin prepared]_vars
    BY <1>1
  <1> QED
    BY <1>2, TypesHold, InductiveInvariant, LogsHold, PTL DEF Spec, NoDoublePrepare

\* Two DVCs of a replica for one view have the same log_view and headers, whatever it did and
\* whether it crashed in between (what primary_receive_do_view_change asserts).
THEOREM DoViewChangesStable == Spec => []DoViewChangeStable
  <1>1. Init => DoViewChangeStable
    BY DEF Init, DoViewChangeStable
  <1>2. TypeInv /\ IInv /\ LogInv' /\ DoViewChangeStable /\ [Next]_vars => DoViewChangeStable'
    <2> SUFFICES ASSUME IInv, LogInv', DoViewChangeStable, [Next]_vars PROVE DoViewChangeStable'
      OBVIOUS
    <2>1. CASE Next
      <3>1. PICK r \in Replica : GoodStep(r)
        BY <2>1, EveryStepIsGood
      <3>2. ASSUME NEW m \in do_view_changes' \ do_view_changes, NEW n \in do_view_changes',
                   n.replica = m.replica, n.view = m.view
            PROVE  m.log_view = n.log_view /\ m.headers = n.headers
        <4>1. m.replica = r /\ m.view = view'[r] /\ m.log_view = log_view'[r]
          BY <3>1 DEF GoodStep, Sends
        <4>2. m.log_view < m.view /\ m.view \in Nat /\ m.log_view \in Nat
          BY <3>1, GoodStepAdvertises DEF LogInv, MessagesOfView, SentTypes
        <4>3. ~InLogView(r)'
          BY <4>1, <4>2 DEF InLogView
        <4>4. \A c \in do_view_changes' : c.replica = r /\ c.view = view'[r] =>
                  c.log_view = log_view'[r] /\ c.headers = view_headers'[r].headers
          BY <4>3 DEF LogInv, DoViewChangesKept
        <4> QED
          BY <3>2, <4>1, <4>4
      <3> QED
        BY <3>2 DEF DoViewChangeStable
    <2>2. CASE UNCHANGED vars
      BY <2>2 DEF vars, netVars, DoViewChangeStable
    <2> QED
      BY <2>1, <2>2
  <1> QED
    BY <1>1, <1>2, TypesHold, InductiveInvariant, LogsHold, PTL DEF Spec
===============================================================================
