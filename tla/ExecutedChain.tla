---------------------------- MODULE ExecutedChain ----------------------------
(***************************************************************************)
(* What the replicas of Vsr promise together. Whatever any of them         *)
(* executes (replica.zig, commit_execute) is of one hash chain of          *)
(* prepares. The chain gains its prepares one op at a time, is never       *)
(* rewritten, and its views do not go back: no prepare is executed after   *)
(* one of a later view. That last part is asserted where a primary         *)
(* prepares (push_prepare), of the prepares in its own pipeline only.      *)
(***************************************************************************)
EXTENDS Integers, Sequences

CONSTANT View       \* the views

VARIABLE executed   \* the prepares executed, each the sequence of the views of the chain up to it

\* The last prepare of the chain, or its root.
Last == IF executed = {} THEN <<>>
        ELSE CHOOSE c \in executed : \A d \in executed : Len(d) <= Len(c)

\* The root prepare is of view 0.
LastView == IF Last = <<>> THEN 0 ELSE Last[Len(Last)]

\* A replica is the first to execute the next op: a prepare of view v.
ExecuteFirst(v) ==
    /\ LastView <= v
    /\ executed' = executed \cup {Last \o <<v>>}

OneChain == executed = {} /\ [][\E v \in View : ExecuteFirst(v)]_executed
==============================================================================
