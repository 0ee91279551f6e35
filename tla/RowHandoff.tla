------------------------------ MODULE RowHandoff ------------------------------
(***************************************************************************)
(* What recording ingestion promises of each source record: it is claimed  *)
(* once, it is refused or becomes one Call, the Call is submitted to the   *)
(* call pipeline, and only then the record is acknowledged as submitted.   *)
(* Submission is exactly once, or at least once when interrupted handoffs  *)
(* are reconciled.                                                         *)
(***************************************************************************)
EXTENDS Naturals

CONSTANTS Keys, ExactlyOnce

VARIABLES stage, submissions

handoffVars == << stage, submissions >>

HandoffInit ==
    /\ stage = [k \in Keys |-> "unseen"]
    /\ submissions = [k \in Keys |-> 0]

Move(k, from, to) ==
    /\ stage[k] = from
    /\ stage' = [stage EXCEPT ![k] = to]
    /\ UNCHANGED submissions

Claim(k) == Move(k, "unseen", "held")
Refuse(k) == Move(k, "held", "refused")
CreateCall(k) == Move(k, "held", "called")

Submit(k) ==
    /\ IF ExactlyOnce THEN stage[k] = "called" /\ submissions[k] = 0
                      ELSE stage[k] \in {"called", "submitted"}
    /\ submissions' = [submissions EXCEPT ![k] = @ + 1]
    /\ UNCHANGED stage

Acknowledge(k) ==
    submissions[k] > 0 /\ Move(k, "called", "submitted")

HandoffNext ==
    \E k \in Keys :
        Claim(k) \/ Refuse(k) \/ CreateCall(k) \/ Submit(k) \/ Acknowledge(k)

HandoffSpec == HandoffInit /\ [][HandoffNext]_handoffVars
===============================================================================
