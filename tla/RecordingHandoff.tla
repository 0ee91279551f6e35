--------------------------- MODULE RecordingHandoff ---------------------------
(***************************************************************************)
(* RecordingIngestion implements RowHandoff: the stage of a source record  *)
(* is read off its row and its Calls, the submissions off the queue of the *)
(* call pipeline.                                                          *)
(***************************************************************************)
EXTENDS RecordingIngestion

StageOf(k) ==
    CASE rec[k].status = "absent" -> "unseen"
      [] rec[k].status = "rejected" -> "refused"
      [] rec[k].status = "submitted" -> "submitted"
      [] OTHER -> IF calls[k] = <<>> THEN "held" ELSE "called"

Promise == INSTANCE RowHandoff WITH
    ExactlyOnce <- ~Reconciling,
    stage <- [k \in Keys |-> StageOf(k)],
    submissions <- callQ

\* Every step of every worker, with its crashes, retries and lost messages, is
\* a step of the promised handoff or leaves the handoff alone.
ImplementsHandoff == Promise!HandoffSpec
===============================================================================
