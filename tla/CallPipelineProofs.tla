------------------------- MODULE CallPipelineProofs -------------------------
(* Type correctness of the call pipeline, and what one worker guarantees:  *)
(* an evaluation is stored whole, and no Call comes to rest without an      *)
(* answer, for any number of Calls, messages, recoveries and faults.        *)
EXTENDS CallPipeline, TLAPS

\* SetStatus, OverwriteStatus and a plain assignment keep the type of call.
LEMMA StatusTyped ==
    ASSUME TypeOK, NEW w \in Workers, NEW s \in Statuses, Task(w) \in Calls,
           SetStatus(w, s) \/ OverwriteStatus(w, s)
    PROVE  call' \in [Calls -> [status : Statuses, audio : BOOLEAN, aged : BOOLEAN]]
<1>1. [call EXCEPT ![Task(w)].status = s]
        \in [Calls -> [status : Statuses, audio : BOOLEAN, aged : BOOLEAN]]
  BY DEF TypeOK
<1>. QED  BY <1>1 DEF TypeOK, SetStatus, OverwriteStatus

\* FaultAt and FaultReported keep the types of what they write.
LEMMA FaultTyped ==
    ASSUME TypeOK, NEW c \in Calls, FaultAt(c) \/ FaultReported
    PROVE  /\ disturbed' \subseteq Calls
           /\ count' \in [resubmissions : Nat, recoveries : Nat, faults : Nat]
BY DEF TypeOK, FaultAt, FaultReported

\* The control state of the workers, as TypeOK states it.
WorkersTyped ==
    /\ wk \in [Workers -> [pc : {"idle", "fetched", "admitted", "started", "transcribing",
                                 "transcribed", "evaluating", "closing"},
                           call : Calls \cup {None}, seen : Statuses, eval : Nat]]
    /\ \A w \in Workers : wk[w].pc # "idle" => wk[w].call \in Calls

\* A worker that moves on keeps its Call, one that finishes has none.
LEMMA MoveTyped ==
    ASSUME TypeOK, NEW w \in Workers,
           \/ Finish(w)
           \/ /\ ~At(w, "idle")
              /\ \E pc \in {"fetched", "admitted", "started", "transcribing",
                            "transcribed", "evaluating", "closing"} :
                    GoTo(w, pc) \/ ReadAgain(w, pc)
    PROVE  WorkersTyped'
<1>. USE DEF TypeOK, WorkersTyped
<1>1. CASE Finish(w)
  <2>1. wk' = [wk EXCEPT ![w] = IdleWorker]
    BY <1>1 DEF Finish
  <2>2. IdleWorker \in [pc : {"idle"}, call : {None}, seen : {"absent"}, eval : {0}]
    BY DEF IdleWorker
  <2>. QED  BY <2>1, <2>2 DEF Statuses
<1>2. ASSUME ~At(w, "idle"),
             NEW pc \in {"fetched", "admitted", "started", "transcribing",
                         "transcribed", "evaluating", "closing"},
             GoTo(w, pc)
      PROVE  WorkersTyped'
  <2>1. wk' = [wk EXCEPT ![w].pc = pc]
    BY <1>2 DEF GoTo
  <2>2. wk[w].pc # "idle" /\ wk[w].call \in Calls
    BY <1>2 DEF At
  <2>3. ASSUME NEW v \in Workers, wk'[v].pc # "idle"
        PROVE  wk'[v].call \in Calls
    <3>1. wk'[v].call = wk[v].call /\ (v # w => wk'[v].pc = wk[v].pc)
      BY <2>1
    <3>. QED  BY <3>1, <2>2, <2>3
  <2>4. wk' \in [Workers -> [pc : {"idle", "fetched", "admitted", "started", "transcribing",
                                  "transcribed", "evaluating", "closing"},
                           call : Calls \cup {None}, seen : Statuses, eval : Nat]]
    <3>. DEFINE R == [pc : {"idle", "fetched", "admitted", "started", "transcribing",
                            "transcribed", "evaluating", "closing"},
                      call : Calls \cup {None}, seen : Statuses, eval : Nat]
    <3>1. wk[w] \in R /\ wk \in [Workers -> R]
      OBVIOUS
    <3>2. [wk[w] EXCEPT !.pc = pc] \in R
      BY <3>1
    <3>3. wk' = [wk EXCEPT ![w] = [wk[w] EXCEPT !.pc = pc]]
      BY <2>1
    <3>. HIDE DEF R
    <3>4. wk' \in [Workers -> R]
      BY <3>1, <3>2, <3>3
    <3>. QED  BY <3>4 DEF R
  <2>. QED  BY <2>3, <2>4
<1>3. ASSUME ~At(w, "idle"),
             NEW pc \in {"fetched", "admitted", "started", "transcribing",
                         "transcribed", "evaluating", "closing"},
             ReadAgain(w, pc)
      PROVE  WorkersTyped'
  <2>1. call[Task(w)].status \in Statuses
    BY <1>3 DEF At, Task
  <2>. QED  BY <1>3, <2>1 DEF ReadAgain, At
<1>. QED  BY <1>1, <1>2, <1>3

\* One field of one Call changes.
LEMMA CallUpdateTyped ==
    ASSUME TypeOK, NEW c \in Calls
    PROVE  /\ [call EXCEPT ![c].audio = FALSE]
                \in [Calls -> [status : Statuses, audio : BOOLEAN, aged : BOOLEAN]]
           /\ [call EXCEPT ![c].aged = TRUE]
                \in [Calls -> [status : Statuses, audio : BOOLEAN, aged : BOOLEAN]]
<1>. DEFINE R == [status : Statuses, audio : BOOLEAN, aged : BOOLEAN]
<1>1. call[c] \in R
  BY DEF TypeOK
<1>2. [call[c] EXCEPT !.audio = FALSE] \in R
  BY <1>1
<1>3. [call[c] EXCEPT !.aged = TRUE] \in R
  BY <1>1
<1>4. /\ [call EXCEPT ![c].audio = FALSE] = [call EXCEPT ![c] = [call[c] EXCEPT !.audio = FALSE]]
      /\ [call EXCEPT ![c].aged = TRUE] = [call EXCEPT ![c] = [call[c] EXCEPT !.aged = TRUE]]
  OBVIOUS
<1>5. ASSUME NEW r \in R PROVE [call EXCEPT ![c] = r] \in [Calls -> R]
  <2>1. call \in [Calls -> R]
    BY DEF TypeOK
  <2>. HIDE DEF R
  <2>. QED  BY <2>1
<1>. QED  BY <1>2, <1>3, <1>4, <1>5

\* Types survive the arrival of Calls.
LEMMA ArrivalTyped ==
    ASSUME TypeOK, NEW c \in Calls, Arrival(c)
    PROVE  TypeOK'
<1>. USE DEF TypeOK, rows
<1>1. ASSUME NEW e \in Endpoints, StoreCall(c, e) PROVE TypeOK'
  <2>1. [status |-> "pending", audio |-> TRUE, aged |-> FALSE]
          \in [status : Statuses, audio : BOOLEAN, aged : BOOLEAN]
    BY DEF Statuses
  <2>. QED  BY <1>1, <2>1 DEF StoreCall
<1>2. CASE PublishCall(c)
  BY <1>2 DEF PublishCall, Publish
<1>3. CASE PublishCallFails(c)
  <2>1. call' \in [Calls -> [status : Statuses, audio : BOOLEAN, aged : BOOLEAN]]
    BY <1>3, CallUpdateTyped DEF PublishCallFails, TypeOK
  <2>2. /\ disturbed' \subseteq Calls
        /\ count' \in [resubmissions : Nat, recoveries : Nat, faults : Nat]
    BY <1>3, FaultTyped DEF PublishCallFails
  <2>3. upload' \in [Calls -> Endpoints \cup {None}]
    BY <1>3 DEF PublishCallFails
  <2>. QED  BY <1>3, <2>1, <2>2, <2>3 DEF PublishCallFails
<1>4. CASE Resubmit(c)
  BY <1>4 DEF Resubmit, Publish
<1>5. CASE GrowOld(c)
  <2>1. call' \in [Calls -> [status : Statuses, audio : BOOLEAN, aged : BOOLEAN]]
    BY <1>5, CallUpdateTyped DEF GrowOld
  <2>. QED  BY <1>5, <2>1 DEF GrowOld
<1>. QED  BY <1>1, <1>2, <1>3, <1>4, <1>5 DEF Arrival

\* Types survive the steps of a task.
LEMMA WorkerStepTyped ==
    ASSUME TypeOK, NEW w \in Workers, WorkerStep(w)
    PROVE  TypeOK'
<1>. USE DEF rows
<1>0. ~At(w, "idle") => Task(w) \in Calls
  BY DEF TypeOK, At, Task
<1>1. ASSUME NEW c \in Calls, Receive(w, c) PROVE TypeOK'
  <2>1. call[c].status \in Statuses
    BY DEF TypeOK
  <2>2. [pc |-> "fetched", call |-> c, seen |-> call[c].status, eval |-> 0]
          \in [pc : {"fetched"}, call : Calls, seen : Statuses, eval : Nat]
    BY <2>1
  <2>3. WorkersTyped'
    BY <1>1, <2>2 DEF Receive, TypeOK, WorkersTyped
  <2>4. queue' \in [Calls -> Nat]
    BY <1>1 DEF Receive, TypeOK
  <2>. QED  BY <1>1, <2>3, <2>4 DEF Receive, TypeOK, WorkersTyped
<1>2. CASE AlreadyEvaluated(w)
  <2>1. WorkersTyped'
    BY <1>2, MoveTyped DEF AlreadyEvaluated, At
  <2>2. call' \in [Calls -> [status : Statuses, audio : BOOLEAN, aged : BOOLEAN]]
    BY <1>0, <1>2, StatusTyped DEF AlreadyEvaluated, At, Statuses
  <2>. QED  BY <1>2, <2>1, <2>2 DEF AlreadyEvaluated, TypeOK, WorkersTyped
<1>3. CASE AudioMissing(w)
  <2>1. WorkersTyped'
    BY <1>3, MoveTyped DEF AudioMissing, At
  <2>2. call' \in [Calls -> [status : Statuses, audio : BOOLEAN, aged : BOOLEAN]]
    BY <1>0, <1>3, StatusTyped DEF AudioMissing, At, Statuses
  <2>. QED  BY <1>3, <2>1, <2>2 DEF AudioMissing, TypeOK, WorkersTyped
<1>4. CASE Admit(w)
  <2>1. WorkersTyped'
    BY <1>4, MoveTyped DEF Admit, At
  <2>. QED  BY <1>4, <2>1 DEF Admit, TypeOK, WorkersTyped
<1>5. CASE Start(w)
  <2>1. Task(w) \in Calls /\ tasks[Task(w)] \in Nat
    BY <1>0, <1>5 DEF Start, At, TypeOK
  <2>2. wk' = [wk EXCEPT ![w].pc = "started", ![w].eval = tasks[Task(w)] + 1]
    BY <1>5 DEF Start
  <2>3. WorkersTyped'
    <3>1. ASSUME NEW v \in Workers, wk'[v].pc # "idle"
          PROVE  wk'[v].call \in Calls
      <4>1. wk'[v].call = wk[v].call /\ (v # w => wk'[v].pc = wk[v].pc)
        BY <2>2 DEF TypeOK
      <4>. QED  BY <4>1, <2>1, <3>1 DEF TypeOK, Task
    <3>2. wk' \in [Workers -> [pc : {"idle", "fetched", "admitted", "started", "transcribing",
                                    "transcribed", "evaluating", "closing"},
                             call : Calls \cup {None}, seen : Statuses, eval : Nat]]
      <4>. DEFINE R == [pc : {"idle", "fetched", "admitted", "started", "transcribing",
                              "transcribed", "evaluating", "closing"},
                        call : Calls \cup {None}, seen : Statuses, eval : Nat]
                  e == tasks[Task(w)] + 1
                  n == [wk[w] EXCEPT !.pc = "started", !.eval = e]
      <4>1. wk[w] \in R /\ wk \in [Workers -> R]
        BY DEF TypeOK
      <4>2. n \in R
        <5>1. e \in Nat
          BY <2>1
        <5>. HIDE DEF e
        <5>. QED  BY <4>1, <5>1
      <4>3. wk' = [wk EXCEPT ![w] = n]
        BY <2>2
      <4>. HIDE DEF R, n
      <4>4. wk' \in [Workers -> R]
        BY <4>1, <4>2, <4>3
      <4>. QED  BY <4>4 DEF R
    <3>. QED  BY <3>1, <3>2 DEF WorkersTyped
  <2>4. call' \in [Calls -> [status : Statuses, audio : BOOLEAN, aged : BOOLEAN]]
    BY <2>1, <1>5, StatusTyped DEF Start, Statuses
  <2>5. /\ parts' \in [Calls -> SUBSET Nat]
        /\ tasks' \in [Calls -> Nat]
    BY <1>5, <2>1 DEF Start, TypeOK
  <2>. QED  BY <1>5, <2>3, <2>4, <2>5 DEF Start, TypeOK, WorkersTyped
<1>6. CASE BeginTranscription(w)
  <2>1. WorkersTyped'
    BY <1>6, MoveTyped DEF BeginTranscription, At
  <2>. QED  BY <1>6, <2>1 DEF BeginTranscription, TypeOK, WorkersTyped
<1>7. CASE Transcribe(w)
  <2>1. WorkersTyped'
    BY <1>7, MoveTyped DEF Transcribe, At
  <2>2. call' \in [Calls -> [status : Statuses, audio : BOOLEAN, aged : BOOLEAN]]
    BY <1>0, <1>7, StatusTyped DEF Transcribe, At, Statuses
  <2>. QED  BY <1>7, <2>1, <2>2 DEF Transcribe, TypeOK, WorkersTyped
<1>8. CASE BeginEvaluation(w)
  <2>1. WorkersTyped'
    BY <1>8, MoveTyped DEF BeginEvaluation, At
  <2>. QED  BY <1>8, <2>1 DEF BeginEvaluation, TypeOK, WorkersTyped
<1>9. CASE Evaluate(w)
  <2>1. Task(w) \in Calls /\ wk[w].eval \in Nat
    BY <1>0, <1>9 DEF Evaluate, At, TypeOK
  <2>2. WorkersTyped'
    BY <1>9, MoveTyped DEF Evaluate, At
  <2>3. call' \in [Calls -> [status : Statuses, audio : BOOLEAN, aged : BOOLEAN]]
    <3>1. CASE SetStatus(w, "evaluated")
      BY <2>1, <3>1, StatusTyped DEF Statuses
    <3>2. CASE call' = call
      BY <3>2 DEF TypeOK
    <3>. QED  BY <1>9, <3>1, <3>2 DEF Evaluate
  <2>4. /\ parts' \in [Calls -> SUBSET Nat]
        /\ outcome' \in [Calls -> Nat]
    <3>1. CASE /\ parts' = [parts EXCEPT ![Task(w)] = @ \cup {wk[w].eval}]
               /\ outcome' = [outcome EXCEPT ![Task(w)] = wk[w].eval]
      <4>1. parts[Task(w)] \cup {wk[w].eval} \in SUBSET Nat
        BY <2>1 DEF TypeOK
      <4>. QED  BY <3>1, <4>1, <2>1 DEF TypeOK
    <3>2. CASE UNCHANGED << parts, outcome >>
      BY <3>2 DEF TypeOK
    <3>. QED  BY <1>9, <3>1, <3>2 DEF Evaluate
  <2>. QED  BY <1>9, <2>2, <2>3, <2>4 DEF Evaluate, TypeOK, WorkersTyped
<1>10. CASE Close(w)
  <2>1. WorkersTyped'
    BY <1>10, MoveTyped DEF Close
  <2>. QED  BY <1>10, <2>1 DEF Close, TypeOK, WorkersTyped
<1>. QED
  BY <1>1, <1>2, <1>3, <1>4, <1>5, <1>6, <1>7, <1>8, <1>9, <1>10 DEF WorkerStep

\* Types survive the faults of a worker.
LEMMA WorkerFaultTyped ==
    ASSUME TypeOK, NEW w \in Workers, WorkerFault(w)
    PROVE  TypeOK'
<1>. USE DEF rows
<1>0. ~At(w, "idle") => Task(w) \in Calls
  BY DEF TypeOK, At, Task
<1>1. ASSUME NEW c \in Calls, DropMessage(w, c) PROVE TypeOK'
  <2>1. queue' \in [Calls -> Nat]
    BY <1>1 DEF DropMessage, TypeOK
  <2>2. /\ disturbed' \subseteq Calls
        /\ count' \in [resubmissions : Nat, recoveries : Nat, faults : Nat]
    BY <1>1, FaultTyped DEF DropMessage
  <2>. QED  BY <1>1, <2>1, <2>2 DEF DropMessage, TypeOK
<1>2. CASE DiskFull(w)
  <2>1. WorkersTyped'
    BY <1>2, MoveTyped DEF DiskFull, At
  <2>2. call' \in [Calls -> [status : Statuses, audio : BOOLEAN, aged : BOOLEAN]]
    BY <1>0, <1>2, StatusTyped DEF DiskFull, At, Statuses
  <2>3. /\ disturbed' \subseteq Calls
        /\ count' \in [resubmissions : Nat, recoveries : Nat, faults : Nat]
    BY <1>0, <1>2, FaultTyped DEF DiskFull, At
  <2>. QED  BY <1>2, <2>1, <2>2, <2>3 DEF DiskFull, TypeOK, WorkersTyped
<1>3. CASE TranscriptionFails(w)
  <2>1. WorkersTyped'
    BY <1>3, MoveTyped DEF TranscriptionFails, At
  <2>2. call' \in [Calls -> [status : Statuses, audio : BOOLEAN, aged : BOOLEAN]]
    BY <1>0, <1>3, StatusTyped DEF TranscriptionFails, At, Statuses
  <2>3. /\ disturbed' \subseteq Calls
        /\ count' \in [resubmissions : Nat, recoveries : Nat, faults : Nat]
    BY <1>0, <1>3, FaultTyped DEF TranscriptionFails, At
  <2>. QED  BY <1>3, <2>1, <2>2, <2>3 DEF TranscriptionFails, TypeOK, WorkersTyped
<1>4. CASE EvaluationFails(w)
  <2>1. WorkersTyped'
    BY <1>4, MoveTyped DEF EvaluationFails, At
  <2>2. call' \in [Calls -> [status : Statuses, audio : BOOLEAN, aged : BOOLEAN]]
    BY <1>0, <1>4, StatusTyped DEF EvaluationFails, At, Statuses
  <2>3. /\ disturbed' \subseteq Calls
        /\ count' \in [resubmissions : Nat, recoveries : Nat, faults : Nat]
    BY <1>0, <1>4, FaultTyped DEF EvaluationFails, At
  <2>4. parts' \in [Calls -> SUBSET Nat]
    <3>1. CASE UNCHANGED parts
      BY <3>1 DEF TypeOK
    <3>2. CASE parts' = [parts EXCEPT ![Task(w)] = @ \cup {wk[w].eval}]
      <4>1. Task(w) \in Calls /\ wk[w].eval \in Nat
        BY <1>0, <1>4 DEF EvaluationFails, At, TypeOK
      <4>2. parts[Task(w)] \cup {wk[w].eval} \in SUBSET Nat
        BY <4>1 DEF TypeOK
      <4>. QED  BY <3>2, <4>1, <4>2 DEF TypeOK
    <3>. QED  BY <1>4, <3>1, <3>2 DEF EvaluationFails
  <2>. QED  BY <1>4, <2>1, <2>2, <2>3, <2>4 DEF EvaluationFails, TypeOK, WorkersTyped
<1>5. CASE ReportFails(w)
  <2>0. ~At(w, "idle")
    BY <1>5 DEF ReportFails, At
  <2>1. WorkersTyped'
    BY <1>5, <2>0, MoveTyped DEF ReportFails
  <2>2. call' \in [Calls -> [status : Statuses, audio : BOOLEAN, aged : BOOLEAN]]
    BY <1>0, <1>5, <2>0, StatusTyped DEF ReportFails, Statuses
  <2>3. /\ disturbed' \subseteq Calls
        /\ count' \in [resubmissions : Nat, recoveries : Nat, faults : Nat]
    BY <1>0, <1>5, <2>0, FaultTyped DEF ReportFails
  <2>. QED  BY <1>5, <2>1, <2>2, <2>3 DEF ReportFails, TypeOK, WorkersTyped
<1>6. CASE Die(w)
  <2>1. WorkersTyped'
    BY <1>6, MoveTyped DEF Die
  <2>2. /\ disturbed' \subseteq Calls
        /\ count' \in [resubmissions : Nat, recoveries : Nat, faults : Nat]
    BY <1>0, <1>6, FaultTyped DEF Die
  <2>. QED  BY <1>6, <2>1, <2>2 DEF Die, TypeOK, WorkersTyped
<1>. QED  BY <1>1, <1>2, <1>3, <1>4, <1>5, <1>6 DEF WorkerFault

\* Types survive a recovery.
LEMMA RecoveryTyped ==
    ASSUME TypeOK, Recovery
    PROVE  TypeOK'
<1>. USE DEF rows
<1>1. CASE FindStuck
  <2>. DEFINE reset == WithStatus("processing") \cup WithStatus("failed")
              old == {c \in WithStatus("pending") : call[c].aged}
  <2>1. reset \subseteq Calls /\ reset \cup old \subseteq Calls
    BY DEF WithStatus
  <2>2. boot' = [pc |-> "reset", reset |-> reset, chosen |-> reset \cup old]
    BY <1>1 DEF FindStuck
  <2>3. count' \in [resubmissions : Nat, recoveries : Nat, faults : Nat]
    BY <1>1 DEF FindStuck, TypeOK
  <2>. HIDE DEF reset, old
  <2>4. boot' \in [pc : {"idle", "reset", "publish"}, reset : SUBSET Calls, chosen : SUBSET Calls]
    BY <2>1, <2>2
  <2>. QED  BY <1>1, <2>3, <2>4 DEF FindStuck, TypeOK
<1>2. CASE ResetStuck
  <2>1. ASSUME NEW c \in Calls
        PROVE  [call[c] EXCEPT !.status = "pending"]
                 \in [status : Statuses, audio : BOOLEAN, aged : BOOLEAN]
    BY DEF TypeOK, Statuses
  <2>2. call' \in [Calls -> [status : Statuses, audio : BOOLEAN, aged : BOOLEAN]]
    BY <1>2, <2>1 DEF ResetStuck, TypeOK
  <2>3. boot' \in [pc : {"idle", "reset", "publish"}, reset : SUBSET Calls, chosen : SUBSET Calls]
    BY <1>2 DEF ResetStuck, TypeOK
  <2>. QED  BY <1>2, <2>2, <2>3 DEF ResetStuck, TypeOK
<1>3. ASSUME NEW c \in Calls, Requeue(c) PROVE TypeOK'
  BY <1>3 DEF Requeue, Publish, NoRecovery, TypeOK
<1>4. CASE RequeueFails
  <2>1. count' \in [resubmissions : Nat, recoveries : Nat, faults : Nat]
    BY <1>4 DEF RequeueFails, TypeOK
  <2>. QED  BY <1>4, <2>1 DEF RequeueFails, NoRecovery, TypeOK
<1>. QED  BY <1>1, <1>2, <1>3, <1>4 DEF Recovery

\* Every row, message and process keeps its type, with any number of Calls,
\* workers, messages, recoveries and faults.
THEOREM TypeCorrect == Spec => []TypeOK
<1>1. Init => TypeOK
  BY DEF Init, TypeOK, Statuses, IdleWorker, NoRecovery
<1>2. TypeOK /\ [Next]_vars => TypeOK'
  <2>1. CASE UNCHANGED vars
    BY <2>1 DEF vars, TypeOK
  <2>2. CASE Next
    BY <2>2, ArrivalTyped, WorkerStepTyped, WorkerFaultTyped, RecoveryTyped DEF Next
  <2>. QED  BY <2>1, <2>2
<1>. QED  BY <1>1, <1>2, PTL DEF Spec

-----------------------------------------------------------------------------
(* One worker stores evaluations whole.  The invariant needs what a task    *)
(* knows between its checks and its end: that the Call has no outcome, and  *)
(* from Start on that nothing of an earlier evaluation is stored.           *)

Deciding == {"admitted", "started", "transcribing", "transcribed", "evaluating"}
Cleaned == {"started", "transcribing", "transcribed", "evaluating"}

NoOutcomeYet == \A w \in Workers : wk[w].pc \in Deciding => ~Evaluated(Task(w))

NothingLeft == \A w \in Workers : wk[w].pc \in Cleaned => parts[Task(w)] = {}

WholeEvaluations == TypeOK /\ NoOutcomeYet /\ NothingLeft /\ EvaluationIsWhole

OneWorker == \A v, w \in Workers : v = w

\* Steps that touch neither the evaluation records nor the workers.
LEMMA OutsideStep ==
    ASSUME WholeEvaluations, TypeOK', UNCHANGED << parts, outcome, wk >>
    PROVE  WholeEvaluations'
BY DEF WholeEvaluations, NoOutcomeYet, NothingLeft, EvaluationIsWhole, Evaluated, Task

\* Steps that leave the evaluation records alone and move one worker to a
\* place where it knows no more than before.
LEMMA MoveStep ==
    ASSUME WholeEvaluations, TypeOK', UNCHANGED << parts, outcome >>,
           NEW w \in Workers, \A v \in Workers : v # w => wk'[v] = wk[v],
           wk'[w].pc \in Deciding => wk'[w].call = wk[w].call /\ ~Evaluated(Task(w)),
           wk'[w].pc \in Cleaned => parts[Task(w)] = {}
    PROVE  WholeEvaluations'
<1>1. NoOutcomeYet'
  BY DEF WholeEvaluations, NoOutcomeYet, Evaluated, Task
<1>2. NothingLeft'
  BY DEF WholeEvaluations, NothingLeft, Task, Cleaned, Deciding
<1>3. EvaluationIsWhole'
  BY DEF WholeEvaluations, EvaluationIsWhole, Evaluated
<1>. QED  BY <1>1, <1>2, <1>3 DEF WholeEvaluations

\* What a step of worker w leaves of the others, and where it puts w.
LEMMA Moves ==
    ASSUME TypeOK, NEW w \in Workers
    PROVE  /\ Finish(w) => /\ \A v \in Workers : v # w => wk'[v] = wk[v]
                           /\ wk'[w].pc = "idle"
           /\ \A pc \in {"admitted", "transcribing", "transcribed", "evaluating", "closing"} :
                 GoTo(w, pc) \/ ReadAgain(w, pc) =>
                    /\ \A v \in Workers : v # w => wk'[v] = wk[v]
                    /\ wk'[w].pc = pc /\ wk'[w].call = wk[w].call
BY DEF TypeOK, Finish, IdleWorker, GoTo, ReadAgain

\* The only steps that write evaluation records belong to the one worker.
LEMMA WholeStep ==
    ASSUME OneWorker, WholeEvaluations, TypeOK', NEW w \in Workers,
           WorkerStep(w) \/ WorkerFault(w)
    PROVE  WholeEvaluations'
<1>. USE DEF rows
<1>0. /\ TypeOK
      /\ wk[w].pc \in Deciding => ~Evaluated(Task(w))
      /\ wk[w].pc \in Cleaned => parts[Task(w)] = {}
      /\ \A v \in Workers : v = w
  BY DEF WholeEvaluations, NoOutcomeYet, NothingLeft, OneWorker
<1>. USE DEF Deciding, Cleaned, At
<1>1. ASSUME NEW c \in Calls, Receive(w, c) PROVE WholeEvaluations'
  <2>1. wk'[w].pc = "fetched"
    BY <1>1, <1>0 DEF Receive, TypeOK
  <2>. QED  BY <1>0, <1>1, <2>1, MoveStep DEF Receive
<1>2. CASE AlreadyEvaluated(w)
  BY <1>0, <1>2, Moves, MoveStep DEF AlreadyEvaluated
<1>3. CASE AudioMissing(w)
  BY <1>0, <1>3, Moves, MoveStep DEF AudioMissing
<1>4. CASE Admit(w)
  <2>1. CASE Finish(w)
    BY <1>0, <1>4, <2>1, Moves, MoveStep DEF Admit
  <2>2. CASE GoTo(w, "admitted")
    <3>1. /\ \A v \in Workers : v # w => wk'[v] = wk[v]
          /\ wk'[w].pc = "admitted" /\ wk'[w].call = wk[w].call
      BY <1>0, <2>2, Moves
    <3>. QED  BY <1>4, <3>1, MoveStep DEF Admit
  <2>. QED  BY <1>4, <2>1, <2>2 DEF Admit
<1>5. CASE Start(w)
  <2>1. /\ Task(w) \in Calls /\ ~Evaluated(Task(w))
        /\ wk'[w].pc = "started" /\ wk'[w].call = Task(w)
        /\ parts' = [parts EXCEPT ![Task(w)] = {}] /\ outcome' = outcome
    BY <1>0, <1>5 DEF Start, TypeOK, Task
  <2>2. NoOutcomeYet'
    BY <1>0, <2>1 DEF NoOutcomeYet, Evaluated, Task
  <2>3. NothingLeft'
    BY <1>0, <2>1 DEF NothingLeft, Task, TypeOK
  <2>4. EvaluationIsWhole'
    BY <1>0, <2>1 DEF WholeEvaluations, EvaluationIsWhole, Evaluated, TypeOK
  <2>. QED  BY <2>2, <2>3, <2>4 DEF WholeEvaluations
<1>6. CASE BeginTranscription(w)
  <2>1. /\ \A v \in Workers : v # w => wk'[v] = wk[v]
        /\ wk'[w].pc = "transcribing" /\ wk'[w].call = wk[w].call
    BY <1>0, <1>6, Moves DEF BeginTranscription
  <2>. QED  BY <1>0, <1>6, <2>1, MoveStep DEF BeginTranscription
<1>7. CASE Transcribe(w)
  <2>1. /\ \A v \in Workers : v # w => wk'[v] = wk[v]
        /\ wk'[w].pc = "transcribed" /\ wk'[w].call = wk[w].call
    BY <1>0, <1>7, Moves DEF Transcribe
  <2>. QED  BY <1>0, <1>7, <2>1, MoveStep DEF Transcribe
<1>8. CASE BeginEvaluation(w)
  <2>1. /\ \A v \in Workers : v # w => wk'[v] = wk[v]
        /\ wk'[w].pc = "evaluating" /\ wk'[w].call = wk[w].call
    BY <1>0, <1>8, Moves DEF BeginEvaluation
  <2>. QED  BY <1>0, <1>8, <2>1, MoveStep DEF BeginEvaluation
<1>9. CASE Evaluate(w)
  <2>1. /\ Task(w) \in Calls /\ ~Evaluated(Task(w)) /\ parts[Task(w)] = {}
    BY <1>0, <1>9 DEF Evaluate, TypeOK, Task
  <2>2. /\ parts' = [parts EXCEPT ![Task(w)] = {wk[w].eval}]
        /\ outcome' = [outcome EXCEPT ![Task(w)] = wk[w].eval]
        /\ wk'[w].pc = "closing"
    BY <1>0, <1>9, <2>1, Moves DEF Evaluate
  <2>3. NoOutcomeYet' /\ NothingLeft'
    BY <1>0, <2>2 DEF NoOutcomeYet, NothingLeft
  <2>4. EvaluationIsWhole'
    BY <1>0, <2>1, <2>2 DEF WholeEvaluations, EvaluationIsWhole, Evaluated, TypeOK
  <2>. QED  BY <2>3, <2>4 DEF WholeEvaluations
<1>10. CASE Close(w)
  BY <1>0, <1>10, Moves, MoveStep DEF Close
<1>11. ASSUME NEW c \in Calls, DropMessage(w, c) PROVE WholeEvaluations'
  BY <1>11, OutsideStep DEF DropMessage
<1>12. CASE DiskFull(w)
  BY <1>0, <1>12, Moves, MoveStep DEF DiskFull
<1>13. CASE TranscriptionFails(w)
  BY <1>0, <1>13, Moves, MoveStep DEF TranscriptionFails
<1>14. CASE EvaluationFails(w)
  <2>1. /\ Task(w) \in Calls /\ ~Evaluated(Task(w))
    BY <1>0, <1>14 DEF EvaluationFails, TypeOK, Task
  <2>2. wk'[w].pc = "closing"
    BY <1>0, <1>14, Moves DEF EvaluationFails
  <2>3. NoOutcomeYet' /\ NothingLeft'
    BY <1>0, <2>2 DEF NoOutcomeYet, NothingLeft
  <2>4. ASSUME NEW c \in Calls, Evaluated(c)'
        PROVE  (parts[c] = {outcome[c]})'
    <3>1. c # Task(w) /\ Evaluated(c) /\ outcome' = outcome
      BY <1>14, <2>1, <2>4 DEF EvaluationFails, Evaluated
    <3>2. parts'[c] = parts[c]
      BY <1>0, <1>14, <3>1 DEF EvaluationFails, TypeOK
    <3>. QED  BY <3>1, <3>2 DEF WholeEvaluations, EvaluationIsWhole
  <2>. QED  BY <2>3, <2>4 DEF WholeEvaluations, EvaluationIsWhole
<1>15. CASE ReportFails(w)
  <2>1. wk'[w].pc \in {"idle", "closing"} /\ \A v \in Workers : v # w => wk'[v] = wk[v]
    BY <1>0, <1>15, Moves DEF ReportFails
  <2>. QED  BY <1>0, <1>15, <2>1, MoveStep DEF ReportFails
<1>16. CASE Die(w)
  BY <1>0, <1>16, Moves, MoveStep DEF Die
<1>. QED
  BY <1>1, <1>2, <1>3, <1>4, <1>5, <1>6, <1>7, <1>8, <1>9, <1>10, <1>11, <1>12, <1>13,
     <1>14, <1>15, <1>16 DEF WorkerStep, WorkerFault

\* The inductive invariant holds at the start.
LEMMA WholeFromTheStart == Init => WholeEvaluations
<1>1. Init => TypeOK
  BY DEF Init, TypeOK, Statuses, IdleWorker, NoRecovery
<1>. QED
  BY <1>1 DEF Init, WholeEvaluations, NoOutcomeYet, NothingLeft, EvaluationIsWhole,
     Evaluated, IdleWorker, Deciding, Cleaned

\* With one worker every step keeps it.
LEMMA WholeStays ==
    ASSUME OneWorker, WholeEvaluations, TypeOK', [Next]_vars
    PROVE  WholeEvaluations'
<1>1. CASE UNCHANGED vars
  BY <1>1, OutsideStep DEF vars
<1>2. ASSUME NEW c \in Calls, Arrival(c) PROVE WholeEvaluations'
  BY <1>2, OutsideStep DEF Arrival, StoreCall, PublishCall, PublishCallFails, Resubmit,
     GrowOld, rows
<1>3. CASE Recovery
  BY <1>3, OutsideStep DEF Recovery, FindStuck, ResetStuck, Requeue, RequeueFails, rows
<1>. QED  BY <1>1, <1>2, <1>3, WholeStep DEF Next

\* With one process on the "celery" queue an outcome always comes with the
\* records of its own evaluation and of no other: repeated messages, dying
\* tasks, failing evaluations and recoveries never mix or lose them.
THEOREM OneWorkerEvaluatesWhole == OneWorker => (Spec => []EvaluationIsWhole)
<1>. SUFFICES ASSUME OneWorker PROVE Spec => []EvaluationIsWhole
  OBVIOUS
<1>1. WholeEvaluations /\ TypeOK' /\ [Next]_vars => WholeEvaluations'
  BY WholeStays
<1>2. WholeEvaluations => EvaluationIsWhole
  BY DEF WholeEvaluations
<1>. QED  BY WholeFromTheStart, <1>1, <1>2, TypeCorrect, PTL DEF Spec

-----------------------------------------------------------------------------
(* One worker leaves no Call without an answer.  A Call is accounted for   *)
(* in one of three ways: something will still come for it (or a fault has   *)
(* swallowed what should have), its status already tells the outcome, or    *)
(* the worker has it in hand and has not yet written how the task ended.    *)

Coming(c) ==
    c \in disturbed \/ queue[c] > 0 \/ upload[c] # None \/ c \in boot.chosen

Told(c) == call[c].status \in (IF Evaluated(c) THEN {"evaluated"} ELSE {"absent", "failed"})

InHand(c) == \E w \in Workers : Task(w) = c /\ wk[w].pc \notin {"idle", "closing"}

Accounted == \A c \in Calls : Coming(c) \/ Told(c) \/ InHand(c)

\* SetStatus writes nothing when the status read is the one to write: it is
\* still the status of the row, or a recovery has reset the row and queued it.
Reading == {"fetched", "admitted", "transcribing", "evaluating"}

SeenIsTrue ==
    \A w \in Workers : wk[w].pc \in Reading =>
        Coming(Task(w)) \/ wk[w].seen = call[Task(w)].status

\* EVALUATED is written, and so read, only with the outcome.
OutcomeFirst ==
    /\ \A c \in Calls : call[c].status = "evaluated" => Evaluated(c)
    /\ \A w \in Workers : wk[w].pc # "idle" /\ wk[w].seen = "evaluated" => Evaluated(Task(w))

Numbered == \A w \in Workers : wk[w].pc \in Cleaned => wk[w].eval # 0

\* The recovery resets before it queues, and queues every Call it resets.
ResetIsChosen ==
    /\ boot.reset \subseteq boot.chosen
    /\ boot.pc = "publish" => boot.reset = {}

EveryCallTold == Accounted /\ SeenIsTrue /\ OutcomeFirst /\ Numbered /\ ResetIsChosen

Settling == WholeEvaluations /\ EveryCallTold

\* Steps that leave the workers and the outcomes alone, take nothing away
\* that is coming, and change a status only where something is coming.
LEMMA OutsideTells ==
    ASSUME Settling, UNCHANGED << wk, outcome >>,
           \A c \in Calls : Coming(c) => Coming(c)',
           \A c \in Calls : Coming(c)' \/ call'[c].status = call[c].status,
           \A c \in Calls : call'[c].status = "evaluated" => call[c].status = "evaluated",
           ResetIsChosen'
    PROVE  EveryCallTold'
<1>1. TypeOK
  BY DEF Settling, WholeEvaluations
<1>2. Accounted'
  <2>. SUFFICES ASSUME NEW c \in Calls, ~Coming(c)' PROVE Told(c)' \/ InHand(c)'
    BY DEF Accounted
  <2>1. ~Coming(c) /\ call'[c].status = call[c].status
    OBVIOUS
  <2>2. Told(c) \/ InHand(c)
    BY <2>1 DEF Settling, EveryCallTold, Accounted
  <2>3. Told(c) => Told(c)'
    BY <2>1 DEF Told, Evaluated
  <2>4. InHand(c) => InHand(c)'
    BY DEF InHand, Task
  <2>. QED  BY <2>2, <2>3, <2>4
<1>3. SeenIsTrue'
  <2>. SUFFICES ASSUME NEW w \in Workers, wk[w].pc \in Reading
                PROVE  Coming(Task(w))' \/ wk[w].seen = call'[Task(w)].status
    BY DEF SeenIsTrue, Task
  <2>1. Task(w) \in Calls
    BY <1>1 DEF TypeOK, Task, Reading
  <2>2. Coming(Task(w)) \/ wk[w].seen = call[Task(w)].status
    BY DEF Settling, EveryCallTold, SeenIsTrue
  <2>3. PICK c \in Calls : c = Task(w)
    BY <2>1
  <2>4. Coming(c)' \/ wk[w].seen = call'[c].status
    BY <2>2, <2>3
  <2>5. c = Task(w)'
    BY <2>3 DEF Task
  <2>. QED  BY <2>3, <2>4, <2>5 DEF Coming
<1>4. OutcomeFirst'
  BY DEF Settling, EveryCallTold, OutcomeFirst, Evaluated, Task
<1>5. Numbered'
  BY DEF Settling, EveryCallTold, Numbered
<1>. QED  BY <1>2, <1>3, <1>4, <1>5 DEF EveryCallTold

\* What a task's write leaves in its row, when the status it read is true.
LEMMA StatusTells ==
    ASSUME Settling, NEW w \in Workers, wk[w].pc \in Reading, NEW s, SetStatus(w, s)
    PROVE  /\ Coming(Task(w)) \/ call'[Task(w)].status = s
           /\ call'[Task(w)].status \in {s, call[Task(w)].status}
           /\ \A c \in Calls : c # Task(w) => call'[c].status = call[c].status
<1>1. Task(w) \in Calls /\ TypeOK
  BY DEF Settling, WholeEvaluations, TypeOK, Task, Reading
<1>2. Coming(Task(w)) \/ wk[w].seen = call[Task(w)].status
  BY DEF Settling, EveryCallTold, SeenIsTrue
<1>. QED  BY <1>1, <1>2 DEF SetStatus, TypeOK

\* A step of the one worker on its own Call: the Call stays in hand, or
\* something is coming for it, or its status tells how the task ended.
LEMMA TaskTells ==
    ASSUME OneWorker, Settling, NEW w \in Workers, wk[w].pc # "idle",
           UNCHANGED << queue, upload, boot >>, disturbed \subseteq disturbed',
           \A c \in Calls : c # Task(w) =>
               call'[c].status = call[c].status /\ outcome'[c] = outcome[c],
           call'[Task(w)].status = "evaluated" => outcome'[Task(w)] # 0,
           \/ call'[Task(w)].status \in
                 (IF outcome'[Task(w)] # 0 THEN {"evaluated"} ELSE {"absent", "failed"})
           \/ Coming(Task(w)) \/ Task(w) \in disturbed'
           \/ wk'[w].pc \notin {"idle", "closing"},
           wk'[w].pc # "idle" => /\ wk'[w].call = wk[w].call
                                 /\ wk'[w].seen = "evaluated" => outcome'[Task(w)] # 0,
           wk'[w].pc \in Reading => Coming(Task(w)) \/ wk'[w].seen = call'[Task(w)].status,
           wk'[w].pc \in Cleaned => wk'[w].eval # 0
    PROVE  EveryCallTold'
<1>1. /\ TypeOK /\ Task(w) \in Calls
      /\ \A v \in Workers : v = w
  BY DEF Settling, WholeEvaluations, TypeOK, Task, OneWorker
<1>2. \A c \in Calls : Coming(c) => Coming(c)'
  BY DEF Coming
<1>3. \A c \in Calls : c \in disturbed' => Coming(c)'
  BY DEF Coming
<1>4. Accounted'
  <2>. SUFFICES ASSUME NEW c \in Calls, ~Coming(c)' PROVE Told(c)' \/ InHand(c)'
    BY DEF Accounted
  <2>1. CASE c = Task(w)
    <3>1. Told(c)' \/ wk'[w].pc \notin {"idle", "closing"}
      BY <1>1, <1>2, <1>3, <2>1 DEF Told, Evaluated
    <3>2. wk'[w].pc \notin {"idle", "closing"} => InHand(c)'
      BY <2>1 DEF InHand, Task
    <3>. QED  BY <3>1, <3>2
  <2>2. CASE c # Task(w)
    <3>1. ~InHand(c) /\ ~Coming(c)
      BY <1>1, <1>2, <2>2 DEF InHand
    <3>2. Told(c)
      BY <3>1 DEF Settling, EveryCallTold, Accounted
    <3>. QED  BY <2>2, <3>2 DEF Told, Evaluated
  <2>. QED  BY <2>1, <2>2
<1>5. SeenIsTrue'
  <2>. SUFFICES ASSUME wk'[w].pc \in Reading
                PROVE  Coming(Task(w))' \/ wk'[w].seen = call'[Task(w)'].status
    BY <1>1 DEF SeenIsTrue
  <2>1. Task(w)' = Task(w)
    BY DEF Task, Reading
  <2>2. PICK c \in Calls : c = Task(w)
    BY <1>1
  <2>3. Coming(c)' \/ wk'[w].seen = call'[c].status
    BY <1>2, <2>2
  <2>. QED  BY <2>1, <2>2, <2>3 DEF Coming
<1>6. OutcomeFirst'
  BY <1>1 DEF Settling, EveryCallTold, OutcomeFirst, Evaluated, Task
<1>7. Numbered'
  BY <1>1 DEF Numbered
<1>8. ResetIsChosen'
  BY DEF Settling, EveryCallTold, ResetIsChosen
<1>. QED  BY <1>4, <1>5, <1>6, <1>7, <1>8 DEF EveryCallTold

\* What a task knows of its Call before each of its steps.
LEMMA TaskKnows ==
    ASSUME Settling, NEW w \in Workers, wk[w].pc # "idle"
    PROVE  /\ TypeOK /\ Task(w) \in Calls /\ wk[w].call = Task(w)
           /\ wk[w].seen = "evaluated" => outcome[Task(w)] # 0
           /\ call[Task(w)].status = "evaluated" => outcome[Task(w)] # 0
           /\ wk[w].pc \in Deciding => outcome[Task(w)] = 0
           /\ wk[w].pc \in Cleaned => wk[w].eval # 0
           /\ wk[w].pc \in Reading =>
                 Coming(Task(w)) \/ wk[w].seen = call[Task(w)].status
           /\ wk[w].pc = "closing" =>
                 \/ Coming(Task(w))
                 \/ call[Task(w)].status \in
                      (IF outcome[Task(w)] # 0 THEN {"evaluated"} ELSE {"absent", "failed"})
                 \/ ~OneWorker
<1>1. TypeOK /\ Task(w) \in Calls /\ wk[w].call = Task(w)
  BY DEF Settling, WholeEvaluations, TypeOK, Task
<1>2. ASSUME wk[w].pc = "closing", OneWorker
      PROVE  Coming(Task(w)) \/ Told(Task(w))
  <2>1. ~InHand(Task(w))
    BY <1>2 DEF InHand, OneWorker
  <2>. QED  BY <1>1, <2>1 DEF Settling, EveryCallTold, Accounted
<1>. QED
  BY <1>1, <1>2 DEF Settling, WholeEvaluations, NoOutcomeYet, EveryCallTold, OutcomeFirst, Numbered,
     SeenIsTrue, Told, Evaluated

\* Where a step of worker w leaves its own record.
LEMMA Goes ==
    ASSUME TypeOK, NEW w \in Workers
    PROVE  /\ Finish(w) => wk'[w].pc = "idle"
           /\ \A pc \in {"admitted", "transcribing", "transcribed", "evaluating", "closing"} :
                 /\ GoTo(w, pc) => /\ wk'[w].pc = pc /\ wk'[w].call = wk[w].call
                                   /\ wk'[w].seen = wk[w].seen /\ wk'[w].eval = wk[w].eval
                 /\ ReadAgain(w, pc) => /\ wk'[w].pc = pc /\ wk'[w].call = wk[w].call
                                        /\ wk'[w].seen = call[Task(w)].status
                                        /\ wk'[w].eval = wk[w].eval
BY DEF TypeOK, Finish, IdleWorker, GoTo, ReadAgain

\* A task ends by writing a status that tells its outcome.
LEMMA TaskEnds ==
    ASSUME OneWorker, Settling, NEW w \in Workers, wk[w].pc \in Reading,
           NEW s \in {"evaluated", "failed"}, SetStatus(w, s), GoTo(w, "closing"),
           UNCHANGED << queue, upload, boot, outcome >>, disturbed \subseteq disturbed',
           (s = "evaluated" <=> Evaluated(Task(w))) \/ Task(w) \in disturbed',
           s = "evaluated" => Evaluated(Task(w))
    PROVE  EveryCallTold'
BY TaskKnows, Goes, StatusTells, TaskTells DEF Reading, Cleaned, Evaluated

\* The steps of the task leave every Call accounted for.
LEMMA WorkerTells ==
    ASSUME OneWorker, Settling, TypeOK', NEW w \in Workers, WorkerStep(w)
    PROVE  EveryCallTold'
<1>. USE DEF rows
<1>0. TypeOK
  BY DEF Settling, WholeEvaluations
<1>1. ASSUME NEW c \in Calls, Receive(w, c) PROVE EveryCallTold'
  <2>1. /\ queue' = [queue EXCEPT ![c] = @ - 1] /\ disturbed' = disturbed \ {c}
        /\ UNCHANGED << call, outcome, upload, boot >>
        /\ wk[w].pc = "idle"
    BY <1>1 DEF Receive, At
  <2>2. wk'[w] = [pc |-> "fetched", call |-> c, seen |-> call[c].status, eval |-> 0]
    BY <1>0, <1>1 DEF Receive, TypeOK
  <2>3. wk'[w].pc = "fetched" /\ Task(w)' = c /\ wk'[w].seen = call[c].status
    BY <2>2 DEF Task
  <2>4. \A v \in Workers : v = w
    BY DEF OneWorker
  <2>5. Accounted'
    <3>. SUFFICES ASSUME NEW d \in Calls, d # c, ~Coming(d)' PROVE Told(d)'
      BY <2>3 DEF Accounted, InHand
    <3>1. ~Coming(d) /\ ~InHand(d)
      BY <1>0, <2>1, <2>4 DEF Coming, InHand, TypeOK
    <3>2. Told(d)
      BY <3>1 DEF Settling, EveryCallTold, Accounted
    <3>. QED  BY <2>1, <3>2 DEF Told, Evaluated
  <2>6. SeenIsTrue'
    BY <2>1, <2>3, <2>4 DEF SeenIsTrue
  <2>7. OutcomeFirst'
    BY <2>1, <2>3, <2>4 DEF Settling, EveryCallTold, OutcomeFirst, Evaluated
  <2>8. Numbered' /\ ResetIsChosen'
    BY <2>1, <2>3, <2>4 DEF Settling, EveryCallTold, Numbered, ResetIsChosen, Cleaned
  <2>. QED  BY <2>5, <2>6, <2>7, <2>8 DEF EveryCallTold
<1>2. CASE AlreadyEvaluated(w)
  BY <1>2, TaskEnds DEF AlreadyEvaluated, At, Reading
<1>3. CASE AudioMissing(w)
  BY <1>3, TaskEnds DEF AudioMissing, At, Reading
<1>4. CASE Admit(w)
  <2>1. wk[w].pc = "fetched" /\ outcome[Task(w)] = 0 /\ wk[w].seen # "evaluated"
    BY <1>4, TaskKnows DEF Admit, At, Evaluated
  <2>2. wk'[w].pc = "admitted" /\ wk'[w].call = wk[w].call /\ wk'[w].seen = wk[w].seen
    BY <1>0, <1>4, <2>1, Goes DEF Admit
  <2>. QED
    BY <1>4, <2>1, <2>2, TaskKnows, TaskTells DEF Admit, Reading, Cleaned
<1>5. CASE Start(w)
  <2>1. wk[w].pc = "admitted" /\ wk[w].pc \in Reading
    BY <1>5 DEF Start, At, Reading
  <2>2. /\ Task(w) \in Calls /\ wk'[w].pc = "started" /\ wk'[w].call = wk[w].call
        /\ wk'[w].seen = wk[w].seen /\ wk'[w].eval = tasks[Task(w)] + 1
    BY <1>0, <1>5, <2>1, TaskKnows DEF Start, TypeOK
  <2>3. wk'[w].eval # 0
    BY <1>0, <2>2 DEF TypeOK
  <2>4. /\ call'[Task(w)].status \in {"processing", call[Task(w)].status}
        /\ \A c \in Calls : c # Task(w) => call'[c].status = call[c].status
    BY <1>5, <2>1, StatusTells DEF Start
  <2>. QED
    BY <1>5, <2>1, <2>2, <2>3, <2>4, TaskKnows, TaskTells DEF Start, Reading, Cleaned
<1>6. CASE BeginTranscription(w)
  <2>1. wk[w].pc = "started"
    BY <1>6 DEF BeginTranscription, At
  <2>2. /\ wk'[w].pc = "transcribing" /\ wk'[w].call = wk[w].call
        /\ wk'[w].seen = call[Task(w)].status /\ wk'[w].eval = wk[w].eval
    BY <1>0, <1>6, Goes DEF BeginTranscription
  <2>. QED
    BY <1>6, <2>1, <2>2, TaskKnows, TaskTells DEF BeginTranscription, Reading, Cleaned
<1>7. CASE Transcribe(w)
  <2>1. wk[w].pc = "transcribing" /\ wk[w].pc \in Reading
    BY <1>7 DEF Transcribe, At, Reading
  <2>2. /\ wk'[w].pc = "transcribed" /\ wk'[w].call = wk[w].call
        /\ wk'[w].seen = wk[w].seen /\ wk'[w].eval = wk[w].eval
    BY <1>0, <1>7, Goes DEF Transcribe
  <2>3. /\ call'[Task(w)].status \in {"transcribed", call[Task(w)].status}
        /\ \A c \in Calls : c # Task(w) => call'[c].status = call[c].status
    BY <1>7, <2>1, StatusTells DEF Transcribe
  <2>. QED
    BY <1>7, <2>1, <2>2, <2>3, TaskKnows, TaskTells DEF Transcribe, Reading, Cleaned
<1>8. CASE BeginEvaluation(w)
  <2>1. wk[w].pc = "transcribed"
    BY <1>8 DEF BeginEvaluation, At
  <2>2. /\ wk'[w].pc = "evaluating" /\ wk'[w].call = wk[w].call
        /\ wk'[w].seen = call[Task(w)].status /\ wk'[w].eval = wk[w].eval
    BY <1>0, <1>8, Goes DEF BeginEvaluation
  <2>. QED
    BY <1>8, <2>1, <2>2, TaskKnows, TaskTells DEF BeginEvaluation, Reading, Cleaned
<1>9. CASE Evaluate(w)
  <2>1. /\ wk[w].pc = "evaluating" /\ wk[w].pc \in Reading
        /\ outcome[Task(w)] = 0 /\ wk[w].eval # 0 /\ Task(w) \in Calls
    BY <1>9, TaskKnows DEF Evaluate, At, Reading, Deciding, Cleaned
  <2>2. /\ outcome' = [outcome EXCEPT ![Task(w)] = wk[w].eval]
        /\ SetStatus(w, "evaluated") /\ GoTo(w, "closing")
        /\ UNCHANGED << queue, upload, boot, disturbed >>
    BY <1>9, <2>1 DEF Evaluate, Evaluated
  <2>3. wk'[w].pc = "closing" /\ wk'[w].call = wk[w].call
    BY <1>0, <2>2, Goes
  <2>4. /\ outcome'[Task(w)] # 0
        /\ \A c \in Calls : c # Task(w) => outcome'[c] = outcome[c]
    BY <1>0, <2>1, <2>2 DEF TypeOK
  <2>. QED
    BY <2>1, <2>2, <2>3, <2>4, StatusTells, TaskTells DEF Reading, Cleaned
<1>10. CASE Close(w)
  <2>1. wk[w].pc = "closing" /\ wk'[w].pc = "idle"
    BY <1>0, <1>10, Goes DEF Close, At
  <2>. QED
    BY <1>10, <2>1, TaskKnows, TaskTells DEF Close, Reading, Cleaned
<1>. QED
  BY <1>1, <1>2, <1>3, <1>4, <1>5, <1>6, <1>7, <1>8, <1>9, <1>10 DEF WorkerStep

\* So do its faults: what they swallow is disturbed.
LEMMA FaultTells ==
    ASSUME OneWorker, Settling, TypeOK', NEW w \in Workers, WorkerFault(w)
    PROVE  EveryCallTold'
<1>. USE DEF rows
<1>0. TypeOK
  BY DEF Settling, WholeEvaluations
<1>1. ASSUME NEW c \in Calls, DropMessage(w, c) PROVE EveryCallTold'
  <2>1. /\ queue' = [queue EXCEPT ![c] = @ - 1] /\ disturbed' = disturbed \cup {c}
        /\ UNCHANGED << call, outcome, upload, wk, boot >>
    BY <1>1 DEF DropMessage, FaultAt
  <2>2. \A d \in Calls : Coming(d) => Coming(d)'
    BY <1>0, <2>1 DEF Coming, TypeOK
  <2>3. ResetIsChosen'
    BY <2>1 DEF Settling, EveryCallTold, ResetIsChosen
  <2>. QED  BY <2>1, <2>2, <2>3, OutsideTells
<1>2. CASE DiskFull(w)
  BY <1>2, TaskKnows, Goes, StatusTells, TaskTells
     DEF DiskFull, FaultAt, At, Reading, Cleaned
<1>3. CASE TranscriptionFails(w)
  <2>1. wk[w].pc = "transcribing" /\ outcome[Task(w)] = 0
    BY <1>3, TaskKnows DEF TranscriptionFails, At, Deciding
  <2>. QED
    BY <1>3, <2>1, TaskEnds DEF TranscriptionFails, FaultReported, Reading, Evaluated
<1>4. CASE EvaluationFails(w)
  <2>1. wk[w].pc = "evaluating" /\ outcome[Task(w)] = 0
    BY <1>4, TaskKnows DEF EvaluationFails, At, Deciding
  <2>. QED
    BY <1>4, <2>1, TaskEnds DEF EvaluationFails, FaultReported, Reading, Evaluated
<1>5. CASE ReportFails(w)
  <2>1. /\ wk[w].pc \in {"started", "transcribed", "closing"}
        /\ call' = [call EXCEPT ![Task(w)].status = "failed"]
        /\ Task(w) \in disturbed' /\ disturbed \subseteq disturbed'
        /\ UNCHANGED << outcome, queue, upload, boot >>
        /\ Task(w) \in Calls
    BY <1>5, TaskKnows DEF ReportFails, OverwriteStatus, FaultAt
  <2>2. /\ call'[Task(w)].status = "failed"
        /\ \A c \in Calls : c # Task(w) => call'[c].status = call[c].status
    BY <1>0, <2>1 DEF TypeOK
  <2>3. \/ wk'[w].pc = "idle"
        \/ wk'[w].pc = "closing" /\ wk'[w].call = wk[w].call /\ wk'[w].seen = wk[w].seen
    BY <1>0, <1>5, Goes DEF ReportFails
  <2>. QED
    BY <2>1, <2>2, <2>3, TaskKnows, TaskTells DEF Reading, Cleaned
<1>6. CASE Die(w)
  <2>1. wk[w].pc # "idle" /\ wk'[w].pc = "idle"
    BY <1>0, <1>6, Goes DEF Die, At
  <2>. QED
    BY <1>6, <2>1, TaskKnows, TaskTells DEF Die, FaultAt, Reading, Cleaned
<1>. QED  BY <1>1, <1>2, <1>3, <1>4, <1>5, <1>6 DEF WorkerFault

\* Calls that arrive are published, and the recovery publishes what it resets.
LEMMA OthersTell ==
    ASSUME Settling, TypeOK',
           (\E c \in Calls : Arrival(c)) \/ Recovery \/ UNCHANGED vars
    PROVE  EveryCallTold'
<1>. USE DEF rows
<1>0. TypeOK /\ ResetIsChosen
  BY DEF Settling, WholeEvaluations, EveryCallTold
<1>1. ASSUME NEW c \in Calls, NEW e \in Endpoints, StoreCall(c, e) PROVE EveryCallTold'
  BY <1>0, <1>1, OutsideTells, PipelineAssumption DEF StoreCall, Coming, ResetIsChosen, TypeOK
<1>2. ASSUME NEW c \in Calls, PublishCall(c) PROVE EveryCallTold'
  BY <1>0, <1>2, OutsideTells DEF PublishCall, Publish, Coming, ResetIsChosen, TypeOK
<1>3. ASSUME NEW c \in Calls, PublishCallFails(c) PROVE EveryCallTold'
  <2>1. \A d \in Calls : call'[d].status = call[d].status
    BY <1>0, <1>3 DEF PublishCallFails, TypeOK
  <2>. QED
    BY <1>0, <1>3, <2>1, OutsideTells
       DEF PublishCallFails, FaultAt, Coming, ResetIsChosen, TypeOK
<1>4. ASSUME NEW c \in Calls, Resubmit(c) PROVE EveryCallTold'
  BY <1>0, <1>4, OutsideTells DEF Resubmit, Publish, Coming, ResetIsChosen, TypeOK
<1>5. ASSUME NEW c \in Calls, GrowOld(c) PROVE EveryCallTold'
  <2>1. \A d \in Calls : call'[d].status = call[d].status
    BY <1>0, <1>5 DEF GrowOld, TypeOK
  <2>. QED
    BY <1>0, <1>5, <2>1, OutsideTells DEF GrowOld, Coming, ResetIsChosen
<1>6. CASE FindStuck
  <2>1. boot = NoRecovery /\ boot'.reset \subseteq boot'.chosen /\ boot'.pc = "reset"
    BY <1>6 DEF FindStuck
  <2>. QED
    BY <1>6, <2>1, OutsideTells DEF FindStuck, NoRecovery, Coming, ResetIsChosen
<1>7. CASE ResetStuck
  <2>1. boot'.chosen = boot.chosen /\ boot'.reset = {}
    BY <1>0, <1>7 DEF ResetStuck, TypeOK
  <2>2. ASSUME NEW c \in Calls
        PROVE  /\ c \in boot.reset => call'[c].status = "pending"
               /\ c \notin boot.reset => call'[c].status = call[c].status
    BY <1>0, <1>7 DEF ResetStuck, TypeOK
  <2>. QED
    BY <1>0, <1>7, <2>1, <2>2, OutsideTells DEF ResetStuck, Coming, ResetIsChosen
<1>8. ASSUME NEW c \in Calls, Requeue(c) PROVE EveryCallTold'
  <2>1. \A d \in boot.chosen : d # c => d \in boot'.chosen
    BY <1>0, <1>8 DEF Requeue, NoRecovery, TypeOK
  <2>2. ResetIsChosen'
    BY <1>0, <1>8 DEF Requeue, NoRecovery, ResetIsChosen, TypeOK
  <2>3. queue'[c] > 0 /\ \A d \in Calls : queue'[d] >= queue[d]
    BY <1>0, <1>8 DEF Requeue, Publish, TypeOK
  <2>. QED
    BY <1>0, <1>8, <2>1, <2>2, <2>3, OutsideTells DEF Requeue, Coming, TypeOK
<1>9. CASE RequeueFails
  BY <1>0, <1>9, OutsideTells DEF RequeueFails, NoRecovery, Coming, ResetIsChosen, TypeOK
<1>10. CASE UNCHANGED vars
  BY <1>0, <1>10, OutsideTells DEF vars, Coming, ResetIsChosen
<1>. QED
  BY <1>1, <1>2, <1>3, <1>4, <1>5, <1>6, <1>7, <1>8, <1>9, <1>10 DEF Arrival, Recovery

\* With one process on the "celery" queue a Call at rest that no fault cut
\* short is evaluated with its outcome or failed without one, whatever was
\* resubmitted, recovered, dropped or killed before.
THEOREM RestingCallsTold == OneWorker => (Spec => []RestingCallsAreTold)
<1>. SUFFICES ASSUME OneWorker PROVE Spec => []RestingCallsAreTold
  OBVIOUS
<1>1. Init => Settling
  <2>1. Init => WholeEvaluations
    BY WholeFromTheStart
  <2>2. Init => EveryCallTold
    BY DEF Init, EveryCallTold, Accounted, Told, SeenIsTrue, OutcomeFirst, Numbered,
       ResetIsChosen, Evaluated, IdleWorker, NoRecovery, Reading, Cleaned
  <2>. QED  BY <2>1, <2>2 DEF Settling
<1>2. Settling /\ TypeOK' /\ [Next]_vars => Settling'
  <2>. SUFFICES ASSUME Settling, TypeOK', [Next]_vars PROVE Settling'
    OBVIOUS
  <2>1. WholeEvaluations'
    BY WholeStays DEF Settling
  <2>2. EveryCallTold'
    BY WorkerTells, FaultTells, OthersTell DEF Next
  <2>. QED  BY <2>1, <2>2 DEF Settling
<1>3. Settling => RestingCallsAreTold
  <2>. SUFFICES ASSUME Settling, NEW c \in Calls, AtRest(c), c \notin disturbed
                PROVE  Told(c)
    BY DEF RestingCallsAreTold, Told
  <2>1. ~Coming(c) /\ ~InHand(c)
    BY DEF Settling, WholeEvaluations, TypeOK, AtRest, Coming, InHand
  <2>. QED  BY <2>1 DEF Settling, EveryCallTold, Accounted
<1>. QED  BY <1>1, <1>2, <1>3, TypeCorrect, PTL DEF Spec
=============================================================================
