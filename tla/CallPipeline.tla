---------------------------- MODULE CallPipeline ----------------------------
(* What becomes of a Call after it is stored: process_call_audio_task of    *)
(* app/worker.py on the "celery" queue, the two upload endpoints that feed  *)
(* it (the recording ingestion feeds it too, at least once) and the startup *)
(* recovery of app/recovery.py.  Celery acknowledges a message when a       *)
(* worker takes it, so a task that dies is not delivered again.             *)
EXTENDS Integers, FiniteSets

CONSTANTS None,
          Calls,             \* identities of the Call rows
          Ingested,          \* the Calls that the recording ingestion stores
          Workers,           \* processes that consume the "celery" queue
          MaxResubmissions,  \* bounds: second submissions by the ingestion,
          MaxRecoveries,     \* startups of the API with recovery enabled,
          MaxFaults          \* failures of a part the task depends on

Endpoints == {"upload", "bulk", "ingestion"}

ASSUME PipelineAssumption ==
    /\ Ingested \subseteq Calls
    /\ None \notin Calls \cup Endpoints
    /\ {MaxResubmissions, MaxRecoveries, MaxFaults} \subseteq Nat

VARIABLES call,       \* the rows of calls: status, usable audio, older than 5 minutes
          parts,      \* evaluations whose violations, QA pairs and candidates are stored
          outcome,    \* the evaluation in call_outcomes (call_id is unique), or 0
          tasks,      \* tasks of the Call that have started: they number the evaluations
          queue,      \* messages of process_call_audio_task per Call
          upload,     \* the endpoint that has committed the Call and not yet published it
          wk,         \* the worker processes
          boot,       \* recover_stuck_tasks of a starting API process
          disturbed,  \* Calls whose last message a fault swallowed or cut short
          count       \* the bounded counters

rows == << call, parts, outcome, tasks >>
vars == << call, parts, outcome, tasks, queue, upload, wk, boot, disturbed, count >>

Statuses == {"absent", "pending", "processing", "transcribed", "evaluated", "failed"}

IdleWorker == [pc |-> "idle", call |-> None, seen |-> "absent", eval |-> 0]
NoRecovery == [pc |-> "idle", reset |-> {}, chosen |-> {}]

Init ==
    /\ call = [c \in Calls |-> [status |-> "absent", audio |-> FALSE, aged |-> FALSE]]
    /\ parts = [c \in Calls |-> {}]
    /\ outcome = [c \in Calls |-> 0]
    /\ tasks = [c \in Calls |-> 0]
    /\ queue = [c \in Calls |-> 0]
    /\ upload = [c \in Calls |-> None]
    /\ wk = [w \in Workers |-> IdleWorker]
    /\ boot = NoRecovery
    /\ disturbed = {}
    /\ count = [resubmissions |-> 0, recoveries |-> 0, faults |-> 0]

Publish(c) == queue' = [queue EXCEPT ![c] = @ + 1]

\* A fault strikes the task or the message of Call c.
FaultAt(c) ==
    /\ count.faults < MaxFaults
    /\ count' = [count EXCEPT !.faults = @ + 1]
    /\ disturbed' = disturbed \cup {c}

\* The task's own failure, which it reports: nothing is swallowed.
FaultReported ==
    /\ count.faults < MaxFaults
    /\ count' = [count EXCEPT !.faults = @ + 1]
    /\ UNCHANGED disturbed

At(w, pc) == wk[w].pc = pc
Task(w) == wk[w].call
GoTo(w, pc) == wk' = [wk EXCEPT ![w].pc = pc]

Finish(w) == wk' = [wk EXCEPT ![w] = IdleWorker]

(***************************************************************************)
(* The session writes a column only if the new value differs from the one  *)
(* it read; after a commit the row is read again at its next use.          *)
(***************************************************************************)
SetStatus(w, s) ==
    call' = IF wk[w].seen = s THEN call ELSE [call EXCEPT ![Task(w)].status = s]

OverwriteStatus(w, s) == call' = [call EXCEPT ![Task(w)].status = s]

ReadAgain(w, pc) ==
    wk' = [wk EXCEPT ![w].pc = pc, ![w].seen = call[Task(w)].status]

-----------------------------------------------------------------------------
(* Calls arrive: the row is committed first and published afterwards. *)

StoreCall(c, e) ==
    /\ call[c].status = "absent"
    /\ (e = "ingestion") <=> (c \in Ingested)
    /\ call' = [call EXCEPT ![c] = [status |-> "pending", audio |-> TRUE, aged |-> FALSE]]
    /\ upload' = [upload EXCEPT ![c] = e]
    /\ UNCHANGED << parts, outcome, tasks, queue, wk, boot, disturbed, count >>

PublishCall(c) ==
    /\ upload[c] # None
    /\ Publish(c)
    /\ upload' = [upload EXCEPT ![c] = None]
    /\ UNCHANGED << rows, wk, boot, disturbed, count >>

\* The broker refuses the message.  The row is committed and stays; the bulk
\* upload reports the file as failed and removes the recording.
PublishCallFails(c) ==
    /\ upload[c] # None
    /\ call' = IF upload[c] = "bulk" THEN [call EXCEPT ![c].audio = FALSE] ELSE call
    /\ upload' = [upload EXCEPT ![c] = None]
    /\ FaultAt(c)
    /\ UNCHANGED << parts, outcome, tasks, queue, wk, boot >>

\* The ingestion hands a committed Call over again (reconciler or retry).
Resubmit(c) ==
    /\ c \in Ingested /\ call[c].status # "absent" /\ upload[c] = None
    /\ count.resubmissions < MaxResubmissions
    /\ count' = [count EXCEPT !.resubmissions = @ + 1]
    /\ Publish(c)
    /\ UNCHANGED << rows, upload, wk, boot, disturbed >>

\* Five minutes pass since the Call was created.
GrowOld(c) ==
    /\ call[c].status # "absent" /\ ~call[c].aged
    /\ call' = [call EXCEPT ![c].aged = TRUE]
    /\ UNCHANGED << parts, outcome, tasks, queue, upload, wk, boot, disturbed, count >>

-----------------------------------------------------------------------------
(* process_call_audio_task *)

Receive(w, c) ==
    /\ At(w, "idle") /\ queue[c] > 0
    /\ queue' = [queue EXCEPT ![c] = @ - 1]
    /\ wk' = [wk EXCEPT ![w] = [pc |-> "fetched", call |-> c,
                                seen |-> call[c].status, eval |-> 0]]
    /\ disturbed' = disturbed \ {c}
    /\ UNCHANGED << rows, upload, boot, count >>

\* check_redis_health fails: the acknowledged message is dropped.
DropMessage(w, c) ==
    /\ At(w, "idle") /\ queue[c] > 0
    /\ queue' = [queue EXCEPT ![c] = @ - 1]
    /\ FaultAt(c)
    /\ UNCHANGED << rows, upload, wk, boot >>

\* check_disk_capacity comes before every other check.
DiskFull(w) ==
    /\ At(w, "fetched")
    /\ SetStatus(w, "failed")
    /\ GoTo(w, "closing")
    /\ FaultAt(Task(w))
    /\ UNCHANGED << parts, outcome, tasks, queue, upload, boot >>

Evaluated(c) == outcome[c] # 0

\* Slip: a duplicate task ends without telling the status.
AlreadyEvaluatedSilently(w) ==
    /\ At(w, "fetched") /\ Evaluated(Task(w))
    /\ GoTo(w, "closing")
    /\ UNCHANGED << rows, queue, upload, boot, disturbed, count >>

AlreadyEvaluated(w) ==
    /\ At(w, "fetched") /\ Evaluated(Task(w))
    /\ SetStatus(w, "evaluated")
    /\ GoTo(w, "closing")
    /\ UNCHANGED << parts, outcome, tasks, queue, upload, boot, disturbed, count >>

AudioMissing(w) ==
    /\ At(w, "fetched") /\ ~Evaluated(Task(w)) /\ ~call[Task(w)].audio
    /\ SetStatus(w, "failed")
    /\ GoTo(w, "closing")
    /\ UNCHANGED << parts, outcome, tasks, queue, upload, boot, disturbed, count >>

\* Only the status it read can stop the task now, and only "evaluated" does.
Admit(w) ==
    /\ At(w, "fetched") /\ ~Evaluated(Task(w)) /\ call[Task(w)].audio
    /\ IF wk[w].seen = "evaluated" THEN Finish(w) ELSE GoTo(w, "admitted")
    /\ UNCHANGED << rows, queue, upload, boot, disturbed, count >>

\* Slip: the records of an interrupted evaluation are left in place.
StartWithoutCleanup(w) ==
    /\ At(w, "admitted")
    /\ SetStatus(w, "processing")
    /\ tasks' = [tasks EXCEPT ![Task(w)] = @ + 1]
    /\ wk' = [wk EXCEPT ![w].pc = "started", ![w].eval = tasks[Task(w)] + 1]
    /\ UNCHANGED << parts, outcome, queue, upload, boot, disturbed, count >>

Start(w) ==
    /\ At(w, "admitted")
    /\ parts' = [parts EXCEPT ![Task(w)] = {}]
    /\ SetStatus(w, "processing")
    /\ tasks' = [tasks EXCEPT ![Task(w)] = @ + 1]
    /\ wk' = [wk EXCEPT ![w].pc = "started", ![w].eval = tasks[Task(w)] + 1]
    /\ UNCHANGED << outcome, queue, upload, boot, disturbed, count >>

BeginTranscription(w) ==
    /\ At(w, "started")
    /\ ReadAgain(w, "transcribing")
    /\ UNCHANGED << rows, queue, upload, boot, disturbed, count >>

Transcribe(w) ==
    /\ At(w, "transcribing")
    /\ SetStatus(w, "transcribed")
    /\ GoTo(w, "transcribed")
    /\ UNCHANGED << parts, outcome, tasks, queue, upload, boot, disturbed, count >>

\* Slip: the handler logs the error and leaves the Call in PROCESSING.
TranscriptionFailsSilently(w) ==
    /\ At(w, "transcribing")
    /\ GoTo(w, "closing")
    /\ FaultReported
    /\ UNCHANGED << rows, queue, upload, boot >>

TranscriptionFails(w) ==
    /\ At(w, "transcribing")
    /\ SetStatus(w, "failed")
    /\ GoTo(w, "closing")
    /\ FaultReported
    /\ UNCHANGED << parts, outcome, tasks, queue, upload, boot >>

BeginEvaluation(w) ==
    /\ At(w, "transcribed")
    /\ ReadAgain(w, "evaluating")
    /\ UNCHANGED << rows, queue, upload, boot, disturbed, count >>

\* Everything the evaluation stores is one transaction.  A second outcome
\* violates the unique key: all of it is rolled back, and the handlers fail on
\* the dead session without a word.
Evaluate(w) ==
    LET c == Task(w)  e == wk[w].eval IN
    /\ At(w, "evaluating")
    /\ IF ~Evaluated(c)
       THEN /\ parts' = [parts EXCEPT ![c] = @ \cup {e}]
            /\ outcome' = [outcome EXCEPT ![c] = e]
            /\ SetStatus(w, "evaluated")
            /\ GoTo(w, "closing")
       ELSE /\ Finish(w)
            /\ UNCHANGED << call, parts, outcome >>
    /\ UNCHANGED << tasks, queue, upload, boot, disturbed, count >>

\* The handler commits FAILED, and with it the violations that apply_violations
\* had flushed if the error came later.
EvaluationFails(w) ==
    /\ At(w, "evaluating")
    /\ \/ UNCHANGED parts
       \/ parts' = [parts EXCEPT ![Task(w)] = @ \cup {wk[w].eval}]
    /\ SetStatus(w, "failed")
    /\ GoTo(w, "closing")
    /\ FaultReported
    /\ UNCHANGED << outcome, tasks, queue, upload, boot >>

\* The call_updates message and, after an evaluation, the mastery statistics.
Close(w) ==
    /\ At(w, "closing")
    /\ Finish(w)
    /\ UNCHANGED << rows, queue, upload, boot, disturbed, count >>

\* After a commit a failing publish (or statistics) ends in a handler that
\* sets the Call to FAILED, whatever had been committed.
ReportFails(w) ==
    /\ wk[w].pc \in {"started", "transcribed", "closing"}
    /\ OverwriteStatus(w, "failed")
    /\ IF At(w, "transcribed") THEN GoTo(w, "closing") ELSE Finish(w)
    /\ FaultAt(Task(w))
    /\ UNCHANGED << parts, outcome, tasks, queue, upload, boot >>

\* The process dies: its transaction is rolled back and its message is gone.
Die(w) ==
    /\ ~At(w, "idle")
    /\ Finish(w)
    /\ FaultAt(Task(w))
    /\ UNCHANGED << rows, queue, upload, boot >>

-----------------------------------------------------------------------------
(* recover_stuck_tasks, when an API process starts with ENABLE_STARTUP_RECOVERY *)

WithStatus(s) == {c \in Calls : call[c].status = s}

FindStuck ==
    LET reset == WithStatus("processing") \cup WithStatus("failed")
        old == {c \in WithStatus("pending") : call[c].aged}
    IN
    /\ boot = NoRecovery
    /\ count.recoveries < MaxRecoveries
    /\ count' = [count EXCEPT !.recoveries = @ + 1]
    /\ reset \cup old # {}
    /\ boot' = [pc |-> "reset", reset |-> reset, chosen |-> reset \cup old]
    /\ UNCHANGED << rows, queue, upload, wk, disturbed >>

ResetStuck ==
    /\ boot.pc = "reset"
    /\ call' = [c \in Calls |-> IF c \in boot.reset
                                THEN [call[c] EXCEPT !.status = "pending"] ELSE call[c]]
    /\ boot' = [boot EXCEPT !.pc = "publish", !.reset = {}]
    /\ UNCHANGED << parts, outcome, tasks, queue, upload, wk, disturbed, count >>

Requeue(c) ==
    /\ boot.pc = "publish" /\ c \in boot.chosen
    /\ Publish(c)
    /\ boot' = IF boot.chosen = {c} THEN NoRecovery ELSE [boot EXCEPT !.chosen = @ \ {c}]
    /\ UNCHANGED << rows, upload, wk, disturbed, count >>

\* The broker refuses a message: the rows reset so far stay PENDING.
RequeueFails ==
    /\ boot.pc = "publish"
    /\ count.faults < MaxFaults
    /\ count' = [count EXCEPT !.faults = @ + 1]
    /\ disturbed' = disturbed \cup boot.chosen
    /\ boot' = NoRecovery
    /\ UNCHANGED << rows, queue, upload, wk >>

-----------------------------------------------------------------------------
Arrival(c) ==
    \/ \E e \in Endpoints : StoreCall(c, e)
    \/ PublishCall(c) \/ PublishCallFails(c) \/ Resubmit(c) \/ GrowOld(c)

WorkerStep(w) ==
    \/ \E c \in Calls : Receive(w, c)
    \/ AlreadyEvaluated(w) \/ AudioMissing(w) \/ Admit(w) \/ Start(w)
    \/ BeginTranscription(w) \/ Transcribe(w) \/ BeginEvaluation(w)
    \/ Evaluate(w) \/ Close(w)

WorkerFault(w) ==
    \/ \E c \in Calls : DropMessage(w, c)
    \/ DiskFull(w) \/ TranscriptionFails(w) \/ EvaluationFails(w)
    \/ ReportFails(w) \/ Die(w)

Recovery == FindStuck \/ ResetStuck \/ RequeueFails \/ \E c \in Calls : Requeue(c)

Next ==
    \/ \E c \in Calls : Arrival(c)
    \/ \E w \in Workers : WorkerStep(w) \/ WorkerFault(w)
    \/ Recovery

Spec == Init /\ [][Next]_vars

\* A worker goes on with its task and with its queue, an endpoint with its
\* request and the recovery with its list; faults and arrivals need not happen.
FairSpec ==
    /\ Spec
    /\ \A w \in Workers : WF_vars(WorkerStep(w))
    /\ \A c \in Calls : WF_vars(PublishCall(c))
    /\ WF_vars(ResetStuck \/ \E c \in Calls : Requeue(c))

-----------------------------------------------------------------------------
(* Properties *)

TypeOK ==
    /\ call \in [Calls -> [status : Statuses, audio : BOOLEAN, aged : BOOLEAN]]
    /\ parts \in [Calls -> SUBSET Nat]
    /\ outcome \in [Calls -> Nat]
    /\ tasks \in [Calls -> Nat]
    /\ queue \in [Calls -> Nat]
    /\ upload \in [Calls -> Endpoints \cup {None}]
    /\ wk \in [Workers -> [pc : {"idle", "fetched", "admitted", "started", "transcribing",
                                 "transcribed", "evaluating", "closing"},
                          call : Calls \cup {None}, seen : Statuses, eval : Nat]]
    /\ \A w \in Workers : wk[w].pc # "idle" => wk[w].call \in Calls
    /\ boot \in [pc : {"idle", "reset", "publish"}, reset : SUBSET Calls, chosen : SUBSET Calls]
    /\ disturbed \subseteq Calls
    /\ count \in [resubmissions : Nat, recoveries : Nat, faults : Nat]

\* A stored outcome comes with the violations, QA pairs and candidates of the
\* evaluation it belongs to and with those of no other, however often the
\* task of the Call was queued, failed or died before or after.
EvaluationIsWhole == \A c \in Calls : Evaluated(c) => parts[c] = {outcome[c]}

\* Nothing will move the Call any more: no message, task, request or recovery.
AtRest(c) ==
    /\ queue[c] = 0 /\ upload[c] = None /\ c \notin boot.chosen
    /\ \A w \in Workers : Task(w) # c

\* A Call whose last message reached a worker and was not swallowed by a fault
\* comes to rest either failed without an outcome or evaluated with one, also
\* when a recovery resets its status in the middle of the task.
RestingCallsAreTold ==
    \A c \in Calls : AtRest(c) /\ c \notin disturbed =>
        call[c].status \in (IF Evaluated(c) THEN {"evaluated"} ELSE {"absent", "failed"})

\* Whatever was published and not swallowed by a fault is settled in the end.
CallsSettle ==
    \A c \in Calls : call[c].status # "absent" ~>
        (c \in disturbed \/ call[c].status \in {"evaluated", "failed"})
=============================================================================
