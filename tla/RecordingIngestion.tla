-------------------------- MODULE RecordingIngestion --------------------------
(***************************************************************************)
(* The recording-ingestion pipeline of one source: runs are requested by   *)
(* Celery beat or by an operator, a download worker reads the sheet and    *)
(* brings one recording per source key into quarantine, an inspection      *)
(* worker vets each file, promotes it, creates its Call and queues the     *)
(* call pipeline, failed records are retried and interrupted handoffs are  *)
(* reconciled.  Workers are processes that share the PostgreSQL tables,    *)
(* the storage layout and the Redis queues, and may die between any two    *)
(* steps: each action below is what one commit, one publish or one file    *)
(* operation makes visible to the others.                                  *)
(***************************************************************************)
EXTENDS IngestionRecord, FiniteSets

CONSTANTS KeyOf,           \* [Rows -> Keys]: the source key of a sheet row
          BaseOf,          \* [Keys -> BaseNames]: the file name its URL ends in
          Downloaders,     \* processes of the ingestion-download worker
          Inspectors,      \* processes of the ingestion-inspection worker
          Concurrency,     \* CALL_INGEST_DOWNLOAD_CONCURRENCY
          Enabled,         \* CALL_INGEST_ENABLED
          ManualRetry,     \* an operator may ask for retries
          Reconciling,     \* the reconcile task is triggered
          BrokerMayFail,   \* a publish may raise
          MaxCrashes,      \* bound: worker deaths
          MaxLosses        \* bound: messages Redis evicts

ASSUME RowsAssumption == IsFiniteSet(Rows)
ASSUME KeyOfAssumption == KeyOf \in [Rows -> Keys]
ASSUME BaseOfAssumption == BaseOf \in [Keys -> BaseNames]
ASSUME BoundsAssumption == /\ MaxCrashes \in Nat
                           /\ MaxLosses \in Nat
                           /\ Concurrency \in Nat
ASSUME FlagsAssumption ==
    {Enabled, ManualRetry, Reconciling, BrokerMayFail} \subseteq BOOLEAN
\* NULL is no path, no run, no row, no key, no record and no category.
ASSUME NoneAssumption ==
    None \notin Paths \cup RunIds \cup Rows \cup Keys \cup Records \cup Categories

VARIABLES
    runs,    \* table recording_ingestion_runs
    rec,     \* table recording_ingestion_records, by source key
    tried,   \* table recording_ingestion_attempts: (key, number, phase)
    calls,   \* the Calls created for a key: their audio_file_path, in order
    files,   \* the storage layout: path -> key whose recording it holds
    runQ,    \* queue ingestion-download: runs to continue
    retryQ,  \* queue ingestion-download: retries, immediate or with countdown
    inspQ,   \* queue ingestion-inspection: messages per key
    callQ,   \* process_call_audio messages published for each Call of a key
    web,     \* the run the API endpoint committed and is about to publish
    dl,      \* download worker processes
    job,     \* their per-record work: [Downloaders -> [Rows -> Jobs]]
    insp,    \* inspection worker processes
    crashes, losses,  \* faults so far
    vetted   \* history: keys whose recording passed all three inspections

vars == << runs, rec, tried, calls, files, runQ, retryQ, inspQ, callQ, web,
           dl, job, insp, crashes, losses, vetted >>
tables == << runs, rec, tried, calls >>
queues == << runQ, retryQ, inspQ, callQ >>
faults == << crashes, losses >>

ActiveRunStatuses == {"requested", "reading_source", "processing"}
ClosedRunStatuses == {"completed", "completed_with_errors", "failed"}
RunStatuses == {"absent"} \cup ActiveRunStatuses \cup ClosedRunStatuses

\* new_count and the failed_count of rows without a record matter only as
\* zero or not.
Runs == [status : RunStatuses, hasNew : BOOLEAN, rowErrors : BOOLEAN]
NoRun == [status |-> "absent", hasNew |-> FALSE, rowErrors |-> FALSE]

Retries == [key : Keys, attempt : Nat, early : BOOLEAN, manual : BOOLEAN]

DownloaderPCs == {"idle", "continue", "reading", "rows", "retry", "retrying",
                  "apply", "reclaim", "redispatch", "remark"}
Workers == [pc : DownloaderPCs, run : RunIds \cup {None},
            key : Keys \cup {None}, copy : Records \cup {None},
            verdict : RunStatuses]
IdleWorker == [pc |-> "idle", run |-> None, key |-> None, copy |-> None,
               verdict |-> "absent"]

JobPCs == {"none", "todo", "transfer", "stored", "publish", "handoff",
           "dispatch", "mark", "reschedule", "done", "raised"}
Outcomes == {"open", "unrecorded", "duplicate", "quarantined", "submitted",
             "failed"}
Jobs == [pc : JobPCs, path : NullablePath, out : Outcomes]
NoJob == [pc |-> "none", path |-> None, out |-> "open"]
NoJobs == [r \in Rows |-> NoJob]

InspectorPCs == {"idle", "loaded", "inspecting", "refused", "passed", "commit",
                 "dispatch", "mark", "reschedule", "reschedule_early",
                 "finalize", "close"}
InspectorStates == [pc : InspectorPCs, key : Keys \cup {None},
                    loaded : Records \cup {None}, edit : Records \cup {None},
                    run : RunIds \cup {None}, verdict : RunStatuses]
IdleInspector == [pc |-> "idle", key |-> None, loaded |-> None, edit |-> None,
                  run |-> None, verdict |-> "absent"]

Phases == {"validation", "download", "inspection", "handoff"}

-----------------------------------------------------------------------------
ActiveRuns == {n \in RunIds : runs[n].status \in ActiveRunStatuses}

\* The id the next INSERT takes; ids are not reused.
NextRun == CHOOSE n \in RunIds : runs[n] = NoRun

\* A slip: no unique index stands behind the check for an active run.
CanCreateRunUnchecked == \E n \in RunIds : runs[n] = NoRun

\* create_ingestion_run: the partial unique index lets the INSERT commit only
\* when the source has no active run.
CanCreateRun == ActiveRuns = {} /\ \E n \in RunIds : runs[n] = NoRun

CreateRun(status) ==
    runs' = [runs EXCEPT ![NextRun] = [NoRun EXCEPT !.status = status]]

RecordsOf(n) == {k \in Keys : rec[k].status # "absent" /\ rec[k].run = n}

\* A slip: a record whose handoff is pending is not counted as active.
StillActiveBeforeHandoff(n) ==
    \E k \in RecordsOf(n) : rec[k].status \in ActiveStatuses \ {"handoff_pending"}

StillActive(n) == \E k \in RecordsOf(n) : rec[k].status \in ActiveStatuses

\* A slip: the status of a record is written where that of a run belongs.
ClosingStatusOfRecord(n, rowErrors) ==
    IF rowErrors \/ \E k \in RecordsOf(n) : rec[k].status # "submitted"
    THEN "retry_scheduled" ELSE "submitted"

ClosingStatus(n, rowErrors) ==
    IF rowErrors \/ \E k \in RecordsOf(n) : rec[k].status # "submitted"
    THEN "completed_with_errors" ELSE "completed"

\* The inspector's UPDATE to INSPECTING locks the row until it commits.
Locked(k) == \E i \in Inspectors :
    insp[i].key = k /\ insp[i].pc \in {"inspecting", "refused", "passed", "commit"}

\* A slip: the file name is used although another file has it.
DestinationByName(dir, base, suffix, k) ==
    [dir |-> dir, base |-> base, suffix |-> suffix]

UniqueDestination(dir, base, suffix, k) ==
    LET target == [dir |-> dir, base |-> base, suffix |-> suffix]
    IN  IF target \in DOMAIN files
        THEN [target EXCEPT !.suffix = Append(suffix, k)]
        ELSE target

Stored(path, k) ==
    [p \in DOMAIN files \cup {path} |-> IF p = path THEN k ELSE files[p]]

Moved(from, to) ==
    [p \in (DOMAIN files \ {from}) \cup {to} |->
        IF p = to THEN files[from] ELSE files[p]]

\* A retry published after storage_failed truncates the countdown to whole
\* seconds and so is delivered before next_retry_at ("early").
AutomaticRetryOf(k, early) ==
    [key |-> k, attempt |-> rec[k].attempts, early |-> early, manual |-> FALSE]
ManualRetryOf(k) ==
    [key |-> k, attempt |-> 0, early |-> FALSE, manual |-> TRUE]

Publish(k) == inspQ' = [inspQ EXCEPT ![k] = @ + 1]
QueueCall(k) == callQ' = [callQ EXCEPT ![k] = @ + 1]

-----------------------------------------------------------------------------
(* Requesting and running an ingestion run                                 *)

\* POST /runs: the run is committed as REQUESTED before it is published.
RequestRun ==
    /\ web = None
    /\ CanCreateRun
    /\ CreateRun("requested")
    /\ web' = NextRun
    /\ UNCHANGED << rec, tried, calls, files, queues, dl, job, insp, faults, vetted >>

PublishRun ==
    /\ web # None
    /\ runQ' = runQ \cup {web}
    /\ web' = None
    /\ UNCHANGED << tables, files, retryQ, inspQ, callQ, dl, job, insp, faults, vetted >>

PublishRunFails ==
    /\ BrokerMayFail
    /\ web # None
    /\ runs' = [runs EXCEPT ![web].status = "failed"]
    /\ web' = None
    /\ UNCHANGED << rec, tried, calls, files, queues, dl, job, insp, faults, vetted >>

\* The beat task creates its run itself; while another run is active it fails.
StartScheduledRun(d) ==
    /\ Enabled
    /\ dl[d] = IdleWorker
    /\ CanCreateRun
    /\ CreateRun("requested")
    /\ dl' = [dl EXCEPT ![d].pc = "continue", ![d].run = NextRun]
    /\ UNCHANGED << rec, tried, calls, files, queues, web, job, insp, faults, vetted >>

ReceiveRun(d) ==
    /\ dl[d] = IdleWorker
    /\ \E n \in runQ :
         /\ runQ' = runQ \ {n}
         /\ dl' = IF runs[n].status = "requested"
                  THEN [dl EXCEPT ![d].pc = "continue", ![d].run = n] ELSE dl
    /\ UNCHANGED << tables, files, retryQ, inspQ, callQ, web, job, insp, faults, vetted >>

StartReading(d) ==
    /\ dl[d].pc = "continue"
    /\ runs' = [runs EXCEPT ![dl[d].run].status = "reading_source"]
    /\ dl' = [dl EXCEPT ![d].pc = "reading"]
    /\ UNCHANGED << rec, tried, calls, files, queues, web, job, insp, faults, vetted >>

SheetReadFails(d) ==
    /\ dl[d].pc = "reading"
    /\ runs' = [runs EXCEPT ![dl[d].run].status = "failed"]
    /\ dl' = [dl EXCEPT ![d] = IdleWorker]
    /\ UNCHANGED << rec, tried, calls, files, queues, web, job, insp, faults, vetted >>

\* The rows the sheet holds at this reading; one thread will take each.
ReadSheet(d) ==
    /\ dl[d].pc = "reading"
    /\ runs' = [runs EXCEPT ![dl[d].run].status = "processing"]
    /\ \E sheet \in SUBSET Rows :
         job' = [job EXCEPT ![d] = [r \in Rows |->
                   IF r \in sheet THEN [NoJob EXCEPT !.pc = "todo"] ELSE NoJob]]
    /\ dl' = [dl EXCEPT ![d].pc = "rows"]
    /\ UNCHANGED << rec, tried, calls, files, queues, web, insp, faults, vetted >>

-----------------------------------------------------------------------------
(* One record in the hands of a download worker: a row thread of a run, or *)
(* the retry task (whose job has the row of the record it retries)         *)

JobAt(d, r, pc) == job[d][r].pc = pc
JobTo(d, r, pc) == job' = [job EXCEPT ![d][r].pc = pc]
JobDone(d, r, outcome) ==
    job' = [job EXCEPT ![d][r] = [NoJob EXCEPT !.pc = "done", !.out = outcome]]

ThreadFree(d) ==
    Cardinality({r \in Rows : job[d][r].pc \notin {"none", "todo", "done", "raised"}})
        < Concurrency

\* Validation, campaign preflight or employee resolution refuses the row.
MappingFails(d, r) ==
    /\ JobAt(d, r, "todo") /\ ThreadFree(d)
    /\ JobDone(d, r, "unrecorded")
    /\ UNCHANGED << tables, files, queues, web, dl, insp, faults, vetted >>

\* A key that is in the table is not processed again; a submitted one counts
\* one more (skipped) attempt.
ClaimExisting(d, r) ==
    LET k == KeyOf[r] IN
    /\ JobAt(d, r, "todo") /\ ThreadFree(d)
    /\ rec[k].status # "absent"
    /\ IF rec[k].status = "submitted"
       THEN /\ ~Locked(k)
            /\ rec' = [rec EXCEPT ![k].attempts = @ + 1]
            /\ tried' = tried \cup {<<k, rec[k].attempts + 1, "validation">>}
       ELSE UNCHANGED << rec, tried >>
    /\ JobDone(d, r, "duplicate")
    /\ UNCHANGED << runs, calls, files, queues, web, dl, insp, faults, vetted >>

\* A second INSERT of the key waits for the first one's transaction.
BeingInserted(k) ==
    /\ rec[k].status = "absent"
    /\ \E d \in Downloaders, r \in Rows :
         KeyOf[r] = k /\ job[d][r].pc \in {"transfer", "stored"}

StartTransfer(d, r) ==
    job' = [job EXCEPT ![d][r] =
              [NoJob EXCEPT !.pc = "transfer",
                            !.path = UniqueDestination("quarantine",
                                       BaseOf[KeyOf[r]], <<>>, KeyOf[r])]]

\* A slip: the row is processed although its key is in the table.
ClaimNewUnchecked(d, r) ==
    /\ JobAt(d, r, "todo") /\ ThreadFree(d)
    /\ ~BeingInserted(KeyOf[r])
    /\ StartTransfer(d, r)
    /\ UNCHANGED << tables, files, queues, web, dl, insp, faults, vetted >>

\* The claim is flushed, not committed: nobody sees it before the download.
ClaimNew(d, r) ==
    /\ JobAt(d, r, "todo") /\ ThreadFree(d)
    /\ rec[KeyOf[r]].status = "absent"
    /\ ~BeingInserted(KeyOf[r])
    /\ StartTransfer(d, r)
    /\ UNCHANGED << tables, files, queues, web, dl, insp, faults, vetted >>

Loaded(d, r) ==
    IF rec[KeyOf[r]].status = "absent" THEN NewRecord(dl[d].run, r) ELSE rec[KeyOf[r]]

\* os.replace publishes the finished download under the path chosen earlier.
StoreDownload(d, r) ==
    /\ JobAt(d, r, "transfer")
    /\ files' = Stored(job[d][r].path, KeyOf[r])
    /\ JobTo(d, r, "stored")
    /\ UNCHANGED << tables, queues, web, dl, insp, faults, vetted >>

CommitDownload(d, r) ==
    LET k == KeyOf[r]  old == Loaded(d, r) IN
    /\ JobAt(d, r, "stored")
    /\ rec' = [rec EXCEPT ![k] = Quarantined(old, job[d][r].path)]
    /\ tried' = tried \cup {<<k, old.attempts, "download">>}
    /\ JobTo(d, r, "publish")
    /\ UNCHANGED << runs, calls, files, queues, web, dl, insp, faults, vetted >>

\* Commit a failure under the policy; a scheduled retry is still to publish.
FailJob(d, r, old, category) ==
    LET k == KeyOf[r]  new == ApplyFailurePolicy(old, category) IN
    /\ rec' = [rec EXCEPT ![k] = new]
    /\ IF new.status = "retry_scheduled"
       THEN JobTo(d, r, "reschedule") ELSE JobDone(d, r, "failed")

DownloadFails(d, r) ==
    /\ JobAt(d, r, "transfer")
    /\ \E category \in {"automatic", "manual", "final"} :
         FailJob(d, r, Loaded(d, r), category)
    /\ tried' = tried \cup {<<KeyOf[r], Loaded(d, r).attempts, "download">>}
    /\ UNCHANGED << runs, calls, files, queues, web, dl, insp, faults, vetted >>

PublishInspection(d, r) ==
    /\ JobAt(d, r, "publish")
    /\ Publish(KeyOf[r])
    /\ JobDone(d, r, "quarantined")
    /\ UNCHANGED << tables, files, runQ, retryQ, callQ, web, dl, insp, faults, vetted >>

PublishInspectionFails(d, r) ==
    /\ BrokerMayFail
    /\ JobAt(d, r, "publish")
    /\ FailJob(d, r, rec[KeyOf[r]], "automatic")
    /\ UNCHANGED << runs, tried, calls, files, queues, web, dl, insp, faults, vetted >>

PublishRetry(d, r) ==
    /\ JobAt(d, r, "reschedule")
    /\ retryQ' = retryQ \cup {AutomaticRetryOf(KeyOf[r], FALSE)}
    /\ JobDone(d, r, "failed")
    /\ UNCHANGED << tables, files, runQ, inspQ, callQ, web, dl, insp, faults, vetted >>

\* The exception of the second publish is not caught around the record.
PublishRetryFails(d, r) ==
    /\ BrokerMayFail
    /\ JobAt(d, r, "reschedule")
    /\ JobTo(d, r, "raised")
    /\ UNCHANGED << tables, files, queues, web, dl, insp, faults, vetted >>

-----------------------------------------------------------------------------
(* Retrying a record                                                       *)

\* POST /records/{id}/retry checks what the task will check again.
RequestManualRetry(k) ==
    /\ ManualRetry
    /\ RetryEligible(rec[k], TRUE)
    /\ ActiveRuns = {}
    /\ retryQ' = retryQ \cup {ManualRetryOf(k)}
    /\ UNCHANGED << tables, files, runQ, inspQ, callQ, web, dl, job, insp, faults, vetted >>

RetryTimeComes(k) ==
    /\ rec[k].timer = "running"
    /\ rec' = [rec EXCEPT ![k].timer = "expired"]
    /\ UNCHANGED << runs, tried, calls, files, queues, web, dl, job, insp, faults, vetted >>

\* A countdown ends with the timer it was published for, an early one before.
Deliverable(m) ==
    \/ m.manual \/ m.early
    \/ m.attempt # rec[m.key].attempts
    \/ rec[m.key].timer # "running"

RetryAdmitted(m) ==
    /\ Enabled
    /\ RetryEligible(rec[m.key], m.manual)
    /\ ActiveRuns = {}

\* A slip: the message is acknowledged late and stays for other workers.
ReceiveRetryAcknowledgedLate(d) ==
    /\ dl[d] = IdleWorker
    /\ \E m \in retryQ :
         /\ Deliverable(m) /\ RetryAdmitted(m)
         /\ dl' = [dl EXCEPT ![d].pc = "retry", ![d].key = m.key,
                             ![d].copy = rec[m.key]]
    /\ UNCHANGED << tables, files, queues, web, job, insp, faults, vetted >>

\* prepare_ingestion_record_retry loads the record that the task then edits.
ReceiveRetry(d) ==
    /\ dl[d] = IdleWorker
    /\ \E m \in retryQ :
         /\ Deliverable(m) /\ RetryAdmitted(m)
         /\ retryQ' = retryQ \ {m}
         /\ dl' = [dl EXCEPT ![d].pc = "retry", ![d].key = m.key,
                             ![d].copy = rec[m.key]]
    /\ UNCHANGED << tables, files, runQ, inspQ, callQ, web, job, insp, faults, vetted >>

\* A retry that is not admitted is answered "skipped" and not queued again.
SkipRetry(d) ==
    /\ dl[d] = IdleWorker
    /\ \E m \in retryQ :
         /\ Deliverable(m) /\ ~RetryAdmitted(m)
         /\ retryQ' = retryQ \ {m}
    /\ UNCHANGED << tables, files, runQ, inspQ, callQ, web, dl, job, insp, faults, vetted >>

\* A slip: a record that is in quarantine already is not published again.
ResumeWithoutPublish(d, r, k, new) ==
    CASE new.status = "accepted" -> JobTo(d, r, "handoff")
      [] new.status = "quarantined" -> JobDone(d, r, "quarantined")
      [] OTHER -> StartTransfer(d, r)

\* Where _continue_claimed_record_processing enters for the prepared record.
ResumeAt(d, r, k, new) ==
    CASE new.status = "accepted" -> JobTo(d, r, "handoff")
      [] new.status = "quarantined" -> JobTo(d, r, "publish")
      [] OTHER -> StartTransfer(d, r)

\* The retry run and the prepared record are committed together; the session
\* writes only the columns that differ from the copy it loaded.
StartRetry(d) ==
    LET k == dl[d].key  r == rec[k].row
        new == Flush(dl[d].copy, PrepareForRetry(dl[d].copy, NextRun), rec[k])
    IN
    /\ dl[d].pc = "retry"
    /\ CanCreateRun
    /\ ~Locked(k)
    /\ CreateRun("processing")
    /\ rec' = [rec EXCEPT ![k] = new]
    /\ IF new.status = "downloading" /\ <<k, new.attempts, "download">> \in tried
       THEN \* the attempt row violates its unique key and the session is dead
            /\ dl' = [dl EXCEPT ![d] = IdleWorker]
            /\ UNCHANGED job
       ELSE /\ dl' = [dl EXCEPT ![d].pc = "retrying", ![d].run = NextRun,
                                ![d].copy = None]
            /\ ResumeAt(d, r, k, new)
    /\ UNCHANGED << tried, calls, files, queues, web, insp, faults, vetted >>

RetryFindsActiveRun(d) ==
    /\ dl[d].pc = "retry"
    /\ ActiveRuns # {}
    /\ dl' = [dl EXCEPT ![d] = IdleWorker]
    /\ UNCHANGED << tables, files, queues, web, job, insp, faults, vetted >>

\* handoff_accepted_recording for a record whose Call exists already.
RetryHandoff(d, r) ==
    LET k == KeyOf[r]  entry == <<k, rec[k].attempts, "handoff">> IN
    /\ JobAt(d, r, "handoff")
    /\ entry \notin tried
    /\ rec' = [rec EXCEPT ![k] = HandoffPending(@, @.call)]
    /\ tried' = tried \cup {entry}
    /\ JobTo(d, r, "dispatch")
    /\ UNCHANGED << runs, calls, files, queues, web, dl, insp, faults, vetted >>

RetryHandoffConflicts(d, r) ==
    /\ JobAt(d, r, "handoff")
    /\ <<KeyOf[r], rec[KeyOf[r]].attempts, "handoff">> \in tried
    /\ dl' = [dl EXCEPT ![d] = IdleWorker]
    /\ job' = [job EXCEPT ![d] = NoJobs]
    /\ UNCHANGED << tables, files, queues, web, insp, faults, vetted >>

RetryDispatch(d, r) ==
    /\ JobAt(d, r, "dispatch")
    /\ QueueCall(KeyOf[r])
    /\ JobTo(d, r, "mark")
    /\ UNCHANGED << tables, files, runQ, retryQ, inspQ, web, dl, insp, faults, vetted >>

RetryDispatchFails(d, r) ==
    /\ BrokerMayFail
    /\ JobAt(d, r, "dispatch")
    /\ FailJob(d, r, rec[KeyOf[r]], "automatic")
    /\ UNCHANGED << runs, tried, calls, files, queues, web, dl, insp, faults, vetted >>

RetryMarkSubmitted(d, r) ==
    /\ JobAt(d, r, "mark")
    /\ rec' = [rec EXCEPT ![KeyOf[r]] = Submitted(@)]
    /\ JobDone(d, r, "submitted")
    /\ UNCHANGED << runs, tried, calls, files, queues, web, dl, insp, faults, vetted >>

-----------------------------------------------------------------------------
(* Applying the results of a run                                           *)

JobsOver(d) ==
    /\ dl[d].pc \in {"rows", "retrying"}
    /\ \A r \in Rows : job[d][r].pc \in {"none", "done", "raised"}

ResultsOf(d) == {job[d][r] : r \in {q \in Rows : job[d][q].pc \in {"done", "raised"}}}

RowErrors(d) == \E j \in ResultsOf(d) : j.pc = "raised" \/ j.out = "unrecorded"
HasNew(d) == \E j \in ResultsOf(d) : j.out \in {"quarantined", "submitted", "failed"}

\* A run defers its completion to the inspector; so does a retry whose record
\* it has just queued for inspection.
Deferred(d) == dl[d].pc = "rows" \/ \E j \in ResultsOf(d) : j.out = "quarantined"

\* Queries before the commit: what this transaction will write as status.
ComputeResults(d) ==
    LET n == dl[d].run IN
    /\ JobsOver(d)
    /\ dl' = [dl EXCEPT ![d].pc = "apply", ![d].verdict =
                CASE dl[d].pc = "retrying" /\ RowErrors(d) -> "failed"
                  [] Deferred(d) /\ StillActive(n) -> "processing"
                  [] Deferred(d) /\ ~StillActive(n) -> ClosingStatus(n, RowErrors(d))
                  [] OTHER -> IF \E j \in ResultsOf(d) : j.out = "failed"
                              THEN "completed_with_errors" ELSE "completed"]
    /\ UNCHANGED << tables, files, queues, web, job, insp, faults, vetted >>

\* A raised retry writes only the status; otherwise the counts go with it.
ApplyResults(d) ==
    LET n == dl[d].run IN
    /\ dl[d].pc = "apply"
    /\ runs' = [runs EXCEPT ![n] =
                  IF dl[d].verdict = "failed" THEN [@ EXCEPT !.status = "failed"]
                  ELSE [status |-> dl[d].verdict, hasNew |-> HasNew(d),
                        rowErrors |-> RowErrors(d)]]
    /\ dl' = [dl EXCEPT ![d] = IdleWorker]
    /\ job' = [job EXCEPT ![d] = NoJobs]
    /\ UNCHANGED << rec, tried, calls, files, queues, web, insp, faults, vetted >>

-----------------------------------------------------------------------------
(* The inspection worker                                                   *)

ReceiveInspection(i) ==
    /\ insp[i] = IdleInspector
    /\ \E k \in Keys :
         /\ inspQ[k] > 0
         /\ inspQ' = [inspQ EXCEPT ![k] = @ - 1]
         /\ insp' = IF Enabled /\ rec[k].status = "quarantined"
                    THEN [insp EXCEPT ![i].pc = "loaded", ![i].key = k,
                                      ![i].loaded = rec[k], ![i].edit = rec[k]]
                    ELSE IF Enabled
                    THEN [insp EXCEPT ![i].pc = "finalize", ![i].key = k]
                    ELSE insp
    /\ UNCHANGED << tables, files, runQ, retryQ, callQ, web, dl, job, faults, vetted >>

InspectorAt(i, pc) == insp[i].pc = pc
InspectorTo(i, pc) == insp' = [insp EXCEPT ![i].pc = pc]
InQuarantine(path) ==
    path # None /\ path.dir = "quarantine" /\ path \in DOMAIN files

\* The outcome in the session, not yet in the table.
Decide(i, edit) ==
    insp' = [insp EXCEPT ![i].pc = "commit", ![i].edit = edit]

\* A missing or unreadable quarantine file settles the record at once.
InspectMissingFile(i) ==
    LET k == insp[i].key  old == insp[i].loaded IN
    /\ InspectorAt(i, "loaded") /\ ~Locked(k)
    /\ \/ /\ old.qpath = None
          /\ rec' = [rec EXCEPT ![k] = Flush(old, MarkFailed(old), @)]
       \/ /\ ~InQuarantine(old.qpath) /\ old.qpath # None
          /\ rec' = [rec EXCEPT ![k] = Flush(old, Rejected(old, old.qpath), @)]
    /\ insp' = [insp EXCEPT ![i] = [IdleInspector EXCEPT !.key = k, !.pc = "finalize"]]
    /\ UNCHANGED << runs, tried, calls, files, queues, web, dl, job, faults, vetted >>

\* The path resolves, the UPDATE to INSPECTING takes the row lock, and the
\* signature attempt is the first one of this inspection: a second inspection
\* with the same attempt number dies on the unique key.
BeginInspection(i) ==
    LET old == insp[i].loaded IN
    /\ InspectorAt(i, "loaded") /\ ~Locked(insp[i].key)
    /\ InQuarantine(old.qpath)
    /\ insp' = IF <<insp[i].key, old.attempts, "inspection">> \in tried
               THEN [insp EXCEPT ![i] = IdleInspector]
               ELSE [insp EXCEPT ![i].pc = "inspecting"]
    /\ UNCHANGED << tables, files, queues, web, dl, job, faults, vetted >>

\* What the three inspections recorded: they stop at the first one that does
\* not pass, and what is unavailable or times out does not pass.
Findings ==
    {AllPassed,
     [AllPassed EXCEPT !["media"] = "refused"],
     [Unchecked EXCEPT !["signature"] = "passed", !["malware"] = "refused"],
     [Unchecked EXCEPT !["signature"] = "refused"]}

Inspect(i) ==
    LET path == insp[i].edit.qpath IN
    /\ InspectorAt(i, "inspecting")
    /\ path \in DOMAIN files
    /\ \E checks \in Findings :
         /\ insp' = [insp EXCEPT ![i].edit.checks = checks,
                       ![i].pc = IF Promotable(checks) THEN "passed" ELSE "refused"]
         /\ vetted' = IF checks = AllPassed THEN vetted \cup {files[path]} ELSE vetted
    /\ UNCHANGED << tables, files, queues, web, dl, job, faults >>

InspectionRaises(i) ==
    /\ InspectorAt(i, "inspecting")
    /\ insp[i].edit.qpath \notin DOMAIN files
    /\ Decide(i, MarkFailed(insp[i].edit))
    /\ UNCHANGED << tables, files, queues, web, dl, job, faults, vetted >>

\* _move_within_layout: the destination keeps the file name of the source.
Destination(i, dir) ==
    LET from == insp[i].edit.qpath
    IN  UniqueDestination(dir, from.base, from.suffix, insp[i].key)

MoveToRejected(i) ==
    LET from == insp[i].edit.qpath  to == Destination(i, "rejected") IN
    /\ InspectorAt(i, "refused")
    /\ IF from \in DOMAIN files
       THEN \/ files' = Moved(from, to) /\ Decide(i, Rejected(insp[i].edit, to))
            \/ files' = files /\ Decide(i, MarkFailed(insp[i].edit))
       ELSE files' = files /\ Decide(i, Rejected(insp[i].edit, from))
    /\ UNCHANGED << tables, queues, web, dl, job, faults, vetted >>

MoveToAccepted(i) ==
    LET from == insp[i].edit.qpath  to == Destination(i, "accepted") IN
    /\ InspectorAt(i, "passed")
    /\ \/ /\ from \in DOMAIN files
          /\ files' = Moved(from, to)
          /\ Decide(i, Accepted(insp[i].edit, to))
       \/ /\ files' = files
          /\ Decide(i, ApplyFailurePolicy(insp[i].edit, "automatic"))
    /\ UNCHANGED << tables, queues, web, dl, job, faults, vetted >>

Written(i) == Flush(insp[i].loaded, insp[i].edit, rec[insp[i].key])

InspectionEntry(i) == <<insp[i].key, insp[i].loaded.attempts, "inspection">>
HandoffEntry(i) == <<insp[i].key, insp[i].loaded.attempts, "handoff">>

\* Commit of an inspection that does not accept the file.
CommitVerdict(i) ==
    LET k == insp[i].key  edit == insp[i].edit IN
    /\ InspectorAt(i, "commit")
    /\ edit.status # "accepted"
    /\ rec' = [rec EXCEPT ![k] = Written(i)]
    /\ tried' = tried \cup {InspectionEntry(i)}
    /\ insp' = [insp EXCEPT ![i] = [IdleInspector EXCEPT !.key = k, !.pc =
                  IF edit.status = "retry_scheduled" THEN "reschedule_early" ELSE "finalize"]]
    /\ UNCHANGED << runs, calls, files, queues, web, dl, job, faults, vetted >>

\* Acceptance, the Call and HANDOFF_PENDING are one transaction.
CommitHandoff(i) ==
    LET k == insp[i].key  edit == insp[i].edit
        call == IF edit.call # 0 THEN edit.call ELSE Len(calls[k]) + 1
        new == Flush(insp[i].loaded, HandoffPending(edit, call), rec[k])
    IN
    /\ InspectorAt(i, "commit")
    /\ edit.status = "accepted"
    /\ IF HandoffEntry(i) \in tried \/ (edit.call = 0 /\ edit.spath \notin DOMAIN files)
       THEN \* the transaction fails: nothing of this inspection is written
            /\ insp' = [insp EXCEPT ![i] = IdleInspector]
            /\ UNCHANGED << rec, tried, calls >>
       ELSE /\ rec' = [rec EXCEPT ![k] = new]
            /\ tried' = tried \cup {InspectionEntry(i), HandoffEntry(i)}
            /\ calls' = IF edit.call # 0 THEN calls
                        ELSE [calls EXCEPT ![k] = Append(@, edit.spath)]
            /\ insp' = [insp EXCEPT ![i] = [IdleInspector EXCEPT
                          !.key = k, !.pc = "dispatch"]]
    /\ UNCHANGED << runs, files, queues, web, dl, job, faults, vetted >>

Dispatch(i) ==
    /\ InspectorAt(i, "dispatch")
    /\ QueueCall(insp[i].key)
    /\ InspectorTo(i, "mark")
    /\ UNCHANGED << tables, files, runQ, retryQ, inspQ, web, dl, job, faults, vetted >>

DispatchFails(i) ==
    LET k == insp[i].key  new == ApplyFailurePolicy(rec[k], "automatic") IN
    /\ BrokerMayFail
    /\ InspectorAt(i, "dispatch")
    /\ rec' = [rec EXCEPT ![k] = new]
    /\ InspectorTo(i, IF new.status = "retry_scheduled" THEN "reschedule" ELSE "finalize")
    /\ UNCHANGED << runs, tried, calls, files, queues, web, dl, job, faults, vetted >>

MarkSubmitted(i) ==
    /\ InspectorAt(i, "mark")
    /\ rec' = [rec EXCEPT ![insp[i].key] = Submitted(@)]
    /\ InspectorTo(i, "finalize")
    /\ UNCHANGED << runs, tried, calls, files, queues, web, dl, job, faults, vetted >>

PublishLater(i) ==
    /\ insp[i].pc \in {"reschedule", "reschedule_early"}
    /\ retryQ' = retryQ \cup
         {AutomaticRetryOf(insp[i].key, InspectorAt(i, "reschedule_early"))}
    /\ InspectorTo(i, "finalize")
    /\ UNCHANGED << tables, files, runQ, inspQ, callQ, web, dl, job, faults, vetted >>

\* The exception ends the task: the run is not finalized.
PublishLaterFails(i) ==
    /\ BrokerMayFail
    /\ insp[i].pc \in {"reschedule", "reschedule_early"}
    /\ insp' = [insp EXCEPT ![i] = IdleInspector]
    /\ UNCHANGED << tables, files, queues, web, dl, job, faults, vetted >>

\* A slip: the counts of the worker are not awaited.
ReadyWithoutCounts(n) ==
    runs[n].status \notin ClosedRunStatuses /\ ~StillActive(n)

\* A run may be closed once its worker has committed the counts, unless it is
\* closed already or has records in progress.
ReadyToClose(n) ==
    /\ runs[n].hasNew
    /\ runs[n].status \notin ClosedRunStatuses
    /\ ~StillActive(n)

\* finalize_ingestion_run_if_ready reads, decides, and commits in a next step.
FinalizeRun(i) ==
    LET n == rec[insp[i].key].run IN
    /\ InspectorAt(i, "finalize")
    /\ insp' = IF ReadyToClose(n)
               THEN [insp EXCEPT ![i].pc = "close", ![i].run = n,
                                 ![i].verdict = ClosingStatus(n, runs[n].rowErrors)]
               ELSE [insp EXCEPT ![i] = IdleInspector]
    /\ UNCHANGED << tables, files, queues, web, dl, job, faults, vetted >>

CloseRun(i) ==
    /\ InspectorAt(i, "close")
    /\ runs' = [runs EXCEPT ![insp[i].run].status = insp[i].verdict]
    /\ insp' = [insp EXCEPT ![i] = IdleInspector]
    /\ UNCHANGED << rec, tried, calls, files, queues, web, dl, job, faults, vetted >>

-----------------------------------------------------------------------------
(* Reconciling interrupted handoffs.  The task takes the records of its    *)
(* query one after another; a step of the task is about one of them.       *)

SelectHandoff(d) ==
    /\ Reconciling /\ Enabled
    /\ dl[d] = IdleWorker
    /\ \E k \in Keys :
         /\ Reconcilable(rec[k])
         /\ dl' = [dl EXCEPT ![d].pc = "reclaim", ![d].key = k, ![d].copy = rec[k]]
    /\ UNCHANGED << tables, files, queues, web, job, insp, faults, vetted >>

\* The conditional UPDATE repeats the filter of the query.
ClaimHandoff(d) ==
    LET k == dl[d].key IN
    /\ dl[d].pc = "reclaim"
    /\ ~Locked(k)
    /\ IF Reconcilable(rec[k])
       THEN /\ rec' = [rec EXCEPT ![k].status = "handoff_pending",
                                  ![k].err = "dispatching"]
            /\ dl' = [dl EXCEPT ![d].pc = "redispatch"]
       ELSE /\ dl' = [dl EXCEPT ![d] = IdleWorker]
            /\ UNCHANGED rec
    /\ UNCHANGED << runs, tried, calls, files, queues, web, job, insp, faults, vetted >>

Redispatch(d) ==
    /\ dl[d].pc = "redispatch"
    /\ QueueCall(dl[d].key)
    /\ dl' = [dl EXCEPT ![d].pc = "remark"]
    /\ UNCHANGED << tables, files, runQ, retryQ, inspQ, web, job, insp, faults, vetted >>

RedispatchFails(d) ==
    /\ BrokerMayFail
    /\ dl[d].pc = "redispatch"
    /\ rec' = [rec EXCEPT ![dl[d].key].status = dl[d].copy.status,
                          ![dl[d].key].err = "automatic"]
    /\ dl' = [dl EXCEPT ![d] = IdleWorker]
    /\ UNCHANGED << runs, tried, calls, files, queues, web, job, insp, faults, vetted >>

MarkReconciled(d) ==
    /\ dl[d].pc = "remark"
    /\ rec' = [rec EXCEPT ![dl[d].key] = Submitted(@)]
    /\ dl' = [dl EXCEPT ![d] = IdleWorker]
    /\ UNCHANGED << runs, tried, calls, files, queues, web, job, insp, faults, vetted >>

\* A claim expires after HANDOFF_RECONCILIATION_LEASE_SECONDS; a publish that
\* is still running is taken to be faster than that.
LeaseExpires(k) ==
    /\ rec[k].err = "dispatching"
    /\ ~\E d \in Downloaders : dl[d].key = k /\ dl[d].pc \in {"redispatch", "remark"}
    /\ rec' = [rec EXCEPT ![k].err = "expired"]
    /\ UNCHANGED << runs, tried, calls, files, queues, web, dl, job, insp, faults, vetted >>

-----------------------------------------------------------------------------
(* Faults.  Transactions in progress are rolled back, files stay.          *)

DownloaderDies(d) ==
    /\ crashes < MaxCrashes
    /\ dl[d] # IdleWorker
    /\ dl' = [dl EXCEPT ![d] = IdleWorker]
    /\ job' = [job EXCEPT ![d] = NoJobs]
    /\ crashes' = crashes + 1
    /\ UNCHANGED << tables, files, queues, web, insp, losses, vetted >>

InspectorDies(i) ==
    /\ crashes < MaxCrashes
    /\ insp[i] # IdleInspector
    /\ insp' = [insp EXCEPT ![i] = IdleInspector]
    /\ crashes' = crashes + 1
    /\ UNCHANGED << tables, files, queues, web, dl, job, losses, vetted >>

EndpointDies ==
    /\ crashes < MaxCrashes
    /\ web # None
    /\ web' = None
    /\ crashes' = crashes + 1
    /\ UNCHANGED << tables, files, queues, dl, job, insp, losses, vetted >>

\* Redis runs with maxmemory-policy allkeys-lru and may evict a queue entry.
MessageLost ==
    /\ losses < MaxLosses
    /\ losses' = losses + 1
    /\ \/ \E n \in runQ : runQ' = runQ \ {n} /\ UNCHANGED << retryQ, inspQ >>
       \/ \E m \in retryQ : retryQ' = retryQ \ {m} /\ UNCHANGED << runQ, inspQ >>
       \/ \E k \in Keys :
            inspQ[k] > 0 /\ inspQ' = [inspQ EXCEPT ![k] = @ - 1] /\ UNCHANGED << runQ, retryQ >>
    /\ UNCHANGED << tables, files, callQ, web, dl, job, insp, crashes, vetted >>

-----------------------------------------------------------------------------
Init ==
    /\ runs = [n \in RunIds |-> NoRun]
    /\ rec = [k \in Keys |-> NoRecord]
    /\ tried = {}
    /\ calls = [k \in Keys |-> <<>>]
    /\ files = << >>
    /\ runQ = {} /\ retryQ = {}
    /\ inspQ = [k \in Keys |-> 0]
    /\ callQ = [k \in Keys |-> 0]
    /\ web = None
    /\ dl = [d \in Downloaders |-> IdleWorker]
    /\ job = [d \in Downloaders |-> NoJobs]
    /\ insp = [i \in Inspectors |-> IdleInspector]
    /\ crashes = 0 /\ losses = 0
    /\ vetted = {}

\* What a download worker does next with the task it has.
DownloaderStep(d) ==
    \/ StartReading(d) \/ SheetReadFails(d) \/ ReadSheet(d)
    \/ StartRetry(d) \/ RetryFindsActiveRun(d)
    \/ ComputeResults(d) \/ ApplyResults(d)
    \/ ClaimHandoff(d) \/ Redispatch(d) \/ RedispatchFails(d) \/ MarkReconciled(d)

DownloaderReceives(d) ==
    ReceiveRun(d) \/ ReceiveRetry(d) \/ SkipRetry(d)

JobStep(d, r) ==
    \/ MappingFails(d, r) \/ ClaimExisting(d, r) \/ ClaimNew(d, r)
    \/ StoreDownload(d, r) \/ CommitDownload(d, r) \/ DownloadFails(d, r)
    \/ PublishInspection(d, r) \/ PublishInspectionFails(d, r)
    \/ PublishRetry(d, r) \/ PublishRetryFails(d, r)
    \/ RetryHandoff(d, r) \/ RetryHandoffConflicts(d, r)
    \/ RetryDispatch(d, r) \/ RetryDispatchFails(d, r) \/ RetryMarkSubmitted(d, r)

InspectorStep(i) ==
    \/ InspectMissingFile(i) \/ BeginInspection(i) \/ Inspect(i) \/ InspectionRaises(i)
    \/ MoveToRejected(i) \/ MoveToAccepted(i)
    \/ CommitVerdict(i) \/ CommitHandoff(i)
    \/ Dispatch(i) \/ DispatchFails(i) \/ MarkSubmitted(i)
    \/ PublishLater(i) \/ PublishLaterFails(i)
    \/ FinalizeRun(i) \/ CloseRun(i)

Operators ==
    \/ RequestRun \/ PublishRun \/ PublishRunFails
    \/ \E k \in Keys : RequestManualRetry(k)
    \/ \E d \in Downloaders : StartScheduledRun(d) \/ SelectHandoff(d)

Clock == \E k \in Keys : RetryTimeComes(k) \/ LeaseExpires(k)

Faults ==
    \/ \E d \in Downloaders : DownloaderDies(d)
    \/ \E i \in Inspectors : InspectorDies(i)
    \/ EndpointDies \/ MessageLost

Next ==
    \/ Operators \/ Clock \/ Faults
    \/ \E d \in Downloaders : DownloaderStep(d) \/ DownloaderReceives(d)
    \/ \E d \in Downloaders, r \in Rows : JobStep(d, r)
    \/ \E i \in Inspectors : ReceiveInspection(i) \/ InspectorStep(i)

Spec == Init /\ [][Next]_vars

\* Celery keeps serving its queues and workers finish what they began; nothing
\* is assumed of operators, of beat, of the reconciler or of faults.
Fairness ==
    /\ WF_vars(PublishRun \/ PublishRunFails)
    /\ \A d \in Downloaders : WF_vars(DownloaderStep(d)) /\ WF_vars(DownloaderReceives(d))
    /\ \A d \in Downloaders, r \in Rows : WF_vars(JobStep(d, r))
    /\ \A i \in Inspectors : WF_vars(ReceiveInspection(i) \/ InspectorStep(i))
    /\ \A k \in Keys : WF_vars(RetryTimeComes(k))

FairSpec == Spec /\ Fairness

-----------------------------------------------------------------------------
(* Properties                                                              *)

TypeOK ==
    /\ runs \in [RunIds -> Runs]
    /\ rec \in [Keys -> Records]
    /\ tried \subseteq Keys \X Nat \X Phases
    /\ calls \in [Keys -> Seq(Paths)]
    /\ DOMAIN files \subseteq Paths
    /\ \A p \in DOMAIN files : files[p] \in Keys
    /\ runQ \subseteq RunIds
    /\ retryQ \subseteq Retries
    /\ inspQ \in [Keys -> Nat]
    /\ callQ \in [Keys -> Nat]
    /\ web \in RunIds \cup {None}
    /\ dl \in [Downloaders -> Workers]
    /\ job \in [Downloaders -> [Rows -> Jobs]]
    /\ insp \in [Inspectors -> InspectorStates]
    /\ crashes \in 0 .. MaxCrashes
    /\ losses \in 0 .. MaxLosses
    /\ vetted \subseteq Keys

\* The worker holds a run it has not applied the results of.
Processing(d) ==
    dl[d].pc \in {"continue", "reading", "rows", "retrying", "apply"}

\* At most one run of the source is active (data-model.md, the partial unique
\* index), whoever asks for runs and retries at the same time.
OneActiveRun ==
    \A m, n \in RunIds :
        /\ runs[m].status \notin ClosedRunStatuses \cup {"absent"}
        /\ runs[n].status \notin ClosedRunStatuses \cup {"absent"}
        => m = n

\* A run is not closed under the worker that is still processing its rows:
\* the inspectors, who close runs too, wait for its new_count.
RunOutlivesItsWorker ==
    \A d \in Downloaders :
        Processing(d) => runs[dl[d].run].status \in ActiveRunStatuses

\* Hence no two workers ever process rows of the source at the same time.
OneWorkerProcesses ==
    \A c, d \in Downloaders : Processing(c) /\ Processing(d) => c = d

Carrying(d, r) ==
    job[d][r].pc \in {"transfer", "stored", "publish", "handoff", "dispatch", "mark"}
Reconcilers == {"reclaim", "redispatch", "remark"}

\* A download worker is busy with a record: a job of it has it in hand, or the
\* task is about to retry it or reconciles it.
Holds(d, k) ==
    \/ dl[d].key = k /\ dl[d].pc \in {"retry"} \cup Reconcilers
    \/ \E r \in Rows : KeyOf[r] = k /\ Carrying(d, r)

\* No two download workers are busy with one record, in whatever way it came to
\* each: by a row of the sheet, by a retry, by the reconciler.  Operators who
\* ask for retries, and the reconciler, may bring two of them together.
RecordsApart ==
    \A k \in Keys, c, d \in Downloaders : Holds(c, k) /\ Holds(d, k) => c = d

\* A closed run stays as it was closed, and it closes as completed only when
\* each of its records is settled.
RunsCloseOnce ==
    [][\A n \in RunIds :
         /\ runs[n].status \in ClosedRunStatuses => runs'[n].status = runs[n].status
         /\ runs[n].status \in ActiveRunStatuses
              /\ runs'[n].status \in {"completed", "completed_with_errors"}
            => \A k \in RecordsOf(n) : rec[k].status \in SettledStatuses]_vars

\* Nothing reaches accepted storage, a Call or the call pipeline before it has
\* passed signature check, malware scan and media verification (SC-007).
InspectionGate ==
    /\ \A p \in DOMAIN files : p.dir = "accepted" => files[p] \in vetted
    /\ \A k \in Keys :
         /\ calls[k] # <<>> => k \in vetted
         /\ callQ[k] > 0 => calls[k] # <<>>
         /\ rec[k].status \in {"handoff_pending", "submitted"} => rec[k].checks = AllPassed

\* One source record gets one Call, and the Call's audio is the recording of
\* that record, however often the record is retried.
OneCallWithItsAudio ==
    \A k \in Keys :
        /\ Len(calls[k]) =< 1
        /\ \A j \in DOMAIN calls[k] :
             calls[k][j] \in DOMAIN files /\ files[calls[k][j]] = k

\* The call pipeline is told of a recording at most once (FR-006).
QueuedAtMostOnce == \A k \in Keys : callQ[k] =< 1

\* A Call that was committed but not marked as queued stays in reach of the
\* reconciler or of a retry that resumes the handoff.
HandoffStaysRecoverable ==
    \A k \in Keys : rec[k].call # 0 /\ ~rec[k].queued =>
        \/ rec[k].status \in {"accepted", "handoff_pending"}
        \/ RetryEligible(rec[k], TRUE)

\* Submitted and rejected records stay what they are.
VerdictsAreFinal ==
    [][\A k \in Keys : rec[k].status \in {"submitted", "rejected"} =>
         rec'[k].status = rec[k].status]_vars

\* The backoff is bounded: without an operator a record is attempted once
\* and retried AutomaticRetries times, whatever is delivered late or again.
RetriesAreBounded ==
    \A k \in Keys : rec[k].status # "submitted" =>
        rec[k].attempts =< AutomaticRetries + 1

\* While no worker dies and no message is lost, every record that was claimed
\* is settled in the end.
RecordsSettle ==
    \A k \in Keys : rec[k].status \in ActiveStatuses ~> rec[k].status \in SettledStatuses

-----------------------------------------------------------------------------
(* What the documents say and the code does not do                         *)

\* tasks.md T030: always close the run as completed, completed-with-errors or
\* failed.
RunsClose ==
    \A n \in RunIds :
        runs[n].status \in ActiveRunStatuses ~> runs[n].status \in ClosedRunStatuses

==============================================================================
