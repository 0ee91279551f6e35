# Verification of the Voice Call Rating Platform

The platform downloads call recordings listed in a sheet, vets them, turns each
into a `Call`, has workers transcribe and evaluate it, and serves the results to
agents, QA, HR and managers. This directory holds TLA+ models of the parts whose
correctness depends on the order in which processes act, the TLC runs that check
them, and proofs of their most important invariants.

## 1. The system

FastAPI processes, Celery workers, PostgreSQL and Redis
(`docker-compose.prod.yml`). The workers are of four kinds: `ingestion-download`,
`ingestion-inspection`, the GPU worker on queue `celery`, and beat. They share the
database rows, the storage layout and the queues, and nothing else. Three facts of
the deployment shape every model:

* Celery acknowledges a message when a worker takes it (no `acks_late`), so a
  worker that dies takes its message with it.
* Redis runs with `allkeys-lru`: it may drop queued messages.
* `SessionLocal` (`app/database.py:22`) has `autoflush=False` and expires objects on
  commit: a task works on the copy of a row it has read, and writes back, column by
  column, what differs from that copy.

| Component | State | Operations | Interacts with |
|---|---|---|---|
| Recording ingestion (`services/recording_ingestion.py`, `routers/recording_ingestion.py`, four tasks of `worker.py`) | runs, records, attempts, Calls, files in quarantine/accepted/rejected, three queues | request a run, read the sheet, claim and download rows, inspect, promote, hand off, retry, reconcile | sheet, clamd, media verifier, call analysis (publishes `process_call_audio`) |
| Call analysis (`process_call_audio_task`, `routers/audio.py`, `recovery.py`) | Call status, violations/QA pairs/candidates, outcome, queue | upload, bulk upload, transcribe, evaluate, startup recovery | ingestion, models, `call_updates` channel |
| Live calls (`routers/live.py`, `workers/*`) | sockets, pending flushes, `LiveSession` status | start, connect, reconnect, flush, evaluate | call analysis and its recovery |
| Interviews (`routers/interviews.py`, `interview_portal.py`, `services/interview_*`) | candidates, portal sessions, answers, assessments | invite, answer, complete, evaluate, decide, convert | evaluation worker, employees |
| Login and one-time codes (`routers/auth.py`) | challenges, rate limits, reset tokens | login, verify, reset | session policy |
| Session, device and shift policy (`services/security_policy.py`, `routers/security_admin.py`) | user sessions, trusted devices, shifts | create, validate, revoke | every request and socket |
| Violations and approval (`app/violations.py`, `routers/hr.py`) | agent violations | number, flag, QA approve, HR approve | call analysis |
| Employee import (`routers/hr.py`) | employees | check a batch, add its rows | administration, interviews |
| Administration (`routers/admin.py`, `services/role_permissions.py`) | roles, statuses, team leaders, QA scopes, permissions, campaigns, KPI thresholds | one edit per request | every access check |
| Team transfers (`routers/team_manager.py`, `admin.py`) | transfer requests, team assignments | request, cancel, review | team scope of managers |
| Role notes (`routers/notes.py`, `services/note_*`) | notes in threads | create, reply, read, move on, resolve, archive, delete | roles and teams |
| Golden pairs (`routers/review.py`) | one row each, a vector store | approve, reject | retrieval |
| Reporting, export, audit, e-mail | none of their own | queries | – |
| Transcription, acoustics, language model, media verifier | none | pure calls | – |

`PROJECT.json` lists every component with its status, and under `hazards` each
place where this code is hard to test. The hard behaviours are: tasks of several
processes on one row (a copy read before a commit of someone else and used after
it); decisions split over two commits by two workers (who closes a run); file
operations that are not part of the transaction; a worker's death between a commit
and a publish; repeated messages from retries, the reconciler and the recovery;
timers that meet late answers.

What makes each component correct:

* **Ingestion**: nothing enters accepted storage uninspected; a source record
  becomes at most one Call, with its own recording; a committed Call reaches the
  call pipeline, once; at most one run of a source is active and it is closed once;
  a verdict is final; retries are bounded; every claimed record is settled.
* **Call analysis**: a stored evaluation is complete and is the only one of its
  Call; a Call at rest shows a status that says what happened; every call settles.
* **Live**: a session is evaluated as one Call that holds the whole conversation,
  across reconnects and up to the stream's limit; a session everybody has left is
  flushed.
* **Interviews**: an answer is graded as it was handed in (the code keeps this only
  for one request at a time); a candidate is evaluated only on a finished interview; a person has one application per job and becomes at
  most one employee; a stored document stays readable; the review of a written test
  shows what was graded.
* **Accounts**: one live session per employee; a one-time code works once; the shift
  gate agrees with the roster on both dates of a shift that passes midnight; an open
  socket follows the policy.
* **Desks**: roles, leaders and scopes agree after every commit, and somebody can
  always manage accounts; transfers form a chain; one threshold of a scope is in
  force; deleted notes stay deleted; what the check of an atomic import has passed is
  refused later only for a reason that came later or that the check does not ask for;
  no violation counts for more than it is, and QA approves it before HR.

## 2. Modules

```
IngestionRecord          a source record's columns and the edits the code makes to them
  RecordingIngestion     the pipeline: runs, workers, inspection, handoff, retries, reconciler
    RecordingHandoff     refinement mapping to RowHandoff (the abstract promise)
      MCRecordingIngestion   TLC instances
      RecordingIngestionProofs   types; the run gate; custody of a record
        HandoffProofs            storage, verdicts, handoff, refinement, retries
          RunsAndRetriesProofs   runs close once; retries take turns; what is promised
CallPipeline             uploads, process_call_audio, startup recovery
  MCCallPipeline         TLC instances
  CallPipelineProofs     types; with one worker, whole evaluations and told Calls
LiveCall                 a live session: sockets, timers, flush, Redis stream, its Calls
  MCLiveCall             TLC instance
  LiveCallProofs         types; one evaluated Call, the whole conversation
Interview                jobs, applications, portal, answers and their worker, hiring
  MCInterview            TLC instances
  InterviewProofs        applications and hiring; answers, scores and their evidence
Accounts                 login, codes, sessions, devices, shifts, guarded sockets
  MCAccounts             TLC instance
  AccountsProofs         codes, live sessions, the shift gate
Directory   TeamRecords   Notes   Personnel   Violations   CandidateDocuments   WrittenTest
  MCDesks                the seven desks on one instance, one at a time
  DesksProofs            theorems about each of the seven
```

### RecordingIngestion

One source; sheet rows (`Rows`) map to source keys (`Keys`), keys to the file name
their URL ends in (`BaseNames`). An action is what one commit, one publish or one
file operation makes visible to the other processes; what a task does between two
of them is in the local state `dl` (a download worker), `job` (its row threads) and
`insp` (an inspection worker).

| State | Code |
|---|---|
| `runs`, `rec`, `tried`, `calls` | tables `recording_ingestion_runs`, `_records`, `_attempts`, `calls` |
| `files` | the storage layout: path to the key whose recording it holds |
| `runQ`, `retryQ`, `inspQ`, `callQ` | the Celery queues; `callQ` counts the `process_call_audio` messages ever published for a key |
| `web` | a run committed by the endpoint and not yet published |
| `vetted` | history: recordings that have passed the three checks |

| Actions | Code |
|---|---|
| `RequestRun`, `PublishRun(Fails)`, `StartScheduledRun`, `ReceiveRun`, `StartReading`, `ReadSheet`, `SheetReadFails` | `create_ingestion_run`, the endpoint, `execute_ingestion_run_task` |
| `MappingFails`, `ClaimExisting`, `ClaimNew`, `StoreDownload`, `CommitDownload`, `DownloadFails`, `PublishInspection(Fails)`, `PublishRetry(Fails)` | the row threads and `handle_claimed_recording_row` |
| `RequestManualRetry`, `RetryTimeComes`, `ReceiveRetry`, `SkipRetry`, `StartRetry`, `RetryFindsActiveRun`, `RetryHandoff(Conflicts)`, `RetryDispatch(Fails)`, `RetryMarkSubmitted` | `retry_ingestion_record` and its task |
| `ComputeResults`, `ApplyResults` | counting the results of a run and committing them with its status |
| `ReceiveInspection` ... `CloseRun` | `inspect_quarantined_recording` and `finalize_ingestion_run_if_ready` |
| `SelectHandoff`, `ClaimHandoff`, `Redispatch(Fails)`, `MarkReconciled`, `LeaseExpires` | `reconcile_committed_call_handoffs` |
| `DownloaderDies`, `InspectorDies`, `EndpointDies`, `MessageLost` | worker and endpoint deaths, Redis eviction |

Modelling decisions:

* A session's copy is the local `loaded` or `copy`, the pending changes `edit`;
  `Flush` writes the columns that differ from the copy, as the ORM does. That is how
  a stale copy can overwrite another worker's verdict.
* Retry messages are a set: Celery may deliver them in any order, and two equal ones
  are indistinguishable once the first has been handled. `early` marks a message
  whose countdown ends before `next_retry_at` (the truncation in
  `recording_ingestion.py:2183`).
* The reconciler's 300 s lease outlives a publish; a publish that raises has not
  delivered. Configuration does not change while the system runs, and the feature
  flag `Enabled` is TRUE in all runs.
* Sheet parsing, host checks, signature, scanner and verifier are reduced to their
  outcomes; timestamps to whether they have passed.

### RowHandoff and RecordingHandoff

`RowHandoff` is what the pipeline promises of each record: claimed once, refused or
made into one Call, submitted, and only then acknowledged. Submission is exactly
once, or at least once where the reconciler works (`ExactlyOnce <- ~Reconciling`).
`RecordingHandoff` reads the stage off the record's row and its Calls, and
`ImplementsHandoff` says every step of the pipeline is a step of that promise or
leaves it alone.

### CallPipeline

`call` is the row (status, whether its audio exists, whether it is older than five
minutes), `parts` the evaluations whose violations, QA pairs or candidates are
stored, `outcome` the evaluation that stored the unique `call_outcomes` row,
`queue` the messages, `wk` the workers with the status their session read (`seen`),
`boot` the startup recovery. Evaluations are numbered by the tasks started on the
Call. One action stands for each stretch of `process_call_audio_task` between two
commits, each early return and each error handler; `ReportFails` for the handler
that marks a Call FAILED after its commit because the publish of the status (or the
mastery update) raised; `Die` for the worker's death. `SetStatus` writes only when
the new status differs from the one read, so a status reset behind the worker's
back stays. The three queries of `recovery.py` run back to back and are one step.
`disturbed` (history) are the calls whose last message a fault swallowed or cut
short: nothing in the code promises them anything until a recovery sends another.

### LiveCall

One session (sessions do not meet). The API is one event loop, so an action is what
a coroutine does between two awaits.

| State | Code |
|---|---|
| `session` | `live_sessions.status` |
| `conn`, `buffer` | the socket handlers; whose buffer `active_asr_sessions` holds |
| `task`, `pending` | the `background_flush` tasks; the one `pending_flushes` holds |
| `stream`, `wav`, `sent` | packets in the Redis stream, in the file being assembled, received |
| `calls` | the Calls made from the session; `work` is the message of each and the task that takes it |

`Connect`, `Refuse`, `Push`, `PushNotArchived`, `Leave`, `Drain`, `Close` are the
socket handler with its `finally`; `WindowPasses`, `ReadStream`, `Assemble`,
`TranscriptionFails` (caught: the Call is made without the agent), `PublishFails`,
`FlushFails` are `background_flush` and `flush_live_session` with their error paths;
`Restart` loses the tasks and buffers of the process. `StreamLimit` is the `maxlen` of
`archive_agent_chunk`, 10 000 packets or some sixteen minutes in the code: a stream at
the limit loses its oldest packets, as many as Redis' approximate trimming chooses
(`Trimmed`).

`StartEvaluation`, `FinishEvaluation`, `CloseEvaluation` are `evaluate_live_call` up to
its first commit, up to the commit of EVALUATED, and the publish and the mastery update
after it. `EvaluationFails` is its handler, which also catches what happens after that
commit and then turns an evaluated Call into FAILED; `CommitRefused` is the handler
after a failing flush or commit: it does not roll back, so its own commit raises too and
the Call keeps its status without a task. The startup recovery (`recovery.py:18`) may
send such a Call, or one that was never published, to `process_call_audio`; it belongs
to `CallPipeline`, and `OneCallIsEvaluated` counts what the flush has published.

`disturbed` (history) records that a socket met an older one, a running flush or
the end of the session, or that something failed.

### Interview

The rows of one person (one e-mail, one national ID): rows of different people do not
meet. An endpoint without an await, a publish or a bcrypt call is one step; a
submission is two (the row is read before the audio is awaited) and a publish, a
conversion two, the worker's task three (`Receive`, `Consult`, `Grade` or
`GradeFails`), because the session keeps the copies it loaded while the language
model answers. `Ready` and `Synced` are `sync_candidate_interview_state`, evaluated
on those copies. `order` is the order by `applied_at`, from which a registration
takes the row it reuses. Times are what the code asks of them: `recent` (duplicate
window), `done` (cooldown), `late` (expiry), `overdue` (time limit), `old`
(retention). The branch of `validate_and_transition` that sends an invitation is
never reached and left out; an invitation whose e-mail fails after the audit's commit
is an `Invite` nobody uses.

### Accounts

A request that checks and commits later is two or three steps (`Login` then
`SendCode` or `IssueToken`; `VerifyCode`, `CommitVerified`, `IssueToken`;
`ReadReset`, `CommitReset`), with everything else in between; `RequestFails` ends it
anywhere. `enrols` is the first device, flushed with the request and committed with
whatever it commits next. The shift rows of a date are compared with the clock by
`Covers`, as `check_shift_time_allowance` does; `OnShift` is `is_shift_allowed`, which
reads the rows of today and yesterday; `InShift` is the roster, the shift with both
graces on the line of time, whichever dates they reach.
`Connect` and `Revalidate` are the guarded sockets. The signed token is the session
row it was issued with.

### The desks

Seven small modules, each a set of rows edited by requests served one at a time.

| Module | Code | What makes it more than row edits |
|---|---|---|
| `Directory` | `routers/admin.py`, `role_permissions.py` | `log_audit_event` commits, so a handler is a list of commits (`todo`) and `ApiDies` may come between two |
| `TeamRecords` | `team_manager.py`, `admin.py` | requests reviewed late; thresholds switched on again; campaigns deleted |
| `Notes` | `routers/notes.py`, `note_scope.py`, `note_recipients.py`, `note_retention.py` | access rules by role, recipient, subject and thread |
| `Personnel` | `import_bulk_agents` of `routers/hr.py` | two passes of which the second checks the default password too, a commit or a rollback per row, other arrivals between |
| `Violations` | `app/violations.py`, approvals of `routers/hr.py` | two workers number rows from counts they read before they insert; `mingled` and `thinned` (history) mark numbers read beside others, and rows a redo took away below others |
| `CandidateDocuments` | uploads, `interview_file_crypto.py`, backfill, retention | files are no part of the transaction; restarts |
| `WrittenTest` | `interview_mcq.py` and its endpoints | ids are renumbered; the bank is edited between page, grading and review; only questions of the categories iq and computer are reviewed with a verdict |

They share no state. `MCDesks` follows one desk per behaviour (`focus`) while the
others rest in an initial state: what is checked is the union of their state spaces.
Teams, their managers and first assignments come from the seed data, as in the code.

## 3. Runs

`CHECK_DEADLOCK FALSE` everywhere: the system may be idle, and runs and faults are
bounded.

| Run | Instance | Shows |
|---|---|---|
| `MCFaults` | two recordings of one file name, one downloader with one thread, two inspectors, two runs, one death, one lost message, reconciler, symmetry | `TypeOK`, `InspectionGate`, `OneCallWithItsAudio`, `RunOutlivesItsWorker`, `RunsCloseOnce`, and the refinement `ImplementsHandoff` |
| `MCRetries` | two rows with one key, two inspectors, three runs, automatic and manual retries, failing broker, one death, one loss | `VerdictsAreFinal`, `QueuedAtMostOnce`, `HandoffStaysRecoverable` |
| `MCRaces` | two downloaders, manual and automatic retries, failing broker: one recording in three runs with one inspector, or two recordings of one file name in two threads of one run, with two inspectors and the reconciler (`RunsOrRecordings`); symmetry | `OneActiveRun`, `OneWorkerProcesses` |
| `MCSettles` | one row, two downloaders, three runs, automatic retries, failing broker, fairness | `RetriesAreBounded`, `RecordsApart` (retries take turns), `RecordsSettle` |
| `MCCalls` | two calls (one from the ingestion), one worker, one resubmission, one recovery, one fault, fairness | `EvaluationIsWhole`, `RestingCallsAreTold`, `CallsSettle` |
| `MCLive` | three connections, three packets and a stream of two, two faults, fairness | `OneCallIsEvaluated`, `QuietSessionsAreWhole`, `AbandonedSessionsEnd`, `PublishedCallsSettle` |
| `MCInterviews` | one candidate, job and session of two questions, one tab, one worker, one decision, two passings of time, one fault, fairness | `EvaluatedOnEvidence`, `AnswersSettle`, `CompletedSettles` |
| `MCHiring` | two rows of one person, two jobs, two requests of staff with two codes, three decisions, symmetry | `OneRowPerJob`, `OneEmployeePerPerson` |
| `MCAccounts` | one employee, device, socket and request, two sessions and codes, a night shift over two dates of two instants whose early grace can reach the date before, two edits | `OneLiveSession`, `CodesWorkOnce`, `GateFollowsRoster`, `SocketsFollowPolicy` |
| `MCDesks` | three employees and two teams; two agents, three teams, two managers, three requests, three thresholds; four writers with five messages, two notes; an import of two rows and one newcomer with three claims; two workers, two calls, two kinds; four documents, two of them old, two restarts; banks of two questions, two edits | `SomebodyManages`, `LeadershipFollowsRole`, `TransfersAreAChain`, `OneThresholdInForce`, `OnlyAdminsReviveDeleted`, `LateRefusalsHaveACause`, `NoneCountedAbove`, `OccurrencesCountUp`, `DocumentsReadable`, `ReviewShowsWhatWasGraded` |
| `MCRunStaysOpen` | one run, one record, no faults, fairness | `RunsClose` is violated (below) |
| `MCTwoTabs` | one interview of one question in two tabs, no faults | `GradesWhatIsStored` is violated |

The bounds are the smallest in which each race has all its parties: two records for
a clash of names or of counts, two rows for a clash of keys, two downloaders and two
inspectors for two retries or two verdicts, three runs for a record that is claimed,
retried and retried again, one automatic retry (the code has three) so that the end
of the backoff table is reached, one fault of each kind so that recovery from it is
complete. `MCCalls` also holds with two recoveries and two faults. The runs with a
reconciler have a working broker or do not check the handoff's order: a publish
that fails in the reconciler sets a submitted record back to `handoff_pending`
(`Redispatch(Fails)`), which breaks the acknowledged order and `RunsCloseOnce`.
`MCRaces` follows two parts of one state space and cuts what lies between (the
constraint `RunsOrRecordings`): the runs compete over one recording, and files vanish or
change under an inspection in one run over two. Its properties hold of any state of the
pipeline, as their theorems show, so no fault or restart is added to it.
`MCLive` has an old socket, its successor and a third that meets what both left, and
one packet more than the stream holds;
`MCInterviews` the last answer and one before it, `MCHiring` a row that is moved to
the job of another; the clock of `MCAccounts` has an instant on each side of
midnight and a shift that crosses it, and two sessions so that the second could be
one too many. In `MCDesks` a third employee can lose a team to a second, the second
question can have the id of the first or its own position, a third request comes after
an approved and a cancelled one, two listed violations can be of one kind, and a second
restart finds what the first left half done.

`MCAccounts` has one request in progress and `MCInterviews` one tab and one worker:
with two requests the code breaks `OneLiveSession` and `CodesWorkOnce`, with two tabs
`GradesWhatIsStored` (below). The theorems of section 4 need less than that: any number
of requests and tabs, of which no two hold one code, open a session for one employee or
submit one answer. The desks handle one request at a time, except where a desk's own
steps interleave (the commits of `Directory`, the import, the workers of `Violations`,
the uploads). Two handlers of one desk that overlap are not modelled: where a check of
theirs has no constraint behind it, as that of `_check_duplicate_active_threshold` and of
`_prevent_self_lockout`, nothing is claimed of them.

`TypeOK` of `CallPipeline` and of `LiveCall` is proved (`TypeCorrect`) and in no run;
that of `Interview` and of `Accounts` is stated in the module, and the proofs have their
own typing invariants.

Fairness: Celery serves its queues and a worker finishes what it has begun
(`Fairness`, `FairSpec`), an endpoint publishes what it has committed, countdowns
end. Nothing is assumed of operators, beat, the reconciler, arrivals or faults.
`RecordsSettle` is checked without deaths and losses, because the code has no
answer to them (a record whose inspection message is lost stays quarantined for
good); `CallsSettle` excludes `disturbed` calls for the same reason. In `Interview`
a request that has begun to publish ends and a worker takes messages and ends tasks;
`AnswersSettle` and `CompletedSettles` end where a fault occurred. In `LiveCall` the
event loop runs what is ready and the timers that are due, and the worker its tasks;
nothing makes a client connect, speak or leave, and the worker's death is left to
`CallPipeline`. In `Accounts` only `Revalidate` is fair: `asyncio.wait_for` ends
although the client is silent.

### Where the code disagrees with its documents

Two runs end with a counterexample; `findings` in `PROJECT.json` quotes the document,
comment or test that each contradicts:

* `MCRunStaysOpen`: the inspection ends between the download worker's count and its
  commit, so nobody closes the run and the source is blocked (`RunsClose`).
* `MCTwoTabs`: two submissions of one answer read it before either has awaited its audio
  (`interview_portal.py:618`); the worker grades one text and the row stores the other.
  The test `test_candidate_cannot_reanswer_same_question` has the two one after the
  other.

The following were met as counterexamples on instances with more processes, or while
reading; no run keeps them, and the runs or the properties above leave their cases out:

* Two threads choose the same free quarantine path (`recording_ingestion.py:1280`)
  and one recording replaces the other: `OneCallWithItsAudio` fails with two threads.
* The reconciler takes a handoff that an inspection is carrying out for an interrupted one
  (`recording_ingestion.py:2720`), and the Call is queued twice: `QueuedAtMostOnce` fails
  with a reconciler, and no fault is needed. `tasks.md:208` has "enqueue the existing call
  ID exactly once".
* A countdown truncated to seconds (`recording_ingestion.py:2183`) delivers a retry
  before `next_retry_at`; it is answered "not due" and nothing sends it again.
* A retry prepared on a stale copy (`recording_ingestion.py:2611`) sets a submitted
  record back: `VerdictsAreFinal` fails with two downloaders. If the reconciler is just
  handing the record over, it ends submitted without its checks: `InspectionGate` fails.
* Two workers with two messages of one Call (`worker.py:708`): the second deletes the
  first's evaluation records and keeps its outcome.
* An interview completed after its last answer was graded stays `interviewing`
  (`interview_portal.py:751` does not recompute the state); so does one whose two
  last answers were graded by two workers that missed each other.
* Two logins at once both pass the single-session rule (`security_policy.py:373`), two
  verifications of one code both succeed (`auth.py:534`): `OneLiveSession` and
  `CodesWorkOnce` fail with two requests. A password reset leaves the sessions opened
  with the old password active.
* A reconnect that cancels a flush past its window leaves the session `FLUSHING` for
  good (`live.py:120`); a restart loses the timers of abandoned sessions.
* `get_occurrence` (`violations.py:257`, "Returns the next occurrence number") does not
  see the rows the same session has added, because of `autoflush=False`: two violations
  of one kind in a call get one number and the lighter penalty twice.
* A failed evaluation commits its violations without an outcome (`worker.py:1158`), and
  its redo deletes them below later ones, whose numbers are then too high
  (`NoneCountedAbove` excepts it).
* A commit that the database refuses in `evaluate_live_call` leaves the Call PROCESSING,
  and a status that cannot be published turns an evaluated one into FAILED
  (`worker.py:1354`); `process_call_audio` has the second as well (`worker.py:1142`).
* A mailed code is used up by a request that fails before the session or the new
  password exists (`auth.py:601`).
* The grace before a shift that begins at midnight, or less than the grace after it, lies
  on the date before, where the gate does not read the shift's row
  (`security_policy.py:164`), so the login is refused. `protect_rollout_runbook.md:167`
  has "Minutes of early access allowed before shift start time".
* Of an atomic import a weak default password, a claim that another request took, or a
  row that the database refuses is found in the second pass only (`hr.py:980`, `:1003`),
  when rows before it are committed; the rows after it follow. The docstring
  (`hr.py:792`) has any validation failure fail the entire import.
* A note `RESOLVED` through the status endpoint gets no `resolved_at` and is never
  archived by the retention; one deleted reply closes its whole thread to
  non-administrators (`notes.py:253`); archiving a deleted note shows it again.
* HR may demote or deactivate the last administrator, and nobody can then make
  another; `SomebodyManages` promises only that somebody manages accounts.
* A restart between the encryption of a stored file and its commit encrypts it again
  (`interview_file_crypto.py:20`); two staff uploads of one name in one second share a
  path (`interviews.py:1321`).
* A golden pair may be rejected after its approval and stays in the vector store; a
  commit that fails leaves the answer there too, and the next approval adds it again
  (`review.py:79`).

Further divergences met while reading, outside the models: `data-model.md:89` and
`:98` have a submitted record with a changed URL go to `requires_review`, which no
code sets; `quickstart.md:39` has a manual run with the feature flag off, in which
the inspection task drops its message and the run cannot complete.

## 4. Proofs

TLAPS proves these theorems for every value of the constants: any number of rows,
keys, runs, workers, calls, people, requests, faults. Every safety invariant and
every `[][A]_vars` property of a passing run is stated by one of them; what is left to
TLC alone is liveness (below).

| Module | Theorem | Statement |
|---|---|---|
| `RecordingIngestionProofs` | `TypeCorrect` | `Spec => []TypeOK` |
| | `OneActiveRunAlways` | `Spec => []OneActiveRun` |
| | `OneWorkerProcessesAlways` | `Spec => []OneWorkerProcesses` |
| | `RunOutlivesItsWorkerAlways` | `Spec => []RunOutlivesItsWorker` |
| | `CustodyInvariant` | `Spec /\ []RecordsApart => []Custody` |
| `HandoffProofs` | `NothingPassesUnvetted` | `PathsApart => (Spec /\ []RecordsApart => []InspectionGate)` |
| | `OneCallOneAudio` | `PathsApart => (Spec /\ []RecordsApart => []OneCallWithItsAudio)` |
| | `QueuedOnce` | `~Reconciling => (Spec /\ []RecordsApart => []QueuedAtMostOnce)` |
| | `StaysRecoverable` | `Orderly => (Spec /\ []RecordsApart => []HandoffStaysRecoverable)` |
| | `VerdictsStay` | `Orderly => (Spec /\ []RecordsApart => VerdictsAreFinal)` |
| | `KeepsThePromise` | `Orderly => (Spec /\ []RecordsApart => ImplementsHandoff)` |
| | `RetriesEnd` | `Orderly /\ ~ManualRetry => (Spec /\ []RecordsApart => []RetriesAreBounded)` |
| `RunsAndRetriesProofs` | `RunsCloseOnceAlways` | `Orderly => (Spec /\ []RecordsApart => RunsCloseOnce)` |
| | `RetriesTakeTurns` | `~ManualRetry /\ ~Reconciling => (Spec => []RecordsApart)` |
| | `WorkersStayApart` | `WorkersApart => (Spec => []RecordsApart)` |
| | `OnlyVettedPass` | `WorkersApart /\ PathsApart => (Spec => []InspectionGate)` |
| | `CallsHaveTheirAudio` | `WorkersApart /\ PathsApart => (Spec => []OneCallWithItsAudio)` |
| | `CallsAreQueuedOnce` | `WorkersApart /\ ~Reconciling => (Spec => []QueuedAtMostOnce)` |
| | `CallsStayInReach` | `WorkersApart /\ Orderly => (Spec => []HandoffStaysRecoverable)` |
| | `VerdictsAreKept` | `WorkersApart /\ Orderly => (Spec => VerdictsAreFinal)` |
| | `PromiseIsKept` | `WorkersApart /\ Orderly => (Spec => ImplementsHandoff)` |
| | `RetriesAreFinite` | `WorkersApart /\ Orderly /\ ~ManualRetry => (Spec => []RetriesAreBounded)` |
| | `RunsAreClosedOnce` | `WorkersApart /\ Orderly => (Spec => RunsCloseOnce)` |
| `CallPipelineProofs` | `TypeCorrect` | `Spec => []TypeOK` |
| | `OneWorkerEvaluatesWhole` | `OneWorker => (Spec => []EvaluationIsWhole)` |
| | `RestingCallsTold` | `OneWorker => (Spec => []RestingCallsAreTold)` |
| `LiveCallProofs` | `TypeCorrect` | `Spec => []TypeOK` |
| | `EvaluatedOnce` | `Spec => []OneCallIsEvaluated` |
| | `WholeConversation` | `Spec => []QuietSessionsAreWhole` |
| `InterviewProofs` | `OneApplication`, `OneHire` | `Spec => []OneRowPerJob`, `Spec => []OneEmployeePerPerson` |
| | `EvaluationHasEvidence` | `Spec /\ []SubmissionsApart => EvaluatedOnEvidence` |
| `AccountsProofs` | `CodesWork` | `Spec /\ []CodesHeldApart => []CodesWorkOnce` |
| | `OneSession` | `Spec /\ []LoginsApart => []OneLiveSession` |
| | `GateReadsRoster` | `Spec => []GateFollowsRoster` |
| `DesksProofs` | `LeadersLead`, `ManagersRemain` | `DirectorySpec => []LeadershipFollowsRole`, `... => []SomebodyManages` |
| | `TransfersChain`, `OneThreshold` | `TransfersSpec => []TransfersAreAChain`, `ThresholdsSpec => []OneThresholdInForce` |
| | `AdminsRevive` | `NotesSpec => []OnlyAdminsReviveDeleted` |
| | `LateRefusals` | `PersonnelSpec => []LateRefusalsHaveACause` |
| | `Readable` | `DocumentsSpec => []DocumentsReadable` |
| | `OccurrencesCount` | `ViolationsSpec => [](NoneCountedAbove /\ OccurrencesCountUp)` |
| | `ReviewIsFaithful` | `TestSpec => []ReviewShowsWhatWasGraded` |

### The hypotheses

Each one excludes a case in which the code breaks the property; the counterexample is
in section 3. None is an assumption of a module: the specifications contain the
excluded cases, and a theorem says which of them it needs left out.

* `RecordsApart`: no two download workers are busy with one record. It speaks of
  states, stands beside `Spec` as `[]RecordsApart`, and is itself a property that
  `MCSettles` checks.
* `WorkersApart`: nobody retries by hand and the reconciler is off
  (`~ManualRetry /\ ~Reconciling`), or one process takes the messages of queue
  `ingestion-download`. It is about the configuration alone and implies
  `[]RecordsApart` (`WorkersStayApart`). `docker-compose.prod.yml:207` starts the worker
  of that queue without `-c`, so Celery forks as many processes as it sees cores: that
  deployment is covered while nobody retries by hand and nothing is reconciled, and
  with one core or `-c 1` always. The row threads, the inspectors, the API and beat are
  any number in both.
* `PathsApart`: no two source keys have URLs that end in one file name, or the
  downloader has one row thread (`Concurrency =< 1`).
* `Orderly`: no reconciler, or no failing publish. A publish that fails in the
  reconciler sets a submitted record back.
* `~Reconciling`, `~ManualRetry`: the reconciler is off; operators request no retry.
  The first is needed for "at most once"; the second for `RetriesEnd` because a manual
  retry of a failed record has no bound in the code either.
* `OneWorker`: one process takes the messages of queue `celery`
  (`docker-compose.prod.yml:168`, likewise without `-c`).
* `SubmissionsApart`: of the requests of the candidate's tabs no two wait for the
  audio of the same answer. `CodesHeldApart`: no two requests have read one code and
  not yet acted upon it. `LoginsApart`: no two requests are about to open a session for
  one employee (both past the policy, and not merely to mail a code). They speak of
  states, not of a constant, and stand beside `Spec` as `[]H`. Resets, logins that send
  codes, and any requests of different employees or with different codes may overlap.

The assumptions on constants are those of the modules' `ASSUME`s (constants are of the
right kind, NULL is no value); each is evaluated in every passing run.

### The arguments

*Custody of a record* (`RecordingIngestionProofs`). While no two download workers are
busy with one record, a record is in one hand at a time. `CustodyAt(k)` says it for
every key `k`: its columns agree with each other and with its Calls (`RowAt`); at most
one row thread carries it
(`JobsAt`), at most one inspector works on it (`InspectorsAt`), at most one inspection
message refers to it (`QueueAt`), and these three exclude each other; whoever works
from a copy has a copy that still is the row (`SameRow`). A stale copy overwriting a
newer verdict is thereby impossible, and that is what all the rest needs. The proof
runs per action over the keys it is about; `StepKeeps(S)` is the frame for the others.

*Storage* (`HandoffProofs`). `Storage` says where each file is: the row of a quarantined
record names a path that holds that key's recording (`There`), a Call names one in
accepted storage (`Kept`), and everything there is `vetted`. It is inductive because
names are made unique with the key's suffix (`FilesNamed`), the move is a rename, and
`PathsApart` keeps two downloads from choosing one free path. `InspectionGate` and
`OneCallWithItsAudio` follow.

*Handoff.* `HandoffAt(k)` ties the row's status to the number of `process_call_audio`
messages: nothing is marked submitted before it is queued (`JobTold`, `InspectorTold`),
`queued_at` is set exactly on submitted rows, and a record with a Call is in a status
from which the reconciler or a retry resumes (`RowTold`). From what one step may do to
a row and its queue (`RowMoves` and the lemmas per action) follow `VerdictsAreFinal`
and the refinement: `RecordingHandoff` maps every initial state to one of `RowHandoff`
and every step to one of its steps or to a stutter. `RetriesEnd` adds that a retry is
scheduled only while the backoff list has a delay left.

*The run gate* (`RecordingIngestionProofs`). `OneActiveRun` is not inductive: an
inspector could close the run of a working downloader, after which a second run is
created. `RunGate` adds that a queued run is REQUESTED, that the run a worker processes
is active and has no counts yet, that only one worker holds it, and that an inspector
about to close a run has seen its counts. Counts are committed in the step that ends
the processing, so no inspector closes a run under its worker.

*Closing* (`RunsAndRetriesProofs`). `Closing` adds that an inspector about to close a run
is right (every record of the run is settled, and whoever closed it before came to the
same verdict), that a worker about to complete a run has settled records only, and that
a retry run knows its one record. `RunsCloseOnce` follows.

*Retries take turns* (`RunsAndRetriesProofs`). What keeps two download workers off one
record is in three places of the code: the run gate (one worker processes rows), the
guard of `prepare_ingestion_record_retry` on `retry_scheduled` and on active runs, and
the fact that a retry is published once for each time it is scheduled. `OneTurn` is
the third: a scheduled retry is a turn, held by a message of the retry queue, by the
worker that has taken it, or by the row thread or inspector that has committed
`retry_scheduled` and is about to publish it. Every record has at most one, and only
while its status is `retry_scheduled`. A step leaves the turns of a record as they
are, passes one on, begins one by scheduling a retry, or ends it by starting the retry
(`TurnStep`, `TurnKept`; a lemma for each kind of step). This is where manual retries
and the reconciler are excluded: each brings a worker to the record without a turn.
`TurnsKeepApart` concludes from `OneTurn`, from the one worker that processes and from
custody that no two workers are busy with one record. That is what the steps of custody
and handoff assumed, so `Custody /\ Handoff /\ OneTurn` is inductive on its own, and the
theorems of `HandoffProofs` lose their hypothesis about states.

*The call pipeline* (`CallPipelineProofs`). `EvaluationIsWhole` needs that a Call has no
outcome and no leftovers when its evaluation is stored: `NoOutcomeYet`, `NothingLeft`.
For `RestingCallsAreTold` every Call is accounted for (`Accounted`): a message, upload
or recovery is still coming for it or a fault has cut it short (`Coming`), or its
status tells (`Told`), or the worker has it in hand. The hard case is a recovery that
resets the status in the middle of a task, because `SetStatus` then writes nothing:
`SeenIsTrue` says that the status the task has read is still the row's, unless
something is coming for the Call; the recovery queues all it resets (`ResetIsChosen`).

*Live calls* (`LiveCallProofs`). FLUSHING is a lock (`FlushInv`): one flush at a time,
and a Call is published only by the flush that makes the session COMPLETE, which is
never left. `QuietInv` follows the packets of an undisturbed session from socket to
stream, to file, to Call; a stream at its limit still has that many of the latest.

*Interviews* (`InterviewProofs`). `RowsInv` follows the unique keys through moves of a
reused row, deletions and the two-step conversion; `OneEmployeePerPerson` rests on the
unique national ID. `SubmittedOnce` says that an answer is submitted once, that a
waiting request finds it unsubmitted and a task grades the stored submission, and that
a completed session has every answer; a candidate that is `Ready` in a worker's copies
is then ready in the rows (`ReadyHasEvidence`).

*Accounts* (`AccountsProofs`). `CodesInv` says what a request knows of its code: unused
until its commit, not yet a session's after it. It also equates the password's version
with the number of used reset codes. `LiveInv` says that while the policy is enforced
nobody has a live session whose login is still on its way to one; it needs the types of
rows and requests (`TypesInv`) and nothing about codes. The roster theorem is
arithmetic: `Covers` of a row is that the instant lies between the ends of its shift
and graces (`RowRead`), so the dates the gate asks are the only matter; it claims
nothing of the date before a shift, where the gate does not look.

*The desks* (`DesksProofs`). `DirectoryInv` covers the state between two commits of one
request, where the API may die: what is left to commit is the status of an employee
whose role is already written, or the team of a leader already taken from the other
one; and somebody with the say is not the one being written. `TransfersInv` says a
request under review is the agent's latest and the assignment is where the approved
ones have led. `FilesInv` has a stored file encrypted once exactly if its row is
marked or the running backfill has just rewritten it. `BatchInv` says that the rows
of an accepted atomic batch that are still ahead pass the first pass's check, or have
lost a claim to somebody else since (`AheadOfImport`); a row of the batch takes nothing
from those ahead of it, because the first pass found no claim twice (`RowsAhead`).
`ViolationsInv` says that nothing a worker has numbered is ahead of the rows there are,
whoever numbers beside it (`NumberedNotAbove`, `CountedWithin`), and that until numbers
are read beside others (`mingled`) one worker at most has rows waiting for its commit,
each of them one of a kind, and their numbers continue the stored ones
(`NumberedAlone`). Until rows are taken away below others (`thinned`) the rows a redo
deletes are the last ones stored, so that what stays is a beginning of the table and
keeps its numbers.
`TestInv` says that a stored bank is numbered without repetition, so that normalizing
it again on the way to the review changes nothing (`NormalizeTwice`); the numbering is
a recursive function, and what it keeps (`IdsAreDistinct`, `DistinctIdsStay`) is proved
from its recursion equation, position by position (`UpTo`).

### Invariants before theorems

Each inductive invariant was model-checked before it was proved, on instances that
include the second party its hypothesis allows: custody, storage and handoff with two
threads, two inspectors, retries, the reconciler or a failing broker, and a death
(65 000 to 1.1 million states), and again with two downloaders whose steps were kept
to those with `RecordsApart'` (100 000 to 970 000); the turns with two downloaders,
with three, and with two inspectors and a lost message (31 000 to 89 000); the closing
of runs on five such instances; the interviews with two tabs or two workers (350 000
and 510 000); the accounts with two
requests of one employee (500 000 and 620 000 under the two hypotheses); the call
pipeline with two recoveries and two faults (1.4 million). The counterexamples of
section 3 with two downloaders, two tabs and two requests are what these checks,
without the hypotheses, ended with; those with two downloaders need a manual retry or
the reconciler, which is how `RetriesTakeTurns` was found.

### What stays with TLC

* Liveness under fairness, which needs ENABLED: `RecordsSettle`, `CallsSettle`,
  `AnswersSettle`, `CompletedSettles`, `SocketsFollowPolicy`, `AbandonedSessionsEnd`,
  `PublishedCallsSettle`.

## 5. Not modelled, and the plan

Not modelled: the content of transcripts, evaluations and reports, score arithmetic
and mastery statistics (derived data), the transcription of live audio, text
extraction, the entries of `VIOLATION_REGISTRY` (a constant here), the login limiters,
e-mail delivery, audit rows as data, golden pairs, team leader and operations
reporting, analytics, export, the preview of an import, the front end and the
deployment scripts. They are read-only, pure, or output that nothing reads back,
except golden pairs: two handlers over one row, described above.

Within the modelled parts these paths are left out or narrowed:

* an exception after a publish that has succeeded, when the endpoint commits its audit
  row (`routers/recording_ingestion.py:99`): it would fail a run whose message is queued
  or taken;
* the unique key that decides between two claims of one source key
  (`recording_ingestion.py:748`) has no action of its own: the second INSERT waits for
  the first one's transaction (`BeingInserted`) and then takes the row for an existing
  one (`ClaimExisting`);
* exceptions, not deaths, between the `os.replace` of a promotion and its commit
  (`recording_ingestion.py:1906`);
* an exception after the outcome was added to the session of `process_call_audio`
  (`worker.py:1121`): its handler would commit FAILED together with the outcome;
* a registration's await of the CV (`interview_portal.py:312`): `Register` is one step;
  of two at once the unique constraint on person and job refuses one;
* `attempts += 1` of a wrong code (`auth.py:573`): one step, so that two wrong codes at
  once cannot count as one;
* cancelling a transfer by other holders of the workspace permission
  (`team_manager.py:266`): the model has the administrator and the requester;
* a file the start-up cannot encrypt (`interview_security_backfill.py:36`), which is
  passed over; a campaign deleted between the two passes of an import.

What is left to prove: which promises survive manual retries when several processes
take the download queue. `VerdictsAreFinal` does not, and no weaker statement has been
tried.
