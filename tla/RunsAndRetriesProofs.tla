------------------------- MODULE RunsAndRetriesProofs -------------------------
(***************************************************************************)
(* How a run ends: closed once, as completed only when its records have    *)
(* come to rest.  How retries take turns: why no two download workers are  *)
(* busy with one record while nobody asks for retries by hand.  And what   *)
(* is promised of recordings then, for any number of workers.              *)
(***************************************************************************)
EXTENDS HandoffProofs

-----------------------------------------------------------------------------
(* How a run is closed.  What a step may do to the row of a record: leave  *)
(* it its status and run, work on it while it is active, insert it for the *)
(* run of a worker, or take it into a retry run.                           *)

RowKeeps(a, b) == b.status = a.status /\ b.run = a.run /\ b.row = a.row
RowWorked(a, b) ==
    /\ a.status \in ActiveStatuses /\ b.status # "absent"
    /\ b.run = a.run /\ b.row = a.row
RowJoins(k) ==
    /\ rec[k].status = "absent" /\ rec'[k].status # "absent"
    /\ \E d \in Downloaders, r \in Rows :
         /\ KeyOf[r] = k /\ dl[d].pc \in {"rows", "retrying"}
         /\ job[d][r].pc \in {"transfer", "stored"}
         /\ rec'[k].run = dl[d].run /\ rec'[k].row = r
RowTaken(k) == \E d \in Downloaders : StartRetry(d) /\ k = dl[d].key

RowSteps(k) ==
    \/ RowKeeps(rec[k], rec'[k]) \/ RowWorked(rec[k], rec'[k])
    \/ RowJoins(k) \/ RowTaken(k)

LEMMA JobsStepRows ==
    ASSUME RecordsApart, TypeInv, TypeInv', Custody,
           NEW d \in Downloaders, NEW r \in Rows, JobStep(d, r)
    PROVE  \A h \in Keys : RowSteps(h)
<1>0. PICK k \in Keys : k = KeyOf[r]
  BY KeyOfType
<1>1. rec[k] \in Records
  BY DEF TypeInv, RecOK
<1>2. Carrying(d, r) => JobStatus(job[d][r].pc, rec[k].status)
  BY <1>0, CarriedStatus
<1>3. \A h \in Keys \ {k} : rec'[h] = rec[h]
  BY <1>0, JobStepFrame DEF StepKeeps, RowsKept
<1>4. SUFFICES RowSteps(k)
  BY <1>3 DEF RowSteps, RowKeeps
<1>5. CASE UNCHANGED rec
  BY <1>5 DEF RowSteps, RowKeeps
<1>6. CASE ClaimExisting(d, r) /\ ~UNCHANGED rec
  <2> PICK n : n = rec[k].attempts + 1
    OBVIOUS
  <2>1. rec'[k] = [rec[k] EXCEPT !.attempts = n]
    BY <1>0, <1>1, <1>6 DEF ClaimExisting, TypeInv, RecOK
  <2>2. RowKeeps(rec[k], rec'[k])
    BY <1>1, <2>1 DEF Records, RowKeeps
  <2> QED BY <2>2 DEF RowSteps
<1>7. ASSUME job[d][r].pc \in {"transfer", "stored"}, NEW b, b.status # "absent",
             b.run = Loaded(d, r).run, b.row = Loaded(d, r).row, rec'[k] = b
      PROVE  RowSteps(k)
  <2>1. rec[k].status \in {"absent", "downloading"} /\ dl[d].pc \in {"rows", "retrying"}
    BY <1>2, <1>7, WorkerOfJob DEF Carrying, JobStatus
  <2>2. CASE rec[k].status = "absent"
    <3>1. NewRecord(dl[d].run, r).run = dl[d].run /\ NewRecord(dl[d].run, r).row = r
      BY DEF NewRecord, NoRecord
    <3> QED BY <1>0, <1>7, <2>1, <2>2, <3>1 DEF Loaded, RowSteps, RowJoins
  <2>3. CASE rec[k].status = "downloading"
    BY <1>0, <1>7, <2>3 DEF Loaded, RowSteps, RowWorked, ActiveStatuses
  <2> QED BY <2>1, <2>2, <2>3
<1>8. ASSUME rec[k].status \in ActiveStatuses, NEW b, b.status # "absent",
             b.run = rec[k].run, b.row = rec[k].row, rec'[k] = b
      PROVE  RowSteps(k)
  BY <1>8 DEF RowSteps, RowWorked
<1>9. ASSUME NEW old \in Records, NEW category
      PROVE  /\ ApplyFailurePolicy(old, category).status # "absent"
             /\ ApplyFailurePolicy(old, category).run = old.run
             /\ ApplyFailurePolicy(old, category).row = old.row
  BY DEF ApplyFailurePolicy, Records
<1>10. CASE CommitDownload(d, r)
  <2> PICK old : old = Loaded(d, r)
    OBVIOUS
  <2> PICK new : new = Quarantined(old, job[d][r].path)
    OBVIOUS
  <2>1. JobAt(d, r, "stored") /\ rec'[k] = new
    BY <1>0, <1>10 DEF CommitDownload, TypeInv, RecOK
  <2>2. old \in Records
    BY <2>1, LoadedGood DEF JobAt
  <2>3. new.run = old.run /\ new.row = old.row /\ new.status = "quarantined"
    BY <2>2 DEF Quarantined, Records
  <2> QED BY <1>7, <2>1, <2>3 DEF JobAt
<1>11. CASE DownloadFails(d, r)
  <2> PICK old : old = Loaded(d, r)
    OBVIOUS
  <2>1. PICK category : FailJob(d, r, old, category)
    BY <1>11 DEF DownloadFails
  <2> PICK new : new = ApplyFailurePolicy(old, category)
    OBVIOUS
  <2>2. JobAt(d, r, "transfer") /\ rec'[k] = new
    BY <1>0, <1>11, <2>1 DEF DownloadFails, FailJob, TypeInv, RecOK
  <2>3. old \in Records
    BY <2>2, LoadedGood DEF JobAt
  <2> QED BY <1>7, <1>9, <2>2, <2>3 DEF JobAt
<1>12. CASE PublishInspectionFails(d, r) \/ RetryDispatchFails(d, r)
  <2> PICK new : new = ApplyFailurePolicy(rec[k], "automatic")
    OBVIOUS
  <2>1. rec'[k] = new /\ job[d][r].pc \in {"publish", "dispatch"}
    BY <1>0, <1>12 DEF PublishInspectionFails, RetryDispatchFails, JobAt, FailJob, TypeInv, RecOK
  <2>2. rec[k].status \in ActiveStatuses
    BY <1>2, <2>1 DEF Carrying, JobStatus, ActiveStatuses
  <2> QED BY <1>1, <1>8, <1>9, <2>1, <2>2
<1>13. CASE RetryHandoff(d, r) \/ RetryMarkSubmitted(d, r)
  <2>1. PICK new \in {HandoffPending(rec[k], rec[k].call), Submitted(rec[k])} : rec'[k] = new
    BY <1>0, <1>13 DEF RetryHandoff, RetryMarkSubmitted, TypeInv, RecOK
  <2>2. rec[k].status \in ActiveStatuses
    BY <1>2, <1>13 DEF RetryHandoff, RetryMarkSubmitted, JobAt, Carrying, JobStatus, ActiveStatuses
  <2>3. new.status # "absent" /\ new.run = rec[k].run /\ new.row = rec[k].row
    BY <1>1, <2>1 DEF HandoffPending, Submitted, Records
  <2> QED BY <1>8, <2>1, <2>2, <2>3
<1>14. CASE \/ MappingFails(d, r) \/ ClaimNew(d, r) \/ StoreDownload(d, r)
            \/ PublishInspection(d, r) \/ PublishRetry(d, r) \/ PublishRetryFails(d, r)
            \/ RetryHandoffConflicts(d, r) \/ RetryDispatch(d, r)
  BY <1>5, <1>14 DEF MappingFails, ClaimNew, StoreDownload, PublishInspection, PublishRetry,
     PublishRetryFails, RetryHandoffConflicts, RetryDispatch, tables
<1> QED BY <1>5, <1>6, <1>10, <1>11, <1>12, <1>13, <1>14 DEF JobStep

LEMMA InspectorsStepRows ==
    ASSUME RecordsApart, Orderly, TypeInv, TypeInv', Custody, Handoff,
           NEW i \in Inspectors, InspectorStep(i)
    PROVE  \A h \in Keys : RowSteps(h)
<1>1. CASE UNCHANGED rec
  BY <1>1 DEF RowSteps, RowKeeps
<1> SUFFICES ASSUME ~UNCHANGED rec,
                    \/ InspectMissingFile(i) \/ CommitVerdict(i) \/ CommitHandoff(i)
                    \/ DispatchFails(i) \/ MarkSubmitted(i)
             PROVE  \A h \in Keys : RowSteps(h)
  BY <1>1 DEF InspectorStep, BeginInspection, Inspect, InspectionRaises, MoveToRejected,
     MoveToAccepted, Dispatch, PublishLater, PublishLaterFails, FinalizeRun, CloseRun, tables
<1>2. Busy(i)
  BY DEF InspectMissingFile, CommitVerdict, CommitHandoff, DispatchFails, MarkSubmitted,
         InspectorAt, Busy, Working, HandingOver
<1>3. PICK k \in Keys : k = insp[i].key
  BY <1>2, BusyInspector
<1>4. \A h \in Keys \ {k} : rec'[h] = rec[h]
  BY <1>3, InspectorStepFrame DEF StepKeeps, RowsKept
<1>5. SUFFICES RowSteps(k)
  BY <1>4 DEF RowSteps, RowKeeps
<1>6. /\ rec[k] \in Records /\ InspectorGood(insp[i], rec[k])
      /\ InspectorTold(insp[i].pc, callQ[k], rec[k].status)
  BY <1>2, <1>3, BusyInspector DEF Handoff, HandoffAt
<1>7. ASSUME rec[k].status \in ActiveStatuses, NEW b, b.status # "absent",
             b.run = rec[k].run, b.row = rec[k].row, rec'[k] = b
      PROVE  RowSteps(k)
  BY <1>7 DEF RowSteps, RowWorked
<1>8. Working(i) => /\ insp[i].loaded \in Records /\ insp[i].edit \in Records
                    /\ rec[k].status \in ActiveStatuses /\ SameRow(insp[i].loaded, rec[k])
                    /\ EditGood(insp[i].pc, insp[i].loaded, insp[i].edit)
                    /\ insp[i].loaded.run = rec[k].run /\ insp[i].loaded.row = rec[k].row
                    /\ insp[i].edit.run = rec[k].run /\ insp[i].edit.row = rec[k].row
  BY <1>3, WorkingInspector DEF SameRow, EditGood, ActiveStatuses
<1>9. ASSUME NEW b \in Records, Working(i), b.status # "absent",
             b.run = rec[k].run, b.row = rec[k].row,
             rec' = [rec EXCEPT ![k] = Flush(insp[i].loaded, b, rec[k])]
      PROVE  RowSteps(k)
  <2>1. SameRow(Flush(insp[i].loaded, b, rec[k]), b)
    BY <1>6, <1>8, <1>9, FlushOfFresh
  <2>2. SameRow(rec'[k], b)
    BY <1>9, <2>1 DEF TypeInv, RecOK
  <2> QED BY <1>8, <1>9, <2>2 DEF SameRow, RowSteps, RowWorked
<1>10. CASE InspectMissingFile(i)
  <2>1. Working(i)
    BY <1>10 DEF InspectMissingFile, Working, InspectorAt
  <2>2. PICK b \in {MarkFailed(insp[i].loaded), Rejected(insp[i].loaded, insp[i].loaded.qpath)} :
          rec' = [rec EXCEPT ![k] = Flush(insp[i].loaded, b, rec[k])]
    BY <1>3, <1>10 DEF InspectMissingFile, TypeInv, RecOK
  <2>3. b.status # "absent" /\ b.run = rec[k].run /\ b.row = rec[k].row
    BY <1>8, <2>1, <2>2 DEF MarkFailed, Rejected, Records
  <2>4. b \in Records
    <3>1. insp[i].loaded.qpath \in NullablePath
      BY <1>8, <2>1 DEF Records
    <3> QED BY <1>8, <2>1, <2>2, <3>1, RecordStepTypes
  <2> QED BY <1>9, <2>1, <2>2, <2>3, <2>4
<1>11. CASE CommitVerdict(i)
  <2>1. /\ Working(i) /\ insp[i].pc = "commit"
        /\ rec' = [rec EXCEPT ![k] = Flush(insp[i].loaded, insp[i].edit, rec[k])]
    BY <1>3, <1>11 DEF CommitVerdict, Written, Working, InspectorAt
  <2> QED BY <1>8, <1>9, <2>1 DEF EditGood
<1>12. CASE CommitHandoff(i)
  <2>1. Working(i)
    BY <1>12 DEF CommitHandoff, Working, InspectorAt
  <2> PICK n : n = IF insp[i].edit.call # 0 THEN insp[i].edit.call ELSE Len(calls[k]) + 1
    OBVIOUS
  <2> PICK b : b = HandoffPending(insp[i].edit, n)
    OBVIOUS
  <2>2. rec' = [rec EXCEPT ![k] = Flush(insp[i].loaded, b, rec[k])]
    BY <1>3, <1>12 DEF CommitHandoff
  <2>3. n \in Nat
    <3>1. calls[k] \in Seq(Paths) /\ insp[i].edit.call \in Nat
      BY <1>8, <2>1 DEF TypeInv, CallsOK, Records
    <3> QED BY <3>1
  <2>4. b \in Records
    BY <1>8, <2>1, <2>3, RecordStepTypes
  <2>5. b.status = "handoff_pending" /\ b.run = rec[k].run /\ b.row = rec[k].row
    BY <1>8, <2>1 DEF HandoffPending, Records
  <2> QED BY <1>9, <2>1, <2>2, <2>4, <2>5
<1>13. CASE DispatchFails(i)
  <2> PICK new : new = ApplyFailurePolicy(rec[k], "automatic")
    OBVIOUS
  <2>1. rec'[k] = new /\ BrokerMayFail /\ insp[i].pc = "dispatch"
    BY <1>3, <1>13 DEF DispatchFails, TypeInv, RecOK, InspectorAt
  <2>2. rec[k].status \in ActiveStatuses
    BY <1>6, <2>1 DEF InspectorTold, Orderly, ActiveStatuses
  <2>3. new.status # "absent" /\ new.run = rec[k].run /\ new.row = rec[k].row
    BY <1>6 DEF ApplyFailurePolicy, Records
  <2> QED BY <1>7, <2>1, <2>2, <2>3
<1>14. CASE MarkSubmitted(i)
  <2> PICK new : new = Submitted(rec[k])
    OBVIOUS
  <2>1. rec'[k] = new /\ insp[i].pc = "mark"
    BY <1>3, <1>14 DEF MarkSubmitted, TypeInv, RecOK, InspectorAt
  <2>2. rec[k].status \in {"accepted", "handoff_pending", "submitted"}
    BY <1>6, <2>1 DEF InspectorGood
  <2>3. new.status = "submitted" /\ new.run = rec[k].run /\ new.row = rec[k].row
    BY <1>6 DEF Submitted, Records
  <2> QED BY <2>1, <2>2, <2>3 DEF RowSteps, RowKeeps, RowWorked, ActiveStatuses
<1> QED BY <1>10, <1>11, <1>12, <1>13, <1>14

LEMMA WorkersStepRows ==
    ASSUME RecordsApart, Orderly, TypeInv, TypeInv', Custody, Handoff,
           NEW d \in Downloaders,
           \/ DownloaderStep(d) \/ DownloaderReceives(d) \/ DownloaderDies(d)
           \/ StartScheduledRun(d) \/ SelectHandoff(d)
    PROVE  \A h \in Keys : RowSteps(h)
<1>1. CASE UNCHANGED rec
  BY <1>1 DEF RowSteps, RowKeeps
<1> SUFFICES ASSUME ~UNCHANGED rec,
                    StartRetry(d) \/ ClaimHandoff(d) \/ RedispatchFails(d) \/ MarkReconciled(d)
             PROVE  \A h \in Keys : RowSteps(h)
  BY <1>1 DEF DownloaderStep, DownloaderReceives, DownloaderDies, StartScheduledRun,
     SelectHandoff, StartReading, SheetReadFails, ReadSheet, RetryFindsActiveRun,
     ComputeResults, ApplyResults, ReceiveRun, ReceiveRetry, SkipRetry, Redispatch, tables
<1>2. dl[d] \in GoodWorkers
  BY DEF TypeInv, DlOK
<1>3. PICK k \in Keys : k = dl[d].key
  BY <1>2 DEF StartRetry, ClaimHandoff, RedispatchFails, MarkReconciled, GoodWorkers
<1>4. /\ rec[k] \in Records /\ WorkerGood(dl[d], rec[k]) /\ RowTold(rec[k])
      /\ RowGood(k, rec[k], calls[k])
  BY <1>3 DEF TypeInv, RecOK, Custody, CustodyAt, RowAt, WorkersAt, Handoff, HandoffAt
<1>5. \A h \in Keys \ {k} : rec'[h] = rec[h]
  BY <1>3 DEF StartRetry, ClaimHandoff, RedispatchFails, MarkReconciled, TypeInv, RecOK
<1>6. SUFFICES RowSteps(k)
  BY <1>5 DEF RowSteps, RowKeeps
<1>7. CASE StartRetry(d)
  BY <1>3, <1>7 DEF RowSteps, RowTaken
<1>8. CASE ClaimHandoff(d)
  <2>1. /\ rec'[k] = [rec[k] EXCEPT !.status = "handoff_pending", !.err = "dispatching"]
        /\ Reconcilable(rec[k])
    BY <1>3, <1>8 DEF ClaimHandoff, TypeInv, RecOK
  <2>2. /\ rec'[k].status = "handoff_pending"
        /\ rec'[k].run = rec[k].run /\ rec'[k].row = rec[k].row
    BY <1>4, <2>1 DEF Records
  <2> QED BY <2>1, <2>2 DEF Reconcilable, RowSteps, RowWorked, ActiveStatuses
<1>9. CASE RedispatchFails(d)
  BY <1>9 DEF RedispatchFails, Handoff, NoReconciler, Orderly, Reconcilers
<1>10. CASE MarkReconciled(d)
  <2> PICK new : new = Submitted(rec[k])
    OBVIOUS
  <2>1. rec'[k] = new /\ dl[d].pc = "remark"
    BY <1>3, <1>10 DEF MarkReconciled, TypeInv, RecOK
  <2>2. rec[k].spath # None /\ rec[k].call # 0 /\ Reconciling /\ ~BrokerMayFail
    BY <1>4, <2>1 DEF WorkerGood, RowGood, Handoff, NoReconciler, Orderly, Reconcilers
  <2>3. rec[k].status \in {"accepted", "handoff_pending", "submitted"}
    BY <1>4, <2>2 DEF RowTold
  <2>4. new.status = "submitted" /\ new.run = rec[k].run /\ new.row = rec[k].row
    BY <1>4 DEF Submitted, Records
  <2> QED BY <2>1, <2>3, <2>4 DEF RowSteps, RowKeeps, RowWorked, ActiveStatuses
<1> QED BY <1>7, <1>8, <1>9, <1>10

LEMMA NextStepsRows ==
    ASSUME RecordsApart, Orderly, TypeInv, TypeInv', Custody, Handoff, [Next]_vars
    PROVE  \A k \in Keys : RowSteps(k)
<1>1. CASE UNCHANGED rec
  BY <1>1 DEF RowSteps, RowKeeps
<1>2. CASE Clock
  <2>1. PICK k \in Keys : RetryTimeComes(k) \/ LeaseExpires(k)
    BY <1>2 DEF Clock
  <2>2. PICK new \in {[rec[k] EXCEPT !.timer = "expired"], [rec[k] EXCEPT !.err = "expired"]} :
          rec' = [rec EXCEPT ![k] = new]
    BY <2>1 DEF RetryTimeComes, LeaseExpires, TypeInv, RecOK
  <2>3. RowKeeps(rec[k], new)
    BY <2>2 DEF TypeInv, RecOK, Records, RowKeeps
  <2>4. rec'[k] = new /\ \A h \in Keys \ {k} : rec'[h] = rec[h]
    BY <2>2 DEF TypeInv, RecOK
  <2> QED BY <2>3, <2>4 DEF RowSteps, RowKeeps
<1>3. CASE \/ Operators \/ Faults
           \/ \E i \in Inspectors : ReceiveInspection(i)
  <2>1. CASE \/ RequestRun \/ PublishRun \/ PublishRunFails \/ EndpointDies \/ MessageLost
             \/ \E k \in Keys : RequestManualRetry(k)
             \/ \E i \in Inspectors : ReceiveInspection(i) \/ InspectorDies(i)
    BY <1>1, <2>1 DEF RequestRun, PublishRun, PublishRunFails, EndpointDies, MessageLost,
       RequestManualRetry, ReceiveInspection, InspectorDies, tables
  <2> QED BY <1>3, <2>1, WorkersStepRows DEF Operators, Faults
<1> QED BY <1>1, <1>2, <1>3, WorkersStepRows, JobsStepRows, InspectorsStepRows DEF Next, vars

\* What a step may do to a run: create it, move it on for its worker or for the
\* endpoint that could not publish it, or close it.
RunCreated(n) ==
    CanCreateRun /\ n = NextRun /\ runs'[n].status \in ActiveRunStatuses
RunWorked(n) ==
    /\ runs[n].status \in ActiveRunStatuses /\ ~runs[n].hasNew
    /\ runs'[n].status \in ActiveRunStatuses \cup {"failed"}
RunApplied(n) == \E d \in Downloaders :
    dl[d].pc = "apply" /\ n = dl[d].run /\ runs'[n].status = dl[d].verdict
RunClosed(n) == \E i \in Inspectors :
    insp[i].pc = "close" /\ n = insp[i].run /\ runs'[n].status = insp[i].verdict

RunSteps(n) ==
    \/ runs'[n] = runs[n]
    \/ RunCreated(n) \/ RunWorked(n) \/ RunApplied(n) \/ RunClosed(n)

LEMMA NextStepsRuns ==
    ASSUME RunGate, TypeInv', [Next]_vars
    PROVE  \A n \in RunIds : RunSteps(n)
<1>t. /\ runs \in [RunIds -> Runs] /\ dl \in [Downloaders -> GoodWorkers]
      /\ insp \in [Inspectors -> GoodInspectors]
  BY DEF RunGate, TypeInv, RunsOK, DlOK, InspOK
<1>1. CASE UNCHANGED runs
  BY <1>1 DEF RunSteps
<1>2. CASE CanCreateRun /\ \E s \in ActiveRunStatuses : CreateRun(s)
  <2>1. PICK s \in ActiveRunStatuses : CreateRun(s)
    BY <1>2
  <2>2. runs' = [runs EXCEPT ![NextRun] = [NoRun EXCEPT !.status = s]]
    BY <2>1 DEF CreateRun
  <2>3. [NoRun EXCEPT !.status = s].status = s
    BY DEF NoRun
  <2> QED BY <1>t, <1>2, <2>2, <2>3 DEF RunSteps, RunCreated
<1>3. ASSUME NEW m \in RunIds, runs[m].status \in ActiveRunStatuses, ~runs[m].hasNew,
             NEW s \in ActiveRunStatuses \cup {"failed"},
             runs' = [runs EXCEPT ![m].status = s]
      PROVE  \A n \in RunIds : RunSteps(n)
  <2>1. runs'[m].status = s /\ \A n \in RunIds : n # m => runs'[n] = runs[n]
    BY <1>t, <1>3 DEF Runs
  <2> QED BY <1>3, <2>1 DEF RunSteps, RunWorked
<1>4. CASE PublishRunFails
  <2>1. web \in RunIds /\ runs[web].status = "requested" /\ ~runs[web].hasNew
    BY <1>4 DEF PublishRunFails, RunGate, TypeInv, WebOK, PendingRunIsRequested
  <2>2. runs' = [runs EXCEPT ![web].status = "failed"]
    BY <1>4 DEF PublishRunFails
  <2> QED BY <1>3, <2>1, <2>2 DEF ActiveRunStatuses
<1>5. ASSUME NEW d \in Downloaders, StartReading(d) \/ SheetReadFails(d) \/ ReadSheet(d)
      PROVE  \A n \in RunIds : RunSteps(n)
  <2>1. Processing(d)
    BY <1>5 DEF StartReading, SheetReadFails, ReadSheet, Processing
  <2>2. /\ dl[d].run \in RunIds /\ runs[dl[d].run].status \in ActiveRunStatuses
        /\ ~runs[dl[d].run].hasNew
    BY <2>1, ProcessedRunType DEF RunGate, ProcessedRunsAreActive
  <2>3. PICK s \in ActiveRunStatuses \cup {"failed"} : runs' = [runs EXCEPT ![dl[d].run].status = s]
    BY <1>5 DEF StartReading, SheetReadFails, ReadSheet, ActiveRunStatuses
  <2> QED BY <1>3, <2>2, <2>3
<1>6. ASSUME NEW d \in Downloaders, ApplyResults(d) PROVE \A n \in RunIds : RunSteps(n)
  <2>1. Processing(d) /\ dl[d].pc = "apply"
    BY <1>6 DEF ApplyResults, Processing
  <2>2. dl[d].run \in RunIds
    BY <2>1, ProcessedRunType DEF RunGate
  <2>3. \A n \in RunIds : n # dl[d].run => runs'[n] = runs[n]
    BY <1>t, <1>6 DEF ApplyResults
  <2>4. runs'[dl[d].run].status = dl[d].verdict
    <3>1. CASE dl[d].verdict = "failed"
      BY <1>t, <1>6, <2>2, <3>1 DEF ApplyResults, Runs
    <3>2. CASE dl[d].verdict # "failed"
      BY <1>t, <1>6, <2>2, <3>2 DEF ApplyResults
    <3> QED BY <3>1, <3>2
  <2> QED BY <2>1, <2>3, <2>4 DEF RunSteps, RunApplied
<1>7. ASSUME NEW i \in Inspectors, CloseRun(i) PROVE \A n \in RunIds : RunSteps(n)
  <2>1. insp[i].pc = "close" /\ runs' = [runs EXCEPT ![insp[i].run].status = insp[i].verdict]
    BY <1>7 DEF CloseRun, InspectorAt
  <2>2. \A n \in RunIds : IF n = insp[i].run THEN runs'[n].status = insp[i].verdict
                                             ELSE runs'[n] = runs[n]
    BY <1>t, <2>1 DEF Runs
  <2> QED BY <2>1, <2>2 DEF RunSteps, RunClosed
<1>8. CASE Operators
  <2>1. CASE \E k \in Keys : RequestManualRetry(k)
    BY <1>1, <2>1 DEF RequestManualRetry, tables
  <2>2. CASE PublishRun \/ \E d \in Downloaders : SelectHandoff(d)
    BY <1>1, <2>2 DEF PublishRun, SelectHandoff, tables
  <2>3. CASE RequestRun \/ \E d \in Downloaders : StartScheduledRun(d)
    BY <1>2, <2>3 DEF RequestRun, StartScheduledRun, ActiveRunStatuses
  <2> QED BY <1>4, <1>8, <2>1, <2>2, <2>3 DEF Operators
<1>9. CASE Clock \/ Faults
  BY <1>1, <1>9 DEF Clock, RetryTimeComes, LeaseExpires, Faults, DownloaderDies, InspectorDies,
     EndpointDies, MessageLost, tables
<1>10. ASSUME NEW d \in Downloaders, DownloaderStep(d) \/ DownloaderReceives(d)
       PROVE  \A n \in RunIds : RunSteps(n)
  <2>1. CASE StartRetry(d)
    BY <1>2, <2>1 DEF StartRetry, ActiveRunStatuses
  <2>2. CASE \/ RetryFindsActiveRun(d) \/ ComputeResults(d) \/ ClaimHandoff(d) \/ Redispatch(d)
             \/ RedispatchFails(d) \/ MarkReconciled(d) \/ ReceiveRun(d) \/ ReceiveRetry(d)
             \/ SkipRetry(d)
    BY <1>1, <2>2 DEF RetryFindsActiveRun, ComputeResults, ClaimHandoff, Redispatch,
       RedispatchFails, MarkReconciled, ReceiveRun, ReceiveRetry, SkipRetry, tables
  <2> QED BY <1>5, <1>6, <1>10, <2>1, <2>2 DEF DownloaderStep, DownloaderReceives
<1>11. ASSUME NEW d \in Downloaders, NEW r \in Rows, JobStep(d, r)
       PROVE  \A n \in RunIds : RunSteps(n)
  <2>1. UNCHANGED runs
    BY <1>11 DEF JobStep, MappingFails, ClaimExisting, ClaimNew, StoreDownload,
       CommitDownload, DownloadFails, PublishInspection, PublishInspectionFails, PublishRetry,
       PublishRetryFails, RetryHandoff, RetryHandoffConflicts, RetryDispatch,
       RetryDispatchFails, RetryMarkSubmitted, tables
  <2> QED BY <1>1, <2>1
<1>12. ASSUME NEW i \in Inspectors, ReceiveInspection(i) \/ InspectorStep(i)
       PROVE  \A n \in RunIds : RunSteps(n)
  BY <1>1, <1>7, <1>12 DEF ReceiveInspection, InspectorStep, InspectMissingFile,
     BeginInspection, Inspect, InspectionRaises, MoveToRejected, MoveToAccepted, CommitVerdict,
     CommitHandoff, Dispatch, DispatchFails, MarkSubmitted, PublishLater, PublishLaterFails,
     FinalizeRun, tables
<1> QED BY <1>1, <1>8, <1>9, <1>10, <1>11, <1>12 DEF Next, vars

\* While a run is active and nobody processes its rows, its settled records
\* rest and no record joins them.
AllSettled(n) == \A k \in RecordsOf(n) : rec[k].status \in SettledStatuses

LEMMA SettledStay ==
    ASSUME RecordsApart, Orderly, RunGate, TypeInv', Custody, Handoff, [Next]_vars,
           NEW n \in RunIds, runs[n].status \in ActiveRunStatuses, AllSettled(n),
           \A d \in Downloaders : dl[d].pc \in {"rows", "retrying"} => dl[d].run # n
    PROVE  /\ RecordsOf(n)' = RecordsOf(n)
           /\ \A k \in RecordsOf(n) : rec'[k].status = rec[k].status
<1>1. \A k \in Keys : RowSteps(k)
  BY NextStepsRows DEF RunGate
<1>2. \A k \in Keys : ~RowTaken(k)
  BY DEF RowTaken, StartRetry, CanCreateRun, ActiveRuns
<1>3. ASSUME NEW k \in Keys
      PROVE  IF rec[k].status # "absent" /\ rec[k].run = n
             THEN rec'[k].status = rec[k].status /\ rec'[k].run = n
             ELSE ~(rec'[k].status # "absent" /\ rec'[k].run = n)
  <2>1. CASE RowKeeps(rec[k], rec'[k])
    BY <2>1 DEF RowKeeps
  <2>2. CASE RowWorked(rec[k], rec'[k])
    BY <2>2 DEF RowWorked, AllSettled, RecordsOf, ActiveStatuses, SettledStatuses
  <2>3. CASE RowJoins(k)
    BY <2>3 DEF RowJoins
  <2> QED BY <1>1, <1>2, <2>1, <2>2, <2>3 DEF RowSteps
<1> QED BY <1>3 DEF RecordsOf

\* An inspector that is about to close run n with this verdict is right, and
\* whoever closed it before came to the same verdict.
Closable(n, verdict) ==
    /\ runs[n].status # "absent"
    /\ IF runs[n].status \in ClosedRunStatuses
       THEN verdict = runs[n].status
       ELSE AllSettled(n) /\ verdict = ClosingStatus(n, runs[n].rowErrors)

InspectorsClose == \A i \in Inspectors :
    insp[i].pc = "close" /\ insp[i].run \in RunIds =>
        Closable(insp[i].run, insp[i].verdict)

\* So is a worker that has computed the results of its run.
WorkersClose == \A d \in Downloaders :
    dl[d].pc = "apply" /\ dl[d].verdict \in {"completed", "completed_with_errors"} =>
        AllSettled(dl[d].run)

RecordsHaveRuns == \A k \in Keys : rec[k].status # "absent" =>
    rec[k].run \in RunIds /\ runs[rec[k].run].status # "absent"

\* The job of a retry run settles its record, leaves it to the inspectors or
\* fails.
RetryJobGood(j, status) ==
    \/ j.pc \notin {"none", "todo", "reschedule", "done"}
    \/ j.pc = "done" /\ j.out = "quarantined"
    \/ j.pc \in {"reschedule", "done"} /\ status \in SettledStatuses

RetriesClose == \A d \in Downloaders : dl[d].pc = "retrying" =>
    /\ \A k \in RecordsOf(dl[d].run) : RetryJobGood(job[d][rec[k].row], rec[k].status)
    /\ \A r \in Rows : job[d][r].pc # "none" =>
        /\ job[d][r].pc # "todo" /\ rec[KeyOf[r]].status # "absent"
        /\ rec[KeyOf[r]].row = r /\ rec[KeyOf[r]].run = dl[d].run

Closing == RecordsHaveRuns /\ InspectorsClose /\ WorkersClose /\ RetriesClose

LEMMA ClosedStay ==
    ASSUME RunGate, TypeInv', InspectorsClose, [Next]_vars,
           NEW n \in RunIds, runs[n].status \in ClosedRunStatuses
    PROVE  runs'[n].status = runs[n].status
<1>1. RunSteps(n)
  BY NextStepsRuns
<1>2. ~RunCreated(n)
  BY CreationFindsNobody DEF RunCreated, NoRun, ClosedRunStatuses
<1>3. ~RunWorked(n)
  BY DEF RunWorked, ActiveRunStatuses, ClosedRunStatuses
<1>4. ~RunApplied(n)
  BY DEF RunApplied, RunGate, ProcessedRunsAreActive, Processing, ActiveRunStatuses,
         ClosedRunStatuses
<1>5. CASE RunClosed(n)
  BY <1>5 DEF RunClosed, InspectorsClose, Closable
<1> QED BY <1>1, <1>2, <1>3, <1>4, <1>5 DEF RunSteps

LEMMA CountedRunIsNotProcessed ==
    ASSUME RunGate, NEW n \in RunIds, runs[n].hasNew
    PROVE  /\ \A d \in Downloaders : Processing(d) => dl[d].run # n
           /\ ~RunCreated(n) /\ ~RunWorked(n) /\ ~RunApplied(n)
<1>1. \A d \in Downloaders : Processing(d) => dl[d].run # n
  BY DEF RunGate, ProcessedRunsAreActive
<1>2. ~RunCreated(n)
  BY CreationFindsNobody DEF RunCreated, NoRun
<1> QED BY <1>1, <1>2 DEF RunWorked, RunApplied, Processing

LEMMA ClosableStays ==
    ASSUME RecordsApart, Orderly, RunGate, TypeInv', Custody, Handoff, InspectorsClose,
           [Next]_vars, NEW n \in RunIds, NEW v, Closable(n, v), runs[n].hasNew
    PROVE  Closable(n, v)'
<1>1. runs[n] \in Runs
  BY DEF RunGate, TypeInv, RunsOK
<1>2. runs'[n] = runs[n] \/ RunClosed(n)
  BY NextStepsRuns, CountedRunIsNotProcessed DEF RunSteps
<1>3. CASE RunClosed(n)
  <2>1. PICK i \in Inspectors :
          insp[i].pc = "close" /\ n = insp[i].run /\ runs'[n].status = insp[i].verdict
    BY <1>3 DEF RunClosed
  <2>2. Closable(n, insp[i].verdict)
    BY <2>1 DEF InspectorsClose
  <2>3. v = insp[i].verdict
    BY <2>2 DEF Closable
  <2>4. v \in ClosedRunStatuses
    BY <2>2, <2>3 DEF Closable, ClosingStatus, ClosedRunStatuses
  <2> QED BY <2>1, <2>3, <2>4 DEF Closable, ClosedRunStatuses
<1>4. CASE runs'[n] = runs[n] /\ runs[n].status \in ClosedRunStatuses
  BY <1>4 DEF Closable
<1>5. CASE runs'[n] = runs[n] /\ runs[n].status \notin ClosedRunStatuses
  <2>1. runs[n].status \in ActiveRunStatuses /\ AllSettled(n)
    BY <1>1, <1>5 DEF Closable, Runs, RunStatuses
  <2>2. /\ RecordsOf(n)' = RecordsOf(n)
        /\ \A k \in RecordsOf(n) : rec'[k].status = rec[k].status
    BY <2>1, CountedRunIsNotProcessed, SettledStay DEF Processing
  <2>3. AllSettled(n)'
    BY <2>1, <2>2 DEF AllSettled
  <2>4. ClosingStatus(n, runs[n].rowErrors)' = ClosingStatus(n, runs[n].rowErrors)
    BY <1>5, <2>2 DEF ClosingStatus
  <2> QED BY <1>5, <2>3, <2>4 DEF Closable
<1> QED BY <1>2, <1>3, <1>4, <1>5

LEMMA NextInspectorsClose ==
    ASSUME RecordsApart, RunGate, TypeInv', Custody, [Next]_vars, NEW i \in Inspectors,
           insp'[i].pc = "close", ~FinalizeRun(i)
    PROVE  insp[i].pc = "close" /\ insp'[i].run = insp[i].run /\ insp'[i].verdict = insp[i].verdict
<1>t. TypeInv /\ insp \in [Inspectors -> GoodInspectors] /\ insp[i] \in InspectorStates
  BY DEF RunGate, TypeInv, InspOK, GoodInspectors
<1>1. CASE insp'[i] = insp[i]
  BY <1>1
<1>2. ASSUME insp'[i] # insp[i] PROVE ReceiveInspection(i) \/ InspectorDies(i) \/ InspectorStep(i)
  <2>1. ASSUME NEW j \in Inspectors, InspectorStep(j), j # i PROVE FALSE
    <3>1. insp[j].pc # "idle" /\ insp[j] \in GoodInspectors
      BY <1>t, <2>1 DEF InspectorStep, InspectMissingFile, BeginInspection, Inspect,
         InspectionRaises, MoveToRejected, MoveToAccepted, CommitVerdict, CommitHandoff,
         Dispatch, DispatchFails, MarkSubmitted, PublishLater, PublishLaterFails, FinalizeRun,
         CloseRun, InspectorAt
    <3>2. insp[j].key \in Keys
      BY <3>1 DEF GoodInspectors
    <3> QED BY <1>t, <1>2, <2>1, <3>2, InspectorStepFrame
  <2>2. ASSUME NEW j \in Inspectors, ReceiveInspection(j) \/ InspectorDies(j), j # i PROVE FALSE
    BY <1>t, <1>2, <2>2 DEF ReceiveInspection, InspectorDies
  <2>3. ASSUME NEW d \in Downloaders, NEW r \in Rows, JobStep(d, r) PROVE FALSE
    BY <1>t, <1>2, <2>3, JobStepFrame
  <2>4. ~(Operators \/ Clock \/ EndpointDies \/ MessageLost)
    BY <1>2 DEF Operators, Clock, EndpointDies, MessageLost, RequestRun, PublishRun,
       PublishRunFails, RequestManualRetry, StartScheduledRun, SelectHandoff, RetryTimeComes,
       LeaseExpires
  <2>5. ASSUME NEW d \in Downloaders,
               DownloaderStep(d) \/ DownloaderReceives(d) \/ DownloaderDies(d)
        PROVE  FALSE
    BY <1>2, <2>5 DEF DownloaderStep, DownloaderReceives, DownloaderDies, StartReading,
       SheetReadFails, ReadSheet, StartRetry, RetryFindsActiveRun, ComputeResults, ApplyResults,
       ClaimHandoff, Redispatch, RedispatchFails, MarkReconciled, ReceiveRun, ReceiveRetry,
       SkipRetry
  <2> QED BY <1>2, <2>1, <2>2, <2>3, <2>4, <2>5 DEF Next, Faults, vars
<1>3. ASSUME NEW w, w.pc # "close", insp' = [insp EXCEPT ![i] = w] PROVE FALSE
  BY <1>t, <1>3, InspectorAfter
<1>4. ASSUME NEW pc, pc # "close", InspectorTo(i, pc) PROVE FALSE
  BY <1>t, <1>3, <1>4, InspectorShapes
<1>5. ASSUME NEW b, Decide(i, b) PROVE FALSE
  BY <1>t, <1>3, <1>5, InspectorShapes
<1>6. ASSUME insp' = [insp EXCEPT ![i] = IdleInspector] PROVE FALSE
  BY <1>3, <1>6 DEF IdleInspector
<1>7. ASSUME NEW k, NEW pc, pc # "close",
             insp' = [insp EXCEPT ![i] = [IdleInspector EXCEPT !.key = k, !.pc = pc]]
      PROVE  FALSE
  <2> DEFINE w == [IdleInspector EXCEPT !.key = k, !.pc = pc]
  <2>1. insp' = [insp EXCEPT ![i] = w] /\ w.pc = pc
    BY <1>7, IdleWithKey
  <2> HIDE DEF w
  <2> QED BY <1>3, <1>7, <2>1
<1>8. CASE InspectMissingFile(i)
  BY <1>7, <1>8 DEF InspectMissingFile
<1>9. CASE CommitVerdict(i)
  BY <1>7, <1>9 DEF CommitVerdict
<1>10. CASE CommitHandoff(i)
  BY <1>6, <1>7, <1>10 DEF CommitHandoff
<1>11. CASE BeginInspection(i)
  <2>1. insp' = [insp EXCEPT ![i] = IdleInspector] \/ InspectorTo(i, "inspecting")
    BY <1>11 DEF BeginInspection, InspectorTo
  <2> QED BY <1>4, <1>6, <2>1
<1>12. CASE Inspect(i)
  <2>1. PICK checks \in Findings :
          insp' = [insp EXCEPT ![i].edit.checks = checks,
                     ![i].pc = IF Promotable(checks) THEN "passed" ELSE "refused"]
    BY <1>12 DEF Inspect
  <2> QED BY <1>t, <2>1 DEF InspectorStates
<1>13. CASE InspectionRaises(i) \/ MoveToRejected(i) \/ MoveToAccepted(i)
  BY <1>5, <1>13 DEF InspectionRaises, MoveToRejected, MoveToAccepted
<1>14. CASE Dispatch(i) \/ DispatchFails(i) \/ MarkSubmitted(i) \/ PublishLater(i)
            \/ PublishLaterFails(i)
  BY <1>4, <1>6, <1>14 DEF Dispatch, DispatchFails, MarkSubmitted, PublishLater,
     PublishLaterFails
<1>15. CASE CloseRun(i) \/ InspectorDies(i)
  BY <1>6, <1>15 DEF CloseRun, InspectorDies
<1>16. CASE ReceiveInspection(i)
  BY <1>t, <1>16 DEF ReceiveInspection, InspectorStates, IdleInspector
<1> QED BY <1>1, <1>2, <1>8, <1>9, <1>10, <1>11, <1>12, <1>13, <1>14, <1>15, <1>16
        DEF InspectorStep

LEMMA RunsStayPresent ==
    ASSUME RunGate, TypeInv', [Next]_vars, NEW n \in RunIds, runs[n].status # "absent"
    PROVE  runs'[n].status # "absent"
<1>1. RunSteps(n)
  BY NextStepsRuns
<1>2. dl \in [Downloaders -> GoodWorkers] /\ insp \in [Inspectors -> GoodInspectors]
  BY DEF RunGate, TypeInv, DlOK, InspOK
<1>3. CASE RunApplied(n)
  BY <1>2, <1>3 DEF RunApplied, GoodWorkers, ClosedRunStatuses
<1>4. CASE RunClosed(n)
  BY <1>2, <1>4 DEF RunClosed, GoodInspectors, ClosedRunStatuses
<1> QED BY <1>1, <1>3, <1>4 DEF RunSteps, RunCreated, RunWorked, ActiveRunStatuses

\* Where a retry takes its record.
LEMMA RetryTakes ==
    ASSUME RecordsApart, RunGate, TypeInv', Custody,
           NEW d \in Downloaders, StartRetry(d), NEW k \in Keys, k = dl[d].key
    PROVE  /\ rec[k].row \in Rows /\ KeyOf[rec[k].row] = k
           /\ rec'[k].status \in {"accepted", "quarantined", "downloading"}
           /\ rec'[k].run = NextRun /\ rec'[k].row = rec[k].row
           /\ \A h \in Keys \ {k} : rec'[h] = rec[h]
           /\ NextRun \in RunIds /\ runs[NextRun] = NoRun
           /\ runs'[NextRun].status = "processing"
           /\ dl'[d].pc = "retrying" =>
                /\ dl'[d].run = NextRun
                /\ \E j : /\ job' = [job EXCEPT ![d][rec[k].row] = j]
                          /\ j.pc \in {"handoff", "publish", "transfer"}
<1>0. TypeInv /\ runs \in [RunIds -> Runs] /\ rec \in [Keys -> Records]
  BY DEF RunGate, TypeInv, RunsOK, RecOK
<1>1. dl[d].pc = "retry" /\ dl \in [Downloaders -> GoodWorkers] /\ dl[d] \in Workers
  BY <1>0 DEF StartRetry, TypeInv, DlOK, GoodWorkers
<1>2. /\ rec[k] \in Records /\ RowGood(k, rec[k], calls[k]) /\ dl[d].copy \in Records
      /\ SameRow(dl[d].copy, rec[k]) /\ rec[k].status \in {"retry_scheduled", "failed"}
  BY <1>0, <1>1 DEF Custody, CustodyAt, RowAt, WorkersAt, WorkerGood, GoodWorkers
<1>3. rec[k].row \in Rows /\ KeyOf[rec[k].row] = k
  BY <1>2 DEF RowGood
<1>4. NextRun \in RunIds /\ runs[NextRun] = NoRun
  BY NextRunType DEF StartRetry
<1>5. runs'[NextRun].status = "processing"
  <2>1. [NoRun EXCEPT !.status = "processing"].status = "processing"
    BY DEF NoRun
  <2> QED BY <1>0, <1>4, <2>1 DEF StartRetry, CreateRun
<1> PICK prep : prep = PrepareForRetry(dl[d].copy, NextRun)
  OBVIOUS
<1> PICK new : new = Flush(dl[d].copy, prep, rec[k])
  OBVIOUS
<1>6. rec' = [rec EXCEPT ![k] = new]
  BY DEF StartRetry
<1>7. rec'[k] = new /\ \A h \in Keys \ {k} : rec'[h] = rec[h]
  BY <1>0, <1>6
<1>8. /\ prep \in Records /\ prep.status \in {"accepted", "quarantined", "downloading"}
      /\ prep.run = NextRun /\ prep.row = dl[d].copy.row
  BY <1>2, <1>4, PrepareForRetryType DEF PrepareForRetry, Records
<1>9. SameRow(new, prep)
  BY <1>2, <1>8, FlushOfFresh
<1>10. /\ new.status \in {"accepted", "quarantined", "downloading"}
       /\ new.run = NextRun /\ new.row = rec[k].row
  BY <1>2, <1>8, <1>9 DEF SameRow
<1>11. ASSUME dl'[d].pc = "retrying"
       PROVE  /\ dl'[d].run = NextRun
              /\ \E j : /\ job' = [job EXCEPT ![d][rec[k].row] = j]
                        /\ j.pc \in {"handoff", "publish", "transfer"}
  <2> PICK r \in Rows : r = rec[k].row
    BY <1>3
  <2>1. /\ dl' = [dl EXCEPT ![d].pc = "retrying", ![d].run = NextRun, ![d].copy = None]
        /\ ResumeAt(d, r, k, new)
    BY <1>1, <1>11 DEF StartRetry, IdleWorker
  <2>2. dl'[d].run = NextRun
    BY <1>1, <2>1 DEF Workers
  <2>3. JobTo(d, r, "handoff") \/ JobTo(d, r, "publish") \/ StartTransfer(d, r)
    BY <1>10, <2>1 DEF ResumeAt
  <2>4. \E j : /\ job' = [job EXCEPT ![d][r] = j]
               /\ j.pc \in {"handoff", "publish", "transfer"}
    BY <1>0, <2>3, JobShapes
  <2> QED BY <2>2, <2>4
<1> QED BY <1>3, <1>4, <1>5, <1>7, <1>10, <1>11

LEMMA NextRecordsHaveRuns ==
    ASSUME RecordsApart, Orderly, RunGate, TypeInv', Custody, Handoff, RecordsHaveRuns,
           [Next]_vars
    PROVE  RecordsHaveRuns'
<1> SUFFICES ASSUME NEW k \in Keys, rec'[k].status # "absent"
             PROVE  rec'[k].run \in RunIds /\ runs'[rec'[k].run].status # "absent"
  BY DEF RecordsHaveRuns
<1>1. RowSteps(k)
  BY NextStepsRows DEF RunGate
<1>2. CASE rec[k].status # "absent" /\ rec'[k].run = rec[k].run
  BY <1>2, RunsStayPresent DEF RecordsHaveRuns
<1>3. CASE RowJoins(k)
  <2>1. PICK d \in Downloaders : dl[d].pc \in {"rows", "retrying"} /\ rec'[k].run = dl[d].run
    BY <1>3 DEF RowJoins
  <2>2. Processing(d)
    BY <2>1 DEF Processing
  <2>3. dl[d].run \in RunIds /\ runs[dl[d].run].status \in ActiveRunStatuses
    BY <2>2, ProcessedRunType DEF RunGate, ProcessedRunsAreActive
  <2> QED BY <2>1, <2>3, RunsStayPresent DEF ActiveRunStatuses
<1>4. CASE RowTaken(k)
  BY <1>4, RetryTakes DEF RowTaken
<1> QED BY <1>1, <1>2, <1>3, <1>4 DEF RowSteps, RowKeeps, RowWorked, ActiveStatuses

LEMMA NotActiveIsSettled ==
    ASSUME TypeInv, NEW n, ~StillActive(n)
    PROVE  AllSettled(n)
BY DEF TypeInv, RecOK, Records, RecordStatuses, StillActive, AllSettled, RecordsOf

LEMMA InspectorsCloseInductive ==
    ASSUME RecordsApart, Orderly, RunGate, TypeInv', Custody, Handoff, RecordsHaveRuns,
           InspectorsClose, [Next]_vars
    PROVE  InspectorsClose'
<1> SUFFICES ASSUME NEW i \in Inspectors, NEW n \in RunIds, NEW v,
                    insp'[i].pc = "close", n = insp'[i].run, v = insp'[i].verdict
             PROVE  Closable(n, v)'
  BY DEF InspectorsClose
<1>t. TypeInv /\ insp \in [Inspectors -> GoodInspectors] /\ insp[i] \in InspectorStates
  BY DEF RunGate, TypeInv, InspOK, GoodInspectors
<1>1. CASE FinalizeRun(i)
  <2>1. insp[i].pc = "finalize" /\ insp[i].key \in Keys
    BY <1>t, <1>1 DEF FinalizeRun, InspectorAt, GoodInspectors
  <2> PICK m : m = rec[insp[i].key].run
    OBVIOUS
  <2> PICK w : w = ClosingStatus(m, runs[m].rowErrors)
    OBVIOUS
  <2>2. /\ ReadyToClose(m)
        /\ insp' = [insp EXCEPT ![i].pc = "close", ![i].run = m, ![i].verdict = w]
    BY <1>t, <1>1 DEF FinalizeRun, IdleInspector
  <2>3. n = m /\ v = w
    BY <1>t, <2>2 DEF InspectorStates
  <2>4. rec[insp[i].key].status # "absent"
    <3>1. RowGood(insp[i].key, rec[insp[i].key], calls[insp[i].key])
      BY <2>1 DEF Custody, CustodyAt, RowAt
    <3>2. n = rec[insp[i].key].run
      BY <2>3
    <3>3. rec[insp[i].key].status = "absent" => rec[insp[i].key].run = None
      BY <3>1 DEF RowGood, NoRecord
    <3> QED BY <3>2, <3>3, NoneIsNoValue
  <2>5. runs[n].status # "absent"
    BY <2>1, <2>3, <2>4 DEF RecordsHaveRuns
  <2>6. AllSettled(n)
    BY <1>t, <2>2, <2>3, NotActiveIsSettled DEF ReadyToClose
  <2>7. Closable(n, v)
    BY <2>2, <2>3, <2>5, <2>6 DEF Closable, ReadyToClose
  <2>8. UNCHANGED << runs, rec >>
    BY <1>1 DEF FinalizeRun, tables
  <2> QED BY <2>7, <2>8 DEF Closable, AllSettled, RecordsOf, ClosingStatus
<1>2. CASE ~FinalizeRun(i)
  <2>1. insp[i].pc = "close" /\ insp'[i].run = insp[i].run /\ insp'[i].verdict = insp[i].verdict
    BY <1>2, NextInspectorsClose DEF RunGate
  <2>2. Closable(n, v) /\ runs[n].hasNew
    BY <2>1 DEF InspectorsClose, RunGate, ClosedRunsHaveCounts
  <2> QED BY <2>2, ClosableStays
<1> QED BY <1>1, <1>2

\* How a worker comes to apply results, and to retry a record.
LEMMA NextWorkersProcess ==
    ASSUME RecordsApart, RunGate, TypeInv', Custody, [Next]_vars, NEW d \in Downloaders
    PROVE  /\ dl'[d].pc = "apply" => dl'[d] = dl[d] \/ ComputeResults(d)
           /\ dl'[d].pc = "retrying" => dl'[d] = dl[d] \/ StartRetry(d)
<1>t. TypeInv /\ dl \in [Downloaders -> GoodWorkers] /\ dl[d] \in Workers
  BY DEF RunGate, TypeInv, DlOK, GoodWorkers
<1>o. ASSUME NEW c \in Downloaders, c # d,
             \/ DownloaderStep(c) \/ DownloaderReceives(c) \/ DownloaderDies(c)
             \/ StartScheduledRun(c) \/ SelectHandoff(c)
      PROVE  dl'[d] = dl[d]
  BY <1>t, <1>o, OtherWorkersStay
<1>1. CASE UNCHANGED dl
  BY <1>1
<1>2. ASSUME NEW pc, pc \notin {"apply", "retrying"}, NEW w, w.pc = pc,
             dl' = [dl EXCEPT ![d] = w]
      PROVE  dl'[d].pc \notin {"apply", "retrying"}
  BY <1>t, <1>2, WorkerAfter
<1>3. ASSUME dl' = [dl EXCEPT ![d] = IdleWorker]
      PROVE  dl'[d].pc \notin {"apply", "retrying"}
  BY <1>t, <1>3 DEF IdleWorker
<1>4. ASSUME NEW pc, pc \notin {"apply", "retrying"}, dl' = [dl EXCEPT ![d].pc = pc]
      PROVE  dl'[d].pc \notin {"apply", "retrying"}
  BY <1>t, <1>4 DEF Workers
<1>5. CASE StartReading(d) \/ ReadSheet(d) \/ Redispatch(d)
  BY <1>4, <1>5 DEF StartReading, ReadSheet, Redispatch
<1>6. CASE ReceiveRun(d) \/ ReceiveRetry(d) \/ StartScheduledRun(d) \/ SelectHandoff(d)
  <2>1. CASE ReceiveRun(d)
    BY <1>1, <1>t, <2>1 DEF ReceiveRun, Workers
  <2>2. CASE ReceiveRetry(d)
    BY <1>t, <2>2 DEF ReceiveRetry, Workers
  <2>3. CASE StartScheduledRun(d)
    BY <1>t, <2>3 DEF StartScheduledRun, Workers
  <2>4. CASE SelectHandoff(d)
    BY <1>t, <2>4 DEF SelectHandoff, Workers
  <2> QED BY <1>6, <2>1, <2>2, <2>3, <2>4
<1>7. CASE ClaimHandoff(d)
  BY <1>3, <1>4, <1>7 DEF ClaimHandoff
<1>8. CASE \/ SheetReadFails(d) \/ RetryFindsActiveRun(d) \/ ApplyResults(d)
           \/ RedispatchFails(d) \/ MarkReconciled(d) \/ DownloaderDies(d)
  BY <1>3, <1>8 DEF SheetReadFails, RetryFindsActiveRun, ApplyResults, RedispatchFails,
     MarkReconciled, DownloaderDies
<1>9. CASE ComputeResults(d)
  BY <1>t, <1>9 DEF ComputeResults, Workers
<1>10. CASE StartRetry(d)
  <2>1. \/ dl' = [dl EXCEPT ![d] = IdleWorker]
        \/ dl' = [dl EXCEPT ![d].pc = "retrying", ![d].run = NextRun, ![d].copy = None]
    BY <1>10 DEF StartRetry
  <2> QED BY <1>t, <1>3, <1>10, <2>1 DEF Workers
<1>11. CASE SkipRetry(d) \/ Clock \/ EndpointDies \/ MessageLost
  BY <1>1, <1>11 DEF SkipRetry, Clock, RetryTimeComes, LeaseExpires, EndpointDies, MessageLost
<1>12. CASE Operators
  <2>1. CASE RequestRun \/ PublishRun \/ PublishRunFails \/ \E k \in Keys : RequestManualRetry(k)
    BY <1>1, <2>1 DEF RequestRun, PublishRun, PublishRunFails, RequestManualRetry
  <2> QED BY <1>o, <1>6, <1>12, <2>1 DEF Operators
<1>13. CASE \E i \in Inspectors : ReceiveInspection(i) \/ InspectorStep(i) \/ InspectorDies(i)
  BY <1>1, <1>13 DEF ReceiveInspection, InspectorDies, InspectorStep, InspectMissingFile,
     BeginInspection, Inspect, InspectionRaises, MoveToRejected, MoveToAccepted, CommitVerdict,
     CommitHandoff, Dispatch, DispatchFails, MarkSubmitted, PublishLater, PublishLaterFails,
     FinalizeRun, CloseRun
<1>14. ASSUME NEW c \in Downloaders, NEW r \in Rows, JobStep(c, r)
       PROVE  dl' = dl \/ dl' = [dl EXCEPT ![c] = IdleWorker]
  BY <1>14 DEF JobStep, MappingFails, ClaimExisting, ClaimNew, StoreDownload, CommitDownload,
     DownloadFails, PublishInspection, PublishInspectionFails, PublishRetry,
     PublishRetryFails, RetryHandoff, RetryHandoffConflicts, RetryDispatch,
     RetryDispatchFails, RetryMarkSubmitted
<1>15. CASE \E c \in Downloaders : DownloaderStep(c) \/ DownloaderReceives(c) \/ DownloaderDies(c)
  BY <1>o, <1>5, <1>6, <1>7, <1>8, <1>9, <1>10, <1>11, <1>15
     DEF DownloaderStep, DownloaderReceives
<1>16. CASE \E c \in Downloaders, r \in Rows : JobStep(c, r)
  <2>1. PICK c \in Downloaders : dl' = dl \/ dl' = [dl EXCEPT ![c] = IdleWorker]
    BY <1>14, <1>16
  <2>2. CASE c # d
    BY <1>t, <2>1, <2>2
  <2> QED BY <1>1, <1>3, <2>1, <2>2
<1> QED BY <1>1, <1>11, <1>12, <1>13, <1>15, <1>16 DEF Next, Faults, vars

\* A retry that neither raised nor left its record to the inspectors has
\* settled it.
LEMMA ResultsAreSettled ==
    ASSUME RecordsApart, RunGate, Custody, RetriesClose, NEW d \in Downloaders,
           ComputeResults(d), dl'[d].verdict \in {"completed", "completed_with_errors"}
    PROVE  AllSettled(dl[d].run)
<1>t. TypeInv /\ dl \in [Downloaders -> GoodWorkers] /\ dl[d] \in Workers
  BY DEF RunGate, TypeInv, DlOK, GoodWorkers
<1>1. dl[d].pc \in {"rows", "retrying"} /\ \A r \in Rows : job[d][r].pc \in {"none", "done", "raised"}
  BY DEF ComputeResults, JobsOver
<1> PICK v : v = CASE dl[d].pc = "retrying" /\ RowErrors(d) -> "failed"
                   [] Deferred(d) /\ StillActive(dl[d].run) -> "processing"
                   [] Deferred(d) /\ ~StillActive(dl[d].run) ->
                        ClosingStatus(dl[d].run, RowErrors(d))
                   [] OTHER -> IF \E j \in ResultsOf(d) : j.out = "failed"
                               THEN "completed_with_errors" ELSE "completed"
  OBVIOUS
<1>2. dl' = [dl EXCEPT ![d].pc = "apply", ![d].verdict = v]
  BY DEF ComputeResults
<1>3. dl'[d].verdict = v
  BY <1>t, <1>2 DEF Workers
<1>4. CASE Deferred(d)
  <2>1. ~StillActive(dl[d].run)
    BY <1>3, <1>4
  <2> QED BY <1>t, <2>1, NotActiveIsSettled
<1>5. CASE ~Deferred(d)
  <2>1. dl[d].pc = "retrying" /\ ~RowErrors(d)
    BY <1>1, <1>3, <1>5 DEF Deferred
  <2> SUFFICES ASSUME NEW k \in RecordsOf(dl[d].run)
               PROVE  rec[k].status \in SettledStatuses
    BY DEF AllSettled
  <2>2. k \in Keys /\ rec[k].status # "absent"
    BY DEF RecordsOf
  <2> PICK r \in Rows : r = rec[k].row
    BY <2>2 DEF Custody, CustodyAt, RowAt, RowGood
  <2>3. RetryJobGood(job[d][r], rec[k].status)
    BY <2>1 DEF RetriesClose
  <2>4. job[d][r].pc \in {"done", "raised"} => job[d][r] \in ResultsOf(d)
    BY DEF ResultsOf
  <2>5. job[d][r].pc # "raised" /\ job[d][r].out # "quarantined"
    BY <1>5, <2>1, <2>3, <2>4, <1>1 DEF RowErrors, Deferred, RetryJobGood
  <2> QED BY <1>1, <2>3, <2>5 DEF RetryJobGood
<1> QED BY <1>4, <1>5

LEMMA WorkersCloseInductive ==
    ASSUME RecordsApart, Orderly, RunGate, TypeInv', Custody, Handoff, WorkersClose,
           RetriesClose, [Next]_vars
    PROVE  WorkersClose'
<1> SUFFICES ASSUME NEW d \in Downloaders, NEW n, n = dl'[d].run, dl'[d].pc = "apply",
                    dl'[d].verdict \in {"completed", "completed_with_errors"}
             PROVE  AllSettled(n)'
  BY DEF WorkersClose
<1>t. TypeInv /\ dl \in [Downloaders -> GoodWorkers] /\ dl[d] \in Workers
  BY DEF RunGate, TypeInv, DlOK, GoodWorkers
<1>1. CASE dl'[d] = dl[d]
  <2>1. AllSettled(n) /\ Processing(d)
    BY <1>1 DEF WorkersClose, Processing
  <2>2. n \in RunIds /\ runs[n].status \in ActiveRunStatuses
    BY <1>1, <2>1, ProcessedRunType DEF RunGate, ProcessedRunsAreActive
  <2>3. \A c \in Downloaders : dl[c].pc \notin {"rows", "retrying"}
    BY <1>1, <2>1 DEF RunGate, OneWorkerProcesses, Processing
  <2>4. /\ RecordsOf(n)' = RecordsOf(n)
        /\ \A k \in RecordsOf(n) : rec'[k].status = rec[k].status
    BY <2>1, <2>2, <2>3, SettledStay
  <2> QED BY <2>1, <2>4 DEF AllSettled
<1>2. CASE ComputeResults(d)
  <2>1. n = dl[d].run
    BY <1>t, <1>2 DEF ComputeResults, Workers
  <2>2. AllSettled(n) /\ UNCHANGED rec
    BY <1>2, <2>1, ResultsAreSettled DEF ComputeResults, tables
  <2> QED BY <2>2 DEF AllSettled, RecordsOf
<1> QED BY <1>1, <1>2, NextWorkersProcess

\* A step of a retry's job settles the record, or leaves it to be settled.
LEMMA RetryJobStep ==
    ASSUME RecordsApart, TypeInv, TypeInv', Custody, RetriesClose,
           NEW d \in Downloaders, NEW r \in Rows, JobStep(d, r),
           dl[d].pc = "retrying", dl'[d] = dl[d]
    PROVE  /\ job'[d][r].pc \notin {"none", "todo"}
           /\ RetryJobGood(job'[d][r], rec'[KeyOf[r]].status)
           /\ \A q \in Rows \ {r} : job'[d][q] = job[d][q]
<1>0. PICK k \in Keys : k = KeyOf[r]
  BY KeyOfType
<1>1. job[d][r].pc # "none"
  BY DEF JobStep, MappingFails, ClaimExisting, ClaimNew, StoreDownload, CommitDownload,
         DownloadFails, PublishInspection, PublishInspectionFails, PublishRetry,
         PublishRetryFails, RetryHandoff, RetryHandoffConflicts, RetryDispatch,
         RetryDispatchFails, RetryMarkSubmitted, JobAt
<1>2. /\ job[d][r].pc # "todo" /\ rec[k].status # "absent" /\ rec[k].row = r
      /\ rec[k].run = dl[d].run
  BY <1>0, <1>1 DEF RetriesClose
<1>3. RetryJobGood(job[d][r], rec[k].status)
  BY <1>2 DEF RetriesClose, RecordsOf
<1>4. rec[k] \in Records
  BY DEF TypeInv, RecOK
<1>5. ASSUME NEW j, job' = [job EXCEPT ![d][r] = j], j.pc \notin {"none", "todo"},
             RetryJobGood(j, rec'[k].status)
      PROVE  /\ job'[d][r].pc \notin {"none", "todo"}
             /\ RetryJobGood(job'[d][r], rec'[KeyOf[r]].status)
             /\ \A q \in Rows \ {r} : job'[d][q] = job[d][q]
  <2>1. job'[d][r] = j /\ \A q \in Rows \ {r} : job'[d][q] = job[d][q]
    BY <1>5 DEF TypeInv, JobOK
  <2> QED BY <1>0, <1>5, <2>1
<1>6. ASSUME NEW pc, pc \notin {"none", "todo", "reschedule", "done"}, JobTo(d, r, pc)
      PROVE  \E j : /\ job' = [job EXCEPT ![d][r] = j] /\ j.pc \notin {"none", "todo"}
                    /\ RetryJobGood(j, rec'[k].status)
  BY <1>6, JobShapes DEF RetryJobGood
<1>7. ASSUME NEW old \in Records, NEW category, FailJob(d, r, old, category)
      PROVE  \E j : /\ job' = [job EXCEPT ![d][r] = j] /\ j.pc \notin {"none", "todo"}
                    /\ RetryJobGood(j, rec'[k].status)
  <2> PICK new : new = ApplyFailurePolicy(old, category)
    OBVIOUS
  <2>1. rec'[k] = new
    BY <1>0, <1>7 DEF FailJob, TypeInv, RecOK
  <2>2. new.status \in {"retry_scheduled", "failed"}
    BY DEF ApplyFailurePolicy, Records
  <2>3. PICK j : job' = [job EXCEPT ![d][r] = j] /\ j.pc \in {"reschedule", "done"}
    BY <1>7, JobShapes DEF FailJob
  <2> QED BY <2>1, <2>2, <2>3 DEF RetryJobGood, SettledStatuses
<1>8. CASE StoreDownload(d, r) \/ CommitDownload(d, r) \/ PublishRetryFails(d, r)
           \/ RetryHandoff(d, r) \/ RetryDispatch(d, r)
  BY <1>5, <1>6, <1>8 DEF StoreDownload, CommitDownload, PublishRetryFails, RetryHandoff,
     RetryDispatch
<1>9. CASE DownloadFails(d, r) \/ PublishInspectionFails(d, r) \/ RetryDispatchFails(d, r)
  <2>1. CASE DownloadFails(d, r)
    <3> PICK old : old = Loaded(d, r)
      OBVIOUS
    <3>1. PICK category : FailJob(d, r, old, category)
      BY <2>1 DEF DownloadFails
    <3>2. old \in Records
      BY <2>1, LoadedGood DEF DownloadFails, JobAt
    <3> QED BY <1>5, <1>7, <3>1, <3>2
  <2>2. CASE PublishInspectionFails(d, r) \/ RetryDispatchFails(d, r)
    BY <1>0, <1>4, <1>5, <1>7, <2>2 DEF PublishInspectionFails, RetryDispatchFails
  <2> QED BY <1>9, <2>1, <2>2
<1>10. ASSUME NEW out, JobDone(d, r, out),
              out = "quarantined" \/ rec'[k].status \in SettledStatuses
       PROVE  \E j : /\ job' = [job EXCEPT ![d][r] = j] /\ j.pc \notin {"none", "todo"}
                     /\ RetryJobGood(j, rec'[k].status)
  <2> PICK j : j = [NoJob EXCEPT !.pc = "done", !.out = out]
    OBVIOUS
  <2>1. j.pc = "done" /\ j.out = out
    BY DEF NoJob
  <2>2. job' = [job EXCEPT ![d][r] = j]
    BY <1>10 DEF JobDone
  <2> QED BY <1>10, <2>1, <2>2 DEF RetryJobGood
<1>11. CASE PublishInspection(d, r)
  BY <1>5, <1>10, <1>11 DEF PublishInspection
<1>12. CASE PublishRetry(d, r)
  <2>1. job[d][r].pc = "reschedule" /\ UNCHANGED rec /\ JobDone(d, r, "failed")
    BY <1>12 DEF PublishRetry, JobAt, tables
  <2> QED BY <1>3, <1>5, <1>10, <2>1 DEF RetryJobGood
<1>13. CASE RetryMarkSubmitted(d, r)
  <2> PICK new : new = Submitted(rec[k])
    OBVIOUS
  <2>1. rec'[k] = new /\ JobDone(d, r, "submitted")
    BY <1>0, <1>13 DEF RetryMarkSubmitted, TypeInv, RecOK
  <2>2. new.status = "submitted"
    BY <1>4 DEF Submitted, Records
  <2> QED BY <1>5, <1>10, <2>1, <2>2 DEF SettledStatuses
<1>14. CASE MappingFails(d, r) \/ ClaimExisting(d, r) \/ ClaimNew(d, r)
  BY <1>2, <1>14 DEF MappingFails, ClaimExisting, ClaimNew, JobAt
<1>15. CASE RetryHandoffConflicts(d, r)
  BY <1>15 DEF RetryHandoffConflicts, TypeInv, DlOK, IdleWorker
<1> QED BY <1>8, <1>9, <1>11, <1>12, <1>13, <1>14, <1>15 DEF JobStep

\* Who works on the jobs of a retry.
LEMMA RetryJobsStep ==
    ASSUME RecordsApart, TypeInv, TypeInv', Custody, [Next]_vars, NEW d \in Downloaders,
           dl[d].pc = "retrying", dl'[d].pc = "retrying"
    PROVE  job'[d] = job[d] \/ \E r \in Rows : JobStep(d, r)
<1>1. ASSUME NEW c \in Downloaders, c # d,
             \/ DownloaderStep(c) \/ DownloaderReceives(c) \/ DownloaderDies(c)
             \/ \E r \in Rows : JobStep(c, r)
      PROVE  job'[d] = job[d]
  BY <1>1, OtherWorkersStay, JobStepFrame
<1>2. CASE Operators \/ Clock \/ EndpointDies \/ MessageLost
  BY <1>2 DEF Operators, Clock, EndpointDies, MessageLost, RequestRun, PublishRun,
     PublishRunFails, RequestManualRetry, StartScheduledRun, SelectHandoff, RetryTimeComes,
     LeaseExpires
<1>3. CASE \E i \in Inspectors : ReceiveInspection(i) \/ InspectorStep(i) \/ InspectorDies(i)
  BY <1>3 DEF ReceiveInspection, InspectorDies, InspectorStep, InspectMissingFile,
     BeginInspection, Inspect, InspectionRaises, MoveToRejected, MoveToAccepted, CommitVerdict,
     CommitHandoff, Dispatch, DispatchFails, MarkSubmitted, PublishLater, PublishLaterFails,
     FinalizeRun, CloseRun
<1>4. CASE DownloaderStep(d) \/ DownloaderReceives(d) \/ DownloaderDies(d)
  <2>1. CASE DownloaderDies(d)
    BY <2>1 DEF DownloaderDies, TypeInv, DlOK, IdleWorker
  <2>2. CASE DownloaderStep(d) \/ DownloaderReceives(d)
    BY <2>2 DEF DownloaderStep, DownloaderReceives, StartReading, SheetReadFails, ReadSheet,
       StartRetry, RetryFindsActiveRun, ComputeResults, ApplyResults, ClaimHandoff, Redispatch,
       RedispatchFails, MarkReconciled, ReceiveRun, ReceiveRetry, SkipRetry
  <2> QED BY <1>4, <2>1, <2>2
<1> QED BY <1>1, <1>2, <1>3, <1>4 DEF Next, Faults, vars

LEMMA RetriesCloseInductive ==
    ASSUME RecordsApart, Orderly, RunGate, TypeInv', Custody, Handoff, RecordsHaveRuns,
           RetriesClose, [Next]_vars
    PROVE  RetriesClose'
<1> SUFFICES ASSUME NEW d \in Downloaders, NEW n, n = dl'[d].run, dl'[d].pc = "retrying"
             PROVE  /\ \A k \in Keys : rec'[k].status # "absent" /\ rec'[k].run = n =>
                         RetryJobGood(job'[d][rec'[k].row], rec'[k].status)
                    /\ \A r \in Rows : job'[d][r].pc # "none" =>
                         /\ job'[d][r].pc # "todo" /\ rec'[KeyOf[r]].status # "absent"
                         /\ rec'[KeyOf[r]].row = r /\ rec'[KeyOf[r]].run = n
  BY DEF RetriesClose, RecordsOf
<1>t. TypeInv /\ \A k \in Keys : RowGood(k, rec[k], calls[k])
  BY DEF RunGate, Custody, CustodyAt, RowAt
<1>1. CASE dl'[d] = dl[d]
  <2>1. /\ \A k \in Keys : rec[k].status # "absent" /\ rec[k].run = n =>
             RetryJobGood(job[d][rec[k].row], rec[k].status)
        /\ \A r \in Rows : job[d][r].pc # "none" =>
             /\ job[d][r].pc # "todo" /\ rec[KeyOf[r]].status # "absent"
             /\ rec[KeyOf[r]].row = r /\ rec[KeyOf[r]].run = n
    BY <1>1 DEF RetriesClose, RecordsOf
  <2>2. ASSUME NEW k \in Keys PROVE RowKeeps(rec[k], rec'[k]) \/ RowWorked(rec[k], rec'[k])
    <3>1. RowSteps(k)
      BY <1>t, NextStepsRows
    <3>2. ~RowJoins(k)
      <4> SUFFICES ASSUME NEW c \in Downloaders, NEW r \in Rows, KeyOf[r] = k,
                          dl[c].pc \in {"rows", "retrying"},
                          job[c][r].pc \in {"transfer", "stored"}, rec[k].status = "absent"
                   PROVE  FALSE
        BY DEF RowJoins
      <4>1. c = d
        BY <1>1 DEF RunGate, OneWorkerProcesses, Processing
      <4> QED BY <2>1, <4>1
    <3>3. ~RowTaken(k)
      <4>1. Processing(d)
        BY <1>1 DEF Processing
      <4>2. dl[d].run \in RunIds /\ runs[dl[d].run].status \in ActiveRunStatuses
        BY <1>t, <4>1, ProcessedRunType DEF RunGate, ProcessedRunsAreActive
      <4> QED BY <4>2 DEF RowTaken, StartRetry, CanCreateRun, ActiveRuns
    <3> QED BY <3>1, <3>2, <3>3 DEF RowSteps
  <2>3. \A k \in Keys : /\ rec'[k].run = rec[k].run /\ rec'[k].row = rec[k].row
                        /\ rec'[k].status # "absent" <=> rec[k].status # "absent"
    BY <2>2 DEF RowKeeps, RowWorked, ActiveStatuses
  <2>4. ASSUME NEW k \in Keys, NEW j, RetryJobGood(j, rec[k].status)
        PROVE  RetryJobGood(j, rec'[k].status)
    BY <2>2, <2>4 DEF RowKeeps, RowWorked, RetryJobGood, ActiveStatuses, SettledStatuses
  <2>5. CASE job'[d] = job[d]
    BY <2>1, <2>3, <2>4, <2>5, KeyOfType
  <2>6. ASSUME NEW r \in Rows, JobStep(d, r)
        PROVE  /\ \A k \in Keys : rec'[k].status # "absent" /\ rec'[k].run = n =>
                    RetryJobGood(job'[d][rec'[k].row], rec'[k].status)
               /\ \A q \in Rows : job'[d][q].pc # "none" =>
                    /\ job'[d][q].pc # "todo" /\ rec'[KeyOf[q]].status # "absent"
                    /\ rec'[KeyOf[q]].row = q /\ rec'[KeyOf[q]].run = n
    <3>1. /\ job'[d][r].pc \notin {"none", "todo"}
          /\ RetryJobGood(job'[d][r], rec'[KeyOf[r]].status)
          /\ \A q \in Rows \ {r} : job'[d][q] = job[d][q]
      BY <1>1, <1>t, <2>6, RetryJobStep
    <3>2. job[d][r].pc # "none"
      BY <2>6 DEF JobStep, MappingFails, ClaimExisting, ClaimNew, StoreDownload, CommitDownload,
         DownloadFails, PublishInspection, PublishInspectionFails, PublishRetry,
         PublishRetryFails, RetryHandoff, RetryHandoffConflicts, RetryDispatch,
         RetryDispatchFails, RetryMarkSubmitted, JobAt
    <3>3. ASSUME NEW q \in Rows, job'[d][q].pc # "none"
          PROVE  /\ job'[d][q].pc # "todo" /\ rec'[KeyOf[q]].status # "absent"
                 /\ rec'[KeyOf[q]].row = q /\ rec'[KeyOf[q]].run = n
      BY <2>1, <2>3, <3>1, <3>2, <3>3, KeyOfType
    <3>4. ASSUME NEW k \in Keys, rec'[k].status # "absent", rec'[k].run = n
          PROVE  RetryJobGood(job'[d][rec'[k].row], rec'[k].status)
      <4>1. /\ rec[k].status # "absent" /\ rec[k].run = n /\ rec'[k].row = rec[k].row
            /\ rec[k].row \in Rows /\ KeyOf[rec[k].row] = k
        BY <1>t, <2>3, <3>4 DEF RowGood
      <4>2. CASE rec[k].row = r
        BY <3>1, <4>1, <4>2
      <4>3. CASE rec[k].row # r
        BY <2>1, <2>4, <3>1, <4>1, <4>3
      <4> QED BY <4>2, <4>3
    <3> QED BY <3>3, <3>4
  <2> QED BY <1>1, <1>t, <2>5, <2>6, RetryJobsStep
<1>2. CASE StartRetry(d)
  <2>1. dl[d].pc = "retry" /\ dl[d] \in GoodWorkers
    BY <1>2, <1>t DEF StartRetry, TypeInv, DlOK
  <2>2. PICK k \in Keys : k = dl[d].key
    BY <2>1 DEF GoodWorkers
  <2>3. PICK r \in Rows : r = rec[k].row /\ KeyOf[r] = k
    BY <1>2, <2>2, RetryTakes
  <2>4. /\ rec'[k].status \in {"accepted", "quarantined", "downloading"}
        /\ rec'[k].run = n /\ rec'[k].row = r
        /\ \A h \in Keys \ {k} : rec'[h] = rec[h]
        /\ n \in RunIds /\ runs[n] = NoRun
    BY <1>2, <2>2, <2>3, RetryTakes
  <2>5. PICK j : job' = [job EXCEPT ![d][r] = j] /\ j.pc \in {"handoff", "publish", "transfer"}
    BY <1>2, <2>2, <2>3, RetryTakes
  <2>6. job'[d][r] = j /\ \A q \in Rows : q # r => job'[d][q] = job[d][q]
    BY <1>t, <2>5 DEF TypeInv, JobOK
  <2>7. \A q \in Rows : job[d][q].pc = "none"
    BY <2>1 DEF Custody, JobsInPlace, NoJobs, NoJob
  <2>8. ASSUME NEW h \in Keys, h # k PROVE ~(rec'[h].status # "absent" /\ rec'[h].run = n)
    BY <2>4, <2>8 DEF RecordsHaveRuns, NoRun
  <2> QED BY <2>3, <2>4, <2>5, <2>6, <2>7, <2>8 DEF RetryJobGood
<1> QED BY <1>1, <1>2, NextWorkersProcess

LEMMA ClosingInductive ==
    ASSUME RecordsApart, Orderly, RunGate, TypeInv', Custody, Handoff, Closing, [Next]_vars
    PROVE  Closing'
BY NextRecordsHaveRuns, InspectorsCloseInductive, WorkersCloseInductive, RetriesCloseInductive
   DEF Closing

LEMMA ClosingInitially ==
    ASSUME Init
    PROVE  Closing
<1>1. RecordsHaveRuns
  BY DEF Init, RecordsHaveRuns, NoRecord
<1>2. InspectorsClose
  BY DEF Init, InspectorsClose, IdleInspector
<1>3. WorkersClose /\ RetriesClose
  BY DEF Init, WorkersClose, RetriesClose, IdleWorker
<1> QED BY <1>1, <1>2, <1>3 DEF Closing

LEMMA SettledWhenClosed ==
    ASSUME RunGate, TypeInv', Closing, [Next]_vars, NEW n \in RunIds,
           runs[n].status \in ActiveRunStatuses,
           runs'[n].status \in {"completed", "completed_with_errors"}
    PROVE  AllSettled(n)
<1>1. RunSteps(n)
  BY NextStepsRuns
<1>2. CASE RunApplied(n)
  BY <1>2 DEF RunApplied, Closing, WorkersClose
<1>3. CASE RunClosed(n)
  BY <1>3 DEF RunClosed, Closing, InspectorsClose, Closable, ActiveRunStatuses,
     ClosedRunStatuses
<1> QED BY <1>1, <1>2, <1>3 DEF RunSteps, RunCreated, RunWorked, ActiveRunStatuses

\* RunsCloseOnce: a closed run keeps its status, whichever inspector or worker
\* comes late (finalize_ingestion_run_if_ready reads before it writes), and a
\* run is completed only over settled records.
THEOREM RunsCloseOnceAlways == Orderly => (Spec /\ []RecordsApart => RunsCloseOnce)
<1> SUFFICES ASSUME Orderly PROVE Spec /\ []RecordsApart => RunsCloseOnce
  OBVIOUS
<1>1. RecordsApart /\ RunGate /\ RunGate' /\ Custody /\ Handoff /\ Closing /\ [Next]_vars => Closing'
  BY ClosingInductive DEF RunGate
<1>2. RunGate /\ RunGate' /\ Closing /\ [Next]_vars =>
        [\A n \in RunIds :
           /\ runs[n].status \in ClosedRunStatuses => runs'[n].status = runs[n].status
           /\ runs[n].status \in ActiveRunStatuses
                /\ runs'[n].status \in {"completed", "completed_with_errors"}
              => \A k \in RecordsOf(n) : rec[k].status \in SettledStatuses]_vars
  BY ClosedStay, SettledWhenClosed DEF RunGate, Closing, AllSettled
<1> QED BY <1>1, <1>2, ClosingInitially, RunGateInvariant, CustodyInvariant, HandoffInvariant,
           PTL DEF Spec, RunsCloseOnce

-----------------------------------------------------------------------------
(* Retries take turns.  A record that waits for an automatic retry has one *)
(* turn at most: the message that is queued, the download worker that took *)
(* it, or the job or inspector that is about to publish it.  So no two     *)
(* download workers come to be busy with one record, unless an operator    *)
(* asks for a retry of his own or the reconciler steps in.                 *)

Rescheduling == {"reschedule", "reschedule_early"}

Waiting(k) == {m \in retryQ : m.key = k}
Takers(k) == {d \in Downloaders : dl[d].pc = "retry" /\ dl[d].key = k}
JobsOff(k) == {x \in Downloaders \X Rows :
                 job[x[1]][x[2]].pc = "reschedule" /\ KeyOf[x[2]] = k}
InspectorsOff(k) == {i \in Inspectors : insp[i].pc \in Rescheduling /\ insp[i].key = k}

Turns(k) == ({"queue"} \X Waiting(k)) \cup ({"worker"} \X Takers(k))
            \cup ({"job"} \X JobsOff(k)) \cup ({"inspector"} \X InspectorsOff(k))

TurnAt(k) ==
    /\ \A s, t \in Turns(k) : s = t
    /\ Turns(k) # {} => rec[k].status = "retry_scheduled"

OneTurn == \A k \in Keys : TurnAt(k)

\* What a step does to the turns of a record: nothing new, one turn takes the
\* place of another, or one begins with the record's retry.
TurnsStay(k) == Turns(k)' \subseteq Turns(k)
TurnPasses(k) ==
    /\ rec'[k].status = rec[k].status
    /\ \E s \in Turns(k) : \E t : Turns(k)' \subseteq (Turns(k) \ {s}) \cup {t}
TurnBegins(k) ==
    /\ rec[k].status # "retry_scheduled" /\ rec'[k].status = "retry_scheduled"
    /\ \E t : Turns(k)' \subseteq Turns(k) \cup {t}
TurnStep(k) == TurnsStay(k) \/ TurnPasses(k) \/ TurnBegins(k)
TurnEnds(k) == \E s \in Turns(k) : Turns(k)' \subseteq Turns(k) \ {s}

LEMMA TurnKept ==
    ASSUME NEW k \in Keys, TurnAt(k), RowSteps(k), TurnStep(k), RowTaken(k) => TurnEnds(k)
    PROVE  TurnAt(k)'
<1>1. CASE RowTaken(k)
  <2>1. Turns(k)' = {}
    BY <1>1 DEF TurnAt, TurnEnds
  <2> QED BY <2>1 DEF TurnAt
<1>2. CASE RowKeeps(rec[k], rec'[k])
  <2>1. CASE TurnsStay(k)
    BY <1>2, <2>1 DEF TurnAt, TurnsStay, RowKeeps
  <2>2. CASE TurnPasses(k)
    BY <2>2 DEF TurnAt, TurnPasses
  <2>3. CASE TurnBegins(k)
    BY <2>3 DEF TurnAt, TurnBegins
  <2> QED BY <2>1, <2>2, <2>3 DEF TurnStep
<1>3. CASE RowWorked(rec[k], rec'[k]) \/ RowJoins(k)
  <2>1. Turns(k) = {}
    BY <1>3 DEF TurnAt, RowWorked, RowJoins, ActiveStatuses
  <2> QED BY <2>1 DEF TurnAt, TurnStep, TurnsStay, TurnPasses, TurnBegins
<1> QED BY <1>1, <1>2, <1>3 DEF RowSteps

\* Turns come from the queue, the workers, the jobs and the inspectors.
LEMMA NoNewTurn ==
    ASSUME NEW k \in Keys,
           Waiting(k)' \subseteq Waiting(k), Takers(k)' \subseteq Takers(k),
           JobsOff(k)' \subseteq JobsOff(k), InspectorsOff(k)' \subseteq InspectorsOff(k)
    PROVE  TurnsStay(k)
BY DEF TurnsStay, Turns

\* The message takes the turn of the job that published it.
LEMMA JobPasses ==
    ASSUME NEW k \in Keys, NEW x \in JobsOff(k), NEW y,
           Waiting(k)' \subseteq Waiting(k) \cup {y}, Takers(k)' \subseteq Takers(k),
           JobsOff(k)' \subseteq JobsOff(k) \ {x}, InspectorsOff(k)' \subseteq InspectorsOff(k)
    PROVE  \E s \in Turns(k) : \E t : Turns(k)' \subseteq (Turns(k) \ {s}) \cup {t}
<1>2. \A t : t \in Turns(k)' =>
        \/ \E z \in Waiting(k)' : t = <<"queue", z>>
        \/ \E z \in Takers(k)' : t = <<"worker", z>>
        \/ \E z \in JobsOff(k)' : t = <<"job", z>>
        \/ \E z \in InspectorsOff(k)' : t = <<"inspector", z>>
  BY DEF Turns
<1>3. /\ \A z \in Waiting(k) : <<"queue", z>> \in Turns(k)
      /\ \A z \in Takers(k) : <<"worker", z>> \in Turns(k)
      /\ \A z \in JobsOff(k) : <<"job", z>> \in Turns(k)
      /\ \A z \in InspectorsOff(k) : <<"inspector", z>> \in Turns(k)
  BY DEF Turns
<1>4. \A z : /\ <<"queue", z>> # <<"job", x>>
             /\ <<"worker", z>> # <<"job", x>>
             /\ <<"inspector", z>> # <<"job", x>>
             /\ <<"job", z>> = <<"job", x>> => z = x
  OBVIOUS
<1>5. PICK s, t : s = <<"job", x>> /\ t = <<"queue", y>>
  OBVIOUS
<1>6. Turns(k)' \subseteq (Turns(k) \ {s}) \cup {t}
  BY <1>2, <1>3, <1>4, <1>5
<1>7. s \in Turns(k)
  BY <1>3, <1>5
<1> QED BY <1>6, <1>7

\* The message takes the turn of the inspector that published it.
LEMMA InspectorPasses ==
    ASSUME NEW k \in Keys, NEW x \in InspectorsOff(k), NEW y,
           Waiting(k)' \subseteq Waiting(k) \cup {y}, Takers(k)' \subseteq Takers(k),
           JobsOff(k)' \subseteq JobsOff(k), InspectorsOff(k)' \subseteq InspectorsOff(k) \ {x}
    PROVE  \E s \in Turns(k) : \E t : Turns(k)' \subseteq (Turns(k) \ {s}) \cup {t}
<1>2. \A t : t \in Turns(k)' =>
        \/ \E z \in Waiting(k)' : t = <<"queue", z>>
        \/ \E z \in Takers(k)' : t = <<"worker", z>>
        \/ \E z \in JobsOff(k)' : t = <<"job", z>>
        \/ \E z \in InspectorsOff(k)' : t = <<"inspector", z>>
  BY DEF Turns
<1>3. /\ \A z \in Waiting(k) : <<"queue", z>> \in Turns(k)
      /\ \A z \in Takers(k) : <<"worker", z>> \in Turns(k)
      /\ \A z \in JobsOff(k) : <<"job", z>> \in Turns(k)
      /\ \A z \in InspectorsOff(k) : <<"inspector", z>> \in Turns(k)
  BY DEF Turns
<1>4. \A z : /\ <<"queue", z>> # <<"inspector", x>>
             /\ <<"worker", z>> # <<"inspector", x>>
             /\ <<"job", z>> # <<"inspector", x>>
             /\ <<"inspector", z>> = <<"inspector", x>> => z = x
  OBVIOUS
<1>5. PICK s, t : s = <<"inspector", x>> /\ t = <<"queue", y>>
  OBVIOUS
<1>6. Turns(k)' \subseteq (Turns(k) \ {s}) \cup {t}
  BY <1>2, <1>3, <1>4, <1>5
<1>7. s \in Turns(k)
  BY <1>3, <1>5
<1> QED BY <1>6, <1>7

\* The worker takes the turn of the message.
LEMMA MessagePasses ==
    ASSUME NEW k \in Keys, NEW x \in Waiting(k), NEW y,
           Waiting(k)' \subseteq Waiting(k) \ {x}, Takers(k)' \subseteq Takers(k) \cup {y},
           JobsOff(k)' \subseteq JobsOff(k), InspectorsOff(k)' \subseteq InspectorsOff(k)
    PROVE  \E s \in Turns(k) : \E t : Turns(k)' \subseteq (Turns(k) \ {s}) \cup {t}
<1>2. \A t : t \in Turns(k)' =>
        \/ \E z \in Waiting(k)' : t = <<"queue", z>>
        \/ \E z \in Takers(k)' : t = <<"worker", z>>
        \/ \E z \in JobsOff(k)' : t = <<"job", z>>
        \/ \E z \in InspectorsOff(k)' : t = <<"inspector", z>>
  BY DEF Turns
<1>3. /\ \A z \in Waiting(k) : <<"queue", z>> \in Turns(k)
      /\ \A z \in Takers(k) : <<"worker", z>> \in Turns(k)
      /\ \A z \in JobsOff(k) : <<"job", z>> \in Turns(k)
      /\ \A z \in InspectorsOff(k) : <<"inspector", z>> \in Turns(k)
  BY DEF Turns
<1>4. \A z : /\ <<"worker", z>> # <<"queue", x>>
             /\ <<"job", z>> # <<"queue", x>>
             /\ <<"inspector", z>> # <<"queue", x>>
             /\ <<"queue", z>> = <<"queue", x>> => z = x
  OBVIOUS
<1>5. PICK s, t : s = <<"queue", x>> /\ t = <<"worker", y>>
  OBVIOUS
<1>6. Turns(k)' \subseteq (Turns(k) \ {s}) \cup {t}
  BY <1>2, <1>3, <1>4, <1>5
<1>7. s \in Turns(k)
  BY <1>3, <1>5
<1> QED BY <1>6, <1>7

\* The worker starts the retry.
LEMMA WorkerEnds ==
    ASSUME NEW k \in Keys, NEW x \in Takers(k),
           Waiting(k)' \subseteq Waiting(k), Takers(k)' \subseteq Takers(k) \ {x},
           JobsOff(k)' \subseteq JobsOff(k), InspectorsOff(k)' \subseteq InspectorsOff(k)
    PROVE  TurnEnds(k)
<1>2. \A t : t \in Turns(k)' =>
        \/ \E z \in Waiting(k)' : t = <<"queue", z>>
        \/ \E z \in Takers(k)' : t = <<"worker", z>>
        \/ \E z \in JobsOff(k)' : t = <<"job", z>>
        \/ \E z \in InspectorsOff(k)' : t = <<"inspector", z>>
  BY DEF Turns
<1>3. /\ \A z \in Waiting(k) : <<"queue", z>> \in Turns(k)
      /\ \A z \in Takers(k) : <<"worker", z>> \in Turns(k)
      /\ \A z \in JobsOff(k) : <<"job", z>> \in Turns(k)
      /\ \A z \in InspectorsOff(k) : <<"inspector", z>> \in Turns(k)
  BY DEF Turns
<1>4. \A z : /\ <<"queue", z>> # <<"worker", x>>
             /\ <<"job", z>> # <<"worker", x>>
             /\ <<"inspector", z>> # <<"worker", x>>
             /\ <<"worker", z>> = <<"worker", x>> => z = x
  OBVIOUS
<1>5. Turns(k)' \subseteq Turns(k) \ {<<"worker", x>>}
  BY <1>2, <1>3, <1>4
<1> QED BY <1>3, <1>5 DEF TurnEnds

\* A job fails and schedules the retry.
LEMMA JobBegins ==
    ASSUME NEW k \in Keys, NEW x,
           Waiting(k)' \subseteq Waiting(k), Takers(k)' \subseteq Takers(k),
           JobsOff(k)' \subseteq JobsOff(k) \cup {x}, InspectorsOff(k)' \subseteq InspectorsOff(k)
    PROVE  \E t : Turns(k)' \subseteq Turns(k) \cup {t}
<1>2. \A t : t \in Turns(k)' =>
        \/ \E z \in Waiting(k)' : t = <<"queue", z>>
        \/ \E z \in Takers(k)' : t = <<"worker", z>>
        \/ \E z \in JobsOff(k)' : t = <<"job", z>>
        \/ \E z \in InspectorsOff(k)' : t = <<"inspector", z>>
  BY DEF Turns
<1>3. /\ \A z \in Waiting(k) : <<"queue", z>> \in Turns(k)
      /\ \A z \in Takers(k) : <<"worker", z>> \in Turns(k)
      /\ \A z \in JobsOff(k) : <<"job", z>> \in Turns(k)
      /\ \A z \in InspectorsOff(k) : <<"inspector", z>> \in Turns(k)
  BY DEF Turns
<1>5. Turns(k)' \subseteq Turns(k) \cup {<<"job", x>>}
  BY <1>2, <1>3
<1> QED BY <1>5

\* An inspector schedules the retry.
LEMMA InspectorBegins ==
    ASSUME NEW k \in Keys, NEW x,
           Waiting(k)' \subseteq Waiting(k), Takers(k)' \subseteq Takers(k),
           JobsOff(k)' \subseteq JobsOff(k), InspectorsOff(k)' \subseteq InspectorsOff(k) \cup {x}
    PROVE  \E t : Turns(k)' \subseteq Turns(k) \cup {t}
<1>2. \A t : t \in Turns(k)' =>
        \/ \E z \in Waiting(k)' : t = <<"queue", z>>
        \/ \E z \in Takers(k)' : t = <<"worker", z>>
        \/ \E z \in JobsOff(k)' : t = <<"job", z>>
        \/ \E z \in InspectorsOff(k)' : t = <<"inspector", z>>
  BY DEF Turns
<1>3. /\ \A z \in Waiting(k) : <<"queue", z>> \in Turns(k)
      /\ \A z \in Takers(k) : <<"worker", z>> \in Turns(k)
      /\ \A z \in JobsOff(k) : <<"job", z>> \in Turns(k)
      /\ \A z \in InspectorsOff(k) : <<"inspector", z>> \in Turns(k)
  BY DEF Turns
<1>5. Turns(k)' \subseteq Turns(k) \cup {<<"inspector", x>>}
  BY <1>2, <1>3
<1> QED BY <1>5

\* Where the shapes of a job's step leave it.
LEMMA JobArrives ==
    ASSUME TypeInv, NEW d \in Downloaders, NEW r \in Rows
    PROVE  /\ \A pc : JobTo(d, r, pc) => job'[d][r].pc = pc
           /\ \A out : JobDone(d, r, out) => job'[d][r].pc = "done"
           /\ StartTransfer(d, r) => job'[d][r].pc = "transfer"
<1>1. ASSUME NEW pc, NEW j, job' = [job EXCEPT ![d][r] = j], j.pc = pc PROVE job'[d][r].pc = pc
  BY <1>1 DEF TypeInv, JobOK
<1>2. ASSUME NEW pc, JobTo(d, r, pc) PROVE job'[d][r].pc = pc
  <2>1. PICK j : job' = [job EXCEPT ![d][r] = j] /\ j.pc = pc
    BY <1>2, JobShapes
  <2> QED BY <1>1, <2>1
<1>3. ASSUME NEW out, JobDone(d, r, out) PROVE job'[d][r].pc = "done"
  <2>1. PICK j : job' = [job EXCEPT ![d][r] = j] /\ j.pc = "done"
    BY <1>3, JobShapes
  <2> QED BY <1>1, <2>1
<1>4. ASSUME StartTransfer(d, r) PROVE job'[d][r].pc = "transfer"
  <2>1. PICK j : job' = [job EXCEPT ![d][r] = j] /\ j.pc = "transfer"
    BY <1>4, JobShapes
  <2> QED BY <1>1, <2>1
<1> QED BY <1>2, <1>3, <1>4

LEMMA JobsKeepTurns ==
    ASSUME RecordsApart, TypeInv, TypeInv', Custody, NEW d \in Downloaders, NEW r \in Rows,
           JobStep(d, r), NEW k \in Keys
    PROVE  TurnStep(k)
<1>0. KeyOf[r] \in Keys
  BY KeyOfType
<1>1. InspectorsOff(k)' = InspectorsOff(k)
  BY JobStepFrame DEF InspectorsOff
<1>2. Takers(k)' \subseteq Takers(k)
  <2>1. UNCHANGED dl \/ dl' = [dl EXCEPT ![d] = IdleWorker]
    BY DEF JobStep, MappingFails, ClaimExisting, ClaimNew, StoreDownload, CommitDownload,
         DownloadFails, PublishInspection, PublishInspectionFails, PublishRetry,
         PublishRetryFails, RetryHandoff, RetryHandoffConflicts, RetryDispatch,
         RetryDispatchFails, RetryMarkSubmitted
  <2> QED BY <2>1 DEF Takers, TypeInv, DlOK, IdleWorker
<1>3. \A c \in Downloaders, q \in Rows : c # d \/ q # r =>
        (job'[c][q].pc = "reschedule" => job[c][q].pc = "reschedule")
  <2>1. \A c \in Downloaders : c # d => job'[c] = job[c]
    BY JobStepFrame
  <2>2. \A q \in Rows : q # r => job'[d][q] = job[d][q] \/ job'[d][q] = NoJob
    BY JobStepFrame
  <2>3. NoJob.pc # "reschedule"
    BY DEF NoJob
  <2> QED BY <2>1, <2>2, <2>3
<1>4. job'[d][r].pc # "reschedule" \/ k # KeyOf[r] => JobsOff(k)' \subseteq JobsOff(k)
  BY <1>3 DEF JobsOff
<1>5. CASE PublishRetry(d, r)
  <2> PICK m : m = AutomaticRetryOf(KeyOf[r], FALSE)
    OBVIOUS
  <2>1. /\ retryQ' = retryQ \cup {m} /\ m.key = KeyOf[r] /\ UNCHANGED rec
        /\ job[d][r].pc = "reschedule"
    BY <1>5 DEF PublishRetry, AutomaticRetryOf, tables, JobAt
  <2>2. job'[d][r].pc = "done"
    BY <1>5, JobArrives DEF PublishRetry
  <2>3. CASE k # KeyOf[r]
    <3>1. Waiting(k)' = Waiting(k)
      BY <2>1, <2>3 DEF Waiting
    <3> QED BY <1>1, <1>2, <1>4, <2>3, <3>1, NoNewTurn DEF TurnStep
  <2>4. CASE k = KeyOf[r]
    <3>1. JobsOff(k)' \subseteq JobsOff(k) \ {<<d, r>>} /\ <<d, r>> \in JobsOff(k)
      BY <1>3, <2>1, <2>2, <2>4 DEF JobsOff
    <3>2. Waiting(k)' \subseteq Waiting(k) \cup {m}
      BY <2>1 DEF Waiting
    <3> PICK x : x = <<d, r>>
      OBVIOUS
    <3>3. JobsOff(k)' \subseteq JobsOff(k) \ {x} /\ x \in JobsOff(k)
      BY <3>1
    <3>i. InspectorsOff(k)' \subseteq InspectorsOff(k)
      BY <1>1
    <3>4. \E s \in Turns(k) : \E t : Turns(k)' \subseteq (Turns(k) \ {s}) \cup {t}
      BY <1>2, <3>i, <3>2, <3>3, JobPasses
    <3> QED BY <2>1, <3>4 DEF TurnStep, TurnPasses
  <2> QED BY <2>3, <2>4
<1>6. CASE ~PublishRetry(d, r)
  <2>1. Waiting(k)' = Waiting(k)
    <3>1. UNCHANGED retryQ
      BY <1>6 DEF JobStep, MappingFails, ClaimExisting, ClaimNew, StoreDownload, CommitDownload,
         DownloadFails, PublishInspection, PublishInspectionFails, PublishRetryFails, RetryHandoff,
         RetryHandoffConflicts, RetryDispatch, RetryDispatchFails, RetryMarkSubmitted, queues
    <3> QED BY <3>1 DEF Waiting
  <2>2. CASE job'[d][r].pc # "reschedule" \/ k # KeyOf[r]
    BY <1>1, <1>2, <1>4, <2>1, <2>2, NoNewTurn DEF TurnStep
  <2>3. CASE job'[d][r].pc = "reschedule" /\ k = KeyOf[r]
    <3>1. PICK old, category : FailJob(d, r, old, category) /\ Carrying(d, r)
      <4>1. ASSUME NEW pc, pc # "reschedule", JobTo(d, r, pc) PROVE FALSE
        BY <2>3, <4>1, JobArrives
      <4>2. ASSUME NEW out, JobDone(d, r, out) PROVE FALSE
        BY <2>3, <4>2, JobArrives
      <4>3. ASSUME StartTransfer(d, r) PROVE FALSE
        BY <2>3, <4>3, JobArrives
      <4>4. ASSUME RetryHandoffConflicts(d, r) PROVE FALSE
        BY <2>3, <4>4 DEF RetryHandoffConflicts, TypeInv, JobOK, NoJobs, NoJob
      <4>5. CASE \/ MappingFails(d, r) \/ ClaimExisting(d, r) \/ ClaimNew(d, r)
                 \/ StoreDownload(d, r) \/ CommitDownload(d, r) \/ PublishInspection(d, r)
                 \/ PublishRetryFails(d, r) \/ RetryHandoff(d, r) \/ RetryDispatch(d, r)
                 \/ RetryMarkSubmitted(d, r)
        BY <4>1, <4>2, <4>3, <4>5 DEF MappingFails, ClaimExisting, ClaimNew, StoreDownload,
           CommitDownload, PublishInspection, PublishRetryFails, RetryHandoff, RetryDispatch,
           RetryMarkSubmitted
      <4>6. CASE DownloadFails(d, r) \/ PublishInspectionFails(d, r) \/ RetryDispatchFails(d, r)
        BY <4>6 DEF DownloadFails, PublishInspectionFails, RetryDispatchFails, JobAt, Carrying
      <4> QED BY <1>6, <4>4, <4>5, <4>6 DEF JobStep
    <3> PICK new : new = ApplyFailurePolicy(old, category)
      OBVIOUS
    <3>2. rec' = [rec EXCEPT ![k] = new] /\ new.status = "retry_scheduled"
      <4>1. new.status # "retry_scheduled" => JobDone(d, r, "failed")
        BY <3>1 DEF FailJob
      <4>2. JobDone(d, r, "failed") => job'[d][r].pc = "done"
        BY JobArrives
      <4> QED BY <2>3, <3>1, <4>1, <4>2 DEF FailJob
    <3>3. rec'[k].status = "retry_scheduled"
      BY <3>2 DEF TypeInv, RecOK
    <3>4. rec[k].status # "retry_scheduled"
      BY <2>3, <3>1, CarriedStatus DEF Carrying, JobStatus
    <3>5. JobsOff(k)' \subseteq JobsOff(k) \cup {<<d, r>>}
      BY <1>3 DEF JobsOff
    <3> PICK x : x = <<d, r>>
      OBVIOUS
    <3>6. \E t : Turns(k)' \subseteq Turns(k) \cup {t}
      BY <1>1, <1>2, <2>1, <3>5, JobBegins
    <3> QED BY <3>3, <3>4, <3>6 DEF TurnStep, TurnBegins
  <2> QED BY <2>2, <2>3
<1> QED BY <1>5, <1>6
\* An inspector passes its turn on to the message, or its verdict or a failed
\* publish begins one.
LEMMA InspectorsKeepTurns ==
    ASSUME RecordsApart, ~Reconciling, TypeInv, TypeInv', Custody, Handoff,
           NEW i \in Inspectors, ReceiveInspection(i) \/ InspectorStep(i) \/ InspectorDies(i),
           NEW k \in Keys
    PROVE  TurnStep(k)
<1>0. insp[i] \in InspectorStates /\ insp[i] \in GoodInspectors
  BY DEF TypeInv, InspOK, GoodInspectors
<1>1. \A j \in Inspectors : j # i => insp'[j] = insp[j]
  <2>1. CASE ReceiveInspection(i) \/ InspectorDies(i)
    BY <2>1 DEF ReceiveInspection, InspectorDies, TypeInv, InspOK
  <2>2. CASE InspectorStep(i)
    BY <2>2 DEF InspectorStep, InspectMissingFile, BeginInspection, Inspect, InspectionRaises,
         MoveToRejected, MoveToAccepted, CommitVerdict, CommitHandoff, Dispatch, DispatchFails,
         MarkSubmitted, PublishLater, PublishLaterFails, FinalizeRun, CloseRun, InspectorTo,
         Decide, TypeInv, InspOK
  <2> QED BY <2>1, <2>2
<1>2. Takers(k)' = Takers(k) /\ JobsOff(k)' = JobsOff(k)
  <2>1. UNCHANGED << dl, job >>
    BY DEF ReceiveInspection, InspectorDies, InspectorStep, InspectMissingFile, BeginInspection,
         Inspect, InspectionRaises, MoveToRejected, MoveToAccepted, CommitVerdict, CommitHandoff,
         Dispatch, DispatchFails, MarkSubmitted, PublishLater, PublishLaterFails, FinalizeRun,
         CloseRun
  <2> QED BY <2>1 DEF Takers, JobsOff
<1>3. insp'[i].pc \notin Rescheduling => InspectorsOff(k)' \subseteq InspectorsOff(k) \ {i}
  BY <1>1 DEF InspectorsOff
<1>4. CASE PublishLater(i)
  <2>1. PICK h, early : h = insp[i].key /\ retryQ' = retryQ \cup {AutomaticRetryOf(h, early)}
    BY <1>4 DEF PublishLater
  <2> PICK m : m = AutomaticRetryOf(h, early)
    OBVIOUS
  <2>2. m.key = h /\ UNCHANGED rec /\ insp[i].pc \in Rescheduling
    BY <1>4 DEF PublishLater, AutomaticRetryOf, tables, Rescheduling
  <2>3. InspectorsOff(k)' \subseteq InspectorsOff(k) \ {i}
    BY <1>3, <1>4, InspectorShapes, InspectorAfter DEF PublishLater, Rescheduling
  <2>4. CASE k # h
    <3>1. Waiting(k)' = Waiting(k)
      BY <2>1, <2>2, <2>4 DEF Waiting
    <3> QED BY <1>2, <2>3, <3>1, NoNewTurn DEF TurnStep
  <2>5. CASE k = h
    <3>1. i \in InspectorsOff(k) /\ Waiting(k)' \subseteq Waiting(k) \cup {m}
      BY <2>1, <2>2, <2>5 DEF InspectorsOff, Waiting
    <3>2. \E s \in Turns(k) : \E t : Turns(k)' \subseteq (Turns(k) \ {s}) \cup {t}
      BY <1>2, <2>3, <3>1, InspectorPasses
    <3> QED BY <2>2, <3>2 DEF TurnStep, TurnPasses
  <2> QED BY <2>4, <2>5
<1>5. CASE ~PublishLater(i)
  <2>1. Waiting(k)' = Waiting(k)
    <3>1. UNCHANGED retryQ
      <4>1. CASE ReceiveInspection(i) \/ InspectorDies(i)
        BY <4>1 DEF ReceiveInspection, InspectorDies, queues
      <4>2. CASE InspectorStep(i)
        BY <1>5, <4>2 DEF InspectorStep, InspectMissingFile, BeginInspection, Inspect,
         InspectionRaises, MoveToRejected, MoveToAccepted, CommitVerdict, CommitHandoff, Dispatch,
         DispatchFails, MarkSubmitted, PublishLaterFails, FinalizeRun, CloseRun, queues
      <4> QED BY <4>1, <4>2
    <3> QED BY <3>1 DEF Waiting
  <2>2. CASE insp'[i].pc \notin Rescheduling
    BY <1>2, <1>3, <2>1, <2>2, NoNewTurn DEF TurnStep
  <2>3. CASE insp'[i].pc \in Rescheduling
    <3>1. /\ Busy(i) /\ insp'[i].key = insp[i].key
          /\ rec[insp[i].key].status # "retry_scheduled"
          /\ rec'[insp[i].key].status = "retry_scheduled"
      <4>1. IdleInspector.pc \notin Rescheduling
        BY DEF IdleInspector, Rescheduling
      <4>2. ASSUME NEW pc, pc \notin Rescheduling, InspectorTo(i, pc) PROVE FALSE
        BY <2>3, <4>2, InspectorShapes, InspectorAfter
      <4>3. ASSUME NEW e, Decide(i, e) PROVE FALSE
        BY <2>3, <4>3, InspectorShapes, InspectorAfter DEF Rescheduling
      <4>4. ASSUME NEW h, NEW pc, pc \notin Rescheduling,
                   insp' = [insp EXCEPT ![i] = [IdleInspector EXCEPT !.key = h, !.pc = pc]]
            PROVE  FALSE
        <5>1. PICK w : w = [IdleInspector EXCEPT !.key = h, !.pc = pc]
          OBVIOUS
        <5>2. insp'[i] = w
          BY <4>4, <5>1, InspectorAfter
        <5>3. w.pc = pc
          BY <5>1, IdleWithKey
        <5> QED BY <2>3, <4>4, <5>2, <5>3
      <4>5. insp' # [insp EXCEPT ![i] = IdleInspector]
        BY <2>3, <4>1, InspectorAfter
      <4>6. ~ReceiveInspection(i)
        <5> SUFFICES ASSUME ReceiveInspection(i) PROVE FALSE
          OBVIOUS
        <5>1. PICK h \in Keys :
                insp' = IF Enabled /\ rec[h].status = "quarantined"
                        THEN [insp EXCEPT ![i].pc = "loaded", ![i].key = h,
                                          ![i].loaded = rec[h], ![i].edit = rec[h]]
                        ELSE IF Enabled
                        THEN [insp EXCEPT ![i].pc = "finalize", ![i].key = h]
                        ELSE insp
          BY DEF ReceiveInspection
        <5> QED BY <1>0, <2>3, <4>1, <5>1 DEF ReceiveInspection, InspectorStates, TypeInv, InspOK,
                Rescheduling
      <4>7. ~BeginInspection(i) /\ ~Inspect(i) /\ ~FinalizeRun(i)
        <5>1. ~BeginInspection(i)
          BY <1>0, <2>3, <4>5 DEF BeginInspection, InspectorStates, TypeInv, InspOK, Rescheduling
        <5>2. ~Inspect(i)
          <6> SUFFICES ASSUME Inspect(i) PROVE FALSE
            OBVIOUS
          <6>1. PICK c, pc : /\ pc \in {"passed", "refused"}
                             /\ insp' = [insp EXCEPT ![i].edit.checks = c, ![i].pc = pc]
            BY DEF Inspect
          <6> QED BY <1>0, <2>3, <6>1 DEF InspectorStates, TypeInv, InspOK, Rescheduling
        <5>3. ~FinalizeRun(i)
          <6> SUFFICES ASSUME FinalizeRun(i) PROVE FALSE
            OBVIOUS
          <6>1. PICK n, v : insp' = [insp EXCEPT ![i].pc = "close", ![i].run = n, ![i].verdict = v]
            BY <4>5 DEF FinalizeRun
          <6> QED BY <1>0, <2>3, <6>1 DEF InspectorStates, TypeInv, InspOK, Rescheduling
        <5> QED BY <5>1, <5>2, <5>3
      <4>8. ~InspectMissingFile(i) /\ ~CommitHandoff(i)
        <5>1. {"finalize", "dispatch"} \cap Rescheduling = {}
          BY DEF Rescheduling
        <5>2. ~InspectMissingFile(i)
          BY <4>4, <5>1 DEF InspectMissingFile
        <5>3. ~CommitHandoff(i)
          <6> SUFFICES ASSUME CommitHandoff(i) PROVE FALSE
            OBVIOUS
          <6>1. \/ insp' = [insp EXCEPT ![i] = IdleInspector]
                \/ insp' = [insp EXCEPT ![i] = [IdleInspector EXCEPT
                              !.key = insp[i].key, !.pc = "dispatch"]]
            BY DEF CommitHandoff
          <6> QED BY <4>4, <4>5, <5>1, <6>1
        <5> QED BY <5>2, <5>3
      <4>9. ~InspectionRaises(i) /\ ~MoveToRejected(i) /\ ~MoveToAccepted(i)
        BY <4>3 DEF InspectionRaises, MoveToRejected, MoveToAccepted
      <4>10. ~Dispatch(i) /\ ~MarkSubmitted(i)
        BY <4>2 DEF Dispatch, MarkSubmitted, Rescheduling
      <4>11. CASE CommitVerdict(i)
        <5>1. PICK h \in Keys : h = insp[i].key
          BY <1>0, <4>11 DEF CommitVerdict, InspectorAt, GoodInspectors
        <5>2. Working(i)
          BY <4>11 DEF CommitVerdict, InspectorAt, Working
        <5>3. insp[i].edit.status = "retry_scheduled"
          BY <4>4, <4>11 DEF CommitVerdict, Rescheduling
        <5>4. rec[h].status = "quarantined"
          BY <5>1, <5>2, WorkingInspector
        <5>5. rec'[h].status = insp[i].edit.status
          <6>1. rec'[h] = Written(i)
            BY <4>11, <5>1 DEF CommitVerdict, TypeInv, RecOK
          <6>2. SameRow(Written(i), insp[i].edit)
            BY <5>1, <5>2, WorkingInspector, FlushOfFresh DEF Written
          <6> QED BY <6>1, <6>2 DEF SameRow
        <5>6. insp'[i].key = h
          <6>1. PICK pc : insp' = [insp EXCEPT ![i] = [IdleInspector EXCEPT !.key = h, !.pc = pc]]
            BY <4>11, <5>1 DEF CommitVerdict
          <6>2. PICK w : w = [IdleInspector EXCEPT !.key = h, !.pc = pc]
            OBVIOUS
          <6>3. insp'[i] = w
            BY <6>1, <6>2, InspectorAfter
          <6> QED BY <6>2, <6>3, IdleWithKey
        <5> QED BY <5>1, <5>2, <5>3, <5>4, <5>5, <5>6 DEF Busy
      <4>12. CASE DispatchFails(i)
        <5>1. PICK h \in Keys : h = insp[i].key
          BY <1>0, <4>12 DEF DispatchFails, InspectorAt, GoodInspectors
        <5>2. PICK new : /\ new = ApplyFailurePolicy(rec[h], "automatic")
                         /\ rec' = [rec EXCEPT ![h] = new]
                         /\ InspectorTo(i, IF new.status = "retry_scheduled" THEN "reschedule"
                                           ELSE "finalize")
          BY <4>12, <5>1 DEF DispatchFails
        <5>3. new.status = "retry_scheduled" /\ InspectorTo(i, "reschedule")
          BY <4>2, <5>2 DEF Rescheduling
        <5>4. insp'[i].key = h
          <6>1. PICK w : insp' = [insp EXCEPT ![i] = w] /\ w.key = insp[i].key
            BY <5>3, InspectorShapes
          <6> QED BY <5>1, <6>1, InspectorAfter
        <5>5. rec'[h] = new
          BY <5>1, <5>2 DEF TypeInv, RecOK
        <5>6. Busy(i) /\ rec[h].status = "handoff_pending"
          BY <4>12, <5>1 DEF DispatchFails, InspectorAt, Busy, HandingOver, Handoff, HandoffAt,
             InspectorTold
        <5> QED BY <5>1, <5>3, <5>4, <5>5, <5>6
      <4> QED BY <1>5, <4>5, <4>6, <4>7, <4>8, <4>9, <4>10, <4>11, <4>12
              DEF InspectorStep, PublishLaterFails, CloseRun, InspectorDies
    <3>2. CASE k # insp[i].key
      <4>1. InspectorsOff(k)' \subseteq InspectorsOff(k)
        BY <1>1, <3>1, <3>2 DEF InspectorsOff
      <4> QED BY <1>2, <2>1, <4>1, NoNewTurn DEF TurnStep
    <3>3. CASE k = insp[i].key
      <4>1. InspectorsOff(k)' \subseteq InspectorsOff(k) \cup {i}
        BY <1>1 DEF InspectorsOff
      <4>2. \E t : Turns(k)' \subseteq Turns(k) \cup {t}
        BY <1>2, <2>1, <4>1, InspectorBegins
      <4> QED BY <3>1, <3>3, <4>2 DEF TurnStep, TurnBegins
    <3> QED BY <3>2, <3>3
  <2> QED BY <2>2, <2>3
<1> QED BY <1>4, <1>5
\* A download worker passes the turn of a message on to itself, and ends its
\* turn when it starts the retry.
LEMMA WorkersKeepTurns ==
    ASSUME TypeInv, Custody, NEW d \in Downloaders,
           \/ DownloaderStep(d) \/ DownloaderReceives(d) \/ DownloaderDies(d)
           \/ StartScheduledRun(d) \/ SelectHandoff(d),
           NEW k \in Keys
    PROVE  TurnStep(k) /\ (StartRetry(d) /\ k = dl[d].key => TurnEnds(k))
<1>0. dl \in [Downloaders -> GoodWorkers] /\ job \in [Downloaders -> [Rows -> GoodJobs]]
  BY DEF TypeInv, DlOK, JobOK
<1>1. \A c \in Downloaders : c # d => dl'[c] = dl[c] /\ job'[c] = job[c]
  BY OtherWorkersStay
<1>2. UNCHANGED insp /\ retryQ' \subseteq retryQ
  BY DEF DownloaderStep, DownloaderReceives, DownloaderDies, StartScheduledRun,
     SelectHandoff, StartReading, SheetReadFails, ReadSheet, StartRetry, RetryFindsActiveRun,
     ComputeResults, ApplyResults, ClaimHandoff, Redispatch, RedispatchFails, MarkReconciled,
     ReceiveRun, ReceiveRetry, SkipRetry, queues
<1>3. InspectorsOff(k)' \subseteq InspectorsOff(k) /\ Waiting(k)' \subseteq Waiting(k)
  BY <1>2 DEF InspectorsOff, Waiting
<1>4. \A r \in Rows : job'[d][r].pc = "reschedule" => job[d][r].pc = "reschedule"
  <2>1. \A r \in Rows : NoJobs[r].pc = "none"
    BY DEF NoJobs, NoJob
  <2>2. CASE StartRetry(d)
    <3>1. PICK h \in Keys : h = dl[d].key
      BY <1>0, <2>2 DEF StartRetry, GoodWorkers
    <3>2. rec[h].row \in Rows
      BY <2>2, <3>1 DEF StartRetry, Custody, CustodyAt, WorkersAt, WorkerGood, RowAt, RowGood
    <3> PICK q \in Rows : q = rec[h].row
      BY <3>2
    <3>3. UNCHANGED job \/ \E new : ResumeAt(d, q, h, new)
      BY <2>2, <3>1 DEF StartRetry
    <3>4. CASE \E new : ResumeAt(d, q, h, new)
      <4>1. JobTo(d, q, "handoff") \/ JobTo(d, q, "publish") \/ StartTransfer(d, q)
        BY <3>4 DEF ResumeAt
      <4>2. job'[d][q].pc # "reschedule"
        BY <4>1, JobArrives
      <4>3. PICK j : job' = [job EXCEPT ![d][q] = j] \/ job' = [job EXCEPT ![d][q].pc = j]
        BY <4>1 DEF JobTo, StartTransfer
      <4> QED BY <1>0, <4>2, <4>3
    <3> QED BY <3>3, <3>4
  <2>3. CASE ReadSheet(d)
    <3>1. PICK sheet \in SUBSET Rows :
            job' = [job EXCEPT ![d] = [r \in Rows |->
                      IF r \in sheet THEN [NoJob EXCEPT !.pc = "todo"] ELSE NoJob]]
      BY <2>3 DEF ReadSheet
    <3>2. [NoJob EXCEPT !.pc = "todo"].pc = "todo" /\ NoJob.pc = "none"
      BY DEF NoJob
    <3>3. \A r \in Rows : job'[d][r] \in {[NoJob EXCEPT !.pc = "todo"], NoJob}
      BY <1>0, <3>1
    <3> QED BY <3>2, <3>3
  <2>4. CASE ~StartRetry(d) /\ ~ReadSheet(d)
    <3>1. UNCHANGED job \/ job' = [job EXCEPT ![d] = NoJobs]
      BY <2>4 DEF DownloaderStep, DownloaderReceives, DownloaderDies, StartScheduledRun,
         SelectHandoff, StartReading, SheetReadFails, RetryFindsActiveRun,
         ComputeResults, ApplyResults, ClaimHandoff, Redispatch, RedispatchFails, MarkReconciled,
         ReceiveRun, ReceiveRetry, SkipRetry
    <3> QED BY <1>0, <2>1, <3>1
  <2> QED BY <2>2, <2>3, <2>4
<1>5. JobsOff(k)' \subseteq JobsOff(k)
  <2>1. \A c \in Downloaders, r \in Rows :
          job'[c][r].pc = "reschedule" => job[c][r].pc = "reschedule"
    BY <1>1, <1>4
  <2> QED BY <2>1 DEF JobsOff
<1>6. CASE ReceiveRetry(d)
  <2>1. PICK m \in retryQ :
          /\ retryQ' = retryQ \ {m}
          /\ dl' = [dl EXCEPT ![d].pc = "retry", ![d].key = m.key, ![d].copy = rec[m.key]]
    BY <1>6 DEF ReceiveRetry
  <2>2. UNCHANGED rec /\ ~StartRetry(d)
    BY <1>6 DEF ReceiveRetry, StartRetry, IdleWorker, tables
  <2>3. dl'[d].key = m.key
    BY <1>0, <2>1 DEF GoodWorkers, Workers
  <2>4. Takers(k)' \subseteq Takers(k) \cup {d}
    BY <1>1 DEF Takers
  <2>5. CASE m.key = k
    <3>1. Waiting(k)' \subseteq Waiting(k) \ {m} /\ m \in Waiting(k)
      BY <2>1, <2>5 DEF Waiting
    <3>2. \E s \in Turns(k) : \E t : Turns(k)' \subseteq (Turns(k) \ {s}) \cup {t}
      BY <1>3, <1>5, <2>4, <3>1, MessagePasses
    <3> QED BY <2>2, <3>2 DEF TurnStep, TurnPasses
  <2>6. CASE m.key # k
    <3>1. Takers(k)' \subseteq Takers(k)
      BY <1>1, <2>3, <2>6 DEF Takers
    <3> QED BY <1>3, <1>5, <2>2, <3>1, NoNewTurn DEF TurnStep
  <2> QED BY <2>5, <2>6
<1>7. CASE ~ReceiveRetry(d)
  <2>1. dl'[d].pc = "retry" => dl'[d] = dl[d] /\ ~StartRetry(d)
    <3>1. IdleWorker.pc = "idle"
      BY DEF IdleWorker
    <3>2. CASE StartRetry(d)
      <4>1. \/ dl' = [dl EXCEPT ![d] = IdleWorker]
            \/ \E n, c : dl' = [dl EXCEPT ![d].pc = "retrying", ![d].run = n, ![d].copy = c]
        BY <3>2 DEF StartRetry
      <4> QED BY <1>0, <3>1, <4>1 DEF GoodWorkers, Workers
    <3>3. CASE ComputeResults(d)
      <4>1. PICK v : dl' = [dl EXCEPT ![d].pc = "apply", ![d].verdict = v]
        BY <3>3 DEF ComputeResults
      <4> QED BY <1>0, <4>1 DEF GoodWorkers, Workers
    <3>4. CASE ReceiveRun(d) \/ StartScheduledRun(d)
      <4>1. UNCHANGED dl \/ \E n : dl' = [dl EXCEPT ![d].pc = "continue", ![d].run = n]
        BY <3>4 DEF ReceiveRun, StartScheduledRun
      <4>2. dl[d] = IdleWorker
        BY <3>4 DEF ReceiveRun, StartScheduledRun
      <4> QED BY <1>0, <3>1, <4>1, <4>2 DEF GoodWorkers, Workers
    <3>5. CASE SelectHandoff(d)
      <4>1. PICK h, c : dl' = [dl EXCEPT ![d].pc = "reclaim", ![d].key = h, ![d].copy = c]
        BY <3>5 DEF SelectHandoff
      <4> QED BY <1>0, <4>1 DEF GoodWorkers, Workers
    <3>6. CASE SkipRetry(d)
      BY <3>1, <3>6 DEF SkipRetry
    <3>7. CASE \/ StartReading(d) \/ SheetReadFails(d) \/ ReadSheet(d) \/ RetryFindsActiveRun(d)
               \/ ApplyResults(d) \/ ClaimHandoff(d) \/ Redispatch(d) \/ RedispatchFails(d)
               \/ MarkReconciled(d) \/ DownloaderDies(d)
      <4>1. \/ dl' = [dl EXCEPT ![d] = IdleWorker]
            \/ \E pc : pc # "retry" /\ dl' = [dl EXCEPT ![d].pc = pc]
        BY <3>7 DEF StartReading, SheetReadFails, ReadSheet, RetryFindsActiveRun, ApplyResults,
           ClaimHandoff, Redispatch, RedispatchFails, MarkReconciled, DownloaderDies
      <4> QED BY <1>0, <3>1, <4>1 DEF GoodWorkers, Workers
    <3> QED BY <1>7, <3>2, <3>3, <3>4, <3>5, <3>6, <3>7 DEF DownloaderStep, DownloaderReceives
  <2>2. Takers(k)' \subseteq Takers(k)
    BY <1>1, <2>1 DEF Takers
  <2>3. ASSUME StartRetry(d), k = dl[d].key PROVE TurnEnds(k)
    <3>1. d \in Takers(k) /\ Takers(k)' \subseteq Takers(k) \ {d}
      BY <2>1, <2>2, <2>3 DEF Takers, StartRetry
    <3> QED BY <1>3, <1>5, <3>1, WorkerEnds
  <2> QED BY <1>3, <1>5, <2>2, <2>3, NoNewTurn DEF TurnStep
<1> QED BY <1>6, <1>7

LEMMA NextKeepsTurns ==
    ASSUME RecordsApart, ~ManualRetry, ~Reconciling, TypeInv, TypeInv', Custody, Handoff,
           OneTurn, [Next]_vars
    PROVE  OneTurn'
<1>1. \A k \in Keys : RowSteps(k)
  BY NextStepsRows DEF Orderly
<1>2. ASSUME NEW k \in Keys PROVE TurnStep(k)
  <2>1. ASSUME UNCHANGED << dl, job, insp >>, retryQ' \subseteq retryQ PROVE TurnStep(k)
    <3>1. /\ Waiting(k)' \subseteq Waiting(k) /\ Takers(k)' \subseteq Takers(k)
          /\ JobsOff(k)' \subseteq JobsOff(k) /\ InspectorsOff(k)' \subseteq InspectorsOff(k)
      BY <2>1 DEF Waiting, Takers, JobsOff, InspectorsOff
    <3> QED BY <3>1, NoNewTurn DEF TurnStep
  <2>2. CASE \/ UNCHANGED vars \/ Clock \/ RequestRun \/ PublishRun \/ PublishRunFails
             \/ EndpointDies \/ MessageLost
    BY <2>1, <2>2 DEF vars, Clock, RetryTimeComes, LeaseExpires, RequestRun, PublishRun,
       PublishRunFails, EndpointDies, MessageLost, queues
  <2>3. CASE Operators
    <3>1. ASSUME NEW h \in Keys PROVE ~RequestManualRetry(h)
      BY DEF RequestManualRetry
    <3> QED BY <2>2, <2>3, <3>1, WorkersKeepTurns DEF Operators
  <2>4. CASE Faults
    BY <2>2, <2>4, WorkersKeepTurns, InspectorsKeepTurns DEF Faults
  <2> QED BY <2>2, <2>3, <2>4, WorkersKeepTurns, JobsKeepTurns, InspectorsKeepTurns DEF Next
<1>3. ASSUME NEW k \in Keys PROVE RowTaken(k) => TurnEnds(k)
  BY WorkersKeepTurns DEF RowTaken, DownloaderStep
<1> QED BY <1>1, <1>2, <1>3, TurnKept DEF OneTurn

LEMMA TurnsKeepApart ==
    ASSUME TypeInv, OneWorkerProcesses, ~Reconciling, Custody, Handoff, OneTurn
    PROVE  RecordsApart
<1> SUFFICES ASSUME NEW k \in Keys, NEW c \in Downloaders, NEW d \in Downloaders,
                    Holds(c, k), Holds(d, k)
             PROVE  c = d
  BY DEF RecordsApart
<1> DEFINE Carries(w) == \E r \in Rows : KeyOf[r] = k /\ Carrying(w, r)
<1>1. (c \in Takers(k) \/ Carries(c)) /\ (d \in Takers(k) \/ Carries(d))
  BY DEF Holds, Handoff, NoReconciler, Takers
<1>2. ASSUME NEW w \in Downloaders, Carries(w)
      PROVE  rec[k].status # "retry_scheduled" /\ Processing(w)
  <2>1. PICK r \in Rows : KeyOf[r] = k /\ Carrying(w, r)
    BY <1>2
  <2>2. rec[k].status # "retry_scheduled"
    BY <2>1, CarriedStatus DEF JobStatus, Carrying
  <2>3. Processing(w)
    BY <2>1, WorkerOfJob DEF Carrying, Processing
  <2> QED BY <2>2, <2>3
<1>3. ASSUME NEW w \in Takers(k) PROVE <<"worker", w>> \in Turns(k)
  BY <1>3 DEF Turns
<1>4. TurnAt(k)
  BY DEF OneTurn
<1>5. CASE Carries(c) /\ Carries(d)
  BY <1>2, <1>5 DEF OneWorkerProcesses
<1>6. CASE c \in Takers(k) /\ d \in Takers(k)
  <2>1. <<"worker", c>> = <<"worker", d>>
    BY <1>3, <1>4, <1>6 DEF TurnAt
  <2> QED BY <2>1
<1>7. CASE (c \in Takers(k) /\ Carries(d)) \/ (d \in Takers(k) /\ Carries(c))
  <2>1. rec[k].status = "retry_scheduled"
    BY <1>3, <1>4, <1>7 DEF TurnAt
  <2> QED BY <1>2, <1>7, <2>1
<1> QED BY <1>1, <1>5, <1>6, <1>7

\* RecordsApart: while nobody asks for retries by hand and the reconciler is not
\* triggered, no two download workers are ever busy with one record, however
\* many Celery forks: the run gate keeps the workers of runs apart, and a record
\* that waits for its retry has one message, worker or publisher at a time.
THEOREM RetriesTakeTurns ==
    ~ManualRetry /\ ~Reconciling => (Spec => []RecordsApart)
<1> SUFFICES ASSUME ~ManualRetry, ~Reconciling PROVE Spec => []RecordsApart
  OBVIOUS
<1> DEFINE IInv == Custody /\ Handoff /\ OneTurn
<1>1. Init => IInv
  <2>1. ASSUME Init PROVE OneTurn
    <3>1. ASSUME NEW k \in Keys PROVE Turns(k) = {}
      <4>1. Waiting(k) = {} /\ Takers(k) = {} /\ JobsOff(k) = {} /\ InspectorsOff(k) = {}
        BY <2>1 DEF Init, Waiting, Takers, JobsOff, InspectorsOff, IdleWorker, NoJobs, NoJob,
           IdleInspector, Rescheduling
      <4> QED BY <4>1 DEF Turns
    <3> QED BY <3>1 DEF OneTurn, TurnAt
  <2> QED BY <2>1, CustodyInitially, HandoffInitially
<1>2. TypeInv /\ OneWorkerProcesses /\ IInv => RecordsApart
  BY TurnsKeepApart
<1>3. RecordsApart /\ TypeInv /\ TypeInv' /\ IInv /\ [Next]_vars => IInv'
  BY CustodyInductive, HandoffInductive, NextKeepsTurns DEF Orderly
<1> QED BY <1>1, <1>2, <1>3, TypesInvariant, OneWorkerProcessesAlways, PTL DEF Spec

\* With one download process there is nobody to meet, whoever asks for retries.
THEOREM OneWorkerIsApart ==
    (\A c, d \in Downloaders : c = d) => (Spec => []RecordsApart)
<1> SUFFICES ASSUME \A c, d \in Downloaders : c = d PROVE Spec => []RecordsApart
  OBVIOUS
<1>1. RecordsApart
  BY DEF RecordsApart
<1> QED BY <1>1, PTL

-----------------------------------------------------------------------------
(* What is promised of recordings.  Nothing is assumed of the steps, only   *)
(* of the configuration.                                                    *)

WorkersApart == (~ManualRetry /\ ~Reconciling) \/ \A c, d \in Downloaders : c = d

\* RecordsApart in both cases.
THEOREM WorkersStayApart == WorkersApart => (Spec => []RecordsApart)
BY RetriesTakeTurns, OneWorkerIsApart DEF WorkersApart

\* InspectionGate: nothing is in accepted storage, in a Call or on its way to the
\* call pipeline that has not passed all three inspections.
THEOREM OnlyVettedPass == WorkersApart /\ PathsApart => (Spec => []InspectionGate)
BY WorkersStayApart, NothingPassesUnvetted, PTL

\* OneCallWithItsAudio: a record gets one Call, and that has its own recording,
\* however often the record is retried.
THEOREM CallsHaveTheirAudio == WorkersApart /\ PathsApart => (Spec => []OneCallWithItsAudio)
BY WorkersStayApart, OneCallOneAudio, PTL

\* QueuedAtMostOnce: without the reconciler a Call is queued once (FR-006).
THEOREM CallsAreQueuedOnce == WorkersApart /\ ~Reconciling => (Spec => []QueuedAtMostOnce)
BY WorkersStayApart, QueuedOnce, PTL

\* HandoffStaysRecoverable: a Call that was created and not marked submitted
\* is in reach of a retry or of the reconciler.
THEOREM CallsStayInReach == WorkersApart /\ Orderly => (Spec => []HandoffStaysRecoverable)
BY WorkersStayApart, StaysRecoverable, PTL

\* VerdictsAreFinal: submitted and rejected records stay what they are, whatever
\* is delivered late or twice.
THEOREM VerdictsAreKept == WorkersApart /\ Orderly => (Spec => VerdictsAreFinal)
BY WorkersStayApart, VerdictsStay, PTL

\* ImplementsHandoff: every step of every worker is a step of RowHandoff or
\* leaves the handoff alone.
THEOREM PromiseIsKept == WorkersApart /\ Orderly => (Spec => ImplementsHandoff)
BY WorkersStayApart, KeepsThePromise, PTL

\* RetriesAreBounded: automatic retries of a record come to an end.
THEOREM RetriesAreFinite ==
    WorkersApart /\ Orderly /\ ~ManualRetry => (Spec => []RetriesAreBounded)
BY WorkersStayApart, RetriesEnd, PTL

\* RunsCloseOnce: a closed run keeps its status, and is completed only over
\* records that have come to rest.
THEOREM RunsAreClosedOnce == WorkersApart /\ Orderly => (Spec => RunsCloseOnce)
BY WorkersStayApart, RunsCloseOnceAlways, PTL
==============================================================================
