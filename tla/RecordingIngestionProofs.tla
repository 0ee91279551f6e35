----------------------- MODULE RecordingIngestionProofs -----------------------
(***************************************************************************)
(* Theorems about RecordingIngestion for any number of rows, keys, workers *)
(* and runs, with every fault the specification knows switched on or off:  *)
(* its types, one active run at a time, and the custody of a record.       *)
(***************************************************************************)
EXTENDS RecordingIngestion, RecordingHandoff, FiniteSetTheorems, TLAPS

-----------------------------------------------------------------------------
(* The type invariant with what the program counter of a process says      *)
(* about its local variables, one predicate per variable.                  *)

GoodWorkers ==
    {w \in Workers :
       /\ w.pc \in {"continue", "reading", "rows", "retrying", "apply"}
            => w.run \in RunIds
       /\ w.pc \in {"retry", "reclaim", "redispatch", "remark"}
            => w.key \in Keys /\ w.copy \in Records
       /\ w.pc = "apply" => w.verdict \in {"processing"} \cup ClosedRunStatuses}

GoodJobs == {j \in Jobs : j.pc \in {"transfer", "stored"} => j.path \in Paths}

GoodInspectors ==
    {w \in InspectorStates :
       /\ w.pc # "idle" => w.key \in Keys
       /\ w.pc \in {"loaded", "inspecting", "refused", "passed", "commit"}
            => w.loaded \in Records /\ w.edit \in Records
       /\ w.pc = "loaded" => w.edit = w.loaded
       /\ w.pc \in {"inspecting", "refused", "passed"} => w.edit.qpath \in Paths
       /\ w.pc = "commit" /\ w.edit.status = "accepted" => w.edit.spath \in Paths
       /\ w.pc = "close" => w.verdict \in ClosedRunStatuses}

RunsOK == runs \in [RunIds -> Runs]
RecOK == rec \in [Keys -> Records]
TriedOK == tried \subseteq Keys \X Nat \X Phases
CallsOK == calls \in [Keys -> Seq(Paths)]
FilesOK == DOMAIN files \subseteq Paths /\ \A p \in DOMAIN files : files[p] \in Keys
RunQOK == runQ \subseteq RunIds
RetryQOK == retryQ \subseteq Retries
InspQOK == inspQ \in [Keys -> Nat]
CallQOK == callQ \in [Keys -> Nat]
WebOK == web \in RunIds \cup {None}
DlOK == dl \in [Downloaders -> GoodWorkers]
JobOK == job \in [Downloaders -> [Rows -> GoodJobs]]
InspOK == insp \in [Inspectors -> GoodInspectors]
FaultsOK == crashes \in 0 .. MaxCrashes /\ losses \in 0 .. MaxLosses
VettedOK == vetted \subseteq Keys

TypeInv ==
    /\ RunsOK /\ RecOK /\ TriedOK /\ CallsOK /\ FilesOK
    /\ RunQOK /\ RetryQOK /\ InspQOK /\ CallQOK /\ WebOK
    /\ DlOK /\ JobOK /\ InspOK /\ FaultsOK /\ VettedOK

-----------------------------------------------------------------------------
(* Operators on records                                                    *)

LEMMA NoRecordType == NoRecord \in Records
BY DEF NoRecord, Records, RecordStatuses, NullablePath, Unchecked, Checks

LEMMA NewRecordType ==
    ASSUME NEW n \in RunIds \cup {None}, NEW r \in Rows
    PROVE  NewRecord(n, r) \in Records
BY DEF NewRecord, NoRecord, Records, RecordStatuses, ActiveStatuses,
       NullablePath, Unchecked, Checks

LEMMA RecordStepTypes ==
    ASSUME NEW r \in Records
    PROVE  /\ \A category \in Categories : ApplyFailurePolicy(r, category) \in Records
           /\ MarkFailed(r) \in Records
           /\ \A p \in NullablePath : Quarantined(r, p) \in Records
           /\ \A p \in NullablePath : Rejected(r, p) \in Records
           /\ \A p \in NullablePath : Accepted(r, p) \in Records
           /\ \A c \in Nat : HandoffPending(r, c) \in Records
           /\ Submitted(r) \in Records
           /\ \A s \in RecordStatuses, c \in Categories :
                [r EXCEPT !.status = s, !.err = c] \in Records
<1> USE DEF Records, RecordStatuses, ActiveStatuses, SettledStatuses
<1>1. ASSUME NEW category \in Categories PROVE ApplyFailurePolicy(r, category) \in Records
  <2>1. CASE category = "automatic" /\ AutomaticRetryLeft(r)
    <3>1. ApplyFailurePolicy(r, category) =
            [r EXCEPT !.status = "retry_scheduled", !.timer = "running", !.err = category]
      BY <2>1 DEF ApplyFailurePolicy
    <3> QED BY <3>1
  <2>2. CASE ~(category = "automatic" /\ AutomaticRetryLeft(r))
    <3>1. ApplyFailurePolicy(r, category) =
            [r EXCEPT !.status = "failed", !.timer = "unset", !.err = category]
      BY <2>2 DEF ApplyFailurePolicy
    <3> QED BY <3>1
  <2> QED BY <2>1, <2>2
<1>2. MarkFailed(r) \in Records
  BY DEF MarkFailed, Categories
<1>3. ASSUME NEW p \in NullablePath PROVE Quarantined(r, p) \in Records
  BY DEF Quarantined
<1>4. ASSUME NEW p \in NullablePath PROVE Rejected(r, p) \in Records
  BY DEF Rejected, Categories
<1>5. ASSUME NEW p \in NullablePath PROVE Accepted(r, p) \in Records
  BY DEF Accepted, AllPassed, NullablePath
<1>6. ASSUME NEW c \in Nat PROVE HandoffPending(r, c) \in Records
  BY DEF HandoffPending
<1>7. Submitted(r) \in Records
  BY DEF Submitted
<1>8. ASSUME NEW s \in RecordStatuses, NEW c \in Categories
      PROVE  [r EXCEPT !.status = s, !.err = c] \in Records
  <2> HIDE DEF RecordStatuses
  <2> QED OBVIOUS
<1> QED
  <2> HIDE DEF Records, RecordStatuses
  <2> QED BY <1>1, <1>2, <1>3, <1>4, <1>5, <1>6, <1>7, <1>8

\* What the verdicts write, as far as the proofs look at it.
LEMMA VerdictFields ==
    ASSUME NEW r \in Records, NEW p, NEW c
    PROVE  /\ MarkFailed(r).status = "failed"
           /\ Rejected(r, p).status = "rejected"
           /\ Accepted(r, p).status = "accepted" /\ Accepted(r, p).spath = p
           /\ ApplyFailurePolicy(r, c).status \in {"retry_scheduled", "failed"}
<1>1. MarkFailed(r).status = "failed"
  BY DEF MarkFailed, Records
<1>2. Rejected(r, p).status = "rejected"
  BY DEF Rejected, Records
<1>3. Accepted(r, p).status = "accepted" /\ Accepted(r, p).spath = p
  BY DEF Accepted, Records
<1>4. ApplyFailurePolicy(r, c).status \in {"retry_scheduled", "failed"}
  BY DEF ApplyFailurePolicy, Records
<1> QED BY <1>1, <1>2, <1>3, <1>4

LEMMA PrepareForRetryType ==
    ASSUME NEW r \in Records, NEW n \in RunIds
    PROVE  PrepareForRetry(r, n) \in Records
<1> USE DEF Records, RecordStatuses, ActiveStatuses, NullablePath
<1> DEFINE base == [r EXCEPT !.run = n, !.attempts = @ + 1, !.timer = "unset",
                             !.err = None]
<1>1. base \in Records
  <2>1. r.attempts + 1 \in Nat
    OBVIOUS
  <2> DEFINE later == r.attempts + 1
  <2>2. base = [r EXCEPT !.run = n, !.attempts = later, !.timer = "unset", !.err = None]
    OBVIOUS
  <2> HIDE DEF later, base
  <2>3. later \in Nat
    BY <2>1 DEF later
  <2> QED BY <2>2, <2>3
<1>2. Unchecked \in [Checks -> {"pending", "passed", "refused"}]
  BY DEF Unchecked
<1> HIDE DEF base
<1>3. [base EXCEPT !.status = "accepted"] \in Records
  BY <1>1
<1>4. [base EXCEPT !.status = "quarantined", !.checks = Unchecked] \in Records
  BY <1>1, <1>2
<1>5. [base EXCEPT !.status = "downloading", !.spath = None,
                   !.queued = FALSE, !.checks = Unchecked] \in Records
  BY <1>1, <1>2
<1> QED BY <1>3, <1>4, <1>5 DEF PrepareForRetry, base

\* A merge of three rows is a row.
LEMMA FlushType ==
    ASSUME NEW a \in Records, NEW b \in Records, NEW c \in Records
    PROVE  Flush(a, b, c) \in Records
BY DEF Flush, Records

-----------------------------------------------------------------------------
(* Updates of one variable                                                 *)

LEMMA NoneIsNoValue ==
    /\ None \notin Paths /\ None \notin RunIds /\ None \notin Rows
    /\ None \notin Keys /\ None \notin Records /\ None \notin Categories
BY NoneAssumption

\* What is not changed keeps its type.
LEMMA Frame ==
    ASSUME TypeInv
    PROVE  /\ UNCHANGED runs => RunsOK'
           /\ UNCHANGED rec => RecOK'
           /\ UNCHANGED tried => TriedOK'
           /\ UNCHANGED calls => CallsOK'
           /\ UNCHANGED files => FilesOK'
           /\ UNCHANGED runQ => RunQOK'
           /\ UNCHANGED retryQ => RetryQOK'
           /\ UNCHANGED inspQ => InspQOK'
           /\ UNCHANGED callQ => CallQOK'
           /\ UNCHANGED web => WebOK'
           /\ UNCHANGED dl => DlOK'
           /\ UNCHANGED job => JobOK'
           /\ UNCHANGED insp => InspOK'
           /\ UNCHANGED crashes /\ UNCHANGED losses => FaultsOK'
           /\ UNCHANGED vetted => VettedOK'
BY DEF TypeInv, RunsOK, RecOK, TriedOK, CallsOK, FilesOK, RunQOK, RetryQOK, InspQOK,
       CallQOK, WebOK, DlOK, JobOK, InspOK, FaultsOK, VettedOK

LEMMA NextRunType ==
    ASSUME CanCreateRun
    PROVE  NextRun \in RunIds /\ runs[NextRun] = NoRun
BY DEF CanCreateRun, NextRun

LEMMA RunStatusType ==
    ASSUME RunsOK, NEW n \in RunIds \cup {None}, NEW s \in RunStatuses,
           runs' = [runs EXCEPT ![n].status = s]
    PROVE  RunsOK'
BY DEF RunsOK, Runs

LEMMA CreateRunType ==
    ASSUME RunsOK, CanCreateRun, NEW s \in RunStatuses, CreateRun(s)
    PROVE  RunsOK'
BY NextRunType DEF RunsOK, Runs, CreateRun, NoRun

LEMMA RecUpdate ==
    ASSUME RecOK, NEW k \in Keys, NEW new \in Records, rec' = [rec EXCEPT ![k] = new]
    PROVE  RecOK'
BY DEF RecOK

LEMMA TriedUpdate ==
    ASSUME TriedOK, NEW k \in Keys, NEW n \in Nat, NEW ph \in Phases,
           tried' = tried \cup {<<k, n, ph>>}
    PROVE  TriedOK'
BY DEF TriedOK

LEMMA WorkerUpdate ==
    ASSUME DlOK, NEW d \in Downloaders, NEW w \in GoodWorkers, dl' = [dl EXCEPT ![d] = w]
    PROVE  DlOK'
BY DEF DlOK

LEMMA JobUpdate ==
    ASSUME JobOK, NEW d \in Downloaders, NEW r,
           NEW j, r \in Rows => j \in GoodJobs,
           job' = [job EXCEPT ![d][r] = j]
    PROVE  JobOK'
<1>1. CASE r \in Rows
  BY <1>1 DEF JobOK
<1>2. CASE r \notin Rows
  <2>1. [job[d] EXCEPT ![r] = j] = job[d]
    BY <1>2 DEF JobOK
  <2> QED BY <2>1 DEF JobOK
<1> QED BY <1>1, <1>2

LEMMA QueueUpdate ==
    ASSUME NEW k \in Keys
    PROVE  /\ CallQOK /\ QueueCall(k) => CallQOK'
           /\ InspQOK /\ Publish(k) => InspQOK'
BY DEF InspQOK, CallQOK, QueueCall, Publish

LEMMA InspectorUpdate ==
    ASSUME InspOK, NEW i \in Inspectors, NEW w \in GoodInspectors,
           insp' = [insp EXCEPT ![i] = w]
    PROVE  InspOK'
BY DEF InspOK

LEMMA IdleTypes ==
    IdleWorker \in GoodWorkers /\ NoJob \in GoodJobs /\ IdleInspector \in GoodInspectors
BY DEF IdleWorker, GoodWorkers, Workers, DownloaderPCs, RunStatuses, NoJob, GoodJobs, Jobs,
       JobPCs, Outcomes, NullablePath, IdleInspector, GoodInspectors, InspectorStates,
       InspectorPCs

LEMMA JobStepTypes ==
    ASSUME JobOK, NEW d \in Downloaders, NEW r
    PROVE  /\ \A pc \in JobPCs \ {"transfer", "stored"} : JobTo(d, r, pc) => JobOK'
           /\ \A out \in Outcomes : JobDone(d, r, out) => JobOK'
<1>1. ASSUME NEW pc \in JobPCs \ {"transfer", "stored"}, JobTo(d, r, pc) PROVE JobOK'
  <2>1. r \in Rows => [job[d][r] EXCEPT !.pc = pc] \in GoodJobs
    BY DEF JobOK, GoodJobs, Jobs
  <2> QED BY <2>1, <1>1, JobUpdate DEF JobTo
<1>2. ASSUME NEW out \in Outcomes, JobDone(d, r, out) PROVE JobOK'
  <2>1. [NoJob EXCEPT !.pc = "done", !.out = out] \in GoodJobs
    BY IdleTypes DEF GoodJobs, Jobs, JobPCs
  <2> QED BY <2>1, <1>2, JobUpdate DEF JobDone
<1> QED BY <1>1, <1>2

-----------------------------------------------------------------------------
(* The storage layout                                                      *)

LEMMA UniqueDestinationType ==
    ASSUME NEW dir \in Dirs, NEW base \in BaseNames, NEW suffix \in Seq(Keys), NEW k \in Keys
    PROVE  UniqueDestination(dir, base, suffix, k) \in Paths
BY DEF UniqueDestination, Paths

LEMMA StoredType ==
    ASSUME FilesOK, NEW p \in Paths, NEW k \in Keys, files' = Stored(p, k)
    PROVE  FilesOK'
BY DEF FilesOK, Stored

LEMMA MovedType ==
    ASSUME FilesOK, NEW p \in DOMAIN files, NEW q \in Paths, files' = Moved(p, q)
    PROVE  FilesOK'
BY DEF FilesOK, Moved

\* A transfer starts with a path of the layout, whatever files there are.
LEMMA StartTransferType ==
    ASSUME JobOK, NEW d \in Downloaders, NEW r, StartTransfer(d, r)
    PROVE  JobOK'
<1> DEFINE path == UniqueDestination("quarantine", BaseOf[KeyOf[r]], <<>>, KeyOf[r])
<1>1. ASSUME r \in Rows PROVE path \in Paths
  <2>1. KeyOf[r] \in Keys /\ BaseOf[KeyOf[r]] \in BaseNames
    BY <1>1, KeyOfAssumption, BaseOfAssumption
  <2>2. <<>> \in Seq(Keys) /\ "quarantine" \in Dirs
    BY DEF Dirs
  <2> QED BY <2>1, <2>2, UniqueDestinationType
<1> HIDE DEF path
<1>2. r \in Rows => [NoJob EXCEPT !.pc = "transfer", !.path = path] \in GoodJobs
  BY <1>1, IdleTypes DEF GoodJobs, Jobs, JobPCs, NullablePath
<1> QED BY <1>2, JobUpdate DEF StartTransfer, path

LEMMA ResumeAtType ==
    ASSUME JobOK, NEW d \in Downloaders, NEW r, NEW k, NEW new, ResumeAt(d, r, k, new)
    PROVE  JobOK'
BY JobStepTypes, StartTransferType DEF ResumeAt, JobPCs

LEMMA KeyOfType == \A r \in Rows : KeyOf[r] \in Keys
BY KeyOfAssumption

LEMMA LoadedType ==
    ASSUME TypeInv, NEW d \in Downloaders, NEW r \in Rows
    PROVE  Loaded(d, r) \in Records /\ Loaded(d, r).attempts \in Nat
<1>1. dl[d].run \in RunIds \cup {None}
  BY DEF TypeInv, DlOK, GoodWorkers, Workers
<1>2. rec[KeyOf[r]] \in Records
  BY KeyOfType DEF TypeInv, RecOK
<1>3. Loaded(d, r) \in Records
  BY <1>1, <1>2, NewRecordType DEF Loaded
<1> QED BY <1>3 DEF Records

LEMMA FailJobType ==
    ASSUME TypeInv, NEW d \in Downloaders, NEW r \in Rows, NEW old \in Records,
           NEW category \in Categories, FailJob(d, r, old, category)
    PROVE  RecOK' /\ JobOK'
<1>1. ApplyFailurePolicy(old, category) \in Records
  BY RecordStepTypes
<1>2. RecOK'
  BY <1>1, KeyOfType, RecUpdate DEF FailJob, TypeInv
<1>3. JobOK'
  BY JobStepTypes DEF FailJob, TypeInv, JobPCs, Outcomes
<1> QED BY <1>2, <1>3

LEMMA InspectorStepTypes ==
    ASSUME TypeInv, NEW i \in Inspectors
    PROVE  /\ \A k \in Keys, pc \in {"dispatch", "reschedule_early", "finalize"} :
                [IdleInspector EXCEPT !.key = k, !.pc = pc] \in GoodInspectors
           /\ insp[i].pc # "idle" =>
                \A pc \in {"mark", "reschedule", "finalize"} : InspectorTo(i, pc) => InspOK'
<1>1. ASSUME NEW k \in Keys, NEW pc \in {"dispatch", "reschedule_early", "finalize"}
      PROVE  [IdleInspector EXCEPT !.key = k, !.pc = pc] \in GoodInspectors
  BY DEF IdleInspector, GoodInspectors, InspectorStates, InspectorPCs, RunStatuses
<1>2. ASSUME insp[i].pc # "idle", NEW pc \in {"mark", "reschedule", "finalize"},
             InspectorTo(i, pc)
      PROVE  InspOK'
  <2>1. [insp[i] EXCEPT !.pc = pc] \in GoodInspectors
    BY <1>2 DEF TypeInv, InspOK, GoodInspectors, InspectorStates, InspectorPCs
  <2> QED BY <2>1, <1>2, InspectorUpdate DEF InspectorTo, TypeInv
<1> QED BY <1>1, <1>2

\* An outcome decided in the session of an inspector.
LEMMA DecideType ==
    ASSUME TypeInv, NEW i \in Inspectors, NEW edit \in Records,
           insp[i].pc \in {"inspecting", "refused", "passed"},
           edit.status = "accepted" => edit.spath \in Paths,
           Decide(i, edit)
    PROVE  InspOK'
<1> DEFINE w == [insp[i] EXCEPT !.pc = "commit", !.edit = edit]
<1>1. w \in GoodInspectors
  BY DEF TypeInv, InspOK, GoodInspectors, InspectorStates, InspectorPCs
<1>2. insp' = [insp EXCEPT ![i] = w]
  BY DEF Decide, TypeInv, InspOK
<1> HIDE DEF w
<1> QED BY <1>1, <1>2, InspectorUpdate DEF TypeInv

LEMMA DestinationType ==
    ASSUME TypeInv, NEW i \in Inspectors, NEW dir \in Dirs,
           insp[i].pc \in {"inspecting", "refused", "passed"}
    PROVE  /\ insp[i].edit.qpath \in Paths
           /\ Destination(i, dir) \in Paths
<1>1. insp[i].edit.qpath \in Paths /\ insp[i].key \in Keys
  BY DEF TypeInv, InspOK, GoodInspectors
<1>2. insp[i].edit.qpath.base \in BaseNames /\ insp[i].edit.qpath.suffix \in Seq(Keys)
  BY <1>1 DEF Paths
<1> QED BY <1>1, <1>2, UniqueDestinationType DEF Destination

-----------------------------------------------------------------------------
(* Each step keeps the types                                               *)

LEMMA OperatorsKeepTypes ==
    ASSUME TypeInv, Operators \/ Clock \/ EndpointDies \/ MessageLost
    PROVE  TypeInv'
<1>1. ASSUME RequestRun PROVE TypeInv'
  <2>1. RunsOK'
    BY <1>1, CreateRunType DEF RequestRun, TypeInv, RunStatuses, ActiveRunStatuses
  <2>2. WebOK'
    BY <1>1, NextRunType DEF RequestRun, WebOK
  <2> QED BY <2>1, <2>2, <1>1, Frame DEF RequestRun, TypeInv, tables, queues, faults
<1>2. ASSUME PublishRun PROVE TypeInv'
  <2>1. RunQOK'
    BY <1>2 DEF PublishRun, TypeInv, RunQOK, WebOK
  <2>2. WebOK'
    BY <1>2 DEF PublishRun, WebOK
  <2> QED BY <2>1, <2>2, <1>2, Frame DEF PublishRun, TypeInv, tables, queues, faults
<1>3. ASSUME PublishRunFails PROVE TypeInv'
  <2>1. RunsOK'
    BY <1>3, RunStatusType DEF PublishRunFails, TypeInv, WebOK, RunStatuses, ClosedRunStatuses
  <2>2. WebOK'
    BY <1>3 DEF PublishRunFails, WebOK
  <2> QED BY <2>1, <2>2, <1>3, Frame DEF PublishRunFails, TypeInv, tables, queues, faults
<1>4. ASSUME NEW k \in Keys, RequestManualRetry(k) PROVE TypeInv'
  <2>1. ManualRetryOf(k) \in Retries
    BY DEF ManualRetryOf, Retries
  <2>2. RetryQOK'
    BY <2>1, <1>4 DEF RequestManualRetry, TypeInv, RetryQOK
  <2> QED BY <2>1, <2>2, <1>4, Frame DEF RequestManualRetry, TypeInv, tables, queues, faults
<1>5. ASSUME NEW d \in Downloaders, StartScheduledRun(d) PROVE TypeInv'
  <2>1. RunsOK'
    BY <1>5, CreateRunType DEF StartScheduledRun, TypeInv, RunStatuses, ActiveRunStatuses
  <2>2. [IdleWorker EXCEPT !.pc = "continue", !.run = NextRun] \in GoodWorkers
    BY <1>5, NextRunType DEF StartScheduledRun, IdleWorker, GoodWorkers, Workers, DownloaderPCs, RunStatuses
  <2>3. DlOK'
    BY <2>2, <1>5, WorkerUpdate DEF StartScheduledRun, TypeInv
  <2> QED BY <2>1, <2>2, <2>3, <1>5, Frame DEF StartScheduledRun, TypeInv, tables, queues, faults
<1>6. ASSUME NEW d \in Downloaders, SelectHandoff(d) PROVE TypeInv'
  <2>1. DlOK'
    <3>1. PICK h \in Keys : dl' = [dl EXCEPT ![d].pc = "reclaim", ![d].key = h, ![d].copy = rec[h]]
      BY <1>6 DEF SelectHandoff
    <3> DEFINE w == [dl[d] EXCEPT !.pc = "reclaim", !.key = h, !.copy = rec[h]]
    <3>2. w \in GoodWorkers
      BY DEF TypeInv, DlOK, RecOK, GoodWorkers, Workers, DownloaderPCs
    <3>3. dl' = [dl EXCEPT ![d] = w]
      BY <3>1 DEF TypeInv, DlOK
    <3> HIDE DEF w
    <3> QED BY <3>2, <3>3, WorkerUpdate DEF TypeInv
  <2> QED BY <2>1, <1>6, Frame DEF SelectHandoff, TypeInv, tables, queues, faults
<1>7. ASSUME NEW k \in Keys, RetryTimeComes(k) PROVE TypeInv'
  <2>1. [rec[k] EXCEPT !.timer = "expired"] \in Records
    BY DEF TypeInv, RecOK, Records, Categories
  <2>2. RecOK'
    BY <2>1, <1>7, RecUpdate DEF RetryTimeComes, TypeInv
  <2> QED BY <2>1, <2>2, <1>7, Frame DEF RetryTimeComes, TypeInv, tables, queues, faults
<1>8. ASSUME NEW k \in Keys, LeaseExpires(k) PROVE TypeInv'
  <2>1. [rec[k] EXCEPT !.err = "expired"] \in Records
    BY DEF TypeInv, RecOK, Records, Categories
  <2>2. RecOK'
    BY <2>1, <1>8, RecUpdate DEF LeaseExpires, TypeInv
  <2> QED BY <2>1, <2>2, <1>8, Frame DEF LeaseExpires, TypeInv, tables, queues, faults
<1>9. ASSUME EndpointDies PROVE TypeInv'
  <2>1. WebOK' /\ FaultsOK'
    BY <1>9, BoundsAssumption DEF EndpointDies, TypeInv, WebOK, FaultsOK
  <2> QED BY <2>1, <1>9, Frame DEF EndpointDies, TypeInv, tables, queues, faults
<1>10. ASSUME MessageLost PROVE TypeInv'
  <2>1. RunQOK' /\ RetryQOK' /\ InspQOK' /\ FaultsOK'
    BY <1>10, BoundsAssumption DEF MessageLost, TypeInv, RunQOK, RetryQOK, InspQOK, FaultsOK
  <2> QED BY <2>1, <1>10, Frame DEF MessageLost, TypeInv, tables, queues, faults
<1> QED BY <1>1, <1>2, <1>3, <1>4, <1>5, <1>6, <1>7, <1>8, <1>9, <1>10 DEF Operators, Clock

LEMMA WorkersKeepTypes ==
    ASSUME TypeInv, NEW d \in Downloaders
    PROVE  DownloaderStep(d) \/ DownloaderReceives(d) \/ DownloaderDies(d) => TypeInv'
<1>1. ASSUME StartReading(d) PROVE TypeInv'
  <2>1. RunsOK'
    BY <1>1, RunStatusType DEF StartReading, TypeInv, DlOK, GoodWorkers, Workers, RunStatuses, ActiveRunStatuses
  <2>2. [dl[d] EXCEPT !.pc = "reading"] \in GoodWorkers
    BY <1>1 DEF StartReading, TypeInv, DlOK, GoodWorkers, Workers, DownloaderPCs
  <2>3. DlOK'
    BY <2>2, <1>1, WorkerUpdate DEF StartReading, TypeInv
  <2> QED BY <2>1, <2>2, <2>3, <1>1, Frame DEF StartReading, TypeInv, tables, queues, faults
<1>2. ASSUME SheetReadFails(d) PROVE TypeInv'
  <2>1. RunsOK'
    BY <1>2, RunStatusType DEF SheetReadFails, TypeInv, DlOK, GoodWorkers, Workers, RunStatuses, ClosedRunStatuses
  <2>2. DlOK'
    BY <1>2, IdleTypes, WorkerUpdate DEF SheetReadFails, TypeInv
  <2> QED BY <2>1, <2>2, <1>2, Frame DEF SheetReadFails, TypeInv, tables, queues, faults
<1>3. ASSUME ReadSheet(d) PROVE TypeInv'
  <2>1. RunsOK'
    BY <1>3, RunStatusType DEF ReadSheet, TypeInv, DlOK, GoodWorkers, Workers, RunStatuses, ActiveRunStatuses
  <2>2. [dl[d] EXCEPT !.pc = "rows"] \in GoodWorkers
    BY <1>3 DEF ReadSheet, TypeInv, DlOK, GoodWorkers, Workers, DownloaderPCs
  <2>3. DlOK'
    BY <2>2, <1>3, WorkerUpdate DEF ReadSheet, TypeInv
  <2>4. [NoJob EXCEPT !.pc = "todo"] \in GoodJobs
    BY IdleTypes DEF GoodJobs, Jobs, JobPCs
  <2>5. JobOK'
    BY <2>4, <1>3, IdleTypes DEF ReadSheet, TypeInv, JobOK
  <2> QED BY <2>1, <2>2, <2>3, <2>4, <2>5, <1>3, Frame DEF ReadSheet, TypeInv, tables, queues, faults
<1>4. ASSUME StartRetry(d) PROVE TypeInv'
  <2>1. dl[d].key \in Keys /\ dl[d].copy \in Records
    BY <1>4 DEF StartRetry, TypeInv, DlOK, GoodWorkers
  <2>2. RunsOK'
    BY <1>4, CreateRunType DEF StartRetry, TypeInv, RunStatuses, ActiveRunStatuses
  <2>3. NextRun \in RunIds
    BY <1>4, NextRunType DEF StartRetry
  <2>4. Flush(dl[d].copy, PrepareForRetry(dl[d].copy, NextRun), rec[dl[d].key]) \in Records
    BY <2>1, <2>3, PrepareForRetryType, FlushType DEF TypeInv, RecOK
  <2>5. RecOK'
    BY <2>1, <2>4, <1>4, RecUpdate DEF StartRetry, TypeInv
  <2>6. DlOK'
    <3> DEFINE w == [dl[d] EXCEPT !.pc = "retrying", !.run = NextRun, !.copy = None]
    <3>1. w \in GoodWorkers
      BY <2>3 DEF TypeInv, DlOK, GoodWorkers, Workers, DownloaderPCs
    <3>2. dl' = [dl EXCEPT ![d] = w] \/ dl' = [dl EXCEPT ![d] = IdleWorker]
      BY <1>4 DEF StartRetry, TypeInv, DlOK
    <3> HIDE DEF w
    <3> QED BY <3>1, <3>2, IdleTypes, WorkerUpdate DEF TypeInv
  <2>7. ASSUME NEW r, NEW k, NEW new, ResumeAt(d, r, k, new) PROVE JobOK'
    BY <2>7, ResumeAtType DEF TypeInv
  <2>8. JobOK'
    BY <2>7, <1>4, Frame DEF StartRetry
  <2> QED BY <2>1, <2>2, <2>3, <2>4, <2>5, <2>6, <2>7, <2>8, <1>4, Frame DEF StartRetry, TypeInv, tables, queues, faults
<1>5. ASSUME RetryFindsActiveRun(d) PROVE TypeInv'
  <2>1. DlOK'
    BY <1>5, IdleTypes, WorkerUpdate DEF RetryFindsActiveRun, TypeInv
  <2> QED BY <2>1, <1>5, Frame DEF RetryFindsActiveRun, TypeInv, tables, queues, faults
<1>6. ASSUME ComputeResults(d) PROVE TypeInv'
  <2>1. PICK v \in {"processing"} \cup ClosedRunStatuses :
            dl' = [dl EXCEPT ![d].pc = "apply", ![d].verdict = v]
    <3> DEFINE v == CASE dl[d].pc = "retrying" /\ RowErrors(d) -> "failed"
                  [] Deferred(d) /\ StillActive(dl[d].run) -> "processing"
                  [] Deferred(d) /\ ~StillActive(dl[d].run) -> ClosingStatus(dl[d].run, RowErrors(d))
                  [] OTHER -> IF \E j \in ResultsOf(d) : j.out = "failed"
                              THEN "completed_with_errors" ELSE "completed"
    <3>1. v \in {"processing"} \cup ClosedRunStatuses
      BY DEF ClosingStatus, ClosedRunStatuses
    <3>2. dl' = [dl EXCEPT ![d].pc = "apply", ![d].verdict = v]
      BY <1>6 DEF ComputeResults
    <3> HIDE DEF v
    <3> QED BY <3>1, <3>2
  <2>2. [dl[d] EXCEPT !.pc = "apply", !.verdict = v] \in GoodWorkers
    BY <1>6 DEF ComputeResults, JobsOver, TypeInv, DlOK, GoodWorkers, Workers, DownloaderPCs, RunStatuses, ActiveRunStatuses
  <2>3. DlOK'
    BY <2>1, <2>2, WorkerUpdate DEF TypeInv
  <2> QED BY <2>1, <2>2, <2>3, <1>6, Frame DEF ComputeResults, TypeInv, tables, queues, faults
<1>7. ASSUME ApplyResults(d) PROVE TypeInv'
  <2>1. RunsOK'
    <3>1. dl[d].run \in RunIds /\ dl[d].verdict \in RunStatuses
      BY <1>7 DEF ApplyResults, TypeInv, DlOK, GoodWorkers, Workers
    <3>2. HasNew(d) \in BOOLEAN /\ RowErrors(d) \in BOOLEAN
      BY DEF HasNew, RowErrors
    <3>3. [status |-> dl[d].verdict, hasNew |-> HasNew(d), rowErrors |-> RowErrors(d)] \in Runs
      BY <3>1, <3>2 DEF Runs
    <3>4. [runs[dl[d].run] EXCEPT !.status = "failed"] \in Runs
      BY <3>1 DEF TypeInv, RunsOK, Runs, RunStatuses, ClosedRunStatuses
    <3> QED BY <3>1, <3>3, <3>4, <1>7 DEF ApplyResults, TypeInv, RunsOK
  <2>2. DlOK'
    BY <1>7, IdleTypes, WorkerUpdate DEF ApplyResults, TypeInv
  <2>3. JobOK'
    BY <1>7, IdleTypes DEF ApplyResults, TypeInv, JobOK, NoJobs
  <2> QED BY <2>1, <2>2, <2>3, <1>7, Frame DEF ApplyResults, TypeInv, tables, queues, faults
<1>8. ASSUME ClaimHandoff(d) PROVE TypeInv'
  <2>1. dl[d].key \in Keys
    BY <1>8 DEF ClaimHandoff, TypeInv, DlOK, GoodWorkers
  <2>2. [rec[dl[d].key] EXCEPT !.status = "handoff_pending", !.err = "dispatching"] \in Records
    BY <2>1, RecordStepTypes DEF TypeInv, RecOK, RecordStatuses, ActiveStatuses, Categories
  <2>3. RecOK'
    <3> DEFINE new == [rec[dl[d].key] EXCEPT !.status = "handoff_pending", !.err = "dispatching"]
    <3>1. rec' = [rec EXCEPT ![dl[d].key] = new] \/ UNCHANGED rec
      BY <2>1, <1>8 DEF ClaimHandoff, TypeInv, RecOK
    <3> HIDE DEF new
    <3> QED BY <2>1, <2>2, <3>1, RecUpdate, Frame DEF TypeInv, new
  <2>4. [dl[d] EXCEPT !.pc = "redispatch"] \in GoodWorkers
    BY <1>8 DEF ClaimHandoff, TypeInv, DlOK, GoodWorkers, Workers, DownloaderPCs
  <2>5. DlOK'
    BY <2>4, <1>8, IdleTypes, WorkerUpdate DEF ClaimHandoff, TypeInv
  <2> QED BY <2>1, <2>2, <2>3, <2>4, <2>5, <1>8, Frame DEF ClaimHandoff, TypeInv, tables, queues, faults
<1>9. ASSUME Redispatch(d) PROVE TypeInv'
  <2>1. CallQOK'
    BY <1>9, QueueUpdate DEF Redispatch, TypeInv, DlOK, GoodWorkers
  <2>2. [dl[d] EXCEPT !.pc = "remark"] \in GoodWorkers
    BY <1>9 DEF Redispatch, TypeInv, DlOK, GoodWorkers, Workers, DownloaderPCs
  <2>3. DlOK'
    BY <2>2, <1>9, WorkerUpdate DEF Redispatch, TypeInv
  <2> QED BY <2>1, <2>2, <2>3, <1>9, Frame DEF Redispatch, TypeInv, tables, queues, faults
<1>10. ASSUME RedispatchFails(d) PROVE TypeInv'
  <2>1. dl[d].key \in Keys /\ dl[d].copy.status \in RecordStatuses
    BY <1>10 DEF RedispatchFails, TypeInv, DlOK, GoodWorkers, Records
  <2>2. [rec[dl[d].key] EXCEPT !.status = dl[d].copy.status, !.err = "automatic"] \in Records
    BY <2>1, RecordStepTypes DEF TypeInv, RecOK, Categories
  <2>3. RecOK'
    <3> DEFINE new == [rec[dl[d].key] EXCEPT !.status = dl[d].copy.status, !.err = "automatic"]
    <3>1. rec' = [rec EXCEPT ![dl[d].key] = new]
      BY <2>1, <1>10 DEF RedispatchFails, TypeInv, RecOK
    <3> HIDE DEF new
    <3> QED BY <2>1, <2>2, <3>1, RecUpdate DEF TypeInv, new
  <2>4. DlOK'
    BY <1>10, IdleTypes, WorkerUpdate DEF RedispatchFails, TypeInv
  <2> QED BY <2>1, <2>2, <2>3, <2>4, <1>10, Frame DEF RedispatchFails, TypeInv, tables, queues, faults
<1>11. ASSUME MarkReconciled(d) PROVE TypeInv'
  <2>1. dl[d].key \in Keys
    BY <1>11 DEF MarkReconciled, TypeInv, DlOK, GoodWorkers
  <2>2. RecOK'
    BY <2>1, <1>11, RecordStepTypes, RecUpdate DEF MarkReconciled, TypeInv, RecOK
  <2>3. DlOK'
    BY <1>11, IdleTypes, WorkerUpdate DEF MarkReconciled, TypeInv
  <2> QED BY <2>1, <2>2, <2>3, <1>11, Frame DEF MarkReconciled, TypeInv, tables, queues, faults
<1>12. ASSUME ReceiveRun(d) PROVE TypeInv'
  <2>1. PICK m \in runQ : /\ runQ' = runQ \ {m}
                      /\ dl' = IF runs[m].status = "requested"
                               THEN [dl EXCEPT ![d].pc = "continue", ![d].run = m] ELSE dl
    BY <1>12 DEF ReceiveRun
  <2>2. RunQOK'
    BY <2>1 DEF TypeInv, RunQOK
  <2>3. DlOK'
    <3> DEFINE w == [dl[d] EXCEPT !.pc = "continue", !.run = m]
    <3>1. w \in GoodWorkers
      BY DEF TypeInv, RunQOK, DlOK, GoodWorkers, Workers, DownloaderPCs
    <3>2. dl' = [dl EXCEPT ![d] = w] \/ UNCHANGED dl
      BY <2>1 DEF TypeInv, DlOK
    <3> HIDE DEF w
    <3> QED BY <3>1, <3>2, WorkerUpdate, Frame DEF TypeInv
  <2> QED BY <2>1, <2>2, <2>3, <1>12, Frame DEF ReceiveRun, TypeInv, tables, queues, faults
<1>13. ASSUME ReceiveRetry(d) PROVE TypeInv'
  <2>1. PICK m \in retryQ : /\ retryQ' = retryQ \ {m}
                        /\ dl' = [dl EXCEPT ![d].pc = "retry", ![d].key = m.key,
                                            ![d].copy = rec[m.key]]
    BY <1>13 DEF ReceiveRetry
  <2>2. RetryQOK'
    BY <2>1 DEF TypeInv, RetryQOK
  <2>3. DlOK'
    <3> DEFINE w == [dl[d] EXCEPT !.pc = "retry", !.key = m.key, !.copy = rec[m.key]]
    <3>1. w \in GoodWorkers
      BY DEF TypeInv, RetryQOK, Retries, DlOK, RecOK, GoodWorkers, Workers, DownloaderPCs
    <3>2. dl' = [dl EXCEPT ![d] = w]
      BY <2>1 DEF TypeInv, DlOK
    <3> HIDE DEF w
    <3> QED BY <3>1, <3>2, WorkerUpdate DEF TypeInv
  <2> QED BY <2>1, <2>2, <2>3, <1>13, Frame DEF ReceiveRetry, TypeInv, tables, queues, faults
<1>14. ASSUME SkipRetry(d) PROVE TypeInv'
  <2>1. RetryQOK'
    BY <1>14 DEF SkipRetry, TypeInv, RetryQOK
  <2> QED BY <2>1, <1>14, Frame DEF SkipRetry, TypeInv, tables, queues, faults
<1>15. ASSUME DownloaderDies(d) PROVE TypeInv'
  <2>1. DlOK'
    BY <1>15, IdleTypes, WorkerUpdate DEF DownloaderDies, TypeInv
  <2>2. JobOK'
    BY <1>15, IdleTypes DEF DownloaderDies, TypeInv, JobOK, NoJobs
  <2>3. FaultsOK'
    BY <1>15, BoundsAssumption DEF DownloaderDies, TypeInv, FaultsOK
  <2> QED BY <2>1, <2>2, <2>3, <1>15, Frame DEF DownloaderDies, TypeInv, tables, queues, faults
<1> QED BY <1>1, <1>2, <1>3, <1>4, <1>5, <1>6, <1>7, <1>8, <1>9, <1>10, <1>11, <1>12, <1>13, <1>14, <1>15 DEF DownloaderStep, DownloaderReceives

LEMMA JobsKeepTypes ==
    ASSUME TypeInv, NEW d \in Downloaders, NEW r \in Rows
    PROVE  JobStep(d, r) => TypeInv'
<1> USE KeyOfType
<1>1. ASSUME MappingFails(d, r) PROVE TypeInv'
  <2>1. JobOK'
    BY <1>1, JobStepTypes DEF MappingFails, TypeInv, JobPCs, Outcomes
  <2> QED BY <2>1, <1>1, Frame DEF MappingFails, TypeInv, tables, queues, faults
<1>2. ASSUME ClaimExisting(d, r) PROVE TypeInv'
  <2>1. [rec[KeyOf[r]] EXCEPT !.attempts = @ + 1] \in Records /\ rec[KeyOf[r]].attempts + 1 \in Nat
    BY DEF TypeInv, RecOK, Records
  <2>2. RecOK'
    BY <2>1, <1>2, RecUpdate, Frame DEF ClaimExisting, TypeInv
  <2>3. TriedOK'
    BY <2>1, <1>2, TriedUpdate, Frame DEF ClaimExisting, TypeInv, Phases
  <2>4. JobOK'
    BY <1>2, JobStepTypes DEF ClaimExisting, TypeInv, JobPCs, Outcomes
  <2> QED BY <2>1, <2>2, <2>3, <2>4, <1>2, Frame DEF ClaimExisting, TypeInv, tables, queues, faults
<1>3. ASSUME ClaimNew(d, r) PROVE TypeInv'
  <2>1. JobOK'
    BY <1>3, StartTransferType DEF ClaimNew, TypeInv
  <2> QED BY <2>1, <1>3, Frame DEF ClaimNew, TypeInv, tables, queues, faults
<1>4. ASSUME StoreDownload(d, r) PROVE TypeInv'
  <2>1. job[d][r].path \in Paths
    BY <1>4 DEF StoreDownload, JobAt, TypeInv, JobOK, GoodJobs
  <2>2. FilesOK'
    BY <2>1, <1>4, StoredType DEF StoreDownload, TypeInv
  <2>3. JobOK'
    <3>1. [job[d][r] EXCEPT !.pc = "stored"] \in GoodJobs
      BY <2>1 DEF TypeInv, JobOK, GoodJobs, Jobs, JobPCs
    <3> QED BY <3>1, <1>4, JobUpdate DEF StoreDownload, JobTo, TypeInv
  <2> QED BY <2>1, <2>2, <2>3, <1>4, Frame DEF StoreDownload, TypeInv, tables, queues, faults
<1>5. ASSUME CommitDownload(d, r) PROVE TypeInv'
  <2>1. job[d][r].path \in NullablePath
    BY DEF TypeInv, JobOK, GoodJobs, Jobs
  <2>2. Quarantined(Loaded(d, r), job[d][r].path) \in Records
    BY <2>1, LoadedType, RecordStepTypes
  <2>3. RecOK'
    BY <2>2, <1>5, RecUpdate DEF CommitDownload, TypeInv
  <2>4. TriedOK'
    BY <1>5, LoadedType, TriedUpdate DEF CommitDownload, TypeInv, Phases
  <2>5. JobOK'
    BY <1>5, JobStepTypes DEF CommitDownload, TypeInv, JobPCs, Outcomes
  <2> QED BY <2>1, <2>2, <2>3, <2>4, <2>5, <1>5, Frame DEF CommitDownload, TypeInv, tables, queues, faults
<1>6. ASSUME DownloadFails(d, r) PROVE TypeInv'
  <2>1. RecOK' /\ JobOK'
    BY <1>6, LoadedType, FailJobType DEF DownloadFails, Categories
  <2>2. TriedOK'
    BY <1>6, LoadedType, TriedUpdate DEF DownloadFails, TypeInv, Phases
  <2> QED BY <2>1, <2>2, <1>6, Frame DEF DownloadFails, TypeInv, tables, queues, faults
<1>7. ASSUME PublishInspection(d, r) PROVE TypeInv'
  <2>1. InspQOK'
    BY <1>7, QueueUpdate DEF PublishInspection, TypeInv
  <2>2. JobOK'
    BY <1>7, JobStepTypes DEF PublishInspection, TypeInv, JobPCs, Outcomes
  <2> QED BY <2>1, <2>2, <1>7, Frame DEF PublishInspection, TypeInv, tables, queues, faults
<1>8. ASSUME PublishInspectionFails(d, r) PROVE TypeInv'
  <2>1. rec[KeyOf[r]] \in Records
    BY DEF TypeInv, RecOK
  <2>2. RecOK' /\ JobOK'
    BY <2>1, <1>8, FailJobType DEF PublishInspectionFails, Categories
  <2> QED BY <2>1, <2>2, <1>8, Frame DEF PublishInspectionFails, TypeInv, tables, queues, faults
<1>9. ASSUME RetryDispatchFails(d, r) PROVE TypeInv'
  <2>1. rec[KeyOf[r]] \in Records
    BY DEF TypeInv, RecOK
  <2>2. RecOK' /\ JobOK'
    BY <2>1, <1>9, FailJobType DEF RetryDispatchFails, Categories
  <2> QED BY <2>1, <2>2, <1>9, Frame DEF RetryDispatchFails, TypeInv, tables, queues, faults
<1>10. ASSUME PublishRetry(d, r) PROVE TypeInv'
  <2>1. AutomaticRetryOf(KeyOf[r], FALSE) \in Retries
    BY DEF AutomaticRetryOf, Retries, TypeInv, RecOK, Records
  <2>2. RetryQOK'
    BY <2>1, <1>10 DEF PublishRetry, TypeInv, RetryQOK
  <2>3. JobOK'
    BY <1>10, JobStepTypes DEF PublishRetry, TypeInv, JobPCs, Outcomes
  <2> QED BY <2>1, <2>2, <2>3, <1>10, Frame DEF PublishRetry, TypeInv, tables, queues, faults
<1>11. ASSUME PublishRetryFails(d, r) PROVE TypeInv'
  <2>1. JobOK'
    BY <1>11, JobStepTypes DEF PublishRetryFails, TypeInv, JobPCs, Outcomes
  <2> QED BY <2>1, <1>11, Frame DEF PublishRetryFails, TypeInv, tables, queues, faults
<1>12. ASSUME RetryHandoff(d, r) PROVE TypeInv'
  <2>1. rec[KeyOf[r]] \in Records /\ rec[KeyOf[r]].call \in Nat /\ rec[KeyOf[r]].attempts \in Nat
    BY DEF TypeInv, RecOK, Records
  <2>2. HandoffPending(rec[KeyOf[r]], rec[KeyOf[r]].call) \in Records
    BY <2>1, RecordStepTypes
  <2>3. RecOK'
    BY <2>2, <1>12, RecUpdate DEF RetryHandoff, TypeInv
  <2>4. TriedOK'
    BY <2>1, <1>12, TriedUpdate DEF RetryHandoff, TypeInv, Phases
  <2>5. JobOK'
    BY <1>12, JobStepTypes DEF RetryHandoff, TypeInv, JobPCs, Outcomes
  <2> QED BY <2>1, <2>2, <2>3, <2>4, <2>5, <1>12, Frame DEF RetryHandoff, TypeInv, tables, queues, faults
<1>13. ASSUME RetryHandoffConflicts(d, r) PROVE TypeInv'
  <2>1. DlOK'
    BY <1>13, IdleTypes, WorkerUpdate DEF RetryHandoffConflicts, TypeInv
  <2>2. JobOK'
    BY <1>13, IdleTypes DEF RetryHandoffConflicts, TypeInv, JobOK, NoJobs
  <2> QED BY <2>1, <2>2, <1>13, Frame DEF RetryHandoffConflicts, TypeInv, tables, queues, faults
<1>14. ASSUME RetryDispatch(d, r) PROVE TypeInv'
  <2>1. CallQOK'
    BY <1>14, QueueUpdate DEF RetryDispatch, TypeInv
  <2>2. JobOK'
    BY <1>14, JobStepTypes DEF RetryDispatch, TypeInv, JobPCs, Outcomes
  <2> QED BY <2>1, <2>2, <1>14, Frame DEF RetryDispatch, TypeInv, tables, queues, faults
<1>15. ASSUME RetryMarkSubmitted(d, r) PROVE TypeInv'
  <2>1. Submitted(rec[KeyOf[r]]) \in Records
    BY RecordStepTypes DEF TypeInv, RecOK
  <2>2. RecOK'
    BY <2>1, <1>15, RecUpdate DEF RetryMarkSubmitted, TypeInv
  <2>3. JobOK'
    BY <1>15, JobStepTypes DEF RetryMarkSubmitted, TypeInv, JobPCs, Outcomes
  <2> QED BY <2>1, <2>2, <2>3, <1>15, Frame DEF RetryMarkSubmitted, TypeInv, tables, queues, faults
<1> QED BY <1>1, <1>2, <1>3, <1>4, <1>5, <1>6, <1>7, <1>8, <1>9, <1>10, <1>11, <1>12, <1>13, <1>14, <1>15 DEF JobStep

LEMMA InspectorsKeepTypes ==
    ASSUME TypeInv, NEW i \in Inspectors
    PROVE  ReceiveInspection(i) \/ InspectorStep(i) \/ InspectorDies(i) => TypeInv'
<1> DEFINE k == insp[i].key
<1>a. insp[i].pc # "idle" => k \in Keys /\ rec[k] \in Records
  BY DEF TypeInv, InspOK, GoodInspectors, RecOK
<1>b. insp[i].pc \in {"loaded", "inspecting", "refused", "passed", "commit"}
        => insp[i].loaded \in Records /\ insp[i].edit \in Records
  BY DEF TypeInv, InspOK, GoodInspectors
<1> HIDE DEF k
<1>1. ASSUME ReceiveInspection(i) PROVE TypeInv'
  <2>1. PICK h \in Keys : /\ inspQ[h] > 0 /\ inspQ' = [inspQ EXCEPT ![h] = @ - 1]
                      /\ insp' = IF Enabled /\ rec[h].status = "quarantined"
                                 THEN [insp EXCEPT ![i].pc = "loaded", ![i].key = h,
                                                   ![i].loaded = rec[h], ![i].edit = rec[h]]
                                 ELSE IF Enabled
                                 THEN [insp EXCEPT ![i].pc = "finalize", ![i].key = h]
                                 ELSE insp
    BY <1>1 DEF ReceiveInspection
  <2>2. InspQOK'
    BY <2>1 DEF TypeInv, InspQOK
  <2>3. InspOK'
    <3> DEFINE w1 == [insp[i] EXCEPT !.pc = "loaded", !.key = h, !.loaded = rec[h], !.edit = rec[h]]
               w2 == [insp[i] EXCEPT !.pc = "finalize", !.key = h]
    <3>1. w1 \in GoodInspectors /\ w2 \in GoodInspectors
      BY DEF TypeInv, RecOK, InspOK, GoodInspectors, InspectorStates, InspectorPCs
    <3>2. insp' = [insp EXCEPT ![i] = w1] \/ insp' = [insp EXCEPT ![i] = w2] \/ UNCHANGED insp
      BY <2>1 DEF TypeInv, InspOK
    <3> HIDE DEF w1, w2
    <3> QED BY <3>1, <3>2, InspectorUpdate, Frame DEF TypeInv
  <2> QED BY <2>1, <2>2, <2>3, <1>1, Frame DEF ReceiveInspection, TypeInv, tables, queues, faults
<1>2. ASSUME InspectMissingFile(i) PROVE TypeInv'
  <2>1. insp[i].loaded \in Records /\ k \in Keys /\ rec[k] \in Records
    BY <1>2, <1>a, <1>b DEF InspectMissingFile, InspectorAt
  <2>2. insp[i].loaded.qpath \in NullablePath
    BY <2>1 DEF Records
  <2>3. /\ Flush(insp[i].loaded, MarkFailed(insp[i].loaded), rec[k]) \in Records
        /\ Flush(insp[i].loaded, Rejected(insp[i].loaded, insp[i].loaded.qpath), rec[k]) \in Records
    BY <2>1, <2>2, FlushType, RecordStepTypes
  <2>4. RecOK'
    BY <2>1, <2>3, <1>2, RecUpdate DEF InspectMissingFile, TypeInv, k
  <2>5. InspOK'
    BY <2>1, <1>2, InspectorStepTypes, InspectorUpdate DEF InspectMissingFile, TypeInv, k
  <2> QED BY <2>1, <2>2, <2>3, <2>4, <2>5, <1>2, Frame DEF InspectMissingFile, TypeInv, tables, queues, faults
<1>3. ASSUME BeginInspection(i) PROVE TypeInv'
  <2>1. [insp[i] EXCEPT !.pc = "inspecting"] \in GoodInspectors
    <3>1. insp[i].loaded.qpath \in Paths
      BY <1>3, <1>b DEF BeginInspection, InspectorAt, InQuarantine, Records, NullablePath
    <3>2. insp[i].edit = insp[i].loaded
      BY <1>3 DEF BeginInspection, InspectorAt, TypeInv, InspOK, GoodInspectors
    <3> QED BY <3>1, <3>2, <1>3 DEF BeginInspection, InspectorAt, TypeInv, InspOK, GoodInspectors, InspectorStates, InspectorPCs
  <2>2. InspOK'
    BY <2>1, <1>3, IdleTypes, InspectorUpdate DEF BeginInspection, TypeInv
  <2> QED BY <2>1, <2>2, <1>3, Frame DEF BeginInspection, TypeInv, tables, queues, faults
<1>4. ASSUME Inspect(i) PROVE TypeInv'
  <2>1. PICK checks \in Findings :
            /\ insp' = [insp EXCEPT ![i].edit.checks = checks,
                          ![i].pc = IF Promotable(checks) THEN "passed" ELSE "refused"]
            /\ vetted' = IF checks = AllPassed THEN vetted \cup {files[insp[i].edit.qpath]} ELSE vetted
    BY <1>4 DEF Inspect
  <2>2. checks \in [Checks -> {"pending", "passed", "refused"}]
    BY DEF Findings, AllPassed, Unchecked, Checks
  <2>3. InspOK'
    <3> DEFINE edit == [insp[i].edit EXCEPT !.checks = checks]
               w == [insp[i] EXCEPT !.edit = edit, !.pc = IF Promotable(checks) THEN "passed" ELSE "refused"]
    <3>1. edit \in Records /\ edit.qpath = insp[i].edit.qpath
      BY <1>4, <1>b, <2>2 DEF Inspect, InspectorAt, Records
    <3> HIDE DEF edit
    <3>2. w \in GoodInspectors
      BY <3>1, <1>4 DEF Inspect, InspectorAt, TypeInv, InspOK, GoodInspectors, InspectorStates, InspectorPCs
    <3>3. insp' = [insp EXCEPT ![i] = w]
      BY <2>1 DEF TypeInv, InspOK, edit
    <3> HIDE DEF w
    <3> QED BY <3>2, <3>3, InspectorUpdate DEF TypeInv
  <2>4. VettedOK'
    BY <2>1, <1>4 DEF Inspect, TypeInv, VettedOK, FilesOK
  <2> QED BY <2>1, <2>2, <2>3, <2>4, <1>4, Frame DEF Inspect, TypeInv, tables, queues, faults
<1>5. ASSUME InspectionRaises(i) PROVE TypeInv'
  <2>1. MarkFailed(insp[i].edit) \in Records /\ MarkFailed(insp[i].edit).status # "accepted"
    BY <1>5, <1>b, RecordStepTypes, VerdictFields DEF InspectionRaises, InspectorAt
  <2>2. InspOK'
    BY <2>1, <1>5, DecideType DEF InspectionRaises, InspectorAt
  <2> QED BY <2>1, <2>2, <1>5, Frame DEF InspectionRaises, TypeInv, tables, queues, faults
<1>6. ASSUME MoveToRejected(i) PROVE TypeInv'
  <2>1. insp[i].edit \in Records
    BY <1>6, <1>b DEF MoveToRejected, InspectorAt
  <2>2. insp[i].edit.qpath \in Paths /\ Destination(i, "rejected") \in Paths
    BY <1>6, DestinationType DEF MoveToRejected, InspectorAt, Dirs
  <2>3. FilesOK'
    <3>1. \/ insp[i].edit.qpath \in DOMAIN files
             /\ files' = Moved(insp[i].edit.qpath, Destination(i, "rejected"))
          \/ UNCHANGED files
      BY <1>6 DEF MoveToRejected
    <3> QED BY <3>1, <2>2, MovedType, Frame DEF TypeInv
  <2>4. ASSUME NEW path \in Paths
        PROVE  Rejected(insp[i].edit, path) \in Records /\ Rejected(insp[i].edit, path).status # "accepted"
    BY <2>1, RecordStepTypes, VerdictFields DEF NullablePath
  <2>5. MarkFailed(insp[i].edit) \in Records /\ MarkFailed(insp[i].edit).status # "accepted"
    BY <2>1, RecordStepTypes, VerdictFields
  <2>6. InspOK'
    BY <2>2, <2>4, <2>5, <1>6, DecideType DEF MoveToRejected, InspectorAt
  <2> QED BY <2>1, <2>2, <2>3, <2>4, <2>5, <2>6, <1>6, Frame DEF MoveToRejected, TypeInv, tables, queues, faults
<1>7. ASSUME MoveToAccepted(i) PROVE TypeInv'
  <2>1. insp[i].edit \in Records
    BY <1>7, <1>b DEF MoveToAccepted, InspectorAt
  <2>2. insp[i].edit.qpath \in Paths /\ Destination(i, "accepted") \in Paths
    BY <1>7, DestinationType DEF MoveToAccepted, InspectorAt, Dirs
  <2>3. FilesOK'
    <3>1. \/ insp[i].edit.qpath \in DOMAIN files
             /\ files' = Moved(insp[i].edit.qpath, Destination(i, "accepted"))
          \/ UNCHANGED files
      BY <1>7 DEF MoveToAccepted
    <3> QED BY <3>1, <2>2, MovedType, Frame DEF TypeInv
  <2>4. /\ Accepted(insp[i].edit, Destination(i, "accepted")) \in Records
        /\ Accepted(insp[i].edit, Destination(i, "accepted")).spath \in Paths
    <3>1. Destination(i, "accepted") \in NullablePath
      BY <2>2 DEF NullablePath
    <3>2. Accepted(insp[i].edit, Destination(i, "accepted")).spath = Destination(i, "accepted")
      BY <2>1, VerdictFields
    <3> QED BY <2>1, <2>2, <3>1, <3>2, RecordStepTypes
  <2>5. /\ ApplyFailurePolicy(insp[i].edit, "automatic") \in Records
        /\ ApplyFailurePolicy(insp[i].edit, "automatic").status # "accepted"
    BY <2>1, RecordStepTypes, VerdictFields DEF Categories
  <2>6. InspOK'
    BY <2>4, <2>5, <1>7, DecideType DEF MoveToAccepted, InspectorAt
  <2> QED BY <2>1, <2>2, <2>3, <2>4, <2>5, <2>6, <1>7, Frame DEF MoveToAccepted, TypeInv, tables, queues, faults
<1>8. ASSUME CommitVerdict(i) PROVE TypeInv'
  <2>1. Written(i) \in Records /\ k \in Keys /\ insp[i].loaded.attempts \in Nat
    BY <1>8, <1>a, <1>b, FlushType DEF CommitVerdict, InspectorAt, Written, Records, k
  <2>2. RecOK'
    BY <2>1, <1>8, RecUpdate DEF CommitVerdict, TypeInv, k
  <2>3. TriedOK'
    BY <2>1, <1>8, TriedUpdate DEF CommitVerdict, InspectionEntry, TypeInv, Phases, k
  <2>4. InspOK'
    BY <2>1, <1>8, InspectorStepTypes, InspectorUpdate DEF CommitVerdict, TypeInv, k
  <2> QED BY <2>1, <2>2, <2>3, <2>4, <1>8, Frame DEF CommitVerdict, TypeInv, tables, queues, faults
<1>9. ASSUME CommitHandoff(i) PROVE TypeInv'
  <2>1. /\ insp[i].loaded \in Records /\ insp[i].edit \in Records
        /\ k \in Keys /\ rec[k] \in Records
        /\ insp[i].edit.spath \in Paths
    BY <1>9, <1>a, <1>b DEF CommitHandoff, InspectorAt, TypeInv, InspOK, GoodInspectors
  <2>2. insp[i].loaded.attempts \in Nat /\ insp[i].edit.call \in Nat
    BY <2>1 DEF Records
  <2>3. calls[k] \in Seq(Paths) /\ Len(calls[k]) + 1 \in Nat
    BY <2>1 DEF TypeInv, CallsOK
  <2>4. ASSUME NEW c \in Nat PROVE Flush(insp[i].loaded, HandoffPending(insp[i].edit, c), rec[k]) \in Records
    BY <2>1, FlushType, RecordStepTypes
  <2>5. RecOK'
    BY <2>1, <2>2, <2>3, <2>4, <1>9, RecUpdate, Frame DEF CommitHandoff, TypeInv, k
  <2>6. TriedOK'
    BY <2>1, <2>2, <1>9 DEF CommitHandoff, InspectionEntry, HandoffEntry, TypeInv, TriedOK, Phases, k
  <2>7. CallsOK'
    <3>1. Append(calls[k], insp[i].edit.spath) \in Seq(Paths)
      BY <2>1, <2>3
    <3>2. \/ UNCHANGED calls
          \/ calls' = [calls EXCEPT ![k] = Append(calls[k], insp[i].edit.spath)]
      BY <2>1, <1>9 DEF CommitHandoff, TypeInv, CallsOK, k
    <3> QED BY <3>1, <3>2, <2>1, Frame DEF TypeInv, CallsOK
  <2>8. InspOK'
    BY <2>1, <1>9, IdleTypes, InspectorStepTypes, InspectorUpdate DEF CommitHandoff, TypeInv, k
  <2> QED BY <2>1, <2>2, <2>3, <2>4, <2>5, <2>6, <2>7, <2>8, <1>9, Frame DEF CommitHandoff, TypeInv, tables, queues, faults
<1>10. ASSUME Dispatch(i) PROVE TypeInv'
  <2>1. CallQOK'
    BY <1>10, <1>a, QueueUpdate DEF Dispatch, InspectorAt, TypeInv, k
  <2>2. InspOK'
    BY <1>10, <1>a, InspectorStepTypes, InspectorUpdate DEF Dispatch, InspectorAt, TypeInv, k
  <2> QED BY <2>1, <2>2, <1>10, Frame DEF Dispatch, TypeInv, tables, queues, faults
<1>11. ASSUME DispatchFails(i) PROVE TypeInv'
  <2>1. ApplyFailurePolicy(rec[k], "automatic") \in Records
    BY <1>11, <1>a, RecordStepTypes DEF DispatchFails, InspectorAt, Categories
  <2>2. RecOK'
    BY <2>1, <1>11, <1>a, RecUpdate DEF DispatchFails, InspectorAt, TypeInv, k
  <2>3. InspOK'
    BY <1>11, <1>a, InspectorStepTypes, InspectorUpdate DEF DispatchFails, InspectorAt, TypeInv, k
  <2> QED BY <2>1, <2>2, <2>3, <1>11, Frame DEF DispatchFails, TypeInv, tables, queues, faults
<1>12. ASSUME MarkSubmitted(i) PROVE TypeInv'
  <2>1. Submitted(rec[k]) \in Records
    BY <1>12, <1>a, RecordStepTypes DEF MarkSubmitted, InspectorAt
  <2>2. RecOK'
    BY <2>1, <1>12, <1>a, RecUpdate DEF MarkSubmitted, InspectorAt, TypeInv, k
  <2>3. InspOK'
    BY <1>12, <1>a, InspectorStepTypes, InspectorUpdate DEF MarkSubmitted, InspectorAt, TypeInv, k
  <2> QED BY <2>1, <2>2, <2>3, <1>12, Frame DEF MarkSubmitted, TypeInv, tables, queues, faults
<1>13. ASSUME PublishLater(i) PROVE TypeInv'
  <2>1. AutomaticRetryOf(k, InspectorAt(i, "reschedule_early")) \in Retries
    BY <1>13, <1>a DEF PublishLater, AutomaticRetryOf, InspectorAt, Retries, Records
  <2>2. RetryQOK'
    BY <2>1, <1>13 DEF PublishLater, TypeInv, RetryQOK, k
  <2>3. InspOK'
    BY <1>13, <1>a, InspectorStepTypes, InspectorUpdate DEF PublishLater, InspectorAt, TypeInv, k
  <2> QED BY <2>1, <2>2, <2>3, <1>13, Frame DEF PublishLater, TypeInv, tables, queues, faults
<1>14. ASSUME PublishLaterFails(i) PROVE TypeInv'
  <2>1. InspOK'
    BY <1>14, IdleTypes, InspectorUpdate DEF PublishLaterFails, TypeInv
  <2> QED BY <2>1, <1>14, Frame DEF PublishLaterFails, TypeInv, tables, queues, faults
<1>15. ASSUME FinalizeRun(i) PROVE TypeInv'
  <2>1. InspOK'
    <3> DEFINE n == rec[insp[i].key].run
               w == [insp[i] EXCEPT !.pc = "close", !.run = n,
                                    !.verdict = ClosingStatus(n, runs[n].rowErrors)]
    <3>1. n \in RunIds \cup {None}
      BY <1>15, <1>a DEF FinalizeRun, InspectorAt, Records, k
    <3>2. ClosingStatus(n, runs[n].rowErrors) \in ClosedRunStatuses
      BY DEF ClosingStatus, ClosedRunStatuses
    <3> HIDE DEF n
    <3>3. w \in GoodInspectors
      BY <1>15, <1>a, <3>1, <3>2 DEF FinalizeRun, InspectorAt, TypeInv, InspOK, GoodInspectors, InspectorStates, InspectorPCs, RunStatuses, k
    <3>4. insp' = [insp EXCEPT ![i] = w] \/ insp' = [insp EXCEPT ![i] = IdleInspector]
      BY <1>15 DEF FinalizeRun, TypeInv, InspOK, n
    <3> HIDE DEF w
    <3> QED BY <3>3, <3>4, IdleTypes, InspectorUpdate DEF TypeInv
  <2> QED BY <2>1, <1>15, Frame DEF FinalizeRun, TypeInv, tables, queues, faults
<1>16. ASSUME CloseRun(i) PROVE TypeInv'
  <2>1. RunsOK'
    BY <1>16, RunStatusType DEF CloseRun, InspectorAt, TypeInv, InspOK, GoodInspectors, InspectorStates
  <2>2. InspOK'
    BY <1>16, IdleTypes, InspectorUpdate DEF CloseRun, TypeInv
  <2> QED BY <2>1, <2>2, <1>16, Frame DEF CloseRun, TypeInv, tables, queues, faults
<1>17. ASSUME InspectorDies(i) PROVE TypeInv'
  <2>1. InspOK'
    BY <1>17, IdleTypes, InspectorUpdate DEF InspectorDies, TypeInv
  <2>2. FaultsOK'
    BY <1>17, BoundsAssumption DEF InspectorDies, TypeInv, FaultsOK
  <2> QED BY <2>1, <2>2, <1>17, Frame DEF InspectorDies, TypeInv, tables, queues, faults
<1> QED BY <1>1, <1>2, <1>3, <1>4, <1>5, <1>6, <1>7, <1>8, <1>9, <1>10, <1>11, <1>12, <1>13, <1>14, <1>15, <1>16, <1>17 DEF InspectorStep


LEMMA TypesInductive ==
    ASSUME TypeInv, [Next]_vars
    PROVE  TypeInv'
<1>1. CASE Operators \/ Clock
  BY <1>1, OperatorsKeepTypes
<1>2. CASE Faults
  BY <1>2, OperatorsKeepTypes, WorkersKeepTypes, InspectorsKeepTypes DEF Faults
<1>3. CASE \E d \in Downloaders : DownloaderStep(d) \/ DownloaderReceives(d)
  BY <1>3, WorkersKeepTypes
<1>4. CASE \E d \in Downloaders, r \in Rows : JobStep(d, r)
  BY <1>4, JobsKeepTypes
<1>5. CASE \E i \in Inspectors : ReceiveInspection(i) \/ InspectorStep(i)
  BY <1>5, InspectorsKeepTypes
<1>6. CASE UNCHANGED vars
  BY <1>6, Frame DEF vars, TypeInv
<1> QED BY <1>1, <1>2, <1>3, <1>4, <1>5, <1>6 DEF Next

LEMMA InitTypes ==
    ASSUME Init
    PROVE  TypeInv
<1>1. RunsOK /\ RecOK /\ TriedOK /\ CallsOK
  BY NoRecordType DEF Init, RunsOK, Runs, NoRun, RunStatuses, RecOK, TriedOK, CallsOK
<1>2. FilesOK /\ RunQOK /\ RetryQOK /\ InspQOK /\ CallQOK /\ WebOK
  BY DEF Init, FilesOK, RunQOK, RetryQOK, InspQOK, CallQOK, WebOK
<1>3. DlOK /\ JobOK /\ InspOK
  BY IdleTypes DEF Init, DlOK, JobOK, NoJobs, InspOK
<1>4. FaultsOK /\ VettedOK
  BY BoundsAssumption DEF Init, FaultsOK, VettedOK
<1> QED BY <1>1, <1>2, <1>3, <1>4 DEF TypeInv

\* The inductive form of type correctness: what each program counter says of
\* the local variables of its process.
THEOREM TypesInvariant == Spec => []TypeInv
<1> QED BY InitTypes, TypesInductive, PTL DEF Spec

\* TypeOK: every column, queue and local variable of the pipeline keeps its
\* type, whatever the interleaving and the faults.
THEOREM TypeCorrect == Spec => []TypeOK
<1>1. TypeInv => TypeOK
  <2> USE DEF TypeInv
  <2>1. DlOK => dl \in [Downloaders -> Workers]
    BY DEF DlOK, GoodWorkers
  <2>2. JobOK => job \in [Downloaders -> [Rows -> Jobs]]
    BY DEF JobOK, GoodJobs
  <2>3. InspOK => insp \in [Inspectors -> InspectorStates]
    BY DEF InspOK, GoodInspectors
  <2> QED BY <2>1, <2>2, <2>3 DEF TypeOK, RunsOK, RecOK, TriedOK, CallsOK, FilesOK,
             RunQOK, RetryQOK, InspQOK, CallQOK, WebOK, FaultsOK, VettedOK
<1> QED BY <1>1, TypesInvariant, PTL

-----------------------------------------------------------------------------
(* The run gate.  A run on its way to a worker is REQUESTED and            *)
(* in one place; a run in a worker's hands is active and has no counts     *)
(* yet; an inspector that is about to close a run has seen its counts.     *)

QueuedRunsAreRequested ==
    \A n \in runQ : runs[n].status = "requested" /\ ~runs[n].hasNew

PendingRunIsRequested ==
    web # None => web \notin runQ /\ runs[web].status = "requested" /\ ~runs[web].hasNew

ProcessedRunsAreActive ==
    \A d \in Downloaders : Processing(d) =>
        /\ runs[dl[d].run].status \in ActiveRunStatuses
        /\ ~runs[dl[d].run].hasNew
        /\ dl[d].run \notin runQ
        /\ dl[d].run # web

ClosedRunsHaveCounts ==
    \A i \in Inspectors : insp[i].pc = "close" /\ insp[i].run \in RunIds =>
        runs[insp[i].run].hasNew

RunGate ==
    /\ TypeInv
    /\ OneActiveRun
    /\ OneWorkerProcesses
    /\ QueuedRunsAreRequested
    /\ PendingRunIsRequested
    /\ ProcessedRunsAreActive
    /\ ClosedRunsHaveCounts

-----------------------------------------------------------------------------
(* Frames: what leaves the runs and the work on them alone keeps the gate  *)

NoNewWork ==
    \A d \in Downloaders : Processing(d)' => Processing(d) /\ dl'[d].run = dl[d].run

NoNewClosing ==
    \A i \in Inspectors : insp'[i].pc = "close" =>
        insp[i].pc = "close" /\ insp'[i].run = insp[i].run

\* The run of a processing worker is a run.
LEMMA ProcessedRunType ==
    ASSUME TypeInv, NEW d \in Downloaders, Processing(d)
    PROVE  dl[d].run \in RunIds /\ dl[d].run # None
<1>1. dl[d] \in GoodWorkers
  BY DEF TypeInv, DlOK
<1>2. dl[d].run \in RunIds
  BY <1>1 DEF Processing, GoodWorkers
<1> QED BY <1>2, NoneIsNoValue

LEMMA GateFrame ==
    ASSUME RunGate, TypeInv', UNCHANGED runs, runQ' \subseteq runQ, web' \in {web, None},
           NoNewWork, NoNewClosing
    PROVE  RunGate'
<1>1. OneActiveRun'
  BY DEF RunGate, OneActiveRun
<1>2. OneWorkerProcesses'
  BY DEF RunGate, OneWorkerProcesses, NoNewWork
<1>3. QueuedRunsAreRequested'
  BY DEF RunGate, QueuedRunsAreRequested
<1>4. PendingRunIsRequested'
  BY DEF RunGate, PendingRunIsRequested
<1>5. ProcessedRunsAreActive'
  <2> SUFFICES ASSUME NEW d \in Downloaders, Processing(d)'
               PROVE  /\ runs[dl[d].run].status \in ActiveRunStatuses
                      /\ ~runs[dl[d].run].hasNew
                      /\ dl[d].run \notin runQ'
                      /\ dl[d].run # web'
    BY DEF ProcessedRunsAreActive, NoNewWork
  <2>1. Processing(d)
    BY DEF NoNewWork
  <2> QED BY <2>1, ProcessedRunType DEF RunGate, ProcessedRunsAreActive
<1>6. ClosedRunsHaveCounts'
  BY DEF RunGate, ClosedRunsHaveCounts, NoNewClosing
<1> QED BY <1>1, <1>2, <1>3, <1>4, <1>5, <1>6 DEF RunGate

\* While a worker processes a run no other run can be created, queued or
\* pending: it would be a second active one.
LEMMA ProcessedRunIsTheActiveOne ==
    ASSUME RunGate, NEW d \in Downloaders, Processing(d)
    PROVE  /\ runQ = {} /\ web = None /\ ~CanCreateRun
           /\ \A n \in RunIds : runs[n].status \in ActiveRunStatuses => n = dl[d].run
<1> USE DEF RunGate
<1>1. dl[d].run \in RunIds /\ runs[dl[d].run].status \in ActiveRunStatuses
  BY ProcessedRunType DEF ProcessedRunsAreActive
<1>2. \A n \in RunIds : runs[n].status \in ActiveRunStatuses => n = dl[d].run
  BY <1>1 DEF OneActiveRun, ActiveRunStatuses, ClosedRunStatuses
<1>3. runQ = {}
  <2> SUFFICES ASSUME NEW n \in runQ PROVE FALSE
    OBVIOUS
  <2>1. n \in RunIds
    BY DEF TypeInv, RunQOK
  <2> QED BY <1>2, <2>1 DEF QueuedRunsAreRequested, ProcessedRunsAreActive, ActiveRunStatuses
<1>4. web = None
  BY <1>2 DEF TypeInv, WebOK, PendingRunIsRequested, ProcessedRunsAreActive, ActiveRunStatuses
<1>5. ~CanCreateRun
  BY <1>1 DEF CanCreateRun, ActiveRuns
<1> QED BY <1>2, <1>3, <1>4, <1>5

\* A new run is created only when no run is active, so nobody works on one.
LEMMA CreationFindsNobody ==
    ASSUME RunGate, CanCreateRun
    PROVE  /\ runQ = {} /\ web = None
           /\ \A d \in Downloaders : ~Processing(d)
           /\ NextRun \in RunIds /\ runs[NextRun] = NoRun
           /\ \A n \in RunIds : runs[n].status \notin ActiveRunStatuses
<1> USE DEF RunGate
<1>1. \A n \in RunIds : runs[n].status \notin ActiveRunStatuses
  BY DEF CanCreateRun, ActiveRuns
<1>2. \A d \in Downloaders : ~Processing(d)
  BY ProcessedRunIsTheActiveOne
<1>3. runQ = {}
  BY <1>1 DEF TypeInv, RunQOK, QueuedRunsAreRequested, ActiveRunStatuses
<1>4. web = None
  BY <1>1 DEF TypeInv, WebOK, PendingRunIsRequested, ActiveRunStatuses
<1> QED BY <1>1, <1>2, <1>3, <1>4, NextRunType

LEMMA CreatedRun ==
    ASSUME RunGate, CanCreateRun, NEW s \in ActiveRunStatuses, CreateRun(s)
    PROVE  /\ OneActiveRun'
           /\ runs'[NextRun].status = s /\ runs'[NextRun].hasNew = FALSE
           /\ NoNewClosing => ClosedRunsHaveCounts'
<1> USE CreationFindsNobody DEF RunGate
<1>1. runs' = [runs EXCEPT ![NextRun] = [NoRun EXCEPT !.status = s]]
  BY DEF CreateRun
<1>2. DOMAIN runs = RunIds /\ \A n \in RunIds : runs[n].status \in RunStatuses
  BY DEF TypeInv, RunsOK, Runs
<1>3. runs'[NextRun].status = s /\ runs'[NextRun].hasNew = FALSE
  BY <1>1, <1>2 DEF NoRun
<1>4. \A n \in RunIds : n # NextRun => runs'[n] = runs[n]
  BY <1>1, <1>2
<1>5. OneActiveRun'
  BY <1>2, <1>4 DEF OneActiveRun, RunStatuses
<1>6. ASSUME NoNewClosing PROVE ClosedRunsHaveCounts'
  <2> SUFFICES ASSUME NEW i \in Inspectors, insp'[i].pc = "close", insp'[i].run \in RunIds
               PROVE  runs'[insp'[i].run].hasNew
    BY DEF ClosedRunsHaveCounts
  <2>1. insp[i].pc = "close" /\ insp'[i].run = insp[i].run
    BY <1>6 DEF NoNewClosing
  <2>2. runs[insp[i].run].hasNew
    BY <2>1 DEF ClosedRunsHaveCounts
  <2>3. insp[i].run # NextRun
    BY <2>2 DEF NoRun
  <2> QED BY <2>1, <2>2, <2>3, <1>4
<1> QED BY <1>3, <1>5, <1>6

-----------------------------------------------------------------------------
(* The status of a worker's own run: the worker that has it may move it    *)

LEMMA OwnRunStep ==
    ASSUME RunGate, TypeInv', NEW d \in Downloaders, Processing(d),
           UNCHANGED << runQ, web >>, NoNewClosing,
           \A n \in RunIds : n # dl[d].run => runs'[n] = runs[n],
           \A c \in Downloaders : c # d => dl'[c] = dl[c],
           Processing(d)' =>
              /\ dl'[d].run = dl[d].run
              /\ runs'[dl[d].run].status \in ActiveRunStatuses
              /\ ~runs'[dl[d].run].hasNew
    PROVE  RunGate'
<1> USE ProcessedRunIsTheActiveOne DEF RunGate
<1>1. OneActiveRun'
  <2> SUFFICES ASSUME NEW n \in RunIds, runs'[n].status \notin ClosedRunStatuses \cup {"absent"}
               PROVE  n = dl[d].run
    BY DEF OneActiveRun
  <2>1. runs[n].status \in RunStatuses
    BY DEF TypeInv, RunsOK, Runs
  <2> QED BY <2>1 DEF RunStatuses
<1>2. \A c \in Downloaders : Processing(c) => c = d
  BY DEF OneWorkerProcesses
<1>3. \A c \in Downloaders : Processing(c)' => c = d
  BY <1>2 DEF Processing
<1>4. OneWorkerProcesses'
  BY <1>3 DEF OneWorkerProcesses
<1>5. QueuedRunsAreRequested' /\ PendingRunIsRequested'
  BY DEF QueuedRunsAreRequested, PendingRunIsRequested
<1>6. ProcessedRunsAreActive'
  BY <1>3, ProcessedRunType DEF ProcessedRunsAreActive
<1>7. ClosedRunsHaveCounts'
  <2> SUFFICES ASSUME NEW i \in Inspectors, insp'[i].pc = "close", insp'[i].run \in RunIds
               PROVE  runs'[insp'[i].run].hasNew
    BY DEF ClosedRunsHaveCounts
  <2>1. insp[i].pc = "close" /\ insp'[i].run = insp[i].run
    BY DEF NoNewClosing
  <2>2. runs[insp[i].run].hasNew
    BY <2>1 DEF ClosedRunsHaveCounts
  <2>3. insp[i].run # dl[d].run
    BY <2>2 DEF ProcessedRunsAreActive
  <2> QED BY <2>1, <2>2, <2>3
<1> QED BY <1>1, <1>4, <1>5, <1>6, <1>7

-----------------------------------------------------------------------------
(* Every action keeps the gate                                             *)

LEMMA JobsKeepGate ==
    ASSUME RunGate, TypeInv', NEW d \in Downloaders, NEW r \in Rows, JobStep(d, r)
    PROVE  RunGate'
<1>1. UNCHANGED << runs, runQ, web, insp >>
  BY DEF JobStep, MappingFails, ClaimExisting, ClaimNew, StoreDownload, CommitDownload,
         DownloadFails, PublishInspection, PublishInspectionFails, PublishRetry,
         PublishRetryFails, RetryHandoff, RetryHandoffConflicts, RetryDispatch,
         RetryDispatchFails, RetryMarkSubmitted, tables, queues
<1>2. UNCHANGED dl \/ dl' = [dl EXCEPT ![d] = IdleWorker]
  BY DEF JobStep, MappingFails, ClaimExisting, ClaimNew, StoreDownload, CommitDownload,
         DownloadFails, PublishInspection, PublishInspectionFails, PublishRetry,
         PublishRetryFails, RetryHandoff, RetryHandoffConflicts, RetryDispatch,
         RetryDispatchFails, RetryMarkSubmitted
<1>3. NoNewWork
  BY <1>2 DEF NoNewWork, Processing, IdleWorker, RunGate, TypeInv, DlOK
<1>4. NoNewClosing
  BY <1>1 DEF NoNewClosing
<1> QED BY <1>1, <1>3, <1>4, GateFrame

LEMMA InspectorsKeepGate ==
    ASSUME RunGate, TypeInv', NEW i \in Inspectors,
           ReceiveInspection(i) \/ InspectorStep(i) \/ InspectorDies(i)
    PROVE  RunGate'
<1> USE DEF RunGate
<1>a. insp \in [Inspectors -> GoodInspectors]
  BY DEF TypeInv, InspOK
<1>d. insp[i] \in InspectorStates
  BY <1>a DEF GoodInspectors
<1>e. ASSUME \A j \in Inspectors \ {i} : insp'[j] = insp[j], insp'[i].pc # "close"
      PROVE  NoNewClosing
  BY <1>e DEF NoNewClosing
<1>b. UNCHANGED << runQ, web, dl >>
  BY DEF InspectorStep, ReceiveInspection, InspectMissingFile, BeginInspection, Inspect,
         InspectionRaises, MoveToRejected, MoveToAccepted, CommitVerdict, CommitHandoff,
         Dispatch, DispatchFails, MarkSubmitted, PublishLater, PublishLaterFails,
         FinalizeRun, CloseRun, InspectorDies, queues
<1>c. NoNewWork
  BY <1>b DEF NoNewWork, Processing
<1>1. CASE ReceiveInspection(i) \/ InspectMissingFile(i) \/ BeginInspection(i) \/ Inspect(i)
  <2>1. UNCHANGED runs
    BY <1>1 DEF ReceiveInspection, InspectMissingFile, BeginInspection, Inspect, tables
  <2>2. \A j \in Inspectors \ {i} : insp'[j] = insp[j]
    BY <1>1, <1>a DEF ReceiveInspection, InspectMissingFile, BeginInspection, Inspect,
       InspectorAt, IdleInspector
  <2>3. insp'[i].pc # "close"
    <3>1. CASE ReceiveInspection(i)
      <4>1. PICK k \in Keys : insp' \in {insp,
                [insp EXCEPT ![i].pc = "finalize", ![i].key = k],
                [insp EXCEPT ![i].pc = "loaded", ![i].key = k,
                             ![i].loaded = rec[k], ![i].edit = rec[k]]}
        BY <3>1 DEF ReceiveInspection
      <4>a. insp[i] = IdleInspector
        BY <3>1 DEF ReceiveInspection
      <4>2. insp[i].pc = "idle"
        BY <4>a DEF IdleInspector
      <4> QED BY <4>1, <4>2, <1>a, <1>d DEF InspectorStates
    <3>2. CASE InspectMissingFile(i)
      BY <3>2, <1>a DEF InspectMissingFile, IdleInspector
    <3>3. CASE BeginInspection(i)
      BY <3>3, <1>a, <1>d DEF BeginInspection, IdleInspector, InspectorStates
    <3>4. CASE Inspect(i)
      <4>1. PICK checks \in Findings : insp' = [insp EXCEPT ![i].edit.checks = checks,
                ![i].pc = IF Promotable(checks) THEN "passed" ELSE "refused"]
        BY <3>4 DEF Inspect
      <4> QED BY <4>1, <1>a, <1>d DEF InspectorStates
    <3> QED BY <1>1, <3>1, <3>2, <3>3, <3>4
  <2> QED BY <2>1, <2>2, <2>3, <1>b, <1>c, <1>e, GateFrame
<1>2. CASE InspectionRaises(i) \/ MoveToRejected(i) \/ MoveToAccepted(i)
  <2>1. UNCHANGED runs
    BY <1>2 DEF InspectionRaises, MoveToRejected, MoveToAccepted, tables
  <2>2. \A j \in Inspectors \ {i} : insp'[j] = insp[j]
    BY <1>2, <1>a DEF InspectionRaises, MoveToRejected, MoveToAccepted, Decide
  <2>3. insp'[i].pc # "close"
    BY <1>2, <1>a, <1>d DEF InspectionRaises, MoveToRejected, MoveToAccepted, Decide, InspectorStates
  <2> QED BY <2>1, <2>2, <2>3, <1>b, <1>c, <1>e, GateFrame
<1>3. CASE CommitVerdict(i) \/ CommitHandoff(i)
  <2>1. UNCHANGED runs
    BY <1>3 DEF CommitVerdict, CommitHandoff
  <2>2. \A j \in Inspectors \ {i} : insp'[j] = insp[j]
    BY <1>3, <1>a DEF CommitVerdict, CommitHandoff, IdleInspector
  <2>3. insp'[i].pc # "close"
    <3>1. CASE CommitVerdict(i)
      BY <3>1, <1>a DEF CommitVerdict, IdleInspector
    <3>2. CASE CommitHandoff(i)
      <4>1. insp' = [insp EXCEPT ![i] = IdleInspector]
            \/ insp' = [insp EXCEPT ![i] = [IdleInspector EXCEPT !.key = insp[i].key, !.pc = "dispatch"]]
        BY <3>2 DEF CommitHandoff
      <4>2. IdleInspector.pc # "close"
            /\ [IdleInspector EXCEPT !.key = insp[i].key, !.pc = "dispatch"].pc # "close"
        BY DEF IdleInspector
      <4> QED BY <4>1, <4>2, <1>a
    <3> QED BY <1>3, <3>1, <3>2
  <2> QED BY <2>1, <2>2, <2>3, <1>b, <1>c, <1>e, GateFrame
<1>4. CASE Dispatch(i) \/ DispatchFails(i) \/ MarkSubmitted(i)
  <2>1. UNCHANGED runs
    BY <1>4 DEF Dispatch, DispatchFails, MarkSubmitted, tables
  <2>2. \A j \in Inspectors \ {i} : insp'[j] = insp[j]
    BY <1>4, <1>a DEF Dispatch, DispatchFails, MarkSubmitted, InspectorTo
  <2>3. insp'[i].pc # "close"
    BY <1>4, <1>a, <1>d DEF Dispatch, DispatchFails, MarkSubmitted, InspectorTo, InspectorStates
  <2> QED BY <2>1, <2>2, <2>3, <1>b, <1>c, <1>e, GateFrame
<1>5. CASE PublishLater(i) \/ PublishLaterFails(i) \/ InspectorDies(i)
  <2>1. UNCHANGED runs
    BY <1>5 DEF PublishLater, PublishLaterFails, InspectorDies, tables
  <2>2. \A j \in Inspectors \ {i} : insp'[j] = insp[j]
    BY <1>5, <1>a DEF PublishLater, PublishLaterFails, InspectorDies, InspectorTo, IdleInspector
  <2>3. insp'[i].pc # "close"
    BY <1>5, <1>a, <1>d DEF PublishLater, PublishLaterFails, InspectorDies, InspectorTo, IdleInspector, InspectorStates
  <2> QED BY <2>1, <2>2, <2>3, <1>b, <1>c, <1>e, GateFrame
<1>6. CASE FinalizeRun(i)
  <2> DEFINE n == rec[insp[i].key].run
  <2>1. UNCHANGED runs
    BY <1>6 DEF FinalizeRun, tables
  <2>2. ClosedRunsHaveCounts'
    <3> SUFFICES ASSUME NEW j \in Inspectors, insp'[j].pc = "close", insp'[j].run \in RunIds
                 PROVE  runs[insp'[j].run].hasNew
      BY <2>1 DEF ClosedRunsHaveCounts
    <3>1. CASE j = i
      <4>1. ReadyToClose(n) /\ insp'[i].run = n
        BY <1>6, <1>a, <3>1 DEF FinalizeRun, IdleInspector
      <4> QED BY <3>1, <4>1 DEF ReadyToClose
    <3>2. CASE j # i
      <4>1. insp'[j] = insp[j]
        BY <1>6, <1>a, <3>2 DEF FinalizeRun
      <4> QED BY <4>1 DEF ClosedRunsHaveCounts
    <3> QED BY <3>1, <3>2
  <2>3. OneActiveRun' /\ OneWorkerProcesses'
    BY <1>b, <2>1 DEF OneActiveRun, OneWorkerProcesses, Processing
  <2>4. QueuedRunsAreRequested' /\ PendingRunIsRequested' /\ ProcessedRunsAreActive'
    BY <1>b, <2>1 DEF QueuedRunsAreRequested, PendingRunIsRequested, ProcessedRunsAreActive,
       Processing
  <2> QED BY <2>2, <2>3, <2>4
<1>7. CASE CloseRun(i)
  <2> DEFINE n == insp[i].run
  <2>1. insp[i].pc = "close" /\ insp[i].verdict \in ClosedRunStatuses
    BY <1>7, <1>a DEF CloseRun, InspectorAt, GoodInspectors
  <2>2. n \in RunIds => runs[n].hasNew
    BY <2>1 DEF ClosedRunsHaveCounts
  <2>3. \A m \in RunIds : m # n => runs'[m] = runs[m]
    BY <1>7 DEF CloseRun, TypeInv, RunsOK
  <2>4. n \in RunIds => runs'[n].status = insp[i].verdict /\ runs'[n].hasNew = runs[n].hasNew
    BY <1>7 DEF CloseRun, TypeInv, RunsOK, Runs
  <2>5. \A m \in RunIds : runs'[m].hasNew = runs[m].hasNew
    BY <2>3, <2>4
  <2>6. OneActiveRun'
    BY <2>1, <2>3, <2>4 DEF OneActiveRun
  <2>7. OneWorkerProcesses'
    BY <1>b DEF OneWorkerProcesses, Processing
  <2>8. QueuedRunsAreRequested' /\ PendingRunIsRequested'
    BY <1>b, <2>2, <2>3 DEF QueuedRunsAreRequested, PendingRunIsRequested, TypeInv, RunQOK, WebOK
  <2>9. ProcessedRunsAreActive'
    <3> SUFFICES ASSUME NEW d \in Downloaders, Processing(d)
                 PROVE  /\ runs'[dl[d].run].status \in ActiveRunStatuses
                        /\ ~runs'[dl[d].run].hasNew
                        /\ dl[d].run \notin runQ /\ dl[d].run # web
      BY <1>b DEF ProcessedRunsAreActive, Processing
    <3>1. dl[d].run \in RunIds
      BY ProcessedRunType
    <3> QED BY <3>1, <2>2, <2>3 DEF ProcessedRunsAreActive
  <2>10. ClosedRunsHaveCounts'
    BY <1>7, <1>a, <2>5 DEF CloseRun, ClosedRunsHaveCounts, IdleInspector
  <2> QED BY <2>6, <2>7, <2>8, <2>9, <2>10
<1> QED BY <1>1, <1>2, <1>3, <1>4, <1>5, <1>6, <1>7 DEF InspectorStep

LEMMA OperatorsKeepGate ==
    ASSUME RunGate, TypeInv', Operators \/ Clock \/ EndpointDies \/ MessageLost
    PROVE  RunGate'
<1> USE DEF RunGate
<1>a. NoNewClosing
  BY DEF NoNewClosing, Operators, Clock, EndpointDies, MessageLost, RequestRun, PublishRun,
         PublishRunFails, RequestManualRetry, StartScheduledRun, SelectHandoff,
         RetryTimeComes, LeaseExpires
<1>1. CASE RequestRun
  <2>1. CreateRun("requested") /\ CanCreateRun /\ web' = NextRun /\ UNCHANGED << runQ, dl, insp >>
    BY <1>1 DEF RequestRun, queues
  <2>2. OneActiveRun' /\ ClosedRunsHaveCounts' /\ PendingRunIsRequested'
    BY <2>1, <1>a, CreatedRun, CreationFindsNobody DEF PendingRunIsRequested, ActiveRunStatuses
  <2>3. \A d \in Downloaders : ~Processing(d)'
    BY <2>1, CreationFindsNobody DEF Processing
  <2>4. OneWorkerProcesses' /\ ProcessedRunsAreActive'
    BY <2>3 DEF OneWorkerProcesses, ProcessedRunsAreActive
  <2>5. QueuedRunsAreRequested'
    BY <2>1, CreationFindsNobody DEF QueuedRunsAreRequested
  <2> QED BY <2>2, <2>4, <2>5
<1>2. CASE PublishRun
  <2>1. web # None /\ runQ' = runQ \cup {web} /\ web' = None /\ UNCHANGED << runs, dl, insp >>
    BY <1>2 DEF PublishRun, tables
  <2>2. \A d \in Downloaders : ~Processing(d)'
    BY <2>1, ProcessedRunIsTheActiveOne DEF Processing
  <2>3. OneWorkerProcesses' /\ ProcessedRunsAreActive'
    BY <2>2 DEF OneWorkerProcesses, ProcessedRunsAreActive
  <2>4. QueuedRunsAreRequested' /\ PendingRunIsRequested'
    BY <2>1 DEF QueuedRunsAreRequested, PendingRunIsRequested
  <2>5. OneActiveRun' /\ ClosedRunsHaveCounts'
    BY <2>1 DEF OneActiveRun, ClosedRunsHaveCounts
  <2> QED BY <2>3, <2>4, <2>5
<1>3. CASE PublishRunFails
  <2>1. /\ web \in RunIds /\ runs' = [runs EXCEPT ![web].status = "failed"] /\ web' = None
        /\ UNCHANGED << runQ, dl, insp >>
    BY <1>3 DEF PublishRunFails, TypeInv, WebOK, queues
  <2>2. \A d \in Downloaders : ~Processing(d)'
    BY <2>1, NoneIsNoValue, ProcessedRunIsTheActiveOne DEF Processing
  <2>3. OneWorkerProcesses' /\ ProcessedRunsAreActive'
    BY <2>2 DEF OneWorkerProcesses, ProcessedRunsAreActive
  <2>4. /\ \A m \in RunIds : m # web => runs'[m] = runs[m]
        /\ runs'[web].status = "failed"
        /\ \A m \in RunIds : runs'[m].hasNew = runs[m].hasNew
    BY <2>1 DEF TypeInv, RunsOK, Runs
  <2>5. OneActiveRun'
    BY <2>4 DEF OneActiveRun, ClosedRunStatuses
  <2>6. ClosedRunsHaveCounts'
    BY <2>1, <2>4 DEF ClosedRunsHaveCounts
  <2>7. QueuedRunsAreRequested' /\ PendingRunIsRequested'
    BY <2>1, <2>4, NoneIsNoValue DEF QueuedRunsAreRequested, PendingRunIsRequested, TypeInv, RunQOK
  <2> QED BY <2>3, <2>5, <2>6, <2>7
<1>4. ASSUME NEW d \in Downloaders, StartScheduledRun(d) PROVE RunGate'
  <2>1. /\ CreateRun("requested") /\ CanCreateRun /\ UNCHANGED << runQ, web, insp >>
        /\ dl' = [dl EXCEPT ![d].pc = "continue", ![d].run = NextRun]
    BY <1>4 DEF StartScheduledRun, queues
  <2>2. OneActiveRun' /\ ClosedRunsHaveCounts' /\ runs'[NextRun].status = "requested"
        /\ runs'[NextRun].hasNew = FALSE
    BY <2>1, <1>a, CreatedRun DEF ActiveRunStatuses
  <2>3. \A c \in Downloaders : Processing(c)' => c = d /\ dl'[c].run = NextRun
    BY <2>1, CreationFindsNobody DEF Processing, TypeInv, DlOK, GoodWorkers, Workers
  <2>4. OneWorkerProcesses'
    BY <2>3 DEF OneWorkerProcesses
  <2>5. ProcessedRunsAreActive' /\ QueuedRunsAreRequested' /\ PendingRunIsRequested'
    BY <2>1, <2>2, <2>3, CreationFindsNobody, NoneIsNoValue
    DEF ProcessedRunsAreActive, QueuedRunsAreRequested, PendingRunIsRequested, ActiveRunStatuses
  <2> QED BY <2>2, <2>4, <2>5
<1>5. ASSUME NEW d \in Downloaders, SelectHandoff(d) PROVE RunGate'
  <2>1. NoNewWork
    BY <1>5 DEF SelectHandoff, NoNewWork, Processing, TypeInv, DlOK
  <2> QED BY <2>1, <1>5, <1>a, GateFrame DEF SelectHandoff, tables, queues
<1>6. CASE Clock \/ EndpointDies \/ MessageLost \/ \E k \in Keys : RequestManualRetry(k)
  <2>1. UNCHANGED << runs, dl >> /\ runQ' \subseteq runQ /\ web' \in {web, None}
    BY <1>6 DEF Clock, RetryTimeComes, LeaseExpires, EndpointDies, MessageLost,
       RequestManualRetry, tables, queues
  <2>2. NoNewWork
    BY <2>1 DEF NoNewWork, Processing
  <2> QED BY <2>1, <2>2, <1>a, GateFrame
<1> QED BY <1>1, <1>2, <1>3, <1>4, <1>5, <1>6 DEF Operators

LEMMA WorkersKeepGate ==
    ASSUME RunGate, TypeInv', NEW d \in Downloaders,
           DownloaderStep(d) \/ DownloaderReceives(d) \/ DownloaderDies(d)
    PROVE  RunGate'
<1> USE DEF RunGate
<1>a. UNCHANGED << web, insp >>
  BY DEF DownloaderStep, DownloaderReceives, DownloaderDies, StartReading, SheetReadFails,
         ReadSheet, StartRetry, RetryFindsActiveRun, ComputeResults, ApplyResults,
         ClaimHandoff, Redispatch, RedispatchFails, MarkReconciled, ReceiveRun,
         ReceiveRetry, SkipRetry, queues
<1>b. NoNewClosing
  BY <1>a DEF NoNewClosing
<1>c. dl \in [Downloaders -> GoodWorkers] /\ dl[d] \in Workers
  BY DEF TypeInv, DlOK, GoodWorkers
<1>d. runs \in [RunIds -> Runs]
  BY DEF TypeInv, RunsOK
<1>1. CASE StartReading(d) \/ ReadSheet(d)
  <2>1. PICK pc \in {"reading", "rows"}, s \in ActiveRunStatuses :
          dl' = [dl EXCEPT ![d].pc = pc] /\ runs' = [runs EXCEPT ![dl[d].run].status = s]
    BY <1>1 DEF StartReading, ReadSheet, ActiveRunStatuses
  <2>2. Processing(d) /\ UNCHANGED runQ
    BY <1>1 DEF StartReading, ReadSheet, Processing, queues
  <2>3. dl'[d].run = dl[d].run
    BY <2>1, <1>c DEF Workers
  <2>4. \A c \in Downloaders : c # d => dl'[c] = dl[c]
    BY <2>1, <1>c
  <2>5. dl[d].run \in RunIds /\ ~runs[dl[d].run].hasNew
    BY <2>2, ProcessedRunType DEF ProcessedRunsAreActive
  <2>6. \A n \in RunIds : n # dl[d].run => runs'[n] = runs[n]
    BY <2>1, <1>d
  <2>7. runs'[dl[d].run].status = s /\ ~runs'[dl[d].run].hasNew
    BY <2>1, <2>5, <1>d DEF Runs
  <2> QED BY <1>a, <1>b, <2>2, <2>3, <2>4, <2>6, <2>7, OwnRunStep
<1>2. CASE SheetReadFails(d) \/ ApplyResults(d)
  <2>1. dl' = [dl EXCEPT ![d] = IdleWorker] /\ Processing(d) /\ UNCHANGED runQ
    BY <1>2 DEF SheetReadFails, ApplyResults, Processing, queues
  <2>2. \A n \in RunIds : n # dl[d].run => runs'[n] = runs[n]
    BY <1>2, <1>d DEF SheetReadFails, ApplyResults
  <2>3. \A c \in Downloaders : c # d => dl'[c] = dl[c]
    BY <2>1, <1>c
  <2>4. ~Processing(d)'
    BY <2>1, <1>c DEF Processing, IdleWorker
  <2> QED BY <1>a, <1>b, <2>1, <2>2, <2>3, <2>4, OwnRunStep
<1>3. CASE ComputeResults(d)
  <2>1. UNCHANGED << runs, runQ >>
    BY <1>3 DEF ComputeResults, tables, queues
  <2>2. PICK v : dl' = [dl EXCEPT ![d].pc = "apply", ![d].verdict = v]
    BY <1>3 DEF ComputeResults
  <2>3. Processing(d)
    BY <1>3 DEF ComputeResults, JobsOver, Processing
  <2>4. dl'[d].run = dl[d].run /\ \A c \in Downloaders : c # d => dl'[c] = dl[c]
    BY <2>2, <1>c DEF Workers
  <2>5. NoNewWork
    BY <2>3, <2>4 DEF NoNewWork, Processing
  <2> QED BY <1>a, <1>b, <2>1, <2>5, GateFrame
<1>4. CASE StartRetry(d)
  <2>1. CanCreateRun /\ CreateRun("processing") /\ UNCHANGED runQ
    BY <1>4 DEF StartRetry, queues
  <2>2. OneActiveRun' /\ ClosedRunsHaveCounts' /\ runs'[NextRun].status = "processing"
        /\ runs'[NextRun].hasNew = FALSE
    BY <2>1, <1>b, CreatedRun DEF ActiveRunStatuses
  <2>3. \/ dl' = [dl EXCEPT ![d] = IdleWorker]
        \/ dl' = [dl EXCEPT ![d].pc = "retrying", ![d].run = NextRun, ![d].copy = None]
    BY <1>4 DEF StartRetry
  <2>4. \A c \in Downloaders : Processing(c)' => c = d /\ dl'[c].run = NextRun
    BY <2>1, <2>3, <1>c, CreationFindsNobody DEF Processing, Workers, IdleWorker
  <2>5. OneWorkerProcesses'
    BY <2>4 DEF OneWorkerProcesses
  <2>6. ProcessedRunsAreActive' /\ QueuedRunsAreRequested' /\ PendingRunIsRequested'
    BY <1>a, <2>1, <2>2, <2>4, CreationFindsNobody, NoneIsNoValue
    DEF ProcessedRunsAreActive, QueuedRunsAreRequested, PendingRunIsRequested, ActiveRunStatuses
  <2> QED BY <2>2, <2>5, <2>6
<1>5. CASE ReceiveRun(d)
  <2>1. PICK n \in runQ : /\ runQ' = runQ \ {n}
                          /\ dl' = IF runs[n].status = "requested"
                                   THEN [dl EXCEPT ![d].pc = "continue", ![d].run = n] ELSE dl
    BY <1>5 DEF ReceiveRun
  <2>2. UNCHANGED runs
    BY <1>5 DEF ReceiveRun, tables
  <2>3. dl' = [dl EXCEPT ![d].pc = "continue", ![d].run = n]
    BY <2>1 DEF QueuedRunsAreRequested
  <2>4. \A c \in Downloaders : ~Processing(c)
    BY <2>1, ProcessedRunIsTheActiveOne
  <2>5. \A c \in Downloaders : Processing(c)' => c = d /\ dl'[c].run = n
    BY <2>3, <2>4, <1>c DEF Processing, Workers
  <2>6. OneWorkerProcesses' /\ OneActiveRun' /\ ClosedRunsHaveCounts'
    BY <1>a, <2>2, <2>5 DEF OneWorkerProcesses, OneActiveRun, ClosedRunsHaveCounts
  <2>7. QueuedRunsAreRequested' /\ PendingRunIsRequested'
    BY <1>a, <2>1, <2>2 DEF QueuedRunsAreRequested, PendingRunIsRequested
  <2>8. n # web
    BY <2>1, NoneIsNoValue DEF PendingRunIsRequested, TypeInv, RunQOK
  <2>a. runs[n].status = "requested" /\ ~runs[n].hasNew
    BY <2>1 DEF QueuedRunsAreRequested
  <2>b. n \notin runQ'
    BY <2>1
  <2>9. ProcessedRunsAreActive'
    <3> HIDE DEF RunGate
    <3> QED BY <1>a, <2>a, <2>b, <2>2, <2>5, <2>8 DEF ProcessedRunsAreActive, ActiveRunStatuses
  <2> QED BY <2>6, <2>7, <2>9
<1>6. CASE ReceiveRetry(d) \/ SkipRetry(d) \/ RetryFindsActiveRun(d) \/ DownloaderDies(d)
  <2>1. UNCHANGED << runs, runQ >>
    BY <1>6 DEF ReceiveRetry, SkipRetry, RetryFindsActiveRun, DownloaderDies, tables, queues
  <2>2. \/ UNCHANGED dl \/ dl' = [dl EXCEPT ![d] = IdleWorker]
        \/ \E k \in Keys : dl' = [dl EXCEPT ![d].pc = "retry", ![d].key = k, ![d].copy = rec[k]]
    <3>1. \A m \in retryQ : m.key \in Keys
      BY DEF TypeInv, RetryQOK, Retries
    <3> QED BY <1>6, <3>1 DEF ReceiveRetry, SkipRetry, RetryFindsActiveRun, DownloaderDies
  <2>3. CASE UNCHANGED dl
    <3>1. NoNewWork
      BY <2>3 DEF NoNewWork, Processing
    <3> QED BY <3>1, <1>a, <1>b, <2>1, GateFrame
  <2>4. CASE dl' = [dl EXCEPT ![d] = IdleWorker]
    <3>1. NoNewWork
      BY <2>4, <1>c DEF NoNewWork, Processing, IdleWorker
    <3> QED BY <3>1, <1>a, <1>b, <2>1, GateFrame
  <2>5. ASSUME NEW k \in Keys,
               dl' = [dl EXCEPT ![d].pc = "retry", ![d].key = k, ![d].copy = rec[k]]
        PROVE  RunGate'
    <3>1. dl'[d].pc = "retry" /\ \A c \in Downloaders : c # d => dl'[c] = dl[c]
      BY <2>5, <1>c DEF Workers
    <3>2. NoNewWork
      BY <3>1 DEF NoNewWork, Processing
    <3> QED BY <3>2, <1>a, <1>b, <2>1, GateFrame
  <2> QED BY <2>2, <2>3, <2>4, <2>5
<1>7. CASE ClaimHandoff(d) \/ Redispatch(d) \/ RedispatchFails(d) \/ MarkReconciled(d)
  <2>1. UNCHANGED << runs, runQ >>
    BY <1>7 DEF ClaimHandoff, Redispatch, RedispatchFails, MarkReconciled, tables, queues
  <2>2. \/ dl' = [dl EXCEPT ![d] = IdleWorker]
        \/ \E pc \in {"redispatch", "remark"} : dl' = [dl EXCEPT ![d].pc = pc]
    BY <1>7 DEF ClaimHandoff, Redispatch, RedispatchFails, MarkReconciled
  <2>3. NoNewWork
    BY <2>2, <1>c DEF NoNewWork, Processing, Workers, IdleWorker
  <2> QED BY <1>a, <1>b, <2>1, <2>3, GateFrame
<1> QED BY <1>1, <1>2, <1>3, <1>4, <1>5, <1>6, <1>7 DEF DownloaderStep, DownloaderReceives

LEMMA GateInductive ==
    ASSUME RunGate, [Next]_vars
    PROVE  RunGate'
<1>1. TypeInv'
  BY TypesInductive DEF RunGate
<1>2. CASE Operators \/ Clock
  BY <1>1, <1>2, OperatorsKeepGate
<1>3. CASE Faults
  BY <1>1, <1>3, OperatorsKeepGate, WorkersKeepGate, InspectorsKeepGate DEF Faults
<1>4. CASE \E d \in Downloaders : DownloaderStep(d) \/ DownloaderReceives(d)
  BY <1>1, <1>4, WorkersKeepGate
<1>5. CASE \E d \in Downloaders, r \in Rows : JobStep(d, r)
  BY <1>1, <1>5, JobsKeepGate
<1>6. CASE \E i \in Inspectors : ReceiveInspection(i) \/ InspectorStep(i)
  BY <1>1, <1>6, InspectorsKeepGate
<1>7. CASE UNCHANGED vars
  BY <1>1, <1>7, GateFrame DEF vars, NoNewWork, NoNewClosing, Processing
<1> QED BY <1>2, <1>3, <1>4, <1>5, <1>6, <1>7 DEF Next

LEMMA InitGate ==
    ASSUME Init
    PROVE  RunGate
<1>1. TypeInv
  BY InitTypes
<1>2. OneActiveRun
  BY DEF Init, OneActiveRun, NoRun
<1>3. \A d \in Downloaders : ~Processing(d)
  BY DEF Init, Processing, IdleWorker
<1>4. OneWorkerProcesses /\ ProcessedRunsAreActive
  BY <1>3 DEF OneWorkerProcesses, ProcessedRunsAreActive
<1>5. QueuedRunsAreRequested /\ PendingRunIsRequested
  BY DEF Init, QueuedRunsAreRequested, PendingRunIsRequested
<1>6. ClosedRunsHaveCounts
  BY DEF Init, ClosedRunsHaveCounts, IdleInspector
<1> QED BY <1>1, <1>2, <1>4, <1>5, <1>6 DEF RunGate

\* The inductive invariant of the run gate: runs on their way to a worker are
\* REQUESTED, runs in a worker's hands are active and have no counts yet.
THEOREM RunGateInvariant == Spec => []RunGate
<1> QED BY InitGate, GateInductive, PTL DEF Spec

\* OneActiveRun: beat, operators and retries never have two runs of the
\* source active (the partial unique index and its IntegrityError).
THEOREM OneActiveRunAlways == Spec => []OneActiveRun
<1>1. RunGate => OneActiveRun
  BY DEF RunGate
<1> QED BY <1>1, RunGateInvariant, PTL

\* OneWorkerProcesses: two download workers never process rows of the source
\* at the same time, whatever is delivered to them and when.
THEOREM OneWorkerProcessesAlways == Spec => []OneWorkerProcesses
<1>1. RunGate => OneWorkerProcesses
  BY DEF RunGate
<1> QED BY <1>1, RunGateInvariant, PTL

\* RunOutlivesItsWorker: no inspector closes a run under the worker that still
\* processes its rows (the wait for new_count in the inspection task).
THEOREM RunOutlivesItsWorkerAlways == Spec => []RunOutlivesItsWorker
<1>1. RunGate => RunOutlivesItsWorker
  BY DEF RunGate, ProcessedRunsAreActive, RunOutlivesItsWorker
<1> QED BY <1>1, RunGateInvariant, PTL

-----------------------------------------------------------------------------
(* Custody.  A source record is in one hand at a time while no two of the   *)
(* download workers are busy with it: of the row threads, the inspection    *)
(* messages and the inspectors, at most one has a record to work on, and    *)
(* the copy it works on is the row.  From this follow what is promised of   *)
(* the storage, of the Calls and of the call pipeline, for any number of    *)
(* rows, keys, threads, inspectors and runs and with every fault.           *)

-----------------------------------------------------------------------------
(* The invariant of custody                                                *)

Working(i) == insp[i].pc \in {"loaded", "inspecting", "refused", "passed", "commit"}
HandingOver(i) == insp[i].pc \in {"dispatch", "mark"}
Busy(i) == Working(i) \/ HandingOver(i)

\* Equal but for the columns that clocks and leases change.
SameRow(a, b) ==
    /\ a.status = b.status /\ a.run = b.run /\ a.row = b.row
    /\ a.attempts = b.attempts /\ a.qpath = b.qpath /\ a.spath = b.spath
    /\ a.call = b.call /\ a.queued = b.queued /\ a.checks = b.checks

\* A worker has jobs only while it processes a run.
JobsInPlace == \A d \in Downloaders :
    /\ dl[d].pc \notin {"rows", "retrying", "apply"} => job[d] = NoJobs
    /\ dl[d].pc = "apply" => \A r \in Rows : job[d][r].pc \in {"none", "done", "raised"}

\* What the columns of key k say of each other and of its Calls c.
RowGood(k, r, c) ==
    /\ r.status = "absent" => r = NoRecord
    /\ r.status # "absent" => r.row \in Rows /\ KeyOf[r.row] = k
    /\ r.call = Len(c) /\ r.call =< 1
    /\ r.spath # None => r.checks = AllPassed /\ r.qpath = None /\ r.call # 0
    /\ r.status \in {"accepted", "handoff_pending", "submitted"} => r.spath # None
    /\ r.status \in {"absent", "downloading", "quarantined"} => r.spath = None
    /\ r.status \in {"absent", "downloading"} => r.qpath = None

RowAt(k) == RowGood(k, rec[k], calls[k])

JobStatus(pc, status) ==
    /\ pc \in {"transfer", "stored"} => status \in {"absent", "downloading"}
    /\ pc = "publish" => status = "quarantined"
    /\ pc = "handoff" => status = "accepted"
    /\ pc \in {"dispatch", "mark"} => status = "handoff_pending"

JobsAt(k) == \A d \in Downloaders, r \in Rows : KeyOf[r] = k /\ Carrying(d, r) =>
    /\ JobStatus(job[d][r].pc, rec[k].status)
    /\ \A q \in Rows : KeyOf[q] = k /\ Carrying(d, q) => q = r
    /\ \A i \in Inspectors : insp[i].key = k => ~Busy(i)

\* What an inspector has changed in its session.
EditGood(pc, old, new) ==
    /\ new.run = old.run /\ new.row = old.row /\ new.attempts = old.attempts
    /\ new.call = old.call /\ new.queued = old.queued
    /\ pc # "commit" => new.status = "quarantined" /\ new.qpath = old.qpath
    /\ pc = "passed" => new.checks = AllPassed
    /\ pc = "commit" =>
         new.status \in {"accepted", "rejected", "retry_scheduled", "failed"}
    /\ IF pc = "commit" /\ new.status = "accepted"
       THEN new.spath # None /\ new.checks = AllPassed /\ new.qpath = None
       ELSE new.spath = None

InspectorGood(w, r) ==
    /\ w.pc \in {"loaded", "inspecting", "refused", "passed", "commit"} =>
         /\ r.status = "quarantined"
         /\ SameRow(w.loaded, r)
         /\ EditGood(w.pc, w.loaded, w.edit)
    /\ w.pc \in {"dispatch", "mark"} =>
         r.status \in {"accepted", "handoff_pending", "submitted"}

InspectorsAt(k) == \A i \in Inspectors : insp[i].key = k =>
    /\ InspectorGood(insp[i], rec[k])
    /\ Busy(i) => \A j \in Inspectors : insp[j].key = k /\ Busy(j) => j = i

QueueAt(k) ==
    /\ inspQ[k] =< 1
    /\ inspQ[k] > 0 =>
         /\ rec[k].status = "quarantined"
         /\ \A d \in Downloaders, r \in Rows : KeyOf[r] = k => ~Carrying(d, r)
         /\ \A i \in Inspectors : insp[i].key = k => ~Busy(i)

WorkerGood(w, r) ==
    /\ w.pc = "retry" =>
         SameRow(w.copy, r) /\ r.status \in {"retry_scheduled", "failed"}
    /\ w.pc \in Reconcilers =>
         /\ w.copy.status \in {"accepted", "handoff_pending"}
         /\ r.status \in {"accepted", "handoff_pending", "submitted",
                          "retry_scheduled", "failed"}
         /\ r.spath # None

WorkersAt(k) == \A d \in Downloaders : dl[d].key = k => WorkerGood(dl[d], rec[k])

CustodyAt(k) ==
    RowAt(k) /\ JobsAt(k) /\ InspectorsAt(k) /\ QueueAt(k) /\ WorkersAt(k)

Custody == JobsInPlace /\ \A k \in Keys : CustodyAt(k)

-----------------------------------------------------------------------------
(* Rows                                                                    *)

LEMMA SameRowKeepsGood ==
    ASSUME NEW k, NEW c, NEW a, NEW b, RowGood(k, a, c), SameRow(a, b), a.status # "absent"
    PROVE  RowGood(k, b, c)
BY DEF RowGood, SameRow

\* What a session writes over the row it has a copy of is what it has edited.
LEMMA FlushOfFresh ==
    ASSUME NEW a \in Records, NEW b \in Records, NEW c \in Records, SameRow(a, c)
    PROVE  SameRow(Flush(a, b, c), b)
BY DEF Flush, SameRow, Records

LEMMA FirstRecordGood ==
    ASSUME NEW r \in Rows, NEW n, NEW c, Len(c) = 0
    PROVE  /\ RowGood(KeyOf[r], NewRecord(n, r), c)
           /\ NewRecord(n, r).status = "downloading"
BY DEF NewRecord, NoRecord, RowGood

LEMMA EditsKeepGood ==
    ASSUME NEW k, NEW c, NEW r \in Records, RowGood(k, r, c), r.status # "absent"
    PROVE  /\ \A x : RowGood(k, ApplyFailurePolicy(r, x), c)
           /\ r.status = "downloading" => \A p : RowGood(k, Quarantined(r, p), c)
           /\ r.spath # None => /\ RowGood(k, HandoffPending(r, r.call), c)
                                /\ RowGood(k, Submitted(r), c)
           /\ r.spath # None => \A s \in {"accepted", "handoff_pending"} : \A e :
                                  RowGood(k, [r EXCEPT !.status = s, !.err = e], c)
           /\ \A t : RowGood(k, [r EXCEPT !.timer = t], c)
           /\ \A e : RowGood(k, [r EXCEPT !.err = e], c)
           /\ \A n : RowGood(k, [r EXCEPT !.attempts = n], c)
<1> USE DEF RowGood, Records
<1>1. ASSUME NEW x PROVE RowGood(k, ApplyFailurePolicy(r, x), c)
  BY DEF ApplyFailurePolicy
<1>2. ASSUME NEW p, r.status = "downloading" PROVE RowGood(k, Quarantined(r, p), c)
  BY <1>2 DEF Quarantined
<1>3. ASSUME r.spath # None PROVE RowGood(k, HandoffPending(r, r.call), c) /\ RowGood(k, Submitted(r), c)
  BY <1>3 DEF HandoffPending, Submitted
<1>4. ASSUME r.spath # None, NEW s \in {"accepted", "handoff_pending"}, NEW e
      PROVE  RowGood(k, [r EXCEPT !.status = s, !.err = e], c)
  BY <1>4
<1>5. ASSUME NEW t PROVE RowGood(k, [r EXCEPT !.timer = t], c)
  OBVIOUS
<1>6. ASSUME NEW t PROVE RowGood(k, [r EXCEPT !.err = t], c)
  OBVIOUS
<1>7. ASSUME NEW t PROVE RowGood(k, [r EXCEPT !.attempts = t], c)
  OBVIOUS
<1> HIDE DEF RowGood, Records
<1> QED BY <1>1, <1>2, <1>3, <1>4, <1>5, <1>6, <1>7

LEMMA RetryKeepsGood ==
    ASSUME NEW k, NEW c, NEW r \in Records, RowGood(k, r, c),
           r.status \in {"retry_scheduled", "failed"}, NEW n
    PROVE  /\ RowGood(k, PrepareForRetry(r, n), c)
           /\ PrepareForRetry(r, n).status \in {"accepted", "quarantined", "downloading"}
           /\ PrepareForRetry(r, n).row = r.row
BY DEF PrepareForRetry, RowGood, Records

-----------------------------------------------------------------------------
(* Frames: a step is about the keys of a set S, and every other key keeps  *)
(* its row, or it only puts records down                                   *)

RowsKept(S) == \A h \in Keys \ S :
    rec'[h] = rec[h] /\ calls'[h] = calls[h] /\ inspQ'[h] =< inspQ[h]

JobsKept(S) == \A d \in Downloaders, r \in Rows :
    KeyOf[r] \notin S /\ Carrying(d, r)' => job'[d][r] = job[d][r]

InspectorsKept(S) == \A i \in Inspectors :
    insp'[i].key \notin S /\ Busy(i)' => insp'[i] = insp[i]

WorkersKept(S) == \A d \in Downloaders :
    dl'[d].key \notin S /\ dl'[d].pc \in {"retry"} \cup Reconcilers => dl'[d] = dl[d]

LEMMA OthersKeepCustody ==
    ASSUME TypeInv, TypeInv', Custody, NEW S \in SUBSET Keys,
           RowsKept(S), JobsKept(S), InspectorsKept(S), WorkersKept(S)
    PROVE  \A h \in Keys \ S : CustodyAt(h)'
<1> SUFFICES ASSUME NEW h \in Keys \ S PROVE CustodyAt(h)'
  OBVIOUS
<1>1. rec'[h] = rec[h] /\ calls'[h] = calls[h] /\ inspQ'[h] =< inspQ[h]
  BY DEF RowsKept
<1>2. CustodyAt(h)
  BY DEF Custody
<1>3. \A d \in Downloaders, r \in Rows : KeyOf[r] = h /\ Carrying(d, r)' =>
        job'[d][r] = job[d][r] /\ Carrying(d, r)
  BY DEF JobsKept, Carrying
<1>4. \A i \in Inspectors : insp'[i].key = h /\ Busy(i)' =>
        insp'[i] = insp[i] /\ insp[i].key = h /\ Busy(i)
  BY DEF InspectorsKept, Busy, Working, HandingOver
<1>5. RowAt(h)'
  BY <1>1, <1>2 DEF CustodyAt, RowAt
<1>6. JobsAt(h)'
  <2>1. JobsAt(h)
    BY <1>2 DEF CustodyAt
  <2> SUFFICES ASSUME NEW d \in Downloaders, NEW r \in Rows, KeyOf[r] = h, Carrying(d, r)'
               PROVE  /\ JobStatus(job'[d][r].pc, rec'[h].status)
                      /\ \A q \in Rows : KeyOf[q] = h /\ Carrying(d, q)' => q = r
                      /\ \A i \in Inspectors : insp'[i].key = h => ~Busy(i)'
    BY DEF JobsAt
  <2>2. job'[d][r] = job[d][r] /\ Carrying(d, r)
    BY <1>3
  <2>3. JobStatus(job'[d][r].pc, rec'[h].status)
    BY <2>1, <2>2, <1>1 DEF JobsAt
  <2>4. \A q \in Rows : KeyOf[q] = h /\ Carrying(d, q)' => q = r
    BY <2>1, <2>2, <1>3 DEF JobsAt
  <2>5. \A i \in Inspectors : insp'[i].key = h => ~Busy(i)'
    BY <2>1, <2>2, <1>4 DEF JobsAt
  <2> QED BY <2>3, <2>4, <2>5
<1>7. InspectorsAt(h)'
  <2>1. InspectorsAt(h)
    BY <1>2 DEF CustodyAt
  <2> SUFFICES ASSUME NEW i \in Inspectors, insp'[i].key = h
               PROVE  /\ InspectorGood(insp'[i], rec'[h])
                      /\ Busy(i)' => \A j \in Inspectors : insp'[j].key = h /\ Busy(j)' => j = i
    BY DEF InspectorsAt
  <2>2. CASE Busy(i)'
    BY <2>1, <2>2, <1>1, <1>4 DEF InspectorsAt
  <2>3. CASE ~Busy(i)'
    BY <2>3 DEF Busy, Working, HandingOver, InspectorGood
  <2> QED BY <2>2, <2>3
<1>8. QueueAt(h)'
  <2>1. QueueAt(h) /\ inspQ[h] \in Nat /\ inspQ'[h] \in Nat
    BY <1>2 DEF CustodyAt, TypeInv, InspQOK
  <2>2. inspQ'[h] =< 1 /\ (inspQ'[h] > 0 => inspQ[h] > 0)
    BY <1>1, <2>1 DEF QueueAt
  <2> QED BY <2>1, <2>2, <1>1, <1>3, <1>4 DEF QueueAt
<1>9. WorkersAt(h)'
  <2>1. WorkersAt(h)
    BY <1>2 DEF CustodyAt
  <2> SUFFICES ASSUME NEW d \in Downloaders, dl'[d].key = h
               PROVE  WorkerGood(dl'[d], rec'[h])
    BY DEF WorkersAt
  <2>2. CASE dl'[d].pc \in {"retry"} \cup Reconcilers
    BY <2>1, <2>2, <1>1 DEF WorkersKept, WorkersAt
  <2>3. CASE dl'[d].pc \notin {"retry"} \cup Reconcilers
    BY <2>3 DEF WorkerGood
  <2> QED BY <2>2, <2>3
<1> QED BY <1>5, <1>6, <1>7, <1>8, <1>9 DEF CustodyAt

\* Records are only put down, or nothing happens to them.
LEMMA CustodyFrame ==
    ASSUME TypeInv, TypeInv', Custody, JobsInPlace',
           RowsKept({}), JobsKept({}), InspectorsKept({}), WorkersKept({})
    PROVE  Custody'
<1>1. \A h \in Keys \ {} : CustodyAt(h)'
  BY OthersKeepCustody
<1> QED BY <1>1 DEF Custody

LEMMA OneKeyStep ==
    ASSUME TypeInv, TypeInv', Custody, JobsInPlace', NEW k \in Keys,
           RowsKept({k}), JobsKept({k}), InspectorsKept({k}), WorkersKept({k}),
           CustodyAt(k)'
    PROVE  Custody'
<1>1. \A h \in Keys \ {k} : CustodyAt(h)'
  BY OthersKeepCustody
<1> QED BY <1>1 DEF Custody

\* What is not changed is kept.
LEMMA KeptByNoChange ==
    ASSUME TypeInv, TypeInv', NEW S
    PROVE  /\ UNCHANGED << rec, calls, inspQ >> => RowsKept(S)
           /\ UNCHANGED job => JobsKept(S)
           /\ UNCHANGED insp => InspectorsKept(S)
           /\ UNCHANGED dl => WorkersKept(S)
           /\ UNCHANGED << dl, job >> /\ JobsInPlace => JobsInPlace'
<1>1. inspQ \in [Keys -> Nat]
  BY DEF TypeInv, InspQOK
<1> QED BY <1>1 DEF RowsKept, JobsKept, InspectorsKept, WorkersKept, JobsInPlace

-----------------------------------------------------------------------------
(* The jobs of the download worker                                         *)

CarryingPCs == {"transfer", "stored", "publish", "handoff", "dispatch", "mark"}

LEMMA JobAfter ==
    ASSUME TypeInv, NEW d \in Downloaders, NEW r \in Rows, NEW j,
           job' = [job EXCEPT ![d][r] = j]
    PROVE  /\ job'[d][r] = j
           /\ \A q \in Rows : q # r => job'[d][q] = job[d][q]
           /\ \A c \in Downloaders : c # d => job'[c] = job[c]
BY DEF TypeInv, JobOK

\* The worker of a job in progress is at its rows or at its retry.
LEMMA WorkerOfJob ==
    ASSUME TypeInv, Custody, NEW d \in Downloaders, NEW r \in Rows,
           job[d][r].pc \notin {"none", "done", "raised"}
    PROVE  dl[d].pc \in {"rows", "retrying"}
<1>1. NoJobs[r].pc = "none"
  BY DEF NoJobs, NoJob
<1> QED BY <1>1 DEF Custody, JobsInPlace

LEMMA JobStaysInPlace ==
    ASSUME TypeInv, Custody, NEW d \in Downloaders, NEW r \in Rows,
           job[d][r].pc \notin {"none", "done", "raised"}, NEW j,
           job' = [job EXCEPT ![d][r] = j], UNCHANGED dl
    PROVE  JobsInPlace' /\ \A S : WorkersKept(S)
<1>1. dl[d].pc \in {"rows", "retrying"}
  BY WorkerOfJob
<1>2. \A c \in Downloaders : c # d => job'[c] = job[c]
  BY JobAfter
<1> QED BY <1>1, <1>2 DEF Custody, JobsInPlace, WorkersKept

\* Nobody else works from a copy of the record a job has in hand.
LEMMA NoCopyOfCarried ==
    ASSUME RecordsApart, TypeInv, Custody, NEW d \in Downloaders, NEW r \in Rows,
           Carrying(d, r), UNCHANGED dl
    PROVE  WorkersAt(KeyOf[r])'
<1>1. dl[d].pc \in {"rows", "retrying"} /\ KeyOf[r] \in Keys
  BY WorkerOfJob, KeyOfType DEF Carrying
<1>2. Holds(d, KeyOf[r])
  BY DEF Holds
<1>3. ASSUME NEW c \in Downloaders, dl[c].key = KeyOf[r] PROVE dl[c].pc \notin {"retry"} \cup Reconcilers
  BY <1>1, <1>2, <1>3 DEF Holds, RecordsApart, Reconcilers
<1> QED BY <1>3 DEF WorkersAt, WorkerGood

\* The job that has a record in hand is the only one.
LEMMA LoneCarrier ==
    ASSUME RecordsApart, Custody, NEW d \in Downloaders, NEW r \in Rows, Carrying(d, r),
           NEW c \in Downloaders, NEW q \in Rows, Carrying(c, q), KeyOf[q] = KeyOf[r]
    PROVE  c = d /\ q = r
<1>1. PICK k \in Keys : k = KeyOf[r]
  BY KeyOfType
<1>2. c = d
  BY <1>1 DEF Holds, RecordsApart
<1>3. JobsAt(k)
  BY <1>1 DEF Custody, CustodyAt
<1> QED BY <1>1, <1>2, <1>3 DEF JobsAt

\* A job that does not carry its record is free to take any step.
LEMMA EmptyHandStep ==
    ASSUME TypeInv, TypeInv', Custody, NEW d \in Downloaders, NEW r \in Rows,
           job[d][r].pc \notin {"none", "done", "raised"}, NEW j,
           job' = [job EXCEPT ![d][r] = j], j.pc \notin CarryingPCs,
           UNCHANGED << rec, calls, inspQ, insp, dl >>
    PROVE  Custody'
<1>1. JobsKept({})
  BY JobAfter DEF JobsKept, Carrying, CarryingPCs
<1>2. JobsInPlace' /\ WorkersKept({})
  BY JobStaysInPlace
<1> QED BY <1>1, <1>2, KeptByNoChange, CustodyFrame

\* The step of a job that has its record in hand.
LEMMA JobHandStep ==
    ASSUME RecordsApart, TypeInv, TypeInv', Custody, NEW d \in Downloaders, NEW r \in Rows,
           Carrying(d, r), NEW j, job' = [job EXCEPT ![d][r] = j],
           UNCHANGED << insp, dl >>, RowsKept({KeyOf[r]}), RowAt(KeyOf[r])',
           JobStatus(j.pc, rec'[KeyOf[r]].status),
           \/ inspQ'[KeyOf[r]] = inspQ[KeyOf[r]]
           \/ /\ inspQ'[KeyOf[r]] = inspQ[KeyOf[r]] + 1
              /\ rec'[KeyOf[r]].status = "quarantined" /\ j.pc \notin CarryingPCs
    PROVE  Custody'
<1> DEFINE k == KeyOf[r]
<1>1. k \in Keys
  BY KeyOfType
<1>2. CustodyAt(k)
  BY <1>1 DEF Custody
<1>0. job'[d][r] = j
  BY DEF TypeInv, JobOK
<1>3. JobsKept({k})
  <2> SUFFICES ASSUME NEW c \in Downloaders, NEW q \in Rows, KeyOf[q] # k
               PROVE  job'[c][q] = job[c][q]
    BY DEF JobsKept
  <2> QED BY JobAfter
<1>4. InspectorsKept({k})
  BY KeptByNoChange
<1>5. JobsInPlace' /\ WorkersKept({k}) /\ WorkersAt(k)'
  BY JobStaysInPlace, NoCopyOfCarried DEF Carrying
<1>6. \A i \in Inspectors : insp[i].key = k => ~Busy(i)
  BY <1>2 DEF CustodyAt, JobsAt
<1>7. \A c \in Downloaders, q \in Rows : KeyOf[q] = k /\ Carrying(c, q)' =>
        c = d /\ q = r /\ j.pc \in CarryingPCs
  <2> SUFFICES ASSUME NEW c \in Downloaders, NEW q \in Rows, KeyOf[q] = k, Carrying(c, q)'
               PROVE  c = d /\ q = r /\ j.pc \in CarryingPCs
    OBVIOUS
  <2>1. c = d
    <3>1. CASE c # d
      <4>1. Carrying(c, q)
        BY <3>1, JobAfter DEF Carrying
      <4> QED BY <1>1, <4>1 DEF RecordsApart, Holds
    <3> QED BY <3>1
  <2>2. q = r
    BY <2>1, <1>2, JobAfter DEF CustodyAt, JobsAt, Carrying
  <2> QED BY <2>1, <2>2, <1>0 DEF Carrying, CarryingPCs
<1>8. JobsAt(k)'
  <2> SUFFICES ASSUME NEW c \in Downloaders, NEW q \in Rows, KeyOf[q] = k, Carrying(c, q)'
               PROVE  /\ JobStatus(job'[c][q].pc, rec'[k].status)
                      /\ \A p \in Rows : KeyOf[p] = k /\ Carrying(c, p)' => p = q
                      /\ \A i \in Inspectors : insp'[i].key = k => ~Busy(i)'
    BY DEF JobsAt
  <2>1. c = d /\ q = r /\ job'[d][r] = j
    BY <1>0, <1>7
  <2>2. \A i \in Inspectors : insp'[i].key = k => ~Busy(i)'
    BY <1>6 DEF Busy, Working, HandingOver
  <2> HIDE DEF k
  <2> QED BY <2>1, <2>2, <1>7 DEF k
<1>9. InspectorsAt(k)'
  BY <1>6 DEF InspectorsAt, InspectorGood, Busy, Working, HandingOver
<1>10. QueueAt(k)'
  <2>1. inspQ[k] = 0
    BY <1>1, <1>2 DEF CustodyAt, QueueAt, TypeInv, InspQOK
  <2> QED BY <2>1, <1>6, <1>7 DEF QueueAt, Busy, Working, HandingOver
<1> QED BY <1>1, <1>3, <1>4, <1>5, <1>8, <1>9, <1>10, OneKeyStep DEF CustodyAt

\* A record nobody has in hand.
Free(k) ==
    /\ inspQ[k] = 0
    /\ \A d \in Downloaders, r \in Rows : KeyOf[r] = k => ~Carrying(d, r)
    /\ \A i \in Inspectors : insp[i].key = k => ~Busy(i)

\* A record is free in every state but those in which somebody works on it.
LEMMA FreeByStatus ==
    ASSUME TypeInv, Custody, NEW k \in Keys,
           \/ rec[k].status \in {"rejected", "failed", "retry_scheduled"}
           \/ rec[k].status = "absent" /\ ~BeingInserted(k)
    PROVE  Free(k)
<1>1. CustodyAt(k)
  BY DEF Custody
<1>2. inspQ[k] = 0
  BY <1>1 DEF CustodyAt, QueueAt, TypeInv, InspQOK
<1>3. ASSUME NEW d \in Downloaders, NEW r \in Rows, KeyOf[r] = k PROVE ~Carrying(d, r)
  BY <1>1, <1>3 DEF CustodyAt, JobsAt, JobStatus, Carrying, BeingInserted
<1>4. ASSUME NEW i \in Inspectors, insp[i].key = k PROVE ~Busy(i)
  BY <1>1, <1>4 DEF CustodyAt, InspectorsAt, InspectorGood, Busy, Working, HandingOver
<1> QED BY <1>2, <1>3, <1>4 DEF Free

\* A job takes up a free record.
LEMMA TakeUpStep ==
    ASSUME TypeInv, NEW d \in Downloaders, NEW r \in Rows,
           Free(KeyOf[r]), NEW j, job' = [job EXCEPT ![d][r] = j],
           UNCHANGED << insp, inspQ >>, JobStatus(j.pc, rec'[KeyOf[r]].status)
    PROVE  /\ JobsAt(KeyOf[r])' /\ InspectorsAt(KeyOf[r])' /\ QueueAt(KeyOf[r])'
           /\ JobsKept({KeyOf[r]})
<1> DEFINE k == KeyOf[r]
<1>0. job'[d][r] = j
  BY DEF TypeInv, JobOK
<1>1. JobsKept({k})
  <2> SUFFICES ASSUME NEW c \in Downloaders, NEW q \in Rows, KeyOf[q] # k
               PROVE  job'[c][q] = job[c][q]
    BY DEF JobsKept
  <2> QED BY JobAfter
<1>2. \A i \in Inspectors : insp'[i].key = k => ~Busy(i)'
  BY DEF Free, Busy, Working, HandingOver
<1>3. \A c \in Downloaders, q \in Rows : KeyOf[q] = k /\ Carrying(c, q)' => c = d /\ q = r
  <2> SUFFICES ASSUME NEW c \in Downloaders, NEW q \in Rows, KeyOf[q] = k, Carrying(c, q)',
                      c # d \/ q # r
               PROVE  FALSE
    OBVIOUS
  <2> QED BY JobAfter DEF Free, Carrying
<1>4. JobsAt(k)'
  <2> SUFFICES ASSUME NEW c \in Downloaders, NEW q \in Rows, KeyOf[q] = k, Carrying(c, q)'
               PROVE  /\ JobStatus(job'[c][q].pc, rec'[k].status)
                      /\ \A p \in Rows : KeyOf[p] = k /\ Carrying(c, p)' => p = q
                      /\ \A i \in Inspectors : insp'[i].key = k => ~Busy(i)'
    BY DEF JobsAt
  <2>1. c = d /\ q = r
    BY <1>3
  <2> HIDE DEF k
  <2> QED BY <2>1, <1>0, <1>2, <1>3 DEF k
<1>5. InspectorsAt(k)'
  BY <1>2 DEF InspectorsAt, InspectorGood, Busy, Working, HandingOver
<1>6. QueueAt(k)'
  BY DEF QueueAt, Free
<1> QED BY <1>1, <1>4, <1>5, <1>6

\* The columns that nobody's work depends on may change at any time.
LEMMA RowTouchStep ==
    ASSUME TypeInv, TypeInv', Custody, JobsInPlace', NEW k \in Keys,
           JobsKept({}), InspectorsKept({}), WorkersKept({}), UNCHANGED << calls, inspQ >>,
           \A h \in Keys \ {k} : rec'[h] = rec[h],
           rec'[k].status = rec[k].status, rec'[k].spath = rec[k].spath,
           rec[k].status = "submitted" \/ SameRow(rec[k], rec'[k]),
           RowAt(k)'
    PROVE  Custody'
<1>0. CustodyAt(k)
  BY DEF Custody
<1>1. RowsKept({k}) /\ JobsKept({k}) /\ InspectorsKept({k}) /\ WorkersKept({k})
  BY DEF TypeInv, InspQOK, RowsKept, JobsKept, InspectorsKept, WorkersKept
<1>3. \A d \in Downloaders, r \in Rows : KeyOf[r] = k /\ Carrying(d, r)' =>
        job'[d][r] = job[d][r] /\ Carrying(d, r)
  BY DEF JobsKept, Carrying
<1>4. \A i \in Inspectors : insp'[i].key = k /\ Busy(i)' =>
        insp'[i] = insp[i] /\ insp[i].key = k /\ Busy(i)
  BY DEF InspectorsKept, Busy, Working, HandingOver
<1>5. JobsAt(k)'
  <2>1. JobsAt(k)
    BY <1>0 DEF CustodyAt
  <2> SUFFICES ASSUME NEW d \in Downloaders, NEW r \in Rows, KeyOf[r] = k, Carrying(d, r)'
               PROVE  /\ JobStatus(job'[d][r].pc, rec'[k].status)
                      /\ \A q \in Rows : KeyOf[q] = k /\ Carrying(d, q)' => q = r
                      /\ \A i \in Inspectors : insp'[i].key = k => ~Busy(i)'
    BY DEF JobsAt
  <2>2. job'[d][r] = job[d][r] /\ Carrying(d, r)
    BY <1>3
  <2>3. JobStatus(job'[d][r].pc, rec'[k].status)
    BY <2>1, <2>2 DEF JobsAt
  <2> QED BY <2>1, <2>2, <2>3, <1>3, <1>4 DEF JobsAt
<1>6. InspectorsAt(k)'
  <2>1. InspectorsAt(k)
    BY <1>0 DEF CustodyAt
  <2> SUFFICES ASSUME NEW i \in Inspectors, insp'[i].key = k
               PROVE  /\ InspectorGood(insp'[i], rec'[k])
                      /\ Busy(i)' => \A j \in Inspectors : insp'[j].key = k /\ Busy(j)' => j = i
    BY DEF InspectorsAt
  <2>2. CASE Busy(i)'
    <3>1. InspectorGood(insp[i], rec[k]) /\ insp'[i] = insp[i]
      BY <2>1, <2>2, <1>4 DEF InspectorsAt
    <3>2. InspectorGood(insp'[i], rec'[k])
      BY <3>1 DEF InspectorGood, SameRow
    <3> QED BY <2>1, <2>2, <3>2, <1>4 DEF InspectorsAt
  <2>3. CASE ~Busy(i)'
    BY <2>3 DEF Busy, Working, HandingOver, InspectorGood
  <2> QED BY <2>2, <2>3
<1>7. QueueAt(k)'
  BY <1>0, <1>3, <1>4 DEF CustodyAt, QueueAt
<1>8. WorkersAt(k)'
  <2>1. WorkersAt(k)
    BY <1>0 DEF CustodyAt
  <2> SUFFICES ASSUME NEW d \in Downloaders, dl'[d].key = k
               PROVE  WorkerGood(dl'[d], rec'[k])
    BY DEF WorkersAt
  <2>2. CASE dl'[d].pc \in {"retry"} \cup Reconcilers
    <3>1. WorkerGood(dl'[d], rec[k])
      BY <2>1, <2>2 DEF WorkersKept, WorkersAt
    <3> QED BY <3>1 DEF WorkerGood, SameRow
  <2>3. CASE dl'[d].pc \notin {"retry"} \cup Reconcilers
    BY <2>3 DEF WorkerGood
  <2> QED BY <2>2, <2>3
<1> QED BY <1>1, <1>5, <1>6, <1>7, <1>8, OneKeyStep DEF CustodyAt

LEMMA JobShapes ==
    ASSUME TypeInv, NEW d \in Downloaders, NEW r \in Rows
    PROVE  /\ \A out : JobDone(d, r, out) =>
                \E j : job' = [job EXCEPT ![d][r] = j] /\ j.pc = "done"
           /\ \A pc : JobTo(d, r, pc) =>
                \E j : job' = [job EXCEPT ![d][r] = j] /\ j.pc = pc /\ j.path = job[d][r].path
           /\ StartTransfer(d, r) =>
                \E j : /\ job' = [job EXCEPT ![d][r] = j] /\ j.pc = "transfer"
                       /\ j.path = UniqueDestination("quarantine", BaseOf[KeyOf[r]], <<>>, KeyOf[r])
<1>1. ASSUME NEW out, JobDone(d, r, out)
      PROVE  \E j : job' = [job EXCEPT ![d][r] = j] /\ j.pc = "done"
  <2>1. [NoJob EXCEPT !.pc = "done", !.out = out].pc = "done"
    BY DEF NoJob
  <2> QED BY <1>1, <2>1 DEF JobDone
<1>2. ASSUME NEW pc, JobTo(d, r, pc)
      PROVE  \E j : job' = [job EXCEPT ![d][r] = j] /\ j.pc = pc /\ j.path = job[d][r].path
  <2>1. job[d][r] \in Jobs
    BY DEF TypeInv, JobOK, GoodJobs
  <2>2. [job[d][r] EXCEPT !.pc = pc].pc = pc /\ [job[d][r] EXCEPT !.pc = pc].path = job[d][r].path
    BY <2>1 DEF Jobs
  <2>3. job' = [job EXCEPT ![d][r] = [job[d][r] EXCEPT !.pc = pc]]
    BY <1>2 DEF JobTo, TypeInv, JobOK
  <2> QED BY <2>2, <2>3
<1>3. ASSUME StartTransfer(d, r)
      PROVE  \E j : /\ job' = [job EXCEPT ![d][r] = j] /\ j.pc = "transfer"
                    /\ j.path = UniqueDestination("quarantine", BaseOf[KeyOf[r]], <<>>, KeyOf[r])
  <2> DEFINE p == UniqueDestination("quarantine", BaseOf[KeyOf[r]], <<>>, KeyOf[r])
  <2>1. /\ [NoJob EXCEPT !.pc = "transfer", !.path = p].pc = "transfer"
        /\ [NoJob EXCEPT !.pc = "transfer", !.path = p].path = p
    BY DEF NoJob
  <2> QED BY <1>3, <2>1 DEF StartTransfer
<1> QED BY <1>1, <1>2, <1>3

LEMMA CarriedStatus ==
    ASSUME TypeInv, Custody, NEW d \in Downloaders, NEW r \in Rows, Carrying(d, r)
    PROVE  /\ JobStatus(job[d][r].pc, rec[KeyOf[r]].status)
           /\ RowGood(KeyOf[r], rec[KeyOf[r]], calls[KeyOf[r]])
           /\ rec[KeyOf[r]] \in Records /\ KeyOf[r] \in Keys
<1>1. KeyOf[r] \in Keys
  BY KeyOfType
<1>2. CustodyAt(KeyOf[r])
  BY <1>1 DEF Custody
<1> QED BY <1>1, <1>2 DEF CustodyAt, JobsAt, RowAt, TypeInv, RecOK

LEMMA RecAfter ==
    ASSUME TypeInv, NEW k \in Keys, NEW new, rec' = [rec EXCEPT ![k] = new],
           UNCHANGED calls, \A h \in Keys \ {k} : inspQ'[h] = inspQ[h]
    PROVE  rec'[k] = new /\ RowsKept({k})
BY DEF TypeInv, RecOK, InspQOK, RowsKept

\* A record whose claim is not committed yet has the columns of a new one.
LEMMA LoadedGood ==
    ASSUME TypeInv, Custody, NEW d \in Downloaders, NEW r \in Rows,
           job[d][r].pc \in {"transfer", "stored"}
    PROVE  /\ RowGood(KeyOf[r], Loaded(d, r), calls[KeyOf[r]])
           /\ Loaded(d, r).status = "downloading" /\ Loaded(d, r) \in Records
<1>1. /\ RowGood(KeyOf[r], rec[KeyOf[r]], calls[KeyOf[r]])
      /\ rec[KeyOf[r]].status \in {"absent", "downloading"}
  BY CarriedStatus DEF Carrying, JobStatus
<1>2. Loaded(d, r) \in Records
  BY LoadedType
<1>3. CASE rec[KeyOf[r]].status = "absent"
  <2>1. Len(calls[KeyOf[r]]) = 0
    BY <1>1, <1>3 DEF RowGood, NoRecord
  <2> QED BY <2>1, <1>2, <1>3, FirstRecordGood DEF Loaded
<1>4. CASE rec[KeyOf[r]].status = "downloading"
  BY <1>1, <1>2, <1>4 DEF Loaded
<1> QED BY <1>1, <1>3, <1>4

LEMMA FailJobStep ==
    ASSUME RecordsApart, TypeInv, TypeInv', Custody, NEW d \in Downloaders, NEW r \in Rows,
           Carrying(d, r), NEW old \in Records, NEW category,
           RowGood(KeyOf[r], old, calls[KeyOf[r]]), old.status # "absent",
           FailJob(d, r, old, category), UNCHANGED << calls, inspQ, insp, dl >>
    PROVE  Custody'
<1>1. PICK j : job' = [job EXCEPT ![d][r] = j] /\ j.pc \in {"reschedule", "done"}
  BY JobShapes DEF FailJob
<1>2. JobStatus(j.pc, rec'[KeyOf[r]].status)
  BY <1>1 DEF JobStatus
<1>3. rec'[KeyOf[r]] = ApplyFailurePolicy(old, category) /\ RowsKept({KeyOf[r]})
  BY RecAfter, KeyOfType DEF FailJob
<1>4. RowGood(KeyOf[r], ApplyFailurePolicy(old, category), calls[KeyOf[r]])
  BY EditsKeepGood
<1>5. RowAt(KeyOf[r])'
  BY <1>3, <1>4 DEF RowAt
<1> QED BY <1>1, <1>2, <1>3, <1>5, JobHandStep

LEMMA JobsKeepCustody ==
    ASSUME RecordsApart, TypeInv, TypeInv', Custody,
           NEW d \in Downloaders, NEW r \in Rows, JobStep(d, r)
    PROVE  Custody'
<1> DEFINE k == KeyOf[r]
<1>k. k \in Keys
  BY KeyOfType
<1>q. \A h : h # k => inspQ'[h] = inspQ[h] \/ h \notin Keys
  BY <1>k DEF JobStep, MappingFails, ClaimExisting, ClaimNew, StoreDownload, CommitDownload,
         DownloadFails, PublishInspection, PublishInspectionFails, PublishRetry,
         PublishRetryFails, RetryHandoff, RetryHandoffConflicts, RetryDispatch,
         RetryDispatchFails, RetryMarkSubmitted, tables, queues, Publish, TypeInv, InspQOK
<1>1. ASSUME MappingFails(d, r) PROVE Custody'
  <2>1. PICK j : job' = [job EXCEPT ![d][r] = j] /\ j.pc = "done"
    BY <1>1, JobShapes DEF MappingFails
  <2> QED BY <2>1, <1>1, EmptyHandStep DEF MappingFails, JobAt, tables, queues, CarryingPCs
<1>2. ASSUME ClaimExisting(d, r) PROVE Custody'
  <2>1. PICK j : job' = [job EXCEPT ![d][r] = j] /\ j.pc = "done"
    BY <1>2, JobShapes DEF ClaimExisting
  <2>2. CASE rec[k].status # "submitted"
    <3>1. UNCHANGED << rec, calls, inspQ, insp, dl >>
      BY <1>2, <2>2 DEF ClaimExisting, queues
    <3> QED BY <2>1, <3>1, <1>2, EmptyHandStep DEF ClaimExisting, JobAt, CarryingPCs
  <2>3. CASE rec[k].status = "submitted"
    <3>1. rec[k] \in Records /\ RowAt(k)
      BY <1>k DEF TypeInv, RecOK, Custody, CustodyAt
    <3> DEFINE n == rec[k].attempts + 1
    <3>2. rec' = [rec EXCEPT ![k] = [rec[k] EXCEPT !.attempts = n]]
      BY <1>2, <2>3 DEF ClaimExisting, TypeInv, RecOK
    <3> HIDE DEF n
    <3>3. rec'[k] = [rec[k] EXCEPT !.attempts = n] /\ \A h \in Keys \ {k} : rec'[h] = rec[h]
      BY <1>k, <3>2 DEF TypeInv, RecOK
    <3>4. rec'[k].status = rec[k].status /\ rec'[k].spath = rec[k].spath
      BY <3>1, <3>3 DEF Records
    <3>5. UNCHANGED << calls, inspQ, insp, dl >>
      BY <1>2 DEF ClaimExisting, queues
    <3>a. RowGood(k, [rec[k] EXCEPT !.attempts = n], calls[k])
      BY <2>3, <3>1, EditsKeepGood DEF RowAt
    <3>6. RowAt(k)'
      BY <3>a, <3>3, <3>5 DEF RowAt
    <3>7. JobsInPlace' /\ WorkersKept({})
      BY <1>2, <2>1, <3>5, JobStaysInPlace DEF ClaimExisting, JobAt
    <3>8. JobsKept({})
      BY <2>1, JobAfter DEF JobsKept, Carrying
    <3>9. InspectorsKept({})
      BY <3>5, KeptByNoChange
    <3> QED BY <1>k, <2>3, <3>3, <3>4, <3>5, <3>6, <3>7, <3>8, <3>9, RowTouchStep
  <2> QED BY <2>2, <2>3
<1>3. ASSUME ClaimNew(d, r) PROVE Custody'
  <2>1. Free(k)
    BY <1>3, <1>k, FreeByStatus DEF ClaimNew
  <2>2. PICK j : job' = [job EXCEPT ![d][r] = j] /\ j.pc = "transfer"
    BY <1>3, JobShapes DEF ClaimNew
  <2>3. UNCHANGED << rec, calls, inspQ, insp, dl >>
    BY <1>3 DEF ClaimNew, tables, queues
  <2>4. JobStatus(j.pc, rec'[k].status)
    BY <1>3, <2>2, <2>3 DEF ClaimNew, JobStatus
  <2>5. JobsAt(k)' /\ InspectorsAt(k)' /\ QueueAt(k)' /\ JobsKept({k})
    BY <2>1, <2>2, <2>3, <2>4, TakeUpStep
  <2>6. JobsInPlace' /\ WorkersKept({k}) /\ WorkersAt(k)'
    <3>1. JobsInPlace' /\ WorkersKept({k})
      BY <1>3, <2>2, <2>3, JobStaysInPlace DEF ClaimNew, JobAt
    <3>2. WorkersAt(k)'
      BY <1>k, <2>3 DEF Custody, CustodyAt, WorkersAt
    <3> QED BY <3>1, <3>2
  <2>7. RowAt(k)' /\ RowsKept({k}) /\ InspectorsKept({k})
    BY <1>k, <2>3, KeptByNoChange DEF Custody, CustodyAt, RowAt
  <2> QED BY <1>k, <2>5, <2>6, <2>7, OneKeyStep DEF CustodyAt
<1>c. ASSUME Carrying(d, r)
      PROVE  /\ JobStatus(job[d][r].pc, rec[k].status)
             /\ RowGood(k, rec[k], calls[k]) /\ rec[k] \in Records
  BY <1>c, CarriedStatus
<1>4. ASSUME StoreDownload(d, r) PROVE Custody'
  <2>1. PICK j : job' = [job EXCEPT ![d][r] = j] /\ j.pc = "stored"
    BY <1>4, JobShapes DEF StoreDownload
  <2>2. UNCHANGED << rec, calls, inspQ, insp, dl >>
    BY <1>4 DEF StoreDownload, tables, queues
  <2>3. Carrying(d, r) /\ JobStatus(j.pc, rec'[k].status) /\ RowAt(k)'
    BY <1>4, <1>c, <2>1, <2>2 DEF StoreDownload, JobAt, Carrying, JobStatus, RowAt
  <2> QED BY <2>1, <2>2, <2>3, JobHandStep, KeptByNoChange
<1>5. ASSUME CommitDownload(d, r) PROVE Custody'
  <2>1. PICK j : job' = [job EXCEPT ![d][r] = j] /\ j.pc = "publish"
    BY <1>5, JobShapes DEF CommitDownload
  <2>2. UNCHANGED << calls, inspQ, insp, dl >>
    BY <1>5 DEF CommitDownload, queues
  <2> DEFINE new == Quarantined(Loaded(d, r), job[d][r].path)
  <2>3. RowGood(k, new, calls[k]) /\ new.status = "quarantined"
    <3>1. /\ RowGood(k, Loaded(d, r), calls[k])
          /\ Loaded(d, r).status = "downloading" /\ Loaded(d, r) \in Records
      BY <1>5, LoadedGood DEF CommitDownload, JobAt
    <3>2. new.status = "quarantined"
      BY <3>1 DEF Quarantined, Records
    <3> QED BY <3>1, <3>2, EditsKeepGood
  <2>4. rec' = [rec EXCEPT ![k] = new]
    BY <1>5 DEF CommitDownload
  <2> HIDE DEF new
  <2>5. rec'[k] = new /\ RowsKept({k})
    BY <1>k, <2>2, <2>4, RecAfter
  <2>6. Carrying(d, r) /\ JobStatus(j.pc, rec'[k].status) /\ RowAt(k)'
    BY <1>5, <2>1, <2>2, <2>3, <2>5 DEF CommitDownload, JobAt, Carrying, JobStatus, RowAt
  <2> QED BY <2>1, <2>2, <2>5, <2>6, JobHandStep
<1>6. ASSUME DownloadFails(d, r) PROVE Custody'
  <2>1. /\ RowGood(k, Loaded(d, r), calls[k])
        /\ Loaded(d, r).status = "downloading" /\ Loaded(d, r) \in Records
        /\ Carrying(d, r)
    BY <1>6, LoadedGood DEF DownloadFails, JobAt, Carrying
  <2> QED BY <2>1, <1>6, FailJobStep DEF DownloadFails, queues
<1>7. ASSUME PublishInspection(d, r) PROVE Custody'
  <2>1. PICK j : job' = [job EXCEPT ![d][r] = j] /\ j.pc = "done"
    BY <1>7, JobShapes DEF PublishInspection
  <2>2. UNCHANGED << rec, calls, insp, dl >>
    BY <1>7 DEF PublishInspection, tables
  <2>3. inspQ'[k] = inspQ[k] + 1 /\ RowsKept({k})
    BY <1>7, <1>k, <2>2 DEF PublishInspection, Publish, TypeInv, InspQOK, RowsKept
  <2>4. /\ Carrying(d, r) /\ JobStatus(j.pc, rec'[k].status)
        /\ rec'[k].status = "quarantined" /\ RowAt(k)'
    BY <1>7, <1>c, <2>1, <2>2 DEF PublishInspection, JobAt, Carrying, JobStatus, RowAt
  <2> QED BY <2>1, <2>2, <2>3, <2>4, JobHandStep DEF CarryingPCs
<1>8. ASSUME PublishInspectionFails(d, r) PROVE Custody'
  <2>1. Carrying(d, r) /\ rec[k].status = "quarantined"
    BY <1>8, <1>c DEF PublishInspectionFails, JobAt, Carrying, JobStatus
  <2> QED BY <2>1, <1>8, <1>c, FailJobStep DEF PublishInspectionFails, queues
<1>9. ASSUME PublishRetry(d, r) PROVE Custody'
  <2>1. PICK j : job' = [job EXCEPT ![d][r] = j] /\ j.pc = "done"
    BY <1>9, JobShapes DEF PublishRetry
  <2> QED BY <2>1, <1>9, EmptyHandStep DEF PublishRetry, JobAt, tables, CarryingPCs
<1>10. ASSUME PublishRetryFails(d, r) PROVE Custody'
  <2>1. PICK j : job' = [job EXCEPT ![d][r] = j] /\ j.pc = "raised"
    BY <1>10, JobShapes DEF PublishRetryFails
  <2> QED BY <2>1, <1>10, EmptyHandStep DEF PublishRetryFails, JobAt, tables, queues, CarryingPCs
<1>11. ASSUME RetryHandoff(d, r) PROVE Custody'
  <2>1. PICK j : job' = [job EXCEPT ![d][r] = j] /\ j.pc = "dispatch"
    BY <1>11, JobShapes DEF RetryHandoff
  <2>2. UNCHANGED << calls, inspQ, insp, dl >>
    BY <1>11 DEF RetryHandoff, queues
  <2>3. Carrying(d, r) /\ rec[k].status = "accepted"
    BY <1>11, <1>c DEF RetryHandoff, JobAt, Carrying, JobStatus
  <2> DEFINE new == HandoffPending(rec[k], rec[k].call)
  <2>4. RowGood(k, new, calls[k]) /\ new.status = "handoff_pending"
    <3>1. rec[k].spath # None
      BY <2>3, <1>c DEF RowGood
    <3>2. new.status = "handoff_pending"
      BY <2>3, <1>c DEF HandoffPending, Records
    <3> QED BY <2>3, <3>1, <3>2, <1>c, EditsKeepGood
  <2>5. rec' = [rec EXCEPT ![k] = new]
    BY <1>11, <1>k DEF RetryHandoff, TypeInv, RecOK
  <2> HIDE DEF new
  <2>6. rec'[k] = new /\ RowsKept({k})
    BY <1>k, <2>2, <2>5, RecAfter
  <2>7. JobStatus(j.pc, rec'[k].status) /\ RowAt(k)'
    BY <2>1, <2>2, <2>4, <2>6 DEF JobStatus, RowAt
  <2> QED BY <2>1, <2>2, <2>3, <2>6, <2>7, JobHandStep
<1>12. ASSUME RetryHandoffConflicts(d, r) PROVE Custody'
  <2>1. UNCHANGED << rec, calls, inspQ, insp >>
    BY <1>12 DEF RetryHandoffConflicts, tables, queues
  <2>2. job'[d] = NoJobs /\ dl'[d] = IdleWorker
    BY <1>12 DEF RetryHandoffConflicts, TypeInv, JobOK, DlOK
  <2>o. \A c \in Downloaders : c # d => job'[c] = job[c] /\ dl'[c] = dl[c]
    BY <1>12 DEF RetryHandoffConflicts, TypeInv, JobOK, DlOK
  <2>3. JobsInPlace' /\ JobsKept({}) /\ WorkersKept({})
    BY <2>2, <2>o DEF Custody, JobsInPlace, JobsKept, WorkersKept, IdleWorker, NoJobs, NoJob,
                Carrying, Reconcilers
  <2> QED BY <2>1, <2>3, KeptByNoChange, CustodyFrame
<1>13. ASSUME RetryDispatch(d, r) PROVE Custody'
  <2>1. PICK j : job' = [job EXCEPT ![d][r] = j] /\ j.pc = "mark"
    BY <1>13, JobShapes DEF RetryDispatch
  <2>2. UNCHANGED << rec, calls, inspQ, insp, dl >>
    BY <1>13 DEF RetryDispatch, tables
  <2>3. Carrying(d, r) /\ JobStatus(j.pc, rec'[k].status) /\ RowAt(k)'
    BY <1>13, <1>c, <2>1, <2>2 DEF RetryDispatch, JobAt, Carrying, JobStatus, RowAt
  <2> QED BY <2>1, <2>2, <2>3, JobHandStep, KeptByNoChange
<1>14. ASSUME RetryDispatchFails(d, r) PROVE Custody'
  <2>1. Carrying(d, r) /\ rec[k].status = "handoff_pending"
    BY <1>14, <1>c DEF RetryDispatchFails, JobAt, Carrying, JobStatus
  <2> QED BY <2>1, <1>14, <1>c, FailJobStep DEF RetryDispatchFails, queues
<1>15. ASSUME RetryMarkSubmitted(d, r) PROVE Custody'
  <2>1. PICK j : job' = [job EXCEPT ![d][r] = j] /\ j.pc = "done"
    BY <1>15, JobShapes DEF RetryMarkSubmitted
  <2>2. UNCHANGED << calls, inspQ, insp, dl >>
    BY <1>15 DEF RetryMarkSubmitted, queues
  <2>3. Carrying(d, r) /\ rec[k].status = "handoff_pending"
    BY <1>15, <1>c DEF RetryMarkSubmitted, JobAt, Carrying, JobStatus
  <2>a. rec[k].spath # None
    BY <2>3, <1>c DEF RowGood
  <2>4. RowGood(k, Submitted(rec[k]), calls[k])
    BY <2>3, <2>a, <1>c, EditsKeepGood
  <2>5. rec' = [rec EXCEPT ![k] = Submitted(rec[k])]
    BY <1>15, <1>k DEF RetryMarkSubmitted, TypeInv, RecOK
  <2>6. rec'[k] = Submitted(rec[k]) /\ RowsKept({k})
    BY <1>k, <2>2, <2>5, RecAfter
  <2>7. JobStatus(j.pc, rec'[k].status) /\ RowAt(k)'
    BY <2>1, <2>2, <2>4, <2>6 DEF JobStatus, RowAt
  <2> QED BY <2>1, <2>2, <2>3, <2>6, <2>7, JobHandStep
<1> QED BY <1>1, <1>2, <1>3, <1>4, <1>5, <1>6, <1>7, <1>8, <1>9, <1>10, <1>11, <1>12,
           <1>13, <1>14, <1>15 DEF JobStep

-----------------------------------------------------------------------------
(* The inspectors                                                          *)

BusyPCs == {"loaded", "inspecting", "refused", "passed", "commit", "dispatch", "mark"}

LEMMA SameRowSymmetric ==
    ASSUME NEW a, NEW b, SameRow(a, b) PROVE SameRow(b, a)
BY DEF SameRow

LEMMA FlushKeepsGood ==
    ASSUME NEW k, NEW n, NEW a \in Records, NEW b \in Records, NEW c \in Records,
           SameRow(a, c), RowGood(k, b, n), b.status # "absent"
    PROVE  RowGood(k, Flush(a, b, c), n) /\ Flush(a, b, c).status = b.status
<1>1. SameRow(Flush(a, b, c), b)
  BY FlushOfFresh
<1>2. SameRow(b, Flush(a, b, c))
  BY <1>1, SameRowSymmetric
<1> QED BY <1>1, <1>2, SameRowKeepsGood DEF SameRow

LEMMA VerdictsKeepGood ==
    ASSUME NEW k, NEW c, NEW r \in Records, RowGood(k, r, c), r.status # "absent"
    PROVE  /\ RowGood(k, MarkFailed(r), c)
           /\ r.spath = None => \A p : RowGood(k, Rejected(r, p), c)
<1> USE DEF RowGood, Records
<1>1. RowGood(k, MarkFailed(r), c)
  BY DEF MarkFailed
<1>2. ASSUME r.spath = None, NEW p PROVE RowGood(k, Rejected(r, p), c)
  BY <1>2 DEF Rejected
<1> HIDE DEF RowGood, Records
<1> QED BY <1>1, <1>2

LEMMA EditOfVerdict ==
    ASSUME NEW old, NEW e \in Records, NEW pc \in {"inspecting", "refused", "passed"},
           EditGood(pc, old, e)
    PROVE  /\ EditGood("commit", old, MarkFailed(e))
           /\ \A p : EditGood("commit", old, Rejected(e, p))
           /\ \A x : EditGood("commit", old, ApplyFailurePolicy(e, x))
           /\ \A p : p # None => EditGood("commit", old, Accepted(e, p))
<1> USE DEF EditGood, Records
<1>1. EditGood("commit", old, MarkFailed(e))
  BY DEF MarkFailed
<1>2. ASSUME NEW p PROVE EditGood("commit", old, Rejected(e, p))
  BY DEF Rejected
<1>3. ASSUME NEW x PROVE EditGood("commit", old, ApplyFailurePolicy(e, x))
  BY DEF ApplyFailurePolicy
<1>4. ASSUME NEW p, p # None PROVE EditGood("commit", old, Accepted(e, p))
  BY <1>4 DEF Accepted
<1> HIDE DEF EditGood, Records
<1> QED BY <1>1, <1>2, <1>3, <1>4

\* The edit of a working inspector fits its row, unless it is an acceptance,
\* which the handoff completes.
LEMMA EditFitsRow ==
    ASSUME NEW k, NEW c, NEW r, NEW old, NEW e, NEW pc, RowGood(k, r, c),
           r.status = "quarantined", SameRow(old, r), EditGood(pc, old, e),
           e.status # "accepted"
    PROVE  RowGood(k, e, c) /\ e.status # "absent"
BY DEF RowGood, SameRow, EditGood

LEMMA InspectorAfter ==
    ASSUME TypeInv, NEW i \in Inspectors, NEW w, insp' = [insp EXCEPT ![i] = w]
    PROVE  insp'[i] = w /\ \A j \in Inspectors : j # i => insp'[j] = insp[j]
BY DEF TypeInv, InspOK

\* An inspector that has nothing in hand may take any step.
LEMMA InspectorPutsDown ==
    ASSUME TypeInv, TypeInv', Custody, NEW i \in Inspectors, NEW w,
           insp' = [insp EXCEPT ![i] = w], w.pc \notin BusyPCs,
           UNCHANGED << rec, calls, inspQ, job, dl >>
    PROVE  Custody'
<1>1. InspectorsKept({})
  BY InspectorAfter DEF InspectorsKept, Busy, Working, HandingOver, BusyPCs
<1> QED BY <1>1, KeptByNoChange, CustodyFrame DEF Custody

LEMMA BusyInspector ==
    ASSUME TypeInv, Custody, NEW i \in Inspectors, Busy(i)
    PROVE  /\ insp[i].key \in Keys /\ insp[i].key # None
           /\ rec[insp[i].key] \in Records
           /\ RowGood(insp[i].key, rec[insp[i].key], calls[insp[i].key])
           /\ InspectorGood(insp[i], rec[insp[i].key])
           /\ Working(i) => insp[i].loaded \in Records /\ insp[i].edit \in Records
<1>1. insp[i] \in GoodInspectors
  BY DEF TypeInv, InspOK
<1>2. insp[i].key \in Keys
  BY <1>1 DEF GoodInspectors, Busy, Working, HandingOver
<1>3. Working(i) => insp[i].loaded \in Records /\ insp[i].edit \in Records
  BY <1>1 DEF GoodInspectors, Working
<1>4. CustodyAt(insp[i].key)
  BY <1>2 DEF Custody
<1> QED BY <1>2, <1>3, <1>4, NoneIsNoValue DEF CustodyAt, RowAt, InspectorsAt, TypeInv, RecOK

LEMMA InspectorHandStep ==
    ASSUME TypeInv, TypeInv', Custody, NEW i \in Inspectors, Busy(i),
           NEW k \in Keys, k = insp[i].key, NEW w, insp' = [insp EXCEPT ![i] = w],
           w.pc \in BusyPCs => w.key = k,
           UNCHANGED << inspQ, job, dl >>, RowsKept({k}), RowAt(k)',
           InspectorGood(w, rec'[k]),
           Working(i) \/ (rec'[k].spath # None
                          /\ rec'[k].status \in
                               {"handoff_pending", "submitted", "accepted",
                                "retry_scheduled", "failed"})
    PROVE  Custody'
<1>1. InspectorGood(insp[i], rec[k])
  BY BusyInspector
<1>2. CustodyAt(k)
  BY <1>1 DEF Custody
<1>3. insp'[i] = w /\ \A j \in Inspectors : j # i => insp'[j] = insp[j]
  BY InspectorAfter
<1>4. Busy(i)' => w.pc \in BusyPCs
  BY <1>3 DEF Busy, Working, HandingOver, BusyPCs
<1>5. InspectorsKept({k})
  BY <1>3, <1>4 DEF InspectorsKept
<1>6. JobsKept({k}) /\ WorkersKept({k}) /\ JobsInPlace'
  BY KeptByNoChange DEF Custody
<1>7. \A d \in Downloaders, r \in Rows : KeyOf[r] = k => ~Carrying(d, r)
  BY <1>2 DEF CustodyAt, JobsAt
<1>8. JobsAt(k)'
  BY <1>7 DEF JobsAt, Carrying
<1>9. InspectorsAt(k)'
  <2>1. \A j \in Inspectors : insp[j].key = k /\ Busy(j) => j = i
    BY <1>2 DEF CustodyAt, InspectorsAt
  <2> SUFFICES ASSUME NEW j \in Inspectors, insp'[j].key = k
               PROVE  /\ InspectorGood(insp'[j], rec'[k])
                      /\ Busy(j)' => \A h \in Inspectors : insp'[h].key = k /\ Busy(h)' => h = j
    BY DEF InspectorsAt
  <2>2. \A h \in Inspectors : insp'[h].key = k /\ Busy(h)' => h = i
    BY <2>1, <1>3 DEF Busy, Working, HandingOver
  <2>3. InspectorGood(insp'[j], rec'[k])
    <3>1. CASE j = i
      BY <3>1, <1>3
    <3>2. CASE j # i
      <4>1. ~Busy(j)'
        BY <2>2, <3>2
      <4> QED BY <4>1 DEF InspectorGood, Busy, Working, HandingOver
    <3> QED BY <3>1, <3>2
  <2> QED BY <2>2, <2>3
<1>10. QueueAt(k)'
  <2>1. inspQ[k] = 0
    BY <1>1, <1>2 DEF CustodyAt, QueueAt, TypeInv, InspQOK
  <2> QED BY <2>1 DEF QueueAt
<1>11. WorkersAt(k)'
  <2> SUFFICES ASSUME NEW d \in Downloaders, dl[d].key = k
               PROVE  WorkerGood(dl[d], rec'[k])
    BY DEF WorkersAt
  <2>1. WorkerGood(dl[d], rec[k])
    BY <1>2 DEF CustodyAt, WorkersAt
  <2>2. dl[d].pc # "retry"
    BY <2>1, <1>1 DEF WorkerGood, InspectorGood, Busy, Working, HandingOver
  <2>3. dl[d].pc \in Reconcilers => ~Working(i)
    BY <2>1, <1>1 DEF WorkerGood, InspectorGood, Working
  <2> QED BY <2>1, <2>2, <2>3 DEF WorkerGood
<1> QED BY <1>1, <1>5, <1>6, <1>8, <1>9, <1>10, <1>11, OneKeyStep DEF CustodyAt

LEMMA InspectorShapes ==
    ASSUME TypeInv, NEW i \in Inspectors
    PROVE  /\ \A pc : InspectorTo(i, pc) =>
                \E w : /\ insp' = [insp EXCEPT ![i] = w] /\ w.pc = pc /\ w.key = insp[i].key
                       /\ w.loaded = insp[i].loaded /\ w.edit = insp[i].edit
           /\ \A e : Decide(i, e) =>
                \E w : /\ insp' = [insp EXCEPT ![i] = w] /\ w.pc = "commit"
                       /\ w.key = insp[i].key /\ w.loaded = insp[i].loaded /\ w.edit = e
<1>0. insp[i] \in InspectorStates /\ insp \in [Inspectors -> GoodInspectors]
  BY DEF TypeInv, InspOK, GoodInspectors
<1>1. ASSUME NEW pc, InspectorTo(i, pc)
      PROVE  \E w : /\ insp' = [insp EXCEPT ![i] = w] /\ w.pc = pc /\ w.key = insp[i].key
                    /\ w.loaded = insp[i].loaded /\ w.edit = insp[i].edit
  <2> DEFINE w == [insp[i] EXCEPT !.pc = pc]
  <2>1. /\ w.pc = pc /\ w.key = insp[i].key
        /\ w.loaded = insp[i].loaded /\ w.edit = insp[i].edit
    BY <1>0 DEF InspectorStates
  <2>2. insp' = [insp EXCEPT ![i] = w]
    BY <1>0, <1>1 DEF InspectorTo
  <2> QED BY <2>1, <2>2
<1>2. ASSUME NEW e, Decide(i, e)
      PROVE  \E w : /\ insp' = [insp EXCEPT ![i] = w] /\ w.pc = "commit"
                    /\ w.key = insp[i].key /\ w.loaded = insp[i].loaded /\ w.edit = e
  <2> DEFINE w == [insp[i] EXCEPT !.pc = "commit", !.edit = e]
  <2>1. /\ w.pc = "commit" /\ w.key = insp[i].key
        /\ w.loaded = insp[i].loaded /\ w.edit = e
    BY <1>0 DEF InspectorStates
  <2>2. insp' = [insp EXCEPT ![i] = w]
    BY <1>0, <1>2 DEF Decide
  <2> QED BY <2>1, <2>2
<1> QED BY <1>1, <1>2

LEMMA IdleWithKey ==
    ASSUME NEW k, NEW pc
    PROVE  /\ [IdleInspector EXCEPT !.key = k, !.pc = pc].pc = pc
           /\ [IdleInspector EXCEPT !.key = k, !.pc = pc].key = k
BY DEF IdleInspector

\* An inspector takes its message: the record is quarantined and in no hand.
LEMMA ReceivingKeepsCustody ==
    ASSUME TypeInv, TypeInv', Custody, NEW i \in Inspectors, ReceiveInspection(i)
    PROVE  Custody'
<1> PICK k \in Keys :
      /\ inspQ[k] > 0
      /\ inspQ' = [inspQ EXCEPT ![k] = @ - 1]
      /\ insp' = IF Enabled /\ rec[k].status = "quarantined"
                 THEN [insp EXCEPT ![i].pc = "loaded", ![i].key = k,
                                   ![i].loaded = rec[k], ![i].edit = rec[k]]
                 ELSE IF Enabled
                 THEN [insp EXCEPT ![i].pc = "finalize", ![i].key = k]
                 ELSE insp
  BY DEF ReceiveInspection
<1>0. UNCHANGED << rec, calls, job, dl >> /\ insp[i] = IdleInspector
  BY DEF ReceiveInspection, tables
<1>1. inspQ[k] \in Nat /\ inspQ'[k] = inspQ[k] - 1
  BY DEF TypeInv, InspQOK
<1>2. \A S : RowsKept(S)
  BY <1>0, <1>1 DEF TypeInv, InspQOK, RowsKept
<1>3. \A S \in SUBSET Keys : JobsKept(S) /\ WorkersKept(S) /\ JobsInPlace'
  BY <1>0, KeptByNoChange DEF Custody
<1>4. insp[i] \in InspectorStates /\ insp \in [Inspectors -> GoodInspectors]
  BY DEF TypeInv, InspOK, GoodInspectors
<1>5. CASE ~(Enabled /\ rec[k].status = "quarantined")
  <2>1. InspectorsKept({})
    <3>1. CASE insp' = insp
      BY <3>1 DEF InspectorsKept
    <3>2. CASE insp' = [insp EXCEPT ![i].pc = "finalize", ![i].key = k]
      <4>1. insp'[i].pc = "finalize" /\ \A j \in Inspectors : j # i => insp'[j] = insp[j]
        BY <3>2, <1>4 DEF InspectorStates
      <4> QED BY <4>1 DEF InspectorsKept, Busy, Working, HandingOver
    <3> QED BY <1>5, <3>1, <3>2
  <2> QED BY <2>1, <1>2, <1>3, CustodyFrame
<1>6. CASE Enabled /\ rec[k].status = "quarantined"
  <2>1. /\ insp'[i].pc = "loaded" /\ insp'[i].key = k
        /\ insp'[i].loaded = rec[k] /\ insp'[i].edit = rec[k]
        /\ \A j \in Inspectors : j # i => insp'[j] = insp[j]
    BY <1>4, <1>6 DEF InspectorStates
  <2>2. CustodyAt(k)
    BY DEF Custody
  <2>3. /\ \A d \in Downloaders, r \in Rows : KeyOf[r] = k => ~Carrying(d, r)
        /\ \A j \in Inspectors : insp[j].key = k => ~Busy(j)
    BY <2>2 DEF CustodyAt, QueueAt
  <2>4. InspectorsKept({k})
    BY <2>1 DEF InspectorsKept
  <2>5. RowAt(k)' /\ WorkersAt(k)'
    BY <1>0, <2>2 DEF CustodyAt, RowAt, WorkersAt
  <2>6. JobsAt(k)'
    BY <1>0, <2>3 DEF JobsAt, Carrying
  <2>7. QueueAt(k)'
    BY <1>1, <2>2 DEF CustodyAt, QueueAt
  <2>8. InspectorsAt(k)'
    <3>1. InspectorGood(insp'[i], rec'[k])
      <4>1. rec[k].spath = None
        BY <1>6, <2>2 DEF CustodyAt, RowAt, RowGood
      <4> QED BY <1>0, <1>6, <2>1, <4>1 DEF InspectorGood, EditGood, SameRow
    <3>2. \A j \in Inspectors : insp'[j].key = k /\ Busy(j)' => j = i
      BY <2>1, <2>3 DEF Busy, Working, HandingOver
    <3> SUFFICES ASSUME NEW j \in Inspectors, insp'[j].key = k
                 PROVE  /\ InspectorGood(insp'[j], rec'[k])
                        /\ Busy(j)' => \A h \in Inspectors : insp'[h].key = k /\ Busy(h)' => h = j
      BY DEF InspectorsAt
    <3>3. CASE j = i
      BY <3>1, <3>2, <3>3
    <3>4. CASE j # i
      <4>1. ~Busy(j)'
        BY <3>2, <3>4
      <4> QED BY <4>1 DEF InspectorGood, Busy, Working, HandingOver
    <3> QED BY <3>3, <3>4
  <2> QED BY <1>2, <1>3, <2>4, <2>5, <2>6, <2>7, <2>8, OneKeyStep DEF CustodyAt
<1> QED BY <1>5, <1>6

\* What a step about inspector i starts from.
LEMMA WorkingInspector ==
    ASSUME TypeInv, Custody, NEW i \in Inspectors, Working(i)
    PROVE  /\ insp[i].loaded \in Records /\ insp[i].edit \in Records
           /\ rec[insp[i].key] \in Records /\ insp[i].key \in Keys
           /\ rec[insp[i].key].status = "quarantined"
           /\ SameRow(insp[i].loaded, rec[insp[i].key])
           /\ EditGood(insp[i].pc, insp[i].loaded, insp[i].edit)
           /\ RowGood(insp[i].key, rec[insp[i].key], calls[insp[i].key])
           /\ RowGood(insp[i].key, insp[i].loaded, calls[insp[i].key])
           /\ insp[i].loaded.status = "quarantined" /\ insp[i].loaded.spath = None
<1>1. /\ Busy(i) /\ insp[i].loaded \in Records /\ insp[i].edit \in Records
      /\ rec[insp[i].key] \in Records /\ insp[i].key \in Keys
      /\ RowGood(insp[i].key, rec[insp[i].key], calls[insp[i].key])
      /\ InspectorGood(insp[i], rec[insp[i].key])
  BY BusyInspector DEF Busy
<1>2. /\ rec[insp[i].key].status = "quarantined"
      /\ SameRow(insp[i].loaded, rec[insp[i].key])
      /\ EditGood(insp[i].pc, insp[i].loaded, insp[i].edit)
  BY <1>1 DEF InspectorGood, Working
<1>3. SameRow(rec[insp[i].key], insp[i].loaded)
  BY <1>2, SameRowSymmetric
<1>4. RowGood(insp[i].key, insp[i].loaded, calls[insp[i].key])
  BY <1>1, <1>2, <1>3, SameRowKeepsGood
<1>5. insp[i].loaded.status = "quarantined" /\ insp[i].loaded.spath = None
  BY <1>1, <1>2 DEF RowGood, SameRow
<1> QED BY <1>1, <1>2, <1>4, <1>5

\* Work in the session: the row is not written.
LEMMA SessionStep ==
    ASSUME TypeInv, TypeInv', Custody, NEW i \in Inspectors, Working(i),
           NEW w, insp' = [insp EXCEPT ![i] = w],
           w.key = insp[i].key, w.loaded = insp[i].loaded,
           w.pc \in {"inspecting", "refused", "passed", "commit"},
           EditGood(w.pc, w.loaded, w.edit),
           UNCHANGED << rec, calls, inspQ, job, dl >>
    PROVE  Custody'
<1>1. PICK k \in Keys : k = insp[i].key
  BY WorkingInspector
<1>2. InspectorGood(w, rec'[k])
  BY <1>1, WorkingInspector DEF InspectorGood
<1>3. RowAt(k)' /\ RowsKept({k})
  BY <1>1, KeptByNoChange, WorkingInspector DEF RowAt
<1> QED BY <1>1, <1>2, <1>3, InspectorHandStep DEF Busy

\* The row is written and the inspector has nothing in hand any more.
LEMMA SettlingStep ==
    ASSUME TypeInv, TypeInv', Custody, NEW i \in Inspectors, Working(i),
           NEW w, insp' = [insp EXCEPT ![i] = w], w.pc \notin BusyPCs,
           NEW k \in Keys, k = insp[i].key,
           NEW b \in Records, RowGood(k, b, calls[k]), b.status # "absent",
           rec' = [rec EXCEPT ![k] = Flush(insp[i].loaded, b, rec[k])],
           UNCHANGED << calls, inspQ, job, dl >>
    PROVE  Custody'
<1> DEFINE new == Flush(insp[i].loaded, b, rec[k])
<1>1. RowGood(k, new, calls[k])
  BY WorkingInspector, FlushKeepsGood
<1> HIDE DEF new
<1>2. rec'[k] = new /\ RowsKept({k})
  BY RecAfter DEF new
<1>3. RowAt(k)'
  BY <1>1, <1>2 DEF RowAt
<1>4. InspectorGood(w, rec'[k])
  BY DEF InspectorGood, BusyPCs
<1> QED BY <1>2, <1>3, <1>4, InspectorHandStep DEF Busy

\* Acceptance: the row gets its Call with the stored file.
LEMMA AcceptedRow ==
    ASSUME NEW k, NEW c, NEW s \in Records, NEW old \in Records, NEW e \in Records,
           RowGood(k, s, c), s.status = "quarantined", SameRow(old, s),
           EditGood("commit", old, e), e.status = "accepted",
           NEW c2, Len(c2) = 1
    PROVE  /\ RowGood(k, Flush(old, HandoffPending(e, 1), s), c2)
           /\ Flush(old, HandoffPending(e, 1), s).status = "handoff_pending"
<1> DEFINE b == HandoffPending(e, 1)
<1>1. b \in Records
  BY RecordStepTypes
<1>2. /\ b.status = "handoff_pending" /\ b.call = 1 /\ b.row = e.row
      /\ b.spath = e.spath /\ b.qpath = e.qpath /\ b.checks = e.checks
  BY DEF HandoffPending, Records
<1>3. RowGood(k, b, c2)
  BY <1>2 DEF RowGood, EditGood, SameRow
<1> HIDE DEF b
<1>5. b.status # "absent"
  BY <1>2
<1>4. RowGood(k, Flush(old, b, s), c2) /\ Flush(old, b, s).status = b.status
  BY <1>1, <1>3, <1>5, FlushKeepsGood
<1> QED BY <1>2, <1>4 DEF b

LEMMA HandoffCommitKeepsCustody ==
    ASSUME TypeInv, TypeInv', Custody, NEW i \in Inspectors, CommitHandoff(i)
    PROVE  Custody'
<1>1. insp[i].pc = "commit" /\ insp[i].edit.status = "accepted" /\ Working(i)
  BY DEF CommitHandoff, InspectorAt, Working
<1>2. PICK k \in Keys : k = insp[i].key
  BY <1>1, WorkingInspector
<1>3. UNCHANGED << inspQ, job, dl >>
  BY DEF CommitHandoff, queues
<1>4. CASE UNCHANGED << rec, calls >> /\ insp' = [insp EXCEPT ![i] = IdleInspector]
  BY <1>3, <1>4, InspectorPutsDown DEF IdleInspector, BusyPCs
<1>5. CASE ~(UNCHANGED << rec, calls >> /\ insp' = [insp EXCEPT ![i] = IdleInspector])
  <2> PICK n : n = IF insp[i].edit.call # 0 THEN insp[i].edit.call ELSE Len(calls[k]) + 1
    OBVIOUS
  <2>1. /\ rec' = [rec EXCEPT ![k] = Flush(insp[i].loaded, HandoffPending(insp[i].edit, n), rec[k])]
        /\ calls' = IF insp[i].edit.call # 0 THEN calls
                    ELSE [calls EXCEPT ![k] = Append(@, insp[i].edit.spath)]
        /\ insp' = [insp EXCEPT ![i] = [IdleInspector EXCEPT !.key = k, !.pc = "dispatch"]]
    BY <1>2, <1>5 DEF CommitHandoff
  <2>2. PICK w : insp' = [insp EXCEPT ![i] = w] /\ w.pc = "dispatch" /\ w.key = k
    BY <2>1, IdleWithKey
  <2>3. /\ insp[i].edit.call = Len(calls[k]) /\ Len(calls[k]) =< 1
        /\ calls \in [Keys -> Seq(Paths)]
    BY <1>1, <1>2, WorkingInspector DEF EditGood, SameRow, RowGood, TypeInv, CallsOK
  <2>4. n = 1 /\ n = Len(calls'[k]) /\ \A h \in Keys \ {k} : calls'[h] = calls[h]
    <3>1. Len(calls[k]) \in Nat
      BY <2>3
    <3>2. CASE insp[i].edit.call # 0
      BY <3>1, <3>2, <2>1, <2>3
    <3>3. CASE insp[i].edit.call = 0
      <4>1. calls'[k] = Append(calls[k], insp[i].edit.spath)
        BY <2>1, <2>3, <3>3
      <4>2. Len(calls'[k]) = Len(calls[k]) + 1
        BY <4>1, <2>3
      <4> QED BY <3>1, <3>3, <4>2, <2>1, <2>3
    <3> QED BY <3>2, <3>3
  <2> DEFINE new == Flush(insp[i].loaded, HandoffPending(insp[i].edit, n), rec[k])
  <2>5. RowGood(k, new, calls'[k]) /\ new.status = "handoff_pending"
    <3>1. /\ insp[i].loaded \in Records /\ insp[i].edit \in Records /\ rec[k] \in Records
          /\ rec[k].status = "quarantined" /\ SameRow(insp[i].loaded, rec[k])
          /\ EditGood("commit", insp[i].loaded, insp[i].edit)
          /\ RowGood(k, rec[k], calls[k])
      BY <1>1, <1>2, WorkingInspector
    <3>2. Len(calls'[k]) = 1
      BY <2>4
    <3> HIDE DEF new
    <3>3. /\ RowGood(k, Flush(insp[i].loaded, HandoffPending(insp[i].edit, 1), rec[k]), calls'[k])
          /\ Flush(insp[i].loaded, HandoffPending(insp[i].edit, 1), rec[k]).status = "handoff_pending"
      BY <1>1, <3>1, <3>2, AcceptedRow
    <3> QED BY <2>4, <3>3 DEF new
  <2> HIDE DEF new
  <2>6. rec'[k] = new /\ \A h \in Keys \ {k} : rec'[h] = rec[h]
    BY <2>1 DEF TypeInv, RecOK, new
  <2>7. RowsKept({k}) /\ RowAt(k)'
    BY <1>3, <2>4, <2>5, <2>6 DEF RowsKept, RowAt, TypeInv, InspQOK
  <2>8. InspectorGood(w, rec'[k])
    BY <2>2, <2>5, <2>6 DEF InspectorGood
  <2> QED BY <1>1, <1>2, <1>3, <2>2, <2>7, <2>8, InspectorHandStep DEF Busy
<1> QED BY <1>4, <1>5

LEMMA PromotableIsAllPassed ==
    ASSUME NEW checks \in Findings
    PROVE  Promotable(checks) <=> checks = AllPassed
<1>1. ASSUME checks = [AllPassed EXCEPT !["media"] = "refused"] PROVE checks["media"] = "refused"
  BY <1>1 DEF AllPassed, Checks
<1>2. ASSUME checks = [Unchecked EXCEPT !["signature"] = "passed", !["malware"] = "refused"]
      PROVE  checks["malware"] = "refused"
  BY <1>2 DEF Unchecked, Checks
<1>3. ASSUME checks = [Unchecked EXCEPT !["signature"] = "refused"]
      PROVE  checks["signature"] = "refused"
  BY <1>3 DEF Unchecked, Checks
<1>4. \A c \in Checks : AllPassed[c] = "passed"
  BY DEF AllPassed
<1> QED BY <1>1, <1>2, <1>3, <1>4 DEF Findings, Promotable, Checks

\* From the quarantined file to the verdict in the session.
LEMMA InspectingKeepsCustody ==
    ASSUME TypeInv, TypeInv', Custody, NEW i \in Inspectors,
           \/ BeginInspection(i) \/ Inspect(i) \/ InspectionRaises(i)
           \/ MoveToRejected(i) \/ MoveToAccepted(i)
    PROVE  Custody'
<1>0. UNCHANGED << rec, calls, inspQ, job, dl >>
  BY DEF BeginInspection, Inspect, InspectionRaises, MoveToRejected, MoveToAccepted, tables, queues
<1>1. /\ Working(i)
      /\ insp[i].pc \in {"loaded", "inspecting", "refused", "passed"}
  BY DEF BeginInspection, Inspect, InspectionRaises, MoveToRejected, MoveToAccepted,
         InspectorAt, Working
<1>2. /\ EditGood(insp[i].pc, insp[i].loaded, insp[i].edit)
      /\ insp[i].edit \in Records /\ insp[i] \in InspectorStates
  BY <1>1, WorkingInspector DEF TypeInv, InspOK, GoodInspectors
<1>3. ASSUME NEW e, Decide(i, e), EditGood("commit", insp[i].loaded, e) PROVE Custody'
  <2>1. PICK w : /\ insp' = [insp EXCEPT ![i] = w] /\ w.pc = "commit"
                 /\ w.key = insp[i].key /\ w.loaded = insp[i].loaded /\ w.edit = e
    BY <1>3, InspectorShapes
  <2>2. EditGood(w.pc, w.loaded, w.edit)
    BY <1>3, <2>1
  <2> QED BY <1>0, <1>1, <2>1, <2>2, SessionStep
<1>4. ASSUME BeginInspection(i) PROVE Custody'
  <2>1. CASE insp' = [insp EXCEPT ![i] = IdleInspector]
    BY <1>0, <2>1, InspectorPutsDown DEF IdleInspector, BusyPCs
  <2>2. CASE insp' = [insp EXCEPT ![i].pc = "inspecting"]
    <3>1. PICK w : /\ insp' = [insp EXCEPT ![i] = w] /\ w.pc = "inspecting"
                   /\ w.key = insp[i].key /\ w.loaded = insp[i].loaded /\ w.edit = insp[i].edit
      <4>1. InspectorTo(i, "inspecting")
        BY <2>2 DEF InspectorTo
      <4> QED BY <4>1, InspectorShapes
    <3>2. EditGood(w.pc, w.loaded, w.edit)
      BY <1>2, <1>4, <3>1 DEF BeginInspection, InspectorAt, EditGood
    <3> QED BY <1>0, <1>1, <3>1, <3>2, SessionStep
  <2> QED BY <1>4, <2>1, <2>2 DEF BeginInspection
<1>5. ASSUME Inspect(i) PROVE Custody'
  <2>1. PICK checks \in Findings :
          insp' = [insp EXCEPT ![i].edit.checks = checks,
                     ![i].pc = IF Promotable(checks) THEN "passed" ELSE "refused"]
    BY <1>5 DEF Inspect
  <2> DEFINE e == [insp[i].edit EXCEPT !.checks = checks]
             pc == IF Promotable(checks) THEN "passed" ELSE "refused"
             w == [insp[i] EXCEPT !.edit = e, !.pc = pc]
  <2>2. insp' = [insp EXCEPT ![i] = w]
    BY <2>1 DEF TypeInv, InspOK
  <2>3. EditGood(pc, insp[i].loaded, e)
    <3>1. pc = "passed" => checks = AllPassed
      BY PromotableIsAllPassed
    <3>2. /\ e.checks = checks /\ e.status = insp[i].edit.status /\ e.run = insp[i].edit.run
          /\ e.row = insp[i].edit.row /\ e.attempts = insp[i].edit.attempts
          /\ e.qpath = insp[i].edit.qpath /\ e.spath = insp[i].edit.spath
          /\ e.call = insp[i].edit.call /\ e.queued = insp[i].edit.queued
      BY <1>2 DEF Records
    <3> HIDE DEF e
    <3> QED BY <1>2, <1>5, <3>1, <3>2 DEF EditGood, Inspect, InspectorAt
  <2>4. /\ w.pc = pc /\ w.key = insp[i].key /\ w.loaded = insp[i].loaded /\ w.edit = e
        /\ pc \in {"refused", "passed"}
    BY <1>2 DEF InspectorStates
  <2> HIDE DEF w, e, pc
  <2>5. EditGood(w.pc, w.loaded, w.edit)
    BY <2>3, <2>4
  <2> QED BY <1>0, <1>1, <2>2, <2>4, <2>5, SessionStep
<1>6. ASSUME InspectionRaises(i) PROVE Custody'
  <2>1. EditGood("commit", insp[i].loaded, MarkFailed(insp[i].edit))
    BY <1>2, <1>6, EditOfVerdict DEF InspectionRaises, InspectorAt
  <2> QED BY <2>1, <1>3, <1>6 DEF InspectionRaises
<1>7. ASSUME MoveToRejected(i) PROVE Custody'
  <2>1. /\ EditGood("commit", insp[i].loaded, MarkFailed(insp[i].edit))
        /\ \A p : EditGood("commit", insp[i].loaded, Rejected(insp[i].edit, p))
    BY <1>2, <1>7, EditOfVerdict DEF MoveToRejected, InspectorAt
  <2> QED BY <2>1, <1>3, <1>7 DEF MoveToRejected
<1>8. ASSUME MoveToAccepted(i) PROVE Custody'
  <2>1. /\ \A x : EditGood("commit", insp[i].loaded, ApplyFailurePolicy(insp[i].edit, x))
        /\ \A p : p # None => EditGood("commit", insp[i].loaded, Accepted(insp[i].edit, p))
    BY <1>2, <1>8, EditOfVerdict DEF MoveToAccepted, InspectorAt
  <2>2. insp[i].edit.qpath \in DOMAIN files => Destination(i, "accepted") # None
    <3>1. insp[i].pc = "passed" /\ "accepted" \in Dirs
      BY <1>8 DEF MoveToAccepted, InspectorAt, Dirs
    <3>2. Destination(i, "accepted") \in Paths
      BY <3>1, DestinationType
    <3> QED BY <3>2, NoneIsNoValue
  <2> QED BY <2>1, <2>2, <1>3, <1>8 DEF MoveToAccepted
<1> QED BY <1>4, <1>5, <1>6, <1>7, <1>8

\* The Call exists: the inspector tells the call pipeline of it.
LEMMA HandingOverKeepsCustody ==
    ASSUME TypeInv, TypeInv', Custody, NEW i \in Inspectors,
           Dispatch(i) \/ DispatchFails(i) \/ MarkSubmitted(i)
    PROVE  Custody'
<1>1. HandingOver(i) /\ Busy(i)
  BY DEF Dispatch, DispatchFails, MarkSubmitted, InspectorAt, HandingOver, Busy
<1>2. PICK k \in Keys : k = insp[i].key
  BY <1>1, BusyInspector
<1>3. UNCHANGED << calls, inspQ, job, dl >>
  BY DEF Dispatch, DispatchFails, MarkSubmitted, tables, queues
<1>4. /\ rec[k] \in Records /\ RowGood(k, rec[k], calls[k])
      /\ rec[k].status \in {"accepted", "handoff_pending", "submitted"} /\ rec[k].spath # None
  BY <1>1, <1>2, BusyInspector DEF InspectorGood, HandingOver, RowGood
<1>5. ASSUME Dispatch(i) PROVE Custody'
  <2>1. PICK w : insp' = [insp EXCEPT ![i] = w] /\ w.pc = "mark" /\ w.key = insp[i].key
    BY <1>5, InspectorShapes DEF Dispatch
  <2>2. UNCHANGED rec
    BY <1>5 DEF Dispatch, tables
  <2>3. InspectorGood(w, rec'[k]) /\ RowAt(k)' /\ RowsKept({k})
    BY <1>3, <1>4, <2>1, <2>2, KeptByNoChange DEF InspectorGood, RowAt
  <2> QED BY <1>1, <1>2, <1>3, <1>4, <2>1, <2>2, <2>3, InspectorHandStep
<1>6. ASSUME NEW new, rec' = [rec EXCEPT ![k] = new], RowGood(k, new, calls[k]),
             new.spath = rec[k].spath, new.status \in {"submitted", "retry_scheduled", "failed"},
             NEW w, insp' = [insp EXCEPT ![i] = w], w.pc \notin BusyPCs
      PROVE  Custody'
  <2>1. rec'[k] = new /\ RowsKept({k})
    BY <1>3, <1>6, RecAfter
  <2>2. InspectorGood(w, rec'[k])
    BY <1>6 DEF InspectorGood, BusyPCs
  <2>3. RowAt(k)'
    BY <1>3, <1>6, <2>1 DEF RowAt
  <2> QED BY <1>1, <1>2, <1>3, <1>4, <1>6, <2>1, <2>2, <2>3, InspectorHandStep
<1>7. ASSUME DispatchFails(i) PROVE Custody'
  <2> DEFINE new == ApplyFailurePolicy(rec[k], "automatic")
  <2>1. RowGood(k, new, calls[k])
    BY <1>4, EditsKeepGood
  <2>2. new.spath = rec[k].spath /\ new.status \in {"retry_scheduled", "failed"}
    BY <1>4 DEF ApplyFailurePolicy, Records
  <2>3. rec' = [rec EXCEPT ![k] = new]
    BY <1>2, <1>7 DEF DispatchFails
  <2>4. InspectorTo(i, "reschedule") \/ InspectorTo(i, "finalize")
    BY <1>7 DEF DispatchFails
  <2>5. PICK w : insp' = [insp EXCEPT ![i] = w] /\ w.pc \notin BusyPCs
    BY <2>4, InspectorShapes DEF BusyPCs
  <2> HIDE DEF new
  <2> QED BY <1>6, <2>1, <2>2, <2>3, <2>5
<1>8. ASSUME MarkSubmitted(i) PROVE Custody'
  <2>1. RowGood(k, Submitted(rec[k]), calls[k])
    BY <1>4, EditsKeepGood
  <2>2. Submitted(rec[k]).spath = rec[k].spath /\ Submitted(rec[k]).status = "submitted"
    BY <1>4 DEF Submitted, Records
  <2>3. rec' = [rec EXCEPT ![k] = Submitted(rec[k])]
    BY <1>2, <1>8 DEF MarkSubmitted, TypeInv, RecOK
  <2>5. PICK w : insp' = [insp EXCEPT ![i] = w] /\ w.pc \notin BusyPCs
    BY <1>8, InspectorShapes DEF MarkSubmitted, BusyPCs
  <2> QED BY <1>6, <2>1, <2>2, <2>3, <2>5
<1> QED BY <1>5, <1>7, <1>8

\* A verdict that does not accept the file is written to the row.
LEMMA VerdictKeepsCustody ==
    ASSUME TypeInv, TypeInv', Custody, NEW i \in Inspectors,
           InspectMissingFile(i) \/ CommitVerdict(i)
    PROVE  Custody'
<1>1. Working(i)
  BY DEF InspectMissingFile, CommitVerdict, InspectorAt, Working
<1>2. PICK k \in Keys : k = insp[i].key
  BY <1>1, WorkingInspector
<1>3. UNCHANGED << calls, inspQ, job, dl >>
  BY DEF InspectMissingFile, CommitVerdict, queues
<1>4. /\ insp[i].loaded \in Records /\ RowGood(k, insp[i].loaded, calls[k])
      /\ insp[i].loaded.status = "quarantined" /\ insp[i].loaded.spath = None
  BY <1>1, <1>2, WorkingInspector
<1>5. PICK w : insp' = [insp EXCEPT ![i] = w] /\ w.pc \notin BusyPCs
  <2>1. PICK pc \in {"reschedule_early", "finalize"} :
          insp' = [insp EXCEPT ![i] = [IdleInspector EXCEPT !.key = k, !.pc = pc]]
    BY <1>2 DEF InspectMissingFile, CommitVerdict
  <2>2. [IdleInspector EXCEPT !.key = k, !.pc = pc].pc = pc
    BY IdleWithKey
  <2> QED BY <2>1, <2>2 DEF BusyPCs
<1>6. ASSUME InspectMissingFile(i) PROVE Custody'
  <2>1. PICK b \in {MarkFailed(insp[i].loaded), Rejected(insp[i].loaded, insp[i].loaded.qpath)} :
          rec' = [rec EXCEPT ![k] = Flush(insp[i].loaded, b, rec[k])]
    BY <1>2, <1>6 DEF InspectMissingFile, TypeInv, RecOK
  <2>2. b \in Records /\ RowGood(k, b, calls[k]) /\ b.status # "absent"
    <3>1. insp[i].loaded.qpath \in NullablePath
      BY <1>4 DEF Records
    <3>2. CASE b = MarkFailed(insp[i].loaded)
      BY <1>4, <3>2, RecordStepTypes, VerdictsKeepGood, VerdictFields
    <3>3. CASE b = Rejected(insp[i].loaded, insp[i].loaded.qpath)
      BY <1>4, <3>1, <3>3, RecordStepTypes, VerdictsKeepGood, VerdictFields
    <3> QED BY <2>1, <3>2, <3>3
  <2> QED BY <1>1, <1>2, <1>3, <1>5, <2>1, <2>2, SettlingStep
<1>7. ASSUME CommitVerdict(i) PROVE Custody'
  <2>1. rec' = [rec EXCEPT ![k] = Flush(insp[i].loaded, insp[i].edit, rec[k])]
    BY <1>2, <1>7 DEF CommitVerdict, Written
  <2>2. /\ insp[i].edit \in Records /\ RowGood(k, insp[i].edit, calls[k])
        /\ insp[i].edit.status # "absent"
    <3>1. /\ insp[i].edit \in Records /\ RowGood(k, rec[k], calls[k])
          /\ rec[k].status = "quarantined" /\ SameRow(insp[i].loaded, rec[k])
          /\ EditGood(insp[i].pc, insp[i].loaded, insp[i].edit)
      BY <1>1, <1>2, WorkingInspector
    <3> QED BY <1>7, <3>1, EditFitsRow DEF CommitVerdict
  <2> QED BY <1>1, <1>2, <1>3, <1>5, <2>1, <2>2, SettlingStep
<1> QED BY <1>6, <1>7

LEMMA InspectorsKeepCustody ==
    ASSUME TypeInv, TypeInv', Custody, NEW i \in Inspectors,
           ReceiveInspection(i) \/ InspectorStep(i) \/ InspectorDies(i)
    PROVE  Custody'
<1>1. ASSUME PublishLater(i) \/ PublishLaterFails(i) \/ FinalizeRun(i) \/ CloseRun(i) \/ InspectorDies(i)
      PROVE  Custody'
  <2>1. UNCHANGED << rec, calls, inspQ, job, dl >>
    BY <1>1 DEF PublishLater, PublishLaterFails, FinalizeRun, CloseRun, InspectorDies, tables, queues
  <2>2. CASE insp' = [insp EXCEPT ![i] = IdleInspector]
    BY <2>1, <2>2, InspectorPutsDown DEF IdleInspector, BusyPCs
  <2>3. CASE PublishLater(i)
    <3>1. PICK w : insp' = [insp EXCEPT ![i] = w] /\ w.pc \notin BusyPCs
      BY <2>3, InspectorShapes DEF PublishLater, BusyPCs
    <3> QED BY <2>1, <3>1, InspectorPutsDown
  <2>4. CASE FinalizeRun(i)
    <3>1. insp[i] \in InspectorStates /\ insp \in [Inspectors -> GoodInspectors]
      BY DEF TypeInv, InspOK, GoodInspectors
    <3>2. CASE insp' # [insp EXCEPT ![i] = IdleInspector]
      <4>1. PICK n, v : insp' = [insp EXCEPT ![i].pc = "close", ![i].run = n, ![i].verdict = v]
        BY <2>4, <3>2 DEF FinalizeRun
      <4> DEFINE w == [insp[i] EXCEPT !.pc = "close", !.run = n, !.verdict = v]
      <4>2. insp' = [insp EXCEPT ![i] = w] /\ w.pc = "close"
        BY <3>1, <4>1 DEF InspectorStates
      <4> HIDE DEF w
      <4> QED BY <2>1, <4>2, InspectorPutsDown DEF BusyPCs
    <3> QED BY <2>2, <3>2
  <2> QED BY <1>1, <2>2, <2>3, <2>4 DEF PublishLaterFails, CloseRun, InspectorDies
<1> QED BY <1>1, ReceivingKeepsCustody, InspectingKeepsCustody, VerdictKeepsCustody,
           HandoffCommitKeepsCustody, HandingOverKeepsCustody DEF InspectorStep

-----------------------------------------------------------------------------
(* The download worker                                                     *)

LEMMA WorkerAfter ==
    ASSUME TypeInv, NEW d \in Downloaders, NEW w, dl' = [dl EXCEPT ![d] = w]
    PROVE  dl'[d] = w /\ \A c \in Downloaders : c # d => dl'[c] = dl[c]
BY DEF TypeInv, DlOK

\* A step that takes up no record, or puts down those in hand.
LEMMA WorkerFrame ==
    ASSUME TypeInv, TypeInv', Custody, NEW d \in Downloaders,
           NEW w, dl' = [dl EXCEPT ![d] = w], w.pc \notin {"retry"} \cup Reconcilers,
           \/ job' = job /\ \/ job[d] = NoJobs
                            \/ w.pc = "apply" /\ JobsOver(d)
           \/ job'[d] = NoJobs
           \/ /\ \A r \in Rows : job'[d][r].pc \notin CarryingPCs
              /\ w.pc = "rows",
           \A c \in Downloaders : c # d => job'[c] = job[c],
           UNCHANGED << rec, calls, inspQ, insp >>
    PROVE  Custody'
<1>1. dl'[d] = w /\ \A c \in Downloaders : c # d => dl'[c] = dl[c]
  BY WorkerAfter
<1>2. NoJob.pc = "none" /\ \A r \in Rows : NoJobs[r] = NoJob
  BY DEF NoJobs, NoJob
<1>3. JobsInPlace'
  BY <1>1, <1>2 DEF Custody, JobsInPlace, JobsOver
<1>5. WorkersKept({})
  BY <1>1 DEF WorkersKept
<1>4. JobsKept({})
  BY <1>1, <1>2 DEF JobsKept, Carrying, CarryingPCs
<1> QED BY <1>3, <1>4, <1>5, KeptByNoChange, CustodyFrame

\* A step that takes a copy of a row, or keeps the one it has.
LEMMA WorkerCopies ==
    ASSUME TypeInv, TypeInv', Custody, NEW d \in Downloaders,
           NEW w, dl' = [dl EXCEPT ![d] = w], NEW k \in Keys, w.key = k,
           dl[d].pc \in {"idle", "retry"} \cup Reconcilers, w.pc \in {"retry"} \cup Reconcilers,
           WorkerGood(w, rec[k]), UNCHANGED << rec, calls, inspQ, insp, job >>
    PROVE  Custody'
<1>1. dl'[d] = w /\ \A c \in Downloaders : c # d => dl'[c] = dl[c]
  BY WorkerAfter
<1>2. job[d] = NoJobs
  BY DEF Custody, JobsInPlace, Reconcilers
<1>3. JobsInPlace'
  BY <1>1, <1>2 DEF Custody, JobsInPlace, Reconcilers
<1>6. CustodyAt(k)
  BY DEF Custody
<1>4. WorkersAt(k)' /\ WorkersKept({k})
  BY <1>1, <1>6 DEF CustodyAt, WorkersAt, WorkersKept
<1>5. RowsKept({k}) /\ JobsKept({k}) /\ InspectorsKept({k})
  BY KeptByNoChange
<1>7. RowAt(k)' /\ JobsAt(k)' /\ InspectorsAt(k)' /\ QueueAt(k)'
  BY <1>6 DEF CustodyAt, RowAt, JobsAt, InspectorsAt, QueueAt, Carrying, Busy, Working, HandingOver
<1> QED BY <1>3, <1>4, <1>5, <1>7, OneKeyStep DEF CustodyAt

\* The reconciler writes a row whose handoff was interrupted.
LEMMA ReconcilerStep ==
    ASSUME RecordsApart, TypeInv, TypeInv', Custody, NEW d \in Downloaders,
           dl[d].pc \in Reconcilers, NEW k \in Keys, k = dl[d].key,
           NEW w, dl' = [dl EXCEPT ![d] = w],
           w = IdleWorker \/ (w.key = k /\ w.pc \in Reconcilers /\ w.copy = dl[d].copy),
           NEW new, rec' = [rec EXCEPT ![k] = new], RowGood(k, new, calls[k]),
           new.spath = rec[k].spath, new.status \in {"accepted", "handoff_pending", "submitted"},
           UNCHANGED << calls, inspQ, insp, job >>
    PROVE  Custody'
<1>1. dl'[d] = w /\ \A c \in Downloaders : c # d => dl'[c] = dl[c]
  BY WorkerAfter
<1>h. Holds(d, k)
  BY DEF Holds
<1>2. job[d] = NoJobs /\ \A c \in Downloaders, r \in Rows : KeyOf[r] = k => ~Carrying(c, r)
  <2>1. job[d] = NoJobs
    BY DEF Custody, JobsInPlace, Reconcilers
  <2>2. \A r \in Rows : ~Carrying(d, r)
    BY <2>1 DEF NoJobs, NoJob, Carrying
  <2>3. \A c \in Downloaders, r \in Rows : KeyOf[r] = k /\ Carrying(c, r) => Holds(c, k)
    BY DEF Holds
  <2> QED BY <1>h, <2>1, <2>2, <2>3 DEF RecordsApart
<1>3. JobsInPlace'
  BY <1>1, <1>2 DEF Custody, JobsInPlace, IdleWorker, Reconcilers
<1>4. CustodyAt(k)
  BY DEF Custody
<1>5. /\ dl[d].copy.status \in {"accepted", "handoff_pending"}
      /\ rec[k].status \in {"accepted", "handoff_pending", "submitted", "retry_scheduled", "failed"}
      /\ rec[k].spath # None
  BY <1>4 DEF CustodyAt, WorkersAt, WorkerGood
<1>6. rec'[k] = new /\ RowsKept({k})
  BY RecAfter
<1>7. RowAt(k)'
  BY <1>6 DEF RowAt
<1>8. JobsAt(k)' /\ JobsKept({k})
  BY <1>2 DEF JobsAt, JobsKept, Carrying
<1>9. InspectorsAt(k)' /\ InspectorsKept({k})
  <2>1. \A i \in Inspectors : insp[i].key = k => ~Working(i)
    BY <1>4, <1>5 DEF CustodyAt, InspectorsAt, InspectorGood, Working
  <2>2. InspectorsKept({k})
    BY KeptByNoChange
  <2> SUFFICES ASSUME NEW i \in Inspectors, insp[i].key = k
               PROVE  /\ InspectorGood(insp[i], rec'[k])
                      /\ Busy(i)' => \A j \in Inspectors : insp'[j].key = k /\ Busy(j)' => j = i
    BY <2>2 DEF InspectorsAt
  <2>3. InspectorGood(insp[i], rec'[k])
    BY <1>6, <2>1 DEF InspectorGood, Working
  <2>4. Busy(i)' => \A j \in Inspectors : insp'[j].key = k /\ Busy(j)' => j = i
    BY <1>4 DEF CustodyAt, InspectorsAt, Busy, Working, HandingOver
  <2> QED BY <2>3, <2>4
<1>10. QueueAt(k)'
  <2>1. inspQ[k] = 0
    BY <1>4, <1>5 DEF CustodyAt, QueueAt, TypeInv, InspQOK
  <2> QED BY <2>1 DEF QueueAt
<1>11. WorkersAt(k)' /\ WorkersKept({k})
  <2>1. w.key = k \/ w.pc \notin {"retry"} \cup Reconcilers
    BY DEF IdleWorker, Reconcilers
  <2>2. WorkerGood(w, rec'[k])
    BY <1>5, <1>6 DEF WorkerGood, IdleWorker, Reconcilers
  <2>3. ASSUME NEW c \in Downloaders, c # d, dl[c].key = k
        PROVE  dl[c].pc \notin {"retry"} \cup Reconcilers
    BY <1>h, <2>3 DEF Holds, RecordsApart
  <2>4. WorkersAt(k)'
    BY <1>1, <2>1, <2>2, <2>3 DEF WorkersAt, WorkerGood
  <2> QED BY <1>1, <2>1, <2>4 DEF WorkersKept
<1> QED BY <1>3, <1>6, <1>7, <1>8, <1>9, <1>10, <1>11, OneKeyStep DEF CustodyAt

LEMMA ReconcilingKeepsCustody ==
    ASSUME RecordsApart, TypeInv, TypeInv', Custody, NEW d \in Downloaders,
           ClaimHandoff(d) \/ Redispatch(d) \/ RedispatchFails(d) \/ MarkReconciled(d)
    PROVE  Custody'
<1>1. dl[d].pc \in Reconcilers /\ dl[d] \in Workers /\ dl \in [Downloaders -> GoodWorkers]
  BY DEF ClaimHandoff, Redispatch, RedispatchFails, MarkReconciled, Reconcilers, TypeInv, DlOK,
         GoodWorkers
<1>2. PICK k \in Keys : k = dl[d].key
  BY <1>1 DEF TypeInv, DlOK, GoodWorkers, Reconcilers
<1>3. CustodyAt(k)
  BY DEF Custody
<1>4. /\ rec[k] \in Records /\ RowGood(k, rec[k], calls[k])
      /\ WorkerGood(dl[d], rec[k])
      /\ rec[k].spath # None /\ dl[d].copy.status \in {"accepted", "handoff_pending"}
      /\ rec[k].status # "absent"
  BY <1>1, <1>2, <1>3 DEF CustodyAt, RowAt, WorkersAt, WorkerGood, TypeInv, RecOK
<1>5. UNCHANGED << calls, inspQ, insp, job >>
  BY DEF ClaimHandoff, Redispatch, RedispatchFails, MarkReconciled, tables, queues
<1>6. ASSUME NEW pc \in {"redispatch", "remark"}, dl' = [dl EXCEPT ![d].pc = pc]
      PROVE  \E w : /\ dl' = [dl EXCEPT ![d] = w] /\ w.pc = pc /\ w.key = k
                    /\ w.copy = dl[d].copy
  <2> DEFINE w == [dl[d] EXCEPT !.pc = pc]
  <2>1. dl' = [dl EXCEPT ![d] = w]
    BY <1>1, <1>6
  <2>2. w.pc = pc /\ w.key = k /\ w.copy = dl[d].copy
    BY <1>1, <1>2 DEF Workers
  <2> QED BY <2>1, <2>2
<1>7. ASSUME ClaimHandoff(d) PROVE Custody'
  <2>1. CASE ~Reconcilable(rec[k])
    <3>1. dl' = [dl EXCEPT ![d] = IdleWorker] /\ UNCHANGED rec
      BY <1>2, <1>7, <2>1 DEF ClaimHandoff
    <3>2. job[d] = NoJobs
      BY <1>1 DEF Custody, JobsInPlace, Reconcilers
    <3> QED BY <1>5, <3>1, <3>2, WorkerFrame DEF IdleWorker, Reconcilers
  <2>2. CASE Reconcilable(rec[k])
    <3>1. /\ rec' = [rec EXCEPT ![k].status = "handoff_pending", ![k].err = "dispatching"]
          /\ dl' = [dl EXCEPT ![d].pc = "redispatch"]
      BY <1>2, <1>7, <2>2 DEF ClaimHandoff
    <3> DEFINE new == [rec[k] EXCEPT !.status = "handoff_pending", !.err = "dispatching"]
    <3>2. rec' = [rec EXCEPT ![k] = new]
      BY <3>1 DEF TypeInv, RecOK
    <3>3. RowGood(k, new, calls[k])
      BY <1>4, EditsKeepGood
    <3>4. new.status = "handoff_pending" /\ new.spath = rec[k].spath
      BY <1>4 DEF Records
    <3> HIDE DEF new
    <3>5. PICK w : /\ dl' = [dl EXCEPT ![d] = w] /\ w.pc = "redispatch" /\ w.key = k
                   /\ w.copy = dl[d].copy
      BY <3>1, <1>6
    <3>6. w.pc \in Reconcilers
      BY <3>5 DEF Reconcilers
    <3> QED BY <1>1, <1>2, <1>5, <3>2, <3>3, <3>4, <3>5, <3>6, ReconcilerStep
  <2> QED BY <2>1, <2>2
<1>8. ASSUME Redispatch(d) PROVE Custody'
  <2>1. PICK w : /\ dl' = [dl EXCEPT ![d] = w] /\ w.pc = "remark" /\ w.key = k
                 /\ w.copy = dl[d].copy
    BY <1>8, <1>6 DEF Redispatch
  <2>2. WorkerGood(w, rec[k])
    BY <1>1, <1>4, <2>1 DEF WorkerGood, Reconcilers
  <2>3. UNCHANGED rec
    BY <1>8 DEF Redispatch, tables
  <2>4. w.pc \in Reconcilers
    BY <2>1 DEF Reconcilers
  <2> QED BY <1>1, <1>2, <1>5, <2>1, <2>2, <2>3, <2>4, WorkerCopies
<1>9. ASSUME RedispatchFails(d) PROVE Custody'
  <2> PICK s : s = dl[d].copy.status
    OBVIOUS
  <2> DEFINE new == [rec[k] EXCEPT !.status = s, !.err = "automatic"]
  <2>1. rec' = [rec EXCEPT ![k] = new]
    BY <1>2, <1>9 DEF RedispatchFails, TypeInv, RecOK
  <2>2. RowGood(k, new, calls[k])
    BY <1>4, EditsKeepGood
  <2>3. new.status = s /\ new.spath = rec[k].spath
    BY <1>4 DEF Records
  <2>4. dl' = [dl EXCEPT ![d] = IdleWorker]
    BY <1>9 DEF RedispatchFails
  <2>5. new.status \in {"accepted", "handoff_pending", "submitted"}
    BY <1>4, <2>3
  <2> HIDE DEF new
  <2> QED BY <1>1, <1>2, <1>5, <2>1, <2>2, <2>3, <2>4, <2>5, ReconcilerStep
<1>10. ASSUME MarkReconciled(d) PROVE Custody'
  <2>1. RowGood(k, Submitted(rec[k]), calls[k])
    BY <1>4, EditsKeepGood
  <2>2. Submitted(rec[k]).spath = rec[k].spath /\ Submitted(rec[k]).status = "submitted"
    BY <1>4 DEF Submitted, Records
  <2>3. rec' = [rec EXCEPT ![k] = Submitted(rec[k])]
    BY <1>2, <1>10 DEF MarkReconciled, TypeInv, RecOK
  <2> QED BY <1>1, <1>2, <1>5, <1>10, <2>1, <2>2, <2>3, ReconcilerStep DEF MarkReconciled
<1> QED BY <1>7, <1>8, <1>9, <1>10

\* The retry of a failed record: nobody else has it, and the copy is the row.
LEMMA RetryKeepsCustody ==
    ASSUME RecordsApart, TypeInv, TypeInv', Custody, NEW d \in Downloaders, StartRetry(d)
    PROVE  Custody'
<1>1. dl[d].pc = "retry" /\ dl[d] \in GoodWorkers
  BY DEF StartRetry, TypeInv, DlOK
<1>2. PICK k \in Keys : k = dl[d].key
  BY <1>1 DEF GoodWorkers
<1>3. /\ rec[k] \in Records /\ RowGood(k, rec[k], calls[k]) /\ dl[d].copy \in Records
      /\ SameRow(dl[d].copy, rec[k]) /\ rec[k].status \in {"retry_scheduled", "failed"}
  BY <1>1, <1>2 DEF Custody, CustodyAt, RowAt, WorkersAt, WorkerGood, TypeInv, RecOK, GoodWorkers
<1>4. Free(k)
  BY <1>3, FreeByStatus
<1>5. rec[k].row \in Rows /\ KeyOf[rec[k].row] = k
  BY <1>3 DEF RowGood
<1>6. NextRun \in RunIds
  BY NextRunType DEF StartRetry
<1> DEFINE prep == PrepareForRetry(dl[d].copy, NextRun)
           new == Flush(dl[d].copy, prep, rec[k])
<1>7. RowGood(k, dl[d].copy, calls[k]) /\ dl[d].copy.status \in {"retry_scheduled", "failed"}
  <2>1. SameRow(rec[k], dl[d].copy)
    BY <1>3, SameRowSymmetric
  <2> QED BY <1>3, <2>1, SameRowKeepsGood DEF SameRow
<1>8. /\ prep \in Records /\ RowGood(k, prep, calls[k])
      /\ prep.status \in {"accepted", "quarantined", "downloading"}
  BY <1>3, <1>6, <1>7, RetryKeepsGood, PrepareForRetryType
<1>9. RowGood(k, new, calls[k]) /\ new.status = prep.status
  <2> HIDE DEF prep
  <2>1. prep.status # "absent"
    BY <1>8
  <2> QED BY <1>3, <1>8, <2>1, FlushKeepsGood
<1> HIDE DEF prep
<1>10. rec' = [rec EXCEPT ![k] = new] /\ UNCHANGED << calls, inspQ, insp >>
  BY <1>2 DEF StartRetry, queues, prep
<1> HIDE DEF new
<1>11. rec'[k] = new /\ RowsKept({k}) /\ InspectorsKept({k})
  BY <1>10, RecAfter, KeptByNoChange
<1>12. RowAt(k)'
  BY <1>9, <1>10, <1>11 DEF RowAt
<1>13. \A c \in Downloaders : c # d /\ dl[c].key = k => dl[c].pc \notin {"retry"} \cup Reconcilers
  BY <1>1, <1>2 DEF Holds, RecordsApart
<1>n. job[d] = NoJobs
  BY <1>1 DEF Custody, JobsInPlace
<1>14. CASE dl' = [dl EXCEPT ![d] = IdleWorker] /\ UNCHANGED job
  <2>1. /\ dl'[d] = IdleWorker /\ job'[d] = NoJobs
        /\ \A c \in Downloaders : c # d => dl'[c] = dl[c]
    BY <1>1, <1>14, WorkerAfter DEF Custody, JobsInPlace
  <2>2. JobsInPlace' /\ WorkersKept({k}) /\ WorkersAt(k)'
    BY <1>13, <1>14, <2>1 DEF Custody, JobsInPlace, WorkersKept, WorkersAt, WorkerGood, IdleWorker,
       Reconcilers
  <2>3. \A c \in Downloaders, r \in Rows : KeyOf[r] = k => ~Carrying(c, r)'
    BY <1>4, <1>14 DEF Free, Carrying
  <2>4. \A i \in Inspectors : insp'[i].key = k => ~Busy(i)'
    BY <1>4, <1>10 DEF Free, Busy, Working, HandingOver
  <2>5. JobsAt(k)' /\ JobsKept({k}) /\ InspectorsAt(k)' /\ QueueAt(k)'
    BY <1>4, <1>10, <1>14, <2>3, <2>4 DEF JobsAt, JobsKept, InspectorsAt, InspectorGood, QueueAt, Free,
       Busy, Working, HandingOver
  <2> QED BY <1>11, <1>12, <2>2, <2>5, OneKeyStep DEF CustodyAt
<1>15. CASE ResumeAt(d, rec[k].row, k, new)
             /\ dl' = [dl EXCEPT ![d].pc = "retrying", ![d].run = NextRun, ![d].copy = None]
  <2> PICK r \in Rows : r = rec[k].row /\ KeyOf[r] = k
    BY <1>5
  <2>1. PICK j : job' = [job EXCEPT ![d][r] = j] /\ JobStatus(j.pc, new.status)
    <3>1. CASE new.status = "accepted"
      <4>1. JobTo(d, r, "handoff")
        BY <1>15, <3>1 DEF ResumeAt
      <4> QED BY <3>1, <4>1, JobShapes DEF JobStatus
    <3>2. CASE new.status = "quarantined"
      <4>1. JobTo(d, r, "publish")
        BY <1>15, <3>2 DEF ResumeAt
      <4> QED BY <3>2, <4>1, JobShapes DEF JobStatus
    <3>3. CASE new.status = "downloading"
      <4>1. StartTransfer(d, r)
        BY <1>15, <3>3 DEF ResumeAt
      <4> QED BY <3>3, <4>1, JobShapes DEF JobStatus
    <3> QED BY <1>8, <1>9, <3>1, <3>2, <3>3
  <2>2. JobsAt(k)' /\ InspectorsAt(k)' /\ QueueAt(k)' /\ JobsKept({k})
    BY <1>4, <1>10, <1>11, <2>1, TakeUpStep
  <2>3. dl'[d].pc = "retrying" /\ \A c \in Downloaders : c # d => dl'[c] = dl[c]
    BY <1>15 DEF TypeInv, DlOK, GoodWorkers, Workers
  <2>o. \A c \in Downloaders : c # d => job'[c] = job[c]
    BY <2>1, JobAfter
  <2>4. JobsInPlace' /\ WorkersKept({k}) /\ WorkersAt(k)'
    BY <1>13, <2>3, <2>o DEF Custody, JobsInPlace, WorkersKept, WorkersAt, WorkerGood, Reconcilers
  <2> QED BY <1>11, <1>12, <2>2, <2>4, OneKeyStep DEF CustodyAt
<1> QED BY <1>2, <1>14, <1>15 DEF StartRetry, new, prep

LEMMA WorkersKeepCustody ==
    ASSUME RecordsApart, TypeInv, TypeInv', Custody, NEW d \in Downloaders,
           \/ DownloaderStep(d) \/ DownloaderReceives(d) \/ DownloaderDies(d)
           \/ StartScheduledRun(d) \/ SelectHandoff(d)
    PROVE  Custody'
<1>0. /\ dl[d] \in Workers /\ dl \in [Downloaders -> GoodWorkers]
      /\ dl[d].pc \notin {"rows", "retrying", "apply"} => job[d] = NoJobs
      /\ dl[d] = IdleWorker => dl[d].pc = "idle"
  BY DEF TypeInv, DlOK, GoodWorkers, Custody, JobsInPlace, IdleWorker
<1>1. ASSUME \/ StartReading(d) \/ SheetReadFails(d) \/ RetryFindsActiveRun(d)
             \/ ReceiveRun(d) \/ SkipRetry(d) \/ StartScheduledRun(d)
      PROVE  Custody'
  <2>1. UNCHANGED << rec, calls, inspQ, insp, job >>
    BY <1>1 DEF StartReading, SheetReadFails, RetryFindsActiveRun, ReceiveRun, SkipRetry,
       StartScheduledRun, tables, queues
  <2>2. job[d] = NoJobs
    BY <1>0, <1>1 DEF StartReading, SheetReadFails, RetryFindsActiveRun, ReceiveRun, SkipRetry,
       StartScheduledRun
  <2>3. CASE UNCHANGED dl
    BY <2>1, <2>3, KeptByNoChange, CustodyFrame DEF Custody
  <2>4. CASE dl' = [dl EXCEPT ![d] = IdleWorker]
    BY <2>1, <2>2, <2>4, WorkerFrame DEF IdleWorker, Reconcilers
  <2>5. CASE dl' = [dl EXCEPT ![d].pc = "reading"]
    <3>1. [dl[d] EXCEPT !.pc = "reading"].pc = "reading"
      BY <1>0 DEF Workers
    <3>2. dl' = [dl EXCEPT ![d] = [dl[d] EXCEPT !.pc = "reading"]]
      BY <1>0, <2>5
    <3> QED BY <2>1, <2>2, <3>1, <3>2, WorkerFrame DEF Reconcilers
  <2>6. ASSUME NEW n, dl' = [dl EXCEPT ![d].pc = "continue", ![d].run = n] PROVE Custody'
    <3> DEFINE w == [dl[d] EXCEPT !.pc = "continue", !.run = n]
    <3>1. w.pc = "continue"
      BY <1>0 DEF Workers
    <3>2. dl' = [dl EXCEPT ![d] = w]
      BY <1>0, <2>6
    <3> HIDE DEF w
    <3> QED BY <2>1, <2>2, <3>1, <3>2, WorkerFrame DEF Reconcilers
  <2> QED BY <1>1, <2>3, <2>4, <2>5, <2>6 DEF StartReading, SheetReadFails, RetryFindsActiveRun,
             ReceiveRun, SkipRetry, StartScheduledRun
<1>2. ASSUME ReadSheet(d) PROVE Custody'
  <2>1. UNCHANGED << rec, calls, inspQ, insp >> /\ dl' = [dl EXCEPT ![d].pc = "rows"]
    BY <1>2 DEF ReadSheet, queues
  <2>2. \A r \in Rows : job'[d][r].pc \notin CarryingPCs
    <3>1. PICK sheet \in SUBSET Rows : job' = [job EXCEPT ![d] = [r \in Rows |->
                   IF r \in sheet THEN [NoJob EXCEPT !.pc = "todo"] ELSE NoJob]]
      BY <1>2 DEF ReadSheet
    <3>2. [NoJob EXCEPT !.pc = "todo"].pc = "todo" /\ NoJob.pc = "none"
      BY DEF NoJob
    <3> QED BY <3>1, <3>2 DEF TypeInv, JobOK, CarryingPCs
  <2>3. [dl[d] EXCEPT !.pc = "rows"].pc = "rows"
    BY <1>0 DEF Workers
  <2>4. dl' = [dl EXCEPT ![d] = [dl[d] EXCEPT !.pc = "rows"]]
    BY <1>0, <2>1
  <2>5. \A c \in Downloaders : c # d => job'[c] = job[c]
    BY <1>2 DEF ReadSheet, TypeInv, JobOK
  <2> QED BY <2>1, <2>2, <2>3, <2>4, <2>5, WorkerFrame DEF Reconcilers
<1>3. ASSUME ComputeResults(d) PROVE Custody'
  <2>1. UNCHANGED << rec, calls, inspQ, insp, job >> /\ JobsOver(d)
    BY <1>3 DEF ComputeResults, tables, queues
  <2>2. PICK v : dl' = [dl EXCEPT ![d].pc = "apply", ![d].verdict = v]
    BY <1>3 DEF ComputeResults
  <2> DEFINE w == [dl[d] EXCEPT !.pc = "apply", !.verdict = v]
  <2>3. w.pc = "apply"
    BY <1>0 DEF Workers
  <2>4. dl' = [dl EXCEPT ![d] = w]
    BY <1>0, <2>2
  <2> HIDE DEF w
  <2> QED BY <2>1, <2>3, <2>4, WorkerFrame DEF Reconcilers
<1>4. ASSUME ApplyResults(d) \/ DownloaderDies(d) PROVE Custody'
  <2>1. /\ UNCHANGED << rec, calls, inspQ, insp >> /\ dl' = [dl EXCEPT ![d] = IdleWorker]
        /\ job' = [job EXCEPT ![d] = NoJobs]
    BY <1>4 DEF ApplyResults, DownloaderDies, tables, queues
  <2>2. job'[d] = NoJobs /\ \A c \in Downloaders : c # d => job'[c] = job[c]
    BY <2>1 DEF TypeInv, JobOK
  <2> QED BY <2>1, <2>2, WorkerFrame DEF IdleWorker, Reconcilers
<1>5. ASSUME NEW pc \in {"retry", "reclaim"}, NEW k \in Keys, dl[d] = IdleWorker,
             dl' = [dl EXCEPT ![d].pc = pc, ![d].key = k, ![d].copy = rec[k]],
             UNCHANGED << rec, calls, inspQ, insp, job >>,
             IF pc = "retry" THEN rec[k].status \in {"retry_scheduled", "failed"}
                             ELSE rec[k].status \in {"accepted", "handoff_pending"}
      PROVE  Custody'
  <2>1. RowGood(k, rec[k], calls[k])
    BY DEF Custody, CustodyAt, RowAt
  <2> DEFINE w == [dl[d] EXCEPT !.pc = pc, !.key = k, !.copy = rec[k]]
  <2>2. w.pc = pc /\ w.key = k /\ w.copy = rec[k]
    BY <1>0 DEF Workers
  <2>3. dl' = [dl EXCEPT ![d] = w]
    BY <1>0, <1>5
  <2>4. WorkerGood(w, rec[k])
    BY <1>5, <2>1, <2>2 DEF WorkerGood, SameRow, RowGood, Reconcilers
  <2>5. dl[d].pc \in {"idle", "retry"} \cup Reconcilers /\ w.pc \in {"retry"} \cup Reconcilers
    BY <1>0, <1>5, <2>2 DEF Reconcilers
  <2> HIDE DEF w
  <2> QED BY <1>5, <2>2, <2>3, <2>4, <2>5, WorkerCopies
<1>6. ASSUME ReceiveRetry(d) PROVE Custody'
  <2>1. PICK m \in retryQ :
          /\ RetryAdmitted(m)
          /\ dl' = [dl EXCEPT ![d].pc = "retry", ![d].key = m.key, ![d].copy = rec[m.key]]
    BY <1>6 DEF ReceiveRetry
  <2>2. m.key \in Keys
    BY DEF TypeInv, RetryQOK, Retries
  <2>3. rec[m.key].status \in {"retry_scheduled", "failed"}
    BY <2>1 DEF RetryAdmitted, RetryEligible
  <2>4. UNCHANGED << rec, calls, inspQ, insp, job >> /\ dl[d] = IdleWorker
    BY <1>6 DEF ReceiveRetry, tables
  <2> QED BY <1>5, <2>1, <2>2, <2>3, <2>4
<1>7. ASSUME SelectHandoff(d) PROVE Custody'
  <2>1. PICK k \in Keys :
          /\ Reconcilable(rec[k])
          /\ dl' = [dl EXCEPT ![d].pc = "reclaim", ![d].key = k, ![d].copy = rec[k]]
    BY <1>7 DEF SelectHandoff
  <2>2. rec[k].status \in {"accepted", "handoff_pending"}
    BY <2>1 DEF Reconcilable
  <2>3. UNCHANGED << rec, calls, inspQ, insp, job >> /\ dl[d] = IdleWorker
    BY <1>7 DEF SelectHandoff, tables, queues
  <2> QED BY <1>5, <2>1, <2>2, <2>3
<1> QED BY <1>1, <1>2, <1>3, <1>4, <1>6, <1>7, RetryKeepsCustody, ReconcilingKeepsCustody
        DEF DownloaderStep, DownloaderReceives

-----------------------------------------------------------------------------
(* Operators, the clock, faults                                            *)

LEMMA ClockKeepsCustody ==
    ASSUME TypeInv, TypeInv', Custody, NEW k \in Keys, RetryTimeComes(k) \/ LeaseExpires(k)
    PROVE  Custody'
<1>1. rec[k] \in Records /\ RowGood(k, rec[k], calls[k])
  BY DEF TypeInv, RecOK, Custody, CustodyAt, RowAt
<1>2. rec[k].status # "absent"
  BY <1>1, NoneIsNoValue DEF RowGood, NoRecord, RetryTimeComes, LeaseExpires, Categories
<1>3. PICK new \in {[rec[k] EXCEPT !.timer = "expired"], [rec[k] EXCEPT !.err = "expired"]} :
        rec' = [rec EXCEPT ![k] = new]
  BY DEF RetryTimeComes, LeaseExpires, TypeInv, RecOK
<1>4. RowGood(k, new, calls[k])
  <2>1. /\ RowGood(k, [rec[k] EXCEPT !.timer = "expired"], calls[k])
        /\ RowGood(k, [rec[k] EXCEPT !.err = "expired"], calls[k])
    BY <1>1, <1>2, EditsKeepGood
  <2> QED BY <1>3, <2>1
<1>5. new.status = rec[k].status /\ new.spath = rec[k].spath /\ SameRow(rec[k], new)
  BY <1>1 DEF SameRow, Records
<1>6. UNCHANGED << calls, inspQ, insp, job, dl >>
  BY DEF RetryTimeComes, LeaseExpires, queues
<1>7. rec'[k] = new /\ \A h \in Keys \ {k} : rec'[h] = rec[h]
  BY <1>3 DEF TypeInv, RecOK
<1>8. RowAt(k)'
  BY <1>4, <1>6, <1>7 DEF RowAt
<1>9. JobsInPlace' /\ JobsKept({}) /\ InspectorsKept({}) /\ WorkersKept({})
  BY <1>6, KeptByNoChange DEF Custody
<1> QED BY <1>5, <1>6, <1>7, <1>8, <1>9, RowTouchStep

LEMMA CustodyInductive ==
    ASSUME RecordsApart, TypeInv, TypeInv', Custody, [Next]_vars
    PROVE  Custody'
<1>1. ASSUME UNCHANGED << rec, calls, insp, job, dl >>, \A h \in Keys : inspQ'[h] =< inspQ[h]
      PROVE  Custody'
  <2>1. RowsKept({})
    BY <1>1 DEF RowsKept
  <2> QED BY <1>1, <2>1, KeptByNoChange, CustodyFrame DEF Custody
<1>2. \A h \in Keys : inspQ[h] =< inspQ[h] /\ inspQ[h] - 1 =< inspQ[h]
  BY DEF TypeInv, InspQOK
<1>3. CASE UNCHANGED vars
  BY <1>1, <1>2, <1>3 DEF vars
<1>4. CASE Operators
  <2>1. ASSUME RequestRun \/ PublishRun \/ PublishRunFails \/ \E k \in Keys : RequestManualRetry(k)
        PROVE  Custody'
    BY <1>1, <1>2, <2>1 DEF RequestRun, PublishRun, PublishRunFails, RequestManualRetry, tables, queues
  <2> QED BY <1>4, <2>1, WorkersKeepCustody DEF Operators
<1>5. CASE Clock
  BY <1>5, ClockKeepsCustody DEF Clock
<1>6. CASE Faults
  <2>1. CASE EndpointDies
    BY <1>1, <1>2, <2>1 DEF EndpointDies, tables, queues
  <2>2. CASE MessageLost
    <3>1. UNCHANGED << rec, calls, insp, job, dl >>
      BY <2>2 DEF MessageLost, tables
    <3>2. \A h \in Keys : inspQ'[h] =< inspQ[h]
      <4>1. UNCHANGED inspQ \/ \E k \in Keys : inspQ' = [inspQ EXCEPT ![k] = @ - 1]
        BY <2>2 DEF MessageLost
      <4> QED BY <1>2, <4>1 DEF TypeInv, InspQOK
    <3> QED BY <1>1, <3>1, <3>2
  <2> QED BY <1>6, <2>1, <2>2, WorkersKeepCustody, InspectorsKeepCustody DEF Faults
<1> QED BY <1>3, <1>4, <1>5, <1>6, WorkersKeepCustody, JobsKeepCustody, InspectorsKeepCustody
        DEF Next

LEMMA CustodyInitially ==
    ASSUME Init PROVE Custody
<1>1. ASSUME NEW k \in Keys PROVE CustodyAt(k)
  <2>1. RowAt(k)
    BY DEF Init, RowAt, RowGood, NoRecord
  <2> QED BY <2>1 DEF Init, CustodyAt, JobsAt, InspectorsAt, InspectorGood, QueueAt, WorkersAt,
             WorkerGood, Carrying, Busy, Working, HandingOver, NoJobs, NoJob, IdleInspector,
             IdleWorker, Reconcilers
<1>2. JobsInPlace
  BY DEF Init, JobsInPlace, IdleWorker
<1> QED BY <1>1, <1>2 DEF Custody

\* While no two download workers are busy with one record, a source record is
\* in one hand at a time, and the copy that hand works on is the row.
THEOREM CustodyInvariant == Spec /\ []RecordsApart => []Custody
<1>1. Init => Custody
  BY CustodyInitially
<1>2. RecordsApart /\ TypeInv /\ TypeInv' /\ Custody /\ [Next]_vars => Custody'
  BY CustodyInductive
<1> QED BY <1>1, <1>2, TypesInvariant, PTL DEF Spec
==============================================================================
