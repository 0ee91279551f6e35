---------------------------- MODULE HandoffProofs ----------------------------
(***************************************************************************)
(* What follows from the custody of source records: that the storage       *)
(* holds each recording where its row says, that nothing gets past the     *)
(* inspection, that one record gets one Call with its own audio, that the  *)
(* call pipeline is told of it as promised, and that retries end.          *)
(***************************************************************************)
EXTENDS RecordingIngestionProofs

\* Two recordings whose URLs end in the same file name do not meet in the
\* quarantine: their names differ, or one row thread downloads at a time.
NamesApart == \A j, k \in Keys : BaseOf[j] = BaseOf[k] => j = k
PathsApart == NamesApart \/ Concurrency =< 1

-----------------------------------------------------------------------------
(* What each group of actions leaves alone                                 *)

CallsKept(S) == \A h \in Keys \ S : callQ'[h] = callQ[h]

\* Custody of the step's keys aside, nothing moves.
StepKeeps(S) ==
    RowsKept(S) /\ JobsKept(S) /\ InspectorsKept(S) /\ CallsKept(S)

\* A job's step is about the key of its row.
LEMMA JobStepFrame ==
    ASSUME RecordsApart, TypeInv, TypeInv', Custody,
           NEW d \in Downloaders, NEW r \in Rows, JobStep(d, r)
    PROVE  /\ StepKeeps({KeyOf[r]})
           /\ UNCHANGED << insp, calls >> /\ vetted' = vetted
           /\ UNCHANGED files \/ StoreDownload(d, r)
           /\ \A q \in Rows : q # r => job'[d][q] = job[d][q] \/ job'[d][q] = NoJob
           /\ \A c \in Downloaders : c # d => job'[c] = job[c]
<1> DEFINE k == KeyOf[r]
<1>k. k \in Keys
  BY KeyOfType
<1>1. UNCHANGED insp /\ vetted' = vetted /\ (UNCHANGED files \/ StoreDownload(d, r))
  BY DEF JobStep, MappingFails, ClaimExisting, ClaimNew, StoreDownload, CommitDownload,
         DownloadFails, PublishInspection, PublishInspectionFails, PublishRetry,
         PublishRetryFails, RetryHandoff, RetryHandoffConflicts, RetryDispatch,
         RetryDispatchFails, RetryMarkSubmitted
<1>2. \A h \in Keys \ {k} : rec'[h] = rec[h]
  BY DEF JobStep, MappingFails, ClaimExisting, ClaimNew, StoreDownload, CommitDownload,
         DownloadFails, PublishInspection, PublishInspectionFails, PublishRetry,
         PublishRetryFails, RetryHandoff, RetryHandoffConflicts, RetryDispatch,
         RetryDispatchFails, RetryMarkSubmitted, tables, FailJob, TypeInv, RecOK
<1>3. UNCHANGED calls /\ \A h \in Keys \ {k} : inspQ'[h] = inspQ[h] /\ callQ'[h] = callQ[h]
  BY DEF JobStep, MappingFails, ClaimExisting, ClaimNew, StoreDownload, CommitDownload,
         DownloadFails, PublishInspection, PublishInspectionFails, PublishRetry,
         PublishRetryFails, RetryHandoff, RetryHandoffConflicts, RetryDispatch,
         RetryDispatchFails, RetryMarkSubmitted, tables, queues, Publish, QueueCall,
         TypeInv, InspQOK, CallQOK
<1>4. RowsKept({k}) /\ CallsKept({k})
  BY <1>2, <1>3 DEF RowsKept, CallsKept, TypeInv, InspQOK
<1>5. InspectorsKept({k})
  BY <1>1, KeptByNoChange
<1>6. CASE RetryHandoffConflicts(d, r)
  <2>1. job' = [job EXCEPT ![d] = NoJobs]
    BY <1>6 DEF RetryHandoffConflicts
  <2>2. \A q \in Rows : job'[d][q] = NoJob
    BY <2>1 DEF TypeInv, JobOK, NoJobs
  <2>o. \A c \in Downloaders : c # d => job'[c] = job[c]
    BY <2>1 DEF TypeInv, JobOK
  <2>3. JobsKept({k})
    BY <2>2, <2>o DEF JobsKept, Carrying, NoJob
  <2> QED BY <1>1, <1>3, <1>4, <1>5, <2>2, <2>o, <2>3 DEF StepKeeps
<1>7. CASE ~RetryHandoffConflicts(d, r)
  <2>2. \/ \E out : JobDone(d, r, out)
        \/ \E pc : JobTo(d, r, pc)
        \/ StartTransfer(d, r)
    BY <1>7 DEF JobStep, MappingFails, ClaimExisting, ClaimNew, StoreDownload, CommitDownload,
         DownloadFails, PublishInspection, PublishInspectionFails, PublishRetry,
         PublishRetryFails, RetryHandoff, RetryDispatch,
         RetryDispatchFails, RetryMarkSubmitted, FailJob
  <2>3. PICK j : job' = [job EXCEPT ![d][r] = j]
    BY <2>2, JobShapes
  <2>4. /\ \A q \in Rows : q # r => job'[d][q] = job[d][q]
        /\ \A c \in Downloaders : c # d => job'[c] = job[c]
    BY <2>3, JobAfter
  <2>5. JobsKept({k})
    BY <2>4 DEF JobsKept
  <2> QED BY <1>1, <1>3, <1>4, <1>5, <2>4, <2>5 DEF StepKeeps
<1> QED BY <1>6, <1>7

\* An inspector's step is about the key it has, or the key it receives.
LEMMA InspectorStepFrame ==
    ASSUME RecordsApart, TypeInv, TypeInv', Custody,
           NEW i \in Inspectors, InspectorStep(i), NEW k \in Keys, k = insp[i].key
    PROVE  /\ StepKeeps({k})
           /\ UNCHANGED << job, dl, inspQ >>
           /\ UNCHANGED files \/ MoveToRejected(i) \/ MoveToAccepted(i)
           /\ UNCHANGED vetted \/ Inspect(i)
           /\ \A j \in Inspectors : j # i => insp'[j] = insp[j]
<1>1. /\ UNCHANGED << job, dl, inspQ >>
      /\ UNCHANGED files \/ MoveToRejected(i) \/ MoveToAccepted(i)
      /\ UNCHANGED vetted \/ Inspect(i)
  BY DEF InspectorStep, InspectMissingFile, BeginInspection, Inspect, InspectionRaises,
         MoveToRejected, MoveToAccepted, CommitVerdict, CommitHandoff, Dispatch, DispatchFails,
         MarkSubmitted, PublishLater, PublishLaterFails, FinalizeRun, CloseRun, queues
<1>2. \A h \in Keys \ {k} : rec'[h] = rec[h]
  BY DEF InspectorStep, InspectMissingFile, BeginInspection, Inspect, InspectionRaises,
         MoveToRejected, MoveToAccepted, CommitVerdict, CommitHandoff, Dispatch, DispatchFails,
         MarkSubmitted, PublishLater, PublishLaterFails, FinalizeRun, CloseRun, tables,
         TypeInv, RecOK
<1>3. \A h \in Keys \ {k} : calls'[h] = calls[h]
  BY DEF InspectorStep, InspectMissingFile, BeginInspection, Inspect, InspectionRaises,
         MoveToRejected, MoveToAccepted, CommitVerdict, CommitHandoff, Dispatch, DispatchFails,
         MarkSubmitted, PublishLater, PublishLaterFails, FinalizeRun, CloseRun, tables,
         TypeInv, CallsOK
<1>4. \A h \in Keys \ {k} : callQ'[h] = callQ[h]
  BY DEF InspectorStep, InspectMissingFile, BeginInspection, Inspect, InspectionRaises,
         MoveToRejected, MoveToAccepted, CommitVerdict, CommitHandoff, Dispatch, DispatchFails,
         MarkSubmitted, PublishLater, PublishLaterFails, FinalizeRun, CloseRun, queues,
         QueueCall, TypeInv, CallQOK
<1>5. \A j \in Inspectors : j # i => insp'[j] = insp[j]
  BY DEF InspectorStep, InspectMissingFile, BeginInspection, Inspect, InspectionRaises,
         MoveToRejected, MoveToAccepted, CommitVerdict, CommitHandoff, Dispatch, DispatchFails,
         MarkSubmitted, PublishLater, PublishLaterFails, FinalizeRun, CloseRun, InspectorTo,
         Decide, TypeInv, InspOK
<1>6. Busy(i)' => insp'[i].key = k
  <2>1. insp[i] \in InspectorStates /\ insp \in [Inspectors -> GoodInspectors]
    BY DEF TypeInv, InspOK, GoodInspectors
  <2>2. insp'[i].key = k \/ insp'[i] = IdleInspector
    <3>1. ASSUME BeginInspection(i) \/ Inspect(i) \/ InspectionRaises(i)
                 \/ MoveToRejected(i) \/ MoveToAccepted(i)
          PROVE  insp'[i].key = k \/ insp'[i] = IdleInspector
      BY <2>1, <3>1 DEF BeginInspection, Inspect, InspectionRaises, MoveToRejected,
         MoveToAccepted, Decide, InspectorStates
    <3>2. ASSUME InspectMissingFile(i) \/ CommitVerdict(i) \/ CommitHandoff(i)
          PROVE  insp'[i].key = k \/ insp'[i] = IdleInspector
      <4>1. \/ insp' = [insp EXCEPT ![i] = IdleInspector]
            \/ \E pc : insp' = [insp EXCEPT ![i] = [IdleInspector EXCEPT !.key = k, !.pc = pc]]
        BY <3>2 DEF InspectMissingFile, CommitVerdict, CommitHandoff
      <4>2. ASSUME NEW pc, insp' = [insp EXCEPT ![i] = [IdleInspector EXCEPT !.key = k, !.pc = pc]]
            PROVE  insp'[i].key = k
        BY <2>1, <4>2, IdleWithKey
      <4> QED BY <2>1, <4>1, <4>2
    <3>3. ASSUME Dispatch(i) \/ DispatchFails(i) \/ MarkSubmitted(i) \/ PublishLater(i)
                 \/ PublishLaterFails(i) \/ FinalizeRun(i) \/ CloseRun(i)
          PROVE  insp'[i].key = k \/ insp'[i] = IdleInspector
      BY <2>1, <3>3 DEF Dispatch, DispatchFails, MarkSubmitted, PublishLater,
         PublishLaterFails, FinalizeRun, CloseRun, InspectorTo, InspectorStates
    <3> QED BY <3>1, <3>2, <3>3 DEF InspectorStep
  <2> QED BY <2>2 DEF IdleInspector, Busy, Working, HandingOver
<1>7. InspectorsKept({k})
  BY <1>5, <1>6 DEF InspectorsKept
<1>8. RowsKept({k}) /\ CallsKept({k}) /\ JobsKept({k})
  BY <1>1, <1>2, <1>3, <1>4, KeptByNoChange DEF RowsKept, CallsKept, TypeInv, InspQOK
<1> QED BY <1>1, <1>5, <1>7, <1>8 DEF StepKeeps

-----------------------------------------------------------------------------
(* The storage                                                             *)

There(p, k) == p # None /\ p.dir = "quarantine" /\ p \in DOMAIN files /\ files[p] = k
Kept(p, k) == p # None /\ p.dir = "accepted" /\ p \in DOMAIN files /\ files[p] = k

\* A path chosen for a download of key k.
Chosen(p, k) ==
    /\ p.dir = "quarantine" /\ p.base = BaseOf[k] /\ p.suffix \in {<<>>, <<k>>}
    /\ p \in DOMAIN files => files[p] = k

\* A file has the name its URL ends in; one with a suffix is of the key that
\* was appended last.
FilesNamed == \A p \in DOMAIN files :
    /\ p.base = BaseOf[files[p]]
    /\ p.suffix # <<>> => files[p] = p.suffix[Len(p.suffix)]

AcceptedVetted == \A p \in DOMAIN files : p.dir = "accepted" => files[p] \in vetted

Active(d, r) == job[d][r].pc \notin {"none", "todo", "done", "raised"}

OneThread == Concurrency =< 1 =>
    \A d \in Downloaders, r, q \in Rows : Active(d, r) /\ Active(d, q) => r = q

JobHolds(j, k) ==
    /\ j.pc = "transfer" => Chosen(j.path, k)
    /\ j.pc = "stored" => There(j.path, k)
    /\ j.pc = "publish" => There(rec[k].qpath, k)

InspectorHolds(w, k) ==
    /\ w.pc \in {"loaded", "inspecting", "refused", "passed"} => There(w.edit.qpath, k)
    /\ w.pc = "commit" /\ w.edit.status \in {"retry_scheduled", "failed"} =>
         There(w.edit.qpath, k)
    /\ w.pc = "commit" /\ w.edit.status = "accepted" => Kept(w.edit.spath, k) /\ k \in vetted
    /\ w.pc = "passed" => k \in vetted

RowHolds(k) ==
    /\ inspQ[k] > 0 => There(rec[k].qpath, k)
    /\ rec[k].status \in {"retry_scheduled", "failed"} /\ rec[k].qpath # None =>
         There(rec[k].qpath, k)
    /\ \A j \in DOMAIN calls[k] : Kept(calls[k][j], k)
    /\ calls[k] # <<>> => k \in vetted
    /\ callQ[k] > 0 => calls[k] # <<>>

JobsHold(k) == \A d \in Downloaders, r \in Rows : KeyOf[r] = k => JobHolds(job[d][r], k)
InspectorsHold(k) == \A i \in Inspectors : insp[i].key = k => InspectorHolds(insp[i], k)

StorageAt(k) == RowHolds(k) /\ JobsHold(k) /\ InspectorsHold(k)

Storage ==
    FilesNamed /\ AcceptedVetted /\ OneThread /\ \A k \in Keys : StorageAt(k)

\* The files of other keys stay where they are.
FilesKept(S) ==
    /\ vetted \subseteq vetted'
    /\ \A h \in Keys \ S : \A p :
         /\ There(p, h) => There(p, h)'
         /\ Kept(p, h) => Kept(p, h)'
    /\ \A d \in Downloaders, r \in Rows : \A p :
         /\ KeyOf[r] \notin S /\ job[d][r].pc = "transfer"
         /\ job[d][r].path = p /\ Chosen(p, KeyOf[r])
         => Chosen(p, KeyOf[r])'

LEMMA FilesUntouched ==
    ASSUME UNCHANGED files, vetted \subseteq vetted', NEW S
    PROVE  FilesKept(S) /\ (FilesNamed => FilesNamed') /\ (AcceptedVetted => AcceptedVetted')
<1>1. FilesKept(S)
  BY DEF FilesKept, There, Kept, Chosen
<1>2. FilesNamed => FilesNamed'
  BY DEF FilesNamed
<1>3. AcceptedVetted => AcceptedVetted'
  BY DEF AcceptedVetted
<1> QED BY <1>1, <1>2, <1>3

LEMMA OthersKeepStorage ==
    ASSUME TypeInv, TypeInv', Storage, NEW S \in SUBSET Keys, StepKeeps(S), FilesKept(S)
    PROVE  \A h \in Keys \ S : StorageAt(h)'
<1> SUFFICES ASSUME NEW h \in Keys \ S PROVE StorageAt(h)'
  OBVIOUS
<1>0. StorageAt(h)
  BY DEF Storage
<1>1. rec'[h] = rec[h] /\ calls'[h] = calls[h] /\ inspQ'[h] =< inspQ[h] /\ callQ'[h] = callQ[h]
  BY DEF StepKeeps, RowsKept, CallsKept
<1>2. inspQ'[h] > 0 => inspQ[h] > 0
  BY <1>1 DEF TypeInv, InspQOK
<1>3. \A p : (There(p, h) => There(p, h)') /\ (Kept(p, h) => Kept(p, h)')
  BY DEF FilesKept
<1>4. vetted \subseteq vetted'
  BY DEF FilesKept
<1>5. RowHolds(h)'
  BY <1>0, <1>1, <1>2, <1>3, <1>4 DEF StorageAt, RowHolds
<1>6. JobsHold(h)'
  <2> SUFFICES ASSUME NEW d \in Downloaders, NEW r \in Rows, KeyOf[r] = h
               PROVE  JobHolds(job[d][r], h)'
    BY DEF JobsHold
  <2>1. CASE ~Carrying(d, r)'
    BY <2>1 DEF Carrying, JobHolds
  <2>2. CASE Carrying(d, r)'
    <3>1. job'[d][r] = job[d][r]
      BY <2>2 DEF StepKeeps, JobsKept
    <3>2. JobHolds(job[d][r], h)
      BY <1>0 DEF StorageAt, JobsHold
    <3> PICK p : p = job[d][r].path
      OBVIOUS
    <3>3. job[d][r].pc = "transfer" => Chosen(p, h)'
      BY <3>2 DEF JobHolds, FilesKept
    <3> QED BY <1>1, <1>3, <3>1, <3>2, <3>3 DEF JobHolds
  <2> QED BY <2>1, <2>2
<1>7. InspectorsHold(h)'
  <2> SUFFICES ASSUME NEW i \in Inspectors, insp'[i].key = h
               PROVE  InspectorHolds(insp[i], h)'
    BY DEF InspectorsHold
  <2>1. CASE ~Busy(i)'
    BY <2>1 DEF Busy, Working, HandingOver, InspectorHolds
  <2>2. CASE Busy(i)'
    <3>1. insp'[i] = insp[i]
      BY <2>2 DEF StepKeeps, InspectorsKept
    <3>2. InspectorHolds(insp[i], h)
      BY <1>0, <3>1 DEF StorageAt, InspectorsHold
    <3> QED BY <1>3, <1>4, <3>1, <3>2 DEF InspectorHolds
  <2> QED BY <2>1, <2>2
<1> QED BY <1>5, <1>6, <1>7 DEF StorageAt

LEMMA StorageFrame ==
    ASSUME TypeInv, TypeInv', Storage, StepKeeps({}), UNCHANGED files, vetted \subseteq vetted',
           OneThread'
    PROVE  Storage'
<1>1. \A h \in Keys \ {} : StorageAt(h)'
  BY OthersKeepStorage, FilesUntouched
<1> QED BY <1>1, FilesUntouched DEF Storage

LEMMA StorageOneKey ==
    ASSUME TypeInv, TypeInv', Storage, NEW k \in Keys, StepKeeps({k}), FilesKept({k}),
           FilesNamed', AcceptedVetted', OneThread', StorageAt(k)'
    PROVE  Storage'
<1>1. \A h \in Keys \ {k} : StorageAt(h)'
  BY OthersKeepStorage
<1> QED BY <1>1 DEF Storage

-----------------------------------------------------------------------------
(* One thread                                                              *)

\* With one thread a free one means that no job of the worker is active.
LEMMA FreeThread ==
    ASSUME TypeInv, NEW d \in Downloaders, ThreadFree(d), Concurrency =< 1
    PROVE  \A r \in Rows : ~Active(d, r)
<1> DEFINE A == {r \in Rows : job[d][r].pc \notin {"none", "todo", "done", "raised"}}
<1>1. IsFiniteSet(A)
  BY RowsAssumption, FS_Subset
<1>2. Cardinality(A) \in Nat
  BY <1>1, FS_CardinalityType
<1>3. Cardinality(A) = 0
  BY <1>2, BoundsAssumption DEF ThreadFree
<1>4. A = {}
  BY <1>1, <1>3, FS_EmptySet
<1> QED BY <1>4 DEF Active

LEMMA JobsKeepOneThread ==
    ASSUME RecordsApart, TypeInv, TypeInv', Custody, OneThread,
           NEW d \in Downloaders, NEW r \in Rows, JobStep(d, r)
    PROVE  OneThread'
<1>1. \A q \in Rows : q # r /\ Active(d, q)' => Active(d, q)
  <2> SUFFICES ASSUME NEW q \in Rows, q # r, Active(d, q)' PROVE Active(d, q)
    OBVIOUS
  <2>1. job'[d][q] = job[d][q] \/ job'[d][q] = NoJob
    BY JobStepFrame
  <2> QED BY <2>1 DEF Active, NoJob
<1>2. Active(d, r)' => Active(d, r) \/ ThreadFree(d)
  BY DEF JobStep, MappingFails, ClaimExisting, ClaimNew, StoreDownload, CommitDownload,
         DownloadFails, PublishInspection, PublishInspectionFails, PublishRetry,
         PublishRetryFails, RetryHandoff, RetryHandoffConflicts, RetryDispatch,
         RetryDispatchFails, RetryMarkSubmitted, JobAt, Active
<1>3. ASSUME Concurrency =< 1 PROVE \A q \in Rows : Active(d, q)' /\ Active(d, r)' => q = r
  BY <1>1, <1>2, <1>3, FreeThread DEF OneThread
<1>4. \A c \in Downloaders : c # d => job'[c] = job[c]
  BY JobStepFrame
<1> QED BY <1>1, <1>3, <1>4 DEF OneThread, Active

-----------------------------------------------------------------------------
(* The jobs keep the storage                                               *)

\* A job that has its record in hand is the only one that has, and its step
\* leaves the files alone.
LEMMA CarrierStep ==
    ASSUME RecordsApart, TypeInv, TypeInv', Custody, Storage,
           NEW d \in Downloaders, NEW r \in Rows, JobStep(d, r), Carrying(d, r),
           NEW k \in Keys, k = KeyOf[r], UNCHANGED files, JobHolds(job[d][r], k)',
           inspQ'[k] = inspQ[k] \/ There(rec[k].qpath, k)',
           rec'[k].status \in {"retry_scheduled", "failed"} /\ rec'[k].qpath # None =>
             There(rec[k].qpath, k)',
           callQ'[k] = callQ[k] \/ calls[k] # <<>>
    PROVE  Storage'
<1>1. StepKeeps({k}) /\ UNCHANGED << insp, calls >> /\ vetted' = vetted
  BY JobStepFrame
<1>2. FilesKept({k}) /\ FilesNamed' /\ AcceptedVetted'
  BY <1>1, FilesUntouched DEF Storage
<1>3. OneThread'
  BY JobsKeepOneThread DEF Storage
<1>4. StorageAt(k) /\ CustodyAt(k)
  BY DEF Storage, Custody
<1>5. RowHolds(k)'
  <2>1. inspQ[k] = 0
    BY <1>4 DEF CustodyAt, QueueAt, TypeInv, InspQOK
  <2> QED BY <1>1, <1>4, <2>1 DEF StorageAt, RowHolds, Kept
<1>6. JobsHold(k)'
  <2> SUFFICES ASSUME NEW c \in Downloaders, NEW q \in Rows, KeyOf[q] = k, c # d \/ q # r
               PROVE  JobHolds(job[c][q], k)'
    BY DEF JobsHold
  <2>1. ~Carrying(c, q)
    BY LoneCarrier
  <2>2. job'[c][q] = job[c][q] \/ job'[c][q] = NoJob
    BY JobStepFrame
  <2> QED BY <2>1, <2>2 DEF JobHolds, Carrying, NoJob
<1>7. InspectorsHold(k)'
  BY <1>1, <1>4 DEF StorageAt, InspectorsHold, InspectorHolds, There, Kept
<1> QED BY <1>1, <1>2, <1>3, <1>5, <1>6, <1>7, StorageOneKey DEF StorageAt

LEMMA DownloadIsKept ==
    ASSUME RecordsApart, OneWorkerProcesses, PathsApart, TypeInv, TypeInv', Custody, Storage,
           NEW d \in Downloaders, NEW r \in Rows, StoreDownload(d, r)
    PROVE  Storage'
<1>0. PICK k \in Keys : k = KeyOf[r]
  BY KeyOfType
<1>1. StepKeeps({k}) /\ UNCHANGED << insp, calls >> /\ vetted' = vetted
  BY <1>0, JobStepFrame DEF JobStep
<1>2. OneThread'
  BY JobsKeepOneThread DEF Storage, JobStep
<1>3. PICK p : p = job[d][r].path
  OBVIOUS
<1>4. /\ p \in Paths /\ p # None /\ Chosen(p, k) /\ job[d][r].pc = "transfer"
      /\ StorageAt(k) /\ CustodyAt(k)
  <2>1. job[d][r] \in GoodJobs /\ job[d][r].pc = "transfer"
    BY DEF TypeInv, JobOK, StoreDownload, JobAt
  <2>2. p \in Paths
    BY <1>3, <2>1 DEF GoodJobs
  <2>3. Chosen(p, k)
    BY <1>0, <1>3, <2>1 DEF Storage, StorageAt, JobsHold, JobHolds
  <2> QED BY <2>1, <2>2, <2>3, NoneIsNoValue DEF Storage, Custody
<1>5. /\ DOMAIN files' = DOMAIN files \cup {p} /\ files'[p] = k
      /\ \A x \in DOMAIN files : x # p => files'[x] = files[x]
      /\ UNCHANGED << rec, inspQ, callQ >>
  BY <1>0, <1>3 DEF StoreDownload, Stored, tables, queues
<1>6. \A x, h : /\ There(x, h) => There(x, h)'
                /\ Kept(x, h) => Kept(x, h)'
  BY <1>4, <1>5 DEF There, Kept, Chosen
<1>7. FilesKept({k})
  <2> SUFFICES ASSUME NEW c \in Downloaders, NEW q \in Rows, NEW x, KeyOf[q] # k,
                      job[c][q].pc = "transfer", job[c][q].path = x, Chosen(x, KeyOf[q])
               PROVE  Chosen(x, KeyOf[q])'
    BY <1>1, <1>6 DEF FilesKept
  <2>1. c = d /\ Active(d, q) /\ Active(d, r)
    <3>1. dl[c].pc \in {"rows", "retrying"} /\ dl[d].pc \in {"rows", "retrying"}
      BY <1>4, WorkerOfJob
    <3> QED BY <1>4, <3>1 DEF OneWorkerProcesses, Processing, Active
  <2>2. x # p
    <3>1. CASE NamesApart
      BY <1>0, <1>4, <3>1, KeyOfType DEF NamesApart, Chosen
    <3>2. CASE Concurrency =< 1
      BY <1>0, <2>1, <3>2 DEF Storage, OneThread
    <3> QED BY <3>1, <3>2 DEF PathsApart
  <2> QED BY <1>5, <2>2 DEF Chosen
<1>8. FilesNamed'
  <2> SUFFICES ASSUME NEW x \in DOMAIN files'
               PROVE  /\ x.base = BaseOf[files'[x]]
                      /\ x.suffix # <<>> => files'[x] = x.suffix[Len(x.suffix)]
    BY DEF FilesNamed
  <2>1. CASE x = p
    BY <1>4, <1>5, <2>1 DEF Chosen
  <2>2. CASE x # p
    BY <1>5, <2>2 DEF Storage, FilesNamed
  <2> QED BY <2>1, <2>2
<1>9. AcceptedVetted'
  BY <1>1, <1>4, <1>5 DEF Storage, AcceptedVetted, Chosen
<1>10. JobsHold(k)'
  <2>1. job'[d][r].pc = "stored" /\ job'[d][r].path = p
    BY <1>3 DEF StoreDownload, JobTo, TypeInv, JobOK, GoodJobs, Jobs
  <2>2. JobHolds(job[d][r], k)'
    BY <1>4, <1>5, <2>1 DEF JobHolds, There, Chosen
  <2> SUFFICES ASSUME NEW c \in Downloaders, NEW q \in Rows, KeyOf[q] = k, c # d \/ q # r
               PROVE  JobHolds(job[c][q], k)'
    BY <2>2 DEF JobsHold
  <2>3. ~Carrying(c, q)
    BY <1>0, <1>4, LoneCarrier DEF Carrying
  <2>4. job'[c][q] = job[c][q] \/ job'[c][q] = NoJob
    BY JobStepFrame DEF JobStep
  <2> QED BY <2>3, <2>4 DEF JobHolds, Carrying, NoJob
<1>11. RowHolds(k)'
  BY <1>1, <1>4, <1>5, <1>6 DEF StorageAt, RowHolds
<1>12. InspectorsHold(k)'
  BY <1>1, <1>4, <1>6 DEF StorageAt, InspectorsHold, InspectorHolds
<1> QED BY <1>1, <1>2, <1>7, <1>8, <1>9, <1>10, <1>11, <1>12, StorageOneKey DEF StorageAt

\* The name chosen for a download is free, or it is of the same key.
LEMMA ChosenIsOwn ==
    ASSUME FilesNamed, NEW k \in Keys
    PROVE  Chosen(UniqueDestination("quarantine", BaseOf[k], <<>>, k), k)
<1> DEFINE t == [dir |-> "quarantine", base |-> BaseOf[k], suffix |-> <<>>]
           u == [t EXCEPT !.suffix = Append(<<>>, k)]
<1>1. /\ u.dir = "quarantine" /\ u.base = BaseOf[k] /\ u.suffix = <<k>>
      /\ Len(<<k>>) = 1 /\ <<k>>[1] = k /\ <<k>> # <<>>
  OBVIOUS
<1>2. u \in DOMAIN files => files[u] = k
  BY <1>1 DEF FilesNamed
<1>3. Chosen(u, k)
  <2> HIDE DEF u
  <2> QED BY <1>1, <1>2 DEF Chosen
<1>4. CASE t \in DOMAIN files
  BY <1>3, <1>4 DEF UniqueDestination
<1>5. CASE t \notin DOMAIN files
  BY <1>5 DEF UniqueDestination, Chosen
<1> QED BY <1>4, <1>5

LEMMA JobsKeepStorage ==
    ASSUME RecordsApart, OneWorkerProcesses, PathsApart, TypeInv, TypeInv', Custody, Storage,
           NEW d \in Downloaders, NEW r \in Rows, JobStep(d, r)
    PROVE  Storage'
<1>0. PICK k \in Keys : k = KeyOf[r]
  BY KeyOfType
<1>1. StepKeeps({k}) /\ UNCHANGED << insp, calls >> /\ vetted' = vetted /\ OneThread'
  BY <1>0, JobStepFrame, JobsKeepOneThread DEF Storage
<1>2. StorageAt(k) /\ JobHolds(job[d][r], k) /\ rec[k] \in Records
  BY <1>0 DEF Storage, StorageAt, JobsHold, TypeInv, RecOK
<1>3. Carrying(d, r) => /\ JobStatus(job[d][r].pc, rec[k].status)
                        /\ RowGood(k, rec[k], calls[k])
  BY <1>0, CarriedStatus
<1>4. ASSUME JobStep(d, r), ~StoreDownload(d, r), ~Carrying(d, r), job'[d][r].pc \notin CarryingPCs,
             rec'[k].qpath = rec[k].qpath, rec'[k].status = rec[k].status,
             inspQ'[k] = inspQ[k], callQ'[k] = callQ[k]
      PROVE  Storage'
  <2>1. UNCHANGED files
    BY <1>4, JobStepFrame
  <2>2. FilesKept({k}) /\ FilesNamed' /\ AcceptedVetted'
    BY <1>1, <2>1, FilesUntouched DEF Storage
  <2>3. RowHolds(k)'
    BY <1>1, <1>2, <1>4, <2>1 DEF StorageAt, RowHolds, There, Kept
  <2>4. JobsHold(k)'
    <3> SUFFICES ASSUME NEW c \in Downloaders, NEW q \in Rows, KeyOf[q] = k
                 PROVE  JobHolds(job[c][q], k)'
      BY DEF JobsHold
    <3>1. CASE c = d /\ q = r
      BY <1>4, <3>1 DEF JobHolds, CarryingPCs
    <3>2. CASE c # d \/ q # r
      <4>1. job'[c][q] = job[c][q] \/ job'[c][q] = NoJob
        BY <1>4, <3>2, JobStepFrame
      <4> QED BY <1>2, <1>4, <2>1, <4>1 DEF StorageAt, JobsHold, JobHolds, There, Chosen, NoJob
    <3> QED BY <3>1, <3>2
  <2>5. InspectorsHold(k)'
    BY <1>1, <1>2, <2>1 DEF StorageAt, InspectorsHold, InspectorHolds, There, Kept
  <2> QED BY <1>1, <2>2, <2>3, <2>4, <2>5, StorageOneKey DEF StorageAt
<1>5. ASSUME MappingFails(d, r) \/ PublishRetry(d, r) \/ PublishRetryFails(d, r) PROVE Storage'
  <2>1. \E out : JobDone(d, r, out) \/ JobTo(d, r, "raised")
    BY <1>5 DEF MappingFails, PublishRetry, PublishRetryFails
  <2>a. PICK j : job' = [job EXCEPT ![d][r] = j] /\ j.pc \in {"done", "raised"}
    BY <2>1, JobShapes
  <2>2. job'[d][r] = j
    BY <2>a DEF TypeInv, JobOK
  <2>3. /\ ~Carrying(d, r) /\ ~StoreDownload(d, r)
        /\ UNCHANGED << rec, inspQ, callQ >>
    BY <1>5 DEF MappingFails, PublishRetry, PublishRetryFails, StoreDownload, JobAt, Carrying,
       tables, queues
  <2> QED BY <1>4, <2>a, <2>2, <2>3 DEF CarryingPCs
<1>6. ASSUME ClaimExisting(d, r) PROVE Storage'
  <2>1. PICK j : job' = [job EXCEPT ![d][r] = j] /\ j.pc = "done"
    BY <1>6, JobShapes DEF ClaimExisting
  <2>2. job'[d][r] = j
    BY <2>1 DEF TypeInv, JobOK
  <2>3. ~Carrying(d, r) /\ ~StoreDownload(d, r) /\ UNCHANGED << inspQ, callQ >>
    BY <1>6 DEF ClaimExisting, StoreDownload, JobAt, Carrying, queues
  <2>4. rec'[k].qpath = rec[k].qpath /\ rec'[k].status = rec[k].status
    <3> PICK n : n = rec[k].attempts + 1
      OBVIOUS
    <3>1. UNCHANGED rec \/ rec' = [rec EXCEPT ![k] = [rec[k] EXCEPT !.attempts = n]]
      BY <1>0, <1>6 DEF ClaimExisting, TypeInv, RecOK
    <3>2. CASE rec' = [rec EXCEPT ![k] = [rec[k] EXCEPT !.attempts = n]]
      <4>1. rec'[k] = [rec[k] EXCEPT !.attempts = n]
        BY <3>2 DEF TypeInv, RecOK
      <4> QED BY <1>2, <4>1 DEF Records
    <3> QED BY <3>1, <3>2
  <2> QED BY <1>4, <2>1, <2>2, <2>3, <2>4 DEF CarryingPCs
<1>7. ASSUME ClaimNew(d, r) PROVE Storage'
  <2>1. PICK j : /\ job' = [job EXCEPT ![d][r] = j] /\ j.pc = "transfer"
                 /\ j.path = UniqueDestination("quarantine", BaseOf[k], <<>>, k)
    BY <1>0, <1>7, JobShapes DEF ClaimNew
  <2>2. /\ job'[d][r] = j /\ \A q \in Rows : q # r => job'[d][q] = job[d][q]
        /\ \A c \in Downloaders : c # d => job'[c] = job[c]
    BY <2>1 DEF TypeInv, JobOK
  <2>3. UNCHANGED << rec, inspQ, callQ, files >>
    BY <1>7 DEF ClaimNew, tables, queues
  <2>4. FilesKept({k}) /\ FilesNamed' /\ AcceptedVetted'
    BY <1>1, <2>3, FilesUntouched DEF Storage
  <2>5. Chosen(j.path, k)
    BY <2>1, ChosenIsOwn DEF Storage
  <2>6. JobsHold(k)'
    BY <1>2, <2>1, <2>2, <2>3, <2>5 DEF StorageAt, JobsHold, JobHolds, There, Chosen
  <2>7. RowHolds(k)' /\ InspectorsHold(k)'
    BY <1>1, <1>2, <2>3 DEF StorageAt, RowHolds, InspectorsHold, InspectorHolds, There, Kept
  <2> QED BY <1>1, <2>4, <2>6, <2>7, StorageOneKey DEF StorageAt
<1>8. ASSUME CommitDownload(d, r) PROVE Storage'
  <2>1. PICK j : job' = [job EXCEPT ![d][r] = j] /\ j.pc = "publish"
    BY <1>8, JobShapes DEF CommitDownload
  <2>2. job'[d][r] = j /\ Carrying(d, r) /\ UNCHANGED << inspQ, callQ, files >>
    BY <1>8, <2>1 DEF TypeInv, JobOK, CommitDownload, JobAt, Carrying, queues
  <2>3. There(job[d][r].path, k) /\ Loaded(d, r) \in Records
    BY <1>0, <1>2, <1>8, LoadedGood DEF CommitDownload, JobAt, JobHolds
  <2> DEFINE new == Quarantined(Loaded(d, r), job[d][r].path)
  <2>4. new.qpath = job[d][r].path /\ new.status = "quarantined"
    BY <2>3 DEF Quarantined, Records
  <2>5. rec' = [rec EXCEPT ![k] = new]
    BY <1>0, <1>8 DEF CommitDownload
  <2> HIDE DEF new
  <2>6. rec'[k] = new
    BY <2>5 DEF TypeInv, RecOK
  <2>7. JobHolds(job[d][r], k)'
    BY <2>1, <2>2, <2>3, <2>4, <2>6 DEF JobHolds, There
  <2> QED BY <1>0, <1>8, <2>2, <2>4, <2>6, <2>7, CarrierStep DEF JobStep
<1>9. ASSUME NEW old \in Records, NEW category, FailJob(d, r, old, category), Carrying(d, r),
             JobStep(d, r), UNCHANGED << inspQ, callQ, files >>,
             old.qpath = None \/ (old.qpath = rec[k].qpath /\ There(rec[k].qpath, k))
      PROVE  Storage'
  <2> DEFINE new == ApplyFailurePolicy(old, category)
  <2>1. PICK j : job' = [job EXCEPT ![d][r] = j] /\ j.pc \in {"reschedule", "done"}
    BY <1>9, JobShapes DEF FailJob
  <2>2. job'[d][r] = j
    BY <2>1 DEF TypeInv, JobOK
  <2>3. new.qpath = old.qpath
    BY <1>9 DEF ApplyFailurePolicy, Records
  <2>4. rec' = [rec EXCEPT ![k] = new]
    BY <1>0, <1>9 DEF FailJob
  <2> HIDE DEF new
  <2>5. rec'[k] = new
    BY <2>4 DEF TypeInv, RecOK
  <2>6. JobHolds(job[d][r], k)'
    BY <2>1, <2>2 DEF JobHolds
  <2>7. rec'[k].qpath # None => There(rec[k].qpath, k)'
    BY <1>9, <2>3, <2>5 DEF There
  <2> QED BY <1>0, <1>9, <2>6, <2>7, CarrierStep
<1>10. ASSUME DownloadFails(d, r) PROVE Storage'
  <2>1. PICK category : FailJob(d, r, Loaded(d, r), category)
    BY <1>10 DEF DownloadFails
  <2>2. Loaded(d, r) \in Records /\ Loaded(d, r).qpath = None
    BY <1>10, LoadedGood DEF DownloadFails, JobAt, RowGood
  <2>3. Carrying(d, r) /\ UNCHANGED << inspQ, callQ, files >> /\ JobStep(d, r)
    BY <1>10 DEF DownloadFails, JobAt, Carrying, queues, JobStep
  <2> PICK old : old = Loaded(d, r)
    OBVIOUS
  <2>4. old \in Records /\ FailJob(d, r, old, category) /\ old.qpath = None
    BY <2>1, <2>2
  <2> QED BY <1>9, <2>3, <2>4
<1>11. ASSUME PublishInspectionFails(d, r) PROVE Storage'
  <2>1. FailJob(d, r, rec[k], "automatic") /\ There(rec[k].qpath, k)
    BY <1>0, <1>2, <1>11 DEF PublishInspectionFails, JobAt, JobHolds
  <2>2. Carrying(d, r) /\ UNCHANGED << inspQ, callQ, files >> /\ JobStep(d, r)
    BY <1>11 DEF PublishInspectionFails, JobAt, Carrying, queues, JobStep
  <2> PICK old : old = rec[k]
    OBVIOUS
  <2>3. /\ old \in Records /\ FailJob(d, r, old, "automatic")
        /\ old.qpath = rec[k].qpath /\ There(rec[k].qpath, k)
    BY <1>2, <2>1
  <2> QED BY <1>9, <2>2, <2>3
<1>12. ASSUME RetryDispatchFails(d, r) PROVE Storage'
  <2>1. FailJob(d, r, rec[k], "automatic") /\ JobAt(d, r, "dispatch")
    BY <1>0, <1>12 DEF RetryDispatchFails
  <2>2. Carrying(d, r) /\ UNCHANGED << inspQ, callQ, files >> /\ JobStep(d, r)
    BY <1>12 DEF RetryDispatchFails, JobAt, Carrying, queues, JobStep
  <2>3. rec[k].qpath = None
    BY <1>3, <2>1, <2>2 DEF JobAt, JobStatus, RowGood
  <2> QED BY <1>2, <1>9, <2>1, <2>2, <2>3
<1>13. ASSUME PublishInspection(d, r) PROVE Storage'
  <2>1. PICK j : job' = [job EXCEPT ![d][r] = j] /\ j.pc = "done"
    BY <1>13, JobShapes DEF PublishInspection
  <2>2. job'[d][r] = j /\ Carrying(d, r) /\ UNCHANGED << rec, callQ, files >>
    BY <1>13, <2>1 DEF TypeInv, JobOK, PublishInspection, JobAt, Carrying, tables
  <2>3. There(rec[k].qpath, k)' /\ JobHolds(job[d][r], k)'
    BY <1>2, <1>13, <2>1, <2>2 DEF PublishInspection, JobAt, JobHolds, There
  <2> QED BY <1>0, <1>13, <2>2, <2>3, CarrierStep DEF JobStep
<1>14. ASSUME RetryHandoff(d, r) PROVE Storage'
  <2>1. PICK j : job' = [job EXCEPT ![d][r] = j] /\ j.pc = "dispatch"
    BY <1>14, JobShapes DEF RetryHandoff
  <2>2. job'[d][r] = j /\ Carrying(d, r) /\ UNCHANGED << inspQ, callQ, files >>
    BY <1>14, <2>1 DEF TypeInv, JobOK, RetryHandoff, JobAt, Carrying, queues
  <2>3. rec'[k].status = "handoff_pending"
    BY <1>0, <1>2, <1>14 DEF RetryHandoff, HandoffPending, TypeInv, RecOK, Records
  <2>4. JobHolds(job[d][r], k)'
    BY <2>1, <2>2 DEF JobHolds
  <2> QED BY <1>0, <1>14, <2>2, <2>3, <2>4, CarrierStep DEF JobStep
<1>15. ASSUME RetryHandoffConflicts(d, r) PROVE Storage'
  <2>1. job'[d][r] = NoJob
    BY <1>15 DEF RetryHandoffConflicts, TypeInv, JobOK, NoJobs
  <2>2. Carrying(d, r) /\ UNCHANGED << rec, inspQ, callQ, files >>
    BY <1>15 DEF RetryHandoffConflicts, JobAt, Carrying, tables, queues
  <2>3. JobHolds(job[d][r], k)'
    BY <2>1 DEF JobHolds, NoJob
  <2>4. rec[k].status = "accepted"
    BY <1>3, <1>15, <2>2 DEF RetryHandoffConflicts, JobAt, JobStatus
  <2> QED BY <1>0, <1>15, <2>2, <2>3, <2>4, CarrierStep DEF JobStep
<1>16. ASSUME RetryDispatch(d, r) PROVE Storage'
  <2>1. PICK j : job' = [job EXCEPT ![d][r] = j] /\ j.pc = "mark"
    BY <1>16, JobShapes DEF RetryDispatch
  <2>2. job'[d][r] = j /\ Carrying(d, r) /\ UNCHANGED << rec, inspQ, files >>
    BY <1>16, <2>1 DEF TypeInv, JobOK, RetryDispatch, JobAt, Carrying, tables
  <2>3. rec[k].status = "handoff_pending"
    BY <1>3, <1>16, <2>2 DEF RetryDispatch, JobAt, JobStatus
  <2>4. calls[k] # <<>>
    BY <1>3, <2>2, <2>3 DEF RowGood
  <2>5. JobHolds(job[d][r], k)'
    BY <2>1, <2>2 DEF JobHolds
  <2> QED BY <1>0, <1>16, <2>2, <2>3, <2>4, <2>5, CarrierStep DEF JobStep
<1>17. ASSUME RetryMarkSubmitted(d, r) PROVE Storage'
  <2>1. PICK j : job' = [job EXCEPT ![d][r] = j] /\ j.pc = "done"
    BY <1>17, JobShapes DEF RetryMarkSubmitted
  <2>2. job'[d][r] = j /\ Carrying(d, r) /\ UNCHANGED << inspQ, callQ, files >>
    BY <1>17, <2>1 DEF TypeInv, JobOK, RetryMarkSubmitted, JobAt, Carrying, queues
  <2>3. rec'[k].status = "submitted"
    BY <1>0, <1>2, <1>17 DEF RetryMarkSubmitted, Submitted, TypeInv, RecOK, Records
  <2>4. JobHolds(job[d][r], k)'
    BY <2>1, <2>2 DEF JobHolds
  <2> QED BY <1>0, <1>17, <2>2, <2>3, <2>4, CarrierStep DEF JobStep
<1> QED BY <1>5, <1>6, <1>7, <1>8, <1>10, <1>11, <1>12, <1>13, <1>14, <1>15, <1>16, <1>17,
           DownloadIsKept DEF JobStep

-----------------------------------------------------------------------------
(* The inspectors keep the storage                                         *)

LEMMA ReceivingKeepsStorage ==
    ASSUME TypeInv, TypeInv', Custody, Storage, NEW i \in Inspectors, ReceiveInspection(i)
    PROVE  Storage'
<1> PICK k \in Keys :
      /\ inspQ[k] > 0
      /\ inspQ' = [inspQ EXCEPT ![k] = @ - 1]
      /\ insp' = IF Enabled /\ rec[k].status = "quarantined"
                 THEN [insp EXCEPT ![i].pc = "loaded", ![i].key = k,
                                   ![i].loaded = rec[k], ![i].edit = rec[k]]
                 ELSE IF Enabled
                 THEN [insp EXCEPT ![i].pc = "finalize", ![i].key = k]
                 ELSE insp
  BY DEF ReceiveInspection
<1>0. UNCHANGED << rec, calls, callQ, job, dl, files, vetted >>
  BY DEF ReceiveInspection, tables
<1>1. insp[i] \in InspectorStates /\ insp \in [Inspectors -> GoodInspectors]
  BY DEF TypeInv, InspOK, GoodInspectors
<1>2. \A j \in Inspectors : j # i => insp'[j] = insp[j]
  BY <1>1
<1>3. \/ insp'[i].pc = "loaded" /\ insp'[i].key = k /\ insp'[i].edit = rec[k]
      \/ insp'[i].pc = "finalize" \/ insp'[i] = insp[i]
  BY <1>1 DEF InspectorStates
<1>4. StepKeeps({k})
  <2>1. RowsKept({k}) /\ CallsKept({k}) /\ JobsKept({k})
    BY <1>0, KeptByNoChange DEF RowsKept, CallsKept, TypeInv, InspQOK
  <2>2. InspectorsKept({k})
    BY <1>2, <1>3 DEF InspectorsKept, Busy, Working, HandingOver
  <2> QED BY <2>1, <2>2 DEF StepKeeps
<1>5. StorageAt(k)
  BY DEF Storage
<1>6. RowHolds(k)' /\ JobsHold(k)'
  <2>1. inspQ'[k] > 0 => inspQ[k] > 0
    OBVIOUS
  <2> QED BY <1>0, <1>5, <2>1 DEF StorageAt, RowHolds, JobsHold, JobHolds, There, Kept, Chosen
<1>7. InspectorsHold(k)'
  <2> SUFFICES ASSUME NEW j \in Inspectors, insp'[j].key = k PROVE InspectorHolds(insp[j], k)'
    BY DEF InspectorsHold
  <2>1. There(rec[k].qpath, k)
    BY <1>5 DEF StorageAt, RowHolds
  <2>2. CASE insp'[j] = insp[j]
    BY <1>0, <1>5, <2>2 DEF StorageAt, InspectorsHold, InspectorHolds, There, Kept
  <2>3. CASE insp'[j].pc = "finalize"
    BY <2>3 DEF InspectorHolds
  <2>4. CASE insp'[j].pc = "loaded" /\ insp'[j].edit = rec[k]
    BY <1>0, <2>1, <2>4 DEF InspectorHolds, There
  <2> QED BY <1>2, <1>3, <2>2, <2>3, <2>4
<1>8. FilesKept({k}) /\ FilesNamed' /\ AcceptedVetted' /\ OneThread'
  BY <1>0, FilesUntouched DEF Storage, OneThread, Active
<1> QED BY <1>4, <1>6, <1>7, <1>8, StorageOneKey DEF StorageAt

\* The step of an inspector that has its record in hand.
LEMMA InspectorStorage ==
    ASSUME RecordsApart, TypeInv, TypeInv', Custody, Storage,
           NEW i \in Inspectors, InspectorStep(i), Busy(i), NEW k \in Keys, k = insp[i].key,
           FilesKept({k}), FilesNamed', AcceptedVetted', InspectorHolds(insp[i], k)', RowHolds(k)'
    PROVE  Storage'
<1>1. /\ StepKeeps({k}) /\ UNCHANGED job
      /\ \A j \in Inspectors : j # i => insp'[j] = insp[j]
  BY InspectorStepFrame
<1>2. CustodyAt(k)
  BY DEF Custody
<1>3. JobsHold(k)'
  <2>1. \A d \in Downloaders, r \in Rows : KeyOf[r] = k => ~Carrying(d, r)
    BY <1>2 DEF CustodyAt, JobsAt
  <2> QED BY <1>1, <2>1 DEF JobsHold, JobHolds, Carrying
<1>4. InspectorsHold(k)'
  <2> SUFFICES ASSUME NEW j \in Inspectors, insp'[j].key = k, j # i
               PROVE  InspectorHolds(insp[j], k)'
    BY DEF InspectorsHold
  <2>1. insp'[j] = insp[j] /\ ~Busy(j)
    BY <1>1, <1>2 DEF CustodyAt, InspectorsAt
  <2> QED BY <2>1 DEF InspectorHolds, Busy, Working, HandingOver
<1>5. OneThread'
  BY <1>1 DEF Storage, OneThread, Active
<1> QED BY <1>1, <1>3, <1>4, <1>5, StorageOneKey DEF StorageAt

LEMMA AppendedLast ==
    ASSUME NEW S, NEW s \in Seq(S), NEW x \in S
    PROVE  Append(s, x) # <<>> /\ Append(s, x)[Len(Append(s, x))] = x
<1>1. Len(s) \in Nat
  OBVIOUS
<1>2. Len(Append(s, x)) = Len(s) + 1
  OBVIOUS
<1>3. Append(s, x)[Len(s) + 1] = x
  OBVIOUS
<1> QED BY <1>1, <1>2, <1>3

\* A file is moved within the layout under a name that no other key has.
LEMMA DestinationIsOwn ==
    ASSUME FilesNamed, TypeInv, NEW i \in Inspectors, NEW k \in Keys, k = insp[i].key,
           There(insp[i].edit.qpath, k), NEW dir \in {"accepted", "rejected"}, NEW to,
           to = Destination(i, dir)
    PROVE  /\ to.dir = dir /\ to.base = BaseOf[k]
           /\ to.suffix # <<>> => to.suffix[Len(to.suffix)] = k
           /\ to \in DOMAIN files => files[to] = k
<1> PICK from : from = insp[i].edit.qpath
  OBVIOUS
<1>1. from \in Paths /\ from.suffix \in Seq(Keys) /\ from.base = BaseOf[k]
      /\ (from.suffix # <<>> => from.suffix[Len(from.suffix)] = k)
  BY DEF There, TypeInv, FilesOK, FilesNamed, Paths
<1> DEFINE t == [dir |-> dir, base |-> from.base, suffix |-> from.suffix]
           u == [t EXCEPT !.suffix = Append(from.suffix, k)]
<1>2. to = IF t \in DOMAIN files THEN u ELSE t
  BY DEF Destination, UniqueDestination
<1>3. u.dir = dir /\ u.base = BaseOf[k] /\ u.suffix = Append(from.suffix, k)
  BY <1>1
<1>4. u.suffix # <<>> /\ u.suffix[Len(u.suffix)] = k
  BY <1>1, <1>3, AppendedLast
<1>5. CASE t \in DOMAIN files
  <2>1. to = u
    BY <1>2, <1>5
  <2> HIDE DEF u
  <2> QED BY <1>3, <1>4, <2>1 DEF FilesNamed
<1>6. CASE t \notin DOMAIN files
  <2>1. to = t
    BY <1>2, <1>6
  <2> QED BY <1>1, <1>6, <2>1
<1> QED BY <1>5, <1>6

LEMMA MoveKeepsFiles ==
    ASSUME TypeInv, Custody, Storage, NEW i \in Inspectors, Working(i),
           NEW k \in Keys, k = insp[i].key,
           There(insp[i].edit.qpath, k), NEW dir \in {"accepted", "rejected"}, NEW to,
           to = Destination(i, dir), to # None, files' = Moved(insp[i].edit.qpath, to),
           dir = "accepted" => k \in vetted, vetted' = vetted,
           UNCHANGED << rec, calls, inspQ, callQ, job >>
    PROVE  /\ FilesKept({k}) /\ FilesNamed' /\ AcceptedVetted' /\ RowHolds(k)'
           /\ dir = "accepted" => Kept(to, k)'
<1> PICK from : from = insp[i].edit.qpath
  OBVIOUS
<1>1. /\ to.dir = dir /\ to.base = BaseOf[k]
      /\ to.suffix # <<>> => to.suffix[Len(to.suffix)] = k
      /\ to \in DOMAIN files => files[to] = k
  BY DestinationIsOwn DEF Storage
<1>2. from \in DOMAIN files /\ files[from] = k /\ from.dir = "quarantine"
  BY DEF There
<1>3. /\ DOMAIN files' = (DOMAIN files \ {from}) \cup {to} /\ files'[to] = k
      /\ \A p \in DOMAIN files : p # from /\ p # to => files'[p] = files[p]
  BY <1>2 DEF Moved
<1>4. \A h : h # k => \A p : /\ There(p, h) => There(p, h)'
                             /\ Kept(p, h) => Kept(p, h)'
                             /\ Chosen(p, h) => Chosen(p, h)'
  BY <1>1, <1>2, <1>3 DEF There, Kept, Chosen
<1>5. FilesKept({k})
  BY <1>4 DEF FilesKept
<1>6. FilesNamed'
  <2> SUFFICES ASSUME NEW p \in DOMAIN files'
               PROVE  /\ p.base = BaseOf[files'[p]]
                      /\ p.suffix # <<>> => files'[p] = p.suffix[Len(p.suffix)]
    BY DEF FilesNamed
  <2>1. CASE p = to
    BY <1>1, <1>3, <2>1
  <2>2. CASE p # to
    BY <1>3, <2>2 DEF Storage, FilesNamed
  <2> QED BY <2>1, <2>2
<1>7. AcceptedVetted'
  BY <1>1, <1>3 DEF Storage, AcceptedVetted
<1>8. RowHolds(k)'
  <2>1. StorageAt(k) /\ CustodyAt(k) /\ Busy(i) /\ inspQ[k] \in Nat
    BY DEF Storage, Custody, Busy, TypeInv, InspQOK
  <2>2. inspQ[k] = 0 /\ rec[k].status = "quarantined"
    BY <2>1, WorkingInspector DEF CustodyAt, QueueAt
  <2>3. \A p : Kept(p, k) => Kept(p, k)'
    BY <1>1, <1>2, <1>3 DEF Kept
  <2> QED BY <2>1, <2>2, <2>3 DEF StorageAt, RowHolds
<1>9. dir = "accepted" => Kept(to, k)'
  BY <1>1, <1>3 DEF Kept
<1> QED BY <1>5, <1>6, <1>7, <1>8, <1>9

\* Nothing is taken up and no row is written: jobs and inspectors go on or
\* put their records down.
LEMMA NothingTakenUp ==
    ASSUME TypeInv, TypeInv', Storage,
           UNCHANGED << rec, calls, callQ, files, vetted >>,
           \A h \in Keys : inspQ'[h] =< inspQ[h],
           \A d \in Downloaders, r \in Rows : Active(d, r)' => job'[d][r] = job[d][r],
           \A i \in Inspectors : Busy(i)' => insp'[i] = insp[i]
    PROVE  Storage'
<1>1. RowsKept({}) /\ CallsKept({}) /\ InspectorsKept({})
  BY DEF RowsKept, CallsKept, InspectorsKept
<1>2. JobsKept({})
  BY DEF JobsKept, Carrying, Active
<1>3. OneThread'
  BY DEF Storage, OneThread, Active
<1> QED BY <1>1, <1>2, <1>3, StorageFrame DEF StepKeeps

\* A write to a row that leaves its quarantine path and does not settle it.
LEMMA RowTouchStorage ==
    ASSUME TypeInv, TypeInv', Storage, NEW k \in Keys, NEW new,
           rec' = [rec EXCEPT ![k] = new], new.qpath = rec[k].qpath,
           new.status = rec[k].status \/ new.status \notin {"retry_scheduled", "failed"},
           UNCHANGED << calls, inspQ, callQ, job, insp, files, vetted >>
    PROVE  Storage'
<1>1. rec'[k] = new /\ \A h \in Keys \ {k} : rec'[h] = rec[h]
  BY DEF TypeInv, RecOK
<1>2. RowsKept({k}) /\ CallsKept({k}) /\ JobsKept({k}) /\ InspectorsKept({k})
  BY <1>1, KeptByNoChange DEF RowsKept, CallsKept, TypeInv, InspQOK
<1>3. FilesKept({k}) /\ FilesNamed' /\ AcceptedVetted' /\ OneThread'
  BY FilesUntouched DEF Storage, OneThread, Active
<1>4. StorageAt(k)
  BY DEF Storage
<1>5. RowHolds(k)' /\ InspectorsHold(k)'
  BY <1>1, <1>4 DEF StorageAt, RowHolds, InspectorsHold, InspectorHolds, There, Kept
<1>6. JobsHold(k)'
  BY <1>1, <1>4 DEF StorageAt, JobsHold, JobHolds, There, Chosen
<1> QED BY <1>2, <1>3, <1>5, <1>6, StorageOneKey DEF StorageAt, StepKeeps

\* The inspector and its file.
LEMMA InspectorInHand ==
    ASSUME TypeInv, Custody, Storage, NEW i \in Inspectors, Busy(i)
    PROVE  \E k \in Keys : k = insp[i].key /\ StorageAt(k) /\ InspectorHolds(insp[i], k)
                           /\ inspQ[k] = 0 /\ rec[k] \in Records
<1>1. PICK k \in Keys : k = insp[i].key
  BY BusyInspector
<1>2. StorageAt(k) /\ CustodyAt(k) /\ rec[k] \in Records /\ inspQ[k] \in Nat
  BY DEF Storage, Custody, TypeInv, RecOK, InspQOK
<1>3. InspectorHolds(insp[i], k)
  BY <1>1, <1>2 DEF StorageAt, InspectorsHold
<1>4. inspQ[k] = 0
  BY <1>1, <1>2 DEF CustodyAt, QueueAt
<1> QED BY <1>1, <1>2, <1>3, <1>4

\* No inspector ever misses its file.
LEMMA FileIsFound ==
    ASSUME TypeInv, Custody, Storage, NEW i \in Inspectors
    PROVE  ~InspectMissingFile(i) /\ ~InspectionRaises(i)
<1> SUFFICES ASSUME InspectMissingFile(i) \/ InspectionRaises(i) PROVE FALSE
  OBVIOUS
<1>1. insp[i].pc \in {"loaded", "inspecting"} /\ Busy(i)
  BY DEF InspectMissingFile, InspectionRaises, InspectorAt, Busy, Working
<1>2. PICK k \in Keys : InspectorHolds(insp[i], k)
  BY <1>1, InspectorInHand
<1>3. There(insp[i].edit.qpath, k)
  BY <1>1, <1>2 DEF InspectorHolds
<1>4. CASE InspectMissingFile(i)
  <2>1. insp[i].edit = insp[i].loaded
    BY <1>4 DEF InspectMissingFile, InspectorAt, TypeInv, InspOK, GoodInspectors
  <2> QED BY <1>3, <1>4, <2>1 DEF InspectMissingFile, InQuarantine, There
<1>5. CASE InspectionRaises(i)
  BY <1>3, <1>5 DEF InspectionRaises, There
<1> QED BY <1>4, <1>5

\* From the quarantined file to the verdict in the session.
LEMMA InspectingKeepsStorage ==
    ASSUME RecordsApart, TypeInv, TypeInv', Custody, Storage, NEW i \in Inspectors,
           \/ BeginInspection(i) \/ Inspect(i) \/ MoveToRejected(i) \/ MoveToAccepted(i)
    PROVE  Storage'
<1>1. /\ UNCHANGED << rec, calls, inspQ, callQ, job >> /\ Busy(i) /\ Working(i)
      /\ InspectorStep(i)
  BY DEF BeginInspection, Inspect, MoveToRejected, MoveToAccepted, InspectorAt, Busy, Working,
         tables, queues, InspectorStep
<1>2. PICK k \in Keys : /\ k = insp[i].key /\ StorageAt(k) /\ InspectorHolds(insp[i], k)
                        /\ inspQ[k] = 0 /\ rec[k] \in Records
  BY <1>1, InspectorInHand
<1>3. insp[i] \in InspectorStates /\ insp[i].edit \in Records
  BY <1>1, WorkingInspector DEF TypeInv, InspOK, GoodInspectors
<1>4. PICK e : e = insp[i].edit /\ e \in Records
  BY <1>3
<1>5. There(e.qpath, k)
  BY <1>2, <1>4 DEF BeginInspection, Inspect, MoveToRejected, MoveToAccepted, InspectorAt,
                    InspectorHolds
<1>6. ASSUME UNCHANGED files, vetted \subseteq vetted', InspectorHolds(insp[i], k)'
      PROVE  Storage'
  <2>1. FilesKept({k}) /\ FilesNamed' /\ AcceptedVetted'
    BY <1>6, FilesUntouched DEF Storage
  <2>2. RowHolds(k)'
    BY <1>1, <1>2, <1>6 DEF StorageAt, RowHolds, There, Kept
  <2> QED BY <1>1, <1>2, <1>6, <2>1, <2>2, InspectorStorage
<1>7. ASSUME BeginInspection(i) PROVE Storage'
  <2>1. PICK w : /\ insp' = [insp EXCEPT ![i] = w]
                 /\ w.pc = "idle" \/ (w.pc = "inspecting" /\ w.edit = e)
    <3>1. CASE insp' = [insp EXCEPT ![i] = IdleInspector]
      <4>1. IdleInspector.pc = "idle"
        BY DEF IdleInspector
      <4> QED BY <3>1, <4>1
    <3>2. CASE insp' = [insp EXCEPT ![i].pc = "inspecting"]
      <4>1. InspectorTo(i, "inspecting")
        BY <3>2 DEF InspectorTo
      <4> QED BY <1>4, <4>1, InspectorShapes
    <3> QED BY <1>7, <3>1, <3>2 DEF BeginInspection
  <2>2. insp'[i] = w /\ UNCHANGED << files, vetted >>
    BY <1>7, <2>1, InspectorAfter DEF BeginInspection
  <2>3. InspectorHolds(insp[i], k)'
    BY <1>5, <2>1, <2>2 DEF InspectorHolds, There
  <2> QED BY <1>6, <2>2, <2>3
<1>8. ASSUME Inspect(i) PROVE Storage'
  <2>1. PICK checks \in Findings :
          /\ insp' = [insp EXCEPT ![i].edit.checks = checks,
                        ![i].pc = IF Promotable(checks) THEN "passed" ELSE "refused"]
          /\ vetted' = IF checks = AllPassed THEN vetted \cup {files[e.qpath]} ELSE vetted
    BY <1>4, <1>8 DEF Inspect
  <2> DEFINE f == [e EXCEPT !.checks = checks]
             pc == IF Promotable(checks) THEN "passed" ELSE "refused"
             w == [insp[i] EXCEPT !.edit = f, !.pc = pc]
  <2>2. insp' = [insp EXCEPT ![i] = w]
    BY <1>4, <2>1 DEF TypeInv, InspOK
  <2>3. w.pc = pc /\ w.edit = f /\ f.qpath = e.qpath
    BY <1>3, <1>4 DEF InspectorStates, Records
  <2>4. pc = "passed" => k \in vetted'
    BY <1>5, <2>1, PromotableIsAllPassed DEF There
  <2>5. pc \in {"passed", "refused"}
    OBVIOUS
  <2> HIDE DEF f, pc, w
  <2>6. insp'[i] = w /\ UNCHANGED files /\ vetted \subseteq vetted'
    BY <1>8, <2>1, <2>2, InspectorAfter DEF Inspect
  <2>7. InspectorHolds(insp[i], k)'
    BY <1>5, <2>3, <2>4, <2>5, <2>6 DEF InspectorHolds, There
  <2> QED BY <1>6, <2>6, <2>7
<1>9. ASSUME NEW new, Decide(i, new), UNCHANGED << files, vetted >>,
             new.status \in {"failed", "retry_scheduled"}, new.qpath = e.qpath
      PROVE  Storage'
  <2>1. PICK w : insp' = [insp EXCEPT ![i] = w] /\ w.pc = "commit" /\ w.edit = new
    BY <1>9, InspectorShapes
  <2>2. insp'[i] = w
    BY <2>1, InspectorAfter
  <2>3. InspectorHolds(insp[i], k)'
    BY <1>5, <1>9, <2>1, <2>2 DEF InspectorHolds, There
  <2> QED BY <1>6, <1>9, <2>3
<1>10. ASSUME NEW dir \in {"accepted", "rejected"}, NEW to, to = Destination(i, dir),
              insp[i].pc \in {"refused", "passed"}, dir = "accepted" => insp[i].pc = "passed",
              files' = Moved(e.qpath, to), vetted' = vetted,
              NEW new, Decide(i, new),
              IF dir = "accepted" THEN new.status = "accepted" /\ new.spath = to
                                  ELSE new.status = "rejected"
       PROVE  Storage'
  <2>1. PICK w : insp' = [insp EXCEPT ![i] = w] /\ w.pc = "commit" /\ w.edit = new
    BY <1>10, InspectorShapes
  <2>2. insp'[i] = w
    BY <2>1, InspectorAfter
  <2>3. to # None
    <3>1. to \in Paths
      BY <1>10, DestinationType DEF Dirs
    <3> QED BY <3>1, NoneIsNoValue
  <2>4. dir = "accepted" => k \in vetted
    BY <1>2, <1>10 DEF InspectorHolds
  <2>5. /\ FilesKept({k}) /\ FilesNamed' /\ AcceptedVetted' /\ RowHolds(k)'
        /\ dir = "accepted" => Kept(to, k)'
    BY <1>1, <1>2, <1>4, <1>5, <1>10, <2>3, <2>4, MoveKeepsFiles
  <2>6. InspectorHolds(insp[i], k)'
    BY <1>10, <2>1, <2>2, <2>4, <2>5 DEF InspectorHolds, Kept
  <2> QED BY <1>1, <1>2, <2>5, <2>6, InspectorStorage
<1>11. ASSUME MoveToRejected(i) PROVE Storage'
  <2> PICK to : to = Destination(i, "rejected")
    OBVIOUS
  <2>1. /\ insp[i].pc = "refused" /\ vetted' = vetted
        /\ \/ files' = Moved(e.qpath, to) /\ Decide(i, Rejected(e, to))
           \/ files' = files /\ Decide(i, MarkFailed(e))
    BY <1>4, <1>5, <1>11 DEF MoveToRejected, InspectorAt, There
  <2>2. /\ Rejected(e, to).status = "rejected"
        /\ MarkFailed(e).status = "failed" /\ MarkFailed(e).qpath = e.qpath
    BY <1>4 DEF Rejected, MarkFailed, Records
  <2>3. CASE files' = Moved(e.qpath, to) /\ Decide(i, Rejected(e, to))
    <3> PICK new : new = Rejected(e, to)
      OBVIOUS
    <3>1. Decide(i, new) /\ new.status = "rejected" /\ to = Destination(i, "rejected")
      BY <2>2, <2>3
    <3> QED BY <1>10, <2>1, <2>3, <3>1
  <2>4. CASE files' = files /\ Decide(i, MarkFailed(e))
    <3> PICK new : new = MarkFailed(e)
      OBVIOUS
    <3>1. Decide(i, new) /\ new.status = "failed" /\ new.qpath = e.qpath
      BY <2>2, <2>4
    <3> QED BY <1>9, <2>1, <2>4, <3>1
  <2> QED BY <2>1, <2>3, <2>4
<1>12. ASSUME MoveToAccepted(i) PROVE Storage'
  <2> PICK to : to = Destination(i, "accepted")
    OBVIOUS
  <2>1. /\ insp[i].pc = "passed" /\ vetted' = vetted
        /\ \/ files' = Moved(e.qpath, to) /\ Decide(i, Accepted(e, to))
           \/ files' = files /\ Decide(i, ApplyFailurePolicy(e, "automatic"))
    BY <1>4, <1>12 DEF MoveToAccepted, InspectorAt
  <2>2. /\ Accepted(e, to).status = "accepted" /\ Accepted(e, to).spath = to
        /\ ApplyFailurePolicy(e, "automatic").status \in {"failed", "retry_scheduled"}
        /\ ApplyFailurePolicy(e, "automatic").qpath = e.qpath
    BY <1>4 DEF Accepted, ApplyFailurePolicy, Records
  <2>3. CASE files' = Moved(e.qpath, to) /\ Decide(i, Accepted(e, to))
    <3> PICK new : new = Accepted(e, to)
      OBVIOUS
    <3>1. /\ Decide(i, new) /\ new.status = "accepted" /\ new.spath = to
          /\ to = Destination(i, "accepted")
      BY <2>2, <2>3
    <3> QED BY <1>10, <2>1, <2>3, <3>1
  <2>4. CASE files' = files /\ Decide(i, ApplyFailurePolicy(e, "automatic"))
    <3> PICK new : new = ApplyFailurePolicy(e, "automatic")
      OBVIOUS
    <3>1. Decide(i, new) /\ new.status \in {"failed", "retry_scheduled"} /\ new.qpath = e.qpath
      BY <2>2, <2>4
    <3> QED BY <1>9, <2>1, <2>4, <3>1
  <2> QED BY <2>1, <2>3, <2>4
<1> QED BY <1>7, <1>8, <1>11, <1>12

\* From the verdict to the end of the handoff: the files stay.
LEMMA VerdictKeepsStorage ==
    ASSUME RecordsApart, TypeInv, TypeInv', Custody, Storage, NEW i \in Inspectors,
           CommitVerdict(i) \/ CommitHandoff(i) \/ Dispatch(i) \/ DispatchFails(i) \/ MarkSubmitted(i)
    PROVE  Storage'
<1>1. UNCHANGED << inspQ, job, files, vetted >> /\ Busy(i) /\ InspectorStep(i)
  BY DEF CommitVerdict, CommitHandoff, Dispatch, DispatchFails, MarkSubmitted, InspectorAt,
         Busy, Working, HandingOver, tables, queues, InspectorStep
<1>2. PICK k \in Keys : /\ k = insp[i].key /\ StorageAt(k) /\ InspectorHolds(insp[i], k)
                        /\ inspQ[k] = 0 /\ rec[k] \in Records
  BY <1>1, InspectorInHand
<1>3. insp[i] \in InspectorStates /\ insp \in [Inspectors -> GoodInspectors]
  BY DEF TypeInv, InspOK, GoodInspectors
<1>4. ASSUME insp'[i].pc \in {"idle", "dispatch", "mark", "reschedule", "reschedule_early", "finalize"},
             \A j \in DOMAIN calls'[k] : Kept(calls'[k][j], k),
             calls'[k] # <<>> => k \in vetted,
             callQ'[k] > 0 => calls'[k] # <<>>,
             rec'[k].status \in {"retry_scheduled", "failed"} /\ rec'[k].qpath # None =>
               There(rec'[k].qpath, k)
      PROVE  Storage'
  <2>1. FilesKept({k}) /\ FilesNamed' /\ AcceptedVetted'
    BY <1>1, FilesUntouched DEF Storage
  <2>2. RowHolds(k)'
    BY <1>1, <1>2, <1>4 DEF RowHolds, There, Kept
  <2>3. InspectorHolds(insp[i], k)'
    BY <1>4 DEF InspectorHolds
  <2> QED BY <1>1, <1>2, <2>1, <2>2, <2>3, InspectorStorage
<1>5. ASSUME CommitVerdict(i) PROVE Storage'
  <2>1. /\ Working(i) /\ insp[i].pc = "commit" /\ insp[i].edit.status # "accepted"
        /\ rec' = [rec EXCEPT ![k] = Flush(insp[i].loaded, insp[i].edit, rec[k])]
        /\ UNCHANGED << calls, callQ >>
    BY <1>2, <1>5 DEF CommitVerdict, InspectorAt, Working, Written, queues
  <2>2. SameRow(Flush(insp[i].loaded, insp[i].edit, rec[k]), insp[i].edit)
    BY <1>2, <2>1, WorkingInspector, FlushOfFresh
  <2>3. rec'[k].status = insp[i].edit.status /\ rec'[k].qpath = insp[i].edit.qpath
    <3>1. rec'[k] = Flush(insp[i].loaded, insp[i].edit, rec[k])
      BY <2>1 DEF TypeInv, RecOK
    <3> QED BY <2>2, <3>1 DEF SameRow
  <2>4. insp'[i].pc \in {"reschedule_early", "finalize"}
    <3>1. PICK pc \in {"reschedule_early", "finalize"} :
            insp' = [insp EXCEPT ![i] = [IdleInspector EXCEPT !.key = k, !.pc = pc]]
      BY <1>2, <1>5 DEF CommitVerdict
    <3> QED BY <1>3, <3>1, IdleWithKey
  <2> QED BY <1>2, <1>4, <2>1, <2>3, <2>4 DEF StorageAt, RowHolds, InspectorHolds
<1>6. ASSUME CommitHandoff(i) PROVE Storage'
  <2>1. /\ insp[i].pc = "commit" /\ insp[i].edit.status = "accepted" /\ UNCHANGED callQ
        /\ Kept(insp[i].edit.spath, k) /\ k \in vetted
    BY <1>2, <1>6 DEF CommitHandoff, InspectorAt, InspectorHolds, queues
  <2>2. CASE UNCHANGED << rec, calls >> /\ insp' = [insp EXCEPT ![i] = IdleInspector]
    <3>1. insp'[i].pc = "idle"
      BY <1>3, <2>2 DEF IdleInspector
    <3> QED BY <1>2, <1>4, <2>1, <2>2, <3>1 DEF StorageAt, RowHolds
  <2>3. CASE ~(UNCHANGED << rec, calls >> /\ insp' = [insp EXCEPT ![i] = IdleInspector])
    <3> PICK n : n = IF insp[i].edit.call # 0 THEN insp[i].edit.call ELSE Len(calls[k]) + 1
      OBVIOUS
    <3>1. /\ rec' = [rec EXCEPT ![k] = Flush(insp[i].loaded, HandoffPending(insp[i].edit, n), rec[k])]
          /\ \/ UNCHANGED calls
             \/ calls' = [calls EXCEPT ![k] = Append(@, insp[i].edit.spath)]
          /\ insp' = [insp EXCEPT ![i] = [IdleInspector EXCEPT !.key = k, !.pc = "dispatch"]]
      BY <1>2, <1>6, <2>3 DEF CommitHandoff
    <3>2. insp'[i].pc = "dispatch"
      BY <1>3, <3>1, IdleWithKey
    <3>3. rec'[k].status = "handoff_pending"
      <4>1. Working(i)
        BY <2>1 DEF Working
      <4>2. PICK b : b = HandoffPending(insp[i].edit, n)
        OBVIOUS
      <4>3. b.status = "handoff_pending"
        BY <4>1, <4>2, WorkingInspector DEF HandoffPending, Records
      <4>4. insp[i].loaded.status = "quarantined" /\ insp[i].loaded \in Records
        BY <4>1, WorkingInspector
      <4>5. Flush(insp[i].loaded, b, rec[k]).status = "handoff_pending"
        BY <1>2, <4>3, <4>4 DEF Flush, Records
      <4>6. rec'[k] = Flush(insp[i].loaded, b, rec[k])
        BY <3>1, <4>2 DEF TypeInv, RecOK
      <4> QED BY <4>5, <4>6
    <3>4. CASE UNCHANGED calls
      BY <1>2, <1>4, <2>1, <3>2, <3>3, <3>4 DEF StorageAt, RowHolds
    <3>5. CASE calls' = [calls EXCEPT ![k] = Append(@, insp[i].edit.spath)]
      <4>1. PICK c \in Seq(Paths), p \in Paths : c = calls[k] /\ p = insp[i].edit.spath
        BY <2>1 DEF TypeInv, CallsOK, FilesOK, Kept
      <4>2. calls'[k] = Append(c, p)
        BY <3>5, <4>1 DEF TypeInv, CallsOK
      <4>3. \A j \in DOMAIN c : Kept(c[j], k)
        BY <1>2, <4>1 DEF StorageAt, RowHolds
      <4>4. \A j \in DOMAIN Append(c, p) : Append(c, p)[j] = p \/ (j \in DOMAIN c /\ Append(c, p)[j] = c[j])
        BY <4>1
      <4>5. \A j \in DOMAIN calls'[k] : Kept(calls'[k][j], k)
        BY <2>1, <4>1, <4>2, <4>3, <4>4
      <4>6. calls'[k] # <<>>
        BY <4>1, <4>2, AppendedLast
      <4> QED BY <1>4, <2>1, <3>2, <3>3, <4>5, <4>6
    <3> QED BY <3>1, <3>4, <3>5
  <2> QED BY <2>2, <2>3
<1>7. ASSUME Dispatch(i) \/ DispatchFails(i) \/ MarkSubmitted(i) PROVE Storage'
  <2>1. /\ UNCHANGED calls /\ HandingOver(i)
        /\ \/ InspectorTo(i, "mark") \/ InspectorTo(i, "reschedule") \/ InspectorTo(i, "finalize")
    BY <1>7 DEF Dispatch, DispatchFails, MarkSubmitted, tables, InspectorAt, HandingOver
  <2>2. PICK w : insp' = [insp EXCEPT ![i] = w] /\ w.pc \in {"mark", "reschedule", "finalize"}
    BY <2>1, InspectorShapes
  <2>3. insp'[i] = w
    BY <2>2, InspectorAfter
  <2>4. rec[k].qpath = None /\ calls[k] # <<>>
    <3>1. RowGood(k, rec[k], calls[k]) /\ InspectorGood(insp[i], rec[k])
      BY <1>1, <1>2, BusyInspector
    <3> QED BY <2>1, <3>1 DEF RowGood, InspectorGood, HandingOver
  <2>5. rec'[k].qpath = None
    <3> PICK r : r = rec[k] /\ r \in Records
      BY <1>2
    <3>1. UNCHANGED rec \/ rec' = [rec EXCEPT ![k] = ApplyFailurePolicy(r, "automatic")]
                        \/ rec' = [rec EXCEPT ![k] = Submitted(r)]
      BY <1>2, <1>7 DEF Dispatch, DispatchFails, MarkSubmitted, tables, TypeInv, RecOK
    <3>2. ApplyFailurePolicy(r, "automatic").qpath = r.qpath /\ Submitted(r).qpath = r.qpath
      BY DEF ApplyFailurePolicy, Submitted, Records
    <3>3. rec'[k] = r \/ rec'[k] = ApplyFailurePolicy(r, "automatic") \/ rec'[k] = Submitted(r)
      BY <3>1 DEF TypeInv, RecOK
    <3> QED BY <2>4, <3>2, <3>3
  <2> QED BY <1>2, <1>4, <2>1, <2>2, <2>3, <2>4, <2>5 DEF StorageAt, RowHolds
<1> QED BY <1>5, <1>6, <1>7

LEMMA InspectorsKeepStorage ==
    ASSUME RecordsApart, TypeInv, TypeInv', Custody, Storage, NEW i \in Inspectors,
           ReceiveInspection(i) \/ InspectorStep(i) \/ InspectorDies(i)
    PROVE  Storage'
<1>1. ASSUME PublishLater(i) \/ PublishLaterFails(i) \/ FinalizeRun(i) \/ CloseRun(i) \/ InspectorDies(i)
      PROVE  Storage'
  <2>1. UNCHANGED << rec, calls, inspQ, callQ, job, files, vetted >>
    BY <1>1 DEF PublishLater, PublishLaterFails, FinalizeRun, CloseRun, InspectorDies, tables, queues
  <2>2. insp'[i].pc \in {"idle", "finalize", "close"} /\ \A j \in Inspectors : j # i => insp'[j] = insp[j]
    <3>1. insp[i] \in InspectorStates /\ insp \in [Inspectors -> GoodInspectors]
      BY DEF TypeInv, InspOK, GoodInspectors
    <3>2. insp' = [insp EXCEPT ![i] = IdleInspector] => insp'[i].pc = "idle"
      BY <3>1 DEF IdleInspector
    <3>3. PublishLater(i) => insp'[i].pc = "finalize"
      BY <3>1 DEF PublishLater, InspectorTo, InspectorStates
    <3>4. FinalizeRun(i) => insp'[i].pc \in {"close", "idle"}
      BY <3>1, <3>2 DEF FinalizeRun, InspectorStates
    <3> QED BY <1>1, <3>1, <3>2, <3>3, <3>4 DEF PublishLater, PublishLaterFails, FinalizeRun,
            CloseRun, InspectorDies, InspectorTo
  <2>3. \A j \in Inspectors : Busy(j)' => insp'[j] = insp[j]
    BY <2>2 DEF Busy, Working, HandingOver
  <2>4. \A h \in Keys : inspQ'[h] =< inspQ[h]
    BY <2>1 DEF TypeInv, InspQOK
  <2> QED BY <2>1, <2>3, <2>4, NothingTakenUp
<1> QED BY <1>1, FileIsFound, ReceivingKeepsStorage, InspectingKeepsStorage, VerdictKeepsStorage
       DEF InspectorStep

-----------------------------------------------------------------------------
(* The download worker keeps the storage                                   *)

\* The row of a record that is retried keeps its quarantine path, and it is
\* published again only when it has one.
LEMMA RetriedRow ==
    ASSUME NEW old \in Records, NEW s \in Records, SameRow(old, s), NEW n \in RunIds,
           s.status \in {"retry_scheduled", "failed"}, NEW new,
           new = Flush(old, PrepareForRetry(old, n), s)
    PROVE  /\ new.qpath = s.qpath
           /\ new.status \in {"accepted", "quarantined", "downloading"}
           /\ new.status = "quarantined" => s.qpath # None
<1> PICK prep : prep = PrepareForRetry(old, n)
  OBVIOUS
<1>1. prep \in Records
  BY PrepareForRetryType
<1>2. /\ prep.qpath = old.qpath
      /\ prep.status \in {"accepted", "quarantined", "downloading"}
      /\ prep.status = "quarantined" => old.qpath # None
  BY DEF PrepareForRetry, Records
<1>3. SameRow(new, prep)
  BY <1>1, FlushOfFresh
<1> QED BY <1>2, <1>3 DEF SameRow

LEMMA RetryKeepsStorage ==
    ASSUME RecordsApart, TypeInv, TypeInv', Custody, Storage, NEW d \in Downloaders, StartRetry(d)
    PROVE  Storage'
<1>1. dl[d].pc = "retry" /\ dl[d] \in GoodWorkers /\ job[d] = NoJobs
  BY DEF StartRetry, TypeInv, DlOK, Custody, JobsInPlace
<1>2. PICK k \in Keys : k = dl[d].key
  BY <1>1 DEF GoodWorkers
<1>3. /\ rec[k] \in Records /\ RowGood(k, rec[k], calls[k]) /\ dl[d].copy \in Records
      /\ SameRow(dl[d].copy, rec[k]) /\ rec[k].status \in {"retry_scheduled", "failed"}
  BY <1>1, <1>2 DEF Custody, CustodyAt, RowAt, WorkersAt, WorkerGood, TypeInv, RecOK, GoodWorkers
<1>4. Free(k) /\ StorageAt(k)
  BY <1>3, FreeByStatus DEF Storage
<1>5. PICK r \in Rows : r = rec[k].row /\ KeyOf[r] = k
  BY <1>3 DEF RowGood
<1>6. NextRun \in RunIds
  BY NextRunType DEF StartRetry
<1> PICK new : new = Flush(dl[d].copy, PrepareForRetry(dl[d].copy, NextRun), rec[k])
  OBVIOUS
<1>7. /\ new.qpath = rec[k].qpath
      /\ new.status \in {"accepted", "quarantined", "downloading"}
      /\ new.status = "quarantined" => rec[k].qpath # None
  BY <1>3, <1>6, RetriedRow
<1>8. /\ rec' = [rec EXCEPT ![k] = new]
      /\ UNCHANGED << calls, inspQ, callQ, insp, files, vetted >>
  BY <1>2 DEF StartRetry, queues
<1>9. rec'[k] = new /\ \A h \in Keys \ {k} : rec'[h] = rec[h]
  BY <1>8 DEF TypeInv, RecOK
<1>10. CASE UNCHANGED job
  BY <1>7, <1>8, <1>10, RowTouchStorage
<1>11. CASE ResumeAt(d, r, k, new)
  <2>1. PICK j : /\ job' = [job EXCEPT ![d][r] = j]
                 /\ \/ new.status = "quarantined" /\ j.pc = "publish"
                    \/ j.pc = "handoff"
                    \/ j.pc = "transfer"
                       /\ j.path = UniqueDestination("quarantine", BaseOf[k], <<>>, k)
    <3>1. CASE new.status = "quarantined"
      <4>1. JobTo(d, r, "publish")
        BY <1>11, <3>1 DEF ResumeAt
      <4> QED BY <3>1, <4>1, JobShapes
    <3>2. CASE new.status = "accepted"
      <4>1. JobTo(d, r, "handoff")
        BY <1>11, <3>2 DEF ResumeAt
      <4> QED BY <4>1, JobShapes
    <3>3. CASE new.status = "downloading"
      <4>1. StartTransfer(d, r)
        BY <1>11, <3>3 DEF ResumeAt
      <4> QED BY <1>5, <4>1, JobShapes
    <3> QED BY <1>7, <3>1, <3>2, <3>3
  <2>2. /\ job'[d][r] = j /\ \A q \in Rows : q # r => job'[d][q] = NoJob
        /\ \A c \in Downloaders : c # d => job'[c] = job[c]
    BY <1>1, <2>1 DEF TypeInv, JobOK, NoJobs
  <2>3. \A c \in Downloaders, q \in Rows : c # d \/ q # r =>
          job'[c][q] = NoJob \/ (c # d /\ job'[c][q] = job[c][q])
    BY <2>2
  <2>4. StepKeeps({k})
    <3>1. RowsKept({k}) /\ CallsKept({k}) /\ InspectorsKept({k})
      BY <1>8, <1>9, KeptByNoChange DEF RowsKept, CallsKept, TypeInv, InspQOK
    <3>2. JobsKept({k})
      BY <1>5, <2>3 DEF JobsKept, Carrying, NoJob
    <3> QED BY <3>1, <3>2 DEF StepKeeps
  <2>5. FilesKept({k}) /\ FilesNamed' /\ AcceptedVetted'
    BY <1>8, FilesUntouched DEF Storage
  <2>6. OneThread'
    BY <2>2 DEF Storage, OneThread, Active, NoJob
  <2>7. RowHolds(k)'
    BY <1>4, <1>7, <1>8, <1>9 DEF StorageAt, RowHolds, Free, There, Kept
  <2>8. InspectorsHold(k)'
    BY <1>4, <1>8 DEF StorageAt, InspectorsHold, InspectorHolds, There, Kept
  <2>9. JobHolds(job[d][r], k)'
    <3>1. CASE j.pc = "publish" /\ new.status = "quarantined"
      <4>1. There(rec[k].qpath, k)
        BY <1>3, <1>4, <1>7, <3>1 DEF StorageAt, RowHolds
      <4> QED BY <1>7, <1>8, <1>9, <2>2, <3>1, <4>1 DEF JobHolds, There
    <3>2. CASE j.pc = "handoff"
      BY <2>2, <3>2 DEF JobHolds
    <3>3. CASE j.pc = "transfer" /\ j.path = UniqueDestination("quarantine", BaseOf[k], <<>>, k)
      <4>1. Chosen(j.path, k)
        BY <3>3, ChosenIsOwn DEF Storage
      <4> QED BY <1>8, <2>2, <3>3, <4>1 DEF JobHolds, Chosen
    <3> QED BY <2>1, <3>1, <3>2, <3>3
  <2>10. JobsHold(k)'
    <3> SUFFICES ASSUME NEW c \in Downloaders, NEW q \in Rows, KeyOf[q] = k, c # d \/ q # r
                 PROVE  JobHolds(job[c][q], k)'
      BY <2>9 DEF JobsHold
    <3>1. ~Carrying(c, q)
      BY <1>4 DEF Free
    <3> QED BY <2>3, <3>1 DEF JobHolds, Carrying, NoJob
  <2> QED BY <2>4, <2>5, <2>6, <2>7, <2>8, <2>10, StorageOneKey DEF StorageAt
<1> QED BY <1>2, <1>5, <1>10, <1>11 DEF StartRetry

\* The reconciler writes rows and queues Calls, files are not its business.
LEMMA ReconcilingKeepsStorage ==
    ASSUME RecordsApart, TypeInv, TypeInv', Custody, Storage, NEW d \in Downloaders,
           ClaimHandoff(d) \/ Redispatch(d) \/ RedispatchFails(d) \/ MarkReconciled(d)
    PROVE  Storage'
<1>1. PICK k \in Keys : k = dl[d].key
  BY DEF ClaimHandoff, Redispatch, RedispatchFails, MarkReconciled, TypeInv, DlOK, GoodWorkers
<1>2. /\ rec[k] \in Records /\ RowGood(k, rec[k], calls[k]) /\ rec[k].spath # None
      /\ dl[d].copy.status \in {"accepted", "handoff_pending"}
  <2>1. WorkerGood(dl[d], rec[k]) /\ RowGood(k, rec[k], calls[k]) /\ rec[k] \in Records
    BY <1>1 DEF Custody, CustodyAt, RowAt, WorkersAt, TypeInv, RecOK
  <2> QED BY <2>1 DEF ClaimHandoff, Redispatch, RedispatchFails, MarkReconciled, WorkerGood, Reconcilers
<1>3. UNCHANGED << calls, inspQ, insp, job, files, vetted >>
  BY DEF ClaimHandoff, Redispatch, RedispatchFails, MarkReconciled, tables, queues
<1> PICK s : s = dl[d].copy.status
  OBVIOUS
<1> DEFINE claimed == [rec[k] EXCEPT !.status = "handoff_pending", !.err = "dispatching"]
           failed == [rec[k] EXCEPT !.status = s, !.err = "automatic"]
<1>4. CASE ~Redispatch(d) /\ rec' # rec
  <2>1. /\ UNCHANGED callQ
        /\ \/ rec' = [rec EXCEPT ![k] = claimed]
           \/ rec' = [rec EXCEPT ![k] = failed]
           \/ rec' = [rec EXCEPT ![k] = Submitted(rec[k])]
    BY <1>1, <1>4 DEF ClaimHandoff, RedispatchFails, MarkReconciled, queues, TypeInv, RecOK
  <2>2. /\ claimed.qpath = rec[k].qpath /\ claimed.status = "handoff_pending"
        /\ failed.qpath = rec[k].qpath /\ failed.status = s
        /\ Submitted(rec[k]).qpath = rec[k].qpath /\ Submitted(rec[k]).status = "submitted"
    BY <1>2 DEF Submitted, Records
  <2> HIDE DEF claimed, failed
  <2>3. PICK new : /\ rec' = [rec EXCEPT ![k] = new] /\ new.qpath = rec[k].qpath
                   /\ new.status \in {"accepted", "handoff_pending", "submitted"}
    BY <1>2, <2>1, <2>2
  <2> QED BY <1>3, <2>1, <2>3, RowTouchStorage
<1>5. ASSUME UNCHANGED << rec, callQ >> PROVE Storage'
  <2>1. \A h \in Keys : inspQ'[h] =< inspQ[h]
    BY <1>3 DEF TypeInv, InspQOK
  <2> QED BY <1>3, <1>5, <2>1, NothingTakenUp
<1>6. CASE ~Redispatch(d) /\ rec' = rec
  BY <1>5, <1>6 DEF ClaimHandoff, RedispatchFails, MarkReconciled, queues
<1>7. CASE Redispatch(d)
  <2>1. UNCHANGED rec /\ callQ' = [callQ EXCEPT ![k] = @ + 1]
    BY <1>1, <1>7 DEF Redispatch, QueueCall, tables
  <2>2. calls[k] # <<>>
    BY <1>2 DEF RowGood
  <2>3. StepKeeps({k})
    BY <1>3, <2>1, KeptByNoChange DEF StepKeeps, CallsKept, TypeInv, CallQOK
  <2>4. FilesKept({k}) /\ FilesNamed' /\ AcceptedVetted' /\ OneThread'
    BY <1>3, FilesUntouched DEF Storage, OneThread, Active
  <2>5. StorageAt(k)'
    BY <1>3, <2>1, <2>2 DEF Storage, StorageAt, RowHolds, JobsHold, JobHolds, InspectorsHold,
       InspectorHolds, There, Kept, Chosen
  <2> QED BY <2>3, <2>4, <2>5, StorageOneKey
<1> QED BY <1>4, <1>6, <1>7

LEMMA WorkersKeepStorage ==
    ASSUME RecordsApart, TypeInv, TypeInv', Custody, Storage, NEW d \in Downloaders,
           \/ DownloaderStep(d) \/ DownloaderReceives(d) \/ DownloaderDies(d)
           \/ StartScheduledRun(d) \/ SelectHandoff(d)
    PROVE  Storage'
<1>1. ASSUME UNCHANGED << rec, calls, inspQ, callQ, insp, files, vetted >>,
             \A r \in Rows : job'[d][r] = job[d][r] \/ job'[d][r].pc \in {"none", "todo"},
             \A c \in Downloaders : c # d => job'[c] = job[c]
      PROVE  Storage'
  <2>1. \A h \in Keys : inspQ'[h] =< inspQ[h]
    BY <1>1 DEF TypeInv, InspQOK
  <2>2. \A c \in Downloaders, r \in Rows : Active(c, r)' => job'[c][r] = job[c][r]
    BY <1>1 DEF Active
  <2> QED BY <1>1, <2>1, <2>2, NothingTakenUp
<1>2. ASSUME UNCHANGED << rec, calls, inspQ, callQ, insp, files, vetted, job >> PROVE Storage'
  BY <1>1, <1>2
<1>3. ASSUME \/ StartReading(d) \/ SheetReadFails(d) \/ RetryFindsActiveRun(d)
             \/ ReceiveRun(d) \/ ReceiveRetry(d) \/ SkipRetry(d) \/ StartScheduledRun(d)
             \/ ComputeResults(d) \/ SelectHandoff(d)
      PROVE  Storage'
  BY <1>2, <1>3 DEF StartReading, SheetReadFails, RetryFindsActiveRun, ReceiveRun, ReceiveRetry,
     SkipRetry, StartScheduledRun, ComputeResults, SelectHandoff, tables, queues
<1>4. ASSUME ReadSheet(d) PROVE Storage'
  <2>1. PICK sheet \in SUBSET Rows : job' = [job EXCEPT ![d] = [r \in Rows |->
                 IF r \in sheet THEN [NoJob EXCEPT !.pc = "todo"] ELSE NoJob]]
    BY <1>4 DEF ReadSheet
  <2>2. [NoJob EXCEPT !.pc = "todo"].pc = "todo" /\ NoJob.pc = "none"
    BY DEF NoJob
  <2>3. /\ \A r \in Rows : job'[d][r].pc \in {"none", "todo"}
        /\ \A c \in Downloaders : c # d => job'[c] = job[c]
    BY <2>1, <2>2 DEF TypeInv, JobOK
  <2> QED BY <1>1, <1>4, <2>3 DEF ReadSheet, queues
<1>5. ASSUME ApplyResults(d) \/ DownloaderDies(d) PROVE Storage'
  <2>1. job' = [job EXCEPT ![d] = NoJobs]
    BY <1>5 DEF ApplyResults, DownloaderDies
  <2>2. /\ \A r \in Rows : job'[d][r].pc \in {"none", "todo"}
        /\ \A c \in Downloaders : c # d => job'[c] = job[c]
    BY <2>1 DEF TypeInv, JobOK, NoJobs, NoJob
  <2> QED BY <1>1, <1>5, <2>2 DEF ApplyResults, DownloaderDies, tables, queues
<1> QED BY <1>3, <1>4, <1>5, RetryKeepsStorage, ReconcilingKeepsStorage
        DEF DownloaderStep, DownloaderReceives

LEMMA StorageInductive ==
    ASSUME RecordsApart, OneWorkerProcesses, PathsApart, TypeInv, TypeInv', Custody, Storage, [Next]_vars
    PROVE  Storage'
<1>1. ASSUME UNCHANGED << rec, calls, callQ, job, insp, files, vetted >>,
             \A h \in Keys : inspQ'[h] =< inspQ[h]
      PROVE  Storage'
  BY <1>1, NothingTakenUp
<1>2. \A h \in Keys : inspQ[h] =< inspQ[h] /\ inspQ[h] - 1 =< inspQ[h]
  BY DEF TypeInv, InspQOK
<1>3. CASE UNCHANGED vars
  BY <1>1, <1>2, <1>3 DEF vars
<1>4. CASE Operators
  <2>1. ASSUME RequestRun \/ PublishRun \/ PublishRunFails \/ \E k \in Keys : RequestManualRetry(k)
        PROVE  Storage'
    BY <1>1, <1>2, <2>1 DEF RequestRun, PublishRun, PublishRunFails, RequestManualRetry, tables, queues
  <2> QED BY <1>4, <2>1, WorkersKeepStorage DEF Operators
<1>5. CASE Clock
  <2>1. PICK k \in Keys : RetryTimeComes(k) \/ LeaseExpires(k)
    BY <1>5 DEF Clock
  <2>2. PICK new \in {[rec[k] EXCEPT !.timer = "expired"], [rec[k] EXCEPT !.err = "expired"]} :
          rec' = [rec EXCEPT ![k] = new]
    BY <2>1 DEF RetryTimeComes, LeaseExpires, TypeInv, RecOK
  <2>3. new.qpath = rec[k].qpath /\ new.status = rec[k].status
    BY <2>2 DEF TypeInv, RecOK, Records
  <2>4. UNCHANGED << calls, inspQ, callQ, job, insp, files, vetted >>
    BY <2>1 DEF RetryTimeComes, LeaseExpires, queues
  <2> QED BY <2>2, <2>3, <2>4, RowTouchStorage
<1>6. CASE Faults
  <2>1. CASE EndpointDies
    BY <1>1, <1>2, <2>1 DEF EndpointDies, tables, queues
  <2>2. CASE MessageLost
    <3>1. UNCHANGED << rec, calls, callQ, job, insp, files, vetted >>
      BY <2>2 DEF MessageLost, tables
    <3>2. \A h \in Keys : inspQ'[h] =< inspQ[h]
      <4>1. UNCHANGED inspQ \/ \E k \in Keys : inspQ' = [inspQ EXCEPT ![k] = @ - 1]
        BY <2>2 DEF MessageLost
      <4> QED BY <1>2, <4>1 DEF TypeInv, InspQOK
    <3> QED BY <1>1, <3>1, <3>2
  <2> QED BY <1>6, <2>1, <2>2, WorkersKeepStorage, InspectorsKeepStorage DEF Faults
<1> QED BY <1>3, <1>4, <1>5, <1>6, WorkersKeepStorage, JobsKeepStorage, InspectorsKeepStorage
        DEF Next

LEMMA StorageInitially ==
    ASSUME Init PROVE Storage
<1>1. DOMAIN files = {}
  BY DEF Init
<1>2. FilesNamed /\ AcceptedVetted
  BY <1>1 DEF FilesNamed, AcceptedVetted
<1>3. OneThread
  BY DEF Init, OneThread, Active, NoJobs, NoJob
<1>4. \A k \in Keys : StorageAt(k)
  BY DEF Init, StorageAt, RowHolds, JobsHold, JobHolds, InspectorsHold, InspectorHolds, NoRecord,
     NoJobs, NoJob, IdleInspector
<1> QED BY <1>2, <1>3, <1>4 DEF Storage

\* The storage invariant holds in every reachable state.
THEOREM StorageInvariant == PathsApart => (Spec /\ []RecordsApart => []Storage)
<1> SUFFICES ASSUME PathsApart PROVE Spec /\ []RecordsApart => []Storage
  OBVIOUS
<1>1. Init => Storage
  BY StorageInitially
<1>2. /\ RecordsApart /\ OneWorkerProcesses
      /\ TypeInv /\ TypeInv' /\ Custody /\ Storage /\ [Next]_vars
      => Storage'
  BY StorageInductive
<1> QED BY <1>1, <1>2, TypesInvariant, CustodyInvariant, OneWorkerProcessesAlways, PTL DEF Spec

\* Nothing reaches accepted storage, a Call or the call pipeline before it has
\* passed signature check, malware scan and media verification (SC-007), for
\* any number of rows, keys, threads, inspectors and runs, with every fault.
THEOREM NothingPassesUnvetted == PathsApart => (Spec /\ []RecordsApart => []InspectionGate)
<1> SUFFICES ASSUME PathsApart PROVE Spec /\ []RecordsApart => []InspectionGate
  OBVIOUS
<1>1. Custody /\ Storage => InspectionGate
  <2> SUFFICES ASSUME Custody, Storage PROVE InspectionGate
    OBVIOUS
  <2>1. ASSUME NEW k \in Keys
        PROVE  /\ calls[k] # <<>> => k \in vetted
               /\ callQ[k] > 0 => calls[k] # <<>>
               /\ rec[k].status \in {"handoff_pending", "submitted"} => rec[k].checks = AllPassed
    <3>1. RowHolds(k) /\ RowGood(k, rec[k], calls[k])
      BY DEF Storage, StorageAt, Custody, CustodyAt, RowAt
    <3> QED BY <3>1 DEF RowHolds, RowGood
  <2> QED BY <2>1 DEF InspectionGate, Storage, AcceptedVetted
<1> QED BY <1>1, CustodyInvariant, StorageInvariant, PTL

\* One source record gets one Call, and the Call's audio is the recording of
\* that record, however often it is retried and wherever the workers stop.
THEOREM OneCallOneAudio == PathsApart => (Spec /\ []RecordsApart => []OneCallWithItsAudio)
<1> SUFFICES ASSUME PathsApart PROVE Spec /\ []RecordsApart => []OneCallWithItsAudio
  OBVIOUS
<1>1. Custody /\ Storage => OneCallWithItsAudio
  <2> SUFFICES ASSUME Custody, Storage, NEW k \in Keys
               PROVE  /\ Len(calls[k]) =< 1
                      /\ \A j \in DOMAIN calls[k] :
                           calls[k][j] \in DOMAIN files /\ files[calls[k][j]] = k
    BY DEF OneCallWithItsAudio
  <2>1. RowHolds(k) /\ RowGood(k, rec[k], calls[k])
    BY DEF Storage, StorageAt, Custody, CustodyAt, RowAt
  <2> QED BY <2>1 DEF RowHolds, RowGood, Kept
<1> QED BY <1>1, CustodyInvariant, StorageInvariant, PTL

-----------------------------------------------------------------------------
(* The handoff.  Where no reconciler runs, or no publish fails, a Call that *)
(* was created is told of in order: it is queued before its record is       *)
(* marked submitted, and without a reconciler it is queued once.            *)

Orderly == ~Reconciling \/ ~BrokerMayFail

NoReconciler == \A d \in Downloaders : dl[d].pc \notin Reconcilers

\* A record with a Call never leaves the reach of a retry.
RowTold(r) ==
    /\ r.queued <=> r.status = "submitted"
    /\ r.call # 0 =>
         /\ r.spath # None
         /\ \/ r.status \in {"accepted", "handoff_pending", "submitted"}
            \/ BrokerMayFail /\ r.status = "retry_scheduled"
            \/ BrokerMayFail /\ r.status = "failed" /\ r.err = "automatic"

CallsTold(status, n) ==
    ~Reconciling => n =< 1 /\ (n > 0 => status \in {"handoff_pending", "submitted"})

JobTold(pc, n) ==
    /\ pc = "mark" => n > 0
    /\ ~Reconciling /\ pc = "dispatch" => n = 0

InspectorTold(pc, n, status) ==
    /\ JobTold(pc, n)
    /\ ~Reconciling /\ pc \in {"dispatch", "mark"} => status = "handoff_pending"

HandoffAt(k) ==
    /\ RowTold(rec[k]) /\ CallsTold(rec[k].status, callQ[k])
    /\ \A d \in Downloaders, r \in Rows : KeyOf[r] = k => JobTold(job[d][r].pc, callQ[k])
    /\ \A i \in Inspectors : insp[i].key = k => InspectorTold(insp[i].pc, callQ[k], rec[k].status)
    /\ \A d \in Downloaders : dl[d].key = k /\ dl[d].pc = "remark" => callQ[k] > 0

Handoff == (~Reconciling => NoReconciler) /\ \A k \in Keys : HandoffAt(k)

LEMMA OthersKeepHandoff ==
    ASSUME TypeInv, TypeInv', Handoff, NEW S \in SUBSET Keys, StepKeeps(S),
           \A d \in Downloaders : dl'[d].pc = "remark" /\ dl'[d].key \notin S => dl'[d] = dl[d]
    PROVE  \A h \in Keys \ S : HandoffAt(h)'
<1> SUFFICES ASSUME NEW h \in Keys \ S PROVE HandoffAt(h)'
  OBVIOUS
<1>1. rec'[h] = rec[h] /\ callQ'[h] = callQ[h] /\ HandoffAt(h)
  BY DEF StepKeeps, RowsKept, CallsKept, Handoff
<1>2. ASSUME NEW d \in Downloaders, NEW r \in Rows, KeyOf[r] = h
      PROVE  JobTold(job'[d][r].pc, callQ'[h])
  <2>1. CASE Carrying(d, r)'
    <3>1. job'[d][r] = job[d][r]
      BY <1>2, <2>1 DEF StepKeeps, JobsKept
    <3> QED BY <1>1, <1>2, <3>1 DEF HandoffAt
  <2>2. CASE ~Carrying(d, r)'
    BY <2>2 DEF Carrying, JobTold
  <2> QED BY <2>1, <2>2
<1>3. ASSUME NEW i \in Inspectors, insp'[i].key = h
      PROVE  InspectorTold(insp'[i].pc, callQ'[h], rec'[h].status)
  <2>1. CASE Busy(i)'
    <3>1. insp'[i] = insp[i]
      BY <1>3, <2>1 DEF StepKeeps, InspectorsKept
    <3> QED BY <1>1, <1>3, <3>1 DEF HandoffAt
  <2>2. CASE ~Busy(i)'
    BY <2>2 DEF Busy, Working, HandingOver, InspectorTold, JobTold
  <2> QED BY <2>1, <2>2
<1> QED BY <1>1, <1>2, <1>3 DEF HandoffAt

LEMMA HandoffFrame ==
    ASSUME TypeInv, TypeInv', Handoff, StepKeeps({}), ~Reconciling => NoReconciler',
           \A d \in Downloaders : dl'[d].pc = "remark" => dl'[d] = dl[d]
    PROVE  Handoff'
<1>1. \A h \in Keys \ {} : HandoffAt(h)'
  BY OthersKeepHandoff
<1> QED BY <1>1 DEF Handoff

LEMMA HandoffOneKey ==
    ASSUME TypeInv, TypeInv', Handoff, NEW k \in Keys, StepKeeps({k}), ~Reconciling => NoReconciler',
           \A d \in Downloaders : dl'[d].pc = "remark" /\ dl'[d].key # k => dl'[d] = dl[d],
           HandoffAt(k)'
    PROVE  Handoff'
<1>1. \A h \in Keys \ {k} : HandoffAt(h)'
  BY OthersKeepHandoff
<1> QED BY <1>1 DEF Handoff

\* Nothing is written to the rows and nothing is queued.
LEMMA NothingTold ==
    ASSUME Handoff, UNCHANGED << rec, callQ >>, ~Reconciling => NoReconciler',
           \A d \in Downloaders, r \in Rows :
             job'[d][r].pc \in {"dispatch", "mark"} => job'[d][r] = job[d][r],
           \A i \in Inspectors : insp'[i].pc \in {"dispatch", "mark"} => insp'[i] = insp[i],
           \A d \in Downloaders : dl'[d].pc = "remark" => dl'[d] = dl[d]
    PROVE  Handoff'
<1> SUFFICES ASSUME NEW k \in Keys PROVE HandoffAt(k)'
  BY DEF Handoff
<1>1. HandoffAt(k)
  BY DEF Handoff
<1>2. ASSUME NEW d \in Downloaders, NEW r \in Rows, KeyOf[r] = k
      PROVE  JobTold(job'[d][r].pc, callQ'[k])
  <2>1. CASE job'[d][r] = job[d][r]
    BY <1>1, <1>2, <2>1 DEF HandoffAt
  <2>2. CASE job'[d][r].pc \notin {"dispatch", "mark"}
    BY <2>2 DEF JobTold
  <2> QED BY <2>1, <2>2
<1>3. ASSUME NEW i \in Inspectors, insp'[i].key = k
      PROVE  InspectorTold(insp'[i].pc, callQ'[k], rec'[k].status)
  <2>1. CASE insp'[i] = insp[i]
    BY <1>1, <1>3, <2>1 DEF HandoffAt
  <2>2. CASE insp'[i].pc \notin {"dispatch", "mark"}
    BY <2>2 DEF InspectorTold, JobTold
  <2> QED BY <2>1, <2>2
<1> QED BY <1>1, <1>2, <1>3 DEF HandoffAt

\* A row is written, nothing is queued and nobody goes on.
LEMMA RowTouchHandoff ==
    ASSUME TypeInv, Handoff, NEW k \in Keys, NEW new, rec' = [rec EXCEPT ![k] = new],
           RowTold(new), CallsTold(new.status, callQ[k]),
           ~Reconciling => new.status = rec[k].status,
           UNCHANGED << callQ, job, insp >>, ~Reconciling => NoReconciler',
           \A d \in Downloaders : dl'[d].pc = "remark" => dl'[d] = dl[d]
    PROVE  Handoff'
<1> SUFFICES ASSUME NEW h \in Keys PROVE HandoffAt(h)'
  BY DEF Handoff
<1>1. HandoffAt(h) /\ rec'[k] = new /\ (h # k => rec'[h] = rec[h])
  BY DEF Handoff, TypeInv, RecOK
<1>2. RowTold(rec'[h]) /\ CallsTold(rec'[h].status, callQ[h])
  BY <1>1 DEF HandoffAt
<1>3. ~Reconciling => rec'[h].status = rec[h].status
  BY <1>1
<1>4. ASSUME NEW i \in Inspectors, insp'[i].key = h
      PROVE  InspectorTold(insp'[i].pc, callQ'[h], rec'[h].status)
  BY <1>1, <1>3, <1>4 DEF HandoffAt, InspectorTold
<1> QED BY <1>1, <1>2, <1>4 DEF HandoffAt

\* A record that was not accepted yet has no Call.
LEMMA WithoutCall ==
    ASSUME NEW k \in Keys, TypeInv, Custody, Handoff,
           rec[k].status \in {"absent", "downloading", "quarantined"}
    PROVE  rec[k].call = 0 /\ ~rec[k].queued
<1>1. RowGood(k, rec[k], calls[k]) /\ RowTold(rec[k])
  BY DEF Custody, CustodyAt, RowAt, Handoff, HandoffAt
<1> QED BY <1>1 DEF RowGood, RowTold

-----------------------------------------------------------------------------
(* The jobs keep the handoff                                               *)

LEMMA JobStepWorkers ==
    ASSUME TypeInv, Custody, NEW d \in Downloaders, NEW r \in Rows, JobStep(d, r)
    PROVE  \A c \in Downloaders : dl'[c].pc \in Reconcilers => dl'[c] = dl[c]
<1>1. job[d][r].pc \notin {"none", "done", "raised"}
  BY DEF JobStep, MappingFails, ClaimExisting, ClaimNew, StoreDownload, CommitDownload,
         DownloadFails, PublishInspection, PublishInspectionFails, PublishRetry,
         PublishRetryFails, RetryHandoff, RetryHandoffConflicts, RetryDispatch,
         RetryDispatchFails, RetryMarkSubmitted, JobAt
<1>2. UNCHANGED dl \/ dl' = [dl EXCEPT ![d] = IdleWorker]
  BY DEF JobStep, MappingFails, ClaimExisting, ClaimNew, StoreDownload, CommitDownload,
         DownloadFails, PublishInspection, PublishInspectionFails, PublishRetry,
         PublishRetryFails, RetryHandoff, RetryHandoffConflicts, RetryDispatch,
         RetryDispatchFails, RetryMarkSubmitted
<1>3. IdleWorker.pc = "idle"
  BY DEF IdleWorker
<1> QED BY <1>2, <1>3 DEF TypeInv, DlOK, Reconcilers

LEMMA JobStepReconcilers ==
    ASSUME TypeInv, Custody, Handoff, NEW d \in Downloaders, NEW r \in Rows, JobStep(d, r)
    PROVE  ~Reconciling => NoReconciler'
BY JobStepWorkers DEF Handoff, NoReconciler

\* Nobody reconciles the record a job has in hand.
LEMMA CarriedIsNotReconciled ==
    ASSUME RecordsApart, TypeInv, Custody, NEW d \in Downloaders, NEW r \in Rows, Carrying(d, r),
           NEW c \in Downloaders, dl[c].pc \in Reconcilers
    PROVE  dl[c].key # KeyOf[r]
<1>1. dl[d].pc \in {"rows", "retrying"} /\ KeyOf[r] \in Keys
  BY WorkerOfJob, KeyOfType DEF Carrying
<1> QED BY <1>1 DEF RecordsApart, Holds, Reconcilers

LEMMA CarrierHandoff ==
    ASSUME RecordsApart, TypeInv, TypeInv', Custody, Handoff,
           NEW d \in Downloaders, NEW r \in Rows, JobStep(d, r), Carrying(d, r),
           NEW k \in Keys, k = KeyOf[r], RowTold(rec'[k]), CallsTold(rec'[k].status, callQ'[k]),
           JobTold(job'[d][r].pc, callQ'[k])
    PROVE  Handoff'
<1>1. StepKeeps({k}) /\ UNCHANGED insp
  BY JobStepFrame
<1>2. /\ \A c \in Downloaders : dl'[c].pc \in Reconcilers => dl'[c] = dl[c] /\ dl'[c].key # k
      /\ ~Reconciling => NoReconciler'
  BY JobStepWorkers, JobStepReconcilers, CarriedIsNotReconciled
<1>3. CustodyAt(k)
  BY DEF Custody
<1>4. ASSUME NEW c \in Downloaders, NEW q \in Rows, KeyOf[q] = k
      PROVE  JobTold(job'[c][q].pc, callQ'[k])
  <2>2. CASE c # d \/ q # r
    <3>1. ~Carrying(c, q) /\ (job'[c][q] = job[c][q] \/ job'[c][q] = NoJob)
      BY <1>4, <2>2, JobStepFrame, LoneCarrier
    <3> QED BY <3>1 DEF JobTold, Carrying, NoJob
  <2> QED BY <1>4, <2>2
<1>5. ASSUME NEW i \in Inspectors, insp'[i].key = k
      PROVE  InspectorTold(insp'[i].pc, callQ'[k], rec'[k].status)
  <2>1. ~Busy(i)
    BY <1>1, <1>3, <1>5 DEF CustodyAt, JobsAt
  <2> QED BY <1>1, <2>1 DEF InspectorTold, JobTold, Busy, HandingOver
<1>6. HandoffAt(k)'
  BY <1>2, <1>4, <1>5 DEF HandoffAt, Reconcilers
<1> QED BY <1>1, <1>2, <1>6, HandoffOneKey DEF Reconcilers

LEMMA JobsKeepHandoff ==
    ASSUME RecordsApart, TypeInv, TypeInv', Custody, Handoff,
           NEW d \in Downloaders, NEW r \in Rows, JobStep(d, r)
    PROVE  Handoff'
<1>0. PICK k \in Keys : k = KeyOf[r]
  BY KeyOfType
<1>1. /\ rec[k] \in Records /\ callQ[k] \in Nat /\ RowTold(rec[k])
      /\ CallsTold(rec[k].status, callQ[k]) /\ JobTold(job[d][r].pc, callQ[k])
      /\ callQ \in [Keys -> Nat]
  BY <1>0 DEF TypeInv, RecOK, CallQOK, Handoff, HandoffAt
<1>2. Carrying(d, r) => JobStatus(job[d][r].pc, rec[k].status)
  BY <1>0, CarriedStatus
<1>3. ASSUME MappingFails(d, r) \/ ClaimExisting(d, r) \/ ClaimNew(d, r)
             \/ PublishRetry(d, r) \/ PublishRetryFails(d, r)
      PROVE  Handoff'
  <2>1. /\ UNCHANGED << callQ, insp >>
        /\ \/ \E out : JobDone(d, r, out)
           \/ JobTo(d, r, "raised") \/ StartTransfer(d, r)
    BY <1>3 DEF MappingFails, ClaimExisting, ClaimNew, PublishRetry, PublishRetryFails, queues
  <2>2. PICK j : job' = [job EXCEPT ![d][r] = j] /\ j.pc \in {"done", "raised", "transfer"}
    BY <2>1, JobShapes
  <2>3. job'[d][r] = j /\ \A c \in Downloaders, q \in Rows :
                             c # d \/ q # r => job'[c][q] = job[c][q]
    BY <2>2 DEF TypeInv, JobOK
  <2>4. /\ \A c \in Downloaders : dl'[c].pc \in Reconcilers => dl'[c] = dl[c]
        /\ ~Reconciling => NoReconciler'
    BY JobStepWorkers, JobStepReconcilers
  <2>5. CASE UNCHANGED rec
    BY <2>1, <2>2, <2>3, <2>4, <2>5, NothingTold DEF Reconcilers
  <2>6. CASE ~UNCHANGED rec
    <3> PICK n : n = rec[k].attempts + 1
      OBVIOUS
    <3>1. rec' = [rec EXCEPT ![k] = [rec[k] EXCEPT !.attempts = n]]
      BY <1>0, <1>1, <1>3, <2>6 DEF MappingFails, ClaimExisting, ClaimNew, PublishRetry,
         PublishRetryFails, tables, TypeInv, RecOK
    <3>2. rec'[k] = [rec[k] EXCEPT !.attempts = n] /\ \A h \in Keys : h # k => rec'[h] = rec[h]
      BY <3>1 DEF TypeInv, RecOK
    <3>3. /\ rec'[k].status = rec[k].status /\ rec'[k].call = rec[k].call
          /\ rec'[k].spath = rec[k].spath /\ rec'[k].err = rec[k].err
          /\ rec'[k].queued = rec[k].queued
      BY <1>1, <3>2 DEF Records
    <3>4. \A h \in Keys : rec'[h].status = rec[h].status /\ RowTold(rec'[h])
      BY <1>1, <3>2, <3>3 DEF RowTold, Handoff, HandoffAt
    <3>5. \A c \in Downloaders, q \in Rows : JobTold(job'[c][q].pc, callQ[KeyOf[q]])
      BY <2>2, <2>3, KeyOfType DEF JobTold, Handoff, HandoffAt
    <3>6. \A h \in Keys : HandoffAt(h)'
      BY <2>1, <2>4, <3>4, <3>5 DEF Handoff, HandoffAt, Reconcilers
    <3> QED BY <2>4, <3>6 DEF Handoff
  <2> QED BY <2>5, <2>6
<1>4. ASSUME StoreDownload(d, r) \/ PublishInspection(d, r) PROVE Handoff'
  <2>1. /\ UNCHANGED << rec, callQ >> /\ Carrying(d, r)
        /\ JobTo(d, r, "stored") \/ \E out : JobDone(d, r, out)
    BY <1>4 DEF StoreDownload, PublishInspection, Carrying, JobAt, tables, queues
  <2>2. PICK j : job' = [job EXCEPT ![d][r] = j] /\ j.pc \in {"stored", "done"}
    BY <2>1, JobShapes
  <2>3. job'[d][r] = j
    BY <2>2 DEF TypeInv, JobOK
  <2>4. JobTold(job'[d][r].pc, callQ'[k])
    BY <2>2, <2>3 DEF JobTold
  <2> QED BY <1>0, <1>1, <2>1, <2>4, CarrierHandoff
<1>5. ASSUME NEW new, rec' = [rec EXCEPT ![k] = new], new.call = 0, ~new.queued,
             new.status \in {"quarantined", "retry_scheduled", "failed"}, callQ' = callQ,
             Carrying(d, r), job[d][r].pc \in {"transfer", "stored", "publish"},
             NEW j, job' = [job EXCEPT ![d][r] = j], j.pc \in {"publish", "reschedule", "done"}
      PROVE  Handoff'
  <2>1. rec'[k] = new /\ job'[d][r] = j
    BY <1>5 DEF TypeInv, RecOK, JobOK
  <2>2. RowTold(new) /\ JobTold(j.pc, callQ[k])
    BY <1>5 DEF RowTold, JobTold
  <2>3. CallsTold(new.status, callQ[k])
    BY <1>1, <1>2, <1>5 DEF CallsTold, JobStatus
  <2> QED BY <1>0, <1>5, <2>1, <2>2, <2>3, CarrierHandoff
<1>6. rec[k].status \in {"absent", "downloading", "quarantined"} => rec[k].call = 0 /\ ~rec[k].queued
  BY WithoutCall
<1>7. /\ job[d][r].pc \in {"transfer", "stored"} =>
           Loaded(d, r) \in Records /\ Loaded(d, r).call = 0 /\ ~Loaded(d, r).queued
  <2> SUFFICES ASSUME job[d][r].pc \in {"transfer", "stored"}
               PROVE  Loaded(d, r) \in Records /\ Loaded(d, r).call = 0 /\ ~Loaded(d, r).queued
    OBVIOUS
  <2>1. Loaded(d, r) \in Records /\ Carrying(d, r)
    BY LoadedGood DEF Carrying
  <2>2. NewRecord(dl[d].run, r).call = 0 /\ NewRecord(dl[d].run, r).queued = FALSE
    BY DEF NewRecord, NoRecord
  <2> QED BY <1>0, <1>2, <1>6, <2>1, <2>2 DEF Loaded, JobStatus
<1>8. ASSUME NEW old \in Records, old.call = 0, ~old.queued, NEW category,
             FailJob(d, r, old, category), callQ' = callQ, Carrying(d, r),
             job[d][r].pc \in {"transfer", "stored", "publish"}
      PROVE  Handoff'
  <2> PICK new : new = ApplyFailurePolicy(old, category)
    OBVIOUS
  <2>1. new.call = 0 /\ ~new.queued /\ new.status \in {"retry_scheduled", "failed"}
    BY <1>8 DEF ApplyFailurePolicy, Records
  <2>2. PICK j : job' = [job EXCEPT ![d][r] = j] /\ j.pc \in {"reschedule", "done"}
    BY <1>8, JobShapes DEF FailJob
  <2>3. rec' = [rec EXCEPT ![k] = new]
    BY <1>0, <1>8 DEF FailJob
  <2> QED BY <1>5, <1>8, <2>1, <2>2, <2>3
<1>9. ASSUME CommitDownload(d, r) PROVE Handoff'
  <2> PICK new : new = Quarantined(Loaded(d, r), job[d][r].path)
    OBVIOUS
  <2>1. JobAt(d, r, "stored") /\ callQ' = callQ /\ rec' = [rec EXCEPT ![k] = new]
        /\ JobTo(d, r, "publish")
    BY <1>0, <1>9 DEF CommitDownload, queues
  <2>2. PICK j : job' = [job EXCEPT ![d][r] = j] /\ j.pc = "publish"
    BY <2>1, JobShapes
  <2>3. new.call = 0 /\ ~new.queued /\ new.status = "quarantined"
    BY <1>7, <2>1 DEF Quarantined, Records, JobAt
  <2> QED BY <1>5, <2>1, <2>2, <2>3 DEF JobAt, Carrying
<1>10. ASSUME DownloadFails(d, r) PROVE Handoff'
  <2> PICK old : old = Loaded(d, r)
    OBVIOUS
  <2>1. PICK category : FailJob(d, r, old, category)
    BY <1>10 DEF DownloadFails
  <2>2. JobAt(d, r, "transfer") /\ callQ' = callQ
    BY <1>10 DEF DownloadFails, queues
  <2>3. old \in Records /\ old.call = 0 /\ ~old.queued
    BY <1>7, <2>2 DEF JobAt
  <2> QED BY <1>8, <2>1, <2>2, <2>3 DEF JobAt, Carrying
<1>11. ASSUME PublishInspectionFails(d, r) PROVE Handoff'
  <2> PICK old : old = rec[k]
    OBVIOUS
  <2>1. FailJob(d, r, old, "automatic") /\ JobAt(d, r, "publish") /\ callQ' = callQ
    BY <1>0, <1>11 DEF PublishInspectionFails, queues
  <2>2. Carrying(d, r) /\ old \in Records /\ old.call = 0 /\ ~old.queued
    BY <1>1, <1>2, <1>6, <2>1 DEF JobAt, Carrying, JobStatus
  <2> QED BY <1>8, <2>1, <2>2 DEF JobAt
<1>12. ASSUME RetryHandoff(d, r) PROVE Handoff'
  <2> PICK new : new = HandoffPending(rec[k], rec[k].call)
    OBVIOUS
  <2>1. PICK j : job' = [job EXCEPT ![d][r] = j] /\ j.pc = "dispatch"
    BY <1>12, JobShapes DEF RetryHandoff
  <2>2. /\ rec' = [rec EXCEPT ![k] = new] /\ callQ' = callQ /\ JobAt(d, r, "handoff")
    BY <1>0, <1>12 DEF RetryHandoff, queues, TypeInv, RecOK
  <2>3. rec'[k] = new /\ job'[d][r] = j /\ Carrying(d, r)
    BY <2>1, <2>2 DEF TypeInv, RecOK, JobOK, JobAt, Carrying
  <2>4. rec[k].status = "accepted"
    BY <1>2, <2>2, <2>3 DEF JobAt, JobStatus
  <2>5. /\ new.status = "handoff_pending" /\ new.call = rec[k].call
        /\ new.spath = rec[k].spath /\ new.queued = rec[k].queued
    BY <1>1 DEF HandoffPending, Records
  <2>6. RowTold(new)
    BY <1>1, <2>4, <2>5 DEF RowTold
  <2>7. CallsTold(new.status, callQ[k]) /\ JobTold("dispatch", callQ[k])
    BY <1>1, <2>4, <2>5 DEF CallsTold, JobTold
  <2> QED BY <1>0, <2>1, <2>2, <2>3, <2>6, <2>7, CarrierHandoff
<1>13. ASSUME RetryHandoffConflicts(d, r) PROVE Handoff'
  <2>1. UNCHANGED << rec, callQ >> /\ Carrying(d, r) /\ job'[d][r] = NoJob
    BY <1>13 DEF RetryHandoffConflicts, tables, queues, Carrying, JobAt, TypeInv, JobOK, NoJobs
  <2>2. JobTold(job'[d][r].pc, callQ'[k])
    BY <2>1 DEF JobTold, NoJob
  <2> QED BY <1>0, <1>1, <2>1, <2>2, CarrierHandoff
<1>14. ASSUME RetryDispatch(d, r) PROVE Handoff'
  <2>1. PICK j : job' = [job EXCEPT ![d][r] = j] /\ j.pc = "mark"
    BY <1>14, JobShapes DEF RetryDispatch
  <2>2. /\ UNCHANGED rec /\ callQ' = [callQ EXCEPT ![k] = @ + 1] /\ JobAt(d, r, "dispatch")
    BY <1>0, <1>14 DEF RetryDispatch, QueueCall, tables
  <2>3. callQ'[k] = callQ[k] + 1 /\ job'[d][r] = j /\ Carrying(d, r)
    BY <1>1, <2>1, <2>2 DEF TypeInv, JobOK, JobAt, Carrying
  <2>4. rec[k].status = "handoff_pending"
    BY <1>2, <2>2, <2>3 DEF JobAt, JobStatus
  <2>5. CallsTold(rec[k].status, callQ'[k]) /\ JobTold("mark", callQ'[k])
    BY <1>1, <2>2, <2>3, <2>4 DEF CallsTold, JobTold, JobAt
  <2> QED BY <1>0, <1>1, <2>1, <2>2, <2>3, <2>5, CarrierHandoff
<1>15. ASSUME RetryDispatchFails(d, r) PROVE Handoff'
  <2> PICK new : new = ApplyFailurePolicy(rec[k], "automatic")
    OBVIOUS
  <2>1. PICK j : job' = [job EXCEPT ![d][r] = j] /\ j.pc \in {"reschedule", "done"}
    BY <1>15, JobShapes DEF RetryDispatchFails, FailJob
  <2>2. /\ rec' = [rec EXCEPT ![k] = new] /\ callQ' = callQ /\ JobAt(d, r, "dispatch")
        /\ BrokerMayFail
    BY <1>0, <1>15 DEF RetryDispatchFails, FailJob, queues
  <2>3. rec'[k] = new /\ job'[d][r] = j /\ Carrying(d, r)
    BY <2>1, <2>2 DEF TypeInv, RecOK, JobOK, JobAt, Carrying
  <2>4. rec[k].status = "handoff_pending"
    BY <1>2, <2>2, <2>3 DEF JobAt, JobStatus
  <2>5. /\ new.status = "retry_scheduled" \/ (new.status = "failed" /\ new.err = "automatic")
        /\ new.call = rec[k].call /\ new.spath = rec[k].spath /\ new.queued = rec[k].queued
    BY <1>1 DEF ApplyFailurePolicy, Records
  <2>6. RowTold(new)
    BY <1>1, <2>2, <2>4, <2>5 DEF RowTold
  <2>7. CallsTold(new.status, callQ[k]) /\ JobTold(j.pc, callQ[k])
    BY <1>1, <2>1, <2>2 DEF CallsTold, JobTold, JobAt
  <2> QED BY <1>0, <2>1, <2>2, <2>3, <2>6, <2>7, CarrierHandoff
<1>16. ASSUME RetryMarkSubmitted(d, r) PROVE Handoff'
  <2> PICK new : new = Submitted(rec[k])
    OBVIOUS
  <2>1. PICK j : job' = [job EXCEPT ![d][r] = j] /\ j.pc = "done"
    BY <1>16, JobShapes DEF RetryMarkSubmitted
  <2>2. /\ rec' = [rec EXCEPT ![k] = new] /\ callQ' = callQ /\ JobAt(d, r, "mark")
    BY <1>0, <1>16 DEF RetryMarkSubmitted, queues, TypeInv, RecOK
  <2>3. rec'[k] = new /\ job'[d][r] = j /\ Carrying(d, r)
    BY <2>1, <2>2 DEF TypeInv, RecOK, JobOK, JobAt, Carrying
  <2>4. new.status = "submitted" /\ new.queued /\ new.call = rec[k].call /\ new.spath = rec[k].spath
    BY <1>1 DEF Submitted, Records
  <2>5. RowTold(new) /\ CallsTold(new.status, callQ[k]) /\ JobTold(j.pc, callQ[k])
    BY <1>1, <2>1, <2>4 DEF RowTold, CallsTold, JobTold
  <2> QED BY <1>0, <2>1, <2>2, <2>3, <2>5, CarrierHandoff
<1> QED BY <1>3, <1>4, <1>9, <1>10, <1>11, <1>12, <1>13, <1>14, <1>15, <1>16 DEF JobStep

-----------------------------------------------------------------------------
(* The inspectors keep the handoff                                         *)

LEMMA InspectorHandoff ==
    ASSUME RecordsApart, TypeInv, TypeInv', Custody, Handoff,
           NEW i \in Inspectors, InspectorStep(i), Busy(i), NEW k \in Keys, k = insp[i].key,
           RowTold(rec'[k]), CallsTold(rec'[k].status, callQ'[k]), callQ'[k] >= callQ[k],
           InspectorTold(insp'[i].pc, callQ'[k], rec'[k].status)
    PROVE  Handoff'
<1>1. /\ StepKeeps({k}) /\ UNCHANGED << job, dl >>
      /\ \A j \in Inspectors : j # i => insp'[j] = insp[j]
  BY InspectorStepFrame
<1>2. CustodyAt(k) /\ HandoffAt(k)
  BY DEF Custody, Handoff
<1>3. ASSUME NEW d \in Downloaders, NEW r \in Rows, KeyOf[r] = k
      PROVE  JobTold(job'[d][r].pc, callQ'[k])
  <2>1. ~Carrying(d, r)
    BY <1>2, <1>3 DEF CustodyAt, JobsAt
  <2> QED BY <1>1, <2>1 DEF JobTold, Carrying
<1>4. ASSUME NEW j \in Inspectors, insp'[j].key = k
      PROVE  InspectorTold(insp'[j].pc, callQ'[k], rec'[k].status)
  <2>1. CASE j # i
    <3>1. insp'[j] = insp[j] /\ ~Busy(j)
      BY <1>1, <1>2, <1>4, <2>1 DEF CustodyAt, InspectorsAt
    <3> QED BY <3>1 DEF InspectorTold, JobTold, Busy, HandingOver
  <2> QED BY <2>1
<1>5. callQ[k] \in Nat /\ callQ'[k] \in Nat
  BY DEF TypeInv, CallQOK
<1>6. \A d \in Downloaders : dl'[d].key = k /\ dl'[d].pc = "remark" => callQ'[k] > 0
  BY <1>1, <1>2, <1>5 DEF HandoffAt
<1>7. HandoffAt(k)'
  BY <1>3, <1>4, <1>6 DEF HandoffAt
<1> QED BY <1>1, <1>7, HandoffOneKey DEF NoReconciler, Handoff

\* The record of a working inspector has no Call, and nothing was queued.
LEMMA WorkingUntold ==
    ASSUME TypeInv, Custody, Handoff, NEW i \in Inspectors, Working(i),
           NEW k \in Keys, k = insp[i].key
    PROVE  /\ rec[k].call = 0 /\ ~rec[k].queued /\ callQ[k] \in Nat
           /\ insp[i].loaded.call = 0 /\ ~insp[i].loaded.queued
           /\ insp[i].edit.call = 0 /\ ~insp[i].edit.queued
           /\ ~Reconciling => callQ[k] = 0
<1>1. /\ rec[k].status = "quarantined" /\ SameRow(insp[i].loaded, rec[k])
      /\ EditGood(insp[i].pc, insp[i].loaded, insp[i].edit)
  BY WorkingInspector
<1>2. rec[k].call = 0 /\ ~rec[k].queued
  BY <1>1, WithoutCall
<1>3. CallsTold(rec[k].status, callQ[k]) /\ callQ[k] \in Nat
  BY DEF Handoff, HandoffAt, TypeInv, CallQOK
<1> QED BY <1>1, <1>2, <1>3 DEF SameRow, EditGood, CallsTold

\* A verdict is written to a record without a Call.
LEMMA VerdictKeepsHandoff ==
    ASSUME RecordsApart, TypeInv, TypeInv', Custody, Handoff, NEW i \in Inspectors,
           InspectMissingFile(i) \/ CommitVerdict(i)
    PROVE  Handoff'
<1>1. Working(i) /\ Busy(i) /\ InspectorStep(i) /\ UNCHANGED callQ
  BY DEF InspectMissingFile, CommitVerdict, InspectorAt, Working, Busy, InspectorStep, queues
<1>2. PICK k \in Keys : k = insp[i].key
  BY <1>1, WorkingInspector
<1>3. insp'[i].pc \in {"reschedule_early", "finalize"}
  <2>1. PICK pc \in {"reschedule_early", "finalize"} :
          insp' = [insp EXCEPT ![i] = [IdleInspector EXCEPT !.key = k, !.pc = pc]]
    BY <1>2 DEF InspectMissingFile, CommitVerdict
  <2> DEFINE w == [IdleInspector EXCEPT !.key = k, !.pc = pc]
  <2>2. insp' = [insp EXCEPT ![i] = w] /\ w.pc = pc
    BY <2>1, IdleWithKey
  <2> HIDE DEF w
  <2> QED BY <2>1, <2>2, InspectorAfter
<1>4. InspectorTold(insp'[i].pc, callQ'[k], rec'[k].status)
  BY <1>3 DEF InspectorTold, JobTold
<1>5. /\ insp[i].loaded \in Records /\ insp[i].edit \in Records /\ rec[k] \in Records
      /\ SameRow(insp[i].loaded, rec[k]) /\ EditGood(insp[i].pc, insp[i].loaded, insp[i].edit)
      /\ insp[i].loaded.call = 0 /\ ~insp[i].loaded.queued
      /\ insp[i].edit.call = 0 /\ ~insp[i].edit.queued
      /\ callQ[k] \in Nat /\ (~Reconciling => callQ[k] = 0)
  BY <1>1, <1>2, WorkingInspector, WorkingUntold
<1>6. ASSUME NEW b \in Records, rec' = [rec EXCEPT ![k] = Flush(insp[i].loaded, b, rec[k])],
             b.call = 0, ~b.queued, b.status # "submitted"
      PROVE  Handoff'
  <2>1. SameRow(rec'[k], b)
    <3>1. SameRow(Flush(insp[i].loaded, b, rec[k]), b)
      BY <1>5, FlushOfFresh
    <3> QED BY <1>6, <3>1 DEF TypeInv, RecOK
  <2>2. RowTold(rec'[k])
    BY <1>6, <2>1 DEF RowTold, SameRow
  <2>3. CallsTold(rec'[k].status, callQ'[k]) /\ callQ'[k] >= callQ[k]
    BY <1>1, <1>5 DEF CallsTold
  <2> QED BY <1>1, <1>2, <1>4, <2>2, <2>3, InspectorHandoff
<1>7. CASE InspectMissingFile(i)
  <2>1. PICK b \in {MarkFailed(insp[i].loaded), Rejected(insp[i].loaded, insp[i].loaded.qpath)} :
          rec' = [rec EXCEPT ![k] = Flush(insp[i].loaded, b, rec[k])]
    BY <1>2, <1>7 DEF InspectMissingFile, TypeInv, RecOK
  <2>2. MarkFailed(insp[i].loaded) \in Records
    BY <1>5, RecordStepTypes
  <2>3. Rejected(insp[i].loaded, insp[i].loaded.qpath) \in Records
    <3>1. insp[i].loaded.qpath \in NullablePath
      BY <1>5 DEF Records
    <3> QED BY <1>5, <3>1, RecordStepTypes
  <2>4. b.call = 0 /\ ~b.queued /\ b.status # "submitted"
    <3>1. CASE b = MarkFailed(insp[i].loaded)
      BY <1>5, <3>1 DEF MarkFailed, Records
    <3>2. CASE b = Rejected(insp[i].loaded, insp[i].loaded.qpath)
      BY <1>5, <3>2 DEF Rejected, Records
    <3> QED BY <2>1, <3>1, <3>2
  <2> QED BY <1>6, <2>1, <2>2, <2>3, <2>4
<1>8. CASE CommitVerdict(i)
  <2>1. /\ rec' = [rec EXCEPT ![k] = Flush(insp[i].loaded, insp[i].edit, rec[k])]
        /\ insp[i].pc = "commit"
    BY <1>2, <1>8 DEF CommitVerdict, Written, InspectorAt
  <2>2. insp[i].edit.status # "submitted"
    BY <1>5, <2>1 DEF EditGood
  <2> QED BY <1>5, <1>6, <2>1, <2>2
<1> QED BY <1>7, <1>8

\* The Call is created in the transaction that leaves it to be queued.
LEMMA CommitKeepsHandoff ==
    ASSUME RecordsApart, TypeInv, TypeInv', Custody, Handoff, NEW i \in Inspectors,
           CommitHandoff(i)
    PROVE  Handoff'
<1>1. /\ insp[i].pc = "commit" /\ insp[i].edit.status = "accepted"
      /\ Working(i) /\ Busy(i) /\ InspectorStep(i) /\ UNCHANGED callQ
  BY DEF CommitHandoff, InspectorAt, Working, Busy, InspectorStep, queues
<1>2. PICK k \in Keys : k = insp[i].key
  BY <1>1, WorkingInspector
<1>3. /\ insp[i].loaded \in Records /\ insp[i].edit \in Records /\ rec[k] \in Records
      /\ SameRow(insp[i].loaded, rec[k]) /\ EditGood("commit", insp[i].loaded, insp[i].edit)
      /\ ~insp[i].edit.queued /\ callQ[k] \in Nat /\ (~Reconciling => callQ[k] = 0)
  BY <1>1, <1>2, WorkingInspector, WorkingUntold
<1>4. RowTold(rec[k]) /\ CallsTold(rec[k].status, callQ[k])
  BY DEF Handoff, HandoffAt
<1>5. CASE UNCHANGED rec /\ insp' = [insp EXCEPT ![i] = IdleInspector]
  <2>1. insp'[i].pc = "idle"
    <3>1. insp'[i] = IdleInspector
      BY <1>5, InspectorAfter
    <3> QED BY <3>1 DEF IdleInspector
  <2>2. InspectorTold(insp'[i].pc, callQ'[k], rec'[k].status)
    BY <2>1 DEF InspectorTold, JobTold
  <2> QED BY <1>1, <1>2, <1>3, <1>4, <1>5, <2>2, InspectorHandoff
<1>6. CASE ~(UNCHANGED rec /\ insp' = [insp EXCEPT ![i] = IdleInspector])
  <2> PICK n : n = IF insp[i].edit.call # 0 THEN insp[i].edit.call ELSE Len(calls[k]) + 1
    OBVIOUS
  <2>1. /\ rec' = [rec EXCEPT ![k] = Flush(insp[i].loaded, HandoffPending(insp[i].edit, n), rec[k])]
        /\ insp' = [insp EXCEPT ![i] = [IdleInspector EXCEPT !.key = k, !.pc = "dispatch"]]
    BY <1>2, <1>6 DEF CommitHandoff
  <2>2. insp'[i].pc = "dispatch"
    <3>1. PICK w : insp' = [insp EXCEPT ![i] = w] /\ w.pc = "dispatch"
      BY <2>1, IdleWithKey
    <3> QED BY <3>1, InspectorAfter
  <2> PICK b : b = HandoffPending(insp[i].edit, n)
    OBVIOUS
  <2>3. n \in Nat
    <3>1. insp[i].edit.call \in Nat /\ calls[k] \in Seq(Paths)
      BY <1>3 DEF Records, TypeInv, CallsOK
    <3> QED BY <3>1
  <2>4. b \in Records
    BY <1>3, <2>3, RecordStepTypes
  <2>5. b.status = "handoff_pending" /\ ~b.queued /\ b.spath # None
    BY <1>1, <1>3 DEF HandoffPending, Records, EditGood
  <2>6. SameRow(rec'[k], b)
    <3>1. SameRow(Flush(insp[i].loaded, b, rec[k]), b)
      BY <1>3, <2>4, FlushOfFresh
    <3>2. rec'[k] = Flush(insp[i].loaded, b, rec[k])
      BY <2>1 DEF TypeInv, RecOK
    <3> QED BY <3>1, <3>2
  <2>7. rec'[k].status = "handoff_pending" /\ RowTold(rec'[k])
    BY <2>5, <2>6 DEF RowTold, SameRow
  <2>8. CallsTold(rec'[k].status, callQ'[k]) /\ callQ'[k] >= callQ[k]
    BY <1>1, <1>3 DEF CallsTold
  <2>9. InspectorTold(insp'[i].pc, callQ'[k], rec'[k].status)
    BY <1>1, <1>3, <2>2, <2>7 DEF InspectorTold, JobTold
  <2> QED BY <1>1, <1>2, <2>7, <2>8, <2>9, InspectorHandoff
<1> QED BY <1>5, <1>6

\* The Call is queued before the record is marked.
LEMMA HandingOverKeepsHandoff ==
    ASSUME RecordsApart, Orderly, TypeInv, TypeInv', Custody, Handoff, NEW i \in Inspectors,
           Dispatch(i) \/ DispatchFails(i) \/ MarkSubmitted(i)
    PROVE  Handoff'
<1>1. HandingOver(i) /\ Busy(i) /\ InspectorStep(i)
  BY DEF Dispatch, DispatchFails, MarkSubmitted, InspectorAt, HandingOver, Busy, InspectorStep
<1>2. PICK k \in Keys : k = insp[i].key
  BY <1>1, BusyInspector
<1>3. /\ rec[k] \in Records /\ callQ[k] \in Nat /\ rec[k].spath # None
      /\ rec[k].status \in {"accepted", "handoff_pending", "submitted"}
  BY <1>1, <1>2, BusyInspector DEF InspectorGood, HandingOver, RowGood, TypeInv, CallQOK
<1>4. /\ RowTold(rec[k]) /\ CallsTold(rec[k].status, callQ[k])
      /\ InspectorTold(insp[i].pc, callQ[k], rec[k].status)
  BY <1>2 DEF Handoff, HandoffAt
<1>5. CASE Dispatch(i)
  <2>1. PICK w : insp' = [insp EXCEPT ![i] = w] /\ w.pc = "mark"
    BY <1>5, InspectorShapes DEF Dispatch
  <2>2. insp'[i].pc = "mark" /\ insp[i].pc = "dispatch"
    BY <1>5, <2>1, InspectorAfter DEF Dispatch, InspectorAt
  <2>3. UNCHANGED rec /\ callQ'[k] = callQ[k] + 1
    BY <1>2, <1>5 DEF Dispatch, tables, QueueCall, TypeInv, CallQOK
  <2>4. CallsTold(rec'[k].status, callQ'[k]) /\ callQ'[k] >= callQ[k]
    BY <1>3, <1>4, <2>2, <2>3 DEF InspectorTold, JobTold, CallsTold
  <2>5. InspectorTold(insp'[i].pc, callQ'[k], rec'[k].status)
    BY <1>3, <1>4, <2>2, <2>3 DEF InspectorTold, JobTold
  <2> QED BY <1>1, <1>2, <1>4, <2>3, <2>4, <2>5, InspectorHandoff
<1>6. CASE DispatchFails(i)
  <2> PICK new : new = ApplyFailurePolicy(rec[k], "automatic")
    OBVIOUS
  <2>1. InspectorTo(i, "reschedule") \/ InspectorTo(i, "finalize")
    BY <1>6 DEF DispatchFails
  <2>2. PICK w : insp' = [insp EXCEPT ![i] = w] /\ w.pc \in {"reschedule", "finalize"}
    BY <2>1, InspectorShapes
  <2>3. insp'[i].pc \in {"reschedule", "finalize"}
    BY <2>2, InspectorAfter
  <2>4. /\ rec'[k] = new /\ UNCHANGED callQ /\ BrokerMayFail
        /\ insp[i].pc = "dispatch"
    BY <1>2, <1>6 DEF DispatchFails, queues, TypeInv, RecOK, InspectorAt
  <2>5. ~Reconciling /\ callQ[k] = 0 /\ rec[k].status = "handoff_pending"
    BY <1>4, <2>4 DEF Orderly, InspectorTold, JobTold
  <2>6. /\ new.status = "retry_scheduled" \/ (new.status = "failed" /\ new.err = "automatic")
        /\ new.call = rec[k].call /\ new.spath = rec[k].spath /\ new.queued = rec[k].queued
    BY <1>3 DEF ApplyFailurePolicy, Records
  <2>7. RowTold(rec'[k])
    BY <1>4, <2>4, <2>5, <2>6 DEF RowTold
  <2>8. CallsTold(rec'[k].status, callQ'[k]) /\ callQ'[k] >= callQ[k]
    BY <2>4, <2>5 DEF CallsTold
  <2>9. InspectorTold(insp'[i].pc, callQ'[k], rec'[k].status)
    BY <2>3 DEF InspectorTold, JobTold
  <2> QED BY <1>1, <1>2, <2>7, <2>8, <2>9, InspectorHandoff
<1>7. CASE MarkSubmitted(i)
  <2> PICK new : new = Submitted(rec[k])
    OBVIOUS
  <2>1. PICK w : insp' = [insp EXCEPT ![i] = w] /\ w.pc = "finalize"
    BY <1>7, InspectorShapes DEF MarkSubmitted
  <2>2. insp'[i].pc = "finalize"
    BY <2>1, InspectorAfter
  <2>3. rec'[k] = new /\ UNCHANGED callQ
    BY <1>2, <1>7 DEF MarkSubmitted, queues, TypeInv, RecOK
  <2>4. new.status = "submitted" /\ new.queued /\ new.spath = rec[k].spath
    BY <1>3 DEF Submitted, Records
  <2>5. RowTold(rec'[k])
    BY <1>3, <2>3, <2>4 DEF RowTold
  <2>6. CallsTold(rec'[k].status, callQ'[k]) /\ callQ'[k] >= callQ[k]
    BY <1>3, <1>4, <2>3, <2>4 DEF CallsTold
  <2>7. InspectorTold(insp'[i].pc, callQ'[k], rec'[k].status)
    BY <2>2 DEF InspectorTold, JobTold
  <2> QED BY <1>1, <1>2, <2>5, <2>6, <2>7, InspectorHandoff
<1> QED BY <1>5, <1>6, <1>7

LEMMA InspectorsKeepHandoff ==
    ASSUME RecordsApart, Orderly, TypeInv, TypeInv', Custody, Handoff, NEW i \in Inspectors,
           ReceiveInspection(i) \/ InspectorStep(i) \/ InspectorDies(i)
    PROVE  Handoff'
<1>0. insp[i] \in InspectorStates /\ insp \in [Inspectors -> GoodInspectors]
  BY DEF TypeInv, InspOK, GoodInspectors
<1>1. ASSUME UNCHANGED << rec, callQ, job, dl >>, NEW w, insp' = [insp EXCEPT ![i] = w],
             w.pc \notin {"dispatch", "mark"}
      PROVE  Handoff'
  <2>1. insp'[i] = w /\ \A j \in Inspectors : j # i => insp'[j] = insp[j]
    BY <1>1, InspectorAfter
  <2> QED BY <1>1, <2>1, NothingTold DEF Handoff, NoReconciler
<1>2. CASE insp' = [insp EXCEPT ![i] = IdleInspector] /\ UNCHANGED << rec, callQ, job, dl >>
  <2>1. IdleInspector.pc = "idle"
    BY DEF IdleInspector
  <2> QED BY <1>1, <1>2, <2>1
<1>3. CASE UNCHANGED << rec, callQ, job, dl, insp >>
  BY <1>3, NothingTold DEF Handoff, NoReconciler
<1>4. CASE ReceiveInspection(i)
  <2>1. UNCHANGED << rec, callQ, job, dl >>
    BY <1>4 DEF ReceiveInspection, tables
  <2>2. PICK k \in Keys : \/ insp' = [insp EXCEPT ![i].pc = "loaded", ![i].key = k,
                                       ![i].loaded = rec[k], ![i].edit = rec[k]]
                          \/ insp' = [insp EXCEPT ![i].pc = "finalize", ![i].key = k]
                          \/ UNCHANGED insp
    BY <1>4 DEF ReceiveInspection
  <2> DEFINE took == [insp[i] EXCEPT !.pc = "loaded", !.key = k, !.loaded = rec[k], !.edit = rec[k]]
             left == [insp[i] EXCEPT !.pc = "finalize", !.key = k]
  <2>3. took.pc = "loaded" /\ left.pc = "finalize"
    BY <1>0 DEF InspectorStates
  <2>4. insp' = [insp EXCEPT ![i] = took] \/ insp' = [insp EXCEPT ![i] = left] \/ UNCHANGED insp
    BY <1>0, <2>2
  <2> HIDE DEF took, left
  <2> QED BY <1>1, <1>3, <2>1, <2>3, <2>4
<1>5. CASE BeginInspection(i) \/ Inspect(i)
  <2>1. UNCHANGED << rec, callQ, job, dl >>
    BY <1>5 DEF BeginInspection, Inspect, tables, queues
  <2>2. CASE insp' = [insp EXCEPT ![i] = IdleInspector]
    BY <1>2, <2>1, <2>2
  <2>3. CASE BeginInspection(i) /\ insp' # [insp EXCEPT ![i] = IdleInspector]
    <3> DEFINE w == [insp[i] EXCEPT !.pc = "inspecting"]
    <3>1. insp' = [insp EXCEPT ![i] = w] /\ w.pc = "inspecting"
      BY <1>0, <2>3 DEF BeginInspection, InspectorStates
    <3> HIDE DEF w
    <3> QED BY <1>1, <2>1, <3>1
  <2>4. CASE Inspect(i)
    <3>1. PICK c : insp' = [insp EXCEPT ![i].edit.checks = c,
                              ![i].pc = IF Promotable(c) THEN "passed" ELSE "refused"]
      BY <2>4 DEF Inspect
    <3>2. insp'[i].pc \in {"passed", "refused"} /\ \A j \in Inspectors : j # i => insp'[j] = insp[j]
      BY <1>0, <3>1 DEF InspectorStates
    <3> QED BY <2>1, <3>2, NothingTold DEF Handoff, NoReconciler
  <2> QED BY <1>5, <2>2, <2>3, <2>4
<1>6. CASE InspectionRaises(i) \/ MoveToRejected(i) \/ MoveToAccepted(i)
  <2>1. UNCHANGED << rec, callQ, job, dl >> /\ \E e : Decide(i, e)
    BY <1>6 DEF InspectionRaises, MoveToRejected, MoveToAccepted, tables, queues
  <2>2. PICK w : insp' = [insp EXCEPT ![i] = w] /\ w.pc = "commit"
    BY <2>1, InspectorShapes
  <2> QED BY <1>1, <2>1, <2>2
<1>7. CASE PublishLater(i)
  <2>1. UNCHANGED << rec, callQ, job, dl >> /\ InspectorTo(i, "finalize")
    BY <1>7 DEF PublishLater, tables
  <2>2. PICK w : insp' = [insp EXCEPT ![i] = w] /\ w.pc = "finalize"
    BY <2>1, InspectorShapes
  <2> QED BY <1>1, <2>1, <2>2
<1>8. CASE FinalizeRun(i)
  <2>1. UNCHANGED << rec, callQ, job, dl >>
    BY <1>8 DEF FinalizeRun, tables, queues
  <2>2. CASE insp' = [insp EXCEPT ![i] = IdleInspector]
    BY <1>2, <2>1, <2>2
  <2>3. CASE insp' # [insp EXCEPT ![i] = IdleInspector]
    <3>1. PICK n, v : insp' = [insp EXCEPT ![i].pc = "close", ![i].run = n, ![i].verdict = v]
      BY <1>8, <2>3 DEF FinalizeRun
    <3> DEFINE w == [insp[i] EXCEPT !.pc = "close", !.run = n, !.verdict = v]
    <3>2. insp' = [insp EXCEPT ![i] = w] /\ w.pc = "close"
      BY <1>0, <3>1 DEF InspectorStates
    <3> HIDE DEF w
    <3> QED BY <1>1, <2>1, <3>2
  <2> QED BY <2>2, <2>3
<1>9. CASE PublishLaterFails(i) \/ CloseRun(i) \/ InspectorDies(i)
  <2>1. UNCHANGED << rec, callQ, job, dl >> /\ insp' = [insp EXCEPT ![i] = IdleInspector]
    BY <1>9 DEF PublishLaterFails, CloseRun, InspectorDies, tables, queues
  <2> QED BY <1>2, <2>1
<1> QED BY <1>4, <1>5, <1>6, <1>7, <1>8, <1>9, VerdictKeepsHandoff, CommitKeepsHandoff,
           HandingOverKeepsHandoff DEF InspectorStep

-----------------------------------------------------------------------------
(* The download worker keeps the handoff                                   *)

\* A retry prepares a record with a Call for the handoff and no other.
LEMMA RetriedTold ==
    ASSUME NEW old \in Records, NEW s \in Records, SameRow(old, s), NEW n \in RunIds,
           s.status \in {"retry_scheduled", "failed"}, RowTold(s), NEW new,
           new = Flush(old, PrepareForRetry(old, n), s)
    PROVE  RowTold(new) /\ new.status \in {"accepted", "quarantined", "downloading"}
<1> PICK prep : prep = PrepareForRetry(old, n)
  OBVIOUS
<1>1. prep \in Records
  BY PrepareForRetryType
<1>2. old.call = s.call /\ old.spath = s.spath /\ ~old.queued /\ (old.call # 0 => old.spath # None)
  BY DEF SameRow, RowTold
<1>3. CASE old.call # 0
  <2>1. /\ prep.status = "accepted" /\ prep.call = old.call /\ prep.spath = old.spath
        /\ ~prep.queued
    BY <1>2, <1>3 DEF PrepareForRetry, Records
  <2>2. SameRow(new, prep)
    BY <1>1, FlushOfFresh
  <2> QED BY <1>2, <1>3, <2>1, <2>2 DEF RowTold, SameRow
<1>4. CASE old.call = 0
  <2>1. prep.status \in {"quarantined", "downloading"} /\ prep.call = 0 /\ ~prep.queued
    BY <1>2, <1>4 DEF PrepareForRetry, Records
  <2>2. SameRow(new, prep)
    BY <1>1, FlushOfFresh
  <2> QED BY <2>1, <2>2 DEF RowTold, SameRow
<1> QED BY <1>3, <1>4

\* A step of a download worker leaves the other download workers alone.
LEMMA OtherWorkersStay ==
    ASSUME TypeInv, NEW d \in Downloaders,
           \/ DownloaderStep(d) \/ DownloaderReceives(d) \/ DownloaderDies(d)
           \/ StartScheduledRun(d) \/ SelectHandoff(d),
           NEW c \in Downloaders, c # d
    PROVE  dl'[c] = dl[c] /\ job'[c] = job[c]
<1>1. dl \in [Downloaders -> GoodWorkers] /\ job \in [Downloaders -> [Rows -> GoodJobs]]
  BY DEF TypeInv, DlOK, JobOK
<1>2. CASE StartRetry(d)
  <2>1. PICK k : k = dl[d].key
    OBVIOUS
  <2>2. dl'[c] = dl[c]
    BY <1>1, <1>2 DEF StartRetry
  <2>3. UNCHANGED job \/ \E n, r, j : job' = [job EXCEPT ![d][r] = j] \/ job' = [job EXCEPT ![d][r].pc = j]
    BY <1>2 DEF StartRetry, ResumeAt, JobTo, StartTransfer
  <2> QED BY <1>1, <2>2, <2>3
<1> QED BY <1>1, <1>2 DEF DownloaderStep, DownloaderReceives, StartReading, SheetReadFails, ReadSheet,
    RetryFindsActiveRun, ComputeResults, ApplyResults, ClaimHandoff, Redispatch, RedispatchFails,
    MarkReconciled, ReceiveRun, ReceiveRetry, SkipRetry, DownloaderDies, StartScheduledRun, SelectHandoff

LEMMA RetryKeepsHandoff ==
    ASSUME RecordsApart, TypeInv, TypeInv', Custody, Handoff, NEW d \in Downloaders, StartRetry(d)
    PROVE  Handoff'
<1>1. dl[d].pc = "retry" /\ dl[d] \in GoodWorkers /\ job[d] = NoJobs
  BY DEF StartRetry, TypeInv, DlOK, Custody, JobsInPlace
<1>2. PICK k \in Keys : k = dl[d].key
  BY <1>1 DEF GoodWorkers
<1>3. /\ rec[k] \in Records /\ RowGood(k, rec[k], calls[k]) /\ dl[d].copy \in Records
      /\ SameRow(dl[d].copy, rec[k]) /\ rec[k].status \in {"retry_scheduled", "failed"}
  BY <1>1, <1>2 DEF Custody, CustodyAt, RowAt, WorkersAt, WorkerGood, TypeInv, RecOK, GoodWorkers
<1>4. Free(k) /\ RowTold(rec[k]) /\ CallsTold(rec[k].status, callQ[k]) /\ callQ[k] \in Nat
  BY <1>3, FreeByStatus DEF Handoff, HandoffAt, TypeInv, CallQOK
<1>5. PICK r \in Rows : r = rec[k].row /\ KeyOf[r] = k
  BY <1>3 DEF RowGood
<1>6. NextRun \in RunIds
  BY NextRunType DEF StartRetry
<1> PICK new : new = Flush(dl[d].copy, PrepareForRetry(dl[d].copy, NextRun), rec[k])
  OBVIOUS
<1>7. RowTold(new) /\ new.status \in {"accepted", "quarantined", "downloading"}
  BY <1>3, <1>4, <1>6, RetriedTold
<1>8. rec' = [rec EXCEPT ![k] = new] /\ UNCHANGED << calls, inspQ, callQ, insp >>
  BY <1>2 DEF StartRetry, queues
<1>9. rec'[k] = new /\ \A h \in Keys \ {k} : rec'[h] = rec[h]
  BY <1>8 DEF TypeInv, RecOK
<1>10. dl'[d].pc \in {"idle", "retrying"}
  <2>1. \/ dl' = [dl EXCEPT ![d] = IdleWorker]
        \/ dl' = [dl EXCEPT ![d].pc = "retrying", ![d].run = NextRun, ![d].copy = None]
    BY DEF StartRetry
  <2> QED BY <1>1, <2>1 DEF TypeInv, DlOK, GoodWorkers, Workers, IdleWorker
<1>11. \A q \in Rows : job'[d][q].pc \in {"none", "handoff", "publish", "transfer"}
                       /\ (q # r => job'[d][q] = NoJob)
  <2>1. CASE UNCHANGED job
    BY <1>1, <2>1 DEF NoJobs, NoJob
  <2>2. CASE ResumeAt(d, r, k, new)
    <3>1. \/ JobTo(d, r, "handoff") \/ JobTo(d, r, "publish") \/ StartTransfer(d, r)
      BY <1>7, <2>2 DEF ResumeAt
    <3>2. PICK j : job' = [job EXCEPT ![d][r] = j] /\ j.pc \in {"handoff", "publish", "transfer"}
      BY <3>1, JobShapes
    <3>3. job'[d][r] = j /\ \A q \in Rows : q # r => job'[d][q] = NoJob
      BY <1>1, <3>2 DEF TypeInv, JobOK, NoJobs
    <3> QED BY <3>2, <3>3 DEF NoJob
  <2> QED BY <1>2, <1>5, <2>1, <2>2 DEF StartRetry
<1>12. \A c \in Downloaders : c # d => dl'[c] = dl[c] /\ job'[c] = job[c]
  BY OtherWorkersStay DEF DownloaderStep
<1>13. StepKeeps({k})
  <2>1. RowsKept({k}) /\ CallsKept({k}) /\ InspectorsKept({k})
    BY <1>8, <1>9, KeptByNoChange DEF RowsKept, CallsKept, TypeInv, InspQOK
  <2>2. JobsKept({k})
    BY <1>5, <1>11, <1>12 DEF JobsKept, Carrying, NoJob
  <2> QED BY <2>1, <2>2 DEF StepKeeps
<1>14. ASSUME NEW i \in Inspectors, insp'[i].key = k
       PROVE  InspectorTold(insp'[i].pc, callQ'[k], rec'[k].status)
  BY <1>4, <1>8, <1>14 DEF Free, Busy, HandingOver, InspectorTold, JobTold
<1>15. CallsTold(rec'[k].status, callQ'[k])
  BY <1>3, <1>4, <1>8 DEF CallsTold
<1>16. \A c \in Downloaders, q \in Rows : KeyOf[q] = k => JobTold(job'[c][q].pc, callQ'[k])
  <2> SUFFICES ASSUME NEW c \in Downloaders, NEW q \in Rows, KeyOf[q] = k
               PROVE  JobTold(job'[c][q].pc, callQ'[k])
    OBVIOUS
  <2>1. CASE c = d
    BY <1>11, <2>1 DEF JobTold
  <2>2. CASE c # d
    BY <1>8, <1>12, <2>2 DEF Handoff, HandoffAt
  <2> QED BY <2>1, <2>2
<1>17. HandoffAt(k)'
  <2>1. ASSUME NEW c \in Downloaders, dl'[c].key = k, dl'[c].pc = "remark" PROVE callQ'[k] > 0
    BY <1>8, <1>10, <1>12, <2>1 DEF Handoff, HandoffAt
  <2> QED BY <1>7, <1>9, <1>14, <1>15, <1>16, <2>1 DEF HandoffAt
<1>18. ~Reconciling => NoReconciler'
  BY <1>10, <1>12 DEF Handoff, NoReconciler, Reconcilers
<1> QED BY <1>10, <1>12, <1>13, <1>17, <1>18, HandoffOneKey

\* The reconciler, which no failing publish meets.
LEMMA ReconcilingKeepsHandoff ==
    ASSUME RecordsApart, Orderly, TypeInv, TypeInv', Custody, Handoff, NEW d \in Downloaders,
           ClaimHandoff(d) \/ Redispatch(d) \/ RedispatchFails(d) \/ MarkReconciled(d)
    PROVE  Handoff'
<1>1. dl[d].pc \in Reconcilers /\ dl[d] \in Workers /\ dl \in [Downloaders -> GoodWorkers]
  BY DEF ClaimHandoff, Redispatch, RedispatchFails, MarkReconciled, Reconcilers, TypeInv, DlOK,
         GoodWorkers
<1>2. Reconciling /\ ~BrokerMayFail
  BY <1>1 DEF Handoff, NoReconciler, Orderly
<1>3. PICK k \in Keys : k = dl[d].key
  BY <1>1 DEF TypeInv, DlOK, GoodWorkers, Reconcilers
<1>4. /\ rec[k] \in Records /\ rec[k].spath # None /\ callQ[k] \in Nat
      /\ RowTold(rec[k]) /\ HandoffAt(k)
  <2>1. WorkerGood(dl[d], rec[k]) /\ rec[k] \in Records /\ callQ[k] \in Nat
    BY <1>3 DEF Custody, CustodyAt, WorkersAt, TypeInv, RecOK, CallQOK
  <2> QED BY <1>1, <2>1 DEF WorkerGood, Handoff, HandoffAt
<1>5. UNCHANGED << calls, inspQ, insp, job >>
  BY DEF ClaimHandoff, Redispatch, RedispatchFails, MarkReconciled, tables, queues
<1>6. \A c \in Downloaders : c # d => dl'[c] = dl[c]
  BY OtherWorkersStay DEF DownloaderStep
<1>7. \A s, n : CallsTold(s, n)
  BY <1>2 DEF CallsTold
<1>8. dl' = [dl EXCEPT ![d] = IdleWorker] => dl'[d].pc = "idle"
  BY <1>1 DEF IdleWorker
<1>9. CASE ClaimHandoff(d)
  <2>1. UNCHANGED callQ
    BY <1>9 DEF ClaimHandoff, queues
  <2>2. dl'[d].pc \in {"idle", "redispatch"}
    BY <1>1, <1>8, <1>9 DEF ClaimHandoff, Workers
  <2>3. CASE UNCHANGED rec
    BY <1>2, <1>5, <1>6, <2>1, <2>2, <2>3, NothingTold
  <2>4. CASE ~UNCHANGED rec
    <3> DEFINE new == [rec[k] EXCEPT !.status = "handoff_pending", !.err = "dispatching"]
    <3>1. Reconcilable(rec[k]) /\ rec' = [rec EXCEPT ![k] = new]
      BY <1>3, <1>9, <2>4 DEF ClaimHandoff, TypeInv, RecOK
    <3>2. /\ new.status = "handoff_pending" /\ new.call = rec[k].call
          /\ new.spath = rec[k].spath /\ new.queued = rec[k].queued
      BY <1>4 DEF Records
    <3> HIDE DEF new
    <3>3. RowTold(new) /\ CallsTold(new.status, callQ[k])
      BY <1>4, <1>7, <3>1, <3>2 DEF RowTold, Reconcilable
    <3> QED BY <1>2, <1>5, <1>6, <2>1, <2>2, <3>1, <3>3, RowTouchHandoff
  <2> QED BY <2>3, <2>4
<1>10. CASE Redispatch(d)
  <2>1. UNCHANGED rec /\ callQ'[k] = callQ[k] + 1 /\ \A h \in Keys \ {k} : callQ'[h] = callQ[h]
    BY <1>3, <1>10 DEF Redispatch, tables, QueueCall, TypeInv, CallQOK
  <2>2. StepKeeps({k})
    BY <1>5, <2>1, KeptByNoChange DEF StepKeeps, CallsKept
  <2>3. dl'[d].key = k
    BY <1>1, <1>3, <1>10 DEF Redispatch, Workers
  <2>4. ASSUME NEW pc, JobTold(pc, callQ[k]) PROVE JobTold(pc, callQ'[k])
    BY <1>2, <1>4, <2>1, <2>4 DEF JobTold
  <2>5. ASSUME NEW i \in Inspectors, insp'[i].key = k
        PROVE  InspectorTold(insp'[i].pc, callQ'[k], rec'[k].status)
    BY <1>2, <1>4, <1>5, <2>4, <2>5 DEF HandoffAt, InspectorTold
  <2>6. HandoffAt(k)'
    BY <1>4, <1>5, <1>7, <2>1, <2>4, <2>5 DEF HandoffAt
  <2> QED BY <1>2, <1>6, <2>2, <2>3, <2>6, HandoffOneKey
<1>11. CASE MarkReconciled(d)
  <2> PICK new : new = Submitted(rec[k])
    OBVIOUS
  <2>1. rec' = [rec EXCEPT ![k] = new] /\ UNCHANGED callQ /\ dl'[d].pc = "idle"
    BY <1>3, <1>8, <1>11 DEF MarkReconciled, queues, TypeInv, RecOK
  <2>2. new.status = "submitted" /\ new.queued /\ new.spath = rec[k].spath
    BY <1>4 DEF Submitted, Records
  <2>3. RowTold(new) /\ CallsTold(new.status, callQ[k])
    BY <1>4, <1>7, <2>2 DEF RowTold
  <2> QED BY <1>2, <1>5, <1>6, <2>1, <2>3, RowTouchHandoff
<1> QED BY <1>2, <1>9, <1>10, <1>11 DEF RedispatchFails

LEMMA WorkersKeepHandoff ==
    ASSUME RecordsApart, Orderly, TypeInv, TypeInv', Custody, Handoff, NEW d \in Downloaders,
           \/ DownloaderStep(d) \/ DownloaderReceives(d) \/ DownloaderDies(d)
           \/ StartScheduledRun(d) \/ SelectHandoff(d)
    PROVE  Handoff'
<1>0. dl[d] \in Workers /\ dl \in [Downloaders -> GoodWorkers]
  BY DEF TypeInv, DlOK, GoodWorkers
<1>o. \A c \in Downloaders : c # d => dl'[c] = dl[c] /\ job'[c] = job[c]
  BY OtherWorkersStay
<1>1. ASSUME UNCHANGED << rec, callQ, insp >>,
             dl'[d] = dl[d] \/ dl'[d].pc \notin Reconcilers \/ (Reconciling /\ dl'[d].pc = "reclaim"),
             \A r \in Rows : job'[d][r] = job[d][r] \/ job'[d][r].pc \in {"none", "todo"}
      PROVE  Handoff'
  <2>1. ~Reconciling => NoReconciler'
    BY <1>0, <1>o, <1>1 DEF Handoff, NoReconciler
  <2> QED BY <1>0, <1>o, <1>1, <2>1, NothingTold DEF Reconcilers
<1>2. dl' = [dl EXCEPT ![d] = IdleWorker] => dl'[d].pc \notin Reconcilers
  BY <1>0 DEF IdleWorker, Reconcilers
<1>3. ASSUME \/ StartReading(d) \/ SheetReadFails(d) \/ RetryFindsActiveRun(d)
             \/ ReceiveRun(d) \/ ReceiveRetry(d) \/ SkipRetry(d) \/ StartScheduledRun(d)
             \/ ComputeResults(d) \/ SelectHandoff(d)
      PROVE  Handoff'
  <2>1. UNCHANGED << rec, callQ, insp, job >>
    BY <1>3 DEF StartReading, SheetReadFails, RetryFindsActiveRun, ReceiveRun, ReceiveRetry,
       SkipRetry, StartScheduledRun, ComputeResults, SelectHandoff, tables, queues
  <2>2. dl'[d] = dl[d] \/ dl'[d].pc \notin Reconcilers \/ (Reconciling /\ dl'[d].pc = "reclaim")
    <3>1. CASE StartReading(d) \/ SheetReadFails(d) \/ RetryFindsActiveRun(d) \/ SkipRetry(d)
      BY <1>0, <1>2, <3>1 DEF StartReading, SheetReadFails, RetryFindsActiveRun, SkipRetry, Workers,
         Reconcilers
    <3>2. CASE ReceiveRun(d) \/ StartScheduledRun(d)
      <4>1. dl' = dl \/ \E n : dl' = [dl EXCEPT ![d].pc = "continue", ![d].run = n]
        BY <3>2 DEF ReceiveRun, StartScheduledRun
      <4> QED BY <1>0, <4>1 DEF Workers, Reconcilers
    <3>3. CASE ReceiveRetry(d)
      <4>1. \E m : dl' = [dl EXCEPT ![d].pc = "retry", ![d].key = m.key, ![d].copy = rec[m.key]]
        BY <3>3 DEF ReceiveRetry
      <4> QED BY <1>0, <4>1 DEF Workers, Reconcilers
    <3>4. CASE ComputeResults(d)
      <4>1. \E v : dl' = [dl EXCEPT ![d].pc = "apply", ![d].verdict = v]
        BY <3>4 DEF ComputeResults
      <4> QED BY <1>0, <4>1 DEF Workers, Reconcilers
    <3>5. CASE SelectHandoff(d)
      <4>1. Reconciling /\ \E k : dl' = [dl EXCEPT ![d].pc = "reclaim", ![d].key = k, ![d].copy = rec[k]]
        BY <3>5 DEF SelectHandoff
      <4> QED BY <1>0, <4>1 DEF Workers
    <3> QED BY <1>3, <3>1, <3>2, <3>3, <3>4, <3>5
  <2> QED BY <1>1, <2>1, <2>2
<1>4. ASSUME ReadSheet(d) PROVE Handoff'
  <2>1. PICK sheet \in SUBSET Rows : job' = [job EXCEPT ![d] = [r \in Rows |->
                 IF r \in sheet THEN [NoJob EXCEPT !.pc = "todo"] ELSE NoJob]]
    BY <1>4 DEF ReadSheet
  <2>2. [NoJob EXCEPT !.pc = "todo"].pc = "todo" /\ NoJob.pc = "none"
    BY DEF NoJob
  <2>3. \A r \in Rows : job'[d][r].pc \in {"none", "todo"}
    BY <2>1, <2>2 DEF TypeInv, JobOK
  <2>4. UNCHANGED << rec, callQ, insp >> /\ dl' = [dl EXCEPT ![d].pc = "rows"]
    BY <1>4 DEF ReadSheet, queues
  <2>5. dl'[d].pc \notin Reconcilers
    BY <1>0, <2>4 DEF Workers, Reconcilers
  <2> QED BY <1>1, <2>3, <2>4, <2>5
<1>5. ASSUME ApplyResults(d) \/ DownloaderDies(d) PROVE Handoff'
  <2>1. job' = [job EXCEPT ![d] = NoJobs] /\ dl' = [dl EXCEPT ![d] = IdleWorker]
    BY <1>5 DEF ApplyResults, DownloaderDies
  <2>2. \A r \in Rows : job'[d][r].pc \in {"none", "todo"}
    BY <2>1 DEF TypeInv, JobOK, NoJobs, NoJob
  <2>3. UNCHANGED << rec, callQ, insp >>
    BY <1>5 DEF ApplyResults, DownloaderDies, tables, queues
  <2> QED BY <1>1, <1>2, <2>1, <2>2, <2>3
<1> QED BY <1>3, <1>4, <1>5, RetryKeepsHandoff, ReconcilingKeepsHandoff
        DEF DownloaderStep, DownloaderReceives

-----------------------------------------------------------------------------
(* The handoff is kept by every step                                       *)

LEMMA ClockKeepsHandoff ==
    ASSUME TypeInv, Handoff, NEW k \in Keys, RetryTimeComes(k) \/ LeaseExpires(k)
    PROVE  Handoff'
<1>1. rec[k] \in Records /\ RowTold(rec[k]) /\ CallsTold(rec[k].status, callQ[k])
  BY DEF TypeInv, RecOK, Handoff, HandoffAt
<1>2. PICK new : /\ rec' = [rec EXCEPT ![k] = new]
                 /\ \/ new = [rec[k] EXCEPT !.timer = "expired"]
                    \/ new = [rec[k] EXCEPT !.err = "expired"] /\ rec[k].err = "dispatching"
  BY DEF RetryTimeComes, LeaseExpires, TypeInv, RecOK
<1>3. /\ new.status = rec[k].status /\ new.call = rec[k].call /\ new.spath = rec[k].spath
      /\ new.queued = rec[k].queued /\ (new.err = rec[k].err \/ rec[k].err = "dispatching")
  BY <1>1, <1>2 DEF Records
<1>4. RowTold(new) /\ CallsTold(new.status, callQ[k])
  BY <1>1, <1>3 DEF RowTold
<1>5. UNCHANGED << callQ, job, insp, dl >>
  BY DEF RetryTimeComes, LeaseExpires, queues
<1> QED BY <1>2, <1>3, <1>4, <1>5, RowTouchHandoff DEF Handoff, NoReconciler

LEMMA HandoffInductive ==
    ASSUME RecordsApart, Orderly, TypeInv, TypeInv', Custody, Handoff, [Next]_vars
    PROVE  Handoff'
<1>1. ASSUME UNCHANGED << rec, callQ, job, insp, dl >> PROVE Handoff'
  BY <1>1, NothingTold DEF Handoff, NoReconciler
<1>2. CASE UNCHANGED vars
  BY <1>1, <1>2 DEF vars, queues
<1>3. CASE Operators
  <2>1. ASSUME RequestRun \/ PublishRun \/ PublishRunFails \/ \E k \in Keys : RequestManualRetry(k)
        PROVE  Handoff'
    BY <1>1, <2>1 DEF RequestRun, PublishRun, PublishRunFails, RequestManualRetry, tables, queues
  <2> QED BY <1>3, <2>1, WorkersKeepHandoff DEF Operators
<1>4. CASE Clock
  BY <1>4, ClockKeepsHandoff DEF Clock
<1>5. CASE Faults
  <2>1. CASE EndpointDies \/ MessageLost
    BY <1>1, <2>1 DEF EndpointDies, MessageLost, tables, queues
  <2> QED BY <1>5, <2>1, WorkersKeepHandoff, InspectorsKeepHandoff DEF Faults
<1> QED BY <1>2, <1>3, <1>4, <1>5, WorkersKeepHandoff, JobsKeepHandoff, InspectorsKeepHandoff
        DEF Next

LEMMA HandoffInitially ==
    ASSUME Init PROVE Handoff
<1>1. \A k \in Keys : HandoffAt(k)
  BY DEF Init, HandoffAt, RowTold, CallsTold, JobTold, InspectorTold, NoRecord, NoJobs, NoJob,
     IdleInspector, IdleWorker
<1> QED BY <1>1 DEF Init, Handoff, NoReconciler, IdleWorker, Reconcilers

\* The handoff is told in order in every reachable state.
THEOREM HandoffInvariant == Orderly => (Spec /\ []RecordsApart => []Handoff)
<1> SUFFICES ASSUME Orderly PROVE Spec /\ []RecordsApart => []Handoff
  OBVIOUS
<1>1. Init => Handoff
  BY HandoffInitially
<1>2. RecordsApart /\ TypeInv /\ TypeInv' /\ Custody /\ Handoff /\ [Next]_vars => Handoff'
  BY HandoffInductive
<1> QED BY <1>1, <1>2, TypesInvariant, CustodyInvariant, PTL DEF Spec

\* The call pipeline is told of a recording at most once (FR-006) where no
\* reconciler runs, for any number of rows, keys, threads, inspectors and
\* runs, and with deaths, lost messages, failing publishes and retries.
THEOREM QueuedOnce == ~Reconciling => (Spec /\ []RecordsApart => []QueuedAtMostOnce)
<1> SUFFICES ASSUME ~Reconciling PROVE Spec /\ []RecordsApart => []QueuedAtMostOnce
  OBVIOUS
<1>1. Orderly
  BY DEF Orderly
<1>2. Handoff => QueuedAtMostOnce
  BY DEF Handoff, HandoffAt, CallsTold, QueuedAtMostOnce
<1> QED BY <1>1, <1>2, HandoffInvariant, PTL

\* A Call that was committed and not marked as queued stays in reach of the
\* reconciler or of a retry that resumes the handoff.
THEOREM StaysRecoverable ==
    Orderly => (Spec /\ []RecordsApart => []HandoffStaysRecoverable)
<1> SUFFICES ASSUME Orderly PROVE Spec /\ []RecordsApart => []HandoffStaysRecoverable
  OBVIOUS
<1>1. Handoff => HandoffStaysRecoverable
  BY DEF Handoff, HandoffAt, RowTold, HandoffStaysRecoverable, RetryEligible
<1> QED BY <1>1, HandoffInvariant, PTL

-----------------------------------------------------------------------------
(* What one step may do to a row and to the queue of its Call: a from b, m *)
(* from n                                                                  *)

Final == {"rejected", "submitted"}

Rests(a, b) == b.status = a.status /\ b.call = a.call
Works(a, b) ==
    /\ a.status \notin Final
    /\ b.status \notin Final \cup {"absent"}
    /\ b.call = a.call
Refused(a, b) == a.status = "quarantined" /\ a.call = 0 /\ b.status = "rejected"
GetsCall(a, b) ==
    a.status = "quarantined" /\ a.call = 0 /\ b.status = "handoff_pending" /\ b.call # 0
Acknowledged(a, b, m) ==
    /\ m > 0
    /\ a.status \notin Final \cup {"absent"} /\ a.call # 0
    /\ b.status = "submitted" /\ b.call = a.call
Told(a, b, m) ==
    /\ Rests(a, b) /\ a.call # 0 /\ a.status \notin {"absent", "rejected"}
    /\ ~Reconciling => m = 0 /\ a.status # "submitted"

RowMoves(a, b, m, n) ==
    \/ n = m /\ (Rests(a, b) \/ Works(a, b) \/ Refused(a, b) \/ GetsCall(a, b)
                 \/ Acknowledged(a, b, m))
    \/ n = m + 1 /\ Told(a, b, m)

MovesOne(k) ==
    /\ \A h \in Keys \ {k} : rec'[h] = rec[h] /\ callQ'[h] = callQ[h]
    /\ RowMoves(rec[k], rec'[k], callQ[k], callQ'[k])

LEMMA JobsMoveOne ==
    ASSUME RecordsApart, TypeInv, TypeInv', Custody, Handoff,
           NEW d \in Downloaders, NEW r \in Rows, JobStep(d, r)
    PROVE  MovesOne(KeyOf[r])
<1>0. PICK k \in Keys : k = KeyOf[r]
  BY KeyOfType
<1>1. /\ rec[k] \in Records /\ callQ[k] \in Nat /\ JobTold(job[d][r].pc, callQ[k])
      /\ RowGood(k, rec[k], calls[k])
  BY <1>0 DEF TypeInv, RecOK, CallQOK, Handoff, HandoffAt, Custody, CustodyAt, RowAt
<1>2. Carrying(d, r) => JobStatus(job[d][r].pc, rec[k].status)
  BY <1>0, CarriedStatus
<1>3. \A h \in Keys \ {k} : rec'[h] = rec[h] /\ callQ'[h] = callQ[h]
  BY <1>0, JobStepFrame DEF StepKeeps, RowsKept, CallsKept
<1>4. SUFFICES RowMoves(rec[k], rec'[k], callQ[k], callQ'[k])
  BY <1>0, <1>3 DEF MovesOne
<1>5. CASE UNCHANGED << rec, callQ >>
  BY <1>5 DEF RowMoves, Rests
<1>6. CASE ClaimExisting(d, r) /\ ~UNCHANGED << rec, callQ >>
  <2> PICK n : n = rec[k].attempts + 1
    OBVIOUS
  <2>1. rec'[k] = [rec[k] EXCEPT !.attempts = n] /\ UNCHANGED callQ
    BY <1>0, <1>1, <1>6 DEF ClaimExisting, queues, TypeInv, RecOK
  <2>2. rec'[k].status = rec[k].status /\ rec'[k].call = rec[k].call
    BY <1>1, <2>1 DEF Records
  <2> QED BY <2>1, <2>2 DEF RowMoves, Rests
<1>7. ASSUME NEW old \in Records, NEW category, FailJob(d, r, old, category), UNCHANGED callQ,
             old.call = rec[k].call, rec[k].status \notin Final
      PROVE  RowMoves(rec[k], rec'[k], callQ[k], callQ'[k])
  <2> PICK new : new = ApplyFailurePolicy(old, category)
    OBVIOUS
  <2>1. rec'[k] = new
    BY <1>0, <1>7 DEF FailJob, TypeInv, RecOK
  <2>2. new.call = old.call /\ new.status \in {"retry_scheduled", "failed"}
    BY DEF ApplyFailurePolicy, Records
  <2> QED BY <1>7, <2>1, <2>2 DEF RowMoves, Works, Final
<1>8. ASSUME job[d][r].pc \in {"transfer", "stored"}
      PROVE  /\ Loaded(d, r) \in Records /\ Loaded(d, r).call = rec[k].call
             /\ rec[k].status \notin Final
  <2>1. Loaded(d, r) \in Records /\ rec[k].status \in {"absent", "downloading"}
    BY <1>2, <1>8, LoadedGood DEF Carrying, JobStatus
  <2>2. CASE rec[k].status = "absent"
    <3>1. rec[k].call = 0
      BY <1>1, <2>2 DEF RowGood, NoRecord
    <3>2. NewRecord(dl[d].run, r).call = 0
      BY DEF NewRecord, NoRecord
    <3> QED BY <1>0, <2>1, <2>2, <3>1, <3>2 DEF Loaded, Final
  <2>3. CASE rec[k].status = "downloading"
    BY <1>0, <2>1, <2>3 DEF Loaded, Final
  <2> QED BY <2>1, <2>2, <2>3
<1>9. CASE CommitDownload(d, r)
  <2> PICK old : old = Loaded(d, r)
    OBVIOUS
  <2> PICK new : new = Quarantined(old, job[d][r].path)
    OBVIOUS
  <2>1. JobAt(d, r, "stored") /\ UNCHANGED callQ /\ rec'[k] = new
    BY <1>0, <1>9 DEF CommitDownload, queues, TypeInv, RecOK
  <2>2. old \in Records /\ old.call = rec[k].call /\ rec[k].status \notin Final
    BY <1>8, <2>1 DEF JobAt
  <2>3. new.call = old.call /\ new.status = "quarantined"
    BY <2>2 DEF Quarantined, Records
  <2> QED BY <2>1, <2>2, <2>3 DEF RowMoves, Works, Final
<1>10. CASE DownloadFails(d, r)
  <2> PICK old : old = Loaded(d, r)
    OBVIOUS
  <2>1. PICK category : FailJob(d, r, old, category)
    BY <1>10 DEF DownloadFails
  <2>2. JobAt(d, r, "transfer") /\ UNCHANGED callQ
    BY <1>10 DEF DownloadFails, queues
  <2> QED BY <1>7, <1>8, <2>1, <2>2 DEF JobAt
<1>11. CASE PublishInspectionFails(d, r) \/ RetryDispatchFails(d, r)
  <2> PICK old : old = rec[k]
    OBVIOUS
  <2>1. FailJob(d, r, old, "automatic") /\ job[d][r].pc \in {"publish", "dispatch"} /\ UNCHANGED callQ
    BY <1>0, <1>11 DEF PublishInspectionFails, RetryDispatchFails, JobAt, queues
  <2>2. rec[k].status \notin Final
    BY <1>2, <2>1 DEF Carrying, JobStatus, Final
  <2> QED BY <1>1, <1>7, <2>1, <2>2
<1>12. CASE RetryHandoff(d, r)
  <2> PICK new : new = HandoffPending(rec[k], rec[k].call)
    OBVIOUS
  <2>1. rec'[k] = new /\ UNCHANGED callQ /\ JobAt(d, r, "handoff")
    BY <1>0, <1>12 DEF RetryHandoff, queues, TypeInv, RecOK
  <2>2. rec[k].status = "accepted"
    BY <1>2, <2>1 DEF JobAt, Carrying, JobStatus
  <2>3. new.status = "handoff_pending" /\ new.call = rec[k].call
    BY <1>1 DEF HandoffPending, Records
  <2> QED BY <2>1, <2>2, <2>3 DEF RowMoves, Works, Final
<1>13. ASSUME job[d][r].pc \in {"dispatch", "mark"}
       PROVE  rec[k].status = "handoff_pending" /\ rec[k].call # 0
  BY <1>1, <1>2, <1>13 DEF Carrying, JobStatus, RowGood
<1>14. CASE RetryDispatch(d, r)
  <2>1. UNCHANGED rec /\ callQ'[k] = callQ[k] + 1 /\ job[d][r].pc = "dispatch"
    BY <1>0, <1>14 DEF RetryDispatch, QueueCall, tables, TypeInv, CallQOK, JobAt
  <2>2. ~Reconciling => callQ[k] = 0
    BY <1>1, <2>1 DEF JobTold
  <2> QED BY <1>13, <2>1, <2>2 DEF RowMoves, Told, Rests
<1>15. CASE RetryMarkSubmitted(d, r)
  <2> PICK new : new = Submitted(rec[k])
    OBVIOUS
  <2>1. rec'[k] = new /\ UNCHANGED callQ /\ job[d][r].pc = "mark"
    BY <1>0, <1>15 DEF RetryMarkSubmitted, queues, TypeInv, RecOK, JobAt
  <2>2. new.status = "submitted" /\ new.call = rec[k].call
    BY <1>1 DEF Submitted, Records
  <2>3. callQ[k] > 0
    BY <1>1, <2>1 DEF JobTold
  <2> QED BY <1>13, <2>1, <2>2, <2>3 DEF RowMoves, Acknowledged, Final
<1>16. CASE \/ MappingFails(d, r) \/ ClaimNew(d, r) \/ StoreDownload(d, r)
            \/ PublishInspection(d, r) \/ PublishRetry(d, r) \/ PublishRetryFails(d, r)
            \/ RetryHandoffConflicts(d, r)
  BY <1>5, <1>16 DEF MappingFails, ClaimNew, StoreDownload, PublishInspection, PublishRetry,
     PublishRetryFails, RetryHandoffConflicts, tables, queues
<1> QED BY <1>5, <1>6, <1>9, <1>10, <1>11, <1>12, <1>14, <1>15, <1>16 DEF JobStep

LEMMA InspectorsMoveOne ==
    ASSUME RecordsApart, Orderly, TypeInv, TypeInv', Custody, Handoff,
           NEW i \in Inspectors, ReceiveInspection(i) \/ InspectorStep(i) \/ InspectorDies(i)
    PROVE  UNCHANGED << rec, callQ >> \/ \E k \in Keys : MovesOne(k)
<1>1. \/ UNCHANGED << rec, callQ >>
      \/ InspectMissingFile(i) \/ CommitVerdict(i) \/ CommitHandoff(i)
      \/ Dispatch(i) \/ DispatchFails(i) \/ MarkSubmitted(i)
  BY DEF ReceiveInspection, InspectorStep, InspectorDies, BeginInspection, Inspect,
         InspectionRaises, MoveToRejected, MoveToAccepted, PublishLater, PublishLaterFails,
         FinalizeRun, CloseRun, tables, queues
<1> SUFFICES ASSUME ~UNCHANGED << rec, callQ >>,
                    \/ InspectMissingFile(i) \/ CommitVerdict(i) \/ CommitHandoff(i)
                    \/ Dispatch(i) \/ DispatchFails(i) \/ MarkSubmitted(i)
             PROVE  \E k \in Keys : MovesOne(k)
  BY <1>1
<1>2. Busy(i) /\ InspectorStep(i)
  BY DEF InspectMissingFile, CommitVerdict, CommitHandoff, Dispatch, DispatchFails, MarkSubmitted,
         InspectorAt, Busy, Working, HandingOver, InspectorStep
<1>3. PICK k \in Keys : k = insp[i].key
  BY <1>2, BusyInspector
<1>4. \A h \in Keys \ {k} : rec'[h] = rec[h] /\ callQ'[h] = callQ[h]
  BY <1>2, <1>3, InspectorStepFrame DEF StepKeeps, RowsKept, CallsKept
<1>5. SUFFICES RowMoves(rec[k], rec'[k], callQ[k], callQ'[k])
  BY <1>4 DEF MovesOne
<1>6. /\ rec[k] \in Records /\ callQ[k] \in Nat /\ RowGood(k, rec[k], calls[k])
      /\ CallsTold(rec[k].status, callQ[k])
      /\ InspectorTold(insp[i].pc, callQ[k], rec[k].status)
  BY <1>3 DEF TypeInv, RecOK, CallQOK, Handoff, HandoffAt, Custody, CustodyAt, RowAt
<1>7. Working(i) => /\ insp[i].loaded \in Records /\ insp[i].edit \in Records
                    /\ rec[k].status = "quarantined" /\ SameRow(insp[i].loaded, rec[k])
                    /\ EditGood(insp[i].pc, insp[i].loaded, insp[i].edit)
                    /\ rec[k].call = 0 /\ insp[i].edit.call = 0 /\ insp[i].loaded.call = 0
  BY <1>3, WorkingInspector, WorkingUntold
<1>8. ASSUME NEW b \in Records, Working(i), UNCHANGED callQ,
             rec' = [rec EXCEPT ![k] = Flush(insp[i].loaded, b, rec[k])],
             \/ b.status \in {"rejected", "failed", "retry_scheduled"} /\ b.call = 0
             \/ b.status = "handoff_pending" /\ b.call # 0
      PROVE  RowMoves(rec[k], rec'[k], callQ[k], callQ'[k])
  <2>1. SameRow(rec'[k], b)
    <3>1. SameRow(Flush(insp[i].loaded, b, rec[k]), b)
      BY <1>6, <1>7, <1>8, FlushOfFresh
    <3> QED BY <1>8, <3>1 DEF TypeInv, RecOK
  <2> QED BY <1>7, <1>8, <2>1 DEF SameRow, RowMoves, Refused, GetsCall, Works, Final
<1>9. CASE InspectMissingFile(i)
  <2>1. Working(i) /\ UNCHANGED callQ
    BY <1>9 DEF InspectMissingFile, Working, InspectorAt, queues
  <2>2. PICK b \in {MarkFailed(insp[i].loaded), Rejected(insp[i].loaded, insp[i].loaded.qpath)} :
          rec' = [rec EXCEPT ![k] = Flush(insp[i].loaded, b, rec[k])]
    BY <1>3, <1>9 DEF InspectMissingFile, TypeInv, RecOK
  <2>3. b \in Records /\ b.status \in {"rejected", "failed"} /\ b.call = 0
    <3>1. insp[i].loaded.qpath \in NullablePath
      BY <1>7, <2>1 DEF Records
    <3>2. CASE b = MarkFailed(insp[i].loaded)
      <4>1. b \in Records
        BY <1>7, <2>1, <3>2, RecordStepTypes
      <4> QED BY <1>7, <2>1, <3>2, <4>1 DEF MarkFailed, Records
    <3>3. CASE b = Rejected(insp[i].loaded, insp[i].loaded.qpath)
      <4>1. b \in Records
        BY <1>7, <2>1, <3>1, <3>3, RecordStepTypes
      <4> QED BY <1>7, <2>1, <3>3, <4>1 DEF Rejected, Records
    <3> QED BY <2>2, <3>2, <3>3
  <2> QED BY <1>8, <2>1, <2>2, <2>3
<1>10. CASE CommitVerdict(i)
  <2>1. /\ Working(i) /\ UNCHANGED callQ /\ insp[i].pc = "commit"
        /\ rec' = [rec EXCEPT ![k] = Flush(insp[i].loaded, insp[i].edit, rec[k])]
        /\ insp[i].edit.status # "accepted"
    BY <1>3, <1>10 DEF CommitVerdict, Written, Working, InspectorAt, queues
  <2>2. insp[i].edit.status \in {"rejected", "failed", "retry_scheduled"}
    BY <1>7, <2>1 DEF EditGood
  <2> QED BY <1>7, <1>8, <2>1, <2>2
<1>11. CASE CommitHandoff(i) /\ ~UNCHANGED rec
  <2>1. Working(i) /\ UNCHANGED callQ
    BY <1>11 DEF CommitHandoff, Working, InspectorAt, queues
  <2> PICK n : n = Len(calls[k]) + 1
    OBVIOUS
  <2> PICK b : b = HandoffPending(insp[i].edit, n)
    OBVIOUS
  <2>2. rec' = [rec EXCEPT ![k] = Flush(insp[i].loaded, b, rec[k])]
    BY <1>3, <1>7, <1>11, <2>1 DEF CommitHandoff
  <2>3. n \in Nat /\ n # 0
    <3>1. calls[k] \in Seq(Paths)
      BY DEF TypeInv, CallsOK
    <3> QED BY <3>1
  <2>4. b \in Records
    BY <1>7, <2>1, <2>3, RecordStepTypes
  <2>5. b.status = "handoff_pending" /\ b.call = n
    BY <1>7, <2>1 DEF HandoffPending, Records
  <2> QED BY <1>8, <2>1, <2>2, <2>3, <2>4, <2>5
<1>12. CASE CommitHandoff(i) /\ UNCHANGED rec
  BY <1>12 DEF CommitHandoff, queues
<1>13. HandingOver(i) => /\ rec[k].call # 0
                         /\ rec[k].status \in {"accepted", "handoff_pending", "submitted"}
  BY <1>2, <1>3, <1>6, BusyInspector DEF InspectorGood, HandingOver, RowGood
<1>14. CASE Dispatch(i)
  <2>1. UNCHANGED rec /\ callQ'[k] = callQ[k] + 1 /\ insp[i].pc = "dispatch" /\ HandingOver(i)
    BY <1>3, <1>14 DEF Dispatch, tables, QueueCall, TypeInv, CallQOK, InspectorAt, HandingOver
  <2>2. ~Reconciling => callQ[k] = 0 /\ rec[k].status = "handoff_pending"
    BY <1>6, <2>1 DEF InspectorTold, JobTold
  <2> QED BY <1>13, <2>1, <2>2 DEF RowMoves, Told, Rests
<1>15. CASE DispatchFails(i)
  <2> PICK new : new = ApplyFailurePolicy(rec[k], "automatic")
    OBVIOUS
  <2>1. rec'[k] = new /\ UNCHANGED callQ /\ BrokerMayFail /\ insp[i].pc = "dispatch"
    BY <1>3, <1>15 DEF DispatchFails, queues, TypeInv, RecOK, InspectorAt
  <2>2. rec[k].status = "handoff_pending"
    BY <1>6, <2>1 DEF InspectorTold, Orderly
  <2>3. new.call = rec[k].call /\ new.status \in {"retry_scheduled", "failed"}
    BY <1>6 DEF ApplyFailurePolicy, Records
  <2> QED BY <2>1, <2>2, <2>3 DEF RowMoves, Works, Final
<1>16. CASE MarkSubmitted(i)
  <2> PICK new : new = Submitted(rec[k])
    OBVIOUS
  <2>1. rec'[k] = new /\ UNCHANGED callQ /\ insp[i].pc = "mark" /\ HandingOver(i)
    BY <1>3, <1>16 DEF MarkSubmitted, queues, TypeInv, RecOK, InspectorAt, HandingOver
  <2>2. new.status = "submitted" /\ new.call = rec[k].call
    BY <1>6 DEF Submitted, Records
  <2>3. callQ[k] > 0
    BY <1>6, <2>1 DEF InspectorTold, JobTold
  <2> QED BY <1>13, <2>1, <2>2, <2>3 DEF RowMoves, Rests, Acknowledged, Final
<1> QED BY <1>9, <1>10, <1>11, <1>12, <1>14, <1>15, <1>16

LEMMA WorkersMoveOne ==
    ASSUME RecordsApart, Orderly, TypeInv, TypeInv', Custody, Handoff, NEW d \in Downloaders,
           \/ DownloaderStep(d) \/ DownloaderReceives(d) \/ DownloaderDies(d)
           \/ StartScheduledRun(d) \/ SelectHandoff(d)
    PROVE  UNCHANGED << rec, callQ >> \/ \E k \in Keys : MovesOne(k)
<1>1. \/ UNCHANGED << rec, callQ >>
      \/ StartRetry(d) \/ ClaimHandoff(d) \/ Redispatch(d) \/ RedispatchFails(d) \/ MarkReconciled(d)
  BY DEF DownloaderStep, DownloaderReceives, DownloaderDies, StartScheduledRun, SelectHandoff,
         StartReading, SheetReadFails, ReadSheet, RetryFindsActiveRun, ComputeResults,
         ApplyResults, ReceiveRun, ReceiveRetry, SkipRetry, tables, queues
<1> SUFFICES ASSUME ~UNCHANGED << rec, callQ >>,
                    \/ StartRetry(d) \/ ClaimHandoff(d) \/ Redispatch(d) \/ RedispatchFails(d)
                    \/ MarkReconciled(d)
             PROVE  \E k \in Keys : MovesOne(k)
  BY <1>1
<1>2. dl[d] \in GoodWorkers /\ dl[d].pc \in {"retry"} \cup Reconcilers
  BY DEF StartRetry, ClaimHandoff, Redispatch, RedispatchFails, MarkReconciled, TypeInv, DlOK,
         Reconcilers
<1>3. PICK k \in Keys : k = dl[d].key
  BY <1>2 DEF GoodWorkers, Reconcilers
<1>4. /\ rec[k] \in Records /\ callQ[k] \in Nat /\ RowGood(k, rec[k], calls[k])
      /\ WorkerGood(dl[d], rec[k]) /\ RowTold(rec[k])
      /\ dl[d].pc = "remark" => callQ[k] > 0
  BY <1>3 DEF TypeInv, RecOK, CallQOK, Custody, CustodyAt, RowAt, WorkersAt, Handoff, HandoffAt
<1>5. \A h \in Keys \ {k} : rec'[h] = rec[h] /\ callQ'[h] = callQ[h]
  BY <1>3 DEF StartRetry, ClaimHandoff, Redispatch, RedispatchFails, MarkReconciled, tables,
     queues, QueueCall, TypeInv, RecOK, CallQOK
<1>6. SUFFICES RowMoves(rec[k], rec'[k], callQ[k], callQ'[k])
  BY <1>5 DEF MovesOne
<1>7. CASE StartRetry(d)
  <2>1. /\ dl[d].copy \in Records /\ SameRow(dl[d].copy, rec[k])
        /\ rec[k].status \in {"retry_scheduled", "failed"} /\ NextRun \in RunIds
    BY <1>2, <1>4, <1>7, NextRunType DEF StartRetry, WorkerGood, GoodWorkers
  <2> PICK prep : prep = PrepareForRetry(dl[d].copy, NextRun)
    OBVIOUS
  <2> PICK new : new = Flush(dl[d].copy, prep, rec[k])
    OBVIOUS
  <2>2. rec'[k] = new /\ UNCHANGED callQ
    BY <1>3, <1>7 DEF StartRetry, queues, TypeInv, RecOK
  <2>3. RowTold(new) /\ new.status \in {"accepted", "quarantined", "downloading"}
    BY <1>4, <2>1, RetriedTold
  <2>4. prep \in Records /\ prep.call = dl[d].copy.call
    BY <2>1, PrepareForRetryType DEF PrepareForRetry, Records
  <2>5. SameRow(new, prep)
    BY <1>4, <2>1, <2>4, FlushOfFresh
  <2> QED BY <2>1, <2>2, <2>3, <2>4, <2>5 DEF SameRow, RowMoves, Works, Final
<1>8. ASSUME ~StartRetry(d)
      PROVE  /\ Reconciling /\ ~BrokerMayFail /\ dl[d].pc \in Reconcilers
             /\ rec[k].spath # None /\ rec[k].call # 0 /\ rec[k].status \notin {"absent", "rejected"}
  <2>1. dl[d].pc \in Reconcilers
    BY <1>8 DEF ClaimHandoff, Redispatch, RedispatchFails, MarkReconciled, Reconcilers
  <2> QED BY <1>4, <2>1 DEF Handoff, NoReconciler, Orderly, WorkerGood, RowGood
<1>9. CASE ClaimHandoff(d)
  <2>1. CASE UNCHANGED rec
    BY <1>9, <2>1 DEF ClaimHandoff, queues
  <2>2. CASE ~UNCHANGED rec
    <3>1. /\ rec'[k] = [rec[k] EXCEPT !.status = "handoff_pending", !.err = "dispatching"]
          /\ Reconcilable(rec[k]) /\ UNCHANGED callQ
      BY <1>3, <1>9, <2>2 DEF ClaimHandoff, TypeInv, RecOK, queues
    <3>2. rec'[k].status = "handoff_pending" /\ rec'[k].call = rec[k].call
      BY <1>4, <3>1 DEF Records
    <3> QED BY <3>1, <3>2 DEF Reconcilable, RowMoves, Works, Final
  <2> QED BY <2>1, <2>2
<1>10. CASE Redispatch(d)
  <2>1. UNCHANGED rec /\ callQ'[k] = callQ[k] + 1 /\ ~StartRetry(d)
    BY <1>3, <1>10 DEF Redispatch, tables, QueueCall, TypeInv, CallQOK, StartRetry
  <2> QED BY <1>8, <2>1 DEF RowMoves, Told, Rests
<1>11. CASE MarkReconciled(d)
  <2> PICK new : new = Submitted(rec[k])
    OBVIOUS
  <2>1. rec'[k] = new /\ UNCHANGED callQ /\ dl[d].pc = "remark" /\ ~StartRetry(d)
    BY <1>3, <1>11 DEF MarkReconciled, queues, TypeInv, RecOK, StartRetry
  <2>2. new.status = "submitted" /\ new.call = rec[k].call
    BY <1>4 DEF Submitted, Records
  <2> QED BY <1>4, <1>8, <2>1, <2>2 DEF RowMoves, Rests, Acknowledged, Final
<1> QED BY <1>7, <1>8, <1>9, <1>10, <1>11 DEF RedispatchFails, StartRetry

LEMMA StepsMoveOne ==
    ASSUME RecordsApart, Orderly, TypeInv, TypeInv', Custody, Handoff, [Next]_vars
    PROVE  UNCHANGED << rec, callQ >> \/ \E k \in Keys : MovesOne(k)
<1>1. CASE UNCHANGED vars
  BY <1>1 DEF vars
<1>2. CASE Operators
  <2>1. ASSUME RequestRun \/ PublishRun \/ PublishRunFails \/ \E k \in Keys : RequestManualRetry(k)
        PROVE  UNCHANGED << rec, callQ >>
    BY <2>1 DEF RequestRun, PublishRun, PublishRunFails, RequestManualRetry, tables, queues
  <2> QED BY <1>2, <2>1, WorkersMoveOne DEF Operators
<1>3. CASE Clock
  <2>1. PICK k \in Keys : RetryTimeComes(k) \/ LeaseExpires(k)
    BY <1>3 DEF Clock
  <2>2. PICK new \in {[rec[k] EXCEPT !.timer = "expired"], [rec[k] EXCEPT !.err = "expired"]} :
          rec' = [rec EXCEPT ![k] = new]
    BY <2>1 DEF RetryTimeComes, LeaseExpires, TypeInv, RecOK
  <2>3. new.call = rec[k].call /\ new.status = rec[k].status
    BY <2>2 DEF TypeInv, RecOK, Records
  <2>4. UNCHANGED callQ
    BY <2>1 DEF RetryTimeComes, LeaseExpires, queues
  <2>5. rec'[k] = new /\ \A h \in Keys \ {k} : rec'[h] = rec[h]
    BY <2>2 DEF TypeInv, RecOK
  <2>6. MovesOne(k)
    BY <2>3, <2>4, <2>5 DEF MovesOne, RowMoves, Rests
  <2> QED BY <2>6
<1>4. CASE Faults
  <2>1. CASE EndpointDies \/ MessageLost
    BY <2>1 DEF EndpointDies, MessageLost, tables, queues
  <2> QED BY <1>4, <2>1, WorkersMoveOne, InspectorsMoveOne DEF Faults
<1> QED BY <1>1, <1>2, <1>3, <1>4, KeyOfType, WorkersMoveOne, JobsMoveOne, InspectorsMoveOne
        DEF Next

\* Submitted and rejected records stay what they are, whatever arrives late
\* or again.
THEOREM VerdictsStay == Orderly => (Spec /\ []RecordsApart => VerdictsAreFinal)
<1> SUFFICES ASSUME Orderly PROVE Spec /\ []RecordsApart => VerdictsAreFinal
  OBVIOUS
<1>1. RecordsApart /\ TypeInv /\ TypeInv' /\ Custody /\ Handoff /\ [Next]_vars =>
        [\A k \in Keys : rec[k].status \in {"submitted", "rejected"} =>
           rec'[k].status = rec[k].status]_vars
  <2> SUFFICES ASSUME RecordsApart, TypeInv, TypeInv', Custody, Handoff, [Next]_vars, NEW k \in Keys,
                      rec[k].status \in {"submitted", "rejected"}
               PROVE  rec'[k].status = rec[k].status
    OBVIOUS
  <2>1. UNCHANGED << rec, callQ >> \/ \E h \in Keys : MovesOne(h)
    BY StepsMoveOne
  <2> QED BY <2>1 DEF MovesOne, RowMoves, Rests, Works, Refused, GetsCall, Acknowledged, Told, Final
<1> QED BY <1>1, TypesInvariant, CustodyInvariant, HandoffInvariant, PTL DEF Spec, VerdictsAreFinal

-----------------------------------------------------------------------------
(* RecordingHandoff: the steps of ingestion are steps of the promise       *)

Stage(r) ==
    IF r.status = "absent" THEN "unseen"
    ELSE IF r.status = "rejected" THEN "refused"
    ELSE IF r.status = "submitted" THEN "submitted"
    ELSE IF r.call = 0 THEN "held" ELSE "called"

\* A record has a Call when its row says so.
LEMMA StageIsOnTheRow ==
    ASSUME TypeInv, Custody, NEW k \in Keys
    PROVE  StageOf(k) = Stage(rec[k])
<1>1. rec[k].call = Len(calls[k]) /\ calls[k] \in Seq(Paths)
  BY DEF Custody, CustodyAt, RowAt, RowGood, TypeInv, CallsOK
<1>2. calls[k] = <<>> <=> rec[k].call = 0
  BY <1>1
<1> QED BY <1>2 DEF StageOf, Stage

LEMMA StageIsOnTheNextRow ==
    ASSUME TypeInv', Custody', NEW k \in Keys
    PROVE  StageOf(k)' = Stage(rec'[k])
<1>1. rec'[k].call = Len(calls'[k]) /\ calls'[k] \in Seq(Paths)
  BY DEF Custody, CustodyAt, RowAt, RowGood, TypeInv, CallsOK
<1>2. calls'[k] = <<>> <=> rec'[k].call = 0
  BY <1>1
<1> QED BY <1>2 DEF StageOf, Stage

LEMMA MovesArePromised ==
    ASSUME TypeInv, TypeInv', Custody, Custody', NEW k \in Keys, MovesOne(k)
    PROVE  \/ UNCHANGED Promise!handoffVars
           \/ Promise!Claim(k) \/ Promise!Refuse(k) \/ Promise!CreateCall(k)
           \/ Promise!Submit(k) \/ Promise!Acknowledge(k)
<1> DEFINE old == [h \in Keys |-> Stage(rec[h])]
           new == [h \in Keys |-> Stage(rec'[h])]
<1>1. [h \in Keys |-> StageOf(h)] = old /\ [h \in Keys |-> StageOf(h)]' = new
  BY StageIsOnTheRow, StageIsOnTheNextRow
<1>2. rec[k] \in Records /\ callQ \in [Keys -> Nat] /\ callQ' \in [Keys -> Nat]
      /\ (rec[k].status = "absent" => rec[k].call = 0)
  BY DEF TypeInv, RecOK, CallQOK, Custody, CustodyAt, RowAt, RowGood, NoRecord
<1>3. new = [old EXCEPT ![k] = Stage(rec'[k])]
  BY DEF MovesOne
<1>4. callQ' = [callQ EXCEPT ![k] = callQ'[k]]
  BY <1>2 DEF MovesOne
<1>5. old[k] = Stage(rec[k])
  OBVIOUS
<1>6. RowMoves(rec[k], rec'[k], callQ[k], callQ'[k])
  BY DEF MovesOne
<1> HIDE DEF old, new
<1>7. ASSUME callQ'[k] = callQ[k], Stage(rec'[k]) = Stage(rec[k])
      PROVE  UNCHANGED Promise!handoffVars
  <2>1. callQ' = callQ
    BY <1>2, <1>4, <1>7
  <2>2. new = old
    BY <1>3, <1>5, <1>7 DEF old
  <2> QED BY <1>1, <2>1, <2>2 DEF Promise!handoffVars
<1>8. ASSUME callQ'[k] = callQ[k], NEW from, NEW to, Stage(rec[k]) = from, Stage(rec'[k]) = to
      PROVE  Promise!Move(k, from, to)
  <2>1. callQ' = callQ
    BY <1>2, <1>4, <1>8
  <2> QED BY <1>1, <1>3, <1>5, <1>8, <2>1 DEF Promise!Move
<1>9. CASE Rests(rec[k], rec'[k]) /\ callQ'[k] = callQ[k]
  BY <1>7, <1>9 DEF Rests, Stage
<1>10. CASE Works(rec[k], rec'[k]) /\ callQ'[k] = callQ[k]
  <2>1. Stage(rec'[k]) = IF rec[k].call = 0 THEN "held" ELSE "called"
    BY <1>10 DEF Works, Final, Stage
  <2>2. Stage(rec[k]) = Stage(rec'[k]) \/ (Stage(rec[k]) = "unseen" /\ Stage(rec'[k]) = "held")
    BY <1>2, <1>10, <2>1 DEF Works, Final, Stage
  <2> QED BY <1>7, <1>8, <1>10, <2>2 DEF Promise!Claim
<1>11. CASE Refused(rec[k], rec'[k]) /\ callQ'[k] = callQ[k]
  <2>1. Stage(rec[k]) = "held" /\ Stage(rec'[k]) = "refused"
    BY <1>11 DEF Refused, Stage
  <2> QED BY <1>8, <1>11, <2>1 DEF Promise!Refuse
<1>12. CASE GetsCall(rec[k], rec'[k]) /\ callQ'[k] = callQ[k]
  <2>1. Stage(rec[k]) = "held" /\ Stage(rec'[k]) = "called"
    BY <1>12 DEF GetsCall, Stage
  <2> QED BY <1>8, <1>12, <2>1 DEF Promise!CreateCall
<1>13. CASE Acknowledged(rec[k], rec'[k], callQ[k]) /\ callQ'[k] = callQ[k]
  <2>1. Stage(rec[k]) = "called" /\ Stage(rec'[k]) = "submitted" /\ callQ[k] > 0
    BY <1>13 DEF Acknowledged, Final, Stage
  <2> QED BY <1>8, <1>13, <2>1 DEF Promise!Acknowledge
<1>14. CASE Told(rec[k], rec'[k], callQ[k]) /\ callQ'[k] = callQ[k] + 1
  <2>1. /\ Stage(rec[k]) \in {"called", "submitted"} /\ Stage(rec'[k]) = Stage(rec[k])
        /\ ~Reconciling => Stage(rec[k]) = "called" /\ callQ[k] = 0
    BY <1>14 DEF Told, Rests, Stage
  <2>2. new = old
    BY <1>3, <1>5, <2>1 DEF old
  <2>3. callQ' = [callQ EXCEPT ![k] = @ + 1]
    BY <1>2, <1>4, <1>14
  <2> QED BY <1>1, <1>5, <2>1, <2>2, <2>3 DEF Promise!Submit
<1> QED BY <1>6, <1>9, <1>10, <1>11, <1>12, <1>13, <1>14 DEF RowMoves

\* Claimed once, refused or made one Call, submitted and only then marked so,
\* for any number of records, threads, inspectors and runs.
THEOREM KeepsThePromise == Orderly => (Spec /\ []RecordsApart => ImplementsHandoff)
<1> SUFFICES ASSUME Orderly PROVE Spec /\ []RecordsApart => ImplementsHandoff
  OBVIOUS
<1>1. Init => Promise!HandoffInit
  <2> SUFFICES ASSUME Init PROVE Promise!HandoffInit
    OBVIOUS
  <2>1. \A k \in Keys : StageOf(k) = "unseen"
    BY DEF Init, NoRecord, StageOf
  <2> QED BY <2>1 DEF Init, Promise!HandoffInit
<1>2. RecordsApart /\ TypeInv /\ TypeInv' /\ Custody /\ Custody' /\ Handoff /\ [Next]_vars =>
        [Promise!HandoffNext]_Promise!handoffVars
  <2> SUFFICES ASSUME RecordsApart, TypeInv, TypeInv', Custody, Custody', Handoff, [Next]_vars
               PROVE  [Promise!HandoffNext]_Promise!handoffVars
    OBVIOUS
  <2>1. CASE UNCHANGED << rec, callQ >>
    <3>1. \A k \in Keys : StageOf(k)' = StageOf(k)
      BY <2>1, StageIsOnTheRow, StageIsOnTheNextRow
    <3> QED BY <2>1, <3>1 DEF Promise!handoffVars
  <2>2. CASE \E k \in Keys : MovesOne(k)
    BY <2>2, MovesArePromised DEF Promise!HandoffNext
  <2> QED BY <2>1, <2>2, StepsMoveOne
<1> QED BY <1>1, <1>2, TypesInvariant, CustodyInvariant, HandoffInvariant, PTL
        DEF Spec, ImplementsHandoff, Promise!HandoffSpec

-----------------------------------------------------------------------------
(* Retries end.  Without operators who ask for more, a retry is only ever  *)
(* scheduled while the backoff list has a delay left.                      *)

Attempted(r) ==
    /\ r.status = "retry_scheduled" => r.attempts =< AutomaticRetries
    /\ r.status # "submitted" => r.attempts =< AutomaticRetries + 1

RowsAttempted == \A k \in Keys : Attempted(rec[k])
OnlyAutomatic == \A m \in retryQ : ~m.manual
CopiesScheduled == \A d \in Downloaders :
    dl[d].pc = "retry" => dl[d].copy.status = "retry_scheduled"
EditsAttempted == \A i \in Inspectors :
    insp[i].pc = "commit" /\ insp[i].edit.status = "retry_scheduled" =>
        insp[i].edit.attempts =< AutomaticRetries

Retrying == RowsAttempted /\ OnlyAutomatic /\ CopiesScheduled /\ EditsAttempted

LEMMA FailureIsBounded ==
    ASSUME NEW r \in Records, r.attempts =< AutomaticRetries + 1, NEW category
    PROVE  Attempted(ApplyFailurePolicy(r, category))
<1> DEFINE again == category = "automatic" /\ AutomaticRetryLeft(r)
<1> PICK new : new = ApplyFailurePolicy(r, category)
  OBVIOUS
<1>1. /\ new.status = IF again THEN "retry_scheduled" ELSE "failed"
      /\ new.attempts = r.attempts
  BY DEF ApplyFailurePolicy, Records
<1> QED BY <1>1 DEF Attempted, AutomaticRetryLeft

\* Columns other than the status and the count do not matter.
LEMMA WorkingIsBounded ==
    ASSUME NEW a, NEW b, Attempted(a), a.status # "submitted", b.attempts = a.attempts,
           b.status # "retry_scheduled"
    PROVE  Attempted(b)
BY DEF Attempted

LEMMA JobsKeepAttempts ==
    ASSUME RecordsApart, TypeInv, TypeInv', Custody, RowsAttempted,
           NEW d \in Downloaders, NEW r \in Rows, JobStep(d, r)
    PROVE  RowsAttempted'
<1>0. PICK k \in Keys : k = KeyOf[r]
  BY KeyOfType
<1>1. rec[k] \in Records /\ Attempted(rec[k]) /\ AutomaticRetries \in Nat
  BY <1>0, AutomaticRetriesAssumption DEF TypeInv, RecOK, RowsAttempted
<1>2. Carrying(d, r) => JobStatus(job[d][r].pc, rec[k].status)
  BY <1>0, CarriedStatus
<1>3. \A h \in Keys \ {k} : rec'[h] = rec[h]
  BY <1>0, JobStepFrame DEF StepKeeps, RowsKept
<1>4. SUFFICES Attempted(rec'[k])
  BY <1>3 DEF RowsAttempted
<1>5. CASE UNCHANGED rec
  BY <1>1, <1>5
<1>6. CASE ClaimExisting(d, r) /\ ~UNCHANGED rec
  <2> PICK n : n = rec[k].attempts + 1
    OBVIOUS
  <2>1. rec'[k] = [rec[k] EXCEPT !.attempts = n] /\ rec[k].status = "submitted"
    BY <1>0, <1>1, <1>6 DEF ClaimExisting, TypeInv, RecOK
  <2>2. rec'[k].status = "submitted"
    BY <1>1, <2>1 DEF Records
  <2> QED BY <2>2 DEF Attempted
<1>7. ASSUME NEW old \in Records, NEW category, FailJob(d, r, old, category),
             old.attempts =< AutomaticRetries + 1
      PROVE  Attempted(rec'[k])
  <2>1. rec'[k] = ApplyFailurePolicy(old, category)
    BY <1>0, <1>7 DEF FailJob, TypeInv, RecOK
  <2> QED BY <1>7, <2>1, FailureIsBounded
<1>8. ASSUME job[d][r].pc \in {"transfer", "stored"}
      PROVE  /\ Loaded(d, r) \in Records /\ Loaded(d, r).attempts =< AutomaticRetries + 1
  <2>1. Loaded(d, r) \in Records /\ rec[k].status \in {"absent", "downloading"}
    BY <1>2, <1>8, LoadedGood DEF Carrying, JobStatus
  <2>2. CASE rec[k].status = "absent"
    <3>1. NewRecord(dl[d].run, r).attempts = 1
      BY DEF NewRecord, NoRecord
    <3> QED BY <1>0, <1>1, <2>1, <2>2, <3>1 DEF Loaded
  <2>3. CASE rec[k].status = "downloading"
    BY <1>0, <1>1, <2>1, <2>3 DEF Loaded, Attempted
  <2> QED BY <2>1, <2>2, <2>3
<1>9. CASE CommitDownload(d, r)
  <2> PICK old : old = Loaded(d, r)
    OBVIOUS
  <2> PICK new : new = Quarantined(old, job[d][r].path)
    OBVIOUS
  <2>1. JobAt(d, r, "stored") /\ rec'[k] = new
    BY <1>0, <1>9 DEF CommitDownload, TypeInv, RecOK
  <2>2. old \in Records /\ old.attempts =< AutomaticRetries + 1
    BY <1>8, <2>1 DEF JobAt
  <2>3. new.attempts = old.attempts /\ new.status = "quarantined"
    BY <2>2 DEF Quarantined, Records
  <2> QED BY <2>1, <2>2, <2>3 DEF Attempted
<1>10. CASE DownloadFails(d, r)
  <2> PICK old : old = Loaded(d, r)
    OBVIOUS
  <2>1. PICK category : FailJob(d, r, old, category)
    BY <1>10 DEF DownloadFails
  <2> QED BY <1>7, <1>8, <1>10, <2>1 DEF DownloadFails, JobAt
<1>11. CASE PublishInspectionFails(d, r) \/ RetryDispatchFails(d, r)
  <2> PICK old : old = rec[k]
    OBVIOUS
  <2>1. FailJob(d, r, old, "automatic") /\ job[d][r].pc \in {"publish", "dispatch"}
    BY <1>0, <1>11 DEF PublishInspectionFails, RetryDispatchFails, JobAt
  <2>2. old.attempts =< AutomaticRetries + 1
    BY <1>1, <1>2, <2>1 DEF Carrying, JobStatus, Attempted
  <2> QED BY <1>1, <1>7, <2>1, <2>2
<1>12. CASE RetryHandoff(d, r)
  <2> PICK new : new = HandoffPending(rec[k], rec[k].call)
    OBVIOUS
  <2>1. rec'[k] = new /\ JobAt(d, r, "handoff")
    BY <1>0, <1>12 DEF RetryHandoff, TypeInv, RecOK
  <2>2. rec[k].status = "accepted"
    BY <1>2, <2>1 DEF JobAt, Carrying, JobStatus
  <2>3. new.status = "handoff_pending" /\ new.attempts = rec[k].attempts
    BY <1>1 DEF HandoffPending, Records
  <2> QED BY <1>1, <2>1, <2>2, <2>3, WorkingIsBounded
<1>13. CASE RetryMarkSubmitted(d, r)
  <2> PICK new : new = Submitted(rec[k])
    OBVIOUS
  <2>1. rec'[k] = new
    BY <1>0, <1>13 DEF RetryMarkSubmitted, TypeInv, RecOK
  <2>2. new.status = "submitted"
    BY <1>1 DEF Submitted, Records
  <2> QED BY <2>1, <2>2 DEF Attempted
<1>14. CASE \/ MappingFails(d, r) \/ ClaimNew(d, r) \/ StoreDownload(d, r)
            \/ PublishInspection(d, r) \/ PublishRetry(d, r) \/ PublishRetryFails(d, r)
            \/ RetryHandoffConflicts(d, r) \/ RetryDispatch(d, r)
  BY <1>5, <1>14 DEF MappingFails, ClaimNew, StoreDownload, PublishInspection, PublishRetry,
     PublishRetryFails, RetryHandoffConflicts, RetryDispatch, tables
<1> QED BY <1>5, <1>6, <1>9, <1>10, <1>11, <1>12, <1>13, <1>14 DEF JobStep

LEMMA InspectorsKeepAttempts ==
    ASSUME RecordsApart, Orderly, TypeInv, TypeInv', Custody, Handoff,
           RowsAttempted, EditsAttempted, NEW i \in Inspectors, InspectorStep(i)
    PROVE  RowsAttempted' /\ EditsAttempted'
<1>1. AutomaticRetries \in Nat
  BY AutomaticRetriesAssumption
<1>2. Busy(i) => /\ insp[i].key \in Keys /\ rec[insp[i].key] \in Records
                 /\ Attempted(rec[insp[i].key])
                 /\ InspectorTold(insp[i].pc, callQ[insp[i].key], rec[insp[i].key].status)
  BY BusyInspector DEF RowsAttempted, Handoff, HandoffAt
<1>3. Working(i) => /\ insp[i].loaded \in Records /\ insp[i].edit \in Records
                    /\ rec[insp[i].key].attempts \in Nat
                    /\ rec[insp[i].key].attempts =< AutomaticRetries + 1
                    /\ insp[i].loaded.attempts = rec[insp[i].key].attempts
                    /\ insp[i].edit.attempts = rec[insp[i].key].attempts
                    /\ SameRow(insp[i].loaded, rec[insp[i].key])
  BY <1>2, WorkingInspector DEF Attempted, SameRow, EditGood, Records, Busy
<1>4. RowsAttempted'
  <2>1. CASE UNCHANGED rec
    BY <2>1 DEF RowsAttempted
  <2> SUFFICES ASSUME ~UNCHANGED rec,
                      \/ InspectMissingFile(i) \/ CommitVerdict(i) \/ CommitHandoff(i)
                      \/ DispatchFails(i) \/ MarkSubmitted(i)
               PROVE  RowsAttempted'
    BY <2>1 DEF InspectorStep, BeginInspection, Inspect, InspectionRaises, MoveToRejected,
       MoveToAccepted, Dispatch, PublishLater, PublishLaterFails, FinalizeRun, CloseRun, tables
  <2>2. Busy(i)
    BY DEF InspectMissingFile, CommitVerdict, CommitHandoff, DispatchFails, MarkSubmitted,
           InspectorAt, Busy, Working, HandingOver
  <2>3. PICK k \in Keys : k = insp[i].key
    BY <1>2, <2>2
  <2>4. \A h \in Keys \ {k} : rec'[h] = rec[h]
    BY <2>3, InspectorStepFrame DEF StepKeeps, RowsKept
  <2>5. SUFFICES Attempted(rec'[k])
    BY <2>4 DEF RowsAttempted
  <2>6. ASSUME NEW b \in Records, Working(i), b.attempts = rec[k].attempts,
               b.status = "retry_scheduled" => b.attempts =< AutomaticRetries,
               rec' = [rec EXCEPT ![k] = Flush(insp[i].loaded, b, rec[k])]
        PROVE  Attempted(rec'[k])
    <3>1. SameRow(Flush(insp[i].loaded, b, rec[k]), b)
      BY <1>2, <1>3, <2>2, <2>3, <2>6, FlushOfFresh
    <3>2. SameRow(rec'[k], b)
      BY <2>6, <3>1 DEF TypeInv, RecOK
    <3> QED BY <1>3, <2>3, <2>6, <3>2 DEF SameRow, Attempted
  <2>7. CASE InspectMissingFile(i)
    <3>1. Working(i)
      BY <2>7 DEF InspectMissingFile, Working, InspectorAt
    <3>2. PICK b \in {MarkFailed(insp[i].loaded), Rejected(insp[i].loaded, insp[i].loaded.qpath)} :
            rec' = [rec EXCEPT ![k] = Flush(insp[i].loaded, b, rec[k])]
      BY <2>3, <2>7 DEF InspectMissingFile, TypeInv, RecOK
    <3>3. b \in Records /\ b.status # "retry_scheduled" /\ b.attempts = rec[k].attempts
      <4>1. insp[i].loaded.qpath \in NullablePath
        BY <1>3, <3>1 DEF Records
      <4>2. CASE b = MarkFailed(insp[i].loaded)
        <5>1. b \in Records
          BY <1>3, <3>1, <4>2, RecordStepTypes
        <5> QED BY <1>3, <2>3, <3>1, <4>2, <5>1 DEF MarkFailed, Records
      <4>3. CASE b = Rejected(insp[i].loaded, insp[i].loaded.qpath)
        <5>1. b \in Records
          BY <1>3, <3>1, <4>1, <4>3, RecordStepTypes
        <5> QED BY <1>3, <2>3, <3>1, <4>3, <5>1 DEF Rejected, Records
      <4> QED BY <3>2, <4>2, <4>3
    <3> QED BY <2>6, <3>1, <3>2, <3>3
  <2>8. CASE CommitVerdict(i)
    <3>1. /\ Working(i) /\ insp[i].pc = "commit"
          /\ rec' = [rec EXCEPT ![k] = Flush(insp[i].loaded, insp[i].edit, rec[k])]
      BY <2>3, <2>8 DEF CommitVerdict, Written, Working, InspectorAt
    <3>2. insp[i].edit.status = "retry_scheduled" => insp[i].edit.attempts =< AutomaticRetries
      BY <3>1 DEF EditsAttempted
    <3> QED BY <1>3, <2>3, <2>6, <3>1, <3>2
  <2>9. CASE CommitHandoff(i)
    <3>1. Working(i)
      BY <2>9 DEF CommitHandoff, Working, InspectorAt
    <3> PICK n : n = IF insp[i].edit.call # 0 THEN insp[i].edit.call ELSE Len(calls[k]) + 1
      OBVIOUS
    <3> PICK b : b = HandoffPending(insp[i].edit, n)
      OBVIOUS
    <3>2. rec' = [rec EXCEPT ![k] = Flush(insp[i].loaded, b, rec[k])]
      BY <2>3, <2>9 DEF CommitHandoff
    <3>3. n \in Nat
      <4>1. calls[k] \in Seq(Paths) /\ insp[i].edit.call \in Nat
        BY <1>3, <3>1 DEF TypeInv, CallsOK, Records
      <4> QED BY <4>1
    <3>4. b \in Records
      BY <1>3, <3>1, <3>3, RecordStepTypes
    <3>5. b.status = "handoff_pending" /\ b.attempts = insp[i].edit.attempts
      BY <1>3, <3>1 DEF HandoffPending, Records
    <3> QED BY <1>3, <2>3, <2>6, <3>1, <3>2, <3>4, <3>5
  <2>10. CASE DispatchFails(i)
    <3> PICK new : new = ApplyFailurePolicy(rec[k], "automatic")
      OBVIOUS
    <3>1. rec'[k] = new /\ BrokerMayFail /\ insp[i].pc = "dispatch"
      BY <2>3, <2>10 DEF DispatchFails, TypeInv, RecOK, InspectorAt
    <3>2. rec[k].status = "handoff_pending"
      BY <1>2, <2>2, <2>3, <3>1 DEF InspectorTold, Orderly
    <3> QED BY <1>2, <2>2, <2>3, <3>1, <3>2, FailureIsBounded DEF Attempted
  <2>11. CASE MarkSubmitted(i)
    <3> PICK new : new = Submitted(rec[k])
      OBVIOUS
    <3>1. rec'[k] = new
      BY <2>3, <2>11 DEF MarkSubmitted, TypeInv, RecOK
    <3>2. new.status = "submitted"
      BY <1>2, <2>2, <2>3 DEF Submitted, Records
    <3> QED BY <3>1, <3>2 DEF Attempted
  <2> QED BY <2>7, <2>8, <2>9, <2>10, <2>11
<1>5. EditsAttempted'
  <2>1. ASSUME NEW w, insp' = [insp EXCEPT ![i] = w],
               w.pc = "commit" /\ w.edit.status = "retry_scheduled" =>
                 w.edit.attempts =< AutomaticRetries
        PROVE  EditsAttempted'
    BY <2>1, InspectorAfter DEF EditsAttempted
  <2>2. ASSUME NEW pc, pc # "commit", InspectorTo(i, pc)
        PROVE  EditsAttempted'
    BY <2>1, <2>2, InspectorShapes
  <2>3. ASSUME NEW b, Decide(i, b),
               b.status = "retry_scheduled" => b.attempts =< AutomaticRetries
        PROVE  EditsAttempted'
    BY <2>1, <2>3, InspectorShapes
  <2>4. ASSUME insp' = [insp EXCEPT ![i] = IdleInspector]
        PROVE  EditsAttempted'
    BY <2>1, <2>4 DEF IdleInspector
  <2>5. ASSUME NEW k, NEW pc, pc # "commit",
               insp' = [insp EXCEPT ![i] = [IdleInspector EXCEPT !.key = k, !.pc = pc]]
        PROVE  EditsAttempted'
    <3> DEFINE w == [IdleInspector EXCEPT !.key = k, !.pc = pc]
    <3>1. insp' = [insp EXCEPT ![i] = w] /\ w.pc = pc
      BY <2>5, IdleWithKey
    <3> HIDE DEF w
    <3> QED BY <2>1, <2>5, <3>1
  <2>6. CASE InspectMissingFile(i) \/ CommitVerdict(i) \/ CommitHandoff(i)
    <3>1. CASE InspectMissingFile(i)
      BY <2>5, <3>1 DEF InspectMissingFile
    <3>2. CASE CommitVerdict(i)
      BY <2>5, <3>2 DEF CommitVerdict
    <3>3. CASE CommitHandoff(i)
      BY <2>4, <2>5, <3>3 DEF CommitHandoff
    <3> QED BY <2>6, <3>1, <3>2, <3>3
  <2>7. CASE BeginInspection(i)
    <3>1. insp' = [insp EXCEPT ![i] = IdleInspector] \/ InspectorTo(i, "inspecting")
      BY <2>7 DEF BeginInspection, InspectorTo
    <3> QED BY <2>2, <2>4, <3>1
  <2>8. CASE Inspect(i)
    <3>1. insp[i] \in InspectorStates
      BY DEF TypeInv, InspOK, GoodInspectors
    <3>2. PICK checks \in Findings :
            insp' = [insp EXCEPT ![i].edit.checks = checks,
                       ![i].pc = IF Promotable(checks) THEN "passed" ELSE "refused"]
      BY <2>8 DEF Inspect
    <3>3. insp'[i].pc # "commit" /\ \A j \in Inspectors : j # i => insp'[j] = insp[j]
      BY <3>1, <3>2 DEF InspectorStates, TypeInv, InspOK
    <3> QED BY <3>3 DEF EditsAttempted
  <2>9. ASSUME Working(i), NEW b, Decide(i, b),
               \/ \E p : b = Rejected(insp[i].edit, p) \/ b = Accepted(insp[i].edit, p)
               \/ b = MarkFailed(insp[i].edit)
        PROVE  EditsAttempted'
    <3>1. b.status # "retry_scheduled"
      BY <1>3, <2>9 DEF Rejected, Accepted, MarkFailed, Records
    <3> QED BY <2>3, <2>9, <3>1
  <2>10. CASE InspectionRaises(i) \/ MoveToRejected(i)
    <3>1. Working(i)
      BY <2>10 DEF InspectionRaises, MoveToRejected, Working, InspectorAt
    <3> QED BY <2>9, <2>10, <3>1 DEF InspectionRaises, MoveToRejected
  <2>11. CASE MoveToAccepted(i)
    <3>1. Working(i)
      BY <2>11 DEF MoveToAccepted, Working, InspectorAt
    <3>2. Attempted(ApplyFailurePolicy(insp[i].edit, "automatic"))
      BY <1>3, <3>1, FailureIsBounded
    <3>3. \/ \E p : Decide(i, Accepted(insp[i].edit, p))
          \/ Decide(i, ApplyFailurePolicy(insp[i].edit, "automatic"))
      BY <2>11 DEF MoveToAccepted
    <3> QED BY <2>3, <2>9, <3>1, <3>2, <3>3 DEF Attempted
  <2>12. CASE Dispatch(i) \/ DispatchFails(i) \/ MarkSubmitted(i) \/ PublishLater(i)
              \/ PublishLaterFails(i)
    BY <2>2, <2>4, <2>12 DEF Dispatch, DispatchFails, MarkSubmitted, PublishLater,
       PublishLaterFails
  <2>13. CASE FinalizeRun(i) \/ CloseRun(i)
    <3>1. insp[i] \in InspectorStates
      BY DEF TypeInv, InspOK, GoodInspectors
    <3>2. \/ insp' = [insp EXCEPT ![i] = IdleInspector]
          \/ \E n, v : insp' = [insp EXCEPT ![i].pc = "close", ![i].run = n, ![i].verdict = v]
      BY <2>13 DEF FinalizeRun, CloseRun
    <3>3. ASSUME NEW n, NEW v,
                 insp' = [insp EXCEPT ![i].pc = "close", ![i].run = n, ![i].verdict = v]
          PROVE  insp'[i].pc # "commit" /\ \A j \in Inspectors : j # i => insp'[j] = insp[j]
      BY <3>1, <3>3 DEF InspectorStates, TypeInv, InspOK
    <3>4. ASSUME NEW n, NEW v,
                 insp' = [insp EXCEPT ![i].pc = "close", ![i].run = n, ![i].verdict = v]
          PROVE  EditsAttempted'
      BY <3>3, <3>4 DEF EditsAttempted
    <3> QED BY <2>4, <3>2, <3>4
  <2> QED BY <2>6, <2>7, <2>8, <2>10, <2>11, <2>12, <2>13 DEF InspectorStep
<1> QED BY <1>4, <1>5

LEMMA WorkersKeepAttempts ==
    ASSUME RecordsApart, Orderly, TypeInv, TypeInv', Custody, Handoff, Retrying,
           NEW d \in Downloaders,
           \/ DownloaderStep(d) \/ DownloaderReceives(d) \/ DownloaderDies(d)
           \/ StartScheduledRun(d) \/ SelectHandoff(d)
    PROVE  RowsAttempted' /\ CopiesScheduled'
<1>0. /\ AutomaticRetries \in Nat /\ dl[d] \in GoodWorkers
      /\ RowsAttempted /\ CopiesScheduled /\ OnlyAutomatic
  BY AutomaticRetriesAssumption DEF TypeInv, DlOK, Retrying
<1>1. RowsAttempted'
  <2>1. CASE UNCHANGED rec
    BY <1>0, <2>1 DEF RowsAttempted
  <2> SUFFICES ASSUME ~UNCHANGED rec,
                      StartRetry(d) \/ ClaimHandoff(d) \/ RedispatchFails(d) \/ MarkReconciled(d)
               PROVE  RowsAttempted'
    BY <2>1 DEF DownloaderStep, DownloaderReceives, DownloaderDies, StartScheduledRun,
       SelectHandoff, StartReading, SheetReadFails, ReadSheet, RetryFindsActiveRun,
       ComputeResults, ApplyResults, ReceiveRun, ReceiveRetry, SkipRetry, Redispatch, tables
  <2>2. PICK k \in Keys : k = dl[d].key
    BY <1>0 DEF StartRetry, ClaimHandoff, RedispatchFails, MarkReconciled, GoodWorkers
  <2>3. rec[k] \in Records /\ Attempted(rec[k]) /\ WorkerGood(dl[d], rec[k])
    BY <1>0, <2>2 DEF TypeInv, RecOK, RowsAttempted, Custody, CustodyAt, WorkersAt
  <2>4. \A h \in Keys \ {k} : rec'[h] = rec[h]
    BY <2>2 DEF StartRetry, ClaimHandoff, RedispatchFails, MarkReconciled, TypeInv, RecOK
  <2>5. SUFFICES Attempted(rec'[k])
    BY <1>0, <2>4 DEF RowsAttempted
  <2>6. CASE StartRetry(d)
    <3>1. /\ dl[d].copy \in Records /\ SameRow(dl[d].copy, rec[k])
          /\ dl[d].copy.status = "retry_scheduled" /\ NextRun \in RunIds
      BY <1>0, <2>3, <2>6, NextRunType DEF StartRetry, WorkerGood, GoodWorkers, CopiesScheduled
    <3> PICK prep : prep = PrepareForRetry(dl[d].copy, NextRun)
      OBVIOUS
    <3> PICK new : new = Flush(dl[d].copy, prep, rec[k])
      OBVIOUS
    <3>2. rec'[k] = new
      BY <2>2, <2>6 DEF StartRetry, TypeInv, RecOK
    <3>3. /\ prep \in Records /\ prep.attempts = dl[d].copy.attempts + 1
          /\ prep.status # "retry_scheduled"
      BY <3>1, PrepareForRetryType DEF PrepareForRetry, Records
    <3>4. SameRow(new, prep)
      BY <2>3, <3>1, <3>3, FlushOfFresh
    <3>5. rec[k].attempts \in Nat /\ rec[k].attempts =< AutomaticRetries
          /\ new.attempts = rec[k].attempts + 1 /\ new.status # "retry_scheduled"
      BY <2>3, <3>1, <3>3, <3>4 DEF SameRow, Attempted, Records
    <3> QED BY <1>0, <3>2, <3>5 DEF Attempted
  <2>7. CASE ClaimHandoff(d)
    <3>1. /\ rec'[k] = [rec[k] EXCEPT !.status = "handoff_pending", !.err = "dispatching"]
          /\ Reconcilable(rec[k])
      BY <2>2, <2>7 DEF ClaimHandoff, TypeInv, RecOK
    <3>2. rec'[k].status = "handoff_pending" /\ rec'[k].attempts = rec[k].attempts
      BY <2>3, <3>1 DEF Records
    <3> QED BY <2>3, <3>1, <3>2, WorkingIsBounded DEF Reconcilable
  <2>8. CASE RedispatchFails(d)
    BY <2>8 DEF RedispatchFails, Handoff, NoReconciler, Orderly, Reconcilers
  <2>9. CASE MarkReconciled(d)
    <3> PICK new : new = Submitted(rec[k])
      OBVIOUS
    <3>1. rec'[k] = new
      BY <2>2, <2>9 DEF MarkReconciled, TypeInv, RecOK
    <3>2. new.status = "submitted"
      BY <2>3 DEF Submitted, Records
    <3> QED BY <3>1, <3>2 DEF Attempted
  <2> QED BY <2>6, <2>7, <2>8, <2>9
<1>2. CopiesScheduled'
  <2>1. \A c \in Downloaders : c # d => dl'[c] = dl[c]
    BY OtherWorkersStay
  <2>2. SUFFICES ASSUME dl'[d].pc = "retry" PROVE dl'[d].copy.status = "retry_scheduled"
    BY <1>0, <2>1 DEF CopiesScheduled
  <2>3. CASE dl' = dl
    BY <1>0, <2>2, <2>3 DEF CopiesScheduled
  <2>4. CASE ReceiveRetry(d)
    <3>1. PICK m \in retryQ :
            /\ RetryAdmitted(m)
            /\ dl' = [dl EXCEPT ![d].pc = "retry", ![d].key = m.key, ![d].copy = rec[m.key]]
      BY <2>4 DEF ReceiveRetry
    <3>2. rec[m.key].status = "retry_scheduled"
      BY <1>0, <3>1 DEF OnlyAutomatic, RetryAdmitted, RetryEligible
    <3>3. dl'[d].copy = rec[m.key]
      BY <1>0, <3>1 DEF TypeInv, DlOK, GoodWorkers, Workers
    <3> QED BY <3>2, <3>3
  <2>5. CASE ~ReceiveRetry(d) /\ dl' # dl
    <3>1. dl \in [Downloaders -> GoodWorkers] /\ dl[d] \in Workers
      BY <1>0 DEF TypeInv, DlOK, GoodWorkers
    <3>2. \/ dl' = [dl EXCEPT ![d] = IdleWorker]
          \/ \E n : dl' = [dl EXCEPT ![d].pc = "continue", ![d].run = n]
          \/ \E pc \in DownloaderPCs \ {"retry"} : dl' = [dl EXCEPT ![d].pc = pc]
          \/ \E n : dl' = [dl EXCEPT ![d].pc = "retrying", ![d].run = n, ![d].copy = None]
          \/ \E v : dl' = [dl EXCEPT ![d].pc = "apply", ![d].verdict = v]
          \/ \E k, c : dl' = [dl EXCEPT ![d].pc = "reclaim", ![d].key = k, ![d].copy = c]
      <4>1. CASE ReceiveRun(d) \/ StartScheduledRun(d) \/ StartReading(d) \/ ReadSheet(d)
        BY <2>5, <4>1 DEF ReceiveRun, StartScheduledRun, StartReading, ReadSheet, DownloaderPCs
      <4>2. CASE StartRetry(d) \/ ComputeResults(d) \/ SelectHandoff(d)
        BY <2>5, <4>2 DEF StartRetry, ComputeResults, SelectHandoff
      <4>3. CASE ClaimHandoff(d) \/ Redispatch(d)
        BY <4>3 DEF ClaimHandoff, Redispatch, DownloaderPCs
      <4>4. CASE \/ SheetReadFails(d) \/ RetryFindsActiveRun(d) \/ ApplyResults(d)
                 \/ RedispatchFails(d) \/ MarkReconciled(d) \/ DownloaderDies(d)
        BY <4>4 DEF SheetReadFails, RetryFindsActiveRun, ApplyResults, RedispatchFails,
           MarkReconciled, DownloaderDies
      <4> QED BY <2>5, <4>1, <4>2, <4>3, <4>4 DEF DownloaderStep, DownloaderReceives, SkipRetry
    <3>3. dl'[d].pc # "retry"
      <4>1. ASSUME dl' = [dl EXCEPT ![d] = IdleWorker] PROVE dl'[d].pc # "retry"
        BY <3>1, <4>1 DEF IdleWorker
      <4>2. ASSUME NEW n, dl' = [dl EXCEPT ![d].pc = "continue", ![d].run = n]
            PROVE  dl'[d].pc # "retry"
        BY <3>1, <4>2 DEF Workers
      <4>3. ASSUME NEW pc \in DownloaderPCs \ {"retry"}, dl' = [dl EXCEPT ![d].pc = pc]
            PROVE  dl'[d].pc # "retry"
        BY <3>1, <4>3 DEF Workers
      <4>4. ASSUME NEW n, dl' = [dl EXCEPT ![d].pc = "retrying", ![d].run = n, ![d].copy = None]
            PROVE  dl'[d].pc # "retry"
        BY <3>1, <4>4 DEF Workers
      <4>5. ASSUME NEW v, dl' = [dl EXCEPT ![d].pc = "apply", ![d].verdict = v]
            PROVE  dl'[d].pc # "retry"
        BY <3>1, <4>5 DEF Workers
      <4>6. ASSUME NEW k, NEW c,
                   dl' = [dl EXCEPT ![d].pc = "reclaim", ![d].key = k, ![d].copy = c]
            PROVE  dl'[d].pc # "retry"
        BY <3>1, <4>6 DEF Workers
      <4> QED BY <3>2, <4>1, <4>2, <4>3, <4>4, <4>5, <4>6
    <3> QED BY <2>2, <3>3
  <2> QED BY <2>3, <2>4, <2>5
<1> QED BY <1>1, <1>2

LEMMA RetryingInductive ==
    ASSUME RecordsApart, Orderly, ~ManualRetry, TypeInv, TypeInv', Custody, Handoff, Retrying,
           [Next]_vars
    PROVE  Retrying'
<1>0. RowsAttempted /\ OnlyAutomatic /\ CopiesScheduled /\ EditsAttempted
  BY DEF Retrying
<1>1. CASE UNCHANGED vars
  BY <1>0, <1>1 DEF vars, Retrying, RowsAttempted, OnlyAutomatic, CopiesScheduled, EditsAttempted
<1>2. OnlyAutomatic'
  <2>1. \A k, early : ~AutomaticRetryOf(k, early).manual
    BY DEF AutomaticRetryOf
  <2>2. retryQ' \subseteq retryQ \/ \E k, early : retryQ' = retryQ \cup {AutomaticRetryOf(k, early)}
    <3>1. CASE Operators
      <4>1. ASSUME NEW k \in Keys PROVE ~RequestManualRetry(k)
        BY DEF RequestManualRetry
      <4> QED BY <3>1, <4>1 DEF Operators, RequestRun, PublishRun, PublishRunFails,
              StartScheduledRun, SelectHandoff, queues
    <3>2. CASE Clock \/ Faults
      BY <3>2 DEF Clock, RetryTimeComes, LeaseExpires, Faults, DownloaderDies, InspectorDies,
         EndpointDies, MessageLost, queues
    <3>3. CASE \E d \in Downloaders : DownloaderStep(d) \/ DownloaderReceives(d)
      BY <3>3 DEF DownloaderStep, DownloaderReceives, StartReading, SheetReadFails, ReadSheet,
         StartRetry, RetryFindsActiveRun, ComputeResults, ApplyResults, ClaimHandoff, Redispatch,
         RedispatchFails, MarkReconciled, ReceiveRun, ReceiveRetry, SkipRetry, queues
    <3>4. CASE \E d \in Downloaders, r \in Rows : JobStep(d, r)
      <4>1. PICK d \in Downloaders, r \in Rows : JobStep(d, r)
        BY <3>4
      <4>2. CASE PublishRetry(d, r)
        BY <4>2 DEF PublishRetry
      <4>3. CASE ~PublishRetry(d, r)
        BY <4>1, <4>3 DEF JobStep, MappingFails, ClaimExisting, ClaimNew, StoreDownload,
           CommitDownload, DownloadFails, PublishInspection, PublishInspectionFails,
           PublishRetryFails, RetryHandoff, RetryHandoffConflicts, RetryDispatch,
           RetryDispatchFails, RetryMarkSubmitted, queues
      <4> QED BY <4>2, <4>3
    <3>5. CASE \E i \in Inspectors : ReceiveInspection(i) \/ InspectorStep(i)
      BY <3>5 DEF ReceiveInspection, InspectorStep, InspectMissingFile, BeginInspection, Inspect,
         InspectionRaises, MoveToRejected, MoveToAccepted, CommitVerdict, CommitHandoff,
         Dispatch, DispatchFails, MarkSubmitted, PublishLater, PublishLaterFails, FinalizeRun,
         CloseRun, queues
    <3>6. CASE UNCHANGED vars
      BY <3>6 DEF vars, queues
    <3> QED BY <3>1, <3>2, <3>3, <3>4, <3>5, <3>6 DEF Next
  <2> QED BY <1>0, <2>1, <2>2 DEF OnlyAutomatic
<1>3. ASSUME UNCHANGED rec, UNCHANGED << dl, insp >> PROVE Retrying'
  BY <1>0, <1>2, <1>3 DEF Retrying, RowsAttempted, CopiesScheduled, EditsAttempted
<1>4. ASSUME NEW d \in Downloaders, UNCHANGED insp,
             \/ DownloaderStep(d) \/ DownloaderReceives(d) \/ DownloaderDies(d)
             \/ StartScheduledRun(d) \/ SelectHandoff(d)
      PROVE  Retrying'
  BY <1>0, <1>2, <1>4, WorkersKeepAttempts DEF Retrying, EditsAttempted
<1>5. CASE Operators
  <2>1. CASE RequestRun \/ PublishRun \/ PublishRunFails \/ \E k \in Keys : RequestManualRetry(k)
    BY <1>3, <2>1 DEF RequestRun, PublishRun, PublishRunFails, RequestManualRetry, tables
  <2> QED BY <1>4, <1>5, <2>1 DEF Operators, StartScheduledRun, SelectHandoff
<1>6. CASE Clock
  <2>1. PICK k \in Keys : RetryTimeComes(k) \/ LeaseExpires(k)
    BY <1>6 DEF Clock
  <2>2. PICK new \in {[rec[k] EXCEPT !.timer = "expired"], [rec[k] EXCEPT !.err = "expired"]} :
          rec' = [rec EXCEPT ![k] = new]
    BY <2>1 DEF RetryTimeComes, LeaseExpires, TypeInv, RecOK
  <2>3. new.attempts = rec[k].attempts /\ new.status = rec[k].status
    BY <2>2 DEF TypeInv, RecOK, Records
  <2>4. rec'[k] = new /\ \A h \in Keys \ {k} : rec'[h] = rec[h]
    BY <2>2 DEF TypeInv, RecOK
  <2>5. RowsAttempted'
    BY <1>0, <2>3, <2>4 DEF RowsAttempted, Attempted
  <2>6. UNCHANGED << dl, insp >>
    BY <2>1 DEF RetryTimeComes, LeaseExpires
  <2> QED BY <1>0, <1>2, <2>5, <2>6 DEF Retrying, CopiesScheduled, EditsAttempted
<1>7. ASSUME NEW i \in Inspectors, ReceiveInspection(i) \/ InspectorDies(i) PROVE Retrying'
  <2>1. UNCHANGED << rec, dl >>
    BY <1>7 DEF ReceiveInspection, InspectorDies, tables
  <2>2. insp[i] \in InspectorStates
    BY DEF TypeInv, InspOK, GoodInspectors
  <2>3. \/ UNCHANGED insp
        \/ /\ insp'[i].pc # "commit"
           /\ \A j \in Inspectors : j # i => insp'[j] = insp[j]
    <3>1. CASE InspectorDies(i)
      BY <3>1 DEF InspectorDies, IdleInspector, TypeInv, InspOK
    <3>2. CASE ReceiveInspection(i)
      <4>1. PICK k \in Keys :
              insp' = IF Enabled /\ rec[k].status = "quarantined"
                      THEN [insp EXCEPT ![i].pc = "loaded", ![i].key = k,
                                        ![i].loaded = rec[k], ![i].edit = rec[k]]
                      ELSE IF Enabled
                      THEN [insp EXCEPT ![i].pc = "finalize", ![i].key = k]
                      ELSE insp
        BY <3>2 DEF ReceiveInspection
      <4> QED BY <2>2, <4>1 DEF InspectorStates, TypeInv, InspOK
    <3> QED BY <1>7, <3>1, <3>2
  <2>4. EditsAttempted'
    BY <1>0, <2>3 DEF EditsAttempted
  <2> QED BY <1>0, <1>2, <2>1, <2>4 DEF Retrying, RowsAttempted, CopiesScheduled
<1>8. CASE Faults
  <2>1. CASE EndpointDies \/ MessageLost
    BY <1>3, <2>1 DEF EndpointDies, MessageLost, tables
  <2> QED BY <1>4, <1>7, <1>8, <2>1 DEF Faults, DownloaderDies
<1>9. ASSUME NEW d \in Downloaders, DownloaderStep(d) \/ DownloaderReceives(d) PROVE Retrying'
  <2>1. UNCHANGED insp
    BY <1>9 DEF DownloaderStep, DownloaderReceives, StartReading, SheetReadFails, ReadSheet,
       StartRetry, RetryFindsActiveRun, ComputeResults, ApplyResults, ClaimHandoff, Redispatch,
       RedispatchFails, MarkReconciled, ReceiveRun, ReceiveRetry, SkipRetry
  <2> QED BY <1>4, <1>9, <2>1
<1>10. ASSUME NEW d \in Downloaders, NEW r \in Rows, JobStep(d, r) PROVE Retrying'
  <2>1. RowsAttempted' /\ UNCHANGED insp
    BY <1>0, <1>10, JobsKeepAttempts, JobStepFrame
  <2>2. \A c \in Downloaders : dl'[c] = dl[c] \/ dl'[c] = IdleWorker
    BY <1>10 DEF JobStep, MappingFails, ClaimExisting, ClaimNew, StoreDownload, CommitDownload,
       DownloadFails, PublishInspection, PublishInspectionFails, PublishRetry,
       PublishRetryFails, RetryHandoff, RetryHandoffConflicts, RetryDispatch,
       RetryDispatchFails, RetryMarkSubmitted, TypeInv, DlOK
  <2>3. CopiesScheduled'
    BY <1>0, <2>2 DEF CopiesScheduled, IdleWorker
  <2> QED BY <1>0, <1>2, <2>1, <2>3 DEF Retrying, EditsAttempted
<1>11. ASSUME NEW i \in Inspectors, InspectorStep(i) PROVE Retrying'
  <2>1. UNCHANGED dl
    BY <1>11 DEF InspectorStep, InspectMissingFile, BeginInspection, Inspect,
       InspectionRaises, MoveToRejected, MoveToAccepted, CommitVerdict, CommitHandoff,
       Dispatch, DispatchFails, MarkSubmitted, PublishLater, PublishLaterFails, FinalizeRun,
       CloseRun
  <2> QED BY <1>0, <1>2, <1>11, <2>1, InspectorsKeepAttempts DEF Retrying, CopiesScheduled
<1> QED BY <1>1, <1>5, <1>6, <1>7, <1>8, <1>9, <1>10, <1>11 DEF Next

\* No record goes through more attempts than the backoff list allows for,
\* whichever workers die and whichever messages are lost.
THEOREM RetriesEnd ==
    Orderly /\ ~ManualRetry => (Spec /\ []RecordsApart => []RetriesAreBounded)
<1> SUFFICES ASSUME Orderly, ~ManualRetry PROVE Spec /\ []RecordsApart => []RetriesAreBounded
  OBVIOUS
<1>1. Init => Retrying
  <2> SUFFICES ASSUME Init PROVE Retrying
    OBVIOUS
  <2>1. AutomaticRetries \in Nat
    BY AutomaticRetriesAssumption
  <2> QED BY <2>1 DEF Init, Retrying, RowsAttempted, Attempted, OnlyAutomatic, CopiesScheduled,
          EditsAttempted, NoRecord, IdleWorker, IdleInspector
<1>2. RecordsApart /\ TypeInv /\ TypeInv' /\ Custody /\ Handoff /\ Retrying /\ [Next]_vars => Retrying'
  BY RetryingInductive
<1>3. Retrying => RetriesAreBounded
  BY DEF Retrying, RowsAttempted, Attempted, RetriesAreBounded
<1> QED BY <1>1, <1>2, <1>3, TypesInvariant, CustodyInvariant, HandoffInvariant, PTL DEF Spec
==============================================================================
