------------------------ MODULE MCRecordingIngestion ------------------------
(* Instances of RecordingIngestion for TLC. *)
EXTENDS RecordingHandoff, TLC

CONSTANTS r1, r2, k1, k2, d1, d2, i1, i2, wav1, wav2

KeyPerRow == (r1 :> k1) @@ (r2 :> k2)
SameKey == (r1 :> k1) @@ (r2 :> k1)
OneRow == r1 :> k1
SameName == (k1 :> wav1) @@ (k2 :> wav1)
OneName == k1 :> wav1

\* The processes of one kind of worker are interchangeable.
WorkerSymmetry == Permutations(Inspectors) \cup Permutations(Downloaders)

\* A bound.  Two parts of one state space: one recording in several runs, with one inspector
\* at work and no reconciler; and two recordings in one run, with one download worker.
AtMostOne(busy) == \A x, y \in busy : x = y
RunsOrRecordings ==
    \/ /\ rec[k2].status = "absent" /\ \A d \in Downloaders : job[d][r2] = NoJob
       /\ AtMostOne({i \in Inspectors : insp[i] # IdleInspector})
       /\ \A d \in Downloaders : dl[d].pc # "reclaim"
    \/ /\ \A n \in RunIds \ {1} : runs[n].status = "absent"
       /\ AtMostOne({d \in Downloaders : dl[d] # IdleWorker})
       /\ retryQ = {}
=============================================================================
