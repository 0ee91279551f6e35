--------------------------- MODULE IngestionRecord ---------------------------
(***************************************************************************)
(* The row of recording_ingestion_records and the pure rules that decide   *)
(* what becomes of it: the failure policy with its bounded backoff, the    *)
(* retry eligibility, the preparation of a retry, the verdicts of the      *)
(* inspection and the handoff.  No state of its own.                       *)
(*                                                                         *)
(* Error categories are abstracted to what the code tells apart:           *)
(*   "automatic"   AUTOMATIC_RETRYABLE_CATEGORIES                          *)
(*   "manual"      the categories only an operator may retry               *)
(*   "final"       every other category                                    *)
(*   "dispatching" the claim mark of the reconciler, "expired" the same    *)
(*                 mark once updated_at is older than the lease            *)
(***************************************************************************)
EXTENDS Naturals, Sequences

CONSTANTS Rows,             \* data rows of the source sheet
          Keys,             \* source keys (source_name:CRDTS)
          BaseNames,        \* file names that recording URLs end in
          MaxRuns,          \* bound: number of ingestion runs ever created
          AutomaticRetries, \* length of RETRY_BACKOFF_MINUTES (3 in the code)
          None              \* SQL NULL

RunIds == 1 .. MaxRuns

ASSUME MaxRunsAssumption == MaxRuns \in Nat
ASSUME AutomaticRetriesAssumption == AutomaticRetries \in Nat

Categories == {"automatic", "manual", "final", "dispatching", "expired"}

ActiveStatuses == {"downloading", "quarantined", "accepted", "handoff_pending"}
SettledStatuses == {"submitted", "failed", "retry_scheduled", "rejected"}
RecordStatuses == {"absent"} \cup ActiveStatuses \cup SettledStatuses

\* The three inspections of a recording, in the order they run.
Checks == {"signature", "malware", "media"}
Unchecked == [c \in Checks |-> "pending"]
AllPassed == [c \in Checks |-> "passed"]

\* A slip: only a refusal of the malware scanner stops the promotion.
PromotableUnlessMalware(checks) == checks["malware"] # "refused"

\* accepted storage requires all three to be passed.
Promotable(checks) == \A c \in Checks : checks[c] = "passed"

Dirs == {"quarantine", "accepted", "rejected"}
\* A path of the storage layout; every suffix is one "-<sha8(source_key)>"
\* that _unique_destination appended to the stem.
Paths == [dir : Dirs, base : BaseNames, suffix : Seq(Keys)]

NullablePath == Paths \cup {None}

Records ==
    [status   : RecordStatuses,
     run      : RunIds \cup {None},       \* ingestion_run_id
     row      : Rows \cup {None},         \* source_row_number
     attempts : Nat,                      \* attempt_count
     timer    : {"unset", "running", "expired"},    \* next_retry_at vs. now
     qpath    : NullablePath,             \* quarantine_file_path
     spath    : NullablePath,             \* stored_file_path
     call     : Nat,                      \* call_id, 0 for NULL
     queued   : BOOLEAN,                  \* pipeline_queued_at is set
     err      : Categories \cup {None},   \* last_error_category
     checks   : [Checks -> {"pending", "passed", "refused"}]]

\* A source key nobody has claimed yet: there is no row.
NoRecord ==
    [status |-> "absent", run |-> None, row |-> None, attempts |-> 0,
     timer |-> "unset", qpath |-> None, spath |-> None, call |-> 0,
     queued |-> FALSE, err |-> None, checks |-> Unchecked]

NewRecord(run, row) ==
    [NoRecord EXCEPT !.status = "downloading", !.run = run, !.row = row,
                     !.attempts = 1]

-----------------------------------------------------------------------------
(* A session writes the columns it changed since it loaded the row and     *)
(* leaves the others to whoever wrote them last.                           *)
Flush(loaded, edited, stored) ==
    [f \in DOMAIN stored |->
        IF edited[f] # loaded[f] THEN edited[f] ELSE stored[f]]

\* A slip: the backoff index is compared with one delay too many.
AutomaticRetryLeftOffByOne(r) == r.attempts =< AutomaticRetries + 1

AutomaticRetryLeft(r) == r.attempts =< AutomaticRetries

\* A slip: the category is lost when the automatic retries are used up.
FailurePolicyForgetsCategory(r, category) ==
    LET again == category = "automatic" /\ AutomaticRetryLeft(r)
    IN  [r EXCEPT !.status = IF again THEN "retry_scheduled" ELSE "failed",
                  !.timer = IF again THEN "running" ELSE "unset",
                  !.err = IF again THEN category ELSE "final"]

ApplyFailurePolicy(r, category) ==
    LET again == category = "automatic" /\ AutomaticRetryLeft(r)
    IN  [r EXCEPT !.status = IF again THEN "retry_scheduled" ELSE "failed",
                  !.timer = IF again THEN "running" ELSE "unset",
                  !.err = category]

MarkFailed(r) ==
    [r EXCEPT !.status = "failed", !.timer = "unset", !.err = "final"]

Quarantined(r, path) ==
    [r EXCEPT !.status = "quarantined", !.qpath = path, !.timer = "unset",
              !.err = None]

Rejected(r, path) ==
    [r EXCEPT !.status = "rejected", !.qpath = path, !.timer = "unset",
              !.err = "final"]

Accepted(r, path) ==
    [r EXCEPT !.status = "accepted", !.spath = path, !.qpath = None,
              !.timer = "unset", !.err = None, !.checks = AllPassed]

\* A slip: the record is marked submitted before the Call is published.
SubmittedBeforeDispatch(r, call) ==
    [r EXCEPT !.status = "submitted", !.call = call, !.queued = TRUE, !.err = None]

HandoffPending(r, call) ==
    [r EXCEPT !.status = "handoff_pending", !.call = call, !.err = None]

Submitted(r) ==
    [r EXCEPT !.status = "submitted", !.queued = TRUE, !.err = None,
              !.timer = "unset"]

-----------------------------------------------------------------------------
\* A slip: an operator's retry is admitted for a rejected record.
RejectedIsRetryable(r, manual) ==
    IF manual THEN r.status \in {"retry_scheduled", "failed", "rejected"}
              ELSE r.status = "retry_scheduled" /\ r.timer # "running"

RetryEligible(r, manual) ==
    IF manual
    THEN \/ r.status = "retry_scheduled"
         \/ r.status = "failed" /\ r.err \in {"automatic", "manual"}
    ELSE r.status = "retry_scheduled" /\ r.timer # "running"

PrepareForRetry(r, run) ==
    LET base == [r EXCEPT !.run = run, !.attempts = @ + 1, !.timer = "unset",
                          !.err = None]
    IN  IF r.call # 0 /\ r.spath # None /\ ~r.queued
          THEN [base EXCEPT !.status = "accepted"]
        ELSE IF r.qpath # None
          THEN [base EXCEPT !.status = "quarantined", !.checks = Unchecked]
        ELSE [base EXCEPT !.status = "downloading", !.spath = None,
                          !.queued = FALSE, !.checks = Unchecked]

\* Rows the reconciler may claim: a committed Call that was never marked
\* queued, unless another reconciler holds an unexpired claim on it.
Reconcilable(r) ==
    /\ r.call # 0
    /\ ~r.queued
    /\ r.status \in {"accepted", "handoff_pending"}
    /\ r.err # "dispatching"
==============================================================================
