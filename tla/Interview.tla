----------------------------- MODULE Interview -----------------------------
(* The hiring interviews: the jobs and candidates of app/routers/           *)
(* interviews.py, the candidate's portal of app/routers/interview_portal.py *)
(* and process_interview_answer_task of app/worker.py, which grades the     *)
(* answers.  All the candidate rows of an instance belong to one person     *)
(* (one e-mail, one national ID): the rows of different people do not meet. *)
(* Endpoints without an await, a publish or a bcrypt call are one step.     *)
EXTENDS Integers, FiniteSets, SequencesExt

CONSTANTS None,
          Candidates,        \* rows of interview_candidates
          Jobs, Sessions,    \* rows of interview_jobs and interview_sessions
          Questions,         \* places of a session's question list
          QuestionCounts,    \* lengths build_hybrid_interview_questions may return
          Tabs,              \* portal requests that submit an answer
          Staff,             \* HR requests that convert a candidate
          Codes,             \* employee codes HR may give
          Workers,           \* processes that consume the "celery" queue
          HasNationalId,     \* whether the person gave a national ID
          MaxJobEdits,       \* bounds: changes of jobs after their creation,
          MaxDecisions,      \* decisions, notifications and archivings by HR,
          MaxWaits,          \* passings of a window, a cooldown, an expiry or a time limit,
          MaxFaults          \* requests and workers that die, a broker that refuses

ASSUME InterviewAssumption ==
    /\ QuestionCounts \subseteq Nat
    /\ Questions \subseteq Nat \ {0}
    /\ \A n \in QuestionCounts : 1..n \subseteq Questions
    /\ HasNationalId \in BOOLEAN
    /\ {MaxJobEdits, MaxDecisions, MaxWaits, MaxFaults} \subseteq Nat

VARIABLES jobs,       \* interview_jobs: status, mcq_enabled
          cand,       \* interview_candidates
          order,      \* the candidates by applied_at
          sess,       \* interview_sessions with their question count and MCQ submission
          ans,        \* interview_answers per session and question
          queue,      \* messages of process_interview_answer_task per answer
          tab, hr, wk,  \* the portal requests, the conversions, the workers
          employees,  \* the candidate each employee code was made for
          count       \* the bounded counters

rows == << jobs, cand, order, sess, ans, employees >>
vars == << jobs, cand, order, sess, ans, queue, tab, hr, wk, employees, count >>

JobStatuses == {"absent", "draft", "open", "closed"}   \* "draft" stands for "paused" too
CandidateStatuses == {"absent", "applied", "interviewing", "evaluated", "shortlisted",
                      "accepted", "rejected", "archived", "deleted"}
SessionStatuses == {"absent", "invited", "in_progress", "completed", "expired",
                    "cancelled", "deleted"}
AnswerStatuses == {"absent", "pending", "processing", "evaluated", "failed"}

JobRow == [status : JobStatuses, mcq : BOOLEAN]

\* recent: applied_at is within the duplicate window; done: completed_at is null,
\* within the cooldown or older; old: archived_at is beyond the retention.
CandidateRow == [status : CandidateStatuses, job : Jobs \cup {None}, recent : BOOLEAN,
                 done : {"no", "cooling", "past"}, old : BOOLEAN,
                 employee : Codes \cup {None}]

\* late: expires_at has passed; mcq: interview_mcq_submissions has the session's row.
SessionRow == [cand : Candidates \cup {None}, job : Jobs \cup {None},
               status : SessionStatuses, late : BOOLEAN, count : QuestionCounts \cup {0},
               mcq : BOOLEAN]

\* text: which submission the row stores (0 before one); graded: the one its score is
\* for; overdue: the time limit since started_at has passed.
AnswerRow == [status : AnswerStatuses, text : 0..Cardinality(Tabs),
              graded : 0..Cardinality(Tabs), overdue : BOOLEAN]

NoAnswer == [status |-> "absent", text |-> 0, graded |-> 0, overdue |-> FALSE]
NoSession == [cand |-> None, job |-> None, status |-> "absent", late |-> FALSE,
              count |-> 0, mcq |-> FALSE]
NoCandidate == [status |-> "absent", job |-> None, recent |-> FALSE, done |-> "no",
                old |-> FALSE, employee |-> None]
NoJob == [status |-> "absent", mcq |-> FALSE]
IdleTab == [pc |-> "idle", s |-> None, q |-> 0, row |-> FALSE, status |-> "absent"]
IdleStaff == [pc |-> "idle", cand |-> None, code |-> None]
IdleWorker == [pc |-> "idle", s |-> None, q |-> 0, text |-> 0,
               cand |-> NoCandidate, sess |-> NoSession, job |-> NoJob]

Init ==
    /\ jobs = [j \in Jobs |-> NoJob]
    /\ cand = [c \in Candidates |-> NoCandidate]
    /\ order = << >>
    /\ sess = [s \in Sessions |-> NoSession]
    /\ ans = [s \in Sessions |-> [q \in Questions |-> NoAnswer]]
    /\ queue = [s \in Sessions |-> [q \in Questions |-> 0]]
    /\ tab = [t \in Tabs |-> IdleTab]
    /\ hr = [h \in Staff |-> IdleStaff]
    /\ wk = [w \in Workers |-> IdleWorker]
    /\ employees = [k \in Codes |-> None]
    /\ count = [edits |-> 0, decisions |-> 0, waits |-> 0, faults |-> 0]

Fault ==
    /\ count.faults < MaxFaults
    /\ count' = [count EXCEPT !.faults = @ + 1]

Decision ==
    /\ count.decisions < MaxDecisions
    /\ count' = [count EXCEPT !.decisions = @ + 1]

Exists(c) == cand[c].status \notin {"absent", "deleted"}
Present(s) == sess[s].status \notin {"absent", "deleted"}
SetStatus(c, status) == cand' = [cand EXCEPT ![c].status = status]

----------------------------------------------------------------------------
(* Jobs. *)

CreateJob(j) ==
    /\ jobs[j].status = "absent"
    /\ \E status \in JobStatuses \ {"absent"}, mcq \in BOOLEAN :
          jobs' = [jobs EXCEPT ![j] = [status |-> status, mcq |-> mcq]]
    /\ UNCHANGED << cand, order, sess, ans, queue, tab, hr, wk, employees, count >>

UpdateJob(j) ==
    /\ jobs[j].status # "absent"
    /\ count.edits < MaxJobEdits
    /\ count' = [count EXCEPT !.edits = @ + 1]
    /\ \E status \in JobStatuses \ {"absent"}, mcq \in BOOLEAN :
          jobs' = [jobs EXCEPT ![j] = [status |-> status, mcq |-> mcq]]
    /\ UNCHANGED << cand, order, sess, ans, queue, tab, hr, wk, employees >>

----------------------------------------------------------------------------
(* How an application begins.  The row is found by e-mail, phone or national *)
(* ID, so each row of the person matches.                                    *)

\* The unique constraint on (job_id, contact_email_normalized).
JobFree(j, c) == \A d \in Candidates \ {c} : Exists(d) => cand[d].job # j

NewRow(j) == [NoCandidate EXCEPT !.status = "applied", !.job = j, !.recent = TRUE]

\* candidate.applied_at = now
Applied(c) == Append(SelectSeq(order, LAMBDA d : d # c), c)

Opened(c, j, n) == [NoSession EXCEPT !.cand = c, !.job = j, !.status = "invited", !.count = n]

CreateCandidate(c, j) ==
    /\ cand[c].status = "absent"
    /\ jobs[j].status \notin {"absent", "closed"}
    /\ JobFree(j, c)
    /\ cand' = [cand EXCEPT ![c] = NewRow(j)]
    /\ order' = Applied(c)
    /\ UNCHANGED << jobs, sess, ans, queue, tab, hr, wk, employees, count >>

\* resolve_public_candidate_eligibility: the latest row decides.
Eligible == order # << >> => cand[Last(order)].done # "cooling"
Reused(j) ==
    IF order = << >> THEN {}
    ELSE {c \in {Last(order)} : cand[c].job = j \/ cand[c].recent}

\* _create_registered_interview_session
RegisteredSession(c, j, s, n) ==
    /\ sess[s].status = "absent"
    /\ n > 0
    /\ sess' = [x \in Sessions |->
                  IF x = s THEN Opened(c, j, n)
                  ELSE IF sess[x].cand = c /\ sess[x].status \in {"invited", "in_progress"}
                       THEN [sess[x] EXCEPT !.status = "cancelled"]
                       ELSE sess[x]]

\* Slip: the job of a reused row is set without the unique constraint.
RegisterAgainAnywhere(c, j) ==
    /\ c \in Reused(j)
    /\ cand' = [cand EXCEPT ![c] = [NewRow(j) EXCEPT !.employee = cand[c].employee]]

\* The reused row is taken back to its start and may move to another job: only the
\* unique constraint keeps it off a job that another row of the person holds.
RegisterAgain(c, j) ==
    /\ c \in Reused(j)
    /\ JobFree(j, c)
    /\ cand' = [cand EXCEPT ![c] = [NewRow(j) EXCEPT !.employee = cand[c].employee]]

RegisterNew(c, j) ==
    /\ Reused(j) = {}
    /\ JobFree(j, c)
    /\ cand[c].status = "absent"
    /\ cand' = [cand EXCEPT ![c] = NewRow(j)]

Register(c, j, s) ==
    /\ jobs[j].status = "open"
    /\ Eligible
    /\ RegisterAgain(c, j) \/ RegisterNew(c, j)
    /\ \E n \in QuestionCounts : RegisteredSession(c, j, s, n)
    /\ order' = Applied(c)
    /\ UNCHANGED << jobs, ans, queue, tab, hr, wk, employees, count >>

----------------------------------------------------------------------------
(* What HR does with a candidate. *)

\* VALID_TRANSITIONS; "screening" is left out, since no endpoint sets it.
ValidTransitions ==
    [ applied      |-> {"interviewing", "rejected", "archived"},
      interviewing |-> {"evaluated", "rejected", "archived"},
      evaluated    |-> {"shortlisted", "accepted", "rejected", "archived"},
      shortlisted  |-> {"accepted", "rejected", "archived"},
      accepted     |-> {"rejected", "archived"},
      rejected     |-> {"applied", "shortlisted", "accepted", "archived"},
      archived     |-> {"applied", "accepted"} ]

Transition(c, to) ==
    /\ Exists(c)
    /\ to \in ValidTransitions[cand[c].status]
    /\ cand' = [cand EXCEPT ![c].status = to,
                            ![c].old = IF to = "archived" THEN FALSE ELSE @,
                            ![c].done = IF to = "accepted" /\ @ = "no" THEN "cooling" ELSE @]

Decide(c, to) ==
    /\ Decision
    /\ Transition(c, to)
    /\ UNCHANGED << jobs, order, sess, ans, queue, tab, hr, wk, employees >>

Reject(c) == Decide(c, "rejected")
Archive(c) == Decide(c, "archived")
Shortlist(c) == Decide(c, "shortlisted")
Accept(c) == Decide(c, "accepted")

Restore(c) ==
    /\ cand[c].status = "archived"
    /\ cand' = [cand EXCEPT ![c].status = "applied", ![c].old = FALSE]
    /\ UNCHANGED << jobs, order, sess, ans, queue, tab, hr, wk, employees, count >>

\* Skips the transition graph.
BulkArchive(C) ==
    /\ Decision
    /\ \E c \in C : Exists(c) /\ cand[c].status # "archived"
    /\ cand' = [c \in Candidates |->
                  IF c \in C /\ Exists(c) /\ cand[c].status # "archived"
                  THEN [cand[c] EXCEPT !.status = "archived", !.old = FALSE]
                  ELSE cand[c]]
    /\ UNCHANGED << jobs, order, sess, ans, queue, tab, hr, wk, employees >>

\* The candidate's older sessions stay usable.
Invite(c, s) ==
    /\ Exists(c)
    /\ sess[s].status = "absent"
    /\ \/ Transition(c, "interviewing")
       \/ cand[c].status = "interviewing" /\ UNCHANGED cand
    /\ \E n \in QuestionCounts \ {0} :
          sess' = [sess EXCEPT ![s] = Opened(c, cand[c].job, n)]
    /\ UNCHANGED << jobs, order, ans, queue, tab, hr, wk, employees, count >>

\* Template "interview_invite": a session for a candidate of any status.
Notify(c, s) ==
    /\ Exists(c)
    /\ Decision
    /\ sess[s].status = "absent"
    /\ \E n \in QuestionCounts \ {0} :
          sess' = [sess EXCEPT ![s] = Opened(c, cand[c].job, n)]
    /\ SetStatus(c, "interviewing")
    /\ UNCHANGED << jobs, order, ans, queue, tab, hr, wk, employees >>

\* For a job without questions the loop goes on and the final commit keeps the session.
BulkNotify(c, s) ==
    /\ Exists(c)
    /\ Decision
    /\ sess[s].status = "absent"
    /\ \E n \in QuestionCounts :
          /\ sess' = [sess EXCEPT ![s] = Opened(c, cand[c].job, n)]
          /\ IF n > 0 THEN SetStatus(c, "interviewing") ELSE UNCHANGED cand
    /\ UNCHANGED << jobs, order, ans, queue, tab, hr, wk, employees >>

\* The unique employee_code and national_id_hash of employees.
CodeFree(code) == employees[code] = None
NationalIdFree == HasNationalId => \A k \in Codes : employees[k] = None

\* The request reads the candidate and checks; bcrypt takes its time.
ConvertBegin(h, c, code) ==
    /\ hr[h].pc = "idle"
    /\ cand[c].employee = None
    /\ cand[c].status = "accepted"
    /\ CodeFree(code)
    /\ NationalIdFree
    /\ hr' = [hr EXCEPT ![h] = [pc |-> "hashing", cand |-> c, code |-> code]]
    /\ UNCHANGED << jobs, cand, order, sess, ans, queue, tab, wk, employees, count >>

\* Slip: the national ID is only checked when the request begins.
ConvertUnchecked(h) ==
    LET c == hr[h].cand code == hr[h].code IN
    /\ hr[h].pc = "hashing"
    /\ Exists(c)
    /\ CodeFree(code)
    /\ employees' = [employees EXCEPT ![code] = c]
    /\ cand' = [cand EXCEPT ![c].employee = code]
    /\ hr' = [hr EXCEPT ![h] = IdleStaff]
    /\ UNCHANGED << jobs, order, sess, ans, queue, tab, wk, count >>

\* Inserts the employee; only converted_employee_id is written to the candidate.
ConvertCommit(h) ==
    LET c == hr[h].cand code == hr[h].code IN
    /\ hr[h].pc = "hashing"
    /\ Exists(c)
    /\ CodeFree(code)
    /\ NationalIdFree
    /\ employees' = [employees EXCEPT ![code] = c]
    /\ cand' = [cand EXCEPT ![c].employee = code]
    /\ hr' = [hr EXCEPT ![h] = IdleStaff]
    /\ UNCHANGED << jobs, order, sess, ans, queue, tab, wk, count >>

\* A constraint or the missing row fails the commit; nothing is stored.
ConvertFails(h) ==
    /\ hr[h].pc = "hashing"
    /\ ~ (Exists(hr[h].cand) /\ CodeFree(hr[h].code) /\ NationalIdFree)
    /\ hr' = [hr EXCEPT ![h] = IdleStaff]
    /\ UNCHANGED << rows, queue, tab, wk, count >>

\* purge_archived_interview_candidates; the rows below the candidate go with it.
Purge ==
    LET gone == {c \in Candidates : cand[c].status = "archived" /\ cand[c].old} IN
    /\ gone # {}
    /\ cand' = [c \in Candidates |->
                  IF c \in gone THEN [NoCandidate EXCEPT !.status = "deleted"] ELSE cand[c]]
    /\ order' = SelectSeq(order, LAMBDA c : c \notin gone)
    /\ sess' = [s \in Sessions |->
                  IF sess[s].cand \in gone THEN [NoSession EXCEPT !.status = "deleted"]
                  ELSE sess[s]]
    /\ ans' = [s \in Sessions |->
                  IF sess[s].cand \in gone THEN [q \in Questions |-> NoAnswer] ELSE ans[s]]
    /\ UNCHANGED << jobs, queue, tab, hr, wk, employees, count >>

----------------------------------------------------------------------------
(* Time. *)

Wait ==
    /\ count.waits < MaxWaits
    /\ count' = [count EXCEPT !.waits = @ + 1]

TimePasses(c) ==
    /\ Wait
    /\ \/ cand[c].recent /\ cand' = [cand EXCEPT ![c].recent = FALSE]
       \/ cand[c].done = "cooling" /\ cand' = [cand EXCEPT ![c].done = "past"]
       \/ /\ cand[c].status = "archived" /\ ~ cand[c].old
          /\ cand' = [cand EXCEPT ![c].old = TRUE]
    /\ UNCHANGED << jobs, order, sess, ans, queue, tab, hr, wk, employees >>

SessionExpires(s) ==
    /\ Wait
    /\ Present(s) /\ ~ sess[s].late
    /\ sess' = [sess EXCEPT ![s].late = TRUE]
    /\ UNCHANGED << jobs, cand, order, ans, queue, tab, hr, wk, employees >>

TimeLimitPasses(s, q) ==
    /\ Wait
    /\ ans[s][q].status = "pending" /\ ans[s][q].text = 0 /\ ~ ans[s][q].overdue
    /\ ans' = [ans EXCEPT ![s][q].overdue = TRUE]
    /\ UNCHANGED << jobs, cand, order, sess, queue, tab, hr, wk, employees >>

----------------------------------------------------------------------------
(* sync_candidate_interview_state.  S, A and J are the sessions, answers and *)
(* jobs as the caller's database session sees them, me the candidate; the    *)
(* MCQ submissions of T are queried.                                         *)

Terminal == {"evaluated", "failed"}
Heard(c, S) == {s \in Sessions : S[s].cand = c /\ S[s].status = "completed"}

\* Slip: only the number of answers counts.
ReadyUngraded(c, me, S, A, J, T) ==
    LET heard == Heard(c, S)
        stored == {p \in heard \X Questions : A[p[1]][p[2]].status # "absent"}
        expected == {p \in heard \X Questions : p[2] <= S[p[1]].count}
    IN /\ expected # {}
       /\ Cardinality(stored) >= Cardinality(expected)
       /\ J[me.job].mcq => \E s \in Sessions : T[s].cand = c /\ T[s].mcq

\* Slip: a failed answer counts as unfinished.
ReadyGraded(c, me, S, A, J, T) ==
    ReadyUngraded(c, me, S, A, J, T)
    /\ \A s \in Heard(c, S), q \in Questions : A[s][q].status \in {"absent", "evaluated"}

Ready(c, me, S, A, J, T) ==
    LET heard == Heard(c, S)
        stored == {p \in heard \X Questions : A[p[1]][p[2]].status # "absent"}
        expected == {p \in heard \X Questions : p[2] <= S[p[1]].count}
    IN /\ expected # {}
       /\ Cardinality(stored) >= Cardinality(expected)
       /\ \A p \in stored : A[p[1]][p[2]].status \in Terminal
       /\ J[me.job].mcq => \E s \in Sessions : T[s].cand = c /\ T[s].mcq

Synced(c, me, S, A, J, T) ==
    IF Ready(c, me, S, A, J, T) /\ me.status = "interviewing" THEN "evaluated" ELSE me.status

----------------------------------------------------------------------------
(* The portal.  Each request finds its session by the token. *)

\* _get_current_interview_session
ExpiredVisit(s) ==
    LET c == sess[s].cand IN
    /\ Present(s) /\ sess[s].late
    /\ sess' = [sess EXCEPT ![s].status = "expired"]
    /\ cand' = [cand EXCEPT ![c].status = IF @ = "interviewing" THEN "evaluated" ELSE @]
    /\ UNCHANGED << jobs, order, ans, queue, tab, hr, wk, employees, count >>

Admitted(s) == Present(s) /\ ~ sess[s].late /\ sess[s].status # "cancelled"

\* The session as a request leaves it that found it in the given status.
Begun(s, seen) ==
    sess' = [sess EXCEPT ![s].status = IF seen = "invited" THEN "in_progress" ELSE @]

StartQuestion(s, q) ==
    /\ Admitted(s)
    /\ q <= sess[s].count
    /\ ans[s][q].status = "absent"
    /\ Begun(s, sess[s].status)
    /\ ans' = [ans EXCEPT ![s][q].status = "pending"]
    /\ UNCHANGED << jobs, cand, order, queue, tab, hr, wk, employees, count >>

\* An empty bank is replaced by the default one, so grading always has questions.
SubmitMcq(s) ==
    LET c == sess[s].cand IN
    /\ Admitted(s)
    /\ jobs[sess[s].job].mcq
    /\ ~ sess[s].mcq
    /\ sess' = [sess EXCEPT ![s].mcq = TRUE,
                            ![s].status = IF @ = "invited" THEN "in_progress" ELSE @]
    /\ SetStatus(c, Synced(c, cand[c], sess', ans, jobs, sess'))
    /\ UNCHANGED << jobs, order, ans, queue, tab, hr, wk, employees, count >>

\* submit_interview_answer up to the await on the uploaded audio.
SubmitBegin(t, s, q) ==
    /\ tab[t].pc = "idle"
    /\ Admitted(s)
    /\ q <= sess[s].count
    /\ ans[s][q].text = 0
    /\ tab' = [tab EXCEPT ![t] = [pc |-> "reading", s |-> s, q |-> q,
                                  row |-> ans[s][q].status # "absent",
                                  status |-> sess[s].status]]
    /\ UNCHANGED << rows, queue, hr, wk, count >>

\* The row read before the await is overwritten whatever has become of it, in the
\* columns whose value differs from the copy: the status "pending" does not.
SubmitCommit(t) ==
    LET s == tab[t].s q == tab[t].q row == ans[s][q] IN
    /\ tab[t].pc = "reading"
    /\ Present(s)
    /\ tab[t].row \/ row.status = "absent"
    /\ Begun(s, tab[t].status)
    /\ IF row.overdue
       THEN /\ ans' = [ans EXCEPT ![s][q].text = @ + 1, ![s][q].graded = row.text + 1,
                                  ![s][q].status = "evaluated"]
            /\ tab' = [tab EXCEPT ![t] = IdleTab]
       ELSE /\ ans' = [ans EXCEPT ![s][q].text = @ + 1,
                                  ![s][q].status = IF tab[t].row THEN @ ELSE "pending"]
            /\ tab' = [tab EXCEPT ![t].pc = "publishing"]
    /\ UNCHANGED << jobs, cand, order, queue, hr, wk, employees, count >>

\* The unique (session_id, question_id), or the row is gone: error 500.
SubmitConflict(t) ==
    /\ tab[t].pc = "reading"
    /\ ~ Present(tab[t].s) \/ (~ tab[t].row /\ ans[tab[t].s][tab[t].q].status # "absent")
    /\ tab' = [tab EXCEPT ![t] = IdleTab]
    /\ UNCHANGED << rows, queue, hr, wk, count >>

Publish(t) ==
    /\ tab[t].pc = "publishing"
    /\ queue' = [queue EXCEPT ![tab[t].s][tab[t].q] = @ + 1]
    /\ tab' = [tab EXCEPT ![t] = IdleTab]
    /\ UNCHANGED << rows, hr, wk, count >>

\* The broker refuses: the row is set to failed, the candidate's state is not synced.
PublishFails(t) ==
    /\ tab[t].pc = "publishing"
    /\ Fault
    /\ ans' = [ans EXCEPT ![tab[t].s][tab[t].q].status =
                  IF @ = "absent" THEN @ ELSE "failed"]
    /\ tab' = [tab EXCEPT ![t] = IdleTab]
    /\ UNCHANGED << jobs, cand, order, sess, queue, hr, wk, employees >>

RequestDies(t) ==
    /\ tab[t].pc # "idle"
    /\ Fault
    /\ tab' = [tab EXCEPT ![t] = IdleTab]
    /\ UNCHANGED << rows, queue, hr, wk >>

\* Completing does not recompute the candidate's state.
Complete(s) ==
    LET c == sess[s].cand IN
    /\ Admitted(s)
    /\ Cardinality({q \in Questions : ans[s][q].text > 0}) >= sess[s].count
    /\ jobs[sess[s].job].mcq => sess[s].mcq
    /\ sess[s].status # "completed"
    /\ sess' = [sess EXCEPT ![s].status = "completed"]
    /\ cand' = [cand EXCEPT ![c].done = "cooling"]
    /\ UNCHANGED << jobs, order, ans, queue, tab, hr, wk, employees, count >>

----------------------------------------------------------------------------
(* process_interview_answer_task. *)

Receive(w, s, q) ==
    /\ wk[w].pc = "idle"
    /\ queue[s][q] > 0
    /\ queue' = [queue EXCEPT ![s][q] = @ - 1]
    /\ IF ans[s][q].status \in {"absent", "evaluated"}
       THEN UNCHANGED << ans, wk >>
       ELSE /\ ans' = [ans EXCEPT ![s][q].status = "processing"]
            /\ wk' = [wk EXCEPT ![w] = [IdleWorker EXCEPT !.pc = "reading", !.s = s, !.q = q,
                                                          !.text = ans[s][q].text]]
    /\ UNCHANGED << jobs, cand, order, sess, tab, hr, employees, count >>

\* Building the prompt loads the candidate, the session and its job; these copies are
\* the ones that the worker's database session keeps until the answer is stored.
Consult(w) ==
    LET s == wk[w].s IN
    /\ wk[w].pc = "reading"
    /\ Present(s)
    /\ wk' = [wk EXCEPT ![w].pc = "grading", ![w].cand = cand[sess[s].cand],
                        ![w].sess = sess[s], ![w].job = jobs[sess[s].job]]
    /\ UNCHANGED << rows, queue, tab, hr, count >>

\* The score is stored and the candidate synced: sessions and answers other than the
\* task's own are read now, and a status is written only if the copy's changes.
Grade(w) ==
    LET s == wk[w].s q == wk[w].q c == sess[s].cand
        graded == [ans EXCEPT ![s][q].status = "evaluated", ![s][q].graded = wk[w].text]
        seen == Synced(c, wk[w].cand, [sess EXCEPT ![s] = wk[w].sess], graded,
                       [jobs EXCEPT ![wk[w].sess.job] = wk[w].job], sess)
    IN
    /\ wk[w].pc = "grading"
    /\ Present(s)
    /\ ans' = graded
    /\ SetStatus(c, IF seen # wk[w].cand.status THEN seen ELSE cand[c].status)
    /\ wk' = [wk EXCEPT ![w] = IdleWorker]
    /\ UNCHANGED << jobs, order, sess, queue, tab, hr, employees, count >>

\* Slip: the handler forgets the answer.
GradeForgets(w) ==
    /\ wk[w].pc \in {"reading", "grading"}
    /\ wk' = [wk EXCEPT ![w] = IdleWorker]
    /\ UNCHANGED << rows, queue, tab, hr, count >>

\* Anything that raises: after the rollback everything is read anew.
GradeFails(w) ==
    LET s == wk[w].s q == wk[w].q c == sess[s].cand
        failed == [ans EXCEPT ![s][q].status = "failed"]
    IN
    /\ wk[w].pc \in {"reading", "grading"}
    /\ IF Present(s)
       THEN /\ ans' = failed
            /\ SetStatus(c, Synced(c, cand[c], sess, failed, jobs, sess))
       ELSE UNCHANGED << ans, cand >>
    /\ wk' = [wk EXCEPT ![w] = IdleWorker]
    /\ UNCHANGED << jobs, order, sess, queue, tab, hr, employees, count >>

WorkerDies(w) ==
    /\ wk[w].pc # "idle"
    /\ Fault
    /\ wk' = [wk EXCEPT ![w] = IdleWorker]
    /\ UNCHANGED << rows, queue, tab, hr >>

----------------------------------------------------------------------------
WorkerStep(w) ==
    \/ \E s \in Sessions, q \in Questions : Receive(w, s, q)
    \/ Consult(w) \/ Grade(w) \/ GradeFails(w)

Next ==
    \/ \E j \in Jobs : CreateJob(j) \/ UpdateJob(j)
    \/ \E c \in Candidates, j \in Jobs : CreateCandidate(c, j)
    \/ \E c \in Candidates, j \in Jobs, s \in Sessions : Register(c, j, s)
    \/ \E c \in Candidates : Reject(c) \/ Archive(c) \/ Shortlist(c) \/ Accept(c) \/ Restore(c)
    \/ \E C \in SUBSET Candidates : BulkArchive(C)
    \/ \E c \in Candidates, s \in Sessions : Invite(c, s) \/ Notify(c, s) \/ BulkNotify(c, s)
    \/ \E h \in Staff, c \in Candidates, k \in Codes : ConvertBegin(h, c, k)
    \/ \E h \in Staff : ConvertCommit(h) \/ ConvertFails(h)
    \/ Purge
    \/ \E c \in Candidates : TimePasses(c)
    \/ \E s \in Sessions : SessionExpires(s) \/ ExpiredVisit(s) \/ SubmitMcq(s) \/ Complete(s)
    \/ \E s \in Sessions, q \in Questions : TimeLimitPasses(s, q) \/ StartQuestion(s, q)
    \/ \E t \in Tabs, s \in Sessions, q \in Questions : SubmitBegin(t, s, q)
    \/ \E t \in Tabs : \/ SubmitCommit(t) \/ SubmitConflict(t) \/ Publish(t)
                       \/ PublishFails(t) \/ RequestDies(t)
    \/ \E w \in Workers : WorkerStep(w) \/ WorkerDies(w)

Spec == Init /\ [][Next]_vars

\* A request that has begun to publish ends, and a worker takes messages and ends tasks.
FairSpec ==
    /\ Spec
    /\ \A t \in Tabs : WF_vars(Publish(t))
    /\ \A w \in Workers : WF_vars(WorkerStep(w))

----------------------------------------------------------------------------
TypeOK ==
    /\ jobs \in [Jobs -> JobRow]
    /\ cand \in [Candidates -> CandidateRow]
    /\ order \in Seq(Candidates) /\ IsInjective(order)
    /\ sess \in [Sessions -> SessionRow]
    /\ ans \in [Sessions -> [Questions -> AnswerRow]]
    /\ queue \in [Sessions -> [Questions -> Nat]]
    /\ \A t \in Tabs : tab[t].pc \in {"idle", "reading", "publishing"}
    /\ \A h \in Staff : hr[h].pc \in {"idle", "hashing"}
    /\ \A w \in Workers : /\ wk[w].pc \in {"idle", "reading", "grading"}
                          /\ wk[w].cand \in CandidateRow
                          /\ wk[w].sess \in SessionRow
    /\ employees \in [Codes -> Candidates \cup {None}]

\* A person has at most one application per job, also after a reused application has
\* moved to another job: the registration checks only the rows it does not reuse.
OneRowPerJob ==
    \A c, d \in Candidates :
        Exists(c) /\ Exists(d) /\ cand[c].job = cand[d].job => c = d

\* A person with a national ID is hired once, whatever rows, codes and HR requests the
\* conversions used, and after the retention has deleted the row that says so.
OneEmployeePerPerson ==
    HasNationalId => Cardinality({k \in Codes : employees[k] # None}) <= 1

\* A candidate cannot answer a question again (tests/test_interview_api_flow.py:187 and 229):
\* so an evaluated answer still stores the submission that its score was given for.
GradesWhatIsStored ==
    \A s \in Sessions, q \in Questions :
        ans[s][q].status = "evaluated" => ans[s][q].graded = ans[s][q].text

\* A candidate becomes evaluated only when the portal has met its session expired, or
\* when one of its completed interviews has every question answered and settled, even
\* though the worker that decides it looks at copies from before the grading.
EvaluatedOnEvidence ==
    [][\A c \in Candidates :
          cand[c].status # "evaluated" /\ cand'[c].status = "evaluated" =>
              \E s \in Sessions :
                  /\ sess[s].cand = c
                  /\ \/ sess'[s].status = "expired"
                     \/ /\ sess'[s].status = "completed"
                        /\ sess[s].count > 0
                        /\ \A q \in 1..sess[s].count : ans'[s][q].status \in Terminal
      ]_vars

\* Every submitted answer is evaluated or failed in the end, unless something dies.
AnswersSettle ==
    \A s \in Sessions, q \in Questions :
        ans[s][q].text > 0 ~> \/ ans[s][q].status \in Terminal \cup {"absent"}
                              \/ count.faults > 0

\* The job of the candidate wants a written test that the candidate has not taken.
TestMissing(c) ==
    jobs[cand[c].job].mcq /\ ~ \E s \in Sessions : sess[s].cand = c /\ sess[s].mcq

Waits(s, q) == ans[s][q].status = "pending" /\ queue[s][q] > 0

\* An interview that the candidate completes while an answer still waits for a worker
\* takes the candidate out of "interviewing", unless something dies.
CompletedSettles ==
    \A s \in Sessions, c \in Candidates :
        /\ sess[s].cand = c /\ sess[s].status = "completed"
        /\ \E q \in Questions : Waits(s, q)
        /\ cand[c].status = "interviewing"
        ~> \/ cand[c].status # "interviewing"
           \/ TestMissing(c)
           \/ count.faults > 0
=============================================================================
